---------------------------- MODULE MCByteSearch ----------------------------
(* ByteSearch on every text and argument over a small alphabet: up to MaxHay  *)
(* and MaxArg bytes, counts past the end of the text, and integers below zero *)
(* and above a byte where the int forms take them.                            *)
EXTENDS ByteSearch

CONSTANTS MaxHay, MaxArg

Texts(n) == UNION {[1 .. l -> Byte] : l \in 0 .. n}
Payloads(n) == UNION {[1 .. l -> Byte \ {0}] : l \in 0 .. n}

Call(op, hay, arg, n, c) == [op |-> op, hay |-> hay, arg |-> arg, n |-> n, c |-> c]

MCCalls ==
  {Call(op, t, <<>>, 0, c) : op \in {"find", "rfind"}, t \in Texts(MaxHay), c \in Byte}
  \cup {Call("memchr", t, <<>>, n, c) :
          t \in Texts(MaxHay), n \in 0 .. MaxHay + 1, c \in Byte}
  \cup {Call(op, t, <<>>, 0, c) :
          op \in {"strchr", "strrchr"}, t \in Payloads(MaxHay),
          c \in -ByteMod - 1 .. 2 * ByteMod}
  \cup {Call(op, t, a, 0, 0) :
          op \in {"find_slice", "text_rfind", "starts_with", "ends_with",
                  "span_in", "span_not_in"},
          t \in Texts(MaxHay), a \in Texts(MaxArg)}
  \cup {Call("strpbrk", t, a, 0, 0) : t \in Payloads(MaxHay), a \in Payloads(MaxArg)}
=============================================================================
