------------------------------ MODULE Tokenize ------------------------------
(* strings_tokenize::next (lib/strings_tokenize.sv0), and strtok and strtok_r *)
(* which are the same function: callers that each hold a TokenCursor take     *)
(* turns on one text.  The position lives in the caller; next keeps nothing.  *)
(* A caller passes the separators with every call and may change them.        *)
EXTENDS Integers, Sequences

CONSTANTS Caller,        \* the holders of a cursor
          Byte,          \* the byte values
          Text,          \* the inputs
          Separators     \* the separator sets a caller may pass

ASSUME TokenizeAssumption ==
  /\ Text \subseteq Seq(Byte)
  /\ Separators \subseteq SUBSET Byte

VARIABLES text,          \* the input, never written
          cursor,        \* each caller's TokenCursor
          seps,          \* the separators each caller passes next
          toks           \* history: the tokens each caller was given

vars == <<text, cursor, seps, toks>>

N == Len(text)

\* The byte at offset i, as the code counts.
At(i) == text[i + 1]

-----------------------------------------------------------------------------
\* Mutant of Skip: at most one separator is skipped.
SkipOne(S, i) == IF i < N /\ At(i) \in S THEN i + 1 ELSE i

\* The offset at which a loop stops that starts at i and runs while the bytes
\* are in S (Skip) or outside S (Scan).
Skip(S, i) ==
  CHOOSE j \in i .. N : (\A x \in i .. j - 1 : At(x) \in S) /\ (j < N => At(j) \notin S)
Scan(S, i) ==
  CHOOSE j \in i .. N : (\A x \in i .. j - 1 : At(x) \notin S) /\ (j < N => At(j) \in S)

Init ==
  /\ text \in Text
  /\ cursor = [c \in Caller |-> [pos |-> 0, complete |-> FALSE]]
  /\ seps \in [Caller -> Separators]
  /\ toks = [c \in Caller |-> <<>>]

Token(c, start, end) ==
  [from |-> cursor[c].pos, start |-> start, end |-> end, seps |-> seps[c]]

\* Mutant of Emit: the call resumes behind the separator, as C does.
EmitBehind(c, start, end, next_pos) ==
  /\ cursor' = [cursor EXCEPT ![c].pos = IF next_pos < N THEN next_pos + 1 ELSE N]
  /\ toks' = [toks EXCEPT ![c] = Append(@, Token(c, start, end))]

\* Mutant of Emit: one position for all callers, as strtok keeps it.
EmitShared(c, start, end, next_pos) ==
  /\ cursor' = [d \in Caller |-> [cursor[d] EXCEPT !.pos = next_pos]]
  /\ toks' = [toks EXCEPT ![c] = Append(@, Token(c, start, end))]

\* The caller threads next_pos into its cursor.
Emit(c, start, end, next_pos) ==
  /\ cursor' = [cursor EXCEPT ![c].pos = next_pos]
  /\ toks' = [toks EXCEPT ![c] = Append(@, Token(c, start, end))]

\* Mutant of Complete: the answer leaves no mark.
CompleteUnmarked(c) == UNCHANGED <<cursor, toks>>

\* The caller marks its cursor.
Complete(c) ==
  /\ cursor' = [cursor EXCEPT ![c].complete = TRUE]
  /\ UNCHANGED toks

\* Mutant of NextToken: no second test for the end, between the two loops.
NextTokenEmptyTail(c) ==
  LET S     == seps[c]
      from  == cursor[c].pos
      start == Skip(S, from)
      end   == Scan(S, start)
  IN
  /\ ~cursor[c].complete
  /\ \/ from >= N /\ Complete(c)
     \/ from < N /\ S = {} /\ Emit(c, from, N, N)
     \/ from < N /\ S # {} /\ Emit(c, start, end, end)
  /\ UNCHANGED <<text, seps>>

\* The answer of next(text, S, from).
NextToken(c) ==
  LET S     == seps[c]
      from  == cursor[c].pos
      start == Skip(S, from)
      end   == Scan(S, start)
  IN
  /\ ~cursor[c].complete
  /\ \/ from >= N /\ Complete(c)
     \/ from < N /\ S = {} /\ Emit(c, from, N, N)
     \/ from < N /\ S # {} /\ start >= N /\ Complete(c)
     \/ from < N /\ S # {} /\ start < N /\ Emit(c, start, end, end)
  /\ UNCHANGED <<text, seps>>

ChangeSeparators(c, S) ==
  /\ ~cursor[c].complete
  /\ S # seps[c]
  /\ seps' = [seps EXCEPT ![c] = S]
  /\ UNCHANGED <<text, cursor, toks>>

Next == \E c \in Caller : NextToken(c) \/ \E S \in Separators : ChangeSeparators(c, S)

\* A caller tokenizes until it is told Complete; nothing makes it wait.
Fairness == \A c \in Caller : WF_vars(NextToken(c))

Spec == Init /\ [][Next]_vars /\ Fairness

-----------------------------------------------------------------------------
Tokens == [from : 0 .. N, start : 0 .. N, end : 0 .. N, seps : Separators]

TypeOK ==
  /\ text \in Text
  /\ cursor \in [Caller -> [pos : 0 .. N, complete : BOOLEAN]]
  /\ seps \in [Caller -> Separators]
  /\ toks \in [Caller -> Seq(Tokens)]

Gap(t)  == t.from .. t.start - 1
Body(t) == t.start .. t.end - 1

\* TOK-002, TOK-005: every token is a non-empty, maximal run without a byte of
\* the set it was asked for, and every byte skipped before it is in that set.
TokensMaximal ==
  \A c \in Caller : \A k \in DOMAIN toks[c] :
    LET t == toks[c][k] IN
    /\ t.from <= t.start /\ t.start < t.end /\ t.end <= N
    /\ \A x \in Gap(t) : At(x) \in t.seps
    /\ \A x \in Body(t) : At(x) \notin t.seps
    /\ t.end < N => At(t.end) \in t.seps

\* Each call resumes where the last one ended, so no byte is skipped, dropped or
\* given twice, whatever the other callers do and whichever sets are passed; and
\* a complete cursor has only separators of its last set left.
NothingLost ==
  \A c \in Caller :
    LET last == Len(toks[c]) IN
    /\ \A k \in 1 .. last :
         toks[c][k].from = IF k = 1 THEN 0 ELSE toks[c][k - 1].end
    /\ cursor[c].pos = IF last = 0 THEN 0 ELSE toks[c][last].end
    /\ cursor[c].complete => \A x \in cursor[c].pos .. N - 1 : At(x) \in seps[c]

\* TOK-001, TOK-007: callers are independent.  Two of them that passed the same
\* sets so far were given the same tokens, however their calls interleave and
\* whatever the others pass.
Independent ==
  \A c, d \in Caller : \A k \in DOMAIN toks[c] \cap DOMAIN toks[d] :
    (\A j \in 1 .. k : toks[c][j].seps = toks[d][j].seps)
      => toks[c][k] = toks[d][k]

\* TOK-004: every caller that keeps asking is told Complete.
AllComplete == \A c \in Caller : <>cursor[c].complete
=============================================================================
