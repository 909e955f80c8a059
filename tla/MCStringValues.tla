--------------------------- MODULE MCStringValues ---------------------------
(* Three questions about values in one run. A chain of calls on String and     *)
(* &str values: scalars of one, two and four bytes (A, U+00E9, U+1F600), NUL,  *)
(* and slices that are cut, stray or surrogate; MaxUsize is the length of the  *)
(* longest string, so that the checked additions do overflow. And the two      *)
(* pure functions below them, each fed every input of a set: the validator     *)
(* every byte sequence of up to MaxBytes bytes, the bytes being both ends of   *)
(* every range that RFC 3629 tells apart and one ordinary byte; and ffs every  *)
(* signed value of both widths.                                                *)
EXTENDS StringValues, FindFirstSet

CONSTANTS MaxBytes, Edges

ASSUME InputAssumption == MaxBytes \in Nat /\ Edges \subseteq Octet

VARIABLE fed    \* what is looked at: the chain of calls, or one input

A    == <<65>>
E    == <<195, 169>>
Grin == <<240, 159, 152, 128>>

MCPiece == {A, E, Grin}

MCSource ==
  MCPiece \cup
  {<<>>, Zero, A \o Zero \o A, E \o Zero, <<169>>, <<237, 160, 128>>,
   A \o <<230, 176>>, E \o Grin}

PureInput ==
  {<<"bytes", s>> : s \in UNION {[1 .. n -> Edges] : n \in 0 .. MaxBytes}} \cup
  {<<"int", v>> : v \in Signed(LongWidth)}

MCInit ==
  \/ fed = <<"chain">> /\ Init
  \/ /\ val = Text(<<>>) /\ origin = Detached /\ ans = <<"Ok">>
     /\ fed \in PureInput

\* A pure function leaves everything as it is.
MCNext ==
  /\ UNCHANGED fed
  /\ \/ fed = <<"chain">> /\ Next
     \/ fed # <<"chain">> /\ UNCHANGED vars

MCSpec == MCInit /\ [][MCNext]_<<val, origin, ans, fed>>

\* TEXT-012, TEXT-013, strings_text::validate_utf8: exactly the RFC 3629
\* language is accepted, and a rejection reports the length of the longest
\* well-formed prefix: whether it is cut short, overlong, a surrogate, stray or
\* too large, and whatever stands before it within MaxBytes bytes.
ValidatorExact == fed[1] = "bytes" => AnswerFits(fed[2], ValidateUtf8(fed[2]))

\* POSIX-012, ffs_bits: the shifting loop ends, for zero, for the most negative
\* value and for all between them, at the least set bit of the pattern; and an
\* int widened to the loop's type gets the position in its own pattern, the
\* copies of the sign above it never being reached.
FfsExact ==
  fed[1] = "int" =>
    /\ LeastSetBit(fed[2], LongWidth, FfsBits(fed[2]))
    /\ fed[2] \in Signed(IntWidth) => LeastSetBit(fed[2], IntWidth, FfsBits(fed[2]))
=============================================================================
