---------------------------- MODULE MCStrtokInC -----------------------------
(* Callers on every text of up to MaxLen bytes: an ordinary byte, a comma and *)
(* a semicolon.  The sets are the empty one, one separator, and both.          *)
EXTENDS StrtokInC

CONSTANTS a, b, MaxLen

MCByte == {"x", ",", ";"}
MCText == UNION {[1 .. m -> MCByte] : m \in 0 .. MaxLen}
MCSeparators == {{}, {","}, {",", ";"}}
=============================================================================
