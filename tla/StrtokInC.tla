------------------------------ MODULE StrtokInC -----------------------------
(* The tokenizer beside C's: every call of a caller is also made to a C       *)
(* strtok_r with the same separators on a copy of the text.  C is external;   *)
(* it is the reference that test/differential/c23_strtok_oracle.py runs.      *)
(* C stores a NUL over the separator that ends a token and saves the position *)
(* behind it.                                                                 *)
EXTENDS Tokenize

VARIABLES saved,         \* each caller's saveptr, as an offset
          ctoks,         \* the [start, end) pairs C gave each caller
          cnull          \* whether C answered the caller with a null pointer

cvars == <<text, cursor, seps, toks, saved, ctoks, cnull>>

CInit ==
  /\ Init
  /\ saved = [c \in Caller |-> 0]
  /\ ctoks = [c \in Caller |-> <<>>]
  /\ cnull = [c \in Caller |-> FALSE]

\* C's strtok_r(NULL, S, &saved): skip, scan, store the NUL, step over it.
CStrtok(c) ==
  LET S     == seps[c]
      start == Skip(S, saved[c])
      end   == Scan(S, start)
  IN
  \/ /\ start = N
     /\ cnull' = [cnull EXCEPT ![c] = TRUE]
     /\ UNCHANGED <<saved, ctoks>>
  \/ /\ start < N
     /\ ctoks' = [ctoks EXCEPT ![c] = Append(@, <<start, end>>)]
     /\ saved' = [saved EXCEPT ![c] = IF end < N THEN end + 1 ELSE N]
     /\ UNCHANGED cnull

CNext ==
  \E c \in Caller :
    \/ NextToken(c) /\ CStrtok(c)
    \/ \E S \in Separators :
         ChangeSeparators(c, S) /\ UNCHANGED <<saved, ctoks, cnull>>

\* A caller that tokenizes asks until it is told Complete.
CSpec ==
  CInit /\ [][CNext]_cvars
  /\ \A c \in Caller : WF_cvars(NextToken(c) /\ CStrtok(c))

-----------------------------------------------------------------------------
\* next resumes at the separator that ended the last token; C steps over it.
\* The two agree while every set passed still has that byte.
Kept(c) ==
  \A k \in DOMAIN toks[c] : k > 1 => At(toks[c][k].from) \in toks[c][k].seps

SameTokens(c) ==
  /\ [k \in DOMAIN toks[c] |-> <<toks[c][k].start, toks[c][k].end>>] = ctoks[c]
  /\ cursor[c].complete = cnull[c]

\* C23-013, TOK-009: a caller whose sets keep the separator that ended its last
\* token is given C's tokens, and Complete exactly when C answers null.
SameAsCWhenKept == \A c \in Caller : Kept(c) => SameTokens(c)
=============================================================================
