------------------------------ MODULE Scanners ------------------------------
(* The tools that read a text line by line or lexeme by lexeme:                *)
(* check_doc_fences over a markdown file, strip_comments over a module of the  *)
(* library (check_locale_independence), and the commit-msg hook                *)
(* (scripts/verify_commit_msg_no_ai_signoff). Beside each stands what the text *)
(* means to its own reader.                                                    *)
EXTENDS Integers, Sequences

-----------------------------------------------------------------------------
(* tools/check_doc_fences.py. A line of a markdown file is a record: its kind  *)
(* ("backticks" or "tildes" where it begins with three or more of them),       *)
(* whether it stands so deep that markdown takes it for indented code, how many*)
(* ticks it has, the first word behind them ("" if there is none) and whether  *)
(* there is more to its info string: a blank before that word, or words behind. *)

Ticks == {"backticks", "tildes"}

\* However deep it stands, but not with a blank in its info string.
IsFence(line) == line.kind \in Ticks /\ ~line.more

\* Mutant of Closes: any bare fence closes a block.
ClosesAnyTick(doc, open, j) == IsFence(doc[j]) /\ doc[j].info = ""

\* The first fence without an info string and with the tick of the one that
\* opened; how many ticks it has is not compared. There may be none.
Closes(doc, open, j) ==
  IsFence(doc[j]) /\ doc[j].kind = doc[open].kind /\ doc[j].info = ""

CloseOf(doc, open) ==
  CHOOSE j \in open + 1 .. Len(doc) + 1 :
    /\ j <= Len(doc) => Closes(doc, open, j)
    /\ \A k \in open + 1 .. j - 1 : ~Closes(doc, open, k)

\* The blocks, by their first and last line: a fence opens one when it has an
\* info string; without one it is passed over.
Fences(doc) ==
  LET from[i \in 1 .. Len(doc) + 2] ==
        IF i > Len(doc) THEN {}
        ELSE IF ~IsFence(doc[i]) \/ doc[i].info = "" THEN from[i + 1]
        ELSE {<<i, CloseOf(doc, i)>>} \cup from[CloseOf(doc, i) + 1]
  IN  from[1]

\* Declarations without a body in sv0 blocks. A block of nothing else is warned
\* of besides, which adds nothing: it has such a line, and a warning never counts
\* by itself.
HeaderOnly(doc) ==
  {i \in UNION {b[1] + 1 .. b[2] - 1 : b \in {x \in Fences(doc) : doc[x[1]].info = "sv0"}} :
     doc[i].kind = "header-only"}

\* w.docs: every .md file of the tree.
FencesAccept(w) == \A f \in DOMAIN w.docs : HeaderOnly(w.docs[f]) = {}

\* A markdown reader: a fence that is not too deep, whatever its info string, opens
\* a block outside one; a bare one with the same tick and no fewer of them closes it.
ReaderFence(line) == line.kind \in Ticks /\ ~line.deep

ReaderCloses(doc, open, j) ==
  /\ ReaderFence(doc[j]) /\ doc[j].kind = doc[open].kind /\ doc[j].info = ""
  /\ doc[j].length >= doc[open].length

ReaderBlock(doc) ==
  LET block[i \in 0 .. Len(doc)] ==      \* the fence of the block line i ends in, or 0
        IF i = 0 THEN 0
        ELSE IF block[i - 1] = 0 THEN IF ReaderFence(doc[i]) THEN i ELSE 0
        ELSE IF ReaderCloses(doc, block[i - 1], i) THEN 0 ELSE block[i - 1]
  IN  block

\* The language is the first word of the info string.
ReaderHeaderOnly(doc) ==
  {i \in DOMAIN doc :
     LET open == ReaderBlock(doc)[i] IN
     doc[i].kind = "header-only" /\ open # 0 /\ doc[open].info = "sv0"}

\* Where lint and reader do not part: an info string is one word right behind the
\* ticks, no fence is deep, in no block there is a bare fence with fewer of the ticks
\* it opened with, and in no block without an info string there is a fence with one.
FencesPlain(doc) ==
  \A i \in DOMAIN doc :
    LET open == ReaderBlock(doc)[i - 1] IN
    doc[i].kind \in Ticks =>
      /\ ~doc[i].more /\ ~doc[i].deep
      /\ open # 0 /\ doc[i].info = "" /\ doc[i].kind = doc[open].kind =>
           doc[i].length >= doc[open].length
      /\ open # 0 /\ doc[i].info # "" => doc[open].info # ""

FencesExact(doc) == FencesPlain(doc) => HeaderOnly(doc) = ReaderHeaderOnly(doc)

-----------------------------------------------------------------------------
(* check_locale_independence.strip_comments. A module of the library is a      *)
(* sequence of lexemes: those that comments are made of, <<"nl">>, <<"quote">> *)
(* where a string literal begins or ends, and what the checkers look for.      *)

\* The pairs a block comment makes, from left to right: an opening one and the
\* next closing one, whatever line comment either stands in.
BlockAt(src, i) ==
  IF src[i] = <<"/*">> /\ \E j \in i + 1 .. Len(src) : src[j] = <<"*/">>
  THEN CHOOSE j \in i + 1 .. Len(src) :
         src[j] = <<"*/">> /\ \A k \in i + 1 .. j - 1 : src[k] # <<"*/">>
  ELSE 0

\* The lexemes left when the blocks are cut out, their line ends with them.
OutsideBlocks(src) ==
  LET from[i \in 1 .. Len(src) + 1] ==
        IF i > Len(src) THEN {}
        ELSE IF BlockAt(src, i) # 0 THEN from[BlockAt(src, i) + 1]
        ELSE {i} \cup from[i + 1]
  IN  from[1]

\* Then every line is cut at its first //.
StripComments(src) ==
  LET left == OutsideBlocks(src) IN
  {i \in left :
     \A j \in {j \in left : j <= i /\ src[j] = <<"//">>} :
       \E k \in j .. i : k \in left /\ src[k] = <<"nl">>}

\* A name of the process's locale or environment in what is left.
AmbientUses(src) == {i \in StripComments(src) : src[i] = <<"ambient">>}

\* The compiler's lexer: what follows a lexeme is code, a line comment, a block or
\* the inside of a string.
LexerMode(src) ==
  LET after[i \in 0 .. Len(src)] ==
        IF i = 0 THEN "code"
        ELSE CASE after[i - 1] = "code" /\ src[i] = <<"//">> -> "line"
               [] after[i - 1] = "code" /\ src[i] = <<"/*">> -> "block"
               [] after[i - 1] = "code" /\ src[i] = <<"quote">> -> "string"
               [] after[i - 1] = "line" /\ src[i] = <<"nl">> -> "code"
               [] after[i - 1] = "block" /\ src[i] = <<"*/">> -> "code"
               [] after[i - 1] = "string" /\ src[i] = <<"quote">> -> "code"
               [] OTHER -> after[i - 1]
  IN  after

\* Where stripper and lexer do not part: no block comment is opened inside a line
\* comment, all of them end, and no string holds what opens a comment.
CommentsPlain(src) ==
  /\ \A i \in DOMAIN src :
       /\ src[i] = <<"/*">> => LexerMode(src)[i - 1] \notin {"line", "string"}
       /\ src[i] = <<"//">> => LexerMode(src)[i - 1] # "string"
  /\ LexerMode(src)[Len(src)] # "block"

\* What is looked at is what stands in no comment, strings included.
CommentsExact(src) ==
  CommentsPlain(src) =>
    AmbientUses(src) =
      {i \in DOMAIN src :
         src[i] = <<"ambient">> /\ LexerMode(src)[i - 1] \in {"code", "string"}}

-----------------------------------------------------------------------------
(* scripts/verify_commit_msg_no_ai_signoff.py. A line of a message has the     *)
(* patterns it matches, and "#" when it starts with one.                       *)

MessageBody(lines) == {i \in DOMAIN lines : "#" \notin lines[i]}

Credits(line) == line \cap {"trailer with agent", "generated by agent", "signature"} # {}

FindViolations(lines) == {i \in MessageBody(lines) : Credits(lines[i])}

CommitRejected(lines) == FindViolations(lines) # {}

\* What git makes the commit of. A message from the editor is stripped of its
\* comments; with --verbose it is cut at the scissors besides; one given with -m
\* is neither.
CommittedLines(lines, cut, strip) ==
  {i \in DOMAIN lines :
     /\ strip => "#" \notin lines[i]
     /\ cut => \A j \in 1 .. i : ~({"#", "scissors"} \subseteq lines[j])}

\* From the editor: rejected if and only if a line that is committed credits an
\* agent. With --verbose a line of the diff below may be what is rejected. With -m
\* the credit that gets by stands behind a #.
CommitExact(lines) ==
  LET credited(cut, strip) == {i \in CommittedLines(lines, cut, strip) : Credits(lines[i])} IN
  /\ CommitRejected(lines) <=> credited(FALSE, TRUE) # {}
  /\ credited(TRUE, TRUE) # {} => CommitRejected(lines)
  /\ ~CommitRejected(lines) => \A i \in credited(FALSE, FALSE) : "#" \in lines[i]
=============================================================================
