-------------------------- MODULE ReleaseManifest --------------------------
(* scripts/release_manifest digests every evidence catalog, one after the      *)
(* other, and writes the manifest; tools/check_release_manifest judges the     *)
(* file against the catalogs. Catalogs are edited, added and removed at any    *)
(* time (by hand, or by the --write of another script), the writer can be      *)
(* stopped anywhere, and the file can be edited by hand. SHA-256 is taken as   *)
(* collision-free: a digest is what it digests.                                *)
EXTENDS Integers, Sequences, FiniteSets, SequencesExt

CONSTANTS Names,        \* the catalogs
          Targets,      \* the catalog of the supported targets
          Contents,     \* what a catalog can hold
          NoTargets,    \* the content without a target
          MaxEdits,     \* bounds how often the manifest is edited by hand
          Absent        \* no such file

ASSUME ManifestAssumption ==
  /\ IsFiniteSet(Names) /\ Targets \in Names
  /\ NoTargets \in Contents
  /\ Absent \notin Contents
  /\ MaxEdits \in Nat

VARIABLES live,     \* the catalogs
          file,     \* the lines of release_manifest.tsv
          pc,       \* where the writer is
          todo,     \* the catalogs it has still to digest
          body,     \* ROWS, so far
          made,     \* what the last writer that came to its end wrote
          quiet,    \* no catalog has changed since the writer began
          edits     \* how often the file was edited by hand

rvars == <<live, file, pc, todo, body, made, quiet, edits>>

Line(key, val) == [key |-> key, val |-> val]

Header == Line(<<"component">>, <<"value">>)
Blank  == Line(<<"blank">>, <<>>)
Half   == Line(<<"half">>, <<>>)      \* a line without its tab
NoText == <<>>                        \* an empty value
Text(x) == <<"text", x>>
Revision == <<"revision">>
Cut    == <<"cut">>                   \* a value that lost its end

\* What a value of a row can be.
BodyVal == {NoText, Revision} \cup {Text(c) : c \in Contents}

Sum(rows) == Line(<<"manifest-digest">>, <<"sum", rows>>)
Digest(n, c) == Line(<<"catalog-digest", n>>, IF c = Absent THEN NoText ELSE Text(c))

Existing == {n \in Names : live[n] # Absent}

-----------------------------------------------------------------------------
(* The writer.                                                               *)

\* The revision of this repository stands for the revisions and the version of
\* cc: the checker wants them to be there and never compares them, so what they
\* are does not matter.
Fields ==
  << Line(<<"sv0-strings-head">>, Revision),
     Line(<<"supported-targets">>,
          IF live[Targets] \in {Absent, NoTargets} THEN NoText
          ELSE Text(live[Targets])) >>

RInit ==
  /\ live \in [Names -> Contents \cup {Absent}]
  /\ file = <<>> /\ made = <<>>
  /\ pc = "idle" /\ todo = <<>> /\ body = <<>> /\ quiet = TRUE
  /\ edits = 0

Begin ==
  /\ pc = "idle"
  /\ pc' = "digesting"
  /\ body' = Fields
  /\ todo' = SetToSeq(Existing)
  /\ UNCHANGED <<live, file, made, quiet, edits>>

DigestOne ==
  /\ pc = "digesting" /\ todo # <<>>
  /\ body' = Append(body, Digest(Head(todo), live[Head(todo)]))
  /\ todo' = Tail(todo)
  /\ UNCHANGED <<live, file, pc, made, quiet, edits>>

\* The redirection empties the file before a line is written.
Truncate ==
  /\ pc = "digesting" /\ todo = <<>>
  /\ pc' = "writing"
  /\ file' = <<>>
  /\ made' = <<>>
  /\ UNCHANGED <<live, todo, body, quiet, edits>>

\* Mutant of Manifest: the digest is taken over the header, too.
ManifestOfAll(rows) == <<Header>> \o rows \o <<Sum(<<Header>> \o rows)>>

Manifest(rows) == <<Header>> \o rows \o <<Sum(rows)>>

Write ==
  /\ pc = "writing"
  /\ pc' = "idle"
  /\ file' = Manifest(body)
  /\ made' = Manifest(body)
  /\ body' = <<>> /\ quiet' = TRUE
  /\ UNCHANGED <<live, todo, edits>>

\* What a writer that is stopped leaves: some of the lines, the last one whole
\* or cut. (A file that lacks its last line end only is read as the whole one.)
Torn(lines) ==
  {SubSeq(lines, 1, n) : n \in 0 .. Len(lines) - 1} \cup
  {Append(SubSeq(lines, 1, n), Half) : n \in 0 .. Len(lines) - 1} \cup
  {Append(SubSeq(lines, 1, n), Line(lines[1].key, Cut)) : n \in 0 .. Len(lines) - 1} \cup
  {Append(SubSeq(lines, 1, n - 1), Line(lines[n].key, Cut)) : n \in 2 .. Len(lines)}

Stop ==
  /\ pc # "idle"
  /\ pc' = "idle"
  /\ IF pc = "writing" THEN file' \in Torn(Manifest(body)) ELSE UNCHANGED file
  /\ todo' = <<>> /\ body' = <<>> /\ quiet' = TRUE
  /\ UNCHANGED <<live, made, edits>>

-----------------------------------------------------------------------------
(* The world around it.                                                      *)

ChangeCatalog(n, c) ==
  /\ live[n] # c
  /\ live' = [live EXCEPT ![n] = c]
  /\ quiet' = (pc = "idle")
  /\ UNCHANGED <<file, pc, todo, body, made, edits>>

\* A line is removed, doubled, swapped with the next, given another value, or
\* a blank line is put in. The digest is not worked out anew. (An edit under a
\* running writer is an edit before it, or is overwritten.)
Edited(lines) ==
  {RemoveAt(lines, x) : x \in DOMAIN lines} \cup
  {InsertAt(lines, x, lines[x]) : x \in DOMAIN lines} \cup
  {[lines EXCEPT ![x] = lines[x + 1], ![x + 1] = lines[x]] : x \in 1 .. Len(lines) - 1} \cup
  (UNION {{[lines EXCEPT ![x].val = v] : v \in BodyVal} : x \in DOMAIN lines}) \cup
  {InsertAt(lines, x, Blank) : x \in DOMAIN lines}

HandEdit ==
  /\ pc = "idle" /\ edits < MaxEdits
  /\ edits' = edits + 1
  /\ file' \in Edited(file)
  /\ UNCHANGED <<live, pc, todo, body, made, quiet>>

RNext ==
  \/ Begin \/ DigestOne \/ Truncate \/ Write \/ Stop
  \/ \E n \in Names, c \in Contents \cup {Absent} : ChangeCatalog(n, c)
  \/ HandEdit

RSpec == RInit /\ [][RNext]_rvars

-----------------------------------------------------------------------------
(* tools/check_release_manifest.py.                                          *)

\* The rows among the first lines: what is neither the header nor blank.
RowsTo(lines) ==
  LET kept[i \in 1 .. Len(lines)] ==
        IF i = 1 THEN <<>>
        ELSE IF lines[i] = Blank THEN kept[i - 1]
        ELSE Append(kept[i - 1], lines[i])
  IN  kept

Rows == RowsTo(file)[Len(file)]

\* A dictionary keeps the last row of a key.
Has(rows, key) == \E x \in DOMAIN rows : rows[x].key = key
LastValue(rows, key) ==
  rows[CHOOSE x \in DOMAIN rows :
         rows[x].key = key /\ \A y \in DOMAIN rows : rows[y].key = key => y <= x].val

FieldsPresent(rows) ==
  \A key \in {<<"sv0-strings-head">>, <<"supported-targets">>} :
    Has(rows, key) /\ LastValue(rows, key) # NoText

\* Mutant of Current: a catalog without a row is not missed.
CurrentWhereRecorded(rows) ==
  \A n \in Names : Has(rows, <<"catalog-digest", n>>) =>
    live[n] # Absent /\ LastValue(rows, <<"catalog-digest", n>>) = Text(live[n])

Current(rows) ==
  /\ \A n \in Names : live[n] # Absent <=> Has(rows, <<"catalog-digest", n>>)
  /\ \A n \in Existing : LastValue(rows, <<"catalog-digest", n>>) = Text(live[n])

\* Mutant of Sealed: the fields are not part of what is digested.
SealedDigests(rows) ==
  /\ rows # <<>> /\ Last(rows).key = <<"manifest-digest">>
  /\ Len(Last(rows).val) = 2 /\ Last(rows).val[1] = "sum"
  /\ SelectSeq(Last(rows).val[2], LAMBDA l : l.key[1] = "catalog-digest") =
       SelectSeq(Front(rows), LAMBDA l : l.key[1] = "catalog-digest")

Sealed(rows) == rows # <<>> /\ Last(rows) = Sum(Front(rows))

Accepts ==
  /\ file # <<>> /\ Head(file) = Header
  /\ ~Has(Rows, Half.key)
  /\ FieldsPresent(Rows)
  /\ Current(Rows)
  /\ Sealed(Rows)

-----------------------------------------------------------------------------
\* An accepted manifest has exactly one row for every catalog there is, with the
\* digest of what the catalog holds now, whatever was edited, added or removed,
\* and at whatever moment, since a writer began (BACKEND-007).
AcceptedIsCurrent ==
  Accepts =>
    /\ \A n \in Existing :
         \E x \in DOMAIN file :
           /\ file[x] = Digest(n, live[n])
           /\ \A y \in DOMAIN file : file[y].key = file[x].key => y = x
    /\ \A x \in DOMAIN file :
         file[x].key[1] = "catalog-digest" => file[x].key[2] \in Existing

\* An accepted manifest has the rows, in their order, that the last writer that
\* came to its end has written: not what a stopped writer left, and not what a
\* hand has removed, doubled, swapped or changed.
AcceptedIsMade == Accepts => <<Header>> \o Rows = made

\* A writer that ran while no catalog changed leaves a manifest that is accepted:
\* regenerating is the way out of a refusal.
RegenerationHeals ==
  [][Write /\ quiet /\ live[Targets] \notin {Absent, NoTargets} => Accepts']_rvars
-----------------------------------------------------------------------------
BodyKey == {<<"sv0-strings-head">>, <<"supported-targets">>}
             \cup {<<"catalog-digest", n>> : n \in Names}

\* What a writer can have in ROWS: no key twice.
IsBody(rows) ==
  /\ rows \in Seq([key : BodyKey, val : BodyVal])
  /\ \A x, y \in DOMAIN rows : rows[x].key = rows[y].key => x = y

\* A line with the digest of some rows.
IsSum(l) == l.key = <<"manifest-digest">> /\ Len(l.val) = 2 /\ l.val[1] = "sum"

\* Every line is a key and a value, and no line seals other rows than those that
\* the last writer that came to its end wrote.
LineOk(l, m) == l = Line(l.key, l.val) /\ (IsSum(l) => m = Manifest(l.val[2]))

\* What is in ROWS is so of the catalogs now, and what is not is still to do.
UpToDate ==
  /\ Len(body) >= 2 /\ body[1] = Fields[1] /\ body[2] = Fields[2]
  /\ \A x \in 3 .. Len(body) : \E n \in Existing : body[x] = Digest(n, live[n])
  /\ \A n \in Existing : n \notin Range(todo) =>
       \E x \in 3 .. Len(body) : body[x] = Digest(n, live[n])

WriterOk ==
  /\ IsBody(body)
  /\ todo \in Seq(Names) /\ IsInjective(todo)
  /\ \A x \in DOMAIN body, y \in DOMAIN todo :
       body[x].key # <<"catalog-digest", todo[y]>>
  /\ \A y \in DOMAIN todo : quiet => live[todo[y]] # Absent
  /\ quiet => UpToDate

\* The inductive invariant.
RInv ==
  /\ live \in [Names -> Contents \cup {Absent}]
  /\ made # <<>> => LET b == SubSeq(made, 2, Len(made) - 1)
                    IN  IsBody(b) /\ made = Manifest(b)
  /\ file \in Seq(Range(file)) /\ \A x \in DOMAIN file : LineOk(file[x], made)
  /\ pc \in {"idle", "digesting", "writing"}
  /\ pc # "idle" => WriterOk
  /\ pc = "writing" => made = <<>> /\ todo = <<>>
=============================================================================
