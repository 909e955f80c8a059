------------------------------ MODULE Catalogs ------------------------------
(* The working tree as the checkers under tools/ see it, and the four of them  *)
(* that tie requirements, tests, fixtures and exceptions to one another:       *)
(* check_catalogs, check_traceability, check_fixture_provenance and            *)
(* check_exceptions. Each is a predicate: the tool exits with zero. An         *)
(* exception nobody catches ends a tool as an error does, with a status that   *)
(* is not zero.                                                                *)
(*                                                                             *)
(* The tree w is a record. w.t holds the tables of tools/catalogs: rows, and   *)
(* a state. A table is "unreadable" when the file is missing or its header is  *)
(* wrong, "ragged" when a row lacks its last cell. w.files gives every file    *)
(* that is there what it holds (text: its digest, SHA-1 being taken as         *)
(* collision-free; cites: the scenarios it names; rounds, seed: the literals   *)
(* of a fuzz fixture). A cell with a list is the set of its entries. What a    *)
(* free text says is the set of the words looked for in it, WordsOf (the word  *)
(* "reason" standing for a text as long as a checker wants a reason to be).    *)
EXTENDS Integers, Sequences, FiniteSets, Functions

CONSTANTS
  Sv0Paths,       \* the paths that end in .sv0
  FixturePaths,   \* those of them under test/
  ScriptPaths,    \* the paths that end in .py
  WordsOf,        \* free text -> the words in it, in lower case
  TestIds,        \* the names that start with T-
  FixtureIds,     \* the names that start with F-
  HexDigests,     \* the texts that look like a SHA-1
  Annotations,    \* the keys of check_traceability.ANNOTATIONS
  TodoOwned,      \* those whose text says (todo)
  NonWaivable     \* check_exceptions.NON_WAIVABLE

ASSUME CatalogsAssumption ==
  /\ FixturePaths \subseteq Sv0Paths
  /\ TodoOwned \subseteq Annotations
  /\ "" \notin TestIds

Readable(w, n) == w.t[n].state # "unreadable"
Regular(w, n)  == w.t[n].state = "good"
Rows(w, n)     == w.t[n].rows

Column(rows, f) == [i \in DOMAIN rows |-> rows[i][f]]
Values(rows, f) == Range(Column(rows, f))
Unique(rows, f) == IsInjective(Column(rows, f))

\* A dictionary built from rows keeps the last one of a key.
LastWith(rows, f, v) ==
  rows[CHOOSE i \in DOMAIN rows :
         rows[i][f] = v /\ \A j \in DOMAIN rows : rows[j][f] = v /\ j # i => j < i]

Files(w) == DOMAIN w.files

\* REPO / "" is the repository itself, which exists.
Exists(w, path) == path \in Files(w) \/ path = ""

-----------------------------------------------------------------------------
(* tools/check_catalogs.py                                                   *)

CatalogNames == {"requirements", "tests", "standards", "fixtures", "provenance"}

Releases == {"F0", "R0.1", "R0.2", "R0.3", "R0.4", "R1", "Future"}
Statuses == {"todo", "wip", "done", "blocked", "deferred", "excluded"}
Dispositions ==
  {"Exact", "Adapted", "Host-dependent", "Blocked", "Deferred", "Excluded", "Legacy"}
Units == {"bytes", "ordering", "error", "state", "report", "count", "offset", "bool"}

NonTestMarkers ==
  {"review", "inventory", "lint", "audit", "manifest", "documentation", "schema"}
NonTest(r) == WordsOf[r.verification] \cap NonTestMarkers # {}

RequirementIds(w) == Values(Rows(w, "requirements"), "id")
CataloguedTests(w) == Values(Rows(w, "tests"), "id")
Referenced(w) == UNION Values(Rows(w, "tests"), "requirements")

\* An empty catalogue of ids refuses no reference.
KnownIn(ids, cell) == ids = {} \/ cell \subseteq ids

Gaps(w) ==
  {r \in Range(Rows(w, "requirements")) :
     r.status \notin {"deferred", "excluded"} /\ r.id \notin Referenced(w) /\ ~NonTest(r)}

\* read_tsv and check_schema: all five are there, with their columns, in full.
Structural(w) == \A n \in CatalogNames : Regular(w, n)

RequirementsValid(w) ==
  /\ Unique(Rows(w, "requirements"), "id")
  /\ \A r \in Range(Rows(w, "requirements")) :
       r.release \in Releases /\ r.status \in Statuses

\* Unknown backends and modes are warnings, which the tool never counts.
TestsValid(w) ==
  /\ Unique(Rows(w, "tests"), "id")
  /\ \A r \in Range(Rows(w, "tests")) : KnownIn(RequirementIds(w), r.requirements)

StandardKey(r) == <<r.standard, r.header, r.symbol>>

StandardsValid(w) ==
  LET rows == Rows(w, "standards") IN
  /\ IsInjective([i \in DOMAIN rows |-> StandardKey(rows[i])])
  /\ \A r \in Range(rows) :
       /\ r.disposition \in Dispositions
       /\ KnownIn(RequirementIds(w), r.requirements)
       /\ KnownIn(CataloguedTests(w), r.tests)

FixturesValid(w) ==
  /\ Unique(Rows(w, "fixtures"), "id")
  /\ \A r \in Range(Rows(w, "fixtures")) : r.provenance # "" /\ r.unit \in Units

\* scripts/check does not ask for --strict.
CatalogsAccept(w, strict) ==
  /\ Structural(w)
  /\ RequirementsValid(w) /\ TestsValid(w) /\ StandardsValid(w) /\ FixturesValid(w)
  /\ strict => Gaps(w) = {}

-----------------------------------------------------------------------------
(* tools/check_traceability.py                                               *)

InScope == {"F0", "R0.1", "R0.2", "R0.3", "R0.4"}

\* What its dictionaries say of a requirement.
RequirementOf(w, id) == LastWith(Rows(w, "requirements"), "id", id)

Covered(w) == Referenced(w) \cap RequirementIds(w)

Forward(w) ==
  /\ Unique(Rows(w, "tests"), "id")
  /\ \A r \in Range(Rows(w, "tests")) :
       /\ r.id \in TestIds /\ Exists(w, r.path)
       /\ r.requirements # {} /\ r.requirements \subseteq RequirementIds(w)

Runnable(w) == Files(w) \cap FixturePaths

NoOrphan(w) == Runnable(w) \subseteq Values(Rows(w, "tests"), "path")

\* Mutant of Backward: any release but the first is out of scope.
BackwardOfF0(w) ==
  \A id \in RequirementIds(w) \ Covered(w) :
    \/ NonTest(RequirementOf(w, id)) \/ id \in Annotations
    \/ RequirementOf(w, id).release # "F0"

Backward(w) ==
  \A id \in RequirementIds(w) \ Covered(w) :
    \/ NonTest(RequirementOf(w, id))
    \/ id \in Annotations
    \/ RequirementOf(w, id).release \notin InScope

TraceabilityAccepts(w) ==
  /\ Readable(w, "requirements") /\ Readable(w, "tests")
  /\ Forward(w) /\ NoOrphan(w) /\ Backward(w)
  /\ Annotations \subseteq RequirementIds(w) \ Covered(w)

-----------------------------------------------------------------------------
(* tools/check_fixture_provenance.py                                         *)

StandardNames == {"C23", "POSIX.1-2024", "SPEC-0.4.0"}
BaselineVocab ==
  {"empty", "one-byte", "embedded-nul", "high-bit", "exact-capacity",
   "zero-capacity", "boundary"}

\* The drivers a generator cell names; only those in parentheses count.
GeneratorPaths(g) == IF g.parenthesised THEN g.words \cap ScriptPaths ELSE {}

FixtureRowValid(w, r) ==
  /\ r.id \in FixtureIds /\ r.provenance # "" /\ r.unit # ""
  /\ r.path \in Files(w) /\ r.input_sha1 = w.files[r.path].text
  /\ r.expected_sha1 \in HexDigests
  /\ r.standard \in StandardNames
  /\ r.generator.head \in {"hand", "generated"}
  /\ \A p \in GeneratorPaths(r.generator) : Exists(w, p)

Catalogued(w) == Values(Rows(w, "fixtures"), "path")

\* Mutant of FixtureRows: a path may have two rows.
FixtureRowsOfIds(w) ==
  /\ Unique(Rows(w, "fixtures"), "id")
  /\ \A r \in Range(Rows(w, "fixtures")) : FixtureRowValid(w, r)

FixtureRows(w) ==
  /\ Unique(Rows(w, "fixtures"), "id") /\ Unique(Rows(w, "fixtures"), "path")
  /\ \A r \in Range(Rows(w, "fixtures")) : FixtureRowValid(w, r)

PathsInStep(w) ==
  /\ Catalogued(w) = Runnable(w)
  /\ Catalogued(w) = Values(Rows(w, "tests"), "path") \cap Sv0Paths

Baselines(w) ==
  /\ \A r \in Range(Rows(w, "baselines")) :
       r.category \in BaselineVocab /\ r.path \in Catalogued(w) /\ r.note # ""
  /\ BaselineVocab \subseteq Values(Rows(w, "baselines"), "category")

ProvenanceAccepts(w) ==
  /\ Regular(w, "fixtures") /\ Readable(w, "tests") /\ Regular(w, "baselines")
  /\ FixtureRows(w) /\ PathsInStep(w) /\ Baselines(w)

-----------------------------------------------------------------------------
(* tools/check_exceptions.py                                                 *)

ExceptionRowValid(w, r) ==
  /\ r.requirement \in RequirementIds(w) \ NonWaivable
  /\ "@" \in WordsOf[r.approver]
  /\ "reason" \in WordsOf[r.rationale]
  /\ r.expiration # "" /\ r.status \in {"open", "permanent"}
  /\ r.status = "permanent" => WordsOf[r.expiration] \cap {"permanent", "n/a"} # {}

\* Mutant of TodoRegistered: any exception will do.
TodoMentioned(w) == TodoOwned \subseteq Values(Rows(w, "exceptions"), "requirement")

TodoRegistered(w) ==
  \A id \in TodoOwned :
    \E r \in Range(Rows(w, "exceptions")) : r.requirement = id /\ r.status = "open"

\* w.untracked: the tables that git does not track.
ExceptionsAccept(w) ==
  /\ Readable(w, "requirements") /\ Regular(w, "exceptions")
  /\ Unique(Rows(w, "exceptions"), "requirement")
  /\ \A r \in Range(Rows(w, "exceptions")) : ExceptionRowValid(w, r)
  /\ TodoRegistered(w)
  /\ w.untracked = {}
=============================================================================
