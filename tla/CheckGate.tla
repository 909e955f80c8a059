----------------------------- MODULE CheckGate -----------------------------
(* scripts/check: one tool after the other judges the working tree, a failure  *)
(* is kept and the next one runs all the same, and the verdict comes at the    *)
(* end. The tree is edited and the generators are run at any time, also while  *)
(* the gate runs; the gate can be stopped anywhere. The self-test of the       *)
(* oracle and each differential driver build oracle.c anew before they ask it. *)
EXTENDS Standards

CONSTANTS
  Trees,         \* the trees there are to begin with
  RowPool,       \* table -> the rows that may be put into it
  Variants,      \* part of the tree other than the tables -> what it may become
  OracleSources, \* what oracle.c can be
  Correct,       \* those that compile and pass the self-test
  Agreeing,      \* those that compile and that the differential drivers agree with
  Drivers,       \* the paths a differential driver may have
  MaxEdits       \* bounds the edits, and the generators that run under the gate

ASSUME GateAssumption ==
  /\ Correct \cup Agreeing \subseteq OracleSources
  /\ MaxEdits \in Nat

\* A tree, and its tables, are records.
IsRecord(w) == w = [k \in DOMAIN w |-> w[k]]
IsTree(w) ==
  /\ IsRecord(w) /\ {"t", "sealed"} \subseteq DOMAIN w
  /\ IsRecord(w.t) /\ DOMAIN w.sealed = {"t", "revisions"} /\ IsRecord(w.sealed)

ASSUME TreesAssumption ==
  (\A w \in Trees : IsTree(w)) /\ {"t", "sealed"} \cap DOMAIN Variants = {}

VARIABLES
  repo,      \* the working tree
  oracle,    \* its tools/c_oracle/oracle.c
  at,        \* the step scripts/check is at; 0: it is not running
  fail,      \* its variable
  verdict,   \* what the last run that came to its end said
  quiet,     \* history: nothing has changed since the last run began
  edits

vars == <<repo, oracle, at, fail, verdict, quiet, edits>>

Steps ==
  << "check_catalogs", "check_posix_matrix", "check_locale_independence",
     "check_targets", "check_traceability", "check_fixture_provenance",
     "check_fuzz_budget", "check_gate_policy", "check_contract_matrix",
     "check_accel_matrix", "check_complexity_benchmarks", "check_consumer_rehearsal",
     "check_path_order_corpus", "check_serialized_comparison", "check_acceptance",
     "check_release_manifest", "check_exceptions", "check_release_readiness",
     "check_doc_fences", "compat_doc", "c_oracle", "differential", "spec",
     "extract_requirements", "standards_matrix" >>

LastStep       == Len(Steps)
SelfTestAt     == 21
DifferentialAt == 22
FindSpecAt     == 23

Accepts(step, w) ==
  CASE step = "check_catalogs"              -> CatalogsAccept(w, FALSE)
    [] step = "check_posix_matrix"          -> PosixMatrixAccepts(w)
    [] step = "check_locale_independence"   -> LocaleAccepts(w)
    [] step = "check_targets"               -> TargetsAccept(w)
    [] step = "check_traceability"          -> TraceabilityAccepts(w)
    [] step = "check_fixture_provenance"    -> ProvenanceAccepts(w)
    [] step = "check_fuzz_budget"           -> FuzzAccepts(w)
    [] step = "check_gate_policy"           -> GatePolicyAccepts(w)
    [] step = "check_contract_matrix"       -> ContractAccepts(w)
    [] step = "check_accel_matrix"          -> AccelAccepts(w)
    [] step = "check_complexity_benchmarks" -> ComplexityAccepts(w)
    [] step = "check_consumer_rehearsal"    -> RehearsalAccepts(w)
    [] step = "check_path_order_corpus"     -> PathOrderAccepts(w)
    [] step = "check_serialized_comparison" -> SerializedAccepts(w)
    [] step = "check_acceptance"            -> AcceptanceAccepts(w)
    [] step = "check_release_manifest"      -> ManifestAccepts(w)
    [] step = "check_exceptions"            -> ExceptionsAccept(w)
    [] step = "check_release_readiness"     -> ReadinessAccepts(w)
    [] step = "check_doc_fences"            -> FencesAccept(w)
    [] step = "compat_doc"                  -> CompatAccepts(w)
    [] step = "extract_requirements"        -> ExtractAccepts(w)
    [] step = "standards_matrix"            -> StandardsMatrixAccepts(w)

NotCheckers == {"c_oracle", "differential", "spec"}
IsChecker(k) == k \in DOMAIN Steps /\ Steps[k] \notin NotCheckers
SpecSteps == {"extract_requirements", "standards_matrix"}

Init ==
  /\ repo \in Trees
  /\ oracle \in OracleSources
  /\ at = 0 /\ fail = FALSE /\ verdict = "none"
  /\ quiet = FALSE /\ edits = 0

-----------------------------------------------------------------------------
(* scripts/check.                                                            *)

Start ==
  /\ at = 0
  /\ at' = 1 /\ fail' = FALSE /\ verdict' = "none"
  /\ quiet' = TRUE
  /\ UNCHANGED <<repo, oracle, edits>>

\* A mutant of RunChecker: the last status counts.
RunCheckerLast ==
  /\ IsChecker(at)
  /\ fail' = ~Accepts(Steps[at], repo)
  /\ at' = at + 1
  /\ UNCHANGED <<repo, oracle, verdict, quiet, edits>>

RunChecker ==
  /\ IsChecker(at)
  /\ fail' = (fail \/ ~Accepts(Steps[at], repo))
  /\ at' = at + 1
  /\ UNCHANGED <<repo, oracle, verdict, quiet, edits>>

\* The oracle is built three times, with the sanitizers where there are any in
\* between; a source that the compiler refuses fails the step.
SelfTest ==
  /\ at = SelfTestAt
  /\ fail' = (fail \/ oracle \notin Correct)
  /\ at' = at + 1
  /\ UNCHANGED <<repo, oracle, verdict, quiet, edits>>

DriversThere(w) == Drivers \cap Files(w) # {}

\* Mutant of Differentials: the status of the loop is the one of its last driver,
\* and the one before it is lost.
DifferentialsAlone ==
  /\ at = DifferentialAt
  /\ fail' = (DriversThere(repo) /\ oracle \notin Agreeing)
  /\ at' = at + 1
  /\ UNCHANGED <<repo, oracle, verdict, quiet, edits>>

\* All drivers of test/differential, where there is one, each with its own build.
Differentials ==
  /\ at = DifferentialAt
  /\ fail' = (fail \/ (DriversThere(repo) /\ oracle \notin Agreeing))
  /\ at' = at + 1
  /\ UNCHANGED <<repo, oracle, verdict, quiet, edits>>

\* Whether the SPEC is there is looked at once.
FindSpec ==
  /\ at = FindSpecAt
  /\ at' = IF SpecThere(repo) THEN at + 1 ELSE LastStep + 1
  /\ UNCHANGED <<repo, oracle, fail, verdict, quiet, edits>>

Finish ==
  /\ at = LastStep + 1
  /\ verdict' = IF fail THEN "FAIL" ELSE "PASS"
  /\ at' = 0
  /\ UNCHANGED <<repo, oracle, fail, quiet, edits>>

Interrupt ==
  /\ at # 0
  /\ at' = 0
  /\ UNCHANGED <<repo, oracle, fail, verdict, quiet, edits>>

-----------------------------------------------------------------------------
(* The generators, which anyone may run at any time.                         *)

MayRun == at = 0 \/ edits < MaxEdits

Becomes(w) ==
  /\ repo' = w
  /\ quiet' = (quiet /\ w = repo)
  /\ edits' = IF at = 0 THEN edits ELSE edits + 1
  /\ UNCHANGED <<oracle, at, fail, verdict>>

\* A generator that aborts writes nothing.
ExtractRequirements ==
  /\ MayRun /\ SpecThere(repo)
  /\ LET made == Requirements(repo.spec)
     IN  made # Aborted /\ Becomes([repo EXCEPT !.t["requirements"] = made])

GenerateStandards ==
  /\ MayRun /\ SpecThere(repo)
  /\ LET made == StandardsMatrix(repo.spec)
     IN  made # Aborted /\ Becomes([repo EXCEPT !.t["standards"] = made])

GenerateCompat ==
  /\ MayRun /\ \A n \in CompatSources : Readable(repo, n)
  /\ Becomes([repo EXCEPT !.compat = Compat(repo)])

\* scripts/release_manifest: the digests of the tables, and what git and cc say of
\* the revisions and the compiler.
Seal ==
  MayRun /\ Becomes([repo EXCEPT !.sealed = [t |-> repo.t, revisions |-> repo.revisions]])

-----------------------------------------------------------------------------
(* Edits. A row is removed (a generator that is killed leaves the last ones    *)
(* out), put in at the end or in the place of another; a table is damaged;     *)
(* another part of the tree is changed.                                        *)

EditedTables(n) ==
  LET rows == Rows(repo, n) IN
  {Good(RemoveAt(rows, i)) : i \in DOMAIN rows} \cup
  {Good(Append(rows, r)) : r \in RowPool[n]} \cup
  {Good([rows EXCEPT ![i] = r]) : i \in DOMAIN rows, r \in RowPool[n]} \cup
  {[state |-> s, rows |-> rows] : s \in {"ragged", "unreadable"}}

Edited(w) ==
  /\ repo' = w /\ w # repo
  /\ quiet' = FALSE /\ edits' = edits + 1
  /\ UNCHANGED <<oracle, at, fail, verdict>>

EditTable(n) ==
  edits < MaxEdits /\ \E table \in EditedTables(n) : Edited([repo EXCEPT !.t[n] = table])

EditPart(part) ==
  edits < MaxEdits /\ \E v \in Variants[part] : Edited([repo EXCEPT ![part] = v])

EditOracle(src) ==
  /\ edits < MaxEdits /\ edits' = edits + 1
  /\ src # oracle /\ oracle' = src
  /\ quiet' = FALSE
  /\ UNCHANGED <<repo, at, fail, verdict>>

Next ==
  \/ Start \/ RunChecker \/ SelfTest \/ Differentials \/ FindSpec \/ Finish \/ Interrupt
  \/ ExtractRequirements \/ GenerateStandards \/ GenerateCompat \/ Seal
  \/ \E n \in DOMAIN RowPool : EditTable(n)
  \/ \E part \in DOMAIN Variants : EditPart(part)
  \/ \E src \in OracleSources : EditOracle(src)

Spec == Init /\ [][Next]_vars

-----------------------------------------------------------------------------
(* What a PASS is worth, when nothing changed under the gate.                *)

Passed == at = 0 /\ verdict = "PASS" /\ quiet

\* The steps of the SPEC judge where there is one.
Judges(k, w) == IsChecker(k) /\ (Steps[k] \in SpecSteps => SpecThere(w))

\* What a step finds of the tree and the oracle as they are.
StepHolds(k) ==
  /\ Judges(k, repo) => Accepts(Steps[k], repo)
  /\ k = SelfTestAt => oracle \in Correct
  /\ k = DifferentialAt /\ DriversThere(repo) => oracle \in Agreeing

\* The strengthening: as long as nothing changes, fail says whether a step before
\* the present one has found something.
GateTypes ==
  /\ at \in 0 .. LastStep + 1 /\ fail \in BOOLEAN /\ quiet \in BOOLEAN
  /\ at # 0 => verdict = "none"
  /\ verdict \in {"none", "PASS", "FAIL"}
  /\ oracle \in OracleSources

Behind(k) == k \in DOMAIN Steps /\ (at = 0 \/ k < at)

GateInv ==
  /\ GateTypes
  /\ quiet /\ FindSpecAt < at /\ at <= LastStep => SpecThere(repo)
  /\ quiet /\ (Passed \/ (at # 0 /\ ~fail)) =>
       \A k \in DOMAIN Steps : Behind(k) => StepHolds(k)
  /\ quiet /\ (IF at = 0 THEN verdict = "FAIL" ELSE fail) =>
       \E k \in DOMAIN Steps : Behind(k) /\ ~StepHolds(k)

\* When nothing changed under a gate that came to its end, it says PASS if every
\* step finds the tree as it should be, FAIL if one does not, wherever among the
\* 25 that is (scripts/check:18-88).
VerdictMeans ==
  at = 0 /\ quiet /\ verdict # "none" =>
    (verdict = "PASS" <=> \A k \in DOMAIN Steps : StepHolds(k))

\* What stands for a requirement: a test that exists, and is catalogued with its
\* present digest where it is a fixture; a way of verification that is no test; or
\* a note in check_traceability, with an open exception, which a requirement that
\* cannot be waived never has, where the note owes one.
Evidenced(w, r) ==
  \/ \E t \in Range(Rows(w, "tests")) :
       /\ r.id \in t.requirements /\ Exists(w, t.path)
       /\ t.path \in Sv0Paths =>
            \E f \in Range(Rows(w, "fixtures")) :
              /\ f.path = t.path /\ t.path \in Files(w)
              /\ f.input_sha1 = w.files[t.path].text
  \/ NonTest(r)
  \/ /\ r.id \in Annotations
     /\ r.id \in TodoOwned =>
          /\ r.id \notin NonWaivable
          /\ \E e \in Range(Rows(w, "exceptions")) : e.requirement = r.id /\ e.status = "open"

\* After a PASS every requirement in scope has evidence: the chain that
\* check_catalogs, check_traceability, check_fixture_provenance and
\* check_exceptions each look at a part of.
EvidenceSound ==
  Passed => \A r \in Range(Rows(repo, "requirements")) :
              r.release \in InScope => Evidenced(repo, r)

\* After a PASS the fixtures that run, fixtures.tsv (one row for each), tests.tsv
\* and the comparison's count speak of the same files, and a fuzz fixture runs as
\* many rounds from the same seed as its row says.
Lockstep ==
  Passed =>
    /\ \A p \in Runnable(repo) :
         /\ \E i \in DOMAIN Rows(repo, "fixtures") :
              \A j \in DOMAIN Rows(repo, "fixtures") :
                Rows(repo, "fixtures")[j].path = p <=> j = i
         /\ p \in Values(Rows(repo, "tests"), "path")
    /\ \A t \in Range(Rows(repo, "tests")) : t.path \in Sv0Paths => t.path \in Runnable(repo)
    /\ \A p \in Runnable(repo) \cap FuzzPaths :
         \E r \in Range(Rows(repo, "fuzz")) :
           /\ r.fixture = p /\ r.rounds >= r.min_rounds
           /\ repo.files[p].rounds = r.rounds /\ repo.files[p].seed = r.seed
    /\ \E r \in Range(Rows(repo, "serialized")) :
         /\ r.component = "fixture_count"
         /\ r.value = <<"number", Cardinality(Catalogued(repo) \ NotCompared)>>

Backed(w, ids) ==
  \A e \in ids \cap TestIds :
    \E t \in Range(Rows(w, "tests")) : t.id = e /\ Exists(w, t.path)

\* After a PASS a test that an acceptance scenario, a complexity row or a wired
\* capability names is catalogued and there, and a capability is wired in the table
\* when and only when the library dispatches on it.
ClaimsBacked ==
  Passed =>
    /\ \A r \in Range(Rows(repo, "acceptance")) :
         Strip(r.status) = "bound" => Backed(repo, r.evidence)
    /\ \A r \in Range(Rows(repo, "complexity")) :
         r.method = "source-inspection" => Backed(repo, r.evidence)
    /\ \A cap \in Capabilities(repo) :
         LET r == LastWith(Rows(repo, "accel"), "capability", cap) IN
         /\ r.status = "wired" <=> Dispatchers(repo, cap) # {}
         /\ r.status = "wired" => Backed(repo, r.evidence)

\* After a PASS the generators with a --check have nothing to write; and the
\* manifest, which is accepted however old the revisions in it are, would be written
\* as it is except for those (scripts/release_manifest:14-23).
GeneratedFresh ==
  [][Passed =>
       /\ (ExtractRequirements \/ GenerateStandards \/ GenerateCompat => repo' = repo)
       /\ (Seal => repo' = [repo EXCEPT !.sealed.revisions = repo.revisions])]_vars

\* After a PASS each line of a gate script that may soften it, and is not a comment
\* to the shell, is explained in gate_policy.tsv (check_gate_policy.py:12-19). It is
\* not so: an arm *) of a case is taken for a comment.
SoftSignalsExplained ==
  Passed =>
    \A f \in GateFiles : \A i \in DOMAIN repo.gates[f] :
      repo.gates[f][i].start # "#" /\ repo.gates[f][i].has \cap SoftSignals # {} =>
        \E r \in Range(Rows(repo, "gate_policy")) : Explains(repo, r, f, i)
=============================================================================
