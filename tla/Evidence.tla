------------------------------ MODULE Evidence ------------------------------
(* The checkers under tools/ that tie a table of evidence to what it speaks    *)
(* of: the acceptance scenarios, the fuzz fixtures, the audited operations,    *)
(* the accelerated paths, the gate scripts and the documents of a release.     *)
(*                                                                             *)
(* w.lib holds the modules of the library as sequences of lexemes (Scanners),  *)
(* w.gates the gate scripts as sequences of lines: how a line starts, and      *)
(* which of the texts looked for it has. The token "" of a list is what a      *)
(* comma by itself leaves.                                                     *)
EXTENDS Catalogs

CONSTANTS
  Scenarios,        \* AC-001 .. AC-036
  NotScanned,       \* the files in which citing a scenario does not count
  DocPaths,         \* the documents a bound row can point into
  FuzzIds,          \* the names that start with FZ-
  FuzzPaths,        \* test/fuzz/*.sv0
  BenchmarkIds,     \* the names that start with CB-
  PerfIds,          \* the names that start with PERF-
  OwnedPerf,        \* check_complexity_benchmarks.OWNED_PERF_IDS
  GateFiles,        \* check_gate_policy.GATE_FILES
  FirstRelease      \* 1.0.0

ASSUME EvidenceAssumption == DocPaths \cap TestIds = {}

Entries(cell) == cell \ {""}

-----------------------------------------------------------------------------
(* tools/check_acceptance.py                                                 *)

Strip(status) == IF status = "spec-unavailable " THEN "spec-unavailable" ELSE status

\* Mutant of BoundRowValid: any name that starts with T- is taken.
BoundRowByShape(w, r) ==
  /\ r.evidence \notin {{}, {"-"}}
  /\ \A e \in Entries(r.evidence) : e \in TestIds \/ (e \in DocPaths /\ Exists(w, e))

BoundRowValid(w, r) ==
  /\ r.evidence \notin {{}, {"-"}}
  /\ \A e \in Entries(r.evidence) :
       \/ e \in TestIds /\ e \in CataloguedTests(w)
       \/ e \in DocPaths /\ Exists(w, e)

AcceptanceRowValid(w, r) ==
  /\ r.note # ""
  /\ \/ Strip(r.status) = "bound" /\ BoundRowValid(w, r)
     \/ Strip(r.status) = "deferred" /\ {"SS-", "todo"} \subseteq r.evidence
     \/ Strip(r.status) = "toolchain-evidence" /\ "sv0c" \in r.evidence
     \/ /\ Strip(r.status) = "spec-unavailable"
        /\ r.evidence \in {{}, {"-"}} /\ "not present" \in WordsOf[r.note]

Cited(w) == UNION {w.files[p].cites : p \in Files(w) \ NotScanned}

\* The status is not stripped here.
Unavailable(w) ==
  {r.id : r \in {x \in Range(Rows(w, "acceptance")) : x.status = "spec-unavailable"}}

AcceptanceAccepts(w) ==
  /\ Readable(w, "tests") /\ Regular(w, "acceptance")
  /\ Unique(Rows(w, "acceptance"), "id")
  /\ Values(Rows(w, "acceptance"), "id") = Scenarios
  /\ \A r \in Range(Rows(w, "acceptance")) : AcceptanceRowValid(w, r)
  /\ Unavailable(w) \cap Cited(w) = {}

-----------------------------------------------------------------------------
(* tools/check_fuzz_budget.py                                                *)

PathVocab == {"pure", "accelerated"}

\* r.filled: no column is empty.
FuzzRowValid(w, r) ==
  /\ r.id \in FuzzIds /\ r.filled
  /\ r.fixture \in Files(w)
  /\ r.backends = "c,vm"
  /\ Entries(r.paths) # {} /\ Entries(r.paths) \subseteq PathVocab
  /\ r.min_rounds >= 1 /\ r.rounds >= r.min_rounds
  /\ w.files[r.fixture].rounds = r.rounds /\ w.files[r.fixture].seed = r.seed

FuzzAccepts(w) ==
  LET rows == Rows(w, "fuzz") IN
  /\ Regular(w, "fuzz") /\ Unique(rows, "id")
  /\ \A r \in Range(rows) : FuzzRowValid(w, r)
  /\ Values(rows, "fixture") = Files(w) \cap FuzzPaths
  /\ PathVocab \subseteq UNION Values(rows, "paths")

-----------------------------------------------------------------------------
(* tools/check_complexity_benchmarks.py                                      *)

BenchmarkRowValid(w, r) ==
  /\ r.id \in BenchmarkIds /\ r.filled
  /\ Entries(r.requirements) # {} /\ Entries(r.requirements) \subseteq RequirementIds(w)
  /\ \/ r.method = "source-inspection" /\ Entries(r.evidence) \subseteq CataloguedTests(w)
     \/ r.method = "policy" /\ "complexity.md" \in r.evidence

\* w.sections: the PERF headings of docs/complexity.md.
ComplexityAccepts(w) ==
  LET rows == Rows(w, "complexity")
      perf == PerfIds \cap UNION Values(rows, "requirements")
  IN  /\ Readable(w, "requirements") /\ Readable(w, "tests") /\ Regular(w, "complexity")
      /\ Unique(rows, "id")
      /\ \A r \in Range(rows) : BenchmarkRowValid(w, r)
      /\ OwnedPerf \subseteq perf /\ perf \subseteq w.sections

-----------------------------------------------------------------------------
(* tools/check_accel_matrix.py                                               *)

\* Declarations, <<"cap", name, tag>>, are read in strings_types alone, in the
\* comments, too.
Declarations(w) == SelectSeq(w.lib["strings_types"], LAMBDA l : l[1] = "cap")
Capabilities(w) == {l[2] : l \in Range(Declarations(w))}

\* A dictionary: the last declaration of a name.
TagOf(w, cap) ==
  LET d == Declarations(w)
  IN  d[CHOOSE i \in DOMAIN d :
          d[i][2] = cap /\ \A j \in DOMAIN d : d[j][2] = cap => j <= i][3]

\* A call belongs to the last pub fn that starts before it, whatever other fn it
\* stands in, and be it in a comment; before the first pub fn it is not seen. A
\* declaration of a capability is a pub fn, too.
Starts(module, i) == module[i][1] \in {"pub", "cap"}

Callers(w, cap) ==
  UNION {
    {m} \X {i \in DOMAIN w.lib[m] :
             /\ Starts(w.lib[m], i)
             /\ \E j \in DOMAIN w.lib[m] :
                  /\ i < j /\ w.lib[m][j] = <<"call", cap>>
                  /\ \A k \in i + 1 .. j : ~Starts(w.lib[m], k)} : m \in DOMAIN w.lib}

Dispatchers(w, cap) ==
  {<<c[1], w.lib[c[1]][c[2]][2]>> : c \in Callers(w, cap)}

\* A cell of "-" lists no dispatcher.
AccelRowValid(w, cap, r) ==
  LET live == Dispatchers(w, cap) IN
  /\ r.tag_id = TagOf(w, cap) /\ r.dispatchers = live /\ r.pure_reference # ""
  /\ \/ live = {} /\ r.status = "reserved" /\ r.evidence \ {"", "-"} # {}
     \/ /\ live # {} /\ r.status = "wired"
        /\ r.evidence # {} /\ Entries(r.evidence) \subseteq CataloguedTests(w)

\* The rows are a dictionary: of two for one capability the first is not looked at.
AccelAccepts(w) ==
  LET rows == Rows(w, "accel") IN
  /\ Regular(w, "accel") /\ Readable(w, "tests")
  /\ Values(rows, "capability") = Capabilities(w)
  /\ \A cap \in Capabilities(w) : AccelRowValid(w, cap, LastWith(rows, "capability", cap))

-----------------------------------------------------------------------------
(* tools/check_gate_policy.py                                                *)

SoftSignals ==
  {"skip", "skipping", "detect_leaks=0", "|| true", "continue-on-error", "xfail",
   "set +e", "advisory", "allow_fail", "rerun"}
Banned == {"xfail", "continue-on-error"}

IsComment(line) == line.start \in {"#", "//", "*", "/*"}

SoftLines(w, f) ==
  {i \in DOMAIN w.gates[f] :
     ~IsComment(w.gates[f][i]) /\ w.gates[f][i].has \cap SoftSignals # {}}

Explains(w, r, f, i) == r.file = f /\ r.anchor \in w.gates[f][i].has

\* The whole of a script, its comments included.
TextOf(w, f) == UNION {w.gates[f][i].has : i \in DOMAIN w.gates[f]}

HardFails(w) ==
  /\ {"ok=0 VM=", "injected_mismatch_probe || fails="} \subseteq TextOf(w, "scripts/test")
  /\ "xfail <dup-main" \notin TextOf(w, "scripts/test")
  /\ {"SV0_STRINGS_REQUIRE_SANITIZERS", "SV0_STRINGS_REQUIRE_LOCALES"}
       \subseteq TextOf(w, ".github/workflows/ci.yml")

GatePolicyAccepts(w) ==
  LET rows == Range(Rows(w, "gate_policy")) IN
  /\ Regular(w, "gate_policy") /\ GateFiles \subseteq DOMAIN w.gates
  /\ \A r \in rows :
       /\ r.normative = "no" /\ "reason" \in WordsOf[r.rationale]
       /\ r.file # "" /\ r.anchor # ""
  /\ \A f \in GateFiles : \A i \in SoftLines(w, f) :
       /\ w.gates[f][i].has \cap Banned = {}
       /\ \E r \in rows : Explains(w, r, f, i)
  /\ \A r \in rows : \E f \in GateFiles : \E i \in SoftLines(w, f) : Explains(w, r, f, i)
  /\ HardFails(w)

-----------------------------------------------------------------------------
(* tools/check_release_readiness.py: w.release has the licence files that are  *)
(* not empty, the versions of CHANGELOG.md in their order, those README.md     *)
(* names, and the review documents with the catalogues they point to.          *)

EvidenceCatalogs == {"release_manifest.tsv", "exceptions.tsv", "acceptance.tsv"}

Reviewed(w, doc) ==
  doc \in DOMAIN w.release.reviews /\ EvidenceCatalogs \subseteq w.release.reviews[doc]

ReadinessAccepts(w) ==
  /\ {"LICENSE-APACHE", "LICENSE-MIT"} \subseteq w.release.licenses
  /\ w.release.changelog # <<>>
  /\ Head(w.release.changelog) \in w.release.readme
  /\ Reviewed(w, "r1-gate-review")
  /\ Head(w.release.changelog) # FirstRelease => Reviewed(w, Head(w.release.changelog))
=============================================================================
