---------------------------- MODULE MCCheckGate ----------------------------
(* A small tree that every checker accepts, derived from a small SPEC by the *)
(* generators, and what it may become; beside the idle gate, the short texts *)
(* of the three scanners.                                                    *)
EXTENDS CheckGate

VARIABLE text   \* what a scanner reads, or <<"none", <<>>>>

-----------------------------------------------------------------------------
(* The names.                                                                *)

MCSv0Paths     == {"lib/x.sv0", "test/a.sv0", "test/b.sv0", "test/fuzz/z.sv0",
                   "test/compile_fail/n.sv0"}
MCFixturePaths == MCSv0Paths \ {"lib/x.sv0"}
MCNotCompared  == {"test/compile_fail/n.sv0"}
MCFuzzPaths    == {"test/fuzz/z.sv0"}
MCScriptPaths  == {"differential.py", "gone.py"}
MCDocPaths     == {"docs/audit.md", "docs/gone.md"}
MCTestIds      == {"T-1", "T-2", "T-3", "T-4", "T-5"}
MCFixtureIds   == {"F-1", "F-2", "F-3", "F-4"}
MCIdOrder      == <<"C23-001", "PERF-001", "POSIX-001", "SEC-001", "TEXT-001", "TEXT-002",
                    "UP-023", "UP-024">>
MCDrivers       == {"test/differential/d.py"}
MCHostDependent == {<<"string.h", "strcoll">>}

\* The free texts, and the words in them.
Texts ==
  [ inspection  |-> {},              test        |-> {},
    review      |-> {"review"},      team        |-> {"@"},
    because     |-> {"reason"},      soon        |-> {},
    forever     |-> {"permanent"},   dash        |-> {},
    absent      |-> {"not present"}, glibc       |-> {"glibc"},
    libSystem   |-> {"libsystem"},   musl        |-> {},
    base        |-> {"base"},        declaration |-> {"declaration"},
    function    |-> {},              removed     |-> {"removed"},
    xsi         |-> {"xsi"},         hosted      |-> {"cx-locale"} ]

\* Disposition cells: the words, and how the phrases start.
DispositionWords ==
  [ adapted |-> {"Adapted", "Exact"}, host |-> {"Host-dependent"}, bare |-> {},
    late |-> {"Deferred", "Legacy"} ]
MCKeywords ==
  [ adapted |-> <<"", "Adapted">>, host |-> <<"Host-dependent">>, bare |-> <<"">>,
    late |-> <<"">> ]

MCWordsOf  == Texts @@ DispositionWords
MCDigestOf == [text1 |-> "digest1", text2 |-> "digest2"]

\* Symbol cells: the names between the commas.
MCSymbolsIn ==
  [cell \in {"NULL", "memcpy", "memmove", "strcoll", "memcpy_s", "strlcpy", "ffsl", "bzero"}
     |-> <<cell>>] @@ ("ffs, ffsll" :> <<"ffs", "ffsll">>)

-----------------------------------------------------------------------------
(* The SPEC, and what it may become.                                         *)

Heading(n) == [heading |-> n, cells |-> <<>>]
Line(c)    == [heading |-> "", cells |-> c]
Wanted(id, release, how) == Line(<<id, release, "text1", how>>)

BaseSpec ==
  << Heading("5"),
     Line(<<"ID", "Release", "Requirement", "Verification">>),
     Line(<<"---", "---", "---", "---">>),
     Wanted("TEXT-001", "R0.1", "test"), Wanted("C23-001", "R0.3", "test"),
     Wanted("POSIX-001", "R0.4", "review"), Wanted("PERF-001", "R0.2", "inspection"),
     Heading("7"),
     Wanted("UP-023", "R0.2", "test"), Wanted("SEC-001", "F0", "test"),
     Wanted("UP-024", "Future", "test"),
     Heading("A.2"),
     Line(<<"declaration", "class", "role", "disposition">>), Line(<<"---">>),
     Line(<<"NULL", "declaration", "", "adapted">>),
     Line(<<"symbol", "class", "role", "disposition">>), Line(<<"---">>),
     Line(<<"memcpy", "function", "", "adapted">>), Line(<<"strcoll", "function", "", "host">>),
     Line(<<"short">>),
     Heading("A.3"),
     Line(<<"symbol/type", "disposition">>), Line(<<"---">>), Line(<<"memcpy_s", "late">>),
     Heading("A.4"),
     Line(<<"declaration", "class", "role", "disposition">>), Line(<<"---">>),
     Line(<<"NULL", "declaration", "", "adapted">>),
     Line(<<"symbol", "class", "role", "disposition">>), Line(<<"---">>),
     Line(<<"strlcpy", "base", "", "adapted">>),
     Heading("A.5"),
     Line(<<"symbol", "class", "role", "disposition">>), Line(<<"---">>),
     Line(<<"ffs, ffsll", "xsi", "", "adapted">>),
     Heading("A.6"),
     Line(<<"symbol", "was", "disposition">>), Line(<<"---">>),
     Line(<<"bzero", "removed", "late">>) >>

Inserted(line, i) == InsertAt(BaseSpec, i, line)

SpecVariants ==
  {NoSpec,
   Inserted(Wanted("TEXT-002", "R0.1", "test"), 5),        \* a requirement more
   Inserted(Wanted("TEXT-001", "F0", "test"), 5),          \* a name twice
   Inserted(Wanted("TEXT-002", "R9", "test"), 5),          \* no release
   Inserted(Line(<<"memcpy", "function", "", "host">>), 20),
   Inserted(Line(<<"memmove", "function", "", "bare">>), 20),
   Inserted(Line(<<"ffsl", "xsi", "", "host">>), Len(BaseSpec) - 4)}

-----------------------------------------------------------------------------
(* The tables.                                                               *)

Test(id, path, ids) == [id |-> id, path |-> path, requirements |-> ids]

Fixture(id, path, digest) ==
  [id |-> id, path |-> path, provenance |-> "hand", unit |-> "bytes",
   input_sha1 |-> digest, expected_sha1 |-> "e1", standard |-> "C23",
   generator |-> [head |-> "generated", words |-> {"differential.py", "by"},
                  parenthesised |-> TRUE]]

BaselineRow(category) == [category |-> category, path |-> "test/a.sv0", note |-> "dash"]
ExceptionRow(id, expiration, status) ==
  [requirement |-> id, approver |-> "team", rationale |-> "because",
   expiration |-> expiration, status |-> status]
Scenario(id, status, evidence, note) ==
  [id |-> id, status |-> status, evidence |-> evidence, note |-> note]
Fuzz(id, rounds, least) ==
  [id |-> id, filled |-> TRUE, fixture |-> "test/fuzz/z.sv0", backends |-> "c,vm",
   paths |-> PathVocab, rounds |-> rounds, min_rounds |-> least, seed |-> 7]
Benchmark(id, method, evidence) ==
  [id |-> id, filled |-> TRUE, requirements |-> {"PERF-001"}, method |-> method,
   evidence |-> evidence]
Capability(name, tag, dispatchers, status, evidence) ==
  [capability |-> name, tag_id |-> tag, dispatchers |-> dispatchers,
   pure_reference |-> "loop", status |-> status, evidence |-> evidence]
Allowed(file, anchor, normative) ==
  [file |-> file, anchor |-> anchor, normative |-> normative, rationale |-> "because"]
Target(libc, status, evidence, profile) ==
  [filled |-> TRUE, libc |-> libc, backends |-> {"c"}, status |-> status,
   ci_evidence |-> evidence, profile |-> profile]
Component(c, v) == [component |-> c, value |-> v]
Result(b, m, r, note) ==
  [backend |-> b, mode |-> m, result |-> r, fixtures |-> "3", note |-> note]
Rehearsed(m, o, b, r) == [mode |-> m, order |-> o, backend |-> b, result |-> r]
Ordered(c, o, b, r)   == [case |-> c, order |-> o, backend |-> b, result |-> r]

Listed(S) == FoldSet(LAMBDA r, rows : Append(rows, r), <<>>, S)

BaseTables ==
  [ requirements |-> Requirements(BaseSpec),
    standards    |-> StandardsMatrix(BaseSpec),
    provenance   |-> Good(<<>>),
    tests        |-> Good(<<Test("T-1", "test/a.sv0", {"TEXT-001"}),
                            Test("T-2", "test/fuzz/z.sv0", {"SEC-001", "PERF-001"}),
                            Test("T-3", "test/compile_fail/n.sv0", {"C23-001"}),
                            Test("T-4", "tools/c.py", {"C23-001"})>>),
    fixtures     |-> Good(<<Fixture("F-1", "test/a.sv0", "a1"),
                            Fixture("F-2", "test/fuzz/z.sv0", "z1"),
                            Fixture("F-3", "test/compile_fail/n.sv0", "n1")>>),
    baselines    |-> Good(Listed({BaselineRow(c) : c \in BaselineVocab})),
    exceptions   |-> Good(<<ExceptionRow("UP-023", "soon", "open")>>),
    acceptance   |-> Good(<<Scenario("AC-001", "bound", {"T-4", "docs/audit.md"}, "dash"),
                            Scenario("AC-002", "deferred", {"SS-", "todo"}, "dash"),
                            Scenario("AC-003", "spec-unavailable", {"-"}, "absent"),
                            Scenario("AC-004", "toolchain-evidence", {"sv0c"}, "dash")>>),
    fuzz         |-> Good(<<Fuzz("FZ-1", 8, 4)>>),
    complexity   |-> Good(<<Benchmark("CB-1", "source-inspection", {"T-2"}),
                            Benchmark("CB-2", "policy", {"complexity.md"})>>),
    accel        |-> Good(<<Capability("fast", "1", {<<"strings_bytes", "copy">>}, "wired", {"T-1"}),
                            Capability("slow", "2", {}, "reserved", {"later"})>>),
    gate_policy  |-> Good(<<Allowed("scripts/test", "skip-sanitizers", "no")>>),
    rehearsal    |-> Good(Listed({Rehearsed(m, o, b, "pass") : m \in {"workspace", "installed"},
                                    o \in {"forward", "reverse"}, b \in {"c", "vm"}})),
    path_order   |-> Good(Listed(
                       {Ordered("valid", o, b, "pass") :
                          o \in {"entry-before-lib", "entry-after-lib"}, b \in {"c", "vm"}} \cup
                       {Ordered("ambiguous", o, b, "reject_ok") :
                          o \in {"dup-first-before-lib", "dup-first-after-lib"},
                          b \in {"c", "vm"}})),
    serialized   |-> Good(<<Component("fixture_count", <<"number", 2>>),
                            Component("fixture_id_digest", <<"sha256">>),
                            Component("mismatches", <<"number", 0>>)>>),
    contract     |-> Good(Listed({Result(b, "runtime", "pass", "-") : b \in {"c", "vm"}} \cup
                                 {Result(b, m, "unsupported", "because") :
                                    b \in {"c", "vm"}, m \in {"verified", "disabled"}})),
    targets      |-> Good(<<Target("glibc", "supported", "because", "base"),
                            Target("libSystem", "partial", "dash", "base")>>) ]

-----------------------------------------------------------------------------
(* The rest of the tree.                                                     *)

File(digest, cites)       == [text |-> digest, cites |-> cites, rounds |-> -1, seed |-> -1]
FuzzFile(digest, rounds)  == [text |-> digest, cites |-> {}, rounds |-> rounds, seed |-> 7]

BaseFiles ==
  ("test/a.sv0" :> File("a1", {"AC-001"})) @@ ("test/fuzz/z.sv0" :> FuzzFile("z1", 8)) @@
  ("test/compile_fail/n.sv0" :> File("n1", {})) @@ ("lib/x.sv0" :> File("x1", {})) @@
  ("tools/c.py" :> File("c1", {})) @@ ("differential.py" :> File("d1", {})) @@
  ("test/differential/d.py" :> File("d2", {})) @@
  ("docs/audit.md" :> File("m1", {})) @@ ("docs/scenarios.md" :> File("s1", {"AC-003"}))

MCNotScanned == {"docs/scenarios.md"}

FileVariants ==
  {Restrict(BaseFiles, DOMAIN BaseFiles \ {p}) :
     p \in DOMAIN BaseFiles \ {"lib/x.sv0"}} \cup
  {BaseFiles @@ ("test/b.sv0" :> File("b1", {})),
   [BaseFiles EXCEPT !["test/a.sv0"].text = "a2"],
   [BaseFiles EXCEPT !["lib/x.sv0"].cites = {"AC-003"}],
   [BaseFiles EXCEPT !["test/fuzz/z.sv0"] = FuzzFile("z1", 2)]}

BaseLib ==
  [strings_types |-> <<<<"cap", "fast", "1">>, <<"nl">>, <<"cap", "slow", "2">>>>,
   strings_bytes |-> <<<<"//">>, <<"ambient">>, <<"nl">>, <<"pub", "copy">>, <<"nl">>,
                       <<"call", "fast">>>>]

LibVariants ==
  {[BaseLib EXCEPT !.strings_bytes = @ \o added] :
     added \in {<<<<"ambient">>>>, <<<<"/*">>, <<"ambient">>, <<"*/">>>>,
                <<<<"pub", "find">>, <<"call", "slow">>>>, <<<<"fn", "own">>, <<"call", "slow">>>>}} \cup
  {[BaseLib EXCEPT !.strings_bytes = SubSeq(@, 1, 5)],
   [BaseLib EXCEPT !.strings_types = Append(@, <<"cap", "fast", "3">>)],
   [BaseLib EXCEPT !.strings_types = Append(@, <<"cap", "new", "4">>)]}

GateLine(start, has) == [start |-> start, has |-> has]

BaseGates ==
  ("scripts/test" :>
     <<GateLine("#", {"skip"}), GateLine("echo", {"skip", "skip-sanitizers"}),
       GateLine("[[", {"ok=0 VM="}), GateLine("injected", {"injected_mismatch_probe || fails="})>>) @@
  (".github/workflows/ci.yml" :>
     <<GateLine("env", {"SV0_STRINGS_REQUIRE_SANITIZERS", "SV0_STRINGS_REQUIRE_LOCALES"})>>) @@
  ("scripts/consumer_rehearsal" :>
     <<GateLine("#", {"https://"}), GateLine("git", {"git clone", "--local"})>>)

MCGateFiles == {"scripts/test", ".github/workflows/ci.yml"}

WithLine(f, line) == [BaseGates EXCEPT ![f] = Append(@, line)]

\* The shell's case arm that starts with a star.
CaseArm == WithLine("scripts/test", GateLine("*", {"skip"}))

GateVariants ==
  {WithLine("scripts/test", GateLine("cmd", {w})) : w \in {"|| true", "xfail"}} \cup
  {WithLine("scripts/test", GateLine("#", {w})) : w \in {"skip", "xfail <dup-main"}} \cup
  {WithLine("scripts/consumer_rehearsal", GateLine(s, {"curl"})) : s \in {"*", "#"}} \cup
  {CaseArm, [BaseGates EXCEPT !["scripts/test"] = SubSeq(@, 1, 3)],
   [BaseGates EXCEPT !["scripts/test"] = RemoveAt(@, 2)],
   [BaseGates EXCEPT !["scripts/consumer_rehearsal"] = Append(@, GateLine("git", {"git fetch"}))]}

BaseRelease ==
  [licenses |-> {"LICENSE-APACHE", "LICENSE-MIT"}, changelog |-> <<"1.1.0", "1.0.0">>,
   readme |-> {"1.1.0"},
   reviews |-> [r \in {"r1-gate-review", "1.1.0"} |-> EvidenceCatalogs]]

ReleaseVariants ==
  {[BaseRelease EXCEPT !.licenses = {"LICENSE-MIT"}],
   [BaseRelease EXCEPT !.changelog = <<"1.2.0">> \o @, !.readme = {"1.2.0"}],
   [BaseRelease EXCEPT !.changelog = <<"1.0.0">>, !.readme = {"1.0.0"}],
   [BaseRelease EXCEPT !.reviews["r1-gate-review"] = {"acceptance.tsv"}]}

\* docs/a.md shows a declaration in a block of another language.
Ticked(kind, n, info) ==
  [kind |-> kind, deep |-> FALSE, length |-> n, info |-> info, more |-> FALSE]
Fence(info)           == Ticked("backticks", 3, info)
Shown(kind)           == Ticked(kind, 0, "")

BaseDocs ==
  "docs/a.md" :> <<Fence("text"), Shown("header-only"), Fence(""),
                   Fence("sv0"), Shown("with body"), Fence("")>>
DocVariants ==
  {"docs/a.md" :> (BaseDocs["docs/a.md"] \o <<Fence(lang), Shown("header-only"), Fence("")>>) :
     lang \in {"sv0", "c"}}

BaseTree ==
  LET tree == [t |-> BaseTables, files |-> BaseFiles, lib |-> BaseLib, gates |-> BaseGates,
               release |-> BaseRelease, docs |-> BaseDocs, sections |-> {"PERF-001"},
               untracked |-> {}, spec |-> BaseSpec, revisions |-> "present",
               sealed |-> [t |-> BaseTables, revisions |-> "earlier"]]
  IN  tree @@ [compat |-> Compat(tree)]

\* Most contributors do not have the SPEC. The manifest is from an earlier commit.
MCTrees == {BaseTree, [BaseTree EXCEPT !.spec = NoSpec]}

MCVariants ==
  [files |-> FileVariants, lib |-> LibVariants, gates |-> GateVariants,
   release |-> ReleaseVariants, docs |-> DocVariants, sections |-> {{}},
   untracked |-> {{"exceptions"}}, spec |-> SpecVariants, revisions |-> {"later", ""},
   compat |-> {[BaseTree.compat EXCEPT !.c23_functions = {}],
               [BaseTree.compat EXCEPT !.posix_coverage = <<>>]}]

\* One script with a case arm is all that is edited.
ArmVariants == [gates |-> {CaseArm}]

ARequirement(id, release, how) ==
  [id |-> id, release |-> release, section |-> "5", text |-> "digest1",
   verification |-> how, status |-> "todo"]
AStandard(symbol, disposition) ==
  [standard |-> "C23", header |-> "string.h", symbol |-> symbol, classification |-> "function",
   disposition |-> disposition, requirements |-> {}, tests |-> {}]

MCRowPool ==
  [ requirements |-> {ARequirement("TEXT-002", "R0.1", "test"),
                      ARequirement("TEXT-002", "R0.1", "review"),
                      ARequirement("TEXT-001", "R0.1", "test"),
                      ARequirement("TEXT-002", "Future", "test")},
    standards    |-> {AStandard("memmove", "Exact"), AStandard("memmove", "Host-dependent"),
                      AStandard("memcpy", "Exact"), AStandard("memmove", "Odd")},
    provenance   |-> {[artifact |-> "table"]},
    tests        |-> {Test("T-5", "", {"TEXT-001"}), Test("T-5", "lib/x.sv0", {"TEXT-001"}),
                      Test("T-5", "test/a.sv0", {"TEXT-001"}), Test("T-1", "tools/c.py", {"C23-001"}),
                      Test("T-5", "test/b.sv0", {"TEXT-001"}), Test("T-5", "tools/c.py", {"UP-023"}),
                      Test("T-5", "tools/c.py", {"NEW-001"})},
    fixtures     |-> {Fixture("F-4", "test/a.sv0", "a1"), Fixture("F-4", "test/b.sv0", "b1"),
                      Fixture("F-1", "test/a.sv0", "a2"),
                      [Fixture("F-1", "test/a.sv0", "a1") EXCEPT !.generator.words = {"gone.py"}]},
    baselines    |-> {BaselineRow("other"), [BaselineRow("empty") EXCEPT !.path = "test/b.sv0"]},
    exceptions   |-> {ExceptionRow("UP-023", "forever", "permanent"),
                      ExceptionRow("SEC-001", "soon", "open"),
                      ExceptionRow("TEXT-001", "soon", "open")},
    acceptance   |-> {Scenario("AC-001", "bound", {"T-5"}, "dash"),
                      Scenario("AC-001", "bound", {""}, "dash"),
                      Scenario("AC-001", "bound", {"docs/gone.md"}, "dash"),
                      Scenario("AC-003", "spec-unavailable ", {"-"}, "absent")},
    fuzz         |-> {Fuzz("FZ-1", 2, 1), Fuzz("FZ-1", 8, 9), Fuzz("FZ-2", 8, 4),
                      [Fuzz("FZ-1", 8, 4) EXCEPT !.paths = {"pure"}]},
    complexity   |-> {Benchmark("CB-1", "source-inspection", {"T-5"}),
                      Benchmark("CB-1", "source-inspection", {""})},
    accel        |-> {Capability("fast", "1", {<<"strings_bytes", "copy">>}, "wired", {"T-5"}),
                      Capability("slow", "2", {<<"strings_bytes", "copy">>}, "wired", {"T-1"}),
                      Capability("slow", "2", {<<"strings_bytes", "find">>}, "wired", {"T-1"})},
    gate_policy  |-> {Allowed("scripts/test", "skip", "no"), Allowed("scripts/test", "skip", "yes"),
                      Allowed("scripts/test", "|| true", "no")},
    rehearsal    |-> {Rehearsed("workspace", "forward", "c", "fail")},
    path_order   |-> {Ordered("ambiguous", "dup-first-before-lib", "c", "pass")},
    serialized   |-> {Component("fixture_count", <<"number", 3>>), Component("other", <<"text">>)},
    contract     |-> {Result("c", "runtime", "fail", "dash"),
                      Result("c", "verified", "unsupported", "dash")},
    targets      |-> {Target("musl", "supported", "dash", "base"),
                      Target("musl", "partial", "dash", "hosted")} ]

NoRows == [n \in {} |-> {}]

-----------------------------------------------------------------------------
(* What the scanners read.                                                   *)

MarkdownLines ==
  {Fence(info) : info \in {"", "sv0", "c"}} \cup
  {Ticked("backticks", 4, info) : info \in {"", "sv0"}} \cup
  {[Fence("sv0") EXCEPT !.more = TRUE], [Fence("") EXCEPT !.deep = TRUE],
   Ticked("tildes", 3, ""), Shown("header-only")}
Lexemes == {<<"/*">>, <<"*/">>, <<"//">>, <<"nl">>, <<"quote">>, <<"ambient">>}
MessageLines == SUBSET {"#", "trailer with agent", "scissors"}

NoText == <<"none", <<>>>>

\* What the three scanners find is what a markdown reader, the compiler's lexer and
\* git make of the text, where the hypotheses FencesPlain and CommentsPlain hold, and
\* for a message as far as CommitExact says for each place it may come from.
ScannersExact ==
  /\ text[1] = "markdown" => FencesExact(text[2])
  /\ text[1] = "module" => CommentsExact(text[2])
  /\ text[1] = "message" => CommitExact(text[2])

Reads(kind, S, n) == \E k \in 0 .. n : \E s \in [1 .. k -> S] : text = <<kind, s>>

\* The gate begins with an oracle that is right, and an edit may spoil it; or with
\* one that no driver agrees with, in a tree without the SPEC.
MCInit ==
  /\ Init /\ (oracle = "right" \/ (oracle = "odd" /\ repo.spec = NoSpec))
  /\ \/ text = NoText
     \/ /\ repo.spec = NoSpec /\ oracle = "right"
        /\ \/ Reads("markdown", MarkdownLines, 5)
           \/ Reads("module", Lexemes, 5)
           \/ Reads("message", MessageLines, 4)

MCNext ==
  \/ text = NoText /\ Next /\ UNCHANGED text
  \/ text # NoText /\ UNCHANGED <<vars, text>>

MCSpec == MCInit /\ [][MCNext]_<<vars, text>>
=============================================================================
