----------------------------- MODULE TestRunner -----------------------------
(* scripts/test: every selected test is built and run on the C backend, the    *)
(* native VM, or both; its exit code is compared with the expectation table.   *)
(* With --serialize the kinds (ok, err, skip) of the two legs are recorded,    *)
(* compared with each other at the end, and digested. The compiler, the VM and *)
(* the tests are external: each build and run comes to any outcome it can.     *)
EXTENDS Integers, Sequences, FiniteSets

CONSTANTS Cases,         \* the tests that are built and run
          Rejects,       \* the tests of test/compile_fail
          Tables,        \* the expectation tables
          TargetLists,   \* the selections, sequences of tests
          Options,       \* what the command line asks for
          DriverBuilds,  \* what the driver makes of the mode it is asked for
          Codes,         \* the exit codes of the tests
          ReturnMod      \* a shell function returns its status modulo 256

Modes == {"runtime", "verified", "disabled"}
Legs  == {"c", "vm"}

Exit(n)   == <<"exit", n>>
Status(s) == <<"status", s>>
Skip      == <<"SKIP">>
Unsupported == Status("MODE_UNSUPPORTED")
Silent == "silent"

\* A test without a row in the table is expected to exit with 0. backend is
\* "other" for a name the script does not know; driver is USE_WRAPPER; corrupt
\* names the test whose VM kind SV0_STRINGS_CORRUPT_SERIALIZED flips, or nothing.
ASSUME RunnerAssumption ==
  /\ IsFiniteSet(Cases) /\ Cases \cap Rejects = {}
  /\ Codes \subseteq Nat
  /\ ReturnMod \in Nat /\ ReturnMod > 1
  /\ Tables \subseteq [Cases -> [Legs -> {Exit(n) : n \in Codes} \cup {Skip}]]
  /\ TargetLists \subseteq Seq(Cases \cup Rejects)
  /\ Options \subseteq [backend : {"c", "vm", "both", "other"}, mode : Modes,
                        driver : BOOLEAN, serialize : BOOLEAN,
                        corrupt : SUBSET Cases]
  /\ \A o \in Options : IsFiniteSet(o.corrupt) /\ Cardinality(o.corrupt) <= 1

\* The driver may build in another mode than the one it is asked for, and its log
\* may name no mode ("contracts=..."); where it names one, it is the mode built.
ASSUME DriverAssumption ==
  /\ DriverBuilds \subseteq [asked : Modes, mode : Modes, said : Modes \cup {Silent}]
  /\ \A b \in DriverBuilds : b.said \in {b.mode, Silent}

VARIABLES opt,           \* the options
          table,         \* the expectation table
          selected,      \* the tests selected
          at,            \* the test the loop over them is at
          stage,         \* where the script is
          ok,            \* ok of run_one
          fails,
          record,        \* the file of --record
          serialized,    \* the file of --serialize
          digest,        \* the fixture ids of --digest-out
          ran,           \* what the tools did: every build that was started
          verdict

vars == <<opt, table, selected, at, stage, ok, fails, record, serialized,
          digest, ran, verdict>>

files == <<record, serialized, digest>>
setup == <<opt, table, selected>>

-----------------------------------------------------------------------------
Start(o, t, list) ==
  /\ opt = o /\ table = t /\ selected = list /\ at = 1
  /\ stage = "pick" /\ ok = TRUE /\ fails = 0
  /\ record = <<>> /\ serialized = <<>> /\ digest = {}
  /\ ran = <<>>
  /\ verdict = "running"

Init == \E o \in Options, t \in Tables, list \in TargetLists : Start(o, t, list)

Target == selected[at]
More == at <= Len(selected)
Requested(leg) == opt.backend \in {leg, "both"}

PickCase ==
  /\ stage = "pick" /\ More /\ Target \in Cases
  /\ stage' = "c"
  /\ ok' = TRUE
  /\ UNCHANGED <<setup, at, fails, files, ran, verdict>>

\* Mutant of Count: the last test decides.
CountOverwrites(rc) ==
  /\ fails' = rc
  /\ at' = at + 1
  /\ stage' = "pick"

Count(rc) ==
  /\ fails' = fails + rc
  /\ at' = at + 1
  /\ stage' = "pick"

\* run_compile_fail: a good refusal names the needle of the test.
RunCompileFail ==
  /\ stage = "pick" /\ More /\ Target \in Rejects
  /\ \E got \in {"rejected", "accepted"} :
       /\ ran' = Append(ran, [id |-> Target, leg |-> "reject", mode |-> "runtime",
                              said |-> Silent, got |-> Status(got)])
       /\ Count(IF got = "rejected" THEN 0 ELSE 1)
  /\ UNCHANGED <<setup, ok, files, verdict>>

Driven(leg) == leg = "c" /\ opt.driver

\* How a leg may be built: the mode is the driver's choice, and so is whether its
\* log says so; the raw emitter and the VM know one mode and have no such log.
BuildsOf(leg) ==
  IF Driven(leg) THEN {b \in DriverBuilds : b.asked = opt.mode}
  ELSE {[asked |-> opt.mode, mode |-> "runtime", said |-> Silent]}

\* Mutant of Effective: the log is not read, the request is taken for the answer.
EffectiveAsAsked(leg, said, got) == IF Driven(leg) THEN opt.mode ELSE "runtime"

\* The mode that the record names: what the log of a build says, or what was asked
\* for where it says nothing or the build failed.
Effective(leg, said, got) ==
  IF ~Driven(leg) THEN "runtime"
  ELSE IF said = Silent \/ got = Status("BUILD_FAIL") THEN opt.mode ELSE said

\* A leg can end with an exit code or with one of the statuses of the script
\* (BUILD_FAIL, EMIT_FAIL, NO_EXIT and the like), which no table expects.
Outcomes == {Exit(n) : n \in Codes} \cup {Status("BUILD_FAIL")}

\* Mutant of Excused: SKIP is compared like a code.
ExcusedByMode(got, want) == got = Unsupported

Excused(got, want) == want = Skip \/ got = Unsupported

Kind(leg, got, want) ==
  LET honest == IF got = want THEN "ok" ELSE IF Excused(got, want) THEN "skip" ELSE "err"
  IN IF leg = "vm" /\ Target \in opt.corrupt /\ honest # "skip"
     THEN IF honest = "ok" THEN "err" ELSE "ok"
     ELSE honest

\* Mutant of Judge: the last leg decides.
JudgeLast(got, want) == got = want \/ Excused(got, want)

\* ok of run_one, after a leg: only a miss changes it.
Judge(got, want) == ok /\ (got = want \/ Excused(got, want))

\* The rest of a leg, once it came to got.
Log(leg, mode, got) ==
  LET want == table[Target][leg]
  IN /\ ok' = Judge(got, want)
     /\ record' = Append(record, [id |-> Target, leg |-> leg, mode |-> mode,
                                  want |-> want, got |-> got])
     /\ serialized' = IF opt.serialize
                      THEN Append(serialized, [id |-> Target, leg |-> leg,
                                               kind |-> Kind(leg, got, want)])
                      ELSE serialized

Following(leg) == IF leg = "c" THEN "vm" ELSE "end"

RunLeg(leg) ==
  /\ stage = leg
  /\ Requested(leg)
  /\ leg = "vm" => opt.mode = "runtime"
  /\ \E got \in Outcomes, b \in BuildsOf(leg) :
       /\ ran' = Append(ran, [id |-> Target, leg |-> leg,
                              mode |-> b.mode, said |-> b.said, got |-> got])
       /\ Log(leg, Effective(leg, b.said, got), got)
  /\ stage' = Following(leg)
  /\ UNCHANGED <<setup, at, fails, digest, verdict>>

\* The VM leg has no contract mode to choose: nothing is built.
VmUnsupported ==
  /\ stage = "vm"
  /\ Requested("vm")
  /\ opt.mode # "runtime"
  /\ Log("vm", opt.mode, Unsupported)
  /\ stage' = "end"
  /\ UNCHANGED <<setup, at, fails, digest, ran, verdict>>

PassOver(leg) ==
  /\ stage = leg
  /\ ~Requested(leg)
  /\ stage' = Following(leg)
  /\ UNCHANGED <<setup, at, ok, fails, files, ran, verdict>>

EndOne ==
  /\ stage = "end"
  /\ Count(IF ok THEN 0 ELSE 1)
  /\ UNCHANGED <<setup, ok, files, ran, verdict>>

-----------------------------------------------------------------------------
(* check_serialized_match: the first row of a test and leg is the one compared. *)

RowsOf(id, leg) ==
  {x \in 1 .. Len(serialized) : serialized[x].id = id /\ serialized[x].leg = leg}

FirstKind(id, leg) ==
  LET rows == RowsOf(id, leg)
  IN IF rows = {} THEN "none"
     ELSE serialized[CHOOSE x \in rows : \A y \in rows : x <= y].kind

Compared(id) == {FirstKind(id, "c"), FirstKind(id, "vm")} \subseteq {"ok", "err"}

\* Mutant of Mismatches: a row of kind err is left to the check of the leg.
MismatchesOfOk ==
  {id \in Cases : Compared(id) /\ FirstKind(id, "c") = "err" /\ FirstKind(id, "vm") = "ok"}

Mismatches == {id \in Cases : Compared(id) /\ FirstKind(id, "c") # FirstKind(id, "vm")}

OkIds(leg) ==
  {serialized[x].id : x \in {y \in 1 .. Len(serialized) :
     serialized[y].leg = leg /\ serialized[y].kind = "ok"}}

\* Mutant of BothOk: a test that was selected twice is not counted.
BothOkUnrepeated ==
  {id \in OkIds("c") \cap OkIds("vm") : Cardinality(RowsOf(id, "c")) = 1}

BothOk == OkIds("c") \cap OkIds("vm")

CrossCheck ==
  /\ stage = "pick" /\ ~More
  /\ stage' = "report"
  /\ IF opt.serialize
     THEN /\ fails' = fails + (Cardinality(Mismatches) % ReturnMod)
          /\ digest' = BothOk
     ELSE UNCHANGED <<fails, digest>>
  /\ UNCHANGED <<setup, at, ok, record, serialized, ran, verdict>>

Report ==
  /\ stage = "report"
  /\ stage' = "done"
  /\ verdict' = IF fails > 0 THEN "red" ELSE "green"
  /\ UNCHANGED <<setup, at, ok, fails, files, ran>>

\* The script is stopped; its files stay as they are.
Kill ==
  /\ stage # "done"
  /\ stage' = "done"
  /\ verdict' = "killed"
  /\ UNCHANGED <<setup, at, ok, fails, files, ran>>

Next ==
  \/ PickCase \/ RunCompileFail
  \/ \E leg \in Legs : RunLeg(leg) \/ PassOver(leg)
  \/ VmUnsupported \/ EndOne \/ CrossCheck \/ Report \/ Kill

Spec == Init /\ [][Next]_vars
-----------------------------------------------------------------------------
RanAs(id, leg, got) ==
  \E x \in DOMAIN ran : ran[x].id = id /\ ran[x].leg = leg /\ ran[x].got = got

\* A leg that nobody asked for, or that the table or the mode excuses.
NotHeld(id, leg) ==
  \/ ~Requested(leg)
  \/ table[id][leg] = Skip
  \/ leg = "vm" /\ opt.mode # "runtime"

\* A build that missed what it is held to.
Missed(b) ==
  IF b.leg = "reject" THEN b.got # Status("rejected")
  ELSE ~NotHeld(b.id, b.leg) /\ b.got # table[b.id][b.leg]

\* A test that was run on every leg it is held to, and came to what it should.
Held(id) ==
  IF id \in Rejects THEN RanAs(id, "reject", Status("rejected"))
  ELSE \A leg \in Legs : NotHeld(id, leg) \/ RanAs(id, leg, table[id][leg])

\* Green means that every selected test was run on every leg it is held to, that
\* no build missed what it is held to, and that every test that must not compile
\* was refused (SPEC 21.1, BACKEND-009: the legs are hard-failing).
GreenMeans ==
  verdict = "green" =>
    /\ \A x \in DOMAIN selected : Held(selected[x])
    /\ \A x \in DOMAIN ran : ~Missed(ran[x])

\* Red has a cause: a build that missed, or the injected corruption (the control
\* run of the self-test has neither).
RedMeans ==
  verdict = "red" =>
    \/ opt.corrupt # {} /\ opt.serialize
    \/ \E x \in DOMAIN ran : Missed(ran[x])

\* A corrupted record fails the run even where both legs match the table: the
\* comparison does not lean on the checks of the legs (TEST-021).
CorruptionCaught ==
  \A id \in opt.corrupt :
    opt.serialize /\ Compared(id) => verdict # "green"

\* A green run of both legs, with nothing excused, digests exactly the tests
\* selected: the count that check_serialized_comparison asks for (TEST-005).
DigestComplete ==
  LET chosen == {selected[x] : x \in DOMAIN selected} \cap Cases
  IN (/\ verdict = "green" /\ opt.serialize
      /\ \A id \in chosen, leg \in Legs : ~NotHeld(id, leg))
     => digest = chosen

\* Where the mode of a driven build is not known: it failed, or its log is silent.
Unnamed(build) ==
  /\ Driven(build.leg)
  /\ build.said = Silent \/ build.got = Status("BUILD_FAIL")

\* That a row of the record is of this build: it names the contract mode the leg was
\* built in, whatever was asked for, or what was asked for where the mode is unknown.
RowOf(row, build) ==
  /\ build.id = row.id /\ build.leg = row.leg /\ build.got = row.got
  /\ row.mode = build.mode \/ (Unnamed(build) /\ row.mode = opt.mode)

\* The record names the mode in effect: every row is of a build, and a mode that is
\* not the one of that build is only there for a driver that failed or did not say
\* which it used; a mode that the VM has not is there as unsupported (UP-028).
RecordEffective ==
  \A x \in DOMAIN record :
    LET row == record[x]
    IN IF row.got = Unsupported
       THEN row.leg = "vm" /\ row.mode # "runtime" /\ ~\E y \in DOMAIN ran : ran[y].leg = "vm"
       ELSE \E y \in DOMAIN ran : RowOf(row, ran[y])
-----------------------------------------------------------------------------
Builds ==
  [id : Cases \cup Rejects, leg : Legs \cup {"reject"}, mode : Modes,
   said : Modes \cup {Silent}, got : Outcomes \cup {Status("rejected"), Status("accepted")}]

TypeOK ==
  /\ opt \in Options /\ table \in Tables /\ selected \in TargetLists
  /\ at \in Nat \ {0}
  /\ stage \in {"pick", "c", "vm", "end", "report", "done"}
  /\ ok \in BOOLEAN /\ fails \in Nat
  /\ ran \in Seq(Builds)
  /\ verdict \in {"running", "red", "green", "killed"}

Passed(id, leg) == NotHeld(id, leg) \/ RanAs(id, leg, table[id][leg])

\* Where the script is.
Where ==
  /\ stage \in {"c", "vm", "end"} => More /\ Target \in Cases
  /\ stage = "report" => ~More
  /\ verdict # "running" => stage = "done"
  /\ verdict \in {"green", "red"} => ~More
  /\ verdict = "green" => fails = 0

\* What fails and ok stand for, as long as nobody stops the script.
Tally ==
  verdict # "killed" =>
    /\ fails = 0 =>
         /\ \A x \in 1 .. at - 1 : x \in DOMAIN selected => Held(selected[x])
         /\ (stage \in {"vm", "end"} => ok) => \A x \in DOMAIN ran : ~Missed(ran[x])
    /\ stage \in {"vm", "end"} /\ ok => Passed(Target, "c")
    /\ stage = "end" /\ ok => Passed(Target, "vm")

\* The inductive invariant of the tally.
IInv == TypeOK /\ Where /\ Tally

-----------------------------------------------------------------------------
(* What stands in the files, and how it hangs together with what was built.    *)

RecordRows ==
  [id : Cases, leg : Legs, mode : Modes,
   want : {Exit(n) : n \in Codes} \cup {Skip}, got : Outcomes \cup {Unsupported}]

SerializedRows == [id : Cases, leg : Legs, kind : {"ok", "err", "skip"}]

FilesOK == record \in Seq(RecordRows) /\ serialized \in Seq(SerializedRows)

IsSelected(id) == \E x \in DOMAIN selected : selected[x] = id

\* What may be built: a selected test, on a leg that was asked for.
RanAsked ==
  \A x \in DOMAIN ran :
    /\ IsSelected(ran[x].id)
    /\ ran[x].leg = "reject" => ran[x].id \in Rejects
    /\ ran[x].leg # "reject" => Requested(ran[x].leg)
    /\ ran[x].leg = "vm" => opt.mode = "runtime"

BuiltAs(row) == \E y \in DOMAIN ran : RowOf(row, ran[y])

\* A row of the record is of a build, or says that the VM has no such mode.
RecordFits ==
  \A x \in DOMAIN record :
    /\ IsSelected(record[x].id)
    /\ Requested(record[x].leg)
    /\ record[x].want = table[record[x].id][record[x].leg]
    /\ IF record[x].got = Unsupported
       THEN record[x].leg = "vm" /\ record[x].mode = opt.mode /\ opt.mode # "runtime"
       ELSE BuiltAs(record[x])

\* A requested leg of a test leaves its row, once the loop is behind it.
Recorded(id, leg) ==
  Requested(leg) => \E y \in DOMAIN record : record[y].id = id /\ record[y].leg = leg

RecordCovers ==
  /\ \A x \in 1 .. at - 1 : x \in DOMAIN selected /\ selected[x] \in Cases =>
       \A leg \in Legs : Recorded(selected[x], leg)
  /\ stage \in {"vm", "end"} => Recorded(Target, "c")
  /\ stage = "end" => Recorded(Target, "vm")

\* How the row of a leg is serialized.
KindOf(row) ==
  LET honest == IF row.got = row.want THEN "ok"
                ELSE IF Excused(row.got, row.want) THEN "skip" ELSE "err"
  IN IF row.leg = "vm" /\ row.id \in opt.corrupt /\ honest # "skip"
     THEN IF honest = "ok" THEN "err" ELSE "ok"
     ELSE honest

SerializedFits ==
  opt.serialize =>
    /\ Len(serialized) = Len(record)
    /\ \A x \in DOMAIN serialized :
         /\ serialized[x].id = record[x].id /\ serialized[x].leg = record[x].leg
         /\ serialized[x].kind = KindOf(record[x])

\* A failure has a cause.
Cause ==
  \/ opt.corrupt # {} /\ opt.serialize
  \/ \E x \in DOMAIN ran : Missed(ran[x])

Causes ==
  /\ stage = "c" => ok
  /\ stage \in {"vm", "end"} /\ ~ok => \E x \in DOMAIN ran : Missed(ran[x])
  /\ fails > 0 => Cause
  /\ verdict = "red" => fails > 0

\* Behind the cross-check of a run that goes on, or went on, to its verdict.
CrossChecked ==
  stage \in {"report", "done"} /\ verdict # "killed" /\ opt.serialize =>
    /\ digest = BothOk
    /\ fails = 0 => \A id \in opt.corrupt : ~Compared(id)

\* The inductive invariant of the files, beside IInv.
Books ==
  /\ FilesOK /\ RanAsked /\ RecordFits /\ RecordCovers /\ SerializedFits
  /\ Causes /\ CrossChecked
=============================================================================
