-------------------------- MODULE CheckGateProofs --------------------------
(* What a PASS of scripts/check means, for every tree, every edit and every    *)
(* order of steps, edits, generators and interruptions. GateInv carries the    *)
(* verdicts of the checkers from one step to the next; the other theorems put  *)
(* together what several of them looked at. Behind them, the scanners.         *)
EXTENDS MCCheckGate, TLAPS, NaturalsInduction, WellFoundedInduction

\* The steps that are named by their number.
LEMMA StepFacts ==
  /\ DOMAIN Steps = 1 .. 25 /\ LastStep = 25
  /\ Steps[21] = "c_oracle" /\ Steps[22] = "differential" /\ Steps[23] = "spec"
  /\ Steps[24] = "extract_requirements" /\ Steps[25] = "standards_matrix"
BY DEF Steps, LastStep

LEMMA LastStepIs25 == LastStep = 25
BY StepFacts

LEMMA NotJudging ==
  /\ \A w : ~Judges(21, w) /\ ~Judges(22, w) /\ ~Judges(23, w)
  /\ \A w : ~SpecThere(w) => ~Judges(24, w) /\ ~Judges(25, w)
BY StepFacts DEF Judges, IsChecker, NotCheckers, SpecSteps

-----------------------------------------------------------------------------
(* The invariant.                                                            *)

LEMMA InitInv == Init => GateInv
<1> SUFFICES ASSUME Init PROVE GateInv
  OBVIOUS
<1>1. at = 0 /\ fail = FALSE /\ quiet = FALSE /\ verdict = "none" /\ oracle \in OracleSources
  BY DEF Init
<1>2. fail \in BOOLEAN /\ quiet \in BOOLEAN
  BY <1>1
<1>3. GateTypes
  BY <1>1, <1>2, LastStepIs25 DEF GateTypes
<1> QED
  BY <1>1, <1>3 DEF GateInv, FindSpecAt

LEMMA StartInv == GateInv /\ Start => GateInv'
<1> SUFFICES ASSUME GateInv, Start PROVE GateInv'
  OBVIOUS
<1>1. at' = 1 /\ fail' = FALSE /\ quiet' = TRUE /\ verdict' = "none" /\ oracle' = oracle
  BY DEF Start
<1>2. \A k \in DOMAIN Steps : ~Behind(k)'
  BY <1>1, StepFacts DEF Behind
<1>3. fail' \in BOOLEAN /\ quiet' \in BOOLEAN
  BY <1>1
<1>4. GateTypes'
  BY <1>1, <1>3, LastStepIs25 DEF GateInv, GateTypes
<1> QED
  BY <1>1, <1>2, <1>4 DEF GateInv, FindSpecAt

\* The gate goes on from one step to a later one: fail then says in addition what
\* that step found, and those in between find nothing.
LEMMA Advance ==
  ASSUME GateInv, at \in DOMAIN Steps, at' \in at + 1 .. LastStep + 1,
         UNCHANGED <<repo, oracle, verdict, quiet>>, fail' \in BOOLEAN,
         quiet => (fail' <=> fail \/ ~StepHolds(at)),
         \A k \in at + 1 .. at' - 1 : StepHolds(k),
         quiet /\ FindSpecAt < at' /\ at' <= LastStep => SpecThere(repo)
  PROVE  GateInv'
<1>0. at \in 1 .. 25 /\ at' \in at + 1 .. 26 /\ DOMAIN Steps = 1 .. 25
  BY StepFacts
<1>1. GateTypes' /\ ~Passed' /\ at' # 0 /\ fail \in BOOLEAN
  BY <1>0, LastStepIs25 DEF GateInv, GateTypes, Passed
<1>2. \A k \in DOMAIN Steps : StepHolds(k)' <=> StepHolds(k)
  BY DEF StepHolds
<1>3. \A k \in DOMAIN Steps : Behind(k)' <=> Behind(k) \/ k = at \/ k \in at + 1 .. at' - 1
  BY <1>0 DEF Behind
<1>4. PICK s \in DOMAIN Steps : s = at /\ Behind(s)'
  <2>1. PICK s \in DOMAIN Steps : s = at
    OBVIOUS
  <2> QED  BY <1>0, <2>1 DEF Behind
<1>5. ASSUME quiet', ~fail', NEW k \in DOMAIN Steps, Behind(k)' PROVE StepHolds(k)'
  <2>1. ~fail /\ StepHolds(at) /\ quiet
    BY <1>1, <1>5
  <2>2. CASE Behind(k)
    BY <1>0, <1>2, <2>1, <2>2 DEF GateInv
  <2>3. CASE k = at
    BY <1>2, <2>1, <2>3
  <2>4. CASE k \in at + 1 .. at' - 1
    BY <1>2, <2>4
  <2> QED  BY <1>3, <1>5, <2>2, <2>3, <2>4
<1>6. ASSUME quiet', fail' PROVE \E k \in DOMAIN Steps : Behind(k)' /\ ~StepHolds(k)'
  <2>1. CASE ~StepHolds(at)
    <3>1. ~StepHolds(s)'
      BY <1>2, <1>4, <2>1
    <3> QED  BY <1>4, <3>1
  <2>2. CASE StepHolds(at)
    <3>1. fail /\ quiet
      BY <1>1, <1>6, <2>2
    <3>2. PICK k \in DOMAIN Steps : Behind(k) /\ ~StepHolds(k)
      BY <1>0, <3>1 DEF GateInv
    <3> QED  BY <1>2, <1>3, <3>2
  <2> QED  BY <2>1, <2>2
<1>7. quiet' /\ FindSpecAt < at' /\ at' <= LastStep => SpecThere(repo')
  OBVIOUS
<1> QED
  BY <1>1, <1>5, <1>6, <1>7 DEF GateInv

\* Nothing stands between a step and the next.
LEMMA NextStep ==
  ASSUME GateInv, at \in DOMAIN Steps, at # FindSpecAt, at' = at + 1,
         UNCHANGED <<repo, oracle, verdict, quiet>>, fail' \in BOOLEAN,
         quiet => (fail' <=> fail \/ ~StepHolds(at))
  PROVE  GateInv'
<1>1. at \in 1 .. 25 /\ at # 23 /\ LastStep = 25 /\ FindSpecAt = 23
  BY StepFacts DEF FindSpecAt
<1>2. at' \in at + 1 .. LastStep + 1 /\ \A k \in at + 1 .. at' - 1 : StepHolds(k)
  BY <1>1
<1>3. quiet /\ FindSpecAt < at' /\ at' <= LastStep => SpecThere(repo)
  <2>1. FindSpecAt < at' /\ at' <= LastStep => FindSpecAt < at /\ at <= LastStep
    BY <1>1
  <2> QED  BY <2>1 DEF GateInv
<1> QED
  BY <1>2, <1>3, Advance

LEMMA RunCheckerInv == GateInv /\ RunChecker => GateInv'
<1> SUFFICES ASSUME GateInv, RunChecker PROVE GateInv'
  OBVIOUS
<1>1. at \in 1 .. 25 /\ at # 21 /\ at # 22 /\ at # 23 /\ at \in DOMAIN Steps /\ IsChecker(at)
  BY StepFacts DEF RunChecker, IsChecker, NotCheckers
<1>2. /\ at' = at + 1 /\ UNCHANGED <<repo, oracle, verdict, quiet>>
      /\ fail' = (fail \/ ~Accepts(Steps[at], repo)) /\ fail' \in BOOLEAN
  BY DEF RunChecker
<1>3. quiet => Judges(at, repo)
  <2>1. Steps[at] \in SpecSteps => at \in {24, 25}
    BY <1>1 DEF Steps, SpecSteps
  <2>2. at \in {24, 25} => FindSpecAt < at /\ at <= LastStep
    BY LastStepIs25 DEF FindSpecAt
  <2> QED  BY <1>1, <2>1, <2>2 DEF Judges, GateInv
<1>4. Judges(at, repo) => (StepHolds(at) <=> Accepts(Steps[at], repo))
  BY <1>1 DEF StepHolds, SelfTestAt, DifferentialAt
<1> QED
  BY <1>1, <1>2, <1>3, <1>4, NextStep DEF FindSpecAt

LEMMA SelfTestInv == GateInv /\ SelfTest => GateInv'
<1> SUFFICES ASSUME GateInv, SelfTest PROVE GateInv'
  OBVIOUS
<1>1. at = 21 /\ at \in DOMAIN Steps
  BY StepFacts DEF SelfTest, SelfTestAt
<1>2. /\ at' = at + 1 /\ UNCHANGED <<repo, oracle, verdict, quiet>>
      /\ fail' = (fail \/ oracle \notin Correct) /\ fail' \in BOOLEAN
  BY DEF SelfTest
<1>3. StepHolds(at) <=> oracle \in Correct
  BY <1>1, NotJudging DEF StepHolds, SelfTestAt, DifferentialAt
<1>4. fail' <=> fail \/ ~StepHolds(at)
  BY <1>2, <1>3, Zenon
<1>5. at # FindSpecAt
  BY <1>1 DEF FindSpecAt
<1> QED
  BY <1>1, <1>2, <1>4, <1>5, NextStep

LEMMA DifferentialsInv == GateInv /\ Differentials => GateInv'
<1> SUFFICES ASSUME GateInv, Differentials PROVE GateInv'
  OBVIOUS
<1>1. at = 22 /\ at \in DOMAIN Steps
  BY StepFacts DEF Differentials, DifferentialAt
<1>2. /\ at' = at + 1 /\ UNCHANGED <<repo, oracle, verdict, quiet>>
      /\ fail' = (fail \/ (DriversThere(repo) /\ oracle \notin Agreeing)) /\ fail' \in BOOLEAN
  BY DEF Differentials
<1>3. StepHolds(at) <=> (DriversThere(repo) => oracle \in Agreeing)
  BY <1>1, NotJudging DEF StepHolds, SelfTestAt, DifferentialAt
<1>4. fail' <=> fail \/ ~StepHolds(at)
  BY <1>2, <1>3, Zenon
<1>5. at # FindSpecAt
  BY <1>1 DEF FindSpecAt
<1> QED
  BY <1>1, <1>2, <1>4, <1>5, NextStep

LEMMA FindSpecInv == GateInv /\ FindSpec => GateInv'
<1> SUFFICES ASSUME GateInv, FindSpec PROVE GateInv'
  OBVIOUS
<1>1. at = 23 /\ at \in DOMAIN Steps /\ UNCHANGED <<repo, oracle, fail, verdict, quiet>>
  BY StepFacts DEF FindSpec, FindSpecAt
<1>2. at' = IF SpecThere(repo) THEN 24 ELSE 26
  BY <1>1, LastStepIs25 DEF FindSpec
<1>3. StepHolds(23)
  BY NotJudging DEF StepHolds, SelfTestAt, DifferentialAt
<1>4. ~SpecThere(repo) => StepHolds(24) /\ StepHolds(25)
  BY NotJudging DEF StepHolds, SelfTestAt, DifferentialAt
<1>5. at' \in at + 1 .. LastStep + 1 /\ (at' <= LastStep => SpecThere(repo))
  BY <1>1, <1>2, LastStepIs25
<1>6. \A k \in at + 1 .. at' - 1 : StepHolds(k)
  <2>1. CASE SpecThere(repo)
    BY <1>1, <1>2, <2>1
  <2>2. CASE ~SpecThere(repo)
    <3>1. \A k \in at + 1 .. at' - 1 : k = 24 \/ k = 25
      BY <1>1, <1>2, <2>2
    <3> QED  BY <1>4, <2>2, <3>1
  <2> QED  BY <2>1, <2>2
<1>7. fail' \in BOOLEAN /\ (fail' <=> fail \/ ~StepHolds(at))
  BY <1>1, <1>3 DEF GateInv, GateTypes
<1> QED
  BY <1>1, <1>5, <1>6, <1>7, Advance

LEMMA FinishInv == GateInv /\ Finish => GateInv'
<1> SUFFICES ASSUME GateInv, Finish PROVE GateInv'
  OBVIOUS
<1>1. at = 26 /\ at' = 0 /\ UNCHANGED <<repo, oracle, fail, quiet>>
  BY LastStepIs25 DEF Finish
<1>2. fail \in BOOLEAN /\ verdict' = (IF fail THEN "FAIL" ELSE "PASS")
  BY DEF Finish, GateInv, GateTypes
<1>3. GateTypes'
  BY <1>1, <1>2, LastStepIs25 DEF GateInv, GateTypes
<1>4. \A k \in DOMAIN Steps : Behind(k) /\ Behind(k)' /\ (StepHolds(k)' <=> StepHolds(k))
  BY <1>1, StepFacts DEF Behind, StepHolds
<1>5. ASSUME Passed' PROVE \A k \in DOMAIN Steps : StepHolds(k)'
  <2>1. quiet /\ ~fail /\ at # 0
    BY <1>1, <1>2, <1>5 DEF Passed
  <2> QED  BY <1>4, <2>1 DEF GateInv
<1>6. ASSUME quiet', verdict' = "FAIL" PROVE \E k \in DOMAIN Steps : Behind(k)' /\ ~StepHolds(k)'
  <2>1. quiet /\ fail /\ at # 0
    BY <1>1, <1>2, <1>6
  <2>2. PICK k \in DOMAIN Steps : Behind(k) /\ ~StepHolds(k)
    BY <2>1 DEF GateInv
  <2> QED  BY <1>4, <2>2
<1> QED
  BY <1>1, <1>3, <1>5, <1>6 DEF GateInv, FindSpecAt

LEMMA InterruptInv == GateInv /\ Interrupt => GateInv'
<1> SUFFICES ASSUME GateInv, Interrupt PROVE GateInv'
  OBVIOUS
<1>1. at' = 0 /\ verdict' = "none" /\ UNCHANGED <<repo, oracle, fail, quiet>>
  BY DEF Interrupt, GateInv, GateTypes
<1>2. GateTypes' /\ ~Passed'
  BY <1>1, LastStepIs25 DEF GateInv, GateTypes, Passed
<1> QED
  BY <1>1, <1>2 DEF GateInv, FindSpecAt

\* As long as nothing changes that the invariant speaks of, it stays.
LEMMA StaysInv ==
  ASSUME GateInv, UNCHANGED <<repo, oracle, at, fail, verdict, quiet>>
  PROVE  GateInv'
<1>1. GateTypes' /\ (Passed' <=> Passed)
  BY DEF GateInv, GateTypes, Passed
<1>2. \A k \in DOMAIN Steps : (Behind(k)' <=> Behind(k)) /\ (StepHolds(k)' <=> StepHolds(k))
  BY DEF Behind, StepHolds
<1> QED
  BY <1>1, <1>2 DEF GateInv

LEMMA EditInv ==
  ASSUME GateInv, quiet' = FALSE, UNCHANGED <<at, fail, verdict>>, oracle' \in OracleSources
  PROVE  GateInv'
BY DEF GateInv, GateTypes, Passed

\* A generator that changes something ends the quiet; one that does not leaves all.
LEMMA GeneratorInv ==
  GateInv /\ (ExtractRequirements \/ GenerateStandards \/ GenerateCompat \/ Seal) => GateInv'
<1> SUFFICES ASSUME GateInv, ExtractRequirements \/ GenerateStandards \/ GenerateCompat \/ Seal
             PROVE  GateInv'
  OBVIOUS
<1>1. PICK w : Becomes(w)
  BY DEF ExtractRequirements, GenerateStandards, GenerateCompat, Seal
<1>2. /\ UNCHANGED <<oracle, at, fail, verdict>> /\ quiet' \in BOOLEAN
      /\ quiet' => quiet /\ repo' = repo
  BY <1>1 DEF Becomes, GateInv, GateTypes
<1>3. CASE quiet'
  <2>1. quiet' = quiet
    BY <1>2, <1>3 DEF GateInv, GateTypes
  <2> QED  BY <1>2, <1>3, <2>1, StaysInv
<1>4. CASE ~quiet'
  BY <1>2, <1>4, EditInv DEF GateInv, GateTypes
<1> QED  BY <1>3, <1>4

LEMMA NextInv == GateInv /\ [Next]_vars => GateInv'
<1> SUFFICES ASSUME GateInv, [Next]_vars PROVE GateInv'
  OBVIOUS
<1>1. CASE Start              BY <1>1, StartInv
<1>2. CASE RunChecker         BY <1>2, RunCheckerInv
<1>3. CASE SelfTest           BY <1>3, SelfTestInv
<1>4. CASE Differentials      BY <1>4, DifferentialsInv
<1>5. CASE FindSpec           BY <1>5, FindSpecInv
<1>6. CASE Finish             BY <1>6, FinishInv
<1>7. CASE Interrupt          BY <1>7, InterruptInv
<1>8. CASE ExtractRequirements \/ GenerateStandards \/ GenerateCompat \/ Seal
  BY <1>8, GeneratorInv
<1>9. CASE \/ \E n \in DOMAIN RowPool : EditTable(n)
           \/ \E part \in DOMAIN Variants : EditPart(part)
  <2>1. quiet' = FALSE /\ UNCHANGED <<oracle, at, fail, verdict>>
    BY <1>9 DEF EditTable, EditPart, Edited
  <2> QED  BY <2>1, EditInv DEF GateInv, GateTypes
<1>10. CASE \E src \in OracleSources : EditOracle(src)
  BY <1>10, EditInv DEF EditOracle
<1>11. CASE UNCHANGED vars
  BY <1>11, StaysInv DEF vars
<1> QED
  BY <1>1, <1>2, <1>3, <1>4, <1>5, <1>6, <1>7, <1>8, <1>9, <1>10, <1>11 DEF Next

\* The gate's invariant: while nothing changes, fail says whether a step before the
\* present one finds something in the tree as it is now, and so does the verdict of
\* a run that came to its end.
THEOREM GateInvariant == Spec => []GateInv
<1>1. Init => GateInv  BY InitInv
<1>2. GateInv /\ [Next]_vars => GateInv'  BY NextInv
<1> QED  BY <1>1, <1>2, PTL DEF Spec

\* When nothing changed under a gate that came to its end, its verdict is PASS
\* exactly when every one of the 25 steps finds the tree as it should be.
THEOREM VerdictIsRight == Spec => []VerdictMeans
<1>1. GateInv => VerdictMeans
  <2> SUFFICES ASSUME GateInv, at = 0, quiet, verdict # "none"
               PROVE  verdict = "PASS" <=> \A k \in DOMAIN Steps : StepHolds(k)
    BY DEF VerdictMeans
  <2>1. \A k \in DOMAIN Steps : Behind(k)
    BY DEF Behind
  <2>2. CASE verdict = "PASS"
    BY <2>1, <2>2 DEF GateInv, Passed
  <2>3. CASE verdict = "FAIL"
    <3>1. \E k \in DOMAIN Steps : ~StepHolds(k)
      BY <2>3 DEF GateInv
    <3> QED  BY <2>3, <3>1
  <2> QED  BY <2>2, <2>3 DEF GateInv, GateTypes
<1> QED  BY <1>1, GateInvariant, PTL

-----------------------------------------------------------------------------
(* What the checkers of a PASS said.                                         *)

LEMMA PassAccepts ==
  ASSUME GateInv, Passed, NEW k \in DOMAIN Steps, Judges(k, repo)
  PROVE  Accepts(Steps[k], repo)
<1>1. Behind(k)
  BY DEF Passed, Behind
<1> QED  BY <1>1 DEF GateInv, Passed, StepHolds

LEMMA PassVerdicts ==
  ASSUME GateInv, Passed
  PROVE  /\ CatalogsAccept(repo, FALSE) /\ TraceabilityAccepts(repo)
         /\ ProvenanceAccepts(repo) /\ FuzzAccepts(repo)
         /\ AccelAccepts(repo) /\ ComplexityAccepts(repo)
         /\ SerializedAccepts(repo) /\ AcceptanceAccepts(repo) /\ ExceptionsAccept(repo)
<1>1. /\ Judges(1, repo) /\ Judges(5, repo) /\ Judges(6, repo) /\ Judges(7, repo)
      /\ Judges(10, repo) /\ Judges(11, repo) /\ Judges(14, repo) /\ Judges(15, repo)
      /\ Judges(17, repo)
  BY DEF Judges, IsChecker, Steps, NotCheckers, SpecSteps
<1>2. /\ Accepts(Steps[1], repo) /\ Accepts(Steps[5], repo) /\ Accepts(Steps[6], repo)
      /\ Accepts(Steps[7], repo) /\ Accepts(Steps[10], repo) /\ Accepts(Steps[11], repo)
      /\ Accepts(Steps[14], repo) /\ Accepts(Steps[15], repo) /\ Accepts(Steps[17], repo)
  BY <1>1, PassAccepts, StepFacts
<1>3. /\ Steps[1] = "check_catalogs" /\ Steps[5] = "check_traceability"
      /\ Steps[6] = "check_fixture_provenance" /\ Steps[7] = "check_fuzz_budget"
      /\ Steps[10] = "check_accel_matrix" /\ Steps[11] = "check_complexity_benchmarks"
      /\ Steps[14] = "check_serialized_comparison" /\ Steps[15] = "check_acceptance"
      /\ Steps[17] = "check_exceptions"
  BY DEF Steps
<1> QED
  BY <1>2, <1>3 DEF Accepts

\* A value of a column stands in a row.
LEMMA ValueHasRow ==
  ASSUME NEW rows, NEW f, NEW v
  PROVE  v \in Values(rows, f) <=> \E r \in Range(rows) : r[f] = v
BY DEF Values, Column, Range

\* Where no value comes twice, a dictionary has every row.
LEMMA UniqueRow ==
  ASSUME NEW rows, NEW f, Unique(rows, f), NEW r \in Range(rows)
  PROVE  LastWith(rows, f, r[f]) = r
<1>1. PICK i \in DOMAIN rows : rows[i] = r
  BY DEF Range
<1>2. ASSUME NEW j \in DOMAIN rows, rows[j][f] = r[f] PROVE j = i
  BY <1>1, <1>2 DEF Unique, Column, IsInjective
<1>3. DEFINE IsLast(j) == rows[j][f] = r[f] /\ \A k \in DOMAIN rows : rows[k][f] = r[f] /\ k # j => k < j
<1>4. IsLast(i)
  BY <1>1, <1>2
<1>5. (CHOOSE j \in DOMAIN rows : IsLast(j)) = i
  BY <1>2, <1>4
<1> QED
  BY <1>1, <1>5 DEF LastWith

-----------------------------------------------------------------------------
(* The evidence for a requirement.                                           *)

LEMMA TestedEvidenced ==
  ASSUME NEW w, TraceabilityAccepts(w), ProvenanceAccepts(w),
         NEW r, r.id \in Covered(w)
  PROVE  Evidenced(w, r)
<1>1. PICK t \in Range(Rows(w, "tests")) : r.id \in t.requirements
  <2>1. PICK s \in Values(Rows(w, "tests"), "requirements") : r.id \in s
    BY DEF Covered, Referenced
  <2> QED  BY <2>1, ValueHasRow
<1>2. Exists(w, t.path)
  BY DEF TraceabilityAccepts, Forward
<1>3. ASSUME t.path \in Sv0Paths
      PROVE  \E f \in Range(Rows(w, "fixtures")) :
               /\ f.path = t.path /\ t.path \in Files(w)
               /\ f.input_sha1 = w.files[t.path].text
  <2>1. t.path \in Values(Rows(w, "tests"), "path")
    BY ValueHasRow
  <2>2. t.path \in Values(Rows(w, "fixtures"), "path")
    BY <1>3, <2>1 DEF ProvenanceAccepts, PathsInStep, Catalogued
  <2>3. PICK f \in Range(Rows(w, "fixtures")) : f.path = t.path
    BY <2>2, ValueHasRow
  <2>4. FixtureRowValid(w, f)
    BY DEF ProvenanceAccepts, FixtureRows
  <2> QED  BY <2>3, <2>4 DEF FixtureRowValid
<1> QED
  BY <1>1, <1>2, <1>3 DEF Evidenced

LEMMA AnnotatedEvidenced ==
  ASSUME NEW w, ExceptionsAccept(w), NEW r, r.id \in Annotations
  PROVE  Evidenced(w, r)
<1>1. ASSUME r.id \in TodoOwned
      PROVE  /\ r.id \notin NonWaivable
             /\ \E e \in Range(Rows(w, "exceptions")) : e.requirement = r.id /\ e.status = "open"
  <2>1. PICK e \in Range(Rows(w, "exceptions")) : e.requirement = r.id /\ e.status = "open"
    BY <1>1 DEF ExceptionsAccept, TodoRegistered
  <2>2. ExceptionRowValid(w, e)
    BY DEF ExceptionsAccept
  <2> QED  BY <2>1, <2>2 DEF ExceptionRowValid
<1> QED
  BY <1>1 DEF Evidenced

LEMMA PassEvidence == GateInv => EvidenceSound
<1> SUFFICES ASSUME GateInv, Passed, NEW r \in Range(Rows(repo, "requirements")),
                    r.release \in InScope
             PROVE  Evidenced(repo, r)
  BY DEF EvidenceSound
<1>1. /\ CatalogsAccept(repo, FALSE) /\ TraceabilityAccepts(repo)
      /\ ProvenanceAccepts(repo) /\ ExceptionsAccept(repo)
  BY PassVerdicts
<1>2. RequirementOf(repo, r.id) = r
  BY <1>1, UniqueRow DEF CatalogsAccept, RequirementsValid, RequirementOf
<1>3. r.id \in RequirementIds(repo)
  BY ValueHasRow DEF RequirementIds
<1>4. CASE r.id \in Covered(repo)
  BY <1>1, <1>4, TestedEvidenced
<1>5. CASE r.id \notin Covered(repo)
  <2>1. NonTest(r) \/ r.id \in Annotations
    BY <1>1, <1>2, <1>3, <1>5 DEF TraceabilityAccepts, Backward
  <2>2. CASE NonTest(r)
    BY <2>2 DEF Evidenced
  <2>3. CASE r.id \in Annotations
    BY <1>1, <2>3, AnnotatedEvidenced
  <2> QED  BY <2>1, <2>2, <2>3
<1> QED  BY <1>4, <1>5

\* After a quiet PASS every requirement in scope has evidence, in every tree
\* (check_catalogs, check_traceability, check_fixture_provenance, check_exceptions).
THEOREM EvidenceIsSound == Spec => []EvidenceSound
BY GateInvariant, PassEvidence, PTL

-----------------------------------------------------------------------------
(* The tables that go in step.                                               *)

LEMMA PassLockstep == GateInv => Lockstep
<1> SUFFICES ASSUME GateInv, Passed PROVE Lockstep
  BY DEF Lockstep
<1> DEFINE fixtures == Rows(repo, "fixtures")
           serialized == Rows(repo, "serialized")
<1>1. ProvenanceAccepts(repo) /\ FuzzAccepts(repo) /\ SerializedAccepts(repo)
  BY PassVerdicts
<1>2. /\ Catalogued(repo) = Runnable(repo)
      /\ Catalogued(repo) = Values(Rows(repo, "tests"), "path") \cap Sv0Paths
      /\ Unique(fixtures, "path")
  BY <1>1 DEF ProvenanceAccepts, PathsInStep, FixtureRows
<1>3. ASSUME NEW p \in Runnable(repo)
      PROVE  /\ \E i \in DOMAIN fixtures : \A j \in DOMAIN fixtures : fixtures[j].path = p <=> j = i
             /\ p \in Values(Rows(repo, "tests"), "path")
  <2>1. PICK i \in DOMAIN fixtures : fixtures[i].path = p
    BY <1>2 DEF Catalogued, Values, Column, Range
  <2>2. \A j \in DOMAIN fixtures : fixtures[j].path = p => j = i
    BY <1>2, <2>1 DEF Unique, Column, IsInjective
  <2> QED  BY <1>2, <2>1, <2>2
<1>4. ASSUME NEW t \in Range(Rows(repo, "tests")), t.path \in Sv0Paths
      PROVE  t.path \in Runnable(repo)
  BY <1>2, <1>4, ValueHasRow
<1>5. ASSUME NEW p \in Runnable(repo) \cap FuzzPaths
      PROVE  \E r \in Range(Rows(repo, "fuzz")) :
               /\ r.fixture = p /\ r.rounds >= r.min_rounds
               /\ repo.files[p].rounds = r.rounds /\ repo.files[p].seed = r.seed
  <2>1. p \in Values(Rows(repo, "fuzz"), "fixture")
    BY <1>1 DEF FuzzAccepts, Runnable
  <2>2. PICK r \in Range(Rows(repo, "fuzz")) : r.fixture = p
    BY <2>1, ValueHasRow
  <2>3. FuzzRowValid(repo, r)
    BY <1>1 DEF FuzzAccepts
  <2> QED  BY <2>2, <2>3 DEF FuzzRowValid
<1>6. \E r \in Range(serialized) :
        /\ r.component = "fixture_count"
        /\ r.value = <<"number", Cardinality(Catalogued(repo) \ NotCompared)>>
  <2>1. /\ Unique(serialized, "component")
        /\ "fixture_count" \in Values(serialized, "component")
        /\ LastWith(serialized, "component", "fixture_count").value
             = <<"number", Cardinality(Compared(repo))>>
    BY <1>1 DEF SerializedAccepts, Complete, Unique, Values
  <2>2. PICK r \in Range(serialized) : r.component = "fixture_count"
    BY <2>1, ValueHasRow
  <2>3. LastWith(serialized, "component", r.component) = r
    BY <2>1, UniqueRow
  <2> QED  BY <1>2, <2>1, <2>2, <2>3 DEF Compared
<1> QED
  BY <1>3, <1>4, <1>5, <1>6 DEF Lockstep

\* After a quiet PASS the fixtures that run, their two tables, the fuzz budget and
\* the serialized comparison speak of the same files.
THEOREM TablesInStep == Spec => []Lockstep
BY GateInvariant, PassLockstep, PTL

-----------------------------------------------------------------------------
(* What the claims rest on.                                                  *)

LEMMA CataloguedBacked ==
  ASSUME NEW w, TraceabilityAccepts(w), NEW ids, ids \cap TestIds \subseteq CataloguedTests(w)
  PROVE  Backed(w, ids)
<1> SUFFICES ASSUME NEW e \in ids \cap TestIds
             PROVE  \E t \in Range(Rows(w, "tests")) : t.id = e /\ Exists(w, t.path)
  BY DEF Backed
<1>1. PICK t \in Range(Rows(w, "tests")) : t.id = e
  BY ValueHasRow DEF CataloguedTests
<1> QED
  BY <1>1 DEF TraceabilityAccepts, Forward

LEMMA PassBacked == GateInv => ClaimsBacked
<1> SUFFICES ASSUME GateInv, Passed PROVE ClaimsBacked
  BY DEF ClaimsBacked
<1>1. /\ TraceabilityAccepts(repo) /\ AcceptanceAccepts(repo)
      /\ ComplexityAccepts(repo) /\ AccelAccepts(repo)
  BY PassVerdicts
<1>2. "" \notin TestIds /\ DocPaths \cap TestIds = {}
  BY CatalogsAssumption, EvidenceAssumption
<1>3. ASSUME NEW r \in Range(Rows(repo, "acceptance")), Strip(r.status) = "bound"
      PROVE  Backed(repo, r.evidence)
  <2>1. BoundRowValid(repo, r)
    BY <1>1, <1>3 DEF AcceptanceAccepts, AcceptanceRowValid
  <2>2. r.evidence \cap TestIds \subseteq CataloguedTests(repo)
    BY <1>2, <2>1 DEF BoundRowValid, Entries
  <2> QED  BY <1>1, <2>2, CataloguedBacked
<1>4. ASSUME NEW r \in Range(Rows(repo, "complexity")), r.method = "source-inspection"
      PROVE  Backed(repo, r.evidence)
  <2>1. Entries(r.evidence) \subseteq CataloguedTests(repo)
    BY <1>1, <1>4 DEF ComplexityAccepts, BenchmarkRowValid
  <2> QED  BY <1>1, <1>2, <2>1, CataloguedBacked DEF Entries
<1>5. ASSUME NEW cap \in Capabilities(repo), NEW r,
             r = LastWith(Rows(repo, "accel"), "capability", cap)
      PROVE  /\ r.status = "wired" <=> Dispatchers(repo, cap) # {}
             /\ r.status = "wired" => Backed(repo, r.evidence)
  <2>1. AccelRowValid(repo, cap, r)
    BY <1>1, <1>5 DEF AccelAccepts
  <2>2. r.status = "wired" <=> Dispatchers(repo, cap) # {}
    BY <2>1 DEF AccelRowValid
  <2>3. r.status = "wired" => Entries(r.evidence) \subseteq CataloguedTests(repo)
    BY <2>1 DEF AccelRowValid
  <2> QED  BY <1>1, <1>2, <2>2, <2>3, CataloguedBacked DEF Entries
<1> QED
  BY <1>3, <1>4, <1>5 DEF ClaimsBacked

\* After a quiet PASS every test a claim names is catalogued and there, and the
\* accelerated paths of the table are those of the library.
THEOREM ClaimsAreBacked == Spec => []ClaimsBacked
BY GateInvariant, PassBacked, PTL

-----------------------------------------------------------------------------
(* The generators.                                                           *)

LEMMA ExceptKeeps ==
  ASSUME NEW w, IsRecord(w), NEW k
  PROVE  /\ [w EXCEPT ![k] = w[k]] = w
         /\ \A v : IsRecord([w EXCEPT ![k] = v])
BY DEF IsRecord

LEMMA WithTable ==
  ASSUME NEW w, IsTree(w), NEW n, NEW table
  PROVE  /\ IsTree([w EXCEPT !.t[n] = table])
         /\ w.t[n] = table => [w EXCEPT !.t[n] = table] = w
<1> DEFINE tables == [w.t EXCEPT ![n] = table]
<1>1. IsRecord(tables) /\ (w.t[n] = table => tables = w.t)
  BY ExceptKeeps DEF IsTree
<1>2. [w EXCEPT !.t[n] = table] = [w EXCEPT !.t = tables]
  OBVIOUS
<1>3. IsRecord([w EXCEPT !.t = tables]) /\ (tables = w.t => [w EXCEPT !.t = tables] = w)
  BY ExceptKeeps DEF IsTree
<1>4. /\ [w EXCEPT !.t = tables].t = tables
      /\ [w EXCEPT !.t = tables].sealed = w.sealed
      /\ DOMAIN [w EXCEPT !.t = tables] = DOMAIN w
  BY DEF IsTree
<1> QED
  BY <1>1, <1>2, <1>3, <1>4 DEF IsTree

LEMMA WithPart ==
  ASSUME NEW w, IsTree(w), NEW k, k \notin {"t", "sealed"}, NEW v
  PROVE  /\ IsTree([w EXCEPT ![k] = v])
         /\ w[k] = v => [w EXCEPT ![k] = v] = w
<1>1. IsRecord([w EXCEPT ![k] = v])
  BY ExceptKeeps DEF IsTree
<1>2. /\ [w EXCEPT ![k] = v].t = w.t /\ [w EXCEPT ![k] = v].sealed = w.sealed
      /\ DOMAIN [w EXCEPT ![k] = v] = DOMAIN w
  BY DEF IsTree
<1> QED
  BY <1>1, <1>2, ExceptKeeps DEF IsTree

\* The manifest written anew, where its digests are those of the tables already.
LEMMA WithSeal ==
  ASSUME NEW w, IsTree(w), NEW r
  PROVE  LET made == [w EXCEPT !.sealed = [t |-> w.t, revisions |-> r]] IN
         /\ IsTree(made)
         /\ w.sealed.t = w.t => made = [w EXCEPT !.sealed.revisions = r]
<1> DEFINE seal == [t |-> w.t, revisions |-> r]
           made == [w EXCEPT !.sealed = seal]
<1>1. IsRecord(made)
  BY ExceptKeeps DEF IsTree
<1>2. made.t = w.t /\ made.sealed = seal /\ DOMAIN made = DOMAIN w
  BY DEF IsTree
<1>3. IsRecord(seal) /\ DOMAIN seal = {"t", "revisions"}
  BY DEF IsRecord
<1>4. IsTree(made)
  BY <1>1, <1>2, <1>3 DEF IsTree
<1>5. ASSUME w.sealed.t = w.t PROVE made = [w EXCEPT !.sealed.revisions = r]
  <2>1. [w EXCEPT !.sealed.revisions = r] = [w EXCEPT !.sealed = [w.sealed EXCEPT !.revisions = r]]
    OBVIOUS
  <2>2. w.sealed = [x \in {"t", "revisions"} |-> w.sealed[x]]
    BY DEF IsTree, IsRecord
  <2>3. [w.sealed EXCEPT !.revisions = r] = seal
    BY <1>5, <2>2
  <2> QED  BY <2>1, <2>3
<1> QED  BY <1>4, <1>5

LEMMA TreesStay == IsTree(repo) /\ [Next]_vars => IsTree(repo)'
<1> SUFFICES ASSUME IsTree(repo), [Next]_vars PROVE IsTree(repo')
  OBVIOUS
<1>1. CASE \/ Start \/ RunChecker \/ SelfTest \/ Differentials \/ FindSpec \/ Finish
           \/ Interrupt \/ (\E src \in OracleSources : EditOracle(src)) \/ UNCHANGED vars
  BY <1>1 DEF Start, RunChecker, SelfTest, Differentials, FindSpec, Finish, Interrupt,
              EditOracle, vars
<1>2. CASE ExtractRequirements
  BY <1>2, WithTable DEF ExtractRequirements, Becomes
<1>3. CASE GenerateStandards
  BY <1>3, WithTable DEF GenerateStandards, Becomes
<1>4. CASE GenerateCompat
  BY <1>4, WithPart DEF GenerateCompat, Becomes
<1>5. CASE Seal
  BY <1>5, WithSeal DEF Seal, Becomes
<1>6. CASE \E n \in DOMAIN RowPool : EditTable(n)
  BY <1>6, WithTable DEF EditTable, Edited
<1>7. CASE \E part \in DOMAIN Variants : EditPart(part)
  BY <1>7, WithPart, TreesAssumption DEF EditPart, Edited
<1> QED
  BY <1>1, <1>2, <1>3, <1>4, <1>5, <1>6, <1>7 DEF Next

LEMMA PassFresh ==
  ASSUME GateInv, Passed
  PROVE  /\ CompatAccepts(repo) /\ ManifestAccepts(repo)
         /\ SpecThere(repo) => ExtractAccepts(repo) /\ StandardsMatrixAccepts(repo)
<1>1. /\ Steps[16] = "check_release_manifest" /\ Steps[20] = "compat_doc"
      /\ Steps[24] = "extract_requirements" /\ Steps[25] = "standards_matrix"
  BY DEF Steps
<1>2. /\ Judges(16, repo) /\ Judges(20, repo)
      /\ SpecThere(repo) => Judges(24, repo) /\ Judges(25, repo)
  BY DEF Judges, IsChecker, Steps, NotCheckers, SpecSteps
<1>3. /\ Accepts(Steps[16], repo) /\ Accepts(Steps[20], repo)
      /\ SpecThere(repo) => Accepts(Steps[24], repo) /\ Accepts(Steps[25], repo)
  BY <1>2, PassAccepts, StepFacts
<1> QED
  BY <1>1, <1>3 DEF Accepts

\* After a quiet PASS the generators with a --check (extract_requirements,
\* standards_matrix, compat_doc) change nothing, and scripts/release_manifest nothing
\* but the revisions, which it says change with every commit.
THEOREM NothingToGenerate == Spec => GeneratedFresh
<1>1. Init => IsTree(repo)
  BY TreesAssumption DEF Init
<1>2. ASSUME GateInv, IsTree(repo), Passed,
             ExtractRequirements \/ GenerateStandards \/ GenerateCompat
      PROVE  repo' = repo
  <2>1. CASE ExtractRequirements
    BY <1>2, <2>1, PassFresh, WithTable DEF ExtractRequirements, Becomes, ExtractAccepts
  <2>2. CASE GenerateStandards
    BY <1>2, <2>2, PassFresh, WithTable DEF GenerateStandards, Becomes, StandardsMatrixAccepts
  <2>3. CASE GenerateCompat
    BY <1>2, <2>3, PassFresh, WithPart DEF GenerateCompat, Becomes, CompatAccepts
  <2> QED  BY <1>2, <2>1, <2>2, <2>3
<1>3. ASSUME GateInv, IsTree(repo), Passed, Seal
      PROVE  repo' = [repo EXCEPT !.sealed.revisions = repo.revisions]
  <2>1. repo.sealed.t = repo.t
    BY <1>3, PassFresh DEF ManifestAccepts
  <2>2. repo' = [repo EXCEPT !.sealed = [t |-> repo.t, revisions |-> repo.revisions]]
    BY <1>3 DEF Seal, Becomes
  <2> QED  BY <1>3, <2>1, <2>2, WithSeal
<1>4. GateInv /\ IsTree(repo)
        => [Passed =>
              /\ (ExtractRequirements \/ GenerateStandards \/ GenerateCompat => repo' = repo)
              /\ (Seal => repo' = [repo EXCEPT !.sealed.revisions = repo.revisions])]_vars
  BY <1>2, <1>3
<1> QED
  BY <1>1, <1>4, TreesStay, GateInvariant, PTL DEF Spec, GeneratedFresh

-----------------------------------------------------------------------------
(* The scanners. What they find is compared with what the reader of the text   *)
(* makes of it, for texts of any length. Scanner and reader are recursions, one *)
(* from the end and one from the beginning, and have to be shown to exist;      *)
(* induction stands as an argument about the least or the greatest              *)
(* counterexample.                                                              *)

LEMMA LeastElement ==
  ASSUME NEW T \in SUBSET Nat, T # {}
  PROVE  \E x \in T : \A y \in T : x <= y
<1>. DEFINE R == OpToRel(<, Nat)
<1>1. IsWellFoundedOn(R, Nat)
  BY NatLessThanWellFounded
<1>2. PICK x \in T : \A y \in T : ~(<<y, x>> \in R)
  <2>. HIDE DEF R
  <2>. QED
    BY <1>1, WFMin
<1>3. \A y \in T : ~(y < x)
  BY <1>2 DEF OpToRel
<1>. QED
  BY <1>3

\* A set of numbers up to n that is not empty has a greatest one.
LEMMA GreatestElement ==
  ASSUME NEW n \in Nat, NEW T \in SUBSET (0 .. n), T # {}
  PROVE  \E x \in T : \A y \in T : y <= x
<1>1. PICK D \in SUBSET Nat : D = {d \in Nat : d <= n /\ n - d \in T}
  OBVIOUS
<1>2. PICK t \in T : t \in 0 .. n
  OBVIOUS
<1>3. n - t \in D
  <2>1. n - t \in Nat /\ n - t <= n /\ n - (n - t) = t
    BY <1>2
  <2> QED BY <1>1, <1>2, <2>1
<1>4. PICK d \in D : \A e \in D : d <= e
  BY <1>3, LeastElement
<1>5. n - d \in T
  BY <1>1, <1>4
<1>6. ASSUME NEW y \in T PROVE y <= n - d
  <2>0. y \in 0 .. n /\ n - y \in Nat /\ n - y <= n /\ n - (n - y) = y
    OBVIOUS
  <2>1. n - y \in D
    BY <1>1, <1>6, <2>0
  <2> QED BY <1>1, <1>4, <2>0, <2>1
<1> QED BY <1>5, <1>6

-----------------------------------------------------------------------------
(* Recursion from the end of a text: the value at i is made of the one at a    *)
(* later position. Jump[i] is that position, Add[i] what is put in front.      *)

IsBack(f, top, n, Jump, Add) ==
  f = [i \in 1 .. top |-> IF i > n THEN {} ELSE Add[i] \cup f[Jump[i]]]

LEMMA BackExists ==
  ASSUME NEW n \in Nat, NEW top \in Nat, n < top, NEW Jump, NEW Add,
         \A i \in 1 .. n : Jump[i] \in i + 1 .. top
  PROVE  \E f : IsBack(f, top, n, Jump, Add)
<1> DEFINE IsFrom(f, k) ==
      f = [i \in top - k .. top |-> IF i > n THEN {} ELSE Add[i] \cup f[Jump[i]]]
<1>1. SUFFICES ASSUME ~\E f : IsFrom(f, top - 1) PROVE FALSE
  <2>1. top - (top - 1) = 1
    OBVIOUS
  <2> QED BY <2>1 DEF IsBack
<1>2. PICK T \in SUBSET Nat : T = {k \in Nat : k <= top - 1 /\ ~\E f : IsFrom(f, k)}
  OBVIOUS
<1>3. PICK k \in T : \A y \in T : k <= y
  <2>1. top - 1 \in T
    BY <1>1, <1>2
  <2> QED BY <2>1, LeastElement, Zenon
<1>4. k \in Nat /\ k <= top - 1 /\ ~\E f : IsFrom(f, k)
  BY <1>2, <1>3
<1>5. k # 0
  <2>1. SUFFICES ASSUME k = 0 PROVE FALSE
    OBVIOUS
  <2>2. PICK f : f = [i \in top .. top |-> {}]
    OBVIOUS
  <2>3. f = [i \in top - 0 .. top |-> IF i > n THEN {} ELSE Add[i] \cup f[Jump[i]]]
    BY <2>2
  <2> QED BY <1>4, <2>1, <2>3
<1>6. PICK e \in Nat : k = e + 1 /\ e \notin T
  <2>1. k - 1 \in Nat /\ k = (k - 1) + 1 /\ ~(k <= k - 1)
    BY <1>4, <1>5
  <2>2. k - 1 \notin T
    BY <1>3, <2>1
  <2> QED BY <2>1, <2>2
<1>7. PICK f : IsFrom(f, e)
  BY <1>2, <1>4, <1>6
<1>8. PICK g : g = [i \in top - k .. top |-> IF i > n THEN {} ELSE Add[i] \cup f[Jump[i]]]
  OBVIOUS
<1>9. \A i \in top - e .. top : g[i] = f[i]
  <2>1. \A i \in top - e .. top : i \in top - k .. top
    BY <1>4, <1>6
  <2>2. \A i \in top - e .. top : f[i] = IF i > n THEN {} ELSE Add[i] \cup f[Jump[i]]
    BY <1>7, Zenon
  <2>3. \A i \in top - k .. top : g[i] = IF i > n THEN {} ELSE Add[i] \cup f[Jump[i]]
    BY <1>8, Zenon
  <2> QED BY <2>1, <2>2, <2>3, Zenon
<1>10. \A i \in top - k .. top : ~(i > n) => g[Jump[i]] = f[Jump[i]]
  <2>1. SUFFICES ASSUME NEW i \in top - k .. top, ~(i > n) PROVE Jump[i] \in top - e .. top
    BY <1>9
  <2>2. i \in 1 .. n
    BY <1>4, <2>1
  <2> QED BY <1>6, <2>2
<1>11. g = [i \in top - k .. top |-> IF i > n THEN {} ELSE Add[i] \cup g[Jump[i]]]
  BY <1>8, <1>10
<1> QED BY <1>4, <1>11

\* Recursion from the beginning: the value at i is made of the one before it.
LEMMA ForthExists ==
  ASSUME NEW n \in Nat, NEW V, NEW first \in V, NEW Step \in [1 .. n -> [V -> V]]
  PROVE  \E f \in [0 .. n -> V] : f[0] = first /\ \A i \in 1 .. n : f[i] = Step[i][f[i - 1]]
<1> DEFINE Has(k) == \E f \in [0 .. k -> V] :
                       f[0] = first /\ \A i \in 1 .. k : f[i] = Step[i][f[i - 1]]
<1>1. SUFFICES ASSUME ~Has(n) PROVE FALSE
  OBVIOUS
<1>2. PICK T \in SUBSET Nat : T = {k \in Nat : k <= n /\ ~Has(k)}
  OBVIOUS
<1>3. PICK k \in T : \A y \in T : k <= y
  <2>1. n \in T
    BY <1>1, <1>2
  <2> QED BY <2>1, LeastElement, Zenon
<1>4. k \in Nat /\ k <= n /\ ~Has(k)
  BY <1>2, <1>3
<1>5. k # 0
  <2>1. SUFFICES ASSUME k = 0 PROVE FALSE
    OBVIOUS
  <2>2. PICK f : f = [i \in 0 .. 0 |-> first]
    OBVIOUS
  <2>3. f \in [0 .. 0 -> V] /\ f[0] = first /\ \A i \in 1 .. 0 : f[i] = Step[i][f[i - 1]]
    BY <2>2
  <2> QED BY <1>4, <2>1, <2>3
<1>6. PICK e \in Nat : k = e + 1 /\ e \notin T
  <2>1. k - 1 \in Nat /\ k = (k - 1) + 1 /\ ~(k <= k - 1)
    BY <1>4, <1>5
  <2> QED BY <1>3, <2>1
<1>7. PICK f \in [0 .. e -> V] : f[0] = first /\ \A i \in 1 .. e : f[i] = Step[i][f[i - 1]]
  <2>1. e <= n
    BY <1>4, <1>6
  <2> QED BY <1>2, <1>6, <2>1
<1>8. PICK g : g = [i \in 0 .. k |-> IF i \in 0 .. e THEN f[i] ELSE Step[k][f[e]]]
  OBVIOUS
<1>9. \A i \in 0 .. e : g[i] = f[i]
  BY <1>6, <1>8
<1>10. g[k] = Step[k][f[e]] /\ k \in 1 .. n /\ f[e] \in V
  BY <1>4, <1>6, <1>8
<1>11. Step[k][f[e]] \in V
  BY <1>10
<1>12. g \in [0 .. k -> V]
  BY <1>8, <1>11
<1>13. g[0] = first
  BY <1>7, <1>9
<1>14. ASSUME NEW i \in 1 .. k PROVE g[i] = Step[i][g[i - 1]]
  <2>0. g[i - 1] = f[i - 1]
    <3>1. i - 1 \in 0 .. e
      BY <1>4, <1>6
    <3> QED BY <1>9, <3>1
  <2>1. CASE i = k
    <3>1. i - 1 = e
      BY <1>6, <2>1
    <3> QED BY <1>10, <2>0, <2>1, <3>1
  <2>2. CASE i # k
    <3>1. i \in 1 .. e /\ i \in 0 .. e
      BY <1>4, <1>6, <2>2
    <3> QED BY <1>7, <1>9, <2>0, <3>1
  <2> QED BY <2>1, <2>2
<1> QED BY <1>4, <1>12, <1>13, <1>14

-----------------------------------------------------------------------------
(* The markdown scanner.                                                     *)

LEMMA CloseFacts ==
  ASSUME NEW S, NEW doc \in Seq(S), NEW i \in 1 .. Len(doc)
  PROVE  /\ CloseOf(doc, i) \in i + 1 .. Len(doc) + 1
         /\ CloseOf(doc, i) <= Len(doc) => Closes(doc, i, CloseOf(doc, i))
         /\ \A k \in i + 1 .. CloseOf(doc, i) - 1 : ~Closes(doc, i, k)
<1>0. PICK n \in Nat : n = Len(doc)
  OBVIOUS
<1> DEFINE Ends(j) == j <= n => Closes(doc, i, j)
<1>1. PICK T \in SUBSET Nat : T = {j \in Nat : j \in i + 1 .. n + 1 /\ Ends(j)}
  OBVIOUS
<1>2. n + 1 \in T
  BY <1>0, <1>1
<1>3. PICK j \in T : \A y \in T : j <= y
  BY <1>2, LeastElement
<1>4. j \in i + 1 .. n + 1 /\ Ends(j)
  BY <1>1, <1>3
<1>5. ASSUME NEW k \in i + 1 .. j - 1 PROVE ~Closes(doc, i, k)
  <2>1. k \in Nat /\ k \in i + 1 .. n + 1 /\ ~(j <= k)
    BY <1>0, <1>4
  <2> QED BY <1>1, <1>3, <2>1
<1>6. \E c \in i + 1 .. Len(doc) + 1 :
        /\ c <= Len(doc) => Closes(doc, i, c)
        /\ \A k \in i + 1 .. c - 1 : ~Closes(doc, i, k)
  BY <1>0, <1>4, <1>5
<1> QED BY <1>6, Zenon DEF CloseOf

PassedOver(doc, i) == ~IsFence(doc[i]) \/ doc[i].info = ""

IsFences(f, doc) ==
  f = [i \in 1 .. Len(doc) + 2 |->
         IF i > Len(doc) THEN {}
         ELSE IF ~IsFence(doc[i]) \/ doc[i].info = "" THEN f[i + 1]
         ELSE {<<i, CloseOf(doc, i)>>} \cup f[CloseOf(doc, i) + 1]]

LEMMA FencesIs ==
  ASSUME NEW S, NEW doc \in Seq(S)
  PROVE  \E f : IsFences(f, doc) /\ Fences(doc) = f[1]
<1>0. PICK n \in Nat : n = Len(doc)
  OBVIOUS
<1>1. PICK Jump : Jump = [i \in 1 .. n |-> IF PassedOver(doc, i) THEN i + 1 ELSE CloseOf(doc, i) + 1]
  OBVIOUS
<1>2. PICK Add : Add = [i \in 1 .. n |-> IF PassedOver(doc, i) THEN {} ELSE {<<i, CloseOf(doc, i)>>}]
  OBVIOUS
<1>3. \A i \in 1 .. n : Jump[i] \in i + 1 .. n + 2
  <2>1. \A i \in 1 .. n : CloseOf(doc, i) \in i + 1 .. n + 1
    BY <1>0, CloseFacts
  <2> QED BY <1>1, <2>1
<1>4. PICK f : IsBack(f, n + 2, n, Jump, Add)
  <2>1. n + 2 \in Nat /\ n < n + 2
    OBVIOUS
  <2> QED BY <1>3, <2>1, BackExists
<1>5. \A i \in 1 .. n + 2 :
        (IF i > n THEN {} ELSE Add[i] \cup f[Jump[i]]) =
        (IF i > Len(doc) THEN {}
         ELSE IF ~IsFence(doc[i]) \/ doc[i].info = "" THEN f[i + 1]
         ELSE {<<i, CloseOf(doc, i)>>} \cup f[CloseOf(doc, i) + 1])
  <2>1. SUFFICES ASSUME NEW i \in 1 .. n + 2, ~(i > n)
                 PROVE Add[i] \cup f[Jump[i]] =
                       IF ~IsFence(doc[i]) \/ doc[i].info = "" THEN f[i + 1]
                       ELSE {<<i, CloseOf(doc, i)>>} \cup f[CloseOf(doc, i) + 1]
    BY <1>0
  <2>2. i \in 1 .. n
    BY <2>1
  <2>3. CASE PassedOver(doc, i)
    <3>1. Add[i] = {} /\ Jump[i] = i + 1
      BY <1>1, <1>2, <2>2, <2>3, Zenon
    <3> QED BY <2>3, <3>1 DEF PassedOver
  <2>4. CASE ~PassedOver(doc, i)
    <3>1. Add[i] = {<<i, CloseOf(doc, i)>>} /\ Jump[i] = CloseOf(doc, i) + 1
      BY <1>1, <1>2, <2>2, <2>4, Zenon
    <3> QED BY <2>4, <3>1, Zenon DEF PassedOver
  <2> QED BY <2>3, <2>4
<1>6. IsFences(f, doc)
  BY <1>0, <1>4, <1>5, Zenon DEF IsBack, IsFences
<1>7. PICK g : g = CHOOSE h : IsFences(h, doc)
  OBVIOUS
<1>8. IsFences(g, doc)
  BY <1>6, <1>7, Zenon
<1>9. Fences(doc) = g[1]
  BY <1>7, Zenon DEF Fences, IsFences
<1> QED BY <1>8, <1>9

LEMMA ReaderIs ==
  ASSUME NEW S, NEW doc \in Seq(S)
  PROVE  LET b == ReaderBlock(doc) IN
         /\ b \in [0 .. Len(doc) -> 0 .. Len(doc)] /\ b[0] = 0
         /\ \A i \in 1 .. Len(doc) :
              b[i] = IF b[i - 1] = 0 THEN IF ReaderFence(doc[i]) THEN i ELSE 0
                     ELSE IF ReaderCloses(doc, b[i - 1], i) THEN 0 ELSE b[i - 1]
<1>0. PICK n \in Nat : n = Len(doc)
  OBVIOUS
<1> DEFINE Next1(i, v) == IF v = 0 THEN IF ReaderFence(doc[i]) THEN i ELSE 0
                          ELSE IF ReaderCloses(doc, v, i) THEN 0 ELSE v
           IsReader(f) ==
             f = [i \in 0 .. Len(doc) |->
                    IF i = 0 THEN 0
                    ELSE IF f[i - 1] = 0 THEN IF ReaderFence(doc[i]) THEN i ELSE 0
                    ELSE IF ReaderCloses(doc, f[i - 1], i) THEN 0 ELSE f[i - 1]]
<1>1. PICK Step : Step = [i \in 1 .. n |-> [v \in 0 .. n |-> Next1(i, v)]]
  OBVIOUS
<1>2. Step \in [1 .. n -> [0 .. n -> 0 .. n]]
  <2>1. \A i \in 1 .. n, v \in 0 .. n : Next1(i, v) \in 0 .. n
    OBVIOUS
  <2>2. \A i \in 1 .. n : [v \in 0 .. n |-> Next1(i, v)] \in [0 .. n -> 0 .. n]
    BY <2>1, Zenon
  <2> QED BY <1>1, <2>2, Zenon
<1>3. PICK f \in [0 .. n -> 0 .. n] : f[0] = 0 /\ \A i \in 1 .. n : f[i] = Step[i][f[i - 1]]
  <2>1. PICK V : V = 0 .. n
    OBVIOUS
  <2>2. PICK z : z = 0
    OBVIOUS
  <2>3. z \in V /\ Step \in [1 .. n -> [V -> V]]
    BY <1>2, <2>1, <2>2
  <2>4. \E f \in [0 .. n -> V] : f[0] = z /\ \A i \in 1 .. n : f[i] = Step[i][f[i - 1]]
    <3>1. n \in Nat
      OBVIOUS
    <3> HIDE DEF Next1, IsReader
    <3> QED BY <2>3, <3>1, ForthExists
  <2> QED BY <2>1, <2>2, <2>4, Zenon
<1>4. \A i \in 1 .. n : f[i] = Next1(i, f[i - 1])
  <2>1. SUFFICES ASSUME NEW i \in 1 .. n PROVE f[i] = Next1(i, f[i - 1])
    OBVIOUS
  <2>2. f[i - 1] \in 0 .. n
    BY <1>3
  <2>3. Step[i][f[i - 1]] = Next1(i, f[i - 1])
    BY <1>1, <2>2, Zenon
  <2> QED BY <1>3, <2>3, Zenon
<1>5. IsReader(f)
  <2>1. f = [i \in 0 .. n |-> f[i]]
    BY <1>3
  <2>2. \A i \in 0 .. n : f[i] = IF i = 0 THEN 0 ELSE Next1(i, f[i - 1])
    <3>1. SUFFICES ASSUME NEW i \in 0 .. n, i # 0 PROVE f[i] = Next1(i, f[i - 1])
      BY <1>3
    <3>2. i \in 1 .. n
      BY <3>1
    <3> QED BY <1>4, <3>2, Zenon
  <2>3. f = [i \in 0 .. n |-> IF i = 0 THEN 0 ELSE Next1(i, f[i - 1])]
    BY <2>1, <2>2, Zenon
  <2> QED BY <1>0, <2>3, Zenon
<1>6. PICK b : b = ReaderBlock(doc)
  OBVIOUS
<1>7. IsReader(b)
  <2>1. b = CHOOSE g : IsReader(g)
    BY <1>6, Zenon DEF ReaderBlock
  <2> QED BY <1>5, <2>1, Zenon
<1>8. \A i \in 0 .. n : b[i] = IF i = 0 THEN 0 ELSE Next1(i, b[i - 1])
  BY <1>0, <1>7, Zenon
<1>9. \A i \in 1 .. n : b[i] = Next1(i, b[i - 1])
  <2>1. \A i \in 1 .. n : i \in 0 .. n /\ i # 0
    OBVIOUS
  <2> QED BY <1>8, <2>1, Zenon
<1>10. b[0] = 0
  <2>1. 0 \in 0 .. n
    OBVIOUS
  <2> QED BY <1>8, <2>1, Zenon
<1>11. b = f
  <2> DEFINE Same(i) == b[i] = f[i]
  <2>1. SUFFICES ASSUME NEW m \in 0 .. n, ~Same(m) PROVE FALSE
    <3>1. \A i \in 0 .. n : b[i] = f[i]
      BY <2>1
    <3>2. b = [i \in 0 .. n |-> b[i]]
      BY <1>0, <1>7, Zenon
    <3>3. f = [i \in 0 .. n |-> f[i]]
      BY <1>3
    <3> QED BY <3>1, <3>2, <3>3, Zenon
  <2>2. PICK T \in SUBSET Nat : T = {i \in Nat : i <= n /\ ~Same(i)}
    OBVIOUS
  <2>3. PICK i \in T : \A y \in T : i <= y
    <3>1. m \in T
      BY <2>1, <2>2
    <3> QED BY <3>1, LeastElement, Zenon
  <2>4. i \in 0 .. n /\ ~Same(i)
    BY <2>2, <2>3
  <2>5. i # 0
    BY <1>3, <1>10, <2>4
  <2>6. i - 1 \in Nat /\ i - 1 <= n /\ i - 1 \notin T /\ i \in 1 .. n
    BY <2>3, <2>4, <2>5
  <2>7. b[i - 1] = f[i - 1]
    BY <2>2, <2>6
  <2> QED BY <1>4, <1>9, <2>4, <2>6, <2>7, Zenon
<1> QED BY <1>0, <1>3, <1>6, <1>9, <1>10, <1>11

\* Where the hypotheses hold, the reader goes from line to line as the lint would.
ReadsPlainly(b, doc, n) ==
  /\ \A i \in 0 .. n : b[i] \in 0 .. n
  /\ b[0] = 0
  /\ \A i \in 1 .. n :
       /\ b[i] = IF b[i - 1] = 0 THEN IF IsFence(doc[i]) THEN i ELSE 0
                 ELSE IF Closes(doc, b[i - 1], i) THEN 0 ELSE b[i - 1]
       /\ IsFence(doc[i]) /\ b[i - 1] # 0 /\ doc[i].info # "" => doc[b[i - 1]].info # ""

LEMMA PlainReader ==
  ASSUME NEW S, NEW doc \in Seq(S), FencesPlain(doc)
  PROVE  ReadsPlainly(ReaderBlock(doc), doc, Len(doc))
<1>0. PICK n \in Nat : n = Len(doc) /\ DOMAIN doc = 1 .. n
  OBVIOUS
<1>a. PICK b : b = ReaderBlock(doc)
  OBVIOUS
<1>1. b \in [0 .. n -> 0 .. n] /\ b[0] = 0
  BY <1>0, <1>a, ReaderIs, Zenon
<1>2. ASSUME NEW i \in 1 .. n
      PROVE  /\ b[i] = IF b[i - 1] = 0 THEN IF IsFence(doc[i]) THEN i ELSE 0
                       ELSE IF Closes(doc, b[i - 1], i) THEN 0 ELSE b[i - 1]
             /\ IsFence(doc[i]) /\ b[i - 1] # 0 /\ doc[i].info # "" =>
                  doc[b[i - 1]].info # ""
  <2>1. PICK open : open = b[i - 1]
    OBVIOUS
  <2>2. b[i] = IF open = 0 THEN IF ReaderFence(doc[i]) THEN i ELSE 0
               ELSE IF ReaderCloses(doc, open, i) THEN 0 ELSE open
    BY <1>0, <1>a, <2>1, ReaderIs, Zenon
  <2>3. doc[i].kind \in Ticks =>
          /\ ~doc[i].more /\ ~doc[i].deep
          /\ open # 0 /\ doc[i].info = "" /\ doc[i].kind = doc[open].kind =>
               doc[i].length >= doc[open].length
          /\ open # 0 /\ doc[i].info # "" => doc[open].info # ""
    BY <1>0, <1>a, <2>1, Zenon DEF FencesPlain
  <2>4. ReaderFence(doc[i]) <=> IsFence(doc[i])
    BY <2>3, Zenon DEF ReaderFence, IsFence
  <2>5. open # 0 => (ReaderCloses(doc, open, i) <=> Closes(doc, open, i))
    BY <2>3, <2>4, Zenon DEF ReaderCloses, Closes, IsFence
  <2>6. IsFence(doc[i]) /\ open # 0 /\ doc[i].info # "" => doc[open].info # ""
    BY <2>3, Zenon DEF IsFence
  <2>7. b[i] = IF open = 0 THEN IF IsFence(doc[i]) THEN i ELSE 0
               ELSE IF Closes(doc, open, i) THEN 0 ELSE open
    BY <2>2, <2>4, <2>5, Zenon
  <2> QED BY <2>1, <2>6, <2>7, Zenon
<1>3. \A i \in 0 .. n : b[i] \in 0 .. n
  BY <1>1, Zenon
<1>4. ReadsPlainly(b, doc, n)
  BY <1>1, <1>2, <1>3, Zenon DEF ReadsPlainly
<1> QED BY <1>0, <1>a, <1>4, Zenon

\* The lines of a set of blocks that the lint is about.
Flagged(doc, B) ==
  {i \in UNION {b[1] + 1 .. b[2] - 1 : b \in {x \in B : doc[x[1]].info = "sv0"}} :
     doc[i].kind = "header-only"}

InBlock(doc, p, j) ==
  j \in p[1] + 1 .. p[2] - 1 /\ doc[p[1]].info = "sv0" /\ doc[j].kind = "header-only"

LEMMA FlaggedNone == \A doc : Flagged(doc, {}) = {}
BY DEF Flagged

LEMMA FlaggedAdd ==
  ASSUME NEW doc, NEW p, NEW B, NEW F, F = {p} \cup B
  PROVE  \A j : j \in Flagged(doc, F) <=> j \in Flagged(doc, B) \/ InBlock(doc, p, j)
<1> DEFINE At(x, j) == doc[x[1]].info = "sv0" /\ j \in x[1] + 1 .. x[2] - 1
<1>1. \A A, j : j \in Flagged(doc, A) <=>
                  doc[j].kind = "header-only" /\ \E x \in A : At(x, j)
  BY Zenon DEF Flagged
<1>2. \A j : At(p, j) <=> doc[p[1]].info = "sv0" /\ j \in p[1] + 1 .. p[2] - 1
  OBVIOUS
<1> HIDE DEF At
<1>3. \A j : (\E x \in F : At(x, j)) <=> At(p, j) \/ \E x \in B : At(x, j)
  OBVIOUS
<1> QED BY <1>1, <1>2, <1>3, Zenon DEF InBlock

\* A block that the reader is in: it goes on to the fence that closes it.
LEMMA BlockLasts ==
  ASSUME NEW S, NEW doc \in Seq(S), FencesPlain(doc), NEW b, b = ReaderBlock(doc),
         NEW i \in 1 .. Len(doc), b[i] = i
  PROVE  /\ \A j \in i .. CloseOf(doc, i) - 1 : b[j] = i
         /\ CloseOf(doc, i) <= Len(doc) => b[CloseOf(doc, i)] = 0
<1>0. PICK n \in Nat : n = Len(doc)
  OBVIOUS
<1>1. PICK c \in i + 1 .. n + 1 :
        /\ c = CloseOf(doc, i) /\ (c <= n => Closes(doc, i, c))
        /\ \A k \in i + 1 .. c - 1 : ~Closes(doc, i, k)
  BY <1>0, CloseFacts
<1>2. \A k \in 1 .. n : b[k - 1] = i => b[k] = IF Closes(doc, i, k) THEN 0 ELSE i
  <2>1. \A k \in 1 .. n :
          b[k] = IF b[k - 1] = 0 THEN IF IsFence(doc[k]) THEN k ELSE 0
                 ELSE IF Closes(doc, b[k - 1], k) THEN 0 ELSE b[k - 1]
    BY <1>0, PlainReader, Zenon DEF ReadsPlainly
  <2>2. i # 0
    OBVIOUS
  <2> QED BY <2>1, <2>2, Zenon
<1>3. ASSUME NEW j \in i .. c - 1, b[j] # i PROVE FALSE
  <2>1. PICK T \in SUBSET Nat : T = {k \in Nat : k \in i .. c - 1 /\ b[k] # i}
    OBVIOUS
  <2>2. PICK k \in T : \A y \in T : k <= y
    <3>1. j \in T
      BY <1>3, <2>1
    <3> QED BY <3>1, LeastElement, Zenon
  <2>3. k \in i .. c - 1 /\ b[k] # i /\ k # i
    BY <2>1, <2>2
  <2>4. k \in 1 .. n /\ k \in i + 1 .. c - 1 /\ k - 1 \in i .. c - 1 /\ k - 1 \in Nat
    BY <2>3
  <2>5. b[k - 1] = i
    <3>1. ~(k <= k - 1)
      BY <2>3
    <3> QED BY <2>1, <2>2, <2>4, <3>1
  <2> QED BY <1>1, <1>2, <2>3, <2>4, <2>5
<1>4. ASSUME c <= n PROVE b[c] = 0
  <2>1. c \in 1 .. n /\ c - 1 \in i .. c - 1
    BY <1>4
  <2> QED BY <1>1, <1>2, <1>3, <1>4, <2>1
<1> QED BY <1>0, <1>1, <1>3, <1>4

IsDeclaration(line) == line.kind = "header-only"

LEMMA PlainMarkdown ==
  ASSUME NEW S, NEW doc \in Seq(S), FencesPlain(doc)
  PROVE  HeaderOnly(doc) = ReaderHeaderOnly(doc)
<1>0. PICK n \in Nat : n = Len(doc)
  OBVIOUS
<1>1. PICK b : b = ReaderBlock(doc)
  OBVIOUS
<1>r. ReadsPlainly(b, doc, n)
  BY <1>0, <1>1, PlainReader
<1>2. /\ \A i \in 0 .. n : b[i] \in 0 .. n
      /\ b[0] = 0
      /\ \A i \in 1 .. n :
           b[i] = IF b[i - 1] = 0 THEN IF IsFence(doc[i]) THEN i ELSE 0
                  ELSE IF Closes(doc, b[i - 1], i) THEN 0 ELSE b[i - 1]
  BY <1>r, Zenon DEF ReadsPlainly
<1>3. PICK f : IsFences(f, doc) /\ Fences(doc) = f[1]
  BY FencesIs
<1>4. \A i \in 1 .. n + 2 :
        f[i] = IF i > n THEN {}
               ELSE IF PassedOver(doc, i) THEN f[i + 1]
               ELSE {<<i, CloseOf(doc, i)>>} \cup f[CloseOf(doc, i) + 1]
  BY <1>0, <1>3, Zenon DEF IsFences, PassedOver
<1> DEFINE Plain(i) == b[i - 1] = 0 \/ doc[b[i - 1]].info = ""
           Marks(j) == IsDeclaration(doc[j]) /\ b[j] # 0 /\ doc[b[j]].info = "sv0"
           Holds(i) == (i <= n + 1 => Plain(i)) =>
                         Flagged(doc, f[i]) = {j \in i .. n : Marks(j)}
<1> HIDE DEF Plain, Marks, Holds
<1>5. \A i \in 1 .. n + 2 : Holds(i)
  <2>1. SUFFICES ASSUME NEW m \in 1 .. n + 2, ~Holds(m) PROVE FALSE
    OBVIOUS
  <2>2. PICK T \in SUBSET (0 .. n + 2) : T = {k \in 0 .. n + 2 : k \in 1 .. n + 2 /\ ~Holds(k)}
    OBVIOUS
  <2>3. PICK i \in T : \A y \in T : y <= i
    <3>1. m \in T /\ n + 2 \in Nat
      BY <2>1, <2>2
    <3> QED BY <3>1, GreatestElement, Zenon
  <2>4. i \in 1 .. n + 2 /\ ~Holds(i)
    BY <2>2, <2>3, Zenon
  <2>5. \A k \in 1 .. n + 2 : k > i => Holds(k)
    <3>1. \A k \in 1 .. n + 2 : k > i => ~(k <= i)
      BY <2>4
    <3>2. \A k \in 1 .. n + 2 : k \in 0 .. n + 2
      OBVIOUS
    <3> QED BY <2>2, <2>3, <3>1, <3>2, Zenon
  <2>6. i <= n
    <3>1. SUFFICES ASSUME i > n PROVE Holds(i)
      BY <2>4
    <3>2. f[i] = {}
      BY <1>4, <2>4, <3>1, Zenon
    <3>3. {j \in i .. n : Marks(j)} = {}
      BY <2>4, <3>1
    <3> QED BY <3>2, <3>3, FlaggedNone, Zenon DEF Holds
  <2>7. i \in 1 .. n /\ i - 1 \in 0 .. n
    BY <2>4, <2>6
  <2>8. Plain(i) /\ Flagged(doc, f[i]) # {j \in i .. n : Marks(j)}
    <3>1. i <= n + 1
      BY <2>7
    <3> QED BY <2>4, <3>1, Zenon DEF Holds
  <2>9. b[i] = IF b[i - 1] = 0 THEN IF IsFence(doc[i]) THEN i ELSE 0
               ELSE IF Closes(doc, b[i - 1], i) THEN 0 ELSE b[i - 1]
    BY <1>2, <2>7, Zenon
  <2>10. IsFence(doc[i]) => ~IsDeclaration(doc[i])
    <3>1. SUFFICES ASSUME IsDeclaration(doc[i]) PROVE ~IsFence(doc[i])
      OBVIOUS
    <3>2. "header-only" \notin Ticks
      BY DEF Ticks
    <3> QED BY <3>1, <3>2, Zenon DEF IsDeclaration, IsFence
  <2>11. CASE PassedOver(doc, i)
    <3>1. f[i] = f[i + 1]
      <4>1. ~(i > n)
        BY <2>7
      <4> QED BY <1>4, <2>4, <2>11, <4>1, Zenon
    <3>2. Holds(i + 1)
      BY <2>5, <2>7
    <3>3. b[i] = 0 \/ doc[b[i]].info = ""
      BY <2>8, <2>9, <2>11, Zenon DEF PassedOver, Plain
    <3>4. Plain(i + 1)
      <4>1. (i + 1) - 1 = i
        BY <2>7
      <4> QED BY <3>3, <4>1, Zenon DEF Plain
    <3>5. ~Marks(i)
      <4>1. "" # "sv0"
        OBVIOUS
      <4> QED BY <3>3, <4>1, Zenon DEF Marks
    <3>6. {j \in i .. n : Marks(j)} = {j \in i + 1 .. n : Marks(j)}
      <4>1. \A j \in i .. n : j = i \/ j \in i + 1 .. n
        BY <2>7
      <4>2. \A j \in i + 1 .. n : j \in i .. n
        BY <2>7
      <4> QED BY <3>5, <4>1, <4>2
    <3> QED BY <2>8, <3>1, <3>2, <3>4, <3>6, Zenon DEF Holds
  <2>12. CASE ~PassedOver(doc, i)
    <3>0. IsFence(doc[i]) /\ doc[i].info # ""
      BY <2>12 DEF PassedOver
    <3>1. PICK c : c = CloseOf(doc, i)
      OBVIOUS
    <3>2. c \in i + 1 .. n + 1
      BY <1>0, <2>7, <3>1, CloseFacts
    <3>3. f[i] = {<<i, c>>} \cup f[c + 1]
      <4>1. ~(i > n)
        BY <2>7
      <4> QED BY <1>4, <2>4, <2>12, <3>1, <4>1, Zenon
    <3>4. b[i] = i
      <4>1. b[i - 1] = 0
        <5>1. SUFFICES ASSUME b[i - 1] # 0 PROVE FALSE
          OBVIOUS
        <5>2. doc[b[i - 1]].info # ""
          BY <1>r, <2>7, <3>0, <5>1, Zenon DEF ReadsPlainly
        <5> QED BY <2>8, <5>1, <5>2, Zenon DEF Plain
      <4> QED BY <2>9, <3>0, <4>1, Zenon
    <3>5. /\ \A j \in i .. c - 1 : b[j] = i
          /\ c <= n => b[c] = 0
      BY <1>0, <1>1, <2>7, <3>1, <3>4, BlockLasts
    <3>6. Holds(c + 1)
      BY <2>5, <2>7, <3>2
    <3>7. c + 1 <= n + 1 => Plain(c + 1)
      <4>1. c + 1 <= n + 1 => c <= n /\ (c + 1) - 1 = c
        BY <2>7, <3>2
      <4> QED BY <3>5, <4>1, Zenon DEF Plain
    <3>8. Flagged(doc, f[c + 1]) = {j \in c + 1 .. n : Marks(j)}
      BY <3>6, <3>7, Zenon DEF Holds
    <3>9. \A j \in i + 1 .. c - 1 :
            Marks(j) <=> doc[i].info = "sv0" /\ doc[j].kind = "header-only"
      <4>1. \A j \in i + 1 .. c - 1 : j \in i .. c - 1
        BY <2>7, <3>2
      <4>2. i # 0
        BY <2>7
      <4> QED BY <3>5, <4>1, <4>2 DEF IsDeclaration, Marks
    <3>10. ~Marks(i)
      BY <2>10, <3>0, Zenon DEF Marks
    <3>11. c <= n => ~Marks(c)
      BY <3>5, Zenon DEF Marks
    <3>12. {j \in i .. n : Marks(j)} =
             {j \in c + 1 .. n : Marks(j)} \cup {j \in i + 1 .. c - 1 : Marks(j)}
      <4>1. \A j \in i .. n : j = i \/ j = c \/ j \in i + 1 .. c - 1 \/ j \in c + 1 .. n
        BY <2>7, <3>2
      <4>2. \A j \in c + 1 .. n : j \in i .. n
        BY <2>7, <3>2
      <4>3. \A j \in i + 1 .. c - 1 : j \in i .. n
        BY <2>7, <3>2
      <4>4. \A j \in i .. n : j = c => c <= n
        BY <2>7, <3>2
      <4> QED BY <3>10, <3>11, <4>1, <4>2, <4>3, <4>4
    <3>13. {j \in i + 1 .. c - 1 : Marks(j)} =
             {j \in i + 1 .. c - 1 : doc[i].info = "sv0" /\ doc[j].kind = "header-only"}
      <4> QED BY <3>9
    <3>14. Flagged(doc, f[i]) =
             Flagged(doc, f[c + 1]) \cup
               {j \in i + 1 .. c - 1 : doc[i].info = "sv0" /\ doc[j].kind = "header-only"}
      <4>1. PICK p, B, F : p = <<i, c>> /\ B = f[c + 1] /\ F = f[i]
        OBVIOUS
      <4>2. F = {p} \cup B
        BY <3>3, <4>1, Zenon
      <4>3. ASSUME NEW j
            PROVE  j \in Flagged(doc, F) <=>
                     \/ j \in Flagged(doc, B)
                     \/ /\ j \in i + 1 .. c - 1
                        /\ doc[i].info = "sv0" /\ doc[j].kind = "header-only"
        <5>1. p[1] = i /\ p[2] = c
          BY <4>1
        <5>2. j \in Flagged(doc, F) <=> j \in Flagged(doc, B) \/ InBlock(doc, p, j)
          BY <4>2, FlaggedAdd, Zenon
        <5> QED BY <5>1, <5>2, Zenon DEF InBlock
      <4>4. Flagged(doc, F) =
              Flagged(doc, B) \cup
                {j \in i + 1 .. c - 1 : doc[i].info = "sv0" /\ doc[j].kind = "header-only"}
        BY <4>3
      <4> QED BY <4>1, <4>4, Zenon
    <3> QED BY <2>8, <3>8, <3>12, <3>13, <3>14, Zenon
  <2> QED BY <2>11, <2>12
<1>6. HeaderOnly(doc) = {i \in DOMAIN doc : Marks(i)}
  <2>1. Holds(1)
    BY <1>5
  <2>2. Plain(1)
    <3>1. 1 - 1 = 0
      OBVIOUS
    <3> QED BY <1>2, <3>1, Zenon DEF Plain
  <2>3. HeaderOnly(doc) = Flagged(doc, f[1])
    BY <1>3, Zenon DEF HeaderOnly, Flagged
  <2>4. DOMAIN doc = 1 .. n
    BY <1>0
  <2> QED BY <2>1, <2>2, <2>3, <2>4, Zenon DEF Holds
<1> QED BY <1>1, <1>6, Zenon DEF ReaderHeaderOnly, Marks, IsDeclaration

\* check_doc_fences: in a file of any length the lint finds the declarations that
\* a markdown reader sees in an sv0 block, if an info string is one word right behind
\* the ticks, no fence is indented as code, no block has a bare fence in it that is
\* shorter than the one it opened with, and none without an info string has a fence
\* with one.
THEOREM MarkdownIsReadRight ==
  ASSUME NEW S, NEW doc \in Seq(S)
  PROVE  FencesExact(doc)
BY PlainMarkdown DEF FencesExact

-----------------------------------------------------------------------------
(* The stripping of comments.                                                *)

\* The lexer's steps, and those of one that does not know of strings.
LexerAfter(src, i, m) ==
  CASE m = "code" /\ src[i] = <<"//">> -> "line"
    [] m = "code" /\ src[i] = <<"/*">> -> "block"
    [] m = "code" /\ src[i] = <<"quote">> -> "string"
    [] m = "line" /\ src[i] = <<"nl">> -> "code"
    [] m = "block" /\ src[i] = <<"*/">> -> "code"
    [] m = "string" /\ src[i] = <<"quote">> -> "code"
    [] OTHER -> m

ModeAfter(src, i, m) ==
  CASE m = "code" /\ src[i] = <<"//">> -> "line"
    [] m = "code" /\ src[i] = <<"/*">> -> "block"
    [] m = "line" /\ src[i] = <<"nl">> -> "code"
    [] m = "block" /\ src[i] = <<"*/">> -> "code"
    [] OTHER -> m

LexerModes == {"code", "line", "block", "string"}
Modes      == {"code", "line", "block"}

IsLexer(f, src) ==
  f = [i \in 0 .. Len(src) |->
         IF i = 0 THEN "code"
         ELSE CASE f[i - 1] = "code" /\ src[i] = <<"//">> -> "line"
                [] f[i - 1] = "code" /\ src[i] = <<"/*">> -> "block"
                [] f[i - 1] = "code" /\ src[i] = <<"quote">> -> "string"
                [] f[i - 1] = "line" /\ src[i] = <<"nl">> -> "code"
                [] f[i - 1] = "block" /\ src[i] = <<"*/">> -> "code"
                [] f[i - 1] = "string" /\ src[i] = <<"quote">> -> "code"
                [] OTHER -> f[i - 1]]

LEMMA ModeIs ==
  ASSUME NEW src, NEW i, NEW m \in Modes
  PROVE  /\ ModeAfter(src, i, m) \in Modes
         /\ m = "code" => ModeAfter(src, i, m) =
              IF src[i] = <<"//">> THEN "line" ELSE IF src[i] = <<"/*">> THEN "block" ELSE "code"
         /\ m = "line" => ModeAfter(src, i, m) = IF src[i] = <<"nl">> THEN "code" ELSE "line"
         /\ m = "block" => ModeAfter(src, i, m) = IF src[i] = <<"*/">> THEN "code" ELSE "block"
<1>1. PICK l : l = src[i]
  OBVIOUS
<1>2. ~(l = <<"//">> /\ l = <<"/*">>)
  <2>1. <<"//">>[1] = "//" /\ <<"/*">>[1] = "/*"
    OBVIOUS
  <2> QED BY <2>1
<1>3. CASE m = "code"
  BY <1>1, <1>2, <1>3 DEF ModeAfter, Modes
<1>4. CASE m = "line"
  BY <1>1, <1>4 DEF ModeAfter, Modes
<1>5. CASE m = "block"
  BY <1>1, <1>5 DEF ModeAfter, Modes
<1> QED BY <1>3, <1>4, <1>5 DEF Modes

\* The lexemes that are told apart.
LEMMA LexemesDiffer ==
  /\ <<"//">> # <<"/*">> /\ <<"//">> # <<"quote">> /\ <<"//">> # <<"nl">> /\ <<"//">> # <<"*/">>
  /\ <<"/*">> # <<"quote">> /\ <<"/*">> # <<"nl">> /\ <<"/*">> # <<"*/">>
  /\ <<"quote">> # <<"nl">> /\ <<"quote">> # <<"*/">> /\ <<"nl">> # <<"*/">>
<1>1. /\ <<"//">>[1] = "//" /\ <<"/*">>[1] = "/*" /\ <<"nl">>[1] = "nl" /\ <<"*/">>[1] = "*/"
      /\ <<"quote">>[1] = "quote"
  OBVIOUS
<1> QED BY <1>1

LEMMA LexerAfterIs ==
  ASSUME NEW src, NEW i, NEW m \in LexerModes
  PROVE  LexerAfter(src, i, m) \in LexerModes
BY DEF LexerAfter, LexerModes

LEMMA LexerIs ==
  ASSUME NEW S, NEW src \in Seq(S), NEW b, b = LexerMode(src)
  PROVE  /\ b[0] = "code"
         /\ \A i \in 0 .. Len(src) : b[i] \in LexerModes
         /\ \A i \in 1 .. Len(src) : b[i] = LexerAfter(src, i, b[i - 1])
<1>0. PICK n \in Nat : n = Len(src)
  OBVIOUS
<1>1. PICK Step : Step = [i \in 1 .. n |-> [m \in LexerModes |-> LexerAfter(src, i, m)]]
  OBVIOUS
<1>2. Step \in [1 .. n -> [LexerModes -> LexerModes]]
  <2>1. \A i \in 1 .. n, m \in LexerModes : LexerAfter(src, i, m) \in LexerModes
    BY LexerAfterIs
  <2>2. \A i \in 1 .. n : [m \in LexerModes |-> LexerAfter(src, i, m)] \in [LexerModes -> LexerModes]
    BY <2>1, Zenon
  <2> QED BY <1>1, <2>2, Zenon
<1>3. PICK f \in [0 .. n -> LexerModes] : f[0] = "code" /\ \A i \in 1 .. n : f[i] = Step[i][f[i - 1]]
  <2>1. PICK V, z : V = LexerModes /\ z = "code"
    OBVIOUS
  <2>2. z \in V /\ Step \in [1 .. n -> [V -> V]]
    BY <1>2, <2>1 DEF LexerModes
  <2>3. \E f \in [0 .. n -> V] : f[0] = z /\ \A i \in 1 .. n : f[i] = Step[i][f[i - 1]]
    BY <2>2, ForthExists
  <2> QED BY <2>1, <2>3, Zenon
<1>4. \A i \in 1 .. n : f[i] = LexerAfter(src, i, f[i - 1])
  <2>1. SUFFICES ASSUME NEW i \in 1 .. n PROVE f[i] = LexerAfter(src, i, f[i - 1])
    OBVIOUS
  <2>2. f[i - 1] \in LexerModes
    BY <1>3
  <2>3. Step[i][f[i - 1]] = LexerAfter(src, i, f[i - 1])
    BY <1>1, <2>2, Zenon
  <2> QED BY <1>3, <2>3, Zenon
<1>5. IsLexer(f, src)
  <2>1. f = [i \in 0 .. n |-> f[i]]
    BY <1>3
  <2>2. \A i \in 0 .. n : f[i] = IF i = 0 THEN "code" ELSE LexerAfter(src, i, f[i - 1])
    <3>1. SUFFICES ASSUME NEW i \in 0 .. n, i # 0 PROVE f[i] = LexerAfter(src, i, f[i - 1])
      BY <1>3
    <3>2. i \in 1 .. n
      BY <3>1
    <3> QED BY <1>4, <3>2, Zenon
  <2>3. f = [i \in 0 .. n |-> IF i = 0 THEN "code" ELSE LexerAfter(src, i, f[i - 1])]
    BY <2>1, <2>2, Zenon
  <2> QED BY <1>0, <2>3, Zenon DEF IsLexer, LexerAfter
<1>7. IsLexer(b, src)
  <2>1. b = CHOOSE g : IsLexer(g, src)
    BY Zenon DEF LexerMode, IsLexer
  <2> QED BY <1>5, <2>1, Zenon
<1>8. \A i \in 0 .. n : b[i] = IF i = 0 THEN "code" ELSE LexerAfter(src, i, b[i - 1])
  BY <1>0, <1>7, Zenon DEF IsLexer, LexerAfter
<1>9. \A i \in 1 .. n : b[i] = LexerAfter(src, i, b[i - 1])
  <2>1. \A i \in 1 .. n : i \in 0 .. n /\ i # 0
    OBVIOUS
  <2> QED BY <1>8, <2>1, Zenon
<1>10. b[0] = "code"
  <2>1. 0 \in 0 .. n
    OBVIOUS
  <2> QED BY <1>8, <2>1, Zenon
<1>11. ASSUME NEW m \in 0 .. n, b[m] \notin LexerModes PROVE FALSE
  <2>1. PICK T \in SUBSET Nat : T = {i \in Nat : i <= n /\ b[i] \notin LexerModes}
    OBVIOUS
  <2>2. PICK i \in T : \A y \in T : i <= y
    <3>1. m \in T
      BY <1>11, <2>1
    <3> QED BY <3>1, LeastElement, Zenon
  <2>3. i \in 0 .. n /\ b[i] \notin LexerModes
    BY <2>1, <2>2
  <2>4. i # 0
    BY <1>10, <2>3 DEF LexerModes
  <2>5. i - 1 \in Nat /\ i - 1 <= n /\ i - 1 \notin T /\ i \in 1 .. n
    BY <2>2, <2>3, <2>4
  <2>6. b[i - 1] \in LexerModes
    BY <2>1, <2>5
  <2> QED BY <1>9, <2>3, <2>5, <2>6, LexerAfterIs
<1> QED BY <1>0, <1>9, <1>10, <1>11

\* What the lexer is in where strings count as code.
PlainMode(src) ==
  [i \in 0 .. Len(src) |-> IF LexerMode(src)[i] = "string" THEN "code" ELSE LexerMode(src)[i]]

LEMMA PlainIs ==
  ASSUME NEW S, NEW src \in Seq(S), CommentsPlain(src), NEW b, b = PlainMode(src)
  PROVE  /\ b[0] = "code"
         /\ \A i \in 0 .. Len(src) : b[i] \in Modes
         /\ \A i \in 1 .. Len(src) : b[i] = ModeAfter(src, i, b[i - 1])
         /\ \A i \in 1 .. Len(src) : src[i] = <<"/*">> => b[i - 1] # "line"
         /\ b[Len(src)] # "block"
<1>0. PICK n \in Nat : n = Len(src) /\ DOMAIN src = 1 .. n
  OBVIOUS
<1>1. PICK a : a = LexerMode(src)
  OBVIOUS
<1>2. /\ a[0] = "code"
      /\ \A i \in 0 .. n : a[i] \in LexerModes
      /\ \A i \in 1 .. n : a[i] = LexerAfter(src, i, a[i - 1])
  BY <1>0, <1>1, LexerIs
<1>3. /\ \A i \in 1 .. n : /\ src[i] = <<"/*">> => a[i - 1] \notin {"line", "string"}
                           /\ src[i] = <<"//">> => a[i - 1] # "string"
      /\ a[n] # "block"
  BY <1>0, <1>1, Zenon DEF CommentsPlain
<1>4. \A i \in 0 .. n : b[i] = IF a[i] = "string" THEN "code" ELSE a[i]
  BY <1>0, <1>1, Zenon DEF PlainMode
<1>5. \A i \in 0 .. n : b[i] \in Modes
  BY <1>2, <1>4 DEF LexerModes, Modes
<1>6. ASSUME NEW i \in 1 .. n PROVE b[i] = ModeAfter(src, i, b[i - 1])
  <2>1. i \in 0 .. n /\ i - 1 \in 0 .. n
    OBVIOUS
  <2>2. PICK m \in LexerModes : m = a[i - 1] /\ a[i] = LexerAfter(src, i, m)
    BY <1>2, <2>1
  <2>3. PICK l : l = src[i]
    OBVIOUS
  <2>4. b[i] = (IF a[i] = "string" THEN "code" ELSE a[i]) /\ b[i - 1] = IF m = "string" THEN "code" ELSE m
    BY <1>4, <2>1, <2>2
  <2>5. CASE m = "code"
    <3>1. b[i - 1] = "code"
      BY <2>4, <2>5
    <3> QED BY <2>2, <2>3, <2>4, <2>5, <3>1, LexemesDiffer DEF LexerAfter, ModeAfter
  <2>6. CASE m = "line"
    <3>1. b[i - 1] = "line"
      BY <2>4, <2>6
    <3> QED BY <2>2, <2>3, <2>4, <2>6, <3>1, LexemesDiffer DEF LexerAfter, ModeAfter
  <2>7. CASE m = "block"
    <3>1. b[i - 1] = "block"
      BY <2>4, <2>7
    <3> QED BY <2>2, <2>3, <2>4, <2>7, <3>1, LexemesDiffer DEF LexerAfter, ModeAfter
  <2>8. CASE m = "string"
    <3>1. b[i - 1] = "code" /\ l # <<"/*">> /\ l # <<"//">>
      BY <1>3, <2>2, <2>3, <2>4, <2>8
    <3>2. b[i] = "code"
      BY <2>2, <2>3, <2>4, <2>8 DEF LexerAfter
    <3> QED BY <2>3, <3>1, <3>2, LexemesDiffer DEF ModeAfter
  <2> QED BY <2>5, <2>6, <2>7, <2>8 DEF LexerModes
<1>7. ASSUME NEW i \in 1 .. n, src[i] = <<"/*">> PROVE b[i - 1] # "line"
  <2>1. i - 1 \in 0 .. n
    OBVIOUS
  <2> QED BY <1>3, <1>4, <1>7, <2>1
<1>8. b[0] = "code" /\ b[n] # "block"
  <2>1. 0 \in 0 .. n /\ n \in 0 .. n
    OBVIOUS
  <2> QED BY <1>2, <1>3, <1>4, <2>1
<1> QED BY <1>0, <1>5, <1>6, <1>7, <1>8, Zenon

LEMMA BlockFacts ==
  ASSUME NEW S, NEW src \in Seq(S), NEW i \in 1 .. Len(src)
  PROVE  \/ /\ BlockAt(src, i) = 0
            /\ src[i] = <<"/*">> => \A j \in i + 1 .. Len(src) : src[j] # <<"*/">>
         \/ /\ BlockAt(src, i) \in i + 1 .. Len(src) /\ src[i] = <<"/*">>
            /\ src[BlockAt(src, i)] = <<"*/">>
            /\ \A k \in i + 1 .. BlockAt(src, i) - 1 : src[k] # <<"*/">>
<1>0. PICK n \in Nat : n = Len(src)
  OBVIOUS
<1>1. CASE ~(src[i] = <<"/*">> /\ \E j \in i + 1 .. n : src[j] = <<"*/">>)
  <2>1. BlockAt(src, i) = 0
    BY <1>0, <1>1, Zenon DEF BlockAt
  <2> QED BY <1>0, <1>1, <2>1, Zenon
<1>2. CASE src[i] = <<"/*">> /\ \E j \in i + 1 .. n : src[j] = <<"*/">>
  <2>1. PICK T \in SUBSET Nat : T = {j \in Nat : j \in i + 1 .. n /\ src[j] = <<"*/">>}
    OBVIOUS
  <2>2. T # {}
    <3>1. \A j \in i + 1 .. n : j \in Nat
      BY <1>0
    <3> QED BY <1>2, <2>1, <3>1, Zenon
  <2>3. PICK j \in T : \A y \in T : j <= y
    BY <2>2, LeastElement
  <2>4. j \in i + 1 .. n /\ src[j] = <<"*/">>
    BY <2>1, <2>3, Zenon
  <2>5. ASSUME NEW k \in i + 1 .. j - 1 PROVE src[k] # <<"*/">>
    <3>1. k \in Nat /\ k \in i + 1 .. n /\ ~(j <= k)
      BY <1>0, <2>4
    <3> QED BY <2>1, <2>3, <3>1, Zenon
  <2>6. PICK c : c = CHOOSE j1 \in i + 1 .. n :
                        src[j1] = <<"*/">> /\ \A k \in i + 1 .. j1 - 1 : src[k] # <<"*/">>
    OBVIOUS
  <2>7. c \in i + 1 .. n /\ src[c] = <<"*/">> /\ \A k \in i + 1 .. c - 1 : src[k] # <<"*/">>
    BY <2>4, <2>5, <2>6, Zenon
  <2>8. BlockAt(src, i) = c
    BY <1>0, <1>2, <2>6, Zenon DEF BlockAt
  <2> QED BY <1>0, <1>2, <2>7, <2>8, Zenon
<1> QED BY <1>1, <1>2

IsOutside(f, src) ==
  f = [i \in 1 .. Len(src) + 1 |->
         IF i > Len(src) THEN {}
         ELSE IF BlockAt(src, i) # 0 THEN f[BlockAt(src, i) + 1]
         ELSE {i} \cup f[i + 1]]

LEMMA OutsideIs ==
  ASSUME NEW S, NEW src \in Seq(S)
  PROVE  \E f : IsOutside(f, src) /\ OutsideBlocks(src) = f[1]
<1>0. PICK n \in Nat : n = Len(src)
  OBVIOUS
<1>1. PICK Jump : Jump = [i \in 1 .. n |-> IF BlockAt(src, i) # 0 THEN BlockAt(src, i) + 1 ELSE i + 1]
  OBVIOUS
<1>2. PICK Add : Add = [i \in 1 .. n |-> IF BlockAt(src, i) # 0 THEN {} ELSE {i}]
  OBVIOUS
<1>3. \A i \in 1 .. n : Jump[i] \in i + 1 .. n + 1
  <2>1. \A i \in 1 .. n : BlockAt(src, i) = 0 \/ BlockAt(src, i) \in i + 1 .. n
    BY <1>0, BlockFacts
  <2> QED BY <1>1, <2>1
<1>4. PICK f : IsBack(f, n + 1, n, Jump, Add)
  <2>1. n + 1 \in Nat /\ n < n + 1
    OBVIOUS
  <2> QED BY <1>3, <2>1, BackExists
<1>5. \A i \in 1 .. n + 1 :
        (IF i > n THEN {} ELSE Add[i] \cup f[Jump[i]]) =
        (IF i > Len(src) THEN {}
         ELSE IF BlockAt(src, i) # 0 THEN f[BlockAt(src, i) + 1]
         ELSE {i} \cup f[i + 1])
  <2>1. SUFFICES ASSUME NEW i \in 1 .. n + 1, ~(i > n)
                 PROVE Add[i] \cup f[Jump[i]] =
                       IF BlockAt(src, i) # 0 THEN f[BlockAt(src, i) + 1]
                       ELSE {i} \cup f[i + 1]
    BY <1>0
  <2>2. i \in 1 .. n
    BY <2>1
  <2>3. CASE BlockAt(src, i) # 0
    <3>1. Add[i] = {} /\ Jump[i] = BlockAt(src, i) + 1
      BY <1>1, <1>2, <2>2, <2>3, Zenon
    <3> QED BY <2>3, <3>1
  <2>4. CASE ~(BlockAt(src, i) # 0)
    <3>1. Add[i] = {i} /\ Jump[i] = i + 1
      BY <1>1, <1>2, <2>2, <2>4, Zenon
    <3> QED BY <2>4, <3>1, Zenon
  <2> QED BY <2>3, <2>4
<1>6. IsOutside(f, src)
  BY <1>0, <1>4, <1>5, Zenon DEF IsBack, IsOutside
<1>7. PICK g : g = CHOOSE h : IsOutside(h, src)
  OBVIOUS
<1>8. IsOutside(g, src)
  BY <1>6, <1>7, Zenon
<1>9. OutsideBlocks(src) = g[1]
  BY <1>7, Zenon DEF OutsideBlocks, IsOutside
<1> QED BY <1>8, <1>9

\* A block that the lexer is in lasts to the next closing lexeme.
LEMMA CommentLasts ==
  ASSUME NEW S, NEW src \in Seq(S), NEW b, b = PlainMode(src), CommentsPlain(src),
         NEW i \in 1 .. Len(src), b[i] = "block",
         NEW e \in i .. Len(src), \A k \in i + 1 .. e : src[k] # <<"*/">>
  PROVE  \A j \in i .. e : b[j] = "block"
<1>0. PICK n \in Nat : n = Len(src)
  OBVIOUS
<1>2. \A k \in i + 1 .. e : b[k - 1] = "block" => b[k] = "block"
  <2>1. SUFFICES ASSUME NEW k \in i + 1 .. e, b[k - 1] = "block" PROVE b[k] = "block"
    OBVIOUS
  <2>2. k \in 1 .. n /\ "block" \in Modes
    BY <1>0 DEF Modes
  <2>3. b[k] = ModeAfter(src, k, "block")
    BY <1>0, <2>1, <2>2, PlainIs
  <2> QED BY <2>2, <2>3, ModeIs
<1>3. SUFFICES ASSUME NEW j \in i .. e, b[j] # "block" PROVE FALSE
  OBVIOUS
<1>4. PICK T \in SUBSET Nat : T = {k \in Nat : k \in i .. e /\ b[k] # "block"}
  OBVIOUS
<1>5. PICK k \in T : \A y \in T : k <= y
  <2>1. j \in T
    BY <1>3, <1>4
  <2> QED BY <2>1, LeastElement, Zenon
<1>6. k \in i .. e /\ b[k] # "block" /\ k # i
  BY <1>4, <1>5
<1>7. k \in i + 1 .. e /\ k - 1 \in i .. e /\ k - 1 \in Nat /\ ~(k <= k - 1)
  BY <1>6
<1>8. b[k - 1] = "block"
  BY <1>4, <1>5, <1>7
<1> QED BY <1>2, <1>6, <1>7, <1>8

\* What is left when the blocks are cut out is what the lexer reads outside them.
LEMMA OutsideIsRight ==
  ASSUME NEW S, NEW src \in Seq(S), NEW b, b = PlainMode(src), CommentsPlain(src)
  PROVE  OutsideBlocks(src) = {j \in 1 .. Len(src) : b[j - 1] # "block" /\ b[j] # "block"}
<1>0. PICK n \in Nat : n = Len(src)
  OBVIOUS
<1>1. /\ b[0] = "code"
      /\ \A i \in 0 .. n : b[i] \in Modes
      /\ \A i \in 1 .. n : b[i] = ModeAfter(src, i, b[i - 1])
  BY <1>0, PlainIs
<1>2. /\ \A i \in 1 .. n : src[i] = <<"/*">> => b[i - 1] # "line"
      /\ b[n] # "block"
  BY <1>0, PlainIs, Zenon
<1>3. PICK f : IsOutside(f, src) /\ OutsideBlocks(src) = f[1]
  BY OutsideIs
<1>4. \A i \in 1 .. n + 1 :
        f[i] = IF i > n THEN {}
               ELSE IF BlockAt(src, i) # 0 THEN f[BlockAt(src, i) + 1]
               ELSE {i} \cup f[i + 1]
  BY <1>0, <1>3, Zenon DEF IsOutside
<1> DEFINE Out(j) == b[j - 1] # "block" /\ b[j] # "block"
           Holds(i) == b[i - 1] # "block" => f[i] = {j \in i .. n : Out(j)}
<1> HIDE DEF Out, Holds
<1>5. \A i \in 1 .. n + 1 : Holds(i)
  <2>1. SUFFICES ASSUME NEW m \in 1 .. n + 1, ~Holds(m) PROVE FALSE
    OBVIOUS
  <2>2. PICK T \in SUBSET (0 .. n + 1) : T = {k \in 0 .. n + 1 : k \in 1 .. n + 1 /\ ~Holds(k)}
    OBVIOUS
  <2>3. PICK i \in T : \A y \in T : y <= i
    <3>1. m \in T /\ n + 1 \in Nat
      BY <2>1, <2>2
    <3> QED BY <3>1, GreatestElement, Zenon
  <2>4. i \in 1 .. n + 1 /\ ~Holds(i)
    BY <2>2, <2>3, Zenon
  <2>5. \A k \in 1 .. n + 1 : k > i => Holds(k)
    <3>1. \A k \in 1 .. n + 1 : k > i => ~(k <= i)
      BY <2>4
    <3>2. \A k \in 1 .. n + 1 : k \in 0 .. n + 1
      OBVIOUS
    <3> QED BY <2>2, <2>3, <3>1, <3>2, Zenon
  <2>6. i <= n
    <3>1. SUFFICES ASSUME i > n PROVE Holds(i)
      BY <2>4
    <3>2. f[i] = {}
      BY <1>4, <2>4, <3>1, Zenon
    <3>3. {j \in i .. n : Out(j)} = {}
      BY <2>4, <3>1
    <3> QED BY <3>2, <3>3, Zenon DEF Holds
  <2>7. i \in 1 .. n /\ i - 1 \in 0 .. n
    BY <2>4, <2>6
  <2>8. b[i - 1] # "block" /\ f[i] # {j \in i .. n : Out(j)}
    BY <2>4, Zenon DEF Holds
  <2>9. b[i - 1] \in {"code", "line"} /\ b[i] = ModeAfter(src, i, b[i - 1])
    BY <1>1, <2>7, <2>8 DEF Modes
  <2>10. CASE BlockAt(src, i) = 0
    <3>1. f[i] = {i} \cup f[i + 1]
      <4>1. ~(i > n)
        BY <2>7
      <4> QED BY <1>4, <2>4, <2>10, <4>1, Zenon
    <3>2. b[i] # "block"
      <4>1. SUFFICES ASSUME b[i] = "block" PROVE FALSE
        OBVIOUS
      <4>2. src[i] = <<"/*">>
        <5>1. b[i - 1] \in Modes /\ "line" # "block" /\ "code" # "block"
          BY <2>9 DEF Modes
        <5> QED BY <2>9, <4>1, <5>1, ModeIs
      <4>3. \A j \in i + 1 .. n : src[j] # <<"*/">>
        <5>1. ~(0 \in i + 1 .. n)
          BY <2>7
        <5> QED BY <1>0, <2>7, <2>10, <4>2, <5>1, BlockFacts
      <4>4. n \in i .. n
        BY <2>7
      <4>5. b[n] = "block"
        BY <1>0, <2>7, <4>1, <4>3, <4>4, CommentLasts
      <4> QED BY <1>2, <4>5
    <3>3. Out(i)
      BY <2>8, <3>2 DEF Out
    <3>4. f[i + 1] = {j \in i + 1 .. n : Out(j)}
      <4>1. i + 1 \in 1 .. n + 1 /\ i + 1 > i /\ (i + 1) - 1 = i
        BY <2>7
      <4>2. Holds(i + 1)
        BY <2>5, <4>1
      <4> QED BY <3>2, <4>1, <4>2, Zenon DEF Holds
    <3>5. {j \in i .. n : Out(j)} = {i} \cup {j \in i + 1 .. n : Out(j)}
      <4>1. \A j \in i .. n : j = i \/ j \in i + 1 .. n
        BY <2>7
      <4>2. \A j \in i + 1 .. n : j \in i .. n
        BY <2>7
      <4>3. i \in i .. n
        BY <2>7
      <4> QED BY <3>3, <4>1, <4>2, <4>3
    <3> QED BY <2>8, <3>1, <3>4, <3>5, Zenon
  <2>11. CASE BlockAt(src, i) # 0
    <3>1. PICK c \in i + 1 .. n :
            /\ c = BlockAt(src, i) /\ src[i] = <<"/*">> /\ src[c] = <<"*/">>
            /\ \A k \in i + 1 .. c - 1 : src[k] # <<"*/">>
      BY <1>0, <2>7, <2>11, BlockFacts
    <3>2. f[i] = f[c + 1]
      <4>1. ~(i > n)
        BY <2>7
      <4> QED BY <1>4, <2>4, <2>11, <3>1, <4>1, Zenon
    <3>3. b[i] = "block"
      <4>1. b[i - 1] = "code" /\ b[i - 1] \in Modes
        BY <1>2, <2>7, <2>9, <3>1 DEF Modes
      <4>2. <<"/*">> # <<"//">>
        <5>1. <<"//">>[1] = "//" /\ <<"/*">>[1] = "/*"
          OBVIOUS
        <5> QED BY <5>1
      <4> QED BY <2>9, <3>1, <4>1, <4>2, ModeIs
    <3>4. \A j \in i .. c - 1 : b[j] = "block"
      <4>1. PICK e \in i .. n : e = c - 1
        BY <2>7, <3>1
      <4>2. \A k \in i + 1 .. e : src[k] # <<"*/">>
        BY <3>1, <4>1
      <4>3. \A j \in i .. e : b[j] = "block"
        BY <1>0, <2>7, <3>3, <4>2, CommentLasts
      <4> QED BY <4>1, <4>3
    <3>5. b[c] = "code"
      <4>1. c \in 1 .. n /\ c - 1 \in i .. c - 1 /\ "block" \in Modes
        BY <2>7, <3>1 DEF Modes
      <4>2. b[c] = ModeAfter(src, c, "block")
        BY <1>1, <3>4, <4>1
      <4> QED BY <3>1, <4>1, <4>2, ModeIs
    <3>6. f[c + 1] = {j \in c + 1 .. n : Out(j)}
      <4>1. c + 1 \in 1 .. n + 1 /\ c + 1 > i /\ (c + 1) - 1 = c
        BY <2>7, <3>1
      <4>2. Holds(c + 1)
        BY <2>5, <4>1
      <4>3. b[(c + 1) - 1] # "block"
        BY <3>5, <4>1
      <4> QED BY <4>2, <4>3, Zenon DEF Holds
    <3>7. \A j \in i .. c : ~Out(j)
      <4>1. \A j \in i .. c : j \in i .. c - 1 \/ j - 1 \in i .. c - 1
        BY <2>7, <3>1
      <4> QED BY <3>4, <4>1 DEF Out
    <3>8. {j \in i .. n : Out(j)} = {j \in c + 1 .. n : Out(j)}
      <4>1. \A j \in i .. n : j \in i .. c \/ j \in c + 1 .. n
        BY <2>7, <3>1
      <4>2. \A j \in c + 1 .. n : j \in i .. n
        BY <2>7, <3>1
      <4> QED BY <3>7, <4>1, <4>2
    <3> QED BY <2>8, <3>2, <3>6, <3>8, Zenon
  <2> QED BY <2>10, <2>11
<1>6. Holds(1)
  BY <1>5
<1>7. b[1 - 1] # "block"
  <2>1. 1 - 1 = 0
    OBVIOUS
  <2> QED BY <1>1, <2>1
<1> QED BY <1>0, <1>3, <1>6, <1>7, Zenon DEF Holds, Out

\* After the // at j no line end is left up to k.
LineBegun(src, left, k) ==
  \E j \in left : /\ j <= k /\ src[j] = <<"//">>
                  /\ \A h \in j .. k : ~(h \in left /\ src[h] = <<"nl">>)

\* A line comment: the lexer is in one exactly where a // is left since the last
\* line end that is left.
LEMMA LineIsRight ==
  ASSUME NEW S, NEW src \in Seq(S), NEW b, b = PlainMode(src), CommentsPlain(src),
         NEW left, left = OutsideBlocks(src), NEW i \in left
  PROVE  b[i] = "line" <=> LineBegun(src, left, i)
<1>0. PICK n \in Nat : n = Len(src)
  OBVIOUS
<1>1. /\ b[0] = "code"
      /\ \A k \in 0 .. n : b[k] \in Modes
      /\ \A k \in 1 .. n : b[k] = ModeAfter(src, k, b[k - 1])
  BY <1>0, PlainIs
<1>2. left = {j \in 1 .. n : b[j - 1] # "block" /\ b[j] # "block"}
  BY <1>0, OutsideIsRight
<1>3. i \in 1 .. n
  BY <1>2
<1>4. <<"//">> # <<"nl">>
  <2>1. <<"//">>[1] = "//" /\ <<"nl">>[1] = "nl"
    OBVIOUS
  <2> QED BY <2>1
<1>5. \A k \in 1 .. n :
        /\ b[k - 1] = "code" => b[k] = IF src[k] = <<"//">> THEN "line"
                                       ELSE IF src[k] = <<"/*">> THEN "block" ELSE "code"
        /\ b[k - 1] = "line" => b[k] = IF src[k] = <<"nl">> THEN "code" ELSE "line"
        /\ b[k - 1] = "block" => b[k] = IF src[k] = <<"*/">> THEN "code" ELSE "block"
  <2>1. SUFFICES ASSUME NEW k \in 1 .. n
                 PROVE /\ b[k - 1] = "code" => b[k] = IF src[k] = <<"//">> THEN "line"
                                       ELSE IF src[k] = <<"/*">> THEN "block" ELSE "code"
                       /\ b[k - 1] = "line" => b[k] = IF src[k] = <<"nl">> THEN "code" ELSE "line"
                       /\ b[k - 1] = "block" => b[k] = IF src[k] = <<"*/">> THEN "code" ELSE "block"
    OBVIOUS
  <2>2. k - 1 \in 0 .. n
    OBVIOUS
  <2>3. b[k - 1] \in Modes /\ b[k] = ModeAfter(src, k, b[k - 1])
    BY <1>1, <2>2
  <2>4. PICK m \in Modes : m = b[k - 1] /\ b[k] = ModeAfter(src, k, m)
    BY <2>3
  <2>5. /\ m = "code" => b[k] = IF src[k] = <<"//">> THEN "line"
                                ELSE IF src[k] = <<"/*">> THEN "block" ELSE "code"
        /\ m = "line" => b[k] = IF src[k] = <<"nl">> THEN "code" ELSE "line"
        /\ m = "block" => b[k] = IF src[k] = <<"*/">> THEN "code" ELSE "block"
    BY <2>4, ModeIs, Zenon
  <2> QED BY <2>4, <2>5, Zenon
<1> DEFINE Begun(k) == LineBegun(src, left, k)
<1>6. ASSUME NEW m \in 0 .. n, b[m] = "line", ~Begun(m) PROVE FALSE
  <2>1. PICK T \in SUBSET Nat : T = {k \in Nat : k <= n /\ b[k] = "line" /\ ~Begun(k)}
    OBVIOUS
  <2>2. PICK k \in T : \A y \in T : k <= y
    <3>1. m \in T
      BY <1>6, <2>1
    <3> QED BY <3>1, LeastElement, Zenon
  <2>3. k \in 0 .. n /\ b[k] = "line" /\ ~Begun(k)
    BY <2>1, <2>2
  <2>4. k # 0
    BY <1>1, <2>3
  <2>5. k \in 1 .. n /\ k - 1 \in Nat /\ k - 1 <= n /\ ~(k <= k - 1) /\ k - 1 \in 0 .. n
    BY <2>3, <2>4
  <2>6. b[k - 1] \in Modes
    BY <1>1, <2>5
  <2>7. CASE b[k - 1] = "code"
    <3>1. src[k] = <<"//">> /\ k \in left
      BY <1>2, <1>5, <2>3, <2>5, <2>7
    <3>2. \A h \in k .. k : ~(h \in left /\ src[h] = <<"nl">>)
      BY <1>4, <2>5, <3>1
    <3> QED BY <2>3, <2>5, <3>1, <3>2 DEF LineBegun
  <2>8. CASE b[k - 1] = "line"
    <3>1. src[k] # <<"nl">>
      BY <1>5, <2>3, <2>5, <2>8
    <3>2. Begun(k - 1)
      <4>1. k - 1 \notin T
        BY <2>2, <2>5
      <4> QED BY <2>1, <2>5, <2>8, <4>1
    <3>3. PICK j \in left : /\ j <= k - 1 /\ src[j] = <<"//">>
                            /\ \A h \in j .. k - 1 : ~(h \in left /\ src[h] = <<"nl">>)
      BY <3>2 DEF LineBegun
    <3>4. j \in 1 .. n
      BY <1>2
    <3>5. j <= k /\ \A h \in j .. k : h = k \/ h \in j .. k - 1
      BY <2>5, <3>3, <3>4
    <3>6. \A h \in j .. k : ~(h \in left /\ src[h] = <<"nl">>)
      BY <3>1, <3>3, <3>5
    <3> QED BY <2>3, <3>3, <3>5, <3>6 DEF LineBegun
  <2>9. CASE b[k - 1] = "block"
    BY <1>5, <2>3, <2>5, <2>9
  <2> QED BY <2>6, <2>7, <2>8, <2>9 DEF Modes
<1>7. ASSUME NEW j \in left, j <= i, src[j] = <<"//">>,
             \A h \in j .. i : ~(h \in left /\ src[h] = <<"nl">>), b[i] # "line"
      PROVE  FALSE
  <2>1. PICK T \in SUBSET Nat : T = {k \in Nat : k \in j .. i /\ b[k] # "line"}
    OBVIOUS
  <2>0. j \in 1 .. n /\ b[j - 1] # "block"
    BY <1>2
  <2>2. PICK k \in T : \A y \in T : k <= y
    <3>1. i \in T
      BY <1>3, <1>7, <2>0, <2>1
    <3> QED BY <3>1, LeastElement, Zenon
  <2>3. k \in j .. i /\ b[k] # "line"
    BY <2>1, <2>2, Zenon
  <2>4. b[j] = "line"
    <3>1. j - 1 \in 0 .. n
      BY <2>0
    <3>2. b[j - 1] = "code" \/ b[j - 1] = "line"
      BY <1>1, <2>0, <3>1 DEF Modes
    <3> QED BY <1>4, <1>5, <1>7, <2>0, <3>2
  <2>5. k # j
    BY <2>3, <2>4
  <2>6. k \in 1 .. n /\ k - 1 \in j .. i /\ k - 1 \in Nat /\ ~(k <= k - 1)
    BY <1>3, <2>0, <2>3, <2>5
  <2>7. b[k - 1] = "line"
    BY <2>1, <2>2, <2>6
  <2>8. src[k] = <<"nl">> /\ b[k] = "code"
    BY <1>5, <2>3, <2>6, <2>7
  <2>9. k \in left
    BY <1>2, <2>6, <2>7, <2>8
  <2> QED BY <1>7, <2>3, <2>8, <2>9
<1>8. i \in 0 .. n
  BY <1>3
<1>9. b[i] = "line" => Begun(i)
  BY <1>6, <1>8
<1>10. Begun(i) => b[i] = "line"
  BY <1>7 DEF LineBegun
<1> QED BY <1>9, <1>10

\* check_locale_independence: in a module of any length, what is reported is what
\* the compiler's lexer reads outside comments, if no block is opened in a line
\* comment, all of them end, and no string literal holds what opens a comment.
THEOREM CommentsAreReadRight ==
  ASSUME NEW S, NEW src \in Seq(S)
  PROVE  CommentsExact(src)
<1>0. PICK n \in Nat : n = Len(src) /\ DOMAIN src = 1 .. n
  OBVIOUS
<1>1. PICK b, left : b = PlainMode(src) /\ left = OutsideBlocks(src)
  OBVIOUS
<1>a. \A i \in 1 .. n : b[i - 1] = "code" <=> LexerMode(src)[i - 1] \in {"code", "string"}
  <2>1. \A i \in 1 .. n : i - 1 \in 0 .. n
    OBVIOUS
  <2>2. \A i \in 0 .. n : b[i] = IF LexerMode(src)[i] = "string" THEN "code" ELSE LexerMode(src)[i]
    BY <1>0, <1>1, Zenon DEF PlainMode
  <2> QED BY <2>1, <2>2
<1>2. SUFFICES ASSUME CommentsPlain(src)
               PROVE  AmbientUses(src) =
                        {i \in DOMAIN src : src[i] = <<"ambient">> /\ b[i - 1] = "code"}
  <2>1. {i \in DOMAIN src : src[i] = <<"ambient">> /\ b[i - 1] = "code"} =
        {i \in DOMAIN src :
           src[i] = <<"ambient">> /\ LexerMode(src)[i - 1] \in {"code", "string"}}
    BY <1>0, <1>a, Zenon
  <2> QED BY <2>1, Zenon DEF CommentsExact
<1>3. /\ b[0] = "code"
      /\ \A k \in 0 .. n : b[k] \in Modes
      /\ \A k \in 1 .. n : b[k] = ModeAfter(src, k, b[k - 1])
  BY <1>0, <1>1, <1>2, PlainIs
<1>4. left = {j \in 1 .. n : b[j - 1] # "block" /\ b[j] # "block"}
  BY <1>0, <1>1, <1>2, OutsideIsRight
<1>5. \A i \in left : b[i] = "line" <=> LineBegun(src, left, i)
  BY <1>1, <1>2, LineIsRight
<1>6. \A i : i \in AmbientUses(src) <=> i \in left /\ src[i] = <<"ambient">> /\ b[i] # "line"
  <2>1. AmbientUses(src) = {i \in StripComments(src) : src[i] = <<"ambient">>}
    BY DEF AmbientUses
  <2>2. StripComments(src) =
          {i \in left :
             \A j \in {j \in left : j <= i /\ src[j] = <<"//">>} :
               \E k \in j .. i : k \in left /\ src[k] = <<"nl">>}
    BY <1>1, Zenon DEF StripComments
  <2>3. \A i : i \in StripComments(src) <=> i \in left /\ b[i] # "line"
    BY <1>5, <2>2, Zenon DEF LineBegun
  <2> QED BY <2>1, <2>3, Zenon
<1>7. ASSUME NEW i \in 1 .. n, src[i] = <<"ambient">>
      PROVE  (i \in left /\ b[i] # "line") <=> b[i - 1] = "code"
  <2>1. i - 1 \in 0 .. n
    BY <1>7
  <2>2. PICK m \in Modes : m = b[i - 1] /\ b[i] = ModeAfter(src, i, m)
    BY <1>3, <2>1
  <2>3. PICK l : l = src[i] /\ l = <<"ambient">>
    BY <1>7
  <2>4. l # <<"//">> /\ l # <<"/*">> /\ l # <<"nl">> /\ l # <<"*/">>
    <3>1. l[1] = "ambient"
      BY <2>3
    <3>2. <<"//">>[1] = "//" /\ <<"/*">>[1] = "/*" /\ <<"nl">>[1] = "nl" /\ <<"*/">>[1] = "*/"
      OBVIOUS
    <3>3. l # <<"//">>
      BY <3>1, <3>2
    <3>4. l # <<"/*">>
      BY <3>1, <3>2
    <3>5. l # <<"nl">>
      BY <3>1, <3>2
    <3>6. l # <<"*/">>
      BY <3>1, <3>2
    <3> QED BY <3>3, <3>4, <3>5, <3>6
  <2>5. b[i] = m
    BY <2>2, <2>3, <2>4, ModeIs DEF Modes
  <2> QED BY <1>4, <2>2, <2>5 DEF Modes
<1>8. left \subseteq 1 .. n /\ DOMAIN src = 1 .. n
  BY <1>0, <1>4
<1> QED BY <1>6, <1>7, <1>8

\* The commit-msg hook: a message from the editor, of any length, is rejected when
\* and only when the commit made of it has a line that credits an agent; with
\* --verbose when it has; and one given with -m lets by no credit but behind a #.
LEMMA MessagesAreReadRight ==
  ASSUME NEW S, NEW lines \in Seq(S)
  PROVE  CommitExact(lines)
<1> DEFINE credited(cut, strip) == {i \in CommittedLines(lines, cut, strip) : Credits(lines[i])}
<1>1. CommitRejected(lines) <=> credited(FALSE, TRUE) # {}
  BY DEF CommitRejected, FindViolations, MessageBody, CommittedLines
<1>2. credited(TRUE, TRUE) # {} => CommitRejected(lines)
  BY DEF CommitRejected, FindViolations, MessageBody, CommittedLines
<1>3. ~CommitRejected(lines) => \A i \in credited(FALSE, FALSE) : "#" \in lines[i]
  BY DEF CommitRejected, FindViolations, MessageBody, CommittedLines
<1> QED BY <1>1, <1>2, <1>3, Zenon DEF CommitExact

\* The gate beside which a text is read is the gate: what is proved of Spec holds
\* in the run.
LEMMA RunIsGate == MCSpec => Spec
<1>1. MCInit => Init
  BY DEF MCInit
<1>2. [MCNext]_<<vars, text>> => [Next]_vars
  BY DEF MCNext
<1> QED BY <1>1, <1>2, PTL DEF MCSpec, Spec

\* Whatever a scanner is run on in the run: it finds what the text's reader sees.
THEOREM ScannersStayExact == MCSpec => []ScannersExact
<1>1. MCInit => ScannersExact
  <2>1. SUFFICES ASSUME MCInit PROVE ScannersExact
    OBVIOUS
  <2>2. CASE text = NoText
    <3>1. text[1] = "none"
      BY <2>2 DEF NoText
    <3> QED BY <3>1 DEF ScannersExact
  <2>3. ASSUME NEW kind, NEW S, NEW n, Reads(kind, S, n)
        PROVE  text[1] = kind /\ text[2] \in Seq(S)
    <3>1. PICK k \in 0 .. n : \E s \in [1 .. k -> S] : text = <<kind, s>>
      BY <2>3 DEF Reads
    <3>2. PICK s \in [1 .. k -> S] : text = <<kind, s>>
      BY <3>1
    <3>3. s \in Seq(S)
      OBVIOUS
    <3> QED BY <3>2, <3>3
  <2>4. CASE Reads("markdown", MarkdownLines, 5)
    <3>1. text[1] = "markdown" /\ FencesExact(text[2])
      BY <2>3, <2>4, MarkdownIsReadRight
    <3> QED BY <3>1 DEF ScannersExact
  <2>5. CASE Reads("module", Lexemes, 5)
    <3>1. text[1] = "module" /\ CommentsExact(text[2])
      BY <2>3, <2>5, CommentsAreReadRight
    <3> QED BY <3>1 DEF ScannersExact
  <2>6. CASE Reads("message", MessageLines, 4)
    <3>1. text[1] = "message" /\ CommitExact(text[2])
      BY <2>3, <2>6, MessagesAreReadRight
    <3> QED BY <3>1 DEF ScannersExact
  <2> QED BY <2>1, <2>2, <2>4, <2>5, <2>6 DEF MCInit
<1>2. ScannersExact /\ [MCNext]_<<vars, text>> => ScannersExact'
  BY DEF MCNext, ScannersExact
<1> QED BY <1>1, <1>2, PTL DEF MCSpec
=============================================================================
