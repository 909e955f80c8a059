---------------------------- MODULE ReleaseProofs ----------------------------
(* What a release rests on: a green run of scripts/test means what it says, and *)
(* the record, the serialized results and the digest say what the builds did,  *)
(* for any tests, tables, selections and options; the catalog of               *)
(* scripts/contract_matrix says what its six runs of the fixtures did; and the *)
(* manifest that tools/check_release_manifest accepts is what a writer has     *)
(* made of the catalogs there are now, whatever is edited, changed or stopped. *)
EXTENDS ContractMatrix, ReleaseManifest, SequenceTheorems, FiniteSetTheorems,
        WellFoundedInduction, TLAPS

\* The least-number principle.
LEMMA LeastElement ==
  ASSUME NEW T \in SUBSET Nat, T # {}
  PROVE  \E x \in T : \A y \in T : x <= y
<1>. DEFINE R == OpToRel(<, Nat)
<1>1. IsWellFoundedOn(R, Nat)
  BY NatLessThanWellFounded
<1>2. PICK x \in T : \A y \in T : ~(<<y, x>> \in R)
  <2>. HIDE DEF R
  <2>. QED
    BY <1>1, WFMin
<1>3. \A y \in T : ~(y < x)
  BY <1>2 DEF OpToRel
<1>. QED
  BY <1>3

\* An outcome of a build is neither a status that excuses a leg nor SKIP.
LEMMA OutcomeHeld ==
  ASSUME NEW got \in Outcomes PROVE got # Unsupported
BY SMT DEF Outcomes, Unsupported, Status, Exit

\* The count of a cross-check, after the shell has cut it down.
LEMMA ReturnedType == (Cardinality(Mismatches) % ReturnMod) \in Nat
<1>1. IsFiniteSet(Mismatches)
  BY FS_Subset, RunnerAssumption DEF Mismatches
<1>2. Cardinality(Mismatches) \in Nat
  BY <1>1, FS_CardinalityType
<1> DEFINE n == Cardinality(Mismatches)
<1> HIDE DEF n
<1>3. n \in Nat => n % ReturnMod \in Nat
  BY RunnerAssumption, SMT
<1> QED BY <1>2, <1>3 DEF n

\* The mode is the one of the build, or what was asked for where that is not known.
ModeOf(leg, b, got, mode) ==
  \/ mode = b.mode
  \/ /\ Driven(leg) /\ mode = opt.mode
     /\ b.said = Silent \/ got = Status("BUILD_FAIL")

\* What is known of a way to build, and of the mode that the record is given.
LEMMA BuildIs ==
  ASSUME TypeOK, NEW leg, NEW b \in BuildsOf(leg), NEW got
  PROVE  /\ b.mode \in Modes /\ b.said \in Modes \cup {Silent}
         /\ Effective(leg, b.said, got) \in Modes
         /\ ModeOf(leg, b, got, Effective(leg, b.said, got))
<1>1. opt.mode \in Modes
  BY RunnerAssumption, SMT DEF TypeOK
<1>2. CASE Driven(leg)
  <2>1. b.mode \in Modes /\ b.said \in Modes \cup {Silent} /\ b.said \in {b.mode, Silent}
    BY <1>2, DriverAssumption, SMT DEF BuildsOf
  <2> QED BY <1>1, <1>2, <2>1, SMT DEF Effective, ModeOf
<1>3. CASE ~Driven(leg)
  <2>1. b.mode = "runtime" /\ b.said = Silent
    BY <1>3, SMT DEF BuildsOf
  <2> QED BY <1>3, <2>1, SMT DEF Effective, ModeOf, Modes
<1> QED BY <1>2, <1>3

\* What was run stays run, and no build is judged anew: appending a build keeps
\* what is known of the earlier ones.
LEMMA AppendKeeps ==
  ASSUME TypeOK, NEW b \in Builds, ran' = Append(ran, b), UNCHANGED setup
  PROVE  /\ ran' \in Seq(Builds)
         /\ \A id, leg, got : RanAs(id, leg, got) => RanAs(id, leg, got)'
         /\ RanAs(b.id, b.leg, b.got)'
         /\ \A id : Held(id) => Held(id)'
         /\ \A id, leg : Passed(id, leg) => Passed(id, leg)'
         /\ (\A x \in DOMAIN ran : ~Missed(ran[x])) /\ ~Missed(b)
              => (\A x \in DOMAIN ran : ~Missed(ran[x]))'
<1>1. /\ ran \in Seq(Builds) /\ ran' \in Seq(Builds)
      /\ DOMAIN ran = 1 .. Len(ran) /\ Len(ran) \in Nat
      /\ DOMAIN ran' = 1 .. Len(ran) + 1
      /\ \A x \in DOMAIN ran : ran'[x] = ran[x]
      /\ ran'[Len(ran) + 1] = b
  BY SMT DEF TypeOK
<1>2. /\ DOMAIN ran \subseteq DOMAIN ran'
      /\ Len(ran) + 1 \in DOMAIN ran'
      /\ \A x \in DOMAIN ran' : x \in DOMAIN ran \/ x = Len(ran) + 1
  BY <1>1, SMT
<1>3. \A id, leg, got : RanAs(id, leg, got) => RanAs(id, leg, got)'
  BY <1>1, <1>2, Zenon DEF RanAs
<1>4. RanAs(b.id, b.leg, b.got)'
  BY <1>1, <1>2, Zenon DEF RanAs
<1>5. \A id, leg : NotHeld(id, leg)' <=> NotHeld(id, leg)
  BY Zenon DEF NotHeld, Requested, setup
<1>6. table' = table
  BY DEF setup
<1>7. \A id, leg : Passed(id, leg) => Passed(id, leg)'
  BY <1>3, <1>5, <1>6, Zenon DEF Passed
<1>8. \A id : Held(id) => Held(id)'
  BY <1>3, <1>5, <1>6, Zenon DEF Held
<1>9. \A c : Missed(c)' <=> Missed(c)
  BY <1>5, <1>6, Zenon DEF Missed
<1>10. ASSUME \A x \in DOMAIN ran : ~Missed(ran[x]), ~Missed(b)
       PROVE  (\A x \in DOMAIN ran : ~Missed(ran[x]))'
  <2>1. ASSUME NEW x \in DOMAIN ran' PROVE ~Missed(ran'[x])
    BY <1>1, <1>2, <1>10, <2>1, Zenon
  <2> QED BY <2>1, <1>9, Zenon
<1> QED BY <1>1, <1>3, <1>4, <1>7, <1>8, <1>10

\* A step that runs nothing keeps what is known of the builds.
LEMMA SameKeeps ==
  ASSUME UNCHANGED <<setup, ran>>
  PROVE  /\ \A id, leg, got : RanAs(id, leg, got)' <=> RanAs(id, leg, got)
         /\ \A id : Held(id)' <=> Held(id)
         /\ \A id, leg : Passed(id, leg)' <=> Passed(id, leg)
         /\ \A id, leg : NotHeld(id, leg)' <=> NotHeld(id, leg)
         /\ (\A x \in DOMAIN ran : ~Missed(ran[x]))' <=> (\A x \in DOMAIN ran : ~Missed(ran[x]))
<1>1. ran' = ran /\ opt' = opt /\ table' = table
  BY DEF setup
<1>2. \A id, leg, got : RanAs(id, leg, got)' <=> RanAs(id, leg, got)
  BY <1>1, Zenon DEF RanAs
<1>3. \A id, leg : NotHeld(id, leg)' <=> NotHeld(id, leg)
  BY <1>1, Zenon DEF NotHeld, Requested
<1>4. \A id, leg : Passed(id, leg)' <=> Passed(id, leg)
  BY <1>1, <1>2, <1>3, Zenon DEF Passed
<1>5. \A id : Held(id)' <=> Held(id)
  BY <1>1, <1>2, <1>3, Zenon DEF Held
<1>6. \A c : Missed(c)' <=> Missed(c)
  BY <1>1, <1>3, Zenon DEF Missed
<1>7. (\A x \in DOMAIN ran : ~Missed(ran[x]))' <=> (\A x \in DOMAIN ran : ~Missed(ran[x]))
  BY <1>1, <1>6, Zenon
<1> QED BY <1>2, <1>3, <1>4, <1>5, <1>7

LEMMA InitIInv == Init => IInv
<1> SUFFICES ASSUME NEW o \in Options, NEW t \in Tables, NEW list \in TargetLists,
                    Start(o, t, list)
             PROVE  IInv
  BY DEF Init
<1>1. /\ opt = o /\ table = t /\ selected = list /\ at = 1
      /\ stage = "pick" /\ ok = TRUE /\ fails = 0 /\ ran = <<>> /\ verdict = "running"
  BY DEF Start
<1>2. ran \in Seq(Builds) /\ DOMAIN ran = {}
  BY <1>1, SMT
<1>3. TypeOK
  BY <1>1, <1>2, SMT DEF TypeOK
<1>4. Where
  BY <1>1, SMT DEF Where
<1>5. \A x \in 1 .. at - 1 : x \in DOMAIN selected => Held(selected[x])
  BY <1>1, SMT
<1>6. Tally
  BY <1>1, <1>2, <1>5, Zenon DEF Tally
<1> QED BY <1>3, <1>4, <1>6 DEF IInv

LEMMA PickStep == ASSUME IInv, PickCase PROVE IInv'
<1>1. /\ stage = "pick" /\ stage' = "c" /\ ok' = TRUE /\ More /\ Target \in Cases
      /\ at' = at /\ fails' = fails /\ verdict' = verdict /\ ran' = ran
      /\ opt' = opt /\ table' = table /\ selected' = selected
  BY DEF PickCase, setup, files
<1>2. TypeOK'
  BY <1>1, SMT DEF IInv, TypeOK
<1>3. Where'
  BY <1>1, SMT DEF IInv, Where, More, Target
<1>4. Tally'
  BY <1>1, SameKeeps, Zenon DEF IInv, Tally, setup
<1> QED BY <1>2, <1>3, <1>4 DEF IInv

\* The tests behind the loop, when the loop goes on by one.
LEMMA Advance ==
  ASSUME TypeOK, at' = at + 1, selected' = selected,
         \A id : Held(id) => Held(id)',
         \A x \in 1 .. at - 1 : x \in DOMAIN selected => Held(selected[x]),
         NEW t, t = Target, Held(t)'
  PROVE  (\A x \in 1 .. at - 1 : x \in DOMAIN selected => Held(selected[x]))'
<1> SUFFICES ASSUME NEW x \in 1 .. at' - 1, x \in DOMAIN selected
             PROVE  Held(selected[x])'
  OBVIOUS
<1>1. at \in Nat
  BY SMT DEF TypeOK
<1>2. x \in 1 .. at - 1 \/ x = at
  BY <1>1, SMT
<1>3. CASE x \in 1 .. at - 1
  <2>1. Held(selected[x])
    BY <1>3, Zenon
  <2> QED BY <2>1, Zenon
<1>4. CASE x = at
  <2>1. selected'[x] = t
    BY <1>4, Zenon DEF Target
  <2> QED BY <2>1, Zenon
<1> QED BY <1>2, <1>3, <1>4

LEMMA CompileFailStep == ASSUME IInv, RunCompileFail PROVE IInv'
<1> PICK t : t = Target
  OBVIOUS
<1> PICK got \in {"rejected", "accepted"} :
      /\ ran' = Append(ran, [id |-> Target, leg |-> "reject", mode |-> "runtime",
                             said |-> Silent, got |-> Status(got)])
      /\ Count(IF got = "rejected" THEN 0 ELSE 1)
  BY Zenon DEF RunCompileFail
<1> PICK b : b = [id |-> t, leg |-> "reject", mode |-> "runtime", said |-> Silent,
                  got |-> Status(got)]
  OBVIOUS
<1>1. /\ stage = "pick" /\ stage' = "pick" /\ More /\ t \in Rejects
      /\ at' = at + 1 /\ ok' = ok /\ verdict' = verdict
      /\ fails' = fails + (IF got = "rejected" THEN 0 ELSE 1)
      /\ opt' = opt /\ table' = table /\ selected' = selected
      /\ ran' = Append(ran, b)
  BY DEF RunCompileFail, setup, files, Count
<1>2. b \in Builds /\ b.id = t /\ b.leg = "reject" /\ b.got = Status(got)
  BY <1>1, SMT DEF Builds, Modes
<1>3. /\ ran' \in Seq(Builds)
      /\ RanAs(t, "reject", Status(got))'
      /\ \A id : Held(id) => Held(id)'
      /\ (\A x \in DOMAIN ran : ~Missed(ran[x])) /\ ~Missed(b)
              => (\A x \in DOMAIN ran : ~Missed(ran[x]))'
  <2>1. TypeOK /\ UNCHANGED setup
    BY <1>1 DEF IInv, setup
  <2> QED BY <1>1, <1>2, <2>1, AppendKeeps, Zenon
<1>4. at \in Nat /\ fails \in Nat
  BY SMT DEF IInv, TypeOK
<1>5. TypeOK'
  BY <1>1, <1>3, <1>4, SMT DEF IInv, TypeOK
<1>6. Where'
  BY <1>1, SMT DEF IInv, Where, More
<1>7. ASSUME fails' = 0 PROVE fails = 0 /\ got = "rejected"
  BY <1>1, <1>4, <1>7, SMT
<1>8. ASSUME fails' = 0, verdict # "killed"
      PROVE  /\ (\A x \in 1 .. at - 1 : x \in DOMAIN selected => Held(selected[x]))'
             /\ (\A x \in DOMAIN ran : ~Missed(ran[x]))'
  <2>1. /\ \A x \in 1 .. at - 1 : x \in DOMAIN selected => Held(selected[x])
        /\ \A x \in DOMAIN ran : ~Missed(ran[x])
    BY <1>1, <1>7, <1>8, Zenon DEF IInv, Tally
  <2>2. Held(t)'
    BY <1>1, <1>3, <1>7, <1>8, Zenon DEF Held
  <2>3. ~Missed(b)
    BY <1>2, <1>7, <1>8, Zenon DEF Missed
  <2>4. TypeOK /\ t = Target
    BY DEF IInv
  <2> QED BY <1>1, <1>3, <2>1, <2>2, <2>3, <2>4, Advance
<1>9. Tally'
  BY <1>1, <1>8, Zenon DEF Tally
<1> QED BY <1>5, <1>6, <1>9 DEF IInv

\* What a leg leaves behind, however it came to its end.
LEMMA LegDone ==
  ASSUME IInv, TypeOK', NEW leg \in Legs, NEW t, t = Target,
         stage = leg, stage' = Following(leg),
         UNCHANGED <<at, selected, fails, verdict>>,
         ok' => ok, ok' => Passed(t, leg)',
         \A id : Held(id) => Held(id)',
         \A id, l : Passed(id, l) => Passed(id, l)',
         ok' /\ (\A x \in DOMAIN ran : ~Missed(ran[x]))
           => (\A x \in DOMAIN ran : ~Missed(ran[x]))'
  PROVE  IInv'
<1>1. /\ (leg = "c" /\ stage' = "vm") \/ (leg = "vm" /\ stage' = "end")
      /\ Target' = t /\ verdict = "running"
  <2>1. leg = "c" \/ leg = "vm"
    BY DEF Legs
  <2>2. (leg = "c" => stage' = "vm") /\ (leg = "vm" => stage' = "end")
    BY SMT DEF Following
  <2>3. Target' = t
    BY Zenon DEF Target
  <2>4. verdict = "running"
    BY <2>1, Zenon DEF IInv, Where
  <2> QED BY <2>1, <2>2, <2>3, <2>4
<1>2. Where'
  BY <1>1, SMT DEF IInv, Where, More, Target, Legs
<1>3. ASSUME fails' = 0
      PROVE  /\ (\A x \in 1 .. at - 1 : x \in DOMAIN selected => Held(selected[x]))'
             /\ ok' => (\A x \in DOMAIN ran : ~Missed(ran[x]))'
  <2>1. \A x \in 1 .. at - 1 : x \in DOMAIN selected => Held(selected[x])
    BY <1>1, <1>3, Zenon DEF IInv, Tally
  <2>2. ok' => \A x \in DOMAIN ran : ~Missed(ran[x])
    BY <1>1, <1>3, Zenon DEF IInv, Tally
  <2>3. ASSUME NEW x \in 1 .. at - 1, x \in DOMAIN selected PROVE Held(selected[x])'
    <3>1. Held(selected[x])
      BY <2>1, <2>3, Zenon
    <3> QED BY <3>1, Zenon
  <2> QED BY <2>2, <2>3, Zenon
<1>4. ok' => Passed(t, "c")'
  <2>1. CASE leg = "c"
    BY <2>1, Zenon
  <2>2. CASE leg = "vm"
    <3>1. ok' => Passed(t, "c")
      BY <1>1, <2>2, Zenon DEF IInv, Tally
    <3> QED BY <3>1, Zenon
  <2> QED BY <1>1, <2>1, <2>2
<1>5. stage' = "end" /\ ok' => Passed(t, "vm")'
  BY <1>1, Zenon
<1>6. stage' \in {"vm", "end"}
  BY <1>1, Zenon
<1>7. (Passed(Target, "c") <=> Passed(t, "c"))' /\ (Passed(Target, "vm") <=> Passed(t, "vm"))'
  BY <1>1, Zenon
<1>8. Tally'
  BY <1>3, <1>4, <1>5, <1>6, <1>7, Zenon DEF Tally
<1> QED BY <1>2, <1>8 DEF IInv

LEMMA RunLegStep == ASSUME IInv, NEW leg \in Legs, RunLeg(leg) PROVE IInv'
<1> PICK t : t = Target
  OBVIOUS
<1> PICK got \in Outcomes, way \in BuildsOf(leg) :
      /\ ran' = Append(ran, [id |-> Target, leg |-> leg, mode |-> way.mode,
                             said |-> way.said, got |-> got])
      /\ Log(leg, Effective(leg, way.said, got), got)
  BY Zenon DEF RunLeg
<1> PICK b : b = [id |-> t, leg |-> leg, mode |-> way.mode, said |-> way.said,
                  got |-> got]
  OBVIOUS
<1>1. /\ stage = leg /\ stage' = Following(leg)
      /\ at' = at /\ selected' = selected /\ fails' = fails /\ verdict' = verdict
      /\ opt' = opt /\ table' = table
      /\ ran' = Append(ran, b)
  BY DEF RunLeg, setup
<1>2. ok' <=> ok /\ (got = table[t][leg] \/ table[t][leg] = Skip)
  BY OutcomeHeld, Zenon DEF Log, Judge, Excused
<1>3. t \in Cases /\ t \notin Rejects
  BY <1>1, RunnerAssumption, SMT DEF IInv, Where, Legs
<1>4. way.mode \in Modes /\ way.said \in Modes \cup {Silent}
  BY BuildIs, SMT DEF IInv
<1>5. b \in Builds /\ b.id = t /\ b.leg = leg /\ b.got = got
  BY <1>3, <1>4, SMT DEF Builds, Legs
<1>6. /\ ran' \in Seq(Builds)
      /\ RanAs(t, leg, got)'
      /\ \A id : Held(id) => Held(id)'
      /\ \A id, l : Passed(id, l) => Passed(id, l)'
      /\ (\A x \in DOMAIN ran : ~Missed(ran[x])) /\ ~Missed(b)
              => (\A x \in DOMAIN ran : ~Missed(ran[x]))'
  <2>1. TypeOK /\ UNCHANGED setup
    BY <1>1 DEF IInv, setup
  <2> QED BY <1>1, <1>5, <2>1, AppendKeeps, Zenon
<1>7. ok' => Passed(t, leg)'
  <2>1. table' = table
    BY <1>1
  <2>2. CASE table[t][leg] = Skip
    BY <2>1, <2>2, Zenon DEF Passed, NotHeld
  <2>3. CASE got = table[t][leg]
    BY <1>6, <2>1, <2>3, Zenon DEF Passed
  <2> QED BY <1>2, <2>2, <2>3
<1>8. ok' => ~Missed(b)
  <2>1. leg # "reject"
    BY DEF Legs
  <2>2. b.leg # "reject"
    BY <1>5, <2>1
  <2>3. table[t][leg] = Skip => NotHeld(t, leg)
    BY Zenon DEF NotHeld
  <2>4. Missed(b) => ~NotHeld(b.id, b.leg) /\ b.got # table[b.id][b.leg]
    BY <2>2, Zenon DEF Missed
  <2>5. Missed(b) => ~NotHeld(t, leg) /\ got # table[t][leg]
    BY <1>5, <2>4
  <2> QED BY <1>2, <2>3, <2>5, Zenon
<1>9. TypeOK'
  <2>1. stage' \in {"vm", "end"}
    BY <1>1, SMT DEF Following
  <2>2. ok' \in BOOLEAN
    BY Zenon DEF Log, Judge
  <2> QED BY <1>1, <1>6, <2>1, <2>2, SMT DEF IInv, TypeOK
<1> QED BY <1>1, <1>2, <1>6, <1>7, <1>8, <1>9, LegDone, Zenon

LEMMA IdleLegStep ==
  ASSUME IInv, NEW leg \in Legs, PassOver(leg) \/ (leg = "vm" /\ VmUnsupported)
  PROVE  IInv'
<1> PICK t : t = Target
  OBVIOUS
<1>1. /\ stage = leg /\ stage' = Following(leg)
      /\ at' = at /\ selected' = selected /\ fails' = fails /\ verdict' = verdict
      /\ opt' = opt /\ table' = table /\ ran' = ran
  BY SMT DEF PassOver, VmUnsupported, setup, files, Following
<1>2. ok' <=> ok
  <2>1. CASE PassOver(leg)
    BY <2>1 DEF PassOver
  <2>2. CASE VmUnsupported
    BY <2>2, Zenon DEF VmUnsupported, Log, Judge, Excused
  <2> QED BY <2>1, <2>2
<1>3. NotHeld(t, leg)'
  BY <1>1, Zenon DEF PassOver, VmUnsupported, NotHeld, Requested
<1>4. Passed(t, leg)'
  BY <1>3, Zenon DEF Passed
<1>5. UNCHANGED <<setup, ran>>
  BY <1>1 DEF setup
<1>6. TypeOK'
  <2>1. stage' \in {"vm", "end"}
    BY <1>1, SMT DEF Following
  <2>2. ok' \in BOOLEAN
    <3>1. CASE PassOver(leg)
      BY <3>1 DEF PassOver, IInv, TypeOK
    <3>2. CASE VmUnsupported
      BY <3>2, Zenon DEF VmUnsupported, Log, Judge
    <3> QED BY <3>1, <3>2
  <2> QED BY <1>1, <2>1, <2>2, SMT DEF IInv, TypeOK
<1> QED BY <1>1, <1>2, <1>4, <1>5, <1>6, SameKeeps, LegDone, Zenon

LEMMA EndStep == ASSUME IInv, EndOne PROVE IInv'
<1> PICK t : t = Target
  OBVIOUS
<1>1. /\ stage = "end" /\ stage' = "pick" /\ at' = at + 1 /\ ok' = ok
      /\ fails' = fails + (IF ok THEN 0 ELSE 1) /\ verdict' = verdict
      /\ opt' = opt /\ table' = table /\ selected' = selected /\ ran' = ran
  BY DEF EndOne, Count, setup, files
<1>2. fails \in Nat /\ ok \in BOOLEAN /\ verdict = "running" /\ t \in Cases
  BY <1>1, SMT DEF IInv, TypeOK, Where
<1>3. TypeOK'
  BY <1>1, <1>2, SMT DEF IInv, TypeOK
<1>4. Where'
  BY <1>1, <1>2, SMT DEF Where
<1>5. ASSUME fails' = 0 PROVE fails = 0 /\ ok
  BY <1>1, <1>2, <1>5, SMT
<1>6. UNCHANGED <<setup, ran>>
  BY <1>1 DEF setup
<1>7. ASSUME fails' = 0
      PROVE  /\ (\A x \in 1 .. at - 1 : x \in DOMAIN selected => Held(selected[x]))'
             /\ (\A x \in DOMAIN ran : ~Missed(ran[x]))'
  <2>1. /\ \A x \in 1 .. at - 1 : x \in DOMAIN selected => Held(selected[x])
        /\ \A x \in DOMAIN ran : ~Missed(ran[x])
    BY <1>1, <1>2, <1>5, <1>7, Zenon DEF IInv, Tally
  <2>2. Passed(t, "c") /\ Passed(t, "vm")
    BY <1>1, <1>2, <1>5, <1>7, Zenon DEF IInv, Tally
  <2>3. t \notin Rejects
    BY <1>2, RunnerAssumption, SMT
  <2>4. Held(t)
    BY <2>2, <2>3, Zenon DEF Held, Passed, Legs
  <2>5. /\ Held(t)' /\ \A id : Held(id) => Held(id)'
        /\ (\A x \in DOMAIN ran : ~Missed(ran[x]))'
    BY <1>6, <2>1, <2>4, SameKeeps, Zenon
  <2>6. TypeOK
    BY DEF IInv
  <2> QED BY <1>1, <2>1, <2>5, <2>6, Advance
<1>8. Tally'
  BY <1>1, <1>7, Zenon DEF Tally
<1> QED BY <1>3, <1>4, <1>8 DEF IInv

LEMMA CrossStep == ASSUME IInv, CrossCheck PROVE IInv'
<1>1. /\ stage = "pick" /\ stage' = "report" /\ ~More
      /\ at' = at /\ ok' = ok /\ verdict' = verdict
      /\ opt' = opt /\ table' = table /\ selected' = selected /\ ran' = ran
  BY DEF CrossCheck, setup
<1>2. fails' \in Nat /\ (fails' = 0 => fails = 0)
  <2> DEFINE k == Cardinality(Mismatches) % ReturnMod
  <2>1. k \in Nat
    BY ReturnedType
  <2>2. fails' = fails + k \/ fails' = fails
    BY DEF CrossCheck
  <2> HIDE DEF k
  <2> QED BY <2>1, <2>2, SMT DEF IInv, TypeOK
<1>3. TypeOK'
  BY <1>1, <1>2, SMT DEF IInv, TypeOK
<1>4. Where'
  BY <1>1, SMT DEF IInv, Where, More
<1>5. UNCHANGED <<setup, ran>>
  BY <1>1 DEF setup
<1>6. Tally'
  BY <1>1, <1>2, <1>5, SameKeeps, Zenon DEF IInv, Tally
<1> QED BY <1>3, <1>4, <1>6 DEF IInv

LEMMA ReportStep == ASSUME IInv, Report \/ Kill \/ UNCHANGED vars PROVE IInv'
<1>1. /\ at' = at /\ ok' = ok /\ fails' = fails
      /\ opt' = opt /\ table' = table /\ selected' = selected /\ ran' = ran
  BY DEF Report, Kill, vars, setup, files
<1>2. UNCHANGED <<setup, ran>>
  BY <1>1 DEF setup
<1>3. CASE UNCHANGED vars
  <2>1. stage' = stage /\ verdict' = verdict
    BY <1>3 DEF vars
  <2>2. TypeOK' /\ Where'
    BY <1>1, <2>1, SMT DEF IInv, TypeOK, Where, More, Target
  <2>3. (Passed(Target, "c") <=> Passed(Target, "c")')
        /\ (Passed(Target, "vm") <=> Passed(Target, "vm")')
    BY <1>1, Zenon DEF Passed, NotHeld, Requested, RanAs, Target
  <2>4. Tally'
    BY <1>1, <1>2, <2>1, <2>3, SameKeeps, Zenon DEF IInv, Tally
  <2> QED BY <2>2, <2>4 DEF IInv
<1>4. CASE Kill
  <2>1. stage' = "done" /\ verdict' = "killed"
    BY <1>4 DEF Kill
  <2>2. TypeOK' /\ Where'
    BY <1>1, <2>1, SMT DEF IInv, TypeOK, Where
  <2>3. Tally'
    BY <2>1, Zenon DEF Tally
  <2> QED BY <2>2, <2>3 DEF IInv
<1>5. CASE Report
  <2>1. /\ stage = "report" /\ stage' = "done" /\ verdict = "running"
        /\ verdict' = (IF fails > 0 THEN "red" ELSE "green") /\ ~More
    BY <1>5, SMT DEF Report, IInv, Where
  <2>2. TypeOK' /\ Where'
    BY <1>1, <2>1, SMT DEF IInv, TypeOK, Where, More
  <2>3. Tally'
    BY <1>1, <1>2, <2>1, SameKeeps, Zenon DEF IInv, Tally
  <2> QED BY <2>2, <2>3 DEF IInv
<1> QED BY <1>3, <1>4, <1>5

\* Every step of the script keeps the tally true.
LEMMA NextIInv == ASSUME IInv, [Next]_vars PROVE IInv'
<1>1. CASE PickCase \/ RunCompileFail
  BY <1>1, PickStep, CompileFailStep
<1>2. ASSUME NEW leg \in Legs, RunLeg(leg) \/ PassOver(leg) PROVE IInv'
  BY <1>2, RunLegStep, IdleLegStep
<1>3. CASE VmUnsupported
  BY <1>3, IdleLegStep DEF Legs
<1>4. CASE EndOne \/ CrossCheck
  BY <1>4, EndStep, CrossStep
<1>5. CASE Report \/ Kill \/ UNCHANGED vars
  BY <1>5, ReportStep
<1> QED BY <1>1, <1>2, <1>3, <1>4, <1>5 DEF Next

\* Init and every step of the script keep the tally true.
THEOREM RunnerInvariant == Spec => []IInv
<1>1. IInv /\ [Next]_vars => IInv'
  BY NextIInv
<1> QED BY InitIInv, <1>1, PTL DEF Spec

-----------------------------------------------------------------------------
(* The books: what the files of a run, its record and its digest say of the  *)
(* builds it made.                                                           *)

\* A build that is appended is found again, and so is a miss.
LEMMA AppendFinds ==
  ASSUME TypeOK, NEW b \in Builds, ran' = Append(ran, b), UNCHANGED setup
  PROVE  /\ (\E x \in DOMAIN ran : Missed(ran[x])) => (\E x \in DOMAIN ran : Missed(ran[x]))'
         /\ Missed(b) => (\E x \in DOMAIN ran : Missed(ran[x]))'
         /\ \A r : BuiltAs(r) => BuiltAs(r)'
         /\ \A r : RowOf(r, b) => BuiltAs(r)'
         /\ RanAsked /\ IsSelected(b.id) /\ (b.leg = "reject" => b.id \in Rejects)
              /\ (b.leg # "reject" => Requested(b.leg))
              /\ (b.leg = "vm" => opt.mode = "runtime")
            => RanAsked'
<1>1. /\ ran \in Seq(Builds) /\ ran' \in Seq(Builds)
      /\ DOMAIN ran = 1 .. Len(ran) /\ Len(ran) \in Nat
      /\ DOMAIN ran' = 1 .. Len(ran) + 1
      /\ \A x \in DOMAIN ran : ran'[x] = ran[x]
      /\ ran'[Len(ran) + 1] = b
  BY SMT DEF TypeOK
<1>2. /\ DOMAIN ran \subseteq DOMAIN ran'
      /\ Len(ran) + 1 \in DOMAIN ran'
      /\ \A x \in DOMAIN ran' : x \in DOMAIN ran \/ x = Len(ran) + 1
  BY <1>1, SMT
<1>3. opt' = opt /\ table' = table /\ selected' = selected
  BY DEF setup
<1>4. \A c : Missed(c)' <=> Missed(c)
  BY <1>3, Zenon DEF Missed, NotHeld, Requested
<1>5. (\E x \in DOMAIN ran : Missed(ran[x])) => (\E x \in DOMAIN ran : Missed(ran[x]))'
  BY <1>1, <1>2, <1>4, Zenon
<1>6. Missed(b) => (\E x \in DOMAIN ran : Missed(ran[x]))'
  BY <1>1, <1>2, <1>4, Zenon
<1>7. \A r : BuiltAs(r) => BuiltAs(r)'
  BY <1>1, <1>2, <1>3, Zenon DEF BuiltAs, RowOf, Unnamed, Driven
<1>8. \A r : RowOf(r, b) => BuiltAs(r)'
  BY <1>1, <1>2, <1>3, Zenon DEF BuiltAs, RowOf, Unnamed, Driven
<1>9. ASSUME RanAsked, IsSelected(b.id), b.leg = "reject" => b.id \in Rejects,
             b.leg # "reject" => Requested(b.leg), b.leg = "vm" => opt.mode = "runtime"
      PROVE  RanAsked'
  <2>1. ASSUME NEW x \in DOMAIN ran'
        PROVE  /\ IsSelected(ran'[x].id)
               /\ ran'[x].leg = "reject" => ran'[x].id \in Rejects
               /\ ran'[x].leg # "reject" => Requested(ran'[x].leg)
               /\ ran'[x].leg = "vm" => opt.mode = "runtime"
    <3>1. CASE x \in DOMAIN ran
      BY <1>1, <1>9, <3>1, Zenon DEF RanAsked
    <3>2. CASE x = Len(ran) + 1
      BY <1>1, <1>9, <3>2, Zenon
    <3> QED BY <1>2, <3>1, <3>2
  <2>2. \A id : IsSelected(id)' <=> IsSelected(id)
    BY <1>3, Zenon DEF IsSelected
  <2>3. \A leg : Requested(leg)' <=> Requested(leg)
    BY <1>3, Zenon DEF Requested
  <2> QED BY <1>3, <2>1, <2>2, <2>3, Zenon DEF RanAsked
<1> QED BY <1>5, <1>6, <1>7, <1>8, <1>9

\* A step that writes nothing keeps what is known of the files.
LEMMA QuietKeeps ==
  ASSUME Books, UNCHANGED <<setup, record, serialized, ran>>
  PROVE  /\ FilesOK' /\ RanAsked' /\ RecordFits' /\ SerializedFits'
         /\ \A id, leg : Recorded(id, leg) => Recorded(id, leg)'
         /\ (\E x \in DOMAIN ran : Missed(ran[x]))' <=> (\E x \in DOMAIN ran : Missed(ran[x]))
         /\ Cause' <=> Cause
         /\ BothOk' = BothOk
         /\ \A id : Compared(id)' <=> Compared(id)
<1>1. /\ opt' = opt /\ table' = table /\ selected' = selected
      /\ record' = record /\ serialized' = serialized /\ ran' = ran
  BY DEF setup
<1>2. FilesOK'
  BY <1>1 DEF Books, FilesOK
<1>3. \A id : IsSelected(id)' <=> IsSelected(id)
  BY <1>1, Zenon DEF IsSelected
<1>4. \A leg : Requested(leg)' <=> Requested(leg)
  BY <1>1, Zenon DEF Requested
<1>5. RanAsked'
  <2>1. ASSUME NEW x \in DOMAIN ran'
        PROVE  /\ IsSelected(ran'[x].id)
               /\ ran'[x].leg = "reject" => ran'[x].id \in Rejects
               /\ ran'[x].leg # "reject" => Requested(ran'[x].leg)
               /\ ran'[x].leg = "vm" => opt.mode = "runtime"
    BY <1>1, <2>1, SMT DEF Books, RanAsked
  <2> QED BY <1>1, <1>3, <1>4, <2>1, Zenon DEF RanAsked
<1>6. \A r : BuiltAs(r)' <=> BuiltAs(r)
  BY <1>1, Zenon DEF BuiltAs, RowOf, Unnamed, Driven
<1>7. RecordFits'
  BY <1>1, <1>3, <1>4, <1>6, Zenon DEF Books, RecordFits
<1>8. SerializedFits'
  BY <1>1, Zenon DEF Books, SerializedFits, KindOf
<1>9. \A id, leg : Recorded(id, leg) => Recorded(id, leg)'
  BY <1>1, <1>4, Zenon DEF Recorded
<1>10. \A c : Missed(c)' <=> Missed(c)
  BY <1>1, Zenon DEF Missed, NotHeld, Requested
<1>11. (\E x \in DOMAIN ran : Missed(ran[x]))' <=> (\E x \in DOMAIN ran : Missed(ran[x]))
  BY <1>1, <1>10, Zenon
<1>12. Cause' <=> Cause
  BY <1>1, <1>11, Zenon DEF Cause
<1>13. BothOk' = BothOk
  BY <1>1, Zenon DEF BothOk, OkIds
<1>14. \A id : Compared(id)' <=> Compared(id)
  <2>1. \A id, leg : FirstKind(id, leg)' = FirstKind(id, leg)
    BY <1>1, SMT DEF FirstKind, RowsOf
  <2> QED BY <2>1, Zenon DEF Compared
<1> QED BY <1>2, <1>5, <1>7, <1>8, <1>9, <1>11, <1>12, <1>13, <1>14, Zenon

\* A row that is appended stands for its leg, and the rows before it stay.
LEMMA LogKeeps ==
  ASSUME TypeOK, Books, UNCHANGED setup,
         NEW leg \in Legs, NEW mode \in Modes, NEW got \in Outcomes \cup {Unsupported},
         NEW t \in Cases, t = Target, IsSelected(t), Requested(leg),
         Log(leg, mode, got),
         NEW row, row = [id |-> t, leg |-> leg, mode |-> mode,
                         want |-> table[t][leg], got |-> got],
         \A r : BuiltAs(r) => BuiltAs(r)',
         IF got = Unsupported
         THEN leg = "vm" /\ mode = opt.mode /\ opt.mode # "runtime"
         ELSE BuiltAs(row)'
  PROVE  /\ FilesOK' /\ RecordFits' /\ SerializedFits'
         /\ \A id, l : Recorded(id, l) => Recorded(id, l)'
         /\ Recorded(t, leg)'
<1>1. opt' = opt /\ table' = table /\ selected' = selected
  BY DEF setup
<1>2. row \in RecordRows /\ row.id = t /\ row.leg = leg /\ row.mode = mode
      /\ row.want = table[t][leg] /\ row.got = got
  <2>1. table \in [Cases -> [Legs -> {Exit(n) : n \in Codes} \cup {Skip}]]
    BY RunnerAssumption DEF TypeOK
  <2>2. table[t][leg] \in {Exit(n) : n \in Codes} \cup {Skip}
    BY <2>1
  <2> QED BY <2>2, SMT DEF RecordRows
<1>3. record' = Append(record, row)
  BY Zenon DEF Log
<1>4. /\ record \in Seq(RecordRows) /\ record' \in Seq(RecordRows)
      /\ DOMAIN record = 1 .. Len(record) /\ Len(record) \in Nat
      /\ DOMAIN record' = 1 .. Len(record) + 1 /\ Len(record') = Len(record) + 1
      /\ \A x \in DOMAIN record : record'[x] = record[x]
      /\ record'[Len(record) + 1] = row
  <2>1. record \in Seq(RecordRows)
    BY DEF Books, FilesOK
  <2> QED BY <1>2, <1>3, <2>1, SMT
<1>5. /\ DOMAIN record \subseteq DOMAIN record'
      /\ Len(record) + 1 \in DOMAIN record'
      /\ \A x \in DOMAIN record' : x \in DOMAIN record \/ x = Len(record) + 1
  BY <1>4, SMT
<1>6. \A id : IsSelected(id)' <=> IsSelected(id)
  BY <1>1, Zenon DEF IsSelected
<1>7. \A l : Requested(l)' <=> Requested(l)
  BY <1>1, Zenon DEF Requested
<1>8. RecordFits'
  <2>1. ASSUME NEW x \in DOMAIN record
        PROVE  /\ IsSelected(record[x].id)
               /\ Requested(record[x].leg)
               /\ record[x].want = table[record[x].id][record[x].leg]
               /\ record[x].got = Unsupported =>
                    record[x].leg = "vm" /\ record[x].mode = opt.mode /\ opt.mode # "runtime"
               /\ record[x].got # Unsupported => BuiltAs(record[x])
    BY <2>1, Zenon DEF Books, RecordFits
  <2>2. /\ IsSelected(row.id)
        /\ Requested(row.leg)
        /\ row.want = table[row.id][row.leg]
        /\ row.got = Unsupported =>
             row.leg = "vm" /\ row.mode = opt.mode /\ opt.mode # "runtime"
        /\ row.got # Unsupported => BuiltAs(row)'
    BY <1>2, Zenon
  <2>3. ASSUME NEW x \in DOMAIN record'
        PROVE  /\ IsSelected(record'[x].id)
               /\ Requested(record'[x].leg)
               /\ record'[x].want = table[record'[x].id][record'[x].leg]
               /\ record'[x].got = Unsupported =>
                    record'[x].leg = "vm" /\ record'[x].mode = opt.mode /\ opt.mode # "runtime"
               /\ record'[x].got # Unsupported => BuiltAs(record[x])'
    <3>1. CASE x \in DOMAIN record
      <4> PICK r : r = record[x]
        OBVIOUS
      <4>1. record'[x] = r
        BY <1>4, <3>1
      <4>2. /\ IsSelected(r.id)
            /\ Requested(r.leg)
            /\ r.want = table[r.id][r.leg]
            /\ r.got = Unsupported =>
                 r.leg = "vm" /\ r.mode = opt.mode /\ opt.mode # "runtime"
            /\ r.got # Unsupported => BuiltAs(r)
        BY <2>1, <3>1, Zenon
      <4>3. BuiltAs(r)' => BuiltAs(record[x])'
        BY <4>1, Zenon DEF BuiltAs, RowOf, Unnamed, Driven
      <4> QED BY <4>1, <4>2, <4>3, Zenon
    <3>2. CASE x = Len(record) + 1
      <4>1. record'[x] = row
        BY <1>4, <3>2
      <4>2. BuiltAs(row)' => BuiltAs(record[x])'
        BY <4>1, Zenon DEF BuiltAs, RowOf, Unnamed, Driven
      <4> QED BY <2>2, <4>1, <4>2, Zenon
    <3> QED BY <1>5, <3>1, <3>2
  <2> QED BY <1>1, <1>6, <1>7, <2>3, Zenon DEF RecordFits
<1>9. \A id, l : Recorded(id, l) => Recorded(id, l)'
  BY <1>4, <1>5, <1>7, Zenon DEF Recorded
<1>10. Recorded(t, leg)'
  BY <1>2, <1>4, <1>5, Zenon DEF Recorded
<1>11. \A r : KindOf(r)' = KindOf(r)
  BY <1>1, Zenon DEF KindOf
<1>12. CASE opt.serialize
  <2>1. serialized' = Append(serialized, [id |-> t, leg |-> leg, kind |-> Kind(leg, got, table[t][leg])])
    BY <1>12, Zenon DEF Log
  <2> PICK e : e = [id |-> t, leg |-> leg, kind |-> Kind(leg, got, table[t][leg])]
    OBVIOUS
  <2>2. Kind(leg, got, table[t][leg]) = KindOf(row)
    BY <1>2, SMT DEF Kind, KindOf
  <2>3. Kind(leg, got, table[t][leg]) \in {"ok", "err", "skip"}
    BY SMT DEF Kind
  <2>4. e \in SerializedRows /\ e.id = row.id /\ e.leg = row.leg /\ e.kind = KindOf(row)
    BY <1>2, <2>2, <2>3, SMT DEF SerializedRows
  <2>5. /\ Len(serialized) = Len(record)
        /\ \A x \in DOMAIN serialized :
             /\ serialized[x].id = record[x].id /\ serialized[x].leg = record[x].leg
             /\ serialized[x].kind = KindOf(record[x])
    BY <1>12, Zenon DEF Books, SerializedFits
  <2>6. /\ serialized \in Seq(SerializedRows) /\ serialized' \in Seq(SerializedRows)
        /\ DOMAIN serialized = DOMAIN record
        /\ DOMAIN serialized' = DOMAIN record' /\ Len(serialized') = Len(record')
        /\ \A x \in DOMAIN record : serialized'[x] = serialized[x]
        /\ serialized'[Len(record) + 1] = e
    <3>1. serialized \in Seq(SerializedRows)
      BY DEF Books, FilesOK
    <3>2. serialized' = Append(serialized, e)
      BY <2>1
    <3> QED BY <1>4, <2>4, <2>5, <3>1, <3>2, SMT
  <2>7. ASSUME NEW x \in DOMAIN serialized'
        PROVE  /\ serialized'[x].id = record'[x].id /\ serialized'[x].leg = record'[x].leg
               /\ serialized'[x].kind = KindOf(record[x])'
    <3>1. CASE x \in DOMAIN record
      BY <1>4, <1>11, <2>5, <2>6, <3>1, Zenon DEF KindOf
    <3>2. CASE x = Len(record) + 1
      BY <1>4, <1>11, <2>4, <2>6, <3>2, Zenon DEF KindOf
    <3> QED BY <1>5, <2>6, <3>1, <3>2
  <2>8. SerializedFits'
    BY <2>6, <2>7, Zenon DEF SerializedFits
  <2>9. FilesOK'
    BY <1>4, <2>6 DEF FilesOK
  <2> QED BY <1>8, <1>9, <1>10, <2>8, <2>9
<1>13. CASE ~opt.serialize
  <2>1. serialized' = serialized
    BY <1>13, Zenon DEF Log
  <2>2. SerializedFits' /\ FilesOK'
    BY <1>1, <1>4, <1>13, <2>1, Zenon DEF SerializedFits, FilesOK, Books
  <2> QED BY <1>8, <1>9, <1>10, <2>2
<1> QED BY <1>12, <1>13

\* The rows of the tests behind the loop, as long as the loop stays where it is.
LEMMA CoversStay ==
  ASSUME RecordCovers, at' = at, selected' = selected,
         \A id, l : Recorded(id, l) => Recorded(id, l)'
  PROVE  /\ (\A x \in 1 .. at - 1 : x \in DOMAIN selected /\ selected[x] \in Cases =>
                \A leg \in Legs : Recorded(selected[x], leg))'
         /\ \A l : Recorded(Target, l) => Recorded(Target, l)'
<1>1. ASSUME NEW x \in 1 .. at - 1, x \in DOMAIN selected, selected[x] \in Cases,
             NEW leg \in Legs
      PROVE  Recorded(selected[x], leg)'
  <2>1. Recorded(selected[x], leg)
    BY <1>1, Zenon DEF RecordCovers
  <2> QED BY <2>1, Zenon
<1>2. ASSUME NEW l, Recorded(Target, l) PROVE Recorded(Target, l)'
  <2> PICK t : t = Target
    OBVIOUS
  <2>1. Target' = t
    BY Zenon DEF Target
  <2>2. Recorded(t, l)
    BY <1>2, Zenon
  <2> QED BY <2>1, <2>2, Zenon
<1> QED BY <1>1, <1>2, Zenon

\* A step outside the cross-check, with the loop where it is.
LEMMA BooksPick == ASSUME IInv, Books, PickCase PROVE Books'
<1>1. /\ stage = "pick" /\ stage' = "c" /\ ok' = TRUE
      /\ at' = at /\ fails' = fails /\ verdict' = verdict /\ selected' = selected
      /\ UNCHANGED <<setup, record, serialized, ran>>
  BY DEF PickCase, setup, files
<1>2. /\ FilesOK' /\ RanAsked' /\ RecordFits' /\ SerializedFits'
      /\ \A id, leg : Recorded(id, leg) => Recorded(id, leg)'
      /\ Cause' <=> Cause
  BY <1>1, QuietKeeps
<1>3. RecordCovers'
  <2>1. RecordCovers
    BY DEF Books
  <2> QED BY <1>1, <1>2, <2>1, CoversStay, Zenon DEF RecordCovers
<1>4. Causes'
  BY <1>1, <1>2, Zenon DEF Causes, Books
<1>5. CrossChecked'
  BY <1>1, Zenon DEF CrossChecked
<1> QED BY <1>2, <1>3, <1>4, <1>5 DEF Books

\* How the books stand after a leg, however it came to its end.
LEMMA BooksLegDone ==
  ASSUME IInv, Books, NEW leg \in Legs, NEW t, t = Target,
         stage = leg, stage' = Following(leg),
         UNCHANGED <<setup, at, fails, verdict>>,
         FilesOK', RanAsked', RecordFits', SerializedFits',
         \A id, l : Recorded(id, l) => Recorded(id, l)',
         Recorded(t, leg)',
         ok' \in BOOLEAN,
         ok /\ ~ok' => (\E x \in DOMAIN ran : Missed(ran[x]))',
         (\E x \in DOMAIN ran : Missed(ran[x])) => (\E x \in DOMAIN ran : Missed(ran[x]))'
  PROVE  Books'
<1>1. opt' = opt /\ table' = table /\ selected' = selected
  BY DEF setup
<1>2. /\ (leg = "c" /\ stage' = "vm") \/ (leg = "vm" /\ stage' = "end")
      /\ Target' = t
  <2>1. leg = "c" \/ leg = "vm"
    BY DEF Legs
  <2>2. (leg = "c" => stage' = "vm") /\ (leg = "vm" => stage' = "end")
    BY SMT DEF Following
  <2>3. Target' = t
    BY <1>1, Zenon DEF Target
  <2> QED BY <2>1, <2>2, <2>3
<1>3. RecordCovers'
  <2>1. RecordCovers
    BY DEF Books
  <2>2. /\ (\A x \in 1 .. at - 1 : x \in DOMAIN selected /\ selected[x] \in Cases =>
                \A l \in Legs : Recorded(selected[x], l))'
        /\ \A l : Recorded(Target, l) => Recorded(Target, l)'
    BY <1>1, <2>1, CoversStay
  <2>3. Recorded(Target, leg)'
    BY <1>2, Zenon
  <2>4. leg = "vm" => Recorded(Target, "c")'
    <3>1. leg = "vm" => Recorded(Target, "c")
      BY <2>1, Zenon DEF RecordCovers
    <3> QED BY <2>2, <3>1
  <2>5. stage' \in {"vm", "end"} => Recorded(Target, "c")'
    BY <1>2, <2>3, <2>4
  <2>6. stage' = "end" => Recorded(Target, "vm")'
    BY <1>2, <2>3
  <2> QED BY <2>2, <2>5, <2>6, Zenon DEF RecordCovers
<1>4. Causes'
  <2>1. stage' # "c"
    BY <1>2
  <2>2. ASSUME ~ok' PROVE (\E x \in DOMAIN ran : Missed(ran[x]))'
    <3>1. CASE ok
      BY <2>2, <3>1
    <3>2. CASE ~ok
      <4>1. leg = "vm"
        BY <1>2, <3>2, Zenon DEF Books, Causes
      <4> QED BY <3>2, <4>1, Zenon DEF Books, Causes
    <3> QED BY <3>1, <3>2
  <2>3. Cause => Cause'
    BY <1>1, Zenon DEF Cause
  <2>4. (fails > 0 => Cause) /\ (verdict = "red" => fails > 0)
    BY DEF Books, Causes
  <2> QED BY <2>1, <2>2, <2>3, <2>4, Zenon DEF Causes
<1>5. CrossChecked'
  BY <1>2, Zenon DEF CrossChecked
<1> QED BY <1>3, <1>4, <1>5 DEF Books

LEMMA BooksRunLeg == ASSUME IInv, Books, NEW leg \in Legs, RunLeg(leg) PROVE Books'
<1> PICK t : t = Target
  OBVIOUS
<1> PICK got \in Outcomes, way \in BuildsOf(leg) :
      /\ ran' = Append(ran, [id |-> Target, leg |-> leg, mode |-> way.mode,
                             said |-> way.said, got |-> got])
      /\ Log(leg, Effective(leg, way.said, got), got)
  BY Zenon DEF RunLeg
<1> PICK b : b = [id |-> t, leg |-> leg, mode |-> way.mode, said |-> way.said,
                  got |-> got]
  OBVIOUS
<1> PICK mode : mode = Effective(leg, way.said, got)
  OBVIOUS
<1> PICK row : row = [id |-> t, leg |-> leg, mode |-> mode,
                      want |-> table[t][leg], got |-> got]
  OBVIOUS
<1>1. /\ stage = leg /\ stage' = Following(leg) /\ Requested(leg)
      /\ leg = "vm" => opt.mode = "runtime"
      /\ UNCHANGED <<setup, at, fails, verdict>>
      /\ opt' = opt /\ table' = table /\ selected' = selected
      /\ ran' = Append(ran, b)
  BY DEF RunLeg, setup
<1>2. /\ way.mode \in Modes /\ way.said \in Modes \cup {Silent} /\ mode \in Modes
      /\ ModeOf(leg, way, got, mode)
  <2>1. TypeOK
    BY DEF IInv
  <2>2. /\ way.mode \in Modes /\ way.said \in Modes \cup {Silent}
        /\ Effective(leg, way.said, got) \in Modes
        /\ ModeOf(leg, way, got, Effective(leg, way.said, got))
    BY <2>1, BuildIs, Zenon
  <2> QED BY <2>2
<1>3. t \in Cases /\ leg # "reject" /\ IsSelected(t)
  <2>1. t \in Cases /\ More
    BY <1>1, SMT DEF IInv, Where, Legs
  <2>2. selected \in Seq(Cases \cup Rejects) /\ at \in Nat \ {0}
    BY RunnerAssumption DEF IInv, TypeOK
  <2>3. at \in DOMAIN selected
    BY <2>1, <2>2, SMT DEF More
  <2>4. IsSelected(t)
    BY <2>3, Zenon DEF IsSelected, Target
  <2> QED BY <2>1, <2>4 DEF Legs
<1>4. /\ b \in Builds /\ b.id = t /\ b.leg = leg /\ b.mode = way.mode
      /\ b.said = way.said /\ b.got = got
  BY <1>2, <1>3, SMT DEF Builds, Legs
<1>5. got # Unsupported
  BY OutcomeHeld
<1>6. /\ (\E x \in DOMAIN ran : Missed(ran[x])) => (\E x \in DOMAIN ran : Missed(ran[x]))'
      /\ Missed(b) => (\E x \in DOMAIN ran : Missed(ran[x]))'
      /\ \A r : BuiltAs(r) => BuiltAs(r)'
      /\ BuiltAs(row)'
      /\ RanAsked'
  <2>1. TypeOK /\ UNCHANGED setup /\ RanAsked
    BY <1>1 DEF IInv, Books
  <2>2. /\ (\E x \in DOMAIN ran : Missed(ran[x])) => (\E x \in DOMAIN ran : Missed(ran[x]))'
        /\ Missed(b) => (\E x \in DOMAIN ran : Missed(ran[x]))'
        /\ \A r : BuiltAs(r) => BuiltAs(r)'
        /\ \A r : RowOf(r, b) => BuiltAs(r)'
        /\ RanAsked /\ IsSelected(b.id) /\ (b.leg = "reject" => b.id \in Rejects)
              /\ (b.leg # "reject" => Requested(b.leg))
              /\ (b.leg = "vm" => opt.mode = "runtime")
            => RanAsked'
    BY <1>1, <1>4, <2>1, AppendFinds, Zenon
  <2>3. RowOf(row, b)
    <3>1. row.id = t /\ row.leg = leg /\ row.mode = mode /\ row.got = got
      OBVIOUS
    <3> QED BY <1>2, <1>4, <3>1, Zenon DEF RowOf, Unnamed, ModeOf
  <2> QED BY <1>1, <1>3, <1>4, <2>1, <2>2, <2>3, Zenon
<1>7. Log(leg, mode, got)
  BY <1>2
<1>8. /\ FilesOK' /\ RecordFits' /\ SerializedFits'
      /\ \A id, l : Recorded(id, l) => Recorded(id, l)'
      /\ Recorded(t, leg)'
  <2>1. TypeOK
    BY DEF IInv
  <2> QED BY <1>1, <1>2, <1>3, <1>5, <1>6, <1>7, <2>1, LogKeeps
<1>9. ok' <=> ok /\ (got = table[t][leg] \/ table[t][leg] = Skip)
  BY OutcomeHeld, Zenon DEF Log, Judge, Excused
<1>10. ok /\ ~ok' => Missed(b)
  <2>1. b.leg # "reject" /\ b.got # table[t][leg] /\ ~NotHeld(t, leg) => Missed(b)
    BY <1>3, <1>4, Zenon DEF Missed
  <2>2. table[t][leg] # Skip => ~NotHeld(t, leg)
    BY <1>1, Zenon DEF NotHeld
  <2> QED BY <1>3, <1>4, <1>9, <2>1, <2>2
<1>11. ok' \in BOOLEAN
  BY Zenon DEF Log, Judge
<1>12. UNCHANGED <<setup, at, fails, verdict>>
  BY <1>1
<1> QED BY <1>1, <1>6, <1>8, <1>10, <1>11, <1>12, BooksLegDone, Zenon

LEMMA BooksVmUnsupported == ASSUME IInv, Books, VmUnsupported PROVE Books'
<1> PICK t : t = Target
  OBVIOUS
<1> PICK row : row = [id |-> t, leg |-> "vm", mode |-> opt.mode,
                      want |-> table[t]["vm"], got |-> Unsupported]
  OBVIOUS
<1> PICK mode : mode = opt.mode
  OBVIOUS
<1> PICK got : got = Unsupported
  OBVIOUS
<1>1. /\ stage = "vm" /\ stage' = "end" /\ Requested("vm") /\ mode # "runtime"
      /\ UNCHANGED <<setup, at, fails, verdict>>
      /\ opt' = opt /\ table' = table /\ selected' = selected /\ ran' = ran
      /\ Log("vm", mode, got)
  BY DEF VmUnsupported, setup
<1>2. mode \in Modes
  BY RunnerAssumption, SMT DEF IInv, TypeOK
<1>3. t \in Cases /\ IsSelected(t)
  <2>1. t \in Cases /\ More
    BY <1>1, SMT DEF IInv, Where, Legs
  <2>2. selected \in Seq(Cases \cup Rejects) /\ at \in Nat \ {0}
    BY RunnerAssumption DEF IInv, TypeOK
  <2>3. at \in DOMAIN selected
    BY <2>1, <2>2, SMT DEF More
  <2>4. IsSelected(t)
    BY <2>3, Zenon DEF IsSelected, Target
  <2> QED BY <2>1, <2>4
<1>4. \A r : BuiltAs(r) => BuiltAs(r)'
  BY <1>1, Zenon DEF BuiltAs, RowOf, Unnamed, Driven
<1>5. /\ FilesOK' /\ RecordFits' /\ SerializedFits'
      /\ \A id, l : Recorded(id, l) => Recorded(id, l)'
      /\ Recorded(t, "vm")'
  <2>1. TypeOK /\ UNCHANGED setup /\ "vm" \in Legs
        /\ got \in Outcomes \cup {Unsupported} /\ row.got = got
        /\ row = [id |-> t, leg |-> "vm", mode |-> mode, want |-> table[t]["vm"], got |-> got]
    BY <1>1 DEF IInv, Legs
  <2> QED BY <1>1, <1>2, <1>3, <1>4, <2>1, LogKeeps
<1>6. (\E x \in DOMAIN ran : Missed(ran[x])) => (\E x \in DOMAIN ran : Missed(ran[x]))'
  <2>1. \A c : Missed(c)' <=> Missed(c)
    BY <1>1, Zenon DEF Missed, NotHeld, Requested
  <2> QED BY <1>1, <2>1, Zenon
<1>7. RanAsked'
  <2>1. \A id : IsSelected(id)' <=> IsSelected(id)
    BY <1>1, Zenon DEF IsSelected
  <2>2. \A leg : Requested(leg)' <=> Requested(leg)
    BY <1>1, Zenon DEF Requested
  <2>3. ASSUME NEW x \in DOMAIN ran'
        PROVE  /\ IsSelected(ran'[x].id)
               /\ ran'[x].leg = "reject" => ran'[x].id \in Rejects
               /\ ran'[x].leg # "reject" => Requested(ran'[x].leg)
               /\ ran'[x].leg = "vm" => opt.mode = "runtime"
    BY <1>1, <2>3, SMT DEF Books, RanAsked
  <2> QED BY <1>1, <2>1, <2>2, <2>3, Zenon DEF RanAsked
<1>8. ok' <=> ok
  BY Zenon DEF VmUnsupported, Log, Judge, Excused
<1>9. ok' \in BOOLEAN
  BY Zenon DEF VmUnsupported, Log, Judge
<1>10. "vm" \in Legs /\ stage' = Following("vm") /\ UNCHANGED <<setup, at, fails, verdict>>
  BY <1>1, SMT DEF Legs, Following
<1> QED BY <1>1, <1>5, <1>6, <1>7, <1>8, <1>9, <1>10, BooksLegDone, Zenon

LEMMA BooksPassOver == ASSUME IInv, Books, NEW leg \in Legs, PassOver(leg) PROVE Books'
<1> PICK t : t = Target
  OBVIOUS
<1>1. /\ stage = leg /\ stage' = Following(leg) /\ ~Requested(leg) /\ ok' = ok
      /\ UNCHANGED <<setup, at, fails, verdict>>
      /\ UNCHANGED <<setup, record, serialized, ran>>
      /\ opt' = opt
  BY DEF PassOver, setup, files
<1>2. /\ FilesOK' /\ RanAsked' /\ RecordFits' /\ SerializedFits'
      /\ \A id, l : Recorded(id, l) => Recorded(id, l)'
      /\ (\E x \in DOMAIN ran : Missed(ran[x]))' <=> (\E x \in DOMAIN ran : Missed(ran[x]))
  BY <1>1, QuietKeeps
<1>3. Recorded(t, leg)'
  BY <1>1, Zenon DEF Recorded, Requested
<1>4. ok' \in BOOLEAN
  BY <1>1 DEF IInv, TypeOK
<1> QED BY <1>1, <1>2, <1>3, <1>4, BooksLegDone, Zenon

LEMMA InitBooks == Init => Books
<1> SUFFICES ASSUME NEW o \in Options, NEW t \in Tables, NEW list \in TargetLists,
                    Start(o, t, list)
             PROVE  Books
  BY DEF Init
<1>1. /\ at = 1 /\ stage = "pick" /\ ok = TRUE /\ fails = 0
      /\ record = <<>> /\ serialized = <<>> /\ ran = <<>> /\ verdict = "running"
  BY DEF Start
<1>2. /\ ran \in Seq(Builds) /\ DOMAIN ran = {} /\ DOMAIN record = {}
      /\ DOMAIN serialized = {}
      /\ record \in Seq(RecordRows) /\ serialized \in Seq(SerializedRows)
      /\ Len(serialized) = Len(record) /\ 1 .. at - 1 = {}
  BY <1>1, SMT
<1>3. FilesOK
  BY <1>2 DEF FilesOK
<1>4. RanAsked /\ RecordFits /\ SerializedFits
  BY <1>2, Zenon DEF RanAsked, RecordFits, SerializedFits
<1>5. RecordCovers /\ CrossChecked
  BY <1>1, <1>2, SMT DEF RecordCovers, CrossChecked
<1>6. Causes
  BY <1>1, SMT DEF Causes
<1> QED BY <1>3, <1>4, <1>5, <1>6 DEF Books

\* The loop goes on by one test, which has its rows or needs none.
LEMMA CoversAdvance ==
  ASSUME TypeOK, RecordCovers, at' = at + 1, selected' = selected,
         \A id, l : Recorded(id, l) => Recorded(id, l)',
         NEW t, t = Target,
         t \in Cases => \A leg \in Legs : Recorded(t, leg)'
  PROVE  (\A x \in 1 .. at - 1 : x \in DOMAIN selected /\ selected[x] \in Cases =>
             \A leg \in Legs : Recorded(selected[x], leg))'
<1> SUFFICES ASSUME NEW x \in 1 .. at' - 1, x \in DOMAIN selected, selected[x] \in Cases,
                    NEW leg \in Legs
             PROVE  Recorded(selected[x], leg)'
  BY Zenon
<1>1. x \in 1 .. at - 1 \/ x = at
  BY SMT DEF TypeOK
<1>2. CASE x \in 1 .. at - 1
  <2>1. Recorded(selected[x], leg)
    BY <1>2, Zenon DEF RecordCovers
  <2> QED BY <2>1, Zenon
<1>3. CASE x = at
  <2>1. selected[x] = t /\ selected'[x] = t
    BY <1>3, Zenon DEF Target
  <2>2. Recorded(t, leg)'
    BY <2>1
  <2> QED BY <2>1, <2>2, Zenon
<1> QED BY <1>1, <1>2, <1>3

LEMMA BooksCompileFail == ASSUME IInv, Books, RunCompileFail PROVE Books'
<1> PICK t : t = Target
  OBVIOUS
<1> PICK got \in {"rejected", "accepted"} :
      /\ ran' = Append(ran, [id |-> Target, leg |-> "reject", mode |-> "runtime",
                             said |-> Silent, got |-> Status(got)])
      /\ Count(IF got = "rejected" THEN 0 ELSE 1)
  BY Zenon DEF RunCompileFail
<1> PICK b : b = [id |-> t, leg |-> "reject", mode |-> "runtime", said |-> Silent,
                  got |-> Status(got)]
  OBVIOUS
<1>1. /\ stage = "pick" /\ stage' = "pick" /\ More /\ t \in Rejects
      /\ at' = at + 1 /\ ok' = ok /\ verdict' = verdict
      /\ fails' = fails + (IF got = "rejected" THEN 0 ELSE 1)
      /\ opt' = opt /\ table' = table /\ selected' = selected
      /\ record' = record /\ serialized' = serialized
      /\ ran' = Append(ran, b)
  BY DEF RunCompileFail, setup, files, Count
<1>2. b \in Builds /\ b.id = t /\ b.leg = "reject" /\ b.got = Status(got)
  BY <1>1, SMT DEF Builds, Modes
<1>3. t \notin Cases
  BY <1>1, RunnerAssumption, SMT
<1>4. TypeOK /\ UNCHANGED setup /\ RanAsked /\ RecordCovers
  BY <1>1 DEF IInv, Books, setup
<1>5. IsSelected(t)
  <2>1. selected \in Seq(Cases \cup Rejects) /\ at \in Nat \ {0}
    BY RunnerAssumption DEF IInv, TypeOK
  <2>2. at \in DOMAIN selected
    BY <1>1, <2>1, SMT DEF More
  <2> QED BY <2>2, Zenon DEF IsSelected, Target
<1>6. /\ (\E x \in DOMAIN ran : Missed(ran[x])) => (\E x \in DOMAIN ran : Missed(ran[x]))'
      /\ Missed(b) => (\E x \in DOMAIN ran : Missed(ran[x]))'
      /\ \A r : BuiltAs(r) => BuiltAs(r)'
      /\ RanAsked'
  <2>1. /\ (\E x \in DOMAIN ran : Missed(ran[x])) => (\E x \in DOMAIN ran : Missed(ran[x]))'
        /\ Missed(b) => (\E x \in DOMAIN ran : Missed(ran[x]))'
        /\ \A r : BuiltAs(r) => BuiltAs(r)'
        /\ RanAsked /\ IsSelected(b.id) /\ (b.leg = "reject" => b.id \in Rejects)
              /\ (b.leg # "reject" => Requested(b.leg))
              /\ (b.leg = "vm" => opt.mode = "runtime")
            => RanAsked'
    BY <1>1, <1>2, <1>4, AppendFinds, Zenon
  <2>2. b.leg # "vm"
    BY <1>2
  <2> QED BY <1>1, <1>2, <1>4, <1>5, <2>1, <2>2, Zenon
<1>7. FilesOK' /\ SerializedFits'
  <2>1. \A r : KindOf(r)' = KindOf(r)
    BY <1>1, Zenon DEF KindOf
  <2> QED BY <1>1, <2>1, Zenon DEF Books, FilesOK, SerializedFits, KindOf
<1>8. \A id, l : Recorded(id, l) => Recorded(id, l)'
  BY <1>1, Zenon DEF Recorded, Requested
<1>9. RecordFits'
  <2>1. ASSUME NEW x \in DOMAIN record
        PROVE  /\ IsSelected(record[x].id)
               /\ Requested(record[x].leg)
               /\ record[x].want = table[record[x].id][record[x].leg]
               /\ record[x].got = Unsupported =>
                    record[x].leg = "vm" /\ record[x].mode = opt.mode /\ opt.mode # "runtime"
               /\ record[x].got # Unsupported => BuiltAs(record[x])'
    <3> PICK r : r = record[x]
      OBVIOUS
    <3>1. /\ IsSelected(r.id)
          /\ Requested(r.leg)
          /\ r.want = table[r.id][r.leg]
          /\ r.got = Unsupported =>
               r.leg = "vm" /\ r.mode = opt.mode /\ opt.mode # "runtime"
          /\ r.got # Unsupported => BuiltAs(r)
      BY <2>1, Zenon DEF Books, RecordFits
    <3>2. BuiltAs(r)' => BuiltAs(record[x])'
      BY <1>1, Zenon DEF BuiltAs, RowOf, Unnamed, Driven
    <3> QED BY <1>6, <3>1, <3>2, Zenon
  <2>2. \A id : IsSelected(id)' <=> IsSelected(id)
    BY <1>1, Zenon DEF IsSelected
  <2>3. \A leg : Requested(leg)' <=> Requested(leg)
    BY <1>1, Zenon DEF Requested
  <2> QED BY <1>1, <2>1, <2>2, <2>3, Zenon DEF RecordFits
<1>10. RecordCovers'
  <2>1. (\A x \in 1 .. at - 1 : x \in DOMAIN selected /\ selected[x] \in Cases =>
             \A leg \in Legs : Recorded(selected[x], leg))'
    BY <1>1, <1>3, <1>4, <1>8, CoversAdvance
  <2> QED BY <1>1, <2>1, Zenon DEF RecordCovers
<1>11. Causes'
  <2>1. fails \in Nat
    BY DEF IInv, TypeOK
  <2>2. fails' > 0 => fails > 0 \/ got = "accepted"
    BY <1>1, <2>1, SMT
  <2>3. got = "accepted" => Missed(b)
    <3>1. Status("accepted") # Status("rejected")
      BY SMT DEF Status
    <3> QED BY <1>2, <3>1, Zenon DEF Missed
  <2>4. Cause => Cause'
    BY <1>1, <1>6, Zenon DEF Cause
  <2>5. Missed(b) => Cause'
    BY <1>6, Zenon DEF Cause
  <2>6. fails' > 0 => Cause'
    BY <2>2, <2>3, <2>4, <2>5 DEF Books, Causes
  <2>7. verdict' # "red"
    BY <1>1, Zenon DEF IInv, Where
  <2> QED BY <1>1, <2>6, <2>7, Zenon DEF Causes
<1>12. CrossChecked'
  BY <1>1, Zenon DEF CrossChecked
<1> QED BY <1>6, <1>7, <1>9, <1>10, <1>11, <1>12 DEF Books

LEMMA BooksEnd == ASSUME IInv, Books, EndOne PROVE Books'
<1> PICK t : t = Target
  OBVIOUS
<1>1. /\ stage = "end" /\ stage' = "pick" /\ at' = at + 1 /\ ok' = ok
      /\ fails' = fails + (IF ok THEN 0 ELSE 1) /\ verdict' = verdict
      /\ selected' = selected
      /\ UNCHANGED <<setup, record, serialized, ran>>
  BY DEF EndOne, Count, setup, files
<1>2. /\ FilesOK' /\ RanAsked' /\ RecordFits' /\ SerializedFits'
      /\ \A id, leg : Recorded(id, leg) => Recorded(id, leg)'
      /\ (\E x \in DOMAIN ran : Missed(ran[x]))' <=> (\E x \in DOMAIN ran : Missed(ran[x]))
      /\ Cause' <=> Cause
  BY <1>1, QuietKeeps
<1>3. TypeOK /\ RecordCovers
  BY DEF IInv, Books
<1>4. Recorded(t, "c")' /\ Recorded(t, "vm")'
  <2>1. Recorded(t, "c") /\ Recorded(t, "vm")
    BY <1>1, <1>3, Zenon DEF RecordCovers
  <2> QED BY <1>2, <2>1, Zenon
<1>5. RecordCovers'
  <2>1. \A leg \in Legs : Recorded(t, leg)'
    BY <1>4, Zenon DEF Legs
  <2>2. (\A x \in 1 .. at - 1 : x \in DOMAIN selected /\ selected[x] \in Cases =>
             \A leg \in Legs : Recorded(selected[x], leg))'
    BY <1>1, <1>2, <1>3, <2>1, CoversAdvance
  <2> QED BY <1>1, <2>2, Zenon DEF RecordCovers
<1>6. Causes'
  <2>1. fails \in Nat /\ ok \in BOOLEAN
    BY DEF IInv, TypeOK
  <2>2. fails' > 0 => fails > 0 \/ ~ok
    BY <1>1, <2>1, SMT
  <2>3. ~ok => Cause
    BY <1>1, Zenon DEF Books, Causes, Cause
  <2>4. fails' > 0 => Cause'
    BY <1>2, <2>2, <2>3 DEF Books, Causes
  <2>5. verdict' # "red"
    BY <1>1, Zenon DEF IInv, Where
  <2> QED BY <1>1, <2>4, <2>5, Zenon DEF Causes
<1>7. CrossChecked'
  BY <1>1, Zenon DEF CrossChecked
<1> QED BY <1>2, <1>5, <1>6, <1>7 DEF Books

LEMMA BooksReport ==
  ASSUME IInv, Books, Report \/ Kill \/ UNCHANGED vars PROVE Books'
<1>1. /\ at' = at /\ ok' = ok /\ fails' = fails /\ digest' = digest
      /\ opt' = opt /\ selected' = selected
      /\ UNCHANGED <<setup, record, serialized, ran>>
  BY DEF Report, Kill, vars, setup, files
<1>2. /\ FilesOK' /\ RanAsked' /\ RecordFits' /\ SerializedFits'
      /\ \A id, leg : Recorded(id, leg) => Recorded(id, leg)'
      /\ (\E x \in DOMAIN ran : Missed(ran[x]))' <=> (\E x \in DOMAIN ran : Missed(ran[x]))
      /\ Cause' <=> Cause
      /\ BothOk' = BothOk
      /\ \A id : Compared(id)' <=> Compared(id)
  BY <1>1, QuietKeeps
<1>3. /\ stage' \in {"vm", "end"} => stage' = stage
      /\ stage' = "end" => stage' = stage
      /\ stage' = "c" => stage' = stage
  BY DEF Report, Kill, vars
<1>4. RecordCovers'
  <2>1. RecordCovers
    BY DEF Books
  <2>2. /\ (\A x \in 1 .. at - 1 : x \in DOMAIN selected /\ selected[x] \in Cases =>
                \A leg \in Legs : Recorded(selected[x], leg))'
        /\ \A l : Recorded(Target, l) => Recorded(Target, l)'
    BY <1>1, <1>2, <2>1, CoversStay
  <2>3. /\ stage \in {"vm", "end"} => Recorded(Target, "c")
        /\ stage = "end" => Recorded(Target, "vm")
    BY <2>1 DEF RecordCovers
  <2> QED BY <1>3, <2>2, <2>3, Zenon DEF RecordCovers
<1>5. Causes'
  <2>1. fails' > 0 => Cause'
    BY <1>1, <1>2, Zenon DEF Books, Causes
  <2>2. verdict' = "red" => fails' > 0
    BY <1>1, SMT DEF Report, Kill, vars, Books, Causes
  <2>3. stage' \in {"vm", "end"} /\ ~ok' => (\E x \in DOMAIN ran : Missed(ran[x]))'
    BY <1>1, <1>2, <1>3 DEF Books, Causes
  <2>4. stage' = "c" => ok'
    BY <1>1, <1>3 DEF Books, Causes
  <2> QED BY <2>1, <2>2, <2>3, <2>4, Zenon DEF Causes
<1>6. CrossChecked'
  <2>1. stage' \in {"report", "done"} /\ verdict' # "killed" =>
          stage \in {"report", "done"} /\ verdict # "killed"
    BY SMT DEF Report, Kill, vars, IInv, Where
  <2> QED BY <1>1, <1>2, <2>1, Zenon DEF Books, CrossChecked
<1> QED BY <1>2, <1>4, <1>5, <1>6 DEF Books

NoMiss == \A x \in DOMAIN ran : ~Missed(ran[x])

\* The kind a leg is serialized with when it neither missed nor is excused.
Honest(id, leg) == IF leg = "vm" /\ id \in opt.corrupt THEN "err" ELSE "ok"

\* Where no build missed, a row is as honest as the corruption lets it be.
LEMMA RowKind ==
  ASSUME Books, opt.serialize, NoMiss, NEW x \in DOMAIN serialized
  PROVE  /\ serialized[x].id \in Cases /\ serialized[x].leg \in Legs
         /\ IsSelected(serialized[x].id)
         /\ \/ serialized[x].kind = "skip" /\ NotHeld(serialized[x].id, serialized[x].leg)
            \/ serialized[x].kind = Honest(serialized[x].id, serialized[x].leg)
<1> PICK w : w = record[x]
  OBVIOUS
<1>1. /\ serialized \in Seq(SerializedRows) /\ record \in Seq(RecordRows)
      /\ Len(serialized) = Len(record)
  BY Zenon DEF Books, FilesOK, SerializedFits
<1>2. x \in DOMAIN record /\ w \in RecordRows /\ serialized[x] \in SerializedRows
  BY <1>1, SMT
<1>3. /\ w.id \in Cases /\ w.leg \in Legs
      /\ serialized[x].id = w.id /\ serialized[x].leg = w.leg
      /\ serialized[x].kind = KindOf(w)
  <2>1. w.id \in Cases /\ w.leg \in Legs
    BY <1>2, SMT DEF RecordRows
  <2> QED BY <2>1, Zenon DEF Books, SerializedFits
<1>4. /\ IsSelected(w.id) /\ Requested(w.leg) /\ w.want = table[w.id][w.leg]
      /\ w.got = Unsupported => w.leg = "vm" /\ opt.mode # "runtime"
      /\ w.got # Unsupported => BuiltAs(w)
  BY <1>2, Zenon DEF Books, RecordFits
<1>5. CASE w.got = w.want
  <2>1. KindOf(w) = Honest(w.id, w.leg)
    BY <1>5, SMT DEF KindOf, Honest
  <2> QED BY <1>3, <1>4, <2>1
<1>6. CASE w.got # w.want /\ Excused(w.got, w.want)
  <2>1. KindOf(w) = "skip"
    BY <1>6, SMT DEF KindOf
  <2>2. NotHeld(w.id, w.leg)
    BY <1>4, <1>6, Zenon DEF Excused, NotHeld
  <2> QED BY <1>3, <1>4, <2>1, <2>2
<1>7. CASE w.got # w.want /\ ~Excused(w.got, w.want)
  <2>1. BuiltAs(w) /\ w.want # Skip
    BY <1>4, <1>7, Zenon DEF Excused
  <2>2. PICK y \in DOMAIN ran : ran[y].id = w.id /\ ran[y].leg = w.leg /\ ran[y].got = w.got
    BY <2>1, Zenon DEF BuiltAs, RowOf, Unnamed, Driven
  <2>3. w.leg # "reject"
    BY <1>3 DEF Legs
  <2>4. NotHeld(w.id, w.leg) \/ w.got = table[w.id][w.leg]
    <3>1. ~Missed(ran[y])
      BY Zenon DEF NoMiss
    <3>2. ran[y].leg # "reject"
      BY <2>2, <2>3
    <3>3. NotHeld(ran[y].id, ran[y].leg) \/ ran[y].got = table[ran[y].id][ran[y].leg]
      BY <3>1, <3>2, Zenon DEF Missed
    <3> QED BY <2>2, <3>3, Zenon
  <2>5. w.leg = "vm" => opt.mode = "runtime"
    BY <2>2, Zenon DEF Books, RanAsked
  <2>6. ~NotHeld(w.id, w.leg)
    BY <1>4, <2>1, <2>5, Zenon DEF NotHeld
  <2> QED BY <1>4, <1>7, <2>4, <2>6
<1> QED BY <1>5, <1>6, <1>7

\* The first kind is the kind of some row, and there is one if there is a row.
LEMMA FirstKindOfRow ==
  ASSUME FilesOK, NEW id, NEW leg
  PROVE  /\ RowsOf(id, leg) = {} => FirstKind(id, leg) = "none"
         /\ RowsOf(id, leg) # {} =>
              \E x \in RowsOf(id, leg) : FirstKind(id, leg) = serialized[x].kind
<1> PICK T : T = RowsOf(id, leg)
  OBVIOUS
<1>1. T \in SUBSET Nat
  <2>1. serialized \in Seq(SerializedRows)
    BY DEF FilesOK
  <2> QED BY <2>1, SMT DEF RowsOf
<1>2. ASSUME T # {}
      PROVE  \E x \in T : FirstKind(id, leg) = serialized[x].kind
  <2>1. \E x \in T : \A y \in T : x <= y
    BY <1>1, <1>2, LeastElement
  <2> PICK x : x = CHOOSE z \in T : \A y \in T : z <= y
    OBVIOUS
  <2>2. x \in T
    BY <2>1, Zenon
  <2>3. FirstKind(id, leg) = serialized[x].kind
    BY <1>2, SMT DEF FirstKind
  <2> QED BY <2>2, <2>3
<1>3. T = {} => FirstKind(id, leg) = "none"
  BY SMT DEF FirstKind
<1> QED BY <1>2, <1>3

LEMMA KnownKind ==
  ASSUME Books, opt.serialize, NoMiss, NEW id, NEW leg,
         FirstKind(id, leg) \in {"ok", "err"}
  PROVE  FirstKind(id, leg) = Honest(id, leg)
<1>1. FilesOK
  BY DEF Books
<1>2. RowsOf(id, leg) # {}
  <2>1. RowsOf(id, leg) = {} => FirstKind(id, leg) = "none"
    BY <1>1, FirstKindOfRow
  <2> QED BY <2>1, SMT
<1>3. \E x \in RowsOf(id, leg) : FirstKind(id, leg) = serialized[x].kind
  BY <1>1, <1>2, FirstKindOfRow
<1>4. PICK x \in RowsOf(id, leg) : FirstKind(id, leg) = serialized[x].kind
  BY <1>3
<1>5. x \in DOMAIN serialized /\ serialized[x].id = id /\ serialized[x].leg = leg
  <2>1. serialized \in Seq(SerializedRows)
    BY <1>1 DEF FilesOK
  <2> QED BY <2>1, SMT DEF RowsOf
<1>6. serialized[x].kind = "skip" \/ serialized[x].kind = Honest(id, leg)
  BY <1>5, RowKind, Zenon
<1> QED BY <1>4, <1>6, SMT

\* Where no build missed, the cross-check finds the corrupted test, if its legs
\* are compared, and nothing else.
LEMMA MismatchesAre ==
  ASSUME IInv, Books, opt.serialize, NoMiss
  PROVE  /\ Mismatches \subseteq opt.corrupt
         /\ \A id \in opt.corrupt : Compared(id) => Mismatches = {id}
<1>1. opt.corrupt \subseteq Cases /\ IsFiniteSet(opt.corrupt) /\ Cardinality(opt.corrupt) <= 1
  BY RunnerAssumption, SMT DEF IInv, TypeOK
<1>2. ASSUME NEW id, Compared(id)
      PROVE  /\ FirstKind(id, "c") = "ok"
             /\ FirstKind(id, "vm") = IF id \in opt.corrupt THEN "err" ELSE "ok"
  <2>1. FirstKind(id, "c") \in {"ok", "err"} /\ FirstKind(id, "vm") \in {"ok", "err"}
    BY <1>2, Zenon DEF Compared
  <2>2. FirstKind(id, "c") = Honest(id, "c") /\ FirstKind(id, "vm") = Honest(id, "vm")
    BY <2>1, KnownKind
  <2> QED BY <2>2, SMT DEF Honest
<1>3. \A id : id \in Mismatches <=> id \in Cases /\ Compared(id) /\ id \in opt.corrupt
  <2>1. ASSUME NEW id PROVE id \in Mismatches <=> id \in Cases /\ Compared(id) /\ id \in opt.corrupt
    BY <1>2, Zenon DEF Mismatches
  <2> QED BY <2>1
<1>4. ASSUME NEW id \in opt.corrupt PROVE opt.corrupt = {id}
  <2>1. ASSUME NEW d \in opt.corrupt, d # id PROVE FALSE
    <3>1. {id, d} \subseteq opt.corrupt
      BY <2>1
    <3>2. Cardinality({id, d}) <= Cardinality(opt.corrupt)
      BY <1>1, <3>1, FS_Subset
    <3>3. Cardinality({id, d}) = 2
      <4>1. IsFiniteSet({id}) /\ Cardinality({id}) = 1
        BY FS_Singleton
      <4>2. Cardinality({id} \cup {d}) = Cardinality({id}) + 1
        BY <2>1, <4>1, FS_AddElement
      <4>3. {id} \cup {d} = {id, d}
        OBVIOUS
      <4> QED BY <4>1, <4>2, <4>3
    <3>4. Cardinality(opt.corrupt) \in Nat
      BY <1>1, FS_CardinalityType
    <3> QED BY <1>1, <3>2, <3>3, <3>4, SMT
  <2> QED BY <1>4, <2>1
<1> QED BY <1>1, <1>3, <1>4, Zenon

\* One mismatch survives the status of the shell function.
LEMMA OneCounts == 1 % ReturnMod # 0
<1> SUFFICES ASSUME 1 % ReturnMod = 0 PROVE FALSE
  OBVIOUS
<1> PICK q : q = 1 \div ReturnMod
  OBVIOUS
<1>1. ReturnMod \in Nat /\ ReturnMod > 1
  BY RunnerAssumption
<1>2. q \in Int /\ 1 = ReturnMod * q
  BY <1>1, SMT
<1> QED BY <1>1, <1>2, SMT

LEMMA BooksCross == ASSUME IInv, Books, CrossCheck PROVE Books'
<1>1. /\ stage = "pick" /\ stage' = "report" /\ ~More
      /\ at' = at /\ ok' = ok /\ verdict' = verdict
      /\ opt' = opt /\ selected' = selected
      /\ UNCHANGED <<setup, record, serialized, ran>>
  BY DEF CrossCheck, setup
<1>2. /\ FilesOK' /\ RanAsked' /\ RecordFits' /\ SerializedFits'
      /\ \A id, leg : Recorded(id, leg) => Recorded(id, leg)'
      /\ (\E x \in DOMAIN ran : Missed(ran[x]))' <=> (\E x \in DOMAIN ran : Missed(ran[x]))
      /\ Cause' <=> Cause
      /\ BothOk' = BothOk
      /\ \A id : Compared(id)' <=> Compared(id)
  BY <1>1, QuietKeeps
<1>3. RecordCovers'
  <2>1. RecordCovers
    BY DEF Books
  <2> QED BY <1>1, <1>2, <2>1, CoversStay, Zenon DEF RecordCovers
<1>4. verdict = "running" /\ fails \in Nat
  BY <1>1, SMT DEF IInv, TypeOK, Where
<1>5. fails = 0 => NoMiss
  BY <1>1, <1>4, Zenon DEF IInv, Tally, NoMiss
<1> DEFINE n == Cardinality(Mismatches)
<1>6. opt.serialize => fails' = fails + (n % ReturnMod) /\ digest' = BothOk
  BY DEF CrossCheck
<1>7. ~opt.serialize => fails' = fails
  BY DEF CrossCheck
<1>8. n % ReturnMod \in Nat
  BY ReturnedType
<1>9. ASSUME opt.serialize, fails = 0, fails' > 0 PROVE opt.corrupt # {}
  <2>1. CASE Mismatches = {}
    <3>1. n = 0
      BY <2>1, FS_EmptySet
    <3> HIDE DEF n
    <3>2. n % ReturnMod = 0
      BY <3>1, RunnerAssumption, SMT
    <3> QED BY <1>6, <1>9, <3>2, SMT
  <2>2. CASE Mismatches # {}
    <3>1. Mismatches \subseteq opt.corrupt
      BY <1>5, <1>9, MismatchesAre
    <3> QED BY <2>2, <3>1
  <2> QED BY <2>1, <2>2
<1>10. ASSUME opt.serialize, fails' = 0, NEW id \in opt.corrupt, Compared(id) PROVE FALSE
  <2>1. fails = 0 /\ n % ReturnMod = 0
    <3> HIDE DEF n
    <3> QED BY <1>4, <1>6, <1>8, <1>10, SMT
  <2>2. Mismatches = {id}
    BY <1>5, <1>10, <2>1, MismatchesAre
  <2>3. n = 1
    BY <2>2, FS_Singleton
  <2> HIDE DEF n
  <2>4. 1 % ReturnMod = 0
    BY <2>1, <2>3
  <2> QED BY <2>4, OneCounts
<1>11. Causes'
  <2>1. fails' > 0 => Cause'
    <3>1. CASE fails > 0
      BY <1>2, <3>1 DEF Books, Causes
    <3>2. CASE ~(fails > 0)
      <4>1. fails = 0
        BY <1>4, <3>2, SMT
      <4>2. ~opt.serialize => fails' = 0
        BY <1>7, <4>1
      <4>3. fails' > 0 => opt.serialize
        BY <4>2, SMT
      <4> QED BY <1>1, <1>9, <4>1, <4>3, Zenon DEF Cause
    <3> QED BY <3>1, <3>2
  <2> QED BY <1>1, <1>4, <2>1, Zenon DEF Causes
<1>12. CrossChecked'
  <2>1. ASSUME opt.serialize
        PROVE  digest' = BothOk' /\ (fails' = 0 => \A id \in opt.corrupt : ~Compared(id)')
    BY <1>2, <1>6, <1>10, <2>1, Zenon
  <2> QED BY <1>1, <2>1, Zenon DEF CrossChecked
<1> QED BY <1>2, <1>3, <1>11, <1>12 DEF Books

\* Every step of the script keeps its books, and its tally.
LEMMA RunnerStep == ASSUME IInv, Books, [Next]_vars PROVE IInv' /\ Books'
<1>1. IInv'
  BY NextIInv
<1>2. CASE PickCase \/ RunCompileFail
  BY <1>1, <1>2, BooksPick, BooksCompileFail
<1>3. ASSUME NEW leg \in Legs, RunLeg(leg) \/ PassOver(leg) PROVE Books'
  BY <1>3, BooksRunLeg, BooksPassOver
<1>4. CASE VmUnsupported
  BY <1>1, <1>4, BooksVmUnsupported
<1>5. CASE EndOne \/ CrossCheck
  BY <1>1, <1>5, BooksEnd, BooksCross
<1>6. CASE Report \/ Kill \/ UNCHANGED vars
  BY <1>1, <1>6, BooksReport
<1> QED BY <1>1, <1>2, <1>3, <1>4, <1>5, <1>6 DEF Next

-----------------------------------------------------------------------------
(* scripts/contract_matrix.                                                  *)

\* The six combinations are six.
LEMMA CombinationsAre ==
  /\ Len(Combinations) = 6 /\ DOMAIN Combinations = 1 .. 6
  /\ \A n \in 1 .. 6 : Combinations[n][1] \in {"c", "vm"} /\ Combinations[n][2] \in Modes
  /\ \A m, n \in 1 .. 6 :
       <<Combinations[m][1], Combinations[m][2]>> = <<Combinations[n][1], Combinations[n][2]>>
         => m = n
<1>1. Len(Combinations) = 6 /\ DOMAIN Combinations = 1 .. 6
  BY SMT DEF Combinations
<1>2. \A n \in 1 .. 6 : n = 1 \/ n = 2 \/ n = 3 \/ n = 4 \/ n = 5 \/ n = 6
  BY SMT
<1>3. /\ Combinations[1][1] = "c"  /\ Combinations[1][2] = "runtime"
      /\ Combinations[2][1] = "vm" /\ Combinations[2][2] = "runtime"
      /\ Combinations[3][1] = "c"  /\ Combinations[3][2] = "verified"
      /\ Combinations[4][1] = "vm" /\ Combinations[4][2] = "verified"
      /\ Combinations[5][1] = "c"  /\ Combinations[5][2] = "disabled"
      /\ Combinations[6][1] = "vm" /\ Combinations[6][2] = "disabled"
  BY SMT DEF Combinations
<1>4. \A n \in 1 .. 6 : Combinations[n][1] \in {"c", "vm"} /\ Combinations[n][2] \in Modes
  BY <1>2, <1>3, SMT DEF Modes
<1>5. ASSUME NEW m \in 1 .. 6, NEW n \in 1 .. 6,
             <<Combinations[m][1], Combinations[m][2]>> = <<Combinations[n][1], Combinations[n][2]>>
      PROVE  m = n
  <2>1. Combinations[m][1] = Combinations[n][1] /\ Combinations[m][2] = Combinations[n][2]
    BY <1>5
  <2> QED BY <1>2, <1>3, <2>1, SMT
<1> QED BY <1>1, <1>4, <1>5

LEMMA AskFields ==
  ASSUME NEW n, NEW b
  PROVE  /\ Ask(n, b).backend = Combinations[n][1] /\ Ask(n, b).mode = Combinations[n][2]
         /\ Ask(n, b).driver = b /\ ~Ask(n, b).serialize
BY DEF Ask

\* No step of scripts/test changes what it was asked.
LEMMA SetupStays == [Next]_vars => UNCHANGED setup
BY DEF Next, vars, setup, PickCase, RunCompileFail, RunLeg, PassOver, VmUnsupported,
       EndOne, CrossCheck, Report, Kill

LEMMA MInitMInv == MInit \/ AloneInit => MInv
<1>1. MInit => Init
  <2> SUFFICES ASSUME NEW t \in Tables, NEW b \in BOOLEAN, Start(Ask(1, b), t, Fixtures)
               PROVE  Init
    BY DEF MInit
  <2>1. Ask(1, b) \in Options /\ Fixtures \in TargetLists
    <3>1. 1 \in DOMAIN Combinations
      BY CombinationsAre, SMT
    <3> QED BY <3>1, MatrixAssumption
  <2> QED BY <2>1 DEF Init
<1>2. MInit => MatrixInv
  <2> SUFFICES ASSUME NEW t \in Tables, NEW b \in BOOLEAN, Start(Ask(1, b), t, Fixtures),
                      rows = <<>>, gate = "running"
               PROVE  MatrixInv
    BY DEF MInit
  <2>1. selected = Fixtures /\ opt = Ask(1, b)
    BY DEF Start
  <2>2. opt = Ask(1, opt.driver)
    BY <2>1, AskFields
  <2>3. /\ rows \in Seq({"c", "vm"} \X Modes \X Results) /\ Len(rows) = 0 /\ DOMAIN rows = {}
        /\ Len(rows) + 1 = 1
    BY SMT
  <2>4. Len(rows) <= Len(Combinations)
    BY <2>3, CombinationsAre, SMT
  <2> QED BY <2>1, <2>2, <2>3, <2>4, Zenon DEF MatrixInv
<1>3. AloneInit => MatrixInv
  <2> SUFFICES ASSUME rows = <<>>, gate = "none"
               PROVE  MatrixInv
    BY DEF AloneInit
  <2>1. /\ rows \in Seq({"c", "vm"} \X Modes \X Results) /\ Len(rows) = 0 /\ DOMAIN rows = {}
    BY SMT
  <2>2. Len(rows) <= Len(Combinations)
    BY <2>1, CombinationsAre, SMT
  <2> QED BY <2>1, <2>2, SMT DEF MatrixInv
<1> QED BY <1>1, <1>2, <1>3, InitIInv, InitBooks DEF AloneInit, MInv

LEMMA RunTestStep == ASSUME MInv, RunTest \/ UNCHANGED mvars PROVE MInv'
<1>1. [Next]_vars /\ UNCHANGED <<rows, catalog, write, gate>>
  BY DEF RunTest, mvars
<1>2. IInv' /\ Books'
  BY <1>1, RunnerStep DEF MInv
<1>3. /\ opt' = opt /\ selected' = selected
      /\ rows' = rows /\ catalog' = catalog /\ gate' = gate
  BY <1>1, SetupStays DEF setup
<1>4. MatrixInv'
  BY <1>3, SMT DEF MInv, MatrixInv
<1> QED BY <1>2, <1>4 DEF MInv

\* A row is appended, and the next run is asked for the next combination.
LEMMA ClassifyStep == ASSUME MInv, Classify PROVE MInv'
<1> PICK res : res = Result
  OBVIOUS
<1> PICK n : n = Len(rows)
  OBVIOUS
<1> PICK row : row = <<opt.backend, opt.mode, res>>
  OBVIOUS
<1>1. /\ gate = "running" /\ n < 6 /\ rows' = Append(rows, row)
      /\ catalog' = catalog /\ gate' = gate
  BY CombinationsAre DEF Classify
<1>2. /\ selected = Fixtures /\ opt = Ask(n + 1, opt.driver) /\ n \in Nat
      /\ rows \in Seq({"c", "vm"} \X Modes \X Results)
      /\ \A x \in DOMAIN rows :
           rows[x][1] = Combinations[x][1] /\ rows[x][2] = Combinations[x][2]
  <2>1. rows \in Seq({"c", "vm"} \X Modes \X Results)
    BY DEF MInv, MatrixInv
  <2>2. n \in Nat
    BY <2>1
  <2> QED BY <1>1, <2>1, <2>2, CombinationsAre, Zenon DEF MInv, MatrixInv
<1>3. n + 1 \in 1 .. 6 /\ n + 1 \in DOMAIN Combinations
  BY <1>1, <1>2, CombinationsAre, SMT
<1>4. opt.backend = Combinations[n + 1][1] /\ opt.mode = Combinations[n + 1][2]
  BY <1>2, AskFields
<1>5. row \in {"c", "vm"} \X Modes \X Results
      /\ row[1] = Combinations[n + 1][1] /\ row[2] = Combinations[n + 1][2]
  <2>1. res \in Results
    BY SMT DEF Result, Results
  <2> QED BY <1>3, <1>4, <2>1, CombinationsAre
<1>6. /\ rows' \in Seq({"c", "vm"} \X Modes \X Results)
      /\ Len(rows') = n + 1
      /\ \A x \in DOMAIN rows' : x = n + 1 \/ (x \in DOMAIN rows /\ rows'[x] = rows[x])
      /\ rows'[n + 1] = row
  BY <1>1, <1>2, <1>5, SMT
<1>7. \A x \in DOMAIN rows' :
        rows'[x][1] = Combinations[x][1] /\ rows'[x][2] = Combinations[x][2]
  <2>1. ASSUME NEW x \in DOMAIN rows'
        PROVE  rows'[x][1] = Combinations[x][1] /\ rows'[x][2] = Combinations[x][2]
    <3>1. CASE x = n + 1
      BY <1>5, <1>6, <3>1
    <3>2. CASE x \in DOMAIN rows /\ rows'[x] = rows[x]
      BY <1>2, <3>2
    <3> QED BY <1>6, <3>1, <3>2
  <2> QED BY <2>1
<1>8. CASE n + 1 < 6
  <2>1. Restart(Ask(n + 2, opt.driver))
    BY <1>8, CombinationsAre DEF Classify
  <2> PICK o : o = Ask(n + 2, opt.driver)
    OBVIOUS
  <2>2. o \in Options
    <3>1. opt.driver \in BOOLEAN
      BY RunnerAssumption, SMT DEF MInv, IInv, TypeOK
    <3>2. n + 2 \in DOMAIN Combinations
      BY <1>2, <1>8, CombinationsAre, SMT
    <3> QED BY <3>1, <3>2, MatrixAssumption
  <2>3. /\ opt' = o /\ table' = table /\ selected' = selected /\ at' = 1
        /\ stage' = "pick" /\ ok' = TRUE /\ fails' = 0
        /\ record' = <<>> /\ serialized' = <<>> /\ digest' = {}
        /\ ran' = <<>> /\ verdict' = "running"
    BY <2>1 DEF Restart
  <2>4. table \in Tables /\ selected \in TargetLists
    BY DEF MInv, IInv, TypeOK
  <2>5. Init'
    BY <2>2, <2>3, <2>4, Zenon DEF Init, Start
  <2>6. IInv' /\ Books'
    <3>1. (Init => IInv /\ Books)'
      BY InitIInv, InitBooks, PTL
    <3> QED BY <2>5, <3>1
  <2>7. opt' = Ask(n + 1 + 1, opt'.driver)
    <3>1. o.driver = opt.driver
      BY AskFields
    <3>2. n + 1 + 1 = n + 2
      BY <1>2, SMT
    <3> QED BY <2>3, <3>1, <3>2
  <2>8. MatrixInv'
    <3>1. Len(rows') <= Len(Combinations)
      BY <1>6, <1>8, <1>2, CombinationsAre, SMT
    <3>2. Len(rows') + 1 = n + 1 + 1
      BY <1>6
    <3>3. opt' = Ask(Len(rows') + 1, opt'.driver)
      BY <2>7, <3>2
    <3>4. gate' = "running" /\ selected' = Fixtures
      BY <1>1, <1>2, <2>3
    <3> QED BY <1>6, <1>7, <3>1, <3>3, <3>4, Zenon DEF MatrixInv
  <2> QED BY <2>6, <2>8 DEF MInv
<1>9. CASE ~(n + 1 < 6)
  <2>1. UNCHANGED vars
    BY <1>9, CombinationsAre DEF Classify
  <2>2. IInv' /\ Books'
    BY <2>1, RunnerStep DEF MInv
  <2>3. MatrixInv'
    <3>1. Len(rows') = 6
      BY <1>1, <1>2, <1>6, <1>9, SMT
    <3>2. ~(Len(rows') < Len(Combinations)) /\ Len(rows') <= Len(Combinations)
      BY <3>1, CombinationsAre, SMT
    <3>3. gate' = "running" /\ selected' = Fixtures
      BY <1>1, <1>2, <2>1 DEF vars, setup
    <3> QED BY <1>6, <1>7, <3>2, <3>3, Zenon DEF MatrixInv
  <2> QED BY <2>2, <2>3 DEF MInv
<1> QED BY <1>8, <1>9

LEMMA FinishStep == ASSUME MInv, Finish PROVE MInv'
<1>1. /\ gate = "running" /\ Len(rows) = Len(Combinations)
      /\ UNCHANGED vars /\ rows' = rows
      /\ gate' = IF catalog' = rows /\ ~OverallFail THEN "PASS" ELSE "FAIL"
  BY DEF Finish
<1>2. IInv' /\ Books'
  BY <1>1, RunnerStep DEF MInv
<1>3. gate' = "PASS" => catalog' = rows /\ \A x \in DOMAIN rows : rows[x][3] # "fail"
  BY <1>1, Zenon DEF OverallFail
<1>4. gate' \in {"PASS", "FAIL"}
  BY <1>1
<1>5. MatrixInv'
  <2>1. /\ rows' \in Seq({"c", "vm"} \X Modes \X Results)
        /\ Len(rows') <= Len(Combinations)
        /\ \A x \in DOMAIN rows' :
             rows'[x][1] = Combinations[x][1] /\ rows'[x][2] = Combinations[x][2]
    BY <1>1, Zenon DEF MInv, MatrixInv
  <2>2. gate' = "PASS" => catalog' = rows' /\ Len(rows') = Len(Combinations)
                            /\ \A x \in DOMAIN rows' : rows'[x][3] # "fail"
    BY <1>1, <1>3
  <2> QED BY <1>4, <2>1, <2>2, SMT DEF MatrixInv
<1> QED BY <1>2, <1>5 DEF MInv

LEMMA ElementOf ==
  ASSUME NEW S, NEW s \in Seq(S), NEW x \in DOMAIN s PROVE s[x] \in S
BY SMT

\* A run of scripts/test by itself keeps its tally and its books.
THEOREM BooksInvariant == Spec => [](IInv /\ Books)
<1>1. IInv /\ Books /\ [Next]_vars => IInv' /\ Books'
  BY RunnerStep
<1> QED BY InitIInv, InitBooks, <1>1, PTL DEF Spec

\* Every step of the two scripts keeps the tally, the books and the matrix.
THEOREM MatrixInvariant == MSpec => []MInv
<1>1. MInv /\ [MNext]_mvars => MInv'
  BY RunTestStep, ClassifyStep, FinishStep DEF MNext
<1> QED BY MInitMInv, <1>1, PTL DEF MSpec

\* The books are kept by a run of scripts/test by itself, and by the runs that
\* scripts/contract_matrix makes.
LEMMA RunsKeepBooks == (Spec \/ MSpec) => [](IInv /\ Books)
<1>1. MInv => IInv /\ Books
  BY DEF MInv
<1> QED BY BooksInvariant, MatrixInvariant, <1>1, PTL

\* Green has missed nothing.
LEMMA GreenFacts ==
  ASSUME IInv, verdict = "green"
  PROVE  /\ fails = 0 /\ stage = "done" /\ NoMiss
         /\ \A x \in DOMAIN selected : x \in 1 .. at - 1
<1>1. fails = 0 /\ ~More /\ stage = "done"
  BY SMT DEF IInv, Where
<1>2. NoMiss
  BY <1>1, Zenon DEF IInv, Tally, NoMiss
<1>3. \A x \in DOMAIN selected : x \in 1 .. at - 1
  <2>1. selected \in Seq(Cases \cup Rejects) /\ at \in Nat
    BY RunnerAssumption, SMT DEF IInv, TypeOK
  <2> QED BY <1>1, <2>1, SMT DEF More
<1> QED BY <1>1, <1>2, <1>3

\* For any tests, table, selection and options: green means that every selected
\* test was run on every leg it is held to, that no build missed, and that what
\* must not compile was refused.
THEOREM GreenIsEarned == (Spec \/ MSpec) => []GreenMeans
<1>1. ASSUME IInv PROVE GreenMeans
  <2> SUFFICES ASSUME verdict = "green" PROVE /\ \A x \in DOMAIN selected : Held(selected[x])
                                             /\ \A x \in DOMAIN ran : ~Missed(ran[x])
    BY DEF GreenMeans
  <2>1. fails = 0 /\ NoMiss /\ \A x \in DOMAIN selected : x \in 1 .. at - 1
    BY <1>1, GreenFacts
  <2>2. \A x \in 1 .. at - 1 : x \in DOMAIN selected => Held(selected[x])
    BY <1>1, <2>1, Zenon DEF IInv, Tally
  <2> QED BY <2>1, <2>2, Zenon DEF NoMiss
<1> QED BY RunsKeepBooks, <1>1, PTL

\* Red has a cause: for any tests, tables and options, a run that is red has
\* missed an expectation, or was asked to corrupt its record.
THEOREM RedHasCause == (Spec \/ MSpec) => []RedMeans
<1>1. IInv /\ Books => RedMeans
  BY Zenon DEF Books, Causes, Cause, RedMeans
<1> QED BY RunsKeepBooks, <1>1, PTL

\* A corrupted record fails the run, even where both legs match the table.
THEOREM CorruptionIsCaught == (Spec \/ MSpec) => []CorruptionCaught
<1>1. ASSUME IInv, Books PROVE CorruptionCaught
  <2> SUFFICES ASSUME NEW id \in opt.corrupt, opt.serialize, Compared(id), verdict = "green"
               PROVE  FALSE
    BY Zenon DEF CorruptionCaught
  <2>1. stage = "done" /\ fails = 0
    BY <1>1, SMT DEF IInv, Where
  <2> QED BY <1>1, <2>1, Zenon DEF Books, CrossChecked
<1> QED BY RunsKeepBooks, <1>1, PTL

\* A green run of both legs, with nothing excused, digests exactly the tests
\* that were selected.
THEOREM DigestIsComplete == (Spec \/ MSpec) => []DigestComplete
<1>1. ASSUME IInv, Books PROVE DigestComplete
  <2> DEFINE chosen == {selected[x] : x \in DOMAIN selected} \cap Cases
  <2> SUFFICES ASSUME verdict = "green", opt.serialize,
                      \A id \in chosen, leg \in Legs : ~NotHeld(id, leg)
               PROVE  digest = chosen
    BY Zenon DEF DigestComplete
  <2>1. /\ IInv /\ Books /\ NoMiss /\ fails = 0 /\ stage = "done"
        /\ \A x \in DOMAIN selected : x \in 1 .. at - 1
    BY <1>1, GreenFacts
  <2>2. digest = BothOk /\ \A id \in opt.corrupt : ~Compared(id)
    BY <2>1, Zenon DEF Books, CrossChecked
  <2>3. /\ serialized \in Seq(SerializedRows) /\ record \in Seq(RecordRows)
        /\ DOMAIN serialized = DOMAIN record /\ DOMAIN serialized = 1 .. Len(serialized)
        /\ \A x \in DOMAIN serialized :
             serialized[x].id = record[x].id /\ serialized[x].leg = record[x].leg
    <3>1. /\ serialized \in Seq(SerializedRows) /\ record \in Seq(RecordRows)
          /\ Len(serialized) = Len(record)
          /\ \A x \in DOMAIN serialized :
               serialized[x].id = record[x].id /\ serialized[x].leg = record[x].leg
      BY <2>1, Zenon DEF Books, FilesOK, SerializedFits
    <3> QED BY <3>1, SMT
  <2>4. ASSUME NEW id \in chosen, NEW leg \in Legs
        PROVE  \E x \in RowsOf(id, leg) : serialized[x].kind = Honest(id, leg)
    <3>1. PICK n \in DOMAIN selected : selected[n] = id
      BY <2>4
    <3>2. Recorded(selected[n], leg)
      BY <2>1, <2>4, <3>1, Zenon DEF Books, RecordCovers
    <3>3. Requested(leg)
      BY <2>4, Zenon DEF NotHeld
    <3>4. PICK x \in DOMAIN record : record[x].id = id /\ record[x].leg = leg
      BY <3>1, <3>2, <3>3, Zenon DEF Recorded
    <3>5. /\ x \in DOMAIN serialized /\ serialized[x].id = id /\ serialized[x].leg = leg
      BY <2>3, <3>4
    <3>6. x \in RowsOf(id, leg)
      BY <2>3, <3>5, Zenon DEF RowsOf
    <3>7. ~NotHeld(id, leg)
      BY <2>4
    <3>8. serialized[x].kind = Honest(id, leg)
      BY <2>1, <3>5, <3>7, RowKind, Zenon
    <3> QED BY <3>6, <3>8
  <2>5. ASSUME NEW id \in chosen PROVE id \notin opt.corrupt
    <3>1. \A leg \in Legs : FirstKind(id, leg) \in {"ok", "err"}
      <4>1. ASSUME NEW leg \in Legs PROVE FirstKind(id, leg) \in {"ok", "err"}
        <5>1. RowsOf(id, leg) # {}
          BY <2>4, <2>5, <4>1
        <5>2. FilesOK
          BY <2>1 DEF Books
        <5>3. \E x \in RowsOf(id, leg) : FirstKind(id, leg) = serialized[x].kind
          BY <5>1, <5>2, FirstKindOfRow
        <5>4. PICK x \in RowsOf(id, leg) : FirstKind(id, leg) = serialized[x].kind
          BY <5>3
        <5>5. x \in DOMAIN serialized /\ serialized[x].id = id /\ serialized[x].leg = leg
          BY <2>3, <5>4, Zenon DEF RowsOf
        <5>6. ~NotHeld(id, leg)
          BY <2>5, <4>1
        <5>7. serialized[x].kind = Honest(id, leg)
          BY <2>1, <5>5, <5>6, RowKind, Zenon
        <5> QED BY <5>4, <5>7, SMT DEF Honest
      <4> QED BY <4>1
    <3>2. Compared(id)
      BY <3>1, SMT DEF Compared, Legs
    <3> QED BY <2>2, <3>2
  <2>6. ASSUME NEW id \in chosen PROVE id \in BothOk
    <3>1. ASSUME NEW leg \in Legs PROVE id \in OkIds(leg)
      <4>1. PICK x \in RowsOf(id, leg) : serialized[x].kind = Honest(id, leg)
        BY <2>4, <2>6, <3>1
      <4>2. Honest(id, leg) = "ok"
        BY <2>5, <2>6 DEF Honest
      <4> QED BY <4>1, <4>2, SMT DEF OkIds, RowsOf
    <3> QED BY <3>1 DEF BothOk, Legs
  <2>7. ASSUME NEW id \in BothOk PROVE id \in chosen
    <3>1. PICK x \in DOMAIN serialized : serialized[x].id = id
      BY <2>3, <2>7, Zenon DEF BothOk, OkIds
    <3>2. id \in Cases /\ IsSelected(id)
      BY <2>1, <3>1, RowKind, Zenon
    <3> QED BY <3>2, Zenon DEF IsSelected
  <2> QED BY <2>2, <2>6, <2>7
<1> QED BY RunsKeepBooks, <1>1, PTL

\* A row of the record names the mode its leg was built in, whatever was asked of
\* the driver, and how it ended; another mode stands there only for a driver that
\* failed or did not say, and one that the VM has not stands there as unsupported.
THEOREM RecordIsEffective == (Spec \/ MSpec) => []RecordEffective
<1>1. ASSUME IInv, Books PROVE RecordEffective
  <2>1. ASSUME NEW x \in DOMAIN record
        PROVE  IF record[x].got = Unsupported
               THEN /\ record[x].leg = "vm" /\ record[x].mode # "runtime"
                    /\ ~\E y \in DOMAIN ran : ran[y].leg = "vm"
               ELSE BuiltAs(record[x])
    BY <1>1, <2>1, Zenon DEF Books, RecordFits, RanAsked
  <2> QED BY <2>1, Zenon DEF RecordEffective, BuiltAs
<1> QED BY RunsKeepBooks, <1>1, PTL

\* What a run of the matrix was asked: one leg, of the fixtures.
LEMMA EndedFacts ==
  ASSUME MInv, Ended
  PROVE  /\ opt.backend \in {"c", "vm"} /\ opt.backend \in Legs
         /\ \A leg \in Legs : Requested(leg) => leg = opt.backend
         /\ Requested(opt.backend)
         /\ \A id : IsSelected(id) => id \in Cases
<1>1. /\ rows \in Seq({"c", "vm"} \X Modes \X Results) /\ selected = Fixtures
      /\ opt = Ask(Len(rows) + 1, opt.driver) /\ Len(rows) < 6
  BY CombinationsAre, Zenon DEF MInv, MatrixInv, Ended
<1>2. Len(rows) + 1 \in 1 .. 6
  BY <1>1, SMT
<1>3. opt.backend \in {"c", "vm"}
  BY <1>1, <1>2, AskFields, CombinationsAre
<1>4. \A id : IsSelected(id) => id \in Cases
  BY <1>1, MatrixAssumption, Zenon DEF IsSelected
<1> QED BY <1>3, <1>4, SMT DEF Legs, Requested

\* A combination passes only if every fixture was built and run on its backend
\* to what the table says.
THEOREM PassIsEarned == MSpec => []PassEarned
<1>1. ASSUME MInv PROVE PassEarned
  <2> SUFFICES ASSUME Ended, Result = "pass"
               PROVE  /\ verdict = "green"
                      /\ \A x \in DOMAIN selected :
                           /\ table[selected[x]][opt.backend] # Skip
                           /\ RanAs(selected[x], opt.backend, table[selected[x]][opt.backend])
    BY DEF PassEarned
  <2>1. verdict = "green" /\ ~SawMismatch /\ ~SawUnsupported
    BY SMT DEF Result
  <2>2. /\ IInv /\ Books
        /\ \A x \in DOMAIN selected : x \in 1 .. at - 1
    BY <1>1, <2>1, GreenFacts DEF MInv
  <2>3. /\ opt.backend \in Legs /\ Requested(opt.backend)
        /\ \A id : IsSelected(id) => id \in Cases
    BY <1>1, EndedFacts
  <2>4. ASSUME NEW x \in DOMAIN selected
        PROVE  /\ table[selected[x]][opt.backend] # Skip
               /\ RanAs(selected[x], opt.backend, table[selected[x]][opt.backend])
    <3> PICK id : id = selected[x]
      OBVIOUS
    <3> PICK leg : leg = opt.backend
      OBVIOUS
    <3>1. id \in Cases
      BY <2>3, Zenon DEF IsSelected
    <3>2. Recorded(id, leg)
      BY <2>2, <2>3, <3>1, Zenon DEF Books, RecordCovers
    <3>3. PICK y \in DOMAIN record : record[y].id = id /\ record[y].leg = leg
      BY <2>3, <3>2, Zenon DEF Recorded
    <3>4. /\ record[y].got # Unsupported /\ record[y].got = record[y].want
          /\ record[y].want = table[id][leg] /\ BuiltAs(record[y])
      BY <2>1, <2>2, <3>3, Zenon DEF SawMismatch, SawUnsupported, Books, RecordFits
    <3>5. record[y].got \in Outcomes
      <4>1. record \in Seq(RecordRows)
        BY <2>2 DEF Books, FilesOK
      <4>2. record[y] \in RecordRows
        BY <4>1
      <4> QED BY <3>4, <4>2, SMT DEF RecordRows
    <3>6. record[y].got # Skip
      BY <3>5, SMT DEF Outcomes, Exit, Status, Skip
    <3>7. RanAs(id, leg, table[id][leg])
      BY <3>3, <3>4, Zenon DEF BuiltAs, RowOf, RanAs
    <3> QED BY <3>4, <3>6, <3>7
  <2> QED BY <2>1, <2>4
<1> QED BY MatrixInvariant, <1>1, PTL

\* Unsupported is said of the VM in another mode than runtime, and of nothing
\* that was built.
THEOREM UnsupportedIsHonest == MSpec => []UnsupportedHonest
<1>1. ASSUME MInv PROVE UnsupportedHonest
  <2> SUFFICES ASSUME Ended, Result = "unsupported"
               PROVE  opt.backend = "vm" /\ opt.mode # "runtime" /\ ran = <<>>
    BY DEF UnsupportedHonest
  <2>1. SawUnsupported
    BY SMT DEF Result
  <2>2. IInv /\ Books
    BY <1>1 DEF MInv
  <2>3. /\ \A leg \in Legs : Requested(leg) => leg = opt.backend
        /\ \A id : IsSelected(id) => id \in Cases
    BY <1>1, EndedFacts
  <2>4. Requested("vm") /\ opt.mode # "runtime"
    BY <2>1, <2>2, Zenon DEF SawUnsupported, Books, RecordFits
  <2>5. opt.backend = "vm"
    BY <2>3, <2>4 DEF Legs
  <2>6. ASSUME NEW x \in DOMAIN ran PROVE FALSE
    <3>1. /\ IsSelected(ran[x].id)
          /\ ran[x].leg = "reject" => ran[x].id \in Rejects
          /\ ran[x].leg # "reject" => Requested(ran[x].leg)
          /\ ran[x].leg = "vm" => opt.mode = "runtime"
      BY <2>2, <2>6, Zenon DEF Books, RanAsked
    <3>2. ran[x].leg \in Legs \cup {"reject"}
      <4>1. ran \in Seq(Builds)
        BY <2>2 DEF IInv, TypeOK
      <4>2. ran[x] \in Builds
        BY <2>6, <4>1
      <4> QED BY <4>2, SMT DEF Builds
    <3>3. ran[x].leg # "reject"
      BY <2>3, <3>1, RunnerAssumption, SMT
    <3>4. ran[x].leg = "vm"
      BY <2>3, <2>5, <3>1, <3>2, <3>3, Zenon
    <3> QED BY <2>4, <3>1, <3>4
  <2>7. ran = <<>>
    <3>1. ran \in Seq(Builds)
      BY <2>2 DEF IInv, TypeOK
    <3>2. DOMAIN ran = {}
      BY <2>6
    <3> QED BY <3>1, <3>2, SMT
  <2> QED BY <2>4, <2>5, <2>7
<1> QED BY MatrixInvariant, <1>1, PTL

\* A catalog that the gate passes is the live result, and the shape check of
\* tools/check_contract_matrix.py accepts it.
THEOREM JudgesDoAgree == MSpec => []JudgesAgree
<1>1. ASSUME MInv PROVE JudgesAgree
  <2> SUFFICES ASSUME gate = "PASS" PROVE catalog = rows /\ ShapeOk(catalog)
    BY DEF JudgesAgree
  <2>1. /\ rows \in Seq({"c", "vm"} \X Modes \X Results) /\ Len(rows) = 6
        /\ catalog = rows
        /\ \A x \in DOMAIN rows :
             rows[x][1] = Combinations[x][1] /\ rows[x][2] = Combinations[x][2]
        /\ \A x \in DOMAIN rows : rows[x][3] # "fail"
    BY <1>1, CombinationsAre, Zenon DEF MInv, MatrixInv
  <2>2. DOMAIN rows = 1 .. 6 /\ rows # NoFile
    <3>1. PICK S : S = {"c", "vm"} \X Modes \X Results
      OBVIOUS
    <3>2. rows \in Seq(S) /\ Len(rows) = 6
      BY <2>1, <3>1, Zenon
    <3> QED BY <3>2, SMT DEF NoFile
  <2>3. \A x \in DOMAIN rows :
          <<rows[x][1], rows[x][2]>> = <<Combinations[x][1], Combinations[x][2]>>
    BY <2>1
  <2>4. \A x, y \in DOMAIN rows :
          <<rows[x][1], rows[x][2]>> = <<rows[y][1], rows[y][2]>> => x = y
    <3>1. ASSUME NEW x \in DOMAIN rows, NEW y \in DOMAIN rows,
                 <<rows[x][1], rows[x][2]>> = <<rows[y][1], rows[y][2]>>
          PROVE  x = y
      <4>1. <<Combinations[x][1], Combinations[x][2]>> = <<Combinations[y][1], Combinations[y][2]>>
        BY <2>3, <3>1
      <4> QED BY <2>2, <4>1, CombinationsAre
    <3> QED BY <3>1
  <2>5. {<<rows[x][1], rows[x][2]>> : x \in DOMAIN rows} = {Combinations[n] : n \in DOMAIN Combinations}
    <3>1. \A n \in DOMAIN Combinations : Combinations[n] = <<Combinations[n][1], Combinations[n][2]>>
      <4>1. \A n \in 1 .. 6 : n = 1 \/ n = 2 \/ n = 3 \/ n = 4 \/ n = 5 \/ n = 6
        BY SMT
      <4>2. \A n \in 1 .. 6 : Combinations[n] = <<Combinations[n][1], Combinations[n][2]>>
        BY <4>1, SMT DEF Combinations
      <4> QED BY <4>2, CombinationsAre
    <3>2. DOMAIN rows = DOMAIN Combinations
      BY <2>2, CombinationsAre
    <3>3. \A x \in DOMAIN Combinations : <<rows[x][1], rows[x][2]>> = Combinations[x]
      <4>1. ASSUME NEW x \in DOMAIN Combinations
            PROVE  <<rows[x][1], rows[x][2]>> = Combinations[x]
        <5>1. <<rows[x][1], rows[x][2]>> = <<Combinations[x][1], Combinations[x][2]>>
          BY <2>3, <3>2, <4>1, Zenon
        <5>2. Combinations[x] = <<Combinations[x][1], Combinations[x][2]>>
          BY <3>1, <4>1, Zenon
        <5> QED BY <5>1, <5>2, Zenon
      <4> QED BY <4>1
    <3> QED BY <3>2, <3>3, Zenon
  <2>6. \A x \in DOMAIN rows : rows[x][3] \in Results \ {"fail"}
    <3>1. ASSUME NEW x \in DOMAIN rows PROVE rows[x][3] \in Results
      <4>1. PICK S : S = {"c", "vm"} \X Modes \X Results
        OBVIOUS
      <4>2. rows \in Seq(S) /\ Len(rows) = 6
        BY <2>1, <4>1
      <4>3. rows[x] \in S
        BY <4>2, ElementOf
      <4>4. PICK l \in {"c", "vm"}, mode \in Modes, res \in Results : rows[x] = <<l, mode, res>>
        BY <4>1, <4>3, SMT
      <4>5. rows[x][3] = res
        BY <4>4, SMT
      <4> QED BY <4>4, <4>5
    <3> QED BY <2>1, <3>1
  <2>7. ShapeOk(rows)
    BY <2>2, <2>4, <2>5, <2>6, Zenon DEF ShapeOk
  <2> QED BY <2>1, <2>7, Zenon
<1> QED BY MatrixInvariant, <1>1, PTL
-----------------------------------------------------------------------------
(* The release manifest. First what the checker's reading loop keeps of a      *)
(* file: RowsTo is a recursive function, which has to be shown to exist.       *)

\* One line more, after what f holds of the lines before it.
KeptStep(f, s, i) ==
  IF i = 1 THEN <<>> ELSE IF s[i] = Blank THEN f[i - 1] ELSE Append(f[i - 1], s[i])

IsKept(f, s, n) == f = [i \in 1 .. n |-> KeptStep(f, s, i)]

\* The reading loop's function exists.
LEMMA KeptExists ==
  ASSUME NEW s, NEW n \in Nat PROVE \E f : IsKept(f, s, n)
<1>1. SUFFICES ASSUME ~\E f : IsKept(f, s, n) PROVE FALSE
  OBVIOUS
<1>2. PICK T \in SUBSET Nat : T = {m \in Nat : ~\E f : IsKept(f, s, m)}
  OBVIOUS
<1>3. PICK m \in T : \A y \in T : m <= y
  <2>1. n \in T
    BY <1>1, <1>2
  <2> QED BY <2>1, LeastElement, Zenon
<1>4. ~\E f : IsKept(f, s, m)
  BY <1>2, <1>3
<1>5. CASE m = 0
  <2>1. PICK f : f = [i \in 1 .. m |-> s]
    OBVIOUS
  <2>2. 1 .. m = {}
    BY <1>5, SMT
  <2>3. f = [i \in 1 .. m |-> KeptStep(f, s, i)]
    BY <2>1, <2>2, Zenon
  <2> QED BY <1>4, <2>3 DEF IsKept
<1>6. CASE m # 0
  <2>1. PICK k \in Nat : m = k + 1
    BY <1>6, <1>3, SMT
  <2>2. PICK f : IsKept(f, s, k)
    <3>1. ~(m <= k)
      BY <2>1, SMT
    <3> QED BY <1>2, <1>3, <3>1
  <2>3. PICK g : g = [i \in 1 .. m |-> KeptStep(f, s, i)]
    OBVIOUS
  <2>4. ASSUME NEW i \in 1 .. m PROVE KeptStep(f, s, i) = KeptStep(g, s, i)
    <3>1. CASE i = 1
      BY <3>1 DEF KeptStep
    <3>2. CASE i # 1
      <4>1. i - 1 \in 1 .. k /\ i - 1 \in 1 .. m
        BY <2>1, <3>2, SMT
      <4>2. f[i - 1] = KeptStep(f, s, i - 1)
        <5> HIDE DEF KeptStep
        <5> QED BY <2>2, <4>1, Zenon DEF IsKept
      <4>3. g[i - 1] = KeptStep(f, s, i - 1)
        <5> HIDE DEF KeptStep
        <5> QED BY <2>3, <4>1, Zenon
      <4> QED BY <4>2, <4>3, Zenon DEF KeptStep
    <3> QED BY <3>1, <3>2
  <2>5. IsKept(g, s, m)
    <3> HIDE DEF KeptStep
    <3> QED BY <2>3, <2>4 DEF IsKept
  <2> QED BY <1>4, <2>5
<1> QED BY <1>5, <1>6

LEMMA RowsToIs ==
  ASSUME NEW S, NEW s \in Seq(S) PROVE IsKept(RowsTo(s), s, Len(s))
<1>1. \E f : IsKept(f, s, Len(s))
  BY KeptExists
<1>2. RowsTo(s) = CHOOSE f : IsKept(f, s, Len(s))
  BY Zenon DEF RowsTo, IsKept, KeptStep
<1> QED BY <1>1, <1>2, Zenon

\* kept has what stands in the lines 2 .. n of s, but for the blank ones.
Enumerates(kept, s, n) ==
  \E pos \in [1 .. Len(kept) -> 2 .. n] :
    /\ \A k \in 1 .. Len(kept) : kept[k] = s[pos[k]] /\ s[pos[k]] # Blank
    /\ \A x \in 2 .. n : s[x] # Blank => \E k \in 1 .. Len(kept) : pos[k] = x

KeptOk(kept, S, s, n) ==
  /\ kept \in Seq(S) /\ Enumerates(kept, s, n)
  /\ (\A x \in 2 .. n : s[x] # Blank) => kept = SubSeq(s, 2, n)

LEMMA KeptFirst ==
  ASSUME NEW S, NEW s \in Seq(S), s # <<>> PROVE KeptOk(<<>>, S, s, 1)
<1>1. PICK r : r = <<>>
  OBVIOUS
<1>2. r \in Seq(S) /\ Len(r) = 0 /\ 1 .. Len(r) = {} /\ 2 .. 1 = {}
  BY <1>1, SMT
<1>3. PICK pos : pos = [k \in 1 .. Len(r) |-> k]
  OBVIOUS
<1>4. pos \in [1 .. Len(r) -> 2 .. 1]
  BY <1>2, <1>3, Zenon
<1>5. Enumerates(r, s, 1)
  BY <1>2, <1>4, Zenon DEF Enumerates
<1>6. r = SubSeq(s, 2, 1)
  BY <1>1, SubSeqEmpty, SMT
<1> QED BY <1>1, <1>2, <1>5, <1>6, Zenon DEF KeptOk

LEMMA KeptBlank ==
  ASSUME NEW S, NEW s \in Seq(S), NEW r, NEW n \in Nat, 1 <= n, n + 1 <= Len(s),
         NEW m, m = n + 1, KeptOk(r, S, s, n), s[m] = Blank
  PROVE  KeptOk(r, S, s, m)
<1>1. PICK pos \in [1 .. Len(r) -> 2 .. n] :
        /\ \A k \in 1 .. Len(r) : r[k] = s[pos[k]] /\ s[pos[k]] # Blank
        /\ \A x \in 2 .. n : s[x] # Blank => \E k \in 1 .. Len(r) : pos[k] = x
  BY DEF KeptOk, Enumerates
<1>2. 2 .. n \subseteq 2 .. m /\ m \in 2 .. m /\ \A x \in 2 .. m : x # m => x \in 2 .. n
  BY SMT
<1>3. pos \in [1 .. Len(r) -> 2 .. m]
  BY <1>2
<1>4. \A x \in 2 .. m : s[x] # Blank => \E k \in 1 .. Len(r) : pos[k] = x
  BY <1>1, <1>2
<1>5. Enumerates(r, s, m)
  BY <1>1, <1>3, <1>4, Zenon DEF Enumerates
<1> QED BY <1>2, <1>5, Zenon DEF KeptOk

LEMMA KeptMore ==
  ASSUME NEW S, NEW s \in Seq(S), NEW r, NEW n \in Nat, 1 <= n, n + 1 <= Len(s),
         NEW m, m = n + 1, KeptOk(r, S, s, n), s[m] # Blank
  PROVE  KeptOk(Append(r, s[m]), S, s, m)
<1>1. PICK pos \in [1 .. Len(r) -> 2 .. n] :
        /\ \A k \in 1 .. Len(r) : r[k] = s[pos[k]] /\ s[pos[k]] # Blank
        /\ \A x \in 2 .. n : s[x] # Blank => \E k \in 1 .. Len(r) : pos[k] = x
  BY DEF KeptOk, Enumerates
<1>2. PICK l, t : l = Len(r) + 1 /\ t = Append(r, s[m])
  OBVIOUS
<1>3. r \in Seq(S) /\ s[m] \in S
  BY SMT DEF KeptOk
<1>4. /\ t \in Seq(S) /\ Len(t) = l /\ t[l] = s[m]
      /\ \A k \in 1 .. Len(r) : t[k] = r[k]
  BY <1>2, <1>3
<1>5. /\ 2 .. n \subseteq 2 .. m /\ m \in 2 .. m /\ \A x \in 2 .. m : x # m => x \in 2 .. n
      /\ 1 .. Len(r) \subseteq 1 .. l /\ l \in 1 .. l /\ l \notin 1 .. Len(r)
      /\ \A k \in 1 .. l : k # l => k \in 1 .. Len(r)
  BY <1>2, <1>3, SMT
<1>6. PICK p : p = [k \in 1 .. l |-> IF k = l THEN m ELSE pos[k]]
  OBVIOUS
<1>7. /\ p \in [1 .. l -> 2 .. m] /\ p[l] = m /\ \A k \in 1 .. Len(r) : p[k] = pos[k]
  BY <1>5, <1>6
<1>8. \A k \in 1 .. l : t[k] = s[p[k]] /\ s[p[k]] # Blank
  BY <1>1, <1>4, <1>5, <1>7
<1>9. ASSUME NEW x \in 2 .. m, s[x] # Blank PROVE \E k \in 1 .. l : p[k] = x
  <2>1. CASE x = m
    BY <1>5, <1>7, <2>1
  <2>2. CASE x # m
    <3>1. PICK k \in 1 .. Len(r) : pos[k] = x
      BY <1>1, <1>5, <1>9, <2>2
    <3> QED BY <1>5, <1>7, <3>1
  <2> QED BY <2>1, <2>2
<1>10. Enumerates(t, s, m)
  BY <1>4, <1>7, <1>8, <1>9, Zenon DEF Enumerates
<1>11. ASSUME \A x \in 2 .. m : s[x] # Blank PROVE t = SubSeq(s, 2, m)
  <2>1. r = SubSeq(s, 2, n)
    BY <1>5, <1>11, Zenon DEF KeptOk
  <2>2. SubSeq(s, 2, m) \in Seq(S) /\ Len(SubSeq(s, 2, m)) = n
        /\ \A k \in 1 .. n : SubSeq(s, 2, m)[k] = s[k + 1]
    BY SMT
  <2>3. Len(r) = n - 1 /\ \A k \in 1 .. n - 1 : r[k] = s[k + 1]
    BY <2>1, SMTT(30)
  <2>4. l = n
    BY <1>2, <2>3, SMT
  <2>5. ASSUME NEW k \in 1 .. n PROVE t[k] = s[k + 1]
    <3>1. CASE k = n
      BY <1>4, <2>4, <3>1, SMT
    <3>2. CASE k # n
      <4>1. k \in 1 .. n - 1 /\ k \in 1 .. Len(r)
        BY <2>3, <3>2, SMT
      <4> QED BY <1>4, <2>3, <4>1, Zenon
    <3> QED BY <3>1, <3>2
  <2>6. \A k \in 1 .. Len(t) : t[k] = SubSeq(s, 2, m)[k]
    BY <1>4, <2>2, <2>4, <2>5
  <2>7. Len(t) = Len(SubSeq(s, 2, m))
    BY <1>4, <2>2, <2>4
  <2> QED BY <1>4, <2>2, <2>6, <2>7, SeqEqual, Zenon
<1> QED BY <1>2, <1>4, <1>10, <1>11, Zenon DEF KeptOk

\* What the checker reads of a file: its rows, in their order, none twice.
LEMMA KeptIs ==
  ASSUME NEW S, NEW s \in Seq(S), s # <<>>, NEW f, IsKept(f, s, Len(s))
  PROVE  \A n \in 1 .. Len(s) : KeptOk(f[n], S, s, n)
<1>0. PICK L \in Nat : L = Len(s)
  OBVIOUS
<1>1. SUFFICES ASSUME NEW n \in 1 .. L, ~KeptOk(f[n], S, s, n) PROVE FALSE
  BY <1>0
<1>2. PICK T \in SUBSET Nat : T = {m \in Nat : m \in 1 .. L /\ ~KeptOk(f[m], S, s, m)}
  OBVIOUS
<1>3. PICK m \in T : \A y \in T : m <= y
  <2>1. n \in T
    BY <1>1, <1>2
  <2> QED BY <2>1, LeastElement, Zenon
<1>4. m \in 1 .. L /\ ~KeptOk(f[m], S, s, m)
  BY <1>2, <1>3
<1>5. f[m] = KeptStep(f, s, m)
  BY <1>0, <1>4, Zenon DEF IsKept
<1>6. CASE m = 1
  <2>1. f[m] = <<>>
    BY <1>5, <1>6 DEF KeptStep
  <2> QED BY <1>4, <1>6, <2>1, KeptFirst, Zenon
<1>7. CASE m # 1
  <2>1. PICK k \in Nat : m = k + 1 /\ k = m - 1
    BY <1>4, <1>7, SMT
  <2>2. 1 <= k /\ k + 1 <= Len(s) /\ k \in 1 .. L /\ ~(m <= k)
    BY <1>0, <1>4, <1>7, <2>1, SMT
  <2>3. KeptOk(f[k], S, s, k)
    BY <1>2, <1>3, <2>2, Zenon
  <2>4. f[m] = IF s[m] = Blank THEN f[k] ELSE Append(f[k], s[m])
    BY <1>5, <1>7, <2>1, Zenon DEF KeptStep
  <2>5. PICK r : r = f[k]
    OBVIOUS
  <2>6. CASE s[m] = Blank
    BY <1>4, <2>1, <2>2, <2>3, <2>4, <2>5, <2>6, KeptBlank, Zenon
  <2>7. CASE s[m] # Blank
    BY <1>4, <2>1, <2>2, <2>3, <2>4, <2>5, <2>7, KeptMore, Zenon
  <2> QED BY <2>6, <2>7
<1> QED BY <1>6, <1>7

LEMMA RowsAre ==
  ASSUME NEW S, file \in Seq(S), file # <<>>
  PROVE  KeptOk(Rows, S, file, Len(file))
<1>1. IsKept(RowsTo(file), file, Len(file))
  BY RowsToIs, Zenon
<1>2. PICK f : f = RowsTo(file)
  OBVIOUS
<1>3. Len(file) \in 1 .. Len(file)
  BY SMT
<1>4. KeptOk(f[Len(file)], S, file, Len(file))
  BY <1>1, <1>2, <1>3, KeptIs, Zenon
<1> QED BY <1>2, <1>4 DEF Rows

\* A manifest, line by line.
LEMMA ManifestIs ==
  ASSUME NEW S, NEW b \in Seq(S), NEW m, m = Manifest(b)
  PROVE  /\ m \in Seq(S \cup {Header, Sum(b)}) /\ Len(m) = Len(b) + 2 /\ m # <<>>
         /\ m[1] = Header /\ m[Len(b) + 2] = Sum(b)
         /\ \A x \in 1 .. Len(b) : m[x + 1] = b[x]
         /\ SubSeq(m, 2, Len(m) - 1) = b
         /\ m = <<Header>> \o (b \o <<Sum(b)>>)
<1>1. PICK T : T = S \cup {Header, Sum(b)}
  OBVIOUS
<1>2. PICK h, z : h = <<Header>> /\ z = <<Sum(b)>>
  OBVIOUS
<1>3. b \in Seq(T) /\ h \in Seq(T) /\ z \in Seq(T) /\ Len(h) = 1 /\ Len(z) = 1
  BY <1>1, <1>2
<1>4. PICK c, d : c = h \o b /\ d = b \o z
  OBVIOUS
<1>5. /\ c \in Seq(T) /\ Len(c) = Len(b) + 1
      /\ c[1] = Header /\ \A x \in 1 .. Len(b) : c[x + 1] = b[x]
  BY <1>2, <1>3, <1>4
<1>6. m = c \o z
  BY <1>2, <1>4 DEF Manifest
<1>7. /\ m \in Seq(T) /\ Len(m) = Len(b) + 2
      /\ m[Len(b) + 2] = Sum(b) /\ \A x \in 1 .. Len(b) + 1 : m[x] = c[x]
  BY <1>2, <1>3, <1>5, <1>6
<1>8. m[1] = Header /\ (\A x \in 1 .. Len(b) : m[x + 1] = b[x]) /\ m # <<>>
  BY <1>5, <1>7
<1>9. m = h \o d
  <2>1. (h \o b) \o z = h \o (b \o z)
    BY <1>3, ConcatAssociative
  <2> QED BY <1>4, <1>6, <2>1, Zenon
<1>10. SubSeq(m, 2, Len(m) - 1) = b
  <2>1. PICK e : e = SubSeq(m, 2, Len(m) - 1)
    OBVIOUS
  <2>2. Len(m) - 1 = Len(b) + 1
    BY <1>7
  <2>3. /\ e \in Seq(T) /\ Len(e) = Len(b)
        /\ \A x \in 1 .. Len(b) : e[x] = m[x + 1]
    BY <1>7, <2>1, <2>2
  <2>4. \A x \in 1 .. Len(e) : e[x] = b[x]
    BY <1>8, <2>3
  <2> QED BY <1>3, <2>1, <2>3, <2>4, SeqEqual, Zenon
<1> QED BY <1>1, <1>2, <1>4, <1>7, <1>8, <1>9, <1>10, Zenon

\* Rows that end with their digest.
LEMMA SealedIs ==
  ASSUME NEW S, NEW r \in Seq(S), Sealed(r), NEW b, b = Front(r)
  PROVE  b \in Seq(S) /\ r = b \o <<Sum(b)>> /\ Len(r) \in 1 .. Len(r) /\ r[Len(r)] = Sum(b)
<1>1. r # <<>> /\ r[Len(r)] = Sum(b) /\ b = SubSeq(r, 1, Len(r) - 1)
  BY DEF Sealed, Front, Last
<1>2. PICK n \in Nat : n = Len(r)
  OBVIOUS
<1>3. n # 0 /\ n \in 1 .. n
  BY <1>1, <1>2
<1>4. b \in Seq(S) /\ Len(b) = n - 1 /\ \A x \in 1 .. n - 1 : b[x] = r[x]
  BY <1>1, <1>2, <1>3
<1>5. PICK e : e = b \o <<Sum(b)>>
  OBVIOUS
<1>6. Sum(b) \in S
  BY <1>1, <1>2, <1>3
<1>7. e \in Seq(S) /\ Len(e) = n /\ e[n] = Sum(b) /\ \A x \in 1 .. n - 1 : e[x] = b[x]
  BY <1>3, <1>4, <1>5, <1>6
<1>8. \A x \in 1 .. Len(r) : r[x] = e[x]
  BY <1>1, <1>2, <1>3, <1>4, <1>7
<1>9. r = e
  BY <1>2, <1>7, <1>8, SeqEqual, Zenon
<1> QED BY <1>1, <1>2, <1>3, <1>4, <1>5, <1>9

LEMMA SumIs ==
  ASSUME NEW b PROVE IsSum(Sum(b)) /\ Sum(b).val[2] = b
BY SMT DEF IsSum, Sum, Line

\* What the checker accepts was made.
LEMMA AcceptedRows ==
  ASSUME RInv, Accepts
  PROVE  \E b : IsBody(b) /\ made = Manifest(b) /\ Rows = b \o <<Sum(b)>>
<1>1. PICK S : S = Range(file)
  OBVIOUS
<1>2. file \in Seq(S) /\ file # <<>>
  BY <1>1 DEF RInv, Accepts
<1>3. KeptOk(Rows, S, file, Len(file))
  BY <1>2, RowsAre, Zenon
<1>4. PICK b : b = Front(Rows)
  OBVIOUS
<1>5. /\ Rows \in Seq(S) /\ Len(Rows) \in 1 .. Len(Rows)
      /\ b \in Seq(S) /\ Rows = b \o <<Sum(b)>> /\ Rows[Len(Rows)] = Sum(b)
  <2>1. Rows \in Seq(S) /\ Sealed(Rows)
    BY <1>3, Zenon DEF KeptOk, Accepts
  <2> QED BY <1>4, <2>1, SealedIs, Zenon
<1>6. PICK x \in 2 .. Len(file) : file[x] = Sum(b)
  <2>1. PICK pos \in [1 .. Len(Rows) -> 2 .. Len(file)] :
          \A k \in 1 .. Len(Rows) : Rows[k] = file[pos[k]]
    BY <1>3, Zenon DEF KeptOk, Enumerates
  <2>2. pos[Len(Rows)] \in 2 .. Len(file)
    BY <1>5, <2>1, Zenon
  <2> QED BY <1>5, <2>1, <2>2, Zenon
<1>7. x \in DOMAIN file
  BY <1>2, SMT
<1>8. made = Manifest(b)
  <2>1. LineOk(Sum(b), made)
    BY <1>6, <1>7, Zenon DEF RInv
  <2> QED BY <2>1, SumIs, Zenon DEF LineOk
<1>9. made # <<>> /\ SubSeq(made, 2, Len(made) - 1) = b
  BY <1>5, <1>8, ManifestIs, Zenon
<1>10. IsBody(b)
  BY <1>9, Zenon DEF RInv
<1> QED BY <1>5, <1>8, <1>10, Zenon

\* An accepted file has the rows of the last writer.
LEMMA MadeFollows == ASSUME RInv PROVE AcceptedIsMade
<1>1. SUFFICES ASSUME Accepts PROVE <<Header>> \o Rows = made
  BY DEF AcceptedIsMade
<1>2. PICK b : IsBody(b) /\ made = Manifest(b) /\ Rows = b \o <<Sum(b)>>
  BY <1>1, AcceptedRows, Zenon
<1>3. b \in Seq([key : BodyKey, val : BodyVal])
  BY <1>2, Zenon DEF IsBody
<1>4. made = <<Header>> \o (b \o <<Sum(b)>>)
  BY <1>2, <1>3, ManifestIs, Zenon
<1> QED BY <1>2, <1>4, Zenon

Row == [key : BodyKey, val : BodyVal]

LEMMA BodyKeys ==
  /\ \A k \in BodyKey : /\ k # <<"component">> /\ k # <<"blank">> /\ k # <<"half">>
                        /\ k # <<"manifest-digest">>
  /\ \A l \in Row : /\ l # Header /\ l # Blank /\ l # Half /\ ~IsSum(l)
                    /\ l = Line(l.key, l.val)
  /\ \A n : Header.key # <<"catalog-digest", n>> /\ Header.key[1] # "catalog-digest"
  /\ \A n, r : Sum(r).key # <<"catalog-digest", n>> /\ Sum(r).key[1] # "catalog-digest"
<1>1. \A k \in BodyKey : /\ k # <<"component">> /\ k # <<"blank">> /\ k # <<"half">>
                         /\ k # <<"manifest-digest">>
  BY SMT DEF BodyKey
<1>2. ASSUME NEW l \in Row
      PROVE  l # Header /\ l # Blank /\ l # Half /\ ~IsSum(l) /\ l = Line(l.key, l.val)
  <2>1. l.key \in BodyKey /\ l = Line(l.key, l.val)
    BY DEF Row, Line
  <2>2. Header.key = <<"component">> /\ Blank.key = <<"blank">> /\ Half.key = <<"half">>
    BY DEF Header, Blank, Half, Line
  <2> QED BY <1>1, <2>1, <2>2, Zenon DEF IsSum
<1>3. \A n : Header.key # <<"catalog-digest", n>> /\ Header.key[1] # "catalog-digest"
  BY SMT DEF Header, Line
<1>4. \A n, r : Sum(r).key # <<"catalog-digest", n>> /\ Sum(r).key[1] # "catalog-digest"
  BY SMT DEF Sum, Line
<1> QED BY <1>1, <1>2, <1>3, <1>4, Zenon

\* A key that stands once is looked up where it stands.
LEMMA LastValueIs ==
  ASSUME NEW S, NEW r \in Seq(S), NEW x \in DOMAIN r, NEW k, r[x].key = k,
         \A y \in DOMAIN r : r[y].key = k => y = x
  PROVE  Has(r, k) /\ LastValue(r, k) = r[x].val
<1>1. \A y \in DOMAIN r : r[y].key = k => y <= x
  BY SMT
<1>2. PICK z : z = CHOOSE w \in DOMAIN r :
                     r[w].key = k /\ \A y \in DOMAIN r : r[y].key = k => y <= w
  OBVIOUS
<1>3. z \in DOMAIN r /\ r[z].key = k
  BY <1>1, <1>2, Zenon
<1>4. z = x
  BY <1>3, Zenon
<1> QED BY <1>2, <1>4, Zenon DEF Has, LastValue

\* The rows of a manifest, key by key.
BodyRows(b, r) ==
  /\ b \in Seq(Row) /\ r \in Seq(Row \cup {Sum(b)}) /\ Len(r) = Len(b) + 1
  /\ DOMAIN r = 1 .. Len(b) + 1 /\ r[Len(b) + 1] = Sum(b)
  /\ \A x \in 1 .. Len(b) : r[x] = b[x] /\ b[x] \in Row
  /\ \A x, y \in DOMAIN r : r[x].key = r[y].key => x = y
  /\ \A x \in DOMAIN r : r[x].key[1] = "catalog-digest" => x \in 1 .. Len(b)

LEMMA RowsOfBody ==
  ASSUME NEW b, IsBody(b), NEW r, r = b \o <<Sum(b)>> PROVE BodyRows(b, r)
<1>1. b \in Seq(Row) /\ \A x, y \in DOMAIN b : b[x].key = b[y].key => x = y
  BY DEF IsBody, Row
<1>2. PICK z : z = <<Sum(b)>>
  OBVIOUS
<1>3. /\ r \in Seq(Row \cup {Sum(b)}) /\ Len(r) = Len(b) + 1 /\ r[Len(b) + 1] = Sum(b)
      /\ DOMAIN r = 1 .. Len(b) + 1
      /\ \A x \in 1 .. Len(b) : r[x] = b[x] /\ b[x] \in Row
  <2>1. PICK T : T = Row \cup {Sum(b)}
    OBVIOUS
  <2>2. b \in Seq(T) /\ z \in Seq(T) /\ Len(z) = 1 /\ z[1] = Sum(b) /\ r = b \o z
    BY <1>1, <1>2, <2>1
  <2>3. /\ r \in Seq(T) /\ Len(r) = Len(b) + 1 /\ r[Len(b) + 1] = Sum(b)
        /\ DOMAIN r = 1 .. Len(b) + 1 /\ \A x \in 1 .. Len(b) : r[x] = b[x]
    BY <2>2
  <2>4. \A x \in 1 .. Len(b) : b[x] \in Row
    BY <1>1
  <2> QED BY <2>1, <2>3, <2>4
<1>4. /\ Len(b) \in Nat /\ DOMAIN b = 1 .. Len(b)
      /\ \A x \in 1 .. Len(b) + 1 : x # Len(b) + 1 => x \in 1 .. Len(b)
  BY <1>1
<1>5. Sum(b).key = <<"manifest-digest">> /\ Sum(b).key[1] # "catalog-digest"
  BY SMT DEF Sum, Line
<1>6. \A x \in 1 .. Len(b) : b[x].key \in BodyKey
  BY <1>3 DEF Row
<1>7. \A x, y \in DOMAIN r : r[x].key = r[y].key => x = y
  <2>1. ASSUME NEW x \in DOMAIN r, NEW y \in DOMAIN r, r[x].key = r[y].key PROVE x = y
    <3>1. CASE x = Len(b) + 1
      <4>1. r[y].key = <<"manifest-digest">>
        BY <1>3, <1>5, <2>1, <3>1, Zenon
      <4> QED BY <1>3, <1>4, <1>6, <3>1, <4>1, BodyKeys, Zenon
    <3>2. CASE y = Len(b) + 1
      <4>1. r[x].key = <<"manifest-digest">>
        BY <1>3, <1>5, <2>1, <3>2, Zenon
      <4> QED BY <1>3, <1>4, <1>6, <3>2, <4>1, BodyKeys, Zenon
    <3>3. CASE x # Len(b) + 1 /\ y # Len(b) + 1
      BY <1>1, <1>3, <1>4, <2>1, <3>3, Zenon
    <3> QED BY <3>1, <3>2, <3>3
  <2> QED BY <2>1
<1>8. \A x \in DOMAIN r : r[x].key[1] = "catalog-digest" => x \in 1 .. Len(b)
  BY <1>3, <1>4, <1>5, Zenon
<1> QED BY <1>1, <1>3, <1>7, <1>8, Zenon DEF BodyRows

\* An accepted file has one row for every catalog, and it is so of the catalog.
LEMMA CurrentFollows == ASSUME RInv PROVE AcceptedIsCurrent
<1>1. SUFFICES ASSUME Accepts
      PROVE  /\ \A n \in Existing : \E x \in DOMAIN file :
                  /\ file[x] = Digest(n, live[n])
                  /\ \A y \in DOMAIN file : file[y].key = file[x].key => y = x
             /\ \A x \in DOMAIN file :
                  file[x].key[1] = "catalog-digest" => file[x].key[2] \in Existing
  BY Zenon DEF AcceptedIsCurrent
<1>2. PICK b, r : IsBody(b) /\ r = Rows /\ r = b \o <<Sum(b)>>
  BY <1>1, AcceptedRows, Zenon
<1>3. PICK L, S : L \in Nat /\ L = Len(file) /\ S = Range(file)
  <2>1. file \in Seq(Range(file))
    BY DEF RInv
  <2> QED BY <2>1
<1>4. file \in Seq(S) /\ file # <<>> /\ DOMAIN file = 1 .. L /\ file[1] = Header
  <2>1. file \in Seq(S) /\ file # <<>> /\ Head(file) = Header
    BY <1>1, <1>3 DEF RInv, Accepts
  <2> QED BY <1>3, <2>1
<1>5. PICK pos \in [1 .. Len(r) -> 2 .. L] :
        /\ \A k \in 1 .. Len(r) : r[k] = file[pos[k]] /\ file[pos[k]] # Blank
        /\ \A x \in 2 .. L : file[x] # Blank => \E k \in 1 .. Len(r) : pos[k] = x
  <2>1. KeptOk(r, S, file, L)
    BY <1>2, <1>3, <1>4, RowsAre, Zenon
  <2> QED BY <2>1, Zenon DEF KeptOk, Enumerates
<1>6. /\ b \in Seq(Row) /\ r \in Seq(Row \cup {Sum(b)}) /\ Len(r) = Len(b) + 1
      /\ DOMAIN r = 1 .. Len(b) + 1 /\ r[Len(b) + 1] = Sum(b)
      /\ \A x \in 1 .. Len(b) : r[x] = b[x] /\ b[x] \in Row
      /\ \A x, y \in DOMAIN r : r[x].key = r[y].key => x = y
      /\ \A x \in DOMAIN r : r[x].key[1] = "catalog-digest" => x \in 1 .. Len(b)
  <2>1. BodyRows(b, r)
    BY <1>2, RowsOfBody, Zenon
  <2> QED BY <2>1, Zenon DEF BodyRows
<1>7. Current(r)
  BY <1>1, <1>2, Zenon DEF Accepts
<1>8. \A x \in 2 .. L : x \in 1 .. L
  BY SMT
<1>9. Blank.key[1] # "catalog-digest"
  BY SMT DEF Blank, Line
<1>10. ASSUME NEW y \in DOMAIN file, file[y].key[1] = "catalog-digest"
       PROVE  \E k \in 1 .. Len(r) : pos[k] = y /\ r[k] = file[y]
  <2>1. y # 1
    BY <1>4, <1>10, BodyKeys, Zenon
  <2>2. y \in 2 .. L
    BY <1>4, <2>1, SMT
  <2>3. file[y] # Blank
    BY <1>9, <1>10, Zenon
  <2> QED BY <1>5, <2>2, <2>3, Zenon
<1>11. ASSUME NEW n \in Existing
       PROVE  \E x \in DOMAIN file :
                /\ file[x] = Digest(n, live[n])
                /\ \A y \in DOMAIN file : file[y].key = file[x].key => y = x
  <2>1. PICK key : key = <<"catalog-digest", n>>
    OBVIOUS
  <2>2. Has(r, key) /\ LastValue(r, key) = Text(live[n]) /\ live[n] # Absent
    BY <1>7, <1>11, <2>1, Zenon DEF Current, Existing
  <2>3. PICK k \in DOMAIN r : r[k].key = key
    BY <2>2, Zenon DEF Has
  <2>4. r[k].val = Text(live[n])
    <3>1. \A y \in DOMAIN r : r[y].key = key => y = k
      BY <1>6, <2>3, Zenon
    <3>2. LastValue(r, key) = r[k].val
      BY <1>6, <2>3, <3>1, LastValueIs, Zenon
    <3> QED BY <2>2, <3>2
  <2>5. key[1] = "catalog-digest"
    BY <2>1
  <2>6. r[k] \in Row
    BY <1>6, <2>3, <2>5, Zenon
  <2>7. r[k] = Digest(n, live[n])
    <3>1. r[k] = Line(key, Text(live[n]))
      BY <2>3, <2>4, <2>6, BodyKeys, Zenon
    <3> QED BY <2>1, <2>2, <3>1, Zenon DEF Digest
  <2>8. k \in 1 .. Len(r)
    BY <1>6, Zenon
  <2>9. pos[k] \in DOMAIN file /\ file[pos[k]] = r[k]
    BY <1>4, <1>5, <1>8, <2>8, Zenon
  <2>10. ASSUME NEW y \in DOMAIN file, file[y].key = file[pos[k]].key PROVE y = pos[k]
    <3>1. file[y].key = key
      BY <2>3, <2>9, <2>10, Zenon
    <3>2. PICK l \in 1 .. Len(r) : pos[l] = y /\ r[l] = file[y]
      BY <1>10, <2>5, <3>1, Zenon
    <3>3. l = k
      BY <1>6, <2>3, <2>8, <3>1, <3>2, Zenon
    <3> QED BY <3>2, <3>3
  <2> QED BY <2>7, <2>9, <2>10, Zenon
<1>12. ASSUME NEW y \in DOMAIN file, file[y].key[1] = "catalog-digest"
       PROVE  file[y].key[2] \in Existing
  <2>1. PICK k \in 1 .. Len(r) : r[k] = file[y]
    BY <1>10, <1>12, Zenon
  <2>2. r[k].key[1] = "catalog-digest" /\ k \in DOMAIN r
    BY <1>6, <1>12, <2>1, Zenon
  <2>3. r[k].key \in BodyKey
    BY <1>6, <2>2 DEF Row
  <2>4. PICK n \in Names : r[k].key = <<"catalog-digest", n>>
    BY <2>2, <2>3, SMT DEF BodyKey
  <2>5. Has(r, <<"catalog-digest", n>>)
    BY <2>2, <2>4, Zenon DEF Has
  <2>6. n \in Existing
    BY <1>7, <2>5, Zenon DEF Current, Existing
  <2>7. file[y].key[2] = n
    BY <2>1, <2>4, SMT
  <2> QED BY <2>6, <2>7
<1> QED BY <1>11, <1>12, Zenon

-----------------------------------------------------------------------------
(* The invariant of the writer, its file and the world around them.            *)

\* The parts of the invariant, for the steps that leave some of them alone.
FileOk == file \in Seq(Range(file)) /\ \A x \in DOMAIN file : LineOk(file[x], made)
MadeOk == made # <<>> => LET b == SubSeq(made, 2, Len(made) - 1)
                         IN  IsBody(b) /\ made = Manifest(b)
PlaceOk ==
  /\ live \in [Names -> Contents \cup {Absent}]
  /\ pc \in {"idle", "digesting", "writing"}
  /\ pc = "writing" => made = <<>> /\ todo = <<>>

LEMMA Parts == RInv <=> PlaceOk /\ MadeOk /\ FileOk /\ (pc # "idle" => WriterOk)
BY Zenon DEF RInv, PlaceOk, MadeOk, FileOk

\* Lines that are in order.
LEMMA FileFrom ==
  ASSUME NEW S, NEW f \in Seq(S), NEW m, \A l \in S : LineOk(l, m)
  PROVE  f \in Seq(Range(f)) /\ \A x \in DOMAIN f : LineOk(f[x], m)
<1>1. f \in Seq(Range(f))
  <2>0. Len(f) \in Nat /\ f \in [1 .. Len(f) -> S] /\ DOMAIN f = 1 .. Len(f)
    BY LenProperties
  <2>1. PICK n : n = Len(f)
    OBVIOUS
  <2>2. \A x \in DOMAIN f : f[x] \in Range(f)
    BY Zenon DEF Range
  <2>3. n \in Nat /\ f \in [1 .. n -> Range(f)]
    <3>1. f = [x \in 1 .. n |-> f[x]] /\ DOMAIN f = 1 .. n
      BY <2>0, <2>1
    <3> QED BY <2>0, <2>1, <2>2, <3>1, Zenon
  <2> QED BY <2>3, SeqDef, Zenon
<1>2. \A x \in DOMAIN f : f[x] \in S
  BY SMT
<1> QED BY <1>1, <1>2, Zenon

LEMMA EmptyFileOk == ASSUME file' = <<>> PROVE FileOk'
<1>1. PICK f : f = <<>>
  OBVIOUS
<1>2. f \in Seq({}) /\ \A l \in {} : LineOk(l, made')
  BY <1>1, EmptySeq
<1>3. f \in Seq(Range(f)) /\ \A x \in DOMAIN f : LineOk(f[x], made')
  BY <1>2, FileFrom
<1> QED BY <1>1, <1>3, Zenon DEF FileOk

\* A set finite and listed: every element once.
LEMMA SetToSeqIs ==
  ASSUME NEW S, IsFiniteSet(S)
  PROVE  /\ SetToSeq(S) \in Seq(S) /\ IsInjective(SetToSeq(S))
         /\ \A n \in S : n \in Range(SetToSeq(S))
<1>1. PICK k \in Nat : k = Cardinality(S) /\ ExistsBijection(1 .. k, S)
  BY FS_CardinalityType
<1>2. PICK g : g \in Bijection(1 .. k, S)
  BY <1>1, Zenon DEF ExistsBijection
<1>3. g \in [1 .. k -> S] /\ IsInjective(g)
  BY <1>2, Zenon DEF Bijection, Injection
<1>4. PICK f : f = SetToSeq(S)
  OBVIOUS
<1>5. f \in [1 .. k -> S] /\ IsInjective(f)
  BY <1>1, <1>3, <1>4, Zenon DEF SetToSeq
<1>6. f \in Seq(S)
  BY <1>5, SeqDef, Zenon
<1>7. PICK T : T = Range(f)
  OBVIOUS
<1>8. T \in SUBSET S
  BY <1>5, <1>7, SMT DEF Range
<1>9. f \in Bijection(1 .. k, T)
  <2>1. f \in [1 .. k -> T]
    BY <1>5, <1>7, SMT DEF Range
  <2>2. \A t \in T : \E x \in 1 .. k : f[x] = t
    BY <1>5, <1>7, SMT DEF Range
  <2> QED BY <1>5, <2>1, <2>2, Zenon DEF Bijection, Injection, Surjection
<1>10. Cardinality(T) = k
  BY <1>1, <1>9, FS_CountingElements, Zenon DEF ExistsBijection
<1>11. T = S
  BY <1>1, <1>8, <1>10, FS_Subset, Zenon
<1> QED BY <1>4, <1>5, <1>6, <1>7, <1>11, Zenon

LEMMA DigestIs ==
  ASSUME NEW n \in Names, NEW c \in Contents \cup {Absent}
  PROVE  Digest(n, c) \in Row /\ Digest(n, c).key = <<"catalog-digest", n>>
<1>1. <<"catalog-digest", n>> \in BodyKey
  BY Zenon DEF BodyKey
<1>2. (IF c = Absent THEN NoText ELSE Text(c)) \in BodyVal
  BY Zenon DEF BodyVal
<1> QED BY <1>1, <1>2, SMT DEF Digest, Line, Row

LEMMA FieldsAre ==
  ASSUME live \in [Names -> Contents \cup {Absent}]
  PROVE  /\ Fields \in Seq(Row) /\ Len(Fields) = 2 /\ DOMAIN Fields = 1 .. 2
         /\ Fields[1].key = <<"sv0-strings-head">> /\ Fields[2].key = <<"supported-targets">>
         /\ Fields[1].val = Revision
         /\ live[Targets] \notin {Absent, NoTargets} => Fields[2].val = Text(live[Targets])
         /\ IsBody(Fields)
<1>1. PICK u, v : /\ u = Line(<<"sv0-strings-head">>, Revision)
                  /\ v = Line(<<"supported-targets">>,
                              IF live[Targets] \in {Absent, NoTargets} THEN NoText
                              ELSE Text(live[Targets]))
  OBVIOUS
<1>2. Fields = <<u, v>>
  BY <1>1, Zenon DEF Fields
<1>3. /\ <<"sv0-strings-head">> \in BodyKey /\ <<"supported-targets">> \in BodyKey
      /\ Revision \in BodyVal
  BY Zenon DEF BodyKey, BodyVal
<1>4. (IF live[Targets] \in {Absent, NoTargets} THEN NoText ELSE Text(live[Targets])) \in BodyVal
  <2>1. live[Targets] \in Contents \cup {Absent}
    BY ManifestAssumption
  <2> QED BY <2>1, Zenon DEF BodyVal
<1>5. u \in Row /\ v \in Row
  BY <1>1, <1>3, <1>4, SMT DEF Row, Line
<1>6. /\ u.key = <<"sv0-strings-head">> /\ v.key = <<"supported-targets">> /\ u.val = Revision
      /\ live[Targets] \notin {Absent, NoTargets} => v.val = Text(live[Targets])
  BY <1>1, SMT DEF Line
<1>7. u.key # v.key
  BY <1>6, SMT
<1>8. /\ Fields \in Seq(Row) /\ Len(Fields) = 2 /\ DOMAIN Fields = 1 .. 2
      /\ Fields[1] = u /\ Fields[2] = v
  BY <1>2, <1>5, SMT
<1>9. \A x, y \in DOMAIN Fields : Fields[x].key = Fields[y].key => x = y
  <2>1. \A x \in 1 .. 2 : x = 1 \/ x = 2
    BY SMT
  <2> QED BY <1>7, <1>8, <2>1, Zenon
<1>10. IsBody(Fields)
  BY <1>8, <1>9, Zenon DEF IsBody, Row
<1> QED BY <1>6, <1>8, <1>10, Zenon

LEMMA PartsNext ==
  ASSUME PlaceOk', MadeOk', FileOk', pc' # "idle" => WriterOk'
  PROVE  RInv'
BY Zenon DEF RInv, PlaceOk, MadeOk, FileOk

LEMMA InitHolds == RInit => RInv
<1>1. SUFFICES ASSUME RInit PROVE RInv
  OBVIOUS
<1>2. FileOk
  <2>1. PICK f : f = file
    OBVIOUS
  <2>2. f \in Seq({}) /\ \A l \in {} : LineOk(l, made)
    BY <1>1, <2>1, EmptySeq DEF RInit
  <2>3. f \in Seq(Range(f)) /\ \A x \in DOMAIN f : LineOk(f[x], made)
    BY <2>2, FileFrom
  <2> QED BY <2>1, <2>3, Zenon DEF FileOk
<1>3. PlaceOk /\ MadeOk
  BY <1>1, Zenon DEF RInit, PlaceOk, MadeOk
<1>4. ~(pc # "idle")
  BY <1>1 DEF RInit
<1> QED BY <1>2, <1>3, <1>4, Parts, Zenon

\* What stays while the catalogs do.
LEMMA SameCatalogs ==
  ASSUME live' = live
  PROVE  Existing' = Existing /\ Fields' = Fields
<1>1. Existing' = Existing
  BY Zenon DEF Existing
<1>2. Fields' = Fields
  BY Zenon DEF Fields
<1> QED BY <1>1, <1>2

LEMMA BeginKeeps == ASSUME RInv, Begin PROVE RInv'
<1>0. PlaceOk /\ MadeOk /\ FileOk
  BY Parts, Zenon
<1>1. /\ pc' = "digesting" /\ body' = Fields /\ todo' = SetToSeq(Existing)
      /\ live' = live /\ file' = file /\ made' = made /\ quiet' = quiet
  BY Zenon DEF Begin
<1>2. PlaceOk' /\ MadeOk' /\ FileOk'
  <2>1. PlaceOk'
    BY <1>0, <1>1 DEF PlaceOk
  <2>2. MadeOk'
    BY <1>0, <1>1, Zenon DEF MadeOk
  <2>3. FileOk'
    BY <1>0, <1>1, Zenon DEF FileOk
  <2> QED BY <2>1, <2>2, <2>3
<1>3. live \in [Names -> Contents \cup {Absent}]
  BY <1>0, Zenon DEF PlaceOk
<1>4. Existing' = Existing /\ Fields' = Fields
  BY <1>1, SameCatalogs, Zenon
<1>5. PICK E : E = Existing
  OBVIOUS
<1>6. E \in SUBSET Names /\ IsFiniteSet(E)
  <2>1. E \in SUBSET Names
    BY <1>5, Zenon DEF Existing
  <2> QED BY <2>1, FS_Subset, ManifestAssumption, Zenon
<1>7. PICK t : t = SetToSeq(E)
  OBVIOUS
<1>8. t \in Seq(E) /\ IsInjective(t) /\ (\A n \in E : n \in Range(t)) /\ todo' = t
  BY <1>1, <1>5, <1>6, <1>7, SetToSeqIs, Zenon
<1>9. t \in Seq(Names) /\ \A y \in DOMAIN t : t[y] \in E
  BY <1>6, <1>8, SMT
<1>10. PICK b : b = Fields
  OBVIOUS
<1>11. /\ IsBody(b) /\ body' = b /\ Len(b) = 2 /\ DOMAIN b = 1 .. 2
       /\ b[1].key = <<"sv0-strings-head">> /\ b[2].key = <<"supported-targets">>
  BY <1>1, <1>3, <1>10, FieldsAre, Zenon
<1>12. \A x \in DOMAIN b : \A n : b[x].key # <<"catalog-digest", n>>
  <2>1. \A n : b[1].key # <<"catalog-digest", n>> /\ b[2].key # <<"catalog-digest", n>>
    BY <1>11, SMT
  <2>2. \A x \in 1 .. 2 : x = 1 \/ x = 2
    BY SMT
  <2> QED BY <1>11, <2>1, <2>2, Zenon
<1>13. UpToDate'
  <2>1. Len(b) >= 2 /\ \A x : x \notin 3 .. Len(b)
    BY <1>11, SMT
  <2>2. \A n \in E : n \in Range(todo')
    BY <1>8, Zenon
  <2> QED BY <1>4, <1>5, <1>10, <1>11, <2>1, <2>2, Zenon DEF UpToDate
<1>14. \A y \in DOMAIN t : live[t[y]] # Absent
  BY <1>5, <1>9, Zenon DEF Existing
<1>15. WriterOk'
  BY <1>1, <1>8, <1>9, <1>11, <1>12, <1>13, <1>14, Zenon DEF WriterOk
<1> QED BY <1>2, <1>15, PartsNext, Zenon

\* A catalog that changes is not what the writer has seen of it.
LEMMA ChangeKeeps ==
  ASSUME RInv, NEW n \in Names, NEW c \in Contents \cup {Absent}, ChangeCatalog(n, c)
  PROVE  RInv'
<1>0. PlaceOk /\ MadeOk /\ FileOk /\ (pc # "idle" => WriterOk)
  BY Parts, Zenon
<1>1. /\ live' = [live EXCEPT ![n] = c] /\ quiet' = (pc = "idle")
      /\ file' = file /\ pc' = pc /\ todo' = todo /\ body' = body /\ made' = made
  BY Zenon DEF ChangeCatalog
<1>2. live' \in [Names -> Contents \cup {Absent}]
  BY <1>0, <1>1 DEF PlaceOk
<1>3. PlaceOk'
  BY <1>0, <1>1, <1>2, Zenon DEF PlaceOk
<1>4. MadeOk'
  BY <1>0, <1>1, Zenon DEF MadeOk
<1>5. FileOk'
  BY <1>0, <1>1, Zenon DEF FileOk
<1>6. pc' # "idle" => WriterOk'
  <2>1. SUFFICES ASSUME pc' # "idle" PROVE WriterOk'
    OBVIOUS
  <2>2. ~quiet'
    BY <1>1, <2>1, Zenon
  <2>3. WriterOk
    BY <1>0, <1>1, <2>1, Zenon
  <2> QED BY <1>1, <2>2, <2>3, Zenon DEF WriterOk
<1> QED BY <1>3, <1>4, <1>5, <1>6, PartsNext, Zenon

LEMMA TruncateKeeps == ASSUME RInv, Truncate PROVE RInv'
<1>0. PlaceOk /\ WriterOk
  BY Parts DEF Truncate
<1>1. /\ pc' = "writing" /\ file' = <<>> /\ made' = <<>> /\ todo = <<>>
      /\ live' = live /\ todo' = todo /\ body' = body /\ quiet' = quiet
  BY Zenon DEF Truncate
<1>2. PlaceOk' /\ MadeOk' /\ FileOk'
  <2>1. PlaceOk'
    BY <1>0, <1>1 DEF PlaceOk
  <2>2. MadeOk'
    BY <1>1, Zenon DEF MadeOk
  <2>3. FileOk'
    BY <1>1, EmptyFileOk, Zenon
  <2> QED BY <2>1, <2>2, <2>3
<1>3. UpToDate => UpToDate'
  <2>1. Existing' = Existing /\ Fields' = Fields
    BY <1>1, SameCatalogs, Zenon
  <2> QED BY <1>1, <2>1, Zenon DEF UpToDate
<1>4. WriterOk'
  BY <1>0, <1>1, <1>3, Zenon DEF WriterOk
<1> QED BY <1>2, <1>4, PartsNext, Zenon

\* What a hand or a stopped writer leaves instead of a line.
LEMMA NoSum ==
  /\ \A k : ~IsSum(Line(k, Cut)) /\ ~IsSum(Line(k, NoText)) /\ ~IsSum(Line(k, Revision))
  /\ \A k, y : ~IsSum(Line(k, Text(y)))
  /\ \A k, v : Line(k, v).key = k /\ Line(k, v).val = v
  /\ ~IsSum(Header) /\ ~IsSum(Half) /\ ~IsSum(Blank)
<1>1. \A k, v : Line(k, v).key = k /\ Line(k, v).val = v
  BY SMT DEF Line
<1>2. Len(Cut) # 2 /\ Len(NoText) # 2 /\ Len(Revision) # 2
  BY SMT DEF Cut, NoText, Revision
<1>3. \A y : Text(y)[1] # "sum"
  BY SMT DEF Text
<1>4. <<"component">> # <<"manifest-digest">> /\ <<"half">> # <<"manifest-digest">>
      /\ <<"blank">> # <<"manifest-digest">>
  BY SMT
<1>5. Header.key = <<"component">> /\ Half.key = <<"half">> /\ Blank.key = <<"blank">>
  BY <1>1, Zenon DEF Header, Half, Blank
<1>6. /\ \A k : ~IsSum(Line(k, Cut)) /\ ~IsSum(Line(k, NoText)) /\ ~IsSum(Line(k, Revision))
      /\ \A k, y : ~IsSum(Line(k, Text(y)))
  <2>1. ASSUME NEW k, NEW v, IsSum(Line(k, v)) PROVE Len(v) = 2 /\ v[1] = "sum"
    BY <1>1, <2>1, SMT DEF IsSum
  <2>2. ASSUME NEW k
        PROVE  ~IsSum(Line(k, Cut)) /\ ~IsSum(Line(k, NoText)) /\ ~IsSum(Line(k, Revision))
    BY <1>2, <2>1, Zenon
  <2>3. ASSUME NEW k, NEW y PROVE ~IsSum(Line(k, Text(y)))
    <3>1. Text(y)[1] # "sum"
      BY <1>3, Zenon
    <3> QED BY <2>1, <3>1, Zenon
  <2> QED BY <2>2, <2>3
<1>7. ~IsSum(Header) /\ ~IsSum(Half) /\ ~IsSum(Blank)
  BY <1>4, <1>5, Zenon DEF IsSum
<1> QED BY <1>1, <1>6, <1>7, Zenon

LEMMA WriteKeeps == ASSUME RInv, Write PROVE RInv'
<1>0. PlaceOk /\ WriterOk
  BY Parts DEF Write
<1>1. PICK b, m : b = body /\ m = Manifest(b)
  OBVIOUS
<1>2. IsBody(b) /\ b \in Seq(Row)
  BY <1>0, <1>1, Zenon DEF WriterOk, IsBody, Row
<1>3. pc' = "idle" /\ file' = m /\ made' = m /\ live' = live
  BY <1>1, Zenon DEF Write
<1>4. PICK S : S = Row \cup {Header, Sum(b)}
  OBVIOUS
<1>5. m \in Seq(S) /\ m # <<>> /\ SubSeq(m, 2, Len(m) - 1) = b
  BY <1>1, <1>2, <1>4, ManifestIs, Zenon
<1>6. \A l \in S : LineOk(l, m)
  <2>1. \A l \in Row : LineOk(l, m)
    BY BodyKeys, Zenon DEF LineOk
  <2>2. LineOk(Header, m)
    BY NoSum, Zenon DEF LineOk, Header
  <2>3. LineOk(Sum(b), m)
    BY <1>1, NoSum, SumIs, Zenon DEF LineOk, Sum
  <2> QED BY <1>4, <2>1, <2>2, <2>3, Zenon
<1>7. m \in Seq(Range(m)) /\ \A x \in DOMAIN m : LineOk(m[x], m)
  BY <1>5, <1>6, FileFrom
<1>8. FileOk'
  BY <1>3, <1>7, Zenon DEF FileOk
<1>9. MadeOk'
  BY <1>1, <1>2, <1>3, <1>5, Zenon DEF MadeOk
<1>10. PlaceOk'
  BY <1>0, <1>3 DEF PlaceOk
<1>11. ~(pc' # "idle")
  BY <1>3
<1> QED BY <1>8, <1>9, <1>10, <1>11, PartsNext, Zenon

\* What a stopped writer leaves has no line that seals.
LEMMA BodyLines ==
  ASSUME NEW b \in Seq(Row)
  PROVE  \A x \in 1 .. Len(b) : Manifest(b)[x + 1] = b[x]
<1>1. SUFFICES ASSUME NEW x \in 1 .. Len(b) PROVE Manifest(b)[x + 1] = b[x]
  OBVIOUS
<1>2. PICK T : T = Row \cup {Header, Sum(b)}
  OBVIOUS
<1>3. PICK h, z : h = <<Header>> /\ z = <<Sum(b)>>
  OBVIOUS
<1>4. b \in Seq(T) /\ h \in Seq(T) /\ z \in Seq(T) /\ Len(h) = 1
  BY <1>2, <1>3
<1>5. PICK c : c = h \o b
  OBVIOUS
<1>6. c \in Seq(T) /\ x + 1 \in 1 .. Len(c) /\ c[x + 1] = b[x]
  <2>1. Len(b) \in Nat /\ Len(c) = Len(b) + 1 /\ c \in Seq(T)
    BY <1>3, <1>4, <1>5, SMT
  <2>2. \A y \in 1 .. Len(b) : c[y + 1] = b[y]
    BY <1>3, <1>4, <1>5, SMT
  <2>3. x + 1 \in 1 .. Len(c)
    BY <2>1
  <2> QED BY <2>1, <2>2, <2>3
<1>7. (c \o z)[x + 1] = c[x + 1]
  BY <1>4, <1>6
<1> QED BY <1>3, <1>5, <1>6, <1>7, Zenon DEF Manifest

LEMMA SeqFrom ==
  ASSUME NEW S, NEW n \in Nat, NEW f \in [1 .. n -> S] PROVE f \in Seq(S)
BY SeqDef, Zenon

LEMMA TornIs ==
  ASSUME NEW b \in Seq(Row), NEW t \in Torn(Manifest(b)), NEW S,
         S = Row \cup {Header, Half} \cup {Line(k, Cut) : k \in BodyKey \cup {Header.key, Sum(b).key}}
  PROVE  t \in Seq(S)
<1>0. Len(b) \in Nat
  OBVIOUS
<1>1. PICK m, U : m = Manifest(b) /\ U = Row \cup {Header, Sum(b)}
  OBVIOUS
<1>2. /\ m \in Seq(U) /\ Len(m) = Len(b) + 2 /\ m[1] = Header
      /\ \A x \in 1 .. Len(b) : m[x + 1] = b[x]
  <2>1. m \in Seq(Row \cup {Header, Sum(b)}) /\ Len(m) = Len(b) + 2 /\ m[1] = Header
    BY <1>1, ManifestIs, Zenon
  <2>2. \A x \in 1 .. Len(b) : m[x + 1] = b[x]
    BY <1>1, BodyLines, Zenon
  <2> QED BY <1>1, <2>1, <2>2, Zenon
<1>3. Len(b) \in Nat /\ \A x \in 1 .. Len(b) : b[x] \in Row
  OBVIOUS
<1>4. \A x \in 1 .. Len(m) - 1 : m[x] \in S
  <2>1. ASSUME NEW x \in 1 .. Len(m) - 1 PROVE m[x] \in S
    <3>1. CASE x = 1
      BY <1>2, <3>1, Zenon
    <3>2. CASE x # 1
      <4>1. PICK z \in 1 .. Len(b) : x = z + 1
        <5>1. x - 1 \in 1 .. Len(b) /\ x = (x - 1) + 1
          BY <1>2, <1>3, <3>2
        <5> QED BY <5>1, Zenon
      <4>2. m[x] = b[z]
        BY <1>2, <4>1, Zenon
      <4> QED BY <1>3, <4>1, <4>2, Zenon
    <3> QED BY <3>1, <3>2
  <2> QED BY <2>1
<1>5. \A x \in 1 .. Len(m) : Line(m[x].key, Cut) \in S
  <2>1. \A l \in U : l.key \in BodyKey \cup {Header.key, Sum(b).key}
    <3>1. \A l \in Row : l.key \in BodyKey
      BY DEF Row
    <3> QED BY <1>1, <3>1, Zenon
  <2>2. \A x \in 1 .. Len(m) : m[x] \in U
    BY <1>2
  <2> QED BY <2>1, <2>2, Zenon
<1>6. \A n \in 0 .. Len(m) - 1 : SubSeq(m, 1, n) \in Seq(S)
  <2>1. ASSUME NEW n \in 0 .. Len(m) - 1 PROVE SubSeq(m, 1, n) \in Seq(S)
    <3>1. PICK u : u = SubSeq(m, 1, n)
      OBVIOUS
    <3>2. n \in Nat /\ n <= Len(m) - 1 /\ Len(m) \in Nat
      BY <1>0, <1>2, <2>1
    <3>3. \A x \in 1 .. n : x \in 1 .. Len(m) /\ x \in 1 .. Len(m) - 1
      BY <3>2, SMT
    <3>4. u \in Seq(U) /\ Len(u) = n /\ \A x \in 1 .. n : u[x] = m[x]
      <4>1. u = [x \in 1 .. n |-> m[x]]
        BY <1>2, <3>1, <3>2, SMT
      <4>2. \A x \in 1 .. n : m[x] \in U
        BY <1>2, <3>3
      <4> QED BY <3>2, <4>1, <4>2, SMT
    <3>5. \A x \in 1 .. n : u[x] \in S
      BY <1>4, <3>3, <3>4, Zenon
    <3>6. u = [x \in 1 .. n |-> u[x]]
      BY <3>4
    <3>7. u \in [1 .. n -> S]
      BY <3>5, <3>6
    <3>8. u \in Seq(S)
      BY <3>2, <3>7, SeqFrom
    <3> QED BY <3>1, <3>8, Zenon
  <2> QED BY <2>1
<1>7. Len(m) \in Nat /\ 1 \in 1 .. Len(m)
  BY <1>2, <1>3
<1>8. CASE t \in {SubSeq(m, 1, n) : n \in 0 .. Len(m) - 1}
  BY <1>6, <1>8, Zenon
<1>9. ASSUME NEW n \in 0 .. Len(m) - 1, NEW l \in S, t = Append(SubSeq(m, 1, n), l)
      PROVE  t \in Seq(S)
  <2>1. PICK u : u = SubSeq(m, 1, n)
    OBVIOUS
  <2>2. u \in Seq(S)
    BY <1>6, <2>1, Zenon
  <2>3. Append(u, l) \in Seq(S)
    BY <2>2
  <2> QED BY <1>9, <2>1, <2>3, Zenon
<1>10. Half \in S /\ Line(m[1].key, Cut) \in S
  BY <1>5, <1>7, Zenon
<1>11. CASE t \in {Append(SubSeq(m, 1, n), Half) : n \in 0 .. Len(m) - 1}
  BY <1>9, <1>10, <1>11, Zenon
<1>12. CASE t \in {Append(SubSeq(m, 1, n), Line(m[1].key, Cut)) : n \in 0 .. Len(m) - 1}
  BY <1>9, <1>10, <1>12, Zenon
<1>13. CASE t \in {Append(SubSeq(m, 1, n - 1), Line(m[n].key, Cut)) : n \in 2 .. Len(m)}
  <2>1. PICK n \in 2 .. Len(m) : t = Append(SubSeq(m, 1, n - 1), Line(m[n].key, Cut))
    BY <1>13, Zenon
  <2>2. n - 1 \in 0 .. Len(m) - 1 /\ n \in 1 .. Len(m)
    BY <1>7, <2>1
  <2> QED BY <1>5, <1>9, <2>1, <2>2, Zenon
<1>14. t \in Torn(m)
  BY <1>1, Zenon
<1> QED BY <1>8, <1>11, <1>12, <1>13, <1>14, Zenon DEF Torn

LEMMA StopKeeps == ASSUME RInv, Stop PROVE RInv'
<1>0. PlaceOk /\ MadeOk /\ FileOk /\ WriterOk
  BY Parts DEF Stop
<1>1. /\ pc' = "idle" /\ live' = live /\ made' = made
      /\ IF pc = "writing" THEN file' \in Torn(Manifest(body)) ELSE file' = file
  BY Zenon DEF Stop
<1>2. PlaceOk'
  BY <1>0, <1>1 DEF PlaceOk
<1>3. MadeOk'
  BY <1>0, <1>1, Zenon DEF MadeOk
<1>4. FileOk'
  <2>1. CASE pc # "writing"
    BY <1>0, <1>1, <2>1, Zenon DEF FileOk
  <2>2. CASE pc = "writing"
    <3>1. PICK b, t : b = body /\ t = file'
      OBVIOUS
    <3>2. PICK S : S = Row \cup {Header, Half}
                         \cup {Line(k, Cut) : k \in BodyKey \cup {Header.key, Sum(b).key}}
      OBVIOUS
    <3>3. b \in Seq(Row) /\ t \in Torn(Manifest(b))
      BY <1>0, <1>1, <2>2, <3>1, Zenon DEF WriterOk, IsBody, Row
    <3>4. t \in Seq(S)
      BY <3>2, <3>3, TornIs, Zenon
    <3>5. \A l \in S : LineOk(l, made')
      <4>1. \A l \in Row : LineOk(l, made')
        BY BodyKeys, Zenon DEF LineOk
      <4>2. LineOk(Header, made') /\ LineOk(Half, made')
        BY NoSum, Zenon DEF LineOk, Header, Half
      <4>3. \A k : LineOk(Line(k, Cut), made')
        BY NoSum, Zenon DEF LineOk
      <4> QED BY <3>2, <4>1, <4>2, <4>3, Zenon
    <3>6. t \in Seq(Range(t)) /\ \A x \in DOMAIN t : LineOk(t[x], made')
      BY <3>4, <3>5, FileFrom
    <3> QED BY <3>1, <3>6, Zenon DEF FileOk
  <2> QED BY <2>1, <2>2
<1>5. ~(pc' # "idle")
  BY <1>1
<1> QED BY <1>2, <1>3, <1>4, <1>5, PartsNext, Zenon

\* One catalog is digested: its row is no other's, and it is no longer to do.
LEMMA DigestKeeps == ASSUME RInv, DigestOne PROVE RInv'
<1>0. PlaceOk /\ MadeOk /\ FileOk /\ WriterOk
  BY Parts DEF DigestOne
<1>1. PICK b, t : b = body /\ t = todo
  OBVIOUS
<1>2. PICK n : n = t[1]
  OBVIOUS
<1>3. PICK d : d = Digest(n, live[n])
  OBVIOUS
<1>4. PICK c, u : c = Append(b, d) /\ u = Tail(t)
  OBVIOUS
<1>5. t \in Seq(Names) /\ t # <<>> /\ IsInjective(t)
  BY <1>0, <1>1, Zenon DEF DigestOne, WriterOk
<1>6. Head(t) = n /\ n \in Names /\ 1 \in DOMAIN t
  BY <1>2, <1>5
<1>7. /\ body' = c /\ todo' = u /\ live' = live /\ file' = file /\ pc' = pc /\ made' = made
      /\ quiet' = quiet /\ pc = "digesting"
  BY <1>1, <1>2, <1>3, <1>4, <1>6, Zenon DEF DigestOne
<1>8. PlaceOk' /\ MadeOk' /\ FileOk'
  <2>1. PlaceOk'
    BY <1>0, <1>7 DEF PlaceOk
  <2>2. MadeOk'
    BY <1>0, <1>7, Zenon DEF MadeOk
  <2>3. FileOk'
    BY <1>0, <1>7, Zenon DEF FileOk
  <2> QED BY <2>1, <2>2, <2>3
<1>9. /\ u \in Seq(Names) /\ DOMAIN u = 1 .. Len(u) /\ Len(u) + 1 = Len(t) /\ Len(u) \in Nat
      /\ \A y \in DOMAIN u : u[y] = t[y + 1] /\ y + 1 \in DOMAIN t /\ y + 1 # 1
      /\ \A y \in DOMAIN t : y # 1 => \E z \in DOMAIN u : u[z] = t[y]
  <2>1. /\ u \in Seq(Names) /\ DOMAIN u = 1 .. Len(u) /\ Len(u) + 1 = Len(t) /\ Len(u) \in Nat
        /\ \A y \in 1 .. Len(u) : u[y] = t[y + 1]
        /\ DOMAIN t = 1 .. Len(t)
    BY <1>4, <1>5
  <2>2. \A y \in 1 .. Len(u) : y + 1 \in 1 .. Len(t) /\ y + 1 # 1
    BY <2>1
  <2>3. ASSUME NEW y \in DOMAIN t, y # 1 PROVE \E z \in DOMAIN u : u[z] = t[y]
    <3>1. y - 1 \in 1 .. Len(u) /\ (y - 1) + 1 = y
      BY <2>1, <2>3, SMT
    <3>2. u[y - 1] = t[y]
      BY <2>1, <3>1
    <3> QED BY <2>1, <3>1, <3>2, Zenon
  <2> QED BY <2>1, <2>2, <2>3, Zenon
<1>10. IsInjective(u)
  <2>1. ASSUME NEW x \in DOMAIN u, NEW y \in DOMAIN u, u[x] = u[y] PROVE x = y
    <3>1. PICK k, j : k = x + 1 /\ j = y + 1
      OBVIOUS
    <3>2. t[k] = u[x] /\ t[j] = u[y] /\ k \in DOMAIN t /\ j \in DOMAIN t
      BY <1>9, <3>1, Zenon
    <3>3. k = j
      BY <1>5, <2>1, <3>2, Zenon DEF IsInjective
    <3>4. DOMAIN u = 1 .. Len(u)
      BY <1>9, Zenon
    <3> QED BY <3>1, <3>3, <3>4, SMT
  <2> QED BY <2>1, Zenon DEF IsInjective
<1>11. \A y \in DOMAIN u : u[y] # n
  BY <1>2, <1>5, <1>6, <1>9, Zenon DEF IsInjective
<1>12. d \in Row /\ d.key = <<"catalog-digest", n>>
  <2>1. live[n] \in Contents \cup {Absent}
    BY <1>0, <1>6, Zenon DEF PlaceOk
  <2> QED BY <1>3, <1>6, <2>1, DigestIs, Zenon
<1>13. /\ b \in Seq(Row) /\ \A x, y \in DOMAIN b : b[x].key = b[y].key => x = y
  BY <1>0, <1>1, Zenon DEF WriterOk, IsBody, Row
<1>14. /\ c \in Seq(Row) /\ DOMAIN c = 1 .. Len(c) /\ Len(c) = Len(b) + 1 /\ c[Len(b) + 1] = d
       /\ Len(b) \in Nat /\ DOMAIN b = 1 .. Len(b)
       /\ \A x \in 1 .. Len(b) : c[x] = b[x] /\ x \in 1 .. Len(c)
       /\ \A x \in 1 .. Len(c) : x \in 1 .. Len(b) \/ x = Len(b) + 1
  BY <1>4, <1>12, <1>13
<1>15. \A x \in DOMAIN b, y \in DOMAIN t : b[x].key # <<"catalog-digest", t[y]>>
  BY <1>0, <1>1, Zenon DEF WriterOk
<1>16. \A x \in DOMAIN b : b[x].key # d.key
  BY <1>2, <1>6, <1>12, <1>15, Zenon
<1>17. IsBody(c)
  <2>1. ASSUME NEW x \in DOMAIN c, NEW y \in DOMAIN c, c[x].key = c[y].key PROVE x = y
    <3>1. CASE x = Len(b) + 1 /\ y = Len(b) + 1
      BY <3>1, Zenon
    <3>2. CASE x \in 1 .. Len(b) /\ y = Len(b) + 1
      BY <1>14, <1>16, <2>1, <3>2, Zenon
    <3>3. CASE x = Len(b) + 1 /\ y \in 1 .. Len(b)
      BY <1>14, <1>16, <2>1, <3>3, Zenon
    <3>4. CASE x \in 1 .. Len(b) /\ y \in 1 .. Len(b)
      BY <1>13, <1>14, <2>1, <3>4, Zenon
    <3> QED BY <1>14, <3>1, <3>2, <3>3, <3>4, Zenon
  <2> QED BY <1>14, <2>1, Zenon DEF IsBody, Row
<1>18. \A x \in DOMAIN c, y \in DOMAIN u : c[x].key # <<"catalog-digest", u[y]>>
  <2>1. ASSUME NEW x \in DOMAIN c, NEW y \in DOMAIN u PROVE c[x].key # <<"catalog-digest", u[y]>>
    <3>1. CASE x \in 1 .. Len(b)
      <4>1. PICK k \in DOMAIN t : u[y] = t[k]
        BY <1>9, Zenon
      <4>2. c[x] = b[x] /\ x \in DOMAIN b
        BY <1>14, <3>1, Zenon
      <4> QED BY <1>15, <4>1, <4>2, Zenon
    <3>2. CASE x = Len(b) + 1
      <4>1. u[y] # n
        BY <1>11, Zenon
      <4>2. <<"catalog-digest", u[y]>> # <<"catalog-digest", n>>
        BY <4>1, SMT
      <4> QED BY <1>12, <1>14, <3>2, <4>2, Zenon
    <3> QED BY <1>14, <3>1, <3>2, Zenon
  <2> QED BY <2>1
<1>19. \A y \in DOMAIN t : quiet => live[t[y]] # Absent
  BY <1>0, <1>1, Zenon DEF WriterOk
<1>20. quiet => UpToDate'
  <2>1. SUFFICES ASSUME quiet PROVE UpToDate'
    OBVIOUS
  <2>2. PICK E : E = Existing
    OBVIOUS
  <2>3. Existing' = E /\ Fields' = Fields /\ n \in E
    <3>1. Existing' = E /\ Fields' = Fields
      BY <1>7, <2>2, SameCatalogs, Zenon
    <3>2. live[n] # Absent
      BY <1>2, <1>6, <1>19, <2>1, Zenon
    <3> QED BY <1>6, <2>2, <3>1, <3>2, Zenon DEF Existing
  <2>4. /\ Len(b) >= 2 /\ b[1] = Fields[1] /\ b[2] = Fields[2]
        /\ \A x \in 3 .. Len(b) : \E i \in E : b[x] = Digest(i, live[i])
        /\ \A i \in E : i \notin Range(t) =>
             \E x \in 3 .. Len(b) : b[x] = Digest(i, live[i])
    BY <1>0, <1>1, <2>1, <2>2, Zenon DEF WriterOk, UpToDate
  <2>5. /\ Len(c) >= 2 /\ 1 \in 1 .. Len(b) /\ 2 \in 1 .. Len(b)
        /\ \A x \in 3 .. Len(c) : x \in 3 .. Len(b) \/ x = Len(b) + 1
        /\ \A x \in 3 .. Len(b) : x \in 3 .. Len(c) /\ x \in 1 .. Len(b)
        /\ Len(b) + 1 \in 3 .. Len(c)
    BY <1>14, <2>4, SMT
  <2>9. \A x \in 3 .. Len(b) : c[x] = b[x] /\ x \in 3 .. Len(c)
    BY <1>14, <2>5, Zenon
  <2>6. c[1] = Fields[1] /\ c[2] = Fields[2]
    BY <1>14, <2>4, <2>5, Zenon
  <2>7. \A x \in 3 .. Len(c) : \E i \in E : c[x] = Digest(i, live[i])
    <3>1. ASSUME NEW x \in 3 .. Len(b) PROVE \E i \in E : c[x] = Digest(i, live[i])
      <4>1. c[x] = b[x]
        BY <2>9, Zenon
      <4> QED BY <2>4, <4>1, Zenon
    <3>2. c[Len(b) + 1] = Digest(n, live[n])
      BY <1>3, <1>14, Zenon
    <3> QED BY <2>3, <2>5, <3>1, <3>2, Zenon
  <2>8. ASSUME NEW i \in E, i \notin Range(u)
        PROVE  \E x \in 3 .. Len(c) : c[x] = Digest(i, live[i])
    <3>1. CASE i = n
      BY <1>3, <1>14, <2>5, <3>1, Zenon
    <3>2. CASE i # n
      <4>1. i \notin Range(t)
        <5>1. ASSUME NEW y \in DOMAIN t, t[y] = i PROVE FALSE
          <6>1. y # 1
            BY <1>2, <3>2, <5>1, Zenon
          <6>2. \E z \in DOMAIN u : u[z] = i
            BY <1>9, <5>1, <6>1, Zenon
          <6> QED BY <2>8, <6>2, Zenon DEF Range
        <5> QED BY <5>1, Zenon DEF Range
      <4>2. PICK x \in 3 .. Len(b) : b[x] = Digest(i, live[i])
        BY <2>4, <4>1, Zenon
      <4>3. c[x] = b[x] /\ x \in 3 .. Len(c)
        BY <2>9, Zenon
      <4> QED BY <4>2, <4>3, Zenon
    <3> QED BY <3>1, <3>2
  <2> QED BY <1>7, <2>3, <2>5, <2>6, <2>7, <2>8, Zenon DEF UpToDate
<1>21. WriterOk'
  <2>1. \A y \in DOMAIN u : quiet => live[u[y]] # Absent
    <3>1. \A y \in DOMAIN u : \E k \in DOMAIN t : u[y] = t[k]
      BY <1>9, Zenon
    <3> QED BY <1>19, <3>1, Zenon
  <2> QED BY <1>7, <1>9, <1>10, <1>17, <1>18, <1>20, <2>1, Zenon DEF WriterOk
<1> QED BY <1>8, <1>21, PartsNext, Zenon

\* What is in a sequence that has lost or gained an element.
LEMMA RemovedIs ==
  ASSUME NEW S, NEW f \in Seq(S), NEW x \in DOMAIN f PROVE RemoveAt(f, x) \in Seq(S)
<1>1. Len(f) \in Nat /\ x \in 1 .. Len(f)
  OBVIOUS
<1>2. PICK a, b : a = SubSeq(f, 1, x - 1) /\ b = SubSeq(f, x + 1, Len(f))
  OBVIOUS
<1>3. a \in Seq(S) /\ b \in Seq(S)
  BY <1>1, <1>2
<1>4. a \o b \in Seq(S)
  BY <1>3
<1> QED BY <1>2, <1>4, Zenon DEF RemoveAt

LEMMA InsertedIs ==
  ASSUME NEW S, NEW f \in Seq(S), NEW x \in DOMAIN f, NEW l \in S
  PROVE  InsertAt(f, x, l) \in Seq(S)
<1>1. Len(f) \in Nat /\ x \in 1 .. Len(f)
  OBVIOUS
<1>2. PICK a, b, h : a = SubSeq(f, 1, x - 1) /\ b = SubSeq(f, x, Len(f)) /\ h = <<l>>
  OBVIOUS
<1>3. a \in Seq(S) /\ b \in Seq(S) /\ h \in Seq(S)
  BY <1>1, <1>2
<1>4. a \o h \in Seq(S)
  BY <1>3
<1>5. (a \o h) \o b \in Seq(S)
  BY <1>3, <1>4
<1> QED BY <1>2, <1>5, Zenon DEF InsertAt

\* What a hand leaves: the lines, a blank one, and lines with another value.
LEMMA EditedIs ==
  ASSUME NEW S, NEW f \in Seq(S), NEW U, S \in SUBSET U, Blank \in U,
         \A l \in S : l = Line(l.key, l.val),
         \A l \in S : \A v \in BodyVal : Line(l.key, v) \in U,
         NEW t \in Edited(f)
  PROVE  t \in Seq(U)
<1>1. f \in Seq(U) /\ Len(f) \in Nat /\ DOMAIN f = 1 .. Len(f) /\ \A x \in DOMAIN f : f[x] \in S
  OBVIOUS
<1>2. CASE t \in {RemoveAt(f, x) : x \in DOMAIN f}
  BY <1>1, <1>2, RemovedIs, Zenon
<1>3. CASE t \in {InsertAt(f, x, f[x]) : x \in DOMAIN f}
  <2>1. PICK x \in DOMAIN f : t = InsertAt(f, x, f[x])
    BY <1>3, Zenon
  <2>2. PICK l : l = f[x] /\ l \in U
    BY <1>1, <2>1, Zenon
  <2>3. InsertAt(f, x, l) \in Seq(U)
    BY <1>1, <2>2, InsertedIs, Zenon
  <2> QED BY <2>1, <2>2, <2>3, Zenon
<1>4. CASE t \in {InsertAt(f, x, Blank) : x \in DOMAIN f}
  BY <1>1, <1>4, InsertedIs, Zenon
<1>5. CASE t \in {[f EXCEPT ![x] = f[x + 1], ![x + 1] = f[x]] : x \in 1 .. Len(f) - 1}
  <2>1. PICK x \in 1 .. Len(f) - 1 : t = [f EXCEPT ![x] = f[x + 1], ![x + 1] = f[x]]
    BY <1>5, Zenon
  <2>2. x \in DOMAIN f /\ x + 1 \in DOMAIN f
    BY <1>1, <2>1, SMT
  <2>3. PICK a, b : a = f[x] /\ b = f[x + 1] /\ a \in U /\ b \in U
    BY <1>1, <2>2
  <2>4. [f EXCEPT ![x] = b, ![x + 1] = a] \in Seq(U)
    BY <1>1, <2>2, <2>3
  <2> QED BY <2>1, <2>3, <2>4
<1>6. CASE t \in UNION {{[f EXCEPT ![x].val = v] : v \in BodyVal} : x \in DOMAIN f}
  <2>1. PICK x \in DOMAIN f, v \in BodyVal : t = [f EXCEPT ![x].val = v]
    BY <1>6, Zenon
  <2>2. PICK l : l = f[x] /\ l \in S
    BY <1>1, <2>1, Zenon
  <2>3. [l EXCEPT !.val = v] = Line(l.key, v)
    <3>1. PICK k, w : k = l.key /\ w = l.val
      OBVIOUS
    <3>2. l = Line(k, w)
      BY <2>2, <3>1, Zenon
    <3>3. [l EXCEPT !.val = v] = Line(k, v)
      BY <3>2, SMT DEF Line
    <3> QED BY <3>1, <3>3
  <2>4. PICK g : g = [l EXCEPT !.val = v] /\ g \in U
    BY <2>1, <2>2, <2>3, Zenon
  <2>5. [f EXCEPT ![x] = g] \in Seq(U)
    BY <1>1, <2>1, <2>4
  <2>6. t = [f EXCEPT ![x] = g]
    BY <2>1, <2>2, <2>4
  <2> QED BY <2>5, <2>6, Zenon
<1>7. \/ t \in {RemoveAt(f, x) : x \in DOMAIN f}
      \/ t \in {InsertAt(f, x, f[x]) : x \in DOMAIN f}
      \/ t \in {[f EXCEPT ![x] = f[x + 1], ![x + 1] = f[x]] : x \in 1 .. Len(f) - 1}
      \/ t \in UNION {{[f EXCEPT ![x].val = v] : v \in BodyVal} : x \in DOMAIN f}
      \/ t \in {InsertAt(f, x, Blank) : x \in DOMAIN f}
  BY DEF Edited
<1> QED BY <1>2, <1>3, <1>4, <1>5, <1>6, <1>7, Zenon

LEMMA HandKeeps == ASSUME RInv, HandEdit PROVE RInv'
<1>0. PlaceOk /\ MadeOk /\ FileOk
  BY Parts, Zenon
<1>1. /\ pc = "idle" /\ file' \in Edited(file) /\ live' = live /\ pc' = pc /\ todo' = todo
      /\ made' = made
  BY Zenon DEF HandEdit
<1>2. PICK f, t, m : f = file /\ t = file' /\ m = made'
  OBVIOUS
<1>3. PICK S : S = Range(f)
  OBVIOUS
<1>4. f \in Seq(S) /\ t \in Edited(f) /\ \A l \in S : LineOk(l, m)
  BY <1>0, <1>1, <1>2, <1>3, Zenon DEF FileOk, Range
<1>5. \A l \in S : l = Line(l.key, l.val)
  BY <1>4, Zenon DEF LineOk
<1>6. PICK V : V = UNION {{Line(l.key, v) : v \in BodyVal} : l \in S}
  OBVIOUS
<1>7. PICK U : U = S \cup {Blank} \cup V
  OBVIOUS
<1>8. S \in SUBSET U /\ Blank \in U /\ \A l \in S : \A v \in BodyVal : Line(l.key, v) \in U
  <2>1. ASSUME NEW l \in S, NEW v \in BodyVal PROVE Line(l.key, v) \in V
    BY <1>6
  <2> QED BY <1>7, <2>1, Zenon
<1>9. t \in Seq(U)
  BY <1>4, <1>5, <1>8, EditedIs, Zenon
<1>10. \A l \in U : LineOk(l, m)
  <2>1. LineOk(Blank, m)
    BY NoSum, Zenon DEF LineOk, Blank
  <2>2. \A k : \A v \in BodyVal : LineOk(Line(k, v), m)
    <3>1. ASSUME NEW k, NEW v \in BodyVal PROVE ~IsSum(Line(k, v))
      BY NoSum, Zenon DEF BodyVal
    <3> QED BY <3>1, NoSum, Zenon DEF LineOk
  <2>3. \A l \in V : LineOk(l, m)
    BY <1>6, <2>2, Zenon
  <2> QED BY <1>4, <1>7, <2>1, <2>3, Zenon
<1>11. t \in Seq(Range(t)) /\ \A x \in DOMAIN t : LineOk(t[x], m)
  BY <1>9, <1>10, FileFrom
<1>12. FileOk'
  BY <1>2, <1>11, Zenon DEF FileOk
<1>13. MadeOk' /\ PlaceOk'
  BY <1>0, <1>1, Zenon DEF MadeOk, PlaceOk
<1>14. ~(pc' # "idle")
  BY <1>1
<1> QED BY <1>12, <1>13, <1>14, PartsNext, Zenon

\* Every step keeps the books.
LEMMA StepKeeps == RInv /\ [RNext]_rvars => RInv'
<1>1. SUFFICES ASSUME RInv, [RNext]_rvars PROVE RInv'
  OBVIOUS
<1>2. CASE Begin
  BY <1>1, <1>2, BeginKeeps
<1>3. CASE DigestOne
  BY <1>1, <1>3, DigestKeeps
<1>4. CASE Truncate
  BY <1>1, <1>4, TruncateKeeps
<1>5. CASE Write
  BY <1>1, <1>5, WriteKeeps
<1>6. CASE Stop
  BY <1>1, <1>6, StopKeeps
<1>7. ASSUME NEW n \in Names, NEW c \in Contents \cup {Absent}, ChangeCatalog(n, c)
      PROVE  RInv'
  BY <1>1, <1>7, ChangeKeeps
<1>8. CASE HandEdit
  BY <1>1, <1>8, HandKeeps
<1>9. CASE UNCHANGED rvars
  <2>1. /\ live' = live /\ file' = file /\ pc' = pc /\ todo' = todo /\ body' = body
        /\ made' = made /\ quiet' = quiet
    BY <1>9 DEF rvars
  <2>2. Existing' = Existing /\ Fields' = Fields
    BY <2>1, SameCatalogs, Zenon
  <2>3. UpToDate => UpToDate'
    BY <2>1, <2>2, Zenon DEF UpToDate
  <2>4. WriterOk => WriterOk'
    BY <2>1, <2>3, Zenon DEF WriterOk
  <2>5. PlaceOk /\ MadeOk /\ FileOk /\ (pc # "idle" => WriterOk)
    BY <1>1, Parts, Zenon
  <2>6. PlaceOk' /\ MadeOk' /\ FileOk'
    BY <2>1, <2>5, Zenon DEF PlaceOk, MadeOk, FileOk
  <2> QED BY <2>1, <2>4, <2>5, <2>6, PartsNext, Zenon
<1> QED BY <1>1, <1>2, <1>3, <1>4, <1>5, <1>6, <1>7, <1>8, <1>9, Zenon DEF RNext

\* No line of the file seals other rows than those that the last writer that came
\* to its end wrote; and what a running writer has in ROWS is, while no catalog
\* changes, so of the catalogs, with what is missing still to be digested.
THEOREM ManifestInvariant == RSpec => []RInv
<1>1. RInit => RInv
  BY InitHolds
<1>2. RInv /\ [RNext]_rvars => RInv'
  BY StepKeeps
<1> QED BY <1>1, <1>2, PTL DEF RSpec

\* What tools/check_release_manifest accepts has one row for every catalog there
\* is, with the digest of what it holds now, and no row for another (BACKEND-007).
THEOREM AcceptedIsUpToDate == RSpec => []AcceptedIsCurrent
<1>1. RInv => AcceptedIsCurrent
  BY CurrentFollows
<1> QED BY <1>1, ManifestInvariant, PTL

\* What tools/check_release_manifest accepts are the rows of the last writer that
\* came to its end, in their order: not the rest of one that was stopped, and not
\* what a hand has made of them.
THEOREM AcceptedWasMade == RSpec => []AcceptedIsMade
<1>1. RInv => AcceptedIsMade
  BY MadeFollows
<1> QED BY <1>1, ManifestInvariant, PTL

\* A body that is so of the catalogs, and the file that is made of it.
SoNow(b) ==
  /\ IsBody(b)
  /\ Len(b) >= 2 /\ b[1] = Fields[1] /\ b[2] = Fields[2]
  /\ \A x \in 3 .. Len(b) : \E n \in Existing : b[x] = Digest(n, live[n])
  /\ \A n \in Existing : \E x \in 3 .. Len(b) : b[x] = Digest(n, live[n])

Good ==
  /\ live \in [Names -> Contents \cup {Absent}]
  /\ live[Targets] \notin {Absent, NoTargets}
  /\ \E b : SoNow(b) /\ file = Manifest(b)

\* The checker reads the rows of a manifest as they were written.
LEMMA RowsRead ==
  ASSUME NEW b \in Seq(Row), file = Manifest(b), NEW r, r = b \o <<Sum(b)>>
  PROVE  Rows = r /\ Front(r) = b /\ Last(r) = Sum(b) /\ r # <<>>
<1>1. PICK m, S : m = Manifest(b) /\ S = Row \cup {Header, Sum(b)}
  OBVIOUS
<1>2. m \in Seq(S) /\ Len(m) = Len(b) + 2 /\ m # <<>> /\ m[Len(b) + 2] = Sum(b)
  BY <1>1, ManifestIs, Zenon
<1>3. \A x \in 1 .. Len(b) : m[x + 1] = b[x]
  BY <1>1, BodyLines, Zenon
<1>4. PICK U, z : U = Row \cup {Sum(b)} /\ z = <<Sum(b)>>
  OBVIOUS
<1>5. /\ b \in Seq(U) /\ z \in Seq(U) /\ Len(z) = 1 /\ z[1] = Sum(b) /\ r = b \o z
  BY <1>4
<1>6. /\ r \in Seq(U) /\ Len(r) = Len(b) + 1 /\ r[Len(b) + 1] = Sum(b) /\ Len(b) \in Nat
      /\ \A x \in 1 .. Len(b) : r[x] = b[x]
  BY <1>5
<1>7. \A x \in 1 .. Len(r) : m[x + 1] = r[x]
  <2>1. \A x \in 1 .. Len(r) : x \in 1 .. Len(b) \/ x = Len(b) + 1
    BY <1>6
  <2>2. (Len(b) + 1) + 1 = Len(b) + 2
    BY <1>6
  <2> QED BY <1>2, <1>3, <1>6, <2>1, <2>2
<1>8. \A x \in 2 .. Len(m) : m[x] # Blank
  <2>1. ASSUME NEW x \in 2 .. Len(m) PROVE m[x] # Blank
    <3>1. PICK y \in 1 .. Len(r) : x = y + 1
      <4>1. x - 1 \in 1 .. Len(r) /\ x = (x - 1) + 1
        BY <1>2, <1>6
      <4> QED BY <4>1, Zenon
    <3>2. r[y] \in U
      BY <1>6
    <3>3. \A l \in U : l # Blank
      <4>1. \A l \in Row : l # Blank
        BY BodyKeys, Zenon
      <4>2. Sum(b) # Blank
        BY SumIs, NoSum, Zenon
      <4> QED BY <1>4, <4>1, <4>2, Zenon
    <3> QED BY <1>7, <3>1, <3>2, <3>3, Zenon
  <2> QED BY <2>1
<1>9. Rows = SubSeq(m, 2, Len(m))
  <2>1. KeptOk(Rows, S, m, Len(m))
    <3>1. file \in Seq(S) /\ file # <<>> /\ file = m
      BY <1>1, <1>2, Zenon
    <3> QED BY <3>1, RowsAre, Zenon
  <2> QED BY <1>8, <2>1, Zenon DEF KeptOk
<1>10. SubSeq(m, 2, Len(m)) = r
  <2>1. PICK e : e = SubSeq(m, 2, Len(m))
    OBVIOUS
  <2>2. /\ e \in Seq(S) /\ Len(e) = Len(r)
        /\ \A x \in 1 .. Len(r) : e[x] = m[x + 1]
    BY <1>2, <1>6, <2>1
  <2>3. \A x \in 1 .. Len(e) : e[x] = r[x]
    BY <1>7, <2>2
  <2>4. r \in Seq(S)
    BY <1>1, <1>4, <1>6
  <2>5. e = r
    BY <2>2, <2>3, <2>4, SeqEqual, Zenon
  <2> QED BY <2>1, <2>5, Zenon
<1>11. Front(r) = b
  <2>1. PICK e : e = SubSeq(r, 1, Len(r) - 1)
    OBVIOUS
  <2>2. /\ e \in Seq(U) /\ Len(e) = Len(b)
        /\ \A x \in 1 .. Len(b) : e[x] = r[x]
    BY <1>6, <2>1
  <2>3. \A x \in 1 .. Len(e) : e[x] = b[x]
    BY <1>6, <2>2
  <2>4. e = b
    BY <1>5, <2>2, <2>3, SeqEqual, Zenon
  <2> QED BY <2>1, <2>4, Zenon DEF Front
<1>12. Last(r) = Sum(b) /\ r # <<>>
  BY <1>6 DEF Last
<1> QED BY <1>9, <1>10, <1>11, <1>12, Zenon

\* What is so of the catalogs and whole is accepted.
LEMMA GoodAccepts == Good => Accepts
<1>1. SUFFICES ASSUME Good PROVE Accepts
  OBVIOUS
<1>2. PICK b : SoNow(b) /\ file = Manifest(b)
  BY <1>1, Zenon DEF Good
<1>3. PICK r : r = b \o <<Sum(b)>>
  OBVIOUS
<1>4. IsBody(b) /\ b \in Seq(Row)
  BY <1>2, Zenon DEF SoNow, IsBody, Row
<1>5. Rows = r /\ Front(r) = b /\ Last(r) = Sum(b) /\ r # <<>>
  BY <1>2, <1>3, <1>4, RowsRead, Zenon
<1>6. PICK T : T = Row \cup {Sum(b)}
  OBVIOUS
<1>7. /\ r \in Seq(T) /\ DOMAIN r = 1 .. Len(b) + 1 /\ r[Len(b) + 1] = Sum(b)
      /\ \A x \in 1 .. Len(b) : r[x] = b[x] /\ b[x] \in Row
      /\ \A x, y \in DOMAIN r : r[x].key = r[y].key => x = y
      /\ \A x \in DOMAIN r : r[x].key[1] = "catalog-digest" => x \in 1 .. Len(b)
  <2>1. BodyRows(b, r)
    BY <1>3, <1>4, RowsOfBody, Zenon
  <2> QED BY <1>6, <2>1, Zenon DEF BodyRows
<1>8. Len(b) \in Nat /\ Len(b) >= 2
  BY <1>2, <1>4 DEF SoNow
<1>9. /\ \A x \in 1 .. Len(b) : x \in DOMAIN r
      /\ \A x \in DOMAIN r : x \in 1 .. Len(b) \/ x = Len(b) + 1
      /\ 1 \in 1 .. Len(b) /\ 2 \in 1 .. Len(b)
      /\ \A x \in 1 .. Len(b) : x = 1 \/ x = 2 \/ x \in 3 .. Len(b)
      /\ \A x \in 3 .. Len(b) : x \in 1 .. Len(b)
  BY <1>7, <1>8
<1>10. \A x \in DOMAIN r : r[x].val = r[x].val /\ Has(r, r[x].key)
                           /\ LastValue(r, r[x].key) = r[x].val
  <2>1. ASSUME NEW x \in DOMAIN r
        PROVE  Has(r, r[x].key) /\ LastValue(r, r[x].key) = r[x].val
    <3>1. PICK k : k = r[x].key
      OBVIOUS
    <3>2. r[x].key = k /\ \A y \in DOMAIN r : r[y].key = k => y = x
      BY <1>7, <3>1, Zenon
    <3>3. Has(r, k) /\ LastValue(r, k) = r[x].val
      BY <1>7, <3>2, LastValueIs, Zenon
    <3> QED BY <3>1, <3>3, Zenon
  <2> QED BY <2>1
<1>11. file # <<>> /\ Head(file) = Header
  <2>1. PICK m, S : m = Manifest(b) /\ S = Row \cup {Header, Sum(b)}
    OBVIOUS
  <2>2. m \in Seq(S) /\ m # <<>> /\ m[1] = Header
    BY <1>4, <2>1, ManifestIs, Zenon
  <2> QED BY <1>2, <2>1, <2>2
<1>12. ~Has(r, Half.key)
  <2>1. Half.key = <<"half">>
    BY NoSum, Zenon DEF Half
  <2>2. Sum(b).key # <<"half">>
    BY SMT DEF Sum, Line
  <2>3. \A x \in 1 .. Len(b) : r[x].key # <<"half">>
    <3>1. \A l \in Row : l.key \in BodyKey
      BY DEF Row
    <3> QED BY <1>7, <3>1, BodyKeys, Zenon
  <2>4. \A x \in DOMAIN r : r[x].key # <<"half">>
    BY <1>7, <1>9, <2>2, <2>3, Zenon
  <2> QED BY <2>1, <2>4, Zenon DEF Has
<1>13. /\ live \in [Names -> Contents \cup {Absent}] /\ live[Targets] \notin {Absent, NoTargets}
  BY <1>1, Zenon DEF Good
<1>14. /\ r[1].key = <<"sv0-strings-head">> /\ r[1].val = Revision
       /\ r[2].key = <<"supported-targets">> /\ r[2].val = Text(live[Targets])
  BY <1>2, <1>7, <1>9, <1>13, FieldsAre, Zenon DEF SoNow
<1>15. Revision # NoText /\ Text(live[Targets]) # NoText
  BY SMT DEF Revision, NoText, Text
<1>16. FieldsPresent(r)
  BY <1>9, <1>10, <1>14, <1>15, Zenon DEF FieldsPresent
<1>17. ASSUME NEW n \in Existing
       PROVE  /\ Has(r, <<"catalog-digest", n>>)
              /\ LastValue(r, <<"catalog-digest", n>>) = Text(live[n])
  <2>1. PICK x \in 3 .. Len(b) : b[x] = Digest(n, live[n])
    BY <1>2, Zenon DEF SoNow
  <2>2. x \in DOMAIN r /\ r[x] = Digest(n, live[n])
    BY <1>7, <1>9, <2>1, Zenon
  <2>3. live[n] # Absent
    BY Zenon DEF Existing
  <2>4. Digest(n, live[n]).key = <<"catalog-digest", n>> /\ Digest(n, live[n]).val = Text(live[n])
    BY <2>3, SMT DEF Digest, Line
  <2> QED BY <1>10, <2>2, <2>4, Zenon
<1>18. ASSUME NEW n \in Names, Has(r, <<"catalog-digest", n>>) PROVE live[n] # Absent
  <2>1. PICK x \in DOMAIN r : r[x].key = <<"catalog-digest", n>>
    BY <1>18, Zenon DEF Has
  <2>2. <<"catalog-digest", n>>[1] = "catalog-digest"
    BY SMT
  <2>3. x \in 1 .. Len(b)
    BY <1>7, <2>1, <2>2, Zenon
  <2>4. /\ <<"catalog-digest", n>> # <<"sv0-strings-head">>
        /\ <<"catalog-digest", n>> # <<"supported-targets">>
    BY SMT
  <2>5. x \in 3 .. Len(b)
    BY <1>9, <1>14, <2>1, <2>3, <2>4, Zenon
  <2>6. PICK i \in Existing : b[x] = Digest(i, live[i])
    BY <1>2, <2>5, Zenon DEF SoNow
  <2>7. r[x] = Digest(i, live[i])
    BY <1>7, <1>9, <2>5, <2>6, Zenon
  <2>8. Digest(i, live[i]).key = <<"catalog-digest", i>>
    BY SMT DEF Digest, Line
  <2>9. <<"catalog-digest", i>> = <<"catalog-digest", n>>
    BY <2>1, <2>7, <2>8, Zenon
  <2>10. i = n
    BY <2>9, SMT
  <2> QED BY <2>10, Zenon DEF Existing
<1>19. Current(r)
  <2>1. \A n \in Names : live[n] # Absent => n \in Existing
    BY Zenon DEF Existing
  <2> QED BY <1>17, <1>18, <2>1, Zenon DEF Current
<1>20. Sealed(r)
  BY <1>5, Zenon DEF Sealed
<1> QED BY <1>5, <1>11, <1>12, <1>16, <1>19, <1>20, Zenon DEF Accepts

\* What a writer that nobody disturbed writes is so of the catalogs.
LEMMA WriteIsGood ==
  ASSUME RInv, Write, quiet, live[Targets] \notin {Absent, NoTargets} PROVE Good'
<1>1. PlaceOk /\ WriterOk /\ pc = "writing"
  BY Parts DEF Write
<1>2. PICK b : b = body
  OBVIOUS
<1>3. file' = Manifest(b) /\ live' = live
  BY <1>2, Zenon DEF Write
<1>4. Existing' = Existing /\ Fields' = Fields
  BY <1>3, SameCatalogs, Zenon
<1>5. IsBody(b)
  BY <1>1, <1>2, Zenon DEF WriterOk
<1>6. UpToDate /\ todo = <<>>
  BY <1>1, Zenon DEF WriterOk, PlaceOk
<1>7. \A n : n \notin Range(todo)
  BY <1>6 DEF Range
<1>8. /\ Len(b) >= 2 /\ b[1] = Fields[1] /\ b[2] = Fields[2]
      /\ \A x \in 3 .. Len(b) : \E n \in Existing : b[x] = Digest(n, live[n])
      /\ \A n \in Existing : \E x \in 3 .. Len(b) : b[x] = Digest(n, live[n])
  BY <1>2, <1>6, <1>7, Zenon DEF UpToDate
<1>9. live' \in [Names -> Contents \cup {Absent}]
  BY <1>1, <1>3, Zenon DEF PlaceOk
<1> QED BY <1>3, <1>4, <1>5, <1>8, <1>9, Zenon DEF Good, SoNow

\* A writer that came to its end while no catalog changed has written what
\* tools/check_release_manifest accepts.
THEOREM Regenerated == RSpec => RegenerationHeals
<1>1. RInv /\ [RNext]_rvars =>
        [Write /\ quiet /\ live[Targets] \notin {Absent, NoTargets} => Accepts']_rvars
  <2>1. SUFFICES ASSUME RInv, Write, quiet, live[Targets] \notin {Absent, NoTargets}
        PROVE  Accepts'
    OBVIOUS
  <2>2. Good'
    BY <2>1, WriteIsGood
  <2> QED BY <2>2, GoodAccepts, PTL
<1> QED BY <1>1, ManifestInvariant, PTL DEF RSpec, RegenerationHeals
=============================================================================
