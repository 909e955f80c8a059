--------------------------- MODULE ContractMatrix ---------------------------
(* scripts/contract_matrix: scripts/test is run for each backend and contract  *)
(* mode, its record is classified, and the six results are compared with the   *)
(* checked-in catalog or, with --write, become it. tools/check_contract_matrix *)
(* judges the catalog alone. scripts/test is also run by itself.               *)
EXTENDS TestRunner

CONSTANTS Fixtures,    \* the two representative tests
          Catalogs     \* what may be checked in

Combinations ==
  << <<"c", "runtime">>,  <<"vm", "runtime">>,
     <<"c", "verified">>, <<"vm", "verified">>,
     <<"c", "disabled">>, <<"vm", "disabled">> >>

NoFile == <<>>
Results == {"pass", "unsupported", "fail"}

Ask(n, hasDriver) ==
  [backend |-> Combinations[n][1], mode |-> Combinations[n][2],
   driver |-> hasDriver, serialize |-> FALSE, corrupt |-> {}]

ASSUME MatrixAssumption ==
  /\ Fixtures \in TargetLists /\ Fixtures # <<>>
  /\ \A x \in DOMAIN Fixtures : Fixtures[x] \in Cases
  /\ \A n \in DOMAIN Combinations, b \in BOOLEAN : Ask(n, b) \in Options
  /\ NoFile \in Catalogs

VARIABLES rows,      \* OUT_ROWS
          catalog,   \* the file: rows, or NoFile
          write,     \* whether --write was given
          gate       \* where the script is; "none" when it is not what runs

mvars == <<vars, rows, catalog, write, gate>>

MInit ==
  /\ \E t \in Tables, b \in BOOLEAN : Start(Ask(1, b), t, Fixtures)
  /\ rows = <<>>
  /\ catalog \in Catalogs
  /\ write \in BOOLEAN
  /\ gate = "running"

\* scripts/test by itself.
AloneInit ==
  /\ Init
  /\ rows = <<>> /\ catalog = NoFile /\ write = FALSE
  /\ gate = "none"

RunTest ==
  /\ gate \in {"none", "running"}
  /\ Next
  /\ UNCHANGED <<rows, catalog, write, gate>>

\* A row that the loop over the record takes for unsupported, and one it fails.
SawUnsupported == \E x \in DOMAIN record : record[x].got = Unsupported
SawMismatch ==
  \E x \in DOMAIN record : record[x].got \notin {Unsupported, record[x].want}

\* Mutant of Result: the exit status of scripts/test is not looked at.
ResultByRows ==
  IF record = <<>> \/ SawMismatch THEN "fail"
  ELSE IF SawUnsupported THEN "unsupported" ELSE "pass"

\* Mutant of Result: whatever is not an exit code is unsupported.
ResultByStatus ==
  IF record # <<>> /\ record[1].got[1] = "status" THEN "unsupported"
  ELSE IF record = <<>> \/ SawMismatch \/ verdict # "green" THEN "fail"
  ELSE "pass"

Result ==
  IF record = <<>> \/ SawMismatch THEN "fail"
  ELSE IF SawUnsupported THEN "unsupported"
  ELSE IF verdict # "green" THEN "fail" ELSE "pass"

Restart(o) ==
  /\ opt' = o
  /\ at' = 1 /\ stage' = "pick" /\ ok' = TRUE /\ fails' = 0
  /\ record' = <<>> /\ serialized' = <<>> /\ digest' = {}
  /\ ran' = <<>>
  /\ verdict' = "running"
  /\ UNCHANGED <<table, selected>>

\* scripts/test has ended: its record becomes a row, and the next one starts.
Classify ==
  /\ gate = "running" /\ stage = "done"
  /\ Len(rows) < Len(Combinations)
  /\ rows' = Append(rows, <<opt.backend, opt.mode, Result>>)
  /\ IF Len(rows) + 1 < Len(Combinations)
     THEN Restart(Ask(Len(rows) + 2, opt.driver))
     ELSE UNCHANGED vars
  /\ UNCHANGED <<catalog, write, gate>>

OverallFail == \E x \in DOMAIN rows : rows[x][3] = "fail"

\* Mutant of Finish: what was written is what is right.
FinishWriteWins ==
  /\ gate = "running" /\ Len(rows) = Len(Combinations)
  /\ catalog' = IF write THEN rows ELSE catalog
  /\ gate' = IF catalog' = rows /\ (write \/ ~OverallFail) THEN "PASS" ELSE "FAIL"
  /\ UNCHANGED <<vars, rows, write>>

Finish ==
  /\ gate = "running" /\ Len(rows) = Len(Combinations)
  /\ catalog' = IF write THEN rows ELSE catalog
  /\ gate' = IF catalog' = rows /\ ~OverallFail THEN "PASS" ELSE "FAIL"
  /\ UNCHANGED <<vars, rows, write>>

MNext == RunTest \/ Classify \/ Finish

MSpec == (MInit \/ AloneInit) /\ [][MNext]_mvars
-----------------------------------------------------------------------------
\* tools/check_contract_matrix.py: one row for each combination and no failure.
ShapeOk(file) ==
  /\ file # NoFile
  /\ \A x, y \in DOMAIN file :
       <<file[x][1], file[x][2]>> = <<file[y][1], file[y][2]>> => x = y
  /\ {<<file[x][1], file[x][2]>> : x \in DOMAIN file} =
       {Combinations[n] : n \in DOMAIN Combinations}
  /\ \A x \in DOMAIN file : file[x][3] \in Results \ {"fail"}

\* scripts/test has ended for a combination.
Ended == gate = "running" /\ stage = "done" /\ Len(rows) < Len(Combinations)

\* A combination passes only if every fixture was built and run on its backend
\* to what the table says, in a run that came to its end; what the table excuses
\* is no pass (AC-019).
PassEarned ==
  Ended /\ Result = "pass" =>
    /\ verdict = "green"
    /\ \A x \in DOMAIN selected :
         /\ table[selected[x]][opt.backend] # Skip
         /\ RanAs(selected[x], opt.backend, table[selected[x]][opt.backend])

\* Unsupported is said of the VM in another mode than runtime, and of nothing
\* that was built: a failure never hides there (AC-019).
UnsupportedHonest ==
  Ended /\ Result = "unsupported" =>
    opt.backend = "vm" /\ opt.mode # "runtime" /\ ran = <<>>

\* The two judges agree: a catalog that the gate passes, compared or written, is
\* the live result and one that the shape check accepts; a failure is in neither.
JudgesAgree == gate = "PASS" => catalog = rows /\ ShapeOk(catalog)

\* What the head of the script says: the matrix records the effective outcome,
\* and a mode that passes is one the fixtures were built with.
PassIsEffective ==
  Ended /\ Result = "pass" => \A x \in DOMAIN ran : ran[x].mode = opt.mode
-----------------------------------------------------------------------------
\* Where the matrix is: its rows are those of the combinations it has behind it,
\* and scripts/test runs, or has run, for the next one.
MatrixInv ==
  /\ gate \in {"none", "running", "PASS", "FAIL"}
  /\ rows \in Seq({"c", "vm"} \X Modes \X Results)
  /\ Len(rows) <= Len(Combinations)
  /\ \A n \in DOMAIN rows :
       rows[n][1] = Combinations[n][1] /\ rows[n][2] = Combinations[n][2]
  /\ gate = "running" =>
       /\ selected = Fixtures
       /\ Len(rows) < Len(Combinations) => opt = Ask(Len(rows) + 1, opt.driver)
  /\ gate = "PASS" =>
       /\ catalog = rows /\ Len(rows) = Len(Combinations)
       /\ \A x \in DOMAIN rows : rows[x][3] # "fail"

\* The inductive invariant of both scripts.
MInv == IInv /\ Books /\ MatrixInv
=============================================================================
