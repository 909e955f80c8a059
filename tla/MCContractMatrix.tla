-------------------------- MODULE MCContractMatrix --------------------------
(* scripts/test by itself on every list of up to two tests, a repeated one      *)
(* included, with a table that expects anything of the one test and may excuse  *)
(* the other's VM leg; and the matrix over two fixtures and those tables, with  *)
(* the driver and without it. The driver builds in the mode it is asked for or  *)
(* in runtime, and its log names it or nothing; an honest driver does as asked  *)
(* and says so.                                                                 *)
EXTENDS ContractMatrix

CONSTANTS one, two, refused

MCLists == UNION {[1 .. n -> {one, two, refused}] : n \in 0 .. 2}
MCFixtures == <<one, two>>

MCTables ==
  {[x \in {one, two} |-> [leg \in Legs |-> IF x = one THEN e[leg]
                                           ELSE IF leg = "vm" THEN f ELSE Exit(0)]] :
     e \in [Legs -> {Exit(0), Exit(1), Skip}], f \in {Exit(0), Skip}}

MCOptions ==
  [backend : {"c", "vm", "both", "other"}, mode : {"runtime", "verified"},
   driver : BOOLEAN, serialize : {FALSE}, corrupt : {{}}] \cup
  [backend : {"vm", "both"}, mode : {"runtime", "verified"},
   driver : BOOLEAN, serialize : {TRUE}, corrupt : {{}, {one}}] \cup
  [backend : Legs, mode : Modes, driver : BOOLEAN, serialize : {FALSE}, corrupt : {{}}]

HonestBuilds == {[asked |-> m, mode |-> m, said |-> m] : m \in Modes}

MCBuilds ==
  UNION {{[asked |-> m, mode |-> built, said |-> said] : said \in {built, Silent}} :
           <<m, built>> \in {<<m, m>> : m \in Modes} \cup (Modes \X {"runtime"})}

\* No file, the one that is checked in, and one that a better toolchain made.
MCCatalogs ==
  {NoFile} \cup
  {[n \in DOMAIN Combinations |->
      <<Combinations[n][1], Combinations[n][2],
        IF Combinations[n][1] = "vm" /\ Combinations[n][2] # "runtime"
        THEN vm ELSE "pass">>] : vm \in {"unsupported", "pass"}}
=============================================================================
