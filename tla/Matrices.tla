------------------------------ MODULE Matrices ------------------------------
(* The checkers under tools/ of the tables that a run of the toolchain fills:  *)
(* one row for each member of a fixed product, and no failure among them; the  *)
(* table of the targets; and the manifest over all tables.                     *)
EXTENDS Evidence

CONSTANTS
  NotCompared     \* the fixtures under test/compile_fail and test/unsafe_abi

\* One row for every wanted key, and none besides.
Complete(keys, want) == IsInjective(keys) /\ Range(keys) = want

-----------------------------------------------------------------------------
(* tools/check_consumer_rehearsal.py. Only a line that starts with # is a      *)
(* comment here. "https://" is an address that is not the project's own.       *)

Network == {"curl", "wget", "nc -", "ftp://", "https://"}
GitRemote == {"git clone", "git fetch", "git pull"}

Fetches(line) ==
  /\ line.start # "#"
  /\ \/ line.has \cap Network # {}
     \/ line.has \cap GitRemote # {} /\ "--local" \notin line.has

RehearsalAccepts(w) ==
  LET rows   == Rows(w, "rehearsal")
      script == w.gates["scripts/consumer_rehearsal"]
  IN  /\ Readable(w, "rehearsal") /\ "scripts/consumer_rehearsal" \in DOMAIN w.gates
      /\ Complete([i \in DOMAIN rows |-> <<rows[i].mode, rows[i].order, rows[i].backend>>],
                  {"workspace", "installed"} \X {"forward", "reverse"} \X {"c", "vm"})
      /\ Values(rows, "result") \subseteq {"pass"}
      /\ \A i \in DOMAIN script : ~Fetches(script[i])
      /\ {"git clone", "--local"} \subseteq TextOf(w, "scripts/consumer_rehearsal")

-----------------------------------------------------------------------------
(* tools/check_path_order_corpus.py                                          *)

PathOrderAccepts(w) ==
  LET rows == Rows(w, "path_order") IN
  /\ Readable(w, "path_order")
  /\ Complete([i \in DOMAIN rows |-> <<rows[i].case, rows[i].order, rows[i].backend>>],
              ({"valid"} \X {"entry-before-lib", "entry-after-lib"} \X {"c", "vm"}) \cup
              ({"ambiguous"} \X {"dup-first-before-lib", "dup-first-after-lib"} \X {"c", "vm"}))
  /\ \A r \in Range(rows) : r.result = IF r.case = "valid" THEN "pass" ELSE "reject_ok"

-----------------------------------------------------------------------------
(* tools/check_serialized_comparison.py: a value is a number, a SHA-256, or    *)
(* neither. The digest is not compared with anything.                          *)

Compared(w) == Runnable(w) \ NotCompared

SerializedAccepts(w) ==
  LET rows  == Rows(w, "serialized")
      Of(c) == LastWith(rows, "component", c).value
  IN  /\ Regular(w, "serialized")
      /\ Complete(Column(rows, "component"),
                  {"fixture_count", "fixture_id_digest", "mismatches"})
      /\ Compared(w) # {} /\ Of("fixture_count") = <<"number", Cardinality(Compared(w))>>
      /\ Of("fixture_id_digest") = <<"sha256">>
      /\ Of("mismatches") = <<"number", 0>>

-----------------------------------------------------------------------------
(* tools/check_contract_matrix.py. (ContractMatrix has the script that fills   *)
(* this table; here a hand may have written it.)                               *)

ContractAccepts(w) ==
  LET rows == Rows(w, "contract") IN
  /\ Regular(w, "contract")
  /\ Complete([i \in DOMAIN rows |-> <<rows[i].backend, rows[i].mode>>],
              {"c", "vm"} \X {"runtime", "verified", "disabled"})
  /\ \A r \in Range(rows) :
       /\ r.fixtures # ""
       /\ \/ r.result = "pass" /\ r.note \in {"-", ""}
          \/ r.result = "unsupported" /\ "reason" \in WordsOf[r.note]

-----------------------------------------------------------------------------
(* tools/check_targets.py                                                    *)

LibcOf(rows, family) == \E r \in Range(rows) : WordsOf[r.libc] \cap family # {}

TargetsAccept(w) ==
  LET rows == Rows(w, "targets") IN
  /\ Regular(w, "targets") /\ rows # <<>>
  /\ \A r \in Range(rows) :
       /\ r.filled
       /\ r.backends \subseteq {"c", "vm"}
       /\ r.status = "supported" => "reason" \in WordsOf[r.ci_evidence]
       /\ WordsOf[r.profile] \cap {"cx-locale", "cx-host", "host-locale", "full-cx"} = {}
  /\ LibcOf(rows, {"glibc"}) /\ LibcOf(rows, {"darwin", "libsystem"})

-----------------------------------------------------------------------------
(* tools/check_release_manifest.py, of a manifest that no hand wrote:          *)
(* w.sealed is what the tables were when scripts/release_manifest ran, and what *)
(* it was told of the revisions, "" where the tree is not in git. They need not *)
(* be the present ones, w.revisions.                                           *)
(* (ReleaseManifest has the script and the file line by line.)                 *)

ManifestAccepts(w) ==
  /\ w.sealed.t = w.t /\ w.sealed.revisions # ""
  /\ Rows(w, "targets") # <<>>
=============================================================================
