# sv0-strings in TLA+

`sv0-strings` is the string library of the sv0 toolchain: byte slices, UTF-8
text, C strings and bounded C buffers, with C23 and POSIX 2024 façades over
them. Around it stand a test runner for two backends, scripts that record
evidence, and a gate of twenty-five steps that decides from tables, documents,
library sources and a C oracle whether that evidence is in order. This directory
models the library's operations, the test runner, the scripts and the gate with
its tools in TLA+, checks them with TLC on small instances and proves the most
important facts with TLAPS for every instance.
Paths below are relative to the repository root.

## The system

The library is sequential: no threads, no callbacks, no I/O. What makes it hard
is what makes C's `<string.h>` hard: overlap, bounds and their arithmetic,
storages that may or may not hold a terminator, refusals that must leave
everything as it was, positions that a caller carries from call to call, and
values whose domain (text, C string, terminated C string) nothing records. The
scripts around it are processes: they can be stopped, what they record can change
while they read it, and what a tool was asked for may not be what it did.

| component | state | operations | interacts with |
|---|---|---|---|
| `strings_types` | none: enums and structs that carry results; the accelerator switch, constant false | constructors | all |
| `strings_checked` | none | `checked_add`, `checked_sub`, `checked_mul` | every length calculation |
| `strings_bytes` | the caller's `&mut [byte]` | `copy`, `copy_prefix`, `move_within`, `fill`, `fill_explicit`; `compare`, `equal`, `find`, `rfind`, `find_slice`, `span_in`, `span_not_in`, `starts_with`, `ends_with` | called by c23, posix2024, legacy |
| `strings_text` | immutable strings, valid UTF-8 | `validate_utf8`, `from_utf8`, `concat`, `slice_bytes`, `find`, `rfind`, `find_byte`, `compare_bytes`, ... | called by cstr |
| `strings_cstr` | immutable C strings; a `CBuffer`, which is its storage and nothing else (deviation D-8) | constructors and conversions; `copy_into`, `append_into`, `empty_buffer`, `require_cstr` | text, checked; called by c23, posix2024 |
| `strings_tokenize` | a `TokenCursor`, held by the caller | `next` | called by `strtok`, `strtok_r` |
| `strings_c23` | the caller's storage | `memcpy` to `strxfrm` | bytes, cstr, tokenize, locale |
| `strings_posix2024` | the caller's storage | `stpcpy`, `stpncpy`, `strlcpy`, `strlcat`, `strnlen`, `strtok_r`, `strcasecmp`, `ffs`, `_l` adapters | bytes, cstr, ascii, locale |
| `strings_ascii` | none | case folds and comparisons | posix2024 |
| `strings_locale` | a capability id | `open`, comparisons, `locale_transform` | c23, posix2024 |
| `strings_legacy` | the caller's storage | `bcmp`, `bcopy`, `bzero`, `index`, `rindex` | c23 |
| `strings_unsafe_abi` | none | the declaration of C's `strlen`, behind a compiler feature | none |
| `scripts/test` | the outcome so far, a record, a serialized record, a digest | both legs of every selected test, the comparison of the legs | compiler, VM, `test/expectations.tsv` |
| `scripts/contract_matrix` | six results; `tools/catalogs/contract_matrix.tsv` | classify a record, compare or `--write` | runs `scripts/test`; judged by `tools/check_contract_matrix.py` |
| `scripts/release_manifest` | `tools/catalogs/release_manifest.tsv` | digest every catalogue, write | reads what other scripts write; judged by `tools/check_release_manifest.py` |
| `scripts/check` | `fail`, and the step it is at | runs every checker on the working tree, asks the generators whether they have something to write, builds and tests the oracle | everything below; the tree may be edited while it runs |
| checkers (`tools/check_*.py`) | none: each reads tables of `tools/catalogs`, fixtures, library modules, gate scripts or documents, and exits | accept or refuse the tree | read what one another's tables say of requirements, tests and fixtures |
| generators (`extract_requirements`, `standards_matrix`, `compat_doc`) | the file each writes | write it, or `--check` it | the SPEC, `standards.tsv`, `requirements.tsv`, `tests.tsv`, `docs/compatibility.md` |
| C oracle (`tools/c_oracle`) | its source; a binary that every user builds anew | build, self-test, answer the drivers of `test/differential` | run by `scripts/check` |
| commit-msg hook | none | refuse a message that credits an agent | git |
| `scripts/consumer_rehearsal`, `path_order_corpus`, `serialized_comparison`, `locale_matrix`, `sanitize`, `unsafe_abi_gate` | a table each, or none | run the toolchain in fixed ways | their tables' checkers |
| `test/` | fixtures, fuzzers, differential drivers | - | read the library |

What makes each correct:

* a store never leaves the storage or the frame of its call, and a refused call
  stores nothing (`strings_bytes`, `strings_cstr`, `strings_c23`, `strings_posix2024`);
* an overlapping move equals the move through a buffer of its own;
* what a reader of a `CBuffer` sees after any sequence of calls is the C string
  that those calls promise, and truncation is always reported;
* a reported need is enough to succeed with;
* no size is ever a wrapped value;
* tokens are maximal runs, no byte is lost, callers are independent, a caller
  that keeps asking is told `Complete`;
* exactly RFC 3629 is accepted as text, and every chain of conversions keeps
  the domain of the value;
* a search answers the first or last position there is, a comparison is one total
  order however often its loop is written out, and a named locale is refused
  rather than answered in another one;
* a green test run has run everything it is held to, a red one has a cause, and
  what it records is what was built, as far as the driver's log tells;
* evidence that is accepted is evidence of what is there now: a requirement in
  scope has a test that exists with its recorded digest, a way of verification
  that is no test, or a note with the exception it owes; what tables and files
  repeat of each other is the same; an id cited as evidence leads to a file; no
  generator with a `--check` has anything left to write, and the manifest is old in
  nothing but its revisions;
* the verdict of the gate is PASS exactly when none of its steps finds anything;
* a scan that imitates a markdown reader, a lexer or git finds what those find, on
  the texts where it can.

The hazards, each at its line, are listed in `PROJECT.json` with the properties
that cover them.

## Modules

| module | what it is | code |
|---|---|---|
| `StringsChecked` | the three operations with the wrap of the machine, and the true results | `lib/strings_checked.sv0` |
| `StringsTypes` | the result carriers | `lib/strings_types.sv0` |
| `MoveWithin` | `move_within` and `memmove_within`, one loop iteration per step | `lib/strings_bytes.sv0` |
| `AtomicMove` | abstract: the move as one step, sources read first | BYTE-007, BYTE-008 |
| `CBuffer` | one storage and every call that stores to it or reads its string, one call per step | `strings_cstr`, `strings_c23`, `strings_posix2024`, `strings_bytes`, `strings_locale` |
| `CStringCell` | abstract: the C string a reader of the storage sees, and what each call does to it | SPEC 13, C23, POSIX |
| `Tokenize` | `next`, `strtok`, `strtok_r`: callers with a cursor each take turns on one text and may change separators | `lib/strings_tokenize.sv0` |
| `StrtokInC` | the tokenizer in lockstep with C's `strtok_r` (external) | `test/differential/c23_strtok_oracle.py` |
| `Utf8` | the validator, the boundary test and the searches; RFC 3629 by scalar value | `lib/strings_text.sv0` |
| `StringValues` | chains of conversions between Text, CStr, CString and a bounded storage | `strings_text`, `strings_cstr`, `strings_c23` |
| `ByteSearch` | the twelve searches and spans, one loop iteration per step, with the entry each façade name makes | `strings_bytes`, `strings_text`, `strings_c23`, `strings_posix2024`, `strings_legacy` |
| `Compare` | the fourteen comparisons, one loop iteration per step | the same, and `strings_ascii`, `strings_locale` |
| `TestRunner` | the runner, one leg of one test per step | `scripts/test` |
| `ContractMatrix` | the runner by itself and under the script that runs it six times, and the judge of what that writes; extends `TestRunner` | `scripts/contract_matrix`, `tools/check_contract_matrix.py` |
| `ReleaseManifest` | the writer, the world that changes under it, and the judge of the file | `scripts/release_manifest`, `tools/check_release_manifest.py` |
| `FindFirstSet` | `ffs`, `ffsl`, `ffsll` on signed values of a width | `lib/strings_posix2024.sv0` |
| `Catalogs` | the working tree, and the checkers that tie requirements, tests, fixtures and exceptions together | `tools/check_catalogs.py`, `check_traceability.py`, `check_fixture_provenance.py`, `check_exceptions.py` |
| `Evidence` | the checkers that tie a table of evidence to what it speaks of; extends `Catalogs` | `tools/check_acceptance.py`, `check_fuzz_budget.py`, `check_complexity_benchmarks.py`, `check_accel_matrix.py`, `check_gate_policy.py`, `check_release_readiness.py` |
| `Matrices` | the checkers of tables that runs of the toolchain fill; extends `Evidence` | `tools/check_consumer_rehearsal.py`, `check_path_order_corpus.py`, `check_serialized_comparison.py`, `check_contract_matrix.py`, `check_targets.py`, `check_release_manifest.py` |
| `Scanners` | the tools that scan a text, each beside that text's own reader | `tools/check_doc_fences.py`, `check_locale_independence.py`, `scripts/verify_commit_msg_no_ai_signoff.py` |
| `Standards` | the generators and the checks of dispositions; extends the two above | `tools/extract_requirements.py`, `standards_matrix.py`, `compat_doc.py`, `check_posix_matrix.py`, `check_locale_independence.py` |
| `CheckGate` | the gate, one tool per step, with the oracle, generators, edits and stops; extends `Standards` | `scripts/check`, `tools/c_oracle/run_oracle.py` |
| `MoveWithinProofs`, `CBufferProofs`, `TokenizeProofs`, `ByteSearchProofs`, `CompareProofs`, `StringValuesProofs`, `ReleaseProofs`, `CheckGateProofs` | theorems | - |
| `MC*` | constants for TLC | - |

How state and actions correspond:

* **`MoveWithin`**: `buf` is the slice, indexed from 0; `call` the arguments;
  `pc` the point in the function; `k` the loop variable (`i` or `j`). `old` is a
  history variable, the slice when the call began. The four range tests of the
  code are `OutOfBounds`, in the code's order and without forming a sum. Any
  sequence of calls is allowed, with arguments up to `MaxUsize`.
* **`CBuffer`**: `buf` is the storage and `cap` its length. A store is a
  function update that would *extend* the domain if its index were outside, so a
  store past the end shows as a type error and not as nothing. `last` is the
  answer the caller holds; it is taken before the next call is made, which keeps
  answers from multiplying states. `memmove` between two slices, `strlcpy`,
  `memset`, `memset_explicit`, `bzero` and `bcopy` are the same code as
  `MemCpy`, `CopyInto`, `Fill` and `MemCpy` and have no action of their own;
  `strxfrm_l` in the POSIX locale is `StrXfrm`, in any other `StrXfrmNamed`.
  Loops that the code bounds by a length are one step here; `MoveWithin` is
  where a loop's own order matters.
* **`Tokenize`**: a cursor is `pos` and `complete`; the caller, not the library,
  writes both. `toks` is a history of the tokens given, each with the position
  it was asked from and the set it was asked with.
* **`StringValues`**: deviation D-7 makes Text, CStr and CString one sv0 type.
  `role` is the domain the specification gives the value, and the caller is
  assumed to pass a value only where its role is asked for: the code has no
  check to model. `origin` remembers the text that went into a C string.
* **`ByteSearch`, `Compare`**: the calls are pure, so a behaviour
  is one call: `call` holds the arguments, `pc` the loop, `i` (and `j`) its index
  and `answer` the result. A façade that only renames another call shares its
  `op`; one that adds something (the clamp of `memchr`, the terminator of
  `strchr`, the two bounds of `strncmp`, the locale of the `_l` forms) has an
  entry of its own. The indices read the operands as sequences, so an index
  outside a slice is an evaluation error in TLC and a failed obligation in TLAPS.
  `memcmp` clamps its count to the shorter slice, so it is an order only among
  operands that are long enough: two different texts can both be `Equal` to their
  common prefix.
* **`TestRunner`**: `opt` is the command line, `table` the expectations, `at` and
  `stage` the place in the two loops. The compiler, the VM and the tests are
  external: a leg comes to any outcome, and the driver may build in another contract
  mode than the one it is asked for and may or may not name it in its log
  (`DriverBuilds`, `BuildsOf`). The record takes the mode from the log's
  `contracts=` and the requested one where there is none (`Effective`,
  `scripts/test:169-170`); that a log which names a mode names the one built is
  assumed (`DriverAssumption`). `ran` is a history of every build, with its mode,
  what its log said and what it came to. `corrupt` is the variable by which the self-test flips one row.
  A shell function returns its status modulo `ReturnMod` (256). An unknown
  `--backend` runs no leg and is green; the model has it as `"other"`.
* **`ContractMatrix`** drives `TestRunner` with the six combinations, or lets it
  run by itself. `gate` is the exit of the matrix script.
* **`ReleaseManifest`**: SHA-256 is taken to be injective, so a digest is the
  thing digested. A stop during the write leaves any number of whole lines and
  perhaps a piece of the next; edits by hand remove, double, swap or change a
  line or insert a blank one, without computing a new digest.
* **`Catalogs`, `Evidence`, `Matrices`, `Standards`**: a checker is a predicate on
  the tree, true when the tool exits with zero; an exception nobody catches is a
  refusal, as it is to the shell. `w.t` holds the tables: rows, and whether the
  file can be read in full (`"ragged"`: the last cell of a row is missing, which
  only some tools tolerate). A list cell is the set of its entries, a free text the set of
  the words a tool looks for in it (`WordsOf`), a file its digest and the
  literals tools read from it, a symbol cell of the SPEC the list of its names
  (`SymbolsIn`). A dictionary that Python builds from rows keeps
  the last row of a key: `LastWith`. A generator is an operator from its sources
  to the table it writes, or `Aborted`, which writes nothing.
* **`Scanners`**: a markdown line is a fence (its tick, how many, the first word of
  its info string, whether there is more to that, whether it is indented as code) or
  a line of code; a library module a sequence of the lexemes that comments and
  strings are made of and of what is looked for; a line of a message the patterns it
  matches. Beside each scanner stands the text's own reader, which heeds all of
  that; block comments are taken not to nest, and block quotes and lists around a
  markdown fence are not modelled.
* **`CheckGate`**: `repo` is the tree; `at`, `fail`, `verdict` the script.
  `RunChecker` is one line of the script, `Accepts` the table from names to
  predicates. The oracle is its source: the self-test and each of the sixteen
  drivers build it with `force=True` before the first question, so no binary is
  older than what is asked (the comparison of times in `run_oracle.build` serves
  other callers). Without a driver in the tree the loop does nothing
  (`DriversThere`, `scripts/check:78`). `w.revisions` is what git and `cc` say of
  the tree, and `w.sealed` what the manifest was made of: the tables, and the
  revisions of that time, which need not be the present ones
  (`scripts/release_manifest:14-23`, `tools/check_release_manifest.py:12-15`).
  `quiet` is a history: nothing changed since the run began; a generator that
  writes what was there leaves it true. The gate can be stopped at any step
  (`Interrupt`).
* Result strings of the allocator: `string_concat` aborts the program when
  memory runs out, so a string of `MaxUsize` bytes plus a terminator is not a
  state (`Terminable`). `RoomAssumption` of `CBuffer` is the same fact: no storage
  and no payload is all of memory. At such a length `stpcpy`'s unchecked addition
  and the stand-ins for an overflow would wrap to 0.

Mutants: an operator whose comment begins "Mutant of" is a plausible bug in the
definition below it, used by no specification; `PROJECT.json` says which
property each one breaks.

## Runs

| run | asks | bounds and why they are enough |
|---|---|---|
| `move_within` | `LoopContracts`, `UnreadIntact`, `AtomicSpec`, `Terminates` | 4 cells: moves of 1 to 3 bytes in both directions, with overlaps of 0, 1 and 2. `MaxUsize` = 7, so `start + len` passes it |
| `cbuffer` | `TypeOK`, `RetrySucceeds`, `FailureAtomic`, `Frame`, `CStringSpec` (which says what truncation is told) | capacities 0 to 4, two nonzero bytes, payloads from empty to as long as the longest storage; sources with a NUL at the front, inside, at the end, nowhere; every count of a usize. `MaxUsize` = 6, so that a string and a payload overflow together and the need of a refused append may or may not fit |
| `strncat_need_wrap` | `NeedExceedsHave` (violated) | `MaxUsize` = 15, a count at the top of it |
| `tokenize` | `TokensMaximal`, `NothingLost`, `Independent`, `SameAsCWhenKept`, `AllComplete` | two callers, each with a C `strtok_r` beside it; texts up to 4 bytes of one ordinary byte and two separators; the empty set, one separator, both |
| `string_values` | `RolesHold`, `CutOnScalar`, `FoundIsSliceable`; `ValidatorExact`; `FfsExact` | strings of up to `MaxUsize` = 6 bytes of scalars of 1, 2 and 4 bytes, so that the checked additions do overflow; storages of 0 to 6 bytes. Beside the chains: sequences of up to 4 of the bytes at the ends of each range the validator distinguishes (a scalar has at most 4 bytes); every int and long of a small width, the most negative one among them |
| `byte_search` | `Exact`, `Terminates` | texts up to 4 bytes, arguments up to 3, over 3 byte values (NUL is one): overlapping partial matches, occurrences at both ends, sets with and without the byte; counts to one past the text, ints from below -1 byte to two bytes |
| `compare` | `Exact`, `Terminates` | 5 byte values: NUL, a capital, a byte between the cases, its small letter, one above; all pairs of up to 2 bytes and of 3 of NUL and the letters, so that a NUL, a count and an end can each cut first |
| `test_scripts` | `GreenMeans`, `RedMeans`, `CorruptionCaught`, `DigestComplete`, `RecordEffective` of `scripts/test`; `PassEarned`, `UnsupportedHonest`, `JudgesAgree` of the matrix | by itself: selections of up to 2 of 3 tests with repeats, one of the three must not compile; `ReturnMod` = 2, so that two mismatches vanish as 256 do. The matrix: two fixtures, with and without the driver, which builds in the mode it was asked for or in another, with a log that says which or is silent; no catalogue, the checked-in one, another |
| `matrix_mode_not_effective` | `PassIsEffective` (violated) | the same |
| `release_manifest` | `AcceptedIsCurrent`, `AcceptedIsMade`, `RegenerationHeals` | two catalogues with two contents, absent or present; `MaxEdits` = 1 edit by hand |
| `evidence` | `EvidenceSound`, `Lockstep`, `ClaimsBacked`, `VerdictMeans`, `GeneratedFresh`; `ScannersExact` | a tree that every tool accepts, made of a SPEC of one requirement for each way of being covered, with the SPEC and without it; one edit (`MaxEdits`) of any table (a row removed, added or replaced from a pool of rows that each fail or pass some check; a damaged table), file, library module, gate script, document or oracle, before or under the gate, and the generators at any time. The tree begins accepted, so one edit is what takes it across the line of a checker, and the generators run after it. The manifest begins with old revisions, and git may tell of later ones or of none. The oracle's source is right, or fails its self-test, or disagrees with a driver, or does not compile. Beside the idle gate: markdown of up to 5 lines of 9 kinds (a block, and a second one opened in or behind it; three and four ticks, tildes, an indented fence, a second word), up to 5 lexemes of 6 kinds, messages of up to 4 lines. 310,069 distinct states |
| `soft_signal_in_case_arm` | `SoftSignalsExplained` (violated) | the same tree; the edit is one line in a script |

Deadlock is checked except where the system stops: the tokenizer when every
caller was told `Complete`, a search or comparison when it has answered, and the
test scripts when they have ended.

**Fairness.** `Terminates` of `MoveWithin` assumes weak fairness of the steps of
a call once it has begun (`Run`): the library is sequential and a call runs to
its end; the caller is under no obligation to call. `Terminates` of the pure
calls assumes the same of their loops. `AllComplete` assumes weak fairness of
each caller's `NextToken`: a caller that tokenizes loops until `Complete`, and no
call waits for anything; changing separators is under no fairness, for a caller
may never do it. The scripts have no fairness and no liveness property: they can
be stopped at any moment.

## What the runs found

1. `strncat` on a destination without a NUL reports
   `DestinationTooSmall(cap + n + 1, cap)` and adds unchecked
   (`lib/strings_c23.sv0:469`). With `n` near the largest usize the need wraps:
   `n = usize::MAX` reports `(cap, cap)`. Nothing is stored out of bounds, but a
   caller that grows to the need never gets further. SEC-002 asks for checked
   arithmetic. `strcat`'s line 431 has the same form but its addend is the
   length of a string in memory.
2. `scripts/contract_matrix` does not look at the effective mode of the rows it
   classifies. Without the driver, `scripts/test` builds every mode with runtime
   contracts and records so, and the matrix says `pass` for `verified` and
   `disabled`.

3. `check_gate_policy` takes a line that starts with `*` for a comment
   (`tools/check_gate_policy.py:51`), and the default arm `*)` of a shell `case`
   starts with one (`scripts/test:100`). A soft signal in such an arm is not
   looked for, and the gate passes with no row that explains it. None stands
   there at this commit.

More was seen while reading. It is in the models as the code has it, and no run
calls it wrong:

* `next` resumes *at* the separator that ended a token
  (`lib/strings_tokenize.sv0:92`), C *behind* it. With one separator set the
  tokens are the same (`SameAsCWhenKept`); when the next set does not hold that
  byte, it becomes the head of the next token. `docs/r0.3-gate-review.md:88-90`
  records it under D-9.
* A test with `SKIP` for a backend is built and run there all the same
  (`scripts/test:249`, against `scripts/README.md:18`); its result is ignored.
* The manifest checker digests the rows it parsed
  (`tools/check_release_manifest.py:60`): a blank line put in by hand is accepted,
  edits of rows are caught (`AcceptedIsMade`).
* `check_catalogs` prints unknown backends and modes and never counts them, not
  even with `--strict`; `check_traceability` accepts an empty path, which names
  the repository itself (`Exists`); a bound scenario, an audited operation or a
  wired capability whose evidence is only commas is accepted (`Entries`).
* `check_accel_matrix` keeps its rows in a dictionary, so of two rows for one
  capability only the last is looked at; `check_fuzz_budget` accepts two rows for
  one fixture under different ids; the digest of the serialized comparison is
  checked for its form only; the hard-fail texts of the gate policy may stand in
  a comment.
* Completeness of the acceptance table's unavailable scenarios uses the status as
  written and the rows' own check the stripped one (`Unavailable`, `Strip`).
* The scanners part from the readers they imitate, and `ScannersExact` holds under
  hypotheses that say where (`FencesPlain`, `CommentsPlain`), which no check of the
  repository enforces:
  * `check_doc_fences` (line 35) does not see a fence with a blank in its info
    string (```` ```sv0 no_run ````), so its block is not linted and its closing
    fence is passed over; it compares no lengths, so a bare fence of three ticks
    closes a block that four have opened; it takes a fence that is indented as code
    for one; and it passes over a fence without an info string, so one with an info
    string inside such a block is taken to open one.
  * `strip_comments` cuts blocks before line comments, so a `/*` behind `//` hides
    code up to the next `*/`; it knows no strings, so a `//` or `/*` in one
    (`lib/strings_cstr.sv0:84` shows that the library has strings) hides what
    follows; a block that does not end is left in.
  * the commit hook passes over lines with `#`, as git does with a message from the
    editor; `git commit -m` keeps them, so a credit behind `#` is committed unseen.
    With `--verbose` git cuts the message at the scissors and the hook does not, so
    a diff that credits an agent is refused though the message does not. `CommitExact`
    says what holds in each of the three cases.
  No module has a string that opens a comment, and no document a fence that is
  indented so far, has more than three ticks or a blank in its info string, at this
  commit.
* The mode in the record is the requested one where the driver's log names none
  (`scripts/test:170`) or the build fails: such a row tells nothing of the build, and
  `RecordEffective` says that these are the only ones (`Unnamed`).
* `run_oracle.build` without `force` keeps a binary as old as its source and one
  built with other flags; nothing in the gate calls it so before a forced build.
* `extract_requirements` drops empty cells before it counts them and writes
  `todo` for every status; `standards_matrix` passes over short rows and leaves
  the requirements and tests columns empty, so the references that
  `check_catalogs` looks up there are never any.
* No `ANNOTATIONS` entry says `(todo)` at this commit, so the link from notes to
  exceptions is idle; the model has one that does.

## Proofs

Everything below is proved for every value of the constants, under the named
assumptions in the modules (`ConstantsAssumption`: the slice is no longer than
`MaxUsize` and there is a byte value; `WidthAssumption`: `MaxUsize` is a natural
number; `TokenizeAssumption`: texts and sets are made of bytes; `BufferAssumption`
and `RoomAssumption`: payloads have no NUL, lengths and counts fit a usize, and
nothing is as long as memory; `ValuesAssumption`: sources and pieces are strings
of bytes that fit a usize, and a piece is UTF-8 and is searched for as text;
`InputAssumption`: what the validator alone is run on is strings of bytes;
`RunnerAssumption` and `MatrixAssumption`: tables, selections and options have
their shape, and the two fixtures are cases; `DriverAssumption`: a driver's log that
names a contract mode names the one built; `ManifestAssumption`: there are
finitely many catalogues; `BitsAssumption`: an int has a bit and no more than a
long; `TreesAssumption`: a tree is a record, and so are its tables and what is sealed
of them).

A theorem that is about two specifications at once (`Spec \/ CSpec`,
`Spec \/ MSpec`, `Spec \/ MCSpec`) holds of the component by itself and inside the
composition that a run checks; `RunIsGate` takes the results on the gate to its run.

* `MoveWithinProofs`. The inductive invariant is `IInv`: types, the loop
  contracts, the direction, an unchanged buffer outside the loops, and
  `PartialMove`: inside a loop the buffer is the old one except at the
  destination positions already written, and those hold the *old* source bytes.
  That last part is what makes the step inductive: with the direction, it says
  that the byte read next is still the old one (`UnreadIntact` alone does not
  say what was written). From it: `MoveInvariant`, `NoContractFails`,
  `NeverClobbers`, and `MoveIsAtomic`, the refinement of `AtomicMove`: the
  mapping shows the abstract buffer as `old` while a call runs, so every loop
  step is a stutter and the return is the snapshot move.
* `CBufferProofs`. First the three checked operations: they give the true result
  or the overflow; the product needs that `p \div a = b` fails for every wrapped
  `p`. Then the buffer: `TypeOK` is inductive by itself, since the NUL is cached
  nowhere, and every call is one of three shapes (`NoStore`, `ByteStore`,
  `StringStore`) for which `Sound`, the step facts of all four properties, is
  proved once. What carries `StringStore` is `PutStringEnds`: a string stored at or
  before the old NUL has its terminator where it was put, so what is behind stays.
  `GrownOnceIsEnough` rests on `GrownEnds` (a storage that grows keeps its NUL or
  gets one where it ended) and on the exactness of the addition.
  `StorageIsACString` is the refinement of `CStringCell`: the string is `Content`
  of the storage, and each call maps to the call of the same name. Its weight is
  in `FrontReads`, where raw bytes overwrite the front of a string and its NUL may
  go, move or stay, and in `UpToNulIs` and `ThroughIs`, which show that the scans of
  the code find the prefixes the cell speaks of.
* `TokenizeProofs`: `TypeOK`, `TokensMaximal` and `NothingLost` together are
  inductive; `ScanStops`, from the least-number principle, is why both
  loops of `next` stop and where. `CallersIndependent`: the token at a position is
  the only one that is maximal there for a set of separators, so it does not depend
  on what the other callers did. `TokensAreCs` is about the lockstep with C:
  `CInv` adds to `TypeOK` that a caller that has kept its separators and C's
  saved pointer stand at the same place, or are both at the end, and that the
  tokens given so far are the same; both loops stop at the same position because
  both stop at the least one that `ScanStops` gives.
* `ByteSearchProofs`, under `SearchAssumption` (the calls are legal: a C string
  has no NUL). `IInv` says, for each loop, what the index has shown: every
  position before it was looked at and does not decide the answer (`Searched`),
  and a match in progress agrees so far. `Exact` alone is not inductive, since it
  says nothing until the answer is there.
* `CompareProofs`, under `CompareAssumption` (the letters are apart by `CaseGap`,
  NUL is not a letter). `IInv` says that the operands agree before the index and
  that the two bounds are the windows that count, slice and first NUL give. The
  order itself is proved total, antisymmetric and transitive, and both folds are
  proved to make the same bytes alike.
* `StringValuesProofs`, under `ValuesAssumption`, `InputAssumption` and
  `BitsAssumption`. First
  `ValidatorIsExact`. `WellFormed` says that a string of bytes can be cut into
  pieces each of which is the encoding of a scalar value (RFC 3629, from the
  numbers), and `validate_utf8` is a loop; the loop is a recursive function, whose
  existence is the first lemma. A set of cuts is turned into a local condition on
  each piece (`EachWhole`), the loop's steps are the pieces one after the other,
  and `NextPrefix` with `NoTextBeyond` say that where the loop stops nothing that
  goes further is well formed. So the validator accepts exactly what is well
  formed, and reports the length of the longest well-formed prefix, for strings
  of any length. The inductive invariant of the values, `IInv`, is the promise of
  every role, `MadeFrom` (what is held is a prefix of what it was made from, with
  its one NUL behind it) and that the last rejection was exact. `RolesHold` is not
  inductive without `MadeFrom`: what a C string reads back as depends on what was
  put in. `CutOnScalar` then needs that a prefix of a text which stops inside a
  scalar is refused at that scalar's beginning, and `FoundIsSliceable` that a
  piece that is text can stand in a text only between boundaries. `FfsStaysExact`
  is about the loop of `ffs` for any widths of `int` and `long`: the powers of two
  and the loop are recursive functions and are shown to exist first (`PowerExists`,
  `PositionExists`; a value of `w` bits, halved, has `w - 1`, which is why the loop
  ends on the most negative value, too); then bit `p + 1` of a value is bit `p` of
  its half (`BitBelow`), and the pattern's bits are the value's (`PatternIs`).
* `ReleaseProofs`, under `RunnerAssumption`, `MatrixAssumption` and
  `ManifestAssumption`. *The runner.* `GreenMeans` follows from `Tally`:
  as long as `fails` is 0 every test before `at` held and nothing has missed, and
  `ok` says the same of the legs of the test at hand. A killed run is outside it:
  its verdict is never green. `Books` ties the three files to the history of
  builds, leg by leg and in order; it is what `RedMeans`, `CorruptionCaught`,
  `DigestComplete` and `RecordEffective` rest on, since each of them relates a file
  to what was run several steps earlier. `RedMeans` and `CorruptionCaught` are the two
  directions of the comparison of the legs: it never fails where both legs held,
  and always fails where a compared row was corrupted. *The matrix.* `MatrixInv`
  (in `MInv`, with the runner's own invariant for the run in progress) says that the
  rows so far are what the finished runs came to; from it `PassEarned`,
  `UnsupportedHonest`, and `JudgesAgree`: the shape that the judge asks of the
  catalogue is a property of any six rows the script can produce, in its order.
  *The manifest.* The checker's reading loop is a recursive function, too
  (`RowsToIs`); `KeptOk` says what it keeps of a file. The invariant `RInv` says that
  no line seals rows other than those last written (so neither a torn file nor one
  edited by hand has a seal that fits other rows), that the rows of a writer have no
  key twice, and that, while no catalogue changes, they are so of the catalogues
  with the rest still to be digested. `AcceptedIsMade` and `AcceptedIsCurrent` are
  consequences: what is accepted ends with a seal over the rows before it, so they
  are the rows made, whose keys are all different. `RegenerationHeals` goes the
  other way: `Good` (whole, and so of the catalogues) is enough to be accepted.
* `CheckGateProofs`, under the assumptions of the modules below it. The inductive
  invariant is `GateInv`: as long as nothing has changed since the run began, `fail`
  is down exactly as long as every step before the present one holds of the tree
  and the oracle *as they are now* (`StepHolds`), and behind the look for the SPEC
  there is one. `VerdictIsRight` is its reading at the end: PASS if every step holds,
  FAIL if one does not, wherever it is. Nothing in the results on a PASS says how a
  verdict survives the steps after it: `quiet` does, and it must be in the invariant
  because an edit or a generator may come between any two steps. From it
  `EvidenceIsSound` puts the links of four checkers together (a row, its path, its
  digest, its exception), `TablesInStep` those of five, and `ClaimsAreBacked` those of
  three with the rule about paths of a fourth. `NothingToGenerate` is about single
  steps: a generator whose `--check` accepts the tree writes what is there, and the
  manifest, written anew, differs in its revisions only. There is no bound on the
  tree, the tables or the edits. *The scanners.* `MarkdownIsReadRight` and
  `CommentsAreReadRight` hold for texts of any length that satisfy `FencesPlain` and
  `CommentsPlain`; `ScannersStayExact` is the run's form of them and of the lemma on
  messages. A scanner is a recursion from the end of the text (`BackExists`), its
  reader one from the beginning (`ForthExists`); what joins them says, for each
  position the scanner may come to, what it finds from there on, given the state the
  reader is in there: outside a block or in one without an info string for markdown,
  code, a line comment or a string for a module. On a plain file the reader, with its
  lengths, and the scan, without them, close a block at the same line
  (`ReadsPlainly`); the scanner steps over a fence of a block without an info string
  and agrees again behind it. The blocks of comments are cut out at the same places
  (`OutsideIsRight`), after which a `//` that is left begins the line comment the
  lexer is in (`LineIsRight`). The hypotheses are where they come apart.

The loops' `IInv` (and `LoopContracts` of the searches and comparisons) are
proved for every instance and are in no run.

*Descent.* What termination rests on besides fairness is proved for every instance:
`MoveDescends`, `SearchDescends` and `CompareDescends` give each loop a variant
(the phases still to come, then the candidates, then the bytes), and the invariant
keeps it a natural number at every step of a loop, so no call can take steps for
ever; `NextMovesOn` says that an answer of `next` moves its caller forward in the
text or is `Complete`. TLC checks that a fair call also gets to its answer.

Only model-checked: liveness (`Terminates` and `AllComplete`, which rest on
fairness). Not provable with the installed provers: liveness under fairness,
`ENABLED`, and induction over data, which stands here as an argument about the least
counterexample where it was needed (`LeastElement`). All safety invariants and
action properties of the passing runs are theorems.

## Not modelled

* `strlen`, `strxfrm_size`, `strxfrm_l_size`: a length, or a refusal.
* `strerror`, `strerror_r`, `strerror_l`, `strsignal`: they refuse every argument
  and touch nothing. `strings_unsafe_abi`: a declaration.
* The probes of `scripts/test --self-test`, which run the script itself; which of
  its statuses a failed build has (one stands for all).
* `scripts/consumer_rehearsal`, `path_order_corpus`, `serialized_comparison`,
  `locale_matrix`, `sanitize`, `unsafe_abi_gate`: fixed sequences of toolchain
  commands, each of which fills one table or fails. The tables' checkers are
  modelled, and a table may hold anything.
* The probes of `check_doc_fences` with a compiler and `check_catalogs --strict`
  in the gate: `scripts/check` asks for neither (`CatalogsAccept` has the flag).
  The `--selftest` corpus of the commit hook.
* What the C functions behind the oracle answer: they are the host's. An oracle's
  source is one that is right, fails its self-test, disagrees with a driver or
  does not compile.
* An edit between two steps of the gate makes its verdict one about no tree at
  all; the code does nothing about it, and the properties say what a PASS means
  when nothing changed (`quiet`).
* The texts of notes and fixture lists in the contract matrix.
* Memory: aliasing of two `&mut` slices is rejected by the language; allocation
  failure aborts the program.

## Plan

1. Keys of `strxfrm` order like `strcoll`.
2. `scripts/consumer_rehearsal` in its modes, composed with its table's checker.
