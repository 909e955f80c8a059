----------------------------- MODULE Standards -----------------------------
(* What is generated from the governing SPEC and from the tables, and what is  *)
(* checked of it: extract_requirements and standards_matrix make two of the    *)
(* tables, compat_doc makes docs/compatibility.md of three of them;            *)
(* check_posix_matrix and check_locale_independence judge the dispositions.    *)
(*                                                                             *)
(* w.spec is NoSpec, or the lines of the SPEC: a heading (level 2 or 3, with   *)
(* its number), or a table row with its cells.                                 *)
EXTENDS Matrices, Scanners, SequencesExt

CONSTANTS
  NoSpec,
  Numbered,          \* the headings that start with a number
  IdOrder,           \* the requirement names, by prefix and then by number
  SymbolsIn,         \* symbol cell -> the names in it
  Keywords,          \* disposition cell -> what each of its phrases starts with
  DigestOf,          \* requirement text -> its summary and digest
  C23Ids, PosixIds,  \* the names that start with C23, with POSIX
  CompatNotes,       \* the keys of compat_doc.ANNOTATIONS
  IsoC, Additions, StringsH, Removed, Declared,   \* the inventories of
                                                  \* check_posix_matrix
  HostDependent      \* EXPECTED_HOST_DEPENDENT

SpecThere(w) == w.spec # NoSpec

Good(rows) == [state |-> "good", rows |-> rows]
Sorted(order, S) == SelectSeq(order, LAMBDA x : x \in S)

\* An aborted generator writes nothing.
Aborted == Good(<<[aborted |-> TRUE]>>)

-----------------------------------------------------------------------------
(* tools/extract_requirements.py: every row of the SPEC with a known name and  *)
(* release, in whatever table. Empty cells are dropped before they are         *)
(* counted.                                                                    *)

IsRequirement(cells) ==
  Len(cells) >= 4 /\ cells[1] \in Range(IdOrder) /\ cells[2] \in Releases

RequirementRow(section, cells) ==
  [id |-> cells[1], release |-> cells[2], section |-> section,
   text |-> DigestOf[cells[3]], verification |-> cells[4], status |-> "todo"]

ExtractStep(st, line) ==
  LET cells == SelectSeq(line.cells, LAMBDA c : c # "") IN
  IF line.heading \in Numbered THEN [st EXCEPT !.section = line.heading]
  ELSE IF IsRequirement(cells)
       THEN [st EXCEPT !.rows = Append(@, RequirementRow(st.section, cells))]
       ELSE st

Extracted(spec) == FoldLeft(ExtractStep, [section |-> "", rows |-> <<>>], spec).rows

\* The order the rows are sorted into.
InOrder(rows) ==
  LET ids == Sorted(IdOrder, Values(rows, "id"))
  IN  [i \in DOMAIN ids |-> LastWith(rows, "id", ids[i])]

\* The same name twice aborts.
Requirements(spec) ==
  LET rows == Extracted(spec)
  IN  IF Unique(rows, "id") THEN Good(InOrder(rows)) ELSE Aborted

\* --check: without the SPEC it fails, too.
ExtractAccepts(w) == SpecThere(w) /\ w.t["requirements"] = Requirements(w.spec)

-----------------------------------------------------------------------------
(* tools/standards_matrix.py: the tables of Appendix A. A table is known by    *)
(* its section and the first cell of its header row.                           *)

\* column: where the disposition stands. The class column is the second one, or the
\* class is one word for all rows.
Table(section, first, standard, header, class, column) ==
  [section |-> section, first |-> first, standard |-> standard, header |-> header,
   class |-> class, column |-> column]

AppendixTables ==
  { Table("A.2", "declaration", "C23", "string.h", "declaration", 4),
    Table("A.2", "symbol", "C23", "string.h", "", 4),
    Table("A.3", "symbol/type", "C23-AnnexK", "string.h", "annex-k", 2),
    Table("A.4", "declaration", "POSIX.1-2024", "string.h", "declaration", 4),
    Table("A.4", "symbol", "POSIX.1-2024", "string.h", "", 4),
    Table("A.5", "symbol", "POSIX.1-2024", "strings.h", "", 4),
    Table("A.6", "symbol", "POSIX.1-2024", "strings.h", "removed", 3) }

NoTable == Table("", "", "", "", "", 0)

\* The first phrase that starts with a keyword; else the first keyword in the
\* order of the list that stands anywhere; else the cell itself.
NormDisposition(cell) ==
  LET led   == SelectSeq(Keywords[cell], LAMBDA k : k # "")
      order == <<"Exact", "Adapted", "Host-dependent", "Blocked", "Deferred",
                 "Excluded", "Legacy">>
      found == SelectSeq(order, LAMBDA d : d \in WordsOf[cell])
  IN  CASE led # <<>> -> Head(led)
        [] led = <<>> /\ found # <<>> -> Head(found)
        [] OTHER -> cell

\* A row of the SPEC is one of the matrix for each symbol in its first cell.
StandardRows(table, cells) ==
  [i \in DOMAIN SymbolsIn[cells[1]] |->
     [standard |-> table.standard, header |-> table.header,
      symbol |-> SymbolsIn[cells[1]][i],
      classification |-> IF table.class = "" THEN cells[2] ELSE table.class,
      disposition |-> NormDisposition(cells[table.column]),
      requirements |-> {}, tests |-> {}]]

\* Any heading ends the table before it. A row of dashes starts the data of the
\* table whose header was last seen; a row that is too short is passed over.
MatrixStep(st, line) ==
  LET tables == {t \in AppendixTables : t.section = st.section}
      titled == {t \in tables : t.first = line.cells[1]}
  IN  CASE line.heading # "" ->
             [st EXCEPT !.section = line.heading, !.table = NoTable, !.data = FALSE]
        [] line.heading = "" /\ tables = {} -> st
        [] line.heading = "" /\ tables # {} /\ line.cells[1] = "---" ->
             [st EXCEPT !.data = st.table # NoTable]
        [] line.heading = "" /\ titled # {} ->
             [st EXCEPT !.table = CHOOSE t \in titled : TRUE, !.data = FALSE]
        [] OTHER ->
             IF st.data /\ st.table.column <= Len(line.cells)
             THEN [st EXCEPT !.rows = @ \o StandardRows(st.table, line.cells)]
             ELSE st

Dispositioned(spec) ==
  FoldLeft(MatrixStep, [section |-> "", table |-> NoTable, data |-> FALSE, rows |-> <<>>],
           spec).rows

\* The same symbol twice aborts, and so does a disposition of another name.
StandardsMatrix(spec) ==
  LET rows == Dispositioned(spec) IN
  IF /\ IsInjective([i \in DOMAIN rows |-> StandardKey(rows[i])])
     /\ Values(rows, "disposition") \subseteq Dispositions
  THEN Good(rows) ELSE Aborted

StandardsMatrixAccepts(w) == SpecThere(w) /\ w.t["standards"] = StandardsMatrix(w.spec)

-----------------------------------------------------------------------------
(* tools/check_posix_matrix.py                                               *)

Bucket(class) ==
  CASE "declaration" \in WordsOf[class] -> "declaration"
    [] "declaration" \notin WordsOf[class] /\ WordsOf[class] \cap {"removed", "legacy"} # {} ->
         "legacy"
    [] WordsOf[class] \cap {"declaration", "removed", "legacy"} = {} ->
         IF "xsi" \in WordsOf[class] THEN "xsi"
         ELSE IF "cx" \in WordsOf[class] THEN "cx"
         ELSE IF "base" \in WordsOf[class] THEN "base" ELSE "none"

RowsOf(w, standard) ==
  SelectSeq(Rows(w, "standards"), LAMBDA r : r.standard = standard)
Posix(w) == RowsOf(w, "POSIX.1-2024")

Symbols(S) == {r.symbol : r \in S}
FunctionsIn(rows, header) ==
  Symbols({r \in Range(rows) : r.header = header /\ r.classification # "declaration"})

PosixMatrixAccepts(w) ==
  LET posix    == Posix(w)
      string_h == FunctionsIn(posix, "string.h")
      all_strings_h == Symbols({r \in Range(posix) : r.header = "strings.h"})
  IN  /\ Readable(w, "standards")
      /\ IsInjective([i \in DOMAIN posix |-> <<posix[i].header, posix[i].symbol>>])
      /\ IsoC \subseteq string_h \cup FunctionsIn(RowsOf(w, "C23"), "string.h")
      /\ Additions \subseteq string_h /\ string_h \subseteq IsoC \cup Additions
      /\ all_strings_h = StringsH \cup Removed
      /\ \A r \in Range(posix) : Bucket(r.classification) # "none"
      /\ Declared \subseteq Symbols({r \in Range(posix) : r.classification = "declaration"})

-----------------------------------------------------------------------------
(* tools/check_locale_independence.py                                        *)

LocaleAccepts(w) ==
  /\ Readable(w, "standards")
  /\ \A m \in DOMAIN w.lib : AmbientUses(w.lib[m]) = {}
  /\ {<<r.header, r.symbol>> :
        r \in {x \in Range(Rows(w, "standards")) : x.disposition = "Host-dependent"}}
       = HostDependent

-----------------------------------------------------------------------------
(* tools/compat_doc.py. A section sorted by symbol is the set of its lines: no *)
(* symbol has two, or check_catalogs refuses the table.                        *)

Covering(w, id) ==
  Values(SelectSeq(Rows(w, "tests"), LAMBDA r : id \in r.requirements), "id")

\* What stands beside a requirement: its tests, else a note, else its method.
EvidenceFor(w, r, notes) ==
  IF Covering(w, r.id) # {} THEN <<"tests", Covering(w, r.id)>>
  ELSE IF r.id \in notes THEN <<"note", r.id>>
  ELSE <<"non-test", r.verification>>

Coverage(w, ids, notes) ==
  LET rows == SelectSeq(Rows(w, "requirements"), LAMBDA r : r.id \in ids)
  IN  [i \in DOMAIN rows |->
         [id |-> rows[i].id, release |-> rows[i].release,
          evidence |-> EvidenceFor(w, rows[i], notes)]]

Entry(r) == [symbol |-> r.symbol, header |-> r.header,
             class |-> r.classification, disposition |-> r.disposition]
EntriesOf(S) == {Entry(r) : r \in S}
DeclaredIn(rows) == {r \in Range(rows) : r.classification = "declaration"}

Profile(posix, bucket) ==
  EntriesOf({r \in Range(posix) \ DeclaredIn(posix) : Bucket(r.classification) = bucket})

Compat(w) ==
  LET c23 == RowsOf(w, "C23")  posix == Posix(w) IN
  [c23_declarations |-> SelectSeq([i \in DOMAIN c23 |-> Entry(c23[i])],
                                  LAMBDA e : e.class = "declaration"),
   c23_functions |-> EntriesOf(Range(c23) \ DeclaredIn(c23)),
   annex_k |-> LET k == RowsOf(w, "C23-AnnexK")
               IN  [i \in DOMAIN k |-> <<k[i].symbol, k[i].disposition>>],
   c23_coverage |-> Coverage(w, C23Ids, CompatNotes),
   posix_declarations |-> EntriesOf(DeclaredIn(posix)),
   posix_functions |-> [b \in {"base", "cx", "xsi", "legacy"} |-> Profile(posix, b)],
   posix_coverage |-> Coverage(w, PosixIds, {})]

CompatSources == {"standards", "requirements", "tests"}

\* Mutant of CompatAccepts: the requirements' coverage is not compared.
CompatListsAccept(w) ==
  /\ \A n \in CompatSources : Readable(w, n)
  /\ \A k \in {"c23_functions", "annex_k", "posix_functions"} : w.compat[k] = Compat(w)[k]

\* --check: the file is what building it now gives.
CompatAccepts(w) ==
  /\ \A n \in CompatSources : Readable(w, n)
  /\ w.compat = Compat(w)
=============================================================================
