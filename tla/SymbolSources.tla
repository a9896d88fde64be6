---------------------------- MODULE SymbolSources ----------------------------
(***************************************************************************)
(* The symbol index of app/core/symbol_index.py: the tables of a class     *)
(* document, the linkage records, and which FourCC is served for a class   *)
(* when the registrar scan, the class documents and the tags of the        *)
(* shipped levels disagree.  As in TaskSources a source is a sequence, and *)
(* Refused is a start of the server that fails.                            *)
(***************************************************************************)
EXTENDS TaskSources

------------------------------------------------------------------------------
(***************************************************************************)
(* A class document: headings of "identity", of "methods" and others, and  *)
(* below them "text", or a line of a table with its "cells".  Of a cell    *)
(* the text counts that is left without its markup.                        *)
(***************************************************************************)

CONSTANTS Garbled,      \* values that begin as a FourCC and are none
          Addresses     \* cells that hold addresses, none of them twice

Separator(line) == \A cell \in ToSet(line.cells) : cell = "---"

\* Mutant of Malformed: a second separator is taken for a row.
Malformed_AnySeparator(s, line) ==
    \/ Len(line.cells) # Len(s.header)
    \/ ~Separator(line) /\ ~s.separator

\* A line of a table that cannot stand where it does.
Malformed(s, line) ==
    \/ Len(line.cells) # Len(s.header)
    \/ Separator(line) = s.separator

\* The first line is the header, whatever its form.
TableStep(s, line) ==
    IF s.over \/ s.refused THEN s
    ELSE IF line.kind = "text" THEN [s EXCEPT !.over = s.separator]
    ELSE IF s.header = <<>> THEN [s EXCEPT !.header = line.cells]
    ELSE IF Malformed(s, line) THEN [s EXCEPT !.refused = TRUE]
    ELSE IF Separator(line) THEN [s EXCEPT !.separator = TRUE]
    ELSE [s EXCEPT !.rows = Append(@, s.number)]

\* A refusal is told from a table.
ASSUME RefusedAssumption == Refused \notin [header: Seq(STRING), rows: Seq(Nat)]

\* _first_table of the lines after line number: its header, empty if there is no
\* table, and the line numbers of its rows.
FirstTable(lines, number) ==
    LET end == Loop(TableStep, [header |-> <<>>, separator |-> FALSE, over |-> FALSE,
                                refused |-> FALSE, rows |-> <<>>, number |-> number], lines)
    IN  IF end.refused \/ (end.header # <<>> /\ ~end.separator) THEN Refused
        ELSE [header |-> end.header, rows |-> end.rows]

Headings == {"identity", "methods", "heading"}

\* The line of the next heading after one.
SectionEnd(lines, at) ==
    LET after == {i \in at + 1..Len(lines) : lines[i].kind \in Headings}
    IN  IF after = {} THEN Len(lines) + 1 ELSE CHOOSE i \in after : \A j \in after : i <= j

\* _section and its first table.
SectionTable(lines, name) ==
    LET at == {i \in DOMAIN lines : lines[i].kind = name} IN
    IF Cardinality(at) # 1 THEN Refused
    ELSE LET start == CHOOSE i \in at : TRUE
         IN  FirstTable(SubSeq(lines, start + 1, SectionEnd(lines, start) - 1), start)

IdentityHeader == <<"Item", "Value">>

\* What the rows of the Identity table may say of a class: each item once, the
\* class's own name, a FourCC if it looks like one, one signature.
IdentityFits(class, lines, rows) ==
    LET Values(items) == {lines[i].cells[2] : i \in {i \in rows : lines[i].cells[1] \in items}}
    IN  /\ \A i, j \in rows : i # j => lines[i].cells[1] # lines[j].cells[1]
        /\ Values({"RTTI name"}) = {class}
        /\ Values({"FourCC"}) \cap Garbled = {}
        /\ Cardinality(Values({"Signature", "Prototype"}) \ {""}) <= 1

Structures == { <<"Slot", "Address", "Name", "Behavior", "Status">>,
                <<"Slot", "Address", "Role", "Behavior">>,
                <<"Slot", "Address", "Name", "Behavior">>,
                <<"Slot(s)", "Address(es)", "Name", "Behavior", "Status">> }

Signatures == {"Signature", "Prototype"}

\* Mutant of MethodsHeader: any number of columns for signatures.
MethodsHeader_AnySignatures(header) ==
    At(header, {i \in DOMAIN header : header[i] \notin Signatures}) \in Structures

\* A header of the table of methods: columns for signatures are counted, and the
\* others compared.
MethodsHeader(header) ==
    LET signatures == {i \in DOMAIN header : header[i] \in Signatures}
    IN  /\ Cardinality(signatures) <= 1
        /\ At(header, DOMAIN header \ signatures) \in Structures

\* Every method has a name and addresses.
MethodsFit(lines, header, rows) ==
    \A i \in rows : \A k \in DOMAIN header :
        /\ header[k] \in {"Name", "Role"} => lines[i].cells[k] # ""
        /\ header[k] \in {"Address", "Address(es)"} => lines[i].cells[k] \in Addresses

\* _parse_class_doc of a class: the rows of both tables; methods may have none.
ClassDoc(class, lines) ==
    LET identity == SectionTable(lines, "identity")
        methods == SectionTable(lines, "methods")
    IN  IF identity = Refused \/ methods = Refused THEN Refused
        ELSE IF /\ identity.header = IdentityHeader
                /\ IdentityFits(class, lines, ToSet(identity.rows))
                /\ methods.header # <<>> =>
                      /\ MethodsHeader(methods.header)
                      /\ MethodsFit(lines, methods.header, ToSet(methods.rows))
        THEN [identity |-> identity.rows, methods |-> methods.rows] ELSE Refused

\* Each section once, in it the lines from the first with cells to the next text:
\* a header, a separator, and rows; methods with one of the headers known, or with
\* one that is known once a column for signatures is taken out.
ClassDocMeaning(class, lines) ==
    LET Of(name) == {i \in DOMAIN lines : /\ lines[i].kind \notin Headings
                                          /\ HeadingOf(lines, Headings, i) # 0
                                          /\ lines[HeadingOf(lines, Headings, i)].kind = name}
        Cells(name) == Ascending({i \in Of(name) : lines[i].kind # "text"})
        Rows(name) == {i \in Of(name) : /\ i > Cells(name)[2]
                                        /\ \A j \in Cells(name)[2]..i : lines[j].kind # "text"}
        Header(name) == lines[Cells(name)[1]].cells
        Table(name) ==
            /\ Len(Cells(name)) > 1
            /\ Separator(lines[Cells(name)[2]])
            /\ \A i \in Rows(name) : ~Separator(lines[i])
            /\ \A i \in Rows(name) \cup {Cells(name)[2]} :
                   Len(lines[i].cells) = Len(Header(name))
        Once(name) == Cardinality({i \in DOMAIN lines : lines[i].kind = name}) = 1
        Known(header) ==
            \/ header \in Structures
            \/ \E k \in DOMAIN header :
                  header[k] \in Signatures /\ RemoveAt(header, k) \in Structures
    IN  IF /\ Once("identity") /\ Once("methods")
           /\ Table("identity") /\ Header("identity") = IdentityHeader
           /\ IdentityFits(class, lines, Rows("identity"))
           /\ Cells("methods") # <<>> =>
                 /\ Table("methods") /\ Known(Header("methods"))
                 /\ MethodsFit(lines, Header("methods"), Rows("methods"))
        THEN [identity |-> Ascending(Rows("identity")),
              methods |-> IF Cells("methods") = <<>> THEN <<>>
                          ELSE Ascending(Rows("methods"))]
        ELSE Refused

------------------------------------------------------------------------------
(***************************************************************************)
(* The decomp ledger and the linkage records.                              *)
(***************************************************************************)

CONSTANTS Aspects       \* in alphabetical order

\* Mutant of LedgerClasses: a class may have two rows.
LedgerClasses_Repeats(rows) ==
    IF \/ rows = <<>>
       \/ \E i \in DOMAIN rows : rows[i].class = "" \/ ~rows[i].addresses
    THEN Refused ELSE {rows[i].class : i \in DOMAIN rows}

\* _parse_ledger: the classes, each of which has its row.
LedgerClasses(rows) ==
    IF \/ rows = <<>>
       \/ \E i \in DOMAIN rows : rows[i].class = "" \/ ~rows[i].addresses
       \/ \E i, j \in DOMAIN rows : i # j /\ rows[i].class = rows[j].class
    THEN Refused ELSE {rows[i].class : i \in DOMAIN rows}

\* Mutant of LinkageRow: a status that is not known is kept.
LinkageRow_AnyStatus(row, classes) ==
    row.class \in classes /\ row.aspect # "" /\ row.domain # ""

\* A row the table may have.
LinkageRow(row, classes) ==
    /\ row.class \in classes /\ row.aspect # "" /\ row.domain # ""
    /\ row.status \in LinkageStatuses

\* _parse_linkage: for each class the line numbers of the rows that are served, by
\* aspect and at most `most`.
SymbolLinkage(rows, classes, most) ==
    LET Place(i) == CHOOSE k \in DOMAIN Aspects : Aspects[k] = rows[i].aspect
        Of(c) == Ascending({i \in DOMAIN rows : rows[i].class = c})
        ByAspect(c) == Sorted(Of(c), [k \in DOMAIN Of(c) |-> Place(Of(c)[k])])
    IN  IF \/ \E i \in DOMAIN rows : ~LinkageRow(rows[i], classes)
           \/ \E i, j \in DOMAIN rows :
                 /\ i # j /\ rows[i].class = rows[j].class
                 /\ rows[i].aspect = rows[j].aspect
        THEN Refused
        ELSE [c \in classes |-> SubSeq(ByAspect(c), 1, IF Len(Of(c)) < most
                                                      THEN Len(Of(c)) ELSE most)]

------------------------------------------------------------------------------
(***************************************************************************)
(* FourCCs.  A fact is a "row" of the registrar scan, the claim of a class *)
(* document ("doc"), or the tag most instances have in the levels ("tag"). *)
(* Names stand for what is left of them when case is folded, as it is      *)
(* wherever the code compares them; that a level's FourCC is one only in   *)
(* capitals is left out.                                                   *)
(***************************************************************************)

CONSTANTS Levels        \* for each FourCC of a level the same one reversed

\* _parse_class_ids: no site is registered twice.
RegistrarAccepts(facts) ==
    /\ \E f \in ToSet(facts) : f.kind = "row"
    /\ \A i, j \in DOMAIN facts :
          i # j /\ facts[i].kind = "row" /\ facts[j].kind = "row"
              => facts[i].site # facts[j].site

Among(facts, kind, fourcc) ==
    {f.class : f \in {f \in ToSet(facts) : f.kind = kind /\ f.fourcc = fourcc}}

\* The FourCCs the registrar gives to a class of the ledger.
Committed(facts, c) ==
    {f.fourcc : f \in {f \in ToSet(facts) : f.kind = "row" /\ f.class = c}}

\* What the document of a class claims.
Explicit(facts, c) ==
    {f.fourcc : f \in {f \in ToSet(facts) : f.kind = "doc" /\ f.class = c}}

\* Mutant of OwnRow: the class's own registration is not looked at first.
OwnRow_Never(facts, c, fourcc) == FALSE

\* The registrar gives the class this very FourCC.
OwnRow(facts, c, fourcc) == fourcc \in Committed(facts, c)

\* Mutant of LevelId: levels are not looked at.
LevelId_Never(facts, fourcc) == FALSE

\* The registrar registers it for a level, which is no object; either
\* way round.
LevelId(facts, fourcc) ==
    \E l \in DOMAIN Levels : Among(facts, "row", l) # {} /\ fourcc \in {l, Levels[l]}

\* _fourcc_is_contradicted: by a level, by another class, or by the levels' tags,
\* if they know this class under another FourCC.
Contradicted(facts, classes, c, fourcc) ==
    /\ ~OwnRow(facts, c, fourcc)
    /\ \/ LevelId(facts, fourcc)
       \/ (Among(facts, "row", fourcc) \cap classes) \ {c} # {}
       \/ /\ Among(facts, "tag", fourcc) \ {c} # {}
          /\ \E f \in ToSet(facts) : f.kind = "tag" /\ f.class = c

\* _validate_explicit_fourccs.
Conflict(facts, classes) ==
    \E c \in classes :
        Committed(facts, c) # {} /\ ~(Explicit(facts, c) \subseteq Committed(facts, c))

\* _class_fourccs: what is served for each class, as a set of at most one.
Served(facts, classes) ==
    [c \in classes |->
        LET kept == {x \in Explicit(facts, c) : ~Contradicted(facts, classes, c, x)} IN
        IF kept # {} THEN kept
        ELSE {x \in Committed(facts, c) : Committed(facts, c) = {x}}]

\* _build_records and lookup by FourCC alone: the classes, and the registrar's rows.
Lookup(facts, classes, fourcc) ==
    [kind: {"class"}, class: {c \in classes : fourcc \in Served(facts, classes)[c]}]
    \cup [kind: {"fourcc"}, class: Among(facts, "row", fourcc)]

==============================================================================
