----------------------------- MODULE TaskSources -----------------------------
(***************************************************************************)
(* The parsers of app/core/task_index.py.  A document is a sequence of     *)
(* lines; of a line only its kind counts, and of one that makes a task the *)
(* task's ID and status.  A parser goes down the lines once, as the code   *)
(* does, and returns the tasks or refuses the document, in which case the  *)
(* server does not start.  Beside each parser stands what it should do,    *)
(* said of the document as a whole.                                        *)
(***************************************************************************)
EXTENDS Integers, SequencesExt

CONSTANTS Refused       \* no result: the server does not start

\* IDs are made of the name of the source and what the line says.
Task(kind, line, status, number) ==
    [source |-> kind, id |-> <<kind, line.id>>, status |-> status, line |-> number]

\* The line of the last heading above line i, or 0.
HeadingOf(lines, headings, i) ==
    LET above == {j \in 1..i - 1 : lines[j].kind \in headings} IN
    IF above = {} THEN 0 ELSE CHOOSE j \in above : \A k \in above : k <= j

\* The numbers in S, the least first.
Ascending(S) ==
    [k \in 1..Cardinality(S) |-> CHOOSE i \in S : Cardinality({j \in S : j < i}) = k - 1]

\* The members of s at the numbers in S.
At(s, S) ==
    LET order == Ascending(S) IN [k \in DOMAIN order |-> s[order[k]]]

\* Python's stable sort, by a number as the key: at place k is the member that has
\* k - 1 before it, those of a smaller key and those of its own that came before it.
Sorted(s, key) ==
    LET Before(i, j) == key[i] < key[j] \/ (key[i] = key[j] /\ i < j)
    IN  [k \in DOMAIN s |->
            s[CHOOSE i \in DOMAIN s : Cardinality({j \in DOMAIN s : Before(j, i)}) = k - 1]]

\* Tasks of some lines, in their order.
TasksAt(kind, lines, S, status(_)) ==
    LET order == Ascending(S)
    IN  [k \in DOMAIN order |->
            Task(kind, lines[order[k]], status(lines[order[k]]), order[k])]

------------------------------------------------------------------------------
(***************************************************************************)
(* The hand-off: items under headings that name current work.              *)
(***************************************************************************)

\* A line is a "section" heading, another "heading", an "item" or "text".
ItemStatus(line) == IF line.done THEN "done" ELSE "open"

\* Mutant of Within: a section does not end at the next heading.
Within_Unended(s, line) == s.in \/ line.kind = "section"

Within(s, line) == line.kind = "section"

HandoffStep(s, line) ==
    CASE line.kind \in {"section", "heading"} -> [s EXCEPT !.in = Within(s, line)]
      [] line.kind = "item" /\ s.in ->
            [s EXCEPT !.tasks = Append(@, Task("handoff", line, ItemStatus(line), s.number))]
      [] OTHER -> s

\* What a loop over numbered lines makes of the state s.
Loop(Step(_, _), s, lines) ==
    LET Numbered(t, line) == Step([t EXCEPT !.number = @ + 1], line)
    IN  FoldLeft(Numbered, s, lines)

Handoff(lines) ==
    LET end == Loop(HandoffStep, [in |-> FALSE, tasks |-> <<>>, number |-> 0], lines)
    IN  IF end.tasks = <<>> THEN Refused ELSE end.tasks

HandoffMeaning(lines) ==
    LET heading(i) == HeadingOf(lines, {"section", "heading"}, i)
        items == {i \in DOMAIN lines : /\ lines[i].kind = "item" /\ heading(i) # 0
                                       /\ lines[heading(i)].kind = "section"}
    IN  IF items = {} THEN Refused ELSE TasksAt("handoff", lines, items, ItemStatus)

------------------------------------------------------------------------------
(***************************************************************************)
(* The QA ledger: the first table under a heading of the master report.    *)
(***************************************************************************)

\* The words that decide, the first one first.  "FIXED" is also in "NOT FIXED".
Rules == << <<"NOT FIXED", "open">>, <<"WONTFIX", "done">>, <<"INCOMPLETE", "blocked">>,
            <<"DEFERRED", "blocked">>, <<"BLOCKED", "blocked">>, <<"RESOLVED", "done">>,
            <<"PENDING", "open">>, <<"CLOSED", "done">>, <<"FIXED", "done">>,
            <<"DONE", "done">>, <<"OPEN", "open">> >>

NormalStatus(words) ==
    LET hits == {i \in DOMAIN Rules : Rules[i][1] \in words} IN
    IF hits = {} THEN "unknown" ELSE Rules[CHOOSE i \in hits : \A j \in hits : i <= j][2]

RowStatus(line) == NormalStatus(line.words)

\* A "row" has the header's columns, a "short" one has not; without a number or a
\* known status a row is skipped.
Reads(line) == line.kind = "row" /\ line.id # "" /\ RowStatus(line) # "unknown"

\* Mutant of Over: text between the rows does not end the table.
Over_NotByText(s, line) == s.header /\ line.kind = "heading"

Over(s, line) == s.header /\ line.kind \in {"heading", "text"}

\* One line; blank lines and separators change nothing.
QaStep(s, line) ==
    IF s.over \/ s.refused THEN s
    ELSE IF line.kind = "section" THEN [s EXCEPT !.in = TRUE]
    ELSE IF line.kind = "heading" THEN [s EXCEPT !.in = FALSE, !.over = Over(s, line)]
    ELSE IF ~s.in THEN s
    ELSE CASE line.kind = "text" -> [s EXCEPT !.over = Over(s, line)]
           [] line.kind = "header" -> [s EXCEPT !.header = TRUE]
           [] line.kind = "short" -> [s EXCEPT !.refused = s.header]
           [] s.header /\ Reads(line) ->
                 [s EXCEPT !.tasks = Append(@, Task("qa", line, RowStatus(line), s.number))]
           [] OTHER -> s

Qa(lines) ==
    LET end == Loop(QaStep, [in |-> FALSE, header |-> FALSE, over |-> FALSE,
                             refused |-> FALSE, tasks |-> <<>>, number |-> 0], lines)
    IN  IF end.refused \/ ~end.header THEN Refused ELSE end.tasks

\* The table begins with the first header under a section and goes to the first
\* line that is neither a table's, nor blank, nor the section's heading again.
QaMeaning(lines) ==
    LET heading(i) == HeadingOf(lines, {"section", "heading"}, i)
        Headers == {i \in DOMAIN lines : /\ lines[i].kind = "header" /\ heading(i) # 0
                                         /\ lines[heading(i)].kind = "section"}
        Ends(h) == {i \in DOMAIN lines : i > h /\ lines[i].kind \in {"heading", "text"}}
        Body(h) == {i \in DOMAIN lines : i > h /\ \A e \in Ends(h) : i < e}
    IN  IF Headers = {} THEN Refused
        ELSE LET h == CHOOSE i \in Headers : \A j \in Headers : i <= j IN
             IF \E i \in Body(h) : lines[i].kind = "short" THEN Refused
             ELSE TasksAt("qa", lines, {i \in Body(h) : Reads(lines[i])}, RowStatus)

------------------------------------------------------------------------------
(***************************************************************************)
(* The catalogue: a table in each of two sections, "queue" and "unused".   *)
(***************************************************************************)

Tables == {"queue", "unused"}

\* A line is a heading, a "header" or a "row" in the columns of a table, a "dash"
\* that stands for no row, or anything "else".
Heading(line) == line.kind \in Tables \cup {"heading"}

Open(line) == "open"

\* Mutant of Enter: a header once seen serves every table after it.
Enter_OneHeader(s, line) ==
    [s EXCEPT !.refused = @ \/ (s.table # "none" /\ ~s.header),
              !.table = IF line.kind \in Tables THEN line.kind ELSE "none",
              !.found = @ \cup {line.kind}]

\* A heading ends the table above it.
Enter(s, line) ==
    [s EXCEPT !.refused = @ \/ (s.table # "none" /\ ~s.header),
              !.table = IF line.kind \in Tables THEN line.kind ELSE "none",
              !.header = FALSE,
              !.found = @ \cup {line.kind}]

\* Outside a table lines are skipped, and so are rows before its header; after
\* it a row in the columns of the other table is malformed.
CatalogStep(s, line) ==
    IF Heading(line) THEN Enter(s, line)
    ELSE IF s.table = "none" \/ line.kind = "else" THEN s
    ELSE IF line.kind = "header" /\ line.of = s.table THEN [s EXCEPT !.header = TRUE]
    ELSE IF ~s.header THEN s
    ELSE IF line.of # s.table THEN [s EXCEPT !.refused = TRUE]
    ELSE IF line.kind = "row"
         THEN [s EXCEPT !.tasks = Append(@, Task("catalog", line, "open", s.number))]
         ELSE s

Catalog(lines) ==
    LET end == Loop(CatalogStep, [table |-> "none", header |-> FALSE, refused |-> FALSE,
                                  found |-> {}, tasks |-> <<>>, number |-> 0], lines)
    IN  IF \/ end.refused \/ ~(Tables \subseteq end.found)
           \/ end.table # "none" /\ ~end.header
        THEN Refused ELSE end.tasks

\* Both sections are there, every one has its header, and all that follows it in
\* the section fits.
CatalogMeaning(lines) ==
    LET heading(i) == HeadingOf(lines, Tables \cup {"heading"}, i)
        Sections == {i \in DOMAIN lines : lines[i].kind \in Tables}
        Below(s) == {i \in DOMAIN lines : ~Heading(lines[i]) /\ heading(i) = s}
        Fits(s, i) == lines[i].kind # "else" /\ lines[i].of = lines[s].kind
        HeadersOf(s) == {i \in Below(s) : lines[i].kind = "header" /\ Fits(s, i)}
        Body(s) == {i \in Below(s) : \E h \in HeadersOf(s) : h < i}
    IN  IF \/ {lines[s].kind : s \in Sections} # Tables
           \/ \E s \in Sections : HeadersOf(s) = {}
           \/ \E s \in Sections : \E i \in Body(s) : lines[i].kind # "else" /\ ~Fits(s, i)
        THEN Refused
        ELSE TasksAt("catalog", lines,
                     {i \in UNION {Body(s) : s \in Sections} : lines[i].kind = "row"}, Open)

------------------------------------------------------------------------------
(***************************************************************************)
(* The two CSV tables, row by row, and the index made of all sources.      *)
(***************************************************************************)

CONSTANTS Slug,     \* of an aspect, what its tasks' IDs keep
          MaxTasks  \* MAX_TASKS

LinkageStatuses == {"linked", "linked-blocked"}

LinkageTaskStatus(row) == IF row.status = "linked" THEN "done" ELSE "blocked"

\* Rows of another status are skipped, complete or not.
LinkageTasks(rows) ==
    LET known == {i \in DOMAIN rows : rows[i].status \in LinkageStatuses}
        named == [i \in DOMAIN rows |->
                     [id |-> <<rows[i].class, Slug[rows[i].aspect]>>,
                      status |-> rows[i].status]]
    IN  IF \E i \in known : rows[i].class = "" \/ rows[i].aspect = ""
        THEN Refused ELSE TasksAt("linkage", named, known, LinkageTaskStatus)

DecompStatuses == [todo |-> "open", in_progress |-> "open", spec |-> "done",
                   ported |-> "done", validated |-> "done"]

DecompTaskStatus(row) == DecompStatuses[row.status]

DecompTasks(rows) ==
    LET known == {i \in DOMAIN rows : rows[i].status \in DOMAIN DecompStatuses}
        named == [i \in DOMAIN rows |-> [id |-> rows[i].class, status |-> rows[i].status]]
    IN  IF \E i \in known : rows[i].class = ""
        THEN Refused ELSE TasksAt("decomp", named, known, DecompTaskStatus)

\* Mutant of TooMany: the limit itself is too many.
TooMany_AtLimit(tasks) == Len(tasks) >= MaxTasks

TooMany(tasks) == Len(tasks) > MaxTasks

\* TaskIndex.__init__: of the tasks of all sources there are not too many and no two
\* have one ID; open ones come first, then by source and line.  With a stable sort
\* the first key is last.
Index(parts) ==
    LET tasks == FlattenSeq(parts)
        status == [open |-> 0, blocked |-> 1, done |-> 2]
        source == [handoff |-> 0, qa |-> 1, linkage |-> 2, catalog |-> 3, decomp |-> 4]
        byLine == Sorted(tasks, [i \in DOMAIN tasks |-> tasks[i].line])
        bySource == Sorted(byLine, [i \in DOMAIN tasks |-> source[byLine[i].source]])
    IN  IF \/ Refused \in ToSet(parts) \/ TooMany(tasks)
           \/ \E i, j \in DOMAIN tasks : i # j /\ tasks[i].id = tasks[j].id
        THEN Refused
        ELSE Sorted(bySource, [i \in DOMAIN tasks |-> status[bySource[i].status]])

==============================================================================
