------------------------------ MODULE Documents ------------------------------
(***************************************************************************)
(* What the gateway reads, enumerated: every document of each source, line *)
(* by line and up to a bound, sensible or not.  On each the code's passes  *)
(* over the lines must do what is meant by the document as a whole.        *)
(***************************************************************************)
EXTENDS LedgerReplay, SymbolSources, ContextSources, SearchEngines,
        SnapshotSources

CONSTANTS Ids,          \* claim IDs that occur in the ledger
          MaxTime,      \* the last expiry, and the last reading of the clock
          MaxLinkage,   \* MAX_LINKAGE_PER_SYMBOL
          TreePaths,    \* the paths of an archive, a directory before what is in it ...
          GatewayPaths, \* ... and of the gateway repository's
          TableCells,   \* what a line of a class document's table may be, ...
          Opening,      \* ... and how the document begins, where it is enumerated
          MaxLines      \* bound: for each source the longest document

Classes == {"Bird", "Cage"}         \* in the decomp ledger
Names   == Classes \cup {"Dove"}

\* A refusal is told from a task index of any tables.
TableIds ==
    ({"decomp"} \X (Names \cup {""}))
        \cup ({"linkage"} \X ((Names \cup {""}) \X {Slug[a] : a \in ToSet(Aspects)}))

TableTasks ==
    [source: {"decomp", "linkage"}, id: TableIds, status: {"open", "blocked", "done"}, line: Nat]

ASSUME TablesAssumption ==
    MaxLinkage \in Nat /\ MaxTasks \in Nat /\ Aspects \in Seq(STRING) /\ Refused \notin Seq(TableTasks)

ASSUME PathsAssumption == {TreePaths, GatewayPaths} \subseteq Seq(Seq(STRING) \ {<<>>})

\* Class documents are enumerated as a whole ("class"), from an Identity table on
\* ("items") and from a section of methods on ("methods").
ClassSources == {"class", "items", "methods"}

\* A line of a table has at least one cell.
ASSUME CellsAssumption ==
    \A s \in ClassSources : TableCells[s] \in SUBSET (Seq(STRING) \ {<<>>})

AnyClassLine ==
    [kind: Headings \cup {"text"}] \cup [kind: {"cells"}, cells: Seq(STRING) \ {<<>>}]

VARIABLES source, lines

FourCCs == DOMAIN Levels \cup {Levels[l] : l \in DOMAIN Levels} \cup {"BIRD"}

EntryKinds == {"file", "dir", "symlink", "special", "hardlink", "large", "binary"}

Kinds(ks) == [kind: ks]

ClassLines(s) == Kinds(Headings \cup {"text"}) \cup [kind: {"cells"}, cells: TableCells[s]]

\* Any line that a source may have.
LinesOf ==
    [ledger  |-> [kind: {"claimed"}, task: Tasks, owner: Owners, key: Keys, id: Ids,
                  expires: 1..MaxTime]
                 \cup [kind: {"released"}, task: Tasks, owner: Owners, id: Ids]
                 \cup {Noted},
     handoff |-> Kinds({"section", "heading", "text"})
                 \cup [kind: {"item"}, id: {"a"}, done: BOOLEAN],
     qa      |-> Kinds({"section", "heading", "header", "blank", "text", "short"})
                 \cup [kind: {"row"}, id: {"1"},
                       words: {{"FIXED"}, {"NOT FIXED", "FIXED"}, {}}]
                 \cup [kind: {"row"}, id: {""}, words: {{"FIXED"}}],
     catalog |-> Kinds({"queue", "unused", "heading", "else"})
                 \cup [kind: {"header", "row", "dash"}, of: Tables, id: {"a"}],
     class   |-> ClassLines("class"),
     items   |-> ClassLines("items"),
     methods |-> ClassLines("methods"),
     decomp  |-> [class: Names \cup {""}, addresses: BOOLEAN,
                  status: {"todo", "ported", "planned"}],
     linkage |-> [class: Names \cup {""}, aspect: ToSet(Aspects), domain: {"d", ""},
                  status: LinkageStatuses \cup {"planned"}],
     fourcc  |-> [kind: {"row"}, fourcc: FourCCs, class: Names, site: {1, 2}]
                 \cup [kind: {"doc"}, fourcc: FourCCs, class: Classes]
                 \cup [kind: {"tag"}, fourcc: FourCCs, class: Names],
     history |-> [level: 1..3, date: 0..2, prefix: {0} \cup TitlePrefixes]
                 \cup [level: {0}, date: {0}, prefix: {0}],
     corpus  |-> [file: ToSet(Files),
                  kind: {"both", "python", "split", "scalar", "nul", "none"}],
     archive |-> [path: ToSet(TreePaths), kind: EntryKinds],
     gateway |-> [path: ToSet(GatewayPaths), kind: EntryKinds]]

Tree == ToSet(lines)

\* Facts come by kind; a class has one document, a FourCC one tag.  The entries of
\* an archive come in the order of their paths, and what is in a directory after it.
Admissible(l) ==
    /\ source = "fourcc" /\ lines # <<>> =>
          LET place == [row |-> 0, doc |-> 1, tag |-> 2] IN
          /\ place[Last(lines).kind] <= place[l.kind]
          /\ \A i \in DOMAIN lines :
                /\ l.kind = "doc" /\ lines[i].kind = "doc" => lines[i].class # l.class
                /\ l.kind = "tag" /\ lines[i].kind = "tag" => lines[i].fourcc # l.fourcc
    /\ source \in {"archive", "gateway"} =>
          LET order == IF source = "archive" THEN TreePaths ELSE GatewayPaths
              place(p) == CHOOSE i \in DOMAIN order : order[i] = p
          IN  /\ lines # <<>> => place(Last(lines).path) < place(l.path)
              /\ Len(l.path) = 1 \/ [path |-> Front(l.path), kind |-> "dir"] \in Tree

\* A document begins with lines of its own.
ASSUME OpeningAssumption ==
    /\ DOMAIN Opening \subseteq ClassSources \cup {"history"}
    /\ \A s \in DOMAIN Opening :
        Opening[s] \in Seq(IF s \in ClassSources THEN AnyClassLine ELSE LinesOf[s])

Init ==
    /\ source \in DOMAIN LinesOf
    /\ lines = IF source \in DOMAIN Opening THEN Opening[source] ELSE <<>>

Next ==
    /\ Len(lines) < MaxLines[source]
    /\ \E l \in LinesOf[source] : Admissible(l) /\ lines' = Append(lines, l)
    /\ UNCHANGED source

Spec == Init /\ [][Next]_<<source, lines>>

------------------------------------------------------------------------------

\* The fold raises "release ledger does not match active ownership" exactly on
\* the ledgers that Replayable rules out.
FoldRaisesIffUnreplayable ==
    source = "ledger" => (Fold(lines).raised <=> ~Replayable(lines))

\* When it does not raise, what it returns at any reading of the clock is, for
\* every task, the record at the one position Active names, and no task else.
FoldReturnsActive ==
    source = "ledger" /\ Replayable(lines) =>
        \A now \in 0..MaxTime :
            /\ Unexpired(Fold(lines).claims, now) = {t \in Tasks : Active(lines, t, now) # {}}
            /\ \A t \in Tasks : \A i \in Active(lines, t, now) :
                   Fold(lines).claims[t] = lines[i]

\* The QA tasks are the readable rows of the master report's first table, and
\* a malformed row refuses the document only if it is in that table.
QaAgrees == source = "qa" => Qa(lines) = QaMeaning(lines)

\* The hand-off's tasks are the items directly under a heading of current work, and
\* the catalogue's are the rows below the header of their own section, wherever
\* sections repeat, interrupt each other or end without a header.
SectionTasksAgree ==
    /\ source = "handoff" => Handoff(lines) = HandoffMeaning(lines)
    /\ source = "catalog" => Catalog(lines) = CatalogMeaning(lines)

\* A class document's two tables, each the first one of a section that is there
\* once, whatever stands around and inside them; and a refusal for any other document,
\* for a header that is none of those known and for rows that say nothing or too much.
ClassDocAgrees ==
    source \in ClassSources =>
        \A c \in Classes : ClassDoc(c, lines) = ClassDocMeaning(c, lines)

\* Two indexes read the decomp ledger, and two the linkage table, by rules of their
\* own.  The symbol index is the stricter about the ledger: the task index takes it
\* too, unless that makes more than MaxTasks tasks, and has one task, at its line, for
\* every class but those of a status that is none.  If the server starts on a linkage
\* table, no row is in one index and missing from the other, except those of a class
\* that come after MaxLinkage others.
TablesServedByBoth ==
    /\ source = "decomp" /\ LedgerClasses(lines) # Refused =>
          LET tasks == Index(<<DecompTasks(lines)>>)
              listed == {i \in DOMAIN lines : lines[i].status \in DOMAIN DecompStatuses}
          IN  IF Cardinality(listed) > MaxTasks THEN tasks = Refused
              ELSE /\ tasks # Refused
                   /\ \A c \in LedgerClasses(lines) :
                         \/ \E i \in DOMAIN tasks : /\ tasks[i].id = <<"decomp", c>>
                                                   /\ lines[tasks[i].line].class = c
                         \/ \E i \in DOMAIN lines : /\ lines[i].class = c
                                                   /\ i \notin listed
    /\ source = "linkage" =>
          LET tasks == Index(<<LinkageTasks(lines)>>)
              symbols == SymbolLinkage(lines, Classes, MaxLinkage)
          IN  tasks # Refused /\ symbols # Refused =>
                  /\ {tasks[i].line : i \in DOMAIN tasks} = DOMAIN lines
                  /\ \A i \in DOMAIN lines :
                        \/ i \in ToSet(symbols[lines[i].class])
                        \/ Len(symbols[lines[i].class]) = MaxLinkage

\* A start of the server on these facts.
Starts == RegistrarAccepts(lines) /\ ~Conflict(lines, Classes)

\* symbol_index.py:640: "a correctly-documented class is never suppressed".
CorrectClaimServed ==
    source = "fourcc" /\ Starts =>
        \A c \in Classes : \A x \in Explicit(lines, c) \cap Committed(lines, c) :
            [kind |-> "class", class |-> c] \in Lookup(lines, Classes, x)

\* A class is found under a FourCC only if the registrar gives it to that class,
\* or to no class of the ledger and, either way round, to no level.
ServedIsUncontradicted ==
    source = "fourcc" /\ Starts =>
        \A c \in Classes : \A x \in FourCCs :
            [kind |-> "class", class |-> c] \in Lookup(lines, Classes, x) =>
                \/ c \in Among(lines, "row", x)
                \/ /\ Among(lines, "row", x) \cap Classes = {}
                   /\ \A l \in DOMAIN Levels :
                         x \in {l, Levels[l]} => Among(lines, "row", l) = {}

\* The excerpts of the history stand in the order of the file, none of them twice,
\* whatever a section is selected for.  Of dated entries there are the latest, those
\* that the current state announces, and none that is not named otherwise.  The lines
\* of an announced entry are missing from the context only past the bound of an
\* excerpt, or after the end of a context that is full.
LatestIsQuoted ==
    source = "history" /\ Announced(lines) # Refused /\ Selected(lines) # Refused =>
        LET text == Context(lines)
            Ahead(q, r) == q.section < r.section \/ (q.section = r.section /\ q.line < r.line)
        IN  /\ \A p, q \in DOMAIN text : p < q => Ahead(text[p], text[q])
            /\ \A q \in ToSet(text) :
                  \/ q.section \in Announced(lines)
                  \/ \E prefix \in TitlePrefixes : q.section \in Named(lines, prefix)
            /\ \A e \in Announced(lines) : \A i \in SectionLines(lines, e) :
                  LET quote == [section |-> e, line |-> i] IN
                  \/ quote \in ToSet(text) \/ i >= e + MaxExcerpt
                  \/ Len(text) = Room /\ \A q \in ToSet(text) : Ahead(q, quote)

\* Python's answer to a search is the best ranked files that match, in the order of
\* their rank, each with its first matches: the bounds on matches and on results
\* never cost a better one.
PythonFindsTheBest ==
    source = "corpus" =>
        LET python == Answer(lines, PythonMap(lines)) IN
        /\ {[file |-> r.file, lines |-> ToSet(r.lines)] : r \in ToSet(python)}
              = Expected(lines)
        /\ \A i, j \in DOMAIN python : i < j => Rank[python[i].file] < Rank[python[j].file]

\* Every match of the file is one that ripgrep makes and its output keeps.
Plain(corpus, f) == \A i \in DOMAIN corpus : corpus[i].file = f => corpus[i].kind \in {"both", "none"}

\* What ripgrep misses, or the reading of its output loses, stays in its file: if
\* there is an answer at all, a plain file that Python answers is in it too, with the
\* same lines, and the files are in the order of their rank.
RipgrepLosesLocally ==
    source = "corpus" /\ RipgrepMap(lines) # Refused =>
        LET python == Answer(lines, PythonMap(lines))
            ripgrep == Answer(lines, RipgrepMap(lines))
        IN  /\ \A r \in ToSet(python) : Plain(lines, r.file) => r \in ToSet(ripgrep)
            /\ \A i, j \in DOMAIN ripgrep :
                  i < j => Rank[ripgrep[i].file] < Rank[ripgrep[j].file]

\* What a search may rely on, whichever engine is there: the best files from Python,
\* and from ripgrep all of them that have no line it misses or whose event is torn.
SearchAnswers == PythonFindsTheBest /\ RipgrepLosesLocally

\* An export leaves the admitted files of the archive, every one, and then nothing
\* that the loader refuses: no directory of files that were taken out stays behind,
\* hidden, vendored or outside the approved roots.
ExportKeepsAdmitted ==
    /\ source = "archive" => Export(Tree) = ExportMeaning(Tree)
    /\ source = "gateway" => GatewayExport(Tree) = GatewayExportMeaning(Tree)

==============================================================================
