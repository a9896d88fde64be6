---------------------------- MODULE ContextSources ----------------------------
(***************************************************************************)
(* The project history as app/core/project_context.py reads and quotes it. *)
(* A line is a heading, with its level, its date (0 if it has none) and    *)
(* which of the two prefixes of sections always quoted its title starts    *)
(* with (0 if none), or text of level 0.  Bounds in characters are bounds  *)
(* in lines here.                                                          *)
(***************************************************************************)
EXTENDS TaskSources

CONSTANTS MaxExcerpt,   \* MAX_EXCERPT_CHARS: of a section the lines quoted
          Room          \* what max_chars leaves of the context for the history

HeadingLines(lines) == {i \in DOMAIN lines : lines[i].level > 0}

\* _heading_sections: a section goes to the next heading that is not below its own.
SectionLines(lines, i) ==
    {j \in i..Len(lines) :
        \A k \in HeadingLines(lines) : i < k /\ k <= j => lines[k].level > lines[i].level}

Dated(lines) == {i \in HeadingLines(lines) : lines[i].level = 2 /\ lines[i].date > 0}

\* Those of S with the last date.
Latest(lines, S) == {i \in S : \A j \in S : lines[j].date <= lines[i].date}

\* _latest_history_states: the entries announced in the current state.
Announced(lines) ==
    IF Dated(lines) = {} THEN Refused ELSE Latest(lines, Dated(lines))

TitlePrefixes == {1, 2}

Named(lines, prefix) == {i \in HeadingLines(lines) : lines[i].prefix = prefix}

\* Mutant of Extended: a section may be selected once more.
Extended_Repeats(selected, S) == selected \o Ascending(S)

\* Those of S that are not selected yet come to the end.
Extended(selected, S) == selected \o Ascending(S \ ToSet(selected))

\* _selected_sections: of each prefix, then the latest entries, then by line.
Selected(lines) ==
    LET named == Extended(Extended(<<>>, Named(lines, 1)), Named(lines, 2))
        all == Extended(named, Latest(lines, Dated(lines)))
    IN  IF \E prefix \in TitlePrefixes : Named(lines, prefix) = {} THEN Refused
        ELSE Sorted(all, all)

\* _build_excerpts and build: each section as far as it is quoted, one after the
\* other, to the end of the context.
Context(lines) ==
    LET Lines(i) == Ascending({j \in SectionLines(lines, i) : j - i < MaxExcerpt})
        Excerpt(i) == [k \in DOMAIN Lines(i) |-> [section |-> i, line |-> Lines(i)[k]]]
        text == FlattenSeq([k \in DOMAIN Selected(lines) |-> Excerpt(Selected(lines)[k])])
    IN  SubSeq(text, 1, IF Len(text) < Room THEN Len(text) ELSE Room)

==============================================================================
