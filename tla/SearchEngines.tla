---------------------------- MODULE SearchEngines ----------------------------
(***************************************************************************)
(* ContentSearch.search (app/core/content_search.py) with either engine:   *)
(* the lines that Python finds, or those that ripgrep prints and the code  *)
(* reads from its output, and what both go through after that.  A corpus   *)
(* is a sequence of lines, each with the file it is in and its kind:       *)
(*   "both"    a match for either engine;                                  *)
(*   "python"  one by full case folding, which ripgrep does not do;        *)
(*   "split"   a match with a character in it that splitlines() takes for  *)
(*             the end of a line and JSON does not escape;                 *)
(*   "scalar"  one with two of them and a number in between;               *)
(*   "nul"     no match, and a NUL byte (beyond BINARY_PROBE_BYTES);       *)
(*   "none"    no match.                                                   *)
(***************************************************************************)
EXTENDS TaskSources

CONSTANTS Files,            \* paths, in the order of the inventory
          Rank,             \* their place in the sort key, for the query
          MatchesPerFile,   \* MAX_MATCHES_PER_FILE
          Limit             \* results asked for

\* The sort key ends with the path, and every search may return something.
ASSUME FilesAssumption ==
    /\ Files \in Seq(STRING)
    /\ Rank \in [ToSet(Files) -> Int]
    /\ \A i, j \in DOMAIN Files : Rank[Files[i]] = Rank[Files[j]] => i = j
    /\ MatchesPerFile \in Nat \ {0} /\ Limit \in Nat

TextOf(corpus, file) == At(corpus, {i \in DOMAIN corpus : corpus[i].file = file})

\* The needle is in the line, when both are folded.
Matches(line) == line.kind \in {"both", "python", "split", "scalar"}

\* Of some line numbers the first ones, at most MatchesPerFile.
FirstHits(S) ==
    LET order == Ascending(S)
    IN  SubSeq(order, 1,
               IF Len(order) < MatchesPerFile THEN Len(order) ELSE MatchesPerFile)

PythonMap(corpus) ==
    [f \in ToSet(Files) |->
        LET text == TextOf(corpus, f) IN FirstHits({i \in DOMAIN text : Matches(text[i])})]

\* The matches that ripgrep prints of a file: it reads to a NUL byte, folds case
\* character by character, and stops at --max-count.
Printed(text) ==
    FirstHits({i \in DOMAIN text : /\ Matches(text[i]) /\ text[i].kind # "python"
                                   /\ \A j \in 1..i : text[j].kind # "nul"})

\* The match is in one piece of the output, which is JSON.
Whole(line) == line.kind \notin {"split", "scalar"}

\* Mutant of RipgrepMap: one piece that is no JSON spoils the whole output.
RipgrepMap_AllOrNothing(corpus) ==
    LET Torn(f) == \E k \in ToSet(Printed(TextOf(corpus, f))) : ~Whole(TextOf(corpus, f)[k])
    IN  [f \in ToSet(Files) |->
            IF \E g \in ToSet(Files) : Torn(g) THEN <<>> ELSE Printed(TextOf(corpus, f))]

\* _ripgrep_line_map: of a match in pieces none is an event, and pieces that are no
\* JSON are skipped; a number is JSON, and asking it for its "type" is an error that
\* ends the search.
RipgrepMap(corpus) ==
    LET text(f) == TextOf(corpus, f)
        printed(f) == Printed(text(f))
    IN  IF \E f \in ToSet(Files) : \E i \in ToSet(printed(f)) : text(f)[i].kind = "scalar"
        THEN Refused
        ELSE [f \in ToSet(Files) |->
                 At(printed(f), {k \in DOMAIN printed(f) : Whole(text(f)[printed(f)[k]])})]

ByRank(results) == Sorted(results, [i \in DOMAIN results |-> Rank[results[i].file]])

\* Mutant of Bounded: the limit before the order.
Bounded_First(results) ==
    ByRank(SubSeq(results, 1, IF Len(results) < Limit THEN Len(results) ELSE Limit))

Bounded(results) ==
    SubSeq(ByRank(results), 1, IF Len(results) < Limit THEN Len(results) ELSE Limit)

\* What search makes of the lines: they are read again and checked again.
Answer(corpus, map) ==
    LET Rechecked(f) ==
            At(map[f], {k \in DOMAIN map[f] : Matches(TextOf(corpus, f)[map[f][k]])})
        hit == At(Files, {i \in DOMAIN Files : Rechecked(Files[i]) # <<>>})
    IN  Bounded([i \in DOMAIN hit |-> [file |-> hit[i], lines |-> Rechecked(hit[i])]])

\* The best files that have a match, each with its first matches.
Expected(corpus) ==
    LET Matching(f) == {i \in DOMAIN TextOf(corpus, f) : Matches(TextOf(corpus, f)[i])}
        Ahead(f) == {g \in ToSet(Files) : Rank[g] < Rank[f] /\ Matching(g) # {}}
        best == {f \in ToSet(Files) : Matching(f) # {} /\ Cardinality(Ahead(f)) < Limit}
    IN  {[file |-> f, lines |-> {i \in Matching(f) :
             Cardinality({j \in Matching(f) : j < i}) < MatchesPerFile}] : f \in best}

==============================================================================
