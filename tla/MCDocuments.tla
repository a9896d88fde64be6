---------------------------- MODULE MCDocuments ----------------------------
EXTENDS Documents, TLC

CONSTANTS t1, t2, o1, o2

\* Three files; for the query the last one ranks best.
ThreeFiles == <<"a", "b", "c">>
LastFirst  == [a |-> 2, b |-> 3, c |-> 1]

\* Two aspects that one slug stands for, and one that is missing.
AllAspects == <<"", "a b", "a-b", "c">>
SlugOf     == [aspect \in {"", "a b", "a-b", "c"} |-> IF aspect = "a b" THEN "a-b" ELSE aspect]

OneLevel == [LEV1 |-> "1VEL"]

\* Roots, a hidden and a foreign directory, one of vendored code and one of tools.
Archive == << <<"README.md">>, <<"src">>, <<".git">>, <<"etc">>,
              <<"src", "a.c">>, <<"src", "glad.c">>, <<"src", ".b">>, <<"src", "vendor">>,
              <<"src", "d">>, <<".git", "a.c">>, <<"etc", "a.c">>,
              <<"src", ".b", "a.c">>, <<"src", "vendor", "a.c">>, <<"src", "d", "e">> >>
GatewayArchive ==
           << <<"README.md">>, <<".github">>, <<"app">>, <<"etc">>,
              <<".github", "a.yml">>, <<".github", "workflows">>, <<"app", ".b">>,
              <<"app", "a.c">>, <<"etc", "a.c">>,
              <<".github", "workflows", "a.yml">>, <<".github", "workflows", "a.c">> >>
VendoredDir == <<"src", "vendor">>
VendoredFiles == {<<"src", "glad.c">>}

\* Lines of tables: for whole documents, for items of an Identity table and for
\* methods in and between tables of several headers.
Item(item, value) == <<item, value>>
Rule(width) == [k \in 1..width |-> "---"]
Own == Item("RTTI name", "Bird")
FourColumns == <<"Slot", "Address", "Name", "Behavior">>
Cells ==
    [class   |-> {IdentityHeader, Rule(2), Own, FourColumns, Rule(4)},
     items   |-> {Rule(2), Own, <<"RTTI name">>, Item("FourCC", "garbled"), Item("Signature", "a"),
                  Item("Prototype", "b"), Item("Prototype", "")},
     methods |-> {FourColumns, <<"Slot", "Address", "Name", "Status">>,
                  Append(FourColumns, "Signature"),
                  FourColumns \o <<"Signature", "Prototype">>,
                  Rule(4), Rule(5), Rule(6), <<"1", "00401000", "Fly", "">>,
                  <<"1", "00401000", "", "">>, <<"1", "none", "Fly", "">>}]

Line(cells) == [kind |-> "cells", cells |-> cells]
Titled(kind) == [kind |-> kind]
IdentityTable == <<Titled("identity"), Line(IdentityHeader), Line(Rule(2))>>
Openings ==
    [items   |-> IdentityTable,
     methods |-> IdentityTable \o <<Line(Own), Titled("methods")>>,
     history |-> <<[level |-> 2, date |-> 0, prefix |-> 1]>>]

\* As long as it takes for every pass to go wrong once and recover.
Longest == [ledger |-> 3, handoff |-> 5, qa |-> 5, catalog |-> 5,
            class |-> 6, items |-> 7, methods |-> 9,
            decomp |-> 3, linkage |-> 2, fourcc |-> 4, history |-> 4, corpus |-> 4,
            archive |-> 5, gateway |-> 6]

\* Tasks and owners are interchangeable.
Symmetry == Permutations({t1, t2}) \cup Permutations({o1, o2})

=============================================================================
