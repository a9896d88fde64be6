-------------------------- MODULE CheckStatus_proofs --------------------------
(***************************************************************************)
(* The check of CheckStatus, for any runs, contexts, commits, page size    *)
(* and number of events.                                                   *)
(***************************************************************************)
EXTENDS CheckStatus, FiniteSetTheorems, SequenceTheorems, TLAPS

\* GitHub's runs only become more, and report more.
Grown ==
    /\ Len(began) <= Len(runs)
    /\ \A n \in DOMAIN began :
          /\ runs[n].commit = began[n].commit
          /\ \A x \in Contexts : began[n].jobs[x] # "none" => runs[n].jobs[x] # "none"

\* While jobs are read, a run that had reported x when the check began is still
\* to be read, or is too old for the page, or is no newer than the one found.
Sought ==
    pc = "jobs" =>
        /\ pending \subseteq RunsOf(runs, commit)
        /\ \A x \in Contexts : \A n \in ReportedAtStart(x) :
              /\ found[x] = Missing => n \in pending \/ cut
              /\ found[x] = Missing => n \in pending \/ \A m \in pending : n < m
              /\ found[x] # Missing => n <= found[x].run

Covered ==
    \A x \in Contexts : \A n \in ReportedAtStart(x) :
        found[x] # Missing /\ n <= found[x].run

\* Once they are read, none of these runs was missed.
Settled ==
    pc = "artifacts" \/ (pc \in {"audit", "told"} /\ outcome \notin Errors) => Covered

Known == {"queued", "in_progress", "cancelled", "neutral", "success", "timed_out",
          "failure"}

\* What was found was there.
Evidence ==
    /\ Successful(runs) \subseteq green
    /\ pc \in {"resolve", "confirm", "list"} => found = [x \in Contexts |-> Missing]
    /\ \A x \in Contexts : found[x] # Missing =>
          /\ found[x].run \in RunsOf(runs, commit)
          /\ found[x].state \in Known
          /\ found[x].state = "success" => <<found[x].run, x>> \in green
    /\ pc \in {"audit", "told"} /\ outcome = "success" =>
          \A x \in Contexts : found[x] # Missing /\ found[x].state = "success"

IInv == TypeOK /\ Grown /\ Sought /\ Settled /\ Evidence

------------------------------------------------------------------------------
(***************************************************************************)
(* Lemmas on the operators.                                                *)
(***************************************************************************)

\* What a page leaves out is older than all it shows.
LEMMA PageIsNewest ==
    ASSUME NEW N \in Nat, NEW S \in SUBSET (1..N), NEW n \in S, n \notin Page(S)
    PROVE  \A m \in Page(S) : n < m
<1> SUFFICES ASSUME NEW m \in Page(S), m <= n
             PROVE  FALSE
    BY DEF Page
<1> DEFINE Above(k) == {j \in S : j > k}
<1>1. IsFiniteSet(S)
    BY FS_Interval, FS_Subset, 0 \in Int, 1 \in Int, N \in Int
<1>2. m \in S /\ Cardinality(Above(m)) < PageSize
    BY DEF Page
<1>3. Above(n) \subseteq Above(m) /\ Above(m) \subseteq S
  <2>1. n \in Int /\ m \in Int /\ S \subseteq Int
      BY <1>2
  <2>2. \A j \in Int : j > n => j > m
      BY <2>1
  <2> QED
      BY <2>1, <2>2
<1>4. IsFiniteSet(Above(m))
    BY <1>1, <1>3, FS_Subset
<1> HIDE DEF Above
<1>5. /\ Cardinality(Above(n)) <= Cardinality(Above(m))
      /\ Cardinality(Above(n)) \in Nat /\ Cardinality(Above(m)) \in Nat
    BY <1>3, <1>4, FS_Subset, FS_CardinalityType
<1>6. Cardinality(Above(n)) < PageSize
    BY <1>2, <1>5, StatusAssumption
<1> QED
    BY <1>6 DEF Page, Above

\* Every job has one of the states that the verdict knows.
LEMMA StateKnown == \A job : State(job) \in Known
BY DEF State, Known

\* Success takes every context.
LEMMA OnlySuccess ==
    ASSUME NEW f, Overall(f) = "success",
           \A x \in Contexts : f[x].state \in Known \cup {"missing"}
    PROVE  \A x \in Contexts : f[x].state = "success"
<1> DEFINE S == {f[x].state : x \in Contexts}
           First(i) == /\ i \in 1..6 /\ Order[i] \in S
                       /\ \A j \in 1..6 : Order[j] \in S => i <= j
<1>1. S \subseteq Known \cup {"missing"}
    OBVIOUS
<1>2. DOMAIN Order = 1..6
    BY DEF Order
<1> SUFFICES ASSUME ~(S \subseteq {"success"})
             PROVE  FALSE
    OBVIOUS
<1>3. CASE "missing" \in S
    BY <1>3 DEF Overall
<1>4. CASE "missing" \notin S
  <2>1. \E i : First(i)
    <3> HIDE DEF S
    <3>1. CASE "failure" \in S
        <4>1. First(1) BY <3>1 DEF Order
        <4> QED BY <4>1
    <3>2. CASE "failure" \notin S /\ "timed_out" \in S
        <4>1. First(2) BY <3>2 DEF Order
        <4> QED BY <4>1
    <3>3. CASE S \cap {"failure", "timed_out"} = {} /\ "cancelled" \in S
        <4>1. First(3) BY <3>3 DEF Order
        <4> QED BY <4>1
    <3>4. CASE S \cap {"failure", "timed_out", "cancelled"} = {} /\ "in_progress" \in S
        <4>1. First(4) BY <3>4 DEF Order
        <4> QED BY <4>1
    <3>5. CASE /\ S \cap {"failure", "timed_out", "cancelled", "in_progress"} = {}
               /\ "queued" \in S
        <4>1. First(5) BY <3>5 DEF Order
        <4> QED BY <4>1
    <3>6. CASE S \cap {"failure", "timed_out", "cancelled", "in_progress", "queued"} = {}
        <4>1. "neutral" \in S
            BY <3>6, <1>1, <1>4 DEF Known
        <4>2. First(6) BY <3>6, <4>1 DEF Order
        <4> QED BY <4>2
    <3> QED BY <3>1, <3>2, <3>3, <3>4, <3>5, <3>6
  <2>2. First(CHOOSE i : First(i))
      BY <2>1
  <2>3. Overall(f) = Order[CHOOSE i : First(i)]
    <3>1. Overall(f) = Order[CHOOSE i \in DOMAIN Order :
                               /\ Order[i] \in S
                               /\ \A j \in DOMAIN Order : Order[j] \in S => i <= j]
        BY <1>4 DEF Overall
    <3> QED BY <3>1, <1>2
  <2>4. \A i \in 1..6 : Order[i] # "success"
      BY DEF Order
  <2> QED BY <2>2, <2>3, <2>4
<1> QED BY <1>3, <1>4

------------------------------------------------------------------------------

LEMMA InitIInv == Init => IInv
<1> SUFFICES ASSUME Init
             PROVE  IInv
    OBVIOUS
<1>1. runs \in Seq(Run)
  <2>1. PICK n \in 0..MaxRuns : runs \in [1..n -> Run]
      BY DEF Init
  <2> QED
      BY <2>1, SeqDef, StatusAssumption
<1>2. green \subseteq (DOMAIN runs) \X Contexts
    BY DEF Init, Successful
<1>3. TypeOK
  <2>1. wanted \subseteq Commits /\ events \in 0..MaxEvents
      BY StatusAssumption DEF Init
  <2>2. DOMAIN found = Contexts /\ \A x \in Contexts : found[x] = Missing
      BY DEF Init
  <2> QED
      BY <1>1, <1>2, <2>1, <2>2 DEF Init, TypeOK
<1>4. Grown
    BY <1>1 DEF Init, Grown
<1>5. Sought /\ Settled
    BY DEF Init, Sought, Settled
<1>6. Evidence
    BY DEF Init, Evidence
<1> QED
    BY <1>3, <1>4, <1>5, <1>6 DEF IInv

\* An event adds to what there is, and leaves the check alone.
LEMMA EventKeeps ==
    ASSUME IInv, UNCHANGED <<check, began>>,
           runs' \in Seq(Run), Len(runs) <= Len(runs'),
           \A n \in DOMAIN runs :
               /\ runs'[n].commit = runs[n].commit
               /\ \A x \in Contexts :
                     runs[n].jobs[x] # "none" => runs'[n].jobs[x] # "none",
           green \subseteq green', Successful(runs') \subseteq green'
    PROVE  (Grown /\ Sought /\ Settled /\ Evidence)'
<1>1. DOMAIN runs = 1..Len(runs) /\ DOMAIN runs' = 1..Len(runs')
      /\ DOMAIN began = 1..Len(began)
    BY DEF IInv, TypeOK
<1>2. Len(began) \in Nat /\ Len(runs) \in Nat /\ Len(runs') \in Nat
    BY DEF IInv, TypeOK
<1>3. DOMAIN runs \subseteq DOMAIN runs' /\ DOMAIN began \subseteq DOMAIN runs
    BY <1>1, <1>2 DEF IInv, Grown
<1>4. Grown'
  <2>1. Len(began) <= Len(runs')
      BY <1>2 DEF IInv, Grown
  <2>2. \A n \in DOMAIN began :
          /\ runs'[n].commit = began[n].commit
          /\ \A x \in Contexts : began[n].jobs[x] # "none" => runs'[n].jobs[x] # "none"
      BY <1>3 DEF IInv, Grown
  <2> QED
      BY <2>1, <2>2 DEF Grown, check
<1>5. RunsOf(runs, commit) \subseteq RunsOf(runs', commit')
    BY <1>3 DEF RunsOf, check
<1>6. Sought'
    BY <1>5 DEF IInv, Sought, ReportedAtStart, RunsOf, check
<1>7. Settled'
    BY DEF IInv, Settled, Covered, ReportedAtStart, RunsOf, check
<1>8. Evidence'
    BY <1>5 DEF IInv, Evidence, check
<1> QED
    BY <1>4, <1>6, <1>7, <1>8

LEMMA NextIInv == IInv /\ [Next]_vars => IInv'
<1> SUFFICES ASSUME IInv, [Next]_vars
             PROVE  IInv'
    OBVIOUS
<1> USE DEF github, check, IInv
<1>1. ASSUME NEW c \in Commits, Push(c)
      PROVE  IInv'
  <2>1. TypeOK'
      BY <1>1, StatusAssumption DEF Push, Event, TypeOK
  <2>2. (Grown /\ Sought /\ Settled /\ Evidence)'
      BY <1>1, EventKeeps DEF Push, Event, TypeOK, Evidence
  <2> QED
      BY <2>1, <2>2
<1>2. ASSUME NEW c \in Commits, StartRun(c)
      PROVE  IInv'
  <2> DEFINE r == [commit |-> c, jobs |-> [x \in Contexts |-> "none"]]
  <2>1. r \in Run /\ runs' = Append(runs, r)
      BY <1>2 DEF StartRun, Run
  <2> HIDE DEF r
  <2>2. /\ runs' \in Seq(Run) /\ Len(runs') = Len(runs) + 1
        /\ \A n \in DOMAIN runs : runs'[n] = runs[n]
        /\ Len(runs) \in Nat /\ DOMAIN runs = 1..Len(runs)
        /\ DOMAIN runs' = 1..Len(runs) + 1 /\ runs'[Len(runs) + 1] = r
      BY <2>1 DEF TypeOK
  <2>3. DOMAIN runs \subseteq DOMAIN runs'
      BY <2>2
  <2>4. TypeOK'
    <3>1. (head \in Commits \cup {NoCommit})' /\ (events \in 0..MaxEvents)'
        BY <1>2, StatusAssumption DEF StartRun, Event, TypeOK
    <3>2. (pending \subseteq DOMAIN runs)' /\ (green \subseteq (DOMAIN runs) \X Contexts)'
        BY <1>2, <2>3 DEF StartRun, Event, TypeOK
    <3>3. (\A x \in Contexts : found[x] = Missing \/ found[x].run \in DOMAIN runs)'
        BY <1>2, <2>3 DEF StartRun, Event, TypeOK
    <3> QED
        BY <1>2, <2>2, <3>1, <3>2, <3>3 DEF StartRun, Event, TypeOK
  <2>5. Successful(runs') \subseteq green'
    <3> SUFFICES ASSUME NEW p \in Successful(runs')
                 PROVE  p \in Successful(runs)
        BY <1>2 DEF StartRun, Evidence
    <3>1. /\ p \in (DOMAIN runs') \X Contexts /\ runs'[p[1]].jobs[p[2]] # "none"
          /\ State(runs'[p[1]].jobs[p[2]]) = "success"
        BY DEF Successful
    <3>2. p[1] # Len(runs) + 1
        BY <2>2, <3>1 DEF r
    <3>3. p[1] \in DOMAIN runs
        BY <2>2, <3>1, <3>2
    <3> QED
        BY <2>2, <3>1, <3>3 DEF Successful
  <2>6. (Grown /\ Sought /\ Settled /\ Evidence)'
    <3>1. green \subseteq green' /\ UNCHANGED <<check, began>>
        BY <1>2 DEF StartRun, Event
    <3>2. Len(runs) <= Len(runs')
        BY <2>2
    <3> QED
        BY <2>2, <2>5, <3>1, <3>2, EventKeeps
  <2> QED
      BY <2>4, <2>6
<1>3. ASSUME NEW n \in DOMAIN runs, NEW x \in Contexts, NEW job \in Jobs,
             Report(n, x, job)
      PROVE  IInv'
  <2>1. /\ runs' = [runs EXCEPT ![n].jobs[x] = job]
        /\ green' = green \cup Successful(runs') /\ UNCHANGED <<head, check, began>>
        /\ events' = events + 1 /\ events < MaxEvents
      BY <1>3 DEF Report, Event
  <2>2. runs' \in Seq(Run) /\ Len(runs') = Len(runs) /\ DOMAIN runs' = DOMAIN runs
    <3>1. runs \in Seq(Run) /\ runs[n] \in Run
        BY DEF TypeOK
    <3>2. [runs[n] EXCEPT !.jobs[x] = job] \in Run
        BY <3>1 DEF Run
    <3> QED
        BY <2>1, <3>1, <3>2
  <2>3. \A m \in DOMAIN runs :
            /\ runs'[m].commit = runs[m].commit
            /\ \A y \in Contexts :
                  runs[m].jobs[y] # "none" => runs'[m].jobs[y] # "none"
    <3> SUFFICES ASSUME NEW m \in DOMAIN runs
                 PROVE  /\ runs'[m].commit = runs[m].commit
                        /\ \A y \in Contexts :
                              runs[m].jobs[y] # "none" => runs'[m].jobs[y] # "none"
        OBVIOUS
    <3>1. runs[m] \in Run /\ job # "none"
        BY StatusAssumption DEF TypeOK
    <3>2. CASE m # n
        BY <2>1, <3>2
    <3>3. CASE m = n
        BY <2>1, <3>1, <3>3 DEF Run
    <3> QED
        BY <3>2, <3>3
  <2>4. TypeOK'
    <3>1. Successful(runs') \subseteq (DOMAIN runs) \X Contexts
        BY <2>2 DEF Successful
    <3>2. (events \in 0..MaxEvents)'
        BY <2>1, StatusAssumption DEF TypeOK
    <3> QED
        BY <2>1, <2>2, <3>1, <3>2 DEF TypeOK
  <2>5. (Grown /\ Sought /\ Settled /\ Evidence)'
    <3>1. green \subseteq green' /\ Successful(runs') \subseteq green'
        BY <2>1
    <3>2. Len(runs) <= Len(runs')
        BY <2>2 DEF TypeOK
    <3> QED
        BY <2>1, <2>2, <2>3, <3>1, <3>2, EventKeeps
  <2> QED
      BY <2>4, <2>5
<1>4. ASSUME pc' \in {"audit", "told"}, outcome' \in Errors,
             UNCHANGED <<github, wanted, commit, pending, cut, found, began>>
      PROVE  IInv'
  <2>1. TypeOK'
      BY <1>4 DEF TypeOK
  <2>2. (Grown /\ Sought /\ Settled)'
      BY <1>4 DEF Grown, Sought, Settled
  <2>3. outcome' # "success"
      BY <1>4 DEF Errors
  <2>4. Evidence'
      BY <1>4, <2>3 DEF Evidence
  <2> QED
      BY <2>1, <2>2, <2>4
<1>5. ASSUME Resolve \/ Confirm
      PROVE  IInv'
  <2>1. /\ pc \in {"resolve", "confirm"} /\ pc' \in {"confirm", "list"}
        /\ commit' \in Commits \cup {NoCommit}
        /\ UNCHANGED <<github, wanted, pending, cut, found, outcome, began>>
      BY <1>5 DEF Resolve, Confirm, TypeOK
  <2>2. TypeOK'
      BY <2>1 DEF TypeOK
  <2>3. (Grown /\ Sought /\ Settled)'
      BY <2>1 DEF Grown, Sought, Settled
  <2>4. Evidence'
      BY <2>1 DEF Evidence
  <2> QED
      BY <2>2, <2>3, <2>4
<1>6. CASE ListRuns
  <2> DEFINE S == RunsOf(runs, commit)
  <2>1. /\ pc = "list" /\ pc' = "jobs" /\ pending' = Page(S) /\ cut' = (pending' # S)
        /\ UNCHANGED <<github, wanted, commit, found, outcome, began>>
      BY <1>6 DEF ListRuns
  <2>2. S \subseteq 1..Len(runs) /\ Len(runs) \in Nat /\ DOMAIN runs = 1..Len(runs)
      BY DEF RunsOf, TypeOK
  <2>3. Page(S) \subseteq S
      BY DEF Page
  <2>4. TypeOK'
      BY <2>1, <2>2, <2>3 DEF TypeOK
  <2>5. Sought'
    <3> SUFFICES ASSUME NEW x \in Contexts, NEW n \in ReportedAtStart(x)
                 PROVE  n \in Page(S) \/ (Page(S) # S /\ \A m \in Page(S) : n < m)
        BY <2>1, <2>3 DEF Sought, ReportedAtStart, RunsOf, Evidence
    <3>1. n \in S
        BY DEF ReportedAtStart, RunsOf, Grown, TypeOK
    <3> HIDE DEF S
    <3>2. n \notin Page(S) => \A m \in Page(S) : n < m
        BY <2>2, <3>1, PageIsNewest
    <3> QED
        BY <3>1, <3>2
  <2>6. (Grown /\ Settled)'
      BY <2>1 DEF Grown, Settled
  <2>7. Evidence'
      BY <2>1 DEF Evidence
  <2> QED
      BY <2>4, <2>5, <2>6, <2>7
<1>7. ASSUME NEW r \in pending, ReadJobs(r)
      PROVE  IInv'
  <2>1. /\ pc = "jobs" /\ \A m \in pending : m <= r
        /\ pending' = pending \ {r}
        /\ found' = [x \in Contexts |->
                        IF found[x] = Missing /\ runs[r].jobs[x] # "none"
                        THEN [run |-> r, state |-> State(runs[r].jobs[x])]
                        ELSE found[x]]
        /\ UNCHANGED <<github, pc, wanted, commit, cut, outcome, began>>
      BY <1>7 DEF ReadJobs
  <2>2. r \in RunsOf(runs, commit) /\ r \in DOMAIN runs /\ r \in Nat /\ r # 0
      BY <2>1 DEF Sought, TypeOK
  <2>3. ASSUME NEW x \in Contexts
        PROVE  \/ found'[x] = found[x]
               \/ /\ found[x] = Missing /\ runs[r].jobs[x] # "none"
                  /\ found'[x] = [run |-> r, state |-> State(runs[r].jobs[x])]
                  /\ found'[x].run = r /\ found'[x] # Missing
    <3>1. found[x] = Missing /\ runs[r].jobs[x] # "none" =>
             found'[x] = [run |-> r, state |-> State(runs[r].jobs[x])]
        BY <2>1
    <3>2. [run |-> r, state |-> State(runs[r].jobs[x])].run = r
        OBVIOUS
    <3>3. Missing.run = 0
        BY DEF Missing
    <3> QED
        BY <2>1, <2>2, <3>1, <3>2, <3>3
  <2>4. TypeOK'
    <3>1. (\A x \in Contexts : found[x] = Missing \/ found[x].run \in DOMAIN runs)'
        BY <2>1, <2>2, <2>3 DEF TypeOK
    <3>2. (DOMAIN found = Contexts)'
        BY <2>1
    <3> QED
        BY <2>1, <3>1, <3>2 DEF TypeOK
  <2>5. Sought'
    <3>1. (pending \subseteq RunsOf(runs, commit))'
        BY <2>1 DEF Sought
    <3>2. ASSUME NEW x \in Contexts, NEW n \in ReportedAtStart(x)
          PROVE  /\ found'[x] = Missing => n \in pending' \/ cut
                 /\ found'[x] = Missing => n \in pending' \/ \A m \in pending' : n < m
                 /\ found'[x] # Missing => n <= found'[x].run
      <4>1. n \in DOMAIN runs /\ runs[n].jobs[x] # "none" /\ n \in Nat
          BY DEF ReportedAtStart, RunsOf, Grown, TypeOK
      <4>2. CASE found[x] # Missing
        <5>1. found'[x] = found[x]
            BY <2>3, <4>2
        <5> QED
            BY <2>1, <4>2, <5>1 DEF Sought
      <4>3. CASE found[x] = Missing /\ runs[r].jobs[x] # "none"
        <5>1. found'[x] = [run |-> r, state |-> State(runs[r].jobs[x])]
            BY <2>1, <4>3
        <5>2. found'[x].run = r /\ found'[x] # Missing
            BY <2>2, <5>1 DEF Missing
        <5>3. n \in pending \/ n < r
            BY <2>1, <4>3 DEF Sought
        <5>4. n <= r
            BY <2>1, <2>2, <4>1, <5>3
        <5> QED
            BY <5>2, <5>4
      <4>4. CASE found[x] = Missing /\ runs[r].jobs[x] = "none"
        <5>1. found'[x] = Missing
            BY <2>1, <4>4
        <5>2. n # r
            BY <4>1, <4>4
        <5>3. /\ n \in pending \/ cut
              /\ n \in pending \/ \A m \in pending : n < m
            BY <2>1, <4>4 DEF Sought
        <5>4. n \in pending' \/ cut
            BY <2>1, <5>2, <5>3
        <5>5. n \in pending' \/ \A m \in pending' : n < m
            BY <2>1, <5>2, <5>3
        <5> QED
            BY <5>1, <5>4, <5>5
      <4> QED
          BY <4>2, <4>3, <4>4
    <3> QED
        BY <2>1, <3>1, <3>2 DEF Sought, ReportedAtStart
  <2>6. (Grown /\ Settled)'
      BY <2>1 DEF Grown, Settled
  <2>7. Evidence'
    <3>1. ASSUME NEW x \in Contexts, found'[x] # Missing
          PROVE  /\ found'[x].run \in RunsOf(runs, commit)
                 /\ found'[x].state \in Known
                 /\ found'[x].state = "success" => <<found'[x].run, x>> \in green
      <4>1. CASE found'[x] = found[x]
          BY <3>1, <4>1 DEF Evidence
      <4>2. CASE /\ found[x] = Missing /\ runs[r].jobs[x] # "none"
                 /\ found'[x] = [run |-> r, state |-> State(runs[r].jobs[x])]
        <5>1. found'[x].run = r /\ found'[x].state = State(runs[r].jobs[x])
            BY <4>2
        <5>2. State(runs[r].jobs[x]) = "success" => <<r, x>> \in Successful(runs)
            BY <2>2, <4>2 DEF Successful
        <5> QED
            BY <2>2, <5>1, <5>2, StateKnown DEF Evidence
      <4> QED
          BY <2>3, <4>1, <4>2
    <3> QED
        BY <2>1, <3>1 DEF Evidence
  <2> QED
      BY <2>4, <2>5, <2>6, <2>7
<1>8. CASE Artifacts
  <2>1. /\ pc = "jobs" /\ (pending = {} \/ Complete) /\ (~cut \/ Complete)
        /\ pending' = {found[x].run : x \in Contexts} \ {0} /\ pc' = "artifacts"
        /\ UNCHANGED <<github, wanted, commit, cut, found, outcome, began>>
      BY <1>8 DEF Artifacts, EndOfJobs, Unlisted
  <2>2. pending' \subseteq DOMAIN runs
    <3> SUFFICES ASSUME NEW x \in Contexts, found[x].run # 0
                 PROVE  found[x].run \in DOMAIN runs
        BY <2>1
    <3> QED
        BY DEF TypeOK, Missing
  <2>3. TypeOK'
      BY <2>1, <2>2 DEF TypeOK
  <2>4. Covered
      BY <2>1 DEF Covered, Complete, Sought
  <2>5. (Grown /\ Sought /\ Settled)'
      BY <2>1, <2>4 DEF Grown, Sought, Settled, Covered, ReportedAtStart
  <2>6. Evidence'
      BY <2>1 DEF Evidence
  <2> QED
      BY <2>3, <2>5, <2>6
<1>9. ASSUME NEW n \in pending, ReadArtifacts(n)
      PROVE  IInv'
  <2>1. /\ pc = "artifacts" /\ pending' = pending \ {n}
        /\ UNCHANGED <<github, pc, wanted, commit, cut, found, outcome, began>>
      BY <1>9 DEF ReadArtifacts
  <2>2. TypeOK'
      BY <2>1 DEF TypeOK
  <2>3. (Grown /\ Sought /\ Settled)'
      BY <2>1 DEF Grown, Sought, Settled, Covered, ReportedAtStart
  <2>4. Evidence'
      BY <2>1 DEF Evidence
  <2> QED
      BY <2>2, <2>3, <2>4
<1>10. CASE Decide
  <2>1. /\ pc = "artifacts" /\ pc' = "audit" /\ outcome' = Overall(found)
        /\ UNCHANGED <<github, wanted, commit, pending, cut, found, began>>
      BY <1>10 DEF Decide, Conclude
  <2>2. TypeOK'
      BY <2>1 DEF TypeOK
  <2>3. (Grown /\ Sought /\ Settled)'
      BY <2>1 DEF Grown, Sought, Settled, Covered, ReportedAtStart
  <2>4. ASSUME Overall(found) = "success"
        PROVE  \A x \in Contexts : found[x] # Missing /\ found[x].state = "success"
    <3>1. Missing.state = "missing"
        BY DEF Missing
    <3>2. \A x \in Contexts : found[x].state \in Known \cup {"missing"}
        BY <3>1 DEF Evidence
    <3>3. \A x \in Contexts : found[x].state = "success"
        BY <2>4, <3>2, OnlySuccess
    <3> QED
        BY <3>1, <3>3
  <2>5. Evidence'
      BY <2>1, <2>4 DEF Evidence
  <2> QED
      BY <2>2, <2>3, <2>5
<1>11. CASE Audit
  <2>1. /\ pc = "audit" /\ pc' = "told"
        /\ UNCHANGED <<github, wanted, commit, pending, cut, found, outcome, began>>
      BY <1>11 DEF Audit
  <2>2. TypeOK'
      BY <2>1 DEF TypeOK
  <2>3. (Grown /\ Sought /\ Settled)'
      BY <2>1 DEF Grown, Sought, Settled, Covered, ReportedAtStart
  <2>4. Evidence'
      BY <2>1 DEF Evidence
  <2> QED
      BY <2>2, <2>3, <2>4
<1>12. CASE UNCHANGED vars
  <2>1. TypeOK' /\ Grown'
      BY <1>12 DEF vars, TypeOK, Grown
  <2>2. Sought' /\ Settled'
      BY <1>12 DEF vars, Sought, Settled, Covered, ReportedAtStart
  <2>3. Evidence'
      BY <1>12 DEF vars, Evidence
  <2> QED
      BY <2>1, <2>2, <2>3
<1>13. Reject \/ NotFound \/ TooManyRuns \/ AuditFails \/ (\E code \in Errors : Fail(code))
          => IInv'
    BY <1>4 DEF Reject, NotFound, TooManyRuns, AuditFails, Fail, Conclude, Errors
<1> QED
    BY <1>1, <1>2, <1>3, <1>5, <1>6, <1>7, <1>8, <1>9, <1>10, <1>11, <1>12, <1>13 DEF Next

\* What CheckStatusService.check maintains between any two of its reads.
THEOREM IInvHolds == Spec => []IInv
<1> QED
    BY InitIInv, NextIInv, PTL DEF Spec

------------------------------------------------------------------------------

\* Every state of the check has the types of TypeOK, and only runs that exist
\* are read.
THEOREM CheckTypeCorrect == Spec => []TypeOK
<1>1. IInv => TypeOK
    BY DEF IInv
<1> QED
    BY <1>1, IInvHolds, PTL

\* However GitHub's runs grow between the reads, a context that had been
\* reported when the check began is not called missing (the page's guard).
THEOREM NeverFalselyMissing == Spec => []MissingWasMissing
<1>1. IInv => MissingWasMissing
    BY DEF IInv, Settled, Covered, MissingWasMissing, Answered
<1> QED
    BY <1>1, IInvHolds, PTL

\* The loop over the runs, newest first, answers no context from a run that a
\* newer one had superseded.
THEOREM NewestDecides == Spec => []NewestRunDecides
<1>1. IInv => NewestRunDecides
    BY DEF IInv, Settled, Covered, NewestRunDecides, Answered
<1> QED
    BY <1>1, IInvHolds, PTL

\* A verdict of success rests on a successful job for every context.
THEOREM EarnedSuccess == Spec => []SuccessIsEarned
<1>1. IInv => SuccessIsEarned
  <2> SUFFICES ASSUME IInv, Answered, outcome = "success", NEW x \in Contexts
               PROVE  \E n \in RunsOf(runs, commit) :
                         /\ <<n, x>> \in green
                         /\ \A m \in ReportedAtStart(x) : m <= n
      BY DEF SuccessIsEarned
  <2>1. found[x] # Missing /\ found[x].state = "success"
      BY DEF IInv, Evidence, Answered
  <2>2. found[x].run \in RunsOf(runs, commit) /\ <<found[x].run, x>> \in green
      BY <2>1 DEF IInv, Evidence
  <2>3. \A m \in ReportedAtStart(x) : m <= found[x].run
      BY DEF IInv, Settled, Covered, Answered
  <2> QED
      BY <2>2, <2>3
<1> QED
    BY <1>1, IInvHolds, PTL

==============================================================================
