----------------------------- MODULE CheckStatus -----------------------------
(***************************************************************************)
(* CheckStatusService.check (app/core/check_status.py) over the reads of   *)
(* GitHubReadSession (app/collaboration/github.py).                        *)
(*                                                                         *)
(* One check: it resolves a ref to a commit, lists the commit's workflow   *)
(* runs, reads their jobs from the newest run down until both contexts are *)
(* found, reads the artifacts, appends an audit record and answers.  Every *)
(* read is a request of its own, and a retried one takes longer: pushes,   *)
(* new runs, jobs that are reported, end or are run again come between any *)
(* two.  Checks share nothing but the audit log, so one stands for all.    *)
(***************************************************************************)
EXTENDS Naturals, Sequences, FiniteSets

CONSTANTS Contexts,     \* REQUIRED_CONTEXTS
          Commits,
          NoCommit,     \* what a ref that does not exist points to
          Jobs,         \* statuses and conclusions of a reported job
          PageSize,     \* per_page, of runs
          MaxRuns,      \* bound: workflow runs at the start
          MaxEvents     \* bound: what happens at GitHub during the check

ASSUME StatusAssumption ==
    /\ "none" \notin Jobs
    /\ PageSize \in Nat /\ MaxRuns \in Nat /\ MaxEvents \in Nat

VARIABLES
    \* GitHub.
    head,       \* the commit the ref points to
    runs,       \* workflow runs in the order of their creation
    events,     \* how much has happened
    \* The check.
    pc,
    wanted,     \* the commit the caller names, if any, as a set
    commit,     \* the commit the check is about
    pending,    \* the runs that remain to be read
    cut,        \* GitHub says there are more runs than the page has
    found,      \* the contexts, as found so far
    outcome,    \* the answer, or the code of the error
    \* History.
    began,      \* the runs when the check began
    green       \* jobs that were successful at some instant since then

github == <<head, runs, events, green>>
check  == <<pc, wanted, commit, pending, cut, found, outcome>>
vars   == <<github, check, began>>

Run     == [commit: Commits, jobs: [Contexts -> Jobs \cup {"none"}]]
Missing == [run |-> 0, state |-> "missing"]
Errors  == {"bad_args", "not_found", "credential_unavailable", "upstream_unavailable"}

\* _context_state: of a job that is not completed its status, else its conclusion.
State(job) ==
    CASE job \in {"queued", "waiting", "pending"} -> "queued"
      [] job \in {"in_progress", "requested"} -> "in_progress"
      [] job \in {"cancelled", "stale"} -> "cancelled"
      [] job \in {"neutral", "skipped"} -> "neutral"
      [] job \in {"success", "timed_out"} -> job
      [] OTHER -> "failure"

\* From the worst down; whatever is there decides.
Order == <<"failure", "timed_out", "cancelled", "in_progress", "queued", "neutral">>

\* Mutant of Overall: only what was reported is judged.
Overall_Reported(contexts) ==
    LET states == {contexts[x].state : x \in Contexts} \ {"missing"} IN
    IF states = {} THEN "blocked"
    ELSE IF states \subseteq {"success"} THEN "success"
    ELSE Order[CHOOSE i \in DOMAIN Order :
                  /\ Order[i] \in states
                  /\ \A j \in DOMAIN Order : Order[j] \in states => i <= j]

\* _overall.
Overall(contexts) ==
    LET states == {contexts[x].state : x \in Contexts} IN
    IF "missing" \in states THEN "blocked"
    ELSE IF states \subseteq {"success"} THEN "success"
    ELSE Order[CHOOSE i \in DOMAIN Order :
                  /\ Order[i] \in states
                  /\ \A j \in DOMAIN Order : Order[j] \in states => i <= j]

Successful(rs) ==
    {p \in (DOMAIN rs) \X Contexts :
        LET job == rs[p[1]].jobs[p[2]] IN job # "none" /\ State(job) = "success"}

\* Any runs GitHub may have, and any request.
Init ==
    /\ head \in Commits \cup {NoCommit}
    /\ runs \in UNION {[1..n -> Run] : n \in 0..MaxRuns}
    /\ events = 0
    /\ pc = "resolve"
    /\ wanted \in {{}} \cup {{c} : c \in Commits}
    /\ commit = NoCommit /\ pending = {} /\ cut = FALSE
    /\ found = [x \in Contexts |-> Missing]
    /\ outcome = "none"
    /\ began = runs
    /\ green = Successful(runs)

------------------------------------------------------------------------------
(***************************************************************************)
(* GitHub, external.                                                       *)
(***************************************************************************)

\* Once the reads are over nothing of it matters to the check.
Event ==
    /\ events < MaxEvents
    /\ pc \notin {"audit", "told"}
    /\ events' = events + 1
    /\ UNCHANGED <<check, began>>

Push(c) ==
    /\ Event
    /\ head' = c
    /\ UNCHANGED <<runs, green>>

StartRun(c) ==
    /\ Event
    /\ runs' = Append(runs, [commit |-> c, jobs |-> [x \in Contexts |-> "none"]])
    /\ UNCHANGED <<head, green>>

\* A job is reported, goes on, ends or is run again; it never disappears.
Report(n, x, job) ==
    /\ Event
    /\ runs' = [runs EXCEPT ![n].jobs[x] = job]
    /\ green' = green \cup Successful(runs')
    /\ UNCHANGED head

------------------------------------------------------------------------------

Conclude(o) ==
    /\ pc' = "audit"
    /\ outcome' = o

\* Arguments that are refused before anything is read.
Reject ==
    /\ pc = "resolve"
    /\ Conclude("bad_args")
    /\ UNCHANGED <<github, wanted, commit, pending, cut, found, began>>

\* The pull request's or the branch's head.  A commit the caller names takes its
\* place once GitHub has confirmed it.
Resolve ==
    /\ pc = "resolve"
    /\ head # NoCommit
    /\ commit' = head
    /\ pc' = IF wanted = {} THEN "list" ELSE "confirm"
    /\ UNCHANGED <<github, wanted, pending, cut, found, outcome, began>>

NotFound ==
    /\ pc = "resolve" /\ head = NoCommit
    /\ Conclude("not_found")
    /\ UNCHANGED <<github, wanted, commit, pending, cut, found, began>>

Confirm ==
    /\ pc = "confirm"
    /\ commit' \in wanted
    /\ pc' = "list"
    /\ UNCHANGED <<github, wanted, pending, cut, found, outcome, began>>

RunsOf(rs, c) == {n \in DOMAIN rs : rs[n].commit = c}

\* The newest ones.
Page(S) == {n \in S : Cardinality({m \in S : m > n}) < PageSize}

ListRuns ==
    /\ pc = "list"
    /\ pending' = Page(RunsOf(runs, commit))
    /\ cut' = (pending' # RunsOf(runs, commit))
    /\ pc' = "jobs"
    /\ UNCHANGED <<github, wanted, commit, found, outcome, began>>

Complete == \A x \in Contexts : found[x] # Missing

\* Mutant of ReadJobs: in the order they are listed, whatever that is.
ReadJobs_AnyOrder(n) ==
    /\ pc = "jobs" /\ ~Complete
    /\ n \in pending
    /\ pending' = pending \ {n}
    /\ found' = [x \in Contexts |->
                    IF found[x] = Missing /\ runs[n].jobs[x] # "none"
                    THEN [run |-> n, state |-> State(runs[n].jobs[x])]
                    ELSE found[x]]
    /\ UNCHANGED <<github, pc, wanted, commit, cut, outcome, began>>

\* The newest run left.  The first job found for a context is the one that counts.
ReadJobs(n) ==
    /\ pc = "jobs" /\ ~Complete
    /\ n \in pending /\ \A m \in pending : m <= n
    /\ pending' = pending \ {n}
    /\ found' = [x \in Contexts |->
                    IF found[x] = Missing /\ runs[n].jobs[x] # "none"
                    THEN [run |-> n, state |-> State(runs[n].jobs[x])]
                    ELSE found[x]]
    /\ UNCHANGED <<github, pc, wanted, commit, cut, outcome, began>>

\* Mutant of Unlisted: what the page does not show is not there.
Unlisted_Never == FALSE

\* A context that was not found may be in a run the page does not show.
Unlisted == cut /\ ~Complete

EndOfJobs == pc = "jobs" /\ (pending = {} \/ Complete)

TooManyRuns ==
    /\ EndOfJobs /\ Unlisted
    /\ Conclude("upstream_unavailable")
    /\ UNCHANGED <<github, wanted, commit, pending, cut, found, began>>

\* Mutant of Artifacts: of every context, missing or not.
Artifacts_All ==
    /\ EndOfJobs /\ ~Unlisted
    /\ pending' = {found[x].run : x \in Contexts}
    /\ pc' = "artifacts"
    /\ UNCHANGED <<github, wanted, commit, cut, found, outcome, began>>

\* Artifacts are those of the runs that were named.
Artifacts ==
    /\ EndOfJobs /\ ~Unlisted
    /\ pending' = {found[x].run : x \in Contexts} \ {0}
    /\ pc' = "artifacts"
    /\ UNCHANGED <<github, wanted, commit, cut, found, outcome, began>>

ReadArtifacts(n) ==
    /\ pc = "artifacts"
    /\ n \in pending /\ \A m \in pending : n <= m
    /\ pending' = pending \ {n}
    /\ UNCHANGED <<github, pc, wanted, commit, cut, found, outcome, began>>

Decide ==
    /\ pc = "artifacts" /\ pending = {}
    /\ Conclude(Overall(found))
    /\ UNCHANGED <<github, wanted, commit, pending, cut, found, began>>

\* No credential, three attempts without an answer, or an answer that is refused:
\* one that is malformed or does not show all it counts.  404 is not_found only
\* for the ref and the commit, which alone need no permission on Actions.
Fail(code) ==
    /\ pc \in {"resolve", "confirm", "list", "jobs", "artifacts"}
    /\ code \in Errors \ {"bad_args"}
    /\ code = "not_found" => pc = "confirm"
    /\ Conclude(code)
    /\ UNCHANGED <<github, wanted, commit, pending, cut, found, began>>

\* The record is appended, then the answer is given or the error raised.
Audit ==
    /\ pc = "audit"
    /\ pc' = "told"
    /\ UNCHANGED <<github, wanted, commit, pending, cut, found, outcome, began>>

AuditFails ==
    /\ pc = "audit"
    /\ pc' = "told"
    /\ outcome' = "upstream_unavailable"
    /\ UNCHANGED <<github, wanted, commit, pending, cut, found, began>>

------------------------------------------------------------------------------

Next ==
    \/ \E c \in Commits : Push(c) \/ StartRun(c)
    \/ \E n \in DOMAIN runs, x \in Contexts, job \in Jobs : Report(n, x, job)
    \/ Reject \/ Resolve \/ NotFound \/ Confirm \/ ListRuns
    \/ \E n \in pending : ReadJobs(n) \/ ReadArtifacts(n)
    \/ TooManyRuns \/ Artifacts \/ Decide
    \/ \E code \in Errors : Fail(code)
    \/ Audit \/ AuditFails

Spec == Init /\ [][Next]_vars

------------------------------------------------------------------------------
(***************************************************************************)
(* Properties.                                                             *)
(***************************************************************************)

\* The types, and that a check reads runs that exist.
TypeOK ==
    /\ head \in Commits \cup {NoCommit}
    /\ runs \in Seq(Run) /\ began \in Seq(Run)
    /\ events \in 0..MaxEvents
    /\ pc \in {"resolve", "confirm", "list", "jobs", "artifacts", "audit", "told"}
    /\ wanted \subseteq Commits
    /\ commit \in Commits \cup {NoCommit}
    /\ pending \subseteq DOMAIN runs /\ cut \in BOOLEAN
    /\ \A x \in Contexts : found[x] = Missing \/ found[x].run \in DOMAIN runs
    /\ DOMAIN found = Contexts
    /\ green \subseteq (DOMAIN runs) \X Contexts

\* The caller has an answer, and it is a status.
Answered == pc = "told" /\ outcome \notin Errors

\* The runs of the commit that had reported x when the check began.
ReportedAtStart(x) == {n \in RunsOf(began, commit) : began[n].jobs[x] # "none"}

\* A context is never called missing that had been reported when the check
\* began, however many runs there are and whatever happened between the reads.
MissingWasMissing ==
    Answered => \A x \in Contexts : found[x] = Missing => ReportedAtStart(x) = {}

\* No context is answered from a run that a newer one had already superseded
\* when the check began.
NewestRunDecides ==
    Answered =>
        \A x \in Contexts : found[x] # Missing =>
            \A n \in ReportedAtStart(x) : n <= found[x].run

\* "success" takes, for every context, a job of this commit that was successful
\* while the check was made, in a run that none had superseded before.
SuccessIsEarned ==
    Answered /\ outcome = "success" =>
        \A x \in Contexts : \E n \in RunsOf(runs, commit) :
            /\ <<n, x>> \in green
            /\ \A m \in ReportedAtStart(x) : m <= n

==============================================================================
