------------------------------- MODULE OpenPr -------------------------------
(***************************************************************************)
(* OpenPrService.open_pr (app/core/open_pr.py) over GitHubWriteSession     *)
(* (app/collaboration/github.py), with the part of GitHub it uses.         *)
(*                                                                         *)
(* A call reads master and its branch, commits, creates the branch, opens  *)
(* the pull request, appends an audit record and answers.  Each of these   *)
(* is a request of its own: calls interleave between any two, maintainers  *)
(* act meanwhile, a mutation may be applied and its response lost, and the *)
(* gateway may restart.  No mutation is sent twice by a call; finishing    *)
(* half-done work is left to the caller's retry with the same key.         *)
(***************************************************************************)
EXTENDS Naturals, Sequences, FiniteSets

CONSTANTS Callers,      \* calls in flight
          Branches,     \* valid contrib/ names
          Keys,         \* idempotency keys
          MaxActs,      \* bound: what maintainers do in a behaviour
          MaxFailures   \* bound: failures and restarts in a behaviour

ASSUME BoundsAssumption == MaxActs \in Nat /\ MaxFailures \in Nat

VARIABLES
    \* GitHub.
    master,     \* the head of master, as the number of times it has moved
    branches,   \* the commits of each contrib/ branch, oldest first; <<>> is none
    landed,     \* commits master contains
    prs,        \* the pull requests, by number
    \* The gateway.
    pc, call,
    \* Bookkeeping.
    told,       \* history: results and conflicts callers were told of
    dropped,    \* history: branches somebody deleted
    acts, failures

github == <<master, branches, landed, prs, dropped, acts>>
vars == <<github, pc, call, told, failures>>

\* Optional values are sets of at most one element.
Option(S) == {{}} \cup {{x} : x \in S}

Bases   == 0..MaxActs
Request == [branch: Branches, key: Keys, expected: Option(Bases)]
Commit  == [id: Nat, trailer: Option(Keys), base: Bases, expected: Option(Bases)]
PR      == [branch: Branches, state: {"open", "closed", "merged"}]
NoCommit == [id |-> 0, trailer |-> {}, base |-> 0, expected |-> {}]
Success == {"opened", "replayed"}
Call    == [req: Request, base: Bases, head: Commit, replay: BOOLEAN, pr: Nat,
            outcome: Success \cup {"conflict", "failed"}]
NoCall  == [outcome |-> "failed"]
Answer  == [branch: Branches, key: Keys, head: Commit, pr: Nat,
            outcome: Success \cup {"conflict"}]

Init ==
    /\ master = 0 /\ landed = {} /\ prs = <<>> /\ dropped = {} /\ acts = 0
    /\ branches = [b \in Branches |-> <<>>]
    /\ pc = [p \in Callers |-> "idle"]
    /\ call = [p \in Callers |-> NoCall]
    /\ told = {} /\ failures = 0

CommitsOf(b) == {branches[b][i] : i \in DOMAIN branches[b]}

OpenOn(b) == {n \in DOMAIN prs : prs[n].branch = b /\ prs[n].state = "open"}

\* External: POST /pulls succeeds for a branch that is there, has no open pull
\* request and has something master has not; otherwise it is a 422.
CanOpen(b) ==
    branches[b] # <<>> /\ OpenOn(b) = {} /\ ~(CommitsOf(b) \subseteq landed)

\* The commits that anybody has seen, and one that nobody has.
Used ==
    {c.id : c \in landed \cup UNION {CommitsOf(b) : b \in Branches}}
        \cup {a.head.id : a \in told}
        \cup {call[p].head.id : p \in {p \in Callers : pc[p] # "idle"}}

NewId == CHOOSE n \in 1..Cardinality(Used) + 1 : n \notin Used

------------------------------------------------------------------------------
(***************************************************************************)
(* Maintainers, on GitHub.                                                 *)
(***************************************************************************)

Act == acts < MaxActs /\ acts' = acts + 1

AdvanceMaster ==
    /\ Act
    /\ master' = master + 1
    /\ UNCHANGED <<branches, landed, prs, dropped, pc, call, told, failures>>

Close(n) ==
    /\ Act
    /\ prs[n].state = "open"
    /\ prs' = [prs EXCEPT ![n].state = "closed"]
    /\ UNCHANGED <<master, branches, landed, dropped, pc, call, told, failures>>

\* With a merge commit master contains the branch's commits, squashed it does not.
Merge(n) ==
    /\ Act
    /\ prs[n].state = "open"
    /\ prs' = [prs EXCEPT ![n].state = "merged"]
    /\ master' = master + 1
    /\ landed' \in {landed, landed \cup CommitsOf(prs[n].branch)}
    /\ UNCHANGED <<branches, dropped, pc, call, told, failures>>

\* Somebody pushes a commit without a trailer to the branch of a pull request.
Push(b) ==
    /\ Act
    /\ OpenOn(b) # {}
    /\ branches' = [branches EXCEPT ![b] = Append(@, [NoCommit EXCEPT !.id = NewId])]
    /\ UNCHANGED <<master, landed, prs, dropped, pc, call, told, failures>>

\* Deleting a branch closes its pull request.
Delete(b) ==
    /\ Act
    /\ branches[b] # <<>>
    /\ branches' = [branches EXCEPT ![b] = <<>>]
    /\ dropped' = dropped \cup {b}
    /\ prs' = [n \in DOMAIN prs |->
                  IF n \in OpenOn(b) THEN [prs[n] EXCEPT !.state = "closed"] ELSE prs[n]]
    /\ UNCHANGED <<master, landed, pc, call, told, failures>>

Maintainers ==
    \/ AdvanceMaster
    \/ \E n \in DOMAIN prs : Close(n) \/ Merge(n)
    \/ \E b \in Branches : Push(b) \/ Delete(b)

------------------------------------------------------------------------------
(***************************************************************************)
(* open_pr, request by request.                                            *)
(***************************************************************************)

Goto(p, l) == pc' = [pc EXCEPT ![p] = l]

\* The call is over but for its audit record.
Conclude(p, outcome) ==
    /\ Goto(p, "audit")
    /\ call' = [call EXCEPT ![p].outcome = outcome]

Failure == failures < MaxFailures /\ failures' = failures + 1

\* A caller can only expect a commit master has had.
Arrive(p, r) ==
    /\ pc[p] = "idle"
    /\ r.expected \subseteq 0..master
    /\ Goto(p, "base")
    /\ call' = [call EXCEPT ![p] = [req |-> r, base |-> 0, head |-> NoCommit,
                                    replay |-> FALSE, pr |-> 0, outcome |-> "failed"]]
    /\ UNCHANGED <<github, told, failures>>

ReadBase(p) ==
    /\ pc[p] = "base"
    /\ Goto(p, "branch")
    /\ call' = [call EXCEPT ![p].base = master]
    /\ UNCHANGED <<github, told, failures>>

Tip(b) == branches[b][Len(branches[b])]

\* The head of the branch carries this call's key.  (The head is read, then the
\* commit by its hash, which cannot change.)
Recognised(p) ==
    LET b == call[p].req.branch IN
    branches[b] # <<>> /\ Tip(b).trailer = {call[p].req.key}

\* The branch has this call's work already, from an earlier attempt.
Recognise(p) ==
    /\ pc[p] = "branch" /\ Recognised(p)
    /\ Goto(p, "pull")
    /\ call' = [call EXCEPT ![p].head = Tip(call[p].req.branch), ![p].replay = TRUE]
    /\ UNCHANGED <<github, told, failures>>

\* The branch has other work.
Collide(p) ==
    /\ pc[p] = "branch" /\ branches[call[p].req.branch] # <<>> /\ ~Recognised(p)
    /\ Conclude(p, "conflict")
    /\ UNCHANGED <<github, told, failures>>

\* The branch is new, but master is not where the caller expects it.
Stale(p) ==
    /\ pc[p] = "branch" /\ branches[call[p].req.branch] = <<>>
    /\ ~(call[p].req.expected \subseteq {call[p].base})
    /\ Conclude(p, "conflict")
    /\ UNCHANGED <<github, told, failures>>

NewCommit(p, base) ==
    [id |-> NewId, trailer |-> {call[p].req.key}, base |-> base,
     expected |-> call[p].req.expected]

\* Mutant of CreateCommit: on the head master has by now.
CreateCommit_OnLatest(p) ==
    /\ pc[p] = "branch" /\ branches[call[p].req.branch] = <<>>
    /\ call[p].req.expected \subseteq {call[p].base}
    /\ Goto(p, "ref")
    /\ call' = [call EXCEPT ![p].head = NewCommit(p, master)]
    /\ UNCHANGED <<github, told, failures>>

\* The branch is new: a tree and a commit on the base that was read.  No ref
\* leads to them yet, so nobody can tell when they are made.
CreateCommit(p) ==
    /\ pc[p] = "branch" /\ branches[call[p].req.branch] = <<>>
    /\ call[p].req.expected \subseteq {call[p].base}
    /\ Goto(p, "ref")
    /\ call' = [call EXCEPT ![p].head = NewCommit(p, call[p].base)]
    /\ UNCHANGED <<github, told, failures>>

\* POST /git/refs never moves a ref that exists: then it is a 422.
Branch(p) ==
    /\ branches[call[p].req.branch] = <<>>
    /\ branches' = [branches EXCEPT ![call[p].req.branch] = <<call[p].head>>]
    /\ UNCHANGED <<master, landed, prs, dropped, acts>>

CreateBranch(p) ==
    /\ pc[p] = "ref"
    /\ Branch(p)
    /\ Goto(p, "pull")
    /\ UNCHANGED <<call, told, failures>>

\* The branch is created, but no response comes.
CreateBranchLost(p) ==
    /\ pc[p] = "ref"
    /\ Branch(p)
    /\ Failure /\ Conclude(p, "failed")
    /\ UNCHANGED told

\* Mutant of BranchExists: the 422 is handled like that of POST /pulls.
BranchExists_Handled(p) ==
    /\ pc[p] = "ref" /\ branches[call[p].req.branch] # <<>>
    /\ Goto(p, "pull")
    /\ UNCHANGED <<github, call, told, failures>>

\* Somebody was faster; a 422 is not handled here and the call fails.
BranchExists(p) ==
    /\ pc[p] = "ref" /\ branches[call[p].req.branch] # <<>>
    /\ Conclude(p, "failed")
    /\ UNCHANGED <<github, told, failures>>

Open(p) ==
    /\ CanOpen(call[p].req.branch)
    /\ prs' = Append(prs, [branch |-> call[p].req.branch, state |-> "open"])
    /\ UNCHANGED <<master, branches, landed, dropped, acts>>

Succeed(p, n) ==
    /\ Goto(p, "audit")
    /\ call' = [call EXCEPT ![p].pr = n,
                            ![p].outcome = IF call[p].replay THEN "replayed" ELSE "opened"]

OpenPull(p) ==
    /\ pc[p] = "pull"
    /\ Open(p)
    /\ Succeed(p, Len(prs) + 1)
    /\ UNCHANGED <<told, failures>>

OpenPullLost(p) ==
    /\ pc[p] = "pull"
    /\ Open(p)
    /\ Failure /\ Conclude(p, "failed")
    /\ UNCHANGED told

\* Mutant of PullExists: the 422 fails the call.
PullExists_Fails(p) ==
    /\ pc[p] = "pull" /\ ~CanOpen(call[p].req.branch)
    /\ Conclude(p, "failed")
    /\ UNCHANGED <<github, told, failures>>

\* The 422: there may be an open pull request already.
PullExists(p) ==
    /\ pc[p] = "pull" /\ ~CanOpen(call[p].req.branch)
    /\ Goto(p, "find")
    /\ UNCHANGED <<github, call, told, failures>>

FindPull(p) ==
    /\ pc[p] = "find"
    /\ \E n \in OpenOn(call[p].req.branch) : Succeed(p, n)
    /\ UNCHANGED <<github, told, failures>>

FindNone(p) ==
    /\ pc[p] = "find" /\ OpenOn(call[p].req.branch) = {}
    /\ Conclude(p, "failed")
    /\ UNCHANGED <<github, told, failures>>

\* Refused arguments, no credential, a read that three attempts did not get, or
\* a mutation that was not applied: the call fails where it is.
Fail(p) ==
    /\ pc[p] \in {"base", "branch", "ref", "pull", "find"}
    /\ Failure /\ Conclude(p, "failed")
    /\ UNCHANGED <<github, told>>

\* Mutant of Audit: a failure is not raised again after the append.
Audit_Swallows(p) ==
    /\ pc[p] = "audit"
    /\ told' = told \cup {[branch |-> call[p].req.branch, key |-> call[p].req.key,
                           head |-> call[p].head, pr |-> call[p].pr,
                           outcome |-> call[p].outcome]}
    /\ Goto(p, "idle")
    /\ call' = [call EXCEPT ![p] = NoCall]
    /\ UNCHANGED <<github, failures>>

\* The audit record is durable: the caller is told the outcome.
Audit(p) ==
    /\ pc[p] = "audit"
    /\ told' = told \cup
         {[branch |-> c.req.branch, key |-> c.req.key, head |-> c.head, pr |-> c.pr,
           outcome |-> c.outcome] : c \in {c \in {call[p]} : c.outcome # "failed"}}
    /\ Goto(p, "idle")
    /\ call' = [call EXCEPT ![p] = NoCall]
    /\ UNCHANGED <<github, failures>>

\* The append fails: upstream_unavailable, whatever was done on GitHub.
AuditFails(p) ==
    /\ pc[p] = "audit"
    /\ Failure
    /\ Goto(p, "idle")
    /\ call' = [call EXCEPT ![p] = NoCall]
    /\ UNCHANGED <<github, told>>

\* Nothing of a call outlives the process, and no audit record is written.
Restart ==
    /\ Failure
    /\ pc' = [p \in Callers |-> "idle"]
    /\ call' = [p \in Callers |-> NoCall]
    /\ UNCHANGED <<github, told>>

------------------------------------------------------------------------------

Step(p) ==
    \/ ReadBase(p) \/ Recognise(p) \/ Collide(p) \/ Stale(p) \/ CreateCommit(p)
    \/ CreateBranch(p) \/ BranchExists(p)
    \/ OpenPull(p) \/ PullExists(p) \/ FindPull(p) \/ FindNone(p) \/ Audit(p)

Trouble(p) == CreateBranchLost(p) \/ OpenPullLost(p) \/ Fail(p) \/ AuditFails(p)

Next ==
    \/ Maintainers
    \/ \E p \in Callers : Step(p) \/ Trouble(p) \/ \E r \in Request : Arrive(p, r)
    \/ Restart

Spec == Init /\ [][Next]_vars

\* Requests have timeouts and nothing waits for another call.
FairSpec == Spec /\ \A p \in Callers : WF_vars(Step(p))

------------------------------------------------------------------------------
(***************************************************************************)
(* Properties.                                                             *)
(***************************************************************************)

TypeOK ==
    /\ master \in Bases /\ acts \in 0..MaxActs /\ failures \in 0..MaxFailures
    /\ branches \in [Branches -> Seq(Commit)] /\ landed \subseteq Commit
    /\ prs \in Seq(PR) /\ dropped \subseteq Branches
    /\ pc \in [Callers -> {"idle", "base", "branch", "ref", "pull", "find", "audit"}]
    /\ call \in [Callers -> Call \cup {NoCall}]
    /\ \A p \in Callers : pc[p] # "idle" => call[p] \in Call
    /\ told \subseteq Answer

Results == {a \in told : a.outcome \in Success}

\* Of callers that race for a branch, or retry on it, only those whose work it
\* is are told of success: the commit named is on the branch, has the caller's
\* key, and the pull request named is for that branch.
ToldWorkIsProposed ==
    \A a \in Results :
        /\ a.head.trailer = {a.key}
        /\ a.pr \in DOMAIN prs /\ prs[a.pr].branch = a.branch
        /\ a.branch \in dropped \/ a.head \in CommitsOf(a.branch)

\* Work made for a snapshot of master is only ever proposed on that commit,
\* though master may move at any moment while it is made.
ExpectedBaseHonoured ==
    \A b \in Branches : \A c \in CommitsOf(b) : c.expected \subseteq {c.base}

\* The branch is as the gateway left it, whatever has become of other branches.
Untouched(b) ==
    /\ b \notin dropped
    /\ \A c \in CommitsOf(b) : c.trailer # {}
    /\ \A n \in DOMAIN prs : prs[n].branch = b => prs[n].state = "open"

Asking(r) == \E p \in Callers : pc[p] = "base" /\ call[p].req = r

\* A caller who keeps retrying gets an answer, wherever earlier attempts were
\* cut off: before the branch, between branch and pull request, or after both.
RetriesComplete ==
    \A r \in Request :
        []Untouched(r.branch) /\ []<>Asking(r)
            => <>(\E a \in told : a.branch = r.branch /\ a.key = r.key)

==============================================================================
