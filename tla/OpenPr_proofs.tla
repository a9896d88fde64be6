---------------------------- MODULE OpenPr_proofs ----------------------------
(***************************************************************************)
(* open_pr of OpenPr, for any callers, branches, keys and bounds.          *)
(***************************************************************************)
EXTENDS OpenPr, FiniteSetTheorems, SequenceTheorems, TLAPS

\* Finitely many commits have been seen: there is a new one.
Bounded == \E m \in Nat : \A i \in Used : i <= m

MasterActs == master <= acts

\* The work is this caller's, and is on its branch unless somebody deleted it.
Proposed(c) ==
    /\ c.head.trailer = {c.req.key}
    /\ c.req.branch \in dropped \/ c.head \in CommitsOf(c.req.branch)

\* What a call holds when it gets to a request.
Holding ==
    \A p \in Callers :
        /\ pc[p] = "ref" =>
              /\ call[p].head.trailer = {call[p].req.key}
              /\ call[p].head.expected \subseteq {call[p].head.base}
        /\ pc[p] \in {"pull", "find"} => Proposed(call[p])
        /\ pc[p] = "audit" /\ call[p].outcome \in Success =>
              /\ Proposed(call[p])
              /\ call[p].pr \in DOMAIN prs
              /\ prs[call[p].pr].branch = call[p].req.branch

IInv ==
    TypeOK /\ Bounded /\ MasterActs /\ Holding /\ ToldWorkIsProposed /\ ExpectedBaseHonoured

------------------------------------------------------------------------------
(***************************************************************************)
(* Lemmas on the operators.                                                *)
(***************************************************************************)

\* Among one number more than there are IDs, one is new.
LEMMA NewIdIsNew ==
    ASSUME Bounded, Used \subseteq Nat
    PROVE  NewId \in Nat /\ NewId \notin Used
<1>1. IsFiniteSet(Used)
    BY FS_BoundedSetOfNaturals DEF Bounded
<1>2. Cardinality(Used) \in Nat
    BY <1>1, FS_CardinalityType
<1> DEFINE N == Cardinality(Used) + 1
<1>3. N \in Int /\ 1 \in Int
    BY <1>2
<1>4. IsFiniteSet(1..N) /\ Cardinality(1..N) = N
    BY <1>2, <1>3, FS_Interval
<1>5. ~(1..N \subseteq Used)
    BY <1>1, <1>2, <1>4, FS_Subset
<1>6. \E n \in 1..N : n \notin Used
    BY <1>5
<1>7. NewId \in 1..N /\ NewId \notin Used
    BY <1>6 DEF NewId
<1> QED
    BY <1>2, <1>7

\* IDs are numbers.
LEMMA UsedIsNat ==
    ASSUME TypeOK
    PROVE  Used \subseteq Nat
<1>1. ASSUME NEW b \in Branches, NEW c \in CommitsOf(b)
      PROVE  c \in Commit
    <2>1. branches[b] \in Seq(Commit)
        BY DEF TypeOK
    <2> QED
        BY <1>1, <2>1, LenProperties DEF CommitsOf
<1>2. \A c \in Commit : c.id \in Nat
    BY DEF Commit
<1>3. \A a \in told : a.head \in Commit
    BY DEF TypeOK, Answer
<1>4. \A p \in Callers : pc[p] # "idle" => call[p].head \in Commit
    BY DEF TypeOK, Call
<1>5. landed \subseteq Commit
    BY DEF TypeOK
<1>6. {c.id : c \in landed \cup UNION {CommitsOf(b) : b \in Branches}} \subseteq Nat
    BY <1>1, <1>2, <1>5
<1>7. {a.head.id : a \in told} \subseteq Nat
    BY <1>2, <1>3
<1>8. {call[p].head.id : p \in {p \in Callers : pc[p] # "idle"}} \subseteq Nat
    BY <1>2, <1>4
<1> QED
    BY <1>6, <1>7, <1>8 DEF Used

\* The commits of a branch, one more commit, and the last one.
LEMMA CommitsType ==
    ASSUME TypeOK, NEW b \in Branches
    PROVE  /\ branches[b] \in Seq(Commit)
           /\ CommitsOf(b) \subseteq Commit
           /\ branches[b] # <<>> => Tip(b) \in CommitsOf(b)
<1>1. branches[b] \in Seq(Commit)
    BY DEF TypeOK
<1>2. /\ Len(branches[b]) \in Nat /\ DOMAIN branches[b] = 1..Len(branches[b])
      /\ branches[b] \in [1..Len(branches[b]) -> Commit]
    BY <1>1, LenProperties
<1>3. branches[b] # <<>> => Len(branches[b]) # 0
    BY <1>1, EmptySeq
<1> QED
    BY <1>1, <1>2, <1>3 DEF CommitsOf, Tip

------------------------------------------------------------------------------
(***************************************************************************)
(* Types.                                                                  *)
(***************************************************************************)

Labels == {"idle", "base", "branch", "ref", "pull", "find", "audit"}

\* What TypeOK says of the gateway.
CallsOK ==
    /\ pc \in [Callers -> Labels]
    /\ call \in [Callers -> Call \cup {NoCall}]
    /\ \A p \in Callers : pc[p] # "idle" => call[p] \in Call

GitHubOK ==
    /\ master \in Bases /\ acts \in 0..MaxActs
    /\ branches \in [Branches -> Seq(Commit)] /\ landed \subseteq Commit
    /\ prs \in Seq(PR) /\ dropped \subseteq Branches

\* A step of one call, from where it is not idle.
LEMMA CallStep ==
    ASSUME TypeOK, NEW p \in Callers, NEW l \in Labels, NEW c \in Call,
           pc' = [pc EXCEPT ![p] = l], call' = [call EXCEPT ![p] = c]
    PROVE  CallsOK'
BY DEF TypeOK, CallsOK, Labels

LEMMA CallEnds ==
    ASSUME TypeOK, NEW p \in Callers,
           pc' = [pc EXCEPT ![p] = "idle"], call' = [call EXCEPT ![p] = NoCall]
    PROVE  CallsOK'
BY DEF TypeOK, CallsOK, Labels

\* What the steps make of a call.
LEMMA CallParts ==
    ASSUME NEW c \in Call
    PROVE  /\ c.req \in Request /\ c.head \in Commit /\ c.pr \in Nat
           /\ \A n \in Nat, o \in Success \cup {"conflict", "failed"} :
                 /\ [c EXCEPT !.outcome = o] \in Call
                 /\ [c EXCEPT !.pr = n, !.outcome = o] \in Call
           /\ \A h \in Commit :
                 /\ [c EXCEPT !.head = h] \in Call
                 /\ [c EXCEPT !.head = h, !.replay = TRUE] \in Call
           /\ \A b \in Bases : [c EXCEPT !.base = b] \in Call
BY DEF Call

LEMMA PushedType ==
    ASSUME TypeOK, Bounded
    PROVE  /\ NoCommit \in Commit
           /\ [NoCommit EXCEPT !.id = NewId] \in Commit
<1>1. NewId \in Nat
    BY UsedIsNat, NewIdIsNew
<1>2. {} \in Option(Keys) /\ {} \in Option(Bases) /\ 0 \in Bases
    BY BoundsAssumption DEF Option, Bases
<1> QED
    BY <1>1, <1>2 DEF NoCommit, Commit

LEMMA NewCommitType ==
    ASSUME TypeOK, Bounded, NEW p \in Callers, pc[p] # "idle"
    PROVE  NewCommit(p, call[p].base) \in Commit
<1>1. NewId \in Nat
    BY UsedIsNat, NewIdIsNew
<1>2. call[p] \in Call
    BY DEF TypeOK
<1>3. call[p].req.key \in Keys /\ call[p].req.expected \in Option(Bases)
    BY <1>2 DEF Call, Request
<1>4. call[p].base \in Bases
    BY <1>2 DEF Call
<1>5. {call[p].req.key} \in Option(Keys)
    BY <1>3 DEF Option
<1> QED
    BY <1>1, <1>3, <1>4, <1>5 DEF NewCommit, Commit

\* GitHub after an act of a maintainer, or a request that changes something.
LEMMA MaintainerTypes ==
    ASSUME TypeOK, Bounded, MasterActs, Maintainers
    PROVE  GitHubOK' /\ MasterActs'
<1> USE DEF GitHubOK, MasterActs, Act, Bases
<1>1. GitHubOK /\ acts < MaxActs
    BY DEF TypeOK, Maintainers, AdvanceMaster, Close, Merge, Push, Delete
<1>2. /\ acts' \in 0..MaxActs
      /\ \A m \in {master, master + 1} : m \in Bases /\ m <= acts + 1
    BY <1>1, BoundsAssumption
       DEF Maintainers, AdvanceMaster, Close, Merge, Push, Delete
<1>3. ASSUME NEW n \in DOMAIN prs, NEW x \in {"closed", "merged"}
      PROVE  [prs EXCEPT ![n].state = x] \in Seq(PR)
    <2>0. prs \in Seq(PR)
        BY <1>1
    <2>1. prs[n] \in PR /\ n \in 1..Len(prs)
        BY <2>0, LenProperties
    <2>2. [prs[n] EXCEPT !.state = x] \in PR
        BY <2>1 DEF PR
    <2> QED
        BY <2>0, <2>1, <2>2, ExceptSeq
<1>4. CASE AdvanceMaster
    BY <1>1, <1>2, <1>4 DEF AdvanceMaster
<1>5. ASSUME NEW n \in DOMAIN prs, Close(n)
      PROVE  GitHubOK' /\ MasterActs'
    BY <1>1, <1>2, <1>3, <1>5 DEF Close
<1>6. ASSUME NEW n \in DOMAIN prs, Merge(n)
      PROVE  GitHubOK' /\ MasterActs'
    <2>0. prs \in Seq(PR)
        BY <1>1
    <2>1. prs[n] \in PR
        BY <2>0, LenProperties
    <2>2. prs[n].branch \in Branches
        BY <2>1 DEF PR
    <2>3. landed' \subseteq Commit
        BY <1>1, <1>6, <2>2, CommitsType DEF Merge
    <2> QED
        BY <1>1, <1>2, <1>3, <1>6, <2>3 DEF Merge
<1>7. ASSUME NEW b \in Branches, Push(b)
      PROVE  GitHubOK' /\ MasterActs'
    <2>1. Append(branches[b], [NoCommit EXCEPT !.id = NewId]) \in Seq(Commit)
        BY <1>1, PushedType
    <2>2. branches' \in [Branches -> Seq(Commit)]
        BY <1>1, <1>7, <2>1 DEF Push
    <2> QED
        BY <1>1, <1>2, <1>7, <2>2 DEF Push
<1>8. ASSUME NEW b \in Branches, Delete(b)
      PROVE  GitHubOK' /\ MasterActs'
    <2>1. prs' \in Seq(PR)
        <3>1. /\ Len(prs) \in Nat /\ DOMAIN prs = 1..Len(prs)
              /\ \A n \in 1..Len(prs) : prs[n] \in PR
            BY <1>1, LenProperties
        <3>2. \A r \in PR : [r EXCEPT !.state = "closed"] \in PR
            BY DEF PR
        <3>3. prs' \in [1..Len(prs) -> PR]
            BY <1>8, <3>1, <3>2 DEF Delete
        <3> QED
            BY <3>1, <3>3
    <2>2. <<>> \in Seq(Commit)
        BY EmptySeq
    <2> QED
        BY <1>1, <1>2, <1>8, <2>1, <2>2 DEF Delete
<1> QED
    BY <1>4, <1>5, <1>6, <1>7, <1>8 DEF Maintainers

LEMMA BranchTypes ==
    ASSUME TypeOK, MasterActs, NEW p \in Callers, pc[p] = "ref", Branch(p)
    PROVE  GitHubOK' /\ MasterActs'
<1>1. call[p] \in Call
    BY DEF TypeOK
<1>2. call[p].head \in Commit
    BY <1>1 DEF Call
<1>3. <<call[p].head>> \in Seq(Commit)
    BY <1>2
<1> QED
    BY <1>3 DEF TypeOK, GitHubOK, MasterActs, Branch

LEMMA OpenTypes ==
    ASSUME TypeOK, MasterActs, NEW p \in Callers, pc[p] = "pull", Open(p)
    PROVE  GitHubOK' /\ MasterActs'
<1>1. call[p].req.branch \in Branches
    BY DEF TypeOK, Call, Request
<1>2. [branch |-> call[p].req.branch, state |-> "open"] \in PR
    BY <1>1 DEF PR
<1>3. prs' \in Seq(PR)
    BY <1>2, AppendProperties DEF TypeOK, Open
<1> QED
    BY <1>3 DEF TypeOK, GitHubOK, MasterActs, Open

\* Whatever a call does, it leaves GitHub and the calls well-formed.
LEMMA StepTypes ==
    ASSUME TypeOK, Bounded, MasterActs, NEW p \in Callers, Step(p) \/ Trouble(p)
    PROVE  GitHubOK' /\ MasterActs' /\ CallsOK'
<1> DEFINE Quiet == UNCHANGED github
<1> DEFINE c == call[p]
<1>1. Quiet => GitHubOK' /\ MasterActs'
    BY DEF TypeOK, GitHubOK, MasterActs, github
<1>2. pc[p] # "idle"
    BY DEF Step, Trouble, ReadBase, Recognise, Collide, Stale, CreateCommit, CreateBranch,
           BranchExists, OpenPull, PullExists, FindPull, FindNone, Audit,
           CreateBranchLost, OpenPullLost, Fail, AuditFails
<1>3. c \in Call /\ c.req.branch \in Branches
    BY <1>2 DEF TypeOK, Call, Request
<1>4. /\ master \in Bases /\ prs \in Seq(PR) /\ Len(prs) \in Nat
      /\ DOMAIN prs = 1..Len(prs)
    BY LenProperties DEF TypeOK
<1>5. ASSUME NEW l \in Labels, Goto(p, l), UNCHANGED call
      PROVE  CallsOK'
    <2>1. call' = [call EXCEPT ![p] = c]
        BY <1>5 DEF TypeOK
    <2> QED
        BY <1>3, <1>5, <2>1, CallStep DEF Goto
<1>6. ASSUME NEW o \in Success \cup {"conflict", "failed"}, Conclude(p, o)
      PROVE  CallsOK'
    <2>1. [c EXCEPT !.outcome = o] \in Call
        BY <1>3, CallParts
    <2>2. call' = [call EXCEPT ![p] = [c EXCEPT !.outcome = o]] /\ "audit" \in Labels
        BY <1>6 DEF Conclude, Labels
    <2> QED
        BY <1>6, <2>1, <2>2, CallStep DEF Conclude, Goto
<1>7. ASSUME NEW n \in Nat, Succeed(p, n)
      PROVE  CallsOK'
    <2> DEFINE o == IF c.replay THEN "replayed" ELSE "opened"
    <2>1. o \in Success \cup {"conflict", "failed"}
        BY DEF Success
    <2>2. [c EXCEPT !.pr = n, !.outcome = o] \in Call
        BY <1>3, <2>1, CallParts
    <2>3. call' = [call EXCEPT ![p] = [c EXCEPT !.pr = n, !.outcome = o]]
        BY <1>7 DEF Succeed
    <2>4. "audit" \in Labels
        BY DEF Labels
    <2> HIDE DEF o
    <2> QED
        BY <1>7, <2>2, <2>3, <2>4, CallStep DEF Succeed, Goto
<1>8. {"base", "branch", "ref", "pull", "find", "audit", "idle"} \subseteq Labels
    BY DEF Labels
<1> HIDE DEF Quiet, c
<1>9. CASE ReadBase(p)
    <2>1. [c EXCEPT !.base = master] \in Call
        BY <1>3, <1>4, CallParts
    <2>2. call' = [call EXCEPT ![p] = [c EXCEPT !.base = master]]
        BY <1>9 DEF ReadBase, c
    <2> QED
        BY <1>1, <1>8, <1>9, <2>1, <2>2, CallStep DEF ReadBase, Quiet, Goto
<1>10. CASE Recognise(p)
    <2>1. Tip(c.req.branch) \in Commit
        BY <1>3, <1>10, CommitsType DEF Recognise, Recognised, c
    <2>2. [c EXCEPT !.head = Tip(c.req.branch), !.replay = TRUE] \in Call
        BY <1>3, <2>1, CallParts
    <2>3. call' = [call EXCEPT ![p] = [c EXCEPT !.head = Tip(c.req.branch), !.replay = TRUE]]
        BY <1>10 DEF Recognise, c
    <2> QED
        BY <1>1, <1>8, <1>10, <2>2, <2>3, CallStep DEF Recognise, Quiet, Goto
<1>11. CASE CreateCommit(p)
    <2>1. NewCommit(p, call[p].base) \in Commit
        BY <1>2, NewCommitType
    <2>2. [c EXCEPT !.head = NewCommit(p, call[p].base)] \in Call
        BY <1>3, <2>1, CallParts
    <2>3. call' = [call EXCEPT ![p] = [c EXCEPT !.head = NewCommit(p, call[p].base)]]
        BY <1>11 DEF CreateCommit, c
    <2> QED
        BY <1>1, <1>8, <1>11, <2>2, <2>3, CallStep DEF CreateCommit, Quiet, Goto
<1>12. CASE Collide(p) \/ Stale(p) \/ BranchExists(p) \/ FindNone(p) \/ Fail(p)
    BY <1>1, <1>6, <1>12 DEF Collide, Stale, BranchExists, FindNone, Fail, Quiet
<1>13. CASE CreateBranch(p) \/ CreateBranchLost(p)
    <2>1. pc[p] = "ref" /\ Branch(p)
        BY <1>13 DEF CreateBranch, CreateBranchLost
    <2> QED
        BY <1>5, <1>6, <1>8, <1>13, <2>1, BranchTypes DEF CreateBranch, CreateBranchLost
<1>14. CASE OpenPull(p) \/ OpenPullLost(p)
    <2>1. pc[p] = "pull" /\ Open(p)
        BY <1>14 DEF OpenPull, OpenPullLost
    <2>2. Len(prs) + 1 \in Nat
        BY <1>4
    <2> QED
        BY <1>6, <1>7, <1>14, <2>1, <2>2, OpenTypes DEF OpenPull, OpenPullLost
<1>15. CASE PullExists(p)
    BY <1>1, <1>5, <1>8, <1>15 DEF PullExists, Quiet
<1>16. CASE FindPull(p)
    <2>1. PICK n \in OpenOn(call[p].req.branch) : Succeed(p, n)
        BY <1>16 DEF FindPull
    <2>2. n \in Nat
        BY <1>4, <2>1 DEF OpenOn
    <2> QED
        BY <1>1, <1>7, <1>16, <2>1, <2>2 DEF FindPull, Quiet
<1>17. CASE Audit(p) \/ AuditFails(p)
    BY <1>1, <1>17, CallEnds DEF Audit, AuditFails, Quiet, Goto
<1> QED
    BY <1>9, <1>10, <1>11, <1>12, <1>13, <1>14, <1>15, <1>16, <1>17 DEF Step, Trouble

LEMMA ArriveTypes ==
    ASSUME TypeOK, NEW p \in Callers, NEW r \in Request, Arrive(p, r)
    PROVE  CallsOK'
<1> DEFINE c == [req |-> r, base |-> 0, head |-> NoCommit,
                 replay |-> FALSE, pr |-> 0, outcome |-> "failed"]
<1>1. {} \in Option(Keys) /\ {} \in Option(Bases) /\ 0 \in Bases
    BY BoundsAssumption DEF Option, Bases
<1>2. NoCommit \in Commit
    BY <1>1 DEF NoCommit, Commit
<1>3. c \in Call
    BY <1>1, <1>2 DEF Call
<1>4. "base" \in Labels /\ pc' = [pc EXCEPT ![p] = "base"] /\ call' = [call EXCEPT ![p] = c]
    BY DEF Labels, Arrive, Goto
<1> QED
    BY <1>3, <1>4, CallStep

\* Only a durable record tells a caller anything.
LEMMA ToldBy ==
    ASSUME TypeOK, [Next]_vars
    PROVE  /\ told \subseteq told'
           /\ \A a \in told' \ told : \E p \in Callers :
                 /\ Audit(p) /\ pc[p] = "audit" /\ call[p].outcome # "failed"
                 /\ a = [branch |-> call[p].req.branch, key |-> call[p].req.key,
                         head |-> call[p].head, pr |-> call[p].pr,
                         outcome |-> call[p].outcome]
<1>1. CASE UNCHANGED told
    BY <1>1
<1>2. ASSUME NEW p \in Callers, Audit(p)
      PROVE  /\ told \subseteq told'
             /\ \A a \in told' \ told :
                   /\ Audit(p) /\ pc[p] = "audit" /\ call[p].outcome # "failed"
                   /\ a = [branch |-> call[p].req.branch, key |-> call[p].req.key,
                           head |-> call[p].head, pr |-> call[p].pr,
                           outcome |-> call[p].outcome]
    BY <1>2 DEF Audit
<1>3. UNCHANGED told \/ \E p \in Callers : Audit(p)
    BY DEF Next, vars, Maintainers, AdvanceMaster, Close, Merge, Push, Delete, Step, Trouble,
           ReadBase, Recognise, Collide, Stale, CreateCommit, CreateBranch, BranchExists,
           OpenPull, PullExists, FindPull, FindNone, CreateBranchLost, OpenPullLost, Fail,
           AuditFails, Arrive, Restart
<1> QED
    BY <1>1, <1>2, <1>3

LEMMA TypeStep ==
    ASSUME TypeOK, Bounded, MasterActs, [Next]_vars
    PROVE  TypeOK' /\ MasterActs'
<1>1. GitHubOK /\ CallsOK
    BY DEF TypeOK, GitHubOK, CallsOK, Labels
<1>2. GitHubOK' /\ MasterActs' /\ CallsOK'
    <2>1. CASE UNCHANGED vars
        BY <1>1, <2>1 DEF vars, github, GitHubOK, CallsOK, MasterActs
    <2>2. CASE Maintainers
        <3>1. UNCHANGED <<pc, call>>
            BY <2>2 DEF Maintainers, AdvanceMaster, Close, Merge, Push, Delete
        <3> QED
            BY <1>1, <2>2, <3>1, MaintainerTypes DEF CallsOK
    <2>3. CASE \E p \in Callers : Step(p) \/ Trouble(p)
        BY <2>3, StepTypes
    <2>4. ASSUME NEW p \in Callers, NEW r \in Request, Arrive(p, r)
          PROVE  GitHubOK' /\ MasterActs' /\ CallsOK'
        <3>1. UNCHANGED github
            BY <2>4 DEF Arrive
        <3> QED
            BY <1>1, <2>4, <3>1, ArriveTypes DEF GitHubOK, MasterActs, github
    <2>5. CASE Restart
        BY <1>1, <2>5 DEF Restart, GitHubOK, CallsOK, MasterActs, github, Labels
    <2> QED
        BY <2>1, <2>2, <2>3, <2>4, <2>5 DEF Next
<1>3. failures' \in 0..MaxFailures
    <2>1. UNCHANGED failures \/ Failure
        BY DEF Next, vars, Maintainers, AdvanceMaster, Close, Merge, Push, Delete, Step,
               Trouble, ReadBase, Recognise, Collide, Stale, CreateCommit, CreateBranch,
               BranchExists, OpenPull, PullExists, FindPull, FindNone, Audit,
               CreateBranchLost, OpenPullLost, Fail, AuditFails, Arrive, Restart
    <2>2. failures \in 0..MaxFailures
        BY DEF TypeOK
    <2> QED
        BY <2>1, <2>2, BoundsAssumption DEF Failure
<1>4. told' \subseteq Answer
    <2>1. ASSUME NEW p \in Callers, pc[p] = "audit", call[p].outcome # "failed"
          PROVE  [branch |-> call[p].req.branch, key |-> call[p].req.key,
                  head |-> call[p].head, pr |-> call[p].pr,
                  outcome |-> call[p].outcome] \in Answer
        BY <2>1 DEF TypeOK, Call, Request, Answer
    <2> QED
        BY <2>1, ToldBy DEF TypeOK
<1> QED
    BY <1>2, <1>3, <1>4 DEF TypeOK, GitHubOK, CallsOK, Labels

------------------------------------------------------------------------------
(***************************************************************************)
(* Steps.                                                                  *)
(***************************************************************************)

\* What no step does: take a pull request away or turn it to another branch, or
\* take a commit off a branch that nobody deleted.
LEMMA Monotone ==
    ASSUME TypeOK, [Next]_vars
    PROVE  /\ dropped \subseteq dropped'
           /\ \A n \in DOMAIN prs : n \in DOMAIN prs' /\ prs'[n].branch = prs[n].branch
           /\ \A b \in Branches : b \in dropped' \/ CommitsOf(b) \subseteq CommitsOf(b)'
<1> DEFINE Goal ==
        /\ dropped \subseteq dropped'
        /\ \A n \in DOMAIN prs : n \in DOMAIN prs' /\ prs'[n].branch = prs[n].branch
        /\ \A b \in Branches : b \in dropped' \/ CommitsOf(b) \subseteq CommitsOf(b)'
<1>0. /\ prs \in Seq(PR) /\ Len(prs) \in Nat /\ DOMAIN prs = 1..Len(prs)
      /\ \A n \in 1..Len(prs) : prs[n] \in PR
    BY LenProperties DEF TypeOK
<1>1. CASE UNCHANGED <<branches, prs, dropped>>
    BY <1>1 DEF CommitsOf
<1>2. ASSUME NEW n \in DOMAIN prs, Close(n) \/ Merge(n)
      PROVE  Goal
    <2>1. PICK x : prs' = [prs EXCEPT ![n].state = x]
        BY <1>2 DEF Close, Merge
    <2>2. \A m \in DOMAIN prs : m \in DOMAIN prs' /\ prs'[m].branch = prs[m].branch
        BY <1>0, <2>1 DEF PR
    <2> QED
        BY <1>2, <2>2 DEF Close, Merge, CommitsOf
<1>3. ASSUME NEW b \in Branches, Push(b)
      PROVE  Goal
    <2> DEFINE e == [NoCommit EXCEPT !.id = NewId]
    <2>1. branches \in [Branches -> Seq(Commit)]
        BY DEF TypeOK
    <2>2. branches' = [branches EXCEPT ![b] = Append(branches[b], e)]
        BY <1>3 DEF Push
    <2> HIDE DEF e
    <2>3. \A i \in DOMAIN branches[b] :
              i \in DOMAIN Append(branches[b], e) /\ Append(branches[b], e)[i] = branches[b][i]
        BY <2>1
    <2>4. \A a \in Branches : CommitsOf(a) \subseteq CommitsOf(a)'
        BY <2>1, <2>2, <2>3 DEF CommitsOf
    <2> QED
        BY <1>3, <2>4 DEF Push
<1>4. ASSUME NEW b \in Branches, Delete(b)
      PROVE  Goal
    <2>1. \A n \in DOMAIN prs : n \in DOMAIN prs' /\ prs'[n].branch = prs[n].branch
        BY <1>0, <1>4 DEF Delete, PR
    <2>2. \A a \in Branches \ {b} : branches'[a] = branches[a]
        BY <1>4 DEF Delete, TypeOK
    <2> QED
        BY <1>4, <2>1, <2>2 DEF Delete, CommitsOf
<1>5. ASSUME NEW p \in Callers, Branch(p)
      PROVE  Goal
    <2>1. \A a \in Branches : branches[a] = <<>> \/ branches'[a] = branches[a]
        BY <1>5 DEF Branch, TypeOK
    <2> QED
        BY <1>5, <2>1 DEF Branch, CommitsOf
<1>6. ASSUME NEW p \in Callers, Open(p)
      PROVE  Goal
    BY <1>0, <1>6 DEF Open, CommitsOf
<1> QED
    BY <1>1, <1>2, <1>3, <1>4, <1>5, <1>6
       DEF Next, vars, github, Maintainers, AdvanceMaster, Step, Trouble, ReadBase,
           Recognise, Collide, Stale, CreateCommit, CreateBranch, BranchExists, OpenPull,
           PullExists, FindPull, FindNone, Audit, CreateBranchLost, OpenPullLost, Fail,
           AuditFails, Arrive, Restart

\* A commit on a branch was there before, was pushed, or is that of a call that is
\* creating the branch.
LEMMA Arrivals ==
    ASSUME TypeOK, Bounded, [Next]_vars, NEW b \in Branches, NEW c \in CommitsOf(b)'
    PROVE  \/ c \in CommitsOf(b)
           \/ c = [NoCommit EXCEPT !.id = NewId]
           \/ \E p \in Callers : pc[p] = "ref" /\ c = call[p].head
<1>0. branches \in [Branches -> Seq(Commit)]
    BY DEF TypeOK
<1>1. CASE UNCHANGED branches
    BY <1>1 DEF CommitsOf
<1>2. ASSUME NEW a \in Branches, Push(a)
      PROVE  c \in CommitsOf(b) \/ c = [NoCommit EXCEPT !.id = NewId]
    <2> DEFINE e == [NoCommit EXCEPT !.id = NewId]
    <2>1. branches' = [branches EXCEPT ![a] = Append(branches[a], e)]
        BY <1>2 DEF Push
    <2>2. e \in Commit
        BY PushedType
    <2> HIDE DEF e
    <2>3. /\ Len(Append(branches[a], e)) = Len(branches[a]) + 1 /\ Len(branches[a]) \in Nat
          /\ DOMAIN branches[a] = 1..Len(branches[a])
          /\ DOMAIN Append(branches[a], e) = 1..Len(branches[a]) + 1
          /\ \A i \in 1..Len(branches[a]) : Append(branches[a], e)[i] = branches[a][i]
          /\ Append(branches[a], e)[Len(branches[a]) + 1] = e
        BY <1>0, <2>2, AppendProperties, LenProperties
    <2>4. \A i \in DOMAIN Append(branches[a], e) :
              Append(branches[a], e)[i] \in CommitsOf(a) \cup {e}
        BY <2>3 DEF CommitsOf
    <2>5. CASE a = b
        BY <1>0, <2>1, <2>4, <2>5 DEF CommitsOf, e
    <2>6. CASE a # b
        BY <1>0, <2>1, <2>6 DEF CommitsOf
    <2> QED
        BY <2>5, <2>6
<1>3. ASSUME NEW a \in Branches, Delete(a)
      PROVE  c \in CommitsOf(b)
    <2>1. branches'[b] = IF a = b THEN <<>> ELSE branches[b]
        BY <1>0, <1>3 DEF Delete
    <2> QED
        BY <2>1 DEF CommitsOf
<1>4. ASSUME NEW p \in Callers, pc[p] = "ref", Branch(p)
      PROVE  c \in CommitsOf(b) \/ c = call[p].head
    <2>1. branches'[b] = branches[b] \/ branches'[b] = <<call[p].head>>
        BY <1>0, <1>4 DEF Branch
    <2> QED
        BY <2>1 DEF CommitsOf
<1> QED
    BY <1>1, <1>2, <1>3, <1>4
       DEF Next, vars, github, Maintainers, AdvanceMaster, Close, Merge, Step, Trouble,
           ReadBase, Recognise, Collide, Stale, CreateCommit, CreateBranch, BranchExists,
           OpenPull, Open, PullExists, FindPull, FindNone, Audit, CreateBranchLost,
           OpenPullLost, Fail, AuditFails, Arrive, Restart

\* Nobody sees a commit but those seen before and the new one.
LEMMA UsedStep ==
    ASSUME TypeOK, Bounded, [Next]_vars
    PROVE  Used' \subseteq Used \cup {0, NewId}
<1> DEFINE Held(p) == pc[p] # "idle" /\ call[p].head.id \in Used
<1>1. /\ \A b \in Branches : \A c \in CommitsOf(b) : c.id \in Used
      /\ \A c \in landed : c.id \in Used
      /\ \A a \in told : a.head.id \in Used
      /\ \A p \in Callers : pc[p] # "idle" => call[p].head.id \in Used
    BY DEF Used
<1>2. ASSUME NEW b \in Branches, NEW c \in CommitsOf(b)'
      PROVE  c.id \in Used \cup {NewId}
    <2>1. [NoCommit EXCEPT !.id = NewId].id = NewId
        BY DEF NoCommit
    <2>2. \A p \in Callers : pc[p] = "ref" => call[p].head.id \in Used
        BY <1>1
    <2> QED
        BY <1>1, <2>1, <2>2, Arrivals
<1>3. ASSUME NEW c \in landed'
      PROVE  c.id \in Used
    <2>1. \/ c \in landed
          \/ \E n \in DOMAIN prs : c \in CommitsOf(prs[n].branch) /\ prs[n].branch \in Branches
        <3>1. \A n \in DOMAIN prs : prs[n].branch \in Branches
            <4>1. prs \in Seq(PR)
                BY DEF TypeOK
            <4>2. \A n \in DOMAIN prs : prs[n] \in PR
                BY <4>1, LenProperties
            <4> QED
                BY <4>2 DEF PR
        <3>2. UNCHANGED landed \/ \E n \in DOMAIN prs : Merge(n)
            BY DEF Next, vars, github, Maintainers, AdvanceMaster, Close, Push, Delete,
                   Step, Trouble, ReadBase, Recognise, Collide, Stale, CreateCommit,
                   CreateBranch, Branch, BranchExists, OpenPull, Open, PullExists, FindPull,
                   FindNone, Audit, CreateBranchLost, OpenPullLost, Fail, AuditFails,
                   Arrive, Restart
        <3> QED
            BY <3>1, <3>2 DEF Merge
    <2> QED
        BY <1>1, <2>1
<1>4. ASSUME NEW a \in told'
      PROVE  a.head.id \in Used
    <2>1. CASE a \in told
        BY <1>1, <2>1
    <2>2. CASE a \notin told
        <3>1. PICK p \in Callers : pc[p] = "audit" /\ a.head = call[p].head
            BY <2>2, ToldBy
        <3> QED
            BY <1>1, <3>1
    <2> QED
        BY <2>1, <2>2
<1>5. ASSUME NEW p \in Callers, pc'[p] # "idle"
      PROVE  call'[p].head.id \in Used \cup {0, NewId}
    <2>0. call \in [Callers -> Call \cup {NoCall}] /\ pc \in [Callers -> Labels]
        BY DEF TypeOK, Labels
    <2>1. CASE pc[p] = pc'[p] /\ call'[p] = call[p]
        BY <1>1, <1>5, <2>1
    <2>2. ASSUME NEW q \in Callers, Step(q) \/ Trouble(q), q = p
          PROVE  call'[p].head.id \in Used \cup {0, NewId}
        <3>1. pc[p] # "idle"
            BY <2>2
               DEF Step, Trouble, ReadBase, Recognise, Collide, Stale, CreateCommit,
                   CreateBranch, BranchExists, OpenPull, PullExists, FindPull, FindNone,
                   Audit, CreateBranchLost, OpenPullLost, Fail, AuditFails
        <3>2. call[p] \in Call /\ call[p].req.branch \in Branches
            BY <3>1 DEF TypeOK, Call, Request
        <3>3. CASE Recognise(p)
            <4>1. call'[p].head = Tip(call[p].req.branch)
                BY <2>0, <3>2, <3>3 DEF Recognise, Call
            <4>2. Tip(call[p].req.branch) \in CommitsOf(call[p].req.branch)
                BY <3>2, <3>3, CommitsType DEF Recognise, Recognised
            <4> QED
                BY <1>1, <3>2, <4>1, <4>2
        <3>4. CASE CreateCommit(p)
            <4>1. call'[p].head = NewCommit(p, call[p].base)
                BY <2>0, <3>2, <3>4 DEF CreateCommit, Call
            <4> QED
                BY <4>1 DEF NewCommit
        <3>5. CASE Audit(p) \/ AuditFails(p)
            BY <1>5, <2>0, <3>5 DEF Audit, AuditFails, Goto
        <3>6. CASE call'[p].head = call[p].head
            BY <1>1, <3>1, <3>6
        <3>7. ASSUME ReadBase(p)
              PROVE  call'[p].head = call[p].head
            BY <2>0, <3>2, <3>7 DEF ReadBase, Call
        <3>8. ASSUME NEW o, Conclude(p, o)
              PROVE  call'[p].head = call[p].head
            BY <2>0, <3>2, <3>8 DEF Conclude, Call
        <3>9. ASSUME NEW n, Succeed(p, n)
              PROVE  call'[p].head = call[p].head
            BY <2>0, <3>2, <3>9 DEF Succeed, Call
        <3>10. \/ UNCHANGED call \/ (\E o : Conclude(p, o)) \/ (\E n : Succeed(p, n))
               \/ ReadBase(p) \/ Recognise(p) \/ CreateCommit(p) \/ Audit(p) \/ AuditFails(p)
            BY <2>2
               DEF Step, Trouble, Collide, Stale, BranchExists, FindPull, FindNone,
                   PullExists, Fail, CreateBranch, CreateBranchLost, OpenPull, OpenPullLost
        <3> QED
            BY <3>3, <3>4, <3>5, <3>6, <3>7, <3>8, <3>9, <3>10
    <2>3. ASSUME NEW q \in Callers, Step(q) \/ Trouble(q) \/ \E r \in Request : Arrive(q, r),
                 q # p
          PROVE  pc[p] = pc'[p] /\ call'[p] = call[p]
        BY <2>0, <2>3
           DEF Step, Trouble, ReadBase, Recognise, Collide, Stale, CreateCommit,
               CreateBranch, BranchExists, OpenPull, PullExists, FindPull, FindNone,
               Audit, CreateBranchLost, OpenPullLost, Fail, AuditFails, Arrive, Goto,
               Conclude, Succeed
    <2>4. ASSUME NEW r \in Request, Arrive(p, r)
          PROVE  call'[p].head.id = 0
        BY <2>0, <2>4 DEF Arrive, NoCommit
    <2>5. CASE UNCHANGED vars \/ Maintainers
        BY <2>1, <2>5 DEF vars, Maintainers, AdvanceMaster, Close, Merge, Push, Delete
    <2>6. CASE Restart
        BY <1>5, <2>6 DEF Restart
    <2> QED
        BY <2>1, <2>2, <2>3, <2>4, <2>5, <2>6 DEF Next
<1>6. {c.id : c \in landed' \cup UNION {CommitsOf(b)' : b \in Branches}}
          \subseteq Used \cup {0, NewId}
    BY <1>2, <1>3
<1>7. {a.head.id : a \in told'} \subseteq Used
    BY <1>4
<1>8. {call'[p].head.id : p \in {p \in Callers : pc'[p] # "idle"}} \subseteq Used \cup {0, NewId}
    BY <1>5
<1> QED
    BY <1>6, <1>7, <1>8 DEF Used

\* A call moves by its own steps.
LEMMA Elsewhere ==
    ASSUME TypeOK, [Next]_vars, NEW p \in Callers
    PROVE  \/ pc'[p] = pc[p] /\ call'[p] = call[p]
           \/ Step(p) \/ Trouble(p)
           \/ pc'[p] \in {"idle", "base"}
<1>0. call \in [Callers -> Call \cup {NoCall}] /\ pc \in [Callers -> Labels]
    BY DEF TypeOK, Labels
<1>1. ASSUME NEW q \in Callers, Step(q) \/ Trouble(q) \/ \E r \in Request : Arrive(q, r),
             q # p
      PROVE  pc'[p] = pc[p] /\ call'[p] = call[p]
    BY <1>0, <1>1
       DEF Step, Trouble, ReadBase, Recognise, Collide, Stale, CreateCommit,
           CreateBranch, BranchExists, OpenPull, PullExists, FindPull, FindNone,
           Audit, CreateBranchLost, OpenPullLost, Fail, AuditFails, Arrive, Goto,
           Conclude, Succeed
<1>2. ASSUME NEW r \in Request, Arrive(p, r)
      PROVE  pc'[p] = "base"
    BY <1>0, <1>2 DEF Arrive, Goto
<1>3. CASE UNCHANGED vars \/ Maintainers
    BY <1>3 DEF vars, Maintainers, AdvanceMaster, Close, Merge, Push, Delete
<1>4. CASE Restart
    BY <1>4 DEF Restart
<1> QED
    BY <1>1, <1>2, <1>3, <1>4 DEF Next

\* Where a step of its own leads a call, and with what.
LEMMA OwnStep ==
    ASSUME TypeOK, Holding, [Next]_vars, NEW p \in Callers, Step(p) \/ Trouble(p)
    PROVE  /\ pc'[p] = "ref" =>
                 /\ call'[p].head.trailer = {call'[p].req.key}
                 /\ call'[p].head.expected \subseteq {call'[p].head.base}
           /\ pc'[p] \in {"pull", "find"} => Proposed(call[p])'
           /\ pc'[p] = "audit" /\ call'[p].outcome \in Success =>
                 /\ Proposed(call[p])'
                 /\ call'[p].pr \in DOMAIN prs'
                 /\ prs'[call'[p].pr].branch = call'[p].req.branch
<1> DEFINE Goal ==
        /\ pc'[p] = "ref" =>
              /\ call'[p].head.trailer = {call'[p].req.key}
              /\ call'[p].head.expected \subseteq {call'[p].head.base}
        /\ pc'[p] \in {"pull", "find"} => Proposed(call[p])'
        /\ pc'[p] = "audit" /\ call'[p].outcome \in Success =>
              /\ Proposed(call[p])'
              /\ call'[p].pr \in DOMAIN prs'
              /\ prs'[call'[p].pr].branch = call'[p].req.branch
<1>0. call \in [Callers -> Call \cup {NoCall}] /\ pc \in [Callers -> Labels]
    BY DEF TypeOK, Labels
<1>1. pc[p] # "idle"
    BY DEF Step, Trouble, ReadBase, Recognise, Collide, Stale, CreateCommit, CreateBranch,
           BranchExists, OpenPull, PullExists, FindPull, FindNone, Audit,
           CreateBranchLost, OpenPullLost, Fail, AuditFails
<1>2. call[p] \in Call /\ call[p].req.branch \in Branches
    BY <1>1 DEF TypeOK, Call, Request
<1>3. CASE Conclude(p, "failed") \/ Conclude(p, "conflict")
    BY <1>0, <1>2, <1>3 DEF Conclude, Goto, Success, Call
<1>4. CASE ReadBase(p) \/ Audit(p) \/ AuditFails(p)
    BY <1>0, <1>4 DEF ReadBase, Audit, AuditFails, Goto
<1>5. CASE Recognise(p)
    <2>1. pc'[p] = "pull" /\ UNCHANGED github
        BY <1>0, <1>5 DEF Recognise, Goto
    <2>2. /\ call'[p].head = Tip(call[p].req.branch)
          /\ call'[p].req = call[p].req
        BY <1>0, <1>2, <1>5 DEF Recognise, Call
    <2>3. /\ Tip(call[p].req.branch) \in CommitsOf(call[p].req.branch)
          /\ Tip(call[p].req.branch).trailer = {call[p].req.key}
        BY <1>2, <1>5, CommitsType DEF Recognise, Recognised
    <2>4. Proposed(call[p])'
        BY <2>1, <2>2, <2>3 DEF Proposed, CommitsOf, github
    <2> QED
        BY <2>1, <2>4
<1>6. CASE CreateCommit(p)
    <2>1. pc'[p] = "ref"
        BY <1>0, <1>6 DEF CreateCommit, Goto
    <2>2. /\ call'[p].head = NewCommit(p, call[p].base)
          /\ call'[p].req = call[p].req
        BY <1>0, <1>2, <1>6 DEF CreateCommit, Call
    <2>3. call[p].req.expected \subseteq {call[p].base}
        BY <1>6 DEF CreateCommit
    <2> QED
        BY <2>1, <2>2, <2>3 DEF NewCommit
<1>7. CASE CreateBranch(p)
    <2>1. pc[p] = "ref" /\ pc'[p] = "pull" /\ call' = call /\ Branch(p)
        BY <1>0, <1>7 DEF CreateBranch, Goto
    <2>2. branches'[call[p].req.branch] = <<call[p].head>>
        BY <1>2, <2>1 DEF Branch, TypeOK
    <2>3. call[p].head \in CommitsOf(call[p].req.branch)'
        BY <2>1, <2>2 DEF CommitsOf
    <2>4. call[p].head.trailer = {call[p].req.key}
        BY <2>1 DEF Holding
    <2>5. Proposed(call[p])'
        BY <2>1, <2>3, <2>4 DEF Proposed
    <2> QED
        BY <2>1, <2>5
<1>8. CASE PullExists(p)
    <2>1. pc[p] = "pull" /\ pc'[p] = "find" /\ UNCHANGED <<call, github>>
        BY <1>0, <1>8 DEF PullExists, Goto
    <2>2. Proposed(call[p])
        BY <2>1 DEF Holding
    <2>3. Proposed(call[p])'
        BY <2>1, <2>2 DEF Proposed, CommitsOf, github
    <2> QED
        BY <2>1, <2>3
<1>9. ASSUME NEW n \in Nat, Succeed(p, n), pc[p] \in {"pull", "find"}
      PROVE  /\ pc'[p] = "audit" /\ call'[p].pr = n /\ call'[p].req = call[p].req
             /\ Proposed(call[p])'
    <2>1. /\ pc'[p] = "audit" /\ call'[p].pr = n
          /\ call'[p].req = call[p].req /\ call'[p].head = call[p].head
        BY <1>0, <1>2, <1>9 DEF Succeed, Goto, Call
    <2>2. Proposed(call[p])
        BY <1>9 DEF Holding
    <2>3. PICK b, h, k :
              /\ b \in Branches /\ b = call[p].req.branch
              /\ h = call[p].head /\ k = call[p].req.key
        BY <1>2
    <2>4. h.trailer = {k} /\ (b \in dropped' \/ h \in CommitsOf(b)')
        BY <2>2, <2>3, Monotone DEF Proposed
    <2> QED
        BY <2>1, <2>3, <2>4 DEF Proposed
<1>10. prs \in Seq(PR) /\ Len(prs) \in Nat /\ DOMAIN prs = 1..Len(prs)
    BY LenProperties DEF TypeOK
<1>11. CASE OpenPull(p)
    <2>1. pc[p] = "pull" /\ Succeed(p, Len(prs) + 1) /\ Len(prs) + 1 \in Nat
        BY <1>10, <1>11 DEF OpenPull
    <2>2. prs' = Append(prs, [branch |-> call[p].req.branch, state |-> "open"])
        BY <1>11 DEF OpenPull, Open
    <2>3. /\ Len(prs) + 1 \in DOMAIN prs'
          /\ prs'[Len(prs) + 1].branch = call[p].req.branch
        BY <1>10, <2>2
    <2> QED
        BY <1>9, <2>1, <2>3
<1>12. CASE FindPull(p)
    <2>1. PICK n \in OpenOn(call[p].req.branch) : Succeed(p, n)
        BY <1>12 DEF FindPull
    <2>2. n \in DOMAIN prs /\ prs[n].branch = call[p].req.branch /\ n \in Nat
        BY <1>10, <2>1 DEF OpenOn
    <2>3. pc[p] = "find" /\ UNCHANGED prs
        BY <1>12 DEF FindPull, github
    <2> QED
        BY <1>9, <2>1, <2>2, <2>3
<1> QED
    BY <1>3, <1>4, <1>5, <1>6, <1>7, <1>8, <1>11, <1>12
       DEF Step, Trouble, Collide, Stale, BranchExists, FindNone, Fail, CreateBranchLost,
           OpenPullLost

LEMMA BoundedStep ==
    ASSUME TypeOK, Bounded, [Next]_vars
    PROVE  Bounded'
<1>1. PICK m \in Nat : \A i \in Used : i <= m
    BY DEF Bounded
<1>2. NewId \in Nat /\ Used \subseteq Nat
    BY UsedIsNat, NewIdIsNew
<1> DEFINE k == IF NewId <= m THEN m ELSE NewId
<1>3. k \in Nat /\ \A i \in Used \cup {0, NewId} : i <= k
    BY <1>1, <1>2
<1> HIDE DEF k
<1>4. \A i \in Used' : i <= k
    BY <1>3, UsedStep
<1> QED
    BY <1>3, <1>4 DEF Bounded

LEMMA HoldingStep ==
    ASSUME TypeOK, Holding, [Next]_vars
    PROVE  Holding'
<1> SUFFICES ASSUME NEW p \in Callers
             PROVE  /\ pc'[p] = "ref" =>
                          /\ call'[p].head.trailer = {call'[p].req.key}
                          /\ call'[p].head.expected \subseteq {call'[p].head.base}
                    /\ pc'[p] \in {"pull", "find"} => Proposed(call[p])'
                    /\ pc'[p] = "audit" /\ call'[p].outcome \in Success =>
                          /\ Proposed(call[p])'
                          /\ call'[p].pr \in DOMAIN prs'
                          /\ prs'[call'[p].pr].branch = call'[p].req.branch
    BY DEF Holding
<1>1. CASE Step(p) \/ Trouble(p)
    BY <1>1, OwnStep
<1>2. CASE pc'[p] \in {"idle", "base"}
    BY <1>2
<1>3. CASE pc'[p] = pc[p] /\ call'[p] = call[p]
    <2>1. CASE pc[p] = "idle"
        BY <1>3, <2>1
    <2>2. CASE pc[p] # "idle"
        <3>1. call[p].req.branch \in Branches
            BY <2>2 DEF TypeOK, Call, Request
        <3>2. PICK b, h, k, n :
                  /\ b \in Branches /\ b = call[p].req.branch /\ h = call[p].head /\ k = call[p].req.key
                  /\ n = call[p].pr
            BY <3>1
        <3>3. Proposed(call[p]) => h.trailer = {k} /\ (b \in dropped' \/ h \in CommitsOf(b)')
            BY <3>2, Monotone DEF Proposed
        <3>4. Proposed(call[p]) => Proposed(call[p])'
            BY <1>3, <3>2, <3>3 DEF Proposed
        <3>5. n \in DOMAIN prs /\ prs[n].branch = b => n \in DOMAIN prs' /\ prs'[n].branch = b
            BY Monotone
        <3>6. pc[p] = "audit" /\ call[p].outcome \in Success =>
                  n \in DOMAIN prs /\ prs[n].branch = b
            BY <3>2 DEF Holding
        <3> QED
            BY <1>3, <3>2, <3>4, <3>5, <3>6 DEF Holding
    <2> QED
        BY <2>1, <2>2
<1> QED
    BY <1>1, <1>2, <1>3, Elsewhere

LEMMA ToldStep ==
    ASSUME TypeOK, Holding, ToldWorkIsProposed, [Next]_vars
    PROVE  ToldWorkIsProposed'
<1> SUFFICES ASSUME NEW a \in told', a.outcome \in Success
             PROVE  /\ a.head.trailer = {a.key}
                    /\ a.pr \in DOMAIN prs' /\ prs'[a.pr].branch = a.branch
                    /\ a.branch \in dropped' \/ a.head \in CommitsOf(a.branch)'
    BY DEF ToldWorkIsProposed, Results
<1>1. /\ a.head.trailer = {a.key}
      /\ a.pr \in DOMAIN prs /\ prs[a.pr].branch = a.branch
      /\ a.branch \in dropped \/ a.head \in CommitsOf(a.branch)
      /\ a.branch \in Branches
    <2>1. CASE a \in told
        BY <2>1 DEF ToldWorkIsProposed, Results, TypeOK, Answer
    <2>2. CASE a \notin told
        <3>1. PICK p \in Callers :
                  /\ pc[p] = "audit"
                  /\ a = [branch |-> call[p].req.branch, key |-> call[p].req.key,
                          head |-> call[p].head, pr |-> call[p].pr,
                          outcome |-> call[p].outcome]
            BY <2>2, ToldBy
        <3>2. call[p].req.branch \in Branches
            BY <3>1 DEF TypeOK, Call, Request
        <3> QED
            BY <3>1, <3>2 DEF Holding, Proposed
    <2> QED
        BY <2>1, <2>2
<1> QED
    BY <1>1, Monotone

LEMMA BaseStep ==
    ASSUME TypeOK, Bounded, Holding, ExpectedBaseHonoured, [Next]_vars
    PROVE  ExpectedBaseHonoured'
<1> SUFFICES ASSUME NEW b \in Branches, NEW c \in CommitsOf(b)'
             PROVE  c.expected \subseteq {c.base}
    BY DEF ExpectedBaseHonoured
<1>1. [NoCommit EXCEPT !.id = NewId].expected = {}
    BY DEF NoCommit
<1>2. CASE c \in CommitsOf(b)
    BY <1>2 DEF ExpectedBaseHonoured
<1>3. ASSUME NEW p \in Callers, pc[p] = "ref", c = call[p].head
      PROVE  c.expected \subseteq {c.base}
    BY <1>3 DEF Holding
<1>4. CASE c = [NoCommit EXCEPT !.id = NewId]
    BY <1>1, <1>4
<1> QED
    BY <1>2, <1>3, <1>4, Arrivals

LEMMA InitIInv == Init => IInv
<1> SUFFICES ASSUME Init PROVE IInv
    OBVIOUS
<1>1. /\ <<>> \in Seq(Commit) /\ <<>> \in Seq(PR)
      /\ \A b \in Branches : CommitsOf(b) = {}
    BY EmptySeq DEF Init, CommitsOf
<1>2. TypeOK
    BY <1>1, BoundsAssumption DEF Init, TypeOK, Bases
<1>3. Used = {}
    <2>1. UNION {CommitsOf(b) : b \in Branches} = {}
        BY <1>1
    <2>2. {p \in Callers : pc[p] # "idle"} = {}
        BY DEF Init
    <2> QED
        BY <2>1, <2>2 DEF Init, Used
<1>4. Bounded /\ MasterActs
    BY <1>3 DEF Init, Bounded, MasterActs
<1>5. Holding
    BY DEF Init, Holding
<1>6. ToldWorkIsProposed /\ ExpectedBaseHonoured
    BY <1>1 DEF Init, ToldWorkIsProposed, Results, ExpectedBaseHonoured
<1> QED
    BY <1>2, <1>4, <1>5, <1>6 DEF IInv

LEMMA Inductive == IInv /\ [Next]_vars => IInv'
BY TypeStep, BoundedStep, HoldingStep, ToldStep, BaseStep DEF IInv

------------------------------------------------------------------------------
(***************************************************************************)
(* Theorems.                                                               *)
(***************************************************************************)

\* What the calls of open_pr maintain between any two requests.
THEOREM Invariance == Spec => []IInv
BY InitIInv, Inductive, PTL DEF Spec

\* GitHub's branches and pull requests and the calls of OpenPrService.open_pr stay
\* well-formed.
THEOREM PrTypeCorrect == Spec => []TypeOK
<1>1. IInv => TypeOK
    BY DEF IInv
<1> QED
    BY <1>1, Invariance, PTL

\* A result that open_pr returns names work of the caller that is proposed.
THEOREM ToldIsProposed == Spec => []ToldWorkIsProposed
<1>1. IInv => ToldWorkIsProposed
    BY DEF IInv
<1> QED
    BY <1>1, Invariance, PTL

\* What open_pr commits for an expected_base_sha has that base, however often master
\* moves meanwhile.
THEOREM BaseHonoured == Spec => []ExpectedBaseHonoured
<1>1. IInv => ExpectedBaseHonoured
    BY DEF IInv
<1> QED
    BY <1>1, Invariance, PTL

==============================================================================
