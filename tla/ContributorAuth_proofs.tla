----------------------- MODULE ContributorAuth_proofs -----------------------
(***************************************************************************)
(* Theorems about ContributorAuth for every set of users and callers and   *)
(* every pair of lifetimes, over unbounded time.                           *)
(*                                                                         *)
(* That an answer is not too old rests on how old a cache entry can be     *)
(* (EntriesRecent), which rests on GitHub's verdict being younger than the *)
(* request (VerdictsRecent), which needs the clock reading of the request  *)
(* to be in the past and the history variables to be up to date (Seeing).  *)
(***************************************************************************)
EXTENDS ContributorAuth, TLAPS

\* The history variables never run ahead, and are current for today's state.
Seeing ==
    \A u \in Users :
        /\ lastIn[u] <= clock + 1 /\ lastOut[u] <= clock + 1
        /\ u \in members => lastIn[u] = clock + 1
        /\ u \notin members => lastOut[u] = clock + 1

\* Requests were sent in the past, and verdicts given since.
VerdictsRecent ==
    \A p \in Callers :
        LET c == check[p] IN
        /\ pc[p] \in {"asking", "asked"} => c.now <= clock
        /\ pc[p] = "asked" =>
              /\ c.verdict = "allowed" => lastIn[c.user] > c.now
              /\ c.verdict = "denied" => lastOut[c.user] > c.now

\* A cache entry expires within a lifetime of the moment its verdict was true.
EntriesRecent ==
    \A u \in Users :
        /\ cache[u].state = "allowed" => lastIn[u] + PositiveTTL > cache[u].expires
        /\ cache[u].state = "denied" => lastOut[u] + NegativeTTL > cache[u].expires

IInv ==
    /\ TypeOK /\ Seeing /\ VerdictsRecent /\ EntriesRecent
    /\ RevocationBounded /\ DenialBounded

\* The history variables only grow.
LEMMA SeenGrows ==
    ASSUME NEW last \in [Users -> Nat], NEW who \in SUBSET Users, NEW now \in Nat,
           \A u \in Users : last[u] <= now + 1
    PROVE  /\ Seen(last, who, now) \in [Users -> Nat]
           /\ \A u \in Users : /\ Seen(last, who, now)[u] >= last[u]
                               /\ Seen(last, who, now)[u] <= now + 1
                               /\ u \in who => Seen(last, who, now)[u] = now + 1
  BY DEF Seen

\* A step of the world only makes the histories grow, and changes nothing of
\* the gateway's.
LEMMA WorldStep ==
    ASSUME IInv,
           clock' \in Nat, clock' >= clock,
           lastIn' \in [Users -> Nat], lastOut' \in [Users -> Nat],
           members' \subseteq Users,
           \A u \in Users : lastIn'[u] >= lastIn[u] /\ lastOut'[u] >= lastOut[u],
           Seeing',
           UNCHANGED <<cache, lock, pc, check, answer>>
    PROVE  IInv'
<1>1. TypeOK'
  BY DEF IInv, TypeOK
<1>2. VerdictsRecent'
  BY DEF IInv, TypeOK, VerdictsRecent, Check
<1>3. EntriesRecent'
  <2> SUFFICES ASSUME NEW u \in Users
               PROVE  /\ cache[u].state = "allowed" =>
                            lastIn'[u] + PositiveTTL > cache[u].expires
                      /\ cache[u].state = "denied" =>
                            lastOut'[u] + NegativeTTL > cache[u].expires
    BY DEF EntriesRecent
  <2>1. cache[u].expires \in Nat
    BY DEF IInv, TypeOK, CacheEntry, Absent
  <2> QED
    BY <2>1, TTLAssumption DEF IInv, TypeOK, EntriesRecent
<1>4. RevocationBounded' /\ DenialBounded'
  <2>1. answer.state \in {"allowed", "denied"} =>
          answer.user \in Users /\ answer.at \in Nat /\ answer.asked \in Nat
    BY DEF IInv, TypeOK, Answer, NoAnswer
  <2> QED
    BY <2>1, TTLAssumption DEF IInv, TypeOK, RevocationBounded, DenialBounded
<1> QED
  BY <1>1, <1>2, <1>3, <1>4 DEF IInv

LEMMA InvInit == Init => IInv
<1> SUFFICES ASSUME Init PROVE IInv
  OBVIOUS
<1>1. TypeOK /\ Seeing
  BY DEF Init, TypeOK, Seeing, Seen
<1>2. VerdictsRecent /\ EntriesRecent /\ RevocationBounded /\ DenialBounded
  BY DEF Init, VerdictsRecent, EntriesRecent, RevocationBounded, DenialBounded,
         Absent, NoAnswer
<1> QED
  BY <1>1, <1>2 DEF IInv

LEMMA InvStep == IInv /\ [Next]_vars => IInv'
<1> SUFFICES ASSUME IInv, [Next]_vars PROVE IInv'
  OBVIOUS
<1> USE DEF world
<1>0. /\ clock \in Nat /\ members \in SUBSET Users /\ Users \ members \in SUBSET Users
      /\ lastIn \in [Users -> Nat] /\ lastOut \in [Users -> Nat]
      /\ \A u \in Users : lastIn[u] <= clock + 1 /\ lastOut[u] <= clock + 1
  BY DEF IInv, TypeOK, Seeing
<1>1. CASE Tick
  <2>1. /\ clock' = clock + 1 /\ clock' \in Nat /\ clock' >= clock
        /\ members' = members /\ members' \subseteq Users
        /\ UNCHANGED <<cache, lock, pc, check, answer>>
    BY <1>0, <1>1 DEF Tick
  <2>2. \A u \in Users : lastIn[u] <= clock' + 1 /\ lastOut[u] <= clock' + 1
    BY <1>0, <2>1
  <2>3. /\ lastIn' \in [Users -> Nat]
        /\ \A u \in Users : /\ lastIn'[u] >= lastIn[u] /\ lastIn'[u] <= clock' + 1
                            /\ u \in members => lastIn'[u] = clock' + 1
    <3>1. lastIn' = Seen(lastIn, members, clock')
      BY <1>1 DEF Tick
    <3> QED
      BY <1>0, <2>1, <2>2, <3>1, SeenGrows
  <2>4. /\ lastOut' \in [Users -> Nat]
        /\ \A u \in Users :
              /\ lastOut'[u] >= lastOut[u] /\ lastOut'[u] <= clock' + 1
              /\ u \in Users \ members => lastOut'[u] = clock' + 1
    <3>1. lastOut' = Seen(lastOut, Users \ members, clock')
      BY <1>1 DEF Tick
    <3>2. \A u \in Users : lastOut[u] <= clock' + 1
      BY <2>2
    <3> QED
      BY <1>0, <2>1, <3>1, <3>2 DEF Seen
  <2>5. Seeing'
    BY <2>1, <2>3, <2>4 DEF Seeing
  <2> QED
    BY <2>1, <2>3, <2>4, <2>5, WorldStep
<1>2. ASSUME NEW u \in Users, Enrol(u) PROVE IInv'
  <2>1. /\ clock' = clock /\ lastOut' = lastOut /\ members' = members \cup {u}
        /\ members' \in SUBSET Users
        /\ UNCHANGED <<cache, lock, pc, check, answer>>
    BY <1>0, <1>2 DEF Enrol
  <2>2. /\ lastIn' \in [Users -> Nat]
        /\ \A v \in Users : /\ lastIn'[v] >= lastIn[v] /\ lastIn'[v] <= clock + 1
                            /\ v \in members' => lastIn'[v] = clock + 1
    <3>1. lastIn' = Seen(lastIn, members', clock)
      BY <1>2 DEF Enrol
    <3> QED
      BY <1>0, <2>1, <3>1, SeenGrows
  <2>3. Seeing'
    BY <2>1, <2>2 DEF Seeing, IInv
  <2>4. /\ clock' \in Nat /\ clock' >= clock /\ lastOut' \in [Users -> Nat]
        /\ \A v \in Users : lastOut'[v] >= lastOut[v]
    BY <1>0, <2>1
  <2> QED
    BY <2>1, <2>2, <2>3, <2>4, WorldStep
<1>3. ASSUME NEW u \in Users, Revoke(u) PROVE IInv'
  <2>1. /\ clock' = clock /\ lastIn' = lastIn /\ members' = members \ {u}
        /\ members' \subseteq Users /\ Users \ members' \in SUBSET Users
        /\ UNCHANGED <<cache, lock, pc, check, answer>>
    BY <1>0, <1>3 DEF Revoke
  <2>2. /\ lastOut' \in [Users -> Nat]
        /\ \A v \in Users :
              /\ lastOut'[v] >= lastOut[v] /\ lastOut'[v] <= clock + 1
              /\ v \in Users \ members' => lastOut'[v] = clock + 1
    <3>1. lastOut' = Seen(lastOut, Users \ members', clock)
      BY <1>3 DEF Revoke
    <3> QED
      BY <1>0, <2>1, <3>1, SeenGrows
  <2>3. Seeing'
    BY <2>1, <2>2 DEF Seeing, IInv
  <2>4. /\ clock' \in Nat /\ clock' >= clock /\ lastIn' \in [Users -> Nat]
        /\ \A v \in Users : lastIn'[v] >= lastIn[v]
    BY <1>0, <2>1
  <2> QED
    BY <2>1, <2>2, <2>3, <2>4, WorldStep
<1>4. ASSUME NEW p \in Callers, NEW u \in Users, NEW cached \in BOOLEAN,
             Arrive(p, u, cached)
      PROVE  IInv'
  <2>1. TypeOK'
    <3> DEFINE c == [user |-> u, cached |-> cached, now |-> 0, verdict |-> "denied"]
    <3>1. c \in Check
      BY DEF Check, Verdicts
    <3>2. check' = [check EXCEPT ![p] = c] /\ pc' = [pc EXCEPT ![p] = "waiting"]
      BY <1>4 DEF Arrive
    <3>3. check' \in [Callers -> Check \cup {NoCheck}] /\ check'[p] \in Check
      BY <3>1, <3>2 DEF IInv, TypeOK
    <3> HIDE DEF c
    <3>4. \A q \in Callers : pc'[q] # "idle" => check'[q] \in Check
      BY <3>2, <3>3 DEF IInv, TypeOK
    <3> QED
      BY <1>4, <3>3, <3>4 DEF Arrive, IInv, TypeOK
  <2>2. VerdictsRecent'
    BY <1>4 DEF Arrive, IInv, TypeOK, VerdictsRecent
  <2> QED
    BY <1>4, <2>1, <2>2
       DEF Arrive, IInv, Seeing, EntriesRecent, RevocationBounded, DenialBounded
<1>5. ASSUME NEW p \in Callers, NEW u \in Users, Invalid(p, u) PROVE IInv'
  <2>1. TypeOK'
    BY <1>5 DEF Invalid, IInv, TypeOK, Answer
  <2> QED
    BY <1>5, <2>1 DEF Invalid, IInv, Seeing, VerdictsRecent, EntriesRecent,
                      RevocationBounded, DenialBounded
<1>6. ASSUME NEW p \in Callers, Hit(p) PROVE IInv'
  <2> DEFINE u == check[p].user
  <2>1. u \in Users /\ check[p].now \in Nat /\ cache[u] \in CacheEntry
    BY <1>6 DEF Hit, CanLock, Fresh, IInv, TypeOK, Check
  <2>2. TypeOK'
    BY <1>6, <2>1 DEF Hit, Told, Leave, IInv, TypeOK, Answer, CacheEntry
  <2>3. VerdictsRecent'
    BY <1>6 DEF Hit, Leave, IInv, TypeOK, VerdictsRecent
  <2>4. RevocationBounded' /\ DenialBounded'
    <3>1. /\ cache[u].expires > clock /\ cache[u].expires \in Nat /\ clock \in Nat
          /\ lastIn[u] \in Nat /\ lastOut[u] \in Nat
      BY <1>6, <2>1 DEF Hit, Fresh, CacheEntry, IInv, TypeOK
    <3>2. /\ answer' = [user |-> u, state |-> cache[u].state, at |-> clock,
                        from |-> "cache", asked |-> check[p].now]
          /\ UNCHANGED <<lastIn, lastOut>>
      BY <1>6 DEF Hit, Told
    <3> QED
      BY <2>1, <3>1, <3>2, TTLAssumption
         DEF IInv, EntriesRecent, RevocationBounded, DenialBounded
  <2> QED
    BY <1>6, <2>2, <2>3, <2>4 DEF Hit, IInv, Seeing, EntriesRecent
<1>7. ASSUME NEW p \in Callers, Ask(p) PROVE IInv'
  <2> DEFINE u == check[p].user
  <2>1. u \in Users /\ check[p] \in Check
    BY <1>7 DEF Ask, CanLock, IInv, TypeOK, Check
  <2>2. TypeOK'
    BY <1>7, <2>1 DEF Ask, CanLock, IInv, TypeOK, Check
  <2>3. VerdictsRecent'
    BY <1>7, <2>1 DEF Ask, CanLock, IInv, TypeOK, VerdictsRecent, Check
  <2>4. EntriesRecent'
    BY <1>7, <2>1 DEF Ask, IInv, TypeOK, EntriesRecent, Absent
  <2> QED
    BY <1>7, <2>2, <2>3, <2>4
       DEF Ask, IInv, Seeing, RevocationBounded, DenialBounded
<1>8. ASSUME NEW p \in Callers, Decide(p) PROVE IInv'
  <2>1. check[p] \in Check /\ check[p].now <= clock /\ check[p].now \in Nat
    BY <1>8 DEF Decide, IInv, TypeOK, VerdictsRecent, Check
  <2>2. TypeOK'
    BY <1>8, <2>1 DEF Decide, IInv, TypeOK, Check, Verdicts
  <2>3. VerdictsRecent'
    <3>1. check[p].user \in Users /\ clock \in Nat
      BY <2>1 DEF Check, IInv, TypeOK
    <3>2. /\ check[p].user \in members => lastIn[check[p].user] > check[p].now
          /\ check[p].user \notin members => lastOut[check[p].user] > check[p].now
      BY <2>1, <3>1 DEF IInv, Seeing
    <3> QED
      BY <1>8, <2>1, <3>2 DEF Decide, IInv, TypeOK, VerdictsRecent, Check
  <2> QED
    BY <1>8, <2>2, <2>3
       DEF Decide, IInv, Seeing, EntriesRecent, RevocationBounded, DenialBounded
<1>9. ASSUME NEW p \in Callers, Learn(p) PROVE IInv'
  <2> DEFINE c == check[p]
  <2>1. /\ c \in Check /\ c.user \in Users /\ c.now \in Nat /\ c.verdict \in Verdicts
        /\ c.verdict = "allowed" => lastIn[c.user] > c.now
        /\ c.verdict = "denied" => lastOut[c.user] > c.now
    BY <1>9 DEF Learn, IInv, TypeOK, VerdictsRecent, Check
  <2>2. TypeOK'
    <3>1. c.now + TTL(c.verdict) \in Nat
      BY <2>1, TTLAssumption DEF TTL
    <3>2. cache' \in [Users -> CacheEntry \cup {Absent}]
      BY <1>9, <2>1, <3>1 DEF Learn, IInv, TypeOK, CacheEntry
    <3>3. answer' \in Answer
      BY <1>9, <2>1 DEF Learn, Told, Answer, IInv, TypeOK
    <3> QED
      BY <1>9, <3>2, <3>3 DEF Learn, Leave, IInv, TypeOK
  <2>3. VerdictsRecent'
    BY <1>9 DEF Learn, Leave, IInv, TypeOK, VerdictsRecent
  <2>4. EntriesRecent'
    <3> SUFFICES ASSUME NEW u \in Users
                 PROVE  /\ cache'[u].state = "allowed" =>
                              lastIn[u] + PositiveTTL > cache'[u].expires
                        /\ cache'[u].state = "denied" =>
                              lastOut[u] + NegativeTTL > cache'[u].expires
      BY <1>9 DEF Learn, EntriesRecent
    <3>1. CASE u = c.user /\ c.cached
      <4>1. cache'[u] = [state |-> c.verdict, expires |-> c.now + TTL(c.verdict)]
        BY <1>9, <3>1 DEF Learn, IInv, TypeOK
      <4>2. lastIn[u] \in Nat /\ lastOut[u] \in Nat
        BY DEF IInv, TypeOK
      <4> QED
        BY <2>1, <3>1, <4>1, <4>2, TTLAssumption DEF TTL
    <3>2. CASE ~(u = c.user /\ c.cached)
      BY <1>9, <3>2 DEF Learn, IInv, TypeOK, EntriesRecent
    <3> QED
      BY <3>1, <3>2
  <2>5. RevocationBounded' /\ DenialBounded'
    BY <1>9, <2>1 DEF Learn, Told, RevocationBounded, DenialBounded
  <2> QED
    BY <1>9, <2>2, <2>3, <2>4, <2>5 DEF Learn, IInv, Seeing
<1>10. ASSUME NEW p \in Callers, Fail(p) PROVE IInv'
  <2>1. check[p].user \in Users /\ check[p].now \in Nat
    BY <1>10 DEF Fail, IInv, TypeOK, Check
  <2>2. TypeOK'
    BY <1>10, <2>1 DEF Fail, Told, Leave, IInv, TypeOK, Answer
  <2>3. VerdictsRecent'
    BY <1>10 DEF Fail, Leave, IInv, TypeOK, VerdictsRecent
  <2> QED
    BY <1>10, <2>2, <2>3
       DEF Fail, Told, IInv, Seeing, EntriesRecent, RevocationBounded, DenialBounded
<1>11. ASSUME NEW p \in Callers, Cancel(p) PROVE IInv'
  <2>1. TypeOK'
    BY <1>11 DEF Cancel, Leave, IInv, TypeOK
  <2>2. VerdictsRecent'
    BY <1>11 DEF Cancel, Leave, IInv, TypeOK, VerdictsRecent
  <2> QED
    BY <1>11, <2>1, <2>2
       DEF Cancel, IInv, Seeing, EntriesRecent, RevocationBounded, DenialBounded
<1>12. CASE Restart
  <2>1. TypeOK'
    BY <1>12 DEF Restart, IInv, TypeOK
  <2>2. VerdictsRecent' /\ EntriesRecent'
    BY <1>12 DEF Restart, IInv, TypeOK, VerdictsRecent, EntriesRecent, Absent
  <2> QED
    BY <1>12, <2>1, <2>2
       DEF Restart, IInv, Seeing, RevocationBounded, DenialBounded
<1>13. CASE UNCHANGED vars
  BY <1>13 DEF vars, IInv, TypeOK, Seeing, VerdictsRecent, EntriesRecent,
               RevocationBounded, DenialBounded
<1> QED
  BY <1>1, <1>2, <1>3, <1>4, <1>5, <1>6, <1>7, <1>8, <1>9, <1>10, <1>11, <1>12,
     <1>13 DEF Next, Begin

LEMMA Invariance == Spec => []IInv
  BY InvInit, InvStep, PTL DEF Spec

\* Nobody is told "allowed" more than a positive lifetime after revocation, for
\* any lifetimes, any delay of GitHub's answers and any queue at the lock.
THEOREM Revocation == Spec => []RevocationBounded
<1>1. IInv => RevocationBounded
  BY DEF IInv
<1> QED
  BY <1>1, Invariance, PTL

\* Nobody is told "denied" more than a negative lifetime after being enrolled.
THEOREM Denial == Spec => []DenialBounded
<1>1. IInv => DenialBounded
  BY DEF IInv
<1> QED
  BY <1>1, Invariance, PTL

\* The types of ContributorAuth: only GitHub's own verdicts are ever cached.
THEOREM AuthTypeCorrect == Spec => []TypeOK
<1>1. IInv => TypeOK
  BY DEF IInv
<1> QED
  BY <1>1, Invariance, PTL

==============================================================================
