------------------------- MODULE DeviceOAuth_proofs -------------------------
(***************************************************************************)
(* Theorems about DeviceOAuth for every number of clients, forms, token    *)
(* requests and attempts, and every lifetime.                              *)
(*                                                                         *)
(* An enrollment is first a transaction, then a code, then a grant, and at *)
(* each instant at most one of them (Enrollment); codes and transactions   *)
(* are of clients that were told (Holders), which the registry keeps.      *)
(***************************************************************************)
EXTENDS DeviceOAuth, FiniteSetTheorems, TLAPS

\* Where each enrollment is: not begun, pending, a code, or granted.
Enrollment ==
    /\ \A t \in TxnIds :
          /\ t > opened => /\ txns[t] = NoTxn
                           /\ wrong[t] = 0 /\ approved[t] = 0 /\ granted[t] = 0
          /\ txns[t] # NoTxn => /\ txns[t] \in Txn
                                /\ wrong[t] = txns[t].attempts
                                /\ wrong[t] < MaxAttempts
                                /\ approved[t] = 0
          /\ approved[t] = 0 => wrong[t] <= MaxAttempts
          /\ wrong[t] + approved[t] <= MaxAttempts
          /\ granted[t] <= approved[t] /\ approved[t] <= 1
    /\ \A c \in codes : approved[c.txn] = 1 /\ granted[c.txn] = 0
    /\ \A c, d \in codes : c.txn = d.txn => c = d

\* Who may hold what: only clients that were told of their registration.
Holders ==
    /\ \A t \in TxnIds : txns[t] # NoTxn => txns[t].client \in told
    /\ \A c \in codes : c.client \in told
    /\ \A c \in Clients : refresh[c] > 0 => c \in told

\* The registry in memory, which the file follows.
Registered ==
    /\ told \subseteq disk /\ disk \subseteq memory
    /\ IsFiniteSet(memory) /\ Cardinality(memory) <= MaxClients

IInv == TypeOK /\ Enrollment /\ Holders /\ Registered

------------------------------------------------------------------------------

\* One more client fits.
LEMMA OneMore ==
    ASSUME TypeOK, Registered, NEW c \in Clients, Registrable(c)
    PROVE  /\ IsFiniteSet(memory \cup {c})
           /\ Cardinality(memory \cup {c}) <= MaxClients
<1>1. /\ IsFiniteSet(memory \cup {c})
      /\ Cardinality(memory \cup {c}) = Cardinality(memory) + 1
  BY FS_AddElement DEF Registered, Registrable
<1>2. Cardinality(memory) \in Nat /\ MaxClients \in Nat
  BY FS_CardinalityType, BoundsAssumption DEF Registered
<1> QED
  BY <1>1, <1>2 DEF Registrable

\* Pruning takes transactions and codes away and changes none that stay.
LEMMA Prune ==
    ASSUME TypeOK
    PROVE  /\ LiveTxns \in [TxnIds -> Txn \cup {NoTxn}]
           /\ \A t \in TxnIds : LiveTxns[t] \in {txns[t], NoTxn}
           /\ LiveCodes \subseteq codes
BY DEF LiveTxns, LiveCodes, TypeOK

\* So do steps that only take some away.
LEMMA TakingAway ==
    ASSUME IInv,
           txns' \in [TxnIds -> Txn \cup {NoTxn}],
           \A t \in TxnIds : txns'[t] \in {txns[t], NoTxn},
           codes' \subseteq codes,
           loaded' \in [Requests -> SUBSET Code],
           asleep' \in [Forms -> 0..MaxTxns],
           mishaps' \in 0..MaxMishaps,
           UNCHANGED <<clock, disk, told, opened, refresh, wrong, approved, granted>>,
           memory' = memory \/ memory' = disk
    PROVE  IInv'
<1> USE DEF IInv
<1>1. TypeOK'
  BY DEF TypeOK
<1>2. Enrollment'
  BY DEF Enrollment
<1>3. Holders'
  BY DEF Holders
<1>4. Registered'
  <2>1. CASE memory' = memory
    BY <2>1 DEF Registered
  <2>2. CASE memory' = disk
    <3>1. IsFiniteSet(disk) /\ Cardinality(disk) <= Cardinality(memory)
      BY FS_Subset DEF Registered
    <3>2. Cardinality(disk) \in Nat /\ Cardinality(memory) \in Nat /\ MaxClients \in Nat
      BY <3>1, FS_CardinalityType, BoundsAssumption DEF Registered
    <3> QED
      BY <2>2, <3>1, <3>2 DEF Registered
  <2> QED
    BY <2>1, <2>2
<1> QED
  BY <1>1, <1>2, <1>3, <1>4

LEMMA InitIInv == Init => IInv
<1> SUFFICES ASSUME Init PROVE IInv
  OBVIOUS
<1>1. TypeOK
  BY BoundsAssumption DEF Init, TypeOK, Zero, TxnIds
<1>2. Enrollment
  BY BoundsAssumption DEF Init, Enrollment, Zero, TxnIds
<1>3. Holders
  BY DEF Init, Holders
<1>4. Registered
  BY FS_EmptySet, BoundsAssumption DEF Init, Registered
<1> QED
  BY <1>1, <1>2, <1>3, <1>4 DEF IInv

LEMMA Inductive == IInv /\ [Next]_vars => IInv'
<1> SUFFICES ASSUME IInv, [Next]_vars PROVE IInv'
  OBVIOUS
<1> USE DEF IInv
<1>1. CASE Tick
  <2>1. TypeOK'
    BY <1>1 DEF Tick, TypeOK, registry, flow
  <2>2. Enrollment' /\ Holders' /\ Registered'
    BY <1>1 DEF Tick, Enrollment, Holders, Registered, registry, flow
  <2> QED
    BY <2>1, <2>2
<1>2. ASSUME NEW c \in Clients, Register(c) PROVE IInv'
  <2>1. TypeOK'
    BY <1>2 DEF Register, TypeOK, flow
  <2>2. Enrollment' /\ Holders'
    BY <1>2 DEF Register, Enrollment, Holders, flow
  <2>3. Registered'
    BY <1>2, OneMore DEF Register, Registered
  <2> QED
    BY <2>1, <2>2, <2>3
<1>3. ASSUME NEW c \in Clients, RegisterFails(c) PROVE IInv'
  <2>1. TypeOK'
    BY <1>3, BoundsAssumption DEF RegisterFails, Mishap, TypeOK, flow
  <2>2. Enrollment' /\ Holders'
    BY <1>3 DEF RegisterFails, Enrollment, Holders, flow
  <2>3. Registered'
    BY <1>3, OneMore DEF RegisterFails, Registered
  <2> QED
    BY <2>1, <2>2, <2>3
<1>4. ASSUME NEW c \in Clients, Authorize(c) PROVE IInv'
  <2> DEFINE new == [client |-> c, expires |-> clock + TxnTTL, attempts |-> 0]
  <2>1. opened + 1 \in TxnIds /\ opened \in Nat /\ opened' = opened + 1
    BY <1>4, BoundsAssumption DEF Authorize, TypeOK, TxnIds
  <2>2. new \in Txn
    BY BoundsAssumption DEF TypeOK, Txn
  <2>3. /\ txns'[opened + 1] = new /\ txns' \in [TxnIds -> Txn \cup {NoTxn}]
        /\ \A t \in TxnIds : t # opened + 1 => txns'[t] \in {txns[t], NoTxn}
    BY <1>4, <2>1, <2>2, Prune DEF Authorize
  <2>4. codes' \subseteq codes
    BY <1>4, Prune DEF Authorize
  <2>5. TypeOK'
    BY <1>4, <2>1, <2>2, <2>3, <2>4, BoundsAssumption DEF Authorize, TypeOK, registry
  <2>6. Enrollment'
    <3> DEFINE n == opened + 1
    <3>1. wrong[n] = 0 /\ approved[n] = 0 /\ granted[n] = 0
      BY <2>1 DEF Enrollment
    <3>2. /\ txns'[n] \in Txn /\ txns'[n].attempts = 0
          /\ MaxAttempts \in Nat /\ MaxAttempts > 0
      BY <2>2, <2>3, BoundsAssumption
    <3>3. \A t \in TxnIds : t > opened' => t > opened /\ t # n
      BY <2>1 DEF TxnIds
    <3>4. UNCHANGED <<wrong, approved, granted>>
      BY <1>4 DEF Authorize
    <3> HIDE DEF n, new
    <3> QED
      BY <2>3, <2>4, <3>1, <3>2, <3>3, <3>4 DEF Enrollment, n
  <2>7. Holders' /\ Registered'
    BY <1>4, <2>1, <2>3, <2>4 DEF Authorize, Holders, Registered, registry
  <2> QED
    BY <2>5, <2>6, <2>7
<1>5. ASSUME NEW t \in TxnIds, Lapse(t) PROVE IInv'
  BY <1>5, TakingAway DEF Lapse, Drop, TypeOK, registry
<1>6. ASSUME NEW f \in Forms, NEW t \in TxnIds, Reject(f, t) PROVE IInv'
  <2>0. /\ txns[t] # NoTxn /\ txns[t] \in Txn /\ txns[t].attempts \in Nat
        /\ wrong[t] = txns[t].attempts /\ wrong[t] < MaxAttempts /\ approved[t] = 0
        /\ t <= opened /\ opened \in Nat /\ MaxAttempts \in Nat
    BY <1>6, BoundsAssumption DEF Reject, Found, Enrollment, TypeOK, Txn, TxnIds
  <2>1. /\ wrong' \in [TxnIds -> Nat] /\ wrong'[t] = wrong[t] + 1
        /\ \A s \in TxnIds : s # t => wrong'[s] = wrong[s]
    BY <1>6 DEF Reject, TypeOK
  <2>2. /\ txns' \in [TxnIds -> Txn \cup {NoTxn}]
        /\ \A s \in TxnIds : s # t => txns'[s] = txns[s]
        /\ txns'[t] # NoTxn => /\ txns'[t].attempts = wrong[t] + 1
                               /\ txns'[t].client = txns[t].client
                               /\ wrong[t] + 1 < MaxAttempts
    <3>1. CASE txns[t].attempts + 1 >= MaxAttempts
      BY <1>6, <3>1 DEF Reject, Drop, TypeOK
    <3>2. CASE ~(txns[t].attempts + 1 >= MaxAttempts)
      <4>1. txns' = [txns EXCEPT ![t] = [txns[t] EXCEPT !.attempts = @ + 1]]
        BY <1>6, <3>2 DEF Reject
      <4>2. [txns[t] EXCEPT !.attempts = @ + 1] \in Txn
        BY <2>0 DEF Txn
      <4> QED
        BY <2>0, <3>2, <4>1, <4>2 DEF TypeOK, Txn
    <3> QED
      BY <3>1, <3>2
  <2>3. TypeOK'
    <3>1. asleep' \in [Forms -> 0..MaxTxns]
      <4>1. t \in 0..MaxTxns
        BY BoundsAssumption DEF TxnIds
      <4>2. asleep' = [asleep EXCEPT ![f] = t] /\ asleep \in [Forms -> 0..MaxTxns]
        BY <1>6 DEF Reject, TypeOK
      <4> QED
        BY <4>1, <4>2
    <3>2. ASSUME NEW s \in TxnIds, txns'[s] # NoTxn PROVE txns'[s].attempts < MaxAttempts
      <4>1. CASE s = t
        BY <2>2, <3>2, <4>1
      <4>2. CASE s # t
        BY <2>2, <3>2, <4>2 DEF TypeOK
      <4> QED
        BY <4>1, <4>2
    <3>3. UNCHANGED <<clock, memory, disk, told, opened, codes, loaded, refresh,
                      approved, granted, mishaps>>
      BY <1>6 DEF Reject, registry
    <3> QED
      BY <2>1, <2>2, <3>1, <3>2, <3>3 DEF TypeOK
  <2>4. Enrollment'
    <3>1. UNCHANGED <<opened, codes, approved, granted>>
      BY <1>6 DEF Reject
    <3> QED
      BY <2>0, <2>1, <2>2, <3>1 DEF Enrollment, TypeOK, TxnIds
  <2>5. Holders' /\ Registered'
    BY <1>6, <2>0, <2>2 DEF Reject, Holders, Registered, registry
  <2> QED
    BY <2>3, <2>4, <2>5
<1>7. ASSUME NEW f \in Forms, Wake(f) PROVE IInv'
  BY <1>7, TakingAway, BoundsAssumption DEF Wake, TypeOK, registry, flow
<1>8. ASSUME NEW t \in TxnIds, Approve(t) PROVE IInv'
  <2> DEFINE new == [txn |-> t, nth |-> approved[t], client |-> txns[t].client,
                     expires |-> clock + CodeTTL]
  <2>0. /\ txns[t] # NoTxn /\ txns[t] \in Txn /\ txns[t].client \in Clients
        /\ wrong[t] < MaxAttempts /\ approved[t] = 0 /\ granted[t] = 0
        /\ t <= opened /\ wrong[t] \in Nat /\ MaxAttempts \in Nat /\ opened \in Nat
    BY <1>8, BoundsAssumption DEF Approve, Found, Enrollment, TypeOK, Txn, TxnIds
  <2>1. new \in Code
    BY <2>0, BoundsAssumption DEF TypeOK, Code
  <2>2. /\ txns' \in [TxnIds -> Txn \cup {NoTxn}] /\ txns'[t] = NoTxn
        /\ \A s \in TxnIds : s # t => txns'[s] = txns[s]
        /\ codes' = codes \cup {new} /\ new.txn = t /\ new.client = txns[t].client
        /\ approved' \in [TxnIds -> Nat] /\ approved'[t] = 1
        /\ \A s \in TxnIds : s # t => approved'[s] = approved[s]
    BY <1>8, <2>0 DEF Approve, Drop, TypeOK
  <2>3. \A c \in codes : c.txn # t /\ c.txn \in TxnIds
    BY <2>0 DEF Enrollment, TypeOK, Code
  <2> HIDE DEF new
  <2>4. TypeOK'
    BY <1>8, <2>1, <2>2 DEF Approve, TypeOK, registry
  <2>5. Enrollment'
    BY <1>8, <2>0, <2>2, <2>3 DEF Approve, Enrollment, TypeOK, TxnIds
  <2>6. Holders' /\ Registered'
    BY <1>8, <2>0, <2>2 DEF Approve, Holders, Registered, registry
  <2> QED
    BY <2>4, <2>5, <2>6
<1>9. ASSUME NEW r \in Requests, NEW c \in codes, Load(r, c) PROVE IInv'
  BY <1>9, Prune, TakingAway, BoundsAssumption DEF Load, TypeOK, registry
<1>10. ASSUME NEW r \in Requests, NEW c \in loaded[r], Exchange(r, c) PROVE IInv'
  <2>0. /\ c \in codes /\ c.txn \in TxnIds /\ c.client \in Clients /\ c.client \in told
        /\ approved[c.txn] = 1 /\ granted[c.txn] = 0
    BY <1>10 DEF Exchange, Enrollment, Holders, TypeOK, Code
  <2>1. /\ granted' \in [TxnIds -> Nat] /\ granted'[c.txn] = 1
        /\ \A s \in TxnIds : s # c.txn => granted'[s] = granted[s]
        /\ codes' = codes \ {c}
    BY <1>10, <2>0 DEF Exchange, TypeOK
  <2>2. /\ refresh' \in [Clients -> Nat]
        /\ \A d \in Clients : d # c.client => refresh'[d] = refresh[d]
    BY <1>10, <2>0, BoundsAssumption DEF Exchange, Issue, TypeOK
  <2>3. TypeOK'
    BY <1>10, <2>1, <2>2 DEF Exchange, TypeOK, registry
  <2>4. Enrollment'
    <3>1. \A d \in codes' : d.txn \in TxnIds /\ d.txn # c.txn
      BY <2>0, <2>1 DEF Enrollment, TypeOK, Code
    <3>2. opened \in Nat /\ c.txn <= opened
      BY <2>0 DEF Enrollment, TypeOK, TxnIds
    <3> QED
      BY <1>10, <2>0, <2>1, <3>1, <3>2 DEF Exchange, Enrollment, TypeOK
  <2>5. Holders' /\ Registered'
    BY <1>10, <2>0, <2>1, <2>2 DEF Exchange, Holders, Registered, registry
  <2> QED
    BY <2>3, <2>4, <2>5
<1>11. ASSUME NEW r \in Requests, NEW c \in loaded[r], ExchangeFails(r, c) PROVE IInv'
  BY <1>11, TakingAway, BoundsAssumption DEF ExchangeFails, TypeOK, registry
<1>12. ASSUME NEW r \in Requests, NEW c \in loaded[r], ExchangeUsed(r, c) PROVE IInv'
  BY <1>12, TakingAway, BoundsAssumption DEF ExchangeUsed, TypeOK, registry
<1>13. CASE LoadNothing
  BY <1>13, Prune, TakingAway, BoundsAssumption DEF LoadNothing, TypeOK, registry
<1>14. ASSUME NEW c \in Clients, Refresh(c) PROVE IInv'
  <2>1. /\ refresh' \in [Clients -> Nat]
        /\ \A d \in Clients : d # c => refresh'[d] = refresh[d]
    BY <1>14, BoundsAssumption DEF Refresh, Issue, TypeOK
  <2>2. TypeOK'
    BY <1>14, <2>1 DEF Refresh, TypeOK, registry, flow
  <2>3. Enrollment' /\ Holders' /\ Registered'
    BY <1>14, <2>1 DEF Refresh, Enrollment, Holders, Registered, registry, flow
  <2> QED
    BY <2>2, <2>3
<1>15. CASE Restart
  <2>1. mishaps' \in 0..MaxMishaps /\ asleep' \in [Forms -> 0..MaxTxns]
    BY <1>15, BoundsAssumption DEF Restart, Mishap, TypeOK
  <2>2. /\ txns' \in [TxnIds -> Txn \cup {NoTxn}]
        /\ \A t \in TxnIds : txns'[t] \in {txns[t], NoTxn}
        /\ codes' \subseteq codes /\ loaded' \in [Requests -> SUBSET Code]
    BY <1>15 DEF Restart
  <2> QED
    BY <1>15, <2>1, <2>2, TakingAway DEF Restart
<1>16. CASE UNCHANGED vars
  BY <1>16, TakingAway DEF TypeOK, vars, registry, flow
<1> QED
  BY <1>1, <1>2, <1>3, <1>4, <1>5, <1>6, <1>7, <1>8, <1>9, <1>10, <1>11, <1>12,
     <1>13, <1>14, <1>15, <1>16 DEF Next

------------------------------------------------------------------------------

\* What the handlers of DeviceOAuthProvider maintain between any two awaits.
THEOREM Invariance == Spec => []IInv
<1>1. Init => IInv
  BY InitIInv
<1>2. IInv /\ [Next]_vars => IInv'
  BY Inductive
<1> QED
  BY <1>1, <1>2, PTL DEF Spec

\* The types of the enrollment hold; a transaction that is still there has had
\* fewer wrong secrets than the limit.
THEOREM EnrollmentTypeCorrect == Spec => []TypeOK
<1>1. IInv => TypeOK
  BY DEF IInv
<1> QED
  BY <1>1, Invariance, PTL

\* However many forms are in flight and however long they sleep, a transaction
\* lets at most MaxAttempts secrets be tried.
THEOREM AttemptsBounded == Spec => []SubmissionsBounded
<1>1. IInv => SubmissionsBounded
  BY DEF IInv, Enrollment, SubmissionsBounded
<1> QED
  BY <1>1, Invariance, PTL

\* A transaction, its code and the exchange of it are each used once.
THEOREM SingleGrant == Spec => []OneGrantPerEnrollment
<1>1. IInv => OneGrantPerEnrollment
  BY DEF IInv, Enrollment, OneGrantPerEnrollment
<1> QED
  BY <1>1, Invariance, PTL

\* A restart loads every client that was told or holds a token, and no more
\* than the registry's capacity.
THEOREM Remembered == Spec => []RegistrySurvives
<1>1. ASSUME IInv PROVE RegistrySurvives
  <2>1. IsFiniteSet(disk) /\ Cardinality(disk) <= Cardinality(memory)
    BY <1>1, FS_Subset DEF IInv, Registered
  <2>2. Cardinality(disk) \in Nat /\ Cardinality(memory) \in Nat /\ MaxClients \in Nat
    BY <1>1, <2>1, FS_CardinalityType, BoundsAssumption DEF IInv, Registered
  <2> QED
    BY <1>1, <2>1, <2>2 DEF IInv, Registered, Holders, RegistrySurvives
<1> QED
  BY <1>1, Invariance, PTL

==============================================================================
