----------------------- MODULE SnapshotRefresh_proofs -----------------------
(***************************************************************************)
(* Theorems about SnapshotRefresh for every number of commits, processes   *)
(* and retained directories.                                               *)
(*                                                                         *)
(* Everything rests on the flock (Exclusive): what a refresh found when it *)
(* last looked is still so (Knowledge), until it changes it itself.        *)
(***************************************************************************)
EXTENDS SnapshotRefresh, FiniteSetTheorems, SequenceTheorems, TLAPS

Exclusive ==
    \A q, r \in Refreshes : ~At(q, "idle") /\ ~At(r, "idle") => q = r

\* What a refresh relies on, from one step to the next.
Knowledge ==
    \A r \in Refreshes :
        /\ At(r, "idle") => previous[r] = NoCommit
        /\ At(r, "build") => target[r] \in Commits \ Present
        /\ At(r, "select") => target[r] \in Whole
        /\ pc[r] \in {"compose", "health", "prune"} =>
              env = target[r] /\ target[r] \in Commits
        /\ At(r, "prune") => mounted = target[r] /\ target[r] \notin doomed[r]

\* What a prune does not remove is within its bound.
KeptBounded ==
    \A r \in Refreshes :
        At(r, "prune") => Cardinality(Present \ doomed[r]) <= Keep + 1

IInv == TypeOK /\ MountedIsWhole /\ Exclusive /\ Knowledge /\ KeptBounded

------------------------------------------------------------------------------

\* Without(i) has the other directories, each once.
LEMMA WithoutOne ==
    ASSUME TypeOK, NEW i \in DOMAIN order
    PROVE  LET w == Without(i) IN
           /\ w \in Seq(Commits) /\ Len(w) = Len(order) - 1
           /\ \A j, k \in DOMAIN w : w[j] = w[k] => j = k
           /\ {w[j] : j \in DOMAIN w} = Present \ {order[i]}
<1> DEFINE w == Without(i)
<1>0. /\ order \in [1..Len(order) -> Commits] /\ Len(order) \in Nat
      /\ DOMAIN order = 1..Len(order)
  BY DEF TypeOK
<1>1. w \in [1..Len(order) - 1 -> Commits]
  BY <1>0 DEF Without
<1>2. w \in Seq(Commits) /\ Len(w) = Len(order) - 1 /\ DOMAIN w = 1..Len(order) - 1
  <2>1. Len(order) - 1 \in Nat
    BY <1>0
  <2> QED
    BY <1>1, <2>1, SeqDef
<1>3. \A j, k \in DOMAIN w : w[j] = w[k] => j = k
  <2> DEFINE at(j) == IF j < i THEN j ELSE j + 1
  <2>1. \A j \in DOMAIN w : at(j) \in DOMAIN order /\ w[j] = order[at(j)]
    BY <1>0, <1>2 DEF Without
  <2>2. \A j, k \in DOMAIN w : at(j) = at(k) => j = k
    BY <1>0, <1>2
  <2>3. \A m, n \in DOMAIN order : order[m] = order[n] => m = n
    BY DEF TypeOK
  <2> HIDE DEF at
  <2> QED
    BY <2>1, <2>2, <2>3
<1>4. \A j \in DOMAIN w : w[j] \in Present \ {order[i]}
  BY <1>0, <1>2 DEF Without, TypeOK, Present
<1>5. ASSUME NEW c \in Present \ {order[i]} PROVE \E j \in DOMAIN w : w[j] = c
  <2>1. PICK k \in DOMAIN order : order[k] = c
    BY DEF Present
  <2>2. CASE k < i
    BY <1>0, <1>2, <2>1, <2>2 DEF Without
  <2>3. CASE k > i
    <3>1. k - 1 \in DOMAIN w /\ w[k - 1] = order[k]
      BY <1>0, <1>2, <2>3 DEF Without
    <3> QED
      BY <3>1, <2>1
  <2> QED
    BY <1>0, <2>1, <2>2, <2>3
<1> QED
  BY <1>2, <1>3, <1>4, <1>5

\* A commit that is not there yet can be appended.
LEMMA AppendOne ==
    ASSUME NEW s \in Seq(Commits), NEW c \in Commits,
           \A j, k \in DOMAIN s : s[j] = s[k] => j = k,
           c \notin {s[j] : j \in DOMAIN s}
    PROVE  LET a == Append(s, c) IN
           /\ a \in Seq(Commits)
           /\ \A j, k \in DOMAIN a : a[j] = a[k] => j = k
           /\ {a[j] : j \in DOMAIN a} = {s[j] : j \in DOMAIN s} \cup {c}
<1> DEFINE a == Append(s, c)
<1>1. /\ a \in Seq(Commits) /\ Len(a) = Len(s) + 1 /\ Len(s) \in Nat
      /\ DOMAIN s = 1..Len(s) /\ DOMAIN a = 1..Len(s) + 1
      /\ \A j \in 1..Len(s) : a[j] = s[j]
      /\ a[Len(s) + 1] = c
  OBVIOUS
<1>2. \A j, k \in DOMAIN a : a[j] = a[k] => j = k
  BY <1>1
<1>3. {a[j] : j \in DOMAIN a} = {s[j] : j \in DOMAIN s} \cup {c}
  BY <1>1
<1> QED
  BY <1>1, <1>2, <1>3

\* A finite set of directories: as many as the order is long.
LEMMA CountPresent ==
    ASSUME TypeOK
    PROVE  IsFiniteSet(Present) /\ Cardinality(Present) = Len(order)
<1>1. DOMAIN order = 1..Len(order) /\ Len(order) \in Nat
  BY DEF TypeOK
<1>2. IsFiniteSet(1..Len(order)) /\ Cardinality(1..Len(order)) = Len(order)
  <2>1. 1 \in Int /\ Len(order) \in Int
    BY <1>1
  <2>2. /\ IsFiniteSet(1..Len(order))
        /\ Cardinality(1..Len(order)) = IF 1 > Len(order) THEN 0 ELSE Len(order) - 1 + 1
    BY <2>1, FS_Interval
  <2> QED
    BY <1>1, <2>2
<1>3. ExistsBijection(1..Len(order), Present)
  <2>1. order \in [1..Len(order) -> Present]
    BY <1>1 DEF TypeOK, Present
  <2>2. order \in Bijection(1..Len(order), Present)
    BY <1>1, <2>1 DEF TypeOK, Present, Bijection, Injection, Surjection,
                           IsInjective
  <2> QED
    BY <2>2 DEF ExistsBijection
<1> QED
  BY <1>2, <1>3, FS_Bijection

\* prune keeps at most one directory beyond the newest.
LEMMA CountRetained ==
    ASSUME TypeOK, NEW c
    PROVE  Cardinality(Retained(c) \cap Present) <= Keep + 1
<1>1. DOMAIN order = 1..Len(order) /\ Len(order) \in Nat /\ Keep \in Nat
  BY KeepAssumption DEF TypeOK
<1> DEFINE I == {j \in DOMAIN order : j + Keep > Len(order)}
           N == {order[i] : i \in I}
           f == [i \in I |-> order[i]]
<1>2. IsFiniteSet(I) /\ Cardinality(I) <= Keep
  <2>1. I \subseteq Len(order) - Keep + 1..Len(order)
    BY <1>1
  <2>2. /\ IsFiniteSet(Len(order) - Keep + 1..Len(order))
        /\ Cardinality(Len(order) - Keep + 1..Len(order)) <= Keep
    <3> DEFINE lo == Len(order) - Keep + 1
               hi == Len(order)
    <3>1. lo \in Int /\ hi \in Int /\ (lo > hi => Keep = 0) /\ hi - lo + 1 = Keep
      BY <1>1
    <3> HIDE DEF lo, hi
    <3>2. /\ IsFiniteSet(lo..hi)
          /\ Cardinality(lo..hi) = IF lo > hi THEN 0 ELSE hi - lo + 1
      BY <3>1, FS_Interval
    <3>3. Cardinality(lo..hi) <= Keep
      BY <1>1, <3>1, <3>2
    <3> QED
      BY <3>2, <3>3 DEF lo, hi
  <2>3. IsFiniteSet(I) /\ Cardinality(I) <= Cardinality(Len(order) - Keep + 1..Len(order))
    BY <2>1, <2>2, FS_Subset
  <2> QED
    BY <1>1, <2>2, <2>3, FS_CardinalityType
<1>3. IsFiniteSet(N) /\ Cardinality(N) <= Cardinality(I)
  <2>1. f \in Surjection(I, N)
    BY DEF Surjection
  <2> QED
    BY <1>2, <2>1, FS_Surjection
<1>4. IsFiniteSet(N \cup {c}) /\ Cardinality(N \cup {c}) <= Cardinality(N) + 1
  BY <1>3, FS_AddElement, FS_CardinalityType
<1>5. Retained(c) = N \cup {c}
  BY DEF Retained
<1>6. Cardinality(Retained(c) \cap Present) <= Cardinality(N \cup {c})
  BY <1>4, <1>5, FS_Subset
<1>7. /\ Cardinality(I) \in Nat /\ Cardinality(N) \in Nat
      /\ Cardinality(N \cup {c}) \in Nat
      /\ Cardinality(Retained(c) \cap Present) \in Nat
  <2>1. IsFiniteSet(Retained(c) \cap Present)
    BY <1>4, <1>5, FS_Subset
  <2> QED
    BY <1>2, <1>3, <1>4, <2>1, FS_CardinalityType
<1> QED
  BY <1>1, <1>2, <1>3, <1>4, <1>6, <1>7

------------------------------------------------------------------------------

\* An exit changes nothing but the process, which then relies on nothing.
LEMMA ExitStep ==
    ASSUME IInv, NEW r \in Refreshes, ~At(r, "idle"), Exit(r),
           UNCHANGED <<dirs, env>>,
           healthy' \subseteq Commits, mounted' \in Whole \cup {NoCommit}
    PROVE  IInv'
<1> USE DEF IInv, At
<1>1. \A q \in Refreshes : pc'[q] = "idle"
  BY DEF Exit, Goto, Exclusive, TypeOK
<1>2. Whole' = Whole /\ Present' = Present
  BY DEF Whole, Present, dirs
<1>3. TypeOK'
  BY <1>2 DEF TypeOK, Exit, Goto, dirs, Whole, Present
<1>4. \A q \in Refreshes : previous'[q] = NoCommit
  <2>1. \A q \in Refreshes : q # r => pc[q] = "idle"
    BY DEF Exclusive
  <2> QED
    BY <2>1 DEF Exit, Knowledge, TypeOK
<1>5. MountedIsWhole'
  BY <1>2, <1>4 DEF MountedIsWhole
<1>6. Exclusive' /\ Knowledge' /\ KeptBounded'
  BY <1>1, <1>4 DEF Exclusive, Knowledge, KeptBounded
<1> QED
  BY <1>3, <1>5, <1>6

LEMMA InitIInv == Init => IInv
<1> SUFFICES ASSUME Init PROVE IInv
  OBVIOUS
<1>1. TypeOK
  BY DEF Init, TypeOK, Present
<1>2. MountedIsWhole /\ Exclusive /\ Knowledge /\ KeptBounded
  BY DEF Init, MountedIsWhole, Exclusive, Knowledge, KeptBounded, At
<1> QED
  BY <1>1, <1>2 DEF IInv

LEMMA Inductive == IInv /\ [Next]_vars => IInv'
<1> SUFFICES ASSUME IInv, [Next]_vars PROVE IInv'
  OBVIOUS
<1> USE DEF IInv, At, Goto
<1>1. ASSUME NEW r \in Refreshes, Start(r) PROVE IInv'
  <2>1. TypeOK'
    BY <1>1 DEF Start, TypeOK, Present, dirs
  <2>2. MountedIsWhole'
    BY <1>1 DEF Start, MountedIsWhole, TypeOK, Whole, Present, dirs
  <2>3. Exclusive' /\ Knowledge' /\ KeptBounded'
    BY <1>1 DEF Start, Exclusive, Knowledge, KeptBounded, TypeOK, dirs
  <2> QED
    BY <2>1, <2>2, <2>3
<1>2. ASSUME NEW r \in Refreshes, NEW c \in Commits, Fetch(r, c) PROVE IInv'
  <2>0. \A q \in Refreshes : q # r => pc[q] = "idle"
    BY <1>2 DEF Fetch, Exclusive
  <2>1. TypeOK'
    BY <1>2 DEF Fetch, TypeOK, Present, dirs
  <2>2. MountedIsWhole'
    BY <1>2 DEF Fetch, MountedIsWhole, TypeOK, Whole, Present, dirs
  <2>3. Exclusive' /\ Knowledge' /\ KeptBounded'
    BY <1>2, <2>0 DEF Fetch, Exclusive, Knowledge, KeptBounded, TypeOK, Present, dirs
  <2> QED
    BY <2>1, <2>2, <2>3
<1>3. ASSUME NEW r \in Refreshes, Promote(r) PROVE IInv'
  <2>0. \A q \in Refreshes : q # r => pc[q] = "idle"
    BY <1>3 DEF Promote, Exclusive
  <2>1. target[r] \in Commits \ Present
    BY <1>3 DEF Promote, Knowledge
  <2>2. /\ order' \in Seq(Commits)
        /\ \A j, k \in DOMAIN order' : order'[j] = order'[k] => j = k
        /\ Present' = Present \cup {target[r]}
    <3> DEFINE a == Append(order, target[r])
    <3>1. /\ order \in Seq(Commits)
          /\ \A j, k \in DOMAIN order : order[j] = order[k] => j = k
          /\ target[r] \notin {order[j] : j \in DOMAIN order}
      BY <2>1 DEF TypeOK, Present
    <3>2. /\ a \in Seq(Commits)
          /\ \A j, k \in DOMAIN a : a[j] = a[k] => j = k
          /\ {a[j] : j \in DOMAIN a} = {order[j] : j \in DOMAIN order} \cup {target[r]}
      BY <2>1, <3>1, AppendOne
    <3>3. order' = a
      BY <1>3 DEF Promote
    <3> HIDE DEF a
    <3> QED
      BY <3>2, <3>3 DEF Present
  <2>3. TypeOK'
    BY <1>3, <2>2 DEF Promote, TypeOK
  <2>4. MountedIsWhole'
    BY <1>3, <2>2 DEF Promote, MountedIsWhole, TypeOK, Whole
  <2>5. Exclusive' /\ Knowledge' /\ KeptBounded'
    BY <1>3, <2>0 DEF Promote, Exclusive, Knowledge, KeptBounded, TypeOK
  <2> QED
    BY <2>3, <2>4, <2>5
<1>4. ASSUME NEW r \in Refreshes, Validate(r) PROVE IInv'
  <2>0. \A q \in Refreshes : q # r => pc[q] = "idle"
    BY <1>4 DEF Validate, Exclusive
  <2>1. TypeOK'
    BY <1>4 DEF Validate, TypeOK, Present, dirs
  <2>2. MountedIsWhole'
    BY <1>4 DEF Validate, MountedIsWhole, TypeOK, Whole, Present, dirs
  <2>3. Exclusive' /\ Knowledge' /\ KeptBounded'
    BY <1>4, <2>0
    DEF Validate, Exclusive, Knowledge, KeptBounded, TypeOK, Whole, Present, dirs
  <2> QED
    BY <2>1, <2>2, <2>3
<1>5. ASSUME NEW r \in Refreshes, Select(r) PROVE IInv'
  <2>0. \A q \in Refreshes : q # r => pc[q] = "idle"
    BY <1>5 DEF Select, Exclusive
  <2>1. target[r] \in Whole /\ target[r] \in Commits
    BY <1>5 DEF Select, Knowledge, Whole, Present, TypeOK
  <2>2. TypeOK'
    BY <1>5, <2>1 DEF Select, TypeOK, Present, dirs
  <2>3. MountedIsWhole'
    BY <1>5, <2>1 DEF Select, MountedIsWhole, TypeOK, Whole, Present, dirs
  <2>4. Exclusive' /\ Knowledge' /\ KeptBounded'
    BY <1>5, <2>0, <2>1 DEF Select, Exclusive, Knowledge, KeptBounded, TypeOK, dirs
  <2> QED
    BY <2>2, <2>3, <2>4
<1>6. ASSUME NEW r \in Refreshes, Compose(r) PROVE IInv'
  <2>0. \A q \in Refreshes : q # r => pc[q] = "idle"
    BY <1>6 DEF Compose, Exclusive
  <2>1. TypeOK'
    BY <1>6 DEF Compose, TypeOK, Present, dirs
  <2>2. MountedIsWhole'
    BY <1>6 DEF Compose, MountedIsWhole, TypeOK, Whole, Present, dirs
  <2>3. Exclusive' /\ Knowledge' /\ KeptBounded'
    BY <1>6, <2>0 DEF Compose, Exclusive, Knowledge, KeptBounded, TypeOK, dirs
  <2> QED
    BY <2>1, <2>2, <2>3
<1>7. ASSUME NEW r \in Refreshes, ComposeFails(r) PROVE IInv'
  BY <1>7, ExitStep DEF ComposeFails, TypeOK
<1>8. ASSUME NEW r \in Refreshes, Healthy(r) PROVE IInv'
  <2>0. \A q \in Refreshes : q # r => pc[q] = "idle"
    BY <1>8 DEF Healthy, Exclusive
  <2>1. env = target[r] /\ mounted = target[r] /\ target[r] \in Commits
    BY <1>8 DEF Healthy, Knowledge
  <2>2. TypeOK'
    <3>1. Present' = Present /\ Present \subseteq Commits
      BY <1>8 DEF Healthy, Present, TypeOK, dirs
    <3> QED
      BY <1>8, <2>1, <3>1 DEF Healthy, TypeOK, dirs
  <2>3. MountedIsWhole'
    BY <1>8 DEF Healthy, MountedIsWhole, TypeOK, Whole, Present, dirs
  <2>4. Exclusive' /\ Knowledge'
    BY <1>8, <2>0, <2>1
    DEF Healthy, Exclusive, Knowledge, TypeOK, Retained, dirs
  <2>5. KeptBounded'
    <3>1. Present' = Present /\ doomed'[r] = Present \ Retained(target[r])
      BY <1>8 DEF Healthy, TypeOK, Present, dirs
    <3>2. Present' \ doomed'[r] = Retained(target[r]) \cap Present
      BY <3>1
    <3>3. Cardinality(Present' \ doomed'[r]) <= Keep + 1
      BY <3>2, CountRetained
    <3> QED
      BY <1>8, <2>0, <3>3 DEF Healthy, KeptBounded, TypeOK
  <2> QED
    BY <2>2, <2>3, <2>4, <2>5
<1>9. ASSUME NEW r \in Refreshes, Unhealthy(r) PROVE IInv'
  <2>0. \A q \in Refreshes : q # r => pc[q] = "idle"
    BY <1>9 DEF Unhealthy, Exclusive
  <2>1. CASE previous[r] \in Present
    <3>1. previous[r] \in Whole /\ previous[r] \in Commits
      BY <1>9, <2>1, CommitsAssumption DEF Unhealthy, MountedIsWhole, TypeOK, Present
    <3>2. TypeOK'
      BY <1>9, <2>1, <3>1 DEF Unhealthy, TypeOK, Present, dirs
    <3>3. MountedIsWhole'
      BY <1>9, <2>1, <3>1 DEF Unhealthy, MountedIsWhole, TypeOK, Whole, Present, dirs
    <3>4. Exclusive' /\ Knowledge' /\ KeptBounded'
      BY <1>9, <2>0, <2>1 DEF Unhealthy, Exclusive, Knowledge, KeptBounded, TypeOK, dirs
    <3> QED
      BY <3>2, <3>3, <3>4
  <2>2. CASE previous[r] \notin Present
    BY <1>9, <2>2, ExitStep DEF Unhealthy, TypeOK, MountedIsWhole
  <2> QED
    BY <2>1, <2>2
<1>10. ASSUME NEW r \in Refreshes, Restore(r) PROVE IInv'
  BY <1>10, ExitStep DEF Restore, TypeOK, MountedIsWhole
<1>11. ASSUME NEW r \in Refreshes, NEW i \in DOMAIN order, BeginRemoval(r, i)
       PROVE  IInv'
  <2>0. \A q \in Refreshes : q # r => pc[q] = "idle"
    BY <1>11 DEF BeginRemoval, Exclusive
  <2> DEFINE c == order[i]
  <2>1. c \in Commits /\ c \in Present /\ c \in doomed[r] /\ c # env /\ c # mounted
    BY <1>11 DEF BeginRemoval, Knowledge, TypeOK, Present
  <2>2. /\ order' \in Seq(Commits)
        /\ \A j, k \in DOMAIN order' : order'[j] = order'[k] => j = k
        /\ Present' = Present
    <3>1. CASE order' = order
      BY <3>1 DEF TypeOK, Present
    <3>2. CASE order' = Append(Without(i), c)
      <4> DEFINE w == Without(i)
      <4>1. /\ w \in Seq(Commits)
            /\ \A j, k \in DOMAIN w : w[j] = w[k] => j = k
            /\ {w[j] : j \in DOMAIN w} = Present \ {c}
        BY WithoutOne
      <4> HIDE DEF w
      <4> DEFINE a == Append(w, c)
      <4>2. /\ a \in Seq(Commits)
            /\ \A j, k \in DOMAIN a : a[j] = a[k] => j = k
            /\ {a[j] : j \in DOMAIN a} = {w[j] : j \in DOMAIN w} \cup {c}
        BY <2>1, <4>1, AppendOne
      <4>3. order' = a
        BY <3>2 DEF w
      <4>4. {a[j] : j \in DOMAIN a} = (Present \ {c}) \cup {c}
        BY <4>1, <4>2
      <4>5. (Present \ {c}) \cup {c} = Present
        BY <2>1
      <4> HIDE DEF a, c
      <4> QED
        BY <4>2, <4>3, <4>4, <4>5 DEF Present
    <3> QED
      BY <1>11, <3>1, <3>2 DEF BeginRemoval
  <2>3. Whole' = Whole \ {c}
    BY <1>11, <2>2 DEF BeginRemoval, Whole
  <2>4. TypeOK'
    BY <1>11, <2>1, <2>2 DEF BeginRemoval, TypeOK, process
  <2>5. MountedIsWhole'
    <3>1. {env', mounted'} \subseteq Whole' \cup {NoCommit}
      BY <1>11, <2>1, <2>3 DEF BeginRemoval, MountedIsWhole
    <3>2. \A q \in Refreshes : q # r => previous'[q] = NoCommit
      BY <1>11, <2>0 DEF BeginRemoval, Knowledge, process
    <3>3. pc'[r] = "prune"
      BY <1>11 DEF BeginRemoval, process
    <3> QED
      BY <3>1, <3>2, <3>3 DEF MountedIsWhole
  <2>6. Exclusive' /\ Knowledge' /\ KeptBounded'
    BY <1>11, <2>0, <2>2, <2>3
    DEF BeginRemoval, Exclusive, Knowledge, KeptBounded, process
  <2> QED
    BY <2>4, <2>5, <2>6
<1>12. ASSUME NEW r \in Refreshes, NEW i \in DOMAIN order, EndRemoval(r, i)
       PROVE  IInv'
  <2>0. \A q \in Refreshes : q # r => pc[q] = "idle"
    BY <1>12 DEF EndRemoval, Exclusive
  <2> DEFINE c == order[i]
  <2>1. c \in Present /\ c \in torn /\ c \in doomed[r] /\ doomed[r] \subseteq Commits
    BY <1>12 DEF EndRemoval, TypeOK, Present
  <2>2. /\ order' \in Seq(Commits)
        /\ \A j, k \in DOMAIN order' : order'[j] = order'[k] => j = k
        /\ Present' = Present \ {c}
    <3>1. order' = Without(i)
      BY <1>12 DEF EndRemoval
    <3> QED
      BY <3>1, WithoutOne DEF Present
  <2>3. Whole' = Whole /\ torn' = torn \ {c}
    BY <1>12, <2>1, <2>2 DEF EndRemoval, Whole
  <2>4. TypeOK'
    BY <1>12, <2>1, <2>2, <2>3 DEF EndRemoval, TypeOK
  <2>5. MountedIsWhole'
    BY <1>12, <2>3 DEF EndRemoval, MountedIsWhole
  <2>6. doomed'[r] = doomed[r] \ {c} /\ \A q \in Refreshes : q # r => pc'[q] = "idle"
    BY <1>12, <2>0 DEF EndRemoval, TypeOK
  <2>7. Exclusive' /\ Knowledge'
    BY <1>12, <2>0, <2>6 DEF EndRemoval, Exclusive, Knowledge
  <2>8. KeptBounded'
    <3>1. Present' \ doomed'[r] = Present \ doomed[r]
      BY <2>1, <2>2, <2>6
    <3> QED
      BY <1>12, <2>6, <3>1 DEF EndRemoval, KeptBounded
  <2> QED
    BY <2>4, <2>5, <2>7, <2>8
<1>13. ASSUME NEW r \in Refreshes, Quit(r) PROVE IInv'
  BY <1>13, ExitStep DEF Quit, TypeOK, MountedIsWhole
<1>14. CASE StartByHand
  <2>1. TypeOK'
    BY <1>14 DEF StartByHand, TypeOK, Whole, Present, dirs, process
  <2>2. MountedIsWhole'
    BY <1>14 DEF StartByHand, MountedIsWhole, Whole, Present, dirs, process
  <2>3. Exclusive' /\ Knowledge' /\ KeptBounded'
    BY <1>14 DEF StartByHand, Exclusive, Knowledge, KeptBounded, process
  <2> QED
    BY <2>1, <2>2, <2>3
<1>15. CASE UNCHANGED vars
  <2>1. TypeOK' /\ MountedIsWhole'
    BY <1>15 DEF TypeOK, MountedIsWhole, Whole, Present, vars, dirs, process
  <2>2. Exclusive' /\ Knowledge' /\ KeptBounded'
    BY <1>15 DEF Exclusive, Knowledge, KeptBounded, Whole, Present, vars, dirs, process
  <2> QED
    BY <2>1, <2>2
<1> QED
  BY <1>1, <1>2, <1>3, <1>4, <1>5, <1>6, <1>7, <1>8, <1>9, <1>10, <1>11, <1>12,
     <1>13, <1>14, <1>15 DEF Next

------------------------------------------------------------------------------

\* What every step of a refresh, failed or killed, leaves.
THEOREM Invariance == Spec => []IInv
<1>1. Init => IInv
  BY InitIInv
<1>2. IInv /\ [Next]_vars => IInv'
  BY Inductive
<1> QED
  BY <1>1, <1>2, PTL DEF Spec

\* The types of the refresh hold, no directory is listed twice, and only
\* listed ones are torn.
THEOREM RefreshTypeCorrect == Spec => []TypeOK
<1>1. IInv => TypeOK
  BY DEF IInv
<1> QED
  BY <1>1, Invariance, PTL

\* Whatever refreshes fail or are killed, and wherever: what the gateway
\* mounts, would mount or would roll back to is complete.
THEOREM GatewayServed == Spec => []MountedIsWhole
<1>1. IInv => MountedIsWhole
  BY DEF IInv
<1> QED
  BY <1>1, Invariance, PTL

\* A prune that has finished leaves at most Keep directories and the current one.
THEOREM Retention == Spec => []RetentionBounded
<1>1. ASSUME IInv PROVE RetentionBounded
  <2>1. Cardinality(Present) = Len(order)
    BY <1>1, CountPresent DEF IInv
  <2>2. \A r \in Refreshes : doomed[r] = {} => Present \ doomed[r] = Present
    OBVIOUS
  <2> QED
    BY <1>1, <2>1, <2>2 DEF IInv, KeptBounded, RetentionBounded
<1> QED
  BY <1>1, Invariance, PTL

==============================================================================
