-------------------------- MODULE AuditLog_proofs --------------------------
(***************************************************************************)
(* Theorems about AuditLog for every number of writers, records and        *)
(* mishaps.                                                                *)
(*                                                                         *)
(* A record that was written is complete in the file when its writer still *)
(* has the lock (InHand), so the fsync covers all of it; what it covered   *)
(* neither an append nor a crash changes.  A record that cannot be read    *)
(* has a torn head before it, and no two have the same one, so that it is  *)
(* enough to count the torn heads (TornBounded).                           *)
(***************************************************************************)
EXTENDS AuditLog, SequenceTheorems, FiniteSetTheorems, TLAPS

\* Record n is complete in the first k pieces of f.
Done(f, n, k) ==
    \E i \in 1..k :
        /\ f[i].of = n
        /\ \/ f[i].part = "whole"
           \/ f[i].part = "head" /\ i < k /\ f[i + 1] = [of |-> n, part |-> "rest"]

\* Who writes has the lock.
LockHeld == \A w \in Writers : pc[w] \in {"writing", "half", "written"} => lock = w

\* How far the writer with the lock has come.
InHand ==
    \A w \in Writers :
        /\ pc[w] # "idle" => record[w] \in 1..MaxRecords
        /\ pc[w] = "half" =>
              Len(file) > 0 /\ file[Len(file)] = [of |-> record[w], part |-> "head"]
        /\ pc[w] = "written" => Done(file, record[w], Len(file))

ToldDone == \A n \in told : Done(file, n, synced)

IInv == TypeOK /\ LockHeld /\ InHand /\ ToldDone

\* A writer has put a head, and is about to put the rest.
HalfWay == \E w \in Writers : pc[w] = "half"

\* The heads that no rest follows or will follow.
Torn ==
    {i \in 1..Len(file) :
        /\ file[i].part = "head"
        /\ i < Len(file) => file[i + 1].part # "rest"
        /\ i = Len(file) => ~HalfWay}

TornBounded == Cardinality(Torn) <= mishaps

------------------------------------------------------------------------------

LEMMA DoneIsComplete ==
    ASSUME NEW n, NEW k
    PROVE  Done(file, n, k) <=> Complete(n, k) # {}
BY DEF Done, Complete

\* What is complete stays so while the pieces it is in do.
LEMMA DoneStays ==
    ASSUME NEW f \in Seq(Piece), NEW g \in Seq(Piece), NEW n,
           NEW k \in Nat, NEW l \in Nat, k <= l,
           \A i \in 1..k : g[i] = f[i],
           Done(f, n, k)
    PROVE  Done(g, n, l)
<1>1. PICK i \in 1..k :
         /\ f[i].of = n
         /\ \/ f[i].part = "whole"
            \/ f[i].part = "head" /\ i < k /\ f[i + 1] = [of |-> n, part |-> "rest"]
  BY DEF Done
<1>2. i \in 1..l /\ g[i] = f[i] /\ (i < k => i + 1 \in 1..k)
  BY <1>1
<1>3. i < k => i < l /\ g[i + 1] = f[i + 1]
  BY <1>1, <1>2
<1> QED
  BY <1>1, <1>2, <1>3 DEF Done

\* Appending a piece leaves the others.
LEMMA PutOne ==
    ASSUME TypeOK, NEW w \in Writers, NEW part \in {"whole", "head", "rest"}, Put(w, part)
    PROVE  /\ file' \in Seq(Piece) /\ Len(file') = Len(file) + 1
           /\ \A i \in 1..Len(file) : file'[i] = file[i]
           /\ file'[Len(file')] = [of |-> record[w], part |-> part]
<1> DEFINE p == [of |-> record[w], part |-> part]
<1>1. p \in Piece
  BY BoundsAssumption DEF TypeOK, Piece
<1>2. file \in Seq(Piece) /\ file' = Append(file, p)
  BY DEF TypeOK, Put
<1> HIDE DEF p
<1>3. /\ file' \in Seq(Piece) /\ Len(file') = Len(file) + 1
      /\ \A i \in 1..Len(file) : file'[i] = file[i]
      /\ file'[Len(file')] = p
  BY <1>1, <1>2
<1> QED
  BY <1>3 DEF p

\* A writer with the lock puts a piece: nobody else writes, and what was told
\* stays done.
LEMMA WriteStep ==
    ASSUME IInv, NEW w \in Writers, WriteWhole(w) \/ WriteHead(w) \/ WriteRest(w)
    PROVE  IInv'
<1> USE DEF IInv
<1>0. PICK part \in {"whole", "head", "rest"}, place \in {"half", "written"} :
        /\ pc[w] \in {"writing", "half"} /\ Put(w, part)
        /\ pc' = [pc EXCEPT ![w] = place]
        /\ place = "half" => part = "head"
        /\ place = "written" => part # "head" /\ (part = "rest" => pc[w] = "half")
        /\ UNCHANGED <<synced, lock, record, calls, told, mishaps>>
  <2>1. CASE WriteWhole(w)
    <3> WITNESS "whole" \in {"whole", "head", "rest"}, "written" \in {"half", "written"}
    <3> QED
      BY <2>1 DEF WriteWhole
  <2>2. CASE WriteHead(w)
    <3> WITNESS "head" \in {"whole", "head", "rest"}, "half" \in {"half", "written"}
    <3> QED
      BY <2>2 DEF WriteHead
  <2>3. CASE WriteRest(w)
    <3> WITNESS "rest" \in {"whole", "head", "rest"}, "written" \in {"half", "written"}
    <3> QED
      BY <2>3 DEF WriteRest
  <2> QED
    BY <2>1, <2>2, <2>3
<1>1. /\ file' \in Seq(Piece) /\ Len(file') = Len(file) + 1 /\ Len(file) \in Nat
      /\ \A i \in 1..Len(file) : file'[i] = file[i]
      /\ file'[Len(file')] = [of |-> record[w], part |-> part]
  <2>1. Len(file) \in Nat
    BY DEF TypeOK
  <2> QED
    BY <1>0, <2>1, PutOne
<1>2. TypeOK'
  BY <1>0, <1>1 DEF TypeOK
<1>3. LockHeld'
  BY <1>0 DEF LockHeld, TypeOK
<1>4. InHand'
  <2>1. \A v \in Writers : v # w => pc[v] \notin {"writing", "half", "written"}
    BY <1>0 DEF LockHeld
  <2>2. place = "written" => Done(file', record[w], Len(file'))
    <3>1. CASE part = "whole"
      BY <1>1, <3>1 DEF Done
    <3>2. CASE part = "rest" /\ pc[w] = "half"
      <4>1. /\ Len(file) \in 1..Len(file') /\ Len(file) < Len(file')
            /\ Len(file) + 1 = Len(file')
            /\ file'[Len(file)] = [of |-> record[w], part |-> "head"]
        BY <1>1, <3>2 DEF InHand
      <4> QED
        BY <1>1, <3>2, <4>1 DEF Done
    <3> QED
      BY <1>0, <3>1, <3>2
  <2> QED
    BY <1>0, <1>1, <2>1, <2>2 DEF InHand, TypeOK
<1>5. ToldDone'
  <2>1. synced \in Nat /\ synced <= Len(file) /\ file \in Seq(Piece)
    BY DEF TypeOK
  <2>2. \A i \in 1..synced : file'[i] = file[i]
    BY <1>1, <2>1
  <2> QED
    BY <1>0, <1>1, <2>1, <2>2, DoneStays DEF ToldDone
<1> QED
  BY <1>2, <1>3, <1>4, <1>5

\* All writers are gone, and of the file at least what was fsynced is left.
LEMMA CrashStep ==
    ASSUME IInv, Reboot,
           file' \in Seq(Piece), synced' \in 0..Len(file'), synced <= synced',
           \A i \in 1..synced : file'[i] = file[i]
    PROVE  IInv'
<1> USE DEF IInv
<1>1. TypeOK'
  BY BoundsAssumption DEF Reboot, Mishap, TypeOK
<1>2. LockHeld' /\ InHand'
  BY DEF Reboot, LockHeld, InHand
<1>3. ToldDone'
  <2>1. synced \in Nat /\ synced' \in Nat /\ file \in Seq(Piece)
    BY DEF TypeOK
  <2> QED
    BY <2>1, DoneStays DEF Reboot, ToldDone
<1> QED
  BY <1>1, <1>2, <1>3

\* A writer gives up: what it wrote stays.
LEMMA GiveUpStep ==
    ASSUME IInv, NEW w \in Writers, pc' = [pc EXCEPT ![w] = "idle"],
           \/ lock' = lock /\ pc[w] = "waiting"
           \/ lock' = Free /\ pc[w] \in {"writing", "half", "written"},
           mishaps' \in 0..MaxMishaps,
           UNCHANGED <<file, synced, record, calls, told>>
    PROVE  IInv'
<1> USE DEF IInv
<1>1. TypeOK'
  BY DEF TypeOK
<1>2. LockHeld'
  BY DEF LockHeld, TypeOK
<1>3. InHand' /\ ToldDone'
  BY DEF InHand, ToldDone, TypeOK
<1> QED
  BY <1>1, <1>2, <1>3

LEMMA Inductive == IInv /\ [Next]_vars => IInv'
<1> SUFFICES ASSUME IInv, [Next]_vars PROVE IInv'
  OBVIOUS
<1> USE DEF IInv
<1>1. ASSUME NEW w \in Writers, Arrive(w) PROVE IInv'
  <2>1. TypeOK'
    BY <1>1, BoundsAssumption DEF Arrive, TypeOK
  <2>2. LockHeld' /\ ToldDone'
    BY <1>1 DEF Arrive, LockHeld, ToldDone, TypeOK
  <2>3. InHand'
    BY <1>1, BoundsAssumption DEF Arrive, InHand, TypeOK
  <2> QED
    BY <2>1, <2>2, <2>3
<1>2. ASSUME NEW w \in Writers, OpenFails(w) PROVE IInv'
  <2>1. mishaps' \in 0..MaxMishaps
    BY <1>2 DEF OpenFails, TypeOK
  <2> QED
    BY <1>2, <2>1, GiveUpStep DEF OpenFails
<1>3. ASSUME NEW w \in Writers, Lock(w) PROVE IInv'
  <2>1. TypeOK'
    BY <1>3 DEF Lock, CanLock, TypeOK
  <2>2. LockHeld'
    BY <1>3, WritersAssumption DEF Lock, CanLock, LockHeld, TypeOK
  <2>3. InHand' /\ ToldDone'
    BY <1>3 DEF Lock, CanLock, InHand, ToldDone, TypeOK
  <2> QED
    BY <2>1, <2>2, <2>3
<1>4. ASSUME NEW w \in Writers, WriteWhole(w) PROVE IInv'
  BY <1>4, WriteStep
<1>5. ASSUME NEW w \in Writers, WriteHead(w) PROVE IInv'
  BY <1>5, WriteStep
<1>6. ASSUME NEW w \in Writers, WriteRest(w) PROVE IInv'
  BY <1>6, WriteStep
<1>7. ASSUME NEW w \in Writers, WriteFails(w) PROVE IInv'
  <2>1. mishaps' \in 0..MaxMishaps
    BY <1>7, BoundsAssumption DEF WriteFails, Mishap, TypeOK
  <2> QED
    BY <1>7, <2>1, GiveUpStep DEF WriteFails, Unlock
<1>8. ASSUME NEW w \in Writers, Sync(w) PROVE IInv'
  <2>1. record[w] \in 1..MaxRecords /\ Done(file, record[w], Len(file))
    BY <1>8 DEF Sync, InHand
  <2>2. file \in Seq(Piece) /\ Len(file) \in Nat /\ synced \in Nat /\ synced <= Len(file)
    BY DEF TypeOK
  <2>3. TypeOK'
    <3>1. synced' \in 0..Len(file') /\ file' \in Seq(Piece)
      BY <1>8, <2>2 DEF Sync
    <3>2. told' \subseteq 1..MaxRecords
      BY <1>8, <2>1 DEF Sync, TypeOK
    <3>3. lock' = Free /\ pc' \in [Writers -> {"idle", "waiting", "writing", "half", "written"}]
      BY <1>8 DEF Sync, Unlock, TypeOK
    <3>4. UNCHANGED <<record, calls, mishaps>>
      BY <1>8 DEF Sync
    <3> QED
      BY <3>1, <3>2, <3>3, <3>4 DEF TypeOK
  <2>4. LockHeld'
    BY <1>8 DEF Sync, Unlock, LockHeld, TypeOK
  <2>5. InHand'
    BY <1>8 DEF Sync, Unlock, InHand, TypeOK
  <2>6. ToldDone'
    <3>1. \A n \in told : Done(file, n, Len(file))
      BY <2>2, DoneStays DEF ToldDone
    <3> QED
      BY <1>8, <2>1, <3>1 DEF Sync, ToldDone
  <2> QED
    BY <2>3, <2>4, <2>5, <2>6
<1>9. ASSUME NEW w \in Writers, SyncFails(w) PROVE IInv'
  <2>1. mishaps' \in 0..MaxMishaps
    BY <1>9 DEF SyncFails, TypeOK
  <2> QED
    BY <1>9, <2>1, GiveUpStep DEF SyncFails, Unlock
<1>10. CASE Restart
  BY <1>10, CrashStep DEF Restart, TypeOK
<1>11. CASE PowerLoss
  <2>1. PICK n \in synced..Len(file) :
           LET kept == SubSeq(file, 1, n) IN
           \/ file' = kept /\ synced' = n
           \/ /\ n < Len(file) /\ file[n + 1].part = "whole"
              /\ file' = Append(kept, [file[n + 1] EXCEPT !.part = "head"])
              /\ synced' = n + 1
    BY <1>11 DEF PowerLoss
  <2> DEFINE kept == SubSeq(file, 1, n)
  <2>2. /\ file \in Seq(Piece) /\ Len(file) \in Nat /\ synced \in Nat
        /\ n \in Nat /\ synced <= n /\ n <= Len(file)
    BY DEF TypeOK
  <2>3. kept \in Seq(Piece) /\ Len(kept) = n /\ \A i \in 1..n : kept[i] = file[i]
    BY <2>2
  <2> HIDE DEF kept
  <2>4. CASE file' = kept /\ synced' = n
    BY <1>11, <2>2, <2>3, <2>4, CrashStep DEF PowerLoss
  <2>5. CASE /\ n < Len(file)
             /\ file' = Append(kept, [file[n + 1] EXCEPT !.part = "head"])
             /\ synced' = n + 1
    <3> DEFINE head == [file[n + 1] EXCEPT !.part = "head"]
    <3>1. head \in Piece
      <4>1. file[n + 1] \in Piece
        BY <2>2, <2>5
      <4> QED
        BY <4>1 DEF Piece
    <3> HIDE DEF head
    <3>2. /\ file' \in Seq(Piece) /\ Len(file') = n + 1
          /\ \A i \in 1..n : file'[i] = kept[i]
      BY <2>2, <2>3, <2>5, <3>1 DEF head
    <3> QED
      BY <1>11, <2>2, <2>3, <2>5, <3>2, CrashStep DEF PowerLoss
  <2> QED
    BY <2>1, <2>4, <2>5 DEF kept
<1>12. CASE UNCHANGED vars
  <2>1. TypeOK'
    BY <1>12 DEF vars, TypeOK
  <2>2. LockHeld' /\ InHand' /\ ToldDone'
    BY <1>12 DEF vars, LockHeld, InHand, ToldDone
  <2> QED
    BY <2>1, <2>2
<1> QED
  BY <1>1, <1>2, <1>3, <1>4, <1>5, <1>6, <1>7, <1>8, <1>9, <1>10, <1>11, <1>12
  DEF Next

LEMMA InitIInv == Init => IInv
<1> SUFFICES ASSUME Init PROVE IInv
  OBVIOUS
<1>1. TypeOK
  BY BoundsAssumption DEF Init, TypeOK
<1>2. LockHeld /\ InHand /\ ToldDone
  BY DEF Init, LockHeld, InHand, ToldDone
<1> QED
  BY <1>1, <1>2 DEF IInv

------------------------------------------------------------------------------

\* What every os.write, fsync, failure and crash of append leaves.
THEOREM Invariance == Spec => []IInv
<1>1. Init => IInv
  BY InitIInv
<1>2. IInv /\ [Next]_vars => IInv'
  BY Inductive
<1> QED
  BY <1>1, <1>2, PTL DEF Spec

\* The types of the audit log hold; the fsynced pieces are pieces of the file.
THEOREM AuditTypeCorrect == Spec => []TypeOK
<1>1. IInv => TypeOK
  BY DEF IInv
<1> QED
  BY <1>1, Invariance, PTL

\* An append that has returned is on disk in full, whatever overlaps it and
\* whatever fails or crashes.
THEOREM AuditDurability == Spec => []ToldIsDurable
<1>1. IInv => ToldIsDurable
  BY DoneIsComplete DEF IInv, ToldDone, ToldIsDurable
<1> QED
  BY <1>1, Invariance, PTL

------------------------------------------------------------------------------

LEMMA TornFinite == TypeOK => IsFiniteSet(Torn) /\ Cardinality(Torn) \in Nat
<1> SUFFICES ASSUME TypeOK PROVE IsFiniteSet(Torn) /\ Cardinality(Torn) \in Nat
  OBVIOUS
<1>1. Len(file) \in Nat
  BY DEF TypeOK
<1>2. IsFiniteSet(1..Len(file)) /\ Torn \in SUBSET (1..Len(file))
  BY <1>1, FS_Interval DEF Torn
<1> QED
  BY <1>2, FS_Subset, FS_CardinalityType

\* A step without a mishap tears nothing.
LEMMA NothingTorn ==
    ASSUME TypeOK, TornBounded, Torn' \subseteq Torn, mishaps' = mishaps
    PROVE  TornBounded'
<1>1. PICK S : S = Torn
  OBVIOUS
<1>2. PICK T : T = Torn'
  OBVIOUS
<1>3. Cardinality(T) <= Cardinality(S) /\ Cardinality(T) \in Nat /\ Cardinality(S) \in Nat
  <2>1. IsFiniteSet(S) /\ Cardinality(S) \in Nat /\ T \in SUBSET S
    BY <1>1, <1>2, TornFinite
  <2> QED
    BY <2>1, FS_Subset, FS_CardinalityType
<1>4. mishaps \in Nat
  BY BoundsAssumption DEF TypeOK
<1> QED
  BY <1>1, <1>2, <1>3, <1>4 DEF TornBounded

\* A mishap tears the last head at most.
LEMMA OneTorn ==
    ASSUME TypeOK, TornBounded, NEW n \in Nat,
           Torn' \subseteq Torn \cup {n}, mishaps' = mishaps + 1
    PROVE  TornBounded'
<1>1. PICK S : S = Torn
  OBVIOUS
<1>2. PICK T : T = Torn'
  OBVIOUS
<1>3. /\ Cardinality(T) <= Cardinality(S) + 1
      /\ Cardinality(T) \in Nat /\ Cardinality(S) \in Nat
  <2>1. IsFiniteSet(S) /\ Cardinality(S) \in Nat /\ T \in SUBSET (S \cup {n})
    BY <1>1, <1>2, TornFinite
  <2>2. /\ IsFiniteSet(S \cup {n})
        /\ Cardinality(S \cup {n}) \in Nat /\ Cardinality(S \cup {n}) <= Cardinality(S) + 1
    <3>1. /\ IsFiniteSet(S \cup {n})
          /\ Cardinality(S \cup {n}) = IF n \in S THEN Cardinality(S) ELSE Cardinality(S) + 1
      BY <2>1, FS_AddElement
    <3> QED
      BY <2>1, <3>1
  <2>3. IsFiniteSet(T) /\ Cardinality(T) <= Cardinality(S \cup {n})
    BY <2>1, <2>2, FS_Subset
  <2> QED
    BY <2>1, <2>2, <2>3, FS_CardinalityType
<1>4. mishaps \in Nat
  BY BoundsAssumption DEF TypeOK
<1> QED
  BY <1>1, <1>2, <1>3, <1>4 DEF TornBounded

\* Putting a piece tears nothing: a rest completes the head before it, and a
\* head waits for its rest.
LEMMA PutTearsNothing ==
    ASSUME IInv, NEW w \in Writers, WriteWhole(w) \/ WriteHead(w) \/ WriteRest(w)
    PROVE  Torn' \subseteq Torn /\ mishaps' = mishaps
<1> USE DEF IInv
<1>1. \A v \in Writers : v # w => pc[v] # "half"
  BY DEF LockHeld, WriteWhole, WriteHead, WriteRest
<1>2. PICK part \in {"whole", "head", "rest"} :
        /\ Put(w, part) /\ mishaps' = mishaps
        /\ part # "rest" => ~HalfWay
        /\ part = "head" => HalfWay'
  <2>1. CASE WriteWhole(w)
    <3> WITNESS "whole" \in {"whole", "head", "rest"}
    <3> QED
      BY <1>1, <2>1 DEF WriteWhole, HalfWay
  <2>2. CASE WriteHead(w)
    <3>1. pc'[w] = "half"
      BY <2>2 DEF WriteHead, TypeOK
    <3> WITNESS "head" \in {"whole", "head", "rest"}
    <3> QED
      BY <1>1, <2>2, <3>1 DEF WriteHead, HalfWay
  <2>3. CASE WriteRest(w)
    <3> WITNESS "rest" \in {"whole", "head", "rest"}
    <3> QED
      BY <2>3 DEF WriteRest
  <2> QED
    BY <2>1, <2>2, <2>3
<1>3. /\ Len(file) \in Nat /\ Len(file') = Len(file) + 1
      /\ \A i \in 1..Len(file) : file'[i] = file[i]
      /\ file'[Len(file')].part = part
  <2>1. Len(file) \in Nat
    BY DEF TypeOK
  <2>2. /\ Len(file') = Len(file) + 1
        /\ \A i \in 1..Len(file) : file'[i] = file[i]
        /\ file'[Len(file')] = [of |-> record[w], part |-> part]
    BY <1>2, PutOne
  <2> QED
    BY <2>1, <2>2
<1>4. ASSUME NEW i \in Torn' PROVE i \in Torn
  <2>1. /\ i \in 1..Len(file') /\ file'[i].part = "head"
        /\ i < Len(file') => file'[i + 1].part # "rest"
        /\ i = Len(file') => ~HalfWay'
    BY <1>4 DEF Torn
  <2>2. i \in 1..Len(file)
    BY <1>2, <1>3, <2>1
  <2>3. file[i].part = "head"
    BY <1>3, <2>1, <2>2
  <2>4. i < Len(file) => file[i + 1].part # "rest"
    <3> SUFFICES ASSUME i < Len(file) PROVE file[i + 1].part # "rest"
      OBVIOUS
    <3>1. i + 1 \in 1..Len(file) /\ i < Len(file')
      BY <1>3, <2>2
    <3> QED
      BY <1>3, <2>1, <3>1
  <2>5. i = Len(file) => ~HalfWay
    BY <1>2, <1>3, <2>1
  <2> QED
    BY <2>2, <2>3, <2>4, <2>5 DEF Torn
<1> QED
  BY <1>2, <1>4

LEMMA TornStep == IInv /\ TornBounded /\ [Next]_vars => TornBounded'
<1> SUFFICES ASSUME IInv, TornBounded, [Next]_vars PROVE TornBounded'
  OBVIOUS
<1> USE DEF IInv
<1>0. Len(file) \in Nat
  BY DEF TypeOK
<1>1. ASSUME file' = file, mishaps' = mishaps, HalfWay => HalfWay' PROVE TornBounded'
  <2>1. Torn' \subseteq Torn
    BY <1>1 DEF Torn
  <2> QED
    BY <1>1, <2>1, NothingTorn
<1>2. ASSUME file' = file, mishaps' = mishaps + 1 PROVE TornBounded'
  <2>1. Torn' \subseteq Torn \cup {Len(file)}
    BY <1>2 DEF Torn
  <2> QED
    BY <1>0, <1>2, <2>1, OneTorn
<1>3. ASSUME NEW w \in Writers,
             Arrive(w) \/ OpenFails(w) \/ Lock(w) \/ Sync(w) \/ SyncFails(w)
      PROVE  TornBounded'
  <2>1. /\ file' = file /\ mishaps' = mishaps
        /\ pc[w] # "half" /\ \A v \in Writers : v # w => pc'[v] = pc[v]
    BY <1>3
    DEF Arrive, OpenFails, Lock, CanLock, Sync, SyncFails, Unlock, TypeOK
  <2>2. HalfWay => HalfWay'
    BY <2>1 DEF HalfWay
  <2> QED
    BY <1>1, <2>1, <2>2
<1>4. ASSUME NEW w \in Writers, WriteWhole(w) \/ WriteHead(w) \/ WriteRest(w)
      PROVE  TornBounded'
  BY <1>4, PutTearsNothing, NothingTorn
<1>5. ASSUME NEW w \in Writers, WriteFails(w) PROVE TornBounded'
  BY <1>2, <1>5 DEF WriteFails, Mishap
<1>6. CASE Restart
  BY <1>2, <1>6 DEF Restart, Reboot, Mishap
<1>7. CASE PowerLoss
  <2>1. PICK n \in synced..Len(file) :
           LET kept == SubSeq(file, 1, n) IN
           \/ file' = kept /\ synced' = n
           \/ /\ n < Len(file) /\ file[n + 1].part = "whole"
              /\ file' = Append(kept, [file[n + 1] EXCEPT !.part = "head"])
              /\ synced' = n + 1
    BY <1>7 DEF PowerLoss
  <2>2. /\ file \in Seq(Piece) /\ synced \in Nat
        /\ n \in Nat /\ n <= Len(file)
    BY DEF TypeOK
  <2>3. /\ Len(file') \in Nat /\ Len(file') <= Len(file)
        /\ \A i \in 1..Len(file') : i < Len(file') => file'[i] = file[i]
        /\ file[Len(file')].part = "rest" => file'[Len(file')].part = "rest"
           \/ Len(file') = 0
    <3> DEFINE kept == SubSeq(file, 1, n)
    <3>1. kept \in Seq(Piece) /\ Len(kept) = n /\ \A i \in 1..n : kept[i] = file[i]
      BY <1>0, <2>2
    <3> HIDE DEF kept
    <3>2. CASE file' = kept
      BY <1>0, <2>2, <3>1, <3>2
    <3>3. CASE /\ n < Len(file) /\ file[n + 1].part = "whole"
               /\ file' = Append(kept, [file[n + 1] EXCEPT !.part = "head"])
      <4> DEFINE head == [file[n + 1] EXCEPT !.part = "head"]
      <4>1. head \in Piece
        <5>1. file[n + 1] \in Piece
          BY <1>0, <2>2, <3>3
        <5> QED
          BY <5>1 DEF Piece
      <4> HIDE DEF head
      <4>2. Len(file') = n + 1 /\ \A i \in 1..n : file'[i] = kept[i]
        BY <2>2, <3>1, <3>3, <4>1 DEF head
      <4> QED
        BY <1>0, <2>2, <3>1, <3>3, <4>2
    <3> QED
      BY <2>1, <3>2, <3>3 DEF kept
  <2>4. ASSUME NEW i \in Torn', i # Len(file') PROVE i \in Torn
    <3>1. /\ i \in 1..Len(file') /\ i < Len(file') /\ file'[i].part = "head"
          /\ file'[i + 1].part # "rest"
      BY <2>3, <2>4 DEF Torn
    <3>2. i \in 1..Len(file) /\ i < Len(file) /\ file[i].part = "head"
      BY <1>0, <2>3, <3>1
    <3>3. file[i + 1].part # "rest"
      <4>1. CASE i + 1 < Len(file')
        <5>1. i + 1 \in 1..Len(file') /\ file'[i + 1] = file[i + 1]
          BY <2>3, <3>1, <4>1
        <5> QED
          BY <3>1, <5>1
      <4>2. CASE i + 1 = Len(file')
        BY <2>3, <3>1, <4>2
      <4> QED
        BY <2>3, <3>1, <4>1, <4>2
    <3> QED
      BY <3>2, <3>3 DEF Torn
  <2>5. mishaps' = mishaps + 1
    BY <1>7 DEF PowerLoss, Reboot, Mishap
  <2>6. PICK m : m = Len(file')
    OBVIOUS
  <2> QED
    BY <2>3, <2>4, <2>5, <2>6, OneTorn
<1>8. CASE UNCHANGED vars
  BY <1>1, <1>8 DEF vars, HalfWay
<1> QED
  BY <1>3, <1>4, <1>5, <1>6, <1>7, <1>8 DEF Next

\* Every record that was told and cannot be read has a torn head of its own.
LEMMA SpoiltByTorn ==
    ASSUME IInv, TornBounded
    PROVE  EachMishapSpoilsOne
<1> USE DEF IInv
<1> DEFINE Spoilt == {n \in told : ~Readable(n)}
<1>1. file \in Seq(Piece) /\ Len(file) \in Nat /\ synced \in Nat /\ synced <= Len(file)
  BY DEF TypeOK
<1>2. \A n \in Spoilt : \E i \in Torn : i + 1 \in 1..Len(file) /\ file[i + 1].of = n
  <2> SUFFICES ASSUME NEW n \in Spoilt
               PROVE  \E i \in Torn : i + 1 \in 1..Len(file) /\ file[i + 1].of = n
    OBVIOUS
  <2>1. Done(file, n, Len(file))
    BY <1>1, DoneStays DEF ToldDone
  <2>2. PICK j \in Complete(n, Len(file)) : TRUE
    BY <2>1, DoneIsComplete
  <2>3. /\ j \in 1..Len(file) /\ file[j].of = n /\ file[j].part \in {"whole", "head"}
        /\ j # 1 /\ file[j - 1].part = "head"
    BY <2>2 DEF Complete, Readable
  <2>4. j - 1 \in Torn
    BY <1>1, <2>3 DEF Torn
  <2> QED
    BY <1>1, <2>3, <2>4
<1> DEFINE Before == [n \in Spoilt |-> CHOOSE i \in Torn : /\ i + 1 \in 1..Len(file)
                                                          /\ file[i + 1].of = n]
<1>3. \A n \in Spoilt : Before[n] \in Torn /\ file[Before[n] + 1].of = n
  BY <1>2
<1> HIDE DEF Before
<1>4. Before \in Injection(Spoilt, Torn)
  <2>1. Before \in [Spoilt -> Torn]
    BY <1>3 DEF Before
  <2>2. \A m, n \in Spoilt : Before[m] = Before[n] => m = n
    BY <1>3
  <2> QED
    BY <2>1, <2>2 DEF Injection, IsInjective
<1>5. Cardinality(Spoilt) <= Cardinality(Torn) /\ IsFiniteSet(Spoilt)
  BY <1>4, TornFinite, FS_Injection
<1>6. Cardinality(Spoilt) \in Nat /\ Cardinality(Torn) \in Nat /\ mishaps \in Nat
  BY <1>5, TornFinite, FS_CardinalityType, BoundsAssumption DEF TypeOK
<1> QED
  BY <1>5, <1>6 DEF TornBounded, EachMishapSpoilsOne

\* Appends never mix: however many overlap, no more records that were told are
\* unreadable than there were failed writes, restarts and power losses.
THEOREM SpoiltBounded == Spec => []EachMishapSpoilsOne
<1>1. Init => TornBounded
  <2> SUFFICES ASSUME Init PROVE TornBounded
    OBVIOUS
  <2>1. Torn = {} /\ mishaps = 0
    BY DEF Init, Torn
  <2> QED
    BY <2>1, FS_EmptySet DEF TornBounded
<1>2. IInv /\ TornBounded /\ [Next]_vars => TornBounded'
  BY TornStep
<1>3. IInv /\ TornBounded => EachMishapSpoilsOne
  BY SpoiltByTorn
<1> QED
  BY <1>1, <1>2, <1>3, Invariance, PTL DEF Spec

==============================================================================
