-------------------------- MODULE TaskClaims_proofs --------------------------
(***************************************************************************)
(* Theorems about TaskClaims for every set of callers, owners, keys, tasks *)
(* and durations, and for ledgers, clocks and crashes without bound.       *)
(*                                                                         *)
(* OneHolder and LedgerReplays are not inductive: a decision that waits to *)
(* be written must still be right when it is.  The invariant adds that the *)
(* ledger cannot change under it (LockHeld), what the decision relied on   *)
(* (Justified), that a clock reading is never ahead of the clock           *)
(* (ReadingsPast), and how successive claims of a task end (Succession).   *)
(* That TaskOwnership is implemented takes more: the claim a call will be  *)
(* told of is the one in force, if any (InForce, Followed, Numbered).      *)
(***************************************************************************)
EXTENDS TaskClaims, TLAPS

------------------------------------------------------------------------------
(***************************************************************************)
(* The ledger as a sequence: what appending the record of a decision, or   *)
(* losing a suffix, does to the claims it holds.                           *)
(***************************************************************************)


(***************************************************************************)
(* Of two claims of a task in the ledger, by time c the earlier one is     *)
(* over before the later one: it has expired, or a release of it lies      *)
(* between them.                                                           *)
(***************************************************************************)
Succession(L, c) ==
    \A i, j \in DOMAIN L :
        /\ i < j
        /\ L[i].kind = "claimed" /\ L[j].kind = "claimed"
        /\ L[i].task = L[j].task
        => \/ L[i].expires <= c
           \/ \E k \in DOMAIN L :
                 /\ i < k /\ k < j
                 /\ L[k].kind = "released"
                 /\ L[k].task = L[i].task /\ L[k].id = L[i].id

\* Appending a record leaves the earlier ones where they were.
LEMMA AppendEntry ==
    ASSUME NEW L \in Seq(Entry), NEW e \in Entry
    PROVE  /\ Append(L, e) \in Seq(Entry)
           /\ Len(Append(L, e)) = Len(L) + 1
           /\ DOMAIN L = 1..Len(L)
           /\ DOMAIN Append(L, e) = 1..Len(L) + 1
           /\ Append(L, e)[Len(L) + 1] = e
           /\ \A i \in DOMAIN L : Append(L, e)[i] = L[i]
           /\ Len(L) \in Nat
  OBVIOUS

\* So does losing the records after the n-th.
LEMMA PrefixEntry ==
    ASSUME NEW L \in Seq(Entry), NEW n \in 0..Len(L)
    PROVE  /\ SubSeq(L, 1, n) \in Seq(Entry)
           /\ Len(SubSeq(L, 1, n)) = n
           /\ DOMAIN L = 1..Len(L)
           /\ DOMAIN SubSeq(L, 1, n) = 1..n
           /\ \A i \in 1..n : i \in DOMAIN L /\ SubSeq(L, 1, n)[i] = L[i]
           /\ Len(L) \in Nat
  OBVIOUS

------------------------------------------------------------------------------

\* A record keeps a ledger replayable if, when it is a release, it matches the
\* claim that is current on its task.
LEMMA AppendReplayable ==
    ASSUME NEW L \in Seq(Entry), NEW e \in Entry,
           Replayable(L),
           e.kind = "released" =>
               \E i \in Current(L, e.task) : L[i].owner = e.owner /\ L[i].id = e.id
    PROVE  Replayable(Append(L, e))
<1> DEFINE M == Append(L, e)
           n == Len(L) + 1
<1>1. /\ DOMAIN L = 1..Len(L) /\ DOMAIN M = 1..n /\ Len(L) \in Nat
      /\ M[n] = e /\ \A i \in DOMAIN L : M[i] = L[i]
  BY AppendEntry
<1> HIDE DEF M
<1> SUFFICES ASSUME NEW j \in DOMAIN M, M[j].kind = "released"
             PROVE  \E i \in DOMAIN M : Releases(M, i, j)
  BY DEF Replayable, M
<1>2. CASE j \in DOMAIN L
  <2>1. PICK i \in DOMAIN L : Releases(L, i, j)
    BY <1>1, <1>2 DEF Replayable
  <2>2. Releases(M, i, j)
    BY <1>1, <1>2, <2>1 DEF Releases
  <2> QED
    BY <1>1, <2>2
<1>3. CASE j = n
  <2>1. PICK i \in Current(L, e.task) : L[i].owner = e.owner /\ L[i].id = e.id
    BY <1>1, <1>3
  <2>2. /\ i \in DOMAIN L /\ L[i].kind = "claimed" /\ L[i].task = e.task
        /\ \A k \in DOMAIN L : k > i => ~Touches(L[k], e.task)
    BY DEF Current
  <2>3. Releases(M, i, j)
    BY <1>1, <1>3, <2>1, <2>2 DEF Releases
  <2> QED
    BY <1>1, <2>2, <2>3
<1> QED
  BY <1>1, <1>2, <1>3

\* A prefix of a replayable ledger is replayable: a release and the claim it
\* matches survive together.
LEMMA PrefixReplayable ==
    ASSUME NEW L \in Seq(Entry), NEW n \in 0..Len(L), Replayable(L)
    PROVE  Replayable(SubSeq(L, 1, n))
<1> DEFINE M == SubSeq(L, 1, n)
<1>1. /\ DOMAIN L = 1..Len(L) /\ DOMAIN M = 1..n /\ Len(L) \in Nat
      /\ \A i \in 1..n : i \in DOMAIN L /\ M[i] = L[i]
  BY PrefixEntry
<1> HIDE DEF M
<1> SUFFICES ASSUME NEW j \in DOMAIN M, M[j].kind = "released"
             PROVE  \E i \in DOMAIN M : Releases(M, i, j)
  BY DEF Replayable, M
<1>2. PICK i \in DOMAIN L : Releases(L, i, j)
  BY <1>1 DEF Replayable
<1>3. i \in DOMAIN M /\ Releases(M, i, j)
  BY <1>1, <1>2 DEF Releases
<1> QED
  BY <1>3

------------------------------------------------------------------------------

\* A record preserves succession if, when it is a claim, no claim on its task
\* was active at the reading of the clock the decision used, however old.
LEMMA AppendSuccession ==
    ASSUME NEW L \in Seq(Entry), NEW e \in Entry, NEW c \in Nat, NEW now \in Nat,
           now <= c,
           Replayable(L), Succession(L, c),
           e.kind = "claimed" => Active(L, e.task, now) = {}
    PROVE  Succession(Append(L, e), c)
<1> DEFINE M == Append(L, e)
           n == Len(L) + 1
           Over(i, j) == \/ L[i].expires <= c
                         \/ \E k \in DOMAIN L :
                               /\ i < k /\ k < j
                               /\ L[k].kind = "released"
                               /\ L[k].task = L[i].task /\ L[k].id = L[i].id
<1>1. /\ DOMAIN L = 1..Len(L) /\ DOMAIN M = 1..n /\ Len(L) \in Nat
      /\ M[n] = e /\ \A i \in DOMAIN L : M[i] = L[i]
  BY AppendEntry
<1> HIDE DEF M
<1> SUFFICES ASSUME NEW i \in DOMAIN M, NEW j \in DOMAIN M,
                    i < j, M[i].kind = "claimed", M[j].kind = "claimed",
                    M[i].task = M[j].task
             PROVE  \/ M[i].expires <= c
                    \/ \E k \in DOMAIN M :
                          /\ i < k /\ k < j
                          /\ M[k].kind = "released"
                          /\ M[k].task = M[i].task /\ M[k].id = M[i].id
  BY DEF Succession, M
<1>2. i \in DOMAIN L /\ M[i] = L[i] /\ i \in Nat
  BY <1>1
<1>3. SUFFICES Over(i, j)
  BY <1>1, <1>2
<1>4. CASE j \in DOMAIN L
  BY <1>1, <1>2, <1>4 DEF Succession
<1>5. CASE j = n /\ i \in Current(L, e.task)
  <2>1. L[i].expires <= now
    <3>1. ~(L[i].expires > now)
      BY <1>1, <1>5 DEF Active
    <3>2. L[i].expires \in Nat
      BY <1>1, <1>2 DEF Entry, ClaimEntry, ReleaseEntry, Noted
    <3> QED
      BY <3>1, <3>2
  <2>2. L[i].expires \in Nat
    BY <1>1, <1>2 DEF Entry, ClaimEntry, ReleaseEntry, Noted
  <2> QED
    BY <2>1, <2>2
<1>6. CASE j = n /\ i \notin Current(L, e.task)
  <2>1. PICK m \in DOMAIN L : m > i /\ Touches(L[m], e.task)
    BY <1>1, <1>2, <1>6 DEF Current
  <2>2. m \in Nat /\ m < n /\ L[m].task = L[i].task
    BY <1>1, <1>2, <1>6, <2>1 DEF Touches
  <2>3. CASE L[m].kind = "claimed"
    BY <1>1, <1>2, <1>6, <2>1, <2>2, <2>3 DEF Succession
  <2>4. CASE L[m].kind = "released"
    <3>1. PICK h \in DOMAIN L : Releases(L, h, m)
      BY <2>4 DEF Replayable
    <3>2. /\ h \in Nat /\ h < m /\ L[h].kind = "claimed"
          /\ L[h].task = L[m].task /\ L[h].id = L[m].id
          /\ ~(h < i)
      BY <1>1, <1>2, <2>1, <2>2, <3>1 DEF Releases, Touches
    <3>3. CASE h = i
      BY <1>2, <1>6, <2>1, <2>2, <2>4, <3>2, <3>3
    <3>4. CASE i < h
      BY <1>1, <1>2, <1>6, <2>1, <2>2, <3>2, <3>4 DEF Succession
    <3> QED
      BY <1>2, <3>2, <3>3, <3>4
  <2> QED
    BY <2>1, <2>3, <2>4 DEF Touches
<1> QED
  BY <1>1, <1>4, <1>5, <1>6

\* A prefix of a ledger in succession is in succession.
LEMMA PrefixSuccession ==
    ASSUME NEW L \in Seq(Entry), NEW n \in 0..Len(L), NEW c \in Nat, Succession(L, c)
    PROVE  Succession(SubSeq(L, 1, n), c)
<1> DEFINE M == SubSeq(L, 1, n)
<1>1. /\ DOMAIN L = 1..Len(L) /\ DOMAIN M = 1..n /\ Len(L) \in Nat
      /\ \A i \in 1..n : i \in DOMAIN L /\ M[i] = L[i]
  BY PrefixEntry
<1> HIDE DEF M
<1>2. Succession(M, c)
  BY <1>1 DEF Succession
<1> QED
  BY <1>2 DEF M

\* Succession is not disturbed by the passing of time.
LEMMA TickSuccession ==
    ASSUME NEW L \in Seq(Entry), NEW c \in Nat, Succession(L, c)
    PROVE  Succession(L, c + 1)
<1>1. \A i \in DOMAIN L : L[i].kind = "claimed" => L[i].expires \in Nat
  BY DEF Entry, ClaimEntry, ReleaseEntry, Noted
<1> QED
  BY <1>1 DEF Succession

------------------------------------------------------------------------------
(***************************************************************************)
(* The claim in force on a task, and claims whose release may be undone.   *)
(***************************************************************************)

HolderOf(L, t, c) ==
    IF Active(L, t, c) = {} THEN Noted ELSE L[CHOOSE i \in Active(L, t, c) : TRUE]

LimboOf(L, s, c) ==
    {L[i] : i \in
        {i \in DOMAIN L : /\ L[i].kind = "claimed" /\ L[i].expires > c
                          /\ \E j \in s + 1..Len(L) : Releases(L, i, j)}}

\* A claim after which its task is touched again is over: expired by time c, or
\* released by then.
Followed(L, c) ==
    \A i, j \in DOMAIN L :
        i < j /\ L[i].kind = "claimed" /\ Touches(L[j], L[i].task)
        => L[i].expires <= c \/ \E k \in DOMAIN L : k <= j /\ Releases(L, i, k)

\* A claim's ID tells its place.
Numbered(L) == \A i \in DOMAIN L : L[i].kind = "claimed" => L[i].id = i

\* A task has one current claim.
LEMMA CurrentIsUnique ==
    ASSUME NEW L \in Seq(Entry), NEW t,
           NEW i \in Current(L, t), NEW j \in Current(L, t)
    PROVE  i = j
<1>1. i \in 1..Len(L) /\ j \in 1..Len(L) /\ Len(L) \in Nat
  BY DEF Current
<1>2. ~(i < j) /\ ~(j < i)
  BY <1>1 DEF Current, Touches
<1> QED
  BY <1>1, <1>2

LEMMA ClaimFields ==
    ASSUME NEW e \in Entry, e.kind = "claimed"
    PROVE  e \in ClaimEntry /\ e.expires \in Nat /\ e # Noted
  BY DEF Entry, ClaimEntry, ReleaseEntry, Noted

\* The holder is the one active claim, and is a claim of the task.
LEMMA HolderIs ==
    ASSUME NEW L \in Seq(Entry), NEW t, NEW c \in Nat
    PROVE  /\ \A i \in Active(L, t, c) :
                  /\ HolderOf(L, t, c) = L[i]
                  /\ L[i] \in ClaimEntry /\ L[i].task = t /\ L[i].expires > c
                  /\ L[i] # Noted
           /\ Active(L, t, c) = {} => HolderOf(L, t, c) = Noted
<1> SUFFICES ASSUME NEW i \in Active(L, t, c)
             PROVE  /\ HolderOf(L, t, c) = L[i]
                    /\ L[i] \in ClaimEntry /\ L[i].task = t /\ L[i].expires > c
                    /\ L[i] # Noted
  BY DEF HolderOf
<1>1. i \in DOMAIN L /\ L[i] \in Entry /\ L[i].kind = "claimed" /\ L[i].task = t
      /\ L[i].expires > c
  BY DEF Active, Current
<1>2. PICK j \in Active(L, t, c) : HolderOf(L, t, c) = L[j]
  BY DEF HolderOf
<1>3. i = j
  BY CurrentIsUnique DEF Active
<1> QED
  BY <1>1, <1>2, <1>3, ClaimFields

\* A claim is current when it is appended, and stays so under records that do not
\* touch its task.
LEMMA AppendCurrent ==
    ASSUME NEW L \in Seq(Entry), NEW e \in Entry
    PROVE  /\ e.kind = "claimed" =>
                  \E i \in Current(Append(L, e), e.task) : Append(L, e)[i] = e
           /\ \A t : \A i \in Current(L, t) : ~Touches(e, t) =>
                  i \in Current(Append(L, e), t) /\ Append(L, e)[i] = L[i]
<1> DEFINE n == Len(L) + 1
<1>1. PICK M \in Seq(Entry) : M = Append(L, e)
  BY AppendEntry
<1>2. /\ DOMAIN L = 1..Len(L) /\ DOMAIN M = 1..n /\ Len(L) \in Nat
      /\ M[n] = e /\ \A i \in DOMAIN L : M[i] = L[i]
  BY <1>1, AppendEntry
<1>3. ASSUME e.kind = "claimed" PROVE n \in Current(M, e.task)
  BY <1>2, <1>3 DEF Current
<1>4. ASSUME NEW t, NEW i \in Current(L, t), ~Touches(e, t)
      PROVE  i \in Current(M, t) /\ M[i] = L[i]
  BY <1>2, <1>4 DEF Current
<1> QED
  BY <1>1, <1>2, <1>3, <1>4

\* A record changes the holder of the task it claims or releases, and no other.
LEMMA AppendHolder ==
    ASSUME NEW L \in Seq(Entry), NEW e \in Entry, NEW t, NEW c \in Nat
    PROVE  /\ ~Touches(e, t) => HolderOf(Append(L, e), t, c) = HolderOf(L, t, c)
           /\ Touches(e, t) /\ (e.kind = "released" \/ ~(e.expires > c)) =>
                  HolderOf(Append(L, e), t, c) = Noted
           /\ Touches(e, t) /\ e.kind = "claimed" /\ e.expires > c =>
                  HolderOf(Append(L, e), t, c) = e
<1> DEFINE n == Len(L) + 1
<1>1. PICK M \in Seq(Entry) : M = Append(L, e)
  BY AppendEntry
<1>2. /\ DOMAIN L = 1..Len(L) /\ DOMAIN M = 1..n /\ Len(L) \in Nat
      /\ M[n] = e /\ \A i \in DOMAIN L : M[i] = L[i]
  BY <1>1, AppendEntry
<1>3. CASE ~Touches(e, t)
  <2>1. \A i \in DOMAIN M : i \in Current(M, t) <=> i \in Current(L, t)
    BY <1>2, <1>3 DEF Current, Touches
  <2>2. Active(M, t, c) = Active(L, t, c)
    BY <1>2, <2>1 DEF Active, Current
  <2>3. ASSUME Active(L, t, c) = {}
        PROVE  HolderOf(M, t, c) = HolderOf(L, t, c)
    BY <2>2, <2>3 DEF HolderOf
  <2>4. ASSUME NEW i \in Active(L, t, c)
        PROVE  HolderOf(M, t, c) = HolderOf(L, t, c)
    <3>1. M[i] = L[i]
      BY <1>2 DEF Active, Current
    <3>2. HolderOf(L, t, c) = L[i] /\ HolderOf(M, t, c) = M[i]
      BY <2>2, HolderIs
    <3> QED
      BY <3>1, <3>2
  <2> QED
    BY <1>1, <1>3, <2>3, <2>4
<1>4. CASE Touches(e, t)
  <2>1. \A i \in Current(M, t) : i = n
    BY <1>2, <1>4 DEF Current
  <2>2. n \in Active(M, t, c) <=> e.kind = "claimed" /\ e.expires > c
    BY <1>2, <1>4 DEF Active, Current, Touches
  <2>3. n \notin Active(M, t, c) => Active(M, t, c) = {}
    BY <2>1 DEF Active
  <2>4. e.kind = "claimed" /\ e.expires > c => HolderOf(M, t, c) = e
    BY <1>2, <2>2, HolderIs
  <2>5. ~(e.kind = "claimed" /\ e.expires > c) => HolderOf(M, t, c) = Noted
    BY <2>2, <2>3, HolderIs
  <2> QED
    BY <1>1, <1>4, <2>4, <2>5
<1> QED
  BY <1>3, <1>4

\* In an appended ledger, what was released is so still, and the new record
\* releases what was current.
LEMMA AppendReleases ==
    ASSUME NEW L \in Seq(Entry), NEW e \in Entry, NEW i \in DOMAIN L
    PROVE  /\ \A j \in DOMAIN L : Releases(Append(L, e), i, j) <=> Releases(L, i, j)
           /\ Releases(Append(L, e), i, Len(L) + 1) <=>
                  /\ e.kind = "released" /\ i \in Current(L, e.task)
                  /\ L[i].owner = e.owner /\ L[i].id = e.id
<1> DEFINE n == Len(L) + 1
<1>1. PICK M \in Seq(Entry) : M = Append(L, e)
  BY AppendEntry
<1>2. /\ DOMAIN L = 1..Len(L) /\ DOMAIN M = 1..n /\ Len(L) \in Nat
      /\ M[n] = e /\ \A k \in DOMAIN L : M[k] = L[k]
  BY <1>1, AppendEntry
<1>3. ASSUME NEW j \in DOMAIN L
      PROVE  Releases(M, i, j) <=> Releases(L, i, j)
  BY <1>2 DEF Releases
<1>4. Releases(M, i, n) <=>
          /\ e.kind = "released" /\ i \in Current(L, e.task)
          /\ L[i].owner = e.owner /\ L[i].id = e.id
  <2>1. Releases(M, i, n) <=>
            /\ e.kind = "released" /\ L[i].kind = "claimed" /\ L[i].task = e.task
            /\ L[i].owner = e.owner /\ L[i].id = e.id
            /\ \A k \in DOMAIN L : i < k => ~Touches(L[k], e.task)
    BY <1>2 DEF Releases
  <2> QED
    BY <1>2, <2>1 DEF Current
<1> QED
  BY <1>1, <1>3, <1>4

\* A release that matches puts the claim it drops into limbo, if that is not over;
\* no other record does.
LEMMA AppendLimbo ==
    ASSUME NEW L \in Seq(Entry), NEW e \in Entry, NEW s \in 0..Len(L), NEW c \in Nat
    PROVE  /\ e.kind # "released" => LimboOf(Append(L, e), s, c) = LimboOf(L, s, c)
           /\ \A i \in Current(L, e.task) :
                  e.kind = "released" /\ L[i].owner = e.owner /\ L[i].id = e.id =>
                      LimboOf(Append(L, e), s, c) =
                          IF L[i].expires > c THEN LimboOf(L, s, c) \cup {L[i]}
                          ELSE LimboOf(L, s, c)
<1> DEFINE n == Len(L) + 1
           In(N, i) == /\ N[i].kind = "claimed" /\ N[i].expires > c
                       /\ \E j \in s + 1..Len(N) : Releases(N, i, j)
<1>1. PICK M \in Seq(Entry) : M = Append(L, e)
  BY AppendEntry
<1>2. /\ DOMAIN L = 1..Len(L) /\ DOMAIN M = 1..n /\ Len(L) \in Nat /\ Len(M) = n
      /\ M[n] = e /\ \A i \in DOMAIN L : M[i] = L[i]
  BY <1>1, AppendEntry
<1>3. ~In(M, n)
  BY <1>2 DEF Releases
<1>4. ASSUME NEW i \in DOMAIN L
      PROVE  In(M, i) <=> \/ In(L, i)
                          \/ /\ L[i].kind = "claimed" /\ L[i].expires > c
                             /\ Releases(M, i, n)
  <2>1. s + 1..n = (s + 1..Len(L)) \cup {n} /\ s + 1..Len(L) \subseteq DOMAIN L
    BY <1>2
  <2>2. \A j \in DOMAIN L : Releases(M, i, j) <=> Releases(L, i, j)
    BY <1>1, AppendReleases
  <2> QED
    BY <1>2, <2>1, <2>2
<1>5. LimboOf(M, s, c) = {M[i] : i \in {i \in DOMAIN M : In(M, i)}}
  BY DEF LimboOf
<1>6. LimboOf(L, s, c) = {L[i] : i \in {i \in DOMAIN L : In(L, i)}}
  BY DEF LimboOf
<1>7. \A x : x \in LimboOf(M, s, c) <=> \E i \in DOMAIN L : x = L[i] /\ In(M, i)
  <2> HIDE DEF In
  <2> QED
    BY <1>2, <1>3, <1>5
<1>8. \A x : x \in LimboOf(L, s, c) <=> \E i \in DOMAIN L : x = L[i] /\ In(L, i)
  <2> HIDE DEF In
  <2> QED
    BY <1>6
<1> HIDE DEF In
<1>9. CASE e.kind # "released"
  <2>1. \A i \in DOMAIN L : In(M, i) <=> In(L, i)
    BY <1>1, <1>4, <1>9, AppendReleases
  <2> QED
    BY <1>1, <1>7, <1>8, <1>9, <2>1
<1>10. ASSUME NEW i \in Current(L, e.task),
              e.kind = "released", L[i].owner = e.owner, L[i].id = e.id
       PROVE  LimboOf(M, s, c) = IF L[i].expires > c THEN LimboOf(L, s, c) \cup {L[i]}
                                 ELSE LimboOf(L, s, c)
  <2>1. \A k \in DOMAIN L : Releases(M, k, n) <=> k = i
    <3>1. \A k \in DOMAIN L : Releases(M, k, n) => k \in Current(L, e.task)
      BY <1>1, AppendReleases
    <3>2. i \in DOMAIN L /\ Releases(M, i, n)
      BY <1>1, <1>10, AppendReleases DEF Current
    <3> QED
      BY <3>1, <3>2, CurrentIsUnique
  <2>2. i \in DOMAIN L /\ L[i].kind = "claimed"
    BY DEF Current
  <2>3. \A k \in DOMAIN L : In(M, k) <=> In(L, k) \/ (k = i /\ L[i].expires > c)
    BY <1>4, <2>1, <2>2
  <2> QED
    BY <1>7, <1>8, <2>2, <2>3
<1> QED
  BY <1>1, <1>9, <1>10

\* As time passes, what expires is no longer held and no longer in limbo.
LEMMA TickHolder ==
    ASSUME NEW L \in Seq(Entry), NEW t, NEW c \in Nat
    PROVE  HolderOf(L, t, c + 1) =
               IF HolderOf(L, t, c) # Noted /\ HolderOf(L, t, c).expires <= c + 1
               THEN Noted ELSE HolderOf(L, t, c)
<1>1. \A i \in Current(L, t) : L[i].expires \in Nat
  BY ClaimFields DEF Current
<1>2. CASE Active(L, t, c) = {}
  <2>1. Active(L, t, c + 1) = {}
    BY <1>1, <1>2 DEF Active
  <2> QED
    BY <1>2, <2>1, HolderIs
<1>3. ASSUME NEW i \in Active(L, t, c)
      PROVE  HolderOf(L, t, c + 1) =
                 IF HolderOf(L, t, c) # Noted /\ HolderOf(L, t, c).expires <= c + 1
                 THEN Noted ELSE HolderOf(L, t, c)
  <2>1. HolderOf(L, t, c) = L[i] /\ L[i] # Noted
    BY HolderIs
  <2>2. i \in Current(L, t) /\ L[i].expires \in Nat
    BY <1>1 DEF Active
  <2>3. CASE L[i].expires <= c + 1
    <3>1. Active(L, t, c + 1) = {}
      BY <2>2, <2>3, CurrentIsUnique DEF Active
    <3> QED
      BY <2>1, <2>3, <3>1, HolderIs
  <2>4. CASE ~(L[i].expires <= c + 1)
    <3>1. i \in Active(L, t, c + 1)
      BY <2>2, <2>4 DEF Active
    <3> QED
      BY <2>1, <2>4, <3>1, HolderIs
  <2> QED
    BY <2>3, <2>4
<1> QED
  BY <1>2, <1>3

LEMMA TickLimbo ==
    ASSUME NEW L \in Seq(Entry), NEW s \in Nat, NEW c \in Nat
    PROVE  LimboOf(L, s, c + 1) = {x \in LimboOf(L, s, c) : x.expires > c + 1}
<1>1. \A i \in DOMAIN L : L[i].kind = "claimed" => L[i].expires \in Nat
  BY ClaimFields
<1> DEFINE Gone(i) == \E j \in s + 1..Len(L) : Releases(L, i, j)
<1>2. ASSUME NEW d \in Nat
      PROVE  \A x : x \in LimboOf(L, s, d) <=>
                 \E i \in DOMAIN L : /\ x = L[i] /\ L[i].kind = "claimed"
                                     /\ L[i].expires > d /\ Gone(i)
  BY DEF LimboOf
<1> HIDE DEF Gone
<1> QED
  BY <1>1, <1>2

\* Once everything is synced nothing is in limbo.
LEMMA SyncedLimbo ==
    ASSUME NEW L \in Seq(Entry), NEW c
    PROVE  LimboOf(L, Len(L), c) = {}
<1>1. Len(L) \in Nat /\ Len(L) + 1..Len(L) = {}
  OBVIOUS
<1> QED
  BY <1>1 DEF LimboOf

------------------------------------------------------------------------------

\* A record lets claims be followed only when they are over.
LEMMA AppendFollowed ==
    ASSUME NEW L \in Seq(Entry), NEW e \in Entry, NEW c \in Nat, NEW now \in Nat,
           now <= c, Followed(L, c),
           e.kind = "claimed" => Active(L, e.task, now) = {},
           e.kind = "released" =>
               \E i \in Current(L, e.task) : L[i].owner = e.owner /\ L[i].id = e.id
    PROVE  Followed(Append(L, e), c)
<1> DEFINE n == Len(L) + 1
<1>1. PICK M \in Seq(Entry) : M = Append(L, e)
  BY AppendEntry
<1>2. /\ DOMAIN L = 1..Len(L) /\ DOMAIN M = 1..n /\ Len(L) \in Nat
      /\ M[n] = e /\ \A i \in DOMAIN L : M[i] = L[i]
  BY <1>1, AppendEntry
<1> SUFFICES ASSUME NEW i \in DOMAIN M, NEW j \in DOMAIN M,
                    i < j, M[i].kind = "claimed", Touches(M[j], M[i].task)
             PROVE  \/ M[i].expires <= c
                    \/ \E k \in DOMAIN M : k <= j /\ Releases(M, i, k)
  BY <1>1 DEF Followed
<1>3. i \in DOMAIN L /\ M[i] = L[i] /\ L[i].expires \in Nat
  BY <1>2, ClaimFields
<1>4. ASSUME NEW m \in DOMAIN L, i < m, m <= j, Touches(L[m], L[i].task)
      PROVE  \/ M[i].expires <= c
             \/ \E k \in DOMAIN M : k <= j /\ Releases(M, i, k)
  <2>1. CASE L[i].expires <= c
    BY <1>3, <2>1
  <2>2. ASSUME NEW k \in DOMAIN L, k <= m, Releases(L, i, k)
        PROVE  k \in DOMAIN M /\ k <= j /\ Releases(M, i, k)
    BY <1>1, <1>2, <1>3, <1>4, <2>2, AppendReleases
  <2> QED
    BY <1>3, <1>4, <2>1, <2>2 DEF Followed
<1>5. CASE j \in DOMAIN L
  BY <1>2, <1>3, <1>4, <1>5
<1>6. CASE j = n /\ i \notin Current(L, e.task)
  <2>1. L[i].task = e.task
    BY <1>2, <1>3, <1>6 DEF Touches
  <2>2. PICK m \in DOMAIN L : m > i /\ Touches(L[m], e.task)
    BY <1>3, <1>6, <2>1 DEF Current
  <2> QED
    BY <1>2, <1>3, <1>4, <1>6, <2>1, <2>2
<1>7. CASE j = n /\ i \in Current(L, e.task) /\ e.kind = "claimed"
  BY <1>3, <1>7 DEF Active
<1>8. CASE j = n /\ i \in Current(L, e.task) /\ e.kind = "released"
  <2>1. L[i].owner = e.owner /\ L[i].id = e.id
    BY <1>8, CurrentIsUnique
  <2>2. Releases(M, i, n)
    BY <1>1, <1>3, <1>8, <2>1, AppendReleases
  <2> QED
    BY <1>2, <1>8, <2>2
<1> QED
  BY <1>2, <1>5, <1>6, <1>7, <1>8 DEF Touches

LEMMA PrefixFollowed ==
    ASSUME NEW L \in Seq(Entry), NEW n \in 0..Len(L), NEW c \in Nat, Followed(L, c)
    PROVE  Followed(SubSeq(L, 1, n), c)
<1>1. PICK M \in Seq(Entry) : M = SubSeq(L, 1, n)
  BY PrefixEntry
<1>2. /\ DOMAIN L = 1..Len(L) /\ DOMAIN M = 1..n /\ Len(L) \in Nat
      /\ \A i \in 1..n : i \in DOMAIN L /\ M[i] = L[i]
  BY <1>1, PrefixEntry
<1>3. ASSUME NEW i \in DOMAIN M, NEW k \in DOMAIN M, Releases(L, i, k)
      PROVE  Releases(M, i, k)
  BY <1>2, <1>3 DEF Releases
<1> SUFFICES ASSUME NEW i \in DOMAIN M, NEW j \in DOMAIN M,
                    i < j, M[i].kind = "claimed", Touches(M[j], M[i].task)
             PROVE  \/ M[i].expires <= c
                    \/ \E k \in DOMAIN M : k <= j /\ Releases(M, i, k)
  BY <1>1 DEF Followed
<1>4. CASE L[i].expires <= c
  BY <1>2, <1>4
<1>5. ASSUME NEW k \in DOMAIN L, k <= j, Releases(L, i, k)
      PROVE  k \in DOMAIN M /\ Releases(M, i, k)
  BY <1>2, <1>3, <1>5
<1> QED
  BY <1>2, <1>4, <1>5 DEF Followed

LEMMA TickFollowed ==
    ASSUME NEW L \in Seq(Entry), NEW c \in Nat, Followed(L, c)
    PROVE  Followed(L, c + 1)
<1>1. \A i \in DOMAIN L : L[i].kind = "claimed" => L[i].expires \in Nat
  BY ClaimFields
<1> QED
  BY <1>1 DEF Followed

\* What a ledger cut to a prefix says of a task: as before, or a claim that was in
\* limbo, or nothing where there was a claim that the prefix does not have.
LEMMA PrefixHolder ==
    ASSUME NEW L \in Seq(Entry), NEW s \in Nat, NEW n \in s..Len(L), NEW c \in Nat,
           NEW t, Followed(L, c)
    PROVE  \/ HolderOf(SubSeq(L, 1, n), t, c) = HolderOf(L, t, c)
           \/ /\ HolderOf(SubSeq(L, 1, n), t, c)
                     \in {x \in LimboOf(L, s, c) : x.task = t} \cup {Noted}
              /\ \/ HolderOf(L, t, c) = Noted
                 \/ \E i \in n + 1..Len(L) : HolderOf(L, t, c) = L[i]
<1>1. n \in 0..Len(L) /\ n \in Nat
  OBVIOUS
<1>2. PICK M \in Seq(Entry) : M = SubSeq(L, 1, n)
  BY <1>1, PrefixEntry
<1>3. /\ DOMAIN L = 1..Len(L) /\ DOMAIN M = 1..n /\ Len(L) \in Nat
      /\ \A i \in 1..n : i \in DOMAIN L /\ M[i] = L[i]
  BY <1>1, <1>2, PrefixEntry
<1>4. ASSUME NEW i \in Active(L, t, c), i <= n
      PROVE  HolderOf(M, t, c) = HolderOf(L, t, c)
  <2>1. i \in Active(M, t, c)
    BY <1>3, <1>4 DEF Active, Current
  <2>2. HolderOf(M, t, c) = M[i] /\ HolderOf(L, t, c) = L[i]
    BY <2>1, HolderIs
  <2>3. M[i] = L[i]
    BY <1>3, <2>1 DEF Active, Current
  <2> QED
    BY <2>2, <2>3
<1>5. ASSUME \A i \in Active(L, t, c) : ~(i <= n)
      PROVE  \/ HolderOf(L, t, c) = Noted
             \/ \E i \in n + 1..Len(L) : HolderOf(L, t, c) = L[i]
  <2>1. CASE Active(L, t, c) = {}
    BY <2>1, HolderIs
  <2>2. ASSUME NEW i \in Active(L, t, c)
        PROVE  i \in n + 1..Len(L) /\ HolderOf(L, t, c) = L[i]
    <3>1. i \in 1..Len(L) /\ ~(i <= n)
      BY <1>3, <1>5 DEF Active, Current
    <3>2. HolderOf(L, t, c) = L[i]
      BY HolderIs
    <3> QED
      BY <1>1, <1>3, <3>1, <3>2
  <2> QED
    BY <2>1, <2>2
<1>6. ASSUME \A i \in Active(L, t, c) : ~(i <= n)
      PROVE  HolderOf(M, t, c) \in {x \in LimboOf(L, s, c) : x.task = t} \cup {Noted}
  <2>1. CASE Active(M, t, c) = {}
    BY <2>1, HolderIs
  <2>2. ASSUME NEW i \in Active(M, t, c)
        PROVE  HolderOf(M, t, c) \in {x \in LimboOf(L, s, c) : x.task = t}
    <3>1. /\ i \in DOMAIN M /\ i \in DOMAIN L /\ M[i] = L[i]
          /\ L[i].kind = "claimed" /\ L[i].task = t /\ L[i].expires > c
          /\ L[i].expires \in Nat
      BY <1>3, ClaimFields DEF Active, Current
    <3>2. HolderOf(M, t, c) = L[i]
      BY <3>1, HolderIs
    <3>3. PICK j \in DOMAIN L : j > i /\ Touches(L[j], t)
      BY <1>3, <1>6, <3>1 DEF Active, Current
    <3>4. PICK k \in DOMAIN L : Releases(L, i, k)
      BY <1>3, <3>1, <3>3 DEF Followed
    <3>5. ~(k <= n)
      <4>1. SUFFICES ASSUME k <= n PROVE FALSE
        OBVIOUS
      <4>2. k \in DOMAIN M /\ k > i /\ Touches(M[k], t)
        BY <1>3, <3>1, <3>4, <4>1 DEF Releases, Touches
      <4> QED
        BY <4>2 DEF Active, Current
    <3>6. k \in s + 1..Len(L)
      BY <1>1, <1>3, <3>5
    <3>7. L[i] \in LimboOf(L, s, c)
      BY <3>1, <3>4, <3>6 DEF LimboOf
    <3> QED
      BY <3>1, <3>2, <3>7
  <2> QED
    BY <2>1, <2>2
<1> QED
  BY <1>2, <1>4, <1>5, <1>6

------------------------------------------------------------------------------
(***************************************************************************)
(* The invariant of the service.                                           *)
(***************************************************************************)

\* A decided or written record belongs to the holder of the lock.
LockHeld == \A p \in Callers : pc[p] \in {"decided", "written"} => lock = p

\* A call's reading of the clock is never in the future.
ReadingsPast == \A p \in Callers : call[p].now <= clock

\* What the decision found in the ledger is still there when it is written.
Justified(p) ==
    LET e == call[p].entry IN
    /\ e.kind = "claimed" => Active(ledger, e.task, call[p].now) = {}
    /\ e.kind = "released" =>
          \E i \in Current(ledger, e.task) :
              ledger[i].owner = e.owner /\ ledger[i].id = e.id
    /\ call[p].reply \in {Noted, e} \cup {ledger[i] : i \in DOMAIN ledger}

Decisions == \A p \in Callers : pc[p] = "decided" => Justified(p)

\* Once the record is written, what success will tell the caller is recorded.
Answers ==
    \A p \in Callers :
        pc[p] = "written" =>
            call[p].reply \in {Noted} \cup {ledger[i] : i \in DOMAIN ledger}

IInv ==
    /\ TypeOK
    /\ LockHeld
    /\ ReadingsPast
    /\ LedgerReplays
    /\ Succession(ledger, clock)
    /\ Decisions
    /\ Answers
    /\ AckedIsDurable

------------------------------------------------------------------------------
(***************************************************************************)
(* Type correctness.                                                       *)
(***************************************************************************)

LEMMA NotedFacts ==
    /\ Noted \in Entry /\ Noted.kind = "noted"
    /\ NoCall \in Call /\ NoCall.now = 0
    /\ NoCall.entry = Noted /\ NoCall.reply = Noted
  BY DEF Noted, Entry, NoCall, Call, Request, BadRequest

LEMMA FinishType ==
    ASSUME TypeOK, NEW p \in Callers, Finish(p)
    PROVE  /\ pc' \in [Callers -> {"idle", "waiting", "decided", "written"}]
           /\ call' \in [Callers -> Call]
           /\ lock' \in Callers \cup {Free}
  BY NotedFacts DEF TypeOK, Finish

LEMMA DecideType ==
    ASSUME TypeOK, NEW p \in Callers, NEW e \in Entry, NEW r \in Entry,
           Decide(p, e, r)
    PROVE  TypeOK'
<1>1. call' \in [Callers -> Call]
  BY DEF TypeOK, Decide, Call
<1> QED
  BY <1>1 DEF TypeOK, Decide, file

LEMMA RebootType ==
    ASSUME TypeOK, Reboot
    PROVE  /\ pc' \in [Callers -> {"idle", "waiting", "decided", "written"}]
           /\ call' \in [Callers -> Call]
           /\ lock' \in Callers \cup {Free}
           /\ status' \in [Tasks -> Status]
           /\ crashes' \in Nat
  BY NotedFacts DEF TypeOK, Reboot

\* Every step keeps the types: record shapes, and an fsynced prefix that is
\* never longer than the ledger.
LEMMA TypeStep == TypeOK /\ [Next]_vars => TypeOK'
<1> SUFFICES ASSUME TypeOK, [Next]_vars PROVE TypeOK'
  OBVIOUS
<1> USE NotedFacts DEF file
<1>1. CASE Tick
  BY <1>1 DEF Tick, TypeOK
<1>2. ASSUME NEW p \in Callers, NEW r \in Request, Arrive(p, r) PROVE TypeOK'
  <2>1. call' \in [Callers -> Call]
    BY <1>2 DEF TypeOK, Arrive, Call, NoCall
  <2> QED
    BY <1>2, <2>1 DEF TypeOK, Arrive
<1>3. ASSUME NEW p \in Callers, Grant(p) PROVE TypeOK'
  <2> DEFINE r == call[p].req
             e == [kind |-> "claimed", task |-> r.task, owner |-> r.owner,
                   key |-> r.key, id |-> FreshId,
                   expires |-> call[p].now + r.minutes]
  <2>1. r \in ClaimRequest
    BY <1>3 DEF Grant, Grantable, IsClaim, TypeOK, Call, Request, ReleaseRequest,
                BadRequest
  <2>2. FreshId \in Nat /\ call[p].now + r.minutes \in Nat
    <3>1. call[p].now \in Nat /\ r.minutes \in Nat
      BY <2>1, MinutesAssumption DEF ClaimRequest, TypeOK, Call
    <3>2. Len(ledger) \in Nat
      BY DEF TypeOK
    <3> QED
      BY <3>1, <3>2 DEF FreshId
  <2>3. e \in Entry
    BY <2>1, <2>2 DEF Entry, ClaimEntry, ClaimRequest
  <2> QED
    BY <1>3, <2>3, DecideType DEF Grant
<1>4. ASSUME NEW p \in Callers, Replay(p) PROVE TypeOK'
  <2>1. PICK i \in Replays(p) : Decide(p, Noted, ledger[i])
    BY <1>4 DEF Replay
  <2>2. ledger[i] \in Entry
    BY <2>1 DEF Replays, Holding, Active, Current, TypeOK
  <2> QED
    BY <2>1, <2>2, DecideType
<1>5. ASSUME NEW p \in Callers, Release(p) PROVE TypeOK'
  <2> DEFINE r == call[p].req
             e == [kind |-> "released", task |-> r.task, owner |-> r.owner,
                   id |-> r.id]
  <2>1. r \in ReleaseRequest
    BY <1>5 DEF Release, IsRelease, TypeOK, Call, Request, ClaimRequest, BadRequest
  <2>2. e \in Entry
    BY <2>1 DEF Entry, ReleaseEntry, ReleaseRequest
  <2> QED
    BY <1>5, <2>2, DecideType DEF Release
<1>6. ASSUME NEW p \in Callers, Decline(p) PROVE TypeOK'
  BY <1>6, DecideType DEF Decline
<1>7. ASSUME NEW p \in Callers, Refuse(p) PROVE TypeOK'
  BY <1>7, FinishType DEF Refuse, TypeOK
<1>8. ASSUME NEW p \in Callers, Write(p) PROVE TypeOK'
  <2>1. call[p].entry \in Entry
    BY DEF TypeOK, Call
  <2> QED
    BY <1>8, <2>1, AppendEntry DEF Write, TypeOK
<1>9. ASSUME NEW p \in Callers, WriteFails(p) PROVE TypeOK'
  BY <1>9, FinishType DEF WriteFails, TypeOK
<1>10. ASSUME NEW p \in Callers, Sync(p) PROVE TypeOK'
  <2>1. call[p].reply \in Entry
    BY DEF TypeOK, Call
  <2> QED
    BY <1>10, <2>1, FinishType DEF Sync, TypeOK
<1>11. ASSUME NEW p \in Callers, SyncFails(p) PROVE TypeOK'
  BY <1>11, FinishType DEF SyncFails, TypeOK
<1>12. CASE Restart
  BY <1>12, RebootType DEF Restart, TypeOK
<1>13. CASE PowerLoss
  <2>1. PICK n \in synced..Len(ledger) :
            ledger' = SubSeq(ledger, 1, n) /\ synced' = n
    BY <1>13 DEF PowerLoss
  <2>2. n \in 0..Len(ledger)
    BY DEF TypeOK
  <2>3. ledger' \in Seq(Entry) /\ synced' \in 0..Len(ledger')
    BY <2>1, <2>2, PrefixEntry DEF TypeOK
  <2> QED
    BY <1>13, <2>3, RebootType DEF PowerLoss, TypeOK
<1>14. CASE UNCHANGED vars
  BY <1>14 DEF vars, TypeOK, Live
<1>15. ASSUME NEW p \in Callers, ArrivalsOf(p)
       PROVE  \E r \in Request : Arrive(p, r)
  <2>1. KnownIds \subseteq Nat
    BY DEF KnownIds, TypeOK, Entry, ClaimEntry, ReleaseEntry
  <2> QED
    BY <1>15, <2>1 DEF ArrivalsOf, Request, ReleaseRequest
<1>16. ASSUME NEW p \in Callers, Unopened(p) PROVE TypeOK'
  BY <1>16, NotedFacts DEF Unopened, TypeOK
<1> QED
  BY <1>1, <1>2, <1>3, <1>4, <1>5, <1>6, <1>7, <1>8, <1>9, <1>10, <1>11,
     <1>12, <1>13, <1>14, <1>15, <1>16 DEF Next, Decision, Ending

LEMMA TypeInit == Init => TypeOK
<1> SUFFICES ASSUME Init PROVE TypeOK
  OBVIOUS
<1>1. ledger \in Seq(Entry) /\ synced \in 0..Len(ledger)
  BY DEF Init
<1>2. call \in [Callers -> Call]
  BY NotedFacts DEF Init
<1> QED
  BY <1>1, <1>2 DEF Init, TypeOK

\* The types of TaskClaims hold in every reachable state: in particular no crash
\* or failure leaves the durable prefix longer than the file.
THEOREM TypeCorrect == Spec => []TypeOK
  BY TypeInit, TypeStep, PTL DEF Spec

------------------------------------------------------------------------------
(***************************************************************************)
(* The invariant.                                                          *)
(***************************************************************************)

LEMMA Idle ==
    ASSUME IInv, lock = Free, NEW q \in Callers
    PROVE  pc[q] \notin {"decided", "written"}
  BY CallersAssumption DEF IInv, LockHeld

\* A call that ends without touching the file disturbs nothing.
LEMMA FinishStep ==
    ASSUME IInv, TypeOK', NEW p \in Callers, Finish(p), lock \in {Free, p},
           UNCHANGED <<clock, ledger>>
    PROVE  /\ LockHeld' /\ ReadingsPast' /\ Decisions' /\ Answers'
           /\ LedgerReplays' /\ Succession(ledger, clock)'
<1>1. \A q \in Callers : pc'[q] \notin {"decided", "written"}
  BY CallersAssumption DEF IInv, TypeOK, LockHeld, Finish
<1>2. \A q \in Callers : call'[q].now <= clock
  BY NotedFacts DEF IInv, TypeOK, ReadingsPast, Finish
<1>3. LedgerReplays' /\ Succession(ledger, clock)'
  BY DEF IInv, LedgerReplays
<1> QED
  BY <1>1, <1>2, <1>3 DEF LockHeld, ReadingsPast, Decisions, Answers

\* A decision takes the lock, so it is the only one; it must be justified.
LEMMA DecideStep ==
    ASSUME IInv, TypeOK', NEW p \in Callers, NEW e \in Entry, NEW r \in Entry,
           Decide(p, e, r),
           e.kind = "claimed" => Active(ledger, e.task, call[p].now) = {},
           e.kind = "released" =>
               \E i \in Current(ledger, e.task) :
                   ledger[i].owner = e.owner /\ ledger[i].id = e.id,
           r \in {Noted, e} \cup {ledger[i] : i \in DOMAIN ledger}
    PROVE  IInv'
<1>1. lock = Free /\ lock' = p /\ pc' = [pc EXCEPT ![p] = "decided"]
      /\ UNCHANGED <<clock, ledger, synced, acked>>
  BY DEF Decide, CanLock, file
<1>2. /\ call'[p].entry = e /\ call'[p].reply = r /\ call'[p].now = call[p].now
      /\ \A q \in Callers : q # p => call'[q] = call[q]
  BY DEF Decide, IInv, TypeOK, Call
<1>3. \A q \in Callers : q # p => pc'[q] \notin {"decided", "written"}
  BY <1>1, Idle DEF IInv, TypeOK
<1>4. pc'[p] = "decided"
  BY <1>1 DEF IInv, TypeOK
<1>5. LockHeld'
  BY <1>1, <1>3 DEF LockHeld
<1>6. ReadingsPast'
  BY <1>1, <1>2 DEF IInv, ReadingsPast
<1>7. Decisions'
  <2> SUFFICES ASSUME NEW q \in Callers, pc'[q] = "decided" PROVE Justified(q)'
    BY DEF Decisions
  <2>1. q = p
    BY <1>3
  <2> QED
    BY <1>1, <1>2, <2>1 DEF Justified
<1>8. Answers'
  BY <1>3, <1>4 DEF Answers
<1>9. LedgerReplays' /\ Succession(ledger, clock)' /\ AckedIsDurable'
  BY <1>1 DEF IInv, LedgerReplays, AckedIsDurable
<1> QED
  BY <1>5, <1>6, <1>7, <1>8, <1>9 DEF IInv

\* A crash leaves no call in flight.
LEMMA RebootStep ==
    ASSUME IInv, Reboot, UNCHANGED clock
    PROVE  LockHeld' /\ ReadingsPast' /\ Decisions' /\ Answers'
<1>1. \A q \in Callers : pc'[q] = "idle" /\ call'[q].now <= clock'
  BY NotedFacts DEF Reboot, IInv, TypeOK
<1> QED
  BY <1>1 DEF LockHeld, ReadingsPast, Decisions, Answers

LEMMA InvInit == Init => IInv
<1> SUFFICES ASSUME Init PROVE IInv
  OBVIOUS
<1>1. DOMAIN ledger = {}
  BY DEF Init
<1>2. \A p \in Callers : pc[p] = "idle" /\ call[p].now <= clock
  BY NotedFacts DEF Init
<1>3. LedgerReplays /\ Succession(ledger, clock) /\ AckedIsDurable
  BY <1>1 DEF Init, LedgerReplays, Replayable, Succession, AckedIsDurable
<1> QED
  BY <1>2, <1>3, TypeInit
     DEF IInv, LockHeld, ReadingsPast, Decisions, Answers

LEMMA InvStep == IInv /\ [Next]_vars => IInv'
<1> SUFFICES ASSUME IInv, [Next]_vars PROVE IInv'
  OBVIOUS
<1> USE DEF file
<1>0. TypeOK /\ TypeOK'
  BY TypeStep DEF IInv
<1>1. CASE Tick
  <2>1. UNCHANGED <<ledger, synced, lock, pc, call, acked>> /\ clock' = clock + 1
    BY <1>1 DEF Tick
  <2>2. Succession(ledger, clock)'
    BY <1>0, <2>1, TickSuccession DEF IInv, TypeOK
  <2>3. ReadingsPast'
    BY <1>0, <2>1 DEF IInv, ReadingsPast, TypeOK, Call
  <2>4. LockHeld' /\ LedgerReplays' /\ Decisions' /\ Answers' /\ AckedIsDurable'
    BY <2>1 DEF IInv, LockHeld, LedgerReplays, Decisions, Justified, Answers,
                AckedIsDurable
  <2> QED
    BY <1>0, <2>2, <2>3, <2>4 DEF IInv
<1>2. ASSUME NEW p \in Callers, NEW r \in Request, Arrive(p, r) PROVE IInv'
  <2>1. UNCHANGED <<clock, ledger, synced, lock, acked>>
    BY <1>2 DEF Arrive
  <2>2. /\ pc'[p] = "waiting" /\ call'[p].now = clock
        /\ \A q \in Callers : q # p => pc'[q] = pc[q] /\ call'[q] = call[q]
    BY <1>0, <1>2 DEF Arrive, TypeOK, NoCall
  <2>3. LockHeld'
    BY <2>1, <2>2 DEF IInv, LockHeld
  <2>4. ReadingsPast'
    BY <1>0, <2>1, <2>2 DEF IInv, ReadingsPast, TypeOK
  <2>5. Decisions' /\ Answers'
    <3> SUFFICES ASSUME NEW q \in Callers
                 PROVE  /\ pc'[q] = "decided" => Justified(q)'
                        /\ pc'[q] = "written" => call'[q].reply \in
                               {Noted} \cup {ledger'[i] : i \in DOMAIN ledger'}
      BY DEF Decisions, Answers
    <3>1. CASE q = p
      BY <2>2, <3>1
    <3>2. CASE q # p
      BY <2>1, <2>2, <3>2 DEF IInv, Decisions, Justified, Answers
    <3> QED
      BY <3>1, <3>2
  <2>6. LedgerReplays' /\ Succession(ledger, clock)' /\ AckedIsDurable'
    BY <2>1 DEF IInv, LedgerReplays, AckedIsDurable
  <2> QED
    BY <1>0, <2>3, <2>4, <2>5, <2>6 DEF IInv
<1>3. ASSUME NEW p \in Callers, Grant(p) PROVE IInv'
  <2> DEFINE r == call[p].req
             e == [kind |-> "claimed", task |-> r.task, owner |-> r.owner,
                   key |-> r.key, id |-> FreshId,
                   expires |-> call[p].now + r.minutes]
  <2>1. Decide(p, e, e) /\ Active(ledger, e.task, call[p].now) = {}
    BY <1>3 DEF Grant, Grantable, Holding
  <2>2. e \in Entry
    <3>1. call'[p].entry = e /\ call'[p] \in Call
      BY <1>0, <2>1 DEF Decide, TypeOK, Call
    <3> QED
      BY <3>1 DEF Call
  <2> QED
    BY <1>0, <2>1, <2>2, DecideStep
<1>4. ASSUME NEW p \in Callers, Replay(p) PROVE IInv'
  <2>1. PICK i \in Replays(p) : Decide(p, Noted, ledger[i])
    BY <1>4 DEF Replay
  <2>2. i \in DOMAIN ledger /\ ledger[i] \in Entry
    BY <1>0, <2>1 DEF Replays, Holding, Active, Current, TypeOK
  <2> QED
    BY <1>0, <2>1, <2>2, NotedFacts, DecideStep
<1>5. ASSUME NEW p \in Callers, Release(p) PROVE IInv'
  <2> DEFINE r == call[p].req
             e == [kind |-> "released", task |-> r.task, owner |-> r.owner,
                   id |-> r.id]
  <2>1. Decide(p, e, e)
    BY <1>5 DEF Release
  <2>2. \E i \in Current(ledger, e.task) :
           ledger[i].owner = e.owner /\ ledger[i].id = e.id
    BY <1>5 DEF Release, Releasable, Holding, Active
  <2>3. e \in Entry
    <3>1. call'[p].entry = e /\ call'[p] \in Call
      BY <1>0, <2>1 DEF Decide, TypeOK, Call
    <3> QED
      BY <3>1 DEF Call
  <2> QED
    BY <1>0, <2>1, <2>2, <2>3, DecideStep
<1>6. ASSUME NEW p \in Callers, Decline(p) PROVE IInv'
  BY <1>0, <1>6, NotedFacts, DecideStep DEF Decline
<1>7. ASSUME NEW p \in Callers, Refuse(p) PROVE IInv'
  <2>1. AckedIsDurable'
    BY <1>7 DEF Refuse, IInv, AckedIsDurable
  <2> QED
    BY <1>0, <1>7, <2>1, FinishStep DEF Refuse, CanLock, IInv
<1>8. ASSUME NEW p \in Callers, Write(p) PROVE IInv'
  <2> DEFINE e == call[p].entry
             n == Len(ledger) + 1
  <2>1. /\ pc[p] = "decided" /\ lock = p
        /\ ledger' = Append(ledger, e) /\ pc' = [pc EXCEPT ![p] = "written"]
        /\ UNCHANGED <<clock, synced, lock, call, acked>>
    BY <1>8 DEF Write, IInv, LockHeld
  <2>2. Justified(p) /\ e \in Entry /\ call[p].now \in Nat /\ call[p].now <= clock
    BY <1>0, <2>1 DEF IInv, Decisions, TypeOK, Call, ReadingsPast
  <2>3. /\ DOMAIN ledger = 1..Len(ledger) /\ Len(ledger) \in Nat
        /\ DOMAIN ledger' = 1..n /\ ledger'[n] = e
        /\ \A i \in DOMAIN ledger : ledger'[i] = ledger[i]
    BY <1>0, <2>1, <2>2, AppendEntry DEF TypeOK
  <2>4. \A q \in Callers : q # p => pc'[q] \notin {"decided", "written"}
    BY <1>0, <2>1 DEF IInv, LockHeld, TypeOK
  <2>5. pc'[p] = "written"
    BY <1>0, <2>1 DEF TypeOK
  <2>6. LockHeld' /\ ReadingsPast' /\ Decisions'
    BY <2>1, <2>4, <2>5 DEF IInv, LockHeld, ReadingsPast, Decisions
  <2>7. Answers'
    <3>1. call[p].reply \in {Noted} \cup {ledger'[i] : i \in DOMAIN ledger'}
      BY <2>2, <2>3 DEF Justified
    <3> QED
      BY <2>1, <2>4, <3>1 DEF Answers
  <2>8. LedgerReplays'
    BY <1>0, <2>1, <2>2, AppendReplayable DEF IInv, LedgerReplays, Justified, TypeOK
  <2>9. Succession(ledger, clock)'
    BY <1>0, <2>1, <2>2, AppendSuccession
       DEF IInv, LedgerReplays, Justified, TypeOK
  <2>10. AckedIsDurable'
    <3>1. \A i \in 1..synced : i \in DOMAIN ledger
      BY <1>0, <2>3 DEF TypeOK
    <3> QED
      BY <2>1, <2>3, <3>1 DEF IInv, AckedIsDurable
  <2> QED
    BY <1>0, <2>6, <2>7, <2>8, <2>9, <2>10 DEF IInv
<1>9. ASSUME NEW p \in Callers, WriteFails(p) PROVE IInv'
  <2>1. lock = p /\ AckedIsDurable'
    BY <1>9 DEF WriteFails, IInv, LockHeld, AckedIsDurable
  <2> QED
    BY <1>0, <1>9, <2>1, FinishStep DEF WriteFails, IInv
<1>10. ASSUME NEW p \in Callers, Sync(p) PROVE IInv'
  <2>1. lock = p /\ call[p].reply \in {Noted} \cup {ledger[i] : i \in DOMAIN ledger}
    BY <1>10 DEF Sync, IInv, LockHeld, Answers
  <2>2. DOMAIN ledger = 1..Len(ledger) /\ 1..synced \subseteq DOMAIN ledger
    BY <1>0 DEF TypeOK
  <2>3. AckedIsDurable'
    BY <1>10, <2>1, <2>2 DEF Sync, IInv, AckedIsDurable
  <2> QED
    BY <1>0, <1>10, <2>1, <2>3, FinishStep DEF Sync, IInv
<1>11. ASSUME NEW p \in Callers, SyncFails(p) PROVE IInv'
  <2>1. lock = p /\ AckedIsDurable'
    BY <1>11 DEF SyncFails, IInv, LockHeld, AckedIsDurable
  <2> QED
    BY <1>0, <1>11, <2>1, FinishStep DEF SyncFails, IInv
<1>12. CASE Restart
  <2>1. LedgerReplays' /\ Succession(ledger, clock)' /\ AckedIsDurable'
    BY <1>12 DEF Restart, IInv, LedgerReplays, AckedIsDurable
  <2> QED
    BY <1>0, <1>12, <2>1, RebootStep DEF Restart, IInv
<1>13. CASE PowerLoss
  <2>1. PICK n \in synced..Len(ledger) :
            ledger' = SubSeq(ledger, 1, n) /\ synced' = n
    BY <1>13 DEF PowerLoss
  <2>2. UNCHANGED <<clock, acked>> /\ Reboot
    BY <1>13 DEF PowerLoss
  <2>3. n \in 0..Len(ledger) /\ 1..synced \subseteq 1..n
    BY <1>0 DEF TypeOK
  <2>4. LedgerReplays' /\ Succession(ledger, clock)'
    BY <1>0, <2>1, <2>2, <2>3, PrefixReplayable, PrefixSuccession
       DEF IInv, LedgerReplays, TypeOK
  <2>5. AckedIsDurable'
    BY <1>0, <2>1, <2>2, <2>3, PrefixEntry DEF IInv, AckedIsDurable, TypeOK
  <2> QED
    BY <1>0, <2>2, <2>4, <2>5, RebootStep DEF IInv
<1>14. CASE UNCHANGED vars
  <2>1. UNCHANGED <<clock, ledger, synced, lock, pc, call, acked>>
    BY <1>14 DEF vars
  <2>2. LockHeld' /\ ReadingsPast' /\ LedgerReplays' /\ Succession(ledger, clock)'
    BY <2>1 DEF IInv, LockHeld, ReadingsPast, LedgerReplays
  <2>3. Decisions' /\ Answers' /\ AckedIsDurable'
    BY <2>1 DEF IInv, Decisions, Justified, Answers, AckedIsDurable
  <2> QED
    BY <1>0, <2>2, <2>3 DEF IInv
<1>15. ASSUME NEW p \in Callers, ArrivalsOf(p)
       PROVE  \E r \in Request : Arrive(p, r)
  <2>1. KnownIds \subseteq Nat
    BY <1>0 DEF KnownIds, TypeOK, Entry, ClaimEntry, ReleaseEntry
  <2> QED
    BY <1>15, <2>1 DEF ArrivalsOf, Request, ReleaseRequest
<1>16. ASSUME NEW p \in Callers, Unopened(p) PROVE IInv'
  <2>1. UNCHANGED <<clock, ledger, synced, lock, acked>>
    BY <1>16 DEF Unopened
  <2>2. /\ pc'[p] = "idle" /\ call'[p].now = 0
        /\ \A q \in Callers : q # p => pc'[q] = pc[q] /\ call'[q] = call[q]
    BY <1>0, <1>16, NotedFacts DEF Unopened, TypeOK
  <2>3. LockHeld'
    BY <2>1, <2>2 DEF IInv, LockHeld
  <2>4. ReadingsPast'
    BY <1>0, <2>1, <2>2 DEF IInv, ReadingsPast, TypeOK
  <2>5. Decisions' /\ Answers'
    <3> SUFFICES ASSUME NEW q \in Callers
                 PROVE  /\ pc'[q] = "decided" => Justified(q)'
                        /\ pc'[q] = "written" => call'[q].reply \in
                               {Noted} \cup {ledger'[i] : i \in DOMAIN ledger'}
      BY DEF Decisions, Answers
    <3>1. CASE q = p
      BY <2>2, <3>1
    <3>2. CASE q # p
      BY <2>1, <2>2, <3>2 DEF IInv, Decisions, Justified, Answers
    <3> QED
      BY <3>1, <3>2
  <2>6. LedgerReplays' /\ Succession(ledger, clock)' /\ AckedIsDurable'
    BY <2>1 DEF IInv, LedgerReplays, AckedIsDurable
  <2> QED
    BY <1>0, <2>3, <2>4, <2>5, <2>6 DEF IInv
<1> QED
  BY <1>1, <1>2, <1>3, <1>4, <1>5, <1>6, <1>7, <1>8, <1>9, <1>10, <1>11,
     <1>12, <1>13, <1>14, <1>15, <1>16 DEF Next, Decision, Ending

\* The whole invariant holds in every reachable state.
LEMMA Invariance == Spec => []IInv
  BY InvInit, InvStep, PTL DEF Spec

------------------------------------------------------------------------------

\* No two claims of a task are in force at once, whatever the number of callers,
\* the age of their clock readings, and the failures and crashes on the way.
THEOREM MutualExclusion == Spec => []OneHolder
<1>1. IInv => OneHolder
  <2> SUFFICES ASSUME IInv, NEW i \in DOMAIN ledger, NEW j \in DOMAIN ledger,
                      Live(i), Live(j), ledger[i].task = ledger[j].task,
                      i # j
               PROVE  FALSE
    BY DEF OneHolder
  <2>1. /\ DOMAIN ledger = 1..Len(ledger) /\ Len(ledger) \in Nat /\ clock \in Nat
        /\ i \in Nat /\ j \in Nat
    BY DEF IInv, TypeOK
  <2>2. ASSUME NEW a \in DOMAIN ledger, NEW b \in DOMAIN ledger, a < b,
               Live(a), Live(b), ledger[a].task = ledger[b].task
        PROVE  FALSE
    <3>1. ledger[a].expires \in Nat
      BY <2>2 DEF IInv, TypeOK, Live, Entry, ClaimEntry, ReleaseEntry, Noted
    <3>2. ~(ledger[a].expires <= clock)
      BY <2>1, <2>2, <3>1 DEF Live
    <3> QED
      BY <2>2, <3>2 DEF IInv, Succession, Live
  <2> QED
    BY <2>1, <2>2
<1> QED
  BY <1>1, Invariance, PTL

\* The fold of the ledger never raises: no history of calls, failures and
\* crashes writes a release that does not match the claim before it.
THEOREM NeverPoisoned == Spec => []LedgerReplays
<1>1. IInv => LedgerReplays
  BY DEF IInv
<1> QED
  BY <1>1, Invariance, PTL

\* A success a caller was told of survives every later failure and crash.
THEOREM Durability == Spec => []AckedIsDurable
<1>1. IInv => AckedIsDurable
  BY DEF IInv
<1> QED
  BY <1>1, Invariance, PTL

------------------------------------------------------------------------------
(***************************************************************************)
(* Whose release drops a claim.                                            *)
(***************************************************************************)

\* The release that a call writes is the one it was asked for.
OwnRelease ==
    \A p \in Callers :
        call[p].entry.kind = "released" =>
            /\ IsRelease(p)
            /\ call[p].entry.owner = call[p].req.owner
            /\ call[p].entry.id = call[p].req.id

LEMMA OwnReleaseStep == TypeOK /\ OwnRelease /\ [Next]_vars => OwnRelease'
<1> SUFFICES ASSUME TypeOK, OwnRelease, [Next]_vars, NEW q \in Callers,
                    call'[q].entry.kind = "released"
             PROVE  /\ IsRelease(q)'
                    /\ call'[q].entry.owner = call'[q].req.owner
                    /\ call'[q].entry.id = call'[q].req.id
  BY DEF OwnRelease
<1>1. CASE call'[q] = call[q]
  BY <1>1 DEF OwnRelease, IsRelease
<1>2. CASE call'[q].entry = Noted
  BY <1>2, NotedFacts
<1>3. ASSUME NEW p \in Callers, NEW e, NEW r, Decide(p, e, r)
      PROVE  \/ call'[q] = call[q]
             \/ q = p /\ call'[q].entry = e /\ call'[q].req = call[q].req
  BY <1>3 DEF Decide, TypeOK, Call
<1>4. ASSUME NEW p \in Callers, Finish(p)
      PROVE  call'[q] = call[q] \/ call'[q].entry = Noted
  BY <1>4, NotedFacts DEF Finish, TypeOK
<1>5. CASE Tick \/ UNCHANGED vars
  BY <1>1, <1>5 DEF Tick, vars
<1>6. ASSUME NEW p \in Callers, ArrivalsOf(p) \/ Unopened(p)
      PROVE  call'[q] = call[q] \/ call'[q].entry = Noted
  <2>1. ASSUME NEW r, Arrive(p, r) PROVE call'[q] = call[q] \/ call'[q].entry = Noted
    BY <2>1 DEF Arrive, TypeOK, NoCall
  <2>2. CASE Unopened(p)
    BY <2>2, NotedFacts DEF Unopened, TypeOK
  <2> QED
    BY <1>6, <2>1, <2>2 DEF ArrivalsOf
<1>7. ASSUME NEW p \in Callers, Decision(p)
      PROVE  /\ IsRelease(q)'
             /\ call'[q].entry.owner = call'[q].req.owner
             /\ call'[q].entry.id = call'[q].req.id
  <2>1. CASE Grant(p)
    BY <1>1, <1>3, <2>1 DEF Grant
  <2>2. CASE Replay(p) \/ Decline(p)
    BY <1>1, <1>2, <1>3, <2>2 DEF Replay, Decline
  <2>3. CASE Release(p)
    <3> DEFINE e == [kind |-> "released", task |-> call[p].req.task,
                     owner |-> call[p].req.owner, id |-> call[p].req.id]
    <3>1. IsRelease(p) /\ Decide(p, e, e)
      BY <2>3 DEF Release
    <3>2. CASE q = p /\ call'[q].entry = e /\ call'[q].req = call[q].req
      BY <3>1, <3>2 DEF IsRelease
    <3> QED
      BY <1>1, <1>3, <3>1, <3>2
  <2>4. CASE Refuse(p)
    BY <1>1, <1>2, <1>4, <2>4 DEF Refuse
  <2> QED
    BY <1>7, <2>1, <2>2, <2>3, <2>4 DEF Decision
<1>8. ASSUME NEW p \in Callers, Write(p) \/ Ending(p)
      PROVE  call'[q] = call[q] \/ call'[q].entry = Noted
  BY <1>4, <1>8 DEF Write, Ending, WriteFails, Sync, SyncFails
<1>9. CASE Restart \/ PowerLoss
  BY <1>2, <1>9, NotedFacts DEF Restart, PowerLoss, Reboot
<1> QED
  BY <1>1, <1>2, <1>5, <1>6, <1>7, <1>8, <1>9 DEF Next

\* Only Write makes the ledger longer.
LEMMA OnlyWriteAppends ==
    ASSUME TypeOK, [Next]_vars, Len(ledger') = Len(ledger) + 1
    PROVE  \E p \in Callers : Write(p)
<1>1. Len(ledger) \in Nat /\ ledger' # ledger
  BY DEF TypeOK
<1>2. ~PowerLoss
  <2>1. ASSUME NEW n \in synced..Len(ledger), ledger' = SubSeq(ledger, 1, n) PROVE FALSE
    <3>1. n \in 0..Len(ledger)
      BY <1>1 DEF TypeOK
    <3>2. Len(ledger') = n
      BY <2>1, <3>1, PrefixEntry DEF TypeOK
    <3> QED
      BY <1>1, <3>1, <3>2
  <2> QED
    BY <2>1 DEF PowerLoss
<1> QED
  BY <1>1, <1>2
     DEF Next, vars, file, Tick, ArrivalsOf, Arrive, Unopened, Decision, Grant,
         Replay, Release, Decline, Decide, Refuse, Ending, WriteFails, Sync,
         SyncFails, Restart

\* A claim is dropped only by the release its own owner asked for, under its own
\* ID, however late or often release_task is called.
THEOREM DroppedByItsRelease == Spec => OnlyItsReleaseDrops
<1> DEFINE Drops == \A t \in Tasks : \A i \in Current(ledger, t) :
                       /\ Len(ledger') = Len(ledger) + 1
                       /\ ledger'[Len(ledger')].kind = "released"
                       /\ i \notin Current(ledger', t)
                       => \E p \in Callers : /\ lock = p /\ IsRelease(p)
                                             /\ call[p].req.owner = ledger[i].owner
                                             /\ call[p].req.id = ledger[i].id
<1>1. Init => OwnRelease
  BY NotedFacts DEF Init, OwnRelease
<1>2. ASSUME IInv, OwnRelease, [Next]_vars PROVE Drops
  <2> SUFFICES ASSUME NEW t \in Tasks, NEW i \in Current(ledger, t),
                      Len(ledger') = Len(ledger) + 1,
                      ledger'[Len(ledger')].kind = "released",
                      i \notin Current(ledger', t)
               PROVE  \E p \in Callers : /\ lock = p /\ IsRelease(p)
                                         /\ call[p].req.owner = ledger[i].owner
                                         /\ call[p].req.id = ledger[i].id
    OBVIOUS
  <2>1. PICK p \in Callers : Write(p)
    BY <1>2, OnlyWriteAppends DEF IInv
  <2>2. /\ lock = p /\ Justified(p) /\ call[p].entry \in Entry
        /\ ledger \in Seq(Entry) /\ ledger' = Append(ledger, call[p].entry)
    BY <1>2, <2>1 DEF Write, IInv, LockHeld, Decisions, TypeOK, Call
  <2>3. PICK e \in Entry, n \in Nat : e = call[p].entry /\ n = Len(ledger) + 1
    BY <2>2
  <2>4. /\ DOMAIN ledger = 1..Len(ledger) /\ DOMAIN ledger' = 1..n
        /\ ledger'[n] = e /\ Len(ledger') = n /\ Len(ledger) \in Nat
        /\ \A j \in DOMAIN ledger : ledger'[j] = ledger[j]
    BY <2>2, <2>3, AppendEntry
  <2>5. e.kind = "released"
    BY <2>4
  <2>6. e.task = t
    BY <2>4 DEF Current, Touches
  <2>7. PICK j \in Current(ledger, t) : ledger[j].owner = e.owner /\ ledger[j].id = e.id
    BY <2>2, <2>3, <2>5, <2>6 DEF Justified
  <2>8. i = j
    BY <2>2, CurrentIsUnique
  <2> QED
    BY <1>2, <2>2, <2>3, <2>5, <2>7, <2>8 DEF OwnRelease
<1>3. IInv /\ OwnRelease /\ [Next]_vars => [Drops]_vars
  BY <1>2
<1>4. IInv /\ OwnRelease /\ [Next]_vars => OwnRelease'
  BY OwnReleaseStep DEF IInv
<1> QED
  BY <1>1, <1>3, <1>4, Invariance, PTL DEF Spec, OnlyItsReleaseDrops

------------------------------------------------------------------------------
(***************************************************************************)
(* The service implements TaskOwnership.                                   *)
(***************************************************************************)

\* A claim about to be written gets the ID of its place, and the claim that a
\* call will answer with is current when its record is written.
InForce ==
    \A p \in Callers :
        LET c == call[p] IN
        /\ pc[p] = "decided" =>
              /\ c.entry.kind = "claimed" => c.entry.id = Len(ledger) + 1
              /\ c.reply.kind = "claimed" =>
                    \/ c.reply = c.entry
                    \/ /\ c.entry = Noted
                       /\ \E i \in Current(ledger, c.reply.task) : ledger[i] = c.reply
        /\ pc[p] = "written" /\ c.reply.kind = "claimed" =>
              \E i \in Current(ledger, c.reply.task) : ledger[i] = c.reply

RInv == IInv /\ Followed(ledger, clock) /\ Numbered(ledger) /\ InForce

\* A step that leaves the ledger alone and decides nothing.
LEMMA InForceKept ==
    ASSUME InForce, UNCHANGED ledger,
           \A q \in Callers : \/ pc'[q] \notin {"decided", "written"}
                              \/ pc'[q] = pc[q] /\ call'[q] = call[q]
    PROVE  InForce'
<1> SUFFICES ASSUME NEW q \in Callers, pc'[q] = pc[q], call'[q] = call[q]
             PROVE  /\ pc'[q] = "decided" =>
                          /\ call'[q].entry.kind = "claimed" =>
                                call'[q].entry.id = Len(ledger') + 1
                          /\ call'[q].reply.kind = "claimed" =>
                                \/ call'[q].reply = call'[q].entry
                                \/ /\ call'[q].entry = Noted
                                   /\ \E i \in Current(ledger', call'[q].reply.task) :
                                          ledger'[i] = call'[q].reply
                    /\ pc'[q] = "written" /\ call'[q].reply.kind = "claimed" =>
                          \E i \in Current(ledger', call'[q].reply.task) :
                              ledger'[i] = call'[q].reply
  BY DEF InForce
<1> QED
  BY DEF InForce

LEMMA InForceDecide ==
    ASSUME IInv, InForce, NEW p \in Callers, NEW e \in Entry, NEW r \in Entry,
           Decide(p, e, r),
           e.kind = "claimed" => e.id = Len(ledger) + 1,
           r.kind = "claimed" =>
               r = e \/ (e = Noted /\ \E i \in Current(ledger, r.task) : ledger[i] = r)
    PROVE  InForce'
<1>1. lock = Free /\ pc' = [pc EXCEPT ![p] = "decided"] /\ UNCHANGED ledger
  BY DEF Decide, CanLock, file
<1>2. call'[p].entry = e /\ call'[p].reply = r
  BY DEF Decide, IInv, TypeOK, Call
<1>3. \A q \in Callers : q # p => pc'[q] \notin {"decided", "written"}
  BY <1>1, Idle DEF IInv, TypeOK
<1>4. pc'[p] = "decided"
  BY <1>1 DEF IInv, TypeOK
<1> QED
  BY <1>1, <1>2, <1>3, <1>4 DEF InForce

LEMMA InForceWrite ==
    ASSUME IInv, InForce, NEW p \in Callers, Write(p)
    PROVE  InForce'
<1>1. /\ pc[p] = "decided" /\ lock = p /\ pc' = [pc EXCEPT ![p] = "written"]
      /\ UNCHANGED call /\ ledger \in Seq(Entry)
      /\ call[p].entry \in Entry /\ call[p].reply \in Entry
      /\ ledger' = Append(ledger, call[p].entry)
  BY DEF Write, IInv, LockHeld, TypeOK, Call
<1>2. PICK e \in Entry, r \in Entry, n \in Nat :
          e = call[p].entry /\ r = call[p].reply /\ n = Len(ledger) + 1
  BY <1>1
<1>3. /\ DOMAIN ledger = 1..Len(ledger) /\ DOMAIN ledger' = 1..n /\ Len(ledger) \in Nat
      /\ ledger'[n] = e /\ \A i \in DOMAIN ledger : ledger'[i] = ledger[i]
  BY <1>1, <1>2, AppendEntry
<1>4. \A q \in Callers : q # p => pc'[q] \notin {"decided", "written"}
  BY <1>1 DEF IInv, LockHeld, TypeOK
<1>5. pc'[p] = "written" /\ call'[p].reply = r
  BY <1>1, <1>2 DEF IInv, TypeOK
<1>6. /\ e.kind = "claimed" => \E i \in Current(ledger', e.task) : ledger'[i] = e
      /\ \A t : \A i \in Current(ledger, t) : ~Touches(e, t) =>
             i \in Current(ledger', t) /\ ledger'[i] = ledger[i]
  <2>1. PICK L \in Seq(Entry) : L = ledger /\ ledger' = Append(L, e)
    BY <1>1, <1>2
  <2>2. /\ e.kind = "claimed" =>
               \E i \in Current(Append(L, e), e.task) : Append(L, e)[i] = e
        /\ \A t : \A i \in Current(L, t) : ~Touches(e, t) =>
               i \in Current(Append(L, e), t) /\ Append(L, e)[i] = L[i]
    BY AppendCurrent
  <2> QED
    BY ONLY <2>1, <2>2
<1>7. ASSUME r.kind = "claimed"
      PROVE  \E i \in Current(ledger', r.task) : ledger'[i] = r
  <2>1. CASE r = e
    <3>1. e.kind = "claimed"
      BY <1>7, <2>1
    <3>2. PICK i \in Current(ledger', e.task) : ledger'[i] = e
      BY <1>6, <3>1
    <3> QED
      BY <2>1, <3>2
  <2>2. ASSUME e = Noted, NEW i \in Current(ledger, r.task), ledger[i] = r
        PROVE  \E j \in Current(ledger', r.task) : ledger'[j] = r
    <3>1. ~Touches(e, r.task)
      BY <2>2, NotedFacts DEF Touches
    <3> QED
      BY <1>6, <2>2, <3>1
  <2> QED
    BY <1>1, <1>2, <1>7, <2>1, <2>2 DEF InForce
<1> QED
  BY <1>4, <1>5, <1>7 DEF InForce

LEMMA InForceStep == IInv /\ InForce /\ [Next]_vars => InForce'
<1> SUFFICES ASSUME IInv, InForce, [Next]_vars PROVE InForce'
  OBVIOUS
<1>0. TypeOK /\ TypeOK'
  BY TypeStep DEF IInv
<1>1. CASE Tick \/ UNCHANGED vars
  BY <1>1, InForceKept DEF Tick, vars, file
<1>2. ASSUME NEW p \in Callers, ArrivalsOf(p) \/ Unopened(p) PROVE InForce'
  <2>1. ASSUME NEW r, Arrive(p, r) PROVE InForce'
    BY <1>0, <2>1, InForceKept DEF Arrive, TypeOK, file
  <2>2. CASE Unopened(p)
    BY <1>0, <2>2, InForceKept DEF Unopened, TypeOK, file
  <2> QED
    BY <1>2, <2>1, <2>2 DEF ArrivalsOf
<1>3. ASSUME NEW p \in Callers, Finish(p), UNCHANGED ledger PROVE InForce'
  BY <1>0, <1>3, InForceKept DEF Finish, TypeOK
<1>4. ASSUME NEW p \in Callers, NEW e, NEW r, Decide(p, e, r)
      PROVE  e \in Entry /\ r \in Entry
  <2>1. call'[p].entry = e /\ call'[p].reply = r /\ call'[p] \in Call
    BY <1>0, <1>4 DEF Decide, TypeOK, Call
  <2> QED
    BY <2>1 DEF Call
<1>5. ASSUME NEW p \in Callers, Grant(p) PROVE InForce'
  <2> DEFINE e == [kind |-> "claimed", task |-> call[p].req.task,
                   owner |-> call[p].req.owner, key |-> call[p].req.key,
                   id |-> FreshId, expires |-> call[p].now + call[p].req.minutes]
  <2>1. Decide(p, e, e) /\ e.id = Len(ledger) + 1
    BY <1>5 DEF Grant, FreshId
  <2>2. e \in Entry
    BY <1>4, <2>1
  <2> HIDE DEF e
  <2> QED
    BY <2>1, <2>2, InForceDecide
<1>6. ASSUME NEW p \in Callers, Replay(p) PROVE InForce'
  <2>1. PICK i \in Replays(p) : Decide(p, Noted, ledger[i])
    BY <1>6 DEF Replay
  <2>2. /\ i \in Current(ledger, ledger[i].task) /\ ledger[i] \in Entry
    BY <1>0, <2>1 DEF Replays, Holding, Active, Current, TypeOK
  <2> QED
    BY <2>1, <2>2, NotedFacts, InForceDecide
<1>7. ASSUME NEW p \in Callers, Release(p) PROVE InForce'
  <2> DEFINE e == [kind |-> "released", task |-> call[p].req.task,
                   owner |-> call[p].req.owner, id |-> call[p].req.id]
  <2>1. Decide(p, e, e) /\ e.kind # "claimed"
    BY <1>7 DEF Release
  <2>2. e \in Entry
    BY <1>4, <2>1
  <2> HIDE DEF e
  <2> QED
    BY <2>1, <2>2, InForceDecide
<1>8. ASSUME NEW p \in Callers, Decline(p) PROVE InForce'
  BY <1>8, NotedFacts, InForceDecide DEF Decline
<1>9. ASSUME NEW p \in Callers, Refuse(p) \/ Ending(p) PROVE InForce'
  BY <1>3, <1>9 DEF Refuse, Ending, WriteFails, Sync, SyncFails, file
<1>10. ASSUME NEW p \in Callers, Write(p) PROVE InForce'
  BY <1>10, InForceWrite
<1>11. CASE Restart \/ PowerLoss
  BY <1>11 DEF Restart, PowerLoss, Reboot, InForce
<1> QED
  BY <1>1, <1>2, <1>5, <1>6, <1>7, <1>8, <1>9, <1>10, <1>11 DEF Next, Decision

LEMMA RInvStep == RInv /\ [Next]_vars => RInv'
<1> SUFFICES ASSUME RInv, [Next]_vars PROVE RInv'
  OBVIOUS
<1>0. IInv' /\ InForce' /\ TypeOK /\ TypeOK'
  BY InvStep, InForceStep DEF RInv, IInv
<1>1. ASSUME UNCHANGED <<ledger, clock>> PROVE RInv'
  BY <1>0, <1>1 DEF RInv
<1>2. CASE Tick
  BY <1>0, <1>2, TickFollowed DEF Tick, RInv, file, TypeOK
<1>3. ASSUME NEW p \in Callers, Write(p) PROVE RInv'
  <2>1. /\ pc[p] = "decided" /\ Justified(p) /\ ledger \in Seq(Entry) /\ clock \in Nat
        /\ call[p].entry \in Entry /\ call[p].now \in Nat /\ call[p].now <= clock
        /\ UNCHANGED clock /\ ledger' = Append(ledger, call[p].entry)
    BY <1>0, <1>3 DEF Write, RInv, IInv, Decisions, ReadingsPast, TypeOK, Call
  <2>2. Followed(ledger, clock)'
    BY <2>1, AppendFollowed DEF RInv, Justified
  <2>3. call[p].entry.kind = "claimed" => call[p].entry.id = Len(ledger) + 1
    BY <2>1 DEF RInv, InForce
  <2>4. Numbered(ledger)'
    BY <2>1, <2>3, AppendEntry DEF RInv, Numbered
  <2> QED
    BY <1>0, <2>2, <2>4 DEF RInv
<1>4. CASE PowerLoss
  <2>1. PICK n \in synced..Len(ledger) : ledger' = SubSeq(ledger, 1, n)
    BY <1>4 DEF PowerLoss
  <2>2. n \in 0..Len(ledger) /\ ledger \in Seq(Entry) /\ clock \in Nat /\ UNCHANGED clock
    BY <1>0, <1>4 DEF TypeOK, PowerLoss
  <2>3. Followed(ledger, clock)'
    BY <2>1, <2>2, PrefixFollowed DEF RInv
  <2>4. Numbered(ledger)'
    BY <2>1, <2>2, PrefixEntry DEF RInv, Numbered
  <2> QED
    BY <1>0, <2>3, <2>4 DEF RInv
<1> QED
  BY <1>1, <1>2, <1>3, <1>4
     DEF Next, vars, file, ArrivalsOf, Arrive, Unopened, Decision, Grant, Replay,
         Release, Decline, Decide, Refuse, Ending, WriteFails, Sync, SyncFails,
         Restart

\* The refinement mapping in terms of the ledger.
LEMMA MappingIs ==
    /\ \A t \in Tasks : Holder(t) = HolderOf(ledger, t, clock)
    /\ Limbo = LimboOf(ledger, synced, clock)
  BY DEF Holder, HolderOf, Limbo, LimboOf

Told == {e \in acked : e.kind = "claimed"}
Held == [t \in Tasks |-> Holder(t)]

\* What the mapping hides: records, locks, calls.
LEMMA Stutter ==
    ASSUME UNCHANGED <<clock, ledger, synced, acked>>
    PROVE  UNCHANGED Ownership!vars
<1>1. \A t \in Tasks : Holder(t)' = Holder(t)
  BY DEF Holder
<1>2. Limbo' = Limbo
  BY DEF Limbo
<1> QED
  BY <1>1, <1>2 DEF Ownership!vars

LEMMA TickImplements ==
    ASSUME RInv, Tick
    PROVE  Ownership!Tick
<1>1. clock' = clock + 1 /\ UNCHANGED <<ledger, synced, acked>>
  BY DEF Tick, file
<1>2. ledger \in Seq(Entry) /\ synced \in Nat /\ clock \in Nat
  BY DEF RInv, IInv, TypeOK
<1>3. ASSUME NEW t \in Tasks
      PROVE  Holder(t)' = IF Holder(t) # Noted /\ Holder(t).expires <= clock'
                          THEN Noted ELSE Holder(t)
  <2>1. Holder(t)' = HolderOf(ledger, t, clock + 1)
    BY <1>1 DEF Holder, HolderOf
  <2>2. Holder(t) = HolderOf(ledger, t, clock)
    BY MappingIs
  <2> QED
    BY <1>1, <1>2, <2>1, <2>2, TickHolder
<1>4. Limbo' = {x \in Limbo : x.expires > clock'}
  <2>1. Limbo' = LimboOf(ledger, synced, clock + 1)
    BY <1>1 DEF Limbo, LimboOf
  <2>2. Limbo = LimboOf(ledger, synced, clock)
    BY MappingIs
  <2> QED
    BY <1>1, <1>2, <2>1, <2>2, TickLimbo
<1> QED
  BY <1>1, <1>3, <1>4 DEF Ownership!Tick

\* A record is a grant, a release or nothing to TaskOwnership.
LEMMA WriteImplements ==
    ASSUME RInv, NEW p \in Callers, Write(p)
    PROVE  Ownership!Next \/ UNCHANGED Ownership!vars
<1>1. PICK e \in Entry, now \in Nat : e = call[p].entry /\ now = call[p].now
  BY DEF RInv, IInv, TypeOK, Call
<1>2. /\ ledger \in Seq(Entry) /\ clock \in Nat /\ synced \in 0..Len(ledger)
      /\ now <= clock /\ ledger' = Append(ledger, e)
      /\ UNCHANGED <<clock, synced, acked>>
  BY <1>1 DEF Write, RInv, IInv, TypeOK, ReadingsPast
<1>3. /\ e.kind = "claimed" => Active(ledger, e.task, now) = {}
      /\ e.kind = "released" =>
             \E i \in Current(ledger, e.task) :
                 ledger[i].owner = e.owner /\ ledger[i].id = e.id
  BY <1>1 DEF Write, RInv, IInv, Decisions, Justified
<1>4. ASSUME NEW t \in Tasks
      PROVE  /\ ~Touches(e, t) => Holder(t)' = Holder(t)
             /\ Touches(e, t) /\ (e.kind = "released" \/ ~(e.expires > clock)) =>
                    Holder(t)' = Noted
             /\ Touches(e, t) /\ e.kind = "claimed" /\ e.expires > clock =>
                    Holder(t)' = e
  <2>1. Holder(t)' = HolderOf(Append(ledger, e), t, clock)
    BY <1>2 DEF Holder, HolderOf
  <2> QED
    BY <1>2, <2>1, MappingIs, AppendHolder
<1>5. Limbo' = LimboOf(Append(ledger, e), synced, clock)
  BY <1>2 DEF Limbo, LimboOf
<1>6. CASE e.kind = "noted"
  <2>1. \A t \in Tasks : Holder(t)' = Holder(t)
    BY <1>4, <1>6 DEF Touches
  <2>2. Limbo' = Limbo
    BY <1>2, <1>5, <1>6, MappingIs, AppendLimbo
  <2> QED
    BY <1>2, <2>1, <2>2 DEF Ownership!vars
<1>7. CASE e.kind = "claimed"
  <2>1. /\ e.task \in Tasks /\ e \in ClaimEntry /\ e.expires \in Nat
        /\ \A t \in Tasks : Touches(e, t) <=> t = e.task
    BY <1>7, ClaimFields DEF ClaimEntry, Touches
  <2>2. Holder(e.task) = Noted
    <3>1. Active(ledger, e.task, clock) = {}
      <4>1. \A i \in Current(ledger, e.task) : ledger[i].expires \in Nat
        BY <1>2, ClaimFields DEF Current
      <4> QED
        BY <1>2, <1>3, <1>7, <4>1 DEF Active
    <3> QED
      BY <3>1 DEF Holder
  <2>3. Limbo' = Limbo
    BY <1>2, <1>5, <1>7, MappingIs, AppendLimbo
  <2>4. CASE e.expires > clock
    <3>1. Held' = [Held EXCEPT ![e.task] = e]
      BY <1>4, <1>7, <2>1, <2>4 DEF Held
    <3>2. Held[e.task] = Noted /\ Held'[e.task] = e
      BY <2>1, <2>2, <3>1 DEF Held
    <3>3. Ownership!Grant(e.task)
      BY <1>2, <2>1, <2>3, <2>4, <3>1, <3>2 DEF Ownership!Grant, Ownership!Begins, Held
    <3> QED
      BY <2>1, <3>3 DEF Ownership!Next
  <2>5. CASE ~(e.expires > clock)
    <3>1. \A t \in Tasks : Holder(t)' = Holder(t)
      BY <1>4, <2>1, <2>2, <2>5
    <3> QED
      BY <1>2, <2>3, <3>1 DEF Ownership!vars
  <2> QED
    BY <2>4, <2>5
<1>8. CASE e.kind = "released"
  <2>1. /\ e.task \in Tasks /\ \A t \in Tasks : Touches(e, t) <=> t = e.task
    BY <1>8 DEF Touches, Entry, ClaimEntry, ReleaseEntry, Noted
  <2>2. PICK i \in Current(ledger, e.task) :
            ledger[i].owner = e.owner /\ ledger[i].id = e.id
    BY <1>3, <1>8
  <2>3. Limbo' = IF ledger[i].expires > clock THEN Limbo \cup {ledger[i]} ELSE Limbo
    BY <1>2, <1>5, <1>8, <2>2, MappingIs, AppendLimbo
  <2>4. CASE ledger[i].expires > clock
    <3>1. i \in Active(ledger, e.task, clock)
      BY <2>4 DEF Active
    <3>2. Holder(e.task) = ledger[i] /\ ledger[i] # Noted
      BY <1>2, <2>1, <3>1, MappingIs, HolderIs
    <3>3. Held' = [Held EXCEPT ![e.task] = Noted]
      BY <1>4, <1>8, <2>1 DEF Held
    <3>4. Ownership!Release(e.task)
      BY <1>2, <2>1, <2>3, <2>4, <3>2, <3>3 DEF Ownership!Release, Held
    <3> QED
      BY <2>1, <3>4 DEF Ownership!Next
  <2>5. CASE ~(ledger[i].expires > clock)
    <3>1. Active(ledger, e.task, clock) = {}
      BY <1>2, <2>5, CurrentIsUnique DEF Active
    <3>2. Holder(e.task) = Noted
      BY <3>1 DEF Holder
    <3>3. \A t \in Tasks : Holder(t)' = Holder(t)
      BY <1>4, <1>8, <2>1, <3>2
    <3> QED
      BY <1>2, <2>3, <2>5, <3>3 DEF Ownership!vars
  <2> QED
    BY <2>4, <2>5
<1> QED
  BY <1>6, <1>7, <1>8 DEF Entry, ClaimEntry, ReleaseEntry, Noted

\* An fsync makes releases final, and the claim it answers with is in force or over.
LEMMA SyncImplements ==
    ASSUME RInv, NEW p \in Callers, Sync(p)
    PROVE  Ownership!Settle
<1>1. PICK r \in Entry : r = call[p].reply
  BY DEF RInv, IInv, TypeOK, Call
<1>2. /\ ledger \in Seq(Entry) /\ clock \in Nat /\ UNCHANGED <<clock, ledger>>
      /\ synced' = Len(ledger) /\ acked' = acked \cup ({r} \ {Noted})
      /\ r.kind = "claimed" => \E i \in Current(ledger, r.task) : ledger[i] = r
  BY <1>1 DEF Sync, RInv, IInv, TypeOK, InForce
<1>3. Limbo' = {}
  <2>1. Limbo' = LimboOf(ledger, Len(ledger), clock)
    BY <1>2 DEF Limbo, LimboOf
  <2> QED
    BY <1>2, <2>1, SyncedLimbo
<1>4. Held' = Held
  BY <1>2 DEF Held, Holder
<1>5. CASE r.kind # "claimed"
  <2>1. Told' = Told
    BY <1>2, <1>5 DEF Told
  <2> QED
    BY <1>2, <1>3, <1>4, <2>1 DEF Ownership!Settle, Told, Held
<1>6. CASE r.kind = "claimed"
  <2>1. r \in ClaimEntry /\ r # Noted /\ r.task \in Tasks /\ r.expires \in Nat
    BY <1>6, ClaimFields DEF ClaimEntry
  <2>2. Told' = Told \cup {r} /\ r \in Told'
    BY <1>2, <1>6, <2>1 DEF Told
  <2>3. PICK i \in Current(ledger, r.task) : ledger[i] = r
    BY <1>2, <1>6
  <2>4. Held[r.task] = r \/ r.expires <= clock
    <3>1. SUFFICES ASSUME ~(r.expires <= clock) PROVE Held[r.task] = r
      OBVIOUS
    <3>2. i \in Active(ledger, r.task, clock)
      BY <1>2, <2>1, <2>3, <3>1 DEF Active
    <3>3. HolderOf(ledger, r.task, clock) = r
      BY <1>2, <2>3, <3>2, HolderIs
    <3> QED
      BY <2>1, <3>3, MappingIs DEF Held
  <2> QED
    BY <1>2, <1>3, <1>4, <2>1, <2>2, <2>4 DEF Ownership!Settle, Told, Held
<1> QED
  BY <1>5, <1>6

\* Power loss takes back what nobody was told of, or a release that was not final.
LEMMA PowerLossImplements ==
    ASSUME RInv, PowerLoss
    PROVE  Ownership!Forget
<1>1. PICK n \in synced..Len(ledger) : ledger' = SubSeq(ledger, 1, n) /\ synced' = n
  BY DEF PowerLoss
<1>2. /\ ledger \in Seq(Entry) /\ clock \in Nat /\ synced \in Nat /\ Len(ledger) \in Nat
      /\ DOMAIN ledger = 1..Len(ledger) /\ n \in 0..Len(ledger)
      /\ Followed(ledger, clock) /\ UNCHANGED <<clock, acked>>
  BY <1>1 DEF PowerLoss, RInv, IInv, TypeOK
<1>3. Limbo' = {}
  <2>1. Limbo' = LimboOf(SubSeq(ledger, 1, n), n, clock)
    BY <1>1, <1>2 DEF Limbo, LimboOf
  <2>2. SubSeq(ledger, 1, n) \in Seq(Entry) /\ Len(SubSeq(ledger, 1, n)) = n
    BY <1>2, PrefixEntry
  <2> QED
    BY <2>1, <2>2, SyncedLimbo
<1>4. ASSUME NEW i \in n + 1..Len(ledger) PROVE ledger[i] \notin Told
  <2>1. SUFFICES ASSUME ledger[i].kind = "claimed",
                        NEW k \in 1..synced, ledger[i] = ledger[k]
                 PROVE  FALSE
    BY DEF RInv, IInv, AckedIsDurable, Told
  <2>2. i \in DOMAIN ledger /\ k \in DOMAIN ledger /\ i # k
    BY <1>1, <1>2
  <2> QED
    BY <2>1, <2>2 DEF RInv, Numbered
<1>5. Noted \notin Told
  BY NotedFacts DEF Told
<1>6. ASSUME NEW t \in Tasks
      PROVE  \/ Holder(t)' = Holder(t)
             \/ /\ Holder(t) \notin Told
                /\ Holder(t)' \in {c \in Limbo : c.task = t} \cup {Noted}
  <2>1. Holder(t)' = HolderOf(SubSeq(ledger, 1, n), t, clock)
    BY <1>1, <1>2 DEF Holder, HolderOf
  <2> QED
    BY <1>1, <1>2, <1>4, <1>5, <2>1, MappingIs, PrefixHolder
<1> QED
  BY <1>2, <1>3, <1>6 DEF Ownership!Forget, Told

\* Every history of calls, failures and crashes is one of TaskOwnership: grants,
\* releases, expiries, and losses of what nobody was told of.
THEOREM Implementation == Spec => ImplementsOwnership
<1>1. Init => RInv
  <2> SUFFICES ASSUME Init PROVE RInv
    OBVIOUS
  <2>1. DOMAIN ledger = {} /\ \A p \in Callers : pc[p] = "idle"
    BY DEF Init
  <2> QED
    BY <2>1, InvInit DEF RInv, Followed, Numbered, InForce
<1>2. Init => Ownership!Init
  <2> SUFFICES ASSUME Init PROVE Ownership!Init
    OBVIOUS
  <2>1. clock = 0 /\ DOMAIN ledger = {} /\ acked = {}
    BY DEF Init
  <2>2. Limbo = {} /\ \A t \in Tasks : Holder(t) = Noted
    BY <2>1 DEF Limbo, Holder, Active, Current
  <2> QED
    BY <2>1, <2>2 DEF Ownership!Init
<1>3. RInv /\ [Next]_vars => [Ownership!Next]_Ownership!vars
  <2> SUFFICES ASSUME RInv, [Next]_vars
               PROVE  Ownership!Next \/ UNCHANGED Ownership!vars
    OBVIOUS
  <2>1. CASE Tick
    BY <2>1, TickImplements DEF Ownership!Next
  <2>2. ASSUME NEW p \in Callers, Write(p)
        PROVE  Ownership!Next \/ UNCHANGED Ownership!vars
    BY <2>2, WriteImplements
  <2>3. ASSUME NEW p \in Callers, Sync(p)
        PROVE  Ownership!Next
    BY <2>3, SyncImplements DEF Ownership!Next
  <2>4. CASE PowerLoss
    BY <2>4, PowerLossImplements DEF Ownership!Next
  <2>5. CASE UNCHANGED <<clock, ledger, synced, acked>>
    BY <2>5, Stutter
  <2> QED
    BY <2>1, <2>2, <2>3, <2>4, <2>5
       DEF Next, vars, file, ArrivalsOf, Arrive, Unopened, Decision, Grant, Replay,
           Release, Decline, Decide, Refuse, Ending, WriteFails, SyncFails, Restart
<1> QED
  BY <1>1, <1>2, <1>3, RInvStep, PTL DEF Spec, ImplementsOwnership, Ownership!Spec

==============================================================================
