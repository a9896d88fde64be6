----------------------------- MODULE TaskClaims -----------------------------
(***************************************************************************)
(* TaskClaimService.claim_task and release_task (app/core/task_claims.py)  *)
(* on top of AuditLog.transact (app/collaboration/audit.py).               *)
(*                                                                         *)
(* A call reads the clock, then waits for the ledger's exclusive flock,    *)
(* reads and folds the file, decides, appends the record of its decision,  *)
(* fsyncs, unlocks and answers.  Calls overlap: a clock reading may be     *)
(* old when the lock comes.  An append may stop half way, an fsync may     *)
(* fail, the process may be restarted (with another snapshot's task        *)
(* index) and the machine may lose power at any point.                     *)
(***************************************************************************)
EXTENDS ClaimLedger, FiniteSets

CONSTANTS Callers,      \* calls the server can have in flight
          Free,         \* the value of an unheld lock
          MaxClock,     \* bound: last tick of the clock
          MaxRecords,   \* MAX_TRANSACTION_BYTES, in records
          MaxCrashes    \* bound: restarts and power losses in a behaviour

ASSUME CallersAssumption == Free \notin Callers

ASSUME BoundsAssumption ==
    MaxClock \in Nat /\ MaxRecords \in Nat /\ MaxCrashes \in Nat

VARIABLES
    clock,    \* the UTC wall clock, assumed never to step back
    status,   \* the loaded task index: how claim_task sees each task ID
    ledger,   \* the complete records of the ledger file
    torn,     \* the file does not end with a newline: a partial last record
    synced,   \* how many of the records an fsync has made durable
    lock,     \* holder of flock(LOCK_EX) on the ledger
    pc,       \* where each call is
    call,     \* its arguments, clock reading, decided record and answer
    acked,    \* history: records whose success a caller has been told
    crashes

file == <<ledger, torn, synced>>
vars == <<clock, status, ledger, torn, synced, lock, pc, call, acked,
          crashes>>

\* Any TaskStatus but DONE counts as open; "unknown" is get_task's None.
Status == {"open", "done", "unknown"}

\* Validated arguments.  Anything a validator refuses is one request.
ClaimRequest   == [op: {"claim"}, task: Tasks, owner: Owners, key: Keys,
                   minutes: Minutes]
ReleaseRequest == [op: {"release"}, task: Tasks, owner: Owners, id: Nat]
BadRequest     == [op |-> "bad_args"]
Request        == ClaimRequest \cup ReleaseRequest \cup {BadRequest}

Call  == [req: Request, now: Nat, entry: Entry, reply: Entry]
NoCall == [req |-> BadRequest, now |-> 0, entry |-> Noted, reply |-> Noted]

Init ==
    /\ clock = 0
    /\ status \in [Tasks -> Status]
    /\ ledger = <<>> /\ torn = FALSE /\ synced = 0
    /\ lock = Free
    /\ pc = [p \in Callers |-> "idle"]
    /\ call = [p \in Callers |-> NoCall]
    /\ acked = {}
    /\ crashes = 0

------------------------------------------------------------------------------

Tick ==
    /\ clock < MaxClock
    /\ clock' = clock + 1
    /\ UNCHANGED <<status, file, lock, pc, call, acked, crashes>>

\* claim_id_factory draws an ID nobody has seen: the number the record will
\* have is one, since a record that power loss takes back was never answered.
FreshId == Len(ledger) + 1

\* IDs a caller can present: those it was given, and one that never existed.
KnownIds == {0} \cup {e.id : e \in acked}

\* A tool call arrives and reads the clock before it asks for the lock.  Any
\* call may be a first attempt, a retry, or a duplicate delivered late.
Arrive(p, r) ==
    /\ pc[p] = "idle"
    /\ pc' = [pc EXCEPT ![p] = "waiting"]
    /\ call' = [call EXCEPT ![p] = [NoCall EXCEPT !.req = r, !.now = clock]]
    /\ UNCHANGED <<clock, status, file, lock, acked, crashes>>

------------------------------------------------------------------------------
(***************************************************************************)
(* Under the lock: read, check, fold, decide.                              *)
(***************************************************************************)

Holding(p) == Active(ledger, call[p].req.task, call[p].now)

IsClaim(p) == call[p].req.op = "claim" /\ status[call[p].req.task] = "open"

IsRelease(p) == call[p].req.op = "release"

Grantable(p) == IsClaim(p) /\ Holding(p) = {}

\* The active claim belongs to the same owner under the same key.
Replays(p) ==
    {i \in Holding(p) : /\ ledger[i].owner = call[p].req.owner
                        /\ ledger[i].key = call[p].req.key}

\* Mutants of Releasable: the owner, or the claim ID, is not compared.
Releasable_AnyOwner(p) == {i \in Holding(p) : ledger[i].id = call[p].req.id}
Releasable_AnyId(p) == {i \in Holding(p) : ledger[i].owner = call[p].req.owner}

\* The active claim is the caller's and has the claim ID it presents.
Releasable(p) ==
    {i \in Holding(p) : /\ ledger[i].owner = call[p].req.owner
                        /\ ledger[i].id = call[p].req.id}

\* transact or the fold raises: nothing is recorded, whatever was asked.
Unusable(p) ==
    \/ torn
    \/ Len(ledger) >= MaxRecords
    \/ (IsClaim(p) \/ IsRelease(p)) /\ ~Replayable(ledger)

\* Mutant of CanLock: the ledger is read without waiting for the lock.
CanLock_NoLock(p) == pc[p] = "waiting"

CanLock(p) == pc[p] = "waiting" /\ lock = Free

Finish(p) ==
    /\ pc' = [pc EXCEPT ![p] = "idle"]
    /\ call' = [call EXCEPT ![p] = NoCall]
    /\ lock' = Free

\* The ledger cannot be opened, or is no regular file of mode 0600: the call
\* fails without having the lock.
Unopened(p) ==
    /\ pc[p] = "waiting"
    /\ pc' = [pc EXCEPT ![p] = "idle"]
    /\ call' = [call EXCEPT ![p] = NoCall]
    /\ UNCHANGED <<clock, status, file, lock, acked, crashes>>

\* Mutant of Refuse: the error path returns with the lock held.
Refuse_KeepsLock(p) ==
    /\ CanLock(p) /\ Unusable(p)
    /\ pc' = [pc EXCEPT ![p] = "idle"]
    /\ call' = [call EXCEPT ![p] = NoCall]
    /\ lock' = p
    /\ UNCHANGED <<clock, status, file, acked, crashes>>

\* upstream_unavailable; the lock is taken and dropped within the step.
Refuse(p) ==
    /\ CanLock(p) /\ Unusable(p)
    /\ Finish(p)
    /\ UNCHANGED <<clock, status, file, acked, crashes>>

\* The decision: the record to append and what success will tell the caller.
Decide(p, entry, reply) ==
    /\ CanLock(p) /\ ~Unusable(p)
    /\ lock' = p
    /\ pc' = [pc EXCEPT ![p] = "decided"]
    /\ call' = [call EXCEPT ![p].entry = entry, ![p].reply = reply]
    /\ UNCHANGED <<clock, status, file, acked, crashes>>

\* A new claim, dated from the caller's reading of the clock.
Grant(p) ==
    LET r == call[p].req
        e == [kind |-> "claimed", task |-> r.task, owner |-> r.owner,
              key |-> r.key, id |-> FreshId,
              expires |-> call[p].now + r.minutes]
    IN  /\ Grantable(p)
        /\ Decide(p, e, e)

\* The existing claim is returned; a "replayed" record is appended.
Replay(p) ==
    /\ IsClaim(p)
    /\ \E i \in Replays(p) : Decide(p, Noted, ledger[i])

Release(p) ==
    LET r == call[p].req
        e == [kind |-> "released", task |-> r.task, owner |-> r.owner,
              id |-> r.id]
    IN  /\ IsRelease(p) /\ Releasable(p) # {}
        /\ Decide(p, e, e)

\* bad_args, not_found, conflict, not_claimed: recorded, nothing changes hands.
Decline(p) ==
    /\ ~Grantable(p)
    /\ ~(IsClaim(p) /\ Replays(p) # {})
    /\ ~(IsRelease(p) /\ Releasable(p) # {})
    /\ Decide(p, Noted, Noted)

------------------------------------------------------------------------------
(***************************************************************************)
(* The append, still under the lock.                                       *)
(***************************************************************************)

\* os.write took the whole record.
Write(p) ==
    /\ pc[p] = "decided"
    /\ ledger' = Append(ledger, call[p].entry)
    /\ pc' = [pc EXCEPT ![p] = "written"]
    /\ UNCHANGED <<clock, status, torn, synced, lock, call, acked, crashes>>

\* Mutants of WriteFails: the torn tail is cut off, and a record with it; the
\* failure is swallowed and the decision is answered.
WriteFails_CutsRecord(p) ==
    /\ pc[p] = "decided"
    /\ ledger' = SubSeq(ledger, 1, Len(ledger) - 1)
    /\ Finish(p)
    /\ UNCHANGED <<clock, status, torn, synced, acked, crashes>>
WriteFails_Answers(p) ==
    /\ pc[p] = "decided"
    /\ acked' = acked \cup ({call[p].reply} \ {Noted})
    /\ Finish(p)
    /\ UNCHANGED <<clock, status, file, crashes>>

\* os.write failed (no space), having taken none of the record or part of it:
\* the part stays.  The caller is told upstream_unavailable.
WriteFails(p) ==
    /\ pc[p] = "decided"
    /\ torn' \in BOOLEAN
    /\ Finish(p)
    /\ UNCHANGED <<clock, status, ledger, synced, acked, crashes>>

\* Mutant of Sync: the caller is answered without the fsync.
Sync_NoFsync(p) ==
    /\ pc[p] = "written"
    /\ acked' = acked \cup ({call[p].reply} \ {Noted})
    /\ Finish(p)
    /\ UNCHANGED <<clock, status, file, crashes>>

\* fsync returned: the file is durable, and only now is the answer given.
Sync(p) ==
    /\ pc[p] = "written"
    /\ synced' = Len(ledger)
    /\ acked' = acked \cup ({call[p].reply} \ {Noted})
    /\ Finish(p)
    /\ UNCHANGED <<clock, status, ledger, torn, crashes>>

\* fsync raised: upstream_unavailable, though the record is in the file.
SyncFails(p) ==
    /\ pc[p] = "written"
    /\ Finish(p)
    /\ UNCHANGED <<clock, status, file, acked, crashes>>

------------------------------------------------------------------------------

\* Every call dies with the process, and the kernel drops its lock.  The new
\* process serves the snapshot selected by then, hence any task index.
Reboot ==
    /\ crashes < MaxCrashes
    /\ crashes' = crashes + 1
    /\ pc' = [p \in Callers |-> "idle"]
    /\ call' = [p \in Callers |-> NoCall]
    /\ lock' = Free
    /\ status' \in [Tasks -> Status]

\* The process is killed or redeployed: what it wrote stays in the file, half
\* a record if it was killed inside the write loop.
Restart ==
    /\ Reboot
    /\ torn' \in {torn, torn \/ \E p \in Callers : pc[p] = "decided"}
    /\ UNCHANGED <<clock, ledger, synced, acked>>

\* The machine stops: of the bytes no fsync covered any prefix survives.
PowerLoss ==
    /\ Reboot
    /\ \E n \in synced..Len(ledger) :
          /\ ledger' = SubSeq(ledger, 1, n)
          /\ synced' = n
          /\ \/ torn' = FALSE
             \/ torn' = TRUE
                /\ \/ torn \/ n < Len(ledger)
                   \/ \E p \in Callers : pc[p] = "decided"
    /\ UNCHANGED <<clock, acked>>

------------------------------------------------------------------------------

ArrivalsOf(p) ==
    \/ \E r \in ClaimRequest \cup {BadRequest} : Arrive(p, r)
    \/ \E t \in Tasks, o \in Owners, i \in KnownIds :
          Arrive(p, [op |-> "release", task |-> t, owner |-> o, id |-> i])

Decision(p) == Grant(p) \/ Replay(p) \/ Release(p) \/ Decline(p) \/ Refuse(p)

Ending(p) == WriteFails(p) \/ Sync(p) \/ SyncFails(p)

Next ==
    \/ Tick
    \/ \E p \in Callers :
          ArrivalsOf(p) \/ Unopened(p) \/ Decision(p) \/ Write(p) \/ Ending(p)
    \/ Restart
    \/ PowerLoss

Spec == Init /\ [][Next]_vars

\* The scheduler runs a call that can run, and flock wakes its waiters in
\* order, so one that keeps finding the lock free gets it.  Nobody need call,
\* and nothing need crash.
Fairness ==
    \A p \in Callers :
        /\ SF_vars(Decision(p))
        /\ WF_vars(Write(p) \/ Ending(p))

FairSpec == Spec /\ Fairness

------------------------------------------------------------------------------
(***************************************************************************)
(* Properties.                                                             *)
(***************************************************************************)

TypeOK ==
    /\ clock \in Nat
    /\ status \in [Tasks -> Status]
    /\ ledger \in Seq(Entry)
    /\ torn \in BOOLEAN
    /\ synced \in 0..Len(ledger)
    /\ lock \in Callers \cup {Free}
    /\ pc \in [Callers -> {"idle", "waiting", "decided", "written"}]
    /\ call \in [Callers -> Call]
    /\ acked \subseteq Entry \ {Noted}
    /\ crashes \in Nat

\* The ledger gives claim i, and has not taken it back.
Live(i) ==
    /\ ledger[i].kind = "claimed"
    /\ ledger[i].expires > clock
    /\ ~\E j \in DOMAIN ledger :
           /\ i < j /\ ledger[j].kind = "released"
           /\ ledger[j].task = ledger[i].task /\ ledger[j].id = ledger[i].id

\* A task has one holder: no two claims of a task that are unexpired by the real
\* clock and unreleased, however old the clock readings the decisions used.
OneHolder ==
    \A i, j \in DOMAIN ledger :
        Live(i) /\ Live(j) /\ ledger[i].task = ledger[j].task => i = j

\* No sequence of legal calls, failures and crashes poisons the ledger: every
\* release in it matches the claim before it, so the fold never raises.
LedgerReplays == Replayable(ledger)

\* "One transaction result whose record is durable before value is returned":
\* a success some caller was told of, new, replayed or released, stays recorded.
AckedIsDurable == acked \subseteq {ledger[i] : i \in 1..synced}

\* A claim leaves the ledger's current claims by a release only while its own
\* owner's release call, carrying its own ID, holds the lock: a delayed retry
\* never drops a newer claim.
OnlyItsReleaseDrops ==
    [][\A t \in Tasks : \A i \in Current(ledger, t) :
          /\ Len(ledger') = Len(ledger) + 1
          /\ ledger'[Len(ledger')].kind = "released"
          /\ i \notin Current(ledger', t)
          => \E p \in Callers : /\ lock = p /\ IsRelease(p)
                                /\ call[p].req.owner = ledger[i].owner
                                /\ call[p].req.id = ledger[i].id]_vars

\* Every call that has arrived is answered or dies with the process: no error
\* path keeps the lock, and no caller waits for one for ever.
EveryCallEnds == \A p \in Callers : pc[p] = "waiting" ~> pc[p] = "idle"

------------------------------------------------------------------------------
(***************************************************************************)
(* What the ledger promises, as TaskOwnership states it.                   *)
(***************************************************************************)

\* The claim in force on t: the fold at the real clock, and no claim otherwise.
Holder(t) ==
    IF Active(ledger, t, clock) = {} THEN Noted
    ELSE ledger[CHOOSE i \in Active(ledger, t, clock) : TRUE]

\* Unexpired claims whose release is in the file but not covered by an fsync.
Limbo ==
    {ledger[i] : i \in
        {i \in DOMAIN ledger :
            /\ ledger[i].kind = "claimed" /\ ledger[i].expires > clock
            /\ \E j \in synced + 1..Len(ledger) : Releases(ledger, i, j)}}

Ownership == INSTANCE TaskOwnership WITH
    Claims  <- ClaimEntry,
    NoClaim <- Noted,
    now     <- clock,
    holder  <- [t \in Tasks |-> Holder(t)],
    told    <- {e \in acked : e.kind = "claimed"},
    limbo   <- Limbo

\* The service implements TaskOwnership: whatever overlaps, fails or crashes,
\* a claim a caller was told of stays in force until it expires or is released,
\* and no other claim on the task is in force meanwhile.
ImplementsOwnership == Ownership!Spec

==============================================================================
