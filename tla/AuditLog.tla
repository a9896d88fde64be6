------------------------------ MODULE AuditLog ------------------------------
(***************************************************************************)
(* AuditLog.append (app/collaboration/audit.py): the rotatable NDJSON log  *)
(* of check_status and open_pr.  Unlike transact, append does not look at  *)
(* what the file ends with.  The file is modelled by the pieces the calls  *)
(* of os.write added to it; only a piece that ends a record ends with a    *)
(* newline.                                                                *)
(***************************************************************************)
EXTENDS Naturals, Sequences, FiniteSets

CONSTANTS Writers,      \* appends in flight
          Free,         \* the value of an unheld lock
          MaxRecords,   \* bound: records anyone tries to append
          MaxMishaps    \* bound: failed writes, restarts and power losses

ASSUME WritersAssumption == Free \notin Writers

ASSUME BoundsAssumption == MaxRecords \in Nat /\ MaxMishaps \in Nat

VARIABLES
    file,      \* what was written, as pieces of records
    synced,    \* how many of the pieces an fsync has made durable
    lock,      \* holder of flock(LOCK_EX)
    pc,
    record,    \* the record each writer appends, by number
    calls,     \* records numbered so far
    told,      \* history: records whose append has returned
    mishaps

vars == <<file, synced, lock, pc, record, calls, told, mishaps>>

\* A record is written whole, or as a head and later the rest of it.
Piece == [of: Nat, part: {"whole", "head", "rest"}]

Init ==
    /\ file = <<>> /\ synced = 0
    /\ lock = Free
    /\ pc = [w \in Writers |-> "idle"]
    /\ record = [w \in Writers |-> 0]
    /\ calls = 0 /\ told = {} /\ mishaps = 0

Put(w, part) == file' = Append(file, [of |-> record[w], part |-> part])

------------------------------------------------------------------------------

Arrive(w) ==
    /\ pc[w] = "idle" /\ calls < MaxRecords
    /\ calls' = calls + 1
    /\ record' = [record EXCEPT ![w] = calls + 1]
    /\ pc' = [pc EXCEPT ![w] = "waiting"]
    /\ UNCHANGED <<file, synced, lock, told, mishaps>>

\* The log cannot be opened, is no regular file or has not mode 0600.
OpenFails(w) ==
    /\ pc[w] = "waiting"
    /\ pc' = [pc EXCEPT ![w] = "idle"]
    /\ UNCHANGED <<file, synced, lock, record, calls, told, mishaps>>

\* Mutant of CanLock: no flock.
CanLock_Unlocked(w) == pc[w] = "waiting"

CanLock(w) == pc[w] = "waiting" /\ lock = Free

Lock(w) ==
    /\ CanLock(w)
    /\ lock' = w
    /\ pc' = [pc EXCEPT ![w] = "writing"]
    /\ UNCHANGED <<file, synced, record, calls, told, mishaps>>

WriteWhole(w) ==
    /\ pc[w] = "writing"
    /\ Put(w, "whole")
    /\ pc' = [pc EXCEPT ![w] = "written"]
    /\ UNCHANGED <<synced, lock, record, calls, told, mishaps>>

\* os.write took a part of the record, and the loop goes on with the rest.
WriteHead(w) ==
    /\ pc[w] = "writing"
    /\ Put(w, "head")
    /\ pc' = [pc EXCEPT ![w] = "half"]
    /\ UNCHANGED <<synced, lock, record, calls, told, mishaps>>

WriteRest(w) ==
    /\ pc[w] = "half"
    /\ Put(w, "rest")
    /\ pc' = [pc EXCEPT ![w] = "written"]
    /\ UNCHANGED <<synced, lock, record, calls, told, mishaps>>

Unlock(w) ==
    /\ lock' = Free
    /\ pc' = [pc EXCEPT ![w] = "idle"]

Mishap == mishaps < MaxMishaps /\ mishaps' = mishaps + 1

\* Mutant of WriteFails: the error path cuts the last piece off, even when this
\* append has written none.
WriteFails_CutsBack(w) ==
    /\ pc[w] \in {"writing", "half"}
    /\ Mishap
    /\ file' = SubSeq(file, 1, Len(file) - 1)
    /\ Unlock(w)
    /\ UNCHANGED <<synced, record, calls, told>>

\* os.write raised: AuditUnavailableError, and a head stays in the file.
WriteFails(w) ==
    /\ pc[w] \in {"writing", "half"}
    /\ Mishap
    /\ Unlock(w)
    /\ UNCHANGED <<file, synced, record, calls, told>>

\* Mutant of Sync: append returns without the fsync.
Sync_NoFsync(w) ==
    /\ pc[w] = "written"
    /\ told' = told \cup {record[w]}
    /\ Unlock(w)
    /\ UNCHANGED <<file, synced, record, calls, mishaps>>

Sync(w) ==
    /\ pc[w] = "written"
    /\ synced' = Len(file)
    /\ told' = told \cup {record[w]}
    /\ Unlock(w)
    /\ UNCHANGED <<file, record, calls, mishaps>>

SyncFails(w) ==
    /\ pc[w] = "written"
    /\ Unlock(w)
    /\ UNCHANGED <<file, synced, record, calls, told, mishaps>>

\* The process stops anywhere, in the write loop too; flock goes with it.
Reboot ==
    /\ Mishap
    /\ pc' = [w \in Writers |-> "idle"]
    /\ lock' = Free
    /\ UNCHANGED <<record, calls, told>>

Restart == Reboot /\ UNCHANGED <<file, synced>>

\* Any prefix of what no fsync covered survives, a cut record included.
PowerLoss ==
    /\ Reboot
    /\ \E n \in synced..Len(file) :
          LET kept == SubSeq(file, 1, n) IN
          \/ file' = kept /\ synced' = n
          \/ /\ n < Len(file) /\ file[n + 1].part = "whole"
             /\ file' = Append(kept, [file[n + 1] EXCEPT !.part = "head"])
             /\ synced' = n + 1

Next ==
    \/ \E w \in Writers :
          \/ Arrive(w) \/ OpenFails(w) \/ Lock(w)
          \/ WriteWhole(w) \/ WriteHead(w) \/ WriteRest(w) \/ WriteFails(w)
          \/ Sync(w) \/ SyncFails(w)
    \/ Restart
    \/ PowerLoss

Spec == Init /\ [][Next]_vars

------------------------------------------------------------------------------
(***************************************************************************)
(* Properties.                                                             *)
(***************************************************************************)

TypeOK ==
    /\ file \in Seq(Piece)
    /\ synced \in 0..Len(file)
    /\ lock \in Writers \cup {Free}
    /\ pc \in [Writers -> {"idle", "waiting", "writing", "half", "written"}]
    /\ record \in [Writers -> 0..MaxRecords]
    /\ calls \in 0..MaxRecords
    /\ told \subseteq 1..MaxRecords
    /\ mishaps \in 0..MaxMishaps

\* Where record n is complete in the first k pieces, and at which piece it begins.
Complete(n, k) ==
    {i \in 1..k :
        /\ file[i].of = n
        /\ \/ file[i].part = "whole"
           \/ file[i].part = "head" /\ i < k /\ file[i + 1] = [of |-> n, part |-> "rest"]}

\* A reader of the log takes it line by line: a record is there to be read only
\* if it begins a line.
Readable(n) == \E i \in Complete(n, Len(file)) : i = 1 \/ file[i - 1].part # "head"

\* An append that has returned is on disk in full, through any crash.
ToldIsDurable == \A n \in told : Complete(n, synced) # {}

\* Overlapping appends never mix, so a record can only be spoilt by the torn one
\* that a mishap left before it, and each mishap spoils at most one.
EachMishapSpoilsOne == Cardinality({n \in told : ~Readable(n)}) <= mishaps

\* As the security model has it, every live call "is appended and fsynced as
\* sanitized NDJSON" and "an unavailable audit sink fails the call": the record
\* of an append that returned is a line of the log.  Refuted: after a torn
\* record the next one is appended to the same line, and append returns.
ToldIsReadable == \A n \in told : Readable(n)

==============================================================================
