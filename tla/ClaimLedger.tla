----------------------------- MODULE ClaimLedger -----------------------------
(***************************************************************************)
(* The claim ledger: what one NDJSON record of the task-claim ledger says, *)
(* and what _ledger_claims (app/core/task_claims.py) makes of a sequence   *)
(* of them.  The code folds the records in order into a dictionary; the    *)
(* operators below say directly which record the dictionary holds for a    *)
(* task, and LedgerReplay checks them against the fold itself.             *)
(***************************************************************************)
EXTENDS Naturals, Sequences

CONSTANTS Tasks,    \* IDs of the committed task index, and unknown ones
          Owners,   \* authenticated caller identities
          Keys,     \* well-formed idempotency keys
          Minutes   \* accepted durations, in ticks of the model's clock

\* _duration accepts MIN_CLAIM_MINUTES..MAX_CLAIM_MINUTES, never zero.
ASSUME MinutesAssumption == Minutes \subseteq Nat \ {0}

(***************************************************************************)
(* Records.  Only "claimed" and "released" outcomes change ownership; the  *)
(* record of any other outcome (replayed, not_claimed, conflict, not_found,*)
(* bad_args) is Noted: it takes room in the file and the fold skips it.    *)
(***************************************************************************)
ClaimEntry == [kind: {"claimed"}, task: Tasks, owner: Owners, key: Keys,
               id: Nat, expires: Nat]

ReleaseEntry == [kind: {"released"}, task: Tasks, owner: Owners, id: Nat]

Noted == [kind |-> "noted"]

Entry == ClaimEntry \cup ReleaseEntry \cup {Noted}

Touches(e, t) == e.kind \in {"claimed", "released"} /\ e.task = t

\* Positions of the record the fold's dictionary holds for task t: one or none.
Current(L, t) ==
    {i \in DOMAIN L : /\ L[i].kind = "claimed"
                      /\ L[i].task = t
                      /\ \A j \in DOMAIN L : j > i => ~Touches(L[j], t)}

\* The same once expired claims are dropped: the claim that blocks at `now`.
Active(L, t, now) == {i \in Current(L, t) : L[i].expires > now}

\* Record j is a release of the claim that the records before it leave current.
Releases(L, i, j) ==
    /\ i < j
    /\ L[i].kind = "claimed" /\ L[j].kind = "released"
    /\ L[i].task = L[j].task
    /\ L[i].owner = L[j].owner
    /\ L[i].id = L[j].id
    /\ \A k \in DOMAIN L : i < k /\ k < j => ~Touches(L[k], L[j].task)

\* The fold raises on a release record that does not match active ownership,
\* and from then on on every call: such a ledger is poisoned.
Replayable(L) ==
    \A j \in DOMAIN L :
        L[j].kind = "released" => \E i \in DOMAIN L : Releases(L, i, j)

==============================================================================
