--------------------------- MODULE SnapshotRefresh ---------------------------
(***************************************************************************)
(* deploy/refresh_snapshot.sh, its twin refresh_gateway_snapshot.sh and    *)
(* deploy/prune_snapshots.py: a refresh fetches a commit, builds its       *)
(* snapshot, selects it in the environment file, recreates the gateway,    *)
(* checks its health, rolls back or prunes.  A refresh may fail or be      *)
(* killed before and after every step.                                     *)
(***************************************************************************)
EXTENDS Naturals, Sequences, FiniteSets

CONSTANTS Commits,
          Refreshes,    \* processes that run the script
          Keep,         \* --keep
          NoCommit

ASSUME KeepAssumption == Keep \in 1..10
ASSUME CommitsAssumption == NoCommit \notin Commits

VARIABLES
    order,      \* the versioned directories, by mtime, oldest first
    torn,       \* those of them that no longer validate
    env,        \* the commit that the environment file selects
    mounted,    \* the commit whose directory the gateway's container mounts
    healthy,    \* history: commits whose last health check succeeded
    pc, target, previous,
    doomed      \* what is left of the removals of a prune

dirs    == <<order, torn>>
process == <<pc, target, previous, doomed>>
vars    == <<dirs, env, mounted, healthy, process>>

Present == {order[i] : i \in DOMAIN order}
Whole   == Present \ torn

\* The order without its i-th directory.
Without(i) == [j \in 1..Len(order) - 1 |-> IF j < i THEN order[j] ELSE order[j + 1]]

Init ==
    /\ order = <<>> /\ torn = {}
    /\ env = NoCommit /\ mounted = NoCommit
    /\ healthy = {}
    /\ pc = [r \in Refreshes |-> "idle"]
    /\ target = [r \in Refreshes |-> NoCommit]
    /\ previous = [r \in Refreshes |-> NoCommit]
    /\ doomed = [r \in Refreshes |-> {}]

At(r, place) == pc[r] = place
Goto(r, place) == pc' = [pc EXCEPT ![r] = place]

\* The process is gone, and the flock with it.
Exit(r) ==
    /\ Goto(r, "idle")
    /\ target' = [target EXCEPT ![r] = NoCommit]
    /\ previous' = [previous EXCEPT ![r] = NoCommit]
    /\ doomed' = [doomed EXCEPT ![r] = {}]

------------------------------------------------------------------------------

\* Mutant of Start: nothing excludes a second refresh.
Start_NoLock(r) ==
    /\ At(r, "idle")
    /\ Goto(r, "fetch")
    /\ UNCHANGED <<dirs, env, mounted, healthy, target, previous, doomed>>

\* flock -n: a second refresh exits at once.
Start(r) ==
    /\ \A q \in Refreshes : At(q, "idle")
    /\ Goto(r, "fetch")
    /\ UNCHANGED <<dirs, env, mounted, healthy, target, previous, doomed>>

\* The fetch is forced, so any commit may come; a directory that is there
\* already is not built again.
Fetch(r, c) ==
    /\ At(r, "fetch")
    /\ target' = [target EXCEPT ![r] = c]
    /\ Goto(r, IF c \in Present THEN "validate" ELSE "build")
    /\ UNCHANGED <<dirs, env, mounted, healthy, previous, doomed>>

\* The snapshot is exported and validated in a staging directory, and renamed.
\* Until then no versioned directory changes.
Promote(r) ==
    /\ At(r, "build")
    /\ order' = Append(order, target[r])
    /\ Goto(r, "validate")
    /\ UNCHANGED <<torn, env, mounted, healthy, target, previous, doomed>>

Validate(r) ==
    /\ At(r, "validate")
    /\ target[r] \in Whole
    /\ Goto(r, "select")
    /\ UNCHANGED <<dirs, env, mounted, healthy, target, previous, doomed>>

\* Not with --build-only, nor without .env: those exit here.
Select(r) ==
    /\ At(r, "select")
    /\ previous' = [previous EXCEPT ![r] = env]
    /\ env' = target[r]
    /\ Goto(r, "compose")
    /\ UNCHANGED <<dirs, mounted, healthy, target, doomed>>

\* compose reads the environment file.
Compose(r) ==
    /\ At(r, "compose")
    /\ mounted' = env
    /\ Goto(r, "health")
    /\ UNCHANGED <<dirs, env, healthy, target, previous, doomed>>

\* compose fails when the old container is gone and no new one is there.
ComposeFails(r) ==
    /\ At(r, "compose") \/ At(r, "restore")
    /\ mounted' = NoCommit
    /\ Exit(r)
    /\ UNCHANGED <<dirs, env, healthy>>

\* Mutants of Retained: the current snapshot has no place of its own; one
\* directory more than asked for is kept.
Retained_NewestOnly(c) == {order[i] : i \in {j \in DOMAIN order : j > Len(order) - Keep}}
Retained_OneMore(c) ==
    {order[i] : i \in {j \in DOMAIN order : j >= Len(order) - Keep}} \cup {c}

\* prune: the newest directories of commits, and the current one.
Retained(c) == {order[i] : i \in {j \in DOMAIN order : j + Keep > Len(order)}} \cup {c}

\* The gateway answers with the commit in time: the others are to be pruned.
Healthy(r) ==
    /\ At(r, "health")
    /\ mounted = target[r]
    /\ healthy' = healthy \cup {target[r]}
    /\ doomed' = [doomed EXCEPT ![r] = Present \ Retained(target[r])]
    /\ Goto(r, "prune")
    /\ UNCHANGED <<dirs, env, mounted, target, previous>>

\* It does not: the previous selection returns, if there is one.
Unhealthy(r) ==
    /\ At(r, "health")
    /\ healthy' = healthy \ {target[r]}
    /\ IF previous[r] \in Present
       THEN /\ env' = previous[r]
            /\ Goto(r, "restore")
            /\ UNCHANGED <<target, previous, doomed>>
       ELSE /\ Exit(r)
            /\ UNCHANGED env
    /\ UNCHANGED <<dirs, mounted>>

\* The gateway is recreated on the old snapshot; nobody checks its health.
Restore(r) ==
    /\ At(r, "restore")
    /\ mounted' = env
    /\ Exit(r)
    /\ UNCHANGED <<dirs, env, healthy>>

\* Removal goes from the newest down.  It begins by making the tree writable;
\* once entries are unlinked the directory has a new mtime.
BeginRemoval(r, i) ==
    /\ At(r, "prune")
    /\ order[i] \in doomed[r] \ torn
    /\ \A j \in DOMAIN order : j > i => order[j] \notin doomed[r]
    /\ torn' = torn \cup {order[i]}
    /\ order' \in {order, Append(Without(i), order[i])}
    /\ UNCHANGED <<env, mounted, healthy, process>>

\* What an interrupted prune had left is removed too.
EndRemoval(r, i) ==
    /\ At(r, "prune")
    /\ order[i] \in doomed[r] \cap torn
    /\ order' = Without(i)
    /\ torn' = torn \ {order[i]}
    /\ healthy' = healthy \ {order[i]}
    /\ doomed' = [doomed EXCEPT ![r] = @ \ {order[i]}]
    /\ UNCHANGED <<env, mounted, pc, target, previous>>

\* The end of the script, or a step that fails under set -e without an effect,
\* or a kill: after any step.  A staging directory may be left behind.
Quit(r) ==
    /\ ~At(r, "idle")
    /\ Exit(r)
    /\ UNCHANGED <<dirs, env, mounted, healthy>>

\* An operator starts the gateway by hand on a promoted snapshot, with no
\* refresh under way.
StartByHand ==
    /\ \A r \in Refreshes : At(r, "idle")
    /\ mounted' \in Whole
    /\ UNCHANGED <<dirs, env, healthy, process>>

Next ==
    \/ \E r \in Refreshes :
          \/ Start(r) \/ Promote(r) \/ Validate(r) \/ Select(r)
          \/ Compose(r) \/ ComposeFails(r)
          \/ Healthy(r) \/ Unhealthy(r) \/ Restore(r) \/ Quit(r)
          \/ \E c \in Commits : Fetch(r, c)
          \/ \E i \in DOMAIN order : BeginRemoval(r, i) \/ EndRemoval(r, i)
    \/ StartByHand

Spec == Init /\ [][Next]_vars

------------------------------------------------------------------------------

TypeOK ==
    /\ order \in Seq(Commits)
    /\ \A i, j \in DOMAIN order : order[i] = order[j] => i = j
    /\ torn \subseteq Present
    /\ env \in Commits \cup {NoCommit} /\ mounted \in Commits \cup {NoCommit}
    /\ healthy \subseteq Commits
    /\ pc \in [Refreshes -> {"idle", "fetch", "build", "validate", "select", "compose",
                             "health", "restore", "prune"}]
    /\ target \in [Refreshes -> Commits \cup {NoCommit}]
    /\ previous \in [Refreshes -> Commits \cup {NoCommit}]
    /\ doomed \in [Refreshes -> SUBSET Commits]

\* What the gateway mounts, what the next start of it will mount, and what a
\* roll-back would select, is there and complete: at every instant, wherever
\* refreshes failed or were killed, and whatever was removed meanwhile.
MountedIsWhole ==
    /\ {env, mounted} \subseteq Whole \cup {NoCommit}
    /\ \A r \in Refreshes :
          ~At(r, "prune") => previous[r] \in Whole \cup {NoCommit}

\* A prune that has finished leaves no more than Keep directories and the
\* current one, whatever builds, roll-backs and broken prunes came before it.
RetentionBounded ==
    \A r \in Refreshes : At(r, "prune") /\ doomed[r] = {} => Len(order) <= Keep + 1

\* docs/gateway_repository_mcp.md:64: a refresh "retains the newest three
\* healthy snapshots".  A healthy one goes only if Keep newer healthy ones stay.
HealthyAreRetained ==
    [][\A i \in DOMAIN order :
          order[i] \in healthy \ torn /\ order[i] \in torn' =>
             Cardinality({j \in DOMAIN order : j > i /\ order[j] \in healthy \ torn})
                >= Keep]_vars

==============================================================================
