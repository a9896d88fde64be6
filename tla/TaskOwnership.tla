---------------------------- MODULE TaskOwnership ----------------------------
(***************************************************************************)
(* What the task-claim service promises, with no ledger, lock, file or     *)
(* call in sight: at each moment a task has one holder or none.  A claim   *)
(* begins only while its task has no holder, and ends when it expires or   *)
(* is released.  Callers are told of claims; power loss may undo only what *)
(* nobody was told of.                                                     *)
(***************************************************************************)
EXTENDS Naturals

CONSTANTS Tasks, NoClaim,
          Claims    \* records with a task and an expiry (fields task, expires)

VARIABLES
    now,       \* real time
    holder,    \* the claim in force on each task, or NoClaim
    told,      \* claims whose owners have been told that they hold them
    limbo      \* claims released by a release that is not final yet

vars == <<now, holder, told, limbo>>

Init ==
    /\ now = 0
    /\ holder = [t \in Tasks |-> NoClaim]
    /\ told = {}
    /\ limbo = {}

\* Time passes; claims that end by then are no longer in force.
Tick ==
    /\ now' = now + 1
    /\ holder' = [t \in Tasks |->
                    IF holder[t] # NoClaim /\ holder[t].expires <= now'
                    THEN NoClaim ELSE holder[t]]
    /\ UNCHANGED told
    /\ limbo' = {c \in limbo : c.expires > now'}

Begins(c, t) == c \in Claims /\ c.task = t /\ c.expires > now

Grant(t) ==
    /\ holder[t] = NoClaim
    /\ Begins(holder'[t], t)
    /\ holder' = [holder EXCEPT ![t] = holder'[t]]
    /\ UNCHANGED <<now, told, limbo>>

Release(t) ==
    /\ holder[t] # NoClaim
    /\ holder' = [holder EXCEPT ![t] = NoClaim]
    /\ limbo' = limbo \cup {holder[t]}
    /\ UNCHANGED <<now, told>>

\* Everything so far becomes final, and a caller may be told of a claim that
\* is in force or has expired meanwhile.
Settle ==
    /\ limbo' = {}
    /\ \/ told' = told
       \/ \E c \in told' : /\ c \in Claims
                           /\ holder[c.task] = c \/ c.expires <= now
                           /\ told' = told \cup {c}
    /\ UNCHANGED <<now, holder>>

\* Power loss: a claim nobody was told of may vanish, and a claim whose
\* release is in limbo may be back in force.  Whatever remains is final.
Forget ==
    /\ DOMAIN holder' = Tasks
    /\ \A t \in Tasks :
          \/ holder'[t] = holder[t]
          \/ /\ holder[t] \notin told
             /\ holder'[t] \in {c \in limbo : c.task = t} \cup {NoClaim}
    /\ limbo' = {}
    /\ UNCHANGED <<now, told>>

Next ==
    \/ Tick
    \/ \E t \in Tasks : Grant(t) \/ Release(t)
    \/ Settle
    \/ Forget

Spec == Init /\ [][Next]_vars

==============================================================================
