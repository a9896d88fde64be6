-------------------------- MODULE ContributorAuth --------------------------
(***************************************************************************)
(* ContributorAuthorizer (app/mcp/github_oauth.py): is a verified GitHub   *)
(* user a collaborator of the repository?  Answers come from a cache with  *)
(* a lifetime per verdict, or from one GitHub request made while an        *)
(* asyncio lock is held across the await, so that every other check, hit   *)
(* or miss, waits for it.  Meanwhile collaborators come and go at GitHub.  *)
(***************************************************************************)
EXTENDS Naturals

CONSTANTS Users,        \* cache keys: (user id, casefolded login)
          Callers,      \* checks in flight
          Free,         \* the value of an unheld lock
          PositiveTTL, NegativeTTL,
          MaxClock      \* bound: last tick of the monotonic clock

ASSUME CallersAssumption == Free \notin Callers

\* Settings keeps both lifetimes positive and the negative one no longer.
ASSUME TTLAssumption ==
    /\ PositiveTTL \in Nat \ {0} /\ NegativeTTL \in Nat \ {0}
    /\ NegativeTTL <= PositiveTTL

VARIABLES
    clock,      \* time.monotonic()
    members,    \* external: the repository's collaborators at GitHub
    lastIn,     \* history: when each user last was a collaborator (1 + instant, 0 never)
    lastOut,    \* history: when each user last was none
    cache,      \* _cache: an entry per user, or Absent
    lock,       \* _lock
    pc,
    check,      \* the call: user, whether it uses the cache, `now`, GitHub's verdict
    answer      \* history: the last answer given, to whom and when

vars == <<clock, members, lastIn, lastOut, cache, lock, pc, check, answer>>

Verdicts == {"allowed", "denied"}
Absent   == [state |-> "absent", expires |-> 0]
CacheEntry == [state: Verdicts, expires: Nat]
Check    == [user: Users, cached: BOOLEAN, now: Nat, verdict: Verdicts]
NoCheck  == [cached |-> FALSE]
Answer   == [user: Users, state: Verdicts \cup {"unavailable"}, at: Nat,
             from: {"cache", "github"}, asked: Nat]
NoAnswer == [state |-> "none"]

TTL(verdict) == IF verdict = "allowed" THEN PositiveTTL ELSE NegativeTTL

TypeOK ==
    /\ clock \in Nat
    /\ members \subseteq Users
    /\ lastIn \in [Users -> Nat] /\ lastOut \in [Users -> Nat]
    /\ cache \in [Users -> CacheEntry \cup {Absent}]
    /\ lock \in Callers \cup {Free}
    /\ pc \in [Callers -> {"idle", "waiting", "asking", "asked"}]
    /\ check \in [Callers -> Check \cup {NoCheck}]
    /\ \A p \in Callers : pc[p] # "idle" => check[p] \in Check
    /\ answer \in Answer \cup {NoAnswer}

\* A user who is a collaborator now was one last at this instant.
Seen(last, who, now) == [u \in Users |-> IF u \in who THEN now + 1 ELSE last[u]]

Init ==
    /\ clock = 0
    /\ members \in SUBSET Users
    /\ lastIn = Seen([u \in Users |-> 0], members, 0)
    /\ lastOut = Seen([u \in Users |-> 0], Users \ members, 0)
    /\ cache = [u \in Users |-> Absent]
    /\ lock = Free
    /\ pc = [p \in Callers |-> "idle"]
    /\ check = [p \in Callers |-> NoCheck]
    /\ answer = NoAnswer

------------------------------------------------------------------------------
(***************************************************************************)
(* The world: time, and the owner of the repository.                       *)
(***************************************************************************)

Tick ==
    /\ clock < MaxClock
    /\ clock' = clock + 1
    /\ lastIn' = Seen(lastIn, members, clock')
    /\ lastOut' = Seen(lastOut, Users \ members, clock')
    /\ UNCHANGED <<members, cache, lock, pc, check, answer>>

Enrol(u) ==
    /\ u \notin members
    /\ members' = members \cup {u}
    /\ lastIn' = Seen(lastIn, members', clock)
    /\ UNCHANGED <<clock, lastOut, cache, lock, pc, check, answer>>

Revoke(u) ==
    /\ u \in members
    /\ members' = members \ {u}
    /\ lastOut' = Seen(lastOut, Users \ members', clock)
    /\ UNCHANGED <<clock, lastIn, cache, lock, pc, check, answer>>

world == <<clock, members, lastIn, lastOut>>

------------------------------------------------------------------------------
(***************************************************************************)
(* check and preflight.                                                    *)
(***************************************************************************)

\* A call waits for the lock; preflight is the call that skips the cache.
Arrive(p, u, cached) ==
    /\ pc[p] = "idle"
    /\ pc' = [pc EXCEPT ![p] = "waiting"]
    /\ check' = [check EXCEPT ![p] = [user |-> u, cached |-> cached, now |-> 0,
                                      verdict |-> "denied"]]
    /\ UNCHANGED <<world, cache, lock, answer>>

\* An identity that is no GitHub identity is unavailable: no lock, no request.
Invalid(p, u) ==
    /\ pc[p] = "idle"
    /\ answer' = [user |-> u, state |-> "unavailable", at |-> clock,
                  from |-> "github", asked |-> clock]
    /\ UNCHANGED <<world, cache, lock, pc, check>>

Told(p, state, from) ==
    answer' = [user |-> check[p].user, state |-> state, at |-> clock,
               from |-> from, asked |-> check[p].now]

\* Every way out of check releases the lock if it is held.
Leave(p) ==
    /\ pc' = [pc EXCEPT ![p] = "idle"]
    /\ check' = [check EXCEPT ![p] = NoCheck]
    /\ lock' = IF lock = p THEN Free ELSE lock

CanLock(p) == pc[p] = "waiting" /\ lock = Free

\* The clock is read with the lock held.
Fresh(u, now) == cache[u] # Absent /\ cache[u].expires > now

Hit(p) ==
    LET u == check[p].user IN
    /\ CanLock(p) /\ check[p].cached /\ Fresh(u, clock)
    /\ Told(p, cache[u].state, "cache")
    /\ Leave(p)
    /\ UNCHANGED <<world, cache>>

\* A miss drops the entry and sends the request; the lock stays held.
Ask(p) ==
    LET u == check[p].user IN
    /\ CanLock(p) /\ ~(check[p].cached /\ Fresh(u, clock))
    /\ lock' = p
    /\ cache' = IF check[p].cached THEN [cache EXCEPT ![u] = Absent] ELSE cache
    /\ check' = [check EXCEPT ![p].now = clock]
    /\ pc' = [pc EXCEPT ![p] = "asking"]
    /\ UNCHANGED <<world, answer>>

\* External: GitHub decides (204 or 404) some time after the request was sent,
\* and the response arrives some time after that.
Decide(p) ==
    /\ pc[p] = "asking"
    /\ check' = [check EXCEPT ![p].verdict =
                    IF check[p].user \in members THEN "allowed" ELSE "denied"]
    /\ pc' = [pc EXCEPT ![p] = "asked"]
    /\ UNCHANGED <<world, cache, lock, answer>>

\* Mutants of Learn: the lifetime runs from the response; every verdict is kept
\* as long as a positive one.
Learn_FromNow(p) ==
    LET c == check[p] IN
    /\ pc[p] = "asked"
    /\ cache' = IF c.cached
                THEN [cache EXCEPT ![c.user] = [state |-> c.verdict,
                                                expires |-> clock + TTL(c.verdict)]]
                ELSE cache
    /\ Told(p, c.verdict, "github")
    /\ Leave(p)
    /\ UNCHANGED world
Learn_OneTTL(p) ==
    LET c == check[p] IN
    /\ pc[p] = "asked"
    /\ cache' = IF c.cached
                THEN [cache EXCEPT ![c.user] = [state |-> c.verdict,
                                                expires |-> c.now + PositiveTTL]]
                ELSE cache
    /\ Told(p, c.verdict, "github")
    /\ Leave(p)
    /\ UNCHANGED world

\* The response: cached from the time the request was sent, and answered.
Learn(p) ==
    LET c == check[p] IN
    /\ pc[p] = "asked"
    /\ cache' = IF c.cached
                THEN [cache EXCEPT ![c.user] = [state |-> c.verdict,
                                                expires |-> c.now + TTL(c.verdict)]]
                ELSE cache
    /\ Told(p, c.verdict, "github")
    /\ Leave(p)
    /\ UNCHANGED world

\* Mutants of Fail: the failure is cached; the lock is not released.
Fail_Caches(p) ==
    LET c == check[p] IN
    /\ pc[p] \in {"asking", "asked"}
    /\ cache' = [cache EXCEPT ![c.user] = [state |-> "unavailable",
                                           expires |-> c.now + NegativeTTL]]
    /\ Told(p, "unavailable", "github")
    /\ Leave(p)
    /\ UNCHANGED world
Fail_KeepsLock(p) ==
    /\ pc[p] \in {"asking", "asked"}
    /\ Told(p, "unavailable", "github")
    /\ pc' = [pc EXCEPT ![p] = "idle"]
    /\ check' = [check EXCEPT ![p] = NoCheck]
    /\ UNCHANGED <<world, cache, lock>>

\* A timeout, a transport error or another status: nothing is cached.
Fail(p) ==
    /\ pc[p] \in {"asking", "asked"}
    /\ Told(p, "unavailable", "github")
    /\ Leave(p)
    /\ UNCHANGED <<world, cache>>

\* The client goes away and the task is cancelled at its await.
Cancel(p) ==
    /\ pc[p] # "idle"
    /\ Leave(p)
    /\ UNCHANGED <<world, cache, answer>>

\* The gateway is restarted: the cache is in memory only.
Restart ==
    /\ cache' = [u \in Users |-> Absent]
    /\ lock' = Free
    /\ pc' = [p \in Callers |-> "idle"]
    /\ check' = [p \in Callers |-> NoCheck]
    /\ UNCHANGED <<world, answer>>

------------------------------------------------------------------------------

Begin(p) == Hit(p) \/ Ask(p)

Next ==
    \/ Tick
    \/ \E u \in Users : Enrol(u) \/ Revoke(u)
    \/ \E p \in Callers, u \in Users :
          Invalid(p, u) \/ \E cached \in BOOLEAN : Arrive(p, u, cached)
    \/ \E p \in Callers : Begin(p) \/ Decide(p) \/ Learn(p) \/ Fail(p) \/ Cancel(p)
    \/ Restart

Spec == Init /\ [][Next]_vars

\* asyncio.Lock wakes its waiters in order, so a check that keeps finding the
\* lock free gets it; the client's timeout ends every request.
Fairness ==
    \A p \in Callers : SF_vars(Begin(p)) /\ WF_vars(Learn(p) \/ Fail(p))

FairSpec == Spec /\ Fairness

------------------------------------------------------------------------------
(***************************************************************************)
(* Properties.                                                             *)
(***************************************************************************)

\* Revocation is bounded: whoever is told "allowed" was a collaborator less than
\* PositiveTTL ago, or, when GitHub was asked, at some moment since the request
\* was sent, however long it took and whatever waited for the lock.
RevocationBounded ==
    answer.state = "allowed" =>
        \/ answer.from = "cache" /\ lastIn[answer.user] + PositiveTTL > answer.at + 1
        \/ answer.from = "github" /\ lastIn[answer.user] > answer.asked

\* So is the wait of a new collaborator: a "denied" is no older than NegativeTTL.
DenialBounded ==
    answer.state = "denied" =>
        \/ answer.from = "cache" /\ lastOut[answer.user] + NegativeTTL > answer.at + 1
        \/ answer.from = "github" /\ lastOut[answer.user] > answer.asked

\* Every check ends, although one slow request blocks all the others: no path
\* out of it, failure and cancellation included, keeps the lock.
EveryCheckEnds == \A p \in Callers : pc[p] = "waiting" ~> pc[p] = "idle"

==============================================================================
