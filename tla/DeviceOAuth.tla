----------------------------- MODULE DeviceOAuth -----------------------------
(***************************************************************************)
(* DeviceOAuthProvider and ClientRegistry (app/mcp/device_oauth.py).  A    *)
(* client registers, opens an enrollment transaction, somebody submits the *)
(* enrollment secret for it and the client gets a code, which it exchanges *)
(* for an access and a refresh token.  The event loop runs a handler up to *)
(* its next await, so handlers interleave there; transactions and codes    *)
(* live in memory, registered clients also in a file, and tokens are       *)
(* signed with a key that outlives the process.                            *)
(***************************************************************************)
EXTENDS Naturals, FiniteSets

CONSTANTS Clients,      \* client IDs the registration endpoint can draw
          Forms,        \* enrollment forms in flight
          Requests,     \* token requests in flight
          MaxClients,   \* MAX_REGISTERED_CLIENTS
          MaxAttempts,  \* MAX_ENROLL_ATTEMPTS
          TxnTTL, CodeTTL, RefreshTTL,
          MaxTxns,      \* bound: transactions opened in a behaviour
          MaxClock,     \* bound: last tick of time.time()
          MaxMishaps    \* bound: failed registrations and restarts

ASSUME BoundsAssumption ==
    /\ MaxClients \in Nat /\ MaxAttempts \in Nat \ {0}
    /\ TxnTTL \in Nat /\ CodeTTL \in Nat /\ RefreshTTL \in Nat
    /\ MaxTxns \in Nat /\ MaxClock \in Nat /\ MaxMishaps \in Nat

VARIABLES
    clock,
    memory,     \* ClientRegistry._clients
    disk,       \* the clients in the registry file
    told,       \* history: clients that know their registration succeeded
    txns,       \* _enroll_transactions, by number; NoTxn if there is none
    opened,     \* transactions opened so far
    codes,      \* _auth_codes
    asleep,     \* the transaction a rejected form sleeps on, 0 if it is idle
    loaded,     \* the code each token request has loaded, as a set
    refresh,    \* when each client's last refresh token expires, 0 for none
    wrong,      \* history: wrong secrets compared, per transaction
    approved,   \* history: right ones
    granted,    \* history: token pairs issued for codes, per transaction
    mishaps

registry == <<memory, disk, told>>
flow     == <<txns, opened, codes, loaded, approved, granted>>
vars     == <<clock, registry, flow, asleep, refresh, wrong, mishaps>>

TxnIds == 1..MaxTxns
Txn    == [client: Clients, expires: Nat, attempts: Nat]
NoTxn  == [client |-> "none"]
Code   == [txn: TxnIds, nth: Nat, client: Clients, expires: Nat]

Zero == [t \in TxnIds |-> 0]

Init ==
    /\ clock = 0
    /\ memory = {} /\ disk = {} /\ told = {}
    /\ txns = [t \in TxnIds |-> NoTxn] /\ opened = 0
    /\ codes = {}
    /\ asleep = [f \in Forms |-> 0]
    /\ loaded = [r \in Requests |-> {}]
    /\ refresh = [c \in Clients |-> 0]
    /\ wrong = Zero /\ approved = Zero /\ granted = Zero
    /\ mishaps = 0

Tick ==
    /\ clock < MaxClock
    /\ clock' = clock + 1
    /\ UNCHANGED <<registry, flow, asleep, refresh, wrong, mishaps>>

Mishap == mishaps < MaxMishaps /\ mishaps' = mishaps + 1

------------------------------------------------------------------------------
(***************************************************************************)
(* The client registry.                                                    *)
(***************************************************************************)

\* A new ID, an allowed redirect URI, and room in the registry.
Registrable(c) == c \notin memory \cup told /\ Cardinality(memory) < MaxClients

\* Mutant of Register: the file is written before the client is entered.
Register_WritesFirst(c) ==
    /\ Registrable(c)
    /\ disk' = memory
    /\ memory' = memory \cup {c}
    /\ told' = told \cup {c}
    /\ UNCHANGED <<clock, flow, asleep, refresh, wrong, mishaps>>

\* The client is entered, the whole registry replaces the file, and the client
\* is told.
Register(c) ==
    /\ Registrable(c)
    /\ memory' = memory \cup {c}
    /\ disk' = memory'
    /\ told' = told \cup {c}
    /\ UNCHANGED <<clock, flow, asleep, refresh, wrong, mishaps>>

\* The file is not replaced, or the answer is lost: the client stays entered,
\* and the next registration writes it too.
RegisterFails(c) ==
    /\ Registrable(c)
    /\ Mishap
    /\ memory' = memory \cup {c}
    /\ disk' \in {disk, memory'}
    /\ UNCHANGED <<clock, told, flow, asleep, refresh, wrong>>

------------------------------------------------------------------------------
(***************************************************************************)
(* Enrollment transactions.                                                *)
(***************************************************************************)

\* _prune: at authorize and at the loading of a code.
LiveTxns == [t \in TxnIds |->
                IF txns[t] # NoTxn /\ txns[t].expires > clock THEN txns[t] ELSE NoTxn]
LiveCodes == {c \in codes : c.expires > clock}

\* The endpoint looks the client up, so it must be entered.
Authorize(c) ==
    /\ c \in told \cap memory
    /\ opened < MaxTxns
    /\ opened' = opened + 1
    /\ txns' = [LiveTxns EXCEPT ![opened + 1] =
                   [client |-> c, expires |-> clock + TxnTTL, attempts |-> 0]]
    /\ codes' = LiveCodes
    /\ UNCHANGED <<clock, registry, asleep, loaded, refresh, wrong, approved,
                   granted, mishaps>>

\* _get_transaction finds it.  On its last instant it is still found.
Found(t) == txns[t] # NoTxn /\ txns[t].expires >= clock

Drop(t) == txns' = [txns EXCEPT ![t] = NoTxn]

\* A form is asked for, or submitted, too late.
Lapse(t) ==
    /\ txns[t] # NoTxn /\ ~Found(t)
    /\ Drop(t)
    /\ UNCHANGED <<clock, registry, opened, codes, asleep, loaded, refresh, wrong,
                   approved, granted, mishaps>>

\* Mutants of Reject: the limit is not enforced; the count is read before the
\* delay and written after it, so that of overlapping attempts one is counted.
Reject_NoLimit(f, t) ==
    /\ asleep[f] = 0 /\ Found(t)
    /\ wrong' = [wrong EXCEPT ![t] = @ + 1]
    /\ txns' = [txns EXCEPT ![t].attempts = @ + 1]
    /\ asleep' = [asleep EXCEPT ![f] = t]
    /\ UNCHANGED <<clock, registry, opened, codes, loaded, refresh, approved,
                   granted, mishaps>>
Reject_LostUpdate(f, t) ==
    /\ asleep[f] = 0 /\ Found(t)
    /\ wrong' = [wrong EXCEPT ![t] = @ + 1]
    /\ IF \E g \in Forms : asleep[g] = t THEN UNCHANGED txns
       ELSE IF txns[t].attempts + 1 >= MaxAttempts THEN Drop(t)
       ELSE txns' = [txns EXCEPT ![t].attempts = @ + 1]
    /\ asleep' = [asleep EXCEPT ![f] = t]
    /\ UNCHANGED <<clock, registry, opened, codes, loaded, refresh, approved,
                   granted, mishaps>>

\* A wrong secret is counted, at the limit the transaction goes, and only then
\* does the handler sleep.
Reject(f, t) ==
    /\ asleep[f] = 0 /\ Found(t)
    /\ wrong' = [wrong EXCEPT ![t] = @ + 1]
    /\ IF txns[t].attempts + 1 >= MaxAttempts
       THEN Drop(t)
       ELSE txns' = [txns EXCEPT ![t].attempts = @ + 1]
    /\ asleep' = [asleep EXCEPT ![f] = t]
    /\ UNCHANGED <<clock, registry, opened, codes, loaded, refresh, approved,
                   granted, mishaps>>

\* The delay is over: the form is shown again, or not if the transaction is gone.
Wake(f) ==
    /\ asleep[f] # 0
    /\ asleep' = [asleep EXCEPT ![f] = 0]
    /\ UNCHANGED <<clock, registry, flow, refresh, wrong, mishaps>>

\* The right secret: the transaction becomes a code.
Approve(t) ==
    /\ Found(t)
    /\ Drop(t)
    /\ approved' = [approved EXCEPT ![t] = @ + 1]
    /\ codes' = codes \cup {[txn |-> t, nth |-> approved[t], client |-> txns[t].client,
                             expires |-> clock + CodeTTL]}
    /\ UNCHANGED <<clock, registry, opened, asleep, loaded, refresh, wrong,
                   granted, mishaps>>

------------------------------------------------------------------------------
(***************************************************************************)
(* Tokens.                                                                 *)
(***************************************************************************)

\* The token endpoint authenticates the client, loads the code and checks it
\* against the request; other handlers may run before it is exchanged.
Load(r, c) ==
    /\ loaded[r] = {}
    /\ c.client \in memory /\ c \in LiveCodes
    /\ loaded' = [loaded EXCEPT ![r] = {c}]
    /\ txns' = LiveTxns /\ codes' = LiveCodes
    /\ UNCHANGED <<clock, registry, opened, asleep, refresh, wrong, approved,
                   granted, mishaps>>

\* A code that is unknown, expired or another client's only prunes.
LoadNothing ==
    /\ txns' = LiveTxns /\ codes' = LiveCodes
    /\ UNCHANGED <<clock, registry, opened, asleep, loaded, refresh, wrong, approved,
                   granted, mishaps>>

Issue(c) == refresh' = [refresh EXCEPT ![c] = clock + RefreshTTL]

\* Mutant of Exchange: the code is not taken out.
Exchange_Reusable(r, c) ==
    /\ c \in loaded[r] /\ c \in codes
    /\ loaded' = [loaded EXCEPT ![r] = {}]
    /\ granted' = [granted EXCEPT ![c.txn] = @ + 1]
    /\ Issue(c.client)
    /\ UNCHANGED <<clock, registry, txns, opened, codes, asleep, wrong, approved,
                   mishaps>>

\* The code is taken out and tokens are issued.
Exchange(r, c) ==
    /\ c \in loaded[r] /\ c \in codes
    /\ loaded' = [loaded EXCEPT ![r] = {}]
    /\ codes' = codes \ {c}
    /\ granted' = [granted EXCEPT ![c.txn] = @ + 1]
    /\ Issue(c.client)
    /\ UNCHANGED <<clock, registry, txns, opened, asleep, wrong, approved, mishaps>>

\* The scope is not the one there is: the code is spent for nothing.
ExchangeFails(r, c) ==
    /\ c \in loaded[r] /\ c \in codes
    /\ loaded' = [loaded EXCEPT ![r] = {}]
    /\ codes' = codes \ {c}
    /\ UNCHANGED <<clock, registry, txns, opened, asleep, refresh, wrong, approved,
                   granted, mishaps>>

\* Somebody was faster, or the code was pruned meanwhile.
ExchangeUsed(r, c) ==
    /\ c \in loaded[r] /\ c \notin codes
    /\ loaded' = [loaded EXCEPT ![r] = {}]
    /\ UNCHANGED <<clock, registry, txns, opened, codes, asleep, refresh, wrong,
                   approved, granted, mishaps>>

\* A refresh token is checked by its signature alone; it is not used up.
Refresh(c) ==
    /\ c \in memory /\ refresh[c] > 0 /\ refresh[c] >= clock
    /\ Issue(c)
    /\ UNCHANGED <<clock, registry, flow, asleep, wrong, mishaps>>

------------------------------------------------------------------------------

\* Start-up reads the registry file; nothing else in memory survives.
Restart ==
    /\ Mishap
    /\ memory' = disk
    /\ txns' = [t \in TxnIds |-> NoTxn] /\ codes' = {}
    /\ asleep' = [f \in Forms |-> 0]
    /\ loaded' = [r \in Requests |-> {}]
    /\ UNCHANGED <<clock, disk, told, opened, refresh, wrong, approved, granted>>

Next ==
    \/ Tick
    \/ \E c \in Clients :
          Register(c) \/ RegisterFails(c) \/ Authorize(c) \/ Refresh(c)
    \/ \E t \in TxnIds : Lapse(t) \/ Approve(t) \/ \E f \in Forms : Reject(f, t)
    \/ \E f \in Forms : Wake(f)
    \/ \E r \in Requests :
          \/ \E c \in codes : Load(r, c)
          \/ \E c \in loaded[r] :
                Exchange(r, c) \/ ExchangeFails(r, c) \/ ExchangeUsed(r, c)
    \/ LoadNothing
    \/ Restart

Spec == Init /\ [][Next]_vars

------------------------------------------------------------------------------
(***************************************************************************)
(* Properties.                                                             *)
(***************************************************************************)

TypeOK ==
    /\ clock \in Nat
    /\ memory \subseteq Clients /\ disk \subseteq Clients /\ told \subseteq Clients
    /\ txns \in [TxnIds -> Txn \cup {NoTxn}]
    /\ \A t \in TxnIds : txns[t] # NoTxn => txns[t].attempts < MaxAttempts
    /\ opened \in 0..MaxTxns
    /\ codes \subseteq Code
    /\ asleep \in [Forms -> 0..MaxTxns]
    /\ loaded \in [Requests -> SUBSET Code]
    /\ refresh \in [Clients -> Nat]
    /\ wrong \in [TxnIds -> Nat] /\ approved \in [TxnIds -> Nat]
    /\ granted \in [TxnIds -> Nat]
    /\ mishaps \in 0..MaxMishaps

\* A transaction lets at most MaxAttempts secrets be tried, however many forms
\* are in flight and however long they sleep; the right one is among them.
SubmissionsBounded == \A t \in TxnIds : wrong[t] + approved[t] <= MaxAttempts

\* One enrollment gives one token pair at most: the transaction, its code and
\* the code's exchange are each used once, whoever races for them.
OneGrantPerEnrollment ==
    \A t \in TxnIds : granted[t] <= approved[t] /\ approved[t] <= 1

\* A restart can load the registry, and forgets no client that was told of its
\* registration or holds a token: not after failed writes either.
RegistrySurvives ==
    /\ Cardinality(disk) <= MaxClients
    /\ told \subseteq disk /\ disk \subseteq memory
    /\ \A c \in Clients : refresh[c] > 0 => c \in told

==============================================================================
