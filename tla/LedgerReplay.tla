---------------------------- MODULE LedgerReplay ----------------------------
(***************************************************************************)
(* The fold of _ledger_claims, record by record: a dictionary from tasks   *)
(* to claims, an exception (raised) at the first release that does not     *)
(* match, and the final filter on expiry.  The operators of ClaimLedger,   *)
(* which the service is modelled with, must agree with it on every ledger, *)
(* whoever wrote it.                                                       *)
(***************************************************************************)
EXTENDS ClaimLedger, SequencesExt

NoClaim == [kind |-> "none"]

\* The claim that a release must match.
Matched(claims, e) ==
    LET current == claims[e.task]
    IN  current # NoClaim /\ current.id = e.id /\ current.owner = e.owner

\* Mutants of FoldStep: a release is matched on the claim ID alone; a claim of a
\* task that has one does not replace it.
FoldStep_AnyOwner(s, e) ==
    IF s.raised \/ e.kind = "noted" THEN s
    ELSE IF e.kind = "claimed" THEN [s EXCEPT !.claims[e.task] = e]
    ELSE IF s.claims[e.task] # NoClaim /\ s.claims[e.task].id = e.id
         THEN [s EXCEPT !.claims[e.task] = NoClaim]
         ELSE [s EXCEPT !.raised = TRUE]
FoldStep_KeepsFirst(s, e) ==
    IF s.raised \/ e.kind = "noted" THEN s
    ELSE IF e.kind = "claimed"
         THEN IF s.claims[e.task] = NoClaim THEN [s EXCEPT !.claims[e.task] = e] ELSE s
    ELSE IF Matched(s.claims, e) THEN [s EXCEPT !.claims[e.task] = NoClaim]
         ELSE [s EXCEPT !.raised = TRUE]

\* One iteration of the loop over the records, unless one before it raised.
FoldStep(s, e) ==
    IF s.raised \/ e.kind = "noted" THEN s
    ELSE IF e.kind = "claimed" THEN [s EXCEPT !.claims[e.task] = e]
    ELSE IF Matched(s.claims, e) THEN [s EXCEPT !.claims[e.task] = NoClaim]
         ELSE [s EXCEPT !.raised = TRUE]

Fold(records) ==
    FoldLeft(FoldStep, [claims |-> [t \in Tasks |-> NoClaim], raised |-> FALSE], records)

Unexpired(claims, now) ==
    {t \in Tasks : claims[t] # NoClaim /\ claims[t].expires > now}

==============================================================================
