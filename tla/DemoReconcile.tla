---------------------------- MODULE DemoReconcile ----------------------------
(***************************************************************************)
(* Read-only venue reconciliation of demo commands:                        *)
(* GovernedBloFinDemoLoop.reconcile_command and reconcile_pending, with    *)
(* resolve_verified_demo_exit.                                             *)
(*                                                                         *)
(* One pass reads the effect, looks the order up by client order id,       *)
(* records order and fills in one transaction, then reads the position and *)
(* records the exit in another.  No lock is held across the two venue      *)
(* reads, so everything may have changed when a pass goes on.              *)
(***************************************************************************)
EXTENDS VenueDispatch

CONSTANT BatchLimit      \* commands per reconcile_pending (20 in the code)

ASSUME BatchAssumption == BatchLimit \in Nat \ {0}

(* reconcile_pending: the oldest commands without a resolution, as         *)
(* positions in the order of created_at.                                   *)
Pending == {j \in 1..Len(claims) : GovernedDemo(claims[j]) /\ claims[j] \notin resolved}

Batch == {claims[j] : j \in {i \in Pending :
                               Cardinality({h \in Pending : h < i}) < BatchLimit}}

(* The watcher's cycle reconciles a command of the batch: a fresh read. *)
StartReconcile(w, c) ==
    /\ worker[w].pc = "idle"
    /\ c \in Batch
    /\ Reconcilable(ViewOf(effect[c]))
    /\ GoReconcile(w, c, ViewOf(effect[c]))
    /\ Rollback
    /\ UNCHANGED <<order, posts, faults, safetyVars>>

(* provider.reconcile: one consistent read of order and fills.  An absent  *)
(* order proves nothing and leaves the command on hold.                    *)
Lookup(w) ==
    LET c == worker[w].cmd IN
    /\ worker[w].pc = "lookup"
    /\ worker' = [worker EXCEPT ![w] =
                    IF order[c].status = "none"
                    THEN IdleWorker
                    ELSE [@ EXCEPT !.pc = "apply", !.evidence = order[c]]]
    /\ Rollback
    /\ UNCHANGED <<order, posts, faults, safetyVars>>

----------------------------------------------------------------------------
(* record_demo_order decides from the worker's copy of the effect. *)
RecordOrder(b, view) ==
    IF view.state = "SEND_ATTEMPTED" /\ ~view.uncertain
    THEN b
    ELSE MarkAcknowledged(b, view)

RecordRejection(b, c, view) ==
    IF view.disposition = "REJECTED" /\ ~view.uncertain
    THEN b
    ELSE MarkRejected(b, c, view)

(* Mutant: an order that is not filled yet counts as ended. *)
RecordEndUnlessFilled(b, c, evidence) ==
    IF evidence.status # "filled" THEN RecordTerminal(b, c) ELSE b

(* Evidence with a cancelled remainder ends the order. *)
RecordEnd(b, c, evidence) ==
    IF evidence.status = "cancelled" THEN RecordTerminal(b, c) ELSE b

(* Mutant: fills are applied without looking for their recorded fact. *)
RecordAllFills(b, c, evidence) ==
    IF evidence.filled > 0 /\ evidence.filled <= b.receipt.remaining
    THEN ApplyFills(b, c, b.ledger, evidence.filled, evidence.value)
    ELSE b

(* The fills of the evidence that have no recorded fact yet. *)
RecordNewFills(b, c, evidence) ==
    IF evidence.filled > b.receipt.filled
    THEN ApplyFills(b, c, b.ledger, evidence.filled - b.receipt.filled,
                    Minus(evidence.value, b.receipt.value))
    ELSE b

(* effect.disposition = d *)
MarkDisposition(b, d) ==
    [effect |-> [b.effect EXCEPT !.disposition = d],
     receipt |-> b.receipt, ledger |-> b.ledger]

(* The entry transaction, under the epoch lock.  A fill beyond the         *)
(* remaining quantity is a conflict that rolls all of it back.             *)
ReconcileEntry(w) ==
    LET c == worker[w].cmd
        view == worker[w].view
        evidence == worker[w].evidence
        rejected == evidence.status = "rejected" /\ evidence.filled = 0
        conflict == Minus(evidence.filled, receipt[c].filled) > receipt[c].remaining
        entry == RecordEnd(RecordNewFills(RecordOrder(Rows(c), view), c, evidence),
                           c, evidence)
    IN
    /\ worker[w].pc = "apply"
    /\ \/ /\ c \in resolved \/ (~rejected /\ conflict)
          /\ Rollback
          /\ GoIdle(w)
       \/ /\ c \notin resolved /\ rejected
          /\ Commit(c, RecordRejection(Rows(c), c, view))
          /\ GoIdle(w)
       \/ /\ c \notin resolved /\ ~rejected /\ ~conflict /\ evidence.filled = 0
          /\ Commit(c, MarkDisposition(entry, "DEMO_UNFILLED"))
          /\ GoIdle(w)
       \/ /\ c \notin resolved /\ ~rejected /\ ~conflict /\ evidence.filled > 0
          /\ Commit(c, entry)
          /\ GoTo(w, "exit", 0, ViewOf(entry.effect))
    /\ UNCHANGED <<order, posts, faults, safetyVars>>

----------------------------------------------------------------------------
(* resolve_verified_demo_exit demands the consumed authorization, no       *)
(* uncertainty, exactly the recorded entry fills and a ledger that covers  *)
(* the release.                                                            *)
ExitResolvable(c, evidence) ==
    /\ authorization[command[c].auth] = "CONSUMED"
    /\ ~effect[c].uncertain
    /\ ledger.reservation[c].converted = 1
    /\ receipt[c].filled = evidence.filled
    /\ order[c].filled = evidence.filled
    /\ CanReleaseExit(ledger, c, receipt[c].value)

ResolveExit(c) ==
    /\ effect' = [effect EXCEPT ![c].disposition = "DEMO_CLOSED_RECONCILED"]
    /\ ledger' = ReleaseExit(ledger, c, receipt[c].value)
    /\ resolved' = resolved \cup {c}
    /\ UNCHANGED <<command, authorization, expired, receipt, claims, today>>

(* The venue shows the position closed: resolve it, or hold the operator   *)
(* with the kill switch.                                                   *)
ExitObserved(c, evidence) ==
    /\ order[c].exited
    /\ IF c \in resolved
       THEN Rollback /\ UNCHANGED safetyVars
       ELSE IF ExitResolvable(c, evidence)
            THEN ResolveExit(c) /\ UNCHANGED safetyVars
            ELSE Rollback /\ KillActivate

(* The position is open, or its state unreadable; the fill is protected or *)
(* the kill switch is armed.                                               *)
ExitNotObserved(c, evidence, protected) ==
    IF c \in resolved
    THEN Rollback /\ UNCHANGED safetyVars
    ELSE /\ LET open == MarkDisposition(Rows(c), IF protected THEN "DEMO_PROTECTED"
                                                ELSE "DEMO_PROTECTION_MISSING")
            IN  Commit(c, RecordEnd(open, c, evidence))
         /\ IF protected THEN UNCHANGED safetyVars ELSE KillActivate

(* _hold_profile_liquidation: after a fill of a profile-sized plan, the    *)
(* liquidation price is through the stop or unreadable.  The hold labels   *)
(* the effect without looking for a resolution.                            *)
ProfileLiquidationHold(c, armed) ==
    /\ Commit(c, MarkDisposition(Rows(c), "DEMO_LIQUIDATION_HOLD"))
    /\ IF armed THEN KillActivate ELSE UNCHANGED safetyVars

(* A position that differs from the owned fills arms the kill switch.      *)
LineageConflict == Rollback /\ KillActivate

ReconcileExit(w) ==
    LET c == worker[w].cmd
        evidence == worker[w].evidence
    IN
    /\ worker[w].pc = "exit"
    /\ \/ ExitObserved(c, evidence)
       \/ \E protected \in BOOLEAN : ExitNotObserved(c, evidence, protected)
       \/ \E armed \in BOOLEAN : ProfileLiquidationHold(c, armed)
       \/ LineageConflict
    /\ GoIdle(w)
    /\ UNCHANGED <<order, posts, faults>>

============================================================================
