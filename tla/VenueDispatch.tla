---------------------------- MODULE VenueDispatch ----------------------------
(***************************************************************************)
(* Dispatch of one claimed demo command to the venue:                      *)
(* GovernedBloFinDemoLoop's tail and VenueSubmitDispatcher.                *)
(*                                                                         *)
(* A worker is one sequential run of the loop.  The worker lock is a best- *)
(* effort lock with a time-to-live, so two workers can process the same    *)
(* command.  Every database transaction is one action; provider IO happens *)
(* between transactions, and a worker keeps across it the ORM's copy of    *)
(* the effect row ("view"), which unlocked reads return again unrefreshed. *)
(*                                                                         *)
(*   worker : where each worker is, its command, the fence it holds, its   *)
(*            copy of the effect and the venue evidence it read            *)
(*   order  : the venue's order for a command's client order id            *)
(*   posts  : how many entry POSTs were sent for a command (history)       *)
(*   faults : crashes and failed reads so far, at most MaxFaults           *)
(***************************************************************************)
EXTENDS ExecutionClaim

CONSTANTS
    Workers,
    NoCommandId,     \* the command of an idle worker
    Prices,          \* fill values per unit of quantity
    MaxFaults

ASSUME WorkerAssumption ==
    /\ NoCommandId \notin Commands
    /\ Prices \subseteq Nat \ {0}
    /\ MaxFaults \in Nat

VARIABLES worker, order, posts, faults

dispatchVars == <<worker, order, posts, faults>>

WorkerStates == {"idle", "dispatch", "recover", "authorized", "preflight",
                 "gated", "accepted", "rejected", "lookup", "apply", "exit"}

View == [state : EffectStates, uncertain : BOOLEAN, disposition : Dispositions]

Order == [status : {"none", "open", "filled", "cancelled", "rejected"},
          filled : Nat, value : Nat, exited : BOOLEAN]

Worker == [pc : WorkerStates, cmd : Commands \cup {NoCommandId}, fence : Nat,
           view : View, evidence : Order]

ViewOf(e) == [state |-> e.state, uncertain |-> e.uncertain,
              disposition |-> e.disposition]

NoOrder == [status |-> "none", filled |-> 0, value |-> 0, exited |-> FALSE]

IdleWorker == [pc |-> "idle", cmd |-> NoCommandId, fence |-> 0,
               view |-> ViewOf(NoEffect), evidence |-> NoOrder]

DispatchTypeOK ==
    /\ worker \in [Workers -> Worker]
    /\ \A w \in Workers : worker[w].pc = "idle" <=> worker[w].cmd = NoCommandId
    /\ order \in [Commands -> Order]
    /\ posts \in [Commands -> Nat]
    /\ faults \in 0..MaxFaults

DispatchInit ==
    /\ worker = [w \in Workers |-> IdleWorker]
    /\ order = [c \in Commands |-> NoOrder]
    /\ posts = [c \in Commands |-> 0]
    /\ faults = 0

----------------------------------------------------------------------------
(* The rows of a command that one transaction reads and writes.            *)
Rows(c) == [effect |-> effect[c], receipt |-> receipt[c], ledger |-> ledger]

Commit(c, b) ==
    /\ effect' = [effect EXCEPT ![c] = b.effect]
    /\ receipt' = [receipt EXCEPT ![c] = b.receipt]
    /\ ledger' = b.ledger
    /\ UNCHANGED <<command, authorization, expired, claims, resolved, today>>

Rollback == UNCHANGED <<claimVars, ledgerVars>>

(* _mark_ambiguous *)
MarkAmbiguous(b) ==
    [effect |-> [b.effect EXCEPT !.state = "SEND_AMBIGUOUS",
                                 !.uncertain = TRUE,
                                 !.disposition = "AMBIGUOUS"],
     receipt |-> [b.receipt EXCEPT !.state = "RECONCILIATION_REQUIRED"],
     ledger |-> b.ledger]

(* _mark_acknowledged on the worker's copy of the effect: the ORM writes   *)
(* "uncertainty = false" only when the copy held true.                     *)
MarkAcknowledged(b, view) ==
    [effect |-> [b.effect EXCEPT !.state = "SEND_ATTEMPTED",
                                 !.uncertain = @ /\ ~view.uncertain,
                                 !.disposition = "ACCEPTED"],
     receipt |-> [b.receipt EXCEPT !.state = "ACKNOWLEDGED"],
     ledger |-> b.ledger]

(* _mark_rejected *)
MarkRejected(b, c, view) ==
    [effect |-> [b.effect EXCEPT !.state = "SEND_ATTEMPTED",
                                 !.uncertain = @ /\ ~view.uncertain,
                                 !.disposition = "REJECTED"],
     receipt |-> [b.receipt EXCEPT !.state = "REJECTED", !.remaining = 0],
     ledger |-> ReleaseUnused(b.ledger, c)]

(* _block_before_dispatch; its caller has excluded DISPATCH_AUTHORIZED.    *)
BlockBeforeDispatch(b, c) ==
    IF b.receipt.state = "BLOCKED_BEFORE_DISPATCH"
    THEN b
    ELSE [effect |-> [b.effect EXCEPT !.state = "PROVEN_UNSENT",
                                      !.owned = FALSE,
                                      !.uncertain = FALSE,
                                      !.disposition = "PROVEN_UNSENT"],
          receipt |-> [b.receipt EXCEPT !.state = "BLOCKED_BEFORE_DISPATCH"],
          ledger |-> ReleaseUnused(b.ledger, c)]

(* apply_unique_fill for the fills not recorded yet: n units worth "value".*)
(* Source identities are unique and the venue only appends fills, so the   *)
(* new ones are those beyond the recorded quantity.                        *)
ApplyFills(b, c, l, n, value) ==
    [effect |-> b.effect,
     receipt |-> [state |-> IF b.receipt.remaining = n THEN "ACKNOWLEDGED"
                                                       ELSE "PARTIALLY_FILLED",
                  filled |-> b.receipt.filled + n,
                  value |-> b.receipt.value + value,
                  remaining |-> b.receipt.remaining - n],
     ledger |-> ConvertForFill(l, c, value)]

(* record_demo_terminal *)
RecordTerminal(b, c) ==
    IF b.receipt.state \in {"CANCELLED", "PARTIALLY_FILLED_CANCELLED"}
    THEN b
    ELSE [effect |-> b.effect,
          receipt |-> [b.receipt EXCEPT
                         !.state = IF b.receipt.filled > 0
                                   THEN "PARTIALLY_FILLED_CANCELLED"
                                   ELSE "CANCELLED",
                         !.remaining = 0],
          ledger |-> ReleaseUnused(b.ledger, c)]

----------------------------------------------------------------------------
(* Mutant: only sends that are still uncertain are reconciled. *)
ReconcilableWhileUncertain(view) == view.uncertain

(* Mutant: only acknowledged sends are reconciled. *)
ReconcilableOnceAcknowledged(view) ==
    view.state = "SEND_ATTEMPTED" /\ view.disposition # "REJECTED"

(* The first read of reconcile_command: a command that was never sent, or  *)
(* whose rejection is recorded, is left alone.                             *)
Reconcilable(view) ==
    /\ view.state \notin {"NONE", "CREATED", "PROVEN_UNSENT"}
    /\ view.disposition # "REJECTED"

(* The worker goes on to reconcile what it has just sent, on its copy.     *)
GoReconcile(w, c, view) ==
    worker' = [worker EXCEPT ![w] =
                 IF Reconcilable(view)
                 THEN [IdleWorker EXCEPT !.pc = "lookup", !.cmd = c, !.view = view]
                 ELSE IdleWorker]

GoTo(w, pc, fence, view) ==
    worker' = [worker EXCEPT ![w].pc = pc, ![w].fence = fence, ![w].view = view]

GoIdle(w) == worker' = [worker EXCEPT ![w] = IdleWorker]

(* Mutant: a send stuck in the ambiguous state is dispatched again. *)
DispatchableOrStuck(state) == state \in {"CREATED", "SEND_AMBIGUOUS"}

(* The loop leases and sends an effect that is CREATED (or LEASED). *)
Dispatchable(state) == state = "CREATED"

(* After an ALLOW (or the replay of one) the loop reads the effect without *)
(* a lock and decides from that copy: send, recover, or only reconcile.    *)
StartProcess(w, c) ==
    LET e == effect[c] IN
    /\ worker[w].pc = "idle"
    /\ GovernedDemo(c)
    /\ \/ /\ Dispatchable(e.state) \/ e.state = "DISPATCH_AUTHORIZED"
          /\ worker' = [worker EXCEPT ![w] =
                          [IdleWorker EXCEPT
                             !.pc = IF Dispatchable(e.state) THEN "dispatch"
                                                             ELSE "recover",
                             !.cmd = c, !.view = ViewOf(e)]]
       \/ /\ ~Dispatchable(e.state) /\ e.state # "DISPATCH_AUTHORIZED"
          /\ c \notin resolved /\ Reconcilable(ViewOf(e))
          /\ GoReconcile(w, c, ViewOf(e))
    /\ Rollback
    /\ UNCHANGED <<order, posts, faults, safetyVars>>

(* lease_effect and authorize_dispatch share one transaction, committed at *)
(* barrier 3, so LEASED is never visible.  A conflict ends the run.        *)
LeaseAndAuthorize(w) ==
    LET c == worker[w].cmd
        e == effect[c]
        blocked == SafetyBlocksDispatch(e.epoch)
    IN
    /\ worker[w].pc = "dispatch"
    /\ \/ /\ blocked /\ e.state # "DISPATCH_AUTHORIZED"
          /\ Commit(c, BlockBeforeDispatch(Rows(c), c))
          /\ GoIdle(w)
       \/ /\ ~blocked /\ e.state = "CREATED"
          /\ LET leased == [e EXCEPT !.owned = TRUE, !.fence = @ + 1,
                                     !.state = "DISPATCH_AUTHORIZED",
                                     !.dispatchFence = e.fence + 1]
             IN  /\ Commit(c, [Rows(c) EXCEPT !.effect = leased])
                 /\ GoTo(w, "authorized", leased.fence, ViewOf(leased))
       \/ /\ ~blocked /\ e.state = "DISPATCH_AUTHORIZED"
          /\ e.dispatchFence = e.fence
          /\ Rollback
          /\ GoTo(w, "authorized", e.fence, ViewOf(e))
       \/ /\ IF blocked THEN e.state = "DISPATCH_AUTHORIZED"
                        ELSE \/ e.state \notin {"CREATED", "DISPATCH_AUTHORIZED"}
                             \/ e.state # "CREATED" /\ e.dispatchFence # e.fence
          /\ Rollback
          /\ GoIdle(w)
    /\ UNCHANGED <<order, posts, faults, safetyVars>>

(* Mutant: the locked re-read does not insist on DISPATCH_AUTHORIZED, so a *)
(* consumed authority is consumed again.                                   *)
HoldsFence(w) ==
    LET e == effect[worker[w].cmd] IN
    /\ e.owned
    /\ e.dispatchFence = worker[w].fence

(* attempt_governed_demo_send up to the durable ambiguous marker, which    *)
(* consumes the authority.  A block or an expired plan consumes it without *)
(* going on to the POST.                                                   *)
HoldsAuthority(w) ==
    LET e == effect[worker[w].cmd] IN
    /\ e.state = "DISPATCH_AUTHORIZED"
    /\ e.owned
    /\ e.dispatchFence = worker[w].fence

Consume(w) ==
    LET c == worker[w].cmd
        b == MarkAmbiguous(Rows(c))
    IN
    /\ worker[w].pc = "authorized"
    /\ IF HoldsAuthority(w)
       THEN /\ Commit(c, b)
            /\ IF SafetyBlocksDispatch(effect[c].epoch) \/ PlanOf(c) \in expired
               THEN GoReconcile(w, c, ViewOf(b.effect))
               ELSE GoTo(w, "preflight", worker[w].fence, ViewOf(b.effect))
       ELSE Rollback /\ GoIdle(w)
    /\ UNCHANGED <<order, posts, faults, safetyVars>>

(* provider.submit refuses in its preflight reads (quote, depth, account). *)
PreflightRefuses(w) ==
    /\ worker[w].pc = "preflight"
    /\ GoReconcile(w, worker[w].cmd, worker[w].view)
    /\ Rollback
    /\ UNCHANGED <<order, posts, faults, safetyVars>>

(* _verify_demo_send_gate, directly before the POST.  A refusal rolls the  *)
(* session back, so the copy of the effect is read afresh.                 *)
GateOpen(w) ==
    LET c == worker[w].cmd
        e == effect[c]
    IN  /\ e.state = "SEND_AMBIGUOUS"
        /\ e.owned
        /\ e.dispatchFence = worker[w].fence
        /\ ~SafetyBlocksDispatch(e.epoch)
        /\ PlanOf(c) \notin expired

FinalGate(w) ==
    LET c == worker[w].cmd IN
    /\ worker[w].pc = "preflight"
    /\ IF GateOpen(w)
       THEN GoTo(w, "gated", worker[w].fence, ViewOf(effect[c]))
       ELSE GoReconcile(w, c, ViewOf(effect[c]))
    /\ Rollback
    /\ UNCHANGED <<order, posts, faults, safetyVars>>

(* The transport checks the plan's deadline once more and sends.  The      *)
(* venue accepts and answers, answers 4xx, or the answer is lost with or   *)
(* without an order.                                                       *)
Post(w) ==
    LET c == worker[w].cmd
        Accept == order' = [order EXCEPT ![c].status =
                              IF @ = "none" THEN "open" ELSE @]
    IN
    /\ worker[w].pc = "gated"
    /\ IF PlanOf(c) \in expired
       THEN /\ GoReconcile(w, c, worker[w].view)
            /\ UNCHANGED <<order, posts>>
       ELSE /\ posts' = [posts EXCEPT ![c] = @ + 1]
            /\ \/ Accept /\ GoTo(w, "accepted", worker[w].fence, worker[w].view)
               \/ Accept /\ GoReconcile(w, c, worker[w].view)
               \/ /\ GoTo(w, "rejected", worker[w].fence, worker[w].view)
                  /\ UNCHANGED order
               \/ /\ GoReconcile(w, c, worker[w].view)
                  /\ UNCHANGED order
    /\ Rollback
    /\ UNCHANGED <<faults, safetyVars>>

(* The venue's answer is recorded, whatever happened to the row meanwhile. *)
RecordAnswer(w) ==
    LET c == worker[w].cmd
        b == IF worker[w].pc = "accepted"
             THEN MarkAcknowledged(Rows(c), worker[w].view)
             ELSE MarkRejected(Rows(c), c, worker[w].view)
    IN
    /\ worker[w].pc \in {"accepted", "rejected"}
    /\ Commit(c, b)
    /\ GoReconcile(w, c, ViewOf(b.effect))
    /\ UNCHANGED <<order, posts, faults, safetyVars>>

(* recover_after_crash on a copy that said DISPATCH_AUTHORIZED. *)
Recover(w) ==
    LET c == worker[w].cmd
        b == MarkAmbiguous(Rows(c))
    IN
    /\ worker[w].pc = "recover"
    /\ Commit(c, b)
    /\ GoReconcile(w, c, ViewOf(b.effect))
    /\ UNCHANGED <<order, posts, faults, safetyVars>>

(* The process dies, or an exception ends its run, between transactions.   *)
Crash(w) ==
    /\ worker[w].pc # "idle"
    /\ faults < MaxFaults
    /\ faults' = faults + 1
    /\ GoIdle(w)
    /\ Rollback
    /\ UNCHANGED <<order, posts, safetyVars>>

----------------------------------------------------------------------------
(* The venue: a market order fills unit by unit, may be cancelled or       *)
(* rejected, and its position is later closed by the attached TP/SL.       *)
VenueStep(c, o) ==
    /\ order' = [order EXCEPT ![c] = o]
    /\ Rollback
    /\ UNCHANGED <<worker, posts, faults, safetyVars>>

VenueFill(c, price) ==
    /\ order[c].status = "open"
    /\ VenueStep(c, [order[c] EXCEPT
                       !.filled = @ + 1,
                       !.value = @ + price,
                       !.status = IF order[c].filled + 1 = PlanInfo[PlanOf(c)].quantity
                                  THEN "filled" ELSE "open"])

VenueCancel(c) ==
    /\ order[c].status = "open"
    /\ VenueStep(c, [order[c] EXCEPT !.status = "cancelled"])

VenueReject(c) ==
    /\ order[c].status = "open" /\ order[c].filled = 0
    /\ VenueStep(c, [order[c] EXCEPT !.status = "rejected"])

VenueExit(c) ==
    /\ order[c].status \in {"filled", "cancelled"}
    /\ order[c].filled > 0 /\ ~order[c].exited
    /\ VenueStep(c, [order[c] EXCEPT !.exited = TRUE])

VenueNext ==
    \E c \in Commands : \/ \E price \in Prices : VenueFill(c, price)
                        \/ VenueCancel(c)
                        \/ VenueReject(c)
                        \/ VenueExit(c)

============================================================================
