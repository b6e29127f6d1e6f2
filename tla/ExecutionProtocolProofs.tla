---------------------- MODULE ExecutionProtocolProofs ----------------------
(***************************************************************************)
(* Theorems of ExecutionProtocol, for every number of workers, commands,   *)
(* plans, authorizations and instruments and for every bound.              *)
(***************************************************************************)
EXTENDS ExecutionProtocol, TLAPS

----------------------------------------------------------------------------
(* Rows that a transaction builds: what it leaves well formed.             *)
IsRows(b) ==
    /\ b = [effect |-> b.effect, receipt |-> b.receipt, ledger |-> b.ledger]
    /\ b.effect \in Effect
    /\ b.receipt \in Receipt

SameFills(b, o) == b.receipt.filled = o.receipt.filled
                   /\ b.receipt.value = o.receipt.value
                   /\ b.effect.epoch = o.effect.epoch

ConsumedState == {"SEND_AMBIGUOUS", "SEND_ATTEMPTED", "PROVEN_UNSENT"}

(* _mark_ambiguous keeps rows well formed, keeps the fills, and leaves the *)
(* effect consumed.                                                        *)
LEMMA MarkAmbiguousRows ==
    ASSUME NEW b, IsRows(b)
    PROVE  /\ IsRows(MarkAmbiguous(b))
           /\ SameFills(MarkAmbiguous(b), b)
           /\ MarkAmbiguous(b).effect.state \in ConsumedState
BY DEF IsRows, MarkAmbiguous, Effect, Receipt, EffectStates, ReceiptStates,
       Dispositions, SameFills, ConsumedState

(* _mark_acknowledged, on any copy of the effect. *)
LEMMA MarkAcknowledgedRows ==
    ASSUME NEW b, IsRows(b), NEW view \in View
    PROVE  /\ IsRows(MarkAcknowledged(b, view))
           /\ SameFills(MarkAcknowledged(b, view), b)
           /\ MarkAcknowledged(b, view).receipt.remaining = b.receipt.remaining
           /\ MarkAcknowledged(b, view).effect.state \in ConsumedState
BY DEF IsRows, MarkAcknowledged, Effect, Receipt, EffectStates, ReceiptStates,
       Dispositions, SameFills, ConsumedState, View

(* _mark_rejected *)
LEMMA MarkRejectedRows ==
    ASSUME NEW b, IsRows(b), NEW c, NEW view \in View
    PROVE  /\ IsRows(MarkRejected(b, c, view))
           /\ SameFills(MarkRejected(b, c, view), b)
           /\ MarkRejected(b, c, view).effect.state \in ConsumedState
BY DEF IsRows, MarkRejected, Effect, Receipt, EffectStates, ReceiptStates,
       Dispositions, SameFills, ConsumedState, View

(* _block_before_dispatch.  A row that is blocked already is left alone.   *)
LEMMA BlockBeforeDispatchRows ==
    ASSUME NEW b, IsRows(b), NEW c
    PROVE  /\ IsRows(BlockBeforeDispatch(b, c))
           /\ SameFills(BlockBeforeDispatch(b, c), b)
           /\ BlockBeforeDispatch(b, c).effect.state \in ConsumedState \cup {b.effect.state}
<1>1. CASE b.receipt.state = "BLOCKED_BEFORE_DISPATCH"
  BY <1>1 DEF BlockBeforeDispatch, SameFills
<1>2. CASE b.receipt.state # "BLOCKED_BEFORE_DISPATCH"
  <2>1. PICK e \in Effect, r \in Receipt : e = b.effect /\ r = b.receipt
    BY DEF IsRows
  <2>2. PICK f, q : /\ f = [e EXCEPT !.state = "PROVEN_UNSENT", !.owned = FALSE,
                                     !.uncertain = FALSE, !.disposition = "PROVEN_UNSENT"]
                    /\ q = [r EXCEPT !.state = "BLOCKED_BEFORE_DISPATCH"]
    OBVIOUS
  <2>3. f \in Effect /\ f.state = "PROVEN_UNSENT" /\ f.epoch = e.epoch
    BY <2>2 DEF Effect, EffectStates, Dispositions
  <2>4. q \in Receipt /\ q.filled = r.filled /\ q.value = r.value
    BY <2>2 DEF Receipt, ReceiptStates
  <2>5. BlockBeforeDispatch(b, c)
          = [effect |-> f, receipt |-> q, ledger |-> ReleaseUnused(b.ledger, c)]
    BY <1>2, <2>1, <2>2 DEF BlockBeforeDispatch
  <2> QED BY <2>1, <2>3, <2>4, <2>5 DEF IsRows, SameFills, ConsumedState
<1> QED BY <1>1, <1>2

(* apply_unique_fill, for no more than the remaining quantity. *)
LEMMA ApplyFillsRows ==
    ASSUME NEW b, IsRows(b), NEW c, NEW l, NEW n \in Nat, NEW value \in Nat,
           n <= b.receipt.remaining
    PROVE  /\ IsRows(ApplyFills(b, c, l, n, value))
           /\ ApplyFills(b, c, l, n, value).effect = b.effect
           /\ ApplyFills(b, c, l, n, value).receipt.filled = b.receipt.filled + n
           /\ ApplyFills(b, c, l, n, value).receipt.value = b.receipt.value + value
BY DEF IsRows, ApplyFills, Receipt, ReceiptStates

(* record_demo_terminal *)
LEMMA RecordTerminalRows ==
    ASSUME NEW b, IsRows(b), NEW c
    PROVE  /\ IsRows(RecordTerminal(b, c))
           /\ RecordTerminal(b, c).effect = b.effect
           /\ SameFills(RecordTerminal(b, c), b)
BY DEF IsRows, RecordTerminal, Receipt, ReceiptStates, SameFills

(* MarkDisposition touches the disposition only. *)
LEMMA MarkDispositionRows ==
    ASSUME NEW b, IsRows(b), NEW d \in Dispositions
    PROVE  /\ IsRows(MarkDisposition(b, d))
           /\ MarkDisposition(b, d).effect.state = b.effect.state
           /\ SameFills(MarkDisposition(b, d), b)
BY DEF IsRows, MarkDisposition, Effect, SameFills

----------------------------------------------------------------------------
(* The type invariant.  Besides ControlTypeOK it says that an allowed      *)
(* command names a plan and an authorization, and that a worker is only    *)
(* ever busy with an allowed command.                                      *)
AllowedBound ==
    /\ \A c \in Commands : Allowed(c) => /\ PlanOf(c) \in Plans
                                         /\ command[c].auth \in Authorizations
    /\ \A w \in Workers : worker[w].pc # "idle" => Allowed(worker[w].cmd)

TypeInv == ControlTypeOK /\ AllowedBound

(* What a step of worker w on command c leaves alone, and the little that  *)
(* the safety arguments below need to know of what it changes.             *)
WorkerFrame(w, c) ==
    /\ worker' \in [Workers -> Worker]
    /\ \A v \in Workers \ {w} : worker'[v] = worker[v]
    /\ worker'[w].cmd \in {c, NoCommandId}
    /\ worker'[w].pc = "idle" <=> worker'[w].cmd = NoCommandId
    /\ worker[w].pc # "idle" => worker[w].cmd = c

RowFrame(c) ==
    /\ effect' \in [Commands -> Effect]
    /\ receipt' \in [Commands -> Receipt]
    /\ \A d \in Commands \ {c} : effect'[d] = effect[d] /\ receipt'[d] = receipt[d]
    /\ UNCHANGED <<command, authorization, expired, claims>>
    /\ resolved' \subseteq Commands
    /\ effect'[c].epoch = effect[c].epoch
    /\ Consumed(c) => effect'[c].state \in ConsumedState

(* Only the consuming marker leads to the preflight, only an open gate to  *)
(* "gated", and only a gated worker sends.                                 *)
SendFrame(w, c) ==
    /\ worker'[w].pc = "preflight" => /\ effect[c].state = "DISPATCH_AUTHORIZED"
                                      /\ effect'[c].state \in ConsumedState
    /\ worker'[w].pc = "gated" => /\ worker[w].pc = "preflight"
                                  /\ ~SafetyBlocksDispatch(effect[c].epoch)
    /\ posts' = posts \/ /\ worker[w].pc = "gated"
                         /\ worker'[w].pc \notin {"preflight", "gated"}
                         /\ posts' = [posts EXCEPT ![c] = @ + 1]
    /\ faults' \in 0..MaxFaults

(* A worker's evidence is the venue's order at some earlier moment, and    *)
(* recorded fills come from evidence.                                      *)
FillFrame(w, c) ==
    /\ order' \in [Commands -> Order]
    /\ \A d \in Commands : /\ order'[d].filled = order[d].filled
                           /\ order'[d].value = order[d].value
    /\ worker'[w].evidence \in {NoOrder, order[c], worker[w].evidence}
    /\ receipt'[c].filled \in {receipt[c].filled, worker[w].evidence.filled}
    /\ receipt'[c].value \in {receipt[c].value, worker[w].evidence.value}
    /\ worker[w].pc = "idle" => worker'[w].evidence = NoOrder /\ receipt' = receipt

Frame(w, c) == WorkerFrame(w, c) /\ RowFrame(c) /\ SendFrame(w, c) /\ FillFrame(w, c)

(* A transaction on the rows of one command. *)
LEMMA CommitFrame ==
    ASSUME TypeInv, NEW c \in Commands, NEW b, IsRows(b), Commit(c, b),
           b.effect.epoch = effect[c].epoch,
           Consumed(c) => b.effect.state \in ConsumedState
    PROVE  RowFrame(c) /\ effect'[c] = b.effect /\ receipt'[c] = b.receipt
BY DEF TypeInv, ControlTypeOK, ClaimTypeOK, Commit, IsRows, RowFrame, Consumed,
       ConsumedState

LEMMA RollbackFrame ==
    ASSUME TypeInv, NEW c \in Commands, Rollback
    PROVE  RowFrame(c) /\ effect' = effect /\ receipt' = receipt
BY DEF TypeInv, ControlTypeOK, ClaimTypeOK, Rollback, RowFrame, Consumed, ConsumedState,
       claimVars

LEMMA IdleWorkerType == IdleWorker \in Worker /\ NoOrder \in Order
BY DEF IdleWorker, Worker, WorkerStates, ViewOf, NoEffect, View, EffectStates,
       Dispositions, NoOrder, Order

LEMMA ViewType ==
    ASSUME NEW e \in Effect
    PROVE  ViewOf(e) \in View
BY DEF ViewOf, View, Effect

LEMMA RowsType ==
    ASSUME TypeInv, NEW c \in Commands
    PROVE  /\ IsRows(Rows(c))
           /\ Rows(c).effect = effect[c]
           /\ Rows(c).receipt = receipt[c]
           /\ Rows(c).ledger = ledger
           /\ effect[c] \in Effect
           /\ ViewOf(effect[c]) \in View
BY ViewType DEF TypeInv, ControlTypeOK, ClaimTypeOK, Rows, IsRows

(* The three ways in which a worker goes on. *)
LEMMA GoIdleFrame ==
    ASSUME TypeInv, NEW w \in Workers, NEW c \in Commands, GoIdle(w),
           worker[w].pc # "idle" => worker[w].cmd = c
    PROVE  WorkerFrame(w, c) /\ worker'[w] = IdleWorker
<1>1. worker \in [Workers -> Worker]
  BY DEF TypeInv, ControlTypeOK, DispatchTypeOK
<1>2. IdleWorker.cmd = NoCommandId /\ IdleWorker.pc = "idle"
  BY DEF IdleWorker
<1> QED BY <1>1, <1>2, IdleWorkerType DEF GoIdle, WorkerFrame

LEMMA GoReconcileFrame ==
    ASSUME TypeInv, NEW w \in Workers, NEW c \in Commands, NEW view \in View,
           GoReconcile(w, c, view),
           worker[w].pc # "idle" => worker[w].cmd = c
    PROVE  /\ WorkerFrame(w, c)
           /\ worker'[w].pc \in {"idle", "lookup"}
           /\ worker'[w].evidence = NoOrder
<1>1. worker \in [Workers -> Worker]
  BY DEF TypeInv, ControlTypeOK, DispatchTypeOK
<1>2. /\ IdleWorker.cmd = NoCommandId /\ IdleWorker.pc = "idle"
      /\ IdleWorker.evidence = NoOrder
  BY DEF IdleWorker
<1> DEFINE x == [IdleWorker EXCEPT !.pc = "lookup", !.cmd = c, !.view = view]
<1>3. x \in Worker /\ x.pc = "lookup" /\ x.cmd = c /\ x.evidence = NoOrder
  BY IdleWorkerType, <1>2 DEF Worker, WorkerStates
<1>4. c # NoCommandId
  BY WorkerAssumption
<1> HIDE DEF x
<1>5. worker' = [worker EXCEPT ![w] = IF Reconcilable(view) THEN x ELSE IdleWorker]
  BY DEF GoReconcile, x
<1> QED BY <1>1, <1>2, <1>3, <1>4, <1>5, IdleWorkerType DEF WorkerFrame

LEMMA GoToFrame ==
    ASSUME TypeInv, NEW w \in Workers, NEW pc \in WorkerStates \ {"idle"},
           NEW fence \in Nat, NEW view \in View,
           GoTo(w, pc, fence, view), worker[w].pc # "idle"
    PROVE  /\ worker[w].cmd \in Commands
           /\ WorkerFrame(w, worker[w].cmd)
           /\ worker'[w].pc = pc
           /\ worker'[w].evidence = worker[w].evidence
<1>1. worker \in [Workers -> Worker] /\ worker[w] \in Worker
  BY DEF TypeInv, ControlTypeOK, DispatchTypeOK
<1>2. worker[w].cmd \in Commands /\ worker[w].cmd # NoCommandId
  BY <1>1, WorkerAssumption DEF TypeInv, ControlTypeOK, DispatchTypeOK, Worker
<1> DEFINE x == [worker[w] EXCEPT !.pc = pc, !.fence = fence, !.view = view]
<1>3. /\ x \in Worker /\ x.pc = pc /\ x.cmd = worker[w].cmd
      /\ x.evidence = worker[w].evidence
  BY <1>1 DEF Worker
<1>4. worker' = [worker EXCEPT ![w] = x]
  BY <1>1 DEF GoTo, Worker
<1> HIDE DEF x
<1> QED BY <1>1, <1>2, <1>3, <1>4 DEF WorkerFrame

LEMMA BusyWorker ==
    ASSUME TypeInv, NEW w \in Workers, worker[w].pc # "idle"
    PROVE  /\ worker[w] \in Worker
           /\ worker[w].cmd \in Commands
           /\ Allowed(worker[w].cmd)
           /\ worker[w].view \in View
           /\ worker[w].fence \in Nat
           /\ worker[w].evidence \in Order
BY WorkerAssumption DEF TypeInv, AllowedBound, ControlTypeOK, DispatchTypeOK, Worker

(* A step that neither sends nor records a fill. *)
LEMMA QuietFrame ==
    ASSUME TypeInv, NEW w \in Workers, NEW c \in Commands,
           UNCHANGED <<order, posts>>,
           faults' \in 0..MaxFaults,
           WorkerFrame(w, c), RowFrame(c),
           worker'[w].pc \notin {"preflight", "gated"},
           receipt'[c].filled \in {receipt[c].filled, worker[w].evidence.filled},
           receipt'[c].value \in {receipt[c].value, worker[w].evidence.value},
           worker'[w].evidence \in {NoOrder, order[c], worker[w].evidence},
           worker[w].pc = "idle" => worker'[w].evidence = NoOrder /\ receipt' = receipt
    PROVE  Frame(w, c)
BY DEF TypeInv, ControlTypeOK, DispatchTypeOK, Frame, SendFrame, FillFrame

(* StartProcess and StartReconcile read, and change the worker only. *)
LEMMA StartFrame ==
    ASSUME TypeInv, NEW w \in Workers, NEW c \in Commands,
           StartProcess(w, c) \/ StartReconcile(w, c)
    PROVE  Allowed(c) /\ Frame(w, c)
<1> USE DEF TypeInv
<1>1. worker[w].pc = "idle" /\ Rollback /\ UNCHANGED <<order, posts, faults>>
  BY DEF StartProcess, StartReconcile
<1>2. RowFrame(c) /\ effect' = effect /\ receipt' = receipt
  BY <1>1, RollbackFrame
<1>3. faults' \in 0..MaxFaults
  BY <1>1 DEF ControlTypeOK, DispatchTypeOK
<1>4. ViewOf(effect[c]) \in View
  BY RowsType
<1>5. ASSUME GoReconcile(w, c, ViewOf(effect[c]))
      PROVE  Frame(w, c)
  <2>1. WorkerFrame(w, c) /\ worker'[w].pc \in {"idle", "lookup"}
        /\ worker'[w].evidence = NoOrder
    BY <1>1, <1>4, <1>5, GoReconcileFrame
  <2> QED BY <2>1, <1>1, <1>2, <1>3, QuietFrame
<1>6. CASE StartReconcile(w, c)
  <2>1. Allowed(c)
    BY <1>6 DEF StartReconcile, Batch, Pending, GovernedDemo
  <2> QED BY <1>5, <1>6, <2>1 DEF StartReconcile
<1>7. CASE StartProcess(w, c)
  <2>1. Allowed(c)
    BY <1>7 DEF StartProcess, GovernedDemo
  <2>2. ASSUME NEW pc \in {"dispatch", "recover"},
               worker' = [worker EXCEPT ![w] = [IdleWorker EXCEPT
                             !.pc = pc, !.cmd = c, !.view = ViewOf(effect[c])]]
        PROVE  Frame(w, c)
    <3> DEFINE x == [IdleWorker EXCEPT !.pc = pc, !.cmd = c, !.view = ViewOf(effect[c])]
    <3>1. x \in Worker /\ x.pc = pc /\ x.cmd = c /\ x.evidence = NoOrder
      <4>1. IdleWorker.evidence = NoOrder
        BY DEF IdleWorker
      <4> QED BY <4>1, IdleWorkerType, <1>4 DEF Worker, WorkerStates
    <3>2. worker' = [worker EXCEPT ![w] = x] /\ worker \in [Workers -> Worker]
      BY <2>2 DEF ControlTypeOK, DispatchTypeOK
    <3> HIDE DEF x
    <3>3. WorkerFrame(w, c) /\ worker'[w] = x
      BY <3>1, <3>2, <1>1, WorkerAssumption DEF WorkerFrame
    <3> QED BY <3>1, <3>3, <1>1, <1>2, <1>3, QuietFrame
  <2> QED BY <1>5, <1>7, <2>1, <2>2 DEF StartProcess
<1> QED BY <1>6, <1>7

(* A lease and dispatch authorization of a well-formed effect. *)
LEMMA LeasedType ==
    ASSUME NEW e \in Effect
    PROVE  LET leased == [e EXCEPT !.owned = TRUE, !.fence = @ + 1,
                                   !.state = "DISPATCH_AUTHORIZED",
                                   !.dispatchFence = e.fence + 1]
           IN  leased \in Effect /\ leased.epoch = e.epoch /\ leased.fence \in Nat
<1>1. e.fence + 1 \in Nat
  BY DEF Effect
<1>2. ASSUME NEW n \in Nat
      PROVE  LET leased == [e EXCEPT !.owned = TRUE, !.fence = n,
                                     !.state = "DISPATCH_AUTHORIZED",
                                     !.dispatchFence = n]
             IN  leased \in Effect /\ leased.epoch = e.epoch /\ leased.fence = n
  BY DEF Effect, EffectStates
<1> QED BY <1>1, <1>2

(* lease_effect and authorize_dispatch. *)
LEMMA LeaseFrame ==
    ASSUME TypeInv, NEW w \in Workers, LeaseAndAuthorize(w)
    PROVE  Frame(w, worker[w].cmd)
<1> DEFINE c == worker[w].cmd
           e == effect[c]
<1>1. worker[w].pc = "dispatch" /\ UNCHANGED <<order, posts, faults>>
  BY DEF LeaseAndAuthorize
<1>2. c \in Commands /\ worker[w] \in Worker
  BY <1>1, BusyWorker
<1>3. faults' \in 0..MaxFaults
  BY <1>1 DEF TypeInv, ControlTypeOK, DispatchTypeOK
<1>4. /\ IsRows(Rows(c)) /\ Rows(c).effect = e /\ Rows(c).receipt = receipt[c]
      /\ e \in Effect /\ ViewOf(e) \in View
  BY <1>2, RowsType
<1>5. IdleWorker.pc = "idle" /\ IdleWorker.evidence = NoOrder
  BY DEF IdleWorker
<1>6. CASE Commit(c, BlockBeforeDispatch(Rows(c), c)) /\ GoIdle(w)
  <2> DEFINE b == BlockBeforeDispatch(Rows(c), c)
  <2>1. /\ IsRows(b) /\ SameFills(b, Rows(c))
        /\ b.effect.state \in ConsumedState \cup {Rows(c).effect.state}
    BY <1>4, BlockBeforeDispatchRows
  <2> HIDE DEF b
  <2>2. RowFrame(c) /\ receipt'[c] = b.receipt
    <3>1. Consumed(c) => b.effect.state \in ConsumedState
      BY <1>4, <2>1 DEF Consumed, ConsumedState
    <3>2. b.effect.epoch = effect[c].epoch
      BY <1>4, <2>1 DEF SameFills
    <3>3. Commit(c, b)
      BY <1>6 DEF b
    <3> QED BY <1>2, <2>1, <3>1, <3>2, <3>3, CommitFrame
  <2>3. WorkerFrame(w, c) /\ worker'[w] = IdleWorker
    BY <1>2, <1>6, GoIdleFrame
  <2> QED BY <1>1, <1>2, <1>3, <1>4, <1>5, <2>1, <2>2, <2>3, QuietFrame DEF SameFills
<1>7. CASE /\ e.state = "CREATED"
           /\ LET leased == [e EXCEPT !.owned = TRUE, !.fence = @ + 1,
                                      !.state = "DISPATCH_AUTHORIZED",
                                      !.dispatchFence = e.fence + 1]
              IN  /\ Commit(c, [Rows(c) EXCEPT !.effect = leased])
                  /\ GoTo(w, "authorized", leased.fence, ViewOf(leased))
  <2> DEFINE leased == [e EXCEPT !.owned = TRUE, !.fence = @ + 1,
                                 !.state = "DISPATCH_AUTHORIZED",
                                 !.dispatchFence = e.fence + 1]
             b == [Rows(c) EXCEPT !.effect = leased]
  <2>1. leased \in Effect /\ leased.epoch = e.epoch /\ leased.fence \in Nat
    BY <1>4, LeasedType
  <2>2. ViewOf(leased) \in View
    BY <2>1, ViewType
  <2>3. Commit(c, b) /\ GoTo(w, "authorized", leased.fence, ViewOf(leased))
    BY <1>7
  <2> HIDE DEF leased
  <2>4. IsRows(b) /\ b.effect = leased /\ b.receipt = receipt[c]
    BY <1>4, <2>1 DEF IsRows
  <2> HIDE DEF b
  <2>5. RowFrame(c) /\ receipt'[c] = b.receipt
    <3>1. ~Consumed(c)
      BY <1>7 DEF Consumed
    <3> QED BY <1>2, <2>1, <2>3, <2>4, <3>1, CommitFrame
  <2>6. /\ WorkerFrame(w, c) /\ worker'[w].pc = "authorized"
        /\ worker'[w].evidence = worker[w].evidence
    BY <1>1, <2>1, <2>2, <2>3, GoToFrame DEF WorkerStates
  <2> QED BY <1>1, <1>2, <1>3, <2>4, <2>5, <2>6, QuietFrame
<1>8. CASE Rollback /\ GoTo(w, "authorized", e.fence, ViewOf(e))
  <2>1. e.fence \in Nat
    BY <1>4 DEF Effect
  <2>2. /\ WorkerFrame(w, c) /\ worker'[w].pc = "authorized"
        /\ worker'[w].evidence = worker[w].evidence
    BY <1>1, <1>4, <1>8, <2>1, GoToFrame DEF WorkerStates
  <2> QED BY <1>1, <1>2, <1>3, <1>8, <2>2, RollbackFrame, QuietFrame
<1>9. CASE Rollback /\ GoIdle(w)
  <2>1. WorkerFrame(w, c) /\ worker'[w] = IdleWorker
    BY <1>2, <1>9, GoIdleFrame
  <2> QED BY <1>1, <1>2, <1>3, <1>5, <1>9, <2>1, RollbackFrame, QuietFrame
<1> QED BY <1>6, <1>7, <1>8, <1>9 DEF LeaseAndAuthorize

(* attempt_governed_demo_send up to the consuming marker. *)
LEMMA ConsumeFrame ==
    ASSUME TypeInv, NEW w \in Workers, Consume(w)
    PROVE  Frame(w, worker[w].cmd)
<1> DEFINE c == worker[w].cmd
           b == MarkAmbiguous(Rows(c))
<1>1. worker[w].pc = "authorized" /\ UNCHANGED <<order, posts, faults>>
  BY DEF Consume
<1>2. c \in Commands /\ worker[w] \in Worker /\ worker[w].fence \in Nat
  BY <1>1, BusyWorker
<1>3. faults' \in 0..MaxFaults /\ posts' = posts /\ order \in [Commands -> Order]
  BY <1>1 DEF TypeInv, ControlTypeOK, DispatchTypeOK
<1>4. IsRows(Rows(c)) /\ Rows(c).effect = effect[c] /\ Rows(c).receipt = receipt[c]
  BY <1>2, RowsType
<1>5. /\ IsRows(b) /\ SameFills(b, Rows(c)) /\ b.effect.state \in ConsumedState
      /\ ViewOf(b.effect) \in View
  <2>1. IsRows(b) /\ SameFills(b, Rows(c)) /\ b.effect.state \in ConsumedState
    BY <1>4, MarkAmbiguousRows
  <2> QED BY <2>1, ViewType DEF IsRows
<1>6. IdleWorker.pc = "idle" /\ IdleWorker.evidence = NoOrder
  BY DEF IdleWorker
<1>7. CASE HoldsAuthority(w)
  <2>1. effect[c].state = "DISPATCH_AUTHORIZED"
    BY <1>7 DEF HoldsAuthority
  <2>2. Commit(c, b)
    BY <1>7 DEF Consume
  <2>3. \/ GoReconcile(w, c, ViewOf(b.effect))
        \/ GoTo(w, "preflight", worker[w].fence, ViewOf(b.effect))
    BY <1>7 DEF Consume
  <2> HIDE DEF b
  <2>4. RowFrame(c) /\ effect'[c] = b.effect /\ receipt'[c] = b.receipt
    BY <1>2, <1>4, <1>5, <2>2, CommitFrame DEF SameFills
  <2>5. CASE GoReconcile(w, c, ViewOf(b.effect))
    <3>1. /\ WorkerFrame(w, c) /\ worker'[w].pc \in {"idle", "lookup"}
          /\ worker'[w].evidence = NoOrder
      BY <1>2, <1>5, <2>5, GoReconcileFrame
    <3> QED BY <1>1, <1>2, <1>3, <1>4, <1>5, <2>4, <3>1, QuietFrame DEF SameFills
  <2>6. CASE GoTo(w, "preflight", worker[w].fence, ViewOf(b.effect))
    <3>1. /\ WorkerFrame(w, c) /\ worker'[w].pc = "preflight"
          /\ worker'[w].evidence = worker[w].evidence
      BY <1>1, <1>2, <1>5, <2>6, GoToFrame DEF WorkerStates
    <3>2. effect'[c].state \in ConsumedState
      BY <1>5, <2>4
    <3>3. SendFrame(w, c)
      BY <1>3, <2>1, <3>1, <3>2 DEF SendFrame
    <3>4. FillFrame(w, c)
      BY <1>1, <1>3, <1>4, <1>5, <2>4, <3>1 DEF FillFrame, SameFills
    <3> QED BY <2>4, <3>1, <3>3, <3>4 DEF Frame
  <2> QED BY <2>3, <2>5, <2>6
<1>8. CASE Rollback /\ GoIdle(w)
  <2>1. WorkerFrame(w, c) /\ worker'[w] = IdleWorker
    BY <1>2, <1>8, GoIdleFrame
  <2> QED BY <1>1, <1>2, <1>3, <1>6, <1>8, <2>1, RollbackFrame, QuietFrame
<1> QED BY <1>7, <1>8 DEF Consume

(* The steps that write no row: refused preflight, final gate, POST, venue *)
(* read, crash.                                                            *)
LEMMA GateFrame ==
    ASSUME TypeInv, NEW w \in Workers,
           PreflightRefuses(w) \/ FinalGate(w) \/ Lookup(w) \/ Crash(w)
    PROVE  worker[w].pc # "idle" /\ Frame(w, worker[w].cmd)
<1> DEFINE c == worker[w].cmd
<1>1. worker[w].pc # "idle" /\ Rollback /\ UNCHANGED <<order, posts>>
  BY DEF PreflightRefuses, FinalGate, Lookup, Crash
<1>2. /\ c \in Commands /\ worker[w] \in Worker /\ worker[w].view \in View
      /\ worker[w].fence \in Nat
  BY <1>1, BusyWorker
<1>3. faults' \in 0..MaxFaults /\ posts' = posts /\ order \in [Commands -> Order]
  BY <1>1, WorkerAssumption
     DEF PreflightRefuses, FinalGate, Lookup, Crash, TypeInv, ControlTypeOK, DispatchTypeOK
<1>4. RowFrame(c) /\ effect' = effect /\ receipt' = receipt
  BY <1>1, <1>2, RollbackFrame
<1>5. IdleWorker.pc = "idle" /\ IdleWorker.evidence = NoOrder
  BY DEF IdleWorker
<1>6. ViewOf(effect[c]) \in View
  BY <1>2, RowsType
<1>7. ASSUME NEW view \in View, GoReconcile(w, c, view)
      PROVE  Frame(w, c)
  <2>1. /\ WorkerFrame(w, c) /\ worker'[w].pc \in {"idle", "lookup"}
        /\ worker'[w].evidence = NoOrder
    BY <1>2, <1>7, GoReconcileFrame
  <2> QED BY <1>1, <1>2, <1>3, <1>4, <2>1, QuietFrame
<1>8. CASE PreflightRefuses(w)
  BY <1>2, <1>7, <1>8 DEF PreflightRefuses
<1>9. CASE FinalGate(w)
  <2>1. CASE GateOpen(w)
    <3>1. GoTo(w, "gated", worker[w].fence, ViewOf(effect[c])) /\ worker[w].pc = "preflight"
      BY <1>9, <2>1 DEF FinalGate
    <3>2. /\ WorkerFrame(w, c) /\ worker'[w].pc = "gated"
          /\ worker'[w].evidence = worker[w].evidence
      BY <1>1, <1>2, <1>6, <3>1, GoToFrame DEF WorkerStates
    <3>3. ~SafetyBlocksDispatch(effect[c].epoch)
      BY <2>1 DEF GateOpen
    <3>4. SendFrame(w, c)
      BY <1>3, <3>1, <3>2, <3>3 DEF SendFrame
    <3>5. FillFrame(w, c)
      BY <1>1, <1>3, <1>4, <3>2 DEF FillFrame
    <3> QED BY <1>1, <1>4, <3>2, <3>4, <3>5 DEF Frame
  <2>2. CASE ~GateOpen(w)
    <3>1. GoReconcile(w, c, ViewOf(effect[c]))
      BY <1>9, <2>2 DEF FinalGate
    <3> QED BY <1>1, <1>6, <1>7, <3>1
  <2> QED BY <1>1, <2>1, <2>2
<1>10. CASE Crash(w)
  <2>1. WorkerFrame(w, c) /\ worker'[w] = IdleWorker
    BY <1>2, <1>10, GoIdleFrame DEF Crash
  <2> QED BY <1>1, <1>2, <1>3, <1>4, <1>5, <2>1, QuietFrame
<1>11. CASE Lookup(w)
  <2> DEFINE x == [worker[w] EXCEPT !.pc = "apply", !.evidence = order[c]]
  <2>1. x \in Worker /\ x.pc = "apply" /\ x.cmd = c /\ x.evidence = order[c]
    BY <1>2, <1>3 DEF Worker, WorkerStates
  <2>2. worker \in [Workers -> Worker]
    BY DEF TypeInv, ControlTypeOK, DispatchTypeOK
  <2> HIDE DEF x
  <2>3. worker' = [worker EXCEPT ![w] = IF order[c].status = "none" THEN IdleWorker ELSE x]
    BY <1>11, <2>2 DEF Lookup, x
  <2>4. IdleWorker.cmd = NoCommandId
    BY DEF IdleWorker
  <2>5. /\ WorkerFrame(w, c) /\ worker'[w].pc \in {"idle", "apply"}
        /\ worker'[w].evidence \in {NoOrder, order[c]}
    BY <1>2, <1>5, <2>1, <2>2, <2>3, <2>4, IdleWorkerType, WorkerAssumption DEF WorkerFrame
  <2> QED BY <1>1, <1>2, <1>3, <1>4, <2>5, QuietFrame
<1> QED BY <1>1, <1>8, <1>9, <1>10, <1>11

(* The POST, with every answer the venue may give. *)
LEMMA PostFrame ==
    ASSUME TypeInv, NEW w \in Workers, Post(w)
    PROVE  worker[w].pc # "idle" /\ Frame(w, worker[w].cmd)
<1> DEFINE c == worker[w].cmd
<1>1. worker[w].pc = "gated" /\ Rollback /\ faults' = faults
  BY DEF Post
<1>2. /\ c \in Commands /\ worker[w] \in Worker /\ worker[w].view \in View
      /\ worker[w].fence \in Nat
  BY <1>1, BusyWorker
<1>3. faults' \in 0..MaxFaults /\ order \in [Commands -> Order]
  BY <1>1 DEF TypeInv, ControlTypeOK, DispatchTypeOK
<1>4. RowFrame(c) /\ effect' = effect /\ receipt' = receipt
  BY <1>1, <1>2, RollbackFrame
<1>5. \/ GoReconcile(w, c, worker[w].view)
      \/ GoTo(w, "accepted", worker[w].fence, worker[w].view)
      \/ GoTo(w, "rejected", worker[w].fence, worker[w].view)
  BY DEF Post
<1>6. /\ WorkerFrame(w, c) /\ worker'[w].pc \in {"idle", "lookup", "accepted", "rejected"}
      /\ worker'[w].evidence \in {NoOrder, worker[w].evidence}
  <2>1. CASE GoReconcile(w, c, worker[w].view)
    BY <1>2, <2>1, GoReconcileFrame
  <2>2. ASSUME NEW pc \in {"accepted", "rejected"},
               GoTo(w, pc, worker[w].fence, worker[w].view)
        PROVE  /\ WorkerFrame(w, c) /\ worker'[w].pc = pc
               /\ worker'[w].evidence = worker[w].evidence
    BY <1>1, <1>2, <2>2, GoToFrame DEF WorkerStates
  <2> QED BY <1>5, <2>1, <2>2
<1>7. posts' = posts \/ posts' = [posts EXCEPT ![c] = @ + 1]
  BY DEF Post
<1>8. SendFrame(w, c)
  BY <1>1, <1>3, <1>6, <1>7 DEF SendFrame
<1>9. /\ order' \in [Commands -> Order]
      /\ \A d \in Commands : order'[d].filled = order[d].filled /\ order'[d].value = order[d].value
  <2>1. order' = order \/ order' = [order EXCEPT ![c].status = IF @ = "none" THEN "open" ELSE @]
    BY DEF Post
  <2> QED BY <1>2, <1>3, <2>1 DEF Order
<1> QED BY <1>1, <1>4, <1>6, <1>8, <1>9 DEF Frame, FillFrame

(* The venue's answer recorded, and the crash recovery. *)
LEMMA AnswerFrame ==
    ASSUME TypeInv, NEW w \in Workers, RecordAnswer(w) \/ Recover(w)
    PROVE  worker[w].pc # "idle" /\ Frame(w, worker[w].cmd)
<1> DEFINE c == worker[w].cmd
<1>1. worker[w].pc # "idle" /\ UNCHANGED <<order, posts, faults>>
  BY DEF RecordAnswer, Recover
<1>2. c \in Commands /\ worker[w].view \in View
  BY <1>1, BusyWorker
<1>3. faults' \in 0..MaxFaults
  BY <1>1 DEF TypeInv, ControlTypeOK, DispatchTypeOK
<1>4. IsRows(Rows(c)) /\ Rows(c).effect = effect[c] /\ Rows(c).receipt = receipt[c]
  BY <1>2, RowsType
<1>5. ASSUME NEW b, IsRows(b), SameFills(b, Rows(c)), b.effect.state \in ConsumedState,
             Commit(c, b), GoReconcile(w, c, ViewOf(b.effect))
      PROVE  Frame(w, c)
  <2>1. RowFrame(c) /\ receipt'[c] = b.receipt
    BY <1>2, <1>4, <1>5, CommitFrame DEF SameFills
  <2>2. ViewOf(b.effect) \in View
    BY <1>5, ViewType DEF IsRows
  <2>3. /\ WorkerFrame(w, c) /\ worker'[w].pc \in {"idle", "lookup"}
        /\ worker'[w].evidence = NoOrder
    BY <1>2, <1>5, <2>2, GoReconcileFrame
  <2> QED BY <1>1, <1>2, <1>3, <1>4, <1>5, <2>1, <2>3, QuietFrame DEF SameFills
<1>6. CASE Recover(w)
  <2> DEFINE b == MarkAmbiguous(Rows(c))
  <2>1. IsRows(b) /\ SameFills(b, Rows(c)) /\ b.effect.state \in ConsumedState
    BY <1>4, MarkAmbiguousRows
  <2>2. Commit(c, b) /\ GoReconcile(w, c, ViewOf(b.effect))
    BY <1>6 DEF Recover
  <2> HIDE DEF b
  <2> QED BY <1>1, <1>5, <2>1, <2>2
<1>7. CASE RecordAnswer(w)
  <2> DEFINE b == IF worker[w].pc = "accepted"
                  THEN MarkAcknowledged(Rows(c), worker[w].view)
                  ELSE MarkRejected(Rows(c), c, worker[w].view)
  <2>1. IsRows(b) /\ SameFills(b, Rows(c)) /\ b.effect.state \in ConsumedState
    BY <1>2, <1>4, MarkAcknowledgedRows, MarkRejectedRows
  <2>2. Commit(c, b) /\ GoReconcile(w, c, ViewOf(b.effect))
    BY <1>7 DEF RecordAnswer
  <2> HIDE DEF b
  <2> QED BY <1>1, <1>5, <2>1, <2>2
<1> QED BY <1>6, <1>7

(* The parts of the entry transaction of a reconciliation. *)
LEMMA RecordOrderRows ==
    ASSUME NEW b, IsRows(b), NEW view \in View
    PROVE  /\ IsRows(RecordOrder(b, view))
           /\ SameFills(RecordOrder(b, view), b)
           /\ RecordOrder(b, view).receipt.remaining = b.receipt.remaining
           /\ RecordOrder(b, view).effect.state \in ConsumedState \cup {b.effect.state}
BY MarkAcknowledgedRows DEF RecordOrder, SameFills

LEMMA RecordRejectionRows ==
    ASSUME NEW b, IsRows(b), NEW c, NEW view \in View
    PROVE  /\ IsRows(RecordRejection(b, c, view))
           /\ SameFills(RecordRejection(b, c, view), b)
           /\ RecordRejection(b, c, view).effect.state \in ConsumedState \cup {b.effect.state}
BY MarkRejectedRows DEF RecordRejection, SameFills

LEMMA RecordNewFillsRows ==
    ASSUME NEW b, IsRows(b), NEW c, NEW evidence \in Order,
           ~(Minus(evidence.filled, b.receipt.filled) > b.receipt.remaining)
    PROVE  LET n == RecordNewFills(b, c, evidence)
           IN  /\ IsRows(n)
               /\ n.effect = b.effect
               /\ n.receipt.filled \in {b.receipt.filled, evidence.filled}
               /\ n.receipt.value \in {b.receipt.value, evidence.value}
<1>1. CASE evidence.filled > b.receipt.filled
  <2> DEFINE q == evidence.filled - b.receipt.filled
             v == Minus(evidence.value, b.receipt.value)
  <2>1. /\ b.receipt.filled \in Nat /\ b.receipt.remaining \in Nat /\ b.receipt.value \in Nat
        /\ evidence.filled \in Nat /\ evidence.value \in Nat
    BY DEF IsRows, Receipt, Order
  <2>2. q \in Nat /\ q <= b.receipt.remaining /\ b.receipt.filled + q = evidence.filled
    BY <1>1, <2>1 DEF Minus
  <2>3. v \in Nat /\ b.receipt.value + v \in {b.receipt.value, evidence.value}
    BY <2>1 DEF Minus
  <2>4. RecordNewFills(b, c, evidence) = ApplyFills(b, c, b.ledger, q, v)
    BY <1>1 DEF RecordNewFills
  <2> HIDE DEF q, v
  <2> QED BY <2>2, <2>3, <2>4, ApplyFillsRows
<1>2. CASE ~(evidence.filled > b.receipt.filled)
  BY <1>2 DEF RecordNewFills
<1> QED BY <1>1, <1>2

LEMMA RecordEndRows ==
    ASSUME NEW b, IsRows(b), NEW c, NEW evidence
    PROVE  /\ IsRows(RecordEnd(b, c, evidence))
           /\ RecordEnd(b, c, evidence).effect = b.effect
           /\ SameFills(RecordEnd(b, c, evidence), b)
BY RecordTerminalRows DEF RecordEnd, SameFills

LEMMA ReconcileEntryFrame ==
    ASSUME TypeInv, NEW w \in Workers, ReconcileEntry(w)
    PROVE  worker[w].pc # "idle" /\ Frame(w, worker[w].cmd)
<1> DEFINE c == worker[w].cmd
           view == worker[w].view
           evidence == worker[w].evidence
           conflict == Minus(evidence.filled, receipt[c].filled) > receipt[c].remaining
           opened == RecordOrder(Rows(c), view)
           filled == RecordNewFills(opened, c, evidence)
           entry == RecordEnd(filled, c, evidence)
<1>1. worker[w].pc = "apply" /\ UNCHANGED <<order, posts, faults>>
  BY DEF ReconcileEntry
<1>2. /\ c \in Commands /\ view \in View /\ evidence \in Order
  BY <1>1, BusyWorker
<1>3. faults' \in 0..MaxFaults
  BY <1>1 DEF TypeInv, ControlTypeOK, DispatchTypeOK
<1>4. IsRows(Rows(c)) /\ Rows(c).effect = effect[c] /\ Rows(c).receipt = receipt[c]
  BY <1>2, RowsType
<1>5. IdleWorker.pc = "idle" /\ IdleWorker.evidence = NoOrder
  BY DEF IdleWorker
<1>6. ASSUME NEW b, IsRows(b), b.effect.epoch = effect[c].epoch,
             b.effect.state \in ConsumedState \cup {effect[c].state},
             b.receipt.filled \in {receipt[c].filled, evidence.filled},
             b.receipt.value \in {receipt[c].value, evidence.value},
             Commit(c, b),
             GoIdle(w) \/ GoTo(w, "exit", 0, ViewOf(b.effect))
      PROVE  Frame(w, c)
  <2>1. Consumed(c) => b.effect.state \in ConsumedState
    BY <1>6 DEF Consumed, ConsumedState
  <2>2. RowFrame(c) /\ receipt'[c] = b.receipt
    BY <1>2, <1>6, <2>1, CommitFrame
  <2>3. ViewOf(b.effect) \in View
    BY <1>6, ViewType DEF IsRows
  <2>4. /\ WorkerFrame(w, c) /\ worker'[w].pc \in {"idle", "exit"}
        /\ worker'[w].evidence \in {NoOrder, evidence}
    <3>1. CASE GoIdle(w)
      BY <1>2, <1>5, <3>1, GoIdleFrame
    <3>2. CASE GoTo(w, "exit", 0, ViewOf(b.effect))
      BY <1>1, <2>3, <3>2, GoToFrame DEF WorkerStates
    <3> QED BY <1>6, <3>1, <3>2
  <2> QED BY <1>1, <1>2, <1>3, <1>6, <2>2, <2>4, QuietFrame
<1>7. ASSUME ~conflict
      PROVE  /\ IsRows(entry) /\ entry.effect.epoch = effect[c].epoch
             /\ entry.effect.state \in ConsumedState \cup {effect[c].state}
             /\ entry.receipt.filled \in {receipt[c].filled, evidence.filled}
             /\ entry.receipt.value \in {receipt[c].value, evidence.value}
  <2>1. /\ IsRows(opened) /\ SameFills(opened, Rows(c))
        /\ opened.receipt.remaining = receipt[c].remaining
        /\ opened.effect.state \in ConsumedState \cup {effect[c].state}
    BY <1>2, <1>4, RecordOrderRows
  <2> HIDE DEF opened
  <2>2. ~(Minus(evidence.filled, opened.receipt.filled) > opened.receipt.remaining)
    BY <1>4, <1>7, <2>1 DEF SameFills
  <2>3. /\ IsRows(filled) /\ filled.effect = opened.effect
        /\ filled.receipt.filled \in {opened.receipt.filled, evidence.filled}
        /\ filled.receipt.value \in {opened.receipt.value, evidence.value}
    BY <1>2, <2>1, <2>2, RecordNewFillsRows
  <2> HIDE DEF filled
  <2>4. IsRows(entry) /\ entry.effect = filled.effect /\ SameFills(entry, filled)
    BY <2>3, RecordEndRows
  <2> HIDE DEF entry
  <2> QED BY <1>4, <2>1, <2>3, <2>4 DEF SameFills
<1>8. CASE Rollback /\ GoIdle(w)
  <2>1. WorkerFrame(w, c) /\ worker'[w] = IdleWorker
    BY <1>2, <1>8, GoIdleFrame
  <2>2. Frame(w, c)
    BY <1>1, <1>2, <1>3, <1>5, <1>8, <2>1, RollbackFrame, QuietFrame
  <2> QED BY <1>1, <2>2
<1>9. CASE Commit(c, RecordRejection(Rows(c), c, view)) /\ GoIdle(w)
  <2> DEFINE b == RecordRejection(Rows(c), c, view)
  <2>1. /\ IsRows(b) /\ SameFills(b, Rows(c))
        /\ b.effect.state \in ConsumedState \cup {Rows(c).effect.state}
    BY <1>2, <1>4, RecordRejectionRows
  <2>2. Commit(c, b) /\ GoIdle(w)
    BY <1>9
  <2> HIDE DEF b
  <2> QED BY <1>1, <1>4, <1>6, <2>1, <2>2 DEF SameFills
<1>10. CASE ~conflict /\ Commit(c, MarkDisposition(entry, "DEMO_UNFILLED")) /\ GoIdle(w)
  <2> DEFINE b == MarkDisposition(entry, "DEMO_UNFILLED")
  <2>1. Commit(c, b) /\ GoIdle(w)
    BY <1>10
  <2> HIDE DEF entry
  <2>2. IsRows(b) /\ b.effect.state = entry.effect.state /\ SameFills(b, entry)
    BY <1>7, <1>10, MarkDispositionRows DEF Dispositions
  <2> HIDE DEF b
  <2>3. Frame(w, c)
    <3> HIDE DEF conflict
    <3> QED BY <1>6, <1>7, <1>10, <2>1, <2>2 DEF SameFills
  <2> QED BY <1>1, <2>3
<1>11. CASE ~conflict /\ Commit(c, entry) /\ GoTo(w, "exit", 0, ViewOf(entry.effect))
  <2> HIDE DEF entry, conflict
  <2> QED BY <1>1, <1>6, <1>7, <1>11
<1> QED BY <1>8, <1>9, <1>10, <1>11 DEF ReconcileEntry

LEMMA KillActivateType ==
    ASSUME SafetyTypeOK, KillActivate
    PROVE  SafetyTypeOK'
<1>1. CASE killActive
  BY <1>1 DEF SafetyTypeOK, KillActivate, safetyVars
<1>2. CASE ~killActive
  <2>1. killActive' = TRUE /\ epoch' = epoch + 1 /\ blocking' = TRUE
    BY <1>2 DEF KillActivate
  <2>2. epoch \in 1..MaxEpoch /\ epoch < MaxEpoch
    BY <1>2 DEF SafetyTypeOK
  <2>3. epoch' \in 1..MaxEpoch
    BY <2>1, <2>2, MaxEpochAssumption
  <2> QED BY <2>1, <2>3, Zenon DEF SafetyTypeOK
<1> QED BY <1>1, <1>2

LEMMA ReconcileExitFrame ==
    ASSUME TypeInv, NEW w \in Workers, ReconcileExit(w)
    PROVE  worker[w].pc # "idle" /\ Frame(w, worker[w].cmd) /\ SafetyTypeOK'
<1> DEFINE c == worker[w].cmd
           evidence == worker[w].evidence
<1>1. worker[w].pc = "exit" /\ GoIdle(w) /\ UNCHANGED <<order, posts, faults>>
  BY DEF ReconcileExit
<1>2. c \in Commands /\ evidence \in Order
  BY <1>1, BusyWorker
<1>3. faults' \in 0..MaxFaults
  BY <1>1 DEF TypeInv, ControlTypeOK, DispatchTypeOK
<1>4. IsRows(Rows(c)) /\ Rows(c).effect = effect[c] /\ Rows(c).receipt = receipt[c]
  BY <1>2, RowsType
<1>5. /\ WorkerFrame(w, c) /\ worker'[w].pc = "idle" /\ worker'[w].evidence = NoOrder
  BY <1>1, <1>2, GoIdleFrame DEF IdleWorker
<1>6. KillActivate \/ UNCHANGED safetyVars
  BY DEF ReconcileExit, ExitObserved, ExitNotObserved, ProfileLiquidationHold, LineageConflict
<1>7. SafetyTypeOK'
  <2>1. SafetyTypeOK
    BY DEF TypeInv, ControlTypeOK
  <2>2. CASE UNCHANGED safetyVars
    BY <2>1, <2>2 DEF SafetyTypeOK, safetyVars
  <2> QED BY <1>6, <2>1, <2>2, KillActivateType
<1>8. ASSUME RowFrame(c), receipt'[c].filled = receipt[c].filled,
             receipt'[c].value = receipt[c].value
      PROVE  Frame(w, c)
  BY <1>1, <1>2, <1>3, <1>5, <1>8, QuietFrame
<1>9. CASE Rollback
  BY <1>1, <1>2, <1>7, <1>8, <1>9, RollbackFrame
<1>10. ASSUME NEW b, IsRows(b), b.effect.state = effect[c].state, SameFills(b, Rows(c)),
              Commit(c, b)
       PROVE  Frame(w, c)
  <2>1. RowFrame(c) /\ receipt'[c] = b.receipt
    BY <1>2, <1>4, <1>10, CommitFrame DEF SameFills, Consumed, ConsumedState
  <2> QED BY <1>4, <1>8, <1>10, <2>1 DEF SameFills
<1>11. ASSUME NEW d \in Dispositions, Commit(c, MarkDisposition(Rows(c), d))
       PROVE  Frame(w, c)
  <2>1. /\ IsRows(MarkDisposition(Rows(c), d))
        /\ MarkDisposition(Rows(c), d).effect.state = effect[c].state
        /\ SameFills(MarkDisposition(Rows(c), d), Rows(c))
    BY <1>4, MarkDispositionRows
  <2> QED BY <1>10, <1>11, <2>1
<1>12. CASE \E protected \in BOOLEAN : ExitNotObserved(c, evidence, protected)
  <2>1. PICK protected \in BOOLEAN : ExitNotObserved(c, evidence, protected)
    BY <1>12
  <2>2. CASE c \notin resolved
    <3> DEFINE d == IF protected THEN "DEMO_PROTECTED" ELSE "DEMO_PROTECTION_MISSING"
               m == MarkDisposition(Rows(c), d)
               b == RecordEnd(m, c, evidence)
    <3>1. Commit(c, b)
      BY <2>1, <2>2 DEF ExitNotObserved
    <3>2. d \in Dispositions
      BY DEF Dispositions
    <3>3. IsRows(m) /\ m.effect.state = effect[c].state /\ SameFills(m, Rows(c))
      BY <1>4, <3>2, MarkDispositionRows
    <3> HIDE DEF m
    <3>4. IsRows(b) /\ b.effect = m.effect /\ SameFills(b, m)
      BY <3>3, RecordEndRows
    <3> HIDE DEF b
    <3>5. Frame(w, c)
      BY <1>10, <3>1, <3>3, <3>4 DEF SameFills
    <3> QED BY <1>1, <1>7, <3>5
  <2>3. CASE c \in resolved
    BY <1>9, <2>1, <2>3 DEF ExitNotObserved
  <2> QED BY <2>2, <2>3
<1>13. CASE \E armed \in BOOLEAN : ProfileLiquidationHold(c, armed)
  <2>1. Commit(c, MarkDisposition(Rows(c), "DEMO_LIQUIDATION_HOLD"))
    BY <1>13 DEF ProfileLiquidationHold
  <2>2. "DEMO_LIQUIDATION_HOLD" \in Dispositions
    BY DEF Dispositions
  <2>3. Frame(w, c)
    BY <1>11, <2>1, <2>2
  <2> QED BY <1>1, <1>7, <2>3
<1>14. CASE ExitObserved(c, evidence)
  <2>1. CASE ResolveExit(c)
    <3>1. /\ effect' = [effect EXCEPT ![c].disposition = "DEMO_CLOSED_RECONCILED"]
          /\ resolved' = resolved \cup {c}
          /\ UNCHANGED <<command, authorization, expired, receipt, claims>>
      BY <2>1 DEF ResolveExit
    <3>2. /\ effect \in [Commands -> Effect] /\ receipt \in [Commands -> Receipt]
          /\ resolved \subseteq Commands
      BY DEF TypeInv, ControlTypeOK, ClaimTypeOK
    <3>3. effect'[c] \in Effect /\ effect'[c].epoch = effect[c].epoch
          /\ effect'[c].state = effect[c].state
      BY <1>2, <3>1, <3>2 DEF Effect, Dispositions
    <3>4. effect' \in [Commands -> Effect]
      BY <1>2, <3>1, <3>2, <3>3
    <3>5. RowFrame(c)
      BY <1>2, <3>1, <3>2, <3>3, <3>4 DEF RowFrame, Consumed, ConsumedState
    <3>6. Frame(w, c)
      BY <1>8, <3>1, <3>5
    <3> QED BY <1>1, <1>7, <3>6
  <2> QED BY <1>9, <1>14, <2>1 DEF ExitObserved
<1>15. CASE LineageConflict
  BY <1>9, <1>15 DEF LineageConflict
<1> QED BY <1>12, <1>13, <1>14, <1>15 DEF ReconcileExit

(* Every step of a worker. *)
LEMMA WorkerNextFrame ==
    ASSUME TypeInv, WorkerNext
    PROVE  /\ SafetyTypeOK'
           /\ \E w \in Workers, c \in Commands : Allowed(c) /\ Frame(w, c)
<1>1. SafetyTypeOK
  BY DEF TypeInv, ControlTypeOK
<1>2. UNCHANGED safetyVars => SafetyTypeOK'
  BY <1>1 DEF SafetyTypeOK, safetyVars
<1>3. PICK w \in Workers :
         \/ \E c \in Commands : StartProcess(w, c) \/ StartReconcile(w, c)
         \/ WorkerStep(w)
         \/ PreflightRefuses(w)
         \/ Crash(w)
  BY DEF WorkerNext
<1>4. CASE \E c \in Commands : StartProcess(w, c) \/ StartReconcile(w, c)
  <2>1. PICK c \in Commands : StartProcess(w, c) \/ StartReconcile(w, c)
    BY <1>4
  <2>2. UNCHANGED safetyVars
    BY <2>1 DEF StartProcess, StartReconcile
  <2> QED BY <1>2, <2>1, <2>2, StartFrame
<1>5. ASSUME worker[w].pc # "idle", Frame(w, worker[w].cmd)
      PROVE  \E v \in Workers, c \in Commands : Allowed(c) /\ Frame(v, c)
  <2>1. worker[w].cmd \in Commands /\ Allowed(worker[w].cmd)
    BY <1>5, BusyWorker
  <2> QED BY <1>5, <2>1
<1>6. CASE LeaseAndAuthorize(w)
  <2>1. UNCHANGED safetyVars /\ worker[w].pc # "idle"
    BY <1>6 DEF LeaseAndAuthorize
  <2> QED BY <1>2, <1>5, <1>6, <2>1, LeaseFrame
<1>7. CASE Consume(w)
  <2>1. UNCHANGED safetyVars /\ worker[w].pc # "idle"
    BY <1>7 DEF Consume
  <2> QED BY <1>2, <1>5, <1>7, <2>1, ConsumeFrame
<1>8. CASE PreflightRefuses(w) \/ FinalGate(w) \/ Lookup(w) \/ Crash(w)
  <2>1. UNCHANGED safetyVars
    BY <1>8 DEF PreflightRefuses, FinalGate, Lookup, Crash
  <2> QED BY <1>2, <1>5, <1>8, <2>1, GateFrame
<1>9. CASE Post(w)
  <2>1. UNCHANGED safetyVars
    BY <1>9 DEF Post
  <2> QED BY <1>2, <1>5, <1>9, <2>1, PostFrame
<1>10. CASE RecordAnswer(w) \/ Recover(w)
  <2>1. UNCHANGED safetyVars
    BY <1>10 DEF RecordAnswer, Recover
  <2> QED BY <1>2, <1>5, <1>10, <2>1, AnswerFrame
<1>11. CASE ReconcileEntry(w)
  <2>1. UNCHANGED safetyVars
    BY <1>11 DEF ReconcileEntry
  <2> QED BY <1>2, <1>5, <1>11, <2>1, ReconcileEntryFrame
<1>12. CASE ReconcileExit(w)
  BY <1>5, <1>12, ReconcileExitFrame
<1> QED BY <1>3, <1>4, <1>6, <1>7, <1>8, <1>9, <1>10, <1>11, <1>12 DEF WorkerStep

(* The claim of a key that is not bound yet. *)
ClaimFrame(k, a) ==
    /\ command[k].outcome = "NONE"
    /\ \A d \in Commands \ {k} : /\ command'[d] = command[d]
                                 /\ effect'[d] = effect[d]
                                 /\ receipt'[d] = receipt[d]
    /\ command' \in [Commands -> Command]
    /\ effect' \in [Commands -> Effect]
    /\ receipt' \in [Commands -> Receipt]
    /\ claims' \in Seq(Commands)
    /\ receipt'[k].filled = 0 /\ receipt'[k].value = 0
    /\ command'[k].plan = AuthorizedPlan[a] /\ command'[k].auth = a
    /\ UNCHANGED <<expired, resolved, safetyVars>>
    /\ \/ /\ command'[k].outcome = "BLOCKED"
          /\ effect'[k] = effect[k]
          /\ UNCHANGED authorization
       \/ /\ command'[k].outcome = "ALLOW"
          /\ authorization[a] = "AVAILABLE"
          /\ ~PlanEntryClaimed(AuthorizedPlan[a])
          /\ authorization' = [authorization EXCEPT ![a] = "CONSUMED"]

LEMMA ClaimStep ==
    ASSUME TypeInv, NEW k \in Commands, NEW a \in Authorizations,
           NEW refused \in BOOLEAN, NEW aged, Claim(k, a, refused, aged)
    PROVE  ClaimFrame(k, a)
<1> DEFINE l == LockedLedger(AuthorizedPlan[a], Orphans(aged))
           p == AuthorizedPlan[a]
<1>1. /\ command \in [Commands -> Command]
      /\ effect \in [Commands -> Effect]
      /\ receipt \in [Commands -> Receipt]
      /\ claims \in Seq(Commands)
      /\ epoch \in Nat
  BY MaxEpochAssumption DEF TypeInv, ControlTypeOK, ClaimTypeOK, SafetyTypeOK
<1>2. p \in Plans /\ PlanInfo[p].quantity \in Nat
  BY AuthorizationAssumption, PlanAssumption
<1>3. /\ command[k].outcome = "NONE"
      /\ UNCHANGED <<expired, resolved, safetyVars>>
      /\ \/ ClaimAllows(a, l, refused) /\ PersistAllow(k, a, l)
         \/ PersistBlocked(k, a, l)
  BY DEF Claim
<1> DEFINE r(s) == [state |-> s, filled |-> 0, value |-> 0,
                    remaining |-> PlanInfo[p].quantity]
           m(o) == [outcome |-> o, plan |-> p, auth |-> a]
<1>4. /\ r("BLOCKED") \in Receipt /\ r("SUBMITTING") \in Receipt
      /\ m("BLOCKED") \in Command /\ m("ALLOW") \in Command
  BY <1>2 DEF Receipt, ReceiptStates, Command
<1> HIDE DEF l
<1>5. CASE PersistBlocked(k, a, l)
  <2>1. /\ command' = [command EXCEPT ![k] = m("BLOCKED")]
        /\ receipt' = [receipt EXCEPT ![k] = r("BLOCKED")]
        /\ UNCHANGED <<authorization, effect, claims>>
    BY <1>5 DEF PersistBlocked
  <2> QED BY <1>1, <1>3, <1>4, <2>1 DEF ClaimFrame
<1>6. CASE ClaimAllows(a, l, refused) /\ PersistAllow(k, a, l)
  <2> DEFINE e == [NoEffect EXCEPT !.state = "CREATED", !.epoch = epoch]
  <2>1. /\ command' = [command EXCEPT ![k] = m("ALLOW")]
        /\ receipt' = [receipt EXCEPT ![k] = r("SUBMITTING")]
        /\ authorization' = [authorization EXCEPT ![a] = "CONSUMED"]
        /\ effect' = [effect EXCEPT ![k] = e]
        /\ claims' = Append(claims, k)
    BY <1>6 DEF PersistAllow
  <2>2. e \in Effect
    BY <1>1 DEF NoEffect, Effect, EffectStates, Dispositions
  <2>3. authorization[a] = "AVAILABLE" /\ ~PlanEntryClaimed(p)
    BY <1>6 DEF ClaimAllows
  <2> HIDE DEF e
  <2>4. claims' \in Seq(Commands)
    BY <1>1, <2>1
  <2> QED BY <1>1, <1>3, <1>4, <2>1, <2>2, <2>3, <2>4 DEF ClaimFrame
<1> QED BY <1>3, <1>5, <1>6

(* A paper fill adds to the receipt of a paper command. *)
LEMMA PaperFillFrame ==
    ASSUME TypeInv, NEW c \in Commands, NEW price \in Prices, NEW aged,
           PaperFill(c, price, aged)
    PROVE  Allowed(c) /\ ~IsDemo(PlanOf(c)) /\ RowFrame(c) /\ effect' = effect
<1> DEFINE q == PlanInfo[PlanOf(c)].quantity
           l == Roll(ledger, Orphans(aged \ {c}))
           b == ApplyFills(Rows(c), c, l, q, q * price)
<1>1. /\ Allowed(c) /\ IsPaper(PlanOf(c)) /\ q <= receipt[c].remaining
      /\ Commit(c, b)
  BY DEF PaperFill
<1>2. q \in Nat /\ q * price \in Nat
  <2>1. PlanOf(c) \in Plans /\ price \in Nat
    BY <1>1, WorkerAssumption DEF TypeInv, AllowedBound
  <2>2. q \in Nat
    BY <2>1, PlanAssumption
  <2> HIDE DEF q
  <2> QED BY <2>1, <2>2
<1>3. IsRows(Rows(c)) /\ Rows(c).effect = effect[c] /\ Rows(c).receipt = receipt[c]
  BY RowsType
<1> HIDE DEF q, l
<1>4. IsRows(b) /\ b.effect = effect[c]
  BY <1>1, <1>2, <1>3, ApplyFillsRows
<1> HIDE DEF b
<1>5. RowFrame(c) /\ effect'[c] = b.effect
  BY <1>1, <1>4, CommitFrame DEF Consumed, ConsumedState
<1>6. effect' = effect
  BY <1>4, <1>5 DEF RowFrame, TypeInv, ControlTypeOK, ClaimTypeOK
<1> QED BY <1>1, <1>5, <1>6 DEF IsPaper, IsDemo

(* The steps of operators, clock and venue: rows and workers stay, a       *)
(* consumed authorization stays consumed, fills at the venue only grow.    *)
OtherFrame ==
    /\ UNCHANGED <<command, effect, receipt, claims, resolved, worker, posts, faults>>
    /\ SafetyTypeOK'
    /\ authorization' \in [Authorizations -> AuthorizationStates]
    /\ \A a \in Authorizations :
          authorization[a] = "CONSUMED" => authorization'[a] = "CONSUMED"
    /\ expired' \subseteq Plans
    /\ order' \in [Commands -> Order]
    /\ \A c \in Commands : /\ order[c].filled <= order'[c].filled
                           /\ order[c].value <= order'[c].value

(* What the venue does to an order: it fills a unit, ends it, or closes the *)
(* position.                                                                *)
LEMMA OrderFills ==
    ASSUME NEW o \in Order, NEW price \in Nat, NEW s \in {"open", "filled"}
    PROVE  LET x == [o EXCEPT !.filled = @ + 1, !.value = @ + price, !.status = s]
           IN  x \in Order /\ o.filled <= x.filled /\ o.value <= x.value
<1>1. /\ o.filled + 1 \in Nat /\ o.value + price \in Nat
      /\ o.filled <= o.filled + 1 /\ o.value <= o.value + price
  BY DEF Order
<1>2. ASSUME NEW n \in Nat, NEW v \in Nat
      PROVE  LET x == [o EXCEPT !.filled = n, !.value = v, !.status = s]
             IN  x \in Order /\ x.filled = n /\ x.value = v
  BY DEF Order
<1> QED BY <1>1, <1>2

LEMMA OrderEnds ==
    ASSUME NEW o \in Order
    PROVE  /\ \A s \in {"cancelled", "rejected"} :
                LET x == [o EXCEPT !.status = s]
                IN  x \in Order /\ o.filled <= x.filled /\ o.value <= x.value
           /\ LET x == [o EXCEPT !.exited = TRUE]
              IN  x \in Order /\ o.filled <= x.filled /\ o.value <= x.value
<1>1. \A s \in {"cancelled", "rejected"} :
         LET x == [o EXCEPT !.status = s]
         IN  x \in Order /\ o.filled <= x.filled /\ o.value <= x.value
  BY DEF Order
<1>2. ASSUME NEW t \in BOOLEAN
      PROVE  LET x == [o EXCEPT !.exited = t]
             IN  x \in Order /\ o.filled <= x.filled /\ o.value <= x.value
  BY DEF Order
<1> QED BY <1>1, <1>2, Zenon

LEMMA VenueNextFrame ==
    ASSUME TypeInv, VenueNext
    PROVE  OtherFrame
<1>1. PICK c \in Commands : \/ \E price \in Prices : VenueFill(c, price)
                            \/ VenueCancel(c) \/ VenueReject(c) \/ VenueExit(c)
  BY DEF VenueNext
<1>2. order \in [Commands -> Order] /\ order[c] \in Order
  BY DEF TypeInv, ControlTypeOK, DispatchTypeOK
<1> DEFINE Grows(o) == order[c].filled <= o.filled /\ order[c].value <= o.value
<1>3. PICK o \in Order : VenueStep(c, o) /\ Grows(o)
  <2>1. ASSUME NEW price \in Prices, VenueFill(c, price)
        PROVE  \E o \in Order : VenueStep(c, o) /\ Grows(o)
    <3> DEFINE s == IF order[c].filled + 1 = PlanInfo[PlanOf(c)].quantity
                    THEN "filled" ELSE "open"
               x == [order[c] EXCEPT !.filled = @ + 1, !.value = @ + price, !.status = s]
    <3>1. VenueStep(c, x)
      BY <2>1 DEF VenueFill
    <3>2. price \in Nat /\ s \in {"filled", "open"}
      BY WorkerAssumption
    <3> HIDE DEF s
    <3>3. x \in Order /\ Grows(x)
      BY <1>2, <3>2, OrderFills
    <3> HIDE DEF x
    <3> QED BY <3>1, <3>3
  <2>2. ASSUME NEW s \in {"cancelled", "rejected"},
               VenueStep(c, [order[c] EXCEPT !.status = s])
        PROVE  \E o \in Order : VenueStep(c, o) /\ Grows(o)
    <3> DEFINE x == [order[c] EXCEPT !.status = s]
    <3>1. x \in Order /\ Grows(x)
      BY <1>2, OrderEnds
    <3> QED BY <2>2, <3>1
  <2>3. ASSUME VenueStep(c, [order[c] EXCEPT !.exited = TRUE])
        PROVE  \E o \in Order : VenueStep(c, o) /\ Grows(o)
    <3> DEFINE x == [order[c] EXCEPT !.exited = TRUE]
    <3>1. x \in Order /\ Grows(x)
      BY <1>2, OrderEnds
    <3> QED BY <2>3, <3>1
  <2> QED BY <1>1, <2>1, <2>2, <2>3 DEF VenueCancel, VenueReject, VenueExit
<1>4. /\ order' = [order EXCEPT ![c] = o]
      /\ UNCHANGED <<claimVars, worker, posts, faults, safetyVars>>
  BY <1>3 DEF VenueStep, Rollback
<1>5. SafetyTypeOK'
  BY <1>4 DEF TypeInv, ControlTypeOK, SafetyTypeOK, safetyVars
<1>6. /\ authorization \in [Authorizations -> AuthorizationStates]
      /\ expired \subseteq Plans
  BY DEF TypeInv, ControlTypeOK, ClaimTypeOK
<1>7. /\ order' \in [Commands -> Order]
      /\ \A d \in Commands : /\ order[d].filled <= order'[d].filled
                             /\ order[d].value <= order'[d].value
  BY <1>2, <1>3, <1>4 DEF Order
<1> QED BY <1>4, <1>5, <1>6, <1>7 DEF OtherFrame, claimVars

LEMMA OperatorFrame ==
    ASSUME TypeInv,
           \/ ClaimNext
           \/ SafetyNext
           \/ NextDay /\ UNCHANGED <<safetyVars, claimVars, dispatchVars>>
           \/ UNCHANGED vars
    PROVE  OtherFrame
<1>1. /\ authorization \in [Authorizations -> AuthorizationStates]
      /\ expired \subseteq Plans
      /\ order \in [Commands -> Order]
      /\ SafetyTypeOK
  BY DEF TypeInv, ControlTypeOK, ClaimTypeOK, DispatchTypeOK
<1>2. \A c \in Commands : order[c].filled <= order[c].filled /\ order[c].value <= order[c].value
  BY <1>1 DEF Order
<1>3. UNCHANGED safetyVars => SafetyTypeOK'
  BY <1>1 DEF SafetyTypeOK, safetyVars
<1>4. CASE UNCHANGED <<safetyVars, claimVars, dispatchVars>>
  BY <1>1, <1>2, <1>3, <1>4 DEF OtherFrame, claimVars, dispatchVars
<1>5. CASE SafetyNext
  <2>1. UNCHANGED <<claimVars, dispatchVars>>
    BY <1>5 DEF SafetyNext
  <2>2. SafetyTypeOK'
    <3>1. CASE ActivateKill
      BY <1>1, <3>1, KillActivateType DEF ActivateKill
    <3>2. CASE DeactivateKill
      <4>1. killActive' = FALSE /\ blocking' = FALSE /\ epoch' = epoch /\ epoch < MaxEpoch
        BY <3>2 DEF DeactivateKill
      <4> QED BY <1>1, <4>1, Zenon DEF SafetyTypeOK
    <3> QED BY <1>5, <3>1, <3>2 DEF SafetyNext
  <2> QED BY <1>1, <1>2, <2>1, <2>2 DEF OtherFrame, claimVars, dispatchVars
<1>6. CASE ClaimNext
  <2>1. UNCHANGED <<safetyVars, dispatchVars, command, effect, receipt, claims, resolved>>
    BY <1>6 DEF ClaimNext, IssueAuthorization, RevokeAuthorization, ExpirePlan
  <2>2. expired' \subseteq Plans
    BY <1>1, <1>6 DEF ClaimNext, IssueAuthorization, RevokeAuthorization, ExpirePlan
  <2>3. /\ authorization' \in [Authorizations -> AuthorizationStates]
        /\ \A a \in Authorizations :
              authorization[a] = "CONSUMED" => authorization'[a] = "CONSUMED"
    BY <1>1, <1>6 DEF ClaimNext, IssueAuthorization, RevokeAuthorization, ExpirePlan,
                      AuthorizationStates
  <2> QED BY <1>1, <1>2, <1>3, <2>1, <2>2, <2>3 DEF OtherFrame, dispatchVars
<1>7. CASE UNCHANGED vars
  BY <1>4, <1>7 DEF vars
<1> QED BY <1>4, <1>5, <1>6, <1>7

(* A step of the specification is one of four kinds; the arguments below   *)
(* are about these kinds and not about the actions.                        *)
WorkerKind == SafetyTypeOK' /\ \E w \in Workers, c \in Commands : Allowed(c) /\ Frame(w, c)

ClaimKind == /\ \E k \in Commands, a \in Authorizations : ClaimFrame(k, a)
             /\ UNCHANGED dispatchVars

PaperKind == /\ \E c \in Commands : /\ Allowed(c) /\ ~IsDemo(PlanOf(c))
                                    /\ RowFrame(c) /\ effect' = effect
             /\ UNCHANGED <<dispatchVars, safetyVars>>

LEMMA StepKinds ==
    ASSUME TypeInv, [Next]_vars
    PROVE  WorkerKind \/ ClaimKind \/ PaperKind \/ OtherFrame
<1>1. CASE WorkerNext
  BY <1>1, WorkerNextFrame DEF WorkerKind
<1>2. CASE VenueNext
  BY <1>2, VenueNextFrame
<1>3. CASE LedgerNext
  <2>1. ASSUME NEW k \in Commands, NEW a \in Authorizations, NEW refused \in BOOLEAN,
               NEW aged \in AgedSets, Claim(k, a, refused, aged), UNCHANGED dispatchVars
        PROVE  ClaimKind
    BY <2>1, ClaimStep DEF ClaimKind
  <2>2. ASSUME NEW c \in Commands, NEW price \in Prices, NEW aged \in AgedSets,
               PaperFill(c, price, aged)
        PROVE  PaperKind
    <3>1. UNCHANGED <<dispatchVars, safetyVars>>
      BY <2>2 DEF PaperFill
    <3> QED BY <2>2, <3>1, PaperFillFrame DEF PaperKind
  <2> QED BY <1>3, <2>1, <2>2, OperatorFrame DEF LedgerNext
<1>4. CASE ClaimNext \/ SafetyNext \/ UNCHANGED vars
  BY <1>4, OperatorFrame
<1> QED BY <1>1, <1>2, <1>3, <1>4 DEF Next

----------------------------------------------------------------------------
(* Type correctness. *)
LEMMA TypeInit == Init => TypeInv
<1> SUFFICES ASSUME Init PROVE TypeInv
  OBVIOUS
<1>1. SafetyTypeOK
  <2>1. epoch \in 1..MaxEpoch /\ epoch < MaxEpoch
    BY MaxEpochAssumption DEF Init, SafetyInit
  <2> QED BY <2>1, Zenon DEF Init, SafetyInit, SafetyTypeOK
<1>2. ClaimTypeOK
  BY DEF Init, ClaimInit, ClaimTypeOK, NoCommand, Command, AuthorizationStates, NoEffect,
         Effect, EffectStates, Dispositions, NoReceipt, Receipt, ReceiptStates
<1>3. DispatchTypeOK
  <2>1. worker \in [Workers -> Worker] /\ order \in [Commands -> Order]
    BY IdleWorkerType DEF Init, DispatchInit
  <2>2. \A w \in Workers : worker[w].pc = "idle" /\ worker[w].cmd = NoCommandId
    BY DEF Init, DispatchInit, IdleWorker
  <2> QED BY <2>1, <2>2, WorkerAssumption DEF Init, DispatchInit, DispatchTypeOK
<1>4. AllowedBound
  BY DEF Init, ClaimInit, DispatchInit, AllowedBound, Allowed, NoCommand, IdleWorker
<1> QED BY <1>1, <1>2, <1>3, <1>4 DEF TypeInv, ControlTypeOK

LEMMA TypeStep == TypeInv /\ [Next]_vars => TypeInv'
<1> SUFFICES ASSUME TypeInv, [Next]_vars PROVE TypeInv'
  OBVIOUS
<1>1. SafetyTypeOK /\ ClaimTypeOK /\ DispatchTypeOK /\ AllowedBound
  BY DEF TypeInv, ControlTypeOK
<1>2. CASE WorkerKind
  <2>1. PICK w \in Workers, c \in Commands : Allowed(c) /\ Frame(w, c)
    BY <1>2 DEF WorkerKind
  <2>2. ClaimTypeOK'
    BY <1>1, <2>1 DEF Frame, RowFrame, ClaimTypeOK
  <2>3. DispatchTypeOK'
    <3>1. \A v \in Workers : worker'[v].pc = "idle" <=> worker'[v].cmd = NoCommandId
      BY <1>1, <2>1 DEF Frame, WorkerFrame, DispatchTypeOK
    <3>2. posts' \in [Commands -> Nat]
      BY <1>1, <2>1 DEF Frame, SendFrame, DispatchTypeOK
    <3> QED BY <2>1, <3>1, <3>2 DEF Frame, WorkerFrame, SendFrame, FillFrame, DispatchTypeOK
  <2>4. AllowedBound'
    <3>1. command' = command
      BY <2>1 DEF Frame, RowFrame
    <3>2. \A v \in Workers : worker'[v].pc # "idle" => Allowed(worker'[v].cmd)
      BY <1>1, <2>1 DEF Frame, WorkerFrame, AllowedBound
    <3> QED BY <1>1, <3>1, <3>2 DEF AllowedBound, Allowed, PlanOf
  <2> QED BY <1>2, <2>2, <2>3, <2>4 DEF WorkerKind, TypeInv, ControlTypeOK
<1>3. CASE ClaimKind
  <2>1. PICK k \in Commands, a \in Authorizations : ClaimFrame(k, a)
    BY <1>3 DEF ClaimKind
  <2>2. UNCHANGED <<worker, order, posts, faults, safetyVars>>
    BY <1>3, <2>1 DEF ClaimKind, ClaimFrame, dispatchVars
  <2>3. ClaimTypeOK'
    BY <1>1, <2>1 DEF ClaimFrame, ClaimTypeOK, AuthorizationStates
  <2>4. SafetyTypeOK' /\ DispatchTypeOK'
    BY <1>1, <2>2 DEF SafetyTypeOK, safetyVars, DispatchTypeOK
  <2>5. AllowedBound'
    <3>1. \A d \in Commands : command'[d].outcome = "ALLOW" =>
             command'[d].plan \in Plans /\ command'[d].auth \in Authorizations
      BY <1>1, <2>1, AuthorizationAssumption DEF ClaimFrame, AllowedBound, Allowed, PlanOf
    <3>2. \A v \in Workers : worker[v].pc # "idle" =>
             worker[v].cmd \in Commands \ {k} /\ Allowed(worker[v].cmd)
      BY <2>1, BusyWorker DEF ClaimFrame, Allowed
    <3>3. \A v \in Workers : worker'[v].pc # "idle" => command'[worker'[v].cmd].outcome = "ALLOW"
      BY <2>1, <2>2, <3>2 DEF ClaimFrame, Allowed
    <3> QED BY <3>1, <3>3 DEF AllowedBound, Allowed, PlanOf
  <2> QED BY <2>3, <2>4, <2>5 DEF TypeInv, ControlTypeOK
<1>4. CASE PaperKind
  <2>1. PICK c \in Commands : RowFrame(c)
    BY <1>4 DEF PaperKind
  <2>2. UNCHANGED <<worker, order, posts, faults, safetyVars, command>>
    BY <1>4, <2>1 DEF PaperKind, RowFrame, dispatchVars
  <2>3. ClaimTypeOK'
    BY <1>1, <2>1 DEF RowFrame, ClaimTypeOK
  <2>4. SafetyTypeOK' /\ DispatchTypeOK'
    BY <1>1, <2>2 DEF SafetyTypeOK, safetyVars, DispatchTypeOK
  <2>5. AllowedBound'
    BY <1>1, <2>2 DEF AllowedBound, Allowed, PlanOf
  <2> QED BY <2>3, <2>4, <2>5 DEF TypeInv, ControlTypeOK
<1>5. CASE OtherFrame
  <2>1. ClaimTypeOK' /\ DispatchTypeOK' /\ SafetyTypeOK'
    BY <1>1, <1>5 DEF OtherFrame, ClaimTypeOK, DispatchTypeOK
  <2>2. AllowedBound'
    BY <1>1, <1>5 DEF OtherFrame, AllowedBound, Allowed, PlanOf
  <2> QED BY <2>1, <2>2 DEF TypeInv, ControlTypeOK
<1> QED BY <1>2, <1>3, <1>4, <1>5, StepKinds

(* Every variable of the protocol but the ledger keeps its type, and the   *)
(* rows a worker holds on to belong to an allowed command.                 *)
THEOREM TypeCorrect == Spec => []TypeInv
BY TypeInit, TypeStep, PTL DEF Spec

----------------------------------------------------------------------------
(* At most one POST.  SendAuthorityUnique is inductive given the types:    *)
(* the only way to "preflight" is the consuming marker, which needs        *)
(* DISPATCH_AUTHORIZED, and no consumed effect returns there.              *)
LEMMA SendInit == Init => SendAuthorityUnique
BY DEF Init, ClaimInit, DispatchInit, SendAuthorityUnique, NoCommand, NoEffect,
       Sending, IdleWorker

LEMMA SendStep == TypeInv /\ SendAuthorityUnique /\ [Next]_vars => SendAuthorityUnique'
<1> SUFFICES ASSUME TypeInv, SendAuthorityUnique, [Next]_vars PROVE SendAuthorityUnique'
  OBVIOUS
<1>1. /\ \A c \in Commands : /\ command[c].outcome # "ALLOW" => effect[c].state = "NONE"
                             /\ posts[c] > 0 => effect[c].state \in ConsumedState
                             /\ posts[c] <= 1
      /\ \A w \in Workers : Sending(w) => /\ posts[worker[w].cmd] = 0
                                          /\ effect[worker[w].cmd].state \in ConsumedState
      /\ \A v, w \in Workers : Sending(v) /\ Sending(w) /\ v # w
                                  => worker[v].cmd # worker[w].cmd
  BY DEF SendAuthorityUnique, Consumed, ConsumedState
<1>2. posts \in [Commands -> Nat]
  BY DEF TypeInv, ControlTypeOK, DispatchTypeOK
<1> DEFINE Busy(w) == worker'[w].pc \in {"preflight", "gated"}
<1>3. SUFFICES
      /\ \A c \in Commands : /\ command'[c].outcome # "ALLOW" => effect'[c].state = "NONE"
                             /\ posts'[c] > 0 => effect'[c].state \in ConsumedState
                             /\ posts'[c] <= 1
      /\ \A w \in Workers : Busy(w) => /\ posts'[worker'[w].cmd] = 0
                                       /\ effect'[worker'[w].cmd].state \in ConsumedState
      /\ \A v, w \in Workers : Busy(v) /\ Busy(w) /\ v # w
                                  => worker'[v].cmd # worker'[w].cmd
  BY DEF SendAuthorityUnique, Consumed, ConsumedState, Sending
<1>4. \A w \in Workers : Sending(w) => worker[w].cmd \in Commands /\ Allowed(worker[w].cmd)
  BY BusyWorker DEF Sending
<1>5. CASE WorkerKind
  <2>1. PICK w \in Workers, c \in Commands : Allowed(c) /\ Frame(w, c)
    BY <1>5 DEF WorkerKind
  <2>2. /\ \A v \in Workers \ {w} : worker'[v] = worker[v]
        /\ worker'[w].cmd \in {c, NoCommandId}
        /\ worker'[w].pc = "idle" <=> worker'[w].cmd = NoCommandId
        /\ worker[w].pc # "idle" => worker[w].cmd = c
    BY <2>1 DEF Frame, WorkerFrame
  <2>3. /\ \A d \in Commands \ {c} : effect'[d] = effect[d]
        /\ command' = command
        /\ effect[c].state \in ConsumedState => effect'[c].state \in ConsumedState
    BY <2>1 DEF Frame, RowFrame, Consumed, ConsumedState
  <2>4. /\ worker'[w].pc = "preflight" => /\ effect[c].state = "DISPATCH_AUTHORIZED"
                                          /\ effect'[c].state \in ConsumedState
        /\ worker'[w].pc = "gated" => worker[w].pc = "preflight"
        /\ posts' = posts \/ /\ worker[w].pc = "gated"
                             /\ ~Busy(w)
                             /\ posts' = [posts EXCEPT ![c] = @ + 1]
    BY <2>1 DEF Frame, SendFrame
  <2>5. \A d \in Commands : effect[d].state \in ConsumedState
                               => effect'[d].state \in ConsumedState
    BY <2>3
  <2>6. worker[w].pc = "gated" => /\ Sending(w) /\ worker[w].cmd = c
                                  /\ posts[c] = 0 /\ effect[c].state \in ConsumedState
    BY <1>1, <2>2 DEF Sending
  <2>7. \A d \in Commands :
           /\ command'[d].outcome # "ALLOW" => effect'[d].state = "NONE"
           /\ posts'[d] > 0 => effect'[d].state \in ConsumedState
           /\ posts'[d] <= 1
    <3>1. \A d \in Commands : command'[d].outcome # "ALLOW" => effect'[d].state = "NONE"
      BY <1>1, <2>1, <2>3 DEF Allowed
    <3>2. CASE posts' = posts
      BY <1>1, <2>5, <3>1, <3>2
    <3>3. CASE worker[w].pc = "gated" /\ posts' = [posts EXCEPT ![c] = @ + 1]
      BY <1>1, <1>2, <2>5, <2>6, <3>1, <3>3
    <3> QED BY <2>4, <3>2, <3>3
  <2>8. Busy(w) => /\ worker'[w].cmd = c
                   /\ posts'[c] = 0 /\ posts' = posts
                   /\ effect'[c].state \in ConsumedState
                   /\ \A v \in Workers \ {w} : Sending(v) => worker[v].cmd # c
    <3> SUFFICES ASSUME Busy(w)
                 PROVE  /\ worker'[w].cmd = c
                        /\ posts'[c] = 0 /\ posts' = posts
                        /\ effect'[c].state \in ConsumedState
                        /\ \A v \in Workers \ {w} : Sending(v) => worker[v].cmd # c
      OBVIOUS
    <3>1. worker'[w].cmd = c /\ posts' = posts
      BY <2>2, <2>4
    <3>2. CASE worker'[w].pc = "preflight"
      <4>1. effect[c].state \notin ConsumedState /\ effect'[c].state \in ConsumedState
        BY <2>4, <3>2 DEF ConsumedState
      <4>2. posts[c] = 0
        BY <1>1, <1>2, <4>1
      <4> QED BY <1>1, <3>1, <4>1, <4>2
    <3>3. CASE worker'[w].pc = "gated"
      <4>1. Sending(w) /\ worker[w].cmd = c
        BY <2>2, <2>4, <3>3 DEF Sending
      <4>2. \A v \in Workers \ {w} : Sending(v) => worker[v].cmd # c
        BY <1>1, <4>1
      <4>3. posts[c] = 0 /\ effect[c].state \in ConsumedState
        BY <1>1, <4>1
      <4> QED BY <2>5, <3>1, <4>2, <4>3
    <3> QED BY <3>2, <3>3
  <2>9. \A v \in Workers \ {w} :
           Busy(v) => /\ Sending(v) /\ worker'[v].cmd = worker[v].cmd
                      /\ posts'[worker'[v].cmd] = 0
                      /\ effect'[worker'[v].cmd].state \in ConsumedState
    <3> SUFFICES ASSUME NEW v \in Workers \ {w}, Busy(v)
                 PROVE  /\ Sending(v) /\ worker'[v].cmd = worker[v].cmd
                        /\ posts'[worker'[v].cmd] = 0
                        /\ effect'[worker'[v].cmd].state \in ConsumedState
      OBVIOUS
    <3>1. Sending(v) /\ worker'[v].cmd = worker[v].cmd /\ worker[v].cmd \in Commands
      BY <1>4, <2>2 DEF Sending
    <3>2. posts[worker[v].cmd] = 0 /\ effect'[worker[v].cmd].state \in ConsumedState
      BY <1>1, <2>5, <3>1
    <3>3. posts'[worker[v].cmd] = 0
      <4>1. CASE posts' = posts
        BY <3>2, <4>1
      <4>2. CASE worker[w].pc = "gated" /\ posts' = [posts EXCEPT ![c] = @ + 1]
        <5>1. worker[v].cmd # c
          BY <1>1, <2>6, <3>1, <4>2
        <5> QED BY <1>2, <3>1, <3>2, <4>2, <5>1
      <4> QED BY <2>4, <4>1, <4>2
    <3> QED BY <3>1, <3>2, <3>3
  <2>10. \A v, u \in Workers : Busy(v) /\ Busy(u) /\ v # u => worker'[v].cmd # worker'[u].cmd
    <3> HIDE DEF Busy
    <3> QED BY <1>1, <2>8, <2>9
  <2>11. \A v \in Workers : Busy(v) => /\ posts'[worker'[v].cmd] = 0
                                       /\ effect'[worker'[v].cmd].state \in ConsumedState
    <3> HIDE DEF Busy
    <3> QED BY <2>8, <2>9
  <2> QED BY <2>7, <2>10, <2>11
<1>6. CASE ClaimKind
  <2>1. PICK k \in Commands, a \in Authorizations : ClaimFrame(k, a)
    BY <1>6 DEF ClaimKind
  <2>2. worker' = worker /\ posts' = posts
    BY <1>6 DEF ClaimKind, dispatchVars
  <2>3. /\ \A d \in Commands \ {k} : command'[d] = command[d] /\ effect'[d] = effect[d]
        /\ command[k].outcome = "NONE"
        /\ command'[k].outcome # "ALLOW" => effect'[k] = effect[k]
    BY <2>1 DEF ClaimFrame
  <2>4. posts[k] = 0
    BY <1>1, <1>2, <2>3 DEF ConsumedState
  <2>5. \A w \in Workers : Sending(w) => worker[w].cmd \in Commands \ {k}
    BY <1>4, <2>3 DEF Allowed
  <2>6. \A d \in Commands : /\ command'[d].outcome # "ALLOW" => effect'[d].state = "NONE"
                            /\ posts'[d] > 0 => effect'[d].state \in ConsumedState
                            /\ posts'[d] <= 1
    BY <1>1, <1>2, <2>2, <2>3, <2>4
  <2>7. \A w \in Workers : Busy(w) => /\ posts'[worker'[w].cmd] = 0
                                      /\ effect'[worker'[w].cmd].state \in ConsumedState
    BY <1>1, <2>2, <2>3, <2>5 DEF Sending
  <2> QED BY <1>1, <2>2, <2>6, <2>7 DEF Sending
<1>7. CASE PaperKind
  <2>1. command' = command /\ effect' = effect /\ worker' = worker /\ posts' = posts
    BY <1>7 DEF PaperKind, RowFrame, dispatchVars
  <2> QED BY <1>1, <2>1 DEF Sending
<1>8. CASE OtherFrame
  <2>1. command' = command /\ effect' = effect /\ worker' = worker /\ posts' = posts
    BY <1>8 DEF OtherFrame
  <2> QED BY <1>1, <2>1 DEF Sending
<1> QED BY <1>5, <1>6, <1>7, <1>8, StepKinds

(* The inductive form: workers between the consuming marker and the POST   *)
(* are alone with a command for which nothing was sent.                    *)
THEOREM SendAuthority == Spec => []SendAuthorityUnique
<1>1. Spec => []TypeInv
  BY TypeCorrect
<1> QED BY <1>1, SendInit, SendStep, PTL DEF Spec

(* The demo venue is sent at most one entry POST per command, for any      *)
(* number of workers, crashes, replays and kill activations.               *)
THEOREM AtMostOnce == Spec => []AtMostOncePost
<1>1. SendAuthorityUnique => AtMostOncePost
  BY DEF SendAuthorityUnique, AtMostOncePost
<1> QED BY <1>1, SendAuthority, PTL

----------------------------------------------------------------------------
(* Claims.  ExclusiveClaims is inductive: a claim takes an AVAILABLE       *)
(* authorization and a plan without an ALLOW, and nothing else touches     *)
(* commands or consumed authorizations.                                    *)
LEMMA ExclusiveStep == TypeInv /\ ExclusiveClaims /\ [Next]_vars => ExclusiveClaims'
<1> SUFFICES ASSUME TypeInv, ExclusiveClaims, [Next]_vars PROVE ExclusiveClaims'
  OBVIOUS
<1>1. \A c \in Commands : command[c].outcome = "ALLOW" =>
         /\ command[c].auth \in Authorizations
         /\ authorization[command[c].auth] = "CONSUMED"
         /\ \A d \in Commands \ {c} : command[d].outcome = "ALLOW" =>
               command[d].plan # command[c].plan /\ command[d].auth # command[c].auth
  BY DEF ExclusiveClaims, TypeInv, AllowedBound, Allowed, PlanOf
<1>2. authorization \in [Authorizations -> AuthorizationStates]
  BY DEF TypeInv, ControlTypeOK, ClaimTypeOK
<1>3. SUFFICES \A c \in Commands : command'[c].outcome = "ALLOW" =>
         /\ authorization'[command'[c].auth] = "CONSUMED"
         /\ \A d \in Commands \ {c} : command'[d].outcome = "ALLOW" =>
               command'[d].plan # command'[c].plan /\ command'[d].auth # command'[c].auth
  BY DEF ExclusiveClaims, Allowed, PlanOf
<1>4. CASE /\ command' = command
           /\ \A a \in Authorizations :
                 authorization[a] = "CONSUMED" => authorization'[a] = "CONSUMED"
  BY <1>1, <1>4
<1>5. CASE WorkerKind \/ PaperKind
  <2>1. command' = command /\ authorization' = authorization
    BY <1>5 DEF WorkerKind, PaperKind, Frame, RowFrame
  <2> QED BY <1>4, <2>1
<1>6. CASE OtherFrame
  BY <1>4, <1>6 DEF OtherFrame
<1>7. CASE ClaimKind
  <2>1. PICK k \in Commands, a \in Authorizations : ClaimFrame(k, a)
    BY <1>7 DEF ClaimKind
  <2>2. /\ \A d \in Commands \ {k} : command'[d] = command[d]
        /\ command'[k].plan = AuthorizedPlan[a] /\ command'[k].auth = a
    BY <2>1 DEF ClaimFrame
  <2>3. CASE command'[k].outcome = "BLOCKED" /\ UNCHANGED authorization
    BY <1>1, <2>2, <2>3
  <2>4. CASE /\ command'[k].outcome = "ALLOW"
             /\ authorization[a] = "AVAILABLE"
             /\ ~PlanEntryClaimed(AuthorizedPlan[a])
             /\ authorization' = [authorization EXCEPT ![a] = "CONSUMED"]
    <3>1. \A d \in Commands \ {k} : command'[d].outcome = "ALLOW" =>
             /\ command[d].outcome = "ALLOW"
             /\ command'[d].plan # AuthorizedPlan[a]
             /\ command'[d].auth # a
             /\ authorization'[command'[d].auth] = "CONSUMED"
      BY <1>1, <1>2, <2>2, <2>4 DEF PlanEntryClaimed, Allowed, PlanOf
    <3>2. authorization'[a] = "CONSUMED"
      BY <1>2, <2>4
    <3>3. \A c \in Commands \ {k}, d \in Commands \ {k} :
             command'[c].outcome = "ALLOW" /\ command'[d].outcome = "ALLOW" /\ c # d
                => command'[d].plan # command'[c].plan /\ command'[d].auth # command'[c].auth
      BY <1>1, <2>2
    <3> QED BY <2>2, <3>1, <3>2, <3>3
  <2> QED BY <2>1, <2>3, <2>4 DEF ClaimFrame
<1> QED BY <1>5, <1>6, <1>7, StepKinds

(* Two allowed commands never share a plan or an authorization, although   *)
(* issue_authorization may race a claim.                                   *)
THEOREM ClaimsExclusive == Spec => []ExclusiveClaims
<1>1. Init => ExclusiveClaims
  BY DEF Init, ClaimInit, ExclusiveClaims, Allowed, NoCommand
<1>2. Spec => []TypeInv
  BY TypeCorrect
<1> QED BY <1>1, <1>2, ExclusiveStep, PTL DEF Spec

----------------------------------------------------------------------------
(* The fence of a kill activation: only a gated worker sends, and the gate *)
(* opens only under the claimed epoch with the switch off.                 *)
LEMMA KillFenceStep ==
    ASSUME TypeInv, [Next]_vars, NEW c \in Commands, GovernedDemo(c),
           killActive \/ effect[c].epoch # epoch, ~PastGate(c)
    PROVE  posts'[c] = posts[c] /\ ~PastGate(c)'
<1>1. \A w \in Workers : worker[w].cmd = c => worker[w].pc # "gated"
  BY DEF PastGate
<1>2. posts \in [Commands -> Nat]
  BY DEF TypeInv, ControlTypeOK, DispatchTypeOK
<1>3. SUFFICES /\ posts'[c] = posts[c]
               /\ \A w \in Workers : worker'[w].cmd = c => worker'[w].pc # "gated"
  BY DEF PastGate
<1>4. CASE WorkerKind
  <2>1. PICK w \in Workers, d \in Commands : Frame(w, d)
    BY <1>4 DEF WorkerKind
  <2>2. posts'[c] = posts[c]
    BY <1>1, <1>2, <2>1 DEF Frame, SendFrame, WorkerFrame
  <2>3. \A v \in Workers \ {w} : worker'[v].cmd = c => worker'[v].pc # "gated"
    BY <1>1, <2>1 DEF Frame, WorkerFrame
  <2>4. worker'[w].cmd = c => worker'[w].pc # "gated"
    <3>1. SUFFICES ASSUME worker'[w].cmd = c, worker'[w].pc = "gated" PROVE FALSE
      OBVIOUS
    <3>2. c = d
      BY <2>1, <3>1, WorkerAssumption DEF Frame, WorkerFrame
    <3>3. ~SafetyBlocksDispatch(effect[c].epoch)
      BY <2>1, <3>1, <3>2 DEF Frame, SendFrame
    <3> QED BY <3>3 DEF SafetyBlocksDispatch
  <2> QED BY <2>2, <2>3, <2>4
<1>5. CASE ClaimKind \/ PaperKind \/ OtherFrame
  <2>1. worker' = worker /\ posts' = posts
    BY <1>5 DEF ClaimKind, PaperKind, OtherFrame, dispatchVars
  <2> QED BY <1>1, <2>1
<1> QED BY <1>4, <1>5, StepKinds

(* A kill activation fences every command claimed before it, for good,     *)
(* unless a worker had already passed _verify_demo_send_gate.              *)
THEOREM KillFences == Spec => KillFencesOldClaims
<1>1. TypeInv /\ [Next]_vars =>
         [\A c \in Commands :
             GovernedDemo(c) /\ (killActive \/ effect[c].epoch # epoch) /\ ~PastGate(c)
                => posts'[c] = posts[c] /\ ~PastGate(c)']_vars
  BY KillFenceStep
<1>2. Spec => []TypeInv
  BY TypeCorrect
<1> QED BY <1>1, <1>2, PTL DEF Spec, KillFencesOldClaims

----------------------------------------------------------------------------
(* Fills.  A worker's evidence is never ahead of the venue, so neither are *)
(* the books.                                                              *)
EvidenceOld ==
    \A w \in Workers : worker[w].pc # "idle" =>
       /\ worker[w].evidence.filled <= order[worker[w].cmd].filled
       /\ worker[w].evidence.value <= order[worker[w].cmd].value

FillsInv == NoInventedFills /\ EvidenceOld

LEMMA FillsInit == Init => FillsInv
<1> SUFFICES ASSUME Init PROVE FillsInv
  OBVIOUS
<1>1. \A c \in Commands : ~GovernedDemo(c)
  BY DEF Init, ClaimInit, GovernedDemo, Allowed, NoCommand
<1>2. \A w \in Workers : worker[w].pc = "idle"
  BY DEF Init, DispatchInit, IdleWorker
<1> QED BY <1>1, <1>2 DEF FillsInv, NoInventedFills, EvidenceOld

LEMMA FillsStep == TypeInv /\ FillsInv /\ [Next]_vars => FillsInv'
<1> SUFFICES ASSUME TypeInv, FillsInv, [Next]_vars PROVE FillsInv'
  OBVIOUS
<1> DEFINE Demo(c) == command[c].outcome = "ALLOW" /\ IsDemo(command[c].plan)
<1>1. \A c \in Commands : Demo(c) => /\ receipt[c].filled <= order[c].filled
                                     /\ receipt[c].value <= order[c].value
  BY DEF FillsInv, NoInventedFills, GovernedDemo, Allowed, PlanOf
<1>2. \A w \in Workers : worker[w].pc # "idle" =>
         /\ worker[w].cmd \in Commands
         /\ worker[w].evidence.filled <= order[worker[w].cmd].filled
         /\ worker[w].evidence.value <= order[worker[w].cmd].value
  BY BusyWorker DEF FillsInv, EvidenceOld
<1>3. /\ order \in [Commands -> Order] /\ receipt \in [Commands -> Receipt]
      /\ worker \in [Workers -> Worker]
  BY DEF TypeInv, ControlTypeOK, ClaimTypeOK, DispatchTypeOK
<1>4. SUFFICES
      /\ \A c \in Commands : command'[c].outcome = "ALLOW" /\ IsDemo(command'[c].plan)
            => receipt'[c].filled <= order'[c].filled /\ receipt'[c].value <= order'[c].value
      /\ \A w \in Workers : worker'[w].pc # "idle" =>
            /\ worker'[w].evidence.filled <= order'[worker'[w].cmd].filled
            /\ worker'[w].evidence.value <= order'[worker'[w].cmd].value
  BY DEF FillsInv, NoInventedFills, EvidenceOld, GovernedDemo, Allowed, PlanOf, IsDemo
<1>5. CASE WorkerKind
  <2>1. PICK w \in Workers, c \in Commands : Frame(w, c)
    BY <1>5 DEF WorkerKind
  <2>2. /\ command' = command
        /\ \A d \in Commands \ {c} : receipt'[d] = receipt[d]
        /\ \A d \in Commands : /\ order'[d].filled = order[d].filled
                               /\ order'[d].value = order[d].value
        /\ receipt'[c].filled \in {receipt[c].filled, worker[w].evidence.filled}
        /\ receipt'[c].value \in {receipt[c].value, worker[w].evidence.value}
        /\ worker'[w].evidence \in {NoOrder, order[c], worker[w].evidence}
    BY <2>1 DEF Frame, RowFrame, FillFrame
  <2>3. /\ \A v \in Workers \ {w} : worker'[v] = worker[v]
        /\ worker'[w].cmd \in {c, NoCommandId}
        /\ worker'[w].pc = "idle" <=> worker'[w].cmd = NoCommandId
        /\ worker[w].pc # "idle" => worker[w].cmd = c
    BY <2>1 DEF Frame, WorkerFrame
  <2>4. worker'[w].pc # "idle" => /\ worker'[w].cmd = c
                                  /\ worker'[w].evidence.filled <= order[c].filled
                                  /\ worker'[w].evidence.value <= order[c].value
    <3>1. /\ NoOrder.filled = 0 /\ NoOrder.value = 0
          /\ order[c].filled \in Nat /\ order[c].value \in Nat
      BY <1>3 DEF NoOrder, Order
    <3>2. worker[w].pc = "idle" => worker'[w].evidence = NoOrder
      BY <2>1 DEF Frame, FillFrame
    <3>3. CASE worker'[w].evidence \in {NoOrder, order[c]}
      BY <2>3, <3>1, <3>3
    <3>4. CASE worker[w].pc # "idle" /\ worker'[w].evidence = worker[w].evidence
      BY <1>2, <2>3, <3>4
    <3> QED BY <2>2, <3>2, <3>3, <3>4
  <2>5. Demo(c) => receipt'[c].filled <= order[c].filled /\ receipt'[c].value <= order[c].value
    <3>1. CASE worker[w].pc = "idle"
      <4>1. receipt' = receipt
        BY <2>1, <3>1 DEF Frame, FillFrame
      <4> QED BY <1>1, <4>1
    <3>2. CASE worker[w].pc # "idle"
      BY <1>1, <1>2, <2>2, <2>3, <3>2
    <3> QED BY <3>1, <3>2
  <2>6. \A d \in Commands : Demo(d) => receipt'[d].filled <= order[d].filled
                                       /\ receipt'[d].value <= order[d].value
    BY <1>1, <2>2, <2>5
  <2>7. \A v \in Workers : worker'[v].pc # "idle" =>
           /\ worker'[v].cmd \in Commands
           /\ worker'[v].evidence.filled <= order[worker'[v].cmd].filled
           /\ worker'[v].evidence.value <= order[worker'[v].cmd].value
    BY <1>2, <2>3, <2>4
  <2> QED BY <2>2, <2>6, <2>7
<1>6. CASE ClaimKind
  <2>1. PICK k \in Commands, a \in Authorizations : ClaimFrame(k, a)
    BY <1>6 DEF ClaimKind
  <2>2. worker' = worker /\ order' = order
    BY <1>6 DEF ClaimKind, dispatchVars
  <2>3. /\ \A d \in Commands \ {k} : command'[d] = command[d] /\ receipt'[d] = receipt[d]
        /\ receipt'[k].filled = 0 /\ receipt'[k].value = 0
    BY <2>1 DEF ClaimFrame
  <2>4. order[k].filled \in Nat /\ order[k].value \in Nat
    BY <1>3 DEF Order
  <2> QED BY <1>1, <1>2, <2>2, <2>3, <2>4
<1>7. CASE PaperKind
  <2>1. PICK c \in Commands : ~IsDemo(PlanOf(c)) /\ RowFrame(c)
    BY <1>7 DEF PaperKind
  <2>2. worker' = worker /\ order' = order /\ command' = command
    BY <1>7, <2>1 DEF PaperKind, RowFrame, dispatchVars
  <2>3. \A d \in Commands \ {c} : receipt'[d] = receipt[d]
    BY <2>1 DEF RowFrame
  <2> QED BY <1>1, <1>2, <2>1, <2>2, <2>3 DEF PlanOf
<1>8. CASE OtherFrame
  <2>1. /\ worker' = worker /\ receipt' = receipt /\ command' = command
        /\ order' \in [Commands -> Order]
        /\ \A c \in Commands : /\ order[c].filled <= order'[c].filled
                               /\ order[c].value <= order'[c].value
    BY <1>8 DEF OtherFrame
  <2>2. \A c \in Commands : /\ order[c].filled \in Nat /\ order[c].value \in Nat
                            /\ order'[c].filled \in Nat /\ order'[c].value \in Nat
                            /\ receipt[c].filled \in Nat /\ receipt[c].value \in Nat
    BY <1>3, <2>1 DEF Order, Receipt
  <2>3. \A w \in Workers : worker[w].evidence.filled \in Nat /\ worker[w].evidence.value \in Nat
    BY <1>3 DEF Worker, Order
  <2>4. \A c \in Commands : Demo(c) => receipt[c].filled <= order'[c].filled
                                       /\ receipt[c].value <= order'[c].value
    BY <1>1, <2>1, <2>2
  <2>5. \A w \in Workers : worker[w].pc # "idle" =>
           /\ worker[w].evidence.filled <= order'[worker[w].cmd].filled
           /\ worker[w].evidence.value <= order'[worker[w].cmd].value
    BY <1>2, <2>1, <2>2, <2>3
  <2> QED BY <2>1, <2>4, <2>5
<1> QED BY <1>5, <1>6, <1>7, <1>8, StepKinds

(* Concurrent reconciliations, with old evidence or the same evidence      *)
(* twice, never record more than the venue filled.                         *)
THEOREM FillsReal == Spec => []NoInventedFills
<1>1. Spec => []TypeInv
  BY TypeCorrect
<1>2. Spec => []FillsInv
  BY <1>1, FillsInit, FillsStep, PTL DEF Spec
<1>3. FillsInv => NoInventedFills
  BY DEF FillsInv
<1> QED BY <1>2, <1>3, PTL

============================================================================
