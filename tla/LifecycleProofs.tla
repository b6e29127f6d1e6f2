--------------------------- MODULE LifecycleProofs ---------------------------
(***************************************************************************)
(* The life of a demo command when one worker runs at a time: what is      *)
(* PROVEN_UNSENT was not sent, a reservation is released only when the     *)
(* venue is done with the order, and the account carries one demo entry at *)
(* a time.  For every number of commands, plans, crashes, kills and days.  *)
(***************************************************************************)
EXTENDS LedgerProofs

(* What the worker lock is meant to give.  With two workers all three      *)
(* properties fail: lease_effect can record as PROVEN_UNSENT what the      *)
(* other worker is about to send.                                          *)
OneWorker == \A v, w \in Workers : v = w

----------------------------------------------------------------------------
(* The inductive invariant. *)
Released(c) == ledger.reservation[c].state = "RELEASED"

Undispatched == {"CREATED", "DISPATCH_AUTHORIZED"}

(* An order exists only after a POST, which only demo commands have, and   *)
(* only an order that has ended with fills is closed.                      *)
OrderSound(c) ==
    /\ posts[c] = 0 => order[c].status = "none"
    /\ posts[c] > 0 => GovernedDemo(c)
    /\ order[c].status \in {"none", "rejected"} => order[c].filled = 0
    /\ order[c].exited => order[c].status \in {"filled", "cancelled"} /\ order[c].filled > 0

(* The reservation is that of the command's plan; it is held until the     *)
(* command is dispatched, and while the venue may have more fills.         *)
Held(c) ==
    /\ Allowed(c) => ledger.reservation[c].plan = PlanOf(c)
    /\ GovernedDemo(c) /\ effect[c].state \in Undispatched => ~Released(c)
    /\ order[c].status = "open" \/ order[c].filled > receipt[c].filled => ~Released(c)

(* A proof of "unsent" is true, and a resolution belongs to a closed       *)
(* position.                                                               *)
Sound(c) ==
    /\ effect[c].state = "PROVEN_UNSENT" => posts[c] = 0
    /\ c \in resolved => order[c].exited /\ Released(c)

Life(c) == OrderSound(c) /\ Held(c) /\ Sound(c)

(* The evidence of an order that has ended is still true. *)
Settled(evidence, o) ==
    /\ evidence.status # "none"
    /\ evidence.status # "open" => o.status = evidence.status /\ o.filled = evidence.filled

(* What the position of a worker says about the rows of its command.  A    *)
(* second worker could change them.                                        *)
RunMatches(x) ==
    LET c == x.cmd IN
    /\ x.pc = "dispatch" => effect[c].state = "CREATED"
    /\ x.pc \in {"preflight", "gated"} => effect[c].state = "SEND_AMBIGUOUS" /\ ~Released(c)
    /\ x.pc = "rejected" => order[c].status = "none"
    /\ x.pc \in {"apply", "exit"} => Settled(x.evidence, order[c])
    /\ x.pc = "exit" => x.evidence.filled <= receipt[c].filled

(* A command that no longer keeps the demo gate closed. *)
Over(c) == c \in resolved \/ (Released(c) /\ receipt[c].filled = 0)

OneOpen ==
    \A c, d \in Commands :
       GovernedDemo(c) /\ GovernedDemo(d) /\ ~Over(c) /\ ~Over(d) => c = d

LifeInv ==
    /\ \A c \in Commands : Life(c)
    /\ \A w \in Workers : RunMatches(worker[w])
    /\ OneOpen

(* The invariants that are known already. *)
Known == TypeInv /\ LedgerInv /\ SendAuthorityUnique /\ FillsInv

----------------------------------------------------------------------------
(* The reservation rows in a ledger operation on command c: the other rows *)
(* stay, c keeps its plan, and what is released stays released.            *)
HeldRows(m, l, c) ==
    /\ \A d \in Commands \ {c} : m.reservation[d] = l.reservation[d]
    /\ m.reservation[c].plan = l.reservation[c].plan
    /\ l.reservation[c].state = "RELEASED" => m.reservation[c].state = "RELEASED"

LEMMA ConvertHolds ==
    ASSUME NEW l, LedgerOK(l), NEW c \in Commands, NEW value \in Nat
    PROVE  LET m == ConvertForFill(l, c, value)
           IN  /\ HeldRows(m, l, c)
               /\ m.reservation[c].state = "RELEASED" => l.reservation[c].state = "RELEASED"
<1>1. l.reservation \in [Commands -> Reservation]
  BY DEF LedgerOK
<1>2. PICK r \in Reservation : r = l.reservation[c]
  BY <1>1
<1>3. PICK s, n : s = (IF r.state = "RELEASED" THEN r.state ELSE "PARTIALLY_RELEASED")
                  /\ n = r.remaining - Smaller(value, r.remaining)
  OBVIOUS
<1>4. PICK x : x = [r EXCEPT !.state = s, !.remaining = n, !.converted = 1]
  OBVIOUS
<1>5. ConvertForFill(l, c, value).reservation = [l.reservation EXCEPT ![c] = x]
  BY <1>2, <1>3, <1>4 DEF ConvertForFill
<1>6. x.plan = r.plan /\ x.state = s
  BY <1>4 DEF Reservation
<1> QED BY <1>1, <1>2, <1>3, <1>5, <1>6 DEF HeldRows

LEMMA ReleaseUnusedHolds ==
    ASSUME NEW l, LedgerOK(l), NEW c \in Commands
    PROVE  HeldRows(ReleaseUnused(l, c), l, c)
<1>1. l.reservation \in [Commands -> Reservation]
  BY DEF LedgerOK
<1>2. PICK r \in Reservation : r = l.reservation[c]
  BY <1>1
<1>3. CASE r.remaining = 0
  BY <1>2, <1>3 DEF ReleaseUnused, HeldRows
<1>4. CASE r.remaining # 0
  <2>1. PICK x : x = [r EXCEPT !.state = "RELEASED", !.remaining = 0]
    OBVIOUS
  <2>2. ReleaseUnused(l, c).reservation = [l.reservation EXCEPT ![c] = x]
    BY <1>2, <1>4, <2>1 DEF ReleaseUnused
  <2>3. x.plan = r.plan /\ x.state = "RELEASED"
    BY <2>1 DEF Reservation
  <2> QED BY <1>1, <1>2, <2>2, <2>3 DEF HeldRows
<1> QED BY <1>3, <1>4

LEMMA ReleaseExitHolds ==
    ASSUME NEW l, LedgerOK(l), NEW c \in Commands, NEW exposure
    PROVE  LET m == ReleaseExit(l, c, exposure)
           IN  HeldRows(m, l, c) /\ m.reservation[c].state = "RELEASED"
<1>1. l.reservation \in [Commands -> Reservation]
  BY DEF LedgerOK
<1>2. PICK r \in Reservation : r = l.reservation[c]
  BY <1>1
<1>3. PICK x : x = [r EXCEPT !.state = "RELEASED", !.remaining = 0]
  OBVIOUS
<1>4. ReleaseExit(l, c, exposure).reservation = [l.reservation EXCEPT ![c] = x]
  BY <1>2, <1>3 DEF ReleaseExit
<1>5. x.plan = r.plan /\ x.state = "RELEASED"
  BY <1>3 DEF Reservation
<1> QED BY <1>1, <1>2, <1>4, <1>5 DEF HeldRows

(* A roll releases the orphans and leaves the other rows alone. *)
LEMMA RollHolds ==
    ASSUME NEW l, LedgerOK(l), NEW orphans
    PROVE  LET m == Roll(l, orphans)
           IN  \A d \in Commands : /\ m.reservation[d].plan = l.reservation[d].plan
                                   /\ d \notin orphans => m.reservation[d] = l.reservation[d]
<1>1. l.reservation \in [Commands -> Reservation]
  BY DEF LedgerOK
<1>2. CASE l.account.day = today
  BY <1>2 DEF Roll
<1>3. CASE l.account.day # today
  <2>1. Roll(l, orphans).reservation =
          [c \in Commands |-> IF c \in orphans
                              THEN [l.reservation[c] EXCEPT !.state = "RELEASED", !.remaining = 0]
                              ELSE l.reservation[c]]
    BY <1>3 DEF Roll
  <2>2. ASSUME NEW r \in Reservation, NEW x, x = [r EXCEPT !.state = "RELEASED", !.remaining = 0]
        PROVE  x.plan = r.plan
    BY <2>2 DEF Reservation
  <2> QED BY <1>1, <2>1, <2>2
<1> QED BY <1>2, <1>3

----------------------------------------------------------------------------
(* A command whose rows, order and sends a step leaves alone. *)
SameCommand(d) ==
    /\ order'[d] = order[d] /\ posts'[d] = posts[d]
    /\ command'[d] = command[d] /\ effect'[d] = effect[d] /\ receipt'[d] = receipt[d]
    /\ ledger'.reservation[d] = ledger.reservation[d]
    /\ d \in resolved' <=> d \in resolved

LEMMA SameLife ==
    ASSUME NEW d \in Commands, SameCommand(d), Life(d)
    PROVE  Life(d)' /\ (Over(d)' <=> Over(d)) /\ (GovernedDemo(d)' <=> GovernedDemo(d))
BY DEF SameCommand, Life, OrderSound, Held, Sound, Over, Released, GovernedDemo, Allowed, PlanOf

(* A step of worker w on command c keeps the life of c, its own position   *)
(* and what is over, and leaves the other commands alone.                  *)
LifeStep(w, c) ==
    /\ Life(c)'
    /\ Over(c) => Over(c)'
    /\ RunMatches(worker[w])'
    /\ \A d \in Commands \ {c} : SameCommand(d)
    /\ command' = command

LEMMA RollbackLife ==
    ASSUME NEW w, NEW c \in Commands, Life(c), Rollback, UNCHANGED <<order, posts>>,
           RunMatches(worker[w])'
    PROVE  LifeStep(w, c)
<1>1. /\ \A d \in Commands : SameCommand(d)
      /\ command' = command
  BY DEF Rollback, claimVars, ledgerVars, SameCommand
<1> QED BY <1>1, SameLife DEF LifeStep

(* When a transaction on the rows of c may commit b. *)
Admissible(c, b) ==
    /\ HeldRows(b.ledger, ledger, c)
    /\ b.receipt.filled >= receipt[c].filled
    /\ Released(c) => b.receipt.filled = receipt[c].filled
    /\ b.effect.state \in Undispatched => b.ledger.reservation[c].state # "RELEASED"
    /\ b.effect.state = "PROVEN_UNSENT" => posts[c] = 0
    /\ b.ledger.reservation[c].state = "RELEASED" =>
          \/ Released(c)
          \/ order[c].status # "open" /\ order[c].filled <= b.receipt.filled

LEMMA CommitRows ==
    ASSUME Known, NEW c \in Commands, NEW b, IsRows(b), Commit(c, b), UNCHANGED <<order, posts>>,
           HeldRows(b.ledger, ledger, c)
    PROVE  /\ effect'[c] = b.effect /\ receipt'[c] = b.receipt /\ ledger' = b.ledger
           /\ UNCHANGED <<command, resolved>>
           /\ \A d \in Commands \ {c} : SameCommand(d)
<1>1. /\ effect \in [Commands -> Effect] /\ receipt \in [Commands -> Receipt]
  BY DEF Known, TypeInv, ControlTypeOK, ClaimTypeOK
<1>2. /\ effect' = [effect EXCEPT ![c] = b.effect]
      /\ receipt' = [receipt EXCEPT ![c] = b.receipt]
      /\ ledger' = b.ledger
      /\ UNCHANGED <<command, resolved>>
  BY DEF Commit
<1> QED BY <1>1, <1>2 DEF SameCommand, HeldRows

LEMMA CommitLife ==
    ASSUME Known, NEW w, NEW c \in Commands, Life(c), NEW b, IsRows(b), Commit(c, b),
           UNCHANGED <<order, posts>>, Admissible(c, b), RunMatches(worker[w])'
    PROVE  LifeStep(w, c)
<1>1. /\ effect'[c] = b.effect /\ receipt'[c] = b.receipt /\ ledger' = b.ledger
      /\ UNCHANGED <<command, resolved, order, posts>>
      /\ \A d \in Commands \ {c} : SameCommand(d)
  BY CommitRows DEF Admissible
<1>2. /\ b.receipt.filled \in Nat /\ receipt[c].filled \in Nat /\ order[c].filled \in Nat
  BY DEF IsRows, Receipt, Known, TypeInv, ControlTypeOK, ClaimTypeOK, DispatchTypeOK, Order
<1>3. OrderSound(c)'
  BY <1>1 DEF Life, OrderSound, GovernedDemo, Allowed, PlanOf
<1>4. Held(c)'
  BY <1>1, <1>2 DEF Life, Held, Admissible, HeldRows, Released, GovernedDemo, Allowed, PlanOf
<1>5. Sound(c)'
  BY <1>1 DEF Life, Sound, Admissible, HeldRows, Released
<1>6. Over(c) => Over(c)'
  BY <1>1 DEF Over, Admissible, HeldRows, Released
<1> QED BY <1>1, <1>3, <1>4, <1>5, <1>6 DEF LifeStep, Life

(* A worker that is idle, or only about to look the order up, promises     *)
(* nothing.                                                                *)
LEMMA RestingMatches ==
    ASSUME NEW w, worker'[w].pc \in {"idle", "lookup", "accepted", "authorized", "recover"}
    PROVE  RunMatches(worker[w])'
BY DEF RunMatches

LEMMA IdleMatches ==
    ASSUME TypeInv, NEW w \in Workers, GoIdle(w)
    PROVE  RunMatches(worker[w])'
<1>1. worker'[w].pc = "idle"
  BY DEF GoIdle, IdleWorker, TypeInv, ControlTypeOK, DispatchTypeOK
<1> QED BY <1>1, RestingMatches

LEMMA ReconcileMatches ==
    ASSUME TypeInv, NEW w \in Workers, NEW c, NEW view, GoReconcile(w, c, view)
    PROVE  RunMatches(worker[w])'
<1>1. worker'[w].pc \in {"idle", "lookup"}
  BY DEF GoReconcile, IdleWorker, TypeInv, ControlTypeOK, DispatchTypeOK
<1> QED BY <1>1, RestingMatches

LEMMA GoToMatches ==
    ASSUME TypeInv, NEW w \in Workers, NEW pc, NEW fence, NEW view, GoTo(w, pc, fence, view)
    PROVE  /\ worker'[w].pc = pc /\ worker'[w].cmd = worker[w].cmd
           /\ worker'[w].evidence = worker[w].evidence
<1>1. worker \in [Workers -> Worker]
  BY DEF TypeInv, ControlTypeOK, DispatchTypeOK
<1>2. PICK x \in Worker : x = worker[w]
  BY <1>1
<1>3. PICK y : y = [x EXCEPT !.pc = pc, !.fence = fence, !.view = view]
  OBVIOUS
<1>4. y.pc = pc /\ y.cmd = x.cmd /\ y.evidence = x.evidence
  BY <1>3 DEF Worker
<1>5. worker'[w] = y
  BY <1>1, <1>2, <1>3 DEF GoTo
<1> QED BY <1>2, <1>4, <1>5

----------------------------------------------------------------------------
(* What the invariant says of the command a worker is busy with. *)
Busy(w, c) ==
    /\ c = worker[w].cmd
    /\ c \in Commands
    /\ GovernedDemo(c)
    /\ Life(c)
    /\ RunMatches(worker[w])
    /\ IsRows(Rows(c)) /\ Rows(c).effect = effect[c] /\ Rows(c).receipt = receipt[c]
    /\ Rows(c).ledger = ledger
    /\ LedgerOK(ledger) /\ ledger.reservation[c].state # "NONE"
    /\ effect[c] \in Effect /\ receipt[c] \in Receipt /\ order[c] \in Order
    /\ posts[c] \in Nat
    /\ posts[c] > 0 => effect[c].state \in ConsumedState
    /\ receipt[c].filled <= order[c].filled
    /\ worker[w].view \in View /\ worker[w].evidence \in Order
    /\ worker[w].evidence.filled <= order[c].filled

LEMMA BusyFacts ==
    ASSUME Known, LifeInv, NEW w \in Workers, worker[w].pc # "idle"
    PROVE  Busy(w, worker[w].cmd)
<1> DEFINE c == worker[w].cmd
<1>1. c \in Commands /\ worker[w].view \in View /\ worker[w].evidence \in Order
  BY BusyWorker DEF Known
<1>2. GovernedDemo(c) /\ LedgerOK(ledger) /\ ledger.reservation[c].state # "NONE"
  BY <1>1 DEF Known, LedgerInv, DemoOnly, ReservedIfAllowed, GovernedDemo
<1>3. /\ IsRows(Rows(c)) /\ Rows(c).effect = effect[c] /\ Rows(c).receipt = receipt[c]
      /\ Rows(c).ledger = ledger
  BY <1>1, RowsType DEF Known
<1>4. /\ effect[c] \in Effect /\ receipt[c] \in Receipt /\ order[c] \in Order
      /\ posts[c] \in Nat
  BY <1>1 DEF Known, TypeInv, ControlTypeOK, ClaimTypeOK, DispatchTypeOK
<1>5. posts[c] > 0 => effect[c].state \in ConsumedState
  BY <1>1 DEF Known, SendAuthorityUnique, Consumed, ConsumedState
<1>6. receipt[c].filled <= order[c].filled /\ worker[w].evidence.filled <= order[c].filled
  BY <1>1, <1>2 DEF Known, FillsInv, NoInventedFills, EvidenceOld
<1>7. Life(c) /\ RunMatches(worker[w])
  BY <1>1 DEF LifeInv
<1> QED BY <1>1, <1>2, <1>3, <1>4, <1>5, <1>6, <1>7 DEF Busy

(* Nothing was posted for a command that is not consumed, and so there is  *)
(* no order.                                                               *)
LEMMA UnconsumedUnsent ==
    ASSUME NEW w, NEW c, Busy(w, c), effect[c].state \notin ConsumedState
    PROVE  posts[c] = 0 /\ order[c].status = "none" /\ order[c].filled = 0
BY DEF Busy, Life, OrderSound

(* Rows with the same ledger and the same fills, whose effect is consumed, *)
(* are admissible: PROVEN_UNSENT only for what is not sent.                *)
LEMMA QuietAdmissible ==
    ASSUME NEW w, NEW c, Busy(w, c), NEW b, IsRows(b), b.ledger = ledger,
           b.receipt.filled = receipt[c].filled,
           b.effect.state = effect[c].state
              \/ b.effect.state \in {"SEND_AMBIGUOUS", "SEND_ATTEMPTED"}
    PROVE  Admissible(c, b)
<1>1. receipt[c].filled >= receipt[c].filled
  BY DEF Busy, Receipt
<1>2. HeldRows(b.ledger, ledger, c)
  BY DEF HeldRows
<1> QED BY <1>1, <1>2 DEF Admissible, Busy, Life, Held, Sound, Released, Undispatched

LEMMA StartLife ==
    ASSUME Known, LifeInv, NEW w \in Workers, NEW c \in Commands,
           StartProcess(w, c) \/ StartReconcile(w, c)
    PROVE  LifeStep(w, c)
<1>1. Life(c) /\ Rollback /\ UNCHANGED <<order, posts>> /\ TypeInv
  BY DEF LifeInv, StartProcess, StartReconcile, Known
<1>2. RunMatches(worker[w])'
  <2>1. CASE GoReconcile(w, c, ViewOf(effect[c]))
    BY <1>1, <2>1, ReconcileMatches
  <2>2. CASE StartProcess(w, c) /\ ~GoReconcile(w, c, ViewOf(effect[c]))
    <3>1. PICK pc \in {"dispatch", "recover"} :
            /\ worker' = [worker EXCEPT ![w] = [IdleWorker EXCEPT
                             !.pc = pc, !.cmd = c, !.view = ViewOf(effect[c])]]
            /\ pc = "dispatch" => effect[c].state = "CREATED"
      BY <2>2 DEF StartProcess, Dispatchable
    <3>2. PICK x : x = [IdleWorker EXCEPT !.pc = pc, !.cmd = c, !.view = ViewOf(effect[c])]
      OBVIOUS
    <3>3. x.pc = pc /\ x.cmd = c
      BY <3>2, IdleWorkerType DEF Worker
    <3>4. worker'[w] = x
      BY <1>1, <3>1, <3>2 DEF TypeInv, ControlTypeOK, DispatchTypeOK
    <3>5. effect' = effect
      BY <1>1 DEF Rollback, claimVars
    <3> QED BY <3>1, <3>3, <3>4, <3>5 DEF RunMatches
  <2> QED BY <2>1, <2>2 DEF StartReconcile
<1> QED BY <1>1, <1>2, RollbackLife

LEMMA LeaseLife ==
    ASSUME Known, LifeInv, NEW w \in Workers, NEW c \in Commands, c = worker[w].cmd,
           LeaseAndAuthorize(w)
    PROVE  LifeStep(w, c)
<1>1. c = worker[w].cmd
  OBVIOUS
<1>2. /\ worker[w].pc = "dispatch" /\ UNCHANGED <<order, posts>> /\ TypeInv
  BY DEF LeaseAndAuthorize, Known
<1>3. Busy(w, c) /\ c \in Commands /\ Life(c)
  BY <1>1, <1>2, BusyFacts DEF Busy
<1>4. effect[c].state = "CREATED"
  BY <1>1, <1>2, <1>3 DEF Busy, RunMatches
<1>5. posts[c] = 0 /\ order[c].status = "none" /\ order[c].filled = 0
  BY <1>3, <1>4, UnconsumedUnsent DEF ConsumedState
<1>6. CASE Commit(c, BlockBeforeDispatch(Rows(c), c)) /\ GoIdle(w)
  <2>1. PICK b : b = BlockBeforeDispatch(Rows(c), c)
    OBVIOUS
  <2>2. IsRows(b) /\ b.receipt.filled = receipt[c].filled
    BY <1>3, <2>1, BlockBeforeDispatchRows DEF Busy, SameFills
  <2>3. CASE b = Rows(c)
    <3>1. Admissible(c, b)
      BY <1>3, <2>2, <2>3, QuietAdmissible DEF Busy
    <3> QED BY <1>1, <1>2, <1>3, <1>6, <2>1, <2>2, <3>1, IdleMatches, CommitLife
  <2>4. CASE b # Rows(c)
    <3>1. b.ledger = ReleaseUnused(ledger, c) /\ b.effect.state = "PROVEN_UNSENT"
      <4>1. PICK e \in Effect : e = Rows(c).effect
        BY <1>3 DEF Busy
      <4>2. PICK f : f = [e EXCEPT !.state = "PROVEN_UNSENT", !.owned = FALSE,
                                   !.uncertain = FALSE, !.disposition = "PROVEN_UNSENT"]
        OBVIOUS
      <4>3. f.state = "PROVEN_UNSENT"
        BY <4>2 DEF Effect
      <4>4. b.effect = f /\ b.ledger = ReleaseUnused(Rows(c).ledger, c)
        BY <2>1, <2>4, <4>1, <4>2 DEF BlockBeforeDispatch
      <4> QED BY <1>3, <4>3, <4>4 DEF Busy
    <3>2. HeldRows(b.ledger, ledger, c)
      BY <1>3, <3>1, ReleaseUnusedHolds DEF Busy
    <3>3. receipt[c].filled \in Nat
      BY <1>3 DEF Busy, Receipt
    <3>4. Admissible(c, b)
      BY <1>5, <2>2, <3>1, <3>2, <3>3 DEF Admissible, Undispatched
    <3> QED BY <1>1, <1>2, <1>3, <1>6, <2>1, <2>2, <3>4, IdleMatches, CommitLife
  <2> QED BY <2>3, <2>4
<1>7. ASSUME NEW leased,
             leased = [effect[c] EXCEPT !.owned = TRUE, !.fence = @ + 1,
                                        !.state = "DISPATCH_AUTHORIZED",
                                        !.dispatchFence = effect[c].fence + 1],
             Commit(c, [Rows(c) EXCEPT !.effect = leased]),
             GoTo(w, "authorized", leased.fence, ViewOf(leased))
      PROVE  LifeStep(w, c)
  <2>1. leased \in Effect /\ leased.state = "DISPATCH_AUTHORIZED"
    <3>1. effect[c] \in Effect
      BY <1>3 DEF Busy
    <3>2. leased \in Effect
      BY <1>7, <3>1, LeasedType
    <3>3. leased.state = "DISPATCH_AUTHORIZED"
      BY <1>7, <3>1 DEF Effect
    <3> QED BY <3>2, <3>3
  <2>2. PICK b : b = [Rows(c) EXCEPT !.effect = leased]
    OBVIOUS
  <2>3. IsRows(b) /\ b.ledger = ledger /\ b.receipt = receipt[c] /\ b.effect = leased
    BY <1>3, <2>1, <2>2 DEF Busy, IsRows, Rows
  <2>4. ~Released(c)
    BY <1>3, <1>4 DEF Busy, Life, Held, Undispatched
  <2>5. HeldRows(b.ledger, ledger, c) /\ receipt[c].filled \in Nat
    BY <1>3, <2>3 DEF HeldRows, Busy, Receipt
  <2>6. Admissible(c, b)
    BY <2>1, <2>3, <2>4, <2>5 DEF Admissible, Released
  <2>7. RunMatches(worker[w])'
    BY <1>2, <1>7, GoToMatches, RestingMatches
  <2> QED BY <1>2, <1>3, <1>7, <2>2, <2>3, <2>6, <2>7, CommitLife
<1>8. CASE Rollback /\ RunMatches(worker[w])'
  BY <1>1, <1>2, <1>3, <1>8, RollbackLife
<1>9. CASE Rollback /\ (GoIdle(w) \/ GoTo(w, "authorized", effect[c].fence, ViewOf(effect[c])))
  BY <1>2, <1>8, <1>9, IdleMatches, GoToMatches, RestingMatches
<1> QED BY <1>1, <1>6, <1>7, <1>9 DEF LeaseAndAuthorize

(* The consuming marker, and recovery, which writes the same rows. *)
LEMMA ConsumeLife ==
    ASSUME Known, LifeInv, NEW w \in Workers, NEW c \in Commands, c = worker[w].cmd,
           Consume(w) \/ Recover(w)
    PROVE  LifeStep(w, c)
<1>1. c = worker[w].cmd
  OBVIOUS
<1>2. /\ worker[w].pc # "idle" /\ UNCHANGED <<order, posts>> /\ TypeInv
  BY DEF Consume, Recover, Known
<1>3. Busy(w, c) /\ c \in Commands /\ Life(c)
  BY <1>1, <1>2, BusyFacts DEF Busy
<1>4. CASE Rollback /\ GoIdle(w)
  BY <1>1, <1>2, <1>3, <1>4, IdleMatches, RollbackLife
<1>5. PICK b : b = MarkAmbiguous(Rows(c))
  OBVIOUS
<1>6. /\ IsRows(b) /\ b.ledger = ledger /\ b.receipt.filled = receipt[c].filled
      /\ b.effect.state = "SEND_AMBIGUOUS"
  <2>1. IsRows(b) /\ b.receipt.filled = receipt[c].filled
    BY <1>3, <1>5, MarkAmbiguousRows DEF Busy, SameFills
  <2>2. PICK e \in Effect : e = Rows(c).effect
    BY <1>3 DEF Busy
  <2>3. PICK f : f = [e EXCEPT !.state = "SEND_AMBIGUOUS", !.uncertain = TRUE,
                               !.disposition = "AMBIGUOUS"]
    OBVIOUS
  <2>4. f.state = "SEND_AMBIGUOUS"
    BY <2>3 DEF Effect
  <2>5. b.effect = f /\ b.ledger = Rows(c).ledger
    BY <1>5, <2>2, <2>3 DEF MarkAmbiguous
  <2> QED BY <1>3, <2>1, <2>4, <2>5 DEF Busy
<1>7. Admissible(c, b)
  BY <1>3, <1>6, QuietAdmissible
<1>8. ASSUME Commit(c, b), RunMatches(worker[w])'
      PROVE  LifeStep(w, c)
  BY <1>2, <1>3, <1>6, <1>7, <1>8, CommitLife
<1>9. CASE Commit(c, b) /\ GoReconcile(w, c, ViewOf(b.effect))
  BY <1>1, <1>2, <1>8, <1>9, ReconcileMatches
<1>10. CASE /\ HoldsAuthority(w) /\ Commit(c, b)
            /\ GoTo(w, "preflight", worker[w].fence, ViewOf(b.effect))
  <2>1. worker'[w].pc = "preflight" /\ worker'[w].cmd = c
    BY <1>1, <1>2, <1>10, GoToMatches
  <2>2. ~Released(c)
    BY <1>1, <1>3, <1>10 DEF HoldsAuthority, Busy, Life, Held, Undispatched
  <2>3. effect'[c].state = "SEND_AMBIGUOUS" /\ ledger' = ledger
    BY <1>2, <1>3, <1>6, <1>7, <1>10, CommitRows DEF Admissible
  <2>4. RunMatches(worker[w])'
    BY <2>1, <2>2, <2>3 DEF RunMatches, Released
  <2> QED BY <1>1, <1>8, <1>10, <2>4
<1>11. CASE Consume(w)
  BY <1>1, <1>4, <1>5, <1>9, <1>10, <1>11 DEF Consume
<1>12. CASE Recover(w)
  BY <1>1, <1>5, <1>9, <1>12 DEF Recover
<1> QED BY <1>11, <1>12

(* Steps that change the worker only. *)
LEMMA GateLife ==
    ASSUME Known, LifeInv, NEW w \in Workers, NEW c \in Commands, c = worker[w].cmd,
           PreflightRefuses(w) \/ FinalGate(w) \/ Lookup(w) \/ Crash(w)
    PROVE  LifeStep(w, c)
<1>1. c = worker[w].cmd
  OBVIOUS
<1>2. /\ worker[w].pc # "idle" /\ UNCHANGED <<order, posts>> /\ TypeInv /\ Rollback
  BY DEF PreflightRefuses, FinalGate, Lookup, Crash, Known
<1>3. Busy(w, c) /\ c \in Commands /\ Life(c)
  BY <1>1, <1>2, BusyFacts DEF Busy
<1>4. UNCHANGED <<effect, receipt, ledger, order>>
  BY <1>2 DEF Rollback, claimVars, ledgerVars
<1>5. RunMatches(worker[w])'
  <2>1. CASE \E view : GoReconcile(w, c, view)
    BY <1>2, <2>1, ReconcileMatches
  <2>2. CASE GoIdle(w)
    BY <1>2, <2>2, IdleMatches
  <2>3. CASE worker[w].pc = "preflight" /\ GoTo(w, "gated", worker[w].fence, ViewOf(effect[c]))
    <3>1. worker'[w].pc = "gated" /\ worker'[w].cmd = c
      BY <1>1, <1>2, <2>3, GoToMatches
    <3>2. effect[c].state = "SEND_AMBIGUOUS" /\ ~Released(c)
      BY <1>1, <1>3, <2>3 DEF Busy, RunMatches
    <3> QED BY <1>4, <3>1, <3>2 DEF RunMatches, Released
  <2>4. CASE Lookup(w)
    <3>1. worker \in [Workers -> Worker]
      BY <1>2 DEF TypeInv, ControlTypeOK, DispatchTypeOK
    <3>2. PICK x \in Worker : x = worker[w]
      BY <3>1
    <3>3. PICK y : y = [x EXCEPT !.pc = "apply", !.evidence = order[c]]
      OBVIOUS
    <3>4. y.pc = "apply" /\ y.cmd = c /\ y.evidence = order[c]
      BY <1>1, <3>2, <3>3 DEF Worker
    <3>5. worker'[w] = IF order[c].status = "none" THEN IdleWorker ELSE y
      BY <1>1, <2>4, <3>1, <3>2, <3>3 DEF Lookup
    <3>6. CASE order[c].status = "none"
      BY <3>5, <3>6, RestingMatches DEF IdleWorker
    <3>7. CASE order[c].status # "none"
      BY <1>4, <3>4, <3>5, <3>7 DEF RunMatches, Settled
    <3> QED BY <3>6, <3>7
  <2> QED BY <1>1, <2>1, <2>2, <2>3, <2>4 DEF PreflightRefuses, FinalGate, Crash
<1> QED BY <1>1, <1>2, <1>3, <1>5, RollbackLife

(* The POST: an order may come to exist, for a reservation that is held. *)
LEMMA PostLife ==
    ASSUME Known, LifeInv, NEW w \in Workers, NEW c \in Commands, c = worker[w].cmd,
           Post(w)
    PROVE  LifeStep(w, c)
<1>1. c = worker[w].cmd
  OBVIOUS
<1>2. /\ worker[w].pc = "gated" /\ TypeInv /\ Rollback
  BY DEF Post, Known
<1>3. Busy(w, c) /\ c \in Commands /\ Life(c)
  BY <1>1, <1>2, BusyFacts DEF Busy
<1>4. /\ effect[c].state = "SEND_AMBIGUOUS" /\ ~Released(c) /\ posts[c] = 0
  BY <1>1, <1>2, <1>3 DEF Busy, RunMatches, Known, SendAuthorityUnique, Sending
<1>5. /\ order[c].status = "none" /\ order[c].filled = 0 /\ ~order[c].exited
  BY <1>3, <1>4 DEF Life, OrderSound
<1>6. c \notin resolved /\ ~Over(c)
  BY <1>3, <1>4, <1>5 DEF Life, Sound, Over
<1>7. UNCHANGED <<command, effect, receipt, ledger, resolved>>
  BY <1>2 DEF Rollback, claimVars, ledgerVars
<1>8. /\ order \in [Commands -> Order] /\ posts \in [Commands -> Nat]
  BY <1>2 DEF TypeInv, ControlTypeOK, DispatchTypeOK
<1>9. CASE UNCHANGED <<order, posts>> /\ GoReconcile(w, c, worker[w].view)
  BY <1>1, <1>2, <1>3, <1>9, ReconcileMatches, RollbackLife
<1>10. ASSUME posts' = [posts EXCEPT ![c] = @ + 1], RunMatches(worker[w])',
              \/ order' = order
              \/ order' = [order EXCEPT ![c].status = IF @ = "none" THEN "open" ELSE @]
       PROVE  LifeStep(w, c)
  <2>1. /\ posts'[c] = 1 /\ \A d \in Commands \ {c} : posts'[d] = posts[d]
    BY <1>3, <1>4, <1>8, <1>10
  <2>2. /\ order'[c].status \in {"none", "open"} /\ order'[c].filled = 0 /\ ~order'[c].exited
        /\ \A d \in Commands \ {c} : order'[d] = order[d]
    <3>1. CASE order' = order
      BY <1>5, <3>1
    <3>2. CASE order' # order
      <4>1. PICK o \in Order : o = order[c]
        BY <1>3, <1>8
      <4>2. PICK y : y = [o EXCEPT !.status = "open"]
        OBVIOUS
      <4>3. y.status = "open" /\ y.filled = o.filled /\ y.exited = o.exited
        BY <4>2 DEF Order
      <4>4. order' = [order EXCEPT ![c] = y]
        BY <1>5, <1>10, <3>2, <4>1, <4>2
      <4> QED BY <1>3, <1>5, <1>8, <4>1, <4>3, <4>4
    <3> QED BY <3>1, <3>2
  <2>3. GovernedDemo(c)' /\ (Allowed(c)' => ledger'.reservation[c].plan = PlanOf(c)')
    BY <1>3, <1>7 DEF Busy, GovernedDemo, Allowed, PlanOf, Life, Held
  <2>4. OrderSound(c)'
    BY <2>1, <2>2, <2>3 DEF OrderSound
  <2>5. ~Released(c)' /\ effect'[c].state = "SEND_AMBIGUOUS" /\ c \notin resolved'
    BY <1>4, <1>6, <1>7 DEF Released
  <2>6. Held(c)' /\ Sound(c)'
    BY <2>3, <2>5 DEF Held, Sound
  <2>7. \A d \in Commands \ {c} : SameCommand(d)
    BY <1>7, <2>1, <2>2 DEF SameCommand
  <2> QED BY <1>6, <1>7, <1>10, <2>4, <2>6, <2>7 DEF LifeStep, Life
<1>11. CASE posts' = [posts EXCEPT ![c] = @ + 1]
            /\ order' = [order EXCEPT ![c].status = IF @ = "none" THEN "open" ELSE @]
            /\ (GoTo(w, "accepted", worker[w].fence, worker[w].view)
                  \/ GoReconcile(w, c, worker[w].view))
  BY <1>1, <1>2, <1>10, <1>11, ReconcileMatches, GoToMatches, RestingMatches
<1>12. CASE posts' = [posts EXCEPT ![c] = @ + 1] /\ order' = order
            /\ GoReconcile(w, c, worker[w].view)
  BY <1>1, <1>2, <1>10, <1>12, ReconcileMatches
<1>13. CASE posts' = [posts EXCEPT ![c] = @ + 1] /\ order' = order
            /\ GoTo(w, "rejected", worker[w].fence, worker[w].view)
  <2>1. worker'[w].pc = "rejected" /\ worker'[w].cmd = c
    BY <1>1, <1>2, <1>13, GoToMatches
  <2>2. RunMatches(worker[w])'
    BY <1>5, <1>13, <2>1 DEF RunMatches
  <2> QED BY <1>1, <1>10, <1>13, <2>2
<1> QED BY <1>1, <1>9, <1>11, <1>12, <1>13 DEF Post

(* A transaction that records what the venue said: it may release the      *)
(* reservation of an order that has ended, once its fills are recorded.    *)
LEMMA EndAdmissible ==
    ASSUME NEW w, NEW c, Busy(w, c), NEW b, IsRows(b), HeldRows(b.ledger, ledger, c),
           b.receipt.filled >= receipt[c].filled,
           Released(c) => b.receipt.filled = receipt[c].filled,
           b.effect.state \in {effect[c].state, "SEND_ATTEMPTED"},
           b.ledger.reservation[c].state = "RELEASED" /\ ~Released(c) =>
              /\ order[c].status # "open" /\ order[c].filled <= b.receipt.filled
              /\ order[c].status # "none" \/ b.effect.state = "SEND_ATTEMPTED"
    PROVE  Admissible(c, b)
<1>1. order[c].status # "none" => effect[c].state \in ConsumedState
  BY DEF Busy, Life, OrderSound
<1>2. b.effect.state \in Undispatched => b.ledger.reservation[c].state # "RELEASED"
  BY <1>1 DEF Busy, Life, Held, ConsumedState, Undispatched
<1>3. b.effect.state = "PROVEN_UNSENT" => posts[c] = 0
  BY DEF Busy, Life, Sound
<1> QED BY <1>2, <1>3 DEF Admissible

(* The parts of such a transaction.  Evidence of an order that has ended   *)
(* ends the command.                                                       *)
LEMMA MarkAnswerHolds ==
    ASSUME NEW c \in Commands, NEW b, IsRows(b), LedgerOK(b.ledger), NEW view \in View
    PROVE  /\ MarkAcknowledged(b, view).ledger = b.ledger
           /\ MarkAcknowledged(b, view).effect.state = "SEND_ATTEMPTED"
           /\ HeldRows(MarkRejected(b, c, view).ledger, b.ledger, c)
           /\ MarkRejected(b, c, view).effect.state = "SEND_ATTEMPTED"
<1>1. PICK e \in Effect : e = b.effect
  BY DEF IsRows
<1>2. ASSUME NEW u, NEW d
      PROVE  [e EXCEPT !.state = "SEND_ATTEMPTED", !.uncertain = u, !.disposition = d].state
                = "SEND_ATTEMPTED"
  BY DEF Effect
<1>3. MarkAcknowledged(b, view).effect.state = "SEND_ATTEMPTED"
  BY <1>1, <1>2 DEF MarkAcknowledged
<1>4. MarkRejected(b, c, view).effect.state = "SEND_ATTEMPTED"
  BY <1>1, <1>2 DEF MarkRejected
<1>5. HeldRows(MarkRejected(b, c, view).ledger, b.ledger, c)
  BY ReleaseUnusedHolds DEF MarkRejected
<1> QED BY <1>3, <1>4, <1>5 DEF MarkAcknowledged

LEMMA RecordEndHolds ==
    ASSUME NEW c \in Commands, NEW b, IsRows(b), LedgerOK(b.ledger), NEW evidence
    PROVE  LET n == RecordEnd(b, c, evidence)
           IN  /\ HeldRows(n.ledger, b.ledger, c)
               /\ n.ledger.reservation[c].state = "RELEASED" =>
                     \/ b.ledger.reservation[c].state = "RELEASED"
                     \/ evidence.status = "cancelled"
<1>1. \/ RecordEnd(b, c, evidence) = b
      \/ /\ RecordEnd(b, c, evidence).ledger = ReleaseUnused(b.ledger, c)
         /\ evidence.status = "cancelled"
  BY DEF RecordEnd, RecordTerminal
<1>2. HeldRows(b.ledger, b.ledger, c)
  BY DEF HeldRows
<1> QED BY <1>1, <1>2, ReleaseUnusedHolds

LEMMA NewFillsHolds ==
    ASSUME NEW c \in Commands, NEW b, IsRows(b), LedgerOK(b.ledger), NEW evidence \in Order
    PROVE  LET n == RecordNewFills(b, c, evidence)
           IN  /\ HeldRows(n.ledger, b.ledger, c)
               /\ n.ledger.reservation[c].state = "RELEASED" =>
                     b.ledger.reservation[c].state = "RELEASED"
               /\ n.receipt.filled = IF evidence.filled > b.receipt.filled
                                     THEN evidence.filled ELSE b.receipt.filled
<1>1. CASE evidence.filled > b.receipt.filled
  <2>1. PICK v \in Nat : v = Minus(evidence.value, b.receipt.value)
    BY DEF Minus, IsRows, Receipt, Order
  <2>2. RecordNewFills(b, c, evidence).ledger = ConvertForFill(b.ledger, c, v)
    BY <1>1, <2>1 DEF RecordNewFills, ApplyFills
  <2>3. /\ HeldRows(ConvertForFill(b.ledger, c, v), b.ledger, c)
        /\ ConvertForFill(b.ledger, c, v).reservation[c].state = "RELEASED"
              => b.ledger.reservation[c].state = "RELEASED"
    BY ConvertHolds
  <2>4. RecordNewFills(b, c, evidence).receipt.filled = evidence.filled
    <3>1. b.receipt.filled \in Nat /\ evidence.filled \in Nat
      BY DEF IsRows, Receipt, Order
    <3>2. RecordNewFills(b, c, evidence).receipt.filled
             = b.receipt.filled + (evidence.filled - b.receipt.filled)
      BY <1>1 DEF RecordNewFills, ApplyFills
    <3> QED BY <3>1, <3>2
  <2> QED BY <1>1, <2>2, <2>3, <2>4
<1>2. CASE ~(evidence.filled > b.receipt.filled)
  <2>1. RecordNewFills(b, c, evidence) = b
    BY <1>2 DEF RecordNewFills
  <2> QED BY <1>2, <2>1 DEF HeldRows
<1> QED BY <1>1, <1>2

LEMMA HeldCompose ==
    ASSUME NEW c, NEW l, NEW m, NEW n, HeldRows(m, l, c), HeldRows(n, m, c)
    PROVE  HeldRows(n, l, c)
BY DEF HeldRows

LEMMA AnswerLife ==
    ASSUME Known, LifeInv, NEW w \in Workers, NEW c \in Commands, c = worker[w].cmd,
           RecordAnswer(w)
    PROVE  LifeStep(w, c)
<1>1. PICK view : c = worker[w].cmd /\ view = worker[w].view
  OBVIOUS
<1>2. /\ worker[w].pc \in {"accepted", "rejected"} /\ UNCHANGED <<order, posts>> /\ TypeInv
  BY DEF RecordAnswer, Known
<1>3. Busy(w, c) /\ c \in Commands /\ Life(c) /\ view \in View
  BY <1>1, <1>2, BusyFacts DEF Busy
<1>4. IsRows(Rows(c)) /\ LedgerOK(Rows(c).ledger) /\ Rows(c).ledger = ledger
      /\ Rows(c).receipt = receipt[c] /\ receipt[c].filled \in Nat
  BY <1>3 DEF Busy, Receipt
<1>5. ASSUME NEW b, IsRows(b), Admissible(c, b), Commit(c, b),
             GoReconcile(w, c, ViewOf(b.effect))
      PROVE  LifeStep(w, c)
  BY <1>2, <1>3, <1>5, ReconcileMatches, CommitLife
<1>6. CASE worker[w].pc = "accepted"
  <2>1. PICK b : b = MarkAcknowledged(Rows(c), view)
    OBVIOUS
  <2>2. Commit(c, b) /\ GoReconcile(w, c, ViewOf(b.effect))
    BY <1>1, <1>6, <2>1 DEF RecordAnswer
  <2>3. IsRows(b) /\ b.receipt.filled = receipt[c].filled
    BY <1>3, <1>4, <2>1, MarkAcknowledgedRows DEF SameFills
  <2>4. b.ledger = ledger /\ b.effect.state = "SEND_ATTEMPTED"
    BY <1>3, <1>4, <2>1, MarkAnswerHolds
  <2>5. Admissible(c, b)
    BY <1>3, <2>3, <2>4, QuietAdmissible
  <2> QED BY <1>1, <1>5, <2>2, <2>3, <2>5
<1>7. CASE worker[w].pc = "rejected"
  <2>1. PICK b : b = MarkRejected(Rows(c), c, view)
    OBVIOUS
  <2>2. Commit(c, b) /\ GoReconcile(w, c, ViewOf(b.effect))
    BY <1>1, <1>7, <2>1 DEF RecordAnswer
  <2>3. IsRows(b) /\ b.receipt.filled = receipt[c].filled
    BY <1>3, <1>4, <2>1, MarkRejectedRows DEF SameFills
  <2>4. HeldRows(b.ledger, ledger, c) /\ b.effect.state = "SEND_ATTEMPTED"
    BY <1>3, <1>4, <2>1, MarkAnswerHolds
  <2>5. order[c].status = "none" /\ order[c].filled = 0
    BY <1>1, <1>3, <1>7 DEF Busy, RunMatches, Life, OrderSound
  <2>6. Admissible(c, b)
    BY <1>3, <1>4, <2>3, <2>4, <2>5, EndAdmissible
  <2> QED BY <1>1, <1>5, <2>2, <2>3, <2>6
<1> QED BY <1>2, <1>6, <1>7

(* The entry transaction of a reconciliation, and the position of the      *)
(* worker that goes on to look at the exit.                                *)
LEMMA EntryRows ==
    ASSUME NEW w, NEW c, Busy(w, c), NEW view \in View, NEW evidence, evidence = worker[w].evidence,
           Settled(evidence, order[c]),
           ~(Minus(evidence.filled, receipt[c].filled) > receipt[c].remaining),
           NEW entry,
           entry = RecordEnd(RecordNewFills(RecordOrder(Rows(c), view), c, evidence), c, evidence)
    PROVE  IsRows(entry) /\ Admissible(c, entry) /\ evidence.filled <= entry.receipt.filled
<1>1. PICK opened : opened = RecordOrder(Rows(c), view)
  OBVIOUS
<1>2. PICK filled : filled = RecordNewFills(opened, c, evidence)
  OBVIOUS
<1>3. /\ c \in Commands /\ IsRows(Rows(c)) /\ Rows(c).receipt = receipt[c]
      /\ Rows(c).effect = effect[c] /\ Rows(c).ledger = ledger /\ LedgerOK(ledger)
      /\ evidence \in Order /\ evidence.filled \in Nat /\ receipt[c].filled \in Nat
      /\ order[c].filled \in Nat /\ evidence.filled <= order[c].filled
  BY DEF Busy, Order, Receipt
<1>4. /\ IsRows(opened) /\ opened.receipt.filled = receipt[c].filled
      /\ opened.receipt.remaining = receipt[c].remaining
  BY <1>1, <1>3, RecordOrderRows DEF SameFills
<1>5. opened.ledger = ledger /\ opened.effect.state \in {effect[c].state, "SEND_ATTEMPTED"}
  BY <1>1, <1>3, MarkAnswerHolds DEF RecordOrder
<1>6. IsRows(filled) /\ filled.effect = opened.effect
  BY <1>2, <1>3, <1>4, RecordNewFillsRows
<1>7. /\ HeldRows(filled.ledger, ledger, c)
      /\ filled.ledger.reservation[c].state = "RELEASED" => Released(c)
      /\ filled.receipt.filled = IF evidence.filled > receipt[c].filled
                                 THEN evidence.filled ELSE receipt[c].filled
  BY <1>2, <1>3, <1>4, <1>5, NewFillsHolds DEF Released
<1>8. LedgerOK(filled.ledger)
  <2>1. Ready(opened, c)
    BY <1>3, <1>4, <1>5 DEF Ready, Busy
  <2> QED BY <1>2, <1>3, <1>4, <2>1, NewFillsBooks DEF Books
<1>9. IsRows(entry) /\ entry.effect = opened.effect /\ entry.receipt.filled = filled.receipt.filled
  BY <1>1, <1>2, <1>6, RecordEndRows DEF SameFills
<1>10. /\ HeldRows(entry.ledger, filled.ledger, c)
       /\ entry.ledger.reservation[c].state = "RELEASED" =>
             filled.ledger.reservation[c].state = "RELEASED" \/ evidence.status = "cancelled"
  BY <1>1, <1>2, <1>3, <1>6, <1>8, RecordEndHolds
<1>11. HeldRows(entry.ledger, ledger, c)
  BY <1>7, <1>10, HeldCompose
<1>12. Released(c) => ~(evidence.filled > receipt[c].filled)
  BY <1>3 DEF Busy, Life, Held
<1>13. Admissible(c, entry)
  <2>1. /\ entry.receipt.filled >= receipt[c].filled
        /\ Released(c) => entry.receipt.filled = receipt[c].filled
        /\ evidence.filled <= entry.receipt.filled
    BY <1>3, <1>7, <1>9, <1>12
  <2>2. entry.ledger.reservation[c].state = "RELEASED" /\ ~Released(c) =>
          /\ order[c].status = "cancelled" /\ order[c].filled <= entry.receipt.filled
    BY <1>7, <1>10, <2>1 DEF Settled
  <2> QED BY <1>5, <1>9, <1>11, <2>1, <2>2, EndAdmissible
<1> QED BY <1>3, <1>7, <1>9, <1>13

LEMMA EntryLife ==
    ASSUME Known, LifeInv, NEW w \in Workers, NEW c \in Commands, c = worker[w].cmd,
           ReconcileEntry(w)
    PROVE  LifeStep(w, c)
<1>1. PICK view, evidence :
        c = worker[w].cmd /\ view = worker[w].view /\ evidence = worker[w].evidence
  OBVIOUS
<1>2. /\ worker[w].pc = "apply" /\ UNCHANGED <<order, posts>> /\ TypeInv
  BY DEF ReconcileEntry, Known
<1>3. Busy(w, c) /\ c \in Commands /\ Life(c) /\ view \in View /\ Settled(evidence, order[c])
  BY <1>1, <1>2, BusyFacts DEF Busy, RunMatches
<1>4. PICK entry :
        entry = RecordEnd(RecordNewFills(RecordOrder(Rows(c), view), c, evidence), c, evidence)
  OBVIOUS
<1> DEFINE conflict == Minus(evidence.filled, receipt[c].filled) > receipt[c].remaining
<1>5. ~conflict => /\ IsRows(entry) /\ Admissible(c, entry)
                   /\ evidence.filled <= entry.receipt.filled
  BY <1>1, <1>3, <1>4, EntryRows
<1>6. ASSUME NEW b, IsRows(b), Admissible(c, b), Commit(c, b), RunMatches(worker[w])'
      PROVE  LifeStep(w, c)
  BY <1>2, <1>3, <1>6, CommitLife
<1>7. CASE Rollback /\ GoIdle(w)
  BY <1>1, <1>2, <1>3, <1>7, IdleMatches, RollbackLife
<1>8. CASE /\ evidence.status = "rejected" /\ GoIdle(w)
           /\ Commit(c, RecordRejection(Rows(c), c, view))
  <2>1. PICK b : b = RecordRejection(Rows(c), c, view)
    OBVIOUS
  <2>2. /\ IsRows(Rows(c)) /\ LedgerOK(Rows(c).ledger) /\ Rows(c).ledger = ledger
        /\ Rows(c).receipt = receipt[c] /\ receipt[c].filled \in Nat
        /\ Rows(c).effect = effect[c]
    BY <1>3 DEF Busy, Receipt
  <2>3. IsRows(b) /\ b.receipt.filled = receipt[c].filled
    BY <1>3, <2>1, <2>2, RecordRejectionRows DEF SameFills
  <2>4. /\ HeldRows(b.ledger, ledger, c)
        /\ b.effect.state \in {effect[c].state, "SEND_ATTEMPTED"}
    <3>1. CASE b = Rows(c)
      BY <2>2, <3>1 DEF HeldRows
    <3>2. CASE b = MarkRejected(Rows(c), c, view)
      BY <1>3, <2>2, <3>2, MarkAnswerHolds
    <3> QED BY <2>1, <3>1, <3>2 DEF RecordRejection
  <2>5. order[c].status = "rejected" /\ order[c].filled = 0
    BY <1>3, <1>8 DEF Settled, Life, OrderSound
  <2>6. Admissible(c, b)
    BY <1>3, <2>2, <2>3, <2>4, <2>5, EndAdmissible
  <2> QED BY <1>1, <1>2, <1>6, <1>8, <2>1, <2>3, <2>6, IdleMatches
<1>9. CASE ~conflict /\ Commit(c, MarkDisposition(entry, "DEMO_UNFILLED")) /\ GoIdle(w)
  <2>1. PICK b : b = MarkDisposition(entry, "DEMO_UNFILLED")
    OBVIOUS
  <2>2. "DEMO_UNFILLED" \in Dispositions
    BY DEF Dispositions
  <2>3. IsRows(b) /\ b.effect.state = entry.effect.state
    BY <1>5, <1>9, <2>1, <2>2, MarkDispositionRows
  <2>4. b.ledger = entry.ledger /\ b.receipt = entry.receipt
    BY <2>1 DEF MarkDisposition
  <2>5. Admissible(c, b)
    BY <1>5, <1>9, <2>3, <2>4 DEF Admissible
  <2> QED BY <1>1, <1>2, <1>6, <1>9, <2>1, <2>3, <2>5, IdleMatches
<1>10. CASE ~conflict /\ Commit(c, entry) /\ GoTo(w, "exit", 0, ViewOf(entry.effect))
  <2>1. worker'[w].pc = "exit" /\ worker'[w].cmd = c /\ worker'[w].evidence = evidence
    BY <1>1, <1>2, <1>10, GoToMatches
  <2>2. receipt'[c] = entry.receipt /\ order' = order
    BY <1>2, <1>3, <1>5, <1>10, CommitRows DEF Admissible
  <2>3. RunMatches(worker[w])'
    BY <1>3, <1>5, <1>10, <2>1, <2>2 DEF RunMatches, Settled
  <2> QED BY <1>1, <1>5, <1>6, <1>10, <2>3
<1> QED BY <1>1, <1>4, <1>7, <1>8, <1>9, <1>10 DEF ReconcileEntry

(* The second transaction of a reconciliation. *)
LEMMA ExitLife ==
    ASSUME Known, LifeInv, NEW w \in Workers, NEW c \in Commands, c = worker[w].cmd,
           ReconcileExit(w)
    PROVE  LifeStep(w, c)
<1>1. PICK evidence : c = worker[w].cmd /\ evidence = worker[w].evidence
  OBVIOUS
<1>2. /\ worker[w].pc = "exit" /\ UNCHANGED <<order, posts>> /\ TypeInv /\ GoIdle(w)
  BY DEF ReconcileExit, Known
<1>3. /\ Busy(w, c) /\ c \in Commands /\ Life(c) /\ Settled(evidence, order[c])
      /\ evidence.filled <= receipt[c].filled
  BY <1>1, <1>2, BusyFacts DEF Busy, RunMatches
<1>4. RunMatches(worker[w])'
  BY <1>2, IdleMatches
<1>5. CASE Rollback
  BY <1>1, <1>2, <1>3, <1>4, <1>5, RollbackLife
<1>6. ASSUME NEW b, IsRows(b), Admissible(c, b), Commit(c, b)
      PROVE  LifeStep(w, c)
  BY <1>2, <1>3, <1>4, <1>6, CommitLife
<1>7. /\ IsRows(Rows(c)) /\ Rows(c).ledger = ledger /\ LedgerOK(ledger)
      /\ Rows(c).receipt = receipt[c] /\ Rows(c).effect = effect[c]
      /\ receipt[c].filled \in Nat /\ order[c].filled \in Nat
  BY <1>3 DEF Busy, Receipt, Order
<1>8. ASSUME NEW d \in Dispositions
      PROVE  LET m == MarkDisposition(Rows(c), d)
             IN  /\ IsRows(m) /\ m.ledger = ledger /\ m.receipt = receipt[c]
                 /\ m.effect.state = effect[c].state
  <2>1. /\ IsRows(MarkDisposition(Rows(c), d))
        /\ MarkDisposition(Rows(c), d).effect.state = effect[c].state
    BY <1>7, MarkDispositionRows
  <2> QED BY <1>7, <2>1 DEF MarkDisposition
<1>9. CASE \E protected \in BOOLEAN : ExitNotObserved(c, evidence, protected)
  <2>1. PICK protected \in BOOLEAN : ExitNotObserved(c, evidence, protected)
    BY <1>9
  <2>2. CASE c \in resolved
    BY <1>5, <2>1, <2>2 DEF ExitNotObserved
  <2>3. CASE c \notin resolved
    <3>1. PICK d : d = IF protected THEN "DEMO_PROTECTED" ELSE "DEMO_PROTECTION_MISSING"
      OBVIOUS
    <3>2. PICK m : m = MarkDisposition(Rows(c), d)
      OBVIOUS
    <3>3. PICK b : b = RecordEnd(m, c, evidence)
      OBVIOUS
    <3>4. Commit(c, b)
      BY <2>1, <2>3, <3>1, <3>2, <3>3 DEF ExitNotObserved
    <3>5. d \in Dispositions
      BY <3>1 DEF Dispositions
    <3>6. /\ IsRows(m) /\ m.ledger = ledger /\ m.receipt = receipt[c]
          /\ m.effect.state = effect[c].state
      BY <1>8, <3>2, <3>5
    <3>7. /\ IsRows(b) /\ b.effect.state = effect[c].state
          /\ b.receipt.filled = receipt[c].filled
      BY <3>3, <3>6, RecordEndRows DEF SameFills
    <3>8. /\ HeldRows(b.ledger, ledger, c)
          /\ b.ledger.reservation[c].state = "RELEASED" =>
                Released(c) \/ evidence.status = "cancelled"
      <4>1. LedgerOK(m.ledger)
        BY <1>7, <3>6
      <4> QED BY <1>3, <3>3, <3>6, <4>1, RecordEndHolds DEF Released
    <3>9. evidence.status = "cancelled" =>
            order[c].status = "cancelled" /\ order[c].filled <= receipt[c].filled
      BY <1>3 DEF Settled
    <3>10. Admissible(c, b)
      BY <1>3, <1>7, <3>7, <3>8, <3>9, EndAdmissible
    <3> QED BY <1>1, <1>6, <3>4, <3>7, <3>10
  <2> QED BY <2>2, <2>3
<1>10. CASE \E armed \in BOOLEAN : ProfileLiquidationHold(c, armed)
  <2>1. PICK m : m = MarkDisposition(Rows(c), "DEMO_LIQUIDATION_HOLD")
    OBVIOUS
  <2>2. "DEMO_LIQUIDATION_HOLD" \in Dispositions
    BY DEF Dispositions
  <2>3. Commit(c, m)
    BY <1>10, <2>1 DEF ProfileLiquidationHold
  <2>4. /\ IsRows(m) /\ m.ledger = ledger /\ m.receipt = receipt[c]
        /\ m.effect.state = effect[c].state
    BY <1>8, <2>1, <2>2
  <2>5. Admissible(c, m)
    BY <1>3, <2>4, QuietAdmissible
  <2> QED BY <1>1, <1>6, <2>3, <2>4, <2>5
<1>11. CASE order[c].exited /\ ExitResolvable(c, evidence) /\ ResolveExit(c)
  <2>1. /\ effect' = [effect EXCEPT ![c].disposition = "DEMO_CLOSED_RECONCILED"]
        /\ ledger' = ReleaseExit(ledger, c, receipt[c].value)
        /\ resolved' = resolved \cup {c}
        /\ UNCHANGED <<command, receipt>>
    BY <1>11 DEF ResolveExit
  <2>2. effect \in [Commands -> Effect]
    BY <1>2 DEF TypeInv, ControlTypeOK, ClaimTypeOK
  <2>3. effect'[c].state = effect[c].state /\ \A d \in Commands \ {c} : effect'[d] = effect[d]
    BY <1>3, <2>1, <2>2 DEF Effect
  <2>4. HeldRows(ledger', ledger, c) /\ Released(c)'
    BY <1>3, <1>7, <2>1, ReleaseExitHolds, SMTT(30) DEF Released
  <2>5. \A d \in Commands \ {c} : SameCommand(d)
    BY <1>2, <2>1, <2>3, <2>4 DEF SameCommand, HeldRows
  <2>6. /\ order[c].status \in {"filled", "cancelled"} /\ order[c].filled <= receipt[c].filled
        /\ effect[c].state \in ConsumedState /\ posts[c] > 0
    BY <1>3, <1>7, <1>11 DEF Busy, Life, OrderSound, ExitResolvable
  <2>7. OrderSound(c)'
    BY <1>2, <1>3, <2>1 DEF Life, OrderSound, GovernedDemo, Allowed, PlanOf
  <2>8. Held(c)'
    <3>1. Allowed(c)' => ledger'.reservation[c].plan = PlanOf(c)'
      BY <1>3, <2>1, <2>4 DEF Life, Held, HeldRows, Allowed, PlanOf
    <3>2. effect'[c].state \notin Undispatched
      BY <2>3, <2>6 DEF Undispatched, ConsumedState
    <3>3. ~(order'[c].status = "open" \/ order'[c].filled > receipt'[c].filled)
      BY <1>2, <1>7, <2>1, <2>6
    <3> QED BY <3>1, <3>2, <3>3, SMTT(30) DEF Held
  <2>9. Sound(c)'
    BY <1>2, <1>3, <1>11, <2>3, <2>4 DEF Life, Sound
  <2>10. Over(c)'
    BY <2>1 DEF Over
  <2> QED BY <1>1, <1>4, <2>1, <2>5, <2>7, <2>8, <2>9, <2>10 DEF LifeStep, Life
<1>12. CASE ExitObserved(c, evidence)
  BY <1>5, <1>11, <1>12 DEF ExitObserved
<1>13. CASE LineageConflict
  BY <1>5, <1>13 DEF LineageConflict
<1> QED BY <1>1, <1>9, <1>10, <1>12, <1>13 DEF ReconcileExit

----------------------------------------------------------------------------
(* Every worker step is a life step on one command. *)
LEMMA WorkerLife ==
    ASSUME Known, LifeInv, WorkerNext
    PROVE  \E w \in Workers, c \in Commands : LifeStep(w, c)
<1>1. PICK w \in Workers : \/ \E c \in Commands : StartProcess(w, c) \/ StartReconcile(w, c)
                           \/ WorkerStep(w) \/ PreflightRefuses(w) \/ Crash(w)
  BY DEF WorkerNext
<1>2. CASE \E c \in Commands : StartProcess(w, c) \/ StartReconcile(w, c)
  <2>1. PICK c \in Commands : StartProcess(w, c) \/ StartReconcile(w, c)
    BY <1>2
  <2>2. LifeStep(w, c)
    BY <2>1, StartLife
  <2> QED BY <2>2
<1>3. CASE WorkerStep(w) \/ PreflightRefuses(w) \/ Crash(w)
  <2>1. worker[w].pc # "idle"
    BY <1>3, Zenon DEF WorkerStep, LeaseAndAuthorize, Consume, FinalGate, Post, RecordAnswer,
                Recover, Lookup, ReconcileEntry, ReconcileExit, PreflightRefuses, Crash
  <2>2. PICK c \in Commands : c = worker[w].cmd
    BY <2>1, BusyWorker DEF Known
  <2>3. CASE LeaseAndAuthorize(w)
    BY <2>2, <2>3, LeaseLife
  <2>4. CASE Consume(w) \/ Recover(w)
    BY <2>2, <2>4, ConsumeLife
  <2>5. CASE PreflightRefuses(w) \/ FinalGate(w) \/ Lookup(w) \/ Crash(w)
    BY <2>2, <2>5, GateLife
  <2>6. CASE Post(w)
    BY <2>2, <2>6, PostLife
  <2>7. CASE RecordAnswer(w)
    BY <2>2, <2>7, AnswerLife
  <2>8. CASE ReconcileEntry(w)
    BY <2>2, <2>8, EntryLife
  <2>9. CASE ReconcileExit(w)
    BY <2>2, <2>9, ExitLife
  <2> QED BY <1>3, <2>3, <2>4, <2>5, <2>6, <2>7, <2>8, <2>9 DEF WorkerStep
<1> QED BY <1>1, <1>2, <1>3

(* With one worker, that is the whole invariant. *)
LEMMA LifeStepKeeps ==
    ASSUME OneWorker, LifeInv, NEW w \in Workers, NEW c \in Commands, LifeStep(w, c)
    PROVE  LifeInv'
<1>1. ASSUME NEW d \in Commands
      PROVE  /\ Life(d)' /\ (Over(d) => Over(d)')
             /\ GovernedDemo(d)' <=> GovernedDemo(d)
  <2>1. CASE d = c
    BY <2>1 DEF LifeStep, GovernedDemo, Allowed, PlanOf
  <2>2. CASE d # c
    <3>1. SameCommand(d) /\ Life(d)
      BY <2>2 DEF LifeStep, LifeInv
    <3> QED BY <3>1, SameLife
  <2> QED BY <2>1, <2>2
<1>2. ASSUME NEW v \in Workers
      PROVE  RunMatches(worker[v])'
  <2>1. v = w
    BY DEF OneWorker
  <2> QED BY <2>1 DEF LifeStep
<1>3. OneOpen'
  BY <1>1 DEF LifeInv, OneOpen
<1> QED BY <1>1, <1>2, <1>3 DEF LifeInv

----------------------------------------------------------------------------
(* Steps that leave the workers and the demo commands alone.  A command    *)
(* that joins the demo ones finds the others over.                         *)
LEMMA CalmKeeps ==
    ASSUME Known, LifeInv, worker' = worker,
           \A d \in Commands : GovernedDemo(d) => SameCommand(d),
           \A d \in Commands : ~GovernedDemo(d) => Life(d)',
           \A d \in Commands : GovernedDemo(d)' =>
              \/ GovernedDemo(d)
              \/ \A e \in Commands \ {d} : GovernedDemo(e)' => Over(e)'
    PROVE  LifeInv'
<1>1. ASSUME NEW d \in Commands, GovernedDemo(d)
      PROVE  Life(d)' /\ (Over(d)' <=> Over(d))
  <2>1. SameCommand(d) /\ Life(d)
    BY <1>1 DEF LifeInv
  <2> QED BY <2>1, SameLife
<1>2. ASSUME NEW w \in Workers
      PROVE  RunMatches(worker[w])'
  <2>1. CASE worker[w].pc = "idle"
    BY <2>1 DEF RunMatches
  <2>2. CASE worker[w].pc # "idle"
    <3>1. PICK x : x = worker[w]
      OBVIOUS
    <3>2. x.cmd \in Commands /\ GovernedDemo(x.cmd)
      BY <2>2, <3>1, BusyWorker DEF Known, LedgerInv, DemoOnly
    <3>3. PICK c \in Commands : c = x.cmd
      BY <3>2
    <3>4. SameCommand(c) /\ worker'[w] = x
      BY <3>1, <3>2, <3>3
    <3>5. RunMatches(x)
      BY <3>1 DEF LifeInv
    <3> QED BY <3>3, <3>4, <3>5 DEF RunMatches, SameCommand, Released
  <2> QED BY <2>1, <2>2
<1>3. OneOpen'
  BY <1>1 DEF LifeInv, OneOpen
<1>4. \A d \in Commands : Life(d)'
  BY <1>1
<1> QED BY <1>2, <1>3, <1>4 DEF LifeInv

LEMMA IdleLife ==
    ASSUME Known, LifeInv,
           UNCHANGED <<worker, order, posts, command, effect, receipt, ledger, resolved>>
    PROVE  LifeInv'
<1>1. \A d \in Commands : SameCommand(d)
  BY DEF SameCommand
<1>2. \A d \in Commands : Life(d)' /\ (GovernedDemo(d)' <=> GovernedDemo(d))
  BY <1>1, SameLife DEF LifeInv
<1> QED BY <1>1, <1>2, CalmKeeps

(* A command that was not a demo command has nothing at the venue. *)
LEMMA QuietLife ==
    ASSUME Known, LifeInv, NEW d \in Commands, ~GovernedDemo(d), receipt'[d].filled \in Nat,
           order'[d] = order[d], posts'[d] = posts[d], resolved' = resolved,
           Allowed(d)' => ledger'.reservation[d].plan = PlanOf(d)',
           GovernedDemo(d)' => ~Released(d)'
    PROVE  Life(d)'
<1>1. Life(d) /\ posts[d] \in Nat
  BY DEF LifeInv, Known, TypeInv, ControlTypeOK, DispatchTypeOK
<1>2. posts[d] = 0 /\ order[d].status = "none" /\ order[d].filled = 0 /\ ~order[d].exited
  BY <1>1 DEF Life, OrderSound
<1>3. d \notin resolved
  BY DEF Known, LedgerInv, DemoOnly
<1>4. OrderSound(d)'
  BY <1>2 DEF OrderSound
<1>5. Held(d)'
  BY <1>2 DEF Held
<1>6. Sound(d)'
  BY <1>2, <1>3 DEF Sound
<1> QED BY <1>4, <1>5, <1>6 DEF Life

(* The day roll releases paper reservations only. *)
LEMMA RollSparesDemo ==
    ASSUME Known, LifeInv, NEW aged
    PROVE  LET l == Roll(ledger, Orphans(aged))
           IN  /\ LedgerOK(l)
               /\ \A d \in Commands :
                     /\ l.reservation[d].plan = ledger.reservation[d].plan
                     /\ GovernedDemo(d) => l.reservation[d] = ledger.reservation[d]
<1>1. PICK S : S = Orphans(aged)
  OBVIOUS
<1>2. LedgerOK(Roll(ledger, S)) /\ LedgerOK(ledger)
  BY <1>1, RolledLedger DEF Known, LedgerInv
<1>3. ASSUME NEW d \in Commands, GovernedDemo(d)
      PROVE  d \notin S
  BY <1>1, <1>3 DEF Orphans, LifeInv, Life, Held, GovernedDemo, IsPaper, IsDemo
<1> QED BY <1>1, <1>2, <1>3, RollHolds

LEMMA PaperFillLife ==
    ASSUME Known, LifeInv, NEW c \in Commands, NEW price \in Prices, NEW aged,
           PaperFill(c, price, aged)
    PROVE  LifeInv'
<1>1. PICK l : l = Roll(ledger, Orphans(aged \ {c}))
  OBVIOUS
<1>2. PICK q : q = PlanInfo[PlanOf(c)].quantity
  OBVIOUS
<1>3. /\ Allowed(c) /\ IsPaper(PlanOf(c)) /\ UNCHANGED <<worker, order, posts>>
      /\ Commit(c, ApplyFills(Rows(c), c, l, q, q * price))
  BY <1>1, <1>2 DEF PaperFill, dispatchVars
<1>4. /\ LedgerOK(l)
      /\ \A d \in Commands : /\ l.reservation[d].plan = ledger.reservation[d].plan
                             /\ GovernedDemo(d) => l.reservation[d] = ledger.reservation[d]
  BY <1>1, RollSparesDemo
<1>5. q \in Nat /\ price \in Nat
  BY <1>2, <1>3, WorkerAssumption, PlanAssumption DEF Known, TypeInv, AllowedBound
<1>6. PICK v \in Nat : v = q * price
  BY <1>5
<1>7. PICK b : b = ApplyFills(Rows(c), c, l, q, v)
  OBVIOUS
<1>8. /\ b.effect = effect[c] /\ b.ledger = ConvertForFill(l, c, v)
      /\ b.receipt.filled = receipt[c].filled + q
  BY <1>7 DEF ApplyFills, Rows
<1>9. HeldRows(b.ledger, l, c)
  BY <1>4, <1>8, ConvertHolds
<1>10. /\ effect \in [Commands -> Effect] /\ receipt \in [Commands -> Receipt]
  BY DEF Known, TypeInv, ControlTypeOK, ClaimTypeOK
<1>11. /\ effect' = [effect EXCEPT ![c] = b.effect]
       /\ receipt' = [receipt EXCEPT ![c] = b.receipt]
       /\ ledger' = b.ledger
       /\ UNCHANGED <<command, resolved>>
  BY <1>3, <1>6, <1>7 DEF Commit
<1>12. ~GovernedDemo(c) /\ \A d \in Commands : GovernedDemo(d)' <=> GovernedDemo(d)
  BY <1>3, <1>11 DEF GovernedDemo, Allowed, PlanOf, IsPaper, IsDemo
<1>13. ASSUME NEW d \in Commands, GovernedDemo(d)
       PROVE  SameCommand(d)
  <2>1. d # c
    BY <1>12, <1>13
  <2>2. ledger'.reservation[d] = ledger.reservation[d]
    BY <1>4, <1>9, <1>11, <1>13, <2>1 DEF HeldRows
  <2>3. effect'[d] = effect[d] /\ receipt'[d] = receipt[d]
    BY <1>10, <1>11, <2>1
  <2> QED BY <1>3, <1>11, <2>2, <2>3 DEF SameCommand
<1>14. ASSUME NEW d \in Commands, ~GovernedDemo(d)
       PROVE  Life(d)'
  <2>1. ledger'.reservation[d].plan = ledger.reservation[d].plan
    BY <1>4, <1>9, <1>11 DEF HeldRows
  <2>2. Allowed(d)' => ledger'.reservation[d].plan = PlanOf(d)'
    BY <1>11, <2>1 DEF LifeInv, Life, Held, Allowed, PlanOf
  <2>3. receipt'[d].filled \in Nat
    <3>1. receipt[d].filled \in Nat /\ receipt[c].filled + q \in Nat
      BY <1>5, <1>10 DEF Receipt
    <3> QED BY <1>8, <1>10, <1>11, <3>1
  <2> QED BY <1>3, <1>11, <1>12, <1>14, <2>2, <2>3, QuietLife
<1> QED BY <1>3, <1>12, <1>13, <1>14, CalmKeeps

(* charge_reservation: a new row, and the others as they were. *)
LEMMA ChargeHolds ==
    ASSUME NEW l, LedgerOK(l), NEW k \in Commands, NEW p
    PROVE  LET m == Charge(l, k, p)
           IN  /\ \A d \in Commands \ {k} : m.reservation[d] = l.reservation[d]
               /\ m.reservation[k].plan = p /\ m.reservation[k].state = "CHARGED"
<1>1. l.reservation \in [Commands -> Reservation]
  BY DEF LedgerOK
<1>2. PICK r : r = [state |-> "CHARGED", plan |-> p, remaining |-> PlanInfo[p].notional,
                    converted |-> 0, since |-> today]
  OBVIOUS
<1>3. Charge(l, k, p).reservation = [l.reservation EXCEPT ![k] = r]
  BY <1>2 DEF Charge
<1> QED BY <1>1, <1>2, <1>3

(* The claim gate: a demo claim is allowed only when every earlier demo    *)
(* command is over.                                                        *)
LEMMA ClaimLife ==
    ASSUME Known, LifeInv, NEW k \in Commands, NEW a \in Authorizations,
           NEW refused \in BOOLEAN, NEW aged, Claim(k, a, refused, aged),
           UNCHANGED dispatchVars
    PROVE  LifeInv'
<1>1. PICK p, l : p = AuthorizedPlan[a] /\ l = LockedLedger(p, Orphans(aged))
  OBVIOUS
<1>2. /\ LedgerOK(l)
      /\ \A d \in Commands : /\ l.reservation[d].plan = ledger.reservation[d].plan
                             /\ GovernedDemo(d) => l.reservation[d] = ledger.reservation[d]
  <2>1. CASE IsPaper(p)
    <3>1. l = Roll(ledger, Orphans(aged))
      BY <1>1, <2>1 DEF LockedLedger
    <3> QED BY <3>1, RollSparesDemo
  <2>2. CASE ~IsPaper(p)
    <3>1. l = ledger
      BY <1>1, <2>2 DEF LockedLedger
    <3> QED BY <3>1 DEF Known, LedgerInv
  <2> QED BY <2>1, <2>2
<1>3. ClaimFrame(k, a)
  BY ClaimStep DEF Known
<1>4. /\ UNCHANGED <<worker, order, posts, resolved>>
      /\ command[k].outcome = "NONE" /\ ~GovernedDemo(k)
  BY <1>3 DEF ClaimFrame, dispatchVars, GovernedDemo, Allowed
<1>5. \A d \in Commands \ {k} : /\ command'[d] = command[d] /\ effect'[d] = effect[d]
                                /\ receipt'[d] = receipt[d]
                                /\ GovernedDemo(d)' <=> GovernedDemo(d)
  BY <1>3 DEF ClaimFrame, GovernedDemo, Allowed, PlanOf
<1>6. \A d \in Commands : receipt'[d].filled \in Nat
  BY <1>3 DEF ClaimFrame, Receipt
<1>7. ASSUME \A d \in Commands \ {k} : ledger'.reservation[d] = l.reservation[d],
             Allowed(k)' => ledger'.reservation[k].plan = PlanOf(k)' /\ ~Released(k)',
             GovernedDemo(k)' => \A e \in Commands : GovernedDemo(e) => Over(e)
      PROVE  LifeInv'
  <2>1. ASSUME NEW d \in Commands, GovernedDemo(d)
        PROVE  SameCommand(d)
    BY <1>2, <1>4, <1>5, <1>7, <2>1 DEF SameCommand
  <2>2. ASSUME NEW d \in Commands, ~GovernedDemo(d)
        PROVE  Life(d)'
    <3>1. CASE d = k
      BY <1>4, <1>6, <1>7, <2>2, <3>1, QuietLife DEF GovernedDemo
    <3>2. CASE d # k
      <4>1. Allowed(d)' => ledger'.reservation[d].plan = PlanOf(d)'
        BY <1>2, <1>5, <1>7, <3>2 DEF LifeInv, Life, Held, Allowed, PlanOf
      <4> QED BY <1>4, <1>5, <1>6, <2>2, <3>2, <4>1, QuietLife
    <3> QED BY <3>1, <3>2
  <2>3. ASSUME NEW d \in Commands, GovernedDemo(d)', ~GovernedDemo(d),
               NEW e \in Commands \ {d}, GovernedDemo(e)'
        PROVE  Over(e)'
    <3>1. d = k
      BY <1>5, <2>3
    <3>2. GovernedDemo(e) /\ Over(e)
      BY <1>5, <1>7, <2>3, <3>1
    <3>3. SameCommand(e) /\ Life(e)
      BY <2>1, <3>2 DEF LifeInv
    <3> QED BY <3>2, <3>3, SameLife
  <2> QED BY <1>4, <2>1, <2>2, <2>3, CalmKeeps
<1>8. CASE PersistBlocked(k, a, l)
  <2>1. ledger' = l
    BY <1>8 DEF PersistBlocked
  <2>2. command'[k].outcome = "BLOCKED"
    BY <1>8 DEF PersistBlocked, Known, TypeInv, ControlTypeOK, ClaimTypeOK
  <2> QED BY <1>7, <2>1, <2>2 DEF GovernedDemo, Allowed
<1>9. CASE ClaimAllows(a, l, refused) /\ PersistAllow(k, a, l)
  <2>1. ledger' = Charge(l, k, p)
    BY <1>1, <1>9 DEF PersistAllow
  <2>2. /\ \A d \in Commands \ {k} : ledger'.reservation[d] = l.reservation[d]
        /\ ledger'.reservation[k].plan = p /\ ledger'.reservation[k].state = "CHARGED"
    BY <1>2, <2>1, ChargeHolds
  <2>3. PlanOf(k)' = p
    BY <1>1, <1>3 DEF ClaimFrame, PlanOf
  <2>4. ASSUME GovernedDemo(k)', NEW e \in Commands, GovernedDemo(e)
        PROVE  Over(e)
    <3>1. ~HasDemoEntryHistory
      BY <1>1, <1>9, <2>3, <2>4 DEF ClaimAllows, GovernedDemo
    <3> QED BY <2>4, <3>1 DEF HasDemoEntryHistory, UnfilledAndReleased, Over, Released
  <2> QED BY <1>7, <2>2, <2>3, <2>4 DEF Released
<1> QED BY <1>1, <1>8, <1>9 DEF Claim

----------------------------------------------------------------------------
(* What the venue does to the order of c, whose evidence may be held by    *)
(* the worker.                                                             *)
VenueMove(o, x) ==
    \/ /\ o.status = "open" /\ x.status # "none" /\ x.exited = o.exited
       /\ x.status = "rejected" => x.filled = 0
    \/ /\ o.status \in {"filled", "cancelled"} /\ o.filled > 0
       /\ x.status = o.status /\ x.filled = o.filled /\ x.exited

LEMMA VenueMoves ==
    ASSUME Known, VenueNext
    PROVE  \E c \in Commands : \E x : VenueMove(order[c], x) /\ VenueStep(c, x)
<1>1. PICK c \in Commands : \/ \E price \in Prices : VenueFill(c, price)
                            \/ VenueCancel(c) \/ VenueReject(c) \/ VenueExit(c)
  BY DEF VenueNext
<1>2. PICK o \in Order : o = order[c]
  BY DEF Known, TypeInv, ControlTypeOK, DispatchTypeOK
<1>3. ASSUME NEW s
      PROVE  LET x == [o EXCEPT !.status = s]
             IN  x.status = s /\ x.exited = o.exited /\ x.filled = o.filled
  BY DEF Order
<1>4. CASE VenueCancel(c) \/ VenueReject(c)
  <2>1. PICK s : /\ o.status = "open" /\ s # "none" /\ (s = "rejected" => o.filled = 0)
                 /\ VenueStep(c, [o EXCEPT !.status = s])
    BY <1>2, <1>4 DEF VenueCancel, VenueReject
  <2>2. VenueMove(o, [o EXCEPT !.status = s])
    BY <1>3, <2>1 DEF VenueMove
  <2> QED BY <1>2, <2>1, <2>2
<1>5. CASE VenueExit(c)
  <2>1. PICK x : x = [o EXCEPT !.exited = TRUE]
    OBVIOUS
  <2>2. x.status = o.status /\ x.filled = o.filled /\ x.exited
    BY <2>1 DEF Order
  <2>3. /\ o.status \in {"filled", "cancelled"} /\ o.filled > 0 /\ VenueStep(c, x)
    BY <1>2, <1>5, <2>1 DEF VenueExit
  <2> QED BY <1>2, <2>2, <2>3 DEF VenueMove
<1>6. ASSUME NEW price \in Prices, VenueFill(c, price)
      PROVE  \E x : VenueMove(o, x) /\ VenueStep(c, x)
  <2>1. PICK s \in {"filled", "open"} :
          s = IF o.filled + 1 = PlanInfo[PlanOf(c)].quantity THEN "filled" ELSE "open"
    OBVIOUS
  <2>2. PICK x : x = [o EXCEPT !.filled = @ + 1, !.value = @ + price, !.status = s]
    OBVIOUS
  <2>3. o.status = "open" /\ VenueStep(c, x)
    BY <1>2, <1>6, <2>1, <2>2 DEF VenueFill
  <2>4. x.status = s /\ x.exited = o.exited
    BY <2>2 DEF Order
  <2> QED BY <2>3, <2>4 DEF VenueMove
<1> QED BY <1>1, <1>2, <1>4, <1>5, <1>6

LEMMA VenueLife ==
    ASSUME Known, LifeInv, VenueNext
    PROVE  LifeInv'
<1>0. PICK c \in Commands : \E x : VenueMove(order[c], x) /\ VenueStep(c, x)
  BY VenueMoves
<1>1. PICK x : VenueMove(order[c], x) /\ VenueStep(c, x)
  BY <1>0
<1>2. PICK o : o = order[c]
  OBVIOUS
<1>3. /\ order'[c] = x /\ \A d \in Commands \ {c} : order'[d] = order[d]
      /\ UNCHANGED <<worker, posts, command, effect, receipt, ledger, resolved>>
  BY <1>1 DEF VenueStep, Rollback, claimVars, ledgerVars, Known, TypeInv, ControlTypeOK,
              DispatchTypeOK
<1>4. Life(c) /\ posts[c] \in Nat /\ o.status # "none"
  BY <1>1, <1>2 DEF LifeInv, Known, TypeInv, ControlTypeOK, DispatchTypeOK, VenueMove
<1>5. posts[c] > 0 /\ GovernedDemo(c) /\ GovernedDemo(c)'
  BY <1>2, <1>3, <1>4 DEF Life, OrderSound, GovernedDemo, Allowed, PlanOf
<1>6. \A d \in Commands : /\ GovernedDemo(d)' <=> GovernedDemo(d)
                          /\ Over(d)' <=> Over(d)
  BY <1>3 DEF GovernedDemo, Allowed, PlanOf, Over, Released
<1>7. /\ Allowed(c)' => ledger'.reservation[c].plan = PlanOf(c)'
      /\ GovernedDemo(c)' /\ effect'[c].state \in Undispatched => ~Released(c)'
      /\ effect'[c].state # "PROVEN_UNSENT"
  BY <1>3, <1>4, <1>5 DEF Life, Held, Sound, GovernedDemo, Allowed, PlanOf, Released
<1>8. /\ Life(c)'
      /\ \A r : r.cmd = c /\ RunMatches(r) =>
            /\ r.pc # "rejected"
            /\ r.pc \in {"apply", "exit"} => Settled(r.evidence, x)
  <2>1. CASE o.status = "open"
    <3>1. /\ x.status # "none" /\ x.exited = o.exited
          /\ x.status = "rejected" => x.filled = 0
      BY <1>1, <1>2, <2>1 DEF VenueMove
    <3>2. ~Released(c) /\ ~Released(c)' /\ ~o.exited /\ c \notin resolved
      BY <1>2, <1>3, <1>4, <2>1 DEF Life, OrderSound, Held, Sound, Released
    <3>3. Life(c)'
      BY <1>3, <1>5, <1>7, <3>1, <3>2 DEF Life, OrderSound, Held, Sound
    <3>4. ASSUME NEW r, r.cmd = c, RunMatches(r)
          PROVE  /\ r.pc # "rejected"
                 /\ r.pc \in {"apply", "exit"} => Settled(r.evidence, x)
      BY <1>2, <2>1, <3>4 DEF RunMatches, Settled
    <3> QED BY <3>3, <3>4
  <2>2. CASE o.status \in {"filled", "cancelled"}
    <3>1. o.filled > 0 /\ x.status = o.status /\ x.filled = o.filled /\ x.exited
      BY <1>1, <1>2, <2>2 DEF VenueMove
    <3>2. Life(c)'
      BY <1>2, <1>3, <1>4, <1>5, <1>7, <2>2, <3>1
         DEF Life, OrderSound, Held, Sound, Released
    <3>3. ASSUME NEW r, r.cmd = c, RunMatches(r)
          PROVE  /\ r.pc # "rejected"
                 /\ r.pc \in {"apply", "exit"} => Settled(r.evidence, x)
      BY <1>2, <2>2, <3>1, <3>3 DEF RunMatches, Settled
    <3> QED BY <3>2, <3>3
  <2> QED BY <1>1, <1>2, <2>1, <2>2 DEF VenueMove
<1>9. ASSUME NEW d \in Commands
      PROVE  Life(d)'
  <2>1. CASE d = c
    BY <1>8, <2>1
  <2>2. CASE d # c
    <3>1. SameCommand(d) /\ Life(d)
      BY <1>3, <2>2 DEF SameCommand, LifeInv
    <3> QED BY <3>1, SameLife
  <2> QED BY <2>1, <2>2
<1>10. ASSUME NEW w \in Workers
       PROVE  RunMatches(worker[w])'
  <2>1. PICK r : r = worker[w] /\ worker'[w] = r
    BY <1>3
  <2>2. RunMatches(r)
    BY <2>1 DEF LifeInv
  <2>3. CASE r.cmd = c
    BY <1>3, <1>8, <2>1, <2>2, <2>3 DEF RunMatches, Released
  <2>4. CASE r.pc = "idle"
    BY <2>1, <2>4 DEF RunMatches
  <2>5. CASE r.cmd # c /\ r.pc # "idle"
    <3>1. r.cmd \in Commands \ {c}
      BY <2>1, <2>5, BusyWorker DEF Known
    <3>2. order'[r.cmd] = order[r.cmd]
      BY <1>3, <3>1
    <3> QED BY <1>3, <2>1, <2>2, <3>2 DEF RunMatches, Released
  <2> QED BY <2>3, <2>4, <2>5
<1>11. OneOpen'
  BY <1>6 DEF LifeInv, OneOpen
<1> QED BY <1>9, <1>10, <1>11 DEF LifeInv

----------------------------------------------------------------------------
LEMMA LifeInit == Init => LifeInv
<1> SUFFICES ASSUME Init PROVE LifeInv
  OBVIOUS
<1>1. ASSUME NEW c \in Commands
      PROVE  /\ order[c] = NoOrder /\ posts[c] = 0 /\ ~Allowed(c) /\ ~GovernedDemo(c)
             /\ effect[c].state = "NONE" /\ receipt[c].filled = 0 /\ c \notin resolved
  BY DEF Init, DispatchInit, ClaimInit, NoCommand, NoEffect, NoReceipt, Allowed, GovernedDemo
<1>2. NoOrder.status = "none" /\ NoOrder.filled = 0 /\ ~NoOrder.exited
  BY DEF NoOrder
<1>3. \A c \in Commands : Life(c)
  BY <1>1, <1>2 DEF Life, OrderSound, Held, Sound
<1>4. \A w \in Workers : RunMatches(worker[w])
  BY DEF Init, DispatchInit, IdleWorker, RunMatches
<1>5. OneOpen
  BY <1>1 DEF OneOpen
<1> QED BY <1>3, <1>4, <1>5 DEF LifeInv

LEMMA LifeInvStep ==
    ASSUME OneWorker, Known, LifeInv, [Next]_vars
    PROVE  LifeInv'
<1>1. CASE WorkerNext
  <2>1. PICK w \in Workers, c \in Commands : LifeStep(w, c)
    BY <1>1, WorkerLife
  <2> QED BY <2>1, LifeStepKeeps
<1>2. CASE VenueNext
  BY <1>2, VenueLife
<1>3. CASE LedgerNext
  <2>1. ASSUME NEW k \in Commands, NEW a \in Authorizations, NEW refused \in BOOLEAN,
               NEW aged \in AgedSets, Claim(k, a, refused, aged), UNCHANGED dispatchVars
        PROVE  LifeInv'
    BY <2>1, ClaimLife
  <2>2. ASSUME NEW c \in Commands, NEW price \in Prices, NEW aged \in AgedSets,
               PaperFill(c, price, aged)
        PROVE  LifeInv'
    BY <2>2, PaperFillLife
  <2>3. CASE NextDay /\ UNCHANGED <<safetyVars, claimVars, dispatchVars>>
    BY <2>3, IdleLife DEF NextDay, claimVars, dispatchVars
  <2> QED BY <1>3, <2>1, <2>2, <2>3 DEF LedgerNext
<1>4. CASE ClaimNext \/ SafetyNext \/ UNCHANGED vars
  <2>1. UNCHANGED <<worker, order, posts, command, effect, receipt, ledger, resolved>>
    BY <1>4 DEF ClaimNext, SafetyNext, IssueAuthorization, RevokeAuthorization, ExpirePlan,
                vars, claimVars, ledgerVars, dispatchVars
  <2> QED BY <2>1, IdleLife
<1> QED BY <1>1, <1>2, <1>3, <1>4 DEF Next

LEMMA LifeInvariant ==
    ASSUME OneWorker
    PROVE  Spec => [](Known /\ LifeInv)
<1>1. Init => LifeInv
  BY LifeInit
<1>2. Known /\ LifeInv /\ [Next]_vars => LifeInv'
  BY LifeInvStep
<1>3. Spec => []FillsInv
  BY TypeCorrect, FillsInit, FillsStep, PTL DEF Spec
<1>4. TypeInv /\ LedgerInv /\ SendAuthorityUnique /\ FillsInv <=> Known
  BY DEF Known
<1>5. Spec => []Known
  BY <1>3, <1>4, LedgerInvariant, SendAuthority, PTL
<1> QED BY <1>1, <1>2, <1>5, PTL DEF Spec

(* A worker past the gate holds a reservation for a command that is not    *)
(* settled.                                                                *)
LEMMA PastGateHolds ==
    ASSUME Known, LifeInv, NEW c \in Commands, PastGate(c)
    PROVE  effect[c].state = "SEND_AMBIGUOUS" /\ ~Released(c) /\ GovernedDemo(c)
<1>1. PICK w \in Workers : worker[w].cmd = c /\ worker[w].pc = "gated"
  BY DEF PastGate
<1>2. GovernedDemo(c)
  BY <1>1 DEF Known, LedgerInv, DemoOnly
<1> QED BY <1>1, <1>2 DEF LifeInv, RunMatches

(* With one worker at a time, an effect recorded as PROVEN_UNSENT was not  *)
(* sent and is not about to be, so that _block_before_dispatch releases    *)
(* the reservation of nothing that can fill.                               *)
THEOREM UnsentProofs ==
    ASSUME OneWorker
    PROVE  Spec => []UnsentProofSound
<1>1. ASSUME Known, LifeInv
      PROVE  UnsentProofSound
  BY <1>1, PastGateHolds DEF UnsentProofSound, LifeInv, Life, Sound
<1> QED BY <1>1, LifeInvariant, PTL

(* With one worker at a time, a reservation is released only when the      *)
(* venue is done with the order and every fill is recorded                 *)
(* (_release_unused_reservation, resolve_verified_demo_exit, the day roll).*)
THEOREM ReservationsCover ==
    ASSUME OneWorker
    PROVE  Spec => []ReservationCoversVenue
<1>1. ASSUME Known, LifeInv
      PROVE  ReservationCoversVenue
  BY <1>1, PastGateHolds DEF ReservationCoversVenue, LifeInv, Life, Held, Released
<1> QED BY <1>1, LifeInvariant, PTL

(* With one worker at a time, the gate has_demo_entry_history keeps at     *)
(* most one demo entry open at the venue or about to be sent there.        *)
THEOREM OneExposure ==
    ASSUME OneWorker
    PROVE  Spec => []OneDemoExposure
<1>1. ASSUME Known, LifeInv, NEW c \in Commands, Exposed(c)
      PROVE  GovernedDemo(c) /\ ~Over(c)
  <2>1. Life(c) /\ posts[c] \in Nat /\ receipt[c].filled \in Nat /\ order[c].filled \in Nat
    BY <1>1 DEF LifeInv, Known, TypeInv, ControlTypeOK, ClaimTypeOK, DispatchTypeOK, Receipt,
                Order
  <2>2. CASE PastGate(c)
    <3>1. effect[c].state = "SEND_AMBIGUOUS" /\ ~Released(c) /\ GovernedDemo(c)
      BY <1>1, <2>2, PastGateHolds
    <3> QED BY <2>1, <3>1 DEF Over, Life, Sound
  <2>3. CASE order[c].status = "open" \/ (order[c].filled > 0 /\ ~order[c].exited)
    <3>1. posts[c] > 0 /\ GovernedDemo(c)
      BY <2>1, <2>3 DEF Life, OrderSound
    <3>2. ~order[c].exited
      BY <2>1, <2>3 DEF Life, OrderSound
    <3>3. c \notin resolved
      BY <2>1, <3>2 DEF Life, Sound
    <3>4. ~(Released(c) /\ receipt[c].filled = 0)
      BY <2>1, <2>3 DEF Life, Held
    <3> QED BY <3>1, <3>3, <3>4 DEF Over
  <2> QED BY <1>1, <2>2, <2>3 DEF Exposed
<1>2. ASSUME Known, LifeInv
      PROVE  OneDemoExposure
  BY <1>1, <1>2 DEF OneDemoExposure, LifeInv, OneOpen
<1> QED BY <1>2, LifeInvariant, PTL

==============================================================================
