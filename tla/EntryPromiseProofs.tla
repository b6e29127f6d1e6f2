------------------------- MODULE EntryPromiseProofs -------------------------
(***************************************************************************)
(* ExecutionProtocol implements EntryPromise, for every number of workers, *)
(* commands, plans and authorizations.                                     *)
(***************************************************************************)
EXTENDS ExecutionProtocolProofs

entryNow == [c \in Commands |-> Entry(c)]

(* What an abstract step of one command looks like: its stage moves, the   *)
(* rest of its entry and all other entries stay.                           *)
StageMoves(c, from, to) ==
    /\ Entry(c).stage \in from
    /\ Entry(c)' = [Entry(c) EXCEPT !.stage = to]

OthersStay(c) == \A d \in Commands \ {c} : Entry(d)' = Entry(d)

(* A command whose stage moves, alone, is an abstract step of that kind.   *)
LEMMA MovesEntry ==
    ASSUME NEW c \in Commands, NEW from, NEW to, StageMoves(c, from, to), OthersStay(c),
           UNCHANGED <<killActive, epoch>>
    PROVE  Promise!Moves(c, from, to)
<1>1. entryNow' = [entryNow EXCEPT ![c] = [entryNow[c] EXCEPT !.stage = to]]
  BY DEF StageMoves, OthersStay, entryNow
<1>2. entryNow[c].stage \in from
  BY DEF StageMoves, entryNow
<1> QED BY <1>1, <1>2 DEF Promise!Moves, entryNow

(* Where no entry moves and nobody touches the switch, the abstract system *)
(* stutters.                                                               *)
LEMMA EntriesStay ==
    ASSUME \A d \in Commands : Entry(d)' = Entry(d), UNCHANGED <<killActive, epoch>>
    PROVE  UNCHANGED Promise!promiseVars
BY DEF Promise!promiseVars

----------------------------------------------------------------------------
(* The stage of an allowed command, and of one that is not. *)
SentStage(c) ==
    IF posts[c] > 0 THEN "sent"
    ELSE IF PastGate(c) THEN "cleared"
    ELSE IF InPreflight(c) THEN "taken" ELSE "dropped"

(* Stage, case by case.                                                    *)
LEMMA StageOf ==
    ASSUME NEW c \in Commands
    PROVE  /\ command[c].outcome = "NONE" => Stage(c) = "none"
           /\ command[c].outcome = "BLOCKED" => Stage(c) = "refused"
           /\ Allowed(c) /\ ~Consumed(c) => Stage(c) = "admitted"
           /\ Allowed(c) /\ Consumed(c) => Stage(c) = SentStage(c)
BY DEF Stage, Allowed, SentStage

(* The entry of a command depends on its own rows, on its POSTs and on who *)
(* is sending it.                                                          *)
LEMMA EntrySame ==
    ASSUME NEW c \in Commands,
           command'[c] = command[c], effect'[c] = effect[c], posts'[c] = posts[c],
           PastGate(c)' <=> PastGate(c), InPreflight(c)' <=> InPreflight(c)
    PROVE  Entry(c)' = Entry(c)
BY DEF Entry, Stage, Allowed, Consumed, PlanOf

(* A step of worker w on command c is no step of another command. *)
LEMMA SendersOfOthers ==
    ASSUME TypeInv, NEW w \in Workers, NEW c \in Commands, WorkerFrame(w, c),
           NEW d \in Commands \ {c}
    PROVE  /\ PastGate(d)' <=> PastGate(d)
           /\ InPreflight(d)' <=> InPreflight(d)
<1>1. NoCommandId \notin Commands
  BY WorkerAssumption
<1>2. worker'[w].cmd # d /\ (worker[w].pc # "idle" => worker[w].cmd # d)
  BY <1>1 DEF WorkerFrame
<1> QED BY <1>2 DEF WorkerFrame, PastGate, InPreflight

(* Plan, authorization and era of a command stay under a step of a worker. *)
LEMMA WorkerEntry ==
    ASSUME NEW c \in Commands, RowFrame(c)
    PROVE  Entry(c)' = [Entry(c) EXCEPT !.stage = Stage(c)']
<1>1. command' = command /\ effect'[c].epoch = effect[c].epoch
  BY DEF RowFrame
<1> QED BY <1>1 DEF Entry, Allowed, PlanOf

(* How the stage of the command moves: an admitted command is taken or     *)
(* dropped, a taken one is cleared by a gate that sees no kill or dropped, *)
(* a cleared one is sent or dropped, and then nothing happens to it.       *)
StageStep(c) ==
    \/ Stage(c)' = Stage(c)
    \/ Stage(c) = "admitted" /\ Stage(c)' = "taken"
    \/ /\ Stage(c) = "taken" /\ Stage(c)' = "cleared"
       /\ ~SafetyBlocksDispatch(effect[c].epoch)
    \/ Stage(c) = "cleared" /\ Stage(c)' = "sent"
    \/ Stage(c) \in {"admitted", "taken", "cleared"} /\ Stage(c)' = "dropped"

(* A worker moves the stage of its command only this way, because no other *)
(* worker is sending it (SendAuthorityUnique).                             *)
LEMMA WorkerStage ==
    ASSUME TypeInv, SendAuthorityUnique, NEW w \in Workers, NEW c \in Commands,
           Allowed(c), Frame(w, c)
    PROVE  StageStep(c)
<1> DEFINE Sends(v) == Sending(v) /\ worker[v].cmd = c
<1>1. /\ posts[c] \in Nat /\ posts'[c] \in Nat
      /\ NoCommandId \notin Commands
  BY WorkerAssumption DEF TypeInv, ControlTypeOK, DispatchTypeOK, Frame, SendFrame
<1>2. /\ \A v \in Workers \ {w} : worker'[v] = worker[v]
      /\ worker'[w].cmd \in {c, NoCommandId}
      /\ worker'[w].pc = "idle" <=> worker'[w].cmd = NoCommandId
      /\ worker[w].pc # "idle" => worker[w].cmd = c
  BY DEF Frame, WorkerFrame
<1>3. /\ Allowed(c)'
      /\ Consumed(c) => Consumed(c)'
  BY DEF Frame, RowFrame, Allowed, Consumed, ConsumedState
<1>4. /\ worker'[w].pc = "preflight" => ~Consumed(c) /\ Consumed(c)'
      /\ worker'[w].pc = "gated" => /\ worker[w].pc = "preflight"
                                    /\ ~SafetyBlocksDispatch(effect[c].epoch)
      /\ posts'[c] = posts[c] \/ /\ worker[w].pc = "gated"
                                 /\ posts'[c] = posts[c] + 1
      /\ posts'[c] # posts[c] => worker'[w].pc \notin {"preflight", "gated"}
  BY <1>1 DEF Frame, SendFrame, Consumed, ConsumedState, TypeInv, ControlTypeOK, DispatchTypeOK
<1>5. /\ posts[c] > 0 => Consumed(c)
      /\ \A v \in Workers : Sends(v) => posts[c] = 0 /\ Consumed(c)
      /\ \A u, v \in Workers : Sends(u) /\ Sends(v) => u = v
  BY DEF SendAuthorityUnique
<1>6. /\ PastGate(c) <=> \E v \in Workers : Sends(v) /\ worker[v].pc = "gated"
      /\ InPreflight(c) <=> \E v \in Workers : Sends(v) /\ worker[v].pc = "preflight"
  BY DEF PastGate, InPreflight, Sending
<1>7. /\ PastGate(c)' <=> \E v \in Workers : worker'[v].cmd = c /\ worker'[v].pc = "gated"
      /\ InPreflight(c)' <=> \E v \in Workers : worker'[v].cmd = c /\ worker'[v].pc = "preflight"
  BY DEF PastGate, InPreflight
<1>8. /\ Consumed(c) => Stage(c) = SentStage(c)
      /\ ~Consumed(c) => Stage(c) = "admitted"
      /\ Consumed(c)' => Stage(c)' = SentStage(c)'
      /\ ~Consumed(c)' => Stage(c)' = "admitted"
  BY <1>3, StageOf DEF Stage, SentStage, Allowed
<1>9. CASE ~Consumed(c)
  <2>1. posts[c] = 0 /\ \A v \in Workers : ~Sends(v)
    BY <1>1, <1>5, <1>9
  <2>2. worker[w].pc \notin {"preflight", "gated"}
    BY <1>2, <2>1 DEF Sending
  <2>3. posts'[c] = 0 /\ ~PastGate(c)'
    BY <1>2, <1>4, <1>7, <2>1, <2>2 DEF Sending
  <2> QED BY <1>8, <1>9, <2>3 DEF StageStep, SentStage
<1>10. CASE Consumed(c) /\ posts[c] > 0
  <2>1. posts'[c] > 0
    BY <1>1, <1>4, <1>10
  <2> QED BY <1>3, <1>8, <1>10, <2>1 DEF StageStep, SentStage
<1>11. CASE Consumed(c) /\ posts[c] = 0 /\ Sends(w)
  <2>1. ~PastGate(c)' \/ worker'[w].pc = "gated"
    BY <1>2, <1>5, <1>7, <1>11 DEF Sending
  <2>2. ~InPreflight(c)'
    BY <1>2, <1>4, <1>5, <1>7, <1>11 DEF Sending
  <2>3. CASE worker[w].pc = "gated"
    <3>1. PastGate(c) /\ ~PastGate(c)'
      BY <1>4, <1>6, <1>11, <2>1, <2>3
    <3>2. Stage(c) = "cleared"
      BY <1>8, <1>11, <3>1 DEF SentStage
    <3>3. Stage(c)' \in {"sent", "dropped"}
      BY <1>3, <1>8, <1>11, <2>2, <3>1 DEF SentStage
    <3> QED BY <3>2, <3>3 DEF StageStep
  <2>4. CASE worker[w].pc = "preflight"
    <3>1. InPreflight(c) /\ ~PastGate(c)
      BY <1>5, <1>6, <1>11, <2>4
    <3>2. Stage(c) = "taken"
      BY <1>8, <1>11, <3>1 DEF SentStage
    <3>3. posts'[c] = 0
      BY <1>4, <1>11, <2>4
    <3>4. Stage(c)' = IF PastGate(c)' THEN "cleared" ELSE "dropped"
      BY <1>3, <1>8, <1>11, <2>2, <3>3 DEF SentStage
    <3> QED BY <1>4, <2>1, <3>2, <3>4 DEF StageStep
  <2> QED BY <1>11, <2>3, <2>4 DEF Sending
<1>12. CASE Consumed(c) /\ posts[c] = 0 /\ ~Sends(w)
  <2>1. worker[w].pc \notin {"preflight", "gated"} /\ worker'[w].pc \notin {"preflight", "gated"}
    BY <1>2, <1>4, <1>12 DEF Sending
  <2>2. posts'[c] = posts[c]
    BY <1>4, <2>1
  <2>3. (PastGate(c)' <=> PastGate(c)) /\ (InPreflight(c)' <=> InPreflight(c))
    BY <1>2, <1>6, <1>7, <2>1 DEF Sending
  <2> QED BY <1>3, <1>8, <1>12, <2>2, <2>3 DEF StageStep, SentStage
<1> QED BY <1>1, <1>9, <1>10, <1>11, <1>12

(* A worker's step that leaves the kill switch alone. *)
LEMMA WorkerRefines ==
    ASSUME TypeInv, SendAuthorityUnique, NEW w \in Workers, NEW c \in Commands,
           Allowed(c), Frame(w, c), UNCHANGED safetyVars
    PROVE  Promise!Next \/ UNCHANGED Promise!promiseVars
<1>1. OthersStay(c)
  <2> SUFFICES ASSUME NEW d \in Commands \ {c} PROVE Entry(d)' = Entry(d)
    BY DEF OthersStay
  <2>1. command'[d] = command[d] /\ effect'[d] = effect[d]
    BY DEF Frame, RowFrame
  <2>2. posts'[d] = posts[d]
    BY DEF Frame, SendFrame, TypeInv, ControlTypeOK, DispatchTypeOK
  <2>3. (PastGate(d)' <=> PastGate(d)) /\ (InPreflight(d)' <=> InPreflight(d))
    BY SendersOfOthers DEF Frame
  <2> QED BY <2>1, <2>2, <2>3, EntrySame
<1>2. UNCHANGED <<killActive, epoch>>
  BY DEF safetyVars
<1>3. Entry(c)' = [Entry(c) EXCEPT !.stage = Stage(c)']
  BY WorkerEntry DEF Frame
<1>4. Entry(c).stage = Stage(c) /\ Entry(c).era = effect[c].epoch
  BY DEF Entry
<1>5. ASSUME NEW from, NEW to, Stage(c) \in from, Stage(c)' = to
      PROVE  Promise!Moves(c, from, to)
  BY <1>1, <1>2, <1>3, <1>4, <1>5, MovesEntry DEF StageMoves
<1>6. StageStep(c)
  BY WorkerStage
<1>7. CASE Stage(c)' = Stage(c)
  <2>1. Entry(c)' = Entry(c)
    BY <1>3, <1>7 DEF Entry
  <2> QED BY <1>1, <1>2, <2>1, EntriesStay DEF OthersStay
<1>8. CASE Stage(c) = "admitted" /\ Stage(c)' = "taken"
  BY <1>5, <1>8 DEF Promise!Next, Promise!Take
<1>9. CASE /\ Stage(c) = "taken" /\ Stage(c)' = "cleared"
           /\ ~SafetyBlocksDispatch(effect[c].epoch)
  <2>1. Promise!Moves(c, {"taken"}, "cleared")
    BY <1>5, <1>9
  <2>2. ~killActive /\ entryNow[c].era = epoch
    BY <1>4, <1>9 DEF SafetyBlocksDispatch, entryNow
  <2>3. Promise!Clear(c)
    BY <2>1, <2>2 DEF Promise!Clear, entryNow
  <2> QED BY <2>3 DEF Promise!Next
<1>10. CASE Stage(c) = "cleared" /\ Stage(c)' = "sent"
  BY <1>5, <1>10 DEF Promise!Next, Promise!Send
<1>11. CASE Stage(c) \in {"admitted", "taken", "cleared"} /\ Stage(c)' = "dropped"
  BY <1>5, <1>11 DEF Promise!Next, Promise!Drop
<1> QED BY <1>6, <1>7, <1>8, <1>9, <1>10, <1>11 DEF StageStep

----------------------------------------------------------------------------
(* The exit transaction may arm the kill switch; it moves no entry. *)
LEMMA ExitKeepsState ==
    ASSUME TypeInv, NEW w \in Workers, ReconcileExit(w)
    PROVE  effect'[worker[w].cmd].state = effect[worker[w].cmd].state
<1> DEFINE c == worker[w].cmd
           evidence == worker[w].evidence
<1>1. worker[w].pc = "exit"
  BY DEF ReconcileExit
<1>2. c \in Commands /\ evidence \in Order
  BY <1>1, BusyWorker
<1>3. effect \in [Commands -> Effect]
  BY DEF TypeInv, ControlTypeOK, ClaimTypeOK
<1>4. IsRows(Rows(c)) /\ Rows(c).effect = effect[c]
  BY <1>2, RowsType
<1>5. ASSUME NEW b, Commit(c, b), b.effect.state = effect[c].state
      PROVE  effect'[c].state = effect[c].state
  BY <1>2, <1>3, <1>5 DEF Commit
<1>6. CASE Rollback
  BY <1>6 DEF Rollback, claimVars
<1>7. ASSUME NEW d \in Dispositions
      PROVE  /\ IsRows(MarkDisposition(Rows(c), d))
             /\ MarkDisposition(Rows(c), d).effect.state = effect[c].state
  BY <1>4, MarkDispositionRows
<1>8. CASE \E protected \in BOOLEAN : ExitNotObserved(c, evidence, protected)
  <2>1. PICK protected \in BOOLEAN : ExitNotObserved(c, evidence, protected)
    BY <1>8
  <2> DEFINE d == IF protected THEN "DEMO_PROTECTED" ELSE "DEMO_PROTECTION_MISSING"
             m == MarkDisposition(Rows(c), d)
             b == RecordEnd(m, c, evidence)
  <2>2. Commit(c, b) \/ Rollback
    BY <2>1 DEF ExitNotObserved
  <2>3. d \in Dispositions
    BY DEF Dispositions
  <2>4. IsRows(m) /\ m.effect.state = effect[c].state
    BY <1>7, <2>3
  <2> HIDE DEF m
  <2>5. b.effect = m.effect
    BY <2>4, RecordEndRows
  <2> HIDE DEF b
  <2> QED BY <1>5, <1>6, <2>2, <2>4, <2>5
<1>9. CASE \E armed \in BOOLEAN : ProfileLiquidationHold(c, armed)
  <2>1. Commit(c, MarkDisposition(Rows(c), "DEMO_LIQUIDATION_HOLD"))
    BY <1>9 DEF ProfileLiquidationHold
  <2>2. "DEMO_LIQUIDATION_HOLD" \in Dispositions
    BY DEF Dispositions
  <2> QED BY <1>5, <1>7, <2>1, <2>2
<1>10. CASE ExitObserved(c, evidence)
  <2>1. CASE ResolveExit(c)
    BY <1>2, <1>3, <2>1 DEF ResolveExit, Effect
  <2> QED BY <1>6, <1>10, <2>1 DEF ExitObserved
<1>11. CASE LineageConflict
  BY <1>6, <1>11 DEF LineageConflict
<1> QED BY <1>8, <1>9, <1>10, <1>11 DEF ReconcileExit

(* Arming the switch is a halt, or nothing when it is armed already. *)
LEMMA KillRefines ==
    ASSUME KillActivate \/ UNCHANGED safetyVars,
           \A d \in Commands : Entry(d)' = Entry(d)
    PROVE  Promise!Next \/ UNCHANGED Promise!promiseVars
<1>1. CASE UNCHANGED <<killActive, epoch>>
  BY <1>1, EntriesStay
<1>2. CASE ~killActive /\ killActive' = TRUE /\ epoch' = epoch + 1
  <2>1. entryNow' = entryNow
    BY DEF entryNow
  <2>2. Promise!Halt
    BY <1>2, <2>1 DEF Promise!Halt, entryNow
  <2> QED BY <2>2 DEF Promise!Next
<1> QED BY <1>1, <1>2 DEF KillActivate, safetyVars

(* The exit transaction stutters, or halts trading when it arms the switch. *)
LEMMA ExitRefines ==
    ASSUME TypeInv, NEW w \in Workers, ReconcileExit(w)
    PROVE  Promise!Next \/ UNCHANGED Promise!promiseVars
<1> DEFINE c == worker[w].cmd
<1>1. worker[w].pc = "exit" /\ GoIdle(w) /\ UNCHANGED posts
  BY DEF ReconcileExit
<1>2. c \in Commands /\ Frame(w, c)
  BY <1>1, BusyWorker, ReconcileExitFrame
<1>3. /\ command' = command
      /\ effect'[c].epoch = effect[c].epoch
      /\ \A d \in Commands \ {c} : effect'[d] = effect[d]
  BY <1>2 DEF Frame, RowFrame
<1>4. effect'[c].state = effect[c].state
  BY ExitKeepsState
<1>5. worker' = [worker EXCEPT ![w] = IdleWorker] /\ worker \in [Workers -> Worker]
  BY <1>1 DEF GoIdle, TypeInv, ControlTypeOK, DispatchTypeOK
<1>6. worker'[w].pc = "idle" /\ \A v \in Workers \ {w} : worker'[v] = worker[v]
  BY <1>5 DEF IdleWorker
<1>7. \A d \in Commands : /\ PastGate(d)' <=> PastGate(d)
                          /\ InPreflight(d)' <=> InPreflight(d)
  BY <1>1, <1>6 DEF PastGate, InPreflight
<1>8. \A d \in Commands : Entry(d)' = Entry(d)
  <2> SUFFICES ASSUME NEW d \in Commands PROVE Entry(d)' = Entry(d)
    OBVIOUS
  <2>1. effect'[d].state = effect[d].state /\ effect'[d].epoch = effect[d].epoch
    BY <1>3, <1>4
  <2> QED BY <1>1, <1>3, <1>7, <2>1 DEF Entry, Stage, Allowed, Consumed, PlanOf
<1>9. KillActivate \/ UNCHANGED safetyVars
  BY DEF ReconcileExit, ExitObserved, ExitNotObserved, ProfileLiquidationHold, LineageConflict
<1> QED BY <1>8, <1>9, KillRefines

----------------------------------------------------------------------------
(* A claim refuses the key, or admits it: outside a halt, in the current   *)
(* era, for a plan and an authorization that no other entry has.           *)
LEMMA AllowAdmits ==
    ASSUME NEW k \in Commands, NEW a \in Authorizations, NEW refused, NEW aged,
           TypeInv, Claim(k, a, refused, aged), command'[k].outcome = "ALLOW"
    PROVE  /\ ~killActive
           /\ effect'[k].state = "CREATED"
           /\ effect'[k].epoch = epoch
<1> DEFINE l == LockedLedger(AuthorizedPlan[a], Orphans(aged))
<1>1. command \in [Commands -> Command] /\ effect \in [Commands -> Effect]
  BY DEF TypeInv, ControlTypeOK, ClaimTypeOK
<1>2. \/ ClaimAllows(a, l, refused) /\ PersistAllow(k, a, l)
      \/ PersistBlocked(k, a, l)
  BY DEF Claim
<1>3. ~PersistBlocked(k, a, l)
  BY <1>1 DEF PersistBlocked
<1>4. ~killActive
  BY <1>2, <1>3 DEF ClaimAllows
<1>5. effect' = [effect EXCEPT ![k] = [NoEffect EXCEPT !.state = "CREATED", !.epoch = epoch]]
  BY <1>2, <1>3 DEF PersistAllow
<1> QED BY <1>1, <1>4, <1>5 DEF NoEffect

(* Every outcome of a claim is Refuse, Admit or a stutter.                 *)
LEMMA ClaimRefines ==
    ASSUME TypeInv, ExclusiveClaims, NEW k \in Commands, NEW a \in Authorizations,
           NEW refused \in BOOLEAN, NEW aged, Claim(k, a, refused, aged),
           UNCHANGED dispatchVars
    PROVE  Promise!Next \/ UNCHANGED Promise!promiseVars
<1> DEFINE p == AuthorizedPlan[a]
<1>1. ClaimFrame(k, a)
  BY ClaimStep
<1>2. UNCHANGED <<killActive, epoch, worker, posts>>
  BY <1>1 DEF ClaimFrame, safetyVars, dispatchVars
<1>3. OthersStay(k)
  <2> SUFFICES ASSUME NEW d \in Commands \ {k} PROVE Entry(d)' = Entry(d)
    BY DEF OthersStay
  <2>1. command'[d] = command[d] /\ effect'[d] = effect[d]
    BY <1>1 DEF ClaimFrame
  <2> QED BY <1>2, <2>1, EntrySame DEF PastGate, InPreflight
<1>4. Entry(k) = [stage |-> "none", plan |-> NoPlan, auth |-> NoAuthorization,
                  era |-> effect[k].epoch]
  BY <1>1, StageOf DEF ClaimFrame, Entry, Allowed
<1>5. CASE command'[k].outcome = "BLOCKED" /\ effect'[k] = effect[k]
  <2>1. Entry(k)' = [Entry(k) EXCEPT !.stage = "refused"]
    BY <1>4, <1>5 DEF Entry, Stage, Allowed
  <2>2. Promise!Moves(k, {"none"}, "refused")
    BY <1>2, <1>3, <1>4, <2>1, MovesEntry DEF StageMoves
  <2>3. Promise!Refuse(k)
    BY <2>2 DEF Promise!Moves, Promise!Refuse
  <2> QED BY <2>3 DEF Promise!Next
<1>6. CASE command'[k].outcome = "ALLOW"
  <2>1. ~killActive /\ effect'[k].state = "CREATED" /\ effect'[k].epoch = epoch
    BY <1>6, AllowAdmits
  <2>2. /\ command'[k].plan = p /\ command'[k].auth = a
        /\ authorization[a] = "AVAILABLE" /\ ~PlanEntryClaimed(p)
    BY <1>1, <1>6 DEF ClaimFrame
  <2>3. p \in Plans /\ NoPlan # p /\ NoAuthorization # a
    BY AuthorizationAssumption, PlanAssumption
  <2>4. \A d \in Commands : Entry(d).plan # p /\ Entry(d).auth # a
    <3> SUFFICES ASSUME NEW d \in Commands PROVE Entry(d).plan # p /\ Entry(d).auth # a
      OBVIOUS
    <3>1. CASE Allowed(d)
      <4>1. PlanOf(d) # p
        BY <2>2, <3>1 DEF PlanEntryClaimed
      <4>2. authorization[command[d].auth] = "CONSUMED"
        BY <3>1 DEF ExclusiveClaims
      <4> QED BY <2>2, <3>1, <4>1, <4>2 DEF Entry
    <3>2. CASE ~Allowed(d)
      BY <2>3, <3>2 DEF Entry
    <3> QED BY <3>1, <3>2
  <2>5. Entry(k)' = [stage |-> "admitted", plan |-> p, auth |-> a, era |-> epoch]
    BY <1>6, <2>1, <2>2 DEF Entry, Stage, Allowed, Consumed, PlanOf
  <2>6. entryNow' = [entryNow EXCEPT ![k] = [stage |-> "admitted", plan |-> p, auth |-> a,
                                             era |-> epoch]]
    BY <1>3, <2>5 DEF OthersStay, entryNow
  <2>7. /\ entryNow[k].stage = "none"
        /\ \A d \in Commands : entryNow[d].plan # p /\ entryNow[d].auth # a
    BY <1>4, <2>4 DEF entryNow
  <2>8. Promise!Admit(k, p, a)
    BY <1>2, <2>1, <2>6, <2>7 DEF Promise!Admit, entryNow
  <2> QED BY <2>3, <2>8 DEF Promise!Next
<1> QED BY <1>1, <1>5, <1>6 DEF ClaimFrame

(* The operators' switch. *)
LEMMA SafetyRefines ==
    ASSUME SafetyNext
    PROVE  Promise!Next \/ UNCHANGED Promise!promiseVars
<1>1. UNCHANGED <<command, effect, worker, posts>>
  BY DEF SafetyNext, claimVars, dispatchVars
<1>2. \A d \in Commands : Entry(d)' = Entry(d)
  BY <1>1, EntrySame DEF PastGate, InPreflight
<1>3. CASE ActivateKill
  BY <1>2, <1>3, KillRefines DEF ActivateKill
<1>4. CASE DeactivateKill
  <2>1. entryNow' = entryNow
    BY <1>2 DEF entryNow
  <2>2. Promise!Resume
    BY <1>4, <2>1 DEF Promise!Resume, DeactivateKill, entryNow
  <2> QED BY <2>2 DEF Promise!Next
<1> QED BY <1>3, <1>4 DEF SafetyNext

(* Every other step leaves every entry alone. *)
LEMMA QuietRefines ==
    ASSUME UNCHANGED <<command, effect, worker, posts, killActive, epoch>>
    PROVE  UNCHANGED Promise!promiseVars
<1>1. \A d \in Commands : Entry(d)' = Entry(d)
  BY EntrySame DEF PastGate, InPreflight
<1> QED BY <1>1, EntriesStay

----------------------------------------------------------------------------
(* The initial states map to initial states.                               *)
LEMMA PromiseInit == Init => Promise!Init
<1> SUFFICES ASSUME Init PROVE Promise!Init
  OBVIOUS
<1>1. killActive = FALSE /\ epoch = 1
  BY DEF Init, SafetyInit
<1>2. ASSUME NEW c \in Commands
      PROVE  Entry(c) = Promise!Absent
  <2>1. command[c].outcome = "NONE" /\ effect[c].epoch = 0
    BY DEF Init, ClaimInit, NoCommand, NoEffect
  <2> QED BY <2>1, StageOf DEF Entry, Allowed, Promise!Absent
<1> QED BY <1>1, <1>2 DEF Promise!Init

(* Every step maps to a step or a stutter.                                 *)
LEMMA PromiseStep ==
    TypeInv /\ SendAuthorityUnique /\ ExclusiveClaims /\ [Next]_vars
       => [Promise!Next]_(Promise!promiseVars)
<1> SUFFICES ASSUME TypeInv, SendAuthorityUnique, ExclusiveClaims, [Next]_vars
             PROVE  Promise!Next \/ UNCHANGED Promise!promiseVars
  OBVIOUS
<1>1. CASE WorkerNext
  <2>1. UNCHANGED safetyVars \/ \E w \in Workers : ReconcileExit(w)
    BY <1>1, ZenonT(60)
       DEF WorkerNext, WorkerStep, StartProcess, StartReconcile, LeaseAndAuthorize,
           Consume, FinalGate, Post, RecordAnswer, Recover, Lookup, ReconcileEntry,
           PreflightRefuses, Crash
  <2>2. CASE UNCHANGED safetyVars
    BY <1>1, <2>2, WorkerNextFrame, WorkerRefines
  <2>3. CASE \E w \in Workers : ReconcileExit(w)
    <3>1. PICK w \in Workers : ReconcileExit(w)
      BY <2>3
    <3> QED BY <3>1, ExitRefines
  <2> QED BY <2>1, <2>2, <2>3
<1>2. CASE VenueNext
  <2>1. UNCHANGED <<command, effect, worker, posts, killActive, epoch>>
    BY <1>2 DEF VenueNext, VenueFill, VenueCancel, VenueReject, VenueExit, VenueStep,
                Rollback, claimVars, safetyVars
  <2> QED BY <2>1, QuietRefines
<1>3. CASE LedgerNext
  <2>1. ASSUME NEW k \in Commands, NEW a \in Authorizations, NEW refused \in BOOLEAN,
               NEW aged \in AgedSets, Claim(k, a, refused, aged), UNCHANGED dispatchVars
        PROVE  Promise!Next \/ UNCHANGED Promise!promiseVars
    BY <2>1, ClaimRefines
  <2>2. ASSUME NEW c \in Commands, NEW price \in Prices, NEW aged \in AgedSets,
               PaperFill(c, price, aged)
        PROVE  UNCHANGED Promise!promiseVars
    <3>1. UNCHANGED <<worker, posts, killActive, epoch>>
      BY <2>2 DEF PaperFill, dispatchVars, safetyVars
    <3>2. UNCHANGED <<command, effect>>
      BY <2>2, PaperFillFrame DEF RowFrame
    <3> QED BY <3>1, <3>2, QuietRefines
  <2>3. CASE NextDay /\ UNCHANGED <<safetyVars, claimVars, dispatchVars>>
    BY <2>3, QuietRefines DEF safetyVars, claimVars, dispatchVars
  <2> QED BY <1>3, <2>1, <2>2, <2>3 DEF LedgerNext
<1>4. CASE SafetyNext
  BY <1>4, SafetyRefines
<1>5. CASE ClaimNext
  <2>1. UNCHANGED <<command, effect, worker, posts, killActive, epoch>>
    BY <1>5 DEF ClaimNext, IssueAuthorization, RevokeAuthorization, ExpirePlan,
                dispatchVars, safetyVars
  <2> QED BY <2>1, QuietRefines
<1>6. CASE UNCHANGED vars
  BY <1>6, QuietRefines DEF vars, safetyVars, claimVars, dispatchVars
<1> QED BY <1>1, <1>2, <1>3, <1>4, <1>5, <1>6 DEF Next

(* The execution protocol implements EntryPromise: claim, dispatch, send,  *)
(* recovery and reconciliation by any number of workers never do to an     *)
(* entry order what the promise forbids.                                   *)
THEOREM PromiseKept == Spec => KeepsPromise
<1>1. Spec => []TypeInv /\ []SendAuthorityUnique /\ []ExclusiveClaims
  BY TypeCorrect, SendAuthority, ClaimsExclusive, PTL
<1>2. TypeInv /\ SendAuthorityUnique /\ ExclusiveClaims /\ [Next]_vars
         => [Promise!Next]_(Promise!promiseVars)
  BY PromiseStep
<1> QED BY <1>1, <1>2, PromiseInit, PTL DEF Spec, KeepsPromise, Promise!Spec

============================================================================
