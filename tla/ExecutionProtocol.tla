-------------------------- MODULE ExecutionProtocol --------------------------
(***************************************************************************)
(* The execution protocol of one account: operators issue and revoke       *)
(* authorizations and use the kill switch; claims are made for paper and   *)
(* demo plans; paper commands are filled internally; demo workers dispatch *)
(* and reconcile; the venue does what venues do; the clock moves.          *)
(***************************************************************************)
EXTENDS DemoReconcile

vars == <<safetyVars, ledgerVars, claimVars, dispatchVars>>

(* AutomatedPaperLoop and ExecutionService.apply_paper_plan_fill: the      *)
(* whole quantity at one price, under one source identity.  A replay finds *)
(* the fill fact and changes nothing.  The fact is inserted before the     *)
(* roll looks for orphans, so the filled command is not aged-unfilled.     *)
PaperFill(c, price, aged) ==
    LET q == PlanInfo[PlanOf(c)].quantity
        l == Roll(ledger, Orphans(aged \ {c}))
    IN
    /\ Allowed(c) /\ IsPaper(PlanOf(c))
    /\ receipt[c].filled = 0
    /\ q <= receipt[c].remaining
    /\ Commit(c, ApplyFills(Rows(c), c, l, q, q * price))
    /\ UNCHANGED <<dispatchVars, safetyVars>>

Init == SafetyInit /\ LedgerInit /\ ClaimInit /\ DispatchInit

(* The run of one worker, once started. *)
WorkerStep(w) ==
    \/ LeaseAndAuthorize(w)
    \/ Consume(w)
    \/ FinalGate(w)
    \/ Post(w)
    \/ RecordAnswer(w)
    \/ Recover(w)
    \/ Lookup(w)
    \/ ReconcileEntry(w)
    \/ ReconcileExit(w)

WorkerNext ==
    \E w \in Workers :
       \/ \E c \in Commands : StartProcess(w, c) \/ StartReconcile(w, c)
       \/ WorkerStep(w)
       \/ PreflightRefuses(w)
       \/ Crash(w)

ClaimNext ==
    /\ \/ \E a \in Authorizations : IssueAuthorization(a) \/ RevokeAuthorization(a)
       \/ \E p \in Plans : ExpirePlan(p)
    /\ UNCHANGED <<safetyVars, ledgerVars, dispatchVars>>

LedgerNext ==
    \/ \E k \in Commands, a \in Authorizations, refused \in BOOLEAN, aged \in AgedSets :
          Claim(k, a, refused, aged) /\ UNCHANGED dispatchVars
    \/ \E c \in Commands, price \in Prices, aged \in AgedSets : PaperFill(c, price, aged)
    \/ NextDay /\ UNCHANGED <<safetyVars, claimVars, dispatchVars>>

SafetyNext ==
    /\ ActivateKill \/ DeactivateKill
    /\ UNCHANGED <<ledgerVars, claimVars, dispatchVars>>

Next == ClaimNext \/ LedgerNext \/ SafetyNext \/ WorkerNext \/ VenueNext

Spec == Init /\ [][Next]_vars

(* A started run goes on, and the watcher's cycle comes back to every      *)
(* command of its batch.  Nothing makes the loop process a command again.  *)
Fairness ==
    \A w \in Workers : /\ WF_vars(WorkerStep(w))
                       /\ \A c \in Commands : SF_vars(StartReconcile(w, c))

FairSpec == Spec /\ Fairness

(* Every variable has its type: rows, workers and venue (ControlTypeOK),   *)
(* and the ledger, whose amounts never go below zero.                      *)
ControlTypeOK == SafetyTypeOK /\ ClaimTypeOK /\ DispatchTypeOK

TypeOK == ControlTypeOK /\ LedgerTypeOK

----------------------------------------------------------------------------
(* The demo venue is sent at most one entry POST per command, whatever the *)
(* workers, crashes and replays: authorize_dispatch hands the same fence   *)
(* to a second worker, and only the consuming marker of                    *)
(* attempt_governed_demo_send separates them.                              *)
AtMostOncePost == \A c \in Commands : posts[c] <= 1

(* The inductive reason for AtMostOncePost.  A worker between the          *)
(* consuming marker and the POST is alone with its command, nothing has    *)
(* been sent for that command, and once it is consumed or sent its effect  *)
(* never is dispatchable again.                                            *)
Sending(w) == worker[w].pc \in {"preflight", "gated"}

Consumed(c) == effect[c].state \in {"SEND_AMBIGUOUS", "SEND_ATTEMPTED", "PROVEN_UNSENT"}

SendAuthorityUnique ==
    /\ \A c \in Commands : /\ command[c].outcome # "ALLOW" => effect[c].state = "NONE"
                           /\ posts[c] > 0 => Consumed(c)
                           /\ posts[c] <= 1
    /\ \A w \in Workers : Sending(w) => /\ posts[worker[w].cmd] = 0
                                        /\ Consumed(worker[w].cmd)
    /\ \A v, w \in Workers : Sending(v) /\ Sending(w) /\ v # w
                                => worker[v].cmd # worker[w].cmd

(* claim: two allowed commands never share a plan revision or an           *)
(* authorization, and an allowed command's authorization stays consumed,   *)
(* although issue_authorization can race a claim and leave a second        *)
(* authorization for a plan already claimed.                               *)
ExclusiveClaims ==
    \A c \in Commands : Allowed(c) =>
       /\ authorization[command[c].auth] = "CONSUMED"
       /\ \A d \in Commands \ {c} : Allowed(d) => /\ PlanOf(d) # PlanOf(c)
                                                  /\ command[d].auth # command[c].auth

(* A kill activation fences every command claimed before it, for good:     *)
(* while the epoch differs from the claimed one and no worker had already  *)
(* passed _verify_demo_send_gate, nothing is sent, also after the switch   *)
(* is turned off again.                                                    *)
PastGate(c) == \E w \in Workers : worker[w].cmd = c /\ worker[w].pc = "gated"

KillFencesOldClaims ==
    [][\A c \in Commands :
          GovernedDemo(c) /\ (killActive \/ effect[c].epoch # epoch) /\ ~PastGate(c)
             => posts'[c] = posts[c] /\ ~PastGate(c)']_vars

(* An effect recorded as PROVEN_UNSENT was never sent, and is not about to *)
(* be: _block_before_dispatch releases the reservation on that ground.     *)
UnsentProofSound ==
    \A c \in Commands : effect[c].state = "PROVEN_UNSENT"
                           => posts[c] = 0 /\ ~PastGate(c)

(* While the venue can still fill a command's order, or holds fills that   *)
(* are not recorded, its risk reservation is not released.                 *)
ReservationCoversVenue ==
    \A c \in Commands :
       PastGate(c) \/ order[c].status = "open" \/ order[c].filled > receipt[c].filled
          => ledger.reservation[c].state # "RELEASED"

(* The demo account carries one entry at a time: has_demo_entry_history    *)
(* lets the next demo command in only when no earlier one can be open.     *)
Exposed(c) ==
    \/ PastGate(c)
    \/ order[c].status = "open"
    \/ order[c].filled > 0 /\ ~order[c].exited

OneDemoExposure ==
    \A c, d \in Commands : Exposed(c) /\ Exposed(d) => c = d

(* The accounting row is the sum of the reservation rows: reserved         *)
(* notional, in total and per instrument, reserved trade slots, and at     *)
(* least the loss budget of every trade whose reservation is live.         *)
LedgerMatches ==
    LET Res(c) == ledger.reservation[c]
        Rem == [c \in Commands |-> Res(c).remaining]
        live == {c \in Commands : Res(c).state \in {"CHARGED", "PARTIALLY_RELEASED"}}
        LossOf == [c \in live |-> PlanInfo[Res(c).plan].loss]
        On(i) == {c \in live : PlanInfo[Res(c).plan].instrument = i}
    IN  /\ ledger.account.reserved = SumFunction(Rem)
        /\ ledger.account.reservedSlots =
              Cardinality({c \in live : Res(c).converted = 0})
        /\ ledger.account.reservedLoss >= SumFunction(LossOf)
        /\ \A i \in Instruments :
              ledger.account.symbolReserved[i] = SumFunctionOnSet(Rem, On(i))

(* The open exposure of the account is exactly what unresolved fills are   *)
(* worth: reconciling or resolving twice would count or release it twice.  *)
ExposureMatches ==
    LET Value == [c \in Commands \ resolved |-> receipt[c].value]
    IN  ledger.account.actual = SumFunction(Value)

(* The books never hold a fill the venue does not: concurrent passes with  *)
(* the same or with older evidence record each fill once.                  *)
NoInventedFills ==
    \A c \in Commands :
       GovernedDemo(c) => /\ receipt[c].filled <= order[c].filled
                          /\ receipt[c].value <= order[c].value

(* The protocol keeps the promise of EntryPromise.  The stage of a command *)
(* is read off the effect row, the POSTs and the workers: it is taken      *)
(* while some worker is between the consuming marker and the final gate,   *)
(* and dropped once it is consumed and nobody is about to send it.         *)
InPreflight(c) == \E w \in Workers : worker[w].cmd = c /\ worker[w].pc = "preflight"

Stage(c) ==
    CASE command[c].outcome = "NONE"    -> "none"
      [] command[c].outcome = "BLOCKED" -> "refused"
      [] Allowed(c) /\ ~Consumed(c)     -> "admitted"
      [] Allowed(c) /\ Consumed(c)      ->
            IF posts[c] > 0 THEN "sent"
            ELSE IF PastGate(c) THEN "cleared"
            ELSE IF InPreflight(c) THEN "taken" ELSE "dropped"

Entry(c) == [stage |-> Stage(c),
             plan |-> IF Allowed(c) THEN PlanOf(c) ELSE NoPlan,
             auth |-> IF Allowed(c) THEN command[c].auth ELSE NoAuthorization,
             era |-> effect[c].epoch]

Promise == INSTANCE EntryPromise WITH
             entry <- [c \in Commands |-> Entry(c)],
             halted <- killActive,
             era <- epoch

(* Every behaviour of the protocol is one of EntryPromise: one send per    *)
(* admitted command, none after a halt unless it was cleared before it,    *)
(* no second life for a command that was dropped.                          *)
KeepsPromise == Promise!Spec

(* Every fill at the venue is eventually recorded, through lost answers,   *)
(* crashes and an active kill switch.                                      *)
FillsEventuallyRecorded ==
    \A c \in Commands :
       (order[c].filled > receipt[c].filled) ~> (order[c].filled = receipt[c].filled)

(* A POST whose order exists at the venue does not stay uncertain: the     *)
(* read by client order id settles it.                                     *)
UncertaintySettles ==
    \A c \in Commands :
       (order[c].status # "none" /\ effect[c].uncertain) ~> ~effect[c].uncertain

----------------------------------------------------------------------------
(* Statements of the documentation and the docstrings that the code does   *)
(* not keep; the README says how TLC refutes each.                         *)

(* docs/governed_demo_lifecycle.md: the claim gate ignores a previous demo *)
(* ALLOW only with its lifecycle resolution, so at most one demo command   *)
(* is allowed and unresolved.                                              *)
DemoGateNeedsResolution ==
    \A c, d \in Commands :
       GovernedDemo(c) /\ GovernedDemo(d) /\ c \notin resolved /\ d \notin resolved
          => c = d

(* docs/redesign/agentic_redesign_target_architecture.md: the receipt      *)
(* state machine has no transition out of CANCELLED.                       *)
CancelledIsFinal ==
    [][\A c \in Commands :
          receipt[c].state = "CANCELLED" => receipt'[c].state = "CANCELLED"]_vars

============================================================================
