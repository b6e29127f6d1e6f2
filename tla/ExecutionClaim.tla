--------------------------- MODULE ExecutionClaim ---------------------------
(***************************************************************************)
(* Authorizations and the atomic execution claim.                          *)
(*                                                                         *)
(* PaperPlanClaimService.claim binds an idempotency key once, revalidates  *)
(* plan and authorization under their row locks, applies the safety and    *)
(* risk predicate under the epoch lock, and in the same transaction either *)
(* stores a BLOCKED command or an ALLOW command with its receipt,          *)
(* reservation and venue effect.  One transaction, one action.             *)
(*                                                                         *)
(* A command is named by the idempotency key that created it.              *)
(*                                                                         *)
(*   command       : execution_command and its idempotency binding         *)
(*   authorization : approval_authorization.state                          *)
(*   expired       : plans whose valid_until has passed                    *)
(*   effect        : venue_submit_effect, by command                       *)
(*   receipt       : execution_projection (with the sum of its fill facts) *)
(*   claims        : allowed commands in the order of created_at           *)
(*   resolved      : commands with a governed_demo_lifecycle_resolution    *)
(***************************************************************************)
EXTENDS SafetyEpoch, RiskLedger, Sequences

CONSTANTS
    Authorizations,
    NoAuthorization,
    AuthorizedPlan      \* [Authorizations -> Plans]

ASSUME AuthorizationAssumption ==
    /\ NoAuthorization \notin Authorizations
    /\ AuthorizedPlan \in [Authorizations -> Plans]

VARIABLES command, authorization, expired, effect, receipt, claims, resolved

claimVars == <<command, authorization, expired, effect, receipt, claims, resolved>>

AuthorizationStates == {"NONE", "AVAILABLE", "CONSUMED", "REVOKED"}

EffectStates == {"NONE", "CREATED", "DISPATCH_AUTHORIZED", "SEND_AMBIGUOUS",
                 "SEND_ATTEMPTED", "PROVEN_UNSENT"}

Dispositions == {"NOT_SENT", "AMBIGUOUS", "ACCEPTED", "REJECTED",
                 "PROVEN_UNSENT", "DEMO_UNFILLED", "DEMO_PROTECTED",
                 "DEMO_PROTECTION_MISSING", "DEMO_LIQUIDATION_HOLD",
                 "DEMO_CLOSED_RECONCILED"}

ReceiptStates == {"NONE", "BLOCKED", "SUBMITTING", "RECONCILIATION_REQUIRED",
                  "ACKNOWLEDGED", "PARTIALLY_FILLED", "REJECTED", "CANCELLED",
                  "PARTIALLY_FILLED_CANCELLED", "BLOCKED_BEFORE_DISPATCH"}

(* _TERMINAL_RECEIPT_STATES, as far as the code writes them. *)
TerminalReceiptStates == {"BLOCKED", "BLOCKED_BEFORE_DISPATCH", "REJECTED",
                          "CANCELLED", "PARTIALLY_FILLED_CANCELLED"}

Command == [outcome : {"NONE", "ALLOW", "BLOCKED"},
            plan : Plans \cup {NoPlan},
            auth : Authorizations \cup {NoAuthorization}]

(* owner: every demo worker leases as "demo:<command id>", so the owner    *)
(* says only whether the effect is owned.  A dispatch fence of 0 is NULL.  *)
Effect == [state : EffectStates, owned : BOOLEAN, fence : Nat,
           dispatchFence : Nat, epoch : Nat, uncertain : BOOLEAN,
           disposition : Dispositions]

Receipt == [state : ReceiptStates, filled : Nat, value : Nat, remaining : Nat]

NoCommand == [outcome |-> "NONE", plan |-> NoPlan, auth |-> NoAuthorization]

NoEffect == [state |-> "NONE", owned |-> FALSE, fence |-> 0,
             dispatchFence |-> 0, epoch |-> 0, uncertain |-> FALSE,
             disposition |-> "NOT_SENT"]

NoReceipt == [state |-> "NONE", filled |-> 0, value |-> 0, remaining |-> 0]

ClaimTypeOK ==
    /\ command \in [Commands -> Command]
    /\ authorization \in [Authorizations -> AuthorizationStates]
    /\ expired \subseteq Plans
    /\ effect \in [Commands -> Effect]
    /\ receipt \in [Commands -> Receipt]
    /\ claims \in Seq(Commands)
    /\ resolved \subseteq Commands

ClaimInit ==
    /\ command = [c \in Commands |-> NoCommand]
    /\ authorization = [a \in Authorizations |-> "NONE"]
    /\ expired = {}
    /\ effect = [c \in Commands |-> NoEffect]
    /\ receipt = [c \in Commands |-> NoReceipt]
    /\ claims = << >>
    /\ resolved = {}

Allowed(c) == command[c].outcome = "ALLOW"
PlanOf(c) == command[c].plan
GovernedDemo(c) == Allowed(c) /\ IsDemo(PlanOf(c))

----------------------------------------------------------------------------
(* ApprovalService.issue_authorization.  A unique index keeps one          *)
(* AVAILABLE row per plan.  The lookup of a CONSUMED row to reuse takes no *)
(* lock, so a claim may consume between that lookup and the insert: a      *)
(* consumed plan does not exclude a new AVAILABLE row.                     *)
IssueAuthorization(a) ==
    /\ authorization[a] = "NONE"
    /\ AuthorizedPlan[a] \notin expired
    /\ \A b \in Authorizations :
          AuthorizedPlan[b] = AuthorizedPlan[a] => authorization[b] # "AVAILABLE"
    /\ authorization' = [authorization EXCEPT ![a] = "AVAILABLE"]
    /\ UNCHANGED <<command, expired, effect, receipt, claims, resolved>>

(* ApprovalService.revoke_authorization: compare-and-set from AVAILABLE.   *)
RevokeAuthorization(a) ==
    /\ authorization[a] = "AVAILABLE"
    /\ authorization' = [authorization EXCEPT ![a] = "REVOKED"]
    /\ UNCHANGED <<command, expired, effect, receipt, claims, resolved>>

(* The clock passes valid_until of a plan. *)
ExpirePlan(p) ==
    /\ p \notin expired
    /\ expired' = expired \cup {p}
    /\ UNCHANGED <<command, authorization, effect, receipt, claims, resolved>>

----------------------------------------------------------------------------
(* Mutant: a settled send without fills counts as over, although its order *)
(* may still be working at the venue.                                      *)
UnfilledAndSettled(c) ==
    /\ receipt[c].filled = 0
    /\ ~effect[c].uncertain
    /\ effect[c].state \in {"SEND_ATTEMPTED", "PROVEN_UNSENT"}

(* has_demo_entry_history: an ALLOW demo command holds the account until   *)
(* it has a lifecycle resolution, or until it is proven unfilled and its   *)
(* whole reservation is released.                                          *)
UnfilledAndReleased(c) ==
    /\ ledger.reservation[c].state = "RELEASED"
    /\ ledger.reservation[c].remaining = 0
    /\ ledger.reservation[c].converted = 0
    /\ receipt[c].filled = 0
    /\ receipt[c].state \in {"CANCELLED", "REJECTED", "BLOCKED_BEFORE_DISPATCH"}
    /\ ~effect[c].uncertain
    /\ effect[c].state \in {"SEND_ATTEMPTED", "PROVEN_UNSENT"}

HasDemoEntryHistory ==
    \E c \in Commands : /\ GovernedDemo(c)
                        /\ c \notin resolved
                        /\ ~UnfilledAndReleased(c)

(* Mutant: no unique constraint on the plan entry. *)
NoPlanEntryConstraint(p) == FALSE

(* The unique plan-entry claim: one ALLOW per plan revision. *)
PlanEntryClaimed(p) == \E c \in Commands : Allowed(c) /\ PlanOf(c) = p

(* _orphan_cause for the rows of the roll: a live paper reservation whose  *)
(* receipt or effect is terminal, or that is over six hours old without a  *)
(* fill.  "aged" are the commands older than six hours.                    *)
Orphans(aged) ==
    {c \in Commands :
       /\ ledger.reservation[c].state \notin {"NONE", "RELEASED"}
       /\ IsPaper(ledger.reservation[c].plan)
       /\ \/ receipt[c].state \in TerminalReceiptStates
          \/ effect[c].state = "PROVEN_UNSENT"
          \/ effect[c].disposition = "REJECTED"
          \/ ledger.reservation[c].converted = 0 /\ c \in aged}

(* Six hours pass for the older claims first, always for a claim made two  *)
(* days ago, and never within the stamped day.                             *)
AgedSets ==
    {S \in {{claims[j] : j \in 1..n} : n \in 0..Len(claims)} :
       /\ ledger.account.day = today => S = {}
       /\ \A c \in Commands : Allowed(c) /\ ledger.reservation[c].since + 1 < today
                              /\ ledger.account.day # today => c \in S}

(* SafetyEpochService.lock_risk_accounting: only paper callers roll.       *)
LockedLedger(p, orphans) == IF IsPaper(p) THEN Roll(ledger, orphans) ELSE ledger

(* _persist_blocked *)
PersistBlocked(k, a, l) ==
    LET p == AuthorizedPlan[a] IN
    /\ command' = [command EXCEPT ![k] =
                     [outcome |-> "BLOCKED", plan |-> p, auth |-> a]]
    /\ receipt' = [receipt EXCEPT ![k] =
                     [state |-> "BLOCKED", filled |-> 0, value |-> 0,
                      remaining |-> PlanInfo[p].quantity]]
    /\ ledger' = l
    /\ UNCHANGED <<authorization, effect, claims>>

(* _persist_allow *)
PersistAllow(k, a, l) ==
    LET p == AuthorizedPlan[a] IN
    /\ command' = [command EXCEPT ![k] =
                     [outcome |-> "ALLOW", plan |-> p, auth |-> a]]
    /\ receipt' = [receipt EXCEPT ![k] =
                     [state |-> "SUBMITTING", filled |-> 0, value |-> 0,
                      remaining |-> PlanInfo[p].quantity]]
    /\ authorization' = [authorization EXCEPT ![a] = "CONSUMED"]
    /\ ledger' = Charge(l, k, p)
    /\ effect' = [effect EXCEPT ![k] = [NoEffect EXCEPT !.state = "CREATED",
                                                        !.epoch = epoch]]
    /\ claims' = Append(claims, k)

(* The claim's predicate.  "refused" stands for the checks that read state *)
(* outside this model: reward/risk, the revalidation hook, experiment and  *)
(* profile caps, an authorization past its own expiry.                     *)
ClaimAllows(a, l, refused) ==
    LET p == AuthorizedPlan[a] IN
    /\ ~refused
    /\ authorization[a] = "AVAILABLE"
    /\ p \notin expired
    /\ IsDemo(p) => ~HasDemoEntryHistory
    /\ ~blocking /\ ~killActive
    /\ HasCapacity(l, p)
    /\ ~PlanEntryClaimed(p)

(* PaperPlanClaimService.claim for a key not bound yet.  A bound key       *)
(* replays its stored result (or conflicts with it) and writes nothing.    *)
(* The day roll of a paper claim is kept when the claim is BLOCKED.        *)
Claim(k, a, refused, aged) ==
    /\ command[k].outcome = "NONE"
    /\ authorization[a] # "NONE"
    /\ LET l == LockedLedger(AuthorizedPlan[a], Orphans(aged))
       IN  IF ClaimAllows(a, l, refused)
           THEN PersistAllow(k, a, l)
           ELSE PersistBlocked(k, a, l)
    /\ UNCHANGED <<expired, resolved, today, safetyVars>>

============================================================================
