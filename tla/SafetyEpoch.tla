---------------------------- MODULE SafetyEpoch ----------------------------
(***************************************************************************)
(* The organization kill switch and the account safety epoch.              *)
(*                                                                         *)
(* One organization with one execution account: the account row is locked  *)
(* (SELECT ... FOR UPDATE) by every transaction that claims, leases,       *)
(* authorizes, consumes or reconciles, so those transactions are           *)
(* serialized and each is one atomic step of the modules above.            *)
(*                                                                         *)
(*   killActive : kill_switch_state.active                                 *)
(*   epoch      : account_safety_epoch.epoch, advanced by each activation  *)
(*   blocking   : account_safety_epoch.blocking                            *)
(***************************************************************************)
EXTENDS Naturals

CONSTANT MaxEpoch      \* bound on the epoch: MaxEpoch - 1 activations

ASSUME MaxEpochAssumption == MaxEpoch \in Nat /\ MaxEpoch >= 2

VARIABLES killActive, epoch, blocking

safetyVars == <<killActive, epoch, blocking>>

SafetyTypeOK ==
    /\ killActive \in BOOLEAN
    /\ epoch \in 1..MaxEpoch
    /\ blocking \in BOOLEAN
    /\ ~killActive => epoch < MaxEpoch

SafetyInit ==
    /\ killActive = FALSE
    /\ epoch = 1
    /\ blocking = FALSE

----------------------------------------------------------------------------
(* Mutant: an active switch is activated again. *)
KillActivateAgain ==
    /\ killActive' = TRUE
    /\ epoch' = epoch + 1
    /\ blocking' = TRUE

(* KillSwitchService.activate: a switch that is already active is left     *)
(* alone; otherwise the row and every account epoch change together, in    *)
(* the caller's transaction.  Reconciliation calls it too, so this is an   *)
(* action without a guard.                                                 *)
KillActivate ==
    IF killActive
    THEN UNCHANGED safetyVars
    ELSE /\ killActive' = TRUE
         /\ epoch' = epoch + 1
         /\ blocking' = TRUE

(* The operator activates a switch that is off. *)
ActivateKill ==
    /\ ~killActive
    /\ KillActivate

(* KillSwitchService.deactivate clears the block and keeps the epoch.  The *)
(* model stops deactivating once the epoch has reached its bound.          *)
DeactivateKill ==
    /\ killActive
    /\ epoch < MaxEpoch
    /\ killActive' = FALSE
    /\ blocking' = FALSE
    /\ UNCHANGED epoch

(* Mutant: only the live switch blocks, the claimed epoch is not compared. *)
SafetyBlocksWhileActive(claimedEpoch) == killActive \/ blocking

(* VenueSubmitDispatcher._safety_blocks_dispatch: the switch is active, or *)
(* the account is blocking, or the command was claimed under an older      *)
(* epoch.                                                                  *)
SafetyBlocksDispatch(claimedEpoch) ==
    killActive \/ blocking \/ claimedEpoch # epoch

============================================================================
