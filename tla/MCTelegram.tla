----------------------------- MODULE MCTelegram -----------------------------
(***************************************************************************)
(* The instance of TelegramRuntime for TLC.                                *)
(***************************************************************************)
EXTENDS TelegramRuntime, TLC

(* The replicas are interchangeable. *)
WorkerSymmetry == Permutations(Workers)

============================================================================
