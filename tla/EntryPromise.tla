---------------------------- MODULE EntryPromise ----------------------------
(***************************************************************************)
(* What the execution of an account promises about the entry order of each *)
(* command, without workers, rows, fences, leases, crashes or replays.     *)
(*                                                                         *)
(* A command is refused or admitted once.  An admitted command is taken by *)
(* one sender, cleared against the kill switch, and sent; or it is dropped *)
(* on the way, and then it is never sent.                                  *)
(*                                                                         *)
(*   entry  : per command its stage, its plan and authorization, and the   *)
(*            era in which it was admitted                                 *)
(*   halted : trading is halted                                            *)
(*   era    : counts the halts                                             *)
(***************************************************************************)
EXTENDS Naturals

CONSTANTS Commands, Plans, Authorizations, NoPlan, NoAuthorization

VARIABLES entry, halted, era

promiseVars == <<entry, halted, era>>

Absent == [stage |-> "none", plan |-> NoPlan, auth |-> NoAuthorization, era |-> 0]

Init ==
    /\ entry = [c \in Commands |-> Absent]
    /\ halted = FALSE
    /\ era = 1

Refuse(c) ==
    /\ entry[c].stage = "none"
    /\ entry' = [entry EXCEPT ![c].stage = "refused"]
    /\ UNCHANGED <<halted, era>>

(* A plan is entered once and an authorization is used once, and nothing   *)
(* is admitted during a halt.                                              *)
Admit(c, p, a) ==
    /\ entry[c].stage = "none"
    /\ ~halted
    /\ \A d \in Commands : entry[d].plan # p /\ entry[d].auth # a
    /\ entry' = [entry EXCEPT ![c] = [stage |-> "admitted", plan |-> p, auth |-> a,
                                      era |-> era]]
    /\ UNCHANGED <<halted, era>>

Moves(c, from, to) ==
    /\ entry[c].stage \in from
    /\ entry' = [entry EXCEPT ![c].stage = to]
    /\ UNCHANGED <<halted, era>>

Take(c) == Moves(c, {"admitted"}, "taken")

(* Only a command of the current era passes, and only outside a halt.      *)
Clear(c) ==
    /\ ~halted /\ entry[c].era = era
    /\ Moves(c, {"taken"}, "cleared")

(* The last step is not stopped any more. *)
Send(c) == Moves(c, {"cleared"}, "sent")

Drop(c) == Moves(c, {"admitted", "taken", "cleared"}, "dropped")

Halt ==
    /\ ~halted
    /\ halted' = TRUE
    /\ era' = era + 1
    /\ UNCHANGED entry

Resume ==
    /\ halted
    /\ halted' = FALSE
    /\ UNCHANGED <<entry, era>>

Next ==
    \/ \E c \in Commands :
          \/ Refuse(c)
          \/ \E p \in Plans, a \in Authorizations : Admit(c, p, a)
          \/ Take(c) \/ Clear(c) \/ Send(c) \/ Drop(c)
    \/ Halt
    \/ Resume

Spec == Init /\ [][Next]_promiseVars

============================================================================
