---------------------------- MODULE MCPaperExit ----------------------------
(***************************************************************************)
(* Instances of PaperExit for TLC.                                         *)
(***************************************************************************)
EXTENDS PaperExit, TLC

CONSTANTS t1, t2

Sound == [daily |-> FALSE, drawdown |-> FALSE, ruined |-> FALSE]

(* A book within its limits, and one in drawdown beyond its daily limit. *)
SoundOrBroken == {Sound, [daily |-> TRUE, drawdown |-> TRUE, ruined |-> FALSE]}

AlwaysSound == {Sound}

(* A human takes a loss at time 3. *)
LossAtThree == {[at |-> 3, loss |-> TRUE]}

(* The first market takes both levels in one bar, the second one reaches   *)
(* targets.                                                                *)
Markets == [t \in Trades |-> IF t = t1 THEN {"none", "both"} ELSE {"none", "target"}]

Falling == [t \in Trades |-> {"none", "stop"}]

(* The monitors are interchangeable. *)
MonitorSymmetry == Permutations(Monitors)

============================================================================
