----------------------------- MODULE MCExecution -----------------------------
(***************************************************************************)
(* Instances of ExecutionProtocol for TLC.  Quantities and money are the   *)
(* smallest that show a partial fill (quantity 2) and an allowance on top  *)
(* of the quoted value (2 reserved per unit, fills worth 1 to 3).          *)
(***************************************************************************)
EXTENDS ExecutionProtocol, TLC

CONSTANTS d1, d2,        \* demo plans
          p1, p2,        \* paper plans
          a1, a2, a3, a4 \* authorizations

Demo(q, i) == [venue |-> "BLOFIN_DEMO", instrument |-> i, quantity |-> q,
               notional |-> 2 * q, loss |-> 1]

Paper(i) == [venue |-> "PAPER_INTERNAL", instrument |-> i, quantity |-> 1,
             notional |-> 2, loss |-> 1]

(* One demo plan with partial fills. *)
OneDemo == [p \in {d1} |-> Demo(2, "BTC")]
OneDemoAuthorized == [a \in {a1} |-> d1]

(* Two demo plans, the first with partial fills. *)
TwoDemo == [p \in {d1, d2} |-> IF p = d1 THEN Demo(2, "BTC") ELSE Demo(1, "BTC")]
TwoDemoAuthorized == [a \in {a1, a2} |-> IF a = a1 THEN d1 ELSE d2]

(* Two demo plans of one unit. *)
TwoUnits == [p \in {d1, d2} |-> Demo(1, "BTC")]

(* A demo plan and two paper plans on two instruments, two authorizations *)
(* for the first paper plan.                                               *)
Shared == [p \in {d1, p1, p2} |->
             IF p = d1 THEN Demo(1, "BTC")
             ELSE IF p = p1 THEN Paper("BTC") ELSE Paper("ETH")]
SharedAuthorized == [a \in {a1, a2, a3, a4} |->
                       IF a = a1 THEN d1 ELSE IF a = a4 THEN p2 ELSE p1]

WorkerSymmetry == Permutations(Workers)
KeySymmetry == Permutations(Commands)
SharedSymmetry == KeySymmetry \cup Permutations({a2, a3})

============================================================================
