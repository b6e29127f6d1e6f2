----------------------------- MODULE RiskLedger -----------------------------
(***************************************************************************)
(* The account risk ledger: one accounting row of the account, and one     *)
(* reservation row per allowed command.                                    *)
(*                                                                         *)
(* A transaction applies several ledger operations in a row (a paper fill  *)
(* rolls the day, then converts), so each operation is an operator from a  *)
(* ledger to a ledger and the actions above compose them.  Decimal money   *)
(* is a natural number of quote units; only sums and comparisons matter.   *)
(*                                                                         *)
(*   ledger.account     : account_risk_accounting_state                    *)
(*   ledger.reservation : risk_reservation, by command                     *)
(*   today              : the local trading day of the user's time zone    *)
(***************************************************************************)
EXTENDS Naturals, FiniteSets, Functions

CONSTANTS
    Commands,        \* execution commands, one per idempotency key
    Plans,           \* trade plan revisions
    NoPlan,          \* the plan of a reservation that does not exist
    Instruments,
    PlanInfo,        \* [Plans -> [venue, instrument, quantity, notional, loss]]
    MaxNotional,     \* accounting.max_notional
    MaxDailyLoss,    \* accounting.max_daily_loss
    MaxTradeSlots,   \* accounting.max_trade_slots
    MaxSymbolNotional,
    LastDay          \* bound on today

Venues == {"PAPER_INTERNAL", "BLOFIN_DEMO"}

ASSUME CommandAssumption == IsFiniteSet(Commands)

ASSUME PlanAssumption ==
    /\ NoPlan \notin Plans
    /\ PlanInfo \in [Plans -> [venue : Venues, instrument : Instruments,
                               quantity : Nat \ {0}, notional : Nat \ {0},
                               loss : Nat]]

ASSUME LimitAssumption ==
    /\ MaxNotional \in Nat
    /\ MaxDailyLoss \in Nat
    /\ MaxTradeSlots \in Nat
    /\ MaxSymbolNotional \in Nat
    /\ LastDay \in Nat \ {0}

VARIABLES ledger, today

ledgerVars == <<ledger, today>>

IsPaper(p) == PlanInfo[p].venue = "PAPER_INTERNAL"
IsDemo(p) == PlanInfo[p].venue = "BLOFIN_DEMO"

(* Reservation rows.  daily_trade_allocation is always one, so             *)
(* converted_trade_slots is 0 or 1.  "since" is the day of created_at.     *)
ReservationStates == {"NONE", "CHARGED", "PARTIALLY_RELEASED", "RELEASED"}

Reservation == [state : ReservationStates, plan : Plans \cup {NoPlan},
                remaining : Nat, converted : {0, 1}, since : Nat]

(* day 0 is trade_slot_business_date = NULL: no paper caller rolled yet.   *)
Account == [reserved : Nat, reservedLoss : Nat, reservedSlots : Nat,
            actual : Nat, tradeCount : Nat,
            symbolReserved : [Instruments -> Nat],
            symbolActual : [Instruments -> Nat], day : Nat]

LedgerTypeOK ==
    /\ ledger \in [account : Account, reservation : [Commands -> Reservation]]
    /\ \A c \in Commands : ledger.reservation[c].state = "NONE"
                           <=> ledger.reservation[c].plan = NoPlan
    /\ today \in 1..LastDay

NoReservation == [state |-> "NONE", plan |-> NoPlan, remaining |-> 0,
                  converted |-> 0, since |-> 0]

EmptyAccount == [reserved |-> 0, reservedLoss |-> 0, reservedSlots |-> 0,
                 actual |-> 0, tradeCount |-> 0,
                 symbolReserved |-> [i \in Instruments |-> 0],
                 symbolActual |-> [i \in Instruments |-> 0], day |-> 0]

LedgerInit ==
    /\ ledger = [account |-> EmptyAccount,
                 reservation |-> [c \in Commands |-> NoReservation]]
    /\ today = 1

NextDay ==
    /\ today < LastDay
    /\ today' = today + 1
    /\ UNCHANGED ledger

----------------------------------------------------------------------------
(* Every subtraction of the code stops at zero. *)
Minus(a, b) == IF a >= b THEN a - b ELSE 0

Smaller(a, b) == IF a <= b THEN a ELSE b

(* charge_reservation and the new risk_reservation row of _persist_allow. *)
Charge(l, c, p) ==
    LET i == PlanInfo[p].instrument
        n == PlanInfo[p].notional
    IN  [account |->
           [l.account EXCEPT !.reserved = @ + n,
                             !.reservedLoss = @ + PlanInfo[p].loss,
                             !.reservedSlots = @ + 1,
                             !.symbolReserved[i] = @ + n],
         reservation |->
           [l.reservation EXCEPT ![c] =
              [state |-> "CHARGED", plan |-> p, remaining |-> n,
               converted |-> 0, since |-> today]]]

(* Mutant: the conversion is not limited to what is still reserved. *)
ConvertWithoutLimit(l, c, value) ==
    LET r == l.reservation[c]
        i == PlanInfo[r.plan].instrument
    IN  [account |->
           [l.account EXCEPT
              !.reserved = Minus(@, value),
              !.actual = @ + value,
              !.symbolReserved[i] = Minus(@, value),
              !.symbolActual[i] = @ + value,
              !.reservedSlots = IF r.state = "RELEASED" THEN @
                                ELSE Minus(@, 1 - r.converted),
              !.tradeCount = @ + 1 - r.converted],
         reservation |->
           [l.reservation EXCEPT ![c].state = IF @ = "RELEASED" THEN @
                                              ELSE "PARTIALLY_RELEASED",
                                 ![c].remaining = @ - value,
                                 ![c].converted = 1]]

(* Mutant: the slot of a reservation that the day roll already released is *)
(* given back a second time.                                               *)
ConvertReleasedSlotAgain(l, c, value) ==
    LET r == l.reservation[c]
        i == PlanInfo[r.plan].instrument
        convert == Smaller(value, r.remaining)
    IN  [account |->
           [l.account EXCEPT
              !.reserved = Minus(@, convert),
              !.actual = @ + value,
              !.symbolReserved[i] = Minus(@, convert),
              !.symbolActual[i] = @ + value,
              !.reservedSlots = Minus(@, 1 - r.converted),
              !.tradeCount = @ + 1 - r.converted],
         reservation |->
           [l.reservation EXCEPT ![c].state = IF @ = "RELEASED" THEN @
                                              ELSE "PARTIALLY_RELEASED",
                                 ![c].remaining = @ - convert,
                                 ![c].converted = 1]]

(* convert_reservation_for_fill, for fills worth "value" quote units.      *)
(* Converting one fill after another takes the same total as converting    *)
(* their sum.  A released reservation stays released: its slot was already *)
(* given back and only the completed trade is counted.                     *)
ConvertForFill(l, c, value) ==
    LET r == l.reservation[c]
        i == PlanInfo[r.plan].instrument
        convert == Smaller(value, r.remaining)
        released == r.state = "RELEASED"
        unconverted == 1 - r.converted
    IN  [account |->
           [l.account EXCEPT
              !.reserved = Minus(@, convert),
              !.actual = @ + value,
              !.symbolReserved[i] = Minus(@, convert),
              !.symbolActual[i] = @ + value,
              !.reservedSlots = IF released THEN @ ELSE Minus(@, unconverted),
              !.tradeCount = @ + unconverted],
         reservation |->
           [l.reservation EXCEPT ![c] =
              [r EXCEPT !.state = IF released THEN @ ELSE "PARTIALLY_RELEASED",
                        !.remaining = @ - convert,
                        !.converted = 1]]]

(* VenueSubmitDispatcher._release_unused_reservation for a demo plan (its  *)
(* ledger lock does not roll the day): nothing unused, nothing to do.  A   *)
(* filled trade keeps its loss budget.                                     *)
ReleaseUnused(l, c) ==
    LET r == l.reservation[c]
        i == PlanInfo[r.plan].instrument
    IN  IF r.remaining = 0
        THEN l
        ELSE [account |->
                [l.account EXCEPT
                   !.reserved = Minus(@, r.remaining),
                   !.reservedLoss = IF r.converted = 0
                                    THEN Minus(@, PlanInfo[r.plan].loss)
                                    ELSE @,
                   !.reservedSlots = Minus(@, 1 - r.converted),
                   !.symbolReserved[i] = Minus(@, r.remaining)],
              reservation |->
                [l.reservation EXCEPT ![c] =
                   [r EXCEPT !.state = "RELEASED", !.remaining = 0]]]

(* The accounting part of resolve_verified_demo_exit: it refuses a ledger  *)
(* that cannot cover the release, and keeps loss budget and trade count.   *)
CanReleaseExit(l, c, exposure) ==
    LET r == l.reservation[c]
        i == PlanInfo[r.plan].instrument
    IN  /\ l.account.actual >= exposure
        /\ l.account.reserved >= r.remaining
        /\ l.account.symbolActual[i] >= exposure
        /\ l.account.symbolReserved[i] >= r.remaining

(* Mutant: the reserved amount is released in place of the filled value. *)
ReleaseReservedAmount(l, c, exposure) ==
    LET r == l.reservation[c]
        i == PlanInfo[r.plan].instrument
        n == PlanInfo[r.plan].notional
    IN  [account |-> [l.account EXCEPT !.actual = Minus(@, n),
                                       !.reserved = Minus(@, r.remaining),
                                       !.symbolActual[i] = Minus(@, n),
                                       !.symbolReserved[i] = Minus(@, r.remaining)],
         reservation |-> [l.reservation EXCEPT ![c].state = "RELEASED",
                                               ![c].remaining = 0]]

ReleaseExit(l, c, exposure) ==
    LET r == l.reservation[c]
        i == PlanInfo[r.plan].instrument
    IN  [account |->
           [l.account EXCEPT !.actual = Minus(@, exposure),
                             !.reserved = Minus(@, r.remaining),
                             !.symbolActual[i] = Minus(@, exposure),
                             !.symbolReserved[i] = Minus(@, r.remaining)],
         reservation |->
           [l.reservation EXCEPT ![c] =
              [r EXCEPT !.state = "RELEASED", !.remaining = 0]]]

----------------------------------------------------------------------------
(* SafetyEpochService._roll_daily_trade_slots.  A ledger stamped with      *)
(* today is left alone.  Otherwise the orphaned paper reservations are     *)
(* released, the completed-trade count restarts and the day is stamped.    *)
(* "orphans" is _orphan_cause's answer for the rows.                       *)
Roll(l, orphans) ==
    LET Res(c) == l.reservation[c]
        Rem == [c \in orphans |-> Res(c).remaining]
        Slot == [c \in orphans |-> 1 - Res(c).converted]
        LossOf == [c \in orphans |-> IF Res(c).converted = 0
                                     THEN PlanInfo[Res(c).plan].loss ELSE 0]
        On(i) == {c \in orphans : PlanInfo[Res(c).plan].instrument = i}
    IN  IF l.account.day = today
        THEN l
        ELSE [account |->
                [l.account EXCEPT
                   !.reserved = Minus(@, SumFunction(Rem)),
                   !.reservedLoss = Minus(@, SumFunction(LossOf)),
                   !.reservedSlots = Minus(@, SumFunction(Slot)),
                   !.symbolReserved =
                      [i \in Instruments |-> Minus(@[i], SumFunctionOnSet(Rem, On(i)))],
                   !.tradeCount = 0,
                   !.day = today],
              reservation |->
                [c \in Commands |->
                   IF c \in orphans
                   THEN [Res(c) EXCEPT !.state = "RELEASED", !.remaining = 0]
                   ELSE Res(c)]]

(* evaluate_claim_predicate's capacity checks.  daily_locked and           *)
(* actual_daily_loss are never written by the code: FALSE and 0.           *)
HasCapacity(l, p) ==
    LET i == PlanInfo[p].instrument
        n == PlanInfo[p].notional
        a == l.account
    IN  /\ n + a.reserved + a.actual <= MaxNotional
        /\ PlanInfo[p].loss + a.reservedLoss <= MaxDailyLoss
        /\ 1 + a.reservedSlots + a.tradeCount <= MaxTradeSlots
        /\ n + a.symbolReserved[i] + a.symbolActual[i] <= MaxSymbolNotional

============================================================================
