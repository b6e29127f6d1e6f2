---------------------------- MODULE LedgerProofs ----------------------------
(***************************************************************************)
(* The account risk ledger: its totals are the sums of the reservation     *)
(* rows and of the unresolved fills, for every number of commands, plans,  *)
(* instruments and workers, and for every limit and every price.           *)
(***************************************************************************)
EXTENDS ExecutionProtocolProofs, SetArithmetic

----------------------------------------------------------------------------
(* The share of one reservation row in each total of the account. *)
Live == {"CHARGED", "PARTIALLY_RELEASED"}

SlotShare(r) == IF r.state \in Live /\ r.converted = 0 THEN 1 ELSE 0
LossShare(r) == IF r.state \in Live THEN PlanInfo[r.plan].loss ELSE 0
SymbolShare(r, i) ==
    IF r.state \in Live /\ PlanInfo[r.plan].instrument = i THEN r.remaining ELSE 0

(* A reservation that is not live keeps nothing reserved. *)
RowOK(r) ==
    /\ r \in Reservation
    /\ r.state = "NONE" <=> r.plan = NoPlan
    /\ r.state \notin Live => r.remaining = 0

RemTotal(res) == SumFunctionOnSet([c \in Commands |-> res[c].remaining], Commands)
SlotTotal(res) == SumFunctionOnSet([c \in Commands |-> SlotShare(res[c])], Commands)
LossTotal(res) == SumFunctionOnSet([c \in Commands |-> LossShare(res[c])], Commands)
SymbolTotal(res, i) ==
    SumFunctionOnSet([c \in Commands |-> SymbolShare(res[c], i)], Commands)

Totals(a, res) ==
    /\ a.reserved = RemTotal(res)
    /\ a.reservedSlots = SlotTotal(res)
    /\ a.reservedLoss >= LossTotal(res)
    /\ \A i \in Instruments : a.symbolReserved[i] = SymbolTotal(res, i)

(* The invariant of a ledger that the operations on it preserve. *)
LedgerOK(l) ==
    /\ l = [account |-> l.account, reservation |-> l.reservation]
    /\ l.account \in Account
    /\ l.reservation \in [Commands -> Reservation]
    /\ \A c \in Commands : RowOK(l.reservation[c])
    /\ Totals(l.account, l.reservation)

LEMMA RowShares ==
    ASSUME NEW r, RowOK(r)
    PROVE  /\ r.remaining \in Nat /\ r.converted \in {0, 1} /\ r.state \in ReservationStates
           /\ SlotShare(r) \in Nat /\ LossShare(r) \in Nat
           /\ \A i : SymbolShare(r, i) \in Nat
           /\ r.state # "NONE" => /\ r.plan \in Plans
                                  /\ PlanInfo[r.plan].loss \in Nat
                                  /\ PlanInfo[r.plan].notional \in Nat
                                  /\ PlanInfo[r.plan].instrument \in Instruments
<1>1. /\ r.remaining \in Nat /\ r.converted \in {0, 1} /\ r.state \in ReservationStates
      /\ r.plan \in Plans \cup {NoPlan}
  BY DEF RowOK, Reservation
<1>2. r.state # "NONE" => r.plan \in Plans
  BY <1>1 DEF RowOK
<1>3. r.state # "NONE" => /\ PlanInfo[r.plan].loss \in Nat
                          /\ PlanInfo[r.plan].notional \in Nat
                          /\ PlanInfo[r.plan].instrument \in Instruments
  BY <1>2, PlanAssumption
<1>4. r.state \in Live => r.state # "NONE"
  BY DEF Live
<1> QED BY <1>1, <1>2, <1>3, <1>4 DEF SlotShare, LossShare, SymbolShare

(* The totals cover each row, so no subtraction of a row's share stops at  *)
(* zero.                                                                   *)
LEMMA TotalsCover ==
    ASSUME NEW l, LedgerOK(l), NEW c \in Commands
    PROVE  /\ l.reservation[c].remaining <= l.account.reserved
           /\ SlotShare(l.reservation[c]) <= l.account.reservedSlots
           /\ LossShare(l.reservation[c]) <= l.account.reservedLoss
           /\ \A i \in Instruments :
                 SymbolShare(l.reservation[c], i) <= l.account.symbolReserved[i]
<1> DEFINE R == [d \in Commands |-> l.reservation[d].remaining]
           S == [d \in Commands |-> SlotShare(l.reservation[d])]
           L == [d \in Commands |-> LossShare(l.reservation[d])]
           Y(i) == [d \in Commands |-> SymbolShare(l.reservation[d], i)]
<1>1. \A d \in Commands : /\ R[d] \in Nat /\ S[d] \in Nat /\ L[d] \in Nat
                          /\ \A i : Y(i)[d] \in Nat
  BY RowShares DEF LedgerOK
<1>2. R[c] <= SumFunctionOnSet(R, Commands)
  <2> HIDE DEF R
  <2> QED BY <1>1, SumCovers, CommandAssumption
<1>3. S[c] <= SumFunctionOnSet(S, Commands)
  <2> HIDE DEF S
  <2> QED BY <1>1, SumCovers, CommandAssumption
<1>4. L[c] <= SumFunctionOnSet(L, Commands) /\ SumFunctionOnSet(L, Commands) \in Nat
  <2> HIDE DEF L
  <2> QED BY <1>1, SumCovers, SumNat, CommandAssumption
<1>5. ASSUME NEW i \in Instruments
      PROVE  Y(i)[c] <= SumFunctionOnSet(Y(i), Commands)
  <2>1. \A d \in Commands : Y(i)[d] \in Nat
    BY <1>1
  <2> HIDE DEF Y
  <2> QED BY <2>1, SumCovers, CommandAssumption
<1>6. LossShare(l.reservation[c]) <= l.account.reservedLoss
  <2>1. l.account.reservedLoss >= SumFunctionOnSet(L, Commands)
    BY DEF LedgerOK, Totals, LossTotal
  <2>2. l.account.reservedLoss \in Nat
    BY DEF LedgerOK, Account
  <2>3. L[c] = LossShare(l.reservation[c]) /\ L[c] \in Nat
    BY <1>1
  <2> HIDE DEF L
  <2> QED BY <1>4, <2>1, <2>2, <2>3
<1> QED BY <1>2, <1>3, <1>5, <1>6 DEF LedgerOK, Totals, RemTotal, SlotTotal, SymbolTotal

(* An operation on one row keeps the totals if it changes each of them by  *)
(* the change of the row's share.                                          *)
LEMMA RowChange ==
    ASSUME NEW l, LedgerOK(l), NEW c \in Commands, NEW r, RowOK(r), NEW a \in Account,
           a.reserved + l.reservation[c].remaining = l.account.reserved + r.remaining,
           a.reservedSlots + SlotShare(l.reservation[c])
              = l.account.reservedSlots + SlotShare(r),
           a.reservedLoss + LossShare(l.reservation[c])
              >= l.account.reservedLoss + LossShare(r),
           \A i \in Instruments :
              a.symbolReserved[i] + SymbolShare(l.reservation[c], i)
                 = l.account.symbolReserved[i] + SymbolShare(r, i)
    PROVE  LedgerOK([account |-> a, reservation |-> [l.reservation EXCEPT ![c] = r]])
<1> DEFINE old == l.reservation
           new == [old EXCEPT ![c] = r]
<1>1. /\ old \in [Commands -> Reservation] /\ new \in [Commands -> Reservation]
      /\ new[c] = r /\ \A d \in Commands \ {c} : new[d] = old[d]
      /\ \A d \in Commands : RowOK(old[d]) /\ RowOK(new[d])
  BY DEF LedgerOK, RowOK
<1> HIDE DEF new
<1>2. /\ l.account \in Account /\ Totals(l.account, old)
  BY DEF LedgerOK
<1>3. ASSUME NEW F, NEW G, \A d \in Commands : F[d] \in Nat /\ G[d] \in Nat,
             \A d \in Commands \ {c} : F[d] = G[d]
      PROVE  /\ SumFunctionOnSet(G, Commands) + F[c] = SumFunctionOnSet(F, Commands) + G[c]
             /\ SumFunctionOnSet(F, Commands) \in Nat /\ SumFunctionOnSet(G, Commands) \in Nat
             /\ F[c] \in Nat /\ G[c] \in Nat
  <2>1. SumFunctionOnSet(G, Commands) + F[c] = SumFunctionOnSet(F, Commands) + G[c]
    BY <1>3, SumChange, CommandAssumption
  <2>2. SumFunctionOnSet(F, Commands) \in Nat /\ SumFunctionOnSet(G, Commands) \in Nat
    BY <1>3, SumNat, CommandAssumption
  <2> QED BY <1>3, <2>1, <2>2
<1>4. a.reserved = RemTotal(new)
  <2> DEFINE F == [d \in Commands |-> old[d].remaining]
             G == [d \in Commands |-> new[d].remaining]
  <2>1. /\ \A d \in Commands : F[d] \in Nat /\ G[d] \in Nat
        /\ \A d \in Commands \ {c} : F[d] = G[d]
    BY <1>1, RowShares
  <2>2. F[c] = old[c].remaining /\ G[c] = r.remaining
    BY <1>1
  <2>3. l.account.reserved = SumFunctionOnSet(F, Commands) /\ a.reserved \in Nat
    BY <1>2 DEF Totals, RemTotal, Account
  <2>4. RemTotal(new) = SumFunctionOnSet(G, Commands)
    BY DEF RemTotal
  <2> HIDE DEF F, G
  <2> QED BY <1>3, <2>1, <2>2, <2>3, <2>4
<1>5. a.reservedSlots = SlotTotal(new)
  <2> DEFINE F == [d \in Commands |-> SlotShare(old[d])]
             G == [d \in Commands |-> SlotShare(new[d])]
  <2>1. /\ \A d \in Commands : F[d] \in Nat /\ G[d] \in Nat
        /\ \A d \in Commands \ {c} : F[d] = G[d]
    BY <1>1, RowShares
  <2>2. F[c] = SlotShare(old[c]) /\ G[c] = SlotShare(r)
    BY <1>1
  <2>3. l.account.reservedSlots = SumFunctionOnSet(F, Commands) /\ a.reservedSlots \in Nat
    BY <1>2 DEF Totals, SlotTotal, Account
  <2>4. SlotTotal(new) = SumFunctionOnSet(G, Commands)
    BY DEF SlotTotal
  <2> HIDE DEF F, G
  <2> QED BY <1>3, <2>1, <2>2, <2>3, <2>4
<1>6. a.reservedLoss >= LossTotal(new)
  <2> DEFINE F == [d \in Commands |-> LossShare(old[d])]
             G == [d \in Commands |-> LossShare(new[d])]
  <2>1. /\ \A d \in Commands : F[d] \in Nat /\ G[d] \in Nat
        /\ \A d \in Commands \ {c} : F[d] = G[d]
    BY <1>1, RowShares
  <2>2. F[c] = LossShare(old[c]) /\ G[c] = LossShare(r)
    BY <1>1
  <2>3. /\ l.account.reservedLoss >= SumFunctionOnSet(F, Commands)
        /\ a.reservedLoss \in Nat /\ l.account.reservedLoss \in Nat
    BY <1>2 DEF Totals, LossTotal, Account
  <2>4. LossTotal(new) = SumFunctionOnSet(G, Commands)
    BY DEF LossTotal
  <2> HIDE DEF F, G
  <2> QED BY <1>3, <2>1, <2>2, <2>3, <2>4
<1>7. ASSUME NEW i \in Instruments
      PROVE  a.symbolReserved[i] = SymbolTotal(new, i)
  <2> DEFINE F == [d \in Commands |-> SymbolShare(old[d], i)]
             G == [d \in Commands |-> SymbolShare(new[d], i)]
  <2>1. /\ \A d \in Commands : F[d] \in Nat /\ G[d] \in Nat
        /\ \A d \in Commands \ {c} : F[d] = G[d]
    BY <1>1, RowShares
  <2>2. F[c] = SymbolShare(old[c], i) /\ G[c] = SymbolShare(r, i)
    BY <1>1
  <2>3. /\ l.account.symbolReserved[i] = SumFunctionOnSet(F, Commands)
        /\ a.symbolReserved[i] \in Nat
    BY <1>2 DEF Totals, SymbolTotal, Account
  <2>4. SymbolTotal(new, i) = SumFunctionOnSet(G, Commands)
    BY DEF SymbolTotal
  <2> HIDE DEF F, G
  <2> QED BY <1>3, <2>1, <2>2, <2>3, <2>4
<1>8. Totals(a, new)
  BY <1>4, <1>5, <1>6, <1>7 DEF Totals
<1> QED BY <1>1, <1>8 DEF LedgerOK, new

----------------------------------------------------------------------------
(* The operations on a ledger.  Each keeps it sound, and moves the open    *)
(* exposure by what is filled or closed.                                   *)

(* The rows that exist, whatever their state. *)
SameRows(l, m) == \A c \in Commands : l.reservation[c].state = "NONE"
                                       <=> m.reservation[c].state = "NONE"

(* The columns of the accounting row. *)
LEMMA AccountColumns ==
    ASSUME NEW x \in Account
    PROVE  /\ x.reserved \in Nat /\ x.reservedLoss \in Nat /\ x.reservedSlots \in Nat
           /\ x.actual \in Nat /\ x.tradeCount \in Nat /\ x.day \in Nat
           /\ x.symbolReserved \in [Instruments -> Nat]
           /\ x.symbolActual \in [Instruments -> Nat]
           /\ x = [reserved |-> x.reserved, reservedLoss |-> x.reservedLoss,
                   reservedSlots |-> x.reservedSlots, actual |-> x.actual,
                   tradeCount |-> x.tradeCount, symbolReserved |-> x.symbolReserved,
                   symbolActual |-> x.symbolActual, day |-> x.day]
BY DEF Account

(* charge_reservation, for a command without a reservation. *)
LEMMA ChargeKeeps ==
    ASSUME NEW l, LedgerOK(l), NEW c \in Commands, NEW p \in Plans,
           l.reservation[c].state = "NONE", today \in Nat
    PROVE  /\ LedgerOK(Charge(l, c, p))
           /\ Charge(l, c, p).account.actual = l.account.actual
           /\ \A d \in Commands : Charge(l, c, p).reservation[d].state = "NONE"
                                   <=> d # c /\ l.reservation[d].state = "NONE"
<1> DEFINE i == PlanInfo[p].instrument
           n == PlanInfo[p].notional
           a == [l.account EXCEPT !.reserved = @ + n,
                                  !.reservedLoss = @ + PlanInfo[p].loss,
                                  !.reservedSlots = @ + 1,
                                  !.symbolReserved[i] = @ + n]
           r == [state |-> "CHARGED", plan |-> p, remaining |-> n,
                 converted |-> 0, since |-> today]
<1>1. /\ n \in Nat /\ i \in Instruments /\ PlanInfo[p].loss \in Nat /\ p # NoPlan
  BY PlanAssumption
<1>2. l.account \in Account /\ l.reservation \in [Commands -> Reservation] /\ RowOK(l.reservation[c])
  BY DEF LedgerOK
<1>3. Charge(l, c, p) = [account |-> a, reservation |-> [l.reservation EXCEPT ![c] = r]]
  BY DEF Charge
<1>4. /\ a \in Account /\ a.actual = l.account.actual
      /\ a.reserved = l.account.reserved + n
      /\ a.reservedLoss = l.account.reservedLoss + PlanInfo[p].loss
      /\ a.reservedSlots = l.account.reservedSlots + 1
      /\ \A j \in Instruments : a.symbolReserved[j] =
                                 l.account.symbolReserved[j] + IF j = i THEN n ELSE 0
  <2>1. /\ l.account.reserved + n \in Nat /\ l.account.reservedSlots + 1 \in Nat
        /\ l.account.reservedLoss + PlanInfo[p].loss \in Nat
        /\ l.account.symbolReserved[i] + n \in Nat
        /\ l.account.symbolReserved \in [Instruments -> Nat]
    BY <1>1, <1>2, AccountColumns
  <2>2. /\ a \in Account /\ a.actual = l.account.actual
        /\ a.reserved = l.account.reserved + n
        /\ a.reservedLoss = l.account.reservedLoss + PlanInfo[p].loss
        /\ a.reservedSlots = l.account.reservedSlots + 1
        /\ a.symbolReserved =
              [l.account.symbolReserved EXCEPT ![i] = l.account.symbolReserved[i] + n]
    <3> HIDE DEF n, i
    <3>1. PICK x \in Account, j \in Instruments, n1 \in Nat, loss \in Nat, slots \in Nat,
               m \in Nat :
             /\ x = l.account /\ n1 = x.reserved + n /\ j = i
             /\ loss = x.reservedLoss + PlanInfo[p].loss
             /\ slots = x.reservedSlots + 1 /\ m = x.symbolReserved[j] + n
      BY <1>1, <1>2, <2>1
    <3>2. PICK y : y = [x EXCEPT !.reserved = n1, !.reservedLoss = loss,
                                 !.reservedSlots = slots, !.symbolReserved[j] = m]
      OBVIOUS
    <3>3. a = y
      BY <3>1, <3>2
    <3> HIDE DEF a
    <3>4. /\ y \in Account /\ y.reserved = n1 /\ y.reservedLoss = loss
          /\ y.reservedSlots = slots /\ y.actual = x.actual
          /\ y.symbolReserved = [x.symbolReserved EXCEPT ![j] = m]
      BY <3>2 DEF Account
    <3> QED BY <3>1, <3>3, <3>4
  <2> HIDE DEF a, n, i
  <2> QED BY <1>1, <2>1, <2>2
<1>5. RowOK(r)
  BY <1>1 DEF RowOK, Reservation, ReservationStates, Live
<1>6. /\ l.reservation[c].remaining = 0 /\ SlotShare(l.reservation[c]) = 0
      /\ LossShare(l.reservation[c]) = 0
      /\ \A j \in Instruments : SymbolShare(l.reservation[c], j) = 0
  BY <1>2 DEF RowOK, SlotShare, LossShare, SymbolShare, Live
<1>7. /\ r.remaining = n /\ SlotShare(r) = 1 /\ LossShare(r) = PlanInfo[p].loss
      /\ \A j \in Instruments : SymbolShare(r, j) = IF j = i THEN n ELSE 0
      /\ r.state = "CHARGED"
  BY DEF SlotShare, LossShare, SymbolShare, Live
<1>8. /\ l.account.reserved \in Nat /\ l.account.reservedSlots \in Nat
      /\ l.account.reservedLoss \in Nat
      /\ \A j \in Instruments : l.account.symbolReserved[j] \in Nat
  BY <1>2 DEF Account
<1> HIDE DEF a, r, n, i
<1>9. LedgerOK([account |-> a, reservation |-> [l.reservation EXCEPT ![c] = r]])
  <2>1. a.reserved + l.reservation[c].remaining = l.account.reserved + r.remaining
    BY <1>1, <1>4, <1>6, <1>7, <1>8
  <2>2. a.reservedSlots + SlotShare(l.reservation[c]) = l.account.reservedSlots + SlotShare(r)
    BY <1>4, <1>6, <1>7, <1>8
  <2>3. a.reservedLoss + LossShare(l.reservation[c]) >= l.account.reservedLoss + LossShare(r)
    BY <1>1, <1>4, <1>6, <1>7, <1>8
  <2>4. \A j \in Instruments : a.symbolReserved[j] + SymbolShare(l.reservation[c], j)
                                = l.account.symbolReserved[j] + SymbolShare(r, j)
    BY <1>1, <1>4, <1>6, <1>7, <1>8
  <2> QED BY <1>4, <1>5, <2>1, <2>2, <2>3, <2>4, RowChange
<1> QED BY <1>2, <1>3, <1>4, <1>7, <1>9

(* convert_reservation_for_fill *)
LEMMA ConvertKeeps ==
    ASSUME NEW l, LedgerOK(l), NEW c \in Commands, l.reservation[c].state # "NONE",
           NEW value \in Nat
    PROVE  /\ LedgerOK(ConvertForFill(l, c, value))
           /\ ConvertForFill(l, c, value).account.actual = l.account.actual + value
           /\ SameRows(ConvertForFill(l, c, value), l)
<1> DEFINE r == l.reservation[c]
           i == PlanInfo[r.plan].instrument
           convert == Smaller(value, r.remaining)
           released == r.state = "RELEASED"
           slots == IF released THEN l.account.reservedSlots
                    ELSE Minus(l.account.reservedSlots, 1 - r.converted)
           state == IF released THEN r.state ELSE "PARTIALLY_RELEASED"
           a == [l.account EXCEPT
                   !.reserved = Minus(@, convert),
                   !.actual = @ + value,
                   !.symbolReserved[i] = Minus(@, convert),
                   !.symbolActual[i] = @ + value,
                   !.reservedSlots = slots,
                   !.tradeCount = @ + (1 - r.converted)]
           s == [r EXCEPT !.state = state, !.remaining = r.remaining - convert, !.converted = 1]
<1>1. l.account \in Account /\ l.reservation \in [Commands -> Reservation] /\ RowOK(r)
  BY DEF LedgerOK
<1>2. /\ r.remaining \in Nat /\ r.converted \in {0, 1} /\ r.state \in ReservationStates
      /\ r.plan \in Plans /\ i \in Instruments /\ PlanInfo[r.plan].loss \in Nat
      /\ r \in Reservation
  BY <1>1, RowShares DEF RowOK
<1>3. /\ convert \in Nat /\ convert <= r.remaining /\ convert <= value
      /\ r.remaining - convert \in Nat
  BY <1>2 DEF Smaller
<1>4. ConvertForFill(l, c, value) = [account |-> a, reservation |-> [l.reservation EXCEPT ![c] = s]]
  BY DEF ConvertForFill
<1>5. /\ l.account.reserved \in Nat /\ l.account.reservedSlots \in Nat
      /\ l.account.actual \in Nat /\ l.account.tradeCount \in Nat
      /\ l.account.reservedLoss \in Nat
      /\ l.account.symbolReserved \in [Instruments -> Nat]
      /\ l.account.symbolActual \in [Instruments -> Nat]
  BY <1>1 DEF Account
<1>6. slots \in Nat
  BY <1>2, <1>5 DEF Minus
<1>7. /\ a \in Account /\ a.actual = l.account.actual + value
      /\ a.reserved = Minus(l.account.reserved, convert)
      /\ a.reservedLoss = l.account.reservedLoss
      /\ a.reservedSlots = slots
      /\ a.symbolReserved = [l.account.symbolReserved EXCEPT ![i] = Minus(@, convert)]
  <2> HIDE DEF slots, convert, r
  <2>1. /\ Minus(l.account.reserved, convert) \in Nat
        /\ Minus(l.account.symbolReserved[i], convert) \in Nat
        /\ 1 - r.converted \in Nat
    BY <1>2, <1>3, <1>5 DEF Minus
  <2>2. /\ l.account.actual + value \in Nat
        /\ l.account.symbolActual[i] + value \in Nat
        /\ l.account.tradeCount + (1 - r.converted) \in Nat
    BY <1>2, <1>5, <2>1
  <2> HIDE DEF i
  <2>3. PICK x \in Account, j \in Instruments, n \in Nat, v \in Nat, m \in Nat, u \in Nat,
             k \in Nat, count \in Nat :
           /\ x = l.account /\ j = i /\ n = Minus(x.reserved, convert) /\ v = x.actual + value
           /\ m = Minus(x.symbolReserved[j], convert) /\ u = x.symbolActual[j] + value
           /\ k = slots /\ count = x.tradeCount + (1 - r.converted)
    BY <1>1, <1>2, <1>6, <2>1, <2>2
  <2>4. PICK y : y = [x EXCEPT !.reserved = n, !.actual = v, !.symbolReserved[j] = m,
                               !.symbolActual[j] = u, !.reservedSlots = k,
                               !.tradeCount = count]
    OBVIOUS
  <2>5. a = y
    BY <2>3, <2>4
  <2> HIDE DEF a
  <2>6. /\ y \in Account /\ y.reserved = n /\ y.reservedLoss = x.reservedLoss
        /\ y.reservedSlots = k /\ y.actual = v
        /\ y.symbolReserved = [x.symbolReserved EXCEPT ![j] = m]
    BY <2>4 DEF Account
  <2> QED BY <2>3, <2>5, <2>6
<1>8. /\ s.state = state /\ s.remaining = r.remaining - convert /\ s.converted = 1
      /\ s.plan = r.plan /\ s \in Reservation /\ state \in {"RELEASED", "PARTIALLY_RELEASED"}
  <2>1. state \in ReservationStates
    BY <1>2 DEF ReservationStates
  <2> HIDE DEF state, convert
  <2>2. s \in Reservation /\ s.state = state /\ s.remaining = r.remaining - convert
        /\ s.converted = 1 /\ s.plan = r.plan
    BY <1>2, <1>3, <2>1 DEF Reservation
  <2> QED BY <2>2 DEF state
<1>9. RowOK(s)
  <2>1. r.plan # NoPlan
    BY <1>2, PlanAssumption
  <2>2. s.state \notin Live => r.remaining = 0
    BY <1>1, <1>8 DEF RowOK, Live
  <2> HIDE DEF s, convert, r
  <2> QED BY <1>2, <1>3, <1>8, <2>1, <2>2 DEF RowOK
<1>10. /\ r.remaining <= l.account.reserved /\ SlotShare(r) <= l.account.reservedSlots
       /\ \A j \in Instruments : SymbolShare(r, j) <= l.account.symbolReserved[j]
  BY TotalsCover
<1>11. a.reserved + r.remaining = l.account.reserved + s.remaining
  <2> HIDE DEF a, s, convert, r
  <2> QED BY <1>2, <1>3, <1>5, <1>7, <1>8, <1>10 DEF Minus
<1>12. a.reservedSlots + SlotShare(r) = l.account.reservedSlots + SlotShare(s)
  <2>1. SlotShare(s) = 0
    BY <1>8 DEF SlotShare
  <2>2. CASE released
    <3>1. SlotShare(r) = 0
      BY <2>2 DEF SlotShare, Live
    <3> QED BY <1>5, <1>7, <2>1, <2>2, <3>1
  <2>3. CASE ~released
    <3>1. SlotShare(r) = 1 - r.converted
      BY <1>1, <1>2, <2>3 DEF SlotShare, Live, ReservationStates, RowOK
    <3> HIDE DEF a, r
    <3> QED BY <1>2, <1>5, <1>7, <1>10, <2>1, <2>3, <3>1 DEF Minus
  <2> QED BY <2>2, <2>3
<1>13. a.reservedLoss + LossShare(r) >= l.account.reservedLoss + LossShare(s)
  <2>1. LossShare(s) = LossShare(r) /\ LossShare(r) \in Nat
    <3> HIDE DEF a, s, convert
    <3>1. s.state \in Live <=> r.state \in Live
      BY <1>2, <1>8 DEF Live, ReservationStates
    <3> HIDE DEF r
    <3> QED BY <1>1, <1>8, <3>1, RowShares DEF LossShare
  <2> HIDE DEF a, s, r
  <2> QED BY <1>5, <1>7, <2>1
<1>14. ASSUME NEW j \in Instruments
       PROVE  a.symbolReserved[j] + SymbolShare(r, j)
                 = l.account.symbolReserved[j] + SymbolShare(s, j)
  <2>1. CASE j # i
    <3>1. a.symbolReserved[j] = l.account.symbolReserved[j] /\ SymbolShare(r, j) = 0
          /\ SymbolShare(s, j) = 0
      BY <1>5, <1>7, <1>8, <2>1 DEF SymbolShare
    <3> QED BY <3>1
  <2>2. CASE j = i
    <3>1. SymbolShare(r, j) = r.remaining /\ SymbolShare(s, j) = s.remaining
      <4> HIDE DEF a, s, r, convert
      <4> QED BY <1>1, <1>2, <1>8, <1>9, <2>2 DEF SymbolShare, RowOK
    <3>2. a.symbolReserved[j] = Minus(l.account.symbolReserved[j], convert)
          /\ l.account.symbolReserved[j] \in Nat
      BY <1>2, <1>5, <1>7, <2>2
    <3> HIDE DEF a, s, convert, r
    <3>3. r.remaining <= l.account.symbolReserved[j]
      BY <1>10, <3>1
    <3> QED BY <1>2, <1>3, <1>8, <3>1, <3>2, <3>3 DEF Minus
  <2> QED BY <2>1, <2>2
<1>15. LedgerOK([account |-> a, reservation |-> [l.reservation EXCEPT ![c] = s]])
  <2> HIDE DEF a, s
  <2> QED BY <1>7, <1>9, <1>11, <1>12, <1>13, <1>14, RowChange
<1>16. s.state # "NONE"
  BY <1>8
<1> HIDE DEF a, s
<1> QED BY <1>1, <1>4, <1>7, <1>15, <1>16 DEF SameRows

(* The row of a reservation that is released: it keeps nothing. *)
Freed(r) == [r EXCEPT !.state = "RELEASED", !.remaining = 0]

LEMMA ReleasedRow ==
    ASSUME NEW r, RowOK(r), r.state # "NONE", NEW s, s = Freed(r)
    PROVE  /\ RowOK(s) /\ s.remaining = 0 /\ s.state = "RELEASED" /\ s.plan = r.plan
           /\ s.converted = r.converted
           /\ SlotShare(s) = 0 /\ LossShare(s) = 0 /\ \A i : SymbolShare(s, i) = 0
<1>1. r \in Reservation /\ r.plan \in Plans /\ r.plan # NoPlan
  BY RowShares, PlanAssumption DEF RowOK
<1>2. /\ s \in Reservation /\ s.remaining = 0 /\ s.state = "RELEASED" /\ s.plan = r.plan
      /\ s.converted = r.converted
  BY <1>1 DEF Reservation, ReservationStates, Freed
<1> QED BY <1>1, <1>2 DEF RowOK, SlotShare, LossShare, SymbolShare, Live

(* _release_unused_reservation *)
LEMMA ReleaseUnusedKeeps ==
    ASSUME NEW l, LedgerOK(l), NEW c \in Commands, l.reservation[c].state # "NONE"
    PROVE  /\ LedgerOK(ReleaseUnused(l, c))
           /\ ReleaseUnused(l, c).account.actual = l.account.actual
           /\ SameRows(ReleaseUnused(l, c), l)
<1> DEFINE r == l.reservation[c]
<1>1. CASE r.remaining = 0
  <2>1. ReleaseUnused(l, c) = l
    BY <1>1 DEF ReleaseUnused
  <2> QED BY <2>1 DEF SameRows
<1>2. CASE r.remaining # 0
  <2> DEFINE i == PlanInfo[r.plan].instrument
             lost == IF r.converted = 0 THEN Minus(l.account.reservedLoss, PlanInfo[r.plan].loss)
                     ELSE l.account.reservedLoss
             a == [l.account EXCEPT
                     !.reserved = Minus(@, r.remaining),
                     !.reservedLoss = lost,
                     !.reservedSlots = Minus(@, 1 - r.converted),
                     !.symbolReserved[i] = Minus(@, r.remaining)]
             s == Freed(r)
  <2>1. l.account \in Account /\ l.reservation \in [Commands -> Reservation] /\ RowOK(r)
    BY DEF LedgerOK
  <2>2. /\ r.remaining \in Nat /\ r.converted \in {0, 1} /\ r.state \in Live
        /\ r.plan \in Plans /\ i \in Instruments /\ PlanInfo[r.plan].loss \in Nat
    BY <1>2, <2>1, RowShares DEF RowOK
  <2>3. ReleaseUnused(l, c) = [account |-> a, reservation |-> [l.reservation EXCEPT ![c] = s]]
    BY <1>2 DEF ReleaseUnused, Freed
  <2>4. /\ l.account.reserved \in Nat /\ l.account.reservedSlots \in Nat
        /\ l.account.reservedLoss \in Nat
        /\ l.account.symbolReserved \in [Instruments -> Nat]
    BY <2>1, AccountColumns
  <2>5. /\ r.remaining <= l.account.reserved /\ SlotShare(r) <= l.account.reservedSlots
        /\ \A j \in Instruments : SymbolShare(r, j) <= l.account.symbolReserved[j]
    BY TotalsCover
  <2>6. /\ SlotShare(r) = 1 - r.converted /\ LossShare(r) = PlanInfo[r.plan].loss
        /\ SymbolShare(r, i) = r.remaining
        /\ \A j \in Instruments \ {i} : SymbolShare(r, j) = 0
    BY <2>2 DEF SlotShare, LossShare, SymbolShare
  <2>7. lost \in Nat /\ lost + PlanInfo[r.plan].loss >= l.account.reservedLoss
    <3> HIDE DEF r
    <3> QED BY <2>2, <2>4 DEF Minus
  <2>8. /\ Minus(l.account.reserved, r.remaining) = l.account.reserved - r.remaining
        /\ Minus(l.account.reservedSlots, 1 - r.converted)
              = l.account.reservedSlots - (1 - r.converted)
        /\ Minus(l.account.symbolReserved[i], r.remaining)
              = l.account.symbolReserved[i] - r.remaining
        /\ l.account.reserved - r.remaining \in Nat
        /\ l.account.reservedSlots - (1 - r.converted) \in Nat
        /\ l.account.symbolReserved[i] - r.remaining \in Nat
    <3> HIDE DEF r
    <3> QED BY <2>2, <2>4, <2>5, <2>6 DEF Minus
  <2>9. /\ a \in Account /\ a.actual = l.account.actual
        /\ a.reserved = l.account.reserved - r.remaining
        /\ a.reservedLoss = lost
        /\ a.reservedSlots = l.account.reservedSlots - (1 - r.converted)
        /\ a.symbolReserved =
              [l.account.symbolReserved EXCEPT ![i] = l.account.symbolReserved[i] - r.remaining]
    <3> HIDE DEF r, i, lost
    <3>1. PICK x \in Account, j \in Instruments, n \in Nat, loss \in Nat, k \in Nat, m \in Nat :
             /\ x = l.account /\ j = i /\ n = x.reserved - r.remaining /\ loss = lost
             /\ k = x.reservedSlots - (1 - r.converted)
             /\ m = x.symbolReserved[j] - r.remaining
      BY <2>1, <2>2, <2>7, <2>8
    <3>2. PICK y : y = [x EXCEPT !.reserved = n, !.reservedLoss = loss,
                                 !.reservedSlots = k, !.symbolReserved[j] = m]
      OBVIOUS
    <3>3. a = y
      BY <2>8, <3>1, <3>2
    <3> HIDE DEF a
    <3>4. /\ y \in Account /\ y.reserved = n /\ y.reservedLoss = loss
          /\ y.reservedSlots = k /\ y.actual = x.actual
          /\ y.symbolReserved = [x.symbolReserved EXCEPT ![j] = m]
      BY <3>2 DEF Account
    <3> QED BY <3>1, <3>3, <3>4
  <2>10. /\ RowOK(s) /\ s.remaining = 0 /\ s.state = "RELEASED"
         /\ SlotShare(s) = 0 /\ LossShare(s) = 0 /\ \A j : SymbolShare(s, j) = 0
    BY <2>1, <2>2, ReleasedRow
  <2> HIDE DEF a, s, lost
  <2>11. a.reserved + r.remaining = l.account.reserved + s.remaining
    <3> HIDE DEF r
    <3> QED BY <2>2, <2>4, <2>9, <2>10
  <2>12. a.reservedSlots + SlotShare(r) = l.account.reservedSlots + SlotShare(s)
    <3> HIDE DEF r
    <3> QED BY <2>2, <2>4, <2>6, <2>9, <2>10
  <2>13. a.reservedLoss + LossShare(r) >= l.account.reservedLoss + LossShare(s)
    <3> HIDE DEF r
    <3> QED BY <2>2, <2>4, <2>6, <2>7, <2>9, <2>10
  <2>14. ASSUME NEW j \in Instruments
         PROVE  a.symbolReserved[j] + SymbolShare(r, j)
                   = l.account.symbolReserved[j] + SymbolShare(s, j)
    <3> HIDE DEF r, i
    <3>1. CASE j = i
      BY <2>2, <2>4, <2>6, <2>8, <2>9, <2>10, <3>1
    <3>2. CASE j # i
      <4>1. a.symbolReserved[j] = l.account.symbolReserved[j]
        BY <2>4, <2>9, <3>2
      <4>2. SymbolShare(r, j) = 0 /\ SymbolShare(s, j) = 0
        BY <2>6, <2>10, <3>2
      <4> QED BY <4>1, <4>2
    <3> QED BY <3>1, <3>2
  <2>15. LedgerOK([account |-> a, reservation |-> [l.reservation EXCEPT ![c] = s]])
    BY <2>9, <2>10, <2>11, <2>12, <2>13, <2>14, RowChange
  <2> QED BY <2>1, <2>3, <2>9, <2>10, <2>15 DEF SameRows
<1> QED BY <1>1, <1>2

(* The accounting of resolve_verified_demo_exit, for a converted           *)
(* reservation.                                                            *)
LEMMA ReleaseExitKeeps ==
    ASSUME NEW l, LedgerOK(l), NEW c \in Commands, l.reservation[c].state # "NONE",
           l.reservation[c].converted = 1, NEW exposure \in Nat,
           l.account.actual >= exposure
    PROVE  /\ LedgerOK(ReleaseExit(l, c, exposure))
           /\ ReleaseExit(l, c, exposure).account.actual + exposure = l.account.actual
           /\ SameRows(ReleaseExit(l, c, exposure), l)
<1> DEFINE r == l.reservation[c]
           i == PlanInfo[r.plan].instrument
           a == [l.account EXCEPT !.actual = Minus(@, exposure),
                                  !.reserved = Minus(@, r.remaining),
                                  !.symbolActual[i] = Minus(@, exposure),
                                  !.symbolReserved[i] = Minus(@, r.remaining)]
           s == Freed(r)
<1>1. l.account \in Account /\ l.reservation \in [Commands -> Reservation] /\ RowOK(r)
  BY DEF LedgerOK
<1>2. /\ r.remaining \in Nat /\ r.plan \in Plans /\ i \in Instruments
      /\ PlanInfo[r.plan].loss \in Nat
  BY <1>1, RowShares DEF RowOK
<1>3. ReleaseExit(l, c, exposure)
         = [account |-> a, reservation |-> [l.reservation EXCEPT ![c] = s]]
  BY DEF ReleaseExit, Freed
<1>4. /\ l.account.reserved \in Nat /\ l.account.actual \in Nat
      /\ l.account.reservedSlots \in Nat /\ l.account.reservedLoss \in Nat
      /\ l.account.symbolReserved \in [Instruments -> Nat]
      /\ l.account.symbolActual \in [Instruments -> Nat]
  BY <1>1, AccountColumns
<1>5. /\ r.remaining <= l.account.reserved
      /\ \A j \in Instruments : SymbolShare(r, j) <= l.account.symbolReserved[j]
  BY TotalsCover
<1>6. /\ SlotShare(r) = 0 /\ LossShare(r) \in Nat
      /\ SymbolShare(r, i) = r.remaining
      /\ \A j \in Instruments \ {i} : SymbolShare(r, j) = 0
  BY <1>1, <1>2, RowShares DEF SlotShare, SymbolShare, RowOK
<1>7. /\ Minus(l.account.reserved, r.remaining) = l.account.reserved - r.remaining
      /\ Minus(l.account.symbolReserved[i], r.remaining)
            = l.account.symbolReserved[i] - r.remaining
      /\ Minus(l.account.actual, exposure) = l.account.actual - exposure
      /\ Minus(l.account.symbolActual[i], exposure) \in Nat
      /\ l.account.reserved - r.remaining \in Nat
      /\ l.account.symbolReserved[i] - r.remaining \in Nat
      /\ l.account.actual - exposure \in Nat
  <2> HIDE DEF r
  <2> QED BY <1>2, <1>4, <1>5, <1>6 DEF Minus
<1>8. /\ a \in Account /\ a.actual = l.account.actual - exposure
      /\ a.reserved = l.account.reserved - r.remaining
      /\ a.reservedLoss = l.account.reservedLoss
      /\ a.reservedSlots = l.account.reservedSlots
      /\ a.symbolReserved =
            [l.account.symbolReserved EXCEPT ![i] = l.account.symbolReserved[i] - r.remaining]
  <2> HIDE DEF r, i
  <2>1. PICK x \in Account, j \in Instruments, v \in Nat, n \in Nat, u \in Nat, m \in Nat :
           /\ x = l.account /\ j = i /\ v = x.actual - exposure
           /\ n = x.reserved - r.remaining /\ u = Minus(x.symbolActual[j], exposure)
           /\ m = x.symbolReserved[j] - r.remaining
    BY <1>1, <1>2, <1>7
  <2>2. PICK y : y = [x EXCEPT !.actual = v, !.reserved = n, !.symbolActual[j] = u,
                               !.symbolReserved[j] = m]
    OBVIOUS
  <2>3. a = y
    BY <1>7, <2>1, <2>2
  <2> HIDE DEF a
  <2>4. /\ y \in Account /\ y.reserved = n /\ y.reservedLoss = x.reservedLoss
        /\ y.reservedSlots = x.reservedSlots /\ y.actual = v
        /\ y.symbolReserved = [x.symbolReserved EXCEPT ![j] = m]
    BY <2>2 DEF Account
  <2> QED BY <2>1, <2>3, <2>4
<1>9. /\ RowOK(s) /\ s.remaining = 0 /\ s.state = "RELEASED"
      /\ SlotShare(s) = 0 /\ LossShare(s) = 0 /\ \A j : SymbolShare(s, j) = 0
  BY <1>1, ReleasedRow
<1> HIDE DEF a, s
<1>10. a.reserved + r.remaining = l.account.reserved + s.remaining
  <2> HIDE DEF r
  <2> QED BY <1>2, <1>4, <1>8, <1>9
<1>11. a.reservedSlots + SlotShare(r) = l.account.reservedSlots + SlotShare(s)
  BY <1>6, <1>8, <1>9
<1>12. a.reservedLoss + LossShare(r) >= l.account.reservedLoss + LossShare(s)
  <2> HIDE DEF r
  <2> QED BY <1>4, <1>6, <1>8, <1>9
<1>13. ASSUME NEW j \in Instruments
       PROVE  a.symbolReserved[j] + SymbolShare(r, j)
                 = l.account.symbolReserved[j] + SymbolShare(s, j)
  <2> HIDE DEF r, i
  <2>1. CASE j = i
    BY <1>2, <1>4, <1>6, <1>7, <1>8, <1>9, <2>1
  <2>2. CASE j # i
    <3>1. a.symbolReserved[j] = l.account.symbolReserved[j]
      BY <1>4, <1>8, <2>2
    <3>2. SymbolShare(r, j) = 0 /\ SymbolShare(s, j) = 0
      BY <1>6, <1>9, <2>2
    <3> QED BY <3>1, <3>2
  <2> QED BY <2>1, <2>2
<1>14. LedgerOK([account |-> a, reservation |-> [l.reservation EXCEPT ![c] = s]])
  BY <1>8, <1>9, <1>10, <1>11, <1>12, <1>13, RowChange
<1>15. a.actual + exposure = l.account.actual
  BY <1>4, <1>8
<1> QED BY <1>1, <1>3, <1>9, <1>14, <1>15 DEF SameRows

(* What is taken off a total when the rows of R are cleared. *)
LEMMA ClearedRows ==
    ASSUME NEW R, R \subseteq Commands, NEW F, NEW G,
           \A c \in Commands : F[c] \in Nat,
           \A c \in R : G[c] = 0, \A c \in Commands \ R : G[c] = F[c]
    PROVE  /\ SumFunctionOnSet(F, Commands)
                 = SumFunctionOnSet(F, R) + SumFunctionOnSet(G, Commands)
           /\ SumFunctionOnSet(F, R) \in Nat
           /\ SumFunctionOnSet(G, Commands) \in Nat
<1>1. IsFiniteSet(R)
  BY CommandAssumption, FS_Subset
<1>2. SumFunctionOnSet(F, Commands)
         = SumFunctionOnSet(F, R) + SumFunctionOnSet(G, Commands)
  BY CommandAssumption, SumDrop
<1>3. SumFunctionOnSet(F, R) \in Nat
  <2>1. \A c \in R : F[c] \in Nat
    OBVIOUS
  <2> QED BY <1>1, <2>1, SumNat
<1>4. SumFunctionOnSet(G, Commands) \in Nat
  <2>1. \A c \in Commands : G[c] \in Nat
    OBVIOUS
  <2> QED BY <2>1, CommandAssumption, SumNat
<1> QED BY <1>2, <1>3, <1>4

(* The same amount, as shares H of the rows of T, the only rows of R that  *)
(* have one.                                                               *)
LEMMA ClearedShares ==
    ASSUME NEW R, R \subseteq Commands, NEW F, NEW H, NEW T, T \subseteq R,
           \A c \in R : F[c] \in Nat,
           \A c \in R \ T : F[c] = 0, \A c \in T : F[c] = H[c]
    PROVE  SumFunctionOnSet(F, R) = SumFunctionOnSet(H, T)
<1>1. IsFiniteSet(R) /\ IsFiniteSet(T)
  BY CommandAssumption, FS_Subset
<1>2. SumFunctionOnSet(F, R) = SumFunctionOnSet(F, T)
  BY <1>1, SumWhere
<1>3. SumFunctionOnSet(F, T) = SumFunctionOnSet(H, T)
  BY <1>1, SumSame
<1> QED BY <1>2, <1>3

(* _roll_daily_trade_slots, for orphans with a live reservation. *)
LEMMA RollKeeps ==
    ASSUME NEW l, LedgerOK(l), today \in Nat, NEW orphans, orphans \subseteq Commands,
           \A c \in orphans : l.reservation[c].state \in Live
    PROVE  /\ LedgerOK(Roll(l, orphans))
           /\ Roll(l, orphans).account.actual = l.account.actual
           /\ SameRows(Roll(l, orphans), l)
<1>1. CASE l.account.day = today
  <2>1. Roll(l, orphans) = l
    BY <1>1 DEF Roll
  <2> QED BY <2>1 DEF SameRows
<1>2. CASE l.account.day # today
  <2> DEFINE Res(c) == l.reservation[c]
             Rem == [c \in orphans |-> Res(c).remaining]
             Slot == [c \in orphans |-> 1 - Res(c).converted]
             LossOf == [c \in orphans |-> IF Res(c).converted = 0
                                          THEN PlanInfo[Res(c).plan].loss ELSE 0]
             On(i) == {c \in orphans : PlanInfo[Res(c).plan].instrument = i}
             f == [i \in Instruments |-> Minus(l.account.symbolReserved[i],
                                               SumFunctionOnSet(Rem, On(i)))]
             a == [l.account EXCEPT
                     !.reserved = Minus(@, SumFunction(Rem)),
                     !.reservedLoss = Minus(@, SumFunction(LossOf)),
                     !.reservedSlots = Minus(@, SumFunction(Slot)),
                     !.symbolReserved = f,
                     !.tradeCount = 0,
                     !.day = today]
             new == [c \in Commands |-> IF c \in orphans THEN Freed(Res(c)) ELSE Res(c)]
  <2>1. l.account \in Account /\ l.reservation \in [Commands -> Reservation]
        /\ \A c \in Commands : RowOK(Res(c))
    BY DEF LedgerOK
  <2>2. /\ l.account.reserved \in Nat /\ l.account.reservedSlots \in Nat
        /\ l.account.reservedLoss \in Nat
        /\ l.account.symbolReserved \in [Instruments -> Nat]
    BY <2>1, AccountColumns
  <2>3. Roll(l, orphans) = [account |-> a, reservation |-> new]
    BY <1>2 DEF Roll, Freed
  <2>4. ASSUME NEW c \in orphans
        PROVE  /\ RowOK(new[c]) /\ new[c].remaining = 0 /\ new[c].state = "RELEASED"
               /\ SlotShare(new[c]) = 0 /\ LossShare(new[c]) = 0
               /\ \A i : SymbolShare(new[c], i) = 0
    <3>1. RowOK(Res(c)) /\ Res(c).state # "NONE"
      BY <2>1 DEF Live
    <3>2. new[c] = Freed(Res(c))
      OBVIOUS
    <3> HIDE DEF new
    <3> QED BY <3>1, <3>2, ReleasedRow
  <2>5. \A c \in Commands \ orphans : new[c] = Res(c)
    OBVIOUS
  <2>6. \A c \in Commands : RowOK(new[c]) /\ (new[c].state = "NONE" <=> Res(c).state = "NONE")
    <3> HIDE DEF new
    <3> QED BY <2>1, <2>4, <2>5 DEF Live
  <2>7. new \in [Commands -> Reservation]
    <3>1. \A c \in Commands : new[c] \in Reservation
      <4> HIDE DEF new
      <4> QED BY <2>6 DEF RowOK
    <3> QED BY <3>1
  <2>8. /\ DOMAIN Rem = orphans /\ DOMAIN Slot = orphans /\ DOMAIN LossOf = orphans
        /\ \A c \in orphans : /\ Rem[c] = Res(c).remaining
                              /\ Slot[c] = 1 - Res(c).converted
                              /\ LossOf[c] = IF Res(c).converted = 0
                                             THEN PlanInfo[Res(c).plan].loss ELSE 0
    OBVIOUS
  <2>9. SumFunction(Rem) = SumFunctionOnSet(Rem, orphans)
        /\ SumFunction(Slot) = SumFunctionOnSet(Slot, orphans)
        /\ SumFunction(LossOf) = SumFunctionOnSet(LossOf, orphans)
    <3> HIDE DEF Rem, Slot, LossOf
    <3> QED BY <2>8 DEF SumFunction
  <2> HIDE DEF new, Rem, Slot, LossOf
  <2>10. Minus(l.account.reserved, SumFunction(Rem)) = RemTotal(new)
         /\ RemTotal(new) \in Nat
    <3> DEFINE F == [c \in Commands |-> Res(c).remaining]
               G == [c \in Commands |-> new[c].remaining]
    <3>1. /\ \A c \in Commands : F[c] \in Nat
          /\ \A c \in orphans : G[c] = 0
          /\ \A c \in orphans : Rem[c] = F[c]
          /\ \A c \in Commands \ orphans : G[c] = F[c]
      BY <2>1, <2>4, <2>5, <2>8, RowShares
    <3>2. l.account.reserved = SumFunctionOnSet(F, Commands)
      BY DEF LedgerOK, Totals, RemTotal
    <3>3. RemTotal(new) = SumFunctionOnSet(G, Commands)
      BY DEF RemTotal
    <3> HIDE DEF F, G
    <3>4. /\ SumFunctionOnSet(F, Commands)
                = SumFunctionOnSet(Rem, orphans) + SumFunctionOnSet(G, Commands)
          /\ SumFunctionOnSet(Rem, orphans) \in Nat /\ SumFunctionOnSet(G, Commands) \in Nat
      <4>1. SumFunctionOnSet(F, orphans) = SumFunctionOnSet(Rem, orphans)
        BY <3>1, ClearedShares
      <4>2. /\ SumFunctionOnSet(F, Commands)
                  = SumFunctionOnSet(F, orphans) + SumFunctionOnSet(G, Commands)
            /\ SumFunctionOnSet(F, orphans) \in Nat /\ SumFunctionOnSet(G, Commands) \in Nat
        BY <3>1, ClearedRows
      <4> QED BY <4>1, <4>2
    <3> QED BY <2>9, <3>2, <3>3, <3>4 DEF Minus
  <2>11. Minus(l.account.reservedSlots, SumFunction(Slot)) = SlotTotal(new)
         /\ SlotTotal(new) \in Nat
    <3> DEFINE F == [c \in Commands |-> SlotShare(Res(c))]
               G == [c \in Commands |-> SlotShare(new[c])]
    <3>1. /\ \A c \in Commands : F[c] \in Nat
          /\ \A c \in Commands \ orphans : G[c] = F[c]
      BY <2>1, <2>5, RowShares
    <3>2. ASSUME NEW c \in orphans
          PROVE  G[c] = 0 /\ Slot[c] = F[c]
      <4>1. Res(c).converted \in {0, 1} /\ Res(c).state \in Live
        BY <2>1, RowShares
      <4>2. SlotShare(Res(c)) = 1 - Res(c).converted
        BY <4>1 DEF SlotShare
      <4> QED BY <2>4, <2>8, <4>2
    <3>3. l.account.reservedSlots = SumFunctionOnSet(F, Commands)
      BY DEF LedgerOK, Totals, SlotTotal
    <3>4. SlotTotal(new) = SumFunctionOnSet(G, Commands)
      BY DEF SlotTotal
    <3> HIDE DEF F, G
    <3>5. /\ SumFunctionOnSet(F, Commands)
                = SumFunctionOnSet(Slot, orphans) + SumFunctionOnSet(G, Commands)
          /\ SumFunctionOnSet(Slot, orphans) \in Nat /\ SumFunctionOnSet(G, Commands) \in Nat
      <4>1. \A c \in orphans : G[c] = 0
        BY <3>2
      <4>2. \A c \in orphans : Slot[c] = F[c]
        BY <3>2
      <4>3. SumFunctionOnSet(F, orphans) = SumFunctionOnSet(Slot, orphans)
        BY <3>1, <4>2, ClearedShares
      <4>4. /\ SumFunctionOnSet(F, Commands)
                  = SumFunctionOnSet(F, orphans) + SumFunctionOnSet(G, Commands)
            /\ SumFunctionOnSet(F, orphans) \in Nat /\ SumFunctionOnSet(G, Commands) \in Nat
        BY <3>1, <4>1, ClearedRows
      <4> QED BY <4>3, <4>4
    <3> QED BY <2>9, <3>3, <3>4, <3>5 DEF Minus
  <2>12. Minus(l.account.reservedLoss, SumFunction(LossOf)) >= LossTotal(new)
         /\ Minus(l.account.reservedLoss, SumFunction(LossOf)) \in Nat
    <3> DEFINE F == [c \in Commands |-> LossShare(Res(c))]
               G == [c \in Commands |-> LossShare(new[c])]
    <3>1. /\ \A c \in Commands : F[c] \in Nat
          /\ \A c \in orphans : G[c] = 0
          /\ \A c \in Commands \ orphans : G[c] = F[c]
      BY <2>1, <2>4, <2>5, RowShares
    <3>2. ASSUME NEW c \in orphans
          PROVE  LossOf[c] \in Nat /\ F[c] \in Nat /\ LossOf[c] <= F[c]
      <4>1. Res(c).state \in Live /\ PlanInfo[Res(c).plan].loss \in Nat
        BY <2>1, RowShares DEF Live
      <4>2. F[c] = PlanInfo[Res(c).plan].loss
        BY <4>1 DEF LossShare
      <4> HIDE DEF F
      <4> QED BY <2>8, <4>1, <4>2
    <3>3. l.account.reservedLoss >= SumFunctionOnSet(F, Commands)
      BY DEF LedgerOK, Totals, LossTotal
    <3>4. LossTotal(new) = SumFunctionOnSet(G, Commands)
      BY DEF LossTotal
    <3> HIDE DEF F, G
    <3>5. /\ SumFunctionOnSet(F, Commands)
                = SumFunctionOnSet(F, orphans) + SumFunctionOnSet(G, Commands)
          /\ SumFunctionOnSet(F, orphans) \in Nat /\ SumFunctionOnSet(G, Commands) \in Nat
      BY <3>1, ClearedRows
    <3>6. /\ SumFunctionOnSet(LossOf, orphans) <= SumFunctionOnSet(F, orphans)
          /\ SumFunctionOnSet(LossOf, orphans) \in Nat
      BY <3>2, CommandAssumption, FS_Subset, SumMonotone, SumNat
    <3> QED BY <2>2, <2>9, <3>3, <3>4, <3>5, <3>6 DEF Minus
  <2>13. ASSUME NEW i \in Instruments
         PROVE  f[i] = SymbolTotal(new, i) /\ f[i] \in Nat
    <3> DEFINE F == [c \in Commands |-> SymbolShare(Res(c), i)]
               G == [c \in Commands |-> SymbolShare(new[c], i)]
    <3>1. /\ \A c \in Commands : F[c] \in Nat
          /\ \A c \in orphans : G[c] = 0
          /\ \A c \in Commands \ orphans : G[c] = F[c]
      BY <2>1, <2>4, <2>5, RowShares
    <3>2. /\ \A c \in orphans \ On(i) : F[c] = 0
          /\ \A c \in On(i) : Rem[c] = F[c]
      BY <2>8 DEF SymbolShare
    <3>3. l.account.symbolReserved[i] = SumFunctionOnSet(F, Commands)
      BY DEF LedgerOK, Totals, SymbolTotal
    <3>4. SymbolTotal(new, i) = SumFunctionOnSet(G, Commands)
      BY DEF SymbolTotal
    <3>5. f[i] = Minus(l.account.symbolReserved[i], SumFunctionOnSet(Rem, On(i)))
      OBVIOUS
    <3>6. PICK T : T = On(i) /\ T \subseteq orphans
      OBVIOUS
    <3> HIDE DEF F, G, On, f
    <3>7. /\ SumFunctionOnSet(F, Commands)
                = SumFunctionOnSet(Rem, T) + SumFunctionOnSet(G, Commands)
          /\ SumFunctionOnSet(Rem, T) \in Nat /\ SumFunctionOnSet(G, Commands) \in Nat
      <4>1. \A c \in orphans \ T : F[c] = 0
        BY <3>2, <3>6
      <4>2. \A c \in T : Rem[c] = F[c]
        BY <3>2, <3>6
      <4>3. SumFunctionOnSet(F, orphans) = SumFunctionOnSet(Rem, T)
        BY <3>1, <3>6, <4>1, <4>2, ClearedShares
      <4>4. /\ SumFunctionOnSet(F, Commands)
                  = SumFunctionOnSet(F, orphans) + SumFunctionOnSet(G, Commands)
            /\ SumFunctionOnSet(F, orphans) \in Nat /\ SumFunctionOnSet(G, Commands) \in Nat
        BY <3>1, ClearedRows
      <4> QED BY <4>3, <4>4
    <3> QED BY <3>3, <3>4, <3>5, <3>6, <3>7 DEF Minus
  <2>14. f \in [Instruments -> Nat]
    <3>1. \A i \in Instruments : f[i] \in Nat
      BY <2>13
    <3> QED BY <3>1
  <2>15. /\ a \in Account /\ a.reserved = RemTotal(new) /\ a.reservedSlots = SlotTotal(new)
         /\ a.reservedLoss >= LossTotal(new) /\ a.symbolReserved = f
         /\ a.actual = l.account.actual
    <3> HIDE DEF f
    <3>1. PICK x \in Account, n \in Nat, loss \in Nat, k \in Nat, g \in [Instruments -> Nat],
               t \in Nat :
             /\ x = l.account /\ n = Minus(x.reserved, SumFunction(Rem))
             /\ loss = Minus(x.reservedLoss, SumFunction(LossOf))
             /\ k = Minus(x.reservedSlots, SumFunction(Slot)) /\ g = f /\ t = today
      BY <2>1, <2>10, <2>11, <2>12, <2>14
    <3>2. PICK y : y = [x EXCEPT !.reserved = n, !.reservedLoss = loss, !.reservedSlots = k,
                                 !.symbolReserved = g, !.tradeCount = 0, !.day = t]
      OBVIOUS
    <3>3. a = y
      BY <3>1, <3>2
    <3> HIDE DEF a
    <3>4. /\ y \in Account /\ y.reserved = n /\ y.reservedLoss = loss
          /\ y.reservedSlots = k /\ y.actual = x.actual /\ y.symbolReserved = g
      BY <3>2 DEF Account
    <3> QED BY <2>10, <2>11, <2>12, <3>1, <3>3, <3>4
  <2>16. Totals(a, new)
    <3> HIDE DEF a, f
    <3> QED BY <2>13, <2>15 DEF Totals
  <2> HIDE DEF a
  <2>17. LedgerOK([account |-> a, reservation |-> new])
    BY <2>6, <2>7, <2>15, <2>16 DEF LedgerOK
  <2> QED BY <2>3, <2>6, <2>15, <2>17 DEF SameRows
<1> QED BY <1>1, <1>2

----------------------------------------------------------------------------
(* The rows of a transaction: the ledger stays sound, and the open         *)
(* exposure moves with the value of the receipt's fills.                   *)
Ready(b, c) == IsRows(b) /\ LedgerOK(b.ledger) /\ b.ledger.reservation[c].state # "NONE"

Books(b, o) ==
    /\ LedgerOK(b.ledger)
    /\ SameRows(b.ledger, o.ledger)
    /\ b.ledger.account.actual + o.receipt.value = o.ledger.account.actual + b.receipt.value

LEMMA BooksAgain ==
    ASSUME NEW c \in Commands, NEW o, Ready(o, c), NEW b, IsRows(b), Books(b, o)
    PROVE  Ready(b, c)
BY DEF Ready, Books, SameRows

LEMMA ReadyAmounts ==
    ASSUME NEW c, NEW b, Ready(b, c)
    PROVE  b.ledger.account.actual \in Nat /\ b.receipt.value \in Nat
<1>1. b.ledger.account \in Account /\ b.receipt \in Receipt
  BY DEF Ready, LedgerOK, IsRows
<1>2. b.receipt.value \in Nat
  BY <1>1 DEF Receipt
<1> QED BY <1>1, <1>2, AccountColumns

(* One step of a transaction after another. *)
LEMMA BooksCompose ==
    ASSUME NEW c \in Commands, NEW o, Ready(o, c), NEW b, Ready(b, c), Books(b, o),
           NEW d, Ready(d, c), Books(d, b)
    PROVE  Books(d, o)
<1>1. /\ o.ledger.account.actual \in Nat /\ o.receipt.value \in Nat
      /\ b.ledger.account.actual \in Nat /\ b.receipt.value \in Nat
      /\ d.ledger.account.actual \in Nat /\ d.receipt.value \in Nat
  BY ReadyAmounts
<1>2. d.ledger.account.actual + o.receipt.value = o.ledger.account.actual + d.receipt.value
  BY <1>1 DEF Books
<1>3. SameRows(d.ledger, o.ledger)
  BY DEF Books, SameRows
<1> QED BY <1>2, <1>3 DEF Books

(* A step that leaves the ledger and the fills alone. *)
LEMMA QuietBooks ==
    ASSUME NEW c \in Commands, NEW o, Ready(o, c), NEW b, b.ledger = o.ledger,
           b.receipt.value = o.receipt.value
    PROVE  Books(b, o)
BY DEF Books, Ready, SameRows

(* A step that releases the unused part of the reservation. *)
LEMMA ReleaseBooks ==
    ASSUME NEW c \in Commands, NEW o, Ready(o, c), NEW b,
           b.ledger = ReleaseUnused(o.ledger, c), b.receipt.value = o.receipt.value
    PROVE  Books(b, o)
BY ReleaseUnusedKeeps DEF Books, Ready

LEMMA MarkBooks ==
    ASSUME NEW c \in Commands, NEW b, Ready(b, c), NEW view \in View
    PROVE  /\ Books(MarkAmbiguous(b), b)
           /\ Books(MarkAcknowledged(b, view), b)
           /\ Books(MarkRejected(b, c, view), b)
           /\ Books(RecordOrder(b, view), b)
           /\ Books(RecordRejection(b, c, view), b)
           /\ Books(b, b)
<1>1. IsRows(b) /\ Books(b, b)
  BY QuietBooks DEF Ready
<1>2. Books(MarkAmbiguous(b), b)
  <2>1. MarkAmbiguous(b).ledger = b.ledger
    BY DEF MarkAmbiguous
  <2> QED BY <1>1, <2>1, QuietBooks, MarkAmbiguousRows DEF SameFills
<1>3. Books(MarkAcknowledged(b, view), b)
  <2>1. MarkAcknowledged(b, view).ledger = b.ledger
    BY DEF MarkAcknowledged
  <2> QED BY <1>1, <2>1, QuietBooks, MarkAcknowledgedRows DEF SameFills
<1>4. Books(MarkRejected(b, c, view), b)
  <2>1. MarkRejected(b, c, view).ledger = ReleaseUnused(b.ledger, c)
    BY DEF MarkRejected
  <2> QED BY <1>1, <2>1, ReleaseBooks, MarkRejectedRows DEF SameFills
<1> QED BY <1>1, <1>2, <1>3, <1>4 DEF RecordOrder, RecordRejection

LEMMA EndBooks ==
    ASSUME NEW c \in Commands, NEW b, Ready(b, c), NEW evidence, NEW d \in Dispositions
    PROVE  /\ Books(BlockBeforeDispatch(b, c), b)
           /\ Books(RecordEnd(b, c, evidence), b)
           /\ Books(MarkDisposition(b, d), b)
<1>1. IsRows(b) /\ Books(b, b)
  BY QuietBooks DEF Ready
<1>2. Books(BlockBeforeDispatch(b, c), b)
  <2>1. \/ BlockBeforeDispatch(b, c) = b
        \/ BlockBeforeDispatch(b, c).ledger = ReleaseUnused(b.ledger, c)
    BY DEF BlockBeforeDispatch
  <2> QED BY <1>1, <2>1, ReleaseBooks, BlockBeforeDispatchRows DEF SameFills
<1>3. Books(RecordEnd(b, c, evidence), b)
  <2>1. \/ RecordEnd(b, c, evidence) = b
        \/ RecordEnd(b, c, evidence).ledger = ReleaseUnused(b.ledger, c)
    BY DEF RecordEnd, RecordTerminal
  <2> QED BY <1>1, <2>1, ReleaseBooks, RecordEndRows DEF SameFills
<1>4. Books(MarkDisposition(b, d), b)
  <2>1. MarkDisposition(b, d).ledger = b.ledger
    BY DEF MarkDisposition
  <2> QED BY <1>1, <2>1, QuietBooks, MarkDispositionRows DEF SameFills
<1> QED BY <1>2, <1>3, <1>4

(* apply_unique_fill, on a ledger that may have been rolled before. *)
LEMMA FillBooks ==
    ASSUME NEW c \in Commands, NEW b, Ready(b, c), NEW l, LedgerOK(l),
           SameRows(l, b.ledger), l.account.actual = b.ledger.account.actual,
           NEW n \in Nat, NEW value \in Nat, n <= b.receipt.remaining
    PROVE  Books(ApplyFills(b, c, l, n, value), b)
<1> DEFINE d == ApplyFills(b, c, l, n, value)
<1>1. d.receipt.value = b.receipt.value + value
  BY ApplyFillsRows DEF Ready
<1>2. d.ledger = ConvertForFill(l, c, value)
  BY DEF ApplyFills
<1>3. l.reservation[c].state # "NONE"
  BY DEF Ready, SameRows
<1>4. /\ LedgerOK(d.ledger) /\ d.ledger.account.actual = l.account.actual + value
      /\ SameRows(d.ledger, l)
  <2> HIDE DEF d
  <2> QED BY <1>2, <1>3, ConvertKeeps
<1>5. b.ledger.account.actual \in Nat /\ b.receipt.value \in Nat
  BY ReadyAmounts
<1> HIDE DEF d
<1>6. SameRows(d.ledger, b.ledger)
  BY <1>4 DEF SameRows
<1>7. d.ledger.account.actual + b.receipt.value = b.ledger.account.actual + d.receipt.value
  BY <1>1, <1>4, <1>5
<1> QED BY <1>4, <1>6, <1>7 DEF Books, d

LEMMA NewFillsBooks ==
    ASSUME NEW c \in Commands, NEW b, Ready(b, c), NEW evidence \in Order,
           ~(Minus(evidence.filled, b.receipt.filled) > b.receipt.remaining)
    PROVE  Books(RecordNewFills(b, c, evidence), b)
<1>1. CASE evidence.filled > b.receipt.filled
  <2> DEFINE q == evidence.filled - b.receipt.filled
             v == Minus(evidence.value, b.receipt.value)
  <2>1. /\ b.receipt.filled \in Nat /\ b.receipt.remaining \in Nat /\ b.receipt.value \in Nat
        /\ evidence.filled \in Nat /\ evidence.value \in Nat
    BY DEF Ready, IsRows, Receipt, Order
  <2>2. q \in Nat /\ q <= b.receipt.remaining /\ v \in Nat
    BY <1>1, <2>1 DEF Minus
  <2>3. RecordNewFills(b, c, evidence) = ApplyFills(b, c, b.ledger, q, v)
    BY <1>1 DEF RecordNewFills
  <2>4. LedgerOK(b.ledger) /\ SameRows(b.ledger, b.ledger)
    BY DEF Ready, SameRows
  <2> HIDE DEF q, v
  <2> QED BY <2>2, <2>3, <2>4, FillBooks
<1>2. CASE ~(evidence.filled > b.receipt.filled)
  <2>1. RecordNewFills(b, c, evidence) = b
    BY <1>2 DEF RecordNewFills
  <2> QED BY <2>1, QuietBooks
<1> QED BY <1>1, <1>2

----------------------------------------------------------------------------
(* The inductive invariant.  Only demo commands are resolved and only they *)
(* are worked on, a command has a reservation exactly if it is allowed,    *)
(* and the open exposure is the value of the fills not resolved yet.       *)
OpenValue(rec, done) == [c \in Commands |-> IF c \in done THEN 0 ELSE rec[c].value]

OpenTotal(rec, done) == SumFunctionOnSet(OpenValue(rec, done), Commands)

DemoOnly ==
    /\ \A c \in resolved : GovernedDemo(c)
    /\ \A w \in Workers : worker[w].pc # "idle" => GovernedDemo(worker[w].cmd)

ReservedIfAllowed ==
    \A c \in Commands : /\ Allowed(c) <=> ledger.reservation[c].state # "NONE"
                        /\ ~Allowed(c) => receipt[c].value = 0

LedgerInv ==
    /\ LedgerOK(ledger)
    /\ today \in 1..LastDay
    /\ DemoOnly
    /\ ReservedIfAllowed
    /\ ledger.account.actual = OpenTotal(receipt, resolved)

(* What a step on the rows of command c does to the books. *)
BooksFrame(c) ==
    /\ LedgerOK(ledger')
    /\ SameRows(ledger', ledger)
    /\ UNCHANGED <<today, command>>
    /\ \A d \in Commands \ {c} : receipt'[d].value = receipt[d].value
    /\ \/ /\ resolved' = resolved
          /\ c \notin resolved \/ receipt'[c].value = receipt[c].value
          /\ ledger'.account.actual + receipt[c].value
                = ledger.account.actual + receipt'[c].value
       \/ /\ c \notin resolved
          /\ resolved' = resolved \cup {c}
          /\ receipt'[c].value = receipt[c].value
          /\ ledger'.account.actual + receipt[c].value = ledger.account.actual

LEMMA CommitBooks ==
    ASSUME TypeInv, NEW c \in Commands, NEW b, Commit(c, b), Books(b, Rows(c)),
           c \notin resolved \/ b.receipt.value = receipt[c].value
    PROVE  BooksFrame(c)
<1>1. /\ receipt' = [receipt EXCEPT ![c] = b.receipt] /\ ledger' = b.ledger
      /\ UNCHANGED <<command, resolved, today>>
  BY DEF Commit
<1>2. receipt \in [Commands -> Receipt]
  BY DEF TypeInv, ControlTypeOK, ClaimTypeOK
<1>3. Rows(c).receipt = receipt[c] /\ Rows(c).ledger = ledger
  BY DEF Rows
<1>4. receipt'[c] = b.receipt /\ \A d \in Commands \ {c} : receipt'[d] = receipt[d]
  BY <1>1, <1>2
<1> QED BY <1>1, <1>3, <1>4 DEF BooksFrame, Books

LEMMA RollbackBooks ==
    ASSUME LedgerInv, NEW c \in Commands, Rollback
    PROVE  BooksFrame(c)
<1>1. UNCHANGED <<command, receipt, resolved, ledger, today>>
  BY DEF Rollback, claimVars, ledgerVars
<1> QED BY <1>1 DEF BooksFrame, LedgerInv, SameRows

LEMMA ReadyRows ==
    ASSUME TypeInv, LedgerInv, NEW c \in Commands, Allowed(c)
    PROVE  /\ Ready(Rows(c), c) /\ IsRows(Rows(c))
           /\ Rows(c).receipt = receipt[c] /\ Rows(c).ledger = ledger
           /\ Rows(c).effect = effect[c]
BY RowsType DEF Ready, LedgerInv, ReservedIfAllowed

LEMMA LeaseBooks ==
    ASSUME TypeInv, LedgerInv, NEW w \in Workers, LeaseAndAuthorize(w)
    PROVE  BooksFrame(worker[w].cmd)
<1> DEFINE c == worker[w].cmd
<1>1. worker[w].pc # "idle"
  BY DEF LeaseAndAuthorize
<1>2. c \in Commands /\ Allowed(c)
  BY <1>1, BusyWorker
<1>3. /\ Ready(Rows(c), c) /\ IsRows(Rows(c)) /\ Rows(c).receipt = receipt[c]
  BY <1>2, ReadyRows
<1>4. CASE Commit(c, BlockBeforeDispatch(Rows(c), c))
  <2> DEFINE b == BlockBeforeDispatch(Rows(c), c)
  <2>1. "NOT_SENT" \in Dispositions
    BY DEF Dispositions
  <2>2. Books(b, Rows(c))
    BY <1>2, <1>3, <2>1, EndBooks
  <2>3. b.receipt.value = receipt[c].value
    BY <1>3, BlockBeforeDispatchRows DEF SameFills
  <2>4. Commit(c, b)
    BY <1>4
  <2> HIDE DEF b
  <2> QED BY <1>2, <2>2, <2>3, <2>4, CommitBooks
<1>5. ASSUME NEW e, Commit(c, [Rows(c) EXCEPT !.effect = e])
      PROVE  BooksFrame(c)
  <2>1. PICK b : b = [Rows(c) EXCEPT !.effect = e]
    OBVIOUS
  <2>2. b.ledger = Rows(c).ledger /\ b.receipt = Rows(c).receipt
    BY <2>1 DEF Rows
  <2>3. Books(b, Rows(c))
    BY <1>2, <1>3, <2>2, QuietBooks
  <2>4. Commit(c, b)
    BY <1>5, <2>1
  <2> QED BY <1>2, <1>3, <2>2, <2>3, <2>4, CommitBooks
<1>6. CASE Rollback
  BY <1>2, <1>6, RollbackBooks
<1> QED BY <1>4, <1>5, <1>6 DEF LeaseAndAuthorize

LEMMA AnswerBooks ==
    ASSUME TypeInv, LedgerInv, NEW w \in Workers, Consume(w) \/ RecordAnswer(w) \/ Recover(w)
    PROVE  BooksFrame(worker[w].cmd)
<1> DEFINE c == worker[w].cmd
           view == worker[w].view
<1>1. worker[w].pc # "idle"
  BY DEF Consume, RecordAnswer, Recover
<1>2. c \in Commands /\ Allowed(c) /\ view \in View
  BY <1>1, BusyWorker
<1>3. /\ Ready(Rows(c), c) /\ IsRows(Rows(c)) /\ Rows(c).receipt = receipt[c]
  BY <1>2, ReadyRows
<1>4. ASSUME NEW b, Commit(c, b), Books(b, Rows(c)), SameFills(b, Rows(c))
      PROVE  BooksFrame(c)
  BY <1>2, <1>3, <1>4, CommitBooks DEF SameFills
<1>5. CASE Commit(c, MarkAmbiguous(Rows(c)))
  <2>1. Books(MarkAmbiguous(Rows(c)), Rows(c)) /\ SameFills(MarkAmbiguous(Rows(c)), Rows(c))
    BY <1>2, <1>3, MarkBooks, MarkAmbiguousRows
  <2> QED BY <1>4, <1>5, <2>1
<1>6. CASE Commit(c, MarkAcknowledged(Rows(c), view))
  <2>1. /\ Books(MarkAcknowledged(Rows(c), view), Rows(c))
        /\ SameFills(MarkAcknowledged(Rows(c), view), Rows(c))
    BY <1>2, <1>3, MarkBooks, MarkAcknowledgedRows
  <2> QED BY <1>4, <1>6, <2>1
<1>7. CASE Commit(c, MarkRejected(Rows(c), c, view))
  <2>1. /\ Books(MarkRejected(Rows(c), c, view), Rows(c))
        /\ SameFills(MarkRejected(Rows(c), c, view), Rows(c))
    BY <1>2, <1>3, MarkBooks, MarkRejectedRows
  <2> QED BY <1>4, <1>7, <2>1
<1>8. CASE Rollback
  BY <1>2, <1>8, RollbackBooks
<1>9. CASE Consume(w)
  BY <1>5, <1>8, <1>9 DEF Consume
<1>10. CASE Recover(w)
  BY <1>5, <1>10 DEF Recover
<1>11. CASE RecordAnswer(w)
  BY <1>6, <1>7, <1>11 DEF RecordAnswer
<1> QED BY <1>9, <1>10, <1>11

LEMMA EntryBooks ==
    ASSUME TypeInv, LedgerInv, NEW w \in Workers, ReconcileEntry(w)
    PROVE  BooksFrame(worker[w].cmd)
<1> DEFINE c == worker[w].cmd
           view == worker[w].view
           evidence == worker[w].evidence
           conflict == Minus(evidence.filled, receipt[c].filled) > receipt[c].remaining
           opened == RecordOrder(Rows(c), view)
           filled == RecordNewFills(opened, c, evidence)
           entry == RecordEnd(filled, c, evidence)
<1>1. worker[w].pc # "idle"
  BY DEF ReconcileEntry
<1>2. c \in Commands /\ Allowed(c) /\ view \in View /\ evidence \in Order
  BY <1>1, BusyWorker
<1>3. /\ Ready(Rows(c), c) /\ IsRows(Rows(c)) /\ Rows(c).receipt = receipt[c]
  BY <1>2, ReadyRows
<1>4. ASSUME ~conflict
      PROVE  Ready(entry, c) /\ Books(entry, Rows(c))
  <2>1. /\ IsRows(opened) /\ SameFills(opened, Rows(c))
        /\ opened.receipt.remaining = receipt[c].remaining
    BY <1>2, <1>3, RecordOrderRows
  <2>2. Books(opened, Rows(c))
    BY <1>2, <1>3, MarkBooks
  <2> HIDE DEF opened
  <2>3. Ready(opened, c)
    BY <1>2, <1>3, <2>1, <2>2, BooksAgain
  <2>4. ~(Minus(evidence.filled, opened.receipt.filled) > opened.receipt.remaining)
    BY <1>3, <1>4, <2>1 DEF SameFills
  <2>5. IsRows(filled)
    BY <1>2, <2>1, <2>4, RecordNewFillsRows
  <2>6. Books(filled, opened)
    BY <1>2, <2>3, <2>4, NewFillsBooks
  <2> HIDE DEF filled
  <2>7. Ready(filled, c)
    BY <1>2, <2>3, <2>5, <2>6, BooksAgain
  <2>8. IsRows(entry)
    BY <2>5, RecordEndRows
  <2>9. Books(entry, filled)
    <3>1. "NOT_SENT" \in Dispositions
      BY DEF Dispositions
    <3> QED BY <1>2, <2>7, <3>1, EndBooks
  <2> HIDE DEF entry
  <2>10. Ready(entry, c)
    BY <1>2, <2>7, <2>8, <2>9, BooksAgain
  <2>11. Books(filled, Rows(c))
    BY <1>2, <1>3, <2>2, <2>3, <2>6, <2>7, BooksCompose
  <2>12. Books(entry, Rows(c))
    BY <1>2, <1>3, <2>7, <2>9, <2>10, <2>11, BooksCompose
  <2> QED BY <2>10, <2>12
<1>5. CASE Rollback
  BY <1>2, <1>5, RollbackBooks
<1>6. CASE c \notin resolved /\ Commit(c, RecordRejection(Rows(c), c, view))
  <2>1. Books(RecordRejection(Rows(c), c, view), Rows(c))
    BY <1>2, <1>3, MarkBooks
  <2> QED BY <1>2, <1>6, <2>1, CommitBooks
<1>7. CASE c \notin resolved /\ ~conflict /\ Commit(c, MarkDisposition(entry, "DEMO_UNFILLED"))
  <2> DEFINE b == MarkDisposition(entry, "DEMO_UNFILLED")
  <2>1. Ready(entry, c) /\ Books(entry, Rows(c)) /\ Commit(c, b) /\ c \notin resolved
    BY <1>4, <1>7
  <2> HIDE DEF entry
  <2>2. "DEMO_UNFILLED" \in Dispositions
    BY DEF Dispositions
  <2>3. IsRows(b)
    BY <2>1, <2>2, MarkDispositionRows DEF Ready
  <2>4. Books(b, entry)
    BY <1>2, <2>1, <2>2, EndBooks
  <2> HIDE DEF b
  <2>5. Ready(b, c)
    BY <1>2, <2>1, <2>3, <2>4, BooksAgain
  <2>6. Books(b, Rows(c))
    BY <1>2, <1>3, <2>1, <2>4, <2>5, BooksCompose
  <2> QED BY <1>2, <2>1, <2>6, CommitBooks
<1>8. CASE c \notin resolved /\ ~conflict /\ Commit(c, entry)
  <2>1. Books(entry, Rows(c)) /\ Commit(c, entry) /\ c \notin resolved
    BY <1>4, <1>8
  <2> HIDE DEF entry
  <2> QED BY <1>2, <2>1, CommitBooks
<1> QED BY <1>5, <1>6, <1>7, <1>8 DEF ReconcileEntry

LEMMA ExitBooks ==
    ASSUME TypeInv, LedgerInv, NEW w \in Workers, ReconcileExit(w)
    PROVE  BooksFrame(worker[w].cmd)
<1> DEFINE c == worker[w].cmd
           evidence == worker[w].evidence
<1>1. worker[w].pc # "idle"
  BY DEF ReconcileExit
<1>2. c \in Commands /\ Allowed(c) /\ evidence \in Order
  BY <1>1, BusyWorker
<1>3. /\ Ready(Rows(c), c) /\ IsRows(Rows(c)) /\ Rows(c).receipt = receipt[c]
      /\ Rows(c).ledger = ledger
  BY <1>2, ReadyRows
<1>4. CASE Rollback
  BY <1>2, <1>4, RollbackBooks
<1>5. ASSUME NEW d \in Dispositions
      PROVE  LET m == MarkDisposition(Rows(c), d)
             IN  Ready(m, c) /\ Books(m, Rows(c)) /\ SameFills(m, Rows(c))
  <2>1. /\ IsRows(MarkDisposition(Rows(c), d))
        /\ SameFills(MarkDisposition(Rows(c), d), Rows(c))
    BY <1>3, MarkDispositionRows
  <2>2. Books(MarkDisposition(Rows(c), d), Rows(c))
    BY <1>2, <1>3, EndBooks
  <2> QED BY <1>2, <1>3, <2>1, <2>2, BooksAgain
<1>6. CASE \E protected \in BOOLEAN : ExitNotObserved(c, evidence, protected)
  <2>1. PICK protected \in BOOLEAN : ExitNotObserved(c, evidence, protected)
    BY <1>6
  <2>2. CASE c \in resolved
    BY <1>4, <2>1, <2>2 DEF ExitNotObserved
  <2>3. CASE c \notin resolved
    <3> DEFINE d == IF protected THEN "DEMO_PROTECTED" ELSE "DEMO_PROTECTION_MISSING"
               m == MarkDisposition(Rows(c), d)
               b == RecordEnd(m, c, evidence)
    <3>1. Commit(c, b)
      BY <2>1, <2>3 DEF ExitNotObserved
    <3>2. d \in Dispositions
      BY DEF Dispositions
    <3>3. Ready(m, c) /\ Books(m, Rows(c))
      BY <1>5, <3>2
    <3> HIDE DEF m, d
    <3>4. IsRows(b)
      BY <3>3, RecordEndRows DEF Ready
    <3>5. Books(b, m)
      BY <1>2, <3>2, <3>3, EndBooks
    <3> HIDE DEF b
    <3>6. Ready(b, c)
      BY <1>2, <3>3, <3>4, <3>5, BooksAgain
    <3>7. Books(b, Rows(c))
      BY <1>2, <1>3, <3>3, <3>5, <3>6, BooksCompose
    <3> QED BY <1>2, <2>3, <3>1, <3>7, CommitBooks
  <2> QED BY <2>2, <2>3
<1>7. CASE \E armed \in BOOLEAN : ProfileLiquidationHold(c, armed)
  <2> DEFINE m == MarkDisposition(Rows(c), "DEMO_LIQUIDATION_HOLD")
  <2>1. "DEMO_LIQUIDATION_HOLD" \in Dispositions
    BY DEF Dispositions
  <2>2. Books(m, Rows(c)) /\ m.receipt.value = receipt[c].value
    BY <1>3, <1>5, <2>1 DEF SameFills
  <2>3. Commit(c, m)
    BY <1>7 DEF ProfileLiquidationHold
  <2> HIDE DEF m
  <2> QED BY <1>2, <2>2, <2>3, CommitBooks
<1>8. CASE ExitObserved(c, evidence)
  <2>1. CASE c \notin resolved /\ ExitResolvable(c, evidence) /\ ResolveExit(c)
    <3> DEFINE v == receipt[c].value
    <3>1. /\ ledger' = ReleaseExit(ledger, c, v) /\ resolved' = resolved \cup {c}
          /\ UNCHANGED <<command, receipt, today>>
      BY <2>1, Zenon DEF ResolveExit
    <3>2. ledger.reservation[c].converted = 1 /\ ledger.account.actual >= v
      BY <2>1 DEF ExitResolvable, CanReleaseExit
    <3>3. v \in Nat
      BY <1>2 DEF TypeInv, ControlTypeOK, ClaimTypeOK, Receipt
    <3>4. LedgerOK(ledger) /\ ledger.reservation[c].state # "NONE"
      BY <1>3 DEF Ready
    <3> HIDE DEF v
    <3>5. /\ LedgerOK(ReleaseExit(ledger, c, v)) /\ SameRows(ReleaseExit(ledger, c, v), ledger)
          /\ ReleaseExit(ledger, c, v).account.actual + v = ledger.account.actual
      BY <1>2, <3>2, <3>3, <3>4, ReleaseExitKeeps
    <3> QED BY <2>1, <3>1, <3>5 DEF BooksFrame, v
  <2> QED BY <1>4, <1>8, <2>1 DEF ExitObserved
<1>9. CASE LineageConflict
  BY <1>4, <1>9 DEF LineageConflict
<1> QED BY <1>6, <1>7, <1>8, <1>9 DEF ReconcileExit

(* Every step of a worker works on a demo command. *)
LEMMA WorkerBooks ==
    ASSUME TypeInv, LedgerInv, WorkerNext
    PROVE  \E w \in Workers, c \in Commands :
              GovernedDemo(c) /\ WorkerFrame(w, c) /\ BooksFrame(c)
<1>1. PICK w \in Workers :
         \/ \E c \in Commands : StartProcess(w, c) \/ StartReconcile(w, c)
         \/ WorkerStep(w)
         \/ PreflightRefuses(w)
         \/ Crash(w)
  BY DEF WorkerNext
<1>2. CASE \E c \in Commands : StartProcess(w, c) \/ StartReconcile(w, c)
  <2>1. PICK c \in Commands : StartProcess(w, c) \/ StartReconcile(w, c)
    BY <1>2
  <2>2. Rollback /\ GovernedDemo(c)
    BY <2>1 DEF StartProcess, StartReconcile, Batch, Pending
  <2>3. WorkerFrame(w, c)
    BY <2>1, StartFrame DEF Frame
  <2> QED BY <2>2, <2>3, RollbackBooks
<1>3. ASSUME worker[w].pc # "idle", Frame(w, worker[w].cmd), BooksFrame(worker[w].cmd)
      PROVE  \E v \in Workers, c \in Commands :
                GovernedDemo(c) /\ WorkerFrame(v, c) /\ BooksFrame(c)
  <2>1. worker[w].cmd \in Commands /\ GovernedDemo(worker[w].cmd)
    BY <1>3, BusyWorker DEF LedgerInv, DemoOnly
  <2> QED BY <1>3, <2>1 DEF Frame
<1>4. ASSUME worker[w].pc # "idle", Rollback
      PROVE  BooksFrame(worker[w].cmd)
  BY <1>4, BusyWorker, RollbackBooks
<1>5. CASE LeaseAndAuthorize(w)
  <2>1. worker[w].pc # "idle"
    BY <1>5 DEF LeaseAndAuthorize
  <2> QED BY <1>3, <1>5, <2>1, LeaseFrame, LeaseBooks
<1>6. CASE Consume(w)
  <2>1. worker[w].pc # "idle"
    BY <1>6 DEF Consume
  <2> QED BY <1>3, <1>6, <2>1, ConsumeFrame, AnswerBooks
<1>7. CASE PreflightRefuses(w) \/ FinalGate(w) \/ Lookup(w) \/ Crash(w)
  <2>1. Rollback
    BY <1>7 DEF PreflightRefuses, FinalGate, Lookup, Crash
  <2> QED BY <1>3, <1>4, <1>7, <2>1, GateFrame
<1>8. CASE Post(w)
  <2>1. Rollback
    BY <1>8 DEF Post
  <2> QED BY <1>3, <1>4, <1>8, <2>1, PostFrame
<1>9. CASE RecordAnswer(w) \/ Recover(w)
  BY <1>3, <1>9, AnswerFrame, AnswerBooks
<1>10. CASE ReconcileEntry(w)
  BY <1>3, <1>10, ReconcileEntryFrame, EntryBooks
<1>11. CASE ReconcileExit(w)
  BY <1>3, <1>11, ReconcileExitFrame, ExitBooks
<1> QED BY <1>1, <1>2, <1>5, <1>6, <1>7, <1>8, <1>9, <1>10, <1>11 DEF WorkerStep

(* The orphans of a day roll hold live reservations. *)
LEMMA OrphansLive ==
    ASSUME LedgerInv, NEW aged
    PROVE  /\ today \in Nat
           /\ Orphans(aged) \subseteq Commands
           /\ \A c \in Orphans(aged) : ledger.reservation[c].state \in Live
<1>1. today \in Nat
  BY LimitAssumption DEF LedgerInv
<1>2. \A c \in Commands : ledger.reservation[c].state \in ReservationStates
  BY RowShares DEF LedgerInv, LedgerOK
<1> QED BY <1>1, <1>2 DEF Orphans, Live, ReservationStates

LEMMA RolledLedger ==
    ASSUME LedgerInv, NEW aged
    PROVE  LET l == Roll(ledger, Orphans(aged))
           IN  LedgerOK(l) /\ l.account.actual = ledger.account.actual /\ SameRows(l, ledger)
<1>1. PICK S : S = Orphans(aged)
  OBVIOUS
<1>2. /\ LedgerOK(Roll(ledger, S)) /\ Roll(ledger, S).account.actual = ledger.account.actual
      /\ SameRows(Roll(ledger, S), ledger)
  BY <1>1, OrphansLive, RollKeeps DEF LedgerInv
<1> QED BY <1>1, <1>2

(* A claim charges a reservation for an allowed command, and moves no      *)
(* exposure.                                                               *)
LEMMA ClaimBooks ==
    ASSUME TypeInv, LedgerInv, NEW k \in Commands, NEW a \in Authorizations,
           NEW refused \in BOOLEAN, NEW aged, Claim(k, a, refused, aged)
    PROVE  /\ LedgerOK(ledger')
           /\ ledger'.account.actual = ledger.account.actual
           /\ UNCHANGED <<today, resolved>>
           /\ \A d \in Commands \ {k} : command'[d] = command[d]
           /\ ~Allowed(k)
           /\ ReservedIfAllowed'
           /\ \A d \in Commands : receipt'[d].value = receipt[d].value
<1> DEFINE p == AuthorizedPlan[a]
<1>1. PICK l : l = LockedLedger(p, Orphans(aged))
  OBVIOUS
<1>2. LedgerOK(l) /\ l.account.actual = ledger.account.actual /\ SameRows(l, ledger)
  <2>1. CASE IsPaper(p)
    BY <1>1, <2>1, RolledLedger DEF LockedLedger
  <2>2. CASE ~IsPaper(p)
    <3>1. l = ledger
      BY <1>1, <2>2 DEF LockedLedger
    <3> QED BY <3>1 DEF LedgerInv, SameRows
  <2> QED BY <2>1, <2>2
<1>3. /\ command[k].outcome = "NONE" /\ UNCHANGED <<today, resolved>>
      /\ PersistAllow(k, a, l) \/ PersistBlocked(k, a, l)
  BY <1>1 DEF Claim
<1>4. ClaimFrame(k, a)
  BY ClaimStep
<1>5. ~Allowed(k) /\ receipt[k].value = 0 /\ ledger.reservation[k].state = "NONE"
  BY <1>3 DEF Allowed, LedgerInv, ReservedIfAllowed
<1>6. \A d \in Commands : receipt'[d].value = receipt[d].value
  BY <1>4, <1>5 DEF ClaimFrame
<1>7. \A d \in Commands \ {k} : command'[d] = command[d]
  BY <1>4 DEF ClaimFrame
<1>8. command \in [Commands -> Command]
  BY DEF TypeInv, ControlTypeOK, ClaimTypeOK
<1>9. CASE PersistAllow(k, a, l)
  <2>1. ledger' = Charge(l, k, p) /\ command'[k].outcome = "ALLOW"
    BY <1>8, <1>9 DEF PersistAllow
  <2>2. p \in Plans /\ today \in Nat /\ l.reservation[k].state = "NONE"
    BY <1>2, <1>5, AuthorizationAssumption, OrphansLive DEF SameRows
  <2>3. /\ LedgerOK(ledger') /\ ledger'.account.actual = l.account.actual
        /\ \A d \in Commands : ledger'.reservation[d].state = "NONE"
                                <=> d # k /\ l.reservation[d].state = "NONE"
    BY <1>2, <2>1, <2>2, ChargeKeeps
  <2>4. ASSUME NEW d \in Commands
        PROVE  /\ Allowed(d)' <=> ledger'.reservation[d].state # "NONE"
               /\ ~Allowed(d)' => receipt'[d].value = 0
    <3>1. CASE d = k
      BY <2>1, <2>3, <3>1 DEF Allowed
    <3>2. CASE d # k
      BY <1>2, <1>6, <1>7, <2>3, <3>2 DEF Allowed, SameRows, LedgerInv, ReservedIfAllowed
    <3> QED BY <3>1, <3>2
  <2>5. ReservedIfAllowed'
    BY <2>4 DEF ReservedIfAllowed
  <2> QED BY <1>2, <1>3, <1>5, <1>6, <1>7, <2>3, <2>5
<1>10. CASE PersistBlocked(k, a, l)
  <2>1. ledger' = l /\ command'[k].outcome = "BLOCKED"
    BY <1>8, <1>10 DEF PersistBlocked
  <2>2. ASSUME NEW d \in Commands
        PROVE  /\ Allowed(d)' <=> ledger'.reservation[d].state # "NONE"
               /\ ~Allowed(d)' => receipt'[d].value = 0
    <3>1. CASE d = k
      BY <1>2, <1>5, <1>6, <2>1, <3>1 DEF Allowed, SameRows
    <3>2. CASE d # k
      BY <1>2, <1>6, <1>7, <2>1, <3>2 DEF Allowed, SameRows, LedgerInv, ReservedIfAllowed
    <3> QED BY <3>1, <3>2
  <2>3. ReservedIfAllowed'
    BY <2>2 DEF ReservedIfAllowed
  <2> QED BY <1>2, <1>3, <1>5, <1>6, <1>7, <2>1, <2>3
<1> QED BY <1>3, <1>9, <1>10

(* A paper fill is the fill of a command that is never resolved. *)
LEMMA PaperFillBooks ==
    ASSUME TypeInv, LedgerInv, NEW c \in Commands, NEW price \in Prices, NEW aged,
           PaperFill(c, price, aged)
    PROVE  BooksFrame(c)
<1> DEFINE q == PlanInfo[PlanOf(c)].quantity
<1>1. PICK l : l = Roll(ledger, Orphans(aged \ {c}))
  OBVIOUS
<1>2. /\ Allowed(c) /\ IsPaper(PlanOf(c)) /\ q <= receipt[c].remaining
      /\ Commit(c, ApplyFills(Rows(c), c, l, q, q * price))
  BY <1>1 DEF PaperFill
<1>3. LedgerOK(l) /\ l.account.actual = ledger.account.actual /\ SameRows(l, ledger)
  BY <1>1, RolledLedger
<1>4. q \in Nat /\ q * price \in Nat
  <2>1. PlanOf(c) \in Plans /\ price \in Nat
    BY <1>2, WorkerAssumption DEF TypeInv, AllowedBound
  <2>2. q \in Nat
    BY <2>1, PlanAssumption
  <2> HIDE DEF q
  <2> QED BY <2>1, <2>2
<1>5. /\ Ready(Rows(c), c) /\ Rows(c).receipt = receipt[c] /\ Rows(c).ledger = ledger
  BY <1>2, ReadyRows
<1>6. c \notin resolved
  BY <1>2 DEF LedgerInv, DemoOnly, GovernedDemo, IsPaper, IsDemo
<1>7. PICK v \in Nat : v = q * price
  BY <1>4
<1> HIDE DEF q
<1>8. Books(ApplyFills(Rows(c), c, l, q, v), Rows(c))
  BY <1>2, <1>3, <1>4, <1>5, FillBooks
<1> QED BY <1>2, <1>6, <1>7, <1>8, CommitBooks

----------------------------------------------------------------------------
(* The open exposure after a step on the rows of one command. *)
LEMMA ExposureMoves ==
    ASSUME TypeInv, TypeInv', LedgerInv, NEW c \in Commands, BooksFrame(c)
    PROVE  ledger'.account.actual = OpenTotal(receipt', resolved')
<1>1. /\ \A d \in Commands : receipt[d].value \in Nat /\ receipt'[d].value \in Nat
  BY DEF TypeInv, ControlTypeOK, ClaimTypeOK, Receipt
<1>2. PICK F, G : F = OpenValue(receipt, resolved) /\ G = OpenValue(receipt', resolved')
  OBVIOUS
<1>3. \A d \in Commands : /\ F[d] = IF d \in resolved THEN 0 ELSE receipt[d].value
                          /\ G[d] = IF d \in resolved' THEN 0 ELSE receipt'[d].value
  BY <1>2 DEF OpenValue
<1>4. \A d \in Commands : F[d] \in Nat /\ G[d] \in Nat
  BY <1>1, <1>3
<1>5. \A d \in Commands \ {c} : F[d] = G[d]
  BY <1>3 DEF BooksFrame
<1>6. SumFunctionOnSet(G, Commands) + F[c] = SumFunctionOnSet(F, Commands) + G[c]
  BY <1>4, <1>5, SumChange, CommandAssumption
<1>7. SumFunctionOnSet(F, Commands) \in Nat /\ SumFunctionOnSet(G, Commands) \in Nat
  BY <1>4, SumNat, CommandAssumption
<1>8. ledger.account.actual = SumFunctionOnSet(F, Commands)
  BY <1>2 DEF LedgerInv, OpenTotal
<1>9. ledger'.account.actual \in Nat
  BY AccountColumns DEF BooksFrame, LedgerOK
<1>10. ledger'.account.actual + F[c] = ledger.account.actual + G[c]
  <2>1. CASE resolved' = resolved /\ c \notin resolved
    BY <1>3, <2>1 DEF BooksFrame
  <2>2. CASE resolved' = resolved /\ c \in resolved
    <3>1. F[c] = 0 /\ G[c] = 0
      BY <1>3, <2>2
    <3>2. ledger'.account.actual + receipt[c].value = ledger.account.actual + receipt[c].value
      BY <2>2 DEF BooksFrame
    <3> QED BY <1>1, <1>7, <1>8, <1>9, <3>1, <3>2
  <2>3. CASE c \notin resolved /\ resolved' = resolved \cup {c}
    <3>1. F[c] = receipt[c].value /\ G[c] = 0
      BY <1>3, <2>3
    <3>2. ledger'.account.actual + receipt[c].value = ledger.account.actual
      BY <2>3 DEF BooksFrame
    <3> QED BY <1>1, <1>7, <1>8, <1>9, <3>1, <3>2
  <2> QED BY <2>1, <2>2, <2>3 DEF BooksFrame
<1>11. ledger'.account.actual = SumFunctionOnSet(G, Commands)
  BY <1>4, <1>6, <1>7, <1>8, <1>9, <1>10
<1> QED BY <1>2, <1>11 DEF OpenTotal

LEMMA LedgerInvInit == Init => LedgerInv
<1> SUFFICES ASSUME Init PROVE LedgerInv
  OBVIOUS
<1>1. /\ ledger = [account |-> EmptyAccount, reservation |-> [c \in Commands |-> NoReservation]]
      /\ today = 1
  BY DEF Init, LedgerInit
<1>2. /\ RowOK(NoReservation) /\ NoReservation.remaining = 0 /\ NoReservation \in Reservation
      /\ SlotShare(NoReservation) = 0 /\ LossShare(NoReservation) = 0
      /\ \A i : SymbolShare(NoReservation, i) = 0
      /\ NoReservation.state = "NONE"
  BY DEF RowOK, NoReservation, Reservation, ReservationStates, SlotShare, LossShare,
         SymbolShare, Live
<1>3. PICK res : res = [c \in Commands |-> NoReservation]
  OBVIOUS
<1>4. /\ res \in [Commands -> Reservation] /\ \A c \in Commands : res[c] = NoReservation
  BY <1>2, <1>3
<1>5. RemTotal(res) = 0
  <2> DEFINE F == [c \in Commands |-> res[c].remaining]
  <2>1. \A c \in Commands : F[c] = 0
    BY <1>2, <1>4
  <2> HIDE DEF F
  <2>2. SumFunctionOnSet(F, Commands) = 0
    BY <2>1, SumZero, CommandAssumption
  <2> QED BY <2>2 DEF RemTotal, F
<1>6. SlotTotal(res) = 0
  <2> DEFINE F == [c \in Commands |-> SlotShare(res[c])]
  <2>1. \A c \in Commands : F[c] = 0
    BY <1>2, <1>4
  <2> HIDE DEF F
  <2>2. SumFunctionOnSet(F, Commands) = 0
    BY <2>1, SumZero, CommandAssumption
  <2> QED BY <2>2 DEF SlotTotal, F
<1>7. LossTotal(res) = 0
  <2> DEFINE F == [c \in Commands |-> LossShare(res[c])]
  <2>1. \A c \in Commands : F[c] = 0
    BY <1>2, <1>4
  <2> HIDE DEF F
  <2>2. SumFunctionOnSet(F, Commands) = 0
    BY <2>1, SumZero, CommandAssumption
  <2> QED BY <2>2 DEF LossTotal, F
<1>8. ASSUME NEW i \in Instruments
      PROVE  SymbolTotal(res, i) = 0
  <2> DEFINE F == [c \in Commands |-> SymbolShare(res[c], i)]
  <2>1. \A c \in Commands : F[c] = 0
    BY <1>2, <1>4
  <2> HIDE DEF F
  <2>2. SumFunctionOnSet(F, Commands) = 0
    BY <2>1, SumZero, CommandAssumption
  <2> QED BY <2>2 DEF SymbolTotal, F
<1>9. /\ EmptyAccount \in Account /\ EmptyAccount.reserved = 0
      /\ EmptyAccount.reservedSlots = 0 /\ EmptyAccount.reservedLoss = 0
      /\ EmptyAccount.actual = 0 /\ \A i \in Instruments : EmptyAccount.symbolReserved[i] = 0
  BY DEF EmptyAccount, Account
<1>10. Totals(EmptyAccount, res)
  BY <1>5, <1>6, <1>7, <1>8, <1>9 DEF Totals
<1>11. ledger = [account |-> EmptyAccount, reservation |-> res]
  BY <1>1, <1>3
<1>12. LedgerOK(ledger)
  BY <1>2, <1>4, <1>9, <1>10, <1>11 DEF LedgerOK
<1>13. /\ \A c \in Commands : ~Allowed(c) /\ receipt[c].value = 0
       /\ resolved = {} /\ \A w \in Workers : worker[w].pc = "idle"
  BY DEF Init, ClaimInit, DispatchInit, Allowed, NoCommand, NoReceipt, IdleWorker
<1>14. DemoOnly /\ ReservedIfAllowed
  BY <1>2, <1>4, <1>11, <1>13 DEF DemoOnly, ReservedIfAllowed
<1>15. OpenTotal(receipt, resolved) = 0
  <2> DEFINE F == OpenValue(receipt, resolved)
  <2>1. \A c \in Commands : F[c] = 0
    BY <1>13 DEF OpenValue
  <2> HIDE DEF F
  <2>2. SumFunctionOnSet(F, Commands) = 0
    BY <2>1, SumZero, CommandAssumption
  <2> QED BY <2>2 DEF OpenTotal, F
<1>16. today \in 1..LastDay
  BY <1>1, LimitAssumption
<1> QED BY <1>9, <1>11, <1>12, <1>14, <1>15, <1>16 DEF LedgerInv

(* A step on the rows of one command. *)
LEMMA BooksStep ==
    ASSUME TypeInv, TypeInv', LedgerInv, NEW c \in Commands, Allowed(c), BooksFrame(c),
           DemoOnly'
    PROVE  LedgerInv'
<1>1. ledger'.account.actual = OpenTotal(receipt', resolved')
  BY ExposureMoves
<1>2. LedgerOK(ledger') /\ SameRows(ledger', ledger) /\ UNCHANGED <<today, command>>
  BY DEF BooksFrame
<1>3. \A d \in Commands : Allowed(d)' <=> Allowed(d)
  BY <1>2 DEF Allowed
<1>4. \A d \in Commands \ {c} : receipt'[d].value = receipt[d].value
  BY DEF BooksFrame
<1>5. ReservedIfAllowed'
  <2>1. ASSUME NEW d \in Commands
        PROVE  /\ Allowed(d)' <=> ledger'.reservation[d].state # "NONE"
               /\ ~Allowed(d)' => receipt'[d].value = 0
    BY <1>2, <1>3, <1>4 DEF SameRows, LedgerInv, ReservedIfAllowed
  <2> QED BY <2>1 DEF ReservedIfAllowed
<1> QED BY <1>1, <1>2, <1>5 DEF LedgerInv

(* A step that leaves the commands and the books alone. *)
LEMMA IdleStep ==
    ASSUME LedgerInv, UNCHANGED <<ledger, command, receipt, resolved, worker>>,
           today' \in 1..LastDay
    PROVE  LedgerInv'
BY DEF LedgerInv, DemoOnly, ReservedIfAllowed, GovernedDemo, Allowed, PlanOf

LEMMA LedgerInvStep == TypeInv /\ LedgerInv /\ [Next]_vars => LedgerInv'
<1> SUFFICES ASSUME TypeInv, LedgerInv, [Next]_vars PROVE LedgerInv'
  OBVIOUS
<1>1. TypeInv'
  BY TypeStep
<1>2. CASE WorkerNext
  <2>1. PICK w \in Workers, c \in Commands :
           GovernedDemo(c) /\ WorkerFrame(w, c) /\ BooksFrame(c)
    BY <1>2, WorkerBooks
  <2>2. command' = command /\ resolved' \subseteq resolved \cup {c}
    BY <2>1 DEF BooksFrame
  <2>3. \A d \in Commands : GovernedDemo(d) => GovernedDemo(d)'
    BY <2>2 DEF GovernedDemo, Allowed, PlanOf
  <2>4. resolved \subseteq Commands
    BY DEF TypeInv, ControlTypeOK, ClaimTypeOK
  <2>5. \A d \in resolved' : GovernedDemo(d)'
    BY <2>1, <2>2, <2>3, <2>4 DEF LedgerInv, DemoOnly
  <2>6. ASSUME NEW v \in Workers, worker'[v].pc # "idle"
        PROVE  GovernedDemo(worker[v].cmd)'
    <3>1. CASE v = w
      <4>1. worker'[v].cmd = c
        BY <2>1, <2>6, <3>1 DEF WorkerFrame
      <4>2. GovernedDemo(c)'
        BY <2>1, <2>3
      <4> QED BY <4>1, <4>2 DEF GovernedDemo, Allowed, PlanOf
    <3>2. CASE v # w
      <4>1. worker'[v] = worker[v] /\ worker[v].pc # "idle"
        BY <2>1, <2>6, <3>2 DEF WorkerFrame
      <4>2. GovernedDemo(worker[v].cmd)
        BY <4>1 DEF LedgerInv, DemoOnly
      <4> QED BY <2>2, <4>1, <4>2 DEF GovernedDemo, Allowed, PlanOf
    <3> QED BY <3>1, <3>2
  <2>7. DemoOnly'
    BY <2>5, <2>6 DEF DemoOnly
  <2> QED BY <1>1, <2>1, <2>7, BooksStep DEF GovernedDemo
<1>3. CASE VenueNext
  <2>1. UNCHANGED <<claimVars, ledgerVars, worker>>
    BY <1>3 DEF VenueNext, VenueFill, VenueCancel, VenueReject, VenueExit, VenueStep, Rollback
  <2> QED BY <2>1, IdleStep DEF claimVars, ledgerVars, LedgerInv
<1>4. CASE LedgerNext
  <2>1. ASSUME NEW k \in Commands, NEW a \in Authorizations, NEW refused \in BOOLEAN,
               NEW aged \in AgedSets, Claim(k, a, refused, aged), UNCHANGED dispatchVars
        PROVE  LedgerInv'
    <3>1. /\ LedgerOK(ledger') /\ ledger'.account.actual = ledger.account.actual
          /\ UNCHANGED <<today, resolved>>
          /\ \A d \in Commands \ {k} : command'[d] = command[d]
          /\ ~Allowed(k) /\ ReservedIfAllowed'
          /\ \A d \in Commands : receipt'[d].value = receipt[d].value
      BY <2>1, ClaimBooks
    <3>2. \A d \in Commands : GovernedDemo(d) => GovernedDemo(d)'
      <4>1. \A d \in Commands : GovernedDemo(d) => d # k
        BY <3>1 DEF GovernedDemo
      <4> QED BY <3>1, <4>1 DEF GovernedDemo, Allowed, PlanOf
    <3>3. DemoOnly'
      <4>1. resolved \subseteq Commands
        BY DEF TypeInv, ControlTypeOK, ClaimTypeOK
      <4>2. \A d \in resolved' : GovernedDemo(d)'
        BY <3>1, <3>2, <4>1 DEF LedgerInv, DemoOnly
      <4>3. worker' = worker
        BY <2>1 DEF dispatchVars
      <4>4. ASSUME NEW w \in Workers, worker'[w].pc # "idle"
            PROVE  GovernedDemo(worker[w].cmd)'
        <5>1. worker[w].cmd \in Commands /\ GovernedDemo(worker[w].cmd)
          BY <4>3, <4>4, BusyWorker DEF LedgerInv, DemoOnly
        <5>2. PICK d \in Commands : d = worker[w].cmd
          BY <5>1
        <5>3. GovernedDemo(d)'
          BY <3>2, <5>1, <5>2
        <5> QED BY <4>3, <5>2, <5>3 DEF GovernedDemo, Allowed, PlanOf
      <4> QED BY <4>2, <4>4 DEF DemoOnly
    <3>4. OpenTotal(receipt', resolved') = OpenTotal(receipt, resolved)
      <4>1. OpenValue(receipt', resolved') = OpenValue(receipt, resolved)
        BY <3>1 DEF OpenValue
      <4> QED BY <4>1 DEF OpenTotal
    <3> QED BY <3>1, <3>3, <3>4 DEF LedgerInv
  <2>2. ASSUME NEW c \in Commands, NEW price \in Prices, NEW aged \in AgedSets,
               PaperFill(c, price, aged)
        PROVE  LedgerInv'
    <3>1. BooksFrame(c)
      BY <2>2, PaperFillBooks
    <3>2. Allowed(c) /\ UNCHANGED <<command, resolved, worker>>
      BY <2>2 DEF PaperFill, Commit, dispatchVars
    <3>3. DemoOnly'
      BY <3>2 DEF LedgerInv, DemoOnly, GovernedDemo, Allowed, PlanOf
    <3> QED BY <1>1, <3>1, <3>2, <3>3, BooksStep
  <2>3. ASSUME NextDay, UNCHANGED <<safetyVars, claimVars, dispatchVars>>
        PROVE  LedgerInv'
    <3>1. today' \in 1..LastDay
      BY <2>3, LimitAssumption DEF NextDay, LedgerInv
    <3> QED BY <2>3, <3>1, IdleStep DEF NextDay, claimVars, dispatchVars
  <2> QED BY <1>4, <2>1, <2>2, <2>3 DEF LedgerNext
<1>5. CASE ClaimNext
  <2>1. UNCHANGED <<ledger, today, command, receipt, resolved, worker>>
    BY <1>5 DEF ClaimNext, IssueAuthorization, RevokeAuthorization, ExpirePlan, ledgerVars,
                dispatchVars
  <2> QED BY <2>1, IdleStep DEF LedgerInv
<1>6. CASE SafetyNext \/ UNCHANGED vars
  <2>1. UNCHANGED <<ledger, today, command, receipt, resolved, worker>>
    BY <1>6 DEF SafetyNext, vars, ledgerVars, claimVars, dispatchVars
  <2> QED BY <2>1, IdleStep DEF LedgerInv
<1> QED BY <1>2, <1>3, <1>4, <1>5, <1>6 DEF Next

LEMMA LedgerInvariant == Spec => [](TypeInv /\ LedgerInv)
<1>1. Init => TypeInv /\ LedgerInv
  BY TypeInit, LedgerInvInit
<1>2. TypeInv /\ LedgerInv /\ [Next]_vars => (TypeInv /\ LedgerInv)'
  BY TypeStep, LedgerInvStep
<1> QED BY <1>1, <1>2, PTL DEF Spec

----------------------------------------------------------------------------
(* The theorems. *)
LEMMA LedgerInvTypes == LedgerInv => LedgerTypeOK
<1> SUFFICES ASSUME LedgerInv PROVE LedgerTypeOK
  OBVIOUS
<1>1. /\ ledger = [account |-> ledger.account, reservation |-> ledger.reservation]
      /\ ledger.account \in Account /\ ledger.reservation \in [Commands -> Reservation]
  BY DEF LedgerInv, LedgerOK
<1>2. ledger \in [account : Account, reservation : [Commands -> Reservation]]
  <2>1. PICK x \in Account, res \in [Commands -> Reservation] :
           ledger = [account |-> x, reservation |-> res]
    BY <1>1
  <2> QED BY <2>1
<1>3. \A c \in Commands : ledger.reservation[c].state = "NONE"
                           <=> ledger.reservation[c].plan = NoPlan
  BY DEF LedgerInv, LedgerOK, RowOK
<1> QED BY <1>2, <1>3 DEF LedgerInv, LedgerTypeOK

(* Every variable of the protocol has its type.  The ledger's amounts are  *)
(* natural numbers although every operation of the code subtracts from     *)
(* them, and they are numbers because the sums over the reservation rows   *)
(* are.                                                                    *)
THEOREM ProtocolTypeCorrect == Spec => []TypeOK
<1>1. TypeInv /\ LedgerInv => TypeOK
  BY LedgerInvTypes DEF TypeInv, TypeOK
<1> QED BY <1>1, LedgerInvariant, PTL

LEMMA LedgerInvMatches == LedgerInv => LedgerMatches
<1> SUFFICES ASSUME LedgerInv PROVE LedgerMatches
  OBVIOUS
<1> DEFINE Res(c) == ledger.reservation[c]
           Rem == [c \in Commands |-> Res(c).remaining]
           live == {c \in Commands : Res(c).state \in {"CHARGED", "PARTIALLY_RELEASED"}}
           LossOf == [c \in live |-> PlanInfo[Res(c).plan].loss]
           On(i) == {c \in live : PlanInfo[Res(c).plan].instrument = i}
           unconverted == {c \in live : Res(c).converted = 0}
<1>1. /\ Totals(ledger.account, ledger.reservation)
      /\ \A c \in Commands : RowOK(Res(c))
  BY DEF LedgerInv, LedgerOK
<1>2. /\ \A c \in live : c \in Commands /\ Res(c).state \in Live
      /\ \A c \in Commands \ live : Res(c).state \notin Live
      /\ live \subseteq Commands
  BY DEF Live
<1>3. /\ DOMAIN Rem = Commands /\ DOMAIN LossOf = live
      /\ \A c \in Commands : Rem[c] = Res(c).remaining
      /\ \A c \in live : LossOf[c] = PlanInfo[Res(c).plan].loss
  OBVIOUS
<1>4. IsFiniteSet(live)
  BY <1>2, CommandAssumption, FS_Subset
<1>5. ledger.account.reserved = SumFunction(Rem)
  BY <1>1, <1>3 DEF Totals, RemTotal, SumFunction
<1>6. ledger.account.reservedSlots = Cardinality(unconverted)
  <2> DEFINE F == [c \in Commands |-> SlotShare(Res(c))]
  <2>1. PICK U : U = unconverted /\ U \subseteq Commands
    BY <1>2
  <2>2. /\ \A c \in Commands : F[c] \in Nat
        /\ \A c \in U : F[c] = 1
        /\ \A c \in Commands \ U : F[c] = 0
    BY <2>1 DEF SlotShare, Live
  <2>3. ledger.account.reservedSlots = SumFunctionOnSet(F, Commands)
    BY <1>1 DEF Totals, SlotTotal
  <2> HIDE DEF F
  <2>4. IsFiniteSet(U)
    BY <2>1, CommandAssumption, FS_Subset
  <2>5. SumFunctionOnSet(F, Commands) = SumFunctionOnSet(F, U)
    BY <2>1, <2>2, CommandAssumption, SumWhere
  <2>6. SumFunctionOnSet(F, U) = Cardinality(U)
    BY <2>2, <2>4, SumOnes
  <2> QED BY <2>1, <2>3, <2>5, <2>6
<1>7. ledger.account.reservedLoss >= SumFunction(LossOf)
  <2> DEFINE F == [c \in Commands |-> LossShare(Res(c))]
  <2>1. \A c \in Commands : F[c] \in Nat
    BY <1>1, RowShares
  <2>2. \A c \in Commands \ live : F[c] = 0
    BY <1>2 DEF LossShare
  <2>3. \A c \in live : F[c] = LossOf[c]
    BY <1>2, <1>3 DEF LossShare
  <2>4. ledger.account.reservedLoss >= SumFunctionOnSet(F, Commands)
    BY <1>1 DEF Totals, LossTotal
  <2>5. SumFunction(LossOf) = SumFunctionOnSet(LossOf, live)
    <3> HIDE DEF LossOf, live
    <3> QED BY <1>3 DEF SumFunction
  <2> HIDE DEF F, LossOf, live
  <2>6. SumFunctionOnSet(F, Commands) = SumFunctionOnSet(F, live)
    BY <1>2, <2>1, <2>2, CommandAssumption, SumWhere
  <2>7. SumFunctionOnSet(F, live) = SumFunctionOnSet(LossOf, live)
    BY <1>4, <2>3, SumSame
  <2> QED BY <2>4, <2>5, <2>6, <2>7
<1>8. ASSUME NEW i \in Instruments
      PROVE  ledger.account.symbolReserved[i] = SumFunctionOnSet(Rem, On(i))
  <2> DEFINE F == [c \in Commands |-> SymbolShare(Res(c), i)]
  <2>1. PICK U : U = On(i) /\ U \subseteq Commands
    BY <1>2
  <2>2. \A c \in Commands : F[c] \in Nat
    BY <1>1, RowShares
  <2>3. \A c \in Commands \ U : F[c] = 0
    BY <2>1 DEF SymbolShare, Live
  <2>4. \A c \in U : F[c] = Rem[c]
    BY <2>1, <1>3 DEF SymbolShare, Live
  <2>5. ledger.account.symbolReserved[i] = SumFunctionOnSet(F, Commands)
    BY <1>1 DEF Totals, SymbolTotal
  <2> HIDE DEF F, Rem
  <2>6. IsFiniteSet(U)
    BY <2>1, CommandAssumption, FS_Subset
  <2>7. SumFunctionOnSet(F, Commands) = SumFunctionOnSet(F, U)
    BY <2>1, <2>2, <2>3, CommandAssumption, SumWhere
  <2>8. SumFunctionOnSet(F, U) = SumFunctionOnSet(Rem, U)
    BY <2>4, <2>6, SumSame
  <2> QED BY <2>1, <2>5, <2>7, <2>8
<1> QED BY <1>5, <1>6, <1>7, <1>8 DEF LedgerMatches

(* The accounting row is the sum of the reservation rows, whatever claims, *)
(* fills, releases, resolutions and day rolls did: reserved notional, in   *)
(* total and per instrument, reserved trade slots, and at least the loss   *)
(* budget of the live reservations.                                        *)
THEOREM LedgerBalanced == Spec => []LedgerMatches
BY LedgerInvariant, LedgerInvMatches, PTL

LEMMA LedgerInvExposure == TypeInv /\ LedgerInv => ExposureMatches
<1> SUFFICES ASSUME TypeInv, LedgerInv PROVE ExposureMatches
  OBVIOUS
<1> DEFINE Value == [c \in Commands \ resolved |-> receipt[c].value]
           F == OpenValue(receipt, resolved)
<1>1. PICK U : U = Commands \ resolved /\ U \subseteq Commands
  OBVIOUS
<1>2. IsFiniteSet(U)
  BY <1>1, CommandAssumption, FS_Subset
<1>3. \A c \in Commands : receipt[c].value \in Nat
  BY DEF TypeInv, ControlTypeOK, ClaimTypeOK, Receipt
<1>4. /\ \A c \in Commands : F[c] \in Nat
      /\ \A c \in Commands \ U : F[c] = 0
      /\ \A c \in U : F[c] = Value[c]
  BY <1>1, <1>3 DEF OpenValue
<1>5. DOMAIN Value = U
  BY <1>1
<1>6. ledger.account.actual = SumFunctionOnSet(F, Commands)
  BY DEF LedgerInv, OpenTotal
<1> HIDE DEF Value, F
<1>7. SumFunctionOnSet(F, Commands) = SumFunctionOnSet(F, U)
  BY <1>1, <1>4, CommandAssumption, SumWhere
<1>8. SumFunctionOnSet(F, U) = SumFunctionOnSet(Value, U)
  BY <1>2, <1>4, SumSame
<1>9. ledger.account.actual = SumFunction(Value)
  BY <1>5, <1>6, <1>7, <1>8 DEF SumFunction
<1> QED BY <1>9 DEF ExposureMatches, Value

(* The open exposure of the account is exactly the value of the recorded   *)
(* fills whose command is not resolved: no fill is counted twice and no    *)
(* exit is released twice, for any number of workers reconciling the same  *)
(* commands with stale copies.                                             *)
THEOREM ExposureExact == Spec => []ExposureMatches
BY LedgerInvariant, LedgerInvExposure, PTL

============================================================================
