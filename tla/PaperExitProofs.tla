-------------------------- MODULE PaperExitProofs --------------------------
(***************************************************************************)
(* Theorems of PaperExit, for every number of trades and actors, every     *)
(* market and every length of candles, pauses and days.                    *)
(***************************************************************************)
EXTENDS PaperExit, SetArithmetic

----------------------------------------------------------------------------
(* The breaker row. *)

(* next_utc_day is a time, and it lies ahead. *)
LEMMA NextUtcDayAhead ==
    ASSUME NEW now \in Nat
    PROVE  NextUtcDay(now) \in Nat /\ NextUtcDay(now) > now
BY BreakerAssumption, NextMultiple DEF NextUtcDay

(* A new consecutive-loss pause runs for the cooldown at least. *)
LEMMA PauseExpiry ==
    ASSUME NEW now \in Nat, NEW existing \in Nat
    PROVE  /\ ConsecutivePauseExpiry(now, existing) \in Nat
           /\ InForce(ConsecutivePauseExpiry(now, existing), now)
           /\ InForce(existing, now) => ConsecutivePauseExpiry(now, existing) = existing
           /\ ~InForce(existing, now) =>
                ConsecutivePauseExpiry(now, existing) >= now + Cooldown
BY BreakerAssumption, NextUtcDayAhead DEF ConsecutivePauseExpiry, Later, InForce

(* trip_breakers: the row it builds.  A pause in force holds the streak    *)
(* up.                                                                     *)
HeldStreak(row, count, now) ==
    IF InForce(row.paused, now) /\ count < row.streak THEN row.streak ELSE count

Trips(row, count, now, new) ==
    /\ new \in Row
    /\ new.streak = HeldStreak(row, count, now)
    /\ InForce(row.paused, now) => new.paused = row.paused
    /\ new.paused \in {NoPause, row.paused} \/ new.streak >= LossLimit
    /\ new.streak >= LossLimit => new.paused = ConsecutivePauseExpiry(now, row.paused)
    /\ InForce(row.daily, now) => new.daily = row.daily
    /\ row.latched => new.latched

LEMMA TripRow ==
    ASSUME NEW row \in Row, NEW count \in Nat, NEW now \in Nat, NEW book \in Book
    PROVE  Trips(row, count, now, TripBreakers(row, count, now, book))
BY BreakerAssumption, PauseExpiry, NextUtcDayAhead
   DEF Trips, HeldStreak, TripBreakers, TripWithLatch, Row, Book, NoPause, InForce

(* A trip never undoes the latch. *)
LEMMA TripLatches ==
    ASSUME NEW row, NEW count, NEW now, NEW book, row.latched
    PROVE  TripBreakers(row, count, now, book).latched
BY DEF TripBreakers, TripWithLatch

LEMMA StreakHeld ==
    ASSUME NEW row \in Row, NEW count \in Nat, NEW now
    PROVE  /\ InForce(row.paused, now) => HeldStreak(row, count, now) >= row.streak
           /\ HeldStreak(row, count, now) >= count
           /\ HeldStreak(row, count, now) \in {row.streak, count}
BY DEF HeldStreak, Row

(* The counts that a close and a scan pass on. *)
LEMMA Counts ==
    ASSUME NEW row \in Row, NEW loss \in BOOLEAN, NEW now \in Nat
    PROVE  /\ NotedStreak(row, loss, now) \in Nat
           /\ loss => NotedStreak(row, loss, now) >= 1
           /\ NotedStreak(row, loss, now) <= row.streak + 1
           /\ ~loss => NotedStreak(row, loss, now) <= row.streak
BY DEF NotedStreak, ProfileCloseConsecutive, StreakAfterExpiry, InForce, Row, NoPause

LEMMA ScanCounts ==
    ASSUME NEW row \in Row, NEW now \in Nat
    PROVE  /\ ScannedStreak(row, now) \in Nat
           /\ ScannedStreak(row, now) <= row.streak
BY DEF ScannedStreak, StreakAfterExpiry, InForce, Row, NoPause

(* The flush: every column is the stored or the new one, and a column that *)
(* was not overtaken is the new one.                                       *)
LEMMA FlushRow ==
    ASSUME NEW seen \in Row, NEW new \in Row, breaker \in Row, Flush(seen, new)
    PROVE  /\ breaker' \in Row
           /\ breaker'.streak \in {breaker.streak, new.streak}
           /\ breaker'.paused \in {breaker.paused, new.paused}
           /\ seen.streak = breaker.streak => breaker'.streak = new.streak
           /\ seen = breaker => breaker' = new
           /\ breaker.latched /\ (seen.latched => new.latched) => breaker'.latched
BY DEF Flush, Column, Row

LEMMA KillActivateType ==
    ASSUME SafetyTypeOK, KillActivate
    PROVE  SafetyTypeOK' /\ killActive'
<1>1. CASE killActive
  BY <1>1 DEF SafetyTypeOK, KillActivate, safetyVars
<1>2. CASE ~killActive
  <2>1. killActive' = TRUE /\ epoch' = epoch + 1 /\ blocking' = TRUE
    BY <1>2 DEF KillActivate
  <2>2. epoch' \in 1..MaxEpoch
    BY <1>2, <2>1, MaxEpochAssumption DEF SafetyTypeOK
  <2> QED BY <2>1, <2>2 DEF SafetyTypeOK
<1> QED BY <1>1, <1>2

LEMMA PersistType ==
    ASSUME SafetyTypeOK, NEW seen \in Row, NEW new \in Row, breaker \in Row,
           PersistBreakers(seen, new)
    PROVE  SafetyTypeOK' /\ breaker' \in Row
<1>1. Flush(seen, new) /\ ArmDrawdown(seen, new)
  BY DEF PersistBreakers
<1>2. SafetyTypeOK'
  BY <1>1, KillActivateType DEF ArmDrawdown, SafetyTypeOK, safetyVars
<1> QED BY <1>1, <1>2, FlushRow

----------------------------------------------------------------------------
(* What the monitor decides. *)

(* Every request of a pass is for the first touching bar of a series that  *)
(* candle_series_block let through.                                        *)
LEMMA Decided ==
    ASSUME TypeOK, NEW t \in Trades, NEW at \in Nat, NEW request \in ExitRequests(t, at)
    PROVE  \E fetched \in SUBSET ClosedBars(1..Len(bars[t]), at) :
           \E k \in ExitBars(t, fetched, at) :
             /\ Usable(fetched, trade[t].entry, at)
             /\ \A j \in ExitBars(t, fetched, at) : k <= j
             /\ request = MonitorRequest(t, k, at)
<1>1. PICK fetched \in SUBSET ClosedBars(1..Len(bars[t]), at) :
        /\ Usable(fetched, trade[t].entry, at)
        /\ ExitBars(t, fetched, at) # {}
        /\ request = MonitorRequest(t, Min(ExitBars(t, fetched, at)), at)
  BY DEF ExitRequests
<1>2. Len(bars[t]) \in Nat
  BY DEF TypeOK
<1>3. ExitBars(t, fetched, at) \in SUBSET Nat
  <2>1. ExitBars(t, fetched, at) \subseteq fetched
    BY DEF ExitBars, ClosedBars
  <2>2. fetched \subseteq 1..Len(bars[t])
    BY DEF ClosedBars
  <2>3. \A n \in 1..Len(bars[t]) : n \in Nat
    BY <1>2
  <2> QED BY <2>1, <2>2, <2>3
<1> QED BY <1>1, <1>3, MinNat

LEMMA RequestType ==
    ASSUME TypeOK, NEW t \in Trades, NEW at \in Nat, NEW request \in ExitRequests(t, at)
    PROVE  /\ request \in Request
           /\ request.key = "monitor"
           /\ request.origin \in {"live", "backfill"}
           /\ request.at <= at
<1>1. PICK fetched \in SUBSET ClosedBars(1..Len(bars[t]), at) :
      \E k \in ExitBars(t, fetched, at) : request = MonitorRequest(t, k, at)
  BY Decided
<1>2. PICK k \in ExitBars(t, fetched, at) : request = MonitorRequest(t, k, at)
  BY <1>1
<1>3. Len(bars[t]) \in Nat
  BY DEF TypeOK
<1>4. k \in Nat /\ BarEnd(k) <= at
  BY <1>3 DEF ExitBars, ClosedBars
<1>5. BarEnd(k) \in Nat
  BY <1>4, PaperExitAssumption DEF BarEnd
<1>6. ExitLoses(t, k) \in BOOLEAN
  BY DEF ExitLoses
<1> QED BY <1>2, <1>4, <1>5, <1>6 DEF MonitorRequest, Request, Origins, ExitOrigin

(* Who asks for a close: a monitor, for a bar of a pass that began when    *)
(* the trade was open, or a human.                                         *)
Requested(a, t, request, start) ==
    \/ /\ a \in Monitors
       /\ \E at \in Nat : /\ request \in ExitRequests(t, at)
                          /\ trade[t].entry <= at /\ at <= start
    \/ a \in Humans /\ request.key = "human" /\ request.origin = "none"

(* The three things close_filled_plan does before the breaker is written:  *)
(* it leaves everything alone, it reads the row, or it closes the trade    *)
(* without noting it.                                                      *)
Notes(a, t, request, start) ==
    /\ work[a].kind = "idle" /\ trade[t].status = "OPEN" /\ ~LifecycleLocked(t)
    /\ Protection(t, request, start) = "note"
    /\ work' = [work EXCEPT ![a] = [kind |-> "close", trade |-> t, request |-> request,
                                    start |-> start, seen |-> breaker]]
    /\ UNCHANGED <<safetyVars, trade, taken>>

Closes(t, request, start) ==
    /\ trade[t].status = "OPEN" /\ ~LifecycleLocked(t)
    /\ Protection(t, request, start) # "note"
    /\ CloseTrade(t, request)
    /\ IF Protection(t, request, start) = "kill_switch"
       THEN KillActivate ELSE UNCHANGED safetyVars
    /\ UNCHANGED work

(* Both kinds of close begin in one of these ways. *)
LEMMA CloseBegins ==
    ASSUME TypeOK, NEW t \in Trades,
           \/ \E m \in Monitors : MonitorClose(m, t)
           \/ \E h \in Humans, sent \in HumanCloses : HumanClose(h, t, sent)
    PROVE  /\ UNCHANGED <<breaker, clock, bars>>
           /\ \/ UNCHANGED <<safetyVars, trade, taken, work>>
              \/ \E a \in Monitors \cup Humans, request \in Request, start \in Nat :
                   /\ Requested(a, t, request, start)
                   /\ Notes(a, t, request, start) \/ Closes(t, request, start)
<1>1. ASSUME NEW a \in Monitors \cup Humans, NEW request \in Request, NEW start \in Nat,
             work[a].kind = "idle", trade[t].status # "NONE",
             BeginClose(a, t, request, start)
      PROVE  /\ UNCHANGED <<breaker, clock, bars>>
             /\ \/ UNCHANGED <<safetyVars, trade, taken, work>>
                \/ Notes(a, t, request, start)
                \/ Closes(t, request, start)
  <2>1. ~LifecycleLocked(t) /\ UNCHANGED <<breaker, clock, bars>>
    BY <1>1 DEF BeginClose
  <2>2. CASE CloseVerdict(t, request) # "apply"
    BY <1>1, <2>1, <2>2 DEF BeginClose
  <2>3. CASE CloseVerdict(t, request) = "apply"
    <3>1. trade[t].status = "OPEN"
      BY <2>3 DEF CloseVerdict
    <3>2. CASE Protection(t, request, start) = "note"
      BY <1>1, <2>1, <2>3, <3>1, <3>2 DEF BeginClose, Notes
    <3>3. CASE Protection(t, request, start) # "note"
      BY <1>1, <2>1, <2>3, <3>1, <3>3 DEF BeginClose, Closes
    <3> QED BY <3>2, <3>3
  <2> QED BY <2>2, <2>3
<1>2. ASSUME NEW m \in Monitors, MonitorClose(m, t)
      PROVE  \E request \in Request, start \in Nat :
               /\ Requested(m, t, request, start)
               /\ BeginClose(m, t, request, start)
  <2>1. PICK at \in trade[t].entry..clock : \E request \in ExitRequests(t, at) :
          \E start \in at..clock : BeginClose(m, t, request, start)
    BY <1>2 DEF MonitorClose
  <2>2. PICK request \in ExitRequests(t, at), start \in at..clock :
          BeginClose(m, t, request, start)
    BY <2>1
  <2>3. at \in Nat /\ start \in Nat /\ at <= start /\ trade[t].entry <= at
    BY <2>1, <2>2 DEF TypeOK, Trade
  <2>4. request \in Request
    BY <2>3, RequestType
  <2> QED BY <2>2, <2>3, <2>4 DEF Requested
<1>3. ASSUME NEW h \in Humans, NEW sent \in HumanCloses, HumanClose(h, t, sent)
      PROVE  \E request \in Request, start \in Nat :
               /\ Requested(h, t, request, start)
               /\ BeginClose(h, t, request, start)
  <2>1. [key |-> "human", at |-> sent.at, loss |-> sent.loss, origin |-> "none"] \in Request
    BY PaperExitAssumption DEF Request, Origins
  <2>2. clock \in Nat
    BY DEF TypeOK
  <2> QED BY <1>3, <2>1, <2>2 DEF HumanClose, Requested
<1> QED BY <1>1, <1>2, <1>3 DEF MonitorClose, HumanClose

----------------------------------------------------------------------------
(* Types and the lifecycle lock.  A transaction that holds the lifecycle   *)
(* of a trade works on an open trade, and it is the only one.              *)
HoldsOpenTrade ==
    \A a \in Actors : work[a].kind = "close" =>
        /\ a \in Monitors \cup Humans
        /\ work[a].trade \in Trades
        /\ trade[work[a].trade].status = "OPEN"
        /\ \A b \in Actors :
             work[b].kind = "close" /\ work[b].trade = work[a].trade => b = a

TypeInv == TypeOK /\ HoldsOpenTrade

LEMMA IdleWork == NoRequest \in Request /\ Idle \in Work /\ Idle.kind = "idle"
BY DEF NoRequest, Request, Origins, Idle, Work, Row, NoPause

(* The state before the first step. *)
LEMMA TypeInit == Init => TypeInv
<1> SUFFICES ASSUME Init PROVE TypeInv
  OBVIOUS
<1> USE DEF Init
<1>1. SafetyTypeOK
  <2>1. epoch \in 1..MaxEpoch /\ epoch < MaxEpoch
    BY MaxEpochAssumption DEF SafetyInit
  <2> QED BY <2>1 DEF SafetyInit, SafetyTypeOK
<1>2. BreakerTypeOK
  BY DEF BreakerInit, BreakerTypeOK, Row, NoPause
<1>3. clock \in 0..MaxTime
  BY PaperExitAssumption
<1>4. trade \in [Trades -> Trade]
  BY IdleWork DEF Trade
<1>5. bars \in [Trades -> Seq(Touches)] /\ taken \in [Trades -> Nat]
  OBVIOUS
<1>6. TypeOK
  BY <1>1, <1>2, <1>3, <1>4, <1>5, IdleWork DEF TypeOK
<1> QED BY <1>6, IdleWork DEF TypeInv, HoldsOpenTrade

(* The two writes of a close. *)
LEMMA CloseTradeRows ==
    ASSUME TypeOK, NEW t \in Trades, NEW request \in Request, CloseTrade(t, request)
    PROVE  /\ trade' \in [Trades -> Trade]
           /\ taken' \in [Trades -> Nat]
           /\ trade'[t].status = "CLOSED" /\ trade'[t].close = request
           /\ trade'[t].entry = trade[t].entry
           /\ taken'[t] = taken[t] + 1
           /\ \A s \in Trades \ {t} : trade'[s] = trade[s] /\ taken'[s] = taken[s]
<1>1. trade \in [Trades -> Trade] /\ taken \in [Trades -> Nat]
  BY DEF TypeOK
<1>2. taken' = [taken EXCEPT ![t] = @ + 1]
  BY DEF CloseTrade
<1>3. trade' = [trade EXCEPT ![t] = [trade[t] EXCEPT !.status = "CLOSED", !.close = request]]
  BY DEF CloseTrade
<1>4. [trade[t] EXCEPT !.status = "CLOSED", !.close = request] \in Trade
  BY <1>1 DEF Trade
<1>5. /\ [trade[t] EXCEPT !.status = "CLOSED", !.close = request].status = "CLOSED"
      /\ [trade[t] EXCEPT !.status = "CLOSED", !.close = request].close = request
      /\ [trade[t] EXCEPT !.status = "CLOSED", !.close = request].entry = trade[t].entry
  BY <1>1 DEF Trade
<1> QED BY <1>1, <1>2, <1>3, <1>4, <1>5

(* The write of a close that has read the breaker row. *)
CommitsWith(a, book, new) ==
    /\ new = TripBreakers(work[a].seen,
                          NotedStreak(work[a].seen, work[a].request.loss, work[a].request.at),
                          work[a].request.at, book)
    /\ new \in Row
    /\ PersistBreakers(work[a].seen, new)

LEMMA CommitCloseRows ==
    ASSUME TypeInv, NEW a \in Monitors \cup Humans, CommitClose(a)
    PROVE  /\ work[a].kind = "close"
           /\ work[a].trade \in Trades
           /\ work[a].request \in Request
           /\ work[a].seen \in Row
           /\ CloseTrade(work[a].trade, work[a].request)
           /\ work' = [work EXCEPT ![a] = Idle]
           /\ UNCHANGED <<clock, bars>>
           /\ \E book \in Book, new \in Row : CommitsWith(a, book, new)
<1>1. /\ work[a].kind = "close" /\ a \in Actors
      /\ CloseTrade(work[a].trade, work[a].request)
      /\ work' = [work EXCEPT ![a] = Idle]
      /\ UNCHANGED <<clock, bars>>
  BY DEF CommitClose, Actors
<1>2. /\ work[a].trade \in Trades
      /\ work[a].request \in Request
      /\ work[a].seen \in Row
  BY <1>1 DEF TypeInv, TypeOK, HoldsOpenTrade, Work
<1>3. PICK book \in Books :
        PersistBreakers(work[a].seen,
                        TripBreakers(work[a].seen,
                          NotedStreak(work[a].seen, work[a].request.loss, work[a].request.at),
                          work[a].request.at, book))
  BY DEF CommitClose
<1>4. book \in Book
  BY BreakerAssumption
<1>5. work[a].request.loss \in BOOLEAN /\ work[a].request.at \in Nat
  BY <1>2 DEF Request
<1>6. NotedStreak(work[a].seen, work[a].request.loss, work[a].request.at) \in Nat
  BY <1>2, <1>5, Counts
<1>7. TripBreakers(work[a].seen,
          NotedStreak(work[a].seen, work[a].request.loss, work[a].request.at),
          work[a].request.at, book) \in Row
  BY <1>2, <1>4, <1>5, <1>6, TripRow DEF Trips
<1>8. \E new \in Row : CommitsWith(a, book, new)
  BY <1>3, <1>7 DEF CommitsWith
<1> QED BY <1>1, <1>2, <1>4, <1>8

(* The write of a scan, and the trade it may open. *)
ScansWith(s, book, new) ==
    /\ new = TripBreakers(work[s].seen, ScannedStreak(work[s].seen, work[s].start),
                          work[s].start, book)
    /\ new \in Row
    /\ PersistBreakers(work[s].seen, new)

LEMMA CommitScanRows ==
    ASSUME TypeInv, NEW s \in Scanners, CommitScan(s)
    PROVE  /\ work[s].kind = "scan"
           /\ work[s].seen \in Row
           /\ work[s].start \in Nat
           /\ work' = [work EXCEPT ![s] = Idle]
           /\ UNCHANGED <<clock, bars, taken>>
           /\ \E book \in Book, new \in Row : ScansWith(s, book, new)
           /\ trade' \in [Trades -> Trade]
           /\ \A t \in Trades : \/ trade'[t] = trade[t]
                                \/ /\ trade[t].status = "NONE" /\ trade'[t].status = "OPEN"
<1>1. /\ work[s].kind = "scan" /\ s \in Actors
      /\ work' = [work EXCEPT ![s] = Idle]
      /\ UNCHANGED <<clock, bars, taken>>
  BY DEF CommitScan, Actors
<1>2. work[s].seen \in Row /\ work[s].start \in Nat
  BY <1>1 DEF TypeInv, TypeOK, Work
<1>3. PICK book \in Books :
        LET new == TripBreakers(work[s].seen, ScannedStreak(work[s].seen, work[s].start),
                                work[s].start, book)
        IN  /\ PersistBreakers(work[s].seen, new)
            /\ IF RefusesNewTrades(new) \/ killActive \/ BreakerActive(work[s].start)
               THEN UNCHANGED trade
               ELSE \E t \in Trades : \E entry \in EntryTimes(work[s].start) :
                      trade[t].status = "NONE" /\ OpenTrade(t, entry)
  BY DEF CommitScan
<1>4. book \in Book
  BY BreakerAssumption
<1>5. ScannedStreak(work[s].seen, work[s].start) \in Nat
  BY <1>2, ScanCounts
<1>6. TripBreakers(work[s].seen, ScannedStreak(work[s].seen, work[s].start),
                   work[s].start, book) \in Row
  BY <1>2, <1>4, <1>5, TripRow DEF Trips
<1>7. \E new \in Row : ScansWith(s, book, new)
  BY <1>3, <1>6 DEF ScansWith
<1>8. trade \in [Trades -> Trade]
  BY DEF TypeInv, TypeOK
<1>9. ASSUME NEW t \in Trades, NEW entry \in EntryTimes(work[s].start),
             trade[t].status = "NONE", OpenTrade(t, entry)
      PROVE  /\ trade' \in [Trades -> Trade]
             /\ trade'[t].status = "OPEN"
             /\ \A u \in Trades \ {t} : trade'[u] = trade[u]
  <2>1. entry \in Nat
    <3>1. work[s].start % Step \in Nat /\ work[s].start % Step <= work[s].start
      BY <1>2, PaperExitAssumption, Division
    <3>2. work[s].start - (work[s].start % Step) \in Nat
      BY <1>2, <3>1
    <3> QED BY <1>2, <1>9, <3>2 DEF EntryTimes
  <2> DEFINE x == [trade[t] EXCEPT !.status = "OPEN", !.entry = entry]
  <2>2. trade' = [trade EXCEPT ![t] = x]
    BY <1>9 DEF OpenTrade
  <2>3. x \in Trade /\ x.status = "OPEN"
    BY <1>8, <2>1 DEF Trade
  <2> HIDE DEF x
  <2> QED BY <1>8, <2>2, <2>3
<1>10. \/ UNCHANGED trade
       \/ \E t \in Trades : \E entry \in EntryTimes(work[s].start) :
            trade[t].status = "NONE" /\ OpenTrade(t, entry)
  BY <1>3
<1>11. /\ trade' \in [Trades -> Trade]
       /\ \A t \in Trades : \/ trade'[t] = trade[t]
                            \/ trade[t].status = "NONE" /\ trade'[t].status = "OPEN"
  BY <1>8, <1>9, <1>10
<1> QED BY <1>1, <1>2, <1>4, <1>7, <1>11

(* Every step keeps the types. *)
LEMMA TypeNext ==
    ASSUME TypeInv, [Next]_vars
    PROVE  TypeOK'
<1>0. TypeOK
  BY DEF TypeInv
<1>1. CASE Tick
  <2>1. clock' \in 0..MaxTime
    BY <1>0, <1>1, PaperExitAssumption DEF Tick, TypeOK
  <2>2. bars' \in [Trades -> Seq(Touches)]
    <3>1. CASE UNCHANGED bars
      BY <1>0, <3>1 DEF TypeOK
    <3>2. ASSUME NEW print \in [Trades -> Touches],
                 bars' = [t \in Trades |-> Append(bars[t], print[t])]
          PROVE  bars' \in [Trades -> Seq(Touches)]
      BY <1>0, <3>2 DEF TypeOK
    <3> QED BY <1>1, <3>1, <3>2 DEF Tick
  <2> QED BY <1>0, <1>1, <2>1, <2>2
          DEF Tick, TypeOK, safetyVars, SafetyTypeOK, BreakerTypeOK
<1>2. CASE HumanReset
  <2>1. breaker' \in Row /\ UNCHANGED safetyVars
    <3>1. CASE ResetConsecutiveLosses
      BY <1>0, <3>1 DEF ResetConsecutiveLosses, TypeOK, BreakerTypeOK, Row, NoPause
    <3>2. CASE ResetDrawdownLatch
      BY <1>0, <3>2 DEF ResetDrawdownLatch, TypeOK, BreakerTypeOK, Row
    <3> QED BY <1>2, <3>1, <3>2 DEF HumanReset
  <2> QED BY <1>0, <1>2, <2>1 DEF HumanReset, TypeOK, exitVars, safetyVars, SafetyTypeOK,
                                  BreakerTypeOK
<1>3. CASE HumanDeactivate
  <2>1. SafetyTypeOK'
    BY <1>0, <1>3 DEF HumanDeactivate, DeactivateKill, TypeOK, SafetyTypeOK
  <2> QED BY <1>0, <1>3, <2>1 DEF HumanDeactivate, TypeOK, exitVars, BreakerTypeOK
<1>4. ASSUME NEW t \in Trades,
             \/ \E m \in Monitors : MonitorClose(m, t)
             \/ \E h \in Humans, sent \in HumanCloses : HumanClose(h, t, sent)
      PROVE  TypeOK'
  <2>1. UNCHANGED <<breaker, clock, bars>>
    BY <1>0, <1>4, CloseBegins
  <2>2. CASE UNCHANGED <<safetyVars, trade, taken, work>>
    BY <1>0, <2>1, <2>2 DEF TypeOK, safetyVars, SafetyTypeOK, BreakerTypeOK
  <2>3. ASSUME NEW a \in Monitors \cup Humans, NEW request \in Request, NEW start \in Nat,
               Notes(a, t, request, start)
        PROVE  TypeOK'
    <3>1. work' \in [Actors -> Work]
      BY <1>0, <2>3 DEF Notes, TypeOK, Work, BreakerTypeOK
    <3> QED BY <1>0, <2>1, <2>3, <3>1
            DEF Notes, TypeOK, safetyVars, SafetyTypeOK, BreakerTypeOK
  <2>4. ASSUME NEW request \in Request, NEW start \in Nat, Closes(t, request, start)
        PROVE  TypeOK'
    <3>1. SafetyTypeOK'
      BY <1>0, <2>4, KillActivateType DEF Closes, TypeOK, safetyVars, SafetyTypeOK
    <3>2. trade' \in [Trades -> Trade] /\ taken' \in [Trades -> Nat]
      BY <1>0, <2>4, CloseTradeRows DEF Closes
    <3> QED BY <1>0, <2>1, <2>4, <3>1, <3>2 DEF Closes, TypeOK, BreakerTypeOK
  <2> QED BY <1>0, <1>4, <2>2, <2>3, <2>4, CloseBegins
<1>5. ASSUME NEW a \in Monitors \cup Humans, CommitClose(a)
      PROVE  TypeOK'
  <2>1. SafetyTypeOK' /\ breaker' \in Row
    BY <1>0, <1>5, CommitCloseRows, PersistType DEF CommitsWith, TypeOK, BreakerTypeOK
  <2>2. trade' \in [Trades -> Trade] /\ taken' \in [Trades -> Nat]
    BY <1>0, <1>5, CommitCloseRows, CloseTradeRows
  <2>3. work' \in [Actors -> Work]
    BY <1>0, <1>5, CommitCloseRows, IdleWork DEF TypeOK
  <2>4. UNCHANGED <<clock, bars>>
    BY <1>5, CommitCloseRows
  <2> QED BY <1>0, <2>1, <2>2, <2>3, <2>4 DEF TypeOK, BreakerTypeOK
<1>6. ASSUME NEW a \in Monitors \cup Humans, AbortClose(a)
      PROVE  TypeOK'
  <2>1. work' \in [Actors -> Work]
    BY <1>0, <1>6, IdleWork DEF AbortClose, TypeOK
  <2> QED BY <1>0, <1>6, <2>1 DEF AbortClose, TypeOK, safetyVars, SafetyTypeOK,
                                  BreakerTypeOK
<1>7. ASSUME NEW s \in Scanners, BeginScan(s)
      PROVE  TypeOK'
  <2>1. [Idle EXCEPT !.kind = "scan", !.start = clock, !.seen = breaker] \in Work
    <3>1. clock \in Nat /\ breaker \in Row
      BY <1>0 DEF TypeOK, BreakerTypeOK
    <3> QED BY <3>1, IdleWork DEF Work
  <2>2. work' \in [Actors -> Work]
    BY <1>0, <1>7, <2>1 DEF BeginScan, TypeOK
  <2> QED BY <1>0, <1>7, <2>2 DEF BeginScan, TypeOK, safetyVars, SafetyTypeOK,
                                  BreakerTypeOK
<1>8. ASSUME NEW s \in Scanners, CommitScan(s)
      PROVE  TypeOK'
  <2>1. SafetyTypeOK' /\ breaker' \in Row
    BY <1>0, <1>8, CommitScanRows, PersistType DEF ScansWith, TypeOK, BreakerTypeOK
  <2>2. work' \in [Actors -> Work]
    BY <1>0, <1>8, CommitScanRows, IdleWork DEF TypeOK
  <2>3. trade' \in [Trades -> Trade] /\ UNCHANGED <<clock, bars, taken>>
    BY <1>8, CommitScanRows
  <2> QED BY <1>0, <2>1, <2>2, <2>3 DEF TypeOK, BreakerTypeOK
<1>9. CASE UNCHANGED vars
  BY <1>0, <1>9 DEF vars, exitVars, safetyVars, TypeOK, SafetyTypeOK, BreakerTypeOK
<1> QED BY <1>1, <1>2, <1>3, <1>4, <1>5, <1>6, <1>7, <1>8, <1>9 DEF Next

(* Every step keeps the lock: a close begins only on an open trade that no *)
(* other transaction holds, and a trade that is held is closed by its      *)
(* holder only.                                                            *)
LEMMA HoldsNext ==
    ASSUME TypeInv, [Next]_vars
    PROVE  HoldsOpenTrade'
<1>0. /\ TypeOK /\ HoldsOpenTrade
      /\ work \in [Actors -> Work] /\ trade \in [Trades -> Trade]
  BY DEF TypeInv, TypeOK
<1>1. CASE UNCHANGED <<trade, work>>
  BY <1>0, <1>1 DEF HoldsOpenTrade
<1>2. ASSUME NEW t \in Trades,
             \/ \E m \in Monitors : MonitorClose(m, t)
             \/ \E h \in Humans, sent \in HumanCloses : HumanClose(h, t, sent)
      PROVE  HoldsOpenTrade'
  <2>1. ASSUME NEW a \in Monitors \cup Humans, NEW request \in Request, NEW start \in Nat,
               Notes(a, t, request, start)
        PROVE  HoldsOpenTrade'
    <3>1. /\ trade' = trade /\ a \in Actors
          /\ work'[a].kind = "close" /\ work'[a].trade = t
          /\ \A b \in Actors \ {a} : work'[b] = work[b]
      BY <1>0, <2>1 DEF Notes, Actors
    <3>2. trade[t].status = "OPEN"
      BY <2>1 DEF Notes
    <3>3. \A b \in Actors : ~(work[b].kind = "close" /\ work[b].trade = t)
      BY <2>1 DEF Notes, LifecycleLocked
    <3> QED BY <1>0, <3>1, <3>2, <3>3 DEF HoldsOpenTrade
  <2>2. ASSUME NEW request \in Request, NEW start \in Nat, Closes(t, request, start)
        PROVE  HoldsOpenTrade'
    <3>1. work' = work /\ \A s \in Trades \ {t} : trade'[s] = trade[s]
      BY <1>0, <2>2, CloseTradeRows DEF Closes
    <3>2. \A b \in Actors : ~(work[b].kind = "close" /\ work[b].trade = t)
      BY <2>2 DEF Closes, LifecycleLocked
    <3> QED BY <1>0, <3>1, <3>2 DEF HoldsOpenTrade
  <2> QED BY <1>0, <1>1, <1>2, <2>1, <2>2, CloseBegins
<1>3. ASSUME NEW a \in Monitors \cup Humans, CommitClose(a)
      PROVE  HoldsOpenTrade'
  <2>1. /\ work'[a].kind = "idle" /\ a \in Actors
        /\ \A b \in Actors \ {a} : work'[b] = work[b]
    BY <1>0, <1>3, CommitCloseRows, IdleWork DEF Actors
  <2>2. \A s \in Trades \ {work[a].trade} : trade'[s] = trade[s]
    BY <1>0, <1>3, CommitCloseRows, CloseTradeRows
  <2>3. work[a].kind = "close"
    BY <1>3, CommitCloseRows
  <2> QED BY <1>0, <2>1, <2>2, <2>3 DEF HoldsOpenTrade
<1>4. ASSUME NEW a \in Monitors \cup Humans, AbortClose(a)
      PROVE  HoldsOpenTrade'
  <2>1. /\ work'[a].kind = "idle" /\ a \in Actors /\ trade' = trade
        /\ \A b \in Actors \ {a} : work'[b] = work[b]
    BY <1>0, <1>4, IdleWork DEF Actors, AbortClose
  <2> QED BY <1>0, <2>1 DEF HoldsOpenTrade
<1>5. ASSUME NEW s \in Scanners, BeginScan(s)
      PROVE  HoldsOpenTrade'
  <2>1. [Idle EXCEPT !.kind = "scan", !.start = clock, !.seen = breaker].kind = "scan"
    BY IdleWork DEF Work
  <2>2. /\ work'[s].kind = "scan" /\ s \in Actors /\ trade' = trade
        /\ \A b \in Actors \ {s} : work'[b] = work[b]
    BY <1>0, <1>5, <2>1 DEF BeginScan, Actors
  <2> QED BY <1>0, <2>2 DEF HoldsOpenTrade
<1>6. ASSUME NEW s \in Scanners, CommitScan(s)
      PROVE  HoldsOpenTrade'
  <2>1. /\ work'[s].kind = "idle" /\ s \in Actors
        /\ \A b \in Actors \ {s} : work'[b] = work[b]
    BY <1>0, <1>6, CommitScanRows, IdleWork DEF Actors
  <2>2. \A t \in Trades : trade[t].status = "OPEN" => trade'[t] = trade[t]
    BY <1>6, CommitScanRows
  <2> QED BY <1>0, <2>1, <2>2 DEF HoldsOpenTrade
<1>7. CASE Tick \/ HumanReset \/ HumanDeactivate \/ UNCHANGED vars
  BY <1>1, <1>7 DEF Tick, HumanReset, HumanDeactivate, vars, exitVars
<1> QED BY <1>2, <1>3, <1>4, <1>5, <1>6, <1>7 DEF Next

(* The types and the lifecycle lock are invariant. *)
LEMMA TypeInvariant == Spec => []TypeInv
<1>1. TypeInv /\ [Next]_vars => TypeInv'
  BY TypeNext, HoldsNext DEF TypeInv
<1> QED BY <1>1, TypeInit, PTL DEF Spec

(* The type invariant: whatever passes, humans, scans and resets do to it, *)
(* the state keeps its types.                                              *)
THEOREM TypeCorrect == Spec => []TypeOK
<1>1. TypeInv => TypeOK
  BY DEF TypeInv
<1> QED BY <1>1, TypeInvariant, PTL

----------------------------------------------------------------------------
(* Overlapping passes and a human apply one close to a trade               *)
(* (close_filled_plan: the lifecycle lock, the re-read under it and the    *)
(* replay check).                                                          *)
THEOREM OneClose == Spec => []ClosedOnce
<1>1. Init => ClosedOnce
  BY DEF Init, ClosedOnce
<1>2. ASSUME TypeInv, ClosedOnce, [Next]_vars
      PROVE  ClosedOnce'
  <2>0. TypeOK /\ HoldsOpenTrade
    BY <1>2 DEF TypeInv
  <2>1. CASE UNCHANGED <<trade, taken>>
    BY <1>2, <2>1 DEF ClosedOnce
  <2>2. ASSUME NEW t \in Trades, NEW request \in Request, trade[t].status = "OPEN",
               CloseTrade(t, request)
        PROVE  ClosedOnce'
    BY <1>2, <2>0, <2>2, CloseTradeRows DEF ClosedOnce
  <2>3. ASSUME NEW t \in Trades,
               \/ \E m \in Monitors : MonitorClose(m, t)
               \/ \E h \in Humans, sent \in HumanCloses : HumanClose(h, t, sent)
        PROVE  ClosedOnce'
    BY <2>0, <2>1, <2>2, <2>3, CloseBegins DEF Notes, Closes
  <2>4. ASSUME NEW a \in Monitors \cup Humans, CommitClose(a)
        PROVE  ClosedOnce'
    <3>1. /\ work[a].trade \in Trades /\ work[a].request \in Request
          /\ trade[work[a].trade].status = "OPEN"
          /\ CloseTrade(work[a].trade, work[a].request)
      BY <1>2, <2>0, <2>4, CommitCloseRows DEF HoldsOpenTrade, Actors
    <3> QED BY <3>1, <2>2
  <2>5. ASSUME NEW s \in Scanners, CommitScan(s)
        PROVE  ClosedOnce'
    BY <1>2, <2>5, CommitScanRows DEF ClosedOnce
  <2>6. CASE \/ Tick \/ HumanReset \/ HumanDeactivate \/ UNCHANGED vars
             \/ \E a \in Monitors \cup Humans : AbortClose(a)
             \/ \E s \in Scanners : BeginScan(s)
    BY <2>1, <2>6 DEF Tick, HumanReset, HumanDeactivate, AbortClose, BeginScan, vars, exitVars
  <2> QED BY <1>2, <2>3, <2>4, <2>5, <2>6 DEF Next
<1>3. TypeInv /\ ClosedOnce /\ [Next]_vars => ClosedOnce'
  BY <1>2
<1> QED BY <1>1, <1>3, TypeInvariant, PTL DEF Spec

----------------------------------------------------------------------------
(* The breakers. *)

(* No close and no scan clears the drawdown latch, on a current copy of    *)
(* the row or on an overtaken one; only the human reset does               *)
(* (record_breaker, _latch_ruined_equity).                                 *)
THEOREM LatchKept == Spec => LatchHolds
<1>1. ASSUME TypeInv, [Next]_vars, breaker.latched, ~breaker'.latched
      PROVE  UNCHANGED exitVars
  <2>0. TypeOK /\ breaker \in Row
    BY <1>1 DEF TypeInv, TypeOK, BreakerTypeOK
  <2>1. ASSUME NEW a \in Monitors \cup Humans, CommitClose(a)
        PROVE  FALSE
    <3>1. PICK book \in Book, new \in Row : CommitsWith(a, book, new)
      BY <1>1, <2>1, CommitCloseRows
    <3>2. work[a].seen \in Row /\ work[a].request.loss \in BOOLEAN /\ work[a].request.at \in Nat
      BY <1>1, <2>1, CommitCloseRows DEF Request
    <3>3. work[a].seen.latched => new.latched
      BY <3>1, TripLatches DEF CommitsWith
    <3> QED BY <1>1, <2>0, <3>1, <3>2, <3>3, FlushRow DEF CommitsWith, PersistBreakers
  <2>2. ASSUME NEW s \in Scanners, CommitScan(s)
        PROVE  FALSE
    <3>1. PICK book \in Book, new \in Row : ScansWith(s, book, new)
      BY <1>1, <2>2, CommitScanRows
    <3>2. work[s].seen \in Row /\ work[s].start \in Nat
      BY <1>1, <2>2, CommitScanRows
    <3>3. work[s].seen.latched => new.latched
      BY <3>1, TripLatches DEF ScansWith
    <3> QED BY <1>1, <2>0, <3>1, <3>2, <3>3, FlushRow DEF ScansWith, PersistBreakers
  <2>3. ASSUME UNCHANGED breaker
        PROVE  FALSE
    BY <1>1, <2>3
  <2>4. ASSUME NEW t \in Trades,
               \/ \E m \in Monitors : MonitorClose(m, t)
               \/ \E h \in Humans, sent \in HumanCloses : HumanClose(h, t, sent)
        PROVE  FALSE
    BY <2>0, <2>3, <2>4, CloseBegins
  <2>5. CASE \/ Tick \/ HumanDeactivate \/ UNCHANGED vars
             \/ \E a \in Monitors \cup Humans : AbortClose(a)
             \/ \E s \in Scanners : BeginScan(s)
    BY <2>3, <2>5 DEF Tick, HumanDeactivate, AbortClose, BeginScan, vars
  <2>6. CASE HumanReset
    BY <2>6 DEF HumanReset
  <2> QED BY <1>1, <2>1, <2>2, <2>4, <2>5, <2>6 DEF Next
<1>2. TypeInv /\ [Next]_vars =>
        [breaker.latched /\ ~breaker'.latched => UNCHANGED exitVars]_vars
  BY <1>1
<1> QED BY <1>2, TypeInvariant, PTL DEF Spec, LatchHolds

(* A current copy of the row is written as it was tripped. *)
LEMMA CurrentRowHolds ==
    ASSUME breaker \in Row, NEW seen \in Row, NEW new \in Row, NEW count \in Nat,
           NEW now \in Nat, NEW book \in Book, clock \in Nat, now <= clock, seen = breaker,
           new = TripBreakers(seen, count, now, book), Flush(seen, new)
    PROVE  /\ InForce(breaker.paused, clock) =>
                breaker'.paused = breaker.paused /\ breaker'.streak >= breaker.streak
           /\ InForce(breaker.daily, clock) => breaker'.daily = breaker.daily
<1>1. breaker' = new
  BY FlushRow
<1>2. /\ InForce(breaker.paused, clock) => InForce(breaker.paused, now)
      /\ InForce(breaker.daily, clock) => InForce(breaker.daily, now)
  BY DEF InForce, Row
<1>3. Trips(seen, count, now, new)
  BY TripRow
<1>4. InForce(seen.paused, now) => new.streak >= seen.streak
  BY <1>3, StreakHeld DEF Trips
<1> QED BY <1>1, <1>2, <1>3, <1>4 DEF Trips

(* A close or a scan on the current row, at a time that is not in the      *)
(* future, neither ends nor moves a pause in force, nor lowers the streak  *)
(* under it (trip_breakers).                                               *)
THEOREM PausesKept == Spec => PausesHold
<1> DEFINE Now(a) == IF work[a].kind = "scan" THEN work[a].start ELSE work[a].request.at
           Kept == /\ InForce(breaker.paused, clock) =>
                        breaker'.paused = breaker.paused /\ breaker'.streak >= breaker.streak
                   /\ InForce(breaker.daily, clock) => breaker'.daily = breaker.daily
<1>1. ASSUME TypeInv, [Next]_vars, NEW a \in Actors, Ends(a), work[a].seen = breaker,
             Now(a) <= clock
      PROVE  Kept
  <2>0. /\ TypeOK /\ breaker \in Row /\ clock \in Nat /\ work \in [Actors -> Work]
        /\ breaker.streak \in Nat
    BY <1>1 DEF TypeInv, TypeOK, BreakerTypeOK, Row
  <2>1. CASE UNCHANGED breaker
    BY <2>0, <2>1
  <2>2. ASSUME NEW b \in Monitors \cup Humans, CommitClose(b)
        PROVE  Kept
    <3>1. PICK book \in Book, new \in Row : CommitsWith(b, book, new)
      BY <1>1, <2>2, CommitCloseRows
    <3>2. /\ work[b].seen \in Row /\ work[b].request.loss \in BOOLEAN
          /\ work[b].request.at \in Nat /\ work[b].kind = "close"
          /\ work' = [work EXCEPT ![b] = Idle]
      BY <1>1, <2>2, CommitCloseRows DEF Request
    <3>3. a = b
      BY <1>1, <2>0, <3>2 DEF Ends
    <3>4. NotedStreak(work[b].seen, work[b].request.loss, work[b].request.at) \in Nat
      BY <3>2, Counts
    <3>5. Now(b) = work[b].request.at
      BY <3>2
    <3> QED BY <1>1, <2>0, <3>1, <3>2, <3>3, <3>4, <3>5, CurrentRowHolds
            DEF CommitsWith, PersistBreakers
  <2>3. ASSUME NEW s \in Scanners, CommitScan(s)
        PROVE  Kept
    <3>1. PICK book \in Book, new \in Row : ScansWith(s, book, new)
      BY <1>1, <2>3, CommitScanRows
    <3>2. /\ work[s].seen \in Row /\ work[s].start \in Nat /\ work[s].kind = "scan"
          /\ work' = [work EXCEPT ![s] = Idle]
      BY <1>1, <2>3, CommitScanRows
    <3>3. a = s
      BY <1>1, <2>0, <3>2 DEF Ends
    <3>4. ScannedStreak(work[s].seen, work[s].start) \in Nat
      BY <3>2, ScanCounts
    <3>5. Now(s) = work[s].start
      BY <3>2
    <3> QED BY <1>1, <2>0, <3>1, <3>2, <3>3, <3>4, <3>5, CurrentRowHolds
            DEF ScansWith, PersistBreakers
  <2>4. ASSUME NEW t \in Trades,
               \/ \E m \in Monitors : MonitorClose(m, t)
               \/ \E h \in Humans, sent \in HumanCloses : HumanClose(h, t, sent)
        PROVE  Kept
    BY <2>0, <2>1, <2>4, CloseBegins
  <2>5. CASE \/ Tick \/ HumanDeactivate \/ UNCHANGED vars
             \/ \E b \in Monitors \cup Humans : AbortClose(b)
             \/ \E s \in Scanners : BeginScan(s)
    BY <2>1, <2>5 DEF Tick, HumanDeactivate, AbortClose, BeginScan, vars
  <2>6. CASE HumanReset
    BY <1>1, <2>6 DEF HumanReset, exitVars, Ends
  <2> QED BY <1>1, <2>2, <2>3, <2>4, <2>5, <2>6 DEF Next
<1>2. TypeInv /\ [Next]_vars =>
        [\A a \in Actors : (Ends(a) /\ work[a].seen = breaker /\ Now(a) <= clock) => Kept]_vars
  BY <1>1
<1> QED BY <1>2, TypeInvariant, PTL DEF Spec, PausesHold

(* A close that notes a monitored loss is a monitor's, and its bar is not  *)
(* old: monitor_close_protection turns an old one into a kill switch.      *)
NotesFreshLosses ==
    \A a \in Actors : (work[a].kind = "close" /\ work[a].request.key = "monitor") =>
        /\ a \in Monitors
        /\ work[a].request.loss => /\ work[a].start - work[a].request.at <= Step
                                   /\ work[a].start - work[a].request.at < BackfillAge

LEMMA FreshNext ==
    ASSUME TypeInv, NotesFreshLosses, [Next]_vars
    PROVE  NotesFreshLosses'
<1>0. TypeOK /\ work \in [Actors -> Work]
  BY DEF TypeInv, TypeOK
<1>1. ASSUME NEW b \in Actors, NEW x, x.kind # "close", work' = [work EXCEPT ![b] = x]
      PROVE  NotesFreshLosses'
  BY <1>0, <1>1 DEF NotesFreshLosses
<1>2. CASE UNCHANGED work
  BY <1>2 DEF NotesFreshLosses
<1>3. ASSUME NEW t \in Trades, NEW a \in Monitors \cup Humans, NEW request \in Request,
             NEW start \in Nat, Requested(a, t, request, start), Notes(a, t, request, start)
      PROVE  NotesFreshLosses'
  <2>1. /\ work'[a].kind = "close" /\ work'[a].request = request /\ work'[a].start = start
        /\ \A b \in Actors \ {a} : work'[b] = work[b]
    BY <1>0, <1>3 DEF Notes, Actors
  <2>2. ASSUME request.key = "monitor"
        PROVE  a \in Monitors /\ request.origin \in {"live", "backfill"}
    BY <1>0, <1>3, <2>2, RequestType DEF Requested
  <2>3. ASSUME request.key = "monitor", request.loss
        PROVE  start - request.at <= Step /\ start - request.at < BackfillAge
    <3>1. request.origin = "live" /\ ~StaleLiveLoss(request, start)
      BY <1>3, <2>2, <2>3 DEF Notes, Protection
    <3>2. request.at \in Nat
      BY DEF Request
    <3> QED BY <2>3, <3>1, <3>2, PaperExitAssumption DEF StaleLiveLoss
  <2> QED BY <2>1, <2>2, <2>3 DEF NotesFreshLosses
<1>4. ASSUME NEW t \in Trades,
             \/ \E m \in Monitors : MonitorClose(m, t)
             \/ \E h \in Humans, sent \in HumanCloses : HumanClose(h, t, sent)
      PROVE  NotesFreshLosses'
  BY <1>0, <1>2, <1>3, <1>4, CloseBegins DEF Closes
<1>5. CASE \/ \E a \in Monitors \cup Humans : CommitClose(a) \/ AbortClose(a)
           \/ \E s \in Scanners : CommitScan(s)
  BY <1>1, <1>5, IdleWork DEF CommitClose, AbortClose, CommitScan, Actors
<1>6. CASE \E s \in Scanners : BeginScan(s)
  <2>1. [Idle EXCEPT !.kind = "scan", !.start = clock, !.seen = breaker].kind = "scan"
    BY IdleWork DEF Work
  <2> QED BY <1>1, <1>6, <2>1 DEF BeginScan, Actors
<1>7. CASE Tick \/ HumanReset \/ HumanDeactivate \/ UNCHANGED vars
  BY <1>2, <1>7 DEF Tick, HumanReset, HumanDeactivate, vars, exitVars
<1> QED BY <1>4, <1>5, <1>6, <1>7 DEF Next

(* The cooldown outlasts the time a bar may wait for its close.  The       *)
(* default cooldown is HISTORICAL_BACKFILL_AFTER, 24 hours.                *)
CooldownCoversBars == Step < Cooldown \/ BackfillAge <= Cooldown

(* A loss that is noted on a row which was not overtaken stands in it. *)
LEMMA NotedLossStands ==
    ASSUME CooldownCoversBars, breaker \in Row, NEW seen \in Row, NEW new \in Row,
           NEW at \in Nat, NEW start \in Nat, NEW count \in Nat, NEW book \in Book,
           start - at <= Step, start - at < BackfillAge, count >= 1,
           new = TripBreakers(seen, count, at, book), Flush(seen, new)
    PROVE  /\ seen.streak = breaker.streak => breaker'.streak >= 1
           /\ (seen = breaker /\ breaker'.streak >= LossLimit) =>
                InForce(breaker'.paused, IF InForce(breaker.paused, at) THEN at ELSE start)
<1>0. Trips(seen, count, at, new)
  BY TripRow
<1>1. /\ new.streak = IF InForce(seen.paused, at) /\ count < seen.streak
                      THEN seen.streak ELSE count
      /\ InForce(seen.paused, at) => new.paused = seen.paused
      /\ new.streak >= LossLimit => new.paused = ConsecutivePauseExpiry(at, seen.paused)
  BY <1>0 DEF Trips, HeldStreak
<1>2. seen.streak \in Nat /\ seen.paused \in Nat
  BY DEF Row
<1>3. seen.streak = breaker.streak => breaker'.streak >= 1
  BY <1>1, <1>2, FlushRow
<1>4. ASSUME seen = breaker, breaker'.streak >= LossLimit
      PROVE  InForce(breaker'.paused, IF InForce(breaker.paused, at) THEN at ELSE start)
  <2>1. breaker' = new
    BY <1>4, FlushRow
  <2>2. new.paused = ConsecutivePauseExpiry(at, seen.paused)
    BY <1>1, <1>4, <2>1
  <2>3. CASE InForce(breaker.paused, at)
    BY <1>1, <1>4, <2>1, <2>3
  <2>4. CASE ~InForce(breaker.paused, at)
    <3>1. new.paused >= at + Cooldown /\ new.paused \in Nat
      <4>1. ~InForce(seen.paused, at)
        BY <1>4, <2>4
      <4>2. /\ ConsecutivePauseExpiry(at, seen.paused) >= at + Cooldown
            /\ ConsecutivePauseExpiry(at, seen.paused) \in Nat
        BY <1>2, <4>1, PauseExpiry
      <4> QED BY <2>2, <4>2
    <3>2. start < at + Cooldown
      BY CooldownCoversBars, PaperExitAssumption, BreakerAssumption DEF CooldownCoversBars
    <3> QED BY <2>1, <2>4, <3>1, <3>2, BreakerAssumption DEF InForce
  <2> QED BY <2>3, <2>4
<1> QED BY <1>3, <1>4

(* A loss the monitor closes on a profile plan arms the kill switch or     *)
(* counts in the streak that was not overtaken; on a current row a streak  *)
(* at its limit leaves a pause in force (monitor_close_protection,         *)
(* _note_profile_close).                                                   *)
THEOREM LossReaches ==
    ASSUME CooldownCoversBars
    PROVE  Spec => LossReachesAccount
<1> DEFINE Newly(t) == ~ClosedByMonitor(t) /\ ClosedByMonitor(t)' /\ trade'[t].close.loss
           Counted(m, t) ==
             /\ work[m].kind = "close" /\ work[m].trade = t
             /\ work[m].seen.streak = breaker.streak => breaker'.streak >= 1
             /\ (work[m].seen = breaker /\ breaker'.streak >= LossLimit) =>
                   InForce(breaker'.paused,
                           IF InForce(breaker.paused, work[m].request.at)
                           THEN work[m].request.at ELSE work[m].start)
<1>1. Init => NotesFreshLosses
  BY IdleWork DEF Init, NotesFreshLosses
<1>2. ASSUME TypeInv, NotesFreshLosses, [Next]_vars, NEW t \in ProfileTrades, Newly(t)
      PROVE  killActive' \/ \E m \in Monitors : Counted(m, t)
  <2>0. /\ TypeOK /\ HoldsOpenTrade /\ t \in Trades /\ breaker \in Row
        /\ work \in [Actors -> Work]
    BY <1>2, PaperExitAssumption DEF TypeInv, TypeOK, BreakerTypeOK
  <2>1. trade'[t] # trade[t]
    BY <1>2 DEF ClosedByMonitor
  <2>2. ASSUME NEW s \in Trades,
               \/ \E m \in Monitors : MonitorClose(m, s)
               \/ \E h \in Humans, sent \in HumanCloses : HumanClose(h, s, sent)
        PROVE  killActive'
    <3>1. PICK a \in Monitors \cup Humans, request \in Request, start \in Nat :
            Requested(a, s, request, start) /\ Closes(s, request, start)
      BY <2>0, <2>1, <2>2, CloseBegins DEF Notes
    <3>2. s = t /\ request.key = "monitor" /\ request.loss
      BY <1>2, <2>0, <2>1, <3>1, CloseTradeRows DEF Closes, ClosedByMonitor
    <3>3. request.origin \in {"live", "backfill"}
      BY <2>0, <3>1, <3>2, RequestType DEF Requested
    <3>4. Protection(s, request, start) = "kill_switch"
      BY <3>1, <3>2, <3>3 DEF Closes, Protection
    <3> QED BY <2>0, <3>1, <3>4, KillActivateType DEF Closes, TypeOK
  <2>3. ASSUME NEW a \in Monitors \cup Humans, CommitClose(a)
        PROVE  \E m \in Monitors : Counted(m, t)
    <3>1. /\ work[a].kind = "close" /\ work[a].trade \in Trades /\ a \in Actors
          /\ work[a].request \in Request /\ work[a].seen \in Row
          /\ CloseTrade(work[a].trade, work[a].request)
      BY <1>2, <2>3, CommitCloseRows DEF Actors
    <3>2. work[a].trade = t /\ work[a].request.key = "monitor" /\ work[a].request.loss
      BY <1>2, <2>0, <2>1, <3>1, CloseTradeRows DEF ClosedByMonitor
    <3>3. /\ a \in Monitors
          /\ work[a].start - work[a].request.at <= Step
          /\ work[a].start - work[a].request.at < BackfillAge
      BY <1>2, <3>1, <3>2 DEF NotesFreshLosses
    <3>4. PICK book \in Book, new \in Row : CommitsWith(a, book, new)
      BY <1>2, <2>3, CommitCloseRows
    <3>5. /\ work[a].request.at \in Nat /\ work[a].start \in Nat
          /\ work[a].request.loss \in BOOLEAN
      BY <2>0, <3>1 DEF Request, Work
    <3>6. LET count == NotedStreak(work[a].seen, work[a].request.loss, work[a].request.at)
          IN  count \in Nat /\ count >= 1
      BY <3>1, <3>2, <3>5, Counts
    <3>7. Counted(a, t)
      BY <2>0, <3>1, <3>2, <3>3, <3>4, <3>5, <3>6, NotedLossStands
         DEF CommitsWith, PersistBreakers
    <3> QED BY <3>3, <3>7
  <2>4. ASSUME NEW s \in Scanners, CommitScan(s)
        PROVE  FALSE
    BY <1>2, <2>0, <2>1, <2>4, CommitScanRows DEF ClosedByMonitor
  <2>5. CASE \/ Tick \/ HumanReset \/ HumanDeactivate \/ UNCHANGED vars
             \/ \E a \in Monitors \cup Humans : AbortClose(a)
             \/ \E s \in Scanners : BeginScan(s)
    BY <2>1, <2>5 DEF Tick, HumanReset, HumanDeactivate, AbortClose, BeginScan, vars, exitVars
  <2> QED BY <1>2, <2>2, <2>3, <2>4, <2>5 DEF Next
<1>3. TypeInv /\ NotesFreshLosses /\ [Next]_vars => NotesFreshLosses'
  BY FreshNext
<1>4. TypeInv /\ NotesFreshLosses /\ [Next]_vars =>
        [\A t \in ProfileTrades :
            Newly(t) => \/ killActive'
                        \/ \E m \in Monitors : Counted(m, t)]_vars
  BY <1>2
<1> QED BY <1>1, <1>3, <1>4, TypeInvariant, PTL DEF Spec, LossReachesAccount

----------------------------------------------------------------------------
(* A row whose streak and pause are covered by n lost trades. *)
EarnedBy(row, n) == row.streak <= n /\ (row.paused # NoPause => n >= LossLimit)

(* Not only the stored row is covered by the trades lost so far, but also  *)
(* every copy that a transaction has read and may write back.              *)
CopiesEarned ==
    /\ EarnedBy(breaker, Cardinality(Losses))
    /\ \A a \in Actors : work[a].kind # "idle" => EarnedBy(work[a].seen, Cardinality(Losses))

LEMMA EarnedGrows ==
    ASSUME NEW row \in Row, NEW n \in Nat, NEW p \in Nat, n <= p, EarnedBy(row, n)
    PROVE  EarnedBy(row, p)
BY BreakerAssumption DEF EarnedBy, Row

(* A tripped row is covered when its count is. *)
LEMMA TripEarned ==
    ASSUME NEW seen \in Row, NEW count \in Nat, NEW now \in Nat, NEW book \in Book, NEW new,
           new = TripBreakers(seen, count, now, book), NEW n \in Nat,
           EarnedBy(seen, n), count <= n
    PROVE  EarnedBy(new, n)
<1>0. Trips(seen, count, now, new)
  BY TripRow
<1>1. new \in Row
  BY <1>0 DEF Trips
<1>2. new.streak \in {seen.streak, count}
  BY <1>0, StreakHeld DEF Trips
<1>3. new.paused \in {NoPause, seen.paused} \/ new.streak >= LossLimit
  BY <1>0 DEF Trips
<1>4. new.streak <= n
  BY <1>2 DEF EarnedBy
<1> QED BY <1>1, <1>3, <1>4, BreakerAssumption DEF EarnedBy, Row

(* The flush mixes columns of two rows that are covered. *)
LEMMA FlushEarned ==
    ASSUME breaker \in Row, NEW seen \in Row, NEW new \in Row, Flush(seen, new),
           NEW n \in Nat, EarnedBy(breaker, n), EarnedBy(new, n)
    PROVE  EarnedBy(breaker', n)
BY FlushRow DEF EarnedBy

LEMMA LossesFinite ==
    ASSUME TypeOK
    PROVE  IsFiniteSet(Losses) /\ Cardinality(Losses) \in Nat
<1>1. Losses \in SUBSET Trades
  BY DEF Losses
<1> QED BY <1>1, PaperExitAssumption, FS_Subset, FS_CardinalityType

(* A close adds the trade to the lost ones if it is a loss. *)
LEMMA LossesAfterClose ==
    ASSUME TypeOK, NEW t \in Trades, NEW request \in Request, trade[t].status = "OPEN",
           CloseTrade(t, request)
    PROVE  Cardinality(Losses)' = Cardinality(Losses) + (IF request.loss THEN 1 ELSE 0)
<1>1. /\ trade'[t].status = "CLOSED" /\ trade'[t].close = request
      /\ \A s \in Trades \ {t} : trade'[s] = trade[s]
  BY CloseTradeRows
<1>2. t \notin Losses
  BY DEF Losses
<1>3. CASE request.loss
  <2>1. Losses' = Losses \cup {t}
    BY <1>1, <1>3 DEF Losses
  <2> QED BY <1>2, <1>3, <2>1, LossesFinite, FS_AddElement
<1>4. CASE ~request.loss
  <2>1. Losses' = Losses
    BY <1>1, <1>2, <1>4 DEF Losses
  <2> QED BY <1>4, <2>1, LossesFinite
<1> QED BY <1>3, <1>4

LEMMA EarnedNext ==
    ASSUME TypeInv, CopiesEarned, [Next]_vars
    PROVE  CopiesEarned'
<1> DEFINE N == Cardinality(Losses)
<1>0. /\ TypeOK /\ HoldsOpenTrade /\ work \in [Actors -> Work] /\ breaker \in Row
      /\ N \in Nat
  BY LossesFinite DEF TypeInv, TypeOK, BreakerTypeOK
<1>1. \A a \in Actors : work[a].seen \in Row
  BY <1>0 DEF Work
<1>2. ASSUME NEW a \in Actors, NEW x, work' = [work EXCEPT ![a] = x],
             x.kind = "idle" \/ x.seen = breaker,
             UNCHANGED <<breaker, trade>>
      PROVE  CopiesEarned'
  <2>1. Losses' = Losses
    BY <1>2 DEF Losses
  <2> QED BY <1>0, <1>2, <2>1 DEF CopiesEarned
<1>3. ASSUME NEW t \in Trades, NEW request \in Request, NEW start \in Nat,
             Closes(t, request, start), UNCHANGED breaker
      PROVE  CopiesEarned'
  <2>1. trade[t].status = "OPEN" /\ CloseTrade(t, request) /\ work' = work
    BY <1>3 DEF Closes
  <2>2. N' \in Nat /\ N <= N'
    BY <1>0, <2>1, LossesAfterClose
  <2> QED BY <1>0, <1>1, <1>3, <2>1, <2>2, EarnedGrows DEF CopiesEarned
<1>4. ASSUME NEW t \in Trades,
             \/ \E m \in Monitors : MonitorClose(m, t)
             \/ \E h \in Humans, sent \in HumanCloses : HumanClose(h, t, sent)
      PROVE  CopiesEarned'
  <2>1. UNCHANGED breaker
    BY <1>0, <1>4, CloseBegins
  <2>2. CASE UNCHANGED <<trade, work>>
    BY <2>1, <2>2 DEF CopiesEarned, Losses
  <2>3. ASSUME NEW a \in Monitors \cup Humans, NEW request \in Request, NEW start \in Nat,
               Notes(a, t, request, start)
        PROVE  CopiesEarned'
    BY <1>2, <2>1, <2>3 DEF Notes, Actors
  <2> QED BY <1>0, <1>3, <1>4, <2>1, <2>2, <2>3, CloseBegins
<1>5. ASSUME NEW a \in Monitors \cup Humans, CommitClose(a)
      PROVE  CopiesEarned'
  <2> DEFINE t == work[a].trade
             request == work[a].request
  <2>1. /\ t \in Trades /\ request \in Request /\ a \in Actors /\ work[a].kind = "close"
        /\ CloseTrade(t, request) /\ work' = [work EXCEPT ![a] = Idle]
    BY <1>5, CommitCloseRows DEF Actors
  <2>2. trade[t].status = "OPEN"
    BY <1>0, <2>1 DEF HoldsOpenTrade
  <2>3. N' = N + (IF request.loss THEN 1 ELSE 0)
    BY <1>0, <2>1, <2>2, LossesAfterClose
  <2>4. N' \in Nat /\ N <= N'
    BY <1>0, <2>3
  <2>5. PICK book \in Book, new \in Row : CommitsWith(a, book, new)
    BY <1>5, CommitCloseRows
  <2>6. request.loss \in BOOLEAN /\ request.at \in Nat
    BY <2>1 DEF Request
  <2>7. EarnedBy(work[a].seen, N) /\ EarnedBy(breaker, N)
    BY <2>1 DEF CopiesEarned
  <2>8. /\ NotedStreak(work[a].seen, request.loss, request.at) \in Nat
        /\ NotedStreak(work[a].seen, request.loss, request.at) <= N'
    <3>1. work[a].seen.streak \in Nat /\ work[a].seen.streak <= N
      BY <1>1, <2>1, <2>7 DEF EarnedBy, Row
    <3> QED BY <1>0, <1>1, <2>1, <2>3, <2>6, <3>1, Counts
  <2>9. EarnedBy(work[a].seen, N') /\ EarnedBy(breaker, N')
    BY <1>0, <1>1, <2>1, <2>4, <2>7, EarnedGrows
  <2>10. EarnedBy(new, N')
    BY <1>1, <2>1, <2>4, <2>5, <2>6, <2>8, <2>9, TripEarned DEF CommitsWith
  <2>11. EarnedBy(breaker', N')
    BY <1>0, <1>1, <2>1, <2>4, <2>5, <2>9, <2>10, FlushEarned DEF CommitsWith, PersistBreakers
  <2>12. \A b \in Actors : work'[b].kind # "idle" => EarnedBy(work'[b].seen, N')
    BY <1>0, <1>1, <2>1, <2>4, IdleWork, EarnedGrows DEF CopiesEarned
  <2> QED BY <2>11, <2>12 DEF CopiesEarned
<1>6. ASSUME NEW s \in Scanners, CommitScan(s)
      PROVE  CopiesEarned'
  <2>1. /\ work[s].kind = "scan" /\ work[s].start \in Nat /\ s \in Actors
        /\ work' = [work EXCEPT ![s] = Idle]
    BY <1>6, CommitScanRows DEF Actors
  <2>2. Losses' = Losses
    BY <1>6, CommitScanRows DEF Losses
  <2>3. PICK book \in Book, new \in Row : ScansWith(s, book, new)
    BY <1>6, CommitScanRows
  <2>4. EarnedBy(work[s].seen, N) /\ EarnedBy(breaker, N)
    BY <2>1 DEF CopiesEarned
  <2>5. /\ ScannedStreak(work[s].seen, work[s].start) \in Nat
        /\ ScannedStreak(work[s].seen, work[s].start) <= N
    <3>1. work[s].seen.streak \in Nat /\ work[s].seen.streak <= N
      BY <1>1, <2>1, <2>4 DEF EarnedBy, Row
    <3> QED BY <1>0, <1>1, <2>1, <3>1, ScanCounts
  <2>6. EarnedBy(new, N)
    BY <1>0, <1>1, <2>1, <2>3, <2>4, <2>5, TripEarned DEF ScansWith
  <2>7. EarnedBy(breaker', N)
    BY <1>0, <1>1, <2>1, <2>3, <2>4, <2>6, FlushEarned DEF ScansWith, PersistBreakers
  <2> QED BY <1>0, <2>1, <2>2, <2>7, IdleWork DEF CopiesEarned
<1>7. CASE HumanReset
  <2>1. UNCHANGED <<trade, work>>
    BY <1>7 DEF HumanReset, exitVars
  <2>2. EarnedBy(breaker', N)
    <3>1. CASE ResetConsecutiveLosses
      BY <1>0, <3>1 DEF ResetConsecutiveLosses, EarnedBy, Row, NoPause
    <3>2. CASE ResetDrawdownLatch
      BY <1>0, <3>2 DEF ResetDrawdownLatch, EarnedBy, Row, CopiesEarned
    <3> QED BY <1>7, <3>1, <3>2 DEF HumanReset
  <2> QED BY <2>1, <2>2 DEF CopiesEarned, Losses
<1>8. CASE Tick \/ HumanDeactivate \/ UNCHANGED vars
  <2>1. UNCHANGED <<breaker, trade, work>>
    BY <1>8 DEF Tick, HumanDeactivate, vars, exitVars
  <2> QED BY <2>1 DEF CopiesEarned, Losses
<1>9. CASE \E a \in Monitors \cup Humans : AbortClose(a)
  BY <1>2, <1>9, IdleWork DEF AbortClose, Actors
<1>10. CASE \E s \in Scanners : BeginScan(s)
  <2>1. [Idle EXCEPT !.kind = "scan", !.start = clock, !.seen = breaker].seen = breaker
    BY IdleWork DEF Work
  <2> QED BY <1>2, <1>10, <2>1 DEF BeginScan, Actors
<1> QED BY <1>4, <1>5, <1>6, <1>7, <1>8, <1>9, <1>10 DEF Next

(* Whatever closes, scans and resets overtake each other, the streak never *)
(* exceeds the number of lost trades, and a consecutive-loss pause stands  *)
(* on LossLimit of them (_note_profile_close, trip_breakers, and the flush *)
(* of a row that is read without a lock).                                  *)
THEOREM PauseEarned == Spec => []PauseIsEarned
<1>1. Init => CopiesEarned
  <2> SUFFICES ASSUME Init PROVE CopiesEarned
    OBVIOUS
  <2>1. Losses = {}
    BY DEF Init, Losses
  <2> QED BY <2>1, FS_EmptySet, IdleWork DEF Init, BreakerInit, CopiesEarned, EarnedBy, NoPause
<1>2. TypeInv /\ CopiesEarned /\ [Next]_vars => CopiesEarned'
  BY EarnedNext
<1>3. CopiesEarned => PauseIsEarned
  BY DEF CopiesEarned, EarnedBy, PauseIsEarned
<1> QED BY <1>1, <1>2, <1>3, TypeInvariant, PTL DEF Spec

----------------------------------------------------------------------------
(* The bar that a request names is the first one of the whole market that  *)
(* touched a level of the trade.                                           *)
FirstTouch(t, request) ==
    \E k \in TouchedBars(t) :
        /\ \A j \in TouchedBars(t) : k <= j
        /\ request.at = BarEnd(k)
        /\ request.loss <=> ExitLoses(t, k)

(* A bar may exit the trade exactly if it ends after the entry and starts  *)
(* at most the settlement gap before it: what entry_eligibility_time       *)
(* rounds away is less than a bar, however long the gap is.                *)
LEMMA Eligible ==
    ASSUME NEW entry \in Nat, NEW k \in Nat \ {0}
    PROVE  BarStart(k) >= EligibleFrom(entry)
             <=> BarEnd(k) > entry /\ BarStart(k) + SettlementGap >= entry
<1> DEFINE q == entry \div Step
           r == entry % Step
           b == k - 1
<1>1. /\ q \in Nat /\ r \in Nat /\ r < Step /\ q * Step \in Nat
      /\ entry = q * Step + r
  BY Division, PaperExitAssumption
<1>2. /\ b \in Nat /\ b * Step \in Nat /\ BarStart(k) = b * Step
      /\ Step \in Nat \ {0} /\ SettlementGap \in Nat /\ BarEnd(k) = b * Step + Step
  BY PaperExitAssumption DEF BarStart, BarEnd
<1>3. EligibleFrom(entry) = IF r <= SettlementGap THEN q * Step ELSE q * Step + r
  <2>1. EligibleFrom(entry) = IF r <= SettlementGap THEN entry - r ELSE entry
    BY DEF EligibleFrom
  <2> HIDE DEF q, r
  <2> QED BY <1>1, <2>1
<1>4. b < q => b * Step + Step <= q * Step
  BY <1>1, <1>2, MultiplesApart
<1>5. q < b => q * Step + Step <= b * Step
  BY <1>1, <1>2, MultiplesApart
<1>6. b < q \/ b = q \/ q < b
  BY <1>1, <1>2
<1> HIDE DEF q, r, b
<1> DEFINE B == b * Step
           Q == q * Step
<1>7. B \in Nat /\ Q \in Nat /\ (b = q => B = Q)
  BY <1>1, <1>2
<1>8. /\ b < q => B + Step <= Q
      /\ q < b => Q + Step <= B
      /\ BarStart(k) = B /\ BarEnd(k) = B + Step
      /\ entry = Q + r
      /\ EligibleFrom(entry) = IF r <= SettlementGap THEN Q ELSE Q + r
  BY <1>1, <1>2, <1>3, <1>4, <1>5
<1> HIDE DEF B, Q
<1>9. CASE r <= SettlementGap
  BY <1>1, <1>2, <1>6, <1>7, <1>8, <1>9
<1>10. CASE ~(r <= SettlementGap)
  BY <1>1, <1>2, <1>6, <1>7, <1>8, <1>10
<1> QED BY <1>9, <1>10

(* A usable series holds every bar from the entry to its newest one, so no *)
(* bar that touched a level before the one the pass takes is missing.      *)
LEMMA PassTakesFirst ==
    ASSUME TypeOK, NEW t \in Trades, NEW at \in Nat, NEW request \in ExitRequests(t, at)
    PROVE  FirstTouch(t, request)
<1> DEFINE entry == trade[t].entry
<1>1. PICK fetched \in SUBSET ClosedBars(1..Len(bars[t]), at) :
      \E k \in ExitBars(t, fetched, at) :
             /\ Usable(fetched, trade[t].entry, at)
             /\ \A j \in ExitBars(t, fetched, at) : k <= j
             /\ request = MonitorRequest(t, k, at)
  BY Decided
<1>2. PICK k \in ExitBars(t, fetched, at) :
             /\ Usable(fetched, entry, at)
             /\ \A j \in ExitBars(t, fetched, at) : k <= j
             /\ request = MonitorRequest(t, k, at)
  BY <1>1
<1> DEFINE closed == ClosedBars(fetched, at)
<1>3. entry \in Nat /\ Len(bars[t]) \in Nat
  BY DEF TypeOK, Trade
<1>4. closed \subseteq 1..Len(bars[t]) /\ closed \in SUBSET Nat
  <2>1. closed \subseteq 1..Len(bars[t])
    BY DEF ClosedBars
  <2>2. \A n \in 1..Len(bars[t]) : n \in Nat
    BY <1>3
  <2> QED BY <2>1, <2>2
<1>5. /\ k \in closed /\ k \in 1..Len(bars[t])
      /\ BarStart(k) >= EligibleFrom(entry) /\ bars[t][k] # "none"
  BY <1>4 DEF ExitBars
<1>6. k \in TouchedBars(t)
  BY <1>3, <1>5, Eligible DEF TouchedBars
<1>7. /\ Min(closed) \in closed /\ \A y \in closed : Min(closed) <= y
      /\ Max(closed) \in closed /\ \A y \in closed : Max(closed) >= y
  <2>1. closed # {} /\ \A y \in closed : y <= Len(bars[t])
    BY <1>3, <1>4, <1>5
  <2> QED BY <1>3, <1>4, <2>1, MinNat, MaxNat
<1>8. ASSUME NEW j \in TouchedBars(t), j < k
      PROVE  FALSE
  <2>1. /\ j \in Nat \ {0} /\ j \in 1..Len(bars[t])
        /\ BarEnd(j) > entry /\ BarStart(j) + SettlementGap >= entry
        /\ bars[t][j] # "none"
    BY <1>3 DEF TouchedBars
  <2>2. /\ BarStart(Min(closed)) <= entry
        /\ Min(closed)..Max(closed) \subseteq closed
    BY <1>2 DEF Usable
  <2>3. Min(closed) \in Nat \ {0}
    BY <1>3, <1>4, <1>7
  <2>4. Min(closed) <= j
    <3> SUFFICES ASSUME j < Min(closed) PROVE FALSE
      BY <2>1, <2>3
    <3> DEFINE m == Min(closed)
    <3>1. (j - 1) * Step + Step <= (m - 1) * Step
      <4>1. j - 1 \in Nat /\ m - 1 \in Nat /\ j - 1 < m - 1
        BY <2>1, <2>3
      <4> QED BY <4>1, MultiplesApart, PaperExitAssumption
    <3>2. BarEnd(j) \in Int /\ BarStart(m) \in Int /\ BarEnd(j) <= BarStart(m)
      BY <2>1, <2>3, <3>1, PaperExitAssumption DEF BarStart, BarEnd
    <3> QED BY <1>3, <2>1, <2>2, <3>2
  <2>5. j \in Min(closed)..Max(closed)
    <3>1. Max(closed) \in Nat /\ k \in Nat /\ k <= Max(closed)
      BY <1>4, <1>5, <1>7
    <3> QED BY <1>8, <2>1, <2>3, <2>4, <3>1
  <2>6. j \in closed
    BY <2>2, <2>5
  <2>7. BarStart(j) >= EligibleFrom(entry)
    BY <1>3, <2>1, Eligible
  <2>8. j \in ExitBars(t, fetched, at)
    BY <2>1, <2>6, <2>7 DEF ExitBars
  <2>9. k \in Nat
    BY <1>4, <1>5
  <2> QED BY <1>2, <1>8, <2>1, <2>8, <2>9
<1>9. \A j \in TouchedBars(t) : k <= j
  BY <1>3, <1>5, <1>8 DEF TouchedBars
<1>10. request.at = BarEnd(k) /\ (request.loss <=> ExitLoses(t, k))
  BY <1>2 DEF MonitorRequest
<1> QED BY <1>6, <1>9, <1>10 DEF FirstTouch

(* Every close of a monitor, committed or still held, is at the first      *)
(* touch.                                                                  *)
TakesFirst ==
    /\ \A t \in Trades : ClosedByMonitor(t) => FirstTouch(t, trade[t].close)
    /\ \A a \in Actors :
         work[a].kind = "close" /\ work[a].request.key = "monitor" =>
            FirstTouch(work[a].trade, work[a].request)

(* Later candles do not change which bar touched first. *)
LEMMA FirstTouchStays ==
    ASSUME TypeOK, NEW t \in Trades, NEW request, FirstTouch(t, request),
           trade'[t].entry = trade[t].entry,
           bars' = bars \/ \E x : bars'[t] = Append(bars[t], x)
    PROVE  FirstTouch(t, request)'
<1>1. PICK k \in TouchedBars(t) :
        /\ \A j \in TouchedBars(t) : k <= j
        /\ request.at = BarEnd(k)
        /\ request.loss <=> ExitLoses(t, k)
  BY DEF FirstTouch
<1>2. CASE bars'[t] = bars[t]
  <2>1. TouchedBars(t)' = TouchedBars(t) /\ ExitLoses(t, k)' = ExitLoses(t, k)
    BY <1>2 DEF TouchedBars, ExitLoses
  <2> QED BY <1>1, <2>1 DEF FirstTouch
<1>3. ASSUME NEW x, bars'[t] = Append(bars[t], x)
      PROVE  FirstTouch(t, request)'
  <2>1. /\ bars[t] \in Seq(Touches) /\ Len(bars[t]) \in Nat
        /\ Len(bars'[t]) = Len(bars[t]) + 1
        /\ \A j \in 1..Len(bars[t]) : bars'[t][j] = bars[t][j]
    BY <1>3 DEF TypeOK
  <2>2. k \in 1..Len(bars[t])
    BY <1>1 DEF TouchedBars
  <2>3. k \in TouchedBars(t)'
    BY <1>1, <2>1, <2>2 DEF TouchedBars
  <2>4. \A j \in TouchedBars(t)' : k <= j
    <3> SUFFICES ASSUME NEW j \in TouchedBars(t)' PROVE k <= j
      OBVIOUS
    <3>1. j \in 1..Len(bars[t]) \/ j = Len(bars[t]) + 1
      BY <2>1 DEF TouchedBars
    <3>2. CASE j \in 1..Len(bars[t])
      <4>1. j \in TouchedBars(t)
        BY <2>1, <3>2 DEF TouchedBars
      <4> QED BY <1>1, <4>1
    <3> QED BY <2>1, <2>2, <3>1, <3>2
  <2>5. ExitLoses(t, k)' = ExitLoses(t, k)
    BY <2>1, <2>2 DEF ExitLoses
  <2> QED BY <1>1, <2>3, <2>4, <2>5 DEF FirstTouch
<1> QED BY <1>2, <1>3

LEMMA FirstNext ==
    ASSUME TypeInv, TakesFirst, [Next]_vars
    PROVE  TakesFirst'
<1>0. /\ TypeOK /\ HoldsOpenTrade /\ work \in [Actors -> Work] /\ trade \in [Trades -> Trade]
  BY DEF TypeInv, TypeOK
<1>1. ASSUME NEW t \in Trades, trade'[t].entry = trade[t].entry,
             bars' = bars \/ \E x : bars'[t] = Append(bars[t], x), NEW request,
             FirstTouch(t, request)
      PROVE  FirstTouch(t, request)'
  BY <1>0, <1>1, FirstTouchStays
<1>2. ASSUME NEW t \in Trades, NEW request \in Request, trade[t].status = "OPEN",
             CloseTrade(t, request), UNCHANGED bars,
             request.key = "monitor" => FirstTouch(t, request),
             \A a \in Actors : work'[a] = work[a] \/ work'[a].kind = "idle"
      PROVE  TakesFirst'
  <2>1. /\ trade'[t].close = request /\ \A s \in Trades : trade'[s].entry = trade[s].entry
        /\ \A s \in Trades \ {t} : trade'[s] = trade[s]
    BY <1>0, <1>2, CloseTradeRows
  <2>2. ASSUME NEW s \in Trades, ClosedByMonitor(s)'
        PROVE  FirstTouch(s, trade[s].close)'
    <3>1. FirstTouch(s, trade'[s].close)
      BY <1>2, <2>1, <2>2 DEF TakesFirst, ClosedByMonitor
    <3> QED BY <1>1, <1>2, <2>1, <3>1
  <2>3. ASSUME NEW a \in Actors, work'[a].kind = "close", work'[a].request.key = "monitor"
        PROVE  FirstTouch(work[a].trade, work[a].request)'
    <3>1. /\ work'[a] = work[a] /\ work[a].trade \in Trades
          /\ FirstTouch(work[a].trade, work[a].request)
      BY <1>0, <1>2, <2>3 DEF TakesFirst, HoldsOpenTrade
    <3> QED BY <1>1, <1>2, <2>1, <3>1
  <2> QED BY <2>2, <2>3 DEF TakesFirst
<1>3. ASSUME \A t \in Trades : /\ trade[t].status # "NONE" => trade'[t] = trade[t]
                               /\ ClosedByMonitor(t)' => ClosedByMonitor(t),
             bars' = bars \/ \A t \in Trades : \E x : bars'[t] = Append(bars[t], x),
             \A a \in Actors :
                \/ work'[a] = work[a]
                \/ work'[a].kind # "close"
                \/ /\ work'[a].trade \in Trades
                   /\ trade[work'[a].trade].status = "OPEN"
                   /\ work'[a].request.key = "monitor" =>
                        FirstTouch(work'[a].trade, work'[a].request)
      PROVE  TakesFirst'
  <2>1. ASSUME NEW t \in Trades, ClosedByMonitor(t)'
        PROVE  FirstTouch(t, trade[t].close)'
    <3>1. FirstTouch(t, trade[t].close) /\ trade'[t] = trade[t]
      BY <1>3, <2>1 DEF TakesFirst, ClosedByMonitor
    <3> QED BY <1>1, <1>3, <3>1
  <2>2. ASSUME NEW a \in Actors, work'[a].kind = "close", work'[a].request.key = "monitor"
        PROVE  FirstTouch(work[a].trade, work[a].request)'
    <3>1. /\ work'[a].trade \in Trades /\ trade[work'[a].trade].status = "OPEN"
          /\ FirstTouch(work'[a].trade, work'[a].request)
      BY <1>0, <1>3, <2>2 DEF TakesFirst, HoldsOpenTrade
    <3>2. trade'[work'[a].trade].entry = trade[work'[a].trade].entry
      BY <1>3, <3>1
    <3> QED BY <1>1, <1>3, <3>1, <3>2
  <2> QED BY <2>1, <2>2 DEF TakesFirst
<1>4. ASSUME NEW t \in Trades,
             \/ \E m \in Monitors : MonitorClose(m, t)
             \/ \E h \in Humans, sent \in HumanCloses : HumanClose(h, t, sent)
      PROVE  TakesFirst'
  <2>1. UNCHANGED bars
    BY <1>0, <1>4, CloseBegins
  <2>2. CASE UNCHANGED <<trade, work>>
    BY <1>3, <2>1, <2>2 DEF ClosedByMonitor
  <2>3. ASSUME NEW a \in Monitors \cup Humans, NEW request \in Request, NEW start \in Nat,
               Requested(a, t, request, start),
               Notes(a, t, request, start) \/ Closes(t, request, start)
        PROVE  TakesFirst'
    <3>1. request.key = "monitor" => FirstTouch(t, request)
      BY <1>0, <2>3, PassTakesFirst DEF Requested
    <3>2. CASE Notes(a, t, request, start)
      <4>1. /\ trade' = trade /\ a \in Actors /\ trade[t].status = "OPEN"
            /\ work'[a].trade = t /\ work'[a].request = request
            /\ \A b \in Actors \ {a} : work'[b] = work[b]
        BY <1>0, <3>2 DEF Notes, Actors
      <4> QED BY <1>3, <2>1, <3>1, <4>1 DEF ClosedByMonitor
    <3>3. CASE Closes(t, request, start)
      BY <1>2, <2>1, <3>1, <3>3 DEF Closes
    <3> QED BY <2>3, <3>2, <3>3
  <2> QED BY <1>0, <1>4, <2>2, <2>3, CloseBegins
<1>5. ASSUME NEW a \in Monitors \cup Humans, CommitClose(a)
      PROVE  TakesFirst'
  <2>1. /\ work[a].trade \in Trades /\ work[a].request \in Request /\ a \in Actors
        /\ work[a].kind = "close"
        /\ CloseTrade(work[a].trade, work[a].request) /\ work' = [work EXCEPT ![a] = Idle]
    BY <1>5, CommitCloseRows DEF Actors
  <2>2. UNCHANGED bars
    BY <1>5 DEF CommitClose
  <2>3. trade[work[a].trade].status = "OPEN"
    BY <1>0, <2>1 DEF HoldsOpenTrade
  <2>4. work[a].request.key = "monitor" => FirstTouch(work[a].trade, work[a].request)
    BY <2>1 DEF TakesFirst
  <2>5. \A b \in Actors : work'[b] = work[b] \/ work'[b].kind = "idle"
    BY <1>0, <2>1, IdleWork
  <2> QED BY <1>2, <2>1, <2>2, <2>3, <2>4, <2>5
<1>6. ASSUME NEW s \in Scanners, CommitScan(s)
      PROVE  TakesFirst'
  <2>1. /\ work' = [work EXCEPT ![s] = Idle] /\ UNCHANGED bars
        /\ \A t \in Trades : /\ trade[t].status # "NONE" => trade'[t] = trade[t]
                             /\ ClosedByMonitor(t)' => ClosedByMonitor(t)
    BY <1>6, CommitScanRows DEF ClosedByMonitor
  <2> QED BY <1>0, <1>3, <2>1, IdleWork
<1>7. CASE Tick
  <2>1. /\ UNCHANGED <<trade, work>>
        /\ bars' = bars \/ \E print \in [Trades -> Touches] :
                              bars' = [t \in Trades |-> Append(bars[t], print[t])]
    BY <1>7 DEF Tick
  <2> QED BY <1>3, <2>1 DEF ClosedByMonitor
<1>8. CASE HumanReset \/ HumanDeactivate \/ UNCHANGED vars
  <2>1. UNCHANGED <<bars, trade, work>>
    BY <1>8 DEF HumanReset, HumanDeactivate, vars, exitVars
  <2> QED BY <1>3, <2>1 DEF ClosedByMonitor
<1>9. CASE \E a \in Monitors \cup Humans : AbortClose(a)
  BY <1>0, <1>3, <1>9, IdleWork DEF AbortClose, ClosedByMonitor, Actors
<1>10. CASE \E s \in Scanners : BeginScan(s)
  <2>1. [Idle EXCEPT !.kind = "scan", !.start = clock, !.seen = breaker].kind = "scan"
    BY IdleWork DEF Work
  <2> QED BY <1>0, <1>3, <1>10, <2>1 DEF BeginScan, ClosedByMonitor, Actors
<1> QED BY <1>4, <1>5, <1>6, <1>7, <1>8, <1>9, <1>10 DEF Next

(* Whatever part of the series the venue returned to whichever pass, a     *)
(* monitor close is at the first bar of the whole market that touched a    *)
(* level of the trade (candle_series_block, entry_eligibility_time,        *)
(* decide_exit).                                                           *)
THEOREM FirstTouchTaken == Spec => []MonitorTakesFirstTouch
<1>1. Init => TakesFirst
  BY IdleWork DEF Init, TakesFirst, ClosedByMonitor
<1>2. TypeInv /\ TakesFirst /\ [Next]_vars => TakesFirst'
  BY FirstNext
<1>3. TypeInv /\ TakesFirst => MonitorTakesFirstTouch
  <2> SUFFICES ASSUME TypeInv, TakesFirst, NEW t \in Trades, ClosedByMonitor(t)
               PROVE  /\ TouchedBars(t) # {}
                      /\ trade[t].close.at = BarEnd(Min(TouchedBars(t)))
                      /\ trade[t].close.loss <=>
                           ExitLoses(t, Min(TouchedBars(t)))
    BY DEF MonitorTakesFirstTouch, ExitLoses
  <2>1. PICK k \in TouchedBars(t) :
          /\ \A j \in TouchedBars(t) : k <= j
          /\ trade[t].close.at = BarEnd(k)
          /\ trade[t].close.loss <=> ExitLoses(t, k)
    BY DEF TakesFirst, FirstTouch
  <2>2. Len(bars[t]) \in Nat
    BY DEF TypeInv, TypeOK
  <2>3. TouchedBars(t) \in SUBSET Nat
    BY <2>2 DEF TouchedBars
  <2>4. Min(TouchedBars(t)) = k
    <3>1. Min(TouchedBars(t)) \in TouchedBars(t) /\ Min(TouchedBars(t)) <= k
      BY <2>3, MinNat
    <3> QED BY <2>1, <2>3, <3>1
  <2> QED BY <2>1, <2>4
<1> QED BY <1>1, <1>2, <1>3, TypeInvariant, PTL DEF Spec
=============================================================================
