----------------------------- MODULE PaperExit -----------------------------
(***************************************************************************)
(* Closing internal-paper trades: the exit monitor, the human close and    *)
(* the entry scan, over the breaker row and the kill switch of one account.*)
(*                                                                         *)
(* A monitor pass takes a snapshot of the open trades and of the database  *)
(* clock, then examines the trades one by one: it fetches candles, refuses *)
(* a series with a hole, takes the first bar that touches a level and asks *)
(* close_filled_plan to close the trade at that bar.  Each close is a      *)
(* transaction of its own under the lifecycle lock of its trade; two       *)
(* passes may overlap, and a human may close the same trade.               *)
(*                                                                         *)
(* Between two of its closes a pass keeps nothing but its clock and the    *)
(* list of trades that were open at that time, so examining a trade in     *)
(* some pass is a choice of the pass's clock: any time since the entry.    *)
(* The trade may have been closed since, by another pass or by a human.    *)
(*                                                                         *)
(* A close or scan that reaches the breaker takes two steps: the row is    *)
(* read, and later everything is written and committed.                    *)
(*                                                                         *)
(*   clock  : database now()                                               *)
(*   bars   : for each trade, what each closed candle of its market        *)
(*            touched, oldest first                                        *)
(*   trade  : journal_trade with its CLOSE event                           *)
(*   taken  : how many closes were applied to a trade (history)            *)
(*   work   : per actor, the transaction that has read the breaker row     *)
(***************************************************************************)
EXTENDS RiskBreaker, Sequences, FiniteSets, FiniteSetsExt

CONSTANTS
    Trades,
    ProfileTrades,   \* plans with the paper-profile-isolated margin assumption
    TargetLoses,     \* trades whose costs eat the move to the target
    Monitors, Humans, Scanners,
    NoTrade,
    Prints,          \* [Trades -> what a candle of its market may touch]
    Step,            \* one candle, in ticks
    SettlementGap,   \* ENTRY_SETTLEMENT_GAP
    BackfillAge,     \* HISTORICAL_BACKFILL_AFTER
    PauseWindow,     \* paper_signal_cooldown_after_loss_seconds
    HumanCloses,     \* the time and result a human may send
    OpenAtStart,     \* trades that are already open
    MaxTime          \* bound on the clock

Touches == {"none", "gap", "stop", "target", "both"}

ASSUME PaperExitAssumption ==
    /\ IsFiniteSet(Trades)
    /\ ProfileTrades \subseteq Trades
    /\ TargetLoses \subseteq Trades
    /\ NoTrade \notin Trades
    /\ Prints \in [Trades -> SUBSET Touches]
    /\ \A t \in Trades : "none" \in Prints[t]
    /\ Step \in Nat \ {0}
    /\ SettlementGap \in Nat
    /\ BackfillAge \in Nat \ {0}
    /\ PauseWindow \in Nat
    /\ HumanCloses \subseteq [at : Nat, loss : BOOLEAN]
    /\ OpenAtStart \subseteq Trades
    /\ MaxTime \in Nat
    /\ Monitors \cap Humans = {}
    /\ Scanners \cap (Monitors \cup Humans) = {}

VARIABLES clock, bars, trade, taken, work

exitVars == <<clock, bars, trade, taken, work>>
vars == <<safetyVars, breaker, exitVars>>

Actors == Monitors \cup Humans \cup Scanners

Origins == {"none", "live", "backfill"}

(* What a ClosePaperPlanRequest says: monitor:<command id> or a client key,*)
(* the exit time, the sign of the result and the monitor's label.          *)
Request == [key : {"monitor", "human"}, at : Nat, loss : BOOLEAN, origin : Origins]

NoRequest == [key |-> "human", at |-> 0, loss |-> FALSE, origin |-> "none"]

Trade == [status : {"NONE", "OPEN", "CLOSED"}, entry : Nat, close : Request]

(* A transaction: "close" carries its request, "scan" only its clock.      *)
Work == [kind : {"idle", "close", "scan"}, trade : Trades \cup {NoTrade},
         request : Request, start : Nat, seen : Row]

Idle == [kind |-> "idle", trade |-> NoTrade, request |-> NoRequest, start |-> 0,
         seen |-> [streak |-> 0, paused |-> NoPause, daily |-> NoPause, latched |-> FALSE]]

TypeOK ==
    /\ SafetyTypeOK
    /\ BreakerTypeOK
    /\ clock \in 0..MaxTime
    /\ bars \in [Trades -> Seq(Touches)]
    /\ trade \in [Trades -> Trade]
    /\ taken \in [Trades -> Nat]
    /\ work \in [Actors -> Work]

Init ==
    /\ SafetyInit
    /\ BreakerInit
    /\ clock = 0
    /\ bars = [t \in Trades |-> <<>>]
    /\ trade = [t \in Trades |->
                  [status |-> IF t \in OpenAtStart THEN "OPEN" ELSE "NONE",
                   entry |-> 0, close |-> NoRequest]]
    /\ taken = [t \in Trades |-> 0]
    /\ work = [a \in Actors |-> Idle]

----------------------------------------------------------------------------
(* Reading the candles.  Bar k covers the ticks (k - 1) * Step .. k * Step.*)

BarStart(k) == (k - 1) * Step
BarEnd(k) == k * Step

(* entry_eligibility_time *)
EligibleFrom(entry) ==
    IF entry % Step <= SettlementGap THEN entry - (entry % Step) ELSE entry

ClosedBars(fetched, at) == {k \in fetched : BarEnd(k) <= at}

(* Mutant: a hole inside the series is not noticed. *)
UsableWithHoles(fetched, entry, at) ==
    LET closed == ClosedBars(fetched, at)
    IN  /\ closed # {}
        /\ BarStart(Min(closed)) <= entry
        /\ at - BarEnd(Max(closed)) < Step

(* candle_series_block lets a series through: some bar has closed, none is *)
(* missing back to the entry or in between, and the newest one ended less  *)
(* than a candle ago.                                                      *)
Usable(fetched, entry, at) ==
    LET closed == ClosedBars(fetched, at)
    IN  /\ closed # {}
        /\ BarStart(Min(closed)) <= entry
        /\ Min(closed)..Max(closed) \subseteq closed
        /\ at - BarEnd(Max(closed)) < Step

(* decide_exit: the bars that may exit the trade and touch a level. *)
ExitBars(t, fetched, at) ==
    {k \in ClosedBars(fetched, at) :
        BarStart(k) >= EligibleFrom(trade[t].entry) /\ bars[t][k] # "none"}

(* A gap through the stop, a stop, or both levels in one bar is a stop     *)
(* exit; the stop is on the losing side of the entry.                      *)
ExitLoses(t, k) == bars[t][k] # "target" \/ t \in TargetLoses

(* classify_exit_origin *)
ExitOrigin(at, evaluatedAt) ==
    IF evaluatedAt - at >= BackfillAge THEN "backfill" ELSE "live"

(* close_request_for(decide_exit(...)), for bar k *)
MonitorRequest(t, k, evaluatedAt) ==
    [key |-> "monitor", at |-> BarEnd(k), loss |-> ExitLoses(t, k),
     origin |-> ExitOrigin(BarEnd(k), evaluatedAt)]

----------------------------------------------------------------------------
(* close_filled_plan *)

(* _lock_lifecycle: another open transaction holds the trade. *)
LifecycleLocked(t) == \E a \in Actors : work[a].kind = "close" /\ work[a].trade = t

(* Mutant: the status read before the lock is not read again. *)
CloseVerdictUnchecked(t, request) == "apply"

(* _assert_close_eligible and the projector's replay check, under the lock.*)
CloseVerdict(t, request) ==
    CASE trade[t].status = "OPEN" -> "apply"
      [] trade[t].close.key # request.key -> "already_closed"
      [] trade[t].close = request -> "replayed"
      [] OTHER -> "close_conflict"

(* Mutant: an old bar is noted like a fresh one. *)
StaleOnlyWhenBackfill(request, start) ==
    request.origin = "live" /\ request.loss /\ start - request.at >= BackfillAge

(* stale_live_loss_needs_protection, aged at the transaction's now() *)
StaleLiveLoss(request, start) ==
    LET age == start - request.at
    IN  /\ request.origin = "live"
        /\ request.loss
        /\ \/ age >= BackfillAge
           \/ PauseWindow > 0 /\ age > PauseWindow
           \/ age > Step

(* monitor_close_protection *)
Protection(t, request, start) ==
    IF request.origin = "backfill" /\ request.loss THEN "kill_switch"
    ELSE IF StaleLiveLoss(request, start) THEN "kill_switch"
    ELSE IF t \in ProfileTrades /\ request.origin # "backfill" THEN "note"
    ELSE "skip"

(* The projected CLOSE event. *)
CloseTrade(t, request) ==
    /\ trade' = [trade EXCEPT ![t].status = "CLOSED", ![t].close = request]
    /\ taken' = [taken EXCEPT ![t] = @ + 1]

(* close_filled_plan up to the point where the breaker row has been read.  *)
(* A refused or replayed close writes nothing.  A protected loss closes    *)
(* the trade and arms the kill switch in one transaction.  now() is the    *)
(* start of the transaction, which may have waited for the lock.           *)
BeginClose(a, t, request, start) ==
    /\ ~LifecycleLocked(t)
    /\ IF CloseVerdict(t, request) # "apply"
       THEN UNCHANGED <<safetyVars, trade, taken, work>>
       ELSE CASE Protection(t, request, start) = "note" ->
                 /\ work' = [work EXCEPT ![a] =
                        [kind |-> "close", trade |-> t, request |-> request,
                         start |-> start, seen |-> breaker]]
                 /\ UNCHANGED <<safetyVars, trade, taken>>
              [] Protection(t, request, start) = "kill_switch" ->
                 /\ CloseTrade(t, request)
                 /\ KillActivate
                 /\ UNCHANGED work
              [] OTHER ->
                 /\ CloseTrade(t, request)
                 /\ UNCHANGED <<safetyVars, work>>
    /\ UNCHANGED <<breaker, clock, bars>>

(* _note_profile_close and the commit: the copy is tripped at the time the *)
(* close carries and flushed over the row as it is now.                    *)
CommitClose(a) ==
    /\ work[a].kind = "close"
    /\ \E book \in Books :
         LET w   == work[a]
             new == TripBreakers(w.seen, NotedStreak(w.seen, w.request.loss, w.request.at),
                                 w.request.at, book)
         IN  PersistBreakers(w.seen, new)
    /\ CloseTrade(work[a].trade, work[a].request)
    /\ work' = [work EXCEPT ![a] = Idle]
    /\ UNCHANGED <<clock, bars>>

(* An exception, or the death of the process, rolls the whole close back;  *)
(* the monitor goes on with the next trade.                                *)
AbortClose(a) ==
    /\ work[a].kind = "close"
    /\ work' = [work EXCEPT ![a] = Idle]
    /\ UNCHANGED <<safetyVars, breaker, clock, bars, trade, taken>>

----------------------------------------------------------------------------
(* The requests a pass may make for a trade: the venue may return any of   *)
(* the closed bars (both filters of the code drop the one that is still    *)
(* open), and the first touching bar of a usable series is the exit.  A    *)
(* failed fetch, an unusable series and a series without a touch leave the *)
(* trade alone.                                                            *)
ExitRequests(t, evaluatedAt) ==
    LET Decided == {fetched \in SUBSET ClosedBars(1..Len(bars[t]), evaluatedAt) :
                      /\ Usable(fetched, trade[t].entry, evaluatedAt)
                      /\ ExitBars(t, fetched, evaluatedAt) # {}}
    IN  {MonitorRequest(t, Min(ExitBars(t, fetched, evaluatedAt)), evaluatedAt) :
           fetched \in Decided}

(* run_configured_exit_monitor and run_paper_exit_monitor: a pass that     *)
(* began at evaluatedAt, when the trade was open, closes it.               *)
MonitorClose(m, t) ==
    /\ work[m].kind = "idle"
    /\ trade[t].status # "NONE"
    /\ \E evaluatedAt \in trade[t].entry..clock :
       \E request \in ExitRequests(t, evaluatedAt), start \in evaluatedAt..clock :
          BeginClose(m, t, request, start)

(* POST /paper-plan/close: the client supplies the time and the price. *)
HumanClose(h, t, sent) ==
    /\ work[h].kind = "idle"
    /\ trade[t].status # "NONE"
    /\ BeginClose(h, t, [key |-> "human", at |-> sent.at, loss |-> sent.loss,
                         origin |-> "none"], clock)

----------------------------------------------------------------------------
(* The entry scan of the automated paper loop. *)
BeginScan(s) ==
    /\ work[s].kind = "idle"
    /\ \E t \in Trades : trade[t].status = "NONE"
    /\ work' = [work EXCEPT ![s] = [Idle EXCEPT !.kind = "scan", !.start = clock,
                                                !.seen = breaker]]
    /\ UNCHANGED <<safetyVars, breaker, clock, bars, trade, taken>>

(* A fill carries the end of its signal bar, or the clock of an old writer.*)
EntryTimes(now) == {now, now - (now % Step)}

OpenTrade(t, entry) ==
    trade' = [trade EXCEPT ![t].status = "OPEN", ![t].entry = entry]

(* persist_profile_breakers and, unless it refuses or the kill switch      *)
(* blocks, a fill.                                                         *)
CommitScan(s) ==
    /\ work[s].kind = "scan"
    /\ \E book \in Books :
         LET w   == work[s]
             new == TripBreakers(w.seen, ScannedStreak(w.seen, w.start), w.start, book)
         IN  /\ PersistBreakers(w.seen, new)
             /\ IF RefusesNewTrades(new) \/ killActive \/ BreakerActive(w.start)
                THEN UNCHANGED trade
                ELSE \E t \in Trades : \E entry \in EntryTimes(w.start) :
                       trade[t].status = "NONE" /\ OpenTrade(t, entry)
    /\ work' = [work EXCEPT ![s] = Idle]
    /\ UNCHANGED <<clock, bars, taken>>

----------------------------------------------------------------------------
(* A candle that ends before the scan that opens a trade, or after the     *)
(* trade is closed, is read by no decision about it.                       *)
Watched(t) ==
    \/ trade[t].status = "OPEN"
    \/ trade[t].status = "NONE" /\ \E s \in Scanners : work[s].kind = "scan"

(* The clock; a candle closes at every multiple of Step. *)
Tick ==
    /\ clock < MaxTime
    /\ clock' = clock + 1
    /\ IF clock' % Step # 0 THEN UNCHANGED bars
       ELSE \E print \in [Trades -> Touches] :
              /\ \A t \in Trades :
                   print[t] \in IF Watched(t) THEN Prints[t] ELSE {"none"}
              /\ bars' = [t \in Trades |-> Append(bars[t], print[t])]
    /\ UNCHANGED <<safetyVars, breaker, trade, taken, work>>

HumanReset ==
    /\ ResetConsecutiveLosses \/ ResetDrawdownLatch
    /\ UNCHANGED exitVars

HumanDeactivate ==
    /\ DeactivateKill
    /\ UNCHANGED <<breaker, exitVars>>

Next ==
    \/ Tick
    \/ HumanReset
    \/ HumanDeactivate
    \/ \E m \in Monitors, t \in Trades : MonitorClose(m, t)
    \/ \E h \in Humans, t \in Trades, sent \in HumanCloses : HumanClose(h, t, sent)
    \/ \E a \in Monitors \cup Humans : CommitClose(a) \/ AbortClose(a)
    \/ \E s \in Scanners : BeginScan(s) \/ CommitScan(s)

Spec == Init /\ [][Next]_vars

----------------------------------------------------------------------------
(* The bars a trade could really exit on: one that ends after the entry,   *)
(* starts at most the settlement gap before it, and touches a level.       *)
TouchedBars(t) ==
    {k \in 1..Len(bars[t]) :
        /\ BarEnd(k) > trade[t].entry
        /\ BarStart(k) + SettlementGap >= trade[t].entry
        /\ bars[t][k] # "none"}

ClosedByMonitor(t) == trade[t].status = "CLOSED" /\ trade[t].close.key = "monitor"

(* Whatever part of the series the venue returned to whichever pass, a     *)
(* trade the monitor closes is closed at the first bar of the whole market *)
(* that touched one of its levels, and a stop touched in that bar makes it *)
(* a loss (candle_series_block, decide_exit).                              *)
MonitorTakesFirstTouch ==
    \A t \in Trades : ClosedByMonitor(t) =>
        /\ TouchedBars(t) # {}
        /\ LET k == Min(TouchedBars(t))
           IN  /\ trade[t].close.at = BarEnd(k)
               /\ trade[t].close.loss <=> (bars[t][k] # "target" \/ t \in TargetLoses)

(* Overlapping passes and human closes apply one close to a trade, so its  *)
(* outcome reaches the breakers or the kill switch once                    *)
(* (close_filled_plan's lock, re-read and replay check).                   *)
ClosedOnce ==
    \A t \in Trades : taken[t] = IF trade[t].status = "CLOSED" THEN 1 ELSE 0

Losses == {t \in Trades : trade[t].status = "CLOSED" /\ trade[t].close.loss}

(* The streak never counts more losses than trades were lost, and a        *)
(* consecutive-loss pause stands only on LossLimit lost trades, whatever   *)
(* closes, scans and resets overtook each other.                           *)
PauseIsEarned ==
    /\ breaker.streak <= Cardinality(Losses)
    /\ breaker.paused # NoPause => Cardinality(Losses) >= LossLimit

Ends(a) == work[a].kind # "idle" /\ work'[a].kind = "idle"

(* A loss the monitor closes on a profile plan reaches the account: the    *)
(* kill switch is on, or the loss stands in the streak, unless another     *)
(* writer has changed the streak since it was read.  On a current row a    *)
(* streak at the limit has a pause in force: at the time of the close      *)
(* transaction, or, if a pause was running when the bar ended, at the      *)
(* bar's end (monitor_close_protection, _note_profile_close).              *)
LossReachesAccount ==
    [][\A t \in ProfileTrades :
         (~ClosedByMonitor(t) /\ ClosedByMonitor(t)' /\ trade'[t].close.loss) =>
            \/ killActive'
            \/ \E m \in Monitors :
                 /\ work[m].kind = "close" /\ work[m].trade = t
                 /\ work[m].seen.streak = breaker.streak => breaker'.streak >= 1
                 /\ (work[m].seen = breaker /\ breaker'.streak >= LossLimit) =>
                      InForce(breaker'.paused,
                              IF InForce(breaker.paused, work[m].request.at)
                              THEN work[m].request.at ELSE work[m].start)]_vars

(* A close or a scan that works on the current row, and does not carry a   *)
(* time in the future, neither ends nor moves a pause that is in force,    *)
(* nor lowers the streak under it (trip_breakers, record_breaker).         *)
PausesHold ==
    [][\A a \in Actors :
         LET now == IF work[a].kind = "scan" THEN work[a].start ELSE work[a].request.at
         IN  (Ends(a) /\ work[a].seen = breaker /\ now <= clock) =>
               /\ InForce(breaker.paused, clock) =>
                    breaker'.paused = breaker.paused /\ breaker'.streak >= breaker.streak
               /\ InForce(breaker.daily, clock) => breaker'.daily = breaker.daily]_vars

(* Only the human reset clears the drawdown latch: no close and no scan    *)
(* does, on a current copy of the row or on an overtaken one.              *)
LatchHolds ==
    [][breaker.latched /\ ~breaker'.latched => UNCHANGED exitVars]_vars

(* A loss increments the streak. *)
LossIncrementsStreak ==
    [][\A a \in Monitors \cup Humans :
         (work[a].kind = "close" /\ trade' # trade /\ work'[a].kind = "idle"
            /\ work[a].request.loss /\ breaker.paused = NoPause) =>
               breaker'.streak = breaker.streak + 1]_vars

============================================================================
