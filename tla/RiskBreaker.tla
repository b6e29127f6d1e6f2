---------------------------- MODULE RiskBreaker ----------------------------
(***************************************************************************)
(* The risk-policy breaker row of one execution account.                   *)
(*                                                                         *)
(* A paper or demo close and every entry scan end in                       *)
(* persist_profile_breakers: read the row, evaluate it against the book,   *)
(* write it back.  The row is read without a lock and has no version, and  *)
(* the session writes only the columns that differ from the values it      *)
(* read, so a transaction works on a copy that other transactions may have *)
(* overtaken when it is flushed.                                           *)
(*                                                                         *)
(*   breaker : risk_policy_breaker_state of the account                    *)
(*     streak  : consecutive_losses                                        *)
(*     paused  : consecutive_paused_until                                  *)
(*     daily   : daily_paused_until                                        *)
(*     latched : drawdown_latched                                          *)
(*                                                                         *)
(* Times are counted in ticks from 0; a pause of 0 is NULL.  What the      *)
(* portfolio accounting says (equity against its peak, the day's result    *)
(* against its limit) is an input, the book.                               *)
(***************************************************************************)
EXTENDS SafetyEpoch

CONSTANTS
    DayLength,      \* ticks of a UTC day
    Cooldown,       \* consecutive_loss_cooldown_hours
    LossLimit,      \* consecutive_loss_limit
    Books           \* what sync_from_portfolio may find

Book == [daily : BOOLEAN, drawdown : BOOLEAN, ruined : BOOLEAN]

ASSUME BreakerAssumption ==
    /\ DayLength \in Nat \ {0}
    /\ Cooldown \in Nat \ {0}
    /\ LossLimit \in Nat \ {0}
    /\ Books \subseteq Book

VARIABLE breaker

NoPause == 0

Row == [streak : Nat, paused : Nat, daily : Nat, latched : BOOLEAN]

BreakerTypeOK == breaker \in Row

BreakerInit ==
    breaker = [streak |-> 0, paused |-> NoPause, daily |-> NoPause, latched |-> FALSE]

----------------------------------------------------------------------------
(* _pause_active, _pause_still_in_force *)
InForce(until, now) == until > now

(* streak_after_expiry: an expired pause ends the streak, no pause does not. *)
StreakAfterExpiry(count, until, now) ==
    IF until # NoPause /\ ~InForce(until, now) THEN 0 ELSE count

NextUtcDay(now) == (now \div DayLength + 1) * DayLength

Later(s, t) == IF s > t THEN s ELSE t

(* Mutant: a new trip moves a pause that is still in force. *)
PauseExpiryMoved(now, existing) == Later(NextUtcDay(now), now + Cooldown)

(* consecutive_pause_expiry: a pause is set once and kept while it lasts. *)
ConsecutivePauseExpiry(now, existing) ==
    IF InForce(existing, now) THEN existing
    ELSE Later(NextUtcDay(now), now + Cooldown)

(* profile_close_consecutive *)
ProfileCloseConsecutive(count, loss, pausedNow) ==
    IF loss THEN count + 1 ELSE IF pausedNow THEN count ELSE 0

(* _note_profile_close: the count a close passes on, from the row it read  *)
(* and the time it carries.                                                *)
NotedStreak(row, loss, now) ==
    ProfileCloseConsecutive(StreakAfterExpiry(row.streak, row.paused, now),
                            loss, InForce(row.paused, now))

(* The count an entry scan passes on. *)
ScannedStreak(row, now) == StreakAfterExpiry(row.streak, row.paused, now)

(* trip_breakers on the copy `row`: the count cannot fall and neither      *)
(* pause can move while it is in force at `now`.  A ruined book (equity    *)
(* not positive) opens no daily pause.                                     *)
TripWithLatch(row, count, now, book, latch) ==
    LET held   == InForce(row.paused, now)
        streak == IF held /\ count < row.streak THEN row.streak ELSE count
    IN  [streak  |-> streak,
         paused  |-> IF streak >= LossLimit THEN ConsecutivePauseExpiry(now, row.paused)
                     ELSE IF held THEN row.paused ELSE NoPause,
         daily   |-> IF InForce(row.daily, now) THEN row.daily
                     ELSE IF book.daily /\ ~book.ruined THEN NextUtcDay(now) ELSE NoPause,
         latched |-> latch]

(* Mutant: the latch follows the current drawdown. *)
TripUnlatching(row, count, now, book) ==
    TripWithLatch(row, count, now, book, book.drawdown \/ book.ruined)

(* Mutant: the pause starts one loss early. *)
TripEarly(row, count, now, book) ==
    LET new == TripWithLatch(row, count, now, book,
                             row.latched \/ book.drawdown \/ book.ruined)
    IN  IF count + 1 >= LossLimit
        THEN [new EXCEPT !.paused = ConsecutivePauseExpiry(now, row.paused)] ELSE new

(* persist_profile_breakers, evaluate_breakers and record_breaker, with    *)
(* _latch_ruined_equity: a latch that is set stays set.                    *)
TripBreakers(row, count, now, book) ==
    TripWithLatch(row, count, now, book, row.latched \/ book.drawdown \/ book.ruined)

(* The returned verdict: new trades are refused. *)
RefusesNewTrades(row) ==
    row.latched \/ row.daily # NoPause \/ row.paused # NoPause

(* RiskPolicyService.breaker_active *)
BreakerActive(now) ==
    breaker.latched \/ InForce(breaker.daily, now) \/ InForce(breaker.paused, now)

Column(seen, new, stored) == IF new = seen THEN stored ELSE new

(* The flush: columns whose value differs from the copy that was read. *)
Flush(seen, new) ==
    breaker' = [streak  |-> Column(seen.streak, new.streak, breaker.streak),
                paused  |-> Column(seen.paused, new.paused, breaker.paused),
                daily   |-> Column(seen.daily, new.daily, breaker.daily),
                latched |-> Column(seen.latched, new.latched, breaker.latched)]

(* _arm_drawdown_kill_switch, only on the trip that sets the latch. *)
ArmDrawdown(seen, new) ==
    IF new.latched /\ ~seen.latched THEN KillActivate ELSE UNCHANGED safetyVars

(* The write side of persist_profile_breakers for a copy read earlier. *)
PersistBreakers(seen, new) ==
    /\ Flush(seen, new)
    /\ ArmDrawdown(seen, new)

----------------------------------------------------------------------------
(* reset_consecutive_losses, after the human proof *)
ResetConsecutiveLosses ==
    /\ breaker.streak # 0 \/ breaker.paused # NoPause
    /\ breaker' = [breaker EXCEPT !.streak = 0, !.paused = NoPause]
    /\ UNCHANGED safetyVars

(* reset_drawdown_latch, after the human proof: refused while the book is  *)
(* still in drawdown or its equity cannot be computed.                     *)
ResetDrawdownLatch ==
    /\ breaker.latched
    /\ \E book \in Books : ~book.drawdown /\ ~book.ruined
    /\ breaker' = [breaker EXCEPT !.latched = FALSE]
    /\ UNCHANGED safetyVars

============================================================================
