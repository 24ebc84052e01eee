-------------------------------- MODULE Timer --------------------------------
(***************************************************************************)
(* The timers and the resets of the calendar (src/util/timer.go).          *)
(*                                                                         *)
(* A timer is polled with the time in ms, all of it in unsigned numbers    *)
(* below W = 2^64, which the clock and a duration together do not reach.   *)
(* The calendar counts hours from a Monday at 0:00 on, in one time zone    *)
(* without changes of the clock.                                           *)
(***************************************************************************)
EXTENDS Integers

CONSTANTS
    W,           \* 2^64
    Epoch,       \* the time the run starts at
    Durations,
    MaxMs,       \* bound: ms the clock advances
    FirstDays,   \* the days that are the first of a month
    MaxHour      \* bound: hours of the calendar

ASSUME TimerAssumption ==
    /\ W \in Nat /\ Epoch \in Nat /\ MaxMs \in Nat /\ MaxHour \in Nat
    /\ Epoch + MaxMs < W
    /\ Durations \subseteq Nat /\ \A d \in Durations : Epoch + MaxMs + d < W
    /\ FirstDays \subseteq Nat
    /\ \E d \in FirstDays : d > MaxHour \div 24  \* there is always a next month

VARIABLES
    tm,       \* the timer
    ms,       \* GetCurrentTime
    polled,   \* the last step was a call of IsExpired
    expired,  \* and what it returned
    started,  \* history: when the period it is in began
    leftover, \* history: what was left of it when it was suspended, 0 if it was not
    hour,     \* the hour it is
    stamp     \* an hour the application has read before

timers == <<tm, ms, polled, expired, started, leftover>>
calendar == <<hour, stamp>>

-----------------------------------------------------------------------------
(* OnceTimer and DurationTimer.                                             *)

Fresh(once, d, now) ==
    [once |-> once, ts |-> now, duration |-> d, cancel |-> FALSE, suspend |-> FALSE,
     resetTime |-> 0, fireNow |-> FALSE]

TimerInit ==
    /\ ms = Epoch /\ started = Epoch /\ polled = FALSE /\ expired = FALSE
    /\ tm = Fresh(TRUE, 0, Epoch) /\ leftover = 0

Minus(a, b) == (a - b + W) % W

MsPass ==
    /\ ms < Epoch + MaxMs
    /\ ms' = ms + 1 /\ polled' = FALSE /\ expired' = FALSE
    /\ UNCHANGED <<tm, started, leftover>>

Called(new, begin, left) ==
    /\ tm' = new /\ started' = begin /\ leftover' = left
    /\ polled' = FALSE /\ expired' = FALSE /\ UNCHANGED ms

\* NewOnceTimer and NewDurationTimer.
NewTimer(once, d) == Called(Fresh(once, d, ms), ms, 0)

Cancel == Called([tm EXCEPT !.cancel = TRUE, !.ts = 0, !.duration = 0, !.suspend = FALSE,
                            !.resetTime = 0], started, 0)

\* What Suspend keeps is the duration minus the time stamp.
RestOf(t, now) ==
    LET deltaT == Minus(t.duration, Minus(now, t.ts))
    IN  IF deltaT >= t.duration THEN 0 ELSE Minus(t.duration, t.ts)

Suspend ==
    Called([tm EXCEPT !.suspend = TRUE, !.resetTime = RestOf(tm, ms)], started,
           IF ms - started < tm.duration THEN tm.duration - (ms - started) ELSE 0)

Resume == Called([tm EXCEPT !.suspend = FALSE, !.ts = ms], ms, leftover)

\* Mutant: a repeated timer keeps the beat it had.
BugWithReset(d, fireNow) ==
    [tm EXCEPT !.ts = IF tm.once THEN ms ELSE @, !.duration = d, !.cancel = FALSE,
               !.fireNow = IF tm.once THEN @ ELSE fireNow]

\* Reset; neither timer clears what Suspend has set.
WithReset(d, fireNow) ==
    [tm EXCEPT !.ts = ms, !.duration = d, !.cancel = FALSE,
               !.fireNow = IF tm.once THEN @ ELSE fireNow]

TimerReset(d, fireNow) == Called(WithReset(d, fireNow), ms, 0)

Polled(new, result) ==
    /\ tm' = new /\ polled' = TRUE /\ expired' = result
    /\ started' = IF new.ts # tm.ts THEN ms ELSE started
    /\ leftover' = IF result THEN 0 ELSE leftover
    /\ UNCHANGED ms

\* The sums wrap around.
Due(t, d) == (t.ts + d) % W < ms

IsExpired ==
    LET due == Due(tm, tm.duration)
    IN  IF tm.cancel \/ tm.suspend THEN Polled(tm, FALSE)
        ELSE IF tm.resetTime > 0 THEN
            IF ~Due(tm, tm.resetTime) THEN Polled(tm, FALSE)
            ELSE IF tm.once THEN Polled([tm EXCEPT !.resetTime = 0], TRUE)
            ELSE Polled([WithReset(tm.duration, TRUE) EXCEPT !.resetTime = 0], TRUE)
        ELSE IF tm.once THEN Polled(tm, due)
        ELSE Polled([tm EXCEPT !.ts = IF due THEN ms ELSE @, !.fireNow = FALSE],
                    due \/ tm.fireNow)

TimerNext ==
    \/ MsPass \/ Cancel \/ Suspend \/ Resume \/ IsExpired
    \/ \E d \in Durations, b \in BOOLEAN : NewTimer(b, d) \/ TimerReset(d, b)

TimerSpec == TimerInit /\ [][TimerNext]_timers

-----------------------------------------------------------------------------
(* The resets at five o'clock.                                              *)

CalendarInit == hour = 0 /\ stamp = 0

HourPass == hour < MaxHour /\ hour' = hour + 1 /\ UNCHANGED stamp
Stamp == stamp' = hour /\ stamp # hour /\ UNCHANGED hour
CalendarNext == HourPass \/ Stamp
CalendarSpec == CalendarInit /\ [][CalendarNext]_calendar

Day(h) == h \div 24
HourOf(h) == h % 24
Weekday(h) == (Day(h) % 7) + 1
FiveOn(day) == 24 * day + 5

GetLatest5Hour(h) == IF HourOf(h) < 5 THEN FiveOn(Day(h)) ELSE FiveOn(Day(h) + 1)

\* Mutant: the hour from five on belongs to the week that ends.
BugGetLatestWeek5Hour(h) ==
    LET delDay == IF Weekday(h) # 1 THEN 7 - Weekday(h) + 1
                  ELSE IF HourOf(h) > 5 THEN 7 ELSE 0
    IN  FiveOn(Day(h) + delDay)

GetLatestWeek5Hour(h) ==
    LET delDay == IF Weekday(h) # 1 THEN 7 - Weekday(h) + 1
                  ELSE IF HourOf(h) >= 5 THEN 7 ELSE 0
    IN  FiveOn(Day(h) + delDay)

NextMonth(h) == CHOOSE d \in FirstDays : d > Day(h) /\ \A e \in FirstDays : e > Day(h) => d <= e

\* The clock is read at h, and a second time, at h2, by GetLatest5Hour.
GetLatestMonth5Hour(h, h2) ==
    IF Day(h) \in FirstDays /\ HourOf(h) < 5 THEN GetLatest5Hour(h2) ELSE FiveOn(NextMonth(h))

GetDurationDay1(t1, t2) == Day(t2) - Day(t1)

GetDurationDay2(t1, t2) ==
    GetDurationDay1(t1, t2) + (IF HourOf(t1) < 5 THEN 1 ELSE 0)
                            + (IF HourOf(t2) >= 5 THEN 1 ELSE 0)

-----------------------------------------------------------------------------
(* Properties.                                                              *)

\* A timer for which Suspend has kept nothing expires after its period and not
\* before, counted from its last reset, resumption or, if it repeats, expiry,
\* unless it was told to fire at once.
TimerOnTime ==
    [][polled' /\ tm.resetTime = 0 =>
         (expired' <=> /\ ~tm.cancel /\ ~tm.suspend
                       /\ tm.fireNow \/ ms - started > tm.duration)]_timers

\* What was left of the period when a timer was suspended is what it waits for
\* after it is resumed: resetTime is the time that remains, used after the
\* pause.  (The code does otherwise: the sum with the number that Suspend keeps
\* wraps around to the distant past, and the timer expires at the next poll.)
ResumeWaits ==
    [][expired' /\ leftover > 0 /\ ~tm.fireNow => ms - started > leftover]_timers

\* The next reset of a day or a week is the first one after now, one at this
\* very hour not counted.  So is that of a month, after the time the call began
\* at, unless it began on the first before five and five has passed when the
\* clock is read again: the answer is then the next five o'clock, on the second
\* or later.  GetDurationDay2 counts the days from five to five that two times
\* and all between them lie in.
CalendarAgrees ==
    LET FirstAfter(h, t, Is(_)) == t > h /\ Is(t) /\ \A u \in (h + 1)..(t - 1) : ~Is(u)
        Five(t) == HourOf(t) = 5
        Week(t) == Five(t) /\ Day(t) % 7 = 0
        Month(t) == Five(t) /\ Day(t) \in FirstDays
        month == GetLatestMonth5Hour(stamp, hour)
    IN  /\ FirstAfter(hour, GetLatest5Hour(hour), Five)
        /\ FirstAfter(hour, GetLatestWeek5Hour(hour), Week)
        /\ IF \E u \in (stamp + 1)..hour : Month(u) /\ Day(u) = Day(stamp)
           THEN FirstAfter(hour, month, Five)
           ELSE FirstAfter(stamp, month, Month)
        /\ GetDurationDay2(stamp, hour) = (hour - 5 + 24) \div 24 - (stamp - 5 + 24) \div 24 + 1
=============================================================================
