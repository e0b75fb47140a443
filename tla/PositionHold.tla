---------------------------- MODULE PositionHold ----------------------------
(***************************************************************************)
(* The schedule of the CENTERING and SETTLING modes of the UART controller,  *)
(* in half milliseconds: when a control tick starts, which transaction it    *)
(* makes and how long that blocks it, when it feeds the drive's watchdog and *)
(* what ends the mode.  A step is a tick, from the end of the one before.    *)
(***************************************************************************)
EXTENDS Integers, Sequences, FiniteSets

CONSTANTS
    Quick, Slow,  \* what a reply takes, and what it may take when it is slow
    MaxTroubles   \* slow or lost replies and lost samples between two feeds

ASSUME HoldAssumption ==
    /\ Quick \in 1 .. 9 /\ Slow \in 1 .. 18
    /\ MaxTroubles \in Nat

VARIABLES
    nextIn,     \* next_control_us, from now
    pollAge,    \* now - last_position_feedback_poll_ms
    healthAge,  \* now - last_health_poll_ms
    stampAge,   \* now - last_position_watchdog_feed_ms
    replyAge,   \* now - last_feedback_us
    unfed,      \* time since the drive's watchdog was fed
    missed,     \* consecutive_feedback_errors
    unanswered, \* consecutive_health_query_errors
    failures,   \* consecutive_encoder_errors
    late,       \* consecutive_deadline_misses
    holding,    \* the mode is CENTERING or SETTLING
    troubles,   \* history: troubles since the last feed
    gap, met    \* history: what unfed and troubles were when the tick could feed

ageVars == <<pollAge, healthAge, stampAge, replyAge>>
countVars == <<missed, unanswered, failures, late>>
holdVars == <<nextIn, ageVars, unfed, countVars, holding, troubles,
              gap, met>>

\* The constants of config.hpp, in half milliseconds, and its limits.
Period == 10           \* kControlPeriodUs
PollPeriod == 20       \* kPositionFeedbackPeriodMs
PollWindow == 18       \* kPositionFeedbackResponseTimeoutUs
ReplyLimit == 70       \* kPositionFeedbackTimeoutUs
MaxMissed == 3         \* kPositionMaximumConsecutiveFeedbackErrors
HealthPeriod == 400    \* kODriveHealthPollMs
HealthRetry == 20      \* kODriveHealthRetryMs
HealthWindow == 9      \* kUartResponseTimeoutUs
MaxUnanswered == 3     \* kMaximumConsecutiveHealthQueryErrors
FeedPeriod == 40       \* kSwingCenterWatchdogFeedPeriodMs
MaxFailures == 3       \* kMaximumConsecutiveEncoderErrors
MaxLate == 2           \* kMaximumConsecutiveDeadlineMisses
Watchdog == 100        \* kODriveWatchdogSeconds

-----------------------------------------------------------------------------
(* The loop *)

\* How long the loop waits for the tick, and how late it then is.
Waits == IF nextIn > 0 THEN nextIn ELSE 0
LateBy == IF nextIn < 0 THEN -nextIn ELSE 0

\* The schedule moves on by a period, from now when even that has passed.
Missed == LateBy >= Period

\* A faulty variant: the time lost is to be made up for.
NextAfterBacklog == Period - LateBy

NextAfter == IF Missed THEN Period ELSE Period - LateBy

\* An age at the start of the tick.
At(age) == age + Waits

HealthDue == At(healthAge) >= HealthPeriod

PollDue == At(pollAge) >= PollPeriod
FeedDue == At(stampAge) >= FeedPeriod

\* Everything ages by the wait and by the d the tick takes; an age that the
\* tick stamped is the d, or what the stamp says.
Aged(age, d) == age + Waits + d

\* A deadline missed once too often ends the mode before the tick's work.
TooLate == Missed /\ late + 1 >= MaxLate

-----------------------------------------------------------------------------
(* A tick after its transaction *)

Troubles(list) == Cardinality({n \in DOMAIN list : list[n]})

\* A tick that takes d: what ends the mode, and the feed of a tick that may.
\* stateIsHealthy() looks at the age of the feedback, in a tick with a sample, and
\* so does a missed request.
Ends(d, looks, sampled, list) ==
    /\ nextIn' = NextAfter - d
    /\ late' = IF Missed THEN late + 1 ELSE 0
    /\ failures' = IF sampled THEN 0 ELSE failures + 1
    /\ holding' = /\ ~TooLate /\ failures' < MaxFailures
                  /\ missed' < MaxMissed /\ unanswered' < MaxUnanswered
                  /\ looks => replyAge' <= ReplyLimit
    /\ troubles + Troubles(list) <= MaxTroubles

\* A feed comes after the transaction: gap is what the drive's watchdog has run to
\* by then, whether the tick feeds it or not.
Reaches(d, list) ==
    /\ gap' = Aged(unfed, d) /\ met' = troubles + Troubles(list)

\* A faulty variant: the stamp is set before it is known whether the tick feeds.
FeedsNotStamped(d, list) ==
    /\ Reaches(d, list)
    /\ unfed' = gap' /\ troubles' = met'
    /\ stampAge' = IF FeedDue THEN d ELSE Aged(stampAge, d)

Feeds(d, sampled, list) ==
    LET feeds == sampled /\ FeedDue /\ replyAge' <= ReplyLimit
    IN  /\ Reaches(d, list)
        /\ unfed' = IF feeds THEN 0 ELSE gap'
        /\ stampAge' = IF feeds THEN d ELSE Aged(stampAge, d)
        /\ troubles' = IF feeds THEN 0 ELSE met'

FeedsNot(d, list) ==
    /\ Reaches(d, list)
    /\ unfed' = gap' /\ stampAge' = Aged(stampAge, d) /\ troubles' = met'

-----------------------------------------------------------------------------
(* Ticks *)

\* A tick that owes no transaction.
TickQuiet ==
    /\ holding /\ ~HealthDue /\ ~PollDue
    /\ pollAge' = Aged(pollAge, 0) /\ healthAge' = Aged(healthAge, 0)
    /\ replyAge' = Aged(replyAge, 0)
    /\ UNCHANGED <<missed, unanswered>>
    /\ \E sampled \in BOOLEAN :
        /\ Feeds(0, sampled, <<~sampled>>)
        /\ Ends(0, sampled, sampled, <<~sampled>>)

\* A faulty variant: a reply does not end the run of misses.
TickFeedbackCounting ==
    /\ holding /\ ~HealthDue /\ PollDue
    /\ replyAge' = 0 /\ UNCHANGED <<missed, unanswered>>
    /\ \E sampled \in BOOLEAN, d \in {Quick, Slow} :
        /\ pollAge' = d /\ healthAge' = Aged(healthAge, d)
        /\ Feeds(d, sampled, <<~sampled, d # Quick>>)
        /\ Ends(d, sampled, sampled, <<~sampled, d # Quick>>)

TickFeedback ==
    /\ holding /\ ~HealthDue /\ PollDue
    /\ replyAge' = 0 /\ missed' = 0 /\ UNCHANGED unanswered
    /\ \E sampled \in BOOLEAN, d \in {Quick, Slow} :
        /\ pollAge' = d /\ healthAge' = Aged(healthAge, d)
        /\ Feeds(d, sampled, <<~sampled, d # Quick>>)
        /\ Ends(d, sampled, sampled, <<~sampled, d # Quick>>)

\* The request stays due; the tick samples, and does nothing with the sample.
TickMiss ==
    /\ holding /\ ~HealthDue /\ PollDue
    /\ pollAge' = Aged(pollAge, PollWindow)
    /\ healthAge' = Aged(healthAge, PollWindow)
    /\ replyAge' = Aged(replyAge, PollWindow)
    /\ missed' = missed + 1 /\ UNCHANGED unanswered
    /\ \E sampled \in BOOLEAN :
        /\ FeedsNot(PollWindow, <<TRUE, ~sampled>>)
        /\ Ends(PollWindow, TRUE, sampled, <<TRUE, ~sampled>>)

\* A health query takes the place of the feedback and of the feed.
TickHealth ==
    /\ holding /\ HealthDue
    /\ unanswered' = 0 /\ UNCHANGED missed
    /\ \E sampled \in BOOLEAN, d \in {Quick, HealthWindow} :
        /\ pollAge' = Aged(pollAge, d) /\ healthAge' = d
        /\ replyAge' = Aged(replyAge, d)
        /\ FeedsNot(d, <<~sampled, d # Quick>>)
        /\ Ends(d, sampled, sampled, <<~sampled, d # Quick>>)

\* One that is missed is repeated earlier than the next would be.
TickUnanswered ==
    /\ holding /\ HealthDue
    /\ unanswered' = unanswered + 1 /\ UNCHANGED missed
    /\ pollAge' = Aged(pollAge, HealthWindow)
    /\ healthAge' = HealthPeriod - HealthRetry + HealthWindow
    /\ replyAge' = Aged(replyAge, HealthWindow)
    /\ \E sampled \in BOOLEAN :
        /\ FeedsNot(HealthWindow, <<TRUE, ~sampled>>)
        /\ Ends(HealthWindow, sampled, sampled, <<TRUE, ~sampled>>)

\* armODrivePosition() ends with a feed and starts every schedule; it took longer
\* than a period, so the first deadline has passed.
HoldInit ==
    /\ nextIn = -Period
    /\ pollAge = 0 /\ healthAge = 0 /\ stampAge = 0 /\ replyAge = 0 /\ unfed = 0
    /\ missed = 0 /\ unanswered = 0 /\ failures = 0 /\ late = 0
    /\ holding = TRUE /\ troubles = 0 /\ gap = 0 /\ met = 0

\* The mode is entered anew.
Rearm ==
    /\ ~holding /\ holding' = TRUE
    /\ nextIn' = -Period /\ late' = 0 /\ failures' = 0 /\ troubles' = 0
    /\ pollAge' = 0 /\ healthAge' = 0 /\ stampAge' = 0 /\ replyAge' = 0
    /\ unfed' = 0 /\ missed' = 0 /\ unanswered' = 0 /\ gap' = 0 /\ met' = 0

HoldNext ==
    \/ TickQuiet \/ TickFeedback \/ TickMiss \/ TickHealth \/ TickUnanswered
    \/ Rearm

HoldSpec == HoldInit /\ [][HoldNext]_holdVars

-----------------------------------------------------------------------------
(* Properties *)

HoldTypeOK ==
    /\ nextIn \in -(Period + PollWindow) .. Period
    /\ \A age \in {pollAge, healthAge, stampAge, replyAge, unfed, gap} : age \in Nat
    /\ healthAge <= HealthPeriod + Period + 2 * PollWindow
    /\ missed \in 0 .. MaxMissed /\ unanswered \in 0 .. MaxUnanswered
    /\ failures \in 0 .. MaxFailures /\ late \in 0 .. MaxLate
    /\ holding \in BOOLEAN /\ troubles \in 0 .. MaxTroubles /\ met \in 0 .. MaxTroubles

\* main.cpp:835 and config.hpp:349: a feed reaches the drive, after its own tick's
\* transaction, before the 50 ms watchdog has expired, whatever one slow reply, lost
\* reply or lost sample comes between two feeds together with a health query that
\* takes the tick of the feed.  A second one may cost the watchdog's last margin: the
\* feed then comes 2 ms late at most.
HoldOutlastsTrouble ==
    /\ met <= 1 => gap < Watchdog
    /\ met <= 2 => gap <= Watchdog + 4

\* main.cpp:1564: a request may wait for longer than a control period, so the mode
\* makes its own ticks late; these delays never add up to the deadline fault.
OwnWaitsNotLate == ~TooLate

\* README.md:142: the mode ends after three troubles without a feed between them
\* or three unanswered health queries, and never for less.
HoldSurvives == ~holding => troubles >= 3 \/ unanswered = MaxUnanswered

\* main.cpp:556: when a health query has failed too often, feedback between the
\* attempts has proved that the position reference still exists.  (It has not: a
\* link that dies as the query falls due ends the mode this way.)
HealthFaultHasFeedback == unanswered = MaxUnanswered => missed < 2
=============================================================================
