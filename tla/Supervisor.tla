----------------------------- MODULE Supervisor -----------------------------
(***************************************************************************)
(* The supervisory controller of teensy_uart_web/src/main.cpp: the mode      *)
(* machine, the console commands and the whole control tick, with the drive, *)
(* the encoder and the browser as its environment.                           *)
(*                                                                           *)
(* Time is counted in control periods of 5 ms.  A timestamp of the program   *)
(* is kept as its age, and every age stops at AgeCap, which lies above all   *)
(* the limits an age is compared with.  Angles are in milliradians and rates *)
(* in milliradians per second, as in config.hpp; torques are in the units of *)
(* the CONSTANTS.  What the filters, the gains and the swing law compute is  *)
(* left open: a tick may find any pose of Poses and want any torque of       *)
(* Demands.  When a poll or a diagnostic read falls due is left open too.    *)
(***************************************************************************)
EXTENDS Integers

CONSTANTS
    Poses,          \* samples of the mechanism: [arm, armRate, pend, pendRate]
    Demands,        \* torques the control laws may ask for before any clamp
    UserLimits,     \* values swing_settings.torque_limit_nm may be given
    DefaultLimit,   \* its value at boot
    Failures,       \* what may go wrong, a subset of FailureKinds
    Delays,         \* idle time the loop may spend before a tick
    StopTime,       \* periods disarm() blocks the loop
    ClearTime,      \* periods clearODriveErrors() blocks the loop
    ArmTimes,       \* periods an arming sequence may block the loop
    HandoffTimes,   \* periods the torque-mode handoff may block the loop
    MaxBlock,       \* no arming sequence and no handoff is longer
    AutoEnabled,    \* kAutomaticSwingUpEnabled
    TuningLimit, BalanceLimit, SwingLimit, GuardedLimit,    \* torque clamps
    Slew, SwingSlew,    \* largest change of a command per period
    MaxSlewTicks,       \* the longest elapsed time the slew limit credits
    HoldTimeout, FbTimeout, PosFbTimeout, WatchdogTime, FeedPeriod,
    TuningMax, CenterMax, SettleMax, SettleHold, SwingMax,
    RecoverTime,    \* since the last accepted sample, when any sample is plausible
    AgeCap

FailureKinds ==
    {"spi", "outlier", "diagnostics", "magnet", "feedback", "health",
     "drive_error", "write", "arming"}

IsPose(p) == /\ p.arm \in Int /\ p.armRate \in Int
             /\ p.pend \in Int /\ p.pendRate \in Int

ASSUME PoseAssumption ==
    /\ Poses # {} /\ \A p \in Poses : IsPose(p)
    /\ Demands # {} /\ Demands \subseteq Int

ASSUME LimitAssumption ==
    /\ UserLimits \subseteq Nat /\ DefaultLimit \in UserLimits
    /\ TuningLimit \in Nat /\ BalanceLimit \in Nat
    /\ SwingLimit \in Nat /\ GuardedLimit \in Nat
    /\ TuningLimit <= BalanceLimit /\ BalanceLimit <= SwingLimit
    /\ GuardedLimit <= SwingLimit
    /\ Slew \in Nat /\ SwingSlew \in Nat /\ MaxSlewTicks \in Nat
    /\ 0 < Slew /\ Slew <= SwingSlew /\ 0 < MaxSlewTicks

ASSUME TimeAssumption ==
    /\ Delays \subseteq Nat /\ ArmTimes \subseteq 0 .. MaxBlock
    /\ HandoffTimes \subseteq 0 .. MaxBlock
    /\ StopTime \in Nat /\ ClearTime \in Nat /\ MaxBlock \in Nat
    /\ HoldTimeout \in Nat /\ FbTimeout \in Nat /\ PosFbTimeout \in Nat
    /\ WatchdogTime \in Nat /\ FeedPeriod \in Nat
    /\ TuningMax \in Nat /\ CenterMax \in Nat /\ SettleMax \in Nat
    /\ SettleHold \in Nat /\ SwingMax \in Nat
    /\ FbTimeout <= PosFbTimeout /\ RecoverTime \in Nat \ {0}
    /\ AgeCap \in Nat /\ AgeCap > HoldTimeout + MaxBlock + WatchdogTime
    /\ \A limit \in {FbTimeout, PosFbTimeout, FeedPeriod, TuningMax, CenterMax,
                      SettleMax, SettleHold, SwingMax} : limit < AgeCap

ASSUME SwitchAssumption ==
    /\ AutoEnabled \in BOOLEAN /\ Failures \subseteq FailureKinds

VARIABLES
    mode,           \* the controller mode
    guarded,        \* guarded_swing_trial
    zeroValid,      \* zero_valid
    fault,          \* why the fault was entered, "none" when there is none
    cmd,            \* commanded_torque_nm
    swingLimit,     \* swing_settings.torque_limit_nm
    pose,           \* state: the last accepted sample
    rateKnown,      \* pendulum_rate_initialized
    encoderHealthy, odriveOnline, activeErrors,
    encErrs,        \* consecutive_encoder_errors
    outliers,       \* consecutive_pendulum_step_outliers
    fbErrs,         \* consecutive_feedback_errors
    healthErrs,     \* consecutive_health_query_errors
    misses,         \* consecutive_deadline_misses
    holdAge,        \* since browser_deadman_ms; AgeCap once released
    fbAge,          \* since last_feedback_us
    phaseAge,       \* since the start of the phase a time limit is set on
    settleAge,      \* since swing_settle_ready_ms, NotSettled when it is 0
    sinceFeed,      \* since the drive's watchdog was fed, in a trial
    sinceTick,      \* since the last control tick began
    sampleAge       \* since last_valid_encoder_sample_us, up to RecoverTime

gateVars == <<mode, guarded, zeroValid, fault, cmd>>
linkVars == <<odriveOnline, activeErrors, fbErrs, healthErrs, fbAge>>
encVars == <<pose, rateKnown, encoderHealthy, encErrs, outliers>>
phaseVars == <<phaseAge, settleAge, sinceFeed>>
vars == <<mode, guarded, zeroValid, fault, cmd, swingLimit, pose, rateKnown,
          encoderHealthy, odriveOnline, activeErrors, encErrs, outliers,
          fbErrs, healthErrs, misses, holdAge, fbAge, phaseAge, settleAge,
          sinceFeed, sinceTick, sampleAge>>

-----------------------------------------------------------------------------
(* Modes and limits *)

Idle == {"DISARMED", "TEST"}
PositionModes == {"CENTERING", "SETTLING"}
EnergyModes == {"SWING_UP", "BALANCE"}
SwingModes == PositionModes \cup EnergyModes
TorqueModes == EnergyModes \cup {"TUNING"}
ActiveModes == SwingModes \cup {"TUNING"}
Modes == Idle \cup ActiveModes \cup {"FAULT"}

IsActive == mode \in ActiveModes
PositionManaged == mode \in PositionModes

MaxEncErrs == 3
MaxOutliers == 2
MaxMisses == 2
MaxHealthErrs == 3
MaxFbErrs == IF PositionManaged THEN 3 ELSE 2
\* A faulty variant: one freshness limit for every mode.
FbLimitShared == PosFbTimeout
FbLimit == IF PositionManaged THEN PosFbTimeout ELSE FbTimeout

\* A faulty variant: a stale dead-man costs the zero as well.
DeadmanCostsZero == {"encoder", "feedback", "drive_error", "handoff", "feed",
                     "torque_write", "deadman"}

\* Faults after which the saved zero can no longer be relied on.
Integrity == {"encoder", "feedback", "drive_error", "handoff", "feed",
              "torque_write"}
Motion == {"deadman", "travel", "arm_speed", "pendulum_speed", "health",
           "deadline", "time_limit", "catch_region", "arm_refused"}

NotSettled == -1

-----------------------------------------------------------------------------
(* Arithmetic *)

Abs(x) == IF x < 0 THEN -x ELSE x
Clamp(x, lo, hi) == IF x < lo THEN lo ELSE IF x > hi THEN hi ELSE x
Within(x, limit) == Clamp(x, -limit, limit)
SlewLimit(previous, requested, change) ==
    Clamp(requested, previous - change, previous + change)
Least(a, b) == IF a < b THEN a ELSE b
Elapsed(age, d) == IF age + d < AgeCap THEN age + d ELSE AgeCap
Count(n, limit) == IF n < limit THEN n + 1 ELSE limit

\* The age of the last accepted sample, d later.
SampleAged(d) == Least(sampleAge + d, RecoverTime)

HalfTurn == 3142
DownError(p) == Abs(Abs(p.pend) - HalfTurn)

\* The distance from centre, with what 80 ms at the present outward rate adds.
Outward(p) == CASE p.arm > 0 -> IF p.armRate > 0 THEN p.armRate ELSE 0
                [] p.arm < 0 -> IF p.armRate < 0 THEN -p.armRate ELSE 0
                [] OTHER -> Abs(p.armRate)
TravelExceeded(p) == 1000 * Abs(p.arm) + 80 * Outward(p) > 1000 * 2400

ArmTooFast(p) == Abs(p.armRate) > 9424
PendulumTooFast(p) == Abs(p.pendRate) > 50000
Still(p) == Abs(p.armRate) <= 200 /\ Abs(p.pendRate) <= 350
TuningStart(p) == Abs(p.pend) <= 140 /\ Abs(p.pendRate) <= 1000
TuningRegion(p) == Abs(p.pend) <= 320
SwingStartEnvelope(p) == /\ DownError(p) <= 800 /\ Abs(p.pendRate) <= 2000
                         /\ Abs(p.arm) <= 1750 /\ Abs(p.armRate) <= 500
Centered(p) == Abs(p.arm) < 20 /\ Abs(p.armRate) < 50
SettledPlace(p) == Abs(p.arm) < 20 /\ DownError(p) < 40
Catchable(p) == Abs(p.pend) < 140 /\ Abs(p.pendRate) < 1500
Dropped(p) == Abs(p.pend) > 450

-----------------------------------------------------------------------------
(* Entering a fault, stopping *)

\* enterFault(): zero torque and IDLE are requested, the trial is over.  Its
\* callers are never in FAULT already.
Trip(reason) ==
    /\ mode' = "FAULT" /\ guarded' = FALSE /\ fault' = reason
    /\ zeroValid' = (zeroValid /\ reason \notin Integrity)
    /\ cmd' = 0
    /\ phaseAge' = 0 /\ settleAge' = NotSettled /\ sinceFeed' = 0

\* A blocking command lets this much time pass before the next tick.
Block(t) ==
    /\ holdAge' = Elapsed(holdAge, t)
    /\ fbAge' = Elapsed(fbAge, t)
    /\ sinceTick' = Elapsed(sinceTick, t)
    /\ sampleAge' = SampleAged(t)

\* A faulty variant: disarm() forgets to end the guarded trial.
DisarmedStaysGuarded(acknowledge) ==
    /\ mode' = "DISARMED" /\ cmd' = 0
    /\ fault' = IF acknowledge THEN "none" ELSE fault
    /\ fbErrs' = 0 /\ healthErrs' = 0
    /\ phaseAge' = 0 /\ settleAge' = NotSettled /\ sinceFeed' = 0
    /\ UNCHANGED <<guarded, zeroValid, swingLimit, encVars, odriveOnline,
                   activeErrors, misses>>

\* disarm(): the same stop on purpose.  Acknowledging also forgets the reason.
Disarmed(acknowledge) ==
    /\ mode' = "DISARMED" /\ guarded' = FALSE /\ cmd' = 0
    /\ fault' = IF acknowledge THEN "none" ELSE fault
    /\ fbErrs' = 0 /\ healthErrs' = 0
    /\ phaseAge' = 0 /\ settleAge' = NotSettled /\ sinceFeed' = 0
    /\ UNCHANGED <<zeroValid, swingLimit, encVars, odriveOnline,
                   activeErrors, misses>>

-----------------------------------------------------------------------------
(* The control tick: what it measures *)

Diagnoses == {"skip", "good", "magnet", "diagnostics"}
Links == {"health", "health_lost", "feedback", "feedback_lost", "quiet"}
Samples == {"good", "outlier", "spi"}
FailureOf == [magnet |-> "magnet", diagnostics |-> "diagnostics",
              health_lost |-> "health", feedback_lost |-> "feedback",
              outlier |-> "outlier", spi |-> "spi"]
CanHappen(outcome) ==
    outcome \in DOMAIN FailureOf => FailureOf[outcome] \in Failures

\* loop(): a tick that starts a whole period late counts as a missed deadline.
Late(d) == sinceTick + d >= 2
MissesAfter(d) == IF Late(d) THEN Count(misses, MaxMisses) ELSE 0

\* A second miss in a row ends a trial before the tick polls anything.
Live(d) == IsActive /\ MissesAfter(d) < MaxMisses

Diagnose(diag) ==
    encoderHealthy' = CASE diag = "skip" -> encoderHealthy
                        [] diag = "good" -> TRUE
                        [] OTHER -> FALSE

\* A faulty variant: a failed read is not counted.
EncErrsUncounted(diag) == encErrs

\* The encoder error count a failed sample leaves behind.
EncErrsAfter(diag) ==
    IF diag = "diagnostics"
    THEN Count(Count(encErrs, MaxEncErrs), MaxEncErrs)
    ELSE Count(encErrs, MaxEncErrs)

\* sampleEncoder(): the step a sample may make grows with the time since the last
\* one that was accepted, until no sample that can be read is an outlier.
SampleEncoder(d, diag, smp) ==
    \/ /\ smp = "good"
       /\ pose' \in Poses /\ rateKnown' = TRUE
       /\ encErrs' = 0 /\ outliers' = 0
    \/ /\ smp = "outlier" /\ rateKnown /\ SampleAged(d) < RecoverTime
       /\ encErrs' = 0 /\ outliers' = Count(outliers, MaxOutliers)
       /\ UNCHANGED <<pose, rateKnown>>
    \/ /\ smp = "spi"
       /\ encErrs' = EncErrsAfter(diag) /\ outliers' = 0
       /\ UNCHANGED <<pose, rateKnown>>

\* A faulty variant: replies a stopped controller misses are counted too.
FbErrsAlwaysCounted(d, link) ==
    CASE link = "feedback" /\ Live(d) -> 0
      [] link = "feedback_lost" -> fbErrs + 1
      [] OTHER -> fbErrs

FbErrsAfter(d, link) ==
    CASE link = "feedback" /\ Live(d) -> 0
      [] link = "feedback_lost" /\ Live(d) -> fbErrs + 1
      [] OTHER -> fbErrs
HealthErrsAfter(d, link) ==
    CASE link = "health" -> 0
      [] link = "health_lost" -> IF Live(d) THEN healthErrs + 1 ELSE 0
      [] OTHER -> healthErrs
FbAgeAfter(d, link) == IF link = "feedback" THEN 0 ELSE Elapsed(fbAge, d)

\* Too many replies lost in a row, or the last one too long ago.
FeedbackGone(d, link) ==
    /\ link = "feedback_lost"
    /\ FbErrsAfter(d, link) >= MaxFbErrs \/ Elapsed(fbAge, d) > FbLimit

\* One UART transaction a tick.  A torque mode polls on every tick; a position
\* mode and a stopped controller also have ticks with nothing due.
PollDrive(d, link) ==
    /\ link = "quiet" => PositionManaged \/ ~Live(d)
    /\ activeErrors' \in
         CASE link # "health" -> {activeErrors}
           [] "drive_error" \in Failures -> {0, 1}
           [] OTHER -> {0}
    /\ odriveOnline' =
         CASE link \in {"health", "feedback"} -> TRUE
           [] link = "health_lost" -> Live(d) /\ odriveOnline
           [] link = "feedback_lost" ->
                Live(d) /\ odriveOnline /\ ~FeedbackGone(d, link)
           [] OTHER -> odriveOnline

\* Everything a tick does before it decides, and the time h it blocks after.
Sense(d, diag, link, smp, h) ==
    /\ sinceTick + d >= 1
    /\ CanHappen(diag) /\ CanHappen(link) /\ CanHappen(smp)
    /\ misses' = MissesAfter(d)
    /\ Diagnose(diag)
    /\ PollDrive(d, link)
    /\ SampleEncoder(d, diag, smp)
    /\ sampleAge' = IF smp = "good" THEN Least(h, RecoverTime)
                    ELSE SampleAged(d + h)
    /\ holdAge' = Elapsed(holdAge, d + h)
    /\ fbAge' = Elapsed(FbAgeAfter(d, link), h)
    /\ sinceTick' = h
    /\ UNCHANGED swingLimit

KeepCounts(d, link) ==
    /\ fbErrs' = FbErrsAfter(d, link)
    /\ healthErrs' = HealthErrsAfter(d, link)

-----------------------------------------------------------------------------
(* The control tick: what it decides *)

PhaseLimit == CASE mode = "TUNING" -> TuningMax
                [] mode = "CENTERING" -> CenterMax
                [] mode = "SETTLING" -> SettleMax
                [] OTHER -> SwingMax

\* A faulty variant: the phases have no time limit.
PhaseCauseUntimed(d) ==
    IF mode = "TUNING" /\ ~TuningRegion(pose') THEN "catch_region" ELSE "none"

\* The limits of the phase: its time, and in TUNING the catch region.
PhaseCause(d) ==
    IF (mode \in EnergyModes => guarded) /\ Elapsed(phaseAge, d) > PhaseLimit
    THEN "time_limit"
    ELSE IF mode = "TUNING" /\ ~TuningRegion(pose') THEN "catch_region"
    ELSE "none"

\* stateIsHealthy(), then the phase: the first trouble counts.  They are asked
\* of accepted samples only.
StateCause(d, link) ==
    IF Elapsed(holdAge, d) > HoldTimeout THEN "deadman"
    ELSE IF ~encoderHealthy' \/ encErrs' >= MaxEncErrs THEN "encoder"
    ELSE IF ~odriveOnline' \/ FbAgeAfter(d, link) > FbLimit THEN "feedback"
    ELSE IF activeErrors' # 0 THEN "drive_error"
    ELSE IF TravelExceeded(pose') THEN "travel"
    ELSE IF ArmTooFast(pose') THEN "arm_speed"
    ELSE IF mode # "SWING_UP" /\ PendulumTooFast(pose') THEN "pendulum_speed"
    ELSE PhaseCause(d)

\* A tick decides nothing new on a failed sample or a missed reply.
Usable(link, smp) == smp = "good" /\ link # "feedback_lost"

Cause(d, link, smp) ==
    IF misses' >= MaxMisses THEN "deadline"
    ELSE IF HealthErrsAfter(d, link) >= MaxHealthErrs THEN "health"
    ELSE IF FeedbackGone(d, link) THEN "feedback"
    ELSE IF outliers' >= MaxOutliers THEN "pendulum_speed"
    ELSE IF smp = "spi" /\ encErrs' >= MaxEncErrs THEN "encoder"
    ELSE IF Usable(link, smp) THEN StateCause(d, link)
    ELSE "none"

\* A stopped controller only polls.
TickStopped ==
    /\ ~IsActive
    /\ \E d \in Delays, diag \in Diagnoses, link \in Links, smp \in Samples :
          Sense(d, diag, link, smp, 0) /\ KeepCounts(d, link)
    /\ UNCHANGED <<gateVars, phaseVars>>

TickTrip ==
    /\ IsActive
    /\ \E d \in Delays, diag \in Diagnoses, link \in Links, smp \in Samples :
          /\ Sense(d, diag, link, smp, 0) /\ KeepCounts(d, link)
          /\ LET cause == Cause(d, link, smp)
             IN  cause # "none" /\ Trip(cause)

SettleOn(d) == IF settleAge = NotSettled THEN NotSettled
               ELSE Elapsed(settleAge, d)

\* A faulty variant: a tick that decides nothing still feeds the watchdog.
CoastFeeding ==
    /\ IsActive
    /\ \E d \in Delays, diag \in Diagnoses, link \in Links, smp \in Samples :
          /\ ~Usable(link, smp)
          /\ Sense(d, diag, link, smp, 0) /\ KeepCounts(d, link)
          /\ Cause(d, link, smp) = "none"
          /\ phaseAge' = Elapsed(phaseAge, d)
          /\ settleAge' = SettleOn(d)
          /\ sinceFeed' = 0
    /\ UNCHANGED gateVars

\* The last command stands, and the drive's watchdog runs on.
TickCoast ==
    /\ IsActive
    /\ \E d \in Delays, diag \in Diagnoses, link \in Links, smp \in Samples :
          /\ ~Usable(link, smp)
          /\ Sense(d, diag, link, smp, 0) /\ KeepCounts(d, link)
          /\ Cause(d, link, smp) = "none"
          /\ phaseAge' = Elapsed(phaseAge, d)
          /\ settleAge' = SettleOn(d)
          /\ sinceFeed' = Elapsed(sinceFeed, d)
    /\ UNCHANGED gateVars

\* What every deciding tick has in common.
Decide(d, diag, link, h) ==
    /\ link # "feedback_lost"
    /\ Sense(d, diag, link, "good", h)
    /\ Cause(d, link, "good") = "none"

-----------------------------------------------------------------------------
(* The control tick: what it commands *)

\* A faulty variant: a long stall earns an unlimited step.
SlewTicksUnlimited(d) == sinceTick + d
SlewTicks(d) == Least(sinceTick + d, MaxSlewTicks)

\* The command moves towards the torque wanted, and is written to the drive.
Command(wanted, slew, d) ==
    /\ cmd' = SlewLimit(cmd, wanted, slew * SlewTicks(d))
    /\ sinceFeed' = 0
    /\ phaseAge' = Elapsed(phaseAge, d)
    /\ UNCHANGED <<guarded, zeroValid, fault, settleAge>>

\* A faulty variant: tuning takes the commissioning clamp of BALANCE.
TuningUnderBalanceLimit ==
    /\ mode = "TUNING"
    /\ \E d \in Delays, diag \in Diagnoses, link \in Links, want \in Demands :
          /\ Decide(d, diag, link, 0) /\ KeepCounts(d, link)
          /\ Command(Within(want, BalanceLimit), Slew, d)
    /\ UNCHANGED mode

TickTuning ==
    /\ mode = "TUNING"
    /\ \E d \in Delays, diag \in Diagnoses, link \in Links, want \in Demands :
          /\ Decide(d, diag, link, 0) /\ KeepCounts(d, link)
          /\ Command(Within(want, TuningLimit), Slew, d)
    /\ UNCHANGED mode

\* The mode this tick commands in: a catch, a drop, or the mode it was.
EnergyMode ==
    CASE mode = "SWING_UP" /\ Catchable(pose') -> "BALANCE"
      [] mode = "BALANCE" /\ Dropped(pose') -> "SWING_UP"
      [] OTHER -> mode

\* A faulty variant: the swing clamp stays in force after a catch.
EnergyTorqueSwingOnly(want, m) ==
    LET law == IF m = "SWING_UP" THEN Within(want, Least(swingLimit, SwingLimit))
               ELSE want
        kept == IF guarded THEN Within(law, GuardedLimit) ELSE law
    IN  Within(kept, SwingLimit)

\* Any swing or balance law, inside the clamps that apply to it.
EnergyTorque(want, m) ==
    LET law == IF m = "SWING_UP" THEN Within(want, Least(swingLimit, SwingLimit))
               ELSE want
        kept == IF guarded THEN Within(law, GuardedLimit) ELSE law
    IN  Within(kept, IF m = "SWING_UP" THEN SwingLimit ELSE BalanceLimit)

TickEnergy ==
    /\ mode \in EnergyModes
    /\ \E d \in Delays, diag \in Diagnoses, link \in Links, want \in Demands :
          /\ Decide(d, diag, link, 0) /\ KeepCounts(d, link)
          /\ mode' = EnergyMode
          /\ Command(EnergyTorque(want, mode'),
                     IF mode' = "SWING_UP" THEN SwingSlew ELSE Slew, d)

\* The torque write of a tick did not go out.
TickWriteFails ==
    /\ mode \in TorqueModes /\ "write" \in Failures
    /\ \E d \in Delays, diag \in Diagnoses, link \in Links :
          Decide(d, diag, link, 0) /\ KeepCounts(d, link)
    /\ Trip("torque_write")

\* The position hold feeds the drive's watchdog, on ticks without a health poll.
FeedDue(d, link) == /\ link \notin {"health", "health_lost"}
                    /\ Elapsed(sinceFeed, d) >= FeedPeriod
Feed(d, link) ==
    sinceFeed' = IF FeedDue(d, link) THEN 0 ELSE Elapsed(sinceFeed, d)

TickFeedFails ==
    /\ PositionManaged /\ "write" \in Failures
    /\ \E d \in Delays, diag \in Diagnoses, link \in Links :
          /\ Decide(d, diag, link, 0) /\ KeepCounts(d, link)
          /\ FeedDue(d, link)
    /\ Trip("feed")

TickCentering ==
    /\ mode = "CENTERING"
    /\ \E d \in Delays, diag \in Diagnoses, link \in Links :
          /\ Decide(d, diag, link, 0) /\ KeepCounts(d, link)
          /\ Feed(d, link)
          /\ mode' = IF Centered(pose') THEN "SETTLING" ELSE mode
          /\ phaseAge' = IF Centered(pose') THEN 0 ELSE Elapsed(phaseAge, d)
    /\ cmd' = 0
    /\ UNCHANGED <<guarded, zeroValid, fault, settleAge>>

\* The settling gates: the place, and the slowly filtered rates (left open).
TickSettling ==
    /\ mode = "SETTLING"
    /\ \E d \in Delays, diag \in Diagnoses, link \in Links, quiet \in BOOLEAN :
          /\ Decide(d, diag, link, 0) /\ KeepCounts(d, link)
          /\ Feed(d, link)
          /\ phaseAge' = Elapsed(phaseAge, d)
          /\ \/ /\ ~(SettledPlace(pose') /\ quiet)
                /\ settleAge' = NotSettled
             \/ /\ SettledPlace(pose') /\ quiet
                /\ settleAge = NotSettled
                /\ settleAge' = 0
             \/ /\ SettledPlace(pose') /\ quiet
                /\ settleAge # NotSettled /\ SettleOn(d) < SettleHold
                /\ settleAge' = SettleOn(d)
    /\ cmd' = 0
    /\ UNCHANGED <<mode, guarded, zeroValid, fault>>

\* A hold that lasted long enough: the verified switch to torque control.
HandoffDue(d) == /\ mode = "SETTLING" /\ SettledPlace(pose')
                 /\ settleAge # NotSettled /\ SettleOn(d) >= SettleHold

TickHandoff ==
    /\ \E d \in Delays, diag \in Diagnoses, link \in Links, h \in HandoffTimes :
          /\ Decide(d, diag, link, h) /\ HandoffDue(d)
          /\ phaseAge' = h
    /\ mode' = "SWING_UP" /\ cmd' = 0
    /\ fbErrs' = 0 /\ healthErrs' = 0
    /\ settleAge' = NotSettled /\ sinceFeed' = 0
    /\ UNCHANGED <<guarded, zeroValid, fault>>

TickHandoffFails ==
    /\ "arming" \in Failures
    /\ \E d \in Delays, diag \in Diagnoses, link \in Links, h \in HandoffTimes :
          /\ Decide(d, diag, link, h) /\ KeepCounts(d, link) /\ HandoffDue(d)
    /\ Trip("handoff")

Tick == \/ TickStopped \/ TickTrip \/ TickCoast
        \/ TickTuning \/ TickEnergy \/ TickWriteFails
        \/ TickFeedFails \/ TickCentering \/ TickSettling
        \/ TickHandoff \/ TickHandoffFails

-----------------------------------------------------------------------------
(* The console commands *)

Disarm ==
    /\ Disarmed(TRUE)
    /\ Block(StopTime)

DeadmanHold ==
    /\ holdAge' = 0
    /\ UNCHANGED <<gateVars, swingLimit, encVars, linkVars, misses, phaseVars,
                   sinceTick, sampleAge>>

\* A released dead-man is as stale as one that was never held.
DeadmanRelease ==
    /\ holdAge' = AgeCap
    /\ \/ /\ IsActive
          /\ Disarmed(FALSE)
          /\ fbAge' = Elapsed(fbAge, StopTime)
          /\ sinceTick' = Elapsed(sinceTick, StopTime)
          /\ sampleAge' = SampleAged(StopTime)
       \/ /\ ~IsActive
          /\ UNCHANGED <<gateVars, swingLimit, encVars, linkVars, misses,
                         phaseVars, sinceTick, sampleAge>>

TestStart ==
    /\ mode \in Idle
    /\ mode' = "TEST" /\ cmd' = 0
    /\ UNCHANGED <<guarded, zeroValid, fault, swingLimit, encVars, linkVars,
                   misses, holdAge, phaseVars, sinceTick, sampleAge>>

TestStop ==
    /\ mode = "TEST"
    /\ Disarmed(FALSE)
    /\ Block(StopTime)

\* zeroSystem() trusts the last accepted sample, however old it is.
Zero ==
    /\ mode \in Idle
    /\ encoderHealthy /\ odriveOnline
    /\ Still(pose)
    /\ zeroValid' = TRUE /\ rateKnown' = TRUE /\ outliers' = 0
    /\ sampleAge' = 0
    /\ UNCHANGED <<mode, guarded, fault, cmd, swingLimit, pose, encoderHealthy,
                   encErrs, linkVars, misses, holdAge, phaseVars, sinceTick>>

SwingSettings ==
    /\ mode \in Idle
    /\ swingLimit' \in UserLimits
    /\ UNCHANGED <<gateVars, encVars, linkVars, misses, holdAge, phaseVars,
                   sinceTick, sampleAge>>

\* clearODriveErrors(): the write may fail, the answer may not come, and an
\* answer may name errors that remain.  A fault stays latched.
OdriveClear ==
    /\ ~IsActive
    /\ cmd' = 0
    /\ \/ /\ "write" \in Failures
          /\ odriveOnline' = FALSE /\ UNCHANGED activeErrors
          /\ Block(StopTime)
       \/ /\ "health" \in Failures
          /\ odriveOnline' = FALSE /\ UNCHANGED activeErrors
          /\ Block(ClearTime)
       \/ /\ odriveOnline' = TRUE
          /\ activeErrors' \in IF "drive_error" \in Failures THEN {0, 1} ELSE {0}
          /\ Block(ClearTime)
    /\ UNCHANGED <<mode, guarded, zeroValid, fault, swingLimit, encVars, fbErrs,
                   healthErrs, misses, phaseVars>>

\* A faulty variant: a trial may start without a saved zero.
SetupWithoutZero ==
    encoderHealthy /\ odriveOnline /\ holdAge <= HoldTimeout

\* The checks every start makes before it arms the drive.
SetupComplete ==
    /\ zeroValid /\ encoderHealthy /\ odriveOnline
    /\ holdAge <= HoldTimeout

\* A verified arming sequence ends with a feedback reply and a watchdog feed.
Armed(newMode, trial) ==
    /\ mode' = newMode /\ guarded' = trial /\ cmd' = 0
    /\ activeErrors' = 0 /\ odriveOnline' = TRUE
    /\ fbErrs' = 0 /\ healthErrs' = 0 /\ fbAge' = 0
    /\ phaseAge' = 0 /\ settleAge' = NotSettled /\ sinceFeed' = 0
    /\ UNCHANGED <<zeroValid, fault>>

\* One that fails anywhere leaves what it had read by then, and faults.
ArmingFails ==
    /\ "arming" \in Failures
    /\ activeErrors' \in {activeErrors, 0, 1}
    /\ UNCHANGED <<odriveOnline, fbErrs, healthErrs>>
    /\ Trip("arm_refused")

Arming(newMode, trial, t) ==
    /\ \/ Armed(newMode, trial)
       \/ ArmingFails /\ fbAge' \in {0, Elapsed(fbAge, t)}
    /\ holdAge' = Elapsed(holdAge, t)
    /\ sinceTick' = Elapsed(sinceTick, t)
    /\ sampleAge' = SampleAged(t)
    /\ UNCHANGED <<swingLimit, encVars, misses>>

TuneStart ==
    /\ mode \in Idle /\ SetupComplete
    /\ TuningStart(pose)
    /\ \E t \in ArmTimes : Arming("TUNING", FALSE, t)

SwingStart ==
    /\ mode = "DISARMED" /\ SetupComplete
    /\ SwingStartEnvelope(pose)
    /\ \E t \in ArmTimes : Arming("CENTERING", TRUE, t)

Arm ==
    /\ mode = "DISARMED" /\ AutoEnabled /\ SetupComplete
    /\ \E t \in ArmTimes : Arming("CENTERING", FALSE, t)

-----------------------------------------------------------------------------
(* The specification *)

\* setup(), with every global as it is initialised.
Init ==
    /\ mode = "DISARMED" /\ guarded = FALSE /\ zeroValid = FALSE
    /\ fault = "none" /\ cmd = 0 /\ swingLimit = DefaultLimit
    /\ pose = [arm |-> 0, armRate |-> 0, pend |-> 0, pendRate |-> 0]
    /\ rateKnown = FALSE
    /\ encoderHealthy = FALSE /\ odriveOnline = FALSE /\ activeErrors = 0
    /\ encErrs = 0 /\ outliers = 0 /\ fbErrs = 0 /\ healthErrs = 0 /\ misses = 0
    /\ holdAge = AgeCap /\ fbAge = AgeCap
    /\ phaseAge = 0 /\ settleAge = NotSettled /\ sinceFeed = 0 /\ sinceTick = 0
    /\ sampleAge = RecoverTime

Console == \/ Disarm \/ DeadmanHold \/ DeadmanRelease
           \/ TestStart \/ TestStop \/ Zero \/ SwingSettings \/ OdriveClear
           \/ TuneStart \/ SwingStart \/ Arm

Next == Tick \/ Console

Spec == Init /\ [][Next]_vars

\* loop() runs for ever, so a control tick always comes.
FairSpec == Spec /\ WF_vars(Tick)

-----------------------------------------------------------------------------
(* Properties *)

\* Every variable keeps its type; the error counts stay below the limits that
\* end a trial, and nothing counts past them.
TypeOK ==
    /\ mode \in Modes /\ guarded \in BOOLEAN /\ zeroValid \in BOOLEAN
    /\ fault \in Integrity \cup Motion \cup {"none"}
    /\ cmd \in Int /\ swingLimit \in UserLimits
    /\ IsPose(pose) /\ rateKnown \in BOOLEAN
    /\ encoderHealthy \in BOOLEAN /\ odriveOnline \in BOOLEAN
    /\ activeErrors \in {0, 1}
    /\ encErrs \in 0 .. MaxEncErrs /\ outliers \in 0 .. MaxOutliers
    /\ fbErrs \in 0 .. 3 /\ healthErrs \in 0 .. MaxHealthErrs
    /\ misses \in 0 .. MaxMisses
    /\ holdAge \in 0 .. AgeCap /\ fbAge \in 0 .. AgeCap
    /\ phaseAge \in 0 .. AgeCap /\ settleAge \in {NotSettled} \cup 0 .. AgeCap
    /\ sinceFeed \in 0 .. AgeCap /\ sinceTick \in 0 .. AgeCap
    /\ sampleAge \in 0 .. RecoverTime

\* No command leaves the clamp of its mode, whatever the control laws ask for
\* and whatever command the mode before left for the slew limit to start from:
\* tuning never exceeds its own low limit, swing and balance never the swing
\* limit, and a mode that does not command torque leaves none standing.
TorqueEnvelope ==
    /\ mode \in EnergyModes => Abs(cmd) <= SwingLimit
    /\ mode = "TUNING" => Abs(cmd) <= TuningLimit
    /\ mode \notin TorqueModes => cmd = 0

\* A trial under way always has a saved zero and no recorded fault: whatever
\* invalidates the zero also ends the trial.
TrialHasReference == IsActive => zeroValid /\ fault = "none"

\* While automatic swing-up is locked, the swing modes are exactly those of a
\* guarded trial, so the guarded time limit and clamp cover every one of them.
GuardedExactly == ~AutoEnabled => (guarded <=> mode \in SwingModes)

\* The backstop: as long as the drive's watchdog has not expired in a trial,
\* the last dead-man message is not older than its own timeout, the longest
\* blocking sequence and the watchdog time together, whatever the ticks skip.
WatchdogBackstop ==
    IsActive /\ sinceFeed <= WatchdogTime
        => holdAge <= HoldTimeout + MaxBlock + WatchdogTime

\* BALANCE commands above its own clamp, which the slew limit can leave after
\* a catch, only ever come down.
BalanceComesDown ==
    [][mode' = "BALANCE" /\ Abs(cmd') > BalanceLimit /\ cmd' # cmd
        => Abs(cmd') < Abs(cmd)]_vars

\* A tick moves the command, other than to zero, only on fresh inputs: a dead-
\* man in time, a healthy encoder with an accepted sample, a drive on line and
\* without errors, feedback of at most FbTimeout, and no second late tick.
FreshCommands ==
    [][cmd' # cmd /\ cmd' # 0 =>
        /\ holdAge' <= HoldTimeout /\ fbAge' <= FbTimeout
        /\ encoderHealthy' /\ encErrs' = 0 /\ outliers' = 0
        /\ odriveOnline' /\ activeErrors' = 0
        /\ misses' < MaxMisses]_vars

\* The saved zero is given up only with evidence that a reference was lost: a
\* bad encoder, a drive in error or out of reach, or a write that failed.  No
\* operator stop and no motion, timing or dead-man fault costs it.
ZeroLostOnEvidence ==
    [][zeroValid /\ ~zeroValid' =>
        \/ ~encoderHealthy' \/ encErrs' >= MaxEncErrs
        \/ ~odriveOnline' \/ fbAge' > FbTimeout \/ activeErrors' # 0
        \/ fault' \in {"handoff", "feed", "torque_write"}]_vars

\* How the modes map to the abstract gate.
GateOf(m) ==
    CASE m \in Idle -> "off"
      [] m \in PositionModes -> "prepare"
      [] m \in TorqueModes -> "drive"
      [] OTHER -> "fault"
GateState == GateOf(mode)

Gate == INSTANCE MotorGate
        WITH gate <- GateState, reference <- zeroValid, torque <- cmd,
             Limit <- SwingLimit, MaxStep <- SwingSlew * MaxSlewTicks,
             Restarts <- FALSE

\* The controller keeps the promise of MotorGate: a latched fault, torque only
\* out of a start or a hand-over at zero, and a bounded change per tick.
KeepsGate == Gate!Spec

\* A guarded or a tuning trial ends, whatever the operator does meanwhile.
TrialsEnd == (guarded \/ mode = "TUNING") ~> ~IsActive

\* A stale dead-man ends the trial unless a new message comes first.
StaleDeadmanEnds ==
    (IsActive /\ holdAge > HoldTimeout)
        ~> (~IsActive \/ holdAge <= HoldTimeout)

\* The balance clamp as the comment at main.cpp:788 and the README state it:
\* it applies as soon as the mode is BALANCE.  (Refuted.)
BalanceClampApplies == mode = "BALANCE" => Abs(cmd) <= BalanceLimit
=============================================================================
