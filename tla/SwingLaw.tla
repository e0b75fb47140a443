------------------------------- MODULE SwingLaw -------------------------------
(***************************************************************************)
(* The torque law of SWING_UP in the UART controller, from the sample to the *)
(* command: the energy law with the reserve it keeps near upright, the fade   *)
(* of torque that would push the arm further out, the startup nudge, the       *)
(* operator's settings, the clamp and the slew limit.  The law of BALANCE is  *)
(* any demand in its clamp.                                                   *)
(*                                                                           *)
(* The pendulum is in an eighth of a turn, 0 upright and as far as BALANCE goes *)
(* (kDropAngleRad is a little more than half of it), and -4 hanging, and a     *)
(* unit of its rate is half of what swings it up from the bottom; a unit of    *)
(* the arm is 0.22 rad, and of its rate 3 rad/s.  Torques are in 0.05 N m, and within the law in        *)
(* sevenths of it, rounded towards zero.  Elapsed time is counted by what the  *)
(* slew limit of SWING_UP credits for it: a unit of torque each.              *)
(***************************************************************************)
EXTENDS Integers

CONSTANTS
    ArmReach,               \* how far the arm travels before a trial ends
    GuardStart, GuardFull,  \* kSwingTravelGuardStartRad, kSwingTravelGuardFullRad
    SwingClamp, BalanceClamp, \* kSwingTorqueLimitNm, kTorqueLimitNm
    TopSpeed,               \* the largest rate of the pendulum
    NudgeTime,              \* kSwingStartupKickPhaseMs
    Elapses,                \* what may pass from a sample to the next
    Default, Limits,        \* kDefaultSwingSettings, kSwingSettingLimits
    Candidates              \* settings the operator may send

ASSUME SwingAssumption ==
    /\ ArmReach \in Nat /\ TopSpeed \in Nat /\ NudgeTime \in Nat
    /\ GuardStart \in Nat /\ GuardFull \in Nat /\ GuardStart < GuardFull
    /\ SwingClamp \in Nat /\ BalanceClamp \in 0 .. SwingClamp
    /\ Elapses \subseteq Nat \ {0}
    /\ {Default, Limits} \subseteq [gain : Nat, damping : Nat, centering : Nat,
                                    nudge : Nat, limit : Nat]
    /\ Candidates \subseteq [gain : Int, damping : Int, centering : Int,
                             nudge : Int, limit : Int]

VARIABLES
    law,        \* "off", "swing" or "balance"
    arm, eighth, \* state.arm_angle_rad, state.pendulum_angle_rad
    sinceStart, \* now - run_started_ms
    command,    \* commanded_torque_nm
    settings,   \* swing_settings
    outFor      \* history: how long the arm has been out of bounds, not returning

swingVars == <<law, arm, eighth, sinceStart, command, settings, outFor>>

Sevenths == 7
Size(n) == IF n < 0 THEN -n ELSE n
Smaller(a, b) == IF a < b THEN a ELSE b
Between(value, low, high) ==
    IF value < low THEN low ELSE IF value > high THEN high ELSE value

\* t * n / d, rounded towards zero.
Part(t, n, d) == IF t < 0 THEN -((Size(t) * n) \div d) ELSE (t * n) \div d

-----------------------------------------------------------------------------
(* The law *)

\* Tenths of the cosine of a pendulum angle.
Cosine(e) == <<10, 7, 0, -7, -10>>[Size(e) + 1]

\* The energy against upright at rest, in twentieths of what is to be swung up.
Energy(e, rate) == 5 * rate * rate + Cosine(e) - 10

\* swingApproachEnergyTarget()
Target(e, rate) ==
    IF Size(e) < 2 /\ e * rate < 0 THEN -Smaller(1, Size(rate)) ELSE 0

\* swingUpTorque() without its damping.
EnergyPart(e, rate) ==
    Part(settings.gain * (Target(e, rate) - Energy(e, rate)) * rate * Cosine(e), 1, 10)

\* outwardSwingScale(), in parts of the way from the one bound to the other.
OutwardScale(a, torque) ==
    IF a * torque <= 0 THEN GuardFull - GuardStart
    ELSE Between(GuardFull - Size(a), 0, GuardFull - GuardStart)

Restoring(a, armRate) == settings.damping * armRate + settings.centering * a

\* travelAwareSwingUpTorque()
TravelAware(a, armRate, e, rate) ==
    LET torque == EnergyPart(e, rate)
    IN  Part(torque, OutwardScale(a, torque), GuardFull - GuardStart)
        - Restoring(a, armRate)

\* The nudge at first, then the law, in the operator's clamp and the mode's.
SwingDemand(a, armRate, e, rate) ==
    LET limit == Smaller(settings.limit, Sevenths * SwingClamp)
        torque == IF sinceStart' < NudgeTime
                  THEN settings.nudge - Restoring(a, armRate)
                  ELSE TravelAware(a, armRate, e, rate)
    IN  Part(Between(torque, -limit, limit), 1, Sevenths)

\* A faulty variant: the slew limit of BALANCE in either mode.
SlewBalance(mode, elapsed) == (4 * elapsed) \div 15

\* The slew limits of 30 and 8 N m/s.
Slew(mode, elapsed) == IF mode = "swing" THEN elapsed ELSE (4 * elapsed) \div 15

Slewed(mode, demand, elapsed) ==
    Between(demand, command - Slew(mode, elapsed), command + Slew(mode, elapsed))

-----------------------------------------------------------------------------
(* Steps *)

\* The longest the slew limit takes to remove a torque.
LongestSlew == SwingClamp

\* A sample: the angles have gone the way of their rates, or hardly.
Moved(armRate, rate, elapsed) ==
    /\ arm' \in {arm, arm + armRate} \cap (-ArmReach .. ArmReach)
    /\ \E e \in {eighth, eighth + Between(rate, -1, 1)} : eighth' = ((e + 12) % 8) - 4
    /\ sinceStart' = Smaller(sinceStart + elapsed, NudgeTime)

Rates == {-1, 0, 1} \X (-TopSpeed .. TopSpeed)

Swings(armRate, rate, elapsed) ==
    /\ law' = "swing"
    /\ \E demand \in {SwingDemand(arm', armRate, eighth', rate)} :
        command' = Slewed("swing", demand, elapsed)
    /\ outFor' = IF sinceStart' >= NudgeTime /\ Size(arm') >= GuardFull
                    /\ arm' * armRate >= 0
                 THEN Smaller(outFor + elapsed, LongestSlew) ELSE 0

Balances(elapsed) ==
    /\ law' = "balance" /\ outFor' = 0
    /\ \E demand \in {-BalanceClamp, 0, BalanceClamp} :
        command' = Slewed("balance", demand, elapsed)

\* A tick of a trial.  A pendulum caught is upright and slow.
TickSwing ==
    /\ law # "off"
    /\ \E rates \in Rates, elapsed \in Elapses :
        /\ Moved(rates[1], rates[2], elapsed)
        /\ \/ eighth' # 0 /\ Swings(rates[1], rates[2], elapsed)
           \/ eighth' = 0 /\ law = "swing" /\ Swings(rates[1], rates[2], elapsed)
           \/ /\ eighth' = 0 /\ (law = "swing" => rates[2] = 0)
              /\ Balances(elapsed)
    /\ UNCHANGED settings

\* The hand-over of a centered arm and a pendulum at rest.
HandedOver ==
    /\ law = "off" /\ law' = "swing"
    /\ arm' = 0 /\ eighth' = -4 /\ sinceStart' = 0 /\ command' = 0 /\ outFor' = 0
    /\ UNCHANGED settings

TrialEnds ==
    /\ law # "off" /\ law' = "off" /\ command' = 0 /\ outFor' = 0
    /\ arm' = 0 /\ eighth' = -4 /\ sinceStart' = 0
    /\ UNCHANGED settings

\* swingSettingsWithinLimits()
WithinLimits(candidate) ==
    \A field \in DOMAIN Limits : candidate[field] \in 0 .. Limits[field]

SendSettings ==
    /\ law = "off"
    /\ settings' \in {candidate \in Candidates : WithinLimits(candidate)}
    /\ UNCHANGED <<law, arm, eighth, sinceStart, command, outFor>>

SwingInit ==
    /\ law = "off" /\ arm = 0 /\ eighth = -4 /\ sinceStart = 0 /\ command = 0
    /\ settings = Default /\ outFor = 0

SwingNext == TickSwing \/ HandedOver \/ TrialEnds \/ SendSettings

SwingSpec == SwingInit /\ [][SwingNext]_swingVars

-----------------------------------------------------------------------------
(* Properties *)

SwingTypeOK ==
    /\ law \in {"off", "swing", "balance"}
    /\ arm \in -ArmReach .. ArmReach /\ eighth \in -4 .. 3
    /\ sinceStart \in 0 .. NudgeTime /\ command \in -SwingClamp .. SwingClamp
    /\ settings \in Candidates \cup {Default} /\ outFor \in 0 .. LongestSlew

\* control_math.hpp:238 and config.hpp:202: an arm that has been beyond the guard
\* without coming back, for as long as the slew limit needs from the largest torque
\* to none, is not pushed further out, whatever the energy law asks for, whichever
\* settings the operator was allowed and whatever BALANCE commanded before.
GuardTakesOver == outFor >= LongestSlew => arm * command <= 0
=============================================================================
