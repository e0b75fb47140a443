------------------------------- MODULE MCParts -------------------------------
(***************************************************************************)
(* Six components that share no state, in one run: `part` is the one that    *)
(* moves, and the others stay as they begin.                                  *)
(***************************************************************************)
EXTENDS BrowserDeadman, Encoder, PositionHold, LegacyCan, UartLink, SwingLaw

VARIABLE part

partsVars == <<part, browserVars, encoderVars, holdVars, legacyVars, uartVars, swingVars>>

\* angularStepPlausible() for 13 counts and 5 ms, from hanging to upright.
Envelope == [d \in 0 .. 6 |-> <<413, 396, 346, 277, 203, 142, 107>>[d + 1]]

\* The settings of SWING_UP: the defaults, the limits, and two an operator may
\* send, of which the second is refused.
Set(gain, damping, centering, nudge, limit) ==
    [gain |-> gain, damping |-> damping, centering |-> centering,
     nudge |-> nudge, limit |-> limit]
Standard == Set(1, 13, 6, 22, 63)
Largest == Set(20, 420, 31, 42, 63)
Typed == {Set(20, 0, 0, 42, 63), Set(1, -13, 0, 0, 63)}

Page(A) ==
    /\ part = "page" /\ A
    /\ UNCHANGED <<part, encoderVars, holdVars, legacyVars, uartVars, swingVars>>
Estimator(A) ==
    /\ part = "encoder" /\ A
    /\ UNCHANGED <<part, browserVars, holdVars, legacyVars, uartVars, swingVars>>
Position(A) ==
    /\ part = "hold" /\ A
    /\ UNCHANGED <<part, browserVars, encoderVars, legacyVars, uartVars, swingVars>>
Legacy(A) ==
    /\ part = "legacy" /\ A
    /\ UNCHANGED <<part, browserVars, encoderVars, holdVars, uartVars, swingVars>>
Uart(A) ==
    /\ part = "uart" /\ A
    /\ UNCHANGED <<part, browserVars, encoderVars, holdVars, legacyVars, swingVars>>
Torque(A) ==
    /\ part = "swing" /\ A
    /\ UNCHANGED <<part, browserVars, encoderVars, holdVars, legacyVars, uartVars>>

PartsInit ==
    /\ part \in {"page", "encoder", "hold", "legacy", "uart", "swing"}
    /\ PageInit /\ HoldInit /\ LegacyInit /\ UartInit /\ SwingInit
    /\ EncoderInit /\ (part # "encoder" => pend = 0)

PartsNext ==
    \/ Page(Execute) \/ Page(Age) \/ Page(TickFaults) \/ Page(TrialFaults)
    \/ Page(Press) \/ Page(KeyUp) \/ Page(LoseFocus) \/ Page(GainFocus)
    \/ Page(Blur) \/ Page(Beat) \/ Page(Click) \/ Page(DisarmClick)
    \/ Page(Telemetry) \/ Page(Disconnect) \/ Page(Written) \/ Page(Rejected)
    \/ Page(Connect) \/ Page(Unplug) \/ Page(Plug) \/ Page(Vanish)
    \/ Estimator(Tick) \/ Estimator(Zero) \/ Estimator(Start) \/ Estimator(Stop)
    \/ Position(TickQuiet) \/ Position(TickFeedback) \/ Position(TickMiss)
    \/ Position(TickHealth) \/ Position(TickUnanswered) \/ Position(Rearm)
    \/ Legacy(Deliver) \/ Legacy(Drop) \/ Legacy(DriveFails)
    \/ Legacy(OnHeartbeat) \/ Legacy(OnFeedback)
    \/ Legacy(TickIdle) \/ Legacy(TickDrive) \/ Legacy(TickStops)
    \/ Legacy(TickUnhealthy) \/ Legacy(TickLate) \/ Legacy(ZeroCommand)
    \/ Legacy(ArmCommand) \/ Legacy(DisarmCommand) \/ Legacy(Switch) \/ Legacy(Reset)
    \/ Uart(Feedback) \/ Uart(ReadProperty)
    \/ Torque(TickSwing) \/ Torque(HandedOver) \/ Torque(TrialEnds) \/ Torque(SendSettings)

\* The loop of the Teensy, with its console and its clock, and of the legacy one,
\* with its bus.  Nothing is assumed about the page.
PartsFairness ==
    /\ WF_partsVars(Page(Execute \/ Age \/ TickFaults))
    /\ WF_partsVars(Legacy(Deliver \/ Drop))
    /\ WF_partsVars(Legacy(TickIdle \/ TickDrive \/ TickStops \/ TickUnhealthy
                           \/ TickLate))

PartsSpec == PartsInit /\ [][PartsNext]_partsVars /\ PartsFairness

\* The types of the six.
PartsTypeOK ==
    /\ PageTypeOK /\ EncoderTypeOK /\ HoldTypeOK /\ LegacyTypeOK /\ UartTypeOK
    /\ SwingTypeOK
=============================================================================
