------------------------------ MODULE LegacyCan ------------------------------
(***************************************************************************)
(* The legacy Teensy/CAN controller: its four modes, the ages of what the    *)
(* drive broadcasts, the stops, and the drive behind the bus.  Time is        *)
(* counted in control ticks.  The loop is one thread that also runs the CAN   *)
(* callbacks, so a callback, a command and a tick are a step each.  The pose  *)
(* is left open: any sample may show a catch, a drop or a limit exceeded.     *)
(* The drive is external, and has no watchdog of its own: the code sets none. *)
(***************************************************************************)
EXTENDS Integers, Sequences

CONSTANTS
    BeatLimit,     \* kHeartbeatTimeoutUs, in ticks
    FeedbackLimit, \* kFeedbackTimeoutUs, in ticks
    MaxFrames      \* frames on their way to the drive

ASSUME LegacyAssumption ==
    BeatLimit \in Nat /\ FeedbackLimit \in Nat /\ MaxFrames \in Nat

VARIABLES
    canMode,       \* mode
    zeroIsValid,   \* zero_is_valid
    estopClosed,   \* what digitalRead(kEstopPin) says
    beatAge,       \* now - drive.heartbeat_us
    feedbackAge,   \* now - drive.feedback_us
    axisError,     \* drive.heartbeat.Axis_Error != 0
    frames,        \* written and not yet received
    axis,          \* the drive: closed loop, error, torque
    stopsLost      \* history: frames of the last stop that were lost

legacyVars == <<canMode, zeroIsValid, estopClosed, beatAge, feedbackAge, axisError,
                frames, axis, stopsLost>>

Running == canMode \in {"SWING_UP", "BALANCE"}
Older(age, limit) == IF age <= limit THEN age + 1 ELSE age

\* A faulty variant: the drive is not told to stop pushing first.
StopFramesIdleOnly == <<"idle">>

StopFrames == <<"zero_torque", "idle">>
ArmFrames == <<"clear", "torque_mode", "closed_loop">>

-----------------------------------------------------------------------------
(* The bus and the drive *)

\* The axis after a frame.  In error it does not enter closed loop.
Received(frame) ==
    CASE frame = "clear" -> [axis EXCEPT !.error = FALSE]
      [] frame = "closed_loop" -> [axis EXCEPT !.closed = ~axis.error]
      [] frame = "idle" -> [axis EXCEPT !.closed = FALSE]
      [] frame \in {"push", "zero_torque"} ->
            [axis EXCEPT !.torque = (frame = "push")]
      [] OTHER -> axis

Deliver ==
    /\ frames # <<>> /\ frames' = Tail(frames)
    /\ axis' = Received(Head(frames))
    /\ UNCHANGED <<canMode, zeroIsValid, estopClosed, beatAge, feedbackAge,
                   axisError, stopsLost>>

\* A frame is lost, or its write was refused and nobody looked.  Until the drive is
\* armed again, the last frames written are those of the stop.
Drop ==
    /\ frames # <<>> /\ frames' = Tail(frames)
    /\ stopsLost' = IF ~Running /\ Len(frames) <= Len(StopFrames)
                    THEN stopsLost + 1 ELSE stopsLost
    /\ UNCHANGED <<canMode, zeroIsValid, estopClosed, beatAge, feedbackAge,
                   axisError, axis>>

\* The drive fails, and leaves closed loop by itself.
DriveFails ==
    /\ axis' = [axis EXCEPT !.closed = FALSE, !.error = TRUE]
    /\ UNCHANGED <<canMode, zeroIsValid, estopClosed, beatAge, feedbackAge,
                   axisError, frames, stopsLost>>

OnHeartbeat ==
    /\ beatAge' = 0 /\ axisError' = axis.error
    /\ UNCHANGED <<canMode, zeroIsValid, estopClosed, feedbackAge, frames, axis,
                   stopsLost>>

OnFeedback ==
    /\ feedbackAge' = 0
    /\ UNCHANGED <<canMode, zeroIsValid, estopClosed, beatAge, axisError, frames,
                   axis, stopsLost>>

-----------------------------------------------------------------------------
(* The control tick *)

Traffic == beatAge <= BeatLimit /\ feedbackAge <= FeedbackLimit

\* A faulty variant: the heartbeat is thought to be there if the feedback is.
HealthyUnbeaten == estopClosed /\ feedbackAge <= FeedbackLimit /\ ~axisError

\* healthy(), but for what the pose shows.
Healthy == estopClosed /\ Traffic /\ ~axisError

SendStop(mode) ==
    /\ canMode' = mode
    /\ frames' = frames \o StopFrames /\ stopsLost' = 0

\* enterFault(), which does nothing in FAULT: a stop is sent once.
EnterFault ==
    IF canMode = "FAULT" THEN UNCHANGED <<canMode, frames, stopsLost>>
    ELSE SendStop("FAULT")

BusRoom(n) == Len(frames) + n <= MaxFrames

\* Every tick; the drive is heard from again in between or not.
Ticks ==
    /\ BusRoom(3)
    /\ beatAge' = Older(beatAge, BeatLimit)
    /\ feedbackAge' = Older(feedbackAge, FeedbackLimit)
    /\ UNCHANGED <<zeroIsValid, estopClosed, axisError, axis>>

TickIdle == Ticks /\ ~Running /\ UNCHANGED <<canMode, frames, stopsLost>>

\* A catch or a drop, and a torque.
TickDrive ==
    /\ Ticks /\ Running /\ Healthy
    /\ canMode' \in {"SWING_UP", "BALANCE"}
    /\ \E torque \in {"push", "zero_torque"} : frames' = Append(frames, torque)
    /\ UNCHANGED stopsLost

\* The pose is beyond a limit, or the write of the torque is refused.
TickStops == Ticks /\ Running /\ EnterFault

TickUnhealthy == Ticks /\ Running /\ ~Healthy /\ EnterFault

\* The deadline is missed, in any mode.
TickLate == Ticks /\ EnterFault

-----------------------------------------------------------------------------
(* The console, the switch, a reset *)

ZeroCommand ==
    /\ canMode = "DISARMED" /\ zeroIsValid' = TRUE
    /\ UNCHANGED <<canMode, estopClosed, beatAge, feedbackAge, axisError, frames,
                   axis, stopsLost>>

\* No look at the error, nor at whether the drive does what it is told.
ArmCommand ==
    /\ canMode = "DISARMED" /\ zeroIsValid /\ estopClosed /\ Traffic /\ BusRoom(5)
    /\ canMode' = "SWING_UP" /\ frames' = frames \o ArmFrames
    /\ UNCHANGED <<zeroIsValid, estopClosed, beatAge, feedbackAge, axisError, axis,
                   stopsLost>>

DisarmCommand ==
    /\ BusRoom(3) /\ SendStop("DISARMED")
    /\ UNCHANGED <<zeroIsValid, estopClosed, beatAge, feedbackAge, axisError, axis>>

Switch ==
    /\ estopClosed' = ~estopClosed
    /\ UNCHANGED <<canMode, zeroIsValid, beatAge, feedbackAge, axisError, frames,
                   axis, stopsLost>>

\* setup(), which sends nothing.  The stamps are 0, and so is the clock.
Reset ==
    /\ canMode' = "DISARMED" /\ zeroIsValid' = FALSE
    /\ beatAge' = 0 /\ feedbackAge' = 0 /\ axisError' = FALSE
    /\ frames' = <<>> /\ stopsLost' = 2
    /\ UNCHANGED <<estopClosed, axis>>

LegacyInit ==
    /\ canMode = "DISARMED" /\ zeroIsValid = FALSE /\ estopClosed = TRUE
    /\ beatAge = 0 /\ feedbackAge = 0 /\ axisError = FALSE
    /\ frames = <<>> /\ stopsLost = 0
    /\ axis = [closed |-> FALSE, error |-> FALSE, torque |-> FALSE]

LegacyNext ==
    \/ Deliver \/ Drop \/ DriveFails \/ OnHeartbeat \/ OnFeedback
    \/ TickIdle \/ TickDrive \/ TickStops \/ TickUnhealthy \/ TickLate
    \/ ZeroCommand \/ ArmCommand \/ DisarmCommand \/ Switch \/ Reset

LegacySpec == LegacyInit /\ [][LegacyNext]_legacyVars

-----------------------------------------------------------------------------
(* Properties *)

LegacyTypeOK ==
    /\ canMode \in {"DISARMED", "SWING_UP", "BALANCE", "FAULT"}
    /\ {zeroIsValid, estopClosed, axisError} \subseteq BOOLEAN
    /\ beatAge \in 0 .. BeatLimit + 1 /\ feedbackAge \in 0 .. FeedbackLimit + 1
    /\ Len(frames) <= MaxFrames
    /\ axis \in [closed : BOOLEAN, error : BOOLEAN, torque : BOOLEAN]
    /\ stopsLost \in 0 .. 2

\* main.cpp:41: a fault or a disarm stops the motor although it is sent once and
\* not confirmed, and although a torque, an arming or an earlier stop may still be
\* on the bus in front of it: one of its two frames is enough.
OneFrameStops ==
    ~Running /\ frames = <<>> /\ stopsLost <= 1 =>
        ~(axis.closed /\ axis.torque)

\* main.cpp:96: an open E-stop loop, and a drive in error even if it is silent from
\* then on, end a trial.
LegacyTroubleEnds ==
    Running /\ (~estopClosed \/ axis.error) ~>
        ~Running \/ (estopClosed /\ ~axis.error)
=============================================================================
