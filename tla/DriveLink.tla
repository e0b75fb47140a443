------------------------------ MODULE DriveLink ------------------------------
(***************************************************************************)
(* How teensy_uart_web/src/main.cpp arms, hands over and stops the ODrive:  *)
(* the exact order of its UART writes and read-backs, one message a step,    *)
(* against the axis they act on.  A write may be lost on the wire without    *)
(* the controller noticing, and so may a reply; the axis may fail on its     *)
(* own, its watchdog may expire, and the Teensy may restart at any point.    *)
(*                                                                           *)
(* The axis is external.  It is modelled by what the code and its comments   *)
(* rely on: a command c makes the axis torque-controlled, c, q and u feed    *)
(* the watchdog, an axis with an error does not enter closed loop, and an    *)
(* expired watchdog is an error.  Properties that are written, read back and *)
(* compared alike are represented by the two the comments reason about, the  *)
(* velocity limit and gain.                                                  *)
(***************************************************************************)
EXTENDS Integers, Sequences

CONSTANTS
    MaxLost,    \* messages that may be lost while one sequence runs
    ExpireTime, \* waits without a feed after which the watchdog expires
    MaxHealthErrs   \* kMaximumConsecutiveHealthQueryErrors

ASSUME LinkAssumption ==
    MaxLost \in Nat /\ ExpireTime \in Nat \ {0} /\ MaxHealthErrs \in Nat \ {0}

VARIABLES
    ctl,        \* what the controller takes the trial to be
    task,       \* the sequence it is running, "none" when it is not
    at,         \* the step of that sequence that comes next
    bad,        \* a value read back differs from the one expected
    lost,       \* messages lost since the sequence began
    healthErrs, \* consecutive_health_query_errors
    seen,       \* odrive_active_errors # 0, kept for the trial that polls it
    axis,       \* the drive
    unfed       \* waits since the drive's watchdog was fed

vars == <<ctl, task, at, bad, lost, healthErrs, seen, axis, unfed>>

Trials == {"tuning", "hold", "swing"}
Stopped == {"off", "fault"}
InTrial == task = "none" /\ ctl \in Trials

-----------------------------------------------------------------------------
(* The sequences *)

Torque(t) == [op |-> "c", val |-> t]
Position(target) == [op |-> "q", val |-> target]
ClearErrors == [op |-> "sc"]
Write(prop, val) == [op |-> "w", prop |-> prop, val |-> val]
Read(prop, val) == [op |-> "r", prop |-> prop, val |-> val]
Feedback == [op |-> "f"]
Check == [op |-> "check"]       \* compare everything read so far
IfIdle == [op |-> "idle?"]      \* go on only if the axis says it is idle

\* A faulty variant: the watchdog is switched off before the motor.
IdleWatchdogFirst ==
    <<Write("watchdog", FALSE), Torque(0), Write("closed", FALSE)>>
\* A faulty variant: IDLE is requested without zero torque.
IdleWithoutTorque == <<Write("closed", FALSE), Write("watchdog", FALSE)>>

\* requestIdle()
IdleRequest == <<Torque(0), Write("closed", FALSE), Write("watchdog", FALSE)>>

\* A faulty variant: closed loop is requested and not verified.
TorqueArmingUnverified ==
    <<Write("watchdog", FALSE), ClearErrors,
      Write("input", "passthrough"), Write("control", "torque"),
      Torque(0), Write("closed", TRUE),
      Read("control", "torque"), Read("input", "passthrough"),
      Read("error", FALSE), Check,
      Write("watchdog", TRUE), Torque(0), Read("watchdog", TRUE), Check,
      Feedback, Torque(0)>>

\* A faulty variant: arming writes its zero torque once, before the loop closes.
TorqueArmingOneZero ==
    <<Write("watchdog", FALSE), ClearErrors,
      Write("input", "passthrough"), Write("control", "torque"),
      Torque(0), Write("closed", TRUE),
      Read("control", "torque"), Read("input", "passthrough"),
      Read("closed", TRUE), Read("error", FALSE), Check,
      Write("watchdog", TRUE), Read("watchdog", TRUE), Check, Feedback>>

TorqueArming ==
    <<Write("watchdog", FALSE), ClearErrors,
      Write("input", "passthrough"), Write("control", "torque"),
      Torque(0), Write("closed", TRUE),
      Read("control", "torque"), Read("input", "passthrough"),
      Read("closed", TRUE), Read("error", FALSE), Check,
      Write("watchdog", TRUE), Torque(0), Read("watchdog", TRUE), Check,
      Feedback, Torque(0)>>

PositionArming ==
    <<Write("watchdog", FALSE), ClearErrors,
      Write("limit", "center"), Write("gain", "center"),
      Write("input", "filtered"), Write("control", "position"),
      Position("here"), Write("closed", TRUE),
      Read("control", "position"), Read("input", "filtered"),
      Read("closed", TRUE), Read("error", FALSE),
      Read("limit", "center"), Read("gain", "center"), Check,
      Write("watchdog", TRUE), Position("zero"),
      Read("watchdog", TRUE), Position("zero"), Read("target", "zero"), Check,
      Feedback, Position("zero")>>

\* switchODriveToTorqueControl(): a feed after every read.
Handoff ==
    <<Write("input", "passthrough"), Torque(0),
      Write("limit", "swing"), Write("gain", "swing"), Torque(0),
      Read("control", "torque"), Torque(0),
      Read("input", "passthrough"), Torque(0),
      Read("limit", "swing"), Torque(0), Read("gain", "swing"), Torque(0),
      Check>>

\* A refused sequence stops the axis itself, and enterFault() does it again.
Steps == [tune |-> TorqueArming, swing |-> PositionArming, handoff |-> Handoff,
          refuse |-> IdleRequest \o IdleRequest,
          fault |-> IdleRequest, idle |-> IdleRequest,
          disarm |-> IdleRequest \o <<IfIdle, Write("watchdog", FALSE)>>,
          clear |-> IdleRequest \o <<ClearErrors, Read("error", FALSE)>>]

\* What the controller takes the trial to be once a sequence is through.
Outcome == [tune |-> "tuning", swing |-> "hold", handoff |-> "swing",
            refuse |-> "fault", fault |-> "fault", idle |-> "off",
            disarm |-> "off", clear |-> ctl]

-----------------------------------------------------------------------------
(* The axis *)

\* What a message does to the axis.
Applied(a, m) ==
    CASE m.op = "c" -> [a EXCEPT !.torque = m.val, !.control = "torque"]
      [] m.op = "q" -> [a EXCEPT !.target = m.val]
      [] m.op = "sc" -> [a EXCEPT !.error = FALSE]
      [] m.op = "w" /\ m.prop = "closed" ->
            [a EXCEPT !.closed = m.val /\ ~a.error]
      [] m.op = "w" /\ m.prop # "closed" -> [a EXCEPT ![m.prop] = m.val]
      [] OTHER -> a
Feeds(m) == m.op \in {"c", "q", "u"} \/ (m.op = "w" /\ m.prop = "watchdog")

Waited == IF unfed < ExpireTime THEN unfed + 1 ELSE unfed
ExpiryDue == axis.closed /\ axis.watchdog /\ unfed = ExpireTime

\* The axis turns the motor, or would: a torque, or a position loop.
Pushing == axis.closed /\ (axis.torque # 0 \/ axis.control = "position")

Expire ==
    /\ ExpiryDue
    /\ axis' = [axis EXCEPT !.closed = FALSE, !.error = TRUE]
    /\ UNCHANGED <<ctl, task, at, bad, lost, healthErrs, seen, unfed>>

AxisFails ==
    /\ ~axis.error
    /\ axis' = [axis EXCEPT !.closed = FALSE, !.error = TRUE]
    /\ UNCHANGED <<ctl, task, at, bad, lost, healthErrs, seen, unfed>>

-----------------------------------------------------------------------------
(* Running a sequence *)

Running == task # "none" /\ at <= Len(Steps[task])
Message == Steps[task][at]

Begin(name) == task' = name /\ at' = 1 /\ bad' = FALSE /\ lost' = 0
GiveUp == at' = Len(Steps[task]) + 1

Lose == lost < MaxLost /\ lost' = lost + 1

Send ==
    /\ Running /\ ~ExpiryDue
    /\ Message.op \in {"c", "q", "sc", "w"}
    /\ \/ /\ axis' = Applied(axis, Message)
          /\ unfed' = IF Feeds(Message) THEN 0 ELSE unfed
          /\ UNCHANGED lost
       \/ Lose /\ UNCHANGED <<axis, unfed>>
    /\ at' = at + 1
    /\ UNCHANGED <<ctl, task, bad, healthErrs, seen>>

\* A read-back the sequence waits for.
Receive ==
    /\ Running /\ ~ExpiryDue
    /\ Message.op \in {"r", "f"}
    /\ bad' = (bad \/ /\ Message.op = "r"
                      /\ axis[Message.prop] # Message.val)
    /\ unfed' = Waited
    /\ at' = at + 1
    /\ UNCHANGED <<ctl, task, lost, healthErrs, seen, axis>>

\* disarm() switches the watchdog off once more if the axis says it is idle.
AskIdle ==
    /\ Running /\ ~ExpiryDue
    /\ Message.op = "idle?"
    /\ \/ axis.closed /\ GiveUp /\ UNCHANGED lost
       \/ ~axis.closed /\ at' = at + 1 /\ UNCHANGED lost
       \/ Lose /\ GiveUp
    /\ unfed' = Waited
    /\ UNCHANGED <<ctl, task, bad, healthErrs, seen, axis>>

Verify ==
    /\ Running /\ Message.op = "check" /\ ~bad
    /\ at' = at + 1
    /\ UNCHANGED <<ctl, task, bad, lost, healthErrs, seen, axis, unfed>>

\* No answer, or one that differs: the sequence is refused.
Refuse ==
    /\ task \in {"tune", "swing", "handoff"}
    /\ Running /\ ~ExpiryDue
    /\ \/ Message.op = "check" /\ bad
       \/ Message.op \in {"r", "f"} /\ lost < MaxLost
    /\ unfed' = IF Message.op = "check" THEN unfed ELSE Waited
    /\ Begin("refuse")
    /\ UNCHANGED <<ctl, healthErrs, seen, axis>>

\* clearODriveErrors() gives up without an answer.
NoAnswer ==
    /\ task = "clear" /\ Running /\ Message.op = "r"
    /\ Lose
    /\ GiveUp
    /\ unfed' = Waited
    /\ UNCHANGED <<ctl, task, bad, healthErrs, seen, axis>>

Finish ==
    /\ task # "none" /\ ~Running
    /\ ctl' = Outcome[task] /\ task' = "none"
    /\ healthErrs' = IF task \in {"tune", "swing", "handoff", "disarm"}
                     THEN 0 ELSE healthErrs
    /\ bad' = FALSE /\ seen' = FALSE
    /\ UNCHANGED <<at, lost, axis, unfed>>

Sequence == Send \/ Receive \/ AskIdle \/ Verify \/ Refuse \/ NoAnswer \/ Finish

-----------------------------------------------------------------------------
(* The controller between the sequences *)

StartTuning == /\ task = "none" /\ ctl = "off" /\ Begin("tune")
               /\ UNCHANGED <<ctl, healthErrs, seen, axis, unfed>>
StartSwing == /\ task = "none" /\ ctl = "off" /\ Begin("swing")
              /\ UNCHANGED <<ctl, healthErrs, seen, axis, unfed>>
HandOver == /\ task = "none" /\ ctl = "hold" /\ ~seen /\ Begin("handoff")
            /\ UNCHANGED <<ctl, healthErrs, seen, axis, unfed>>
TestStart == /\ task = "none" /\ ctl = "off" /\ Begin("idle")
             /\ UNCHANGED <<ctl, healthErrs, seen, axis, unfed>>
ClearFaults == /\ task = "none" /\ ctl \in Stopped /\ Begin("clear")
               /\ UNCHANGED <<ctl, healthErrs, seen, axis, unfed>>
Disarm == /\ task = "none" /\ Begin("disarm")
          /\ UNCHANGED <<ctl, healthErrs, seen, axis, unfed>>
\* Any cause stateIsHealthy() or the phase finds, the error that a poll has
\* seen among them.
TripTrial == /\ InTrial /\ Begin("fault")
             /\ UNCHANGED <<ctl, healthErrs, seen, axis, unfed>>

\* One tick of a trial: a torque, or in the hold a bare feed.  A tick that knows
\* of an error sends neither; a message lost, or none, leaves the axis as it is.
TickTrial ==
    /\ InTrial /\ ~ExpiryDue
    /\ \/ /\ ctl # "hold" /\ ~seen
          /\ \E t \in {0, 1} : axis' = Applied(axis, Torque(t))
          /\ unfed' = 0
       \/ ctl = "hold" /\ ~seen /\ unfed' = 0 /\ UNCHANGED axis
       \/ unfed' = Waited /\ UNCHANGED axis
    /\ UNCHANGED <<ctl, task, at, bad, lost, healthErrs, seen>>

HealthLost == healthErrs' = healthErrs + 1 /\ UNCHANGED seen
\* stateIsHealthy() finds the error in this tick, or is not reached in it.
HealthAnswered ==
    /\ healthErrs' = 0 /\ seen' = axis.error
    /\ \/ seen' /\ Begin("fault")
       \/ UNCHANGED <<task, at, bad, lost>>

\* A faulty variant: the answer of a health poll is not looked at.
HealthPollUnread ==
    /\ InTrial /\ ~ExpiryDue
    /\ \/ healthErrs' = 0 /\ UNCHANGED <<task, at, bad, lost, seen>>
       \/ /\ HealthLost
          /\ IF healthErrs' >= MaxHealthErrs THEN Begin("fault")
             ELSE UNCHANGED <<task, at, bad, lost>>
    /\ unfed' = Waited
    /\ UNCHANGED <<ctl, axis>>

\* A faulty variant: the count may pass its limit.
HealthPollOneMore ==
    /\ InTrial /\ ~ExpiryDue
    /\ \/ HealthAnswered
       \/ /\ HealthLost
          /\ IF healthErrs' > MaxHealthErrs THEN Begin("fault")
             ELSE UNCHANGED <<task, at, bad, lost>>
    /\ unfed' = Waited
    /\ UNCHANGED <<ctl, axis>>

\* pollODriveHealth() in a trial: an error is kept for the tick that decides,
\* and too many lost answers end the trial at once.
HealthPoll ==
    /\ InTrial /\ ~ExpiryDue
    /\ \/ HealthAnswered
       \/ /\ HealthLost
          /\ IF healthErrs' >= MaxHealthErrs THEN Begin("fault")
             ELSE UNCHANGED <<task, at, bad, lost>>
    /\ unfed' = Waited
    /\ UNCHANGED <<ctl, axis>>

\* The Teensy restarts, whatever it was doing, and setup() asks for IDLE.
Restart ==
    /\ Begin("idle")
    /\ ctl' = "off" /\ healthErrs' = 0 /\ seen' = FALSE
    /\ UNCHANGED <<axis, unfed>>

Init ==
    /\ ctl = "off" /\ task = "idle" /\ at = 1
    /\ bad = FALSE /\ lost = 0 /\ healthErrs = 0 /\ seen = FALSE
    /\ axis = [closed |-> FALSE, control |-> "torque", input |-> "passthrough",
               limit |-> "saved", gain |-> "saved", watchdog |-> FALSE,
               error |-> FALSE, torque |-> 0, target |-> "none"]
    /\ unfed = 0

Next == \/ Sequence
        \/ StartTuning \/ StartSwing \/ HandOver \/ TestStart \/ ClearFaults
        \/ Disarm \/ TripTrial \/ TickTrial \/ HealthPoll \/ Restart
        \/ Expire \/ AxisFails

Spec == Init /\ [][Next]_vars

\* The controller never stops, and polls again and again; a watchdog that is
\* due expires.  Nothing else has to happen.
FairSpec == Spec /\ WF_vars(Sequence) /\ WF_vars(HealthPoll) /\ WF_vars(Expire)

-----------------------------------------------------------------------------
(* Properties *)

TypeOK ==
    /\ ctl \in Trials \cup Stopped
    /\ task \in DOMAIN Steps \cup {"none"}
    /\ at \in Nat \ {0} /\ (task # "none" => at <= Len(Steps[task]) + 1)
    /\ bad \in BOOLEAN /\ seen \in BOOLEAN /\ lost \in 0 .. MaxLost
    /\ healthErrs \in 0 .. MaxHealthErrs /\ unfed \in 0 .. ExpireTime
    /\ axis \in [closed : BOOLEAN, control : {"torque", "position"},
                 input : {"passthrough", "filtered"},
                 limit : {"saved", "center", "swing"},
                 gain : {"saved", "center", "swing"},
                 watchdog : BOOLEAN, error : BOOLEAN, torque : {0, 1},
                 target : {"none", "here", "zero"}]

\* What the read-backs are for: in a trial the axis is in the very state and
\* modes the trial needs, with its watchdog on, whatever writes were lost on the
\* way, unless it has reported an error since.
ModeFits ==
    /\ axis.closed /\ axis.watchdog
    /\ ctl = "hold" => /\ axis.control = "position" /\ axis.input = "filtered"
                       /\ axis.target = "zero"
    /\ ctl \in {"tuning", "swing"} => /\ axis.control = "torque"
                                      /\ axis.input = "passthrough"
    /\ ctl = "swing" => axis.limit = "swing" /\ axis.gain = "swing"
VerifiedTrial == InTrial => axis.error \/ ModeFits

\* A stop survives the loss of any one of its messages: the zero torque and the
\* IDLE request cover for each other.
OneLossStops == task = "none" /\ ctl \in Stopped /\ lost <= 1 => ~Pushing

\* The order of requestIdle(): the watchdog goes last, so that no message takes
\* it away from a closed loop that still holds a torque.  (With two messages of
\* one stop lost it does: StopFallback.)
TorqueKeepsWatchdog ==
    [][axis.closed /\ axis.torque # 0 /\ axis.watchdog /\ axis'.closed
        => axis'.watchdog]_vars

\* The zero torques of armODriveTorque() and switchODriveToTorqueControl():
\* a trial that commands torque finds none standing from an earlier stop, unless
\* all three of an arming's were lost.  A hand-over needs no such exception: the
\* torque control that it reads back can only have come with a zero.
TrialStartsStill ==
    [][task' = "none" /\ task \in {"tune", "handoff"}
        => \/ axis.error \/ axis.torque = 0
           \/ task = "tune" /\ lost > 2]_vars

\* A drive that dropped out, by itself or by its watchdog, is found, also when
\* the error falls into a hand-over, which reads no errors back: the trial ends,
\* or the error stays in odrive_active_errors until a tick that decides ends it.
AxisErrorIsFound ==
    (InTrial /\ axis.error)
        ~> (ctl \notin Trials \/ [](seen \/ ctl \notin Trials))

\* The fallback as the comment at main.cpp:378 states it, for the stop of a trial
\* (ctl stays in Trials until the stop is through, and nothing in a stop turns a
\* watchdog on): a watchdog that is running at the stop of an axis that pushes
\* is not taken away from it, whatever is lost; either IDLE arrives first, or
\* the watchdog keeps running.  (Refuted.)
StopFallback ==
    [][axis.watchdog /\ ctl \in Trials /\ Pushing /\ axis'.closed
        => axis'.watchdog]_vars

\* config.hpp:194 and main.cpp:866: the centering limits are temporary, and do
\* not carry over into torque control.  (Refuted.)
CenteringIsTemporary ==
    InTrial /\ ctl \in {"tuning", "swing"} /\ ~axis.error
        => axis.limit # "center" /\ axis.gain # "center"
=============================================================================
