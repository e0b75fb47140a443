----------------------------- MODULE PiController -----------------------------
(***************************************************************************)
(* The Raspberry Pi controller: run() and _execute_command() of             *)
(* controller.py, the drive operations of odrive_usb.py and the clean-up of  *)
(* __main__.py, one awaited USB operation a step.                            *)
(*                                                                           *)
(* The program is one asyncio task.  Between two awaits nothing else runs;   *)
(* while one is pending a line may be typed, a signal may come, the E-stop   *)
(* may open, the axis may fail and the process may be killed.  Every USB     *)
(* operation may raise, by its timeout for one, and one that raises has or   *)
(* has not reached the drive.  The axis is external: it keeps its state when *)
(* the process dies, and its watchdog, once on, expires unless it is fed.    *)
(* Angles are left open: a sample may show any motion trouble or none, and   *)
(* any catch or drop.                                                        *)
(***************************************************************************)
EXTENDS Integers, Sequences

CONSTANTS
    MaxTyped,   \* lines typed in all
    MaxQueue,   \* lines waiting at a time
    ExpireTime  \* waits without a feed after which the watchdog expires

ASSUME PiAssumption ==
    MaxTyped \in Nat /\ MaxQueue \in Nat /\ ExpireTime \in Nat \ {0}

VARIABLES
    mode, zeroValid, stop,
    lastFeedback,   \* "none", "good" or "errors"
    queue,          \* the command queue
    pc,             \* where run() waits or is about to go on
    ops,            \* the USB operations left of the call being awaited
    then,           \* where the program goes on after that call
    failed,         \* operations of the last stop that raised
    estop,          \* estop_closed
    axis,           \* the drive
    unfed,          \* waits since its watchdog was fed
    typed           \* lines typed so far

ctlVars == <<zeroValid, stop, lastFeedback, queue>>
taskVars == <<pc, ops, then, failed>>
axisVars == <<axis, unfed>>
envVars == <<estop, typed>>
vars == <<mode, ctlVars, taskVars, axisVars, envVars>>

Active == {"SWING_UP", "BALANCE"}
Modes == Active \cup {"DISARMED", "FAULT"}
Commands == {"zero", "arm", "disarm", "quit"}
Places == {"loop", "queue", "call", "confirm", "feedback", "torque", "pace", "off"}

-----------------------------------------------------------------------------
(* The drive *)

\* A faulty variant: arming trusts that no torque stands.
ArmOpsBare == <<"clear", "watchdog", "feed", "closed">>

\* arm_torque_control() and safe_idle(), in the order of their operations.
ArmOps == <<"clear", "setup", "watchdog", "feed", "closed">>
IdleOps == <<"zero", "idle", "off">>

Applied(a, op) ==
    CASE op = "clear" -> [a EXCEPT !.error = FALSE]
      [] op \in {"setup", "zero"} -> [a EXCEPT !.torque = 0]
      [] op = "watchdog" -> [a EXCEPT !.watchdog = TRUE]
      [] op = "closed" -> [a EXCEPT !.closed = ~a.error]
      [] op = "idle" -> [a EXCEPT !.closed = FALSE]
      [] op = "off" -> [a EXCEPT !.watchdog = FALSE]
      [] OTHER -> a

Reaches(op) == /\ axis' = Applied(axis, op)
               /\ unfed' = IF op = "feed" THEN 0 ELSE unfed

-----------------------------------------------------------------------------
(* Calls *)

Call(list, next) == pc' = "call" /\ ops' = list /\ then' = next
GoOn(place) == pc' = place /\ UNCHANGED <<ops, then, failed>>

\* safe_idle() begins.
Idle(next) == Call(IdleOps, next) /\ failed' = 0

\* _fault(): it does nothing in FAULT.
Fault(next) == mode' = "FAULT" /\ Idle(next)

\* An exception leaves run(), and async_main() cleans up.
Raise == Idle("off") /\ UNCHANGED mode

\* Whatever the program was doing ends a trial first, if there is one.
FaultAndRaise == IF mode \in Active THEN Fault("raise") ELSE Raise

ArmStep ==
    /\ pc = "call" /\ then = "confirm"
    /\ \/ /\ Reaches(Head(ops)) /\ ops' = Tail(ops)
          /\ pc' = IF Tail(ops) = <<>> THEN "confirm" ELSE pc
          /\ UNCHANGED <<mode, then, failed>>
       \/ /\ Reaches(Head(ops)) \/ UNCHANGED axisVars
          /\ Raise
    /\ UNCHANGED <<ctlVars, envVars>>

\* A faulty variant: an operation that raises ends the stop.
IdleStepAborts ==
    /\ pc = "call" /\ then # "confirm" /\ ops # <<>>
    /\ \/ /\ Reaches(Head(ops)) /\ UNCHANGED failed
          /\ ops' = Tail(ops)
       \/ /\ Reaches(Head(ops)) \/ UNCHANGED axisVars
          /\ failed' = failed + 1
          /\ ops' = <<>>
    /\ UNCHANGED <<mode, ctlVars, pc, then, envVars>>

\* A faulty variant: the watchdog goes off whether or not IDLE is confirmed.
IdleStepUnconfirmed ==
    /\ pc = "call" /\ then # "confirm" /\ ops # <<>>
    /\ \/ Reaches(Head(ops)) /\ UNCHANGED failed
       \/ /\ Reaches(Head(ops)) \/ UNCHANGED axisVars
          /\ failed' = failed + 1
    /\ ops' = Tail(ops)
    /\ UNCHANGED <<mode, ctlVars, pc, then, envVars>>

\* An operation of safe_idle().  IDLE is confirmed by reading the state back;
\* when that raises, the watchdog is left as it is.
IdleStep ==
    /\ pc = "call" /\ then # "confirm" /\ ops # <<>>
    /\ \/ /\ Reaches(Head(ops)) /\ UNCHANGED failed
          /\ ops' = Tail(ops)
       \/ /\ Reaches(Head(ops)) \/ UNCHANGED axisVars
          /\ failed' = failed + 1
          /\ ops' = IF Head(ops) = "idle" THEN <<>> ELSE Tail(ops)
    /\ UNCHANGED <<mode, ctlVars, pc, then, envVars>>

\* A faulty variant: disarm() goes on where nothing goes on.
IdleDoneAstray ==
    /\ pc = "call" /\ then # "confirm" /\ ops = <<>>
    /\ \/ then \in {"raise", "main"} /\ Idle("off")
       \/ then \notin {"raise", "main"} /\ GoOn(then)
    /\ UNCHANGED <<mode, ctlVars, axisVars, envVars>>

\* safe_idle() returns to whoever awaited it.
IdleDone ==
    /\ pc = "call" /\ then # "confirm" /\ ops = <<>>
    /\ \/ /\ then \in {"raise", "main"}
          /\ Idle("off") /\ UNCHANGED mode
       \/ /\ then \notin {"raise", "main"}
          /\ pc' = IF then = "disarmed" THEN "queue" ELSE then
          /\ mode' = IF then = "disarmed" THEN "DISARMED" ELSE mode
          /\ UNCHANGED <<ops, then, failed>>
    /\ UNCHANGED <<ctlVars, axisVars, envVars>>

-----------------------------------------------------------------------------
(* run() *)

\* A faulty variant: a fault keeps the loop going until it is acknowledged.
LoopIgnoresStop ==
    /\ pc = "loop"
    /\ IF stop /\ mode # "FAULT" THEN Idle("main") ELSE GoOn("queue")
    /\ UNCHANGED <<mode, ctlVars, axisVars, envVars>>

Loop ==
    /\ pc = "loop"
    /\ IF stop THEN Idle("main") ELSE GoOn("queue")
    /\ UNCHANGED <<mode, ctlVars, axisVars, envVars>>

QueueEmpty ==
    /\ pc = "queue" /\ queue = <<>>
    /\ GoOn("feedback")
    /\ UNCHANGED <<mode, ctlVars, axisVars, envVars>>

Take(command) == /\ pc = "queue" /\ queue # <<>> /\ Head(queue) = command
                 /\ queue' = Tail(queue)

\* Reading the encoder may raise.
Zero ==
    /\ Take("zero")
    /\ \/ /\ mode = "DISARMED" /\ lastFeedback # "none"
          /\ zeroValid' = TRUE /\ UNCHANGED <<mode, taskVars>>
       \/ /\ mode = "DISARMED" /\ lastFeedback # "none"
          /\ Raise /\ UNCHANGED zeroValid
       \/ /\ ~(mode = "DISARMED" /\ lastFeedback # "none")
          /\ UNCHANGED <<mode, zeroValid, taskVars>>
    /\ UNCHANGED <<stop, lastFeedback, axisVars, envVars>>

\* The last feedback is the one before the commands of this round.
MayArm == mode = "DISARMED" /\ zeroValid /\ estop /\ lastFeedback = "good"

Arm ==
    /\ Take("arm")
    /\ \/ MayArm /\ Call(ArmOps, "confirm") /\ UNCHANGED failed
       \/ ~MayArm /\ UNCHANGED taskVars
    /\ UNCHANGED <<mode, zeroValid, stop, lastFeedback, axisVars, envVars>>

Disarm ==
    /\ Take("disarm")
    /\ Idle("disarmed")
    /\ UNCHANGED <<mode, zeroValid, stop, lastFeedback, axisVars, envVars>>

\* The rest of the queue is still executed.
Quit ==
    /\ Take("quit")
    /\ stop' = TRUE
    /\ UNCHANGED <<mode, zeroValid, lastFeedback, taskVars, axisVars, envVars>>

Seen == IF axis.error THEN "errors" ELSE "good"

\* The feedback after arming: a drive that did not close the loop is a fault.
Confirm ==
    /\ pc = "confirm"
    /\ \/ /\ axis.closed
          /\ mode' = "SWING_UP" /\ lastFeedback' = Seen
          /\ GoOn("queue")
       \/ ~axis.closed /\ Fault("queue") /\ UNCHANGED lastFeedback
       \/ Raise /\ UNCHANGED lastFeedback
    /\ UNCHANGED <<zeroValid, stop, queue, axisVars, envVars>>

\* What _health_problem() finds whatever the motion is.
Problem == ~estop \/ axis.error \/ ~axis.closed

\* The feedback of the round, the sample, and what they lead to.
Feedback ==
    /\ pc = "feedback"
    /\ \/ FaultAndRaise /\ UNCHANGED lastFeedback
       \/ lastFeedback' = Seen /\ FaultAndRaise
       \/ /\ lastFeedback' = Seen /\ mode \in Active
          /\ Fault("pace")
       \/ /\ lastFeedback' = Seen /\ mode \in Active /\ ~Problem
          /\ mode' \in Active
          /\ GoOn("torque")
       \/ /\ lastFeedback' = Seen /\ mode \notin Active
          /\ GoOn("pace") /\ UNCHANGED mode
    /\ UNCHANGED <<zeroValid, stop, queue, axisVars, envVars>>

\* write_torque() gathers a torque and a feed; when it raises, either may have
\* reached the drive.
Torque ==
    /\ pc = "torque"
    /\ \/ /\ \E t \in {0, 1} : axis' = [axis EXCEPT !.torque = t]
          /\ unfed' = 0
          /\ GoOn("pace") /\ UNCHANGED mode
       \/ /\ \E t \in {0, 1} : axis' \in {axis, [axis EXCEPT !.torque = t]}
          /\ unfed' \in {0, unfed}
          /\ Fault("pace")
    /\ UNCHANGED <<ctlVars, envVars>>

\* A faulty variant: the rounds of a stopped controller feed the watchdog too.
PaceFeeds ==
    /\ pc = "pace"
    /\ \/ mode \in Active /\ Fault("loop")
       \/ GoOn("loop") /\ UNCHANGED mode
    /\ unfed' = 0
    /\ UNCHANGED <<ctlVars, axis, envVars>>

\* The end of a round: too late is a fault of an active controller.
Pace ==
    /\ pc = "pace"
    /\ \/ mode \in Active /\ Fault("loop")
       \/ GoOn("loop") /\ UNCHANGED mode
    /\ UNCHANGED <<ctlVars, axisVars, envVars>>

Program ==
    \/ ArmStep \/ IdleStep \/ IdleDone
    \/ Loop \/ QueueEmpty \/ Zero \/ Arm \/ Disarm \/ Quit
    \/ Confirm \/ Feedback \/ Torque \/ Pace

-----------------------------------------------------------------------------
(* What happens around the program *)

\* The places where the task waits and callbacks run.
Waiting == pc \in {"loop", "call", "confirm", "feedback", "torque"}

Type(command) ==
    /\ Waiting /\ typed < MaxTyped /\ Len(queue) < MaxQueue
    /\ queue' = Append(queue, command) /\ typed' = typed + 1
    /\ UNCHANGED <<mode, zeroValid, stop, lastFeedback, taskVars, axisVars, estop>>

\* SIGINT, SIGTERM or the end of the input.
Signal ==
    /\ Waiting /\ ~stop /\ stop' = TRUE
    /\ UNCHANGED <<mode, zeroValid, lastFeedback, queue, taskVars, axisVars, envVars>>

SafetyLoop ==
    /\ Waiting /\ estop' = ~estop
    /\ UNCHANGED <<mode, ctlVars, taskVars, axisVars, typed>>

\* The process is killed without any clean-up.
Kill ==
    /\ pc # "off" /\ pc' = "off"
    /\ mode' = "DISARMED" /\ stop' = FALSE /\ queue' = <<>>
    /\ ops' = <<>> /\ then' = "off" /\ failed' = Len(IdleOps)
    /\ UNCHANGED <<zeroValid, lastFeedback, axisVars, envVars>>

\* It is started once more, with nothing but the drive left as it was.
Restart ==
    /\ pc = "off"
    /\ mode' = "DISARMED" /\ zeroValid' = FALSE /\ stop' = FALSE
    /\ lastFeedback' = "none" /\ queue' = <<>>
    /\ GoOn("loop")
    /\ UNCHANGED <<axisVars, envVars>>

AxisFails ==
    /\ ~axis.error
    /\ axis' = [axis EXCEPT !.closed = FALSE, !.error = TRUE]
    /\ UNCHANGED <<mode, ctlVars, taskVars, unfed, envVars>>

Wait ==
    /\ axis.watchdog /\ ~axis.error /\ unfed < ExpireTime
    /\ unfed' = unfed + 1
    /\ UNCHANGED <<mode, ctlVars, taskVars, axis, envVars>>

Expire ==
    /\ axis.watchdog /\ ~axis.error /\ unfed = ExpireTime
    /\ axis' = [axis EXCEPT !.closed = FALSE, !.error = TRUE]
    /\ UNCHANGED <<mode, ctlVars, taskVars, unfed, envVars>>

Init ==
    /\ mode = "DISARMED" /\ zeroValid = FALSE /\ stop = FALSE
    /\ lastFeedback = "none" /\ queue = <<>>
    /\ pc = "loop" /\ ops = <<>> /\ then = "off"
    /\ failed = 0
    /\ estop = TRUE
    /\ axis = [closed |-> FALSE, torque |-> 0, watchdog |-> FALSE, error |-> FALSE]
    /\ unfed = 0 /\ typed = 0

Next == \/ Program
        \/ \E command \in Commands : Type(command)
        \/ Signal \/ SafetyLoop \/ Kill \/ Restart
        \/ AxisFails \/ Wait \/ Expire

Spec == Init /\ [][Next]_vars

\* Every await ends, by its timeout if by nothing else, and the task goes on;
\* the drive's clock runs.  Nobody has to type, kill or restart anything.
FairSpec == Spec /\ WF_vars(Program) /\ WF_vars(Wait) /\ WF_vars(Expire)

-----------------------------------------------------------------------------
(* Properties *)

\* A trial is under way in a process that runs.
Driving == mode \in Active /\ pc # "off"

TypeOK ==
    /\ mode \in Modes /\ zeroValid \in BOOLEAN /\ stop \in BOOLEAN
    /\ lastFeedback \in {"none", "good", "errors"}
    /\ queue \in Seq(Commands) /\ Len(queue) <= MaxQueue
    /\ pc \in Places
    /\ ops \in Seq({ArmOps[i] : i \in DOMAIN ArmOps}
                   \cup {IdleOps[i] : i \in DOMAIN IdleOps})
    /\ then \in Places \cup {"disarmed", "raise", "main"}
    /\ failed \in 0 .. Len(IdleOps)
    /\ estop \in BOOLEAN /\ typed \in 0 .. MaxTyped
    /\ axis \in [closed : BOOLEAN, torque : {0, 1}, watchdog : BOOLEAN,
                 error : BOOLEAN]
    /\ unfed \in 0 .. ExpireTime

\* odrive_usb.py:111: the watchdog is never off while the axis is in closed loop,
\* whatever operation raised, whoever was killed, and in whatever order.
AxisWatched == axis.closed => axis.watchdog

\* odrive_usb.py:98: the operations of a stop are independent, so a stop of which
\* one operation failed still leaves no torque on a closed loop.
OneFailureStops ==
    ~Driving /\ pc \notin {"call", "confirm"} /\ failed <= 1
        => ~(axis.closed /\ axis.torque # 0)

\* A controller that is not in a trial, or no longer there, ends up with the
\* axis out of closed loop, even when every operation of its stop failed.
OffStops == (~Driving /\ axis.closed) ~> (~axis.closed \/ Driving)

\* A stop that was asked for ends the program, whatever is queued or raised.
StopEnds == stop ~> pc = "off"

\* What the task is doing while it awaits a call.
Arming == pc = "call" /\ then = "confirm"
Stopping == pc = "call" /\ then # "confirm"

\* How the modes and the task map to the abstract gate.
Preparing == Arming \/ pc = "confirm"
GateState ==
    CASE mode = "DISARMED" /\ Preparing -> "prepare"
      [] mode \in Active /\ pc # "off" -> "drive"
      [] mode = "FAULT" /\ pc # "off" -> "fault"
      [] (mode = "DISARMED" /\ ~Preparing) \/ pc = "off" -> "off"

Gate == INSTANCE MotorGate
        WITH gate <- GateState, reference <- zeroValid /\ pc # "off",
             torque <- IF GateState = "drive" THEN axis.torque ELSE 0,
             Limit <- 1, MaxStep <- 1, Restarts <- TRUE

\* controller.py and arm_torque_control() keep the promise of MotorGate: a trial
\* starts with a zero from this process, takes the axis over with no torque
\* standing, and a fault is left by disarming or by the end of the process.
KeepsGate == Gate!Spec
=============================================================================
