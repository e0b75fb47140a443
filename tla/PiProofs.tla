------------------------------- MODULE PiProofs -------------------------------
(***************************************************************************)
(* Proofs about PiController for any number of typed lines, any queue and    *)
(* any watchdog time.  A call is a list of operations of which some tail is   *)
(* left: the first lemmas take such a list apart and say what an operation    *)
(* does to the drive, the next carry the inductive invariant PiInv through    *)
(* the kinds of step (a stop begins, the round goes on, the surroundings      *)
(* move), and each action is one of those or is argued by itself.             *)
(***************************************************************************)
EXTENDS PiController, TLAPS

-----------------------------------------------------------------------------
(* What is inductive about the calls *)

\* What may be left of arming and of a stop.
ArmTails == {ArmOps, <<"setup", "watchdog", "feed", "closed">>,
             <<"watchdog", "feed", "closed">>, <<"feed", "closed">>, <<"closed">>}
IdleTails == {IdleOps, <<"idle", "off">>, <<"off">>, <<>>}

CallInv ==
    /\ ops \in ArmTails \cup IdleTails
    /\ Arming => ops \in ArmTails
    /\ Stopping => ops \in IdleTails
    /\ pc = "call" => then \in {"confirm", "disarmed", "raise", "main", "off",
                               "queue", "pace", "loop"}
    /\ pc = "torque" => mode \in Active

\* The loop is closed with the watchdog on, which goes off with the loop open.
OrderInv ==
    /\ Arming /\ ops \in {<<"feed", "closed">>, <<"closed">>} => axis.watchdog
    /\ Stopping /\ ops = <<"off">> => ~axis.closed

\* How far a stop is: either operation has taken the torque off the loop.
Quiet == ~(axis.closed /\ axis.torque # 0)
StopInv ==
    /\ Stopping => failed + Len(ops) <= Len(IdleOps)
    /\ Stopping /\ ops = <<"idle", "off">> /\ failed = 0 => axis.torque = 0
    /\ Stopping /\ ops = <<>> /\ failed <= 1 => Quiet

PiInv == TypeOK /\ CallInv /\ OrderInv /\ StopInv /\ AxisWatched /\ OneFailureStops

-----------------------------------------------------------------------------
(* The drive *)

\* The drive's state space.
Axes == [closed : BOOLEAN, torque : {0, 1}, watchdog : BOOLEAN, error : BOOLEAN]

-----------------------------------------------------------------------------
(* What is left of a call *)

LEMMA ArmTail ==
    ASSUME NEW list \in ArmTails
    PROVE  \/ /\ Head(list) = "clear"
              /\ Tail(list) = <<"setup", "watchdog", "feed", "closed">>
           \/ /\ Head(list) = "setup"
              /\ Tail(list) = <<"watchdog", "feed", "closed">>
           \/ /\ Head(list) = "watchdog"
              /\ Tail(list) = <<"feed", "closed">>
           \/ /\ list = <<"feed", "closed">> /\ Head(list) = "feed"
              /\ Tail(list) = <<"closed">>
           \/ /\ list = <<"closed">> /\ Head(list) = "closed" /\ Tail(list) = <<>>
<1>1. CASE list = ArmOps
    BY <1>1 DEF ArmOps
<1>2. CASE list = <<"setup", "watchdog", "feed", "closed">>
    BY <1>2
<1>3. CASE list = <<"watchdog", "feed", "closed">>
    BY <1>3
<1>4. CASE list = <<"feed", "closed">>
    BY <1>4
<1>5. CASE list = <<"closed">>
    BY <1>5
<1> QED
    BY <1>1, <1>2, <1>3, <1>4, <1>5, Zenon DEF ArmTails

LEMMA IdleTail ==
    ASSUME NEW list \in IdleTails, list # <<>>
    PROVE  \/ /\ list = IdleOps /\ Head(list) = "zero"
              /\ Tail(list) = <<"idle", "off">>
           \/ /\ list = <<"idle", "off">> /\ Head(list) = "idle"
              /\ Tail(list) = <<"off">>
           \/ /\ list = <<"off">> /\ Head(list) = "off" /\ Tail(list) = <<>>
<1>1. CASE list = IdleOps
    BY <1>1 DEF IdleOps
<1>2. CASE list = <<"idle", "off">>
    BY <1>2
<1>3. CASE list = <<"off">>
    BY <1>3
<1> QED
    BY <1>1, <1>2, <1>3, Zenon DEF IdleTails

LEMMA ArmLengths ==
    /\ Len(<<"setup", "watchdog", "feed", "closed">>) = 4
    /\ Len(<<"watchdog", "feed", "closed">>) = 3
    /\ Len(<<"feed", "closed">>) = 2 /\ Len(<<"closed">>) = 1
OBVIOUS

LEMMA IdleLengths ==
    /\ Len(IdleOps) = 3 /\ Len(<<"idle", "off">>) = 2 /\ Len(<<"off">>) = 1
    /\ Len(<<>>) = 0
    /\ IdleOps # <<>> /\ IdleOps # <<"off">> /\ IdleOps # <<"idle", "off">>
    /\ <<"off">> # <<>> /\ <<"off">> # <<"idle", "off">> /\ <<"idle", "off">> # <<>>
BY DEF IdleOps

Operations == {ArmOps[i] : i \in DOMAIN ArmOps}
              \cup {IdleOps[i] : i \in DOMAIN IdleOps}

LEMMA OperationNames ==
    {"clear", "setup", "watchdog", "feed", "closed", "zero", "idle", "off"}
       \subseteq Operations
<1>1. {"clear", "setup", "watchdog", "feed", "closed"}
         \subseteq {ArmOps[i] : i \in DOMAIN ArmOps}
  <2>1. /\ DOMAIN ArmOps = 1 .. 5 /\ ArmOps[1] = "clear"
        /\ ArmOps[2] = "setup" /\ ArmOps[3] = "watchdog"
        /\ ArmOps[4] = "feed" /\ ArmOps[5] = "closed"
      BY DEF ArmOps
  <2> QED
      BY <2>1
<1>2. {"zero", "idle", "off"} \subseteq {IdleOps[i] : i \in DOMAIN IdleOps}
  <2>1. /\ DOMAIN IdleOps = 1 .. 3 /\ IdleOps[1] = "zero"
        /\ IdleOps[2] = "idle" /\ IdleOps[3] = "off"
      BY DEF IdleOps
  <2> QED
      BY <2>1
<1> QED
    BY <1>1, <1>2 DEF Operations

LEMMA TailsTyped == ArmTails \cup IdleTails \subseteq Seq(Operations)
<1>1. /\ "clear" \in Operations /\ "setup" \in Operations
      /\ "watchdog" \in Operations /\ "feed" \in Operations
      /\ "closed" \in Operations /\ "zero" \in Operations
      /\ "idle" \in Operations /\ "off" \in Operations
    BY OperationNames
<1>2. /\ ArmOps \in Seq(Operations)
      /\ <<"setup", "watchdog", "feed", "closed">> \in Seq(Operations)
      /\ <<"watchdog", "feed", "closed">> \in Seq(Operations)
      /\ <<"feed", "closed">> \in Seq(Operations)
      /\ <<"closed">> \in Seq(Operations)
    BY <1>1 DEF ArmOps
<1>3. /\ IdleOps \in Seq(Operations) /\ <<"idle", "off">> \in Seq(Operations)
      /\ <<"off">> \in Seq(Operations) /\ <<>> \in Seq(Operations)
    BY <1>1 DEF IdleOps
<1> QED
    BY <1>2, <1>3, Zenon DEF ArmTails, IdleTails

-----------------------------------------------------------------------------
(* The parts of the invariant *)

\* What an operation does to the drive.
LEMMA Applications ==
    ASSUME NEW a \in Axes
    PROVE  /\ Applied(a, "clear") = [a EXCEPT !.error = FALSE]
           /\ Applied(a, "setup") = [a EXCEPT !.torque = 0]
           /\ Applied(a, "zero") = [a EXCEPT !.torque = 0]
           /\ Applied(a, "watchdog") = [a EXCEPT !.watchdog = TRUE]
           /\ Applied(a, "closed") = [a EXCEPT !.closed = ~a.error]
           /\ Applied(a, "idle") = [a EXCEPT !.closed = FALSE]
           /\ Applied(a, "off") = [a EXCEPT !.watchdog = FALSE]
           /\ Applied(a, "feed") = a
BY DEF Applied

\* What the controller and its environment keep typed whatever the task does.
RestTyped ==
    /\ mode \in Modes /\ zeroValid \in BOOLEAN /\ stop \in BOOLEAN
    /\ lastFeedback \in {"none", "good", "errors"}
    /\ queue \in Seq(Commands) /\ Len(queue) <= MaxQueue
    /\ estop \in BOOLEAN /\ typed \in 0 .. MaxTyped
TaskTyped == /\ pc \in Places /\ then \in Places \cup {"disarmed", "raise", "main"}
             /\ failed \in 0 .. 3
AxisTyped == axis \in Axes /\ unfed \in 0 .. ExpireTime

LEMMA TypeParts ==
    ASSUME ops \in ArmTails \cup IdleTails
    PROVE  TypeOK <=> RestTyped /\ TaskTyped /\ AxisTyped
<1>1. ops \in Seq(Operations)
    BY TailsTyped
<1> QED
    BY <1>1, IdleLengths
    DEF TypeOK, RestTyped, TaskTyped, AxisTyped, Axes, Operations

LEMMA TypedNext ==
    ASSUME ops' \in ArmTails \cup IdleTails, RestTyped', TaskTyped', AxisTyped'
    PROVE  TypeOK'
<1>1. ops' \in Seq(Operations)
    BY TailsTyped
<1> QED
    BY <1>1, IdleLengths
    DEF TypeOK, RestTyped, TaskTyped, AxisTyped, Axes, Operations

\* Where a stop may go on.
Returns == {"disarmed", "raise", "main", "off", "queue", "pace", "loop"}

LEMMA InitInv == Init => PiInv
<1> SUFFICES ASSUME Init PROVE PiInv
    OBVIOUS
<1>1. ops = <<>> /\ pc = "loop" /\ then = "off" /\ ops \in IdleTails
    BY DEF Init, IdleTails
<1>2. RestTyped
  <2>1. <<>> \in Seq(Commands) /\ Len(<<>>) <= MaxQueue
      BY PiAssumption, IdleLengths
  <2>2. 0 \in 0 .. MaxTyped
      BY PiAssumption
  <2> QED
      BY <2>1, <2>2 DEF Init, RestTyped, Modes
<1>3. TaskTyped /\ AxisTyped
    BY PiAssumption DEF Init, TaskTyped, AxisTyped, Places, Axes
<1>4. TypeOK
    BY <1>1, <1>2, <1>3, TypeParts
<1> QED
    BY <1>1, <1>4 DEF Init, PiInv, CallInv, OrderInv, StopInv, Arming, Stopping,
                      AxisWatched, OneFailureStops

\* A stop begins with nothing done and nothing failed.
LEMMA BegunInv ==
    ASSUME PiInv, NEW next \in Returns, Idle(next),
           RestTyped', AxisTyped', AxisWatched'
    PROVE  PiInv'
<1>1. /\ pc' = "call" /\ ops' = IdleOps /\ then' = next /\ failed' = 0
      /\ next # "confirm" /\ ops' \in IdleTails
    BY DEF Idle, Call, IdleTails, Returns
<1>2. TaskTyped'
    BY <1>1 DEF TaskTyped, Places, Returns
<1>3. TypeOK'
    BY <1>1, <1>2, TypedNext
<1>4. CallInv'
    BY <1>1 DEF CallInv, Arming, Stopping, Returns
<1>5. ops' # <<"off">> /\ ops' # <<>> /\ ops' # <<"idle", "off">> /\ Len(ops') = 3
    BY <1>1, IdleLengths, Zenon
<1>6. OrderInv' /\ StopInv'
    BY <1>1, <1>5, IdleLengths DEF OrderInv, StopInv, Arming, Stopping
<1>7. OneFailureStops'
    BY <1>1 DEF OneFailureStops
<1> QED
    BY <1>3, <1>4, <1>6, <1>7 DEF PiInv

\* Outside the calls only the torque and the mode matter.
LEMMA GoneInv ==
    ASSUME PiInv, NEW place \in Places \ {"call"}, GoOn(place),
           RestTyped', AxisTyped', AxisWatched', OneFailureStops',
           place = "torque" => mode' \in Active
    PROVE  PiInv'
<1>1. pc' = place /\ ops' = ops /\ then' = then /\ failed' = failed
    BY DEF GoOn
<1>2. TaskTyped /\ ops \in ArmTails \cup IdleTails
    BY TypeParts DEF PiInv, CallInv
<1>3. TaskTyped'
    BY <1>1, <1>2 DEF TaskTyped
<1>4. TypeOK'
    BY <1>1, <1>2, <1>3, TypedNext
<1> QED
    BY <1>1, <1>2, <1>4 DEF PiInv, CallInv, OrderInv, StopInv, Arming, Stopping

\* What happens around the program leaves its calls as they are.
LEMMA KeptInv ==
    ASSUME PiInv, UNCHANGED <<mode, taskVars>>, RestTyped', AxisTyped',
           axis'.closed => axis.closed,
           axis'.watchdog = axis.watchdog /\ axis'.torque = axis.torque
    PROVE  PiInv'
<1>1. UNCHANGED <<mode, pc, ops, then, failed>>
    BY DEF taskVars
<1>2. TaskTyped /\ ops \in ArmTails \cup IdleTails
    BY TypeParts DEF PiInv, CallInv
<1>3. TaskTyped'
    BY <1>1, <1>2 DEF TaskTyped
<1>4. TypeOK'
    BY <1>1, <1>2, <1>3, TypedNext
<1>5. CallInv'
    BY <1>1 DEF PiInv, CallInv, Arming, Stopping
<1>6. OrderInv'
    BY <1>1 DEF PiInv, OrderInv, Arming, Stopping
<1>7. Quiet => Quiet'
    BY DEF Quiet
<1>8. StopInv'
    BY <1>1, <1>7 DEF PiInv, StopInv, Stopping
<1>9. AxisWatched'
    BY DEF PiInv, AxisWatched
<1>10. OneFailureStops'
    BY <1>1, <1>7 DEF PiInv, OneFailureStops, Driving, Quiet
<1> QED
    BY <1>4, <1>5, <1>6, <1>8, <1>9, <1>10 DEF PiInv

-----------------------------------------------------------------------------
(* The operations of a call *)

\* The invariant by its parts.
LEMMA Parts ==
    ASSUME PiInv
    PROVE  /\ RestTyped /\ TaskTyped /\ AxisTyped /\ AxisWatched /\ axis \in Axes
           /\ ops \in ArmTails \cup IdleTails
BY TypeParts DEF PiInv, CallInv, AxisTyped

LEMMA RestKept ==
    RestTyped /\ UNCHANGED <<ctlVars, envVars>> /\ mode' \in Modes => RestTyped'
BY DEF RestTyped, ctlVars, envVars

\* The watchdog is on before the loop is closed.
LEMMA ArmStepInv == PiInv /\ ArmStep => PiInv'
<1> SUFFICES ASSUME PiInv, ArmStep PROVE PiInv'
    OBVIOUS
<1>1. /\ pc = "call" /\ then = "confirm" /\ UNCHANGED <<ctlVars, envVars>>
      /\ mode' = mode
      /\ axis' = Applied(axis, Head(ops)) \/ axis' = axis
      /\ unfed' \in {0, unfed}
    BY DEF ArmStep, Reaches, Raise, axisVars
<1>2. /\ RestTyped /\ TaskTyped /\ AxisTyped /\ AxisWatched /\ axis \in Axes
      /\ ops \in ArmTails /\ CallInv /\ OrderInv
    BY <1>1, Parts DEF PiInv, CallInv, Arming
<1>3. RestTyped'
    BY <1>1, <1>2, RestKept DEF RestTyped
<1>4. \/ axis' = axis
      \/ Head(ops) = "clear" /\ axis' = [axis EXCEPT !.error = FALSE]
      \/ Head(ops) = "setup" /\ axis' = [axis EXCEPT !.torque = 0]
      \/ Head(ops) = "watchdog" /\ axis' = [axis EXCEPT !.watchdog = TRUE]
      \/ Head(ops) = "feed" /\ axis' = axis
      \/ ops = <<"closed">> /\ axis' = [axis EXCEPT !.closed = ~axis.error]
  <2>1. Head(ops) \in {"clear", "setup", "watchdog", "feed"} \/ ops = <<"closed">>
      BY <1>2, ArmTail
  <2>2. ops = <<"closed">> => Head(ops) = "closed"
      OBVIOUS
  <2> QED
      BY <1>1, <1>2, <2>1, <2>2, Applications
<1>5. AxisTyped'
  <2>1. axis' \in Axes
      BY <1>2, <1>4 DEF Axes
  <2> QED
      BY <1>1, <1>2, <2>1, PiAssumption DEF AxisTyped
<1>6. ops = <<"closed">> => axis.watchdog
    BY <1>1, <1>2 DEF OrderInv, Arming
<1>7. AxisWatched'
    BY <1>2, <1>4, <1>6 DEF AxisWatched, Axes
<1>8. CASE Raise
    BY <1>3, <1>5, <1>7, <1>8, BegunInv DEF Raise, Returns
<1>9. CASE /\ axis' = Applied(axis, Head(ops)) /\ ops' = Tail(ops)
           /\ pc' = IF Tail(ops) = <<>> THEN "confirm" ELSE pc
           /\ UNCHANGED <<mode, then, failed>>
  <2>1. CASE Tail(ops) = <<>>
    <3>1. pc' = "confirm" /\ ops' \in IdleTails
        BY <1>9, <2>1 DEF IdleTails
    <3>2. TaskTyped'
        BY <1>2, <1>9, <3>1 DEF TaskTyped, Places
    <3>3. TypeOK'
        BY <1>3, <1>5, <3>1, <3>2, TypedNext
    <3> QED
        BY <1>7, <3>1, <3>3
        DEF PiInv, CallInv, OrderInv, StopInv, Arming, Stopping, OneFailureStops
  <2>2. CASE Tail(ops) # <<>>
    <3>1. pc' = "call" /\ then' = "confirm" /\ UNCHANGED <<mode, pc, then, failed>>
        BY <1>1, <1>9, <2>2
    <3>2. \/ Len(ops') \in {3, 4}
          \/ Head(ops) = "watchdog" /\ ops' = <<"feed", "closed">>
          \/ ops = <<"feed", "closed">> /\ ops' = <<"closed">> /\ Head(ops) = "feed"
        BY <1>2, <1>9, <2>2, ArmTail, ArmLengths
    <3>3. ops' \in ArmTails
      <4>1. \/ Tail(ops) = <<"setup", "watchdog", "feed", "closed">>
            \/ Tail(ops) = <<"watchdog", "feed", "closed">>
            \/ Tail(ops) = <<"feed", "closed">> \/ Tail(ops) = <<"closed">>
          BY <1>2, <2>2, ArmTail, Zenon
      <4> QED
          BY <1>9, <4>1, Zenon DEF ArmTails
    <3>4. TaskTyped'
        BY <1>2, <3>1 DEF TaskTyped
    <3>5. TypeOK'
        BY <1>3, <1>5, <3>3, <3>4, TypedNext
    <3>6. OrderInv'
      <4>1. CASE Len(ops') \in {3, 4}
        <5>1. ops' # <<"feed", "closed">> /\ ops' # <<"closed">>
            BY <4>1, ArmLengths
        <5> QED
            BY <3>1, <5>1 DEF OrderInv, Arming, Stopping
      <4>2. CASE Head(ops) = "watchdog"
        <5>1. axis'.watchdog
            BY <1>2, <1>9, <4>2, Applications DEF Axes
        <5> QED
            BY <3>1, <5>1 DEF OrderInv, Arming, Stopping
      <4>3. CASE ops = <<"feed", "closed">> /\ Head(ops) = "feed"
        <5>1. axis' = axis
            BY <1>2, <1>9, <4>3, Applications
        <5>2. axis.watchdog
            BY <1>1, <1>2, <4>3 DEF OrderInv, Arming
        <5> QED
            BY <3>1, <5>1, <5>2 DEF OrderInv, Arming, Stopping
      <4> QED
          BY <3>2, <4>1, <4>2, <4>3
    <3>7. CallInv'
        BY <3>1, <3>3 DEF CallInv, Arming, Stopping
    <3> QED
        BY <1>7, <3>1, <3>5, <3>6, <3>7
        DEF PiInv, StopInv, Stopping, OneFailureStops
  <2> QED
      BY <2>1, <2>2
<1> QED
    BY <1>8, <1>9 DEF ArmStep, Reaches

\* The loop is open before the watchdog is off; zero torque and IDLE cover for
\* each other.
LEMMA IdleStepInv == PiInv /\ IdleStep => PiInv'
<1> SUFFICES ASSUME PiInv, IdleStep PROVE PiInv'
    OBVIOUS
<1>1. /\ pc = "call" /\ then # "confirm" /\ ops # <<>>
      /\ UNCHANGED <<mode, ctlVars, pc, then, envVars>>
      /\ unfed' \in {0, unfed}
      /\ \/ axis' = Applied(axis, Head(ops)) /\ failed' = failed /\ ops' = Tail(ops)
         \/ /\ axis' = Applied(axis, Head(ops)) \/ axis' = axis
            /\ failed' = failed + 1
            /\ ops' = IF Head(ops) = "idle" THEN <<>> ELSE Tail(ops)
    BY DEF IdleStep, Reaches, axisVars
<1>2. /\ RestTyped /\ TaskTyped /\ AxisTyped /\ AxisWatched /\ axis \in Axes
      /\ ops \in IdleTails /\ CallInv /\ OrderInv /\ StopInv /\ Stopping
    BY <1>1, Parts DEF PiInv, CallInv, Stopping
<1>3. RestTyped'
    BY <1>1, <1>2, RestKept DEF RestTyped
<1>4. /\ pc' = "call" /\ then' # "confirm" /\ Stopping' /\ ~Arming'
      /\ then' = then /\ mode' = mode
    BY <1>1 DEF Stopping, Arming
<1>5. failed \in Nat
    BY <1>2 DEF TaskTyped
<1>6. ASSUME ops' \in IdleTails, axis' \in Axes, failed' \in Nat,
             failed' + Len(ops') <= 3, AxisWatched',
             ops' = <<"off">> => ~axis'.closed,
             ops' = <<"idle", "off">> /\ failed' = 0 => axis'.torque = 0,
             ops' = <<>> /\ failed' <= 1 => Quiet'
      PROVE  PiInv'
  <2>1. failed' \in 0 .. 3
    <3>1. Len(ops') \in Nat
        BY <1>6, IdleLengths DEF IdleTails
    <3> QED
        BY <1>6, <3>1
  <2>2. AxisTyped' /\ TaskTyped'
      BY <1>1, <1>2, <1>4, <1>6, <2>1, PiAssumption DEF AxisTyped, TaskTyped
  <2>3. TypeOK'
      BY <1>3, <1>6, <2>2, TypedNext
  <2>4. CallInv'
      BY <1>1, <1>2, <1>4, <1>6 DEF CallInv
  <2>5. OrderInv'
      BY <1>4, <1>6 DEF OrderInv
  <2>6. StopInv'
      BY <1>6, IdleLengths DEF StopInv
  <2> QED
      BY <1>4, <1>6, <2>3, <2>4, <2>5, <2>6 DEF PiInv, OneFailureStops
\* What each operation does, or fails to do.
<1>7. CASE ops = IdleOps
  <2>1. /\ ops' = <<"idle", "off">> /\ Len(ops) = 3 /\ Len(ops') = 2
        /\ Head(ops) = "zero"
      BY <1>1, <1>2, <1>7, IdleTail, IdleLengths
  <2>2. \/ axis' = [axis EXCEPT !.torque = 0] /\ failed' = failed
        \/ axis' \in {axis, [axis EXCEPT !.torque = 0]} /\ failed' = failed + 1
      BY <1>1, <1>2, <2>1, Applications
  <2>3. /\ axis' \in Axes /\ axis'.closed = axis.closed
        /\ axis'.watchdog = axis.watchdog
        /\ axis'.torque = 0 \/ failed' = failed + 1
      BY <1>2, <2>2 DEF Axes
  <2>4. failed + 3 <= 3
      BY <1>2, <2>1, IdleLengths DEF StopInv
  <2>5. /\ failed' \in Nat /\ failed' + Len(ops') <= 3
        /\ failed' = 0 => axis'.torque = 0
      BY <1>5, <2>1, <2>2, <2>3, <2>4
  <2>6. AxisWatched' /\ ops' \in IdleTails
      BY <1>2, <2>1, <2>3 DEF AxisWatched, IdleTails
  <2>7. ops' # <<"off">> /\ ops' # <<>>
      BY <2>1, IdleLengths, Zenon
  <2> QED
      BY <1>6, <2>3, <2>5, <2>6, <2>7
<1>8. CASE ops = <<"idle", "off">>
  <2>1. /\ Head(ops) = "idle" /\ Len(ops) = 2
        /\ failed' = failed => ops' = <<"off">> /\ Len(ops') = 1
        /\ failed' # failed => ops' = <<>> /\ Len(ops') = 0
      BY <1>1, <1>2, <1>5, <1>8, IdleTail, IdleLengths
  <2>2. \/ axis' = [axis EXCEPT !.closed = FALSE] /\ failed' = failed
        \/ axis' \in {axis, [axis EXCEPT !.closed = FALSE]} /\ failed' = failed + 1
      BY <1>1, <1>2, <2>1, Applications
  <2>3. /\ axis' \in Axes /\ axis'.torque = axis.torque
        /\ axis'.watchdog = axis.watchdog /\ (axis'.closed => axis.closed)
        /\ ~axis'.closed \/ failed' = failed + 1
      BY <1>2, <2>2 DEF Axes
  <2>4. failed + 2 <= 3 /\ (failed = 0 => axis.torque = 0)
      BY <1>2, <1>8, <2>1, IdleLengths DEF StopInv
  <2>5. failed' \in Nat /\ failed' + Len(ops') <= 3
    <3>1. CASE failed' = failed
      <4>1. Len(ops') = 1
          BY <2>1, <3>1
      <4> QED
          BY <1>5, <2>4, <3>1, <4>1
    <3>2. CASE failed' = failed + 1
      <4>1. Len(ops') = 0
          BY <1>5, <2>1, <3>2
      <4> QED
          BY <1>5, <2>4, <3>2, <4>1
    <3> QED
        BY <2>2, <3>1, <3>2
  <2>6. AxisWatched' /\ ops' \in IdleTails
      BY <1>2, <2>1, <2>3 DEF AxisWatched, IdleTails
  <2>7. ops' # <<"idle", "off">>
      BY <2>1, IdleLengths, Zenon
  <2>8. ops' = <<"off">> => ~axis'.closed
    <3>1. ops' = <<"off">> => failed' = failed
        BY <2>1, IdleLengths, Zenon
    <3> QED
        BY <1>5, <2>3, <3>1
  <2>9. ops' = <<>> /\ failed' <= 1 => Quiet'
    <3>1. failed' = failed => ops' # <<>>
        BY <2>1, IdleLengths, Zenon
    <3>2. failed' = failed + 1 /\ failed' <= 1 => axis'.torque = 0
        BY <1>5, <2>3, <2>4
    <3> QED
        BY <2>2, <3>1, <3>2 DEF Quiet
  <2> QED
      BY <1>6, <2>3, <2>5, <2>6, <2>7, <2>8, <2>9
<1>9. CASE ops = <<"off">>
  <2>1. Head(ops) = "off" /\ ops' = <<>> /\ Len(ops) = 1 /\ Len(ops') = 0
      BY <1>1, <1>2, <1>9, IdleTail, IdleLengths
  <2>2. axis' \in {axis, [axis EXCEPT !.watchdog = FALSE]}
      BY <1>1, <1>2, <2>1, Applications
  <2>3. ~axis.closed /\ failed + 1 <= 3
      BY <1>2, <1>9, <2>1, IdleLengths DEF StopInv, OrderInv
  <2>4. axis' \in Axes /\ ~axis'.closed
      BY <1>2, <2>2, <2>3 DEF Axes
  <2>5. failed' \in Nat /\ failed' + Len(ops') <= 3
      BY <1>1, <1>5, <2>1, <2>3
  <2>6. AxisWatched' /\ ops' \in IdleTails /\ Quiet'
      BY <2>1, <2>4 DEF AxisWatched, IdleTails, Quiet
  <2>7. ops' # <<"idle", "off">>
      BY <2>1, IdleLengths, Zenon
  <2> QED
      BY <1>6, <2>4, <2>5, <2>6, <2>7
<1> QED
    BY <1>1, <1>2, <1>7, <1>8, <1>9, IdleTail

LEMMA IdleDoneInv == PiInv /\ IdleDone => PiInv'
<1> SUFFICES ASSUME PiInv, IdleDone PROVE PiInv'
    OBVIOUS
<1>1. /\ pc = "call" /\ then # "confirm" /\ ops = <<>>
      /\ UNCHANGED <<ctlVars, axisVars, envVars>>
    BY DEF IdleDone
<1>2. /\ RestTyped /\ TaskTyped /\ AxisTyped /\ AxisWatched /\ axis \in Axes
      /\ CallInv /\ StopInv /\ Stopping
    BY <1>1, Parts DEF PiInv, Stopping
<1>3. mode' \in {mode, "DISARMED"} /\ mode' \in Modes
    BY <1>2 DEF IdleDone, RestTyped, Modes
<1>4. RestTyped' /\ AxisTyped' /\ AxisWatched' /\ axis' = axis
    BY <1>1, <1>2, <1>3, RestKept DEF AxisTyped, AxisWatched, axisVars
<1>5. CASE then \in {"raise", "main"}
  <2>1. Idle("off")
      BY <1>5 DEF IdleDone
  <2> QED
      BY <1>4, <2>1, BegunInv DEF Returns
<1>6. CASE then \notin {"raise", "main"}
  <2> DEFINE place == IF then = "disarmed" THEN "queue" ELSE then
  <2>1. GoOn(place)
      BY <1>6 DEF IdleDone, GoOn
  <2>2. place \in {"off", "queue", "pace", "loop"}
      BY <1>1, <1>2, <1>6 DEF CallInv
  <2>3. OneFailureStops'
    <3>1. failed <= 1 => Quiet
        BY <1>1, <1>2 DEF StopInv
    <3>2. failed' = failed
        BY <2>1 DEF GoOn
    <3> QED
        BY <1>4, <3>1, <3>2 DEF OneFailureStops, Quiet
  <2>4. place \in Places \ {"call"} /\ place # "torque"
      BY <2>2 DEF Places
  <2> HIDE DEF place
  <2> QED
      BY <1>4, <2>1, <2>3, <2>4, GoneInv
<1> QED
    BY <1>5, <1>6

-----------------------------------------------------------------------------
(* The round *)

\* A trial that is tripped begins a stop in FAULT.
LEMMA Faulted ==
    ASSUME PiInv, NEW next \in Returns, Fault(next), AxisTyped', AxisWatched',
           zeroValid' \in BOOLEAN, stop' \in BOOLEAN,
           lastFeedback' \in {"none", "good", "errors"},
           queue' \in Seq(Commands), Len(queue') <= MaxQueue,
           estop' \in BOOLEAN, typed' \in 0 .. MaxTyped
    PROVE  PiInv'
<1>1. RestTyped'
    BY DEF Fault, RestTyped, Modes
<1> QED
    BY <1>1, BegunInv DEF Fault

\* A step of the round that leaves the drive alone.
LEMMA RoundInv ==
    ASSUME PiInv, UNCHANGED axisVars, pc # "call",
           zeroValid' \in BOOLEAN, stop' \in BOOLEAN,
           lastFeedback' \in {"none", "good", "errors"},
           queue' \in Seq(Commands), Len(queue') <= MaxQueue,
           estop' \in BOOLEAN, typed' \in 0 .. MaxTyped, mode' \in Modes,
           \/ \E next \in Returns : Idle(next)
           \/ /\ UNCHANGED taskVars /\ mode' = mode
           \/ \E place \in Places \ {"call", "torque", "confirm", "off"} :
                 GoOn(place) /\ pc \notin {"confirm", "off"} /\ mode' = mode
           \/ \E place \in Places \ {"call", "off"} :
                 GoOn(place) /\ mode' \in Active
    PROVE  PiInv'
<1>1. /\ TaskTyped /\ AxisTyped /\ AxisWatched /\ CallInv /\ OneFailureStops
      /\ RestTyped'
    BY Parts DEF PiInv, RestTyped
<1>2. AxisTyped' /\ AxisWatched' /\ axis' = axis
    BY <1>1 DEF AxisTyped, AxisWatched, axisVars
<1>3. CASE \E next \in Returns : Idle(next)
    BY <1>1, <1>2, <1>3, BegunInv
<1>4. CASE UNCHANGED taskVars /\ mode' = mode
    BY <1>1, <1>2, <1>4, KeptInv
<1>5. ASSUME NEW place \in Places \ {"call", "torque", "confirm", "off"}, GoOn(place),
             pc \notin {"confirm", "off"}, mode' = mode
      PROVE  PiInv'
  <2>1. pc' = place /\ failed' = failed
      BY <1>5 DEF GoOn
  <2>2. OneFailureStops'
      BY <1>1, <1>2, <1>5, <2>1 DEF OneFailureStops, Driving
  <2> QED
      BY <1>1, <1>2, <1>5, <2>2, GoneInv
<1>6. ASSUME NEW place \in Places \ {"call", "off"}, GoOn(place), mode' \in Active
      PROVE  PiInv'
  <2>1. pc' = place
      BY <1>6 DEF GoOn
  <2>2. OneFailureStops'
      BY <1>6, <2>1 DEF OneFailureStops, Driving
  <2> QED
      BY <1>1, <1>2, <1>6, <2>2, GoneInv
<1> QED
    BY <1>3, <1>4, <1>5, <1>6

LEMMA Shorter ==
    ASSUME queue \in Seq(Commands), Len(queue) <= MaxQueue, queue # <<>>
    PROVE  Tail(queue) \in Seq(Commands) /\ Len(Tail(queue)) <= MaxQueue
BY PiAssumption

LEMMA StepInv ==
    PiInv /\ (Loop \/ QueueEmpty \/ Zero \/ Arm \/ Disarm \/ Quit
              \/ Confirm \/ Feedback \/ Pace) => PiInv'
<1> SUFFICES ASSUME PiInv,
                    \/ Loop \/ QueueEmpty \/ Zero \/ Arm \/ Disarm \/ Quit
                    \/ Confirm \/ Feedback \/ Pace
             PROVE  PiInv'
    OBVIOUS
<1>1. RestTyped /\ TaskTyped
    BY Parts
<1>2. /\ zeroValid \in BOOLEAN /\ stop \in BOOLEAN
      /\ lastFeedback \in {"none", "good", "errors"}
      /\ queue \in Seq(Commands) /\ Len(queue) <= MaxQueue
      /\ estop \in BOOLEAN /\ typed \in 0 .. MaxTyped /\ mode \in Modes
    BY <1>1 DEF RestTyped
<1>3. queue # <<>> => Tail(queue) \in Seq(Commands) /\ Len(Tail(queue)) <= MaxQueue
    BY <1>2, Shorter
<1>4. Seen \in {"none", "good", "errors"}
    BY DEF Seen
<1>5. CASE Loop
  <2>1. \/ Idle("main")
        \/ GoOn("queue")
      BY <1>5 DEF Loop
  <2>2. UNCHANGED <<mode, ctlVars, axisVars, envVars>> /\ pc = "loop"
      BY <1>5 DEF Loop
  <2> QED
      BY <1>2, <2>1, <2>2, RoundInv DEF ctlVars, envVars, Returns, Places
<1>6. CASE QueueEmpty
    BY <1>2, <1>6, RoundInv DEF QueueEmpty, ctlVars, envVars, Places
<1>7. CASE Zero
    BY <1>2, <1>3, <1>7, RoundInv DEF Zero, Take, Raise, envVars, Returns
<1>9. CASE Disarm
    BY <1>2, <1>3, <1>9, RoundInv DEF Disarm, Take, envVars, Returns
<1>10. CASE Quit
    BY <1>2, <1>3, <1>10, RoundInv DEF Quit, Take, envVars
<1>11. CASE Confirm
    BY <1>2, <1>4, <1>11, RoundInv
    DEF Confirm, Fault, Raise, envVars, Returns, Places, Active, Modes
<1>12. CASE Feedback
  <2>1. /\ pc = "feedback" /\ UNCHANGED <<zeroValid, stop, queue, axisVars, envVars>>
        /\ lastFeedback' \in {lastFeedback, Seen}
      BY <1>12 DEF Feedback
  <2>2. CASE FaultAndRaise
      BY <1>2, <1>4, <2>1, <2>2, RoundInv
      DEF FaultAndRaise, Fault, Raise, envVars, Returns, Modes
  <2>3. CASE Fault("pace")
      BY <1>2, <1>4, <2>1, <2>3, RoundInv DEF Fault, envVars, Returns, Modes
  <2>4. CASE mode' \in Active /\ GoOn("torque")
      BY <1>2, <1>4, <2>1, <2>4, RoundInv DEF envVars, Modes, Places
  <2>5. CASE GoOn("pace") /\ mode' = mode
      BY <1>2, <1>4, <2>1, <2>5, RoundInv DEF envVars, Places
  <2> QED
      BY <1>12, <2>2, <2>3, <2>4, <2>5 DEF Feedback
<1>13. CASE Pace
    BY <1>2, <1>13, RoundInv
    DEF Pace, Fault, ctlVars, envVars, Returns, Places, Active, Modes
<1>8. CASE Arm
  <2>1. CASE UNCHANGED taskVars
      BY <1>2, <1>3, <1>8, <2>1, RoundInv DEF Arm, Take, envVars
  <2>2. CASE Call(ArmOps, "confirm") /\ failed' = failed
    <3>1. /\ pc' = "call" /\ ops' = ArmOps /\ then' = "confirm"
          /\ UNCHANGED <<mode, zeroValid, stop, lastFeedback, axis, unfed, envVars>>
          /\ queue # <<>> /\ queue' = Tail(queue)
        BY <1>8, <2>2 DEF Arm, Take, Call, axisVars
    <3>2. ops' \in ArmTails
        BY <3>1 DEF ArmTails
    <3>3. ops' # <<"feed", "closed">> /\ ops' # <<"closed">>
        BY <3>1 DEF ArmOps
    <3>4. RestTyped' /\ TaskTyped'
        BY <1>1, <1>2, <1>3, <2>2, <3>1 DEF RestTyped, TaskTyped, Places, envVars
    <3>5. AxisTyped' /\ AxisWatched'
        BY <3>1, Parts DEF AxisTyped, AxisWatched
    <3>6. TypeOK'
        BY <3>2, <3>4, <3>5, TypedNext
    <3> QED
        BY <3>1, <3>2, <3>3, <3>5, <3>6
        DEF PiInv, CallInv, OrderInv, StopInv, Arming, Stopping, OneFailureStops
  <2> QED
      BY <1>8, <2>1, <2>2 DEF Arm
<1> QED
    BY <1>5, <1>6, <1>7, <1>8, <1>9, <1>10, <1>11, <1>12, <1>13

LEMMA TorqueInv == PiInv /\ Torque => PiInv'
<1> SUFFICES ASSUME PiInv, Torque PROVE PiInv'
    OBVIOUS
<1>1. /\ RestTyped /\ AxisTyped /\ AxisWatched /\ axis \in Axes /\ mode \in Active
      /\ pc = "torque"
    BY Parts DEF PiInv, CallInv, Torque
<1>2. PICK t \in {0, 1} : axis' \in {axis, [axis EXCEPT !.torque = t]}
    BY DEF Torque
<1>3. axis' \in Axes /\ axis'.closed = axis.closed /\ axis'.watchdog = axis.watchdog
    BY <1>1, <1>2 DEF Axes
<1>4. AxisTyped' /\ AxisWatched'
  <2>1. unfed' \in 0 .. ExpireTime
      BY <1>1, PiAssumption DEF Torque, AxisTyped
  <2> QED
      BY <1>1, <1>3, <2>1 DEF AxisTyped, AxisWatched
<1>5. /\ zeroValid' \in BOOLEAN /\ stop' \in BOOLEAN
      /\ lastFeedback' \in {"none", "good", "errors"}
      /\ queue' \in Seq(Commands) /\ Len(queue') <= MaxQueue
      /\ estop' \in BOOLEAN /\ typed' \in 0 .. MaxTyped
    BY <1>1 DEF Torque, RestTyped, ctlVars, envVars
<1>6. CASE Fault("pace")
    BY <1>4, <1>5, <1>6, Faulted DEF Returns
<1>7. CASE GoOn("pace") /\ mode' = mode
  <2>1. RestTyped'
      BY <1>1, <1>5, <1>7 DEF RestTyped
  <2>2. OneFailureStops'
      BY <1>1, <1>7 DEF GoOn, OneFailureStops, Driving
  <2> QED
      BY <1>4, <1>7, <2>1, <2>2, GoneInv DEF Places
<1> QED
    BY <1>6, <1>7 DEF Torque

\* What happens around the program: lines, signals, the E-stop, the drive.
LEMMA AroundInv ==
    PiInv /\ (\/ \E command \in Commands : Type(command)
              \/ Signal \/ SafetyLoop \/ AxisFails \/ Wait \/ Expire) => PiInv'
<1> SUFFICES ASSUME PiInv,
                    \/ \E command \in Commands : Type(command)
                    \/ Signal \/ SafetyLoop \/ AxisFails \/ Wait \/ Expire
             PROVE  PiInv'
    OBVIOUS
<1>1. /\ RestTyped /\ AxisTyped /\ axis \in Axes
    BY Parts
<1>2. CASE \E command \in Commands : Type(command)
  <2>1. PICK command \in Commands : Type(command)
      BY <1>2
  <2>2. queue' \in Seq(Commands) /\ Len(queue') <= MaxQueue
      BY <1>1, <2>1, PiAssumption DEF Type, RestTyped
  <2>3. typed' \in 0 .. MaxTyped
      BY <1>1, <2>1, PiAssumption DEF Type, RestTyped
  <2>4. RestTyped'
      BY <1>1, <2>1, <2>2, <2>3 DEF Type, RestTyped
  <2> QED
      BY <1>1, <2>1, <2>4, KeptInv DEF Type, axisVars, AxisTyped
<1>3. CASE Signal \/ SafetyLoop
  <2>1. RestTyped'
      BY <1>1, <1>3 DEF Signal, SafetyLoop, RestTyped, ctlVars, envVars
  <2> QED
      BY <1>1, <1>3, <2>1, KeptInv DEF Signal, SafetyLoop, axisVars, AxisTyped
<1>4. CASE AxisFails \/ Expire
  <2>1. /\ axis' = [axis EXCEPT !.closed = FALSE, !.error = TRUE]
        /\ UNCHANGED <<mode, ctlVars, taskVars, unfed, envVars>>
      BY <1>4 DEF AxisFails, Expire
  <2>2. /\ axis' \in Axes /\ ~axis'.closed /\ axis'.torque = axis.torque
        /\ axis'.watchdog = axis.watchdog
      BY <1>1, <2>1 DEF Axes
  <2>3. RestTyped' /\ AxisTyped'
      BY <1>1, <2>1, <2>2 DEF RestTyped, AxisTyped, ctlVars, envVars
  <2> QED
      BY <2>1, <2>2, <2>3, KeptInv
<1>5. CASE Wait
  <2>1. unfed' \in 0 .. ExpireTime
      BY <1>1, <1>5, PiAssumption DEF Wait, AxisTyped
  <2>2. RestTyped' /\ AxisTyped'
      BY <1>1, <1>5, <2>1 DEF Wait, RestTyped, AxisTyped, ctlVars, envVars
  <2> QED
      BY <1>5, <2>2, KeptInv DEF Wait
<1> QED
    BY <1>2, <1>3, <1>4, <1>5

\* A process that is killed leaves the drive as it is.
LEMMA LifeInv == PiInv /\ (Kill \/ Restart) => PiInv'
<1> SUFFICES ASSUME PiInv, Kill \/ Restart PROVE PiInv'
    OBVIOUS
<1>1. /\ RestTyped /\ TaskTyped /\ AxisTyped /\ AxisWatched /\ OneFailureStops
    BY Parts DEF PiInv
<1>2. AxisTyped' /\ AxisWatched' /\ axis' = axis
    BY <1>1 DEF Kill, Restart, AxisTyped, AxisWatched, axisVars
<1>3. RestTyped'
  <2>1. <<>> \in Seq(Commands) /\ Len(<<>>) <= MaxQueue
      BY PiAssumption, IdleLengths
  <2> QED
      BY <1>1, <2>1 DEF Kill, Restart, RestTyped, Modes, envVars
<1>4. CASE Kill
  <2>1. /\ pc' = "off" /\ ops' = <<>> /\ then' = "off" /\ failed' = 3
      BY <1>4, IdleLengths DEF Kill
  <2>2. ops' \in IdleTails /\ TaskTyped'
      BY <2>1 DEF IdleTails, TaskTyped, Places
  <2>3. TypeOK'
      BY <1>2, <1>3, <2>2, TypedNext
  <2> QED
      BY <1>2, <2>1, <2>2, <2>3
      DEF PiInv, CallInv, OrderInv, StopInv, Arming, Stopping, OneFailureStops
<1>5. CASE Restart
  <2>1. GoOn("loop") /\ pc = "off"
      BY <1>5 DEF Restart
  <2>2. OneFailureStops'
      BY <1>1, <1>2, <2>1 DEF GoOn, OneFailureStops, Driving
  <2> QED
      BY <1>2, <1>3, <2>1, <2>2, GoneInv DEF Places
<1> QED
    BY <1>4, <1>5

-----------------------------------------------------------------------------
(* Every step *)

LEMMA StutterInv == PiInv /\ UNCHANGED vars => PiInv'
<1> SUFFICES ASSUME PiInv, UNCHANGED vars PROVE PiInv'
    OBVIOUS
<1>1. RestTyped /\ AxisTyped
    BY Parts
<1>2. UNCHANGED <<mode, ctlVars, taskVars, axis, unfed, envVars>>
    BY DEF vars, axisVars
<1>3. RestTyped' /\ AxisTyped'
    BY <1>1, <1>2 DEF RestTyped, AxisTyped, ctlVars, envVars
<1> QED
    BY <1>2, <1>3, KeptInv

LEMMA NextInv == PiInv /\ [Next]_vars => PiInv'
BY ArmStepInv, IdleStepInv, IdleDoneInv, StepInv, TorqueInv, AroundInv, LifeInv,
   StutterInv DEF Next, Program

\* What the proofs rest on holds in every reachable state.
THEOREM Inductive == Spec => []PiInv
BY InitInv, NextInv, PTL DEF Spec

\* Every variable keeps its type, and no queue or counter passes its bound.
THEOREM PiTyped == Spec => []TypeOK
<1>1. PiInv => TypeOK
    BY DEF PiInv
<1> QED
    BY <1>1, Inductive, PTL

\* arm_torque_control() and safe_idle() order their operations so that the axis
\* is never in closed loop without its watchdog, whatever raises and whoever is
\* killed.
THEOREM Watched == Spec => []AxisWatched
<1>1. PiInv => AxisWatched
    BY DEF PiInv
<1> QED
    BY <1>1, Inductive, PTL

\* safe_idle() survives the failure of any one of its operations: no torque is
\* left on a closed loop when it returns.
THEOREM FailureTolerated == Spec => []OneFailureStops
<1>1. PiInv => OneFailureStops
    BY DEF PiInv
<1> QED
    BY <1>1, Inductive, PTL

-----------------------------------------------------------------------------
(* The refinement of MotorGate *)

\* An axis is taken over while the controller is disarmed, with no torque standing
\* from the set-up on.
HandInv ==
    /\ Preparing => mode = "DISARMED"
    /\ Arming /\ ops \in ArmTails \ {ArmOps, Tail(ArmOps)} => axis.torque = 0
    /\ pc = "confirm" => axis.torque = 0


LEMMA TailsOfArming ==
    /\ Tail(ArmOps) = <<"setup", "watchdog", "feed", "closed">>
    /\ Head(ArmOps) = "clear" /\ Head(Tail(ArmOps)) = "setup"
BY DEF ArmOps

\* An operation of arming keeps a zero torque, and the set-up makes it one.
LEMMA HandArmStep ==
    ASSUME PiInv, HandInv, ArmStep
    PROVE  HandInv'
<1>1. /\ pc = "call" /\ then = "confirm" /\ mode' = mode /\ axis \in Axes
      /\ ops \in ArmTails /\ Arming /\ Preparing /\ mode = "DISARMED"
      /\ axis' = Applied(axis, Head(ops)) \/ axis' = axis
  <2>1. pc = "call" /\ then = "confirm" /\ mode' = mode
      BY DEF ArmStep, Raise
  <2>2. axis' = Applied(axis, Head(ops)) \/ axis' = axis
      BY DEF ArmStep, Reaches, axisVars
  <2>3. axis \in Axes
      BY Parts
  <2> QED
      BY <2>1, <2>2, <2>3 DEF HandInv, PiInv, CallInv, Arming, Preparing
<1>2. CASE Raise
    BY <1>1, <1>2 DEF Raise, Idle, Call, HandInv, Arming, Preparing
<1>3. CASE /\ axis' = Applied(axis, Head(ops)) /\ ops' = Tail(ops)
           /\ pc' \in {"confirm", "call"}
  <2>1. CASE ops = ArmOps
    <3>1. ops' = Tail(ArmOps) /\ Tail(ArmOps) # <<>>
        BY <1>3, <2>1, TailsOfArming
    <3>2. pc' = "call"
        BY <1>1, <1>3, <2>1, <3>1 DEF ArmStep, Raise, Idle, Call
    <3> QED
        BY <1>1, <3>1, <3>2 DEF HandInv, Arming, Preparing
  <2>2. CASE ops # ArmOps
    <3>1. ops \in ArmTails \ {ArmOps, Tail(ArmOps)} => axis.torque = 0
        BY <1>1 DEF HandInv
    <3>2. ops = Tail(ArmOps) => axis' = [axis EXCEPT !.torque = 0]
        BY <1>1, <1>3, TailsOfArming, Applications
    <3>3. Head(ops) \in {"clear", "setup", "watchdog", "feed", "closed"}
        BY <1>1, ArmTail
    <3>4. axis.torque = 0 => axis'.torque = 0
        BY <1>1, <1>3, <3>3, Applications DEF Axes
    <3>5. axis'.torque = 0
        BY <1>1, <2>2, <3>1, <3>2, <3>4 DEF Axes
    <3> QED
        BY <1>1, <3>5 DEF HandInv, Preparing
  <2> QED
      BY <2>1, <2>2
<1> QED
    BY <1>1, <1>2, <1>3 DEF ArmStep, Reaches

LEMMA HandStep ==
    ASSUME PiInv, HandInv, [Next]_vars
    PROVE  HandInv'
<1>1. CASE ArmStep
    BY <1>1, HandArmStep
<1>2. CASE Arm
  <2>1. CASE UNCHANGED taskVars
    <3>1. pc = "queue" /\ pc' = "queue"
        BY <1>2, <2>1 DEF Arm, Take, taskVars
    <3> QED
        BY <3>1 DEF HandInv, Preparing, Arming
  <2>2. CASE Call(ArmOps, "confirm") /\ MayArm
    <3>1. mode' = "DISARMED" /\ ops' = ArmOps /\ pc' = "call"
        BY <1>2, <2>2 DEF Arm, MayArm, Call
    <3> QED
        BY <3>1 DEF HandInv, Preparing, Arming
  <2> QED
      BY <1>2, <2>1, <2>2 DEF Arm
<1>3. CASE \/ \E command \in Commands : Type(command)
           \/ Signal \/ SafetyLoop \/ AxisFails \/ Wait \/ Expire \/ UNCHANGED vars
  <2>1. axis \in Axes
      BY Parts
  <2>2. UNCHANGED <<mode, pc, ops, then>> /\ axis'.torque = axis.torque
      BY <1>3, <2>1
      DEF Type, Signal, SafetyLoop, AxisFails, Wait, Expire, vars, taskVars, axisVars, Axes
  <2> QED
      BY <2>2 DEF HandInv, Preparing, Arming
<1>4. CASE IdleStep \/ IdleDone
  <2>1. ~Arming' /\ pc' # "confirm"
      BY <1>4 DEF IdleStep, IdleDone, Idle, Call, Arming, PiInv, CallInv
  <2> QED
      BY <2>1 DEF HandInv, Preparing
<1>5. CASE Loop \/ QueueEmpty \/ Zero \/ Disarm \/ Quit
  <2>1. ~Arming' /\ pc' # "confirm"
      BY <1>5 DEF Loop, QueueEmpty, Zero, Disarm, Quit, Take, Idle, Call, GoOn, Raise,
                  Arming, taskVars
  <2> QED
      BY <2>1 DEF HandInv, Preparing
<1>6. CASE Confirm \/ Feedback \/ Torque \/ Pace
  <2>1. ~Arming' /\ pc' # "confirm"
      BY <1>6 DEF Confirm, Feedback, Torque, Pace, FaultAndRaise, Fault, Raise, Idle, Call,
                  GoOn, Arming
  <2> QED
      BY <2>1 DEF HandInv, Preparing
<1>7. CASE Kill \/ Restart
  <2>1. ~Arming' /\ pc' # "confirm"
      BY <1>7 DEF Kill, Restart, GoOn, Arming
  <2> QED
      BY <2>1 DEF HandInv, Preparing
<1> QED
    BY <1>1, <1>2, <1>3, <1>4, <1>5, <1>6, <1>7 DEF Next, Program

\* What the state of the gate is, before a step and after it.
LEMMA GateStates ==
    /\ mode = "DISARMED" /\ Preparing => GateState = "prepare"
    /\ mode \in Active /\ pc # "off" => GateState = "drive"
    /\ mode = "FAULT" /\ pc # "off" => GateState = "fault"
    /\ (mode = "DISARMED" /\ ~Preparing) \/ pc = "off" => GateState = "off"
    /\ mode' = "DISARMED" /\ Preparing' => GateState' = "prepare"
    /\ mode' \in Active /\ pc' # "off" => GateState' = "drive"
    /\ mode' = "FAULT" /\ pc' # "off" => GateState' = "fault"
    /\ (mode' = "DISARMED" /\ ~Preparing') \/ pc' = "off" => GateState' = "off"
BY DEF GateState, Preparing, Arming, Active

LEMMA GateNames ==
    "off" # "prepare" /\ "off" # "drive" /\ "prepare" # "drive" /\ "fault" # "drive"
OBVIOUS

\* The kinds of step of the gate.
LEMMA GateStill ==
    ASSUME GateState' = GateState, zeroValid' = zeroValid, pc # "off", pc' # "off",
           GateState = "drive" => axis'.torque = axis.torque
    PROVE  UNCHANGED Gate!vars
BY DEF Gate!vars

LEMMA GateDrive ==
    ASSUME GateState = "drive", GateState' = "drive", zeroValid' = zeroValid,
           pc # "off", pc' # "off", axis \in Axes, axis' \in Axes
    PROVE  Gate!Drive
BY DEF Gate!Drive, Gate!Torques, Axes

LEMMA GateTrip ==
    ASSUME GateState # "fault", GateState' = "fault", zeroValid' = zeroValid,
           pc # "off", pc' # "off"
    PROVE  Gate!Trip
BY DEF Gate!Trip

LEMMA GateStop ==
    ASSUME GateState' = "off", zeroValid' = zeroValid, pc # "off", pc' # "off"
    PROVE  Gate!Stop
BY DEF Gate!Stop

LEMMA GateEnd == pc' = "off" => Gate!End
BY GateStates DEF Gate!End

\* A step of a task that neither arms nor ends, in the same mode.
LEMMA GateSame ==
    ASSUME mode \in Modes, mode' = mode, zeroValid' = zeroValid, axis' = axis,
           ~Preparing, ~Preparing', pc # "off", pc' # "off"
    PROVE  UNCHANGED Gate!vars
<1>1. GateState' = GateState
    BY GateStates DEF Modes
<1> QED
    BY <1>1, GateStill

-----------------------------------------------------------------------------
(* Every step is a step of the gate, or none *)

LEMMA GateCall ==
    ASSUME PiInv, HandInv, ArmStep \/ IdleStep \/ IdleDone, PiInv'
    PROVE  Gate!Next \/ UNCHANGED Gate!vars
<1>1. mode \in Modes /\ axis \in Axes /\ axis' \in Axes /\ zeroValid' = zeroValid
    BY Parts DEF PiInv, TypeOK, RestTyped, Axes, ArmStep, IdleStep, IdleDone, ctlVars
<1>2. CASE ArmStep
  <2>1. /\ pc = "call" /\ Preparing /\ mode = "DISARMED" /\ mode' = mode
        /\ pc' \in {"call", "confirm"}
      BY <1>2 DEF ArmStep, Raise, Idle, Call, HandInv, Preparing, Arming
  <2>2. CASE Raise
    <3>1. ~Preparing'
        BY <2>2 DEF Raise, Idle, Call, Preparing, Arming
    <3>2. GateState' = "off"
        BY <2>1, <3>1, GateStates
    <3> QED
        BY <1>1, <2>1, <3>2, GateStop DEF Gate!Next
  <2>3. CASE then' = then
    <3>1. Preparing'
        BY <1>2, <2>1, <2>3 DEF ArmStep, Preparing, Arming
    <3>2. GateState = "prepare" /\ GateState' = "prepare"
        BY <2>1, <3>1, GateStates
    <3> QED
        BY <1>1, <2>1, <3>2, GateStill
  <2> QED
      BY <1>2, <2>2, <2>3 DEF ArmStep
<1>3. CASE IdleStep
  <2>1. /\ pc = "call" /\ pc' = "call" /\ mode' = mode /\ ~Preparing /\ ~Preparing'
      BY <1>3 DEF IdleStep, Preparing, Arming
  <2>2. CASE mode \in Active
      BY <1>1, <2>1, <2>2, GateStates, GateDrive DEF Gate!Next
  <2>3. CASE mode \notin Active
    <3>1. GateState' = GateState /\ GateState # "drive"
        BY <1>1, <2>1, <2>3, GateStates DEF Modes
    <3> QED
        BY <1>1, <2>1, <3>1, GateStill
  <2> QED
      BY <2>2, <2>3
<1>4. CASE IdleDone
  <2>1. /\ pc = "call" /\ ~Preparing /\ axis' = axis
      BY <1>4 DEF IdleDone, Preparing, Arming, axisVars
  <2>2. CASE then \in {"raise", "main"}
    <3>1. pc' = "call" /\ ~Preparing' /\ mode' = mode
        BY <1>4, <2>2 DEF IdleDone, Idle, Call, Preparing, Arming
    <3> QED
        BY <1>1, <2>1, <3>1, GateSame
  <2>3. CASE then = "disarmed"
    <3>1. pc' = "queue" /\ mode' = "DISARMED" /\ ~Preparing'
        BY <1>4, <2>3 DEF IdleDone, Preparing, Arming
    <3>2. GateState' = "off"
        BY <3>1, GateStates
    <3> QED
        BY <1>1, <2>1, <3>1, <3>2, GateStop DEF Gate!Next
  <2>4. CASE then = "off"
      BY <1>4, <2>4, GateEnd DEF IdleDone, Gate!Next
  <2>5. CASE then \in {"queue", "pace", "loop"}
    <3>1. pc' = then /\ mode' = mode /\ ~Preparing'
        BY <1>4, <2>5 DEF IdleDone, Preparing, Arming
    <3> QED
        BY <1>1, <2>1, <2>5, <3>1, GateSame
  <2> QED
      BY <1>4, <2>2, <2>3, <2>4, <2>5 DEF IdleDone, PiInv, CallInv
<1> QED
    BY <1>2, <1>3, <1>4

LEMMA GateCommand ==
    ASSUME PiInv, Loop \/ QueueEmpty \/ Zero \/ Arm \/ Disarm \/ Quit
    PROVE  Gate!Next \/ UNCHANGED Gate!vars
<1>1. mode \in Modes /\ zeroValid \in BOOLEAN
    BY Parts DEF RestTyped
<1>2. CASE Loop \/ QueueEmpty \/ Disarm \/ Quit
  <2>1. /\ mode' = mode /\ zeroValid' = zeroValid /\ axis' = axis
        /\ ~Preparing /\ ~Preparing' /\ pc # "off" /\ pc' # "off"
      BY <1>2 DEF Loop, QueueEmpty, Disarm, Quit, Take, Idle, Call, GoOn, Preparing, Arming,
                  ctlVars, axisVars, taskVars
  <2> QED
      BY <1>1, <2>1, GateSame
<1>3. CASE Zero
  <2>1. /\ mode' = mode /\ axis' = axis
        /\ ~Preparing /\ ~Preparing' /\ pc # "off" /\ pc' # "off"
      BY <1>3 DEF Zero, Take, Raise, Idle, Call, Preparing, Arming, axisVars, taskVars
  <2>2. CASE mode = "DISARMED" /\ zeroValid'
    <3>1. GateState = "off" /\ GateState' = "off"
        BY <2>1, <2>2, GateStates
    <3>2. zeroValid' \in BOOLEAN
        BY <1>1, <1>3 DEF Zero
    <3> QED
        BY <2>1, <2>2, <3>1, <3>2 DEF Gate!Save, Gate!Next
  <2>3. CASE zeroValid' = zeroValid
      BY <1>1, <2>1, <2>3, GateSame
  <2> QED
      BY <1>3, <2>2, <2>3 DEF Zero
<1>4. CASE Arm
  <2>1. /\ pc = "queue" /\ ~Preparing /\ axis' = axis /\ mode' = mode
        /\ zeroValid' = zeroValid
      BY <1>4 DEF Arm, Take, Preparing, Arming, axisVars
  <2>2. CASE UNCHANGED taskVars
      BY <1>1, <2>1, <2>2, GateSame DEF taskVars, Preparing, Arming
  <2>3. CASE MayArm /\ Call(ArmOps, "confirm")
    <3>1. mode = "DISARMED" /\ zeroValid /\ pc' = "call" /\ Preparing'
        BY <2>3 DEF MayArm, Call, Preparing, Arming
    <3>2. GateState = "off" /\ GateState' = "prepare"
        BY <2>1, <3>1, GateStates
    <3> QED
        BY <2>1, <3>1, <3>2 DEF Gate!Start, Gate!Next
  <2> QED
      BY <1>4, <2>2, <2>3 DEF Arm
<1> QED
    BY <1>2, <1>3, <1>4

LEMMA GateRound ==
    ASSUME PiInv, HandInv, Confirm \/ Feedback \/ Torque \/ Pace, PiInv'
    PROVE  Gate!Next \/ UNCHANGED Gate!vars
<1>1. /\ mode \in Modes /\ axis \in Axes /\ axis' \in Axes /\ zeroValid' = zeroValid
      /\ pc \in {"confirm", "feedback", "torque", "pace"} /\ pc' # "off"
  <2>1. pc' # "off"
      BY DEF Confirm, Feedback, Torque, Pace, FaultAndRaise, Fault, Raise, Idle, Call, GoOn
  <2> QED
      BY <2>1, Parts
      DEF PiInv, TypeOK, RestTyped, Axes, Confirm, Feedback, Torque, Pace, ctlVars
<1>2. ASSUME NEW next, Fault(next), mode # "FAULT", next # "confirm"
      PROVE  Gate!Next
  <2>1. mode' = "FAULT" /\ GateState' = "fault"
      BY <1>1, <1>2, GateStates DEF Fault
  <2>2. GateState # "fault"
      BY <1>1, <1>2, GateStates, GateNames DEF Modes
  <2> QED
      BY <1>1, <2>1, <2>2, GateTrip DEF Gate!Next
<1>3. CASE Confirm
  <2>1. mode = "DISARMED" /\ Preparing /\ pc = "confirm" /\ axis' = axis
        /\ axis.torque = 0 /\ GateState = "prepare"
      BY <1>3, GateStates DEF Confirm, HandInv, Preparing, axisVars
  <2>2. CASE mode' = "SWING_UP" /\ GoOn("queue")
    <3>1. GateState' = "drive"
        BY <1>1, <2>2, GateStates DEF Active
    <3> QED
        BY <1>1, <2>1, <3>1 DEF Gate!HandOver, Gate!Next
  <2>3. CASE Fault("queue")
      BY <1>2, <2>1, <2>3
  <2>4. CASE Raise
    <3>1. mode' = "DISARMED" /\ ~Preparing'
        BY <2>1, <2>4 DEF Raise, Idle, Call, Preparing, Arming
    <3>2. GateState' = "off"
        BY <3>1, GateStates
    <3> QED
        BY <1>1, <3>2, GateStop DEF Gate!Next
  <2> QED
      BY <1>3, <2>2, <2>3, <2>4 DEF Confirm
<1>4. CASE Feedback
  <2>1. pc = "feedback" /\ ~Preparing /\ axis' = axis
      BY <1>4 DEF Feedback, Preparing, Arming, axisVars
  <2>2. CASE FaultAndRaise
    <3>1. CASE mode \in Active
        BY <1>2, <2>2, <3>1 DEF FaultAndRaise, Active
    <3>2. CASE mode \notin Active
      <4>1. mode' = mode /\ ~Preparing'
          BY <2>2, <3>2 DEF FaultAndRaise, Raise, Idle, Call, Preparing, Arming
      <4> QED
          BY <1>1, <2>1, <4>1, GateSame
    <3> QED
        BY <3>1, <3>2
  <2>3. CASE Fault("pace") /\ mode \in Active
      BY <1>2, <2>3 DEF Active
  <2>4. CASE mode \in Active /\ mode' \in Active
    <3>1. GateState = "drive" /\ GateState' = "drive"
        BY <1>1, <2>4, GateStates
    <3> QED
        BY <1>1, <2>1, <3>1, GateStill
  <2>5. CASE GoOn("pace") /\ mode' = mode
      BY <1>1, <2>1, <2>5, GateSame DEF GoOn, Preparing, Arming
  <2> QED
      BY <1>4, <2>2, <2>3, <2>4, <2>5 DEF Feedback
<1>5. CASE Torque
  <2>1. mode \in Active /\ mode # "FAULT" /\ GateState = "drive"
      BY <1>1, <1>5, GateStates DEF Torque, PiInv, CallInv, Active
  <2>2. CASE Fault("pace")
      BY <1>2, <2>1, <2>2
  <2>3. CASE mode' = mode
    <3>1. GateState' = "drive"
        BY <1>1, <2>1, <2>3, GateStates
    <3> QED
        BY <1>1, <2>1, <3>1, GateDrive DEF Gate!Next
  <2> QED
      BY <1>5, <2>2, <2>3 DEF Torque
<1>6. CASE Pace
  <2>1. CASE Fault("loop") /\ mode \in Active
      BY <1>2, <2>1 DEF Active
  <2>2. CASE GoOn("loop") /\ mode' = mode
      BY <1>1, <1>6, <2>2, GateSame DEF Pace, GoOn, Preparing, Arming, axisVars
  <2> QED
      BY <1>6, <2>1, <2>2 DEF Pace
<1> QED
    BY <1>3, <1>4, <1>5, <1>6

\* What happens around the program.
LEMMA GateAround ==
    ASSUME PiInv, HandInv,
           \/ \E command \in Commands : Type(command)
           \/ Signal \/ SafetyLoop \/ AxisFails \/ Wait \/ Expire \/ Kill \/ Restart
           \/ UNCHANGED vars
    PROVE  Gate!Next \/ UNCHANGED Gate!vars
<1>1. mode \in Modes /\ axis \in Axes
    BY Parts DEF RestTyped
<1>2. CASE Kill
    BY <1>2, GateEnd DEF Kill, Gate!Next
<1>3. CASE Restart
  <2>1. pc = "off" /\ ~zeroValid' /\ mode' = "DISARMED" /\ pc' = "loop" /\ ~Preparing'
        /\ zeroValid' \in BOOLEAN
      BY <1>3 DEF Restart, GoOn, Preparing, Arming
  <2>2. GateState = "off" /\ GateState' = "off"
      BY <2>1, GateStates
  <2> QED
      BY <2>1, <2>2 DEF Gate!vars
<1>4. CASE \/ \E command \in Commands : Type(command)
           \/ Signal \/ SafetyLoop \/ AxisFails \/ Wait \/ Expire \/ UNCHANGED vars
  <2>1. /\ UNCHANGED <<mode, pc, then, zeroValid>> /\ axis'.torque = axis.torque
      BY <1>1, <1>4 DEF Type, Signal, SafetyLoop, AxisFails, Wait, Expire, vars, ctlVars,
                        taskVars, axisVars, Axes
  <2>2. GateState' = GateState
    <3>1. Preparing' = Preparing
        BY <2>1 DEF Preparing, Arming
    <3> QED
        BY <2>1, <3>1 DEF GateState
  <2> QED
      BY <2>1, <2>2 DEF Gate!vars
<1> QED
    BY <1>2, <1>3, <1>4

\* The Raspberry Pi controller implements the gate: an axis is taken over with no
\* torque standing, only with a zero of this process, torque is commanded in a trial
\* alone, and a fault is left by disarming or with the process, whatever operation
\* raises and whenever the process is killed.
THEOREM GateKept == Spec => KeepsGate
<1>1. Init => Gate!Init /\ HandInv
  <2>1. Init => mode = "DISARMED" /\ ~Preparing /\ ~zeroValid /\ zeroValid \in BOOLEAN
      BY DEF Init, Preparing, Arming
  <2> QED
      BY <2>1, GateStates DEF Gate!Init, HandInv, Preparing, Init
<1>2. PiInv /\ HandInv /\ [Next]_vars => HandInv'
    BY HandStep
<1>3. PiInv /\ HandInv /\ PiInv' /\ [Next]_vars => [Gate!Next]_(Gate!vars)
    BY GateCall, GateCommand, GateRound, GateAround DEF Next, Program
<1> QED
    BY <1>1, <1>2, <1>3, Inductive, PTL DEF Spec, KeepsGate, Gate!Spec
=============================================================================
