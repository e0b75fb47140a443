--------------------------- MODULE DriveLinkProofs ---------------------------
(***************************************************************************)
(* Proofs about DriveLink for any number of lost messages, any watchdog time *)
(* and any health limit.  The sequences are data: the first lemmas say what   *)
(* stands at each position, the next what a message does to the axis; the     *)
(* inductive invariant is LinkInv, and each action is argued from those.      *)
(***************************************************************************)
EXTENDS DriveLink, TLAPS, SequenceTheorems

-----------------------------------------------------------------------------
(* What is inductive about the sequences *)

\* What a sequence was begun in still holds while it runs.
ContextInv ==
    /\ task \in {"tune", "swing"} => ctl = "off"
    /\ task = "handoff" => /\ ctl = "hold"
                           /\ axis.error \/ (axis.closed /\ axis.watchdog)
    /\ task = "clear" => ctl \in Stopped
    /\ InTrial => healthErrs < MaxHealthErrs

\* A value that was read back as expected is still the axis's own, unless the
\* axis has failed; one that was not has been noted.
Seen(P) == bad \/ axis.error \/ P

TuneSeen ==
    /\ at > 7 => Seen(axis.control = "torque")
    /\ at > 8 => Seen(axis.input = "passthrough")
    /\ at > 9 => Seen(axis.closed)
    /\ at > 14 => Seen(axis.watchdog)
    /\ at > 15 => ~bad

SwingSeen ==
    /\ at > 9 => Seen(axis.control = "position")
    /\ at > 10 => Seen(axis.input = "filtered")
    /\ at > 11 => Seen(axis.closed)
    /\ at > 18 => Seen(axis.watchdog)
    /\ at > 20 => Seen(axis.target = "zero")
    /\ at > 21 => ~bad

HandoffSeen ==
    /\ at > 6 => Seen(axis.control = "torque")
    /\ at > 8 => Seen(axis.input = "passthrough")
    /\ at > 10 => Seen(axis.limit = "swing")
    /\ at > 12 => Seen(axis.gain = "swing")
    /\ at > 14 => ~bad

SeenInv == /\ task = "tune" => TuneSeen
           /\ task = "swing" => SwingSeen
           /\ task = "handoff" => HandoffSeen

\* How far a stop is: one message that arrived is enough.
StopTasks == {"refuse", "fault", "idle", "disarm", "clear"}
StopInv ==
    /\ task \in StopTasks => /\ at >= 2 /\ lost = 0 => ~Pushing
                             /\ at >= 3 /\ lost <= 1 => ~Pushing
    /\ MaxLost <= 1 /\ task \in {"tune", "swing"} /\ at = 1 => ~Pushing

LinkInv == /\ TypeOK /\ ContextInv /\ SeenInv /\ StopInv
           /\ VerifiedTrial /\ OneLossStops

-----------------------------------------------------------------------------
(* What the sequences write *)

\* The drive's state space.
Axes == [closed : BOOLEAN, control : {"torque", "position"},
         input : {"passthrough", "filtered"},
         limit : {"saved", "center", "swing"},
         gain : {"saved", "center", "swing"},
         watchdog : BOOLEAN, error : BOOLEAN, torque : {0, 1},
         target : {"none", "here", "zero"}]

\* Everything the sequences write.
Writes ==
    {Torque(0), Position("here"), Position("zero"), ClearErrors,
     Write("watchdog", TRUE), Write("watchdog", FALSE),
     Write("closed", TRUE), Write("closed", FALSE),
     Write("input", "passthrough"), Write("input", "filtered"),
     Write("control", "torque"), Write("control", "position"),
     Write("limit", "center"), Write("limit", "swing"),
     Write("gain", "center"), Write("gain", "swing")}
WriteOps == {"c", "q", "sc", "w"}

-----------------------------------------------------------------------------
(* What stands where in the sequences *)

LEMMA TuneSteps ==
    /\ Len(TorqueArming) = 17
    /\ TorqueArming[1] = Write("watchdog", FALSE)
    /\ TorqueArming[2] = ClearErrors
    /\ TorqueArming[3] = Write("input", "passthrough")
    /\ TorqueArming[4] = Write("control", "torque")
    /\ TorqueArming[5] = Torque(0)
    /\ TorqueArming[6] = Write("closed", TRUE)
    /\ TorqueArming[7] = Read("control", "torque")
    /\ TorqueArming[8] = Read("input", "passthrough")
    /\ TorqueArming[9] = Read("closed", TRUE)
    /\ TorqueArming[10] = Read("error", FALSE)
    /\ TorqueArming[11] = Check
    /\ TorqueArming[12] = Write("watchdog", TRUE)
    /\ TorqueArming[13] = Torque(0)
    /\ TorqueArming[14] = Read("watchdog", TRUE)
    /\ TorqueArming[15] = Check
    /\ TorqueArming[16] = Feedback
    /\ TorqueArming[17] = Torque(0)
BY DEF TorqueArming

LEMMA SwingSteps ==
    /\ Len(PositionArming) = 23
    /\ PositionArming[1] = Write("watchdog", FALSE)
    /\ PositionArming[2] = ClearErrors
    /\ PositionArming[3] = Write("limit", "center")
    /\ PositionArming[4] = Write("gain", "center")
    /\ PositionArming[5] = Write("input", "filtered")
    /\ PositionArming[6] = Write("control", "position")
    /\ PositionArming[7] = Position("here")
    /\ PositionArming[8] = Write("closed", TRUE)
    /\ PositionArming[9] = Read("control", "position")
    /\ PositionArming[10] = Read("input", "filtered")
    /\ PositionArming[11] = Read("closed", TRUE)
    /\ PositionArming[12] = Read("error", FALSE)
    /\ PositionArming[13] = Read("limit", "center")
    /\ PositionArming[14] = Read("gain", "center")
    /\ PositionArming[15] = Check
    /\ PositionArming[16] = Write("watchdog", TRUE)
    /\ PositionArming[17] = Position("zero")
    /\ PositionArming[18] = Read("watchdog", TRUE)
    /\ PositionArming[19] = Position("zero")
    /\ PositionArming[20] = Read("target", "zero")
    /\ PositionArming[21] = Check
    /\ PositionArming[22] = Feedback
    /\ PositionArming[23] = Position("zero")
BY DEF PositionArming

LEMMA HandoffSteps ==
    /\ Len(Handoff) = 14
    /\ Handoff[1] = Write("input", "passthrough")
    /\ Handoff[2] = Torque(0)
    /\ Handoff[3] = Write("limit", "swing")
    /\ Handoff[4] = Write("gain", "swing")
    /\ Handoff[5] = Torque(0)
    /\ Handoff[6] = Read("control", "torque")
    /\ Handoff[7] = Torque(0)
    /\ Handoff[8] = Read("input", "passthrough")
    /\ Handoff[9] = Torque(0)
    /\ Handoff[10] = Read("limit", "swing")
    /\ Handoff[11] = Torque(0)
    /\ Handoff[12] = Read("gain", "swing")
    /\ Handoff[13] = Torque(0)
    /\ Handoff[14] = Check
BY DEF Handoff

\* What follows the zero torque and the IDLE request of a stop.
StopTail == {Torque(0), Write("closed", FALSE), Write("watchdog", FALSE),
             IfIdle, ClearErrors, Read("error", FALSE)}

LEMMA IdleSteps ==
    /\ Len(IdleRequest) = 3
    /\ IdleRequest[1] = Torque(0)
    /\ IdleRequest[2] = Write("closed", FALSE)
    /\ IdleRequest[3] = Write("watchdog", FALSE)
BY DEF IdleRequest

LEMMA TaskSteps ==
    /\ Steps["tune"] = TorqueArming /\ Steps["swing"] = PositionArming
    /\ Steps["handoff"] = Handoff
    /\ Steps["fault"] = IdleRequest /\ Steps["idle"] = IdleRequest
    /\ Steps["refuse"] = IdleRequest \o IdleRequest
    /\ Steps["disarm"] = IdleRequest \o <<IfIdle, Write("watchdog", FALSE)>>
    /\ Steps["clear"] = IdleRequest \o <<ClearErrors, Read("error", FALSE)>>
    /\ DOMAIN Steps = {"tune", "swing", "handoff"} \cup StopTasks
BY DEF Steps, StopTasks

\* A stop begins with zero torque and IDLE, and nothing after them undoes them.
IsStop(s) ==
    /\ Len(s) \in 3 .. 6
    /\ s[1] = Torque(0) /\ s[2] = Write("closed", FALSE)
    /\ \A i \in 3 .. Len(s) : s[i] \in StopTail

LEMMA IdleIsStop == IsStop(IdleRequest)
<1>1. ASSUME NEW i \in 3 .. Len(IdleRequest) PROVE IdleRequest[i] \in StopTail
  <2>1. i = 3
      BY IdleSteps
  <2> QED
      BY <2>1, IdleSteps DEF StopTail
<1> QED
    BY <1>1, IdleSteps DEF IsStop

\* It stays a stop when more of the same is appended.
LEMMA LongerStop ==
    ASSUME NEW rest \in Seq(StopTail), Len(rest) \in 2 .. 3
    PROVE  IsStop(IdleRequest \o rest)
<1> DEFINE all == IdleRequest \o rest
<1>1. IdleRequest \in Seq(StopTail)
  <2>1. /\ Torque(0) \in StopTail /\ Write("closed", FALSE) \in StopTail
        /\ Write("watchdog", FALSE) \in StopTail
      BY DEF StopTail
  <2> HIDE DEF StopTail
  <2> QED
      BY <2>1 DEF IdleRequest, Torque, Write
<1>2. /\ Len(all) = 3 + Len(rest)
      /\ \A i \in 1 .. 3 + Len(rest) :
            all[i] = IF i <= 3 THEN IdleRequest[i] ELSE rest[i - 3]
  <2>1. /\ Len(IdleRequest \o rest) = Len(IdleRequest) + Len(rest)
        /\ \A i \in 1 .. Len(IdleRequest) + Len(rest) :
              (IdleRequest \o rest)[i]
                 = IF i <= Len(IdleRequest) THEN IdleRequest[i]
                   ELSE rest[i - Len(IdleRequest)]
      BY <1>1, ConcatProperties, Zenon
  <2>2. Len(IdleRequest) = 3
      BY IdleSteps
  <2> QED
      BY <2>1, <2>2, Zenon
<1> HIDE DEF all
<1>3. all[1] = Torque(0) /\ all[2] = Write("closed", FALSE)
  <2>1. 1 \in 1 .. 3 + Len(rest) /\ 2 \in 1 .. 3 + Len(rest)
      OBVIOUS
  <2>2. all[1] = IdleRequest[1] /\ all[2] = IdleRequest[2]
      BY <1>2, <2>1
  <2> QED
      BY <2>2, IdleSteps, Zenon
<1>4. ASSUME NEW i \in 3 .. Len(all) PROVE all[i] \in StopTail
  <2>1. CASE i = 3
    <3>1. 3 \in 1 .. 3 + Len(rest)
        OBVIOUS
    <3>2. all[3] = IdleRequest[3]
        BY <1>2, <3>1
    <3>3. all[3] = Write("watchdog", FALSE)
        BY <3>2, IdleSteps, Zenon
    <3> QED
        BY <2>1, <3>3 DEF StopTail
  <2>2. CASE i > 3
    <3>1. /\ i - 3 \in 1 .. Len(rest) /\ i \in 1 .. 3 + Len(rest) /\ ~(i <= 3)
        BY <1>2, <2>2
    <3>2. all[i] = rest[i - 3]
        BY <1>2, <3>1
    <3> QED
        BY <3>1, <3>2
  <2> QED
      BY <2>1, <2>2, <1>2
<1>5. IsStop(all)
    BY <1>2, <1>3, <1>4 DEF IsStop
<1> QED
    BY <1>5 DEF all

LEMMA StopSteps ==
    ASSUME NEW t \in StopTasks
    PROVE  IsStop(Steps[t])
<1>1. CASE t \in {"fault", "idle"}
    BY <1>1, TaskSteps, IdleIsStop
<1>2. CASE t = "refuse"
  <2>1. IdleRequest \in Seq(StopTail) /\ Len(IdleRequest) \in 2 .. 3
      BY DEF IdleRequest, StopTail
  <2> QED
      BY <1>2, <2>1, TaskSteps, LongerStop
<1>3. CASE t = "disarm"
  <2> DEFINE rest == <<IfIdle, Write("watchdog", FALSE)>>
  <2>1. rest \in Seq(StopTail) /\ Len(rest) \in 2 .. 3
    <3>1. IfIdle \in StopTail /\ Write("watchdog", FALSE) \in StopTail
        BY DEF StopTail
    <3> QED
        BY <3>1 DEF IfIdle, Write
  <2> QED
      BY <1>3, <2>1, TaskSteps, LongerStop
<1>4. CASE t = "clear"
  <2> DEFINE rest == <<ClearErrors, Read("error", FALSE)>>
  <2>1. rest \in Seq(StopTail) /\ Len(rest) \in 2 .. 3
    <3>1. ClearErrors \in StopTail /\ Read("error", FALSE) \in StopTail
        BY DEF StopTail
    <3> QED
        BY <3>1 DEF ClearErrors, Read
  <2> QED
      BY <1>4, <2>1, TaskSteps, LongerStop
<1> QED
    BY <1>1, <1>2, <1>3, <1>4 DEF StopTasks

-----------------------------------------------------------------------------
(* The same by the kind of message *)

LEMMA TuneOps ==
    /\ TorqueArming[1].op = "w" /\ TorqueArming[2].op = "sc"
    /\ TorqueArming[3].op = "w" /\ TorqueArming[4].op = "w"
    /\ TorqueArming[5].op = "c" /\ TorqueArming[6].op = "w"
    /\ TorqueArming[7].op = "r" /\ TorqueArming[8].op = "r"
    /\ TorqueArming[9].op = "r" /\ TorqueArming[10].op = "r"
    /\ TorqueArming[11].op = "check" /\ TorqueArming[12].op = "w"
    /\ TorqueArming[13].op = "c" /\ TorqueArming[14].op = "r"
    /\ TorqueArming[15].op = "check" /\ TorqueArming[16].op = "f"
    /\ TorqueArming[17].op = "c"
BY TuneSteps DEF Write, Torque, ClearErrors, Read, Check, Feedback

LEMMA SwingOps ==
    /\ PositionArming[1].op = "w" /\ PositionArming[2].op = "sc"
    /\ PositionArming[3].op = "w" /\ PositionArming[4].op = "w"
    /\ PositionArming[5].op = "w" /\ PositionArming[6].op = "w"
    /\ PositionArming[7].op = "q" /\ PositionArming[8].op = "w"
    /\ PositionArming[9].op = "r" /\ PositionArming[10].op = "r"
    /\ PositionArming[11].op = "r" /\ PositionArming[12].op = "r"
    /\ PositionArming[13].op = "r" /\ PositionArming[14].op = "r"
    /\ PositionArming[15].op = "check" /\ PositionArming[16].op = "w"
    /\ PositionArming[17].op = "q" /\ PositionArming[18].op = "r"
    /\ PositionArming[19].op = "q" /\ PositionArming[20].op = "r"
    /\ PositionArming[21].op = "check" /\ PositionArming[22].op = "f"
    /\ PositionArming[23].op = "q"
BY SwingSteps DEF Write, Position, ClearErrors, Read, Check, Feedback

LEMMA HandoffOps ==
    /\ Handoff[1].op = "w" /\ Handoff[2].op = "c" /\ Handoff[3].op = "w"
    /\ Handoff[4].op = "w" /\ Handoff[5].op = "c" /\ Handoff[6].op = "r"
    /\ Handoff[7].op = "c" /\ Handoff[8].op = "r" /\ Handoff[9].op = "c"
    /\ Handoff[10].op = "r" /\ Handoff[11].op = "c" /\ Handoff[12].op = "r"
    /\ Handoff[13].op = "c" /\ Handoff[14].op = "check"
BY HandoffSteps DEF Write, Torque, Read, Check

\* Where arming for torque writes, reads and compares.
LEMMA TunePlaces ==
    ASSUME NEW i \in 1 .. 17
    PROVE  /\ TorqueArming[i].op \in WriteOps => i \in {1, 2, 3, 4, 5, 6, 12, 13, 17}
           /\ TorqueArming[i].op = "r" => i \in {7, 8, 9, 10, 14}
           /\ TorqueArming[i].op = "f" => i = 16
           /\ TorqueArming[i].op = "check" => i \in {11, 15}
           /\ TorqueArming[i].op # "idle?"
<1>1. i \in {1, 2, 3, 4, 5, 6, 7, 8, 9, 10, 11, 12, 13, 14, 15, 16, 17}
    OBVIOUS
<1> QED
    BY <1>1, TuneOps DEF WriteOps

LEMMA SwingPlaces ==
    ASSUME NEW i \in 1 .. 23
    PROVE  /\ PositionArming[i].op \in WriteOps
                => i \in {1, 2, 3, 4, 5, 6, 7, 8, 16, 17, 19, 23}
           /\ PositionArming[i].op = "r" => i \in {9, 10, 11, 12, 13, 14, 18, 20}
           /\ PositionArming[i].op = "f" => i = 22
           /\ PositionArming[i].op = "check" => i \in {15, 21}
           /\ PositionArming[i].op # "idle?"
<1>1. i \in {1, 2, 3, 4, 5, 6, 7, 8, 9, 10, 11, 12, 13, 14, 15, 16, 17, 18, 19,
             20, 21, 22, 23}
    OBVIOUS
<1> QED
    BY <1>1, SwingOps DEF WriteOps

LEMMA HandoffPlaces ==
    ASSUME NEW i \in 1 .. 14
    PROVE  /\ Handoff[i].op \in WriteOps => i \in {1, 2, 3, 4, 5, 7, 9, 11, 13}
           /\ Handoff[i].op = "r" => i \in {6, 8, 10, 12}
           /\ Handoff[i].op # "f"
           /\ Handoff[i].op = "check" => i = 14
           /\ Handoff[i].op # "idle?"
<1>1. i \in {1, 2, 3, 4, 5, 6, 7, 8, 9, 10, 11, 12, 13, 14}
    OBVIOUS
<1> QED
    BY <1>1, HandoffOps DEF WriteOps

\* Every message with an effect is one of Writes.
LEMMA EveryWrite ==
    ASSUME NEW t \in DOMAIN Steps, NEW i \in 1 .. Len(Steps[t]),
           Steps[t][i].op \in WriteOps
    PROVE  Steps[t][i] \in Writes
<1>1. CASE t = "tune"
  <2>1. i \in {1, 2, 3, 4, 5, 6, 12, 13, 17} /\ Steps[t] = TorqueArming
      BY <1>1, TaskSteps, TuneSteps, TunePlaces
  <2> QED
      BY <2>1, TuneSteps DEF Writes
<1>2. CASE t = "swing"
  <2>1. /\ i \in {1, 2, 3, 4, 5, 6, 7, 8, 16, 17, 19, 23}
        /\ Steps[t] = PositionArming
      BY <1>2, TaskSteps, SwingSteps, SwingPlaces
  <2> QED
      BY <2>1, SwingSteps DEF Writes
<1>3. CASE t = "handoff"
  <2>1. i \in {1, 2, 3, 4, 5, 7, 9, 11, 13} /\ Steps[t] = Handoff
      BY <1>3, TaskSteps, HandoffSteps, HandoffPlaces
  <2> QED
      BY <2>1, HandoffSteps DEF Writes
<1>4. CASE t \in StopTasks
  <2>1. i = 1 \/ i = 2 \/ i \in 3 .. Len(Steps[t])
      BY <1>4, StopSteps DEF IsStop
  <2>2. \/ Steps[t][i] \in StopTail
        \/ Steps[t][i] = Torque(0) \/ Steps[t][i] = Write("closed", FALSE)
      BY <1>4, <2>1, StopSteps, Zenon DEF IsStop
  <2> QED
      BY <2>2 DEF StopTail, Writes, WriteOps, Write, Torque, ClearErrors, Read,
                  IfIdle
<1> QED
    BY <1>1, <1>2, <1>3, <1>4, TaskSteps

-----------------------------------------------------------------------------
(* What a message does to the axis *)

LEMMA AppliedTorque ==
    ASSUME NEW a \in Axes, NEW t \in {0, 1}
    PROVE  Applied(a, Torque(t)) = [a EXCEPT !.torque = t, !.control = "torque"]
BY DEF Applied, Torque, Axes

LEMMA AppliedPosition ==
    ASSUME NEW a \in Axes, NEW p \in {"here", "zero"}
    PROVE  Applied(a, Position(p)) = [a EXCEPT !.target = p]
BY DEF Applied, Position, Axes

LEMMA AppliedClear ==
    ASSUME NEW a \in Axes
    PROVE  Applied(a, ClearErrors) = [a EXCEPT !.error = FALSE]
BY DEF Applied, ClearErrors, Axes

LEMMA AppliedClosed ==
    ASSUME NEW a \in Axes, NEW v \in BOOLEAN
    PROVE  Applied(a, Write("closed", v)) = [a EXCEPT !.closed = v /\ ~a.error]
BY DEF Applied, Write, Axes

LEMMA AppliedWatchdog ==
    ASSUME NEW a \in Axes, NEW v \in BOOLEAN
    PROVE  Applied(a, Write("watchdog", v)) = [a EXCEPT !.watchdog = v]
BY DEF Applied, Write, Axes

LEMMA AppliedMode ==
    ASSUME NEW a \in Axes
    PROVE  /\ \A v \in {"passthrough", "filtered"} :
                 Applied(a, Write("input", v)) = [a EXCEPT !.input = v]
           /\ \A v \in {"torque", "position"} :
                 Applied(a, Write("control", v)) = [a EXCEPT !.control = v]
           /\ \A v \in {"center", "swing"} :
                 /\ Applied(a, Write("limit", v)) = [a EXCEPT !.limit = v]
                 /\ Applied(a, Write("gain", v)) = [a EXCEPT !.gain = v]
BY DEF Applied, Write, Axes

LEMMA AppliedTyped ==
    ASSUME NEW a \in Axes, NEW m \in Writes
    PROVE  Applied(a, m) \in Axes
<1>1. CASE m = Torque(0)
  <2>1. Applied(a, m) = [a EXCEPT !.torque = 0, !.control = "torque"]
      BY <1>1, AppliedTorque
  <2> QED
      BY <2>1 DEF Axes
<1>2. CASE m \in {Position("here"), Position("zero")}
  <2>1. PICK p \in {"here", "zero"} : Applied(a, m) = [a EXCEPT !.target = p]
      BY <1>2, AppliedPosition
  <2> QED
      BY <2>1 DEF Axes
<1>3. CASE m = ClearErrors
  <2>1. Applied(a, m) = [a EXCEPT !.error = FALSE]
      BY <1>3, AppliedClear
  <2> QED
      BY <2>1 DEF Axes
<1>4. CASE m \in {Write("closed", TRUE), Write("closed", FALSE)}
  <2>1. PICK v \in BOOLEAN : Applied(a, m) = [a EXCEPT !.closed = v /\ ~a.error]
      BY <1>4, AppliedClosed
  <2> QED
      BY <2>1 DEF Axes
<1>5. CASE m \in {Write("watchdog", TRUE), Write("watchdog", FALSE)}
  <2>1. PICK v \in BOOLEAN : Applied(a, m) = [a EXCEPT !.watchdog = v]
      BY <1>5, AppliedWatchdog
  <2> QED
      BY <2>1 DEF Axes
<1>6. CASE m \in {Write("input", "passthrough"), Write("input", "filtered")}
  <2>1. PICK v \in {"passthrough", "filtered"} :
           Applied(a, m) = [a EXCEPT !.input = v]
      BY <1>6, AppliedMode
  <2> QED
      BY <2>1 DEF Axes
<1>7. CASE m \in {Write("control", "torque"), Write("control", "position")}
  <2>1. PICK v \in {"torque", "position"} :
           Applied(a, m) = [a EXCEPT !.control = v]
      BY <1>7, AppliedMode
  <2> QED
      BY <2>1 DEF Axes
<1>8. CASE m \in {Write("limit", "center"), Write("limit", "swing")}
  <2>1. PICK v \in {"center", "swing"} : Applied(a, m) = [a EXCEPT !.limit = v]
      BY <1>8, AppliedMode
  <2> QED
      BY <2>1 DEF Axes
<1>9. CASE m \in {Write("gain", "center"), Write("gain", "swing")}
  <2>1. PICK v \in {"center", "swing"} : Applied(a, m) = [a EXCEPT !.gain = v]
      BY <1>9, AppliedMode
  <2> QED
      BY <2>1 DEF Axes
<1> QED
    BY <1>1, <1>2, <1>3, <1>4, <1>5, <1>6, <1>7, <1>8, <1>9, Zenon DEF Writes

-----------------------------------------------------------------------------
(* The initial states, and the steps outside the sequences *)

LEMMA Lengths ==
    ASSUME NEW t \in DOMAIN Steps
    PROVE  Len(Steps[t]) \in 3 .. 23
<1>1. CASE t \in StopTasks
  <2>1. Len(Steps[t]) \in 3 .. 6
      BY <1>1, StopSteps DEF IsStop
  <2> QED
      BY <2>1
<1>2. CASE t = "tune"
    BY <1>2, TaskSteps, TuneSteps
<1>3. CASE t = "swing"
    BY <1>3, TaskSteps, SwingSteps
<1>4. CASE t = "handoff"
    BY <1>4, TaskSteps, HandoffSteps
<1>5. t \in {"tune", "handoff", "swing"} \cup StopTasks
    BY TaskSteps
<1> QED
    BY <1>1, <1>2, <1>3, <1>4, <1>5

LEMMA TypedAxis == TypeOK => axis \in Axes
BY DEF TypeOK, Axes

LEMMA InitInv == Init => LinkInv
<1> SUFFICES ASSUME Init PROVE LinkInv
    OBVIOUS
<1>1. /\ ctl = "off" /\ task = "idle" /\ at = 1 /\ bad = FALSE /\ lost = 0
      /\ healthErrs = 0 /\ unfed = 0 /\ seen = FALSE
    BY DEF Init
<1>2. task \in DOMAIN Steps /\ task \in StopTasks /\ at <= Len(Steps[task]) + 1
  <2>1. task \in DOMAIN Steps /\ task \in StopTasks
      BY <1>1, TaskSteps DEF StopTasks
  <2>2. Len(Steps[task]) \in 3 .. 23
      BY <2>1, Lengths
  <2> QED
      BY <1>1, <2>1, <2>2
<1>3. axis \in Axes
    BY DEF Init, Axes
<1>4. TypeOK
  <2>1. /\ ctl \in Trials \cup Stopped /\ task \in DOMAIN Steps \cup {"none"}
        /\ bad \in BOOLEAN /\ seen \in BOOLEAN
      BY <1>1, <1>2 DEF Stopped
  <2>2. /\ lost \in 0 .. MaxLost /\ healthErrs \in 0 .. MaxHealthErrs
        /\ unfed \in 0 .. ExpireTime /\ at \in Nat \ {0}
      BY <1>1, LinkAssumption
  <2> QED
      BY <1>2, <1>3, <2>1, <2>2 DEF TypeOK, Axes
<1> QED
    BY <1>1, <1>4 DEF LinkInv, ContextInv, SeenInv, StopInv, VerifiedTrial,
                      OneLossStops, InTrial

\* An axis that drops out keeps every promise: an error is recorded on it.
LEMMA DropInv == LinkInv /\ (Expire \/ AxisFails) => LinkInv'
<1> SUFFICES ASSUME LinkInv, Expire \/ AxisFails PROVE LinkInv'
    OBVIOUS
<1>1. /\ axis' = [axis EXCEPT !.closed = FALSE, !.error = TRUE]
      /\ UNCHANGED <<ctl, task, at, bad, lost, healthErrs, seen, unfed>>
    BY DEF Expire, AxisFails
<1>2. axis \in Axes
    BY TypedAxis DEF LinkInv
<1>3. axis' \in Axes /\ axis'.error /\ ~axis'.closed
    BY <1>1, <1>2 DEF Axes
<1>4. TypeOK'
    BY <1>1, <1>3 DEF LinkInv, TypeOK, Axes
<1>5. ContextInv'
    BY <1>1, <1>3 DEF LinkInv, ContextInv, InTrial
<1>6. SeenInv'
    BY <1>1, <1>3 DEF LinkInv, SeenInv, TuneSeen, SwingSeen, HandoffSeen, Seen
<1>7. ~Pushing'
    BY <1>3 DEF Pushing
<1> QED
    BY <1>3, <1>4, <1>5, <1>6, <1>7
    DEF LinkInv, StopInv, VerifiedTrial, OneLossStops

\* A sequence begins with nothing read, nothing lost and the axis as it was.
LEMMA BegunInv ==
    ASSUME LinkInv, NEW name \in DOMAIN Steps, Begin(name), UNCHANGED axis,
           ctl' \in Trials \cup Stopped, healthErrs' \in 0 .. MaxHealthErrs,
           unfed' \in 0 .. ExpireTime, seen' \in BOOLEAN,
           name \in {"tune", "swing"}
              => task = "none" /\ ctl = "off" /\ ctl' = "off",
           name = "handoff" => task = "none" /\ ctl = "hold" /\ ctl' = "hold",
           name = "clear" => ctl' \in Stopped
    PROVE  LinkInv'
<1>1. task' = name /\ at' = 1 /\ bad' = FALSE /\ lost' = 0
    BY DEF Begin
<1>2. name # "none" /\ Len(Steps[name]) \in 3 .. 23
    BY Lengths, TaskSteps DEF StopTasks
<1>3. TypeOK'
  <2>1. at' \in Nat \ {0} /\ at' <= Len(Steps[task']) + 1 /\ lost' \in 0 .. MaxLost
      BY <1>1, <1>2, LinkAssumption
  <2>2. axis' \in Axes /\ bad' \in BOOLEAN /\ task' \in DOMAIN Steps
      BY <1>1, TypedAxis DEF LinkInv
  <2> QED
      BY <2>1, <2>2 DEF TypeOK, Axes
<1>4. ContextInv'
  <2>1. name = "handoff" => axis.error \/ (axis.closed /\ axis.watchdog)
      BY DEF LinkInv, VerifiedTrial, InTrial, ModeFits, Trials
  <2> QED
      BY <1>1, <1>2, <2>1 DEF ContextInv, InTrial
<1>5. SeenInv'
    BY <1>1 DEF SeenInv, TuneSeen, SwingSeen, HandoffSeen
<1>6. StopInv'
  <2>1. MaxLost <= 1 /\ name \in {"tune", "swing"} => ~Pushing
    <3> SUFFICES ASSUME MaxLost <= 1, name \in {"tune", "swing"} PROVE ~Pushing
        OBVIOUS
    <3>1. lost <= 1
        BY LinkAssumption DEF LinkInv, TypeOK
    <3> QED
        BY <3>1 DEF LinkInv, OneLossStops, Stopped
  <2>2. Pushing' = Pushing
      BY DEF Pushing
  <2> QED
      BY <1>1, <2>1, <2>2 DEF StopInv
<1> QED
    BY <1>1, <1>2, <1>3, <1>4, <1>5, <1>6
    DEF LinkInv, VerifiedTrial, OneLossStops, InTrial

LEMMA WaitedTyped == TypeOK => Waited \in 0 .. ExpireTime
BY LinkAssumption DEF TypeOK, Waited

LEMMA StartInv ==
    LinkInv /\ (\/ StartTuning \/ StartSwing \/ HandOver \/ TestStart
                \/ ClearFaults \/ Disarm \/ TripTrial \/ Restart) => LinkInv'
<1> SUFFICES ASSUME LinkInv,
                    \/ StartTuning \/ StartSwing \/ HandOver \/ TestStart
                    \/ ClearFaults \/ Disarm \/ TripTrial \/ Restart
             PROVE  LinkInv'
    OBVIOUS
<1>1. /\ ctl \in Trials \cup Stopped /\ healthErrs \in 0 .. MaxHealthErrs
      /\ unfed \in 0 .. ExpireTime /\ 0 \in 0 .. MaxHealthErrs
      /\ seen \in BOOLEAN
      /\ "off" \in Trials \cup Stopped
    BY LinkAssumption DEF LinkInv, TypeOK, Stopped
<1>2. PICK name \in DOMAIN Steps :
         /\ Begin(name) /\ UNCHANGED <<axis, unfed>>
         /\ ctl' \in {ctl, "off"} /\ healthErrs' \in {healthErrs, 0}
         /\ seen' = seen \/ seen' = FALSE
         /\ name \in {"tune", "swing"}
              => task = "none" /\ ctl = "off" /\ ctl' = "off"
         /\ name = "handoff" => task = "none" /\ ctl = "hold" /\ ctl' = "hold"
         /\ name = "clear" => ctl' \in Stopped
    BY TaskSteps
    DEF StartTuning, StartSwing, HandOver, TestStart, ClearFaults, Disarm,
        TripTrial, Restart, StopTasks
<1> QED
    BY <1>1, <1>2, BegunInv

\* The ticks of a trial keep what its arming verified.
LEMMA TrialInv == LinkInv /\ (TickTrial \/ HealthPoll) => LinkInv'
<1> SUFFICES ASSUME LinkInv, TickTrial \/ HealthPoll PROVE LinkInv'
    OBVIOUS
<1>1. /\ TypeOK /\ axis \in Axes /\ InTrial /\ task = "none" /\ ctl \in Trials
      /\ Waited \in 0 .. ExpireTime /\ 0 \in 0 .. ExpireTime
      /\ seen \in BOOLEAN /\ axis.error \in BOOLEAN
    BY TypedAxis, WaitedTyped, LinkAssumption
    DEF LinkInv, TickTrial, HealthPoll, InTrial, TypeOK
<1>2. /\ healthErrs \in 0 .. MaxHealthErrs /\ healthErrs < MaxHealthErrs
      /\ MaxHealthErrs \in Nat \ {0}
    BY <1>1, LinkAssumption DEF LinkInv, TypeOK, ContextInv
<1>3. ASSUME UNCHANGED <<ctl, task, at, bad, lost>>, axis' \in Axes,
             axis.error \/ ModeFits => (axis.error \/ ModeFits)',
             healthErrs' \in 0 .. MaxHealthErrs, healthErrs' < MaxHealthErrs,
             unfed' \in 0 .. ExpireTime, seen' \in BOOLEAN
      PROVE  LinkInv'
  <2>1. TypeOK'
      BY <1>1, <1>3 DEF TypeOK, Axes
  <2>2. ctl \notin Stopped /\ task \notin StopTasks
        /\ task \notin {"tune", "swing", "handoff", "clear"}
      BY <1>1 DEF Trials, Stopped, StopTasks
  <2>3. VerifiedTrial'
      BY <1>1, <1>3 DEF LinkInv, VerifiedTrial, InTrial
  <2> QED
      BY <1>3, <2>1, <2>2, <2>3
      DEF LinkInv, ContextInv, SeenInv, StopInv, OneLossStops, InTrial
<1>4. CASE TickTrial
  <2>1. PICK t \in {0, 1} :
           \/ ctl # "hold" /\ axis' = Applied(axis, Torque(t))
           \/ UNCHANGED axis
      BY <1>4 DEF TickTrial
  <2>2. /\ UNCHANGED <<ctl, task, at, bad, lost, healthErrs, seen>>
        /\ unfed' \in {0, Waited}
      BY <1>4 DEF TickTrial
  <2>3. CASE UNCHANGED axis
      BY <1>1, <1>2, <1>3, <2>2, <2>3 DEF ModeFits
  <2>4. CASE ctl # "hold" /\ axis' = Applied(axis, Torque(t))
    <3>1. axis' = [axis EXCEPT !.torque = t, !.control = "torque"]
        BY <1>1, <2>4, AppliedTorque
    <3>2. /\ axis' \in Axes
          /\ axis'.closed = axis.closed /\ axis'.watchdog = axis.watchdog
          /\ axis'.error = axis.error /\ axis'.control = "torque"
          /\ axis'.input = axis.input /\ axis'.limit = axis.limit
          /\ axis'.gain = axis.gain
        BY <1>1, <3>1 DEF Axes
    <3>3. axis.error \/ ModeFits => (axis.error \/ ModeFits)'
        BY <2>2, <2>4, <3>2 DEF ModeFits
    <3> QED
        BY <1>1, <1>2, <1>3, <2>2, <3>2, <3>3
  <2> QED
      BY <2>1, <2>3, <2>4
<1>5. CASE HealthPoll
  <2>1. /\ unfed' = Waited /\ UNCHANGED <<ctl, axis>>
        /\ healthErrs' \in {0, healthErrs + 1}
      BY <1>5 DEF HealthPoll, HealthAnswered, HealthLost
  <2>2. healthErrs' \in 0 .. MaxHealthErrs
      BY <1>2, <2>1
  <2>3. seen' \in BOOLEAN
      BY <1>1, <1>5 DEF HealthPoll, HealthAnswered, HealthLost
  <2>4. CASE Begin("fault")
    <3>1. "fault" \in DOMAIN Steps
        BY TaskSteps DEF StopTasks
    <3> QED
        BY <1>1, <2>1, <2>2, <2>3, <2>4, <3>1, BegunInv
  <2>5. CASE ~Begin("fault")
    <3>1. /\ UNCHANGED <<task, at, bad, lost>>
          /\ healthErrs' = 0 \/ ~(healthErrs' >= MaxHealthErrs)
        BY <1>5, <2>5 DEF HealthPoll, HealthAnswered, HealthLost
    <3>2. healthErrs' < MaxHealthErrs
        BY <1>2, <2>2, <3>1
    <3> QED
        BY <1>1, <1>3, <2>1, <2>2, <2>3, <3>1, <3>2 DEF ModeFits
  <2> QED
      BY <2>4, <2>5
<1> QED
    BY <1>4, <1>5

-----------------------------------------------------------------------------
(* A sequence that goes on *)

LEMMA RunningTask ==
    ASSUME LinkInv, Running
    PROVE  /\ TypeOK /\ axis \in Axes /\ task \in DOMAIN Steps /\ task # "none"
           /\ Len(Steps[task]) \in 3 .. 23 /\ at \in 1 .. Len(Steps[task])
           /\ Waited \in 0 .. ExpireTime /\ 0 \in 0 .. ExpireTime
<1>1. TypeOK /\ task # "none" /\ task \in DOMAIN Steps /\ axis \in Axes
    BY TypedAxis DEF LinkInv, TypeOK, Running
<1>2. Len(Steps[task]) \in 3 .. 23
    BY <1>1, Lengths
<1>3. at \in 1 .. Len(Steps[task])
    BY <1>1, <1>2 DEF TypeOK, Running
<1> QED
    BY <1>1, <1>2, <1>3, WaitedTyped, LinkAssumption

\* What a step within a sequence has to establish itself.
LEMMA OnwardInv ==
    ASSUME LinkInv, Running, UNCHANGED <<ctl, task, healthErrs, seen>>,
           at' \in {at + 1, Len(Steps[task]) + 1}, bad' \in BOOLEAN,
           lost' \in 0 .. MaxLost, unfed' \in 0 .. ExpireTime, axis' \in Axes,
           task = "handoff" => (axis.error \/ (axis.closed /\ axis.watchdog))',
           SeenInv',
           task \in StopTasks => /\ at' >= 2 /\ lost' = 0 => ~Pushing'
                                 /\ at' >= 3 /\ lost' <= 1 => ~Pushing'
    PROVE  LinkInv'
<1>1. /\ TypeOK /\ task # "none" /\ Len(Steps[task]) \in 3 .. 23
      /\ at \in 1 .. Len(Steps[task])
    BY RunningTask
<1>2. TypeOK'
  <2>1. at' \in Nat \ {0} /\ at' <= Len(Steps[task']) + 1
      BY <1>1
  <2> QED
      BY <1>1, <2>1 DEF TypeOK, Axes
<1>3. ContextInv'
    BY <1>1 DEF LinkInv, ContextInv, InTrial
<1>4. at' # 1
    BY <1>1
<1> QED
    BY <1>1, <1>2, <1>3, <1>4
    DEF LinkInv, StopInv, VerifiedTrial, OneLossStops, InTrial

-----------------------------------------------------------------------------
(* Messages that are written *)

\* Nothing that arming for torque writes after a read-back undoes what it read.
LEMMA TuneSend ==
    ASSUME LinkInv, Running, task = "tune", Message.op \in WriteOps,
           at' = at + 1, bad' = bad, axis' \in {axis, Applied(axis, Message)}
    PROVE  TuneSeen'
<1>1. axis \in Axes /\ at \in 1 .. 17 /\ Message = TorqueArming[at]
    BY RunningTask, TaskSteps, TuneSteps DEF Message
<1>2. at \in {1, 2, 3, 4, 5, 6, 12, 13, 17}
    BY <1>1, TunePlaces
<1>3. CASE at \in {1, 2, 3, 4, 5, 6}
  <2>1. at' <= 7
      BY <1>3
  <2> QED
      BY <2>1, <1>3 DEF TuneSeen
<1>4. CASE at \in {12, 13, 17}
  <2>1. Message \in {Write("watchdog", TRUE), Torque(0)}
      BY <1>1, <1>4, TuneSteps
  <2>2. \/ axis' = axis
        \/ axis' = [axis EXCEPT !.watchdog = TRUE]
        \/ axis' = [axis EXCEPT !.torque = 0, !.control = "torque"]
      BY <1>1, <2>1, AppliedWatchdog, AppliedTorque
  <2>3. /\ axis'.error = axis.error /\ axis'.closed = axis.closed
        /\ axis'.input = axis.input /\ axis'.control \in {axis.control, "torque"}
        /\ axis'.watchdog \in {axis.watchdog, TRUE}
      BY <1>1, <2>2 DEF Axes
  <2>4. TuneSeen
      BY DEF LinkInv, SeenInv
  <2> QED
    <3>1. \/ bad \/ axis.error
          \/ axis.control = "torque" /\ axis.input = "passthrough" /\ axis.closed
        BY <1>4, <2>4 DEF TuneSeen, Seen
    <3>2. at = 17 => ~bad /\ (axis.error \/ axis.watchdog)
        BY <1>4, <2>4 DEF TuneSeen, Seen
    <3>3. \/ bad' \/ axis'.error
          \/ axis'.control = "torque" /\ axis'.input = "passthrough" /\ axis'.closed
        BY <2>3, <3>1
    <3>4. at = 17 => ~bad' /\ (axis'.error \/ axis'.watchdog)
        BY <2>3, <3>2
    <3> QED
        BY <1>4, <3>3, <3>4 DEF TuneSeen, Seen
<1> QED
    BY <1>2, <1>3, <1>4

LEMMA SwingSend ==
    ASSUME LinkInv, Running, task = "swing", Message.op \in WriteOps,
           at' = at + 1, bad' = bad, axis' \in {axis, Applied(axis, Message)}
    PROVE  SwingSeen'
<1>1. axis \in Axes /\ at \in 1 .. 23 /\ Message = PositionArming[at]
    BY RunningTask, TaskSteps, SwingSteps DEF Message
<1>2. at \in {1, 2, 3, 4, 5, 6, 7, 8, 16, 17, 19, 23}
    BY <1>1, SwingPlaces
<1>3. CASE at \in {1, 2, 3, 4, 5, 6, 7, 8}
  <2>1. at' <= 9
      BY <1>3
  <2> QED
      BY <2>1, <1>3 DEF SwingSeen
<1>4. CASE at \in {16, 17, 19, 23}
  <2>1. Message \in {Write("watchdog", TRUE), Position("zero")}
      BY <1>1, <1>4, SwingSteps
  <2>2. \/ axis' = axis
        \/ axis' = [axis EXCEPT !.watchdog = TRUE]
        \/ axis' = [axis EXCEPT !.target = "zero"]
      BY <1>1, <2>1, AppliedWatchdog, AppliedPosition
  <2>3. /\ axis'.error = axis.error /\ axis'.closed = axis.closed
        /\ axis'.input = axis.input /\ axis'.control = axis.control
        /\ axis'.watchdog \in {axis.watchdog, TRUE}
        /\ axis'.target \in {axis.target, "zero"}
      BY <1>1, <2>2 DEF Axes
  <2>4. SwingSeen
      BY DEF LinkInv, SeenInv
  <2> QED
    <3>1. \/ bad \/ axis.error
          \/ axis.control = "position" /\ axis.input = "filtered" /\ axis.closed
        BY <1>4, <2>4 DEF SwingSeen, Seen
    <3>2. at >= 19 => bad \/ axis.error \/ axis.watchdog
        BY <1>4, <2>4 DEF SwingSeen, Seen
    <3>3. at = 23 => ~bad /\ (axis.error \/ axis.target = "zero")
        BY <1>4, <2>4 DEF SwingSeen, Seen
    <3>4. \/ bad' \/ axis'.error
          \/ axis'.control = "position" /\ axis'.input = "filtered" /\ axis'.closed
        BY <2>3, <3>1
    <3>5. at >= 19 => bad' \/ axis'.error \/ axis'.watchdog
        BY <2>3, <3>2
    <3>6. at = 23 => ~bad' /\ (axis'.error \/ axis'.target = "zero")
        BY <2>3, <3>3
    <3> QED
        BY <1>4, <3>4, <3>5, <3>6 DEF SwingSeen, Seen
<1> QED
    BY <1>2, <1>3, <1>4

\* The hand-over writes modes and limits before it reads them back, and then
\* feeds; it touches neither the closed loop nor the watchdog.
LEMMA HandoffSend ==
    ASSUME LinkInv, Running, task = "handoff", Message.op \in WriteOps,
           at' = at + 1, bad' = bad, axis' \in {axis, Applied(axis, Message)}
    PROVE  /\ HandoffSeen'
           /\ (axis.error \/ (axis.closed /\ axis.watchdog))'
<1>1. axis \in Axes /\ at \in 1 .. 14 /\ Message = Handoff[at]
    BY RunningTask, TaskSteps, HandoffSteps DEF Message
<1>2. at \in {1, 2, 3, 4, 5, 7, 9, 11, 13}
    BY <1>1, HandoffPlaces
<1>3. axis.error \/ (axis.closed /\ axis.watchdog)
    BY DEF LinkInv, ContextInv
<1>4. CASE at \in {1, 3, 4}
  <2>1. Message \in {Write("input", "passthrough"), Write("limit", "swing"),
                     Write("gain", "swing")}
      BY <1>1, <1>4, HandoffSteps
  <2>2. \/ axis' = axis
        \/ axis' = [axis EXCEPT !.input = "passthrough"]
        \/ axis' = [axis EXCEPT !.limit = "swing"]
        \/ axis' = [axis EXCEPT !.gain = "swing"]
      BY <1>1, <2>1, AppliedMode
  <2>3. /\ axis'.error = axis.error /\ axis'.closed = axis.closed
        /\ axis'.watchdog = axis.watchdog
      BY <1>1, <2>2 DEF Axes
  <2>4. at' <= 6
      BY <1>4
  <2> QED
      BY <1>3, <1>4, <2>3, <2>4 DEF HandoffSeen
<1>5. CASE at \in {2, 5, 7, 9, 11, 13}
  <2>1. Message = Torque(0)
      BY <1>1, <1>5, HandoffSteps
  <2>2. axis' = axis \/ axis' = [axis EXCEPT !.torque = 0, !.control = "torque"]
      BY <1>1, <2>1, AppliedTorque
  <2>3. /\ axis'.error = axis.error /\ axis'.closed = axis.closed
        /\ axis'.watchdog = axis.watchdog /\ axis'.input = axis.input
        /\ axis'.control \in {axis.control, "torque"}
        /\ axis'.limit = axis.limit /\ axis'.gain = axis.gain
      BY <1>1, <2>2 DEF Axes
  <2>4. HandoffSeen
      BY DEF LinkInv, SeenInv
  <2>5. HandoffSeen'
      BY <1>5, <2>3, <2>4 DEF HandoffSeen, Seen
  <2> QED
      BY <1>3, <2>3, <2>5
<1> QED
    BY <1>2, <1>4, <1>5

\* The zero torque and the IDLE request cover for each other, and nothing a stop
\* sends after them makes the axis push again.
LEMMA StopSend ==
    ASSUME LinkInv, Running, task \in StopTasks, Message.op \in WriteOps,
           at' = at + 1,
           \/ axis' = Applied(axis, Message) /\ lost' = lost
           \/ axis' = axis /\ lost' = lost + 1
    PROVE  /\ at' >= 2 /\ lost' = 0 => ~Pushing'
           /\ at' >= 3 /\ lost' <= 1 => ~Pushing'
<1>1. /\ axis \in Axes /\ at \in 1 .. Len(Steps[task]) /\ lost \in Nat
      /\ Len(Steps[task]) \in 3 .. 23
    BY RunningTask, LinkAssumption DEF TypeOK
<1>2. /\ at >= 2 /\ lost = 0 => ~Pushing
      /\ at >= 3 /\ lost <= 1 => ~Pushing
    BY DEF LinkInv, StopInv
<1>3. axis' = axis => Pushing' = Pushing
    BY DEF Pushing
<1>4. CASE at = 1
  <2>1. Message = Torque(0)
      BY <1>4, StopSteps DEF IsStop, Message
  <2>2. CASE axis' = Applied(axis, Message)
    <3>1. axis' = [axis EXCEPT !.torque = 0, !.control = "torque"]
        BY <1>1, <2>1, <2>2, AppliedTorque
    <3>2. axis'.torque = 0 /\ axis'.control = "torque"
        BY <1>1, <3>1 DEF Axes
    <3> QED
        BY <3>2 DEF Pushing
  <2>3. CASE lost' = lost + 1
      BY <1>1, <1>4, <2>3
  <2> QED
      BY <2>2, <2>3
<1>5. CASE at = 2
  <2>1. Message = Write("closed", FALSE)
      BY <1>5, StopSteps DEF IsStop, Message
  <2>2. CASE axis' = Applied(axis, Message)
    <3>1. axis' = [axis EXCEPT !.closed = FALSE /\ ~axis.error]
        BY <1>1, <2>1, <2>2, AppliedClosed
    <3>2. ~axis'.closed
        BY <1>1, <3>1 DEF Axes
    <3> QED
        BY <3>2 DEF Pushing
  <2>3. CASE axis' = axis /\ lost' = lost + 1
      BY <1>1, <1>2, <1>3, <1>5, <2>3
  <2> QED
      BY <2>2, <2>3
<1>6. CASE at \in 3 .. Len(Steps[task])
  <2>1. Message \in StopTail
      BY <1>6, StopSteps DEF IsStop, Message
  <2>2. Message \in {Torque(0), Write("closed", FALSE), Write("watchdog", FALSE),
                     ClearErrors}
      BY <2>1 DEF StopTail, WriteOps, Torque, Write, ClearErrors, IfIdle, Read
  <2>3. \/ axis' = axis
        \/ axis' = [axis EXCEPT !.torque = 0, !.control = "torque"]
        \/ axis' = [axis EXCEPT !.closed = FALSE /\ ~axis.error]
        \/ axis' = [axis EXCEPT !.watchdog = FALSE]
        \/ axis' = [axis EXCEPT !.error = FALSE]
      BY <1>1, <2>2, AppliedTorque, AppliedClosed, AppliedWatchdog, AppliedClear
  <2>4. /\ axis'.closed => axis.closed
        /\ axis'.torque # 0 => axis'.torque = axis.torque
        /\ axis'.control \in {axis.control, "torque"}
      BY <1>1, <2>3 DEF Axes
  <2>5. ~Pushing => ~Pushing'
      BY <2>4 DEF Pushing
  <2> QED
      BY <1>1, <1>2, <1>6, <2>5
<1> QED
    BY <1>1, <1>4, <1>5, <1>6

LEMMA SendInv == LinkInv /\ Send => LinkInv'
<1> SUFFICES ASSUME LinkInv, Send PROVE LinkInv'
    OBVIOUS
<1>1. /\ Running /\ Message.op \in WriteOps /\ at' = at + 1
      /\ UNCHANGED <<ctl, task, bad, healthErrs, seen>>
      /\ \/ axis' = Applied(axis, Message) /\ lost' = lost /\ unfed' \in {0, unfed}
         \/ axis' = axis /\ lost < MaxLost /\ lost' = lost + 1 /\ unfed' = unfed
    BY DEF Send, Lose, WriteOps
<1>2. /\ TypeOK /\ axis \in Axes /\ task \in DOMAIN Steps
      /\ at \in 1 .. Len(Steps[task]) /\ 0 \in 0 .. ExpireTime
    BY <1>1, RunningTask
<1>3. axis' \in Axes
  <2>1. Message \in Writes
      BY <1>1, <1>2, EveryWrite DEF Message
  <2> QED
      BY <1>1, <1>2, <2>1, AppliedTyped
<1>4. lost' \in 0 .. MaxLost /\ bad' \in BOOLEAN /\ unfed' \in 0 .. ExpireTime
    BY <1>1, <1>2, LinkAssumption DEF TypeOK
<1>5. SeenInv'
    BY <1>1, TuneSend, SwingSend, HandoffSend DEF SeenInv
<1>6. task = "handoff" => (axis.error \/ (axis.closed /\ axis.watchdog))'
    BY <1>1, HandoffSend
<1>7. task \in StopTasks => /\ at' >= 2 /\ lost' = 0 => ~Pushing'
                            /\ at' >= 3 /\ lost' <= 1 => ~Pushing'
    BY <1>1, StopSend
<1> QED
    BY <1>1, <1>3, <1>4, <1>5, <1>6, <1>7, OnwardInv

-----------------------------------------------------------------------------
(* Messages that are read back, and what is done with them *)

\* What is read is the axis's own, or is noted as a difference.
LEMMA Noted ==
    ASSUME Receive, NEW p, NEW v, Message = Read(p, v)
    PROVE  bad' \/ axis[p] = v
<1>1. Message.op = "r" /\ Message.prop = p /\ Message.val = v
    BY DEF Read
<1>2. bad' = (bad \/ (Message.op = "r" /\ axis[Message.prop] # Message.val))
    BY DEF Receive
<1>3. CASE bad'
    BY <1>3
<1>4. CASE ~bad'
  <2>1. ~(axis[Message.prop] # Message.val)
      BY <1>1, <1>2, <1>4, Zenon
  <2> QED
      BY <1>1, <2>1, Zenon
<1> QED
    BY <1>3, <1>4

LEMMA TuneReceive ==
    ASSUME LinkInv, Running, task = "tune", Receive
    PROVE  TuneSeen'
<1>1. /\ at \in 1 .. 17 /\ Message = TorqueArming[at]
      /\ bad \in BOOLEAN /\ UNCHANGED axis /\ at' = at + 1
      /\ Message.op \in {"r", "f"}
      /\ bad' = (bad \/ (Message.op = "r" /\ axis[Message.prop] # Message.val))
    BY RunningTask, TaskSteps, TuneSteps DEF Message, TypeOK, Receive
<1>2. at \in {7, 8, 9, 10, 14, 16}
    BY <1>1, TunePlaces
<1>3. /\ at = 7 => Message = Read("control", "torque")
      /\ at = 8 => Message = Read("input", "passthrough")
      /\ at = 9 => Message = Read("closed", TRUE)
      /\ at = 14 => Message = Read("watchdog", TRUE)
    BY <1>1, TuneSteps, Zenon
<1>4. TuneSeen
    BY DEF LinkInv, SeenInv
<1>5. bad => bad'
    BY <1>1
<1>6. at = 7 => bad' \/ axis.control = "torque"
    BY <1>3, Noted, Zenon
<1>7. at = 8 => bad' \/ axis.input = "passthrough"
    BY <1>3, Noted, Zenon
<1>8. at = 9 => bad' \/ axis.closed = TRUE
    BY <1>3, Noted, Zenon
<1>9. at = 14 => bad' \/ axis.watchdog = TRUE
    BY <1>3, Noted, Zenon
<1>10. at = 16 => bad' = bad
    BY <1>1, TuneOps
<1>11. axis'.error = axis.error /\ axis'.control = axis.control
       /\ axis'.input = axis.input /\ axis'.closed = axis.closed
       /\ axis'.watchdog = axis.watchdog
    BY <1>1
<1> QED
    BY <1>1, <1>2, <1>4, <1>5, <1>6, <1>7, <1>8, <1>9, <1>10, <1>11
    DEF TuneSeen, Seen

LEMMA SwingReceive ==
    ASSUME LinkInv, Running, task = "swing", Receive
    PROVE  SwingSeen'
<1>1. /\ at \in 1 .. 23 /\ Message = PositionArming[at]
      /\ bad \in BOOLEAN /\ UNCHANGED axis /\ at' = at + 1
      /\ Message.op \in {"r", "f"}
      /\ bad' = (bad \/ (Message.op = "r" /\ axis[Message.prop] # Message.val))
    BY RunningTask, TaskSteps, SwingSteps DEF Message, TypeOK, Receive
<1>2. at \in {9, 10, 11, 12, 13, 14, 18, 20, 22}
    BY <1>1, SwingPlaces
<1>3. /\ at = 9 => Message = Read("control", "position")
      /\ at = 10 => Message = Read("input", "filtered")
      /\ at = 11 => Message = Read("closed", TRUE)
      /\ at = 18 => Message = Read("watchdog", TRUE)
      /\ at = 20 => Message = Read("target", "zero")
    BY <1>1, SwingSteps, Zenon
<1>4. SwingSeen
    BY DEF LinkInv, SeenInv
<1>5. bad => bad'
    BY <1>1
<1>6. at = 9 => bad' \/ axis.control = "position"
    BY <1>3, Noted, Zenon
<1>7. at = 10 => bad' \/ axis.input = "filtered"
    BY <1>3, Noted, Zenon
<1>8. at = 11 => bad' \/ axis.closed = TRUE
    BY <1>3, Noted, Zenon
<1>9. at = 18 => bad' \/ axis.watchdog = TRUE
    BY <1>3, Noted, Zenon
<1>10. at = 20 => bad' \/ axis.target = "zero"
    BY <1>3, Noted, Zenon
<1>11. at = 22 => bad' = bad
    BY <1>1, SwingOps
<1>12. axis'.error = axis.error /\ axis'.control = axis.control
       /\ axis'.input = axis.input /\ axis'.closed = axis.closed
       /\ axis'.watchdog = axis.watchdog /\ axis'.target = axis.target
    BY <1>1
<1> QED
    BY <1>1, <1>2, <1>4, <1>5, <1>6, <1>7, <1>8, <1>9, <1>10, <1>11, <1>12
    DEF SwingSeen, Seen

LEMMA HandoffReceive ==
    ASSUME LinkInv, Running, task = "handoff", Receive
    PROVE  HandoffSeen'
<1>1. /\ at \in 1 .. 14 /\ Message = Handoff[at]
      /\ bad \in BOOLEAN /\ UNCHANGED axis /\ at' = at + 1
      /\ Message.op \in {"r", "f"}
      /\ bad' = (bad \/ (Message.op = "r" /\ axis[Message.prop] # Message.val))
    BY RunningTask, TaskSteps, HandoffSteps DEF Message, TypeOK, Receive
<1>2. at \in {6, 8, 10, 12}
    BY <1>1, HandoffPlaces
<1>3. /\ at = 6 => Message = Read("control", "torque")
      /\ at = 8 => Message = Read("input", "passthrough")
      /\ at = 10 => Message = Read("limit", "swing")
      /\ at = 12 => Message = Read("gain", "swing")
    BY <1>1, HandoffSteps, Zenon
<1>4. HandoffSeen
    BY DEF LinkInv, SeenInv
<1>5. bad => bad'
    BY <1>1
<1>6. at = 6 => bad' \/ axis.control = "torque"
    BY <1>3, Noted, Zenon
<1>7. at = 8 => bad' \/ axis.input = "passthrough"
    BY <1>3, Noted, Zenon
<1>8. at = 10 => bad' \/ axis.limit = "swing"
    BY <1>3, Noted, Zenon
<1>9. at = 12 => bad' \/ axis.gain = "swing"
    BY <1>3, Noted, Zenon
<1>10. axis'.error = axis.error /\ axis'.control = axis.control
      /\ axis'.input = axis.input /\ axis'.limit = axis.limit
      /\ axis'.gain = axis.gain
    BY <1>1
<1> QED
    BY <1>1, <1>2, <1>4, <1>5, <1>6, <1>7, <1>8, <1>9, <1>10
    DEF HandoffSeen, Seen

\* Past its second message a stop that goes on, or gives up, and leaves the axis
\* alone is still one.
LEMMA StopOnward ==
    ASSUME LinkInv, Running, task \in StopTasks, UNCHANGED axis,
           Message.op \notin WriteOps, at' \in {at + 1, Len(Steps[task]) + 1},
           lost' \in {lost, lost + 1}
    PROVE  /\ at' >= 2 /\ lost' = 0 => ~Pushing'
           /\ at' >= 3 /\ lost' <= 1 => ~Pushing'
<1>1. /\ at \in 1 .. Len(Steps[task]) /\ lost \in Nat
      /\ Len(Steps[task]) \in 3 .. 23
    BY RunningTask, LinkAssumption DEF TypeOK
<1>2. at # 1
  <2>1. at = 1 => Message = Torque(0)
      BY StopSteps DEF IsStop, Message
  <2> QED
      BY <2>1 DEF Torque, WriteOps
<1>3. at # 2
  <2>1. at = 2 => Message = Write("closed", FALSE)
      BY StopSteps DEF IsStop, Message
  <2> QED
      BY <2>1 DEF Write, WriteOps
<1>4. Pushing' = Pushing
    BY DEF Pushing
<1>5. /\ at >= 2 /\ lost = 0 => ~Pushing
      /\ at >= 3 /\ lost <= 1 => ~Pushing
    BY DEF LinkInv, StopInv
<1>6. at >= 3
    BY <1>1, <1>2, <1>3
<1> QED
    BY <1>1, <1>4, <1>5, <1>6

LEMMA ReceiveInv == LinkInv /\ Receive => LinkInv'
<1> SUFFICES ASSUME LinkInv, Receive PROVE LinkInv'
    OBVIOUS
<1>1. /\ Running /\ at' = at + 1 /\ unfed' = Waited
      /\ UNCHANGED <<ctl, task, lost, healthErrs, seen, axis>>
      /\ Message.op \in {"r", "f"} /\ Message.op \notin WriteOps
    BY DEF Receive, WriteOps
<1>2. /\ TypeOK /\ axis \in Axes /\ Waited \in 0 .. ExpireTime
    BY <1>1, RunningTask
<1>3. bad' \in BOOLEAN
    BY DEF Receive
<1>4. SeenInv'
    BY <1>1, TuneReceive, SwingReceive, HandoffReceive DEF SeenInv
<1>5. task = "handoff" => (axis.error \/ (axis.closed /\ axis.watchdog))'
    BY <1>1 DEF LinkInv, ContextInv
<1>6. task \in StopTasks => /\ at' >= 2 /\ lost' = 0 => ~Pushing'
                            /\ at' >= 3 /\ lost' <= 1 => ~Pushing'
    BY <1>1, StopOnward
<1>7. lost' \in 0 .. MaxLost
    BY <1>1, <1>2 DEF TypeOK
<1> QED
    BY <1>1, <1>2, <1>3, <1>4, <1>5, <1>6, <1>7, OnwardInv

\* Only an arming or a hand-over compares, and only a stop asks whether the axis
\* is idle.
LEMMA VerifyInv == LinkInv /\ Verify => LinkInv'
<1> SUFFICES ASSUME LinkInv, Verify PROVE LinkInv'
    OBVIOUS
<1>1. /\ Running /\ at' = at + 1 /\ ~bad /\ ~bad'
      /\ UNCHANGED <<ctl, task, bad, lost, healthErrs, seen, axis, unfed>>
      /\ Message.op = "check" /\ Message.op \notin WriteOps
    BY DEF Verify, WriteOps
<1>2. /\ TypeOK /\ axis \in Axes /\ at \in Nat
    BY <1>1, RunningTask DEF TypeOK
<1>3. SeenInv'
  <2>1. task = "tune" => TuneSeen'
    <3> SUFFICES ASSUME task = "tune" PROVE TuneSeen'
        OBVIOUS
    <3>1. at \in 1 .. 17 /\ Message = TorqueArming[at]
        BY <1>1, RunningTask, TaskSteps, TuneSteps DEF Message
    <3>2. at \in {11, 15}
        BY <1>1, <3>1, TunePlaces
    <3>3. TuneSeen
        BY DEF LinkInv, SeenInv
    <3> QED
        BY <1>1, <3>2, <3>3 DEF TuneSeen, Seen
  <2>2. task = "swing" => SwingSeen'
    <3> SUFFICES ASSUME task = "swing" PROVE SwingSeen'
        OBVIOUS
    <3>1. at \in 1 .. 23 /\ Message = PositionArming[at]
        BY <1>1, RunningTask, TaskSteps, SwingSteps DEF Message
    <3>2. at \in {15, 21}
        BY <1>1, <3>1, SwingPlaces
    <3>3. SwingSeen
        BY DEF LinkInv, SeenInv
    <3> QED
        BY <1>1, <3>2, <3>3 DEF SwingSeen, Seen
  <2>3. task = "handoff" => HandoffSeen'
    <3> SUFFICES ASSUME task = "handoff" PROVE HandoffSeen'
        OBVIOUS
    <3>1. at \in 1 .. 14 /\ Message = Handoff[at]
        BY <1>1, RunningTask, TaskSteps, HandoffSteps DEF Message
    <3>2. at = 14
        BY <1>1, <3>1, HandoffPlaces
    <3>3. HandoffSeen
        BY DEF LinkInv, SeenInv
    <3> QED
        BY <1>1, <3>2, <3>3 DEF HandoffSeen, Seen
  <2> QED
      BY <1>1, <2>1, <2>2, <2>3 DEF SeenInv
<1>4. task = "handoff" => (axis.error \/ (axis.closed /\ axis.watchdog))'
    BY <1>1 DEF LinkInv, ContextInv
<1>5. task \in StopTasks => /\ at' >= 2 /\ lost' = 0 => ~Pushing'
                            /\ at' >= 3 /\ lost' <= 1 => ~Pushing'
    BY <1>1, StopOnward
<1>6. lost' \in 0 .. MaxLost /\ bad' \in BOOLEAN /\ unfed' \in 0 .. ExpireTime
    BY <1>1, <1>2 DEF TypeOK
<1> QED
    BY <1>1, <1>2, <1>3, <1>4, <1>5, <1>6, OnwardInv

LEMMA AskerStops ==
    ASSUME LinkInv, Running, Message.op = "idle?"
    PROVE  task \in StopTasks
<1>1. /\ task \in DOMAIN Steps /\ at \in 1 .. Len(Steps[task])
      /\ Message = Steps[task][at]
    BY RunningTask DEF Message
<1>2. task # "tune"
    BY <1>1, TaskSteps, TuneSteps, TunePlaces
<1>3. task # "swing"
    BY <1>1, TaskSteps, SwingSteps, SwingPlaces
<1>4. task # "handoff"
    BY <1>1, TaskSteps, HandoffSteps, HandoffPlaces
<1> QED
    BY <1>1, <1>2, <1>3, <1>4, TaskSteps

LEMMA AskInv == LinkInv /\ (AskIdle \/ NoAnswer) => LinkInv'
<1> SUFFICES ASSUME LinkInv, AskIdle \/ NoAnswer PROVE LinkInv'
    OBVIOUS
<1>1. /\ Running /\ at' \in {at + 1, Len(Steps[task]) + 1} /\ unfed' = Waited
      /\ lost' = lost \/ (lost < MaxLost /\ lost' = lost + 1)
      /\ UNCHANGED <<ctl, task, bad, healthErrs, seen, axis>>
      /\ Message.op \in {"idle?", "r"} /\ Message.op \notin WriteOps
    BY DEF AskIdle, NoAnswer, GiveUp, Lose, WriteOps
<1>2. /\ TypeOK /\ axis \in Axes /\ Waited \in 0 .. ExpireTime
    BY <1>1, RunningTask
<1>3. task \in StopTasks
    BY <1>1, AskerStops DEF AskIdle, NoAnswer, StopTasks
<1>4. task \notin {"tune", "swing", "handoff"}
    BY <1>3 DEF StopTasks
<1>5. SeenInv'
    BY <1>1, <1>4 DEF SeenInv
<1>6. /\ at' >= 2 /\ lost' = 0 => ~Pushing'
      /\ at' >= 3 /\ lost' <= 1 => ~Pushing'
    BY <1>1, <1>3, StopOnward
<1>7. lost' \in 0 .. MaxLost /\ bad' \in BOOLEAN
    BY <1>1, <1>2, LinkAssumption DEF TypeOK
<1> QED
    BY <1>1, <1>2, <1>4, <1>5, <1>6, <1>7, OnwardInv

LEMMA RefuseInv == LinkInv /\ Refuse => LinkInv'
<1> SUFFICES ASSUME LinkInv, Refuse PROVE LinkInv'
    OBVIOUS
<1>1. /\ Running /\ Begin("refuse") /\ UNCHANGED <<ctl, healthErrs, seen, axis>>
      /\ unfed' \in {unfed, Waited}
    BY DEF Refuse
<1>2. /\ TypeOK /\ Waited \in 0 .. ExpireTime
    BY <1>1, RunningTask
<1>3. /\ ctl' \in Trials \cup Stopped /\ healthErrs' \in 0 .. MaxHealthErrs
      /\ unfed' \in 0 .. ExpireTime /\ seen' \in BOOLEAN
    BY <1>1, <1>2 DEF TypeOK
<1>4. "refuse" \in DOMAIN Steps
    BY TaskSteps DEF StopTasks
<1> QED
    BY <1>1, <1>3, <1>4, BegunInv

-----------------------------------------------------------------------------
(* A sequence that is through *)

LEMMA Outcomes ==
    /\ Outcome["tune"] = "tuning" /\ Outcome["swing"] = "hold"
    /\ Outcome["handoff"] = "swing" /\ Outcome["clear"] = ctl
    /\ Outcome["refuse"] = "fault" /\ Outcome["fault"] = "fault"
    /\ Outcome["idle"] = "off" /\ Outcome["disarm"] = "off"
BY DEF Outcome

\* Everything an arming has read back is now what the trial needs; a stop has
\* sent all its messages.
LEMMA FinishInv == LinkInv /\ Finish => LinkInv'
<1> SUFFICES ASSUME LinkInv, Finish PROVE LinkInv'
    OBVIOUS
<1>1. /\ task # "none" /\ task' = "none" /\ ctl' = Outcome[task] /\ ~bad'
      /\ bad' \in BOOLEAN /\ seen' = FALSE /\ UNCHANGED <<at, lost, axis, unfed>>
      /\ task \in {"tune", "swing", "handoff"} => healthErrs' = 0
      /\ healthErrs' \in {0, healthErrs}
    BY DEF Finish
<1>2. /\ TypeOK /\ axis \in Axes /\ task \in DOMAIN Steps /\ lost \in Nat
      /\ Len(Steps[task]) \in 3 .. 23
  <2>1. TypeOK /\ axis \in Axes /\ task \in DOMAIN Steps /\ lost \in Nat
      BY <1>1, TypedAxis, LinkAssumption DEF LinkInv, TypeOK
  <2> QED
      BY <2>1, Lengths
<1>3. at = Len(Steps[task]) + 1
  <2>1. at \in Nat /\ at <= Len(Steps[task]) + 1
      BY <1>1, <1>2 DEF TypeOK
  <2>2. ~(at <= Len(Steps[task]))
      BY <1>1 DEF Finish, Running
  <2> QED
      BY <1>2, <2>1, <2>2
<1>4. task \in StopTasks => ctl' \in Stopped
    BY <1>1, Outcomes DEF StopTasks, Stopped, LinkInv, ContextInv
<1>5. task \notin StopTasks => task \in {"tune", "swing", "handoff"}
    BY <1>2, TaskSteps
<1>6. TypeOK'
  <2>1. ctl' \in Trials \cup Stopped
      BY <1>1, <1>4, <1>5, Outcomes DEF Trials
  <2>2. healthErrs' \in 0 .. MaxHealthErrs
      BY <1>1, <1>2, LinkAssumption DEF TypeOK
  <2> QED
      BY <1>1, <1>2, <2>1, <2>2 DEF TypeOK, Axes
<1>7. ContextInv'
  <2>1. task \notin StopTasks => healthErrs' < MaxHealthErrs
      BY <1>1, <1>5, LinkAssumption
  <2>2. task \in StopTasks => ctl' \notin Trials
      BY <1>4 DEF Stopped, Trials
  <2> QED
      BY <1>1, <2>1, <2>2 DEF ContextInv, InTrial
<1>8. SeenInv' /\ StopInv'
    BY <1>1 DEF SeenInv, StopInv, StopTasks
<1>9. VerifiedTrial'
  <2>1. CASE task = "tune"
    <3>1. at = 18 /\ ctl' = "tuning"
        BY <1>1, <1>3, <2>1, TaskSteps, TuneSteps, Outcomes
    <3>2. TuneSeen
        BY <2>1 DEF LinkInv, SeenInv
    <3>3. \/ axis.error
          \/ /\ axis.control = "torque" /\ axis.input = "passthrough"
             /\ axis.closed /\ axis.watchdog
        BY <3>1, <3>2 DEF TuneSeen, Seen
    <3> QED
        BY <1>1, <3>1, <3>3 DEF VerifiedTrial, ModeFits
  <2>2. CASE task = "swing"
    <3>1. at = 24 /\ ctl' = "hold"
        BY <1>1, <1>3, <2>2, TaskSteps, SwingSteps, Outcomes
    <3>2. SwingSeen
        BY <2>2 DEF LinkInv, SeenInv
    <3>3. \/ axis.error
          \/ /\ axis.control = "position" /\ axis.input = "filtered"
             /\ axis.closed /\ axis.watchdog /\ axis.target = "zero"
        BY <3>1, <3>2 DEF SwingSeen, Seen
    <3> QED
        BY <1>1, <3>1, <3>3 DEF VerifiedTrial, ModeFits
  <2>3. CASE task = "handoff"
    <3>1. at = 15 /\ ctl' = "swing"
        BY <1>1, <1>3, <2>3, TaskSteps, HandoffSteps, Outcomes
    <3>2. HandoffSeen /\ (axis.error \/ (axis.closed /\ axis.watchdog))
        BY <2>3 DEF LinkInv, SeenInv, ContextInv
    <3>3. \/ axis.error
          \/ /\ axis.control = "torque" /\ axis.input = "passthrough"
             /\ axis.limit = "swing" /\ axis.gain = "swing"
             /\ axis.closed /\ axis.watchdog
        BY <3>1, <3>2 DEF HandoffSeen, Seen
    <3> QED
        BY <1>1, <3>1, <3>3 DEF VerifiedTrial, ModeFits
  <2>4. CASE task \in StopTasks
      BY <1>4, <2>4 DEF VerifiedTrial, InTrial, Stopped, Trials
  <2> QED
      BY <1>5, <2>1, <2>2, <2>3, <2>4
<1>10. OneLossStops'
  <2>1. CASE task \in StopTasks
    <3>1. at >= 3
      <4>1. PICK n \in 3 .. 23 : n = Len(Steps[task])
          BY <1>2
      <4>2. at = n + 1
          BY <1>3, <4>1, Zenon
      <4> QED
          BY <4>2
    <3>2. lost <= 1 => ~Pushing
        BY <2>1, <3>1 DEF LinkInv, StopInv
    <3> QED
        BY <1>1, <3>2 DEF OneLossStops, Pushing
  <2>2. CASE task \in {"tune", "swing", "handoff"}
    <3>1. ctl' \in Trials
        BY <1>1, <2>2, Outcomes DEF Trials
    <3> QED
        BY <3>1 DEF OneLossStops, Trials, Stopped
  <2> QED
      BY <1>5, <2>1, <2>2
<1> QED
    BY <1>6, <1>7, <1>8, <1>9, <1>10 DEF LinkInv

-----------------------------------------------------------------------------
(* Every step *)

LEMMA StutterInv == LinkInv /\ UNCHANGED vars => LinkInv'
BY DEF LinkInv, vars, TypeOK, ContextInv, SeenInv, TuneSeen, SwingSeen,
       HandoffSeen, Seen, StopInv, VerifiedTrial, OneLossStops, ModeFits, InTrial,
       Pushing

LEMMA NextInv == LinkInv /\ [Next]_vars => LinkInv'
<1> SUFFICES ASSUME LinkInv, [Next]_vars PROVE LinkInv'
    OBVIOUS
<1>1. CASE Sequence
    BY <1>1, SendInv, ReceiveInv, AskInv, VerifyInv, RefuseInv, FinishInv
    DEF Sequence
<1>2. CASE \/ StartTuning \/ StartSwing \/ HandOver \/ TestStart \/ ClearFaults
           \/ Disarm \/ TripTrial \/ Restart
    BY <1>2, StartInv
<1>3. CASE TickTrial \/ HealthPoll
    BY <1>3, TrialInv
<1>4. CASE Expire \/ AxisFails
    BY <1>4, DropInv
<1>5. CASE UNCHANGED vars
    BY <1>5, StutterInv
<1> QED
    BY <1>1, <1>2, <1>3, <1>4, <1>5 DEF Next

\* What the proofs rest on holds in every reachable state.
THEOREM Inductive == Spec => []LinkInv
BY InitInv, NextInv, PTL DEF Spec

\* Every variable keeps its type, however many messages are lost.
THEOREM LinkTyped == Spec => []TypeOK
<1>1. LinkInv => TypeOK
    BY DEF LinkInv
<1> QED
    BY <1>1, Inductive, PTL

\* The read-backs of armODriveTorque(), armODrivePosition() and
\* switchODriveToTorqueControl() do what they are for: no trial runs on an axis
\* in another mode, out of closed loop or without its watchdog, whatever writes
\* were lost on the way, unless the axis has reported an error since.
THEOREM TrialVerified == Spec => []VerifiedTrial
<1>1. LinkInv => VerifiedTrial
    BY DEF LinkInv
<1> QED
    BY <1>1, Inductive, PTL

\* requestIdle(): no single lost message keeps the motor turning after a stop.
THEOREM LossTolerated == Spec => []OneLossStops
<1>1. LinkInv => OneLossStops
    BY DEF LinkInv
<1> QED
    BY <1>1, Inductive, PTL

-----------------------------------------------------------------------------
(* The order of the stop *)

\* Only the first message of an arming and the last ones of a stop take the
\* watchdog away from an axis in closed loop.
LEMMA WatchdogWriters ==
    ASSUME LinkInv, Running, Message = Write("watchdog", FALSE)
    PROVE  \/ task \in {"tune", "swing"} /\ at = 1
           \/ task \in StopTasks /\ at >= 3
<1>1. /\ task \in DOMAIN Steps /\ at \in 1 .. Len(Steps[task])
      /\ Message = Steps[task][at] /\ Message.op \in WriteOps
    BY RunningTask DEF Message, Write, WriteOps
<1>2. CASE task = "tune"
  <2>1. at \in {1, 2, 3, 4, 5, 6, 12, 13, 17} /\ Message = TorqueArming[at]
      BY <1>1, <1>2, TaskSteps, TuneSteps, TunePlaces
  <2> QED
      BY <1>2, <2>1, TuneSteps DEF Write, Torque, ClearErrors
<1>3. CASE task = "swing"
  <2>1. /\ at \in {1, 2, 3, 4, 5, 6, 7, 8, 16, 17, 19, 23}
        /\ Message = PositionArming[at]
      BY <1>1, <1>3, TaskSteps, SwingSteps, SwingPlaces
  <2> QED
      BY <1>3, <2>1, SwingSteps DEF Write, Position, ClearErrors
<1>4. CASE task = "handoff"
  <2>1. at \in {1, 2, 3, 4, 5, 7, 9, 11, 13} /\ Message = Handoff[at]
      BY <1>1, <1>4, TaskSteps, HandoffSteps, HandoffPlaces
  <2> QED
      BY <1>4, <2>1, HandoffSteps DEF Write, Torque
<1>5. CASE task \in StopTasks
  <2>1. at # 1
    <3>1. at = 1 => Message = Torque(0)
        BY <1>1, <1>5, StopSteps DEF IsStop
    <3> QED
        BY <3>1 DEF Torque, Write
  <2>2. at # 2
    <3>1. at = 2 => Message = Write("closed", FALSE)
        BY <1>1, <1>5, StopSteps DEF IsStop
    <3> QED
        BY <3>1 DEF Write
  <2>3. Len(Steps[task]) \in 3 .. 23
      BY RunningTask
  <2> QED
      BY <1>1, <1>5, <2>1, <2>2, <2>3
<1> QED
    BY <1>1, <1>2, <1>3, <1>4, <1>5, TaskSteps

\* No other message switches the watchdog off.
LEMMA WatchdogStays ==
    ASSUME NEW a \in Axes, NEW m \in Writes, m # Write("watchdog", FALSE),
           a.watchdog
    PROVE  Applied(a, m).watchdog
<1>1. CASE m = Torque(0)
  <2>1. Applied(a, m) = [a EXCEPT !.torque = 0, !.control = "torque"]
      BY <1>1, AppliedTorque
  <2> QED
      BY <2>1 DEF Axes
<1>2. CASE m \in {Position("here"), Position("zero")}
  <2>1. PICK p \in {"here", "zero"} : Applied(a, m) = [a EXCEPT !.target = p]
      BY <1>2, AppliedPosition
  <2> QED
      BY <2>1 DEF Axes
<1>3. CASE m = ClearErrors
  <2>1. Applied(a, m) = [a EXCEPT !.error = FALSE]
      BY <1>3, AppliedClear
  <2> QED
      BY <2>1 DEF Axes
<1>4. CASE m \in {Write("closed", TRUE), Write("closed", FALSE)}
  <2>1. PICK v \in BOOLEAN : Applied(a, m) = [a EXCEPT !.closed = v /\ ~a.error]
      BY <1>4, AppliedClosed
  <2> QED
      BY <2>1 DEF Axes
<1>5. CASE m = Write("watchdog", TRUE)
  <2>1. Applied(a, m) = [a EXCEPT !.watchdog = TRUE]
      BY <1>5, AppliedWatchdog
  <2> QED
      BY <2>1 DEF Axes
<1>6. CASE m \in {Write("input", "passthrough"), Write("input", "filtered")}
  <2>1. PICK v \in {"passthrough", "filtered"} :
           Applied(a, m) = [a EXCEPT !.input = v]
      BY <1>6, AppliedMode
  <2> QED
      BY <2>1 DEF Axes
<1>7. CASE m \in {Write("control", "torque"), Write("control", "position")}
  <2>1. PICK v \in {"torque", "position"} :
           Applied(a, m) = [a EXCEPT !.control = v]
      BY <1>7, AppliedMode
  <2> QED
      BY <2>1 DEF Axes
<1>8. CASE m \in {Write("limit", "center"), Write("limit", "swing")}
  <2>1. PICK v \in {"center", "swing"} : Applied(a, m) = [a EXCEPT !.limit = v]
      BY <1>8, AppliedMode
  <2> QED
      BY <2>1 DEF Axes
<1>9. CASE m \in {Write("gain", "center"), Write("gain", "swing")}
  <2>1. PICK v \in {"center", "swing"} : Applied(a, m) = [a EXCEPT !.gain = v]
      BY <1>9, AppliedMode
  <2> QED
      BY <2>1 DEF Axes
<1> QED
    BY <1>1, <1>2, <1>3, <1>4, <1>5, <1>6, <1>7, <1>8, <1>9, Zenon DEF Writes

LEMMA KeepStep ==
    ASSUME LinkInv, [Next]_vars, MaxLost <= 1,
           axis.closed, axis.torque # 0, axis.watchdog, axis'.closed
    PROVE  axis'.watchdog
<1>1. axis \in Axes
    BY TypedAxis DEF LinkInv
<1>2. CASE UNCHANGED axis
    BY <1>2
<1>3. CASE Send
  <2>1. /\ Running /\ Message.op \in WriteOps
        /\ axis' = axis \/ axis' = Applied(axis, Message)
      BY <1>3 DEF Send, WriteOps
  <2>2. Pushing
      BY DEF Pushing
  <2>3. Message # Write("watchdog", FALSE)
    <3> SUFFICES ASSUME Message = Write("watchdog", FALSE) PROVE FALSE
        OBVIOUS
    <3>1. lost <= 1
        BY LinkAssumption DEF LinkInv, TypeOK
    <3>2. \/ task \in {"tune", "swing"} /\ at = 1
          \/ task \in StopTasks /\ at >= 3
        BY <2>1, WatchdogWriters
    <3> QED
        BY <2>2, <3>1, <3>2 DEF LinkInv, StopInv
  <2>4. Message \in Writes
      BY <2>1, RunningTask, EveryWrite DEF Message
  <2> QED
      BY <1>1, <2>1, <2>3, <2>4, WatchdogStays
<1>4. CASE TickTrial
  <2>1. PICK t \in {0, 1} : axis' = axis \/ axis' = Applied(axis, Torque(t))
      BY <1>4 DEF TickTrial
  <2>2. CASE axis' = Applied(axis, Torque(t))
    <3>1. axis' = [axis EXCEPT !.torque = t, !.control = "torque"]
        BY <1>1, <2>2, AppliedTorque
    <3> QED
        BY <1>1, <3>1 DEF Axes
  <2> QED
      BY <2>1, <2>2
<1>5. CASE Expire \/ AxisFails
  <2>1. axis' = [axis EXCEPT !.closed = FALSE, !.error = TRUE]
      BY <1>5 DEF Expire, AxisFails
  <2> QED
      BY <1>1, <2>1 DEF Axes
<1> QED
    BY <1>2, <1>3, <1>4, <1>5
    DEF Next, vars, Sequence, Receive, AskIdle, Verify, Refuse, NoAnswer, Finish,
        StartTuning, StartSwing, HandOver, TestStart, ClearFaults, Disarm,
        TripTrial, HealthPoll, Restart

\* The watchdog goes last in requestIdle(): as long as one sequence loses no more
\* than one message, none takes it away from a loop that still holds a torque.
THEOREM WatchdogKept ==
    ASSUME MaxLost <= 1
    PROVE  Spec => TorqueKeepsWatchdog
<1>1. LinkInv /\ [Next]_vars
        => [axis.closed /\ axis.torque # 0 /\ axis.watchdog /\ axis'.closed
              => axis'.watchdog]_vars
    BY KeepStep
<1> QED
    BY <1>1, Inductive, PTL DEF Spec, TorqueKeepsWatchdog

-----------------------------------------------------------------------------
(* The start of a trial *)

\* Each zero of an arming covers for those before it that were lost.  In a hand-
\* over the axis leaves the position loop by a zero, or not at all.
StillInv ==
    /\ task = "tune" => /\ at > 5 /\ lost = 0 => axis.torque = 0
                        /\ at > 13 /\ lost <= 1 => axis.torque = 0
                        /\ at > 17 /\ lost <= 2 => axis.torque = 0
    /\ task = "handoff" => \/ axis.error \/ axis.torque = 0
                           \/ axis.control = "position"

\* A torque in the axis comes from a tick: no message of a sequence makes one.
LEMMA OnlyZero ==
    ASSUME NEW a \in Axes, NEW m \in Writes
    PROVE  /\ Applied(a, m).torque \in {0, a.torque}
           /\ m = Torque(0) => Applied(a, m).torque = 0
<1>1. CASE m = Torque(0)
  <2>1. Applied(a, m) = [a EXCEPT !.torque = 0, !.control = "torque"]
      BY <1>1, AppliedTorque
  <2> QED
      BY <2>1 DEF Axes
<1>2. CASE m # Torque(0)
  <2>1. m.op # "c"
      BY <1>2 DEF Writes, Write, Position, ClearErrors
  <2>2. Applied(a, m).torque = a.torque
      BY <2>1 DEF Applied, Writes, Write, Position, ClearErrors, Torque, Axes
  <2> QED
      BY <1>2, <2>2
<1> QED
    BY <1>1, <1>2

\* What a sequence's own step has to establish.
LEMMA StillSend ==
    ASSUME LinkInv, StillInv, Send
    PROVE  StillInv'
<1>1. /\ Running /\ Message.op \in WriteOps /\ task' = task /\ at' = at + 1
      /\ \/ axis' = Applied(axis, Message) /\ lost' = lost
         \/ axis' = axis /\ lost' = lost + 1
    BY DEF Send, Lose, WriteOps
<1>2. /\ axis \in Axes /\ at \in 1 .. Len(Steps[task]) /\ Message = Steps[task][at]
      /\ lost \in Nat /\ Message \in Writes
    BY <1>1, RunningTask, EveryWrite, LinkAssumption DEF Message, TypeOK
<1>3. axis'.torque \in {0, axis.torque}
    BY <1>1, <1>2, OnlyZero
<1>4. CASE task = "tune"
  <2>1. at \in {1, 2, 3, 4, 5, 6, 12, 13, 17}
      BY <1>1, <1>2, <1>4, TaskSteps, TuneSteps, TunePlaces
  <2>2. at \in {5, 13, 17} /\ axis' = Applied(axis, Message) => axis'.torque = 0
    <3>1. at \in {5, 13, 17} => Message = Torque(0)
        BY <1>2, <1>4, TaskSteps, TuneSteps
    <3> QED
        BY <1>2, <3>1, OnlyZero
  <2>3. /\ at > 5 /\ lost = 0 => axis.torque = 0
        /\ at > 13 /\ lost <= 1 => axis.torque = 0
        /\ at > 17 /\ lost <= 2 => axis.torque = 0
      BY <1>4 DEF StillInv
  <2>4. axis.torque = 0 => axis'.torque = 0
      BY <1>3
  <2> HIDE DEF StillInv
  <2>5. /\ at' > 5 /\ lost' = 0 => axis'.torque = 0
        /\ at' > 13 /\ lost' <= 1 => axis'.torque = 0
        /\ at' > 17 /\ lost' <= 2 => axis'.torque = 0
      BY <1>1, <1>2, <2>1, <2>2, <2>3, <2>4
  <2> QED
      BY <1>1, <1>4, <2>5 DEF StillInv
<1>5. CASE task = "handoff"
  <2>1. at \in {1, 2, 3, 4, 5, 7, 9, 11, 13} /\ Message = Handoff[at]
      BY <1>1, <1>2, <1>5, TaskSteps, HandoffSteps, HandoffPlaces
  <2>2. \/ Message = Torque(0)
        \/ Message \in {Write("input", "passthrough"), Write("limit", "swing"),
                        Write("gain", "swing")}
      BY <2>1, HandoffSteps
  <2>3. CASE Message = Torque(0)
      BY <1>1, <1>2, <1>5, <2>3, OnlyZero DEF StillInv
  <2>4. CASE Message \in {Write("input", "passthrough"), Write("limit", "swing"),
                          Write("gain", "swing")}
    <3>1. \/ Applied(axis, Message) = [axis EXCEPT !.input = "passthrough"]
          \/ Applied(axis, Message) = [axis EXCEPT !.limit = "swing"]
          \/ Applied(axis, Message) = [axis EXCEPT !.gain = "swing"]
        BY <1>2, <2>4, AppliedMode
    <3>2. axis'.control = axis.control /\ axis'.error = axis.error
        BY <1>1, <1>2, <3>1 DEF Axes
    <3> QED
        BY <1>1, <1>3, <1>5, <3>2 DEF StillInv
  <2> QED
      BY <2>2, <2>3, <2>4
<1>6. CASE task \notin {"tune", "handoff"}
    BY <1>1, <1>6 DEF StillInv
<1> QED
    BY <1>4, <1>5, <1>6

LEMMA StillStep ==
    ASSUME LinkInv, StillInv, [Next]_vars
    PROVE  StillInv'
<1>1. CASE Send
    BY <1>1, StillSend
<1>2. CASE Receive \/ AskIdle \/ Verify
  <2>1. /\ Running /\ task' = task /\ at' \in {at + 1, Len(Steps[task]) + 1}
        /\ axis' = axis /\ (Message.op # "idle?" => at' = at + 1 /\ lost' = lost)
      BY <1>2 DEF Receive, AskIdle, Verify, GiveUp
  <2>2. /\ at \in 1 .. Len(Steps[task]) /\ Message = Steps[task][at]
      BY <2>1, RunningTask DEF Message
  <2>3. CASE task = "tune"
    <3>1. /\ at \notin {5, 13, 17} /\ Message.op # "idle?" /\ at \in Nat
          /\ Message.op \notin WriteOps
      <4>1. Message.op \notin WriteOps
          BY <1>2 DEF Receive, AskIdle, Verify, WriteOps
      <4>2. at \in 1 .. 17 /\ Message = TorqueArming[at]
          BY <2>2, <2>3, TaskSteps, TuneSteps
      <4> QED
          BY <4>1, <4>2, TuneOps, TunePlaces DEF WriteOps
    <3>2. at' = at + 1 /\ lost' = lost
        BY <2>1, <3>1
    <3> QED
        BY <2>1, <2>3, <3>1, <3>2 DEF StillInv
  <2>4. CASE task # "tune"
      BY <2>1, <2>4 DEF StillInv
  <2> QED
      BY <2>3, <2>4
<1>3. CASE Refuse \/ TripTrial \/ Restart \/ NoAnswer \/ Finish
  <2>1. task' \notin {"tune", "handoff"}
      BY <1>3 DEF Refuse, TripTrial, Restart, NoAnswer, Finish, Begin
  <2> QED
      BY <2>1 DEF StillInv
<1>4. CASE StartSwing \/ TestStart \/ ClearFaults \/ Disarm \/ TickTrial \/ HealthPoll
  <2>1. task' \notin {"tune", "handoff"}
      BY <1>4 DEF StartSwing, TestStart, ClearFaults, Disarm, TickTrial, HealthPoll,
                  HealthAnswered, HealthLost, Begin, InTrial
  <2> QED
      BY <2>1 DEF StillInv
<1>5. CASE StartTuning
    BY <1>5 DEF StartTuning, Begin, StillInv
<1>6. CASE HandOver
  <2>1. axis.error \/ axis.control = "position"
      BY <1>6 DEF HandOver, LinkInv, VerifiedTrial, InTrial, Trials, ModeFits
  <2> QED
      BY <1>6, <2>1 DEF HandOver, Begin, StillInv
<1>7. CASE Expire \/ AxisFails
  <2>1. /\ axis' = [axis EXCEPT !.closed = FALSE, !.error = TRUE]
        /\ UNCHANGED <<task, at, lost>> /\ axis \in Axes
      BY <1>7, TypedAxis DEF Expire, AxisFails, LinkInv
  <2>2. axis'.torque = axis.torque /\ axis'.error
      BY <2>1 DEF Axes
  <2> QED
      BY <2>1, <2>2 DEF StillInv
<1>8. CASE UNCHANGED vars
    BY <1>8 DEF vars, StillInv
<1> QED
    BY <1>1, <1>2, <1>3, <1>4, <1>5, <1>6, <1>7, <1>8 DEF Next, Sequence

\* Whatever is lost on the way, a trial that commands torque finds none standing
\* from an earlier stop, but where all three zeros of an arming were lost; a hand-
\* over cannot be verified without one.
THEOREM StartsStill == Spec => TrialStartsStill
<1>1. Init => StillInv
    BY DEF Init, StillInv
<1>2. LinkInv /\ StillInv /\ [Next]_vars => StillInv'
    BY StillStep
<1>3. ASSUME LinkInv, StillInv, [Next]_vars, task' = "none", task \in {"tune", "handoff"}
      PROVE  axis.error \/ axis.torque = 0 \/ (task = "tune" /\ lost > 2)
  <2>1. Finish
      BY <1>3 DEF Next, vars, Sequence, Send, Receive, AskIdle, Verify, Refuse, NoAnswer,
                  StartTuning, StartSwing, HandOver, TestStart, ClearFaults, Disarm,
                  TripTrial, TickTrial, HealthPoll, Restart, Expire, AxisFails, Begin, InTrial
  <2>2. at > Len(Steps[task]) /\ at \in Nat /\ lost \in Nat
    <3>1. at \in Nat /\ lost \in Nat
        BY <1>3, LinkAssumption DEF LinkInv, TypeOK
    <3>2. Len(Steps[task]) \in 3 .. 23
        BY <1>3, Lengths, TaskSteps
    <3> QED
        BY <1>3, <2>1, <3>1, <3>2 DEF Finish, Running
  <2>3. CASE task = "tune"
    <3>1. at > 17
        BY <2>2, <2>3, TaskSteps, TuneSteps
    <3> QED
        BY <1>3, <2>2, <2>3, <3>1 DEF StillInv
  <2>4. CASE task = "handoff"
    <3>1. at > 14
        BY <2>2, <2>4, TaskSteps, HandoffSteps
    <3>2. axis.error \/ axis.control = "torque"
        BY <1>3, <2>2, <2>4, <3>1 DEF LinkInv, SeenInv, HandoffSeen, Seen
    <3> QED
        BY <1>3, <2>4, <3>2 DEF StillInv
  <2> QED
      BY <1>3, <2>3, <2>4
<1>4. LinkInv /\ StillInv /\ [Next]_vars
        => [task' = "none" /\ task \in {"tune", "handoff"}
              => \/ axis.error \/ axis.torque = 0
                 \/ task = "tune" /\ lost > 2]_vars
    BY <1>3
<1> QED
    BY <1>1, <1>2, <1>4, Inductive, PTL DEF Spec, TrialStartsStill
=============================================================================
