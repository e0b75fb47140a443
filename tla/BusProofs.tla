------------------------------- MODULE BusProofs -------------------------------
(***************************************************************************)
(* Proofs about the two ways to talk to a drive, whose stops and answers      *)
(* hang on what is still under way: UartLink and LegacyCan.                   *)
(*                                                                           *)
(* UartLink, for any properties and any number of replies under way:          *)
(* request() takes the first of the lines that fits, so a least number must   *)
(* be shown to exist; the rest is what draining and reading leave in the      *)
(* buffer, and that UartInv is inductive over a question.                     *)
(*                                                                           *)
(* LegacyCan, for any timeouts and any length of the bus: the steps are of    *)
(* four kinds: frames come off the bus, a stop is put on it, a trial puts     *)
(* something else on it, and those that leave it alone.                       *)
(***************************************************************************)
EXTENDS UartLink, LegacyCan, TLAPS, SequenceTheorems, WellFoundedInduction

-----------------------------------------------------------------------------
(* What is inductive about the transactions *)

Reply == [of : Properties \cup {"feedback"}, intact : BOOLEAN]

\* The drive answers in order: a reply that came while it was waited for has left
\* none of the earlier ones under way.
UartInv ==
    /\ UartTypeOK /\ owed \in Seq(Reply)
    /\ replied => received = Len(owed)
    /\ LateLinesCostNoFeedback /\ MixUpEnds

-----------------------------------------------------------------------------
(* What is inductive about the legacy controller *)

FrameNames == {"clear", "torque_mode", "closed_loop", "push", "zero_torque", "idle"}

\* Outside a trial the last frames on the bus are those of the stop, as long as
\* neither was lost, and where one has arrived the drive shows it.
StopOnBus ==
    ~Running =>
        /\ Len(frames) >= 2 => /\ frames[Len(frames) - 1] = "zero_torque"
                               /\ frames[Len(frames)] = "idle"
                               /\ stopsLost = 0
        /\ Len(frames) = 1 => /\ frames[1] = "idle" /\ stopsLost <= 1
                              /\ stopsLost = 0 => ~axis.torque
        /\ Len(frames) = 0 /\ stopsLost <= 1 => ~(axis.closed /\ axis.torque)

LegacyInv == LegacyTypeOK /\ frames \in Seq(FrameNames) /\ StopOnBus

-----------------------------------------------------------------------------
(* The transactions *)

\* A set of numbers that is not empty has a least one.
LEMMA Least ==
    ASSUME NEW S \in SUBSET Nat, S # {}
    PROVE  Min(S) \in S
<1>1. \E x \in S : \A y \in S : ~(<<y, x>> \in OpToRel(<, Nat))
    BY NatLessThanWellFounded, WFMin, Zenon
<1>2. PICK x \in S : \A y \in S : ~(<<y, x>> \in OpToRel(<, Nat))
    BY <1>1
<1>3. ASSUME NEW y \in S PROVE x <= y
  <2>1. <<y, x>> \notin OpToRel(<, Nat)
      BY <1>2
  <2>2. ~(y < x)
      BY <2>1 DEF OpToRel
  <2> QED
      BY <2>2
<1> QED
    BY <1>3 DEF Min

-----------------------------------------------------------------------------
(* The input *)

\* Draining the input takes what has been received, and damages a line at most.
LEMMA DrainLeaves ==
    ASSUME owed \in Seq(Reply), NEW n \in 0 .. Len(owed), NEW cut \in BOOLEAN
    PROVE  Drained(n, cut) \in Seq(Reply) /\ Len(Drained(n, cut)) = Len(owed) - n
<1> DEFINE rest == SubSeq(owed, n + 1, Len(owed))
<1>1. Len(owed) \in Nat /\ n \in Nat /\ n <= Len(owed)
    OBVIOUS
<1>2. \A i \in n + 1 .. Len(owed) : owed[i] \in Reply
    BY <1>1
<1>3. /\ rest \in Seq(Reply)
      /\ Len(rest) = IF n + 1 <= Len(owed) THEN Len(owed) - (n + 1) + 1 ELSE 0
    BY <1>1, <1>2, SubSeqProperties
<1>4. Len(rest) = Len(owed) - n
    BY <1>1, <1>3
<1> HIDE DEF rest
<1>5. CASE cut /\ rest # <<>>
  <2>1. 1 \in 1 .. Len(rest)
      BY <1>3, <1>5, EmptySeq
  <2>2. [rest[1] EXCEPT !.intact = FALSE] \in Reply
    <3>1. rest[1] \in Reply
        BY <1>3, <2>1
    <3> QED
        BY <3>1 DEF Reply
  <2>3. [rest EXCEPT ![1].intact = FALSE]
           = [rest EXCEPT ![1] = [rest[1] EXCEPT !.intact = FALSE]]
      BY <1>3, <2>1
  <2>4. /\ [rest EXCEPT ![1].intact = FALSE] \in Seq(Reply)
        /\ Len([rest EXCEPT ![1].intact = FALSE]) = Len(rest)
      BY <1>3, <2>1, <2>2, <2>3, ExceptSeq
  <2>5. Drained(n, cut) = [rest EXCEPT ![1].intact = FALSE]
      BY <1>5 DEF Drained, rest
  <2> QED
      BY <1>4, <2>4, <2>5
<1>6. CASE ~(cut /\ rest # <<>>)
  <2>1. Drained(n, cut) = rest
      BY <1>6 DEF Drained, rest
  <2> QED
      BY <1>3, <1>4, <2>1
<1> QED
    BY <1>5, <1>6

LEMMA OwnReply ==
    ASSUME NEW of \in Properties \cup {"feedback"}, NEW own \in Replies(of)
    PROVE  /\ own \in Seq(Reply)
           /\ \/ own = <<>> /\ Len(own) = 0
              \/ own # <<>> /\ Len(own) = 1 /\ own[1] \in Reply /\ own[1].of = of
<1>1. CASE own = <<>>
    BY <1>1
<1>2. CASE own # <<>>
  <2>1. PICK ok \in BOOLEAN : own = <<[of |-> of, intact |-> ok]>>
      BY <1>2 DEF Replies
  <2>2. [of |-> of, intact |-> ok] \in Reply
      BY DEF Reply
  <2> QED
      BY <2>1, <2>2
<1> QED
    BY <1>1, <1>2

-----------------------------------------------------------------------------
(* A question *)

\* What is under way and in the buffer after the first `end` lines were read.
LEMMA LinesLeft ==
    ASSUME NEW line \in Seq(Reply), NEW n \in 0 .. Len(line), NEW end \in 0 .. n
    PROVE  /\ SubSeq(line, end + 1, Len(line)) \in Seq(Reply)
           /\ Len(SubSeq(line, end + 1, Len(line))) = Len(line) - end
<1>1. Len(line) \in Nat /\ end \in Nat /\ end <= Len(line)
    OBVIOUS
<1>2. \A i \in end + 1 .. Len(line) : line[i] \in Reply
    BY <1>1
<1>3. /\ SubSeq(line, end + 1, Len(line)) \in Seq(Reply)
      /\ Len(SubSeq(line, end + 1, Len(line)))
            = IF end + 1 <= Len(line) THEN Len(line) - (end + 1) + 1 ELSE 0
    BY <1>1, <1>2, SubSeqProperties
<1> QED
    BY <1>1, <1>3

LEMMA RequestInv ==
    ASSUME UartInv, NEW of \in Properties \cup {"feedback"}, Request(of)
    PROVE  UartInv'
<1>1. /\ owed \in Seq(Reply) /\ Len(owed) \in Nat /\ received \in 0 .. Len(owed)
      /\ replied => received = Len(owed)
      /\ replied \in BOOLEAN
    BY DEF UartInv, UartTypeOK
<1> DEFINE Fitting(line, n) == {i \in 1 .. n : Fits(line[i], of)}
           End(line, n) == IF Fitting(line, n) = {} THEN n ELSE Min(Fitting(line, n))
           Ended(old, own, line, n, end) ==
              /\ Len(line) - end <= MaxOwed
              /\ asked' = of
              /\ answered' = (Fitting(line, n) # {} /\ Parsed(line[end], of))
              /\ byItself' = (answered' /\ end > Len(old))
              /\ owed' = SubSeq(line, end + 1, Len(line))
              /\ received' = n - end
              /\ replied' = (own # <<>> /\ n = Len(line))
              /\ intact' = (replied' /\ own[1].intact)
              /\ before' = replied
<1>2. PICK old \in Lines, own \in Replies(of) :
         \E n \in 0 .. Len(old \o own) :
            Ended(old, own, old \o own, n, End(old \o own, n))
    BY Zenon DEF Request
<1> DEFINE line == old \o own
<1>3. PICK n \in 0 .. Len(line) : Ended(old, own, line, n, End(line, n))
    BY <1>2, Zenon
<1>4. PICK end : end = End(line, n)
    OBVIOUS
<1>5. old \in Seq(Reply) /\ Len(old) \in Nat /\ (replied => Len(old) = 0)
  <2>1. PICK k \in received .. Len(owed), cut \in BOOLEAN : old = Drained(k, cut)
      BY DEF Lines
  <2>2. k \in 0 .. Len(owed) /\ (replied => k = Len(owed))
      BY <1>1
  <2>3. old \in Seq(Reply) /\ Len(old) = Len(owed) - k
      BY <1>1, <2>1, <2>2, DrainLeaves
  <2> QED
      BY <1>1, <2>2, <2>3
<1>6. /\ own \in Seq(Reply)
      /\ \/ own = <<>> /\ Len(own) = 0
         \/ own # <<>> /\ Len(own) = 1 /\ own[1] \in Reply /\ own[1].of = of
    BY OwnReply
<1>7. /\ line \in Seq(Reply) /\ Len(line) = Len(old) + Len(own)
      /\ own # <<>> => line[Len(line)] = own[1]
  <2>1. /\ line \in Seq(Reply) /\ Len(line) = Len(old) + Len(own)
        /\ \A i \in 1 .. Len(old) + Len(own) :
              line[i] = IF i <= Len(old) THEN old[i] ELSE own[i - Len(old)]
      BY <1>5, <1>6, ConcatProperties
  <2>2. ASSUME own # <<>> PROVE line[Len(line)] = own[1]
    <3>1. Len(line) = Len(old) + 1 /\ Len(old) + 1 \in 1 .. Len(old) + Len(own)
        BY <1>5, <1>6, <2>1, <2>2
    <3>2. line[Len(old) + 1] = own[Len(old) + 1 - Len(old)]
        BY <1>5, <2>1, <3>1
    <3>3. Len(old) + 1 - Len(old) = 1
        BY <1>5
    <3> QED
        BY <3>1, <3>2, <3>3, Zenon
  <2> QED
      BY <2>1, <2>2
<1> HIDE DEF line
<1>8. n \in Nat /\ n <= Len(line) /\ Len(line) \in Nat
    BY <1>7
<1>9. /\ end \in 0 .. n
      /\ Fitting(line, n) # {} => end >= 1 /\ Fits(line[end], of)
  <2>1. CASE Fitting(line, n) = {}
      BY <1>8, <1>4, <2>1
  <2>2. CASE Fitting(line, n) # {}
    <3>1. Fitting(line, n) \in SUBSET Nat
        BY <1>8
    <3>2. end = Min(Fitting(line, n))
        BY <1>4, <2>2
    <3>3. end \in Fitting(line, n)
        BY <2>2, <3>1, <3>2, Least
    <3> QED
        BY <1>8, <3>3
  <2> QED
      BY <2>1, <2>2
<1>10. /\ Len(line) - end <= MaxOwed /\ asked' = of
      /\ answered' = (Fitting(line, n) # {} /\ Parsed(line[end], of))
      /\ byItself' = (answered' /\ end > Len(old))
      /\ owed' = SubSeq(line, end + 1, Len(line)) /\ received' = n - end
      /\ replied' = (own # <<>> /\ n = Len(line))
      /\ intact' = (replied' /\ own[1].intact) /\ before' = replied
    BY <1>3, <1>4
<1>11. owed' \in Seq(Reply) /\ Len(owed') = Len(line) - end
    BY <1>7, <1>9, <1>10, LinesLeft
<1>12. replied' => received' = Len(owed')
    BY <1>10, <1>11
<1>13. MixUpEnds'
  <2>1. ASSUME before', answered' PROVE byItself'
    <3>1. Len(old) = 0 /\ Fitting(line, n) # {}
        BY <1>5, <1>10, <2>1
    <3>2. end > Len(old)
        BY <1>8, <1>9, <3>1
    <3> QED
        BY <1>10, <2>1, <3>2
  <2> QED
      BY <2>1 DEF MixUpEnds
<1>14. LateLinesCostNoFeedback'
  <2>1. ASSUME of = "feedback", intact' PROVE answered'
    <3>1. own # <<>> /\ n = Len(line) /\ own[1].intact
        BY <1>10, <2>1
    <3>2. line[n] = own[1] /\ own[1].of = "feedback" /\ n >= 1
        BY <1>5, <1>6, <1>7, <2>1, <3>1
    <3>3. Fits(line[n], of)
        BY <3>1, <3>2 DEF Fits
    <3>4. Fitting(line, n) # {}
        BY <1>8, <3>2, <3>3
    <3>5. Parsed(line[end], of)
        BY <1>9, <2>1, <3>4 DEF Fits, Parsed
    <3> QED
        BY <1>10, <3>4, <3>5
  <2> QED
      BY <1>10, <2>1 DEF LateLinesCostNoFeedback
<1>15. UartTypeOK'
  <2>1. Len(owed') <= MaxOwed /\ received' \in 0 .. Len(owed')
    <3>1. Len(line) \in Int /\ MaxOwed \in Int /\ n \in Int /\ end \in Int
        BY <1>8, <1>9, UartAssumption
    <3>2. received' = n - end /\ Len(owed') = Len(line) - end
        BY <1>10, <1>11
    <3> QED
        BY <1>8, <1>9, <1>10, <3>1, <3>2
  <2>2. answered' \in BOOLEAN
    <3>1. (Fitting(line, n) # {} /\ Parsed(line[end], of)) \in BOOLEAN
        OBVIOUS
    <3> QED
        BY <1>10, <3>1, Zenon
  <2>3. byItself' \in BOOLEAN
    <3>1. (answered' /\ end > Len(old)) \in BOOLEAN
        OBVIOUS
    <3> QED
        BY <1>10, <3>1, Zenon
  <2>4. replied' \in BOOLEAN
    <3>1. (own # <<>> /\ n = Len(line)) \in BOOLEAN
        OBVIOUS
    <3> QED
        BY <1>10, <3>1, Zenon
  <2>5. intact' \in BOOLEAN
    <3>1. (replied' /\ own[1].intact) \in BOOLEAN
        OBVIOUS
    <3> QED
        BY <1>10, <3>1, Zenon
  <2>6. before' \in BOOLEAN /\ asked' \in Properties \cup {"none", "feedback"}
      BY <1>1, <1>10
  <2> QED
      BY <2>1, <2>2, <2>3, <2>4, <2>5, <2>6 DEF UartTypeOK
<1> QED
    BY <1>11, <1>12, <1>13, <1>14, <1>15 DEF UartInv

LEMMA UartStart == UartInit => UartInv
<1> SUFFICES ASSUME UartInit PROVE UartInv
    OBVIOUS
<1>1. owed \in Seq(Reply) /\ Len(owed) = 0 /\ MaxOwed \in Nat
    BY UartAssumption DEF UartInit
<1>2. UartTypeOK
  <2>1. Len(owed) <= MaxOwed /\ received \in 0 .. Len(owed)
      BY <1>1 DEF UartInit
  <2>2. {answered, byItself, replied, intact, before} \subseteq BOOLEAN
      BY DEF UartInit
  <2>3. asked \in Properties \cup {"none", "feedback"}
      BY DEF UartInit
  <2> QED
      BY <2>1, <2>2, <2>3, Zenon DEF UartTypeOK
<1>3. ~replied /\ ~intact /\ ~before
    BY DEF UartInit
<1> QED
    BY <1>1, <1>2, <1>3, Zenon DEF UartInv, LateLinesCostNoFeedback, MixUpEnds

LEMMA UartStep == UartInv /\ [UartNext]_uartVars => UartInv'
<1> SUFFICES ASSUME UartInv, [UartNext]_uartVars PROVE UartInv'
    OBVIOUS
<1>1. CASE UartNext
    BY <1>1, RequestInv DEF UartNext, Feedback, ReadProperty
<1>2. CASE UNCHANGED uartVars
    BY <1>2
    DEF UartInv, UartTypeOK, LateLinesCostNoFeedback, MixUpEnds, uartVars
<1> QED
    BY <1>1, <1>2

\* Every behaviour of the link keeps UartInv.
THEOREM UartInductive == UartSpec => []UartInv
BY UartStart, UartStep, PTL DEF UartSpec

\* request(), for any properties and any number of replies under way: a feedback
\* request is answered when its reply comes undamaged and in time.
THEOREM FeedbackAnswered == UartSpec => []LateLinesCostNoFeedback
<1>1. UartInv => LateLinesCostNoFeedback
    BY DEF UartInv
<1> QED
    BY <1>1, UartInductive, PTL

\* request(): after a reply that came while it was waited for, the next answer is
\* the one to its own question.
THEOREM AnswersAreOwn == UartSpec => []MixUpEnds
<1>1. UartInv => MixUpEnds
    BY DEF UartInv
<1> QED
    BY <1>1, UartInductive, PTL

-----------------------------------------------------------------------------
(* LegacyCan *)

Axes == [closed : BOOLEAN, error : BOOLEAN, torque : BOOLEAN]
Modes == {"DISARMED", "SWING_UP", "BALANCE", "FAULT"}

\* What the type invariant says about the bus, and about the rest.
BusOK ==
    /\ canMode \in Modes /\ frames \in Seq(FrameNames) /\ Len(frames) <= MaxFrames
    /\ axis \in Axes /\ stopsLost \in 0 .. 2

RestOK ==
    /\ {zeroIsValid, estopClosed, axisError} \subseteq BOOLEAN
    /\ beatAge \in 0 .. BeatLimit + 1 /\ feedbackAge \in 0 .. FeedbackLimit + 1

LEMMA LegacyParts == LegacyInv <=> BusOK /\ RestOK /\ StopOnBus
BY Zenon DEF LegacyInv, LegacyTypeOK, BusOK, RestOK, Axes, Modes

LEMMA LegacyPartsPrime == BusOK' /\ RestOK' /\ StopOnBus' => LegacyInv'
BY Zenon DEF LegacyInv, LegacyTypeOK, BusOK, RestOK, Axes, Modes

-----------------------------------------------------------------------------
(* The bus *)

\* What a frame does to the axis.
LEMMA FrameReceived ==
    ASSUME axis \in Axes, NEW frame \in FrameNames
    PROVE  /\ Received(frame) \in Axes
           /\ frame = "zero_torque" => ~Received(frame).torque
           /\ frame = "idle" => /\ ~Received(frame).closed
                                /\ Received(frame).torque = axis.torque
<1>1. CASE frame = "clear"
  <2>1. Received(frame) = [axis EXCEPT !.error = FALSE]
      BY <1>1, Zenon DEF Received
  <2> QED
      BY <1>1, <2>1 DEF Axes
<1>2. CASE frame = "closed_loop"
  <2>1. Received(frame) = [axis EXCEPT !.closed = ~axis.error]
      BY <1>2, Zenon DEF Received
  <2> QED
      BY <1>2, <2>1 DEF Axes
<1>3. CASE frame = "idle"
  <2>1. Received(frame) = [axis EXCEPT !.closed = FALSE]
      BY <1>3, Zenon DEF Received
  <2> QED
      BY <1>3, <2>1 DEF Axes
<1>4. CASE frame = "push"
  <2>1. Received(frame) = [axis EXCEPT !.torque = (frame = "push")]
      BY <1>4, Zenon DEF Received
  <2> QED
      BY <1>4, <2>1 DEF Axes
<1>5. CASE frame = "zero_torque"
  <2>1. Received(frame) = [axis EXCEPT !.torque = (frame = "push")]
      BY <1>5, Zenon DEF Received
  <2> QED
      BY <1>5, <2>1 DEF Axes
<1>6. CASE frame = "torque_mode"
  <2>1. Received(frame) = axis
      BY <1>6, Zenon DEF Received
  <2> QED
      BY <1>6, <2>1
<1> QED
    BY <1>1, <1>2, <1>3, <1>4, <1>5, <1>6 DEF FrameNames

LEMMA FirstOff ==
    ASSUME frames \in Seq(FrameNames), frames # <<>>
    PROVE  /\ Len(frames) \in Nat /\ Len(frames) >= 1 /\ Head(frames) = frames[1]
           /\ Head(frames) \in FrameNames /\ Tail(frames) \in Seq(FrameNames)
           /\ Len(Tail(frames)) = Len(frames) - 1
           /\ \A i \in 1 .. Len(frames) - 1 : Tail(frames)[i] = frames[i + 1]
<1>1. /\ Head(frames) \in FrameNames /\ Tail(frames) \in Seq(FrameNames)
      /\ Len(Tail(frames)) = Len(frames) - 1
      /\ \A i \in 1 .. Len(Tail(frames)) : Tail(frames)[i] = frames[i + 1]
    BY HeadTailProperties
<1>2. Len(frames) \in Nat /\ Len(frames) >= 1
    BY EmptySeq
<1>3. Head(frames) = frames[1]
    OBVIOUS
<1> QED
    BY <1>1, <1>2, <1>3

\* The stop stays the last on the bus when a frame comes off it.
LEMMA StillLast ==
    ASSUME frames \in Seq(FrameNames), frames # <<>>, StopOnBus, ~Running
    PROVE  /\ Len(frames) >= 3 => LET left == Tail(frames) IN
                 /\ left[Len(left) - 1] = "zero_torque" /\ left[Len(left)] = "idle"
                 /\ Len(left) >= 2
           /\ Len(frames) = 2 => /\ Head(frames) = "zero_torque"
                                 /\ Tail(frames)[1] = "idle"
           /\ Len(frames) = 1 => Head(frames) = "idle"
           /\ Len(frames) >= 2 => stopsLost = 0
<1>1. /\ Len(frames) \in Nat /\ Len(frames) >= 1 /\ Head(frames) = frames[1]
      /\ Len(Tail(frames)) = Len(frames) - 1
      /\ \A i \in 1 .. Len(frames) - 1 : Tail(frames)[i] = frames[i + 1]
    BY FirstOff
<1>2. /\ Len(frames) >= 2 => /\ frames[Len(frames) - 1] = "zero_torque"
                             /\ frames[Len(frames)] = "idle"
                             /\ stopsLost = 0
      /\ Len(frames) = 1 => frames[1] = "idle"
    BY DEF StopOnBus
<1>3. ASSUME Len(frames) >= 3
      PROVE  /\ Tail(frames)[Len(frames) - 2] = "zero_torque"
             /\ Tail(frames)[Len(frames) - 1] = "idle"
  <2>1. /\ Len(frames) - 2 \in 1 .. Len(frames) - 1
        /\ Len(frames) - 1 \in 1 .. Len(frames) - 1
        /\ Len(frames) - 2 + 1 = Len(frames) - 1 /\ Len(frames) - 1 + 1 = Len(frames)
      BY <1>1, <1>3
  <2>2. /\ Tail(frames)[Len(frames) - 2] = frames[Len(frames) - 2 + 1]
        /\ Tail(frames)[Len(frames) - 1] = frames[Len(frames) - 1 + 1]
      BY <1>1, <2>1
  <2>3. Len(frames) >= 2
      BY <1>1, <1>3
  <2> QED
      BY <1>2, <2>1, <2>2, <2>3, Zenon
<1>4. ASSUME Len(frames) = 2
      PROVE  Head(frames) = "zero_torque" /\ Tail(frames)[1] = "idle"
  <2>1. Len(frames) >= 2 /\ Len(frames) - 1 = 1 /\ 1 \in 1 .. Len(frames) - 1
      BY <1>4
  <2>2. Tail(frames)[1] = frames[2]
      BY <1>1, <2>1
  <2> QED
      BY <1>1, <1>2, <1>4, <2>1, <2>2
<1> QED
  <2>1. ASSUME Len(frames) >= 3
        PROVE  Len(Tail(frames)) - 1 = Len(frames) - 2 /\ Len(Tail(frames)) >= 2
      BY <1>1, <2>1
  <2> QED
      BY <1>1, <1>2, <1>3, <1>4, <2>1, Zenon

LEMMA DeliverBus ==
    ASSUME BusOK, StopOnBus, Deliver
    PROVE  BusOK' /\ StopOnBus'
<1>1. /\ frames # <<>> /\ frames' = Tail(frames) /\ axis' = Received(Head(frames))
      /\ UNCHANGED <<canMode, stopsLost>>
    BY DEF Deliver
<1>2. /\ Len(frames) \in Nat /\ Len(frames) >= 1 /\ Head(frames) = frames[1]
      /\ Head(frames) \in FrameNames /\ Tail(frames) \in Seq(FrameNames)
      /\ Len(Tail(frames)) = Len(frames) - 1
    BY <1>1, FirstOff DEF BusOK
<1>3. /\ axis' \in Axes
      /\ Head(frames) = "zero_torque" => ~axis'.torque
      /\ Head(frames) = "idle" => ~axis'.closed /\ axis'.torque = axis.torque
    BY <1>1, <1>2, FrameReceived DEF BusOK
<1>4. BusOK'
  <2>1. Len(frames') <= MaxFrames
      BY <1>1, <1>2, LegacyAssumption DEF BusOK
  <2> QED
      BY <1>1, <1>2, <1>3, <2>1 DEF BusOK
<1>5. StopOnBus'
  <2>1. SUFFICES ASSUME ~Running
        PROVE  /\ Len(frames') >= 2 => /\ frames'[Len(frames') - 1] = "zero_torque"
                                       /\ frames'[Len(frames')] = "idle"
                                       /\ stopsLost' = 0
               /\ Len(frames') = 1 => /\ frames'[1] = "idle" /\ stopsLost' <= 1
                                      /\ stopsLost' = 0 => ~axis'.torque
               /\ Len(frames') = 0 /\ stopsLost' <= 1
                     => ~(axis'.closed /\ axis'.torque)
      BY <1>1 DEF StopOnBus, Running
  <2>2. CASE Len(frames) >= 3
    <3>1. Len(frames') >= 2
        BY <1>1, <1>2, <2>2
    <3> QED
        BY <1>1, <1>2, <2>1, <2>2, <3>1, StillLast DEF BusOK
  <2>3. CASE Len(frames) = 2
    <3>1. Len(frames') = 1 /\ frames'[1] = "idle" /\ stopsLost' = 0 /\ ~axis'.torque
      <4>1. /\ Head(frames) = "zero_torque" /\ Tail(frames)[1] = "idle"
            /\ stopsLost = 0
          BY <1>1, <2>1, <2>3, StillLast DEF BusOK
      <4>2. ~axis'.torque
          BY <1>3, <4>1
      <4> QED
          BY <1>1, <1>2, <2>3, <4>1, <4>2
    <3> QED
        BY <3>1
  <2>4. CASE Len(frames) = 1
    <3>1. Len(frames') = 0 /\ ~axis'.closed
        BY <1>1, <1>2, <1>3, <2>1, <2>4, StillLast DEF BusOK
    <3> QED
        BY <3>1
  <2> QED
      BY <1>2, <2>2, <2>3, <2>4
<1> QED
    BY <1>4, <1>5

LEMMA DropBus ==
    ASSUME BusOK, StopOnBus, Drop
    PROVE  BusOK' /\ StopOnBus'
<1>1. /\ frames # <<>> /\ frames' = Tail(frames) /\ UNCHANGED <<canMode, axis>>
      /\ stopsLost' = IF ~Running /\ Len(frames) <= Len(StopFrames)
                      THEN stopsLost + 1 ELSE stopsLost
    BY DEF Drop
<1>2. /\ Len(frames) \in Nat /\ Len(frames) >= 1 /\ Head(frames) = frames[1]
      /\ Head(frames) \in FrameNames /\ Tail(frames) \in Seq(FrameNames)
      /\ Len(Tail(frames)) = Len(frames) - 1
    BY <1>1, FirstOff DEF BusOK
<1>3. Len(StopFrames) = 2 /\ stopsLost \in 0 .. 2
    BY DEF StopFrames, BusOK
<1>4. Len(frames') <= MaxFrames
    BY <1>1, <1>2, LegacyAssumption DEF BusOK
<1>5. CASE Running
  <2>1. stopsLost' = stopsLost
      BY <1>1, <1>5
  <2>2. BusOK'
      BY <1>1, <1>2, <1>4, <2>1 DEF BusOK
  <2>3. StopOnBus'
      BY <1>1, <1>5 DEF StopOnBus, Running
  <2> QED
      BY <2>2, <2>3
<1>6. CASE ~Running
  <2>1. SUFFICES /\ stopsLost' \in 0 .. 2
                 /\ Len(frames') >= 2 => /\ frames'[Len(frames') - 1] = "zero_torque"
                                         /\ frames'[Len(frames')] = "idle"
                                         /\ stopsLost' = 0
                 /\ Len(frames') = 1 => /\ frames'[1] = "idle" /\ stopsLost' <= 1
                                        /\ stopsLost' = 0 => ~axis'.torque
                 /\ Len(frames') = 0 /\ stopsLost' <= 1
                       => ~(axis'.closed /\ axis'.torque)
    <3>1. ASSUME stopsLost' \in 0 .. 2 PROVE BusOK'
        BY <1>1, <1>2, <1>4, <3>1 DEF BusOK
    <3> QED
        BY <3>1 DEF StopOnBus
  <2>2. CASE Len(frames) >= 3
    <3>1. Len(frames') >= 2 /\ stopsLost' = stopsLost
        BY <1>1, <1>2, <1>3, <2>2
    <3> QED
        BY <1>1, <1>2, <1>3, <1>6, <2>2, <3>1, StillLast DEF BusOK
  <2>3. CASE Len(frames) = 2
    <3>1. Len(frames') = 1 /\ frames'[1] = "idle" /\ stopsLost = 0
        BY <1>1, <1>2, <1>6, <2>3, StillLast DEF BusOK
    <3>2. stopsLost' = 1
        BY <1>1, <1>3, <1>6, <2>3, <3>1
    <3> QED
        BY <3>1, <3>2
  <2>4. CASE Len(frames) = 1
    <3>1. Len(frames') = 0 /\ stopsLost' = stopsLost + 1
        BY <1>1, <1>2, <1>3, <1>6, <2>4
    <3>2. stopsLost <= 1 /\ (stopsLost = 0 => ~axis.torque)
        BY <1>6, <2>4 DEF StopOnBus
    <3> QED
        BY <1>1, <1>3, <3>1, <3>2
  <2> QED
      BY <1>2, <2>2, <2>3, <2>4
<1> QED
    BY <1>5, <1>6

-----------------------------------------------------------------------------
(* The controller *)

\* What is put on the bus behind what is there.
LEMMA PutOn ==
    ASSUME frames \in Seq(FrameNames), NEW list \in Seq(FrameNames)
    PROVE  /\ frames \o list \in Seq(FrameNames)
           /\ Len(frames \o list) = Len(frames) + Len(list)
           /\ \A i \in 1 .. Len(list) : (frames \o list)[Len(frames) + i] = list[i]
<1>1. /\ frames \o list \in Seq(FrameNames)
      /\ Len(frames \o list) = Len(frames) + Len(list)
      /\ \A i \in 1 .. Len(frames) + Len(list) :
            (frames \o list)[i] = IF i <= Len(frames) THEN frames[i]
                                  ELSE list[i - Len(frames)]
    BY ConcatProperties
<1>2. Len(frames) \in Nat /\ Len(list) \in Nat
    OBVIOUS
<1>3. ASSUME NEW i \in 1 .. Len(list)
      PROVE  (frames \o list)[Len(frames) + i] = list[i]
  <2>1. /\ Len(frames) + i \in 1 .. Len(frames) + Len(list)
        /\ ~(Len(frames) + i <= Len(frames)) /\ Len(frames) + i - Len(frames) = i
      BY <1>2
  <2>2. (frames \o list)[Len(frames) + i] = list[Len(frames) + i - Len(frames)]
      BY <1>1, <2>1
  <2> QED
      BY <2>1, <2>2
<1> QED
    BY <1>1, <1>3

LEMMA SendStopBus ==
    ASSUME BusOK, NEW mode \in {"DISARMED", "FAULT"}, SendStop(mode), BusRoom(2),
           UNCHANGED axis
    PROVE  BusOK' /\ StopOnBus'
<1>1. canMode' = mode /\ frames' = frames \o StopFrames /\ stopsLost' = 0
    BY DEF SendStop
<1>2. /\ StopFrames \in Seq(FrameNames) /\ Len(StopFrames) = 2
      /\ StopFrames[1] = "zero_torque" /\ StopFrames[2] = "idle"
    BY DEF StopFrames, FrameNames
<1>3. Len(frames) \in Nat
    BY DEF BusOK
<1>4. /\ frames' \in Seq(FrameNames) /\ Len(frames') = Len(frames) + 2
      /\ frames'[Len(frames) + 1] = "zero_torque"
      /\ frames'[Len(frames) + 2] = "idle"
  <2>1. /\ frames' \in Seq(FrameNames) /\ Len(frames') = Len(frames) + 2
        /\ \A i \in 1 .. 2 : frames'[Len(frames) + i] = StopFrames[i]
      BY <1>1, <1>2, PutOn, Zenon DEF BusOK
  <2>2. 1 \in 1 .. 2 /\ 2 \in 1 .. 2
      OBVIOUS
  <2> QED
      BY <1>2, <2>1, <2>2, Zenon
<1>5. BusOK'
  <2>1. Len(frames') <= MaxFrames
      BY <1>3, <1>4, LegacyAssumption DEF BusRoom
  <2> QED
      BY <1>1, <1>4, <2>1 DEF BusOK, Modes
<1>6. StopOnBus'
  <2>1. /\ Len(frames') >= 2 /\ Len(frames') - 1 = Len(frames) + 1
        /\ Len(frames') # 1 /\ Len(frames') # 0
      BY <1>3, <1>4
  <2> QED
      BY <1>1, <1>4, <2>1, Zenon DEF StopOnBus
<1> QED
    BY <1>5, <1>6

LEMMA EnterFaultBus ==
    ASSUME BusOK, StopOnBus, EnterFault, BusRoom(2), UNCHANGED axis
    PROVE  BusOK' /\ StopOnBus'
<1>1. CASE canMode = "FAULT"
  <2>1. UNCHANGED <<canMode, frames, stopsLost, axis>>
      BY <1>1 DEF EnterFault
  <2> QED
      BY <2>1 DEF BusOK, StopOnBus, Running
<1>2. CASE canMode # "FAULT"
    BY <1>2, SendStopBus DEF EnterFault
<1> QED
    BY <1>1, <1>2

\* A trial writes what it likes.
LEMMA TrialBus ==
    ASSUME BusOK, NEW list \in Seq(FrameNames), frames' = frames \o list,
           Len(frames) + Len(list) <= MaxFrames,
           canMode' \in {"SWING_UP", "BALANCE"}, UNCHANGED <<axis, stopsLost>>
    PROVE  BusOK' /\ StopOnBus'
<1>1. frames' \in Seq(FrameNames) /\ Len(frames') = Len(frames) + Len(list)
    BY PutOn DEF BusOK
<1> QED
    BY <1>1 DEF BusOK, StopOnBus, Running, Modes

-----------------------------------------------------------------------------
(* The inductive invariant *)

LEMMA TicksBus ==
    ASSUME BusOK, StopOnBus, Ticks,
           TickIdle \/ TickDrive \/ TickStops \/ TickUnhealthy \/ TickLate
    PROVE  BusOK' /\ StopOnBus'
<1>1. BusRoom(3) /\ UNCHANGED axis /\ Len(frames) \in Nat
    BY DEF Ticks, BusOK
<1>2. BusRoom(2) /\ BusRoom(1)
    BY <1>1, LegacyAssumption DEF BusRoom
<1>3. CASE TickIdle
  <2>1. UNCHANGED <<canMode, frames, stopsLost, axis>>
      BY <1>1, <1>3 DEF TickIdle
  <2> QED
      BY <2>1 DEF BusOK, StopOnBus, Running
<1>4. CASE TickDrive
  <2>1. PICK torque \in {"push", "zero_torque"} : frames' = Append(frames, torque)
      BY <1>4 DEF TickDrive
  <2>2. <<torque>> \in Seq(FrameNames) /\ Len(<<torque>>) = 1
      BY DEF FrameNames
  <2>3. frames' = frames \o <<torque>>
      BY <2>1, <2>2, AppendIsConcat DEF BusOK, FrameNames
  <2>4. canMode' \in {"SWING_UP", "BALANCE"} /\ UNCHANGED <<axis, stopsLost>>
      BY <1>1, <1>4 DEF TickDrive
  <2> QED
      BY <1>2, <2>2, <2>3, <2>4, TrialBus DEF BusRoom
<1>5. CASE TickStops \/ TickUnhealthy \/ TickLate
    BY <1>1, <1>2, <1>5, EnterFaultBus DEF TickStops, TickUnhealthy, TickLate
<1> QED
    BY <1>3, <1>4, <1>5

LEMMA NextBus ==
    ASSUME BusOK, StopOnBus, LegacyNext
    PROVE  BusOK' /\ StopOnBus'
<1>1. CASE DriveFails
  <2>1. /\ axis' = [axis EXCEPT !.closed = FALSE, !.error = TRUE]
        /\ UNCHANGED <<canMode, frames, stopsLost>>
      BY <1>1 DEF DriveFails
  <2>2. axis' \in Axes /\ ~axis'.closed /\ axis'.torque = axis.torque
      BY <2>1 DEF BusOK, Axes
  <2> QED
      BY <2>1, <2>2 DEF BusOK, StopOnBus, Running
<1>2. CASE OnHeartbeat \/ OnFeedback \/ ZeroCommand \/ Switch
  <2>1. UNCHANGED <<canMode, frames, stopsLost, axis>>
      BY <1>2 DEF OnHeartbeat, OnFeedback, ZeroCommand, Switch
  <2> QED
      BY <2>1 DEF BusOK, StopOnBus, Running
<1>3. CASE TickIdle \/ TickDrive \/ TickStops \/ TickUnhealthy \/ TickLate
    BY <1>3, TicksBus DEF TickIdle, TickDrive, TickStops, TickUnhealthy, TickLate
<1>4. CASE ArmCommand
  <2>1. /\ frames' = frames \o ArmFrames /\ canMode' = "SWING_UP" /\ BusRoom(5)
        /\ UNCHANGED <<axis, stopsLost>>
      BY <1>4 DEF ArmCommand
  <2>2. ArmFrames \in Seq(FrameNames) /\ Len(ArmFrames) = 3
      BY DEF ArmFrames, FrameNames
  <2>3. Len(frames) + Len(ArmFrames) <= MaxFrames
    <3>1. Len(frames) \in Nat
        BY DEF BusOK
    <3> QED
        BY <2>1, <2>2, <3>1, LegacyAssumption DEF BusRoom
  <2> QED
      BY <2>1, <2>2, <2>3, TrialBus
<1>5. CASE DisarmCommand
  <2>1. SendStop("DISARMED") /\ BusRoom(3) /\ UNCHANGED axis /\ Len(frames) \in Nat
      BY <1>5 DEF DisarmCommand, BusOK
  <2>2. BusRoom(2)
      BY <2>1, LegacyAssumption DEF BusRoom
  <2> QED
      BY <2>1, <2>2, SendStopBus
<1>6. CASE Reset
  <2>1. canMode' = "DISARMED" /\ frames' = <<>> /\ stopsLost' = 2 /\ axis' = axis
      BY <1>6 DEF Reset
  <2>2. Len(frames') = 0 /\ frames' \in Seq(FrameNames)
      BY <2>1
  <2> QED
      BY <2>1, <2>2, LegacyAssumption DEF BusOK, StopOnBus, Modes
<1> QED
    BY <1>1, <1>2, <1>3, <1>4, <1>5, <1>6, DeliverBus, DropBus DEF LegacyNext

LEMMA NextRest ==
    ASSUME BusOK, RestOK, LegacyNext
    PROVE  RestOK'
<1> USE LegacyAssumption
<1>1. axis.error \in BOOLEAN
    BY DEF BusOK, Axes
<1>2. CASE Deliver \/ Drop \/ DriveFails \/ DisarmCommand \/ ArmCommand
    BY <1>2 DEF RestOK, Deliver, Drop, DriveFails, DisarmCommand, ArmCommand
<1>3. CASE OnHeartbeat
    BY <1>1, <1>3 DEF RestOK, OnHeartbeat
<1>4. CASE OnFeedback
    BY <1>4 DEF RestOK, OnFeedback
<1>5. CASE Ticks
    BY <1>5 DEF RestOK, Ticks, Older
<1>6. CASE ZeroCommand
    BY <1>6 DEF RestOK, ZeroCommand
<1>7. CASE Switch
    BY <1>7 DEF RestOK, Switch
<1>8. CASE Reset
  <2>1. 0 \in 0 .. BeatLimit + 1 /\ 0 \in 0 .. FeedbackLimit + 1
      OBVIOUS
  <2>2. {zeroIsValid', estopClosed', axisError'} \subseteq BOOLEAN
      BY <1>8 DEF RestOK, Reset
  <2> QED
      BY <1>8, <2>1, <2>2, Zenon DEF RestOK, Reset
<1> QED
    BY <1>2, <1>3, <1>4, <1>5, <1>6, <1>7, <1>8
    DEF LegacyNext, TickIdle, TickDrive, TickStops, TickUnhealthy, TickLate

LEMMA LegacyStart == LegacyInit => LegacyInv
<1> SUFFICES ASSUME LegacyInit PROVE LegacyInv
    OBVIOUS
<1>1. BusOK
    BY LegacyAssumption DEF LegacyInit, BusOK, Modes, Axes
<1>2. RestOK
  <2>1. 0 \in 0 .. BeatLimit + 1 /\ 0 \in 0 .. FeedbackLimit + 1
      BY LegacyAssumption
  <2>2. {zeroIsValid, estopClosed, axisError} \subseteq BOOLEAN
      BY DEF LegacyInit
  <2> QED
      BY <2>1, <2>2, Zenon DEF LegacyInit, RestOK
<1>3. StopOnBus
    BY DEF LegacyInit, StopOnBus
<1> QED
    BY <1>1, <1>2, <1>3, LegacyParts

LEMMA LegacyStep == LegacyInv /\ [LegacyNext]_legacyVars => LegacyInv'
<1> SUFFICES ASSUME LegacyInv, [LegacyNext]_legacyVars PROVE LegacyInv'
    OBVIOUS
<1>1. BusOK /\ RestOK /\ StopOnBus
    BY LegacyParts
<1>2. CASE LegacyNext
    BY <1>1, <1>2, NextBus, NextRest, LegacyPartsPrime
<1>3. CASE UNCHANGED legacyVars
    BY <1>1, <1>3, LegacyPartsPrime DEF BusOK, RestOK, StopOnBus, Running, legacyVars
<1> QED
    BY <1>2, <1>3

\* Every behaviour of the legacy controller keeps LegacyInv.
THEOREM LegacyInductive == LegacySpec => []LegacyInv
BY LegacyStart, LegacyStep, PTL DEF LegacySpec

\* enterFault() and the disarm command: with the bus drained and one frame of the
\* stop lost at most, the motor does not push, for any traffic before the stop.
THEOREM OneFrameEnough == LegacySpec => []OneFrameStops
<1>1. ASSUME LegacyInv PROVE OneFrameStops
  <2>1. ASSUME frames = <<>> PROVE Len(frames) = 0
      BY <2>1
  <2> QED
      BY <1>1, <2>1 DEF LegacyInv, StopOnBus, OneFrameStops
<1> QED
    BY <1>1, LegacyInductive, PTL

=============================================================================
