------------------------------ MODULE HoldProofs ------------------------------
(***************************************************************************)
(* Proofs about PositionHold, for all times that a reply may take and any     *)
(* number of troubles.  The inductive invariant is HoldInv.  Time is plain    *)
(* arithmetic: the ages at the start of a tick, how late it is and what it     *)
(* leaves of its period are numbers p, r, h, s, b and n, the Phase and Feed    *)
(* lemmas say where each kind of tick takes them, and each tick then only has  *)
(* to be shown to take that way.                                              *)
(***************************************************************************)
EXTENDS PositionHold, TLAPS, FiniteSetTheorems

-----------------------------------------------------------------------------
(* What is inductive about the position hold *)

\* The counts: a miss leaves the request due, so no quiet tick feeds after it, and
\* a tick that is late by a period does not make the next one so.
CountInv ==
    /\ failures <= troubles /\ missed <= troubles /\ (missed > 0 => PollDue)
    /\ late <= 1 /\ (late = 1 => ~Missed)
    /\ holding => missed < MaxMissed /\ unanswered < MaxUnanswered
                  /\ failures < MaxFailures

\* None of the ages is ahead of the one it was stamped with.
AgeInv ==
    /\ nextIn > -PollWindow
    /\ unfed <= stampAge /\ replyAge <= pollAge /\ pollAge <= replyAge + PollWindow
    /\ At(healthAge) < HealthPeriod + PollWindow

\* With the ages at the start of the next tick: a feed that is due is delayed by t
\* troubles, and by one health query that is answered.
FeedDelay(stamp, health, t) ==
    t <= 2 => \/ stamp <= 49 + PollWindow * t
              \/ stamp <= 59 + PollWindow * t /\ health <= stamp

\* So is feedback that is due.  A tick that is a little late had a health query
\* before it.
PollDelay(poll, reply, health, lateBy, t) ==
    poll >= PollPeriod =>
        /\ lateBy \in 1 .. 4 => health <= 10 \/ health = 389
        /\ t <= 2 => \/ reply <= 24 + PollWindow * t
                     \/ reply <= 34 + PollWindow * t /\ health <= poll + 10

\* What is not due yet will be when it is 25 at most, or the last request followed
\* a health query: then the next one comes long after, or before it.
PollPhase(poll, reply, health, lateBy) ==
    poll < PollPeriod =>
        \/ lateBy = Period /\ poll = 0 /\ reply = 0 /\ health = 0
        \/ lateBy = 0 /\ poll = Period /\ reply = Period /\ health = Period
        \/ lateBy >= Period /\ poll > Period /\ reply = 0
        \/ /\ lateBy < Period /\ reply < poll
           /\ \/ poll - lateBy \in (1 .. 5) \cup (10 .. 15)
              \/ /\ poll - lateBy \in (6 .. 9) \cup (16 .. 19)
                 /\ health <= poll + 10 \/ health = poll + 389

DelayInv ==
    /\ FeedDelay(At(stampAge), At(healthAge), troubles)
    /\ PollDelay(At(pollAge), At(replyAge), At(healthAge), LateBy, troubles)
    /\ PollPhase(At(pollAge), At(replyAge), At(healthAge), LateBy)

HoldInv ==
    /\ HoldTypeOK /\ HoldSurvives /\ HoldOutlastsTrouble
    /\ CountInv /\ AgeInv /\ DelayInv

-----------------------------------------------------------------------------
(* The constants, and a tick's ages *)

\* The constants are numbers in their ranges.
LEMMA RepliesAre ==
    Quick \in 1 .. 9 /\ Slow \in 1 .. 18 /\ MaxTroubles \in Nat
BY HoldAssumption

-----------------------------------------------------------------------------
(* The loop *)

\* What the loop waits from a tick to the next, in numbers: n is what is left of
\* the period, d what the tick takes.
Step(n, d) == IF d <= n THEN n ELSE d
Behind(n, d) == IF d <= n THEN 0 ELSE d - n

\* A tick starts late or not at all late, and the next one a step later.
LEMMA Loop ==
    ASSUME nextIn \in -17 .. 10, NEW d \in 0 .. 18, nextIn' = NextAfter - d
    PROVE  /\ LateBy \in 0 .. 17 /\ Waits \in 0 .. 10 /\ NextAfter \in 1 .. 10
           /\ NextAfter = IF LateBy < 10 THEN 10 - LateBy ELSE 10
           /\ nextIn' \in -17 .. 10
           /\ Waits' + d = Step(NextAfter, d) /\ LateBy' = Behind(NextAfter, d)
           /\ Waits' \in 0 .. 10
<1>1. /\ LateBy \in 0 .. 17 /\ Waits \in 0 .. 10 /\ NextAfter \in 1 .. 10
      /\ NextAfter = IF LateBy < 10 THEN 10 - LateBy ELSE 10
    BY DEF LateBy, Waits, NextAfter, Missed, Period
<1>2. PICK n \in 1 .. 10 : n = NextAfter
    BY <1>1
<1>3. nextIn' = n - d
    BY <1>2
<1>4. /\ Waits' = IF nextIn' > 0 THEN nextIn' ELSE 0
      /\ LateBy' = IF nextIn' < 0 THEN -nextIn' ELSE 0
    BY DEF Waits, LateBy
<1>5. /\ nextIn' \in -17 .. 10 /\ Waits' \in 0 .. 10
      /\ Waits' + d = Step(n, d) /\ LateBy' = Behind(n, d)
  <2>1. CASE d <= n
      BY <1>3, <1>4, <2>1 DEF Step, Behind
  <2>2. CASE ~(d <= n)
      BY <1>3, <1>4, <2>2 DEF Step, Behind
  <2> QED
      BY <2>1, <2>2
<1> QED
    BY <1>1, <1>2, <1>5

\* An age that goes on, and one that the tick stamped d ago.
LEMMA Ages ==
    ASSUME nextIn \in -17 .. 10, NEW d \in 0 .. 18, nextIn' = NextAfter - d,
           NEW age \in Nat
    PROVE  /\ Aged(age, d) \in Nat /\ At(age) \in Nat /\ At(age) >= age
           /\ Aged(age, d) + Waits' = At(age) + Step(NextAfter, d)
           /\ d + Waits' = Step(NextAfter, d)
<1>1. /\ Waits \in Nat /\ Waits' \in Nat /\ NextAfter \in Nat
      /\ Waits' + d = Step(NextAfter, d)
    BY Loop
<1>2. \A n \in Nat : Step(n, d) \in Nat
    BY DEF Step
<1>3. PICK w \in Nat, v \in Nat, g \in Nat :
         w = Waits /\ v = Waits' /\ g = Step(NextAfter, d) /\ v + d = g
    BY <1>1, <1>2
<1> QED
    BY <1>3 DEF Aged, At

\* The troubles of a list of one or two are counted.
LEMMA TroublesAre ==
    ASSUME NEW a \in BOOLEAN, NEW b \in BOOLEAN
    PROVE  /\ Troubles(<<a>>) = IF a THEN 1 ELSE 0
           /\ Troubles(<<a, b>>) = IF a THEN IF b THEN 2 ELSE 1
                                   ELSE IF b THEN 1 ELSE 0
<1>1. /\ IsFiniteSet({}) /\ Cardinality({}) = 0
      /\ \A n : IsFiniteSet({n}) /\ Cardinality({n}) = 1
    BY FS_EmptySet, FS_Singleton
<1>2. Cardinality({1} \cup {2}) = 2
  <2>1. 2 \notin {1}
      OBVIOUS
  <2>2. Cardinality({1} \cup {2}) = Cardinality({1}) + 1
      BY <1>1, <2>1, FS_AddElement
  <2>3. Cardinality({1}) = 1
      BY <1>1, Zenon
  <2> QED
      BY <2>2, <2>3
<1>3. Troubles(<<a>>) = IF a THEN 1 ELSE 0
  <2>1. {n \in DOMAIN <<a>> : <<a>>[n]} = IF a THEN {1} ELSE {}
      OBVIOUS
  <2> QED
      BY <1>1, <2>1 DEF Troubles
<1>4. Troubles(<<a, b>>) = IF a THEN IF b THEN 2 ELSE 1 ELSE IF b THEN 1 ELSE 0
  <2>1. {n \in DOMAIN <<a, b>> : <<a, b>>[n]}
           = IF a THEN IF b THEN {1} \cup {2} ELSE {1} ELSE IF b THEN {2} ELSE {}
      OBVIOUS
  <2> QED
      BY <1>1, <1>2, <2>1 DEF Troubles
<1> QED
    BY <1>3, <1>4

-----------------------------------------------------------------------------
(* How the feed is delayed *)

\* A tick that does not feed, without a query: it has a trouble, or nothing was due.
LEMMA FeedGoesOn ==
    ASSUME NEW s \in Nat, NEW h \in Nat, NEW t \in Nat, FeedDelay(s, h, t),
           NEW g \in 1 .. 18, NEW u \in Nat, u >= t,
           u >= t + 1 \/ (s < 40 /\ g <= 10)
    PROVE  FeedDelay(s + g, h + g, u)
BY DEF FeedDelay, PollWindow

\* A health query takes the tick of the feed.
LEMMA FeedQueried ==
    ASSUME NEW s \in Nat, NEW h \in Nat, NEW t \in Nat, FeedDelay(s, h, t),
           h >= 400, NEW g \in 1 .. 10, NEW u \in Nat, u >= t
    PROVE  /\ FeedDelay(s + g, g, u)
           /\ u >= t + 1 => FeedDelay(s + g, 380 + g, u)
BY DEF FeedDelay, PollWindow

\* A feed in this tick.
LEMMA FeedStarts ==
    ASSUME NEW g \in 1 .. 18, NEW h \in Nat
    PROVE  FeedDelay(g, h, 0)
BY DEF FeedDelay, PollWindow

-----------------------------------------------------------------------------
(* How the feedback is delayed *)

\* A tick that is late by b leaves n of its period.
Leaves(b, n) == n = IF b < 10 THEN 10 - b ELSE 10

\* p, r and h are the ages of the poll, the reply and the health query at the start
\* of a tick that is late by b.
Polls(p, r, h, b, t) ==
    PollDelay(p, r, h, b, t) /\ PollPhase(p, r, h, b)

\* A tick that owes nothing.
LEMMA PhaseQuiet ==
    ASSUME NEW p \in Nat, NEW r \in Nat, NEW h \in Nat, NEW b \in 0 .. 17,
           NEW t \in Nat, Polls(p, r, h, b, t), p < 20, h < 400,
           NEW n \in 1 .. 10, Leaves(b, n), NEW u \in Nat
    PROVE  r <= 19 /\ Polls(p + n, r + n, h + n, 0, u)
BY DEF Leaves, Polls, PollDelay, PollPhase, Period, PollPeriod, PollWindow

\* Feedback that took d.
LEMMA PhaseFeedback ==
    ASSUME NEW p \in Nat, NEW r \in Nat, NEW h \in Nat, NEW b \in 0 .. 17,
           NEW t \in Nat, Polls(p, r, h, b, t), p >= 20,
           NEW n \in 1 .. 10, Leaves(b, n),
           NEW d \in 1 .. 18, NEW u \in Nat
    PROVE  Polls(Step(n, d), Step(n, d) - d, h + Step(n, d), Behind(n, d), u)
BY DEF Leaves, Polls, PollDelay, PollPhase, Step, Behind, Period, PollPeriod,
   PollWindow

\* Feedback that was missed: a trouble, after which two more may come.
LEMMA PhaseMiss ==
    ASSUME NEW p \in Nat, NEW r \in Nat, NEW h \in Nat, NEW b \in 0 .. 17,
           NEW t \in Nat, Polls(p, r, h, b, t), p >= 20,
           NEW n \in 1 .. 10, NEW u \in Nat, u >= t + 1
    PROVE  /\ Polls(p + 18, r + 18, h + 18, Behind(n, 18), u)
           /\ u <= 2 => r + 18 <= 70
BY DEF Polls, PollDelay, PollPhase, Behind, Period, PollPeriod, PollWindow

\* A health query that took d.
LEMMA PhaseHealth ==
    ASSUME NEW p \in Nat, NEW r \in Nat, NEW h \in Nat, NEW b \in 0 .. 17,
           NEW t \in Nat, Polls(p, r, h, b, t), h >= 400, r <= p, p <= r + 18,
           NEW n \in 1 .. 10, Leaves(b, n),
           NEW d \in 1 .. 9, NEW u \in Nat, u >= t
    PROVE  /\ Polls(p + Step(n, d), r + Step(n, d), Step(n, d), Behind(n, d), u)
           /\ u <= 2 => r + d <= 70
BY DEF Leaves, Polls, PollDelay, PollPhase, Step, Behind, Period, PollPeriod,
   PollWindow

-----------------------------------------------------------------------------
(* A tick *)

\* The numbers a tick starts from.
PollStarts(p, r, h, s, b, n, t) ==
    /\ p = At(pollAge) /\ r = At(replyAge) /\ h = At(healthAge)
    /\ s = At(stampAge) /\ b = LateBy /\ n = NextAfter /\ t = troubles
    /\ Leaves(b, n)
    /\ Polls(p, r, h, b, t) /\ FeedDelay(s, h, t)
    /\ r <= p /\ p <= r + 18 /\ h < 418 /\ healthAge <= h

\* What HoldInv says in numbers.
LEMMA PhaseTyped ==
    ASSUME HoldInv
    PROVE  /\ nextIn \in -17 .. 10 /\ pollAge \in Nat /\ healthAge \in Nat
           /\ stampAge \in Nat /\ replyAge \in Nat /\ unfed \in Nat
           /\ missed \in 0 .. 3 /\ unanswered \in 0 .. 3 /\ failures \in 0 .. 3
           /\ late \in 0 .. 1 /\ holding \in BOOLEAN /\ troubles \in Nat
           /\ troubles <= MaxTroubles /\ unfed <= stampAge
           /\ replyAge <= pollAge /\ pollAge <= replyAge + 18
<1>1. nextIn \in -28 .. 10 /\ nextIn > -18 /\ late \in 0 .. 2 /\ late <= 1
    BY DEF HoldInv, HoldTypeOK, CountInv, AgeInv, Period, PollWindow, MaxLate
<1>2. \A age \in {pollAge, healthAge, stampAge, replyAge, unfed, gap} : age \in Nat
    BY Zenon DEF HoldInv, HoldTypeOK
<1>3. /\ pollAge \in Nat /\ healthAge \in Nat /\ stampAge \in Nat
      /\ replyAge \in Nat /\ unfed \in Nat
    BY <1>2, Zenon
<1>4. /\ missed \in 0 .. 3 /\ unanswered \in 0 .. 3 /\ failures \in 0 .. 3
      /\ holding \in BOOLEAN /\ troubles \in 0 .. MaxTroubles
    BY Zenon DEF HoldInv, HoldTypeOK, MaxMissed, MaxUnanswered, MaxFailures
<1>5. troubles \in Nat /\ troubles <= MaxTroubles
    BY <1>4, RepliesAre
<1>6. /\ unfed <= stampAge /\ replyAge <= pollAge
      /\ pollAge <= replyAge + 18
    BY Zenon DEF HoldInv, AgeInv, PollWindow
<1> QED
    BY <1>1, <1>3, <1>4, <1>5, <1>6

\* Every tick starts from such numbers.
LEMMA StartsSo ==
    ASSUME HoldInv
    PROVE  \E p \in Nat, r \in Nat, h \in Nat, s \in Nat, b \in 0 .. 17,
              n \in 1 .. 10, t \in Nat : PollStarts(p, r, h, s, b, n, t)
<1>1. /\ LateBy \in 0 .. 17 /\ NextAfter \in 1 .. 10 /\ Waits \in 0 .. 10
      /\ NextAfter = IF LateBy < 10 THEN 10 - LateBy ELSE 10
    BY PhaseTyped DEF LateBy, Waits, NextAfter, Missed, Period
<1>2. /\ At(pollAge) \in Nat /\ At(replyAge) \in Nat /\ At(healthAge) \in Nat
      /\ At(stampAge) \in Nat /\ At(replyAge) <= At(pollAge)
      /\ At(pollAge) <= At(replyAge) + 18 /\ healthAge <= At(healthAge)
    BY <1>1, PhaseTyped DEF At
<1>3. At(healthAge) < 418
    BY DEF HoldInv, AgeInv, HealthPeriod, PollWindow
<1>4. /\ Polls(At(pollAge), At(replyAge), At(healthAge), LateBy, troubles)
      /\ FeedDelay(At(stampAge), At(healthAge), troubles)
    BY DEF HoldInv, DelayInv, Polls
<1>5. Leaves(LateBy, NextAfter)
    BY <1>1, Zenon DEF Leaves
<1>6. PollStarts(At(pollAge), At(replyAge), At(healthAge), At(stampAge), LateBy,
             NextAfter, troubles)
    BY <1>1, <1>2, <1>3, <1>4, <1>5, Zenon DEF PollStarts
<1> QED
    BY <1>1, <1>2, <1>6, PhaseTyped

\* What ends the mode, when the troubles account for it.
LEMMA EndsSo ==
    ASSUME HoldInv, holding, NEW d \in 0 .. 18, NEW looks \in BOOLEAN,
           NEW sampled \in BOOLEAN, NEW list, Ends(d, looks, sampled, list),
           troubles' \in Nat, troubles' <= MaxTroubles, failures' <= troubles',
           missed' \in 0 .. 3, missed' <= troubles', unanswered' \in 0 .. 3,
           replyAge' \in Nat, looks /\ replyAge' > 70 => troubles' >= 3,
           missed' > 0 => PollDue'
    PROVE  /\ nextIn' \in -17 .. 10 /\ failures' \in 0 .. 3
           /\ late' \in 0 .. 1 /\ holding' \in BOOLEAN
           /\ HoldSurvives' /\ CountInv'
<1>1. /\ failures \in 0 .. 2 /\ late \in 0 .. 1 /\ (late = 1 => ~Missed)
    BY PhaseTyped DEF HoldInv, CountInv, MaxFailures
<1>2. nextIn' = NextAfter - d
    BY Zenon DEF Ends
<1>3. /\ NextAfter = IF Missed THEN 10 ELSE 10 - LateBy
      /\ NextAfter \in 1 .. 10
    BY PhaseTyped DEF NextAfter, Missed, LateBy, Period
<1>4. PICK n \in 1 .. 10 : n = NextAfter /\ nextIn' = n - d
    BY <1>2, <1>3
<1>5. nextIn' \in -17 .. 10
    BY <1>4
<1>6. late' = IF Missed THEN late + 1 ELSE 0
    BY Zenon DEF Ends
<1>7. late' \in 0 .. 1 /\ (late' = 1 => Missed)
    BY <1>1, <1>6
<1>8. ~TooLate
    BY <1>1 DEF TooLate, MaxLate
<1>9. late' = 1 => ~Missed'
  <2>1. SUFFICES ASSUME Missed PROVE ~Missed'
      BY <1>7
  <2>2. n = 10
      BY <1>3, <1>4, <2>1
  <2> QED
      BY <1>4, <2>2 DEF Missed, LateBy, Period
<1>10. failures' \in 0 .. 3
    BY <1>1 DEF Ends
<1>11. holding' = (/\ ~TooLate /\ failures' < 3 /\ missed' < 3 /\ unanswered' < 3
                   /\ looks => replyAge' <= 70)
    BY Zenon DEF Ends, MaxFailures, MaxMissed, MaxUnanswered, ReplyLimit
<1>12. holding' \in BOOLEAN
    BY <1>11
<1>13. HoldSurvives'
  <2>1. CASE holding'
      BY <2>1 DEF HoldSurvives
  <2>2. CASE ~holding'
    <3>1. \/ failures' >= 3 \/ missed' >= 3 \/ unanswered' >= 3
          \/ looks /\ replyAge' > 70
        BY <1>8, <1>10, <1>11, <2>2
    <3> QED
        BY <1>10, <3>1 DEF HoldSurvives, MaxUnanswered
  <2> QED
      BY <2>1, <2>2
<1>14. CountInv'
  <2>1. holding' => missed' < 3 /\ unanswered' < 3 /\ failures' < 3
      BY <1>11
  <2> QED
      BY <1>7, <1>9, <2>1 DEF CountInv, MaxMissed, MaxUnanswered, MaxFailures
<1> QED
    BY <1>5, <1>7, <1>10, <1>12, <1>13, <1>14

\* How long the drive has gone unfed when a tick can feed it.
Reached ==
    gap \in Nat /\ met \in 0 .. MaxTroubles /\ HoldOutlastsTrouble

\* The invariant, part by part.
LEMMA Together ==
    ASSUME nextIn' \in -17 .. 10, failures' \in 0 .. 3, late' \in 0 .. 1,
           holding' \in BOOLEAN, HoldSurvives', CountInv', DelayInv',
           missed' \in 0 .. 3, unanswered' \in 0 .. 3, 
           troubles' \in Nat, troubles' <= MaxTroubles,
           pollAge' \in Nat, healthAge' \in Nat, stampAge' \in Nat,
           replyAge' \in Nat, unfed' \in Nat,
           unfed' <= stampAge', replyAge' <= pollAge', pollAge' <= replyAge' + 18,
           healthAge' < 418, At(healthAge)' < 418, Reached'
    PROVE  HoldInv'
<1>1. HoldTypeOK'
  <2>1. nextIn' \in -(Period + PollWindow) .. Period
      BY DEF Period, PollWindow
  <2>2. healthAge' <= HealthPeriod + Period + 2 * PollWindow
      BY DEF HealthPeriod, Period, PollWindow
  <2>3. /\ missed' \in 0 .. MaxMissed /\ unanswered' \in 0 .. MaxUnanswered
        /\ failures' \in 0 .. MaxFailures /\ late' \in 0 .. MaxLate
        /\ troubles' \in 0 .. MaxTroubles
      BY RepliesAre DEF MaxMissed, MaxUnanswered, MaxFailures, MaxLate
  <2>4. gap' \in Nat /\ met' \in 0 .. MaxTroubles
      BY Zenon DEF Reached
  <2> QED
      BY <2>1, <2>2, <2>3, <2>4, Zenon DEF HoldTypeOK
<1>2. AgeInv'
  <2>1. nextIn' > -PollWindow
      BY DEF PollWindow
  <2>2. pollAge' <= replyAge' + PollWindow
      BY DEF PollWindow
  <2>3. HealthPeriod + PollWindow = 418
      BY DEF PollWindow, HealthPeriod
  <2> QED
      BY <2>1, <2>2, <2>3, Zenon DEF AgeInv
<1>3. HoldOutlastsTrouble'
    BY Zenon DEF Reached
<1> QED
    BY <1>1, <1>2, <1>3, Zenon DEF HoldInv

-----------------------------------------------------------------------------
(* The feed of a tick *)

\* A tick is at least as long as what it does, and a period when that is short.
LEMMA StepIs ==
    ASSUME NEW n \in 1 .. 10, NEW d \in 0 .. 18
    PROVE  /\ Step(n, d) \in 1 .. 18 /\ Behind(n, d) \in 0 .. 17
           /\ d <= 9 => Step(n, d) <= 10
           /\ Step(n, d) >= d
BY DEF Step, Behind

\* A tick that goes on from p, r, h, s, b, n, t and takes d.
Goes(n, d) == /\ nextIn' = n - d /\ NextAfter = n

\* The ages in such a tick.
LEMMA AgesGo ==
    ASSUME HoldInv, NEW n \in 1 .. 10, NEW d \in 0 .. 18, Goes(n, d), NEW age \in Nat
    PROVE  /\ Aged(age, d) \in Nat /\ At(age) \in Nat /\ At(age) >= age
           /\ Aged(age, d) + Waits' = At(age) + Step(n, d)
           /\ Aged(age, d) = At(age) + d
           /\ d + Waits' = Step(n, d) /\ LateBy' = Behind(n, d)
           /\ Waits' \in Nat
<1>1. nextIn \in -17 .. 10
    BY PhaseTyped
<1>2. nextIn' = NextAfter - d /\ NextAfter = n
    BY Zenon DEF Goes
<1>3. Waits' \in 0 .. 10 /\ Waits \in 0 .. 10 /\ LateBy' = Behind(n, d)
    BY <1>1, <1>2, Loop
<1>4. /\ Aged(age, d) \in Nat /\ At(age) \in Nat /\ At(age) >= age
      /\ Aged(age, d) + Waits' = At(age) + Step(n, d)
      /\ d + Waits' = Step(n, d)
    BY <1>1, <1>2, Ages
<1>5. Aged(age, d) = At(age) + d
    BY <1>3 DEF Aged, At
<1> QED
    BY <1>3, <1>4, <1>5

\* The feed that is due after t troubles comes d later, where k of them make d
\* longer than a query may take.
LEMMA FeedComes ==
    ASSUME NEW s \in Nat, NEW h \in Nat, NEW t \in Nat, FeedDelay(s, h, t),
           NEW d \in 0 .. 18, NEW k \in Nat, d > 9 => k >= 1
    PROVE  /\ t + k <= 1 => s + d < 100
           /\ t + k <= 2 => s + d <= 104
BY DEF FeedDelay, PollWindow

\* Every tick reaches the feed in time.
LEMMA ReachesSo ==
    ASSUME HoldInv, NEW n \in 1 .. 10, NEW d \in 0 .. 18, Goes(n, d),
           NEW list, NEW k \in Nat, Troubles(list) = k, Reaches(d, list),
           troubles + Troubles(list) <= MaxTroubles, d > 9 => k >= 1
    PROVE  Reached' /\ gap' = Aged(unfed, d) /\ met' = troubles + k
<1>1. gap' = Aged(unfed, d) /\ met' = troubles + k /\ troubles + k <= MaxTroubles
    BY Zenon DEF Reaches
<1>2. PICK s \in Nat, h \in Nat, t \in Nat :
         s = At(stampAge) /\ h = At(healthAge) /\ t = troubles /\ FeedDelay(s, h, t)
  <2>1. At(stampAge) \in Nat /\ At(healthAge) \in Nat /\ troubles \in Nat
      BY PhaseTyped, AgesGo
  <2>2. FeedDelay(At(stampAge), At(healthAge), troubles)
      BY Zenon DEF HoldInv, DelayInv
  <2> QED
      BY <2>1, <2>2
<1>3. Aged(unfed, d) \in Nat /\ Aged(unfed, d) <= s + d
  <2>1. Waits \in Nat
      BY PhaseTyped DEF Waits
  <2> QED
      BY <1>2, <2>1, PhaseTyped DEF Aged, At
<1>4. PICK g \in Nat, m \in Nat : g = gap' /\ m = met' /\ g <= s + d /\ m = t + k
    BY <1>1, <1>2, <1>3
<1>5. (t + k <= 1 => s + d < 100) /\ (t + k <= 2 => s + d <= 104)
    BY <1>2, FeedComes
<1>6. (m <= 1 => g < 100) /\ (m <= 2 => g <= 100 + 4)
    BY <1>4, <1>5
<1>7. met' \in 0 .. MaxTroubles
  <2>1. m <= MaxTroubles
      BY <1>1, <1>4, Zenon
  <2> QED
      BY <1>4, <2>1, RepliesAre
<1>8. gap' \in Nat /\ HoldOutlastsTrouble'
    BY <1>4, <1>6, Zenon DEF HoldOutlastsTrouble, Watchdog
<1> QED
    BY <1>1, <1>7, <1>8, Zenon DEF Reached

\* A tick that does not feed.
LEMMA FedNot ==
    ASSUME HoldInv, NEW n \in 1 .. 10, NEW d \in 0 .. 18, Goes(n, d),
           NEW list, NEW k \in Nat, Troubles(list) = k, FeedsNot(d, list),
           troubles + Troubles(list) <= MaxTroubles, d > 9 => k >= 1
    PROVE  /\ Reached'
           /\ troubles' = troubles + k /\ troubles' \in Nat /\ troubles' <= MaxTroubles
           /\ stampAge' \in Nat /\ unfed' \in Nat /\ unfed' <= stampAge'
           /\ stampAge' + Waits' = At(stampAge) + Step(n, d)
<1>1. /\ Reached' /\ unfed' = Aged(unfed, d) /\ stampAge' = Aged(stampAge, d)
      /\ troubles' = troubles + k /\ troubles + k <= MaxTroubles
  <2>1. /\ Reaches(d, list) /\ unfed' = gap' /\ troubles' = met'
        /\ stampAge' = Aged(stampAge, d) /\ troubles + k <= MaxTroubles
      BY Zenon DEF FeedsNot
  <2>2. Reached' /\ gap' = Aged(unfed, d) /\ met' = troubles + k
      BY <2>1, ReachesSo
  <2> QED
      BY <2>1, <2>2, Zenon
<1>2. /\ Aged(stampAge, d) \in Nat /\ Aged(unfed, d) \in Nat
      /\ Aged(stampAge, d) + Waits' = At(stampAge) + Step(n, d)
    BY PhaseTyped, AgesGo
<1>3. Aged(unfed, d) <= Aged(stampAge, d)
  <2>1. Waits \in Nat
      BY PhaseTyped DEF Waits
  <2> QED
      BY <2>1, PhaseTyped DEF Aged
<1>4. troubles \in Nat /\ troubles + k \in Nat
    BY PhaseTyped
<1> QED
    BY <1>1, <1>2, <1>3, <1>4, Zenon

\* A tick that may feed.
LEMMA Fed ==
    ASSUME HoldInv, NEW n \in 1 .. 10, NEW d \in 0 .. 18, Goes(n, d),
           NEW sampled \in BOOLEAN,
           NEW list, NEW k \in Nat, Troubles(list) = k, Feeds(d, sampled, list),
           troubles + Troubles(list) <= MaxTroubles,
           ~sampled \/ d > 9 => k >= 1, replyAge' <= 70,
           healthAge' = Aged(healthAge, d)
    PROVE  /\ Reached'
           /\ \/ sampled /\ troubles' = 0
              \/ troubles' = troubles + k
           /\ troubles' \in Nat /\ troubles' <= MaxTroubles
           /\ stampAge' \in Nat /\ unfed' \in Nat /\ unfed' <= stampAge'
           /\ FeedDelay(At(stampAge)', At(healthAge)', troubles')
<1>1. PICK s \in Nat, h \in Nat, t \in Nat, g \in 1 .. 18 :
         /\ s = At(stampAge) /\ h = At(healthAge) /\ t = troubles
         /\ g = Step(n, d) /\ FeedDelay(s, h, t) /\ (d <= 9 => g <= 10)
  <2>1. At(stampAge) \in Nat /\ At(healthAge) \in Nat /\ troubles \in Nat
      BY PhaseTyped, AgesGo
  <2>2. FeedDelay(At(stampAge), At(healthAge), troubles)
      BY Zenon DEF HoldInv, DelayInv
  <2> QED
      BY <2>1, <2>2, StepIs
<1>2. At(healthAge)' = h + g
  <2>1. Aged(healthAge, d) + Waits' = h + g
      BY <1>1, PhaseTyped, AgesGo
  <2> QED
      BY <2>1, Zenon DEF At
<1>3. CASE sampled /\ FeedDue /\ replyAge' <= ReplyLimit
  <2>1. unfed' = 0 /\ stampAge' = d /\ troubles' = 0 /\ Reaches(d, list)
      BY <1>3 DEF Feeds
  <2>2. d + Waits' = g
      BY <1>1, PhaseTyped, AgesGo
  <2>3. At(stampAge)' = g
      BY <2>1, <2>2, Zenon DEF At
  <2>4. FeedDelay(g, h + g, 0)
      BY FeedStarts
  <2>5. d \in Nat /\ 0 <= d /\ 0 \in Nat /\ 0 <= MaxTroubles
      BY RepliesAre
  <2>6. FeedDelay(At(stampAge)', At(healthAge)', troubles')
      BY <1>2, <2>1, <2>3, <2>4, Zenon
  <2>7. Reached'
    <3>1. d > 9 => k >= 1
        OBVIOUS
    <3> QED
        BY <2>1, <3>1, ReachesSo
  <2> QED
      BY <1>3, <2>1, <2>5, <2>6, <2>7, Zenon
<1>4. CASE ~(sampled /\ FeedDue /\ replyAge' <= ReplyLimit)
  <2>1. FeedsNot(d, list)
      BY <1>4 DEF Feeds, FeedsNot
  <2>2. /\ Reached'
        /\ troubles' = troubles + k /\ troubles' \in Nat /\ troubles' <= MaxTroubles
        /\ stampAge' \in Nat /\ unfed' \in Nat /\ unfed' <= stampAge'
        /\ stampAge' + Waits' = s + g
    <3>1. d > 9 => k >= 1
        OBVIOUS
    <3> QED
        BY <1>1, <2>1, <3>1, FedNot
  <2>3. k >= 1 \/ (s < 40 /\ g <= 10)
      BY <1>1, <1>4 DEF FeedDue, FeedPeriod, ReplyLimit
  <2>4. t + k \in Nat /\ t + k >= t /\ (t + k >= t + 1 \/ (s < 40 /\ g <= 10))
      BY <2>3
  <2>5. FeedDelay(s + g, h + g, t + k)
      BY <1>1, <2>4, FeedGoesOn
  <2>6. At(stampAge)' = s + g
      BY <2>2, Zenon DEF At
  <2>7. FeedDelay(At(stampAge)', At(healthAge)', troubles')
      BY <1>1, <1>2, <2>2, <2>5, <2>6, Zenon
  <2> QED
      BY <2>2, <2>7
<1> QED
    BY <1>3, <1>4

-----------------------------------------------------------------------------
(* The ticks *)

\* What the loop does with a tick of d.
LEMMA GoesOn ==
    ASSUME NEW p, NEW r, NEW h, NEW s, NEW b, NEW n, NEW t,
           PollStarts(p, r, h, s, b, n, t), NEW d, NEW looks, NEW sampled, NEW list,
           Ends(d, looks, sampled, list)
    PROVE  Goes(n, d) /\ troubles + Troubles(list) <= MaxTroubles
BY Zenon DEF PollStarts, Ends, Goes

\* Every sample lost since the last good one was a trouble.
LEMMA FailuresSo ==
    ASSUME HoldInv, NEW d, NEW looks, NEW sampled \in BOOLEAN, NEW list,
           Ends(d, looks, sampled, list), troubles' \in Nat,
           ~sampled => troubles' >= troubles + 1
    PROVE  failures' <= troubles'
<1>1. failures <= troubles /\ failures \in 0 .. 3 /\ troubles \in Nat
    BY PhaseTyped DEF HoldInv, CountInv
<1>2. failures' = IF sampled THEN 0 ELSE failures + 1
    BY Zenon DEF Ends
<1> QED
    BY <1>1, <1>2

\* The counts that a tick leaves alone.
LEMMA CountsSo ==
    ASSUME HoldInv
    PROVE  /\ missed \in 0 .. 3 /\ unanswered \in 0 .. 3 /\ troubles \in Nat
           /\ missed <= troubles /\ (missed > 0 => PollDue)
           /\ holding => missed <= 2 /\ unanswered <= 2
BY PhaseTyped DEF HoldInv, CountInv, MaxMissed, MaxUnanswered

\* The invariant from tick to tick.
LEMMA HoldQuiet == ASSUME HoldInv, TickQuiet PROVE HoldInv'
<1>1. PICK p \in Nat, r \in Nat, h \in Nat, s \in Nat, b \in 0 .. 17,
           n \in 1 .. 10, t \in Nat : PollStarts(p, r, h, s, b, n, t)
    BY StartsSo
<1>2. PICK sampled \in BOOLEAN :
        /\ Feeds(0, sampled, <<~sampled>>)
        /\ Ends(0, sampled, sampled, <<~sampled>>)
    BY Zenon DEF TickQuiet
<1>3. PICK k \in 0 .. 1 : /\ k = IF sampled THEN 0 ELSE 1
                          /\ Troubles(<<~sampled>>) = k
  <2>1. (~sampled) \in BOOLEAN
      OBVIOUS
  <2>2. Troubles(<<~sampled>>) = IF ~sampled THEN 1 ELSE 0
      BY <2>1, TroublesAre
  <2> QED
      BY <2>2
<1>4. /\ holding /\ p < 20 /\ h < 400 /\ missed' = missed /\ unanswered' = unanswered
      /\ pollAge' = Aged(pollAge, 0) /\ healthAge' = Aged(healthAge, 0)
      /\ replyAge' = Aged(replyAge, 0)
  <2>1. p = At(pollAge) /\ h = At(healthAge) /\ p \in Nat /\ h \in Nat
      BY <1>1 DEF PollStarts
  <2>2. p < 20 /\ h < 400
      BY <2>1 DEF TickQuiet, HealthDue, PollDue, HealthPeriod, PollPeriod
  <2> QED
      BY <2>2, Zenon DEF TickQuiet
<1>5. Goes(n, 0) /\ troubles + Troubles(<<~sampled>>) <= MaxTroubles
    BY <1>1, <1>2, GoesOn
<1>6. Step(n, 0) = n /\ Behind(n, 0) = 0
    BY DEF Step, Behind
<1>7. /\ pollAge' \in Nat /\ pollAge' + Waits' = p + n
      /\ replyAge' \in Nat /\ replyAge' + Waits' = r + n /\ replyAge' = r
      /\ healthAge' \in Nat /\ healthAge' + Waits' = h + n /\ healthAge' = h
      /\ pollAge' = p /\ LateBy' = 0
  <2>1. /\ p = At(pollAge) /\ r = At(replyAge) /\ h = At(healthAge)
      BY <1>1 DEF PollStarts
  <2>2. /\ Aged(pollAge, 0) \in Nat /\ Aged(pollAge, 0) + Waits' = p + n
        /\ Aged(replyAge, 0) \in Nat /\ Aged(replyAge, 0) + Waits' = r + n
        /\ Aged(healthAge, 0) \in Nat /\ Aged(healthAge, 0) + Waits' = h + n
        /\ Aged(pollAge, 0) = p + 0 /\ Aged(replyAge, 0) = r + 0
        /\ Aged(healthAge, 0) = h + 0 /\ LateBy' = 0
      BY <1>5, <1>6, <2>1, PhaseTyped, AgesGo
  <2> QED
      BY <1>4, <2>2
<1>8. r <= 19 /\ \A u \in Nat : Polls(p + n, r + n, h + n, 0, u)
  <2>1. Polls(p, r, h, b, t) /\ Leaves(b, n)
      BY <1>1, Zenon DEF PollStarts
  <2> QED
      BY <1>4, <2>1, PhaseQuiet
<1>9. /\ Reached'
      /\ \/ sampled /\ troubles' = 0
         \/ troubles' = troubles + k
      /\ troubles' \in Nat /\ troubles' <= MaxTroubles
      /\ stampAge' \in Nat /\ unfed' \in Nat /\ unfed' <= stampAge'
      /\ FeedDelay(At(stampAge)', At(healthAge)', troubles')
  <2>1. replyAge' <= 70
      BY <1>7, <1>8
  <2>2. ~sampled \/ 0 > 9 => k >= 1
      BY <1>3
  <2> QED
      BY <1>2, <1>3, <1>4, <1>5, <2>1, <2>2, Fed
<1>10. missed = 0 /\ missed' = 0 /\ unanswered' \in 0 .. 3
  <2>1. ~PollDue
      BY Zenon DEF TickQuiet
  <2> QED
      BY <1>4, <2>1, CountsSo
<1>11. failures' <= troubles'
  <2>1. ~sampled => troubles' >= troubles + 1
      BY <1>3, <1>9, PhaseTyped
  <2> QED
      BY <1>2, <1>9, <2>1, FailuresSo
<1>12. /\ nextIn' \in -17 .. 10 /\ failures' \in 0 .. 3
       /\ late' \in 0 .. 1 /\ holding' \in BOOLEAN
       /\ HoldSurvives' /\ CountInv'
  <2>1. ~(replyAge' > 70) /\ 0 \in 0 .. 18 /\ missed' \in 0 .. 3
        /\ missed' <= troubles' /\ ~(missed' > 0)
      BY <1>7, <1>8, <1>9, <1>10
  <2> QED
      BY <1>2, <1>4, <1>7, <1>9, <1>10, <1>11, <2>1, EndsSo
<1>13. DelayInv'
  <2>1. /\ At(pollAge)' = p + n /\ At(replyAge)' = r + n /\ At(healthAge)' = h + n
      BY <1>7, Zenon DEF At
  <2>2. Polls(p + n, r + n, h + n, 0, troubles')
      BY <1>8, <1>9
  <2> QED
      BY <1>7, <1>9, <2>1, <2>2, Zenon DEF DelayInv, Polls
<1>14. /\ replyAge' <= pollAge' /\ pollAge' <= replyAge' + 18
       /\ healthAge' < 418 /\ At(healthAge)' < 418
  <2>1. r <= p /\ p <= r + 18
      BY <1>1, Zenon DEF PollStarts
  <2>2. At(healthAge)' = h + n
      BY <1>7, Zenon DEF At
  <2> QED
      BY <1>4, <1>7, <2>1, <2>2
<1>15. missed' \in 0 .. 3
    BY <1>10
<1> QED
    BY <1>7, <1>9, <1>10, <1>12, <1>13, <1>14, <1>15, Together, Zenon

\* The troubles of a tick with a transaction.
LEMMA TroublesOf ==
    ASSUME NEW sampled \in BOOLEAN, NEW slow \in BOOLEAN
    PROVE  /\ \E k \in 0 .. 2 : /\ Troubles(<<~sampled, slow>>) = k
                                /\ ~sampled => k >= 1
                                /\ slow => k >= 1
           /\ \E k \in 1 .. 2 : Troubles(<<TRUE, ~sampled>>) = k
<1>1. (~sampled) \in BOOLEAN /\ TRUE \in BOOLEAN
    OBVIOUS
<1>2. /\ Troubles(<<~sampled, slow>>) = IF ~sampled THEN IF slow THEN 2 ELSE 1
                                        ELSE IF slow THEN 1 ELSE 0
      /\ Troubles(<<TRUE, ~sampled>>) = IF TRUE THEN IF ~sampled THEN 2 ELSE 1
                                        ELSE IF ~sampled THEN 1 ELSE 0
    BY <1>1, TroublesAre
<1>3. \E k \in 0 .. 2 : /\ Troubles(<<~sampled, slow>>) = k
                        /\ ~sampled => k >= 1
                        /\ slow => k >= 1
  <2>1. CASE sampled
      BY <1>2, <2>1
  <2>2. CASE ~sampled
      BY <1>2, <2>2
  <2> QED
      BY <2>1, <2>2
<1>4. \E k \in 1 .. 2 : Troubles(<<TRUE, ~sampled>>) = k
  <2>1. CASE sampled
      BY <1>2, <2>1
  <2>2. CASE ~sampled
      BY <1>2, <2>2
  <2> QED
      BY <2>1, <2>2
<1> QED
    BY <1>3, <1>4

LEMMA HoldFeedback == ASSUME HoldInv, TickFeedback PROVE HoldInv'
<1>1. PICK p \in Nat, r \in Nat, h \in Nat, s \in Nat, b \in 0 .. 17,
           n \in 1 .. 10, t \in Nat : PollStarts(p, r, h, s, b, n, t)
    BY StartsSo
<1>2. PICK sampled \in BOOLEAN, d \in {Quick, Slow} :
        /\ pollAge' = d /\ healthAge' = Aged(healthAge, d)
        /\ Feeds(d, sampled, <<~sampled, d # Quick>>)
        /\ Ends(d, sampled, sampled, <<~sampled, d # Quick>>)
    BY Zenon DEF TickFeedback
<1>3. d \in 1 .. 18 /\ d \in 0 .. 18 /\ d \in Nat /\ (d # Quick) \in BOOLEAN
      /\ (d > 9 => d # Quick)
    BY RepliesAre
<1>4. PICK k \in 0 .. 2 : /\ Troubles(<<~sampled, d # Quick>>) = k
                          /\ ~sampled => k >= 1
                          /\ d # Quick => k >= 1
    BY <1>3, TroublesOf
<1>5. /\ holding /\ p >= 20 /\ h < 400 /\ missed' = 0 /\ unanswered' = unanswered
      /\ replyAge' = 0
  <2>1. p = At(pollAge) /\ h = At(healthAge) /\ p \in Nat /\ h \in Nat
      BY <1>1 DEF PollStarts
  <2>2. p >= 20 /\ h < 400
      BY <2>1 DEF TickFeedback, HealthDue, PollDue, HealthPeriod, PollPeriod
  <2> QED
      BY <2>2, Zenon DEF TickFeedback
<1>6. Goes(n, d) /\ troubles + Troubles(<<~sampled, d # Quick>>) <= MaxTroubles
    BY <1>1, <1>2, GoesOn
<1>7. PICK g \in 1 .. 18 : g = Step(n, d) /\ g >= d
    BY <1>3, StepIs
<1>8. /\ pollAge' + Waits' = g /\ replyAge' + Waits' = g - d
      /\ healthAge' \in Nat /\ healthAge' + Waits' = h + g /\ healthAge' = h + d
      /\ LateBy' = Behind(n, d)
  <2>1. h = At(healthAge)
      BY <1>1 DEF PollStarts
  <2>2. /\ Aged(healthAge, d) \in Nat /\ Aged(healthAge, d) + Waits' = h + g
        /\ Aged(healthAge, d) = h + d /\ LateBy' = Behind(n, d)
        /\ d + Waits' = g /\ Waits' \in Nat
      BY <1>3, <1>6, <1>7, <2>1, PhaseTyped, AgesGo
  <2>3. PICK w \in Nat : w = Waits' /\ d + w = g
      BY <2>2
  <2>4. 0 + w = g - d
    <3>1. d \in Nat /\ g \in Nat
        BY <1>3
    <3>2. \A x \in Nat, y \in Nat, z \in Nat : x + y = z => 0 + y = z - x
        OBVIOUS
    <3> QED
        BY <2>3, <3>1, <3>2, Zenon
  <2>5. replyAge' + Waits' = g - d
      BY <1>5, <2>3, <2>4, Zenon
  <2> QED
      BY <1>2, <2>2, <2>5, Zenon
<1>9. /\ Reached'
      /\ \/ sampled /\ troubles' = 0
         \/ troubles' = troubles + k
      /\ troubles' \in Nat /\ troubles' <= MaxTroubles
      /\ stampAge' \in Nat /\ unfed' \in Nat /\ unfed' <= stampAge'
      /\ FeedDelay(At(stampAge)', At(healthAge)', troubles')
  <2>1. replyAge' <= 70 /\ (~sampled \/ d > 9 => k >= 1) /\ k \in Nat
      BY <1>3, <1>4, <1>5
  <2> QED
      BY <1>2, <1>3, <1>4, <1>6, <2>1, Fed
<1>10. missed' \in 0 .. 3 /\ unanswered' \in 0 .. 3
    BY <1>5, CountsSo
<1>11. failures' <= troubles'
  <2>1. ~sampled => troubles' >= troubles + 1
      BY <1>4, <1>9, PhaseTyped
  <2> QED
      BY <1>2, <1>9, <2>1, FailuresSo
<1>12. /\ nextIn' \in -17 .. 10 /\ failures' \in 0 .. 3
       /\ late' \in 0 .. 1 /\ holding' \in BOOLEAN
       /\ HoldSurvives' /\ CountInv'
  <2>1. ~(replyAge' > 70) /\ replyAge' \in Nat
        /\ missed' <= troubles' /\ ~(missed' > 0)
      BY <1>5, <1>9
  <2> QED
      BY <1>2, <1>3, <1>5, <1>9, <1>10, <1>11, <2>1, EndsSo
<1>13. DelayInv'
  <2>1. Polls(g, g - d, h + g, Behind(n, d), troubles')
    <3>1. Polls(p, r, h, b, t) /\ Leaves(b, n)
        BY <1>1, Zenon DEF PollStarts
    <3>2. Polls(Step(n, d), Step(n, d) - d, h + Step(n, d), Behind(n, d), troubles')
      <4>1. d \in 1 .. 18 /\ p >= 20 /\ troubles' \in Nat
          BY <1>3, <1>5, <1>9
      <4> QED
          BY <3>1, <4>1, PhaseFeedback
    <3> QED
        BY <1>7, <3>2, Zenon
  <2>2. /\ At(pollAge)' = g /\ At(replyAge)' = g - d /\ At(healthAge)' = h + g
      BY <1>8, Zenon DEF At
  <2> QED
      BY <1>8, <1>9, <2>1, <2>2, Zenon DEF DelayInv, Polls
<1>14. /\ replyAge' <= pollAge' /\ pollAge' <= replyAge' + 18
       /\ healthAge' < 418 /\ At(healthAge)' < 418
       /\ pollAge' \in Nat /\ replyAge' \in Nat
  <2>1. At(healthAge)' = h + g
      BY <1>8, Zenon DEF At
  <2> QED
      BY <1>2, <1>3, <1>5, <1>8, <2>1
<1> QED
    BY <1>8, <1>9, <1>10, <1>12, <1>13, <1>14, Together, Zenon

LEMMA HoldMiss == ASSUME HoldInv, TickMiss PROVE HoldInv'
<1>1. PICK p \in Nat, r \in Nat, h \in Nat, s \in Nat, b \in 0 .. 17,
           n \in 1 .. 10, t \in Nat : PollStarts(p, r, h, s, b, n, t)
    BY StartsSo
<1>2. PICK sampled \in BOOLEAN :
        /\ FeedsNot(18, <<TRUE, ~sampled>>)
        /\ Ends(18, TRUE, sampled, <<TRUE, ~sampled>>)
    BY Zenon DEF TickMiss, PollWindow
<1>3. PICK k \in 1 .. 2 : Troubles(<<TRUE, ~sampled>>) = k
    BY TroublesOf
<1>4. /\ holding /\ p >= 20 /\ h < 400
      /\ missed' = missed + 1 /\ unanswered' = unanswered
      /\ pollAge' = Aged(pollAge, 18) /\ healthAge' = Aged(healthAge, 18)
      /\ replyAge' = Aged(replyAge, 18)
  <2>1. p = At(pollAge) /\ h = At(healthAge) /\ p \in Nat /\ h \in Nat
      BY <1>1 DEF PollStarts
  <2>2. p >= 20 /\ h < 400
      BY <2>1 DEF TickMiss, HealthDue, PollDue, HealthPeriod, PollPeriod
  <2> QED
      BY <2>2, Zenon DEF TickMiss, PollWindow
<1>5. Goes(n, 18) /\ troubles + Troubles(<<TRUE, ~sampled>>) <= MaxTroubles
    BY <1>1, <1>2, GoesOn
<1>6. Step(n, 18) = 18 /\ 18 \in 0 .. 18
    BY DEF Step
<1>7. /\ pollAge' \in Nat /\ pollAge' + Waits' = p + 18
      /\ replyAge' \in Nat /\ replyAge' + Waits' = r + 18
      /\ healthAge' \in Nat /\ healthAge' + Waits' = h + 18
      /\ replyAge' = r + 18 /\ healthAge' = h + 18 /\ pollAge' = p + 18
      /\ LateBy' = Behind(n, 18)
  <2>1. /\ p = At(pollAge) /\ r = At(replyAge) /\ h = At(healthAge)
      BY <1>1 DEF PollStarts
  <2> QED
      BY <1>4, <1>5, <1>6, <2>1, PhaseTyped, AgesGo
<1>8. /\ Reached'
      /\ troubles' = troubles + k /\ troubles' \in Nat /\ troubles' <= MaxTroubles
      /\ stampAge' \in Nat /\ unfed' \in Nat /\ unfed' <= stampAge'
      /\ stampAge' + Waits' = s + 18 /\ t = troubles
  <2>1. s = At(stampAge) /\ t = troubles
      BY <1>1 DEF PollStarts
  <2> QED
      BY <1>2, <1>3, <1>5, <1>6, <2>1, FedNot
<1>9. PICK u \in Nat : u = troubles' /\ u >= t + 1
    BY <1>3, <1>8
<1>10. /\ Polls(p + 18, r + 18, h + 18, Behind(n, 18), u)
       /\ u <= 2 => r + 18 <= 70
  <2>1. Polls(p, r, h, b, t)
      BY <1>1, Zenon DEF PollStarts
  <2> QED
      BY <1>4, <1>9, <2>1, PhaseMiss
<1>11. At(pollAge)' = p + 18 /\ At(healthAge)' = h + 18
       /\ At(replyAge)' = r + 18 /\ At(stampAge)' = s + 18
    BY <1>7, <1>8, Zenon DEF At
<1>12. missed' \in 0 .. 3 /\ missed' <= troubles' /\ unanswered' \in 0 .. 3
    BY <1>3, <1>4, <1>8, CountsSo
<1>13. failures' <= troubles'
  <2>1. troubles' >= troubles + 1
      BY <1>3, <1>8, PhaseTyped
  <2> QED
      BY <1>2, <1>8, <2>1, FailuresSo
<1>14. /\ nextIn' \in -17 .. 10 /\ failures' \in 0 .. 3
       /\ late' \in 0 .. 1 /\ holding' \in BOOLEAN
       /\ HoldSurvives' /\ CountInv'
  <2>1. replyAge' > 70 => troubles' >= 3
      BY <1>7, <1>9, <1>10
  <2>2. PollDue'
      BY <1>4, <1>11 DEF PollDue, PollPeriod
  <2>3. TRUE /\ replyAge' > 70 => troubles' >= 3
      BY <2>1
  <2>4. missed' > 0 => PollDue'
      BY <2>2
  <2>5. 18 \in 0 .. 18 /\ TRUE \in BOOLEAN /\ replyAge' \in Nat
      BY <1>7
  <2>6. Ends(18, TRUE, sampled, <<TRUE, ~sampled>>) /\ holding
      BY <1>2, <1>4
  <2> QED
      BY <1>8, <1>12, <1>13, <2>3, <2>4, <2>5, <2>6, EndsSo
<1>15. DelayInv'
  <2>1. FeedDelay(s + 18, h + 18, u)
    <3>1. FeedDelay(s, h, t)
        BY <1>1, Zenon DEF PollStarts
    <3>2. u >= t /\ 18 \in 1 .. 18
        BY <1>9
    <3> QED
        BY <1>9, <3>1, <3>2, FeedGoesOn
  <2> QED
      BY <1>7, <1>9, <1>10, <1>11, <2>1, Zenon DEF DelayInv, Polls
<1>16. /\ replyAge' <= pollAge' /\ pollAge' <= replyAge' + 18
       /\ healthAge' < 418 /\ At(healthAge)' < 418
  <2>1. r <= p /\ p <= r + 18
      BY <1>1, Zenon DEF PollStarts
  <2> QED
      BY <1>4, <1>7, <1>11, <2>1
<1> QED
    BY <1>7, <1>8, <1>12, <1>14, <1>15, <1>16, Together, Zenon

LEMMA HoldHealth == ASSUME HoldInv, TickHealth PROVE HoldInv'
<1>1. PICK p \in Nat, r \in Nat, h \in Nat, s \in Nat, b \in 0 .. 17,
           n \in 1 .. 10, t \in Nat : PollStarts(p, r, h, s, b, n, t)
    BY StartsSo
<1>2. PICK sampled \in BOOLEAN, d \in {Quick, HealthWindow} :
        /\ pollAge' = Aged(pollAge, d) /\ healthAge' = d
        /\ replyAge' = Aged(replyAge, d)
        /\ FeedsNot(d, <<~sampled, d # Quick>>)
        /\ Ends(d, sampled, sampled, <<~sampled, d # Quick>>)
    BY Zenon DEF TickHealth
<1>3. d \in 1 .. 9 /\ d \in 0 .. 18 /\ d \in Nat
    BY RepliesAre DEF HealthWindow
<1>4. PICK k \in 0 .. 2 : /\ Troubles(<<~sampled, d # Quick>>) = k
                          /\ ~sampled => k >= 1
  <2>1. (d # Quick) \in BOOLEAN
      OBVIOUS
  <2> QED
      BY <2>1, TroublesOf
<1>5. /\ holding /\ h >= 400 /\ missed' = missed /\ unanswered' = 0
  <2>1. h = At(healthAge) /\ h \in Nat
      BY <1>1 DEF PollStarts
  <2>2. h >= 400
      BY <2>1 DEF TickHealth, HealthDue, HealthPeriod
  <2> QED
      BY <2>2, Zenon DEF TickHealth
<1>6. Goes(n, d) /\ troubles + Troubles(<<~sampled, d # Quick>>) <= MaxTroubles
    BY <1>1, <1>2, GoesOn
<1>7. PICK g \in 1 .. 10 : g = Step(n, d)
  <2>1. d \in 0 .. 18 /\ d <= 9
      BY <1>3
  <2>2. Step(n, d) \in 1 .. 18 /\ Step(n, d) <= 10
      BY <2>1, StepIs
  <2> QED
      BY <2>2
<1>8. /\ pollAge' \in Nat /\ pollAge' + Waits' = p + g
      /\ replyAge' \in Nat /\ replyAge' + Waits' = r + g
      /\ healthAge' + Waits' = g
      /\ replyAge' = r + d /\ pollAge' = p + d
      /\ LateBy' = Behind(n, d)
  <2>1. /\ p = At(pollAge) /\ r = At(replyAge)
      BY <1>1 DEF PollStarts
  <2>2. /\ Aged(pollAge, d) \in Nat /\ Aged(pollAge, d) + Waits' = p + g
        /\ Aged(replyAge, d) \in Nat /\ Aged(replyAge, d) + Waits' = r + g
        /\ Aged(pollAge, d) = p + d /\ Aged(replyAge, d) = r + d
        /\ d + Waits' = g /\ LateBy' = Behind(n, d)
      BY <1>3, <1>6, <1>7, <2>1, PhaseTyped, AgesGo
  <2> QED
      BY <1>2, <2>2, Zenon
<1>9. /\ Reached'
      /\ troubles' = troubles + k /\ troubles' \in Nat /\ troubles' <= MaxTroubles
      /\ stampAge' \in Nat /\ unfed' \in Nat /\ unfed' <= stampAge'
      /\ stampAge' + Waits' = s + g /\ t = troubles
  <2>1. s = At(stampAge) /\ t = troubles
      BY <1>1 DEF PollStarts
  <2>2. k \in Nat
      OBVIOUS
  <2> QED
      BY <1>2, <1>3, <1>4, <1>6, <1>7, <2>1, <2>2, FedNot
<1>10. PICK u \in Nat : u = troubles' /\ u >= t
    BY <1>9
<1>11. /\ Polls(p + g, r + g, g, Behind(n, d), u)
       /\ u <= 2 => r + d <= 70
  <2>1. Polls(p, r, h, b, t) /\ Leaves(b, n) /\ r <= p /\ p <= r + 18
      BY <1>1, Zenon DEF PollStarts
  <2>2. Polls(p + Step(n, d), r + Step(n, d), Step(n, d), Behind(n, d), u)
      BY <1>3, <1>5, <1>10, <2>1, PhaseHealth
  <2>3. u <= 2 => r + d <= 70
      BY <1>3, <1>5, <1>10, <2>1, PhaseHealth
  <2> QED
      BY <1>7, <2>2, <2>3, Zenon
<1>12. At(pollAge)' = p + g /\ At(healthAge)' = g
       /\ At(replyAge)' = r + g /\ At(stampAge)' = s + g
    BY <1>8, <1>9, Zenon DEF At
<1>13. missed' \in 0 .. 3 /\ missed' <= troubles' /\ unanswered' \in 0 .. 3
    BY <1>5, <1>9, CountsSo
<1>14. failures' <= troubles'
  <2>1. ~sampled => troubles' >= troubles + 1
      BY <1>4, <1>9, PhaseTyped
  <2> QED
      BY <1>2, <1>9, <2>1, FailuresSo
<1>15. /\ nextIn' \in -17 .. 10 /\ failures' \in 0 .. 3
       /\ late' \in 0 .. 1 /\ holding' \in BOOLEAN
       /\ HoldSurvives' /\ CountInv'
  <2>1. sampled /\ replyAge' > 70 => troubles' >= 3
      BY <1>8, <1>10, <1>11
  <2>2. missed' > 0 => PollDue'
    <3>1. SUFFICES ASSUME missed' > 0 PROVE PollDue'
        OBVIOUS
    <3>2. PollDue
        BY <1>5, <3>1, CountsSo
    <3>3. p >= 20
        BY <1>1, <3>2 DEF PollStarts, PollDue, PollPeriod
    <3> QED
        BY <1>12, <3>3 DEF PollDue, PollPeriod
  <2> QED
      BY <1>2, <1>3, <1>5, <1>8, <1>9, <1>13, <1>14, <2>1, <2>2, EndsSo
<1>16. DelayInv'
  <2>1. FeedDelay(s + g, g, u)
    <3>1. FeedDelay(s, h, t)
        BY <1>1, Zenon DEF PollStarts
    <3> QED
        BY <1>5, <1>10, <3>1, FeedQueried
  <2> QED
      BY <1>8, <1>10, <1>11, <1>12, <2>1, Zenon DEF DelayInv, Polls
<1>17. /\ replyAge' <= pollAge' /\ pollAge' <= replyAge' + 18
       /\ healthAge' < 418 /\ At(healthAge)' < 418 /\ healthAge' \in Nat
  <2>1. r <= p /\ p <= r + 18
      BY <1>1, Zenon DEF PollStarts
  <2> QED
      BY <1>2, <1>3, <1>8, <1>12, <2>1
<1> QED
    BY <1>8, <1>9, <1>13, <1>15, <1>16, <1>17, Together, Zenon

LEMMA HoldUnanswered == ASSUME HoldInv, TickUnanswered PROVE HoldInv'
<1>1. PICK p \in Nat, r \in Nat, h \in Nat, s \in Nat, b \in 0 .. 17,
           n \in 1 .. 10, t \in Nat : PollStarts(p, r, h, s, b, n, t)
    BY StartsSo
<1>2. PICK sampled \in BOOLEAN :
        /\ FeedsNot(9, <<TRUE, ~sampled>>)
        /\ Ends(9, sampled, sampled, <<TRUE, ~sampled>>)
    BY Zenon DEF TickUnanswered, HealthWindow
<1>3. PICK k \in 1 .. 2 : Troubles(<<TRUE, ~sampled>>) = k
    BY TroublesOf
<1>4. /\ holding /\ h >= 400
      /\ missed' = missed /\ unanswered' = unanswered + 1
      /\ pollAge' = Aged(pollAge, 9) /\ healthAge' = 389
      /\ replyAge' = Aged(replyAge, 9)
  <2>1. h = At(healthAge) /\ h \in Nat
      BY <1>1 DEF PollStarts
  <2>2. h >= 400
      BY <2>1 DEF TickUnanswered, HealthDue, HealthPeriod
  <2>3. HealthPeriod - HealthRetry + HealthWindow = 389
      BY DEF HealthPeriod, HealthRetry, HealthWindow
  <2>4. HealthWindow = 9
      BY DEF HealthWindow
  <2> QED
      BY <2>2, <2>3, <2>4, Zenon DEF TickUnanswered
<1>5. Goes(n, 9) /\ troubles + Troubles(<<TRUE, ~sampled>>) <= MaxTroubles
    BY <1>1, <1>2, GoesOn
<1>6. 9 \in 0 .. 18 /\ 9 \in 1 .. 9 /\ 9 <= 9
    OBVIOUS
<1>7. PICK g \in 1 .. 10 : g = Step(n, 9)
  <2>1. Step(n, 9) \in 1 .. 10
      BY DEF Step
  <2> QED
      BY <2>1
<1>8. /\ pollAge' \in Nat /\ pollAge' + Waits' = p + g
      /\ replyAge' \in Nat /\ replyAge' + Waits' = r + g
      /\ healthAge' + Waits' = 380 + g
      /\ replyAge' = r + 9 /\ pollAge' = p + 9
      /\ LateBy' = Behind(n, 9)
  <2>1. /\ p = At(pollAge) /\ r = At(replyAge)
      BY <1>1 DEF PollStarts
  <2>2. /\ Aged(pollAge, 9) \in Nat /\ Aged(pollAge, 9) + Waits' = p + g
        /\ Aged(replyAge, 9) \in Nat /\ Aged(replyAge, 9) + Waits' = r + g
        /\ Aged(pollAge, 9) = p + 9 /\ Aged(replyAge, 9) = r + 9
        /\ 9 + Waits' = g /\ LateBy' = Behind(n, 9) /\ Waits' \in Nat
      BY <1>5, <1>6, <1>7, <2>1, PhaseTyped, AgesGo
  <2>3. PICK w \in Nat : w = Waits' /\ 9 + w = g
      BY <2>2
  <2>4. 389 + w = 380 + g
    <3>1. 9 + w = g /\ w \in Nat
        BY <2>3
    <3>2. \A x \in Nat, y \in Nat : 9 + x = y => 389 + x = 380 + y
        OBVIOUS
    <3> QED
        BY <3>1, <3>2
  <2>5. healthAge' + Waits' = 380 + g
      BY <1>4, <2>3, <2>4, Zenon
  <2> QED
      BY <1>4, <2>2, <2>5, Zenon
<1>9. /\ Reached'
      /\ troubles' = troubles + k /\ troubles' \in Nat /\ troubles' <= MaxTroubles
      /\ stampAge' \in Nat /\ unfed' \in Nat /\ unfed' <= stampAge'
      /\ stampAge' + Waits' = s + g /\ t = troubles
  <2>1. s = At(stampAge) /\ t = troubles
      BY <1>1 DEF PollStarts
  <2> QED
      BY <1>2, <1>3, <1>5, <1>6, <1>7, <2>1, FedNot
<1>10. PICK u \in Nat : u = troubles' /\ u >= t + 1
    BY <1>3, <1>9
<1>11. /\ Polls(p + g, r + g, 380 + g, Behind(n, 9), u)
       /\ u <= 2 => r + 9 <= 70
  <2>1. Polls(p, r, h, b, t) /\ Leaves(b, n) /\ r <= p /\ p <= r + 18
      BY <1>1, Zenon DEF PollStarts
  <2>2. Polls(p + Step(n, 9), r + Step(n, 9), 380 + Step(n, 9), Behind(n, 9), u)
    <3>1. u >= t + 1 /\ h >= 400
        BY <1>4, <1>10
    <3> QED
        BY <2>1, <3>1 DEF Leaves, Polls, PollDelay, PollPhase, Step, Behind,
           Period, PollPeriod, PollWindow
  <2>3. u <= 2 => r + 9 <= 70
    <3>1. u >= t
        BY <1>10
    <3> QED
        BY <1>4, <1>6, <2>1, <3>1, PhaseHealth
  <2> QED
      BY <1>7, <2>2, <2>3, Zenon
<1>12. At(pollAge)' = p + g /\ At(healthAge)' = 380 + g
       /\ At(replyAge)' = r + g /\ At(stampAge)' = s + g
    BY <1>8, <1>9, Zenon DEF At
<1>13. missed' \in 0 .. 3 /\ missed' <= troubles' /\ unanswered' \in 0 .. 3
    BY <1>4, <1>9, CountsSo
<1>14. failures' <= troubles'
  <2>1. troubles' >= troubles + 1
      BY <1>3, <1>9, PhaseTyped
  <2> QED
      BY <1>2, <1>9, <2>1, FailuresSo
<1>15. /\ nextIn' \in -17 .. 10 /\ failures' \in 0 .. 3
       /\ late' \in 0 .. 1 /\ holding' \in BOOLEAN
       /\ HoldSurvives' /\ CountInv'
  <2>1. sampled /\ replyAge' > 70 => troubles' >= 3
      BY <1>8, <1>10, <1>11
  <2>2. missed' > 0 => PollDue'
    <3>1. SUFFICES ASSUME missed' > 0 PROVE PollDue'
        OBVIOUS
    <3>2. PollDue
        BY <1>4, <3>1, CountsSo
    <3>3. p >= 20
        BY <1>1, <3>2 DEF PollStarts, PollDue, PollPeriod
    <3> QED
        BY <1>12, <3>3 DEF PollDue, PollPeriod
  <2> QED
      BY <1>2, <1>4, <1>6, <1>8, <1>9, <1>13, <1>14, <2>1, <2>2, EndsSo
<1>16. DelayInv'
  <2>1. FeedDelay(s + g, 380 + g, u)
    <3>1. FeedDelay(s, h, t)
        BY <1>1, Zenon DEF PollStarts
    <3> QED
        BY <1>4, <1>10, <3>1, FeedQueried
  <2> QED
      BY <1>8, <1>10, <1>11, <1>12, <2>1, Zenon DEF DelayInv, Polls
<1>17. /\ replyAge' <= pollAge' /\ pollAge' <= replyAge' + 18
       /\ healthAge' < 418 /\ At(healthAge)' < 418 /\ healthAge' \in Nat
  <2>1. r <= p /\ p <= r + 18
      BY <1>1, Zenon DEF PollStarts
  <2> QED
      BY <1>4, <1>8, <1>12, <2>1
<1> QED
    BY <1>8, <1>9, <1>13, <1>15, <1>16, <1>17, Together, Zenon

\* The start, and a start anew.
LEMMA PhaseFresh == Polls(0, 0, 0, 10, 0) /\ FeedDelay(0, 0, 0)
BY DEF Polls, PollDelay, PollPhase, FeedDelay, Period, PollPeriod, PollWindow

LEMMA HoldFresh == ASSUME HoldInit PROVE HoldInv
<1>1. /\ nextIn = -10 /\ pollAge = 0 /\ healthAge = 0 /\ stampAge = 0
      /\ replyAge = 0 /\ unfed = 0 /\ missed = 0 /\ unanswered = 0
      /\ failures = 0 /\ late = 0 /\ holding = TRUE /\ troubles = 0
      /\ gap = 0 /\ met = 0
    BY DEF HoldInit, Period
<1>2. Waits = 0 /\ LateBy = 10
  <2>1. nextIn \in Int /\ nextIn + 10 = 0
    <3>1. -10 \in Int /\ -10 + 10 = 0
        OBVIOUS
    <3> QED
        BY <1>1, <3>1, Zenon
  <2>2. \A x \in Int : x + 10 = 0 => -x = 10 /\ x < 0 /\ ~(x > 0)
      OBVIOUS
  <2> QED
      BY <2>1, <2>2, Zenon DEF Waits, LateBy
<1>3. /\ At(pollAge) = 0 /\ At(replyAge) = 0 /\ At(healthAge) = 0
      /\ At(stampAge) = 0
    BY <1>1, <1>2 DEF At
<1>4. HoldTypeOK
    BY <1>1, RepliesAre DEF HoldTypeOK, Period, PollWindow, HealthPeriod, MaxMissed,
       MaxUnanswered, MaxFailures, MaxLate
<1>5. HoldSurvives /\ HoldOutlastsTrouble
    BY <1>1 DEF HoldSurvives, HoldOutlastsTrouble, Watchdog
<1>6. CountInv
    BY <1>1 DEF CountInv, MaxMissed, MaxUnanswered, MaxFailures
<1>7. AgeInv
    BY <1>1, <1>3 DEF AgeInv, PollWindow, HealthPeriod
<1>8. DelayInv
    BY <1>1, <1>2, <1>3, PhaseFresh, Zenon DEF DelayInv, Polls
<1> QED
    BY <1>4, <1>5, <1>6, <1>7, <1>8, Zenon DEF HoldInv

LEMMA HoldAnew == ASSUME Rearm PROVE HoldInv'
<1>1. /\ nextIn' = -10 /\ pollAge' = 0 /\ healthAge' = 0 /\ stampAge' = 0
      /\ replyAge' = 0 /\ unfed' = 0 /\ missed' = 0 /\ unanswered' = 0
      /\ failures' = 0 /\ late' = 0 /\ holding' = TRUE /\ troubles' = 0
      /\ gap' = 0 /\ met' = 0
    BY DEF Rearm, Period
<1>2. Waits' = 0 /\ LateBy' = 10
  <2>1. nextIn' \in Int /\ nextIn' + 10 = 0
    <3>1. -10 \in Int /\ -10 + 10 = 0
        OBVIOUS
    <3> QED
        BY <1>1, <3>1, Zenon
  <2>2. \A x \in Int : x + 10 = 0 => -x = 10 /\ x < 0 /\ ~(x > 0)
      OBVIOUS
  <2> QED
      BY <2>1, <2>2, Zenon DEF Waits, LateBy
<1>3. /\ At(pollAge)' = 0 /\ At(replyAge)' = 0 /\ At(healthAge)' = 0
      /\ At(stampAge)' = 0
    BY <1>1, <1>2 DEF At
<1>4. HoldTypeOK'
    BY <1>1, RepliesAre DEF HoldTypeOK, Period, PollWindow, HealthPeriod, MaxMissed,
       MaxUnanswered, MaxFailures, MaxLate
<1>5. HoldSurvives' /\ HoldOutlastsTrouble'
    BY <1>1 DEF HoldSurvives, HoldOutlastsTrouble, Watchdog
<1>6. CountInv'
    BY <1>1 DEF CountInv, MaxMissed, MaxUnanswered, MaxFailures
<1>7. AgeInv'
    BY <1>1, <1>3 DEF AgeInv, PollWindow, HealthPeriod
<1>8. DelayInv'
    BY <1>1, <1>2, <1>3, PhaseFresh, Zenon DEF DelayInv, Polls
<1> QED
    BY <1>4, <1>5, <1>6, <1>7, <1>8, Zenon DEF HoldInv

\* A step that changes nothing.
LEMMA HoldRests == ASSUME HoldInv, UNCHANGED holdVars PROVE HoldInv'
<1>1. /\ UNCHANGED <<nextIn, pollAge, healthAge, stampAge, replyAge, unfed>>
      /\ UNCHANGED <<missed, unanswered, failures, late, holding, troubles, gap, met>>
    BY DEF holdVars, ageVars, countVars
<1>2. Waits' = Waits /\ LateBy' = LateBy
    BY <1>1 DEF Waits, LateBy
<1>3. /\ At(pollAge)' = At(pollAge) /\ At(replyAge)' = At(replyAge)
      /\ At(healthAge)' = At(healthAge) /\ At(stampAge)' = At(stampAge)
    BY <1>1, <1>2 DEF At
<1>4. (PollDue' <=> PollDue) /\ (Missed' <=> Missed)
    BY <1>2, <1>3, Zenon DEF PollDue, Missed
<1>5. HoldTypeOK' /\ HoldSurvives' /\ HoldOutlastsTrouble'
    BY <1>1, Zenon DEF HoldInv, HoldTypeOK, HoldSurvives, HoldOutlastsTrouble
<1>6. CountInv'
    BY <1>1, <1>4, Zenon DEF HoldInv, CountInv
<1>7. AgeInv'
    BY <1>1, <1>3, Zenon DEF HoldInv, AgeInv
<1>8. DelayInv'
    BY <1>1, <1>2, <1>3, Zenon DEF HoldInv, DelayInv
<1> QED
    BY <1>5, <1>6, <1>7, <1>8, Zenon DEF HoldInv

-----------------------------------------------------------------------------
(* The theorems *)

\* HoldInv holds in every state of the position hold, whatever replies take and
\* however many troubles come (main.cpp:578, runControlTick() in CENTERING and
\* SETTLING).
THEOREM HoldInductive == HoldSpec => []HoldInv
<1>1. HoldInit => HoldInv
    BY HoldFresh
<1>2. HoldInv /\ [HoldNext]_holdVars => HoldInv'
  <2>1. ASSUME HoldInv, HoldNext PROVE HoldInv'
    <3>1. CASE TickQuiet
        BY <2>1, <3>1, HoldQuiet
    <3>2. CASE TickFeedback
        BY <2>1, <3>2, HoldFeedback
    <3>3. CASE TickMiss
        BY <2>1, <3>3, HoldMiss
    <3>4. CASE TickHealth
        BY <2>1, <3>4, HoldHealth
    <3>5. CASE TickUnanswered
        BY <2>1, <3>5, HoldUnanswered
    <3>6. CASE Rearm
        BY <3>6, HoldAnew
    <3> QED
        BY <2>1, <3>1, <3>2, <3>3, <3>4, <3>5, <3>6 DEF HoldNext
  <2> QED
      BY <2>1, HoldRests
<1> QED
    BY <1>1, <1>2, PTL DEF HoldSpec

\* Every variable of the hold keeps its range.
THEOREM HoldTyped == HoldSpec => []HoldTypeOK
<1>1. HoldInv => HoldTypeOK
    BY DEF HoldInv
<1> QED
    BY <1>1, HoldInductive, PTL

\* A feed reaches the drive before its watchdog has expired after one slow reply,
\* lost reply or lost sample, and 2 ms late at most after two (main.cpp:835 and
\* config.hpp:349), for every time a reply takes.
THEOREM HoldOutlasts == HoldSpec => []HoldOutlastsTrouble
<1>1. HoldInv => HoldOutlastsTrouble
    BY DEF HoldInv
<1> QED
    BY <1>1, HoldInductive, PTL

\* The ticks that a request makes late never end the mode (main.cpp:1564).
THEOREM OwnWaitsForgiven == HoldSpec => []OwnWaitsNotLate
<1>1. HoldInv => OwnWaitsNotLate
  <2>1. ASSUME HoldInv PROVE ~TooLate
      BY <2>1, PhaseTyped DEF HoldInv, CountInv, TooLate, MaxLate
  <2> QED
      BY <2>1 DEF OwnWaitsNotLate
<1> QED
    BY <1>1, HoldInductive, PTL

\* The mode ends after three troubles or three unanswered health queries, never
\* for less (README.md:142).
THEOREM HoldEndsForCause == HoldSpec => []HoldSurvives
<1>1. HoldInv => HoldSurvives
    BY DEF HoldInv
<1> QED
    BY <1>1, HoldInductive, PTL
=============================================================================
