-------------------------- MODULE SupervisorProofs --------------------------
(***************************************************************************)
(* Proofs about Supervisor, for every value of its constants that satisfies  *)
(* its assumptions.  The inductive invariant is IInv; Sensed collects what    *)
(* the measuring half of a tick establishes, so that each tick action only    *)
(* has to argue about what it decides.  The second half is about steps: the   *)
(* action properties, and that every step of the controller is a step of      *)
(* MotorGate or leaves the gate alone.                                        *)
(***************************************************************************)
EXTENDS Supervisor, TLAPS

-----------------------------------------------------------------------------
(* What is inductive about the controller *)

\* The error counts of a running trial lie below their limits.
CountsBelowLimits ==
    /\ mode \in PositionModes => fbErrs < 3
    /\ mode \in TorqueModes => fbErrs < 2
    /\ IsActive => healthErrs < MaxHealthErrs

\* Why the backstop holds: every feed of the watchdog follows a dead-man check,
\* at most one blocking sequence earlier, and both ages run together after it.
DeadmanBehindFeed == IsActive => holdAge <= sinceFeed + HoldTimeout + MaxBlock

\* A reason is recorded exactly while the fault it explains is latched.
FaultExplained == mode = "FAULT" <=> fault # "none"

\* What is inductive about the controller.
IInv == /\ TypeOK /\ CountsBelowLimits /\ TorqueEnvelope /\ FaultExplained
        /\ TrialHasReference /\ GuardedExactly /\ DeadmanBehindFeed

-----------------------------------------------------------------------------
(* The commands *)

\* A command kept within a limit is within it, and of type integer.
LEMMA WithinBound ==
    ASSUME NEW x \in Int, NEW limit \in Nat
    PROVE  Within(x, limit) \in Int /\ Abs(Within(x, limit)) <= limit
BY DEF Within, Clamp, Abs

\* The slew limit never takes a command out of a range that holds both the
\* command it starts from and the one it is asked for.
LEMMA SlewBound ==
    ASSUME NEW previous \in Int, NEW requested \in Int, NEW change \in Nat,
           NEW limit \in Nat, Abs(previous) <= limit, Abs(requested) <= limit
    PROVE  /\ SlewLimit(previous, requested, change) \in Int
           /\ Abs(SlewLimit(previous, requested, change)) <= limit
BY DEF SlewLimit, Clamp, Abs

\* What an elapsed age is: it stays an age, and it lags nothing that it led.
LEMMA ElapsedAge ==
    ASSUME NEW age \in 0 .. AgeCap, NEW d \in Nat
    PROVE  Elapsed(age, d) \in 0 .. AgeCap /\ Elapsed(age, d) <= age + d
BY TimeAssumption DEF Elapsed

\* So does the age of the last accepted sample.
LEMMA SampleAges ==
    ASSUME TypeOK, NEW d \in Nat
    PROVE  SampleAged(d) \in 0 .. RecoverTime /\ Least(d, RecoverTime) \in 0 .. RecoverTime
<1>1. sampleAge \in 0 .. RecoverTime
    BY DEF TypeOK
<1> QED
    BY <1>1, TimeAssumption DEF SampleAged, Least

\* A dead-man just found fresh is within the slack of DeadmanBehindFeed.
LEMMA FreshSlack ==
    ASSUME NEW hold \in 0 .. AgeCap, NEW fed \in 0 .. AgeCap,
           hold <= HoldTimeout
    PROVE  hold <= fed + HoldTimeout + MaxBlock
BY TimeAssumption

-----------------------------------------------------------------------------
(* The initial states *)

LEMMA InitInv == Init => IInv
<1> SUFFICES ASSUME Init PROVE IInv
    OBVIOUS
<1>1. ~IsActive /\ mode \in Modes /\ mode \notin SwingModes
    BY DEF Init, IsActive, Modes, Idle, ActiveModes, SwingModes, PositionModes,
           EnergyModes
<1>2. TypeOK
  <2>1. AgeCap \in 0 .. AgeCap /\ 0 \in 0 .. AgeCap
      BY TimeAssumption
  <2>2. swingLimit \in UserLimits
      BY LimitAssumption DEF Init
  <2>3. IsPose(pose) /\ sampleAge \in 0 .. RecoverTime
      BY TimeAssumption DEF Init, IsPose
  <2> QED
      <3>1. /\ holdAge \in 0 .. AgeCap /\ fbAge \in 0 .. AgeCap
            /\ phaseAge \in 0 .. AgeCap /\ sinceFeed \in 0 .. AgeCap
            /\ sinceTick \in 0 .. AgeCap /\ settleAge \in {NotSettled}
          BY <2>1 DEF Init
      <3>2. /\ encErrs \in 0 .. MaxEncErrs /\ outliers \in 0 .. MaxOutliers
            /\ fbErrs \in 0 .. 3 /\ healthErrs \in 0 .. MaxHealthErrs
            /\ misses \in 0 .. MaxMisses
          BY DEF Init, MaxEncErrs, MaxOutliers, MaxHealthErrs, MaxMisses
      <3>3. /\ guarded \in BOOLEAN /\ zeroValid \in BOOLEAN
            /\ fault \in Integrity \cup Motion \cup {"none"}
            /\ rateKnown \in BOOLEAN /\ encoderHealthy \in BOOLEAN
            /\ odriveOnline \in BOOLEAN
          BY DEF Init
      <3>4. cmd \in Int /\ activeErrors \in {0, 1}
          BY DEF Init
      <3> QED
          BY <1>1, <2>2, <2>3, <3>1, <3>2, <3>3, <3>4 DEF TypeOK
<1>3. CountsBelowLimits
    BY <1>1 DEF Init, CountsBelowLimits, IsActive, PositionModes, TorqueModes,
                EnergyModes
<1>4. TorqueEnvelope
    BY DEF Init, TorqueEnvelope, EnergyModes
<1> QED
    BY <1>1, <1>2, <1>3, <1>4
    DEF Init, IInv, TrialHasReference, GuardedExactly, FaultExplained, DeadmanBehindFeed

-----------------------------------------------------------------------------
(* What a tick measures *)

\* The sensor and timing half of the type invariant, after a tick.
Sensed ==
    /\ swingLimit' \in UserLimits /\ IsPose(pose') /\ rateKnown' \in BOOLEAN
    /\ encoderHealthy' \in BOOLEAN /\ odriveOnline' \in BOOLEAN
    /\ activeErrors' \in {0, 1}
    /\ encErrs' \in 0 .. MaxEncErrs /\ outliers' \in 0 .. MaxOutliers
    /\ misses' \in 0 .. MaxMisses
    /\ holdAge' \in 0 .. AgeCap /\ fbAge' \in 0 .. AgeCap
    /\ sinceTick' \in 0 .. AgeCap /\ sampleAge' \in 0 .. RecoverTime

LEMMA SenseSensed ==
    ASSUME TypeOK, NEW d \in Delays, NEW diag \in Diagnoses,
           NEW link \in Links, NEW smp \in Samples, NEW h \in 0 .. MaxBlock,
           Sense(d, diag, link, smp, h)
    PROVE  Sensed
<1>1. d \in Nat /\ h \in Nat /\ AgeCap \in Nat /\ h \in 0 .. AgeCap
    BY TimeAssumption
<1>2. /\ holdAge \in 0 .. AgeCap /\ fbAge \in 0 .. AgeCap
      /\ misses \in 0 .. MaxMisses
      /\ encErrs \in 0 .. MaxEncErrs /\ outliers \in 0 .. MaxOutliers
    BY DEF TypeOK
<1>3. swingLimit' \in UserLimits /\ sinceTick' \in 0 .. AgeCap
    BY <1>1 DEF Sense, TypeOK
<1>4. misses' \in 0 .. MaxMisses
  <2>1. misses' = MissesAfter(d)
      BY DEF Sense
  <2> QED
      BY <1>2, <2>1 DEF MissesAfter, Count, MaxMisses
<1>5. encoderHealthy' \in BOOLEAN
    BY DEF Sense, Diagnose, TypeOK
<1>6. odriveOnline' \in BOOLEAN /\ activeErrors' \in {0, 1}
    BY DEF Sense, PollDrive, Live, IsActive, FeedbackGone, TypeOK, Links
<1>7. EncErrsAfter(diag) \in 0 .. MaxEncErrs
    BY <1>2 DEF EncErrsAfter, Count, MaxEncErrs
<1>8. encErrs' \in 0 .. MaxEncErrs /\ outliers' \in 0 .. MaxOutliers
  <2>1. encErrs' \in {0, EncErrsAfter(diag)}
      BY DEF Sense, SampleEncoder
  <2>2. outliers' \in {0, Count(outliers, MaxOutliers)}
      BY DEF Sense, SampleEncoder
  <2> QED
      BY <1>2, <1>7, <2>1, <2>2 DEF Count, MaxEncErrs, MaxOutliers
<1>9. IsPose(pose') /\ rateKnown' \in BOOLEAN
  <2>1. pose' \in Poses \cup {pose} /\ rateKnown' \in {TRUE, rateKnown}
      BY DEF Sense, SampleEncoder
  <2> QED
      BY <2>1, PoseAssumption DEF TypeOK
<1>10. holdAge' \in 0 .. AgeCap
  <2>1. holdAge' = Elapsed(holdAge, d + h)
      BY DEF Sense
  <2> QED
      BY <1>1, <1>2, <2>1 DEF Elapsed
<1>11. fbAge' \in 0 .. AgeCap
  <2>1. fbAge' = Elapsed(FbAgeAfter(d, link), h)
      BY DEF Sense
  <2> QED
      BY <1>1, <1>2, <2>1 DEF FbAgeAfter, Elapsed
<1>12. sampleAge' \in 0 .. RecoverTime
  <2>1. sampleAge' \in {Least(h, RecoverTime), SampleAged(d + h)}
      BY DEF Sense
  <2>2. d + h \in Nat
      BY <1>1
  <2> QED
      BY <1>1, <2>1, <2>2, SampleAges
<1> QED
    BY <1>3, <1>4, <1>5, <1>6, <1>8, <1>9, <1>10, <1>11, <1>12 DEF Sensed

-----------------------------------------------------------------------------
(* Ticks and commands that end a trial *)

\* A fault keeps the invariant, whatever the counts stopped at.
LEMMA TripInv ==
    ASSUME IInv, Sensed, NEW reason \in Integrity \cup Motion, Trip(reason),
           fbErrs' \in 0 .. 3, healthErrs' \in 0 .. MaxHealthErrs
    PROVE  IInv'
<1>1. /\ mode' = "FAULT" /\ guarded' = FALSE /\ fault' = reason /\ cmd' = 0
      /\ phaseAge' = 0 /\ settleAge' = NotSettled /\ sinceFeed' = 0
    BY DEF Trip
<1>2. /\ mode' \in Modes /\ mode' \notin SwingModes /\ mode' \notin TorqueModes
      /\ mode' \notin PositionModes /\ mode' \notin EnergyModes
      /\ mode' # "TUNING" /\ ~IsActive'
    BY <1>1 DEF Modes, SwingModes, TorqueModes, PositionModes, EnergyModes,
                IsActive, ActiveModes
<1>3. zeroValid' \in BOOLEAN
    BY DEF Trip, IInv, TypeOK
<1>4. phaseAge' \in 0 .. AgeCap /\ sinceFeed' \in 0 .. AgeCap /\ cmd' \in Int
    BY <1>1, TimeAssumption
<1>5. TypeOK'
    BY <1>1, <1>2, <1>3, <1>4 DEF Sensed, TypeOK
<1>6. FaultExplained'
    BY <1>1 DEF FaultExplained, Integrity, Motion
<1> QED
    BY <1>1, <1>2, <1>5, <1>6
    DEF IInv, CountsBelowLimits, TorqueEnvelope, TrialHasReference,
        GuardedExactly, FaultExplained, DeadmanBehindFeed

\* So does a stop on purpose; only an acknowledged one may leave a fault.
LEMMA DisarmedInv ==
    ASSUME IInv, NEW acknowledge \in BOOLEAN, Disarmed(acknowledge),
           acknowledge \/ mode # "FAULT",
           holdAge' \in 0 .. AgeCap, fbAge' \in 0 .. AgeCap,
           sinceTick' \in 0 .. AgeCap, sampleAge' \in 0 .. RecoverTime
    PROVE  IInv'
<1>1. /\ mode' = "DISARMED" /\ guarded' = FALSE /\ cmd' = 0
      /\ fbErrs' = 0 /\ healthErrs' = 0
      /\ phaseAge' = 0 /\ settleAge' = NotSettled /\ sinceFeed' = 0
    BY DEF Disarmed
<1>2. /\ mode' \in Modes /\ mode' \notin SwingModes /\ mode' \notin TorqueModes
      /\ mode' \notin PositionModes /\ mode' \notin EnergyModes
      /\ mode' # "TUNING" /\ ~IsActive'
    BY <1>1 DEF Modes, Idle, SwingModes, TorqueModes, PositionModes,
                EnergyModes, IsActive, ActiveModes
<1>3. /\ fault' \in Integrity \cup Motion \cup {"none"}
      /\ zeroValid' \in BOOLEAN /\ swingLimit' \in UserLimits
      /\ IsPose(pose') /\ rateKnown' \in BOOLEAN /\ encoderHealthy' \in BOOLEAN
      /\ odriveOnline' \in BOOLEAN
    BY DEF Disarmed, IInv, TypeOK, encVars
<1>4. /\ activeErrors' \in {0, 1}
      /\ encErrs' \in 0 .. MaxEncErrs /\ outliers' \in 0 .. MaxOutliers
      /\ misses' \in 0 .. MaxMisses
    BY DEF Disarmed, IInv, TypeOK, encVars
<1>5. /\ phaseAge' \in 0 .. AgeCap /\ sinceFeed' \in 0 .. AgeCap /\ cmd' \in Int
      /\ fbErrs' \in 0 .. 3 /\ healthErrs' \in 0 .. MaxHealthErrs
    BY <1>1, TimeAssumption DEF MaxHealthErrs
<1>6. TypeOK'
    BY <1>1, <1>2, <1>3, <1>4, <1>5 DEF TypeOK
<1>7. FaultExplained'
    BY <1>1 DEF Disarmed, IInv, FaultExplained
<1> QED
    BY <1>1, <1>2, <1>6, <1>7
    DEF IInv, CountsBelowLimits, TorqueEnvelope, TrialHasReference,
        GuardedExactly, FaultExplained, DeadmanBehindFeed

-----------------------------------------------------------------------------
(* What a tick that goes on with the trial may rely on *)

\* The counts of a tick stay in range.
LEMMA CountsTyped ==
    ASSUME IInv, IsActive, NEW d \in Delays, NEW link \in Links
    PROVE  /\ FbErrsAfter(d, link) \in 0 .. 3
           /\ HealthErrsAfter(d, link) \in 0 .. MaxHealthErrs
<1>1. /\ fbErrs \in 0 .. 3 /\ healthErrs \in 0 .. MaxHealthErrs
      /\ healthErrs < MaxHealthErrs
    BY DEF IInv, TypeOK, CountsBelowLimits
<1>2. fbErrs < 3
    BY DEF IInv, CountsBelowLimits, IsActive, ActiveModes, SwingModes,
           TorqueModes, TypeOK
<1> QED
    BY <1>1, <1>2 DEF FbErrsAfter, HealthErrsAfter, MaxHealthErrs

\* A tick without a cause to fault has seen the tick through alive, and leaves
\* the counts below their limits.
LEMMA CalmCounts ==
    ASSUME IInv, IsActive, NEW d \in Delays, NEW link \in Links,
           NEW smp \in Samples, misses' = MissesAfter(d),
           Cause(d, link, smp) = "none"
    PROVE  /\ PositionManaged => FbErrsAfter(d, link) < 3
           /\ ~PositionManaged => FbErrsAfter(d, link) < 2
           /\ HealthErrsAfter(d, link) < MaxHealthErrs
<1>1. ~(misses' >= MaxMisses)
    BY DEF Cause
<1>2. ~(HealthErrsAfter(d, link) >= MaxHealthErrs)
    BY <1>1 DEF Cause
<1>3. ~FeedbackGone(d, link)
    BY <1>1, <1>2 DEF Cause
<1>4. fbErrs \in 0 .. 3 /\ (PositionManaged => fbErrs < 3)
                       /\ (~PositionManaged => fbErrs < 2)
    BY DEF IInv, TypeOK, CountsBelowLimits, PositionManaged, IsActive,
           ActiveModes, SwingModes, TorqueModes
<1>5. /\ FbErrsAfter(d, link) \in 0 .. 3
      /\ HealthErrsAfter(d, link) \in 0 .. MaxHealthErrs
    BY CountsTyped
<1>6. CASE link = "feedback_lost"
  <2>1. ~(FbErrsAfter(d, link) >= MaxFbErrs)
      BY <1>3, <1>6 DEF FeedbackGone
  <2> QED
      BY <1>2, <1>5, <2>1 DEF MaxFbErrs, MaxHealthErrs
<1>7. CASE link # "feedback_lost"
  <2>1. FbErrsAfter(d, link) \in {0, fbErrs}
      BY <1>7 DEF FbErrsAfter
  <2> QED
      BY <1>2, <1>4, <1>5, <2>1 DEF MaxHealthErrs
<1> QED
    BY <1>6, <1>7

\* A tick that decides anything has just found the dead-man fresh.
LEMMA DecideFresh ==
    ASSUME TypeOK, NEW d \in Delays, NEW diag \in Diagnoses, NEW link \in Links,
           NEW h \in 0 .. MaxBlock, Decide(d, diag, link, h)
    PROVE  holdAge' <= HoldTimeout + h
<1>1. Cause(d, link, "good") = "none" /\ Usable(link, "good")
    BY DEF Decide, Usable
<1>2. StateCause(d, link) = "none"
    BY <1>1 DEF Cause
<1>3. ~(Elapsed(holdAge, d) > HoldTimeout)
    BY <1>2 DEF StateCause
<1>4. holdAge' = Elapsed(holdAge, d + h)
    BY DEF Decide, Sense
<1>5. holdAge \in 0 .. AgeCap /\ d \in Nat /\ h \in Nat
    BY TimeAssumption DEF TypeOK
<1> QED
    BY <1>3, <1>4, <1>5, TimeAssumption DEF Elapsed

\* What a tick has to establish itself so that the trial may go on.
LEMMA TrialInv ==
    ASSUME IInv, IsActive, Sensed,
           mode' \in ActiveModes, mode' \in SwingModes <=> mode \in SwingModes,
           guarded' = guarded, zeroValid' = zeroValid, fault' = fault,
           fbErrs' \in 0 .. 3, healthErrs' \in 0 .. MaxHealthErrs,
           CountsBelowLimits', cmd' \in Int, TorqueEnvelope',
           phaseAge' \in 0 .. AgeCap, sinceFeed' \in 0 .. AgeCap,
           settleAge' \in {NotSettled} \cup 0 .. AgeCap,
           holdAge' <= sinceFeed' + HoldTimeout + MaxBlock
    PROVE  IInv'
<1>1. /\ mode' \in Modes
      /\ guarded' \in BOOLEAN /\ zeroValid' \in BOOLEAN
      /\ fault' \in Integrity \cup Motion \cup {"none"}
    BY DEF IInv, TypeOK, Modes
<1>2. TypeOK'
    BY <1>1 DEF Sensed, TypeOK
<1>3. TrialHasReference'
    BY DEF IInv, TrialHasReference
<1>4. GuardedExactly'
    BY DEF IInv, GuardedExactly
<1>5. FaultExplained'
    BY DEF IInv, TrialHasReference, FaultExplained, IsActive, ActiveModes,
           SwingModes, PositionModes, EnergyModes
<1> QED
    BY <1>2, <1>3, <1>4, <1>5 DEF IInv, DeadmanBehindFeed

-----------------------------------------------------------------------------
(* The ticks *)

LEMMA TickStoppedInv == IInv /\ TickStopped => IInv'
<1> SUFFICES ASSUME IInv, TickStopped PROVE IInv'
    OBVIOUS
<1>1. PICK d \in Delays, diag \in Diagnoses, link \in Links, smp \in Samples :
         Sense(d, diag, link, smp, 0) /\ KeepCounts(d, link)
    BY DEF TickStopped
<1>2. TypeOK /\ 0 \in 0 .. MaxBlock
    BY TimeAssumption DEF IInv
<1>3. Sensed
    BY <1>1, <1>2, SenseSensed
<1>4. ~IsActive /\ UNCHANGED <<gateVars, phaseVars>>
    BY DEF TickStopped
<1>5. fbErrs' \in 0 .. 3 /\ healthErrs' \in 0 .. MaxHealthErrs
  <2>1. fbErrs' \in {0, fbErrs} /\ healthErrs' \in {0, healthErrs}
      BY <1>1, <1>4 DEF KeepCounts, FbErrsAfter, HealthErrsAfter, Live
  <2> QED
      BY <1>2, <2>1 DEF TypeOK, MaxHealthErrs
<1>6. TypeOK'
    BY <1>2, <1>3, <1>4, <1>5 DEF TypeOK, Sensed, gateVars, phaseVars
<1>7. /\ ~IsActive' /\ mode' \notin PositionModes /\ mode' \notin TorqueModes
      /\ mode' = mode
    BY <1>4 DEF IsActive, gateVars, ActiveModes, SwingModes, TorqueModes
<1> QED
    BY <1>4, <1>6, <1>7
    DEF IInv, CountsBelowLimits, TorqueEnvelope, TrialHasReference,
        GuardedExactly, FaultExplained, DeadmanBehindFeed, gateVars

LEMMA CauseIsReason ==
    ASSUME NEW d, NEW link, NEW smp, Cause(d, link, smp) # "none"
    PROVE  Cause(d, link, smp) \in Integrity \cup Motion
<1>1. StateCause(d, link) \in Integrity \cup Motion \cup {"none"}
    BY DEF StateCause, PhaseCause, Integrity, Motion
<1> QED
    BY <1>1 DEF Cause, Integrity, Motion

LEMMA TickTripInv == IInv /\ TickTrip => IInv'
<1> SUFFICES ASSUME IInv, TickTrip PROVE IInv'
    OBVIOUS
<1>1. PICK d \in Delays, diag \in Diagnoses, link \in Links, smp \in Samples :
         /\ Sense(d, diag, link, smp, 0) /\ KeepCounts(d, link)
         /\ Cause(d, link, smp) # "none"
         /\ Trip(Cause(d, link, smp))
    BY DEF TickTrip
<1>2. TypeOK /\ 0 \in 0 .. MaxBlock
    BY TimeAssumption DEF IInv
<1>3. Sensed
    BY <1>1, <1>2, SenseSensed
<1>4. fbErrs' \in 0 .. 3 /\ healthErrs' \in 0 .. MaxHealthErrs
    BY <1>1, CountsTyped DEF KeepCounts, TickTrip
<1>5. Cause(d, link, smp) \in Integrity \cup Motion
    BY <1>1, CauseIsReason
<1> QED
    BY <1>1, <1>3, <1>4, <1>5, TripInv

LEMMA TickCoastInv == IInv /\ TickCoast => IInv'
<1> SUFFICES ASSUME IInv, TickCoast PROVE IInv'
    OBVIOUS
<1>1. PICK d \in Delays, diag \in Diagnoses, link \in Links, smp \in Samples :
         /\ Sense(d, diag, link, smp, 0) /\ KeepCounts(d, link)
         /\ Cause(d, link, smp) = "none"
         /\ phaseAge' = Elapsed(phaseAge, d)
         /\ settleAge' = SettleOn(d)
         /\ sinceFeed' = Elapsed(sinceFeed, d)
    BY DEF TickCoast
<1>2. /\ TypeOK /\ 0 \in 0 .. MaxBlock /\ d \in Nat /\ AgeCap \in Nat
      /\ HoldTimeout \in Nat /\ MaxBlock \in Nat
    BY TimeAssumption DEF IInv
<1>3. IsActive /\ UNCHANGED gateVars
    BY DEF TickCoast
<1>4. Sensed
    BY <1>1, <1>2, SenseSensed
<1>5. /\ fbErrs' \in 0 .. 3 /\ healthErrs' \in 0 .. MaxHealthErrs
    BY <1>1, <1>3, CountsTyped DEF KeepCounts
<1>6. CountsBelowLimits'
  <2>1. /\ PositionManaged => fbErrs' < 3
        /\ ~PositionManaged => fbErrs' < 2
        /\ healthErrs' < MaxHealthErrs
      BY <1>1, <1>3, CalmCounts DEF KeepCounts, Sense
  <2>2. mode' = mode
      BY <1>3 DEF gateVars
  <2> QED
      BY <2>1, <2>2 DEF CountsBelowLimits, PositionManaged, PositionModes,
                        TorqueModes, EnergyModes
<1>7. phaseAge' \in 0 .. AgeCap /\ sinceFeed' \in 0 .. AgeCap
  <2>1. phaseAge \in 0 .. AgeCap /\ sinceFeed \in 0 .. AgeCap
      BY <1>2 DEF TypeOK
  <2> QED
      BY <1>1, <1>2, <2>1 DEF Elapsed
<1>8. settleAge' \in {NotSettled} \cup 0 .. AgeCap
  <2>1. settleAge \in {NotSettled} \cup 0 .. AgeCap
      BY <1>2 DEF TypeOK
  <2> QED
      BY <1>1, <1>2, <2>1 DEF SettleOn, Elapsed, NotSettled
<1>9. holdAge' <= sinceFeed' + HoldTimeout + MaxBlock
  <2>1. /\ holdAge \in 0 .. AgeCap /\ sinceFeed \in 0 .. AgeCap
        /\ holdAge <= sinceFeed + HoldTimeout + MaxBlock
      BY <1>2, <1>3 DEF IInv, TypeOK, DeadmanBehindFeed
  <2>2. holdAge' = Elapsed(holdAge, d)
      BY <1>1, <1>2 DEF Sense
  <2> QED
      BY <1>1, <1>2, <2>1, <2>2 DEF Elapsed
<1>10. TorqueEnvelope' /\ cmd' \in Int
    BY <1>3 DEF IInv, TypeOK, TorqueEnvelope, gateVars
<1> QED
    BY <1>3, <1>4, <1>5, <1>6, <1>7, <1>8, <1>9, <1>10, TrialInv
    DEF gateVars, IsActive

\* What every tick that decides, and does not block, has in common.
LEMMA DecideTick ==
    ASSUME IInv, IsActive, NEW d \in Delays, NEW diag \in Diagnoses,
           NEW link \in Links, Decide(d, diag, link, 0), KeepCounts(d, link)
    PROVE  /\ Sensed /\ holdAge' <= HoldTimeout
           /\ fbErrs' \in 0 .. 3 /\ healthErrs' \in 0 .. MaxHealthErrs
           /\ PositionManaged => fbErrs' < 3
           /\ ~PositionManaged => fbErrs' < 2
           /\ healthErrs' < MaxHealthErrs
<1>1. TypeOK /\ 0 \in 0 .. MaxBlock /\ "good" \in Samples
    BY TimeAssumption DEF IInv, Samples
<1>2. Sense(d, diag, link, "good", 0) /\ Cause(d, link, "good") = "none"
    BY DEF Decide
<1>3. Sensed
    BY <1>1, <1>2, SenseSensed
<1>4. holdAge' <= HoldTimeout
  <2>1. holdAge' <= HoldTimeout + 0
      BY <1>1, DecideFresh
  <2> QED
      BY <2>1, TimeAssumption
<1>5. fbErrs' \in 0 .. 3 /\ healthErrs' \in 0 .. MaxHealthErrs
    BY CountsTyped DEF KeepCounts
<1>6. misses' = MissesAfter(d)
    BY <1>2 DEF Sense
<1>7. /\ PositionManaged => FbErrsAfter(d, link) < 3
      /\ ~PositionManaged => FbErrsAfter(d, link) < 2
      /\ HealthErrsAfter(d, link) < MaxHealthErrs
    BY <1>1, <1>2, <1>6, CalmCounts
<1> QED
    BY <1>3, <1>4, <1>5, <1>7 DEF KeepCounts

\* A command inside the clamp of its mode gives a command inside it.
LEMMA CommandTick ==
    ASSUME IInv, IsActive, NEW d \in Delays, NEW wanted \in Int,
           NEW slew \in Nat, NEW limit \in Nat,
           sinceTick' \in 0 .. AgeCap, Sensed, holdAge' <= HoldTimeout,
           Command(wanted, slew, d),
           Abs(wanted) <= limit, Abs(cmd) <= limit
    PROVE  /\ cmd' \in Int /\ Abs(cmd') <= limit
           /\ phaseAge' \in 0 .. AgeCap /\ sinceFeed' \in 0 .. AgeCap
           /\ settleAge' \in {NotSettled} \cup 0 .. AgeCap
           /\ holdAge' <= sinceFeed' + HoldTimeout + MaxBlock
           /\ guarded' = guarded /\ zeroValid' = zeroValid /\ fault' = fault
<1>1. /\ cmd \in Int /\ sinceTick \in 0 .. AgeCap /\ phaseAge \in 0 .. AgeCap
      /\ settleAge \in {NotSettled} \cup 0 .. AgeCap
    BY DEF IInv, TypeOK
<1>2. d \in Nat /\ AgeCap \in Nat /\ HoldTimeout \in Nat /\ MaxBlock \in Nat
    BY TimeAssumption
<1>3. SlewTicks(d) \in Nat
    BY <1>1, <1>2, LimitAssumption DEF SlewTicks, Least
<1>4. slew * SlewTicks(d) \in Nat
    BY <1>3
<1>5. cmd' = SlewLimit(cmd, wanted, slew * SlewTicks(d))
    BY DEF Command
<1>6. cmd' \in Int /\ Abs(cmd') <= limit
    BY <1>1, <1>4, <1>5, SlewBound
<1>7. sinceFeed' = 0 /\ phaseAge' = Elapsed(phaseAge, d)
    BY DEF Command
<1>8. phaseAge' \in 0 .. AgeCap /\ sinceFeed' \in 0 .. AgeCap
    BY <1>1, <1>2, <1>7 DEF Elapsed
<1>9. holdAge' <= sinceFeed' + HoldTimeout + MaxBlock
    BY <1>2, <1>7 DEF Sensed
<1> QED
    BY <1>1, <1>6, <1>8, <1>9 DEF Command

LEMMA TickTuningInv == IInv /\ TickTuning => IInv'
<1> SUFFICES ASSUME IInv, TickTuning PROVE IInv'
    OBVIOUS
<1>1. PICK d \in Delays, diag \in Diagnoses, link \in Links, want \in Demands :
         /\ Decide(d, diag, link, 0) /\ KeepCounts(d, link)
         /\ Command(Within(want, TuningLimit), Slew, d)
    BY DEF TickTuning
<1>2. mode = "TUNING" /\ mode' = "TUNING"
    BY DEF TickTuning
<1>3. /\ IsActive /\ ~PositionManaged /\ mode' \in ActiveModes
      /\ mode' \in SwingModes <=> mode \in SwingModes
    BY <1>2 DEF IsActive, ActiveModes, PositionManaged, PositionModes
<1>4. /\ Sensed /\ holdAge' <= HoldTimeout
      /\ fbErrs' \in 0 .. 3 /\ healthErrs' \in 0 .. MaxHealthErrs
      /\ fbErrs' < 2 /\ healthErrs' < MaxHealthErrs
    BY <1>1, <1>3, DecideTick
<1>5. TuningLimit \in Nat /\ Slew \in Nat /\ want \in Int
    BY LimitAssumption, PoseAssumption
<1>6. Within(want, TuningLimit) \in Int /\ Abs(Within(want, TuningLimit)) <= TuningLimit
    BY <1>5, WithinBound
<1>7. Abs(cmd) <= TuningLimit
    BY <1>2 DEF IInv, TorqueEnvelope
<1>8. /\ cmd' \in Int /\ Abs(cmd') <= TuningLimit
      /\ phaseAge' \in 0 .. AgeCap /\ sinceFeed' \in 0 .. AgeCap
      /\ settleAge' \in {NotSettled} \cup 0 .. AgeCap
      /\ holdAge' <= sinceFeed' + HoldTimeout + MaxBlock
      /\ guarded' = guarded /\ zeroValid' = zeroValid /\ fault' = fault
    BY <1>1, <1>3, <1>4, <1>5, <1>6, <1>7, CommandTick DEF Sensed
<1>9. CountsBelowLimits'
    BY <1>2, <1>4 DEF CountsBelowLimits, PositionModes
<1>10. TorqueEnvelope'
    BY <1>2, <1>8 DEF TorqueEnvelope, TorqueModes, EnergyModes
<1> QED
    BY <1>3, <1>4, <1>8, <1>9, <1>10, TrialInv

\* Whatever the laws ask for, EnergyTorque stays within the swing limit.
LEMMA EnergyTorqueBound ==
    ASSUME NEW want \in Int, NEW m \in EnergyModes, swingLimit \in Nat
    PROVE  EnergyTorque(want, m) \in Int /\ Abs(EnergyTorque(want, m)) <= SwingLimit
<1>1. /\ SwingLimit \in Nat /\ BalanceLimit \in Nat /\ GuardedLimit \in Nat
      /\ BalanceLimit <= SwingLimit
    BY LimitAssumption
<1> DEFINE law == IF m = "SWING_UP"
                  THEN Within(want, Least(swingLimit, SwingLimit)) ELSE want
           kept == IF guarded THEN Within(law, GuardedLimit) ELSE law
           clamp == IF m = "SWING_UP" THEN SwingLimit ELSE BalanceLimit
<1>2. Least(swingLimit, SwingLimit) \in Nat
    BY <1>1 DEF Least
<1>3. law \in Int
    BY <1>2, WithinBound
<1>4. kept \in Int
    BY <1>1, <1>3, WithinBound
<1>5. clamp \in Nat /\ clamp <= SwingLimit
    BY <1>1
<1>6. EnergyTorque(want, m) = Within(kept, clamp)
    BY DEF EnergyTorque
<1> HIDE DEF kept, clamp
<1>7. Within(kept, clamp) \in Int /\ Abs(Within(kept, clamp)) <= clamp
    BY <1>4, <1>5, WithinBound
<1>8. Abs(Within(kept, clamp)) \in Int
    BY <1>7 DEF Abs
<1> QED
    BY <1>1, <1>5, <1>6, <1>7, <1>8

LEMMA TickEnergyInv == IInv /\ TickEnergy => IInv'
<1> SUFFICES ASSUME IInv, TickEnergy PROVE IInv'
    OBVIOUS
<1>1. PICK d \in Delays, diag \in Diagnoses, link \in Links, want \in Demands :
         /\ Decide(d, diag, link, 0) /\ KeepCounts(d, link)
         /\ mode' = EnergyMode
         /\ Command(EnergyTorque(want, mode'),
                    IF mode' = "SWING_UP" THEN SwingSlew ELSE Slew, d)
    BY DEF TickEnergy
<1> DEFINE slew == IF mode' = "SWING_UP" THEN SwingSlew ELSE Slew
<1>2. mode \in EnergyModes /\ mode' \in EnergyModes
    BY <1>1 DEF TickEnergy, EnergyMode, EnergyModes
<1>3. /\ IsActive /\ ~PositionManaged /\ mode' \in ActiveModes
      /\ mode' \in SwingModes <=> mode \in SwingModes
    BY <1>2 DEF IsActive, ActiveModes, SwingModes, EnergyModes, PositionManaged,
                PositionModes
<1>4. /\ Sensed /\ holdAge' <= HoldTimeout
      /\ fbErrs' \in 0 .. 3 /\ healthErrs' \in 0 .. MaxHealthErrs
      /\ fbErrs' < 2 /\ healthErrs' < MaxHealthErrs
    BY <1>1, <1>3, DecideTick
<1>5. SwingLimit \in Nat /\ slew \in Nat /\ want \in Int /\ swingLimit \in Nat
    BY LimitAssumption, PoseAssumption DEF IInv, TypeOK
<1>6. /\ EnergyTorque(want, mode') \in Int
      /\ Abs(EnergyTorque(want, mode')) <= SwingLimit
    BY <1>2, <1>5, EnergyTorqueBound
<1>7. Abs(cmd) <= SwingLimit
    BY <1>2 DEF IInv, TorqueEnvelope
<1> HIDE DEF slew
<1>8. Command(EnergyTorque(want, mode'), slew, d)
    BY <1>1 DEF slew
<1>9. /\ cmd' \in Int /\ Abs(cmd') <= SwingLimit
      /\ phaseAge' \in 0 .. AgeCap /\ sinceFeed' \in 0 .. AgeCap
      /\ settleAge' \in {NotSettled} \cup 0 .. AgeCap
      /\ holdAge' <= sinceFeed' + HoldTimeout + MaxBlock
      /\ guarded' = guarded /\ zeroValid' = zeroValid /\ fault' = fault
    BY <1>3, <1>4, <1>5, <1>6, <1>7, <1>8, CommandTick DEF Sensed
<1>10. CountsBelowLimits'
    BY <1>2, <1>4 DEF CountsBelowLimits, PositionModes, EnergyModes
<1>11. TorqueEnvelope'
    BY <1>2, <1>9 DEF TorqueEnvelope, TorqueModes, EnergyModes
<1> QED
    BY <1>3, <1>4, <1>9, <1>10, <1>11, TrialInv

LEMMA WriteFailsInv == IInv /\ (TickWriteFails \/ TickFeedFails) => IInv'
<1> SUFFICES ASSUME IInv, TickWriteFails \/ TickFeedFails PROVE IInv'
    OBVIOUS
<1>1. PICK d \in Delays, diag \in Diagnoses, link \in Links :
         Decide(d, diag, link, 0) /\ KeepCounts(d, link)
    BY DEF TickWriteFails, TickFeedFails
<1>2. IsActive
    BY DEF TickWriteFails, TickFeedFails, PositionManaged, IsActive,
           ActiveModes, SwingModes, TorqueModes
<1>3. Sensed /\ fbErrs' \in 0 .. 3 /\ healthErrs' \in 0 .. MaxHealthErrs
    BY <1>1, <1>2, DecideTick
<1>4. PICK reason \in {"torque_write", "feed"} : Trip(reason)
    BY DEF TickWriteFails, TickFeedFails
<1>5. reason \in Integrity \cup Motion
    BY DEF Integrity
<1> QED
    BY <1>3, <1>4, <1>5, TripInv

\* The position hold: a fed or an ageing watchdog, and a command of zero.
LEMMA PositionTick ==
    ASSUME IInv, PositionManaged, NEW d \in Delays, NEW diag \in Diagnoses,
           NEW link \in Links, Decide(d, diag, link, 0), KeepCounts(d, link),
           Feed(d, link), mode' \in PositionModes, cmd' = 0,
           phaseAge' \in {0, Elapsed(phaseAge, d)},
           settleAge' \in {NotSettled} \cup 0 .. AgeCap,
           guarded' = guarded, zeroValid' = zeroValid, fault' = fault
    PROVE  IInv'
<1>1. /\ IsActive /\ mode' \in ActiveModes
      /\ mode' \in SwingModes <=> mode \in SwingModes
    BY DEF PositionManaged, IsActive, ActiveModes, SwingModes
<1>2. /\ Sensed /\ holdAge' <= HoldTimeout
      /\ fbErrs' \in 0 .. 3 /\ healthErrs' \in 0 .. MaxHealthErrs
      /\ fbErrs' < 3 /\ healthErrs' < MaxHealthErrs
    BY <1>1, DecideTick
<1>3. /\ phaseAge \in 0 .. AgeCap /\ sinceFeed \in 0 .. AgeCap
      /\ d \in Nat /\ AgeCap \in Nat /\ HoldTimeout \in Nat /\ MaxBlock \in Nat
    BY TimeAssumption DEF IInv, TypeOK
<1>4. phaseAge' \in 0 .. AgeCap
    BY <1>3 DEF Elapsed
<1>5. sinceFeed' \in 0 .. AgeCap
    BY <1>3 DEF Feed, Elapsed
<1>6. holdAge' <= sinceFeed' + HoldTimeout + MaxBlock
  <2>1. holdAge' \in 0 .. AgeCap /\ holdAge' <= HoldTimeout
      BY <1>2 DEF Sensed
  <2> QED
      BY <1>5, <2>1, FreshSlack
<1>7. CountsBelowLimits'
    BY <1>2 DEF CountsBelowLimits, PositionModes, TorqueModes, EnergyModes
<1>8. TorqueEnvelope' /\ cmd' \in Int
    BY DEF TorqueEnvelope, PositionModes, EnergyModes
<1> QED
    BY <1>1, <1>2, <1>4, <1>5, <1>6, <1>7, <1>8, TrialInv

LEMMA TickCenteringInv == IInv /\ TickCentering => IInv'
<1> SUFFICES ASSUME IInv, TickCentering PROVE IInv'
    OBVIOUS
<1>1. PICK d \in Delays, diag \in Diagnoses, link \in Links :
         /\ Decide(d, diag, link, 0) /\ KeepCounts(d, link)
         /\ Feed(d, link)
         /\ mode' = IF Centered(pose') THEN "SETTLING" ELSE mode
         /\ phaseAge' = IF Centered(pose') THEN 0 ELSE Elapsed(phaseAge, d)
    BY DEF TickCentering
<1>2. PositionManaged /\ mode' \in PositionModes
    BY <1>1 DEF TickCentering, PositionManaged, PositionModes
<1>3. phaseAge' \in {0, Elapsed(phaseAge, d)}
    BY <1>1
<1>4. settleAge' \in {NotSettled} \cup 0 .. AgeCap
    BY DEF TickCentering, IInv, TypeOK
<1> QED
    BY <1>1, <1>2, <1>3, <1>4, PositionTick DEF TickCentering

LEMMA TickSettlingInv == IInv /\ TickSettling => IInv'
<1> SUFFICES ASSUME IInv, TickSettling PROVE IInv'
    OBVIOUS
<1>1. PICK d \in Delays, diag \in Diagnoses, link \in Links :
         /\ Decide(d, diag, link, 0) /\ KeepCounts(d, link)
         /\ Feed(d, link)
         /\ phaseAge' = Elapsed(phaseAge, d)
         /\ settleAge' \in {NotSettled, 0, SettleOn(d)}
    BY DEF TickSettling
<1>2. PositionManaged /\ mode' \in PositionModes
    BY DEF TickSettling, PositionManaged, PositionModes
<1>3. settleAge' \in {NotSettled} \cup 0 .. AgeCap
  <2>1. settleAge \in {NotSettled} \cup 0 .. AgeCap /\ d \in Nat /\ AgeCap \in Nat
      BY TimeAssumption DEF IInv, TypeOK
  <2> QED
      BY <1>1, <2>1 DEF SettleOn, Elapsed, NotSettled
<1> QED
    BY <1>1, <1>2, <1>3, PositionTick DEF TickSettling

\* The verified switch to torque control may block for as long as MaxBlock after
\* the dead-man was checked: this is the distance DeadmanBehindFeed allows for.
LEMMA TickHandoffInv == IInv /\ TickHandoff => IInv'
<1> SUFFICES ASSUME IInv, TickHandoff PROVE IInv'
    OBVIOUS
<1>1. PICK d \in Delays, diag \in Diagnoses, link \in Links, h \in HandoffTimes :
         Decide(d, diag, link, h) /\ HandoffDue(d) /\ phaseAge' = h
    BY DEF TickHandoff
<1>2. /\ mode' = "SWING_UP" /\ cmd' = 0 /\ fbErrs' = 0 /\ healthErrs' = 0
      /\ settleAge' = NotSettled /\ sinceFeed' = 0
      /\ guarded' = guarded /\ zeroValid' = zeroValid /\ fault' = fault
    BY DEF TickHandoff
<1>3. h \in 0 .. MaxBlock /\ TypeOK /\ "good" \in Samples
    BY TimeAssumption DEF IInv, Samples
<1>4. Sensed
    BY <1>1, <1>3, SenseSensed DEF Decide
<1>5. /\ IsActive /\ mode' \in ActiveModes
      /\ mode' \in SwingModes <=> mode \in SwingModes
    BY <1>1, <1>2 DEF HandoffDue, IsActive, ActiveModes, SwingModes,
                      PositionModes, EnergyModes
<1>6. holdAge' <= sinceFeed' + HoldTimeout + MaxBlock
  <2>1. holdAge' <= HoldTimeout + h /\ holdAge' \in 0 .. AgeCap
      BY <1>1, <1>3, <1>4, DecideFresh DEF Sensed
  <2> QED
      BY <1>2, <1>3, <2>1, TimeAssumption
<1>7. CountsBelowLimits' /\ healthErrs' \in 0 .. MaxHealthErrs /\ fbErrs' \in 0 .. 3
    BY <1>2 DEF CountsBelowLimits, MaxHealthErrs
<1>8. TorqueEnvelope' /\ cmd' \in Int
    BY <1>2, LimitAssumption DEF TorqueEnvelope, EnergyModes, Abs
<1>9. /\ phaseAge' \in 0 .. AgeCap /\ sinceFeed' \in 0 .. AgeCap
      /\ settleAge' \in {NotSettled} \cup 0 .. AgeCap
    BY <1>1, <1>2, <1>3, TimeAssumption
<1> QED
    BY <1>2, <1>4, <1>5, <1>6, <1>7, <1>8, <1>9, TrialInv

LEMMA TickHandoffFailsInv == IInv /\ TickHandoffFails => IInv'
<1> SUFFICES ASSUME IInv, TickHandoffFails PROVE IInv'
    OBVIOUS
<1>1. PICK d \in Delays, diag \in Diagnoses, link \in Links, h \in HandoffTimes :
         Decide(d, diag, link, h) /\ KeepCounts(d, link) /\ HandoffDue(d)
    BY DEF TickHandoffFails
<1>2. h \in 0 .. MaxBlock /\ TypeOK /\ "good" \in Samples
    BY TimeAssumption DEF IInv, Samples
<1>3. Sensed
    BY <1>1, <1>2, SenseSensed DEF Decide
<1>4. IsActive
    BY <1>1 DEF HandoffDue, IsActive, ActiveModes, SwingModes, PositionModes
<1>5. fbErrs' \in 0 .. 3 /\ healthErrs' \in 0 .. MaxHealthErrs
    BY <1>1, <1>4, CountsTyped DEF KeepCounts
<1>6. "handoff" \in Integrity \cup Motion /\ Trip("handoff")
    BY DEF Integrity, TickHandoffFails
<1> QED
    BY <1>3, <1>5, <1>6, TripInv

LEMMA TickInv == IInv /\ Tick => IInv'
BY TickStoppedInv, TickTripInv, TickCoastInv, TickTuningInv, TickEnergyInv,
   WriteFailsInv, TickCenteringInv, TickSettlingInv, TickHandoffInv,
   TickHandoffFailsInv DEF Tick

-----------------------------------------------------------------------------
(* The console commands *)

\* An age that a blocking command lets run on is still an age.
LEMMA BlockAges ==
    ASSUME TypeOK, NEW t \in Nat
    PROVE  /\ Elapsed(holdAge, t) \in 0 .. AgeCap
           /\ Elapsed(fbAge, t) \in 0 .. AgeCap
           /\ Elapsed(sinceTick, t) \in 0 .. AgeCap
           /\ SampleAged(t) \in 0 .. RecoverTime
<1>1. /\ holdAge \in 0 .. AgeCap /\ fbAge \in 0 .. AgeCap
      /\ sinceTick \in 0 .. AgeCap
    BY DEF TypeOK
<1> QED
    BY <1>1, ElapsedAge, SampleAges

\* The three commands that stop.
LEMMA StopInv == IInv /\ (Disarm \/ TestStop \/ (DeadmanRelease /\ IsActive)) => IInv'
<1> SUFFICES ASSUME IInv, Disarm \/ TestStop \/ (DeadmanRelease /\ IsActive)
             PROVE  IInv'
    OBVIOUS
<1>1. TypeOK /\ StopTime \in Nat
    BY TimeAssumption DEF IInv
<1>2. PICK acknowledge \in BOOLEAN :
         Disarmed(acknowledge) /\ (acknowledge \/ mode # "FAULT")
    BY DEF Disarm, TestStop, DeadmanRelease, IsActive, ActiveModes, SwingModes,
           PositionModes, EnergyModes
<1>3. /\ holdAge' \in {AgeCap, Elapsed(holdAge, StopTime)}
      /\ fbAge' = Elapsed(fbAge, StopTime)
      /\ sinceTick' = Elapsed(sinceTick, StopTime)
      /\ sampleAge' = SampleAged(StopTime)
    BY DEF Disarm, TestStop, DeadmanRelease, Block
<1>4. AgeCap \in 0 .. AgeCap
    BY TimeAssumption
<1>5. /\ holdAge' \in 0 .. AgeCap /\ fbAge' \in 0 .. AgeCap
      /\ sinceTick' \in 0 .. AgeCap /\ sampleAge' \in 0 .. RecoverTime
    BY <1>1, <1>3, <1>4, BlockAges
<1> QED
    BY <1>2, <1>5, DisarmedInv

\* Commands that leave the gate, the counts and the phase as they are.
LEMMA QuietInv ==
    ASSUME IInv, UNCHANGED <<mode, guarded, fault, cmd, fbErrs, healthErrs, phaseVars>>,
           zeroValid' \in BOOLEAN, IsActive => zeroValid' = zeroValid,
           swingLimit' \in UserLimits, pose' = pose, rateKnown' \in BOOLEAN,
           encoderHealthy' = encoderHealthy, odriveOnline' \in BOOLEAN,
           activeErrors' \in {0, 1}, encErrs' = encErrs,
           outliers' \in 0 .. MaxOutliers, misses' = misses,
           holdAge' \in 0 .. AgeCap, fbAge' \in 0 .. AgeCap,
           sinceTick' \in 0 .. AgeCap, sampleAge' \in 0 .. RecoverTime,
           IsActive => holdAge' \in {0, holdAge}
    PROVE  IInv'
<1>1. TypeOK'
    BY DEF IInv, TypeOK, phaseVars
<1>2. IsActive' <=> IsActive
    BY DEF IsActive
<1>3. CountsBelowLimits' /\ TorqueEnvelope' /\ GuardedExactly' /\ FaultExplained'
    BY <1>2 DEF IInv, CountsBelowLimits, TorqueEnvelope, GuardedExactly,
                FaultExplained
<1>4. TrialHasReference'
    BY <1>2 DEF IInv, TrialHasReference
<1>5. DeadmanBehindFeed'
  <2> SUFFICES ASSUME IsActive' PROVE (holdAge <= sinceFeed + HoldTimeout + MaxBlock)'
      BY DEF DeadmanBehindFeed
  <2>1. /\ holdAge <= sinceFeed + HoldTimeout + MaxBlock
        /\ sinceFeed' = sinceFeed /\ sinceFeed \in 0 .. AgeCap
        /\ holdAge' \in {0, holdAge}
      BY <1>2 DEF IInv, DeadmanBehindFeed, TypeOK, phaseVars
  <2> QED
      BY <2>1, TimeAssumption
<1> QED
    BY <1>1, <1>3, <1>4, <1>5 DEF IInv

LEMMA DeadmanInv == IInv /\ (DeadmanHold \/ (DeadmanRelease /\ ~IsActive)) => IInv'
<1> SUFFICES ASSUME IInv, DeadmanHold \/ (DeadmanRelease /\ ~IsActive)
             PROVE  IInv'
    OBVIOUS
<1>1. /\ UNCHANGED <<gateVars, swingLimit, encVars, linkVars, misses, phaseVars,
                     sinceTick, sampleAge>>
      /\ holdAge' \in {0, AgeCap}
      /\ IsActive => holdAge' = 0
    BY DEF DeadmanHold, DeadmanRelease
<1>2. TypeOK /\ 0 \in 0 .. AgeCap /\ AgeCap \in 0 .. AgeCap
    BY TimeAssumption DEF IInv
<1>3. holdAge' \in 0 .. AgeCap
    BY <1>1, <1>2
<1>4. UNCHANGED <<mode, guarded, zeroValid, fault, cmd, swingLimit, pose,
                  rateKnown, encoderHealthy, odriveOnline, activeErrors,
                  encErrs, outliers, fbErrs, healthErrs, misses, fbAge,
                  phaseVars, sinceTick, sampleAge>>
    BY <1>1 DEF gateVars, encVars, linkVars
<1> QED
    BY <1>1, <1>2, <1>3, <1>4, QuietInv DEF TypeOK

LEMMA SettingsInv == IInv /\ (Zero \/ SwingSettings) => IInv'
<1> SUFFICES ASSUME IInv, Zero \/ SwingSettings PROVE IInv'
    OBVIOUS
<1>1. TypeOK /\ ~IsActive
    BY DEF IInv, Zero, SwingSettings, Idle, IsActive, ActiveModes, SwingModes,
           PositionModes, EnergyModes
<1>2. /\ UNCHANGED <<mode, guarded, fault, cmd, fbErrs, healthErrs, phaseVars>>
      /\ UNCHANGED <<pose, encoderHealthy, encErrs, linkVars, misses, holdAge,
                     sinceTick>>
      /\ sampleAge' \in {0, sampleAge}
      /\ zeroValid' \in {TRUE, zeroValid} /\ rateKnown' \in {TRUE, rateKnown}
      /\ outliers' \in {0, outliers} /\ swingLimit' \in UserLimits \cup {swingLimit}
    BY DEF Zero, SwingSettings, gateVars, encVars, linkVars
<1>3. outliers' \in 0 .. MaxOutliers /\ sampleAge' \in 0 .. RecoverTime
    BY <1>1, <1>2, TimeAssumption DEF TypeOK, MaxOutliers
<1> QED
    BY <1>1, <1>2, <1>3, QuietInv DEF linkVars, TypeOK

LEMMA OdriveClearInv == IInv /\ OdriveClear => IInv'
<1> SUFFICES ASSUME IInv, OdriveClear PROVE IInv'
    OBVIOUS
<1>1. TypeOK /\ ~IsActive /\ StopTime \in Nat /\ ClearTime \in Nat
    BY TimeAssumption DEF IInv, OdriveClear
<1>2. PICK t \in {StopTime, ClearTime} : Block(t)
    BY DEF OdriveClear
<1>3. /\ holdAge' \in 0 .. AgeCap /\ fbAge' \in 0 .. AgeCap
      /\ sinceTick' \in 0 .. AgeCap /\ sampleAge' \in 0 .. RecoverTime
    BY <1>1, <1>2, BlockAges DEF Block
<1>4. cmd' = cmd
    BY <1>1 DEF OdriveClear, IInv, TorqueEnvelope, IsActive, ActiveModes,
                SwingModes, TorqueModes
<1>5. odriveOnline' \in BOOLEAN /\ activeErrors' \in {0, 1}
    BY <1>1 DEF OdriveClear, TypeOK
<1> QED
    BY <1>1, <1>3, <1>4, <1>5, QuietInv DEF OdriveClear, TypeOK, encVars

LEMMA TestStartInv == IInv /\ TestStart => IInv'
<1> SUFFICES ASSUME IInv, TestStart PROVE IInv'
    OBVIOUS
<1>1. /\ mode \in Idle /\ mode' = "TEST" /\ cmd' = 0
      /\ UNCHANGED <<guarded, zeroValid, fault, swingLimit, encVars, linkVars,
                     misses, holdAge, phaseVars, sinceTick, sampleAge>>
    BY DEF TestStart
<1>2. /\ mode' \in Modes /\ mode' \notin SwingModes /\ mode' \notin TorqueModes
      /\ mode' \notin PositionModes /\ mode' \notin EnergyModes
      /\ mode' # "TUNING" /\ ~IsActive' /\ mode \notin SwingModes
      /\ mode # "FAULT"
    BY <1>1 DEF Modes, Idle, SwingModes, TorqueModes, PositionModes,
                EnergyModes, IsActive, ActiveModes
<1>3. TypeOK'
    BY <1>1, <1>2 DEF IInv, TypeOK, encVars, linkVars, phaseVars
<1>4. FaultExplained'
    BY <1>1, <1>2 DEF IInv, FaultExplained
<1>5. GuardedExactly'
    BY <1>1, <1>2 DEF IInv, GuardedExactly
<1>6. CountsBelowLimits' /\ TorqueEnvelope'
    BY <1>1, <1>2 DEF IInv, CountsBelowLimits, TorqueEnvelope
<1> QED
    BY <1>2, <1>3, <1>4, <1>5, <1>6
    DEF IInv, TrialHasReference, DeadmanBehindFeed

\* A start arms the drive: the trial has the zero it asked for and no fault, and
\* its dead-man was fresh before the blocking sequence that fed the watchdog.
LEMMA ArmedInv ==
    ASSUME IInv, mode \in Idle, SetupComplete,
           NEW newMode \in {"TUNING", "CENTERING"}, NEW trial \in BOOLEAN,
           NEW t \in ArmTimes, Arming(newMode, trial, t), Armed(newMode, trial),
           ~AutoEnabled => (trial <=> newMode = "CENTERING")
    PROVE  IInv'
<1>1. /\ mode' = newMode /\ guarded' = trial /\ cmd' = 0
      /\ fbErrs' = 0 /\ healthErrs' = 0 /\ fbAge' = 0 /\ phaseAge' = 0
      /\ settleAge' = NotSettled /\ sinceFeed' = 0
      /\ zeroValid' = zeroValid /\ fault' = fault
      /\ activeErrors' = 0 /\ odriveOnline' = TRUE
    BY DEF Armed
<1>2. /\ holdAge' = Elapsed(holdAge, t) /\ sinceTick' = Elapsed(sinceTick, t)
      /\ sampleAge' = SampleAged(t)
      /\ UNCHANGED <<swingLimit, encVars, misses>>
    BY DEF Arming
<1>3. TypeOK /\ t \in 0 .. MaxBlock /\ t \in Nat /\ 0 \in 0 .. AgeCap
    BY TimeAssumption DEF IInv
<1>4. /\ holdAge' \in 0 .. AgeCap /\ sinceTick' \in 0 .. AgeCap
      /\ sampleAge' \in 0 .. RecoverTime
    BY <1>2, <1>3, BlockAges
<1>5. /\ mode' \in Modes
      /\ mode' \in SwingModes <=> newMode = "CENTERING"
      /\ mode' \notin EnergyModes /\ mode' # "FAULT"
    BY <1>1 DEF Modes, ActiveModes, SwingModes, PositionModes, EnergyModes
<1>6. zeroValid' = TRUE /\ fault' = "none"
    BY <1>1 DEF SetupComplete, IInv, FaultExplained, Idle
<1>7. TypeOK'
    BY <1>1, <1>2, <1>3, <1>4, <1>5, <1>6
    DEF TypeOK, encVars, MaxHealthErrs
<1>8. CountsBelowLimits'
    BY <1>1 DEF CountsBelowLimits, MaxHealthErrs
<1>9. TorqueEnvelope'
    BY <1>1, LimitAssumption DEF TorqueEnvelope, EnergyModes, Abs
<1>10. DeadmanBehindFeed'
  <2>1. holdAge \in 0 .. AgeCap /\ holdAge <= HoldTimeout
      BY <1>3 DEF SetupComplete, TypeOK
  <2>2. Elapsed(holdAge, t) <= holdAge + t /\ Elapsed(holdAge, t) \in 0 .. AgeCap
      BY <1>3, <2>1, ElapsedAge
  <2> QED
      BY <1>1, <1>2, <1>3, <2>1, <2>2, TimeAssumption DEF DeadmanBehindFeed
<1> QED
    BY <1>1, <1>5, <1>6, <1>7, <1>8, <1>9, <1>10
    DEF IInv, FaultExplained, TrialHasReference, GuardedExactly

LEMMA ArmRefusedInv ==
    ASSUME IInv, NEW newMode, NEW trial, NEW t \in ArmTimes,
           Arming(newMode, trial, t),
           ArmingFails /\ fbAge' \in {0, Elapsed(fbAge, t)}
    PROVE  IInv'
<1>1. TypeOK /\ t \in Nat /\ 0 \in 0 .. AgeCap
    BY TimeAssumption DEF IInv
<1>2. /\ holdAge' \in 0 .. AgeCap /\ fbAge' \in 0 .. AgeCap
      /\ sinceTick' \in 0 .. AgeCap /\ sampleAge' \in 0 .. RecoverTime
    BY <1>1, BlockAges DEF Arming
<1>3. /\ activeErrors' \in {0, 1}
      /\ UNCHANGED <<odriveOnline, fbErrs, healthErrs, swingLimit, encVars, misses>>
    BY <1>1 DEF ArmingFails, Arming, TypeOK
<1>4. Sensed
    BY <1>1, <1>2, <1>3 DEF Sensed, TypeOK, encVars
<1>5. "arm_refused" \in Integrity \cup Motion /\ Trip("arm_refused")
    BY DEF Motion, ArmingFails
<1>6. fbErrs' \in 0 .. 3 /\ healthErrs' \in 0 .. MaxHealthErrs
    BY <1>1, <1>3 DEF TypeOK
<1> QED
    BY <1>4, <1>5, <1>6, TripInv

LEMMA StartInv == IInv /\ (TuneStart \/ SwingStart \/ Arm) => IInv'
<1> SUFFICES ASSUME IInv, TuneStart \/ SwingStart \/ Arm PROVE IInv'
    OBVIOUS
<1>1. PICK newMode \in {"TUNING", "CENTERING"}, trial \in BOOLEAN, t \in ArmTimes :
         /\ Arming(newMode, trial, t)
         /\ ~AutoEnabled => (trial <=> newMode = "CENTERING")
    BY DEF TuneStart, SwingStart, Arm
<1>2. mode \in Idle /\ SetupComplete
    BY DEF TuneStart, SwingStart, Arm, Idle
<1>3. \/ Armed(newMode, trial)
      \/ ArmingFails /\ fbAge' \in {0, Elapsed(fbAge, t)}
    BY <1>1 DEF Arming
<1> QED
    BY <1>1, <1>2, <1>3, ArmedInv, ArmRefusedInv

LEMMA ConsoleInv == IInv /\ Console => IInv'
BY StopInv, DeadmanInv, SettingsInv, OdriveClearInv, TestStartInv, StartInv
   DEF Console

LEMMA StutterInv == IInv /\ UNCHANGED vars => IInv'
BY DEF IInv, TypeOK, CountsBelowLimits, TorqueEnvelope, FaultExplained,
       TrialHasReference, GuardedExactly, DeadmanBehindFeed, IsActive, vars

-----------------------------------------------------------------------------
(* The theorems *)

LEMMA NextInv == IInv /\ [Next]_vars => IInv'
BY TickInv, ConsoleInv, StutterInv DEF Next

LEMMA Inductive == Spec => []IInv
<1>1. Init => IInv
    BY InitInv
<1>2. IInv /\ [Next]_vars => IInv'
    BY NextInv
<1> QED
    BY <1>1, <1>2, PTL DEF Spec

\* The controller's variables keep their types and its error counts their
\* limits, for any mechanism, control law, failures and delays.
THEOREM TypeCorrect == Spec => []TypeOK
<1>1. IInv => TypeOK
    BY DEF IInv
<1> QED
    BY <1>1, Inductive, PTL

\* No control law, however it computes, makes runControlTick() command a torque
\* outside the clamp of the mode it commands in.
THEOREM TorqueSafe == Spec => []TorqueEnvelope
<1>1. IInv => TorqueEnvelope
    BY DEF IInv
<1> QED
    BY <1>1, Inductive, PTL

\* Whatever costs the zero also ends the trial: no trial goes on without one.
THEOREM ReferenceHeld == Spec => []TrialHasReference
<1>1. IInv => TrialHasReference
    BY DEF IInv
<1> QED
    BY <1>1, Inductive, PTL

\* While automatic swing-up is locked, guarded_swing_trial marks exactly the
\* swing modes, so that its clamp and time limit reach all of them.
THEOREM GuardComplete == Spec => []GuardedExactly
<1>1. IInv => GuardedExactly
    BY DEF IInv
<1> QED
    BY <1>1, Inductive, PTL

\* However many ticks a trial skips, the drive's own watchdog runs out before
\* the dead-man can be older than the three times together.
THEOREM BackstopHolds == Spec => []WatchdogBackstop
<1>1. IInv => WatchdogBackstop
  <2> SUFFICES ASSUME IInv, IsActive, sinceFeed <= WatchdogTime
               PROVE  holdAge <= HoldTimeout + MaxBlock + WatchdogTime
      BY DEF WatchdogBackstop
  <2>1. /\ holdAge <= sinceFeed + HoldTimeout + MaxBlock
        /\ sinceFeed \in 0 .. AgeCap /\ holdAge \in 0 .. AgeCap
      BY DEF IInv, DeadmanBehindFeed, TypeOK
  <2> QED
      BY <2>1, TimeAssumption
<1> QED
    BY <1>1, Inductive, PTL

-----------------------------------------------------------------------------
(* How far a command moves *)

\* The slew limit moves a command by no more than it allows.
LEMMA SlewStep ==
    ASSUME NEW previous \in Int, NEW requested \in Int, NEW change \in Nat
    PROVE  SlewLimit(previous, requested, change) - previous \in -change .. change
BY DEF SlewLimit, Clamp

\* A bound on the size of a torque or of a step is an interval, and a wider
\* bound a wider one.
LEMMA BoundIsInterval ==
    ASSUME NEW x \in Int, NEW limit \in Nat, Abs(x) <= limit
    PROVE  x \in -limit .. limit
BY DEF Abs

LEMMA WiderInterval ==
    ASSUME NEW most \in Nat, NEW change \in 0 .. most, NEW x \in -change .. change
    PROVE  x \in -most .. most
OBVIOUS

\* From outside a clamp it moves a command towards it or not at all.
LEMMA SlewTowards ==
    ASSUME NEW previous \in Int, NEW requested \in Int, NEW change \in Nat,
           NEW limit \in Nat, Abs(requested) <= limit,
           Abs(SlewLimit(previous, requested, change)) > limit,
           SlewLimit(previous, requested, change) # previous
    PROVE  Abs(SlewLimit(previous, requested, change)) < Abs(previous)
BY DEF SlewLimit, Clamp, Abs

\* The change one tick may make is the largest of any mode, times the longest
\* elapsed time that is credited.
LEMMA SlewCredit ==
    ASSUME NEW slew \in 0 .. SwingSlew, NEW ticks \in 0 .. MaxSlewTicks
    PROVE  slew * ticks \in 0 .. (SwingSlew * MaxSlewTicks)
<1>1. SwingSlew \in Nat /\ MaxSlewTicks \in Nat
    BY LimitAssumption
<1>2. slew \in Nat /\ ticks \in Nat /\ slew <= SwingSlew /\ ticks <= MaxSlewTicks
    BY <1>1
<1>3. slew * ticks \in Nat /\ SwingSlew * ticks \in Nat
      /\ SwingSlew * MaxSlewTicks \in Nat
    BY <1>1, <1>2
<1>4. slew * ticks <= SwingSlew * ticks
    BY <1>1, <1>2
<1>5. SwingSlew * ticks <= SwingSlew * MaxSlewTicks
    BY <1>1, <1>2
<1> QED
    BY <1>3, <1>4, <1>5

\* What the swing and balance laws ask for is inside the clamp of the mode the
\* tick commands in.
LEMMA BalanceDemand ==
    ASSUME NEW want \in Int, swingLimit \in Nat
    PROVE  /\ EnergyTorque(want, "BALANCE") \in Int
           /\ Abs(EnergyTorque(want, "BALANCE")) <= BalanceLimit
<1>1. BalanceLimit \in Nat /\ GuardedLimit \in Nat
    BY LimitAssumption
<1>2. PICK kept \in Int : EnergyTorque(want, "BALANCE") = Within(kept, BalanceLimit)
  <2>1. (IF guarded THEN Within(want, GuardedLimit) ELSE want) \in Int
      BY <1>1, WithinBound
  <2> QED
      BY <2>1 DEF EnergyTorque
<1> QED
    BY <1>1, <1>2, WithinBound

-----------------------------------------------------------------------------
(* The ticks that command, and the others *)

\* A tick that commands: it has decided, in a torque mode, and moves the command
\* towards a demand inside the swing limit.
Commands ==
    \E d \in Delays, diag \in Diagnoses, link \in Links, want \in Demands :
       /\ Decide(d, diag, link, 0) /\ mode \in TorqueModes
       /\ \/ TickTuning /\ Command(Within(want, TuningLimit), Slew, d)
          \/ /\ TickEnergy
             /\ Command(EnergyTorque(want, mode'),
                        IF mode' = "SWING_UP" THEN SwingSlew ELSE Slew, d)

LEMMA CommandingTicks == TickTuning \/ TickEnergy => Commands
BY DEF TickTuning, TickEnergy, TorqueModes, Commands

\* Only a commanding tick changes the command to anything but zero.
LEMMA OnlyCommandsMove ==
    ASSUME IInv, [Next]_vars, cmd' # cmd, cmd' # 0
    PROVE  Commands
<1>1. CASE Tick
  <2>1. TickTuning \/ TickEnergy
      BY <1>1 DEF Tick, TickStopped, TickTrip, TickCoast, TickWriteFails,
                  TickFeedFails, TickCentering, TickSettling, TickHandoff,
                  TickHandoffFails, Trip, gateVars
  <2> QED
      BY <2>1, CommandingTicks
<1>2. CASE Console
    BY <1>2 DEF Console, Disarm, Disarmed, DeadmanHold, DeadmanRelease,
                TestStart, TestStop, Zero, SwingSettings, OdriveClear,
                TuneStart, SwingStart, Arm, Arming, Armed, ArmingFails, Trip,
                gateVars
<1>3. CASE UNCHANGED vars
    BY <1>3 DEF vars
<1> QED
    BY <1>1, <1>2, <1>3 DEF Next

\* The change a commanding tick may make.
LEMMA CommandChange ==
    ASSUME IInv, NEW d \in Delays, NEW slew \in {Slew, SwingSlew}
    PROVE  /\ slew * SlewTicks(d) \in Nat
           /\ slew * SlewTicks(d) \in 0 .. (SwingSlew * MaxSlewTicks)
<1>1. sinceTick \in Nat /\ d \in Nat
    BY TimeAssumption DEF IInv, TypeOK
<1>2. SlewTicks(d) \in 0 .. MaxSlewTicks /\ slew \in 0 .. SwingSlew
    BY <1>1, LimitAssumption DEF SlewTicks, Least
<1>3. slew * SlewTicks(d) \in 0 .. (SwingSlew * MaxSlewTicks)
    BY <1>2, SlewCredit
<1> QED
    BY <1>2, <1>3, LimitAssumption

-----------------------------------------------------------------------------
(* BalanceComesDown *)

LEMMA BalanceStep ==
    ASSUME IInv, [Next]_vars,
           mode' = "BALANCE", Abs(cmd') > BalanceLimit, cmd' # cmd
    PROVE  Abs(cmd') < Abs(cmd)
<1>1. cmd' # 0
    BY LimitAssumption DEF Abs
<1>2. PICK d \in Delays, want \in Demands :
         Command(EnergyTorque(want, mode'), Slew, d)
    BY <1>1, OnlyCommandsMove DEF Commands, TickTuning
<1>3. /\ EnergyTorque(want, "BALANCE") \in Int
      /\ Abs(EnergyTorque(want, "BALANCE")) <= BalanceLimit
    BY BalanceDemand, PoseAssumption, LimitAssumption DEF IInv, TypeOK
<1>4. /\ cmd' = SlewLimit(cmd, EnergyTorque(want, "BALANCE"), Slew * SlewTicks(d))
      /\ Slew * SlewTicks(d) \in Nat
    BY <1>2, CommandChange DEF Command
<1>5. cmd \in Int /\ BalanceLimit \in Nat
    BY LimitAssumption DEF IInv, TypeOK
<1> QED
    BY <1>3, <1>4, <1>5, SlewTowards

\* A command that a catch left above the balance clamp only ever comes down,
\* whatever the balance law wants and however late the tick is.
THEOREM BalanceDescends == Spec => BalanceComesDown
<1>1. IInv /\ [Next]_vars
        => [mode' = "BALANCE" /\ Abs(cmd') > BalanceLimit /\ cmd' # cmd
              => Abs(cmd') < Abs(cmd)]_vars
    BY BalanceStep
<1> QED
    BY <1>1, Inductive, PTL DEF Spec, BalanceComesDown

-----------------------------------------------------------------------------
(* FreshCommands *)

\* What a tick that decides in a torque mode has found.
LEMMA DecidedFresh ==
    ASSUME IInv, NEW d \in Delays, NEW diag \in Diagnoses, NEW link \in Links,
           Decide(d, diag, link, 0), mode \in TorqueModes
    PROVE  /\ holdAge' <= HoldTimeout /\ fbAge' <= FbTimeout
           /\ encoderHealthy' /\ encErrs' = 0 /\ outliers' = 0
           /\ odriveOnline' /\ activeErrors' = 0
           /\ misses' < MaxMisses
<1>1. /\ link # "feedback_lost" /\ Sense(d, diag, link, "good", 0)
      /\ Cause(d, link, "good") = "none"
    BY DEF Decide
<1>2. StateCause(d, link) = "none" /\ ~(misses' >= MaxMisses)
    BY <1>1 DEF Cause, Usable
<1>3. /\ ~(Elapsed(holdAge, d) > HoldTimeout)
      /\ encoderHealthy' /\ odriveOnline' /\ ~(activeErrors' # 0)
      /\ ~(FbAgeAfter(d, link) > FbLimit)
    BY <1>2 DEF StateCause
<1>4. FbLimit = FbTimeout
    BY DEF FbLimit, PositionManaged, PositionModes, TorqueModes, EnergyModes
<1>5. encErrs' = 0 /\ outliers' = 0
    BY <1>1 DEF Sense, SampleEncoder
<1>6. /\ TypeOK /\ d \in Nat /\ AgeCap \in Nat /\ HoldTimeout \in Nat
      /\ FbTimeout \in Nat /\ holdAge \in 0 .. AgeCap /\ fbAge \in 0 .. AgeCap
    BY TimeAssumption DEF IInv, TypeOK
<1>7. holdAge' <= HoldTimeout
    BY <1>1, <1>3, <1>6 DEF Sense, Elapsed
<1>8. fbAge' <= FbTimeout
    BY <1>1, <1>3, <1>4, <1>6 DEF Sense, FbAgeAfter, Elapsed
<1>9. misses' \in Nat /\ MaxMisses \in Nat
    BY <1>1, <1>6 DEF Sense, MissesAfter, Count, TypeOK, MaxMisses
<1> QED
    BY <1>2, <1>3, <1>5, <1>7, <1>8, <1>9

LEMMA FreshStep ==
    ASSUME IInv, [Next]_vars, cmd' # cmd, cmd' # 0
    PROVE  /\ holdAge' <= HoldTimeout /\ fbAge' <= FbTimeout
           /\ encoderHealthy' /\ encErrs' = 0 /\ outliers' = 0
           /\ odriveOnline' /\ activeErrors' = 0
           /\ misses' < MaxMisses
<1>1. PICK d \in Delays, diag \in Diagnoses, link \in Links :
         Decide(d, diag, link, 0) /\ mode \in TorqueModes
    BY OnlyCommandsMove DEF Commands
<1> QED
    BY <1>1, DecidedFresh

\* No tick moves the command on an old dead-man, an old or missing reply, a
\* failed or doubtful sample, a drive in error or a second late start.
THEOREM CommandsFresh == Spec => FreshCommands
<1>1. IInv /\ [Next]_vars
        => [cmd' # cmd /\ cmd' # 0 =>
              /\ holdAge' <= HoldTimeout /\ fbAge' <= FbTimeout
              /\ encoderHealthy' /\ encErrs' = 0 /\ outliers' = 0
              /\ odriveOnline' /\ activeErrors' = 0
              /\ misses' < MaxMisses]_vars
    BY FreshStep
<1> QED
    BY <1>1, Inductive, PTL DEF Spec, FreshCommands

-----------------------------------------------------------------------------
(* ZeroLostOnEvidence *)

\* What the zero may be given up for, as it stands after the step.
ZeroEvidence ==
    \/ ~encoderHealthy' \/ encErrs' >= MaxEncErrs
    \/ ~odriveOnline' \/ fbAge' > FbTimeout \/ activeErrors' # 0
    \/ fault' \in {"handoff", "feed", "torque_write"}

\* A tick that names one of its own integrity causes has seen it.
LEMMA CauseEvidence ==
    ASSUME IInv, NEW d \in Delays, NEW diag \in Diagnoses, NEW link \in Links,
           NEW smp \in Samples, Sense(d, diag, link, smp, 0),
           Cause(d, link, smp) \in Integrity
    PROVE  ZeroEvidence
<1>1. CASE FeedbackGone(d, link)
  <2>1. link = "feedback_lost" /\ PollDrive(d, link)
      BY <1>1 DEF FeedbackGone, Sense
  <2>2. ~odriveOnline'
      BY <1>1, <2>1 DEF PollDrive
  <2> QED
      BY <2>2 DEF ZeroEvidence
<1>2. CASE ~FeedbackGone(d, link)
  <2>1. CASE smp = "spi" /\ encErrs' >= MaxEncErrs
      BY <2>1 DEF ZeroEvidence
  <2>2. CASE ~(smp = "spi" /\ encErrs' >= MaxEncErrs)
    <3>1. StateCause(d, link) \in Integrity
        BY <1>2, <2>2 DEF Cause, Integrity
    <3>2. \/ ~encoderHealthy' \/ encErrs' >= MaxEncErrs \/ ~odriveOnline'
          \/ FbAgeAfter(d, link) > FbLimit \/ activeErrors' # 0
        BY <3>1 DEF StateCause, PhaseCause, Integrity
    <3>3. FbAgeAfter(d, link) > FbLimit => fbAge' > FbTimeout
      <4>1. /\ fbAge \in 0 .. AgeCap /\ d \in Nat /\ AgeCap \in Nat
            /\ FbTimeout \in Nat /\ PosFbTimeout \in Nat
            /\ FbTimeout <= PosFbTimeout
          BY TimeAssumption DEF IInv, TypeOK
      <4>2. fbAge' = Elapsed(FbAgeAfter(d, link), 0)
          BY DEF Sense
      <4> QED
          BY <4>1, <4>2 DEF FbAgeAfter, FbLimit, Elapsed
    <3> QED
        BY <3>2, <3>3 DEF ZeroEvidence
  <2> QED
      BY <2>1, <2>2
<1> QED
    BY <1>1, <1>2

\* Only a fault with an integrity cause gives the zero up.
LEMMA TripLosesZero ==
    ASSUME NEW reason, Trip(reason), zeroValid, ~zeroValid'
    PROVE  reason \in Integrity /\ fault' = reason
BY DEF Trip

LEMMA ZeroStep ==
    ASSUME IInv, [Next]_vars, zeroValid, ~zeroValid'
    PROVE  ZeroEvidence
<1>1. CASE TickTrip
  <2>1. PICK d \in Delays, diag \in Diagnoses, link \in Links, smp \in Samples :
           Sense(d, diag, link, smp, 0) /\ Trip(Cause(d, link, smp))
      BY <1>1 DEF TickTrip
  <2>2. Cause(d, link, smp) \in Integrity
      BY <2>1, TripLosesZero
  <2> QED
      BY <2>1, <2>2, CauseEvidence
<1>2. CASE TickWriteFails \/ TickFeedFails \/ TickHandoffFails
  <2>1. PICK reason \in {"torque_write", "feed", "handoff"} : Trip(reason)
      BY <1>2 DEF TickWriteFails, TickFeedFails, TickHandoffFails
  <2> QED
      BY <2>1, TripLosesZero DEF ZeroEvidence
<1>3. CASE \/ TickStopped \/ TickCoast \/ TickTuning \/ TickEnergy
           \/ TickCentering \/ TickSettling \/ TickHandoff
    BY <1>3 DEF TickStopped, TickCoast, TickTuning, TickEnergy, Command,
                TickCentering, TickSettling, TickHandoff, gateVars
<1>4. CASE TuneStart \/ SwingStart \/ Arm
  <2>1. ArmingFails
      BY <1>4 DEF TuneStart, SwingStart, Arm, Arming, Armed
  <2>2. Trip("arm_refused") /\ "arm_refused" \notin Integrity
      BY <2>1 DEF ArmingFails, Integrity
  <2> QED
      BY <2>2, TripLosesZero
<1>5. CASE \/ Disarm \/ DeadmanHold \/ DeadmanRelease \/ TestStart \/ TestStop
           \/ Zero \/ SwingSettings \/ OdriveClear
    BY <1>5 DEF Disarm, Disarmed, DeadmanHold, DeadmanRelease, TestStart,
                TestStop, Zero, SwingSettings, OdriveClear, gateVars
<1>6. CASE UNCHANGED vars
    BY <1>6 DEF vars
<1> QED
    BY <1>1, <1>2, <1>3, <1>4, <1>5, <1>6 DEF Next, Tick, Console

\* The zero is given up only on evidence: a stop on purpose and a motion, timing
\* or dead-man fault keep it.
THEOREM ZeroKept == Spec => ZeroLostOnEvidence
<1>1. IInv /\ [Next]_vars
        => [zeroValid /\ ~zeroValid' =>
              \/ ~encoderHealthy' \/ encErrs' >= MaxEncErrs
              \/ ~odriveOnline' \/ fbAge' > FbTimeout \/ activeErrors' # 0
              \/ fault' \in {"handoff", "feed", "torque_write"}]_vars
    BY ZeroStep DEF ZeroEvidence
<1> QED
    BY <1>1, Inductive, PTL DEF Spec, ZeroLostOnEvidence

-----------------------------------------------------------------------------
(* The refinement of MotorGate *)

\* What each mode maps to.
LEMMA GateValues ==
    ASSUME NEW m
    PROVE  /\ m \in Idle => GateOf(m) = "off"
           /\ m \in PositionModes => GateOf(m) = "prepare"
           /\ m \in TorqueModes => GateOf(m) = "drive"
           /\ m = "FAULT" => GateOf(m) = "fault"
<1>1. CASE m \in Idle
  <2>1. m \notin PositionModes /\ m \notin TorqueModes /\ m # "FAULT"
      BY <1>1 DEF Idle, PositionModes, TorqueModes, EnergyModes
  <2> QED
      BY <1>1, <2>1, Zenon DEF GateOf
<1>2. CASE m \in PositionModes
  <2>1. m \notin Idle /\ m \notin TorqueModes /\ m # "FAULT"
      BY <1>2 DEF Idle, PositionModes, TorqueModes, EnergyModes
  <2> QED
      BY <1>2, <2>1, Zenon DEF GateOf
<1>3. CASE m \in TorqueModes
  <2>1. m \notin Idle /\ m \notin PositionModes /\ m # "FAULT"
      BY <1>3 DEF Idle, PositionModes, TorqueModes, EnergyModes
  <2> QED
      BY <1>3, <2>1, Zenon DEF GateOf
<1>4. CASE m \notin Idle /\ m \notin PositionModes /\ m \notin TorqueModes
    BY <1>4, Zenon DEF GateOf
<1> QED
    BY <1>1, <1>2, <1>3, <1>4

\* The gate before and after a step, by the mode.
LEMMA GateStates ==
    /\ mode \in Idle => GateState = "off"
    /\ mode \in PositionModes => GateState = "prepare"
    /\ mode \in TorqueModes => GateState = "drive"
    /\ mode' \in Idle => GateState' = "off"
    /\ mode' \in PositionModes => GateState' = "prepare"
    /\ mode' \in TorqueModes => GateState' = "drive"
    /\ mode' = "FAULT" => GateState' = "fault"
    /\ mode' = mode => GateState' = GateState
BY GateValues DEF GateState

LEMMA GateInit == Init => Gate!Init
BY GateStates DEF Init, Gate!Init, Idle

\* A fault, from any mode but FAULT, is the gate's.
LEMMA GateTrip ==
    ASSUME IInv, mode # "FAULT", NEW reason, Trip(reason)
    PROVE  Gate!Trip
<1>1. /\ mode' = "FAULT" /\ cmd' = 0
      /\ zeroValid' = (zeroValid /\ reason \notin Integrity)
    BY DEF Trip
<1>2. GateState # "fault"
    BY GateStates DEF IInv, TypeOK, Modes, ActiveModes, SwingModes, TorqueModes
<1>3. GateState' = "fault"
    BY <1>1, GateStates
<1>4. zeroValid' \in {zeroValid, FALSE}
    BY <1>1 DEF IInv, TypeOK
<1> QED
    BY <1>1, <1>2, <1>3, <1>4 DEF Gate!Trip

\* A stop on purpose, acknowledged or not.
LEMMA GateStop ==
    ASSUME NEW acknowledge, Disarmed(acknowledge)
    PROVE  Gate!Stop
BY GateStates DEF Disarmed, Gate!Stop, Idle

\* A mode that commands no torque has none standing: setting it to zero again
\* leaves the gate as it is.
LEMMA GateStill ==
    ASSUME IInv, mode \notin TorqueModes, cmd' = 0, GateState' = GateState,
           zeroValid' = zeroValid
    PROVE  UNCHANGED Gate!vars
BY DEF IInv, TorqueEnvelope, Gate!vars

\* A commanding tick is one bounded step of the driven gate.
LEMMA GateDrive ==
    ASSUME IInv, IInv', Commands
    PROVE  Gate!Drive
<1>1. PICK d \in Delays, want \in Demands, wanted \in Int, slew \in {Slew, SwingSlew} :
         /\ mode \in TorqueModes /\ mode' \in TorqueModes
         /\ Command(wanted, slew, d)
  <2>1. PICK d \in Delays, want \in Demands :
           /\ mode \in TorqueModes
           /\ \/ TickTuning /\ Command(Within(want, TuningLimit), Slew, d)
              \/ /\ TickEnergy
                 /\ Command(EnergyTorque(want, mode'),
                            IF mode' = "SWING_UP" THEN SwingSlew ELSE Slew, d)
      BY DEF Commands
  <2>2. want \in Int
      BY PoseAssumption
  <2>3. CASE TickTuning /\ Command(Within(want, TuningLimit), Slew, d)
    <3>1. mode' = "TUNING" /\ Within(want, TuningLimit) \in Int
        BY <2>2, <2>3, WithinBound, LimitAssumption DEF TickTuning
    <3> QED
        BY <2>1, <2>3, <3>1 DEF TorqueModes
  <2>4. CASE /\ TickEnergy
             /\ Command(EnergyTorque(want, mode'),
                        IF mode' = "SWING_UP" THEN SwingSlew ELSE Slew, d)
    <3>1. mode' \in EnergyModes
        BY <2>4 DEF TickEnergy, EnergyMode, EnergyModes
    <3>2. EnergyTorque(want, mode') \in Int
        BY <2>2, <3>1, EnergyTorqueBound, LimitAssumption DEF IInv, TypeOK
    <3> QED
        BY <2>1, <2>4, <3>1, <3>2 DEF TorqueModes
  <2> QED
      BY <2>1, <2>3, <2>4
<1>2. /\ cmd \in Int /\ cmd' \in Int /\ SwingLimit \in Nat
      /\ TuningLimit <= SwingLimit /\ TuningLimit \in Nat
    BY LimitAssumption DEF IInv, TypeOK
<1>3. Abs(cmd') <= SwingLimit
  <2>1. CASE mode' \in EnergyModes
      BY <2>1 DEF IInv, TorqueEnvelope
  <2>2. CASE mode' = "TUNING"
    <3>1. Abs(cmd') <= TuningLimit
        BY <2>2 DEF IInv, TorqueEnvelope
    <3>2. Abs(cmd') \in Int
        BY <1>2 DEF Abs
    <3> QED
        BY <1>2, <3>1, <3>2
  <2> QED
      BY <1>1, <2>1, <2>2 DEF TorqueModes
<1>4. cmd' \in -SwingLimit .. SwingLimit
    BY <1>2, <1>3, BoundIsInterval
<1>5. cmd' - cmd \in -(SwingSlew * MaxSlewTicks) .. (SwingSlew * MaxSlewTicks)
  <2> DEFINE change == slew * SlewTicks(d)
             most == SwingSlew * MaxSlewTicks
  <2>1. change \in Nat /\ change \in 0 .. most /\ most \in Nat
      BY CommandChange, LimitAssumption
  <2>2. cmd' = SlewLimit(cmd, wanted, change)
      BY <1>1 DEF Command
  <2> HIDE DEF change, most
  <2>3. cmd' - cmd \in -change .. change
      BY <1>2, <2>1, <2>2, SlewStep
  <2>4. cmd' - cmd \in -most .. most
      BY <2>1, <2>3, WiderInterval
  <2> QED
      BY <2>4 DEF most
<1>6. GateState = "drive" /\ GateState' = "drive"
    BY <1>1, GateStates
<1>7. zeroValid' = zeroValid
    BY <1>1 DEF Command
<1> QED
    BY <1>4, <1>5, <1>6, <1>7 DEF Gate!Drive, Gate!Torques

LEMMA GateTick ==
    ASSUME IInv, IInv', Tick
    PROVE  Gate!Next \/ UNCHANGED Gate!vars
<1>1. CASE TickTuning \/ TickEnergy
    BY <1>1, CommandingTicks, GateDrive DEF Gate!Next
<1>2. CASE TickStopped \/ TickCoast
    BY <1>2, GateStates DEF TickStopped, TickCoast, gateVars, Gate!vars
<1>3. CASE TickTrip \/ TickWriteFails \/ TickFeedFails \/ TickHandoffFails
  <2>1. PICK reason : Trip(reason)
      BY <1>3 DEF TickTrip, TickWriteFails, TickFeedFails, TickHandoffFails
  <2>2. mode # "FAULT"
      BY <1>3 DEF TickTrip, TickWriteFails, TickFeedFails, TickHandoffFails,
                  HandoffDue, IsActive, ActiveModes, SwingModes, PositionModes,
                  EnergyModes, TorqueModes, PositionManaged
  <2> QED
      BY <2>1, <2>2, GateTrip DEF Gate!Next
<1>4. CASE TickCentering \/ TickSettling
  <2>1. /\ mode \in PositionModes /\ mode' \in PositionModes
        /\ cmd' = 0 /\ zeroValid' = zeroValid
      BY <1>4 DEF TickCentering, TickSettling, PositionModes
  <2>2. /\ mode \notin TorqueModes
        /\ GateState = "prepare" /\ GateState' = "prepare"
      BY <2>1, GateStates DEF PositionModes, TorqueModes, EnergyModes
  <2> QED
      BY <2>1, <2>2, GateStill
<1>5. CASE TickHandoff
  <2>1. /\ mode = "SETTLING" /\ mode' = "SWING_UP"
        /\ cmd' = 0 /\ zeroValid' = zeroValid
      BY <1>5 DEF TickHandoff, HandoffDue
  <2>2. GateState = "prepare" /\ GateState' = "drive"
      BY <2>1, GateStates DEF PositionModes, TorqueModes, EnergyModes
  <2> QED
      BY <2>1, <2>2 DEF Gate!HandOver, Gate!Next
<1> QED
    BY <1>1, <1>2, <1>3, <1>4, <1>5 DEF Tick

LEMMA GateConsole ==
    ASSUME IInv, IInv', Console
    PROVE  Gate!Next \/ UNCHANGED Gate!vars
<1>1. CASE Disarm \/ TestStop \/ (DeadmanRelease /\ IsActive)
  <2>1. PICK acknowledge : Disarmed(acknowledge)
      BY <1>1 DEF Disarm, TestStop, DeadmanRelease
  <2> QED
      BY <2>1, GateStop DEF Gate!Next
<1>2. CASE DeadmanHold \/ (DeadmanRelease /\ ~IsActive) \/ SwingSettings
    BY <1>2, GateStates DEF DeadmanHold, DeadmanRelease, SwingSettings, gateVars,
                            Gate!vars
<1>3. CASE TestStart
  <2>1. /\ mode \in Idle /\ mode' \in Idle /\ cmd' = 0 /\ zeroValid' = zeroValid
      BY <1>3 DEF TestStart, Idle
  <2>2. mode \notin TorqueModes /\ GateState' = GateState
      BY <2>1, GateStates DEF Idle, TorqueModes, EnergyModes
  <2> QED
      BY <2>1, <2>2, GateStill
<1>4. CASE Zero
    BY <1>4, GateStates DEF Zero, Gate!Save, Gate!Next
<1>5. CASE OdriveClear
  <2>1. mode \notin TorqueModes
      BY <1>5 DEF OdriveClear, IsActive, ActiveModes, SwingModes, TorqueModes
  <2>2. cmd' = 0 /\ zeroValid' = zeroValid /\ GateState' = GateState
      BY <1>5, GateStates DEF OdriveClear
  <2> QED
      BY <2>1, <2>2, GateStill
<1>6. CASE TuneStart \/ SwingStart \/ Arm
  <2>1. PICK newMode \in {"TUNING", "CENTERING"}, trial \in BOOLEAN :
           Armed(newMode, trial) \/ ArmingFails
      BY <1>6 DEF TuneStart, SwingStart, Arm, Arming
  <2>2. mode \in Idle /\ zeroValid
      BY <1>6 DEF TuneStart, SwingStart, Arm, SetupComplete, Idle
  <2>3. CASE ArmingFails
    <3>1. mode # "FAULT" /\ Trip("arm_refused")
        BY <2>2, <2>3 DEF ArmingFails, Idle
    <3> QED
        BY <3>1, GateTrip DEF Gate!Next
  <2>4. CASE Armed(newMode, trial)
    <3>1. mode' = newMode /\ cmd' = 0 /\ zeroValid' = zeroValid
        BY <2>4 DEF Armed
    <3>2. GateState = "off" /\ GateState' \in {"prepare", "drive"}
        BY <2>2, <3>1, GateStates DEF PositionModes, TorqueModes
    <3> QED
        BY <2>2, <3>1, <3>2 DEF Gate!Start, Gate!Next
  <2> QED
      BY <2>1, <2>3, <2>4
<1> QED
    BY <1>1, <1>2, <1>3, <1>4, <1>5, <1>6 DEF Console

LEMMA GateStep ==
    ASSUME IInv, IInv', [Next]_vars
    PROVE  [Gate!Next]_(Gate!vars)
<1>1. CASE UNCHANGED vars
    BY <1>1, GateStates DEF vars, Gate!vars
<1> QED
    BY <1>1, GateTick, GateConsole DEF Next

\* The controller implements the gate: torque only out of a verified start or a
\* hand-over at zero, a bounded change per tick inside the swing limit, every
\* fault latched until it is acknowledged, and a saved zero that a trial needs,
\* that only a stopped controller can grant and only a fault can take.
THEOREM GateKept == Spec => KeepsGate
<1>1. Init => Gate!Init
    BY GateInit
<1>2. IInv /\ IInv' /\ [Next]_vars => [Gate!Next]_(Gate!vars)
    BY GateStep
<1> QED
    BY <1>1, <1>2, Inductive, PTL DEF Spec, KeepsGate, Gate!Spec
=============================================================================
