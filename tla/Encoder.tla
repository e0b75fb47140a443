------------------------------- MODULE Encoder -------------------------------
(***************************************************************************)
(* The AS5048A driver and the estimator of the UART controller: register     *)
(* reads frame by frame with the sensor's sticky error flag, the diagnostics *)
(* read, and sampleEncoder() with its plausibility test against the last     *)
(* accepted sample, under the control tick and the zero command.             *)
(*                                                                           *)
(* The encoder is a ring of Turn counts and time is counted in control       *)
(* ticks.  Positions are counted from the saved zero.  The line may corrupt  *)
(* a frame so that its parity shows it (noise), or deliver another count     *)
(* with good parity (twists); how often it may is bounded.                   *)
(***************************************************************************)
EXTENDS Integers, FiniteSets

CONSTANTS
    Turn,          \* counts of a revolution
    Allowed,       \* Allowed[d]: hundredths of a count a tick, d counts from down
    RecoverTicks,  \* ticks in which the least of them covers half a turn
    DiagPeriod,    \* ticks from one diagnostics read to the next
    MaxNoise,      \* frames corrupted so that parity shows it
    MaxTwists      \* counts replaced unnoticed

ASSUME EncoderAssumption ==
    /\ Turn \in Nat \ {0} /\ RecoverTicks \in Nat \ {0}
    /\ Allowed \in [0 .. Turn \div 2 -> Nat]
    /\ \A d \in 0 .. Turn \div 2 : Allowed[d] * RecoverTicks >= 100 * (Turn \div 2)
    /\ DiagPeriod \in Nat \ {0} /\ MaxNoise \in Nat /\ MaxTwists \in Nat

VARIABLES
    pend,          \* where the pendulum is
    last,          \* last_pendulum_angle, as pendulum_count
    elapsed,       \* ticks since last_valid_encoder_sample_us
    rateKnown,     \* pendulum_rate_initialized
    outliers,      \* consecutive_pendulum_step_outliers
    encoderErrors, \* consecutive_encoder_errors
    overspeed,     \* raw_pendulum_overspeed
    healthy,       \* encoder_healthy
    sinceDiag,     \* ticks since last_diagnostics_ms
    errorFlag,     \* the sensor's error flag
    failedReads,   \* parity_errors_ + protocol_errors_
    noise, twists, \* what the line has done so far
    trial,         \* "off", "started" or steering: on the saved zero or "astray"
    poseCurrent,   \* state was measured from the saved zero
    sound          \* history: the accepted count was true, and not old at a zero

busVars == <<errorFlag, failedReads, noise, twists>>
estimatorVars == <<last, elapsed, rateKnown, outliers, encoderErrors, overspeed,
                   healthy, sinceDiag>>
poseVars == <<poseCurrent, sound>>
encoderVars == <<pend, busVars, estimatorVars, trial, poseVars>>

MaxErrors == 3      \* kMaximumConsecutiveEncoderErrors
MaxOutlierRun == 2  \* kMaximumConsecutivePendulumStepOutliers
Capped(n, bound) == IF n < bound THEN n ELSE bound

-----------------------------------------------------------------------------
(* The driver *)

Frames == {"command", "nop", "response", "clear", "clearNop"}

\* A faulty variant: a flagged response is not followed by clearError().
TransactionUncleared(flag, bad) ==
    LET flagged == flag \/ "command" \in bad
    IN  [ok |-> ~flagged /\ "response" \notin bad,
         flag |-> flagged \/ "nop" \in bad]

\* readRegister() with a set of corrupted frames.  The answer to a command comes
\* with the next frame.  The sensor raises its flag on a bad frame it receives
\* and keeps it until it is cleared; a parity failure is returned without
\* looking at the flag, and clearError() may fail as well.
Transaction(flag, bad) ==
    LET flagged == flag \/ "command" \in bad
    IN  IF "response" \in bad
        THEN [ok |-> FALSE, flag |-> flagged \/ "nop" \in bad]
        ELSE IF flagged
        THEN [ok |-> FALSE, flag |-> {"clear", "clearNop"} \cap bad # {}]
        ELSE [ok |-> TRUE, flag |-> "nop" \in bad]

\* What a transaction may come to, and how many of its frames are corrupted.
Outcomes(flag, budget) ==
    {[end |-> Transaction(flag, bad), cost |-> Cardinality(bad)] :
        bad \in {bad \in SUBSET Frames : Cardinality(bad) <= budget}}

-----------------------------------------------------------------------------
(* The estimator *)

Away(a, b) == LET d == (a - b + Turn) % Turn
              IN  IF d <= Turn - d THEN d ELSE Turn - d

\* angularStepPlausible() in the envelope of the candidate's angle.
Plausible(count, ticks) ==
    100 * Away(count, last) <= Allowed[Away(count, 0)] * ticks

\* A faulty variant: the rejected angle becomes the one to compare with.
RejectMoving(count) ==
    /\ encoderErrors' = 0 /\ outliers' = outliers + 1
    /\ overspeed' = (outliers' >= MaxOutlierRun)
    /\ last' = count
    /\ elapsed' = Capped(elapsed + 1, RecoverTicks)
    /\ UNCHANGED <<rateKnown, poseVars>>

\* A faulty variant: the time of the accepted sample is advanced.
RejectRestamping(count) ==
    /\ encoderErrors' = 0 /\ outliers' = outliers + 1
    /\ overspeed' = (outliers' >= MaxOutlierRun)
    /\ elapsed' = 0
    /\ UNCHANGED <<last, rateKnown, poseVars>>

\* Neither the accepted angle nor its time is advanced.
Reject(count) ==
    /\ encoderErrors' = 0 /\ outliers' = outliers + 1
    /\ overspeed' = (outliers' >= MaxOutlierRun)
    /\ elapsed' = Capped(elapsed + 1, RecoverTicks)
    /\ UNCHANGED <<last, rateKnown, poseVars>>

Accept(count) ==
    /\ encoderErrors' = 0 /\ outliers' = 0 /\ overspeed' = FALSE
    /\ last' = count /\ elapsed' = 0 /\ rateKnown' = TRUE
    /\ poseCurrent' = TRUE /\ sound' = (count = pend)

ReadFails(errors) ==
    /\ outliers' = 0 /\ overspeed' = FALSE
    /\ encoderErrors' = Capped(errors + 1, MaxErrors)
    /\ elapsed' = Capped(elapsed + 1, RecoverTicks)
    /\ UNCHANGED <<last, rateKnown, poseVars>>

Believable(count) == rateKnown => Plausible(count, elapsed + 1)

InTrial == trial # "off"

\* A command is computed from the state.
Steering(current) == IF current THEN "steering" ELSE "astray"

\* A faulty variant: a tick without a sample goes on with the state it has.
NoSampleSteering ==
    trial' = IF InTrial /\ ~overspeed' /\ encoderErrors' < MaxErrors
             THEN Steering(poseCurrent) ELSE "off"

\* A failed or rejected sample computes no command, and ends a trial when it is
\* one too many.
NoSample ==
    trial' = IF overspeed' \/ encoderErrors' >= MaxErrors THEN "off" ELSE trial

\* An accepted one steers a trial whose encoder is in order.
Steer == trial' = IF InTrial /\ healthy' THEN Steering(poseCurrent') ELSE "off"

\* sampleEncoder() after a diagnostics read that left these errors.
SampleFails(errors) == ReadFails(errors) /\ NoSample /\ UNCHANGED twists

Sample(count) ==
    /\ twists' = twists + (IF count = pend THEN 0 ELSE 1)
    /\ IF Believable(count) THEN Accept(count) /\ Steer
       ELSE Reject(count) /\ NoSample

-----------------------------------------------------------------------------
(* Steps *)

DiagDue == sinceDiag + 1 >= DiagPeriod

\* The diagnostics read of a tick, when it is due, with the state of the magnet.
Diagnosed(diag, magnet) ==
    IF DiagDue THEN healthy' = (diag.ok /\ magnet) /\ sinceDiag' = 0
    ELSE magnet /\ UNCHANGED healthy /\ sinceDiag' = sinceDiag + 1

\* runControlTick(), as far as it is about the encoder.  Until the next one the
\* pendulum moves by a count at most.
Tick ==
    \E diag \in IF DiagDue THEN Outcomes(errorFlag, MaxNoise - noise)
                ELSE {[end |-> [ok |-> TRUE, flag |-> errorFlag], cost |-> 0]},
       magnet \in BOOLEAN :
    \E angle \in Outcomes(diag.end.flag, MaxNoise - noise - diag.cost) :
        LET failures == (IF diag.end.ok THEN 0 ELSE 1)
                        + (IF angle.end.ok THEN 0 ELSE 1)
        IN  /\ noise' = noise + diag.cost + angle.cost
            /\ failedReads' = failedReads + failures
            /\ errorFlag' = angle.end.flag
            /\ Diagnosed(diag.end, magnet)
            /\ \/ ~angle.end.ok /\ SampleFails(encoderErrors + failures)
               \/ angle.end.ok /\ Sample(pend)
               \/ /\ angle.end.ok /\ twists < MaxTwists
                  /\ \E count \in (0 .. Turn - 1) \ {pend} : Sample(count)
            /\ \E step \in {-1, 0, 1} : pend' = (pend + step + Turn) % Turn

\* zeroSystem(): the last accepted count is down from now on, and the state is
\* left as it is until the next sample.  That state showed no motion.
Zero ==
    /\ ~InTrial /\ healthy
    /\ pend' = (pend - last + Turn) % Turn
    /\ last' = 0 /\ elapsed' = 0 /\ rateKnown' = TRUE
    /\ outliers' = 0 /\ overspeed' = FALSE
    /\ poseCurrent' = FALSE /\ sound' = (sound /\ elapsed = 0)
    /\ UNCHANGED <<busVars, encoderErrors, healthy, sinceDiag, trial>>

\* A trial is started on the state of the last tick; other guards are the
\* supervisor's.
Start ==
    /\ ~InTrial /\ healthy
    /\ trial' = "started"
    /\ UNCHANGED <<pend, busVars, estimatorVars, poseVars>>

\* It is stopped by something else than the encoder.
Stop ==
    /\ InTrial /\ trial' = "off"
    /\ UNCHANGED <<pend, busVars, estimatorVars, poseVars>>

EncoderInit ==
    /\ pend \in 0 .. Turn - 1
    /\ last = 0 /\ elapsed = 0 /\ rateKnown = FALSE
    /\ outliers = 0 /\ encoderErrors = 0 /\ overspeed = FALSE
    /\ healthy = FALSE /\ sinceDiag = 0
    /\ errorFlag = FALSE /\ failedReads = 0 /\ noise = 0 /\ twists = 0
    /\ trial = "off" /\ poseCurrent = FALSE /\ sound = FALSE

EncoderNext == Tick \/ Zero \/ Start \/ Stop

EncoderSpec == EncoderInit /\ [][EncoderNext]_encoderVars

-----------------------------------------------------------------------------
(* Properties *)

EncoderTypeOK ==
    /\ {pend, last} \subseteq 0 .. Turn - 1
    /\ elapsed \in 0 .. RecoverTicks /\ outliers \in 0 .. RecoverTicks
    /\ encoderErrors \in 0 .. MaxErrors /\ sinceDiag \in 0 .. DiagPeriod - 1
    /\ {rateKnown, overspeed, healthy, errorFlag, poseCurrent, sound}
          \subseteq BOOLEAN
    /\ failedReads \in Nat /\ noise \in 0 .. MaxNoise /\ twists \in 0 .. MaxTwists
    /\ trial \in {"off", "started", "steering", "astray"}

\* main.cpp:267: a corrupted frame costs one read at most, whichever of the frames
\* of a transaction it is, the ones of the clearing included: the flag it leaves
\* behind is charged to no second read.
CorruptionCostsOneRead ==
    failedReads + (IF errorFlag THEN 1 ELSE 0) <= noise

\* main.cpp:446: the estimator does not lock itself out.  Rejected samples do not
\* advance the time of the accepted one, so they cannot go on for longer than the
\* slowest allowed motion takes for half a turn.
NoLockout == outliers < RecoverTicks

\* main.cpp:448: an isolated outlier is ignored.  As long as the accepted count was
\* true, a pendulum that moves a count a tick at most has no more samples rejected
\* than the line has twisted, whatever reads fail in between: one of them is never
\* taken for an overspeed.
IsolatedOutlierIgnored == sound => outliers <= twists

\* main.cpp:1407: a trial may start on a state that was measured from another zero;
\* no command is computed from one.
SteersOnCurrentZero == trial # "astray"
=============================================================================
