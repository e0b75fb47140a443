----------------------------- MODULE ControlProofs -----------------------------
(***************************************************************************)
(* Proofs about the two ends of a control tick, Encoder and SwingLaw.        *)
(*                                                                           *)
(* Encoder, for any ring, any envelope that covers half a turn               *)
(* in RecoverTicks, and any number of corrupted frames and twisted counts:    *)
(* the first lemmas are about the ring and about one transaction with the     *)
(* sensor; EncoderInv is inductive from them.  TruthInv is inductive on top    *)
(* of it, as long as the envelope lets the pendulum move a count a tick.      *)
(*                                                                           *)
(* SwingLaw, for any reach and bounds of the arm, any clamps and              *)
(* any settings within limits.  The law is shown to be a number in its clamp  *)
(* whatever it computes, and to push back, or not at all, where the guard is  *)
(* full; the slew limit then takes away what earlier torque is left, which is *)
(* what SwingInv keeps count of.                                              *)
(***************************************************************************)
EXTENDS Encoder, SwingLaw, TLAPS, FiniteSetTheorems

-----------------------------------------------------------------------------
(* What is inductive about the estimator *)

\* Rejections are counted while the accepted sample ages.
EncoderInv == /\ EncoderTypeOK /\ CorruptionCostsOneRead /\ NoLockout
              /\ SteersOnCurrentZero /\ outliers <= elapsed

\* A true accepted count is as near to the pendulum as this can have moved.
TruthInv == sound => /\ outliers <= twists
                     /\ elapsed < RecoverTicks => Away(pend, last) <= elapsed + 1

-----------------------------------------------------------------------------
(* What is inductive about the swing law *)

\* None of the settings turns its part of the law around.
SettingsKeepSigns ==
    settings \in [gain : Nat, damping : Nat, centering : Nat, nudge : Nat, limit : Nat]

\* The longer the arm has been out, the less torque is left that pushes it on.
OutwardRunsDown ==
    outFor > 0 =>
        /\ law = "swing" /\ sinceStart >= NudgeTime /\ Size(arm) >= GuardFull
        /\ arm > 0 => command <= LongestSlew - outFor
        /\ arm < 0 => -command <= LongestSlew - outFor

SwingInv == SwingTypeOK /\ SettingsKeepSigns /\ OutwardRunsDown

-----------------------------------------------------------------------------
(* The ring *)

\* Division with remainder has one result.
LEMMA Unique ==
    ASSUME NEW n \in Nat \ {0}, NEW q \in Int, NEW m \in 0 .. n - 1,
           NEW p \in Int, NEW r \in 0 .. n - 1, n * q + m = n * p + r
    PROVE  m = r
<1>1. CASE q = p
    BY <1>1
<1>2. CASE q > p
  <2>1. n * (q - p) >= n
      BY <1>2
  <2>2. n * (q - p) = n * q - n * p
      OBVIOUS
  <2> QED
      BY <2>1, <2>2
<1>3. CASE q < p
  <2>1. n * (p - q) >= n
      BY <1>3
  <2>2. n * (p - q) = n * p - n * q
      OBVIOUS
  <2> QED
      BY <2>1, <2>2
<1> QED
    BY <1>1, <1>2, <1>3

LEMMA Remainder ==
    ASSUME NEW n \in Nat \ {0}, NEW r \in 0 .. n - 1, NEW p \in Int
    PROVE  (n * p + r) % n = r
<1>1. ASSUME NEW a \in Int
      PROVE  /\ a % n \in 0 .. n - 1 /\ a \div n \in Int
             /\ n * (a \div n) + (a % n) = a
    OBVIOUS
<1> DEFINE a == n * p + r
<1>2. a \in Int
    OBVIOUS
<1>3. /\ a % n \in 0 .. n - 1 /\ a \div n \in Int
      /\ n * (a \div n) + (a % n) = n * p + r
    BY <1>1, <1>2
<1> HIDE DEF a
<1>4. a % n = r
    BY <1>3, Unique
<1> QED
    BY <1>4 DEF a

LEMMA OneTurn ==
    ASSUME NEW n \in Nat \ {0}, NEW r \in 0 .. n - 1
    PROVE  r % n = r /\ (r + n) % n = r
<1>1. (n * 0 + r) % n = r /\ (n * 1 + r) % n = r
    BY Remainder
<1>2. n * 0 + r = r /\ n * 1 + r = r + n
    OBVIOUS
<1> QED
    BY <1>1, <1>2

Counts == 0 .. Turn - 1

\* From a count to another, going up.
Up(a, b) == IF a >= b THEN a - b ELSE a - b + Turn

LEMMA Wrapped ==
    ASSUME NEW a \in Counts, NEW b \in Counts
    PROVE  (a - b + Turn) % Turn = Up(a, b) /\ Up(a, b) \in Counts
<1>1. Turn \in Nat \ {0} /\ a \in 0 .. Turn - 1 /\ b \in 0 .. Turn - 1
    BY EncoderAssumption DEF Counts
<1>2. CASE a >= b
  <2>1. a - b \in 0 .. Turn - 1
      BY <1>1, <1>2
  <2> QED
      BY <1>1, <1>2, <2>1, OneTurn DEF Counts, Up
<1>3. CASE ~(a >= b)
  <2>1. a - b + Turn \in 0 .. Turn - 1
      BY <1>1, <1>3
  <2> QED
      BY <1>1, <1>3, <2>1, OneTurn DEF Counts, Up
<1> QED
    BY <1>2, <1>3

LEMMA AwayIs ==
    ASSUME NEW a \in Counts, NEW b \in Counts
    PROVE  /\ Away(a, b) \in 0 .. Turn \div 2
           /\ Away(a, b) = IF Up(a, b) <= Turn - Up(a, b) THEN Up(a, b)
                           ELSE Turn - Up(a, b)
<1>1. Turn \in Nat \ {0} /\ a \in Int /\ b \in Int
    BY EncoderAssumption DEF Counts
<1>2. (a - b + Turn) % Turn = Up(a, b) /\ Up(a, b) \in 0 .. Turn - 1
    BY Wrapped DEF Counts
<1> HIDE DEF Up
<1> QED
    BY <1>1, <1>2 DEF Away

\* The pendulum moves by a count at most, and so does its distance.
LEMMA StepOn ==
    ASSUME NEW a \in Counts, NEW b \in Counts, NEW s \in {-1, 0, 1}
    PROVE  /\ (a + s + Turn) % Turn \in Counts
           /\ Away((a + s + Turn) % Turn, b) <= Away(a, b) + 1
<1>1. /\ Turn \in Nat \ {0} /\ a \in 0 .. Turn - 1 /\ b \in 0 .. Turn - 1
    BY EncoderAssumption DEF Counts
<1>2. PICK c \in Counts :
         /\ (a + s + Turn) % Turn = c
         /\ c = a + s \/ (a + s = -1 /\ c = Turn - 1) \/ (a + s = Turn /\ c = 0)
  <2>1. CASE a + s \in 0 .. Turn - 1
      BY <1>1, <2>1, OneTurn DEF Counts
  <2>2. CASE a + s = -1
    <3>1. Turn - 1 \in 0 .. Turn - 1 /\ a + s + Turn = Turn - 1
        BY <1>1, <2>2
    <3> QED
        BY <1>1, <2>2, <3>1, OneTurn DEF Counts
  <2>3. CASE a + s = Turn
    <3>1. /\ 0 \in 0 .. Turn - 1 /\ a + s + Turn = Turn + Turn
          /\ Turn * 2 + 0 = Turn + Turn
        BY <1>1, <2>3
    <3>2. (Turn * 2 + 0) % Turn = 0
        BY <1>1, <3>1, Remainder
    <3> QED
        BY <1>1, <2>3, <3>1, <3>2 DEF Counts
  <2> QED
      BY <1>1, <2>1, <2>2, <2>3
<1>3. Away(c, b) <= Away(a, b) + 1
  <2>1. c \in 0 .. Turn - 1
      BY DEF Counts
  <2> QED
      BY <1>1, <1>2, <2>1, AwayIs DEF Up
<1> QED
    BY <1>2, <1>3

-----------------------------------------------------------------------------
(* A transaction *)

LEMMA FramesCounted ==
    ASSUME NEW bad \in SUBSET Frames
    PROVE  /\ Cardinality(bad) \in Nat
           /\ bad # {} => Cardinality(bad) >= 1
           /\ \A x, y \in bad : x # y => Cardinality(bad) >= 2
<1>1. IsFiniteSet(bad)
  <2>1. IsFiniteSet({"command", "nop", "response", "clear", "clearNop"})
    <3>1. IsFiniteSet({"command"})
        BY FS_Singleton
    <3>2. IsFiniteSet({"command"} \cup {"nop"})
        BY <3>1, FS_AddElement
    <3>3. IsFiniteSet(({"command"} \cup {"nop"}) \cup {"response"})
        BY <3>2, FS_AddElement
    <3>4. IsFiniteSet((({"command"} \cup {"nop"}) \cup {"response"})
                        \cup {"clear"})
        BY <3>3, FS_AddElement
    <3>5. IsFiniteSet(((({"command"} \cup {"nop"}) \cup {"response"})
                         \cup {"clear"}) \cup {"clearNop"})
        BY <3>4, FS_AddElement
    <3>6. ((({"command"} \cup {"nop"}) \cup {"response"}) \cup {"clear"})
             \cup {"clearNop"} = {"command", "nop", "response", "clear", "clearNop"}
        OBVIOUS
    <3> QED
        BY <3>5, <3>6, Zenon
  <2> QED
      BY <2>1, FS_Subset DEF Frames
<1>2. Cardinality(bad) \in Nat
    BY <1>1, FS_CardinalityType
<1>3. ASSUME NEW x \in bad PROVE Cardinality(bad) >= 1
  <2>1. Cardinality({x}) = 1 /\ {x} \subseteq bad
      BY FS_Singleton
  <2>2. Cardinality({x}) <= Cardinality(bad)
      BY <1>1, <2>1, FS_Subset
  <2> QED
      BY <1>2, <2>1, <2>2
<1>4. ASSUME NEW x \in bad, NEW y \in bad, x # y PROVE Cardinality(bad) >= 2
  <2>1. /\ IsFiniteSet({x}) /\ Cardinality({x}) = 1 /\ y \notin {x}
        /\ {x} \cup {y} \subseteq bad
      BY <1>4, FS_Singleton
  <2>2. Cardinality({x} \cup {y}) = 1 + 1
      BY <2>1, FS_AddElement
  <2>3. Cardinality({x} \cup {y}) <= Cardinality(bad)
      BY <1>1, <2>1, FS_Subset
  <2> QED
      BY <1>2, <2>2, <2>3
<1> QED
    BY <1>2, <1>3, <1>4

OneIf(b) == IF b THEN 1 ELSE 0

\* readRegister() pays for a read that fails, and for a flag it leaves, with a
\* corrupted frame or with the flag it found.
LEMMA TransactionPays ==
    ASSUME NEW flag \in BOOLEAN, NEW bad \in SUBSET Frames
    PROVE  /\ Transaction(flag, bad).ok \in BOOLEAN
           /\ Transaction(flag, bad).flag \in BOOLEAN
           /\ OneIf(~Transaction(flag, bad).ok) + OneIf(Transaction(flag, bad).flag)
                 <= OneIf(flag) + Cardinality(bad)
<1>1. /\ Cardinality(bad) \in Nat
      /\ bad # {} => Cardinality(bad) >= 1
      /\ \A x, y \in bad : x # y => Cardinality(bad) >= 2
    BY FramesCounted
<1> DEFINE end == Transaction(flag, bad)
<1>2. end.ok \in BOOLEAN /\ end.flag \in BOOLEAN
  <2>1. CASE "response" \in bad
    <3>1. /\ end.ok = FALSE
          /\ end.flag = (flag \/ "command" \in bad \/ "nop" \in bad)
        BY <2>1 DEF Transaction
    <3> QED
        BY <3>1
  <2>2. CASE "response" \notin bad /\ (flag \/ "command" \in bad)
    <3>1. /\ end.ok = FALSE
          /\ end.flag = ("clear" \in bad \/ "clearNop" \in bad)
        BY <2>2 DEF Transaction
    <3>2. ("clear" \in bad \/ "clearNop" \in bad) \in BOOLEAN
        OBVIOUS
    <3> QED
        BY <3>1, <3>2, Zenon
  <2>3. CASE "response" \notin bad /\ ~flag /\ "command" \notin bad
    <3>1. end.ok = TRUE /\ end.flag = ("nop" \in bad)
        BY <2>3 DEF Transaction
    <3>2. ("nop" \in bad) \in BOOLEAN
        OBVIOUS
    <3> QED
        BY <3>1, <3>2, Zenon
  <2> QED
      BY <2>1, <2>2, <2>3
<1>3. CASE "response" \in bad
  <2>1. ~end.ok /\ (end.flag => flag \/ "command" \in bad \/ "nop" \in bad)
      BY <1>3 DEF Transaction
  <2>2. "command" \in bad \/ "nop" \in bad => Cardinality(bad) >= 2
      BY <1>1, <1>3
  <2>3. Cardinality(bad) >= 1
      BY <1>1, <1>3
  <2> HIDE DEF end
  <2> QED
      BY <1>1, <1>2, <2>1, <2>2, <2>3 DEF OneIf, end
<1>4. CASE "response" \notin bad /\ (flag \/ "command" \in bad)
  <2>1. ~end.ok /\ (end.flag => "clear" \in bad \/ "clearNop" \in bad)
      BY <1>4 DEF Transaction
  <2>2. "clear" \in bad \/ "clearNop" \in bad => Cardinality(bad) >= 1
      BY <1>1
  <2>3. "command" \in bad => Cardinality(bad) >= 1
      BY <1>1
  <2>4. "command" \in bad /\ ("clear" \in bad \/ "clearNop" \in bad)
          => Cardinality(bad) >= 2
      BY <1>1
  <2> QED
      BY <1>1, <1>2, <1>4, <2>1, <2>2, <2>3, <2>4 DEF OneIf
<1>5. CASE "response" \notin bad /\ ~flag /\ "command" \notin bad
  <2>1. end.ok /\ (end.flag => "nop" \in bad)
      BY <1>5 DEF Transaction
  <2>2. "nop" \in bad => Cardinality(bad) >= 1
      BY <1>1
  <2> QED
      BY <1>1, <1>2, <2>1, <2>2 DEF OneIf
<1> QED
    BY <1>3, <1>4, <1>5

LEMMA OutcomePays ==
    ASSUME NEW flag \in BOOLEAN, NEW budget \in Nat,
           NEW o \in Outcomes(flag, budget)
    PROVE  /\ o.end.ok \in BOOLEAN /\ o.end.flag \in BOOLEAN
           /\ o.cost \in 0 .. budget
           /\ OneIf(~o.end.ok) + OneIf(o.end.flag) <= OneIf(flag) + o.cost
<1>1. PICK bad \in SUBSET Frames :
         /\ Cardinality(bad) <= budget
         /\ o = [end |-> Transaction(flag, bad), cost |-> Cardinality(bad)]
    BY DEF Outcomes
<1>2. o.end = Transaction(flag, bad) /\ o.cost = Cardinality(bad)
    BY <1>1
<1> QED
    BY <1>1, <1>2, TransactionPays, FramesCounted

-----------------------------------------------------------------------------
(* The inductive invariant *)

LEMMA Sizes ==
    /\ Turn \in Nat /\ Turn >= 1
    /\ RecoverTicks \in Nat /\ RecoverTicks >= 1
    /\ DiagPeriod \in Nat /\ DiagPeriod >= 1
    /\ MaxNoise \in Nat /\ MaxTwists \in Nat
BY EncoderAssumption

LEMMA TypedEncoder ==
    ASSUME EncoderTypeOK
    PROVE  /\ pend \in Counts /\ last \in Counts
           /\ elapsed \in 0 .. RecoverTicks /\ outliers \in 0 .. RecoverTicks
           /\ encoderErrors \in 0 .. 3 /\ sinceDiag \in 0 .. DiagPeriod - 1
           /\ rateKnown \in BOOLEAN /\ overspeed \in BOOLEAN /\ healthy \in BOOLEAN
           /\ errorFlag \in BOOLEAN /\ poseCurrent \in BOOLEAN /\ sound \in BOOLEAN
           /\ failedReads \in Nat /\ noise \in 0 .. MaxNoise
           /\ twists \in 0 .. MaxTwists
           /\ trial \in {"off", "started", "steering", "astray"}
BY DEF EncoderTypeOK, Counts, MaxErrors

\* A sample is rejected only while the accepted one is young.
LEMMA ReadRejected ==
    ASSUME NEW count \in Counts, last \in Counts, elapsed \in Nat,
           ~Believable(count)
    PROVE  elapsed + 1 < RecoverTicks
<1> DEFINE a == Allowed[Away(count, 0)]
<1>0. 0 \in Counts
    BY EncoderAssumption DEF Counts
<1>1. /\ Away(count, 0) \in 0 .. Turn \div 2
      /\ Away(count, last) \in 0 .. Turn \div 2
      /\ Turn \div 2 \in Nat
    BY <1>0, AwayIs, EncoderAssumption
<1>2. a \in Nat /\ a * RecoverTicks >= 100 * (Turn \div 2)
    BY <1>1, EncoderAssumption
<1>3. 100 * Away(count, last) > a * (elapsed + 1)
    BY <1>1, <1>2 DEF Believable, Plausible
<1> HIDE DEF a
<1>4. ASSUME RecoverTicks <= elapsed + 1 PROVE FALSE
  <2>1. a * RecoverTicks <= a * (elapsed + 1)
      BY <1>2, <1>4, EncoderAssumption
  <2> QED
    <3>1. PICK x \in Int, y \in Int : x = a * RecoverTicks /\ y = a * (elapsed + 1)
        BY <1>2, EncoderAssumption
    <3>2. x <= y /\ x >= 100 * (Turn \div 2) /\ 100 * Away(count, last) > y
        BY <1>2, <1>3, <2>1, <3>1, Zenon
    <3> QED
        BY <1>1, <3>1, <3>2
<1> QED
    BY <1>4, EncoderAssumption

\* A pendulum that moves a count a tick is never taken for one that cannot.
LEMMA Believed ==
    ASSUME \A d \in 0 .. Turn \div 2 : Allowed[d] >= 100,
           pend \in Counts, last \in Counts, elapsed \in Nat,
           Away(pend, last) <= elapsed + 1
    PROVE  Believable(pend)
<1> DEFINE a == Allowed[Away(pend, 0)]
<1>1. /\ Away(pend, 0) \in 0 .. Turn \div 2 /\ Away(pend, last) \in 0 .. Turn \div 2
      /\ Turn \div 2 \in Nat
    BY AwayIs, EncoderAssumption DEF Counts
<1>2. a \in Nat /\ a >= 100
    BY <1>1, EncoderAssumption
<1> HIDE DEF a
<1>3. 100 * Away(pend, last) <= a * (elapsed + 1)
  <2>1. 100 * (elapsed + 1) <= a * (elapsed + 1)
      BY <1>2
  <2> QED
      BY <1>1, <1>2, <2>1
<1> QED
    BY <1>3 DEF Believable, Plausible, a

\* What starts typed, with nothing rejected and nothing charged.
LEMMA EncoderStart == EncoderInit => EncoderInv
<1> SUFFICES ASSUME EncoderInit PROVE EncoderInv
    OBVIOUS
<1>1. EncoderTypeOK
  <2>1. {pend, last} \subseteq 0 .. Turn - 1
      BY Sizes DEF EncoderInit
  <2>2. /\ 0 \in 0 .. RecoverTicks /\ 0 \in 0 .. 3 /\ 0 \in 0 .. DiagPeriod - 1
        /\ 0 \in Nat /\ 0 \in 0 .. MaxNoise /\ 0 \in 0 .. MaxTwists
      BY Sizes
  <2>3. {rateKnown, overspeed, healthy, errorFlag, poseCurrent, sound} \subseteq BOOLEAN
      BY DEF EncoderInit
  <2> QED
      BY <2>1, <2>2, <2>3, Zenon DEF EncoderInit, EncoderTypeOK, MaxErrors
<1> QED
    BY <1>1, Sizes
    DEF EncoderInit, EncoderInv, CorruptionCostsOneRead, NoLockout,
        SteersOnCurrentZero

\* What a sample leaves of the estimator, whatever became of it.
Sampled ==
    /\ last \in Counts /\ elapsed \in 0 .. RecoverTicks /\ outliers \in Nat
    /\ encoderErrors \in 0 .. 3 /\ overspeed \in BOOLEAN /\ rateKnown \in BOOLEAN
    /\ poseCurrent \in BOOLEAN /\ sound \in BOOLEAN
    /\ twists \in 0 .. MaxTwists
    /\ trial \in {"off", "started", "steering"}
    /\ outliers <= elapsed /\ outliers < RecoverTicks

LEMMA SampleFailsInv ==
    ASSUME EncoderInv, NEW errors \in Nat, SampleFails(errors)
    PROVE  Sampled'
<1>1. EncoderTypeOK /\ trial # "astray"
    BY DEF EncoderInv, SteersOnCurrentZero
<1>2. /\ last \in Counts /\ elapsed \in 0 .. RecoverTicks /\ rateKnown \in BOOLEAN
      /\ poseCurrent \in BOOLEAN /\ sound \in BOOLEAN /\ twists \in 0 .. MaxTwists
      /\ trial \in {"off", "started", "steering"}
    BY <1>1, TypedEncoder
<1>3. /\ outliers' = 0 /\ overspeed' = FALSE /\ UNCHANGED <<last, rateKnown, poseVars>>
      /\ encoderErrors' = Capped(errors + 1, MaxErrors)
      /\ elapsed' = Capped(elapsed + 1, RecoverTicks)
      /\ UNCHANGED twists /\ trial' \in {"off", trial}
    BY DEF SampleFails, ReadFails, NoSample
<1>4. encoderErrors' \in 0 .. 3 /\ elapsed' \in 0 .. RecoverTicks
    BY <1>2, <1>3, Sizes DEF Capped, MaxErrors
<1> QED
  <2>1. /\ last' \in Counts /\ rateKnown' \in BOOLEAN /\ poseCurrent' \in BOOLEAN
        /\ sound' \in BOOLEAN /\ twists' \in 0 .. MaxTwists
        /\ trial' \in {"off", "started", "steering"} /\ overspeed' \in BOOLEAN
      BY <1>2, <1>3 DEF poseVars, Counts
  <2>2. outliers' \in Nat /\ outliers' <= elapsed' /\ outliers' < RecoverTicks
      BY <1>3, <1>4, Sizes
  <2> QED
      BY <1>4, <2>1, <2>2 DEF Sampled, Counts

LEMMA SampleInv ==
    ASSUME EncoderInv, NEW count \in Counts, Sample(count),
           count # pend => twists < MaxTwists
    PROVE  Sampled'
<1>1. EncoderTypeOK /\ trial # "astray" /\ outliers <= elapsed
    BY DEF EncoderInv, SteersOnCurrentZero
<1>2. /\ pend \in Counts /\ last \in Counts /\ elapsed \in 0 .. RecoverTicks
      /\ rateKnown \in BOOLEAN /\ outliers \in 0 .. RecoverTicks
      /\ poseCurrent \in BOOLEAN /\ sound \in BOOLEAN /\ twists \in 0 .. MaxTwists
      /\ trial \in {"off", "started", "steering"}
    BY <1>1, TypedEncoder
<1>3. twists' \in 0 .. MaxTwists
    BY <1>2, Sizes DEF Sample
<1>4. CASE Believable(count)
  <2>1. /\ encoderErrors' = 0 /\ outliers' = 0 /\ overspeed' = FALSE
        /\ last' = count /\ elapsed' = 0 /\ rateKnown' = TRUE
        /\ poseCurrent' = TRUE /\ sound' = (count = pend)
        /\ trial' \in {"off", "steering"}
      BY <1>4 DEF Sample, Accept, Steer, Steering
  <2> QED
    <3>1. sound' \in BOOLEAN
      <4>1. (count = pend) \in BOOLEAN
          OBVIOUS
      <4> QED
          BY <2>1, <4>1, Zenon
    <3>2. /\ outliers' \in Nat /\ outliers' <= elapsed' /\ outliers' < RecoverTicks
          /\ elapsed' \in 0 .. RecoverTicks /\ encoderErrors' \in 0 .. 3
        BY <2>1, Sizes
    <3>3. /\ last' \in Counts /\ overspeed' \in BOOLEAN /\ rateKnown' \in BOOLEAN
          /\ poseCurrent' \in BOOLEAN /\ trial' \in {"off", "started", "steering"}
        BY <2>1
    <3> QED
        BY <1>3, <3>1, <3>2, <3>3, Zenon DEF Sampled
<1>5. CASE ~Believable(count)
  <2>1. /\ encoderErrors' = 0 /\ outliers' = outliers + 1
        /\ overspeed' = (outliers' >= MaxOutlierRun)
        /\ elapsed' = Capped(elapsed + 1, RecoverTicks)
        /\ UNCHANGED <<last, rateKnown, poseVars>> /\ trial' \in {"off", trial}
      BY <1>5 DEF Sample, Reject, NoSample
  <2>2. elapsed + 1 < RecoverTicks
      BY <1>2, <1>5, ReadRejected
  <2>3. elapsed' = elapsed + 1
      BY <2>1, <2>2, <1>2, Sizes DEF Capped
  <2>4. /\ elapsed' \in 0 .. RecoverTicks /\ outliers' \in Nat
        /\ outliers' <= elapsed' /\ outliers' < RecoverTicks
      BY <1>1, <1>2, <2>1, <2>2, <2>3, Sizes
  <2>5. overspeed' \in BOOLEAN
      BY <2>1
  <2> QED
      BY <1>2, <1>3, <2>1, <2>4, <2>5 DEF Sampled, poseVars
<1> QED
    BY <1>4, <1>5

LEMMA EncoderTick ==
    ASSUME EncoderInv, Tick
    PROVE  /\ EncoderInv'
           /\ \E step \in {-1, 0, 1} : pend' = (pend + step + Turn) % Turn
           /\ \/ \E errors \in Nat : SampleFails(errors)
              \/ Sample(pend)
              \/ \E count \in Counts \ {pend} : Sample(count)
<1>1. EncoderTypeOK /\ CorruptionCostsOneRead
    BY DEF EncoderInv
<1>2. /\ pend \in Counts /\ encoderErrors \in 0 .. 3 /\ errorFlag \in BOOLEAN
      /\ failedReads \in Nat /\ noise \in 0 .. MaxNoise
      /\ sinceDiag \in 0 .. DiagPeriod - 1 /\ healthy \in BOOLEAN
    BY <1>1, TypedEncoder
<1> DEFINE Fails(o) == IF o.end.ok THEN 0 ELSE 1
           Diags == IF DiagDue THEN Outcomes(errorFlag, MaxNoise - noise)
                    ELSE {[end |-> [ok |-> TRUE, flag |-> errorFlag], cost |-> 0]}
           Outcome(d, magnet, a) ==
              LET failures == Fails(d) + Fails(a)
              IN  /\ noise' = noise + d.cost + a.cost
                  /\ failedReads' = failedReads + failures
                  /\ errorFlag' = a.end.flag
                  /\ Diagnosed(d.end, magnet)
                  /\ \/ ~a.end.ok /\ SampleFails(encoderErrors + failures)
                     \/ a.end.ok /\ Sample(pend)
                     \/ /\ a.end.ok /\ twists < MaxTwists
                        /\ \E count \in (0 .. Turn - 1) \ {pend} : Sample(count)
                  /\ \E step \in {-1, 0, 1} : pend' = (pend + step + Turn) % Turn
<1>3. PICK diag \in Diags, magnet \in BOOLEAN :
         \E angle \in Outcomes(diag.end.flag, MaxNoise - noise - diag.cost) :
            Outcome(diag, magnet, angle)
    BY Zenon DEF Tick
<1>4. PICK angle \in Outcomes(diag.end.flag, MaxNoise - noise - diag.cost) :
         Outcome(diag, magnet, angle)
    BY <1>3
<1>5. /\ diag.end.ok \in BOOLEAN /\ diag.end.flag \in BOOLEAN
      /\ diag.cost \in 0 .. MaxNoise - noise
      /\ OneIf(~diag.end.ok) + OneIf(diag.end.flag) <= OneIf(errorFlag) + diag.cost
  <2>1. CASE DiagDue
    <3>1. MaxNoise - noise \in Nat
        BY <1>2, Sizes
    <3>2. diag \in Outcomes(errorFlag, MaxNoise - noise)
        BY <2>1
    <3> QED
        BY <1>2, <3>1, <3>2, OutcomePays
  <2>2. CASE ~DiagDue
    <3>1. diag = [end |-> [ok |-> TRUE, flag |-> errorFlag], cost |-> 0]
        BY <2>2
    <3>2. diag.end.ok = TRUE /\ diag.end.flag = errorFlag /\ diag.cost = 0
        BY <3>1
    <3> QED
      <4>1. 0 \in 0 .. MaxNoise - noise
          BY <1>2, Sizes
      <4>2. OneIf(~diag.end.ok) = 0 /\ OneIf(diag.end.flag) = OneIf(errorFlag)
          BY <3>2 DEF OneIf
      <4>3. OneIf(errorFlag) \in Nat
          BY DEF OneIf
      <4>4. 0 + OneIf(errorFlag) <= OneIf(errorFlag) + 0
          BY <4>3
      <4>5. diag.end.ok \in BOOLEAN /\ diag.end.flag \in BOOLEAN
          BY <1>2, <3>2, Zenon
      <4> QED
          BY <3>2, <4>1, <4>2, <4>4, <4>5, Zenon
  <2> QED
      BY <2>1, <2>2
<1>6. /\ angle.end.ok \in BOOLEAN /\ angle.end.flag \in BOOLEAN
      /\ angle.cost \in 0 .. MaxNoise - noise - diag.cost
      /\ OneIf(~angle.end.ok) + OneIf(angle.end.flag)
            <= OneIf(diag.end.flag) + angle.cost
  <2>1. MaxNoise - noise - diag.cost \in Nat
      BY <1>2, <1>5, Sizes
  <2> QED
      BY <1>5, <2>1, OutcomePays
<1>7. /\ noise' = noise + diag.cost + angle.cost
      /\ failedReads' = failedReads + Fails(diag) + Fails(angle)
      /\ errorFlag' = angle.end.flag
      /\ Diagnosed(diag.end, magnet)
      /\ \/ SampleFails(encoderErrors + (Fails(diag) + Fails(angle)))
         \/ Sample(pend)
         \/ twists < MaxTwists /\ \E count \in Counts \ {pend} : Sample(count)
      /\ \E step \in {-1, 0, 1} : pend' = (pend + step + Turn) % Turn
    BY <1>2, <1>4 DEF Counts
<1> HIDE DEF Outcome, Diags
<1>8. /\ noise' \in 0 .. MaxNoise /\ failedReads' \in Nat /\ errorFlag' \in BOOLEAN
      /\ encoderErrors + (Fails(diag) + Fails(angle)) \in Nat
  <2>1. Fails(diag) \in {0, 1} /\ Fails(angle) \in {0, 1}
      OBVIOUS
  <2>2. PICK c \in Nat : c = diag.cost /\ c <= MaxNoise - noise
      BY <1>2, <1>5, Sizes
  <2>3. PICK e \in Nat : e = angle.cost /\ e <= MaxNoise - noise - c
      BY <1>2, <1>6, <2>2, Sizes
  <2>4. noise' = noise + c + e
      BY <1>7, <2>2, <2>3, Zenon
  <2>5. noise' \in 0 .. MaxNoise
      BY <1>2, <2>2, <2>3, <2>4, Sizes
  <2>6. PICK f \in {0, 1}, g \in {0, 1} : f = Fails(diag) /\ g = Fails(angle)
      BY <2>1
  <2>7. failedReads' = failedReads + f + g
      BY <1>7, <2>6, Zenon
  <2>8. failedReads' \in Nat /\ encoderErrors + (f + g) \in Nat
      BY <1>2, <2>6, <2>7
  <2>9. errorFlag' \in BOOLEAN
      BY <1>6, <1>7, Zenon
  <2> QED
      BY <2>5, <2>6, <2>8, <2>9, Zenon
<1>9. CorruptionCostsOneRead'
  <2>1. failedReads + OneIf(errorFlag) <= noise
      BY <1>1 DEF CorruptionCostsOneRead, OneIf
  <2>2. Fails(diag) = OneIf(~diag.end.ok) /\ Fails(angle) = OneIf(~angle.end.ok)
      BY <1>5, <1>6 DEF OneIf
  <2>3. /\ OneIf(errorFlag) \in Nat /\ OneIf(diag.end.flag) \in Nat
        /\ OneIf(angle.end.flag) \in Nat /\ OneIf(~diag.end.ok) \in Nat
        /\ OneIf(~angle.end.ok) \in Nat
      BY DEF OneIf
  <2>4. failedReads' + OneIf(angle.end.flag) <= noise'
    <3>1. PICK c \in Int, e \in Int : c = diag.cost /\ e = angle.cost
        BY <1>2, <1>5, <1>6, Sizes
    <3>2. PICK df \in Nat, af \in Nat, dr \in Nat, ar \in Nat, ef \in Nat :
             /\ df = OneIf(diag.end.flag) /\ af = OneIf(angle.end.flag)
             /\ dr = OneIf(~diag.end.ok) /\ ar = OneIf(~angle.end.ok)
             /\ ef = OneIf(errorFlag)
        BY <2>3, Zenon
    <3>3. noise' = noise + c + e /\ failedReads' = failedReads + dr + ar
        BY <1>7, <2>2, <3>1, <3>2, Zenon
    <3>4. dr + df <= ef + c /\ ar + af <= df + e /\ failedReads + ef <= noise
        BY <1>5, <1>6, <2>1, <3>1, <3>2, Zenon
    <3>5. failedReads' + af <= noise'
        BY <1>2, <3>1, <3>3, <3>4
    <3> QED
        BY <3>2, <3>5, Zenon
  <2> QED
      BY <1>7, <2>4 DEF CorruptionCostsOneRead, OneIf
<1>10. healthy' \in BOOLEAN /\ sinceDiag' \in 0 .. DiagPeriod - 1
    BY <1>2, <1>5, <1>7, Sizes DEF Diagnosed, DiagDue
<1>11. pend' \in Counts
    BY <1>2, <1>7, StepOn
<1>12. Sampled'
    BY <1>2, <1>7, <1>8, SampleFailsInv, SampleInv
<1>13. EncoderTypeOK'
    BY <1>8, <1>10, <1>11, <1>12, Sizes
    DEF EncoderTypeOK, Sampled, Counts, MaxErrors
<1> QED
    BY <1>7, <1>8, <1>9, <1>12, <1>13
    DEF EncoderInv, Sampled, NoLockout, SteersOnCurrentZero

LEMMA RestInv ==
    ASSUME EncoderInv, Zero \/ Start \/ Stop \/ UNCHANGED encoderVars
    PROVE  EncoderInv'
<1>1. EncoderTypeOK
    BY DEF EncoderInv
<1>2. /\ pend \in Counts /\ last \in Counts /\ elapsed \in 0 .. RecoverTicks
      /\ encoderErrors \in 0 .. 3 /\ errorFlag \in BOOLEAN
      /\ failedReads \in Nat /\ noise \in 0 .. MaxNoise /\ sound \in BOOLEAN
      /\ sinceDiag \in 0 .. DiagPeriod - 1 /\ healthy \in BOOLEAN
      /\ trial \in {"off", "started", "steering", "astray"}
      /\ twists \in 0 .. MaxTwists
    BY <1>1, TypedEncoder
<1>3. CASE Zero
  <2>1. pend' \in Counts /\ last' \in Counts
      BY <1>2, <1>3, Wrapped, Sizes DEF Zero, Counts
  <2>2. sound' \in BOOLEAN
    <3>1. sound' = (sound /\ elapsed = 0) /\ (sound /\ elapsed = 0) \in BOOLEAN
        BY <1>3 DEF Zero
    <3> QED
        BY <3>1, Zenon
  <2>3. /\ elapsed' = 0 /\ outliers' = 0 /\ overspeed' = FALSE /\ rateKnown' = TRUE
        /\ poseCurrent' = FALSE
        /\ UNCHANGED <<errorFlag, failedReads, noise, twists, encoderErrors, healthy,
                       sinceDiag, trial>>
      BY <1>3 DEF Zero, busVars
  <2>4. 0 \in 0 .. RecoverTicks
      BY Sizes
  <2>5. EncoderTypeOK'
    <3>1. /\ elapsed' \in 0 .. RecoverTicks /\ outliers' \in 0 .. RecoverTicks
          /\ encoderErrors' \in 0 .. 3 /\ sinceDiag' \in 0 .. DiagPeriod - 1
          /\ failedReads' \in Nat /\ noise' \in 0 .. MaxNoise
          /\ twists' \in 0 .. MaxTwists
          /\ trial' \in {"off", "started", "steering", "astray"}
        BY <1>2, <2>3, <2>4, Zenon
    <3>2. {rateKnown', overspeed', healthy', errorFlag', poseCurrent', sound'}
             \subseteq BOOLEAN
        BY <1>2, <2>2, <2>3
    <3>3. {pend', last'} \subseteq 0 .. Turn - 1
        BY <2>1 DEF Counts
    <3> QED
        BY <3>1, <3>2, <3>3, Zenon DEF EncoderTypeOK, MaxErrors
  <2> QED
      BY <2>3, <2>5, Sizes
      DEF EncoderInv, CorruptionCostsOneRead, NoLockout, SteersOnCurrentZero
<1>4. CASE Start \/ Stop \/ UNCHANGED encoderVars
  <2>1. UNCHANGED <<pend, busVars, estimatorVars, poseVars>>
      BY <1>4 DEF Start, Stop, encoderVars
  <2>2. trial' \in {"off", "started", trial}
      BY <1>4 DEF Start, Stop, encoderVars
  <2>3. EncoderTypeOK'
      BY <1>1, <2>1, <2>2 DEF EncoderTypeOK, busVars, estimatorVars, poseVars
  <2> QED
      BY <2>1, <2>2, <2>3
      DEF EncoderInv, busVars, estimatorVars, CorruptionCostsOneRead, NoLockout,
          SteersOnCurrentZero
<1> QED
    BY <1>3, <1>4

LEMMA EncoderStep == EncoderInv /\ [EncoderNext]_encoderVars => EncoderInv'
BY EncoderTick, RestInv DEF EncoderNext

\* Every behaviour of the estimator keeps EncoderInv: types, and that rejections
\* are counted while the accepted sample ages.
THEOREM EncoderInductive == EncoderSpec => []EncoderInv
BY EncoderStart, EncoderStep, PTL DEF EncoderSpec

\* PendulumEncoder's readRegister() with its clearError(): however many frames are
\* corrupted, and wherever, at most as many reads fail.
THEOREM OneReadLost == EncoderSpec => []CorruptionCostsOneRead
<1>1. EncoderInv => CorruptionCostsOneRead
    BY DEF EncoderInv
<1> QED
    BY <1>1, EncoderInductive, PTL

\* sampleEncoder(): rejections never go on for RecoverTicks, for any envelope that
\* covers half a turn in that time.
THEOREM NeverLockedOut == EncoderSpec => []NoLockout
<1>1. EncoderInv => NoLockout
    BY DEF EncoderInv
<1> QED
    BY <1>1, EncoderInductive, PTL

\* No trial is steered by a state that was measured from an earlier zero.
THEOREM CurrentZeroSteers == EncoderSpec => []SteersOnCurrentZero
<1>1. EncoderInv => SteersOnCurrentZero
    BY DEF EncoderInv
<1> QED
    BY <1>1, EncoderInductive, PTL

-----------------------------------------------------------------------------
(* The truth of the accepted count *)

\* The slowest allowed motion is a count a tick.
CountATick == \A d \in 0 .. Turn \div 2 : Allowed[d] >= 100

\* Away after a step of the pendulum, as a distance of its own.
LEMMA Onward ==
    ASSUME NEW a \in Counts, NEW b \in Counts, NEW c,
           \E step \in {-1, 0, 1} : c = (a + step + Turn) % Turn
    PROVE  /\ c \in Counts /\ Away(a, b) \in Nat /\ Away(c, b) \in Nat
           /\ Away(c, b) <= Away(a, b) + 1
<1>1. PICK step \in {-1, 0, 1} : c = (a + step + Turn) % Turn
    OBVIOUS
<1>2. c \in Counts /\ Away(c, b) <= Away(a, b) + 1
    BY <1>1, StepOn
<1>3. ASSUME NEW x \in Counts PROVE Away(x, b) \in Nat
  <2>1. Away(x, b) \in 0 .. Turn \div 2
      BY AwayIs
  <2>2. Turn \div 2 \in Int
      BY Sizes
  <2> QED
      BY <2>1, <2>2
<1> QED
    BY <1>2, <1>3

LEMMA AtHand ==
    ASSUME NEW a \in Counts
    PROVE  Away(a, a) = 0
<1>1. a \in Int /\ a >= 0
    BY Sizes DEF Counts
<1>2. Up(a, a) = 0
    BY <1>1 DEF Up
<1> QED
    BY <1>2, AwayIs, Sizes

\* Counting from another zero changes no distance.
LEMMA Shifted ==
    ASSUME NEW a \in Counts, NEW b \in Counts
    PROVE  /\ (a - b + Turn) % Turn \in Counts
           /\ Away((a - b + Turn) % Turn, 0) = Away(a, b)
<1>1. (a - b + Turn) % Turn = Up(a, b) /\ Up(a, b) \in Counts
    BY Wrapped
<1>2. 0 \in Counts /\ Up(a, b) \in Int /\ Up(a, b) >= 0
    BY <1>1, Sizes DEF Counts
<1> DEFINE u == Up(a, b)
<1>3. u \in Counts /\ u \in Int /\ u >= 0
    BY <1>1, <1>2
<1>4. Away(a, b) = IF u <= Turn - u THEN u ELSE Turn - u
    BY AwayIs
<1> HIDE DEF u
<1>5. Up(u, 0) = u
    BY <1>3 DEF Up
<1>6. Away(u, 0) = IF u <= Turn - u THEN u ELSE Turn - u
    BY <1>2, <1>3, <1>5, AwayIs
<1> QED
    BY <1>1, <1>4, <1>6 DEF u

LEMMA TickTruth ==
    ASSUME CountATick, EncoderInv, TruthInv, Tick
    PROVE  TruthInv'
<1>1. EncoderTypeOK
    BY DEF EncoderInv
<1>2. /\ pend \in Counts /\ last \in Counts /\ elapsed \in Nat
      /\ outliers \in Nat /\ twists \in Nat /\ elapsed <= RecoverTicks
  <2>1. /\ pend \in Counts /\ last \in Counts /\ elapsed \in 0 .. RecoverTicks
        /\ outliers \in 0 .. RecoverTicks /\ twists \in 0 .. MaxTwists
      BY <1>1, TypedEncoder
  <2> QED
      BY <2>1, Sizes
<1>3. \E step \in {-1, 0, 1} : pend' = (pend + step + Turn) % Turn
    BY EncoderTick
<1>4. \/ \E errors \in Nat : SampleFails(errors)
      \/ Sample(pend)
      \/ \E count \in Counts \ {pend} : Sample(count)
    BY EncoderTick
<1>5. /\ Away(pend, last) \in Nat /\ Away(pend', last) \in Nat
      /\ Away(pend', last) <= Away(pend, last) + 1
    BY <1>2, <1>3, Onward
<1>6. sound => outliers <= twists
    BY DEF TruthInv
<1>7. sound /\ elapsed < RecoverTicks => Away(pend, last) <= elapsed + 1
    BY DEF TruthInv
<1> SUFFICES ASSUME sound'
             PROVE  /\ outliers' <= twists'
                    /\ elapsed' < RecoverTicks => Away(pend', last') <= elapsed' + 1
    BY DEF TruthInv
<1>8. ASSUME sound, UNCHANGED last, elapsed' = Capped(elapsed + 1, RecoverTicks)
      PROVE  elapsed' < RecoverTicks => Away(pend', last') <= elapsed' + 1
  <2>1. ASSUME elapsed' < RecoverTicks PROVE Away(pend', last) <= elapsed' + 1
    <3>1. elapsed' = elapsed + 1 /\ elapsed < RecoverTicks
        BY <1>2, <1>8, <2>1, Sizes DEF Capped
    <3> QED
        BY <1>2, <1>5, <1>7, <1>8, <3>1
  <2>2. Away(pend', last') = Away(pend', last)
      BY <1>8
  <2> QED
      BY <2>1, <2>2, Zenon
<1>9. CASE \E errors \in Nat : SampleFails(errors)
  <2>1. /\ outliers' = 0 /\ UNCHANGED <<last, twists, sound>>
        /\ elapsed' = Capped(elapsed + 1, RecoverTicks)
      BY <1>9 DEF SampleFails, ReadFails, poseVars
  <2>2. outliers' <= twists'
      BY <1>2, <2>1
  <2>3. sound /\ last' = last
      BY <2>1
  <2> QED
      BY <1>8, <2>1, <2>2, <2>3, Zenon
<1>10. CASE Sample(pend)
  <2>1. Believable(pend)
    <3>1. SUFFICES ASSUME ~Believable(pend) PROVE FALSE
        OBVIOUS
    <3>2. sound
        BY <1>10, <3>1 DEF Sample, Reject, poseVars
    <3>3. elapsed < RecoverTicks
        BY <1>2, <3>1, ReadRejected, Sizes
    <3>4. Away(pend, last) <= elapsed + 1
        BY <1>7, <3>2, <3>3
    <3> QED
        BY <1>2, <3>1, <3>4, Believed DEF CountATick
  <2>2. outliers' = 0 /\ last' = pend /\ elapsed' = 0 /\ twists' = twists + 0
      BY <1>10, <2>1 DEF Sample, Accept
  <2>3. Away(pend', pend) \in Nat /\ Away(pend', pend) <= Away(pend, pend) + 1
      BY <1>2, <1>3, Onward
  <2>4. Away(pend, pend) = 0
      BY <1>2, AtHand
  <2>5. outliers' <= twists' /\ Away(pend', pend) <= elapsed' + 1
      BY <1>2, <2>2, <2>3, <2>4
  <2>6. Away(pend', last') = Away(pend', pend)
      BY <2>2
  <2> QED
      BY <2>5, <2>6, Zenon
<1>11. CASE \E count \in Counts \ {pend} : Sample(count)
  <2>1. PICK count \in Counts \ {pend} : Sample(count)
      BY <1>11
  <2>2. ~Believable(count)
      BY <2>1 DEF Sample, Accept
  <2>3. /\ outliers' = outliers + 1 /\ UNCHANGED <<last, sound>>
        /\ elapsed' = Capped(elapsed + 1, RecoverTicks) /\ twists' = twists + 1
      BY <2>1, <2>2 DEF Sample, Reject, poseVars
  <2>4. sound /\ last' = last
      BY <2>3
  <2>5. outliers' <= twists'
      BY <1>2, <1>6, <2>3, <2>4
  <2> QED
      BY <1>8, <2>3, <2>4, <2>5, Zenon
<1> QED
    BY <1>4, <1>9, <1>10, <1>11

LEMMA ZeroTruth ==
    ASSUME EncoderInv, TruthInv, Zero
    PROVE  TruthInv'
<1>1. EncoderTypeOK
    BY DEF EncoderInv
<1>2. pend \in Counts /\ last \in Counts /\ twists \in Nat
  <2>1. pend \in Counts /\ last \in Counts /\ twists \in 0 .. MaxTwists
      BY <1>1, TypedEncoder
  <2> QED
      BY <2>1, Sizes
<1>3. /\ pend' = (pend - last + Turn) % Turn /\ last' = 0 /\ elapsed' = 0
      /\ outliers' = 0 /\ twists' = twists /\ sound' = (sound /\ elapsed = 0)
    BY DEF Zero, busVars
<1>4. Away((pend - last + Turn) % Turn, 0) = Away(pend, last)
    BY <1>2, Shifted
<1>5. Away(pend', last') = Away(pend, last)
    BY <1>3, <1>4, Zenon
<1>6. ASSUME sound' PROVE Away(pend, last) <= 0 + 1
  <2>1. sound /\ elapsed = 0
      BY <1>3, <1>6
  <2> QED
      BY <2>1, Sizes DEF TruthInv
<1>7. outliers' <= twists'
    BY <1>2, <1>3
<1> QED
    BY <1>3, <1>5, <1>6, <1>7, Zenon DEF TruthInv

LEMMA NextTruth ==
    ASSUME CountATick, EncoderInv, TruthInv, [EncoderNext]_encoderVars
    PROVE  TruthInv'
<1>1. CASE Start \/ Stop \/ UNCHANGED encoderVars
  <2>1. UNCHANGED <<pend, last, elapsed, outliers, twists, sound>>
      BY <1>1 DEF Start, Stop, encoderVars, busVars, estimatorVars, poseVars
  <2>2. Away(pend', last') = Away(pend, last)
      BY <2>1
  <2> QED
      BY <2>1, <2>2, Zenon DEF TruthInv
<1> QED
    BY <1>1, TickTruth, ZeroTruth DEF EncoderNext

\* sampleEncoder(): while the accepted count was true, only twisted counts are
\* rejected, however many reads fail; the envelope of the code allows 107
\* hundredths of a count a tick at least.
THEOREM OutlierIgnored ==
    ASSUME CountATick
    PROVE  EncoderSpec => []IsolatedOutlierIgnored
<1>1. EncoderInit => TruthInv
    BY DEF EncoderInit, TruthInv
<1>2. EncoderInv /\ TruthInv /\ [EncoderNext]_encoderVars => TruthInv'
    BY NextTruth
<1>3. TruthInv => IsolatedOutlierIgnored
    BY DEF TruthInv, IsolatedOutlierIgnored
<1> QED
    BY <1>1, <1>2, <1>3, EncoderInductive, PTL DEF EncoderSpec

-----------------------------------------------------------------------------
(* The settings, and arithmetic the swing law needs *)

Settings == [gain : Nat, damping : Nat, centering : Nat, nudge : Nat, limit : Nat]

LEMMA Bounds ==
    /\ ArmReach \in Nat /\ TopSpeed \in Nat /\ NudgeTime \in Nat
    /\ GuardStart \in Nat /\ GuardFull \in Nat /\ GuardStart < GuardFull
    /\ SwingClamp \in Nat /\ BalanceClamp \in 0 .. SwingClamp
    /\ Elapses \subseteq Nat \ {0}
BY SwingAssumption

LEMMA Clamped ==
    ASSUME NEW x \in Int, NEW low \in Int, NEW high \in Int, low <= high
    PROVE  /\ Between(x, low, high) \in low .. high
           /\ Between(x, low, high) = x \/ x < low \/ x > high
           /\ x < low => Between(x, low, high) = low
           /\ x > high => Between(x, low, high) = high
BY DEF Between

\* Division by a positive number keeps the sign.
LEMMA Quotient ==
    ASSUME NEW n \in Nat, NEW d \in Nat \ {0}
    PROVE  n \div d \in Nat
<1>1. n \div d \in Int /\ n % d \in 0 .. d - 1 /\ d * (n \div d) + (n % d) = n
    OBVIOUS
<1>2. ASSUME NEW q \in Int, NEW r \in 0 .. d - 1, d * q + r = n, q < 0 PROVE FALSE
  <2>1. d * (-q) >= d
      BY <1>2
  <2>2. d * (-q) = -(d * q)
      BY <1>2
  <2> QED
      BY <1>2, <2>1, <2>2
<1> QED
    BY <1>1, <1>2

LEMMA SameSide ==
    ASSUME NEW a \in Int, NEW b \in {-1, 0, 1}, a * b >= 0
    PROVE  (a > 0 => b >= 0) /\ (a < 0 => b <= 0)
<1>1. ASSUME a > 0 PROVE b >= 0
    BY <1>1
<1>2. ASSUME a < 0 PROVE b <= 0
    BY <1>2
<1> QED
    BY <1>1, <1>2

\* A torque that is not asked for runs down as the time out grows.
LEMMA RunsDown ==
    ASSUME NEW torque \in Int, NEW before \in Int, NEW time \in Int, NEW out \in Int,
           NEW most \in Int, NEW span \in Int,
           time <= out + span, time <= most
    PROVE  /\ torque <= 0 \/ torque = before - span
                => (before <= most - out => torque <= most - time)
           /\ torque >= 0 \/ torque = before + span
                => (-before <= most - out => -torque <= most - time)
OBVIOUS

LEMMA Share ==
    ASSUME NEW t \in Int, NEW n \in Nat, NEW d \in Nat \ {0}
    PROVE  /\ Part(t, n, d) \in Int
           /\ t >= 0 => Part(t, n, d) >= 0
           /\ t <= 0 => Part(t, n, d) <= 0
           /\ n = 0 => Part(t, n, d) = 0
<1>1. CASE t < 0
  <2>1. (-t) * n \in Nat
    <3>1. -t \in Nat
        BY <1>1
    <3> QED
        BY <3>1
  <2>2. ((-t) * n) \div d \in Nat
      BY <2>1, Quotient
  <2>3. Part(t, n, d) = -(((-t) * n) \div d)
      BY <1>1 DEF Part, Size
  <2>4. n = 0 => ((-t) * n) \div d = 0
      BY <1>1
  <2> QED
      BY <1>1, <2>2, <2>3, <2>4
<1>2. CASE t >= 0
  <2>1. t * n \in Nat
    <3>1. t \in Nat
        BY <1>2
    <3> QED
        BY <3>1
  <2>2. (t * n) \div d \in Nat
      BY <2>1, Quotient
  <2>3. Part(t, n, d) = (t * n) \div d
      BY <1>2 DEF Part
  <2>4. n = 0 => (t * n) \div d = 0
      BY <1>2
  <2>5. t = 0 => (t * n) \div d = 0
      BY <1>2
  <2> QED
      BY <1>2, <2>2, <2>3, <2>4, <2>5
<1> QED
    BY <1>1, <1>2

-----------------------------------------------------------------------------
(* The law *)

LEMMA CosineTyped ==
    ASSUME NEW e \in -4 .. 4
    PROVE  Cosine(e) \in Int
<1>1. e \in {-4, -3, -2, -1, 0, 1, 2, 3, 4}
    OBVIOUS
<1> QED
    BY <1>1 DEF Cosine, Size

LEMMA EnergyTyped ==
    ASSUME settings \in Settings, NEW e \in -4 .. 4, NEW rate \in Int
    PROVE  EnergyPart(e, rate) \in Int
<1>1. Cosine(e) \in Int /\ settings.gain \in Int
    BY CosineTyped DEF Settings
<1>2. Energy(e, rate) \in Int
    BY <1>1 DEF Energy
<1>3. Target(e, rate) \in Int
    BY DEF Target, Smaller, Size
<1>4. settings.gain * (Target(e, rate) - Energy(e, rate)) * rate * Cosine(e) \in Int
    BY <1>1, <1>2, <1>3
<1> QED
    BY <1>4, Share DEF EnergyPart

LEMMA RestoringTyped ==
    ASSUME settings \in Settings, NEW a \in Int, NEW armRate \in {-1, 0, 1}
    PROVE  /\ Restoring(a, armRate) \in Int
           /\ a >= 0 /\ armRate >= 0 => Restoring(a, armRate) >= 0
           /\ a <= 0 /\ armRate <= 0 => Restoring(a, armRate) <= 0
<1>1. settings.damping \in Nat /\ settings.centering \in Nat
    BY DEF Settings
<1>2. PICK c \in Nat, d \in Nat : c = settings.centering /\ d = settings.damping
    BY <1>1
<1>3. /\ c * a \in Int /\ (a >= 0 => c * a >= 0) /\ (a <= 0 => c * a <= 0)
    OBVIOUS
<1>4. Restoring(a, armRate) = d * armRate + c * a
    BY <1>2 DEF Restoring
<1> QED
    BY <1>3, <1>4

LEMMA ScaleTyped ==
    ASSUME NEW a \in Int, NEW torque \in Int
    PROVE  /\ OutwardScale(a, torque) \in Nat
           /\ Size(a) >= GuardFull /\ a * torque > 0 => OutwardScale(a, torque) = 0
BY Bounds DEF OutwardScale, Between, Size

\* travelAwareSwingUpTorque(): beyond the guard, energy is only put in inwards.
LEMMA TravelTyped ==
    ASSUME settings \in Settings, NEW a \in Int, NEW armRate \in {-1, 0, 1},
           NEW e \in -4 .. 4, NEW rate \in Int
    PROVE  /\ TravelAware(a, armRate, e, rate) \in Int
           /\ a >= GuardFull /\ armRate >= 0 => TravelAware(a, armRate, e, rate) <= 0
           /\ a <= -GuardFull /\ armRate <= 0 => TravelAware(a, armRate, e, rate) >= 0
<1>1. PICK torque \in Int : torque = EnergyPart(e, rate)
    BY EnergyTyped
<1>2. PICK scale \in Nat : scale = OutwardScale(a, torque)
    BY ScaleTyped
<1>3. PICK width \in Nat \ {0} : width = GuardFull - GuardStart
    BY Bounds
<1>4. PICK energy \in Int : energy = Part(torque, scale, width)
    BY Share
<1>5. PICK back \in Int : back = Restoring(a, armRate)
    BY RestoringTyped
<1>6. TravelAware(a, armRate, e, rate) = energy - back
    BY <1>1, <1>2, <1>3, <1>4, <1>5, Zenon DEF TravelAware
<1>7. /\ torque >= 0 => energy >= 0
      /\ torque <= 0 => energy <= 0
      /\ scale = 0 => energy = 0
    BY <1>4, Share
<1>8. /\ a >= 0 /\ armRate >= 0 => back >= 0
      /\ a <= 0 /\ armRate <= 0 => back <= 0
    BY <1>5, RestoringTyped
<1>9. Size(a) >= GuardFull /\ a * torque > 0 => scale = 0
    BY <1>2, ScaleTyped
<1>10. ASSUME a >= GuardFull, armRate >= 0 PROVE energy <= 0 /\ back >= 0
  <2>1. a > 0 /\ Size(a) >= GuardFull
      BY <1>10, Bounds DEF Size
  <2>2. CASE torque > 0
    <3>1. a * torque > 0
        BY <2>1, <2>2
    <3> QED
        BY <1>7, <1>8, <1>9, <1>10, <2>1, <3>1
  <2> QED
      BY <1>7, <1>8, <1>10, <2>1, <2>2
<1>11. ASSUME a <= -GuardFull, armRate <= 0 PROVE energy >= 0 /\ back <= 0
  <2>1. a < 0 /\ Size(a) >= GuardFull
      BY <1>11, Bounds DEF Size
  <2>2. CASE torque < 0
    <3>1. a * torque > 0
        BY <2>1, <2>2
    <3> QED
        BY <1>7, <1>8, <1>9, <1>11, <2>1, <3>1
  <2> QED
      BY <1>7, <1>8, <1>11, <2>1, <2>2
<1> QED
    BY <1>6, <1>10, <1>11

LEMMA Seventh ==
    ASSUME NEW m \in Nat, NEW x \in -(7 * m) .. 7 * m
    PROVE  Part(x, 1, 7) \in -m .. m
BY DEF Part, Size

\* The demand is in the clamp, and never outward beyond the guard.
LEMMA DemandTyped ==
    ASSUME settings \in Settings, NEW a \in Int, NEW armRate \in {-1, 0, 1},
           NEW e \in -4 .. 4, NEW rate \in Int, sinceStart' \in Int
    PROVE  /\ SwingDemand(a, armRate, e, rate) \in -SwingClamp .. SwingClamp
           /\ sinceStart' >= NudgeTime =>
                /\ a >= GuardFull /\ armRate >= 0
                      => SwingDemand(a, armRate, e, rate) <= 0
                /\ a <= -GuardFull /\ armRate <= 0
                      => SwingDemand(a, armRate, e, rate) >= 0
<1>1. settings.limit \in Nat /\ settings.nudge \in Nat
    BY DEF Settings
<1>2. PICK limit \in Nat :
         /\ limit = Smaller(settings.limit, Sevenths * SwingClamp)
         /\ limit <= 7 * SwingClamp
  <2>1. /\ Smaller(settings.limit, Sevenths * SwingClamp) \in Nat
        /\ Smaller(settings.limit, Sevenths * SwingClamp) <= 7 * SwingClamp
      BY <1>1, Bounds DEF Smaller, Sevenths
  <2> QED
      BY <2>1
<1>3. PICK torque \in Int :
         /\ torque = IF sinceStart' < NudgeTime
                     THEN settings.nudge - Restoring(a, armRate)
                     ELSE TravelAware(a, armRate, e, rate)
         /\ sinceStart' >= NudgeTime =>
               /\ a >= GuardFull /\ armRate >= 0 => torque <= 0
               /\ a <= -GuardFull /\ armRate <= 0 => torque >= 0
  <2>1. CASE sinceStart' < NudgeTime
    <3>1. settings.nudge - Restoring(a, armRate) \in Int
        BY <1>1, RestoringTyped
    <3>2. ~(sinceStart' >= NudgeTime)
        BY <2>1, Bounds
    <3> QED
        BY <2>1, <3>1, <3>2
  <2>2. CASE ~(sinceStart' < NudgeTime)
      BY <2>2, TravelTyped
  <2> QED
      BY <2>1, <2>2
<1>4. PICK clamped \in Int :
         /\ clamped = Between(torque, -limit, limit) /\ clamped \in -limit .. limit
         /\ torque <= 0 => clamped <= 0
         /\ torque >= 0 => clamped >= 0
    BY DEF Between
<1>5. clamped \in -(7 * SwingClamp) .. 7 * SwingClamp
    BY <1>2, <1>4, Bounds
<1>6. PICK demand \in -SwingClamp .. SwingClamp : demand = Part(clamped, 1, 7)
    BY <1>5, Seventh, Bounds
<1>7. (clamped <= 0 => demand <= 0) /\ (clamped >= 0 => demand >= 0)
  <2>1. 1 \in Nat /\ 7 \in Nat \ {0}
      OBVIOUS
  <2> QED
      BY <1>6, <2>1, Share
<1>8. SwingDemand(a, armRate, e, rate) = demand
    BY <1>2, <1>3, <1>4, <1>6, Zenon DEF SwingDemand, Sevenths
<1> QED
    BY <1>3, <1>4, <1>6, <1>7, <1>8, Bounds

\* The slew limit stays in the clamp, and takes what it may from a torque that is
\* not asked for.
LEMMA SlewTyped ==
    ASSUME command \in -SwingClamp .. SwingClamp, NEW span \in Nat,
           NEW demand \in -SwingClamp .. SwingClamp, NEW mode
    PROVE  /\ Slewed(mode, demand, span) \in -SwingClamp .. SwingClamp
           /\ mode = "swing" =>
                /\ demand <= 0 => \/ Slewed(mode, demand, span) <= 0
                                  \/ Slewed(mode, demand, span) = command - span
                /\ demand >= 0 => \/ Slewed(mode, demand, span) >= 0
                                  \/ Slewed(mode, demand, span) = command + span
<1>1. Slew(mode, span) \in Nat /\ (mode = "swing" => Slew(mode, span) = span)
    BY DEF Slew
<1>2. PICK slew \in Nat : slew = Slew(mode, span)
    BY <1>1
<1>3. Slewed(mode, demand, span) = Between(demand, command - slew, command + slew)
    BY <1>2, Zenon DEF Slewed
<1>4. SwingClamp \in Nat /\ command \in Int /\ demand \in Int
    BY Bounds
<1> QED
    BY <1>1, <1>2, <1>3, <1>4 DEF Between

-----------------------------------------------------------------------------
(* The inductive invariant *)

LEMMA SwingTick ==
    ASSUME SwingInv, TickSwing
    PROVE  SwingInv'
<1>1. /\ law \in {"swing", "balance"} /\ arm \in -ArmReach .. ArmReach
      /\ eighth \in -4 .. 3 /\ sinceStart \in 0 .. NudgeTime
      /\ command \in -SwingClamp .. SwingClamp
      /\ settings \in Candidates \cup {Default} /\ outFor \in 0 .. SwingClamp
      /\ settings \in Settings
    BY DEF SwingInv, SwingTypeOK, SettingsKeepSigns, Settings, LongestSlew, TickSwing
<1>2. outFor > 0 =>
        /\ Size(arm) >= GuardFull
        /\ arm > 0 => command <= SwingClamp - outFor
        /\ arm < 0 => -command <= SwingClamp - outFor
    BY DEF SwingInv, OutwardRunsDown, LongestSlew
<1>3. PICK rates \in Rates, span \in Elapses :
         /\ Moved(rates[1], rates[2], span)
         /\ Swings(rates[1], rates[2], span) \/ Balances(span)
    BY DEF TickSwing
<1>4. PICK armRate \in {-1, 0, 1}, rate \in Int : armRate = rates[1] /\ rate = rates[2]
    BY Bounds DEF Rates
<1>5. span \in Nat /\ span > 0
    BY Bounds
<1>6. /\ arm' \in -ArmReach .. ArmReach /\ arm' \in {arm, arm + armRate}
      /\ eighth' \in -4 .. 3 /\ sinceStart' \in 0 .. NudgeTime
  <2>1. Moved(armRate, rate, span)
      BY <1>3, <1>4
  <2>2. PICK e \in {eighth, eighth + Between(rate, -1, 1)} :
           eighth' = ((e + 12) % 8) - 4
      BY <2>1 DEF Moved
  <2>3. e \in Int
      BY <1>1, <2>2 DEF Between
  <2>4. eighth' \in -4 .. 3
      BY <2>2, <2>3
  <2>5. sinceStart' \in 0 .. NudgeTime
      BY <1>1, <1>5, <2>1, Bounds DEF Moved, Smaller
  <2> QED
      BY <2>1, <2>4, <2>5 DEF Moved
<1>7. UNCHANGED settings
    BY DEF TickSwing
<1>8. CASE Swings(armRate, rate, span)
  <2>1. PICK demand : /\ demand = SwingDemand(arm', armRate, eighth', rate)
                      /\ command' = Slewed("swing", demand, span)
      BY <1>8, Zenon DEF Swings
  <2>2. /\ arm' \in Int /\ eighth' \in -4 .. 4 /\ sinceStart' \in Int
      BY <1>6, Bounds
  <2>3. /\ demand \in -SwingClamp .. SwingClamp
        /\ sinceStart' >= NudgeTime =>
              /\ arm' >= GuardFull /\ armRate >= 0 => demand <= 0
              /\ arm' <= -GuardFull /\ armRate <= 0 => demand >= 0
      BY <1>1, <2>1, <2>2, DemandTyped
  <2>4. /\ command' \in -SwingClamp .. SwingClamp
        /\ demand <= 0 => command' <= 0 \/ command' = command - span
        /\ demand >= 0 => command' >= 0 \/ command' = command + span
      BY <1>1, <1>5, <2>1, <2>3, SlewTyped
  <2>5. /\ law' = "swing"
        /\ outFor' = IF sinceStart' >= NudgeTime /\ Size(arm') >= GuardFull
                        /\ arm' * armRate >= 0
                     THEN Smaller(outFor + span, LongestSlew) ELSE 0
      BY <1>8 DEF Swings
  <2>6. outFor' \in 0 .. SwingClamp
      BY <1>1, <1>5, <2>5, Bounds DEF Smaller, LongestSlew
  <2>7. ASSUME outFor' > 0
        PROVE  /\ sinceStart' >= NudgeTime /\ Size(arm') >= GuardFull
               /\ arm' > 0 => command' <= SwingClamp - outFor'
               /\ arm' < 0 => -command' <= SwingClamp - outFor'
    <3>1. /\ sinceStart' >= NudgeTime /\ Size(arm') >= GuardFull
          /\ arm' * armRate >= 0 /\ outFor' = Smaller(outFor + span, SwingClamp)
        BY <2>5, <2>7 DEF LongestSlew
    <3>2. outFor' <= outFor + span /\ outFor' <= SwingClamp
        BY <1>1, <1>5, <3>1, Bounds DEF Smaller
    <3>3. ASSUME arm' > 0 PROVE command' <= SwingClamp - outFor'
      <4>1. arm' >= GuardFull /\ armRate >= 0
        <5>1. arm' >= GuardFull
            BY <2>2, <3>1, <3>3 DEF Size
        <5>2. armRate >= 0
            BY <2>2, <3>1, <3>3, SameSide
        <5> QED
            BY <5>1, <5>2
      <4>2. command' <= 0 \/ command' = command - span
          BY <2>3, <2>4, <3>1, <4>1
      <4>3. command <= SwingClamp - outFor
        <5>1. CASE outFor = 0
            BY <1>1, <5>1, Bounds
        <5>2. CASE outFor > 0
          <6>1. arm > 0
              BY <1>1, <1>2, <1>6, <3>3, <5>2, Bounds DEF Size
          <6> QED
              BY <1>2, <5>2, <6>1
        <5> QED
            BY <1>1, <5>1, <5>2
      <4> QED
        <5>1. /\ command' \in Int /\ command \in Int /\ outFor \in Int
              /\ outFor' \in Int /\ SwingClamp \in Int /\ span \in Int
            BY <1>1, <1>5, <2>4, <2>6, Bounds
        <5> QED
            BY <3>2, <4>2, <4>3, <5>1, RunsDown
    <3>4. ASSUME arm' < 0 PROVE -command' <= SwingClamp - outFor'
      <4>1. arm' <= -GuardFull /\ armRate <= 0
        <5>1. \A a \in Int : Size(a) >= GuardFull /\ a < 0 => a <= -GuardFull
            BY Bounds DEF Size
        <5>2. armRate <= 0
            BY <2>2, <3>1, <3>4, SameSide
        <5> QED
            BY <2>2, <3>1, <3>4, <5>1, <5>2
      <4>2. command' >= 0 \/ command' = command + span
          BY <2>3, <2>4, <3>1, <4>1
      <4>3. -command <= SwingClamp - outFor
        <5>1. CASE outFor = 0
            BY <1>1, <5>1, Bounds
        <5>2. CASE outFor > 0
          <6>1. arm < 0
              BY <1>1, <1>2, <1>6, <3>4, <5>2, Bounds DEF Size
          <6> QED
              BY <1>2, <5>2, <6>1
        <5> QED
            BY <1>1, <5>1, <5>2
      <4> QED
        <5>1. /\ command' \in Int /\ command \in Int /\ outFor \in Int
              /\ outFor' \in Int /\ SwingClamp \in Int /\ span \in Int
            BY <1>1, <1>5, <2>4, <2>6, Bounds
        <5> QED
            BY <3>2, <4>2, <4>3, <5>1, RunsDown
    <3> QED
        BY <3>1, <3>3, <3>4
  <2> QED
      BY <1>1, <1>6, <1>7, <2>4, <2>5, <2>6, <2>7, Zenon
      DEF SwingInv, SwingTypeOK, SettingsKeepSigns, Settings, OutwardRunsDown,
          LongestSlew
<1>9. CASE Balances(span)
  <2>1. PICK demand \in {-BalanceClamp, 0, BalanceClamp} :
           command' = Slewed("balance", demand, span)
      BY <1>9 DEF Balances
  <2>2. demand \in -SwingClamp .. SwingClamp
      BY Bounds
  <2>3. command' \in -SwingClamp .. SwingClamp
      BY <1>1, <1>5, <2>1, <2>2, SlewTyped
  <2>4. law' = "balance" /\ outFor' = 0 /\ 0 \in 0 .. SwingClamp /\ ~(0 > 0)
      BY <1>9, Bounds DEF Balances
  <2> QED
      BY <1>1, <1>6, <1>7, <2>3, <2>4, Zenon
      DEF SwingInv, SwingTypeOK, SettingsKeepSigns, Settings, OutwardRunsDown,
          LongestSlew
<1> QED
    BY <1>3, <1>4, <1>8, <1>9

\* What is at rest is in the invariant.
LEMMA AtRest ==
    /\ 0 \in -ArmReach .. ArmReach /\ -4 \in -4 .. 3 /\ 0 \in 0 .. NudgeTime
    /\ 0 \in -SwingClamp .. SwingClamp /\ 0 \in 0 .. SwingClamp /\ ~(0 > 0)
BY Bounds

\* swingSettingsWithinLimits() lets no negative setting pass.
LEMMA Accepted ==
    ASSUME NEW candidate \in Candidates, WithinLimits(candidate)
    PROVE  candidate \in Settings
<1>1. Limits \in Settings
    BY SwingAssumption DEF Settings
<1>2. candidate \in [gain : Int, damping : Int, centering : Int, nudge : Int,
                     limit : Int]
    BY SwingAssumption
<1>3. DOMAIN Limits = {"gain", "damping", "centering", "nudge", "limit"}
    BY <1>1 DEF Settings
<1>4. /\ candidate["gain"] >= 0 /\ candidate["damping"] >= 0
      /\ candidate["centering"] >= 0 /\ candidate["nudge"] >= 0
      /\ candidate["limit"] >= 0
    BY <1>2, <1>3 DEF WithinLimits
<1> QED
    BY <1>2, <1>4 DEF Settings

LEMMA SwingStart == SwingInit => SwingInv
<1> SUFFICES ASSUME SwingInit PROVE SwingInv
    OBVIOUS
<1>1. settings \in Settings /\ settings \in Candidates \cup {Default}
    BY SwingAssumption DEF SwingInit, Settings
<1> QED
    BY <1>1, AtRest, Zenon
    DEF SwingInit, SwingInv, SwingTypeOK, SettingsKeepSigns, Settings,
        OutwardRunsDown, LongestSlew

LEMMA SwingStep == SwingInv /\ [SwingNext]_swingVars => SwingInv'
<1> SUFFICES ASSUME SwingInv, [SwingNext]_swingVars PROVE SwingInv'
    OBVIOUS
<1>1. CASE HandedOver
    BY <1>1, AtRest, Zenon
    DEF HandedOver, SwingInv, SwingTypeOK, SettingsKeepSigns, OutwardRunsDown,
        LongestSlew
<1>2. CASE TrialEnds
    BY <1>2, AtRest, Zenon
    DEF TrialEnds, SwingInv, SwingTypeOK, SettingsKeepSigns, OutwardRunsDown,
        LongestSlew
<1>3. CASE SendSettings
  <2>1. law = "off" /\ settings' \in Candidates /\ WithinLimits(settings')
      BY <1>3 DEF SendSettings
  <2>2. settings' \in Settings
      BY <2>1, Accepted
  <2>3. ~(outFor > 0)
      BY <2>1 DEF SwingInv, OutwardRunsDown
  <2> QED
      BY <1>3, <2>1, <2>2, <2>3, Zenon
      DEF SendSettings, SwingInv, SwingTypeOK, SettingsKeepSigns, Settings,
          OutwardRunsDown
<1>4. CASE UNCHANGED swingVars
    BY <1>4
    DEF swingVars, SwingInv, SwingTypeOK, SettingsKeepSigns, OutwardRunsDown
<1> QED
    BY <1>1, <1>2, <1>3, <1>4, SwingTick DEF SwingNext

\* Every behaviour of the law keeps SwingInv: types, settings that turn nothing
\* around, and torque that runs down while the arm is out.
THEOREM SwingInductive == SwingSpec => []SwingInv
BY SwingStart, SwingStep, PTL DEF SwingSpec

\* travelAwareSwingUpTorque() and its slew limit: an arm that has been beyond the
\* guard for long enough is not pushed further out, for any bounds and settings.
THEOREM GuardHolds == SwingSpec => []GuardTakesOver
<1>1. ASSUME SwingInv, outFor >= LongestSlew PROVE arm * command <= 0
  <2>1. /\ arm \in Int /\ command \in -SwingClamp .. SwingClamp
        /\ outFor \in 0 .. SwingClamp /\ outFor >= SwingClamp
      BY <1>1, Bounds DEF SwingInv, SwingTypeOK, LongestSlew
  <2>2. outFor > 0 => /\ arm > 0 => command <= SwingClamp - outFor
                      /\ arm < 0 => -command <= SwingClamp - outFor
      BY <1>1 DEF SwingInv, OutwardRunsDown, LongestSlew
  <2>3. command \in Int /\ (arm > 0 => command <= 0) /\ (arm < 0 => command >= 0)
      BY <2>1, <2>2, Bounds
  <2> QED
      BY <2>1, <2>3
<1>2. SwingInv => GuardTakesOver
    BY <1>1 DEF GuardTakesOver
<1> QED
    BY <1>2, SwingInductive, PTL
=============================================================================
