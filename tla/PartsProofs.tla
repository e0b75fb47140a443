------------------------------ MODULE PartsProofs ------------------------------
(***************************************************************************)
(* Proofs about MCParts: a step of the six components is a step of one of    *)
(* them and a stutter of the other five, so that a behaviour of the six is a  *)
(* behaviour of each, and what is proved of a component holds beside the       *)
(* others.                                                                    *)
(***************************************************************************)
EXTENDS MCParts, PageProofs, ControlProofs, HoldProofs, BusProofs

-----------------------------------------------------------------------------
(* One component moves *)

\* What moves the six moves one of them.
LEMMA OneMoves ==
    PartsNext => \/ Page(PageNext) \/ Estimator(EncoderNext) \/ Position(HoldNext)
                 \/ Legacy(LegacyNext) \/ Uart(UartNext) \/ Torque(SwingNext)
<1> USE DEF Page, Estimator, Position, Legacy, Uart, Torque
<1>1. PartsNext => part \in {"page", "encoder", "hold", "legacy", "uart", "swing"}
    BY Zenon DEF PartsNext
<1>2. ASSUME PartsNext, part = "page" PROVE Page(PageNext)
    BY <1>2, Zenon DEF PartsNext, PageNext
<1>3. ASSUME PartsNext, part = "encoder" PROVE Estimator(EncoderNext)
    BY <1>3, Zenon DEF PartsNext, EncoderNext
<1>4. ASSUME PartsNext, part = "hold" PROVE Position(HoldNext)
    BY <1>4, Zenon DEF PartsNext, HoldNext
<1>5. ASSUME PartsNext, part = "legacy" PROVE Legacy(LegacyNext)
    BY <1>5, Zenon DEF PartsNext, LegacyNext
<1>6. ASSUME PartsNext, part = "uart" PROVE Uart(UartNext)
    BY <1>6, Zenon DEF PartsNext, UartNext
<1>7. ASSUME PartsNext, part = "swing" PROVE Torque(SwingNext)
    BY <1>7, Zenon DEF PartsNext, SwingNext
<1> HIDE DEF Page, Estimator, Position, Legacy, Uart, Torque
<1> QED
    BY <1>1, <1>2, <1>3, <1>4, <1>5, <1>6, <1>7

\* To each component it is a step of its own, or none.
LEMMA OwnSteps ==
    ASSUME [PartsNext]_partsVars
    PROVE  /\ [PageNext]_browserVars /\ [EncoderNext]_encoderVars /\ [HoldNext]_holdVars
           /\ [LegacyNext]_legacyVars /\ [UartNext]_uartVars /\ [SwingNext]_swingVars
<1>1. Page(PageNext) => /\ PageNext
      /\ UNCHANGED <<encoderVars, holdVars, legacyVars, uartVars, swingVars>>
    BY Zenon DEF Page
<1>2. Estimator(EncoderNext) => /\ EncoderNext
      /\ UNCHANGED <<browserVars, holdVars, legacyVars, uartVars, swingVars>>
    BY Zenon DEF Estimator
<1>3. Position(HoldNext) => /\ HoldNext
      /\ UNCHANGED <<browserVars, encoderVars, legacyVars, uartVars, swingVars>>
    BY Zenon DEF Position
<1>4. Legacy(LegacyNext) => /\ LegacyNext
      /\ UNCHANGED <<browserVars, encoderVars, holdVars, uartVars, swingVars>>
    BY Zenon DEF Legacy
<1>5. Uart(UartNext) => /\ UartNext
      /\ UNCHANGED <<browserVars, encoderVars, holdVars, legacyVars, swingVars>>
    BY Zenon DEF Uart
<1>6. Torque(SwingNext) => /\ SwingNext
      /\ UNCHANGED <<browserVars, encoderVars, holdVars, legacyVars, uartVars>>
    BY Zenon DEF Torque
<1>7. UNCHANGED partsVars =>
        UNCHANGED <<browserVars, encoderVars, holdVars, legacyVars, uartVars, swingVars>>
    BY Zenon DEF partsVars
<1> QED
    BY <1>1, <1>2, <1>3, <1>4, <1>5, <1>6, <1>7, OneMoves

-----------------------------------------------------------------------------
(* The theorems *)

\* The six share no state: beside the other five, in any order of their steps, each
\* behaves as it does alone.
THEOREM EachAsAlone ==
    PartsSpec => /\ PageSpec /\ EncoderSpec /\ HoldSpec
                 /\ LegacySpec /\ UartSpec /\ SwingSpec
<1>1. PartsInit => /\ PageInit /\ EncoderInit /\ HoldInit
                   /\ LegacyInit /\ UartInit /\ SwingInit
    BY Zenon DEF PartsInit
<1> QED
    BY <1>1, OwnSteps, PTL
    DEF PartsSpec, PageSpec, EncoderSpec, HoldSpec, LegacySpec, UartSpec, SwingSpec

\* The six types, of all that MCParts keeps.
THEOREM PartsTyped == PartsSpec => []PartsTypeOK
<1>1. /\ EncoderInv => EncoderTypeOK
      /\ LegacyInv => LegacyTypeOK
      /\ UartInv => UartTypeOK
      /\ SwingInv => SwingTypeOK
    BY DEF EncoderInv, LegacyInv, UartInv, SwingInv
<1>2. PageTypeOK /\ EncoderTypeOK /\ HoldTypeOK /\ LegacyTypeOK /\ UartTypeOK /\ SwingTypeOK
        => PartsTypeOK
    BY Zenon DEF PartsTypeOK
<1> QED
    BY <1>1, <1>2, EachAsAlone, PageTyped, HoldTyped, EncoderInductive, LegacyInductive,
       UartInductive, SwingInductive, PTL

\* What each of the six promises, of the controllers, the page and the sensor put
\* together: the invariants that the run of MCParts checks, the one on isolated
\* outliers as long as the envelope lets the pendulum move a count a tick.
THEOREM PromisesKept ==
    ASSUME CountATick
    PROVE  PartsSpec => /\ [](SpaceDecides /\ OneFrameStops)
                        /\ [](CorruptionCostsOneRead /\ NoLockout)
                        /\ [](IsolatedOutlierIgnored /\ SteersOnCurrentZero)
                        /\ [](HoldOutlastsTrouble /\ OwnWaitsNotLate /\ HoldSurvives)
                        /\ [](LateLinesCostNoFeedback /\ MixUpEnds /\ GuardTakesOver)
BY EachAsAlone, SpaceDecided, OneFrameEnough, OneReadLost, NeverLockedOut, OutlierIgnored,
   CurrentZeroSteers, HoldOutlasts, OwnWaitsForgiven, HoldEndsForCause,
   FeedbackAnswered, AnswersAreOwn, GuardHolds, PTL
=============================================================================
