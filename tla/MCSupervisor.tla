---------------------------- MODULE MCSupervisor ----------------------------
(* Small instances of Supervisor for TLC. *)
EXTENDS Supervisor

Pose(arm, armRate, pend, pendRate) ==
    [arm |-> arm, armRate |-> armRate, pend |-> pend, pendRate |-> pendRate]

Hanging == Pose(0, 0, -3142, 0)
OffCenter == Pose(500, 0, -3142, 0)
Upright == Pose(0, 0, 0, 0)
Leaning == Pose(0, 0, 200, 0)
Fallen == Pose(0, 0, 1000, 3000)
Spinning == Pose(0, 0, 3000, 60000)
FarOut == Pose(2300, 2000, -3142, 0)
ArmRacing == Pose(0, 9500, -3142, 0)

SwingPoses == {Hanging, Upright, Leaning, Fallen}
TwoPoses == {Hanging, Upright}
TuningPoses == {Upright, Leaning, Fallen}
AllPoses == {Hanging, OffCenter, Upright, Leaning, Fallen, Spinning, FarOut,
             ArmRacing}

SomeDemands == {-5, -1, 0, 5}
OneDemand == {5}
FarDemands == {-5, 0, 5}
=============================================================================
