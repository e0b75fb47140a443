------------------------------ MODULE MotorGate ------------------------------
(***************************************************************************)
(* What a controller promises about the motor, with nothing of how it keeps *)
(* the promise: a gate that is off, prepares (the drive is being set up, or   *)
(* its own position loop holds the arm), drives (the controller commands a    *)
(* torque) or is latched in a fault, and the saved reference every trial      *)
(* needs.                                                                     *)
(***************************************************************************)
EXTENDS Integers

CONSTANTS
    Limit,      \* the largest torque the controller may ever command
    MaxStep,    \* the largest change of a command from one tick to the next
    Restarts    \* TRUE where the controller may end and be started anew

VARIABLES
    gate,       \* "off", "prepare", "drive" or "fault"
    reference,  \* TRUE while a saved zero may be relied on
    torque      \* the commanded torque, in the units of Limit

vars == <<gate, reference, torque>>

Torques == -Limit .. Limit

TypeOK ==
    /\ gate \in {"off", "prepare", "drive", "fault"}
    /\ reference \in BOOLEAN
    /\ torque \in Torques

Init == gate = "off" /\ reference = FALSE /\ torque = 0

\* A zero is saved only while the motor is off.
Save ==
    /\ gate = "off"
    /\ reference' = TRUE
    /\ UNCHANGED <<gate, torque>>

\* A trial starts from off, with a reference and no torque.
Start ==
    /\ gate = "off" /\ reference
    /\ gate' \in {"prepare", "drive"}
    /\ torque' = 0
    /\ UNCHANGED reference

\* The drive's position loop hands over with no torque commanded.
HandOver ==
    /\ gate = "prepare"
    /\ gate' = "drive"
    /\ torque' = 0
    /\ UNCHANGED reference

\* One control tick moves the command by at most MaxStep.
Drive ==
    /\ gate = "drive"
    /\ torque' \in Torques
    /\ torque' - torque \in -MaxStep .. MaxStep
    /\ UNCHANGED <<gate, reference>>

\* Stopping on purpose, and acknowledging a fault, keep the reference.
Stop ==
    /\ gate' = "off"
    /\ torque' = 0
    /\ UNCHANGED reference

\* A fault removes the torque and may cost the reference, never grant one.
Trip ==
    /\ gate # "fault"
    /\ gate' = "fault"
    /\ torque' = 0
    /\ reference' \in {reference, FALSE}

\* A controller that ends commands nothing and forgets its reference.
End ==
    /\ Restarts
    /\ gate' = "off" /\ reference' = FALSE /\ torque' = 0

Next == Save \/ Start \/ HandOver \/ Drive \/ Stop \/ Trip \/ End

Spec == Init /\ [][Next]_vars
=============================================================================
