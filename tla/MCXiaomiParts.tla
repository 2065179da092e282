------------------------------ MODULE MCXiaomiParts ------------------------------
(* XiaomiParts with two instances of the service that may overlap, and the *)
(* two gestures that share a sensor.                                       *)
EXTENDS XiaomiParts

TwoInstances == {"first", "second"}
TwoGestures == {"hand_wave", "pocket"}
=============================================================================
