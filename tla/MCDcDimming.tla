------------------------------ MODULE MCDcDimming ------------------------------
(* DcDimming with two services (one may be left behind), two changes of the  *)
(* view, two threads and two switches at a time.                             *)
EXTENDS DcDimming
=============================================================================
