------------------------------ MODULE MCHbmObserver ------------------------------
(* HbmObserver with two threads and the observers of two services that   *)
(* may overlap.                                                            *)
EXTENDS HbmObserver
=============================================================================
