------------------------------ MODULE MCFdWatcher ------------------------------
(* FdWatcher with the two descriptors of the MCT protocol and two binder   *)
(* threads.                                                                *)
EXTENDS FdWatcher

MctFds == <<"event", "acl">>
TwoSenders == {"s1", "s2"}
=============================================================================
