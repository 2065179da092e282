------------------------------ MODULE MCHciFraming ------------------------------
(* HciFraming with bytes of two values: an ACL packet of three bytes needs *)
(* both bytes of its length.                                               *)
EXTENDS HciFraming

In == {[type |-> EVENT, len |-> 1], [type |-> EVENT, len |-> 0],
       [type |-> SCO_DATA, len |-> 1], [type |-> ACL_DATA, len |-> 2]}
Out == {[type |-> COMMAND, len |-> 2], [type |-> ACL_DATA, len |-> 1],
        [type |-> SCO_DATA, len |-> 1]}
TwoWriters == {"binder", "init"}
=============================================================================
