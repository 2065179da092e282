------------------------------ MODULE MCFwInit ------------------------------
(* FwInit with the scripts of the source.                                   *)
EXTENDS FwInit, FwScripts

AllChips == DOMAIN MtkScript

(* The command functions write the buffer length, the parameter length byte *)
(* and the parameters by hand, some of them differently for each chip: every *)
(* command that goes out is three header bytes and as many parameters as it *)
(* announces.  (A wrong length would leave the controller waiting for bytes, *)
(* or reading the next command as parameters.)                              *)
ASSUME WireFramed ==
  \A chip \in AllChips : \A i \in DOMAIN MtkScript[chip] :
    LET f == FrameOf(chip)[MtkScript[chip][i]]
    IN  f.len = 3 + f.plen /\ f.plen = f.params
=============================================================================
