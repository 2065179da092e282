----------------------------- MODULE MCBluetoothHci -----------------------------
(* BluetoothHci with two client processes.                                 *)
EXTENDS BluetoothHci

TwoClients == {"c1", "c2"}
TwoBinders == {"b1", "b2"}
=============================================================================
