----------------------------- MODULE PacketChannel -----------------------------
(***************************************************************************)
(* What the packetizers of the Bluetooth HAL promise: packets, not bytes.  *)
(* Each packet of the controller reaches the receiver for its type whole   *)
(* and unchanged, in the order of sending; any number may be on their way. *)
(***************************************************************************)
EXTENDS Sequences, Naturals

VARIABLES sent, got  \* all packets so far, at either end

Init == sent = <<>> /\ got = <<>>

Put ==
  /\ Len(sent') = Len(sent) + 1 /\ SubSeq(sent', 1, Len(sent)) = sent
  /\ UNCHANGED got

Get ==
  /\ Len(got) < Len(sent)
  /\ got' = Append(got, sent[Len(got) + 1])
  /\ UNCHANGED sent

Spec == Init /\ [][Put \/ Get]_<<sent, got>>
=============================================================================
