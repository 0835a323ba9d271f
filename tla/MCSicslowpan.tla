---------------------------- MODULE MCSicslowpan ----------------------------
(* Instances of Sicslowpan: one packet that needs three fragments by a       *)
(* single byte more than two can carry, one of two fragments, one that fits  *)
(* into a frame, and a foreign one that two fragments just carry.            *)
EXTENDS Sicslowpan

CONSTANTS three, two, whole, other, peer

MCDatagram == {three, two, whole}
MCPacket == MCDatagram \X (1..3)
MCSize == [d \in MCDatagram \cup {other} |->
             CASE d = three -> 226 [] d = two -> 200 [] d = other -> 225 [] d = whole -> 60]
MCDest == [d \in MCDatagram |-> IF d = whole THEN Broadcast ELSE peer]
=============================================================================
