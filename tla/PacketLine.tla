------------------------------ MODULE PacketLine ------------------------------
(***************************************************************************)
(* What either direction of the connection promises to those who use it:   *)
(* the packets one side hands over come out at the other side whole, once, *)
(* unchanged and in order.  Some may never come out, since the connection  *)
(* can break.  MoveSync's wires are lines like this one.                   *)
(***************************************************************************)
EXTENDS Naturals, Sequences

CONSTANT Packets

VARIABLES
    handed,     \* every packet handed over so far
    taken       \* every packet that came out

Init == handed = <<>> /\ taken = <<>>

Hand(packet) ==
    /\ handed' = Append(handed, packet)
    /\ UNCHANGED taken

Take ==
    /\ Len(taken) < Len(handed)
    /\ taken' = Append(taken, handed[Len(taken) + 1])
    /\ UNCHANGED handed

Next == Take \/ \E packet \in Packets : Hand(packet)

Spec == Init /\ [][Next]_<<handed, taken>>
=============================================================================
