----------------------------- MODULE MCBkernel ------------------------------
(* The bus with two users, one group name and two slots of each kind, so     *)
(* that a dead group and its successor are there at once.                    *)
EXTENDS Bkernel, TLC

CONSTANTS u1, u2
MCUsers == {u1, u2}
MCSlots == {0, 1}
MCSlot == {0}
=============================================================================
