----------------------------- MODULE MCSources ------------------------------
(* A Solana history of four transactions, two of them in one slot. *)
EXTENDS Sources

MCSlotOf == <<1, 2, 2, 3>>
MCIndexOf == <<0, 0, 1, 0>>
=============================================================================
