------------------------------ MODULE MCDmaRing ------------------------------
(***************************************************************************)
(* A ring of four buffers, the smallest in which the links of the producers *)
(* and of the consumer differ from each other and from a buffer's own       *)
(* number; an acquisition goes round it more than twice.                    *)
(***************************************************************************)
EXTENDS DmaRing
==============================================================================
