---------------------------- MODULE DescriptorPool ----------------------------
(***************************************************************************)
(* What a user of bsp/dma.c may rely on from Fx3DmaAllocateDescriptor and   *)
(* Fx3DmaFreeDescriptor: a pool of descriptor numbers.  An allocation       *)
(* answers a number nobody holds, and answers 0 only when every number is   *)
(* held; what is freed can be allocated again.  Nothing is said of the      *)
(* order in which numbers are reused.                                       *)
(***************************************************************************)
EXTENDS Naturals

CONSTANT Descriptor     \* the descriptor numbers; 0 is not one of them

VARIABLES
    inUse,              \* the descriptors allocated and not yet freed
    result,             \* the answer of the last allocation, 0 for none
    calls               \* the number of allocations, modulo 2: a call that
                        \* answers as the one before is a step all the same

vars == <<inUse, result, calls>>

NoDescriptor == 0

Init ==
    /\ inUse = {}
    /\ result = NoDescriptor
    /\ calls = 0

Allocate ==
    \E d \in Descriptor \ inUse :
        /\ inUse' = inUse \cup {d}
        /\ result' = d
        /\ calls' = 1 - calls

Exhausted ==
    /\ inUse = Descriptor
    /\ result' = NoDescriptor
    /\ calls' = 1 - calls
    /\ UNCHANGED inUse

Free ==
    \E d \in inUse :
        /\ inUse' = inUse \ {d}
        /\ UNCHANGED <<result, calls>>

Next == Allocate \/ Exhausted \/ Free

Spec == Init /\ [][Next]_vars

===============================================================================
