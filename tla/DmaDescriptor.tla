----------------------------- MODULE DmaDescriptor -----------------------------
(***************************************************************************)
(* The descriptor allocator of bsp/dma.c.  Descriptors are numbered from 1; *)
(* a watermark separates those that were never handed out from the others,  *)
(* and the freed ones form a LIFO list threaded through the word            *)
(* dscr_chain of the descriptors themselves.  That same word is rewritten,  *)
(* with the links the DMA sockets follow, whenever a descriptor in use is   *)
(* filled (Fx3DmaFillDescriptor), and nothing but the discipline of the     *)
(* callers keeps the two uses apart.                                        *)
(*                                                                          *)
(* inUse, result and calls are what the callers see: the numbers they hold, *)
(* the last answer of Fx3DmaAllocateDescriptor and that it was called.      *)
(***************************************************************************)
EXTENDS Naturals, FiniteSets

CONSTANT NumDescriptors     \* the literal 768 of Fx3DmaAllocateDescriptor

ASSUME NumDescriptorsAssumption == NumDescriptors \in Nat \ {0}

VARIABLES
    firstUnallocated,       \* Fx3DmaDescriptorFirstUnallocated
    freeListHead,           \* Fx3DmaDescriptorFreeListHead
    dscrChain,              \* the word dscr_chain of each descriptor
    inUse,                  \* the descriptors the callers hold
    result,                 \* what the last allocation returned
    calls                   \* the number of allocations, modulo 2

vars == <<firstUnallocated, freeListHead, dscrChain, inUse, result, calls>>

Descriptor == 1 .. (NumDescriptors - 1)
NoDescriptor == 0
EndOfChain == 65535         \* the chain of Fx3DmaSimpleTransferRead and ...Write
ChainWord == Descriptor \cup {NoDescriptor, EndOfChain}

Init ==
    /\ firstUnallocated = 1
    /\ freeListHead = NoDescriptor
    /\ dscrChain \in [Descriptor -> ChainWord]     \* whatever the memory holds
    /\ inUse = {}
    /\ result = NoDescriptor
    /\ calls = 0

-----------------------------------------------------------------------------
(***************************************************************************)
(* Fx3DmaAllocateDescriptor: from the free list, else a fresh descriptor,   *)
(* else 0 (the descriptor of a caller that does not look at the answer).    *)
(***************************************************************************)
\* Mutant: the head of the free list is handed out but not taken off.
AllocateKeepsHead ==
    /\ freeListHead # NoDescriptor
    /\ result' = freeListHead
    /\ calls' = 1 - calls
    /\ inUse' = inUse \cup {freeListHead}
    /\ UNCHANGED <<firstUnallocated, freeListHead, dscrChain>>

AllocateFromFreeList ==
    /\ freeListHead # NoDescriptor
    /\ result' = freeListHead
    /\ calls' = 1 - calls
    /\ freeListHead' = dscrChain[freeListHead]
    /\ inUse' = inUse \cup {freeListHead}
    /\ UNCHANGED <<firstUnallocated, dscrChain>>

\* Mutant: the watermark is compared with <=.
AllocateOneTooMany ==
    /\ freeListHead = NoDescriptor
    /\ firstUnallocated <= NumDescriptors
    /\ result' = firstUnallocated
    /\ calls' = 1 - calls
    /\ firstUnallocated' = firstUnallocated + 1
    /\ inUse' = inUse \cup {firstUnallocated}
    /\ UNCHANGED <<freeListHead, dscrChain>>

AllocateFresh ==
    /\ freeListHead = NoDescriptor
    /\ firstUnallocated < NumDescriptors
    /\ result' = firstUnallocated
    /\ calls' = 1 - calls
    /\ firstUnallocated' = firstUnallocated + 1
    /\ inUse' = inUse \cup {firstUnallocated}
    /\ UNCHANGED <<freeListHead, dscrChain>>

AllocateFails ==
    /\ freeListHead = NoDescriptor
    /\ ~(firstUnallocated < NumDescriptors)
    /\ result' = NoDescriptor
    /\ calls' = 1 - calls
    /\ UNCHANGED <<firstUnallocated, freeListHead, dscrChain, inUse>>

\* Mutant: the freed descriptor is not chained to the others.
FreeUnchained(d) ==
    /\ d \in inUse
    /\ freeListHead' = d
    /\ inUse' = inUse \ {d}
    /\ UNCHANGED <<firstUnallocated, dscrChain, result, calls>>

(***************************************************************************)
(* Fx3DmaFreeDescriptor; the callers free what they hold, once.  Freeing 0  *)
(* does nothing.                                                            *)
(***************************************************************************)
Free(d) ==
    /\ d \in inUse
    /\ dscrChain' = [dscrChain EXCEPT ![d] = freeListHead]
    /\ freeListHead' = d
    /\ inUse' = inUse \ {d}
    /\ UNCHANGED <<firstUnallocated, result, calls>>

(***************************************************************************)
(* Fx3DmaFillDescriptor: the links of a ring (setup_descriptors) or the end *)
(* of chain of a single transfer, in a descriptor the caller holds.         *)
(***************************************************************************)
Fill(d, chain) ==
    /\ d \in inUse
    /\ dscrChain' = [dscrChain EXCEPT ![d] = chain]
    /\ UNCHANGED <<firstUnallocated, freeListHead, inUse, result, calls>>

Next ==
    \/ AllocateFromFreeList
    \/ AllocateFresh
    \/ AllocateFails
    \/ \E d \in Descriptor : Free(d)
    \/ \E d \in Descriptor, chain \in ChainWord : Fill(d, chain)

Spec == Init /\ [][Next]_vars

-----------------------------------------------------------------------------
\* The descriptors that were handed out at least once and are not held now.
Freed == (1 .. (firstUnallocated - 1)) \ inUse

\* The ranges of the allocator's variables (bsp/dma.c:34-35, dma.h:35).
TypeOK ==
    /\ firstUnallocated \in 1 .. NumDescriptors
    /\ freeListHead \in Descriptor \cup {NoDescriptor}
    /\ dscrChain \in [Descriptor -> ChainWord]
    /\ inUse \subseteq 1 .. (firstUnallocated - 1)
    /\ result \in Descriptor \cup {NoDescriptor}
    /\ calls \in 0 .. 1

(***************************************************************************)
(* s lists the freed descriptors, each once, from the one freed first: the  *)
(* last is the head of the free list and each is chained to the one before. *)
(***************************************************************************)
Threads(s, n) ==
    /\ s \in [1 .. n -> Freed]
    /\ \A d \in Freed : \E i \in 1 .. n : s[i] = d
    /\ \A i, j \in 1 .. n : s[i] = s[j] => i = j
    /\ freeListHead = IF n = 0 THEN NoDescriptor ELSE s[n]
    /\ \A i \in 1 .. n :
           dscrChain[s[i]] = IF i = 1 THEN NoDescriptor ELSE s[i - 1]

(***************************************************************************)
(* The free list holds every freed descriptor exactly once and ends in 0,   *)
(* whatever the holders of the other descriptors write in theirs: nothing   *)
(* is leaked, nothing is on the list twice, nothing in use is on it         *)
(* (Fx3DmaAllocateDescriptor and Fx3DmaFreeDescriptor, bsp/dma.c:37-59).    *)
(***************************************************************************)
FreeListExact ==
    \E s \in [1 .. Cardinality(Freed) -> Freed] : Threads(s, Cardinality(Freed))

(***************************************************************************)
(* The allocator is a pool: it never answers a descriptor that is held, and *)
(* answers 0 only when all are held.                                        *)
(***************************************************************************)
Pool == INSTANCE DescriptorPool
ImplementsPool == Pool!Spec

===============================================================================
