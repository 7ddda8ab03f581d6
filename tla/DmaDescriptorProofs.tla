-------------------------- MODULE DmaDescriptorProofs --------------------------
(***************************************************************************)
(* Proofs about the descriptor allocator, for every number of descriptors.  *)
(* The inductive invariant is TypeOK and ListInv: the free list is threaded *)
(* by some enumeration s of the freed descriptors.                          *)
(***************************************************************************)
EXTENDS DmaDescriptor, FiniteSetTheorems, TLAPS

\* FreeListExact without fixing the length of the enumeration.
ListInv == \E n \in Nat : \E s \in [1 .. n -> Freed] : Threads(s, n)

IInv == TypeOK /\ ListInv

-----------------------------------------------------------------------------
\* The initial state: nothing was handed out, so the empty list threads it.
LEMMA InitIInv == Init => IInv
<1> SUFFICES ASSUME Init PROVE IInv
  OBVIOUS
<1> USE NumDescriptorsAssumption
<1>1. TypeOK
  BY DEF Init, TypeOK, Descriptor, NoDescriptor, ChainWord
<1>2. ListInv
  <2>1. Freed = {}
    BY DEF Init, Freed
  <2> DEFINE none == [i \in 1 .. 0 |-> 0]
  <2>2. none \in [1 .. 0 -> Freed]
    OBVIOUS
  <2>3. Threads(none, 0)
    BY <2>1 DEF Threads, Init, NoDescriptor
  <2> HIDE DEF none
  <2> QED
    BY <2>2, <2>3 DEF ListInv
<1> QED
  BY <1>1, <1>2 DEF IInv

-----------------------------------------------------------------------------
\* Taking the head off the list leaves the list of the other descriptors.
LEMMA PopKeepsIInv ==
  ASSUME IInv, AllocateFromFreeList
  PROVE  IInv' /\ freeListHead \in Freed
<1> USE NumDescriptorsAssumption
<1>1. PICK n \in Nat : \E s \in [1 .. n -> Freed] : Threads(s, n)
  BY DEF IInv, ListInv
<1>2. PICK s \in [1 .. n -> Freed] : Threads(s, n)
  BY <1>1
<1>3. n # 0 /\ freeListHead = s[n] /\ freeListHead \in Freed
  BY <1>2 DEF Threads, AllocateFromFreeList, NoDescriptor
<1>4. Freed \subseteq Descriptor /\ NoDescriptor \notin Freed
  BY DEF Freed, IInv, TypeOK, Descriptor, NoDescriptor
<1>5. freeListHead' = IF n = 1 THEN NoDescriptor ELSE s[n - 1]
  BY <1>2, <1>3 DEF Threads, AllocateFromFreeList
<1>6. freeListHead' \in Freed \cup {NoDescriptor}
  BY <1>2, <1>3, <1>5
<1>7. Freed' = Freed \ {freeListHead}
  BY DEF Freed, AllocateFromFreeList
<1>8. TypeOK'
  <2>1. result' \in Descriptor \cup {NoDescriptor} /\ calls' \in 0 .. 1
    BY <1>3, <1>4 DEF IInv, TypeOK, AllocateFromFreeList
  <2>2. inUse' \subseteq 1 .. (firstUnallocated' - 1)
    BY <1>3 DEF IInv, TypeOK, AllocateFromFreeList, Freed
  <2> QED
    BY <1>4, <1>6, <2>1, <2>2 DEF IInv, TypeOK, AllocateFromFreeList
<1>9. ListInv'
  <2> DEFINE t == [i \in 1 .. (n - 1) |-> s[i]]
  <2>1. t \in [1 .. (n - 1) -> Freed']
    BY <1>2, <1>3, <1>7 DEF Threads
  <2>2. \A d \in Freed' : \E i \in 1 .. (n - 1) : t[i] = d
    BY <1>2, <1>3, <1>7 DEF Threads
  <2>3. \A i, j \in 1 .. (n - 1) : t[i] = t[j] => i = j
    BY <1>2, <1>3 DEF Threads
  <2>4. freeListHead' = IF n - 1 = 0 THEN NoDescriptor ELSE t[n - 1]
    BY <1>3, <1>5
  <2>5. \A i \in 1 .. (n - 1) :
            dscrChain'[t[i]] = IF i = 1 THEN NoDescriptor ELSE t[i - 1]
    <3> SUFFICES ASSUME NEW i \in 1 .. (n - 1)
                 PROVE  dscrChain'[t[i]] = IF i = 1 THEN NoDescriptor ELSE t[i - 1]
      OBVIOUS
    <3>1. dscrChain'[t[i]] = dscrChain[s[i]]
      BY DEF AllocateFromFreeList
    <3>2. dscrChain[s[i]] = IF i = 1 THEN NoDescriptor ELSE s[i - 1]
      BY <1>2, SMTT(40) DEF Threads
    <3>3. i # 1 => t[i - 1] = s[i - 1]
      OBVIOUS
    <3> QED
      BY <3>1, <3>2, <3>3
  <2>6. n - 1 \in Nat
    BY <1>3
  <2> HIDE DEF t
  <2>7. Threads(t, n - 1)'
    BY <2>1, <2>2, <2>3, <2>4, <2>5 DEF Threads, NoDescriptor
  <2> QED
    BY <2>1, <2>6, <2>7 DEF ListInv
<1> QED
  BY <1>3, <1>8, <1>9 DEF IInv

\* A fresh descriptor is taken only when the list, and so Freed, is empty.
LEMMA EmptyListNothingFreed ==
  ASSUME IInv, freeListHead = NoDescriptor
  PROVE  Freed = {}
<1>1. PICK n \in Nat : \E s \in [1 .. n -> Freed] : Threads(s, n)
  BY DEF IInv, ListInv
<1>2. PICK s \in [1 .. n -> Freed] : Threads(s, n)
  BY <1>1
<1>3. n = 0
  BY <1>2 DEF Threads, NoDescriptor, Freed
<1> QED
  BY <1>2, <1>3 DEF Threads

LEMMA FreshKeepsIInv ==
  ASSUME IInv, AllocateFresh
  PROVE  IInv'
<1> USE NumDescriptorsAssumption
<1>1. Freed = {}
  BY EmptyListNothingFreed DEF AllocateFresh
<1>2. TypeOK'
  BY DEF IInv, TypeOK, AllocateFresh, Descriptor
<1>3. Freed' = {}
  BY <1>1 DEF Freed, AllocateFresh, IInv, TypeOK
<1>4. freeListHead' = NoDescriptor
  BY DEF AllocateFresh
<1>5. ListInv'
  <2> DEFINE none == [i \in 1 .. 0 |-> 0]
  <2>1. none \in [1 .. 0 -> Freed']
    OBVIOUS
  <2>2. Threads(none, 0)'
    BY <1>3, <1>4 DEF Threads, NoDescriptor
  <2> HIDE DEF none
  <2> QED
    BY <2>1, <2>2 DEF ListInv
<1> QED
  BY <1>2, <1>5 DEF IInv

\* The descriptor put back becomes the last of the enumeration.
LEMMA FreeKeepsIInv ==
  ASSUME IInv, NEW d \in Descriptor, Free(d)
  PROVE  IInv'
<1> USE NumDescriptorsAssumption
<1>1. PICK n \in Nat : \E s \in [1 .. n -> Freed] : Threads(s, n)
  BY DEF IInv, ListInv
<1>2. PICK s \in [1 .. n -> Freed] : Threads(s, n)
  BY <1>1
<1>3. d \notin Freed /\ Freed' = Freed \cup {d}
  BY DEF Freed, Free, IInv, TypeOK
<1>4. TypeOK'
  BY DEF IInv, TypeOK, Free, ChainWord
<1>5. ListInv'
  <2> DEFINE t == [i \in 1 .. (n + 1) |-> IF i = n + 1 THEN d ELSE s[i]]
  <2>1. t \in [1 .. (n + 1) -> Freed']
    BY <1>2, <1>3
  <2>2. \A e \in Freed' : \E i \in 1 .. (n + 1) : t[i] = e
    <3> SUFFICES ASSUME NEW e \in Freed' PROVE \E i \in 1 .. (n + 1) : t[i] = e
      OBVIOUS
    <3>1. CASE e = d
      <4>1. n + 1 \in 1 .. (n + 1) /\ t[n + 1] = e
        BY <3>1
      <4> QED
        BY <4>1
    <3>2. CASE e \in Freed
      <4>1. PICK i \in 1 .. n : s[i] = e
        BY <1>2, <3>2 DEF Threads
      <4>2. i \in 1 .. (n + 1) /\ t[i] = e
        BY <4>1
      <4> QED
        BY <4>2
    <3> QED
      BY <1>3, <3>1, <3>2
  <2>3. \A i, j \in 1 .. (n + 1) : t[i] = t[j] => i = j
    <3>1. \A i \in 1 .. n : s[i] # d
      BY <1>2, <1>3
    <3>2. \A i, j \in 1 .. n : s[i] = s[j] => i = j
      BY <1>2 DEF Threads
    <3> QED
      BY <3>1, <3>2
  <2>4. freeListHead' = t[n + 1]
    BY DEF Free
  <2>5. \A i \in 1 .. (n + 1) :
            dscrChain'[t[i]] = IF i = 1 THEN NoDescriptor ELSE t[i - 1]
    <3> SUFFICES ASSUME NEW i \in 1 .. (n + 1)
                 PROVE  dscrChain'[t[i]] = IF i = 1 THEN NoDescriptor ELSE t[i - 1]
      OBVIOUS
    <3>0. d \in DOMAIN dscrChain
      BY DEF IInv, TypeOK
    <3>1. CASE i = n + 1
      <4>1. dscrChain'[t[i]] = freeListHead
        BY <3>0, <3>1 DEF Free
      <4>2. freeListHead = IF n = 0 THEN NoDescriptor ELSE s[n]
        BY <1>2 DEF Threads
      <4>3. n # 0 => t[i - 1] = s[n]
        BY <3>1
      <4> QED
        BY <3>1, <4>1, <4>2, <4>3
    <3>2. CASE i # n + 1
      <4>1. i \in 1 .. n /\ t[i] = s[i] /\ s[i] # d
        BY <1>2, <1>3, <3>2
      <4>2. dscrChain'[t[i]] = dscrChain[s[i]]
        BY <3>0, <4>1 DEF Free
      <4>3. dscrChain[s[i]] = IF i = 1 THEN NoDescriptor ELSE s[i - 1]
        BY <1>2, <4>1 DEF Threads
      <4>4. i # 1 => t[i - 1] = s[i - 1]
        BY <4>1
      <4> QED
        BY <4>2, <4>3, <4>4
    <3> QED
      BY <3>1, <3>2
  <2>6. n + 1 \in Nat /\ n + 1 # 0
    OBVIOUS
  <2> HIDE DEF t
  <2>7. Threads(t, n + 1)'
    BY <2>1, <2>2, <2>3, <2>4, <2>5, <2>6 DEF Threads, NoDescriptor
  <2> QED
    BY <2>1, <2>6, <2>7 DEF ListInv
<1> QED
  BY <1>4, <1>5 DEF IInv

\* Filling writes dscr_chain only where the free list does not read it.
LEMMA FillKeepsIInv ==
  ASSUME IInv, NEW d \in Descriptor, NEW chain \in ChainWord, Fill(d, chain)
  PROVE  IInv'
<1>1. PICK n \in Nat : \E s \in [1 .. n -> Freed] : Threads(s, n)
  BY DEF IInv, ListInv
<1>2. PICK s \in [1 .. n -> Freed] : Threads(s, n)
  BY <1>1
<1>3. d \notin Freed /\ Freed' = Freed
  BY DEF Freed, Fill
<1>4. TypeOK'
  BY DEF IInv, TypeOK, Fill
<1>5. \A i \in 1 .. n : dscrChain'[s[i]] = dscrChain[s[i]]
  BY <1>2, <1>3 DEF Fill, IInv, TypeOK
<1>6. Threads(s, n)'
  BY <1>2, <1>3, <1>5 DEF Threads, Fill, NoDescriptor
<1>7. ListInv'
  BY <1>3, <1>6 DEF ListInv
<1> QED
  BY <1>4, <1>7 DEF IInv

LEMMA UnchangedKeepsIInv ==
  ASSUME IInv, UNCHANGED vars
  PROVE  IInv'
<1>1. TypeOK'
  BY DEF IInv, TypeOK, vars
<1>2. Freed' = Freed
  BY DEF Freed, vars
<1>3. \A s, n : Threads(s, n)' <=> Threads(s, n)
  BY <1>2 DEF Threads, vars
<1>4. ListInv'
  BY <1>2, <1>3 DEF IInv, ListInv
<1> QED
  BY <1>1, <1>4 DEF IInv

LEMMA NextKeepsIInv == IInv /\ [Next]_vars => IInv'
<1> SUFFICES ASSUME IInv, [Next]_vars PROVE IInv'
  OBVIOUS
<1>1. CASE AllocateFromFreeList
  BY <1>1, PopKeepsIInv
<1>2. CASE AllocateFresh
  BY <1>2, FreshKeepsIInv
<1>3. CASE AllocateFails
  BY <1>3 DEF AllocateFails, IInv, TypeOK, ListInv, Threads, Freed, NoDescriptor
<1>4. CASE \E d \in Descriptor : Free(d)
  BY <1>4, FreeKeepsIInv
<1>5. CASE \E d \in Descriptor, chain \in ChainWord : Fill(d, chain)
  BY <1>5, FillKeepsIInv
<1>6. CASE UNCHANGED vars
  BY <1>6, UnchangedKeepsIInv
<1> QED
  BY <1>1, <1>2, <1>3, <1>4, <1>5, <1>6 DEF Next

LEMMA Invariance == Spec => []IInv
BY InitIInv, NextKeepsIInv, PTL DEF Spec

-----------------------------------------------------------------------------
(***************************************************************************)
(* The allocator's variables stay in their ranges: in particular no number  *)
(* outside 1..767 is ever handed out (bsp/dma.h:35).                        *)
(***************************************************************************)
THEOREM TypeCorrect == Spec => []TypeOK
<1>1. IInv => TypeOK
  BY DEF IInv
<1> QED
  BY <1>1, Invariance, PTL

(***************************************************************************)
(* The free list holds each freed descriptor exactly once, for every number *)
(* of descriptors and every interleaving of allocations, fills and frees.   *)
(***************************************************************************)
THEOREM FreeListCorrect == Spec => []FreeListExact
<1>1. IInv => FreeListExact
  <2> SUFFICES ASSUME IInv PROVE FreeListExact
    OBVIOUS
  <2>1. PICK n \in Nat : \E s \in [1 .. n -> Freed] : Threads(s, n)
    BY DEF IInv, ListInv
  <2>2. PICK s \in [1 .. n -> Freed] : Threads(s, n)
    BY <2>1
  <2>3. s \in Bijection(1 .. n, Freed)
    BY <2>2 DEF Threads, Bijection, Injection, Surjection, IsInjective
  <2>4. Cardinality(Freed) = n
    BY <2>3, FS_CountingElements DEF ExistsBijection
  <2> QED
    BY <2>2, <2>4 DEF FreeListExact
<1> QED
  BY <1>1, Invariance, PTL

(***************************************************************************)
(* The allocator implements the pool its callers rely on: what it answers   *)
(* is not held by anybody, and it answers 0 only when everything is held.   *)
(***************************************************************************)
THEOREM AllocatorIsPool == Spec => ImplementsPool
<1> USE NumDescriptorsAssumption
<1>1. Init => Pool!Init
  BY DEF Init, Pool!Init, NoDescriptor, Pool!NoDescriptor
<1>2. IInv /\ IInv' /\ [Next]_vars => [Pool!Next]_(Pool!vars)
  <2> SUFFICES ASSUME IInv, IInv', [Next]_vars PROVE [Pool!Next]_(Pool!vars)
    OBVIOUS
  <2>1. CASE AllocateFromFreeList
    <3>0. freeListHead \in Freed
      BY <2>1, PopKeepsIInv
    <3>1. freeListHead \in Descriptor \ inUse
      BY <3>0 DEF Freed, IInv, TypeOK, Descriptor
    <3>2. Pool!Allocate
      BY <2>1, <3>1 DEF AllocateFromFreeList, Pool!Allocate
    <3> QED
      BY <3>2 DEF Pool!Next
  <2>2. CASE AllocateFresh
    <3>1. firstUnallocated \in Descriptor \ inUse
      BY <2>2 DEF AllocateFresh, IInv, TypeOK, Descriptor
    <3>2. Pool!Allocate
      BY <2>2, <3>1 DEF AllocateFresh, Pool!Allocate
    <3> QED
      BY <3>2 DEF Pool!Next
  <2>3. CASE AllocateFails
    <3>1. Freed = {}
      BY <2>3, EmptyListNothingFreed DEF AllocateFails
    <3>0. firstUnallocated = NumDescriptors /\ inUse \subseteq Descriptor
      BY <2>3 DEF AllocateFails, Descriptor, IInv, TypeOK
    <3>2. inUse = Descriptor
      BY <3>0, <3>1 DEF Freed, Descriptor
    <3>3. Pool!Exhausted
      BY <2>3, <3>2 DEF AllocateFails, Pool!Exhausted, NoDescriptor, Pool!NoDescriptor
    <3> QED
      BY <3>3 DEF Pool!Next
  <2>4. CASE \E d \in Descriptor : Free(d)
    <3>1. Pool!Free
      BY <2>4 DEF Free, Pool!Free
    <3> QED
      BY <3>1 DEF Pool!Next
  <2>5. CASE \E d \in Descriptor, chain \in ChainWord : Fill(d, chain)
    BY <2>5 DEF Fill, Pool!vars
  <2>6. CASE UNCHANGED vars
    BY <2>6 DEF vars, Pool!vars
  <2> QED
    BY <2>1, <2>2, <2>3, <2>4, <2>5, <2>6 DEF Next
<1>3. Pool!Spec <=> Pool!Init /\ [][Pool!Next]_(Pool!vars)
  BY DEF Pool!Spec
<1> QED
  BY <1>1, <1>2, Invariance, PTL DEF Spec, ImplementsPool, Pool!Spec

===============================================================================
