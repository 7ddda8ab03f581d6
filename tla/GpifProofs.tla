------------------------------- MODULE GpifProofs -------------------------------
(***************************************************************************)
(* Proofs about the GPIF.                                                   *)
(*                                                                          *)
(* First GpifSampler, for every size of a buffer, width of a sample and     *)
(* delay: the counters of the GPIF stay within their limits, samples are    *)
(* taken at one rate, and the GPIF and the sockets make the ring of         *)
(* DmaRing.                                                                 *)
(*                                                                          *)
(* Then the way of the table and the registers into the hardware, for any   *)
(* widths and delays the host may ask for.  The inductive invariant is      *)
(* DriverInv: the state of a start is given by the number p of accesses     *)
(* done, and for each p by what is then in the memories, the functions and  *)
(* the registers, whatever an earlier start left there.  It rests on two    *)
(* facts that hold in no state in particular: the three words of a state    *)
(* unpack to the row they were packed from (WordsUnpack), and every field   *)
(* of the structure is at the address of its register (LayoutWords).        *)
(***************************************************************************)
EXTENDS MCGpif, SequenceTheorems, TLAPS

-----------------------------------------------------------------------------
\* The arithmetic of a buffer.

\* The bytes of a sample.
SampleSize(b) == b \div 8

\* A buffer is filled by whole samples, at least three.
LEMMA SamplesFillBuffer ==
  ASSUME NEW b \in BitWidths
  PROVE  /\ SampleSize(b) \in 1 .. 4
         /\ SamplesPerBuffer(b) \in Nat /\ SamplesPerBuffer(b) >= 3
         /\ \A n \in 0 .. (SamplesPerBuffer(b) - 1) :
              /\ SampleSize(b) * n \in 0 .. (BufferSize - 1)
              /\ SampleSize(b) * n + SampleSize(b) = SampleSize(b) * (n + 1)
              /\ SampleSize(b) * n + SampleSize(b) >= BufferSize <=> n = SamplesPerBuffer(b) - 1
<1>1. b \in {8, 16, 24, 32}
  BY BitWidthsAssumption
<1>2. PICK q \in Nat \ {0} : BufferSize = 12 * q
  BY BufferSizeAssumption
<1>3. CASE b = 8
  BY <1>2, <1>3 DEF SampleSize, SamplesPerBuffer
<1>4. CASE b = 16
  BY <1>2, <1>4 DEF SampleSize, SamplesPerBuffer
<1>5. CASE b = 24
  BY <1>2, <1>5 DEF SampleSize, SamplesPerBuffer
<1>6. CASE b = 32
  BY <1>2, <1>6 DEF SampleSize, SamplesPerBuffer
<1> QED
  BY <1>1, <1>3, <1>4, <1>5, <1>6

-----------------------------------------------------------------------------
\* What a clock does in each state of the table.

LEMMA CounterInNat ==
  ASSUME NEW count \in Nat, NEW most, NEW load, NEW up
  PROVE  Counter(count, most, load, up) \in Nat
BY DEF Counter

LEMMA WaveformsAre ==
  /\ waveforms[3] = Wave("DMA_RDY", "CTL0", 2, 0, "never", 0, Loads, 4, 0)
  /\ waveforms[4] = Wave("ADDR_HIT", "DATA_HIT", 4, 2, "left", 0, {"COUNT_DATA"}, 5, 6)
  /\ waveforms[5] = Wave("DMA_RDY", "CTL0", 3, 1, "never", 0, {"PUSH", "COUNT_DATA", "COUNT_ADDR"},
                         Done, 4)
  /\ waveforms[6] = Wave("ADDR_HIT", "DATA_HIT", 4, 2, "left", 1, {"COUNT_DATA"}, 7, 4)
  /\ waveforms[7] = Wave("DMA_RDY", "CTL0", 3, 1, "never", 1, {"PUSH", "COUNT_DATA", "COUNT_ADDR"},
                         Done, 6)
  /\ waveforms[8] = Wave("DMA_RDY", "CTL0", 2, 0, "never", 0, {"LD_ADDR"}, 9, 0)
  /\ waveforms[9] = Wave("ADDR_HIT", "CTL0", 2, 1, "left", 0, {}, 12, 10)
  /\ waveforms[10] = Wave("DMA_RDY", "CTL0", 3, 1, "never", 0, {"PUSH", "COUNT_ADDR"}, Done, 9)
  /\ waveforms[11] = Wave("ADDR_HIT", "CTL0", 2, 1, "left", 1, {}, 9, 12)
  /\ waveforms[12] = Wave("DMA_RDY", "CTL0", 3, 1, "never", 1, {"PUSH", "COUNT_ADDR"}, Done, 11)
  /\ waveforms[13] = Wave("DMA_RDY", "CTL0", 2, 0, "left", 0, {"LD_ADDR"}, 14, 0)
  /\ waveforms[14] = Wave("DMA_RDY", "ADDR_HIT", 3, 4, "right", 0, {"PUSH", "COUNT_ADDR"}, Done, 15)
  /\ waveforms[15] = Wave("DMA_RDY", "ADDR_HIT", 3, 4, "right", 1, {"PUSH", "COUNT_ADDR"}, Done, 14)
BY DEF waveforms, Done

\* The functions of the table, as the GPIF uses them.
LEMMA FunctionsAre ==
  ASSUME NEW a, NEW b, NEW x, NEW y
  PROVE  /\ (IF function(0, a, b) THEN x ELSE y) = y
         /\ (IF function(1, a, b) THEN x ELSE y) = x
         /\ (IF function(2, a, b) THEN x ELSE y) = (IF a THEN x ELSE y)
         /\ (IF function(3, a, b) THEN x ELSE y) = (IF a THEN y ELSE x)
         /\ (IF function(4, a, b) THEN x ELSE y) = (IF b THEN x ELSE y)
BY DEF function

\* Where a clock leads from each state.
LEMMA Successors ==
  ASSUME Clock
  PROVE  /\ state = 3 => state' = IF Ring!Ready(0) THEN 4 ELSE 3
         /\ state = 4 => state' = IF dataCount = DataLimit THEN 5 ELSE IF addrCount = AddrLimit THEN 6 ELSE 4
         /\ state = 5 => state' = IF Ring!Ready(0) THEN 4 ELSE Done
         /\ state = 6 => state' = IF dataCount = DataLimit THEN 7 ELSE IF addrCount = AddrLimit THEN 4 ELSE 6
         /\ state = 7 => state' = IF Ring!Ready(1) THEN 6 ELSE Done
         /\ state = 8 => state' = IF Ring!Ready(0) THEN 9 ELSE 8
         /\ state = 9 => state' = IF addrCount = AddrLimit THEN 12 ELSE 10
         /\ state = 10 => state' = IF Ring!Ready(0) THEN 9 ELSE Done
         /\ state = 11 => state' = IF addrCount = AddrLimit THEN 9 ELSE 12
         /\ state = 12 => state' = IF Ring!Ready(1) THEN 11 ELSE Done
         /\ state = 13 => state' = IF Ring!Ready(0) THEN 14 ELSE 13
         /\ state = 14 => state' = IF Ring!Ready(0) THEN IF addrCount = AddrLimit THEN 15 ELSE 14 ELSE Done
         /\ state = 15 => state' = IF Ring!Ready(1) THEN IF addrCount = AddrLimit THEN 14 ELSE 15 ELSE Done
<1>1. ASSUME state = 3 PROVE state' = IF Ring!Ready(0) THEN 4 ELSE 3
  <2>1. state' = IF function(2, Ring!Ready(0), FALSE) THEN 4
                 ELSE IF function(0, Ring!Ready(0), FALSE) THEN 0 ELSE 3
    BY <1>1, WaveformsAre DEF Clock, Wave
  <2> QED
    BY <2>1, FunctionsAre
<1>2. ASSUME state = 4 PROVE state' = IF dataCount = DataLimit THEN 5 ELSE IF addrCount = AddrLimit THEN 6 ELSE 4
  <2>1. state' = IF function(4, addrCount = AddrLimit, dataCount = DataLimit) THEN 5
                 ELSE IF function(2, addrCount = AddrLimit, dataCount = DataLimit) THEN 6 ELSE 4
    BY <1>2, WaveformsAre DEF Clock, Wave
  <2> QED
    BY <2>1, FunctionsAre, ZenonT(60)
<1>3. ASSUME state = 5 PROVE state' = IF Ring!Ready(0) THEN 4 ELSE Done
  <2>1. state' = IF function(3, Ring!Ready(0), FALSE) THEN Done
                 ELSE IF function(1, Ring!Ready(0), FALSE) THEN 4 ELSE 5
    BY <1>3, WaveformsAre DEF Clock, Wave
  <2> QED
    BY <2>1, FunctionsAre
<1>4. ASSUME state = 6 PROVE state' = IF dataCount = DataLimit THEN 7 ELSE IF addrCount = AddrLimit THEN 4 ELSE 6
  <2>1. state' = IF function(4, addrCount = AddrLimit, dataCount = DataLimit) THEN 7
                 ELSE IF function(2, addrCount = AddrLimit, dataCount = DataLimit) THEN 4 ELSE 6
    BY <1>4, WaveformsAre DEF Clock, Wave
  <2> QED
    BY <2>1, FunctionsAre, ZenonT(60)
<1>5. ASSUME state = 7 PROVE state' = IF Ring!Ready(1) THEN 6 ELSE Done
  <2>1. state' = IF function(3, Ring!Ready(1), FALSE) THEN Done
                 ELSE IF function(1, Ring!Ready(1), FALSE) THEN 6 ELSE 7
    BY <1>5, WaveformsAre DEF Clock, Wave
  <2> QED
    BY <2>1, FunctionsAre
<1>6. ASSUME state = 8 PROVE state' = IF Ring!Ready(0) THEN 9 ELSE 8
  <2>1. state' = IF function(2, Ring!Ready(0), FALSE) THEN 9
                 ELSE IF function(0, Ring!Ready(0), FALSE) THEN 0 ELSE 8
    BY <1>6, WaveformsAre DEF Clock, Wave
  <2> QED
    BY <2>1, FunctionsAre, ZenonT(60)
<1>7. ASSUME state = 9 PROVE state' = IF addrCount = AddrLimit THEN 12 ELSE 10
  <2>1. state' = IF function(2, addrCount = AddrLimit, FALSE) THEN 12
                 ELSE IF function(1, addrCount = AddrLimit, FALSE) THEN 10 ELSE 9
    BY <1>7, WaveformsAre DEF Clock, Wave
  <2> QED
    BY <2>1, FunctionsAre
<1>8. ASSUME state = 10 PROVE state' = IF Ring!Ready(0) THEN 9 ELSE Done
  <2>1. state' = IF function(3, Ring!Ready(0), FALSE) THEN Done
                 ELSE IF function(1, Ring!Ready(0), FALSE) THEN 9 ELSE 10
    BY <1>8, WaveformsAre DEF Clock, Wave
  <2> QED
    BY <2>1, FunctionsAre, ZenonT(60)
<1>9. ASSUME state = 11 PROVE state' = IF addrCount = AddrLimit THEN 9 ELSE 12
  <2>1. state' = IF function(2, addrCount = AddrLimit, FALSE) THEN 9
                 ELSE IF function(1, addrCount = AddrLimit, FALSE) THEN 12 ELSE 11
    BY <1>9, WaveformsAre DEF Clock, Wave
  <2> QED
    BY <2>1, FunctionsAre, ZenonT(60)
<1>10. ASSUME state = 12 PROVE state' = IF Ring!Ready(1) THEN 11 ELSE Done
  <2>1. state' = IF function(3, Ring!Ready(1), FALSE) THEN Done
                 ELSE IF function(1, Ring!Ready(1), FALSE) THEN 11 ELSE 12
    BY <1>10, WaveformsAre DEF Clock, Wave
  <2> QED
    BY <2>1, FunctionsAre, ZenonT(60)
<1>11. ASSUME state = 13 PROVE state' = IF Ring!Ready(0) THEN 14 ELSE 13
  <2>1. state' = IF function(2, Ring!Ready(0), FALSE) THEN 14
                 ELSE IF function(0, Ring!Ready(0), FALSE) THEN 0 ELSE 13
    BY <1>11, WaveformsAre DEF Clock, Wave
  <2> QED
    BY <2>1, FunctionsAre, ZenonT(60)
<1>12. ASSUME state = 14 PROVE state' = IF Ring!Ready(0) THEN IF addrCount = AddrLimit THEN 15 ELSE 14 ELSE Done
  <2> DEFINE next == IF function(4, Ring!Ready(0), addrCount = AddrLimit) THEN 15 ELSE 14
  <2>1. state' = IF function(3, Ring!Ready(0), addrCount = AddrLimit) THEN Done ELSE next
    <3>1. waveforms[14] = Wave("DMA_RDY", "ADDR_HIT", 3, 4, "right", 0, {"PUSH", "COUNT_ADDR"}, Done, 15)
      BY WaveformsAre
    <3>2. /\ waveforms[14].fa = "DMA_RDY" /\ waveforms[14].fb = "ADDR_HIT" /\ waveforms[14].thread = 0
          /\ waveforms[14].f0 = 3 /\ waveforms[14].f1 = 4
          /\ waveforms[14].left = Done /\ waveforms[14].right = 15
      BY <3>1 DEF Wave
    <3> HIDE DEF next
    <3>3. state' = IF function(3, Ring!Ready(0), addrCount = AddrLimit) THEN Done
                   ELSE IF function(4, Ring!Ready(0), addrCount = AddrLimit) THEN 15 ELSE state
      BY <1>12, <3>2 DEF Clock
    <3> QED
      BY <1>12, <3>3 DEF next
  <2>2. state' = IF Ring!Ready(0) THEN next ELSE Done
    <3> HIDE DEF next
    <3>1. (IF function(3, Ring!Ready(0), addrCount = AddrLimit) THEN Done ELSE next)
            = IF Ring!Ready(0) THEN next ELSE Done
      BY DEF function
    <3> QED
      BY <2>1, <3>1
  <2>3. CASE Ring!Ready(0)
    BY <2>2, <2>3, FunctionsAre, ZenonT(60)
  <2>4. CASE ~Ring!Ready(0)
    BY <2>2, <2>4
  <2> QED
    BY <2>3, <2>4
<1>13. ASSUME state = 15 PROVE state' = IF Ring!Ready(1) THEN IF addrCount = AddrLimit THEN 14 ELSE 15 ELSE Done
  <2> DEFINE next == IF function(4, Ring!Ready(1), addrCount = AddrLimit) THEN 14 ELSE 15
  <2>1. state' = IF function(3, Ring!Ready(1), addrCount = AddrLimit) THEN Done ELSE next
    <3>1. waveforms[15] = Wave("DMA_RDY", "ADDR_HIT", 3, 4, "right", 1, {"PUSH", "COUNT_ADDR"}, Done, 14)
      BY WaveformsAre
    <3>2. /\ waveforms[15].fa = "DMA_RDY" /\ waveforms[15].fb = "ADDR_HIT" /\ waveforms[15].thread = 1
          /\ waveforms[15].f0 = 3 /\ waveforms[15].f1 = 4
          /\ waveforms[15].left = Done /\ waveforms[15].right = 14
      BY <3>1 DEF Wave
    <3> HIDE DEF next
    <3>3. state' = IF function(3, Ring!Ready(1), addrCount = AddrLimit) THEN Done
                   ELSE IF function(4, Ring!Ready(1), addrCount = AddrLimit) THEN 14 ELSE state
      BY <1>13, <3>2 DEF Clock
    <3> QED
      BY <1>13, <3>3 DEF next
  <2>2. state' = IF Ring!Ready(1) THEN next ELSE Done
    <3> HIDE DEF next
    <3>1. (IF function(3, Ring!Ready(1), addrCount = AddrLimit) THEN Done ELSE next)
            = IF Ring!Ready(1) THEN next ELSE Done
      BY DEF function
    <3> QED
      BY <2>1, <3>1
  <2>3. CASE Ring!Ready(1)
    BY <2>2, <2>3, FunctionsAre, ZenonT(60)
  <2>4. CASE ~Ring!Ready(1)
    BY <2>2, <2>4
  <2> QED
    BY <2>3, <2>4
<1> QED
  BY <1>1, <1>2, <1>3, <1>4, <1>5, <1>6, <1>7, <1>8, <1>9, <1>10, <1>11, <1>12, <1>13

First == {3, 8, 13}
Waits == {4, 6, 9, 11}
Pushes == {5, 7, 10, 12, 14, 15}

\* The thread of a state that takes a sample.
ThreadOf(s) == IF s \in {5, 10, 14} THEN 0 ELSE 1

\* In a first state the GPIF loads the counters.
LEMMA ClockInFirst ==
  ASSUME Clock, state \in First
  PROVE  /\ addrCount' = 0
         /\ state = 3 => dataCount' = 0
         /\ NoPush
<1> USE WaveformsAre DEF Clock, Wave, Counter, Loads
<1>1. CASE state = 3
  BY <1>1
<1>2. CASE state = 8
  BY <1>2
<1>3. CASE state = 13
  BY <1>3
<1> QED
  BY <1>1, <1>2, <1>3 DEF First

\* The states between two samples count the clocks.
LEMMA ClockInWaits ==
  ASSUME Clock, state \in Waits
  PROVE  /\ addrCount' = IF addrCount = AddrLimit THEN 0 ELSE addrCount
         /\ state \in {4, 6} => dataCount' = IF dataCount = DataLimit THEN 0 ELSE dataCount + 1
         /\ NoPush
<1> USE WaveformsAre DEF Clock, Wave, Counter
<1>1. CASE state = 4
  BY <1>1
<1>2. CASE state = 6
  BY <1>2
<1>3. CASE state = 9
  BY <1>3
<1>4. CASE state = 11
  BY <1>4
<1> QED
  BY <1>1, <1>2, <1>3, <1>4 DEF Waits

\* A sample is pushed, or lost.
LEMMA ClockInPushes ==
  ASSUME Clock, state \in Pushes
  PROVE  /\ IF Ring!Ready(ThreadOf(state)) THEN Push(ThreadOf(state)) ELSE NoPush
         /\ addrCount' = IF addrCount = AddrLimit THEN 0 ELSE addrCount + 1
         /\ state \in {5, 7} => dataCount' = IF dataCount = DataLimit THEN 0 ELSE dataCount + 1
<1> USE WaveformsAre DEF Clock, Wave, Counter, ThreadOf
<1>1. CASE state = 5
  BY <1>1
<1>2. CASE state = 7
  BY <1>2
<1>3. CASE state = 10
  BY <1>3
<1>4. CASE state = 12
  BY <1>4
<1>5. CASE state = 14
  BY <1>5
<1>6. CASE state = 15
  BY <1>6
<1> QED
  BY <1>1, <1>2, <1>3, <1>4, <1>5, <1>6 DEF Pushes

-----------------------------------------------------------------------------
(***************************************************************************)
(* The inductive invariant.  ModeInv: the delay decides which states of the *)
(* table are used.  BufferInv: the address counter is the number of samples *)
(* in the buffer of the thread in turn, and the other buffer is empty; at   *)
(* the limit, before the state that looks at the hit, it is the other way   *)
(* round.  RateInv: the data counter is the age of the last sample.         *)
(***************************************************************************)
ModeInv ==
    /\ state \in 3 .. 7 => delay >= 2
    /\ state \in 8 .. 12 => delay = 1
    /\ state \in 13 .. 15 => delay = 0

\* The buffer of thread t is in turn and holds n samples.
Filling(t, n) ==
    /\ captured % 2 = t
    /\ n \in 0 .. (SamplesPerBuffer(bits) - 1)
    /\ level = [u \in Ring!Thread |-> IF u = t THEN SampleSize(bits) * n ELSE 0]

BufferInv ==
    /\ state \in First => Filling(0, 0)
    /\ state \in Pushes => Filling(ThreadOf(state), addrCount)
    /\ state \in {4, 9} => IF addrCount = SamplesPerBuffer(bits) THEN Filling(1, 0) ELSE Filling(0, addrCount)
    /\ state \in {6, 11} => IF addrCount = SamplesPerBuffer(bits) THEN Filling(0, 0) ELSE Filling(1, addrCount)

RateInv ==
    /\ gap >= -1
    /\ delay # 1 => period \in {0, delay + 1}
    /\ state \in First => gap = -1 /\ period = 0
    /\ state \in {4, 6} => /\ dataCount <= delay
                           /\ gap \in {-1, dataCount - 1}
                           /\ addrCount = SamplesPerBuffer(bits) => dataCount = 1
    /\ state \in {5, 7} => dataCount = 0 /\ gap \in {-1, delay}
    /\ state \in {14, 15} => gap \in {-1, 0}

IInv == TypeOK /\ captured \in Nat /\ ModeInv /\ BufferInv /\ RateInv

LEMMA InitIInv == Init => IInv
<1> SUFFICES ASSUME Init PROVE IInv
  OBVIOUS
<1>1. TypeOK
  BY BufferSizeAssumption, DelaysAssumption DEF Init, TypeOK, Invalid
<1> QED
  BY <1>1, DelaysAssumption
     DEF IInv, Init, ModeInv, BufferInv, RateInv, First, Pushes, Invalid

LEMMA StartGpifKeepsIInv ==
  ASSUME IInv, NEW b \in BitWidths, NEW d \in Delays, StartGpif(b, d) PROVE IInv'
<1>1. state' \in First /\ d \in Nat
      /\ (d = 0 => state' = 13) /\ (d = 1 => state' = 8) /\ (d >= 2 => state' = 3)
  BY DelaysAssumption DEF StartGpif, StartState, First
<1>2. TypeOK'
  BY <1>1, BufferSizeAssumption DEF IInv, TypeOK, StartGpif, First, Invalid
<1>3. Filling(0, 0)'
  <2>1. SamplesPerBuffer(b) \in Nat /\ SamplesPerBuffer(b) >= 3 /\ SampleSize(b) \in 1 .. 4
    BY SamplesFillBuffer
  <2> QED
    BY <2>1 DEF StartGpif, Filling
<1>4. ModeInv' /\ BufferInv'
  BY <1>1, <1>3 DEF StartGpif, ModeInv, BufferInv, First, Pushes
<1>5. RateInv'
  BY <1>1 DEF StartGpif, RateInv, First
<1> QED
  BY <1>2, <1>4, <1>5 DEF IInv, StartGpif

LEMMA StopAcquisitionKeepsIInv ==
  ASSUME IInv, StopAcquisition PROVE IInv'
<1> USE DEF StopAcquisition, Invalid
<1>1. TypeOK'
  BY DEF IInv, TypeOK
<1>2. ModeInv' /\ BufferInv' /\ RateInv'
  BY DEF IInv, ModeInv, BufferInv, RateInv, First, Pushes
<1> QED
  BY <1>1, <1>2 DEF IInv

LEMMA SocketsKeepIInv ==
  ASSUME IInv, UNCHANGED <<gpifVars, captured>> PROVE IInv'
BY DEF gpifVars, IInv, TypeOK, ModeInv, BufferInv, RateInv, Filling

-----------------------------------------------------------------------------
\* A clock keeps the invariant.

\* What no clock changes, and when there is one.
LEMMA ClockKeeps ==
  ASSUME IInv, Clock
  PROVE  /\ state \in First \cup Waits \cup Pushes
         /\ bits' = bits /\ delay' = delay
         /\ dataCount' \in Nat /\ addrCount' \in Nat
<1>1. state \in 3 .. 15 /\ bits' = bits /\ delay' = delay
  BY DEF IInv, TypeOK, Clock, Done, Invalid
<1>2. dataCount' \in Nat /\ addrCount' \in Nat
  BY CounterInNat DEF IInv, TypeOK, Clock
<1> QED
  BY <1>1, <1>2 DEF First, Waits, Pushes

\* A sample that does not fill the buffer, and one that does.
LEMMA PushFills ==
  ASSUME IInv, NEW t \in Ring!Thread, NEW n, Filling(t, n), Push(t)
  PROVE  /\ gap' = 0 /\ period' = IF gap = -1 THEN period ELSE gap + 1
         /\ n # SamplesPerBuffer(bits) - 1 =>
              /\ captured' = captured
              /\ level' = [u \in Ring!Thread |-> IF u = t THEN SampleSize(bits) * (n + 1) ELSE 0]
         /\ n = SamplesPerBuffer(bits) - 1 =>
              /\ captured' = captured + 1
              /\ level' = [u \in Ring!Thread |-> 0]
<1>1. /\ n \in 0 .. (SamplesPerBuffer(bits) - 1)
      /\ level[t] + SampleSize(bits) = SampleSize(bits) * (n + 1)
      /\ level[t] + SampleSize(bits) >= BufferSize <=> n = SamplesPerBuffer(bits) - 1
  BY SamplesFillBuffer DEF Filling, IInv, TypeOK
<1>2. gap' = 0 /\ period' = IF gap = -1 THEN period ELSE gap + 1
  BY DEF Push
<1>3. CASE n # SamplesPerBuffer(bits) - 1
  BY <1>1, <1>2, <1>3 DEF Push, SampleSize, Filling
<1>4. CASE n = SamplesPerBuffer(bits) - 1
  BY <1>1, <1>2, <1>4 DEF Push, SampleSize, Filling
<1> QED
  BY <1>3, <1>4

\* Filling after a step: the type of the levels follows from it.
LEMMA FillingTypes ==
  ASSUME NEW t \in Ring!Thread, NEW n, bits \in BitWidths, Filling(t, n)
  PROVE  level \in [Ring!Thread -> 0 .. (BufferSize - 1)]
<1>1. SampleSize(bits) * n \in 0 .. (BufferSize - 1) /\ 0 \in 0 .. (BufferSize - 1)
  BY SamplesFillBuffer, BufferSizeAssumption DEF Filling
<1> QED
  BY <1>1 DEF Filling

LEMMA ClockInFirstKeepsIInv ==
  ASSUME IInv, Clock, state \in First PROVE IInv'
<1>1. /\ state' \in {state, state + 1} /\ addrCount' = 0
      /\ state = 3 => dataCount' = 0
      /\ UNCHANGED <<level, period, captured>> /\ gap' = -1
  BY Successors, ClockInFirst DEF First, NoPush, IInv, RateInv
<1>2. bits' = bits /\ delay' = delay /\ dataCount' \in Nat
  BY ClockKeeps
<1>3. TypeOK'
  BY <1>1, <1>2 DEF IInv, TypeOK, First, Invalid
<1>4. Filling(0, 0)' /\ SamplesPerBuffer(bits) >= 3
  BY <1>1, <1>2, SamplesFillBuffer DEF IInv, TypeOK, BufferInv, Filling
<1>5. ModeInv'
  BY <1>1, <1>2 DEF IInv, TypeOK, ModeInv, First
<1>6. BufferInv'
  BY <1>1, <1>2, <1>4 DEF BufferInv, First, Pushes, ThreadOf
<1>7. RateInv'
  BY <1>1, <1>2, <1>4, DelaysAssumption DEF IInv, TypeOK, RateInv, First
<1> QED
  BY <1>1, <1>3, <1>5, <1>6, <1>7 DEF IInv

LEMMA ClockInWaitsKeepsIInv ==
  ASSUME IInv, Clock, state \in Waits PROVE IInv'
<1>1. bits' = bits /\ delay' = delay /\ dataCount' \in Nat /\ addrCount' \in Nat
  BY ClockKeeps
<1>2. UNCHANGED <<level, period, captured>> /\ gap' = IF gap = -1 THEN -1 ELSE gap + 1
  BY ClockInWaits DEF NoPush
<1>3. delay # 0 /\ AddrLimit = SamplesPerBuffer(bits) /\ DataLimit = delay
  BY DelaysAssumption DEF IInv, TypeOK, ModeInv, AddrLimit, DataLimit, Waits
<1>4. SamplesPerBuffer(bits) \in Nat /\ SamplesPerBuffer(bits) >= 3
  BY SamplesFillBuffer DEF IInv, TypeOK
<1>5. /\ state \in {4, 6} => state' \in 4 .. 7
      /\ state \in {9, 11} => state' \in 9 .. 12
  BY Successors
<1>6. TypeOK'
  BY <1>1, <1>2, <1>5 DEF IInv, TypeOK, RateInv, Waits, Invalid
<1>7. ModeInv'
  BY <1>1, <1>5 DEF IInv, ModeInv, Waits
<1>8. addrCount' = IF addrCount = SamplesPerBuffer(bits) THEN 0 ELSE addrCount
  BY ClockInWaits, <1>3
<1>9. BufferInv'
  <2>1. CASE state = 4
    BY <1>1, <1>2, <1>3, <1>4, <1>8, <2>1, Successors
       DEF IInv, BufferInv, RateInv, ModeInv, Filling, First, Pushes, ThreadOf
  <2>2. CASE state = 6
    BY <1>1, <1>2, <1>3, <1>4, <1>8, <2>2, Successors
       DEF IInv, BufferInv, RateInv, ModeInv, Filling, First, Pushes, ThreadOf
  <2>3. CASE state = 9
    BY <1>1, <1>2, <1>3, <1>4, <1>8, <2>3, Successors
       DEF IInv, BufferInv, Filling, First, Pushes, ThreadOf
  <2>4. CASE state = 11
    BY <1>1, <1>2, <1>3, <1>4, <1>8, <2>4, Successors
       DEF IInv, BufferInv, Filling, First, Pushes, ThreadOf
  <2> QED
    BY <2>1, <2>2, <2>3, <2>4 DEF Waits
<1>10. RateInv'
  <2> gap' >= -1 /\ gap \in Int
    BY <1>2 DEF IInv, TypeOK, RateInv
  <2>1. CASE state \in {4, 6}
    <3>1. delay >= 2 /\ delay \in Nat /\ dataCount \in Nat /\ dataCount <= delay
          /\ gap \in {-1, dataCount - 1}
      BY <2>1, DelaysAssumption DEF IInv, TypeOK, ModeInv, RateInv
    <3>2. dataCount' = IF dataCount = delay THEN 0 ELSE dataCount + 1
      BY <1>3, <2>1, ClockInWaits
    <3>3. dataCount = delay => state' \in {5, 7}
      BY <1>3, <2>1, Successors
    <3>4. dataCount # delay => state' \in {4, 6}
      BY <1>3, <2>1, Successors
    <3>5. state' \in {4, 6} => addrCount' # SamplesPerBuffer(bits)
      BY <1>4, <1>8
    <3> QED
      BY <1>1, <1>2, <1>4, <2>1, <3>1, <3>2, <3>3, <3>4, <3>5 DEF IInv, RateInv, First
  <2>2. CASE state \in {9, 11}
    <3>1. delay' = 1 /\ state' \in 9 .. 12
      BY <1>1, <1>5, <2>2 DEF IInv, ModeInv
    <3> QED
      BY <3>1 DEF RateInv, First
  <2> QED
    BY <2>1, <2>2 DEF Waits
<1> QED
  BY <1>2, <1>6, <1>7, <1>9, <1>10 DEF IInv

LEMMA ClockInPushesKeepsIInv ==
  ASSUME IInv, Clock, state \in Pushes PROVE IInv'
<1> DEFINE t == ThreadOf(state)
<1> DEFINE most == SamplesPerBuffer(bits)
<1>1. bits' = bits /\ delay' = delay /\ dataCount' \in Nat /\ addrCount' \in Nat
  BY ClockKeeps
<1>2. most \in Nat /\ most >= 3 /\ bits \in BitWidths
  BY SamplesFillBuffer DEF IInv, TypeOK
<1>3. t \in {0, 1} /\ Filling(t, addrCount) /\ t \in Ring!Thread
  BY DEF IInv, BufferInv, ThreadOf, Ring!Thread
<1>4. CASE ~Ring!Ready(t)
  <2>1. state' = 16 /\ UNCHANGED <<level, period, captured>> /\ gap' = IF gap = -1 THEN -1 ELSE gap + 1
    BY <1>4, Successors, ClockInPushes DEF Pushes, ThreadOf, NoPush, Done
  <2>2. TypeOK'
    BY <1>1, <2>1 DEF IInv, TypeOK, Invalid
  <2> QED
    BY <1>1, <2>1, <2>2
       DEF IInv, TypeOK, ModeInv, BufferInv, RateInv, First, Pushes
<1>5. CASE Ring!Ready(t)
  <2>1. /\ gap' = 0 /\ period' = IF gap = -1 THEN period ELSE gap + 1
        /\ addrCount # most - 1 =>
             /\ captured' = captured
             /\ level' = [u \in Ring!Thread |-> IF u = t THEN SampleSize(bits) * (addrCount + 1)
                                                         ELSE 0]
        /\ addrCount = most - 1 =>
             captured' = captured + 1 /\ level' = [u \in Ring!Thread |-> 0]
    BY <1>3, <1>5, ClockInPushes, PushFills
  <2>2. addrCount \in 0 .. (most - 1)
    BY <1>3 DEF Filling
  <2>3. captured \in Nat /\ captured' \in Nat
    BY <2>1 DEF IInv
  <2>4. addrCount # most - 1 =>
          /\ captured' % 2 = t /\ addrCount + 1 \in 0 .. (most - 1)
          /\ level' = [u \in Ring!Thread |-> IF u = t THEN SampleSize(bits) * (addrCount + 1) ELSE 0]
    BY <1>2, <1>3, <2>1, <2>2 DEF Filling
  <2>5. addrCount = most - 1 =>
          /\ captured' % 2 = 1 - t
          /\ level' = [u \in Ring!Thread |-> 0]
    BY <1>3, <2>1, <2>3 DEF Filling
  <2>6. delay = 0 <=> state \in {14, 15}
    BY DEF IInv, ModeInv, Pushes
  <2>7. addrCount' = IF addrCount = AddrLimit THEN 0 ELSE addrCount + 1
    BY ClockInPushes
  <2>8. /\ delay = 0 => AddrLimit = most - 1
        /\ delay # 0 => AddrLimit = most
    BY DEF AddrLimit
  <2>9. SampleSize(bits) * 0 = 0 /\ SampleSize(bits) \in 1 .. 4
    BY <1>2, SamplesFillBuffer
  <2>10. TypeOK'
    <3>1. SampleSize(bits) * (addrCount + 1) \in 0 .. (BufferSize - 1) \/ addrCount = most - 1
      <4> DEFINE n == addrCount + 1
      <4>1. addrCount # most - 1 => n \in 0 .. (most - 1)
        BY <1>2, <2>2
      <4>2. n \in 0 .. (most - 1) => SampleSize(bits) * n \in 0 .. (BufferSize - 1)
        <5> HIDE DEF n
        <5> QED
          BY <1>2, SamplesFillBuffer
      <4> QED
        BY <4>1, <4>2
    <3>2. level' \in [Ring!Thread -> 0 .. (BufferSize - 1)]
      BY <2>1, <2>2, <3>1, BufferSizeAssumption
    <3>3. state' \in 3 .. Invalid
      BY <1>5, Successors DEF Pushes, ThreadOf, Invalid
    <3> QED
      BY <1>1, <2>1, <3>2, <3>3 DEF IInv, TypeOK, RateInv
  <2>11. BufferInv'
    <3> USE <1>1, <1>2, <1>5, <2>2, <2>4, <2>5, <2>6, <2>7, <2>8, <2>9, Successors
        DEF BufferInv, Filling, First, Pushes, ThreadOf
    <3>1. CASE state = 5
      BY <3>1
    <3>2. CASE state = 7
      BY <3>2
    <3>3. CASE state = 10
      BY <3>3
    <3>4. CASE state = 12
      BY <3>4
    <3>5. CASE state = 14
      BY <3>5
    <3>6. CASE state = 15
      BY <3>6
    <3> QED
      BY <3>1, <3>2, <3>3, <3>4, <3>5, <3>6
  <2>12. ModeInv'
    BY <1>1, <1>5, Successors DEF IInv, ModeInv, Pushes, ThreadOf
  <2>13. RateInv'
    <3>1. delay # 1 => period' \in {0, delay + 1}
      <4>1. delay # 1 => gap = -1 \/ gap = delay
        BY DEF IInv, RateInv, ModeInv, Pushes
      <4> QED
        BY <2>1, <4>1, DelaysAssumption DEF IInv, TypeOK, RateInv
    <3>2. CASE state \in {5, 7}
      <4>1. delay >= 2 /\ delay \in Nat /\ dataCount = 0
        BY <3>2, DelaysAssumption DEF IInv, TypeOK, ModeInv, RateInv
      <4>2. dataCount' = 1
        BY <3>2, <4>1, ClockInPushes DEF DataLimit
      <4>3. state' \in {4, 6}
        BY <1>5, <3>2, Successors DEF ThreadOf
      <4> QED
        BY <1>1, <2>1, <3>1, <4>1, <4>2, <4>3 DEF RateInv, First
    <3>3. CASE state \in {10, 12, 14, 15}
      <4>1. state' \in {9, 11, 14, 15}
        BY <1>5, <3>3, Successors DEF ThreadOf
      <4> QED
        BY <1>1, <2>1, <3>1, <4>1 DEF RateInv, First
    <3> QED
      BY <3>2, <3>3 DEF Pushes
  <2> QED
    BY <2>3, <2>10, <2>11, <2>12, <2>13 DEF IInv
<1> QED
  BY <1>4, <1>5

LEMMA ClockKeepsIInv ==
  ASSUME IInv, Clock PROVE IInv'
BY ClockKeeps, ClockInFirstKeepsIInv, ClockInWaitsKeepsIInv, ClockInPushesKeepsIInv

LEMMA NextKeepsIInv == IInv /\ [Next]_vars => IInv'
<1> SUFFICES ASSUME IInv, [Next]_vars PROVE IInv'
  OBVIOUS
<1>1. CASE Sockets
  BY <1>1, SocketsKeepIInv DEF Sockets
<1>2. CASE UNCHANGED vars
  BY <1>2, SocketsKeepIInv DEF vars, ringVars, gpifVars
<1> QED
  BY <1>1, <1>2, StartGpifKeepsIInv, StopAcquisitionKeepsIInv, ClockKeepsIInv DEF Next

LEMMA Invariance == Spec => []IInv
BY InitIInv, NextKeepsIInv, PTL DEF Spec

-----------------------------------------------------------------------------
(***************************************************************************)
(* The GPIF stays in the states of the table, and a buffer never holds more *)
(* bytes than it has, whatever the width of a sample.                       *)
(***************************************************************************)
THEOREM TypeCorrect == Spec => []TypeOK
<1>1. IInv => TypeOK
  BY DEF IInv
<1> QED
  BY <1>1, Invariance, PTL

(***************************************************************************)
(* No counter is ever beyond its limit while it counts, whatever an earlier *)
(* acquisition with another width and delay left in it                      *)
(* (acquisition.c:25-29, 65-68, 96-99).                                     *)
(***************************************************************************)
THEOREM CountersReachLimits == Spec => []CountersWithinLimits
<1>1. IInv => CountersWithinLimits
  <2> SUFFICES ASSUME IInv PROVE CountersWithinLimits
    OBVIOUS
  <2>1. SamplesPerBuffer(bits) \in Nat /\ SamplesPerBuffer(bits) >= 3
    BY SamplesFillBuffer DEF IInv, TypeOK
  <2>2. state \in 4 .. 7 => dataCount <= DataLimit
    <3>1. delay >= 2 => 0 <= delay
      BY DelaysAssumption DEF IInv, TypeOK
    <3> QED
      BY <3>1 DEF IInv, TypeOK, ModeInv, RateInv, DataLimit
  <2>3. GpifState = "running" => state \in Waits \cup Pushes
    BY DEF IInv, TypeOK, GpifState, Waits, Pushes, Done, Invalid
  <2>4. state \in Waits => addrCount <= SamplesPerBuffer(bits) /\ delay # 0
    BY <2>1, DelaysAssumption DEF IInv, TypeOK, BufferInv, ModeInv, Filling, Waits
  <2>5. state \in Pushes => addrCount <= SamplesPerBuffer(bits) - 1
    BY <2>1 DEF IInv, TypeOK, BufferInv, Filling
  <2>6. addrCount \in Nat
    BY DEF IInv, TypeOK
  <2> QED
    BY <2>1, <2>2, <2>3, <2>4, <2>5, <2>6 DEF CountersWithinLimits, AddrLimit
<1> QED
  BY <1>1, Invariance, PTL

(***************************************************************************)
(* For every delay but 1, a sample is taken every delay + 1 clocks, across  *)
(* the changes of buffer (acquisition.c:23-60, 90-121, 187).                *)
(***************************************************************************)
THEOREM SampledAtOneRate == Spec => []EvenlySampledUnlessDelay1
<1>1. IInv => EvenlySampledUnlessDelay1
  BY DEF IInv, RateInv, EvenlySampledUnlessDelay1, EvenlySampled
<1> QED
  BY <1>1, Invariance, PTL

-----------------------------------------------------------------------------
\* The steps of the GPIF are those of the ring.

LEMMA ClockIsRingStep ==
  ASSUME IInv, Clock PROVE [Ring!Next]_(Ring!vars)
<1> USE DEF Ring!vars, Ring!sockets
<1>1. state \in First \cup Waits \cup Pushes
  BY ClockKeeps
<1>2. UNCHANGED <<pc, producing, consuming, consDscr, sent, last>>
  BY DEF Clock
<1>3. CASE state \in First
  <2>1. GpifState = "waiting" /\ NoPush
    BY <1>3, ClockInFirst DEF GpifState, First, Done, Invalid
  <2>2. CASE Ring!Ready(0)
    <3>1. GpifState' = "running"
      BY <1>3, <2>2, Successors DEF GpifState, First, Done, Invalid
    <3>2. Ring!BeginCapture
      BY <1>2, <2>1, <2>2, <3>1 DEF Ring!BeginCapture, NoPush
    <3> QED
      BY <3>2 DEF Ring!Next
  <2>3. CASE ~Ring!Ready(0)
    <3>1. state' = state
      BY <1>3, <2>3, Successors DEF First
    <3> QED
      BY <1>2, <2>1, <3>1 DEF NoPush, GpifState
  <2> QED
    BY <2>2, <2>3
<1>4. CASE state \in Waits
  <2>1. state' \in Waits \cup Pushes /\ NoPush
    BY <1>4, ClockInWaits, Successors DEF Waits, Pushes
  <2>2. GpifState = "running" /\ GpifState' = "running"
    BY <1>4, <2>1 DEF GpifState, Waits, Pushes, Done, Invalid
  <2> QED
    BY <1>2, <2>1, <2>2 DEF NoPush
<1>5. CASE state \in Pushes
  <2> DEFINE t == ThreadOf(state)
  <2>1. GpifState = "running" /\ captured % 2 = t /\ t \in Ring!Thread /\ captured \in Nat
    BY <1>5 DEF IInv, BufferInv, Filling, GpifState, Pushes, Done, Invalid, ThreadOf, Ring!Thread
  <2>2. CASE ~Ring!Ready(t)
    <3>1. state' = 16 /\ NoPush
      BY <1>5, <2>2, ClockInPushes, Successors DEF Pushes, ThreadOf, Done
    <3>2. GpifState' = "overrun"
      BY <3>1 DEF GpifState, Done, Invalid
    <3>3. Ring!Overrun
      BY <1>2, <2>1, <2>2, <3>1, <3>2 DEF Ring!Overrun, NoPush
    <3> QED
      BY <3>3 DEF Ring!Next
  <2>3. CASE Ring!Ready(t)
    <3>1. state' \in Waits \cup Pushes /\ Push(t)
      BY <1>5, <2>3, ClockInPushes, Successors DEF Waits, Pushes, ThreadOf
    <3>2. GpifState' = "running"
      BY <3>1 DEF GpifState, Waits, Pushes, Done, Invalid
    <3>3. CASE level[t] + (bits \div 8) >= BufferSize
      <4>1. captured' = captured + 1 /\ captured' % 2 = 1 - t
        BY <2>1, <3>1, <3>3 DEF Push, Ring!Thread
      <4>2. Ring!Capture
        BY <1>2, <2>1, <2>3, <3>1, <3>2, <3>3, <4>1 DEF Ring!Capture, Push
      <4> QED
        BY <4>2 DEF Ring!Next
    <3>4. CASE ~(level[t] + (bits \div 8) >= BufferSize)
      BY <1>2, <2>1, <3>1, <3>2, <3>4 DEF Push
    <3> QED
      BY <3>3, <3>4
  <2> QED
    BY <2>2, <2>3
<1> QED
  BY <1>1, <1>3, <1>4, <1>5

(***************************************************************************)
(* The GPIF and the sockets make the ring of DmaRing, for every size of a   *)
(* buffer, width and delay: the address counter hits its limit exactly when *)
(* a buffer is full, so that no buffer is handed over short and none is     *)
(* pushed into when full (acquisition.c:18-124, 184-188).                   *)
(***************************************************************************)
THEOREM SamplerIsRing == Spec => ImplementsRing
<1>1. Init => Ring!Init
  BY DEF Init, Ring!Init, GpifState, Invalid, Done
<1>2. IInv /\ [Next]_vars => [Ring!Next]_(Ring!vars)
  <2> SUFFICES ASSUME IInv, [Next]_vars PROVE [Ring!Next]_(Ring!vars)
    OBVIOUS
  <2>1. ASSUME NEW b \in BitWidths, NEW d \in Delays, StartGpif(b, d) PROVE Ring!Next
    BY <2>1 DEF StartGpif, Ring!Next
  <2>2. CASE StopAcquisition
    BY <2>2 DEF StopAcquisition, Ring!Next
  <2>3. CASE Clock
    BY <2>3, ClockIsRingStep
  <2>4. CASE Sockets
    BY <2>4 DEF Sockets, Ring!Next
  <2>5. CASE UNCHANGED vars
    BY <2>5 DEF vars, ringVars, gpifVars, Ring!vars, Ring!sockets, GpifState
  <2> QED
    BY <2>1, <2>2, <2>3, <2>4, <2>5 DEF Next
<1> QED
  BY <1>1, <1>2, Invariance, PTL DEF Spec, ImplementsRing, Ring!Spec

-----------------------------------------------------------------------------
(***************************************************************************)
(* Bits of numbers.                                                         *)
(***************************************************************************)
\* A number of one byte.
Short(v) == v \in Nat /\ v < 256

\* The powers of two of a byte.
LEMMA Powers ==
    /\ 2^0 = 1 /\ 2^1 = 2 /\ 2^2 = 4 /\ 2^3 = 8 /\ 2^4 = 16 /\ 2^5 = 32 /\ 2^6 = 64 /\ 2^7 = 128
OBVIOUS

\* Dividing by a power of two is halving as often.
LEMMA Halves ==
    ASSUME NEW v \in Nat
    PROVE  /\ v \div 1 = v
           /\ v \div 4 = (v \div 2) \div 2
           /\ v \div 8 = (v \div 4) \div 2
           /\ v \div 16 = (v \div 8) \div 2
           /\ v \div 32 = (v \div 16) \div 2
           /\ v \div 64 = (v \div 32) \div 2
           /\ v \div 128 = (v \div 64) \div 2
           /\ v \div 256 = (v \div 128) \div 2
BY SMT

\* A half, and what it leaves.
LEMMA Halved ==
    ASSUME NEW v \in Nat
    PROVE  v = 2 * (v \div 2) + (v % 2) /\ v \div 2 \in Nat /\ v % 2 \in {0, 1}
BY SMT

\* A number is the value of the set of its bits.
LEMMA ValueOfBits ==
    ASSUME NEW v, Short(v), NEW s,
           \A i \in 0 .. 7 : i \in s <=> (v \div 2^i) % 2 = 1
    PROVE  D!ValueOf(s) = v
<1>0. v \in Nat /\ v < 256
      BY DEF Short
<1> DEFINE q(n) == v \div n
           b(n) == q(n) % 2
<1>1. \A n \in {1, 2, 4, 8, 16, 32, 64, 128, 256} : q(n) \in Nat /\ b(n) \in {0, 1}
      BY <1>0, SMT
<1>2. /\ q(1) = 2 * q(2) + b(1)
      /\ q(2) = 2 * q(4) + b(2)
      /\ q(4) = 2 * q(8) + b(4)
      /\ q(8) = 2 * q(16) + b(8)
      /\ q(16) = 2 * q(32) + b(16)
      /\ q(32) = 2 * q(64) + b(32)
      /\ q(64) = 2 * q(128) + b(64)
      /\ q(128) = 2 * q(256) + b(128)
      BY <1>0, <1>1, Halves, Halved
<1>3. q(1) = v /\ q(256) = 0
  <2>1. v \div 1 = v
        BY <1>0, SMT
  <2>2. v \div 256 = 0
        BY <1>0, SMT
  <2> QED BY <2>1, <2>2
<1>4. /\ D!Weight(s, 0) = 1 * b(1)
      /\ D!Weight(s, 1) = 2 * b(2)
      /\ D!Weight(s, 2) = 4 * b(4)
      /\ D!Weight(s, 3) = 8 * b(8)
      /\ D!Weight(s, 4) = 16 * b(16)
      /\ D!Weight(s, 5) = 32 * b(32)
      /\ D!Weight(s, 6) = 64 * b(64)
      /\ D!Weight(s, 7) = 128 * b(128)
      BY <1>0, <1>1, Powers DEF D!Weight
<1> HIDE DEF q, b
<1>5. q(1) = 1 * b(1) + 2 * b(2) + 4 * b(4) + 8 * b(8) + 16 * b(16) + 32 * b(32) + 64 * b(64) + 128 * b(128) + 256 * q(256)
  <2>1. q(1) = 1 * b(1) + 2 * b(2) + 4 * b(4) + 8 * b(8) + 16 * q(16)
        BY <1>1, <1>2
  <2>2. q(16) = 1 * b(16) + 2 * b(32) + 4 * b(64) + 8 * b(128) + 16 * q(256)
        BY <1>1, <1>2
  <2> QED BY <1>1, <2>1, <2>2
<1>6. q(1) = 1 * b(1) + 2 * b(2) + 4 * b(4) + 8 * b(8) + 16 * b(16) + 32 * b(32) + 64 * b(64) + 128 * b(128)
      BY <1>1, <1>3, <1>5
<1> QED BY <1>3, <1>4, <1>6 DEF D!ValueOf

\* BitsOf has the positions of the bits that are set.
LEMMA BitOf ==
    ASSUME NEW v, NEW n
    PROVE  \A i \in Nat : i \in D!BitsOf(v, n) <=> i \in 0 .. (n - 1) /\ (v \div 2^i) % 2 = 1
BY DEF D!BitsOf

\* A number is the value of its first 8 bits, and of its first 5 if it has no more.
LEMMA ValueOfByte ==
    ASSUME NEW v, Short(v)
    PROVE  D!ValueOf(D!BitsOf(v, 8)) = v
<1>1. \A i \in 0 .. 7 : i \in D!BitsOf(v, 8) <=> (v \div 2^i) % 2 = 1
      BY DEF D!BitsOf
<1> QED BY <1>1, ValueOfBits

LEMMA ValueOfFive ==
    ASSUME NEW v \in Nat, v < 32
    PROVE  D!ValueOf(D!BitsOf(v, 5)) = v
<1>1. Short(v)
      BY DEF Short
<1>2. ASSUME NEW i \in 0 .. 7 PROVE i \in D!BitsOf(v, 5) <=> (v \div 2^i) % 2 = 1
  <2>1. CASE i \in 0 .. 4
        BY <2>1 DEF D!BitsOf
  <2>2. CASE i \notin 0 .. 4
    <3>1. i = 5 \/ i = 6 \/ i = 7
          BY <2>2
    <3>2. v \div 32 = 0 /\ v \div 64 = 0 /\ v \div 128 = 0
          BY SMT
    <3>3. i = 5 => 2^i = 32
          BY Powers
    <3>4. i = 6 => 2^i = 64
          BY Powers
    <3>5. i = 7 => 2^i = 128
          BY Powers
    <3>6. v \div 2^i = 0
          BY <3>1, <3>2, <3>3, <3>4, <3>5
    <3>7. (v \div 2^i) % 2 # 1
      <4>1. 0 % 2 # 1
            BY SMT
      <4> QED BY <3>6, <4>1, Zenon
    <3>8. i \notin D!BitsOf(v, 5)
          BY <2>2 DEF D!BitsOf
    <3> QED BY <3>7, <3>8
  <2> QED BY <2>1, <2>2
<1> QED BY <1>1, <1>2, ValueOfBits

\* Shifted up, every bit is n positions higher.
LEMMA ShiftBy ==
    ASSUME NEW s \in SUBSET Nat, NEW n \in Nat
    PROVE  \A b \in Nat : b \in D!Shift(s, n) <=> b >= n /\ b - n \in s
<1> SUFFICES ASSUME NEW b \in Nat PROVE b \in D!Shift(s, n) <=> b >= n /\ b - n \in s
    OBVIOUS
<1>1. ASSUME b \in D!Shift(s, n) PROVE b >= n /\ b - n \in s
  <2>1. PICK i \in s : b = i + n
        BY <1>1 DEF D!Shift
  <2> QED BY <2>1
<1>2. ASSUME b >= n, b - n \in s PROVE b \in D!Shift(s, n)
  <2>1. b = (b - n) + n
        BY <1>2
  <2> QED BY <1>2, <2>1 DEF D!Shift
<1> QED BY <1>1, <1>2

\* Shifted down, every bit is n positions lower, and the lowest are lost.
LEMMA ShiftDownBy ==
    ASSUME NEW s \in SUBSET Nat, NEW n \in Nat
    PROVE  \A b \in Nat : b \in D!ShiftDown(s, n) <=> b + n \in s
<1> SUFFICES ASSUME NEW b \in Nat PROVE b \in D!ShiftDown(s, n) <=> b + n \in s
    OBVIOUS
<1>1. ASSUME b \in D!ShiftDown(s, n) PROVE b + n \in s
  <2>1. PICK i \in s : i >= n /\ b = i - n
        BY <1>1 DEF D!ShiftDown
  <2>2. b + n = i
        BY <2>1
  <2> QED BY <2>1, <2>2
<1>2. ASSUME b + n \in s PROVE b \in D!ShiftDown(s, n)
  <2>1. b = (b + n) - n /\ b + n >= n
        OBVIOUS
  <2> QED BY <1>2, <2>1 DEF D!ShiftDown
<1> QED BY <1>1, <1>2

\* Positions stay positions.
LEMMA ShiftedAreNat ==
    ASSUME NEW s \in SUBSET Nat, NEW n \in Nat
    PROVE  D!Shift(s, n) \in SUBSET Nat /\ D!ShiftDown(s, n) \in SUBSET Nat
BY DEF D!Shift, D!ShiftDown

LEMMA BitsAreNat ==
    ASSUME NEW v, NEW n \in Nat
    PROVE  D!BitsOf(v, n) \in SUBSET Nat
BY DEF D!BitsOf

-----------------------------------------------------------------------------
(***************************************************************************)
(* The words of a state, and its fields as the hardware takes them.         *)
(***************************************************************************)
\* The three words of w have these sets of bits in their fields.
Packed(w, n, a, b, f, g, l, r, c) ==
    /\ w[1] \in SUBSET Nat /\ w[2] \in SUBSET Nat /\ w[3] \in SUBSET Nat
    /\ \A i \in Nat : i \in w[1] <=> \/ i \in n
                                     \/ i >= 8 /\ i - 8 \in a
                                     \/ i >= 13 /\ i - 13 \in b
                                     \/ i >= 28 /\ i < 32 /\ i - 28 \in f
    /\ \A i \in Nat : i \in w[2] <=> \/ i + 4 \in f
                                     \/ i >= 1 /\ i - 1 \in g
                                     \/ i >= 6 /\ i - 6 \in l
                                     \/ i >= 14 /\ i - 14 \in r
                                     \/ i >= 22 /\ i < 32 /\ i - 22 \in c
    /\ \A i \in Nat : i \in w[3] <=> i + 10 \in c \/ i = 31

\* The 96 bits of three words.
AllOf(w) == w[1] \cup D!Shift(w[2], 32) \cup D!Shift(w[3], 64)

\* Bit i of the 96 is in the word, and at the place in it, that i says.
LEMMA AllBits ==
    ASSUME NEW w, w[1] \in SUBSET Nat, w[2] \in SUBSET Nat, w[3] \in SUBSET Nat
    PROVE  /\ AllOf(w) \in SUBSET Nat
           /\ \A i \in Nat : i \in AllOf(w) <=> \/ i \in w[1]
                                                \/ i >= 32 /\ i - 32 \in w[2]
                                                \/ i >= 64 /\ i - 64 \in w[3]
<1>1. D!Shift(w[2], 32) \in SUBSET Nat /\ D!Shift(w[3], 64) \in SUBSET Nat
      BY ShiftedAreNat
<1>2. \A i \in Nat : i \in D!Shift(w[2], 32) <=> i >= 32 /\ i - 32 \in w[2]
      BY ShiftBy
<1>3. \A i \in Nat : i \in D!Shift(w[3], 64) <=> i >= 64 /\ i - 64 \in w[3]
      BY ShiftBy
<1> QED BY <1>1, <1>2, <1>3 DEF AllOf

\* The bits of the field f, which is at bit p and has k bits.
LEMMA FieldAt ==
    ASSUME NEW w, w[1] \in SUBSET Nat, w[2] \in SUBSET Nat, w[3] \in SUBSET Nat,
           NEW f, NEW p \in Nat, NEW k \in Nat, D!Fields[f] = <<p, k>>
    PROVE  /\ D!Bits(w, f) \in SUBSET Nat
           /\ \A i \in Nat : i \in D!Bits(w, f) <=> i < k /\ i + p \in AllOf(w)
<1> DEFINE s == AllOf(w) \cap p .. (p + k - 1)
<1>1. AllOf(w) \in SUBSET Nat
      BY AllBits
<1>2. s \in SUBSET Nat
      BY <1>1
<1>3. D!Bits(w, f) = D!ShiftDown(s, p)
      BY DEF D!Bits, AllOf
<1>4. \A i \in Nat : i + p \in s <=> i < k /\ i + p \in AllOf(w)
      OBVIOUS
<1> HIDE DEF s
<1>5. D!ShiftDown(s, p) \in SUBSET Nat
      BY <1>2, ShiftedAreNat
<1>6. \A i \in Nat : i \in D!ShiftDown(s, p) <=> i + p \in s
      BY <1>2, ShiftDownBy
<1> QED BY <1>3, <1>4, <1>5, <1>6

\* Where rdb/gpif.h has the fields of a state, and their widths.
LEMMA FieldsAre ==
    /\ D!Fields["n"] = <<0, 8>> /\ D!Fields["Fa"] = <<8, 5>> /\ D!Fields["Fb"] = <<13, 5>>
    /\ D!Fields["Fc"] = <<18, 5>> /\ D!Fields["Fd"] = <<23, 5>>
    /\ D!Fields["f0"] = <<28, 5>> /\ D!Fields["f1"] = <<33, 5>>
    /\ D!Fields["AL"] = <<38, 8>> /\ D!Fields["AR"] = <<46, 8>> /\ D!Fields["B"] = <<54, 32>>
    /\ D!Fields["REPEAT_COUNT"] = <<86, 8>> /\ D!Fields["BETA_DEASSERT"] = <<94, 1>>
    /\ D!Fields["VALID"] = <<95, 1>>
BY DEF D!Fields

FitRow(n, a, b, f, g, l, r, c) ==
    /\ n \in SUBSET (0 .. 7) /\ a \in SUBSET (0 .. 4) /\ b \in SUBSET (0 .. 4)
    /\ f \in SUBSET (0 .. 4) /\ g \in SUBSET (0 .. 4)
    /\ l \in SUBSET (0 .. 7) /\ r \in SUBSET (0 .. 7) /\ c \in SUBSET (0 .. 31)

\* What is in the 96 bits of a state.
LEMMA PackedBits ==
    ASSUME NEW w, NEW n, NEW a, NEW b, NEW f, NEW g, NEW l, NEW r, NEW c,
           Packed(w, n, a, b, f, g, l, r, c), FitRow(n, a, b, f, g, l, r, c)
    PROVE  \A i \in Nat : i \in AllOf(w) <=>
                \/ i \in n
                \/ i >= 8 /\ i - 8 \in a
                \/ i >= 13 /\ i - 13 \in b
                \/ i >= 28 /\ i - 28 \in f
                \/ i >= 33 /\ i - 33 \in g
                \/ i >= 38 /\ i - 38 \in l
                \/ i >= 46 /\ i - 46 \in r
                \/ i >= 54 /\ i - 54 \in c
                \/ i = 95
<1> SUFFICES ASSUME NEW i \in Nat
             PROVE  i \in AllOf(w) <=>
                \/ i \in n
                \/ i >= 8 /\ i - 8 \in a
                \/ i >= 13 /\ i - 13 \in b
                \/ i >= 28 /\ i - 28 \in f
                \/ i >= 33 /\ i - 33 \in g
                \/ i >= 38 /\ i - 38 \in l
                \/ i >= 46 /\ i - 46 \in r
                \/ i >= 54 /\ i - 54 \in c
                \/ i = 95
    OBVIOUS
<1>1. /\ \A j \in n : j \in 0 .. 7
      /\ \A j \in a : j \in 0 .. 4
      /\ \A j \in b : j \in 0 .. 4
      /\ \A j \in f : j \in 0 .. 4
      /\ \A j \in g : j \in 0 .. 4
      /\ \A j \in l : j \in 0 .. 7
      /\ \A j \in r : j \in 0 .. 7
      /\ \A j \in c : j \in 0 .. 31
      BY DEF FitRow
<1>2. i \in AllOf(w) <=> i \in w[1] \/ (i >= 32 /\ i - 32 \in w[2]) \/ (i >= 64 /\ i - 64 \in w[3])
      BY AllBits DEF Packed
<1>3. i \in w[1] <=> i \in n \/ (i >= 8 /\ i - 8 \in a) \/ (i >= 13 /\ i - 13 \in b)
                        \/ (i >= 28 /\ i < 32 /\ i - 28 \in f)
      BY DEF Packed
<1>4. ASSUME i >= 32
      PROVE  i - 32 \in w[2] <=> i - 28 \in f \/ (i >= 33 /\ i - 33 \in g) \/ (i >= 38 /\ i - 38 \in l)
                        \/ (i >= 46 /\ i - 46 \in r) \/ (i >= 54 /\ i < 64 /\ i - 54 \in c)
  <2> DEFINE j == i - 32
  <2>1. j \in Nat /\ i = j + 32
        BY <1>4
  <2> HIDE DEF j
  <2>2. j \in w[2] <=> j + 4 \in f \/ (j >= 1 /\ j - 1 \in g) \/ (j >= 6 /\ j - 6 \in l)
                          \/ (j >= 14 /\ j - 14 \in r) \/ (j >= 22 /\ j < 32 /\ j - 22 \in c)
        BY <2>1 DEF Packed
  <2>3. /\ j + 4 = i - 28 /\ j - 1 = i - 33 /\ j - 6 = i - 38 /\ j - 14 = i - 46 /\ j - 22 = i - 54
        /\ i - 32 = j
        BY <2>1
  <2> QED BY <2>1, <2>2, <2>3
<1>5. ASSUME i >= 64
      PROVE  i - 64 \in w[3] <=> i - 54 \in c \/ i = 95
  <2> DEFINE j == i - 64
  <2>1. j \in Nat /\ i = j + 64
        BY <1>5
  <2> HIDE DEF j
  <2>2. j \in w[3] <=> j + 10 \in c \/ j = 31
        BY <2>1 DEF Packed
  <2>3. j + 10 = i - 54 /\ i - 64 = j /\ (j = 31 <=> i = 95)
        BY <2>1
  <2> QED BY <2>2, <2>3
<1>6. CASE i < 32
      BY <1>1, <1>2, <1>3, <1>6
<1>7. CASE i >= 32 /\ i < 64
      BY <1>1, <1>2, <1>3, <1>4, <1>7
<1>8. CASE i >= 64
      BY <1>1, <1>2, <1>3, <1>4, <1>5, <1>8
<1> QED BY <1>6, <1>7, <1>8

\* Each field taken out of those 96 bits has exactly the bits packed into it.
LEMMA PackedFields ==
    ASSUME NEW w, NEW n, NEW a, NEW b, NEW f, NEW g, NEW l, NEW r, NEW c,
           Packed(w, n, a, b, f, g, l, r, c), FitRow(n, a, b, f, g, l, r, c)
    PROVE  /\ D!Bits(w, "n") = n /\ D!Bits(w, "Fa") = a /\ D!Bits(w, "Fb") = b
           /\ D!Bits(w, "f0") = f /\ D!Bits(w, "f1") = g
           /\ D!Bits(w, "AL") = l /\ D!Bits(w, "AR") = r /\ D!Bits(w, "B") = c
           /\ D!Bits(w, "VALID") = {0}
           /\ D!Bits(w, "Fc") = {} /\ D!Bits(w, "Fd") = {}
           /\ D!Bits(w, "REPEAT_COUNT") = {} /\ D!Bits(w, "BETA_DEASSERT") = {}
<1>1. w[1] \in SUBSET Nat /\ w[2] \in SUBSET Nat /\ w[3] \in SUBSET Nat
      BY DEF Packed
<1>2. \A i \in Nat : i \in AllOf(w) <=>
                \/ i \in n
                \/ i >= 8 /\ i - 8 \in a
                \/ i >= 13 /\ i - 13 \in b
                \/ i >= 28 /\ i - 28 \in f
                \/ i >= 33 /\ i - 33 \in g
                \/ i >= 38 /\ i - 38 \in l
                \/ i >= 46 /\ i - 46 \in r
                \/ i >= 54 /\ i - 54 \in c
                \/ i = 95
      BY PackedBits
<1>3. /\ \A j \in n : j \in 0 .. 7
      /\ \A j \in a : j \in 0 .. 4
      /\ \A j \in b : j \in 0 .. 4
      /\ \A j \in f : j \in 0 .. 4
      /\ \A j \in g : j \in 0 .. 4
      /\ \A j \in l : j \in 0 .. 7
      /\ \A j \in r : j \in 0 .. 7
      /\ \A j \in c : j \in 0 .. 31
      BY DEF FitRow
<1>4. D!Bits(w, "n") = n
  <2>0. D!Fields["n"] = <<0, 8>>
        BY FieldsAre
  <2>1. /\ D!Bits(w, "n") \in SUBSET Nat
        /\ \A i \in Nat : i \in D!Bits(w, "n") <=> i < 8 /\ i + 0 \in AllOf(w)
        BY <1>1, <2>0, FieldAt
  <2>2. \A i \in Nat : i < 8 => (i + 0 \in AllOf(w) <=> i \in n)
        BY <1>2, <1>3
  <2> QED BY <1>3, <2>1, <2>2, SMTT(40)
<1>5. D!Bits(w, "Fa") = a
  <2>0. D!Fields["Fa"] = <<8, 5>>
        BY FieldsAre
  <2>1. /\ D!Bits(w, "Fa") \in SUBSET Nat
        /\ \A i \in Nat : i \in D!Bits(w, "Fa") <=> i < 5 /\ i + 8 \in AllOf(w)
        BY <1>1, <2>0, FieldAt
  <2>2. \A i \in Nat : i < 5 => (i + 8 \in AllOf(w) <=> i \in a)
        BY <1>2, <1>3
  <2> QED BY <1>3, <2>1, <2>2
<1>6. D!Bits(w, "Fb") = b
  <2>0. D!Fields["Fb"] = <<13, 5>>
        BY FieldsAre
  <2>1. /\ D!Bits(w, "Fb") \in SUBSET Nat
        /\ \A i \in Nat : i \in D!Bits(w, "Fb") <=> i < 5 /\ i + 13 \in AllOf(w)
        BY <1>1, <2>0, FieldAt
  <2>2. \A i \in Nat : i < 5 => (i + 13 \in AllOf(w) <=> i \in b)
        BY <1>2, <1>3
  <2> QED BY <1>3, <2>1, <2>2
<1>7. D!Bits(w, "f0") = f
  <2>0. D!Fields["f0"] = <<28, 5>>
        BY FieldsAre
  <2>1. /\ D!Bits(w, "f0") \in SUBSET Nat
        /\ \A i \in Nat : i \in D!Bits(w, "f0") <=> i < 5 /\ i + 28 \in AllOf(w)
        BY <1>1, <2>0, FieldAt
  <2>2. \A i \in Nat : i < 5 => (i + 28 \in AllOf(w) <=> i \in f)
        BY <1>2, <1>3
  <2> QED BY <1>3, <2>1, <2>2
<1>8. D!Bits(w, "f1") = g
  <2>0. D!Fields["f1"] = <<33, 5>>
        BY FieldsAre
  <2>1. /\ D!Bits(w, "f1") \in SUBSET Nat
        /\ \A i \in Nat : i \in D!Bits(w, "f1") <=> i < 5 /\ i + 33 \in AllOf(w)
        BY <1>1, <2>0, FieldAt
  <2>2. \A i \in Nat : i < 5 => (i + 33 \in AllOf(w) <=> i \in g)
        BY <1>2, <1>3
  <2> QED BY <1>3, <2>1, <2>2, SMTT(40)
<1>9. D!Bits(w, "AL") = l
  <2>0. D!Fields["AL"] = <<38, 8>>
        BY FieldsAre
  <2>1. /\ D!Bits(w, "AL") \in SUBSET Nat
        /\ \A i \in Nat : i \in D!Bits(w, "AL") <=> i < 8 /\ i + 38 \in AllOf(w)
        BY <1>1, <2>0, FieldAt
  <2>2. \A i \in Nat : i < 8 => (i + 38 \in AllOf(w) <=> i \in l)
        BY <1>2, <1>3
  <2> QED BY <1>3, <2>1, <2>2
<1>10. D!Bits(w, "AR") = r
  <2>0. D!Fields["AR"] = <<46, 8>>
        BY FieldsAre
  <2>1. /\ D!Bits(w, "AR") \in SUBSET Nat
        /\ \A i \in Nat : i \in D!Bits(w, "AR") <=> i < 8 /\ i + 46 \in AllOf(w)
        BY <1>1, <2>0, FieldAt
  <2>2. \A i \in Nat : i < 8 => (i + 46 \in AllOf(w) <=> i \in r)
        BY <1>2, <1>3
  <2> QED BY <1>3, <2>1, <2>2
<1>11. D!Bits(w, "B") = c
  <2>0. D!Fields["B"] = <<54, 32>>
        BY FieldsAre
  <2>1. /\ D!Bits(w, "B") \in SUBSET Nat
        /\ \A i \in Nat : i \in D!Bits(w, "B") <=> i < 32 /\ i + 54 \in AllOf(w)
        BY <1>1, <2>0, FieldAt
  <2>2. \A i \in Nat : i < 32 => (i + 54 \in AllOf(w) <=> i \in c)
        BY <1>2, <1>3
  <2> QED BY <1>3, <2>1, <2>2
<1>12. D!Bits(w, "VALID") = {0}
  <2>0. D!Fields["VALID"] = <<95, 1>>
        BY FieldsAre
  <2>1. /\ D!Bits(w, "VALID") \in SUBSET Nat
        /\ \A i \in Nat : i \in D!Bits(w, "VALID") <=> i < 1 /\ i + 95 \in AllOf(w)
        BY <1>1, <2>0, FieldAt, ZenonT(60)
  <2>2. \A i \in Nat : i < 1 => (i + 95 \in AllOf(w) <=> i = 0)
        BY <1>2, <1>3
  <2> QED BY <1>3, <2>1, <2>2
<1>13. D!Bits(w, "Fc") = {}
  <2>0. D!Fields["Fc"] = <<18, 5>>
        BY FieldsAre
  <2>1. /\ D!Bits(w, "Fc") \in SUBSET Nat
        /\ \A i \in Nat : i \in D!Bits(w, "Fc") <=> i < 5 /\ i + 18 \in AllOf(w)
        BY <1>1, <2>0, FieldAt
  <2>2. \A i \in Nat : i < 5 => (i + 18 \in AllOf(w) <=> FALSE)
        BY <1>2, <1>3
  <2> QED BY <1>3, <2>1, <2>2
<1>14. D!Bits(w, "Fd") = {}
  <2>0. D!Fields["Fd"] = <<23, 5>>
        BY FieldsAre
  <2>1. /\ D!Bits(w, "Fd") \in SUBSET Nat
        /\ \A i \in Nat : i \in D!Bits(w, "Fd") <=> i < 5 /\ i + 23 \in AllOf(w)
        BY <1>1, <2>0, FieldAt
  <2>2. \A i \in Nat : i < 5 => (i + 23 \in AllOf(w) <=> FALSE)
        BY <1>2, <1>3
  <2> QED BY <1>3, <2>1, <2>2
<1>15. D!Bits(w, "REPEAT_COUNT") = {}
  <2>0. D!Fields["REPEAT_COUNT"] = <<86, 8>>
        BY FieldsAre
  <2>1. /\ D!Bits(w, "REPEAT_COUNT") \in SUBSET Nat
        /\ \A i \in Nat : i \in D!Bits(w, "REPEAT_COUNT") <=> i < 8 /\ i + 86 \in AllOf(w)
        BY <1>1, <2>0, FieldAt, ZenonT(60)
  <2>2. \A i \in Nat : i < 8 => (i + 86 \in AllOf(w) <=> FALSE)
        BY <1>2, <1>3
  <2> QED BY <1>3, <2>1, <2>2
<1>16. D!Bits(w, "BETA_DEASSERT") = {}
  <2>0. D!Fields["BETA_DEASSERT"] = <<94, 1>>
        BY FieldsAre
  <2>1. /\ D!Bits(w, "BETA_DEASSERT") \in SUBSET Nat
        /\ \A i \in Nat : i \in D!Bits(w, "BETA_DEASSERT") <=> i < 1 /\ i + 94 \in AllOf(w)
        BY <1>1, <2>0, FieldAt, ZenonT(60)
  <2>2. \A i \in Nat : i < 1 => (i + 94 \in AllOf(w) <=> FALSE)
        BY <1>2, <1>3
  <2> QED BY <1>3, <2>1, <2>2
<1> QED BY <1>4, <1>5, <1>6, <1>7, <1>8, <1>9, <1>10, <1>11, <1>12, <1>13, <1>14, <1>15, <1>16

\* The three words GPIF_STATE makes are so packed (gpif.h:86-90).
LEMMA StatePacked ==
    ASSUME NEW r, r.AL \in SUBSET (0 .. 7), r.AR \in SUBSET (0 .. 7), r.B \in SUBSET (0 .. 31)
    PROVE  /\ Packed(D!GPIF_STATE(r), D!BitsOf(r.n, 8), D!BitsOf(r.Fa, 5), D!BitsOf(r.Fb, 5),
                     D!BitsOf(r.f0, 5), D!BitsOf(r.f1, 5), r.AL, r.AR, r.B)
           /\ FitRow(D!BitsOf(r.n, 8), D!BitsOf(r.Fa, 5), D!BitsOf(r.Fb, 5),
                     D!BitsOf(r.f0, 5), D!BitsOf(r.f1, 5), r.AL, r.AR, r.B)
<1> DEFINE n == D!BitsOf(r.n, 8)
           a == D!BitsOf(r.Fa, 5)
           b == D!BitsOf(r.Fb, 5)
           f == D!BitsOf(r.f0, 5)
           f4 == D!BitsOf(r.f0, 4)
           g == D!BitsOf(r.f1, 5)
           al == r.AL
           ar == r.AR
           c == r.B
           c0 == r.B \cap 0 .. 9
           w1 == n \cup D!Shift(a, 8) \cup D!Shift(b, 13) \cup D!Shift(f4, 28)
           w2 == D!ShiftDown(f, 4) \cup D!Shift(g, 1) \cup D!Shift(al, 6) \cup D!Shift(ar, 14)
                     \cup D!Shift(c0, 22)
           w3 == D!ShiftDown(c, 10) \cup {31}
<1>1. FitRow(n, a, b, f, g, al, ar, c)
      BY DEF FitRow, D!BitsOf
<1>2. \A i \in Nat : i \in f4 <=> i < 4 /\ i \in f
      BY DEF D!BitsOf
<1>3. /\ n \in SUBSET Nat /\ a \in SUBSET Nat /\ b \in SUBSET Nat /\ f \in SUBSET Nat
      /\ f4 \in SUBSET Nat /\ g \in SUBSET Nat /\ al \in SUBSET Nat /\ ar \in SUBSET Nat
      /\ c \in SUBSET Nat /\ c0 \in SUBSET Nat
      BY BitsAreNat
<1>4. \A i \in Nat : i \in c0 <=> i <= 9 /\ i \in c
      OBVIOUS
<1>5. D!GPIF_STATE(r) = <<w1, w2, w3>>
      BY DEF D!GPIF_STATE
<1> HIDE DEF n, a, b, f, f4, g, al, ar, c, c0
<1>6. /\ w1 \in SUBSET Nat
      /\ \A i \in Nat : i \in w1 <=> \/ i \in n
                                     \/ i >= 8 /\ i - 8 \in a
                                     \/ i >= 13 /\ i - 13 \in b
                                     \/ i >= 28 /\ i < 32 /\ i - 28 \in f
  <2>1. /\ \A i \in Nat : i \in D!Shift(a, 8) <=> i >= 8 /\ i - 8 \in a
        /\ \A i \in Nat : i \in D!Shift(b, 13) <=> i >= 13 /\ i - 13 \in b
        /\ \A i \in Nat : i \in D!Shift(f4, 28) <=> i >= 28 /\ i - 28 \in f4
        BY <1>3, ShiftBy
  <2>2. /\ D!Shift(a, 8) \in SUBSET Nat /\ D!Shift(b, 13) \in SUBSET Nat
        /\ D!Shift(f4, 28) \in SUBSET Nat
        BY <1>3, ShiftedAreNat
  <2>3. \A i \in Nat : i \in D!Shift(f4, 28) <=> i >= 28 /\ i < 32 /\ i - 28 \in f
    <3>1. ASSUME NEW i \in Nat, i >= 28 PROVE i - 28 \in f4 <=> i < 32 /\ i - 28 \in f
      <4>1. i - 28 \in Nat /\ (i - 28 < 4 <=> i < 32)
            BY <3>1
      <4> QED BY <1>2, <4>1
    <3> QED BY <2>1, <3>1
  <2> QED BY <1>3, <2>1, <2>2, <2>3
<1>7. /\ w2 \in SUBSET Nat
      /\ \A i \in Nat : i \in w2 <=> \/ i + 4 \in f
                                     \/ i >= 1 /\ i - 1 \in g
                                     \/ i >= 6 /\ i - 6 \in al
                                     \/ i >= 14 /\ i - 14 \in ar
                                     \/ i >= 22 /\ i < 32 /\ i - 22 \in c
  <2>1. /\ \A i \in Nat : i \in D!Shift(g, 1) <=> i >= 1 /\ i - 1 \in g
        /\ \A i \in Nat : i \in D!Shift(al, 6) <=> i >= 6 /\ i - 6 \in al
        /\ \A i \in Nat : i \in D!Shift(ar, 14) <=> i >= 14 /\ i - 14 \in ar
        /\ \A i \in Nat : i \in D!Shift(c0, 22) <=> i >= 22 /\ i - 22 \in c0
        BY <1>3, ShiftBy
  <2>2. \A i \in Nat : i \in D!ShiftDown(f, 4) <=> i + 4 \in f
        BY <1>3, ShiftDownBy
  <2>3. /\ D!Shift(g, 1) \in SUBSET Nat /\ D!Shift(al, 6) \in SUBSET Nat
        /\ D!Shift(ar, 14) \in SUBSET Nat /\ D!Shift(c0, 22) \in SUBSET Nat
        /\ D!ShiftDown(f, 4) \in SUBSET Nat
        BY <1>3, ShiftedAreNat
  <2> QED BY <1>4, <2>1, <2>2, <2>3
<1>8. /\ w3 \in SUBSET Nat
      /\ \A i \in Nat : i \in w3 <=> i + 10 \in c \/ i = 31
  <2>1. D!ShiftDown(c, 10) \in SUBSET Nat
        BY <1>3, ShiftedAreNat
  <2>2. \A i \in Nat : i \in D!ShiftDown(c, 10) <=> i + 10 \in c
        BY <1>3, ShiftDownBy
  <2> QED BY <2>1, <2>2
<1> HIDE DEF w1, w2, w3
<1>9. Packed(D!GPIF_STATE(r), n, a, b, f, g, al, ar, c)
      BY <1>5, <1>6, <1>7, <1>8 DEF Packed
<1> QED BY <1>1, <1>9 DEF n, a, b, f, g, al, ar, c

-----------------------------------------------------------------------------
(***************************************************************************)
(* The table of waveforms, in words.                                        *)
(***************************************************************************)
\* The inputs and the outputs the table uses.
Sources == {"CTL0", "ADDR_HIT", "DATA_HIT", "DMA_RDY"}
Outputs == {"PUSH", "COUNT_ADDR", "LD_ADDR", "COUNT_DATA", "LD_DATA"}

\* A row of the table is in range, and goes to a state wherever its functions may let it go.
WaveFits(w) ==
    /\ w.fa \in Sources /\ w.fb \in Sources
    /\ w.f0 \in 0 .. 4 /\ w.f1 \in 0 .. 4
    /\ w.thread \in 0 .. 1 /\ w.beta \in SUBSET Outputs
    /\ w.f0 # 0 => w.left \in 3 .. 16
    /\ w.f1 # 0 => w.right \in 3 .. 16
    /\ w.left \in 0 .. 16 /\ w.right \in 0 .. 16

\* Every row of the table is in range (acquisition.c:18-124).
LEMMA WaveformsFit == \A n \in 3 .. 16 : WaveFits(D!waveforms[n])
<1>1. D!Loads \in SUBSET Outputs /\ {} \in SUBSET Outputs /\ {"COUNT_DATA"} \in SUBSET Outputs
      BY DEF D!Loads, Outputs
<1>2. /\ {"PUSH", "COUNT_DATA", "COUNT_ADDR"} \in SUBSET Outputs /\ {"LD_ADDR"} \in SUBSET Outputs
      /\ {"PUSH", "COUNT_ADDR"} \in SUBSET Outputs
      BY DEF Outputs
<1>3. "CTL0" \in Sources /\ "ADDR_HIT" \in Sources /\ "DATA_HIT" \in Sources /\ "DMA_RDY" \in Sources
      BY DEF Sources
<1>4. D!Done = 16
      BY DEF D!Done
<1>5. WaveFits(D!waveforms[3])
  <2>1. D!waveforms[3] = D!Wave("DMA_RDY", "CTL0", 2, 0, "never", 0, D!Loads, 4, 0)
        BY DEF D!waveforms, D!Done
  <2> QED BY <1>1, <1>2, <1>3, <1>4, <2>1 DEF WaveFits, D!Wave
<1>6. WaveFits(D!waveforms[4])
  <2>1. D!waveforms[4] = D!Wave("ADDR_HIT", "DATA_HIT", 4, 2, "left", 0, {"COUNT_DATA"}, 5, 6)
        BY DEF D!waveforms, D!Done
  <2> QED BY <1>1, <1>2, <1>3, <1>4, <2>1 DEF WaveFits, D!Wave
<1>7. WaveFits(D!waveforms[5])
  <2>1. D!waveforms[5] = D!Wave("DMA_RDY", "CTL0", 3, 1, "never", 0, {"PUSH", "COUNT_DATA", "COUNT_ADDR"}, D!Done, 4)
        BY DEF D!waveforms, D!Done
  <2> QED BY <1>1, <1>2, <1>3, <1>4, <2>1 DEF WaveFits, D!Wave
<1>8. WaveFits(D!waveforms[6])
  <2>1. D!waveforms[6] = D!Wave("ADDR_HIT", "DATA_HIT", 4, 2, "left", 1, {"COUNT_DATA"}, 7, 4)
        BY DEF D!waveforms, D!Done
  <2> QED BY <1>1, <1>2, <1>3, <1>4, <2>1 DEF WaveFits, D!Wave
<1>9. WaveFits(D!waveforms[7])
  <2>1. D!waveforms[7] = D!Wave("DMA_RDY", "CTL0", 3, 1, "never", 1, {"PUSH", "COUNT_DATA", "COUNT_ADDR"}, D!Done, 6)
        BY DEF D!waveforms, D!Done
  <2> QED BY <1>1, <1>2, <1>3, <1>4, <2>1 DEF WaveFits, D!Wave
<1>10. WaveFits(D!waveforms[8])
  <2>1. D!waveforms[8] = D!Wave("DMA_RDY", "CTL0", 2, 0, "never", 0, {"LD_ADDR"}, 9, 0)
        BY DEF D!waveforms, D!Done
  <2> QED BY <1>1, <1>2, <1>3, <1>4, <2>1 DEF WaveFits, D!Wave
<1>11. WaveFits(D!waveforms[9])
  <2>1. D!waveforms[9] = D!Wave("ADDR_HIT", "CTL0", 2, 1, "left", 0, {}, 12, 10)
        BY DEF D!waveforms, D!Done
  <2> QED BY <1>1, <1>2, <1>3, <1>4, <2>1 DEF WaveFits, D!Wave
<1>12. WaveFits(D!waveforms[10])
  <2>1. D!waveforms[10] = D!Wave("DMA_RDY", "CTL0", 3, 1, "never", 0, {"PUSH", "COUNT_ADDR"}, D!Done, 9)
        BY DEF D!waveforms, D!Done
  <2> QED BY <1>1, <1>2, <1>3, <1>4, <2>1 DEF WaveFits, D!Wave
<1>13. WaveFits(D!waveforms[11])
  <2>1. D!waveforms[11] = D!Wave("ADDR_HIT", "CTL0", 2, 1, "left", 1, {}, 9, 12)
        BY DEF D!waveforms, D!Done
  <2> QED BY <1>1, <1>2, <1>3, <1>4, <2>1 DEF WaveFits, D!Wave
<1>14. WaveFits(D!waveforms[12])
  <2>1. D!waveforms[12] = D!Wave("DMA_RDY", "CTL0", 3, 1, "never", 1, {"PUSH", "COUNT_ADDR"}, D!Done, 11)
        BY DEF D!waveforms, D!Done
  <2> QED BY <1>1, <1>2, <1>3, <1>4, <2>1 DEF WaveFits, D!Wave
<1>15. WaveFits(D!waveforms[13])
  <2>1. D!waveforms[13] = D!Wave("DMA_RDY", "CTL0", 2, 0, "left", 0, {"LD_ADDR"}, 14, 0)
        BY DEF D!waveforms, D!Done
  <2> QED BY <1>1, <1>2, <1>3, <1>4, <2>1 DEF WaveFits, D!Wave
<1>16. WaveFits(D!waveforms[14])
  <2>1. D!waveforms[14] = D!Wave("DMA_RDY", "ADDR_HIT", 3, 4, "right", 0, {"PUSH", "COUNT_ADDR"}, D!Done, 15)
        BY DEF D!waveforms, D!Done
  <2> QED BY <1>1, <1>2, <1>3, <1>4, <2>1 DEF WaveFits, D!Wave
<1>17. WaveFits(D!waveforms[15])
  <2>1. D!waveforms[15] = D!Wave("DMA_RDY", "ADDR_HIT", 3, 4, "right", 1, {"PUSH", "COUNT_ADDR"}, D!Done, 14)
        BY DEF D!waveforms, D!Done
  <2> QED BY <1>1, <1>2, <1>3, <1>4, <2>1 DEF WaveFits, D!Wave
<1>18. WaveFits(D!waveforms[16])
  <2>1. D!waveforms[16] = D!Wave("CTL0", "CTL0", 0, 0, "never", 0, {}, 0, 0)
        BY DEF D!waveforms, D!Done
  <2> QED BY <1>1, <1>2, <1>3, <1>4, <2>1 DEF WaveFits, D!Wave
<1> QED BY <1>5, <1>6, <1>7, <1>8, <1>9, <1>10, <1>11,
           <1>12, <1>13, <1>14, <1>15, <1>16, <1>17, <1>18

\* The arguments of GPIF_STATE.
RowFits(r) ==
    /\ r.n \in 3 .. 16 /\ r.Fa \in 0 .. 31 /\ r.Fb \in 0 .. 31
    /\ r.f0 \in 0 .. 4 /\ r.f1 \in 0 .. 4
    /\ r.AL \in SUBSET (0 .. 7) /\ r.AR \in SUBSET (0 .. 7) /\ r.B \in SUBSET (0 .. 31)

\* The outputs of a row fit their field of 32 bits.
LEMMA BetaFits ==
    ASSUME NEW w, w.thread \in 0 .. 1, w.beta \in SUBSET Outputs
    PROVE  D!Beta(w) \in SUBSET (0 .. 31)
<1> DEFINE outs == {CASE b = "PUSH"       -> 7
                      [] b = "COUNT_ADDR" -> 14
                      [] b = "LD_ADDR"    -> 15
                      [] b = "COUNT_DATA" -> 16
                      [] b = "LD_DATA"    -> 17 : b \in w.beta}
           t == D!BitsOf(w.thread, 2)
<1>1. D!Beta(w) = D!Shift(t, 4) \cup outs
      BY DEF D!Beta
<1>2. outs \in SUBSET (0 .. 31)
      BY DEF Outputs
<1>3. t \in SUBSET (0 .. 1)
      BY DEF D!BitsOf
<1> HIDE DEF t, outs
<1>4. D!Shift(t, 4) \in SUBSET (0 .. 31)
      BY <1>3 DEF D!Shift
<1> QED BY <1>1, <1>2, <1>4

\* The arguments of GPIF_STATE fit their fields, and are those of the row.
LEMMA RowsFit ==
    ASSUME NEW n \in 3 .. 16
    PROVE  /\ RowFits(D!rows[n]) /\ D!rows[n].n = n
           /\ D!rows[n].f0 = D!waveforms[n].f0 /\ D!rows[n].f1 = D!waveforms[n].f1
           /\ D!rows[n] = [n |-> D!rows[n].n, Fa |-> D!rows[n].Fa, Fb |-> D!rows[n].Fb,
                           f0 |-> D!rows[n].f0, f1 |-> D!rows[n].f1, AL |-> D!rows[n].AL,
                           AR |-> D!rows[n].AR, B |-> D!rows[n].B]
<1> DEFINE w == D!waveforms[n]
<1>1. WaveFits(w)
      BY WaveformsFit
<1>2. D!rows[n] = D!Row(n, w)
      BY DEF D!rows, D!Done
<1> HIDE DEF w
<1>3. D!Lambda(w.fa) \in 0 .. 31 /\ D!Lambda(w.fb) \in 0 .. 31
      BY <1>1 DEF WaveFits, Sources, D!Lambda
<1>4. D!Beta(w) \in SUBSET (0 .. 31)
      BY <1>1, BetaFits DEF WaveFits
<1>5. w.f0 \in 0 .. 4 /\ w.f1 \in 0 .. 4
      BY <1>1 DEF WaveFits
<1>6. RowFits(D!Row(n, w))
      BY <1>3, <1>4, <1>5 DEF RowFits, D!Row, D!SampleDin
<1>7. /\ D!Row(n, w).n = n /\ D!Row(n, w).f0 = w.f0 /\ D!Row(n, w).f1 = w.f1
      /\ D!Row(n, w) = [n |-> D!Row(n, w).n, Fa |-> D!Row(n, w).Fa, Fb |-> D!Row(n, w).Fb,
                        f0 |-> D!Row(n, w).f0, f1 |-> D!Row(n, w).f1, AL |-> D!Row(n, w).AL,
                        AR |-> D!Row(n, w).AR, B |-> D!Row(n, w).B]
      BY DEF D!Row
<1> QED BY <1>2, <1>6, <1>7 DEF w

\* The words of a state are unpacked to what was packed.
LEMMA Unpacks ==
    ASSUME NEW r, RowFits(r), NEW w, w = D!GPIF_STATE(r)
    PROVE  /\ D!StateOf(w) = r.n
           /\ D!ValueOf(D!Bits(w, "Fa")) = r.Fa /\ D!ValueOf(D!Bits(w, "Fb")) = r.Fb
           /\ D!ValueOf(D!Bits(w, "f0")) = r.f0 /\ D!ValueOf(D!Bits(w, "f1")) = r.f1
           /\ D!Bits(w, "AL") = r.AL /\ D!Bits(w, "AR") = r.AR /\ D!Bits(w, "B") = r.B
           /\ D!Bits(w, "VALID") = {0}
           /\ D!Bits(w, "Fc") = {} /\ D!Bits(w, "Fd") = {}
           /\ D!Bits(w, "REPEAT_COUNT") = {} /\ D!Bits(w, "BETA_DEASSERT") = {}
<1>1. /\ Packed(w, D!BitsOf(r.n, 8), D!BitsOf(r.Fa, 5), D!BitsOf(r.Fb, 5),
                D!BitsOf(r.f0, 5), D!BitsOf(r.f1, 5), r.AL, r.AR, r.B)
      /\ FitRow(D!BitsOf(r.n, 8), D!BitsOf(r.Fa, 5), D!BitsOf(r.Fb, 5),
                D!BitsOf(r.f0, 5), D!BitsOf(r.f1, 5), r.AL, r.AR, r.B)
      BY StatePacked DEF RowFits
<1>2. /\ D!Bits(w, "n") = D!BitsOf(r.n, 8)
      /\ D!Bits(w, "Fa") = D!BitsOf(r.Fa, 5) /\ D!Bits(w, "Fb") = D!BitsOf(r.Fb, 5)
      /\ D!Bits(w, "f0") = D!BitsOf(r.f0, 5) /\ D!Bits(w, "f1") = D!BitsOf(r.f1, 5)
      /\ D!Bits(w, "AL") = r.AL /\ D!Bits(w, "AR") = r.AR /\ D!Bits(w, "B") = r.B
      /\ D!Bits(w, "VALID") = {0}
      /\ D!Bits(w, "Fc") = {} /\ D!Bits(w, "Fd") = {}
      /\ D!Bits(w, "REPEAT_COUNT") = {} /\ D!Bits(w, "BETA_DEASSERT") = {}
      BY <1>1, PackedFields
<1>3. /\ r.Fa \in Nat /\ r.Fa < 32 /\ r.Fb \in Nat /\ r.Fb < 32
      /\ r.f0 \in Nat /\ r.f0 < 32 /\ r.f1 \in Nat /\ r.f1 < 32
      BY DEF RowFits
<1>4. Short(r.n)
      BY DEF RowFits, Short
<1>5. D!ValueOf(D!BitsOf(r.n, 8)) = r.n
      BY <1>4, ValueOfByte
<1>6. /\ D!ValueOf(D!BitsOf(r.Fa, 5)) = r.Fa /\ D!ValueOf(D!BitsOf(r.Fb, 5)) = r.Fb
      /\ D!ValueOf(D!BitsOf(r.f0, 5)) = r.f0 /\ D!ValueOf(D!BitsOf(r.f1, 5)) = r.f1
      BY <1>3, ValueOfFive
<1> QED BY <1>2, <1>5, <1>6 DEF D!StateOf

\* What the hardware finds in the words of the states 3 to 16.
LEMMA WordsUnpack ==
    ASSUME NEW n \in 3 .. 16
    PROVE  /\ D!StateOf(D!words[n]) = n
           /\ D!Unpacked(D!words[n]) = D!rows[n]
           /\ D!Bits(D!words[n], "VALID") = {0}
           /\ \A f \in {"Fc", "Fd", "REPEAT_COUNT", "BETA_DEASSERT"} : D!Bits(D!words[n], f) = {}
           /\ D!ValueOf(D!Bits(D!words[n], "f0")) = D!waveforms[n].f0
           /\ D!ValueOf(D!Bits(D!words[n], "f1")) = D!waveforms[n].f1
<1> DEFINE w == D!words[n]
           r == D!rows[n]
<1>1. w = D!GPIF_STATE(r)
      BY DEF D!words, D!Done
<1>2. /\ RowFits(r) /\ r.n = n /\ r.f0 = D!waveforms[n].f0 /\ r.f1 = D!waveforms[n].f1
      /\ r = [n |-> r.n, Fa |-> r.Fa, Fb |-> r.Fb, f0 |-> r.f0, f1 |-> r.f1, AL |-> r.AL,
              AR |-> r.AR, B |-> r.B]
      BY RowsFit
<1> HIDE DEF w, r
<1>3. /\ D!StateOf(w) = r.n
      /\ D!ValueOf(D!Bits(w, "Fa")) = r.Fa /\ D!ValueOf(D!Bits(w, "Fb")) = r.Fb
      /\ D!ValueOf(D!Bits(w, "f0")) = r.f0 /\ D!ValueOf(D!Bits(w, "f1")) = r.f1
      /\ D!Bits(w, "AL") = r.AL /\ D!Bits(w, "AR") = r.AR /\ D!Bits(w, "B") = r.B
      /\ D!Bits(w, "VALID") = {0}
      /\ D!Bits(w, "Fc") = {} /\ D!Bits(w, "Fd") = {}
      /\ D!Bits(w, "REPEAT_COUNT") = {} /\ D!Bits(w, "BETA_DEASSERT") = {}
      BY <1>1, <1>2, Unpacks
<1>4. D!Unpacked(w) = r
      BY <1>2, <1>3, Zenon DEF D!Unpacked
<1>5. \A f \in {"Fc", "Fd", "REPEAT_COUNT", "BETA_DEASSERT"} : D!Bits(w, f) = {}
      BY <1>3
<1> QED BY <1>2, <1>3, <1>4, <1>5 DEF w, r

\* All words are where they are written: the start states too.
LEMMA StatesOfWords ==
    ASSUME NEW n \in 0 .. 16
    PROVE  D!StateOf(D!words[n]) = n
<1>1. CASE n \in 3 .. 16
      BY <1>1, WordsUnpack
<1>2. CASE n \in 0 .. 2
  <2> DEFINE w == D!words[n]
             s == D!BitsOf(n, 8)
  <2>1. w = <<s, {}, {}>>
        BY <1>2 DEF D!words, D!Done, D!GPIF_START_STATE
  <2>2. s \in SUBSET (0 .. 7)
        BY DEF D!BitsOf
  <2>3. w[1] = s /\ w[2] = {} /\ w[3] = {}
        BY <2>1
  <2> HIDE DEF w, s
  <2>4. \A i \in Nat : i \in AllOf(w) <=> i \in s
        BY <2>2, <2>3, AllBits
  <2> DEFINE p == 0
  <2>5. D!Fields["n"] = <<p, 8>> /\ p \in Nat
        BY FieldsAre
  <2>6. w[1] \in SUBSET Nat /\ w[2] \in SUBSET Nat /\ w[3] \in SUBSET Nat
        BY <2>2, <2>3
  <2>7. \A i \in Nat : i + p = i
        OBVIOUS
  <2> HIDE DEF p
  <2>10. /\ D!Bits(w, "n") \in SUBSET Nat
         /\ \A i \in Nat : i \in D!Bits(w, "n") <=> i < 8 /\ i + p \in AllOf(w)
        BY <2>5, <2>6, FieldAt
  <2>11. \A i \in Nat : i \in D!Bits(w, "n") <=> i \in s
        BY <2>2, <2>4, <2>7, <2>10
  <2>8. D!Bits(w, "n") = s
    <3>1. s \in SUBSET Nat
          BY <2>2
    <3> QED BY <2>10, <2>11, <3>1, Zenon
  <2>9. Short(n)
        BY SMTT(40) DEF Short
  <2> QED BY <2>8, <2>9, ValueOfByte DEF D!StateOf, w, s
<1> QED BY <1>1, <1>2

-----------------------------------------------------------------------------
(***************************************************************************)
(* The registers in the structure, and at their addresses.                  *)
(***************************************************************************)
\* The words before field k of the structure, and the words of that field.
At(k) == IF k <= 14 THEN k - 1
         ELSE IF k <= 33 THEN k + 14
         ELSE IF k <= 38 THEN 4 * k - 85
         ELSE k + 29

Size(k) == IF k = 14 THEN 16 ELSE IF k >= 33 /\ k <= 37 THEN 4 ELSE 1

\* The structure, field by field (gpif.h:162-209).
LEMMA LayoutIs ==
    /\ Len(D!Layout) = 46
    /\ D!Layout[1] = <<"config", 1>> /\ D!Layout[2] = <<"bus_config", 1>>
    /\ D!Layout[3] = <<"bus_config2", 1>> /\ D!Layout[4] = <<"ad_config", 1>>
    /\ D!Layout[5] = <<"status", 1>> /\ D!Layout[6] = <<"intr", 1>>
    /\ D!Layout[7] = <<"intr_mask", 1>> /\ D!Layout[8] = <<"serial_in_config", 1>>
    /\ D!Layout[9] = <<"serial_out_config", 1>> /\ D!Layout[10] = <<"ctrl_bus_direction", 1>>
    /\ D!Layout[11] = <<"ctrl_bus_default", 1>> /\ D!Layout[12] = <<"ctrl_bus_polarity", 1>>
    /\ D!Layout[13] = <<"ctrl_bus_toggle", 1>> /\ D!Layout[14] = <<"ctrl_bus_select", 16>>
    /\ D!Layout[15] = <<"ctrl_count_config", 1>> /\ D!Layout[16] = <<"ctrl_count_reset", 1>>
    /\ D!Layout[17] = <<"ctrl_count_limit", 1>> /\ D!Layout[18] = <<"addr_count_config", 1>>
    /\ D!Layout[19] = <<"addr_count_reset", 1>> /\ D!Layout[20] = <<"addr_count_limit", 1>>
    /\ D!Layout[21] = <<"state_count_config", 1>> /\ D!Layout[22] = <<"state_count_limit", 1>>
    /\ D!Layout[23] = <<"data_count_config", 1>> /\ D!Layout[24] = <<"data_count_reset", 1>>
    /\ D!Layout[25] = <<"data_count_limit", 1>> /\ D!Layout[26] = <<"ctrl_comp_value", 1>>
    /\ D!Layout[27] = <<"ctrl_comp_mask", 1>> /\ D!Layout[28] = <<"data_comp_value", 1>>
    /\ D!Layout[29] = <<"data_comp_mask", 1>> /\ D!Layout[30] = <<"addr_comp_value", 1>>
    /\ D!Layout[31] = <<"addr_comp_mask", 1>> /\ D!Layout[32] = <<"data_ctrl", 1>>
    /\ D!Layout[33] = <<"ingress_data", 4>> /\ D!Layout[34] = <<"egress_data", 4>>
    /\ D!Layout[35] = <<"ingress_address", 4>> /\ D!Layout[36] = <<"egress_address", 4>>
    /\ D!Layout[37] = <<"thread_config", 4>> /\ D!Layout[38] = <<"lambda_stat", 1>>
    /\ D!Layout[39] = <<"alpha_stat", 1>> /\ D!Layout[40] = <<"beta_stat", 1>>
    /\ D!Layout[41] = <<"waveform_ctrl_stat", 1>> /\ D!Layout[42] = <<"waveform_switch", 1>>
    /\ D!Layout[43] = <<"waveform_switch_timeout", 1>> /\ D!Layout[44] = <<"crc_config", 1>>
    /\ D!Layout[45] = <<"crc_data", 1>> /\ D!Layout[46] = <<"beta_deassert", 1>>
BY DEF D!Layout

\* The registers, name by name (rdb/gpif.h).
LEMMA AddressesAre ==
    /\ D!Address["config"] = 0 /\ D!Address["bus_config"] = 1 /\ D!Address["bus_config2"] = 2
    /\ D!Address["ad_config"] = 3 /\ D!Address["status"] = 4 /\ D!Address["intr"] = 5
    /\ D!Address["intr_mask"] = 6 /\ D!Address["serial_in_config"] = 7 /\ D!Address["serial_out_config"] = 8
    /\ D!Address["ctrl_bus_direction"] = 9 /\ D!Address["ctrl_bus_default"] = 10 /\ D!Address["ctrl_bus_polarity"] = 11
    /\ D!Address["ctrl_bus_toggle"] = 12 /\ D!Address["ctrl_bus_select"] = 13 /\ D!Address["ctrl_count_config"] = 29
    /\ D!Address["ctrl_count_reset"] = 30 /\ D!Address["ctrl_count_limit"] = 31 /\ D!Address["addr_count_config"] = 32
    /\ D!Address["addr_count_reset"] = 33 /\ D!Address["addr_count_limit"] = 34 /\ D!Address["state_count_config"] = 35
    /\ D!Address["state_count_limit"] = 36 /\ D!Address["data_count_config"] = 37 /\ D!Address["data_count_reset"] = 38
    /\ D!Address["data_count_limit"] = 39 /\ D!Address["ctrl_comp_value"] = 40 /\ D!Address["ctrl_comp_mask"] = 41
    /\ D!Address["data_comp_value"] = 42 /\ D!Address["data_comp_mask"] = 43 /\ D!Address["addr_comp_value"] = 44
    /\ D!Address["addr_comp_mask"] = 45 /\ D!Address["data_ctrl"] = 46 /\ D!Address["ingress_data"] = 47
    /\ D!Address["egress_data"] = 51 /\ D!Address["ingress_address"] = 55 /\ D!Address["egress_address"] = 59
    /\ D!Address["thread_config"] = 63 /\ D!Address["lambda_stat"] = 67 /\ D!Address["alpha_stat"] = 68
    /\ D!Address["beta_stat"] = 69 /\ D!Address["waveform_ctrl_stat"] = 70 /\ D!Address["waveform_switch"] = 71
    /\ D!Address["waveform_switch_timeout"] = 72 /\ D!Address["crc_config"] = 73 /\ D!Address["crc_data"] = 74
    /\ D!Address["beta_deassert"] = 75
BY DEF D!Address

\* Each field begins at its At, where its register is.
LEMMA FieldsOfLayout ==
    \A k \in 1 .. 46 : D!Layout[k][2] = Size(k) /\ D!Address[D!Layout[k][1]] = At(k)
<1>1. \A k \in 1 .. 8 : D!Layout[k][2] = Size(k) /\ D!Address[D!Layout[k][1]] = At(k)
      BY LayoutIs, AddressesAre DEF At, Size
<1>2. \A k \in 9 .. 16 : D!Layout[k][2] = Size(k) /\ D!Address[D!Layout[k][1]] = At(k)
      BY LayoutIs, AddressesAre DEF At, Size
<1>3. \A k \in 17 .. 24 : D!Layout[k][2] = Size(k) /\ D!Address[D!Layout[k][1]] = At(k)
      BY LayoutIs, AddressesAre DEF At, Size
<1>4. \A k \in 25 .. 32 : D!Layout[k][2] = Size(k) /\ D!Address[D!Layout[k][1]] = At(k)
      BY LayoutIs, AddressesAre DEF At, Size
<1>5. \A k \in 33 .. 40 : D!Layout[k][2] = Size(k) /\ D!Address[D!Layout[k][1]] = At(k)
      BY LayoutIs, AddressesAre DEF At, Size
<1>6. \A k \in 41 .. 46 : D!Layout[k][2] = Size(k) /\ D!Address[D!Layout[k][1]] = At(k)
      BY LayoutIs, AddressesAre DEF At, Size
<1>7. \A k \in 1 .. 46 : \/ k \in 1 .. 8 \/ k \in 9 .. 16 \/ k \in 17 .. 24
                         \/ k \in 25 .. 32 \/ k \in 33 .. 40 \/ k \in 41 .. 46
      OBVIOUS
<1> QED BY <1>1, <1>2, <1>3, <1>4, <1>5, <1>6, <1>7, Zenon

\* The words counted before each field: the recursion has one solution, At.
LEMMA OffsetsAre == \A k \in 1 .. 47 : D!Offset[k] = At(k)
<1> DEFINE of(f) == [k \in 1 .. 47 |-> IF k = 1 THEN 0 ELSE f[k - 1] + D!Layout[k - 1][2]]
           h == [k \in 1 .. 47 |-> At(k)]
<1>1. D!Offset = CHOOSE f : f = of(f)
      BY LayoutIs DEF D!Offset
<1>2. h = of(h)
  <2>1. ASSUME NEW k \in 1 .. 47, k # 1 PROVE h[k] = h[k - 1] + D!Layout[k - 1][2]
    <3>1. k - 1 \in 1 .. 46
          BY <2>1
    <3>2. D!Layout[k - 1][2] = Size(k - 1)
          BY <3>1, FieldsOfLayout
    <3> QED BY <2>1, <3>1, <3>2 DEF At, Size
  <2>2. h[1] = 0
        BY DEF At
  <2>3. \A k \in 1 .. 47 : h[k] = IF k = 1 THEN 0 ELSE h[k - 1] + D!Layout[k - 1][2]
        BY <2>1, <2>2
  <2> HIDE DEF h
  <2>4. h = [k \in 1 .. 47 |-> h[k]]
        BY DEF h
  <2> QED BY <2>3, <2>4, Zenon
<1> HIDE DEF h
<1>3. D!Offset = of(D!Offset)
      BY <1>1, <1>2, Zenon
<1> DEFINE g == D!Offset
<1>4. g[1] = 0
      BY <1>3
<1>5. ASSUME NEW k \in 1 .. 46 PROVE g[k + 1] = g[k] + Size(k)
  <2>1. k + 1 \in 1 .. 47 /\ k + 1 # 1 /\ (k + 1) - 1 = k
        OBVIOUS
  <2>2. g[k + 1] = g[k] + D!Layout[k][2]
        BY <1>3, <2>1
  <2> QED BY <2>2, FieldsOfLayout
<1> HIDE DEF g
<1>6. g[1] = At(1)
      BY <1>4 DEF At
<1>7. ASSUME NEW k \in 1 .. 46, g[k] = At(k) PROVE g[k + 1] = At(k + 1)
      BY <1>5, <1>7 DEF At, Size
<1> HIDE DEF At
<1>8. \A k \in 1 .. 9 : g[k] = At(k)
  <2>1. g[2] = At(2)
        BY <1>7, <1>6
  <2>2. g[3] = At(3)
        BY <1>7, <2>1
  <2>3. g[4] = At(4)
        BY <1>7, <2>2
  <2>4. g[5] = At(5)
        BY <1>7, <2>3
  <2>5. g[6] = At(6)
        BY <1>7, <2>4
  <2>6. g[7] = At(7)
        BY <1>7, <2>5
  <2>7. g[8] = At(8)
        BY <1>7, <2>6
  <2>8. g[9] = At(9)
        BY <1>7, <2>7
  <2> QED BY <1>6, <2>1, <2>2, <2>3, <2>4, <2>5, <2>6, <2>7, <2>8
<1>9. \A k \in 9 .. 17 : g[k] = At(k)
  <2>1. g[10] = At(10)
        BY <1>7, <1>8
  <2>2. g[11] = At(11)
        BY <1>7, <2>1
  <2>3. g[12] = At(12)
        BY <1>7, <2>2
  <2>4. g[13] = At(13)
        BY <1>7, <2>3
  <2>5. g[14] = At(14)
        BY <1>7, <2>4
  <2>6. g[15] = At(15)
        BY <1>7, <2>5
  <2>7. g[16] = At(16)
        BY <1>7, <2>6
  <2>8. g[17] = At(17)
        BY <1>7, <2>7
  <2> QED BY <1>8, <2>1, <2>2, <2>3, <2>4, <2>5, <2>6, <2>7, <2>8
<1>10. \A k \in 17 .. 25 : g[k] = At(k)
  <2>1. g[18] = At(18)
        BY <1>7, <1>9
  <2>2. g[19] = At(19)
        BY <1>7, <2>1
  <2>3. g[20] = At(20)
        BY <1>7, <2>2
  <2>4. g[21] = At(21)
        BY <1>7, <2>3
  <2>5. g[22] = At(22)
        BY <1>7, <2>4
  <2>6. g[23] = At(23)
        BY <1>7, <2>5
  <2>7. g[24] = At(24)
        BY <1>7, <2>6
  <2>8. g[25] = At(25)
        BY <1>7, <2>7
  <2> QED BY <1>9, <2>1, <2>2, <2>3, <2>4, <2>5, <2>6, <2>7, <2>8
<1>11. \A k \in 25 .. 33 : g[k] = At(k)
  <2>1. g[26] = At(26)
        BY <1>7, <1>10
  <2>2. g[27] = At(27)
        BY <1>7, <2>1
  <2>3. g[28] = At(28)
        BY <1>7, <2>2
  <2>4. g[29] = At(29)
        BY <1>7, <2>3
  <2>5. g[30] = At(30)
        BY <1>7, <2>4
  <2>6. g[31] = At(31)
        BY <1>7, <2>5
  <2>7. g[32] = At(32)
        BY <1>7, <2>6
  <2>8. g[33] = At(33)
        BY <1>7, <2>7
  <2> QED BY <1>10, <2>1, <2>2, <2>3, <2>4, <2>5, <2>6, <2>7, <2>8
<1>12. \A k \in 33 .. 41 : g[k] = At(k)
  <2>1. g[34] = At(34)
        BY <1>7, <1>11
  <2>2. g[35] = At(35)
        BY <1>7, <2>1
  <2>3. g[36] = At(36)
        BY <1>7, <2>2
  <2>4. g[37] = At(37)
        BY <1>7, <2>3
  <2>5. g[38] = At(38)
        BY <1>7, <2>4
  <2>6. g[39] = At(39)
        BY <1>7, <2>5
  <2>7. g[40] = At(40)
        BY <1>7, <2>6
  <2>8. g[41] = At(41)
        BY <1>7, <2>7
  <2> QED BY <1>11, <2>1, <2>2, <2>3, <2>4, <2>5, <2>6, <2>7, <2>8
<1>13. \A k \in 41 .. 47 : g[k] = At(k)
  <2>1. g[42] = At(42)
        BY <1>7, <1>12
  <2>2. g[43] = At(43)
        BY <1>7, <2>1
  <2>3. g[44] = At(44)
        BY <1>7, <2>2
  <2>4. g[45] = At(45)
        BY <1>7, <2>3
  <2>5. g[46] = At(46)
        BY <1>7, <2>4
  <2>6. g[47] = At(47)
        BY <1>7, <2>5
  <2> QED BY <1>12, <2>1, <2>2, <2>3, <2>4, <2>5, <2>6
<1> QED BY <1>6, <1>8, <1>9, <1>10, <1>11, <1>12, <1>13 DEF g

\* The structure has 76 words, up to the first of the functions.
LEMMA RegistersIs == D!NumRegisters = 76
<1>1. 46 + 1 = 47 /\ 47 \in 1 .. 47
      OBVIOUS
<1>2. At(47) = 76
      BY DEF At
<1> QED BY <1>1, <1>2, LayoutIs, OffsetsAre DEF D!NumRegisters

\* The words of the structure are those of its fields, in order.
LEMMA LayoutWords ==
    ASSUME NEW k \in 1 .. 46, NEW j \in 0 .. (Size(k) - 1)
    PROVE  At(k) + j \in 0 .. 75 /\ D!layoutWords[At(k) + j + 1] = <<D!Layout[k][1], j>>
<1> DEFINE i == At(k) + j + 1
           is(m) == D!Offset[m] < i /\ i <= D!Offset[m + 1]
<1>1. At(k) \in Nat /\ At(k) + Size(k) = At(k + 1) /\ At(k + 1) <= 76 /\ Size(k) \in Nat
      BY DEF At, Size
<1>2. i \in 1 .. 76 /\ i - 1 = At(k) + j
  <2> DEFINE a == At(k)
             n == Size(k)
  <2>1. a \in Nat /\ n \in Nat /\ a + n <= 76 /\ j \in 0 .. (n - 1)
        BY <1>1
  <2> HIDE DEF a, n
  <2>2. a + j + 1 \in 1 .. 76 /\ (a + j + 1) - 1 = a + j
        BY <2>1
  <2> QED BY <2>2 DEF a
<1>3. \A m \in 1 .. 46 : is(m) <=> At(m) < i /\ i <= At(m + 1)
  <2>1. \A m \in 1 .. 46 : D!Offset[m] = At(m) /\ D!Offset[m + 1] = At(m + 1)
        BY OffsetsAre
  <2> QED BY <2>1
<1>4. At(k) < i /\ i <= At(k + 1)
      BY <1>1
<1>5. \A m \in 1 .. 46 : At(m) < i /\ i <= At(m + 1) => m = k
  <2>1. ASSUME NEW m \in 1 .. 46 PROVE At(m) \in Nat /\ At(m + 1) \in Nat
        BY DEF At
  <2>2. ASSUME NEW m \in 1 .. 46, m < k PROVE At(m + 1) <= At(k)
        BY <2>2 DEF At
  <2>3. ASSUME NEW m \in 1 .. 46, k < m PROVE At(k + 1) <= At(m)
        BY <2>3 DEF At
  <2> HIDE DEF i
  <2> QED BY <1>2, <1>4, <2>1, <2>2, <2>3, SMTT(40)
<1>6. D!layoutWords[i] =
          LET m == CHOOSE m \in 1 .. 46 : is(m) IN <<D!Layout[m][1], i - 1 - D!Offset[m]>>
  <2>1. DOMAIN D!Layout = 1 .. 46
        BY LayoutIs DEF D!Layout
  <2> HIDE DEF i
  <2> QED BY <1>2, <2>1, RegistersIs, ZenonT(60) DEF D!layoutWords
<1>7. (CHOOSE m \in 1 .. 46 : is(m)) = k
  <2>1. is(k)
        BY <1>3, <1>4
  <2>2. \A m \in 1 .. 46 : is(m) => m = k
        BY <1>3, <1>5
  <2> HIDE DEF is
  <2> QED BY <2>1, <2>2
<1>8. i - 1 - D!Offset[k] = j
      BY <1>1, <1>2, OffsetsAre
<1> HIDE DEF is, i
<1>9. D!layoutWords[i] = <<D!Layout[k][1], j>>
      BY <1>6, <1>7, <1>8
<1> QED BY <1>2, <1>9 DEF i

-----------------------------------------------------------------------------
(***************************************************************************)
(* The accesses of start_acquisition, and their places.                     *)
(***************************************************************************)
\* The accesses, and the i-th of a start.
Op == {<<"stop">>, <<"power">>, <<"acknowledge">>, <<"mask">>, <<"alpha">>,
       <<"valid">>, <<"destination">>, <<"switch">>}
      \cup ({"waveform", "function", "register"} \X Nat)

OpAt(i) ==
    CASE i = 1              -> <<"stop">>
      [] i = 2              -> <<"power">>
      [] i \in 3 .. 19      -> <<"waveform", i - 3>>
      [] i \in 20 .. 24     -> <<"function", i - 20>>
      [] i \in 25 .. 100    -> <<"register", 100 - i>>
      [] i = 101            -> <<"acknowledge">>
      [] i = 102            -> <<"mask">>
      [] i = 103            -> <<"alpha">>
      [] i = 104            -> <<"valid">>
      [] i = 105            -> <<"destination">>
      [] i = 106            -> <<"switch">>

\* A list of a's n accesses and then b's m.
Joined(c, a, n, b, m) ==
    /\ c = a \o b
    /\ a \in Seq(Op) /\ Len(a) = n /\ n \in Nat
    /\ b \in Seq(Op) /\ Len(b) = m /\ m \in Nat

\* Two lists of accesses, joined, are as long as both.
LEMMA JoinedOps ==
    ASSUME NEW c, NEW a, NEW n, NEW b, NEW m, Joined(c, a, n, b, m)
    PROVE  c \in Seq(Op) /\ Len(c) = n + m
BY ConcatProperties DEF Joined

\* The first accesses are those of the first list.
LEMMA JoinedEarlier ==
    ASSUME NEW c, NEW a, NEW n, NEW b, NEW m, Joined(c, a, n, b, m)
    PROVE  \A i \in 1 .. n : c[i] = a[i]
<1> DEFINE all == a \o b
<1>1. \A i \in 1 .. n + m : all[i] = IF i <= n THEN a[i] ELSE b[i - n]
      BY ConcatProperties DEF Joined
<1>2. c = all /\ n \in Nat /\ m \in Nat
      BY DEF Joined
<1> HIDE DEF all
<1> QED BY <1>1, <1>2

\* The others are those of the second.
LEMMA JoinedLater ==
    ASSUME NEW c, NEW a, NEW n, NEW b, NEW m, Joined(c, a, n, b, m)
    PROVE  \A i \in 1 .. m : c[n + i] = b[i]
<1> DEFINE all == a \o b
<1>1. \A i \in 1 .. n + m : all[i] = IF i <= n THEN a[i] ELSE b[i - n]
      BY ConcatProperties DEF Joined
<1>2. c = all /\ n \in Nat /\ m \in Nat
      BY DEF Joined
<1> HIDE DEF all
<1>3. ASSUME NEW i \in 1 .. m PROVE c[n + i] = b[i]
  <2>1. n + i \in 1 .. n + m /\ ~(n + i <= n) /\ (n + i) - n = i
        BY <1>2
  <2> QED BY <1>1, <1>2, <2>1
<1> QED BY <1>3

\* The table of functions, by index (acquisition.c:10-16).
LEMMA TruthTablesAre ==
    /\ Len(D!functions) = 5
    /\ D!functions[1] = {} /\ D!functions[2] = 0 .. 15 /\ D!functions[3] = D!Fa
    /\ D!functions[4] = (0 .. 15) \ D!Fa /\ D!functions[5] = D!Fb
BY DEF D!functions

\* start_acquisition makes 106 accesses, access i being OpAt(i).
LEMMA StartOps ==
    /\ D!startOps \in Seq(Op) /\ Len(D!startOps) = 106
    /\ \A i \in 1 .. 106 : D!startOps[i] = OpAt(i)
<1> DEFINE a == << <<"stop">>, <<"power">> >>
           w == [i \in 1 .. 17 |-> <<"waveform", i - 1>>]
           f == [i \in 1 .. 5 |-> <<"function", i - 1>>]
           r == [i \in 1 .. 76 |-> <<"register", 76 - i>>]
           e == << <<"acknowledge">>, <<"mask">>, <<"alpha">>,
                   <<"valid">>, <<"destination">>, <<"switch">> >>
           fr == f \o r
           wfr == w \o fr
           awfr == a \o wfr
           all == awfr \o e
<1>1. D!startOps = all
  <2>1. D!commonOps = fr
        BY TruthTablesAre, RegistersIs, Zenon DEF D!commonOps
  <2>2. D!Done + 1 = 17
        BY DEF D!Done
  <2>3. D!configureOps = wfr
        BY <2>1, <2>2, Zenon DEF D!configureOps
  <2> QED BY <2>3, Zenon DEF D!startOps
<1>2. a \in Seq(Op) /\ Len(a) = 2 /\ a[1] = <<"stop">> /\ a[2] = <<"power">>
      BY DEF Op
<1>3. w \in Seq(Op) /\ Len(w) = 17 /\ \A i \in 1 .. 17 : w[i] = <<"waveform", i - 1>>
      BY DEF Op
<1>4. f \in Seq(Op) /\ Len(f) = 5 /\ \A i \in 1 .. 5 : f[i] = <<"function", i - 1>>
      BY DEF Op
<1>5. r \in Seq(Op) /\ Len(r) = 76 /\ \A i \in 1 .. 76 : r[i] = <<"register", 76 - i>>
      BY DEF Op
<1>6. /\ e \in Seq(Op) /\ Len(e) = 6
      /\ e[1] = <<"acknowledge">> /\ e[2] = <<"mask">> /\ e[3] = <<"alpha">>
      /\ e[4] = <<"valid">> /\ e[5] = <<"destination">> /\ e[6] = <<"switch">>
      BY DEF Op
<1> HIDE DEF a, w, f, r, e
<1>7. Joined(fr, f, 5, r, 76)
      BY <1>4, <1>5 DEF Joined
<1>8. Joined(wfr, w, 17, fr, 81)
  <2>1. fr \in Seq(Op) /\ Len(fr) = 81
    <3>1. fr \in Seq(Op) /\ Len(fr) = 5 + 76
          BY <1>7, JoinedOps, Zenon
    <3> QED BY <3>1
  <2> QED BY <1>3, <2>1 DEF Joined
<1>9. Joined(awfr, a, 2, wfr, 98)
  <2>1. wfr \in Seq(Op) /\ Len(wfr) = 98
    <3>1. wfr \in Seq(Op) /\ Len(wfr) = 17 + 81
          BY <1>8, JoinedOps, Zenon
    <3> QED BY <3>1
  <2> QED BY <1>2, <2>1 DEF Joined
<1>10. Joined(all, awfr, 100, e, 6)
  <2>1. awfr \in Seq(Op) /\ Len(awfr) = 100
    <3>1. awfr \in Seq(Op) /\ Len(awfr) = 2 + 98
          BY <1>9, JoinedOps, Zenon
    <3> QED BY <3>1
  <2> QED BY <1>6, <2>1 DEF Joined
<1>11. all \in Seq(Op) /\ Len(all) = 106
  <2>1. all \in Seq(Op) /\ Len(all) = 100 + 6
        BY <1>10, JoinedOps, Zenon
  <2> QED BY <2>1
<1> HIDE DEF fr, wfr, awfr, all
<1>12. \A i \in 1 .. 5 : fr[i] = f[i]
      BY <1>7, JoinedEarlier
<1>13. \A i \in 1 .. 76 : fr[5 + i] = r[i]
      BY <1>7, JoinedLater
<1>14. \A i \in 1 .. 17 : wfr[i] = w[i]
      BY <1>8, JoinedEarlier
<1>15. \A i \in 1 .. 81 : wfr[17 + i] = fr[i]
      BY <1>8, JoinedLater
<1>16. \A i \in 1 .. 2 : awfr[i] = a[i]
      BY <1>9, JoinedEarlier
<1>17. \A i \in 1 .. 98 : awfr[2 + i] = wfr[i]
      BY <1>9, JoinedLater
<1>18. \A i \in 1 .. 100 : all[i] = awfr[i]
      BY <1>10, JoinedEarlier
<1>19. \A i \in 1 .. 6 : all[100 + i] = e[i]
      BY <1>10, JoinedLater
<1>20. ASSUME NEW i \in 1 .. 106 PROVE all[i] = OpAt(i)
  <2>1. CASE i \in 1 .. 2
    <3>1. all[i] = a[i]
          BY <1>16, <1>18, <2>1
    <3>2. CASE i = 1
          BY <1>2, <3>1, <3>2 DEF OpAt
    <3>3. CASE i = 2
          BY <1>2, <3>1, <3>3 DEF OpAt
    <3> QED BY <2>1, <3>2, <3>3
  <2>2. CASE i \in 3 .. 19
    <3> DEFINE j == i - 2
    <3>1. j \in 1 .. 17 /\ j \in 1 .. 98 /\ i = 2 + j /\ j - 1 = i - 3 /\ i \in 1 .. 100
          BY <2>2
    <3> HIDE DEF j
    <3>2. all[i] = w[j]
          BY <1>14, <1>17, <1>18, <3>1
    <3>3. w[j] = <<"waveform", i - 3>>
          BY <1>3, <3>1
    <3> QED BY <2>2, <3>2, <3>3 DEF OpAt
  <2>3. CASE i \in 20 .. 24
    <3> DEFINE j == i - 19
    <3>1. /\ j \in 1 .. 5 /\ j \in 1 .. 81 /\ 17 + j \in 1 .. 98 /\ i = 2 + (17 + j)
          /\ j - 1 = i - 20 /\ i \in 1 .. 100
          BY <2>3
    <3> HIDE DEF j
    <3>2. all[i] = wfr[17 + j]
          BY <1>17, <1>18, <3>1
    <3>3. wfr[17 + j] = f[j]
          BY <1>12, <1>15, <3>1
    <3>4. f[j] = <<"function", i - 20>>
          BY <1>4, <3>1
    <3> QED BY <2>3, <3>2, <3>3, <3>4 DEF OpAt
  <2>4. CASE i \in 25 .. 100
    <3> DEFINE j == i - 24
    <3>1. /\ j \in 1 .. 76 /\ 5 + j \in 1 .. 81 /\ 17 + (5 + j) \in 1 .. 98
          /\ i = 2 + (17 + (5 + j)) /\ 76 - j = 100 - i /\ i \in 1 .. 100
          BY <2>4
    <3> HIDE DEF j
    <3>2. all[i] = wfr[17 + (5 + j)]
          BY <1>17, <1>18, <3>1
    <3>3. wfr[17 + (5 + j)] = r[j]
          BY <1>13, <1>15, <3>1
    <3>4. r[j] = <<"register", 76 - j>>
          BY <1>5, <3>1, ZenonT(60)
    <3>5. OpAt(i) = <<"register", 100 - i>>
          BY <2>4 DEF OpAt
    <3> QED BY <3>1, <3>2, <3>3, <3>4, <3>5, ZenonT(60)
  <2>5. CASE i \in 101 .. 106
    <3>1. i - 100 \in 1 .. 6 /\ i = 100 + (i - 100)
          BY <2>5
    <3>2. all[i] = e[i - 100]
          BY <1>19, <3>1
    <3>3. i = 101 => all[i] = e[1]
          BY <3>2
    <3>4. i = 102 => all[i] = e[2]
          BY <3>2
    <3>5. i = 103 => all[i] = e[3]
          BY <3>2
    <3>6. i = 104 => all[i] = e[4]
          BY <3>2
    <3>7. i = 105 => all[i] = e[5]
          BY <3>2
    <3>8. i = 106 => all[i] = e[6]
          BY <3>2
    <3>9. i = 101 \/ i = 102 \/ i = 103 \/ i = 104 \/ i = 105 \/ i = 106
          BY <2>5
    <3>10. CASE i = 101
          BY <1>6, <3>3, <3>10 DEF OpAt
    <3>11. CASE i = 102
          BY <1>6, <3>4, <3>11 DEF OpAt
    <3>12. CASE i = 103
          BY <1>6, <3>5, <3>12 DEF OpAt
    <3>13. CASE i = 104
          BY <1>6, <3>6, <3>13 DEF OpAt
    <3>14. CASE i = 105
          BY <1>6, <3>7, <3>14 DEF OpAt
    <3>15. CASE i = 106
          BY <1>6, <3>8, <3>15 DEF OpAt
    <3> QED BY <3>9, <3>10, <3>11, <3>12, <3>13, <3>14, <3>15, Zenon
  <2> QED BY <2>1, <2>2, <2>3, <2>4, <2>5
<1> QED BY <1>1, <1>11, <1>20

-----------------------------------------------------------------------------
(***************************************************************************)
(* The invariant of the driver.                                             *)
(***************************************************************************)
\* What start_acquisition has left after p of its accesses.
Rest(p) == SubSeq(D!startOps, p + 1, 106)

\* The parameters of the last start.
ParamInv ==
    /\ width \in {8, 16, 24, 32} /\ limit \in Nat
    /\ busConfig = D!Field("BUS_WIDTH", (width \div 8) - 1)

\* They are among those the host asks for, or the initial ones.
RangeInv == width \in BitWidths \cup {8} /\ limit \in DriverDelays \cup {0}

\* The words of the memories and of the registers.
MemoryInv == DOMAIN left = 0 .. 16 /\ DOMAIN right = 0 .. 16 /\ DOMAIN regs = 0 .. 107

\* Only the words of functions hold truth tables.
KindInv ==
    /\ \A i \in 0 .. 75 : \A x \in regs[i] : x[1] # "Fx"
    /\ \A i \in 76 .. 107 : \A x \in regs[i] : x[1] = "Fx"

\* What Fx3GpifStart has added to register i after p accesses.
Added(p, i) ==
    CASE i = 6 /\ p >= 102  -> D!GpifRequests
      [] i = 70 /\ p >= 104 -> D!Flag("WAVEFORM_VALID")
      [] i = 71 /\ p = 105  -> D!Destination
      [] i = 71 /\ p = 106  -> D!Destination \cup D!Flag("SWITCH_NOW") \cup D!Flag("WAVEFORM_SWITCH")
      [] OTHER              -> {}

\* What is where after p accesses.
Meant(i) == D!registers(D!layoutWords[i + 1][1], D!layoutWords[i + 1][2])
WavesLoaded(p) ==
    \A n \in 0 .. 16 : n + 3 <= p =>
        left[n] = D!words[D!leftOf[n]] /\ right[n] = D!words[D!rightOf[n]]
FunctionsLoaded(p) == \A k \in 0 .. 4 : k + 20 <= p => regs[76 + k] = {"Fx"} \X D!functions[k + 1]
RegistersLoaded(p) == \A i \in 0 .. 75 : 100 - i <= p => regs[i] = Meant(i) \cup Added(p, i)
Executes(p) ==
    /\ p \in 1 .. 105 => cur = D!Off
    /\ p = 106 => \E n \in 3 .. 16 : cur = D!words[n]
\* After p accesses of a start.
Place(p) ==
    todo = Rest(p) /\ WavesLoaded(p) /\ FunctionsLoaded(p) /\ RegistersLoaded(p) /\ Executes(p)

\* Stopped, about to stop, or in a start, which may be done.
DriverInv ==
    /\ ParamInv /\ RangeInv /\ MemoryInv /\ KindInv
    /\ \/ todo = <<>> /\ cur = D!Off
       \/ todo = << <<"stop">> >>
       \/ \E p \in 0 .. 106 : Place(p)

\* Before access p + 1, it is the head of what is left.
LEMMA RestAt ==
    /\ Rest(0) = D!startOps /\ Rest(106) = <<>>
    /\ \A p \in 0 .. 105 : /\ Rest(p) # <<>> /\ Head(Rest(p)) = OpAt(p + 1)
                           /\ Tail(Rest(p)) = Rest(p + 1)
<1> DEFINE s == D!startOps
<1>1. s \in Seq(Op) /\ Len(s) = 106 /\ \A i \in 1 .. 106 : s[i] = OpAt(i)
      BY StartOps
<1> HIDE DEF s
<1>2. SubSeq(s, 1, 106) = s
      BY <1>1, SubSeqFull
<1>3. SubSeq(s, 107, 106) = <<>>
      BY SubSeqEmpty
<1>4. ASSUME NEW p \in 0 .. 105
      PROVE  /\ SubSeq(s, p + 1, 106) # <<>> /\ Head(SubSeq(s, p + 1, 106)) = OpAt(p + 1)
             /\ Tail(SubSeq(s, p + 1, 106)) = SubSeq(s, (p + 1) + 1, 106)
  <2> DEFINE m == p + 1
             n == 106
  <2>0. /\ m \in 1 .. 106 /\ n \in m .. 106 /\ m \in Int /\ n \in Int /\ m <= n
        /\ n - m + 1 > 0 /\ \A i \in m .. n : i \in 1 .. 106
        OBVIOUS
  <2>1. m \in 1 .. Len(s) /\ n \in m .. Len(s)
        BY <1>1, <2>0, Zenon
  <2>2. \A i \in m .. n : s[i] \in Op
        BY <1>1, <2>0, ElementOfSeq, ZenonT(60)
  <2> HIDE DEF m, n
  <2>3. Head(SubSeq(s, m, n)) = s[m] /\ Tail(SubSeq(s, m, n)) = SubSeq(s, m + 1, n)
        BY <1>1, <2>1, HeadTailOfSubSeq
  <2>4. Len(SubSeq(s, m, n)) = n - m + 1
        BY <2>0, <2>2, SubSeqProperties
  <2>5. SubSeq(s, m, n) # <<>>
    <3>1. Len(SubSeq(s, m, n)) # 0
          BY <2>0, <2>4
    <3>2. Len(<<>>) = 0
          BY EmptySeq
    <3> QED BY <3>1, <3>2, Zenon
  <2>6. s[m] = OpAt(m)
        BY <1>1, <2>0, ZenonT(60)
  <2> QED BY <2>3, <2>5, <2>6 DEF m, n
<1>5. 0 + 1 = 1 /\ 106 + 1 = 107
      OBVIOUS
<1> QED BY <1>2, <1>3, <1>4, <1>5, Zenon DEF Rest, s

\* One register is written.
SetOnly(i, s) ==
    /\ DOMAIN regs' = 0 .. 107 /\ regs'[i] = s
    /\ \A j \in 0 .. 107 : j # i => regs'[j] = regs[j]

LEMMA RegisterSet ==
    ASSUME MemoryInv, NEW i \in 0 .. 107, NEW s, regs' = [regs EXCEPT ![i] = s]
    PROVE  SetOnly(i, s)
BY DEF MemoryInv, SetOnly

\* The bits of a field carry its name.
LEMMA InField == \A name, v : \A x \in D!Field(name, v) : x[1] = name
BY DEF D!Field

\* The number of a width has two bits.
LEMMA TwoBits ==
    ASSUME NEW v \in 0 .. 3
    PROVE  D!BitsOf(v, 16) \in SUBSET (0 .. 1)
<1>1. ASSUME NEW i \in 2 .. 15 PROVE (v \div 2^i) % 2 # 1
  <2>1. /\ 2^2 = 4 /\ 2^3 = 8 /\ 2^4 = 16 /\ 2^5 = 32 /\ 2^6 = 64 /\ 2^7 = 128 /\ 2^8 = 256
        /\ 2^9 = 512 /\ 2^10 = 1024 /\ 2^11 = 2048 /\ 2^12 = 4096 /\ 2^13 = 8192
        /\ 2^14 = 16384 /\ 2^15 = 32768
        BY SMT
  <2>2. \A n \in {4, 8, 16, 32, 64, 128, 256, 512, 1024, 2048, 4096, 8192, 16384, 32768} :
            v \div n = 0
        BY SMT
  <2>3. 2^i \in {4, 8, 16, 32, 64, 128, 256, 512, 1024, 2048, 4096, 8192, 16384, 32768}
    <3>1. /\ i = 2 => 2^i = 2^2
          /\ i = 3 => 2^i = 2^3
          /\ i = 4 => 2^i = 2^4
          /\ i = 5 => 2^i = 2^5
          /\ i = 6 => 2^i = 2^6
          /\ i = 7 => 2^i = 2^7
          /\ i = 8 => 2^i = 2^8
          /\ i = 9 => 2^i = 2^9
          /\ i = 10 => 2^i = 2^10
          /\ i = 11 => 2^i = 2^11
          /\ i = 12 => 2^i = 2^12
          /\ i = 13 => 2^i = 2^13
          /\ i = 14 => 2^i = 2^14
          /\ i = 15 => 2^i = 2^15
          BY Zenon
    <3>2. \/ i = 2 \/ i = 3 \/ i = 4 \/ i = 5 \/ i = 6 \/ i = 7 \/ i = 8 \/ i = 9 \/ i = 10
          \/ i = 11 \/ i = 12 \/ i = 13 \/ i = 14 \/ i = 15
          OBVIOUS
    <3> QED BY <2>1, <3>1, <3>2
  <2>4. 0 % 2 # 1
        BY SMT
  <2>5. v \div 2^i = 0
    <3> DEFINE w == 2^i
    <3>1. w \in {4, 8, 16, 32, 64, 128, 256, 512, 1024, 2048, 4096, 8192, 16384, 32768}
          BY <2>3
    <3> HIDE DEF w
    <3>2. v \div w = 0
          BY <2>2, <3>1
    <3> QED BY <3>2 DEF w
  <2> QED BY <2>4, <2>5, Zenon
<1>2. \A i \in D!BitsOf(v, 16) : i \in 0 .. 15 /\ (v \div 2^i) % 2 = 1
      BY DEF D!BitsOf
<1>3. \A i \in D!BitsOf(v, 16) : i \in 0 .. 15 /\ i \notin 2 .. 15
      BY <1>1, <1>2, Zenon
<1> QED BY <1>3

\* The start writes the number of the width over that of the one before.
LEMMA WidthIs ==
    ASSUME NEW b \in {8, 16, 24, 32}, NEW c \in {8, 16, 24, 32}
    PROVE  (D!Field("BUS_WIDTH", (c \div 8) - 1) \ ({"BUS_WIDTH"} \X (0 .. 1)))
               \cup D!Field("BUS_WIDTH", (b \div 8) - 1)
           = D!Field("BUS_WIDTH", (b \div 8) - 1)
<1> DEFINE v == (c \div 8) - 1
<1>1. v \in 0 .. 3
      BY SMT
<1> HIDE DEF v
<1>2. D!BitsOf(v, 16) \in SUBSET (0 .. 1)
      BY <1>1, TwoBits
<1>3. D!Field("BUS_WIDTH", v) \ ({"BUS_WIDTH"} \X (0 .. 1)) = {}
      BY <1>2 DEF D!Field
<1> QED BY <1>3, Zenon DEF v

\* No word of the structure registers holds a truth table.
LEMMA RegistersKind ==
    ASSUME ParamInv
    PROVE  \A name, j : \A x \in D!registers(name, j) : x[1] # "Fx"
<1> SUFFICES ASSUME NEW name, NEW j, NEW x \in D!registers(name, j) PROVE x[1] # "Fx"
    OBVIOUS
<1>1. \/ x \in D!Flag("ENABLE") \cup D!Flag("THREAD_IN_STATE") \cup D!Flag("CLK_SOURCE")
      \/ x \in D!Field("BUS_WIDTH", (width \div 8) - 1)
      \/ x \in D!Field("A_OEN_CFG", 1) \cup D!Field("DQ_OEN_CFG", 1)
      \/ x \in D!CountConfig
      \/ x \in D!Field("LIMIT", limit)
      \/ x \in D!Field("LIMIT", IF limit = 0 THEN D!SamplesPerBuffer - 1 ELSE D!SamplesPerBuffer)
      \/ x \in D!ThreadConfig(j)
      \/ x \in D!Field("DONE_STATE", D!Done) \cup D!Flag("DONE_ENABLE")
      BY DEF D!registers, ParamInv
<1>2. x[1] \in {"ENABLE", "THREAD_IN_STATE", "CLK_SOURCE", "BUS_WIDTH", "A_OEN_CFG", "DQ_OEN_CFG",
                "INCREMENT", "DOWN_UP", "RELOAD", "LIMIT", "WATERMARK", "BURST_SIZE",
                "THREAD_SOCK", "DONE_STATE", "DONE_ENABLE"}
      BY <1>1, InField DEF D!Flag, D!CountConfig, D!ThreadConfig
<1> QED BY <1>2

-----------------------------------------------------------------------------
\* The operations of a step, by their kinds.
LEMMA StepOf ==
    ASSUME D!Step, NEW p \in 0 .. 105, todo = Rest(p)
    PROVE  /\ todo' = Rest(p + 1)
           /\ UNCHANGED <<width, limit, busConfig>>
           /\ p = 0 => D!StopGpif
           /\ p = 1 => D!PowerCycle
           /\ p \in 2 .. 18 => D!WriteWaveform(p - 2)
           /\ p \in 19 .. 23 =>
                /\ D!SetRegister(76 + (p - 19), {"Fx"} \X D!functions[p - 19 + 1])
                /\ UNCHANGED <<left, right, cur, inputs>>
           /\ p \in 24 .. 99 => D!SetRegister(99 - p, Meant(99 - p)) /\ UNCHANGED <<left, right, cur, inputs>>
           /\ p = 100 => D!SetRegister(5, {}) /\ UNCHANGED <<left, right, cur, inputs>>
           /\ p = 101 => D!SetRegister(6, D!GpifRequests) /\ UNCHANGED <<left, right, cur, inputs>>
           /\ p = 102 => /\ D!SetRegister(70, regs[70] \ D!AlphaInit)
                         /\ UNCHANGED <<left, right, cur, inputs>>
           /\ p = 103 => /\ D!SetRegister(70, regs[70] \cup D!Flag("WAVEFORM_VALID"))
                         /\ UNCHANGED <<left, right, cur, inputs>>
           /\ p = 104 => /\ D!SetRegister(71, (regs[71] \ D!Cleared) \cup D!Destination)
                         /\ UNCHANGED <<left, right, cur, inputs>>
           /\ p = 105 => D!Switch
<1> DEFINE op == Head(todo)
<1>1. /\ op = OpAt(p + 1) /\ todo' = Rest(p + 1)
      BY RestAt DEF D!Step
<1>2. UNCHANGED <<width, limit, busConfig>>
      BY DEF D!Step
<1>3. /\ op[1] = "stop" => D!StopGpif
      /\ op[1] = "power" => D!PowerCycle
      /\ op[1] = "waveform" => D!WriteWaveform(op[2])
      /\ op[1] = "switch" => D!Switch
      /\ op[1] \in {"function", "register", "acknowledge", "mask", "alpha",
                   "valid", "destination"} =>
            D!WriteRegister(op) /\ UNCHANGED <<left, right, cur, inputs>>
      BY DEF D!Step
<1>4. /\ D!Address.waveform_ctrl_stat = 70 /\ D!Address.waveform_switch = 71
      /\ D!Address.intr = 5 /\ D!Address.intr_mask = 6
      BY AddressesAre, Zenon
<1> HIDE DEF op
<1>5. ASSUME D!WriteRegister(op)
      PROVE  /\ op[1] = "function" => D!SetRegister(76 + op[2], {"Fx"} \X D!functions[op[2] + 1])
             /\ op[1] = "register" => D!SetRegister(op[2], Meant(op[2]))
             /\ op[1] = "acknowledge" => D!SetRegister(5, {})
             /\ op[1] = "mask" => D!SetRegister(6, D!GpifRequests)
             /\ op[1] = "alpha" => D!SetRegister(70, regs[70] \ D!AlphaInit)
             /\ op[1] = "valid" => D!SetRegister(70, regs[70] \cup D!Flag("WAVEFORM_VALID"))
             /\ op[1] = "destination" =>
                  D!SetRegister(71, (regs[71] \ D!Cleared) \cup D!Destination)
      BY <1>4, <1>5 DEF D!WriteRegister, Meant, D!FunctionWord, D!FunctionBase
<1>6. CASE p = 0
  <2>1. op = <<"stop">>
        BY <1>1, <1>6 DEF OpAt
  <2> QED BY <1>1, <1>2, <1>3, <1>6, <2>1
<1>7. CASE p = 1
  <2>1. op = <<"power">>
        BY <1>1, <1>7 DEF OpAt
  <2> QED BY <1>1, <1>2, <1>3, <1>7, <2>1
<1>8. CASE p \in 2 .. 18
  <2>1. op = <<"waveform", p - 2>>
        BY <1>1, <1>8 DEF OpAt
  <2> QED BY <1>1, <1>2, <1>3, <1>8, <2>1
<1>9. CASE p \in 19 .. 23
  <2>1. op = <<"function", p - 19>>
        BY <1>1, <1>9 DEF OpAt
  <2> QED BY <1>1, <1>2, <1>3, <1>5, <1>9, <2>1
<1>10. CASE p \in 24 .. 99
  <2>1. op = <<"register", 99 - p>>
        BY <1>1, <1>10 DEF OpAt
  <2> QED BY <1>1, <1>2, <1>3, <1>5, <1>10, <2>1
<1>11. CASE p = 100
  <2>1. op = <<"acknowledge">>
        BY <1>1, <1>11 DEF OpAt
  <2> QED BY <1>1, <1>2, <1>3, <1>5, <1>11, <2>1
<1>12. CASE p = 101
  <2>1. op = <<"mask">>
        BY <1>1, <1>12 DEF OpAt
  <2> QED BY <1>1, <1>2, <1>3, <1>5, <1>12, <2>1
<1>13. CASE p = 102
  <2>1. op = <<"alpha">>
        BY <1>1, <1>13 DEF OpAt
  <2> QED BY <1>1, <1>2, <1>3, <1>5, <1>13, <2>1
<1>14. CASE p = 103
  <2>1. op = <<"valid">>
        BY <1>1, <1>14 DEF OpAt
  <2> QED BY <1>1, <1>2, <1>3, <1>5, <1>14, <2>1
<1>15. CASE p = 104
  <2>1. op = <<"destination">>
        BY <1>1, <1>15 DEF OpAt
  <2> QED BY <1>1, <1>2, <1>3, <1>5, <1>15, <2>1
<1>16. CASE p = 105
  <2>1. op = <<"switch">>
        BY <1>1, <1>16 DEF OpAt
  <2>2. /\ p # 0 /\ p # 1 /\ p \notin 2 .. 18 /\ p \notin 19 .. 23 /\ p \notin 24 .. 99
        BY <1>16
  <2>3. D!Switch
        BY <1>3, <2>1
  <2>4. /\ p # 100 /\ p # 101 /\ p # 102 /\ p # 103 /\ p # 104
        BY <1>16
  <2> QED BY <1>1, <1>2, <2>2, <2>3, <2>4, Zenon
<1>17. \/ p = 0 \/ p = 1 \/ p \in 2 .. 18 \/ p \in 19 .. 23 \/ p \in 24 .. 99
       \/ p = 100 \/ p = 101 \/ p = 102 \/ p = 103 \/ p = 104 \/ p = 105
       OBVIOUS
<1> QED BY <1>6, <1>7, <1>8, <1>9, <1>10, <1>11, <1>12, <1>13, <1>14, <1>15, <1>16, <1>17, Zenon

\* A write of register i keeps the kinds apart when its value is of the kind of the register.
LEMMA KindKept ==
    ASSUME MemoryInv, KindInv, NEW i \in 0 .. 107, NEW s, regs' = [regs EXCEPT ![i] = s],
           i \in 0 .. 75 => \A x \in s : x[1] # "Fx",
           i \in 76 .. 107 => \A x \in s : x[1] = "Fx"
    PROVE  KindInv'
<1>1. regs'[i] = s /\ \A j \in 0 .. 107 : j # i => regs'[j] = regs[j]
  <2>1. SetOnly(i, s)
        BY RegisterSet, Zenon
  <2> QED BY <2>1 DEF SetOnly
<1>2. ASSUME NEW j \in 0 .. 75 PROVE \A x \in regs'[j] : x[1] # "Fx"
  <2>1. CASE j = i
        BY <1>1, <2>1
  <2>2. CASE j # i
        BY <1>1, <2>2 DEF KindInv
  <2> QED BY <2>1, <2>2, Zenon
<1>3. ASSUME NEW j \in 76 .. 107 PROVE \A x \in regs'[j] : x[1] = "Fx"
  <2>1. CASE j = i
        BY <1>1, <2>1
  <2>2. CASE j # i
        BY <1>1, <2>2 DEF KindInv
  <2> QED BY <2>1, <2>2, Zenon
<1> QED BY <1>2, <1>3, Zenon DEF KindInv

\* Access 1 stops the GPIF.
LEMMA StepStop ==
    ASSUME MemoryInv, KindInv, Place(0), D!StopGpif, todo' = Rest(1)
    PROVE  MemoryInv' /\ KindInv' /\ Place(1)'
<1>1. regs' = [regs EXCEPT ![70] = {}] /\ cur' = D!Off /\ UNCHANGED <<left, right>>
      BY AddressesAre DEF D!StopGpif, D!SetRegister
<1>2. MemoryInv'
      BY <1>1 DEF MemoryInv
<1>3. KindInv'
  <2> DEFINE i == 70
  <2>1. i \in 0 .. 107 /\ i \notin 76 .. 107 /\ regs' = [regs EXCEPT ![i] = {}]
        BY <1>1
  <2> HIDE DEF i
  <2>2. \A x \in {} : x[1] # "Fx"
        OBVIOUS
  <2> QED BY <2>1, <2>2, KindKept, Zenon
<1>4. WavesLoaded(1)' /\ FunctionsLoaded(1)' /\ RegistersLoaded(1)' /\ Executes(1)'
      BY <1>1 DEF WavesLoaded, FunctionsLoaded, RegistersLoaded, Executes
<1> QED BY <1>2, <1>3, <1>4 DEF Place

\* Access 2 turns the PIB off and on: the registers may be reset.
LEMMA StepPower ==
    ASSUME MemoryInv, KindInv, Place(1), D!PowerCycle, todo' = Rest(2)
    PROVE  MemoryInv' /\ KindInv' /\ Place(2)'
<1>1. UNCHANGED <<left, right, cur>> /\ (UNCHANGED regs \/ regs' = [i \in 0 .. 107 |-> {}])
      BY DEF D!PowerCycle, D!Words, D!FunctionBase
<1>2. MemoryInv' /\ KindInv'
      BY <1>1 DEF MemoryInv, KindInv
<1>3. WavesLoaded(2)' /\ FunctionsLoaded(2)' /\ RegistersLoaded(2)' /\ Executes(2)'
      BY <1>1 DEF WavesLoaded, FunctionsLoaded, RegistersLoaded, Executes, Place
<1> QED BY <1>2, <1>3 DEF Place

\* Accesses 3 to 19 write the waveforms, each under its own state.
LEMMA StepWave ==
    ASSUME MemoryInv, KindInv, NEW p \in 2 .. 18, Place(p), D!WriteWaveform(p - 2),
           todo' = Rest(p + 1)
    PROVE  MemoryInv' /\ KindInv' /\ Place(p + 1)'
<1> DEFINE n == p - 2
<1>1. n \in 0 .. 16 /\ D!StateOf(D!words[n]) = n
      BY StatesOfWords
<1>2. /\ left' = [left EXCEPT ![n] = D!words[D!leftOf[n]]]
      /\ right' = [right EXCEPT ![n] = D!words[D!rightOf[n]]]
      /\ UNCHANGED <<regs, cur>>
      BY <1>1 DEF D!WriteWaveform
<1>3. MemoryInv' /\ KindInv'
      BY <1>2 DEF MemoryInv, KindInv
<1>4. WavesLoaded(p + 1)'
  <2>1. ASSUME NEW m \in 0 .. 16, m + 3 <= p + 1
        PROVE  left'[m] = D!words[D!leftOf[m]] /\ right'[m] = D!words[D!rightOf[m]]
    <3>1. CASE m = n
          BY <1>1, <1>2, <3>1 DEF MemoryInv
    <3>2. CASE m # n
      <4>1. m + 3 <= p
            BY <2>1, <3>2
      <4>2. left[m] = D!words[D!leftOf[m]] /\ right[m] = D!words[D!rightOf[m]]
            BY <4>1 DEF Place, WavesLoaded
      <4> HIDE DEF n
      <4> QED BY <1>2, <3>2, <4>2 DEF MemoryInv
    <3> QED BY <3>1, <3>2
  <2> QED BY <2>1 DEF WavesLoaded
<1>5. FunctionsLoaded(p + 1)' /\ RegistersLoaded(p + 1)'
      BY DEF FunctionsLoaded, RegistersLoaded
<1>6. Executes(p + 1)'
      BY <1>2 DEF Executes, Place
<1> QED BY <1>3, <1>4, <1>5, <1>6 DEF Place

\* Accesses 20 to 24 write the functions.
LEMMA StepFunction ==
    ASSUME MemoryInv, KindInv, NEW p \in 19 .. 23, Place(p),
           D!SetRegister(76 + (p - 19), {"Fx"} \X D!functions[p - 19 + 1]),
           UNCHANGED <<left, right, cur>>, todo' = Rest(p + 1)
    PROVE  MemoryInv' /\ KindInv' /\ Place(p + 1)'
<1> DEFINE k == p - 19
           i == 76 + k
           s == {"Fx"} \X D!functions[k + 1]
<1>1. k \in 0 .. 4 /\ i \in 76 .. 107 /\ i \in 0 .. 107 /\ i \notin 0 .. 75
      OBVIOUS
<1>2. regs' = [regs EXCEPT ![i] = s]
      BY DEF D!SetRegister
<1>3. \A x \in s : x[1] = "Fx"
      OBVIOUS
<1> HIDE DEF s
<1>4. DOMAIN regs' = 0 .. 107 /\ regs'[i] = s /\ \A j \in 0 .. 107 : j # i => regs'[j] = regs[j]
  <2>1. SetOnly(i, s)
        BY <1>1, <1>2, RegisterSet, ZenonT(60)
  <2> QED BY <2>1 DEF SetOnly
<1>5. MemoryInv'
      BY <1>4 DEF MemoryInv
<1>6. KindInv'
  <2> HIDE DEF i
  <2> QED BY <1>1, <1>2, <1>3, KindKept, ZenonT(60)
<1>7. FunctionsLoaded(p + 1)'
  <2>1. ASSUME NEW m \in 0 .. 4, m + 20 <= p + 1
        PROVE  regs'[76 + m] = {"Fx"} \X D!functions[m + 1]
    <3>1. CASE m = k
      <4>1. 76 + m = i
            BY <3>1
      <4> QED BY <1>4, <3>1, <4>1, Zenon DEF s
    <3>2. CASE m # k
      <4>1. m + 20 <= p /\ 76 + m \in 0 .. 107 /\ 76 + m # i
            BY <2>1, <3>2
      <4>2. regs[76 + m] = {"Fx"} \X D!functions[m + 1]
            BY <4>1 DEF Place, FunctionsLoaded
      <4> HIDE DEF i
      <4> QED BY <1>4, <4>1, <4>2
    <3> QED BY <3>1, <3>2
  <2> QED BY <2>1 DEF FunctionsLoaded
<1>8. WavesLoaded(p + 1)' /\ RegistersLoaded(p + 1)' /\ Executes(p + 1)'
      BY DEF WavesLoaded, RegistersLoaded, Executes, Place
<1> QED BY <1>5, <1>6, <1>7, <1>8 DEF Place

\* Accesses 25 to 100 write the registers, downward.
LEMMA StepRegister ==
    ASSUME ParamInv, MemoryInv, KindInv, NEW p \in 24 .. 99, Place(p),
           D!SetRegister(99 - p, Meant(99 - p)), UNCHANGED <<left, right, cur, width, limit, busConfig>>,
           todo' = Rest(p + 1)
    PROVE  MemoryInv' /\ KindInv' /\ Place(p + 1)'
<1> DEFINE i == 99 - p
<1>1. i \in 0 .. 75 /\ i \in 0 .. 107 /\ i \notin 76 .. 107
      OBVIOUS
<1>2. regs' = [regs EXCEPT ![i] = Meant(i)]
      BY DEF D!SetRegister
<1>3. \A x \in Meant(i) : x[1] # "Fx"
      BY RegistersKind DEF Meant
<1>4. DOMAIN regs' = 0 .. 107 /\ regs'[i] = Meant(i) /\ \A j \in 0 .. 107 : j # i => regs'[j] = regs[j]
  <2>1. SetOnly(i, Meant(i))
        BY <1>1, <1>2, RegisterSet, ZenonT(60)
  <2> QED BY <2>1 DEF SetOnly
<1>5. MemoryInv'
      BY <1>4 DEF MemoryInv
<1>6. KindInv'
  <2> HIDE DEF i
  <2> QED BY <1>1, <1>2, <1>3, KindKept, ZenonT(60)
<1>7. \A j : Meant(j)' = Meant(j)
      BY DEF Meant, D!registers, D!SamplesPerBuffer
<1>8. \A j, q \in 0 .. 100 : Added(q, j) = {}
      BY DEF Added
<1>9. \A j, q \in 0 .. 100 : Added(q, j)' = {}
      BY DEF Added
<1>10. RegistersLoaded(p + 1)'
  <2>1. ASSUME NEW j \in 0 .. 75, 100 - j <= p + 1 PROVE regs'[j] = Meant(j)
    <3>1. CASE j = i
          BY <1>4, <3>1
    <3>2. CASE j # i
      <4>1. 100 - j <= p /\ j \in 0 .. 107
            BY <2>1, <3>2
      <4>2. regs[j] = Meant(j)
        <5>1. regs[j] = Meant(j) \cup Added(p, j)
              BY <4>1 DEF Place, RegistersLoaded
        <5>2. Added(p, j) = {}
              BY <1>8
        <5> QED BY <5>1, <5>2
      <4> HIDE DEF i
      <4> QED BY <1>4, <3>2, <4>1, <4>2
    <3> QED BY <3>1, <3>2
  <2> QED BY <1>7, <1>9, <2>1, SMTT(40) DEF RegistersLoaded
<1>11. FunctionsLoaded(p + 1)'
      BY <1>4 DEF FunctionsLoaded, Place
<1>12. WavesLoaded(p + 1)' /\ Executes(p + 1)'
      BY DEF WavesLoaded, Executes, Place
<1> QED BY <1>5, <1>6, <1>10, <1>11, <1>12 DEF Place

\* The last three accesses: access q, after p, makes s of register i.
Adds(p, q, i, s) ==
    /\ p \in 100 .. 105 /\ q = p + 1 /\ i \in 0 .. 75
    /\ regs' = [regs EXCEPT ![i] = s] /\ s = Meant(i) \cup Added(q, i)
    /\ \A x \in s : x[1] # "Fx"
    /\ \A j \in 0 .. 75 : j # i => Added(q, j) = Added(p, j)
    /\ UNCHANGED <<left, right, width, limit, busConfig>>
    /\ Place(p) /\ todo' = Rest(q) /\ Executes(q)'

\* Such an access keeps the rest as it was.
LEMMA StepAdds ==
    ASSUME MemoryInv, KindInv, NEW p, NEW q, NEW i, NEW s, Adds(p, q, i, s)
    PROVE  MemoryInv' /\ KindInv' /\ Place(q)'
<1> USE DEF Adds
<1>1. i \in 0 .. 107 /\ i \notin 76 .. 107
      OBVIOUS
<1>2. DOMAIN regs' = 0 .. 107 /\ regs'[i] = s /\ \A j \in 0 .. 107 : j # i => regs'[j] = regs[j]
  <2>1. SetOnly(i, s)
        BY <1>1, RegisterSet, Zenon
  <2> QED BY <2>1 DEF SetOnly
<1>3. MemoryInv'
      BY <1>2 DEF MemoryInv
<1>4. KindInv'
      BY <1>1, KindKept, Zenon
<1>5. \A j : Meant(j)' = Meant(j)
      BY DEF Meant, D!registers, D!SamplesPerBuffer
<1>6. \A m, j : Added(m, j)' = Added(m, j)
      BY DEF Added, D!Destination
<1>7. ASSUME NEW j \in 0 .. 75 PROVE regs'[j] = Meant(j) \cup Added(q, j)
  <2>1. CASE j = i
        BY <1>2, <2>1, Zenon
  <2>2. CASE j # i
    <3>1. 100 - j <= p /\ j \in 0 .. 107
          OBVIOUS
    <3>2. regs[j] = Meant(j) \cup Added(p, j)
          BY <3>1 DEF Place, RegistersLoaded
    <3>3. Added(q, j) = Added(p, j)
          BY <2>2
    <3>4. regs'[j] = regs[j]
          BY <1>2, <2>2, <3>1
    <3> QED BY <3>2, <3>3, <3>4, Zenon
  <2> QED BY <2>1, <2>2
<1>8. RegistersLoaded(q)'
      BY <1>5, <1>6, <1>7 DEF RegistersLoaded
<1>9. FunctionsLoaded(q)'
      BY <1>2 DEF FunctionsLoaded, Place
<1>10. WavesLoaded(q)'
      BY DEF WavesLoaded, Place
<1> QED BY <1>3, <1>4, <1>8, <1>9, <1>10 DEF Place

\* What each of the last six accesses adds.
LEMMA AddedIs ==
    /\ \A j \in 0 .. 75 : Added(101, j) = Added(100, j) /\ Added(103, j) = Added(102, j)
    /\ \A j \in 0 .. 75 : j # 6 => Added(102, j) = Added(101, j)
    /\ \A j \in 0 .. 75 : j # 70 => Added(104, j) = Added(103, j)
    /\ \A j \in 0 .. 75 : j # 71 => Added(105, j) = Added(104, j)
    /\ \A j \in 0 .. 75 : j # 71 => Added(106, j) = Added(105, j)
    /\ Added(100, 5) = {} /\ Added(101, 5) = {}
    /\ Added(101, 6) = {} /\ Added(102, 6) = D!GpifRequests
    /\ Added(102, 70) = {} /\ Added(103, 70) = {} /\ Added(104, 70) = D!Flag("WAVEFORM_VALID")
    /\ Added(104, 71) = {} /\ Added(105, 71) = D!Destination
    /\ Added(106, 71) = D!Destination \cup D!Flag("SWITCH_NOW") \cup D!Flag("WAVEFORM_SWITCH")
BY DEF Added

\* What start_acquisition leaves in waveform_switch.
LEMMA SwitchMeans == Meant(71) = D!Field("DONE_STATE", D!Done) \cup D!Flag("DONE_ENABLE")
<1> DEFINE k == 42
           j == 0
<1>1. k \in 1 .. 46 /\ j \in 0 .. (Size(k) - 1) /\ At(k) + j = 71 /\ At(k) + j + 1 = 71 + 1
      BY DEF At, Size
<1>2. D!Layout[k][1] = "waveform_switch"
      BY LayoutIs
<1> HIDE DEF k, j
<1>3. D!layoutWords[71 + 1] = <<"waveform_switch", j>>
      BY <1>1, <1>2, LayoutWords, SMTT(40)
<1>4. Meant(71) = D!registers("waveform_switch", j)
      BY <1>3 DEF Meant
<1> QED BY <1>4 DEF D!registers

\* The structure leaves intr, intr_mask and waveform_ctrl_stat empty.
LEMMA NothingMeant == Meant(5) = {} /\ Meant(6) = {} /\ Meant(70) = {}
<1>1. ASSUME NEW k \in {6, 7, 41} PROVE Meant(At(k)) = {}
  <2> DEFINE i == At(k)
             j == 0
             name == D!Layout[k][1]
  <2>1. k \in 1 .. 46 /\ j \in 0 .. (Size(k) - 1) /\ At(k) + j = i
        BY DEF At, Size
  <2>2. name \in {"intr", "intr_mask", "waveform_ctrl_stat"}
        BY LayoutIs
  <2> HIDE DEF j
  <2>3. D!layoutWords[i + 1] = <<name, j>>
        BY <2>1, LayoutWords, SMTT(40)
  <2> HIDE DEF i, name
  <2>4. Meant(i) = D!registers(name, j)
        BY <2>3 DEF Meant
  <2>5. D!registers(name, j) = {}
        BY <2>2 DEF D!registers
  <2> QED BY <2>4, <2>5 DEF i
<1>2. At(6) = 5 /\ At(7) = 6 /\ At(41) = 70
      BY DEF At
<1>3. Meant(At(6)) = {} /\ Meant(At(7)) = {} /\ Meant(At(41)) = {}
      BY <1>1
<1> QED BY <1>2, <1>3, Zenon

\* Access 101 acknowledges what was requested.
LEMMA StepAcknowledge ==
    ASSUME ParamInv, MemoryInv, KindInv, Place(100), D!SetRegister(5, {}),
           UNCHANGED <<left, right, cur, width, limit, busConfig>>, todo' = Rest(101)
    PROVE  MemoryInv' /\ KindInv' /\ Place(101)'
<1> DEFINE i == 5
           s == {}
<1>1. regs' = [regs EXCEPT ![i] = s]
      BY DEF D!SetRegister
<1>3. s = Meant(i) \cup Added(101, i)
      BY NothingMeant, AddedIs
<1>4. \A x \in s : x[1] # "Fx"
      OBVIOUS
<1>5. Executes(101)'
      BY DEF Executes, Place
<1>6. /\ 100 \in 100 .. 105 /\ 101 = 100 + 1 /\ i \in 0 .. 75
      /\ \A j \in 0 .. 75 : j # i => Added(101, j) = Added(100, j)
      BY AddedIs
<1> HIDE DEF s, i
<1>9. MemoryInv' /\ KindInv' /\ Place(101)'
  <2>1. Adds(100, 101, i, s)
        BY <1>1, <1>3, <1>4, <1>5, <1>6 DEF Adds
  <2> QED BY <2>1, StepAdds
<1> QED BY <1>9

\* Access 102 enables the requests of the GPIF.
LEMMA StepMask ==
    ASSUME ParamInv, MemoryInv, KindInv, Place(101), D!SetRegister(6, D!GpifRequests),
           UNCHANGED <<left, right, cur, width, limit, busConfig>>, todo' = Rest(102)
    PROVE  MemoryInv' /\ KindInv' /\ Place(102)'
<1> DEFINE i == 6
           s == D!GpifRequests
<1>1. regs' = [regs EXCEPT ![i] = s]
      BY DEF D!SetRegister
<1>3. s = Meant(i) \cup Added(102, i)
      BY NothingMeant, AddedIs
<1>4. \A x \in s : x[1] # "Fx"
      BY InField DEF D!GpifRequests, D!Flag
<1>5. Executes(102)'
      BY DEF Executes, Place
<1>6. /\ 101 \in 100 .. 105 /\ 102 = 101 + 1 /\ i \in 0 .. 75
      /\ \A j \in 0 .. 75 : j # i => Added(102, j) = Added(101, j)
      BY AddedIs
<1> HIDE DEF s, i
<1>9. MemoryInv' /\ KindInv' /\ Place(102)'
  <2>1. Adds(101, 102, i, s)
        BY <1>1, <1>3, <1>4, <1>5, <1>6 DEF Adds
  <2> QED BY <2>1, StepAdds
<1> QED BY <1>9

\* Access 103 clears the initial alpha, and nothing was set.
LEMMA StepAlpha ==
    ASSUME ParamInv, MemoryInv, KindInv, Place(102), D!SetRegister(70, regs[70] \ D!AlphaInit),
           UNCHANGED <<left, right, cur, width, limit, busConfig>>, todo' = Rest(103)
    PROVE  MemoryInv' /\ KindInv' /\ Place(103)'
<1> DEFINE i == 70
           s == regs[i] \ D!AlphaInit
<1>1. regs' = [regs EXCEPT ![i] = s]
      BY DEF D!SetRegister
<1>2. regs[i] = Meant(i)
  <2>1. regs[i] = Meant(i) \cup Added(102, i)
        BY DEF Place, RegistersLoaded
  <2> QED BY <2>1, AddedIs
<1>3. s = Meant(i) \cup Added(103, i)
      BY <1>2, NothingMeant, AddedIs
<1>4. \A x \in s : x[1] # "Fx"
      BY <1>2, NothingMeant
<1>5. Executes(103)'
      BY DEF Executes, Place
<1>6. /\ 102 \in 100 .. 105 /\ 103 = 102 + 1 /\ i \in 0 .. 75
      /\ \A j \in 0 .. 75 : j # i => Added(103, j) = Added(102, j)
      BY AddedIs
<1> HIDE DEF s, i
<1>9. MemoryInv' /\ KindInv' /\ Place(103)'
  <2>1. Adds(102, 103, i, s)
        BY <1>1, <1>3, <1>4, <1>5, <1>6 DEF Adds
  <2> QED BY <2>1, StepAdds
<1> QED BY <1>9

\* Access 104 sets WAVEFORM_VALID.
LEMMA StepValid ==
    ASSUME ParamInv, MemoryInv, KindInv, Place(103), D!SetRegister(70, regs[70] \cup D!Flag("WAVEFORM_VALID")),
           UNCHANGED <<left, right, cur, width, limit, busConfig>>, todo' = Rest(104)
    PROVE  MemoryInv' /\ KindInv' /\ Place(104)'
<1> DEFINE i == 70
           s == regs[i] \cup D!Flag("WAVEFORM_VALID")
<1>1. regs' = [regs EXCEPT ![i] = s]
      BY DEF D!SetRegister
<1>2. regs[i] = Meant(i)
  <2>1. regs[i] = Meant(i) \cup Added(103, i)
        BY DEF Place, RegistersLoaded
  <2> QED BY <2>1, AddedIs
<1>3. s = Meant(i) \cup Added(104, i)
      BY <1>2, AddedIs
<1>4. \A x \in s : x[1] # "Fx"
      BY <1>2, RegistersKind, InField DEF Meant, D!Flag
<1>5. Executes(104)'
      BY DEF Executes, Place
<1>6. /\ 103 \in 100 .. 105 /\ 104 = 103 + 1 /\ i \in 0 .. 75
      /\ \A j \in 0 .. 75 : j # i => Added(104, j) = Added(103, j)
      BY AddedIs
<1> HIDE DEF s, i
<1>9. MemoryInv' /\ KindInv' /\ Place(104)'
  <2>1. Adds(103, 104, i, s)
        BY <1>1, <1>3, <1>4, <1>5, <1>6 DEF Adds
  <2> QED BY <2>1, StepAdds
<1> QED BY <1>9

\* Access 105 writes the state to go to: nothing it clears was set.
LEMMA StepDestination ==
    ASSUME ParamInv, MemoryInv, KindInv, Place(104),
           D!SetRegister(71, (regs[71] \ D!Cleared) \cup D!Destination),
           UNCHANGED <<left, right, cur, width, limit, busConfig>>, todo' = Rest(105)
    PROVE  MemoryInv' /\ KindInv' /\ Place(105)'
<1> DEFINE i == 71
           cleared == D!Cleared
           s == (regs[i] \ cleared) \cup D!Destination
<1>1. regs' = [regs EXCEPT ![i] = s]
      BY DEF D!SetRegister
<1>2. regs[i] = Meant(i)
  <2>1. regs[i] = Meant(i) \cup Added(104, i)
        BY DEF Place, RegistersLoaded
  <2> QED BY <2>1, AddedIs
<1>3. Meant(i) \ cleared = Meant(i)
  <2>1. \A x \in Meant(i) : x[1] \in {"DONE_STATE", "DONE_ENABLE"}
        BY SwitchMeans, InField DEF D!Flag
  <2>2. \A x \in cleared : x[1] \in {"TIMEOUT_MODE", "TERMINAL_STATE", "SWITCH_NOW", "WAVEFORM_SWITCH"}
        BY InField DEF D!Cleared, D!Flag
  <2>3. \A x \in Meant(i) : x \notin cleared
    <3> HIDE DEF cleared
    <3> QED BY <2>1, <2>2
  <2> HIDE DEF cleared
  <2> QED BY <2>3, Zenon
<1>4. s = Meant(i) \cup Added(105, i)
      BY <1>2, <1>3, AddedIs
<1>5. \A x \in s : x[1] # "Fx"
  <2>1. \A x \in Meant(i) : x[1] # "Fx"
        BY RegistersKind DEF Meant
  <2>2. \A x \in D!Destination : x[1] # "Fx"
        BY InField DEF D!Destination
  <2> HIDE DEF cleared
  <2> QED BY <1>2, <2>1, <2>2
<1>6. Executes(105)'
      BY DEF Executes, Place
<1>7. /\ 104 \in 100 .. 105 /\ 105 = 104 + 1 /\ i \in 0 .. 75
      /\ \A j \in 0 .. 75 : j # i => Added(105, j) = Added(104, j)
      BY AddedIs
<1> HIDE DEF s, i
<1>10. MemoryInv' /\ KindInv' /\ Place(105)'
  <2>1. Adds(104, 105, i, s)
        BY <1>1, <1>4, <1>5, <1>6, <1>7 DEF Adds
  <2> QED BY <2>1, StepAdds
<1> QED BY <1>10

\* The state the GPIF is sent to, and its left edge.
LEMMA SentTo ==
    ASSUME ParamInv, NEW r, r = Meant(71) \cup D!Destination
    PROVE  LET to == D!ValueOf({x[2] : x \in {y \in r : y[1] = "DESTINATION_STATE"}})
           IN  to \in 0 .. 16 /\ D!leftOf[to] \in 3 .. 16
<1> DEFINE to == IF limit < 2 THEN limit ELSE 2
           s == {x[2] : x \in {y \in r : y[1] = "DESTINATION_STATE"}}
<1>1. to \in 0 .. 2 /\ Short(to)
      BY DEF ParamInv, Short
<1>2. D!Destination = {"DESTINATION_STATE"} \X D!BitsOf(to, 16)
      BY DEF D!Destination, D!Field
<1> HIDE DEF to
<1>3. {y \in r : y[1] = "DESTINATION_STATE"} = D!Destination
  <2>1. \A x \in Meant(71) : x[1] \in {"DONE_STATE", "DONE_ENABLE"}
        BY SwitchMeans, InField DEF D!Flag
  <2>2. \A x \in D!Destination : x[1] = "DESTINATION_STATE"
        BY <1>2
  <2>3. \A x \in Meant(71) : x[1] # "DESTINATION_STATE"
        BY <2>1
  <2> QED BY <2>2, <2>3, Zenon
<1>4. s = D!BitsOf(to, 16)
  <2> DEFINE b == D!BitsOf(to, 16)
  <2>1. s = {x[2] : x \in {"DESTINATION_STATE"} \X b}
        BY <1>2, <1>3, Zenon
  <2> HIDE DEF s, b
  <2>2. \A y : y \in s <=> y \in b
    <3>1. \A y \in b : <<"DESTINATION_STATE", y>> \in {"DESTINATION_STATE"} \X b
          OBVIOUS
    <3>2. \A x \in {"DESTINATION_STATE"} \X b : x[2] \in b
          OBVIOUS
    <3>3. \A y : <<"DESTINATION_STATE", y>>[2] = y
          OBVIOUS
    <3> QED BY <2>1, <3>1, <3>2, <3>3, Zenon
  <2>3. s = b
        BY <2>2, Zenon
  <2> QED BY <2>3 DEF b
<1>5. \A i \in 0 .. 7 : i \in s <=> (to \div 2^i) % 2 = 1
      BY <1>4 DEF D!BitsOf
<1> HIDE DEF s
<1>6. D!ValueOf(s) = to
      BY <1>1, <1>5, ValueOfBits
<1>7. D!leftOf[to] \in 3 .. 16
      BY <1>1 DEF D!leftOf, D!StartState, D!Done
<1> QED BY <1>1, <1>6, <1>7 DEF s

\* Access 106 makes the GPIF go there, and it executes the state of the left edge.
LEMMA StepSwitch ==
    ASSUME ParamInv, MemoryInv, KindInv, Place(105), D!Switch,
           UNCHANGED <<width, limit, busConfig>>, todo' = Rest(106)
    PROVE  MemoryInv' /\ KindInv' /\ Place(106)'
<1> DEFINE i == 71
           s == regs[i] \cup D!Flag("SWITCH_NOW") \cup D!Flag("WAVEFORM_SWITCH")
           to == D!ValueOf({x[2] : x \in {y \in regs[71] : y[1] = "DESTINATION_STATE"}})
<1>0. D!Address.waveform_switch = 71
      BY AddressesAre, Zenon
<1>1. regs' = [regs EXCEPT ![i] = s] /\ cur' = left[to] /\ UNCHANGED <<left, right>>
      BY <1>0 DEF D!Switch, D!SetRegister
<1>2. regs[i] = Meant(i) \cup D!Destination
  <2>1. regs[i] = Meant(i) \cup Added(105, i)
        BY DEF Place, RegistersLoaded
  <2> QED BY <2>1, AddedIs
<1>3. s = Meant(i) \cup Added(106, i)
  <2>1. Added(106, i) = D!Destination \cup D!Flag("SWITCH_NOW") \cup D!Flag("WAVEFORM_SWITCH")
        BY AddedIs
  <2> QED BY <1>2, <2>1, Zenon
<1>4. \A x \in s : x[1] # "Fx"
  <2>1. \A x \in Meant(i) : x[1] # "Fx"
        BY RegistersKind DEF Meant
  <2>2. \A x \in D!Destination : x[1] # "Fx"
        BY InField DEF D!Destination
  <2>3. \A x \in D!Flag("SWITCH_NOW") \cup D!Flag("WAVEFORM_SWITCH") : x[1] # "Fx"
        BY InField DEF D!Flag
  <2> QED BY <1>2, <2>1, <2>2, <2>3, Zenon
<1>5. to \in 0 .. 16 /\ D!leftOf[to] \in 3 .. 16
      BY <1>2, SentTo
<1>6. left[to] = D!words[D!leftOf[to]]
  <2> HIDE DEF to
  <2>1. to + 3 <= 105
        BY <1>5
  <2> QED BY <1>5, <2>1 DEF Place, WavesLoaded
<1> HIDE DEF to
<1>7. Executes(106)'
      BY <1>1, <1>5, <1>6 DEF Executes
<1>8. /\ 105 \in 100 .. 105 /\ 106 = 105 + 1 /\ i \in 0 .. 75
      /\ \A j \in 0 .. 75 : j # i => Added(106, j) = Added(105, j)
      BY AddedIs
<1> HIDE DEF s, i
<1>11. MemoryInv' /\ KindInv' /\ Place(106)'
  <2>1. Adds(105, 106, i, s)
        BY <1>1, <1>3, <1>4, <1>7, <1>8 DEF Adds
  <2> QED BY <2>1, StepAdds
<1> QED BY <1>11
-----------------------------------------------------------------------------
(***************************************************************************)
(* The GPIF runs.                                                           *)
(***************************************************************************)
\* The inputs as the number of a row of a truth table.
LEMMA InputsAreRow ==
    ASSUME NEW in \in [0 .. 3 -> BOOLEAN],
           NEW v, v = D!ValueOf({i \in 0 .. 3 : in[i]})
    PROVE  v \in 0 .. 15 /\ (v % 2 = 1 <=> in[0]) /\ ((v \div 2) % 2 = 1 <=> in[1])
<1> DEFINE s == {i \in 0 .. 3 : in[i]}
           x0 == IF in[0] THEN 1 ELSE 0
           x1 == IF in[1] THEN 2 ELSE 0
           x2 == IF in[2] THEN 4 ELSE 0
           x3 == IF in[3] THEN 8 ELSE 0
<1>1. \A i \in 0 .. 3 : i \in s <=> in[i]
      OBVIOUS
<1>2. 4 \notin s /\ 5 \notin s /\ 6 \notin s /\ 7 \notin s
      OBVIOUS
<1> HIDE DEF s
<1>3. /\ D!Weight(s, 0) = x0 /\ D!Weight(s, 1) = x1 /\ D!Weight(s, 2) = x2 /\ D!Weight(s, 3) = x3
      /\ D!Weight(s, 4) = 0 /\ D!Weight(s, 5) = 0 /\ D!Weight(s, 6) = 0 /\ D!Weight(s, 7) = 0
      BY <1>1, <1>2, Powers DEF D!Weight
<1>4. x0 \in {0, 1} /\ x1 \in {0, 2} /\ x2 \in {0, 4} /\ x3 \in {0, 8}
      OBVIOUS
<1>5. (x0 = 1 <=> in[0]) /\ (x1 = 2 <=> in[1])
      OBVIOUS
<1> HIDE DEF x0, x1, x2, x3
<1>6. D!ValueOf(s) = x0 + x1 + x2 + x3
      BY <1>3, <1>4 DEF D!ValueOf
<1>7. v = x0 + x1 + x2 + x3
      BY <1>6 DEF s
<1>8. v \in 0 .. 15 /\ (v % 2 = 1 <=> x0 = 1) /\ ((v \div 2) % 2 = 1 <=> x1 = 2)
      BY <1>4, <1>7, SMT
<1> QED BY <1>5, <1>8, Zenon

\* A bit of a truth table is the function of the inputs that number it.
LEMMA TruthTables ==
    ASSUME NEW k \in 0 .. 4, NEW in \in [0 .. 3 -> BOOLEAN],
           NEW v, v = D!ValueOf({i \in 0 .. 3 : in[i]})
    PROVE  v \in D!functions[k + 1] <=> D!function(k, in[0], in[1])
<1>1. v \in 0 .. 15 /\ (v % 2 = 1 <=> in[0]) /\ ((v \div 2) % 2 = 1 <=> in[1])
      BY InputsAreRow
<1>2. in[0] \in BOOLEAN /\ in[1] \in BOOLEAN
      OBVIOUS
<1>3. /\ v \in D!Fa <=> in[0]
      /\ v \in D!Fb <=> in[1]
      BY <1>1, Zenon DEF D!Fa, D!Fb
<1>4. CASE k = 0
  <2>1. D!functions[k + 1] = {}
        BY <1>4, TruthTablesAre
  <2>2. ~D!function(k, in[0], in[1])
        BY <1>4 DEF D!function
  <2> QED BY <2>1, <2>2
<1>5. CASE k = 1
  <2>1. D!functions[k + 1] = 0 .. 15
        BY <1>5, TruthTablesAre
  <2>2. D!function(k, in[0], in[1])
        BY <1>5 DEF D!function
  <2> QED BY <1>1, <2>1, <2>2
<1>6. CASE k = 2
  <2>1. D!functions[k + 1] = D!Fa
        BY <1>6, TruthTablesAre
  <2>2. D!function(k, in[0], in[1]) <=> in[0]
        BY <1>6 DEF D!function
  <2> QED BY <1>3, <2>1, <2>2, Zenon
<1>7. CASE k = 3
  <2>1. D!functions[k + 1] = (0 .. 15) \ D!Fa
        BY <1>7, TruthTablesAre
  <2>2. D!function(k, in[0], in[1]) <=> ~in[0]
        BY <1>7 DEF D!function
  <2> QED BY <1>1, <1>3, <2>1, <2>2, Zenon
<1>8. CASE k = 4
  <2>1. D!functions[k + 1] = D!Fb
        BY <1>8, TruthTablesAre
  <2>2. D!function(k, in[0], in[1]) <=> in[1]
        BY <1>8 DEF D!function
  <2> QED BY <1>3, <2>1, <2>2, Zenon
<1> QED BY <1>4, <1>5, <1>6, <1>7, <1>8

\* The functions of the word executed hold when those of its row do.
LEMMA HoldsAsInTable ==
    ASSUME FunctionsLoaded(106), NEW n \in 3 .. 16, cur = D!words[n], NEW in \in [0 .. 3 -> BOOLEAN]
    PROVE  /\ D!FunctionHolds("f0", in) <=> D!function(D!waveforms[n].f0, in[0], in[1])
           /\ D!FunctionHolds("f1", in) <=> D!function(D!waveforms[n].f1, in[0], in[1])
<1> DEFINE v == D!ValueOf({i \in 0 .. 3 : in[i]})
<1>1. /\ D!ValueOf(D!Bits(cur, "f0")) = D!waveforms[n].f0
      /\ D!ValueOf(D!Bits(cur, "f1")) = D!waveforms[n].f1
      BY WordsUnpack
<1>2. D!waveforms[n].f0 \in 0 .. 4 /\ D!waveforms[n].f1 \in 0 .. 4
      BY WaveformsFit DEF WaveFits
<1>3. ASSUME NEW k \in 0 .. 4 PROVE <<"Fx", v>> \in regs[76 + k] <=> D!function(k, in[0], in[1])
  <2>1. regs[76 + k] = {"Fx"} \X D!functions[k + 1]
        BY DEF FunctionsLoaded
  <2>2. v \in D!functions[k + 1] <=> D!function(k, in[0], in[1])
        BY TruthTables
  <2> HIDE DEF v
  <2>3. <<"Fx", v>> \in {"Fx"} \X D!functions[k + 1] <=> v \in D!functions[k + 1]
        OBVIOUS
  <2> QED BY <2>1, <2>2, <2>3, Zenon
<1>4. /\ D!FunctionHolds("f0", in) <=> <<"Fx", v>> \in regs[76 + D!ValueOf(D!Bits(cur, "f0"))]
      /\ D!FunctionHolds("f1", in) <=> <<"Fx", v>> \in regs[76 + D!ValueOf(D!Bits(cur, "f1"))]
      BY Zenon DEF D!FunctionHolds, D!FunctionBase
<1> HIDE DEF v
<1> QED BY <1>1, <1>2, <1>3, <1>4, ZenonT(60)

\* Function 0 is false: its edge is never taken.
LEMMA NeverHolds == ASSUME NEW a, NEW b PROVE ~D!function(0, a, b)
BY DEF D!function

\* A transition goes where the table has it.
LEMMA TransitionGoes ==
    ASSUME WavesLoaded(106), FunctionsLoaded(106), NEW n \in 3 .. 16, cur = D!words[n],
           D!Transition,
           NEW w, w = D!waveforms[n],
           NEW to, to = IF D!function(w.f0, inputs'[0], inputs'[1]) THEN w.left
                        ELSE IF D!function(w.f1, inputs'[0], inputs'[1]) THEN w.right ELSE n
    PROVE  to \in 3 .. 16 /\ cur' = D!words[to]
<1> DEFINE in == inputs'
<1>1. in \in [0 .. 3 -> BOOLEAN] /\ D!StateOf(cur) = n
      BY WordsUnpack DEF D!Transition
<1>2. WaveFits(w)
      BY WaveformsFit
<1>3. /\ D!FunctionHolds("f0", in) <=> D!function(w.f0, in[0], in[1])
      /\ D!FunctionHolds("f1", in) <=> D!function(w.f1, in[0], in[1])
      BY <1>1, HoldsAsInTable
<1>4. left[n] = D!words[w.left] /\ right[n] = D!words[w.right]
  <2>1. n \in 0 .. 16 /\ n + 3 <= 106
        OBVIOUS
  <2>2. D!leftOf[n] = w.left /\ D!rightOf[n] = w.right
        BY DEF D!leftOf, D!rightOf, D!Done
  <2> QED BY <2>1, <2>2 DEF WavesLoaded
<1>5. CASE D!function(w.f0, in[0], in[1])
  <2>1. w.f0 # 0
        BY <1>5, NeverHolds
  <2>2. to = w.left /\ w.left \in 3 .. 16
        BY <1>2, <1>5, <2>1 DEF WaveFits
  <2>3. cur' = left[n]
        BY <1>1, <1>3, <1>5 DEF D!Transition
  <2> QED BY <1>4, <2>2, <2>3
<1>6. CASE ~D!function(w.f0, in[0], in[1]) /\ D!function(w.f1, in[0], in[1])
  <2>1. w.f1 # 0
        BY <1>6, NeverHolds
  <2>2. to = w.right /\ w.right \in 3 .. 16
        BY <1>2, <1>6, <2>1 DEF WaveFits
  <2>3. cur' = right[n]
        BY <1>1, <1>3, <1>6 DEF D!Transition
  <2> QED BY <1>4, <2>2, <2>3
<1>7. CASE ~D!function(w.f0, in[0], in[1]) /\ ~D!function(w.f1, in[0], in[1])
  <2>1. to = n
        BY <1>7
  <2>2. cur' = cur
        BY <1>3, <1>7 DEF D!Transition
  <2> QED BY <2>1, <2>2
<1> QED BY <1>5, <1>6, <1>7

-----------------------------------------------------------------------------
(***************************************************************************)
(* The driver keeps its invariant.                                          *)
(***************************************************************************)
\* The value the start writes over is that of a width of 8 bits at first.
LEMMA NoWidth == D!Field("BUS_WIDTH", (8 \div 8) - 1) = {}
<1>1. (8 \div 8) - 1 = 0
      BY SMT
<1>2. D!BitsOf(0, 16) = {}
  <2>1. D!BitsOf(0, 16) \in SUBSET (0 .. 1)
        BY TwoBits
  <2>2. (0 \div 2^0) % 2 # 1 /\ (0 \div 2^1) % 2 # 1
        BY SMT
  <2>3. 0 \notin D!BitsOf(0, 16) /\ 1 \notin D!BitsOf(0, 16)
        BY <2>2, Zenon DEF D!BitsOf
  <2> QED BY <2>1, <2>3
<1> QED BY <1>1, <1>2 DEF D!Field

\* At first nothing is left to do, and the GPIF executes nothing.
LEMMA DriverInit == ASSUME MCInit PROVE DriverInv
<1>1. /\ width = 8 /\ limit = 0 /\ busConfig = {} /\ todo = <<>> /\ cur = D!Off
      /\ left = [n \in 0 .. 16 |-> D!NoWords] /\ right = left
      /\ regs = [i \in 0 .. 107 |-> {}]
      BY DEF MCInit, D!Init, D!Done, D!Words, D!FunctionBase
<1>2. ParamInv /\ RangeInv
      BY <1>1, NoWidth DEF ParamInv, RangeInv
<1>3. MemoryInv /\ KindInv
      BY <1>1 DEF MemoryInv, KindInv
<1> QED BY <1>1, <1>2, <1>3 DEF DriverInv

\* A start, after whatever was started before, with a width and a delay of its own.
LEMMA StartKeeps ==
    ASSUME DriverInv, NEW b \in BitWidths, NEW d \in DriverDelays, D!Start(b, d)
    PROVE  DriverInv'
<1>1. /\ width' = b /\ limit' = d /\ todo' = Rest(0)
      /\ UNCHANGED <<left, right, regs, cur, inputs>>
      BY RestAt DEF D!Start
<1>2. b \in {8, 16, 24, 32} /\ width \in {8, 16, 24, 32} /\ d \in Nat
  <2>1. b \in {8, 16, 24, 32}
        BY BitWidthsAssumption
  <2>2. d \in Nat
        BY DriverDelaysAssumption
  <2>3. width \in {8, 16, 24, 32}
        BY DEF DriverInv, ParamInv
  <2> QED BY <2>1, <2>2, <2>3
<1>3. busConfig' = D!Field("BUS_WIDTH", (b \div 8) - 1)
  <2>1. busConfig' = (D!Field("BUS_WIDTH", (width \div 8) - 1) \ ({"BUS_WIDTH"} \X (0 .. 1)))
                         \cup D!Field("BUS_WIDTH", (b \div 8) - 1)
        BY DEF D!Start, DriverInv, ParamInv
  <2> QED BY <1>2, <2>1, WidthIs
<1>4. ParamInv' /\ RangeInv'
      BY <1>1, <1>2, <1>3 DEF ParamInv, RangeInv
<1>5. MemoryInv' /\ KindInv'
      BY <1>1 DEF MemoryInv, KindInv, DriverInv
<1>6. Place(0)'
  <2>1. WavesLoaded(0)' /\ FunctionsLoaded(0)' /\ RegistersLoaded(0)' /\ Executes(0)'
        BY DEF WavesLoaded, FunctionsLoaded, RegistersLoaded, Executes
  <2> QED BY <1>1, <2>1 DEF Place
<1>7. 0 \in 0 .. 106
      OBVIOUS
<1> QED BY <1>4, <1>5, <1>6, <1>7 DEF DriverInv

\* A stop leaves one access to do.
LEMMA StopKeeps == ASSUME DriverInv, D!Stop PROVE DriverInv'
<1>1. ParamInv' /\ RangeInv' /\ MemoryInv' /\ KindInv'
      BY DEF D!Stop, DriverInv, ParamInv, RangeInv, MemoryInv, KindInv
<1> QED BY <1>1 DEF DriverInv, D!Stop

\* A step of a start.
LEMMA StepOfStart ==
    ASSUME ParamInv, MemoryInv, KindInv, NEW p \in 0 .. 105, Place(p), D!Step
    PROVE  MemoryInv' /\ KindInv' /\ Place(p + 1)'
<1>0. todo = Rest(p)
      BY DEF Place
<1>1. todo' = Rest(p + 1) /\ UNCHANGED <<width, limit, busConfig>>
      BY <1>0, StepOf
<1>2. CASE p = 0
  <2>1. D!StopGpif
        BY <1>0, <1>2, StepOf
  <2> QED BY <1>1, <1>2, <2>1, StepStop
<1>3. CASE p = 1
  <2>1. D!PowerCycle
        BY <1>0, <1>3, StepOf
  <2> QED BY <1>1, <1>3, <2>1, StepPower
<1>4. CASE p \in 2 .. 18
  <2>1. D!WriteWaveform(p - 2)
        BY <1>0, <1>4, StepOf
  <2> QED BY <1>1, <1>4, <2>1, StepWave
<1>5. CASE p \in 19 .. 23
  <2>1. /\ D!SetRegister(76 + (p - 19), {"Fx"} \X D!functions[p - 19 + 1])
        /\ UNCHANGED <<left, right, cur>>
        BY <1>0, <1>5, StepOf, ZenonT(60)
  <2> QED BY <1>1, <1>5, <2>1, StepFunction
<1>6. CASE p \in 24 .. 99
  <2>1. /\ D!SetRegister(99 - p, Meant(99 - p)) /\ UNCHANGED <<left, right, cur>>
        BY <1>0, <1>6, StepOf
  <2> QED BY <1>1, <1>6, <2>1, StepRegister
<1>7. CASE p = 100
  <2>1. D!SetRegister(5, {}) /\ UNCHANGED <<left, right, cur>>
        BY <1>0, <1>7, StepOf
  <2> QED BY <1>1, <1>7, <2>1, StepAcknowledge
<1>8. CASE p = 101
  <2>1. D!SetRegister(6, D!GpifRequests) /\ UNCHANGED <<left, right, cur>>
        BY <1>0, <1>8, StepOf
  <2> QED BY <1>1, <1>8, <2>1, StepMask
<1>9. CASE p = 102
  <2>1. D!SetRegister(70, regs[70] \ D!AlphaInit) /\ UNCHANGED <<left, right, cur>>
        BY <1>0, <1>9, StepOf
  <2> QED BY <1>1, <1>9, <2>1, StepAlpha
<1>10. CASE p = 103
  <2>1. D!SetRegister(70, regs[70] \cup D!Flag("WAVEFORM_VALID")) /\ UNCHANGED <<left, right, cur>>
        BY <1>0, <1>10, StepOf
  <2> QED BY <1>1, <1>10, <2>1, StepValid
<1>11. CASE p = 104
  <2>1. D!SetRegister(71, (regs[71] \ D!Cleared) \cup D!Destination) /\ UNCHANGED <<left, right, cur>>
        BY <1>0, <1>11, StepOf
  <2> QED BY <1>1, <1>11, <2>1, StepDestination
<1>12. CASE p = 105
  <2>1. D!Switch
        BY <1>0, <1>12, StepOf
  <2> QED BY <1>1, <1>12, <2>1, StepSwitch
<1> QED BY <1>2, <1>3, <1>4, <1>5, <1>6, <1>7, <1>8, <1>9, <1>10, <1>11, <1>12

\* The one step of a stop.
LEMMA StepOfStop ==
    ASSUME MemoryInv, KindInv, todo = << <<"stop">> >>, D!Step
    PROVE  MemoryInv' /\ KindInv' /\ todo' = <<>> /\ cur' = D!Off
<1>1. Head(todo) = <<"stop">> /\ Tail(todo) = <<>>
      OBVIOUS
<1>2. todo' = <<>> /\ D!StopGpif
      BY <1>1 DEF D!Step
<1>3. regs' = [regs EXCEPT ![70] = {}] /\ cur' = D!Off /\ UNCHANGED <<left, right>>
      BY <1>2, AddressesAre DEF D!StopGpif, D!SetRegister
<1>4. MemoryInv'
      BY <1>3 DEF MemoryInv
<1>5. KindInv'
  <2> DEFINE i == 70
  <2>1. i \in 0 .. 107 /\ i \notin 76 .. 107 /\ regs' = [regs EXCEPT ![i] = {}]
        BY <1>3
  <2> HIDE DEF i
  <2>2. \A x \in {} : x[1] # "Fx"
        OBVIOUS
  <2> QED BY <2>1, <2>2, KindKept, Zenon
<1> QED BY <1>2, <1>3, <1>4, <1>5

\* An access of a start or a stop.
LEMMA StepKeeps == ASSUME DriverInv, D!Step PROVE DriverInv'
<1>1. UNCHANGED <<width, limit, busConfig>> /\ todo # <<>>
      BY DEF D!Step
<1>2. ParamInv' /\ RangeInv'
      BY <1>1 DEF DriverInv, ParamInv, RangeInv
<1>3. CASE todo = << <<"stop">> >>
  <2>1. MemoryInv' /\ KindInv' /\ todo' = <<>> /\ cur' = D!Off
        BY <1>3, StepOfStop DEF DriverInv
  <2> QED BY <1>2, <2>1 DEF DriverInv
<1>4. CASE todo # << <<"stop">> >>
  <2>1. PICK p \in 0 .. 106 : Place(p)
        BY <1>1, <1>4 DEF DriverInv
  <2>2. p \in 0 .. 105
        BY <1>1, <2>1, RestAt DEF Place
  <2>3. MemoryInv' /\ KindInv' /\ Place(p + 1)'
        BY <2>1, <2>2, StepOfStart DEF DriverInv
  <2>4. p + 1 \in 0 .. 106
        BY <2>2
  <2> DEFINE q == p + 1
  <2>5. q \in 0 .. 106 /\ Place(q)'
        BY <2>3, <2>4
  <2> HIDE DEF q
  <2> QED BY <1>2, <2>3, <2>5 DEF DriverInv
<1> QED BY <1>3, <1>4

\* While the GPIF runs, all accesses of a start are done.
LEMMA RunningAt ==
    ASSUME DriverInv, D!Running
    PROVE  Place(106) /\ \E n \in 3 .. 16 : cur = D!words[n]
<1>1. todo = <<>> /\ cur # D!Off
      BY DEF D!Running
<1>2. PICK p \in 0 .. 106 : Place(p)
  <2>1. todo # << <<"stop">> >>
        BY <1>1
  <2> QED BY <1>1, <2>1 DEF DriverInv
<1>3. p = 106
  <2>1. ~(p \in 0 .. 105)
        BY <1>1, <1>2, RestAt DEF Place
  <2> QED BY <2>1
<1>4. Place(106)
      BY <1>2, <1>3
<1> QED BY <1>4 DEF Place, Executes

\* Three registers are written again by Fx3GpifStart: those of the fields 7, 41 and 42.
LEMMA WordsOfStart ==
    ASSUME NEW k \in 1 .. 46, NEW j \in 0 .. (Size(k) - 1)
    PROVE  /\ At(k) + j = 6 <=> D!Layout[k][1] = "intr_mask"
           /\ At(k) + j = 70 <=> D!Layout[k][1] = "waveform_ctrl_stat"
           /\ At(k) + j = 71 <=> D!Layout[k][1] = "waveform_switch"
<1>1. /\ At(k) + j = 6 <=> k = 7
      /\ At(k) + j = 70 <=> k = 41
      /\ At(k) + j = 71 <=> k = 42
      BY DEF At, Size
<1>2. /\ k # 7 => D!Layout[k][1] # "intr_mask"
      /\ k # 41 => D!Layout[k][1] # "waveform_ctrl_stat"
      /\ k # 42 => D!Layout[k][1] # "waveform_switch"
  <2>1. /\ At(k) # 6 <=> k # 7
        /\ At(k) # 70 <=> k # 41
        /\ At(k) # 71 <=> k # 42
        BY DEF At
  <2>2. D!Address[D!Layout[k][1]] = At(k)
        BY FieldsOfLayout
  <2>3. /\ D!Address["intr_mask"] = 6 /\ D!Address["waveform_ctrl_stat"] = 70
        /\ D!Address["waveform_switch"] = 71
        BY AddressesAre, Zenon
  <2>4. ASSUME D!Layout[k][1] = "intr_mask" PROVE k = 7
    <3>1. At(k) = 6
          BY <2>2, <2>3, <2>4
    <3> QED BY <2>1, <3>1
  <2>5. ASSUME D!Layout[k][1] = "waveform_ctrl_stat" PROVE k = 41
    <3>1. At(k) = 70
          BY <2>2, <2>3, <2>5
    <3> QED BY <2>1, <3>1
  <2>6. ASSUME D!Layout[k][1] = "waveform_switch" PROVE k = 42
    <3>1. At(k) = 71
          BY <2>2, <2>3, <2>6
    <3> QED BY <2>1, <3>1
  <2> QED BY <2>4, <2>5, <2>6, Zenon
<1>3. /\ D!Layout[7][1] = "intr_mask" /\ D!Layout[41][1] = "waveform_ctrl_stat"
      /\ D!Layout[42][1] = "waveform_switch"
      BY LayoutIs
<1> QED BY <1>1, <1>2, <1>3

\* A transition of the GPIF goes to another word of the table.
LEMMA TransitionKeeps == ASSUME DriverInv, D!Transition PROVE DriverInv'
<1>1. D!Running /\ UNCHANGED <<width, limit, busConfig, todo, left, right, regs>>
      BY DEF D!Transition, D!Running
<1>2. ParamInv' /\ RangeInv' /\ MemoryInv' /\ KindInv'
      BY <1>1 DEF DriverInv, ParamInv, RangeInv, MemoryInv, KindInv
<1>3. Place(106)
      BY <1>1, RunningAt
<1>4. PICK n \in 3 .. 16 : cur = D!words[n]
      BY <1>1, RunningAt
<1>5. \E m \in 3 .. 16 : cur' = D!words[m]
  <2> DEFINE w == D!waveforms[n]
             to == IF D!function(w.f0, inputs'[0], inputs'[1]) THEN w.left
                   ELSE IF D!function(w.f1, inputs'[0], inputs'[1]) THEN w.right ELSE n
  <2>1. to \in 3 .. 16 /\ cur' = D!words[to]
        BY <1>3, <1>4, TransitionGoes DEF Place
  <2> HIDE DEF to
  <2> QED BY <2>1
<1>6. /\ WavesLoaded(106)' <=> WavesLoaded(106)
      /\ FunctionsLoaded(106)' <=> FunctionsLoaded(106)
      BY <1>1 DEF WavesLoaded, FunctionsLoaded
<1>7. RegistersLoaded(106)' <=> RegistersLoaded(106)
      BY <1>1 DEF RegistersLoaded, Added, Meant, D!registers, D!SamplesPerBuffer, D!Destination
<1>8. Executes(106)'
      BY <1>5 DEF Executes
<1>9. Place(106)'
      BY <1>1, <1>3, <1>6, <1>7, <1>8 DEF Place
<1>10. 106 \in 0 .. 106
      OBVIOUS
<1> QED BY <1>2, <1>9, <1>10 DEF DriverInv

\* Every step keeps the invariant: those of the driver, and those of the sampler.
LEMMA DriverStep == ASSUME DriverInv, [MCNext]_<<part, vars, driverVars>> PROVE DriverInv'
<1>1. ASSUME UNCHANGED driverVars PROVE DriverInv'
  <2>1. UNCHANGED <<width, limit, busConfig, todo, left, right, regs, cur>>
        BY <1>1 DEF driverVars
  <2>2. ParamInv' /\ RangeInv' /\ MemoryInv' /\ KindInv'
        BY <2>1 DEF DriverInv, ParamInv, RangeInv, MemoryInv, KindInv
  <2>3. ASSUME NEW p \in 0 .. 106, Place(p) PROVE Place(p)'
    <3>1. /\ WavesLoaded(p)' <=> WavesLoaded(p)
          /\ FunctionsLoaded(p)' <=> FunctionsLoaded(p)
          /\ Executes(p)' <=> Executes(p)
          BY <2>1 DEF WavesLoaded, FunctionsLoaded, Executes
    <3>2. RegistersLoaded(p)' <=> RegistersLoaded(p)
          BY <2>1 DEF RegistersLoaded, Added, Meant, D!registers, D!SamplesPerBuffer, D!Destination
    <3> QED BY <2>1, <2>3, <3>1, <3>2 DEF Place
  <2>4. \A p \in 0 .. 106 : Place(p) => Place(p)'
        BY <2>3
  <2> QED BY <2>1, <2>2, <2>4 DEF DriverInv
<1>2. ASSUME D!Next PROVE DriverInv'
      BY <1>2, StartKeeps, StopKeeps, StepKeeps, TransitionKeeps DEF D!Next
<1> QED BY <1>1, <1>2 DEF MCNext

-----------------------------------------------------------------------------
(***************************************************************************)
(* In every reachable state, the accesses of a start that are done have     *)
(* left in the memories, the functions and the registers what they were     *)
(* meant to: DriverInv (gpif.c:61-141, acquisition.c:126-199).              *)
(***************************************************************************)
THEOREM DriverFollowed == MCSpec => []DriverInv
BY DriverInit, DriverStep, PTL DEF MCSpec

(***************************************************************************)
(* ExecutesTable: whatever the widths and delays of the starts before, the  *)
(* words the GPIF executes are valid and, taken apart as the hardware does, *)
(* are one of the rows of the table, and no register of another kind holds  *)
(* a truth table (gpif.h:86-90, gpif.c:126-138, acquisition.c:18-124).      *)
(***************************************************************************)
THEOREM TableExecuted == MCSpec => []ExecutesTable
<1>1. ASSUME DriverInv PROVE ExecutesTable
  <2>1. D!TypeOK
        BY <1>1 DEF D!TypeOK, D!FunctionBase, DriverInv, RangeInv, KindInv
  <2>2. ASSUME D!Running
        PROVE  /\ D!Bits(cur, "VALID") = {0}
               /\ \A f \in {"Fc", "Fd", "REPEAT_COUNT", "BETA_DEASSERT"} : D!Bits(cur, f) = {}
               /\ D!StateOf(cur) \in 3 .. D!Done
               /\ D!Unpacked(cur) = D!rows[D!StateOf(cur)]
    <3>1. PICK n \in 3 .. 16 : cur = D!words[n]
          BY <1>1, <2>2, RunningAt
    <3>2. D!Done = 16
          BY DEF D!Done
    <3> QED BY <3>1, <3>2, WordsUnpack
  <2>3. D!ExecutesTable
        BY <2>2 DEF D!ExecutesTable
  <2> QED BY <2>1, <2>3 DEF ExecutesTable
<1> QED BY <1>1, DriverFollowed, PTL

(***************************************************************************)
(* RunsAsConfigured: whatever was started before, every word of the         *)
(* structure Fx3GpifRegisters_t is in the register of its name, with what   *)
(* Fx3GpifStart adds: its two requests are enabled, the waveforms valid,    *)
(* and the GPIF was sent to the state of the delay asked for                *)
(* (gpif.h:162-209, gpif.c:61-79, 100-141, acquisition.c:126-150, 179-199). *)
(***************************************************************************)
THEOREM RegistersAsConfigured == MCSpec => []RunsAsConfigured
<1>1. ASSUME DriverInv, D!Running, NEW k \in 1 .. 46, NEW j \in 0 .. (Size(k) - 1)
      PROVE  D!Reg(D!Layout[k][1], j) =
                 D!registers(D!Layout[k][1], j)
                     \cup CASE D!Layout[k][1] = "intr_mask" -> D!GpifRequests
                            [] D!Layout[k][1] = "waveform_ctrl_stat" -> D!Flag("WAVEFORM_VALID")
                            [] D!Layout[k][1] = "waveform_switch" ->
                                 D!Destination \cup D!Flag("SWITCH_NOW") \cup D!Flag("WAVEFORM_SWITCH")
                            [] OTHER -> {}
  <2> DEFINE i == At(k) + j
             name == D!Layout[k][1]
  <2>1. i \in 0 .. 75 /\ D!layoutWords[i + 1] = <<name, j>>
        BY LayoutWords
  <2>2. D!Reg(name, j) = regs[i]
        BY FieldsOfLayout DEF D!Reg
  <2>3. regs[i] = Meant(i) \cup Added(106, i)
    <3>1. RegistersLoaded(106)
          BY <1>1, RunningAt DEF Place
    <3> HIDE DEF i
    <3> QED BY <2>1, <3>1 DEF RegistersLoaded
  <2>4. Meant(i) = D!registers(name, j)
    <3> HIDE DEF i, name
    <3> QED BY <2>1 DEF Meant
  <2>5. /\ i = 6 <=> name = "intr_mask"
        /\ i = 70 <=> name = "waveform_ctrl_stat"
        /\ i = 71 <=> name = "waveform_switch"
        BY WordsOfStart, ZenonT(60)
  <2> HIDE DEF i, name
  <2>6. Added(106, i) = CASE name = "intr_mask" -> D!GpifRequests
                          [] name = "waveform_ctrl_stat" -> D!Flag("WAVEFORM_VALID")
                          [] name = "waveform_switch" ->
                               D!Destination \cup D!Flag("SWITCH_NOW") \cup D!Flag("WAVEFORM_SWITCH")
                          [] OTHER -> {}
        BY <2>5 DEF Added
  <2> QED BY <2>2, <2>3, <2>4, <2>6, Zenon DEF name
<1>2. ASSUME DriverInv, D!Running
      PROVE  D!Reg("bus_config", 0) = D!Field("BUS_WIDTH", (width \div 8) - 1)
  <2>1. 2 \in 1 .. 46 /\ 0 \in 0 .. (Size(2) - 1) /\ D!Layout[2][1] = "bus_config"
        BY LayoutIs DEF Size
  <2>2. D!Reg("bus_config", 0) = D!registers("bus_config", 0)
        BY <1>1, <1>2, <2>1, ZenonT(60)
  <2>3. D!registers("bus_config", 0) = busConfig
        BY DEF D!registers
  <2> QED BY <1>2, <2>2, <2>3 DEF DriverInv, ParamInv
<1>3. ASSUME DriverInv PROVE RunsAsConfigured
  <2>1. DOMAIN D!Layout = 1 .. 46
        BY LayoutIs DEF D!Layout
  <2>2. \A k \in 1 .. 46 : D!Layout[k][2] = Size(k)
        BY FieldsOfLayout
  <2> QED BY <1>1, <1>2, <1>3, <2>1, <2>2, Zenon DEF RunsAsConfigured, D!RunsAsConfigured
<1> QED BY <1>3, DriverFollowed, PTL

(***************************************************************************)
(* GoesByTable: every transition goes where the table and its functions     *)
(* have it (acquisition.c:10-16, 18-124, gpif.c:126).                       *)
(***************************************************************************)
THEOREM GoesByTableAlways == MCSpec => GoesByTable
<1> DEFINE goes == D!Running /\ D!Running' =>
        LET w == D!waveforms[D!StateOf(cur)]
            holds(f) == D!function(f, inputs'[0], inputs'[1])
        IN  D!StateOf(cur') = IF holds(w.f0) THEN w.left
                              ELSE IF holds(w.f1) THEN w.right ELSE D!StateOf(cur)
<1>1. ASSUME DriverInv, [MCNext]_<<part, vars, driverVars>> PROVE [goes]_D!vars
  <2>1. CASE D!Transition
    <3>1. PICK n \in 3 .. 16 : cur = D!words[n]
          BY <1>1, <2>1, RunningAt DEF D!Transition, D!Running
    <3>2. WavesLoaded(106) /\ FunctionsLoaded(106)
          BY <1>1, <2>1, RunningAt DEF D!Transition, D!Running, Place
    <3>3. D!StateOf(cur) = n
          BY <3>1, WordsUnpack
    <3> DEFINE w == D!waveforms[n]
               to == IF D!function(w.f0, inputs'[0], inputs'[1]) THEN w.left
                     ELSE IF D!function(w.f1, inputs'[0], inputs'[1]) THEN w.right ELSE n
    <3>4. to \in 3 .. 16 /\ cur' = D!words[to]
          BY <2>1, <3>1, <3>2, TransitionGoes
    <3>5. D!StateOf(cur') = to
      <4> HIDE DEF to
      <4> QED BY <3>4, WordsUnpack
    <3> QED BY <3>3, <3>5, Zenon
  <2>2. CASE D!Step
    <3>1. ~D!Running
          BY <2>2 DEF D!Step, D!Running
    <3> QED BY <3>1
  <2>3. CASE (\E b \in BitWidths, d \in DriverDelays : D!Start(b, d)) \/ D!Stop
    <3>1. D!startOps # <<>>
          BY RestAt
    <3>2. ~D!Running'
          BY <2>3, <3>1 DEF D!Start, D!Stop, D!Running
    <3> QED BY <3>2
  <2>4. CASE UNCHANGED driverVars
        BY <2>4 DEF driverVars, D!vars
  <2> QED BY <1>1, <2>1, <2>2, <2>3, <2>4 DEF MCNext, D!Next
<1>2. MCSpec => [][goes]_D!vars
      BY <1>1, DriverFollowed, PTL DEF MCSpec
<1> QED BY <1>2 DEF GoesByTable, D!GoesByTable

===============================================================================
