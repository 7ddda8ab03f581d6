----------------------------- MODULE DmaRingProofs -----------------------------
(***************************************************************************)
(* Proofs about the ring of DMA buffers, for every even number of buffers   *)
(* and acquisitions of every length.                                        *)
(*                                                                          *)
(* The invariant places everything relative to Head, the buffer the         *)
(* consumer sends next: the buffers that wait are the first captured - sent *)
(* from there on, they hold consecutive captures, and the producer in turn  *)
(* stands behind the last of them, the other producer one buffer further.   *)
(***************************************************************************)
EXTENDS DmaRing, TLAPS

\* The buffer k places after h, and how far after h buffer i is.
SlotAt(h, k) == IF h + k < NumBuffers THEN h + k ELSE h + k - NumBuffers
OffsetFrom(h, i) == IF i >= h THEN i - h ELSE i - h + NumBuffers

\* The consumer socket starts at buffer 0.
Head == IF pc = "started" THEN consDscr ELSE 0

Waiting == captured - sent

\* How far start_acquisition is, and what is then enabled.
PhaseInv ==
    /\ pc = "stopped" <=> gpif = "invalid"
    /\ pc = "stopped" => producing[0] = FALSE /\ producing[1] = FALSE /\ consuming = FALSE
    /\ pc \in {"first", "second"} =>
          /\ gpif = "waiting"
          /\ thread = 0
          /\ captured = 0 /\ sent = 0
          /\ producing[0] = FALSE /\ consuming = FALSE
          /\ \A i \in Buffer : occupied[i] = FALSE
    /\ pc = "first" => producing[1] = FALSE
    /\ pc = "second" => producing[1] = TRUE /\ prodDscr[1] = 1
    /\ pc \in {"consumer", "started"} => producing[0] = TRUE /\ producing[1] = TRUE
    /\ pc = "consumer" => consuming = FALSE /\ sent = 0
    /\ pc = "started" => consuming = TRUE

\* Where the sockets stand and what the buffers hold.
LinkInv ==
    /\ Waiting \in 0 .. NumBuffers
    /\ prodDscr[thread] = SlotAt(Head, Waiting)
    /\ prodDscr[1 - thread] = NextBuffer(prodDscr[thread])
    /\ Producer(prodDscr[thread]) = thread
    /\ \A i \in Buffer : occupied[i] <=> OffsetFrom(Head, i) < Waiting
    /\ \A i \in Buffer : occupied[i] => data[i] = sent + OffsetFrom(Head, i)

IInv ==
    /\ TypeOK
    /\ PhaseInv
    /\ pc \in {"consumer", "started"} => LinkInv

-----------------------------------------------------------------------------
\* Going round the ring.

LEMMA NextBufferType ==
  ASSUME NEW i \in Buffer
  PROVE  /\ NextBuffer(i) \in Buffer
         /\ NextBuffer(i) # i
         /\ Producer(NextBuffer(i)) = 1 - Producer(i)
         /\ Producer(i) \in Thread
BY NumBuffersAssumption DEF NextBuffer, Buffer, Producer, Thread

LEMMA SlotType ==
  ASSUME NEW h \in Buffer, NEW k \in 0 .. NumBuffers
  PROVE  SlotAt(h, k) \in Buffer
BY NumBuffersAssumption DEF SlotAt, Buffer

LEMMA SlotOffset ==
  ASSUME NEW h \in Buffer, NEW k \in 0 .. (NumBuffers - 1)
  PROVE  /\ OffsetFrom(h, SlotAt(h, k)) = k
         /\ SlotAt(h, k + 1) = NextBuffer(SlotAt(h, k))
         /\ \A i \in Buffer : i # SlotAt(h, k) => OffsetFrom(h, i) # k
BY NumBuffersAssumption DEF SlotAt, OffsetFrom, NextBuffer, Buffer

LEMMA OffsetType ==
  ASSUME NEW h \in Buffer, NEW i \in Buffer
  PROVE  /\ OffsetFrom(h, i) \in 0 .. (NumBuffers - 1)
         /\ OffsetFrom(h, h) = 0
         /\ SlotAt(h, NumBuffers) = h
         /\ SlotAt(h, 0) = h
BY NumBuffersAssumption DEF OffsetFrom, SlotAt, Buffer

LEMMA MoveHead ==
  ASSUME NEW h \in Buffer
  PROVE  /\ \A i \in Buffer : OffsetFrom(NextBuffer(h), i) =
                IF i = h THEN NumBuffers - 1 ELSE OffsetFrom(h, i) - 1
         /\ \A i \in Buffer : i # h => OffsetFrom(h, i) > 0
         /\ \A k \in 1 .. NumBuffers : SlotAt(NextBuffer(h), k - 1) = SlotAt(h, k)
BY NumBuffersAssumption DEF SlotAt, OffsetFrom, NextBuffer, Buffer

-----------------------------------------------------------------------------
LEMMA InitIInv == Init => IInv
<1> SUFFICES ASSUME Init PROVE IInv
  OBVIOUS
<1>1. 0 \in Buffer /\ 0 \in Thread
  BY NumBuffersAssumption DEF Buffer, Thread
<1>2. TypeOK
  <2>1. producing \in [Thread -> BOOLEAN] /\ prodDscr \in [Thread -> Buffer]
    BY <1>1 DEF Init
  <2>2. occupied \in [Buffer -> BOOLEAN] /\ data \in [Buffer -> Nat]
    BY DEF Init
  <2>3. pc = "stopped" /\ gpif = "invalid" /\ thread \in Thread /\ consuming = FALSE
    BY <1>1 DEF Init
  <2>4. consDscr \in Buffer /\ captured \in Nat /\ sent \in Nat /\ last \in Int
    BY <1>1 DEF Init
  <2> QED
    BY <2>1, <2>2, <2>3, <2>4 DEF TypeOK
<1>3. PhaseInv
  BY DEF Init, PhaseInv, Thread
<1> QED
  BY <1>2, <1>3 DEF Init, IInv

LEMMA StartGpifKeepsIInv ==
  ASSUME IInv, StartGpif PROVE IInv'
<1>0. 0 \in Thread
  BY DEF Thread
<1>1. TypeOK'
  <2>1. producing' \in [Thread -> BOOLEAN] /\ occupied' \in [Buffer -> BOOLEAN]
    BY DEF StartGpif
  <2>2. pc' = "first" /\ gpif' = "waiting" /\ thread' \in Thread /\ consuming' = FALSE
    BY <1>0 DEF StartGpif
  <2>3. captured' \in Nat /\ sent' \in Nat /\ last' \in Int
    BY DEF StartGpif
  <2>4. prodDscr' = prodDscr /\ consDscr' = consDscr /\ data' = data
    BY DEF StartGpif
  <2> QED
    BY <2>1, <2>2, <2>3, <2>4 DEF IInv, TypeOK
<1>2. PhaseInv'
  BY DEF StartGpif, PhaseInv, Thread
<1> QED
  BY <1>1, <1>2 DEF IInv, StartGpif

LEMMA StopKeepsIInv ==
  ASSUME IInv, StopAcquisition PROVE IInv'
<1>1. TypeOK'
  BY DEF IInv, TypeOK, StopAcquisition, Thread
<1>2. PhaseInv'
  BY DEF StopAcquisition, PhaseInv, Thread
<1> QED
  BY <1>1, <1>2 DEF IInv, StopAcquisition

LEMMA StartFirstProducerKeepsIInv ==
  ASSUME IInv, StartFirstProducer PROVE IInv'
<1> USE NumBuffersAssumption
<1>1. TypeOK'
  BY DEF IInv, TypeOK, StartFirstProducer, StartProducer, StartSequence, Thread, Buffer
<1>2. PhaseInv'
  BY DEF IInv, TypeOK, StartFirstProducer, StartProducer, StartSequence, PhaseInv, Thread
<1> QED
  BY <1>1, <1>2 DEF IInv, StartFirstProducer

LEMMA StartSecondProducerKeepsIInv ==
  ASSUME IInv, StartSecondProducer PROVE IInv'
<1> USE NumBuffersAssumption
<1>1. TypeOK'
  BY DEF IInv, TypeOK, StartSecondProducer, StartProducer, StartSequence, Thread, Buffer
<1>2. PhaseInv'
  BY DEF IInv, TypeOK, StartSecondProducer, StartProducer, StartSequence, PhaseInv, Thread
<1>3. LinkInv'
  <2>1. prodDscr'[0] = 0 /\ prodDscr'[1] = 1 /\ thread' = 0
    BY DEF IInv, TypeOK, PhaseInv, StartSecondProducer, StartProducer, StartSequence, Thread
  <2>2. Waiting' = 0 /\ Head' = 0
    BY DEF IInv, PhaseInv, StartSecondProducer, StartProducer, StartSequence, Waiting, Head
  <2>3. \A i \in Buffer : occupied'[i] = FALSE /\ OffsetFrom(0, i) \in Nat
    BY OffsetType DEF IInv, PhaseInv, StartSecondProducer, StartProducer, StartSequence, Buffer
  <2>4. SlotAt(0, 0) = 0 /\ NextBuffer(0) = 1 /\ Producer(0) = 0
    BY DEF SlotAt, NextBuffer, Producer
  <2> QED
    BY <2>1, <2>2, <2>3, <2>4 DEF LinkInv
<1> QED
  BY <1>1, <1>2, <1>3 DEF IInv

LEMMA StartConsumerKeepsIInv ==
  ASSUME IInv, StartConsumer PROVE IInv'
<1> USE NumBuffersAssumption
<1>1. TypeOK'
  BY DEF IInv, TypeOK, StartConsumer, Buffer
<1>2. PhaseInv'
  BY DEF IInv, TypeOK, StartConsumer, PhaseInv
<1>3. LinkInv'
  <2>1. Head' = Head /\ Waiting' = Waiting
    BY DEF Head, Waiting, StartConsumer
  <2> QED
    BY <2>1 DEF IInv, LinkInv, StartConsumer
<1> QED
  BY <1>1, <1>2, <1>3 DEF IInv

\* Only the GPIF's state changes: the sockets are where they were.
LEMMA GpifStepKeepsIInv ==
  ASSUME IInv, BeginCapture \/ Overrun PROVE IInv'
<1>1. TypeOK'
  BY DEF IInv, TypeOK, BeginCapture, Overrun, sockets
<1>2. pc \notin {"first", "second", "stopped"}
  BY DEF IInv, PhaseInv, BeginCapture, Overrun, Ready
<1>3. PhaseInv'
  BY <1>2 DEF IInv, PhaseInv, BeginCapture, Overrun, sockets
<1>4. LinkInv'
  <2>1. Head' = Head /\ Waiting' = Waiting
    BY DEF Head, Waiting, BeginCapture, Overrun, sockets
  <2>2. LinkInv
    BY <1>2 DEF IInv, TypeOK
  <2> QED
    BY <2>1, <2>2 DEF LinkInv, BeginCapture, Overrun, sockets
<1> QED
  BY <1>1, <1>3, <1>4 DEF IInv

\* What a running GPIF can count on.
LEMMA RunningLinked ==
  ASSUME IInv, gpif = "running" \/ consuming
  PROVE  /\ pc \in {"consumer", "started"} /\ LinkInv
         /\ consuming => pc = "started" /\ Head = consDscr
         /\ producing[thread] /\ thread \in Thread /\ 1 - thread \in Thread
         /\ Head \in Buffer /\ Waiting \in 0 .. NumBuffers
<1>1. pc \in {"consumer", "started"}
  BY DEF IInv, TypeOK, PhaseInv
<1>2. LinkInv
  BY <1>1 DEF IInv
<1>3. consuming => pc = "started"
  BY <1>1 DEF IInv, PhaseInv
<1>4. thread \in Thread /\ 1 - thread \in Thread
  BY DEF IInv, TypeOK, Thread
<1>5. producing[thread]
  BY <1>1, <1>4 DEF IInv, PhaseInv, Thread
<1>6. Head \in Buffer
  BY NumBuffersAssumption DEF Head, IInv, TypeOK, Buffer
<1> QED
  BY <1>1, <1>2, <1>3, <1>4, <1>5, <1>6 DEF LinkInv, Head

\* The producer in turn finds a full buffer only when all are full.
LEMMA ReadyUnlessFull ==
  ASSUME IInv, gpif = "running"
  PROVE  Ready(thread) <=> Waiting < NumBuffers
<1> USE NumBuffersAssumption
<1>1. /\ LinkInv /\ producing[thread]
      /\ Head \in Buffer /\ Waiting \in 0 .. NumBuffers
  BY RunningLinked
<1>2. prodDscr[thread] = SlotAt(Head, Waiting) /\ SlotAt(Head, Waiting) \in Buffer
  BY <1>1, SlotType DEF LinkInv
<1>3. occupied[prodDscr[thread]] <=> OffsetFrom(Head, SlotAt(Head, Waiting)) < Waiting
  BY <1>1, <1>2 DEF LinkInv
<1>4. CASE Waiting < NumBuffers
  BY <1>1, <1>3, <1>4, SlotOffset DEF Ready
<1>5. CASE Waiting = NumBuffers
  BY <1>1, <1>3, <1>5, OffsetType DEF Ready
<1> QED
  BY <1>1, <1>4, <1>5

LEMMA CaptureKeepsIInv ==
  ASSUME IInv, Capture PROVE IInv'
<1> USE NumBuffersAssumption
<1> DEFINE p == prodDscr[thread]
<1>1. /\ pc \in {"consumer", "started"} /\ LinkInv
      /\ thread \in Thread /\ 1 - thread \in Thread
      /\ Head \in Buffer /\ Waiting \in 0 .. (NumBuffers - 1)
  BY RunningLinked, ReadyUnlessFull DEF Capture
<1>2. p \in Buffer /\ p = SlotAt(Head, Waiting)
  BY <1>1, SlotType DEF LinkInv
<1>3. NextBuffer(p) \in Buffer /\ WrChain(p) \in Buffer
  BY <1>2, NextBufferType DEF WrChain
<1>4. captured \in Nat /\ sent \in Nat
  BY DEF IInv, TypeOK
<1>5. TypeOK'
  BY <1>1, <1>2, <1>3 DEF IInv, TypeOK, Capture
<1>6. PhaseInv'
  BY <1>1 DEF IInv, PhaseInv, Capture
<1>7. Head' = Head /\ Waiting' = Waiting + 1
  BY <1>4 DEF Head, Waiting, Capture
<1>8. thread' = 1 - thread /\ 1 - thread' = thread /\ thread # 1 - thread
  BY <1>1 DEF Capture, Thread
<1>9. prodDscr'[thread'] = NextBuffer(p) /\ prodDscr'[1 - thread'] = WrChain(p)
  BY <1>1, <1>8 DEF Capture, LinkInv, IInv, TypeOK
<1>10. LinkInv'
  <2>1. Waiting' \in 0 .. NumBuffers
    BY <1>1, <1>7
  <2>2. prodDscr'[thread'] = SlotAt(Head', Waiting')
    BY <1>1, <1>2, <1>7, <1>9, SlotOffset
  <2>3. prodDscr'[1 - thread'] = NextBuffer(prodDscr'[thread'])
    BY <1>9 DEF WrChain
  <2>4. Producer(prodDscr'[thread']) = thread'
    BY <1>1, <1>2, <1>8, <1>9, NextBufferType DEF LinkInv
  <2>5. \A i \in Buffer : occupied'[i] <=> OffsetFrom(Head', i) < Waiting'
    <3> SUFFICES ASSUME NEW i \in Buffer
                 PROVE  occupied'[i] <=> OffsetFrom(Head', i) < Waiting'
      OBVIOUS
    <3>1. CASE i = p
      BY <3>1, <1>1, <1>2, <1>7, SlotOffset DEF Capture, IInv, TypeOK
    <3>2. CASE i # p
      <4>1. occupied'[i] = occupied[i]
        BY <3>2, <1>2 DEF Capture, IInv, TypeOK
      <4>2. OffsetFrom(Head, i) # Waiting /\ OffsetFrom(Head, i) \in Nat
        BY <3>2, <1>1, <1>2, SlotOffset, OffsetType
      <4>3. occupied[i] <=> OffsetFrom(Head, i) < Waiting
        BY <1>1 DEF LinkInv
      <4> QED
        BY <1>1, <1>7, <4>1, <4>2, <4>3
    <3> QED
      BY <3>1, <3>2
  <2>6. \A i \in Buffer : occupied'[i] => data'[i] = sent' + OffsetFrom(Head', i)
    <3> SUFFICES ASSUME NEW i \in Buffer, occupied'[i]
                 PROVE  data'[i] = sent' + OffsetFrom(Head', i)
      OBVIOUS
    <3>1. CASE i = p
      <4>1. data'[i] = captured /\ sent' = sent
        BY <3>1, <1>2 DEF Capture, IInv, TypeOK
      <4>2. OffsetFrom(Head', i) = Waiting
        BY <3>1, <1>1, <1>2, <1>7, SlotOffset
      <4> QED
        BY <4>1, <4>2, <1>4 DEF Waiting
    <3>2. CASE i # p
      <4>1. occupied'[i] = occupied[i] /\ data'[i] = data[i] /\ sent' = sent
        BY <3>2, <1>2 DEF Capture, IInv, TypeOK
      <4> QED
        BY <4>1, <1>1, <1>7 DEF LinkInv
    <3> QED
      BY <3>1, <3>2
  <2> QED
    BY <2>1, <2>2, <2>3, <2>4, <2>5, <2>6 DEF LinkInv
<1> QED
  BY <1>5, <1>6, <1>10 DEF IInv

\* What a step of the host finds.
LEMMA SendFinds ==
  ASSUME IInv, Send
  PROVE  /\ pc = "started" /\ Head = consDscr /\ LinkInv
         /\ Head \in Buffer
         /\ Waiting \in 1 .. NumBuffers
         /\ data[consDscr] = sent
<1>1. /\ pc = "started" /\ Head = consDscr /\ LinkInv
      /\ Head \in Buffer /\ Waiting \in 0 .. NumBuffers
  BY RunningLinked DEF Send
<1>2. OffsetFrom(Head, consDscr) = 0
  BY <1>1, OffsetType
<1>3. 0 < Waiting /\ data[consDscr] = sent + 0
  BY <1>1, <1>2 DEF LinkInv, Send
<1>4. sent \in Nat
  BY DEF IInv, TypeOK
<1> QED
  BY <1>1, <1>3, <1>4, NumBuffersAssumption

LEMMA SendKeepsIInv ==
  ASSUME IInv, Send PROVE IInv'
<1> USE NumBuffersAssumption
<1>1. /\ pc = "started" /\ Head = consDscr /\ LinkInv
      /\ Head \in Buffer /\ Waiting \in 1 .. NumBuffers
      /\ data[consDscr] = sent
  BY SendFinds
<1>2. captured \in Nat /\ sent \in Nat
  BY DEF IInv, TypeOK
<1>3. NextBuffer(Head) \in Buffer
  BY <1>1, NextBufferType
<1>4. TypeOK'
  BY <1>1, <1>2, <1>3 DEF IInv, TypeOK, Send, RdChain
<1>5. PhaseInv'
  BY <1>1 DEF IInv, PhaseInv, Send
<1>6. Head' = NextBuffer(Head) /\ Waiting' = Waiting - 1
  BY <1>1, <1>2 DEF Head, Waiting, Send, RdChain
<1>7. LinkInv'
  <2>1. Waiting' \in 0 .. NumBuffers
    BY <1>1, <1>6
  <2>2. prodDscr'[thread'] = SlotAt(Head', Waiting')
    BY <1>1, <1>6, MoveHead DEF LinkInv, Send
  <2>3. /\ prodDscr'[1 - thread'] = NextBuffer(prodDscr'[thread'])
        /\ Producer(prodDscr'[thread']) = thread'
    BY <1>1 DEF LinkInv, Send
  <2>4. \A i \in Buffer : occupied'[i] <=> OffsetFrom(Head', i) < Waiting'
    <3> SUFFICES ASSUME NEW i \in Buffer
                 PROVE  occupied'[i] <=> OffsetFrom(Head', i) < Waiting'
      OBVIOUS
    <3>1. CASE i = Head
      <4>1. occupied'[i] = FALSE
        BY <3>1, <1>1 DEF Send, IInv, TypeOK
      <4>2. OffsetFrom(Head', i) = NumBuffers - 1
        BY <3>1, <1>1, <1>6, MoveHead
      <4> QED
        BY <4>1, <4>2, <1>1, <1>6
    <3>2. CASE i # Head
      <4>1. occupied'[i] = occupied[i]
        BY <3>2, <1>1 DEF Send, IInv, TypeOK
      <4>2. OffsetFrom(Head', i) = OffsetFrom(Head, i) - 1
        BY <3>2, <1>1, <1>6, MoveHead
      <4>3. OffsetFrom(Head, i) \in Nat
        BY <1>1, OffsetType
      <4>4. occupied[i] <=> OffsetFrom(Head, i) < Waiting
        BY <1>1 DEF LinkInv
      <4> QED
        BY <4>1, <4>2, <4>3, <4>4, <1>1, <1>6
    <3> QED
      BY <3>1, <3>2
  <2>5. \A i \in Buffer : occupied'[i] => data'[i] = sent' + OffsetFrom(Head', i)
    <3> SUFFICES ASSUME NEW i \in Buffer, occupied'[i]
                 PROVE  data'[i] = sent' + OffsetFrom(Head', i)
      OBVIOUS
    <3>1. i # Head
      BY <1>1 DEF Send, IInv, TypeOK
    <3>2. occupied[i] /\ data'[i] = data[i] /\ sent' = sent + 1
      BY <3>1, <1>1 DEF Send, IInv, TypeOK
    <3>3. OffsetFrom(Head', i) = OffsetFrom(Head, i) - 1
      BY <3>1, <1>1, <1>6, MoveHead
    <3>4. OffsetFrom(Head, i) \in Nat
      BY <1>1, OffsetType
    <3>5. data[i] = sent + OffsetFrom(Head, i)
      BY <3>2, <1>1 DEF LinkInv
    <3> QED
      BY <3>2, <3>3, <3>4, <3>5, <1>2
  <2> QED
    BY <2>1, <2>2, <2>3, <2>4, <2>5 DEF LinkInv
<1> QED
  BY <1>4, <1>5, <1>7 DEF IInv

LEMMA UnchangedKeepsIInv ==
  ASSUME IInv, UNCHANGED vars PROVE IInv'
<1>1. TypeOK' /\ PhaseInv'
  BY DEF IInv, TypeOK, PhaseInv, vars, sockets
<1>2. Head' = Head /\ Waiting' = Waiting /\ pc' = pc
  BY DEF Head, Waiting, vars, sockets
<1>3. LinkInv => LinkInv'
  BY <1>2 DEF LinkInv, vars, sockets
<1> QED
  BY <1>1, <1>2, <1>3 DEF IInv

LEMMA NextKeepsIInv == IInv /\ [Next]_vars => IInv'
BY StopKeepsIInv, StartGpifKeepsIInv, StartFirstProducerKeepsIInv, StartSecondProducerKeepsIInv,
   StartConsumerKeepsIInv, GpifStepKeepsIInv, CaptureKeepsIInv, SendKeepsIInv,
   UnchangedKeepsIInv DEF Next

LEMMA Invariance == Spec => []IInv
BY InitIInv, NextKeepsIInv, PTL DEF Spec

-----------------------------------------------------------------------------
(***************************************************************************)
(* The variables of the ring stay in their ranges: the sockets never leave  *)
(* the descriptors setup_acquisition allocated.                             *)
(***************************************************************************)
THEOREM TypeCorrect == Spec => []TypeOK
<1>1. IInv => TypeOK
  BY DEF IInv
<1> QED
  BY <1>1, Invariance, PTL

(***************************************************************************)
(* A producer socket only ever stands on descriptors that name it as their  *)
(* producer, for every even NUM_DMA_BUFFERS.                                *)
(***************************************************************************)
THEOREM ProducersKeepToTheirDescriptors == Spec => []SocketsOnOwnDescriptors
<1>1. IInv => SocketsOnOwnDescriptors
  <2> SUFFICES ASSUME IInv, NEW t \in Thread, producing[t]
               PROVE  Producer(prodDscr[t]) = t
    BY DEF SocketsOnOwnDescriptors
  <2>1. CASE pc = "second"
    BY <2>1 DEF IInv, PhaseInv, Thread, Producer
  <2>2. CASE pc \in {"consumer", "started"}
    <3>1. LinkInv /\ thread \in Thread /\ prodDscr[thread] \in Buffer
      BY <2>2 DEF IInv, TypeOK
    <3>2. Producer(prodDscr[thread]) = thread /\ Producer(prodDscr[1 - thread]) = 1 - thread
      BY <3>1, NextBufferType DEF LinkInv
    <3> QED
      BY <3>1, <3>2 DEF Thread
  <2>3. pc \in {"second", "consumer", "started"}
    BY DEF IInv, TypeOK, PhaseInv, Thread
  <2> QED
    BY <2>1, <2>2, <2>3
<1> QED
  BY <1>1, Invariance, PTL

(***************************************************************************)
(* Two producers, a consumer and the links of setup_descriptors make a      *)
(* stream: in order, without loss, and broken off only when the ring is     *)
(* full, for every even NUM_DMA_BUFFERS.                                    *)
(***************************************************************************)
THEOREM RingIsStream == Spec => ImplementsStream
<1> USE NumBuffersAssumption
<1>1. Init => Stream!Init
  BY DEF Init, Stream!Init, Stream!Fresh, StreamState
<1>2. IInv /\ [Next]_vars => [Stream!Next]_(Stream!vars)
  <2> SUFFICES ASSUME IInv, [Next]_vars PROVE [Stream!Next]_(Stream!vars)
    OBVIOUS
  <2> USE DEF Stream!Next, Stream!vars
  <2>1. CASE StopAcquisition
    <3>1. Stream!Stop
      BY <2>1 DEF StopAcquisition, Stream!Stop, StreamState
    <3> QED
      BY <3>1
  <2>2. CASE StartGpif
    <3>1. Stream!Start
      BY <2>2 DEF StartGpif, Stream!Start, Stream!Fresh, StreamState
    <3> QED
      BY <3>1
  <2>3. CASE StartFirstProducer \/ StartSecondProducer \/ StartConsumer
    BY <2>3 DEF StartFirstProducer, StartSecondProducer, StartProducer, StartSequence, StartConsumer, StreamState
  <2>4. CASE BeginCapture
    BY <2>4 DEF BeginCapture, StreamState
  <2>5. CASE Capture
    <3>1. Waiting < NumBuffers
      BY <2>5, ReadyUnlessFull DEF Capture
    <3>2. Stream!Capture
      BY <2>5, <3>1 DEF Capture, Stream!Capture, StreamState, Waiting
    <3> QED
      BY <3>2
  <2>6. CASE Overrun
    <3>1. Waiting = NumBuffers
      BY <2>6, ReadyUnlessFull, RunningLinked DEF Overrun
    <3>2. Stream!Overrun
      BY <2>6, <3>1 DEF Overrun, Stream!Overrun, StreamState, Waiting
    <3> QED
      BY <3>2
  <2>7. CASE Send
    <3>1. pc = "started" /\ Waiting \in 1 .. NumBuffers /\ data[consDscr] = sent
      BY <2>7, SendFinds
    <3>2. sent < captured
      BY <3>1 DEF Waiting, IInv, TypeOK
    <3>3. gpif # "invalid"
      BY <3>1 DEF IInv, PhaseInv
    <3>4. StreamState # "off" /\ StreamState' = StreamState
      BY <2>7, <3>3 DEF Send, StreamState, IInv, TypeOK
    <3>5. Stream!Send
      BY <2>7, <3>1, <3>2, <3>4 DEF Send, Stream!Send
    <3> QED
      BY <3>5
  <2>8. CASE UNCHANGED vars
    BY <2>8 DEF vars, StreamState
  <2> QED
    BY <2>1, <2>2, <2>3, <2>4, <2>5, <2>6, <2>7, <2>8 DEF Next
<1> QED
  BY <1>1, <1>2, Invariance, PTL DEF Spec, ImplementsStream, Stream!Spec

===============================================================================
