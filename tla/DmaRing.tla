-------------------------------- MODULE DmaRing --------------------------------
(***************************************************************************)
(* The ring of DMA buffers of acquisition.c.  Two producer sockets, one per *)
(* GPIF thread, fill the buffers alternately; one consumer socket sends     *)
(* them to USB endpoint 2.  Every descriptor carries the links the sockets  *)
(* follow: the producers skip a buffer, the consumer takes each.            *)
(*                                                                          *)
(* A start (start_acquisition, in the USB interrupt) restarts the GPIF and  *)
(* then the sockets one after the other, while the GPIF already runs.  The  *)
(* GPIF is at the grain of a buffer here: a capture fills one.  GpifSampler *)
(* models its clocks and implements this module.                            *)
(***************************************************************************)
EXTENDS Integers

CONSTANTS
    NumBuffers,         \* NUM_DMA_BUFFERS
    MaxCaptured         \* bound: buffers captured by one acquisition

ASSUME NumBuffersAssumption ==
    NumBuffers \in Nat /\ NumBuffers >= 2 /\ NumBuffers % 2 = 0
ASSUME MaxCapturedAssumption == MaxCaptured \in Nat

VARIABLES
    pc,                 \* where start_acquisition is
    gpif,               \* the GPIF: "invalid", "waiting", "running", "overrun"
    thread,             \* the GPIF thread, and so the producer socket, in turn
    producing,          \* are the producer sockets enabled
    consuming,          \* is the consumer socket enabled
    prodDscr,           \* the current descriptor of each producer socket
    consDscr,           \* the current descriptor of the consumer socket
    occupied,           \* BUFFER_OCCUPIED in the descriptors
    data,               \* the number of the capture a buffer holds
    captured,           \* how many buffers this acquisition has filled
    sent,               \* how many of them were sent
    last                \* the number of the one sent last, -1 for none

sockets == <<producing, consuming, prodDscr, consDscr>>
vars == <<pc, gpif, thread, sockets, occupied, data, captured, sent, last>>

Buffer == 0 .. (NumBuffers - 1)
Thread == 0 .. 1

\* Mutants of the links: no wrap around, a producer that takes each buffer,
\* a consumer that skips one.
NextUnwrapped(i) == i + 1
WrChainEach(i) == IF i = NumBuffers - 1 THEN 0 ELSE i + 1
RdChainSkips(i) == (i + 2) % NumBuffers

(***************************************************************************)
(* setup_descriptors: the links and the producer of the descriptor of each  *)
(* buffer.                                                                  *)
(***************************************************************************)
NextBuffer(i) == IF i = NumBuffers - 1 THEN 0 ELSE i + 1
RdChain(i) == NextBuffer(i)
WrChain(i) == NextBuffer(NextBuffer(i))
Producer(i) == i % 2

\* DMA_RDY of a GPIF thread: its socket has an empty buffer.
Ready(t) == producing[t] /\ ~occupied[prodDscr[t]]

Init ==
    /\ pc = "stopped"
    /\ gpif = "invalid"
    /\ thread = 0
    /\ producing = [t \in Thread |-> FALSE]
    /\ consuming = FALSE
    /\ prodDscr = [t \in Thread |-> 0]
    /\ consDscr = 0
    /\ occupied = [i \in Buffer |-> FALSE]
    /\ data = [i \in Buffer |-> 0]
    /\ captured = 0
    /\ sent = 0
    /\ last = -1

-----------------------------------------------------------------------------
(***************************************************************************)
(* stop_acquisition as poll_acquisition calls it, when the GPIF was paused  *)
(* after an overrun: the sockets are aborted and the GPIF loses its power.  *)
(***************************************************************************)
StopAcquisition ==
    /\ gpif = "overrun"
    /\ pc = "started"
    /\ pc' = "stopped"
    /\ gpif' = "invalid"
    /\ producing' = [t \in Thread |-> FALSE]
    /\ consuming' = FALSE
    /\ UNCHANGED <<thread, prodDscr, consDscr, occupied, data, captured, sent, last>>

(***************************************************************************)
(* start_acquisition up to Fx3GpifStart: everything is stopped, every       *)
(* descriptor is rewritten, empty, and the GPIF waits in its first state    *)
(* for the socket of thread 0.                                              *)
(***************************************************************************)
StartGpif ==
    /\ pc \in {"stopped", "started"}
    /\ pc' = "first"
    /\ gpif' = "waiting"
    /\ thread' = 0
    /\ producing' = [t \in Thread |-> FALSE]
    /\ consuming' = FALSE
    /\ occupied' = [i \in Buffer |-> FALSE]
    /\ captured' = 0
    /\ sent' = 0
    /\ last' = -1
    /\ UNCHANGED <<prodDscr, consDscr, data>>

\* Mutant: the two producers are started in the order of their numbers.
StartAscending == <<0, 1>>

\* The order of the two calls of Fx3DmaStartProducer.
StartSequence == <<1, 0>>

\* Fx3DmaStartProducer for socket t, at buffer t.
StartProducer(t) ==
    /\ producing' = [producing EXCEPT ![t] = TRUE]
    /\ prodDscr' = [prodDscr EXCEPT ![t] = t]
    /\ UNCHANGED <<gpif, thread, consuming, consDscr, occupied, data, captured, sent, last>>

StartFirstProducer ==
    /\ pc = "first"
    /\ pc' = "second"
    /\ StartProducer(StartSequence[1])

StartSecondProducer ==
    /\ pc = "second"
    /\ pc' = "consumer"
    /\ StartProducer(StartSequence[2])

\* Fx3DmaStartConsumer, at buffer 0.
StartConsumer ==
    /\ pc = "consumer"
    /\ pc' = "started"
    /\ consuming' = TRUE
    /\ consDscr' = 0
    /\ UNCHANGED <<gpif, thread, producing, prodDscr, occupied, data, captured, sent, last>>

-----------------------------------------------------------------------------
\* The hardware.

\* The GPIF leaves its first state.
BeginCapture ==
    /\ gpif = "waiting"
    /\ Ready(0)
    /\ gpif' = "running"
    /\ UNCHANGED <<pc, thread, sockets, occupied, data, captured, sent, last>>

\* A buffer is full: it is handed over and the other thread takes its turn.
Capture ==
    /\ gpif = "running"
    /\ Ready(thread)
    /\ captured < MaxCaptured
    /\ occupied' = [occupied EXCEPT ![prodDscr[thread]] = TRUE]
    /\ data' = [data EXCEPT ![prodDscr[thread]] = captured]
    /\ prodDscr' = [prodDscr EXCEPT ![thread] = WrChain(prodDscr[thread])]
    /\ thread' = 1 - thread
    /\ captured' = captured + 1
    /\ UNCHANGED <<pc, gpif, producing, consuming, consDscr, sent, last>>

\* A sample finds no empty buffer: it is lost and the GPIF goes to Done.
Overrun ==
    /\ gpif = "running"
    /\ ~Ready(thread)
    /\ gpif' = "overrun"
    /\ UNCHANGED <<pc, thread, sockets, occupied, data, captured, sent, last>>

\* The host reads a buffer.
Send ==
    /\ consuming
    /\ occupied[consDscr]
    /\ last' = data[consDscr]
    /\ occupied' = [occupied EXCEPT ![consDscr] = FALSE]
    /\ consDscr' = RdChain(consDscr)
    /\ sent' = sent + 1
    /\ UNCHANGED <<pc, gpif, thread, producing, consuming, prodDscr, data, captured>>

Next ==
    \/ StopAcquisition
    \/ StartGpif \/ StartFirstProducer \/ StartSecondProducer \/ StartConsumer
    \/ BeginCapture \/ Capture \/ Overrun \/ Send

Spec == Init /\ [][Next]_vars

(***************************************************************************)
(* An interrupt handler runs to its end, and the host keeps reading.        *)
(***************************************************************************)
Fairness ==
    /\ WF_vars(StartFirstProducer) /\ WF_vars(StartSecondProducer) /\ WF_vars(StartConsumer)
    /\ WF_vars(Send)

FairSpec == Spec /\ Fairness

-----------------------------------------------------------------------------
\* The ranges of the variables.
TypeOK ==
    /\ pc \in {"stopped", "first", "second", "consumer", "started"}
    /\ gpif \in {"invalid", "waiting", "running", "overrun"}
    /\ thread \in Thread
    /\ producing \in [Thread -> BOOLEAN]
    /\ consuming \in BOOLEAN
    /\ prodDscr \in [Thread -> Buffer]
    /\ consDscr \in Buffer
    /\ occupied \in [Buffer -> BOOLEAN]
    /\ data \in [Buffer -> Nat]
    /\ captured \in Nat /\ sent \in Nat /\ last \in Int

(***************************************************************************)
(* The links keep each producer socket on the descriptors that name it as   *)
(* their producer (acquisition.c:169-175): going round the ring by two      *)
(* must not change the parity of a buffer.                                  *)
(***************************************************************************)
SocketsOnOwnDescriptors ==
    \A t \in Thread : producing[t] => Producer(prodDscr[t]) = t

(***************************************************************************)
(* The host gets the buffers in the order of their capture, each once, and  *)
(* the capture breaks off only when all the buffers wait for the host, even *)
(* while start_acquisition is still starting sockets (acquisition.c:199).   *)
(***************************************************************************)
StreamState ==
    CASE gpif = "invalid" -> "off"
      [] gpif = "overrun" -> "overrun"
      [] OTHER            -> "on"

Stream == INSTANCE CaptureStream WITH state <- StreamState
ImplementsStream == Stream!Spec

(***************************************************************************)
(* A captured buffer reaches a host that keeps reading, unless the          *)
(* acquisition is stopped or restarted before: the three sockets never wait *)
(* for each other at different places of the ring.                          *)
(***************************************************************************)
CapturedIsSent ==
    \A k \in 1 .. MaxCaptured :
        captured >= k ~> (sent >= k \/ captured = 0 \/ gpif = "invalid")

===============================================================================
