------------------------------ MODULE GpifSampler ------------------------------
(***************************************************************************)
(* The sampling of acquisition.c, clock by clock: the GPIF executes the     *)
(* table of waveforms and pushes samples into the buffers of the DMA ring.  *)
(* Nothing tells the GPIF that a buffer is full: its address counter counts *)
(* the samples of a buffer, and the waveforms change thread, and so socket, *)
(* when it hits the limit start_acquisition computed.  Between two samples  *)
(* it waits, by its data counter, for as long as the host asked.            *)
(*                                                                          *)
(* The sockets, their start and the host are those of DmaRing, of which     *)
(* this module is the detailed version: a capture there is the push of the  *)
(* last sample of a buffer here.                                            *)
(***************************************************************************)
EXTENDS Integers, GpifTable

CONSTANTS
    NumBuffers, MaxCaptured,    \* see DmaRing
    BufferSize,                 \* DMA_BUFFER_SIZE, in bytes
    BitWidths,                  \* the bus widths the host asks for
    Delays                      \* the sample delays the host asks for

ASSUME BufferSizeAssumption == BufferSize \in Nat \ {0} /\ BufferSize % 12 = 0
ASSUME BitWidthsAssumption == BitWidths \subseteq {8, 16, 24, 32}
ASSUME DelaysAssumption == Delays \subseteq Nat

VARIABLES
    pc, producing, consuming, prodDscr, consDscr, occupied, data,
    captured, sent, last,       \* see DmaRing
    bits,                       \* registers.bus_config: the width of a sample
    delay,                      \* registers.data_count_limit
    state,                      \* the current GPIF state, Invalid when stopped
    dataCount, addrCount,       \* the GPIF counters
    level,                      \* the bytes in the buffer of each producer
    gap,                        \* clocks since the last sample, -1 for none
    period                      \* clocks between the last two, 0 for none

ringVars == <<pc, producing, consuming, prodDscr, consDscr, occupied, data,
              captured, sent, last>>
gpifVars == <<bits, delay, state, dataCount, addrCount, level, gap, period>>
vars == <<ringVars, gpifVars>>

Invalid == 17       \* not a state of the table: the GPIF is off

-----------------------------------------------------------------------------
\* Mutants of the limits: the data counter waits for one clock less; a buffer
\* takes as many samples whatever the delay.
DataLimitLessOne == delay - 1
AddrLimitAnyDelay == (BufferSize * 8) \div bits

(***************************************************************************)
(* The limits of the counters: the data counter waits between two samples,  *)
(* the address counter counts the samples of a buffer, one less when a      *)
(* sample is taken on every clock.                                          *)
(***************************************************************************)
SamplesPerBuffer(b) == (BufferSize * 8) \div b

DataLimit == delay

AddrLimit ==
    IF delay = 0 THEN SamplesPerBuffer(bits) - 1 ELSE SamplesPerBuffer(bits)

(***************************************************************************)
(* The ring, whose GPIF state is the class of the GPIF state here and whose *)
(* thread in turn alternates with the captures.                             *)
(***************************************************************************)
GpifState ==
    CASE state = Invalid       -> "invalid"
      [] state = Done          -> "overrun"
      [] state \in {3, 8, 13}  -> "waiting"
      [] OTHER                 -> "running"

Ring == INSTANCE DmaRing WITH gpif <- GpifState, thread <- captured % 2

Init ==
    /\ bits \in BitWidths /\ delay \in Delays
    /\ state = Invalid
    /\ dataCount = 0 /\ addrCount = 0
    /\ level = [t \in Ring!Thread |-> 0]
    /\ gap = -1 /\ period = 0
    /\ pc = "stopped"
    /\ producing = [t \in Ring!Thread |-> FALSE] /\ consuming = FALSE
    /\ prodDscr = [t \in Ring!Thread |-> 0] /\ consDscr = 0
    /\ occupied = [i \in Ring!Buffer |-> FALSE]
    /\ data = [i \in Ring!Buffer |-> 0]
    /\ captured = 0 /\ sent = 0 /\ last = -1

(***************************************************************************)
(* start_acquisition up to Fx3GpifStart, for the width and the delay of the *)
(* host's command; the sockets start at the beginning of a buffer.          *)
(***************************************************************************)
StartGpif(b, d) ==
    /\ bits' = b
    /\ delay' = d
    /\ state' = StartState(d)
    /\ level' = [t \in Ring!Thread |-> 0]
    /\ gap' = -1
    /\ period' = 0
    /\ captured' = 0
    /\ Ring!StartGpif
    /\ UNCHANGED <<dataCount, addrCount>>

StopAcquisition ==
    /\ state' = Invalid
    /\ UNCHANGED <<bits, delay, dataCount, addrCount, level, gap, period, captured>>
    /\ Ring!StopAcquisition

-----------------------------------------------------------------------------
(***************************************************************************)
(* One clock of the GPIF.  A counter that stands at its limit signals a hit *)
(* and is reloaded with 0, else it is loaded or counts as the state says.   *)
(***************************************************************************)
Counter(count, limit, load, up) ==
    CASE load          -> 0
      [] ~load /\ count = limit -> 0
      [] OTHER         -> IF up THEN count + 1 ELSE count

\* A sample goes to the buffer of thread t; the last one hands it over.
Push(t) ==
    LET bytes == level[t] + (bits \div 8)
        full  == bytes >= BufferSize
    IN  /\ level' = [level EXCEPT ![t] = IF full THEN 0 ELSE bytes]
        /\ gap' = 0
        /\ period' = IF gap = -1 THEN period ELSE gap + 1
        /\ IF full
           THEN /\ captured < MaxCaptured
                /\ captured' = captured + 1
                /\ data' = [data EXCEPT ![prodDscr[t]] = captured]
                /\ occupied' = [occupied EXCEPT ![prodDscr[t]] = TRUE]
                /\ prodDscr' = [prodDscr EXCEPT ![t] = Ring!WrChain(@)]
           ELSE UNCHANGED <<captured, data, occupied, prodDscr>>

NoPush ==
    /\ gap' = IF gap = -1 THEN -1 ELSE gap + 1
    /\ UNCHANGED <<level, period, captured, data, occupied, prodDscr>>

Clock ==
    LET w         == waveforms[state]
        ready     == Ring!Ready(w.thread)
        input(l)  == CASE l = "DMA_RDY"  -> ready
                       [] l = "ADDR_HIT" -> addrCount = AddrLimit
                       [] l = "DATA_HIT" -> dataCount = DataLimit
                       [] OTHER          -> FALSE
        holds(f)  == function(f, input(w.fa), input(w.fb))
    IN  /\ state \notin {Done, Invalid}
        /\ state' = IF holds(w.f0) THEN w.left ELSE IF holds(w.f1) THEN w.right ELSE state
        /\ dataCount' = Counter(dataCount, DataLimit, "LD_DATA" \in w.beta, "COUNT_DATA" \in w.beta)
        /\ addrCount' = Counter(addrCount, AddrLimit, "LD_ADDR" \in w.beta, "COUNT_ADDR" \in w.beta)
        /\ IF "PUSH" \in w.beta /\ ready THEN Push(w.thread) ELSE NoPush
        /\ UNCHANGED <<bits, delay, pc, producing, consuming, consDscr, sent, last>>

\* The rest of start_acquisition and the host, while the GPIF stands still.
Sockets ==
    /\ UNCHANGED <<gpifVars, captured>>
    /\ \/ Ring!StartFirstProducer
       \/ Ring!StartSecondProducer
       \/ Ring!StartConsumer
       \/ Ring!Send

Next ==
    \/ \E b \in BitWidths, d \in Delays : StartGpif(b, d)
    \/ StopAcquisition
    \/ Clock
    \/ Sockets

Spec == Init /\ [][Next]_vars

-----------------------------------------------------------------------------
\* The ranges; the GPIF never reaches a state the table leaves out.
TypeOK ==
    /\ state \in 3 .. Invalid
    /\ dataCount \in Nat /\ addrCount \in Nat
    /\ level \in [Ring!Thread -> 0 .. (BufferSize - 1)]
    /\ gap \in Int /\ period \in Nat
    /\ bits \in BitWidths /\ delay \in Delays

(***************************************************************************)
(* A counter that counts is not beyond its limit, where it would count on   *)
(* through 2^32 before the next hit: what a previous acquisition with other *)
(* limits left in it is gone before it is used (acquisition.c:25-29, 65-68, *)
(* 96-99, LD_DATA_COUNT and LD_ADDR_COUNT of the first states).             *)
(***************************************************************************)
CountersWithinLimits ==
    /\ state \in 4 .. 7 => dataCount <= DataLimit
    /\ GpifState = "running" => addrCount <= AddrLimit

(***************************************************************************)
(* The counters change thread exactly when a buffer is full, for every      *)
(* width and delay, so that the GPIF and the sockets make the ring of       *)
(* DmaRing: no buffer is handed over short, none is pushed into when full,  *)
(* and the GPIF is done only when all are (acquisition.c:18-124, 184-188).  *)
(***************************************************************************)
ImplementsRing == Ring!Spec

(***************************************************************************)
(* Samples are taken at one rate throughout an acquisition, across the      *)
(* changes of buffer too: one every delay + 1 clocks (acquisition.c:23-121, *)
(* the comments Delay == 0, Delay == 1 and Delay >= 2).                     *)
(***************************************************************************)
EvenlySampled == period \in {0, delay + 1}

(***************************************************************************)
(* So it is with a delay of 0 and with one of 2 or more, of which the       *)
(* former counts by the push and the latter by the data counter             *)
(* (acquisition.c:23-60, 90-121, 187).                                      *)
(***************************************************************************)
EvenlySampledUnlessDelay1 == delay # 1 => EvenlySampled

===============================================================================
