------------------------------- MODULE UsbControl -------------------------------
(***************************************************************************)
(* The control endpoint: the host sends a SETUP, the USB interrupt handler  *)
(* decodes it (SetupData and VendorCommand of main.c) and answers with a    *)
(* stall, with data it sends or with a buffer it receives.  The data goes   *)
(* through DmaBuf, which the processor sees through its data cache and the  *)
(* DMA sockets do not, and each transfer takes a DMA descriptor from the    *)
(* allocator that gave main the descriptors of the acquisition ring.        *)
(*                                                                          *)
(* The handler, and main before its loop, are lists of steps still to do.   *)
(* The host is patient: it waits for the end of a control transfer before   *)
(* the next.  A SETUP is modelled with the parameters that its data stage   *)
(* will bring.                                                              *)
(***************************************************************************)
EXTENDS Naturals, Sequences

CONSTANTS
    NumDescriptors,     \* see DmaDescriptor
    NumBuffers,         \* NUM_DMA_BUFFERS
    Params              \* the parameters a CMD_START may bring

ASSUME EnoughDescriptors ==
    /\ NumDescriptors \in Nat /\ NumBuffers \in Nat
    /\ NumBuffers + 1 < NumDescriptors

VARIABLES
    mainTodo,           \* what main has left to do before its loop
    picked,             \* the local variable r of an allocation by main
    ring,               \* dma_buffer_descriptor, as far as it is filled
    connected,          \* is the USB interrupt enabled
    firstUnallocated, freeListHead, dscrChain, result, calls,  \* see DmaDescriptor
    speed,              \* the speed of the link, "HS" or "SS"
    events,             \* the events latched in PROT_INTR or DEV_CTRL_INTR
    seen,               \* those that the USB interrupt handler has read
    todo,               \* what the handler has left to do
    now,                \* the request it answers
    descr,              \* the descriptor of its transfer, 0 for none
    setup,              \* the SETUP registers
    busy,               \* no SETUP_CLR_BUSY yet since the SETUP
    stalled,            \* STALL of endpoint 0
    armed, done,        \* the sockets of endpoint 0 that are enabled, or have
                        \* raised their event
    mem, line,          \* DmaBuf in memory, and its line in the data cache
    ep2,                \* the packet size of endpoint 2, 0 when it is disabled
    started,            \* the parameters asked of and used by the last start
    host,               \* the host: "idle", or the stage it waits for
    got                 \* what the host was answered

mainVars == <<mainTodo, picked, ring, connected>>
poolVars == <<firstUnallocated, freeListHead, dscrChain, result, calls>>
irqVars == <<events, seen>>
ep0Vars == <<setup, busy, stalled>>
sockVars == <<armed, done>>
bufVars == <<mem, line>>
effects == <<ep2, started>>
hostVars == <<host, got>>
vars == <<mainVars, poolVars, speed, irqVars, todo, now, descr, ep0Vars, sockVars,
          bufVars, effects, hostVars>>

None == "none"
InRequest == {"version", "revid", "descriptor"}
Setup == [req : InRequest \cup {"configure", "other"}, param : {None}]
         \cup [req : {"start"}, param : Params]
NoSetup == [req |-> None, param |-> None]
Content == Params \cup {None, "version", "revid"}
Event == {"setup", "bus"}
NoLine == [valid |-> FALSE, dirty |-> FALSE, val |-> None]

-----------------------------------------------------------------------------
(***************************************************************************)
(* The steps of main: setup_acquisition, with the two halves of each        *)
(* allocation, then Fx3UsbInit and Fx3UsbConnect.                           *)
(***************************************************************************)

\* Mutant: the loop runs to i <= NUM_DMA_BUFFERS.
setupOpsOneMore == [i \in 1 .. 2 * NumBuffers + 2 |-> IF i % 2 = 1 THEN "pick" ELSE "take"]

setupOps == [i \in 1 .. 2 * NumBuffers |-> IF i % 2 = 1 THEN "pick" ELSE "take"]

\* Mutant: the USB interrupt is enabled before the acquisition is set up.
mainConnectsFirst == <<"connect">> \o setupOps

mainOps == setupOps \o <<"connect">>

\* Fx3UsbDmaDataIn and Fx3UsbDmaDataOut.
dmaDataOps == << <<"allocate">>, <<"arm">>, <<"wait">>, <<"free">> >>

\* setup_descriptors.
ringOps == [i \in 1 .. NumBuffers |-> <<"fill", i>>]

\* Mutant: DmaBuf is read through the cache as it is.
commandStartStale == << <<"unstall">> >> \o dmaDataOps \o << <<"read">> >> \o ringOps

\* The case CMD_START of VendorCommand.
commandStart == << <<"unstall">> >> \o dmaDataOps
                \o << <<"invalidate">>, <<"read">> >> \o ringOps

\* Mutant: the answer stays in the cache.
commandGetUncleaned == << <<"write">>, <<"unstall">> >> \o dmaDataOps

\* The cases CMD_GET_FW_VERSION and CMD_GET_REVID_VERSION of VendorCommand.
commandGet == << <<"write">>, <<"clean">>, <<"unstall">> >> \o dmaDataOps

\* SetupData and VendorCommand; "other" is every request they do not take.
SetupData(req) ==
    CASE req = "start"                -> commandStart
      [] req \in {"version", "revid"} -> commandGet
      [] req = "descriptor"           -> << <<"unstall">> >> \o dmaDataOps
      [] req = "configure"            -> << <<"enable">>, <<"unstall">> >>
      [] req = "other"                -> << <<"stall">> >>

Init ==
    /\ mainTodo = mainOps /\ ring = <<>> /\ connected = FALSE
    /\ picked = [list |-> FALSE, d |-> 0]
    /\ firstUnallocated = 1 /\ freeListHead = 0 /\ result = 0 /\ calls = 0
    /\ dscrChain = [d \in 1 .. (NumDescriptors - 1) |-> 0]   \* DmaDescriptor has any
    /\ speed \in {"HS", "SS"}
    /\ events = {} /\ seen = {} /\ todo = <<>> /\ now = NoSetup /\ descr = 0
    /\ setup = NoSetup /\ busy = FALSE /\ stalled = FALSE
    /\ armed = {} /\ done = {}
    /\ mem = None /\ line = NoLine
    /\ ep2 = 0 /\ started = [asked |-> None, used |-> None]
    /\ host = "idle" /\ got = None

-----------------------------------------------------------------------------
(***************************************************************************)
(* Main before its loop.  Fx3DmaAllocateDescriptor is not atomic here: an   *)
(* interrupt may come between what it reads and what it writes.             *)
(***************************************************************************)
Pick ==
    /\ picked' = IF freeListHead # 0 THEN [list |-> TRUE, d |-> freeListHead]
                                     ELSE [list |-> FALSE, d |-> firstUnallocated]
    /\ UNCHANGED <<ring, connected, poolVars>>

Take ==
    /\ freeListHead' = IF picked.list THEN dscrChain[picked.d] ELSE freeListHead
    /\ firstUnallocated' = IF picked.list THEN firstUnallocated ELSE picked.d + 1
    /\ ring' = Append(ring, picked.d)
    /\ result' = picked.d
    /\ calls' = 1 - calls
    /\ UNCHANGED <<dscrChain, picked, connected>>

Connect ==
    /\ connected' = TRUE
    /\ UNCHANGED <<picked, ring, poolVars>>

MainStep ==
    /\ todo = <<>>
    /\ mainTodo # <<>>
    /\ mainTodo' = Tail(mainTodo)
    /\ CASE Head(mainTodo) = "pick"    -> Pick
         [] Head(mainTodo) = "take"    -> Take
         [] Head(mainTodo) = "connect" -> Connect
    /\ UNCHANGED <<speed, irqVars, todo, now, descr, ep0Vars, sockVars, bufVars, effects, hostVars>>

-----------------------------------------------------------------------------
\* Fx3UsbUsbCoreIsr starts, and reads the events.
Interrupt ==
    /\ connected /\ events # {}
    /\ todo = <<>>
    /\ todo' = << <<"ack">> >>
    /\ seen' = events
    /\ UNCHANGED <<mainVars, poolVars, speed, events, now, descr, ep0Vars, sockVars,
                   bufVars, effects, hostVars>>

\* Mutant: every event is acknowledged, also one that came after the read.
AckedAll == Event

\* The events it acknowledges are those it has read.
Acked == seen

Ack ==
    /\ events' = events \ Acked
    /\ seen' = {}
    /\ todo' = IF "setup" \notin seen THEN <<>>
               ELSE IF speed = "HS" THEN << <<"ack again">>, <<"reset">> >> ELSE << <<"reset">> >>
    /\ UNCHANGED <<poolVars, now, descr, ep0Vars, sockVars, bufVars, effects>>

AckAgain ==
    /\ events' = events \ {"setup"}
    /\ todo' = Tail(todo)
    /\ UNCHANGED <<poolVars, seen, now, descr, ep0Vars, sockVars, bufVars, effects>>

\* Endpoint 0 is made valid and not stalled, its sockets are aborted, and the
\* SETUP is read and decoded.
Reset ==
    /\ stalled' = FALSE
    /\ armed' = {} /\ done' = {}
    /\ now' = setup
    /\ todo' = SetupData(setup.req)
    /\ UNCHANGED <<poolVars, irqVars, descr, setup, busy, bufVars, effects>>

-----------------------------------------------------------------------------
\* The steps of SetupData and VendorCommand.

\* Fx3UsbStallEp0 and Fx3UsbUnstallEp0.
AnswerSetup(stall) ==
    /\ stalled' = stall
    /\ busy' = FALSE
    /\ UNCHANGED <<poolVars, descr, setup, sockVars, bufVars, effects>>

\* Fx3UsbEnableInEndpoint, as SetupData calls it.
EnableInEndpoint ==
    /\ ep2' = IF speed = "HS" THEN 512 ELSE 1024
    /\ UNCHANGED <<poolVars, descr, ep0Vars, sockVars, bufVars, started>>

\* Fx3DmaAllocateDescriptor for a transfer on endpoint 0.
Allocate ==
    /\ result' = IF freeListHead # 0 THEN freeListHead
                 ELSE IF firstUnallocated < NumDescriptors THEN firstUnallocated ELSE 0
    /\ descr' = result'
    /\ calls' = 1 - calls
    /\ freeListHead' = IF freeListHead # 0 THEN dscrChain[freeListHead] ELSE 0
    /\ firstUnallocated' = IF freeListHead = 0 /\ firstUnallocated < NumDescriptors
                           THEN firstUnallocated + 1 ELSE firstUnallocated
    /\ UNCHANGED <<dscrChain, ep0Vars, sockVars, bufVars, effects>>

Socket == IF now.req \in InRequest THEN "in" ELSE "out"

\* The descriptor is filled and the socket started.
Arm ==
    /\ dscrChain' = [dscrChain EXCEPT ![descr] = 65535]
    /\ armed' = armed \cup {Socket}
    /\ done' = done \ {Socket}
    /\ UNCHANGED <<firstUnallocated, freeListHead, result, calls, descr, ep0Vars, bufVars, effects>>

WaitForEvent ==
    /\ Socket \in done
    /\ UNCHANGED <<poolVars, descr, ep0Vars, sockVars, bufVars, effects>>

FreeDescriptor ==
    /\ dscrChain' = [dscrChain EXCEPT ![descr] = freeListHead]
    /\ freeListHead' = descr
    /\ descr' = 0
    /\ UNCHANGED <<firstUnallocated, result, calls, ep0Vars, sockVars, bufVars, effects>>

\* Fx3DmaFillDescriptorThrough for the i-th buffer of the ring.
FillRing(i) ==
    /\ dscrChain' = [dscrChain EXCEPT ![ring[i]] = ring[IF i = NumBuffers THEN 1 ELSE i + 1]]
    /\ UNCHANGED <<firstUnallocated, freeListHead, result, calls, descr, ep0Vars, sockVars,
                   bufVars, effects>>

\* DmaBuf is written and read through its cache line, which only a read allocates.
WriteBuf ==
    /\ line' = IF line.valid THEN [line EXCEPT !.dirty = TRUE, !.val = now.req] ELSE line
    /\ mem' = IF line.valid THEN mem ELSE now.req
    /\ UNCHANGED <<poolVars, descr, ep0Vars, sockVars, effects>>

CleanDCacheEntry ==
    /\ line' = [line EXCEPT !.dirty = FALSE]
    /\ mem' = IF line.dirty THEN line.val ELSE mem
    /\ UNCHANGED <<poolVars, descr, ep0Vars, sockVars, effects>>

InvalidateDCacheEntry ==
    /\ line' = NoLine
    /\ UNCHANGED <<poolVars, descr, ep0Vars, sockVars, mem, effects>>

\* The parameters are read, and start_acquisition is called with them.
ReadBuf ==
    /\ line' = IF line.valid THEN line ELSE [valid |-> TRUE, dirty |-> FALSE, val |-> mem]
    /\ started' = [asked |-> now.param, used |-> line'.val]
    /\ UNCHANGED <<poolVars, descr, ep0Vars, sockVars, mem, ep2>>

RequestStep(op) ==
    CASE op[1] = "unstall"    -> AnswerSetup(FALSE)
      [] op[1] = "stall"      -> AnswerSetup(TRUE)
      [] op[1] = "enable"     -> EnableInEndpoint
      [] op[1] = "allocate"   -> Allocate
      [] op[1] = "arm"        -> Arm
      [] op[1] = "wait"       -> WaitForEvent
      [] op[1] = "free"       -> FreeDescriptor
      [] op[1] = "fill"       -> FillRing(op[2])
      [] op[1] = "write"      -> WriteBuf
      [] op[1] = "clean"      -> CleanDCacheEntry
      [] op[1] = "invalidate" -> InvalidateDCacheEntry
      [] op[1] = "read"       -> ReadBuf

IsrStep ==
    /\ todo # <<>>
    /\ CASE Head(todo)[1] = "ack"       -> Ack
         [] Head(todo)[1] = "ack again" -> AckAgain
         [] Head(todo)[1] = "reset"     -> Reset
         [] OTHER -> /\ RequestStep(Head(todo))
                     /\ todo' = Tail(todo)
                     /\ UNCHANGED <<irqVars, now>>
    /\ UNCHANGED <<mainVars, speed, hostVars>>

-----------------------------------------------------------------------------
\* The hardware and the host.

\* The cache may write back and drop the line at any time.
Evict ==
    /\ line.valid
    /\ mem' = IF line.dirty THEN line.val ELSE mem
    /\ line' = NoLine
    /\ UNCHANGED <<mainVars, poolVars, speed, irqVars, todo, now, descr, ep0Vars, sockVars,
                   effects, hostVars>>

\* Another event of the link, which the handler only reports.
BusEvent ==
    /\ connected
    /\ events' = events \cup {"bus"}
    /\ UNCHANGED <<mainVars, poolVars, speed, seen, todo, now, descr, ep0Vars, sockVars,
                   bufVars, effects, hostVars>>

SendSetup(s) ==
    /\ connected
    /\ host = "idle"
    /\ host' = IF s.req \in InRequest \cup {"start"} THEN "data" ELSE "status"
    /\ got' = None
    /\ setup' = s
    /\ busy' = TRUE
    /\ events' = events \cup {"setup"}
    /\ UNCHANGED <<mainVars, poolVars, speed, seen, todo, now, descr, stalled, sockVars,
                   bufVars, effects>>

DataIn ==
    /\ host = "data" /\ setup.req \in InRequest
    /\ ~busy /\ ~stalled /\ "in" \in armed
    /\ got' = IF now.req = "descriptor" THEN "descriptor" ELSE mem
    /\ armed' = armed \ {"in"}
    /\ done' = done \cup {"in"}
    /\ host' = "status"
    /\ UNCHANGED <<mainVars, poolVars, speed, irqVars, todo, now, descr, ep0Vars, bufVars, effects>>

DataOut ==
    /\ host = "data" /\ setup.req = "start"
    /\ ~busy /\ ~stalled /\ "out" \in armed
    /\ mem' = setup.param
    /\ armed' = armed \ {"out"}
    /\ done' = done \cup {"out"}
    /\ host' = "status"
    /\ UNCHANGED <<mainVars, poolVars, speed, irqVars, todo, now, descr, ep0Vars, line, effects, got>>

\* The host sees the end of the transfer, or the stall.
EndTransfer ==
    /\ ~busy
    /\ \/ host = "status" /\ ~stalled /\ got' = IF got = None THEN "ok" ELSE got
       \/ host # "idle" /\ stalled /\ got' = "stall"
    /\ host' = "idle"
    /\ UNCHANGED <<mainVars, poolVars, speed, irqVars, todo, now, descr, ep0Vars, sockVars,
                   bufVars, effects>>

Next ==
    \/ MainStep
    \/ Interrupt \/ IsrStep
    \/ Evict \/ BusEvent
    \/ \E s \in Setup : SendSetup(s)
    \/ DataIn \/ DataOut \/ EndTransfer

Spec == Init /\ [][Next]_vars

(***************************************************************************)
(* The processor goes on, and the host finishes the transfer it has begun.  *)
(***************************************************************************)
Fairness ==
    /\ WF_vars(MainStep) /\ WF_vars(Interrupt) /\ WF_vars(IsrStep)
    /\ WF_vars(DataIn) /\ WF_vars(DataOut) /\ WF_vars(EndTransfer)

FairSpec == Spec /\ Fairness

-----------------------------------------------------------------------------
\* The ranges of the variables the requests change.
TypeOK ==
    /\ ring \in Seq(1 .. (NumDescriptors - 1)) /\ Len(ring) <= NumBuffers
    /\ descr \in 0 .. (NumDescriptors - 1)
    /\ events \subseteq Event /\ seen \subseteq Event
    /\ setup \in Setup \cup {NoSetup} /\ now \in Setup \cup {NoSetup}
    /\ armed \subseteq {"in", "out"} /\ done \subseteq {"in", "out"}
    /\ mem \in Content /\ line.val \in Content
    /\ ep2 \in {0, 512, 1024}
    /\ host \in {"idle", "data", "status"}

(***************************************************************************)
(* Main and the interrupt handler use the allocator of bsp/dma.c as         *)
(* DmaDescriptor takes for granted: allocations do not cut into each other, *)
(* and only a descriptor that is held, be it of the ring or of a transfer   *)
(* on endpoint 0, is filled or freed (main.c:179-184, usb.c:330-342).       *)
(***************************************************************************)
Held == {ring[i] : i \in DOMAIN ring} \cup ({descr} \ {0})

Allocator == INSTANCE DmaDescriptor WITH inUse <- Held
AllocatorUsedRight == Allocator!Spec

(***************************************************************************)
(* The host is answered what it asked for and not what DmaBuf held before,  *)
(* and a stall if and only if the request is not understood; endpoint 2     *)
(* has the packet size of the speed once configured (main.c:61-141).        *)
(***************************************************************************)
Expected(req) ==
    CASE req \in InRequest              -> req
      [] req \in {"start", "configure"} -> "ok"
      [] req = "other"                  -> "stall"

AnsweredAsAsked ==
    host = "idle" /\ setup # NoSetup =>
        /\ got = Expected(setup.req)
        /\ setup.req = "configure" => ep2 = IF speed = "SS" THEN 1024 ELSE 512

(***************************************************************************)
(* An acquisition is started with the parameters of its own CMD_START, not  *)
(* with what an earlier command left in DmaBuf or in its cache line         *)
(* (main.c:33-58).                                                          *)
(***************************************************************************)
StartedAsAsked == started.asked = started.used

(***************************************************************************)
(* Every control transfer of a patient host comes to its end: no SETUP is   *)
(* lost to the acknowledgement of another event, and the handler does not   *)
(* wait for a transfer that is over (usb.c:344-385, 432-500, dma.c:110).    *)
(***************************************************************************)
SetupAnswered == host # "idle" ~> host = "idle"

===============================================================================
