------------------------------ MODULE DmaDriver ------------------------------
(***************************************************************************)
(* The transfers of bsp/dma.c.  A caller fills the four words of a          *)
(* descriptor through the data cache, programs a socket, and for a simple   *)
(* transfer waits for its event; the socket reads the words in memory, by   *)
(* the layout of rdb/dma.h.  The sockets of endpoint 0 are as the boot      *)
(* loader, which used them, left them.                                      *)
(*                                                                          *)
(* A word is the set of the positions of its bits; the registers SCK_STATUS *)
(* and SCK_INTR are the sets of their flags.                                *)
(***************************************************************************)
EXTENDS Naturals, Sequences

CONSTANTS
    Buffers,                \* buffers, by name
    Lengths                 \* lengths of simple transfers, from 1 to 512 bytes

DMA_BUFFER_SIZE == 6144                             \* a buffer of the ring

BitsOf(v, n) == {i \in 0 .. (n - 1) : (v \div 2^i) % 2 = 1}
Weight(bits, i) == IF i \in bits THEN 2^i ELSE 0
ValueOf(bits) ==                                    \* of at most 16 bits
    Weight(bits, 0) + Weight(bits, 1) + Weight(bits, 2) + Weight(bits, 3)
    + Weight(bits, 4) + Weight(bits, 5) + Weight(bits, 6) + Weight(bits, 7)
    + Weight(bits, 8) + Weight(bits, 9) + Weight(bits, 10) + Weight(bits, 11)
    + Weight(bits, 12) + Weight(bits, 13) + Weight(bits, 14) + Weight(bits, 15)
Shift(bits, n) == {b \in {i + n : i \in bits} : b < 32}
ShiftDown(bits, n) == {i - n : i \in {b \in bits : b >= n}}

\* Addresses of sockets: the macros FX3_..._DMA_SCK of bsp/dma.h.
SocketAt(base, n) == Shift(BitsOf(base, 16), 16) \cup {15} \cup Shift(BitsOf(n, 8), 7)
Address(s) ==
    CASE s = "PIB0"   -> SocketAt(57345, 0)     \* 0xE001
      [] s = "UIB0"   -> SocketAt(57347, 0)     \* 0xE003
      [] s = "UIB2"   -> SocketAt(57347, 2)
      [] s = "UIBIN0" -> SocketAt(57348, 0)     \* 0xE004

Socket == {"PIB0", "UIB0", "UIBIN0"}    \* those that are started here

FX3_DMA_SOCKET_IP(s) == ShiftDown(Address(s), 16) \cap 0 .. 5

FX3_DMA_SOCKET_SCK(s) == ShiftDown(Address(s), 7) \cap 0 .. 7

-----------------------------------------------------------------------------
\* The words a caller writes.

Cpu == 0 .. 5               \* the IP 0x3F

\* Mutant: 16 is added.
RoundedOneMore(length) == BitsOf(length + 16, 17) \cap 4 .. 15

Rounded(length) == BitsOf(length + 15, 17) \cap 4 .. 15

BufferOf(size) == IF size \cap 4 .. 15 = {} THEN size \cup {4} ELSE size
Interrupts == {31, 30, 15, 14}
Ends(prodIp, prodSck, consIp, consSck) ==
    Interrupts \cup Shift(prodIp, 24) \cup Shift(prodSck, 16) \cup Shift(consIp, 8) \cup consSck

Words(buffer, sync, size, wrchain, rdchain) ==
    [buffer |-> buffer, sync |-> sync, size |-> BufferOf(size),
     chain |-> Shift(BitsOf(wrchain, 16), 16) \cup BitsOf(rdchain, 16)]

FillRead(s, buffer, length) ==
    Words(buffer, Ends(Cpu, {}, FX3_DMA_SOCKET_IP(s), FX3_DMA_SOCKET_SCK(s)),
          Shift(BitsOf(length, 16), 16) \cup Rounded(length) \cup {3}, 65535, 65535)

FillWrite(s, buffer, length) ==
    Words(buffer, Ends(FX3_DMA_SOCKET_IP(s), FX3_DMA_SOCKET_SCK(s), Cpu, {}),
          Rounded(length), 65535, 65535)

\* A descriptor of the ring, from socket 0 or 1 of the PIB to endpoint 2.
FillThrough(prod, cons, buffer, length, wrchain, rdchain) ==
    Words(buffer, Ends(FX3_DMA_SOCKET_IP(prod), FX3_DMA_SOCKET_SCK(prod),
                       FX3_DMA_SOCKET_IP(cons), FX3_DMA_SOCKET_SCK(cons)),
          Rounded(length), wrchain, rdchain)

\* The fields a socket reads; count is 0 unless the buffer is occupied.  own and
\* left: is it the descriptor of the call in progress, and is there work left.
Part(word, low, n) == {b - low : b \in word \cap low .. (low + n - 1)}
Decoded(own, w) ==
    [own |-> own, left |-> TRUE, buffer |-> w.buffer,
     prod |-> <<Part(w.sync, 24, 6), Part(w.sync, 16, 8)>>,
     cons |-> <<Part(w.sync, 8, 6), Part(w.sync, 0, 8)>>,
     room |-> 16 * ValueOf(Part(w.size, 4, 12)),
     count |-> IF 3 \in w.size THEN ValueOf(Part(w.size, 16, 16)) ELSE 0,
     next |-> <<ValueOf(Part(w.chain, 16, 16)), ValueOf(Part(w.chain, 0, 16))>>]

-----------------------------------------------------------------------------
VARIABLES
    now,                    \* the call in progress, or the last one
    todo,                   \* the accesses it has left
    outcome,                \* how its wait ended: "none", "event" or "error"
    cache, dirty,           \* the descriptor as the processor sees it
    memory,                 \* and as the sockets see it
    STATUS, INTR, SIZE,     \* the registers of the sockets
    job,                    \* the descriptor that an enabled socket works on
    moved                   \* the bytes that this call moved, NotYet or Failed

callVars == <<now, todo, outcome>>
wordVars == <<cache, dirty, memory>>
vars == <<callVars, wordVars, STATUS, INTR, SIZE, job, moved>>

NotYet == 6145
Failed == 6146
NoCall == [op |-> "none", socket |-> "PIB0", buffer |-> "none", length |-> 0]
Blank == Words("none", {}, {}, 0, 0)
OldJob == Decoded(FALSE, Blank)

Events == {"CONSUME_EVENT", "PRODUCE_EVENT"}

\* FX3_SCK_STATUS_DEFAULT, and the STATUS of a simple transfer and of a producer.
Default == {"SUSP_TRANS", "EN_CONS_EVENTS", "EN_PROD_EVENTS", "TRUNCATE"}

\* Mutant: the consume events are left out.
SimpleUnconsumed == {"SUSP_TRANS", "EN_PROD_EVENTS", "TRUNCATE", "UNIT"}

Simple == {"SUSP_TRANS", "EN_CONS_EVENTS", "EN_PROD_EVENTS", "TRUNCATE", "UNIT"}

Producer == {"SUSP_TRANS", "EN_PROD_EVENTS", "TRUNCATE"}

\* Mutant: the events of the transfer before are cleared while it may run.
transferStartClearsFirst(status, size) ==
    << <<"clearIntr">>, <<"status", Default>>, <<"awaitDisabled">>,
       <<"status", status>>, <<"size", size>>, <<"go">> >>

\* Fx3DmaTransferStart
transferStart(status, size) ==
    << <<"status", Default>>, <<"awaitDisabled">>, <<"status", status>>,
       <<"clearIntr">>, <<"size", size>>, <<"go">> >>

\* Mutant: the socket is not waited for.
abortUnawaited == << <<"clearGo">>, <<"clearIntr">> >>

\* Fx3DmaAbortSocket
abortSocket == << <<"clearGo">>, <<"clearIntr">>, <<"awaitDisabled">> >>

\* Fx3DmaFillDescriptor
fill(words) == << <<"fill", words>>, <<"clean">> >>

\* The boot loader left any flag raised, and sockets of endpoint 0 enabled.
Init ==
    /\ now = NoCall /\ todo = <<>> /\ outcome = "none"
    /\ cache = Blank /\ dirty = FALSE /\ memory = Blank
    /\ \E on \in SUBSET {"UIB0", "UIBIN0"} :
          STATUS = [s \in Socket |-> IF s \in on THEN Default \cup {"GO_ENABLE", "ENABLED"}
                                     ELSE {}]
    /\ INTR = [s \in Socket |-> Events \cup {"ERROR"}]
    /\ SIZE = [s \in Socket |-> 0]
    /\ job = [s \in Socket |-> OldJob]
    /\ moved = NotYet

-----------------------------------------------------------------------------
(***************************************************************************)
(* The calls, one at a time; how a stop by main meets a start by the        *)
(* handler is in AcquisitionControl.                                        *)
(***************************************************************************)

Call(op, s, buffer, length, ops) ==
    /\ todo = <<>>
    /\ now' = [op |-> op, socket |-> s, buffer |-> buffer, length |-> length]
    /\ todo' = ops
    /\ outcome' = "none" /\ moved' = NotYet
    /\ job' = [old \in Socket |-> OldJob]
    /\ UNCHANGED <<wordVars, STATUS, INTR, SIZE>>

SimpleTransferRead(buffer, length) ==
    Call("read", "UIB0", buffer, length, fill(FillRead("UIB0", buffer, length))
         \o transferStart(Simple, 1) \o << <<"wait", "CONSUME_EVENT">> >>)

SimpleTransferWrite(buffer, length) ==
    Call("write", "UIBIN0", buffer, length, fill(FillWrite("UIBIN0", buffer, length))
         \o transferStart(Simple, 1) \o << <<"wait", "PRODUCE_EVENT">> >>)

\* start_acquisition, for descriptor 1 and the first socket.
StartProducer(buffer) ==
    Call("produce", "PIB0", buffer, DMA_BUFFER_SIZE,
         abortSocket \o fill(FillThrough("PIB0", "UIB2", buffer, DMA_BUFFER_SIZE, 3, 2))
         \o transferStart(Producer, 0))

AbortSocket == Call("abort", "PIB0", "none", 0, abortSocket)

-----------------------------------------------------------------------------
(***************************************************************************)
(* One access of the call.                                                  *)
(***************************************************************************)

Op == Head(todo)
Is(name) == todo # <<>> /\ Op[1] = name /\ todo' = Tail(todo) /\ now' = now

Fill ==
    /\ Is("fill")
    /\ cache' = Op[2] /\ dirty' = TRUE
    /\ UNCHANGED <<outcome, memory, STATUS, INTR, SIZE, job, moved>>

\* Mutant: the line is invalidated, not cleaned.
CleanInvalidates ==
    /\ Is("clean")
    /\ dirty' = FALSE /\ cache' = memory
    /\ UNCHANGED <<outcome, memory, STATUS, INTR, SIZE, job, moved>>

Clean ==
    /\ Is("clean")
    /\ dirty' = FALSE /\ memory' = IF dirty THEN cache ELSE memory
    /\ UNCHANGED <<outcome, cache, STATUS, INTR, SIZE, job, moved>>

\* ENABLED cannot be written.
SetStatus(flags) ==
    /\ STATUS' = [STATUS EXCEPT ![now.socket] = flags \cup (@ \cap {"ENABLED"})]
    /\ UNCHANGED <<outcome, wordVars, INTR, SIZE, job, moved>>

WriteStatus ==
    \/ Is("status") /\ SetStatus(Op[2])
    \/ Is("clearGo") /\ SetStatus(STATUS[now.socket] \ {"GO_ENABLE", "ENABLED"})
    \/ Is("go") /\ SetStatus((STATUS[now.socket] \ {"ENABLED"}) \cup {"GO_ENABLE"})

ClearIntr ==
    /\ Is("clearIntr")
    /\ INTR' = [INTR EXCEPT ![now.socket] = {}]
    /\ UNCHANGED <<outcome, wordVars, STATUS, SIZE, job, moved>>

WriteSize ==
    /\ Is("size")
    /\ SIZE' = [SIZE EXCEPT ![now.socket] = Op[2]]
    /\ UNCHANGED <<outcome, wordVars, STATUS, INTR, job, moved>>

AwaitDisabled ==
    /\ Is("awaitDisabled")
    /\ "ENABLED" \notin STATUS[now.socket]
    /\ UNCHANGED <<outcome, wordVars, STATUS, INTR, SIZE, job, moved>>

\* Fx3DmaWaitForEvent
WaitForEvent ==
    /\ Is("wait")
    /\ \/ "ERROR" \in INTR[now.socket] /\ outcome' = "error"
       \/ "ERROR" \notin INTR[now.socket] /\ Op[2] \in INTR[now.socket] /\ outcome' = "event"
    /\ UNCHANGED <<wordVars, STATUS, INTR, SIZE, job, moved>>

Access == Fill \/ Clean \/ WriteStatus \/ ClearIntr \/ WriteSize \/ AwaitDisabled \/ WaitForEvent

-----------------------------------------------------------------------------
(***************************************************************************)
(* The hardware.  A socket follows GO_ENABLE and loads the descriptor when  *)
(* it is enabled; a job that the boot loader or an earlier call left may    *)
(* raise anything.                                                          *)
(***************************************************************************)

Started(s) == s = now.socket /\ \A i \in DOMAIN todo : todo[i][1] \notin {"clearGo", "go"}

Enable(s) ==
    /\ "GO_ENABLE" \in STATUS[s] /\ "ENABLED" \notin STATUS[s]
    /\ STATUS' = [STATUS EXCEPT ![s] = @ \cup {"ENABLED"}]
    /\ job' = [job EXCEPT ![s] = Decoded(Started(s), memory)]
    /\ UNCHANGED <<callVars, wordVars, INTR, SIZE, moved>>

Disable(s) ==
    /\ "GO_ENABLE" \notin STATUS[s] /\ "ENABLED" \in STATUS[s]
    /\ STATUS' = [STATUS EXCEPT ![s] = @ \ {"ENABLED"}]
    /\ job' = [job EXCEPT ![s] = OldJob]
    /\ UNCHANGED <<callVars, wordVars, INTR, SIZE, moved>>

Raise(s, event) == INTR' = [INTR EXCEPT ![s] = @ \cup {event}]
Working(s) == "ENABLED" \in STATUS[s] /\ job[s].own /\ job[s].left
UnitDone(s) == job' = [job EXCEPT ![s].left = SIZE[s] = 0]

\* The other side takes what the buffer holds, or sends what it was asked for.
Move(s) ==
    /\ Working(s)
    /\ \/ /\ now.op = "read" /\ job[s].count > 0
          /\ "EN_CONS_EVENTS" \in STATUS[s] /\ Raise(s, "CONSUME_EVENT")
          /\ moved' = IF moved = NotYet THEN job[s].count ELSE moved + job[s].count
       \/ /\ now.op = "write" /\ job[s].room >= now.length
          /\ "EN_PROD_EVENTS" \in STATUS[s] /\ Raise(s, "PRODUCE_EVENT")
          /\ moved' = IF moved = NotYet THEN now.length ELSE moved + now.length
    /\ s = now.socket
    /\ UnitDone(s)
    /\ UNCHANGED <<callVars, wordVars, STATUS, SIZE>>

MoveInRing ==
    /\ Working("PIB0") /\ "PRODUCE_EVENT" \notin INTR["PIB0"]
    /\ Raise("PIB0", "PRODUCE_EVENT") /\ UnitDone("PIB0")
    /\ UNCHANGED <<callVars, wordVars, STATUS, SIZE, moved>>

Fail(s) ==
    /\ Working(s) /\ s = now.socket
    /\ Raise(s, "ERROR")
    /\ job' = [job EXCEPT ![s].left = FALSE]
    /\ moved' = Failed
    /\ UNCHANGED <<callVars, wordVars, STATUS, SIZE>>

MoveOld(s) ==
    /\ "ENABLED" \in STATUS[s] /\ ~job[s].own
    /\ \E raised \in {Events, {"ERROR"}} : ~(raised \subseteq INTR[s]) /\ INTR' = [INTR EXCEPT ![s] = @ \cup raised]
    /\ UNCHANGED <<callVars, wordVars, STATUS, SIZE, job, moved>>

\* The cache may write its line back whenever it likes.
WriteBack ==
    /\ dirty
    /\ memory' = cache /\ dirty' = FALSE
    /\ UNCHANGED <<callVars, cache, STATUS, INTR, SIZE, job, moved>>

Next ==
    \/ \E buffer \in Buffers : \/ \E length \in Lengths : \/ SimpleTransferRead(buffer, length)
                                                          \/ SimpleTransferWrite(buffer, length)
                               \/ StartProducer(buffer)
    \/ AbortSocket
    \/ Access
    \/ \E s \in Socket : Enable(s) \/ Disable(s) \/ Move(s) \/ Fail(s) \/ MoveOld(s)
    \/ MoveInRing
    \/ WriteBack

Spec == Init /\ [][Next]_vars

(***************************************************************************)
(* The processor runs on, a socket follows its GO_ENABLE, and the host      *)
(* takes and sends the data of a stage it began.                            *)
(***************************************************************************)
FairSpec ==
    /\ Spec
    /\ WF_vars(Access)
    /\ \A s \in Socket : WF_vars(Enable(s)) /\ WF_vars(Disable(s)) /\ WF_vars(Move(s))

-----------------------------------------------------------------------------
\* The ranges; no descriptor has room for more than a buffer of the ring.
TypeOK ==
    /\ outcome \in {"none", "event", "error"} /\ dirty \in BOOLEAN
    /\ moved \in 0 .. Failed
    /\ \A s \in Socket : /\ STATUS[s] \subseteq Default \cup {"UNIT", "GO_ENABLE", "ENABLED"}
                         /\ INTR[s] \subseteq Events \cup {"ERROR"}
                         /\ job[s].own => job[s].room \in 16 .. DMA_BUFFER_SIZE

\* The fields of the sockets by rdb/dma.h, whatever the macros compute.
Ip(s) == IF s = "PIB0" THEN {0} ELSE IF s = "UIB0" THEN {0, 1} ELSE {2}

(***************************************************************************)
(* What a socket reads of the descriptor is what its caller asked for: the  *)
(* buffer, room for the length and no more than its last 16 bytes, the      *)
(* bytes to send, both ends and the chain (dma.c:71-172).                   *)
(***************************************************************************)
LoadsAsAsked ==
    \A s \in Socket : Working(s) /\ s = now.socket /\ now.op # "abort" =>
        /\ job[s].buffer = now.buffer
        /\ job[s].room \in now.length .. now.length + 15
        /\ <<Ip(s), {}>> = (IF now.op = "read" THEN job[s].cons ELSE job[s].prod)
        /\ now.op = "read" => job[s].count = now.length /\ job[s].prod = <<Cpu, {}>>
        /\ now.op = "write" => job[s].count = 0 /\ job[s].cons = <<Cpu, {}>>
        /\ now.op = "produce" => /\ job[s].cons = <<{0, 1}, {1}>>
                                 /\ job[s].count = 0 /\ job[s].next = <<3, 2>>

(***************************************************************************)
(* A transfer ends with the event of its own data and with the error of its *)
(* own failure, whatever the socket was doing and had raised before         *)
(* (dma.c:90-123).                                                          *)
(***************************************************************************)
EndsWithItsOwn ==
    todo = <<>> => /\ outcome = "event" => moved = now.length
                   /\ outcome = "error" => moved = Failed

(***************************************************************************)
(* A socket that was aborted has stopped when the call returns: nothing     *)
(* writes to the ring that is filled anew (dma.c:61-69).                    *)
(***************************************************************************)
StopsWhenAborted == now.op = "abort" /\ todo = <<>> => "ENABLED" \notin STATUS["PIB0"]

(***************************************************************************)
(* A call returns, with a host that carries its data stage through: dma.c   *)
(* waits without bound for ENABLED to fall and for its event.               *)
(***************************************************************************)
CallsReturn == []<>(todo = <<>>)

===============================================================================
