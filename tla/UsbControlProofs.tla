---------------------------- MODULE UsbControlProofs ----------------------------
(***************************************************************************)
(* Proofs about the control endpoint, for every number of buffers and       *)
(* descriptors and all parameters of CMD_START.                             *)
(***************************************************************************)
EXTENDS UsbControl, TLAPS, SequenceTheorems

-----------------------------------------------------------------------------
(***************************************************************************)
(* The inductive invariant.  It speaks of the step that comes next, of main *)
(* and of the handler.                                                      *)
(***************************************************************************)
Rest(ops, n) == SubSeq(ops, n + 1, Len(ops))

Op == IF todo = <<>> THEN "end" ELSE Head(todo)[1]

\* The words a descriptor may be chained with (DmaDescriptor).
ChainWord == 0 .. (NumDescriptors - 1) \cup {65535}

Types ==
    /\ TypeOK
    /\ connected \in BOOLEAN /\ busy \in BOOLEAN /\ stalled \in BOOLEAN
    /\ line \in [valid : BOOLEAN, dirty : BOOLEAN, val : Content]
    /\ dscrChain \in [1 .. (NumDescriptors - 1) -> ChainWord]
    /\ speed \in {"HS", "SS"}

\* The packet size of endpoint 2 at the speed of the link.
PacketSize == IF speed = "HS" THEN 512 ELSE 1024

\* Main has done n of its steps, and taken the descriptors in order; no other
\* uses the allocator and nothing happens on the bus until it connects.
MainAt(n) ==
    /\ mainTodo = Rest(mainOps, n)
    /\ connected <=> n = 2 * NumBuffers + 1
    /\ ring = [i \in 1 .. (n \div 2) |-> i]
    /\ n < 2 * NumBuffers /\ n % 2 = 1 =>
           picked = [list |-> FALSE, d |-> firstUnallocated]

MainInv ==
    /\ \E n \in 0 .. (2 * NumBuffers + 1) : MainAt(n)
    /\ ~connected =>
           /\ firstUnallocated = Len(ring) + 1 /\ freeListHead = 0
           /\ todo = <<>> /\ events = {} /\ setup = NoSetup

\* Endpoint 0 has one descriptor: not yet taken, in use, or on the free list.
PoolInv ==
    connected =>
        \/ firstUnallocated = NumBuffers + 1 /\ freeListHead = 0 /\ descr = 0
        \/ firstUnallocated = NumBuffers + 2 /\ freeListHead = 0 /\ descr = NumBuffers + 1
        \/ /\ firstUnallocated = NumBuffers + 2 /\ freeListHead = NumBuffers + 1 /\ descr = 0
           /\ dscrChain[NumBuffers + 1] = 0

\* What the handler has left to do: of an interrupt, or of a request.
Decoding == todo \in { <<>>, << <<"ack">> >>, << <<"ack again">>, <<"reset">> >>, << <<"reset">> >> }

Answering ==
    /\ now \in Setup
    /\ \E n \in 0 .. Len(SetupData(now.req)) : todo = Rest(SetupData(now.req), n)

\* The SETUP that is answered is still the one the host waits for.
Current == now = setup /\ "setup" \notin events

\* The host waits for the data stage, and nothing has answered it.
DataStage == Current /\ host = "data" /\ ~busy /\ ~stalled

HandlerInv ==
    /\ Decoding \/ Answering
    /\ Op # "ack" => seen = {}
    /\ seen \subseteq events
    /\ Op \in {"ack again", "reset"} => busy /\ "setup" \notin events
    /\ Op \in {"write", "clean", "enable", "unstall", "stall"} =>
           busy /\ Current /\ done = {}
    /\ Op = "unstall" /\ now.req = "configure" => ep2 = PacketSize
    /\ Op \in {"allocate", "arm"} => DataStage /\ done = {}
    /\ Op = "wait" => \/ DataStage /\ armed = {Socket} /\ done = {}
                      \/ armed = {} /\ done = {Socket}
    /\ Op # "wait" => armed = {}
    /\ descr # 0 <=> Op \in {"arm", "wait", "free"}

\* DmaBuf holds the answer from its cleaning to the data stage, and the
\* parameters from the data stage until they are read; its line is dirty only
\* between the writing and the cleaning, and gone when the parameters are read.
BufferInv ==
    /\ line.dirty => Op = "clean" /\ line.valid /\ line.val = now.req
    /\ Op = "clean" => line.dirty \/ mem = now.req
    /\ /\ now.req \in {"version", "revid"}
       /\ Op \in {"unstall", "allocate", "arm"} \/ (Op = "wait" /\ armed # {})
       => mem = now.req
    /\ /\ now.req = "start"
       /\ Op \in {"free", "invalidate", "read"} \/ (Op = "wait" /\ done # {})
       => mem = now.param
    /\ Op = "read" => line = NoLine
    /\ StartedAsAsked

HostInv ==
    /\ host # "idle" => setup \in Setup
    /\ busy => host # "idle" /\ got = None
    /\ "setup" \in events => busy
    /\ host = "data" => got = None /\ setup.req \in InRequest \cup {"start"}
    /\ host = "status" =>
           \/ setup.req \in {"configure", "other"} /\ got = None
           \/ setup.req \in InRequest /\ got = setup.req /\ ~busy /\ ~stalled
           \/ setup.req = "start" /\ got = None /\ ~busy /\ ~stalled
    /\ ~busy /\ host # "idle" => (stalled <=> setup.req = "other")
    /\ ~busy /\ setup.req = "configure" => ep2 = PacketSize
    /\ host = "idle" /\ setup # NoSetup => got = Expected(setup.req)
    /\ ep2 \in {0, PacketSize}

IInv == Types /\ MainInv /\ PoolInv /\ HandlerInv /\ BufferInv /\ HostInv

-----------------------------------------------------------------------------
(***************************************************************************)
(* The lists of steps.                                                      *)
(***************************************************************************)
Request == InRequest \cup {"configure", "other", "start"}

RequestOp == {"write", "clean", "enable", "unstall", "stall", "allocate", "arm", "wait",
              "free", "invalidate", "read", "fill"}

Step == {<<o>> : o \in RequestOp} \cup {<<"fill", i>> : i \in 1 .. NumBuffers}

\* The first step of a request, and the step that follows another.
Begins(req, o) ==
    \/ req \in {"version", "revid"} /\ o = "write"
    \/ req \in {"descriptor", "start"} /\ o = "unstall"
    \/ req = "configure" /\ o = "enable"
    \/ req = "other" /\ o = "stall"

Follows(req, o, p) ==
    \/ req \in {"version", "revid"} /\ <<o, p>> \in {<<"write", "clean">>, <<"clean", "unstall">>}
    \/ req = "configure" /\ <<o, p>> \in {<<"enable", "unstall">>, <<"unstall", "end">>}
    \/ req = "other" /\ <<o, p>> = <<"stall", "end">>
    \/ req \in InRequest \cup {"start"} /\ <<o, p>> \in {<<"unstall", "allocate">>,
           <<"allocate", "arm">>, <<"arm", "wait">>, <<"wait", "free">>}
    \/ req \in InRequest /\ <<o, p>> = <<"free", "end">>
    \/ req = "start" /\ <<o, p>> \in {<<"free", "invalidate">>, <<"invalidate", "read">>}
    \/ req = "start" /\ o \in {"read", "fill"} /\ p \in {"fill", "end"}

\* The name of the n-th step of a list, "end" after the last.
OpAt(ops, n) == IF n <= Len(ops) THEN ops[n][1] ELSE "end"

Program(req, ops) ==
    /\ ops \in Seq(Step) /\ Len(ops) >= 1
    /\ Begins(req, ops[1][1])
    /\ \A n \in 1 .. Len(ops) :
           /\ Follows(req, ops[n][1], OpAt(ops, n + 1))
           /\ ops[n][1] = "fill" => ops[n][2] \in 1 .. NumBuffers
           /\ ops[n][1] \in RequestOp

LEMMA DataOps ==
    /\ dmaDataOps \in Seq(Step) /\ Len(dmaDataOps) = 4
    /\ dmaDataOps[1] = <<"allocate">> /\ dmaDataOps[2] = <<"arm">>
    /\ dmaDataOps[3] = <<"wait">> /\ dmaDataOps[4] = <<"free">>
<1>1. {<<"allocate">>, <<"arm">>, <<"wait">>, <<"free">>} \subseteq Step
      BY DEF Step, RequestOp
<1> QED BY <1>1 DEF dmaDataOps

LEMMA RingOps ==
    /\ ringOps \in Seq(Step) /\ Len(ringOps) = NumBuffers
    /\ \A i \in 1 .. NumBuffers : ringOps[i] = <<"fill", i>>
<1>1. \A i \in 1 .. NumBuffers : <<"fill", i>> \in Step
      BY DEF Step
<1>2. NumBuffers \in Nat
      BY EnoughDescriptors
<1> QED BY <1>1, <1>2 DEF ringOps

LEMMA GetProgram ==
    ASSUME NEW req \in {"version", "revid"}
    PROVE  Program(req, commandGet)
<1>1. {<<"write">>, <<"clean">>, <<"unstall">>} \subseteq Step
      BY DEF Step, RequestOp
<1>2. << <<"write">>, <<"clean">>, <<"unstall">> >> \in Seq(Step)
      BY <1>1
<1>3. commandGet \in Seq(Step)
      BY <1>2, DataOps, ConcatProperties DEF commandGet
<1>5. Len(commandGet) = 7
      BY DEF commandGet, dmaDataOps
<1>6. /\ commandGet[1] = <<"write">> /\ commandGet[2] = <<"clean">>
      /\ commandGet[3] = <<"unstall">> /\ commandGet[4] = <<"allocate">>
      /\ commandGet[5] = <<"arm">> /\ commandGet[6] = <<"wait">> /\ commandGet[7] = <<"free">>
      BY DEF commandGet, dmaDataOps
<1> QED BY <1>3, <1>5, <1>6 DEF Program, Begins, Follows, OpAt, RequestOp, InRequest

\* The steps of CMD_START before the descriptors of the ring.
startOps == << <<"unstall">> >> \o dmaDataOps \o << <<"invalidate">>, <<"read">> >>

LEMMA StartProgram == Program("start", commandStart)
<1>1. {<<"unstall">>, <<"invalidate">>, <<"read">>} \subseteq Step
      BY DEF Step, RequestOp
<1>2. << <<"unstall">> >> \in Seq(Step) /\ << <<"invalidate">>, <<"read">> >> \in Seq(Step)
      BY <1>1
<1>3. << <<"unstall">> >> \o dmaDataOps \in Seq(Step)
      BY <1>2, DataOps, ConcatProperties
<1>4. startOps \in Seq(Step)
      BY <1>2, <1>3, ConcatProperties DEF startOps
<1>5. Len(startOps) = 7
      BY DEF startOps, dmaDataOps
<1>6. /\ startOps[1] = <<"unstall">> /\ startOps[2] = <<"allocate">>
      /\ startOps[3] = <<"arm">> /\ startOps[4] = <<"wait">> /\ startOps[5] = <<"free">>
      /\ startOps[6] = <<"invalidate">> /\ startOps[7] = <<"read">>
      BY DEF startOps, dmaDataOps
<1> DEFINE ops == startOps \o ringOps
<1>7. commandStart = ops
      BY DEF commandStart, startOps
<1>8. /\ ops \in Seq(Step) /\ Len(ops) = 7 + NumBuffers
      /\ \A i \in 1 .. (7 + NumBuffers) :
             ops[i] = IF i <= 7 THEN startOps[i] ELSE ringOps[i - 7]
  <2> HIDE DEF ops
  <2>1. startOps \in Seq(Step) /\ ringOps \in Seq(Step)
        BY <1>4, RingOps
  <2>2. /\ ops \in Seq(Step) /\ Len(ops) = Len(startOps) + Len(ringOps)
        /\ \A i \in 1 .. Len(startOps) + Len(ringOps) :
               ops[i] = IF i <= Len(startOps) THEN startOps[i] ELSE ringOps[i - Len(startOps)]
        BY <2>1, ConcatProperties, Zenon DEF ops
  <2> QED BY <1>5, <2>2, RingOps
<1> HIDE DEF ops
<1>9. NumBuffers \in Nat
      BY EnoughDescriptors
<1>10. /\ ops[1] = <<"unstall">> /\ ops[2] = <<"allocate">> /\ ops[3] = <<"arm">>
       /\ ops[4] = <<"wait">> /\ ops[5] = <<"free">> /\ ops[6] = <<"invalidate">>
       /\ ops[7] = <<"read">>
       BY <1>6, <1>8, <1>9
<1>11. \A i \in 1 .. (7 + NumBuffers) : i >= 8 => ops[i] = <<"fill", i - 7>> /\ i - 7 \in 1 .. NumBuffers
       BY <1>8, <1>9, RingOps
<1>12. ASSUME NEW n \in 1 .. Len(ops)
       PROVE  /\ Follows("start", ops[n][1], OpAt(ops, n + 1))
              /\ ops[n][1] = "fill" => ops[n][2] \in 1 .. NumBuffers
              /\ ops[n][1] \in RequestOp
  <2>1. n \in 1 .. (7 + NumBuffers)
        BY <1>8
  <2>2. CASE n <= 6
    <3>1. n \in {1, 2, 3, 4, 5, 6}
          BY <2>2
    <3>2. OpAt(ops, n + 1) = ops[n + 1][1]
          BY <1>8, <1>9, <2>2 DEF OpAt
    <3> QED BY <1>10, <3>1, <3>2, SMTT(40) DEF Follows, InRequest, RequestOp
  <2>3. CASE n >= 7
    <3>1. OpAt(ops, n + 1) \in {"fill", "end"}
          BY <1>8, <1>9, <1>11, <2>3 DEF OpAt
    <3>2. ops[n][1] \in {"read", "fill"}
          BY <1>10, <1>11, <2>1, <2>3
    <3>3. ops[n][1] = "fill" => ops[n][2] \in 1 .. NumBuffers
          BY <1>10, <1>11, <2>1, <2>3
    <3> QED BY <3>1, <3>2, <3>3 DEF Follows, RequestOp
  <2> QED BY <2>1, <2>2, <2>3
<1>13. Begins("start", ops[1][1]) /\ Len(ops) >= 1
       BY <1>8, <1>9, <1>10 DEF Begins
<1>14. Program("start", ops)
       BY <1>8, <1>12, <1>13 DEF Program
<1> QED BY <1>7, <1>14

LEMMA DescriptorProgram == Program("descriptor", << <<"unstall">> >> \o dmaDataOps)
<1> DEFINE ops == << <<"unstall">> >> \o dmaDataOps
<1>1. <<"unstall">> \in Step
      BY DEF Step, RequestOp
<1>2. << <<"unstall">> >> \in Seq(Step)
      BY <1>1
<1>3. ops \in Seq(Step)
      BY <1>2, DataOps, ConcatProperties
<1>4. Len(ops) = 5
      BY DEF dmaDataOps
<1>5. /\ ops[1] = <<"unstall">> /\ ops[2] = <<"allocate">> /\ ops[3] = <<"arm">>
      /\ ops[4] = <<"wait">> /\ ops[5] = <<"free">>
      BY DEF dmaDataOps
<1> HIDE DEF ops
<1>6. Program("descriptor", ops)
      BY <1>3, <1>4, <1>5 DEF Program, Begins, Follows, OpAt, RequestOp, InRequest
<1> QED BY <1>6 DEF ops

LEMMA ShortPrograms ==
    /\ Program("configure", << <<"enable">>, <<"unstall">> >>)
    /\ Program("other", << <<"stall">> >>)
<1>1. {<<"enable">>, <<"unstall">>, <<"stall">>} \subseteq Step
      BY DEF Step, RequestOp
<1>2. << <<"enable">>, <<"unstall">> >> \in Seq(Step) /\ << <<"stall">> >> \in Seq(Step)
      BY <1>1
<1>3. Program("configure", << <<"enable">>, <<"unstall">> >>)
      BY <1>2 DEF Program, Begins, Follows, OpAt, RequestOp
<1>4. Program("other", << <<"stall">> >>)
      BY <1>2 DEF Program, Begins, Follows, OpAt, RequestOp
<1> QED BY <1>3, <1>4

LEMMA Programs ==
    ASSUME NEW req \in Request
    PROVE  Program(req, SetupData(req))
<1>1. CASE req \in {"version", "revid"}
  <2>1. SetupData(req) = commandGet
        BY <1>1 DEF SetupData
  <2> QED BY <1>1, <2>1, GetProgram
<1>2. CASE req = "start"
  <2>1. SetupData(req) = commandStart
        BY <1>2 DEF SetupData
  <2> QED BY <1>2, <2>1, StartProgram
<1>3. CASE req = "descriptor"
  <2>1. SetupData(req) = << <<"unstall">> >> \o dmaDataOps
        BY <1>3 DEF SetupData
  <2> QED BY <1>3, <2>1, DescriptorProgram
<1>4. CASE req = "configure"
  <2>1. SetupData(req) = << <<"enable">>, <<"unstall">> >>
        BY <1>4 DEF SetupData
  <2> QED BY <1>4, <2>1, ShortPrograms
<1>5. CASE req = "other"
  <2>1. SetupData(req) = << <<"stall">> >>
        BY <1>5 DEF SetupData
  <2> QED BY <1>5, <2>1, ShortPrograms
<1> QED BY <1>1, <1>2, <1>3, <1>4, <1>5 DEF Request, InRequest

LEMMA Pairs == ASSUME NEW a, NEW b PROVE Head(<<a, b>>) = a /\ Tail(<<a, b>>) = <<b>>
OBVIOUS

LEMMA Single == ASSUME NEW x, NEW o, x = <<o>> PROVE x[1] = o /\ Head(x) = o /\ x # <<>>
OBVIOUS

LEMMA RestOfSeq ==
    ASSUME NEW S, NEW ops \in Seq(S), NEW n \in 0 .. Len(ops), Rest(ops, n) # <<>>
    PROVE  /\ n + 1 \in 1 .. Len(ops)
           /\ Head(Rest(ops, n)) = ops[n + 1]
           /\ Tail(Rest(ops, n)) = Rest(ops, n + 1)
<1>1. Len(ops) \in Nat
      OBVIOUS
<1>2. ASSUME n = Len(ops) PROVE FALSE
      BY <1>1, <1>2, SubSeqEmpty DEF Rest
<1>3. n + 1 \in 1 .. Len(ops)
      BY <1>1, <1>2
<1> DEFINE k == n + 1
<1>4. k \in 1 .. Len(ops) /\ Len(ops) \in k .. Len(ops) /\ Rest(ops, n) = SubSeq(ops, k, Len(ops))
      BY <1>1, <1>3 DEF Rest
<1>5. Rest(ops, n + 1) = SubSeq(ops, k + 1, Len(ops))
      BY DEF Rest
<1> HIDE DEF k
<1>6. Head(Rest(ops, n)) = ops[k] /\ Tail(Rest(ops, n)) = SubSeq(ops, k + 1, Len(ops))
      BY <1>4, HeadTailOfSubSeq
<1> QED BY <1>3, <1>5, <1>6 DEF k

LEMMA WholeIsRest ==
    ASSUME NEW S, NEW ops \in Seq(S)
    PROVE  ops = Rest(ops, 0)
BY SubSeqFull DEF Rest

\* The name of the step that comes next, in a list that is still to do.
LEMMA OpOfRest ==
    ASSUME NEW S, NEW ops \in Seq(S), NEW n \in 0 .. Len(ops)
    PROVE  (IF Rest(ops, n) = <<>> THEN "end" ELSE Head(Rest(ops, n))[1]) = OpAt(ops, n + 1)
<1>1. Len(ops) \in Nat
      OBVIOUS
<1>2. CASE Rest(ops, n) = <<>>
  <2>1. Len(Rest(ops, n)) = IF n + 1 <= Len(ops) THEN Len(ops) - (n + 1) + 1 ELSE 0
    <3>1. \A i \in (n + 1) .. Len(ops) : ops[i] \in S
          BY <1>1
    <3>2. n + 1 \in Int /\ Len(ops) \in Int
          BY <1>1
    <3> QED BY <3>1, <3>2, SubSeqProperties, ZenonT(60) DEF Rest
  <2>2. ~(n + 1 <= Len(ops))
    <3>1. Len(Rest(ops, n)) = 0
          BY <1>2
    <3> QED BY <1>1, <2>1, <3>1
  <2> QED BY <1>2, <2>2 DEF OpAt
<1>3. CASE Rest(ops, n) # <<>>
      BY <1>1, <1>3, RestOfSeq DEF OpAt
<1> QED BY <1>2, <1>3

LEMMA Progress ==
    ASSUME Answering, todo # <<>>, todo' = Tail(todo), now' = now
    PROVE  /\ Answering'
           /\ Follows(now.req, Op, Op')
           /\ Op \in RequestOp
           /\ Op = "fill" => Head(todo)[2] \in 1 .. NumBuffers
<1> DEFINE ops == SetupData(now.req)
<1>1. PICK n \in 0 .. Len(ops) : todo = Rest(ops, n)
      BY DEF Answering
<1>2. now.req \in Request
      BY DEF Answering, Setup, Request
<1>3. Program(now.req, ops)
      BY <1>2, Programs
<1>4. ops \in Seq(Step)
      BY <1>3 DEF Program
<1> HIDE DEF ops
<1>5. /\ n + 1 \in 1 .. Len(ops)
      /\ Head(todo) = ops[n + 1]
      /\ todo' = Rest(ops, n + 1)
      BY <1>1, <1>4, RestOfSeq
<1> DEFINE k == n + 1
<1>6. k \in 1 .. Len(ops) /\ Head(todo) = ops[k] /\ todo' = Rest(ops, k)
      BY <1>5
<1> HIDE DEF k
<1>7. Op = ops[k][1]
      BY <1>6 DEF Op
<1>8. k \in 0 .. Len(ops)
      BY <1>6
<1>9. Op' = OpAt(ops, k + 1)
      BY <1>4, <1>6, <1>8, OpOfRest DEF Op
<1>10. Answering'
  <2>1. todo' = Rest(SetupData(now'.req), k) /\ k \in 0 .. Len(SetupData(now'.req))
        BY <1>6, <1>8 DEF ops
  <2> QED BY <2>1 DEF Answering
<1> QED BY <1>3, <1>6, <1>7, <1>9, <1>10 DEF Program

LEMMA Starting ==
    ASSUME setup \in Setup, now' = setup, todo' = SetupData(setup.req)
    PROVE  Answering' /\ Begins(setup.req, Op')
<1> DEFINE ops == SetupData(setup.req)
<1>1. setup.req \in Request
      BY DEF Setup, Request
<1>2. Program(setup.req, ops)
      BY <1>1, Programs
<1>3. ops \in Seq(Step) /\ Len(ops) >= 1
      BY <1>2 DEF Program
<1> HIDE DEF ops
<1>4. todo' = Rest(ops, 0) /\ 0 \in 0 .. Len(ops)
      BY <1>3, WholeIsRest DEF ops
<1>5. Op' = OpAt(ops, 0 + 1)
      BY <1>3, <1>4, OpOfRest DEF Op
<1>6. OpAt(ops, 0 + 1) = ops[1][1]
      BY <1>3 DEF OpAt
<1>7. Answering'
  <2>1. todo' = Rest(SetupData(now'.req), 0) /\ 0 \in 0 .. Len(SetupData(now'.req))
        BY <1>4 DEF ops
  <2> QED BY <2>1 DEF Answering
<1> QED BY <1>2, <1>5, <1>6, <1>7 DEF Program

-----------------------------------------------------------------------------
(***************************************************************************)
(* The hardware and the host.  None of their steps is seen by main, by the  *)
(* allocator or by the list of the handler.                                 *)
(***************************************************************************)
LEMMA Unseen ==
    ASSUME IInv, UNCHANGED <<mainVars, poolVars, descr, speed, todo, now>>,
           ~connected => UNCHANGED <<events, setup>>
    PROVE  /\ MainInv' /\ PoolInv'
           /\ Op' = Op /\ Socket' = Socket /\ PacketSize' = PacketSize
           /\ (Decoding \/ Answering)'
<1> USE DEF mainVars, poolVars
<1>1. MainInv'
  <2>1. PICK n \in 0 .. (2 * NumBuffers + 1) : MainAt(n)
        BY DEF IInv, MainInv
  <2>2. MainAt(n)'
        BY <2>1 DEF MainAt
  <2> QED BY <2>2 DEF IInv, MainInv
<1>2. PoolInv'
      BY DEF IInv, PoolInv
<1>3. Op' = Op /\ Socket' = Socket /\ PacketSize' = PacketSize
      BY DEF Op, Socket, PacketSize
<1>4. (Decoding \/ Answering)'
  <2>1. CASE Decoding
        BY <2>1 DEF Decoding
  <2>2. CASE Answering
        BY <2>2 DEF Answering
  <2> QED BY <2>1, <2>2 DEF IInv, HandlerInv
<1> QED BY <1>1, <1>2, <1>3, <1>4

LEMMA EvictKeeps == IInv /\ Evict => IInv'
<1> SUFFICES ASSUME IInv, Evict PROVE IInv'
    OBVIOUS
<1>1. UNCHANGED <<mainVars, poolVars, descr, speed, todo, now, events, setup>>
      BY DEF Evict, irqVars, ep0Vars
<1>2. /\ MainInv' /\ PoolInv'
      /\ Op' = Op /\ Socket' = Socket /\ PacketSize' = PacketSize
      /\ (Decoding \/ Answering)'
      BY <1>1, Unseen
<1>3. Types'
      BY DEF IInv, Types, TypeOK, Evict, mainVars, poolVars, irqVars, ep0Vars, sockVars, effects,
             hostVars, NoLine, Content
<1>4. HandlerInv'
      BY <1>2 DEF IInv, HandlerInv, Evict, Current, DataStage, irqVars, ep0Vars, sockVars,
                  effects, hostVars
<1>5. BufferInv'
      BY <1>2 DEF IInv, BufferInv, Evict, StartedAsAsked, irqVars, ep0Vars, sockVars,
                  effects, hostVars, NoLine
<1>6. HostInv'
      BY <1>2 DEF IInv, HostInv, Evict, irqVars, ep0Vars, effects, hostVars
<1> QED BY <1>2, <1>3, <1>4, <1>5, <1>6 DEF IInv

LEMMA BusEventKeeps == IInv /\ BusEvent => IInv'
<1> SUFFICES ASSUME IInv, BusEvent PROVE IInv'
    OBVIOUS
<1>1. UNCHANGED <<mainVars, poolVars, descr, speed, todo, now>> /\ connected
      BY DEF BusEvent
<1>2. /\ MainInv' /\ PoolInv'
      /\ Op' = Op /\ Socket' = Socket /\ PacketSize' = PacketSize
      /\ (Decoding \/ Answering)'
      BY <1>1, Unseen
<1>3. Types'
      BY DEF IInv, Types, TypeOK, BusEvent, Event, mainVars, poolVars, ep0Vars, sockVars, bufVars,
             effects, hostVars
<1>4. HandlerInv'
      BY <1>2 DEF IInv, HandlerInv, BusEvent, Current, DataStage, ep0Vars, sockVars,
                  effects, hostVars
<1>5. BufferInv'
      BY <1>2 DEF IInv, BufferInv, BusEvent, StartedAsAsked, sockVars, bufVars, effects
<1>6. HostInv'
      BY <1>2 DEF IInv, HostInv, BusEvent, ep0Vars, effects, hostVars
<1> QED BY <1>2, <1>3, <1>4, <1>5, <1>6 DEF IInv

LEMMA SendSetupKeeps == ASSUME IInv, NEW s \in Setup, SendSetup(s) PROVE IInv'
<1>1. UNCHANGED <<mainVars, poolVars, descr, speed, todo, now>> /\ connected
      BY DEF SendSetup
<1>2. /\ MainInv' /\ PoolInv'
      /\ Op' = Op /\ Socket' = Socket /\ PacketSize' = PacketSize
      /\ (Decoding \/ Answering)'
      BY <1>1, Unseen
<1>3. Types'
      BY DEF IInv, Types, TypeOK, SendSetup, Event, mainVars, poolVars, sockVars, bufVars,
             effects
<1>4. ~busy /\ host = "idle"
      BY DEF IInv, HostInv, SendSetup
<1>5. HandlerInv'
      BY <1>2, <1>4 DEF IInv, HandlerInv, SendSetup, Current, DataStage, sockVars, effects
<1>6. BufferInv'
      BY <1>2 DEF IInv, BufferInv, SendSetup, StartedAsAsked, sockVars, bufVars, effects
<1>7. HostInv'
  <2>1. s.req \in InRequest \cup {"start", "configure", "other"}
        BY DEF Setup
  <2> QED BY <1>2, <1>4, <2>1 DEF IInv, HostInv, SendSetup, effects
<1> QED BY <1>2, <1>3, <1>5, <1>6, <1>7 DEF IInv

\* A data stage takes place while the handler waits for it, and for the SETUP
\* that it answers.
LEMMA DataStageIsAwaited ==
    ASSUME IInv, armed # {}
    PROVE  Op = "wait" /\ DataStage /\ armed = {Socket} /\ done = {}
BY DEF IInv, HandlerInv

LEMMA DataInKeeps == IInv /\ DataIn => IInv'
<1> SUFFICES ASSUME IInv, DataIn PROVE IInv'
    OBVIOUS
<1>1. UNCHANGED <<mainVars, poolVars, descr, speed, todo, now, events, setup>>
      BY DEF DataIn, irqVars, ep0Vars
<1>2. /\ MainInv' /\ PoolInv'
      /\ Op' = Op /\ Socket' = Socket /\ PacketSize' = PacketSize
      /\ (Decoding \/ Answering)'
      BY <1>1, Unseen
<1>3. Op = "wait" /\ DataStage /\ armed = {Socket} /\ done = {}
      BY DataStageIsAwaited DEF DataIn
<1>4. Socket = "in" /\ setup = now /\ now.req \in InRequest
      BY <1>3 DEF DataIn, DataStage, Current
<1>5. armed' = {} /\ done' = {Socket}
      BY <1>3, <1>4 DEF DataIn
<1>6. got' = now.req
  <2>1. now.req \in {"version", "revid"} => mem = now.req
        BY <1>3 DEF IInv, BufferInv
  <2> QED BY <1>4, <2>1 DEF DataIn, InRequest
<1>7. Types'
      BY <1>5, <1>4 DEF IInv, Types, TypeOK, DataIn, mainVars, poolVars, irqVars, ep0Vars, bufVars, effects
<1>8. HandlerInv'
      BY <1>2, <1>3, <1>5 DEF IInv, HandlerInv, DataIn, irqVars, ep0Vars, effects
<1>9. BufferInv'
      BY <1>2, <1>3, <1>4, <1>5 DEF IInv, BufferInv, DataIn, StartedAsAsked, bufVars, effects, InRequest
<1>10. HostInv'
      BY <1>2, <1>3, <1>4, <1>6 DEF IInv, HostInv, DataIn, DataStage, irqVars, ep0Vars, effects, InRequest
<1> QED BY <1>2, <1>7, <1>8, <1>9, <1>10 DEF IInv

LEMMA DataOutKeeps == IInv /\ DataOut => IInv'
<1> SUFFICES ASSUME IInv, DataOut PROVE IInv'
    OBVIOUS
<1>1. UNCHANGED <<mainVars, poolVars, descr, speed, todo, now, events, setup>>
      BY DEF DataOut, irqVars, ep0Vars
<1>2. /\ MainInv' /\ PoolInv'
      /\ Op' = Op /\ Socket' = Socket /\ PacketSize' = PacketSize
      /\ (Decoding \/ Answering)'
      BY <1>1, Unseen
<1>3. Op = "wait" /\ DataStage /\ armed = {Socket} /\ done = {}
      BY DataStageIsAwaited DEF DataOut
<1>4. Socket = "out" /\ setup = now /\ now.req = "start"
      BY <1>3 DEF DataOut, DataStage, Current
<1>5. armed' = {} /\ done' = {Socket}
      BY <1>3, <1>4 DEF DataOut
<1>6. setup.param \in Content
  <2>1. setup \in Setup
        BY DEF IInv, HostInv, DataOut
  <2> QED BY <2>1 DEF Setup, Content
<1>7. Types'
      BY <1>5, <1>4, <1>6 DEF IInv, Types, TypeOK, DataOut, mainVars, poolVars, irqVars, ep0Vars, effects
<1>8. HandlerInv'
      BY <1>2, <1>3, <1>5 DEF IInv, HandlerInv, DataOut, irqVars, ep0Vars, effects
<1>9. BufferInv'
      BY <1>2, <1>3, <1>4, <1>5 DEF IInv, BufferInv, DataOut, StartedAsAsked, effects, InRequest
<1>10. HostInv'
      BY <1>2, <1>3, <1>4 DEF IInv, HostInv, DataOut, DataStage, irqVars, ep0Vars, effects, InRequest
<1> QED BY <1>2, <1>7, <1>8, <1>9, <1>10 DEF IInv

LEMMA EndTransferKeeps == IInv /\ EndTransfer => IInv'
<1> SUFFICES ASSUME IInv, EndTransfer PROVE IInv'
    OBVIOUS
<1>1. UNCHANGED <<mainVars, poolVars, descr, speed, todo, now, events, setup>>
      BY DEF EndTransfer, irqVars, ep0Vars
<1>2. /\ MainInv' /\ PoolInv'
      /\ Op' = Op /\ Socket' = Socket /\ PacketSize' = PacketSize
      /\ (Decoding \/ Answering)'
      BY <1>1, Unseen
<1>3. ~busy /\ host # "idle" /\ host' = "idle" /\ setup \in Setup
      BY DEF EndTransfer, IInv, HostInv
<1>5. ~DataStage
      BY DEF EndTransfer, DataStage
<1>6. got' = Expected(setup.req)
  <2>1. setup.req \in InRequest \cup {"start", "configure", "other"}
        BY <1>3 DEF Setup
  <2>2. stalled <=> setup.req = "other"
        BY <1>3 DEF IInv, HostInv
  <2>3. CASE setup.req = "other"
        BY <2>2, <2>3 DEF EndTransfer, Expected, InRequest
  <2>4. CASE setup.req \in InRequest
        BY <2>2, <2>4 DEF EndTransfer, Expected, InRequest, IInv, HostInv, None
  <2>5. CASE setup.req \in {"start", "configure"}
        BY <2>2, <2>5 DEF EndTransfer, Expected, InRequest, IInv, HostInv
  <2> QED BY <2>1, <2>3, <2>4, <2>5
<1>7. Types'
      BY <1>3 DEF IInv, Types, TypeOK, EndTransfer, mainVars, poolVars, irqVars, ep0Vars, sockVars,
             bufVars, effects
<1>8. HandlerInv'
      BY <1>2, <1>3, <1>5 DEF IInv, HandlerInv, EndTransfer, Current, irqVars, ep0Vars, sockVars, effects
<1>9. BufferInv'
      BY <1>2 DEF IInv, BufferInv, EndTransfer, StartedAsAsked, sockVars, bufVars, effects
<1>10. HostInv'
      BY <1>1, <1>2, <1>3, <1>6 DEF IInv, HostInv, EndTransfer, Expected, irqVars, ep0Vars, effects
<1> QED BY <1>2, <1>7, <1>8, <1>9, <1>10 DEF IInv

-----------------------------------------------------------------------------
(***************************************************************************)
(* The interrupt handler up to the decoding of the SETUP.                   *)
(***************************************************************************)

\* What main has done does not change while the handler runs.
LEMMA MainRests ==
    ASSUME IInv, connected, UNCHANGED mainVars
    PROVE  MainInv' /\ connected'
<1>1. PICK n \in 0 .. (2 * NumBuffers + 1) : MainAt(n)
      BY DEF IInv, MainInv
<1>2. n = 2 * NumBuffers + 1
      BY <1>1 DEF MainAt
<1>3. MainAt(n)'
      BY <1>1, <1>2, EnoughDescriptors DEF MainAt, mainVars
<1> QED BY <1>3 DEF MainInv, mainVars

LEMMA InterruptKeeps == IInv /\ Interrupt => IInv'
<1> SUFFICES ASSUME IInv, Interrupt PROVE IInv'
    OBVIOUS
<1>1. MainInv' /\ connected'
      BY MainRests DEF Interrupt
<1>2. PoolInv'
      BY DEF IInv, PoolInv, Interrupt, mainVars, poolVars
<1>3. Op = "end" /\ Op' = "ack" /\ Decoding' /\ PacketSize' = PacketSize
      BY DEF Interrupt, Op, Decoding, PacketSize
<1>4. Types'
      BY DEF IInv, Types, TypeOK, Interrupt, mainVars, poolVars, ep0Vars, sockVars, bufVars,
             effects, hostVars
<1>5. HandlerInv'
      BY <1>3 DEF IInv, HandlerInv, Interrupt, sockVars
<1>6. BufferInv'
      BY <1>3 DEF IInv, BufferInv, Interrupt, StartedAsAsked, sockVars, bufVars, effects
<1>7. HostInv'
      BY <1>3 DEF IInv, HostInv, Interrupt, ep0Vars, effects, hostVars
<1> QED BY <1>1, <1>2, <1>4, <1>5, <1>6, <1>7 DEF IInv

LEMMA InvTypes == IInv => Types /\ TypeOK
BY DEF IInv, Types

\* No step of the handler changes what main, the host or the SETUP registers hold.
LEMMA HandlerTypes ==
    ASSUME Types, UNCHANGED <<mainVars, speed, hostVars>>, setup' = setup,
           descr' \in 0 .. (NumDescriptors - 1),
           events' \subseteq Event, seen' \subseteq Event,
           now' \in Setup \cup {NoSetup},
           busy' \in BOOLEAN, stalled' \in BOOLEAN,
           armed' \subseteq {"in", "out"}, done' \subseteq {"in", "out"},
           mem' \in Content, line' \in [valid : BOOLEAN, dirty : BOOLEAN, val : Content],
           ep2' \in {0, 512, 1024},
           dscrChain' \in [1 .. (NumDescriptors - 1) -> ChainWord]
    PROVE  Types'
BY DEF Types, TypeOK, mainVars, hostVars

LEMMA IsrCases ==
    ASSUME IsrStep
    PROVE  /\ Head(todo)[1] = "ack" => Ack
           /\ Head(todo)[1] = "ack again" => AckAgain
           /\ Head(todo)[1] = "reset" => Reset
           /\ Head(todo)[1] \notin {"ack", "ack again", "reset"} =>
                  RequestStep(Head(todo)) /\ todo' = Tail(todo) /\ UNCHANGED <<irqVars, now>>
BY DEF IsrStep

LEMMA IsrStepIs ==
    ASSUME IInv, IsrStep
    PROVE  /\ todo # <<>> /\ connected /\ UNCHANGED <<mainVars, speed, hostVars>>
           /\ \/ todo = << <<"ack">> >> /\ Ack
              \/ todo = << <<"ack again">>, <<"reset">> >> /\ AckAgain
              \/ todo = << <<"reset">> >> /\ Reset
              \/ /\ Answering /\ RequestStep(Head(todo))
                 /\ todo' = Tail(todo) /\ UNCHANGED <<irqVars, now>>
<1>1. todo # <<>> /\ connected /\ UNCHANGED <<mainVars, speed, hostVars>>
      BY DEF IsrStep, IInv, MainInv
<1>2. CASE todo = << <<"ack">> >>
  <2>1. Head(todo)[1] = "ack"
        BY <1>2
  <2> QED BY <1>1, <1>2, <2>1, IsrCases
<1>3. CASE todo = << <<"ack again">>, <<"reset">> >>
  <2>1. Head(todo) = <<"ack again">>
        BY <1>3, Pairs
  <2>2. Head(todo)[1] = "ack again"
        BY <2>1, Single
  <2> QED BY <1>1, <1>3, <2>2, IsrCases
<1>4. CASE todo = << <<"reset">> >>
  <2>1. Head(todo)[1] = "reset"
        BY <1>4
  <2> QED BY <1>1, <1>4, <2>1, IsrCases
<1>5. CASE Answering
  <2>1. Head(todo)[1] \in RequestOp
    <3>1. PICK n \in 0 .. Len(SetupData(now.req)) : todo = Rest(SetupData(now.req), n)
          BY <1>5 DEF Answering
    <3>2. Program(now.req, SetupData(now.req))
          BY <1>5, Programs DEF Answering, Setup, Request
    <3> QED BY <1>1, <3>1, <3>2, RestOfSeq DEF Program
  <2>2. Head(todo)[1] \notin {"ack", "ack again", "reset"}
        BY <2>1 DEF RequestOp
  <2> QED BY <1>1, <1>5, <2>2, IsrCases
<1> QED BY <1>1, <1>2, <1>3, <1>4, <1>5 DEF IInv, HandlerInv, Decoding

LEMMA SamePacketSize == speed' = speed => PacketSize' = PacketSize
BY DEF PacketSize

LEMMA AckKeeps ==
    ASSUME IInv, connected, UNCHANGED <<mainVars, speed, hostVars>>, todo = << <<"ack">> >>, Ack
    PROVE  IInv'
<1>1. MainInv' /\ connected'
      BY MainRests
<1>2. PoolInv'
      BY <1>1 DEF IInv, PoolInv, Ack, poolVars
<1>3. Op = "ack" /\ Op' \in {"end", "ack again", "reset"} /\ Decoding' /\ PacketSize' = PacketSize
  <2>1. todo' \in {<<>>, << <<"ack again">>, <<"reset">> >>, << <<"reset">> >>}
        BY DEF Ack
  <2>2. Op' \in {"end", "ack again", "reset"}
    <3>1. CASE todo' = << <<"ack again">>, <<"reset">> >>
      <4>1. Head(todo') = <<"ack again">> /\ todo' # <<>>
            BY <3>1, Pairs
      <4> QED BY <4>1, Single DEF Op
    <3>2. CASE todo' = <<>>
          BY <3>2 DEF Op
    <3>3. CASE todo' = << <<"reset">> >>
      <4>1. Head(todo') = <<"reset">> /\ todo' # <<>>
            BY <3>3
      <4> QED BY <4>1, Single DEF Op
    <3> QED BY <2>1, <3>1, <3>2, <3>3
  <2>3. Op = "ack"
        BY DEF Op
  <2>4. Decoding'
        BY <2>1 DEF Decoding
  <2>5. PacketSize' = PacketSize
    <3>1. speed' = speed
          OBVIOUS
    <3> QED BY <3>1, SamePacketSize
  <2> QED BY <2>2, <2>3, <2>4, <2>5
<1>4. Types'
  <2>1. UNCHANGED <<setup, descr, now, busy, stalled, armed, done, mem, line, ep2, dscrChain>>
        BY DEF Ack, poolVars, irqVars, ep0Vars, sockVars, bufVars, effects
  <2>2. Types /\ TypeOK
        BY InvTypes
  <2>3. events' \subseteq Event /\ seen' \subseteq Event
    <3>1. events \subseteq Event /\ seen \subseteq Event
          BY <2>2 DEF TypeOK
    <3> QED BY <3>1 DEF Ack
  <2> QED BY HandlerTypes, <2>1, <2>2, <2>3 DEF Types, TypeOK
<1>5. Op' # "end" => busy /\ "setup" \notin events'
  <2>1. Op' # "end" => "setup" \in seen
        BY DEF Ack, Op
  <2> QED BY <2>1 DEF IInv, HandlerInv, HostInv, Ack, Acked
<1>6. HandlerInv'
      BY <1>3, <1>5 DEF IInv, HandlerInv, Ack, sockVars, ep0Vars
<1>7. BufferInv'
      BY <1>3 DEF IInv, BufferInv, Ack, StartedAsAsked, sockVars, bufVars, effects
<1>8. HostInv'
      BY <1>3 DEF IInv, HostInv, Ack, ep0Vars, effects, hostVars
<1> QED BY <1>1, <1>2, <1>4, <1>6, <1>7, <1>8 DEF IInv

LEMMA AckAgainTypes ==
    ASSUME IInv, UNCHANGED <<mainVars, speed, hostVars>>, AckAgain
    PROVE  Types'
<1>1. UNCHANGED <<setup, descr, now, busy, stalled, armed, done, mem, line, ep2, dscrChain, seen>>
      BY DEF AckAgain, poolVars, ep0Vars, sockVars, bufVars, effects
<1>2. Types /\ TypeOK
      BY InvTypes
<1>3. events' \subseteq Event
      BY <1>2 DEF AckAgain, TypeOK
<1> QED BY HandlerTypes, <1>1, <1>2, <1>3 DEF Types, TypeOK

LEMMA AckAgainKeeps ==
    ASSUME IInv, connected, UNCHANGED <<mainVars, speed, hostVars>>,
           todo = << <<"ack again">>, <<"reset">> >>, AckAgain
    PROVE  IInv'
<1>1. MainInv' /\ connected'
      BY MainRests
<1>2. PoolInv'
      BY <1>1 DEF IInv, PoolInv, AckAgain, poolVars
<1>3. Op = "ack again" /\ Op' = "reset" /\ Decoding' /\ PacketSize' = PacketSize
  <2>1. todo' = << <<"reset">> >>
        BY Pairs DEF AckAgain
  <2>2. Op = "ack again" /\ Op' = "reset"
    <3>1. Head(todo) = <<"ack again">> /\ todo # <<>>
          BY Pairs
    <3>2. Head(todo') = <<"reset">> /\ todo' # <<>>
          BY <2>1, Single
    <3> QED BY <3>1, <3>2, Single DEF Op
  <2>3. Decoding'
        BY <2>1 DEF Decoding
  <2>4. PacketSize' = PacketSize
    <3>1. speed' = speed
          OBVIOUS
    <3> QED BY <3>1, SamePacketSize
  <2> QED BY <2>2, <2>3, <2>4
<1>4. Types'
      BY AckAgainTypes
<1>5. HandlerInv'
      BY <1>3 DEF IInv, HandlerInv, AckAgain, sockVars, ep0Vars
<1>6. BufferInv'
      BY <1>3 DEF IInv, BufferInv, AckAgain, StartedAsAsked, sockVars, bufVars, effects
<1>7. HostInv'
      BY <1>3 DEF IInv, HostInv, AckAgain, ep0Vars, effects, hostVars
<1> QED BY <1>1, <1>2, <1>4, <1>5, <1>6, <1>7 DEF IInv

LEMMA ResetKeeps ==
    ASSUME IInv, connected, UNCHANGED <<mainVars, speed, hostVars>>, todo = << <<"reset">> >>, Reset
    PROVE  IInv'
<1>1. MainInv' /\ connected'
      BY MainRests
<1>2. PoolInv'
      BY <1>1 DEF IInv, PoolInv, Reset, poolVars
<1>3. Op = "reset" /\ PacketSize' = PacketSize
      BY DEF Reset, Op, PacketSize
<1>4. busy /\ host # "idle" /\ "setup" \notin events /\ setup \in Setup
      BY <1>3 DEF IInv, HandlerInv, HostInv
<1>5. Answering' /\ Begins(setup.req, Op')
      BY <1>4, Starting DEF Reset
<1>6. /\ Op' \in {"write", "unstall", "enable", "stall"}
      /\ Op' = "unstall" => setup.req \in {"descriptor", "start"}
      BY <1>5 DEF Begins
<1>7. Types'
  <2>1. UNCHANGED <<events, seen, setup, descr, busy, mem, line, ep2, dscrChain>>
        BY DEF Reset, poolVars, irqVars, ep0Vars, sockVars, bufVars, effects
  <2>2. Types /\ TypeOK
        BY InvTypes
  <2>3. now' \in Setup \cup {NoSetup} /\ stalled' \in BOOLEAN /\ armed' = {} /\ done' = {}
    <3>1. setup \in Setup \cup {NoSetup}
          BY <2>2 DEF TypeOK
    <3> QED BY <3>1 DEF Reset
  <2> QED BY HandlerTypes, <2>1, <2>2, <2>3 DEF Types, TypeOK
<1>8. now' = setup /\ setup' = setup /\ events' = events /\ busy' = busy
      BY DEF Reset, irqVars
<1>9. HandlerInv'
  <2>1. HandlerInv
        BY DEF IInv
  <2>2. seen' = {} /\ descr' = 0 /\ done' = {} /\ armed' = {}
        BY <1>3, <2>1 DEF HandlerInv, Reset, irqVars
  <2>3. Current'
        BY <1>4, <1>8 DEF Current
  <2>4. ~(Op' = "unstall" /\ now'.req = "configure")
        BY <1>6, <1>8
  <2> QED BY <1>4, <1>5, <1>6, <1>8, <2>2, <2>3, <2>4 DEF HandlerInv
<1>10. BufferInv'
       BY <1>3, <1>6, <1>8 DEF IInv, BufferInv, Reset, StartedAsAsked, bufVars, effects
<1>11. HostInv'
       BY <1>3, <1>4, <1>8 DEF IInv, HostInv, Reset, effects, hostVars
<1> QED BY <1>1, <1>2, <1>7, <1>9, <1>10, <1>11 DEF IInv

-----------------------------------------------------------------------------
(***************************************************************************)
(* The steps of a request.                                                  *)
(***************************************************************************)

\* What all of them have in common: the list moves on.
Moves ==
    /\ connected /\ Answering /\ Answering'
    /\ Follows(now.req, Op, Op')
    /\ UNCHANGED <<mainVars, speed, irqVars, now, hostVars>>

LEMMA Moving ==
    ASSUME IInv, Moves
    PROVE  /\ now \in Setup /\ MainInv' /\ connected'
           /\ Socket' = Socket /\ PacketSize' = PacketSize
           /\ now' = now /\ events' = events /\ seen' = seen /\ host' = host /\ got' = got
           /\ UNCHANGED <<mainVars, speed, hostVars>>
BY MainRests DEF Moves, Answering, Socket, PacketSize, irqVars, hostVars

LEMMA NextOps ==
    ASSUME Moves
    PROVE  /\ Op = "write" => Op' = "clean" /\ now.req \in {"version", "revid"}
           /\ Op = "clean" => Op' = "unstall" /\ now.req \in {"version", "revid"}
           /\ Op = "enable" => Op' = "unstall" /\ now.req = "configure"
           /\ Op = "unstall" => \/ Op' = "allocate" /\ now.req \in InRequest \cup {"start"}
                                \/ Op' = "end" /\ now.req = "configure"
           /\ Op = "stall" => Op' = "end" /\ now.req = "other"
           /\ Op = "allocate" => Op' = "arm" /\ now.req \in InRequest \cup {"start"}
           /\ Op = "arm" => Op' = "wait" /\ now.req \in InRequest \cup {"start"}
           /\ Op = "wait" => Op' = "free" /\ now.req \in InRequest \cup {"start"}
           /\ Op = "free" => \/ Op' = "end" /\ now.req \in InRequest
                             \/ Op' = "invalidate" /\ now.req = "start"
           /\ Op = "invalidate" => Op' = "read" /\ now.req = "start"
           /\ Op = "read" => Op' \in {"fill", "end"} /\ now.req = "start"
           /\ Op = "fill" => Op' \in {"fill", "end"} /\ now.req = "start"
BY DEF Moves, Follows, InRequest

LEMMA PoolStays ==
    ASSUME IInv, Moves, UNCHANGED <<descr, poolVars>>
    PROVE  PoolInv'
<1>1. connected' = connected /\ poolVars' = poolVars /\ descr' = descr
      BY DEF Moves, mainVars
<1>2. PoolInv
      BY DEF IInv
<1> QED BY <1>1, <1>2 DEF PoolInv, poolVars

Line == [valid : BOOLEAN, dirty : BOOLEAN, val : Content]

LEMMA LineStaysTyped ==
    ASSUME NEW l \in Line, NEW v \in Content
    PROVE  /\ [l EXCEPT !.dirty = TRUE, !.val = v] \in Line
           /\ [l EXCEPT !.dirty = FALSE] \in Line
<1>1. [l EXCEPT !.dirty = TRUE, !.val = v] \in Line
      BY DEF Line
<1>2. [l EXCEPT !.dirty = FALSE] \in Line
      BY Zenon DEF Line
<1> QED BY <1>1, <1>2

LEMMA WriteKeeps == ASSUME IInv, Moves, Op = "write", WriteBuf PROVE IInv'
<1>1. Op' = "clean" /\ now.req \in {"version", "revid"}
      BY NextOps
<1>2. UNCHANGED <<setup, descr, busy, stalled, armed, done, ep2, started, poolVars>>
      BY DEF WriteBuf, ep0Vars, sockVars, effects
<1>3. Types'
  <2>1. now.req \in Content
        BY <1>1 DEF Content
  <2>2. Types /\ TypeOK
        BY InvTypes
  <2>3. mem' \in Content /\ line' \in [valid : BOOLEAN, dirty : BOOLEAN, val : Content]
    <3>1. CASE line.valid
      <4>1. mem' = mem /\ line' = [line EXCEPT !.dirty = TRUE, !.val = now.req]
            BY <3>1 DEF WriteBuf
      <4>2. line \in Line
            BY <2>2 DEF Types, Line
      <4>3. line' \in Line
            BY <2>1, <4>1, <4>2, LineStaysTyped
      <4> QED BY <2>2, <4>1, <4>3 DEF TypeOK, Line
    <3>2. CASE ~line.valid
          BY <2>1, <2>2, <3>2 DEF WriteBuf, Types, TypeOK
    <3> QED BY <3>1, <3>2
  <2> QED BY HandlerTypes, Moving, <1>2, <2>2, <2>3 DEF Types, TypeOK, poolVars
<1>4. PoolInv'
      BY PoolStays, <1>2
<1>5. HandlerInv'
      BY Moving, <1>1, <1>2 DEF IInv, HandlerInv, Moves, Current
<1>6. BufferInv'
  <2>1. ~line.dirty /\ line \in [valid : BOOLEAN, dirty : BOOLEAN, val : Content]
        BY InvTypes DEF IInv, BufferInv, Types
  <2>2. /\ line.valid => line'.valid /\ line'.dirty /\ line'.val = now.req
        /\ ~line.valid => line' = line /\ mem' = now.req
        BY <2>1 DEF WriteBuf
  <2> QED BY Moving, <1>1, <1>2, <2>1, <2>2 DEF IInv, BufferInv, StartedAsAsked
<1>7. HostInv'
      BY Moving, <1>2 DEF IInv, HostInv
<1> QED BY Moving, <1>3, <1>4, <1>5, <1>6, <1>7 DEF IInv

LEMMA CleanKeeps == ASSUME IInv, Moves, Op = "clean", CleanDCacheEntry PROVE IInv'
<1>1. Op' = "unstall" /\ now.req \in {"version", "revid"}
      BY NextOps
<1>2. UNCHANGED <<setup, descr, busy, stalled, armed, done, ep2, started, poolVars>>
      BY DEF CleanDCacheEntry, ep0Vars, sockVars, effects
<1>3. Types'
  <2>2. Types /\ TypeOK
        BY InvTypes
  <2>3. line' \in [valid : BOOLEAN, dirty : BOOLEAN, val : Content]
    <3>1. line \in Line /\ None \in Content
          BY <2>2 DEF Types, Line, Content
    <3>2. line' \in Line
          BY <3>1, LineStaysTyped DEF CleanDCacheEntry
    <3> QED BY <3>2 DEF Line
  <2>4. mem' \in Content
        BY <2>2 DEF CleanDCacheEntry, Types, TypeOK
  <2> QED BY HandlerTypes, Moving, <1>2, <2>2, <2>3, <2>4 DEF Types, TypeOK, poolVars
<1>4. PoolInv'
      BY PoolStays, <1>2
<1>5. HandlerInv'
      BY Moving, <1>1, <1>2 DEF IInv, HandlerInv, Moves, Current
<1>6. BufferInv'
  <2>1. line \in [valid : BOOLEAN, dirty : BOOLEAN, val : Content]
        BY InvTypes DEF Types
  <2>2. ~line'.dirty /\ mem' = now.req
        BY <2>1 DEF CleanDCacheEntry, IInv, BufferInv
  <2> QED BY Moving, <1>1, <1>2, <2>2 DEF IInv, BufferInv, StartedAsAsked
<1>7. HostInv'
      BY Moving, <1>2 DEF IInv, HostInv
<1> QED BY Moving, <1>3, <1>4, <1>5, <1>6, <1>7 DEF IInv

LEMMA EnableKeeps == ASSUME IInv, Moves, Op = "enable", EnableInEndpoint PROVE IInv'
<1>1. Op' = "unstall" /\ now.req = "configure"
      BY NextOps
<1>2. UNCHANGED <<setup, descr, busy, stalled, armed, done, mem, line, started, poolVars>>
      BY DEF EnableInEndpoint, ep0Vars, sockVars, bufVars
<1>3. ep2' = PacketSize
      BY DEF EnableInEndpoint, PacketSize
<1>4. Types'
  <2>1. Types /\ TypeOK
        BY InvTypes
  <2>2. ep2' \in {0, 512, 1024}
        BY <1>3 DEF PacketSize
  <2> QED BY HandlerTypes, Moving, <1>2, <2>1, <2>2 DEF Types, TypeOK, poolVars
<1>5. PoolInv'
      BY PoolStays, <1>2
<1>6. HandlerInv'
      BY Moving, <1>1, <1>2, <1>3 DEF IInv, HandlerInv, Moves, Current
<1>7. BufferInv'
      BY Moving, <1>1, <1>2 DEF IInv, BufferInv, StartedAsAsked
<1>8. HostInv'
      BY Moving, <1>2, <1>3 DEF IInv, HostInv
<1> QED BY Moving, <1>4, <1>5, <1>6, <1>7, <1>8 DEF IInv

LEMMA UnstallKeeps == ASSUME IInv, Moves, Op = "unstall", AnswerSetup(FALSE) PROVE IInv'
<1>1. \/ Op' = "allocate" /\ now.req \in InRequest \cup {"start"}
      \/ Op' = "end" /\ now.req = "configure"
      BY NextOps
<1>2. UNCHANGED <<setup, descr, armed, done, mem, line, ep2, started, poolVars>>
      BY DEF AnswerSetup, sockVars, bufVars, effects
<1>3. busy' = FALSE /\ stalled' = FALSE
      BY DEF AnswerSetup
<1>4. Types'
  <2>1. Types /\ TypeOK
        BY InvTypes
  <2>2. busy' \in BOOLEAN /\ stalled' \in BOOLEAN
        BY <1>3, Zenon
  <2> QED BY HandlerTypes, Moving, <1>2, <2>1, <2>2 DEF Types, TypeOK, poolVars
<1>5. PoolInv'
      BY PoolStays, <1>2
<1>6. busy /\ Current /\ host # "idle" /\ done = {} /\ armed = {} /\ descr = 0
      BY DEF IInv, HandlerInv, HostInv
<1>7. HandlerInv'
  <2>1. Op' = "allocate" => host = "data"
        BY <1>1, <1>6 DEF IInv, HostInv, Current, InRequest, Moves, TypeOK, Types
  <2> QED BY Moving, <1>1, <1>2, <1>3, <1>6, <2>1 DEF IInv, HandlerInv, Moves, Current, DataStage
<1>8. BufferInv'
      BY Moving, <1>1, <1>2 DEF IInv, BufferInv, StartedAsAsked, InRequest
<1>9. HostInv'
  <2>1. setup.req # "other" /\ (setup.req = "configure" => ep2 = PacketSize)
        BY <1>1, <1>6 DEF Current, InRequest, IInv, HandlerInv
  <2>2. "setup" \notin events
        BY <1>6 DEF Current
  <2> QED BY Moving, <1>2, <1>3, <1>6, <2>1, <2>2 DEF IInv, HostInv
<1> QED BY Moving, <1>4, <1>5, <1>7, <1>8, <1>9 DEF IInv

LEMMA StallKeeps == ASSUME IInv, Moves, Op = "stall", AnswerSetup(TRUE) PROVE IInv'
<1>1. Op' = "end" /\ now.req = "other"
      BY NextOps
<1>2. UNCHANGED <<setup, descr, armed, done, mem, line, ep2, started, poolVars>>
      BY DEF AnswerSetup, sockVars, bufVars, effects
<1>3. busy' = FALSE /\ stalled' = TRUE
      BY DEF AnswerSetup
<1>4. Types'
  <2>1. Types /\ TypeOK
        BY InvTypes
  <2>2. busy' \in BOOLEAN /\ stalled' \in BOOLEAN
        BY <1>3, Zenon
  <2> QED BY HandlerTypes, Moving, <1>2, <2>1, <2>2 DEF Types, TypeOK, poolVars
<1>5. PoolInv'
      BY PoolStays, <1>2
<1>6. busy /\ Current /\ host # "idle"
      BY DEF IInv, HandlerInv, HostInv
<1>7. HandlerInv'
      BY Moving, <1>1, <1>2, <1>3 DEF IInv, HandlerInv, Moves
<1>8. BufferInv'
      BY Moving, <1>1, <1>2 DEF IInv, BufferInv, StartedAsAsked
<1>9. HostInv'
  <2>1. setup.req = "other" /\ "setup" \notin events
        BY <1>1, <1>6 DEF Current
  <2> QED BY Moving, <1>2, <1>3, <1>6, <2>1 DEF IInv, HostInv
<1> QED BY Moving, <1>4, <1>5, <1>7, <1>8, <1>9 DEF IInv

LEMMA ChainStaysTyped ==
    ASSUME NEW D, NEW W, NEW f \in [D -> W], NEW d, NEW w \in W
    PROVE  [f EXCEPT ![d] = w] \in [D -> W]
OBVIOUS

LEMMA AllocateTakes ==
    ASSUME IInv, Moves, Op = "allocate", Allocate
    PROVE  /\ descr = 0 /\ descr' = NumBuffers + 1 /\ firstUnallocated' = NumBuffers + 2
           /\ freeListHead' = 0
           /\ freeListHead # 0 => freeListHead = NumBuffers + 1
           /\ freeListHead = 0 => firstUnallocated = NumBuffers + 1
<1>1. descr = 0
      BY DEF IInv, HandlerInv
<1>2. PoolInv /\ connected
      BY DEF IInv, Moves
<1>3. CASE firstUnallocated = NumBuffers + 1 /\ freeListHead = 0
      BY <1>1, <1>3, EnoughDescriptors DEF Allocate
<1>4. CASE /\ firstUnallocated = NumBuffers + 2 /\ freeListHead = NumBuffers + 1
           /\ dscrChain[NumBuffers + 1] = 0
      BY <1>1, <1>4, EnoughDescriptors DEF Allocate
<1> QED BY <1>1, <1>2, <1>3, <1>4, EnoughDescriptors DEF PoolInv

LEMMA AllocateKeeps == ASSUME IInv, Moves, Op = "allocate", Allocate PROVE IInv'
<1>1. Op' = "arm" /\ now.req \in InRequest \cup {"start"}
      BY NextOps
<1>2. UNCHANGED <<setup, busy, stalled, armed, done, mem, line, ep2, started, dscrChain>>
      BY DEF Allocate, ep0Vars, sockVars, bufVars, effects
<1>3. /\ descr' = NumBuffers + 1 /\ firstUnallocated' = NumBuffers + 2 /\ freeListHead' = 0
      BY AllocateTakes
<1>4. Types'
  <2>1. Types /\ TypeOK
        BY InvTypes
  <2>2. descr' \in 0 .. (NumDescriptors - 1)
        BY <1>3, EnoughDescriptors
  <2> QED BY HandlerTypes, Moving, <1>2, <2>1, <2>2 DEF Types, TypeOK
<1>5. PoolInv'
      BY <1>3 DEF PoolInv
<1>6. descr' # 0
      BY <1>3, EnoughDescriptors
<1>7. HandlerInv'
      BY Moving, <1>1, <1>2, <1>6 DEF IInv, HandlerInv, Moves, Current, DataStage
<1>8. BufferInv'
      BY Moving, <1>1, <1>2 DEF IInv, BufferInv, StartedAsAsked, InRequest
<1>9. HostInv'
      BY Moving, <1>2 DEF IInv, HostInv
<1> QED BY Moving, <1>4, <1>5, <1>7, <1>8, <1>9 DEF IInv

\* The descriptor of a transfer is the one after those of the ring.
LEMMA TransferDescriptor ==
    ASSUME IInv, Moves, Op \in {"arm", "wait", "free"}
    PROVE  /\ descr = NumBuffers + 1 /\ descr \in 1 .. (NumDescriptors - 1)
           /\ firstUnallocated = NumBuffers + 2 /\ freeListHead = 0
<1>1. descr # 0
      BY DEF IInv, HandlerInv
<1>2. descr = NumBuffers + 1 /\ firstUnallocated = NumBuffers + 2 /\ freeListHead = 0
      BY <1>1 DEF IInv, PoolInv, Moves
<1> QED BY <1>2, EnoughDescriptors

LEMMA ArmKeeps == ASSUME IInv, Moves, Op = "arm", Arm PROVE IInv'
<1>1. Op' = "wait" /\ now.req \in InRequest \cup {"start"}
      BY NextOps
<1>2. UNCHANGED <<setup, busy, stalled, mem, line, ep2, started, descr, firstUnallocated,
                  freeListHead>>
      BY DEF Arm, ep0Vars, bufVars, effects
<1>3. armed = {} /\ done = {} /\ DataStage
      BY DEF IInv, HandlerInv
<1>4. armed' = {Socket} /\ done' = {}
      BY <1>3 DEF Arm
<1>5. descr = NumBuffers + 1 /\ firstUnallocated = NumBuffers + 2 /\ freeListHead = 0
      BY TransferDescriptor
<1>6. Types'
  <2>1. Types /\ TypeOK
        BY InvTypes
  <2>2. Socket \in {"in", "out"}
        BY DEF Socket
  <2>3. armed' \subseteq {"in", "out"} /\ done' \subseteq {"in", "out"}
        BY <1>4, <2>2
  <2>4. dscrChain' \in [1 .. (NumDescriptors - 1) -> ChainWord]
    <3> DEFINE w == 65535
    <3>1. w \in ChainWord
          BY SMT DEF ChainWord
    <3>2. dscrChain' = [dscrChain EXCEPT ![descr] = w]
          BY SMT DEF Arm
    <3> HIDE DEF w
    <3>3. dscrChain \in [1 .. (NumDescriptors - 1) -> ChainWord]
          BY <2>1 DEF Types
    <3> QED BY <3>1, <3>2, <3>3, ChainStaysTyped
  <2> QED BY HandlerTypes, Moving, <1>2, <2>1, <2>3, <2>4 DEF Types, TypeOK
<1>7. PoolInv'
      BY <1>2, <1>5 DEF PoolInv
<1>8. descr # 0
      BY <1>5, EnoughDescriptors
<1>9. HandlerInv'
      BY Moving, <1>1, <1>2, <1>3, <1>4, <1>8 DEF IInv, HandlerInv, Moves, Current, DataStage
<1>10. BufferInv'
       BY Moving, <1>1, <1>2, <1>4 DEF IInv, BufferInv, StartedAsAsked
<1>11. HostInv'
       BY Moving, <1>2 DEF IInv, HostInv
<1> QED BY Moving, <1>6, <1>7, <1>9, <1>10, <1>11 DEF IInv

LEMMA WaitKeeps == ASSUME IInv, Moves, Op = "wait", WaitForEvent PROVE IInv'
<1>1. Op' = "free" /\ now.req \in InRequest \cup {"start"}
      BY NextOps
<1>2. UNCHANGED <<setup, busy, stalled, armed, done, mem, line, ep2, started, descr, poolVars>>
      BY DEF WaitForEvent, ep0Vars, sockVars, bufVars, effects
<1>3. armed = {} /\ done = {Socket}
      BY DEF IInv, HandlerInv, WaitForEvent
<1>4. Types'
  <2>1. Types /\ TypeOK
        BY InvTypes
  <2> QED BY HandlerTypes, Moving, <1>2, <2>1 DEF Types, TypeOK, poolVars
<1>5. PoolInv'
      BY PoolStays, <1>2
<1>6. HandlerInv'
      BY Moving, <1>1, <1>2, <1>3 DEF IInv, HandlerInv, Moves
<1>7. BufferInv'
      BY Moving, <1>1, <1>2, <1>3 DEF IInv, BufferInv, StartedAsAsked
<1>8. HostInv'
      BY Moving, <1>2 DEF IInv, HostInv
<1> QED BY Moving, <1>4, <1>5, <1>6, <1>7, <1>8 DEF IInv

LEMMA FreeKeeps == ASSUME IInv, Moves, Op = "free", FreeDescriptor PROVE IInv'
<1>1. \/ Op' = "end" /\ now.req \in InRequest
      \/ Op' = "invalidate" /\ now.req = "start"
      BY NextOps
<1>2. UNCHANGED <<setup, busy, stalled, armed, done, mem, line, ep2, started, firstUnallocated>>
      BY DEF FreeDescriptor, ep0Vars, sockVars, bufVars, effects
<1>3. /\ descr = NumBuffers + 1 /\ descr \in 1 .. (NumDescriptors - 1)
      /\ firstUnallocated = NumBuffers + 2 /\ freeListHead = 0
      BY TransferDescriptor
<1>4. Types'
  <2>1. Types /\ TypeOK
        BY InvTypes
  <2>2. dscrChain' \in [1 .. (NumDescriptors - 1) -> ChainWord]
    <3>1. freeListHead \in ChainWord
          BY <1>3, EnoughDescriptors DEF ChainWord
    <3>2. dscrChain \in [1 .. (NumDescriptors - 1) -> ChainWord]
          BY <2>1 DEF Types
    <3> QED BY <3>1, <3>2, ChainStaysTyped DEF FreeDescriptor
  <2>3. descr' \in 0 .. (NumDescriptors - 1)
        BY EnoughDescriptors DEF FreeDescriptor
  <2> QED BY HandlerTypes, Moving, <1>2, <2>1, <2>2, <2>3 DEF Types, TypeOK
<1>5. PoolInv'
  <2>1. dscrChain'[NumBuffers + 1] = 0
        BY <1>3, InvTypes DEF FreeDescriptor, Types
  <2> QED BY <1>2, <1>3, <2>1 DEF PoolInv, FreeDescriptor
<1>6. descr' = 0
      BY DEF FreeDescriptor
<1>7. HandlerInv'
      BY Moving, <1>1, <1>2, <1>6 DEF IInv, HandlerInv, Moves
<1>8. BufferInv'
      BY Moving, <1>1, <1>2 DEF IInv, BufferInv, StartedAsAsked
<1>9. HostInv'
      BY Moving, <1>2 DEF IInv, HostInv
<1> QED BY Moving, <1>4, <1>5, <1>7, <1>8, <1>9 DEF IInv

LEMMA InvalidateKeeps == ASSUME IInv, Moves, Op = "invalidate", InvalidateDCacheEntry PROVE IInv'
<1>1. Op' = "read" /\ now.req = "start"
      BY NextOps
<1>2. UNCHANGED <<setup, busy, stalled, armed, done, mem, ep2, started, descr, poolVars>>
      BY DEF InvalidateDCacheEntry, ep0Vars, sockVars, effects
<1>3. line' = NoLine
      BY DEF InvalidateDCacheEntry
<1>4. Types'
  <2>1. Types /\ TypeOK
        BY InvTypes
  <2>2. line' \in [valid : BOOLEAN, dirty : BOOLEAN, val : Content]
        BY <1>3 DEF NoLine, Content
  <2> QED BY HandlerTypes, Moving, <1>2, <2>1, <2>2 DEF Types, TypeOK, poolVars
<1>5. PoolInv'
      BY PoolStays, <1>2
<1>6. HandlerInv'
      BY Moving, <1>1, <1>2 DEF IInv, HandlerInv, Moves
<1>7. BufferInv'
      BY Moving, <1>1, <1>2, <1>3 DEF IInv, BufferInv, StartedAsAsked, NoLine
<1>8. HostInv'
      BY Moving, <1>2 DEF IInv, HostInv
<1> QED BY Moving, <1>4, <1>5, <1>6, <1>7, <1>8 DEF IInv

LEMMA ReadKeeps == ASSUME IInv, Moves, Op = "read", ReadBuf PROVE IInv'
<1>1. Op' \in {"fill", "end"} /\ now.req = "start"
      BY NextOps
<1>2. UNCHANGED <<setup, busy, stalled, armed, done, mem, ep2, descr, poolVars>>
      BY DEF ReadBuf, ep0Vars, sockVars
<1>3. line = NoLine /\ mem = now.param
      BY <1>1 DEF IInv, BufferInv
<1>4. line' = [valid |-> TRUE, dirty |-> FALSE, val |-> now.param]
      BY <1>3 DEF ReadBuf, NoLine
<1>5. started' = [asked |-> now.param, used |-> now.param]
      BY <1>4 DEF ReadBuf
<1>6. Types'
  <2>1. Types /\ TypeOK
        BY InvTypes
  <2>2. now.param \in Content
        BY <1>3, <2>1 DEF TypeOK
  <2>3. line' \in [valid : BOOLEAN, dirty : BOOLEAN, val : Content]
        BY <1>4, <2>2
  <2> QED BY HandlerTypes, Moving, <1>2, <2>1, <2>3 DEF Types, TypeOK, poolVars
<1>7. PoolInv'
      BY PoolStays, <1>2
<1>8. HandlerInv'
      BY Moving, <1>1, <1>2 DEF IInv, HandlerInv, Moves
<1>9. BufferInv'
      BY Moving, <1>1, <1>4, <1>5 DEF BufferInv, StartedAsAsked
<1>10. HostInv'
       BY Moving, <1>2 DEF IInv, HostInv
<1> QED BY Moving, <1>6, <1>7, <1>8, <1>9, <1>10 DEF IInv

\* Main has filled the table of the ring before it connects.
LEMMA RingIsFull ==
    ASSUME IInv, connected
    PROVE  ring = [i \in 1 .. NumBuffers |-> i]
<1>1. PICK n \in 0 .. (2 * NumBuffers + 1) : MainAt(n)
      BY DEF IInv, MainInv
<1>2. n = 2 * NumBuffers + 1
      BY <1>1 DEF MainAt
<1>3. n \div 2 = NumBuffers
      BY <1>2, EnoughDescriptors
<1> QED BY <1>1, <1>3 DEF MainAt

LEMMA FillLinks ==
    ASSUME IInv, connected, NEW i \in 1 .. NumBuffers, FillRing(i)
    PROVE  \E c \in 1 .. NumBuffers : dscrChain' = [dscrChain EXCEPT ![i] = c]
<1>1. NumBuffers \in Nat
      BY EnoughDescriptors
<1>2. ring = [j \in 1 .. NumBuffers |-> j]
      BY RingIsFull
<1> DEFINE next == IF i = NumBuffers THEN 1 ELSE i + 1
<1>3. next \in 1 .. NumBuffers
      BY <1>1
<1> HIDE DEF next
<1>4. ring[i] = i /\ ring[next] = next
      BY <1>2, <1>3
<1>5. dscrChain' = [dscrChain EXCEPT ![i] = next]
      BY <1>4 DEF FillRing, next
<1> QED BY <1>3, <1>5

LEMMA FillKeeps ==
    ASSUME IInv, Moves, Op = "fill", NEW i \in 1 .. NumBuffers, FillRing(i)
    PROVE  IInv'
<1>1. Op' \in {"fill", "end"} /\ now.req = "start"
      BY NextOps
<1>2. UNCHANGED <<setup, busy, stalled, armed, done, mem, line, ep2, started, descr,
                  firstUnallocated, freeListHead>>
      BY DEF FillRing, ep0Vars, sockVars, bufVars, effects
<1>3. PICK c \in 1 .. NumBuffers : dscrChain' = [dscrChain EXCEPT ![i] = c]
      BY FillLinks DEF Moves
<1>4. Types'
  <2>1. Types /\ TypeOK
        BY InvTypes
  <2>2. c \in ChainWord
        BY EnoughDescriptors DEF ChainWord
  <2>3. dscrChain' \in [1 .. (NumDescriptors - 1) -> ChainWord]
        BY <1>3, <2>1, <2>2, ChainStaysTyped DEF Types
  <2> QED BY HandlerTypes, Moving, <1>2, <2>1, <2>3 DEF Types, TypeOK
<1>5. PoolInv'
  <2>1. NumBuffers + 1 # i /\ NumBuffers + 1 \in 1 .. (NumDescriptors - 1)
        BY EnoughDescriptors
  <2>2. dscrChain'[NumBuffers + 1] = dscrChain[NumBuffers + 1]
        BY <1>3, <2>1, InvTypes DEF Types
  <2> QED BY <1>2, <2>2 DEF IInv, PoolInv, Moves
<1>6. HandlerInv'
      BY Moving, <1>1, <1>2 DEF IInv, HandlerInv, Moves
<1>7. BufferInv'
      BY Moving, <1>1, <1>2 DEF IInv, BufferInv, StartedAsAsked
<1>8. HostInv'
      BY Moving, <1>2 DEF IInv, HostInv
<1> QED BY Moving, <1>4, <1>5, <1>6, <1>7, <1>8 DEF IInv

LEMMA RequestCases ==
    ASSUME NEW op, RequestStep(op)
    PROVE  /\ op[1] = "unstall" => AnswerSetup(FALSE)
           /\ op[1] = "stall" => AnswerSetup(TRUE)
           /\ op[1] = "enable" => EnableInEndpoint
           /\ op[1] = "allocate" => Allocate
           /\ op[1] = "arm" => Arm
           /\ op[1] = "wait" => WaitForEvent
           /\ op[1] = "free" => FreeDescriptor
           /\ op[1] = "fill" => FillRing(op[2])
           /\ op[1] = "write" => WriteBuf
           /\ op[1] = "clean" => CleanDCacheEntry
           /\ op[1] = "invalidate" => InvalidateDCacheEntry
           /\ op[1] = "read" => ReadBuf
BY DEF RequestStep

\* The step of a request is the one its list begins with.
LEMMA RequestMoves ==
    ASSUME IInv, IsrStep, Answering, todo # <<>>, RequestStep(Head(todo)),
           todo' = Tail(todo), UNCHANGED <<irqVars, now>>
    PROVE  /\ Moves /\ Op \in RequestOp /\ Head(todo)[1] = Op
           /\ Op = "fill" => Head(todo)[2] \in 1 .. NumBuffers
<1>1. /\ connected /\ UNCHANGED <<mainVars, speed, hostVars>>
      BY IsrStepIs
<1>2. /\ Answering' /\ Follows(now.req, Op, Op') /\ Op \in RequestOp
      /\ Op = "fill" => Head(todo)[2] \in 1 .. NumBuffers
      BY Progress
<1>3. Head(todo)[1] = Op
      BY DEF Op
<1> QED BY <1>1, <1>2, <1>3 DEF Moves

LEMMA IsrStepKeeps == IInv /\ IsrStep => IInv'
<1> SUFFICES ASSUME IInv, IsrStep PROVE IInv'
    OBVIOUS
<1>1. todo # <<>> /\ connected /\ UNCHANGED <<mainVars, speed, hostVars>>
      BY IsrStepIs
<1>2. CASE todo = << <<"ack">> >> /\ Ack
      BY <1>1, <1>2, AckKeeps
<1>3. CASE todo = << <<"ack again">>, <<"reset">> >> /\ AckAgain
      BY <1>1, <1>3, AckAgainKeeps
<1>4. CASE todo = << <<"reset">> >> /\ Reset
      BY <1>1, <1>4, ResetKeeps
<1>5. CASE /\ Answering /\ RequestStep(Head(todo))
           /\ todo' = Tail(todo) /\ UNCHANGED <<irqVars, now>>
  <2>1. /\ Moves /\ Op \in RequestOp /\ Head(todo)[1] = Op
        /\ Op = "fill" => Head(todo)[2] \in 1 .. NumBuffers
        BY <1>1, <1>5, RequestMoves
  <2>2. CASE Op = "write"
        BY <1>5, <2>1, <2>2, RequestCases, WriteKeeps
  <2>3. CASE Op = "clean"
        BY <1>5, <2>1, <2>3, RequestCases, CleanKeeps
  <2>4. CASE Op = "enable"
        BY <1>5, <2>1, <2>4, RequestCases, EnableKeeps
  <2>5. CASE Op = "unstall"
        BY <1>5, <2>1, <2>5, RequestCases, UnstallKeeps
  <2>6. CASE Op = "stall"
        BY <1>5, <2>1, <2>6, RequestCases, StallKeeps
  <2>7. CASE Op = "allocate"
        BY <1>5, <2>1, <2>7, RequestCases, AllocateKeeps
  <2>8. CASE Op = "arm"
        BY <1>5, <2>1, <2>8, RequestCases, ArmKeeps
  <2>9. CASE Op = "wait"
        BY <1>5, <2>1, <2>9, RequestCases, WaitKeeps
  <2>10. CASE Op = "free"
        BY <1>5, <2>1, <2>10, RequestCases, FreeKeeps
  <2>11. CASE Op = "invalidate"
        BY <1>5, <2>1, <2>11, RequestCases, InvalidateKeeps
  <2>12. CASE Op = "read"
        BY <1>5, <2>1, <2>12, RequestCases, ReadKeeps
  <2>13. CASE Op = "fill"
        BY <1>5, <2>1, <2>13, RequestCases, FillKeeps
  <2> QED BY <2>1, <2>2, <2>3, <2>4, <2>5, <2>6, <2>7, <2>8, <2>9, <2>10, <2>11, <2>12, <2>13
          DEF RequestOp
<1> QED BY <1>2, <1>3, <1>4, <1>5, IsrStepIs

-----------------------------------------------------------------------------
(***************************************************************************)
(* Main, before its loop.                                                   *)
(***************************************************************************)
MainOp == {"pick", "take", "connect"}

LEMMA MainOps ==
    /\ mainOps \in Seq(MainOp) /\ Len(mainOps) = 2 * NumBuffers + 1
    /\ \A i \in 1 .. 2 * NumBuffers : mainOps[i] = IF i % 2 = 1 THEN "pick" ELSE "take"
    /\ mainOps[2 * NumBuffers + 1] = "connect"
<1>1. NumBuffers \in Nat /\ 2 * NumBuffers \in Nat
      BY EnoughDescriptors
<1> DEFINE m == 2 * NumBuffers
<1>2. /\ setupOps \in Seq(MainOp) /\ Len(setupOps) = m
      /\ \A i \in 1 .. m : setupOps[i] = IF i % 2 = 1 THEN "pick" ELSE "take"
      BY <1>1 DEF setupOps, MainOp
<1>3. m \in Nat
      BY <1>1
<1> HIDE DEF m
<1>4. <<"connect">> \in Seq(MainOp) /\ Len(<<"connect">>) = 1
      BY DEF MainOp
<1>5. /\ mainOps \in Seq(MainOp) /\ Len(mainOps) = Len(setupOps) + Len(<<"connect">>)
      /\ \A i \in 1 .. Len(setupOps) + Len(<<"connect">>) :
             mainOps[i] = IF i <= Len(setupOps) THEN setupOps[i]
                          ELSE <<"connect">>[i - Len(setupOps)]
      BY <1>2, <1>4, ConcatProperties, Zenon DEF mainOps
<1>6. Len(mainOps) = m + 1
      BY <1>2, <1>4, <1>5
<1>7. \A i \in 1 .. m : mainOps[i] = setupOps[i]
      BY <1>2, <1>3, <1>4, <1>5
<1>8. mainOps[m + 1] = "connect"
      BY <1>2, <1>3, <1>4, <1>5
<1>9. \A i \in 1 .. m : mainOps[i] = IF i % 2 = 1 THEN "pick" ELSE "take"
      BY <1>2, <1>7
<1> QED BY <1>5, <1>6, <1>8, <1>9 DEF m

LEMMA MainCases ==
    ASSUME MainStep
    PROVE  /\ todo = <<>> /\ mainTodo # <<>> /\ mainTodo' = Tail(mainTodo)
           /\ Head(mainTodo) = "pick" => Pick
           /\ Head(mainTodo) = "take" => Take
           /\ Head(mainTodo) = "connect" => Connect
           /\ UNCHANGED <<speed, irqVars, todo, now, descr, ep0Vars, sockVars, bufVars, effects,
                          hostVars>>
BY DEF MainStep

\* Where main is, and the step it takes.
LEMMA MainStepAt ==
    ASSUME IInv, MainStep
    PROVE  \E n \in 0 .. (2 * NumBuffers) :
               /\ MainAt(n) /\ ~connected
               /\ mainTodo' = Rest(mainOps, n + 1)
               /\ n < 2 * NumBuffers /\ n % 2 = 0 => Pick
               /\ n < 2 * NumBuffers /\ n % 2 = 1 => Take
               /\ n = 2 * NumBuffers => Connect
<1>1. PICK n \in 0 .. (2 * NumBuffers + 1) : MainAt(n)
      BY DEF IInv, MainInv
<1>2. mainTodo = Rest(mainOps, n) /\ mainTodo # <<>>
      BY <1>1, MainCases DEF MainAt
<1>3. NumBuffers \in Nat
      BY EnoughDescriptors
<1>4. /\ n + 1 \in 1 .. Len(mainOps)
      /\ Head(mainTodo) = mainOps[n + 1]
      /\ Tail(mainTodo) = Rest(mainOps, n + 1)
  <2>1. mainOps \in Seq(MainOp) /\ n \in 0 .. Len(mainOps)
        BY MainOps
  <2> QED BY <1>2, <2>1, RestOfSeq
<1>5. n \in 0 .. (2 * NumBuffers)
      BY <1>3, <1>4, MainOps
<1>6. ~connected
      BY <1>1, <1>3, <1>5 DEF MainAt
<1>7. ASSUME n < 2 * NumBuffers
      PROVE  mainOps[n + 1] = IF (n + 1) % 2 = 1 THEN "pick" ELSE "take"
  <2>1. n + 1 \in 1 .. 2 * NumBuffers
        BY <1>3, <1>5, <1>7
  <2> QED BY <2>1, MainOps
<1>8. n < 2 * NumBuffers /\ n % 2 = 0 => Pick
      BY <1>3, <1>4, <1>5, <1>7, MainCases
<1>9. n < 2 * NumBuffers /\ n % 2 = 1 => Take
      BY <1>3, <1>4, <1>5, <1>7, MainCases
<1>10. n = 2 * NumBuffers => Connect
      BY <1>4, MainOps, MainCases
<1> QED BY <1>1, <1>4, <1>5, <1>6, <1>8, <1>9, <1>10, MainCases

\* What a step of main does to the table of the ring and to the allocator.
LEMMA MainStepDoes ==
    ASSUME IInv, MainStep
    PROVE  /\ \E n \in 1 .. (2 * NumBuffers + 1) : MainAt(n)'
           /\ \E k \in 0 .. NumBuffers :
                  /\ ring' = [i \in 1 .. k |-> i] /\ firstUnallocated' = k + 1
                  /\ connected' => k = NumBuffers
           /\ freeListHead = 0 /\ freeListHead' = 0 /\ dscrChain' = dscrChain
           /\ \/ connected' = connected
              \/ connected' /\ firstUnallocated' = NumBuffers + 1
<1>1. PICK n \in 0 .. (2 * NumBuffers) :
          /\ MainAt(n) /\ ~connected
          /\ mainTodo' = Rest(mainOps, n + 1)
          /\ n < 2 * NumBuffers /\ n % 2 = 0 => Pick
          /\ n < 2 * NumBuffers /\ n % 2 = 1 => Take
          /\ n = 2 * NumBuffers => Connect
      BY MainStepAt
<1>2. NumBuffers \in Nat /\ n \in Nat /\ n <= 2 * NumBuffers
      BY <1>1, EnoughDescriptors
<1> DEFINE k == n \div 2
<1>3. ring = [i \in 1 .. k |-> i] /\ k \in 0 .. NumBuffers
      BY <1>1, <1>2 DEF MainAt
<1>4. firstUnallocated = k + 1 /\ freeListHead = 0
      BY <1>1, <1>3 DEF IInv, MainInv
<1>5. CASE n < 2 * NumBuffers /\ n % 2 = 0
  <2>1. (n + 1) \div 2 = k /\ n + 1 \in 1 .. (2 * NumBuffers + 1) /\ n + 1 # 2 * NumBuffers + 1
        BY <1>2, <1>5
  <2>2. /\ picked' = [list |-> FALSE, d |-> firstUnallocated]
        /\ UNCHANGED <<ring, connected, firstUnallocated, freeListHead, dscrChain>>
        BY <1>1, <1>4, <1>5 DEF Pick, poolVars
  <2>3. MainAt(n + 1)'
        BY <1>1, <1>3, <2>1, <2>2 DEF MainAt
  <2> QED BY <1>1, <1>3, <1>4, <2>1, <2>2, <2>3
<1>6. CASE n < 2 * NumBuffers /\ n % 2 = 1
  <2>1. /\ (n + 1) \div 2 = k + 1 /\ n + 1 \in 1 .. (2 * NumBuffers + 1)
        /\ n + 1 # 2 * NumBuffers + 1 /\ (n + 1) % 2 = 0 /\ k + 1 \in 0 .. NumBuffers
        BY <1>2, <1>6
  <2>2. picked.list = FALSE /\ picked.d = k + 1
        BY <1>1, <1>4, <1>6 DEF MainAt
  <2>3. /\ ring' = Append(ring, k + 1) /\ firstUnallocated' = (k + 1) + 1
        /\ UNCHANGED <<connected, freeListHead, dscrChain>>
        BY <1>1, <1>6, <2>2, Zenon DEF Take
  <2>4. ring' = [i \in 1 .. (k + 1) |-> i]
        BY <1>3, <2>3
  <2>5. MainAt(n + 1)'
        BY <1>1, <2>1, <2>3, <2>4 DEF MainAt
  <2> QED BY <1>1, <1>4, <2>1, <2>3, <2>4, <2>5
<1>7. CASE n = 2 * NumBuffers
  <2>1. (n + 1) \div 2 = k /\ k = NumBuffers /\ n + 1 \in 1 .. (2 * NumBuffers + 1)
        BY <1>2, <1>7
  <2>2. connected' /\ UNCHANGED <<ring, firstUnallocated, freeListHead, dscrChain>>
        BY <1>1, <1>7 DEF Connect, poolVars
  <2>3. MainAt(n + 1)'
        BY <1>1, <1>2, <1>3, <1>7, <2>1, <2>2 DEF MainAt
  <2> QED BY <1>3, <1>4, <2>1, <2>2, <2>3
<1> QED BY <1>2, <1>5, <1>6, <1>7

LEMMA MainStepKeeps == IInv /\ MainStep => IInv'
<1> SUFFICES ASSUME IInv, MainStep PROVE IInv'
    OBVIOUS
<1>1. /\ todo = <<>> /\ ~connected
      /\ UNCHANGED <<speed, irqVars, todo, now, descr, ep0Vars, sockVars, bufVars, effects, hostVars>>
      BY MainCases, MainStepAt
<1>2. PICK k \in 0 .. NumBuffers :
          /\ ring' = [i \in 1 .. k |-> i] /\ firstUnallocated' = k + 1
          /\ connected' => k = NumBuffers
      BY MainStepDoes
<1>3. events = {} /\ setup = NoSetup
      BY <1>1 DEF IInv, MainInv
<1>4. MainInv'
  <2>1. Len(ring') = k
        BY <1>2
  <2> QED BY <1>1, <1>2, <1>3, <2>1, MainStepDoes DEF MainInv, irqVars, ep0Vars
<1>5. Op = "end" /\ Op' = Op /\ Socket' = Socket /\ PacketSize' = PacketSize
      BY <1>1 DEF Op, Socket, PacketSize
<1>6. Types'
  <2>1. Types /\ TypeOK
        BY InvTypes
  <2>2. ring' \in Seq(1 .. (NumDescriptors - 1)) /\ Len(ring') <= NumBuffers
        BY <1>2, EnoughDescriptors
  <2>3. connected' \in BOOLEAN
        BY <2>1, MainStepDoes DEF Types
  <2>4. UNCHANGED <<speed, events, seen, now, descr, setup, busy, stalled, armed, done, mem, line,
                    ep2, host, dscrChain>>
        BY <1>1, MainStepDoes DEF irqVars, ep0Vars, sockVars, bufVars, effects, hostVars
  <2> QED BY <2>1, <2>2, <2>3, <2>4 DEF Types, TypeOK
<1>7. PoolInv'
  <2>1. descr' = 0
        BY <1>1, <1>5 DEF IInv, HandlerInv
  <2>2. connected' => firstUnallocated' = NumBuffers + 1
        BY <1>2
  <2> QED BY <2>1, <2>2, MainStepDoes DEF PoolInv
<1>8. HandlerInv'
  <2>1. Decoding'
        BY <1>1 DEF Decoding
  <2> QED BY <1>1, <1>5, <2>1 DEF IInv, HandlerInv, irqVars, sockVars
<1>9. BufferInv'
      BY <1>1, <1>5 DEF IInv, BufferInv, StartedAsAsked, bufVars, effects
<1>10. HostInv'
       BY <1>1, <1>5 DEF IInv, HostInv, irqVars, ep0Vars, effects, hostVars
<1> QED BY <1>4, <1>6, <1>7, <1>8, <1>9, <1>10 DEF IInv

LEMMA InitIInv == Init => IInv
<1> SUFFICES ASSUME Init PROVE IInv
    OBVIOUS
<1>1. Types
  <2>1. ring \in Seq(1 .. (NumDescriptors - 1)) /\ Len(ring) <= NumBuffers
        BY EnoughDescriptors DEF Init
  <2>2. dscrChain \in [1 .. (NumDescriptors - 1) -> ChainWord]
        BY EnoughDescriptors DEF Init, ChainWord
  <2>3. connected \in BOOLEAN /\ busy \in BOOLEAN /\ stalled \in BOOLEAN
        BY Zenon DEF Init
  <2>4. line \in [valid : BOOLEAN, dirty : BOOLEAN, val : Content] /\ line.val \in Content
        BY DEF Init, NoLine, Content
  <2> QED BY <2>1, <2>2, <2>3, <2>4, EnoughDescriptors DEF Init, Types, TypeOK, Content
<1>2. MainAt(0)
  <2>1. mainOps = Rest(mainOps, 0)
        BY MainOps, WholeIsRest
  <2>2. <<>> = [i \in 1 .. (0 \div 2) |-> i]
        OBVIOUS
  <2> QED BY <2>1, <2>2, EnoughDescriptors DEF Init, MainAt
<1>3. MainInv
      BY <1>2, EnoughDescriptors DEF Init, MainInv
<1>4. PoolInv
      BY DEF Init, PoolInv
<1>5. Op = "end"
      BY DEF Init, Op
<1>6. HandlerInv
      BY <1>5 DEF Init, HandlerInv, Decoding
<1>7. BufferInv
      BY <1>5 DEF Init, BufferInv, NoLine, StartedAsAsked
<1>8. HostInv
      BY DEF Init, HostInv, NoSetup, None
<1> QED BY <1>1, <1>3, <1>4, <1>6, <1>7, <1>8 DEF IInv

LEMMA NextKeepsIInv == IInv /\ [Next]_vars => IInv'
<1> SUFFICES ASSUME IInv, [Next]_vars PROVE IInv'
    OBVIOUS
<1>1. CASE UNCHANGED vars
  <2>1. UNCHANGED <<mainVars, poolVars, descr, speed, todo, now, events, setup, seen, busy, stalled,
                    armed, done, mem, line, ep2, started, host, got>>
        BY <1>1 DEF vars, irqVars, ep0Vars, sockVars, bufVars, effects, hostVars
  <2>2. /\ MainInv' /\ PoolInv'
        /\ Op' = Op /\ Socket' = Socket /\ PacketSize' = PacketSize
        /\ (Decoding \/ Answering)'
        BY <2>1, Unseen
  <2>3. Types'
        BY <2>1 DEF IInv, Types, TypeOK, mainVars, poolVars
  <2>4. HandlerInv'
        BY <2>1, <2>2 DEF IInv, HandlerInv, Current, DataStage
  <2>5. BufferInv'
        BY <2>1, <2>2 DEF IInv, BufferInv, StartedAsAsked
  <2>6. HostInv'
        BY <2>1, <2>2 DEF IInv, HostInv
  <2> QED BY <2>2, <2>3, <2>4, <2>5, <2>6 DEF IInv
<1> QED BY <1>1, MainStepKeeps, InterruptKeeps, IsrStepKeeps, EvictKeeps, BusEventKeeps, SendSetupKeeps,
           DataInKeeps, DataOutKeeps, EndTransferKeeps DEF Next

LEMMA Invariance == Spec => []IInv
BY InitIInv, NextKeepsIInv, PTL DEF Spec

(***************************************************************************)
(* The ranges of what the requests change, and the table of the ring holds  *)
(* descriptors that exist (main.c:179-184, bsp/usb.c:330-342).              *)
(***************************************************************************)
THEOREM TypeCorrect == Spec => []TypeOK
BY InvTypes, Invariance, PTL

(***************************************************************************)
(* The host is answered what it asked for, and a stall if and only if the   *)
(* request is not understood (main.c:61-141).                               *)
(***************************************************************************)
THEOREM HostIsAnswered == Spec => []AnsweredAsAsked
<1>1. IInv => AnsweredAsAsked
  <2> SUFFICES ASSUME IInv, host = "idle", setup # NoSetup
               PROVE  /\ got = Expected(setup.req)
                      /\ setup.req = "configure" => ep2 = IF speed = "SS" THEN 1024 ELSE 512
      BY DEF AnsweredAsAsked
  <2>1. got = Expected(setup.req) /\ ~busy
        BY DEF IInv, HostInv
  <2>2. setup.req = "configure" => ep2 = PacketSize
        BY <2>1 DEF IInv, HostInv
  <2>3. PacketSize = IF speed = "SS" THEN 1024 ELSE 512
        BY InvTypes, SMT DEF Types, PacketSize
  <2> QED BY <2>1, <2>2, <2>3
<1> QED BY <1>1, Invariance, PTL

(***************************************************************************)
(* An acquisition is started with the parameters of its own CMD_START,      *)
(* whatever the cache does with the line of DmaBuf and when (main.c:33-58). *)
(***************************************************************************)
THEOREM StartUsesItsOwn == Spec => []StartedAsAsked
<1>1. IInv => StartedAsAsked
      BY DEF IInv, BufferInv
<1> QED BY <1>1, Invariance, PTL

-----------------------------------------------------------------------------
(***************************************************************************)
(* The use of the allocator, by main and by the handler.                    *)
(***************************************************************************)
LEMMA AllocatorInit == Init => Allocator!Init
<1> SUFFICES ASSUME Init PROVE Allocator!Init
    OBVIOUS
<1>1. Held = {}
      BY DEF Init, Held
<1>2. dscrChain \in [Allocator!Descriptor -> Allocator!ChainWord]
      BY EnoughDescriptors DEF Init, Allocator!Descriptor, Allocator!ChainWord, Allocator!NoDescriptor
<1> QED BY <1>1, <1>2 DEF Init, Allocator!Init, Allocator!NoDescriptor

\* What is held once main has connected: the ring, and the descriptor of a transfer.
LEMMA HeldByBoth ==
    ASSUME IInv, connected
    PROVE  Held = 1 .. NumBuffers \cup ({descr} \ {0})
BY RingIsFull DEF Held

LEMMA MainUsesAllocator == IInv /\ MainStep => [Allocator!Next]_(Allocator!vars)
<1> SUFFICES ASSUME IInv, MainStep PROVE [Allocator!Next]_(Allocator!vars)
    OBVIOUS
<1>1. PICK n \in 0 .. (2 * NumBuffers) :
          /\ MainAt(n) /\ ~connected
          /\ n < 2 * NumBuffers /\ n % 2 = 0 => Pick
          /\ n < 2 * NumBuffers /\ n % 2 = 1 => Take
          /\ n = 2 * NumBuffers => Connect
      BY MainStepAt
<1>2. NumBuffers \in Nat /\ n \in Nat /\ n <= 2 * NumBuffers
      BY <1>1, EnoughDescriptors
<1> DEFINE k == n \div 2
<1>3. ring = [i \in 1 .. k |-> i] /\ k \in Nat
      BY <1>1, <1>2 DEF MainAt
<1>4. firstUnallocated = k + 1 /\ freeListHead = 0 /\ descr' = descr
      BY <1>1, <1>3, MainCases DEF IInv, MainInv
<1>5. CASE Pick \/ Connect
      BY <1>4, <1>5 DEF Pick, Connect, poolVars, Held, Allocator!vars
<1>6. CASE n < 2 * NumBuffers /\ n % 2 = 1
  <2>1. k + 1 <= NumBuffers /\ k + 1 < NumDescriptors
        BY <1>2, <1>6, EnoughDescriptors
  <2>2. picked.list = FALSE /\ picked.d = k + 1
        BY <1>1, <1>4, <1>6 DEF MainAt
  <2>3. /\ ring' = Append(ring, k + 1) /\ firstUnallocated' = (k + 1) + 1
        /\ result' = k + 1 /\ calls' = 1 - calls
        /\ UNCHANGED <<freeListHead, dscrChain>>
        BY <1>1, <1>6, <2>2, Zenon DEF Take
  <2>4. ring' = [i \in 1 .. (k + 1) |-> i]
        BY <1>3, <2>3
  <2>5. Held' = Held \cup {k + 1}
        BY <1>3, <1>4, <2>4 DEF Held
  <2>6. Allocator!AllocateFresh
        BY <1>4, <2>1, <2>3, <2>5 DEF Allocator!AllocateFresh, Allocator!NoDescriptor
  <2> QED BY <2>6 DEF Allocator!Next
<1> QED BY <1>1, <1>2, <1>5, <1>6

LEMMA HandlerUsesAllocator == IInv /\ IsrStep => [Allocator!Next]_(Allocator!vars)
<1> SUFFICES ASSUME IInv, IsrStep PROVE [Allocator!Next]_(Allocator!vars)
    OBVIOUS
<1>1. todo # <<>> /\ connected /\ UNCHANGED <<mainVars, speed, hostVars>>
      BY IsrStepIs
<1>2. ring' = ring
      BY <1>1 DEF mainVars
<1>3. ASSUME UNCHANGED <<poolVars, descr>> PROVE [Allocator!Next]_(Allocator!vars)
      BY <1>2, <1>3 DEF poolVars, Held, Allocator!vars
<1>4. CASE Ack \/ AckAgain \/ Reset
      BY <1>3, <1>4 DEF Ack, AckAgain, Reset
<1>5. CASE /\ Answering /\ RequestStep(Head(todo))
           /\ todo' = Tail(todo) /\ UNCHANGED <<irqVars, now>>
  <2>1. /\ Moves /\ Op \in RequestOp /\ Head(todo)[1] = Op
        /\ Op = "fill" => Head(todo)[2] \in 1 .. NumBuffers
        BY <1>1, <1>5, RequestMoves
  <2>2. Held = 1 .. NumBuffers \cup ({descr} \ {0}) /\ Held' = 1 .. NumBuffers \cup ({descr'} \ {0})
    <3>1. Held = 1 .. NumBuffers \cup ({descr} \ {0})
          BY <1>1, HeldByBoth
    <3>2. ring' = [i \in 1 .. NumBuffers |-> i]
          BY <1>1, <1>2, RingIsFull
    <3> QED BY <3>1, <3>2 DEF Held
  <2>3. CASE Op \in {"write", "clean", "enable", "unstall", "stall", "wait", "invalidate", "read"}
    <3>1. UNCHANGED <<poolVars, descr>>
          BY <1>5, <2>1, <2>3, RequestCases, ZenonT(60) DEF WriteBuf, CleanDCacheEntry, EnableInEndpoint, AnswerSetup,
             WaitForEvent, InvalidateDCacheEntry, ReadBuf
    <3> QED BY <1>3, <3>1
  <2>4. CASE Op = "allocate"
    <3>1. Allocate
          BY <1>5, <2>1, <2>4, RequestCases
    <3>2. /\ descr = 0 /\ descr' = NumBuffers + 1 /\ firstUnallocated' = NumBuffers + 2
          /\ freeListHead' = 0
          /\ freeListHead # 0 => freeListHead = NumBuffers + 1
          /\ freeListHead = 0 => firstUnallocated = NumBuffers + 1
          BY <2>1, <2>4, <3>1, AllocateTakes
    <3>3. Held' = Held \cup {NumBuffers + 1}
          BY <2>2, <3>2, EnoughDescriptors
    <3>4. CASE freeListHead = 0
      <4>1. Allocator!AllocateFresh
            BY <3>1, <3>2, <3>3, <3>4, EnoughDescriptors
               DEF Allocate, Allocator!AllocateFresh, Allocator!NoDescriptor
      <4> QED BY <4>1 DEF Allocator!Next
    <3>5. CASE freeListHead # 0
      <4>1. Allocator!AllocateFromFreeList
            BY <3>1, <3>2, <3>3, <3>5, EnoughDescriptors
               DEF Allocate, Allocator!AllocateFromFreeList, Allocator!NoDescriptor
      <4> QED BY <4>1 DEF Allocator!Next
    <3> QED BY <3>4, <3>5
  <2>5. CASE Op = "arm"
    <3>1. Arm
          BY <1>5, <2>1, <2>5, RequestCases
    <3>2. descr = NumBuffers + 1 /\ descr \in Allocator!Descriptor
          BY <2>1, <2>5, TransferDescriptor DEF Allocator!Descriptor
    <3>3. descr \in Held /\ Held' = Held
          BY <2>2, <3>1, <3>2, EnoughDescriptors DEF Arm
    <3>4. Allocator!Fill(descr, Allocator!EndOfChain)
          BY <3>1, <3>3, SMT DEF Arm, Allocator!Fill, Allocator!EndOfChain
    <3>5. Allocator!EndOfChain \in Allocator!ChainWord
          BY DEF Allocator!ChainWord
    <3> QED BY <3>2, <3>4, <3>5 DEF Allocator!Next
  <2>6. CASE Op = "free"
    <3>1. FreeDescriptor
          BY <1>5, <2>1, <2>6, RequestCases
    <3>2. descr = NumBuffers + 1 /\ descr \in Allocator!Descriptor
          BY <2>1, <2>6, TransferDescriptor DEF Allocator!Descriptor
    <3>3. descr \in Held /\ Held' = Held \ {descr}
          BY <2>2, <3>1, <3>2, EnoughDescriptors DEF FreeDescriptor
    <3>4. Allocator!Free(descr)
          BY <3>1, <3>3 DEF FreeDescriptor, Allocator!Free
    <3> QED BY <3>2, <3>4 DEF Allocator!Next
  <2>7. CASE Op = "fill"
    <3> DEFINE i == Head(todo)[2]
    <3>1. FillRing(i) /\ i \in 1 .. NumBuffers
          BY <1>5, <2>1, <2>7, RequestCases
    <3> HIDE DEF i
    <3>2. PICK c \in 1 .. NumBuffers : dscrChain' = [dscrChain EXCEPT ![i] = c]
          BY <1>1, <3>1, FillLinks
    <3>3. i \in Allocator!Descriptor /\ c \in Allocator!ChainWord
          BY <3>1, EnoughDescriptors DEF Allocator!Descriptor, Allocator!ChainWord
    <3>4. i \in Held /\ Held' = Held
          BY <2>2, <3>1 DEF FillRing
    <3>5. Allocator!Fill(i, c)
          BY <3>1, <3>2, <3>4 DEF FillRing, Allocator!Fill
    <3> QED BY <3>3, <3>5 DEF Allocator!Next
  <2> QED BY <2>1, <2>3, <2>4, <2>5, <2>6, <2>7 DEF RequestOp
<1> QED BY <1>4, <1>5, IsrStepIs

(***************************************************************************)
(* Main and the handler use the allocator as DmaDescriptor takes for        *)
(* granted: each of their steps is one of its steps or none.  The halves of *)
(* an allocation by main are never cut by one of the handler, because main  *)
(* connects when it has made all of its own, and only a descriptor that is  *)
(* held is filled or freed (main.c:179-184, bsp/dma.c:37-59,                *)
(* bsp/usb.c:330-342).                                                      *)
(***************************************************************************)
THEOREM AllocatorIsUsedRight == Spec => AllocatorUsedRight
<1>1. IInv /\ [Next]_vars => [Allocator!Next]_(Allocator!vars)
  <2> SUFFICES ASSUME IInv, [Next]_vars PROVE [Allocator!Next]_(Allocator!vars)
      OBVIOUS
  <2>1. ASSUME UNCHANGED <<mainVars, poolVars, descr>> PROVE UNCHANGED Allocator!vars
        BY <2>1 DEF mainVars, poolVars, Held, Allocator!vars
  <2>2. CASE Interrupt \/ Evict \/ BusEvent \/ DataIn \/ DataOut \/ EndTransfer
        BY <2>1, <2>2 DEF Interrupt, Evict, BusEvent, DataIn, DataOut, EndTransfer
  <2>3. ASSUME NEW s \in Setup, SendSetup(s) PROVE UNCHANGED Allocator!vars
        BY <2>1, <2>3 DEF SendSetup
  <2>4. CASE UNCHANGED vars
        BY <2>1, <2>4 DEF vars
  <2> QED BY <2>2, <2>3, <2>4, MainUsesAllocator, HandlerUsesAllocator DEF Next
<1> QED BY <1>1, AllocatorInit, Invariance, PTL DEF Spec, AllocatorUsedRight, Allocator!Spec

\* The allocator again, with what is proved of it.
D == INSTANCE DmaDescriptorProofs WITH inUse <- Held

LEMMA SameAllocator ==
    /\ Allocator!Init <=> D!Init
    /\ [Allocator!Next]_(Allocator!vars) <=> [D!Next]_(D!vars)
<1> USE DEF Allocator!Descriptor, D!Descriptor, Allocator!NoDescriptor, D!NoDescriptor,
            Allocator!ChainWord, D!ChainWord, Allocator!EndOfChain, D!EndOfChain
<1>1. Allocator!Init <=> D!Init
      BY SMT DEF Allocator!Init, D!Init
<1>2. Allocator!vars = D!vars /\ (UNCHANGED Allocator!vars <=> UNCHANGED D!vars)
      BY DEF Allocator!vars, D!vars
<1>3. Allocator!AllocateFromFreeList <=> D!AllocateFromFreeList
      BY DEF Allocator!AllocateFromFreeList, D!AllocateFromFreeList
<1>4. Allocator!AllocateFresh <=> D!AllocateFresh
      BY DEF Allocator!AllocateFresh, D!AllocateFresh
<1>5. Allocator!AllocateFails <=> D!AllocateFails
      BY DEF Allocator!AllocateFails, D!AllocateFails
<1>6. \A d : Allocator!Free(d) <=> D!Free(d)
      BY DEF Allocator!Free, D!Free
<1>7. \A d, c : Allocator!Fill(d, c) <=> D!Fill(d, c)
      BY DEF Allocator!Fill, D!Fill
<1> QED BY <1>1, <1>2, <1>3, <1>4, <1>5, <1>6, <1>7 DEF Allocator!Next, D!Next

(***************************************************************************)
(* So the free list of the allocator stays exact in the program as a whole: *)
(* no descriptor of the ring or of a transfer on endpoint 0 is leaked, on   *)
(* the list twice or on it while in use (bsp/dma.c:37-59).                  *)
(***************************************************************************)
THEOREM FreeListStaysExact == Spec => []D!FreeListExact
<1>1. Spec => D!Spec
      BY AllocatorIsUsedRight, SameAllocator, PTL DEF AllocatorUsedRight, Allocator!Spec, D!Spec
<1>2. D!Spec => []D!FreeListExact
      BY EnoughDescriptors, D!FreeListCorrect
<1> QED BY <1>1, <1>2, PTL

===============================================================================
