------------------------ MODULE AcquisitionControlProofs ------------------------
(***************************************************************************)
(* Proofs about AcquisitionControl: which accesses have been made when a    *)
(* handler or the main loop stands before the next one, and so what an      *)
(* acquisition can rely on.                                                 *)
(***************************************************************************)
EXTENDS AcquisitionControl, TLAPS

-----------------------------------------------------------------------------
\* The programs, access by access.

LEMMA StopOpsAre ==
    /\ Len(stopOps) = 15
    /\ stopOps[1] = <<"clearGo", P0>>       /\ stopOps[2] = <<"awaitDisabled", P0>>
    /\ stopOps[3] = <<"clearGo", P1>>       /\ stopOps[4] = <<"awaitDisabled", P1>>
    /\ stopOps[5] = <<"clearGo", C>>        /\ stopOps[6] = <<"awaitDisabled", C>>
    /\ stopOps[7] = <<"pause", "GPIF">>     /\ stopOps[8] = <<"clearControl", "GPIF">>
    /\ stopOps[9] = <<"mask", "PIB">>       /\ stopOps[10] = <<"vicClear", "PIB">>
    /\ stopOps[11] = <<"clearIntr", "PIB">> /\ stopOps[12] = <<"powerOff", "PIB">>
    /\ stopOps[13] = <<"clockOff", "PIB">>
    /\ stopOps[14] = <<"flushOn", C>>       /\ stopOps[15] = <<"flushOff", C>>
BY DEF stopOps, abortOps, gpifStopOps, pibStopOps, flushOps

LEMMA StartOpsAre ==
    /\ Len(startOps) = 31
    /\ \A i \in 1 .. 15 : startOps[i] = stopOps[i]
    /\ startOps[16] = <<"clockOn", "PIB">>   /\ startOps[17] = <<"powerOn", "PIB">>
    /\ startOps[18] = <<"clearIntr", "PIB">> /\ startOps[19] = <<"unmask", "PIB">>
    /\ startOps[20] = <<"vicEnable", "PIB">>
    /\ startOps[21] = <<"setValid", "GPIF">> /\ startOps[22] = <<"switch", "GPIF">>
    /\ startOps[23] = <<"clearGo", P1>>      /\ startOps[24] = <<"awaitDisabled", P1>>
    /\ startOps[25] = <<"setGo", P1>>
    /\ startOps[26] = <<"clearGo", P0>>      /\ startOps[27] = <<"awaitDisabled", P0>>
    /\ startOps[28] = <<"setGo", P0>>
    /\ startOps[29] = <<"clearGo", C>>       /\ startOps[30] = <<"awaitDisabled", C>>
    /\ startOps[31] = <<"setGo", C>>
BY DEF startOps, stopOps, abortOps, gpifStopOps, pibStopOps, flushOps, pibStartOps, gpifStartOps,
       transferStartOps

-----------------------------------------------------------------------------
(***************************************************************************)
(* The inductive invariant.  StartInv: in start_acquisition, what has been  *)
(* done so far holds, whatever was before; nothing but the hardware comes   *)
(* in between.  RaceInv, FlushInv, StopInv: when no CMD_START came into it, *)
(* main stops alone, and the flush has its place.  LiveInv: an acquisition  *)
(* that has lost no sample is intact, and no error is left that would pause *)
(* it; main stops only what is not live any more.                           *)
(***************************************************************************)
StartInv ==
    /\ isrPc \in 2 .. 28 => ~go[P0]
    /\ isrPc \in 3 .. 28 => ~enabled[P0]
    /\ isrPc \in 29 .. 31 => go[P0]
    /\ isrPc \in 4 .. 25 => ~go[P1]
    /\ isrPc \in 5 .. 25 => ~enabled[P1]
    /\ isrPc \in 26 .. 31 => go[P1]
    /\ isrPc \in 6 .. 31 => ~go[C]
    /\ isrPc \in 7 .. 31 => ~enabled[C]
    /\ isrPc \in 9 .. 31 => ~paused
    /\ isrPc \in 22 .. 31 => valid
    /\ isrPc \in 9 .. 22 => wave = "off"
    /\ isrPc \in 23 .. 28 => wave = "waiting"
    /\ isrPc \in 17 .. 31 => clocked
    /\ isrPc \in 18 .. 31 => powered
    /\ isrPc \in 20 .. 31 => ~masked
    /\ isrPc \in 21 .. 31 => vic
    /\ isrPc \in 19 .. 28 => ~err
    /\ isrPc \in 23 .. 31 => (live => ~err)

RaceInv == ~raced /\ isrPc # 0 => mainPc = 0

FlushInv == flushing => isrPc = 15 \/ (mainPc = 15 /\ isrPc \in 0 .. 14)

StopInv ==
    ~raced /\ isrPc = 0 =>
        /\ mainPc \in 6 .. 15 => ~go[C]
        /\ mainPc \in 7 .. 15 => ~enabled[C]

LiveInv ==
    ~raced /\ isrPc = 0 =>
        /\ mainPc # 0 => ~live
        /\ live => Intact /\ ~err

IInv == TypeOK /\ StartInv /\ RaceInv /\ FlushInv /\ StopInv /\ LiveInv

LEMMA InitIInv == Init => IInv
<1> SUFFICES ASSUME Init PROVE IInv
  OBVIOUS
<1>1. TypeOK
  <2>1. mainPc \in 0 .. Len(stopOps) /\ isrPc \in 0 .. Len(startOps)
    BY StopOpsAre, StartOpsAre DEF Init
  <2>2. go \in [Socket -> BOOLEAN] /\ enabled \in [Socket -> BOOLEAN]
    BY DEF Init
  <2> QED
    BY <2>1, <2>2, Zenon DEF Init, TypeOK
<1>2. StartInv /\ RaceInv /\ StopInv
  BY DEF Init, StartInv, RaceInv, StopInv
<1>3. FlushInv /\ LiveInv
  BY DEF Init, FlushInv, LiveInv
<1> QED
  BY <1>1, <1>2, <1>3 DEF IInv

-----------------------------------------------------------------------------
\* Lemmas about an access.

LEMMA AfterIsBoolean ==
  ASSUME NEW op, NEW name, NEW v \in BOOLEAN, NEW old \in BOOLEAN
  PROVE  After(op, name, v, old) \in BOOLEAN
BY Zenon DEF After

\* Whatever the access, the registers keep their types.
LEMMA AccessTypes ==
  ASSUME TypeOK, NEW op, Access(op)
  PROVE  /\ go' \in [Socket -> BOOLEAN] /\ enabled' \in [Socket -> BOOLEAN]
         /\ wave' \in {"off", "waiting", "running", "done"}
         /\ valid' \in BOOLEAN /\ paused' \in BOOLEAN
         /\ powered' \in BOOLEAN /\ clocked' \in BOOLEAN
         /\ masked' \in BOOLEAN /\ vic' \in BOOLEAN /\ err' \in BOOLEAN
         /\ flushing' \in BOOLEAN /\ live' \in BOOLEAN /\ raced' \in BOOLEAN
<1> TRUE \in BOOLEAN /\ FALSE \in BOOLEAN
  OBVIOUS
<1>1. go' \in [Socket -> BOOLEAN]
  BY DEF TypeOK, Access
<1>2. wave' \in {"off", "waiting", "running", "done"}
  BY DEF TypeOK, Access, After
<1>3. enabled' \in [Socket -> BOOLEAN] /\ raced' \in BOOLEAN
  BY Zenon DEF TypeOK, Access
<1>4. paused' \in BOOLEAN /\ valid' \in BOOLEAN
  BY AfterIsBoolean, Zenon DEF TypeOK, Access
<1>5. powered' \in BOOLEAN /\ clocked' \in BOOLEAN
  BY AfterIsBoolean, Zenon DEF TypeOK, Access
<1>6. masked' \in BOOLEAN /\ vic' \in BOOLEAN
  BY AfterIsBoolean, ZenonT(60) DEF TypeOK, Access
<1>7. err' \in BOOLEAN /\ flushing' \in BOOLEAN /\ live' \in BOOLEAN
  BY AfterIsBoolean, ZenonT(60) DEF TypeOK, Access, ErrAfter
<1> QED
  BY <1>1, <1>2, <1>3, <1>4, <1>5, <1>6, <1>7

\* The flush is on after an access that turns it on, or when it was and this did not turn it off.
LEMMA AccessFlushing ==
  ASSUME NEW op, Access(op)
  PROVE  flushing' => op[1] = "flushOn" \/ (flushing /\ op[1] # "flushOff")
BY Zenon DEF Access, After

-----------------------------------------------------------------------------
\* The actions of the main loop.

LEMMA PollPausedKeepsIInv ==
  ASSUME IInv, PollPaused PROVE IInv'
<1> USE DEF PollPaused, sockVars, gpifVars, pibVars
<1>1. TypeOK'
  BY StopOpsAre DEF IInv, TypeOK
<1>2. StartInv' /\ RaceInv' /\ FlushInv' /\ StopInv'
  BY DEF IInv, StartInv, RaceInv, FlushInv, StopInv
<1>3. LiveInv'
  BY DEF IInv, LiveInv, Intact, GpifClocked, StatPaused
<1> QED
  BY <1>1, <1>2, <1>3 DEF IInv

LEMMA MainStepKeepsIInv ==
  ASSUME IInv, MainStep PROVE IInv'
<1> DEFINE op == stopOps[mainPc]
<1>1. isrPc = 0 /\ isrPc' = 0 /\ mainPc \in 1 .. 15 /\ mainPc' = (mainPc + 1) % 16 /\ raced' = raced
  BY StopOpsAre DEF MainStep, Access, IInv, TypeOK
<1>2. Access(op)
  BY DEF MainStep
<1>3. TypeOK'
  <2>1. mainPc' \in 0 .. Len(stopOps) /\ isrPc' \in 0 .. Len(startOps)
    BY <1>1, StopOpsAre, StartOpsAre
  <2> QED
    BY <1>2, <2>1, AccessTypes, Zenon DEF IInv, TypeOK
<1>4. StartInv' /\ RaceInv'
  BY <1>1 DEF StartInv, RaceInv
<1>5. FlushInv'
  <2> SUFFICES ASSUME flushing' PROVE mainPc' = 15
    BY <1>1 DEF FlushInv
  <2>1. op[1] = "flushOn" \/ (flushing /\ op[1] # "flushOff")
    BY <1>2, AccessFlushing
  <2>2. flushing => mainPc = 15
    BY <1>1 DEF IInv, FlushInv
  <2>3. mainPc = 14
    BY <1>1, <2>1, <2>2, StopOpsAre
  <2> QED
    BY <1>1, <2>3
<1>6. StopInv'
  <2> SUFFICES ASSUME ~raced'
               PROVE  /\ mainPc' \in 6 .. 15 => ~go'[C]
                      /\ mainPc' \in 7 .. 15 => ~enabled'[C]
    BY DEF StopInv
  <2>1. /\ mainPc \in 6 .. 15 => ~go[C]
        /\ mainPc \in 7 .. 15 => ~enabled[C]
    BY <1>1 DEF IInv, StopInv
  <2>2. go' \in [Socket -> BOOLEAN] /\ enabled' = enabled /\ go \in [Socket -> BOOLEAN]
    BY <1>2, AccessTypes DEF IInv, TypeOK, Access
  <2>3. mainPc' \in 6 .. 15 => ~go'[C]
    BY <1>1, <1>2, <2>1, <2>2, StopOpsAre DEF Access, P0, P1, C, Socket
  <2>4. mainPc' \in 7 .. 15 => ~enabled'[C]
    BY <1>1, <1>2, <2>1, <2>2, StopOpsAre DEF Access, Enabled
  <2> QED
    BY <2>3, <2>4
<1>7. LiveInv'
  BY <1>1, <1>2, StopOpsAre DEF IInv, LiveInv, Access, After
<1> QED
  BY <1>3, <1>4, <1>5, <1>6, <1>7 DEF IInv

-----------------------------------------------------------------------------
\* The interrupt handlers.

LEMMA CmdStartKeepsIInv ==
  ASSUME IInv, CmdStart PROVE IInv'
<1> USE DEF CmdStart, sockVars, gpifVars, pibVars
<1>1. TypeOK'
  <2>1. isrPc' \in 0 .. Len(startOps)
    BY StartOpsAre
  <2>2. raced' \in BOOLEAN
    BY Zenon
  <2> QED
    BY <2>1, <2>2, ZenonT(60) DEF IInv, TypeOK
<1>2. StartInv' /\ StopInv' /\ LiveInv'
  BY DEF StartInv, StopInv, LiveInv
<1>3. RaceInv'
  BY Zenon DEF RaceInv
<1>4. FlushInv'
  BY DEF IInv, TypeOK, FlushInv
<1> QED
  BY <1>1, <1>2, <1>3, <1>4 DEF IInv

\* What the last access leaves.
LEMMA StartEndsIntact ==
  ASSUME IInv, isrPc = 31, Access(startOps[31])
  PROVE  Intact' /\ (live' => ~err')
<1>1. /\ go' = [go EXCEPT ![C] = TRUE] /\ UNCHANGED <<gpifVars, powered, clocked, masked, vic>>
      /\ UNCHANGED <<flushing, live, err>>
  BY StartOpsAre DEF Access, After, ErrAfter, gpifVars
<1>2. \A s \in Socket : go'[s]
  BY <1>1 DEF IInv, TypeOK, StartInv, Socket
<1> QED
  BY <1>1, <1>2 DEF IInv, StartInv, FlushInv, Intact, GpifClocked, gpifVars

LEMMA IsrStepKeepsIInv ==
  ASSUME IInv, IsrStep PROVE IInv'
<1> DEFINE op == startOps[isrPc]
<1>1. mainPc' = mainPc /\ isrPc \in 1 .. 31 /\ isrPc' = (isrPc + 1) % 32 /\ raced' = raced
  BY StartOpsAre DEF IsrStep, Access, IInv, TypeOK
<1>2. Access(op)
  BY DEF IsrStep
<1>3. TypeOK'
  <2>1. mainPc' \in 0 .. Len(stopOps) /\ isrPc' \in 0 .. Len(startOps)
    BY <1>1, StopOpsAre, StartOpsAre DEF IInv, TypeOK
  <2> QED
    BY <1>2, <2>1, AccessTypes, Zenon DEF IInv, TypeOK
<1>4. StartInv'
  BY <1>1, <1>2, StartOpsAre, StopOpsAre
     DEF IInv, TypeOK, StartInv, Access, Enabled, ErrAfter, After, P0, P1, C, Socket
<1>5. RaceInv'
  BY <1>1 DEF IInv, RaceInv
<1>6. FlushInv'
  <2> SUFFICES ASSUME flushing' PROVE isrPc' = 15 \/ (mainPc' = 15 /\ isrPc' \in 0 .. 14)
    BY DEF FlushInv
  <2>1. op[1] = "flushOn" \/ (flushing /\ op[1] # "flushOff")
    BY <1>2, AccessFlushing
  <2>2. flushing => isrPc = 15 \/ (mainPc = 15 /\ isrPc \in 0 .. 14)
    BY DEF IInv, FlushInv
  <2>3. isrPc = 14 \/ (mainPc = 15 /\ isrPc \in 1 .. 13)
    BY <1>1, <2>1, <2>2, StartOpsAre, StopOpsAre
  <2> QED
    BY <1>1, <2>3
<1>7. StopInv' /\ LiveInv'
  <2> SUFFICES ASSUME ~raced', isrPc' = 0 PROVE StopInv' /\ LiveInv'
    BY DEF StopInv, LiveInv
  <2>1. isrPc = 31 /\ mainPc' = 0
    BY <1>1 DEF IInv, RaceInv
  <2> QED
    BY <1>2, <2>1, StartEndsIntact DEF StopInv, LiveInv
<1> QED
  BY <1>3, <1>4, <1>5, <1>6, <1>7 DEF IInv

LEMMA PibIsrKeepsIInv ==
  ASSUME IInv, PibIsr PROVE IInv'
<1> USE DEF PibIsr, cpuVars, sockVars
<1>1. TypeOK'
  BY DEF IInv, TypeOK
<1>2. StartInv' /\ RaceInv' /\ FlushInv' /\ StopInv'
  BY DEF IInv, StartInv, RaceInv, FlushInv, StopInv
<1>3. LiveInv'
  BY DEF IInv, LiveInv
<1> QED
  BY <1>1, <1>2, <1>3 DEF IInv

-----------------------------------------------------------------------------
\* The hardware.

LEMMA SocketFollowsKeepsIInv ==
  ASSUME IInv, NEW s \in Socket, SocketFollows(s) PROVE IInv'
<1> USE DEF SocketFollows, cpuVars, gpifVars, pibVars
<1>1. TypeOK'
  BY DEF IInv, TypeOK
<1>2. StartInv'
  BY DEF IInv, TypeOK, StartInv, Socket
<1>3. RaceInv' /\ FlushInv'
  BY DEF IInv, RaceInv, FlushInv
<1>4. StopInv'
  BY DEF IInv, TypeOK, StopInv, Socket
<1>5. LiveInv'
  BY ZenonT(60) DEF IInv, LiveInv, Intact, GpifClocked
<1> QED
  BY <1>1, <1>2, <1>3, <1>4, <1>5 DEF IInv

LEMMA SamplingKeepsIInv ==
  ASSUME IInv, BeginSampling \/ LoseSample PROVE IInv'
<1> USE DEF BeginSampling, LoseSample, cpuVars, sockVars, pibVars
<1>1. TypeOK'
  BY ZenonT(60) DEF IInv, TypeOK
<1>2. StartInv'
  <2>1. CASE BeginSampling
    BY <2>1 DEF IInv, TypeOK, StartInv, Socket
  <2>2. CASE LoseSample
    <3>1. isrPc \notin 9 .. 28 /\ isrPc' = isrPc
      BY <2>2 DEF IInv, StartInv
    <3>2. isrPc' \in 23 .. 31 => (live' => ~err')
      BY <2>2
    <3> QED
      BY <2>2, <3>1, <3>2 DEF IInv, StartInv
  <2> QED
    BY <2>1, <2>2
<1>3. RaceInv' /\ FlushInv' /\ StopInv'
  BY DEF IInv, RaceInv, FlushInv, StopInv
<1>4. LiveInv'
  BY DEF IInv, LiveInv, Intact, GpifClocked
<1> QED
  BY <1>1, <1>2, <1>3, <1>4 DEF IInv

LEMMA UnchangedKeepsIInv ==
  ASSUME IInv, UNCHANGED vars PROVE IInv'
BY DEF IInv, TypeOK, StartInv, RaceInv, FlushInv, StopInv, LiveInv, Intact, GpifClocked,
       vars, cpuVars, sockVars, gpifVars, pibVars

LEMMA NextKeepsIInv == IInv /\ [Next]_vars => IInv'
BY PollPausedKeepsIInv, MainStepKeepsIInv, CmdStartKeepsIInv, IsrStepKeepsIInv, PibIsrKeepsIInv,
   SocketFollowsKeepsIInv, SamplingKeepsIInv, UnchangedKeepsIInv DEF Next

LEMMA Invariance == Spec => []IInv
BY InitIInv, NextKeepsIInv, PTL DEF Spec

-----------------------------------------------------------------------------
(***************************************************************************)
(* Program counters and registers stay in their ranges.                     *)
(***************************************************************************)
THEOREM TypeCorrect == Spec => []TypeOK
<1>1. IInv => TypeOK
  BY DEF IInv
<1> QED
  BY <1>1, Invariance, PTL

(***************************************************************************)
(* An acquisition whose CMD_START did not cut into a stop is left alone     *)
(* until it loses a sample (acquisition.c:155-219, gpif.c:33-62).           *)
(***************************************************************************)
THEOREM LeftAloneUnlessRaced == Spec => []StartedUntilDoneUnlessRaced
<1>1. IInv => StartedUntilDoneUnlessRaced
  BY DEF IInv, LiveInv, StartedUntilDoneUnlessRaced, StartedUntilDone, Settled
<1> QED
  BY <1>1, Invariance, PTL

(***************************************************************************)
(* Endpoint 2 is flushed only when its socket has stopped, in a stop that   *)
(* no CMD_START came into (acquisition.c:155-163).                          *)
(***************************************************************************)
THEOREM FlushedWhenStopped == Spec => []FlushOnlyWhenStopped
<1>1. IInv => FlushOnlyWhenStopped
  BY DEF IInv, TypeOK, StartInv, RaceInv, FlushInv, StopInv, FlushOnlyWhenStopped
<1> QED
  BY <1>1, Invariance, PTL

(***************************************************************************)
(* Whatever state the acquisition before was in, and wherever in its stop   *)
(* main was, a CMD_START leaves one that runs (acquisition.c:179-206).      *)
(***************************************************************************)
THEOREM CmdStartRecovers == Spec => StartRecovers
<1>1. IInv /\ [Next]_vars => [isrPc # 0 /\ isrPc' = 0 => (live => Intact)']_vars
  <2> SUFFICES ASSUME IInv, Next, isrPc # 0, isrPc' = 0 PROVE Intact'
    OBVIOUS
  <2>1. IsrStep
    BY DEF Next, PollPaused, MainStep, CmdStart, PibIsr, SocketFollows, BeginSampling, LoseSample,
           cpuVars
  <2>2. isrPc \in 1 .. 31 /\ (isrPc + 1) % 32 = 0
    BY <2>1, StartOpsAre DEF IsrStep, IInv, TypeOK
  <2>3. isrPc = 31
    BY <2>2
  <2>4. Access(startOps[31])
    BY <2>1, <2>3 DEF IsrStep
  <2> QED
    BY <2>3, <2>4, StartEndsIntact
<1> QED
  BY <1>1, Invariance, PTL DEF Spec, StartRecovers

================================================================================
