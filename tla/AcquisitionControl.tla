--------------------------- MODULE AcquisitionControl ---------------------------
(***************************************************************************)
(* Who starts and who stops an acquisition.  The USB interrupt handler      *)
(* starts one for every CMD_START (start_acquisition, which first stops the *)
(* one before); the handler of the PIB pauses the GPIF when a sample was    *)
(* lost; the main loop polls for a paused GPIF and stops the acquisition    *)
(* (poll_acquisition).  Interrupt handlers run to their end, the main loop  *)
(* can be interrupted between any two accesses to a register, and the       *)
(* hardware runs on meanwhile.                                              *)
(*                                                                          *)
(* A program is a sequence of accesses to a register of a socket, the GPIF, *)
(* the PIB or an endpoint.  stop_acquisition and start_acquisition share    *)
(* one, stopOps, as they share the code.                                    *)
(***************************************************************************)
EXTENDS Integers, Sequences

VARIABLES
    mainPc,     \* the next access of the main loop in stopOps, 0 when polling
    isrPc,      \* the next access of the USB handler in startOps, 0 outside it
    go,         \* GO_ENABLE of the sockets
    enabled,    \* ENABLED of the sockets, which follows GO_ENABLE
    valid,      \* WAVEFORM_VALID
    paused,     \* PAUSE
    wave,       \* the GPIF: "off", "waiting" in a first state, "running", "done"
    powered,    \* PIB_POWER
    clocked,    \* CLK_EN of PIB_CORE_CLK
    masked,     \* is GPIF_ERR off in PIB_INTR_MASK
    vic,        \* is the interrupt of the PIB enabled in the VIC
    err,        \* GPIF_ERR in PIB_INTR
    flushing,   \* SOCKET_FLUSH of endpoint 2
    live,       \* was an acquisition started that has not lost a sample
    raced       \* did the last CMD_START come while the main loop was stopping

cpuVars == <<mainPc, isrPc>>
sockVars == <<go, enabled>>
gpifVars == <<valid, paused, wave>>
pibVars == <<powered, clocked, masked, vic, err>>
vars == <<cpuVars, sockVars, gpifVars, pibVars, flushing, live, raced>>

P0 == "PIB0"
P1 == "PIB1"
C == "UIB2"
Socket == {P0, P1, C}

-----------------------------------------------------------------------------
\* The accesses of Fx3DmaAbortSocket, Fx3GpifStop, Fx3GpifPibStop and the flush.
abortOps(s) == << <<"clearGo", s>>, <<"awaitDisabled", s>> >>
gpifStopOps == << <<"pause", "GPIF">>, <<"clearControl", "GPIF">> >>
pibStopOps == << <<"mask", "PIB">>, <<"vicClear", "PIB">>, <<"clearIntr", "PIB">>,
                 <<"powerOff", "PIB">>, <<"clockOff", "PIB">> >>
flushOps == << <<"flushOn", C>>, <<"flushOff", C>> >>

\* Mutant: the endpoint is flushed before the sockets are aborted.
stopOpsFlushFirst == flushOps \o abortOps(P0) \o abortOps(P1) \o abortOps(C)
                     \o gpifStopOps \o pibStopOps

stopOps == abortOps(P0) \o abortOps(P1) \o abortOps(C) \o gpifStopOps \o pibStopOps \o flushOps

\* The accesses of Fx3GpifPibStart, Fx3GpifStart and Fx3DmaTransferStart.
pibStartOps == << <<"clockOn", "PIB">>, <<"powerOn", "PIB">>, <<"clearIntr", "PIB">>,
                  <<"unmask", "PIB">>, <<"vicEnable", "PIB">> >>
gpifStartOps == << <<"setValid", "GPIF">>, <<"switch", "GPIF">> >>
transferStartOps(s) == << <<"clearGo", s>>, <<"awaitDisabled", s>>, <<"setGo", s>> >>

\* Mutant: the acquisition before is not stopped.
startOpsUnstopped == pibStartOps \o gpifStartOps
                     \o transferStartOps(P1) \o transferStartOps(P0) \o transferStartOps(C)

startOps == stopOps \o pibStartOps \o gpifStartOps
            \o transferStartOps(P1) \o transferStartOps(P0) \o transferStartOps(C)

\* What an access waits for.
Enabled(op) == op[1] = "awaitDisabled" => ~enabled[op[2]]

\* A register after an access: v if the access is name, else unchanged.
After(op, name, v, old) == IF op[1] = name THEN v ELSE old

\* Mutant: GPIF_ERR is not written back, and stays set.
ErrStays(op) == err

\* GPIF_ERR after an access; PIB_INTR is cleared by writing ones.
ErrAfter(op) == After(op, "clearIntr", FALSE, err)

Access(op) ==
    /\ Enabled(op)
    /\ go' = CASE op[1] = "clearGo" -> [go EXCEPT ![op[2]] = FALSE]
               [] op[1] = "setGo"   -> [go EXCEPT ![op[2]] = TRUE]
               [] OTHER             -> go
    /\ paused' = After(op, "pause", TRUE, After(op, "clearControl", FALSE, paused))
    /\ valid' = After(op, "setValid", TRUE, After(op, "clearControl", FALSE, valid))
    /\ wave' = After(op, "switch", "waiting",
                 IF op[1] \in {"clearControl", "powerOff"} THEN "off" ELSE wave)
    /\ powered' = After(op, "powerOn", TRUE, After(op, "powerOff", FALSE, powered))
    /\ clocked' = After(op, "clockOn", TRUE, After(op, "clockOff", FALSE, clocked))
    /\ masked' = After(op, "mask", TRUE, After(op, "unmask", FALSE, masked))
    /\ vic' = After(op, "vicEnable", TRUE, After(op, "vicClear", FALSE, vic))
    /\ err' = ErrAfter(op)
    /\ flushing' = After(op, "flushOn", TRUE, After(op, "flushOff", FALSE, flushing))
    /\ live' = After(op, "switch", TRUE, live)
    /\ UNCHANGED <<enabled, raced>>

Init ==
    /\ mainPc = 0 /\ isrPc = 0
    /\ go = [s \in Socket |-> FALSE] /\ enabled = [s \in Socket |-> FALSE]
    /\ valid = FALSE /\ paused = FALSE /\ wave = "off"
    /\ powered = FALSE /\ clocked = FALSE /\ masked = TRUE /\ vic = FALSE /\ err = FALSE
    /\ flushing = FALSE
    /\ live = FALSE /\ raced = FALSE

-----------------------------------------------------------------------------
\* The main loop.

\* Mutant: the main loop looks for a GPIF that is done and not for a paused one.
StatDone == valid /\ ~paused /\ wave = "done"

\* Fx3GpifGetStat answers PAUSED.
StatPaused == valid /\ paused

\* poll_acquisition finds the GPIF paused: it goes on to stop_acquisition.
PollPaused ==
    /\ isrPc = 0
    /\ mainPc = 0
    /\ StatPaused
    /\ mainPc' = 1
    /\ UNCHANGED <<isrPc, sockVars, gpifVars, pibVars, flushing, live, raced>>

\* Mutant: the last access of stop_acquisition does not return to the poll.
MainStepOn ==
    /\ isrPc = 0
    /\ mainPc # 0
    /\ Access(stopOps[mainPc])
    /\ mainPc' = mainPc + 1
    /\ UNCHANGED isrPc

\* An access of stop_acquisition, called by poll_acquisition.
MainStep ==
    /\ isrPc = 0
    /\ mainPc # 0
    /\ Access(stopOps[mainPc])
    /\ mainPc' = (mainPc + 1) % (Len(stopOps) + 1)
    /\ UNCHANGED isrPc

-----------------------------------------------------------------------------
\* The interrupt handlers.

\* A CMD_START was received: VendorCommand calls start_acquisition.
CmdStart ==
    /\ isrPc = 0
    /\ isrPc' = 1
    /\ raced' = (mainPc # 0)
    /\ UNCHANGED <<mainPc, sockVars, gpifVars, pibVars, flushing, live>>

\* An access of start_acquisition.
IsrStep ==
    /\ isrPc # 0
    /\ Access(startOps[isrPc])
    /\ isrPc' = (isrPc + 1) % (Len(startOps) + 1)
    /\ UNCHANGED mainPc

\* Fx3GpifPibIsr: it acknowledges the error and pauses the GPIF.
PibIsr ==
    /\ isrPc = 0
    /\ vic /\ err /\ ~masked
    /\ err' = FALSE
    /\ paused' = TRUE
    /\ UNCHANGED <<cpuVars, sockVars, valid, wave, powered, clocked, masked, vic, flushing, live,
                   raced>>

-----------------------------------------------------------------------------
\* The hardware.

\* ENABLED of a socket follows GO_ENABLE.
SocketFollows(s) ==
    /\ enabled[s] # go[s]
    /\ enabled' = [enabled EXCEPT ![s] = go[s]]
    /\ UNCHANGED <<cpuVars, go, gpifVars, pibVars, flushing, live, raced>>

GpifClocked == valid /\ ~paused /\ powered /\ clocked

\* The first buffer is ready: the GPIF leaves its first state.
BeginSampling ==
    /\ GpifClocked
    /\ wave = "waiting"
    /\ enabled[P0]
    /\ wave' = "running"
    /\ UNCHANGED <<cpuVars, sockVars, valid, paused, pibVars, flushing, live, raced>>

\* A sample finds no buffer, since the host is slow or the socket aborted.
LoseSample ==
    /\ GpifClocked
    /\ wave = "running"
    /\ wave' = "done"
    /\ err' = TRUE
    /\ live' = FALSE
    /\ UNCHANGED <<cpuVars, sockVars, valid, paused, powered, clocked, masked, vic, flushing, raced>>

Next ==
    \/ PollPaused \/ MainStep
    \/ CmdStart \/ IsrStep \/ PibIsr
    \/ \E s \in Socket : SocketFollows(s)
    \/ BeginSampling \/ LoseSample

Spec == Init /\ [][Next]_vars

(***************************************************************************)
(* The processor runs the handlers that are requested and, when there are   *)
(* none, the main loop; a socket follows its GO_ENABLE.  Nothing is assumed *)
(* of the host or of the signals sampled.                                   *)
(***************************************************************************)
Fairness ==
    /\ WF_vars(PollPaused) /\ WF_vars(MainStep)
    /\ WF_vars(IsrStep) /\ WF_vars(PibIsr)
    /\ \A s \in Socket : WF_vars(SocketFollows(s))

FairSpec == Spec /\ Fairness

-----------------------------------------------------------------------------
\* The ranges of the variables.
TypeOK ==
    /\ mainPc \in 0 .. Len(stopOps)
    /\ isrPc \in 0 .. Len(startOps)
    /\ go \in [Socket -> BOOLEAN] /\ enabled \in [Socket -> BOOLEAN]
    /\ wave \in {"off", "waiting", "running", "done"}
    /\ valid \in BOOLEAN /\ paused \in BOOLEAN /\ powered \in BOOLEAN /\ clocked \in BOOLEAN
    /\ masked \in BOOLEAN /\ vic \in BOOLEAN /\ err \in BOOLEAN /\ flushing \in BOOLEAN
    /\ live \in BOOLEAN /\ raced \in BOOLEAN

\* The acquisition is set up to sample, send and notice the loss of a sample.
Intact ==
    /\ \A s \in Socket : go[s]
    /\ GpifClocked
    /\ vic /\ ~masked
    /\ ~flushing

\* Nothing is being started or stopped.
Settled == isrPc = 0 /\ mainPc = 0

(***************************************************************************)
(* An acquisition is left alone until it loses a sample: neither an error   *)
(* of the acquisition before it pauses it, nor does the main loop stop it   *)
(* (acquisition.c:216, "GPIF done, stopping DMA").                          *)
(***************************************************************************)
StartedUntilDone == Settled /\ live => Intact

(***************************************************************************)
(* An acquisition that was started when nothing was being stopped is left   *)
(* alone until it loses a sample, also when the CMD_START before it had     *)
(* come in the middle of a stop (acquisition.c:155-219).                    *)
(***************************************************************************)
StartedUntilDoneUnlessRaced == ~raced => StartedUntilDone

(***************************************************************************)
(* A CMD_START leaves an acquisition that runs, whatever state the one      *)
(* before was in: running, overrun, or half stopped by the main loop.       *)
(***************************************************************************)
StartRecovers == [][isrPc # 0 /\ isrPc' = 0 => (live => Intact)']_vars

(***************************************************************************)
(* Endpoint 2 is flushed only while nothing is sent to it, or the flush     *)
(* would take part of the stream away (acquisition.c:155-163), unless a     *)
(* CMD_START came in the middle of a stop.                                  *)
(***************************************************************************)
FlushOnlyWhenStopped == ~raced /\ flushing => ~enabled[C]

(***************************************************************************)
(* When a sample was lost the DMA is stopped or the acquisition restarted,  *)
(* within one turn of the main loop.                                        *)
(***************************************************************************)
LossStopsDma == ~live ~> (live \/ \A s \in Socket : ~enabled[s])

(***************************************************************************)
(* When a sample was lost the DMA is stopped, the acquisition restarted, or *)
(* the stop interrupted by a CMD_START (acquisition.c:213-219, gpif.c:33).  *)
(***************************************************************************)
LossStopsDmaUnlessRaced ==
    ~live /\ ~raced ~> (raced \/ live \/ \A s \in Socket : ~enabled[s])

===============================================================================
