-------------------------------- MODULE UsbLink --------------------------------
(***************************************************************************)
(* The USB link of bsp/usb.c: Fx3UsbInit and Fx3UsbConnect in main, and the *)
(* link, protocol and power interrupts, which bring the device up at super  *)
(* speed or make it fall back to high speed.                                *)
(*                                                                          *)
(* A register is the set of the bits set in it, and a function a list of    *)
(* accesses: a write, the setting or clearing of some bits, the             *)
(* acknowledgement of latched events (which are cleared by writing 1).      *)
(* Delays, and bits whose meaning nothing here depends on, are left out.    *)
(***************************************************************************)
EXTENDS Naturals, Sequences

CONSTANT MaxEvents      \* bound on the events of the hardware, a number

VARIABLES
    reg,                \* the registers
    main,               \* what main has left to do
    saved,              \* its local variable old_int_enable
    isr,                \* what the interrupt handler has left to do
    ack, expected,      \* the PHY: its acknowledgement, the strobe that is due
    vbus,               \* is there VBUS
    events,             \* the number of events so far
    both                \* were CONNECT and DISCONNECT ever latched together

vars == <<reg, main, saved, isr, ack, expected, vbus, events, both>>

Lmp == {"PORT_CFG", "PORT_CAP"}
LnkEvent == {"CONNECT", "DISCONNECT"}
ProtEvent == {"LMP", "TIMEOUT"} \X Lmp
DevEvent == {"URESET", "SUSP", "HSGRANT"}
Irq == {"USB_CORE", "GCTL_POWER"}

Bits == [CORE_CLK  |-> {"EN", "PCLK1", "PCLK2", "EPMCLK0", "EPMCLK1", "EPMCLK2"},
         OTG_CTRL  |-> {"SSDEV", "SSEPM", "DEV"},
         PHY_CONF  |-> {"RX_TERMINATION"},
         DEV_PWR   |-> {"DISCON"},
         CONTROL   |-> {"USB_POWER"},
         LTSSM     |-> {"OVERRIDE"},
         UIB_MASK  |-> {"PROT", "LNK", "DEV_CTL", "UNSERVED"},
         LNK_MASK  |-> LnkEvent,
         LNK_INTR  |-> LnkEvent,
         PROT_MASK |-> ProtEvent,
         PROT_INTR |-> ProtEvent,
         DEV_INTR  |-> DevEvent,
         LMP_TIMER |-> Lmp,                     \* those that run
         EPM0      |-> {64, 512},               \* packet size of endpoint 0
         PHY_REQ   |-> {"address", "data", "write"},
         IOPOWER   |-> {"VBUS"},
         VIC       |-> Irq]

Write(r, bits) == <<"write", r, bits>>
Set(r, bits)   == <<"set", r, bits>>
Clear(r, bits) == <<"clear", r, bits>>          \* also an acknowledgement
AckAll(r)      == Clear(r, Bits[r])
Do(op)         == <<op>>

-----------------------------------------------------------------------------
\* Stop the clock, change its sources and start it again.
clockOps(sources) == << Clear("CORE_CLK", {"EN"}), Write("CORE_CLK", sources),
                        Set("CORE_CLK", {"EN"}) >>

\* One strobe to the PHY, withdrawn when it is acknowledged.
strobeOps(bit) == << Write("PHY_REQ", {bit}), Do("acknowledged"),
                     Write("PHY_REQ", {}), Do("released") >>

\* What Fx3UsbWritePhyReg does with the super speed PHY on.
phyOps == strobeOps("address") \o strobeOps("data") \o strobeOps("write")

initOps ==
    clockOps({"PCLK2", "EPMCLK2"})
    \o << Write("CONTROL", {}), Write("OTG_CTRL", {}), Set("DEV_PWR", {"DISCON"}),
          Write("PHY_CONF", {"RX_TERMINATION"}),
          AckAll("LNK_INTR"), Write("LNK_MASK", LnkEvent),
          AckAll("PROT_INTR"), Write("PROT_MASK", ProtEvent), AckAll("DEV_INTR"),
          Write("EPM0", {64}), Write("UIB_MASK", {}), Clear("VIC", Irq) >>

connectOps == << Clear("IOPOWER", {"VBUS"}), Set("VIC", {"GCTL_POWER"}), Do("ifVbus") >>

\* Fx3UsbEnablePhy up to the save of the enabled interrupts, and after it.
preparePhyOps ==
    << AckAll("LNK_INTR"), Write("LNK_MASK", LnkEvent),
       AckAll("PROT_INTR"), Write("PROT_MASK", ProtEvent), AckAll("DEV_INTR"),
       Write("UIB_MASK", {"PROT", "LNK", "DEV_CTL"}), Set("VIC", {"USB_CORE"}),
       Set("CONTROL", {"USB_POWER"}), Write("LMP_TIMER", Lmp), Write("PHY_CONF", {}) >>

startPhyOps ==
    clockOps({"PCLK2", "EPMCLK2"})
    \o << Write("LTSSM", {"OVERRIDE"}), Set("OTG_CTRL", {"SSDEV"}), Do("phy"),
          Clear("LTSSM", {"OVERRIDE"}), Write("PHY_CONF", {"RX_TERMINATION"}),
          Write("CORE_CLK", {"EN", "PCLK1", "EPMCLK1"}) >>

\* Mutant: the USB interrupt stays enabled.
enablePhyUnmasked == preparePhyOps \o << Do("save") >> \o startPhyOps \o << Do("restore") >>

\* Mutant: the enabled interrupts are saved after they are cleared.
enablePhySavedLate ==
    preparePhyOps \o << AckAll("VIC"), Do("save") >> \o startPhyOps \o << Do("restore") >>

enablePhyOps ==
    preparePhyOps \o << Do("save"), AckAll("VIC") >> \o startPhyOps \o << Do("restore") >>

UibGroups == {"PROT", "LNK", "DEV_CTL", "UNSERVED"}

\* Fx3UsbConnectHighSpeed, in three parts.
superSpeedOffOps ==
    << Do("phy"), Write("LTSSM", {"OVERRIDE"}) >>
    \o clockOps({"PCLK2", "EPMCLK2"})
    \o << Clear("OTG_CTRL", {"SSDEV"}), Clear("OTG_CTRL", {"SSEPM"}),
          Clear("UIB_MASK", UibGroups), Clear("PHY_CONF", {"RX_TERMINATION"}),
          Clear("CONTROL", {"USB_POWER"}), Set("CONTROL", {"USB_POWER"}), AckAll("DEV_INTR") >>

superSpeedEventsOffOps == << Write("LNK_MASK", {}), AckAll("LNK_INTR"),
                             Write("PROT_MASK", {}), AckAll("PROT_INTR") >>

highSpeedOnOps ==
    << Set("UIB_MASK", UibGroups), Write("DEV_PWR", {"DISCON"}), Set("OTG_CTRL", {"DEV"}) >>
    \o clockOps({"PCLK2", "EPMCLK0"})
    \o << Clear("DEV_PWR", {"DISCON"}) >>

\* Mutant: the events of super speed are left as they are.
connectHighSpeedEventsOn == superSpeedOffOps \o highSpeedOnOps

connectHighSpeedOps == superSpeedOffOps \o superSpeedEventsOffOps \o highSpeedOnOps

\* Mutant: endpoint 0 gets the packet size of endpoint 2.
connectSuperSpeedEp2 ==
    << Do("phy"), Do("phy") >>
    \o clockOps({"PCLK1", "EPMCLK1"})
    \o << Write("PHY_CONF", {"RX_TERMINATION"}), Set("OTG_CTRL", {"SSEPM"}),
          Do("phy"), Do("phy"), Write("EPM0", {1024}) >>

connectSuperSpeedOps ==
    << Do("phy"), Do("phy") >>
    \o clockOps({"PCLK1", "EPMCLK1"})
    \o << Write("PHY_CONF", {"RX_TERMINATION"}), Set("OTG_CTRL", {"SSEPM"}),
          Do("phy"), Do("phy"), Write("EPM0", {512}) >>

\* Mutant: the timeout is acknowledged while its timer still runs.
portOpsAckFirst(k) == << Clear("PROT_INTR", {<<"TIMEOUT", k>>}), Clear("LMP_TIMER", {k}) >>

\* Of the handler: LMP_PORT_CFG_EV and LMP_PORT_CAP_EV.
portOps(k) == << Clear("LMP_TIMER", {k}), Clear("PROT_INTR", {<<"TIMEOUT", k>>}) >>

\* Mutant: the power interrupt is not acknowledged.
powerUnacknowledged == << Clear("IOPOWER", {}) >>

\* Fx3UsbGctlPowerIsr.
powerOps == << AckAll("IOPOWER") >>

-----------------------------------------------------------------------------
\* The state of the registers that a boot loader may have left.
Init ==
    /\ \E otg \in SUBSET Bits.OTG_CTRL, pwr \in SUBSET Bits.DEV_PWR, lnk \in SUBSET LnkEvent :
        reg = [r \in DOMAIN Bits |-> CASE r = "OTG_CTRL" -> otg
                                       [] r = "DEV_PWR"  -> pwr
                                       [] r = "LNK_INTR" -> lnk
                                       [] r = "CORE_CLK" -> {"EN", "PCLK1", "EPMCLK1"}
                                       [] OTHER          -> {}]
    /\ main = initOps \o connectOps
    /\ saved = {} /\ isr = <<>>
    /\ ack = FALSE /\ expected = "address"
    /\ vbus \in BOOLEAN
    /\ events = 0 /\ both = FALSE

\* The effect of an access on a register.
Access(op) ==
    reg' = [reg EXCEPT ![op[2]] = CASE op[1] = "write" -> op[3]
                                    [] op[1] = "set"   -> @ \cup op[3]
                                    [] op[1] = "clear" -> @ \ op[3]]

\* Fx3UsbWritePhyReg returns at once when the super speed PHY is off.
WritePhyReg == IF "SSDEV" \in reg.OTG_CTRL THEN phyOps ELSE <<>>

\* The steps main and the handler share: todo is the list, of either.
Step(todo, todoNext) ==
    \/ /\ Len(Head(todo)) = 3
       /\ Access(Head(todo))
       /\ todoNext = Tail(todo)
    \/ /\ Head(todo) = Do("phy")
       /\ todoNext = WritePhyReg \o Tail(todo)
       /\ UNCHANGED reg
    \/ /\ \/ Head(todo) = Do("acknowledged") /\ ack
          \/ Head(todo) = Do("released") /\ ~ack
       /\ todoNext = Tail(todo)
       /\ UNCHANGED reg

MainStep ==
    /\ isr = <<>> /\ main # <<>>
    /\ \/ Step(main, main') /\ UNCHANGED saved
       \/ /\ Head(main) = Do("ifVbus")
          /\ main' = IF vbus THEN enablePhyOps ELSE <<>>
          /\ UNCHANGED <<reg, saved>>
       \/ /\ Head(main) = Do("save")
          /\ saved' = reg.VIC
          /\ main' = Tail(main)
          /\ UNCHANGED reg
       \/ /\ Head(main) = Do("restore")
          /\ Access(Set("VIC", saved))
          /\ main' = Tail(main)
          /\ UNCHANGED saved
    /\ UNCHANGED <<isr, ack, expected, vbus, events, both>>

\* The loop of main touches nothing of this.
MainLoop == main = <<>> /\ isr = <<>> /\ UNCHANGED vars

-----------------------------------------------------------------------------
\* The interrupt handlers.

LnkRequest == reg.LNK_INTR \cap reg.LNK_MASK
ProtRequest == reg.PROT_INTR \cap reg.PROT_MASK

\* UIB_INTR, as far as UIB_INTR_MASK lets it through.
UibRequest == reg.UIB_MASK \cap ((IF LnkRequest # {} THEN {"LNK"} ELSE {})
                                 \cup (IF ProtRequest # {} THEN {"PROT"} ELSE {})
                                 \cup (IF reg.DEV_INTR # {} THEN {"DEV_CTL"} ELSE {}))

OnlyIf(p, ops) == IF p THEN ops ELSE <<>>

\* Mutant: the events of high speed are reported and not acknowledged.
UsbCoreIsrDevUnacknowledged ==
    /\ isr = <<>>
    /\ "USB_CORE" \in reg.VIC /\ UibRequest # {}
    /\ isr' = OnlyIf("PROT" \in UibRequest, << Do("PROT") >>)
           \o OnlyIf("LNK" \in UibRequest, << Do("LNK") >>)
           \o OnlyIf("DEV_CTL" \in UibRequest, << Clear("DEV_INTR", {}) >>)
    /\ UNCHANGED <<reg, main, saved, ack, expected, vbus, events, both>>

UsbCoreIsr ==
    /\ isr = <<>>
    /\ "USB_CORE" \in reg.VIC /\ UibRequest # {}
    /\ isr' = OnlyIf("PROT" \in UibRequest, << Do("PROT") >>)
           \o OnlyIf("LNK" \in UibRequest, << Do("LNK") >>)
           \o OnlyIf("DEV_CTL" \in UibRequest, << AckAll("DEV_INTR") >>)
    /\ UNCHANGED <<reg, main, saved, ack, expected, vbus, events, both>>

GctlPowerIsr ==
    /\ isr = <<>>
    /\ "GCTL_POWER" \in reg.VIC /\ reg.IOPOWER # {}
    /\ isr' = powerOps
    /\ UNCHANGED <<reg, main, saved, ack, expected, vbus, events, both>>

\* Mutant: of the requests only those are acknowledged that something is done for.
ProtPartTimeoutUnacknowledged ==
    /\ Head(isr) = Do("PROT")
    /\ Access(Clear("PROT_INTR", ProtRequest \cap ({"LMP"} \X Lmp)))
    /\ isr' = OnlyIf(<<"LMP", "PORT_CFG">> \in ProtRequest, portOps("PORT_CFG"))
           \o OnlyIf(<<"LMP", "PORT_CAP">> \in ProtRequest, portOps("PORT_CAP"))
           \o Tail(isr)

ProtPart ==
    /\ Head(isr) = Do("PROT")
    /\ Access(Clear("PROT_INTR", ProtRequest))
    /\ isr' = OnlyIf(<<"LMP", "PORT_CFG">> \in ProtRequest, portOps("PORT_CFG"))
           \o OnlyIf(<<"LMP", "PORT_CAP">> \in ProtRequest, portOps("PORT_CAP"))
           \o Tail(isr)

\* Mutant: the event of the link is not acknowledged.
LnkPartUnacknowledged ==
    /\ Head(isr) = Do("LNK")
    /\ UNCHANGED reg
    /\ isr' = OnlyIf("DISCONNECT" \in LnkRequest, connectHighSpeedOps)
           \o OnlyIf("CONNECT" \in LnkRequest, connectSuperSpeedOps)
           \o Tail(isr)

LnkPart ==
    /\ Head(isr) = Do("LNK")
    /\ Access(Clear("LNK_INTR", LnkRequest))
    /\ isr' = OnlyIf("DISCONNECT" \in LnkRequest, connectHighSpeedOps)
           \o OnlyIf("CONNECT" \in LnkRequest, connectSuperSpeedOps)
           \o Tail(isr)

IsrStep ==
    /\ isr # <<>>
    /\ ProtPart \/ LnkPart \/ Step(isr, isr')
    /\ UNCHANGED <<main, saved, ack, expected, vbus, events, both>>

-----------------------------------------------------------------------------
\* The hardware.

Strobe == reg.PHY_REQ

\* The PHY follows a strobe with its acknowledgement, when it is powered.
PhyFollows ==
    /\ "SSDEV" \in reg.OTG_CTRL /\ "USB_POWER" \in reg.CONTROL
    /\ ack # (Strobe # {})
    /\ ack' = ~ack
    /\ expected' = IF ack THEN expected
                   ELSE [address |-> "data", data |-> "write", write |-> "address"][expected]
    /\ UNCHANGED <<reg, main, saved, isr, vbus, events, both>>

Latch(r, bit) ==
    /\ events < MaxEvents
    /\ events' = events + 1
    /\ Access(Set(r, {bit}))
    /\ UNCHANGED <<main, saved, isr, ack, expected>>

\* The link comes up or goes down, with the super speed PHY on.
LinkEvent(e) ==
    /\ "SSDEV" \in reg.OTG_CTRL
    /\ Latch("LNK_INTR", e)
    /\ both' = (both \/ reg'.LNK_INTR = LnkEvent)
    /\ UNCHANGED vbus

\* The partner's LMP arrives, or its timer runs out.
PortEvent(kind, k) ==
    /\ "SSDEV" \in reg.OTG_CTRL
    /\ kind = "TIMEOUT" => k \in reg.LMP_TIMER
    /\ Latch("PROT_INTR", <<kind, k>>)
    /\ UNCHANGED <<vbus, both>>

\* Events of high speed that the handler only reports.
DeviceEvent(e) ==
    /\ "DEV" \in reg.OTG_CTRL
    /\ Latch("DEV_INTR", e)
    /\ UNCHANGED <<vbus, both>>

VbusChanges ==
    /\ Latch("IOPOWER", "VBUS")
    /\ vbus' = ~vbus
    /\ UNCHANGED both

Next ==
    \/ MainStep \/ MainLoop
    \/ UsbCoreIsr \/ GctlPowerIsr \/ IsrStep
    \/ PhyFollows
    \/ \E e \in LnkEvent : LinkEvent(e)
    \/ \E kind \in {"LMP", "TIMEOUT"}, k \in Lmp : PortEvent(kind, k)
    \/ \E e \in DevEvent : DeviceEvent(e)
    \/ VbusChanges

Spec == Init /\ [][Next]_vars

(***************************************************************************)
(* The processor goes on, takes its interrupts, and the PHY answers.        *)
(***************************************************************************)
Fairness ==
    /\ WF_vars(MainStep) /\ WF_vars(IsrStep)
    /\ WF_vars(UsbCoreIsr) /\ WF_vars(GctlPowerIsr)
    /\ WF_vars(PhyFollows)

FairSpec == Spec /\ Fairness

-----------------------------------------------------------------------------
\* The ranges of the variables.
TypeOK ==
    /\ \A r \in DOMAIN Bits : reg[r] \subseteq Bits[r]
    /\ saved \subseteq Irq
    /\ ack \in BOOLEAN /\ expected \in Bits.PHY_REQ
    /\ events \in 0 .. MaxEvents /\ both \in BOOLEAN

Idle == main = <<>> /\ isr = <<>>
HighSpeed == "DISCON" \notin reg.DEV_PWR
SuperSpeed == "SSDEV" \in reg.OTG_CTRL

(***************************************************************************)
(* Clocks, modes and interrupts agree with the kind of connection.  At high *)
(* speed, that is with the pull-up on D+, the endpoint manager is in USB    *)
(* 2.0 mode, with its clock, and the super speed PHY and its termination    *)
(* are off; at super speed, or waiting for it, there are the other clock,   *)
(* the termination and the events that can make it fall back; else, without *)
(* VBUS at boot, everything is off (usb.c:66-147, 190-291, 415-422).        *)
(***************************************************************************)
ModesAgree ==
    Idle =>
        /\ HighSpeed => /\ reg.OTG_CTRL = {"DEV"} /\ reg.PHY_CONF = {}
                        /\ reg.CORE_CLK = {"EN", "PCLK2", "EPMCLK0"}
        /\ SuperSpeed => /\ ~HighSpeed
                         /\ reg.CORE_CLK = {"EN", "PCLK1", "EPMCLK1"}
                         /\ reg.PHY_CONF = {"RX_TERMINATION"}
                         /\ reg.LNK_MASK = LnkEvent
        /\ HighSpeed \/ SuperSpeed => /\ reg.CONTROL = {"USB_POWER"} /\ reg.VIC = Irq
                                      /\ {"LNK", "PROT", "DEV_CTL"} \subseteq reg.UIB_MASK
        /\ ~HighSpeed /\ ~SuperSpeed => reg.OTG_CTRL = {} /\ reg.CONTROL = {}

(***************************************************************************)
(* So it is unless the link came up and went down, or the other way round,  *)
(* before the handler read which it was (usb.c:409-422).                    *)
(***************************************************************************)
ModesAgreeUnlessBoth == ~both => ModesAgree

(***************************************************************************)
(* Once the partner's LMP has been handled, its timeout is not reported any *)
(* more, whenever the timer ran out (usb.c:394-406).                        *)
(***************************************************************************)
NoLateTimeout ==
    Idle /\ SuperSpeed =>
        \A k \in Lmp : k \notin reg.LMP_TIMER => <<"TIMEOUT", k>> \notin reg.PROT_INTR

(***************************************************************************)
(* The accesses to the PHY by main and by the handler do not cut into each  *)
(* other: it gets address, data and write strobes in turn, and each only    *)
(* after it has released the one before (usb.c:38-62, 242-244, 277).        *)
(***************************************************************************)
PhyInOrder ==
    [][reg'.PHY_REQ \notin {{}, reg.PHY_REQ} => ~ack /\ reg'.PHY_REQ = {expected}]_vars

(***************************************************************************)
(* The fallback to high speed is final: no event of the super speed link    *)
(* that was latched on the way makes the handler take the device off the    *)
(* bus again (usb.c:108-112, 415-422).                                      *)
(***************************************************************************)
FallbackIsFinal ==
    [][main = <<>> /\ HighSpeed => HighSpeed' /\ ~SuperSpeed']_vars

\* A cause is raised and enabled, and its vector is not masked.
InterruptDue ==
    \/ "USB_CORE" \in reg.VIC /\ UibRequest # {}
    \/ "GCTL_POWER" \in reg.VIC /\ reg.IOPOWER # {}

(***************************************************************************)
(* Again and again main is in its loop, no handler runs and no interrupt is *)
(* due: neither main nor a handler waits for ever for the PHY, and no cause *)
(* that is enabled calls a handler over and over, so that main would never  *)
(* poll again (usb.c:38-62, 344-530, main.c:186).                           *)
(***************************************************************************)
NothingWaitsForEver == []<>(Idle /\ ~InterruptDue)

(***************************************************************************)
(* At high speed endpoint 0 has the packet size that the device descriptor  *)
(* announces (descriptors.c:21).                                            *)
(***************************************************************************)
Ep0AsAnnounced == Idle /\ HighSpeed => reg.EPM0 = {64}

================================================================================
