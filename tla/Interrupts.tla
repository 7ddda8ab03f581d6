------------------------------- MODULE Interrupts -------------------------------
(***************************************************************************)
(* The interrupt controller (VIC), the vectors and the processor's mask,    *)
(* from the boot loader, which used interrupts of its own, to the main      *)
(* loop.  An interrupt is taken through the exception vectors of            *)
(* bsp/vectors.S, which jump to the address that the VIC holds for its      *)
(* line; the handler ends by writing VIC_ADDRESS.  The main program and the *)
(* handlers are lists of accesses still to do.                              *)
(***************************************************************************)
EXTENDS Naturals, Sequences

CONSTANT MaxRaised          \* bound: how often devices raise their lines

\* bsp/irq.h; UART_CORE stands for the lines that only the boot loader uses.
FX3_IRQ == [GPIF_CORE |-> 7, USB_CORE |-> 9, UART_CORE |-> 18, GCTL_POWER |-> 21]
Line == DOMAIN FX3_IRQ
Ours == Line \ {"UART_CORE"}

VARIABLES
    main, isr,              \* the accesses left to main, and to a handler
    irqMasked,              \* the bits I and F of the CPSR, as main set them
    installed, low,         \* are our vectors at address 0, and used
    enable, select,         \* VIC_INT_ENABLE, VIC_INT_SELECT: sets of lines
    vec,                    \* VIC_VEC_ADDRESS: whose handler, by line
    active,                 \* VIC_ADDRESS was read and not written since
    open, raised,           \* lines that a device may raise, and has raised
    oldIntEnable,           \* old_int_enable of Fx3UsbEnablePhy
    taken,                  \* the last exception: its line and what it ran
    count                   \* lines raised so far

vicVars == <<enable, select, vec, active>>
cpuVars == <<irqMasked, installed, low>>
devVars == <<open, raised, count>>
vars == <<main, isr, cpuVars, vicVars, devVars, oldIntEnable, taken>>

NoHandler == "boot loader"

-----------------------------------------------------------------------------
\* Mutant: the interrupts of the boot loader stay enabled.
irqInitOpsUncleared == << <<"select", {}>>, <<"install">>, <<"base">> >>

\* Fx3IrqInit
irqInitOps == << <<"clear", Line>>, <<"select", {}>>, <<"install">>, <<"base">> >>

\* Mutant: the power interrupt has no handler.
usbInitOpsPowerless ==
    << <<"shut", "USB_CORE">>, <<"vector", "USB_CORE">>, <<"clear", {"GCTL_POWER", "USB_CORE"}>> >>

\* Fx3UsbInit
usbInitOps ==
    << <<"shut", "USB_CORE">>, <<"vector", "USB_CORE">>, <<"vector", "GCTL_POWER">>,
       <<"clear", {"GCTL_POWER", "USB_CORE"}>> >>

connectOps == << <<"ack", "GCTL_POWER">>, <<"open", "GCTL_POWER">>, <<"enable", {"GCTL_POWER"}>> >>

\* Mutant: only the USB interrupt is enabled again.
enablePhyOpsPowerless ==
    << <<"ack", "USB_CORE">>, <<"open", "USB_CORE">>, <<"enable", {"USB_CORE"}>>,
       <<"clear", Line>>, <<"enable", {"USB_CORE"}>> >>

\* Fx3UsbEnablePhy: all is masked while the clocks change, and restored.
enablePhyOps ==
    << <<"ack", "USB_CORE">>, <<"open", "USB_CORE">>, <<"enable", {"USB_CORE"}>>,
       <<"save">>, <<"clear", Line>>, <<"restore">> >>

\* main, without and with VBUS at Fx3UsbConnect.
bootOps(vbus) ==
    irqInitOps \o << <<"unmask">> >> \o usbInitOps \o connectOps
    \o IF vbus THEN enablePhyOps ELSE <<>>

pibStopOps == << <<"shut", "GPIF_CORE">>, <<"clear", {"GPIF_CORE"}>>, <<"ack", "GPIF_CORE">> >>
pibStartOps ==
    << <<"vector", "GPIF_CORE">>, <<"ack", "GPIF_CORE">>, <<"open", "GPIF_CORE">>,
       <<"enable", {"GPIF_CORE"}>> >>

\* Fx3UsbUsbCoreIsr, which may start an acquisition, Fx3GpifPibIsr and
\* Fx3UsbGctlPowerIsr.
handlerOps(line, starts) ==
    << <<"ack", line>> >>
    \o (IF line = "USB_CORE" /\ starts THEN pibStopOps \o pibStartOps ELSE <<>>)
    \o << <<"end">> >>

Init ==
    /\ \E vbus \in BOOLEAN : main = bootOps(vbus)
    /\ isr = <<>>
    /\ irqMasked = TRUE /\ installed = FALSE /\ low = FALSE
    /\ enable \in SUBSET {"UART_CORE", "USB_CORE"}
    /\ select \in SUBSET {"UART_CORE", "USB_CORE"}
    /\ vec = [line \in Line |-> NoHandler]
    /\ active = FALSE
    /\ open = {"UART_CORE", "USB_CORE"} /\ raised = {} /\ count = 0
    /\ oldIntEnable = {}
    /\ taken = [line |-> "none", ran |-> "none"]

-----------------------------------------------------------------------------
\* An access: the registers that it leaves alone keep their value.
After(op, name, new, old) == IF op[1] = name THEN new ELSE old
With(op, name, S) == IF op[1] = name THEN S \cup {op[2]} ELSE S
Without(op, name, S) == IF op[1] = name THEN S \ {op[2]} ELSE S

Do(op) ==
    /\ enable' = CASE op[1] = "clear"   -> enable \ op[2]
                   [] op[1] = "enable"  -> enable \cup op[2]
                   [] op[1] = "restore" -> enable \cup oldIntEnable
                   [] OTHER             -> enable
    /\ select' = After(op, "select", op[2], select)
    /\ vec' = IF op[1] = "vector" THEN [vec EXCEPT ![op[2]] = op[2]] ELSE vec
    /\ active' = After(op, "end", FALSE, active)
    /\ installed' = After(op, "install", TRUE, installed)
    /\ low' = After(op, "base", TRUE, low)
    /\ irqMasked' = After(op, "unmask", FALSE, irqMasked)
    /\ open' = Without(op, "shut", With(op, "open", open))
    /\ raised' = Without(op, "ack", raised)
    /\ oldIntEnable' = After(op, "save", enable, oldIntEnable)

MainStep ==
    /\ isr = <<>> /\ main # <<>>
    /\ Do(Head(main))
    /\ main' = Tail(main)
    /\ UNCHANGED <<isr, taken, count>>

\* The main loop: an acquisition that lost a sample is stopped.
MainStops ==
    /\ isr = <<>> /\ main = <<>> /\ "GPIF_CORE" \in open
    /\ main' = pibStopOps
    /\ UNCHANGED <<isr, cpuVars, vicVars, devVars, oldIntEnable, taken>>

\* The main loop with nothing to stop.
MainLoop == isr = <<>> /\ main = <<>> /\ UNCHANGED vars

\* A handler, with the processor's mask set.
IsrStep ==
    /\ isr # <<>>
    /\ Do(Head(isr))
    /\ isr' = Tail(isr)
    /\ UNCHANGED <<main, taken, count>>

Pending == raised \cap open \cap enable

\* No SETUP comes before the link is up, at the end of Fx3UsbEnablePhy.
MayStart == \A i \in DOMAIN main : main[i][1] # "restore"

\* All lines have one priority; the lowest number goes first.  The vector of the
\* FIQ is a branch to itself.
Handler(line) ==
    IF line \in select THEN "branch to itself"
    ELSE IF installed /\ low THEN vec[line] ELSE NoHandler

Take ==
    /\ isr = <<>> /\ ~irqMasked /\ ~active
    /\ \E line \in Pending, starts \in BOOLEAN :
          /\ \A other \in Pending : FX3_IRQ[line] <= FX3_IRQ[other]
          /\ starts => line = "USB_CORE" /\ MayStart
          /\ isr' = handlerOps(line, starts)
          /\ taken' = [line |-> line, ran |-> Handler(line)]
    /\ active' = TRUE
    /\ UNCHANGED <<main, cpuVars, enable, select, vec, devVars, oldIntEnable>>

Raise(line) ==
    /\ line \in open \ raised
    /\ count < MaxRaised
    /\ raised' = raised \cup {line}
    /\ count' = count + 1
    /\ UNCHANGED <<main, isr, cpuVars, vicVars, open, oldIntEnable, taken>>

Next ==
    \/ MainStep \/ MainStops \/ MainLoop \/ IsrStep \/ Take
    \/ \E line \in Line : Raise(line)

Spec == Init /\ [][Next]_vars

\* The processor runs on, and takes an interrupt that stays.
FairSpec == Spec /\ WF_vars(MainStep) /\ WF_vars(IsrStep) /\ WF_vars(Take)

-----------------------------------------------------------------------------
\* The ranges; once the vectors are ours only lines with a handler are enabled.
TypeOK ==
    /\ enable \subseteq Line /\ select \subseteq Line
    /\ open \subseteq Line /\ raised \subseteq Line /\ oldIntEnable \subseteq Line
    /\ vec \in [Line -> Line \cup {NoHandler}]
    /\ low => enable \subseteq Ours

(***************************************************************************)
(* Every exception runs the handler of its line through our vectors, also   *)
(* when the boot loader left its own interrupts pending and enabled         *)
(* (irq.c:29-39, usb.c:660-664, gpif.c:193-197).                            *)
(***************************************************************************)
OwnHandler == taken.ran = taken.line

(***************************************************************************)
(* An interrupt of the USB or of VBUS that its device raises is served or   *)
(* switched off, although Fx3UsbEnablePhy masks all lines in between and    *)
(* handlers of other lines come first (usb.c:245-279, usb.c:508-532).       *)
(***************************************************************************)
Served == \A line \in {"USB_CORE", "GCTL_POWER"} :
              line \in raised \cap open ~> line \notin raised \cap open

===============================================================================
