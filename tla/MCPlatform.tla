------------------------------- MODULE MCPlatform -------------------------------
(***************************************************************************)
(* The clocks, the UART, the GPIO and the interrupt controller, checked     *)
(* side by side.  Each has registers of its own, and no property relates    *)
(* one to another.  So only one of the parts moves in a behaviour, and the  *)
(* others stay in one of their initial states.                              *)
(*                                                                          *)
(* The FIFO is filled by the message of a handler, and strings are of one   *)
(* character with the end of their line.  Pin 18 and pin 50 of main.c are   *)
(* in different words and share their bit and their instance; 61 is the     *)
(* first number that no pin has.                                            *)
(***************************************************************************)
EXTENDS Clocks

CONSTANTS
    FifoDepth, Banner, Done, Button, Message, MaxInterrupts, MaxSent,
    Pins, Configs, MaxRaised

\* The pin is a uint8_t, and a configuration does not clear interrupts.
ASSUME PinsAssumption ==
    /\ Pins \subseteq 0 .. 255
    /\ Configs \subseteq SUBSET {"ENABLE", "INPUT_EN", "DRIVE", "OUT_VALUE"}

\* What is printed are strings, and a handler prints something.
ASSUME UartAssumption ==
    /\ FifoDepth \in Nat \ {0} /\ MaxInterrupts \in Nat
    /\ \A str \in {Banner, Done, Button, Message} : str \in Seq(STRING)
    /\ Message # <<>>

VARIABLES
    part,
    main, isr, power, config, irq, interrupts, fifo, sent, lost,
    ready, SIMPLE, COMPLEX, simple, status, call,
    program, handler, irqMasked, installed, low, enable, select, vec, active,
    open, raised, oldIntEnable, taken, count

U == INSTANCE Uart
G == INSTANCE Gpio
I == INSTANCE Interrupts WITH main <- program, isr <- handler

uartVars == <<main, isr, power, config, irq, interrupts, fifo, sent, lost>>
gpioVars == <<ready, SIMPLE, COMPLEX, simple, status, call>>
irqVars == <<program, handler, irqMasked, installed, low, enable, select, vec, active,
             open, raised, oldIntEnable, taken, count>>

MCFlags == 0 .. 255
MCBanner == <<"b", "\n">>
MCDone == <<"d", "\n">>
MCButton == <<"B", "\n">>
MCMessage == <<"m", "\n">>
MCConfigs == {{"ENABLE", "INPUT_EN"}, {"ENABLE", "DRIVE", "OUT_VALUE"}}

MCInit ==
    /\ part \in {"clocks", "uart", "gpio", "interrupts"}
    /\ Init /\ U!Init /\ G!Init /\ I!Init
    /\ part # "clocks" => fbdiv = PLL_FBDIV
    /\ part # "uart" => power = "off" /\ config = {}
    /\ part # "gpio" => SIMPLE = G!Clear /\ COMPLEX = G!Clear
    /\ part # "interrupts" => enable = {} /\ select = {} /\ program = I!bootOps(FALSE)

MCNext ==
    \/ part = "clocks" /\ Next /\ UNCHANGED <<part, uartVars, gpioVars, irqVars>>
    \/ part = "uart" /\ U!Next /\ UNCHANGED <<part, vars, gpioVars, irqVars>>
    \/ part = "gpio" /\ G!Next /\ UNCHANGED <<part, vars, uartVars, irqVars>>
    \/ part = "interrupts" /\ I!Next /\ UNCHANGED <<part, vars, uartVars, gpioVars>>

\* The fairness of each part.
MCSpec ==
    /\ MCInit /\ [][MCNext]_<<part, vars, uartVars, gpioVars, irqVars>>
    /\ WF_uartVars(part = "uart" /\ U!MainStep) /\ WF_uartVars(part = "uart" /\ U!HardReset)
    /\ WF_uartVars(part = "uart" /\ U!IsrStep) /\ WF_uartVars(part = "uart" /\ U!PowerUp)
    /\ WF_uartVars(part = "uart" /\ U!Transmit)
    /\ WF_irqVars(part = "interrupts" /\ I!MainStep) /\ WF_irqVars(part = "interrupts" /\ I!IsrStep)
    /\ WF_irqVars(part = "interrupts" /\ I!Take)

-----------------------------------------------------------------------------
(***************************************************************************)
(* Every clock is what its name says, and every divider fits its field: the *)
(* processor, the UART, the reference output, the sampling clock and the    *)
(* samples of a buffer, for every combination of flags and whatever the     *)
(* boot loader or an earlier start left (main.c:17-58, 170-177,             *)
(* gctl.c:27-45, uart.c:32-37, gpif.c:165-184, acquisition.c:181-189).      *)
(***************************************************************************)
ClocksAsNamed == TypeOK /\ BootClocks /\ Reference1kHz /\ SampleClockAsNamed /\ BuffersFilled

(***************************************************************************)
(* What is printed goes out: the messages of handlers whole, of main all    *)
(* but a byte for each interrupt, and before the reset (uart.c:42-82,       *)
(* main.c:157-159, 191-194).                                                *)
(***************************************************************************)
MessagesGoOut ==
    /\ [](U!TypeOK /\ U!LostToInterruptsOnly /\ U!MessagesWhole)
    /\ U!FlushedBeforeReset

(***************************************************************************)
(* In any order of calls, after whatever the boot loader left, each pin     *)
(* keeps what it was set up as: no pin is simple and complex, no instance   *)
(* has two pins or a configuration of another, and a change of the output   *)
(* does not lose an interrupt (gpio.c:41-95, gctl.c:49-53).                 *)
(***************************************************************************)
PinsKeptApart ==
    /\ [](G!TypeOK /\ G!SimpleOrComplex /\ G!OnePinAnInstance)
    /\ G!InstanceOfItsPin
    /\ G!OutputKeepsIntr

(***************************************************************************)
(* Every exception runs the handler of its line, and only lines that have   *)
(* one are enabled: OwnHandler and TypeOK of Interrupts (irq.c:29-39,       *)
(* usb.c:660-664, gpif.c:193-197).                                          *)
(***************************************************************************)
OwnHandler == I!TypeOK /\ I!OwnHandler

(***************************************************************************)
(* An interrupt of the USB or of VBUS that is raised is served or switched  *)
(* off, and main comes to the end of what it prints: neither a full FIFO    *)
(* nor a flush holds it up for ever.  Interrupts!Served and Uart!PrintsEnd  *)
(* (usb.c:245-279, 508-532, uart.c:42-56, 78-82).                           *)
(***************************************************************************)
NothingStarves ==
    /\ \A line \in {"USB_CORE", "GCTL_POWER"} :
        part = "interrupts" /\ line \in raised \cap open ~> line \notin raised \cap open
    /\ part = "uart" /\ main # <<>> ~> main = <<>>

================================================================================
