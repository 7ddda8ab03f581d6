---------------------------------- MODULE Uart ----------------------------------
(***************************************************************************)
(* The UART of bsp/uart.c and the two that print through it: main, and the  *)
(* interrupt handlers, which come between any two accesses of main.  A byte *)
(* is printed in two steps, the test of TX_SPACE and the write to the FIFO; *)
(* the hardware drops a byte that is written when the FIFO is full.         *)
(*                                                                          *)
(* A byte is a pair: who printed it (0 for main, else the number of the     *)
(* interrupt) and the character.                                            *)
(***************************************************************************)
EXTENDS Naturals, Sequences, SequencesExt

CONSTANTS
    FifoDepth,                  \* at least 1
    Banner, Done, Button,       \* what main prints: strings of characters
    Message,                    \* what a handler prints
    MaxInterrupts, MaxSent      \* bounds, between two resets, on the interrupts and
                                \* on the bytes after which no acquisition ends

VARIABLES
    main, isr,          \* what main and the handler have left to do
    power,              \* POWER: "off", "reset" (not yet ACTIVE) or "active"
    config,             \* CONFIG
    irq,                \* are interrupts enabled
    interrupts,         \* the number of interrupts since the reset
    fifo, sent,         \* the bytes in the FIFO, and those that went out
    lost                \* the bytes that were dropped

vars == <<main, isr, power, config, irq, interrupts, fifo, sent, lost>>

CR == "\r"
LF == "\n"

-----------------------------------------------------------------------------
\* The functions of uart.c, as lists of accesses.

\* Mutant: the byte is written without a test.
TxByteUntested(c) == << <<"write", c>> >>

TxByte(c) == << <<"space">>, <<"write", c>> >>

\* Mutant: CR comes after LF.
TxCharLfFirst(c) == IF c = LF THEN TxByte(c) \o TxByte(CR) ELSE TxByte(c)

TxChar(c) == IF c = LF THEN TxByte(CR) \o TxByte(c) ELSE TxByte(c)

TxString(str) == FlattenSeq([i \in DOMAIN str |-> TxChar(str[i])])

\* Mutant: waits until there is space.
TxFlushSpace == << <<"space">> >>

TxFlush == << <<"done">> >>

\* Mutant: the transmitter is not enabled.
UartInitNoTx == << <<"power", "off">>, <<"power", "reset">>, <<"active">>, <<"config", {"ENABLE"}>> >>

UartInit == << <<"power", "off">>, <<"power", "reset">>, <<"active">>,
               <<"config", {"ENABLE", "TX_ENABLE"}>> >>

\* Main up to its loop, as far as it prints.
bootOps == UartInit \o TxString(Banner) \o TxFlush \o << <<"irq">> >>

\* The button is pressed, and the GPIF is found paused.
buttonOps == TxString(Button) \o TxFlush \o << <<"reset">> >>
doneOps == TxString(Done)

-----------------------------------------------------------------------------
Booted ==
    /\ main' = bootOps /\ isr' = <<>>
    /\ irq' = FALSE /\ interrupts' = 0
    /\ fifo' = <<>> /\ sent' = <<>> /\ lost' = <<>>
    /\ power' = "off" /\ config' = {}

Init ==
    /\ main = bootOps /\ isr = <<>>
    /\ irq = FALSE /\ interrupts = 0
    /\ fifo = <<>> /\ sent = <<>> /\ lost = <<>>
    /\ power \in {"off", "active"} /\ config \in {{}, {"ENABLE", "TX_ENABLE"}}

Running == power = "active" /\ "ENABLE" \in config

\* STATUS, with TX_SPACE and TX_DONE.
Status == (IF Running /\ Len(fifo) < FifoDepth THEN {"TX_SPACE"} ELSE {})
          \cup (IF Running /\ fifo = <<>> THEN {"TX_DONE"} ELSE {})

\* An access of main or of a handler that prints as who.
Access(op, who) ==
    CASE op[1] = "space" -> "TX_SPACE" \in Status /\ UNCHANGED <<fifo, lost>>
      [] op[1] = "done"  -> "TX_DONE" \in Status /\ UNCHANGED <<fifo, lost>>
      [] op[1] = "write" -> LET byte == <<who, op[2]>>
                            IN  IF Running /\ Len(fifo) < FifoDepth
                                THEN fifo' = Append(fifo, byte) /\ UNCHANGED lost
                                ELSE lost' = Append(lost, byte) /\ UNCHANGED fifo

\* A test that fails, and is done again.
Retry ==
    /\ isr # <<>> \/ main # <<>>
    /\ LET op == Head(isr \o main)
       IN  \/ op[1] = "space" /\ "TX_SPACE" \notin Status
           \/ op[1] = "done" /\ "TX_DONE" \notin Status
    /\ UNCHANGED vars

MainStep ==
    /\ isr = <<>> /\ main # <<>>
    /\ LET op == Head(main)
       IN  \/ /\ op[1] \in {"space", "done", "write"}
              /\ Access(op, 0)
              /\ main' = Tail(main)
              /\ UNCHANGED <<isr, power, config, irq, interrupts, sent>>
           \/ /\ op[1] = "power"
              /\ power' = op[2] /\ config' = {}
              /\ main' = Tail(main)
              /\ UNCHANGED <<isr, irq, interrupts, fifo, sent, lost>>
           \/ /\ op[1] = "active" /\ power = "active"
              /\ main' = Tail(main)
              /\ UNCHANGED <<isr, power, config, irq, interrupts, fifo, sent, lost>>
           \/ /\ op[1] = "config"
              /\ config' = op[2]
              /\ main' = Tail(main)
              /\ UNCHANGED <<isr, power, irq, interrupts, fifo, sent, lost>>
           \/ /\ op[1] = "irq"
              /\ irq' = TRUE
              /\ main' = Tail(main)
              /\ UNCHANGED <<isr, power, config, interrupts, fifo, sent, lost>>

\* Fx3GctlHardReset at the end of the branch of the button.
HardReset ==
    /\ isr = <<>>
    /\ main = << <<"reset">> >>
    /\ Booted

\* The loop of main: an acquisition that is over, or the button.
Polls ==
    /\ main = <<>> /\ isr = <<>>
    /\ \/ main' = buttonOps
       \/ /\ main' = doneOps
          /\ Len(sent) <= MaxSent
    /\ UNCHANGED <<isr, power, config, irq, interrupts, fifo, sent, lost>>

Interrupt ==
    /\ irq /\ isr = <<>>
    /\ interrupts < MaxInterrupts
    /\ interrupts' = interrupts + 1
    /\ isr' = TxString(Message)
    /\ UNCHANGED <<main, power, config, irq, fifo, sent, lost>>

IsrStep ==
    /\ isr # <<>>
    /\ Access(Head(isr), interrupts)
    /\ isr' = Tail(isr)
    /\ UNCHANGED <<main, power, config, irq, interrupts, sent>>

-----------------------------------------------------------------------------
\* The hardware.

PowerUp ==
    /\ power = "reset"
    /\ power' = "active"
    /\ fifo' = <<>>
    /\ UNCHANGED <<main, isr, config, irq, interrupts, sent, lost>>

Transmit ==
    /\ Running /\ "TX_ENABLE" \in config
    /\ fifo # <<>>
    /\ sent' = Append(sent, Head(fifo))
    /\ fifo' = Tail(fifo)
    /\ UNCHANGED <<main, isr, power, config, irq, interrupts, lost>>

Next ==
    \/ MainStep \/ HardReset \/ Polls \/ Retry
    \/ Interrupt \/ IsrStep
    \/ PowerUp \/ Transmit

Spec == Init /\ [][Next]_vars

\* The processor goes on, and the UART sends.
FairSpec ==
    /\ Spec
    /\ WF_vars(MainStep) /\ WF_vars(HardReset) /\ WF_vars(IsrStep)
    /\ WF_vars(PowerUp) /\ WF_vars(Transmit)

-----------------------------------------------------------------------------
\* The ranges of the variables.
TypeOK ==
    /\ power \in {"off", "reset", "active"}
    /\ config \subseteq {"ENABLE", "TX_ENABLE"}
    /\ Len(fifo) <= FifoDepth
    /\ interrupts \in 0 .. MaxInterrupts

Output == sent \o fifo

(***************************************************************************)
(* A byte is lost only when an interrupt comes between the test of TX_SPACE *)
(* and the write: at most one for each interrupt, only of main, and none    *)
(* before interrupts are enabled (uart.c:51-56, main.c:157-159, 179).       *)
(***************************************************************************)
LostToInterruptsOnly ==
    /\ Len(lost) <= interrupts
    /\ \A i \in DOMAIN lost : lost[i][1] = 0

(***************************************************************************)
(* What a handler prints comes out in one piece and complete, with CR       *)
(* before LF, wherever in the output of main (uart.c:51-75).                *)
(***************************************************************************)
Line(str) == FlattenSeq([i \in DOMAIN str |-> IF str[i] = LF THEN <<CR, LF>> ELSE <<str[i]>>])

MessagesWhole ==
    \A k \in {n \in 1 .. interrupts : n = interrupts => isr = <<>>} :
        \E i \in 1 .. Len(Output) :
            \A j \in DOMAIN Line(Message) :
                i + j - 1 <= Len(Output) /\ Output[i + j - 1] = <<k, Line(Message)[j]>>

(***************************************************************************)
(* When main resets the device after the button, everything that it printed *)
(* and that was not dropped has gone out (main.c:191-194, uart.c:78-82).    *)
(***************************************************************************)
FlushedBeforeReset ==
    [][main # <<>> /\ Head(main) = <<"reset">> /\ main' = bootOps
        => \A i \in DOMAIN fifo : fifo[i][1] # 0]_vars

(***************************************************************************)
(* Main comes to the end of what it prints: it is not held up for ever by a *)
(* full FIFO or by a flush (uart.c:42-56, 78-82).                           *)
(***************************************************************************)
PrintsEnd == main # <<>> ~> main = <<>>

===============================================================================
