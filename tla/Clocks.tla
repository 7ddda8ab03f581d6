--------------------------------- MODULE Clocks ---------------------------------
(***************************************************************************)
(* The clocks main derives from the PLL, and the parameters of CMD_START:   *)
(* the dividers computed at build time and at run time, the fields they are *)
(* put in, and what the hardware makes of them.                             *)
(*                                                                          *)
(* A clock register is the record of its fields.  Frequencies are in Hz.    *)
(***************************************************************************)
EXTENDS Integers, Sequences

CONSTANTS
    PLL_FBDIV, CPU_DIV, GPIO_FAST_DIV, GPIO_SLOW_DIV,   \* options of the build
    BootFbdivs,         \* the feedback divisors the boot loader may leave
    Flags, Delays       \* flags and sample_delay of CMD_START

ASSUME ClocksAssumption ==
       /\ {PLL_FBDIV, CPU_DIV, GPIO_FAST_DIV, GPIO_SLOW_DIV} \subseteq Nat \ {0}
       /\ BootFbdivs \subseteq 1 .. 63
       /\ Flags \subseteq 0 .. 255
       /\ Delays \subseteq Nat /\ \A delay \in Delays : delay < 65536

VARIABLES
    boot,               \* what main has left to do before its loop
    fbdiv, locked,      \* the PLL
    reg,                \* the clock registers
    pwm,                \* period and threshold of the complex GPIO
    limits,             \* BUS_WIDTH and the limits of the counters
    asked               \* flags and delay of the last CMD_START

vars == <<boot, fbdiv, locked, reg, pwm, limits, asked>>

SYS_CLK == 19200000 * PLL_FBDIV
CPU_CLK == SYS_CLK \div CPU_DIV
GPIO_FAST_CLK == SYS_CLK \div GPIO_FAST_DIV
GPIO_SLOW_CLK == GPIO_FAST_CLK \div GPIO_SLOW_DIV

Bit(v, n) == (v \div 2^n) % 2 = 1

-----------------------------------------------------------------------------
\* The fields of the registers, by their number of bits.
DividerBits == [CPU |-> 4, DMA |-> 4, MMIO |-> 4, GPIO_FAST |-> 4, GPIO_SLOW |-> 6,
                UART |-> 16, PIB |-> 10]

NoClock == [div |-> 0, half |-> FALSE, en |-> FALSE]
Divider(d) == [div |-> d, half |-> FALSE, en |-> TRUE]

\* Mutant: the divisor is truncated.
CLOCK_DIVISOR_X2_DOWN(f) == SYS_CLK \div (f \div 2)

CLOCK_DIVISOR_X2_FOR(f) == (SYS_CLK + f \div 4) \div (f \div 2)

\* The frequency asked for.
Frequency(flags) == IF Bit(flags, 7) THEN 192000000
                    ELSE IF Bit(flags, 6) THEN 48000000 ELSE 30000000

\* Mutant: WIDE means 24 bits.
SamplesOf24(flags) == (IF Bit(flags, 5) THEN 24 ELSE 8) + (IF Bit(flags, 3) THEN 16 ELSE 0)

\* The number of bits of a sample.
Samples(flags) == (IF Bit(flags, 5) THEN 16 ELSE 8) + (IF Bit(flags, 3) THEN 16 ELSE 0)

-----------------------------------------------------------------------------
Init ==
    /\ boot = <<"cpu", "pll", "lock", "uart", "fast", "slow", "pwm">>
    /\ fbdiv \in BootFbdivs /\ locked = TRUE
    /\ reg = [c \in DOMAIN DividerBits |-> NoClock]
    /\ pwm = [period |-> 0, threshold |-> 0]
    /\ limits = [width |-> 0, data |-> 0, addr |-> 0, high |-> FALSE]
    /\ asked = [flags |-> 0, delay |-> 0]

SetClock(c, word) == reg' = [reg EXCEPT ![c] = word]

\* Fx3GctlInitClock, in three parts.
InitCpuClock ==
    /\ reg' = [reg EXCEPT !["CPU"] = Divider(CPU_DIV - 1), !["DMA"] = Divider(1),
                          !["MMIO"] = Divider(1)]
    /\ UNCHANGED <<fbdiv, locked, pwm>>

\* Mutant: the divisor is set only if it is lower.
PllUpOnly == fbdiv > PLL_FBDIV

PllNeeded == fbdiv # PLL_FBDIV

ChangePll ==
    /\ IF PllNeeded THEN fbdiv' = PLL_FBDIV /\ locked' = FALSE ELSE UNCHANGED <<fbdiv, locked>>
    /\ UNCHANGED <<reg, pwm>>

WaitForLock == locked /\ UNCHANGED <<fbdiv, locked, reg, pwm>>

\* Of Fx3UartInit.
UartDivider(baud_rate) == ((SYS_CLK \div 16) \div baud_rate - 1) % 2^16

UartClock == SetClock("UART", Divider(UartDivider(115200))) /\ UNCHANGED <<fbdiv, locked, pwm>>

\* Fx3GpioInitClock, in two parts.
FastClock == SetClock("GPIO_FAST", Divider(GPIO_FAST_DIV - 1)) /\ UNCHANGED <<fbdiv, locked, pwm>>
SlowClock == SetClock("GPIO_SLOW", Divider(GPIO_SLOW_DIV - 1)) /\ UNCHANGED <<fbdiv, locked, pwm>>

\* Mutant: the period is not reduced by the step from its end to 0.
ReferencePeriodLong == GPIO_SLOW_CLK \div 1000

ReferencePeriod == GPIO_SLOW_CLK \div 1000 - 1

\* Fx3GpioSetupComplex(50) as main calls it.
ReferenceOutput ==
    /\ pwm' = [period |-> ReferencePeriod, threshold |-> GPIO_SLOW_CLK \div 2000]
    /\ UNCHANGED <<fbdiv, locked, reg>>

BootStep ==
    /\ boot # <<>>
    /\ boot' = Tail(boot)
    /\ CASE Head(boot) = "cpu"  -> InitCpuClock
         [] Head(boot) = "pll"  -> ChangePll
         [] Head(boot) = "lock" -> WaitForLock
         [] Head(boot) = "uart" -> UartClock
         [] Head(boot) = "fast" -> FastClock
         [] Head(boot) = "slow" -> SlowClock
         [] Head(boot) = "pwm"  -> ReferenceOutput
    /\ UNCHANGED <<limits, asked>>

\* The PLL locks on its divisor.
Lock == ~locked /\ locked' = TRUE /\ UNCHANGED <<boot, fbdiv, reg, pwm, limits, asked>>

\* Of Fx3GpifPibStart, for a divisor in halves.
PibWord(x2) == [div |-> x2 \div 2 - 1, half |-> x2 % 2 = 1, en |-> TRUE]

\* Mutant: the limit is the number of the last sample, with a delay too.
SamplesPerBufferLess(bits) == (6144 * 8) \div bits - 1

SamplesPerBuffer(bits) == (6144 * 8) \div bits

\* CMD_START: the parameters, start_acquisition and Fx3GpifPibStart.
Start(flags, delay) ==
    /\ boot = <<>>
    /\ LET x2 == CLOCK_DIVISOR_X2_FOR(Frequency(flags))
       IN  /\ SetClock("PIB", PibWord(x2))
           /\ limits' = [width |-> Samples(flags) \div 8 - 1, data |-> delay,
                         addr |-> SamplesPerBuffer(Samples(flags)) - (IF delay = 0 THEN 1 ELSE 0),
                         high |-> x2 < 11]
    /\ asked' = [flags |-> flags, delay |-> delay]
    /\ UNCHANGED <<boot, fbdiv, locked, pwm>>

\* Of Fx3GpifPibStop, when the acquisition is over.
Stop ==
    /\ reg.PIB.en
    /\ SetClock("PIB", [reg.PIB EXCEPT !.en = FALSE])
    /\ UNCHANGED <<boot, fbdiv, locked, pwm, limits, asked>>

Next ==
    \/ BootStep \/ Lock
    \/ \E flags \in Flags, delay \in Delays : Start(flags, delay)
    \/ Stop

Spec == Init /\ [][Next]_vars

-----------------------------------------------------------------------------
\* The ranges: each divider fits its field and leaves the fields beside it alone.
TypeOK ==
    /\ fbdiv \in 1 .. 63 /\ locked \in BOOLEAN
    /\ \A c \in DOMAIN DividerBits : reg[c].div \in 0 .. (2^DividerBits[c] - 1)
    /\ limits.width \in 0 .. 3

Near(f, g, parts) == LET d == IF f < g THEN g - f ELSE f - g IN d <= g \div parts

(***************************************************************************)
(* When main enters its loop, the PLL runs locked at the frequency all the  *)
(* dividers were computed for, whatever the boot loader left, and the UART  *)
(* has its baud rate, within 2 percent (gctl.c:27-45, uart.c:32-37).        *)
(***************************************************************************)
PllFrequency == 19200000 * fbdiv
Divided(f, c) == f \div (reg[c].div + 1)

BootClocks ==
    boot = <<>> =>
        /\ locked /\ PllFrequency = SYS_CLK
        /\ Divided(PllFrequency, "CPU") = CPU_CLK
        /\ Near(Divided(PllFrequency, "UART") \div 16, 115200, 50)

(***************************************************************************)
(* The reference output has 1 kHz and is high half of the time              *)
(* (main.c:170-177, gpio.h:33-43).                                          *)
(***************************************************************************)
Reference1kHz ==
    boot = <<>> =>
        /\ Divided(Divided(PllFrequency, "GPIO_FAST"), "GPIO_SLOW") = 1000 * (pwm.period + 1)
        /\ 2 * pwm.threshold = pwm.period + 1

(***************************************************************************)
(* With the divisor of the build, the sampling clock is what the comment at *)
(* its divisor names, within 2 percent, and the DLL is in its mode for high *)
(* frequencies for 192 MHz alone (main.c:17, 50-58, gpif.c:165-184).        *)
(***************************************************************************)
DivisorInHalves == 2 * (reg.PIB.div + 1) + (IF reg.PIB.half THEN 1 ELSE 0)
SampleClock == (2 * PllFrequency) \div DivisorInHalves

SampleClockAsNamed ==
    reg.PIB.en =>
        /\ Near(SampleClock, Frequency(asked.flags), 50)
        /\ limits.high = (Frequency(asked.flags) = 192000000)

(***************************************************************************)
(* The samples of a buffer, at the width of the last CMD_START, fill the    *)
(* buffer and no more, also when it is not a power of two: without a delay  *)
(* the first sample is taken before the count begins (main.c:43-49,         *)
(* acquisition.c:181-189).                                                  *)
(***************************************************************************)
BuffersFilled ==
    reg.PIB.en =>
        (limits.addr + (IF limits.data = 0 THEN 1 ELSE 0)) * (limits.width + 1) = 6144

===============================================================================
