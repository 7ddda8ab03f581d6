---------------------------------- MODULE Gpio ----------------------------------
(***************************************************************************)
(* The GPIO driver of bsp/gpio.c: simple pins, complex pins that share the  *)
(* eight instances, and the I/O matrix.  Any pin may be set up in any order *)
(* and used while its interrupt is latched; main.c uses pins 45, 50 and 54. *)
(* A register of flags is the set of the flags set in it.                   *)
(***************************************************************************)
EXTENDS Naturals

CONSTANTS
    Pins,               \* numbers a caller may give, below 256
    Configs             \* configurations: sets of flags

Flag == {"ENABLE", "INPUT_EN", "DRIVE", "OUT_VALUE"}

VARIABLES
    ready,              \* has Fx3GctlInitIoMatrix been called
    SIMPLE, COMPLEX,    \* the two words of each override register
    simple,             \* the simple registers of the pins
    status,             \* the status registers of the instances
    call                \* the last call

vars == <<ready, SIMPLE, COMPLEX, simple, status, call>>

\* Bits of the override registers, and the pins that have theirs set.
Word(num) == num \div 32
BitOf(num) == num % 32
Overridden(R) == {num \in 0 .. 63 : BitOf(num) \in R[Word(num)]}
SetBit(R, num) == [R EXCEPT ![Word(num)] = @ \cup {BitOf(num)}]

\* Mutant: the bound is that of the words.
ExistsInWord(num) == num < 64

\* The pins that exist; the registers of the others are other registers.
Exists(num) == num < 61

Instance(num) == num % 8
Clear == [w \in {0, 1} |-> {}]

\* The overrides are what the boot loader left.
Init ==
    /\ ready = FALSE
    /\ SIMPLE \in {Clear, [Clear EXCEPT ![1] = {18}]}
    /\ COMPLEX \in {Clear, [Clear EXCEPT ![1] = {13}]}
    /\ simple = [num \in Pins |-> {}]
    /\ status = [i \in 0 .. 7 |-> {}]
    /\ call = [op |-> "none", num |-> 0, config |-> {}]

OverrideWords == <<Clear, Clear>>

InitIoMatrix ==
    /\ ready' = TRUE
    /\ SIMPLE' = OverrideWords[1] /\ COMPLEX' = OverrideWords[2]
    /\ call' = [op |-> "matrix", num |-> 0, config |-> {}]
    /\ UNCHANGED <<simple, status>>

InUse(R, num) == BitOf(num) \in R[Word(num)]

\* Writing 1 to INTR clears it, writing 0 leaves it as it is.
WriteSimple(num, flags) ==
    simple' = [simple EXCEPT ![num] = IF "INTR" \in flags THEN flags \ {"INTR"}
                                      ELSE flags \cup (@ \cap {"INTR"})]

SetupSimple(num, config) ==
    /\ ready
    /\ call' = [op |-> "simple", num |-> num, config |-> config]
    /\ IF Exists(num) /\ ~InUse(COMPLEX, num)
       THEN /\ WriteSimple(num, config)
            /\ SIMPLE' = SetBit(SIMPLE, num)
       ELSE UNCHANGED <<simple, SIMPLE>>
    /\ UNCHANGED <<ready, COMPLEX, status>>

\* Mutant: the instance is looked for in the word of the pin alone.
InstanceFreeHere(num) == \A b \in COMPLEX[Word(num)] : b % 8 # Instance(num)

\* None of the bits of the mask of the instance is set in either word.
InstanceFree(num) == \A w \in {0, 1} : \A b \in COMPLEX[w] : b % 8 # Instance(num)

\* Mutant: a pin that is complex already must be free again.
MayBeComplexOnce(num) == ~InUse(SIMPLE, num) /\ InstanceFree(num)

\* Mutant: the simple override is not asked.
MayBeComplexUnasked(num) == InUse(COMPLEX, num) \/ InstanceFree(num)

MayBeComplex(num) == InUse(COMPLEX, num) \/ (~InUse(SIMPLE, num) /\ InstanceFree(num))

SetupComplex(num, config) ==
    /\ ready
    /\ call' = [op |-> "complex", num |-> num, config |-> config]
    /\ IF Exists(num) /\ MayBeComplex(num)
       THEN /\ status' = [status EXCEPT ![Instance(num)] = config]
            /\ COMPLEX' = SetBit(COMPLEX, num)
       ELSE UNCHANGED <<status, COMPLEX>>
    /\ UNCHANGED <<ready, SIMPLE, simple>>

\* Mutant: INTR is written back as it was read.
KeptIntr(flags) == flags \ {"OUT_VALUE"}

Kept(flags) == flags \ {"INTR", "OUT_VALUE"}

SetOutputValue(num, value) ==
    /\ ready
    /\ call' = [op |-> "output", num |-> num, config |-> {}]
    /\ IF Exists(num)
       THEN WriteSimple(num, Kept(simple[num]) \cup (IF value = 1 THEN {"OUT_VALUE"} ELSE {}))
       ELSE UNCHANGED simple
    /\ UNCHANGED <<ready, SIMPLE, COMPLEX, status>>

\* An input changes and its interrupt is latched.
LatchIntr(num) ==
    /\ Exists(num) /\ "INPUT_EN" \in simple[num]
    /\ simple' = [simple EXCEPT ![num] = @ \cup {"INTR"}]
    /\ UNCHANGED <<ready, SIMPLE, COMPLEX, status, call>>

Next ==
    \/ InitIoMatrix
    \/ \E num \in Pins : \/ \E config \in Configs : SetupSimple(num, config)
                                                    \/ SetupComplex(num, config)
                         \/ \E value \in {0, 1} : SetOutputValue(num, value)
                         \/ LatchIntr(num)

Spec == Init /\ [][Next]_vars

-----------------------------------------------------------------------------
\* The ranges: the registers of pins that do not exist are left alone.
TypeOK ==
    /\ \A w \in {0, 1} : SIMPLE[w] \subseteq 0 .. 31 /\ COMPLEX[w] \subseteq 0 .. 31
    /\ \A num \in Pins : /\ simple[num] \subseteq Flag \cup {"INTR"}
                         /\ num > 60 => simple[num] = {}
    /\ \A num \in Overridden(SIMPLE) \cup Overridden(COMPLEX) : num < 61

(***************************************************************************)
(* Once the I/O matrix is set, whatever the boot loader left, no pin is     *)
(* both simple and complex (gpio.c:41-64, gctl.c:49-53).                    *)
(***************************************************************************)
SimpleOrComplex == ready => Overridden(SIMPLE) \cap Overridden(COMPLEX) = {}

(***************************************************************************)
(* No two complex pins share an instance, although their numbers may be in  *)
(* different words (gpio.c:56-73).                                          *)
(***************************************************************************)
OnePinAnInstance ==
    ready => \A p, q \in Overridden(COMPLEX) : Instance(p) = Instance(q) => p = q

(***************************************************************************)
(* An instance in use is set up anew by its own pin, and by no other        *)
(* (gpio.c:58-82).                                                          *)
(***************************************************************************)
InstanceOfItsPin ==
    [][ready /\ ready' /\ call'.op = "complex" =>
        \A p \in Overridden(COMPLEX) : Instance(p) = Instance(call'.num) =>
            status' = IF p = call'.num
                      THEN [status EXCEPT ![Instance(p)] = call'.config]
                      ELSE status]_vars

(***************************************************************************)
(* A change of the output leaves a latched interrupt of the pin alone       *)
(* (gpio.c:85-93).                                                          *)
(***************************************************************************)
OutputKeepsIntr ==
    [][call'.op = "output" =>
        \A num \in Pins : "INTR" \in simple[num] => "INTR" \in simple'[num]]_vars

===============================================================================
