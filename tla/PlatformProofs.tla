----------------------------- MODULE PlatformProofs -----------------------------
(***************************************************************************)
(* Proofs about the parts that MCPlatform puts side by side: the pins, the  *)
(* interrupts, the clocks and the UART, for every set of pins and of        *)
(* configurations, every number of interrupts, every parameter of CMD_START *)
(* and every string that is printed.                                        *)
(***************************************************************************)
EXTENDS MCPlatform, TLAPS, SequenceTheorems, WellFoundedInduction

\* All the variables.
allVars == <<part, vars, uartVars, gpioVars, irqVars>>

-----------------------------------------------------------------------------
(***************************************************************************)
(* The pins.  The override registers are exactly the sets of simple and     *)
(* complex pins, and setting one bit adds one pin.                          *)
(***************************************************************************)
GpioRegisters ==
    /\ ready \in BOOLEAN
    /\ SIMPLE \in [{0, 1} -> SUBSET (0 .. 31)]
    /\ COMPLEX \in [{0, 1} -> SUBSET (0 .. 31)]
    /\ simple \in [Pins -> SUBSET (G!Flag \cup {"INTR"})]
    /\ status \in [0 .. 7 -> SUBSET G!Flag]

\* What the last call to set up a complex pin left in the instance.
LastComplex ==
    call.op = "complex" /\ call.num \in G!Overridden(COMPLEX) =>
        status[G!Instance(call.num)] = call.config

GpioInv ==
    /\ GpioRegisters
    /\ LastComplex
    /\ G!TypeOK
    /\ G!SimpleOrComplex
    /\ G!OnePinAnInstance

LEMMA SetBitAdds ==
    ASSUME NEW R \in [{0, 1} -> SUBSET (0 .. 31)], NEW num \in 0 .. 60
    PROVE  /\ G!SetBit(R, num) \in [{0, 1} -> SUBSET (0 .. 31)]
           /\ G!Overridden(G!SetBit(R, num)) = G!Overridden(R) \cup {num}
<1>1. /\ G!Word(num) \in {0, 1} /\ G!BitOf(num) \in 0 .. 31
      /\ \A p \in 0 .. 63 : /\ G!Word(p) \in {0, 1}
                            /\ G!Word(p) = G!Word(num) /\ G!BitOf(p) = G!BitOf(num) => p = num
      BY DEF G!Word, G!BitOf
<1>2. G!SetBit(R, num) \in [{0, 1} -> SUBSET (0 .. 31)]
      BY <1>1 DEF G!SetBit
<1>3. \A p \in 0 .. 63 : G!BitOf(p) \in G!SetBit(R, num)[G!Word(p)]
                         <=> G!BitOf(p) \in R[G!Word(p)] \/ p = num
      BY <1>1 DEF G!SetBit
<1> QED BY <1>2, <1>3 DEF G!Overridden

LEMMA OverriddenIsInUse ==
    ASSUME NEW R, NEW num \in 0 .. 60
    PROVE  G!InUse(R, num) <=> num \in G!Overridden(R)
BY DEF G!InUse, G!Overridden

LEMMA FreeInstances ==
    ASSUME NEW num \in 0 .. 60
    PROVE  G!InstanceFree(num) => \A p \in G!Overridden(COMPLEX) : G!Instance(p) # G!Instance(num)
<1>1. \A p \in 0 .. 63 : /\ G!Word(p) \in {0, 1}
                         /\ G!BitOf(p) % 8 = G!Instance(p)
      BY DEF G!Word, G!BitOf, G!Instance
<1> QED BY <1>1 DEF G!InstanceFree, G!Overridden

LEMMA NothingOverridden == G!Overridden(G!Clear) = {}
<1>1. \A p \in 0 .. 63 : G!Word(p) \in {0, 1}
      BY DEF G!Word
<1> QED BY <1>1 DEF G!Overridden, G!Clear

LEMMA GpioInit == MCInit => GpioInv
<1> SUFFICES ASSUME MCInit PROVE GpioInv
    OBVIOUS
<1>1. \A num \in 0 .. 63 : /\ G!Word(num) \in {0, 1}
                           /\ G!BitOf(num) = 18 /\ G!Word(num) = 1 => num < 61
                           /\ G!BitOf(num) = 13 /\ G!Word(num) = 1 => num < 61
      BY DEF G!BitOf, G!Word
<1>2. GpioRegisters
  <2>1. G!Clear \in [{0, 1} -> SUBSET (0 .. 31)]
        BY DEF G!Clear
  <2>2. /\ SIMPLE \in {G!Clear, [G!Clear EXCEPT ![1] = {18}]}
        /\ COMPLEX \in {G!Clear, [G!Clear EXCEPT ![1] = {13}]}
        BY DEF MCInit, G!Init
  <2>3. ready \in BOOLEAN
        BY DEF MCInit, G!Init
  <2>4. /\ simple \in [Pins -> SUBSET (G!Flag \cup {"INTR"})]
        /\ status \in [0 .. 7 -> SUBSET G!Flag]
        BY DEF MCInit, G!Init
  <2> QED BY <2>1, <2>2, <2>3, <2>4 DEF GpioRegisters
<1>3. \A num \in G!Overridden(SIMPLE) \cup G!Overridden(COMPLEX) : num < 61
  <2>1. \A num \in G!Overridden(SIMPLE) : num < 61
    <3>1. CASE SIMPLE = G!Clear
          BY <3>1, NothingOverridden
    <3>2. CASE SIMPLE = [G!Clear EXCEPT ![1] = {18}]
          BY <1>1, <3>2 DEF G!Clear, G!Overridden
    <3> QED BY <3>1, <3>2 DEF MCInit, G!Init
  <2>2. \A num \in G!Overridden(COMPLEX) : num < 61
    <3>1. CASE COMPLEX = G!Clear
          BY <3>1, NothingOverridden
    <3>2. CASE COMPLEX = [G!Clear EXCEPT ![1] = {13}]
          BY <1>1, <3>2 DEF G!Clear, G!Overridden
    <3> QED BY <3>1, <3>2 DEF MCInit, G!Init
  <2> QED BY <2>1, <2>2
<1>4. G!TypeOK
      BY <1>2, <1>3 DEF G!TypeOK, GpioRegisters, MCInit, G!Init
<1> QED BY <1>2, <1>4 DEF GpioInv, LastComplex, G!SimpleOrComplex, G!OnePinAnInstance, MCInit, G!Init

\* Writing the register of a pin that exists.
LEMMA WritesSimple ==
    ASSUME GpioInv, NEW num \in Pins, NEW flags \in SUBSET (G!Flag \cup {"INTR"}), num < 61,
           G!WriteSimple(num, flags)
    PROVE  /\ simple' \in [Pins -> SUBSET (G!Flag \cup {"INTR"})]
           /\ \A p \in Pins : p > 60 => simple'[p] = {}
BY PinsAssumption DEF GpioInv, GpioRegisters, G!TypeOK, G!WriteSimple

LEMMA GpioStep == GpioInv /\ G!Next => GpioInv'
<1> SUFFICES ASSUME GpioInv, G!Next PROVE GpioInv'
    OBVIOUS
<1> USE PinsAssumption DEF GpioInv, GpioRegisters
<1> DEFINE S == G!Overridden(SIMPLE)
           K == G!Overridden(COMPLEX)
<1>0. /\ SIMPLE' = SIMPLE => G!Overridden(SIMPLE)' = S
      /\ COMPLEX' = COMPLEX => G!Overridden(COMPLEX)' = K
      BY DEF G!Overridden
<1>1. CASE G!InitIoMatrix
  <2>1. SIMPLE' = G!Clear /\ COMPLEX' = G!Clear
        BY <1>1 DEF G!InitIoMatrix, G!OverrideWords
  <2>2. G!Overridden(SIMPLE)' = {} /\ G!Overridden(COMPLEX)' = {}
        BY <2>1, NothingOverridden DEF G!Overridden
  <2>3. GpioRegisters'
        BY <1>1, <2>1 DEF G!InitIoMatrix, G!Clear
  <2> QED BY <1>1, <2>2, <2>3
          DEF G!InitIoMatrix, LastComplex, G!TypeOK, G!SimpleOrComplex, G!OnePinAnInstance
<1>2. ASSUME NEW num \in Pins, NEW cfg \in Configs, G!SetupSimple(num, cfg)
      PROVE  GpioInv'
  <2>1. CASE G!Exists(num) /\ ~G!InUse(COMPLEX, num)
    <3>1. num \in 0 .. 60 /\ num \notin K
          BY <2>1, OverriddenIsInUse DEF G!Exists
    <3>2. SIMPLE' \in [{0, 1} -> SUBSET (0 .. 31)] /\ G!Overridden(SIMPLE)' = S \cup {num}
      <4>1. SIMPLE' = G!SetBit(SIMPLE, num)
            BY <1>2, <2>1 DEF G!SetupSimple
      <4>2. G!Overridden(SIMPLE)' = G!Overridden(G!SetBit(SIMPLE, num))
            BY <4>1 DEF G!Overridden
      <4> QED BY <3>1, <4>1, <4>2, SetBitAdds
    <3>3. /\ simple' \in [Pins -> SUBSET (G!Flag \cup {"INTR"})]
          /\ \A p \in Pins : p > 60 => simple'[p] = {}
      <4>1. cfg \in SUBSET (G!Flag \cup {"INTR"})
            BY DEF G!Flag
      <4> QED BY <1>2, <2>1, <3>1, <4>1, WritesSimple DEF G!SetupSimple
    <3> QED BY <1>0, <1>2, <3>1, <3>2, <3>3
            DEF G!SetupSimple, LastComplex, G!TypeOK, G!SimpleOrComplex, G!OnePinAnInstance
  <2>2. CASE ~(G!Exists(num) /\ ~G!InUse(COMPLEX, num))
        BY <1>0, <1>2, <2>2
        DEF G!SetupSimple, LastComplex, G!TypeOK, G!SimpleOrComplex, G!OnePinAnInstance
  <2> QED BY <2>1, <2>2
<1>3. ASSUME NEW num \in Pins, NEW cfg \in Configs, G!SetupComplex(num, cfg)
      PROVE  GpioInv'
  <2>1. CASE G!Exists(num) /\ G!MayBeComplex(num)
    <3>1. num \in 0 .. 60
          BY <2>1 DEF G!Exists
    <3>2. COMPLEX' \in [{0, 1} -> SUBSET (0 .. 31)] /\ G!Overridden(COMPLEX)' = K \cup {num}
      <4>1. COMPLEX' = G!SetBit(COMPLEX, num)
            BY <1>3, <2>1 DEF G!SetupComplex
      <4>2. G!Overridden(COMPLEX)' = G!Overridden(G!SetBit(COMPLEX, num))
            BY <4>1 DEF G!Overridden
      <4> QED BY <3>1, <4>1, <4>2, SetBitAdds
    <3>3. \/ num \in K
          \/ num \notin S /\ \A p \in K : G!Instance(p) # G!Instance(num)
          BY <2>1, <3>1, OverriddenIsInUse, FreeInstances DEF G!MayBeComplex
    <3>4. status' \in [0 .. 7 -> SUBSET G!Flag]
      <4>1. status' = [status EXCEPT ![G!Instance(num)] = cfg]
            BY <1>3, <2>1 DEF G!SetupComplex
      <4>2. cfg \in SUBSET G!Flag
            BY DEF G!Flag
      <4> QED BY <4>1, <4>2
    <3>5. UNCHANGED <<ready, SIMPLE, simple>> /\ ready
          BY <1>3 DEF G!SetupComplex
    <3>6. G!TypeOK'
          BY <1>0, <3>1, <3>2, <3>5 DEF G!TypeOK
    <3>7. G!SimpleOrComplex'
          BY <1>0, <3>2, <3>3, <3>5 DEF G!SimpleOrComplex
    <3>8. G!OnePinAnInstance'
          BY <3>2, <3>3, <3>5 DEF G!OnePinAnInstance
    <3>9. LastComplex'
      <4>1. call'.num = num /\ call'.config = cfg
            BY <1>3 DEF G!SetupComplex
      <4>2. status'[G!Instance(num)] = cfg
            BY <1>3, <2>1, <3>1 DEF G!SetupComplex, G!Instance
      <4> QED BY <4>1, <4>2 DEF LastComplex
    <3> QED BY <3>2, <3>4, <3>5, <3>6, <3>7, <3>8, <3>9
  <2>2. CASE ~(G!Exists(num) /\ G!MayBeComplex(num))
    <3>1. LastComplex'
      <4>1. num \notin K
            BY <2>2, OverriddenIsInUse DEF G!TypeOK, G!Overridden, G!Exists, G!MayBeComplex
      <4> QED BY <1>0, <1>3, <2>2, <4>1 DEF G!SetupComplex, LastComplex
    <3> QED BY <1>0, <1>3, <2>2, <3>1
            DEF G!SetupComplex, G!TypeOK, G!SimpleOrComplex, G!OnePinAnInstance
  <2> QED BY <2>1, <2>2
<1>4. ASSUME NEW num \in Pins, NEW value \in {0, 1}, G!SetOutputValue(num, value)
      PROVE  GpioInv'
  <2>1. /\ simple' \in [Pins -> SUBSET (G!Flag \cup {"INTR"})]
        /\ \A p \in Pins : p > 60 => simple'[p] = {}
    <3>1. CASE G!Exists(num)
      <4> DEFINE flags == G!Kept(simple[num]) \cup (IF value = 1 THEN {"OUT_VALUE"} ELSE {})
      <4>1. flags \in SUBSET (G!Flag \cup {"INTR"})
            BY DEF G!Kept, G!Flag
      <4>2. G!WriteSimple(num, flags)
            BY <1>4, <3>1 DEF G!SetOutputValue
      <4> HIDE DEF flags
      <4> QED BY <3>1, <4>1, <4>2, WritesSimple DEF G!Exists
    <3>2. CASE ~G!Exists(num)
          BY <1>4, <3>2 DEF G!SetOutputValue, G!TypeOK
    <3> QED BY <3>1, <3>2
  <2> QED BY <1>0, <1>4, <2>1
          DEF G!SetOutputValue, LastComplex, G!TypeOK, G!SimpleOrComplex, G!OnePinAnInstance
<1>5. ASSUME NEW num \in Pins, G!LatchIntr(num) PROVE GpioInv'
      BY <1>0, <1>5
      DEF G!LatchIntr, LastComplex, G!Exists, G!TypeOK, G!SimpleOrComplex, G!OnePinAnInstance
<1> QED BY <1>1, <1>2, <1>3, <1>4, <1>5 DEF G!Next

(***************************************************************************)
(* PinsKeptApart holds of every order of calls, for all the pins and all    *)
(* configurations: no pin is simple and complex, no two pins have an        *)
(* instance, no instance is set up by another pin, and changing an output   *)
(* loses no interrupt (gpio.c:41-95).                                       *)
(***************************************************************************)
LEMMA GpioInvariant == MCSpec => []GpioInv
<1>1. GpioInv /\ [MCNext]_allVars => GpioInv'
  <2> SUFFICES ASSUME GpioInv, [MCNext]_allVars PROVE GpioInv'
      OBVIOUS
  <2>1. CASE UNCHANGED gpioVars
        BY <2>1 DEF gpioVars, GpioInv, GpioRegisters, LastComplex, G!TypeOK, G!SimpleOrComplex,
                    G!OnePinAnInstance, G!Overridden
  <2>2. CASE G!Next
        BY <2>2, GpioStep
  <2> QED BY <2>1, <2>2 DEF MCNext, allVars
<1> QED BY <1>1, GpioInit, PTL DEF MCSpec, allVars

LEMMA GpioActions ==
    ASSUME GpioInv, [MCNext]_allVars
    PROVE  /\ [ready /\ ready' /\ call'.op = "complex" =>
                 \A p \in G!Overridden(COMPLEX) : G!Instance(p) = G!Instance(call'.num) =>
                     status' = IF p = call'.num
                               THEN [status EXCEPT ![G!Instance(p)] = call'.config]
                               ELSE status]_G!vars
           /\ [call'.op = "output" =>
                 \A num \in Pins : "INTR" \in simple[num] => "INTR" \in simple'[num]]_G!vars
<1>1. CASE UNCHANGED gpioVars
      BY <1>1 DEF gpioVars, G!vars
<1>2. ASSUME NEW num \in Pins, NEW cfg \in Configs, G!SetupComplex(num, cfg),
             NEW p \in G!Overridden(COMPLEX), G!Instance(p) = G!Instance(num)
      PROVE  status' = IF p = num THEN [status EXCEPT ![G!Instance(p)] = cfg] ELSE status
  <2>1. p \in 0 .. 60
        BY DEF GpioInv, G!TypeOK, G!Overridden
  <2>2. CASE G!Exists(num) /\ G!MayBeComplex(num)
    <3>1. num \in 0 .. 60
          BY <2>2, PinsAssumption DEF G!Exists
    <3>2. num \in G!Overridden(COMPLEX)
          BY <1>2, <2>2, <3>1, OverriddenIsInUse, FreeInstances DEF G!MayBeComplex
    <3>3. p = num
          BY <1>2, <3>2 DEF GpioInv, G!OnePinAnInstance, G!SetupComplex
    <3> QED BY <1>2, <2>2, <3>3 DEF G!SetupComplex
  <2>3. CASE ~(G!Exists(num) /\ G!MayBeComplex(num))
    <3>1. status' = status
          BY <1>2, <2>3 DEF G!SetupComplex
    <3>2. p # num
          BY <2>1, <2>3, OverriddenIsInUse DEF G!Exists, G!MayBeComplex
    <3> QED BY <3>1, <3>2
  <2> QED BY <2>2, <2>3
<1>3. ASSUME NEW num \in Pins, NEW value \in {0, 1}, G!SetOutputValue(num, value),
             NEW p \in Pins, "INTR" \in simple[p]
      PROVE  "INTR" \in simple'[p]
      BY <1>3 DEF GpioInv, GpioRegisters, G!SetOutputValue, G!WriteSimple, G!Kept
<1>4. CASE G!Next
  <2> DEFINE Complex == call'.op = "complex" =>
                 \A p \in G!Overridden(COMPLEX) : G!Instance(p) = G!Instance(call'.num) =>
                     status' = IF p = call'.num
                               THEN [status EXCEPT ![G!Instance(p)] = call'.config]
                               ELSE status
             Output == call'.op = "output" =>
                 \A num \in Pins : "INTR" \in simple[num] => "INTR" \in simple'[num]
  <2>1. ASSUME G!InitIoMatrix PROVE Complex /\ Output
        BY <2>1 DEF G!InitIoMatrix
  <2>2. ASSUME NEW num \in Pins, NEW cfg \in Configs, G!SetupSimple(num, cfg)
        PROVE  Complex /\ Output
        BY <2>2 DEF G!SetupSimple
  <2>3. ASSUME NEW num \in Pins, NEW cfg \in Configs, G!SetupComplex(num, cfg)
        PROVE  Complex /\ Output
        BY <1>2, <2>3 DEF G!SetupComplex
  <2>4. ASSUME NEW num \in Pins, NEW value \in {0, 1}, G!SetOutputValue(num, value)
        PROVE  Complex /\ Output
    <3>1. call'.op = "output"
          BY <2>4 DEF G!SetOutputValue
    <3> QED BY <1>3, <2>4, <3>1
  <2>5. ASSUME NEW num \in Pins, G!LatchIntr(num)
        PROVE  Complex /\ Output
    <3>1. UNCHANGED <<ready, COMPLEX, status, call>>
          BY <2>5 DEF G!LatchIntr
    <3>2. Output
          BY <2>5 DEF G!LatchIntr, GpioInv, GpioRegisters
    <3>3. Complex
      <4> SUFFICES ASSUME call'.op = "complex", NEW p \in G!Overridden(COMPLEX),
                          p = call'.num
                   PROVE  status' = [status EXCEPT ![G!Instance(p)] = call'.config]
        <5>1. ASSUME call.op = "complex", NEW p \in G!Overridden(COMPLEX), p # call.num,
                     G!Instance(p) = G!Instance(call.num)
              PROVE  status' = status
              BY <3>1
        <5> QED BY <3>1, <5>1
      <4>1. status[G!Instance(p)] = call.config
            BY <3>1 DEF GpioInv, LastComplex
      <4> QED BY <3>1, <4>1 DEF GpioInv, GpioRegisters
    <3> QED BY <3>2, <3>3
  <2> HIDE DEF Complex, Output
  <2>6. Complex /\ Output
        BY <1>4, <2>1, <2>2, <2>3, <2>4, <2>5 DEF G!Next
  <2> QED BY <2>6 DEF Complex, Output
<1> QED BY <1>1, <1>4 DEF MCNext, allVars

THEOREM PinsAreKeptApart == MCSpec => PinsKeptApart
<1>1. GpioInv => G!TypeOK /\ G!SimpleOrComplex /\ G!OnePinAnInstance
      BY DEF GpioInv
<1> QED BY <1>1, GpioInvariant, GpioActions, PTL
        DEF MCSpec, PinsKeptApart, G!InstanceOfItsPin, G!OutputKeepsIntr, allVars

-----------------------------------------------------------------------------
(***************************************************************************)
(* The interrupts.  Harmless and Vectored: what is left of a program or of  *)
(* a handler enables only lines of ours that have their vector already or   *)
(* get it before.                                                           *)
(***************************************************************************)
IrqOp ==
    { <<"install">>, <<"base">>, <<"unmask">>, <<"save">>, <<"restore">>, <<"end">> }
    \cup ({"shut", "vector", "ack", "open"} \X I!Ours)
    \cup ({"clear", "select", "enable"} \X SUBSET I!Line)

Harmless(op) ==
    /\ op[1] \notin {"install", "base", "unmask", "select"}
    /\ op[1] \in {"shut", "vector", "ack", "open"} => op[2] \in I!Ours
    /\ op[1] = "enable" => op[2] \subseteq I!Ours

Vectored(ops, v) ==
    /\ ops \in Seq(IrqOp)
    /\ \A i \in 1 .. Len(ops) :
        /\ Harmless(ops[i])
        /\ ops[i][1] = "enable" =>
               \A l \in ops[i][2] : \/ v[l] = l
                                    \/ \E j \in 1 .. (i - 1) : ops[j] = <<"vector", l>>

(***************************************************************************)
(* The inductive invariant.  With interrupts masked main is in Fx3IrqInit,  *)
(* before the n-th access; then only lines with their own vector are        *)
(* enabled, also by what Fx3UsbEnablePhy will restore.                      *)
(***************************************************************************)
BootPrograms == {I!bootOps(TRUE), I!bootOps(FALSE)}

Booting(n, ops) ==
    /\ program = SubSeq(ops, n, Len(ops))
    /\ n >= 2 => enable = {}
    /\ n >= 3 => select = {}
    /\ n >= 4 => installed
    /\ n < 5 => ~low
    /\ n >= 5 => low

Restores(v) == \A l \in enable \cup oldIntEnable : l \in I!Ours /\ v[l] = l

IrqInv ==
    /\ irqMasked \in BOOLEAN /\ installed \in BOOLEAN /\ low \in BOOLEAN
    /\ enable \subseteq I!Line /\ select \subseteq I!Line /\ oldIntEnable \subseteq I!Line
    /\ open \subseteq I!Line /\ raised \subseteq I!Line
    /\ vec \in [I!Line -> I!Line \cup {I!NoHandler}]
    /\ taken.ran = taken.line
    /\ irqMasked => /\ handler = <<>> /\ oldIntEnable = {}
                    /\ \E n \in 1 .. 5, ops \in BootPrograms : Booting(n, ops)
    /\ ~irqMasked => /\ installed /\ low /\ select = {}
                     /\ Restores(vec)
                     /\ Vectored(program, vec) /\ Vectored(handler, vec)

LEMMA Lines ==
    /\ I!Line = {"GPIF_CORE", "USB_CORE", "UART_CORE", "GCTL_POWER"}
    /\ I!Ours = {"GPIF_CORE", "USB_CORE", "GCTL_POWER"}
BY DEF I!Line, I!Ours, I!FX3_IRQ

\* The accesses of main, with VBUS and without.
LEMMA BootOpsAre ==
    ASSUME NEW ops \in BootPrograms
    PROVE  /\ ops \in Seq(IrqOp)
           /\ Len(ops) >= 12 /\ Len(ops) <= 18
           /\ ops[1] = <<"clear", I!Line>>      /\ ops[2] = <<"select", {}>>
           /\ ops[3] = <<"install">>            /\ ops[4] = <<"base">>
           /\ ops[5] = <<"unmask">>
           /\ ops[6] = <<"shut", "USB_CORE">>   /\ ops[7] = <<"vector", "USB_CORE">>
           /\ ops[8] = <<"vector", "GCTL_POWER">>
           /\ ops[9] = <<"clear", {"GCTL_POWER", "USB_CORE"}>>
           /\ ops[10] = <<"ack", "GCTL_POWER">> /\ ops[11] = <<"open", "GCTL_POWER">>
           /\ ops[12] = <<"enable", {"GCTL_POWER"}>>
           /\ Len(ops) > 12 =>
                /\ Len(ops) >= 18
                /\ ops[13] = <<"ack", "USB_CORE">> /\ ops[14] = <<"open", "USB_CORE">>
                /\ ops[15] = <<"enable", {"USB_CORE"}>>
                /\ ops[16] = <<"save">>            /\ ops[17] = <<"clear", I!Line>>
                /\ ops[18] = <<"restore">>
<1>1. CASE ops = I!bootOps(TRUE)
      BY <1>1, Lines DEF I!bootOps, I!irqInitOps, I!usbInitOps, I!connectOps, I!enablePhyOps, IrqOp
<1>2. CASE ops = I!bootOps(FALSE)
      BY <1>2, Lines DEF I!bootOps, I!irqInitOps, I!usbInitOps, I!connectOps, IrqOp
<1> QED BY <1>1, <1>2 DEF BootPrograms

LEMMA PibOpsAre ==
    ASSUME NEW v
    PROVE  /\ Vectored(I!pibStopOps, v)
           /\ Vectored(<<>>, v)
BY Lines DEF I!pibStopOps, Vectored, Harmless, IrqOp

LEMMA HandlersAre ==
    ASSUME NEW v, NEW line \in I!Ours, NEW starts \in BOOLEAN
    PROVE  Vectored(I!handlerOps(line, starts), v)
<1> DEFINE ops == I!handlerOps(line, starts)
<1>1. CASE line = "USB_CORE" /\ starts
  <2>1. /\ ops \in Seq(IrqOp) /\ Len(ops) = 9
        /\ ops[1] = <<"ack", line>>              /\ ops[2] = <<"shut", "GPIF_CORE">>
        /\ ops[3] = <<"clear", {"GPIF_CORE"}>>   /\ ops[4] = <<"ack", "GPIF_CORE">>
        /\ ops[5] = <<"vector", "GPIF_CORE">>    /\ ops[6] = <<"ack", "GPIF_CORE">>
        /\ ops[7] = <<"open", "GPIF_CORE">>      /\ ops[8] = <<"enable", {"GPIF_CORE"}>>
        /\ ops[9] = <<"end">>
        BY <1>1, Lines DEF I!handlerOps, I!pibStopOps, I!pibStartOps, IrqOp
  <2> QED BY <2>1, Lines DEF Vectored, Harmless
<1>2. CASE ~(line = "USB_CORE" /\ starts)
  <2>1. ops \in Seq(IrqOp) /\ Len(ops) = 2 /\ ops[1] = <<"ack", line>> /\ ops[2] = <<"end">>
        BY <1>2, Lines DEF I!handlerOps, IrqOp
  <2> QED BY <2>1, Lines DEF Vectored, Harmless
<1> QED BY <1>1, <1>2

\* An access takes its place in the list: a vector it sets is not needed there any more.
LEMMA AccessLeavesVectored ==
    ASSUME NEW v \in [I!Line -> I!Line \cup {I!NoHandler}], NEW w,
           NEW ops \in Seq(IrqOp), ops # <<>>, Vectored(ops, v),
           w = IF Head(ops)[1] = "vector" THEN [v EXCEPT ![Head(ops)[2]] = Head(ops)[2]] ELSE v
    PROVE  Vectored(Tail(ops), w)
<1>1. Len(ops) >= 1 /\ Head(ops) = ops[1] /\ Harmless(ops[1])
      BY DEF Vectored
<1>2. \A l \in I!Line : v[l] = l => w[l] = l
      BY <1>1, Lines DEF Harmless
<1>3. \A l \in I!Line : Head(ops) = <<"vector", l>> => w[l] = l
      BY <1>1, Lines DEF Harmless
<1>4. Tail(ops) \in Seq(IrqOp) /\ Len(Tail(ops)) = Len(ops) - 1
      /\ \A i \in 1 .. (Len(ops) - 1) : Tail(ops)[i] = ops[i + 1]
      BY <1>1
<1>5. ASSUME NEW i \in 1 .. (Len(ops) - 1), ops[i + 1][1] = "enable", NEW l \in ops[i + 1][2]
      PROVE  w[l] = l \/ \E j \in 1 .. (i - 1) : ops[j + 1] = <<"vector", l>>
  <2>1. l \in I!Line
        BY <1>5, Lines DEF Vectored, Harmless
  <2>2. v[l] = l \/ \E j \in 1 .. i : ops[j] = <<"vector", l>>
    <3>1. i + 1 \in 1 .. Len(ops) /\ (i + 1) - 1 = i
          OBVIOUS
    <3> DEFINE k == i + 1
    <3>2. k \in 1 .. Len(ops) /\ k - 1 = i /\ ops[k][1] = "enable" /\ l \in ops[k][2]
          BY <1>5, <3>1
    <3> HIDE DEF k
    <3> QED BY <3>2 DEF Vectored
  <2>3. ASSUME NEW j \in 1 .. i, ops[j] = <<"vector", l>>
        PROVE  w[l] = l \/ \E k \in 1 .. (i - 1) : ops[k + 1] = <<"vector", l>>
    <3>1. CASE j = 1
          BY <1>1, <1>3, <2>1, <2>3, <3>1
    <3>2. CASE j > 1
          BY <2>3, <3>2, (j - 1) + 1 = j, j - 1 \in 1 .. (i - 1)
    <3> QED BY <3>1, <3>2
  <2> QED BY <1>2, <2>1, <2>2, <2>3
<1>6. \A i \in 1 .. (Len(ops) - 1) : Harmless(ops[i + 1])
      BY DEF Vectored
<1> DEFINE rest == Tail(ops)
<1>7. \A i \in 1 .. Len(rest) : Harmless(rest[i])
      BY <1>4, <1>6
<1>8. ASSUME NEW i \in 1 .. Len(rest), rest[i][1] = "enable", NEW l \in rest[i][2]
      PROVE  w[l] = l \/ \E j \in 1 .. (i - 1) : rest[j] = <<"vector", l>>
  <2>1. i \in 1 .. (Len(ops) - 1) /\ ops[i + 1][1] = "enable" /\ l \in ops[i + 1][2]
        BY <1>4, <1>8
  <2>2. w[l] = l \/ \E j \in 1 .. (i - 1) : ops[j + 1] = <<"vector", l>>
        BY <1>5, <2>1
  <2>3. \A j \in 1 .. (i - 1) : rest[j] = ops[j + 1]
        BY <1>4, <2>1
  <2> QED BY <2>2, <2>3
<1>9. rest \in Seq(IrqOp)
      BY <1>4
<1> QED BY <1>7, <1>8, <1>9 DEF Vectored

LEMMA StaysVectored ==
    ASSUME NEW v \in [I!Line -> I!Line \cup {I!NoHandler}], NEW w, NEW l \in I!Line,
           w = v \/ w = [v EXCEPT ![l] = l], NEW ops, Vectored(ops, v)
    PROVE  Vectored(ops, w)
<1>1. \A k \in I!Line : v[k] = k => w[k] = k
      OBVIOUS
<1>2. ASSUME NEW i \in 1 .. Len(ops), ops[i][1] = "enable", NEW k \in ops[i][2]
      PROVE  w[k] = k \/ \E j \in 1 .. (i - 1) : ops[j] = <<"vector", k>>
  <2>1. k \in I!Line
        BY <1>2, Lines DEF Vectored, Harmless
  <2>2. v[k] = k \/ \E j \in 1 .. (i - 1) : ops[j] = <<"vector", k>>
        BY <1>2 DEF Vectored
  <2> QED BY <1>1, <2>1, <2>2
<1> QED BY <1>2 DEF Vectored

LEMMA IrqInit == MCInit => IrqInv
<1> SUFFICES ASSUME MCInit PROVE IrqInv
    OBVIOUS
<1>1. program \in BootPrograms
      BY DEF MCInit, I!Init, BootPrograms
<1>2. program = SubSeq(program, 1, Len(program))
      BY <1>1, BootOpsAre, SubSeqFull
<1>3. Booting(1, program)
      BY <1>2 DEF Booting, MCInit, I!Init
<1>4. \E n \in 1 .. 5, ops \in BootPrograms : Booting(n, ops)
      BY <1>1, <1>3
<1>5. /\ enable \subseteq I!Line /\ select \subseteq I!Line /\ open \subseteq I!Line
      /\ vec \in [I!Line -> I!Line \cup {I!NoHandler}]
      BY Lines DEF MCInit, I!Init
<1> QED BY <1>4, <1>5 DEF IrqInv, MCInit, I!Init

\* An access of main or of a handler, with the interrupts unmasked.
LEMMA HarmlessAccess ==
    ASSUME IrqInv, ~irqMasked, NEW ops, ops # <<>>, Vectored(ops, vec), I!Do(Head(ops))
    PROVE  /\ UNCHANGED <<irqMasked, installed, low, select>>
           /\ enable' \subseteq I!Line /\ oldIntEnable' \subseteq I!Line
           /\ open' \subseteq I!Line /\ raised' \subseteq I!Line
           /\ vec' \in [I!Line -> I!Line \cup {I!NoHandler}]
           /\ Restores(vec)'
           /\ Vectored(Tail(ops), vec')
           /\ \A o : Vectored(o, vec) => Vectored(o, vec')
<1> DEFINE op == Head(ops)
<1>1. /\ Len(ops) \in Nat /\ Len(ops) >= 1 /\ op = ops[1] /\ Harmless(op)
      /\ ops \in Seq(IrqOp)
      BY DEF Vectored
<1>2. op[1] = "enable" => \A l \in op[2] : vec[l] = l /\ l \in I!Ours
      BY <1>1 DEF Vectored, Harmless
<1> HIDE DEF op
<1>3. I!Do(op)
      BY DEF op
<1>4. UNCHANGED <<irqMasked, installed, low, select>>
      BY <1>1, <1>3 DEF I!Do, I!After, Harmless
<1>5. open' \subseteq I!Line /\ raised' \subseteq I!Line
      BY <1>1, <1>3, Lines DEF I!Do, I!With, I!Without, Harmless, IrqInv
<1>6. /\ vec' = IF op[1] = "vector" THEN [vec EXCEPT ![op[2]] = op[2]] ELSE vec
      /\ op[1] = "vector" => op[2] \in I!Ours
      BY <1>1, <1>3 DEF I!Do, Harmless
<1>7. /\ vec' \in [I!Line -> I!Line \cup {I!NoHandler}]
      /\ \A l \in I!Line : vec[l] = l => vec'[l] = l
      BY <1>6, Lines DEF IrqInv
<1>8. \A l \in enable' \cup oldIntEnable' :
          l \in enable \cup oldIntEnable \/ (op[1] = "enable" /\ l \in op[2])
      BY <1>3 DEF I!Do, I!After
<1>9. Restores(vec)'
      BY <1>2, <1>7, <1>8, Lines DEF Restores, IrqInv
<1>10. enable' \subseteq I!Line /\ oldIntEnable' \subseteq I!Line
      BY <1>9, Lines DEF Restores
<1>11. Vectored(Tail(ops), vec')
      BY <1>1, <1>6, AccessLeavesVectored DEF op, IrqInv
<1>12. \A o : Vectored(o, vec) => Vectored(o, vec')
  <2>1. \E l \in I!Line : vec' = vec \/ vec' = [vec EXCEPT ![l] = l]
        BY <1>6, Lines
  <2> QED BY <2>1, StaysVectored DEF IrqInv
<1> QED BY <1>4, <1>5, <1>7, <1>9, <1>10, <1>11, <1>12

\* The accesses that come once, before or at the unmasking.
LEMMA BootAccesses ==
    ASSUME NEW op, I!Do(op), op[1] \in {"clear", "select", "install", "base", "unmask"}
    PROVE  /\ UNCHANGED <<vec, active, open, raised, oldIntEnable>>
           /\ enable' = IF op[1] = "clear" THEN enable \ op[2] ELSE enable
           /\ select' = IF op[1] = "select" THEN op[2] ELSE select
           /\ op[1] = "install" => installed'
           /\ op[1] # "install" => installed' = installed
           /\ op[1] = "base" => low'
           /\ op[1] # "base" => low' = low
           /\ op[1] = "unmask" => irqMasked' = FALSE
           /\ op[1] # "unmask" => irqMasked' = irqMasked
<1>1. /\ UNCHANGED <<vec, active, open, raised, oldIntEnable>>
      /\ enable' = IF op[1] = "clear" THEN enable \ op[2] ELSE enable
      /\ select' = IF op[1] = "select" THEN op[2] ELSE select
      BY DEF I!Do, I!After, I!With, I!Without
<1>2. /\ op[1] = "install" => installed'
      /\ op[1] # "install" => installed' = installed
      BY DEF I!Do, I!After
<1>3. /\ op[1] = "base" => low'
      /\ op[1] # "base" => low' = low
      BY DEF I!Do, I!After
<1>4. /\ op[1] = "unmask" => irqMasked' = FALSE
      /\ op[1] # "unmask" => irqMasked' = irqMasked
      BY DEF I!Do, I!After
<1> QED BY <1>1, <1>2, <1>3, <1>4

\* An access of Fx3IrqInit, or the one that unmasks the interrupts.
LEMMA BootAccess == IrqInv /\ irqMasked = TRUE /\ I!MainStep => IrqInv'
<1> SUFFICES ASSUME IrqInv, irqMasked = TRUE, I!MainStep PROVE IrqInv'
    OBVIOUS
<1>1. PICK n \in 1 .. 5, ops \in BootPrograms : Booting(n, ops)
      BY DEF IrqInv
<1>2. ops \in Seq(IrqOp) /\ Len(ops) >= 12 /\ Len(ops) <= 18
      BY BootOpsAre
<1>3. /\ Head(program) = ops[n]
      /\ Tail(program) = SubSeq(ops, n + 1, Len(ops))
      BY <1>1, <1>2, HeadTailOfSubSeq DEF Booting
<1>4. I!Do(ops[n]) /\ program' = SubSeq(ops, n + 1, Len(ops))
      /\ UNCHANGED <<handler, taken>>
      BY <1>3 DEF I!MainStep
<1> DEFINE op == ops[n]
<1>a. /\ n = 1 => op[1] = "clear" /\ op[2] = I!Line
      /\ n = 2 => op[1] = "select" /\ op[2] = {}
      /\ n = 3 => op[1] = "install"
      /\ n = 4 => op[1] = "base"
      /\ n = 5 => op[1] = "unmask"
  <2>1. /\ ops[1] = <<"clear", I!Line>> /\ ops[2] = <<"select", {}>>
        /\ ops[3] = <<"install">> /\ ops[4] = <<"base">> /\ ops[5] = <<"unmask">>
        BY BootOpsAre
  <2> HIDE DEF op
  <2>2. op = ops[n]
        BY DEF op
  <2> QED BY <2>1, <2>2
<1>b. I!Do(op)
      BY <1>4
<1> HIDE DEF op
<1>c. UNCHANGED <<vec, open, raised, oldIntEnable>>
  <2>1. op[1] \in {"clear", "select", "install", "base", "unmask"}
        BY <1>1, <1>a
  <2> QED BY <1>b, <2>1, BootAccesses
<1> DEFINE Rest == /\ enable' \subseteq I!Line /\ select' \subseteq I!Line
                   /\ oldIntEnable' = {} /\ open' \subseteq I!Line /\ raised' \subseteq I!Line
                   /\ vec' = vec
                   /\ irqMasked' \in BOOLEAN /\ installed' \in BOOLEAN /\ low' \in BOOLEAN
<1>5. CASE n < 5
  <2>1. /\ n + 1 \in 1 .. 5
        /\ n + 1 >= 2 => enable' = {}
        /\ n + 1 >= 3 => select' = {}
        /\ n + 1 >= 4 => installed'
        /\ n + 1 < 5 => ~low'
        /\ n + 1 >= 5 => low'
        /\ irqMasked' /\ Rest
    <3>1. CASE n = 1
      <4>1. enable' = {} /\ UNCHANGED <<select, installed, low, irqMasked>>
            BY <1>a, <1>b, <3>1, BootAccesses DEF IrqInv
      <4> QED BY <1>1, <1>c, <3>1, <4>1 DEF Booting, IrqInv
    <3>2. CASE n = 2
      <4>1. select' = {} /\ UNCHANGED <<enable, installed, low, irqMasked>>
            BY <1>a, <1>b, <3>2, BootAccesses DEF IrqInv
      <4> QED BY <1>1, <1>c, <3>2, <4>1 DEF Booting, IrqInv
    <3>3. CASE n = 3
      <4>1. installed' /\ UNCHANGED <<enable, select, low, irqMasked>>
            BY <1>a, <1>b, <3>3, BootAccesses DEF IrqInv
      <4> QED BY <1>1, <1>c, <3>3, <4>1 DEF Booting, IrqInv
    <3>4. CASE n = 4
      <4>1. low' /\ UNCHANGED <<enable, select, installed, irqMasked>>
            BY <1>a, <1>b, <3>4, BootAccesses DEF IrqInv
      <4> QED BY <1>1, <1>c, <3>4, <4>1 DEF Booting, IrqInv
    <3> QED BY <1>5, <3>1, <3>2, <3>3, <3>4
  <2> DEFINE m == n + 1
  <2>2. m \in 1 .. 5 /\ Booting(m, ops)'
        BY <1>4, <2>1 DEF Booting
  <2> HIDE DEF m
  <2>3. \E k \in 1 .. 5, o \in BootPrograms : Booting(k, o)'
        BY <2>2
  <2> QED BY <1>4, <2>1, <2>3 DEF IrqInv
<1>6. CASE n = 5
  <2>1. /\ ~irqMasked' /\ Rest
        /\ UNCHANGED <<enable, select, installed, low>>
        BY <1>1, <1>a, <1>b, <1>6, BootAccesses DEF Booting, IrqInv
  <2>2. Restores(vec)'
        BY <1>1, <1>6, <2>1 DEF Booting, Restores
  <2>3. Vectored(SubSeq(ops, 6, Len(ops)), vec)
    <3> DEFINE rest == SubSeq(ops, 6, Len(ops))
    <3>1. /\ rest \in Seq(IrqOp) /\ Len(rest) = Len(ops) - 5 /\ Len(rest) <= 13
          /\ \A i \in 1 .. Len(rest) : rest[i] = ops[i + 5]
          BY <1>2, SubSeqProperties
    <3> HIDE DEF rest
    <3>a. /\ rest[1] = ops[6] /\ rest[2] = ops[7] /\ rest[3] = ops[8] /\ rest[4] = ops[9]
          /\ rest[5] = ops[10] /\ rest[6] = ops[11] /\ rest[7] = ops[12]
          BY <1>2, <3>1, SMTT(40)
    <3>b. Len(rest) > 7 =>
                /\ Len(ops) > 12 /\ Len(rest) >= 13
                /\ rest[8] = ops[13] /\ rest[9] = ops[14] /\ rest[10] = ops[15]
                /\ rest[11] = ops[16] /\ rest[12] = ops[17] /\ rest[13] = ops[18]
      <4>1. Len(rest) > 7 => Len(ops) > 12
            BY <1>2, <3>1
      <4>2. Len(ops) > 12 => Len(ops) >= 18
            BY BootOpsAre
      <4> QED BY <1>2, <3>1, <4>1, <4>2
    <3>2. /\ rest[1] = <<"shut", "USB_CORE">>   /\ rest[2] = <<"vector", "USB_CORE">>
          /\ rest[3] = <<"vector", "GCTL_POWER">>
          /\ rest[4] = <<"clear", {"GCTL_POWER", "USB_CORE"}>>
          /\ rest[5] = <<"ack", "GCTL_POWER">>  /\ rest[6] = <<"open", "GCTL_POWER">>
          /\ rest[7] = <<"enable", {"GCTL_POWER"}>>
          BY <3>a, BootOpsAre
    <3>3. Len(rest) > 7 =>
                  /\ rest[8] = <<"ack", "USB_CORE">> /\ rest[9] = <<"open", "USB_CORE">>
                  /\ rest[10] = <<"enable", {"USB_CORE"}>> /\ rest[11] = <<"save">>
                  /\ rest[12] = <<"clear", I!Line>>      /\ rest[13] = <<"restore">>
          BY <3>b, BootOpsAre
    <3>c. \A i \in 1 .. Len(rest) :
              \/ i = 1 \/ i = 2 \/ i = 3 \/ i = 4 \/ i = 5 \/ i = 6 \/ i = 7
              \/ /\ Len(rest) > 7
                 /\ i = 8 \/ i = 9 \/ i = 10 \/ i = 11 \/ i = 12 \/ i = 13
          BY <3>1
    <3>4. ASSUME NEW i \in 1 .. Len(rest) PROVE Harmless(rest[i])
      <4>1. ASSUME i = 1 \/ i = 2 \/ i = 3 \/ i = 4 \/ i = 5 \/ i = 6 \/ i = 7
            PROVE  Harmless(rest[i])
            BY <3>2, <4>1, Lines, SMTT(40) DEF Harmless
      <4>2. ASSUME Len(rest) > 7, i = 8 \/ i = 9 \/ i = 10 \/ i = 11 \/ i = 12 \/ i = 13
            PROVE  Harmless(rest[i])
            BY <3>3, <4>2, Lines, SMTT(40) DEF Harmless
      <4> QED BY <3>c, <4>1, <4>2
    <3>5. ASSUME NEW i \in 1 .. Len(rest), rest[i][1] = "enable", NEW l \in rest[i][2]
          PROVE  \E j \in 1 .. (i - 1) : rest[j] = <<"vector", l>>
      <4>a. ASSUME i = 1 \/ i = 2 \/ i = 3 \/ i = 4 \/ i = 5 \/ i = 6 \/ i = 7
            PROVE  i = 7 /\ l = "GCTL_POWER"
            BY <3>2, <3>5, <4>a
      <4>b. ASSUME Len(rest) > 7, i = 8 \/ i = 9 \/ i = 10 \/ i = 11 \/ i = 12 \/ i = 13
            PROVE  i = 10 /\ l = "USB_CORE"
            BY <3>3, <3>5, <4>b
      <4>1. (i = 7 /\ l = "GCTL_POWER") \/ (i = 10 /\ l = "USB_CORE")
            BY <3>c, <4>a, <4>b
      <4>2. rest[2] = <<"vector", "USB_CORE">> /\ rest[3] = <<"vector", "GCTL_POWER">>
            BY <3>2
      <4> QED BY <4>1, <4>2
    <3>6. Vectored(rest, vec)
          BY <3>1, <3>4, <3>5 DEF Vectored
    <3> QED BY <3>6 DEF rest
  <2>4. Vectored(program, vec)' /\ Vectored(handler, vec)'
        BY <1>4, <1>6, <2>1, <2>3, PibOpsAre DEF IrqInv
  <2> QED BY <1>1, <1>4, <1>6, <2>1, <2>2, <2>4 DEF IrqInv, Booting
<1> QED BY <1>5, <1>6

LEMMA IrqStep == IrqInv /\ I!Next => IrqInv'
<1> SUFFICES ASSUME IrqInv, I!Next PROVE IrqInv'
    OBVIOUS
<1>1. CASE I!MainStep
  <2>1. CASE irqMasked
        BY <1>1, <2>1, BootAccess
  <2>2. CASE ~irqMasked
    <3>1. program # <<>> /\ Vectored(program, vec) /\ I!Do(Head(program))
          BY <1>1, <2>2 DEF I!MainStep, IrqInv
    <3>2. program' = Tail(program) /\ UNCHANGED <<handler, taken>>
          BY <1>1 DEF I!MainStep
    <3> QED BY <2>2, <3>1, <3>2, HarmlessAccess DEF IrqInv
  <2> QED BY <2>1, <2>2 DEF IrqInv
<1>2. CASE I!IsrStep
  <2>1. ~irqMasked
        BY <1>2 DEF I!IsrStep, IrqInv
  <2>2. handler # <<>> /\ Vectored(handler, vec) /\ I!Do(Head(handler))
        BY <1>2, <2>1 DEF I!IsrStep, IrqInv
  <2>3. handler' = Tail(handler) /\ UNCHANGED <<program, taken>>
        BY <1>2 DEF I!IsrStep
  <2> QED BY <2>1, <2>2, <2>3, HarmlessAccess DEF IrqInv
<1>3. CASE I!MainStops
  <2>1. UNCHANGED <<irqMasked, installed, low, enable, select, vec, open, raised, oldIntEnable,
                    handler, taken>>
        BY <1>3 DEF I!MainStops, I!cpuVars, I!vicVars, I!devVars
  <2>2. ~irqMasked
    <3> SUFFICES ASSUME irqMasked = TRUE PROVE FALSE
        BY DEF IrqInv
    <3>1. PICK n \in 1 .. 5, ops \in BootPrograms : Booting(n, ops)
          BY DEF IrqInv
    <3>2. Len(ops) >= 12 /\ Len(ops) <= 18 /\ ops \in Seq(IrqOp)
          BY BootOpsAre
    <3>3. Len(program) = Len(ops) - n + 1
          BY <3>1, <3>2, SubSeqProperties DEF Booting
    <3> QED BY <1>3, <3>2, <3>3 DEF I!MainStops
  <2>3. Vectored(program, vec)'
        BY <1>3, <2>1, PibOpsAre DEF I!MainStops
  <2> QED BY <2>1, <2>2, <2>3 DEF IrqInv, Restores
<1>4. CASE I!MainLoop
      BY <1>4 DEF I!MainLoop, I!vars, I!cpuVars, I!vicVars, I!devVars, IrqInv, Booting, Restores
<1>5. CASE I!Take
  <2>1. PICK line \in I!Pending, starts \in BOOLEAN :
            /\ handler' = I!handlerOps(line, starts)
            /\ taken' = [line |-> line, ran |-> I!Handler(line)]
        BY <1>5 DEF I!Take
  <2>2. UNCHANGED <<irqMasked, installed, low, enable, select, vec, open, raised, oldIntEnable,
                    program>> /\ ~irqMasked
        BY <1>5 DEF I!Take, I!cpuVars, I!devVars
  <2>3. line \in I!Ours /\ vec[line] = line
        BY <2>2 DEF I!Pending, IrqInv, Restores
  <2>4. Vectored(handler, vec)'
        BY <2>1, <2>2, <2>3, HandlersAre
  <2>5. taken'.ran = taken'.line
        BY <2>1, <2>2, <2>3 DEF I!Handler, IrqInv
  <2> QED BY <2>2, <2>4, <2>5 DEF IrqInv, Restores
<1>6. ASSUME NEW line \in I!Line, I!Raise(line) PROVE IrqInv'
      BY <1>6 DEF I!Raise, I!cpuVars, I!vicVars, IrqInv, Booting, Restores
<1> QED BY <1>1, <1>2, <1>3, <1>4, <1>5, <1>6 DEF I!Next

(***************************************************************************)
(* OwnHandler holds however many interrupts there are and wherever they     *)
(* come: no exception runs what the boot loader left in the vectors         *)
(* (irq.c:29-39, usb.c:660-664, gpif.c:193-197).                            *)
(***************************************************************************)
THEOREM EachHasItsHandler == MCSpec => []OwnHandler
<1>1. IrqInv => OwnHandler
  <2> SUFFICES ASSUME IrqInv PROVE OwnHandler
      OBVIOUS
  <2>1. low => enable \subseteq I!Ours
    <3>1. CASE irqMasked
          BY <3>1 DEF IrqInv, Booting
    <3>2. CASE ~irqMasked
          BY <3>2 DEF IrqInv, Restores
    <3> QED BY <3>1, <3>2 DEF IrqInv
  <2> QED BY <2>1 DEF IrqInv, OwnHandler, I!TypeOK, I!OwnHandler
<1>2. IrqInv /\ [MCNext]_allVars => IrqInv'
  <2> SUFFICES ASSUME IrqInv, [MCNext]_allVars PROVE IrqInv'
      OBVIOUS
  <2>1. CASE UNCHANGED irqVars
        BY <2>1 DEF irqVars, IrqInv, Booting, Restores
  <2>2. CASE I!Next
        BY <2>2, IrqStep
  <2> QED BY <2>1, <2>2 DEF MCNext, allVars
<1> QED BY <1>1, <1>2, IrqInit, PTL DEF MCSpec, allVars

-----------------------------------------------------------------------------
(***************************************************************************)
(* The clocks, with the options of the makefile: what is left of the boot   *)
(* tells which registers have been set.                                     *)
(***************************************************************************)
BuildOptions == PLL_FBDIV = 20 /\ CPU_DIV = 2 /\ GPIO_FAST_DIV = 2 /\ GPIO_SLOW_DIV = 48

bootSteps == <<"cpu", "pll", "lock", "uart", "fast", "slow", "pwm">>

Booted(n) ==
    /\ boot = SubSeq(bootSteps, n + 1, 7)
    /\ n >= 1 => reg["CPU"].div = 1
    /\ n >= 2 => fbdiv = 20
    /\ n >= 3 => locked
    /\ n >= 4 => reg["UART"].div = 207
    /\ n >= 5 => reg["GPIO_FAST"].div = 1
    /\ n >= 6 => reg["GPIO_SLOW"].div = 47
    /\ n >= 7 => pwm = [period |-> 3999, threshold |-> 2000]

\* The registers as CMD_START sets them, by the frequency and the width it asks for.
Started ==
    /\ \/ Frequency(asked.flags) = 192000000 /\ reg["PIB"].div = 1 /\ limits.high
       \/ Frequency(asked.flags) = 48000000 /\ reg["PIB"].div = 7 /\ ~limits.high
       \/ Frequency(asked.flags) = 30000000 /\ reg["PIB"].div = 12 /\ ~limits.high
    /\ ~reg["PIB"].half
    /\ limits.data = asked.delay
    /\ LET addr == limits.addr + (IF asked.delay = 0 THEN 1 ELSE 0)
       IN  \/ limits.width = 0 /\ addr = 6144
           \/ limits.width = 1 /\ addr = 3072
           \/ limits.width = 2 /\ addr = 2048
           \/ limits.width = 3 /\ addr = 1536

Clock == {"CPU", "DMA", "MMIO", "GPIO_FAST", "GPIO_SLOW", "UART", "PIB"}

ClockTypes ==
    /\ BuildOptions
    /\ fbdiv \in 1 .. 63 /\ locked \in BOOLEAN
    /\ reg \in [Clock -> [div : Nat, half : BOOLEAN, en : BOOLEAN]]
    /\ limits \in [width : 0 .. 3, data : Nat, addr : Nat, high : BOOLEAN]

DividersFit ==
    /\ \A c \in {"CPU", "DMA", "MMIO", "GPIO_FAST", "PIB"} : reg[c].div <= 15
    /\ reg["GPIO_SLOW"].div <= 63 /\ reg["UART"].div <= 207

OnOnceStarted == reg["PIB"].en => boot = <<>> /\ Started

ClockInv ==
    /\ ClockTypes
    /\ \E n \in 0 .. 7 : Booted(n)
    /\ DividersFit
    /\ OnOnceStarted

LEMMA BuildFrequencies ==
    ASSUME BuildOptions
    PROVE  /\ SYS_CLK = 384000000 /\ CPU_CLK = 192000000
           /\ GPIO_FAST_CLK = 192000000 /\ GPIO_SLOW_CLK = 4000000
           /\ UartDivider(115200) = 207
           /\ ReferencePeriod = 3999 /\ GPIO_SLOW_CLK \div 2000 = 2000
           /\ CLOCK_DIVISOR_X2_FOR(192000000) = 4
           /\ CLOCK_DIVISOR_X2_FOR(48000000) = 16
           /\ CLOCK_DIVISOR_X2_FOR(30000000) = 26
<1>1. SYS_CLK = 384000000
      BY DEF BuildOptions, SYS_CLK
<1>2. CPU_CLK = 192000000 /\ GPIO_FAST_CLK = 192000000
      BY <1>1 DEF BuildOptions, CPU_CLK, GPIO_FAST_CLK
<1>3. GPIO_SLOW_CLK = 4000000
      BY <1>2 DEF BuildOptions, GPIO_SLOW_CLK
<1>4. UartDivider(115200) = 207
      BY <1>1 DEF UartDivider
<1>5. ReferencePeriod = 3999 /\ GPIO_SLOW_CLK \div 2000 = 2000
      BY <1>3 DEF ReferencePeriod
<1>6. /\ CLOCK_DIVISOR_X2_FOR(192000000) = 4
      /\ CLOCK_DIVISOR_X2_FOR(48000000) = 16
      /\ CLOCK_DIVISOR_X2_FOR(30000000) = 26
      BY <1>1 DEF CLOCK_DIVISOR_X2_FOR
<1> QED BY <1>1, <1>2, <1>3, <1>4, <1>5, <1>6

LEMMA ClockInit == BuildOptions /\ MCInit => ClockInv
<1> SUFFICES ASSUME BuildOptions, MCInit PROVE ClockInv
    OBVIOUS
<1>1. Init
      BY DEF MCInit
<1>2. boot = bootSteps
      BY <1>1 DEF Init, bootSteps
<1>3. bootSteps = SubSeq(bootSteps, 0 + 1, 7)
      BY DEF bootSteps
<1>4. Booted(0)
      BY <1>2, <1>3 DEF Booted
<1>5. \E n \in 0 .. 7 : Booted(n)
      BY <1>4
<1>6. reg = [c \in Clock |-> NoClock]
      BY <1>1 DEF Init, DividerBits, Clock
<1>7. /\ reg \in [Clock -> [div : Nat, half : BOOLEAN, en : BOOLEAN]]
      /\ \A c \in Clock : reg[c].div = 0 /\ reg[c].en = FALSE
      BY <1>6 DEF NoClock
<1>8. fbdiv \in 1 .. 63 /\ locked \in BOOLEAN
  <2>1. fbdiv \in BootFbdivs
        BY <1>1 DEF Init
  <2>3. BootFbdivs \subseteq 1 .. 63
        BY ClocksAssumption
  <2>2. locked \in BOOLEAN
        BY <1>1, Zenon DEF Init
  <2> QED BY <2>1, <2>2, <2>3
<1>9. limits \in [width : 0 .. 3, data : Nat, addr : Nat, high : BOOLEAN]
      BY <1>1 DEF Init
<1>10. /\ \A c \in {"CPU", "DMA", "MMIO", "GPIO_FAST", "PIB"} : reg[c].div <= 15
       /\ reg["GPIO_SLOW"].div <= 63 /\ reg["UART"].div <= 207
       BY <1>7 DEF Clock
<1>11. ~reg["PIB"].en
       BY <1>7 DEF Clock
<1>12. BuildOptions
       OBVIOUS
<1>13. reg["PIB"].en => boot = <<>> /\ Started
       BY <1>11
<1> QED BY <1>5, <1>7, <1>8, <1>9, <1>10, <1>12, <1>13 DEF ClockInv, ClockTypes, DividersFit, OnOnceStarted

LEMMA BootStepsAre ==
    /\ bootSteps \in Seq({"cpu", "pll", "lock", "uart", "fast", "slow", "pwm"})
    /\ Len(bootSteps) = 7
    /\ bootSteps[1] = "cpu" /\ bootSteps[2] = "pll" /\ bootSteps[3] = "lock"
    /\ bootSteps[4] = "uart" /\ bootSteps[5] = "fast" /\ bootSteps[6] = "slow"
    /\ bootSteps[7] = "pwm"
<1>1. bootSteps \in Seq({"cpu", "pll", "lock", "uart", "fast", "slow", "pwm"})
      BY DEF bootSteps
<1>2. Len(bootSteps) = 7
      BY DEF bootSteps
<1>3. /\ bootSteps[1] = "cpu" /\ bootSteps[2] = "pll" /\ bootSteps[3] = "lock"
      /\ bootSteps[4] = "uart" /\ bootSteps[5] = "fast" /\ bootSteps[6] = "slow"
      /\ bootSteps[7] = "pwm"
      BY DEF bootSteps
<1> QED BY <1>1, <1>2, <1>3

LEMMA BootStepIs ==
    ASSUME BootStep
    PROVE  /\ Head(boot) = "cpu" => InitCpuClock
           /\ Head(boot) = "pll" => ChangePll
           /\ Head(boot) = "lock" => WaitForLock
           /\ Head(boot) = "uart" => UartClock
           /\ Head(boot) = "fast" => FastClock
           /\ Head(boot) = "slow" => SlowClock
           /\ Head(boot) = "pwm" => ReferenceOutput
BY DEF BootStep

LEMMA BootSteps ==
    ASSUME NEW n \in 0 .. 7, Booted(n), boot # <<>>
    PROVE  /\ n < 7
           /\ Head(boot) = bootSteps[n + 1]
           /\ Tail(boot) = SubSeq(bootSteps, n + 2, 7)
<1>1. bootSteps \in Seq({"cpu", "pll", "lock", "uart", "fast", "slow", "pwm"}) /\ Len(bootSteps) = 7
      BY BootStepsAre
<1>2. n < 7
      BY <1>1, SubSeqEmpty DEF Booted
<1>3. n + 1 \in 1 .. 7 /\ 7 \in (n + 1) .. 7
      BY <1>2
<1> DEFINE k == n + 1
<1>4. k \in 1 .. 7 /\ 7 \in k .. 7 /\ boot = SubSeq(bootSteps, k, 7) /\ k + 1 = n + 2
      BY <1>3 DEF Booted
<1>5. k \in 1 .. Len(bootSteps) /\ 7 \in k .. Len(bootSteps)
      BY <1>1, <1>4
<1> HIDE DEF k
<1>6. Head(boot) = bootSteps[k] /\ Tail(boot) = SubSeq(bootSteps, k + 1, 7)
      BY <1>1, <1>4, <1>5, HeadTailOfSubSeq
<1> QED BY <1>2, <1>4, <1>6 DEF k

ClockRegisters == [Clock -> [div : Nat, half : BOOLEAN, en : BOOLEAN]]

LEMMA SetsClock ==
    ASSUME reg \in ClockRegisters, NEW c \in Clock, NEW d \in Nat, SetClock(c, Divider(d))
    PROVE  /\ reg' \in ClockRegisters
           /\ reg'[c].div = d
           /\ \A x \in Clock : x # c => reg'[x] = reg[x]
BY DEF SetClock, Divider, ClockRegisters

\* Nothing is started before main is in its loop.
LEMMA ClockBootStep == ClockInv /\ BootStep => ClockInv'
<1> SUFFICES ASSUME ClockInv, BootStep PROVE ClockInv'
    OBVIOUS
<1>1. PICK n \in 0 .. 7 : Booted(n)
      BY DEF ClockInv, ClockTypes, DividersFit, OnOnceStarted
<1>2. boot # <<>> /\ n < 7
      BY <1>1, BootSteps DEF BootStep
<1>3. Head(boot) = bootSteps[n + 1] /\ boot' = SubSeq(bootSteps, n + 2, 7)
      BY <1>1, <1>2, BootSteps DEF BootStep
<1>4. ~reg["PIB"].en /\ UNCHANGED <<limits, asked>>
      BY <1>2 DEF ClockInv, ClockTypes, DividersFit, OnOnceStarted, BootStep
<1>0. reg \in ClockRegisters
      BY DEF ClockInv, ClockTypes, DividersFit, OnOnceStarted, ClockRegisters
<1>c. boot' = SubSeq(bootSteps, (n + 1) + 1, 7)
      BY <1>3
<1> DEFINE Goal == /\ reg' \in ClockRegisters /\ fbdiv' \in 1 .. 63 /\ locked' \in BOOLEAN
                   /\ Booted(n + 1)'
                   /\ \A x \in {"CPU", "DMA", "MMIO", "GPIO_FAST", "PIB"} : reg'[x].div <= 15
                   /\ reg'["GPIO_SLOW"].div <= 63 /\ reg'["UART"].div <= 207
                   /\ reg'["PIB"] = reg["PIB"]
<1>5. ASSUME n = 0 PROVE Goal
  <2>1. InitCpuClock
        BY <1>3, <1>5, BootStepIs, BootStepsAre
  <2>2. /\ reg' \in ClockRegisters /\ reg'["CPU"].div = 1
        /\ reg'["DMA"].div = 1 /\ reg'["MMIO"].div = 1
        /\ \A x \in Clock : x \notin {"CPU", "DMA", "MMIO"} => reg'[x] = reg[x]
        /\ UNCHANGED <<fbdiv, locked, pwm>>
    <3>1. CPU_DIV - 1 = 1
          BY DEF ClockInv, ClockTypes, DividersFit, OnOnceStarted, BuildOptions
    <3>2. /\ reg' = [reg EXCEPT !["CPU"] = Divider(1), !["DMA"] = Divider(1), !["MMIO"] = Divider(1)]
          /\ UNCHANGED <<fbdiv, locked, pwm>>
          BY <2>1, <3>1 DEF InitCpuClock
    <3>3. Divider(1) \in [div : Nat, half : BOOLEAN, en : BOOLEAN] /\ Divider(1).div = 1
          BY DEF Divider
    <3> QED BY <1>0, <3>2, <3>3 DEF Clock, ClockRegisters
  <2>3. Booted(n + 1)'
        BY <1>1, <1>5, <1>c, <2>2 DEF Booted
  <2>4. /\ \A x \in {"CPU", "DMA", "MMIO", "GPIO_FAST", "PIB"} : reg'[x].div <= 15
        /\ reg'["GPIO_SLOW"].div <= 63 /\ reg'["UART"].div <= 207
        BY <2>2 DEF ClockInv, DividersFit, Clock
  <2>5. fbdiv' \in 1 .. 63 /\ locked' \in BOOLEAN /\ reg'["PIB"] = reg["PIB"]
        BY <2>2 DEF ClockInv, ClockTypes, Clock
  <2> QED BY <2>2, <2>3, <2>4, <2>5
<1>6. ASSUME n = 1 PROVE Goal
  <2>1. ChangePll
        BY <1>3, <1>6, BootStepIs, BootStepsAre
  <2>2. fbdiv' = 20 /\ locked' \in BOOLEAN /\ UNCHANGED <<reg, pwm>>
    <3>1. PLL_FBDIV = 20 /\ locked \in BOOLEAN
          BY DEF ClockInv, ClockTypes, DividersFit, OnOnceStarted, BuildOptions
    <3>2. CASE PllNeeded
          BY <2>1, <3>1, <3>2 DEF ChangePll
    <3>3. CASE ~PllNeeded
          BY <2>1, <3>1, <3>3 DEF ChangePll, PllNeeded
    <3> QED BY <3>2, <3>3
  <2> QED BY <1>0, <1>1, <1>6, <1>c, <2>2 DEF ClockInv, ClockTypes, DividersFit, OnOnceStarted, Booted
<1>7. ASSUME n = 2 PROVE Goal
  <2>1. WaitForLock
        BY <1>3, <1>7, BootStepIs, BootStepsAre
  <2>2. locked /\ UNCHANGED <<fbdiv, locked, reg, pwm>>
        BY <2>1 DEF WaitForLock
  <2> QED BY <1>0, <1>1, <1>7, <1>c, <2>2 DEF ClockInv, ClockTypes, DividersFit, OnOnceStarted, Booted
<1>8. ASSUME n = 3 PROVE Goal
  <2>1. UartClock
        BY <1>3, <1>8, BootStepIs, BootStepsAre
  <2>2. SetClock("UART", Divider(207)) /\ UNCHANGED <<fbdiv, locked, pwm>>
        BY <2>1, BuildFrequencies DEF ClockInv, ClockTypes, DividersFit, OnOnceStarted, BuildOptions, UartClock
  <2>3. /\ reg' \in ClockRegisters /\ reg'["UART"].div = 207
        /\ \A x \in Clock : x # "UART" => reg'[x] = reg[x]
        BY <1>0, <2>2, SetsClock DEF Clock
  <2>4. Booted(n + 1)'
        BY <1>1, <1>8, <1>c, <2>2, <2>3 DEF Booted, Clock
  <2>5. /\ \A x \in {"CPU", "DMA", "MMIO", "GPIO_FAST", "PIB"} : reg'[x].div <= 15
        /\ reg'["GPIO_SLOW"].div <= 63 /\ reg'["UART"].div <= 207
        BY <2>3 DEF ClockInv, DividersFit, Clock
  <2>6. fbdiv' \in 1 .. 63 /\ locked' \in BOOLEAN /\ reg'["PIB"] = reg["PIB"]
        BY <2>2, <2>3 DEF ClockInv, ClockTypes, Clock
  <2> QED BY <2>3, <2>4, <2>5, <2>6
<1>9. ASSUME n = 4 PROVE Goal
  <2>1. FastClock
        BY <1>3, <1>9, BootStepIs, BootStepsAre
  <2>2. SetClock("GPIO_FAST", Divider(1)) /\ UNCHANGED <<fbdiv, locked, pwm>>
        BY <2>1, BuildFrequencies DEF ClockInv, ClockTypes, DividersFit, OnOnceStarted, BuildOptions, FastClock
  <2>3. /\ reg' \in ClockRegisters /\ reg'["GPIO_FAST"].div = 1
        /\ \A x \in Clock : x # "GPIO_FAST" => reg'[x] = reg[x]
        BY <1>0, <2>2, SetsClock DEF Clock
  <2>4. Booted(n + 1)'
        BY <1>1, <1>9, <1>c, <2>2, <2>3 DEF Booted, Clock
  <2>5. /\ \A x \in {"CPU", "DMA", "MMIO", "GPIO_FAST", "PIB"} : reg'[x].div <= 15
        /\ reg'["GPIO_SLOW"].div <= 63 /\ reg'["UART"].div <= 207
        BY <2>3 DEF ClockInv, DividersFit, Clock
  <2>6. fbdiv' \in 1 .. 63 /\ locked' \in BOOLEAN /\ reg'["PIB"] = reg["PIB"]
        BY <2>2, <2>3 DEF ClockInv, ClockTypes, Clock
  <2> QED BY <2>3, <2>4, <2>5, <2>6
<1>10. ASSUME n = 5 PROVE Goal
  <2>1. SlowClock
        BY <1>3, <1>10, BootStepIs, BootStepsAre
  <2>2. SetClock("GPIO_SLOW", Divider(47)) /\ UNCHANGED <<fbdiv, locked, pwm>>
        BY <2>1, BuildFrequencies DEF ClockInv, ClockTypes, DividersFit, OnOnceStarted, BuildOptions, SlowClock
  <2>3. /\ reg' \in ClockRegisters /\ reg'["GPIO_SLOW"].div = 47
        /\ \A x \in Clock : x # "GPIO_SLOW" => reg'[x] = reg[x]
        BY <1>0, <2>2, SetsClock DEF Clock
  <2>4. Booted(n + 1)'
        BY <1>1, <1>10, <1>c, <2>2, <2>3 DEF Booted, Clock
  <2>5. /\ \A x \in {"CPU", "DMA", "MMIO", "GPIO_FAST", "PIB"} : reg'[x].div <= 15
        /\ reg'["GPIO_SLOW"].div <= 63 /\ reg'["UART"].div <= 207
        BY <2>3 DEF ClockInv, DividersFit, Clock
  <2>6. fbdiv' \in 1 .. 63 /\ locked' \in BOOLEAN /\ reg'["PIB"] = reg["PIB"]
        BY <2>2, <2>3 DEF ClockInv, ClockTypes, Clock
  <2> QED BY <2>3, <2>4, <2>5, <2>6
<1>11. ASSUME n = 6 PROVE Goal
  <2>1. ReferenceOutput
        BY <1>3, <1>11, BootStepIs, BootStepsAre
  <2>2. /\ pwm' = [period |-> 3999, threshold |-> 2000]
        /\ UNCHANGED <<fbdiv, locked, reg>>
        BY <2>1, BuildFrequencies DEF ReferenceOutput, ClockInv, ClockTypes, DividersFit, OnOnceStarted
  <2> QED BY <1>0, <1>1, <1>11, <1>c, <2>2 DEF ClockInv, ClockTypes, DividersFit, OnOnceStarted, Booted
<1> HIDE DEF Goal
<1>12. Goal
       BY <1>2, <1>5, <1>6, <1>7, <1>8, <1>9, <1>10, <1>11
<1>13. \E m \in 0 .. 7 : Booted(m)'
  <2> DEFINE m == n + 1
  <2>1. m \in 0 .. 7 /\ Booted(m)'
        BY <1>2, <1>12 DEF Goal
  <2> HIDE DEF m
  <2> QED BY <2>1
<1> QED BY <1>4, <1>12, <1>13 DEF ClockInv, ClockTypes, DividersFit, OnOnceStarted, ClockRegisters, Goal

LEMMA Frequencies ==
    ASSUME NEW flags
    PROVE  /\ \/ Frequency(flags) = 192000000
              \/ Frequency(flags) = 48000000
              \/ Frequency(flags) = 30000000
           /\ \/ Samples(flags) = 8
              \/ Samples(flags) = 16
              \/ Samples(flags) = 24
              \/ Samples(flags) = 32
<1>1. \/ Frequency(flags) = 192000000
      \/ Frequency(flags) = 48000000
      \/ Frequency(flags) = 30000000
      BY SMT DEF Frequency, Bit
<1>2. \/ Samples(flags) = 8
      \/ Samples(flags) = 16
      \/ Samples(flags) = 24
      \/ Samples(flags) = 32
      BY SMT DEF Samples, Bit
<1> QED BY <1>1, <1>2, SMT

LEMMA StartSets ==
    ASSUME BuildOptions, reg \in ClockRegisters, NEW flags \in Flags, NEW delay \in Delays,
           Start(flags, delay)
    PROVE  /\ Started'
           /\ reg' \in ClockRegisters /\ reg'["PIB"].div <= 15
           /\ \A x \in Clock : x # "PIB" => reg'[x] = reg[x]
           /\ limits' \in [width : 0 .. 3, data : Nat, addr : Nat, high : BOOLEAN]
<1> DEFINE x2 == CLOCK_DIVISOR_X2_FOR(Frequency(flags))
           bits == Samples(flags)
           addr == SamplesPerBuffer(bits) - (IF delay = 0 THEN 1 ELSE 0)
<1>1. /\ reg' = [reg EXCEPT !["PIB"] = PibWord(x2)]
      /\ limits' = [width |-> bits \div 8 - 1, data |-> delay, addr |-> addr, high |-> x2 < 11]
      /\ asked' = [flags |-> flags, delay |-> delay]
      BY SMT DEF Start, SetClock
<1>2. delay \in Nat
      BY ClocksAssumption, SMT
<1>3. \/ Frequency(flags) = 192000000 /\ x2 = 4
      \/ Frequency(flags) = 48000000 /\ x2 = 16
      \/ Frequency(flags) = 30000000 /\ x2 = 26
      BY Frequencies, BuildFrequencies, SMT
<1> HIDE DEF x2
<1>4. PibWord(4).div = 1 /\ PibWord(16).div = 7 /\ PibWord(26).div = 12
      BY SMT DEF PibWord
<1>5. ASSUME x2 = 4 \/ x2 = 16 \/ x2 = 26
      PROVE  PibWord(x2) \in [div : Nat, half : BOOLEAN, en : BOOLEAN] /\ ~PibWord(x2).half
  <2>1. x2 \div 2 - 1 \in Nat /\ x2 % 2 = 0
        BY <1>5, SMT
  <2>2. (x2 % 2 = 1) = FALSE
        BY <2>1, SMT
  <2>3. PibWord(x2) = [div |-> x2 \div 2 - 1, half |-> FALSE, en |-> TRUE]
        BY <2>2, Zenon DEF PibWord
  <2> QED BY <2>1, <2>3
<1>6. /\ reg' \in ClockRegisters
      /\ reg'["PIB"] = PibWord(x2)
      /\ \A x \in Clock : x # "PIB" => reg'[x] = reg[x]
      BY <1>1, <1>3, <1>5, SMT DEF ClockRegisters, Clock
<1>7. \/ bits = 8 /\ SamplesPerBuffer(bits) = 6144
      \/ bits = 16 /\ SamplesPerBuffer(bits) = 3072
      \/ bits = 24 /\ SamplesPerBuffer(bits) = 2048
      \/ bits = 32 /\ SamplesPerBuffer(bits) = 1536
      BY Frequencies, SMT DEF SamplesPerBuffer
<1> HIDE DEF bits
<1>8. /\ addr \in Nat /\ bits \div 8 - 1 \in 0 .. 3
      /\ \/ bits \div 8 - 1 = 0 /\ addr + (IF delay = 0 THEN 1 ELSE 0) = 6144
         \/ bits \div 8 - 1 = 1 /\ addr + (IF delay = 0 THEN 1 ELSE 0) = 3072
         \/ bits \div 8 - 1 = 2 /\ addr + (IF delay = 0 THEN 1 ELSE 0) = 2048
         \/ bits \div 8 - 1 = 3 /\ addr + (IF delay = 0 THEN 1 ELSE 0) = 1536
      BY <1>7, SMT
<1> HIDE DEF addr
<1>9. (x2 < 11) \in BOOLEAN
      BY SMT
<1>10. limits' \in [width : 0 .. 3, data : Nat, addr : Nat, high : BOOLEAN]
      BY <1>1, <1>2, <1>8, <1>9, SMT
<1>11. \/ Frequency(flags) = 192000000 /\ reg'["PIB"].div = 1 /\ limits'.high
       \/ Frequency(flags) = 48000000 /\ reg'["PIB"].div = 7 /\ ~limits'.high
       \/ Frequency(flags) = 30000000 /\ reg'["PIB"].div = 12 /\ ~limits'.high
  <2>1. limits'.high = (x2 < 11)
        BY <1>1, Zenon
  <2>2. (x2 < 11 => limits'.high) /\ (~(x2 < 11) => ~limits'.high)
        BY <2>1, Zenon
  <2>3. /\ x2 = 4 => reg'["PIB"].div = 1 /\ x2 < 11
        /\ x2 = 16 => reg'["PIB"].div = 7 /\ ~(x2 < 11)
        /\ x2 = 26 => reg'["PIB"].div = 12 /\ ~(x2 < 11)
        BY <1>4, <1>6, SMT
  <2> QED BY <1>3, <2>2, <2>3, SMT
<1>12. ~reg'["PIB"].half
      BY <1>3, <1>5, <1>6, SMT
<1>13. Started'
      BY <1>1, <1>8, <1>11, <1>12, SMT DEF Started
<1>14. reg'["PIB"].div <= 15
      BY <1>11, SMT
<1> QED BY <1>6, <1>10, <1>13, <1>14, SMT

LEMMA DisablesClock ==
    ASSUME NEW r \in ClockRegisters, NEW s,
           s = [r EXCEPT !["PIB"] = [r["PIB"] EXCEPT !.en = FALSE]]
    PROVE  /\ s \in ClockRegisters
           /\ s["PIB"].en = FALSE /\ s["PIB"].div = r["PIB"].div
           /\ \A x \in Clock : x # "PIB" => s[x] = r[x]
<1>1. "PIB" \in Clock
      BY DEF Clock
<1> QED BY <1>1 DEF ClockRegisters

LEMMA ClockStep == ClockInv /\ Next => ClockInv'
<1> SUFFICES ASSUME ClockInv, Next PROVE ClockInv'
    OBVIOUS
<1>0. reg \in ClockRegisters /\ BuildOptions
      BY SMT DEF ClockInv, ClockTypes, DividersFit, OnOnceStarted, ClockRegisters
<1>1. PICK n \in 0 .. 7 : Booted(n)
      BY DEF ClockInv
<1>2. CASE BootStep
      BY <1>2, ClockBootStep, SMT
<1>3. CASE Lock
  <2>1. locked' = TRUE /\ UNCHANGED <<boot, fbdiv, reg, pwm, limits, asked>>
        BY <1>3, SMT DEF Lock
  <2>2. Booted(n)'
        BY <1>1, <2>1, SMT DEF Booted
  <2>3. Started' <=> Started
        BY <2>1, SMT DEF Started
  <2>4. ClockTypes' /\ DividersFit'
        BY <2>1 DEF ClockInv, ClockTypes, DividersFit, BuildOptions
  <2>5. OnOnceStarted'
        BY <2>1, <2>3 DEF ClockInv, OnOnceStarted
  <2> QED BY <2>2, <2>4, <2>5 DEF ClockInv
<1>4. ASSUME NEW flags \in Flags, NEW delay \in Delays, Start(flags, delay) PROVE ClockInv'
  <2>1. boot = <<>> /\ UNCHANGED <<boot, fbdiv, locked, pwm>>
        BY <1>4, SMT DEF Start
  <2>2. /\ Started' /\ reg' \in ClockRegisters /\ reg'["PIB"].div <= 15
        /\ \A x \in Clock : x # "PIB" => reg'[x] = reg[x]
        /\ limits' \in [width : 0 .. 3, data : Nat, addr : Nat, high : BOOLEAN]
        BY <1>0, <1>4, StartSets, SMT
  <2>3. Booted(n)'
        BY <1>1, <2>1, <2>2, SMT DEF Booted, Clock
  <2>4. /\ \A x \in {"CPU", "DMA", "MMIO", "GPIO_FAST", "PIB"} : reg'[x].div <= 15
        /\ reg'["GPIO_SLOW"].div <= 63 /\ reg'["UART"].div <= 207
        BY <2>2, SMT DEF ClockInv, DividersFit, Clock
  <2>5. ClockTypes'
        BY <2>1, <2>2 DEF ClockInv, ClockTypes, ClockRegisters, BuildOptions
  <2>6. DividersFit' /\ OnOnceStarted'
        BY <2>1, <2>2, <2>4 DEF DividersFit, OnOnceStarted
  <2> QED BY <2>3, <2>5, <2>6 DEF ClockInv
<1>5. CASE Stop
  <2>1. UNCHANGED <<boot, fbdiv, locked, pwm, limits, asked>> /\ reg["PIB"].en
        BY <1>5, SMT DEF Stop
  <2>2. reg' = [reg EXCEPT !["PIB"] = [reg["PIB"] EXCEPT !.en = FALSE]]
        BY <1>5, SMT DEF Stop, SetClock
  <2>3. /\ reg' \in ClockRegisters
        /\ reg'["PIB"].en = FALSE /\ reg'["PIB"].div = reg["PIB"].div
        /\ \A x \in Clock : x # "PIB" => reg'[x] = reg[x]
        BY <1>0, <2>2, DisablesClock, ZenonT(60)
  <2>4. Booted(n)'
    <3>1. reg'["CPU"] = reg["CPU"] /\ reg'["UART"] = reg["UART"]
          BY <2>3 DEF Clock
    <3>2. reg'["GPIO_FAST"] = reg["GPIO_FAST"] /\ reg'["GPIO_SLOW"] = reg["GPIO_SLOW"]
          BY <2>3 DEF Clock
    <3> QED BY <1>1, <2>1, <3>1, <3>2 DEF Booted
  <2>5. ~reg'["PIB"].en
        BY <2>3, SMT
  <2>6. ClockTypes'
        BY <2>1, <2>3 DEF ClockInv, ClockTypes, ClockRegisters, BuildOptions
  <2>7. DividersFit'
        BY <2>3 DEF ClockInv, DividersFit, Clock
  <2>8. OnOnceStarted'
        BY <2>5 DEF OnOnceStarted
  <2> QED BY <2>4, <2>6, <2>7, <2>8 DEF ClockInv
<1> QED BY <1>2, <1>3, <1>4, <1>5, SMT DEF Next

LEMMA BootIsOver ==
    ASSUME ClockInv, boot = <<>>
    PROVE  /\ fbdiv = 20 /\ locked
           /\ reg["CPU"].div = 1 /\ reg["UART"].div = 207
           /\ reg["GPIO_FAST"].div = 1 /\ reg["GPIO_SLOW"].div = 47
           /\ pwm = [period |-> 3999, threshold |-> 2000]
<1>1. PICK n \in 0 .. 7 : Booted(n)
      BY DEF ClockInv, ClockTypes, DividersFit, OnOnceStarted
<1>2. boot = SubSeq(bootSteps, n + 1, 7)
      BY <1>1 DEF Booted
<1>3. n = 7
      BY <1>2, BootStepsAre, SubSeqEmpty, SMTT(40)
<1> QED BY <1>1, <1>3, SMT DEF Booted

LEMMA ClockFrequencies ==
    ASSUME ClockInv, boot = <<>>
    PROVE  BootClocks /\ Reference1kHz
<1>0. SYS_CLK = 384000000 /\ CPU_CLK = 192000000
      BY BuildFrequencies, SMT DEF ClockInv, ClockTypes, DividersFit, OnOnceStarted
<1>1. PllFrequency = 384000000 /\ locked
      BY BootIsOver, SMT DEF PllFrequency
<1>2. Divided(PllFrequency, "CPU") = 192000000
      BY <1>1, BootIsOver, SMT DEF Divided
<1>3. Divided(PllFrequency, "UART") = 1846153
      BY <1>1, BootIsOver, SMT DEF Divided
<1>4. Near(Divided(PllFrequency, "UART") \div 16, 115200, 50)
      BY <1>3, SMT DEF Near
<1>5. Divided(PllFrequency, "GPIO_FAST") = 192000000
      BY <1>1, BootIsOver, SMT DEF Divided
<1>6. Divided(Divided(PllFrequency, "GPIO_FAST"), "GPIO_SLOW") = 4000000
      BY <1>5, BootIsOver, SMT DEF Divided
<1>7. pwm.period = 3999 /\ pwm.threshold = 2000
      BY BootIsOver, SMT
<1>8. BootClocks
      BY <1>0, <1>1, <1>2, <1>4, SMT DEF BootClocks
<1>9. Reference1kHz
      BY <1>6, <1>7, SMT DEF Reference1kHz
<1> QED BY <1>8, <1>9

LEMMA SampleClocks ==
    ASSUME ClockInv, reg["PIB"].en
    PROVE  SampleClockAsNamed /\ BuffersFilled
<1>1. boot = <<>> /\ Started
      BY DEF ClockInv, ClockTypes, DividersFit, OnOnceStarted
<1>2. PllFrequency = 384000000
      BY <1>1, BootIsOver, SMT DEF PllFrequency
<1>3. DivisorInHalves = 2 * (reg["PIB"].div + 1)
      BY <1>1, SMT DEF DivisorInHalves, Started
<1>4. limits.high = (Frequency(asked.flags) = 192000000)
  <2>1. limits.high \in BOOLEAN
        BY DEF ClockInv, ClockTypes, DividersFit, OnOnceStarted
  <2>2. limits.high <=> Frequency(asked.flags) = 192000000
        BY <1>1, SMT DEF Started
  <2> QED BY <2>1, <2>2, SMT
<1>5. Near(SampleClock, Frequency(asked.flags), 50)
  <2>1. CASE Frequency(asked.flags) = 192000000 /\ reg["PIB"].div = 1
    <3>1. SampleClock = 192000000
          BY <1>2, <1>3, <2>1, SMT DEF SampleClock
    <3> QED BY <2>1, <3>1, SMT DEF Near
  <2>2. CASE Frequency(asked.flags) = 48000000 /\ reg["PIB"].div = 7
    <3>1. SampleClock = 48000000
          BY <1>2, <1>3, <2>2, SMT DEF SampleClock
    <3> QED BY <2>2, <3>1, SMT DEF Near
  <2>3. CASE Frequency(asked.flags) = 30000000 /\ reg["PIB"].div = 12
    <3>1. SampleClock = 29538461
          BY <1>2, <1>3, <2>3, SMT DEF SampleClock
    <3> QED BY <2>3, <3>1, SMT DEF Near
  <2> QED BY <1>1, <2>1, <2>2, <2>3, SMT DEF Started
<1>6. SampleClockAsNamed
      BY <1>4, <1>5, SMT DEF SampleClockAsNamed
<1>7. BuffersFilled
      BY <1>1, SMT DEF BuffersFilled, Started
<1> QED BY <1>6, <1>7

(***************************************************************************)
(* ClocksAsNamed holds with the options of the makefile, whatever divisor   *)
(* the boot loader left in the PLL and for every flag and delay a CMD_START *)
(* may bring (main.c:17-58, gctl.c:27-45, uart.c:32-37, gpif.c:165-184).    *)
(***************************************************************************)
THEOREM ClocksAreAsNamed == BuildOptions /\ MCSpec => []ClocksAsNamed
<1>1. ClockInv => ClocksAsNamed
  <2> SUFFICES ASSUME ClockInv PROVE ClocksAsNamed
      OBVIOUS
  <2>1. TypeOK
    <3>1. /\ DividerBits["CPU"] = 4 /\ DividerBits["DMA"] = 4 /\ DividerBits["MMIO"] = 4
          /\ DividerBits["GPIO_FAST"] = 4 /\ DividerBits["GPIO_SLOW"] = 6
          /\ DividerBits["UART"] = 16 /\ DividerBits["PIB"] = 10
          /\ DOMAIN DividerBits = Clock
          BY SMT DEF DividerBits, Clock
    <3>2. 2^4 = 16 /\ 2^6 = 64 /\ 2^16 = 65536 /\ 2^10 = 1024
          BY SMT
    <3>3. \A c \in Clock : reg[c].div \in Nat
          BY SMT DEF ClockInv, ClockTypes, DividersFit, OnOnceStarted
    <3>7. /\ \A c \in {"CPU", "DMA", "MMIO", "GPIO_FAST"} : 2^DividerBits[c] = 2^4
          /\ 2^DividerBits["GPIO_SLOW"] = 2^6
          /\ 2^DividerBits["UART"] = 2^16 /\ 2^DividerBits["PIB"] = 2^10
          BY <3>1, Zenon
    <3>8. /\ \A c \in {"CPU", "DMA", "MMIO", "GPIO_FAST"} : 2^DividerBits[c] = 16
          /\ 2^DividerBits["GPIO_SLOW"] = 64
          /\ 2^DividerBits["UART"] = 65536 /\ 2^DividerBits["PIB"] = 1024
          BY <3>2, <3>7, SMT
    <3>4. \A c \in Clock : reg[c].div < 2^DividerBits[c]
      <4>1. /\ \A c \in {"CPU", "DMA", "MMIO", "GPIO_FAST", "PIB"} : reg[c].div <= 15
            /\ reg["GPIO_SLOW"].div <= 63 /\ reg["UART"].div <= 207
            BY DEF ClockInv, ClockTypes, DividersFit, OnOnceStarted
      <4>2. \A c \in {"CPU", "DMA", "MMIO", "GPIO_FAST"} : reg[c].div < 2^DividerBits[c]
            BY <3>3, <3>8, <4>1, SMT DEF Clock
      <4>3. /\ reg["GPIO_SLOW"].div < 2^DividerBits["GPIO_SLOW"]
            /\ reg["UART"].div < 2^DividerBits["UART"]
            /\ reg["PIB"].div < 2^DividerBits["PIB"]
            BY <3>3, <3>8, <4>1, SMT DEF Clock
      <4> QED BY <4>2, <4>3, SMT DEF Clock
    <3>5. \A c \in Clock : 2^DividerBits[c] \in Nat
          BY <3>8, SMT DEF Clock
    <3>6. limits.width \in 0 .. 3 /\ fbdiv \in 1 .. 63 /\ locked \in BOOLEAN
          BY DEF ClockInv, ClockTypes, DividersFit, OnOnceStarted
    <3> QED BY <3>1, <3>3, <3>4, <3>5, <3>6, SMT DEF TypeOK
  <2>2. BootClocks /\ Reference1kHz
        BY ClockFrequencies, SMT DEF BootClocks, Reference1kHz
  <2>3. SampleClockAsNamed /\ BuffersFilled
        BY SampleClocks, SMT DEF SampleClockAsNamed, BuffersFilled
  <2> QED BY <2>1, <2>2, <2>3 DEF ClocksAsNamed
<1>2. ClockInv /\ [MCNext]_allVars => ClockInv'
  <2> SUFFICES ASSUME ClockInv, [MCNext]_allVars PROVE ClockInv'
      OBVIOUS
  <2>1. CASE UNCHANGED vars
    <3>1. UNCHANGED <<boot, fbdiv, locked, reg, pwm, limits, asked>>
          BY <2>1 DEF vars
    <3>2. ASSUME NEW n \in 0 .. 7, Booted(n) PROVE Booted(n)'
          BY <3>1, <3>2, SMT DEF Booted, bootSteps
    <3>3. ASSUME Started PROVE Started'
          BY <3>1, <3>3, SMT DEF Started, Frequency
    <3>4. \E n \in 0 .. 7 : Booted(n)'
          BY <3>2 DEF ClockInv, ClockTypes, DividersFit, OnOnceStarted
    <3>5. ClockTypes' /\ DividersFit'
          BY <3>1 DEF ClockInv, ClockTypes, DividersFit, BuildOptions
    <3>6. OnOnceStarted'
          BY <3>1, <3>3 DEF ClockInv, OnOnceStarted
    <3> QED BY <3>4, <3>5, <3>6 DEF ClockInv
  <2>2. CASE Next
        BY <2>2, ClockStep
  <2> QED BY <2>1, <2>2 DEF MCNext, allVars
<1> QED BY <1>1, <1>2, ClockInit, PTL DEF MCSpec, allVars

-----------------------------------------------------------------------------
(***************************************************************************)
(* The UART.  First what is printed, as accesses: TxString tests for space  *)
(* and writes, in turn, for each character of the line.                     *)
(***************************************************************************)
\* Induction on numbers, with a set in place of a predicate.
Less == {p \in Nat \X Nat : p[1] < p[2]}

LEMMA LessIsWellFounded == IsWellFoundedOn(Less, Nat)
<1>1. Less = OpToRel(<, Nat)
      BY DEF Less, OpToRel
<1> QED BY <1>1, NatLessThanWellFounded

LEMMA AllNumbers ==
    ASSUME NEW S, 0 \in S, \A n \in Nat : n \in S => n + 1 \in S
    PROVE  \A n \in Nat : n \in S
<1> DEFINE T == Nat \ S
<1>1. SUFFICES ASSUME T # {} PROVE FALSE
      OBVIOUS
<1>2. T \subseteq Nat
      OBVIOUS
<1> HIDE DEF T
<1>3. PICK x \in T : \A y \in T : ~(<<y, x>> \in Less)
      BY <1>1, <1>2, LessIsWellFounded, WFMin
<1>4. x \in Nat /\ x \notin S
      BY <1>3 DEF T
<1>5. x # 0 /\ x - 1 \in Nat /\ (x - 1) + 1 = x
      BY <1>4
<1>6. <<x - 1, x>> \in Less
      BY <1>4, <1>5 DEF Less
<1>7. x - 1 \in S
      BY <1>3, <1>5, <1>6 DEF T
<1> QED BY <1>4, <1>5, <1>7

\* FlattenSeq: f[i] is the first i sequences, joined.
Flattens(f, seqs, n) ==
    f = [i \in 1 .. n |-> IF i = 1 THEN seqs[i] ELSE f[i - 1] \o seqs[i]]

LEMMA FlattensExists ==
    ASSUME NEW seqs
    PROVE  \A n \in Nat : \E f : Flattens(f, seqs, n)
<1> DEFINE S == {n \in Nat : \E f : Flattens(f, seqs, n)}
<1>1. 0 \in S
  <2> DEFINE f == [i \in 1 .. 0 |-> <<>>]
  <2>1. f = [i \in 1 .. 0 |-> IF i = 1 THEN seqs[i] ELSE f[i - 1] \o seqs[i]]
        OBVIOUS
  <2> HIDE DEF f
  <2> QED BY <2>1 DEF Flattens
<1>2. ASSUME NEW n \in Nat, n \in S PROVE n + 1 \in S
  <2>1. PICK f : Flattens(f, seqs, n)
        BY <1>2
  <2> DEFINE m == n + 1
             g == [i \in 1 .. m |-> IF i = m THEN (IF i = 1 THEN seqs[i] ELSE f[n] \o seqs[i])
                                    ELSE f[i]]
  <2>2. f = [i \in 1 .. n |-> IF i = 1 THEN seqs[i] ELSE f[i - 1] \o seqs[i]]
        BY <2>1 DEF Flattens
  <2>3. ASSUME NEW i \in 1 .. m PROVE g[i] = IF i = 1 THEN seqs[i] ELSE g[i - 1] \o seqs[i]
    <3>1. CASE i = m
      <4>1. i # 1 => i - 1 = n /\ n \in 1 .. m /\ n # m
            BY <3>1
      <4>2. i # 1 => g[i - 1] = f[n]
            BY <4>1
      <4>3. g[i] = IF i = 1 THEN seqs[i] ELSE f[n] \o seqs[i]
            BY <3>1
      <4> HIDE DEF g
      <4> QED BY <4>2, <4>3
    <3>2. CASE i # m
      <4>1. i \in 1 .. n /\ g[i] = f[i]
            BY <3>2
      <4>2. i # 1 => i - 1 \in 1 .. m /\ i - 1 # m
            BY <3>2
      <4>3. i # 1 => g[i - 1] = f[i - 1]
            BY <4>2
      <4>4. f[i] = IF i = 1 THEN seqs[i] ELSE f[i - 1] \o seqs[i]
            BY <2>2, <4>1
      <4> HIDE DEF g
      <4> QED BY <4>1, <4>3, <4>4
    <3> QED BY <3>1, <3>2
  <2>4. g = [i \in 1 .. m |-> g[i]]
        OBVIOUS
  <2> HIDE DEF g
  <2>5. g = [i \in 1 .. m |-> IF i = 1 THEN seqs[i] ELSE g[i - 1] \o seqs[i]]
        BY <2>3, <2>4
  <2>6. Flattens(g, seqs, m)
        BY <2>5 DEF Flattens
  <2> QED BY <2>6
<1> HIDE DEF S
<1>3. \A n \in Nat : n \in S
      BY <1>1, <1>2, AllNumbers
<1> QED BY <1>3 DEF S

LEMMA FlattenIs ==
    ASSUME NEW seqs, Len(seqs) \in Nat, Len(seqs) # 0
    PROVE  \E f : Flattens(f, seqs, Len(seqs)) /\ U!FlattenSeq(seqs) = f[Len(seqs)]
<1> DEFINE f == CHOOSE f : Flattens(f, seqs, Len(seqs))
<1>1. Flattens(f, seqs, Len(seqs))
      BY FlattensExists
<1>2. U!FlattenSeq(seqs) = f[Len(seqs)]
      BY DEF U!FlattenSeq, Flattens
<1> QED BY <1>1, <1>2

Char == STRING \cup {U!CR, U!LF}

\* The accesses of the firmware to the UART.
UartOp == {<<"space">>, <<"done">>, <<"irq">>, <<"reset">>, <<"active">>}
          \cup ({"write"} \X Char)
          \cup ({"power"} \X {"off", "reset"})
          \cup ({"config"} \X {{"ENABLE", "TX_ENABLE"}})

\* The accesses ops print the characters of line, testing for space before each.
Prints(ops, line) ==
    /\ ops \in Seq(UartOp) /\ line \in Seq(Char) /\ Len(ops) = 2 * Len(line)
    /\ \A j \in 1 .. Len(line) : /\ ops[2 * j - 1] = <<"space">>
                                 /\ ops[2 * j] = <<"write", line[j]>>

LEMMA PrintsJoined ==
    ASSUME NEW a, NEW b, NEW k, NEW l, Prints(a, k), Prints(b, l)
    PROVE  Prints(a \o b, k \o l)
<1> DEFINE c == a \o b
           m == k \o l
<1>1. /\ a \in Seq(UartOp) /\ b \in Seq(UartOp) /\ k \in Seq(Char) /\ l \in Seq(Char)
      /\ Len(a) = 2 * Len(k) /\ Len(b) = 2 * Len(l) /\ Len(k) \in Nat /\ Len(l) \in Nat
      BY DEF Prints
<1>2. /\ c \in Seq(UartOp) /\ Len(c) = Len(a) + Len(b)
      /\ \A i \in 1 .. Len(a) + Len(b) : c[i] = IF i <= Len(a) THEN a[i] ELSE b[i - Len(a)]
      BY <1>1, ConcatProperties
<1>3. /\ m \in Seq(Char) /\ Len(m) = Len(k) + Len(l)
      /\ \A i \in 1 .. Len(k) + Len(l) : m[i] = IF i <= Len(k) THEN k[i] ELSE l[i - Len(k)]
      BY <1>1, ConcatProperties
<1> HIDE DEF c, m
<1>4. ASSUME NEW j \in 1 .. Len(m)
      PROVE  c[2 * j - 1] = <<"space">> /\ c[2 * j] = <<"write", m[j]>>
  <2>1. CASE j <= Len(k)
    <3>1. j \in 1 .. Len(k) /\ m[j] = k[j]
      <4>1. j \in 1 .. Len(k) + Len(l) /\ j \in 1 .. Len(k)
            BY <1>1, <1>3, <2>1
      <4> QED BY <1>3, <2>1, <4>1
    <3>2. /\ 2 * j - 1 \in 1 .. Len(a) + Len(b) /\ 2 * j \in 1 .. Len(a) + Len(b)
          /\ 2 * j - 1 <= Len(a) /\ 2 * j <= Len(a)
          BY <1>1, <3>1
    <3>3. c[2 * j - 1] = a[2 * j - 1] /\ c[2 * j] = a[2 * j]
          BY <1>2, <3>2
    <3> QED BY <3>1, <3>3 DEF Prints
  <2>2. CASE j > Len(k)
    <3> DEFINE i == j - Len(k)
    <3>1. i \in 1 .. Len(l) /\ m[j] = l[i]
          BY <1>1, <1>3, <2>2
    <3>2. /\ 2 * j - 1 \in 1 .. Len(a) + Len(b) /\ 2 * j \in 1 .. Len(a) + Len(b)
          /\ ~(2 * j - 1 <= Len(a)) /\ ~(2 * j <= Len(a))
          /\ (2 * j - 1) - Len(a) = 2 * i - 1 /\ 2 * j - Len(a) = 2 * i
          BY <1>1, <1>3, <2>2
    <3>3. c[2 * j - 1] = b[2 * i - 1] /\ c[2 * j] = b[2 * i]
          BY <1>2, <3>2
    <3> HIDE DEF i
    <3> QED BY <3>1, <3>3 DEF Prints
  <2> QED BY <1>1, <1>3, <2>1, <2>2, SMTT(40)
<1>5. Len(c) = 2 * Len(m)
      BY <1>1, <1>2, <1>3
<1> QED BY <1>2, <1>3, <1>4, <1>5 DEF Prints, c, m

\* The characters of the line that a character is printed as.
LineOf(c) == IF c = U!LF THEN <<U!CR, U!LF>> ELSE <<c>>

LEMMA BytePrints ==
    ASSUME NEW c \in Char
    PROVE  Prints(U!TxByte(c), <<c>>)
<1>1. <<"write", c>> \in UartOp /\ <<"space">> \in UartOp
      BY DEF UartOp
<1>2. U!TxByte(c) = << <<"space">>, <<"write", c>> >>
      BY DEF U!TxByte
<1>3. U!TxByte(c) \in Seq(UartOp) /\ Len(U!TxByte(c)) = 2 /\ <<c>> \in Seq(Char) /\ Len(<<c>>) = 1
      BY <1>1, <1>2
<1>4. \A j \in 1 .. 1 : /\ U!TxByte(c)[2 * j - 1] = <<"space">>
                        /\ U!TxByte(c)[2 * j] = <<"write", <<c>>[j]>>
      BY <1>2
<1> QED BY <1>3, <1>4 DEF Prints

LEMMA OneAndOne == ASSUME NEW x, NEW y PROVE <<x>> \o <<y>> = <<x, y>>
<1> DEFINE S == {x, y}
           c == <<x>> \o <<y>>
           d == <<x, y>>
<1>1. <<x>> \in Seq(S) /\ <<y>> \in Seq(S) /\ d \in Seq(S)
      OBVIOUS
<1>2. /\ Len(<<x>>) = 1 /\ Len(<<y>>) = 1 /\ Len(d) = 2
      /\ <<x>>[1] = x /\ <<y>>[1] = y /\ d[1] = x /\ d[2] = y
      OBVIOUS
<1>3. c \in Seq(S) /\ Len(c) = 2 /\ c[1] = x /\ c[2] = y
      BY <1>1, <1>2, ConcatProperties
<1> HIDE DEF c, d
<1>4. \A i \in 1 .. 2 : c[i] = d[i]
      BY <1>2, <1>3
<1>5. c = d
      BY <1>1, <1>2, <1>3, <1>4, SeqEqual
<1> QED BY <1>5 DEF c, d

LEMMA CharPrints ==
    ASSUME NEW c \in Char
    PROVE  Prints(U!TxChar(c), LineOf(c)) /\ Len(LineOf(c)) # 0
<1>1. U!CR \in Char /\ U!LF \in Char
      BY DEF Char
<1>2. CASE c = U!LF
  <2>1. Prints(U!TxByte(U!CR) \o U!TxByte(c), <<U!CR>> \o <<c>>)
        BY <1>1, BytePrints, PrintsJoined
  <2>2. <<U!CR>> \o <<c>> = <<U!CR, c>>
        BY OneAndOne, Zenon
  <2>3. Len(<<U!CR, c>>) # 0
        OBVIOUS
  <2>4. LineOf(c) = <<U!CR, c>> /\ U!TxChar(c) = U!TxByte(U!CR) \o U!TxByte(c)
        BY <1>2, Zenon DEF U!TxChar, LineOf
  <2> QED BY <2>1, <2>2, <2>3, <2>4, Zenon
<1>3. CASE c # U!LF
      BY <1>3, BytePrints DEF U!TxChar, LineOf
<1> QED BY <1>2, <1>3

\* A string, and its line, character by character.
LEMMA StringPrints ==
    ASSUME NEW str \in Seq(STRING)
    PROVE  Prints(U!TxString(str), U!Line(str)) /\ (str # <<>> => Len(U!Line(str)) # 0)
<1> DEFINE a == [i \in DOMAIN str |-> U!TxChar(str[i])]
           b == [i \in DOMAIN str |-> LineOf(str[i])]
           n == Len(str)
<1>1. n \in Nat /\ DOMAIN str = 1 .. n
      OBVIOUS
<1>2. Len(a) = n /\ Len(b) = n
      BY <1>1
<1>3. U!TxString(str) = U!FlattenSeq(a)
      BY DEF U!TxString
<1>4. U!Line(str) = U!FlattenSeq(b)
      BY Zenon DEF U!Line, LineOf
<1>5. CASE n = 0
  <2>1. a = <<>> /\ b = <<>>
        BY <1>1, <1>5
  <2>2. U!FlattenSeq(a) = a /\ U!FlattenSeq(b) = b
        BY <1>2, <1>5 DEF U!FlattenSeq
  <2>3. Prints(<<>>, <<>>)
        BY DEF Prints
  <2>4. str = <<>>
        BY <1>1, <1>5, EmptySeq
  <2> QED BY <1>3, <1>4, <2>1, <2>2, <2>3, <2>4
<1>6. CASE n # 0
  <2>0. \A i \in 1 .. n : Prints(a[i], b[i]) /\ Len(b[i]) # 0
    <3>1. ASSUME NEW i \in 1 .. n PROVE Prints(a[i], b[i]) /\ Len(b[i]) # 0
      <4>1. str[i] \in Char /\ i \in DOMAIN str
            BY <1>1 DEF Char
      <4>2. a[i] = U!TxChar(str[i]) /\ b[i] = LineOf(str[i])
            BY <4>1
      <4> HIDE DEF a, b
      <4> QED BY <4>1, <4>2, CharPrints
    <3> QED BY <3>1
  <2> HIDE DEF a, b
  <2>1. PICK f : Flattens(f, a, n) /\ U!FlattenSeq(a) = f[n]
        BY <1>1, <1>2, <1>6, FlattenIs
  <2>2. PICK g : Flattens(g, b, n) /\ U!FlattenSeq(b) = g[n]
        BY <1>1, <1>2, <1>6, FlattenIs
  <2>3. \A i \in 1 .. n : /\ f[i] = IF i = 1 THEN a[i] ELSE f[i - 1] \o a[i]
                          /\ g[i] = IF i = 1 THEN b[i] ELSE g[i - 1] \o b[i]
        BY <2>1, <2>2 DEF Flattens
  <2> DEFINE S == {i \in Nat : i \in 1 .. n => Prints(f[i], g[i]) /\ Len(g[i]) # 0}
  <2>4. 0 \in S
        OBVIOUS
  <2>5. ASSUME NEW i \in Nat, i \in S PROVE i + 1 \in S
    <3>1. SUFFICES ASSUME i + 1 \in 1 .. n PROVE Prints(f[i + 1], g[i + 1]) /\ Len(g[i + 1]) # 0
          OBVIOUS
    <3> DEFINE j == i + 1
    <3>2. Prints(a[j], b[j]) /\ Len(b[j]) # 0
          BY <2>0, <3>1
    <3>3. CASE i = 0
          BY <2>3, <3>1, <3>2, <3>3
    <3>4. CASE i # 0
      <4>1. i \in 1 .. n /\ j # 1 /\ j - 1 = i /\ j \in 1 .. n
            BY <1>1, <3>1, <3>4
      <4>2. Prints(f[i], g[i])
            BY <2>5, <4>1
      <4>3. f[j] = f[i] \o a[j] /\ g[j] = g[i] \o b[j]
            BY <2>3, <4>1
      <4> HIDE DEF j
      <4>4. Prints(f[j], g[j])
            BY <3>2, <4>2, <4>3, PrintsJoined
      <4>5. /\ g[i] \in Seq(Char) /\ b[j] \in Seq(Char)
            /\ Len(g[i]) \in Nat /\ Len(b[j]) \in Nat
            BY <3>2, <4>2 DEF Prints
      <4>6. Len(g[i] \o b[j]) = Len(g[i]) + Len(b[j])
            BY <4>5, ConcatProperties
      <4>8. Len(g[j]) = Len(g[i] \o b[j])
            BY <4>3, Zenon
      <4>7. Len(g[j]) # 0
        <5>1. \A x, y \in Nat : y # 0 => x + y # 0
              OBVIOUS
        <5>2. Len(g[i]) + Len(b[j]) # 0
              BY <3>2, <4>5, <5>1
        <5> QED BY <4>6, <4>8, <5>2, Zenon
      <4> QED BY <4>4, <4>7 DEF j
    <3> QED BY <3>3, <3>4
  <2> HIDE DEF S
  <2>6. n \in S
        BY <1>1, <2>4, <2>5, AllNumbers
  <2>7. Prints(f[n], g[n]) /\ Len(g[n]) # 0
        BY <1>1, <1>6, <2>6 DEF S
  <2> QED BY <1>3, <1>4, <2>1, <2>2, <2>7
<1> QED BY <1>5, <1>6

-----------------------------------------------------------------------------
(***************************************************************************)
(* What main has left to do: the rest of bootOps, buttonOps or doneOps.     *)
(***************************************************************************)
PrintOp == {<<"space">>, <<"done">>} \cup ({"write"} \X Char)

\* A byte is written right after the test, and the reset comes right after the flush.
Tested(list) ==
    \A q \in 2 .. Len(list) : /\ list[q][1] = "write" => list[q - 1] = <<"space">>
                              /\ list[q] = <<"reset">> => list[q - 1] = <<"done">>

UpList(list) ==
    /\ list \in Seq(UartOp) /\ Tested(list)
    /\ \A q \in 1 .. Len(list) : list[q] \in PrintOp \/ (list[q] = <<"reset">> /\ q = Len(list))

\* The accesses of UartInit.
InitOp(i) ==
    CASE i = 1 -> <<"power", "off">>
      [] i = 2 -> <<"power", "reset">>
      [] i = 3 -> <<"active">>
      [] i = 4 -> <<"config", {"ENABLE", "TX_ENABLE"}>>

\* The rest of bootOps with the last k accesses of UartInit.
BootList(list, k) ==
    /\ list \in Seq(UartOp) /\ Tested(list) /\ k \in 0 .. 4 /\ Len(list) > k
    /\ \A q \in 1 .. k : list[q] = InitOp(q + (4 - k))
    /\ \A q \in (k + 1) .. (Len(list) - 1) : list[q] \in PrintOp
    /\ list[Len(list)] = <<"irq">>

LEMMA OpsDiffer ==
    /\ \A op \in PrintOp : op \in UartOp /\ op[1] \in {"space", "done", "write"}
    /\ \A op \in UartOp : op[1] = "write" => op \in PrintOp
    /\ \A op \in UartOp : /\ op[1] = "space" => op = <<"space">>
                          /\ op[1] = "done" => op = <<"done">>
                          /\ op[1] = "irq" => op = <<"irq">>
                          /\ op[1] = "reset" => op = <<"reset">>
                          /\ op[1] = "active" => op = <<"active">>
BY DEF PrintOp, UartOp

LEMMA PrintsTested ==
    ASSUME NEW ops, NEW line, Prints(ops, line)
    PROVE  /\ ops \in Seq(UartOp) /\ Len(ops) \in Nat
           /\ \A i \in 1 .. Len(ops) :
                /\ ops[i] \in PrintOp
                /\ ops[i][1] = "write" => i >= 2 /\ ops[i - 1] = <<"space">>
<1>1. ops \in Seq(UartOp) /\ Len(ops) \in Nat /\ Len(line) \in Nat /\ Len(ops) = 2 * Len(line)
      BY DEF Prints
<1>2. ASSUME NEW i \in 1 .. Len(ops)
      PROVE  ops[i] \in PrintOp /\ (ops[i][1] = "write" => i >= 2 /\ ops[i - 1] = <<"space">>)
  <2>1. PICK j \in 1 .. Len(line) : i = 2 * j - 1 \/ i = 2 * j
    <3> DEFINE j == (i + 1) \div 2
    <3>1. j \in 1 .. Len(line) /\ (i = 2 * j - 1 \/ i = 2 * j)
          BY <1>1
    <3> QED BY <3>1
  <2>2. ops[2 * j - 1] = <<"space">> /\ ops[2 * j] = <<"write", line[j]>> /\ line[j] \in Char
        BY DEF Prints
  <2> DEFINE w == <<"write", line[j]>>
  <2>5. <<"space">> \in PrintOp /\ <<"space">>[1] # "write" /\ w \in PrintOp
        BY <2>2 DEF PrintOp
  <2> HIDE DEF w
  <2>3. CASE i = 2 * j - 1
    <3>1. ops[i] = <<"space">>
          BY <2>2, <2>3
    <3> QED BY <2>5, <3>1, Zenon
  <2>4. CASE i = 2 * j
    <3>1. i - 1 = 2 * j - 1 /\ i >= 2
          BY <2>4
    <3>2. ops[i] = w /\ ops[i - 1] = <<"space">>
          BY <2>2, <2>4, <3>1, Zenon DEF w
    <3> QED BY <2>5, <3>1, <3>2, Zenon
  <2> QED BY <2>1, <2>3, <2>4
<1> QED BY <1>1, <1>2

\* A list and its tail, access by access.
LEMMA TailOf ==
    ASSUME NEW S, NEW list \in Seq(S), list # <<>>
    PROVE  /\ Len(list) \in Nat \ {0} /\ Head(list) = list[1] /\ list[1] \in S
           /\ Tail(list) \in Seq(S) /\ Len(Tail(list)) = Len(list) - 1
           /\ \A q \in 1 .. (Len(list) - 1) : Tail(list)[q] = list[q + 1]
           /\ Len(list) > 1 => Tail(list) # <<>> /\ Head(Tail(list)) = list[2]
           /\ Len(list) = 1 => Tail(list) = <<>>
<1>1. Len(list) \in Nat /\ Len(list) # 0
      BY EmptySeq
<1>2. /\ Tail(list) \in Seq(S) /\ Len(Tail(list)) = Len(list) - 1
      /\ \A q \in 1 .. (Len(list) - 1) : Tail(list)[q] = list[q + 1]
      BY HeadTailProperties
<1>3. Head(list) = list[1] /\ list[1] \in S
      BY <1>1
<1>4. ASSUME Len(list) > 1 PROVE Tail(list) # <<>> /\ Head(Tail(list)) = list[2]
  <2> DEFINE t == Tail(list)
             n == Len(list)
  <2>1. t \in Seq(S) /\ Len(t) = n - 1 /\ n \in Nat /\ n > 1
        /\ \A q \in 1 .. (n - 1) : t[q] = list[q + 1]
        BY <1>1, <1>2, <1>4
  <2> HIDE DEF t, n
  <2>2. 1 \in 1 .. (n - 1) /\ 1 + 1 = 2 /\ Len(t) # 0 /\ Len(t) >= 1
        BY <2>1
  <2>3. t[1] = list[2]
        BY <2>1, <2>2
  <2>4. Len(<<>>) = 0
        BY EmptySeq
  <2>5. t # <<>>
        BY <2>2, <2>4
  <2>6. Head(t) = t[1]
        BY <2>1, <2>5, HeadTailProperties
  <2> QED BY <2>3, <2>5, <2>6 DEF t
<1>5. ASSUME Len(list) = 1 PROVE Tail(list) = <<>>
  <2> DEFINE t == Tail(list)
  <2>1. t \in Seq(S) /\ Len(t) = 0
        BY <1>2, <1>5
  <2> HIDE DEF t
  <2>2. t = <<>>
        BY <2>1, EmptySeq
  <2> QED BY <2>2 DEF t
<1> QED BY <1>1, <1>2, <1>3, <1>4, <1>5

LEMMA TestedTail ==
    ASSUME NEW list \in Seq(UartOp), list # <<>>, Tested(list)
    PROVE  /\ Tested(Tail(list))
           /\ Tail(list) # <<>> =>
                /\ Head(Tail(list))[1] = "write" => Head(list) = <<"space">>
                /\ Head(Tail(list)) = <<"reset">> => Head(list) = <<"done">>
<1> DEFINE t == Tail(list)
<1>1. /\ Len(list) \in Nat \ {0} /\ Head(list) = list[1] /\ Len(t) = Len(list) - 1
      /\ \A q \in 1 .. (Len(list) - 1) : t[q] = list[q + 1]
      /\ Len(list) > 1 => Head(t) = list[2]
      /\ Len(list) = 1 => t = <<>>
      BY TailOf
<1> HIDE DEF t
<1>2. ASSUME NEW q \in 2 .. Len(t)
      PROVE  /\ t[q][1] = "write" => t[q - 1] = <<"space">>
             /\ t[q] = <<"reset">> => t[q - 1] = <<"done">>
  <2>1. t[q] = list[q + 1] /\ t[q - 1] = list[q] /\ q + 1 \in 2 .. Len(list) /\ (q + 1) - 1 = q
        BY <1>1, SMTT(40)
  <2> QED BY <2>1 DEF Tested
<1>3. ASSUME t # <<>>
      PROVE  /\ Head(t)[1] = "write" => Head(list) = <<"space">>
             /\ Head(t) = <<"reset">> => Head(list) = <<"done">>
  <2>1. 2 \in 2 .. Len(list) /\ 2 - 1 = 1 /\ Head(t) = list[2]
        BY <1>1, <1>3
  <2> QED BY <1>1, <2>1, SMTT(40) DEF Tested
<1> QED BY <1>2, <1>3 DEF Tested, t

LEMMA UpTail ==
    ASSUME NEW list, list # <<>>, UpList(list)
    PROVE  /\ UpList(Tail(list))
           /\ Head(list) \in PrintOp \/ (Head(list) = <<"reset">> /\ Tail(list) = <<>>)
<1> DEFINE t == Tail(list)
<1>1. /\ Len(list) \in Nat \ {0} /\ Head(list) = list[1] /\ Len(t) = Len(list) - 1
      /\ t \in Seq(UartOp)
      /\ \A q \in 1 .. (Len(list) - 1) : t[q] = list[q + 1]
      /\ Len(list) = 1 => t = <<>>
      BY TailOf DEF UpList
<1>2. Tested(t)
      BY TestedTail DEF UpList
<1> HIDE DEF t
<1>3. ASSUME NEW q \in 1 .. Len(t)
      PROVE  t[q] \in PrintOp \/ (t[q] = <<"reset">> /\ q = Len(t))
  <2>1. t[q] = list[q + 1] /\ q + 1 \in 1 .. Len(list) /\ (q + 1 = Len(list) => q = Len(t))
        BY <1>1
  <2> QED BY <2>1 DEF UpList
<1>4. Head(list) \in PrintOp \/ (Head(list) = <<"reset">> /\ t = <<>>)
  <2>1. 1 \in 1 .. Len(list)
        BY <1>1
  <2> QED BY <1>1, <2>1 DEF UpList
<1> QED BY <1>1, <1>2, <1>3, <1>4, ZenonT(60) DEF UpList, t

LEMMA BootTail ==
    ASSUME NEW list, NEW k, BootList(list, k)
    PROVE  /\ list # <<>>
           /\ k > 0 => Head(list) = InitOp(5 - k) /\ BootList(Tail(list), k - 1)
           /\ k = 0 => \/ Head(list) \in PrintOp /\ BootList(Tail(list), 0)
                       \/ Head(list) = <<"irq">> /\ Tail(list) = <<>>
<1> DEFINE t == Tail(list)
           n == Len(list)
<1>0. k \in 0 .. 4 /\ n > k /\ list \in Seq(UartOp)
      BY DEF BootList
<1>1. list # <<>>
      BY <1>0
<1>2. /\ n \in Nat \ {0} /\ Head(list) = list[1] /\ Len(t) = n - 1
      /\ t \in Seq(UartOp)
      /\ \A q \in 1 .. (n - 1) : t[q] = list[q + 1]
      /\ n = 1 => t = <<>>
      BY <1>0, <1>1, TailOf
<1>3. Tested(t)
      BY <1>0, <1>1, TestedTail DEF BootList
<1>4. /\ \A q \in 1 .. k : list[q] = InitOp(q + (4 - k))
      /\ \A q \in (k + 1) .. (n - 1) : list[q] \in PrintOp
      /\ list[n] = <<"irq">>
      BY DEF BootList
<1> HIDE DEF t, n
<1>5. ASSUME NEW m \in 0 .. 3, m = k - 1 \/ (m = 0 /\ k = 0), n # 1
      PROVE  BootList(t, m)
  <2>1. ASSUME NEW q \in 1 .. m PROVE t[q] = InitOp(q + (4 - m))
    <3>1. m = k - 1 /\ q + 1 \in 1 .. k /\ q \in 1 .. (n - 1) /\ (q + 1) + (4 - k) = q + (4 - m)
          BY <1>0, <1>2, <1>5, <2>1
    <3>2. t[q] = list[q + 1] /\ list[q + 1] = InitOp((q + 1) + (4 - k))
          BY <1>2, <1>4, <3>1
    <3> QED BY <3>1, <3>2
  <2>2. ASSUME NEW q \in (m + 1) .. (Len(t) - 1) PROVE t[q] \in PrintOp
    <3>1. q + 1 \in (k + 1) .. (n - 1) /\ q \in 1 .. (n - 1)
          BY <1>0, <1>2, <1>5, <2>2
    <3> QED BY <1>2, <1>4, <3>1
  <2>3. t[Len(t)] = <<"irq">> /\ Len(t) > m
    <3>1. Len(t) \in 1 .. (n - 1) /\ Len(t) + 1 = n /\ Len(t) > m
          BY <1>0, <1>2, <1>5
    <3> QED BY <1>2, <1>4, <3>1
  <2>4. m \in 0 .. 4
        OBVIOUS
  <2> QED BY <1>2, <1>3, <2>1, <2>2, <2>3, <2>4 DEF BootList
<1>6. ASSUME k > 0 PROVE Head(list) = InitOp(5 - k) /\ BootList(t, k - 1)
  <2> DEFINE m == k - 1
  <2>1. 1 \in 1 .. k /\ 1 + (4 - k) = 5 - k /\ m \in 0 .. 3 /\ n # 1
        BY <1>0, <1>2, <1>6
  <2>2. BootList(t, m)
        BY <1>5, <2>1
  <2>3. list[1] = InitOp(1 + (4 - k))
        BY <1>4, <2>1
  <2> QED BY <1>2, <2>1, <2>2, <2>3
<1>7. ASSUME k = 0
      PROVE  \/ Head(list) \in PrintOp /\ BootList(t, 0)
             \/ Head(list) = <<"irq">> /\ t = <<>>
  <2>1. CASE n = 1
        BY <1>2, <1>4, <2>1
  <2>2. CASE n # 1
    <3>1. 1 \in (k + 1) .. (n - 1) /\ 0 \in 0 .. 3
          BY <1>2, <1>7, <2>2
    <3>2. BootList(t, 0)
          BY <1>5, <1>7, <2>2, <3>1
    <3> QED BY <1>2, <1>4, <3>1, <3>2
  <2> QED BY <2>1, <2>2
<1> QED BY <1>1, <1>6, <1>7 DEF t

\* A string, as accesses.
LEMMA StringIs ==
    ASSUME NEW str, str \in {Banner, Done, Button, Message}
    PROVE  /\ Prints(U!TxString(str), U!Line(str))
           /\ U!TxString(str) \in Seq(UartOp) /\ Len(U!TxString(str)) \in Nat
           /\ \A i \in 1 .. Len(U!TxString(str)) :
                /\ U!TxString(str)[i] \in PrintOp
                /\ U!TxString(str)[i][1] = "write" => i >= 2 /\ U!TxString(str)[i - 1] = <<"space">>
<1>1. str \in Seq(STRING)
      BY UartAssumption
<1>2. Prints(U!TxString(str), U!Line(str))
      BY <1>1, StringPrints
<1> QED BY <1>2, PrintsTested

LEMMA Joined ==
    ASSUME NEW S, NEW a \in Seq(S), NEW x \in S
    PROVE  /\ a \o <<x>> \in Seq(S) /\ Len(a \o <<x>>) = Len(a) + 1
           /\ \A q \in 1 .. Len(a) : (a \o <<x>>)[q] = a[q]
           /\ (a \o <<x>>)[Len(a) + 1] = x
<1> DEFINE b == <<x>>
           c == a \o b
<1>1. b \in Seq(S) /\ Len(b) = 1 /\ b[1] = x /\ Len(a) \in Nat
      OBVIOUS
<1> HIDE DEF b
<1>5. /\ c \in Seq(S) /\ Len(c) = Len(a) + Len(b)
      /\ \A q \in 1 .. Len(a) + Len(b) : c[q] = IF q <= Len(a) THEN a[q] ELSE b[q - Len(a)]
      BY <1>1, ConcatProperties
<1> HIDE DEF c
<1>2. /\ c \in Seq(S) /\ Len(c) = Len(a) + 1
      /\ \A q \in 1 .. Len(a) + 1 : c[q] = IF q <= Len(a) THEN a[q] ELSE b[q - Len(a)]
      BY <1>1, <1>5
<1>3. \A q \in 1 .. Len(a) : c[q] = a[q]
      BY <1>1, <1>2
<1>4. c[Len(a) + 1] = x
  <2> DEFINE m == Len(a)
  <2>1. m + 1 \in 1 .. m + 1 /\ ~(m + 1 <= m) /\ (m + 1) - m = 1
        BY <1>1
  <2> QED BY <1>1, <1>2, <2>1
<1> QED BY <1>2, <1>3, <1>4 DEF b, c

LEMMA DonePrints == UpList(U!doneOps) /\ (U!doneOps # <<>> => Head(U!doneOps)[1] # "write")
<1> DEFINE t == U!TxString(Done)
<1>1. /\ t \in Seq(UartOp) /\ Len(t) \in Nat
      /\ \A i \in 1 .. Len(t) : /\ t[i] \in PrintOp
                                /\ t[i][1] = "write" => i >= 2 /\ t[i - 1] = <<"space">>
      BY StringIs
<1>2. U!doneOps = t
      BY DEF U!doneOps
<1> HIDE DEF t
<1>3. \A op \in PrintOp : op # <<"reset">>
      BY OpsDiffer
<1>4. Tested(t)
  <2>1. ASSUME NEW q \in 2 .. Len(t)
        PROVE  /\ t[q][1] = "write" => t[q - 1] = <<"space">>
               /\ t[q] # <<"reset">>
    <3>1. q \in 1 .. Len(t)
          BY <1>1
    <3> QED BY <1>1, <1>3, <3>1
  <2> QED BY <2>1 DEF Tested
<1>5. UpList(t)
      BY <1>1, <1>4 DEF UpList
<1>6. ASSUME t # <<>> PROVE Head(t)[1] # "write"
  <2>1. Len(t) \in Nat \ {0} /\ Head(t) = t[1]
        BY <1>1, <1>6, TailOf
  <2> QED BY <1>1, <2>1
<1> QED BY <1>2, <1>5, <1>6

LEMMA ButtonPrints ==
    /\ UpList(U!buttonOps)
    /\ U!buttonOps # <<>> /\ Head(U!buttonOps)[1] # "write" /\ Head(U!buttonOps) # <<"reset">>
<1> DEFINE t == U!TxString(Button)
           n == Len(t)
           a == t \o << <<"done">> >>
           b == a \o << <<"reset">> >>
<1>1. /\ t \in Seq(UartOp) /\ n \in Nat
      /\ \A i \in 1 .. n : /\ t[i] \in PrintOp
                           /\ t[i][1] = "write" => i >= 2 /\ t[i - 1] = <<"space">>
      BY StringIs
<1>2. U!buttonOps = b
      BY DEF U!buttonOps, U!TxFlush
<1>3. <<"done">> \in UartOp /\ <<"reset">> \in UartOp /\ <<"done">> \in PrintOp
      BY DEF UartOp, PrintOp
<1> HIDE DEF t
<1>4. /\ a \in Seq(UartOp) /\ Len(a) = n + 1 /\ a[n + 1] = <<"done">>
      /\ \A q \in 1 .. n : a[q] = t[q]
      BY <1>1, <1>3, Joined
<1> HIDE DEF a, n
<1>5. /\ b \in Seq(UartOp) /\ Len(b) = n + 2 /\ b[n + 2] = <<"reset">>
      /\ \A q \in 1 .. n + 1 : b[q] = a[q]
  <2>1. /\ b \in Seq(UartOp) /\ Len(b) = Len(a) + 1 /\ b[Len(a) + 1] = <<"reset">>
        /\ \A q \in 1 .. Len(a) : b[q] = a[q]
        BY <1>3, <1>4, Joined
  <2>2. Len(a) + 1 = n + 2
        BY <1>1, <1>4
  <2> HIDE DEF b
  <2> QED BY <1>4, <2>1, <2>2
<1> HIDE DEF b
<1>6. /\ \A q \in 1 .. n : b[q] = t[q]
      /\ b[n + 1] = <<"done">>
      BY <1>1, <1>4, <1>5
<1>7. /\ \A op \in PrintOp : op # <<"reset">>
      /\ <<"done">>[1] # "write" /\ <<"reset">>[1] # "write"
      BY OpsDiffer
<1>8. ASSUME NEW q \in 1 .. Len(b)
      PROVE  /\ q <= n + 1 => b[q] \in PrintOp /\ b[q] # <<"reset">>
             /\ b[q][1] = "write" => q >= 2 /\ b[q - 1] = <<"space">>
  <2>1. CASE q \in 1 .. n
    <3>1. b[q] = t[q] /\ (q >= 2 => q - 1 \in 1 .. n)
          BY <1>1, <1>6, <2>1
    <3>2. q >= 2 => b[q - 1] = t[q - 1]
          BY <1>6, <3>1
    <3> QED BY <1>1, <1>7, <2>1, <3>1, <3>2
  <2>2. CASE q = n + 1
        BY <1>3, <1>6, <1>7, <2>2
  <2>3. CASE q = n + 2
        BY <1>1, <1>5, <1>7, <2>3
  <2> QED BY <1>1, <1>5, <2>1, <2>2, <2>3
<1>9. ASSUME NEW q \in 2 .. Len(b), b[q] = <<"reset">> PROVE b[q - 1] = <<"done">>
  <2>1. q \in 1 .. Len(b)
        BY <1>1, <1>5
  <2>2. q = n + 2 /\ q - 1 = n + 1
        BY <1>1, <1>5, <1>8, <1>9, <2>1
  <2> QED BY <1>6, <2>2
<1>10. Tested(b)
  <2>1. ASSUME NEW q \in 2 .. Len(b) PROVE b[q][1] = "write" => b[q - 1] = <<"space">>
    <3>1. q \in 1 .. Len(b)
          BY <1>1, <1>5
    <3> QED BY <1>8, <3>1
  <2> QED BY <1>9, <2>1 DEF Tested
<1>11. UpList(b)
  <2>1. ASSUME NEW q \in 1 .. Len(b)
        PROVE  b[q] \in PrintOp \/ (b[q] = <<"reset">> /\ q = Len(b))
        BY <1>1, <1>5, <1>8
  <2> QED BY <1>5, <1>10, <2>1 DEF UpList
<1>12. b # <<>> /\ Head(b)[1] # "write" /\ Head(b) # <<"reset">>
  <2>1. Len(b) # 0 /\ 1 \in 1 .. Len(b) /\ 1 <= n + 1
        BY <1>1, <1>5
  <2>2. b # <<>>
        BY <2>1, EmptySeq
  <2>3. Head(b) = b[1]
        BY <1>5, <2>2, TailOf
  <2>4. b[1] # <<"reset">> /\ b[1][1] # "write"
        BY <1>8, <2>1
  <2> QED BY <2>2, <2>3, <2>4
<1> QED BY <1>2, <1>11, <1>12

LEMMA BootPrints == BootList(U!bootOps, 4)
<1> DEFINE u == U!UartInit
           t == U!TxString(Banner)
           n == Len(t)
           a == u \o t
           b == a \o << <<"done">> >>
           c == b \o << <<"irq">> >>
<1>1. /\ t \in Seq(UartOp) /\ n \in Nat
      /\ \A i \in 1 .. n : /\ t[i] \in PrintOp
                           /\ t[i][1] = "write" => i >= 2 /\ t[i - 1] = <<"space">>
      BY StringIs
<1>2. U!bootOps = c
      BY DEF U!bootOps, U!TxFlush
<1>3. \A i \in 1 .. 4 : InitOp(i) \in UartOp /\ InitOp(i)[1] # "write" /\ InitOp(i)[1] # "reset"
  <2>1. /\ InitOp(1) = <<"power", "off">> /\ InitOp(2) = <<"power", "reset">>
        /\ InitOp(3) = <<"active">> /\ InitOp(4) = <<"config", {"ENABLE", "TX_ENABLE"}>>
        BY DEF InitOp
  <2>2. \A i \in {1, 2, 3, 4} : /\ InitOp(i) \in UartOp
                                /\ InitOp(i)[1] # "write" /\ InitOp(i)[1] # "reset"
        BY <2>1 DEF UartOp
  <2> QED BY <2>2
<1>4. /\ u = <<InitOp(1), InitOp(2), InitOp(3), InitOp(4)>>
      BY DEF U!UartInit, InitOp
<1>5. u \in Seq(UartOp) /\ Len(u) = 4 /\ \A i \in 1 .. 4 : u[i] = InitOp(i)
  <2>1. \A i \in {1, 2, 3, 4} : InitOp(i) \in UartOp
        BY <1>3
  <2> QED BY <1>4, <2>1
<1>6. <<"done">> \in UartOp /\ <<"irq">> \in UartOp /\ <<"done">> \in PrintOp
      BY DEF UartOp, PrintOp
<1> HIDE DEF u, t
<1>7. /\ a \in Seq(UartOp) /\ Len(a) = Len(u) + Len(t)
      /\ \A q \in 1 .. Len(u) + Len(t) : a[q] = IF q <= Len(u) THEN u[q] ELSE t[q - Len(u)]
      BY <1>1, <1>5, ConcatProperties, ZenonT(60)
<1> HIDE DEF a
<1>8. /\ Len(a) = n + 4
      /\ \A q \in 1 .. 4 : a[q] = InitOp(q)
      /\ \A q \in 5 .. n + 4 : a[q] = t[q - 4]
  <2>1. ASSUME NEW q \in 1 .. 4 PROVE a[q] = InitOp(q)
    <3>1. q \in 1 .. Len(u) + Len(t) /\ q <= Len(u)
          BY <1>1, <1>5
    <3> QED BY <1>5, <1>7, <3>1
  <2>2. ASSUME NEW q \in 5 .. n + 4 PROVE a[q] = t[q - 4]
    <3>1. q \in 1 .. Len(u) + Len(t) /\ ~(q <= Len(u)) /\ q - Len(u) = q - 4
          BY <1>1, <1>5
    <3> QED BY <1>7, <3>1
  <2>3. Len(a) = n + 4
        BY <1>1, <1>5, <1>7
  <2> QED BY <2>1, <2>2, <2>3
<1> HIDE DEF n
<1>9. /\ b \in Seq(UartOp) /\ Len(b) = Len(a) + 1 /\ b[Len(a) + 1] = <<"done">>
      /\ \A q \in 1 .. Len(a) : b[q] = a[q]
  <2>1. a \in Seq(UartOp) /\ <<"done">> \in UartOp
        BY <1>6, <1>7
  <2> QED BY <2>1, Joined
<1> HIDE DEF b
<1>10. /\ c \in Seq(UartOp) /\ Len(c) = Len(b) + 1 /\ c[Len(b) + 1] = <<"irq">>
       /\ \A q \in 1 .. Len(b) : c[q] = b[q]
      BY <1>6, <1>9, Joined
<1> HIDE DEF c
<1>11. /\ Len(c) = n + 6 /\ n \in Nat
       /\ \A q \in 1 .. 4 : c[q] = InitOp(q)
       /\ \A q \in 5 .. n + 4 : c[q] = t[q - 4]
       /\ c[n + 5] = <<"done">> /\ c[n + 6] = <<"irq">>
  <2>1. Len(a) = n + 4 /\ Len(b) = n + 5 /\ Len(c) = n + 6 /\ n \in Nat
        BY <1>1, <1>8, <1>9, <1>10 DEF n
  <2>2. \A q \in 1 .. n + 4 : c[q] = a[q]
    <3>1. ASSUME NEW q \in 1 .. n + 4 PROVE c[q] = a[q]
      <4>1. q \in 1 .. Len(a) /\ q \in 1 .. Len(b)
            BY <2>1
      <4> QED BY <1>9, <1>10, <4>1
    <3> QED BY <3>1
  <2>3. /\ c[n + 5] = b[n + 5] /\ b[n + 5] = <<"done">> /\ c[n + 6] = <<"irq">>
    <3>1. Len(a) + 1 = n + 5 /\ Len(b) + 1 = n + 6 /\ n + 5 \in 1 .. Len(b)
          BY <2>1
    <3> QED BY <1>9, <1>10, <3>1
  <2>4. ASSUME NEW q \in 1 .. 4 PROVE c[q] = InitOp(q)
    <3>1. q \in 1 .. n + 4
          BY <2>1
    <3> QED BY <1>8, <2>2, <3>1
  <2>5. ASSUME NEW q \in 5 .. n + 4 PROVE c[q] = t[q - 4]
    <3>1. q \in 1 .. n + 4
          BY <2>1
    <3> QED BY <1>8, <2>2, <3>1
  <2> QED BY <2>1, <2>3, <2>4, <2>5
<1>12. ASSUME NEW q \in 5 .. n + 4
       PROVE  /\ c[q] \in PrintOp /\ c[q] # <<"reset">>
              /\ c[q][1] = "write" => q - 1 \in 5 .. n + 4 /\ c[q - 1] = <<"space">>
  <2>1. q - 4 \in 1 .. Len(t) /\ c[q] = t[q - 4] /\ c[q] \in PrintOp
        BY <1>1, <1>11 DEF n
  <2>2. ASSUME c[q][1] = "write" PROVE q - 1 \in 5 .. n + 4 /\ c[q - 1] = <<"space">>
    <3>1. q - 4 >= 2 /\ t[(q - 4) - 1] = <<"space">>
          BY <1>1, <2>1, <2>2
    <3>2. q - 1 \in 5 .. n + 4 /\ (q - 1) - 4 = (q - 4) - 1
          BY <1>11, <3>1
    <3>3. c[q - 1] = t[(q - 1) - 4]
          BY <1>11, <3>2
    <3> QED BY <3>1, <3>2, <3>3
  <2>3. c[q] # <<"reset">>
    <3>1. \A op \in PrintOp : op # <<"reset">>
          BY OpsDiffer
    <3> QED BY <2>1, <3>1
  <2> QED BY <2>1, <2>2, <2>3
<1>13. Tested(c)
  <2>1. ASSUME NEW q \in 2 .. Len(c)
        PROVE  /\ c[q][1] = "write" => c[q - 1] = <<"space">>
               /\ c[q] # <<"reset">>
    <3>1. CASE q \in 1 .. 4
      <4>1. c[q][1] # "write" /\ c[q][1] # "reset"
            BY <1>3, <1>11, <3>1
      <4> QED BY <4>1
    <3>2. CASE q \in 5 .. n + 4
          BY <1>12, <3>2
    <3>3. CASE q = n + 5
      <4>1. c[q][1] = "done"
            BY <1>11, <3>3
      <4> QED BY <4>1
    <3>4. CASE q = n + 6
      <4>1. c[q][1] = "irq"
            BY <1>11, <3>4
      <4> QED BY <4>1
    <3> QED BY <1>11, <3>1, <3>2, <3>3, <3>4, SMTT(40)
  <2> QED BY <2>1 DEF Tested
<1>14. \A q \in 1 .. 4 : c[q] = InitOp(q + (4 - 4))
  <2>1. ASSUME NEW q \in 1 .. 4 PROVE c[q] = InitOp(q + (4 - 4))
    <3>1. q + (4 - 4) = q
          OBVIOUS
    <3> QED BY <1>11, <3>1
  <2> QED BY <2>1
<1>15. \A q \in (4 + 1) .. (Len(c) - 1) : c[q] \in PrintOp
  <2>1. ASSUME NEW q \in (4 + 1) .. (Len(c) - 1) PROVE c[q] \in PrintOp
    <3>1. q \in 5 .. n + 4 \/ q = n + 5
          BY <1>11
    <3>2. CASE q = n + 5
          BY <1>6, <1>11, <3>2
    <3> QED BY <1>12, <3>1, <3>2
  <2> QED BY <2>1
<1>16. c[Len(c)] = <<"irq">> /\ Len(c) > 4 /\ 4 \in 0 .. 4
       BY <1>11
<1> QED BY <1>2, <1>10, <1>13, <1>14, <1>15, <1>16 DEF BootList

-----------------------------------------------------------------------------
(***************************************************************************)
(* The invariant of the UART.  Until interrupts are enabled (StillBooting) only  *)
(* main prints, and it finds space where it tested for it.  Afterwards (Up) *)
(* the head of main may be a write whose space a handler has taken: Pending *)
(* is the byte that is then going to be lost.  A handler has printed the    *)
(* first w characters of its line, which are the last ones of the output.   *)
(***************************************************************************)
Byte == Nat \X Char

UartTypes ==
    /\ U!TypeOK
    /\ fifo \in Seq(Byte) /\ sent \in Seq(Byte) /\ lost \in Seq(Byte)

\* The power and the configuration with the last k accesses of UartInit to do.
Powered(k) ==
    /\ k = 4 => power # "reset"
    /\ k = 3 => power = "off"
    /\ k \in 0 .. 1 => power = "active"
    /\ k = 0 => config = {"ENABLE", "TX_ENABLE"}

StillBooting(k) ==
    /\ BootList(main, k) /\ Powered(k)
    /\ irq = FALSE /\ isr = <<>> /\ interrupts = 0 /\ lost = <<>>
    /\ Head(main)[1] = "write" => Len(fifo) < FifoDepth

AtWrite == main # <<>> /\ Head(main)[1] = "write"
Pending == IF AtWrite /\ (isr # <<>> \/ Len(fifo) >= FifoDepth) THEN 1 ELSE 0

Losses ==
    /\ Len(lost) + Pending <= interrupts
    /\ \A i \in DOMAIN lost : lost[i][1] = 0

Flushed ==
    main # <<>> /\ Head(main) = <<"reset">> => \A i \in DOMAIN fifo : fifo[i][1] # 0

\* The accesses and the line of a handler.
MsgOps == U!TxString(Message)
MsgLine == U!Line(Message)

\* The last w characters of out are the first w of line, printed by k.
EndsWith(out, k, w) ==
    /\ w <= Len(out)
    /\ \A j \in 1 .. w : out[(Len(out) - w) + j] = <<k, MsgLine[j]>>

\* The handler has printed w characters, and has tested for the next one or not.
Handling(w) ==
    /\ w \in 0 .. (Len(MsgLine) - 1) /\ interrupts >= 1
    /\ isr \in Seq(UartOp)
    /\ \/ Len(isr) = 2 * (Len(MsgLine) - w)
       \/ Len(isr) = 2 * (Len(MsgLine) - w) - 1 /\ Len(fifo) < FifoDepth
    /\ \A q \in 1 .. Len(isr) : isr[q] = MsgOps[(Len(MsgOps) - Len(isr)) + q]
    /\ EndsWith(U!Output, interrupts, w)

\* The line of the k-th interrupt is somewhere in out.
Whole(k, out) ==
    \E i \in 1 .. Len(out) :
        \A j \in DOMAIN MsgLine :
            i + j - 1 <= Len(out) /\ out[i + j - 1] = <<k, MsgLine[j]>>

Up ==
    /\ irq = TRUE /\ power = "active" /\ config = {"ENABLE", "TX_ENABLE"}
    /\ UpList(main)
    /\ Losses
    /\ Flushed
    /\ isr # <<>> => \E w \in Nat : Handling(w)
    /\ U!MessagesWhole

UartInv ==
    /\ UartTypes
    /\ (\E k \in 0 .. 4 : StillBooting(k)) \/ Up

\* A byte on its way: it enters the output at its end, and going out changes nothing.
LEMMA ByteEnters ==
    ASSUME NEW S, NEW a \in Seq(S), NEW b \in Seq(S), NEW x \in S
    PROVE  a \o Append(b, x) = Append(a \o b, x)
<1> DEFINE c == a \o b
           d == Append(b, x)
           l == a \o d
           r == Append(c, x)
           m == Len(a)
           n == Len(b)
<1>1. /\ c \in Seq(S) /\ Len(c) = m + n /\ m \in Nat /\ n \in Nat
      /\ \A i \in 1 .. m + n : c[i] = IF i <= m THEN a[i] ELSE b[i - m]
      BY ConcatProperties
<1>2. /\ d \in Seq(S) /\ Len(d) = n + 1 /\ d[n + 1] = x
      /\ \A i \in 1 .. n : d[i] = b[i]
      BY AppendProperties
<1> HIDE DEF c, d
<1>3. /\ l \in Seq(S) /\ Len(l) = m + Len(d)
      /\ \A i \in 1 .. m + Len(d) : l[i] = IF i <= m THEN a[i] ELSE d[i - m]
      BY <1>2, ConcatProperties
<1>4. /\ r \in Seq(S) /\ Len(r) = Len(c) + 1 /\ r[Len(c) + 1] = x
      /\ \A i \in 1 .. Len(c) : r[i] = c[i]
      BY <1>1, AppendProperties
<1> HIDE DEF l, r, m, n
<1>5. ASSUME NEW i \in 1 .. m + n + 1 PROVE l[i] = r[i]
  <2>1. CASE i <= m
    <3>1. i \in 1 .. m + Len(d) /\ i \in 1 .. Len(c) /\ i \in 1 .. m + n
          BY <1>1, <1>2, <2>1
    <3> QED BY <1>1, <1>3, <1>4, <2>1, <3>1
  <2>2. CASE i > m /\ i <= m + n
    <3>1. /\ i \in 1 .. m + Len(d) /\ i \in 1 .. Len(c) /\ i \in 1 .. m + n
          /\ i - m \in 1 .. n /\ ~(i <= m)
          BY <1>1, <1>2, <2>2
    <3>2. l[i] = d[i - m] /\ d[i - m] = b[i - m] /\ r[i] = c[i] /\ c[i] = b[i - m]
          BY <1>1, <1>2, <1>3, <1>4, <3>1
    <3> QED BY <3>2
  <2>3. CASE i = m + n + 1
    <3>1. i \in 1 .. m + Len(d) /\ i - m = n + 1 /\ ~(i <= m) /\ i = Len(c) + 1
          BY <1>1, <1>2, <2>3
    <3> QED BY <1>2, <1>3, <1>4, <3>1
  <2> QED BY <1>1, <2>1, <2>2, <2>3
<1>6. Len(l) = m + n + 1 /\ Len(r) = m + n + 1
      BY <1>1, <1>2, <1>3, <1>4
<1>7. l = r
      BY <1>3, <1>4, <1>5, <1>6, SeqEqual
<1> QED BY <1>7 DEF l, r, c, d

LEMMA ByteGoesOut ==
    ASSUME NEW S, NEW a \in Seq(S), NEW b \in Seq(S), b # <<>>
    PROVE  Append(a, Head(b)) \o Tail(b) = a \o b
<1> DEFINE c == a \o b
           d == Append(a, Head(b))
           t == Tail(b)
           l == d \o t
           m == Len(a)
           n == Len(b)
<1>1. /\ c \in Seq(S) /\ Len(c) = m + n /\ m \in Nat
      /\ \A i \in 1 .. m + n : c[i] = IF i <= m THEN a[i] ELSE b[i - m]
      BY ConcatProperties
<1>2. /\ n \in Nat \ {0} /\ Head(b) = b[1] /\ b[1] \in S /\ t \in Seq(S) /\ Len(t) = n - 1
      /\ \A i \in 1 .. n - 1 : t[i] = b[i + 1]
      BY TailOf
<1>3. /\ d \in Seq(S) /\ Len(d) = m + 1 /\ d[m + 1] = b[1]
      /\ \A i \in 1 .. m : d[i] = a[i]
      BY <1>2, AppendProperties
<1> HIDE DEF c, d, t
<1>4. /\ l \in Seq(S) /\ Len(l) = Len(d) + Len(t)
      /\ \A i \in 1 .. Len(d) + Len(t) : l[i] = IF i <= Len(d) THEN d[i] ELSE t[i - Len(d)]
      BY <1>2, <1>3, ConcatProperties, ZenonT(60)
<1> HIDE DEF l, m, n
<1>5. ASSUME NEW i \in 1 .. m + n PROVE l[i] = c[i]
  <2>1. CASE i <= m
    <3>1. i \in 1 .. Len(d) + Len(t) /\ i <= Len(d) /\ i \in 1 .. m
          BY <1>1, <1>2, <1>3, <2>1
    <3>2. l[i] = d[i] /\ d[i] = a[i] /\ c[i] = a[i]
          BY <1>1, <1>3, <1>4, <2>1, <3>1
    <3> QED BY <3>2
  <2>2. CASE i = m + 1
    <3>1. i \in 1 .. Len(d) + Len(t) /\ i <= Len(d) /\ ~(i <= m) /\ i - m = 1
          BY <1>1, <1>2, <1>3, <2>2
    <3>2. l[i] = d[i] /\ d[i] = b[1] /\ c[i] = b[1]
          BY <1>1, <1>3, <1>4, <2>2, <3>1
    <3> QED BY <3>2
  <2>3. CASE i > m + 1
    <3>1. /\ i \in 1 .. Len(d) + Len(t) /\ ~(i <= Len(d)) /\ ~(i <= m)
          /\ i - Len(d) \in 1 .. n - 1 /\ (i - Len(d)) + 1 = i - m
          BY <1>1, <1>2, <1>3, <2>3
    <3>2. l[i] = t[i - Len(d)] /\ t[i - Len(d)] = b[i - m] /\ c[i] = b[i - m]
          BY <1>1, <1>2, <1>4, <3>1
    <3> QED BY <3>2
  <2> QED BY <1>1, <2>1, <2>2, <2>3
<1>6. Len(l) = m + n /\ Len(c) = m + n
      BY <1>1, <1>2, <1>3, <1>4
<1>7. l = c
      BY <1>1, <1>4, <1>5, <1>6, SeqEqual
<1> QED BY <1>7 DEF l, d, t, c

\* The line of a handler: at least one character, each of which is tested for and written.
LEMMA MessageIs ==
    /\ Len(MsgLine) \in Nat \ {0} /\ DOMAIN MsgLine = 1 .. Len(MsgLine)
    /\ MsgOps \in Seq(UartOp) /\ Len(MsgOps) = 2 * Len(MsgLine)
    /\ \A j \in 1 .. Len(MsgLine) : /\ MsgLine[j] \in Char
                                    /\ MsgOps[2 * j - 1] = <<"space">>
                                    /\ MsgOps[2 * j] = <<"write", MsgLine[j]>>
<1>1. Message \in Seq(STRING) /\ Message # <<>>
      BY UartAssumption
<1>2. Prints(MsgOps, MsgLine) /\ Len(MsgLine) # 0
      BY <1>1, StringPrints DEF MsgOps, MsgLine
<1>3. /\ MsgOps \in Seq(UartOp) /\ MsgLine \in Seq(Char) /\ Len(MsgOps) = 2 * Len(MsgLine)
      /\ \A j \in 1 .. Len(MsgLine) : /\ MsgOps[2 * j - 1] = <<"space">>
                                      /\ MsgOps[2 * j] = <<"write", MsgLine[j]>>
      BY <1>2 DEF Prints
<1>4. /\ Len(MsgLine) \in Nat /\ DOMAIN MsgLine = 1 .. Len(MsgLine)
      /\ \A j \in 1 .. Len(MsgLine) : MsgLine[j] \in Char
      BY <1>3
<1> QED BY <1>2, <1>3, <1>4

\* What is in the output stays there when a byte is added.
LEMMA WholeStays ==
    ASSUME NEW out \in Seq(Byte), NEW x \in Byte, NEW k, Whole(k, out)
    PROVE  Whole(k, Append(out, x))
<1> DEFINE o == Append(out, x)
           n == Len(out)
<1>1. Len(o) = n + 1 /\ n \in Nat /\ \A i \in 1 .. n : o[i] = out[i]
      BY AppendProperties
<1>2. PICK i \in 1 .. n : \A j \in DOMAIN MsgLine :
                            i + j - 1 <= n /\ out[i + j - 1] = <<k, MsgLine[j]>>
      BY DEF Whole
<1> HIDE DEF o, n
<1>3. ASSUME NEW j \in DOMAIN MsgLine
      PROVE  i + j - 1 <= Len(o) /\ o[i + j - 1] = <<k, MsgLine[j]>>
  <2>1. j \in Nat \ {0}
        BY MessageIs
  <2>2. i + j - 1 \in 1 .. n /\ i + j - 1 <= Len(o)
        BY <1>1, <1>2, <2>1
  <2> QED BY <1>1, <1>2, <2>2
<1>4. i \in 1 .. Len(o)
      BY <1>1
<1> QED BY <1>3, <1>4 DEF Whole, o

\* A handler writes the next character of its line.
LEMMA LineGrows ==
    ASSUME NEW out \in Seq(Byte), NEW k \in Nat, NEW w \in 0 .. (Len(MsgLine) - 1),
           EndsWith(out, k, w)
    PROVE  EndsWith(Append(out, <<k, MsgLine[w + 1]>>), k, w + 1)
<1> DEFINE x == <<k, MsgLine[w + 1]>>
           o == Append(out, x)
           n == Len(out)
<1>0. w + 1 \in 1 .. Len(MsgLine) /\ w \in Nat
      BY MessageIs
<1>1. x \in Byte
      BY <1>0, MessageIs DEF Byte
<1> HIDE DEF x
<1>2. Len(o) = n + 1 /\ n \in Nat /\ o[n + 1] = x /\ \A i \in 1 .. n : o[i] = out[i]
      BY <1>1, AppendProperties
<1>3. w <= n /\ \A j \in 1 .. w : out[(n - w) + j] = <<k, MsgLine[j]>>
      BY DEF EndsWith
<1> HIDE DEF o, n
<1>4. ASSUME NEW j \in 1 .. w + 1 PROVE o[(Len(o) - (w + 1)) + j] = <<k, MsgLine[j]>>
  <2>1. (Len(o) - (w + 1)) + j = (n - w) + j
        BY <1>0, <1>2
  <2>2. CASE j = w + 1
    <3>1. (n - w) + j = n + 1
          BY <1>0, <1>2, <2>2
    <3> QED BY <1>2, <2>1, <2>2, <3>1 DEF x
  <2>3. CASE j # w + 1
    <3>1. j \in 1 .. w /\ (n - w) + j \in 1 .. n
          BY <1>0, <1>2, <1>3, <2>3
    <3>2. o[(n - w) + j] = out[(n - w) + j] /\ out[(n - w) + j] = <<k, MsgLine[j]>>
          BY <1>2, <1>3, <3>1
    <3> QED BY <2>1, <3>2
  <2> QED BY <2>2, <2>3
<1>5. w + 1 <= Len(o)
      BY <1>0, <1>2, <1>3
<1> QED BY <1>4, <1>5 DEF EndsWith, o, x

LEMMA LineIsWhole ==
    ASSUME NEW out \in Seq(Byte), NEW k, EndsWith(out, k, Len(MsgLine))
    PROVE  Whole(k, out)
<1> DEFINE n == Len(out)
           w == Len(MsgLine)
           i == (n - w) + 1
<1>1. n \in Nat /\ w \in Nat \ {0} /\ DOMAIN MsgLine = 1 .. w
      BY MessageIs
<1>2. w <= n /\ \A j \in 1 .. w : out[(n - w) + j] = <<k, MsgLine[j]>>
      BY DEF EndsWith
<1> HIDE DEF n, w
<1>3. i \in 1 .. n
      BY <1>1, <1>2
<1>4. ASSUME NEW j \in DOMAIN MsgLine
      PROVE  i + j - 1 <= n /\ out[i + j - 1] = <<k, MsgLine[j]>>
  <2>0. n \in Nat /\ w \in Nat /\ w <= n /\ j \in 1 .. w
        BY <1>1, <1>2, <1>4
  <2>1. i + j - 1 = (n - w) + j /\ i + j - 1 <= n
        BY <2>0
  <2>2. out[(n - w) + j] = <<k, MsgLine[j]>>
        BY <1>2, <2>0
  <2> HIDE DEF i
  <2> QED BY <2>1, <2>2
<1> HIDE DEF i
<1> QED BY <1>3, <1>4 DEF Whole, n

-----------------------------------------------------------------------------
\* What an access of a running UART does.
LEMMA AccessIs ==
    ASSUME NEW op, NEW who, power = "active", config = {"ENABLE", "TX_ENABLE"},
           U!Access(op, who)
    PROVE  /\ op[1] = "space" => Len(fifo) < FifoDepth /\ fifo' = fifo /\ lost' = lost
           /\ op[1] = "done" => fifo = <<>> /\ fifo' = fifo /\ lost' = lost
           /\ op[1] = "write" /\ Len(fifo) < FifoDepth =>
                fifo' = Append(fifo, <<who, op[2]>>) /\ lost' = lost
           /\ op[1] = "write" /\ ~(Len(fifo) < FifoDepth) =>
                fifo' = fifo /\ lost' = Append(lost, <<who, op[2]>>)
<1>1. U!Running
      BY DEF U!Running
<1>2. ASSUME op[1] = "space" PROVE Len(fifo) < FifoDepth /\ fifo' = fifo /\ lost' = lost
      BY <1>2 DEF U!Access, U!Status
<1>3. ASSUME op[1] = "done" PROVE fifo = <<>> /\ fifo' = fifo /\ lost' = lost
      BY <1>3 DEF U!Access, U!Status
<1>4. ASSUME op[1] = "write", Len(fifo) < FifoDepth
      PROVE  fifo' = Append(fifo, <<who, op[2]>>) /\ lost' = lost
      BY <1>1, <1>4 DEF U!Access
<1>5. ASSUME op[1] = "write", ~(Len(fifo) < FifoDepth)
      PROVE  fifo' = fifo /\ lost' = Append(lost, <<who, op[2]>>)
      BY <1>1, <1>5 DEF U!Access
<1> QED BY <1>2, <1>3, <1>4, <1>5

\* The type of what an access leaves, and the output.
LEMMA AccessTypes ==
    ASSUME UartTypes, NEW op \in PrintOp, NEW who \in Nat,
           power = "active", config = {"ENABLE", "TX_ENABLE"}, U!Access(op, who)
    PROVE  /\ fifo' \in Seq(Byte) /\ Len(fifo') <= FifoDepth /\ lost' \in Seq(Byte)
           /\ op[1] = "write" => op[2] \in Char /\ <<who, op[2]>> \in Byte
           /\ op[1] = "write" /\ Len(fifo) < FifoDepth /\ sent' = sent =>
                U!Output' = Append(U!Output, <<who, op[2]>>)
           /\ fifo' = fifo /\ sent' = sent => U!Output' = U!Output
<1>1. /\ fifo \in Seq(Byte) /\ lost \in Seq(Byte) /\ sent \in Seq(Byte)
      /\ Len(fifo) \in Nat /\ Len(fifo) <= FifoDepth /\ FifoDepth \in Nat
      BY UartAssumption DEF UartTypes, U!TypeOK
<1>2. op[1] \in {"space", "done", "write"}
      BY OpsDiffer
<1>3. ASSUME op[1] = "write" PROVE op[2] \in Char /\ <<who, op[2]>> \in Byte
      BY <1>3 DEF PrintOp, Byte
<1>4. ASSUME fifo' = fifo, sent' = sent PROVE U!Output' = U!Output
      BY <1>4, Zenon DEF U!Output
<1>5. CASE op[1] = "space" \/ op[1] = "done"
  <2>1. fifo' = fifo /\ lost' = lost /\ op[1] # "write"
        BY <1>5, AccessIs
  <2> QED BY <1>1, <1>4, <2>1
<1>6. CASE op[1] = "write" /\ Len(fifo) < FifoDepth
  <2> DEFINE x == <<who, op[2]>>
  <2>1. fifo' = Append(fifo, x) /\ lost' = lost
        BY <1>6, AccessIs
  <2>2. x \in Byte
        BY <1>3, <1>6
  <2> HIDE DEF x
  <2>3. fifo' \in Seq(Byte) /\ Len(fifo') = Len(fifo) + 1
        BY <1>1, <2>1, <2>2, AppendProperties
  <2>4. ASSUME sent' = sent PROVE U!Output' = Append(U!Output, x)
    <3>1. U!Output' = sent \o Append(fifo, x) /\ U!Output = sent \o fifo
          BY <2>1, <2>4, Zenon DEF U!Output
    <3>2. sent \o Append(fifo, x) = Append(sent \o fifo, x)
          BY <1>1, <2>2, ByteEnters, SMTT(40)
    <3> QED BY <3>1, <3>2, Zenon
  <2>5. Len(fifo') <= FifoDepth
        BY <1>1, <1>6, <2>3
  <2> QED BY <1>1, <1>3, <1>4, <2>1, <2>3, <2>4, <2>5 DEF x
<1>7. CASE op[1] = "write" /\ ~(Len(fifo) < FifoDepth)
  <2> DEFINE x == <<who, op[2]>>
  <2>1. fifo' = fifo /\ lost' = Append(lost, x)
        BY <1>7, AccessIs
  <2>2. x \in Byte
        BY <1>3, <1>7
  <2> HIDE DEF x
  <2>3. lost' \in Seq(Byte)
        BY <1>1, <2>1, <2>2, AppendProperties
  <2> QED BY <1>1, <1>3, <1>4, <1>7, <2>1, <2>3 DEF x
<1> QED BY <1>2, <1>5, <1>6, <1>7

\* A step of main, by what is at the head of its list.
LEMMA MainStepIs ==
    ASSUME U!MainStep
    PROVE  /\ main # <<>> /\ isr = <<>> /\ isr' = isr /\ main' = Tail(main)
           /\ interrupts' = interrupts /\ sent' = sent
           /\ Head(main) \in PrintOp =>
                U!Access(Head(main), 0) /\ power' = power /\ config' = config /\ irq' = irq
           /\ Head(main)[1] \in {"power", "active", "config", "irq"} => fifo' = fifo /\ lost' = lost
           /\ Head(main)[1] \in {"power", "active", "config"} => irq' = irq
           /\ Head(main)[1] = "power" => power' = Head(main)[2] /\ config' = {}
           /\ Head(main)[1] = "active" => power = "active" /\ power' = power /\ config' = config
           /\ Head(main)[1] = "config" => power' = power /\ config' = Head(main)[2]
           /\ Head(main)[1] = "irq" => power' = power /\ config' = config /\ irq' = TRUE
<1> DEFINE op == Head(main)
<1>1. /\ main # <<>> /\ isr = <<>>
      /\ \/ /\ op[1] \in {"space", "done", "write"} /\ U!Access(op, 0) /\ main' = Tail(main)
            /\ UNCHANGED <<isr, power, config, irq, interrupts, sent>>
         \/ /\ op[1] = "power" /\ power' = op[2] /\ config' = {} /\ main' = Tail(main)
            /\ UNCHANGED <<isr, irq, interrupts, fifo, sent, lost>>
         \/ /\ op[1] = "active" /\ power = "active" /\ main' = Tail(main)
            /\ UNCHANGED <<isr, power, config, irq, interrupts, fifo, sent, lost>>
         \/ /\ op[1] = "config" /\ config' = op[2] /\ main' = Tail(main)
            /\ UNCHANGED <<isr, power, irq, interrupts, fifo, sent, lost>>
         \/ /\ op[1] = "irq" /\ irq' = TRUE /\ main' = Tail(main)
            /\ UNCHANGED <<isr, power, config, interrupts, fifo, sent, lost>>
      BY Zenon DEF U!MainStep
<1>2. op \in PrintOp => op[1] \in {"space", "done", "write"}
      BY OpsDiffer
<1> HIDE DEF op
<1> QED BY <1>1, <1>2 DEF op

\* The invariant holds at the start, whatever the boot loader left.
LEMMA UartStarts == MCInit => UartInv
<1> SUFFICES ASSUME MCInit PROVE UartInv
    OBVIOUS
<1>1. /\ main = U!bootOps /\ isr = <<>> /\ irq = FALSE /\ interrupts = 0
      /\ fifo = <<>> /\ sent = <<>> /\ lost = <<>>
      /\ power \in {"off", "active"} /\ config \in {{}, {"ENABLE", "TX_ENABLE"}}
      BY DEF MCInit, U!Init
<1>2. Len(fifo) = 0 /\ FifoDepth \in Nat \ {0} /\ MaxInterrupts \in Nat
      BY <1>1, UartAssumption
<1>3. UartTypes
  <2>1. <<>> \in Seq(Byte)
        OBVIOUS
  <2> QED BY <1>1, <1>2, <2>1 DEF UartTypes, U!TypeOK
<1>4. BootList(main, 4)
      BY <1>1, BootPrints
<1>5. StillBooting(4)
      BY <1>1, <1>2, <1>4 DEF StillBooting, Powered
<1>6. 4 \in 0 .. 4
      OBVIOUS
<1> QED BY <1>3, <1>5, <1>6 DEF UartInv

\* Main, until interrupts are enabled.
LEMMA BootMainStep ==
    ASSUME UartTypes, NEW k \in 0 .. 4, StillBooting(k), U!MainStep
    PROVE  UartInv'
<1>1. /\ BootList(main, k) /\ Powered(k)
      /\ irq = FALSE /\ isr = <<>> /\ interrupts = 0 /\ lost = <<>>
      BY DEF StillBooting
<1>2. /\ FifoDepth \in Nat \ {0} /\ MaxInterrupts \in Nat
      /\ power \in {"off", "reset", "active"} /\ config \subseteq {"ENABLE", "TX_ENABLE"}
      /\ Len(fifo) <= FifoDepth /\ fifo \in Seq(Byte) /\ sent \in Seq(Byte) /\ lost \in Seq(Byte)
      BY UartAssumption DEF UartTypes, U!TypeOK
<1>3. /\ main # <<>> /\ isr' = <<>> /\ main' = Tail(main)
      /\ interrupts' = 0 /\ sent' = sent
      BY <1>1, MainStepIs
<1>4. CASE k > 0
  <2> DEFINE op == Head(main)
  <2>1. op = InitOp(5 - k) /\ BootList(main', k - 1)
        BY <1>1, <1>3, <1>4, BootTail
  <2>2. /\ k = 4 => op = <<"power", "off">>
        /\ k = 3 => op = <<"power", "reset">>
        /\ k = 2 => op = <<"active">>
        /\ k = 1 => op = <<"config", {"ENABLE", "TX_ENABLE"}>>
        /\ k \in {1, 2, 3, 4}
    <3>1. /\ InitOp(1) = <<"power", "off">> /\ InitOp(2) = <<"power", "reset">>
          /\ InitOp(3) = <<"active">> /\ InitOp(4) = <<"config", {"ENABLE", "TX_ENABLE"}>>
          BY DEF InitOp
    <3>2. /\ k = 4 => 5 - k = 1
          /\ k = 3 => 5 - k = 2
          /\ k = 2 => 5 - k = 3
          /\ k = 1 => 5 - k = 4
          /\ k \in {1, 2, 3, 4}
          BY <1>4
    <3> HIDE DEF op
    <3> QED BY <2>1, <3>1, <3>2
  <2> HIDE DEF op
  <2>3. op[1] \in {"power", "active", "config"}
        BY <2>2
  <2>4. /\ irq' = FALSE /\ fifo' = fifo /\ lost' = lost
        /\ op[1] = "power" => power' = op[2] /\ config' = {}
        /\ op[1] = "active" => power = "active" /\ power' = power /\ config' = config
        /\ op[1] = "config" => power' = power /\ config' = op[2]
        BY <1>1, <2>3, MainStepIs DEF op
  <2>5. Powered(k - 1)'
    <3>1. CASE k = 4
          BY <2>2, <2>4, <3>1 DEF Powered
    <3>2. CASE k = 3
          BY <2>2, <2>4, <3>2 DEF Powered
    <3>3. CASE k = 2
          BY <2>2, <2>4, <3>3 DEF Powered
    <3>4. CASE k = 1
          BY <1>1, <2>2, <2>4, <3>4 DEF Powered
    <3> QED BY <2>2, <3>1, <3>2, <3>3, <3>4
  <2>6. power' \in {"off", "reset", "active"} /\ config' \subseteq {"ENABLE", "TX_ENABLE"}
    <3>1. CASE k \in {3, 4}
      <4>1. op[1] = "power" /\ op[2] \in {"off", "reset"}
            BY <2>2, <3>1
      <4> QED BY <2>4, <4>1
    <3>2. CASE k = 2
      <4>1. op[1] = "active"
            BY <2>2, <3>2
      <4>2. power' = power /\ config' = config
            BY <2>4, <4>1
      <4> QED BY <1>2, <4>2
    <3>3. CASE k = 1
      <4>1. op[1] = "config" /\ op[2] = {"ENABLE", "TX_ENABLE"}
            BY <2>2, <3>3
      <4> QED BY <1>2, <2>4, <4>1
    <3> QED BY <2>2, <3>1, <3>2, <3>3
  <2>7. UartTypes'
        BY <1>2, <1>3, <2>4, <2>6 DEF UartTypes, U!TypeOK
  <2>8. Head(main')[1] = "write" => Len(fifo') < FifoDepth
    <3>1. ASSUME Head(main')[1] = "write" PROVE op = <<"space">>
      <4>1. main \in Seq(UartOp) /\ Tested(main) /\ main' # <<>>
            BY <1>1, <2>1, BootTail DEF BootList
      <4> QED BY <1>3, <3>1, <4>1, TestedTail DEF op
    <3> QED BY <2>3, <3>1
  <2>9. k - 1 \in 0 .. 4
        BY <2>2
  <2>10. StillBooting(k - 1)'
        BY <1>1, <1>3, <2>1, <2>4, <2>5, <2>8 DEF StillBooting
  <2> QED BY <2>7, <2>9, <2>10 DEF UartInv
<1>5. CASE k = 0
  <2> DEFINE op == Head(main)
  <2>1. \/ op \in PrintOp /\ BootList(main', 0)
        \/ op = <<"irq">> /\ main' = <<>>
        BY <1>1, <1>3, <1>5, BootTail
  <2>2. power = "active" /\ config = {"ENABLE", "TX_ENABLE"}
        BY <1>1, <1>5 DEF Powered
  <2> HIDE DEF op
  <2>3. CASE op \in PrintOp /\ BootList(main', 0)
    <3>1. U!Access(op, 0) /\ power' = power /\ config' = config /\ irq' = FALSE
          BY <1>1, <2>3, MainStepIs DEF op
    <3>2. fifo' \in Seq(Byte) /\ Len(fifo') <= FifoDepth /\ lost' \in Seq(Byte)
          BY <2>2, <2>3, <3>1, AccessTypes
    <3>3. UartTypes'
          BY <1>2, <1>3, <3>1, <3>2 DEF UartTypes, U!TypeOK
    <3>4. op[1] = "write" => Len(fifo) < FifoDepth
          BY DEF StillBooting, op
    <3>5. lost' = lost
      <4>1. op[1] \in {"space", "done", "write"}
            BY <2>3, OpsDiffer
      <4> QED BY <2>2, <3>1, <3>4, <4>1, AccessIs
    <3>6. Head(main')[1] = "write" => Len(fifo') < FifoDepth
      <4>1. ASSUME Head(main')[1] = "write" PROVE op[1] = "space"
        <5>1. main \in Seq(UartOp) /\ Tested(main) /\ main' # <<>>
              BY <1>1, <2>3, BootTail DEF BootList
        <5>2. op = <<"space">>
              BY <1>3, <4>1, <5>1, TestedTail DEF op
        <5> QED BY <5>2
      <4> QED BY <2>2, <3>1, <4>1, AccessIs
    <3>7. Powered(0)'
          BY <2>2, <3>1 DEF Powered
    <3>8. StillBooting(0)'
          BY <1>1, <1>3, <2>3, <3>1, <3>5, <3>6, <3>7 DEF StillBooting
    <3>9. 0 \in 0 .. 4
          OBVIOUS
    <3> QED BY <3>3, <3>8, <3>9 DEF UartInv
  <2>4. CASE op = <<"irq">> /\ main' = <<>>
    <3>1. op[1] = "irq" /\ ~(op \in PrintOp)
      <4>1. op[1] = "irq"
            BY <2>4
      <4> QED BY <4>1, OpsDiffer
    <3>2. /\ fifo' = fifo /\ lost' = <<>> /\ irq' = TRUE
          /\ power' = power /\ config' = config
          BY <1>1, <3>1, MainStepIs DEF op
    <3>3. UartTypes'
          BY <1>1, <1>2, <1>3, <3>2 DEF UartTypes, U!TypeOK
    <3>4. UpList(main')
      <4>1. Len(<<>>) = 0 /\ <<>> \in Seq(UartOp)
            OBVIOUS
      <4> QED BY <2>4, <4>1 DEF UpList, Tested
    <3>5. Losses'
      <4>1. Pending' = 0
            BY <2>4 DEF Pending, AtWrite
      <4>2. Len(<<>>) = 0 /\ DOMAIN <<>> = {}
            OBVIOUS
      <4> QED BY <1>3, <3>2, <4>1, <4>2 DEF Losses
    <3>6. Flushed'
          BY <2>4 DEF Flushed
    <3>7. U!MessagesWhole'
          BY <1>3 DEF U!MessagesWhole
    <3>8. Up'
          BY <1>3, <2>2, <3>2, <3>4, <3>5, <3>6, <3>7 DEF Up
    <3> QED BY <3>3, <3>8 DEF UartInv
  <2> QED BY <2>1, <2>3, <2>4
<1> QED BY <1>4, <1>5

\* What a step leaves of the messages that are complete.
LEMMA MessagesStay ==
    ASSUME U!MessagesWhole, UartTypes, interrupts' = interrupts,
           isr' = <<>> => isr = <<>>,
           \/ U!Output' = U!Output
           \/ \E x \in Byte : U!Output' = Append(U!Output, x)
    PROVE  U!MessagesWhole'
<1> DEFINE o == U!Output
<1>1. o \in Seq(Byte)
      BY ConcatProperties DEF UartTypes, U!Output
<1>2. \A n \in 1 .. interrupts : (n = interrupts => isr = <<>>) => Whole(n, o)
      BY Zenon DEF U!MessagesWhole, Whole, MsgLine
<1>3. ASSUME NEW n \in 1 .. interrupts, n = interrupts => isr' = <<>> PROVE Whole(n, o')
  <2>1. Whole(n, o)
        BY <1>2, <1>3
  <2> HIDE DEF o
  <2>2. CASE o' = o
        BY <2>1, <2>2
  <2>3. CASE \E x \in Byte : o' = Append(o, x)
        BY <1>1, <2>1, <2>3, WholeStays
  <2> QED BY <2>2, <2>3 DEF o
<1> QED BY <1>3, Zenon DEF U!MessagesWhole, Whole, MsgLine

\* The number of losses after a step that loses nothing and in which Pending does not grow.
LEMMA LossesStay ==
    ASSUME UartTypes, Losses, lost' = lost, interrupts' = interrupts, Pending' <= Pending
    PROVE  Losses'
<1>1. Len(lost) \in Nat /\ interrupts \in Nat /\ Pending \in 0 .. 1 /\ Pending' \in 0 .. 1
      BY UartAssumption DEF UartTypes, U!TypeOK, Pending
<1>2. Len(lost) + Pending' <= interrupts
      BY <1>1 DEF Losses
<1> QED BY <1>2 DEF Losses

\* Main, while interrupts are enabled.
LEMMA UpMainStep ==
    ASSUME UartTypes, Up, U!MainStep
    PROVE  UartTypes' /\ Up'
<1>0. /\ irq = TRUE /\ power = "active" /\ config = {"ENABLE", "TX_ENABLE"}
      /\ UpList(main) /\ Losses /\ Flushed /\ U!MessagesWhole
      BY DEF Up
<1>1. /\ FifoDepth \in Nat \ {0} /\ Len(fifo) \in Nat /\ interrupts \in Nat
      /\ fifo \in Seq(Byte) /\ sent \in Seq(Byte) /\ lost \in Seq(Byte) /\ Len(lost) \in Nat
      BY UartAssumption DEF UartTypes, U!TypeOK
<1> DEFINE op == Head(main)
<1>2. /\ main # <<>> /\ isr = <<>> /\ isr' = <<>> /\ main' = Tail(main)
      /\ interrupts' = interrupts /\ sent' = sent
      BY MainStepIs
<1>3. op \in PrintOp
  <2>1. op \in PrintOp \/ op = <<"reset">>
        BY <1>0, <1>2, UpTail
  <2>2. op # <<"reset">>
    <3>1. op[1] \in {"space", "done", "write", "power", "active", "config", "irq"}
          BY Zenon DEF U!MainStep
    <3> HIDE DEF op
    <3> QED BY <3>1
  <2> QED BY <2>1, <2>2
<1>4. UpList(main')
      BY <1>0, <1>2, UpTail
<1>5. /\ U!Access(op, 0) /\ power' = power /\ config' = config /\ irq' = irq
      BY <1>3, MainStepIs
<1>6. /\ main' # <<>> /\ Head(main')[1] = "write" => op = <<"space">>
      /\ main' # <<>> /\ Head(main') = <<"reset">> => op = <<"done">>
  <2>1. main \in Seq(UartOp) /\ Tested(main)
        BY <1>0 DEF UpList
  <2> QED BY <1>2, <2>1, TestedTail
<1> HIDE DEF op
<1>7. op[1] \in {"space", "done", "write"}
      BY <1>3, OpsDiffer
<1>8. fifo' \in Seq(Byte) /\ Len(fifo') <= FifoDepth /\ lost' \in Seq(Byte)
      BY <1>0, <1>3, <1>5, AccessTypes
<1>9. UartTypes'
      BY <1>1, <1>2, <1>5, <1>8 DEF UartTypes, U!TypeOK
<1>10. Pending' = 0
  <2>1. CASE op[1] = "space"
    <3>1. Len(fifo') < FifoDepth
          BY <1>0, <1>5, <2>1, AccessIs
    <3> QED BY <1>1, <1>2, <1>8, <3>1 DEF Pending
  <2>2. CASE op[1] # "space"
    <3>1. ~AtWrite'
          BY <1>6, <2>2 DEF AtWrite
    <3> QED BY <3>1 DEF Pending
  <2> QED BY <2>1, <2>2
<1>11. Losses'
  <2>1. CASE lost' = lost
    <3>1. Pending' <= Pending
          BY <1>10 DEF Pending
    <3> QED BY <1>0, <1>2, <2>1, <3>1, LossesStay
  <2>2. CASE lost' # lost
    <3>1. op[1] = "write" /\ ~(Len(fifo) < FifoDepth) /\ lost' = Append(lost, <<0, op[2]>>)
          BY <1>0, <1>5, <1>7, <2>2, AccessIs
    <3> DEFINE x == <<0, op[2]>>
    <3>2. x \in Byte /\ x[1] = 0
          BY <1>0, <1>3, <1>5, <3>1, AccessTypes
    <3> HIDE DEF x
    <3>3. /\ Len(lost') = Len(lost) + 1 /\ lost'[Len(lost) + 1] = x
          /\ \A i \in 1 .. Len(lost) : lost'[i] = lost[i]
          /\ DOMAIN lost = 1 .. Len(lost) /\ DOMAIN lost' = 1 .. Len(lost')
          BY <1>1, <1>8, <3>1, <3>2, AppendProperties DEF x
    <3>4. Pending = 1
      <4>1. AtWrite
            BY <1>2, <3>1 DEF AtWrite, op
      <4> QED BY <1>1, <3>1, <4>1 DEF Pending
    <3>5. Len(lost) + 1 <= interrupts /\ \A i \in 1 .. Len(lost) : lost[i][1] = 0
          BY <1>0, <3>3, <3>4 DEF Losses
    <3>6. \A i \in DOMAIN lost' : lost'[i][1] = 0
      <4>1. ASSUME NEW i \in DOMAIN lost' PROVE lost'[i][1] = 0
        <5>1. i \in 1 .. Len(lost) \/ i = Len(lost) + 1
              BY <1>1, <3>3
        <5> QED BY <3>2, <3>3, <3>5, <5>1
      <4> QED BY <4>1
    <3> QED BY <1>1, <1>2, <1>10, <3>3, <3>5, <3>6 DEF Losses
  <2> QED BY <2>1, <2>2
<1>12. Flushed'
  <2>1. ASSUME main' # <<>>, Head(main') = <<"reset">>
        PROVE  \A i \in DOMAIN fifo' : fifo'[i][1] # 0
    <3>1. op[1] = "done"
          BY <1>6, <2>1
    <3>2. fifo' = <<>>
          BY <1>0, <1>5, <3>1, AccessIs
    <3> QED BY <3>2
  <2> QED BY <2>1 DEF Flushed
<1>13. U!MessagesWhole'
  <2>1. CASE fifo' = fifo
    <3>1. U!Output' = U!Output
          BY <1>2, <2>1, Zenon DEF U!Output
    <3> QED BY <1>0, <1>2, <3>1, MessagesStay
  <2>2. CASE fifo' # fifo
    <3>1. op[1] = "write" /\ Len(fifo) < FifoDepth
          BY <1>0, <1>5, <1>7, <2>2, AccessIs
    <3>2. \E x \in Byte : U!Output' = Append(U!Output, x)
          BY <1>0, <1>2, <1>3, <1>5, <3>1, AccessTypes
    <3> QED BY <1>0, <1>2, <3>2, MessagesStay
  <2> QED BY <2>1, <2>2
<1> QED BY <1>0, <1>2, <1>4, <1>5, <1>9, <1>11, <1>12, <1>13 DEF Up

\* A handler that has printed w characters tests for space, or writes the next.
LEMMA HandlerStep ==
    ASSUME UartTypes, Up, NEW w \in Nat, Handling(w), U!IsrStep
    PROVE  /\ UartTypes' /\ isr # <<>> /\ isr' \in Seq(UartOp)
           /\ \/ Head(isr) = <<"space">> /\ isr' # <<>> /\ Handling(w)' /\ fifo' = fifo
              \/ /\ w + 1 < Len(MsgLine) /\ isr' # <<>> /\ Handling(w + 1)'
                 /\ fifo' = Append(fifo, <<interrupts, MsgLine[w + 1]>>)
              \/ /\ w + 1 = Len(MsgLine) /\ isr' = <<>> /\ EndsWith(U!Output', interrupts, w + 1)
                 /\ fifo' = Append(fifo, <<interrupts, MsgLine[w + 1]>>)
           /\ lost' = lost
           /\ \/ U!Output' = U!Output
              \/ \E x \in Byte : U!Output' = Append(U!Output, x)
<1> DEFINE L == Len(MsgLine)
           r == Len(isr)
           op == Head(isr)
           t == Tail(isr)
<1>0. /\ power = "active" /\ config = {"ENABLE", "TX_ENABLE"}
      /\ FifoDepth \in Nat \ {0} /\ Len(fifo) \in Nat /\ interrupts \in Nat
      /\ fifo \in Seq(Byte) /\ sent \in Seq(Byte) /\ lost \in Seq(Byte)
      BY UartAssumption DEF Up, UartTypes, U!TypeOK
<1>1. /\ isr # <<>> /\ U!Access(op, interrupts) /\ isr' = t
      /\ main' = main /\ power' = power /\ config' = config /\ irq' = irq
      /\ interrupts' = interrupts /\ sent' = sent
      BY Zenon DEF U!IsrStep
<1>2. /\ w \in 0 .. (L - 1) /\ interrupts >= 1 /\ isr \in Seq(UartOp)
      /\ \/ r = 2 * (L - w)
         \/ r = 2 * (L - w) - 1 /\ Len(fifo) < FifoDepth
      /\ \A q \in 1 .. r : isr[q] = MsgOps[(Len(MsgOps) - r) + q]
      /\ EndsWith(U!Output, interrupts, w)
      BY DEF Handling
<1>3. /\ L \in Nat \ {0} /\ Len(MsgOps) = 2 * L
      /\ \A j \in 1 .. L : /\ MsgLine[j] \in Char
                           /\ MsgOps[2 * j - 1] = <<"space">>
                           /\ MsgOps[2 * j] = <<"write", MsgLine[j]>>
      BY MessageIs
<1>4. /\ r \in Nat \ {0} /\ op = isr[1]
      /\ t \in Seq(UartOp) /\ Len(t) = r - 1
      /\ \A q \in 1 .. (r - 1) : t[q] = isr[q + 1]
      /\ r = 1 => t = <<>>
      BY <1>1, <1>2, TailOf
<1> HIDE DEF L, r, op, t
<1>5. w + 1 \in 1 .. L /\ 1 \in 1 .. r
      BY <1>2, <1>3, <1>4
<1>6. op = MsgOps[(2 * L - r) + 1]
      BY <1>2, <1>3, <1>4, <1>5
<1>7. \A q \in 1 .. Len(t) : t[q] = MsgOps[(Len(MsgOps) - Len(t)) + q]
  <2>1. ASSUME NEW q \in 1 .. Len(t) PROVE t[q] = MsgOps[(Len(MsgOps) - Len(t)) + q]
    <3>0. r \in Nat /\ Len(t) = r - 1 /\ L \in Nat /\ Len(MsgOps) = 2 * L
          BY <1>3, <1>4
    <3>1. /\ q \in 1 .. (r - 1) /\ q + 1 \in 1 .. r
          /\ (Len(MsgOps) - Len(t)) + q = (Len(MsgOps) - r) + (q + 1)
          BY <3>0
    <3> QED BY <1>2, <1>4, <3>1
  <2> QED BY <2>1
<1>8. U!Output \in Seq(Byte)
      BY <1>0, ConcatProperties DEF U!Output
<1>9. CASE r = 2 * (L - w)
  <2>1. (2 * L - r) + 1 = 2 * (w + 1) - 1 /\ Len(t) = 2 * (L - w) - 1 /\ Len(t) # 0
        BY <1>2, <1>3, <1>4, <1>9
  <2>2. op = <<"space">>
        BY <1>3, <1>5, <1>6, <2>1
  <2>3. op \in PrintOp /\ op[1] = "space"
        BY <2>2 DEF PrintOp
  <2>4. Len(fifo) < FifoDepth /\ fifo' = fifo /\ lost' = lost
        BY <1>0, <1>1, <2>3, AccessIs
  <2>5. U!Output' = U!Output
        BY <1>1, <2>4, Zenon DEF U!Output
  <2>6. UartTypes'
        BY <1>1, <2>4 DEF UartTypes, U!TypeOK
  <2>7. t # <<>>
        BY <2>1, EmptySeq
  <2>8. EndsWith(U!Output', interrupts', w)
        BY <1>1, <1>2, <2>5, Zenon
  <2>9. Handling(w)'
    <3>1. Len(isr') = 2 * (L - w) - 1 /\ Len(fifo') < FifoDepth
          BY <1>1, <2>1, <2>4
    <3>2. \A q \in 1 .. Len(isr') : isr'[q] = MsgOps[(Len(MsgOps) - Len(isr')) + q]
          BY <1>1, <1>7, Zenon
    <3>3. interrupts' >= 1 /\ isr' \in Seq(UartOp) /\ w \in 0 .. (L - 1)
          BY <1>1, <1>2, <1>4
    <3> QED BY <2>8, <3>1, <3>2, <3>3, Zenon DEF Handling, L
  <2> QED BY <1>1, <1>4, <2>2, <2>4, <2>5, <2>6, <2>7, <2>9 DEF op
<1>10. CASE r = 2 * (L - w) - 1 /\ Len(fifo) < FifoDepth
  <2> DEFINE x == <<interrupts, MsgLine[w + 1]>>
  <2>1. (2 * L - r) + 1 = 2 * (w + 1) /\ Len(t) = 2 * (L - (w + 1))
        BY <1>2, <1>3, <1>4, <1>10, SMTT(40)
  <2>2. op = <<"write", MsgLine[w + 1]>>
        BY <1>3, <1>5, <1>6, <2>1
  <2>3. op \in PrintOp /\ op[1] = "write" /\ op[2] = MsgLine[w + 1]
    <3>1. MsgLine[w + 1] \in Char
          BY <1>3, <1>5
    <3> QED BY <2>2, <3>1 DEF PrintOp
  <2>4. fifo' = Append(fifo, x) /\ lost' = lost
    <3>1. fifo' = Append(fifo, <<interrupts, op[2]>>) /\ lost' = lost
          BY <1>0, <1>1, <1>10, <2>3, AccessIs
    <3> QED BY <2>3, <3>1, Zenon
  <2>5. /\ fifo' \in Seq(Byte) /\ Len(fifo') <= FifoDepth /\ x \in Byte
        /\ U!Output' = Append(U!Output, x)
    <3>1. /\ fifo' \in Seq(Byte) /\ Len(fifo') <= FifoDepth /\ <<interrupts, op[2]>> \in Byte
          /\ U!Output' = Append(U!Output, <<interrupts, op[2]>>)
          BY <1>0, <1>1, <1>10, <2>3, AccessTypes
    <3> QED BY <2>3, <3>1, Zenon
  <2>6. UartTypes'
        BY <1>0, <1>1, <2>4, <2>5 DEF UartTypes, U!TypeOK
  <2>7. EndsWith(U!Output', interrupts, w + 1)
    <3>1. w \in 0 .. (Len(MsgLine) - 1)
          BY <1>2 DEF L
    <3>2. EndsWith(Append(U!Output, x), interrupts, w + 1)
          BY <1>0, <1>2, <1>8, <3>1, LineGrows
    <3> QED BY <2>5, <3>2, Zenon
  <2> HIDE DEF x
  <2>8. CASE w + 1 = L
    <3>1. Len(t) = 0
          BY <1>3, <2>1, <2>8
    <3>2. t = <<>>
          BY <1>4, <3>1, EmptySeq
    <3>3. isr' = <<>> /\ isr' \in Seq(UartOp)
          BY <1>1, <1>4, <3>2
    <3>4. \E y \in Byte : U!Output' = Append(U!Output, y)
          BY <2>5
    <3> QED BY <1>1, <2>4, <2>6, <2>7, <2>8, <3>3, <3>4, Zenon DEF x, L
  <2>9. CASE w + 1 # L
    <3>1. w + 1 < L /\ Len(t) # 0 /\ w + 1 \in 0 .. (L - 1)
          BY <1>2, <1>3, <2>1, <2>9
    <3>2. t # <<>>
          BY <3>1, EmptySeq
    <3>3. isr' # <<>> /\ isr' \in Seq(UartOp) /\ Len(isr') = 2 * (L - (w + 1))
          BY <1>1, <1>4, <2>1, <3>2
    <3>4. \A q \in 1 .. Len(isr') : isr'[q] = MsgOps[(Len(MsgOps) - Len(isr')) + q]
          BY <1>1, <1>7, Zenon
    <3>5. interrupts' >= 1 /\ EndsWith(U!Output', interrupts', w + 1)
          BY <1>1, <1>2, <2>7
    <3>6. Handling(w + 1)'
          BY <3>1, <3>3, <3>4, <3>5, Zenon DEF Handling, L
    <3>7. \E y \in Byte : U!Output' = Append(U!Output, y)
          BY <2>5
    <3> QED BY <1>1, <2>4, <2>6, <3>1, <3>3, <3>6, <3>7, Zenon DEF x, L
  <2> QED BY <2>8, <2>9
<1> QED BY <1>2, <1>9, <1>10

\* An access of a handler.
LEMMA UpIsrStep ==
    ASSUME UartTypes, Up, U!IsrStep
    PROVE  UartTypes' /\ Up'
<1>0. /\ irq = TRUE /\ power = "active" /\ config = {"ENABLE", "TX_ENABLE"}
      /\ UpList(main) /\ Losses /\ Flushed /\ U!MessagesWhole
      /\ isr # <<>> => \E w \in Nat : Handling(w)
      BY DEF Up
<1>1. /\ isr # <<>> /\ main' = main /\ power' = power /\ config' = config /\ irq' = irq
      /\ interrupts' = interrupts /\ sent' = sent
      BY Zenon DEF U!IsrStep
<1>2. PICK w \in Nat : Handling(w)
      BY <1>0, <1>1
<1>3. /\ fifo \in Seq(Byte) /\ Len(fifo) \in Nat /\ FifoDepth \in Nat /\ interrupts \in Nat
      /\ sent \in Seq(Byte)
      BY UartAssumption DEF UartTypes, U!TypeOK
<1>4. interrupts >= 1 /\ w \in 0 .. (Len(MsgLine) - 1)
      BY <1>2 DEF Handling
<1>5. /\ UartTypes' /\ lost' = lost
      /\ \/ Head(isr) = <<"space">> /\ isr' # <<>> /\ Handling(w)' /\ fifo' = fifo
         \/ /\ w + 1 < Len(MsgLine) /\ isr' # <<>> /\ Handling(w + 1)'
            /\ fifo' = Append(fifo, <<interrupts, MsgLine[w + 1]>>)
         \/ /\ w + 1 = Len(MsgLine) /\ isr' = <<>> /\ EndsWith(U!Output', interrupts, w + 1)
            /\ fifo' = Append(fifo, <<interrupts, MsgLine[w + 1]>>)
      /\ \/ U!Output' = U!Output
         \/ \E x \in Byte : U!Output' = Append(U!Output, x)
      BY <1>1, <1>2, HandlerStep
<1>6. UpList(main')
      BY <1>0, <1>1
<1>7. Losses'
  <2>1. Pending' <= Pending
    <3>1. AtWrite' <=> AtWrite
          BY <1>1 DEF AtWrite
    <3>2. /\ Pending = IF AtWrite THEN 1 ELSE 0
          /\ Pending' \in {0, 1} /\ (~AtWrite' => Pending' = 0)
          BY <1>1 DEF Pending
    <3> QED BY <3>1, <3>2
  <2> QED BY <1>0, <1>1, <1>5, <2>1, LossesStay
<1>8. Flushed'
  <2>1. ASSUME main # <<>>, Head(main) = <<"reset">>, NEW i \in DOMAIN fifo'
        PROVE  fifo'[i][1] # 0
    <3>1. \A j \in DOMAIN fifo : fifo[j][1] # 0
          BY <1>0, <2>1 DEF Flushed
    <3>2. CASE fifo' = fifo
          BY <2>1, <3>1, <3>2
    <3>3. CASE fifo' = Append(fifo, <<interrupts, MsgLine[w + 1]>>)
      <4> DEFINE x == <<interrupts, MsgLine[w + 1]>>
      <4>1. w + 1 \in 1 .. Len(MsgLine)
            BY <1>4, MessageIs
      <4>2. x \in Byte /\ x[1] # 0
            BY <1>3, <1>4, <4>1, MessageIs DEF Byte
      <4> HIDE DEF x
      <4>3. /\ Len(fifo') = Len(fifo) + 1 /\ fifo'[Len(fifo) + 1] = x /\ fifo' \in Seq(Byte)
            /\ \A j \in 1 .. Len(fifo) : fifo'[j] = fifo[j]
            BY <1>3, <3>3, <4>2, AppendProperties DEF x
      <4>4. i \in 1 .. Len(fifo) + 1 /\ DOMAIN fifo = 1 .. Len(fifo)
            BY <1>3, <2>1, <4>3
      <4>5. CASE i = Len(fifo) + 1
            BY <4>2, <4>3, <4>5
      <4>6. CASE i # Len(fifo) + 1
        <5>1. i \in 1 .. Len(fifo)
              BY <1>3, <4>4, <4>6
        <5> QED BY <3>1, <4>3, <4>4, <5>1
      <4> QED BY <4>5, <4>6
    <3> QED BY <1>5, <3>2, <3>3
  <2> QED BY <1>1, <2>1 DEF Flushed
<1>9. isr' # <<>> => \E v \in Nat : Handling(v)'
  <2>1. w + 1 \in Nat
        OBVIOUS
  <2> QED BY <1>5, <2>1, Zenon
<1>10. U!MessagesWhole'
  <2>1. CASE isr' # <<>>
        BY <1>0, <1>1, <1>5, <2>1, MessagesStay
  <2>2. CASE isr' = <<>>
    <3> DEFINE o == U!Output
    <3>1. o \in Seq(Byte) /\ o' \in Seq(Byte)
      <4>1. fifo' \in Seq(Byte) /\ sent' \in Seq(Byte)
            BY <1>5 DEF UartTypes
      <4> QED BY <1>3, <4>1, ConcatProperties DEF U!Output
    <3>2. \A n \in 1 .. interrupts : n # interrupts => Whole(n, o)
          BY <1>0, Zenon DEF U!MessagesWhole, Whole, MsgLine
    <3> HIDE DEF o
    <3>3. \A n \in 1 .. interrupts : n # interrupts => Whole(n, o')
      <4>1. CASE o' = o
            BY <3>2, <4>1
      <4>2. CASE \E x \in Byte : o' = Append(o, x)
            BY <3>1, <3>2, <4>2, WholeStays
      <4> QED BY <1>5, <4>1, <4>2 DEF o
    <3>4. EndsWith(o', interrupts, Len(MsgLine))
          BY <1>5, <2>2, Zenon DEF o
    <3>5. Whole(interrupts, o')
          BY <3>1, <3>4, LineIsWhole
    <3>6. \A n \in 1 .. interrupts' : Whole(n, o')
          BY <1>1, <3>3, <3>5, Zenon
    <3> QED BY <3>6, Zenon DEF U!MessagesWhole, Whole, MsgLine, o
  <2> QED BY <2>1, <2>2
<1> QED BY <1>0, <1>1, <1>5, <1>6, <1>7, <1>8, <1>9, <1>10 DEF Up

\* A handler begins.
LEMMA UpInterrupt ==
    ASSUME UartTypes, Up, U!Interrupt
    PROVE  UartTypes' /\ Up'
<1>0. /\ irq = TRUE /\ power = "active" /\ config = {"ENABLE", "TX_ENABLE"}
      /\ UpList(main) /\ Losses /\ Flushed /\ U!MessagesWhole
      BY DEF Up
<1>1. /\ isr = <<>> /\ isr' = MsgOps /\ interrupts' = interrupts + 1 /\ interrupts < MaxInterrupts
      /\ main' = main /\ power' = power /\ config' = config /\ irq' = irq
      /\ fifo' = fifo /\ sent' = sent /\ lost' = lost
      BY DEF U!Interrupt, MsgOps
<1>2. /\ interrupts \in Nat /\ MaxInterrupts \in Nat /\ interrupts \in 0 .. MaxInterrupts
      /\ fifo \in Seq(Byte) /\ sent \in Seq(Byte) /\ Len(lost) \in Nat
      BY UartAssumption DEF UartTypes, U!TypeOK
<1>3. U!Output' = U!Output /\ U!Output \in Seq(Byte)
  <2>1. U!Output' = U!Output
        BY <1>1, Zenon DEF U!Output
  <2> QED BY <1>2, <2>1, ConcatProperties DEF U!Output
<1>4. /\ Len(MsgLine) \in Nat \ {0} /\ MsgOps \in Seq(UartOp) /\ Len(MsgOps) = 2 * Len(MsgLine)
      BY MessageIs
<1>5. UartTypes'
  <2>1. interrupts + 1 \in 0 .. MaxInterrupts
        BY <1>1, <1>2
  <2> QED BY <1>1, <2>1 DEF UartTypes, U!TypeOK
<1>6. Losses'
  <2>1. Pending \in {0, 1} /\ Pending' \in {0, 1}
        BY DEF Pending
  <2>2. Len(lost) + Pending <= interrupts
        BY <1>0 DEF Losses
  <2>3. Len(lost) + Pending' <= interrupts + 1
        BY <1>2, <2>1, <2>2
  <2> QED BY <1>0, <1>1, <2>3 DEF Losses
<1>7. Handling(0)'
  <2>1. /\ 0 \in 0 .. (Len(MsgLine) - 1) /\ interrupts' >= 1 /\ isr' \in Seq(UartOp)
        /\ Len(isr') = 2 * (Len(MsgLine) - 0)
        BY <1>1, <1>2, <1>4
  <2>2. \A q \in 1 .. Len(isr') : isr'[q] = MsgOps[(Len(MsgOps) - Len(isr')) + q]
    <3>1. ASSUME NEW q \in 1 .. Len(isr') PROVE isr'[q] = MsgOps[(Len(MsgOps) - Len(isr')) + q]
      <4>1. Len(MsgOps) \in Nat
            BY <1>4
      <4>2. Len(isr') = Len(MsgOps)
            BY <1>1
      <4>3. (Len(MsgOps) - Len(isr')) + q = q
            BY <4>1, <4>2
      <4> QED BY <1>1, <4>3, Zenon
    <3> QED BY <3>1
  <2>3. EndsWith(U!Output', interrupts', 0)
    <3>1. 0 <= Len(U!Output')
          BY <1>3
    <3>2. \A j : ~(j \in 1 .. 0)
          OBVIOUS
    <3> QED BY <3>1, <3>2, Zenon DEF EndsWith
  <2> QED BY <2>1, <2>2, <2>3, Zenon DEF Handling
<1>8. U!MessagesWhole'
  <2>1. \A n \in 1 .. interrupts : Whole(n, U!Output)
        BY <1>0, <1>1, Zenon DEF U!MessagesWhole, Whole, MsgLine
  <2>2. MsgOps # <<>>
    <3>1. Len(MsgOps) # 0
          BY <1>4
    <3> QED BY <3>1, EmptySeq
  <2>3. ASSUME NEW n \in 1 .. interrupts', n = interrupts' => isr' = <<>>
        PROVE  Whole(n, U!Output')
    <3>1. n \in 1 .. interrupts
          BY <1>1, <1>2, <2>2, <2>3
    <3> QED BY <1>3, <2>1, <3>1, Zenon
  <2> QED BY <2>3, Zenon DEF U!MessagesWhole, Whole, MsgLine
<1>9. Flushed'
      BY <1>0, <1>1 DEF Flushed
<1>10. 0 \in Nat
       OBVIOUS
<1>11. isr' # <<>> => \E v \in Nat : Handling(v)'
       BY <1>7, <1>10, Zenon
<1> QED BY <1>0, <1>1, <1>5, <1>6, <1>8, <1>9, <1>11 DEF Up

\* A byte goes out.
LEMMA TransmitStep ==
    ASSUME UartInv, U!Transmit
    PROVE  UartInv'
<1>1. /\ fifo # <<>> /\ sent' = Append(sent, Head(fifo)) /\ fifo' = Tail(fifo)
      /\ main' = main /\ isr' = isr /\ power' = power /\ config' = config /\ irq' = irq
      /\ interrupts' = interrupts /\ lost' = lost
      BY DEF U!Transmit
<1>2. /\ fifo \in Seq(Byte) /\ sent \in Seq(Byte) /\ lost \in Seq(Byte) /\ UartTypes
      /\ FifoDepth \in Nat /\ Len(fifo) <= FifoDepth
      BY UartAssumption DEF UartInv, UartTypes, U!TypeOK
<1>3. /\ Len(fifo) \in Nat \ {0} /\ Head(fifo) = fifo[1] /\ fifo[1] \in Byte
      /\ fifo' \in Seq(Byte) /\ Len(fifo') = Len(fifo) - 1
      /\ \A q \in 1 .. (Len(fifo) - 1) : fifo'[q] = fifo[q + 1]
      BY <1>1, <1>2, TailOf
<1>4. sent' \in Seq(Byte)
      BY <1>1, <1>2, <1>3, AppendProperties
<1>5. UartTypes'
  <2>1. Len(fifo') <= FifoDepth
        BY <1>2, <1>3
  <2> QED BY <1>1, <1>2, <1>3, <1>4, <2>1 DEF UartTypes, U!TypeOK
<1>6. U!Output' = U!Output
  <2>1. Append(sent, Head(fifo)) \o Tail(fifo) = sent \o fifo
        BY <1>1, <1>2, ByteGoesOut
  <2> QED BY <1>1, <2>1, Zenon DEF U!Output
<1>7. Len(fifo) < FifoDepth => Len(fifo') < FifoDepth
      BY <1>2, <1>3
<1>8. CASE \E k \in 0 .. 4 : StillBooting(k)
  <2>1. PICK k \in 0 .. 4 : StillBooting(k)
        BY <1>8
  <2>2. StillBooting(k)'
        BY <1>1, <1>7, <2>1 DEF StillBooting, Powered
  <2> QED BY <1>5, <2>2 DEF UartInv
<1>9. CASE Up
  <2>0. /\ irq = TRUE /\ power = "active" /\ config = {"ENABLE", "TX_ENABLE"}
        /\ UpList(main) /\ Losses /\ Flushed /\ U!MessagesWhole
        /\ isr # <<>> => \E w \in Nat : Handling(w)
        BY <1>9 DEF Up
  <2>1. Losses'
    <3>1. Pending' <= Pending
      <4>1. AtWrite' <=> AtWrite
            BY <1>1 DEF AtWrite
      <4>2. Len(fifo') >= FifoDepth => Len(fifo) >= FifoDepth
            BY <1>2, <1>3
      <4> QED BY <1>1, <4>1, <4>2 DEF Pending
    <3> QED BY <1>1, <1>2, <2>0, <3>1, LossesStay
  <2>2. Flushed'
    <3>1. ASSUME main # <<>>, Head(main) = <<"reset">>, NEW i \in DOMAIN fifo'
          PROVE  fifo'[i][1] # 0
      <4>1. \A j \in DOMAIN fifo : fifo[j][1] # 0
            BY <2>0, <3>1 DEF Flushed
      <4>2. DOMAIN fifo = 1 .. Len(fifo) /\ DOMAIN fifo' = 1 .. Len(fifo')
            BY <1>2, <1>3
      <4>3. i \in 1 .. (Len(fifo) - 1) /\ i + 1 \in DOMAIN fifo
            BY <1>3, <3>1, <4>2
      <4> QED BY <1>3, <4>1, <4>3
    <3> QED BY <1>1, <3>1 DEF Flushed
  <2>3. ASSUME isr # <<>> PROVE \E w \in Nat : Handling(w)'
    <3>1. PICK w \in Nat : Handling(w)
          BY <2>0, <2>3
    <3>2. Handling(w)'
      <4>1. EndsWith(U!Output', interrupts', w)
            BY <1>1, <1>6, <3>1, Zenon DEF Handling
      <4> QED BY <1>1, <1>7, <3>1, <4>1 DEF Handling
    <3> QED BY <3>2
  <2>4. U!MessagesWhole'
        BY <1>1, <1>2, <1>6, <2>0, MessagesStay
  <2> QED BY <1>1, <1>5, <2>0, <2>1, <2>2, <2>3, <2>4 DEF UartInv, Up
<1> QED BY <1>8, <1>9 DEF UartInv

\* The UART leaves its reset, which main waits for.
LEMMA PowerUpStep ==
    ASSUME UartInv, U!PowerUp
    PROVE  UartInv'
<1>1. /\ power = "reset" /\ power' = "active" /\ fifo' = <<>>
      /\ main' = main /\ isr' = isr /\ config' = config /\ irq' = irq
      /\ interrupts' = interrupts /\ sent' = sent /\ lost' = lost
      BY DEF U!PowerUp
<1>2. PICK k \in 0 .. 4 : StillBooting(k)
      BY <1>1 DEF UartInv, Up
<1>3. FifoDepth \in Nat \ {0} /\ Len(<<>>) = 0 /\ <<>> \in Seq(Byte)
      BY UartAssumption
<1>4. UartTypes'
      BY <1>1, <1>3 DEF UartInv, UartTypes, U!TypeOK
<1>5. StillBooting(k)'
      BY <1>1, <1>2, <1>3 DEF StillBooting, Powered
<1> QED BY <1>4, <1>5 DEF UartInv

\* The loop of main, and its reset.
LEMMA PollStep ==
    ASSUME UartInv, U!Polls
    PROVE  UartInv'
<1>1. /\ main = <<>> /\ main' \in {U!buttonOps, U!doneOps}
      /\ isr = <<>> /\ isr' = isr /\ power' = power /\ config' = config /\ irq' = irq
      /\ interrupts' = interrupts /\ fifo' = fifo /\ sent' = sent /\ lost' = lost
      BY Zenon DEF U!Polls
<1>2. Up
  <2>1. ASSUME NEW k \in 0 .. 4, StillBooting(k) PROVE FALSE
        BY <1>1, <2>1, BootTail DEF StillBooting
  <2> QED BY <2>1 DEF UartInv
<1>3. UpList(main') /\ (main' # <<>> => Head(main')[1] # "write")
      BY <1>1, ButtonPrints, DonePrints
<1>4. U!Output' = U!Output
      BY <1>1, Zenon DEF U!Output
<1>5. UartTypes'
      BY <1>1 DEF UartInv, UartTypes, U!TypeOK
<1>6. UartTypes /\ Losses /\ Flushed /\ U!MessagesWhole
      BY <1>2 DEF Up, UartInv
<1>7. Losses'
  <2>1. Pending' = 0 /\ Pending = 0
        BY <1>1, <1>3 DEF Pending, AtWrite
  <2> QED BY <1>1, <1>6, <2>1, LossesStay
<1>8. Flushed'
  <2>1. ASSUME main' # <<>> PROVE Head(main') # <<"reset">>
    <3>1. CASE main' = U!doneOps
      <4>1. /\ U!TxString(Done) \in Seq(UartOp)
            /\ \A i \in 1 .. Len(U!TxString(Done)) : U!TxString(Done)[i] \in PrintOp
            BY StringIs
      <4>2. main' \in Seq(UartOp) /\ \A i \in 1 .. Len(main') : main'[i] \in PrintOp
            BY <3>1, <4>1, Zenon DEF U!doneOps
      <4>3. Len(main') \in Nat \ {0} /\ Head(main') = main'[1]
            BY <2>1, <4>2, TailOf
      <4>4. Head(main') \in PrintOp
            BY <4>2, <4>3
      <4>5. Head(main')[1] \in {"space", "done", "write"}
            BY <4>4, OpsDiffer
      <4> QED BY <4>5
    <3>2. CASE main' = U!buttonOps
          BY <3>2, ButtonPrints
    <3> QED BY <1>1, <3>1, <3>2
  <2> QED BY <2>1 DEF Flushed
<1>9. U!MessagesWhole'
      BY <1>1, <1>4, <1>6, MessagesStay
<1> QED BY <1>1, <1>2, <1>3, <1>5, <1>7, <1>8, <1>9 DEF UartInv, Up

LEMMA ResetStep ==
    ASSUME UartInv, U!HardReset
    PROVE  UartInv'
<1>1. /\ main' = U!bootOps /\ isr' = <<>> /\ irq' = FALSE /\ interrupts' = 0
      /\ fifo' = <<>> /\ sent' = <<>> /\ lost' = <<>>
      /\ power' = "off" /\ config' = {}
      BY DEF U!HardReset, U!Booted
<1>2. Len(<<>>) = 0 /\ <<>> \in Seq(Byte) /\ FifoDepth \in Nat \ {0} /\ MaxInterrupts \in Nat
      BY UartAssumption
<1>3. UartTypes'
      BY <1>1, <1>2 DEF UartTypes, U!TypeOK
<1>4. BootList(main', 4) /\ 4 \in 0 .. 4
      BY <1>1, BootPrints
<1>5. StillBooting(4)'
      BY <1>1, <1>2, <1>4 DEF StillBooting, Powered
<1> QED BY <1>3, <1>4, <1>5 DEF UartInv

LEMMA UartRests ==
    ASSUME UartInv, UNCHANGED uartVars
    PROVE  UartInv'
<1>1. /\ main' = main /\ isr' = isr /\ power' = power /\ config' = config /\ irq' = irq
      /\ interrupts' = interrupts /\ fifo' = fifo /\ sent' = sent /\ lost' = lost
      BY DEF uartVars
<1>2. UartTypes'
      BY <1>1 DEF UartInv, UartTypes, U!TypeOK
<1>3. ASSUME NEW k \in 0 .. 4, StillBooting(k) PROVE StillBooting(k)'
      BY <1>1, <1>3 DEF StillBooting, Powered
<1>4. ASSUME Up PROVE Up'
  <2>1. U!Output' = U!Output
        BY <1>1, Zenon DEF U!Output
  <2>2. U!MessagesWhole'
        BY <1>1, <1>4, <2>1, MessagesStay DEF UartInv, Up
  <2>3. Losses' /\ Flushed'
        BY <1>1, <1>4 DEF Losses, Flushed, Pending, AtWrite, Up
  <2>4. ASSUME NEW w \in Nat, Handling(w) PROVE Handling(w)'
        BY <1>1, <2>1, <2>4 DEF Handling
  <2> QED BY <1>1, <1>4, <2>2, <2>3, <2>4 DEF Up
<1> QED BY <1>2, <1>3, <1>4 DEF UartInv

LEMMA UartStep == UartInv /\ [U!Next]_uartVars => UartInv'
<1> SUFFICES ASSUME UartInv, [U!Next]_uartVars PROVE UartInv'
    OBVIOUS
<1>1. UartTypes
      BY DEF UartInv
<1>2. CASE U!MainStep
  <2>1. CASE \E k \in 0 .. 4 : StillBooting(k)
        BY <1>1, <1>2, <2>1, BootMainStep
  <2>2. CASE Up
        BY <1>1, <1>2, <2>2, UpMainStep DEF UartInv
  <2> QED BY <2>1, <2>2 DEF UartInv
<1>3. ASSUME NEW k \in 0 .. 4, StillBooting(k), U!Interrupt \/ U!IsrStep PROVE FALSE
  <2>1. irq = FALSE /\ isr = <<>>
        BY <1>3 DEF StillBooting
  <2>2. U!Interrupt => irq
        BY Zenon DEF U!Interrupt
  <2>3. U!IsrStep => isr # <<>>
        BY Zenon DEF U!IsrStep
  <2> QED BY <1>3, <2>1, <2>2, <2>3
<1>4. CASE U!Interrupt
  <2>1. Up
        BY <1>3, <1>4 DEF UartInv
  <2> QED BY <1>1, <1>4, <2>1, UpInterrupt DEF UartInv
<1>5. CASE U!IsrStep
  <2>1. Up
        BY <1>3, <1>5 DEF UartInv
  <2> QED BY <1>1, <1>5, <2>1, UpIsrStep DEF UartInv
<1>6. CASE U!Retry \/ UNCHANGED uartVars
  <2>1. UNCHANGED uartVars
        BY <1>6, Zenon DEF U!Retry, U!vars, uartVars
  <2> QED BY <2>1, UartRests
<1>7. CASE U!HardReset \/ U!Polls \/ U!PowerUp \/ U!Transmit
      BY <1>7, ResetStep, PollStep, PowerUpStep, TransmitStep
<1> QED BY <1>2, <1>4, <1>5, <1>6, <1>7 DEF U!Next

LEMMA UartInvariant == MCSpec => []UartInv
<1>1. UartInv /\ [MCNext]_allVars => UartInv'
  <2> SUFFICES ASSUME UartInv, [MCNext]_allVars PROVE UartInv'
      OBVIOUS
  <2>1. [U!Next]_uartVars
        BY Zenon DEF MCNext, allVars
  <2> QED BY <2>1, UartStep
<1> QED BY <1>1, UartStarts, PTL DEF MCSpec, allVars

(***************************************************************************)
(* MessagesGoOut for strings of any length and a FIFO of any depth, and any *)
(* number of interrupts: a handler's line comes out whole, main loses at    *)
(* most one byte for each interrupt, and what it printed is out before it   *)
(* resets the device (uart.c:42-82, main.c:157-159, 191-194).               *)
(***************************************************************************)
THEOREM MessagesAreKept == MCSpec => MessagesGoOut
<1>1. UartInv => U!TypeOK /\ U!LostToInterruptsOnly /\ U!MessagesWhole
  <2> SUFFICES ASSUME UartInv PROVE U!TypeOK /\ U!LostToInterruptsOnly /\ U!MessagesWhole
      OBVIOUS
  <2>1. U!TypeOK
        BY DEF UartInv, UartTypes
  <2>2. CASE \E k \in 0 .. 4 : StillBooting(k)
    <3>1. lost = <<>> /\ interrupts = 0
          BY <2>2 DEF StillBooting
    <3>2. Len(<<>>) = 0 /\ DOMAIN <<>> = {}
          OBVIOUS
    <3>3. U!LostToInterruptsOnly
          BY <3>1, <3>2 DEF U!LostToInterruptsOnly
    <3>4. U!MessagesWhole
          BY <3>1 DEF U!MessagesWhole
    <3> QED BY <2>1, <3>3, <3>4
  <2>3. CASE Up
    <3>1. /\ Len(lost) + Pending <= interrupts /\ \A i \in DOMAIN lost : lost[i][1] = 0
          /\ U!MessagesWhole
          BY <2>3 DEF Up, Losses
    <3>2. Len(lost) \in Nat /\ interrupts \in Nat /\ Pending \in {0, 1}
          BY UartAssumption DEF UartInv, UartTypes, U!TypeOK, Pending
    <3>3. Len(lost) <= interrupts
          BY <3>1, <3>2
    <3> QED BY <2>1, <3>1, <3>3 DEF U!LostToInterruptsOnly
  <2> QED BY <2>2, <2>3 DEF UartInv
<1>2. UartInv =>
        (main # <<>> /\ Head(main) = <<"reset">> /\ main' = U!bootOps
            => \A i \in DOMAIN fifo : fifo[i][1] # 0)
  <2> SUFFICES ASSUME UartInv, main # <<>>, Head(main) = <<"reset">>
               PROVE  \A i \in DOMAIN fifo : fifo[i][1] # 0
      OBVIOUS
  <2>1. Up
    <3>1. ASSUME NEW k \in 0 .. 4, StillBooting(k) PROVE FALSE
      <4>1. BootList(main, k)
            BY <3>1 DEF StillBooting
      <4>2. CASE k > 0
        <5>1. Head(main) = InitOp(5 - k)
              BY <4>1, <4>2, BootTail
        <5>2. /\ InitOp(1) = <<"power", "off">> /\ InitOp(2) = <<"power", "reset">>
              /\ InitOp(3) = <<"active">> /\ InitOp(4) = <<"config", {"ENABLE", "TX_ENABLE"}>>
              BY DEF InitOp
        <5>3. 5 - k \in {1, 2, 3, 4}
              BY <4>2
        <5>4. InitOp(5 - k)[1] \in {"power", "active", "config"}
              BY <5>2, <5>3
        <5>5. Head(main)[1] \in {"power", "active", "config"}
              BY <5>1, <5>4
        <5>6. Head(main)[1] = "reset"
              OBVIOUS
        <5> QED BY <5>5, <5>6
      <4>3. CASE k = 0
        <5>1. Head(main) \in PrintOp \/ Head(main) = <<"irq">>
              BY <4>1, <4>3, BootTail
        <5>2. Head(main)[1] \in {"space", "done", "write", "irq"}
              BY <5>1, OpsDiffer
        <5>3. Head(main)[1] = "reset"
              OBVIOUS
        <5> QED BY <5>2, <5>3
      <4> QED BY <4>2, <4>3
    <3> QED BY <3>1 DEF UartInv
  <2> QED BY <2>1 DEF Up, Flushed
<1>3. MCSpec => U!FlushedBeforeReset
  <2>1. UartInv /\ [MCNext]_allVars =>
          [main # <<>> /\ Head(main) = <<"reset">> /\ main' = U!bootOps
             => \A i \in DOMAIN fifo : fifo[i][1] # 0]_U!vars
        BY <1>2, Zenon
  <2> QED BY <2>1, UartInvariant, PTL DEF MCSpec, allVars, U!FlushedBeforeReset
<1> QED BY <1>1, <1>3, UartInvariant, PTL DEF MessagesGoOut

===============================================================================
