------------------------------- MODULE UsbProofs -------------------------------
(***************************************************************************)
(* Proofs about the USB link, for any number of events of the hardware:     *)
(*                                                                          *)
(*   - TimeoutsAreNotLate, from TimerInv: the handler stops a timer before  *)
(*     it acknowledges the timeout, wherever a list has come to;            *)
(*   - ModesAgreeAlways and FallbackStays, from ModeInv: which registers    *)
(*     of the modes main and the handler have written at each place of      *)
(*     their lists, and that nothing interrupts main between them;          *)
(*   - StrobesInOrder, from PhyInv: how far the handshake with the PHY is   *)
(*     at each strobe, and that only one of main and the handler is in it.  *)
(*                                                                          *)
(* And about the answers to requests, for any sets of values and lengths:   *)
(*                                                                          *)
(*   - DataStagesFit, from DataInv: a request is a packet of eight bytes,   *)
(*     each descriptor is as long as SetupData takes it to be, and the      *)
(*     enumeration asks only for lengths and numbers it has heard;          *)
(*   - DescriptorsWalkThrough, from the bytes of the descriptors and an     *)
(*     induction that gives meaning to the recursive walk.                  *)
(***************************************************************************)
EXTENDS MCUsb, TLAPS, SequenceTheorems, WellFoundedInduction

-----------------------------------------------------------------------------
(***************************************************************************)
(* Lists of accesses.                                                       *)
(***************************************************************************)
Rest(ops, n) == SubSeq(ops, n + 1, Len(ops))

bootOps == L!initOps \o L!connectOps

LEMMA RestOfSeq ==
    ASSUME NEW S, NEW ops \in Seq(S), NEW n \in 0 .. Len(ops)
    PROVE  /\ Rest(ops, n) \in Seq(S) /\ Len(Rest(ops, n)) = Len(ops) - n
           /\ \A i \in 1 .. (Len(ops) - n) : Rest(ops, n)[i] = ops[n + i]
<1>1. Len(ops) \in Nat
      OBVIOUS
<1> QED BY <1>1, SubSeqProperties DEF Rest

LEMMA WholeIsRest ==
    ASSUME NEW S, NEW ops \in Seq(S)
    PROVE  ops = Rest(ops, 0)
BY SubSeqFull DEF Rest

LEMMA NothingLeft ==
    ASSUME NEW S, NEW ops \in Seq(S), NEW T, NEW q \in Seq(T)
    PROVE  Rest(ops, Len(ops)) = <<>> /\ Rest(ops, Len(ops)) \o q = q
<1>1. Len(ops) \in Nat /\ Len(ops) + 1 > Len(ops)
      OBVIOUS
<1>2. Rest(ops, Len(ops)) = <<>>
      BY <1>1, SubSeqEmpty DEF Rest
<1> QED BY <1>2

LEMMA HeadTailOfConcat ==
    ASSUME NEW S, NEW s \in Seq(S), s # <<>>, NEW q \in Seq(S)
    PROVE  s \o q # <<>> /\ Head(s \o q) = Head(s) /\ Tail(s \o q) = Tail(s) \o q
<1>1. /\ s \o q \in Seq(S) /\ Len(s \o q) = Len(s) + Len(q)
      /\ \A i \in 1 .. Len(s) + Len(q) : (s \o q)[i] = IF i <= Len(s) THEN s[i] ELSE q[i - Len(s)]
      BY ConcatProperties
<1>2. Len(s) \in Nat /\ Len(q) \in Nat /\ Len(s) >= 1
      BY EmptySeq
<1>3. s \o q # <<>>
      BY <1>1, <1>2
<1>4. Head(s \o q) = Head(s)
      BY <1>1, <1>2
<1>5. /\ Tail(s) \in Seq(S) /\ Len(Tail(s)) = Len(s) - 1
      /\ \A i \in 1 .. Len(Tail(s)) : Tail(s)[i] = s[i + 1]
      BY HeadTailProperties
<1>6. /\ Tail(s \o q) \in Seq(S) /\ Len(Tail(s \o q)) = Len(s) + Len(q) - 1
      /\ \A i \in 1 .. Len(Tail(s \o q)) : Tail(s \o q)[i] = (s \o q)[i + 1]
      BY <1>1, <1>3, HeadTailProperties
<1>7. /\ Tail(s) \o q \in Seq(S) /\ Len(Tail(s) \o q) = Len(s) + Len(q) - 1
      /\ \A i \in 1 .. Len(Tail(s)) + Len(q) :
            (Tail(s) \o q)[i] = IF i <= Len(Tail(s)) THEN Tail(s)[i] ELSE q[i - Len(Tail(s))]
      BY <1>2, <1>5, ConcatProperties
<1>8. ASSUME NEW i \in 1 .. Len(Tail(s \o q))
      PROVE  Tail(s \o q)[i] = (Tail(s) \o q)[i]
  <2>1. i \in Nat /\ i >= 1 /\ i <= Len(s) + Len(q) - 1
        BY <1>2, <1>6
  <2>2. Tail(s \o q)[i] = IF i + 1 <= Len(s) THEN s[i + 1] ELSE q[(i + 1) - Len(s)]
        BY <1>1, <1>2, <1>6, <2>1
  <2>3. (Tail(s) \o q)[i] = IF i <= Len(s) - 1 THEN Tail(s)[i] ELSE q[i - (Len(s) - 1)]
        BY <1>2, <1>5, <1>7, <2>1
  <2>4. CASE i <= Len(s) - 1
        BY <1>2, <1>5, <2>1, <2>2, <2>3, <2>4
  <2>5. CASE ~(i <= Len(s) - 1)
    <3>1. (i + 1) - Len(s) = i - (Len(s) - 1)
          BY <1>2, <2>1
    <3> QED BY <1>2, <2>1, <2>2, <2>3, <2>5, <3>1
  <2> QED BY <2>4, <2>5
<1>9. Tail(s \o q) = Tail(s) \o q
      BY <1>6, <1>7, <1>8, SeqEqual
<1> QED BY <1>3, <1>4, <1>9

LEMMA TakeOne ==
    ASSUME NEW S, NEW ops \in Seq(S), NEW n \in Nat, n < Len(ops), NEW q \in Seq(S)
    PROVE  /\ Rest(ops, n) \o q # <<>>
           /\ Head(Rest(ops, n) \o q) = ops[n + 1]
           /\ Tail(Rest(ops, n) \o q) = Rest(ops, n + 1) \o q
<1> DEFINE now == Rest(ops, n)
           k == n + 1
<1>1. Len(ops) \in Nat
      OBVIOUS
<1>2. k \in 1 .. Len(ops) /\ Len(ops) \in k .. Len(ops) /\ now = SubSeq(ops, k, Len(ops))
      BY <1>1 DEF Rest
<1>3. Rest(ops, n + 1) = SubSeq(ops, k + 1, Len(ops))
      BY DEF Rest
<1>4. now \in Seq(S) /\ Len(now) = Len(ops) - n
      BY <1>1, RestOfSeq
<1> HIDE DEF k, now
<1>5. Head(now) = ops[k] /\ Tail(now) = SubSeq(ops, k + 1, Len(ops))
      BY <1>2, HeadTailOfSubSeq
<1>6. now # <<>>
      BY <1>1, <1>4
<1>7. Head(now \o q) = Head(now) /\ Tail(now \o q) = Tail(now) \o q /\ now \o q # <<>>
      BY <1>4, <1>6, HeadTailOfConcat
<1> QED BY <1>3, <1>5, <1>7 DEF k, now

-----------------------------------------------------------------------------
(***************************************************************************)
(* The accesses there are, by the registers they are on.  Those on the      *)
(* timers of the LMPs, on the events of the protocol layer and on the       *)
(* strobes of the PHY are kept apart from the others.                       *)
(***************************************************************************)
Regs == {"CORE_CLK", "OTG_CTRL", "PHY_CONF", "DEV_PWR", "CONTROL", "LTSSM", "UIB_MASK",
         "LNK_MASK", "LNK_INTR", "PROT_MASK", "PROT_INTR", "DEV_INTR", "LMP_TIMER",
         "EPM0", "PHY_REQ", "IOPOWER", "VIC"}

AccessTo(r) == {<<kind, r, bits>> : kind \in {"write", "set", "clear"}, bits \in SUBSET L!Bits[r]}

Kept == {"LMP_TIMER", "PROT_INTR", "PHY_REQ"}
Names == {"phy", "ifVbus", "save", "restore", "PROT", "LNK"}

Other == (UNION {AccessTo(r) : r \in Regs \ Kept}) \cup {L!Do(name) : name \in Names}
PhyStep == AccessTo("PHY_REQ") \cup {L!Do("acknowledged"), L!Do("released")}
StopTimer == {L!Clear("LMP_TIMER", {k}) : k \in L!Lmp}
ClearEvents == {L!Clear("PROT_INTR", bits) : bits \in SUBSET L!ProtEvent}

Quiet == Other \cup ClearEvents
MainQuiet == Quiet \cup {L!Write("LMP_TIMER", L!Lmp)}
IsrQuiet == Quiet \cup StopTimer

Op == Quiet \cup PhyStep
MainOp == Op \cup {L!Write("LMP_TIMER", L!Lmp)}
IsrOp == Op \cup StopTimer

LEMMA RegsOfBits ==
    DOMAIN L!Bits = Regs
BY DEF L!Bits, Regs

LEMMA BitsOf ==
    /\ L!Bits["LMP_TIMER"] = L!Lmp /\ L!Bits["PROT_INTR"] = L!ProtEvent
    /\ L!Bits["LNK_INTR"] = L!LnkEvent /\ L!Bits["DEV_INTR"] = L!DevEvent
    /\ L!Bits["IOPOWER"] = {"VBUS"} /\ L!Bits["VIC"] = L!Irq
    /\ L!Bits["PHY_REQ"] = {"address", "data", "write"}
BY DEF L!Bits

LEMMA ModeBits ==
    /\ L!Bits["CONTROL"] = {"USB_POWER"} /\ L!Bits["PHY_CONF"] = {"RX_TERMINATION"}
    /\ L!Bits["DEV_PWR"] = {"DISCON"} /\ L!Bits["OTG_CTRL"] = {"SSDEV", "SSEPM", "DEV"}
BY DEF L!Bits

LEMMA AccessesAreTriples ==
    ASSUME NEW r \in Regs, NEW op \in AccessTo(r)
    PROVE  /\ Len(op) = 3 /\ op[2] = r /\ op[3] \in SUBSET L!Bits[r]
           /\ op[1] \in {"write", "set", "clear"} /\ op = <<op[1], r, op[3]>>
<1>1. PICK kind \in {"write", "set", "clear"}, bits \in SUBSET L!Bits[r] : op = <<kind, r, bits>>
      BY DEF AccessTo
<1> QED BY <1>1

LEMMA DosAreShort ==
    ASSUME NEW name
    PROVE  /\ Len(L!Do(name)) = 1 /\ L!Do(name)[1] = name
           /\ \A kind, r, bits : L!Do(name) # <<kind, r, bits>>
<1>1. Len(L!Do(name)) = 1 /\ L!Do(name)[1] = name
      BY DEF L!Do
<1>2. ASSUME NEW kind, NEW r, NEW bits PROVE L!Do(name) # <<kind, r, bits>>
  <2>1. Len(<<kind, r, bits>>) = 3
        OBVIOUS
  <2> QED BY <1>1, <2>1
<1> QED BY <1>1, <1>2

\* The three effects of an access.
Accessed(op) ==
    CASE op[1] = "write" -> op[3]
      [] op[1] = "set"   -> reg[op[2]] \cup op[3]
      [] op[1] = "clear" -> reg[op[2]] \ op[3]

Typed == reg = [r \in Regs |-> reg[r]] /\ \A r \in Regs : reg[r] \subseteq L!Bits[r]

LEMMA FewBits ==
    ASSUME Typed
    PROVE  /\ reg["CONTROL"] \subseteq {"USB_POWER"} /\ reg["PHY_CONF"] \subseteq {"RX_TERMINATION"}
           /\ reg["DEV_PWR"] \subseteq {"DISCON"}
           /\ reg["OTG_CTRL"] \subseteq {"SSDEV", "SSEPM", "DEV"}
BY ModeBits DEF Typed, Regs

LEMMA AccessEffect ==
    ASSUME Typed, NEW r \in Regs, NEW op, op[2] = r, L!Access(op)
    PROVE  /\ reg' = [r2 \in Regs |-> reg'[r2]]
           /\ reg'[r] = Accessed(op)
           /\ \A r2 \in Regs \ {r} : reg'[r2] = reg[r2]
<1>1. reg' = [reg EXCEPT ![r] = Accessed(op)]
      BY DEF L!Access, Accessed
<1> HIDE DEF Accessed
<1> QED BY <1>1 DEF Typed

LEMMA AccessTyped ==
    ASSUME Typed, NEW r \in Regs, NEW op \in AccessTo(r), L!Access(op)
    PROVE  Typed'
<1>1. op[2] = r /\ op[3] \in SUBSET L!Bits[r] /\ op[1] \in {"write", "set", "clear"}
      BY AccessesAreTriples
<1>2. /\ reg' = [r2 \in Regs |-> reg'[r2]] /\ reg'[r] = Accessed(op)
      /\ \A r2 \in Regs \ {r} : reg'[r2] = reg[r2]
      BY <1>1, AccessEffect
<1>3. Accessed(op) \subseteq L!Bits[r]
      BY <1>1 DEF Accessed, Typed
<1> QED BY <1>2, <1>3 DEF Typed

-----------------------------------------------------------------------------
(***************************************************************************)
(* What main and the handlers execute.                                      *)
(***************************************************************************)
LEMMA TriplesAreAccesses ==
    ASSUME NEW r, NEW bits \in SUBSET L!Bits[r]
    PROVE  /\ L!Write(r, bits) \in AccessTo(r) /\ L!Set(r, bits) \in AccessTo(r)
           /\ L!Clear(r, bits) \in AccessTo(r)
<1>1. /\ <<"write", r, bits>> \in AccessTo(r) /\ <<"set", r, bits>> \in AccessTo(r)
      /\ <<"clear", r, bits>> \in AccessTo(r)
      BY DEF AccessTo
<1> QED BY <1>1 DEF L!Write, L!Set, L!Clear

LEMMA OtherOps ==
    ASSUME NEW r \in Regs \ Kept, NEW bits \in SUBSET L!Bits[r]
    PROVE  L!Write(r, bits) \in Other /\ L!Set(r, bits) \in Other /\ L!Clear(r, bits) \in Other
BY TriplesAreAccesses DEF Other

LEMMA OpsAreOps ==
    /\ Other \subseteq Quiet /\ Quiet \subseteq Op /\ Other \subseteq Op
    /\ PhyStep \subseteq Op /\ Op \subseteq MainOp /\ Op \subseteq IsrOp
    /\ Quiet \subseteq MainQuiet /\ Quiet \subseteq IsrQuiet
    /\ MainQuiet \subseteq MainOp /\ IsrQuiet \subseteq IsrOp
BY DEF Quiet, MainQuiet, IsrQuiet, Op, MainOp, IsrOp

LEMMA ClockOpsAreOps ==
    ASSUME NEW sources \in SUBSET L!Bits["CORE_CLK"]
    PROVE  L!clockOps(sources) \in Seq(Other)
<1>1. "CORE_CLK" \in Regs \ Kept /\ {"EN"} \in SUBSET L!Bits["CORE_CLK"]
      BY DEF Regs, Kept, L!Bits
<1>2. /\ L!Clear("CORE_CLK", {"EN"}) \in Other /\ L!Write("CORE_CLK", sources) \in Other
      /\ L!Set("CORE_CLK", {"EN"}) \in Other
      BY <1>1, OtherOps
<1> QED BY <1>2 DEF L!clockOps

LEMMA PhyOpsAreSteps ==
    L!phyOps \in Seq(PhyStep)
<1>1. ASSUME NEW bit \in {"address", "data", "write"} PROVE L!strobeOps(bit) \in Seq(PhyStep)
  <2>1. {bit} \in SUBSET L!Bits["PHY_REQ"] /\ {} \in SUBSET L!Bits["PHY_REQ"]
        BY BitsOf
  <2>2. L!Do("acknowledged") \in PhyStep /\ L!Do("released") \in PhyStep
        BY DEF PhyStep
  <2>3. L!Write("PHY_REQ", {bit}) \in PhyStep /\ L!Write("PHY_REQ", {}) \in PhyStep
        BY <2>1, TriplesAreAccesses DEF PhyStep
  <2> QED BY <2>2, <2>3 DEF L!strobeOps
<1>2. /\ L!strobeOps("address") \in Seq(PhyStep) /\ L!strobeOps("data") \in Seq(PhyStep)
      /\ L!strobeOps("write") \in Seq(PhyStep)
      BY <1>1
<1> QED BY <1>2, ConcatProperties DEF L!phyOps

LEMMA OpsOfBoot ==
    /\ L!Write("CONTROL", {}) \in Quiet
    /\ L!Write("OTG_CTRL", {}) \in Quiet
    /\ L!Set("DEV_PWR", {"DISCON"}) \in Quiet
    /\ L!Write("PHY_CONF", {"RX_TERMINATION"}) \in Quiet
    /\ L!AckAll("LNK_INTR") \in Quiet
    /\ L!Write("LNK_MASK", L!LnkEvent) \in Quiet
    /\ L!Write("PROT_MASK", L!ProtEvent) \in Quiet
    /\ L!AckAll("DEV_INTR") \in Quiet
    /\ L!Write("EPM0", {64}) \in Quiet
    /\ L!Write("UIB_MASK", {}) \in Quiet
    /\ L!Clear("VIC", L!Irq) \in Quiet
    /\ L!Clear("IOPOWER", {"VBUS"}) \in Quiet
    /\ L!Set("VIC", {"GCTL_POWER"}) \in Quiet
<1>1. L!Write("CONTROL", {}) \in Quiet
  <2>1. "CONTROL" \in Regs \ Kept /\ {} \in SUBSET L!Bits["CONTROL"]
        BY DEF Regs, Kept, L!Bits
  <2> QED BY <2>1, OtherOps, OpsAreOps
<1>2. L!Write("OTG_CTRL", {}) \in Quiet
  <2>1. "OTG_CTRL" \in Regs \ Kept /\ {} \in SUBSET L!Bits["OTG_CTRL"]
        BY DEF Regs, Kept, L!Bits
  <2> QED BY <2>1, OtherOps, OpsAreOps
<1>3. L!Set("DEV_PWR", {"DISCON"}) \in Quiet
  <2>1. "DEV_PWR" \in Regs \ Kept /\ {"DISCON"} \in SUBSET L!Bits["DEV_PWR"]
        BY DEF Regs, Kept, L!Bits
  <2> QED BY <2>1, OtherOps, OpsAreOps
<1>4. L!Write("PHY_CONF", {"RX_TERMINATION"}) \in Quiet
  <2>1. "PHY_CONF" \in Regs \ Kept /\ {"RX_TERMINATION"} \in SUBSET L!Bits["PHY_CONF"]
        BY DEF Regs, Kept, L!Bits
  <2> QED BY <2>1, OtherOps, OpsAreOps
<1>5. L!AckAll("LNK_INTR") \in Quiet
  <2>1. "LNK_INTR" \in Regs \ Kept /\ L!Bits["LNK_INTR"] \in SUBSET L!Bits["LNK_INTR"]
        BY DEF Regs, Kept, L!Bits
  <2> QED BY <2>1, OtherOps, OpsAreOps DEF L!AckAll
<1>6. L!Write("LNK_MASK", L!LnkEvent) \in Quiet
  <2>1. "LNK_MASK" \in Regs \ Kept /\ L!LnkEvent \in SUBSET L!Bits["LNK_MASK"]
        BY DEF Regs, Kept, L!Bits
  <2> QED BY <2>1, OtherOps, OpsAreOps
<1>7. L!Write("PROT_MASK", L!ProtEvent) \in Quiet
  <2>1. "PROT_MASK" \in Regs \ Kept /\ L!ProtEvent \in SUBSET L!Bits["PROT_MASK"]
        BY DEF Regs, Kept, L!Bits
  <2> QED BY <2>1, OtherOps, OpsAreOps
<1>8. L!AckAll("DEV_INTR") \in Quiet
  <2>1. "DEV_INTR" \in Regs \ Kept /\ L!Bits["DEV_INTR"] \in SUBSET L!Bits["DEV_INTR"]
        BY DEF Regs, Kept, L!Bits
  <2> QED BY <2>1, OtherOps, OpsAreOps DEF L!AckAll
<1>9. L!Write("EPM0", {64}) \in Quiet
  <2>1. "EPM0" \in Regs \ Kept /\ {64} \in SUBSET L!Bits["EPM0"]
        BY DEF Regs, Kept, L!Bits
  <2> QED BY <2>1, OtherOps, OpsAreOps
<1>10. L!Write("UIB_MASK", {}) \in Quiet
  <2>1. "UIB_MASK" \in Regs \ Kept /\ {} \in SUBSET L!Bits["UIB_MASK"]
        BY DEF Regs, Kept, L!Bits
  <2> QED BY <2>1, OtherOps, OpsAreOps
<1>11. L!Clear("VIC", L!Irq) \in Quiet
  <2>1. "VIC" \in Regs \ Kept /\ L!Irq \in SUBSET L!Bits["VIC"]
        BY DEF Regs, Kept, L!Bits, L!Irq
  <2> QED BY <2>1, OtherOps, OpsAreOps
<1>12. L!Clear("IOPOWER", {"VBUS"}) \in Quiet
  <2>1. "IOPOWER" \in Regs \ Kept /\ {"VBUS"} \in SUBSET L!Bits["IOPOWER"]
        BY DEF Regs, Kept, L!Bits
  <2> QED BY <2>1, OtherOps, OpsAreOps
<1>13. L!Set("VIC", {"GCTL_POWER"}) \in Quiet
  <2>1. "VIC" \in Regs \ Kept /\ {"GCTL_POWER"} \in SUBSET L!Bits["VIC"]
        BY DEF Regs, Kept, L!Bits, L!Irq
  <2> QED BY <2>1, OtherOps, OpsAreOps
<1> QED BY <1>1, <1>2, <1>3, <1>4, <1>5, <1>6, <1>7, <1>8, <1>9, <1>10, <1>11, <1>12, <1>13

LEMMA OpsOfEnable ==
    /\ L!Write("UIB_MASK", {"PROT", "LNK", "DEV_CTL"}) \in Quiet
    /\ L!Set("VIC", {"USB_CORE"}) \in Quiet
    /\ L!Set("CONTROL", {"USB_POWER"}) \in Quiet
    /\ L!Write("PHY_CONF", {}) \in Quiet
    /\ L!Write("LTSSM", {"OVERRIDE"}) \in Quiet
    /\ L!Set("OTG_CTRL", {"SSDEV"}) \in Quiet
    /\ L!Clear("LTSSM", {"OVERRIDE"}) \in Quiet
    /\ L!Write("CORE_CLK", {"EN", "PCLK1", "EPMCLK1"}) \in Quiet
    /\ L!AckAll("VIC") \in Quiet
<1>1. L!Write("UIB_MASK", {"PROT", "LNK", "DEV_CTL"}) \in Quiet
  <2>1. "UIB_MASK" \in Regs \ Kept /\ {"PROT", "LNK", "DEV_CTL"} \in SUBSET L!Bits["UIB_MASK"]
        BY DEF Regs, Kept, L!Bits
  <2> QED BY <2>1, OtherOps, OpsAreOps
<1>2. L!Set("VIC", {"USB_CORE"}) \in Quiet
  <2>1. "VIC" \in Regs \ Kept /\ {"USB_CORE"} \in SUBSET L!Bits["VIC"]
        BY DEF Regs, Kept, L!Bits, L!Irq
  <2> QED BY <2>1, OtherOps, OpsAreOps
<1>3. L!Set("CONTROL", {"USB_POWER"}) \in Quiet
  <2>1. "CONTROL" \in Regs \ Kept /\ {"USB_POWER"} \in SUBSET L!Bits["CONTROL"]
        BY DEF Regs, Kept, L!Bits
  <2> QED BY <2>1, OtherOps, OpsAreOps
<1>4. L!Write("PHY_CONF", {}) \in Quiet
  <2>1. "PHY_CONF" \in Regs \ Kept /\ {} \in SUBSET L!Bits["PHY_CONF"]
        BY DEF Regs, Kept, L!Bits
  <2> QED BY <2>1, OtherOps, OpsAreOps
<1>5. L!Write("LTSSM", {"OVERRIDE"}) \in Quiet
  <2>1. "LTSSM" \in Regs \ Kept /\ {"OVERRIDE"} \in SUBSET L!Bits["LTSSM"]
        BY DEF Regs, Kept, L!Bits
  <2> QED BY <2>1, OtherOps, OpsAreOps
<1>6. L!Set("OTG_CTRL", {"SSDEV"}) \in Quiet
  <2>1. "OTG_CTRL" \in Regs \ Kept /\ {"SSDEV"} \in SUBSET L!Bits["OTG_CTRL"]
        BY DEF Regs, Kept, L!Bits
  <2> QED BY <2>1, OtherOps, OpsAreOps
<1>7. L!Clear("LTSSM", {"OVERRIDE"}) \in Quiet
  <2>1. "LTSSM" \in Regs \ Kept /\ {"OVERRIDE"} \in SUBSET L!Bits["LTSSM"]
        BY DEF Regs, Kept, L!Bits
  <2> QED BY <2>1, OtherOps, OpsAreOps
<1>8. L!Write("CORE_CLK", {"EN", "PCLK1", "EPMCLK1"}) \in Quiet
  <2>1. "CORE_CLK" \in Regs \ Kept /\ {"EN", "PCLK1", "EPMCLK1"} \in SUBSET L!Bits["CORE_CLK"]
        BY DEF Regs, Kept, L!Bits
  <2> QED BY <2>1, OtherOps, OpsAreOps
<1>9. L!AckAll("VIC") \in Quiet
  <2>1. "VIC" \in Regs \ Kept /\ L!Bits["VIC"] \in SUBSET L!Bits["VIC"]
        BY DEF Regs, Kept, L!Bits, L!Irq
  <2> QED BY <2>1, OtherOps, OpsAreOps DEF L!AckAll
<1> QED BY <1>1, <1>2, <1>3, <1>4, <1>5, <1>6, <1>7, <1>8, <1>9

LEMMA OpsOfConnect ==
    /\ L!Clear("OTG_CTRL", {"SSDEV"}) \in Quiet
    /\ L!Clear("OTG_CTRL", {"SSEPM"}) \in Quiet
    /\ L!Clear("UIB_MASK", L!UibGroups) \in Quiet
    /\ L!Clear("PHY_CONF", {"RX_TERMINATION"}) \in Quiet
    /\ L!Clear("CONTROL", {"USB_POWER"}) \in Quiet
    /\ L!Write("LNK_MASK", {}) \in Quiet
    /\ L!Write("PROT_MASK", {}) \in Quiet
    /\ L!Set("UIB_MASK", L!UibGroups) \in Quiet
    /\ L!Write("DEV_PWR", {"DISCON"}) \in Quiet
    /\ L!Set("OTG_CTRL", {"DEV"}) \in Quiet
    /\ L!Clear("DEV_PWR", {"DISCON"}) \in Quiet
    /\ L!Set("OTG_CTRL", {"SSEPM"}) \in Quiet
    /\ L!Write("EPM0", {512}) \in Quiet
<1>1. L!Clear("OTG_CTRL", {"SSDEV"}) \in Quiet
  <2>1. "OTG_CTRL" \in Regs \ Kept /\ {"SSDEV"} \in SUBSET L!Bits["OTG_CTRL"]
        BY DEF Regs, Kept, L!Bits
  <2> QED BY <2>1, OtherOps, OpsAreOps
<1>2. L!Clear("OTG_CTRL", {"SSEPM"}) \in Quiet
  <2>1. "OTG_CTRL" \in Regs \ Kept /\ {"SSEPM"} \in SUBSET L!Bits["OTG_CTRL"]
        BY DEF Regs, Kept, L!Bits
  <2> QED BY <2>1, OtherOps, OpsAreOps
<1>3. L!Clear("UIB_MASK", L!UibGroups) \in Quiet
  <2>1. "UIB_MASK" \in Regs \ Kept /\ L!UibGroups \in SUBSET L!Bits["UIB_MASK"]
        BY DEF Regs, Kept, L!Bits, L!UibGroups
  <2> QED BY <2>1, OtherOps, OpsAreOps
<1>4. L!Clear("PHY_CONF", {"RX_TERMINATION"}) \in Quiet
  <2>1. "PHY_CONF" \in Regs \ Kept /\ {"RX_TERMINATION"} \in SUBSET L!Bits["PHY_CONF"]
        BY DEF Regs, Kept, L!Bits
  <2> QED BY <2>1, OtherOps, OpsAreOps
<1>5. L!Clear("CONTROL", {"USB_POWER"}) \in Quiet
  <2>1. "CONTROL" \in Regs \ Kept /\ {"USB_POWER"} \in SUBSET L!Bits["CONTROL"]
        BY DEF Regs, Kept, L!Bits
  <2> QED BY <2>1, OtherOps, OpsAreOps
<1>6. L!Write("LNK_MASK", {}) \in Quiet
  <2>1. "LNK_MASK" \in Regs \ Kept /\ {} \in SUBSET L!Bits["LNK_MASK"]
        BY DEF Regs, Kept, L!Bits
  <2> QED BY <2>1, OtherOps, OpsAreOps
<1>7. L!Write("PROT_MASK", {}) \in Quiet
  <2>1. "PROT_MASK" \in Regs \ Kept /\ {} \in SUBSET L!Bits["PROT_MASK"]
        BY DEF Regs, Kept, L!Bits
  <2> QED BY <2>1, OtherOps, OpsAreOps
<1>8. L!Set("UIB_MASK", L!UibGroups) \in Quiet
  <2>1. "UIB_MASK" \in Regs \ Kept /\ L!UibGroups \in SUBSET L!Bits["UIB_MASK"]
        BY DEF Regs, Kept, L!Bits, L!UibGroups
  <2> QED BY <2>1, OtherOps, OpsAreOps
<1>9. L!Write("DEV_PWR", {"DISCON"}) \in Quiet
  <2>1. "DEV_PWR" \in Regs \ Kept /\ {"DISCON"} \in SUBSET L!Bits["DEV_PWR"]
        BY DEF Regs, Kept, L!Bits
  <2> QED BY <2>1, OtherOps, OpsAreOps
<1>10. L!Set("OTG_CTRL", {"DEV"}) \in Quiet
  <2>1. "OTG_CTRL" \in Regs \ Kept /\ {"DEV"} \in SUBSET L!Bits["OTG_CTRL"]
        BY DEF Regs, Kept, L!Bits
  <2> QED BY <2>1, OtherOps, OpsAreOps
<1>11. L!Clear("DEV_PWR", {"DISCON"}) \in Quiet
  <2>1. "DEV_PWR" \in Regs \ Kept /\ {"DISCON"} \in SUBSET L!Bits["DEV_PWR"]
        BY DEF Regs, Kept, L!Bits
  <2> QED BY <2>1, OtherOps, OpsAreOps
<1>12. L!Set("OTG_CTRL", {"SSEPM"}) \in Quiet
  <2>1. "OTG_CTRL" \in Regs \ Kept /\ {"SSEPM"} \in SUBSET L!Bits["OTG_CTRL"]
        BY DEF Regs, Kept, L!Bits
  <2> QED BY <2>1, OtherOps, OpsAreOps
<1>13. L!Write("EPM0", {512}) \in Quiet
  <2>1. "EPM0" \in Regs \ Kept /\ {512} \in SUBSET L!Bits["EPM0"]
        BY DEF Regs, Kept, L!Bits
  <2> QED BY <2>1, OtherOps, OpsAreOps
<1> QED BY <1>1, <1>2, <1>3, <1>4, <1>5, <1>6, <1>7, <1>8, <1>9, <1>10, <1>11, <1>12, <1>13

LEMMA ListsAreQuiet ==
    /\ bootOps \in Seq(Quiet) /\ L!enablePhyOps \in Seq(MainQuiet)
    /\ L!connectHighSpeedOps \in Seq(Quiet) /\ L!connectSuperSpeedOps \in Seq(Quiet)
    /\ L!powerOps \in Seq(Quiet)
<1>1. L!AckAll("PROT_INTR") \in Quiet /\ L!Write("LMP_TIMER", L!Lmp) \in MainQuiet
  <2>1. L!Clear("PROT_INTR", L!ProtEvent) \in ClearEvents
        BY DEF ClearEvents
  <2> QED BY <2>1, BitsOf DEF Quiet, MainQuiet, L!AckAll
<1>2. /\ L!Do("phy") \in Quiet /\ L!Do("ifVbus") \in Quiet /\ L!Do("save") \in Quiet
      /\ L!Do("restore") \in Quiet
      BY DEF Quiet, Other, Names
<1>3. /\ L!clockOps({"PCLK2", "EPMCLK2"}) \in Seq(Quiet)
      /\ L!clockOps({"PCLK2", "EPMCLK0"}) \in Seq(Quiet)
      /\ L!clockOps({"PCLK1", "EPMCLK1"}) \in Seq(Quiet)
  <2>1. /\ {"PCLK2", "EPMCLK2"} \in SUBSET L!Bits["CORE_CLK"]
        /\ {"PCLK2", "EPMCLK0"} \in SUBSET L!Bits["CORE_CLK"]
        /\ {"PCLK1", "EPMCLK1"} \in SUBSET L!Bits["CORE_CLK"]
        BY DEF L!Bits
  <2>2. ASSUME NEW sources \in SUBSET L!Bits["CORE_CLK"]
        PROVE  L!clockOps(sources) \in Seq(Quiet)
        BY ClockOpsAreOps, OpsAreOps, SeqMonotonic
  <2> QED BY <2>1, <2>2
<1>5. L!powerOps \in Seq(Quiet)
  <2>1. "IOPOWER" \in Regs \ Kept /\ L!Bits["IOPOWER"] \in SUBSET L!Bits["IOPOWER"]
        BY DEF Regs, Kept
  <2> QED BY <2>1, OtherOps, OpsAreOps DEF L!powerOps, L!AckAll
<1>6. L!initOps \in Seq(Quiet)
  <2>1. /\ L!Write("CONTROL", {}) \in Quiet /\ L!Write("OTG_CTRL", {}) \in Quiet
        /\ L!Set("DEV_PWR", {"DISCON"}) \in Quiet
        /\ L!Write("PHY_CONF", {"RX_TERMINATION"}) \in Quiet /\ L!AckAll("LNK_INTR") \in Quiet
        /\ L!Write("LNK_MASK", L!LnkEvent) \in Quiet /\ L!AckAll("PROT_INTR") \in Quiet
        /\ L!Write("PROT_MASK", L!ProtEvent) \in Quiet /\ L!AckAll("DEV_INTR") \in Quiet
        /\ L!Write("EPM0", {64}) \in Quiet /\ L!Write("UIB_MASK", {}) \in Quiet
        /\ L!Clear("VIC", L!Irq) \in Quiet
        BY <1>1, <1>2, OpsOfBoot, OpsOfEnable, OpsOfConnect
  <2> QED BY <2>1, <1>3 DEF L!initOps
<1>7. L!connectOps \in Seq(Quiet)
  <2>1. /\ L!Clear("IOPOWER", {"VBUS"}) \in Quiet /\ L!Set("VIC", {"GCTL_POWER"}) \in Quiet
        /\ L!Do("ifVbus") \in Quiet
        BY <1>1, <1>2, OpsOfBoot, OpsOfEnable, OpsOfConnect
  <2> QED BY <2>1 DEF L!connectOps
<1>8. L!startPhyOps \in Seq(Quiet)
  <2>1. /\ L!Write("LTSSM", {"OVERRIDE"}) \in Quiet /\ L!Set("OTG_CTRL", {"SSDEV"}) \in Quiet
        /\ L!Do("phy") \in Quiet /\ L!Clear("LTSSM", {"OVERRIDE"}) \in Quiet
        /\ L!Write("PHY_CONF", {"RX_TERMINATION"}) \in Quiet
        /\ L!Write("CORE_CLK", {"EN", "PCLK1", "EPMCLK1"}) \in Quiet
        BY <1>1, <1>2, OpsOfBoot, OpsOfEnable, OpsOfConnect
  <2> QED BY <2>1, <1>3 DEF L!startPhyOps
<1>9. L!preparePhyOps \in Seq(MainQuiet)
  <2>1. /\ L!AckAll("LNK_INTR") \in MainQuiet /\ L!Write("LNK_MASK", L!LnkEvent) \in MainQuiet
        /\ L!AckAll("PROT_INTR") \in MainQuiet
        /\ L!Write("PROT_MASK", L!ProtEvent) \in MainQuiet
        /\ L!AckAll("DEV_INTR") \in MainQuiet
        /\ L!Write("UIB_MASK", {"PROT", "LNK", "DEV_CTL"}) \in MainQuiet
        /\ L!Set("VIC", {"USB_CORE"}) \in MainQuiet
        /\ L!Set("CONTROL", {"USB_POWER"}) \in MainQuiet
        /\ L!Write("LMP_TIMER", L!Lmp) \in MainQuiet /\ L!Write("PHY_CONF", {}) \in MainQuiet
        BY <1>1, OpsAreOps, OpsOfBoot, OpsOfEnable
  <2> QED BY <2>1 DEF L!preparePhyOps
<1>10. L!enablePhyOps \in Seq(MainQuiet)
  <2>1. L!startPhyOps \in Seq(MainQuiet)
        BY <1>8, OpsAreOps, SeqMonotonic
  <2>2. L!Do("save") \in MainQuiet /\ L!AckAll("VIC") \in MainQuiet /\ L!Do("restore") \in MainQuiet
        BY <1>2, OpsOfEnable, OpsAreOps
  <2>3. << L!Do("save"), L!AckAll("VIC") >> \in Seq(MainQuiet) /\ << L!Do("restore") >> \in Seq(MainQuiet)
        BY <2>2
  <2> QED BY <1>9, <2>1, <2>3 DEF L!enablePhyOps
<1>11. L!superSpeedOffOps \in Seq(Quiet)
  <2>1. /\ L!Do("phy") \in Quiet /\ L!Write("LTSSM", {"OVERRIDE"}) \in Quiet
        BY <1>1, <1>2, OpsOfBoot, OpsOfEnable, OpsOfConnect
  <2>2. /\ L!Clear("OTG_CTRL", {"SSDEV"}) \in Quiet /\ L!Clear("OTG_CTRL", {"SSEPM"}) \in Quiet
        /\ L!Clear("UIB_MASK", L!UibGroups) \in Quiet
        /\ L!Clear("PHY_CONF", {"RX_TERMINATION"}) \in Quiet
        /\ L!Clear("CONTROL", {"USB_POWER"}) \in Quiet
        /\ L!Set("CONTROL", {"USB_POWER"}) \in Quiet /\ L!AckAll("DEV_INTR") \in Quiet
        BY <1>1, <1>2, OpsOfBoot, OpsOfEnable, OpsOfConnect
  <2> QED BY <2>1, <2>2, <1>3 DEF L!superSpeedOffOps
<1>12. L!superSpeedEventsOffOps \in Seq(Quiet)
  <2>1. /\ L!Write("LNK_MASK", {}) \in Quiet /\ L!AckAll("LNK_INTR") \in Quiet
        /\ L!Write("PROT_MASK", {}) \in Quiet /\ L!AckAll("PROT_INTR") \in Quiet
        BY <1>1, <1>2, OpsOfBoot, OpsOfEnable, OpsOfConnect
  <2> QED BY <2>1 DEF L!superSpeedEventsOffOps
<1>13. L!highSpeedOnOps \in Seq(Quiet)
  <2>1. /\ L!Set("UIB_MASK", L!UibGroups) \in Quiet /\ L!Write("DEV_PWR", {"DISCON"}) \in Quiet
        /\ L!Set("OTG_CTRL", {"DEV"}) \in Quiet
        BY <1>1, <1>2, OpsOfBoot, OpsOfEnable, OpsOfConnect
  <2>2. L!Clear("DEV_PWR", {"DISCON"}) \in Quiet
        BY <1>1, <1>2, OpsOfBoot, OpsOfEnable, OpsOfConnect
  <2> QED BY <2>1, <2>2, <1>3 DEF L!highSpeedOnOps
<1>14. L!connectSuperSpeedOps \in Seq(Quiet)
  <2>1. L!Do("phy") \in Quiet
        BY <1>1, <1>2, OpsOfBoot, OpsOfEnable, OpsOfConnect
  <2>2. /\ L!Write("PHY_CONF", {"RX_TERMINATION"}) \in Quiet
        /\ L!Set("OTG_CTRL", {"SSEPM"}) \in Quiet /\ L!Write("EPM0", {512}) \in Quiet
        BY <1>1, <1>2, OpsOfBoot, OpsOfEnable, OpsOfConnect
  <2> QED BY <2>1, <2>2, <1>3 DEF L!connectSuperSpeedOps
<1>15. bootOps \in Seq(Quiet)
      BY <1>6, <1>7 DEF bootOps
<1>16. L!connectHighSpeedOps \in Seq(Quiet)
      BY <1>11, <1>12, <1>13 DEF L!connectHighSpeedOps
<1> QED BY <1>5, <1>10, <1>14, <1>15, <1>16

LEMMA ListsAreOps ==
    /\ bootOps \in Seq(Op) /\ L!enablePhyOps \in Seq(MainOp)
    /\ L!connectHighSpeedOps \in Seq(Op) /\ L!connectSuperSpeedOps \in Seq(Op)
    /\ L!phyOps \in Seq(Op) /\ L!powerOps \in Seq(Op)
<1>1. Seq(Quiet) \subseteq Seq(Op) /\ Seq(MainQuiet) \subseteq Seq(MainOp)
      /\ Seq(PhyStep) \subseteq Seq(Op)
      BY OpsAreOps, SeqMonotonic
<1> QED BY <1>1, ListsAreQuiet, PhyOpsAreSteps

-----------------------------------------------------------------------------
(***************************************************************************)
(* A step of a list, and what it does to the timers.                        *)
(***************************************************************************)
AnyOp == MainOp \cup IsrOp

LEMMA KindsOfOps ==
    ASSUME NEW op \in AnyOp
    PROVE  \/ \E r \in Regs : op \in AccessTo(r)
           \/ \E name \in Names \cup {"acknowledged", "released"} : op = L!Do(name)
<1>1. CASE op \in Other
      BY <1>1 DEF Other
<1>2. CASE op \in PhyStep
      BY <1>2 DEF PhyStep, Regs
<1>3. CASE op \in ClearEvents
  <2>1. PICK bits \in SUBSET L!ProtEvent : op = L!Clear("PROT_INTR", bits)
        BY <1>3 DEF ClearEvents
  <2>2. "PROT_INTR" \in Regs
        BY DEF Regs
  <2> QED BY <2>1, <2>2, BitsOf, TriplesAreAccesses
<1>4. CASE op = L!Write("LMP_TIMER", L!Lmp)
  <2>1. "LMP_TIMER" \in Regs /\ L!Lmp \in SUBSET L!Bits["LMP_TIMER"]
        BY BitsOf DEF Regs
  <2> QED BY <1>4, <2>1, TriplesAreAccesses
<1>5. CASE op \in StopTimer
  <2>1. PICK k \in L!Lmp : op = L!Clear("LMP_TIMER", {k})
        BY <1>5 DEF StopTimer
  <2>2. "LMP_TIMER" \in Regs /\ {k} \in SUBSET L!Bits["LMP_TIMER"]
        BY BitsOf DEF Regs
  <2> QED BY <2>1, <2>2, TriplesAreAccesses
<1> QED BY <1>1, <1>2, <1>3, <1>4, <1>5 DEF AnyOp, MainOp, IsrOp, Op, Quiet

LEMMA HeadOfSeq ==
    ASSUME NEW S, NEW todo \in Seq(S), todo # <<>>
    PROVE  Head(todo) \in S /\ Tail(todo) \in Seq(S)
BY HeadTailProperties

LEMMA StepCases ==
    ASSUME NEW todo, NEW todoNext, Head(todo) \in AnyOp, L!Step(todo, todoNext)
    PROVE  \/ /\ \E r \in Regs : Head(todo) \in AccessTo(r)
              /\ L!Access(Head(todo)) /\ todoNext = Tail(todo)
           \/ /\ Head(todo) = L!Do("phy") /\ reg' = reg
              /\ todoNext = L!WritePhyReg \o Tail(todo)
           \/ /\ \/ Head(todo) = L!Do("acknowledged") /\ ack
                 \/ Head(todo) = L!Do("released") /\ ~ack
              /\ reg' = reg /\ todoNext = Tail(todo)
<1>1. CASE Len(Head(todo)) = 3
  <2>1. L!Access(Head(todo)) /\ todoNext = Tail(todo)
    <3>1. /\ Head(todo) # L!Do("phy") /\ Head(todo) # L!Do("acknowledged")
          /\ Head(todo) # L!Do("released")
          BY <1>1, DosAreShort
    <3> QED BY <3>1 DEF L!Step
  <2>2. \E r \in Regs : Head(todo) \in AccessTo(r)
        BY <1>1, KindsOfOps, DosAreShort
  <2> QED BY <2>1, <2>2
<1>2. CASE Len(Head(todo)) # 3
      BY <1>2 DEF L!Step
<1> QED BY <1>1, <1>2

Late(k) == k \notin reg["LMP_TIMER"] /\ <<"TIMEOUT", k>> \in reg["PROT_INTR"]

\* What an access does to the timers and their events.
LEMMA AccessKeeps ==
    ASSUME Typed, NEW op \in Other \cup PhyStep, NEW r \in Regs, op \in AccessTo(r), L!Access(op)
    PROVE  reg'["LMP_TIMER"] = reg["LMP_TIMER"] /\ reg'["PROT_INTR"] = reg["PROT_INTR"]
<1>1. op[2] = r /\ Len(op) = 3
      BY AccessesAreTriples
<1>2. ASSUME NEW name PROVE op # L!Do(name)
      BY <1>1, DosAreShort
<1>3. r # "LMP_TIMER" /\ r # "PROT_INTR"
  <2>1. CASE op \in Other
    <3>1. PICK r2 \in Regs \ Kept : op \in AccessTo(r2)
          BY <1>2, <2>1 DEF Other
    <3>2. r2 = r
          BY <1>1, <3>1, AccessesAreTriples
    <3> QED BY <3>2 DEF Kept
  <2>2. CASE op \in PhyStep
    <3>1. op \in AccessTo("PHY_REQ")
          BY <1>2, <2>2 DEF PhyStep
    <3>2. r = "PHY_REQ"
      <4>1. "PHY_REQ" \in Regs
            BY DEF Regs
      <4> QED BY <1>1, <3>1, <4>1, AccessesAreTriples
    <3> QED BY <3>2
  <2> QED BY <2>1, <2>2
<1>4. \A r2 \in Regs \ {r} : reg'[r2] = reg[r2]
      BY <1>1, AccessEffect
<1> QED BY <1>3, <1>4 DEF Regs

LEMMA AccessTimers ==
    ASSUME Typed, NEW op \in AnyOp, NEW r \in Regs, op \in AccessTo(r), L!Access(op),
           NEW k \in L!Lmp, Late(k)'
    PROVE  /\ Late(k) \/ op = L!Clear("LMP_TIMER", {k})
           /\ op # L!Clear("PROT_INTR", {<<"TIMEOUT", k>>})
           /\ op # L!Write("LMP_TIMER", L!Lmp)
<1>1. op[2] = r /\ "LMP_TIMER" \in Regs /\ "PROT_INTR" \in Regs
      BY AccessesAreTriples DEF Regs
<1>2. /\ reg'[r] = Accessed(op)
      /\ \A r2 \in Regs \ {r} : reg'[r2] = reg[r2]
      BY <1>1, AccessEffect
<1>3. op # L!Clear("PROT_INTR", {<<"TIMEOUT", k>>})
  <2>1. ASSUME op = L!Clear("PROT_INTR", {<<"TIMEOUT", k>>}) PROVE FALSE
    <3>1. r = "PROT_INTR" /\ Accessed(op) = reg["PROT_INTR"] \ {<<"TIMEOUT", k>>}
          BY <1>1, <2>1 DEF L!Clear, Accessed
    <3> QED BY <1>2, <3>1 DEF Late
  <2> QED BY <2>1
<1>4. op # L!Write("LMP_TIMER", L!Lmp)
  <2>1. ASSUME op = L!Write("LMP_TIMER", L!Lmp) PROVE FALSE
    <3>1. r = "LMP_TIMER" /\ Accessed(op) = L!Lmp
          BY <1>1, <2>1 DEF L!Write, Accessed
    <3> QED BY <1>2, <3>1 DEF Late
  <2> QED BY <2>1
<1>5. CASE op \in Other \cup PhyStep
      BY <1>3, <1>4, <1>5, AccessKeeps DEF Late
<1>6. CASE op \in ClearEvents
  <2>1. PICK bits \in SUBSET L!ProtEvent : op = L!Clear("PROT_INTR", bits)
        BY <1>6 DEF ClearEvents
  <2>2. r = "PROT_INTR" /\ Accessed(op) = reg["PROT_INTR"] \ bits
        BY <1>1, <2>1 DEF L!Clear, Accessed
  <2> QED BY <1>1, <1>2, <1>3, <1>4, <2>2 DEF Late
<1>7. CASE op \in StopTimer
  <2>1. PICK k2 \in L!Lmp : op = L!Clear("LMP_TIMER", {k2})
        BY <1>7 DEF StopTimer
  <2>2. r = "LMP_TIMER" /\ Accessed(op) = reg["LMP_TIMER"] \ {k2}
        BY <1>1, <2>1 DEF L!Clear, Accessed
  <2>3. CASE k2 = k
        BY <1>3, <1>4, <2>1, <2>3
  <2>4. CASE k2 # k
        BY <1>1, <1>2, <1>3, <1>4, <2>2, <2>4 DEF Late
  <2> QED BY <2>3, <2>4
<1> QED BY <1>3, <1>4, <1>5, <1>6, <1>7 DEF AnyOp, MainOp, IsrOp, Op, Quiet

-----------------------------------------------------------------------------
(***************************************************************************)
(* The invariant of the types and the timers: a timer is stopped only where *)
(* the acknowledgement of its timeout follows at once, and a timeout that   *)
(* is late is the next thing the handler acknowledges.                      *)
(***************************************************************************)
Followed(list) ==
    \A i \in 1 .. Len(list), k \in L!Lmp :
        list[i] = L!Clear("LMP_TIMER", {k}) =>
            i < Len(list) /\ list[i + 1] = L!Clear("PROT_INTR", {<<"TIMEOUT", k>>})

TypeInv ==
    /\ Typed
    /\ main \in Seq(MainOp) /\ isr \in Seq(IsrOp)
    /\ saved \subseteq L!Irq /\ ack \in BOOLEAN /\ expected \in {"address", "data", "write"}
    /\ vbus \in BOOLEAN /\ events \in 0 .. MaxEvents /\ both \in BOOLEAN

TimerInv ==
    /\ Followed(isr)
    /\ \A k \in L!Lmp : Late(k) =>
           isr # <<>> /\ Head(isr) = L!Clear("PROT_INTR", {<<"TIMEOUT", k>>})

LEMMA NoTimerInOp ==
    ASSUME NEW k
    PROVE  L!Clear("LMP_TIMER", {k}) \notin Op
<1> DEFINE op == L!Clear("LMP_TIMER", {k})
<1>1. /\ Len(op) = 3 /\ op[2] = "LMP_TIMER"
      BY DEF L!Clear
<1>2. ASSUME NEW name PROVE op # L!Do(name)
      BY <1>1, DosAreShort
<1> HIDE DEF op
<1>3. ASSUME NEW r \in Regs, op \in AccessTo(r) PROVE r = "LMP_TIMER"
      BY <1>1, <1>3, AccessesAreTriples
<1>4. op \notin Other
      BY <1>2, <1>3 DEF Other, Kept
<1>5. op \notin PhyStep
      BY <1>2, <1>3 DEF PhyStep, Regs
<1>6. op \notin ClearEvents
  <2>1. ASSUME NEW bits, op = L!Clear("PROT_INTR", bits) PROVE FALSE
        BY <1>1, <2>1 DEF L!Clear
  <2> QED BY <2>1 DEF ClearEvents
<1>7. op \notin Op
      BY <1>4, <1>5, <1>6 DEF Op, Quiet
<1> QED BY <1>7 DEF op

LEMMA OpsAreFollowed ==
    ASSUME NEW list \in Seq(Op)
    PROVE  Followed(list)
BY NoTimerInOp, ElementOfSeq DEF Followed

LEMMA FollowedConcat ==
    ASSUME NEW S, NEW s \in Seq(S), NEW t \in Seq(S), Followed(s), Followed(t)
    PROVE  Followed(s \o t)
<1>1. /\ Len(s) \in Nat /\ Len(t) \in Nat /\ Len(s \o t) = Len(s) + Len(t)
      /\ \A i \in 1 .. Len(s) + Len(t) :
            (s \o t)[i] = IF i <= Len(s) THEN s[i] ELSE t[i - Len(s)]
      BY ConcatProperties
<1>2. SUFFICES ASSUME NEW i \in 1 .. Len(s) + Len(t), NEW k \in L!Lmp,
                      (s \o t)[i] = L!Clear("LMP_TIMER", {k})
               PROVE  /\ i < Len(s) + Len(t)
                      /\ (s \o t)[i + 1] = L!Clear("PROT_INTR", {<<"TIMEOUT", k>>})
      BY <1>1 DEF Followed
<1>3. CASE i <= Len(s)
  <2>1. i \in 1 .. Len(s) /\ s[i] = L!Clear("LMP_TIMER", {k})
        BY <1>1, <1>2, <1>3
  <2>2. i < Len(s) /\ s[i + 1] = L!Clear("PROT_INTR", {<<"TIMEOUT", k>>})
        BY <2>1 DEF Followed
  <2>3. i + 1 \in 1 .. Len(s) + Len(t) /\ i + 1 <= Len(s)
        BY <1>1, <2>1, <2>2
  <2> QED BY <1>1, <2>2, <2>3
<1>4. CASE ~(i <= Len(s))
  <2>1. i - Len(s) \in 1 .. Len(t) /\ t[i - Len(s)] = L!Clear("LMP_TIMER", {k})
        BY <1>1, <1>2, <1>4
  <2>2. /\ i - Len(s) < Len(t)
        /\ t[(i - Len(s)) + 1] = L!Clear("PROT_INTR", {<<"TIMEOUT", k>>})
        BY <2>1 DEF Followed
  <2>3. /\ i + 1 \in 1 .. Len(s) + Len(t) /\ ~(i + 1 <= Len(s))
        /\ (i + 1) - Len(s) = (i - Len(s)) + 1
        BY <1>1, <1>4, <2>1, <2>2
  <2> QED BY <1>1, <2>2, <2>3
<1> QED BY <1>3, <1>4

LEMMA FollowedTail ==
    ASSUME NEW S, NEW list \in Seq(S), list # <<>>, Followed(list)
    PROVE  /\ Followed(Tail(list))
           /\ \A k \in L!Lmp : Head(list) = L!Clear("LMP_TIMER", {k}) =>
                  Tail(list) # <<>> /\ Head(Tail(list)) = L!Clear("PROT_INTR", {<<"TIMEOUT", k>>})
<1>1. /\ Len(list) \in Nat /\ Len(list) >= 1 /\ Len(Tail(list)) = Len(list) - 1
      /\ Head(list) = list[1] /\ Tail(list) \in Seq(S)
      /\ \A i \in 1 .. Len(Tail(list)) : Tail(list)[i] = list[i + 1]
      BY EmptySeq, HeadTailProperties
<1>2. Followed(Tail(list))
  <2>1. SUFFICES ASSUME NEW i \in 1 .. Len(list) - 1, NEW k \in L!Lmp,
                        Tail(list)[i] = L!Clear("LMP_TIMER", {k})
                 PROVE  /\ i < Len(list) - 1
                        /\ Tail(list)[i + 1] = L!Clear("PROT_INTR", {<<"TIMEOUT", k>>})
        BY <1>1 DEF Followed
  <2>2. i + 1 \in 1 .. Len(list) /\ list[i + 1] = L!Clear("LMP_TIMER", {k})
        BY <1>1, <2>1
  <2>3. /\ i + 1 < Len(list)
        /\ list[(i + 1) + 1] = L!Clear("PROT_INTR", {<<"TIMEOUT", k>>})
        BY <2>2 DEF Followed
  <2>4. i + 1 \in 1 .. Len(list) - 1
        BY <1>1, <2>2, <2>3
  <2> QED BY <1>1, <2>2, <2>3, <2>4
<1>3. ASSUME NEW k \in L!Lmp, Head(list) = L!Clear("LMP_TIMER", {k})
      PROVE  /\ Tail(list) # <<>>
             /\ Head(Tail(list)) = L!Clear("PROT_INTR", {<<"TIMEOUT", k>>})
  <2>1. 1 \in 1 .. Len(list) /\ list[1] = L!Clear("LMP_TIMER", {k})
        BY <1>1, <1>3
  <2>2. 1 < Len(list) /\ list[1 + 1] = L!Clear("PROT_INTR", {<<"TIMEOUT", k>>})
        BY <2>1 DEF Followed
  <2>3. Len(Tail(list)) >= 1 /\ Tail(list)[1] = list[1 + 1]
        BY <1>1, <2>2
  <2>4. Tail(list) # <<>>
    <3>1. Len(<<>>) = 0
          OBVIOUS
    <3>2. Len(Tail(list)) # 0
          BY <1>1, <2>2
    <3> QED BY <3>1, <3>2
  <2>5. Head(Tail(list)) = Tail(list)[1]
        BY <1>1, <2>4, HeadTailProperties
  <2> QED BY <2>2, <2>3, <2>4, <2>5
<1> QED BY <1>2, <1>3

LEMMA PortOps ==
    ASSUME NEW k \in L!Lmp
    PROVE  L!portOps(k) \in Seq(IsrOp) /\ Followed(L!portOps(k))
<1>1. L!Clear("LMP_TIMER", {k}) \in IsrOp
      BY DEF IsrOp, StopTimer
<1>2. L!Clear("PROT_INTR", {<<"TIMEOUT", k>>}) \in Op
  <2>1. {<<"TIMEOUT", k>>} \in SUBSET L!ProtEvent
        BY DEF L!ProtEvent
  <2> QED BY <2>1 DEF Op, ClearEvents, Quiet
<1>3. L!portOps(k) \in Seq(IsrOp)
      BY <1>1, <1>2, OpsAreOps DEF L!portOps
<1>4. /\ Len(L!portOps(k)) = 2 /\ L!portOps(k)[1] = L!Clear("LMP_TIMER", {k})
      /\ L!portOps(k)[2] = L!Clear("PROT_INTR", {<<"TIMEOUT", k>>})
      BY DEF L!portOps
<1>5. ASSUME NEW i \in 1 .. 2, NEW k2 \in L!Lmp, L!portOps(k)[i] = L!Clear("LMP_TIMER", {k2})
      PROVE  i = 1 /\ k2 = k
  <2>1. i # 2
        BY <1>2, <1>4, <1>5, NoTimerInOp
  <2>2. i = 1
        BY <1>5, <2>1
  <2>3. L!Clear("LMP_TIMER", {k2}) = L!Clear("LMP_TIMER", {k})
        BY <1>4, <1>5, <2>2
  <2>4. {k2} = {k}
        BY <2>3 DEF L!Clear
  <2> QED BY <2>2, <2>4
<1>6. Followed(L!portOps(k))
  <2>1. SUFFICES ASSUME NEW i \in 1 .. Len(L!portOps(k)), NEW k2 \in L!Lmp,
                        L!portOps(k)[i] = L!Clear("LMP_TIMER", {k2})
                 PROVE  /\ i < Len(L!portOps(k))
                        /\ L!portOps(k)[i + 1] = L!Clear("PROT_INTR", {<<"TIMEOUT", k2>>})
        BY DEF Followed
  <2>2. i \in 1 .. 2
        BY <1>4
  <2>3. i = 1 /\ k2 = k
        BY <1>5, <2>1, <2>2
  <2> QED BY <1>4, <2>3
<1> QED BY <1>3, <1>6

LEMMA PhyRegisterOps ==
    L!WritePhyReg \in Seq(PhyStep) /\ L!WritePhyReg \in Seq(Op)
<1>1. L!WritePhyReg \in Seq(PhyStep)
      BY PhyOpsAreSteps DEF L!WritePhyReg
<1> QED BY <1>1, OpsAreOps, SeqMonotonic

\* A step of main or of the handler, but for its particular ones.
LEMMA StepTypes ==
    ASSUME Typed, NEW S, Op \subseteq S, S \subseteq AnyOp, NEW todo \in Seq(S), todo # <<>>,
           NEW todoNext, L!Step(todo, todoNext)
    PROVE  Typed' /\ todoNext \in Seq(S)
<1>1. Head(todo) \in S /\ Head(todo) \in AnyOp /\ Tail(todo) \in Seq(S)
      BY HeadOfSeq
<1>2. CASE /\ \E r \in Regs : Head(todo) \in AccessTo(r)
           /\ L!Access(Head(todo)) /\ todoNext = Tail(todo)
      BY <1>1, <1>2, AccessTyped
<1>3. CASE /\ Head(todo) = L!Do("phy") /\ reg' = reg
           /\ todoNext = L!WritePhyReg \o Tail(todo)
  <2>1. L!WritePhyReg \in Seq(S)
        BY PhyRegisterOps, SeqMonotonic
  <2>2. todoNext \in Seq(S)
        BY <1>1, <1>3, <2>1, ConcatProperties
  <2> QED BY <1>3, <2>2 DEF Typed
<1>4. CASE reg' = reg /\ todoNext = Tail(todo)
      BY <1>1, <1>4 DEF Typed
<1> QED BY <1>1, <1>2, <1>3, <1>4, StepCases

LEMMA OnceAccess ==
    ASSUME Typed, NEW r \in Regs, NEW bits \in SUBSET L!Bits[r],
           L!Access(L!Set(r, bits)) \/ L!Access(L!Clear(r, bits))
    PROVE  Typed'
BY TriplesAreAccesses, AccessTyped

LEMMA SetEffect ==
    ASSUME Typed, NEW r \in Regs, NEW bits, L!Access(L!Set(r, bits))
    PROVE  reg'[r] = reg[r] \cup bits /\ \A r2 \in Regs \ {r} : reg'[r2] = reg[r2]
<1> DEFINE op == L!Set(r, bits)
<1>1. op[2] = r /\ op[3] = bits /\ op[1] = "set"
      BY DEF L!Set
<1>2. L!Access(op)
      OBVIOUS
<1> HIDE DEF op
<1> QED BY <1>1, <1>2, AccessEffect DEF Accessed

LEMMA ClearEffect ==
    ASSUME Typed, NEW r \in Regs, NEW bits, L!Access(L!Clear(r, bits))
    PROVE  reg'[r] = reg[r] \ bits /\ \A r2 \in Regs \ {r} : reg'[r2] = reg[r2]
<1> DEFINE op == L!Clear(r, bits)
<1>1. op[2] = r /\ op[3] = bits /\ op[1] = "clear"
      BY DEF L!Clear
<1>2. L!Access(op)
      OBVIOUS
<1> HIDE DEF op
<1> QED BY <1>1, <1>2, AccessEffect DEF Accessed

LEMMA WriteEffect ==
    ASSUME Typed, NEW r \in Regs, NEW bits, L!Access(L!Write(r, bits))
    PROVE  reg'[r] = bits /\ \A r2 \in Regs \ {r} : reg'[r2] = reg[r2]
<1> DEFINE op == L!Write(r, bits)
<1>1. op[2] = r /\ op[3] = bits /\ op[1] = "write"
      BY DEF L!Write
<1>2. L!Access(op)
      OBVIOUS
<1> HIDE DEF op
<1> QED BY <1>1, <1>2, AccessEffect DEF Accessed

LEMMA MainStepTypes ==
    ASSUME TypeInv, L!MainStep
    PROVE  TypeInv'
<1> USE DEF TypeInv
<1>1. /\ main # <<>> /\ main \in Seq(MainOp) /\ Op \subseteq MainOp /\ MainOp \subseteq AnyOp
      /\ Tail(main) \in Seq(MainOp)
      BY OpsAreOps, HeadOfSeq DEF AnyOp, L!MainStep
<1>2. UNCHANGED <<isr, ack, expected, vbus, events, both>>
      BY DEF L!MainStep
<1>3. Typed' /\ main' \in Seq(MainOp) /\ saved' \subseteq L!Irq
  <2>1. CASE L!Step(main, main') /\ UNCHANGED saved
        BY <1>1, <2>1, StepTypes
  <2>2. CASE /\ Head(main) = L!Do("ifVbus") /\ UNCHANGED <<reg, saved>>
             /\ main' = IF vbus THEN L!enablePhyOps ELSE <<>>
    <3>1. main' \in {L!enablePhyOps, <<>>}
          BY <2>2
    <3>2. main' \in Seq(MainOp)
          BY <3>1, ListsAreOps, EmptySeq
    <3>3. Typed'
          BY <2>2 DEF Typed
    <3> QED BY <2>2, <3>2, <3>3
  <2>3. CASE /\ Head(main) = L!Do("save") /\ saved' = reg["VIC"] /\ main' = Tail(main)
             /\ UNCHANGED reg
    <3>1. reg["VIC"] \subseteq L!Irq
          BY BitsOf DEF Typed, Regs
    <3> QED BY <1>1, <2>3, <3>1 DEF Typed
  <2>4. CASE /\ Head(main) = L!Do("restore") /\ L!Access(L!Set("VIC", saved))
             /\ main' = Tail(main) /\ UNCHANGED saved
    <3>1. "VIC" \in Regs /\ saved \in SUBSET L!Bits["VIC"]
          BY BitsOf DEF Regs
    <3> QED BY <1>1, <2>4, <3>1, OnceAccess
  <2> QED BY <2>1, <2>2, <2>3, <2>4 DEF L!MainStep
<1> QED BY <1>2, <1>3

LEMMA NoneInSeq ==
    ASSUME NEW S, NEW op, op \notin S, NEW list \in Seq(S), list # <<>>
    PROVE  Head(list) # op
BY HeadTailProperties

\* While no handler runs, no timeout is late.
LEMMA MainStepTimers ==
    ASSUME TypeInv, TimerInv, L!MainStep
    PROVE  TimerInv'
<1>1. /\ isr = <<>> /\ main # <<>> /\ main \in Seq(MainOp) /\ isr' = isr
      BY DEF L!MainStep, TypeInv
<1>2. \A k \in L!Lmp : ~Late(k)
      BY <1>1 DEF TimerInv
<1>3. Head(main) \in MainOp /\ Head(main) \in AnyOp
      BY <1>1, HeadOfSeq DEF AnyOp
<1>4. ASSUME NEW k \in L!Lmp, Late(k)' PROVE FALSE
  <2>1. CASE L!Step(main, main')
    <3>1. reg' # reg
          BY <1>2, <1>4 DEF Late
    <3>2. PICK r \in Regs : Head(main) \in AccessTo(r) /\ L!Access(Head(main))
          BY <1>3, <2>1, <3>1, StepCases
    <3>3. Head(main) = L!Clear("LMP_TIMER", {k})
          BY <1>2, <1>3, <1>4, <3>2, AccessTimers DEF TypeInv
    <3>4. L!Clear("LMP_TIMER", {k}) \notin MainOp
      <4>1. L!Clear("LMP_TIMER", {k}) # L!Write("LMP_TIMER", L!Lmp)
            BY DEF L!Clear, L!Write
      <4> QED BY <4>1, NoTimerInOp DEF MainOp
    <3> QED BY <1>3, <3>3, <3>4
  <2>2. CASE L!Access(L!Set("VIC", saved))
    <3>1. "VIC" \in Regs /\ saved \in SUBSET L!Bits["VIC"]
          BY BitsOf DEF Regs, TypeInv
    <3>2. \A r2 \in Regs \ {"VIC"} : reg'[r2] = reg[r2]
          BY <2>2, <3>1, SetEffect DEF TypeInv
    <3>3. reg'["LMP_TIMER"] = reg["LMP_TIMER"] /\ reg'["PROT_INTR"] = reg["PROT_INTR"]
          BY <3>2 DEF Regs
    <3> QED BY <1>2, <1>4, <3>3 DEF Late
  <2>3. CASE UNCHANGED reg
        BY <1>2, <1>4, <2>3 DEF Late
  <2> QED BY <2>1, <2>2, <2>3 DEF L!MainStep
<1> QED BY <1>1, <1>4 DEF TimerInv

LEMMA PartLists ==
    /\ << L!Do("PROT") >> \in Seq(Quiet) /\ << L!Do("LNK") >> \in Seq(Quiet)
    /\ << L!AckAll("DEV_INTR") >> \in Seq(Quiet) /\ <<>> \in Seq(Quiet)
    /\ << L!Do("PROT") >> \in Seq(Op) /\ << L!Do("LNK") >> \in Seq(Op)
    /\ << L!AckAll("DEV_INTR") >> \in Seq(Op) /\ <<>> \in Seq(Op)
<1>1. L!Do("PROT") \in Quiet /\ L!Do("LNK") \in Quiet /\ L!AckAll("DEV_INTR") \in Quiet
      BY OpsOfBoot DEF Other, Names, Quiet
<1>2. /\ << L!Do("PROT") >> \in Seq(Quiet) /\ << L!Do("LNK") >> \in Seq(Quiet)
      /\ << L!AckAll("DEV_INTR") >> \in Seq(Quiet) /\ <<>> \in Seq(Quiet)
      BY <1>1
<1>3. Seq(Quiet) \subseteq Seq(Op)
      BY OpsAreOps, SeqMonotonic
<1> QED BY <1>2, <1>3

LEMMA InterruptsStart ==
    ASSUME TypeInv, TimerInv, L!UsbCoreIsr \/ L!GctlPowerIsr
    PROVE  TypeInv' /\ TimerInv'
<1>1. /\ isr = <<>> /\ UNCHANGED <<reg, main, saved, ack, expected, vbus, events, both>>
      BY DEF L!UsbCoreIsr, L!GctlPowerIsr
<1>2. isr' \in Seq(Op)
  <2>1. CASE L!UsbCoreIsr
    <3> DEFINE a == L!OnlyIf("PROT" \in L!UibRequest, << L!Do("PROT") >>)
               b == L!OnlyIf("LNK" \in L!UibRequest, << L!Do("LNK") >>)
               c == L!OnlyIf("DEV_CTL" \in L!UibRequest, << L!AckAll("DEV_INTR") >>)
    <3>1. a \in Seq(Op) /\ b \in Seq(Op) /\ c \in Seq(Op)
          BY PartLists DEF L!OnlyIf
    <3>2. isr' = a \o b \o c
          BY <2>1 DEF L!UsbCoreIsr
    <3> HIDE DEF a, b, c
    <3> QED BY <3>1, <3>2
  <2>2. CASE L!GctlPowerIsr
        BY <2>2, ListsAreOps DEF L!GctlPowerIsr
  <2> QED BY <2>1, <2>2
<1>3. isr' \in Seq(IsrOp) /\ Followed(isr')
      BY <1>2, OpsAreOps, SeqMonotonic, OpsAreFollowed
<1>4. \A k \in L!Lmp : ~Late(k)
      BY <1>1 DEF TimerInv
<1>5. \A k \in L!Lmp : ~Late(k)'
      BY <1>1, <1>4 DEF Late
<1> QED BY <1>1, <1>3, <1>5 DEF TypeInv, Typed, TimerInv

LEMMA OnlyIfInSeq ==
    ASSUME NEW S, NEW p, NEW ops \in Seq(S)
    PROVE  L!OnlyIf(p, ops) \in Seq(S) /\ (L!OnlyIf(p, ops) = ops \/ L!OnlyIf(p, ops) = <<>>)
BY EmptySeq DEF L!OnlyIf

LEMMA OnlyIfFollowed ==
    ASSUME NEW S, NEW p, NEW ops \in Seq(S), Followed(ops)
    PROVE  Followed(L!OnlyIf(p, ops))
<1>1. Followed(<<>>)
      BY OpsAreFollowed, EmptySeq
<1> QED BY <1>1, OnlyIfInSeq

\* The two parts of the USB interrupt put their lists before the rest.
LEMMA ProtPartTypes ==
    ASSUME TypeInv, TimerInv, isr # <<>>, L!ProtPart
    PROVE  /\ Typed' /\ isr' \in Seq(IsrOp) /\ Followed(isr')
           /\ \A k \in L!Lmp : ~Late(k)'
<1>1. /\ Head(isr) = L!Do("PROT") /\ Tail(isr) \in Seq(IsrOp) /\ Followed(Tail(isr))
      BY HeadOfSeq, FollowedTail DEF L!ProtPart, TypeInv, TimerInv
<1>2. "PROT_INTR" \in Regs /\ L!ProtRequest \in SUBSET L!Bits["PROT_INTR"] /\ Typed
      BY DEF L!ProtRequest, Typed, TypeInv, Regs
<1>3. L!Access(L!Clear("PROT_INTR", L!ProtRequest))
      BY DEF L!ProtPart
<1>4. Typed'
      BY <1>2, <1>3, OnceAccess
<1> DEFINE a == L!OnlyIf(<<"LMP", "PORT_CFG">> \in L!ProtRequest, L!portOps("PORT_CFG"))
           b == L!OnlyIf(<<"LMP", "PORT_CAP">> \in L!ProtRequest, L!portOps("PORT_CAP"))
<1>5. a \in Seq(IsrOp) /\ Followed(a)
  <2>1. "PORT_CFG" \in L!Lmp
        BY DEF L!Lmp
  <2>2. L!portOps("PORT_CFG") \in Seq(IsrOp) /\ Followed(L!portOps("PORT_CFG"))
        BY <2>1, PortOps
  <2> QED BY <2>2, OnlyIfInSeq, OnlyIfFollowed
<1>6. b \in Seq(IsrOp) /\ Followed(b)
  <2>1. "PORT_CAP" \in L!Lmp
        BY DEF L!Lmp
  <2>2. L!portOps("PORT_CAP") \in Seq(IsrOp) /\ Followed(L!portOps("PORT_CAP"))
        BY <2>1, PortOps
  <2> QED BY <2>2, OnlyIfInSeq, OnlyIfFollowed
<1>7. isr' = a \o b \o Tail(isr)
      BY DEF L!ProtPart
<1> HIDE DEF a, b
<1>8. a \o b \in Seq(IsrOp) /\ Followed(a \o b)
      BY <1>5, <1>6, FollowedConcat, ConcatProperties
<1>9. isr' \in Seq(IsrOp) /\ Followed(isr')
      BY <1>1, <1>7, <1>8, FollowedConcat, ConcatProperties
<1>10. ASSUME NEW k \in L!Lmp PROVE ~Late(k)'
  <2>1. ~Late(k)
    <3>1. L!Do("PROT") # L!Clear("PROT_INTR", {<<"TIMEOUT", k>>})
          BY DosAreShort DEF L!Clear
    <3> QED BY <1>1, <3>1 DEF TimerInv
  <2>2. /\ reg'["PROT_INTR"] = reg["PROT_INTR"] \ L!ProtRequest
        /\ \A r2 \in Regs \ {"PROT_INTR"} : reg'[r2] = reg[r2]
        BY <1>2, <1>3, ClearEffect
  <2>3. reg'["LMP_TIMER"] = reg["LMP_TIMER"]
        BY <2>2 DEF Regs
  <2> QED BY <2>1, <2>2, <2>3 DEF Late
<1> QED BY <1>4, <1>9, <1>10

LEMMA LnkPartTypes ==
    ASSUME TypeInv, TimerInv, isr # <<>>, L!LnkPart
    PROVE  /\ Typed' /\ isr' \in Seq(IsrOp) /\ Followed(isr')
           /\ \A k \in L!Lmp : ~Late(k)'
<1>1. /\ Head(isr) = L!Do("LNK") /\ Tail(isr) \in Seq(IsrOp) /\ Followed(Tail(isr))
      BY HeadOfSeq, FollowedTail DEF L!LnkPart, TypeInv, TimerInv
<1>2. "LNK_INTR" \in Regs /\ L!LnkRequest \in SUBSET L!Bits["LNK_INTR"] /\ Typed
      BY DEF L!LnkRequest, Typed, TypeInv, Regs
<1>3. L!Access(L!Clear("LNK_INTR", L!LnkRequest))
      BY DEF L!LnkPart
<1>4. Typed'
      BY <1>2, <1>3, OnceAccess
<1> DEFINE a == L!OnlyIf("DISCONNECT" \in L!LnkRequest, L!connectHighSpeedOps)
           b == L!OnlyIf("CONNECT" \in L!LnkRequest, L!connectSuperSpeedOps)
<1>5. a \in Seq(Op) /\ b \in Seq(Op)
      BY ListsAreOps, OnlyIfInSeq
<1>6. isr' = a \o b \o Tail(isr)
      BY DEF L!LnkPart
<1> HIDE DEF a, b
<1>7. a \o b \in Seq(Op)
      BY <1>5, ConcatProperties
<1>8. a \o b \in Seq(IsrOp) /\ Followed(a \o b)
      BY <1>7, OpsAreFollowed, OpsAreOps, SeqMonotonic
<1>9. isr' \in Seq(IsrOp) /\ Followed(isr')
      BY <1>1, <1>6, <1>8, FollowedConcat, ConcatProperties
<1>10. ASSUME NEW k \in L!Lmp PROVE ~Late(k)'
  <2>1. ~Late(k)
    <3>1. L!Do("LNK") # L!Clear("PROT_INTR", {<<"TIMEOUT", k>>})
          BY DosAreShort DEF L!Clear
    <3> QED BY <1>1, <3>1 DEF TimerInv
  <2>2. \A r2 \in Regs \ {"LNK_INTR"} : reg'[r2] = reg[r2]
        BY <1>2, <1>3, ClearEffect
  <2>3. reg'["LMP_TIMER"] = reg["LMP_TIMER"] /\ reg'["PROT_INTR"] = reg["PROT_INTR"]
        BY <2>2 DEF Regs
  <2> QED BY <2>1, <2>3 DEF Late
<1> QED BY <1>4, <1>9, <1>10

LEMMA IsrAccessTimers ==
    ASSUME TypeInv, TimerInv, isr # <<>>, L!Step(isr, isr')
    PROVE  TimerInv'
<1>1. /\ Head(isr) \in AnyOp /\ Followed(Tail(isr)) /\ Tail(isr) \in Seq(IsrOp)
      /\ Typed
      BY HeadOfSeq, FollowedTail DEF TypeInv, TimerInv, AnyOp
<1>2. ASSUME NEW k \in L!Lmp, Late(k)'
      PROVE  isr' # <<>> /\ Head(isr') = L!Clear("PROT_INTR", {<<"TIMEOUT", k>>})
  <2>1. CASE /\ \E r \in Regs : Head(isr) \in AccessTo(r)
             /\ L!Access(Head(isr)) /\ isr' = Tail(isr)
    <3>1. /\ Late(k) \/ Head(isr) = L!Clear("LMP_TIMER", {k})
          /\ Head(isr) # L!Clear("PROT_INTR", {<<"TIMEOUT", k>>})
          BY <1>1, <1>2, <2>1, AccessTimers
    <3>2. Head(isr) = L!Clear("LMP_TIMER", {k})
          BY <3>1 DEF TimerInv
    <3> QED BY <2>1, <3>2, FollowedTail DEF TypeInv, TimerInv
  <2>2. CASE reg' = reg /\ \E name : Head(isr) = L!Do(name)
    <3>1. Late(k)
          BY <1>2, <2>2 DEF Late
    <3>2. Head(isr) = L!Clear("PROT_INTR", {<<"TIMEOUT", k>>})
          BY <3>1 DEF TimerInv
    <3> QED BY <2>2, <3>2, DosAreShort DEF L!Clear
  <2> QED BY <1>1, <2>1, <2>2, StepCases
<1>3. Followed(isr')
  <2>1. isr' \in {Tail(isr), L!WritePhyReg \o Tail(isr)}
        BY <1>1, StepCases
  <2>2. Followed(L!WritePhyReg) /\ L!WritePhyReg \in Seq(IsrOp)
        BY PhyRegisterOps, OpsAreFollowed, OpsAreOps, SeqMonotonic
  <2>3. Followed(L!WritePhyReg \o Tail(isr))
        BY <1>1, <2>2, FollowedConcat
  <2> QED BY <1>1, <2>1, <2>3
<1> QED BY <1>2, <1>3 DEF TimerInv

LEMMA IsrStepTypes ==
    ASSUME TypeInv, TimerInv, L!IsrStep
    PROVE  TypeInv' /\ TimerInv'
<1>1. isr # <<>> /\ UNCHANGED <<main, saved, ack, expected, vbus, events, both>>
      BY DEF L!IsrStep
<1>2. Typed' /\ isr' \in Seq(IsrOp) /\ TimerInv'
  <2>1. CASE L!ProtPart
        BY <1>1, <2>1, ProtPartTypes DEF TimerInv
  <2>2. CASE L!LnkPart
        BY <1>1, <2>2, LnkPartTypes DEF TimerInv
  <2>3. CASE L!Step(isr, isr')
    <3>1. Typed /\ Op \subseteq IsrOp /\ IsrOp \subseteq AnyOp /\ isr \in Seq(IsrOp)
          BY OpsAreOps DEF TypeInv, AnyOp
    <3> QED BY <1>1, <2>3, <3>1, StepTypes, IsrAccessTimers
  <2> QED BY <2>1, <2>2, <2>3 DEF L!IsrStep
<1> QED BY <1>1, <1>2 DEF TypeInv

LEMMA LatchTypes ==
    ASSUME TypeInv, NEW r \in Regs, NEW bit \in L!Bits[r], L!Latch(r, bit)
    PROVE  /\ Typed' /\ events' \in 0 .. MaxEvents
           /\ reg'[r] = reg[r] \cup {bit} /\ \A r2 \in Regs \ {r} : reg'[r2] = reg[r2]
           /\ UNCHANGED <<main, saved, isr, ack, expected>>
<1>1. {bit} \in SUBSET L!Bits[r] /\ L!Access(L!Set(r, {bit})) /\ Typed
      BY DEF L!Latch, TypeInv
<1>2. events' \in 0 .. MaxEvents
      BY MaxEventsAssumption DEF L!Latch, TypeInv
<1>3. UNCHANGED <<main, saved, isr, ack, expected>>
      BY DEF L!Latch
<1> QED BY <1>1, <1>2, <1>3, OnceAccess, SetEffect

LEMMA LinkEventTypes ==
    ASSUME TypeInv, TimerInv, NEW e \in L!LnkEvent, L!LinkEvent(e)
    PROVE  TypeInv' /\ TimerInv'
<1>1. "LNK_INTR" \in Regs /\ e \in L!Bits["LNK_INTR"] /\ L!Latch("LNK_INTR", e)
      BY BitsOf DEF Regs, L!LinkEvent
<1>2. /\ Typed' /\ events' \in 0 .. MaxEvents
      /\ \A r2 \in Regs \ {"LNK_INTR"} : reg'[r2] = reg[r2]
      /\ UNCHANGED <<main, saved, isr, ack, expected>>
      BY <1>1, LatchTypes
<1>3. both' \in BOOLEAN /\ vbus' \in BOOLEAN
      BY DEF L!LinkEvent, TypeInv
<1>4. reg'["LMP_TIMER"] = reg["LMP_TIMER"] /\ reg'["PROT_INTR"] = reg["PROT_INTR"]
      BY <1>2 DEF Regs
<1>5. \A k \in L!Lmp : Late(k)' => Late(k)
      BY <1>4 DEF Late
<1> QED BY <1>2, <1>3, <1>5 DEF TypeInv, TimerInv

LEMMA PortEventTypes ==
    ASSUME TypeInv, TimerInv, NEW kind \in {"LMP", "TIMEOUT"}, NEW k \in L!Lmp,
           L!PortEvent(kind, k)
    PROVE  TypeInv' /\ TimerInv'
<1>1. /\ "PROT_INTR" \in Regs /\ <<kind, k>> \in L!Bits["PROT_INTR"]
      /\ L!Latch("PROT_INTR", <<kind, k>>)
  <2>1. <<kind, k>> \in L!ProtEvent
        BY DEF L!ProtEvent
  <2> QED BY <2>1, BitsOf DEF Regs, L!PortEvent
<1>2. /\ Typed' /\ events' \in 0 .. MaxEvents
      /\ reg'["PROT_INTR"] = reg["PROT_INTR"] \cup {<<kind, k>>}
      /\ \A r2 \in Regs \ {"PROT_INTR"} : reg'[r2] = reg[r2]
      /\ UNCHANGED <<main, saved, isr, ack, expected>>
      BY <1>1, LatchTypes
<1>3. UNCHANGED <<vbus, both>>
      BY DEF L!PortEvent
<1>4. reg'["LMP_TIMER"] = reg["LMP_TIMER"]
      BY <1>2 DEF Regs
<1>5. ASSUME NEW k2 \in L!Lmp, Late(k2)' PROVE Late(k2)
  <2>1. k2 \notin reg["LMP_TIMER"]
        BY <1>4, <1>5 DEF Late
  <2>2. <<"TIMEOUT", k2>> # <<kind, k>>
    <3>1. ASSUME <<"TIMEOUT", k2>> = <<kind, k>> PROVE FALSE
      <4>1. kind = "TIMEOUT" /\ k2 = k
            BY <3>1
      <4> QED BY <2>1, <4>1 DEF L!PortEvent
    <3> QED BY <3>1
  <2> QED BY <1>2, <1>5, <2>1, <2>2 DEF Late
<1> QED BY <1>2, <1>3, <1>5 DEF TypeInv, TimerInv

LEMMA OtherEventTypes ==
    ASSUME TypeInv, TimerInv, (\E e \in L!DevEvent : L!DeviceEvent(e)) \/ L!VbusChanges
    PROVE  TypeInv' /\ TimerInv'
<1>1. PICK r \in {"DEV_INTR", "IOPOWER"} : \E bit \in L!Bits[r] : L!Latch(r, bit)
      BY BitsOf DEF L!DeviceEvent, L!VbusChanges
<1>2. /\ Typed' /\ events' \in 0 .. MaxEvents
      /\ \A r2 \in Regs \ {r} : reg'[r2] = reg[r2]
      /\ UNCHANGED <<main, saved, isr, ack, expected>>
  <2>1. r \in Regs
        BY DEF Regs
  <2> QED BY <1>1, <2>1, LatchTypes
<1>3. both' \in BOOLEAN /\ vbus' \in BOOLEAN
      BY DEF L!DeviceEvent, L!VbusChanges, TypeInv
<1>4. reg'["LMP_TIMER"] = reg["LMP_TIMER"] /\ reg'["PROT_INTR"] = reg["PROT_INTR"]
      BY <1>2 DEF Regs
<1>5. \A k \in L!Lmp : Late(k)' => Late(k)
      BY <1>4 DEF Late
<1> QED BY <1>2, <1>3, <1>5 DEF TypeInv, TimerInv

LEMMA PhyFollowsTypes ==
    ASSUME TypeInv, TimerInv, L!PhyFollows
    PROVE  TypeInv' /\ TimerInv'
<1>1. /\ UNCHANGED <<reg, main, saved, isr, vbus, events, both>> /\ ack' \in BOOLEAN
      BY DEF L!PhyFollows
<1>2. expected' \in {"address", "data", "write"}
  <2>1. expected = "address" \/ expected = "data" \/ expected = "write"
        BY DEF TypeInv
  <2> QED BY <2>1 DEF L!PhyFollows
<1>3. \A k \in L!Lmp : Late(k)' = Late(k)
      BY <1>1 DEF Late
<1>4. Typed'
      BY <1>1 DEF Typed, TypeInv
<1> QED BY <1>1, <1>2, <1>3, <1>4 DEF TypeInv, TimerInv

LEMMA LinkStutters ==
    ASSUME TypeInv, TimerInv, UNCHANGED linkVars
    PROVE  TypeInv' /\ TimerInv'
<1>1. \A k \in L!Lmp : Late(k)' = Late(k)
      BY DEF Late, linkVars
<1>2. Typed'
      BY DEF Typed, TypeInv, linkVars
<1> QED BY <1>1, <1>2 DEF TypeInv, TimerInv, linkVars

allVars == <<part, vars, linkVars>>

LEMMA LinkInit ==
    ASSUME L!Init
    PROVE  TypeInv /\ TimerInv
<1>1. PICK otg \in SUBSET L!Bits.OTG_CTRL, pwr \in SUBSET L!Bits.DEV_PWR, lnk \in SUBSET L!LnkEvent :
        reg = [r \in DOMAIN L!Bits |-> CASE r = "OTG_CTRL" -> otg
                                         [] r = "DEV_PWR"  -> pwr
                                         [] r = "LNK_INTR" -> lnk
                                         [] r = "CORE_CLK" -> {"EN", "PCLK1", "EPMCLK1"}
                                         [] OTHER          -> {}]
      BY DEF L!Init
<1>2. reg = [r \in Regs |-> reg[r]]
      BY <1>1, RegsOfBits
<1>3. /\ reg["OTG_CTRL"] = otg /\ reg["DEV_PWR"] = pwr /\ reg["LNK_INTR"] = lnk
      /\ reg["CORE_CLK"] = {"EN", "PCLK1", "EPMCLK1"}
      /\ \A r \in Regs \ {"OTG_CTRL", "DEV_PWR", "LNK_INTR", "CORE_CLK"} : reg[r] = {}
      BY <1>1, RegsOfBits DEF Regs
<1>4. {"EN", "PCLK1", "EPMCLK1"} \subseteq L!Bits["CORE_CLK"]
      BY DEF L!Bits
<1>5. ASSUME NEW r \in Regs PROVE reg[r] \subseteq L!Bits[r]
      BY <1>3, <1>4, BitsOf
<1>6. main \in Seq(MainOp) /\ isr \in Seq(IsrOp) /\ Followed(isr) /\ isr = <<>>
  <2>1. main \in Seq(MainOp)
        BY ListsAreOps, OpsAreOps, SeqMonotonic DEF L!Init, bootOps
  <2>2. isr = <<>>
        BY DEF L!Init
  <2> QED BY <2>1, <2>2, OpsAreFollowed, EmptySeq
<1>7. \A k \in L!Lmp : ~Late(k)
      BY <1>3 DEF Late, Regs
<1>8. ack \in BOOLEAN /\ vbus \in BOOLEAN /\ both \in BOOLEAN
      BY DEF L!Init
<1>9. saved = {} /\ expected = "address" /\ events = 0
      BY DEF L!Init
<1>10. saved \subseteq L!Irq /\ expected \in {"address", "data", "write"} /\ events \in 0 .. MaxEvents
      BY <1>9, MaxEventsAssumption
<1> QED BY <1>2, <1>5, <1>6, <1>7, <1>8, <1>10 DEF TypeInv, TimerInv, Typed

LEMMA LinkSteps ==
    ASSUME TypeInv, TimerInv, [MCNext]_allVars
    PROVE  TypeInv' /\ TimerInv'
<1>1. CASE L!MainStep
      BY <1>1, MainStepTypes, MainStepTimers
<1>2. CASE L!UsbCoreIsr \/ L!GctlPowerIsr
      BY <1>2, InterruptsStart
<1>3. CASE L!IsrStep
      BY <1>3, IsrStepTypes
<1>4. CASE L!PhyFollows
      BY <1>4, PhyFollowsTypes
<1>5. CASE \E e \in L!LnkEvent : L!LinkEvent(e)
      BY <1>5, LinkEventTypes
<1>6. CASE \E kind \in {"LMP", "TIMEOUT"}, k \in L!Lmp : L!PortEvent(kind, k)
      BY <1>6, PortEventTypes
<1>7. CASE (\E e \in L!DevEvent : L!DeviceEvent(e)) \/ L!VbusChanges
      BY <1>7, OtherEventTypes
<1>8. CASE UNCHANGED linkVars
      BY <1>8, LinkStutters
<1>9. L!MainLoop => UNCHANGED linkVars
      BY DEF L!MainLoop, L!vars, linkVars
<1>10. L!Next \/ UNCHANGED linkVars
      BY DEF MCNext, allVars
<1> QED BY <1>1, <1>2, <1>3, <1>4, <1>5, <1>6, <1>7, <1>8, <1>9, <1>10 DEF L!Next

(***************************************************************************)
(* The types of the link's registers and lists, and the timers, hold always *)
(* (usb.c:38-530).                                                          *)
(***************************************************************************)
THEOREM TimersFollowed ==
    MCSpec => [](TypeInv /\ TimerInv)
<1>1. MCInit => TypeInv /\ TimerInv
      BY LinkInit DEF MCInit
<1>2. TypeInv /\ TimerInv /\ [MCNext]_allVars => (TypeInv /\ TimerInv)'
      BY LinkSteps
<1> QED BY <1>1, <1>2, PTL DEF MCSpec, allVars

(***************************************************************************)
(* Once the partner's LMP has been handled its timeout is not reported,     *)
(* whenever the timer ran out, for any number of events (usb.c:394-406).    *)
(***************************************************************************)
THEOREM TimeoutsAreNotLate ==
    MCSpec => []NoLateTimeout
<1>1. TypeInv /\ TimerInv => NoLateTimeout
      BY DEF TimerInv, NoLateTimeout, L!NoLateTimeout, L!Idle, Late
<1> QED BY <1>1, TimersFollowed, PTL

-----------------------------------------------------------------------------
(***************************************************************************)
(* The lists, access by access.                                             *)
(***************************************************************************)
LEMMA BootOps ==
    /\ Len(bootOps) = 18
    /\ bootOps[1] = L!Clear("CORE_CLK", {"EN"})
    /\ bootOps[2] = L!Write("CORE_CLK", {"PCLK2", "EPMCLK2"})
    /\ bootOps[3] = L!Set("CORE_CLK", {"EN"}) /\ bootOps[4] = L!Write("CONTROL", {})
    /\ bootOps[5] = L!Write("OTG_CTRL", {}) /\ bootOps[6] = L!Set("DEV_PWR", {"DISCON"})
    /\ bootOps[7] = L!Write("PHY_CONF", {"RX_TERMINATION"})
    /\ bootOps[8] = L!AckAll("LNK_INTR") /\ bootOps[9] = L!Write("LNK_MASK", L!LnkEvent)
    /\ bootOps[10] = L!AckAll("PROT_INTR") /\ bootOps[11] = L!Write("PROT_MASK", L!ProtEvent)
    /\ bootOps[12] = L!AckAll("DEV_INTR") /\ bootOps[13] = L!Write("EPM0", {64})
    /\ bootOps[14] = L!Write("UIB_MASK", {}) /\ bootOps[15] = L!Clear("VIC", L!Irq)
    /\ bootOps[16] = L!Clear("IOPOWER", {"VBUS"})
    /\ bootOps[17] = L!Set("VIC", {"GCTL_POWER"}) /\ bootOps[18] = L!Do("ifVbus")
BY DEF bootOps, L!initOps, L!connectOps, L!clockOps

LEMMA EnableOps ==
    /\ Len(L!enablePhyOps) = 22
    /\ L!enablePhyOps[1] = L!AckAll("LNK_INTR")
    /\ L!enablePhyOps[2] = L!Write("LNK_MASK", L!LnkEvent)
    /\ L!enablePhyOps[3] = L!AckAll("PROT_INTR")
    /\ L!enablePhyOps[4] = L!Write("PROT_MASK", L!ProtEvent)
    /\ L!enablePhyOps[5] = L!AckAll("DEV_INTR")
    /\ L!enablePhyOps[6] = L!Write("UIB_MASK", {"PROT", "LNK", "DEV_CTL"})
    /\ L!enablePhyOps[7] = L!Set("VIC", {"USB_CORE"})
    /\ L!enablePhyOps[8] = L!Set("CONTROL", {"USB_POWER"})
    /\ L!enablePhyOps[9] = L!Write("LMP_TIMER", L!Lmp)
    /\ L!enablePhyOps[10] = L!Write("PHY_CONF", {}) /\ L!enablePhyOps[11] = L!Do("save")
    /\ L!enablePhyOps[12] = L!AckAll("VIC")
    /\ L!enablePhyOps[13] = L!Clear("CORE_CLK", {"EN"})
    /\ L!enablePhyOps[14] = L!Write("CORE_CLK", {"PCLK2", "EPMCLK2"})
    /\ L!enablePhyOps[15] = L!Set("CORE_CLK", {"EN"})
    /\ L!enablePhyOps[16] = L!Write("LTSSM", {"OVERRIDE"})
    /\ L!enablePhyOps[17] = L!Set("OTG_CTRL", {"SSDEV"}) /\ L!enablePhyOps[18] = L!Do("phy")
    /\ L!enablePhyOps[19] = L!Clear("LTSSM", {"OVERRIDE"})
    /\ L!enablePhyOps[20] = L!Write("PHY_CONF", {"RX_TERMINATION"})
    /\ L!enablePhyOps[21] = L!Write("CORE_CLK", {"EN", "PCLK1", "EPMCLK1"})
    /\ L!enablePhyOps[22] = L!Do("restore")
BY DEF L!enablePhyOps, L!preparePhyOps, L!startPhyOps, L!clockOps

LEMMA FallOps ==
    /\ Len(L!connectHighSpeedOps) = 23
    /\ L!connectHighSpeedOps[1] = L!Do("phy")
    /\ L!connectHighSpeedOps[2] = L!Write("LTSSM", {"OVERRIDE"})
    /\ L!connectHighSpeedOps[3] = L!Clear("CORE_CLK", {"EN"})
    /\ L!connectHighSpeedOps[4] = L!Write("CORE_CLK", {"PCLK2", "EPMCLK2"})
    /\ L!connectHighSpeedOps[5] = L!Set("CORE_CLK", {"EN"})
    /\ L!connectHighSpeedOps[6] = L!Clear("OTG_CTRL", {"SSDEV"})
    /\ L!connectHighSpeedOps[7] = L!Clear("OTG_CTRL", {"SSEPM"})
    /\ L!connectHighSpeedOps[8] = L!Clear("UIB_MASK", L!UibGroups)
    /\ L!connectHighSpeedOps[9] = L!Clear("PHY_CONF", {"RX_TERMINATION"})
    /\ L!connectHighSpeedOps[10] = L!Clear("CONTROL", {"USB_POWER"})
    /\ L!connectHighSpeedOps[11] = L!Set("CONTROL", {"USB_POWER"})
    /\ L!connectHighSpeedOps[12] = L!AckAll("DEV_INTR")
    /\ L!connectHighSpeedOps[13] = L!Write("LNK_MASK", {})
    /\ L!connectHighSpeedOps[14] = L!AckAll("LNK_INTR")
    /\ L!connectHighSpeedOps[15] = L!Write("PROT_MASK", {})
    /\ L!connectHighSpeedOps[16] = L!AckAll("PROT_INTR")
    /\ L!connectHighSpeedOps[17] = L!Set("UIB_MASK", L!UibGroups)
    /\ L!connectHighSpeedOps[18] = L!Write("DEV_PWR", {"DISCON"})
    /\ L!connectHighSpeedOps[19] = L!Set("OTG_CTRL", {"DEV"})
    /\ L!connectHighSpeedOps[20] = L!Clear("CORE_CLK", {"EN"})
    /\ L!connectHighSpeedOps[21] = L!Write("CORE_CLK", {"PCLK2", "EPMCLK0"})
    /\ L!connectHighSpeedOps[22] = L!Set("CORE_CLK", {"EN"})
    /\ L!connectHighSpeedOps[23] = L!Clear("DEV_PWR", {"DISCON"})
BY DEF L!connectHighSpeedOps, L!superSpeedOffOps, L!clockOps,
       L!superSpeedEventsOffOps, L!highSpeedOnOps

LEMMA RiseOps ==
    /\ Len(L!connectSuperSpeedOps) = 10
    /\ L!connectSuperSpeedOps[1] = L!Do("phy") /\ L!connectSuperSpeedOps[2] = L!Do("phy")
    /\ L!connectSuperSpeedOps[3] = L!Clear("CORE_CLK", {"EN"})
    /\ L!connectSuperSpeedOps[4] = L!Write("CORE_CLK", {"PCLK1", "EPMCLK1"})
    /\ L!connectSuperSpeedOps[5] = L!Set("CORE_CLK", {"EN"})
    /\ L!connectSuperSpeedOps[6] = L!Write("PHY_CONF", {"RX_TERMINATION"})
    /\ L!connectSuperSpeedOps[7] = L!Set("OTG_CTRL", {"SSEPM"})
    /\ L!connectSuperSpeedOps[8] = L!Do("phy") /\ L!connectSuperSpeedOps[9] = L!Do("phy")
    /\ L!connectSuperSpeedOps[10] = L!Write("EPM0", {512})
BY DEF L!connectSuperSpeedOps, L!clockOps

LEMMA AckEffect ==
    ASSUME Typed, NEW r \in Regs, L!Access(L!AckAll(r))
    PROVE  reg'[r] = {} /\ \A r2 \in Regs \ {r} : reg'[r2] = reg[r2]
<1>1. /\ reg'[r] = reg[r] \ L!Bits[r] /\ \A r2 \in Regs \ {r} : reg'[r2] = reg[r2]
      BY ClearEffect DEF L!AckAll
<1>2. reg[r] \subseteq L!Bits[r]
      BY DEF Typed
<1> QED BY <1>1, <1>2

LEMMA LenOfAccess ==
    ASSUME NEW r, NEW bits
    PROVE  /\ Len(L!Write(r, bits)) = 3 /\ Len(L!Set(r, bits)) = 3 /\ Len(L!Clear(r, bits)) = 3
           /\ Len(L!AckAll(r)) = 3
BY DEF L!Write, L!Set, L!Clear, L!AckAll

\* A step of main where an access is due, and one where main asks for the PHY.
LEMMA MainAccess ==
    ASSUME TypeInv, L!MainStep, Len(Head(main)) = 3
    PROVE  L!Access(Head(main)) /\ main' = Tail(main) /\ UNCHANGED <<saved, isr, both>> /\ isr = <<>>
<1>1. /\ Head(main) # L!Do("phy") /\ Head(main) # L!Do("acknowledged")
      /\ Head(main) # L!Do("released") /\ Head(main) # L!Do("ifVbus")
      /\ Head(main) # L!Do("save") /\ Head(main) # L!Do("restore")
      BY DosAreShort
<1>2. L!Step(main, main') => L!Access(Head(main)) /\ main' = Tail(main)
      BY <1>1 DEF L!Step
<1>3. L!Step(main, main') /\ UNCHANGED <<saved, isr, both>> /\ isr = <<>>
      BY <1>1 DEF L!MainStep
<1> QED BY <1>2, <1>3

LEMMA MainAt ==
    ASSUME TypeInv, L!MainStep, NEW ops \in Seq(MainOp), NEW n \in Nat, n < Len(ops),
           main = Rest(ops, n)
    PROVE  Head(main) = ops[n + 1] /\ Tail(main) = Rest(ops, n + 1)
<1>1. <<>> \in Seq(MainOp)
      BY EmptySeq
<1>2. n \in 0 .. Len(ops) /\ n + 1 \in 0 .. Len(ops)
      BY LenProperties
<1>3. Rest(ops, n) \in Seq(MainOp) /\ Rest(ops, n + 1) \in Seq(MainOp)
      BY <1>2, RestOfSeq
<1>4. Rest(ops, n) \o <<>> = Rest(ops, n) /\ Rest(ops, n + 1) \o <<>> = Rest(ops, n + 1)
      BY <1>3, ConcatEmptySeq
<1>5. /\ Head(Rest(ops, n) \o <<>>) = ops[n + 1]
      /\ Tail(Rest(ops, n) \o <<>>) = Rest(ops, n + 1) \o <<>>
      BY <1>1, TakeOne
<1> QED BY <1>4, <1>5

-----------------------------------------------------------------------------
(***************************************************************************)
(* The invariant of the modes: what the registers hold at each place of the *)
(* lists that main and the handler go through.  What the handler has left   *)
(* to do begins, and ends, with steps that touch no mode.                   *)
(***************************************************************************)
Light == {"PHY_REQ", "LMP_TIMER", "PROT_INTR", "DEV_INTR", "IOPOWER"}

Inert == PhyStep \cup StopTimer \cup ClearEvents
         \cup {L!Do("PROT"), L!AckAll("DEV_INTR"), L!AckAll("IOPOWER")}

LinkGroups == {"PROT", "LNK", "DEV_CTL"}

BothInv == reg["LNK_INTR"] = L!LnkEvent => both

PowerOnly == isr \in {<<>>, L!powerOps}

BootAt(n) ==
    /\ PowerOnly
    /\ n < 17 => reg["VIC"] = {} /\ isr = <<>>
    /\ n >= 4 => reg["CONTROL"] = {}
    /\ n >= 5 => reg["OTG_CTRL"] = {}
    /\ n >= 6 => reg["DEV_PWR"] = {"DISCON"}
    /\ n >= 8 => reg["LNK_INTR"] = {}
    /\ n >= 10 => reg["PROT_INTR"] = {}
    /\ n >= 12 => reg["DEV_INTR"] = {}
    /\ n >= 17 => reg["VIC"] = {"GCTL_POWER"}

EnablingAt(n) ==
    /\ PowerOnly
    /\ reg["DEV_PWR"] = {"DISCON"}
    /\ n < 17 => /\ reg["OTG_CTRL"] = {} /\ reg["LNK_INTR"] = {}
                 /\ reg["PROT_INTR"] = {} /\ reg["DEV_INTR"] = {}
    /\ n >= 17 => reg["OTG_CTRL"] = {"SSDEV"}
    /\ n >= 2 => reg["LNK_MASK"] = L!LnkEvent
    /\ n >= 6 => reg["UIB_MASK"] = LinkGroups
    /\ n < 7 => reg["VIC"] = {"GCTL_POWER"}
    /\ n >= 7 /\ n < 12 => reg["VIC"] = L!Irq
    /\ n >= 12 => reg["VIC"] = {} /\ isr = <<>>
    /\ n >= 8 => reg["CONTROL"] = {"USB_POWER"}
    /\ n >= 11 => saved = L!Irq
    /\ n >= 20 => reg["PHY_CONF"] = {"RX_TERMINATION"}
    /\ n >= 21 => reg["CORE_CLK"] = {"EN", "PCLK1", "EPMCLK1"}

Booting == \E n \in Nat : n < 18 /\ main = Rest(bootOps, n) /\ BootAt(n)

Enabling ==
    \E n \in Nat, p \in Seq(PhyStep) :
        /\ n < 22 /\ (p = <<>> \/ n = 18)
        /\ main = p \o Rest(L!enablePhyOps, n) /\ EnablingAt(n)

\* The modes of the link, when main is done.
Off ==
    /\ reg["OTG_CTRL"] = {} /\ reg["CONTROL"] = {} /\ reg["DEV_PWR"] = {"DISCON"}
    /\ reg["VIC"] = {"GCTL_POWER"}

SsOn ==
    /\ "SSDEV" \in reg["OTG_CTRL"] /\ "DEV" \notin reg["OTG_CTRL"]
    /\ reg["DEV_PWR"] = {"DISCON"} /\ reg["CONTROL"] = {"USB_POWER"} /\ reg["VIC"] = L!Irq
    /\ LinkGroups \subseteq reg["UIB_MASK"] /\ reg["LNK_MASK"] = L!LnkEvent
    /\ reg["PHY_CONF"] = {"RX_TERMINATION"}

SsClock == reg["CORE_CLK"] = {"EN", "PCLK1", "EPMCLK1"}

Fallen == "SSDEV" \notin reg["OTG_CTRL"] /\ reg["DEV_PWR"] = {} /\ reg["LNK_MASK"] = {}

HsUp ==
    /\ reg["OTG_CTRL"] = {"DEV"} /\ reg["PHY_CONF"] = {}
    /\ reg["CORE_CLK"] = {"EN", "PCLK2", "EPMCLK0"} /\ reg["CONTROL"] = {"USB_POWER"}
    /\ reg["VIC"] = L!Irq /\ LinkGroups \subseteq reg["UIB_MASK"]

\* Before access n + 1 of the fallback, and of the connection at super speed.
FallingAt(n) ==
    /\ reg["DEV_PWR"] = {"DISCON"} /\ reg["VIC"] = L!Irq
    /\ n < 19 => "DEV" \notin reg["OTG_CTRL"]
    /\ n >= 6 => "SSDEV" \notin reg["OTG_CTRL"]
    /\ n >= 7 => "SSEPM" \notin reg["OTG_CTRL"]
    /\ n >= 9 => reg["PHY_CONF"] = {}
    /\ n >= 11 => reg["CONTROL"] = {"USB_POWER"}
    /\ n >= 13 => reg["LNK_MASK"] = {}
    /\ n >= 17 => LinkGroups \subseteq reg["UIB_MASK"]
    /\ n >= 19 => "DEV" \in reg["OTG_CTRL"]
    /\ n >= 21 => {"PCLK2", "EPMCLK0"} \subseteq reg["CORE_CLK"]
    /\ n >= 21 => reg["CORE_CLK"] \subseteq {"EN", "PCLK2", "EPMCLK0"}
    /\ n >= 22 => "EN" \in reg["CORE_CLK"]

RisingAt(n) ==
    /\ SsOn
    /\ n <= 2 \/ n >= 5 => SsClock
    /\ n = 4 => reg["CORE_CLK"] = {"PCLK1", "EPMCLK1"}

Rises(list, n) ==
    \E p \in Seq(Inert), q \in Seq(Inert) :
        list = p \o (Rest(L!connectSuperSpeedOps, n) \o q)

\* What follows the fallback: nothing of the link, or a connection both asked for.
Ending(t) ==
    \/ t \in Seq(Inert)
    \/ both /\ \E q \in Seq(Inert) : t = L!connectSuperSpeedOps \o q

Calm == isr \in Seq(Inert)

Asked == \E p \in Seq(Inert), q \in Seq(Inert) : isr = p \o (<< L!Do("LNK") >> \o q)

Falling ==
    \E n \in Nat, p \in Seq(Inert), t \in Seq(Op \cup Inert) :
        n < 23 /\ isr = p \o (Rest(L!connectHighSpeedOps, n) \o t) /\ Ending(t) /\ FallingAt(n)

Rising == \E n \in Nat : n < 10 /\ Rises(isr, n) /\ RisingAt(n)

\* At high speed, and the list of a connection still to go through, when both asked.
FallenBack ==
    /\ Fallen
    /\ \/ Calm /\ (both \/ HsUp)
       \/ both /\ \E n \in Nat : n < 10 /\ Rises(isr, n)

Running ==
    /\ main = <<>>
    /\ \/ Off /\ Calm
       \/ SsOn /\ SsClock /\ (Calm \/ Asked)
       \/ Falling \/ Rising \/ FallenBack

ModeInv == Booting \/ (BothInv /\ (Enabling \/ Running))

LEMMA BootStep ==
    ASSUME TypeInv, L!MainStep, NEW n \in Nat, n < 17, main = Rest(bootOps, n), BootAt(n)
    PROVE  Booting'
<1>1. bootOps \in Seq(MainOp) /\ Len(bootOps) = 18
      BY BootOps, ListsAreOps, OpsAreOps, SeqMonotonic
<1>2. Head(main) = bootOps[n + 1] /\ Tail(main) = Rest(bootOps, n + 1)
  <2>1. n < Len(bootOps)
        BY <1>1
  <2> QED BY <1>1, <2>1, MainAt
<1>3. Typed
      BY DEF TypeInv
<1>4. ASSUME NEW k \in Nat, k < 18, main' = Rest(bootOps, k), BootAt(k)' PROVE Booting'
      BY <1>4 DEF Booting
<1>5. CASE n = 0
  <2>1. Head(main) = L!Clear("CORE_CLK", {"EN"}) /\ Tail(main) = Rest(bootOps, 1)
        BY <1>2, <1>5, BootOps, SMTT(40)
  <2>2. L!Access(L!Clear("CORE_CLK", {"EN"})) /\ main' = Rest(bootOps, 1) /\ UNCHANGED isr
        BY <2>1, LenOfAccess, MainAccess
  <2>3. /\ reg'["CORE_CLK"] = reg["CORE_CLK"] \ {"EN"}
        /\ reg'["VIC"] = reg["VIC"] /\ reg'["CONTROL"] = reg["CONTROL"]
        /\ reg'["OTG_CTRL"] = reg["OTG_CTRL"] /\ reg'["DEV_PWR"] = reg["DEV_PWR"]
        /\ reg'["LNK_INTR"] = reg["LNK_INTR"] /\ reg'["PROT_INTR"] = reg["PROT_INTR"]
        /\ reg'["DEV_INTR"] = reg["DEV_INTR"]
        BY <1>3, <2>2, ClearEffect DEF Regs
  <2>4. BootAt(1)'
        BY <1>5, <2>2, <2>3 DEF BootAt, PowerOnly
  <2> QED BY <1>4, <2>2, <2>4
<1>6. CASE n = 1
  <2>1. Head(main) = L!Write("CORE_CLK", {"PCLK2", "EPMCLK2"}) /\ Tail(main) = Rest(bootOps, 2)
        BY <1>2, <1>6, BootOps, SMTT(40)
  <2>2. L!Access(L!Write("CORE_CLK", {"PCLK2", "EPMCLK2"})) /\ main' = Rest(bootOps, 2) /\ UNCHANGED isr
        BY <2>1, LenOfAccess, MainAccess
  <2>3. /\ reg'["CORE_CLK"] = {"PCLK2", "EPMCLK2"}
        /\ reg'["VIC"] = reg["VIC"] /\ reg'["CONTROL"] = reg["CONTROL"]
        /\ reg'["OTG_CTRL"] = reg["OTG_CTRL"] /\ reg'["DEV_PWR"] = reg["DEV_PWR"]
        /\ reg'["LNK_INTR"] = reg["LNK_INTR"] /\ reg'["PROT_INTR"] = reg["PROT_INTR"]
        /\ reg'["DEV_INTR"] = reg["DEV_INTR"]
        BY <1>3, <2>2, WriteEffect DEF Regs
  <2>4. BootAt(2)'
        BY <1>6, <2>2, <2>3 DEF BootAt, PowerOnly
  <2> QED BY <1>4, <2>2, <2>4
<1>7. CASE n = 2
  <2>1. Head(main) = L!Set("CORE_CLK", {"EN"}) /\ Tail(main) = Rest(bootOps, 3)
        BY <1>2, <1>7, BootOps, SMTT(40)
  <2>2. L!Access(L!Set("CORE_CLK", {"EN"})) /\ main' = Rest(bootOps, 3) /\ UNCHANGED isr
        BY <2>1, LenOfAccess, MainAccess
  <2>3. /\ reg'["CORE_CLK"] = reg["CORE_CLK"] \cup {"EN"}
        /\ reg'["VIC"] = reg["VIC"] /\ reg'["CONTROL"] = reg["CONTROL"]
        /\ reg'["OTG_CTRL"] = reg["OTG_CTRL"] /\ reg'["DEV_PWR"] = reg["DEV_PWR"]
        /\ reg'["LNK_INTR"] = reg["LNK_INTR"] /\ reg'["PROT_INTR"] = reg["PROT_INTR"]
        /\ reg'["DEV_INTR"] = reg["DEV_INTR"]
        BY <1>3, <2>2, SetEffect DEF Regs
  <2>4. BootAt(3)'
        BY <1>7, <2>2, <2>3 DEF BootAt, PowerOnly
  <2> QED BY <1>4, <2>2, <2>4
<1>8. CASE n = 3
  <2>1. Head(main) = L!Write("CONTROL", {}) /\ Tail(main) = Rest(bootOps, 4)
        BY <1>2, <1>8, BootOps, SMTT(40)
  <2>2. L!Access(L!Write("CONTROL", {})) /\ main' = Rest(bootOps, 4) /\ UNCHANGED isr
        BY <2>1, LenOfAccess, MainAccess
  <2>3. /\ reg'["CONTROL"] = {}
        /\ reg'["VIC"] = reg["VIC"] /\ reg'["OTG_CTRL"] = reg["OTG_CTRL"]
        /\ reg'["DEV_PWR"] = reg["DEV_PWR"] /\ reg'["LNK_INTR"] = reg["LNK_INTR"]
        /\ reg'["PROT_INTR"] = reg["PROT_INTR"] /\ reg'["DEV_INTR"] = reg["DEV_INTR"]
        BY <1>3, <2>2, WriteEffect DEF Regs
  <2>4. BootAt(4)'
        BY <1>8, <2>2, <2>3 DEF BootAt, PowerOnly
  <2> QED BY <1>4, <2>2, <2>4
<1>9. CASE n = 4
  <2>1. Head(main) = L!Write("OTG_CTRL", {}) /\ Tail(main) = Rest(bootOps, 5)
        BY <1>2, <1>9, BootOps, SMTT(40)
  <2>2. L!Access(L!Write("OTG_CTRL", {})) /\ main' = Rest(bootOps, 5) /\ UNCHANGED isr
        BY <2>1, LenOfAccess, MainAccess
  <2>3. /\ reg'["OTG_CTRL"] = {}
        /\ reg'["VIC"] = reg["VIC"] /\ reg'["CONTROL"] = reg["CONTROL"]
        /\ reg'["DEV_PWR"] = reg["DEV_PWR"] /\ reg'["LNK_INTR"] = reg["LNK_INTR"]
        /\ reg'["PROT_INTR"] = reg["PROT_INTR"] /\ reg'["DEV_INTR"] = reg["DEV_INTR"]
        BY <1>3, <2>2, WriteEffect DEF Regs
  <2>4. BootAt(5)'
        BY <1>9, <2>2, <2>3 DEF BootAt, PowerOnly
  <2> QED BY <1>4, <2>2, <2>4
<1>10. CASE n = 5
  <2>1. Head(main) = L!Set("DEV_PWR", {"DISCON"}) /\ Tail(main) = Rest(bootOps, 6)
        BY <1>2, <1>10, BootOps, SMTT(40)
  <2>2. L!Access(L!Set("DEV_PWR", {"DISCON"})) /\ main' = Rest(bootOps, 6) /\ UNCHANGED isr
        BY <2>1, LenOfAccess, MainAccess
  <2>3. /\ reg'["DEV_PWR"] = {"DISCON"}
        /\ reg'["VIC"] = reg["VIC"] /\ reg'["CONTROL"] = reg["CONTROL"]
        /\ reg'["OTG_CTRL"] = reg["OTG_CTRL"] /\ reg'["LNK_INTR"] = reg["LNK_INTR"]
        /\ reg'["PROT_INTR"] = reg["PROT_INTR"] /\ reg'["DEV_INTR"] = reg["DEV_INTR"]
        BY <1>3, <2>2, SetEffect, FewBits DEF Regs
  <2>4. BootAt(6)'
        BY <1>10, <2>2, <2>3 DEF BootAt, PowerOnly
  <2> QED BY <1>4, <2>2, <2>4
<1>11. CASE n = 6
  <2>1. Head(main) = L!Write("PHY_CONF", {"RX_TERMINATION"}) /\ Tail(main) = Rest(bootOps, 7)
        BY <1>2, <1>11, BootOps, SMTT(40)
  <2>2. L!Access(L!Write("PHY_CONF", {"RX_TERMINATION"})) /\ main' = Rest(bootOps, 7) /\ UNCHANGED isr
        BY <2>1, LenOfAccess, MainAccess
  <2>3. /\ reg'["PHY_CONF"] = {"RX_TERMINATION"}
        /\ reg'["VIC"] = reg["VIC"] /\ reg'["CONTROL"] = reg["CONTROL"]
        /\ reg'["OTG_CTRL"] = reg["OTG_CTRL"] /\ reg'["DEV_PWR"] = reg["DEV_PWR"]
        /\ reg'["LNK_INTR"] = reg["LNK_INTR"] /\ reg'["PROT_INTR"] = reg["PROT_INTR"]
        /\ reg'["DEV_INTR"] = reg["DEV_INTR"]
        BY <1>3, <2>2, WriteEffect DEF Regs
  <2>4. BootAt(7)'
        BY <1>11, <2>2, <2>3 DEF BootAt, PowerOnly
  <2> QED BY <1>4, <2>2, <2>4
<1>12. CASE n = 7
  <2>1. Head(main) = L!AckAll("LNK_INTR") /\ Tail(main) = Rest(bootOps, 8)
        BY <1>2, <1>12, BootOps, SMTT(40)
  <2>2. L!Access(L!AckAll("LNK_INTR")) /\ main' = Rest(bootOps, 8) /\ UNCHANGED isr
        BY <2>1, LenOfAccess, MainAccess
  <2>3. /\ reg'["LNK_INTR"] = {}
        /\ reg'["VIC"] = reg["VIC"] /\ reg'["CONTROL"] = reg["CONTROL"]
        /\ reg'["OTG_CTRL"] = reg["OTG_CTRL"] /\ reg'["DEV_PWR"] = reg["DEV_PWR"]
        /\ reg'["PROT_INTR"] = reg["PROT_INTR"] /\ reg'["DEV_INTR"] = reg["DEV_INTR"]
        BY <1>3, <2>2, AckEffect DEF Regs
  <2>4. BootAt(8)'
        BY <1>12, <2>2, <2>3 DEF BootAt, PowerOnly
  <2> QED BY <1>4, <2>2, <2>4
<1>13. CASE n = 8
  <2>1. Head(main) = L!Write("LNK_MASK", L!LnkEvent) /\ Tail(main) = Rest(bootOps, 9)
        BY <1>2, <1>13, BootOps, SMTT(40)
  <2>2. L!Access(L!Write("LNK_MASK", L!LnkEvent)) /\ main' = Rest(bootOps, 9) /\ UNCHANGED isr
        BY <2>1, LenOfAccess, MainAccess
  <2>3. /\ reg'["LNK_MASK"] = L!LnkEvent
        /\ reg'["VIC"] = reg["VIC"] /\ reg'["CONTROL"] = reg["CONTROL"]
        /\ reg'["OTG_CTRL"] = reg["OTG_CTRL"] /\ reg'["DEV_PWR"] = reg["DEV_PWR"]
        /\ reg'["LNK_INTR"] = reg["LNK_INTR"] /\ reg'["PROT_INTR"] = reg["PROT_INTR"]
        /\ reg'["DEV_INTR"] = reg["DEV_INTR"]
        BY <1>3, <2>2, WriteEffect DEF Regs
  <2>4. BootAt(9)'
        BY <1>13, <2>2, <2>3 DEF BootAt, PowerOnly
  <2> QED BY <1>4, <2>2, <2>4
<1>14. CASE n = 9
  <2>1. Head(main) = L!AckAll("PROT_INTR") /\ Tail(main) = Rest(bootOps, 10)
        BY <1>2, <1>14, BootOps, SMTT(40)
  <2>2. L!Access(L!AckAll("PROT_INTR")) /\ main' = Rest(bootOps, 10) /\ UNCHANGED isr
        BY <2>1, LenOfAccess, MainAccess
  <2>3. /\ reg'["PROT_INTR"] = {}
        /\ reg'["VIC"] = reg["VIC"] /\ reg'["CONTROL"] = reg["CONTROL"]
        /\ reg'["OTG_CTRL"] = reg["OTG_CTRL"] /\ reg'["DEV_PWR"] = reg["DEV_PWR"]
        /\ reg'["LNK_INTR"] = reg["LNK_INTR"] /\ reg'["DEV_INTR"] = reg["DEV_INTR"]
        BY <1>3, <2>2, AckEffect DEF Regs
  <2>4. BootAt(10)'
        BY <1>14, <2>2, <2>3 DEF BootAt, PowerOnly
  <2> QED BY <1>4, <2>2, <2>4
<1>15. CASE n = 10
  <2>1. Head(main) = L!Write("PROT_MASK", L!ProtEvent) /\ Tail(main) = Rest(bootOps, 11)
        BY <1>2, <1>15, BootOps, SMTT(40)
  <2>2. L!Access(L!Write("PROT_MASK", L!ProtEvent)) /\ main' = Rest(bootOps, 11) /\ UNCHANGED isr
        BY <2>1, LenOfAccess, MainAccess
  <2>3. /\ reg'["PROT_MASK"] = L!ProtEvent
        /\ reg'["VIC"] = reg["VIC"] /\ reg'["CONTROL"] = reg["CONTROL"]
        /\ reg'["OTG_CTRL"] = reg["OTG_CTRL"] /\ reg'["DEV_PWR"] = reg["DEV_PWR"]
        /\ reg'["LNK_INTR"] = reg["LNK_INTR"] /\ reg'["PROT_INTR"] = reg["PROT_INTR"]
        /\ reg'["DEV_INTR"] = reg["DEV_INTR"]
        BY <1>3, <2>2, WriteEffect DEF Regs
  <2>4. BootAt(11)'
        BY <1>15, <2>2, <2>3 DEF BootAt, PowerOnly
  <2> QED BY <1>4, <2>2, <2>4
<1>16. CASE n = 11
  <2>1. Head(main) = L!AckAll("DEV_INTR") /\ Tail(main) = Rest(bootOps, 12)
        BY <1>2, <1>16, BootOps, SMTT(40)
  <2>2. L!Access(L!AckAll("DEV_INTR")) /\ main' = Rest(bootOps, 12) /\ UNCHANGED isr
        BY <2>1, LenOfAccess, MainAccess
  <2>3. /\ reg'["DEV_INTR"] = {}
        /\ reg'["VIC"] = reg["VIC"] /\ reg'["CONTROL"] = reg["CONTROL"]
        /\ reg'["OTG_CTRL"] = reg["OTG_CTRL"] /\ reg'["DEV_PWR"] = reg["DEV_PWR"]
        /\ reg'["LNK_INTR"] = reg["LNK_INTR"] /\ reg'["PROT_INTR"] = reg["PROT_INTR"]
        BY <1>3, <2>2, AckEffect DEF Regs
  <2>4. BootAt(12)'
        BY <1>16, <2>2, <2>3 DEF BootAt, PowerOnly
  <2> QED BY <1>4, <2>2, <2>4
<1>17. CASE n = 12
  <2>1. Head(main) = L!Write("EPM0", {64}) /\ Tail(main) = Rest(bootOps, 13)
        BY <1>2, <1>17, BootOps, SMTT(40)
  <2>2. L!Access(L!Write("EPM0", {64})) /\ main' = Rest(bootOps, 13) /\ UNCHANGED isr
    <3>1. Len(Head(main)) = 3
          BY <2>1 DEF L!Write
    <3> QED BY <2>1, <3>1, MainAccess
  <2>3. /\ reg'["EPM0"] = {64}
        /\ reg'["VIC"] = reg["VIC"] /\ reg'["CONTROL"] = reg["CONTROL"]
        /\ reg'["OTG_CTRL"] = reg["OTG_CTRL"] /\ reg'["DEV_PWR"] = reg["DEV_PWR"]
        /\ reg'["LNK_INTR"] = reg["LNK_INTR"] /\ reg'["PROT_INTR"] = reg["PROT_INTR"]
        /\ reg'["DEV_INTR"] = reg["DEV_INTR"]
        BY <1>3, <2>2, WriteEffect DEF Regs
  <2>4. BootAt(13)'
        BY <1>17, <2>2, <2>3 DEF BootAt, PowerOnly
  <2> QED BY <1>4, <2>2, <2>4
<1>18. CASE n = 13
  <2>1. Head(main) = L!Write("UIB_MASK", {}) /\ Tail(main) = Rest(bootOps, 14)
        BY <1>2, <1>18, BootOps, SMTT(40)
  <2>2. L!Access(L!Write("UIB_MASK", {})) /\ main' = Rest(bootOps, 14) /\ UNCHANGED isr
        BY <2>1, LenOfAccess, MainAccess
  <2>3. /\ reg'["UIB_MASK"] = {}
        /\ reg'["VIC"] = reg["VIC"] /\ reg'["CONTROL"] = reg["CONTROL"]
        /\ reg'["OTG_CTRL"] = reg["OTG_CTRL"] /\ reg'["DEV_PWR"] = reg["DEV_PWR"]
        /\ reg'["LNK_INTR"] = reg["LNK_INTR"] /\ reg'["PROT_INTR"] = reg["PROT_INTR"]
        /\ reg'["DEV_INTR"] = reg["DEV_INTR"]
        BY <1>3, <2>2, WriteEffect DEF Regs
  <2>4. BootAt(14)'
        BY <1>18, <2>2, <2>3 DEF BootAt, PowerOnly
  <2> QED BY <1>4, <2>2, <2>4
<1>19. CASE n = 14
  <2>1. Head(main) = L!Clear("VIC", L!Irq) /\ Tail(main) = Rest(bootOps, 15)
        BY <1>2, <1>19, BootOps, SMTT(40)
  <2>2. L!Access(L!Clear("VIC", L!Irq)) /\ main' = Rest(bootOps, 15) /\ UNCHANGED isr
        BY <2>1, LenOfAccess, MainAccess
  <2>3. /\ reg'["VIC"] = reg["VIC"] \ L!Irq
        /\ reg'["CONTROL"] = reg["CONTROL"] /\ reg'["OTG_CTRL"] = reg["OTG_CTRL"]
        /\ reg'["DEV_PWR"] = reg["DEV_PWR"] /\ reg'["LNK_INTR"] = reg["LNK_INTR"]
        /\ reg'["PROT_INTR"] = reg["PROT_INTR"] /\ reg'["DEV_INTR"] = reg["DEV_INTR"]
        BY <1>3, <2>2, ClearEffect DEF Regs
  <2>4. BootAt(15)'
        BY <1>19, <2>2, <2>3 DEF BootAt, PowerOnly
  <2> QED BY <1>4, <2>2, <2>4
<1>20. CASE n = 15
  <2>1. Head(main) = L!Clear("IOPOWER", {"VBUS"}) /\ Tail(main) = Rest(bootOps, 16)
        BY <1>2, <1>20, BootOps, SMTT(40)
  <2>2. L!Access(L!Clear("IOPOWER", {"VBUS"})) /\ main' = Rest(bootOps, 16) /\ UNCHANGED isr
        BY <2>1, LenOfAccess, MainAccess
  <2>3. /\ reg'["IOPOWER"] = reg["IOPOWER"] \ {"VBUS"}
        /\ reg'["VIC"] = reg["VIC"] /\ reg'["CONTROL"] = reg["CONTROL"]
        /\ reg'["OTG_CTRL"] = reg["OTG_CTRL"] /\ reg'["DEV_PWR"] = reg["DEV_PWR"]
        /\ reg'["LNK_INTR"] = reg["LNK_INTR"] /\ reg'["PROT_INTR"] = reg["PROT_INTR"]
        /\ reg'["DEV_INTR"] = reg["DEV_INTR"]
        BY <1>3, <2>2, ClearEffect DEF Regs
  <2>4. BootAt(16)'
        BY <1>20, <2>2, <2>3 DEF BootAt, PowerOnly
  <2> QED BY <1>4, <2>2, <2>4
<1>21. CASE n = 16
  <2>1. Head(main) = L!Set("VIC", {"GCTL_POWER"}) /\ Tail(main) = Rest(bootOps, 17)
        BY <1>2, <1>21, BootOps, SMTT(40)
  <2>2. L!Access(L!Set("VIC", {"GCTL_POWER"})) /\ main' = Rest(bootOps, 17) /\ UNCHANGED isr
        BY <2>1, LenOfAccess, MainAccess
  <2>3. /\ reg'["VIC"] = reg["VIC"] \cup {"GCTL_POWER"}
        /\ reg'["CONTROL"] = reg["CONTROL"] /\ reg'["OTG_CTRL"] = reg["OTG_CTRL"]
        /\ reg'["DEV_PWR"] = reg["DEV_PWR"] /\ reg'["LNK_INTR"] = reg["LNK_INTR"]
        /\ reg'["PROT_INTR"] = reg["PROT_INTR"] /\ reg'["DEV_INTR"] = reg["DEV_INTR"]
        BY <1>3, <2>2, SetEffect DEF Regs
  <2>4. BootAt(17)'
        BY <1>21, <2>2, <2>3 DEF BootAt, PowerOnly
  <2> QED BY <1>4, <2>2, <2>4
<1> QED BY <1>5, <1>6, <1>7, <1>8, <1>9, <1>10, <1>11, <1>12, <1>13, <1>14, <1>15, <1>16, <1>17, <1>18, <1>19, <1>20, <1>21

LEMMA NamesDiffer ==
    /\ \A name : Len(L!Do(name)) = 1
    /\ \A name, name2 : L!Do(name) = L!Do(name2) => name = name2
BY DosAreShort DEF L!Do

LEMMA MainStepsOf ==
    ASSUME L!MainStep
    PROVE  /\ Head(main) = L!Do("ifVbus") =>
                 main' = (IF vbus THEN L!enablePhyOps ELSE <<>>) /\ UNCHANGED <<reg, saved>>
           /\ Head(main) = L!Do("save") =>
                 saved' = reg["VIC"] /\ main' = Tail(main) /\ UNCHANGED reg
           /\ Head(main) = L!Do("restore") =>
                 L!Access(L!Set("VIC", saved)) /\ main' = Tail(main)
           /\ Head(main) = L!Do("phy") =>
                 main' = L!WritePhyReg \o Tail(main) /\ UNCHANGED <<reg, saved>>
<1>1. ASSUME NEW name \in {"ifVbus", "save", "restore"}
      PROVE  /\ Len(L!Do(name)) # 3 /\ L!Do(name) # L!Do("phy")
             /\ L!Do(name) # L!Do("acknowledged") /\ L!Do(name) # L!Do("released")
      BY NamesDiffer
<1>2. ASSUME NEW name \in {"ifVbus", "save", "restore"}, Head(main) = L!Do(name)
      PROVE  ~L!Step(main, main')
      BY <1>1, <1>2 DEF L!Step
<1>3. CASE Head(main) = L!Do("phy")
  <2>1. /\ Head(main) # L!Do("ifVbus") /\ Head(main) # L!Do("save")
        /\ Head(main) # L!Do("restore") /\ Head(main) # L!Do("acknowledged")
        /\ Head(main) # L!Do("released") /\ Len(Head(main)) # 3
        BY <1>3, NamesDiffer
  <2>2. L!Step(main, main') /\ UNCHANGED saved
        BY <2>1 DEF L!MainStep
  <2>3. main' = L!WritePhyReg \o Tail(main) /\ UNCHANGED reg
        BY <2>1, <2>2 DEF L!Step
  <2> QED BY <2>1, <2>2, <2>3
<1>4. CASE Head(main) = L!Do("ifVbus")
  <2>1. /\ ~L!Step(main, main') /\ Head(main) # L!Do("phy")
        /\ Head(main) # L!Do("save") /\ Head(main) # L!Do("restore")
        BY <1>2, <1>4, NamesDiffer
  <2> QED BY <1>4, <2>1 DEF L!MainStep
<1>5. CASE Head(main) = L!Do("save")
  <2>1. /\ ~L!Step(main, main') /\ Head(main) # L!Do("phy")
        /\ Head(main) # L!Do("ifVbus") /\ Head(main) # L!Do("restore")
        BY <1>2, <1>5, NamesDiffer
  <2> QED BY <1>5, <2>1 DEF L!MainStep
<1>6. CASE Head(main) = L!Do("restore")
  <2>1. /\ ~L!Step(main, main') /\ Head(main) # L!Do("phy")
        /\ Head(main) # L!Do("ifVbus") /\ Head(main) # L!Do("save")
        BY <1>2, <1>6, NamesDiffer
  <2> QED BY <1>6, <2>1 DEF L!MainStep
<1> QED BY <1>3, <1>4, <1>5, <1>6

LEMMA EnableFrom ==
    ASSUME NEW k \in Nat, NEW p \in Seq(PhyStep), k < 22, p = <<>> \/ k = 18,
           main' = p \o Rest(L!enablePhyOps, k), EnablingAt(k)'
    PROVE  Enabling'
BY DEF Enabling

LEMMA EnableNext ==
    ASSUME NEW k \in Nat, k < 22, main' = Rest(L!enablePhyOps, k), EnablingAt(k)'
    PROVE  Enabling'
<1>1. k \in 0 .. Len(L!enablePhyOps) /\ L!enablePhyOps \in Seq(MainOp)
      BY EnableOps, ListsAreOps, SMTT(40)
<1>2. Rest(L!enablePhyOps, k) \in Seq(MainOp)
      BY <1>1, RestOfSeq
<1>3. main' = <<>> \o Rest(L!enablePhyOps, k) /\ <<>> \in Seq(PhyStep)
      BY <1>2, ConcatEmptySeq, EmptySeq
<1> QED BY <1>3, EnableFrom

LEMMA BootEnds ==
    ASSUME TypeInv, L!MainStep, main = Rest(bootOps, 17), BootAt(17)
    PROVE  BothInv' /\ (Enabling' \/ Running')
<1>1. Head(main) = L!Do("ifVbus")
  <2>1. bootOps \in Seq(MainOp) /\ 17 < Len(bootOps) /\ bootOps[17 + 1] = L!Do("ifVbus")
        BY BootOps, ListsAreOps, OpsAreOps, SeqMonotonic
  <2> QED BY <2>1, MainAt
<1>2. /\ main' = IF vbus THEN L!enablePhyOps ELSE <<>>
      /\ UNCHANGED <<reg, saved, isr, both>> /\ isr = <<>>
  <2>1. UNCHANGED <<isr, both>> /\ isr = <<>>
        BY DEF L!MainStep
  <2>2. main' = (IF vbus THEN L!enablePhyOps ELSE <<>>) /\ UNCHANGED <<reg, saved>>
        BY <1>1, MainStepsOf
  <2> QED BY <2>1, <2>2
<1>3. BothInv'
  <2>1. reg'["LNK_INTR"] = {}
        BY <1>2 DEF BootAt
  <2>2. "CONNECT" \in L!LnkEvent
        BY DEF L!LnkEvent
  <2> QED BY <2>1, <2>2 DEF BothInv
<1>4. CASE vbus
  <2>1. main' = Rest(L!enablePhyOps, 0)
        BY <1>2, <1>4, WholeIsRest, ListsAreOps
  <2>2. EnablingAt(0)'
        BY <1>2 DEF BootAt, EnablingAt, PowerOnly
  <2>3. Enabling'
        BY <2>1, <2>2, EnableNext
  <2> QED BY <1>3, <2>3
<1>5. CASE ~vbus
  <2>1. Calm'
        BY <1>2, EmptySeq DEF Calm
  <2>2. Off'
        BY <1>2 DEF BootAt, Off
  <2>3. Running'
        BY <1>2, <1>5, <2>1, <2>2 DEF Running
  <2> QED BY <1>3, <2>3
<1> QED BY <1>4, <1>5

LEMMA EnableStep ==
    ASSUME TypeInv, L!MainStep, BothInv, NEW n \in Nat, n < 22,
           main = Rest(L!enablePhyOps, n), EnablingAt(n)
    PROVE  BothInv' /\ (Enabling' \/ Running')
<1>1. L!enablePhyOps \in Seq(MainOp) /\ Len(L!enablePhyOps) = 22
      BY EnableOps, ListsAreOps
<1>2. Head(main) = L!enablePhyOps[n + 1] /\ Tail(main) = Rest(L!enablePhyOps, n + 1)
  <2>1. n < Len(L!enablePhyOps)
        BY <1>1
  <2> QED BY <1>1, <2>1, MainAt
<1>3. Typed
      BY DEF TypeInv
<1>4. UNCHANGED both /\ isr = <<>> /\ UNCHANGED isr
      BY DEF L!MainStep
<1>5. CASE n = 0
  <2>1. Head(main) = L!AckAll("LNK_INTR") /\ Tail(main) = Rest(L!enablePhyOps, 1)
        BY <1>2, <1>5, EnableOps, SMTT(40)
  <2>2. L!Access(L!AckAll("LNK_INTR")) /\ main' = Rest(L!enablePhyOps, 1)
        /\ UNCHANGED saved
        BY <2>1, LenOfAccess, MainAccess
  <2>3. /\ reg'["LNK_INTR"] = {}
        /\ reg'["DEV_PWR"] = reg["DEV_PWR"] /\ reg'["OTG_CTRL"] = reg["OTG_CTRL"]
        /\ reg'["PROT_INTR"] = reg["PROT_INTR"] /\ reg'["DEV_INTR"] = reg["DEV_INTR"]
        /\ reg'["LNK_MASK"] = reg["LNK_MASK"] /\ reg'["UIB_MASK"] = reg["UIB_MASK"]
        /\ reg'["VIC"] = reg["VIC"] /\ reg'["CONTROL"] = reg["CONTROL"]
        /\ reg'["PHY_CONF"] = reg["PHY_CONF"] /\ reg'["CORE_CLK"] = reg["CORE_CLK"]
        BY <1>3, <2>2, AckEffect DEF Regs
  <2>4. EnablingAt(1)'
        BY <1>4, <1>5, <2>2, <2>3 DEF EnablingAt, PowerOnly
  <2>5. BothInv'
        BY <1>4, <2>3 DEF BothInv, L!LnkEvent
  <2> QED BY <2>2, <2>4, <2>5, EnableNext
<1>6. CASE n = 1
  <2>1. Head(main) = L!Write("LNK_MASK", L!LnkEvent) /\ Tail(main) = Rest(L!enablePhyOps, 2)
        BY <1>2, <1>6, EnableOps, SMTT(40)
  <2>2. L!Access(L!Write("LNK_MASK", L!LnkEvent)) /\ main' = Rest(L!enablePhyOps, 2)
        /\ UNCHANGED saved
        BY <2>1, LenOfAccess, MainAccess
  <2>3. /\ reg'["LNK_MASK"] = L!LnkEvent
        /\ reg'["DEV_PWR"] = reg["DEV_PWR"] /\ reg'["OTG_CTRL"] = reg["OTG_CTRL"]
        /\ reg'["LNK_INTR"] = reg["LNK_INTR"] /\ reg'["PROT_INTR"] = reg["PROT_INTR"]
        /\ reg'["DEV_INTR"] = reg["DEV_INTR"] /\ reg'["UIB_MASK"] = reg["UIB_MASK"]
        /\ reg'["VIC"] = reg["VIC"] /\ reg'["CONTROL"] = reg["CONTROL"]
        /\ reg'["PHY_CONF"] = reg["PHY_CONF"] /\ reg'["CORE_CLK"] = reg["CORE_CLK"]
        BY <1>3, <2>2, WriteEffect DEF Regs
  <2>4. EnablingAt(2)'
        BY <1>4, <1>6, <2>2, <2>3 DEF EnablingAt, PowerOnly
  <2>5. BothInv'
        BY <1>4, <2>3 DEF BothInv
  <2> QED BY <2>2, <2>4, <2>5, EnableNext
<1>7. CASE n = 2
  <2>1. Head(main) = L!AckAll("PROT_INTR") /\ Tail(main) = Rest(L!enablePhyOps, 3)
        BY <1>2, <1>7, EnableOps, SMTT(40)
  <2>2. L!Access(L!AckAll("PROT_INTR")) /\ main' = Rest(L!enablePhyOps, 3)
        /\ UNCHANGED saved
        BY <2>1, LenOfAccess, MainAccess
  <2>3. /\ reg'["PROT_INTR"] = {}
        /\ reg'["DEV_PWR"] = reg["DEV_PWR"] /\ reg'["OTG_CTRL"] = reg["OTG_CTRL"]
        /\ reg'["LNK_INTR"] = reg["LNK_INTR"] /\ reg'["DEV_INTR"] = reg["DEV_INTR"]
        /\ reg'["LNK_MASK"] = reg["LNK_MASK"] /\ reg'["UIB_MASK"] = reg["UIB_MASK"]
        /\ reg'["VIC"] = reg["VIC"] /\ reg'["CONTROL"] = reg["CONTROL"]
        /\ reg'["PHY_CONF"] = reg["PHY_CONF"] /\ reg'["CORE_CLK"] = reg["CORE_CLK"]
        BY <1>3, <2>2, AckEffect DEF Regs
  <2>4. EnablingAt(3)'
        BY <1>4, <1>7, <2>2, <2>3 DEF EnablingAt, PowerOnly
  <2>5. BothInv'
        BY <1>4, <2>3 DEF BothInv
  <2> QED BY <2>2, <2>4, <2>5, EnableNext
<1>8. CASE n = 3
  <2>1. Head(main) = L!Write("PROT_MASK", L!ProtEvent) /\ Tail(main) = Rest(L!enablePhyOps, 4)
        BY <1>2, <1>8, EnableOps, SMTT(40)
  <2>2. L!Access(L!Write("PROT_MASK", L!ProtEvent)) /\ main' = Rest(L!enablePhyOps, 4)
        /\ UNCHANGED saved
        BY <2>1, LenOfAccess, MainAccess
  <2>3. /\ reg'["PROT_MASK"] = L!ProtEvent
        /\ reg'["DEV_PWR"] = reg["DEV_PWR"] /\ reg'["OTG_CTRL"] = reg["OTG_CTRL"]
        /\ reg'["LNK_INTR"] = reg["LNK_INTR"] /\ reg'["PROT_INTR"] = reg["PROT_INTR"]
        /\ reg'["DEV_INTR"] = reg["DEV_INTR"] /\ reg'["LNK_MASK"] = reg["LNK_MASK"]
        /\ reg'["UIB_MASK"] = reg["UIB_MASK"] /\ reg'["VIC"] = reg["VIC"]
        /\ reg'["CONTROL"] = reg["CONTROL"] /\ reg'["PHY_CONF"] = reg["PHY_CONF"]
        /\ reg'["CORE_CLK"] = reg["CORE_CLK"]
        BY <1>3, <2>2, WriteEffect DEF Regs
  <2>4. EnablingAt(4)'
        BY <1>4, <1>8, <2>2, <2>3 DEF EnablingAt, PowerOnly
  <2>5. BothInv'
        BY <1>4, <2>3 DEF BothInv
  <2> QED BY <2>2, <2>4, <2>5, EnableNext
<1>9. CASE n = 4
  <2>1. Head(main) = L!AckAll("DEV_INTR") /\ Tail(main) = Rest(L!enablePhyOps, 5)
        BY <1>2, <1>9, EnableOps, SMTT(40)
  <2>2. L!Access(L!AckAll("DEV_INTR")) /\ main' = Rest(L!enablePhyOps, 5)
        /\ UNCHANGED saved
        BY <2>1, LenOfAccess, MainAccess
  <2>3. /\ reg'["DEV_INTR"] = {}
        /\ reg'["DEV_PWR"] = reg["DEV_PWR"] /\ reg'["OTG_CTRL"] = reg["OTG_CTRL"]
        /\ reg'["LNK_INTR"] = reg["LNK_INTR"] /\ reg'["PROT_INTR"] = reg["PROT_INTR"]
        /\ reg'["LNK_MASK"] = reg["LNK_MASK"] /\ reg'["UIB_MASK"] = reg["UIB_MASK"]
        /\ reg'["VIC"] = reg["VIC"] /\ reg'["CONTROL"] = reg["CONTROL"]
        /\ reg'["PHY_CONF"] = reg["PHY_CONF"] /\ reg'["CORE_CLK"] = reg["CORE_CLK"]
        BY <1>3, <2>2, AckEffect DEF Regs
  <2>4. EnablingAt(5)'
        BY <1>4, <1>9, <2>2, <2>3 DEF EnablingAt, PowerOnly
  <2>5. BothInv'
        BY <1>4, <2>3 DEF BothInv
  <2> QED BY <2>2, <2>4, <2>5, EnableNext
<1>10. CASE n = 5
  <2>1. Head(main) = L!Write("UIB_MASK", {"PROT", "LNK", "DEV_CTL"}) /\ Tail(main) = Rest(L!enablePhyOps, 6)
        BY <1>2, <1>10, EnableOps, SMTT(40)
  <2>2. L!Access(L!Write("UIB_MASK", {"PROT", "LNK", "DEV_CTL"})) /\ main' = Rest(L!enablePhyOps, 6)
        /\ UNCHANGED saved
        BY <2>1, LenOfAccess, MainAccess
  <2>3. /\ reg'["UIB_MASK"] = {"PROT", "LNK", "DEV_CTL"}
        /\ reg'["DEV_PWR"] = reg["DEV_PWR"] /\ reg'["OTG_CTRL"] = reg["OTG_CTRL"]
        /\ reg'["LNK_INTR"] = reg["LNK_INTR"] /\ reg'["PROT_INTR"] = reg["PROT_INTR"]
        /\ reg'["DEV_INTR"] = reg["DEV_INTR"] /\ reg'["LNK_MASK"] = reg["LNK_MASK"]
        /\ reg'["VIC"] = reg["VIC"] /\ reg'["CONTROL"] = reg["CONTROL"]
        /\ reg'["PHY_CONF"] = reg["PHY_CONF"] /\ reg'["CORE_CLK"] = reg["CORE_CLK"]
        BY <1>3, <2>2, WriteEffect DEF Regs
  <2>4. EnablingAt(6)'
        BY <1>4, <1>10, <2>2, <2>3 DEF EnablingAt, PowerOnly, LinkGroups
  <2>5. BothInv'
        BY <1>4, <2>3 DEF BothInv
  <2> QED BY <2>2, <2>4, <2>5, EnableNext
<1>11. CASE n = 6
  <2>1. Head(main) = L!Set("VIC", {"USB_CORE"}) /\ Tail(main) = Rest(L!enablePhyOps, 7)
        BY <1>2, <1>11, EnableOps, SMTT(40)
  <2>2. L!Access(L!Set("VIC", {"USB_CORE"})) /\ main' = Rest(L!enablePhyOps, 7)
        /\ UNCHANGED saved
        BY <2>1, LenOfAccess, MainAccess
  <2>3. /\ reg'["VIC"] = reg["VIC"] \cup {"USB_CORE"}
        /\ reg'["DEV_PWR"] = reg["DEV_PWR"] /\ reg'["OTG_CTRL"] = reg["OTG_CTRL"]
        /\ reg'["LNK_INTR"] = reg["LNK_INTR"] /\ reg'["PROT_INTR"] = reg["PROT_INTR"]
        /\ reg'["DEV_INTR"] = reg["DEV_INTR"] /\ reg'["LNK_MASK"] = reg["LNK_MASK"]
        /\ reg'["UIB_MASK"] = reg["UIB_MASK"] /\ reg'["CONTROL"] = reg["CONTROL"]
        /\ reg'["PHY_CONF"] = reg["PHY_CONF"] /\ reg'["CORE_CLK"] = reg["CORE_CLK"]
        BY <1>3, <2>2, SetEffect DEF Regs
  <2>4. EnablingAt(7)'
        BY <1>4, <1>11, <2>2, <2>3 DEF EnablingAt, PowerOnly, L!Irq
  <2>5. BothInv'
        BY <1>4, <2>3 DEF BothInv
  <2> QED BY <2>2, <2>4, <2>5, EnableNext
<1>12. CASE n = 7
  <2>1. Head(main) = L!Set("CONTROL", {"USB_POWER"}) /\ Tail(main) = Rest(L!enablePhyOps, 8)
        BY <1>2, <1>12, EnableOps, SMTT(40)
  <2>2. L!Access(L!Set("CONTROL", {"USB_POWER"})) /\ main' = Rest(L!enablePhyOps, 8)
        /\ UNCHANGED saved
        BY <2>1, LenOfAccess, MainAccess
  <2>3. /\ reg'["CONTROL"] = {"USB_POWER"}
        /\ reg'["DEV_PWR"] = reg["DEV_PWR"] /\ reg'["OTG_CTRL"] = reg["OTG_CTRL"]
        /\ reg'["LNK_INTR"] = reg["LNK_INTR"] /\ reg'["PROT_INTR"] = reg["PROT_INTR"]
        /\ reg'["DEV_INTR"] = reg["DEV_INTR"] /\ reg'["LNK_MASK"] = reg["LNK_MASK"]
        /\ reg'["UIB_MASK"] = reg["UIB_MASK"] /\ reg'["VIC"] = reg["VIC"]
        /\ reg'["PHY_CONF"] = reg["PHY_CONF"] /\ reg'["CORE_CLK"] = reg["CORE_CLK"]
        BY <1>3, <2>2, SetEffect, FewBits DEF Regs
  <2>4. EnablingAt(8)'
        BY <1>4, <1>12, <2>2, <2>3 DEF EnablingAt, PowerOnly
  <2>5. BothInv'
        BY <1>4, <2>3 DEF BothInv
  <2> QED BY <2>2, <2>4, <2>5, EnableNext
<1>13. CASE n = 8
  <2>1. Head(main) = L!Write("LMP_TIMER", L!Lmp) /\ Tail(main) = Rest(L!enablePhyOps, 9)
        BY <1>2, <1>13, EnableOps, SMTT(40)
  <2>2. L!Access(L!Write("LMP_TIMER", L!Lmp)) /\ main' = Rest(L!enablePhyOps, 9)
        /\ UNCHANGED saved
        BY <2>1, LenOfAccess, MainAccess
  <2>3. /\ reg'["LMP_TIMER"] = L!Lmp
        /\ reg'["DEV_PWR"] = reg["DEV_PWR"] /\ reg'["OTG_CTRL"] = reg["OTG_CTRL"]
        /\ reg'["LNK_INTR"] = reg["LNK_INTR"] /\ reg'["PROT_INTR"] = reg["PROT_INTR"]
        /\ reg'["DEV_INTR"] = reg["DEV_INTR"] /\ reg'["LNK_MASK"] = reg["LNK_MASK"]
        /\ reg'["UIB_MASK"] = reg["UIB_MASK"] /\ reg'["VIC"] = reg["VIC"]
        /\ reg'["CONTROL"] = reg["CONTROL"] /\ reg'["PHY_CONF"] = reg["PHY_CONF"]
        /\ reg'["CORE_CLK"] = reg["CORE_CLK"]
        BY <1>3, <2>2, WriteEffect DEF Regs
  <2>4. EnablingAt(9)'
        BY <1>4, <1>13, <2>2, <2>3 DEF EnablingAt, PowerOnly
  <2>5. BothInv'
        BY <1>4, <2>3 DEF BothInv
  <2> QED BY <2>2, <2>4, <2>5, EnableNext
<1>14. CASE n = 9
  <2>1. Head(main) = L!Write("PHY_CONF", {}) /\ Tail(main) = Rest(L!enablePhyOps, 10)
        BY <1>2, <1>14, EnableOps, SMTT(40)
  <2>2. L!Access(L!Write("PHY_CONF", {})) /\ main' = Rest(L!enablePhyOps, 10)
        /\ UNCHANGED saved
        BY <2>1, LenOfAccess, MainAccess
  <2>3. /\ reg'["PHY_CONF"] = {}
        /\ reg'["DEV_PWR"] = reg["DEV_PWR"] /\ reg'["OTG_CTRL"] = reg["OTG_CTRL"]
        /\ reg'["LNK_INTR"] = reg["LNK_INTR"] /\ reg'["PROT_INTR"] = reg["PROT_INTR"]
        /\ reg'["DEV_INTR"] = reg["DEV_INTR"] /\ reg'["LNK_MASK"] = reg["LNK_MASK"]
        /\ reg'["UIB_MASK"] = reg["UIB_MASK"] /\ reg'["VIC"] = reg["VIC"]
        /\ reg'["CONTROL"] = reg["CONTROL"] /\ reg'["CORE_CLK"] = reg["CORE_CLK"]
        BY <1>3, <2>2, WriteEffect DEF Regs
  <2>4. EnablingAt(10)'
        BY <1>4, <1>14, <2>2, <2>3 DEF EnablingAt, PowerOnly
  <2>5. BothInv'
        BY <1>4, <2>3 DEF BothInv
  <2> QED BY <2>2, <2>4, <2>5, EnableNext
<1>15. CASE n = 10
  <2>1. Head(main) = L!Do("save") /\ Tail(main) = Rest(L!enablePhyOps, 11)
        BY <1>2, <1>15, EnableOps, SMTT(40)
  <2>3. saved' = reg["VIC"] /\ main' = Rest(L!enablePhyOps, 11) /\ UNCHANGED reg
        BY <2>1, MainStepsOf
  <2>4. EnablingAt(11)'
        BY <1>4, <1>15, <2>3 DEF EnablingAt, PowerOnly
  <2>5. BothInv'
        BY <1>4, <2>3 DEF BothInv
  <2> QED BY <2>3, <2>4, <2>5, EnableNext
<1>16. CASE n = 11
  <2>1. Head(main) = L!AckAll("VIC") /\ Tail(main) = Rest(L!enablePhyOps, 12)
        BY <1>2, <1>16, EnableOps, SMTT(40)
  <2>2. L!Access(L!AckAll("VIC")) /\ main' = Rest(L!enablePhyOps, 12)
        /\ UNCHANGED saved
        BY <2>1, LenOfAccess, MainAccess
  <2>3. /\ reg'["VIC"] = {}
        /\ reg'["DEV_PWR"] = reg["DEV_PWR"] /\ reg'["OTG_CTRL"] = reg["OTG_CTRL"]
        /\ reg'["LNK_INTR"] = reg["LNK_INTR"] /\ reg'["PROT_INTR"] = reg["PROT_INTR"]
        /\ reg'["DEV_INTR"] = reg["DEV_INTR"] /\ reg'["LNK_MASK"] = reg["LNK_MASK"]
        /\ reg'["UIB_MASK"] = reg["UIB_MASK"] /\ reg'["CONTROL"] = reg["CONTROL"]
        /\ reg'["PHY_CONF"] = reg["PHY_CONF"] /\ reg'["CORE_CLK"] = reg["CORE_CLK"]
        BY <1>3, <2>2, AckEffect DEF Regs
  <2>4. EnablingAt(12)'
        BY <1>4, <1>16, <2>2, <2>3 DEF EnablingAt, PowerOnly
  <2>5. BothInv'
        BY <1>4, <2>3 DEF BothInv
  <2> QED BY <2>2, <2>4, <2>5, EnableNext
<1>17. CASE n = 12
  <2>1. Head(main) = L!Clear("CORE_CLK", {"EN"}) /\ Tail(main) = Rest(L!enablePhyOps, 13)
        BY <1>2, <1>17, EnableOps, SMTT(40)
  <2>2. L!Access(L!Clear("CORE_CLK", {"EN"})) /\ main' = Rest(L!enablePhyOps, 13)
        /\ UNCHANGED saved
        BY <2>1, LenOfAccess, MainAccess
  <2>3. /\ reg'["CORE_CLK"] = reg["CORE_CLK"] \ {"EN"}
        /\ reg'["DEV_PWR"] = reg["DEV_PWR"] /\ reg'["OTG_CTRL"] = reg["OTG_CTRL"]
        /\ reg'["LNK_INTR"] = reg["LNK_INTR"] /\ reg'["PROT_INTR"] = reg["PROT_INTR"]
        /\ reg'["DEV_INTR"] = reg["DEV_INTR"] /\ reg'["LNK_MASK"] = reg["LNK_MASK"]
        /\ reg'["UIB_MASK"] = reg["UIB_MASK"] /\ reg'["VIC"] = reg["VIC"]
        /\ reg'["CONTROL"] = reg["CONTROL"] /\ reg'["PHY_CONF"] = reg["PHY_CONF"]
        BY <1>3, <2>2, ClearEffect DEF Regs
  <2>4. EnablingAt(13)'
        BY <1>4, <1>17, <2>2, <2>3 DEF EnablingAt, PowerOnly
  <2>5. BothInv'
        BY <1>4, <2>3 DEF BothInv
  <2> QED BY <2>2, <2>4, <2>5, EnableNext
<1>18. CASE n = 13
  <2>1. Head(main) = L!Write("CORE_CLK", {"PCLK2", "EPMCLK2"}) /\ Tail(main) = Rest(L!enablePhyOps, 14)
        BY <1>2, <1>18, EnableOps, SMTT(40)
  <2>2. L!Access(L!Write("CORE_CLK", {"PCLK2", "EPMCLK2"})) /\ main' = Rest(L!enablePhyOps, 14)
        /\ UNCHANGED saved
        BY <2>1, LenOfAccess, MainAccess
  <2>3. /\ reg'["CORE_CLK"] = {"PCLK2", "EPMCLK2"}
        /\ reg'["DEV_PWR"] = reg["DEV_PWR"] /\ reg'["OTG_CTRL"] = reg["OTG_CTRL"]
        /\ reg'["LNK_INTR"] = reg["LNK_INTR"] /\ reg'["PROT_INTR"] = reg["PROT_INTR"]
        /\ reg'["DEV_INTR"] = reg["DEV_INTR"] /\ reg'["LNK_MASK"] = reg["LNK_MASK"]
        /\ reg'["UIB_MASK"] = reg["UIB_MASK"] /\ reg'["VIC"] = reg["VIC"]
        /\ reg'["CONTROL"] = reg["CONTROL"] /\ reg'["PHY_CONF"] = reg["PHY_CONF"]
        BY <1>3, <2>2, WriteEffect DEF Regs
  <2>4. EnablingAt(14)'
        BY <1>4, <1>18, <2>2, <2>3 DEF EnablingAt, PowerOnly
  <2>5. BothInv'
        BY <1>4, <2>3 DEF BothInv
  <2> QED BY <2>2, <2>4, <2>5, EnableNext
<1>19. CASE n = 14
  <2>1. Head(main) = L!Set("CORE_CLK", {"EN"}) /\ Tail(main) = Rest(L!enablePhyOps, 15)
        BY <1>2, <1>19, EnableOps, SMTT(40)
  <2>2. L!Access(L!Set("CORE_CLK", {"EN"})) /\ main' = Rest(L!enablePhyOps, 15)
        /\ UNCHANGED saved
        BY <2>1, LenOfAccess, MainAccess
  <2>3. /\ reg'["CORE_CLK"] = reg["CORE_CLK"] \cup {"EN"}
        /\ reg'["DEV_PWR"] = reg["DEV_PWR"] /\ reg'["OTG_CTRL"] = reg["OTG_CTRL"]
        /\ reg'["LNK_INTR"] = reg["LNK_INTR"] /\ reg'["PROT_INTR"] = reg["PROT_INTR"]
        /\ reg'["DEV_INTR"] = reg["DEV_INTR"] /\ reg'["LNK_MASK"] = reg["LNK_MASK"]
        /\ reg'["UIB_MASK"] = reg["UIB_MASK"] /\ reg'["VIC"] = reg["VIC"]
        /\ reg'["CONTROL"] = reg["CONTROL"] /\ reg'["PHY_CONF"] = reg["PHY_CONF"]
        BY <1>3, <2>2, SetEffect DEF Regs
  <2>4. EnablingAt(15)'
        BY <1>4, <1>19, <2>2, <2>3 DEF EnablingAt, PowerOnly
  <2>5. BothInv'
        BY <1>4, <2>3 DEF BothInv
  <2> QED BY <2>2, <2>4, <2>5, EnableNext
<1>20. CASE n = 15
  <2>1. Head(main) = L!Write("LTSSM", {"OVERRIDE"}) /\ Tail(main) = Rest(L!enablePhyOps, 16)
        BY <1>2, <1>20, EnableOps, SMTT(40)
  <2>2. L!Access(L!Write("LTSSM", {"OVERRIDE"})) /\ main' = Rest(L!enablePhyOps, 16)
        /\ UNCHANGED saved
        BY <2>1, LenOfAccess, MainAccess
  <2>3. /\ reg'["LTSSM"] = {"OVERRIDE"}
        /\ reg'["DEV_PWR"] = reg["DEV_PWR"] /\ reg'["OTG_CTRL"] = reg["OTG_CTRL"]
        /\ reg'["LNK_INTR"] = reg["LNK_INTR"] /\ reg'["PROT_INTR"] = reg["PROT_INTR"]
        /\ reg'["DEV_INTR"] = reg["DEV_INTR"] /\ reg'["LNK_MASK"] = reg["LNK_MASK"]
        /\ reg'["UIB_MASK"] = reg["UIB_MASK"] /\ reg'["VIC"] = reg["VIC"]
        /\ reg'["CONTROL"] = reg["CONTROL"] /\ reg'["PHY_CONF"] = reg["PHY_CONF"]
        /\ reg'["CORE_CLK"] = reg["CORE_CLK"]
        BY <1>3, <2>2, WriteEffect DEF Regs
  <2>4. EnablingAt(16)'
        BY <1>4, <1>20, <2>2, <2>3 DEF EnablingAt, PowerOnly
  <2>5. BothInv'
        BY <1>4, <2>3 DEF BothInv
  <2> QED BY <2>2, <2>4, <2>5, EnableNext
<1>21. CASE n = 16
  <2>1. Head(main) = L!Set("OTG_CTRL", {"SSDEV"}) /\ Tail(main) = Rest(L!enablePhyOps, 17)
        BY <1>2, <1>21, EnableOps, SMTT(40)
  <2>2. L!Access(L!Set("OTG_CTRL", {"SSDEV"})) /\ main' = Rest(L!enablePhyOps, 17)
        /\ UNCHANGED saved
        BY <2>1, LenOfAccess, MainAccess
  <2>3. /\ reg'["OTG_CTRL"] = reg["OTG_CTRL"] \cup {"SSDEV"}
        /\ reg'["DEV_PWR"] = reg["DEV_PWR"] /\ reg'["LNK_INTR"] = reg["LNK_INTR"]
        /\ reg'["PROT_INTR"] = reg["PROT_INTR"] /\ reg'["DEV_INTR"] = reg["DEV_INTR"]
        /\ reg'["LNK_MASK"] = reg["LNK_MASK"] /\ reg'["UIB_MASK"] = reg["UIB_MASK"]
        /\ reg'["VIC"] = reg["VIC"] /\ reg'["CONTROL"] = reg["CONTROL"]
        /\ reg'["PHY_CONF"] = reg["PHY_CONF"] /\ reg'["CORE_CLK"] = reg["CORE_CLK"]
        BY <1>3, <2>2, SetEffect DEF Regs
  <2>4. EnablingAt(17)'
        BY <1>4, <1>21, <2>2, <2>3 DEF EnablingAt, PowerOnly
  <2>5. BothInv'
        BY <1>4, <2>3 DEF BothInv
  <2> QED BY <2>2, <2>4, <2>5, EnableNext
<1>22. CASE n = 17
  <2>1. Head(main) = L!Do("phy") /\ Tail(main) = Rest(L!enablePhyOps, 18)
        BY <1>2, <1>22, EnableOps, SMTT(40)
  <2>3. main' = L!WritePhyReg \o Rest(L!enablePhyOps, 18) /\ UNCHANGED <<reg, saved>>
        BY <2>1, MainStepsOf
  <2>4. EnablingAt(18)'
        BY <1>4, <1>22, <2>3 DEF EnablingAt, PowerOnly
  <2>5. BothInv'
        BY <1>4, <2>3 DEF BothInv
  <2>6. Enabling'
    <3>1. L!WritePhyReg \in Seq(PhyStep)
          BY PhyRegisterOps
    <3> QED BY <2>3, <2>4, <3>1, EnableFrom, SMTT(40)
  <2> QED BY <2>5, <2>6
<1>23. CASE n = 18
  <2>1. Head(main) = L!Clear("LTSSM", {"OVERRIDE"}) /\ Tail(main) = Rest(L!enablePhyOps, 19)
        BY <1>2, <1>23, EnableOps, SMTT(40)
  <2>2. L!Access(L!Clear("LTSSM", {"OVERRIDE"})) /\ main' = Rest(L!enablePhyOps, 19)
        /\ UNCHANGED saved
        BY <2>1, LenOfAccess, MainAccess
  <2>3. /\ reg'["LTSSM"] = reg["LTSSM"] \ {"OVERRIDE"}
        /\ reg'["DEV_PWR"] = reg["DEV_PWR"] /\ reg'["OTG_CTRL"] = reg["OTG_CTRL"]
        /\ reg'["LNK_INTR"] = reg["LNK_INTR"] /\ reg'["PROT_INTR"] = reg["PROT_INTR"]
        /\ reg'["DEV_INTR"] = reg["DEV_INTR"] /\ reg'["LNK_MASK"] = reg["LNK_MASK"]
        /\ reg'["UIB_MASK"] = reg["UIB_MASK"] /\ reg'["VIC"] = reg["VIC"]
        /\ reg'["CONTROL"] = reg["CONTROL"] /\ reg'["PHY_CONF"] = reg["PHY_CONF"]
        /\ reg'["CORE_CLK"] = reg["CORE_CLK"]
        BY <1>3, <2>2, ClearEffect DEF Regs
  <2>4. EnablingAt(19)'
        BY <1>4, <1>23, <2>2, <2>3 DEF EnablingAt, PowerOnly
  <2>5. BothInv'
        BY <1>4, <2>3 DEF BothInv
  <2> QED BY <2>2, <2>4, <2>5, EnableNext
<1>24. CASE n = 19
  <2>1. Head(main) = L!Write("PHY_CONF", {"RX_TERMINATION"}) /\ Tail(main) = Rest(L!enablePhyOps, 20)
        BY <1>2, <1>24, EnableOps, SMTT(40)
  <2>2. L!Access(L!Write("PHY_CONF", {"RX_TERMINATION"})) /\ main' = Rest(L!enablePhyOps, 20)
        /\ UNCHANGED saved
        BY <2>1, LenOfAccess, MainAccess
  <2>3. /\ reg'["PHY_CONF"] = {"RX_TERMINATION"}
        /\ reg'["DEV_PWR"] = reg["DEV_PWR"] /\ reg'["OTG_CTRL"] = reg["OTG_CTRL"]
        /\ reg'["LNK_INTR"] = reg["LNK_INTR"] /\ reg'["PROT_INTR"] = reg["PROT_INTR"]
        /\ reg'["DEV_INTR"] = reg["DEV_INTR"] /\ reg'["LNK_MASK"] = reg["LNK_MASK"]
        /\ reg'["UIB_MASK"] = reg["UIB_MASK"] /\ reg'["VIC"] = reg["VIC"]
        /\ reg'["CONTROL"] = reg["CONTROL"] /\ reg'["CORE_CLK"] = reg["CORE_CLK"]
        BY <1>3, <2>2, WriteEffect DEF Regs
  <2>4. EnablingAt(20)'
        BY <1>4, <1>24, <2>2, <2>3 DEF EnablingAt, PowerOnly
  <2>5. BothInv'
        BY <1>4, <2>3 DEF BothInv
  <2> QED BY <2>2, <2>4, <2>5, EnableNext
<1>25. CASE n = 20
  <2>1. Head(main) = L!Write("CORE_CLK", {"EN", "PCLK1", "EPMCLK1"}) /\ Tail(main) = Rest(L!enablePhyOps, 21)
        BY <1>2, <1>25, EnableOps, SMTT(40)
  <2>2. L!Access(L!Write("CORE_CLK", {"EN", "PCLK1", "EPMCLK1"})) /\ main' = Rest(L!enablePhyOps, 21)
        /\ UNCHANGED saved
        BY <2>1, LenOfAccess, MainAccess
  <2>3. /\ reg'["CORE_CLK"] = {"EN", "PCLK1", "EPMCLK1"}
        /\ reg'["DEV_PWR"] = reg["DEV_PWR"] /\ reg'["OTG_CTRL"] = reg["OTG_CTRL"]
        /\ reg'["LNK_INTR"] = reg["LNK_INTR"] /\ reg'["PROT_INTR"] = reg["PROT_INTR"]
        /\ reg'["DEV_INTR"] = reg["DEV_INTR"] /\ reg'["LNK_MASK"] = reg["LNK_MASK"]
        /\ reg'["UIB_MASK"] = reg["UIB_MASK"] /\ reg'["VIC"] = reg["VIC"]
        /\ reg'["CONTROL"] = reg["CONTROL"] /\ reg'["PHY_CONF"] = reg["PHY_CONF"]
        BY <1>3, <2>2, WriteEffect DEF Regs
  <2>4. EnablingAt(21)'
        BY <1>4, <1>25, <2>2, <2>3 DEF EnablingAt, PowerOnly
  <2>5. BothInv'
        BY <1>4, <2>3 DEF BothInv
  <2> QED BY <2>2, <2>4, <2>5, EnableNext
<1>26. CASE n = 21
  <2>1. Head(main) = L!Do("restore") /\ Tail(main) = Rest(L!enablePhyOps, 22)
        BY <1>2, <1>26, EnableOps, SMTT(40)
  <2>3. L!Access(L!Set("VIC", saved)) /\ main' = Rest(L!enablePhyOps, 22)
        BY <2>1, MainStepsOf
  <2>4. main' = <<>>
        BY <1>1, <2>3, NothingLeft
  <2>5. /\ reg'["VIC"] = reg["VIC"] \cup saved
        /\ reg'["DEV_PWR"] = reg["DEV_PWR"] /\ reg'["OTG_CTRL"] = reg["OTG_CTRL"]
        /\ reg'["LNK_INTR"] = reg["LNK_INTR"] /\ reg'["PROT_INTR"] = reg["PROT_INTR"]
        /\ reg'["DEV_INTR"] = reg["DEV_INTR"] /\ reg'["LNK_MASK"] = reg["LNK_MASK"]
        /\ reg'["UIB_MASK"] = reg["UIB_MASK"] /\ reg'["CONTROL"] = reg["CONTROL"]
        /\ reg'["PHY_CONF"] = reg["PHY_CONF"] /\ reg'["CORE_CLK"] = reg["CORE_CLK"]
        BY <1>3, <2>3, SetEffect DEF Regs
  <2>6. reg'["VIC"] = L!Irq
        BY <1>26, <2>5 DEF EnablingAt
  <2>7. BothInv'
        BY <1>4, <2>5 DEF BothInv
  <2>8. SsOn' /\ SsClock'
        BY <1>26, <2>5, <2>6 DEF EnablingAt, SsOn, SsClock
  <2>9. Calm'
        BY <1>4, EmptySeq DEF Calm
  <2> QED BY <2>4, <2>7, <2>8, <2>9 DEF Running
<1> QED BY <1>5, <1>6, <1>7, <1>8, <1>9, <1>10, <1>11, <1>12, <1>13, <1>14, <1>15, <1>16, <1>17,
           <1>18, <1>19, <1>20, <1>21, <1>22, <1>23, <1>24, <1>25, <1>26

LEMMA StrobeNames ==
    ASSUME NEW name \in {"acknowledged", "released"}
    PROVE  /\ L!Do(name) # L!Do("ifVbus") /\ L!Do(name) # L!Do("save")
           /\ L!Do(name) # L!Do("restore") /\ L!Do(name) # L!Do("phy")
           /\ Len(L!Do(name)) # 3
<1>1. name # "ifVbus" /\ name # "save" /\ name # "restore" /\ name # "phy"
      OBVIOUS
<1> QED BY <1>1, NamesDiffer

LEMMA PhyMainStep ==
    ASSUME TypeInv, L!MainStep, BothInv, NEW p \in Seq(PhyStep), p # <<>>,
           main = p \o Rest(L!enablePhyOps, 18), EnablingAt(18)
    PROVE  BothInv' /\ Enabling'
<1>1. Rest(L!enablePhyOps, 18) \in Seq(MainOp)
  <2>1. 18 \in 0 .. Len(L!enablePhyOps) /\ L!enablePhyOps \in Seq(MainOp)
        BY EnableOps, ListsAreOps
  <2> QED BY <2>1, RestOfSeq
<1>2. p \in Seq(MainOp)
      BY OpsAreOps, SeqMonotonic
<1>3. Head(main) = Head(p) /\ Tail(main) = Tail(p) \o Rest(L!enablePhyOps, 18)
      BY <1>1, <1>2, HeadTailOfConcat, SMTT(40)
<1>4. Head(p) \in PhyStep /\ Tail(p) \in Seq(PhyStep)
      BY HeadOfSeq
<1>5. /\ main' = Tail(main) /\ UNCHANGED <<saved, isr, both>>
      /\ \A r \in Regs \ {"PHY_REQ"} : reg'[r] = reg[r]
  <2>1. CASE Head(p) \in AccessTo("PHY_REQ")
    <3>1. "PHY_REQ" \in Regs
          BY DEF Regs
    <3>2. Len(Head(main)) = 3 /\ Head(main)[2] = "PHY_REQ"
          BY <1>3, <2>1, <3>1, AccessesAreTriples
    <3>3. /\ L!Access(Head(main)) /\ main' = Tail(main) /\ UNCHANGED <<saved, isr, both>>
          BY <3>2, MainAccess
    <3> QED BY <3>1, <3>2, <3>3, AccessEffect DEF TypeInv
  <2>2. ASSUME NEW name \in {"acknowledged", "released"}, Head(main) = L!Do(name)
        PROVE  main' = Tail(main) /\ reg' = reg /\ UNCHANGED <<saved, isr, both>>
    <3>1. /\ Head(main) # L!Do("ifVbus") /\ Head(main) # L!Do("save")
          /\ Head(main) # L!Do("restore") /\ Head(main) # L!Do("phy")
          /\ Len(Head(main)) # 3
          BY <2>2, StrobeNames
    <3>2. L!Step(main, main') /\ UNCHANGED <<saved, isr, both>>
          BY <3>1 DEF L!MainStep
    <3>3. main' = Tail(main) /\ reg' = reg
          BY <3>1, <3>2 DEF L!Step
    <3> QED BY <3>2, <3>3
  <2>3. CASE Head(p) = L!Do("acknowledged") \/ Head(p) = L!Do("released")
        BY <1>3, <2>2, <2>3
  <2> QED BY <1>4, <2>1, <2>3 DEF PhyStep
<1>6. EnablingAt(18)' /\ BothInv'
  <2>1. /\ reg'["DEV_PWR"] = reg["DEV_PWR"] /\ reg'["OTG_CTRL"] = reg["OTG_CTRL"]
        /\ reg'["LNK_INTR"] = reg["LNK_INTR"] /\ reg'["LNK_MASK"] = reg["LNK_MASK"]
        /\ reg'["UIB_MASK"] = reg["UIB_MASK"] /\ reg'["VIC"] = reg["VIC"]
        /\ reg'["CONTROL"] = reg["CONTROL"] /\ reg'["PHY_CONF"] = reg["PHY_CONF"]
        /\ reg'["CORE_CLK"] = reg["CORE_CLK"]
        BY <1>5 DEF Regs
  <2>2. EnablingAt(18)'
        BY <1>5, <2>1 DEF EnablingAt, PowerOnly
  <2>3. BothInv'
        BY <1>5, <2>1 DEF BothInv
  <2> QED BY <2>2, <2>3
<1>7. main' = Tail(p) \o Rest(L!enablePhyOps, 18)
      BY <1>3, <1>5
<1>8. 18 \in Nat /\ 18 < 22 /\ Tail(p) \in Seq(PhyStep)
      BY <1>4
<1>9. Enabling'
      BY <1>6, <1>7, <1>8, EnableFrom
<1> QED BY <1>6, <1>9

-----------------------------------------------------------------------------
(***************************************************************************)
(* The steps of the hardware, and the interrupt of the power on the way.    *)
(***************************************************************************)
Event ==
    \/ L!PhyFollows
    \/ \E e \in L!LnkEvent : L!LinkEvent(e)
    \/ \E kind \in {"LMP", "TIMEOUT"}, k \in L!Lmp : L!PortEvent(kind, k)
    \/ \E e \in L!DevEvent : L!DeviceEvent(e)
    \/ L!VbusChanges

EventOn(r) ==
    /\ UNCHANGED <<main, isr, saved>> /\ (both => both') /\ (BothInv => BothInv')
    /\ \A r2 \in Regs \ {r} : reg'[r2] = reg[r2]
    /\ r \in {"LNK_INTR", "PROT_INTR"} => "SSDEV" \in reg["OTG_CTRL"]
    /\ r = "DEV_INTR" => "DEV" \in reg["OTG_CTRL"]

LEMMA EventEffect ==
    ASSUME TypeInv, Event
    PROVE  \E r \in {"LNK_INTR", "PROT_INTR", "DEV_INTR", "IOPOWER"} : EventOn(r)
<1>1. CASE L!PhyFollows
  <2>1. EventOn("IOPOWER")
    <3>1. UNCHANGED <<reg, main, isr, saved, both>>
          BY <1>1 DEF L!PhyFollows
    <3> QED BY <3>1 DEF EventOn, BothInv
  <2> QED BY <2>1
<1>2. ASSUME NEW e \in L!LnkEvent, L!LinkEvent(e) PROVE EventOn("LNK_INTR")
  <2>1. "LNK_INTR" \in Regs /\ e \in L!Bits["LNK_INTR"] /\ L!Latch("LNK_INTR", e)
        BY <1>2, BitsOf DEF Regs, L!LinkEvent
  <2>2. /\ \A r2 \in Regs \ {"LNK_INTR"} : reg'[r2] = reg[r2]
        /\ UNCHANGED <<main, saved, isr>>
        BY <2>1, LatchTypes
  <2>3. /\ "SSDEV" \in reg["OTG_CTRL"] /\ (both => both')
        /\ reg'["LNK_INTR"] = L!LnkEvent => both'
        BY <1>2 DEF L!LinkEvent
  <2>4. BothInv'
        BY <2>3 DEF BothInv
  <2> QED BY <2>2, <2>3, <2>4 DEF EventOn
<1>3. ASSUME NEW r \in {"PROT_INTR", "DEV_INTR", "IOPOWER"}, NEW bit \in L!Bits[r],
             L!Latch(r, bit), both' = both,
             r = "PROT_INTR" => "SSDEV" \in reg["OTG_CTRL"],
             r = "DEV_INTR" => "DEV" \in reg["OTG_CTRL"]
      PROVE  EventOn(r)
  <2>1. r \in Regs
        BY DEF Regs
  <2>2. /\ \A r2 \in Regs \ {r} : reg'[r2] = reg[r2]
        /\ UNCHANGED <<main, saved, isr>>
        BY <1>3, <2>1, LatchTypes
  <2>3. reg'["LNK_INTR"] = reg["LNK_INTR"]
        BY <2>2 DEF Regs
  <2>4. BothInv => BothInv'
        BY <1>3, <2>3 DEF BothInv
  <2> QED BY <1>3, <2>2, <2>4 DEF EventOn
<1>4. ASSUME NEW kind \in {"LMP", "TIMEOUT"}, NEW k \in L!Lmp, L!PortEvent(kind, k)
      PROVE  EventOn("PROT_INTR")
  <2>1. <<kind, k>> \in L!Bits["PROT_INTR"]
        BY BitsOf DEF L!ProtEvent
  <2>2. /\ L!Latch("PROT_INTR", <<kind, k>>) /\ both' = both /\ "SSDEV" \in reg["OTG_CTRL"]
        BY <1>4 DEF L!PortEvent
  <2> QED BY <1>3, <2>1, <2>2
<1>5. ASSUME NEW e \in L!DevEvent, L!DeviceEvent(e) PROVE EventOn("DEV_INTR")
  <2>1. e \in L!Bits["DEV_INTR"]
        BY BitsOf
  <2>2. L!Latch("DEV_INTR", e) /\ both' = both /\ "DEV" \in reg["OTG_CTRL"]
        BY <1>5 DEF L!DeviceEvent
  <2> QED BY <1>3, <2>1, <2>2
<1>6. CASE L!VbusChanges
  <2>1. L!Latch("IOPOWER", "VBUS") /\ both' = both /\ "VBUS" \in L!Bits["IOPOWER"]
        BY <1>6, BitsOf DEF L!VbusChanges
  <2>2. EventOn("IOPOWER")
        BY <1>3, <2>1
  <2> QED BY <2>2
<1> QED BY <1>1, <1>2, <1>4, <1>5, <1>6 DEF Event

LEMMA BootEvent ==
    ASSUME TypeInv, Event, Booting
    PROVE  Booting'
<1>1. PICK n \in Nat : n < 18 /\ main = Rest(bootOps, n) /\ BootAt(n)
      BY DEF Booting
<1>2. PICK r \in {"LNK_INTR", "PROT_INTR", "DEV_INTR", "IOPOWER"} : EventOn(r)
      BY EventEffect
<1>3. /\ UNCHANGED <<main, isr>> /\ reg'["VIC"] = reg["VIC"] /\ reg'["CONTROL"] = reg["CONTROL"]
      /\ reg'["OTG_CTRL"] = reg["OTG_CTRL"] /\ reg'["DEV_PWR"] = reg["DEV_PWR"]
      BY <1>2 DEF EventOn, Regs
<1>4. n >= 5 => /\ reg'["LNK_INTR"] = reg["LNK_INTR"] /\ reg'["PROT_INTR"] = reg["PROT_INTR"]
                /\ reg'["DEV_INTR"] = reg["DEV_INTR"]
  <2>1. n >= 5 => r = "IOPOWER"
        BY <1>1, <1>2 DEF BootAt, EventOn
  <2> QED BY <1>2, <2>1 DEF EventOn, Regs
<1>5. BootAt(n)'
      BY <1>1, <1>3, <1>4 DEF BootAt, PowerOnly
<1>6. main' = Rest(bootOps, n)
      BY <1>1, <1>3
<1> QED BY <1>1, <1>5, <1>6 DEF Booting

LEMMA EnableEvent ==
    ASSUME TypeInv, Event, Enabling, BothInv
    PROVE  Enabling' /\ BothInv'
<1>1. PICK n \in Nat, p \in Seq(PhyStep) :
          /\ n < 22 /\ (p = <<>> \/ n = 18)
          /\ main = p \o Rest(L!enablePhyOps, n) /\ EnablingAt(n)
      BY DEF Enabling
<1>2. PICK r \in {"LNK_INTR", "PROT_INTR", "DEV_INTR", "IOPOWER"} : EventOn(r)
      BY EventEffect
<1>3. /\ UNCHANGED <<main, isr, saved>> /\ BothInv'
      /\ reg'["VIC"] = reg["VIC"] /\ reg'["CONTROL"] = reg["CONTROL"]
      /\ reg'["OTG_CTRL"] = reg["OTG_CTRL"] /\ reg'["DEV_PWR"] = reg["DEV_PWR"]
      /\ reg'["LNK_MASK"] = reg["LNK_MASK"] /\ reg'["UIB_MASK"] = reg["UIB_MASK"]
      /\ reg'["PHY_CONF"] = reg["PHY_CONF"] /\ reg'["CORE_CLK"] = reg["CORE_CLK"]
      BY <1>2 DEF EventOn, Regs
<1>4. n < 17 => /\ reg'["LNK_INTR"] = reg["LNK_INTR"] /\ reg'["PROT_INTR"] = reg["PROT_INTR"]
                /\ reg'["DEV_INTR"] = reg["DEV_INTR"]
  <2>1. n < 17 => r = "IOPOWER"
        BY <1>1, <1>2 DEF EnablingAt, EventOn
  <2> QED BY <1>2, <2>1 DEF EventOn, Regs
<1>5. EnablingAt(n)'
      BY <1>1, <1>3, <1>4 DEF EnablingAt, PowerOnly
<1>6. main' = p \o Rest(L!enablePhyOps, n)
      BY <1>1, <1>3
<1> QED BY <1>1, <1>3, <1>5, <1>6, EnableFrom

\* The acknowledgement of the power interrupt.
LEMMA PowerIsr ==
    ASSUME TypeInv, PowerOnly, L!IsrStep
    PROVE  /\ isr = L!powerOps /\ isr' = <<>> /\ UNCHANGED <<main, saved, both>>
           /\ \A r \in Regs \ {"IOPOWER"} : reg'[r] = reg[r]
<1>1. /\ isr # <<>> /\ UNCHANGED <<main, saved, both>>
      BY DEF L!IsrStep
<1>2. isr = << L!AckAll("IOPOWER") >>
      BY <1>1 DEF PowerOnly, L!powerOps
<1>3. Head(isr) = L!AckAll("IOPOWER") /\ Tail(isr) = <<>> /\ Len(Head(isr)) = 3
      BY <1>2, LenOfAccess
<1>4. ASSUME NEW name PROVE Head(isr) # L!Do(name)
      BY <1>3, NamesDiffer
<1>5. L!Step(isr, isr')
      BY <1>4 DEF L!IsrStep, L!ProtPart, L!LnkPart
<1>6. L!Access(L!AckAll("IOPOWER")) /\ isr' = <<>>
      BY <1>3, <1>4, <1>5 DEF L!Step
<1>7. "IOPOWER" \in Regs /\ Typed
      BY DEF Regs, TypeInv
<1> QED BY <1>1, <1>2, <1>6, <1>7, AckEffect DEF L!powerOps

LEMMA BootInterrupts ==
    ASSUME TypeInv, Booting, L!UsbCoreIsr \/ L!GctlPowerIsr \/ L!IsrStep
    PROVE  Booting'
<1>1. PICK n \in Nat : n < 18 /\ main = Rest(bootOps, n) /\ BootAt(n)
      BY DEF Booting
<1>2. CASE L!IsrStep
  <2>1. /\ isr = L!powerOps /\ isr' = <<>> /\ main' = main
        /\ \A r \in Regs \ {"IOPOWER"} : reg'[r] = reg[r]
        BY <1>1, <1>2, PowerIsr DEF BootAt
  <2>2. BootAt(n)'
        BY <1>1, <2>1 DEF BootAt, PowerOnly, Regs
  <2> QED BY <1>1, <2>1, <2>2 DEF Booting
<1>3. CASE L!UsbCoreIsr \/ L!GctlPowerIsr
  <2>1. reg["VIC"] # {} /\ UNCHANGED <<reg, main>>
        BY <1>3 DEF L!UsbCoreIsr, L!GctlPowerIsr
  <2>2. n >= 17 /\ reg["VIC"] = {"GCTL_POWER"}
        BY <1>1, <2>1 DEF BootAt
  <2>3. isr' = L!powerOps
        BY <1>3, <2>2 DEF L!UsbCoreIsr, L!GctlPowerIsr
  <2>4. BootAt(n)'
        BY <1>1, <2>1, <2>2, <2>3 DEF BootAt, PowerOnly
  <2> QED BY <1>1, <2>1, <2>4 DEF Booting
<1> QED BY <1>2, <1>3

LEMMA EnableInterrupts ==
    ASSUME TypeInv, Enabling, BothInv, L!UsbCoreIsr \/ L!GctlPowerIsr \/ L!IsrStep
    PROVE  Enabling' /\ BothInv'
<1>1. PICK n \in Nat, p \in Seq(PhyStep) :
          /\ n < 22 /\ (p = <<>> \/ n = 18)
          /\ main = p \o Rest(L!enablePhyOps, n) /\ EnablingAt(n)
      BY DEF Enabling
<1>2. CASE L!IsrStep
  <2>1. /\ isr = L!powerOps /\ isr' = <<>> /\ UNCHANGED <<main, saved, both>>
        /\ \A r \in Regs \ {"IOPOWER"} : reg'[r] = reg[r]
        BY <1>1, <1>2, PowerIsr DEF EnablingAt
  <2>2. EnablingAt(n)'
        BY <1>1, <2>1 DEF EnablingAt, PowerOnly, Regs
  <2>3. BothInv'
        BY <2>1 DEF BothInv, Regs
  <2>4. main' = p \o Rest(L!enablePhyOps, n)
        BY <1>1, <2>1
  <2> QED BY <1>1, <2>2, <2>3, <2>4, EnableFrom
<1>3. CASE L!UsbCoreIsr
  <2>1. "USB_CORE" \in reg["VIC"] /\ L!UibRequest # {}
        BY <1>3 DEF L!UsbCoreIsr
  <2>2. n < 17
        BY <1>1, <2>1 DEF EnablingAt
  <2>3. reg["LNK_INTR"] = {} /\ reg["PROT_INTR"] = {} /\ reg["DEV_INTR"] = {}
        BY <1>1, <2>2 DEF EnablingAt
  <2>4. L!LnkRequest = {} /\ L!ProtRequest = {}
        BY <2>3 DEF L!LnkRequest, L!ProtRequest
  <2>5. L!UibRequest = {}
        BY <2>3, <2>4 DEF L!UibRequest
  <2> QED BY <2>1, <2>5
<1>4. CASE L!GctlPowerIsr
  <2>1. "GCTL_POWER" \in reg["VIC"] /\ isr' = L!powerOps /\ UNCHANGED <<reg, main, saved, both>>
        BY <1>4 DEF L!GctlPowerIsr
  <2>2. n < 12
        BY <1>1, <2>1 DEF EnablingAt
  <2>3. EnablingAt(n)'
        BY <1>1, <2>1, <2>2 DEF EnablingAt, PowerOnly
  <2>4. BothInv'
        BY <2>1 DEF BothInv
  <2>5. main' = p \o Rest(L!enablePhyOps, n)
        BY <1>1, <2>1
  <2> QED BY <1>1, <2>3, <2>4, <2>5, EnableFrom
<1> QED BY <1>2, <1>3, <1>4

-----------------------------------------------------------------------------
(***************************************************************************)
(* The steps of the handler that touch no mode, and the events.             *)
(***************************************************************************)
Untouched == \A r \in Regs \ (Light \cup {"LNK_INTR"}) : reg'[r] = reg[r]

LEMMA ModesKeep ==
    ASSUME Untouched
    PROVE  /\ (Off => Off') /\ (SsOn => SsOn') /\ (SsClock => SsClock') /\ (Fallen => Fallen')
           /\ (HsUp => HsUp') /\ (\A n \in Nat : FallingAt(n) => FallingAt(n)')
           /\ (\A n \in Nat : RisingAt(n) => RisingAt(n)')
<1>1. /\ reg'["OTG_CTRL"] = reg["OTG_CTRL"] /\ reg'["CONTROL"] = reg["CONTROL"]
      /\ reg'["DEV_PWR"] = reg["DEV_PWR"] /\ reg'["VIC"] = reg["VIC"]
      /\ reg'["UIB_MASK"] = reg["UIB_MASK"] /\ reg'["LNK_MASK"] = reg["LNK_MASK"]
      /\ reg'["PHY_CONF"] = reg["PHY_CONF"] /\ reg'["CORE_CLK"] = reg["CORE_CLK"]
      BY DEF Untouched, Light, Regs
<1>2. /\ (Off => Off') /\ (SsOn => SsOn') /\ (SsClock => SsClock') /\ (Fallen => Fallen')
      /\ (HsUp => HsUp')
      BY <1>1 DEF Off, SsOn, SsClock, Fallen, HsUp
<1>3. ASSUME NEW n \in Nat, FallingAt(n) PROVE FallingAt(n)'
      BY <1>1, <1>3 DEF FallingAt
<1>4. ASSUME NEW n \in Nat, RisingAt(n) PROVE RisingAt(n)'
      BY <1>1, <1>2, <1>4 DEF RisingAt
<1> QED BY <1>2, <1>3, <1>4

LEMMA InertOps ==
    ASSUME NEW op \in Inert
    PROVE  /\ op \in IsrOp
           /\ \/ op \in {L!Do("PROT"), L!Do("acknowledged"), L!Do("released")}
              \/ \E r \in Light \cap Regs : op \in AccessTo(r)
<1>1. CASE op \in PhyStep
  <2>1. "PHY_REQ" \in Light \cap Regs
        BY DEF Light, Regs
  <2> QED BY <1>1, <2>1, OpsAreOps DEF PhyStep
<1>2. CASE op \in StopTimer
  <2>1. PICK k \in L!Lmp : op = L!Clear("LMP_TIMER", {k})
        BY <1>2 DEF StopTimer
  <2>2. "LMP_TIMER" \in Light \cap Regs /\ {k} \in SUBSET L!Bits["LMP_TIMER"]
        BY BitsOf DEF Light, Regs
  <2>3. op \in AccessTo("LMP_TIMER")
        BY <2>1, <2>2, TriplesAreAccesses
  <2>4. op \in IsrOp
        BY <1>2 DEF IsrOp
  <2> QED BY <2>2, <2>3, <2>4
<1>3. CASE op \in ClearEvents
  <2>1. PICK bits \in SUBSET L!ProtEvent : op = L!Clear("PROT_INTR", bits)
        BY <1>3 DEF ClearEvents
  <2>2. "PROT_INTR" \in Light \cap Regs /\ bits \in SUBSET L!Bits["PROT_INTR"]
        BY BitsOf DEF Light, Regs
  <2>3. op \in AccessTo("PROT_INTR")
        BY <2>1, <2>2, TriplesAreAccesses
  <2>4. op \in IsrOp
        BY <1>3 DEF IsrOp, Op, Quiet
  <2> QED BY <2>2, <2>3, <2>4
<1>4. CASE op = L!Do("PROT")
      BY <1>4 DEF IsrOp, Op, Other, Names, Quiet
<1>5. ASSUME NEW r \in {"DEV_INTR", "IOPOWER"}, op = L!AckAll(r)
      PROVE  op \in IsrOp /\ \E r2 \in Light \cap Regs : op \in AccessTo(r2)
  <2>1. r \in Light \cap Regs /\ r \in Regs \ Kept /\ L!Bits[r] \in SUBSET L!Bits[r]
        BY DEF Light, Regs, Kept
  <2>2. op \in AccessTo(r) /\ op \in Other
        BY <1>5, <2>1, TriplesAreAccesses, OtherOps DEF L!AckAll
  <2> QED BY <2>1, <2>2, OpsAreOps
<1> QED BY <1>1, <1>2, <1>3, <1>4, <1>5 DEF Inert

\* The lists that the protocol part puts first.
LEMMA PortOpsInert ==
    ASSUME NEW p, NEW k \in L!Lmp
    PROVE  L!OnlyIf(p, L!portOps(k)) \in Seq(Inert)
<1>1. L!Clear("LMP_TIMER", {k}) \in Inert
      BY DEF Inert, StopTimer
<1>2. L!Clear("PROT_INTR", {<<"TIMEOUT", k>>}) \in Inert
  <2>1. {<<"TIMEOUT", k>>} \in SUBSET L!ProtEvent
        BY DEF L!ProtEvent
  <2> QED BY <2>1 DEF Inert, ClearEvents
<1>3. L!portOps(k) \in Seq(Inert)
      BY <1>1, <1>2 DEF L!portOps
<1> QED BY <1>3, OnlyIfInSeq

LEMMA InertHead ==
    ASSUME NEW p \in Seq(Inert), p # <<>>, NEW q \in Seq(IsrOp)
    PROVE  /\ p \o q # <<>> /\ Head(p \o q) = Head(p) /\ Head(p) \in Inert
           /\ Tail(p \o q) = Tail(p) \o q /\ Tail(p) \in Seq(Inert)
<1>1. Inert \subseteq IsrOp
      BY InertOps
<1>2. p \in Seq(IsrOp)
      BY <1>1, SeqMonotonic
<1> QED BY <1>2, HeadTailOfConcat, HeadOfSeq

LEMMA JoinLists ==
    ASSUME NEW S, NEW a \in Seq(S), NEW b \in Seq(S), NEW q \in Seq(S)
    PROVE  a \o (b \o q) = (a \o b) \o q
BY ConcatAssociative, SMTT(40)

LEMMA JoinIsrLists ==
    ASSUME NEW a \in Seq(IsrOp), NEW b \in Seq(IsrOp), NEW q \in Seq(IsrOp)
    PROVE  a \o (b \o q) = (a \o b) \o q
BY JoinLists, SMTT(40)

LEMMA PartNames ==
    ASSUME NEW name \in {"PROT", "LNK"}
    PROVE  /\ L!Do(name) # L!Do("phy") /\ Len(L!Do(name)) # 3
           /\ L!Do(name) # L!Do("acknowledged") /\ L!Do(name) # L!Do("released")
           /\ L!Do("PROT") # L!Do("LNK")
<1>1. name # "phy" /\ name # "acknowledged" /\ name # "released" /\ "PROT" # "LNK"
      OBVIOUS
<1> QED BY <1>1, NamesDiffer

\* A step of what is inert leaves the rest of the list, and the modes.
LEMMA InertStep ==
    ASSUME TypeInv, L!IsrStep, NEW p \in Seq(Inert), p # <<>>, NEW q \in Seq(IsrOp), isr = p \o q
    PROVE  /\ \E p2 \in Seq(Inert) : isr' = p2 \o q
           /\ Untouched /\ reg'["LNK_INTR"] = reg["LNK_INTR"] /\ UNCHANGED <<main, saved, both>>
<1>1. /\ Head(isr) = Head(p) /\ Tail(isr) = Tail(p) \o q
      /\ Head(p) \in Inert /\ Tail(p) \in Seq(Inert) /\ Typed
      BY InertHead DEF TypeInv
<1>2. UNCHANGED <<main, saved, both>>
      BY DEF L!IsrStep
<1>3. ASSUME NEW r \in Light \cap Regs, \A r2 \in Regs \ {r} : reg'[r2] = reg[r2]
      PROVE  Untouched /\ reg'["LNK_INTR"] = reg["LNK_INTR"]
      BY <1>3 DEF Untouched, Light, Regs
<1>4. ASSUME NEW r \in Light \cap Regs, Head(p) \in AccessTo(r)
      PROVE  isr' = Tail(p) \o q /\ Untouched /\ reg'["LNK_INTR"] = reg["LNK_INTR"]
  <2>1. Len(Head(isr)) = 3 /\ Head(isr)[2] = r
        BY <1>1, <1>4, AccessesAreTriples
  <2>2. ASSUME NEW name PROVE Head(isr) # L!Do(name)
        BY <2>1, DosAreShort
  <2>3. L!Step(isr, isr')
        BY <2>2 DEF L!IsrStep, L!ProtPart, L!LnkPart
  <2>4. L!Access(Head(isr)) /\ isr' = Tail(isr)
        BY <2>1, <2>2, <2>3 DEF L!Step
  <2>5. \A r2 \in Regs \ {r} : reg'[r2] = reg[r2]
        BY <1>1, <2>1, <2>4, AccessEffect
  <2> QED BY <1>1, <1>3, <2>4, <2>5
<1>5. ASSUME NEW name \in {"acknowledged", "released"}, Head(p) = L!Do(name)
      PROVE  isr' = Tail(p) \o q /\ Untouched /\ reg'["LNK_INTR"] = reg["LNK_INTR"]
  <2>1. name # "PROT" /\ name # "LNK"
        OBVIOUS
  <2>2. Head(isr) # L!Do("PROT") /\ Head(isr) # L!Do("LNK")
        BY <1>1, <1>5, <2>1, NamesDiffer
  <2>3. L!Step(isr, isr')
        BY <2>2 DEF L!IsrStep, L!ProtPart, L!LnkPart
  <2>4. Len(Head(isr)) # 3 /\ Head(isr) # L!Do("phy")
        BY <1>1, <1>5, StrobeNames
  <2>5. isr' = Tail(isr) /\ reg' = reg
        BY <2>3, <2>4 DEF L!Step
  <2> QED BY <1>1, <2>5 DEF Untouched
<1>6. ASSUME Head(p) = L!Do("PROT")
      PROVE  /\ \E p2 \in Seq(Inert) : isr' = p2 \o q
             /\ Untouched /\ reg'["LNK_INTR"] = reg["LNK_INTR"]
  <2>1. /\ Head(isr) # L!Do("LNK") /\ Head(isr) # L!Do("phy") /\ Len(Head(isr)) # 3
        /\ Head(isr) # L!Do("acknowledged") /\ Head(isr) # L!Do("released")
        BY <1>1, <1>6, PartNames
  <2>2. L!ProtPart
        BY <2>1 DEF L!IsrStep, L!LnkPart, L!Step
  <2> DEFINE a == L!OnlyIf(<<"LMP", "PORT_CFG">> \in L!ProtRequest, L!portOps("PORT_CFG"))
             b == L!OnlyIf(<<"LMP", "PORT_CAP">> \in L!ProtRequest, L!portOps("PORT_CAP"))
  <2>3. a \in Seq(Inert) /\ b \in Seq(Inert)
    <3>1. "PORT_CFG" \in L!Lmp /\ "PORT_CAP" \in L!Lmp
          BY DEF L!Lmp
    <3> QED BY <3>1, PortOpsInert
  <2>4. isr' = a \o b \o Tail(isr)
        BY <2>2 DEF L!ProtPart
  <2> HIDE DEF a, b
  <2>5. /\ a \o b \in Seq(Inert) /\ (a \o b) \o Tail(p) \in Seq(Inert)
        BY <1>1, <2>3, ConcatProperties
  <2>6. (a \o b) \o (Tail(p) \o q) = ((a \o b) \o Tail(p)) \o q
    <3>1. Inert \subseteq IsrOp
          BY InertOps
    <3>2. a \o b \in Seq(IsrOp) /\ Tail(p) \in Seq(IsrOp)
          BY <1>1, <2>5, <3>1, SeqMonotonic
    <3> QED BY <3>2, JoinIsrLists, ZenonT(60)
  <2>7. isr' = ((a \o b) \o Tail(p)) \o q
        BY <1>1, <2>4, <2>6
  <2>8. L!Access(L!Clear("PROT_INTR", L!ProtRequest)) /\ "PROT_INTR" \in Light \cap Regs
        BY <2>2 DEF L!ProtPart, Light, Regs
  <2>9. \A r2 \in Regs \ {"PROT_INTR"} : reg'[r2] = reg[r2]
        BY <1>1, <2>8, ClearEffect
  <2>10. Untouched /\ reg'["LNK_INTR"] = reg["LNK_INTR"]
        BY <1>3, <2>8, <2>9
  <2> QED BY <2>5, <2>7, <2>10
<1> QED BY <1>1, <1>2, <1>4, <1>5, <1>6, InertOps

-----------------------------------------------------------------------------
(***************************************************************************)
(* What runs when main is done: places in the lists of the handler.         *)
(***************************************************************************)
Rise == L!connectSuperSpeedOps
Fall == L!connectHighSpeedOps

LEMMA FallFrom ==
    ASSUME NEW k \in Nat, k < 23, NEW p \in Seq(Inert), NEW t \in Seq(Op \cup Inert),
           isr' = p \o (Rest(Fall, k) \o t), Ending(t)', FallingAt(k)'
    PROVE  Falling'
BY DEF Falling, Fall

LEMMA RisesFrom ==
    ASSUME NEW k \in Nat, NEW p \in Seq(Inert), NEW q \in Seq(Inert), NEW list,
           list = p \o (Rest(Rise, k) \o q)
    PROVE  Rises(list, k)
BY DEF Rises, Rise

LEMMA InertInIsr ==
    /\ Inert \subseteq IsrOp /\ Op \cup Inert \subseteq IsrOp
    /\ Seq(Inert) \subseteq Seq(IsrOp) /\ Seq(Op) \subseteq Seq(IsrOp)
    /\ Seq(Op \cup Inert) \subseteq Seq(IsrOp) /\ Seq(Inert) \subseteq Seq(Op \cup Inert)
    /\ Seq(Op) \subseteq Seq(Op \cup Inert) /\ Seq(PhyStep) \subseteq Seq(Inert)
<1>1. /\ Inert \subseteq IsrOp /\ Op \cup Inert \subseteq IsrOp /\ Op \subseteq IsrOp
      /\ Inert \subseteq Op \cup Inert /\ Op \subseteq Op \cup Inert /\ PhyStep \subseteq Inert
      BY InertOps, OpsAreOps DEF Inert
<1> QED BY <1>1, SeqMonotonic

\* A list in one of its places.
LEMMA PlaceIsList ==
    ASSUME NEW ops \in Seq(Op), NEW n \in 0 .. Len(ops), NEW t \in Seq(IsrOp)
    PROVE  Rest(ops, n) \in Seq(IsrOp) /\ Rest(ops, n) \o t \in Seq(IsrOp)
<1>1. Rest(ops, n) \in Seq(IsrOp)
      BY RestOfSeq, InertInIsr
<1> QED BY <1>1, ConcatProperties

\* An access, and a call of Fx3UsbWritePhyReg, that the handler has come to.
LEMMA IsrAt ==
    ASSUME TypeInv, L!IsrStep, NEW ops \in Seq(Op), NEW n \in Nat, n < Len(ops),
           NEW t \in Seq(IsrOp), isr = Rest(ops, n) \o t
    PROVE  Head(isr) = ops[n + 1] /\ Tail(isr) = Rest(ops, n + 1) \o t
<1>1. ops \in Seq(IsrOp)
      BY InertInIsr
<1> QED BY <1>1, TakeOne

LEMMA IsrAccess ==
    ASSUME TypeInv, L!IsrStep, Len(Head(isr)) = 3
    PROVE  L!Access(Head(isr)) /\ isr' = Tail(isr) /\ UNCHANGED <<main, saved, both>>
<1>1. ASSUME NEW name PROVE Head(isr) # L!Do(name)
      BY DosAreShort
<1>2. L!Step(isr, isr') /\ UNCHANGED <<main, saved, both>>
      BY <1>1 DEF L!IsrStep, L!ProtPart, L!LnkPart
<1> QED BY <1>1, <1>2 DEF L!Step

LEMMA PhyName ==
    /\ L!Do("phy") # L!Do("PROT") /\ L!Do("phy") # L!Do("LNK") /\ Len(L!Do("phy")) # 3
    /\ L!Do("phy") # L!Do("acknowledged") /\ L!Do("phy") # L!Do("released")
<1>1. "phy" # "PROT" /\ "phy" # "LNK" /\ "phy" # "acknowledged" /\ "phy" # "released"
      OBVIOUS
<1> QED BY <1>1, NamesDiffer

LEMMA IsrPhy ==
    ASSUME TypeInv, L!IsrStep, Head(isr) = L!Do("phy")
    PROVE  isr' = L!WritePhyReg \o Tail(isr) /\ UNCHANGED <<reg, main, saved, both>>
<1>1. L!Step(isr, isr') /\ UNCHANGED <<main, saved, both>>
      BY PhyName DEF L!IsrStep, L!ProtPart, L!LnkPart
<1>2. isr' = L!WritePhyReg \o Tail(isr) /\ UNCHANGED reg
      BY <1>1, PhyName DEF L!Step
<1> QED BY <1>1, <1>2

LEMMA IsrLnk ==
    ASSUME TypeInv, L!IsrStep, Head(isr) = L!Do("LNK")
    PROVE  L!LnkPart /\ UNCHANGED <<main, saved, both>>
<1>1. "LNK" \in {"PROT", "LNK"}
      OBVIOUS
<1> QED BY <1>1, PartNames DEF L!IsrStep, L!ProtPart, L!Step

-----------------------------------------------------------------------------
(***************************************************************************)
(* The events, and what is inert, once main is done.                        *)
(***************************************************************************)
LEMMA SameList ==
    ASSUME Running, Untouched, UNCHANGED <<isr, main>>, both => both'
    PROVE  Running'
<1>1. /\ main' = <<>> /\ (Off => Off') /\ (SsOn => SsOn') /\ (SsClock => SsClock')
      /\ (Fallen => Fallen') /\ (HsUp => HsUp')
      BY ModesKeep DEF Running
<1>2. (Calm => Calm') /\ (Asked => Asked')
      BY DEF Calm, Asked
<1>3. ASSUME Falling PROVE Falling'
  <2>1. PICK n \in Nat, p \in Seq(Inert), t \in Seq(Op \cup Inert) :
            n < 23 /\ isr = p \o (Rest(Fall, n) \o t) /\ Ending(t) /\ FallingAt(n)
        BY <1>3 DEF Falling, Fall
  <2>2. FallingAt(n)'
        BY <2>1, ModesKeep
  <2>3. Ending(t)'
        BY <2>1 DEF Ending
  <2>4. isr' = p \o (Rest(Fall, n) \o t)
        BY <2>1
  <2> QED BY <2>1, <2>2, <2>3, <2>4, FallFrom
<1>4. ASSUME NEW n \in Nat, Rises(isr, n) PROVE Rises(isr', n)
      BY <1>4
<1>5. ASSUME Rising PROVE Rising'
  <2>1. PICK n \in Nat : n < 10 /\ Rises(isr, n) /\ RisingAt(n)
        BY <1>5 DEF Rising
  <2>2. RisingAt(n)'
        BY <2>1, ModesKeep
  <2>3. Rises(isr', n)
        BY <1>4, <2>1
  <2> QED BY <2>1, <2>2, <2>3 DEF Rising
<1>6. ASSUME FallenBack PROVE FallenBack'
      BY <1>1, <1>2, <1>4, <1>6 DEF FallenBack
<1> QED BY <1>1, <1>2, <1>3, <1>5, <1>6 DEF Running

LEMMA RunningEvent ==
    ASSUME TypeInv, Event, Running, BothInv
    PROVE  Running' /\ BothInv'
<1>1. PICK r \in {"LNK_INTR", "PROT_INTR", "DEV_INTR", "IOPOWER"} : EventOn(r)
      BY EventEffect
<1>2. Untouched
      BY <1>1 DEF Untouched, EventOn, Light
<1>3. UNCHANGED <<isr, main>> /\ (both => both') /\ BothInv'
      BY <1>1 DEF EventOn
<1> QED BY <1>2, <1>3, SameList

LEMMA CalmStep ==
    ASSUME TypeInv, L!IsrStep, Calm
    PROVE  /\ Calm' /\ Untouched /\ reg'["LNK_INTR"] = reg["LNK_INTR"]
           /\ UNCHANGED <<main, saved, both>>
<1>1. isr \in Seq(Inert) /\ isr # <<>> /\ <<>> \in Seq(IsrOp) /\ isr = isr \o <<>>
      BY ConcatEmptySeq, EmptySeq DEF Calm, L!IsrStep
<1>2. /\ \E p2 \in Seq(Inert) : isr' = p2 \o <<>>
      /\ Untouched /\ reg'["LNK_INTR"] = reg["LNK_INTR"] /\ UNCHANGED <<main, saved, both>>
      BY <1>1, InertStep
<1>3. isr' \in Seq(Inert)
      BY <1>2, ConcatEmptySeq
<1> QED BY <1>2, <1>3 DEF Calm

LEMMA BothStays ==
    ASSUME TypeInv, BothInv, both => both', reg'["LNK_INTR"] \subseteq reg["LNK_INTR"]
    PROVE  BothInv'
<1>1. reg["LNK_INTR"] \subseteq L!LnkEvent
      BY BitsOf DEF TypeInv, Typed, Regs
<1> QED BY <1>1 DEF BothInv

-----------------------------------------------------------------------------
(***************************************************************************)
(* The accesses of the fallback and of the connection at super speed.       *)
(***************************************************************************)
LEMMA FallAccess ==
    ASSUME TypeInv, NEW n \in Nat, n >= 1, n < 23, FallingAt(n), L!Access(Fall[n + 1])
    PROVE  /\ n < 22 => FallingAt(n + 1)'
           /\ n = 22 => Fallen' /\ HsUp'
           /\ reg'["LNK_INTR"] \subseteq reg["LNK_INTR"]
<1>1. Typed
      BY DEF TypeInv
<1>2. CASE n = 1
  <2>1. L!Access(L!Write("LTSSM", {"OVERRIDE"}))
        BY <1>2, FallOps DEF Fall
  <2>2. /\ reg'["LTSSM"] = {"OVERRIDE"}
        /\ reg'["OTG_CTRL"] = reg["OTG_CTRL"] /\ reg'["DEV_PWR"] = reg["DEV_PWR"]
        /\ reg'["VIC"] = reg["VIC"] /\ reg'["PHY_CONF"] = reg["PHY_CONF"]
        /\ reg'["CONTROL"] = reg["CONTROL"] /\ reg'["LNK_MASK"] = reg["LNK_MASK"]
        /\ reg'["UIB_MASK"] = reg["UIB_MASK"] /\ reg'["CORE_CLK"] = reg["CORE_CLK"]
        /\ reg'["LNK_INTR"] = reg["LNK_INTR"]
        BY <1>1, <2>1, WriteEffect DEF Regs
  <2>3. FallingAt(2)'
        BY <1>2, <2>2 DEF FallingAt
  <2> QED BY <1>2, <2>2, <2>3
<1>3. CASE n = 2
  <2>1. L!Access(L!Clear("CORE_CLK", {"EN"}))
        BY <1>3, FallOps DEF Fall
  <2>2. /\ reg'["CORE_CLK"] = reg["CORE_CLK"] \ {"EN"}
        /\ reg'["OTG_CTRL"] = reg["OTG_CTRL"] /\ reg'["DEV_PWR"] = reg["DEV_PWR"]
        /\ reg'["VIC"] = reg["VIC"] /\ reg'["PHY_CONF"] = reg["PHY_CONF"]
        /\ reg'["CONTROL"] = reg["CONTROL"] /\ reg'["LNK_MASK"] = reg["LNK_MASK"]
        /\ reg'["UIB_MASK"] = reg["UIB_MASK"] /\ reg'["LNK_INTR"] = reg["LNK_INTR"]
        BY <1>1, <2>1, ClearEffect DEF Regs
  <2>3. FallingAt(3)'
        BY <1>3, <2>2 DEF FallingAt
  <2> QED BY <1>3, <2>2, <2>3
<1>4. CASE n = 3
  <2>1. L!Access(L!Write("CORE_CLK", {"PCLK2", "EPMCLK2"}))
        BY <1>4, FallOps DEF Fall
  <2>2. /\ reg'["CORE_CLK"] = {"PCLK2", "EPMCLK2"}
        /\ reg'["OTG_CTRL"] = reg["OTG_CTRL"] /\ reg'["DEV_PWR"] = reg["DEV_PWR"]
        /\ reg'["VIC"] = reg["VIC"] /\ reg'["PHY_CONF"] = reg["PHY_CONF"]
        /\ reg'["CONTROL"] = reg["CONTROL"] /\ reg'["LNK_MASK"] = reg["LNK_MASK"]
        /\ reg'["UIB_MASK"] = reg["UIB_MASK"] /\ reg'["LNK_INTR"] = reg["LNK_INTR"]
        BY <1>1, <2>1, WriteEffect DEF Regs
  <2>3. FallingAt(4)'
        BY <1>4, <2>2 DEF FallingAt
  <2> QED BY <1>4, <2>2, <2>3
<1>5. CASE n = 4
  <2>1. L!Access(L!Set("CORE_CLK", {"EN"}))
        BY <1>5, FallOps DEF Fall
  <2>2. /\ reg'["CORE_CLK"] = reg["CORE_CLK"] \cup {"EN"}
        /\ reg'["OTG_CTRL"] = reg["OTG_CTRL"] /\ reg'["DEV_PWR"] = reg["DEV_PWR"]
        /\ reg'["VIC"] = reg["VIC"] /\ reg'["PHY_CONF"] = reg["PHY_CONF"]
        /\ reg'["CONTROL"] = reg["CONTROL"] /\ reg'["LNK_MASK"] = reg["LNK_MASK"]
        /\ reg'["UIB_MASK"] = reg["UIB_MASK"] /\ reg'["LNK_INTR"] = reg["LNK_INTR"]
        BY <1>1, <2>1, SetEffect DEF Regs
  <2>3. FallingAt(5)'
        BY <1>5, <2>2 DEF FallingAt
  <2> QED BY <1>5, <2>2, <2>3
<1>6. CASE n = 5
  <2>1. L!Access(L!Clear("OTG_CTRL", {"SSDEV"}))
        BY <1>6, FallOps DEF Fall
  <2>2. /\ reg'["OTG_CTRL"] = reg["OTG_CTRL"] \ {"SSDEV"}
        /\ reg'["DEV_PWR"] = reg["DEV_PWR"] /\ reg'["VIC"] = reg["VIC"]
        /\ reg'["PHY_CONF"] = reg["PHY_CONF"] /\ reg'["CONTROL"] = reg["CONTROL"]
        /\ reg'["LNK_MASK"] = reg["LNK_MASK"] /\ reg'["UIB_MASK"] = reg["UIB_MASK"]
        /\ reg'["CORE_CLK"] = reg["CORE_CLK"] /\ reg'["LNK_INTR"] = reg["LNK_INTR"]
        BY <1>1, <2>1, ClearEffect DEF Regs
  <2>3. FallingAt(6)'
        BY <1>6, <2>2 DEF FallingAt
  <2> QED BY <1>6, <2>2, <2>3
<1>7. CASE n = 6
  <2>1. L!Access(L!Clear("OTG_CTRL", {"SSEPM"}))
        BY <1>7, FallOps DEF Fall
  <2>2. /\ reg'["OTG_CTRL"] = reg["OTG_CTRL"] \ {"SSEPM"}
        /\ reg'["DEV_PWR"] = reg["DEV_PWR"] /\ reg'["VIC"] = reg["VIC"]
        /\ reg'["PHY_CONF"] = reg["PHY_CONF"] /\ reg'["CONTROL"] = reg["CONTROL"]
        /\ reg'["LNK_MASK"] = reg["LNK_MASK"] /\ reg'["UIB_MASK"] = reg["UIB_MASK"]
        /\ reg'["CORE_CLK"] = reg["CORE_CLK"] /\ reg'["LNK_INTR"] = reg["LNK_INTR"]
        BY <1>1, <2>1, ClearEffect DEF Regs
  <2>3. FallingAt(7)'
        BY <1>7, <2>2 DEF FallingAt
  <2> QED BY <1>7, <2>2, <2>3
<1>8. CASE n = 7
  <2>1. L!Access(L!Clear("UIB_MASK", L!UibGroups))
        BY <1>8, FallOps DEF Fall
  <2>2. /\ reg'["UIB_MASK"] = reg["UIB_MASK"] \ L!UibGroups
        /\ reg'["OTG_CTRL"] = reg["OTG_CTRL"] /\ reg'["DEV_PWR"] = reg["DEV_PWR"]
        /\ reg'["VIC"] = reg["VIC"] /\ reg'["PHY_CONF"] = reg["PHY_CONF"]
        /\ reg'["CONTROL"] = reg["CONTROL"] /\ reg'["LNK_MASK"] = reg["LNK_MASK"]
        /\ reg'["CORE_CLK"] = reg["CORE_CLK"] /\ reg'["LNK_INTR"] = reg["LNK_INTR"]
        BY <1>1, <2>1, ClearEffect DEF Regs
  <2>3. FallingAt(8)'
        BY <1>8, <2>2 DEF FallingAt
  <2> QED BY <1>8, <2>2, <2>3
<1>9. CASE n = 8
  <2>1. L!Access(L!Clear("PHY_CONF", {"RX_TERMINATION"}))
        BY <1>9, FallOps DEF Fall
  <2>2. /\ reg'["PHY_CONF"] = {}
        /\ reg'["OTG_CTRL"] = reg["OTG_CTRL"] /\ reg'["DEV_PWR"] = reg["DEV_PWR"]
        /\ reg'["VIC"] = reg["VIC"] /\ reg'["CONTROL"] = reg["CONTROL"]
        /\ reg'["LNK_MASK"] = reg["LNK_MASK"] /\ reg'["UIB_MASK"] = reg["UIB_MASK"]
        /\ reg'["CORE_CLK"] = reg["CORE_CLK"] /\ reg'["LNK_INTR"] = reg["LNK_INTR"]
        BY <1>1, <2>1, ClearEffect, FewBits DEF Regs
  <2>3. FallingAt(9)'
        BY <1>9, <2>2 DEF FallingAt
  <2> QED BY <1>9, <2>2, <2>3
<1>10. CASE n = 9
  <2>1. L!Access(L!Clear("CONTROL", {"USB_POWER"}))
        BY <1>10, FallOps DEF Fall
  <2>2. /\ reg'["CONTROL"] = reg["CONTROL"] \ {"USB_POWER"}
        /\ reg'["OTG_CTRL"] = reg["OTG_CTRL"] /\ reg'["DEV_PWR"] = reg["DEV_PWR"]
        /\ reg'["VIC"] = reg["VIC"] /\ reg'["PHY_CONF"] = reg["PHY_CONF"]
        /\ reg'["LNK_MASK"] = reg["LNK_MASK"] /\ reg'["UIB_MASK"] = reg["UIB_MASK"]
        /\ reg'["CORE_CLK"] = reg["CORE_CLK"] /\ reg'["LNK_INTR"] = reg["LNK_INTR"]
        BY <1>1, <2>1, ClearEffect DEF Regs
  <2>3. FallingAt(10)'
        BY <1>10, <2>2 DEF FallingAt
  <2> QED BY <1>10, <2>2, <2>3
<1>11. CASE n = 10
  <2>1. L!Access(L!Set("CONTROL", {"USB_POWER"}))
        BY <1>11, FallOps DEF Fall
  <2>2. /\ reg'["CONTROL"] = {"USB_POWER"}
        /\ reg'["OTG_CTRL"] = reg["OTG_CTRL"] /\ reg'["DEV_PWR"] = reg["DEV_PWR"]
        /\ reg'["VIC"] = reg["VIC"] /\ reg'["PHY_CONF"] = reg["PHY_CONF"]
        /\ reg'["LNK_MASK"] = reg["LNK_MASK"] /\ reg'["UIB_MASK"] = reg["UIB_MASK"]
        /\ reg'["CORE_CLK"] = reg["CORE_CLK"] /\ reg'["LNK_INTR"] = reg["LNK_INTR"]
        BY <1>1, <2>1, SetEffect, FewBits DEF Regs
  <2>3. FallingAt(11)'
        BY <1>11, <2>2 DEF FallingAt
  <2> QED BY <1>11, <2>2, <2>3
<1>12. CASE n = 11
  <2>1. L!Access(L!AckAll("DEV_INTR"))
        BY <1>12, FallOps DEF Fall
  <2>2. /\ reg'["DEV_INTR"] = {}
        /\ reg'["OTG_CTRL"] = reg["OTG_CTRL"] /\ reg'["DEV_PWR"] = reg["DEV_PWR"]
        /\ reg'["VIC"] = reg["VIC"] /\ reg'["PHY_CONF"] = reg["PHY_CONF"]
        /\ reg'["CONTROL"] = reg["CONTROL"] /\ reg'["LNK_MASK"] = reg["LNK_MASK"]
        /\ reg'["UIB_MASK"] = reg["UIB_MASK"] /\ reg'["CORE_CLK"] = reg["CORE_CLK"]
        /\ reg'["LNK_INTR"] = reg["LNK_INTR"]
        BY <1>1, <2>1, AckEffect DEF Regs
  <2>3. FallingAt(12)'
        BY <1>12, <2>2 DEF FallingAt
  <2> QED BY <1>12, <2>2, <2>3
<1>13. CASE n = 12
  <2>1. L!Access(L!Write("LNK_MASK", {}))
        BY <1>13, FallOps DEF Fall
  <2>2. /\ reg'["LNK_MASK"] = {}
        /\ reg'["OTG_CTRL"] = reg["OTG_CTRL"] /\ reg'["DEV_PWR"] = reg["DEV_PWR"]
        /\ reg'["VIC"] = reg["VIC"] /\ reg'["PHY_CONF"] = reg["PHY_CONF"]
        /\ reg'["CONTROL"] = reg["CONTROL"] /\ reg'["UIB_MASK"] = reg["UIB_MASK"]
        /\ reg'["CORE_CLK"] = reg["CORE_CLK"] /\ reg'["LNK_INTR"] = reg["LNK_INTR"]
        BY <1>1, <2>1, WriteEffect DEF Regs
  <2>3. FallingAt(13)'
        BY <1>13, <2>2 DEF FallingAt
  <2> QED BY <1>13, <2>2, <2>3
<1>14. CASE n = 13
  <2>1. L!Access(L!AckAll("LNK_INTR"))
        BY <1>14, FallOps DEF Fall
  <2>2. /\ reg'["LNK_INTR"] = {}
        /\ reg'["OTG_CTRL"] = reg["OTG_CTRL"] /\ reg'["DEV_PWR"] = reg["DEV_PWR"]
        /\ reg'["VIC"] = reg["VIC"] /\ reg'["PHY_CONF"] = reg["PHY_CONF"]
        /\ reg'["CONTROL"] = reg["CONTROL"] /\ reg'["LNK_MASK"] = reg["LNK_MASK"]
        /\ reg'["UIB_MASK"] = reg["UIB_MASK"] /\ reg'["CORE_CLK"] = reg["CORE_CLK"]
        BY <1>1, <2>1, AckEffect DEF Regs
  <2>3. FallingAt(14)'
        BY <1>14, <2>2 DEF FallingAt
  <2> QED BY <1>14, <2>2, <2>3
<1>15. CASE n = 14
  <2>1. L!Access(L!Write("PROT_MASK", {}))
        BY <1>15, FallOps DEF Fall
  <2>2. /\ reg'["PROT_MASK"] = {}
        /\ reg'["OTG_CTRL"] = reg["OTG_CTRL"] /\ reg'["DEV_PWR"] = reg["DEV_PWR"]
        /\ reg'["VIC"] = reg["VIC"] /\ reg'["PHY_CONF"] = reg["PHY_CONF"]
        /\ reg'["CONTROL"] = reg["CONTROL"] /\ reg'["LNK_MASK"] = reg["LNK_MASK"]
        /\ reg'["UIB_MASK"] = reg["UIB_MASK"] /\ reg'["CORE_CLK"] = reg["CORE_CLK"]
        /\ reg'["LNK_INTR"] = reg["LNK_INTR"]
        BY <1>1, <2>1, WriteEffect DEF Regs
  <2>3. FallingAt(15)'
        BY <1>15, <2>2 DEF FallingAt
  <2> QED BY <1>15, <2>2, <2>3
<1>16. CASE n = 15
  <2>1. L!Access(L!AckAll("PROT_INTR"))
        BY <1>16, FallOps DEF Fall
  <2>2. /\ reg'["PROT_INTR"] = {}
        /\ reg'["OTG_CTRL"] = reg["OTG_CTRL"] /\ reg'["DEV_PWR"] = reg["DEV_PWR"]
        /\ reg'["VIC"] = reg["VIC"] /\ reg'["PHY_CONF"] = reg["PHY_CONF"]
        /\ reg'["CONTROL"] = reg["CONTROL"] /\ reg'["LNK_MASK"] = reg["LNK_MASK"]
        /\ reg'["UIB_MASK"] = reg["UIB_MASK"] /\ reg'["CORE_CLK"] = reg["CORE_CLK"]
        /\ reg'["LNK_INTR"] = reg["LNK_INTR"]
        BY <1>1, <2>1, AckEffect DEF Regs
  <2>3. FallingAt(16)'
        BY <1>16, <2>2 DEF FallingAt
  <2> QED BY <1>16, <2>2, <2>3
<1>17. CASE n = 16
  <2>1. L!Access(L!Set("UIB_MASK", L!UibGroups))
        BY <1>17, FallOps DEF Fall
  <2>2. /\ reg'["UIB_MASK"] = reg["UIB_MASK"] \cup L!UibGroups
        /\ reg'["OTG_CTRL"] = reg["OTG_CTRL"] /\ reg'["DEV_PWR"] = reg["DEV_PWR"]
        /\ reg'["VIC"] = reg["VIC"] /\ reg'["PHY_CONF"] = reg["PHY_CONF"]
        /\ reg'["CONTROL"] = reg["CONTROL"] /\ reg'["LNK_MASK"] = reg["LNK_MASK"]
        /\ reg'["CORE_CLK"] = reg["CORE_CLK"] /\ reg'["LNK_INTR"] = reg["LNK_INTR"]
        BY <1>1, <2>1, SetEffect DEF Regs
  <2>3. FallingAt(17)'
        BY <1>17, <2>2 DEF FallingAt, LinkGroups, L!UibGroups
  <2> QED BY <1>17, <2>2, <2>3
<1>18. CASE n = 17
  <2>1. L!Access(L!Write("DEV_PWR", {"DISCON"}))
        BY <1>18, FallOps DEF Fall
  <2>2. /\ reg'["DEV_PWR"] = {"DISCON"}
        /\ reg'["OTG_CTRL"] = reg["OTG_CTRL"] /\ reg'["VIC"] = reg["VIC"]
        /\ reg'["PHY_CONF"] = reg["PHY_CONF"] /\ reg'["CONTROL"] = reg["CONTROL"]
        /\ reg'["LNK_MASK"] = reg["LNK_MASK"] /\ reg'["UIB_MASK"] = reg["UIB_MASK"]
        /\ reg'["CORE_CLK"] = reg["CORE_CLK"] /\ reg'["LNK_INTR"] = reg["LNK_INTR"]
        BY <1>1, <2>1, WriteEffect DEF Regs
  <2>3. FallingAt(18)'
        BY <1>18, <2>2 DEF FallingAt
  <2> QED BY <1>18, <2>2, <2>3
<1>19. CASE n = 18
  <2>1. L!Access(L!Set("OTG_CTRL", {"DEV"}))
        BY <1>19, FallOps DEF Fall
  <2>2. /\ reg'["OTG_CTRL"] = reg["OTG_CTRL"] \cup {"DEV"}
        /\ reg'["DEV_PWR"] = reg["DEV_PWR"] /\ reg'["VIC"] = reg["VIC"]
        /\ reg'["PHY_CONF"] = reg["PHY_CONF"] /\ reg'["CONTROL"] = reg["CONTROL"]
        /\ reg'["LNK_MASK"] = reg["LNK_MASK"] /\ reg'["UIB_MASK"] = reg["UIB_MASK"]
        /\ reg'["CORE_CLK"] = reg["CORE_CLK"] /\ reg'["LNK_INTR"] = reg["LNK_INTR"]
        BY <1>1, <2>1, SetEffect DEF Regs
  <2>3. FallingAt(19)'
        BY <1>19, <2>2 DEF FallingAt
  <2> QED BY <1>19, <2>2, <2>3
<1>20. CASE n = 19
  <2>1. L!Access(L!Clear("CORE_CLK", {"EN"}))
        BY <1>20, FallOps DEF Fall
  <2>2. /\ reg'["CORE_CLK"] = reg["CORE_CLK"] \ {"EN"}
        /\ reg'["OTG_CTRL"] = reg["OTG_CTRL"] /\ reg'["DEV_PWR"] = reg["DEV_PWR"]
        /\ reg'["VIC"] = reg["VIC"] /\ reg'["PHY_CONF"] = reg["PHY_CONF"]
        /\ reg'["CONTROL"] = reg["CONTROL"] /\ reg'["LNK_MASK"] = reg["LNK_MASK"]
        /\ reg'["UIB_MASK"] = reg["UIB_MASK"] /\ reg'["LNK_INTR"] = reg["LNK_INTR"]
        BY <1>1, <2>1, ClearEffect DEF Regs
  <2>3. FallingAt(20)'
        BY <1>20, <2>2 DEF FallingAt
  <2> QED BY <1>20, <2>2, <2>3
<1>21. CASE n = 20
  <2>1. L!Access(L!Write("CORE_CLK", {"PCLK2", "EPMCLK0"}))
        BY <1>21, FallOps DEF Fall
  <2>2. /\ reg'["CORE_CLK"] = {"PCLK2", "EPMCLK0"}
        /\ reg'["OTG_CTRL"] = reg["OTG_CTRL"] /\ reg'["DEV_PWR"] = reg["DEV_PWR"]
        /\ reg'["VIC"] = reg["VIC"] /\ reg'["PHY_CONF"] = reg["PHY_CONF"]
        /\ reg'["CONTROL"] = reg["CONTROL"] /\ reg'["LNK_MASK"] = reg["LNK_MASK"]
        /\ reg'["UIB_MASK"] = reg["UIB_MASK"] /\ reg'["LNK_INTR"] = reg["LNK_INTR"]
        BY <1>1, <2>1, WriteEffect DEF Regs
  <2>3. FallingAt(21)'
        BY <1>21, <2>2 DEF FallingAt
  <2> QED BY <1>21, <2>2, <2>3
<1>22. CASE n = 21
  <2>1. L!Access(L!Set("CORE_CLK", {"EN"}))
        BY <1>22, FallOps DEF Fall
  <2>2. /\ reg'["CORE_CLK"] = reg["CORE_CLK"] \cup {"EN"}
        /\ reg'["OTG_CTRL"] = reg["OTG_CTRL"] /\ reg'["DEV_PWR"] = reg["DEV_PWR"]
        /\ reg'["VIC"] = reg["VIC"] /\ reg'["PHY_CONF"] = reg["PHY_CONF"]
        /\ reg'["CONTROL"] = reg["CONTROL"] /\ reg'["LNK_MASK"] = reg["LNK_MASK"]
        /\ reg'["UIB_MASK"] = reg["UIB_MASK"] /\ reg'["LNK_INTR"] = reg["LNK_INTR"]
        BY <1>1, <2>1, SetEffect DEF Regs
  <2>3. FallingAt(22)'
        BY <1>22, <2>2 DEF FallingAt
  <2> QED BY <1>22, <2>2, <2>3
<1>23. CASE n = 22
  <2>1. L!Access(L!Clear("DEV_PWR", {"DISCON"}))
        BY <1>23, FallOps DEF Fall
  <2>2. /\ reg'["DEV_PWR"] = reg["DEV_PWR"] \ {"DISCON"}
        /\ reg'["OTG_CTRL"] = reg["OTG_CTRL"] /\ reg'["VIC"] = reg["VIC"]
        /\ reg'["PHY_CONF"] = reg["PHY_CONF"] /\ reg'["CONTROL"] = reg["CONTROL"]
        /\ reg'["LNK_MASK"] = reg["LNK_MASK"] /\ reg'["UIB_MASK"] = reg["UIB_MASK"]
        /\ reg'["CORE_CLK"] = reg["CORE_CLK"] /\ reg'["LNK_INTR"] = reg["LNK_INTR"]
        BY <1>1, <2>1, ClearEffect DEF Regs
  <2>3. Fallen'
        BY <1>23, <2>2 DEF FallingAt, Fallen
  <2>4. reg["OTG_CTRL"] \subseteq {"SSDEV", "SSEPM", "DEV"}
        BY <1>1, FewBits
  <2>5. reg'["OTG_CTRL"] = {"DEV"}
        BY <1>23, <2>2, <2>4 DEF FallingAt
  <2>6. reg'["CORE_CLK"] = {"EN", "PCLK2", "EPMCLK0"}
        BY <1>23, <2>2 DEF FallingAt
  <2>7. HsUp'
        BY <1>23, <2>2, <2>5, <2>6 DEF FallingAt, HsUp
  <2> QED BY <1>23, <2>2, <2>3, <2>7
<1> QED BY <1>2, <1>3, <1>4, <1>5, <1>6, <1>7, <1>8, <1>9, <1>10, <1>11, <1>12, <1>13,
           <1>14, <1>15, <1>16, <1>17, <1>18, <1>19, <1>20, <1>21, <1>22, <1>23

LEMMA RiseAccess ==
    ASSUME TypeInv, NEW n \in Nat, n < 10, n \notin {0, 1, 7, 8}, L!Access(Rise[n + 1])
    PROVE  /\ RisingAt(n) => IF n < 9 THEN RisingAt(n + 1)' ELSE SsOn' /\ SsClock'
           /\ Fallen => Fallen'
           /\ reg'["LNK_INTR"] = reg["LNK_INTR"]
<1>1. Typed
      BY DEF TypeInv
<1>2. CASE n = 2
  <2>1. L!Access(L!Clear("CORE_CLK", {"EN"}))
        BY <1>2, RiseOps DEF Rise
  <2>2. /\ reg'["CORE_CLK"] = reg["CORE_CLK"] \ {"EN"}
        /\ reg'["OTG_CTRL"] = reg["OTG_CTRL"] /\ reg'["DEV_PWR"] = reg["DEV_PWR"]
        /\ reg'["VIC"] = reg["VIC"] /\ reg'["PHY_CONF"] = reg["PHY_CONF"]
        /\ reg'["CONTROL"] = reg["CONTROL"] /\ reg'["LNK_MASK"] = reg["LNK_MASK"]
        /\ reg'["UIB_MASK"] = reg["UIB_MASK"] /\ reg'["LNK_INTR"] = reg["LNK_INTR"]
        BY <1>1, <2>1, ClearEffect DEF Regs
  <2>3. RisingAt(2) => RisingAt(3)'
        BY <2>2 DEF RisingAt, SsOn, SsClock
  <2>4. Fallen => Fallen'
        BY <2>2 DEF Fallen
  <2> QED BY <1>2, <2>2, <2>3, <2>4
<1>3. CASE n = 3
  <2>1. L!Access(L!Write("CORE_CLK", {"PCLK1", "EPMCLK1"}))
        BY <1>3, RiseOps DEF Rise
  <2>2. /\ reg'["CORE_CLK"] = {"PCLK1", "EPMCLK1"}
        /\ reg'["OTG_CTRL"] = reg["OTG_CTRL"] /\ reg'["DEV_PWR"] = reg["DEV_PWR"]
        /\ reg'["VIC"] = reg["VIC"] /\ reg'["PHY_CONF"] = reg["PHY_CONF"]
        /\ reg'["CONTROL"] = reg["CONTROL"] /\ reg'["LNK_MASK"] = reg["LNK_MASK"]
        /\ reg'["UIB_MASK"] = reg["UIB_MASK"] /\ reg'["LNK_INTR"] = reg["LNK_INTR"]
        BY <1>1, <2>1, WriteEffect DEF Regs
  <2>3. RisingAt(3) => RisingAt(4)'
        BY <2>2 DEF RisingAt, SsOn, SsClock
  <2>4. Fallen => Fallen'
        BY <2>2 DEF Fallen
  <2> QED BY <1>3, <2>2, <2>3, <2>4
<1>4. CASE n = 4
  <2>1. L!Access(L!Set("CORE_CLK", {"EN"}))
        BY <1>4, RiseOps DEF Rise
  <2>2. /\ reg'["CORE_CLK"] = reg["CORE_CLK"] \cup {"EN"}
        /\ reg'["OTG_CTRL"] = reg["OTG_CTRL"] /\ reg'["DEV_PWR"] = reg["DEV_PWR"]
        /\ reg'["VIC"] = reg["VIC"] /\ reg'["PHY_CONF"] = reg["PHY_CONF"]
        /\ reg'["CONTROL"] = reg["CONTROL"] /\ reg'["LNK_MASK"] = reg["LNK_MASK"]
        /\ reg'["UIB_MASK"] = reg["UIB_MASK"] /\ reg'["LNK_INTR"] = reg["LNK_INTR"]
        BY <1>1, <2>1, SetEffect DEF Regs
  <2>3. RisingAt(4) => RisingAt(5)'
        BY <2>2 DEF RisingAt, SsOn, SsClock
  <2>4. Fallen => Fallen'
        BY <2>2 DEF Fallen
  <2> QED BY <1>4, <2>2, <2>3, <2>4
<1>5. CASE n = 5
  <2>1. L!Access(L!Write("PHY_CONF", {"RX_TERMINATION"}))
        BY <1>5, RiseOps DEF Rise
  <2>2. /\ reg'["PHY_CONF"] = {"RX_TERMINATION"}
        /\ reg'["OTG_CTRL"] = reg["OTG_CTRL"] /\ reg'["DEV_PWR"] = reg["DEV_PWR"]
        /\ reg'["VIC"] = reg["VIC"] /\ reg'["CONTROL"] = reg["CONTROL"]
        /\ reg'["LNK_MASK"] = reg["LNK_MASK"] /\ reg'["UIB_MASK"] = reg["UIB_MASK"]
        /\ reg'["CORE_CLK"] = reg["CORE_CLK"] /\ reg'["LNK_INTR"] = reg["LNK_INTR"]
        BY <1>1, <2>1, WriteEffect DEF Regs
  <2>3. RisingAt(5) => RisingAt(6)'
        BY <2>2 DEF RisingAt, SsOn, SsClock
  <2>4. Fallen => Fallen'
        BY <2>2 DEF Fallen
  <2> QED BY <1>5, <2>2, <2>3, <2>4
<1>6. CASE n = 6
  <2>1. L!Access(L!Set("OTG_CTRL", {"SSEPM"}))
        BY <1>6, RiseOps DEF Rise
  <2>2. /\ reg'["OTG_CTRL"] = reg["OTG_CTRL"] \cup {"SSEPM"}
        /\ reg'["DEV_PWR"] = reg["DEV_PWR"] /\ reg'["VIC"] = reg["VIC"]
        /\ reg'["PHY_CONF"] = reg["PHY_CONF"] /\ reg'["CONTROL"] = reg["CONTROL"]
        /\ reg'["LNK_MASK"] = reg["LNK_MASK"] /\ reg'["UIB_MASK"] = reg["UIB_MASK"]
        /\ reg'["CORE_CLK"] = reg["CORE_CLK"] /\ reg'["LNK_INTR"] = reg["LNK_INTR"]
        BY <1>1, <2>1, SetEffect DEF Regs
  <2>3. RisingAt(6) => RisingAt(7)'
        BY <2>2 DEF RisingAt, SsOn, SsClock
  <2>4. Fallen => Fallen'
        BY <2>2 DEF Fallen
  <2> QED BY <1>6, <2>2, <2>3, <2>4
<1>7. CASE n = 9
  <2>1. L!Access(L!Write("EPM0", {512}))
        BY <1>7, RiseOps DEF Rise
  <2>2. /\ reg'["EPM0"] = {512}
        /\ reg'["OTG_CTRL"] = reg["OTG_CTRL"] /\ reg'["DEV_PWR"] = reg["DEV_PWR"]
        /\ reg'["VIC"] = reg["VIC"] /\ reg'["PHY_CONF"] = reg["PHY_CONF"]
        /\ reg'["CONTROL"] = reg["CONTROL"] /\ reg'["LNK_MASK"] = reg["LNK_MASK"]
        /\ reg'["UIB_MASK"] = reg["UIB_MASK"] /\ reg'["CORE_CLK"] = reg["CORE_CLK"]
        /\ reg'["LNK_INTR"] = reg["LNK_INTR"]
        BY <1>1, <2>1, WriteEffect DEF Regs
  <2>3. RisingAt(9) => SsOn' /\ SsClock'
        BY <2>2 DEF RisingAt, SsOn, SsClock
  <2>4. Fallen => Fallen'
        BY <2>2 DEF Fallen
  <2> QED BY <1>7, <2>2, <2>3, <2>4
<1> QED BY <1>2, <1>3, <1>4, <1>5, <1>6, <1>7

-----------------------------------------------------------------------------
(***************************************************************************)
(* The steps of the handler, by the place in its list.                      *)
(***************************************************************************)
LEMMA LnkStep ==
    ASSUME TypeInv, L!IsrStep, BothInv, SsOn, SsClock, main = <<>>,
           NEW q \in Seq(Inert), isr = << L!Do("LNK") >> \o q
    PROVE  Running' /\ BothInv'
<1>1. L!Do("LNK") \in IsrOp
      BY DEF IsrOp, Op, Other, Names, Quiet
<1>2. Head(isr) = L!Do("LNK") /\ Tail(isr) = q
  <2>1. << L!Do("LNK") >> \in Seq(IsrOp) /\ << L!Do("LNK") >> # <<>> /\ q \in Seq(IsrOp)
        BY <1>1, InertInIsr
  <2>2. Head(<< L!Do("LNK") >>) = L!Do("LNK") /\ Tail(<< L!Do("LNK") >>) = <<>>
        OBVIOUS
  <2> HIDE DEF L!Do
  <2>3. /\ Head(isr) = Head(<< L!Do("LNK") >>)
        /\ Tail(isr) = Tail(<< L!Do("LNK") >>) \o q
        BY <2>1, HeadTailOfConcat
  <2>4. <<>> \o q = q
        BY ConcatEmptySeq
  <2> QED BY <2>2, <2>3, <2>4
<1>3. L!LnkPart /\ UNCHANGED <<main, saved, both>>
      BY <1>2, IsrLnk
<1>4. "LNK_INTR" \in Regs /\ Typed /\ L!Access(L!Clear("LNK_INTR", L!LnkRequest))
      BY <1>3 DEF Regs, TypeInv, L!LnkPart
<1>5. /\ reg'["LNK_INTR"] = reg["LNK_INTR"] \ L!LnkRequest
      /\ \A r \in Regs \ {"LNK_INTR"} : reg'[r] = reg[r]
      BY <1>4, ClearEffect
<1>6. Untouched /\ BothInv'
      BY <1>3, <1>5, BothStays DEF Untouched
<1>7. SsOn' /\ SsClock' /\ main' = <<>>
      BY <1>3, <1>6, ModesKeep
<1>8. isr' = L!OnlyIf("DISCONNECT" \in L!LnkRequest, Fall)
             \o L!OnlyIf("CONNECT" \in L!LnkRequest, Rise) \o q
      BY <1>2, <1>3 DEF L!LnkPart, Fall, Rise
<1>9. /\ Fall \in Seq(Op) /\ Rise \in Seq(Op) /\ Fall = Rest(Fall, 0) /\ Rise = Rest(Rise, 0)
      /\ Fall \in Seq(IsrOp) /\ Rise \in Seq(IsrOp) /\ q \in Seq(IsrOp)
      BY ListsAreOps, WholeIsRest, InertInIsr DEF Fall, Rise
<1>10. FallingAt(0)' /\ RisingAt(0)'
      BY <1>7 DEF FallingAt, RisingAt, SsOn
<1>11. <<>> \in Seq(Inert) /\ <<>> \o q = q /\ q \in Seq(Op \cup Inert)
      BY ConcatEmptySeq, EmptySeq, InertInIsr
<1>12. CASE "DISCONNECT" \notin L!LnkRequest
  <2>1. L!OnlyIf("DISCONNECT" \in L!LnkRequest, Fall) = <<>>
        BY <1>12 DEF L!OnlyIf
  <2>2. CASE "CONNECT" \notin L!LnkRequest
    <3>1. L!OnlyIf("CONNECT" \in L!LnkRequest, Rise) = <<>>
          BY <2>2 DEF L!OnlyIf
    <3>2. <<>> \o <<>> \o q = q
          BY <1>11
    <3>3. isr' = q
          BY <1>8, <2>1, <3>1, <3>2
    <3>4. Calm'
          BY <3>3 DEF Calm
    <3> QED BY <1>6, <1>7, <3>4 DEF Running
  <2>3. CASE "CONNECT" \in L!LnkRequest
    <3>1. L!OnlyIf("CONNECT" \in L!LnkRequest, Rise) = Rise
          BY <2>3 DEF L!OnlyIf
    <3>2. <<>> \o Rise \o q = Rise \o q /\ <<>> \o (Rest(Rise, 0) \o q) = Rest(Rise, 0) \o q
      <4>1. Rise \o q \in Seq(IsrOp) /\ <<>> \o Rise = Rise
            BY <1>9, ConcatEmptySeq, ConcatProperties
      <4>2. <<>> \o (Rise \o q) = Rise \o q
            BY <4>1, ConcatEmptySeq
      <4> QED BY <1>9, <4>1, <4>2
    <3>3. isr' = <<>> \o (Rest(Rise, 0) \o q)
          BY <1>8, <1>9, <2>1, <3>1, <3>2
    <3>4. 0 \in Nat /\ 0 < 10
          OBVIOUS
    <3>5. Rises(isr', 0)
          BY <1>11, <3>3, <3>4, RisesFrom
    <3>6. Rising'
          BY <1>10, <3>4, <3>5 DEF Rising
    <3> QED BY <1>6, <1>7, <3>6 DEF Running
  <2> QED BY <2>2, <2>3
<1>13. CASE "DISCONNECT" \in L!LnkRequest
  <2>1. L!OnlyIf("DISCONNECT" \in L!LnkRequest, Fall) = Fall
        BY <1>13 DEF L!OnlyIf
  <2>2. PICK t \in Seq(Op \cup Inert) : isr' = Fall \o t /\ Ending(t)'
    <3>1. CASE "CONNECT" \notin L!LnkRequest
      <4>1. L!OnlyIf("CONNECT" \in L!LnkRequest, Rise) = <<>> /\ Fall \o <<>> = Fall
            BY <1>9, <3>1, ConcatEmptySeq DEF L!OnlyIf
      <4>2. isr' = Fall \o q
            BY <1>8, <2>1, <4>1
      <4>3. Ending(q)'
            BY DEF Ending
      <4> QED BY <1>11, <4>2, <4>3
    <3>2. CASE "CONNECT" \in L!LnkRequest
      <4>1. L!OnlyIf("CONNECT" \in L!LnkRequest, Rise) = Rise
            BY <3>2 DEF L!OnlyIf
      <4>2. isr' = Fall \o (Rise \o q)
        <5>1. Fall \o (Rise \o q) = (Fall \o Rise) \o q
              BY <1>9, JoinIsrLists, ZenonT(60)
        <5> QED BY <1>8, <2>1, <4>1, <5>1
      <4>3. both
        <5>1. "DISCONNECT" \in reg["LNK_INTR"] /\ "CONNECT" \in reg["LNK_INTR"]
              BY <1>13, <3>2 DEF L!LnkRequest
        <5>2. reg["LNK_INTR"] \subseteq L!LnkEvent
              BY <1>4, BitsOf DEF Typed
        <5>3. reg["LNK_INTR"] = L!LnkEvent
              BY <5>1, <5>2 DEF L!LnkEvent
        <5> QED BY <5>3 DEF BothInv
      <4>4. Rise \o q \in Seq(Op \cup Inert)
        <5>1. Rise \in Seq(Op \cup Inert)
              BY <1>9, InertInIsr
        <5> QED BY <1>11, <5>1, ConcatProperties
      <4>5. Ending(Rise \o q)'
            BY <1>3, <4>3 DEF Ending, Rise
      <4> QED BY <4>2, <4>4, <4>5
    <3> QED BY <3>1, <3>2
  <2>3. isr' = <<>> \o (Rest(Fall, 0) \o t)
    <3>1. t \in Seq(IsrOp)
          BY InertInIsr
    <3>2. Fall \o t \in Seq(IsrOp)
          BY <1>9, <3>1, ConcatProperties
    <3>3. <<>> \o (Fall \o t) = Fall \o t
          BY <3>2, ConcatEmptySeq
    <3> QED BY <1>9, <2>2, <3>3
  <2>4. 0 \in Nat /\ 0 < 23
        OBVIOUS
  <2>5. Falling'
        BY <1>10, <1>11, <2>2, <2>3, <2>4, FallFrom
  <2> QED BY <1>6, <1>7, <2>5 DEF Running
<1> QED BY <1>12, <1>13

LEMMA FallList ==
    /\ Fall \in Seq(Op) /\ Len(Fall) = 23 /\ Fall[1] = L!Do("phy")
    /\ \A i \in 2 .. 23 : Len(Fall[i]) = 3
<1>1. Fall \in Seq(Op) /\ Len(Fall) = 23 /\ Fall[1] = L!Do("phy")
      BY ListsAreOps, FallOps DEF Fall
<1>2. \A i \in 2 .. 12 : Len(Fall[i]) = 3
      BY FallOps, LenOfAccess DEF Fall
<1>3. \A i \in 13 .. 23 : Len(Fall[i]) = 3
      BY FallOps, LenOfAccess DEF Fall
<1> QED BY <1>1, <1>2, <1>3

LEMMA FallingStep ==
    ASSUME TypeInv, L!IsrStep, BothInv, Falling, main = <<>>
    PROVE  Running' /\ BothInv'
<1>1. PICK n \in Nat, p \in Seq(Inert), t \in Seq(Op \cup Inert) :
          n < 23 /\ isr = p \o (Rest(Fall, n) \o t) /\ Ending(t) /\ FallingAt(n)
      BY DEF Falling, Fall
<1>2. Fall \in Seq(Op) /\ Len(Fall) = 23 /\ t \in Seq(IsrOp) /\ n \in 0 .. Len(Fall)
  <2>1. t \in Seq(IsrOp)
        BY InertInIsr
  <2>2. n \in 0 .. 23
        BY <1>1
  <2> QED BY <2>1, <2>2, FallList
<1>3. CASE p # <<>>
  <2>1. Rest(Fall, n) \o t \in Seq(IsrOp)
        BY <1>2, PlaceIsList
  <2>2. /\ \E p2 \in Seq(Inert) : isr' = p2 \o (Rest(Fall, n) \o t)
        /\ Untouched /\ reg'["LNK_INTR"] = reg["LNK_INTR"] /\ UNCHANGED <<main, saved, both>>
        BY <1>1, <1>3, <2>1, InertStep
  <2>3. FallingAt(n)'
        BY <1>1, <2>2, ModesKeep
  <2>4. Ending(t)'
        BY <1>1, <2>2 DEF Ending
  <2>5. Falling'
        BY <1>1, <2>2, <2>3, <2>4, FallFrom
  <2>6. BothInv'
        BY <2>2, BothStays
  <2> QED BY <2>2, <2>5, <2>6 DEF Running
<1>4. CASE p = <<>>
  <2>1. isr = Rest(Fall, n) \o t
    <3>1. Rest(Fall, n) \o t \in Seq(IsrOp)
          BY <1>2, PlaceIsList
    <3>2. <<>> \o (Rest(Fall, n) \o t) = Rest(Fall, n) \o t
          BY <3>1, ConcatEmptySeq
    <3>3. isr = <<>> \o (Rest(Fall, n) \o t)
          BY <1>1, <1>4
    <3> QED BY <3>2, <3>3
  <2>2. Head(isr) = Fall[n + 1] /\ Tail(isr) = Rest(Fall, n + 1) \o t
        BY <1>1, <1>2, <2>1, IsrAt
  <2>3. CASE n = 0
    <3>1. Head(isr) = L!Do("phy")
      <4>1. Fall[1] = L!Do("phy")
            BY FallList
      <4>2. n + 1 = 1
            BY <2>3
      <4> QED BY <2>2, <4>1, <4>2
    <3>2. isr' = L!WritePhyReg \o (Rest(Fall, 1) \o t) /\ UNCHANGED <<reg, main, both>>
      <4>1. Tail(isr) = Rest(Fall, 1) \o t
            BY <2>2, <2>3, SMTT(40)
      <4> QED BY <3>1, <4>1, IsrPhy
    <3>3. L!WritePhyReg \in Seq(Inert)
          BY PhyRegisterOps, InertInIsr
    <3>4. FallingAt(1)' /\ Ending(t)'
      <4>1. FallingAt(1)'
            BY <1>1, <2>3, <3>2 DEF FallingAt
      <4>2. Ending(t)'
            BY <1>1, <3>2 DEF Ending
      <4> QED BY <4>1, <4>2
    <3>5. 1 \in Nat /\ 1 < 23
          OBVIOUS
    <3>6. Falling'
          BY <3>2, <3>3, <3>4, <3>5, FallFrom
    <3>7. BothInv'
          BY <3>2 DEF BothInv
    <3> QED BY <3>2, <3>6, <3>7 DEF Running
  <2>4. CASE n # 0
    <3>1. n >= 1 /\ n + 1 \in Nat
          BY <2>4
    <3>2. Len(Fall[n + 1]) = 3
      <4>1. n + 1 \in 2 .. 23
            BY <1>1, <3>1
      <4> QED BY <4>1, FallList
    <3>3. L!Access(Fall[n + 1]) /\ isr' = Rest(Fall, n + 1) \o t /\ UNCHANGED <<main, saved, both>>
          BY <2>2, <3>2, IsrAccess
    <3>4. /\ n < 22 => FallingAt(n + 1)'
          /\ n = 22 => Fallen' /\ HsUp'
          /\ reg'["LNK_INTR"] \subseteq reg["LNK_INTR"]
          BY <1>1, <3>1, <3>3, FallAccess
    <3>5. BothInv'
          BY <3>3, <3>4, BothStays
    <3>6. Ending(t)'
          BY <1>1, <3>3 DEF Ending
    <3>7. CASE n < 22
      <4>1. isr' = <<>> \o (Rest(Fall, n + 1) \o t) /\ <<>> \in Seq(Inert) /\ n + 1 < 23
        <5>1. n + 1 \in 0 .. Len(Fall) /\ n + 1 < 23
              BY <1>2, <3>1, <3>7
        <5>2. Rest(Fall, n + 1) \o t \in Seq(IsrOp)
              BY <1>2, <5>1, PlaceIsList
        <5> QED BY <3>3, <5>1, <5>2, ConcatEmptySeq, EmptySeq
      <4>2. Falling'
            BY <3>1, <3>4, <3>6, <3>7, <4>1, FallFrom
      <4> QED BY <3>3, <3>5, <4>2 DEF Running
    <3>8. CASE n = 22
      <4>1. isr' = t
        <5>1. n + 1 = Len(Fall)
              BY <1>2, <3>8
        <5> QED BY <1>2, <3>3, <5>1, NothingLeft
      <4>2. CASE t \in Seq(Inert)
        <5>1. Calm'
              BY <4>1, <4>2 DEF Calm
        <5>2. FallenBack'
              BY <3>4, <3>8, <5>1 DEF FallenBack
        <5> QED BY <3>3, <3>5, <5>2 DEF Running
      <4>3. CASE ~(t \in Seq(Inert))
        <5>1. PICK q \in Seq(Inert) : both /\ t = Rise \o q
              BY <1>1, <4>3 DEF Ending, Rise
        <5>2. t = <<>> \o (Rest(Rise, 0) \o q) /\ <<>> \in Seq(Inert)
              BY <1>2, <5>1, ConcatEmptySeq, EmptySeq, WholeIsRest, ListsAreOps, ZenonT(60) DEF Rise
        <5>3. 0 \in Nat /\ 0 < 10
              OBVIOUS
        <5>4. Rises(t, 0)
              BY <5>2, <5>3, RisesFrom
        <5>5. Rises(isr', 0) /\ both'
              BY <3>3, <4>1, <5>1, <5>4
        <5>6. FallenBack'
              BY <3>4, <3>8, <5>3, <5>5 DEF FallenBack
        <5> QED BY <3>3, <3>5, <5>6 DEF Running
      <4> QED BY <4>2, <4>3
    <3> QED BY <1>1, <3>7, <3>8
  <2> QED BY <2>3, <2>4
<1> QED BY <1>3, <1>4

\* A step where the list of the connection at super speed is due.
LEMMA RisesStep ==
    ASSUME TypeInv, L!IsrStep, NEW n \in Nat, n < 10, Rises(isr, n)
    PROVE  /\ UNCHANGED <<main, saved, both>>
           /\ \/ Rises(isr', n) /\ Untouched /\ reg'["LNK_INTR"] = reg["LNK_INTR"]
              \/ n < 9 /\ Rises(isr', n + 1) /\ n \in {0, 1, 7, 8} /\ reg' = reg
              \/ n < 9 /\ Rises(isr', n + 1) /\ n \notin {0, 1, 7, 8} /\ L!Access(Rise[n + 1])
              \/ n = 9 /\ Calm' /\ L!Access(Rise[n + 1])
<1>1. PICK p \in Seq(Inert), q \in Seq(Inert) : isr = p \o (Rest(Rise, n) \o q)
      BY DEF Rises, Rise
<1>2. Rise \in Seq(Op) /\ Len(Rise) = 10 /\ q \in Seq(IsrOp) /\ n \in 0 .. Len(Rise)
  <2>1. Rise \in Seq(Op) /\ q \in Seq(IsrOp)
        BY ListsAreOps, InertInIsr DEF Rise
  <2>2. Len(Rise) = 10
        BY RiseOps DEF Rise
  <2>3. n \in 0 .. 10
        OBVIOUS
  <2> QED BY <2>1, <2>2, <2>3
<1>3. CASE p # <<>>
  <2>1. Rest(Rise, n) \o q \in Seq(IsrOp)
        BY <1>2, PlaceIsList
  <2>2. /\ \E p2 \in Seq(Inert) : isr' = p2 \o (Rest(Rise, n) \o q)
        /\ Untouched /\ reg'["LNK_INTR"] = reg["LNK_INTR"] /\ UNCHANGED <<main, saved, both>>
        BY <1>1, <1>3, <2>1, InertStep
  <2>3. Rises(isr', n)
        BY <2>2, RisesFrom
  <2> QED BY <2>2, <2>3
<1>4. CASE p = <<>>
  <2>1. isr = Rest(Rise, n) \o q
    <3>1. Rest(Rise, n) \o q \in Seq(IsrOp)
          BY <1>2, PlaceIsList
    <3> QED BY <1>1, <1>4, <3>1, ConcatEmptySeq
  <2>2. Head(isr) = Rise[n + 1] /\ Tail(isr) = Rest(Rise, n + 1) \o q
        BY <1>2, <2>1, IsrAt
  <2>3. CASE n \in {0, 1, 7, 8}
    <3>1. Head(isr) = L!Do("phy")
          BY <2>2, <2>3, RiseOps, SMTT(40) DEF Rise
    <3>2. isr' = L!WritePhyReg \o (Rest(Rise, n + 1) \o q) /\ UNCHANGED <<reg, main, saved, both>>
          BY <2>2, <3>1, IsrPhy
    <3>3. L!WritePhyReg \in Seq(Inert) /\ n + 1 \in Nat /\ n < 9
          BY <2>3, PhyRegisterOps, InertInIsr
    <3>4. Rises(isr', n + 1)
          BY <3>2, <3>3, RisesFrom
    <3> QED BY <2>3, <3>2, <3>3, <3>4
  <2>4. CASE n \notin {0, 1, 7, 8}
    <3>1. Len(Rise[n + 1]) = 3
          BY <2>4, RiseOps, LenOfAccess DEF Rise
    <3>2. L!Access(Rise[n + 1]) /\ isr' = Rest(Rise, n + 1) \o q /\ UNCHANGED <<main, saved, both>>
          BY <2>2, <3>1, IsrAccess
    <3>3. CASE n < 9
      <4>1. n + 1 \in Nat /\ n + 1 \in 0 .. Len(Rise)
            BY <1>2, <3>3
      <4>2. isr' = <<>> \o (Rest(Rise, n + 1) \o q) /\ <<>> \in Seq(Inert)
        <5>1. Rest(Rise, n + 1) \o q \in Seq(IsrOp)
              BY <1>2, <4>1, PlaceIsList
        <5> QED BY <3>2, <5>1, ConcatEmptySeq, EmptySeq
      <4>3. Rises(isr', n + 1)
            BY <4>1, <4>2, RisesFrom
      <4> QED BY <2>4, <3>2, <3>3, <4>3
    <3>4. CASE n = 9
      <4>1. n + 1 = Len(Rise)
            BY <1>2, <3>4
      <4>2. isr' = q
            BY <1>2, <3>2, <4>1, NothingLeft
      <4>3. Calm'
            BY <4>2 DEF Calm
      <4> QED BY <3>2, <3>4, <4>3
    <3> QED BY <3>3, <3>4
  <2> QED BY <2>3, <2>4
<1> QED BY <1>3, <1>4

LEMMA RisingStep ==
    ASSUME TypeInv, L!IsrStep, BothInv, Rising, main = <<>>
    PROVE  Running' /\ BothInv'
<1>1. PICK n \in Nat : n < 10 /\ Rises(isr, n) /\ RisingAt(n)
      BY DEF Rising
<1>2. /\ UNCHANGED <<main, saved, both>>
      /\ \/ Rises(isr', n) /\ Untouched /\ reg'["LNK_INTR"] = reg["LNK_INTR"]
         \/ n < 9 /\ Rises(isr', n + 1) /\ n \in {0, 1, 7, 8} /\ reg' = reg
         \/ n < 9 /\ Rises(isr', n + 1) /\ n \notin {0, 1, 7, 8} /\ L!Access(Rise[n + 1])
         \/ n = 9 /\ Calm' /\ L!Access(Rise[n + 1])
      BY <1>1, RisesStep
<1>3. CASE Rises(isr', n) /\ Untouched /\ reg'["LNK_INTR"] = reg["LNK_INTR"]
  <2>1. RisingAt(n)'
        BY <1>1, <1>3, ModesKeep
  <2>2. Rising'
        BY <1>1, <1>3, <2>1 DEF Rising
  <2>3. BothInv'
        BY <1>2, <1>3, BothStays
  <2> QED BY <1>2, <2>2, <2>3 DEF Running
<1>4. CASE n < 9 /\ Rises(isr', n + 1) /\ n \in {0, 1, 7, 8} /\ reg' = reg
  <2>1. RisingAt(n + 1)'
        BY <1>1, <1>4 DEF RisingAt, SsOn, SsClock
  <2>2. n + 1 \in Nat /\ n + 1 < 10
        BY <1>4
  <2>3. Rising'
        BY <1>4, <2>1, <2>2 DEF Rising
  <2>4. BothInv'
        BY <1>2, <1>4 DEF BothInv
  <2> QED BY <1>2, <2>3, <2>4 DEF Running
<1>5. CASE n < 9 /\ Rises(isr', n + 1) /\ n \notin {0, 1, 7, 8} /\ L!Access(Rise[n + 1])
  <2>1. RisingAt(n + 1)' /\ reg'["LNK_INTR"] = reg["LNK_INTR"]
        BY <1>1, <1>5, RiseAccess
  <2>2. n + 1 \in Nat /\ n + 1 < 10
        BY <1>5
  <2>3. Rising'
        BY <1>5, <2>1, <2>2 DEF Rising
  <2>4. BothInv'
        BY <1>2, <2>1, BothStays
  <2> QED BY <1>2, <2>3, <2>4 DEF Running
<1>6. CASE n = 9 /\ Calm' /\ L!Access(Rise[n + 1])
  <2>1. SsOn' /\ SsClock' /\ reg'["LNK_INTR"] = reg["LNK_INTR"]
        BY <1>1, <1>6, RiseAccess
  <2>2. BothInv'
        BY <1>2, <2>1, BothStays
  <2> QED BY <1>2, <1>6, <2>1, <2>2 DEF Running
<1> QED BY <1>2, <1>3, <1>4, <1>5, <1>6

\* The connection both asked for leaves the pull-up and the mask as they are.
LEMMA FallenStep ==
    ASSUME TypeInv, L!IsrStep, BothInv, FallenBack, main = <<>>
    PROVE  FallenBack' /\ main' = <<>> /\ BothInv'
<1>1. CASE Calm /\ (both \/ HsUp)
  <2>1. /\ Calm' /\ Untouched /\ reg'["LNK_INTR"] = reg["LNK_INTR"]
        /\ UNCHANGED <<main, saved, both>>
        BY <1>1, CalmStep
  <2>2. Fallen' /\ (HsUp => HsUp') /\ BothInv'
        BY <2>1, ModesKeep, BothStays DEF FallenBack
  <2> QED BY <1>1, <2>1, <2>2 DEF FallenBack
<1>2. ASSUME both, NEW n \in Nat, n < 10, Rises(isr, n)
      PROVE  FallenBack' /\ main' = <<>> /\ BothInv'
  <2>1. /\ UNCHANGED <<main, saved, both>>
        /\ \/ Rises(isr', n) /\ Untouched /\ reg'["LNK_INTR"] = reg["LNK_INTR"]
           \/ n < 9 /\ Rises(isr', n + 1) /\ n \in {0, 1, 7, 8} /\ reg' = reg
           \/ n < 9 /\ Rises(isr', n + 1) /\ n \notin {0, 1, 7, 8} /\ L!Access(Rise[n + 1])
           \/ n = 9 /\ Calm' /\ L!Access(Rise[n + 1])
        BY <1>2, RisesStep
  <2>2. Fallen' /\ BothInv'
    <3>1. CASE Untouched /\ reg'["LNK_INTR"] = reg["LNK_INTR"]
          BY <2>1, <3>1, ModesKeep, BothStays DEF FallenBack
    <3>2. CASE reg' = reg
          BY <2>1, <3>2 DEF FallenBack, Fallen, BothInv
    <3>3. CASE n \notin {0, 1, 7, 8} /\ L!Access(Rise[n + 1])
          BY <1>2, <2>1, <3>3, RiseAccess, BothStays DEF FallenBack
    <3> QED BY <2>1, <3>1, <3>2, <3>3
  <2>3. Calm' \/ \E k \in Nat : k < 10 /\ Rises(isr', k)
    <3>1. n + 1 \in Nat /\ (n < 9 => n + 1 < 10)
          OBVIOUS
    <3> QED BY <1>2, <2>1, <3>1
  <2> QED BY <1>2, <2>1, <2>2, <2>3 DEF FallenBack
<1> QED BY <1>1, <1>2 DEF FallenBack

LEMMA RunningIsr ==
    ASSUME TypeInv, L!IsrStep, BothInv, Running
    PROVE  Running' /\ BothInv'
<1>1. main = <<>>
      BY DEF Running
<1>2. CASE (Off \/ (SsOn /\ SsClock)) /\ Calm
  <2>1. /\ Calm' /\ Untouched /\ reg'["LNK_INTR"] = reg["LNK_INTR"]
        /\ UNCHANGED <<main, saved, both>>
        BY <1>2, CalmStep
  <2>2. (Off => Off') /\ (SsOn => SsOn') /\ (SsClock => SsClock') /\ BothInv'
        BY <2>1, ModesKeep, BothStays
  <2> QED BY <1>1, <1>2, <2>1, <2>2 DEF Running
<1>3. CASE SsOn /\ SsClock /\ Asked
  <2>1. PICK p \in Seq(Inert), q \in Seq(Inert) : isr = p \o (<< L!Do("LNK") >> \o q)
        BY <1>3 DEF Asked
  <2>2. << L!Do("LNK") >> \o q \in Seq(IsrOp)
    <3>1. << L!Do("LNK") >> \in Seq(IsrOp) /\ q \in Seq(IsrOp)
          BY PartLists, InertInIsr
    <3> QED BY <3>1, ConcatProperties
  <2>3. CASE p # <<>>
    <3>1. /\ \E p2 \in Seq(Inert) : isr' = p2 \o (<< L!Do("LNK") >> \o q)
          /\ Untouched /\ reg'["LNK_INTR"] = reg["LNK_INTR"] /\ UNCHANGED <<main, saved, both>>
          BY <2>1, <2>2, <2>3, InertStep
    <3>2. Asked'
          BY <3>1 DEF Asked
    <3>3. SsOn' /\ SsClock' /\ BothInv'
          BY <1>3, <3>1, ModesKeep, BothStays
    <3> QED BY <1>1, <3>1, <3>2, <3>3 DEF Running
  <2>4. CASE p = <<>>
    <3>1. isr = << L!Do("LNK") >> \o q
          BY <2>1, <2>2, <2>4, ConcatEmptySeq
    <3> QED BY <1>1, <1>3, <3>1, LnkStep
  <2> QED BY <2>3, <2>4
<1>4. CASE Falling
      BY <1>1, <1>4, FallingStep
<1>5. CASE Rising
      BY <1>1, <1>5, RisingStep
<1>6. CASE FallenBack
      BY <1>1, <1>6, FallenStep DEF Running
<1> QED BY <1>2, <1>3, <1>4, <1>5, <1>6 DEF Running

LEMMA PlaceIsSome ==
    ASSUME NEW ops \in Seq(Op), NEW n \in Nat, n < Len(ops),
           NEW p \in Seq(Inert), NEW t \in Seq(IsrOp)
    PROVE  p \o (Rest(ops, n) \o t) # <<>>
<1>1. ops \in Seq(IsrOp) /\ p \in Seq(IsrOp) /\ n \in 0 .. Len(ops)
      BY InertInIsr
<1>2. Rest(ops, n) \o t \in Seq(IsrOp) /\ Rest(ops, n) \o t # <<>>
      BY <1>1, PlaceIsList, TakeOne
<1> QED BY <1>1, <1>2, ConcatEqualIffEmpty

\* The lists of Falling and of Rises are not empty.
LEMMA NoListNoPlace ==
    ASSUME isr = <<>>
    PROVE  ~Falling /\ \A n \in Nat : n < 10 => ~Rises(isr, n)
<1>1. ASSUME Falling PROVE FALSE
  <2>1. PICK n \in Nat, p \in Seq(Inert), t \in Seq(Op \cup Inert) :
            n < 23 /\ isr = p \o (Rest(Fall, n) \o t)
        BY <1>1 DEF Falling, Fall
  <2>2. n < Len(Fall) /\ t \in Seq(IsrOp) /\ Fall \in Seq(Op)
        BY <2>1, FallList, InertInIsr
  <2> QED BY <2>1, <2>2, PlaceIsSome
<1>2. ASSUME NEW n \in Nat, n < 10, Rises(isr, n) PROVE FALSE
  <2>1. PICK p \in Seq(Inert), q \in Seq(Inert) : isr = p \o (Rest(Rise, n) \o q)
        BY <1>2 DEF Rises, Rise
  <2>2. n < Len(Rise) /\ q \in Seq(IsrOp) /\ Rise \in Seq(Op)
        BY <1>2, RiseOps, ListsAreOps, InertInIsr DEF Rise
  <2> QED BY <2>1, <2>2, PlaceIsSome
<1> QED BY <1>1, <1>2

LEMMA RunningInterrupts ==
    ASSUME TypeInv, L!UsbCoreIsr \/ L!GctlPowerIsr, BothInv, Running
    PROVE  Running' /\ BothInv'
<1>1. isr = <<>> /\ UNCHANGED <<reg, main, saved, both>>
      BY DEF L!UsbCoreIsr, L!GctlPowerIsr
<1>2. ~Falling /\ ~Rising /\ \A n \in Nat : n < 10 => ~Rises(isr, n)
      BY <1>1, NoListNoPlace DEF Rising
<1>3. /\ main' = <<>> /\ (Off => Off') /\ (SsOn => SsOn') /\ (SsClock => SsClock')
      /\ (Fallen => Fallen') /\ (HsUp => HsUp') /\ BothInv'
      BY <1>1 DEF Running, Off, SsOn, SsClock, Fallen, HsUp, BothInv
<1>4. CASE L!GctlPowerIsr
  <2>1. isr' = << L!AckAll("IOPOWER") >> /\ L!AckAll("IOPOWER") \in Inert
        BY <1>4 DEF L!GctlPowerIsr, L!powerOps, Inert
  <2>2. Calm'
        BY <2>1 DEF Calm
  <2>3. Off \/ (SsOn /\ SsClock) \/ (Fallen /\ (both' \/ HsUp'))
        BY <1>1, <1>2, <1>3 DEF Running, FallenBack
  <2> QED BY <1>3, <2>2, <2>3 DEF Running, FallenBack
<1>5. CASE L!UsbCoreIsr
  <2> DEFINE a == L!OnlyIf("PROT" \in L!UibRequest, << L!Do("PROT") >>)
             b == L!OnlyIf("LNK" \in L!UibRequest, << L!Do("LNK") >>)
             c == L!OnlyIf("DEV_CTL" \in L!UibRequest, << L!AckAll("DEV_INTR") >>)
  <2>1. a \in Seq(Inert) /\ c \in Seq(Inert)
    <3>1. L!Do("PROT") \in Inert /\ L!AckAll("DEV_INTR") \in Inert
          BY DEF Inert
    <3>2. << L!Do("PROT") >> \in Seq(Inert) /\ << L!AckAll("DEV_INTR") >> \in Seq(Inert)
          BY <3>1
    <3> QED BY <3>2, OnlyIfInSeq
  <2>2. b = << L!Do("LNK") >> \/ b = <<>>
        BY DEF L!OnlyIf
  <2>3. L!LnkRequest = {} => b = <<>>
        BY DEF L!OnlyIf, L!UibRequest
  <2>4. isr' = a \o b \o c
        BY <1>5 DEF L!UsbCoreIsr
  <2>5. "USB_CORE" \in reg["VIC"]
        BY <1>5 DEF L!UsbCoreIsr
  <2> HIDE DEF a, b, c
  <2>6. ~Off
        BY <2>5 DEF Off
  <2>7. CASE b = <<>>
    <3>1. isr' \in Seq(Inert)
      <4>1. a \o b = a /\ a \o c \in Seq(Inert)
            BY <2>1, <2>7, ConcatEmptySeq, ConcatProperties
      <4> QED BY <2>4, <4>1
    <3>2. Calm'
          BY <3>1 DEF Calm
    <3>3. (SsOn /\ SsClock) \/ (Fallen /\ (both' \/ HsUp'))
          BY <1>1, <1>2, <1>3, <2>6 DEF Running, FallenBack
    <3> QED BY <1>3, <3>2, <3>3 DEF Running, FallenBack
  <2>8. CASE b = << L!Do("LNK") >>
    <3>1. b # <<>>
          BY <2>8
    <3>2. ~Fallen
          BY <2>3, <3>1 DEF Fallen, L!LnkRequest
    <3>3. SsOn /\ SsClock
          BY <1>2, <2>6, <3>2 DEF Running, FallenBack
    <3>4. a \o b \o c = a \o (b \o c)
      <4>1. a \in Seq(IsrOp) /\ b \in Seq(IsrOp) /\ c \in Seq(IsrOp)
            BY <2>1, <2>8, PartLists, InertInIsr
      <4> QED BY <4>1, JoinLists
    <3>5. Asked'
          BY <2>1, <2>4, <2>8, <3>4 DEF Asked
    <3> QED BY <1>3, <3>3, <3>5 DEF Running
  <2> QED BY <2>2, <2>7, <2>8
<1> QED BY <1>4, <1>5

LEMMA ModeStutters ==
    ASSUME ModeInv, UNCHANGED linkVars
    PROVE  ModeInv'
<1>1. UNCHANGED <<reg, main, saved, isr, both>>
      BY DEF linkVars
<1>2. BothInv => BothInv'
      BY <1>1 DEF BothInv
<1>3. CASE Booting
  <2>1. PICK n \in Nat : n < 18 /\ main = Rest(bootOps, n) /\ BootAt(n)
        BY <1>3 DEF Booting
  <2>2. BootAt(n)'
        BY <1>1, <2>1 DEF BootAt, PowerOnly
  <2>3. Booting'
        BY <1>1, <2>1, <2>2 DEF Booting
  <2> QED BY <2>3 DEF ModeInv
<1>4. CASE BothInv /\ Enabling
  <2>1. PICK n \in Nat, p \in Seq(PhyStep) :
            /\ n < 22 /\ (p = <<>> \/ n = 18)
            /\ main = p \o Rest(L!enablePhyOps, n) /\ EnablingAt(n)
        BY <1>4 DEF Enabling
  <2>2. EnablingAt(n)'
        BY <1>1, <2>1 DEF EnablingAt, PowerOnly
  <2>3. main' = p \o Rest(L!enablePhyOps, n)
        BY <1>1, <2>1
  <2>4. Enabling'
        BY <2>1, <2>2, <2>3, EnableFrom
  <2> QED BY <1>2, <1>4, <2>4 DEF ModeInv
<1>5. CASE BothInv /\ Running
  <2>1. Untouched
        BY <1>1 DEF Untouched
  <2>2. Running'
        BY <1>1, <1>5, <2>1, SameList
  <2> QED BY <1>2, <1>5, <2>2 DEF ModeInv
<1> QED BY <1>3, <1>4, <1>5 DEF ModeInv

LEMMA ModeMainStep ==
    ASSUME TypeInv, L!MainStep, ModeInv
    PROVE  ModeInv'
<1>1. CASE Booting
  <2>1. PICK n \in Nat : n < 18 /\ main = Rest(bootOps, n) /\ BootAt(n)
        BY <1>1 DEF Booting
  <2>2. CASE n = 17
        BY <2>1, <2>2, BootEnds DEF ModeInv
  <2>3. CASE n # 17
    <3>1. n < 17
          BY <2>1, <2>3
    <3> QED BY <2>1, <3>1, BootStep DEF ModeInv
  <2> QED BY <2>2, <2>3
<1>2. CASE BothInv /\ Enabling
  <2>1. PICK n \in Nat, p \in Seq(PhyStep) :
            /\ n < 22 /\ (p = <<>> \/ n = 18)
            /\ main = p \o Rest(L!enablePhyOps, n) /\ EnablingAt(n)
        BY <1>2 DEF Enabling
  <2>2. CASE p = <<>>
    <3>1. main = Rest(L!enablePhyOps, n)
      <4>1. n \in 0 .. Len(L!enablePhyOps) /\ L!enablePhyOps \in Seq(MainOp)
            BY <2>1, EnableOps, ListsAreOps, SMTT(40)
      <4>2. Rest(L!enablePhyOps, n) \in Seq(MainOp)
            BY <4>1, RestOfSeq
      <4> QED BY <2>1, <2>2, <4>2, ConcatEmptySeq
    <3> QED BY <1>2, <2>1, <3>1, EnableStep DEF ModeInv
  <2>3. CASE p # <<>>
    <3>1. main = p \o Rest(L!enablePhyOps, 18) /\ EnablingAt(18)
          BY <2>1, <2>3
    <3> QED BY <1>2, <2>3, <3>1, PhyMainStep DEF ModeInv
  <2> QED BY <2>2, <2>3
<1>3. CASE Running
      BY <1>3 DEF Running, L!MainStep
<1> QED BY <1>1, <1>2, <1>3 DEF ModeInv

LEMMA ModeSteps ==
    ASSUME TypeInv, ModeInv, [MCNext]_allVars
    PROVE  ModeInv'
<1>1. CASE L!MainStep
      BY <1>1, ModeMainStep
<1>2. CASE L!UsbCoreIsr \/ L!GctlPowerIsr \/ L!IsrStep
  <2>1. CASE Booting
        BY <1>2, <2>1, BootInterrupts DEF ModeInv
  <2>2. CASE BothInv /\ Enabling
        BY <1>2, <2>2, EnableInterrupts DEF ModeInv
  <2>3. CASE BothInv /\ Running
        BY <1>2, <2>3, RunningInterrupts, RunningIsr DEF ModeInv
  <2> QED BY <2>1, <2>2, <2>3 DEF ModeInv
<1>3. CASE Event
  <2>1. CASE Booting
        BY <1>3, <2>1, BootEvent DEF ModeInv
  <2>2. CASE BothInv /\ Enabling
        BY <1>3, <2>2, EnableEvent DEF ModeInv
  <2>3. CASE BothInv /\ Running
        BY <1>3, <2>3, RunningEvent DEF ModeInv
  <2> QED BY <2>1, <2>2, <2>3 DEF ModeInv
<1>4. CASE UNCHANGED linkVars
      BY <1>4, ModeStutters
<1>5. L!MainLoop => UNCHANGED linkVars
      BY DEF L!MainLoop, L!vars, linkVars
<1>6. L!Next \/ UNCHANGED linkVars
      BY DEF MCNext, allVars
<1>7. L!Next => L!MainStep \/ L!MainLoop \/ L!UsbCoreIsr \/ L!GctlPowerIsr \/ L!IsrStep \/ Event
      BY DEF L!Next, Event
<1> QED BY <1>1, <1>2, <1>3, <1>4, <1>5, <1>6, <1>7

LEMMA ModeStarts ==
    ASSUME L!Init
    PROVE  ModeInv
<1>1. main = bootOps /\ isr = <<>>
      BY DEF L!Init, bootOps
<1>2. reg["VIC"] = {}
      BY RegsOfBits DEF L!Init, Regs
<1>3. BootAt(0)
      BY <1>1, <1>2 DEF BootAt, PowerOnly
<1>4. main = Rest(bootOps, 0) /\ 0 \in Nat /\ 0 < 18
      BY <1>1, ListsAreOps, WholeIsRest
<1>5. Booting
      BY <1>3, <1>4 DEF Booting
<1> QED BY <1>5 DEF ModeInv

(***************************************************************************)
(* At every place of the lists that main and the handler go through, the    *)
(* registers of the modes are what those lists leave (usb.c:66-291,         *)
(* 344-530).                                                                *)
(***************************************************************************)
THEOREM ModesFollowed ==
    MCSpec => [](TypeInv /\ ModeInv)
<1>1. MCInit => TypeInv /\ TimerInv /\ ModeInv
      BY LinkInit, ModeStarts DEF MCInit
<1>2. TypeInv /\ TimerInv /\ ModeInv /\ [MCNext]_allVars => (TypeInv /\ TimerInv /\ ModeInv)'
      BY LinkSteps, ModeSteps
<1> QED BY <1>1, <1>2, PTL DEF MCSpec, allVars

-----------------------------------------------------------------------------
(***************************************************************************)
(* What follows from it.                                                    *)
(***************************************************************************)
LEMMA MoreToDo ==
    ASSUME NEW S, NEW ops \in Seq(S), NEW n \in Nat, n < Len(ops), NEW p \in Seq(S)
    PROVE  Rest(ops, n) # <<>> /\ p \o Rest(ops, n) # <<>>
<1>1. n \in 0 .. Len(ops) /\ Len(ops) \in Nat
      OBVIOUS
<1>2. Rest(ops, n) \in Seq(S) /\ Len(Rest(ops, n)) = Len(ops) - n
      BY <1>1, RestOfSeq
<1>3. Rest(ops, n) # <<>>
      BY <1>1, <1>2
<1> QED BY <1>2, <1>3, ConcatEqualIffEmpty

LEMMA DoneIsRunning ==
    ASSUME TypeInv, ModeInv, main = <<>>
    PROVE  BothInv /\ Running
<1>1. ASSUME Booting PROVE FALSE
  <2>1. PICK n \in Nat : n < 18 /\ main = Rest(bootOps, n)
        BY <1>1 DEF Booting
  <2>2. bootOps \in Seq(Op) /\ n < Len(bootOps) /\ <<>> \in Seq(Op)
        BY <2>1, BootOps, ListsAreOps, EmptySeq
  <2>3. Rest(bootOps, n) # <<>>
        BY <2>2, MoreToDo
  <2> QED BY <2>1, <2>3
<1>2. ASSUME Enabling PROVE FALSE
  <2>1. PICK n \in Nat, p \in Seq(PhyStep) : n < 22 /\ main = p \o Rest(L!enablePhyOps, n)
        BY <1>2 DEF Enabling
  <2>2. L!enablePhyOps \in Seq(MainOp) /\ n < Len(L!enablePhyOps)
        BY <2>1, EnableOps, ListsAreOps
  <2>3. p \in Seq(MainOp)
        BY OpsAreOps, SeqMonotonic
  <2>4. p \o Rest(L!enablePhyOps, n) # <<>>
        BY <2>2, <2>3, MoreToDo
  <2> QED BY <2>1, <2>4
<1> QED BY <1>1, <1>2 DEF ModeInv

LEMMA ModesOfRunning ==
    ASSUME TypeInv, ModeInv
    PROVE  LinkModesAgree
<1>1. L!TypeOK
  <2>1. \A r \in DOMAIN L!Bits : reg[r] \subseteq L!Bits[r]
        BY RegsOfBits DEF TypeInv, Typed
  <2>2. expected \in L!Bits.PHY_REQ
        BY BitsOf DEF TypeInv
  <2> QED BY <2>1, <2>2 DEF L!TypeOK, TypeInv
<1>2. ASSUME ~both, main = <<>>, isr = <<>> PROVE L!ModesAgree
  <2>1. Running /\ ~Falling /\ ~Rising /\ \A n \in Nat : n < 10 => ~Rises(isr, n)
        BY <1>2, DoneIsRunning, NoListNoPlace DEF Rising
  <2>2. CASE Off
    <3>1. ~L!HighSpeed /\ ~L!SuperSpeed /\ reg["OTG_CTRL"] = {} /\ reg["CONTROL"] = {}
          BY <2>2 DEF Off, L!HighSpeed, L!SuperSpeed
    <3> QED BY <3>1 DEF L!ModesAgree
  <2>3. CASE SsOn /\ SsClock
    <3>1. ~L!HighSpeed /\ L!SuperSpeed
          BY <2>3 DEF SsOn, L!HighSpeed, L!SuperSpeed
    <3> QED BY <2>3, <3>1 DEF L!ModesAgree, SsOn, SsClock, LinkGroups
  <2>4. CASE Fallen /\ HsUp
    <3>1. L!HighSpeed /\ ~L!SuperSpeed
          BY <2>4 DEF Fallen, L!HighSpeed, L!SuperSpeed
    <3> QED BY <2>4, <3>1 DEF L!ModesAgree, HsUp, LinkGroups
  <2> QED BY <1>2, <2>1, <2>2, <2>3, <2>4 DEF Running, FallenBack
<1>3. L!ModesAgreeUnlessBoth
      BY <1>2 DEF L!ModesAgreeUnlessBoth, L!ModesAgree, L!Idle
<1> QED BY <1>1, <1>3 DEF LinkModesAgree

LEMMA FallenStays ==
    ASSUME TypeInv, ModeInv, [MCNext]_allVars, main = <<>>, L!HighSpeed
    PROVE  L!HighSpeed' /\ ~L!SuperSpeed'
<1>1. BothInv /\ Running
      BY DoneIsRunning
<1>2. reg["DEV_PWR"] # {"DISCON"}
      BY DEF L!HighSpeed
<1>3. FallenBack
  <2>1. ~Off /\ ~SsOn
        BY <1>2 DEF Off, SsOn
  <2>2. ~Falling
        BY <1>2 DEF Falling, FallingAt
  <2>3. ~Rising
        BY <2>1 DEF Rising, RisingAt
  <2> QED BY <1>1, <2>1, <2>2, <2>3 DEF Running
<1>4. CASE L!IsrStep
      BY <1>1, <1>3, <1>4, FallenStep DEF FallenBack, Fallen, L!HighSpeed, L!SuperSpeed
<1>5. CASE Event
  <2>1. PICK r \in {"LNK_INTR", "PROT_INTR", "DEV_INTR", "IOPOWER"} : EventOn(r)
        BY <1>5, EventEffect
  <2>2. Untouched
        BY <2>1 DEF Untouched, EventOn, Light
  <2>3. Fallen'
        BY <1>3, <2>2, ModesKeep DEF FallenBack
  <2> QED BY <2>3 DEF Fallen, L!HighSpeed, L!SuperSpeed
<1>6. CASE reg' = reg
      BY <1>3, <1>6 DEF FallenBack, Fallen, L!HighSpeed, L!SuperSpeed
<1>7. L!UsbCoreIsr \/ L!GctlPowerIsr \/ L!MainLoop \/ UNCHANGED linkVars => reg' = reg
      BY DEF L!UsbCoreIsr, L!GctlPowerIsr, L!MainLoop, L!vars, linkVars
<1>8. ~L!MainStep
      BY DEF L!MainStep
<1>9. L!Next \/ UNCHANGED linkVars
      BY DEF MCNext, allVars
<1> QED BY <1>4, <1>5, <1>6, <1>7, <1>8, <1>9 DEF L!Next, Event

(***************************************************************************)
(* The modes, clocks, termination and interrupts agree with the kind of     *)
(* connection, unless CONNECT and DISCONNECT were latched together, for any *)
(* number of events (usb.c:66-291, 409-422).                                *)
(***************************************************************************)
THEOREM ModesAgreeAlways ==
    MCSpec => []LinkModesAgree
BY ModesFollowed, ModesOfRunning, PTL

(***************************************************************************)
(* No event of the super speed link takes the device off the bus again once *)
(* it fell back to high speed, whether or not both were latched             *)
(* (usb.c:108-112, 415-422).                                                *)
(***************************************************************************)
THEOREM FallbackStays ==
    MCSpec => FallbackIsFinal
<1> DEFINE Stays == main = <<>> /\ L!HighSpeed => L!HighSpeed' /\ ~L!SuperSpeed'
<1>1. TypeInv /\ ModeInv /\ [MCNext]_allVars => [Stays]_linkVars
      BY FallenStays
<1>2. [][Stays]_linkVars => FallbackIsFinal
      BY DEF FallbackIsFinal, L!FallbackIsFinal, L!vars, linkVars
<1> HIDE DEF Stays
<1>3. MCSpec => [][Stays]_linkVars
      BY <1>1, ModesFollowed, PTL DEF MCSpec, allVars
<1> QED BY <1>2, <1>3, PTL

-----------------------------------------------------------------------------
(***************************************************************************)
(* The strobes of the PHY.  Between two accesses to the PHY its handshake   *)
(* is at rest; in one, the strobe and the acknowledgement are what the list *)
(* of strobes has come to, and nothing else can run: main has taken the     *)
(* interrupts away, and a handler is not interrupted.                       *)
(***************************************************************************)
Rested(bit) == reg["PHY_REQ"] = {} /\ ~ack /\ expected = bit
Strobed(bit, after) == reg["PHY_REQ"] = {bit} /\ expected = IF ack THEN after ELSE bit
Answered(bit, after) == reg["PHY_REQ"] = {bit} /\ ack /\ expected = after
Withdrawn(after) == reg["PHY_REQ"] = {} /\ expected = after

PhyAt(n) ==
    /\ n = 0 => Rested("address")
    /\ n = 1 => Strobed("address", "data")
    /\ n = 2 => Answered("address", "data")
    /\ n = 3 => Withdrawn("data")
    /\ n = 4 => Rested("data")
    /\ n = 5 => Strobed("data", "write")
    /\ n = 6 => Answered("data", "write")
    /\ n = 7 => Withdrawn("write")
    /\ n = 8 => Rested("write")
    /\ n = 9 => Strobed("write", "address")
    /\ n = 10 => Answered("write", "address")
    /\ n = 11 => Withdrawn("address")
    /\ n = 12 => Rested("address")

PhyRests == PhyAt(0) /\ main \in Seq(MainQuiet) /\ isr \in Seq(IsrQuiet)

PhyOfMain ==
    /\ isr = <<>> /\ reg["VIC"] = {}
    /\ \E n \in Nat, q \in Seq(MainQuiet) : n < 12 /\ main = Rest(L!phyOps, n) \o q /\ PhyAt(n)

PhyOfIsr ==
    /\ main \in Seq(MainQuiet)
    /\ \E n \in Nat, q \in Seq(IsrQuiet) : n < 12 /\ isr = Rest(L!phyOps, n) \o q /\ PhyAt(n)

PhyInv == PhyRests \/ PhyOfMain \/ PhyOfIsr

Ordered == reg'["PHY_REQ"] \notin {{}, reg["PHY_REQ"]} => ~ack /\ reg'["PHY_REQ"] = {expected}

LEMMA PhyList ==
    /\ L!phyOps \in Seq(PhyStep) /\ Len(L!phyOps) = 12
    /\ L!phyOps[1] = L!Write("PHY_REQ", {"address"}) /\ L!phyOps[2] = L!Do("acknowledged")
    /\ L!phyOps[3] = L!Write("PHY_REQ", {}) /\ L!phyOps[4] = L!Do("released")
    /\ L!phyOps[5] = L!Write("PHY_REQ", {"data"}) /\ L!phyOps[6] = L!Do("acknowledged")
    /\ L!phyOps[7] = L!Write("PHY_REQ", {}) /\ L!phyOps[8] = L!Do("released")
    /\ L!phyOps[9] = L!Write("PHY_REQ", {"write"}) /\ L!phyOps[10] = L!Do("acknowledged")
    /\ L!phyOps[11] = L!Write("PHY_REQ", {}) /\ L!phyOps[12] = L!Do("released")
<1>1. L!phyOps \in Seq(PhyStep)
      BY PhyOpsAreSteps
<1> QED BY <1>1 DEF L!phyOps, L!strobeOps

LEMMA StrobeStep ==
    ASSUME TypeInv, NEW n \in Nat, n < 12, PhyAt(n), UNCHANGED <<ack, expected>>,
           NEW todo, NEW todoNext, Head(todo) = L!phyOps[n + 1], L!Step(todo, todoNext)
    PROVE  /\ todoNext = Tail(todo) /\ PhyAt(n + 1)' /\ Ordered
           /\ \A r \in Regs \ {"PHY_REQ"} : reg'[r] = reg[r]
<1>1. Typed /\ "PHY_REQ" \in Regs
      BY DEF TypeInv, Regs
<1>2. ASSUME NEW bits, Head(todo) = L!Write("PHY_REQ", bits)
      PROVE  /\ todoNext = Tail(todo) /\ reg'["PHY_REQ"] = bits
             /\ \A r \in Regs \ {"PHY_REQ"} : reg'[r] = reg[r]
  <2>1. Len(Head(todo)) = 3
        BY <1>2, LenOfAccess
  <2>2. ASSUME NEW name PROVE Head(todo) # L!Do(name)
        BY <2>1, DosAreShort
  <2>3. L!Access(Head(todo)) /\ todoNext = Tail(todo)
        BY <2>1, <2>2 DEF L!Step
  <2> QED BY <1>1, <1>2, <2>3, WriteEffect
<1>3. ASSUME Head(todo) = L!Do("acknowledged")
      PROVE  todoNext = Tail(todo) /\ reg' = reg /\ ack
  <2>1. /\ Head(todo) # L!Do("phy") /\ Head(todo) # L!Do("released")
        /\ Len(Head(todo)) # 3
        BY <1>3, NamesDiffer
  <2> QED BY <2>1 DEF L!Step
<1>4. ASSUME Head(todo) = L!Do("released")
      PROVE  todoNext = Tail(todo) /\ reg' = reg /\ ~ack
  <2>1. /\ Head(todo) # L!Do("phy") /\ Head(todo) # L!Do("acknowledged")
        /\ Len(Head(todo)) # 3
        BY <1>4, NamesDiffer
  <2> QED BY <2>1 DEF L!Step
<1>5. CASE n \in {0, 4, 8}
  <2>1. PICK bit \in {"address", "data", "write"} :
            Head(todo) = L!Write("PHY_REQ", {bit}) /\ Rested(bit)
            /\ (n = 0 => bit = "address") /\ (n = 4 => bit = "data") /\ (n = 8 => bit = "write")
    <3>1. CASE n = 0
          BY <3>1, PhyList DEF PhyAt
    <3>2. CASE n = 4
          BY <3>2, PhyList DEF PhyAt
    <3>3. CASE n = 8
          BY <3>3, PhyList DEF PhyAt
    <3> QED BY <1>5, <3>1, <3>2, <3>3
  <2>2. /\ todoNext = Tail(todo) /\ reg'["PHY_REQ"] = {bit}
        /\ \A r \in Regs \ {"PHY_REQ"} : reg'[r] = reg[r]
        BY <1>2, <2>1
  <2>3. Ordered
        BY <2>1, <2>2 DEF Ordered, Rested
  <2>4. PhyAt(n + 1)'
        BY <1>5, <2>1, <2>2 DEF PhyAt, Rested, Strobed
  <2> QED BY <2>2, <2>3, <2>4
<1>6. CASE n \in {1, 5, 9}
  <2>1. Head(todo) = L!Do("acknowledged")
        BY <1>6, PhyList
  <2>2. todoNext = Tail(todo) /\ reg' = reg /\ ack
        BY <1>3, <2>1
  <2>3. PhyAt(n + 1)'
        BY <1>6, <2>2 DEF PhyAt, Strobed, Answered
  <2> QED BY <2>2, <2>3 DEF Ordered
<1>7. CASE n \in {2, 6, 10}
  <2>1. Head(todo) = L!Write("PHY_REQ", {})
        BY <1>7, PhyList
  <2>2. /\ todoNext = Tail(todo) /\ reg'["PHY_REQ"] = {}
        /\ \A r \in Regs \ {"PHY_REQ"} : reg'[r] = reg[r]
        BY <1>2, <2>1
  <2>3. PhyAt(n + 1)'
        BY <1>7, <2>2 DEF PhyAt, Answered, Withdrawn
  <2> QED BY <2>2, <2>3 DEF Ordered
<1>8. CASE n \in {3, 7, 11}
  <2>1. Head(todo) = L!Do("released")
        BY <1>8, PhyList
  <2>2. todoNext = Tail(todo) /\ reg' = reg /\ ~ack
        BY <1>4, <2>1
  <2>3. PhyAt(n + 1)'
        BY <1>8, <2>2 DEF PhyAt, Withdrawn, Rested
  <2> QED BY <2>2, <2>3 DEF Ordered
<1>9. n \in {0, 4, 8} \/ n \in {1, 5, 9} \/ n \in {2, 6, 10} \/ n \in {3, 7, 11}
      OBVIOUS
<1> QED BY <1>5, <1>6, <1>7, <1>8, <1>9

LEMMA Different ==
    ASSUME NEW a \in BOOLEAN, NEW b \in BOOLEAN, a # b
    PROVE  (a /\ ~b) \/ (~a /\ b)
OBVIOUS

\* The PHY itself.
LEMMA PhyAnswers ==
    ASSUME TypeInv, L!PhyFollows, NEW n \in Nat, n < 12, PhyAt(n)
    PROVE  n # 0 /\ PhyAt(n)'
<1>1. /\ reg' = reg /\ ack' = ~ack /\ ack # (reg["PHY_REQ"] # {})
      /\ expected' = IF ack THEN expected
                     ELSE [address |-> "data", data |-> "write", write |-> "address"][expected]
      BY DEF L!PhyFollows, L!Strobe
<1>2. (ack /\ reg["PHY_REQ"] = {}) \/ (~ack /\ reg["PHY_REQ"] # {})
  <2> DEFINE strobe == reg["PHY_REQ"] # {}
  <2>1. ack \in BOOLEAN /\ strobe \in BOOLEAN /\ ack # strobe
        BY <1>1 DEF TypeInv
  <2> HIDE DEF strobe
  <2>2. (ack /\ ~strobe) \/ (~ack /\ strobe)
        BY <2>1, Different
  <2> QED BY <2>2 DEF strobe
<1>3. ASSUME NEW bit PROVE ~Rested(bit)
      BY <1>2 DEF Rested
<1>4. ASSUME NEW bit, NEW after PROVE ~Answered(bit, after)
      BY <1>2 DEF Answered
<1>5. n # 0 /\ n # 2 /\ n # 4 /\ n # 6 /\ n # 8 /\ n # 10
      BY <1>3, <1>4 DEF PhyAt
<1>6. CASE reg["PHY_REQ"] = {}
  <2>1. ack /\ reg'["PHY_REQ"] = {} /\ expected' = expected
        BY <1>1, <1>2, <1>6
  <2>2. ASSUME NEW bit, NEW after PROVE ~Strobed(bit, after)
        BY <1>6 DEF Strobed
  <2>3. n = 3 \/ n = 7 \/ n = 11
        BY <1>5, <2>2 DEF PhyAt
  <2>4. ASSUME NEW after, Withdrawn(after) PROVE Withdrawn(after)'
        BY <2>1, <2>4 DEF Withdrawn
  <2> QED BY <2>3, <2>4 DEF PhyAt
<1>7. CASE reg["PHY_REQ"] # {}
  <2>1. /\ ~ack /\ ack' /\ reg'["PHY_REQ"] = reg["PHY_REQ"]
        /\ expected = "address" => expected' = "data"
        /\ expected = "data" => expected' = "write"
        /\ expected = "write" => expected' = "address"
    <3>1. ~ack
          BY <1>2, <1>7
    <3>2. ack' /\ reg'["PHY_REQ"] = reg["PHY_REQ"]
          BY <1>1, <3>1
    <3>3. expected' = [address |-> "data", data |-> "write", write |-> "address"][expected]
          BY <1>1, <3>1
    <3> QED BY <3>1, <3>2, <3>3
  <2>2. ASSUME NEW after PROVE ~Withdrawn(after)
        BY <1>7 DEF Withdrawn
  <2>3. n = 1 \/ n = 5 \/ n = 9
        BY <1>5, <2>2 DEF PhyAt
  <2>4. CASE n = 1
    <3>1. Strobed("address", "data")'
          BY <2>1, <2>4 DEF PhyAt, Strobed
    <3> QED BY <2>4, <3>1 DEF PhyAt
  <2>5. CASE n = 5
    <3>1. Strobed("data", "write")'
          BY <2>1, <2>5 DEF PhyAt, Strobed
    <3> QED BY <2>5, <3>1 DEF PhyAt
  <2>6. CASE n = 9
    <3>1. Strobed("write", "address")'
          BY <2>1, <2>6 DEF PhyAt, Strobed
    <3> QED BY <2>6, <3>1 DEF PhyAt
  <2> QED BY <2>3, <2>4, <2>5, <2>6
<1> QED BY <1>5, <1>6, <1>7

LEMMA QuietAccess ==
    ASSUME Typed, NEW op \in MainQuiet \cup IsrQuiet, Len(op) = 3, L!Access(op)
    PROVE  reg'["PHY_REQ"] = reg["PHY_REQ"]
<1>1. ASSUME NEW r \in Regs, r # "PHY_REQ", op[2] = r PROVE reg'["PHY_REQ"] = reg["PHY_REQ"]
  <2>1. \A r2 \in Regs \ {r} : reg'[r2] = reg[r2]
        BY <1>1, AccessEffect
  <2> QED BY <1>1, <2>1 DEF Regs
<1>2. CASE op \in Other
  <2>1. ASSUME NEW name PROVE op # L!Do(name)
        BY DosAreShort
  <2>2. PICK r \in Regs \ Kept : op \in AccessTo(r)
        BY <1>2, <2>1 DEF Other
  <2>3. op[2] = r /\ r # "PHY_REQ"
        BY <2>2, AccessesAreTriples DEF Kept
  <2> QED BY <1>1, <2>2, <2>3
<1>3. CASE op \in ClearEvents
  <2>1. op[2] = "PROT_INTR"
        BY <1>3 DEF ClearEvents, L!Clear
  <2> QED BY <1>1, <2>1 DEF Regs
<1>4. CASE op = L!Write("LMP_TIMER", L!Lmp) \/ op \in StopTimer
  <2>1. op[2] = "LMP_TIMER"
        BY <1>4 DEF StopTimer, L!Clear, L!Write
  <2> QED BY <1>1, <2>1 DEF Regs
<1> QED BY <1>2, <1>3, <1>4 DEF MainQuiet, IsrQuiet, Quiet

\* Main asks for the PHY where it has taken the interrupts away.
LEMMA PhyUnmasked ==
    ASSUME TypeInv, ModeInv, L!MainStep, Head(main) = L!Do("phy")
    PROVE  reg["VIC"] = {}
<1>1. CASE Booting
  <2>1. PICK n \in Nat : n < 18 /\ main = Rest(bootOps, n) /\ BootAt(n)
        BY <1>1 DEF Booting
  <2>2. n # 17
    <3>1. ASSUME n = 17 PROVE FALSE
      <4>1. bootOps \in Seq(MainOp) /\ 17 < Len(bootOps) /\ bootOps[17 + 1] = L!Do("ifVbus")
            BY BootOps, ListsAreOps, OpsAreOps, SeqMonotonic
      <4>2. Head(main) = L!Do("ifVbus")
            BY <2>1, <3>1, <4>1, MainAt
      <4>3. "phy" # "ifVbus"
            OBVIOUS
      <4> QED BY <4>2, <4>3, NamesDiffer
    <3> QED BY <3>1
  <2> QED BY <2>1, <2>2 DEF BootAt
<1>2. CASE Enabling
  <2>1. PICK n \in Nat, p \in Seq(PhyStep) :
            /\ n < 22 /\ (p = <<>> \/ n = 18)
            /\ main = p \o Rest(L!enablePhyOps, n) /\ EnablingAt(n)
        BY <1>2 DEF Enabling
  <2>2. CASE n >= 12
        BY <2>1, <2>2 DEF EnablingAt
  <2>3. CASE n < 12
    <3>1. L!enablePhyOps \in Seq(MainOp) /\ n < Len(L!enablePhyOps) /\ n \in 0 .. Len(L!enablePhyOps)
      <4>1. L!enablePhyOps \in Seq(MainOp) /\ Len(L!enablePhyOps) = 22
            BY EnableOps, ListsAreOps
      <4>2. n < 22 /\ n \in 0 .. 22
            BY <2>1
      <4> QED BY <4>1, <4>2
    <3>2. main = Rest(L!enablePhyOps, n)
      <4>1. p = <<>>
        <5>1. n # 18
              BY <2>3
        <5> QED BY <2>1, <5>1
      <4>2. Rest(L!enablePhyOps, n) \in Seq(MainOp)
            BY <3>1, RestOfSeq
      <4> QED BY <2>1, <4>1, <4>2, ConcatEmptySeq
    <3>3. Head(main) = L!enablePhyOps[n + 1]
      <4>1. n \in Nat /\ n < Len(L!enablePhyOps) /\ L!enablePhyOps \in Seq(MainOp)
            BY <2>1, <3>1
      <4> QED BY <3>2, <4>1, MainAt
    <3>4. Len(Head(main)) = 3 \/ Head(main) = L!Do("save")
      <4>1. Len(L!enablePhyOps[1]) = 3 /\ Len(L!enablePhyOps[3]) = 3 /\ Len(L!enablePhyOps[5]) = 3
        <5>1. /\ L!enablePhyOps[1] = L!AckAll("LNK_INTR")
              /\ L!enablePhyOps[3] = L!AckAll("PROT_INTR")
              /\ L!enablePhyOps[5] = L!AckAll("DEV_INTR")
              BY EnableOps
        <5>2. ASSUME NEW r PROVE Len(L!AckAll(r)) = 3
              BY LenOfAccess
        <5> QED BY <5>1, <5>2
      <4>2. Len(L!enablePhyOps[2]) = 3 /\ Len(L!enablePhyOps[4]) = 3 /\ Len(L!enablePhyOps[6]) = 3
            BY EnableOps, LenOfAccess, SMTT(40)
      <4>3. /\ Len(L!enablePhyOps[7]) = 3 /\ Len(L!enablePhyOps[8]) = 3 /\ Len(L!enablePhyOps[9]) = 3
            /\ Len(L!enablePhyOps[10]) = 3 /\ Len(L!enablePhyOps[12]) = 3
            BY EnableOps, LenOfAccess, SMTT(40)
      <4>4. L!enablePhyOps[11] = L!Do("save")
            BY EnableOps
      <4>5. CASE n < 6
        <5>1. n + 1 = 1 \/ n + 1 = 2 \/ n + 1 = 3 \/ n + 1 = 4 \/ n + 1 = 5 \/ n + 1 = 6
              BY <4>5
        <5> QED BY <3>3, <4>1, <4>2, <5>1
      <4>6. CASE ~(n < 6)
        <5>1. n + 1 = 7 \/ n + 1 = 8 \/ n + 1 = 9 \/ n + 1 = 10 \/ n + 1 = 11 \/ n + 1 = 12
              BY <2>3, <4>6
        <5> QED BY <3>3, <4>3, <4>4, <5>1
      <4> QED BY <4>5, <4>6
    <3>5. Len(L!Do("phy")) # 3 /\ L!Do("phy") # L!Do("save")
      <4>1. "phy" # "save"
            OBVIOUS
      <4> QED BY <4>1, NamesDiffer, SMTT(40)
    <3> QED BY <3>4, <3>5
  <2> QED BY <2>1, <2>2, <2>3
<1>3. CASE Running
      BY <1>3 DEF Running, L!MainStep
<1> QED BY <1>1, <1>2, <1>3 DEF ModeInv

\* Fx3UsbWritePhyReg begins, or does nothing.
LEMMA PhyBegins ==
    ASSUME NEW S, PhyStep \subseteq S, NEW q \in Seq(S)
    PROVE  L!WritePhyReg \o q = q \/ L!WritePhyReg \o q = Rest(L!phyOps, 0) \o q
<1>1. <<>> \o q = q /\ L!phyOps = Rest(L!phyOps, 0)
      BY ConcatEmptySeq, PhyOpsAreSteps, WholeIsRest
<1> QED BY <1>1 DEF L!WritePhyReg

LEMMA RestKept ==
    ASSUME PhyAt(0), reg'["PHY_REQ"] = reg["PHY_REQ"], UNCHANGED <<ack, expected>>
    PROVE  PhyAt(0)' /\ Ordered
BY DEF PhyAt, Rested, Ordered

LEMMA PhyRestsMain ==
    ASSUME TypeInv, ModeInv, PhyRests, L!MainStep
    PROVE  PhyInv' /\ Ordered
<1>1. /\ main # <<>> /\ isr = <<>> /\ UNCHANGED <<isr, ack, expected>>
      BY DEF L!MainStep
<1>2. /\ Head(main) \in MainQuiet /\ Tail(main) \in Seq(MainQuiet)
      /\ Head(main) \in AnyOp /\ Typed
  <2>1. MainQuiet \subseteq AnyOp
        BY OpsAreOps DEF AnyOp
  <2> QED BY <1>1, <2>1, HeadOfSeq DEF PhyRests, TypeInv
<1>3. ASSUME main' \in Seq(MainQuiet), reg'["PHY_REQ"] = reg["PHY_REQ"]
      PROVE  PhyInv' /\ Ordered
      BY <1>1, <1>3, RestKept DEF PhyRests, PhyInv
<1>4. CASE L!Step(main, main')
  <2>1. CASE /\ \E r \in Regs : Head(main) \in AccessTo(r)
             /\ L!Access(Head(main)) /\ main' = Tail(main)
    <3>1. Len(Head(main)) = 3
          BY <2>1, AccessesAreTriples
    <3>2. reg'["PHY_REQ"] = reg["PHY_REQ"]
          BY <1>2, <2>1, <3>1, QuietAccess
    <3> QED BY <1>2, <1>3, <2>1, <3>2
  <2>2. CASE /\ Head(main) = L!Do("phy") /\ reg' = reg
             /\ main' = L!WritePhyReg \o Tail(main)
    <3>1. reg'["VIC"] = {}
          BY <2>2, PhyUnmasked
    <3>2. CASE main' = Tail(main)
          BY <1>2, <1>3, <2>2, <3>2
    <3>3. CASE main' = Rest(L!phyOps, 0) \o Tail(main)
      <4>1. PhyAt(0)' /\ Ordered
            BY <1>1, <2>2, RestKept DEF PhyRests
      <4>2. 0 \in Nat /\ 0 < 12
            OBVIOUS
      <4>3. PhyOfMain'
            BY <1>1, <1>2, <3>1, <3>3, <4>1, <4>2 DEF PhyOfMain
      <4> QED BY <4>1, <4>3 DEF PhyInv
    <3>4. main' = Tail(main) \/ main' = Rest(L!phyOps, 0) \o Tail(main)
      <4>1. PhyStep \subseteq MainOp /\ Tail(main) \in Seq(MainOp)
            BY <1>2, OpsAreOps, SeqMonotonic
      <4> QED BY <2>2, <4>1, PhyBegins
    <3> QED BY <3>2, <3>3, <3>4
  <2>3. CASE reg' = reg /\ main' = Tail(main)
        BY <1>2, <1>3, <2>3
  <2> QED BY <1>2, <1>4, <2>1, <2>2, <2>3, StepCases
<1>5. CASE main' = (IF vbus THEN L!enablePhyOps ELSE <<>>) /\ UNCHANGED reg
  <2>1. main' \in {L!enablePhyOps, <<>>}
        BY <1>5
  <2>2. main' \in Seq(MainQuiet)
        BY <2>1, ListsAreQuiet, EmptySeq
  <2> QED BY <1>3, <1>5, <2>2
<1>6. CASE UNCHANGED reg /\ main' = Tail(main)
      BY <1>2, <1>3, <1>6
<1>7. CASE L!Access(L!Set("VIC", saved)) /\ main' = Tail(main)
  <2>1. "VIC" \in Regs
        BY DEF Regs
  <2>2. \A r2 \in Regs \ {"VIC"} : reg'[r2] = reg[r2]
        BY <1>2, <1>7, <2>1, SetEffect
  <2>3. reg'["PHY_REQ"] = reg["PHY_REQ"]
        BY <2>2 DEF Regs
  <2> QED BY <1>2, <1>3, <1>7, <2>3
<1> QED BY <1>4, <1>5, <1>6, <1>7 DEF L!MainStep

LEMMA PhyRestsIsr ==
    ASSUME TypeInv, PhyRests, L!IsrStep
    PROVE  PhyInv' /\ Ordered
<1>1. isr # <<>> /\ UNCHANGED <<main, ack, expected>>
      BY DEF L!IsrStep
<1>2. /\ Head(isr) \in IsrQuiet /\ Tail(isr) \in Seq(IsrQuiet)
      /\ Head(isr) \in AnyOp /\ Typed
  <2>1. IsrQuiet \subseteq AnyOp
        BY OpsAreOps DEF AnyOp
  <2> QED BY <1>1, <2>1, HeadOfSeq DEF PhyRests, TypeInv
<1>3. ASSUME isr' \in Seq(IsrQuiet), reg'["PHY_REQ"] = reg["PHY_REQ"]
      PROVE  PhyInv' /\ Ordered
      BY <1>1, <1>3, RestKept DEF PhyRests, PhyInv
<1>4. CASE L!Step(isr, isr')
  <2>1. CASE /\ \E r \in Regs : Head(isr) \in AccessTo(r)
             /\ L!Access(Head(isr)) /\ isr' = Tail(isr)
    <3>1. Len(Head(isr)) = 3
          BY <2>1, AccessesAreTriples
    <3>2. reg'["PHY_REQ"] = reg["PHY_REQ"]
          BY <1>2, <2>1, <3>1, QuietAccess
    <3> QED BY <1>2, <1>3, <2>1, <3>2
  <2>2. CASE reg' = reg /\ isr' = L!WritePhyReg \o Tail(isr)
    <3>1. CASE isr' = Tail(isr)
          BY <1>2, <1>3, <2>2, <3>1
    <3>2. CASE isr' = Rest(L!phyOps, 0) \o Tail(isr)
      <4>1. PhyAt(0)' /\ Ordered
            BY <1>1, <2>2, RestKept DEF PhyRests
      <4>2. 0 \in Nat /\ 0 < 12 /\ main' \in Seq(MainQuiet)
            BY <1>1 DEF PhyRests
      <4>3. PhyOfIsr'
            BY <1>2, <3>2, <4>1, <4>2 DEF PhyOfIsr
      <4> QED BY <4>1, <4>3 DEF PhyInv
    <3>3. isr' = Tail(isr) \/ isr' = Rest(L!phyOps, 0) \o Tail(isr)
      <4>1. PhyStep \subseteq IsrOp /\ Tail(isr) \in Seq(IsrOp)
            BY <1>2, OpsAreOps, SeqMonotonic
      <4> QED BY <2>2, <4>1, PhyBegins
    <3> QED BY <3>1, <3>2, <3>3
  <2>3. CASE reg' = reg /\ isr' = Tail(isr)
        BY <1>2, <1>3, <2>3
  <2> QED BY <1>2, <1>4, <2>1, <2>2, <2>3, StepCases
<1>5. ASSUME NEW r \in {"PROT_INTR", "LNK_INTR"}, NEW bits, L!Access(L!Clear(r, bits)),
             NEW a \in Seq(IsrQuiet), NEW b \in Seq(IsrQuiet), isr' = a \o b \o Tail(isr)
      PROVE  PhyInv' /\ Ordered
  <2>1. r \in Regs
        BY DEF Regs
  <2>2. \A r2 \in Regs \ {r} : reg'[r2] = reg[r2]
        BY <1>2, <1>5, <2>1, ClearEffect
  <2>3. reg'["PHY_REQ"] = reg["PHY_REQ"]
        BY <2>2 DEF Regs
  <2>4. isr' \in Seq(IsrQuiet)
    <3>1. a \o b \in Seq(IsrQuiet)
          BY ConcatProperties
    <3> QED BY <1>2, <1>5, <3>1, ConcatProperties
  <2> QED BY <1>3, <2>3, <2>4
<1>6. CASE L!ProtPart
  <2> DEFINE a == L!OnlyIf(<<"LMP", "PORT_CFG">> \in L!ProtRequest, L!portOps("PORT_CFG"))
             b == L!OnlyIf(<<"LMP", "PORT_CAP">> \in L!ProtRequest, L!portOps("PORT_CAP"))
  <2>1. a \in Seq(IsrQuiet) /\ b \in Seq(IsrQuiet)
    <3>1. ASSUME NEW k \in L!Lmp PROVE L!portOps(k) \in Seq(IsrQuiet)
      <4>1. L!Clear("LMP_TIMER", {k}) \in IsrQuiet
            BY DEF IsrQuiet, StopTimer
      <4>2. {<<"TIMEOUT", k>>} \in SUBSET L!ProtEvent
            BY DEF L!ProtEvent
      <4>3. L!Clear("PROT_INTR", {<<"TIMEOUT", k>>}) \in IsrQuiet
            BY <4>2 DEF IsrQuiet, Quiet, ClearEvents
      <4> QED BY <4>1, <4>3 DEF L!portOps
    <3>2. "PORT_CFG" \in L!Lmp /\ "PORT_CAP" \in L!Lmp
          BY DEF L!Lmp
    <3> QED BY <3>1, <3>2, OnlyIfInSeq
  <2>2. isr' = a \o b \o Tail(isr) /\ L!Access(L!Clear("PROT_INTR", L!ProtRequest))
        BY <1>6 DEF L!ProtPart
  <2> HIDE DEF a, b
  <2> QED BY <1>5, <2>1, <2>2
<1>7. CASE L!LnkPart
  <2> DEFINE a == L!OnlyIf("DISCONNECT" \in L!LnkRequest, L!connectHighSpeedOps)
             b == L!OnlyIf("CONNECT" \in L!LnkRequest, L!connectSuperSpeedOps)
  <2>1. a \in Seq(IsrQuiet) /\ b \in Seq(IsrQuiet)
    <3>1. Seq(Quiet) \subseteq Seq(IsrQuiet)
          BY OpsAreOps, SeqMonotonic
    <3>2. /\ L!connectHighSpeedOps \in Seq(IsrQuiet)
          /\ L!connectSuperSpeedOps \in Seq(IsrQuiet)
          BY <3>1, ListsAreQuiet
    <3> QED BY <3>2, OnlyIfInSeq
  <2>2. isr' = a \o b \o Tail(isr) /\ L!Access(L!Clear("LNK_INTR", L!LnkRequest))
        BY <1>7 DEF L!LnkPart
  <2> HIDE DEF a, b
  <2> QED BY <1>5, <2>1, <2>2
<1> QED BY <1>4, <1>6, <1>7 DEF L!IsrStep

\* A step of main, or of the handler, at a place of the list of strobes.
LEMMA PhyStepFound ==
    ASSUME NEW S, PhyStep \subseteq S, NEW n \in Nat, n < 12, NEW q \in Seq(S), NEW todo,
           todo = Rest(L!phyOps, n) \o q
    PROVE  /\ todo # <<>> /\ Head(todo) = L!phyOps[n + 1]
           /\ Tail(todo) = Rest(L!phyOps, n + 1) \o q
           /\ Head(todo) \in PhyStep
<1>1. L!phyOps \in Seq(PhyStep) /\ Len(L!phyOps) = 12
      BY PhyList
<1>2. L!phyOps \in Seq(S)
      BY <1>1, SeqMonotonic
<1>3. n < Len(L!phyOps)
      BY <1>1
<1>4. /\ todo # <<>> /\ Head(todo) = L!phyOps[n + 1]
      /\ Tail(todo) = Rest(L!phyOps, n + 1) \o q
      BY <1>2, <1>3, TakeOne, ZenonT(60)
<1>5. n + 1 \in 1 .. Len(L!phyOps)
      BY <1>1
<1>6. L!phyOps[n + 1] \in PhyStep
      BY <1>1, <1>5, ElementOfSeq
<1> QED BY <1>4, <1>6

\* None of main's own operations, nor of the handler's, is a strobe.
LEMMA StrobesAreSteps ==
    ASSUME NEW op \in PhyStep
    PROVE  \A name : name \in {"ifVbus", "save", "restore", "PROT", "LNK"} => op # L!Do(name)
<1>1. CASE op \in AccessTo("PHY_REQ")
  <2>1. Len(op) = 3
    <3>1. "PHY_REQ" \in Regs
          BY DEF Regs
    <3> QED BY <1>1, <3>1, AccessesAreTriples
  <2> QED BY <2>1, NamesDiffer
<1>2. CASE op = L!Do("acknowledged") \/ op = L!Do("released")
  <2>1. PICK name2 \in {"acknowledged", "released"} : op = L!Do(name2)
        BY <1>2
  <2>2. ASSUME NEW name \in {"ifVbus", "save", "restore", "PROT", "LNK"} PROVE name # name2
        OBVIOUS
  <2> QED BY <2>1, <2>2, NamesDiffer
<1> QED BY <1>1, <1>2 DEF PhyStep

LEMMA PhyEnds ==
    ASSUME NEW n \in Nat, n < 12, PhyAt(n + 1)', NEW T, NEW q \in Seq(T)
    PROVE  \/ n + 1 < 12
           \/ Rest(L!phyOps, n + 1) \o q = q /\ PhyAt(0)'
<1>1. CASE n + 1 < 12
      BY <1>1
<1>2. CASE n + 1 = 12
  <2>1. L!phyOps \in Seq(PhyStep) /\ Len(L!phyOps) = 12
        BY PhyList
  <2>2. Rest(L!phyOps, Len(L!phyOps)) \o q = q
        BY <2>1, NothingLeft
  <2>3. Rest(L!phyOps, n + 1) \o q = q
        BY <1>2, <2>1, <2>2
  <2>4. PhyAt(12)'
        BY <1>2
  <2>5. PhyAt(0)'
        BY <2>4 DEF PhyAt
  <2> QED BY <2>3, <2>5
<1>3. n + 1 < 12 \/ n + 1 = 12
      OBVIOUS
<1> QED BY <1>1, <1>2, <1>3

LEMMA PhyOfMainStep ==
    ASSUME TypeInv, PhyOfMain, L!MainStep
    PROVE  PhyInv' /\ Ordered
<1>1. PICK n \in Nat, q \in Seq(MainQuiet) :
          n < 12 /\ main = Rest(L!phyOps, n) \o q /\ PhyAt(n)
      BY DEF PhyOfMain
<1>2. PhyStep \subseteq MainOp /\ q \in Seq(MainOp)
      BY OpsAreOps, SeqMonotonic
<1>3. /\ Head(main) = L!phyOps[n + 1] /\ Tail(main) = Rest(L!phyOps, n + 1) \o q
      /\ Head(main) \in PhyStep
      BY <1>1, <1>2, PhyStepFound
<1>4. /\ Head(main) # L!Do("ifVbus") /\ Head(main) # L!Do("save")
      /\ Head(main) # L!Do("restore")
      BY <1>3, StrobesAreSteps
<1>5. L!Step(main, main') /\ UNCHANGED <<isr, ack, expected>>
      BY <1>4 DEF L!MainStep
<1>6. /\ main' = Tail(main) /\ PhyAt(n + 1)' /\ Ordered
      /\ \A r \in Regs \ {"PHY_REQ"} : reg'[r] = reg[r]
      BY <1>1, <1>3, <1>5, StrobeStep
<1>7. isr' = <<>> /\ reg'["VIC"] = {}
  <2>1. reg'["VIC"] = reg["VIC"]
        BY <1>6 DEF Regs
  <2> QED BY <1>5, <2>1 DEF PhyOfMain
<1>8. main' = Rest(L!phyOps, n + 1) \o q
      BY <1>3, <1>6
<1>9. CASE n + 1 < 12
  <2>1. n + 1 \in Nat
        OBVIOUS
  <2>2. PhyOfMain'
        BY <1>6, <1>7, <1>8, <1>9, <2>1 DEF PhyOfMain
  <2> QED BY <1>6, <2>2 DEF PhyInv
<1>10. CASE Rest(L!phyOps, n + 1) \o q = q /\ PhyAt(0)'
  <2>1. main' \in Seq(MainQuiet) /\ isr' \in Seq(IsrQuiet)
        BY <1>7, <1>8, <1>10, EmptySeq
  <2>2. PhyRests'
        BY <1>10, <2>1 DEF PhyRests
  <2> QED BY <1>6, <2>2 DEF PhyInv
<1> QED BY <1>1, <1>6, <1>9, <1>10, PhyEnds

LEMMA PhyOfIsrStep ==
    ASSUME TypeInv, PhyOfIsr, L!IsrStep
    PROVE  PhyInv' /\ Ordered
<1>1. PICK n \in Nat, q \in Seq(IsrQuiet) :
          n < 12 /\ isr = Rest(L!phyOps, n) \o q /\ PhyAt(n)
      BY DEF PhyOfIsr
<1>2. PhyStep \subseteq IsrOp /\ q \in Seq(IsrOp)
      BY OpsAreOps, SeqMonotonic
<1>3. /\ Head(isr) = L!phyOps[n + 1] /\ Tail(isr) = Rest(L!phyOps, n + 1) \o q
      /\ Head(isr) \in PhyStep
      BY <1>1, <1>2, PhyStepFound
<1>4. Head(isr) # L!Do("PROT") /\ Head(isr) # L!Do("LNK")
      BY <1>3, StrobesAreSteps
<1>5. L!Step(isr, isr') /\ UNCHANGED <<main, ack, expected>>
      BY <1>4 DEF L!IsrStep, L!ProtPart, L!LnkPart
<1>6. isr' = Tail(isr) /\ PhyAt(n + 1)' /\ Ordered
      BY <1>1, <1>3, <1>5, StrobeStep
<1>7. main' \in Seq(MainQuiet)
      BY <1>5 DEF PhyOfIsr
<1>8. isr' = Rest(L!phyOps, n + 1) \o q
      BY <1>3, <1>6
<1>9. CASE n + 1 < 12
  <2>1. n + 1 \in Nat
        OBVIOUS
  <2>2. PhyOfIsr'
        BY <1>6, <1>7, <1>8, <1>9, <2>1 DEF PhyOfIsr
  <2> QED BY <1>6, <2>2 DEF PhyInv
<1>10. CASE Rest(L!phyOps, n + 1) \o q = q /\ PhyAt(0)'
  <2>1. isr' \in Seq(IsrQuiet)
        BY <1>8, <1>10
  <2>2. PhyRests'
        BY <1>7, <1>10, <2>1 DEF PhyRests
  <2> QED BY <1>6, <2>2 DEF PhyInv
<1> QED BY <1>1, <1>6, <1>9, <1>10, PhyEnds

LEMMA PhyInterrupts ==
    ASSUME PhyInv, L!UsbCoreIsr \/ L!GctlPowerIsr
    PROVE  PhyInv' /\ Ordered
<1>1. isr = <<>> /\ reg["VIC"] # {} /\ UNCHANGED <<reg, main, ack, expected>>
      BY DEF L!UsbCoreIsr, L!GctlPowerIsr
<1>2. ~PhyOfMain
      BY <1>1 DEF PhyOfMain
<1>3. ~PhyOfIsr
  <2>1. ASSUME PhyOfIsr PROVE FALSE
    <3>1. PICK n \in Nat, q \in Seq(IsrQuiet) : n < 12 /\ isr = Rest(L!phyOps, n) \o q
          BY <2>1 DEF PhyOfIsr
    <3>2. PhyStep \subseteq IsrOp /\ q \in Seq(IsrOp)
          BY OpsAreOps, SeqMonotonic
    <3> QED BY <1>1, <3>1, <3>2, PhyStepFound
  <2> QED BY <2>1
<1>4. PhyRests
      BY <1>2, <1>3 DEF PhyInv
<1>5. isr' \in Seq(Quiet)
  <2>1. CASE L!UsbCoreIsr
    <3> DEFINE a == L!OnlyIf("PROT" \in L!UibRequest, << L!Do("PROT") >>)
               b == L!OnlyIf("LNK" \in L!UibRequest, << L!Do("LNK") >>)
               c == L!OnlyIf("DEV_CTL" \in L!UibRequest, << L!AckAll("DEV_INTR") >>)
    <3>1. a \in Seq(Quiet) /\ b \in Seq(Quiet) /\ c \in Seq(Quiet)
          BY PartLists DEF L!OnlyIf
    <3>2. isr' = a \o b \o c
          BY <2>1 DEF L!UsbCoreIsr
    <3> HIDE DEF a, b, c
    <3> QED BY <3>1, <3>2
  <2>2. CASE L!GctlPowerIsr
        BY <2>2, ListsAreQuiet DEF L!GctlPowerIsr
  <2> QED BY <2>1, <2>2
<1>6. isr' \in Seq(IsrQuiet)
      BY <1>5, OpsAreOps, SeqMonotonic
<1>7. PhyAt(0)' /\ Ordered
      BY <1>1, <1>4, RestKept DEF PhyRests
<1>8. PhyRests'
      BY <1>1, <1>4, <1>6, <1>7 DEF PhyRests
<1> QED BY <1>7, <1>8 DEF PhyInv

\* What leaves the lists and the interrupts as they are and keeps the place.
LEMMA PhyKept ==
    ASSUME PhyInv, main' = main, isr' = isr, reg'["VIC"] = reg["VIC"],
           \A n \in Nat : n < 12 /\ PhyAt(n) => PhyAt(n)'
    PROVE  PhyInv'
<1>1. CASE PhyRests
  <2>1. 0 \in Nat /\ 0 < 12
        OBVIOUS
  <2>2. PhyAt(0)'
        BY <1>1, <2>1 DEF PhyRests
  <2>3. PhyRests'
        BY <1>1, <2>2 DEF PhyRests
  <2> QED BY <2>3 DEF PhyInv
<1>2. CASE PhyOfMain
  <2>1. PICK n \in Nat, q \in Seq(MainQuiet) :
            n < 12 /\ main = Rest(L!phyOps, n) \o q /\ PhyAt(n)
        BY <1>2 DEF PhyOfMain
  <2>2. PhyAt(n)' /\ isr' = <<>> /\ reg'["VIC"] = {}
        BY <1>2, <2>1 DEF PhyOfMain
  <2>3. PhyOfMain'
        BY <2>1, <2>2 DEF PhyOfMain
  <2> QED BY <2>3 DEF PhyInv
<1>3. CASE PhyOfIsr
  <2>1. PICK n \in Nat, q \in Seq(IsrQuiet) :
            n < 12 /\ isr = Rest(L!phyOps, n) \o q /\ PhyAt(n)
        BY <1>3 DEF PhyOfIsr
  <2>2. PhyAt(n)' /\ main' \in Seq(MainQuiet)
        BY <1>3, <2>1 DEF PhyOfIsr
  <2>3. PhyOfIsr'
        BY <2>1, <2>2 DEF PhyOfIsr
  <2> QED BY <2>3 DEF PhyInv
<1> QED BY <1>1, <1>2, <1>3 DEF PhyInv

LEMMA PlaceKept ==
    ASSUME reg'["PHY_REQ"] = reg["PHY_REQ"], UNCHANGED <<ack, expected>>, NEW n \in Nat, PhyAt(n)
    PROVE  PhyAt(n)'
<1>1. ASSUME NEW bit, Rested(bit) PROVE Rested(bit)'
      BY <1>1 DEF Rested
<1>2. ASSUME NEW bit, NEW after, Strobed(bit, after) PROVE Strobed(bit, after)'
      BY <1>2 DEF Strobed
<1>3. ASSUME NEW bit, NEW after, Answered(bit, after) PROVE Answered(bit, after)'
      BY <1>3 DEF Answered
<1>4. ASSUME NEW after, Withdrawn(after) PROVE Withdrawn(after)'
      BY <1>4 DEF Withdrawn
<1> QED BY <1>1, <1>2, <1>3, <1>4 DEF PhyAt

LEMMA PhyEvent ==
    ASSUME TypeInv, PhyInv, Event
    PROVE  PhyInv' /\ Ordered
<1>1. PICK r \in {"LNK_INTR", "PROT_INTR", "DEV_INTR", "IOPOWER"} : EventOn(r)
      BY EventEffect
<1>2. UNCHANGED <<main, isr>> /\ reg'["VIC"] = reg["VIC"] /\ reg'["PHY_REQ"] = reg["PHY_REQ"]
      BY <1>1 DEF EventOn, Regs
<1>3. ASSUME NEW n \in Nat, n < 12, PhyAt(n) PROVE PhyAt(n)'
  <2>1. CASE L!PhyFollows
        BY <1>3, <2>1, PhyAnswers
  <2>2. CASE ~L!PhyFollows
    <3>1. UNCHANGED <<ack, expected>>
          BY <2>2 DEF Event, L!LinkEvent, L!PortEvent, L!DeviceEvent, L!VbusChanges, L!Latch
    <3> QED BY <1>2, <1>3, <3>1, PlaceKept
  <2> QED BY <2>1, <2>2
<1>4. PhyInv'
      BY <1>2, <1>3, PhyKept
<1>5. Ordered
      BY <1>2 DEF Ordered
<1> QED BY <1>4, <1>5

LEMMA PhyStutters ==
    ASSUME PhyInv, UNCHANGED linkVars
    PROVE  PhyInv' /\ Ordered
<1>1. UNCHANGED <<reg, main, isr, ack, expected>>
      BY DEF linkVars
<1>2. ASSUME NEW n \in Nat, n < 12, PhyAt(n) PROVE PhyAt(n)'
      BY <1>1, <1>2, PlaceKept
<1>3. PhyInv'
      BY <1>1, <1>2, PhyKept
<1> QED BY <1>1, <1>3 DEF Ordered

LEMMA PhySteps ==
    ASSUME TypeInv, ModeInv, PhyInv, [MCNext]_allVars
    PROVE  PhyInv' /\ Ordered
<1>1. CASE L!MainStep
  <2>1. ~PhyOfIsr
    <3>1. ASSUME PhyOfIsr PROVE FALSE
      <4>1. PICK n \in Nat, q \in Seq(IsrQuiet) : n < 12 /\ isr = Rest(L!phyOps, n) \o q
            BY <3>1 DEF PhyOfIsr
      <4>2. PhyStep \subseteq IsrOp /\ q \in Seq(IsrOp)
            BY OpsAreOps, SeqMonotonic
      <4>3. isr = <<>>
            BY <1>1 DEF L!MainStep
      <4> QED BY <4>1, <4>2, <4>3, PhyStepFound
    <3> QED BY <3>1
  <2> QED BY <1>1, <2>1, PhyRestsMain, PhyOfMainStep DEF PhyInv
<1>2. CASE L!IsrStep
  <2>1. ~PhyOfMain
        BY <1>2 DEF PhyOfMain, L!IsrStep
  <2> QED BY <1>2, <2>1, PhyRestsIsr, PhyOfIsrStep DEF PhyInv
<1>3. CASE L!UsbCoreIsr \/ L!GctlPowerIsr
      BY <1>3, PhyInterrupts
<1>4. CASE Event
      BY <1>4, PhyEvent
<1>5. CASE UNCHANGED linkVars
      BY <1>5, PhyStutters
<1>6. L!MainLoop => UNCHANGED linkVars
      BY DEF L!MainLoop, L!vars, linkVars
<1>7. L!Next \/ UNCHANGED linkVars
      BY DEF MCNext, allVars
<1>8. L!Next => L!MainStep \/ L!MainLoop \/ L!UsbCoreIsr \/ L!GctlPowerIsr \/ L!IsrStep \/ Event
      BY DEF L!Next, Event
<1> QED BY <1>1, <1>2, <1>3, <1>4, <1>5, <1>6, <1>7, <1>8

LEMMA PhyStarts ==
    ASSUME L!Init
    PROVE  PhyInv
<1>1. main = bootOps /\ isr = <<>> /\ ~ack /\ expected = "address"
      BY DEF L!Init, bootOps
<1>2. reg["PHY_REQ"] = {}
      BY RegsOfBits DEF L!Init, Regs
<1>3. PhyAt(0)
      BY <1>1, <1>2 DEF PhyAt, Rested
<1>4. main \in Seq(MainQuiet) /\ isr \in Seq(IsrQuiet)
      BY <1>1, ListsAreQuiet, OpsAreOps, SeqMonotonic, EmptySeq
<1> QED BY <1>3, <1>4 DEF PhyInv, PhyRests

(***************************************************************************)
(* Between two accesses to the PHY its handshake is at rest, and only one   *)
(* of main and the handler is in an access (usb.c:38-62, 242-244, 277).     *)
(***************************************************************************)
THEOREM PhyFollowed ==
    MCSpec => [](TypeInv /\ ModeInv /\ PhyInv)
<1>1. MCInit => PhyInv
      BY PhyStarts DEF MCInit
<1>2. TypeInv /\ ModeInv /\ PhyInv /\ [MCNext]_allVars => PhyInv'
      BY PhySteps
<1> QED BY <1>1, <1>2, ModesFollowed, PTL DEF MCSpec, allVars

(***************************************************************************)
(* The strobes of main and of the handler do not cut into each other, for   *)
(* any number of events (usb.c:38-62, 242-244, 277).                        *)
(***************************************************************************)
THEOREM StrobesInOrder ==
    MCSpec => PhyInOrder
<1> DEFINE Turns == reg'.PHY_REQ \notin {{}, reg.PHY_REQ} => ~ack /\ reg'.PHY_REQ = {expected}
<1>1. TypeInv /\ ModeInv /\ PhyInv /\ [MCNext]_allVars => [Turns]_linkVars
      BY PhySteps DEF Ordered
<1>2. [][Turns]_linkVars => PhyInOrder
      BY DEF PhyInOrder, L!PhyInOrder, L!vars, linkVars
<1> HIDE DEF Turns
<1>3. MCSpec => [][Turns]_linkVars
      BY <1>1, PhyFollowed, PTL DEF MCSpec, allVars
<1> QED BY <1>2, <1>3, PTL

-----------------------------------------------------------------------------
(***************************************************************************)
(* The bytes of the descriptors.                                            *)
(***************************************************************************)
Byte == 0 .. 255

LEMMA ByteIs ==
    ASSUME NEW n \in Nat, n <= 255
    PROVE  n \in Byte
BY DEF Byte

LEMMA JoinOfSeq ==
    ASSUME NEW S, NEW a \in Seq(S), NEW b \in Seq(S)
    PROVE  /\ a \o b \in Seq(S) /\ Len(a \o b) = Len(a) + Len(b)
           /\ \A i \in 1 .. Len(a) : (a \o b)[i] = a[i]
<1>1. /\ a \o b \in Seq(S) /\ Len(a \o b) = Len(a) + Len(b)
      /\ \A i \in 1 .. Len(a) + Len(b) : (a \o b)[i] = IF i <= Len(a) THEN a[i] ELSE b[i - Len(a)]
      BY ConcatProperties
<1>2. Len(a) \in Nat /\ Len(b) \in Nat
      OBVIOUS
<1> QED BY <1>1, <1>2

LEMMA WordBack ==
    ASSUME NEW v \in Nat, v < 2^16
    PROVE  /\ Word(v) \in Seq(Byte) /\ Len(Word(v)) = 2
           /\ Word(v)[1] + 256 * Word(v)[2] = v
<1>1. v \in Nat /\ v <= 65535
      OBVIOUS
<1>2. (v % 256) + 256 * (v \div 256) = v /\ 0 <= v % 256 /\ v % 256 <= 255
      BY <1>1
<1>3. v \div 256 <= 255 /\ v \div 256 >= 0
      BY <1>1
<1>4. v % 256 \in Byte /\ v \div 256 \in Byte
      BY <1>1, <1>2, <1>3 DEF Byte
<1> QED BY <1>2, <1>4 DEF Word

LEMMA PartOf ==
    ASSUME NEW type \in Byte, NEW fields \in Seq(Byte), Len(fields) <= 253
    PROVE  /\ Part(type, fields) \in Seq(Byte) /\ Len(Part(type, fields)) = Len(fields) + 2
           /\ Part(type, fields)[1] = Len(fields) + 2 /\ Part(type, fields)[2] = type
           /\ \A i \in 1 .. Len(fields) : Part(type, fields)[i + 2] = fields[i]
<1> DEFINE head == <<Len(fields) + 2, type>>
<1>1. Len(fields) + 2 \in Byte
  <2>1. Len(fields) \in Nat
        OBVIOUS
  <2>2. Len(fields) + 2 \in Nat /\ Len(fields) + 2 <= 255
        BY <2>1
  <2> QED BY <2>2, ByteIs
<1>2. head \in Seq(Byte) /\ Len(head) = 2 /\ head[1] = Len(fields) + 2 /\ head[2] = type
      BY <1>1
<1>3. Part(type, fields) = head \o fields /\ Len(fields) \in Nat
      BY DEF Part
<1> HIDE DEF head
<1>4. /\ head \o fields \in Seq(Byte) /\ Len(head \o fields) = 2 + Len(fields)
      /\ \A i \in 1 .. 2 + Len(fields) :
            (head \o fields)[i] = IF i <= 2 THEN head[i] ELSE fields[i - 2]
  <2>1. head \in Seq(Byte) /\ Len(head) = 2
        BY <1>2
  <2>2. /\ head \o fields \in Seq(Byte) /\ Len(head \o fields) = Len(head) + Len(fields)
        /\ \A i \in 1 .. Len(head) + Len(fields) :
              (head \o fields)[i] = IF i <= Len(head) THEN head[i] ELSE fields[i - Len(head)]
        BY <2>1, ConcatProperties, ZenonT(60)
  <2> QED BY <2>1, <2>2
<1>5. (head \o fields)[1] = head[1] /\ (head \o fields)[2] = head[2]
      BY <1>3, <1>4
<1>6. ASSUME NEW i \in 1 .. Len(fields) PROVE (head \o fields)[i + 2] = fields[i]
  <2>1. i + 2 \in 1 .. 2 + Len(fields) /\ ~(i + 2 <= 2) /\ (i + 2) - 2 = i
        BY <1>3
  <2> QED BY <1>4, <2>1
<1>7. Len(head \o fields) = Len(fields) + 2
      BY <1>3, <1>4
<1> QED BY <1>2, <1>3, <1>4, <1>5, <1>6, <1>7

LEMMA WholeOf ==
    ASSUME NEW type \in Byte, NEW fields \in Seq(Byte), NEW parts \in Seq(Byte),
           Len(fields) <= 100, Len(parts) <= 100
    PROVE  /\ Whole(type, fields, parts) \in Seq(Byte)
           /\ Len(Whole(type, fields, parts)) = Len(fields) + 4 + Len(parts)
           /\ WordAt(Whole(type, fields, parts), 3) = Len(fields) + 4 + Len(parts)
           /\ Whole(type, fields, parts)[1] = Len(fields) + 4
           /\ Whole(type, fields, parts)[2] = type
<1> DEFINE total == Len(fields) + 4 + Len(parts)
           w == Word(total)
<1>1. Len(fields) \in Nat /\ Len(parts) \in Nat /\ total \in Nat /\ total < 2^16
  <2>1. Len(fields) \in Nat /\ Len(parts) \in Nat
        OBVIOUS
  <2>2. total \in Nat /\ total < 2^16
        BY <2>1
  <2> QED BY <2>1, <2>2
<1>2. w \in Seq(Byte) /\ Len(w) = 2 /\ w[1] + 256 * w[2] = total
  <2>1. total \in Nat /\ total < 2^16
        BY <1>1
  <2> HIDE DEF total
  <2> QED BY <2>1, WordBack
<1>3. Whole(type, fields, parts) = Part(type, w \o fields) \o parts
      BY DEF Whole
<1> HIDE DEF total, w
<1>4. /\ w \o fields \in Seq(Byte) /\ Len(w \o fields) = 2 + Len(fields)
      /\ (w \o fields)[1] = w[1] /\ (w \o fields)[2] = w[2]
  <2>1. w \in Seq(Byte) /\ Len(w) = 2 /\ 1 \in 1 .. Len(w) /\ 2 \in 1 .. Len(w)
        BY <1>2
  <2>2. /\ w \o fields \in Seq(Byte) /\ Len(w \o fields) = Len(w) + Len(fields)
        /\ \A i \in 1 .. Len(w) : (w \o fields)[i] = w[i]
        BY <2>1, JoinOfSeq
  <2> QED BY <2>1, <2>2
<1> DEFINE p == Part(type, w \o fields)
<1>5. /\ p \in Seq(Byte) /\ Len(p) = Len(fields) + 4 /\ p[1] = Len(fields) + 4 /\ p[2] = type
      /\ \A i \in 1 .. Len(w \o fields) : p[i + 2] = (w \o fields)[i]
  <2>1. w \o fields \in Seq(Byte) /\ Len(w \o fields) <= 253 /\ Len(w \o fields) + 2 = Len(fields) + 4
        BY <1>1, <1>4
  <2>2. /\ p \in Seq(Byte) /\ Len(p) = Len(w \o fields) + 2 /\ p[1] = Len(w \o fields) + 2
        /\ p[2] = type /\ \A i \in 1 .. Len(w \o fields) : p[i + 2] = (w \o fields)[i]
        BY <2>1, PartOf, ZenonT(60)
  <2> QED BY <2>1, <2>2
<1> HIDE DEF p
<1>6. p[3] = w[1] /\ p[4] = w[2]
  <2>1. 1 \in 1 .. Len(w \o fields) /\ 2 \in 1 .. Len(w \o fields)
        BY <1>1, <1>4
  <2>2. p[1 + 2] = (w \o fields)[1] /\ p[2 + 2] = (w \o fields)[2]
        BY <1>5, <2>1
  <2> QED BY <1>4, <2>2
<1>7. /\ p \o parts \in Seq(Byte) /\ Len(p \o parts) = Len(fields) + 4 + Len(parts)
      /\ \A i \in 1 .. Len(p) : (p \o parts)[i] = p[i]
  <2>1. p \in Seq(Byte) /\ Len(p) = Len(fields) + 4
        BY <1>5
  <2>2. /\ p \o parts \in Seq(Byte) /\ Len(p \o parts) = Len(p) + Len(parts)
        /\ \A i \in 1 .. Len(p) : (p \o parts)[i] = p[i]
        BY <2>1, JoinOfSeq
  <2> QED BY <2>1, <2>2
<1>8. 1 \in 1 .. Len(p) /\ 2 \in 1 .. Len(p) /\ 3 \in 1 .. Len(p) /\ 4 \in 1 .. Len(p)
      BY <1>1, <1>5
<1>9. /\ (p \o parts)[1] = p[1] /\ (p \o parts)[2] = p[2]
      /\ (p \o parts)[3] = p[3] /\ (p \o parts)[4] = p[4]
      BY <1>7, <1>8
<1>10. WordAt(p \o parts, 3) = total
  <2>1. WordAt(p \o parts, 3) = (p \o parts)[3] + 256 * (p \o parts)[4]
        BY DEF WordAt
  <2> QED BY <1>2, <1>6, <1>9, <2>1
<1> QED BY <1>3, <1>5, <1>7, <1>9, <1>10 DEF p, total

\* Two sequences of bytes with their lengths, and their concatenation.
Bytes(seq, n) == seq \in Seq(Byte) /\ Len(seq) = n

LEMMA JoinBytes ==
    ASSUME NEW a, NEW b, NEW n \in Nat, NEW m \in Nat, Bytes(a, n), Bytes(b, m)
    PROVE  Bytes(a \o b, n + m)
BY JoinOfSeq DEF Bytes

LEMMA WordBytes ==
    ASSUME NEW v \in Nat, v < 2^16
    PROVE  Bytes(Word(v), 2)
BY WordBack DEF Bytes

LEMMA PartBytes ==
    ASSUME NEW type \in Byte, NEW fields, NEW n \in Nat, n <= 253, Bytes(fields, n)
    PROVE  /\ Bytes(Part(type, fields), n + 2)
           /\ Part(type, fields)[1] = n + 2 /\ Part(type, fields)[2] = type
<1>1. fields \in Seq(Byte) /\ Len(fields) = n
      BY DEF Bytes
<1>2. /\ Part(type, fields) \in Seq(Byte) /\ Len(Part(type, fields)) = n + 2
      /\ Part(type, fields)[1] = n + 2 /\ Part(type, fields)[2] = type
      BY <1>1, PartOf
<1> QED BY <1>2 DEF Bytes

LEMMA WholeBytes ==
    ASSUME NEW type \in Byte, NEW fields, NEW parts, NEW n \in Nat, NEW m \in Nat,
           n <= 100, m <= 100, Bytes(fields, n), Bytes(parts, m)
    PROVE  /\ Bytes(Whole(type, fields, parts), n + 4 + m)
           /\ WordAt(Whole(type, fields, parts), 3) = n + 4 + m
           /\ Whole(type, fields, parts)[1] = n + 4 /\ Whole(type, fields, parts)[2] = type
<1>1. fields \in Seq(Byte) /\ Len(fields) = n /\ parts \in Seq(Byte) /\ Len(parts) = m
      BY DEF Bytes
<1>2. /\ Whole(type, fields, parts) \in Seq(Byte)
      /\ Len(Whole(type, fields, parts)) = n + 4 + m
      /\ WordAt(Whole(type, fields, parts), 3) = n + 4 + m
      /\ Whole(type, fields, parts)[1] = n + 4
      /\ Whole(type, fields, parts)[2] = type
      BY <1>1, WholeOf, ZenonT(60)
<1> QED BY <1>2 DEF Bytes

LEMMA TypesAreBytes ==
    /\ DEVICE \in Byte /\ CONFIGURATION \in Byte /\ STRING_TYPE \in Byte /\ INTERFACE \in Byte
    /\ ENDPOINT \in Byte /\ BOS \in Byte /\ DEV_CAPABILITY \in Byte /\ SS_EP_COMPANION \in Byte
BY DEF DEVICE, CONFIGURATION, STRING_TYPE, INTERFACE, ENDPOINT, BOS, DEV_CAPABILITY,
       SS_EP_COMPANION, Byte

LEMMA DeviceBytes ==
    ASSUME NEW s
    PROVE  /\ Bytes(device_descriptor(s), 18)
           /\ device_descriptor(s)[1] = 18 /\ device_descriptor(s)[2] = 1
<1> DEFINE a == Word(IF s = "SS" THEN \h0300 ELSE \h0200)
           b == <<255, 255, 255, IF s = "SS" THEN 9 ELSE 64>>
           c == Word(\h04B4)
           d == Word(\h00F3)
           e == Word(1)
           f == <<1, 2, 3, 1>>
           all == a \o b \o c \o d \o e \o f
<1>1. Bytes(a, 2)
  <2>1. CASE s = "SS"
    <3>1. a = Word(768) /\ 768 \in Nat /\ 768 < 2^16
          BY <2>1
    <3> QED BY <3>1, WordBytes
  <2>2. CASE s # "SS"
    <3>1. a = Word(512) /\ 512 \in Nat /\ 512 < 2^16
          BY <2>2
    <3> QED BY <3>1, WordBytes
  <2> QED BY <2>1, <2>2
<1>2. Bytes(b, 4) /\ Bytes(f, 4)
      BY DEF Bytes, Byte
<1>3. Bytes(c, 2) /\ Bytes(d, 2) /\ Bytes(e, 2)
      BY WordBytes
<1>4. device_descriptor(s) = Part(DEVICE, all)
      BY DEF device_descriptor
<1> HIDE DEF a, b, c, d, e, f
<1>5. Bytes(a \o b, 6)
      BY <1>1, <1>2, JoinBytes
<1>6. Bytes(a \o b \o c, 8)
      BY <1>3, <1>5, JoinBytes
<1>7. Bytes(a \o b \o c \o d, 10)
      BY <1>3, <1>6, JoinBytes
<1>8. Bytes(a \o b \o c \o d \o e, 12)
      BY <1>3, <1>7, JoinBytes
<1>9. Bytes(all, 16)
      BY <1>2, <1>8, JoinBytes
<1> HIDE DEF all
<1>10. /\ Bytes(Part(DEVICE, all), 16 + 2)
       /\ Part(DEVICE, all)[1] = 16 + 2 /\ Part(DEVICE, all)[2] = DEVICE
  <2>1. 16 \in Nat /\ 16 <= 253 /\ DEVICE \in Byte
        BY TypesAreBytes
  <2> QED BY <1>9, <2>1, PartBytes
<1> QED BY <1>4, <1>10 DEF DEVICE

\* The descriptor of the configuration and its three parts.
LEMMA ConfigurationPieces ==
    ASSUME NEW s
    PROVE  \E f, i, p, x :
              /\ configuration_descriptor(s) = Whole(CONFIGURATION, f, (i \o p) \o x)
              /\ Bytes(f, 5)
              /\ Bytes(i, 9) /\ i[1] = 9 /\ i[2] = INTERFACE
              /\ Bytes(p, 7) /\ p[1] = 7 /\ p[2] = ENDPOINT
              /\ Bytes(x, 6) /\ x[1] = 6 /\ x[2] = SS_EP_COMPANION
<1> DEFINE a == <<0, 0, 1, 255, 255, 255, 0>>
           b == <<\h82, 2>>
           c == Word(IF s = "SS" THEN 1024 ELSE 512)
           d == <<0>>
           e == <<0, 0>> \o Word(0)
           i == Part(INTERFACE, a)
           p == Part(ENDPOINT, b \o c \o d)
           x == Part(SS_EP_COMPANION, e)
           f == <<1, 1, 0, \h80, 50>>
<1>1. Bytes(a, 7) /\ Bytes(b, 2) /\ Bytes(d, 1) /\ Bytes(f, 5) /\ Bytes(<<0, 0>>, 2)
      BY DEF Bytes, Byte
<1>2. Bytes(c, 2)
  <2>1. CASE s = "SS"
    <3>1. c = Word(1024) /\ 1024 \in Nat /\ 1024 < 2^16
          BY <2>1
    <3> QED BY <3>1, WordBytes
  <2>2. CASE s # "SS"
    <3>1. c = Word(512) /\ 512 \in Nat /\ 512 < 2^16
          BY <2>2
    <3> QED BY <3>1, WordBytes
  <2> QED BY <2>1, <2>2
<1>3. Bytes(e, 4)
  <2>1. Bytes(Word(0), 2)
        BY WordBytes
  <2> QED BY <1>1, <2>1, JoinBytes
<1>4. configuration_descriptor(s) = Whole(CONFIGURATION, f, i \o p \o x)
      BY DEF configuration_descriptor
<1> HIDE DEF a, b, c, d, e, f
<1>5. Bytes(b \o c, 4)
      BY <1>1, <1>2, JoinBytes
<1>6. Bytes(b \o c \o d, 5)
      BY <1>1, <1>5, JoinBytes
<1>7. Bytes(i, 9) /\ i[1] = 9 /\ i[2] = INTERFACE
  <2>1. 7 \in Nat /\ 7 <= 253 /\ 9 = 7 + 2 /\ INTERFACE \in Byte
        BY TypesAreBytes
  <2>2. Bytes(a, 7)
        BY <1>1
  <2> QED BY <2>1, <2>2, PartBytes
<1>8. Bytes(p, 7) /\ p[1] = 7 /\ p[2] = ENDPOINT
  <2>1. 5 \in Nat /\ 5 <= 253 /\ 7 = 5 + 2 /\ ENDPOINT \in Byte
        BY TypesAreBytes
  <2>2. Bytes(b \o c \o d, 5)
        BY <1>6
  <2> QED BY <2>1, <2>2, PartBytes
<1>9. Bytes(x, 6) /\ x[1] = 6 /\ x[2] = SS_EP_COMPANION
  <2>1. 4 \in Nat /\ 4 <= 253 /\ 6 = 4 + 2 /\ SS_EP_COMPANION \in Byte
        BY TypesAreBytes
  <2>2. Bytes(e, 4)
        BY <1>3
  <2> QED BY <2>1, <2>2, PartBytes
<1> HIDE DEF i, p, x
<1>10. Bytes(f, 5)
      BY <1>1
<1> HIDE DEF f
<1> QED BY <1>4, <1>7, <1>8, <1>9, <1>10

LEMMA ConfigurationBytes ==
    ASSUME NEW s
    PROVE  /\ Bytes(configuration_descriptor(s), 31)
           /\ configuration_descriptor(s)[1] = 9 /\ configuration_descriptor(s)[2] = 2
           /\ WordAt(configuration_descriptor(s), 3) = 31
<1>1. PICK f, i, p, x :
         /\ configuration_descriptor(s) = Whole(CONFIGURATION, f, (i \o p) \o x)
         /\ Bytes(f, 5) /\ Bytes(i, 9) /\ Bytes(p, 7) /\ Bytes(x, 6)
      BY ConfigurationPieces
<1> DEFINE parts == (i \o p) \o x
<1>2. Bytes(i \o p, 16)
      BY <1>1, JoinBytes
<1>3. Bytes(parts, 22)
      BY <1>1, <1>2, JoinBytes
<1> HIDE DEF parts
<1>4. /\ Bytes(Whole(CONFIGURATION, f, parts), 5 + 4 + 22)
      /\ WordAt(Whole(CONFIGURATION, f, parts), 3) = 5 + 4 + 22
      /\ Whole(CONFIGURATION, f, parts)[1] = 5 + 4
      /\ Whole(CONFIGURATION, f, parts)[2] = CONFIGURATION
      BY <1>1, <1>3, WholeBytes, TypesAreBytes
<1>5. configuration_descriptor(s) = Whole(CONFIGURATION, f, parts)
      BY <1>1 DEF parts
<1> QED BY <1>4, <1>5 DEF CONFIGURATION

LEMMA BosPieces ==
    \E f, i, x :
        /\ bos_descriptor = Whole(BOS, f, i \o x)
        /\ Bytes(f, 1)
        /\ Bytes(i, 7) /\ i[1] = 7 /\ i[2] = DEV_CAPABILITY
        /\ Bytes(x, 10) /\ x[1] = 10 /\ x[2] = DEV_CAPABILITY
<1> DEFINE a == <<2, 2, 0, 0, 0>>
           b == <<3, 0>>
           c == Word(14)
           d == Word(0)
           i == Part(DEV_CAPABILITY, a)
           x == Part(DEV_CAPABILITY, b \o c \o b \o d)
           f == <<2>>
<1>1. Bytes(a, 5) /\ Bytes(b, 2) /\ Bytes(f, 1)
      BY DEF Bytes, Byte
<1>2. Bytes(c, 2) /\ Bytes(d, 2)
      BY WordBytes
<1>3. bos_descriptor = Whole(BOS, f, i \o x)
      BY DEF bos_descriptor
<1> HIDE DEF a, b, c, d, f
<1>4. Bytes(b \o c, 4)
      BY <1>1, <1>2, JoinBytes
<1>5. Bytes(b \o c \o b, 6)
      BY <1>1, <1>4, JoinBytes
<1>6. Bytes(b \o c \o b \o d, 8)
      BY <1>2, <1>5, JoinBytes
<1>7. Bytes(i, 7) /\ i[1] = 7 /\ i[2] = DEV_CAPABILITY
  <2>1. 5 \in Nat /\ 5 <= 253 /\ 7 = 5 + 2 /\ DEV_CAPABILITY \in Byte
        BY TypesAreBytes
  <2>2. Bytes(a, 5)
        BY <1>1
  <2> QED BY <2>1, <2>2, PartBytes
<1>8. Bytes(x, 10) /\ x[1] = 10 /\ x[2] = DEV_CAPABILITY
  <2>1. 8 \in Nat /\ 8 <= 253 /\ 10 = 8 + 2 /\ DEV_CAPABILITY \in Byte
        BY TypesAreBytes
  <2>2. Bytes(b \o c \o b \o d, 8)
        BY <1>6
  <2> QED BY <2>1, <2>2, PartBytes
<1> HIDE DEF i, x
<1>9. Bytes(f, 1)
      BY <1>1
<1> QED BY <1>3, <1>7, <1>8, <1>9

LEMMA BosBytes ==
    /\ Bytes(bos_descriptor, 22)
    /\ bos_descriptor[1] = 5 /\ bos_descriptor[2] = 15 /\ WordAt(bos_descriptor, 3) = 22
<1>1. PICK f, i, x : /\ bos_descriptor = Whole(BOS, f, i \o x)
                     /\ Bytes(f, 1) /\ Bytes(i, 7) /\ Bytes(x, 10)
      BY BosPieces
<1> DEFINE parts == i \o x
<1>2. Bytes(parts, 17)
      BY <1>1, JoinBytes
<1> HIDE DEF parts
<1>3. /\ Bytes(Whole(BOS, f, parts), 1 + 4 + 17)
      /\ WordAt(Whole(BOS, f, parts), 3) = 1 + 4 + 17
      /\ Whole(BOS, f, parts)[1] = 1 + 4
      /\ Whole(BOS, f, parts)[2] = BOS
      BY <1>1, <1>2, WholeBytes, TypesAreBytes
<1>4. bos_descriptor = Whole(BOS, f, parts)
      BY <1>1 DEF parts
<1> QED BY <1>3, <1>4 DEF BOS

LEMMA LiteralBytes ==
    ASSUME NEW first \in Nat, first < 2^16, NEW characters \in Nat
    PROVE  /\ Bytes(Literal(first, characters), 2 * characters + 4)
           /\ Literal(first, characters)[1] = first % 256
           /\ Literal(first, characters)[2] = first \div 256
<1> DEFINE a == Word(first)
           n == 2 * characters
           b == [i \in 1 .. n |-> IF i % 2 = 1 THEN 63 ELSE 0]
           c == Word(0)
<1>1. Bytes(a, 2) /\ Bytes(c, 2) /\ n \in Nat /\ a[1] = first % 256 /\ a[2] = first \div 256
      BY WordBytes DEF Word
<1>2. Literal(first, characters) = a \o b \o c
      BY DEF Literal
<1> HIDE DEF a, c, n
<1>3. Bytes(b, n)
  <2>1. 63 \in Byte /\ 0 \in Byte
        BY DEF Byte
  <2>2. b \in [1 .. n -> Byte]
        BY <2>1
  <2> HIDE DEF b
  <2>3. b \in Seq(Byte)
        BY <1>1, <2>2
  <2>4. Len(b) = n
        BY <1>1, <2>2, LenProperties
  <2> QED BY <2>3, <2>4 DEF Bytes
<1> HIDE DEF b
<1>4. Bytes(a \o b, 2 + n)
      BY <1>1, <1>3, JoinBytes
<1>5. Bytes((a \o b) \o c, (2 + n) + 2)
      BY <1>1, <1>4, JoinBytes
<1>6. (a \o b)[1] = a[1] /\ (a \o b)[2] = a[2]
  <2>1. a \in Seq(Byte) /\ b \in Seq(Byte) /\ 1 \in 1 .. Len(a) /\ 2 \in 1 .. Len(a)
        BY <1>1, <1>3 DEF Bytes
  <2> QED BY <2>1, JoinOfSeq
<1>7. ((a \o b) \o c)[1] = a[1] /\ ((a \o b) \o c)[2] = a[2]
  <2> DEFINE ab == a \o b
  <2>1. 1 \in 1 .. 2 + n /\ 2 \in 1 .. 2 + n
        BY <1>1
  <2>2. ab \in Seq(Byte) /\ c \in Seq(Byte) /\ 1 \in 1 .. Len(ab) /\ 2 \in 1 .. Len(ab)
        BY <1>1, <1>4, <2>1 DEF Bytes
  <2>3. ab[1] = a[1] /\ ab[2] = a[2]
        BY <1>6
  <2> HIDE DEF ab
  <2>4. (ab \o c)[1] = ab[1] /\ (ab \o c)[2] = ab[2]
        BY <2>2, JoinOfSeq
  <2> QED BY <2>3, <2>4 DEF ab
<1>8. (2 + n) + 2 = 2 * characters + 4
      BY <1>1 DEF n
<1> QED BY <1>1, <1>2, <1>5, <1>7, <1>8, ZenonT(60)

\* The length that SetupData takes a descriptor to have.
WholeLength(descr) == IF descr[2] \in {CONFIGURATION, BOS} THEN WordAt(descr, 3) ELSE descr[1]

Sound(descr) ==
    descr \in Seq(Byte) /\ WholeLength(descr) \in Nat
    /\ 0 < WholeLength(descr) /\ WholeLength(descr) <= Len(descr)

LEMMA SoundIf ==
    ASSUME NEW descr, NEW n \in Nat, NEW m \in Nat, 0 < m, m <= n,
           Bytes(descr, n), WholeLength(descr) = m
    PROVE  Sound(descr)
BY DEF Sound, Bytes

LEMMA StringsAreSound ==
    ASSUME NEW first \in Nat, first < 2^16, NEW characters \in Nat,
           first \div 256 = 3, first % 256 = 2 * characters + 2
    PROVE  Sound(Literal(first, characters))
<1> DEFINE descr == Literal(first, characters)
<1>1. /\ Bytes(descr, 2 * characters + 4)
      /\ descr[1] = 2 * characters + 2 /\ descr[2] = 3
  <2>1. /\ Bytes(descr, 2 * characters + 4)
        /\ descr[1] = first % 256 /\ descr[2] = first \div 256
        BY LiteralBytes, ZenonT(60)
  <2> QED BY <2>1
<1> HIDE DEF descr
<1>2. WholeLength(descr) = 2 * characters + 2
      BY <1>1 DEF WholeLength, CONFIGURATION, BOS
<1>3. Sound(descr)
      BY <1>1, <1>2, SoundIf
<1> QED BY <1>3 DEF descr

LEMMA DescriptorsAreSound ==
    ASSUME NEW type, NEW no \in Nat, NEW s, GetDescriptor(type, no, s) # <<>>
    PROVE  Sound(GetDescriptor(type, no, s))
<1>1. Sound(device_descriptor(s))
  <2>1. WholeLength(device_descriptor(s)) = 18
        BY DeviceBytes DEF WholeLength, CONFIGURATION, BOS
  <2>2. 18 \in Nat /\ 0 < 18 /\ 18 <= 18
        OBVIOUS
  <2> QED BY <2>1, <2>2, DeviceBytes, SoundIf
<1>2. Sound(configuration_descriptor(s))
  <2>1. WholeLength(configuration_descriptor(s)) = 31
        BY ConfigurationBytes DEF WholeLength, CONFIGURATION, BOS
  <2>2. 31 \in Nat /\ 0 < 31 /\ 31 <= 31
        OBVIOUS
  <2> QED BY <2>1, <2>2, ConfigurationBytes, SoundIf
<1>3. Sound(bos_descriptor)
  <2>1. WholeLength(bos_descriptor) = 22
        BY BosBytes DEF WholeLength, CONFIGURATION, BOS
  <2>2. 22 \in Nat /\ 0 < 22 /\ 22 <= 22
        OBVIOUS
  <2> QED BY <2>1, <2>2, BosBytes, SoundIf
<1>4. no < Len(string_descriptors) => Sound(string_descriptors[no + 1])
  <2>1. /\ Sound(Literal(\h0304, 1)) /\ Sound(Literal(\h030E, 6))
        /\ Sound(Literal(\h0310, 7)) /\ Sound(Literal(\h0312, 8))
        BY StringsAreSound
  <2>2. Len(string_descriptors) = 4
        BY DEF string_descriptors
  <2>3. no < 4 => no = 0 \/ no = 1 \/ no = 2 \/ no = 3
        OBVIOUS
  <2> QED BY <2>1, <2>2, <2>3 DEF string_descriptors
<1>5. CASE type = DEVICE /\ no = 0
  <2>1. GetDescriptor(type, no, s) = device_descriptor(s)
        BY <1>5 DEF GetDescriptor, DEVICE, CONFIGURATION, STRING_TYPE, BOS
  <2> QED BY <1>1, <2>1
<1>6. CASE type = CONFIGURATION /\ no = 0
  <2>1. type # DEVICE
        BY <1>6 DEF CONFIGURATION, DEVICE
  <2>2. GetDescriptor(type, no, s) = configuration_descriptor(s)
        BY <1>6, <2>1 DEF GetDescriptor, DEVICE, CONFIGURATION, STRING_TYPE, BOS
  <2> QED BY <1>2, <2>2
<1>7. CASE type = STRING_TYPE /\ no < Len(string_descriptors)
  <2>1. type # DEVICE /\ type # CONFIGURATION
        BY <1>7 DEF CONFIGURATION, DEVICE, STRING_TYPE
  <2>2. GetDescriptor(type, no, s) = string_descriptors[no + 1]
        BY <1>7, <2>1 DEF GetDescriptor, DEVICE, CONFIGURATION, STRING_TYPE, BOS
  <2> QED BY <1>4, <1>7, <2>2
<1>8. CASE type = BOS /\ no = 0
  <2>1. type # DEVICE /\ type # CONFIGURATION /\ type # STRING_TYPE
        BY <1>8 DEF CONFIGURATION, DEVICE, STRING_TYPE, BOS
  <2>2. GetDescriptor(type, no, s) = bos_descriptor
        BY <1>8, <2>1 DEF GetDescriptor, DEVICE, CONFIGURATION, STRING_TYPE, BOS
  <2> QED BY <1>3, <2>2
<1> QED BY <1>5, <1>6, <1>7, <1>8 DEF GetDescriptor

-----------------------------------------------------------------------------
(***************************************************************************)
(* The bytes of the requests.                                               *)
(***************************************************************************)
IsWord(n) == n \in Nat /\ n < 2^16

LEMMA TwoMore ==
    ASSUME NEW p \in Seq(Byte), NEW w \in Seq(Byte), Len(w) = 2
    PROVE  /\ p \o w \in Seq(Byte) /\ Len(p \o w) = Len(p) + 2
           /\ (p \o w)[Len(p) + 1] = w[1] /\ (p \o w)[Len(p) + 2] = w[2]
           /\ \A i \in 1 .. Len(p) : (p \o w)[i] = p[i]
<1> DEFINE n == Len(p)
           all == p \o w
<1>1. /\ all \in Seq(Byte) /\ Len(all) = Len(p) + Len(w)
      /\ \A i \in 1 .. Len(p) + Len(w) : all[i] = IF i <= Len(p) THEN p[i] ELSE w[i - Len(p)]
      BY ConcatProperties
<1>2. n \in Nat /\ n = Len(p)
      OBVIOUS
<1> HIDE DEF n, all
<1>3. /\ all \in Seq(Byte) /\ Len(all) = n + 2
      /\ \A i \in 1 .. n + 2 : all[i] = IF i <= n THEN p[i] ELSE w[i - n]
      BY <1>1, <1>2
<1>4. n + 1 \in 1 .. n + 2 /\ n + 2 \in 1 .. n + 2 /\ ~(n + 1 <= n) /\ ~(n + 2 <= n)
      /\ (n + 1) - n = 1 /\ (n + 2) - n = 2
      BY <1>2
<1>5. all[n + 1] = w[1] /\ all[n + 2] = w[2]
      BY <1>3, <1>4
<1>6. \A i \in 1 .. n : all[i] = p[i]
      BY <1>2, <1>3
<1> QED BY <1>3, <1>5, <1>6 DEF n, all

LEMMA PacketBytes ==
    ASSUME NEW t \in Byte, NEW r \in Byte, NEW v, NEW i, NEW n, IsWord(v), IsWord(i), IsWord(n)
    PROVE  LET p == Packet(t, r, v, i, n)
           IN  /\ Bytes(p, 8) /\ p[1] = t /\ p[2] = r
               /\ WordAt(p, 3) = v /\ WordAt(p, 5) = i /\ WordAt(p, 7) = n
<1> DEFINE a == <<t, r>>
           b == a \o Word(v)
           c == b \o Word(i)
           d == c \o Word(n)
<1>1. /\ Word(v) \in Seq(Byte) /\ Len(Word(v)) = 2 /\ Word(v)[1] + 256 * Word(v)[2] = v
      /\ Word(i) \in Seq(Byte) /\ Len(Word(i)) = 2 /\ Word(i)[1] + 256 * Word(i)[2] = i
      /\ Word(n) \in Seq(Byte) /\ Len(Word(n)) = 2 /\ Word(n)[1] + 256 * Word(n)[2] = n
      BY WordBack DEF IsWord
<1>2. a \in Seq(Byte) /\ Len(a) = 2 /\ a[1] = t /\ a[2] = r
      OBVIOUS
<1>3. Packet(t, r, v, i, n) = d
      BY DEF Packet
<1> HIDE DEF a
<1>4. /\ b \in Seq(Byte) /\ Len(b) = 4
      /\ b[3] = Word(v)[1] /\ b[4] = Word(v)[2]
      /\ b[1] = a[1] /\ b[2] = a[2]
      BY <1>1, <1>2, TwoMore, SMTT(40)
<1> HIDE DEF b
<1>5. /\ c \in Seq(Byte) /\ Len(c) = 6
      /\ c[5] = Word(i)[1] /\ c[6] = Word(i)[2]
      /\ c[1] = b[1] /\ c[2] = b[2] /\ c[3] = b[3] /\ c[4] = b[4]
  <2>1. Len(b) = 4 /\ b \in Seq(Byte) /\ Word(i) \in Seq(Byte) /\ Len(Word(i)) = 2
        BY <1>1, <1>4
  <2>2. /\ c \in Seq(Byte) /\ Len(c) = Len(b) + 2
        /\ c[Len(b) + 1] = Word(i)[1] /\ c[Len(b) + 2] = Word(i)[2]
        /\ \A k \in 1 .. Len(b) : c[k] = b[k]
        BY <2>1, TwoMore
  <2> HIDE DEF c
  <2>3. 1 \in 1 .. Len(b) /\ 2 \in 1 .. Len(b) /\ 3 \in 1 .. Len(b) /\ 4 \in 1 .. Len(b)
        BY <2>1
  <2>4. c[1] = b[1] /\ c[2] = b[2] /\ c[3] = b[3] /\ c[4] = b[4]
        BY <2>2, <2>3
  <2> QED BY <2>1, <2>2, <2>4
<1> HIDE DEF c
<1>6. /\ d \in Seq(Byte) /\ Len(d) = 8
      /\ d[7] = Word(n)[1] /\ d[8] = Word(n)[2]
      /\ d[1] = c[1] /\ d[2] = c[2] /\ d[3] = c[3] /\ d[4] = c[4] /\ d[5] = c[5] /\ d[6] = c[6]
  <2>1. Len(c) = 6 /\ c \in Seq(Byte) /\ Word(n) \in Seq(Byte) /\ Len(Word(n)) = 2
        BY <1>1, <1>5
  <2>2. /\ d \in Seq(Byte) /\ Len(d) = Len(c) + 2
        /\ d[Len(c) + 1] = Word(n)[1] /\ d[Len(c) + 2] = Word(n)[2]
        /\ \A k \in 1 .. Len(c) : d[k] = c[k]
        BY <2>1, TwoMore
  <2> HIDE DEF d
  <2>3. 1 \in 1 .. Len(c) /\ 2 \in 1 .. Len(c) /\ 3 \in 1 .. Len(c)
        /\ 4 \in 1 .. Len(c) /\ 5 \in 1 .. Len(c) /\ 6 \in 1 .. Len(c)
        BY <2>1
  <2>4. d[1] = c[1] /\ d[2] = c[2] /\ d[3] = c[3] /\ d[4] = c[4] /\ d[5] = c[5] /\ d[6] = c[6]
        BY <2>2, <2>3
  <2> QED BY <2>1, <2>2, <2>4
<1> HIDE DEF d
<1>7. /\ b[1] = t /\ b[2] = r
      /\ c[1] = b[1] /\ c[2] = b[2] /\ c[3] = b[3] /\ c[4] = b[4]
      BY <1>2, <1>4, <1>5
<1>8. /\ d[1] = c[1] /\ d[2] = c[2] /\ d[3] = c[3] /\ d[4] = c[4]
      /\ d[5] = c[5] /\ d[6] = c[6]
      BY <1>6
<1>9. /\ d[3] + 256 * d[3 + 1] = v /\ d[5] + 256 * d[5 + 1] = i /\ d[7] + 256 * d[7 + 1] = n
      BY <1>1, <1>4, <1>5, <1>6, <1>7, <1>8
<1>10. WordAt(d, 3) = v /\ WordAt(d, 5) = i /\ WordAt(d, 7) = n
       BY <1>9 DEF WordAt
<1> QED BY <1>3, <1>6, <1>7, <1>8, <1>10 DEF Bytes

Asks(p) == \E t, r \in Byte, v, i, n \in Nat :
               IsWord(v) /\ IsWord(i) /\ IsWord(n) /\ p = Packet(t, r, v, i, n)

LEMMA AskedWith ==
    ASSUME Asks(setup)
    PROVE  /\ Bytes(setup, 8) /\ request_type \in Byte /\ request \in Byte
           /\ IsWord(value) /\ IsWord(index) /\ IsWord(length)
<1>1. PICK t \in Byte, r \in Byte, v \in Nat, i \in Nat, n \in Nat :
          IsWord(v) /\ IsWord(i) /\ IsWord(n) /\ setup = Packet(t, r, v, i, n)
      BY DEF Asks
<1>2. /\ Bytes(setup, 8) /\ setup[1] = t /\ setup[2] = r
      /\ WordAt(setup, 3) = v /\ WordAt(setup, 5) = i /\ WordAt(setup, 7) = n
      BY <1>1, PacketBytes
<1> QED BY <1>1, <1>2 DEF request_type, request, value, index, length

-----------------------------------------------------------------------------
(***************************************************************************)
(* The answers.                                                             *)
(***************************************************************************)
AnswerFits(ans, dir, n) ==
    /\ ans.kind \in {"stall", "ok", "in", "out"} /\ ans.bytes \in Seq(Byte)
    /\ ans.kind = "in" => dir = "in" /\ Len(ans.bytes) <= n
    /\ ans.kind = "out" => dir = "out" /\ Len(ans.bytes) = n

LEMMA DataIn ==
    ASSUME NEW object \in Seq(Byte), NEW k \in Nat, k <= Len(object)
    PROVE  LET ans == DmaDataIn(object, k)
           IN  /\ ans.kind = "in" /\ ans.bytes \in Seq(Byte) /\ Len(ans.bytes) = k
               /\ \A i \in 1 .. k : ans.bytes[i] = object[i]
<1> DEFINE b == [i \in 1 .. k |-> IF i <= Len(object) THEN object[i] ELSE Beyond]
<1>1. DmaDataIn(object, k).kind = "in" /\ DmaDataIn(object, k).bytes = b
      BY DEF DmaDataIn
<1>2. Len(object) \in Nat /\ object \in [1 .. Len(object) -> Byte]
      OBVIOUS
<1>3. ASSUME NEW i \in 1 .. k PROVE b[i] = object[i] /\ object[i] \in Byte
      BY <1>2
<1>4. b \in [1 .. k -> Byte]
      BY <1>3
<1> HIDE DEF b
<1>5. b \in Seq(Byte)
      BY <1>4
<1>6. Len(b) = k
      BY <1>4, LenProperties, <1>5
<1> QED BY <1>1, <1>3, <1>5, <1>6

LEMMA DataOut ==
    LET ans == DmaDataOut(3)
    IN  ans.kind = "out" /\ ans.bytes \in Seq(Byte) /\ Len(ans.bytes) = 3
<1> DEFINE b == [i \in 1 .. 3 |-> IF i <= 32 THEN 0 ELSE Beyond]
<1>1. DmaDataOut(3).kind = "out" /\ DmaDataOut(3).bytes = b
      BY DEF DmaDataOut
<1>2. b \in [1 .. 3 -> Byte]
  <2>1. 0 \in Byte
        BY DEF Byte
  <2>2. ASSUME NEW i \in 1 .. 3 PROVE b[i] = 0
        OBVIOUS
  <2> QED BY <2>1, <2>2
<1> HIDE DEF b
<1>3. b \in Seq(Byte) /\ 3 \in Nat
      BY <1>2, SMTT(40)
<1>4. Len(b) = 3
      BY <1>2, <1>3, LenProperties
<1> QED BY <1>1, <1>3, <1>4

LEMMA StallFits ==
    ASSUME NEW dir, NEW n
    PROVE  AnswerFits(Stall, dir, n) /\ AnswerFits(Acknowledge, dir, n)
BY DEF AnswerFits, Stall, Acknowledge

LEMMA VendorAnswers ==
    ASSUME Asks(setup)
    PROVE  AnswerFits(VendorCommand, Direction, length)
<1>1. CASE request = CMD_START /\ request_type = OUT_VENDOR /\ Plain(3)
  <2>1. VendorCommand = DmaDataOut(3)
        BY <1>1 DEF VendorCommand, CMD_START, CMD_GET_FW_VERSION, CMD_GET_REVID_VERSION
  <2>2. Direction = "out" /\ length = 3
        BY <1>1 DEF Direction, Plain, OUT_VENDOR
  <2> QED BY <2>1, <2>2, DataOut DEF AnswerFits
<1>2. CASE request = CMD_GET_FW_VERSION /\ request_type = IN_VENDOR /\ Plain(2)
  <2>1. VendorCommand = DmaDataIn(<<1, 3>>, 2)
        BY <1>2 DEF VendorCommand, CMD_START, CMD_GET_FW_VERSION, CMD_GET_REVID_VERSION
  <2>2. Direction = "in" /\ length = 2
        BY <1>2 DEF Direction, Plain, IN_VENDOR
  <2>3. <<1, 3>> \in Seq(Byte) /\ 2 <= Len(<<1, 3>>)
        BY DEF Byte
  <2> QED BY <2>1, <2>2, <2>3, DataIn DEF AnswerFits
<1>3. CASE request = CMD_GET_REVID_VERSION /\ request_type = IN_VENDOR /\ Plain(1)
  <2>1. VendorCommand = DmaDataIn(<<1>>, 1)
        BY <1>3 DEF VendorCommand, CMD_START, CMD_GET_FW_VERSION, CMD_GET_REVID_VERSION
  <2>2. Direction = "in" /\ length = 1
        BY <1>3 DEF Direction, Plain, IN_VENDOR
  <2>3. <<1>> \in Seq(Byte) /\ 1 <= Len(<<1>>)
        BY DEF Byte
  <2> QED BY <2>1, <2>2, <2>3, DataIn DEF AnswerFits
<1>4. CASE /\ ~(request = CMD_START /\ request_type = OUT_VENDOR /\ Plain(3))
           /\ ~(request = CMD_GET_FW_VERSION /\ request_type = IN_VENDOR /\ Plain(2))
           /\ ~(request = CMD_GET_REVID_VERSION /\ request_type = IN_VENDOR /\ Plain(1))
  <2>1. VendorCommand = Stall
        BY <1>4 DEF VendorCommand
  <2> QED BY <2>1, StallFits
<1> QED BY <1>1, <1>2, <1>3, <1>4

LEMMA LengthIs ==
    ASSUME NEW descr, Sound(descr), IsWord(length)
    PROVE  /\ LengthOf(descr) \in Nat /\ LengthOf(descr) <= length
           /\ LengthOf(descr) <= Len(descr)
           /\ LengthOf(descr) = IF WholeLength(descr) < length THEN WholeLength(descr) ELSE length
<1>1. LengthOf(descr) = IF WholeLength(descr) < length THEN WholeLength(descr) ELSE length
      BY DEF LengthOf, WholeLength
<1>2. /\ descr \in Seq(Byte) /\ WholeLength(descr) \in Nat /\ WholeLength(descr) <= Len(descr)
      /\ length \in Nat
      BY DEF Sound, IsWord
<1>3. Len(descr) \in Nat
      BY <1>2
<1> QED BY <1>1, <1>2, <1>3

\* What the handler looks for, and the answer when it is there.
Wanted == GetDescriptor(value \div 256, value % 256, speed)

LEMMA WantedIsSound ==
    ASSUME Asks(setup), Wanted # <<>>
    PROVE  Sound(Wanted)
<1>1. IsWord(value)
      BY AskedWith
<1>2. value % 256 \in Nat
      BY <1>1 DEF IsWord
<1> QED BY <1>2, DescriptorsAreSound DEF Wanted

LEMMA GetAnswers ==
    ASSUME Asks(setup), request_type = IN_STD, Wanted # <<>>
    PROVE  /\ GetDescriptorRequest = DmaDataIn(Wanted, LengthOf(Wanted))
           /\ GetDescriptorRequest.kind = "in" /\ GetDescriptorRequest.bytes \in Seq(Byte)
           /\ Len(GetDescriptorRequest.bytes) = LengthOf(Wanted)
           /\ \A i \in 1 .. LengthOf(Wanted) : GetDescriptorRequest.bytes[i] = Wanted[i]
<1>1. GetDescriptorRequest = DmaDataIn(Wanted, LengthOf(Wanted))
      BY DEF GetDescriptorRequest, Wanted
<1>2. Sound(Wanted) /\ IsWord(length)
      BY AskedWith, WantedIsSound
<1>3. LengthOf(Wanted) \in Nat /\ LengthOf(Wanted) <= Len(Wanted) /\ Wanted \in Seq(Byte)
      BY <1>2, LengthIs DEF Sound
<1> QED BY <1>1, <1>3, DataIn

LEMMA DescriptorAnswers ==
    ASSUME Asks(setup)
    PROVE  AnswerFits(GetDescriptorRequest, Direction, length)
<1>1. CASE request_type = IN_STD /\ Wanted # <<>>
  <2>1. Direction = "in"
        BY <1>1 DEF Direction, IN_STD
  <2>2. LengthOf(Wanted) <= length
        BY <1>1, AskedWith, WantedIsSound, LengthIs
  <2> QED BY <1>1, <2>1, <2>2, GetAnswers DEF AnswerFits
<1>2. CASE ~(request_type = IN_STD /\ Wanted # <<>>)
  <2>1. GetDescriptorRequest = Stall
        BY <1>2 DEF GetDescriptorRequest, Wanted
  <2> QED BY <2>1, StallFits
<1> QED BY <1>1, <1>2

LEMMA AnswersFit ==
    ASSUME Asks(setup)
    PROVE  AnswerFits(SetupData, Direction, length)
<1>1. CASE TypeBits = 2
  <2>1. SetupData = VendorCommand
        BY <1>1 DEF SetupData, Configures
  <2> QED BY <2>1, VendorAnswers
<1>2. CASE TypeBits = 0 /\ request = GET_DESCRIPTOR
  <2>1. SetupData = GetDescriptorRequest
        BY <1>2 DEF SetupData, Configures, GET_DESCRIPTOR, SET_CONFIGURATION
  <2> QED BY <2>1, DescriptorAnswers
<1>3. CASE Configures
  <2>1. SetupData = Acknowledge
        BY <1>3 DEF SetupData, Configures, GET_DESCRIPTOR, SET_CONFIGURATION
  <2> QED BY <2>1, StallFits
<1>4. CASE TypeBits # 2 /\ ~(TypeBits = 0 /\ request = GET_DESCRIPTOR) /\ ~Configures
  <2>1. SetupData = Stall
        BY <1>4 DEF SetupData
  <2> QED BY <2>1, StallFits
<1> QED BY <1>1, <1>2, <1>3, <1>4

-----------------------------------------------------------------------------
(***************************************************************************)
(* What the enumeration has heard at each stage, which its next request     *)
(* goes by.                                                                 *)
(***************************************************************************)
Stages == {"device", "wholeDevice", "language", "string", "bos", "wholeBos",
           "configuration", "wholeConfiguration", "configure", "configured"}

Heard(s, bytes) ==
    /\ bytes \in Seq(Byte)
    /\ s = "wholeDevice" => Len(bytes) >= 1 /\ bytes[1] = 18
    /\ s = "string" => Len(bytes) >= 16
    /\ s = "wholeBos" => Len(bytes) >= 4
    /\ s = "wholeConfiguration" => Len(bytes) >= 4 /\ WordAt(bytes, 3) = 31
    /\ s = "configure" => Len(bytes) >= 6

LEMMA TwoBytes ==
    ASSUME NEW a \in Byte, NEW b \in Byte
    PROVE  IsWord(a + 256 * b)
<1>1. a \in Nat /\ b \in Nat /\ a <= 255 /\ b <= 255
      BY DEF Byte
<1>2. a + 256 * b \in Nat /\ a + 256 * b < 2^16
      BY <1>1
<1> QED BY <1>2 DEF IsWord

LEMMA WordOfBytes ==
    ASSUME NEW bytes \in Seq(Byte), NEW i \in Nat, 1 <= i, i < Len(bytes)
    PROVE  IsWord(WordAt(bytes, i))
<1>1. i \in 1 .. Len(bytes) /\ i + 1 \in 1 .. Len(bytes)
      OBVIOUS
<1>2. bytes[i] \in Byte /\ bytes[i + 1] \in Byte
      BY <1>1
<1>3. IsWord(bytes[i] + 256 * bytes[i + 1])
      BY <1>2, TwoBytes
<1> QED BY <1>3 DEF WordAt

LEMMA GetAsks ==
    ASSUME NEW type \in Byte, NEW no \in Byte, NEW n, IsWord(n), setup = Get(type, no, n)
    PROVE  /\ Asks(setup) /\ request_type = IN_STD /\ request = GET_DESCRIPTOR
           /\ value \div 256 = type /\ value % 256 = no /\ length = n
<1> DEFINE v == 256 * type + no
<1>1. /\ v \in Nat /\ v < 2^16 /\ v \div 256 = type /\ v % 256 = no
      BY DEF Byte
<1>2. setup = Packet(IN_STD, GET_DESCRIPTOR, v, 0, n)
      BY DEF Get
<1> HIDE DEF v
<1>3. IN_STD \in Byte /\ GET_DESCRIPTOR \in Byte /\ IsWord(v) /\ IsWord(0)
      BY <1>1 DEF IN_STD, GET_DESCRIPTOR, Byte, IsWord
<1>4. Asks(setup)
      BY <1>2, <1>3 DEF Asks, IsWord
<1>5. /\ setup[1] = IN_STD /\ setup[2] = GET_DESCRIPTOR
      /\ WordAt(setup, 3) = v /\ WordAt(setup, 7) = n
      BY <1>2, <1>3, PacketBytes
<1> QED BY <1>1, <1>4, <1>5 DEF request_type, request, value, length

LEMMA ConfigureAsks ==
    ASSUME NEW v \in Byte, setup = Packet(OUT_STD, SET_CONFIGURATION, v, 0, 0)
    PROVE  Asks(setup) /\ request_type = OUT_STD /\ request = SET_CONFIGURATION /\ value = v
<1>1. /\ OUT_STD \in Byte /\ SET_CONFIGURATION \in Byte /\ IsWord(v) /\ IsWord(0)
      BY DEF OUT_STD, SET_CONFIGURATION, Byte, IsWord
<1>2. Asks(setup)
      BY <1>1 DEF Asks, IsWord
<1>3. setup[1] = OUT_STD /\ setup[2] = SET_CONFIGURATION /\ WordAt(setup, 3) = v
      BY <1>1, PacketBytes
<1> QED BY <1>2, <1>3 DEF request_type, request, value

\* The request of each stage.
LEMMA StageRequests ==
    /\ stage = "device" =>
         EnumerationRequest = Get(DEVICE, 0, IF speed = "SS" THEN 8 ELSE 64)
    /\ stage = "wholeDevice" => EnumerationRequest = Get(DEVICE, 0, heard[1])
    /\ stage = "language" => EnumerationRequest = Get(STRING_TYPE, 0, 255)
    /\ stage = "string" => EnumerationRequest = Get(STRING_TYPE, heard[16], 255)
    /\ stage = "bos" => EnumerationRequest = Get(BOS, 0, 5)
    /\ stage = "wholeBos" => EnumerationRequest = Get(BOS, 0, WordAt(heard, 3))
    /\ stage = "configuration" => EnumerationRequest = Get(CONFIGURATION, 0, 9)
    /\ stage = "wholeConfiguration" =>
         EnumerationRequest = Get(CONFIGURATION, 0, WordAt(heard, 3))
    /\ stage = "configure" =>
         EnumerationRequest = Packet(OUT_STD, SET_CONFIGURATION, heard[6], 0, 0)
BY DEF EnumerationRequest

LEMMA EnumerationAsks ==
    ASSUME Heard(stage, heard), stage \in Stages, stage # "configured",
           setup = EnumerationRequest
    PROVE  /\ Asks(setup)
           /\ IF stage = "configure" THEN request_type = OUT_STD /\ request = SET_CONFIGURATION
              ELSE request_type = IN_STD /\ request = GET_DESCRIPTOR
           /\ stage = "device" => value \div 256 = DEVICE /\ value % 256 = 0 /\ length >= 8
           /\ stage = "wholeDevice" => value \div 256 = DEVICE /\ value % 256 = 0 /\ length = 18
           /\ stage = "bos" => value \div 256 = BOS /\ value % 256 = 0 /\ length = 5
           /\ stage = "configuration" =>
                value \div 256 = CONFIGURATION /\ value % 256 = 0 /\ length = 9
           /\ stage = "wholeConfiguration" =>
                value \div 256 = CONFIGURATION /\ value % 256 = 0 /\ length = 31
<1>0. 0 \in Byte /\ \A n \in 0 .. 255 : IsWord(n)
      BY DEF Byte, IsWord
<1>1. CASE stage = "device"
  <2>1. setup = Get(DEVICE, 0, IF speed = "SS" THEN 8 ELSE 64)
        BY <1>1, StageRequests
  <2>2. CASE speed = "SS"
    <3>1. setup = Get(DEVICE, 0, 8) /\ IsWord(8)
          BY <1>0, <2>1, <2>2
    <3>2. /\ Asks(setup) /\ request_type = IN_STD /\ request = GET_DESCRIPTOR
          /\ value \div 256 = DEVICE /\ value % 256 = 0 /\ length = 8
          BY <1>0, <3>1, GetAsks, TypesAreBytes
    <3> QED BY <1>1, <3>2
  <2>3. CASE speed # "SS"
    <3>1. setup = Get(DEVICE, 0, 64) /\ IsWord(64)
          BY <1>0, <2>1, <2>3
    <3>2. /\ Asks(setup) /\ request_type = IN_STD /\ request = GET_DESCRIPTOR
          /\ value \div 256 = DEVICE /\ value % 256 = 0 /\ length = 64
          BY <1>0, <3>1, GetAsks, TypesAreBytes
    <3> QED BY <1>1, <3>2
  <2> QED BY <2>2, <2>3
<1>2. CASE stage = "wholeDevice"
  <2>0. heard[1] = 18 /\ IsWord(18)
        BY <1>0, <1>2 DEF Heard
  <2>1. setup = Get(DEVICE, 0, 18) /\ IsWord(18)
        BY <1>2, <2>0, StageRequests
  <2>2. /\ Asks(setup) /\ request_type = IN_STD /\ request = GET_DESCRIPTOR
        /\ value \div 256 = DEVICE /\ value % 256 = 0 /\ length = 18
        BY <1>0, <2>1, GetAsks, TypesAreBytes
  <2> QED BY <1>2, <2>2
<1>3. CASE stage = "language"
  <2>1. setup = Get(STRING_TYPE, 0, 255) /\ IsWord(255)
        BY <1>0, <1>3, StageRequests
  <2>2. Asks(setup) /\ request_type = IN_STD /\ request = GET_DESCRIPTOR
        BY <1>0, <2>1, GetAsks, TypesAreBytes
  <2> QED BY <1>3, <2>2
<1>4. CASE stage = "string"
  <2>1. setup = Get(STRING_TYPE, heard[16], 255) /\ IsWord(255)
        BY <1>0, <1>4, StageRequests
  <2>2. heard \in Seq(Byte) /\ Len(heard) >= 16
        BY <1>4 DEF Heard
  <2>3. heard[16] \in Byte
        BY <2>2
  <2>4. Asks(setup) /\ request_type = IN_STD /\ request = GET_DESCRIPTOR
        BY <2>1, <2>3, GetAsks, TypesAreBytes
  <2> QED BY <1>4, <2>4
<1>5. CASE stage = "bos"
  <2>1. setup = Get(BOS, 0, 5) /\ IsWord(5)
        BY <1>0, <1>5, StageRequests
  <2>2. /\ Asks(setup) /\ request_type = IN_STD /\ request = GET_DESCRIPTOR
        /\ value \div 256 = BOS /\ value % 256 = 0 /\ length = 5
        BY <1>0, <2>1, GetAsks, TypesAreBytes
  <2> QED BY <1>5, <2>2
<1>6. CASE stage = "wholeBos"
  <2>1. setup = Get(BOS, 0, WordAt(heard, 3))
        BY <1>6, StageRequests
  <2>2. heard \in Seq(Byte) /\ 3 < Len(heard)
        BY <1>6 DEF Heard
  <2>3. IsWord(WordAt(heard, 3))
        BY <2>2, WordOfBytes
  <2>4. Asks(setup) /\ request_type = IN_STD /\ request = GET_DESCRIPTOR
        BY <1>0, <2>1, <2>3, GetAsks, TypesAreBytes
  <2> QED BY <1>6, <2>4
<1>7. CASE stage = "configuration"
  <2>1. setup = Get(CONFIGURATION, 0, 9) /\ IsWord(9)
        BY <1>0, <1>7, StageRequests
  <2>2. /\ Asks(setup) /\ request_type = IN_STD /\ request = GET_DESCRIPTOR
        /\ value \div 256 = CONFIGURATION /\ value % 256 = 0 /\ length = 9
        BY <1>0, <2>1, GetAsks, TypesAreBytes
  <2> QED BY <1>7, <2>2
<1>8. CASE stage = "wholeConfiguration"
  <2>1. setup = Get(CONFIGURATION, 0, 31) /\ IsWord(31)
        BY <1>0, <1>8, StageRequests DEF Heard
  <2>2. /\ Asks(setup) /\ request_type = IN_STD /\ request = GET_DESCRIPTOR
        /\ value \div 256 = CONFIGURATION /\ value % 256 = 0 /\ length = 31
        BY <1>0, <2>1, GetAsks, TypesAreBytes
  <2> QED BY <1>8, <2>2
<1>9. CASE stage = "configure"
  <2>1. setup = Packet(OUT_STD, SET_CONFIGURATION, heard[6], 0, 0)
        BY <1>9, StageRequests
  <2>2. heard \in Seq(Byte) /\ Len(heard) >= 6
        BY <1>9 DEF Heard
  <2>3. heard[6] \in Byte
        BY <2>2
  <2>4. Asks(setup) /\ request_type = OUT_STD /\ request = SET_CONFIGURATION
        BY <2>1, <2>3, ConfigureAsks
  <2> QED BY <1>9, <2>4
<1> QED BY <1>1, <1>2, <1>3, <1>4, <1>5, <1>6, <1>7, <1>8, <1>9 DEF Stages

LEMMA BytesOf ==
    ASSUME Asks(setup), request_type = IN_STD, request = GET_DESCRIPTOR,
           NEW descr, Wanted = descr, NEW size \in Nat, NEW n \in Nat, size > 0,
           Bytes(descr, size), WholeLength(descr) = size,
           n = IF size < length THEN size ELSE length
    PROVE  /\ SetupData.bytes \in Seq(Byte) /\ Len(SetupData.bytes) = n
           /\ \A i \in 1 .. n : SetupData.bytes[i] = descr[i]
<1>1. TypeBits = 0
      BY DEF TypeBits, IN_STD
<1>2. SetupData = GetDescriptorRequest
      BY <1>1 DEF SetupData, Configures, GET_DESCRIPTOR, SET_CONFIGURATION
<1>3. Wanted # <<>>
      BY DEF Bytes
<1>4. Sound(Wanted) /\ IsWord(length)
      BY <1>3, WantedIsSound, AskedWith
<1>5. LengthOf(Wanted) = n
      BY <1>4, LengthIs
<1> QED BY <1>2, <1>3, <1>5, GetAnswers

LEMMA WantedOf ==
    ASSUME value % 256 = 0
    PROVE  /\ value \div 256 = DEVICE => Wanted = device_descriptor(speed)
           /\ value \div 256 = CONFIGURATION => Wanted = configuration_descriptor(speed)
           /\ value \div 256 = BOS => Wanted = bos_descriptor
BY DEF Wanted, GetDescriptor, DEVICE, CONFIGURATION, STRING_TYPE, BOS

LEMMA SizesOf ==
    /\ \A s : Bytes(device_descriptor(s), 18) /\ WholeLength(device_descriptor(s)) = 18
    /\ \A s : Bytes(configuration_descriptor(s), 31)
              /\ WholeLength(configuration_descriptor(s)) = 31
    /\ Bytes(bos_descriptor, 22) /\ WholeLength(bos_descriptor) = 22
<1>1. ASSUME NEW s
      PROVE  Bytes(device_descriptor(s), 18) /\ WholeLength(device_descriptor(s)) = 18
      BY DeviceBytes DEF WholeLength, CONFIGURATION, BOS
<1>2. ASSUME NEW s
      PROVE  Bytes(configuration_descriptor(s), 31)
             /\ WholeLength(configuration_descriptor(s)) = 31
      BY ConfigurationBytes DEF WholeLength, CONFIGURATION, BOS
<1>3. Bytes(bos_descriptor, 22) /\ WholeLength(bos_descriptor) = 22
      BY BosBytes DEF WholeLength, CONFIGURATION, BOS
<1> QED BY <1>1, <1>2, <1>3

LEMMA AfterEach ==
    /\ stage = "device" => After(stage) = "wholeDevice"
    /\ stage = "wholeDevice" => After(stage) = "string"
    /\ stage = "string" => After(stage) = "language"
    /\ stage = "language" => After(stage) = IF speed = "SS" THEN "bos" ELSE "configuration"
    /\ stage = "bos" => After(stage) = "wholeBos"
    /\ stage = "wholeBos" => After(stage) = "configuration"
    /\ stage = "configuration" => After(stage) = "wholeConfiguration"
    /\ stage = "wholeConfiguration" => After(stage) = "configure"
    /\ stage = "configure" => After(stage) = "configured"
BY DEF After

\* What the host hears when a request of the enumeration is answered.
LEMMA EnumerationHears ==
    ASSUME Heard(stage, heard), stage \in Stages, stage # "configured",
           setup = EnumerationRequest
    PROVE  After(stage) \in Stages /\ Heard(After(stage), SetupData.bytes)
<1> DEFINE b == SetupData.bytes
<1>0. Asks(setup) /\ b \in Seq(Byte)
  <2>1. Asks(setup)
        BY EnumerationAsks
  <2> QED BY <2>1, AnswersFit DEF AnswerFits
<1>1. CASE stage = "device"
  <2>1. /\ request_type = IN_STD /\ request = GET_DESCRIPTOR
        /\ value \div 256 = DEVICE /\ value % 256 = 0 /\ length >= 8
        BY <1>1, EnumerationAsks
  <2>2. Wanted = device_descriptor(speed)
        BY <2>1, WantedOf
  <2> DEFINE n == IF 18 < length THEN 18 ELSE length
  <2>3. n \in Nat /\ n >= 1
    <3>1. length \in Nat
          BY <1>0, AskedWith DEF IsWord
    <3> QED BY <2>1, <3>1
  <2>4. Len(b) = n /\ \A i \in 1 .. n : b[i] = device_descriptor(speed)[i]
        BY <1>0, <2>1, <2>2, <2>3, BytesOf, SizesOf
  <2> HIDE DEF n, b
  <2>5. 1 \in 1 .. n
        BY <2>3
  <2>6. Len(b) >= 1 /\ b[1] = 18
        BY <2>3, <2>4, <2>5, DeviceBytes
  <2>7. After(stage) = "wholeDevice"
        BY <1>1, AfterEach
  <2> QED BY <1>0, <2>6, <2>7 DEF Heard, Stages, b
<1>2. CASE stage = "wholeDevice"
  <2>1. /\ request_type = IN_STD /\ request = GET_DESCRIPTOR
        /\ value \div 256 = DEVICE /\ value % 256 = 0
        BY <1>2, EnumerationAsks
  <2>0. length = 18
        BY <1>2, EnumerationAsks
  <2>2. Wanted = device_descriptor(speed)
        BY <2>1, WantedOf
  <2> DEFINE n == IF 18 < length THEN 18 ELSE length
  <2>3. n \in Nat
        BY <2>0
  <2>9. n = 18
        BY <2>0
  <2>4. Len(b) = n
        BY <1>0, <2>1, <2>2, <2>3, BytesOf, SizesOf
  <2>5. After(stage) = "string"
        BY <1>2, AfterEach
  <2> HIDE DEF n, b
  <2> QED BY <1>0, <2>4, <2>5, <2>9 DEF Heard, Stages, b
<1>3. CASE stage \in {"string", "language", "wholeBos", "configure"}
  <2>1. After(stage) \in {"language", "bos", "configuration", "configured"}
        BY <1>3, AfterEach
  <2> HIDE DEF b
  <2> QED BY <1>0, <2>1 DEF Heard, Stages, b
<1>4. CASE stage = "bos"
  <2>1. /\ request_type = IN_STD /\ request = GET_DESCRIPTOR
        /\ value \div 256 = BOS /\ value % 256 = 0
        BY <1>4, EnumerationAsks
  <2>0. length = 5
        BY <1>4, EnumerationAsks
  <2>2. Wanted = bos_descriptor
        BY <2>1, WantedOf
  <2> DEFINE n == IF 22 < length THEN 22 ELSE length
  <2>3. n \in Nat
        BY <2>0
  <2>9. n = 5
        BY <2>0
  <2>4. Len(b) = n
        BY <1>0, <2>1, <2>2, <2>3, BytesOf, SizesOf
  <2>5. After(stage) = "wholeBos"
        BY <1>4, AfterEach
  <2> HIDE DEF n, b
  <2> QED BY <1>0, <2>4, <2>5, <2>9 DEF Heard, Stages, b
<1>5. CASE stage = "configuration"
  <2>1. /\ request_type = IN_STD /\ request = GET_DESCRIPTOR
        /\ value \div 256 = CONFIGURATION /\ value % 256 = 0
        BY <1>5, EnumerationAsks
  <2>0. length = 9
        BY <1>5, EnumerationAsks
  <2>2. Wanted = configuration_descriptor(speed)
        BY <2>1, WantedOf
  <2> DEFINE n == IF 31 < length THEN 31 ELSE length
  <2>3. n \in Nat
        BY <2>0
  <2>9. n = 9
        BY <2>0
  <2>4. Len(b) = n /\ \A i \in 1 .. n : b[i] = configuration_descriptor(speed)[i]
        BY <1>0, <2>1, <2>2, <2>3, BytesOf, SizesOf
  <2> HIDE DEF n, b
  <2>5. b[3] = configuration_descriptor(speed)[3] /\ b[4] = configuration_descriptor(speed)[4]
        BY <2>4, <2>9
  <2>6. WordAt(b, 3) = WordAt(configuration_descriptor(speed), 3)
        BY <2>5 DEF WordAt
  <2>7. WordAt(b, 3) = 31
        BY <2>6, ConfigurationBytes
  <2>8. After(stage) = "wholeConfiguration"
        BY <1>5, AfterEach
  <2> QED BY <1>0, <2>4, <2>7, <2>8, <2>9 DEF Heard, Stages, b
<1>6. CASE stage = "wholeConfiguration"
  <2>1. /\ request_type = IN_STD /\ request = GET_DESCRIPTOR
        /\ value \div 256 = CONFIGURATION /\ value % 256 = 0
        BY <1>6, EnumerationAsks
  <2>0. length = 31
        BY <1>6, EnumerationAsks
  <2>2. Wanted = configuration_descriptor(speed)
        BY <2>1, WantedOf
  <2> DEFINE n == IF 31 < length THEN 31 ELSE length
  <2>3. n \in Nat
        BY <2>0
  <2>9. n = 31
        BY <2>0
  <2>4. Len(b) = n
        BY <1>0, <2>1, <2>2, <2>3, BytesOf, SizesOf
  <2>5. After(stage) = "configure"
        BY <1>6, AfterEach
  <2> HIDE DEF n, b
  <2> QED BY <1>0, <2>4, <2>5, <2>9 DEF Heard, Stages, b
<1> QED BY <1>1, <1>2, <1>3, <1>4, <1>5, <1>6 DEF Stages

-----------------------------------------------------------------------------
(***************************************************************************)
(* A request is a packet and is answered by what it asks, and the           *)
(* enumeration asks for what it has heard.                                  *)
(***************************************************************************)
EpFits == ep.payload \in 0 .. 2^10 - 1 /\ ep.packet_size \in 0 .. 2^11 - 1

AskedInv == asked => setup # <<>> /\ stage # "configured" /\ setup = EnumerationRequest

AnswerInv == answer = Idle \/ (setup # <<>> /\ AnswerFits(answer, count.dir, count.n))

HearsInv ==
    asked /\ answer # Idle /\ answer.kind # "stall" =>
        After(stage) \in Stages /\ Heard(After(stage), answer.bytes)

DataInv ==
    /\ speed \in {"SS", "HS"} /\ asked \in BOOLEAN
    /\ setup = <<>> \/ Asks(setup)
    /\ EpFits
    /\ AnswerInv
    /\ stage \in Stages /\ Heard(stage, heard)
    /\ AskedInv
    /\ HearsInv

LEMMA DataInvFits ==
    ASSUME DataInv
    PROVE  DataStageOfTheObject
<1>1. setup \in Seq(Byte)
  <2>1. CASE setup = <<>>
        BY <2>1
  <2>2. CASE Asks(setup)
        BY <2>2, AskedWith DEF Bytes
  <2> QED BY <2>1, <2>2 DEF DataInv
<1>2. CASE answer = Idle
  <2>1. answer.kind = "idle" /\ answer.bytes = <<>>
        BY <1>2 DEF Idle
  <2>2. answer.kind \notin {"in", "out"}
        BY <2>1
  <2>3. answer.bytes \in Seq(Byte)
        BY <2>1
  <2> QED BY <1>1, <2>1, <2>2, <2>3
          DEF DataInv, EpFits, DataStageOfTheObject, TypeOK, DataStageAsAsked, Byte
<1>3. CASE answer # Idle
  <2>1. AnswerFits(answer, count.dir, count.n)
        BY <1>3 DEF DataInv, AnswerInv
  <2>2. DataStageAsAsked
    <3>1. CASE answer.kind = "in"
      <4>1. count.dir = "in" /\ Len(answer.bytes) <= count.n /\ answer.kind # "out"
            BY <2>1, <3>1 DEF AnswerFits
      <4> QED BY <3>1, <4>1 DEF DataStageAsAsked
    <3>2. CASE answer.kind = "out"
      <4>1. /\ count.dir = "out" /\ Len(answer.bytes) = count.n
            /\ answer.bytes \in Seq(Byte)
            BY <2>1, <3>2 DEF AnswerFits
      <4>2. Len(answer.bytes) \in Nat
            BY <4>1
      <4>3. Len(answer.bytes) <= count.n
            BY <4>1, <4>2
      <4> QED BY <3>2, <4>1, <4>3 DEF DataStageAsAsked
    <3>3. CASE answer.kind \notin {"in", "out"}
          BY <3>3 DEF DataStageAsAsked
    <3> QED BY <3>1, <3>2, <3>3
  <2>3. TypeOK
        BY <1>1, <2>1 DEF DataInv, EpFits, TypeOK, AnswerFits, Byte
  <2> QED BY <2>2, <2>3 DEF DataStageOfTheObject
<1> QED BY <1>2, <1>3

LEMMA ModRange ==
    ASSUME NEW n \in Nat, NEW m \in Nat, m > 0
    PROVE  n % m \in 0 .. m - 1
OBVIOUS

LEMMA EndpointFits ==
    /\ EnableInEndpoint("BULK", PacketSizeOf(speed)).payload \in 0 .. 2^10 - 1
    /\ EnableInEndpoint("BULK", PacketSizeOf(speed)).packet_size \in 0 .. 2^11 - 1
<1> DEFINE n == PacketSizeOf(speed)
<1>1. n \in Nat
      BY DEF PacketSizeOf
<1>2. /\ EnableInEndpoint("BULK", n).payload = n % 2^10
      /\ EnableInEndpoint("BULK", n).packet_size = n % 2^11
      BY DEF EnableInEndpoint
<1> HIDE DEF n
<1>3. n % 2^10 \in 0 .. 2^10 - 1 /\ n % 2^11 \in 0 .. 2^11 - 1
  <2>1. 2^10 \in Nat /\ 2^10 > 0 /\ 2^11 \in Nat /\ 2^11 > 0
        OBVIOUS
  <2> QED BY <1>1, <2>1, ModRange
<1> QED BY <1>2, <1>3 DEF n

LEMMA StageKept ==
    ASSUME UNCHANGED <<speed, stage, heard>>
    PROVE  EnumerationRequest' = EnumerationRequest /\ After(stage)' = After(stage)
BY DEF EnumerationRequest, After

LEMMA DataStutters ==
    ASSUME DataInv, UNCHANGED vars
    PROVE  DataInv'
<1>1. UNCHANGED <<speed, setup, count, answer, ep, stage, heard, asked>>
      BY DEF vars
<1>2. EnumerationRequest' = EnumerationRequest /\ After(stage)' = After(stage)
      BY <1>1, StageKept
<1>3. (setup = <<>> \/ Asks(setup))' /\ EpFits' /\ AnswerInv'
      BY <1>1 DEF DataInv, EpFits, AnswerInv
<1>4. AskedInv' /\ HearsInv'
      BY <1>1, <1>2 DEF DataInv, AskedInv, HearsInv
<1> QED BY <1>1, <1>3, <1>4 DEF DataInv

LEMMA DataHandle ==
    ASSUME DataInv, Handle
    PROVE  DataInv'
<1>1. /\ setup # <<>> /\ Asks(setup)
      /\ count' = [dir |-> Direction, n |-> length] /\ answer' = SetupData
      /\ UNCHANGED <<speed, setup, stage, heard, asked>>
      BY DEF Handle, DataInv
<1>2. EnumerationRequest' = EnumerationRequest /\ After(stage)' = After(stage)
      BY <1>1, StageKept
<1>3. AnswerInv'
  <2>1. AnswerFits(SetupData, Direction, length)
        BY <1>1, AnswersFit
  <2>2. count'.dir = Direction /\ count'.n = length
        BY <1>1
  <2> QED BY <1>1, <2>1, <2>2 DEF AnswerInv
<1>4. EpFits'
  <2>1. ep' = IF Configures THEN EnableInEndpoint("BULK", PacketSizeOf(speed)) ELSE ep
        BY DEF Handle
  <2>2. CASE Configures
        BY <2>1, <2>2, EndpointFits DEF EpFits
  <2>3. CASE ~Configures
        BY <2>1, <2>3 DEF EpFits, DataInv
  <2> QED BY <2>2, <2>3
<1>5. AskedInv'
      BY <1>1, <1>2 DEF DataInv, AskedInv
<1>6. HearsInv'
  <2>1. SUFFICES ASSUME asked PROVE After(stage) \in Stages /\ Heard(After(stage), SetupData.bytes)
        BY <1>1, <1>2 DEF HearsInv
  <2>2. setup = EnumerationRequest /\ stage # "configured"
        BY <2>1, SMTT(40) DEF DataInv, AskedInv
  <2> QED BY <2>2, EnumerationHears DEF DataInv
<1> QED BY <1>1, <1>3, <1>4, <1>5, <1>6 DEF DataInv

LEMMA WordRange ==
    ASSUME NEW n, n \in StdValues \cup StdLengths \cup AnyValues \cup AnyIndices \cup AnyLengths
    PROVE  IsWord(n)
<1>1. n \in 0 .. 2^16 - 1
      BY RequestsAssumption
<1> QED BY <1>1, SMTT(40) DEF IsWord

LEMMA RequestsAsk ==
    ASSUME NEW packet \in StdRequests \cup AnyRequests
    PROVE  Asks(packet)
<1>0. /\ IN_STD \in Byte /\ OUT_STD \in Byte /\ \h81 \in Byte
      /\ OUT_VENDOR \in Byte /\ IN_VENDOR \in Byte /\ \h21 \in Byte /\ \hC1 \in Byte
      /\ GET_DESCRIPTOR \in Byte /\ SET_CONFIGURATION \in Byte /\ CMD_GET_FW_VERSION \in Byte
      /\ CMD_START \in Byte /\ CMD_GET_REVID_VERSION \in Byte /\ IsWord(0)
      BY DEF IN_STD, OUT_STD, OUT_VENDOR, IN_VENDOR, GET_DESCRIPTOR, SET_CONFIGURATION,
             CMD_GET_FW_VERSION, CMD_START, CMD_GET_REVID_VERSION, Byte, IsWord
<1>1. CASE packet \in StdRequests
  <2>1. PICK t \in {IN_STD, OUT_STD, \h81}, r \in {GET_DESCRIPTOR, SET_CONFIGURATION},
             v \in StdValues, l \in StdLengths : packet = Packet(t, r, v, 0, l)
        BY <1>1 DEF StdRequests
  <2>2. IsWord(v) /\ IsWord(l)
        BY WordRange
  <2>3. t \in Byte /\ r \in Byte
        BY <1>0
  <2> QED BY <1>0, <2>1, <2>2, <2>3 DEF Asks, IsWord
<1>2. CASE packet \in AnyRequests
  <2>1. PICK t \in {OUT_VENDOR, IN_VENDOR, \h21, \hC1},
             r \in {CMD_GET_FW_VERSION, CMD_START, CMD_GET_REVID_VERSION, GET_DESCRIPTOR},
             v \in AnyValues, i \in AnyIndices, l \in AnyLengths :
                packet = Packet(t, r, v, i, l)
        BY <1>2 DEF AnyRequests
  <2>2. IsWord(v) /\ IsWord(i) /\ IsWord(l)
        BY WordRange
  <2>3. t \in Byte /\ r \in Byte
        BY <1>0
  <2> QED BY <2>1, <2>2, <2>3 DEF Asks, IsWord
<1> QED BY <1>1, <1>2

LEMMA PacketThere ==
    ASSUME NEW p, Asks(p)
    PROVE  p # <<>>
<1>1. PICK t \in Byte, r \in Byte, v \in Nat, i \in Nat, n \in Nat :
          IsWord(v) /\ IsWord(i) /\ IsWord(n) /\ p = Packet(t, r, v, i, n)
      BY DEF Asks
<1>2. Len(p) = 8
      BY <1>1, PacketBytes DEF Bytes
<1>3. Len(<<>>) = 0
      OBVIOUS
<1> QED BY <1>2, <1>3, SMTT(40)

LEMMA DataSend ==
    ASSUME DataInv, NEW packet, NEW enumerating \in BOOLEAN, Send(packet, enumerating),
           Asks(packet), enumerating => stage # "configured" /\ packet = EnumerationRequest
    PROVE  DataInv'
<1>1. /\ setup = <<>> /\ setup' = packet /\ asked' = enumerating /\ packet # <<>>
      /\ UNCHANGED <<speed, count, answer, ep, stage, heard>>
      BY PacketThere DEF Send
<1>2. EnumerationRequest' = EnumerationRequest /\ After(stage)' = After(stage)
      BY <1>1, StageKept
<1>3. answer = Idle
      BY <1>1 DEF DataInv, AnswerInv
<1>4. answer' = Idle
      BY <1>1, <1>3
<1>5. AnswerInv' /\ HearsInv'
      BY <1>4 DEF AnswerInv, HearsInv, Idle
<1>6. EpFits'
      BY <1>1 DEF DataInv, EpFits
<1>7. AskedInv'
      BY <1>1, <1>2 DEF AskedInv
<1> QED BY <1>1, <1>5, <1>6, <1>7 DEF DataInv

LEMMA GetIsAsked ==
    ASSUME NEW type \in Byte, NEW no \in Byte, NEW n, IsWord(n)
    PROVE  Asks(Get(type, no, n))
<1> DEFINE v == 256 * type + no
<1>1. v \in Nat /\ v < 2^16
      BY DEF Byte
<1>2. Get(type, no, n) = Packet(IN_STD, GET_DESCRIPTOR, v, 0, n)
      BY DEF Get
<1> HIDE DEF v
<1>3. IN_STD \in Byte /\ GET_DESCRIPTOR \in Byte /\ IsWord(v) /\ IsWord(0)
      BY <1>1 DEF IN_STD, GET_DESCRIPTOR, Byte, IsWord
<1> QED BY <1>2, <1>3 DEF Asks, IsWord

LEMMA EnumerationIsAsked ==
    ASSUME Heard(stage, heard), stage \in Stages, stage # "configured"
    PROVE  Asks(EnumerationRequest)
<1>0. /\ 0 \in Byte /\ IsWord(8) /\ IsWord(64) /\ IsWord(18) /\ IsWord(255)
      /\ IsWord(5) /\ IsWord(9) /\ IsWord(31)
      BY DEF Byte, IsWord
<1>1. CASE stage = "device"
  <2>1. IsWord(IF speed = "SS" THEN 8 ELSE 64)
        BY <1>0
  <2> QED BY <1>0, <1>1, <2>1, StageRequests, GetIsAsked, TypesAreBytes
<1>2. CASE stage = "wholeDevice"
  <2>1. heard[1] = 18
        BY <1>2 DEF Heard
  <2> QED BY <1>0, <1>2, <2>1, StageRequests, GetIsAsked, TypesAreBytes
<1>3. CASE stage = "language"
      BY <1>0, <1>3, StageRequests, GetIsAsked, TypesAreBytes
<1>4. CASE stage = "string"
  <2>1. heard \in Seq(Byte) /\ Len(heard) >= 16
        BY <1>4 DEF Heard
  <2>2. heard[16] \in Byte
        BY <2>1
  <2> QED BY <1>0, <1>4, <2>2, StageRequests, GetIsAsked, TypesAreBytes
<1>5. CASE stage = "bos"
      BY <1>0, <1>5, StageRequests, GetIsAsked, TypesAreBytes
<1>6. CASE stage = "wholeBos"
  <2>1. heard \in Seq(Byte) /\ 3 < Len(heard)
        BY <1>6 DEF Heard
  <2>2. IsWord(WordAt(heard, 3))
        BY <2>1, WordOfBytes
  <2> QED BY <1>0, <1>6, <2>2, StageRequests, GetIsAsked, TypesAreBytes
<1>7. CASE stage = "configuration"
      BY <1>0, <1>7, StageRequests, GetIsAsked, TypesAreBytes
<1>8. CASE stage = "wholeConfiguration"
  <2>1. WordAt(heard, 3) = 31
        BY <1>8 DEF Heard
  <2> QED BY <1>0, <1>8, <2>1, StageRequests, GetIsAsked, TypesAreBytes
<1>9. CASE stage = "configure"
  <2>1. heard \in Seq(Byte) /\ Len(heard) >= 6
        BY <1>9 DEF Heard
  <2>2. heard[6] \in Byte
        BY <2>1
  <2>3. /\ OUT_STD \in Byte /\ SET_CONFIGURATION \in Byte /\ IsWord(heard[6]) /\ IsWord(0)
        BY <2>2 DEF OUT_STD, SET_CONFIGURATION, Byte, IsWord
  <2>4. EnumerationRequest = Packet(OUT_STD, SET_CONFIGURATION, heard[6], 0, 0)
        BY <1>9, StageRequests
  <2> QED BY <2>3, <2>4 DEF Asks, IsWord
<1> QED BY <1>1, <1>2, <1>3, <1>4, <1>5, <1>6, <1>7, <1>8, <1>9 DEF Stages

LEMMA DataTake ==
    ASSUME DataInv, Take
    PROVE  DataInv'
<1>1. /\ answer # Idle /\ setup' = <<>> /\ answer' = Idle /\ asked' = FALSE
      /\ UNCHANGED <<speed, ep>>
      BY DEF Take
<1>2. stage' \in Stages /\ Heard(stage, heard)'
  <2>1. CASE asked /\ answer.kind # "stall"
    <3>1. stage' = After(stage) /\ heard' = answer.bytes
          BY <2>1 DEF Take
    <3>2. After(stage) \in Stages /\ Heard(After(stage), answer.bytes)
          BY <1>1, <2>1 DEF DataInv, HearsInv
    <3> QED BY <3>1, <3>2
  <2>2. CASE ~(asked /\ answer.kind # "stall")
    <3>1. stage' = stage /\ heard' = heard
          BY <2>2 DEF Take
    <3> QED BY <3>1 DEF DataInv
  <2> QED BY <2>1, <2>2
<1>3. AnswerInv' /\ AskedInv' /\ HearsInv'
      BY <1>1 DEF AnswerInv, AskedInv, HearsInv
<1>4. EpFits'
      BY <1>1 DEF DataInv, EpFits
<1> QED BY <1>1, <1>2, <1>3, <1>4 DEF DataInv

LEMMA DataFallBack ==
    ASSUME DataInv, FallBack
    PROVE  DataInv'
<1>1. /\ setup' = <<>> /\ answer' = Idle /\ asked' = FALSE /\ speed' = "HS"
      /\ stage' = "device" /\ heard' = <<>> /\ UNCHANGED ep
      BY DEF FallBack
<1>2. stage' \in Stages /\ Heard(stage, heard)'
      BY <1>1 DEF Heard, Stages
<1>3. AnswerInv' /\ AskedInv' /\ HearsInv'
      BY <1>1 DEF AnswerInv, AskedInv, HearsInv
<1>4. EpFits'
      BY <1>1 DEF DataInv, EpFits
<1> QED BY <1>1, <1>2, <1>3, <1>4 DEF DataInv

LEMMA DataInit ==
    ASSUME Init
    PROVE  DataInv
<1>1. /\ speed = "SS" /\ setup = <<>> /\ answer = Idle /\ ep = NoEp
      /\ stage = "device" /\ heard = <<>> /\ asked = FALSE
      BY DEF Init
<1>2. EpFits
  <2>1. ep.payload = 0 /\ ep.packet_size = 0
        BY <1>1 DEF NoEp
  <2>2. 0 \in 0 .. 2^10 - 1 /\ 0 \in 0 .. 2^11 - 1
        OBVIOUS
  <2> QED BY <2>1, <2>2 DEF EpFits
<1>3. stage \in Stages /\ Heard(stage, heard)
      BY <1>1 DEF Heard, Stages
<1>4. AnswerInv /\ AskedInv /\ HearsInv
      BY <1>1 DEF AnswerInv, AskedInv, HearsInv
<1> QED BY <1>1, <1>2, <1>3, <1>4 DEF DataInv

LEMMA DataSteps ==
    ASSUME DataInv, Next
    PROVE  DataInv'
<1>1. CASE Handle
      BY <1>1, DataHandle
<1>2. CASE Request
  <2>1. PICK packet \in StdRequests \cup AnyRequests : Send(packet, FALSE)
        BY <1>2 DEF Request
  <2>2. Asks(packet)
        BY <2>1, RequestsAsk
  <2> QED BY <2>1, <2>2, DataSend
<1>3. CASE Enumerate
  <2>1. stage # "configured" /\ Send(EnumerationRequest, TRUE)
        BY <1>3 DEF Enumerate
  <2>2. Asks(EnumerationRequest)
        BY <2>1, EnumerationIsAsked DEF DataInv
  <2> QED BY <2>1, <2>2, DataSend
<1>4. CASE Take
      BY <1>4, DataTake
<1>5. CASE FallBack
      BY <1>5, DataFallBack
<1> QED BY <1>1, <1>2, <1>3, <1>4, <1>5 DEF Next

(***************************************************************************)
(* Every request in the SETUP registers is a packet of eight bytes, the     *)
(* answer fits its direction and length, and what the enumeration has heard *)
(* is what its next request goes by (main.c:24-137, usb.c:370-384).         *)
(***************************************************************************)
THEOREM AnswersFollowed == MCSpec => []DataInv
<1>1. MCInit => DataInv
      BY DataInit DEF MCInit
<1>2. DataInv /\ [MCNext]_<<part, vars, linkVars>> => DataInv'
  <2> SUFFICES ASSUME DataInv, [MCNext]_<<part, vars, linkVars>> PROVE DataInv'
      OBVIOUS
  <2>1. Next \/ UNCHANGED vars
        BY DEF MCNext
  <2> QED BY <2>1, DataSteps, DataStutters
<1> QED BY <1>1, <1>2, PTL DEF MCSpec

(***************************************************************************)
(* Every byte of a data stage is one of the descriptor or of DmaBuf, and    *)
(* the stage has the direction and no more than the length the host asked   *)
(* for, whatever programs on the host send and at either speed              *)
(* (usb.c:370-384, 481-498, main.c:24-86, 112-124).                         *)
(***************************************************************************)
THEOREM DataStagesFit == MCSpec => []DataStageOfTheObject
<1>1. DataInv => DataStageOfTheObject
      BY DataInvFits
<1> QED BY <1>1, AnswersFollowed, PTL

-----------------------------------------------------------------------------
(***************************************************************************)
(* Walking through a descriptor.  Walk is defined by recursion: that there  *)
(* is such a function for any bytes is shown by induction on how far from   *)
(* the end the walk starts, where a set of numbers takes the place of the   *)
(* predicate.                                                               *)
(***************************************************************************)
Less == {p \in Nat \X Nat : p[1] < p[2]}

LEMMA LessIsWellFounded == IsWellFoundedOn(Less, Nat)
<1>1. Less = OpToRel(<, Nat)
      BY DEF Less, OpToRel
<1> QED BY <1>1, NatLessThanWellFounded

LEMMA AllOfNat ==
    ASSUME NEW S, 0 \in S, \A n \in Nat : n \in S => n + 1 \in S
    PROVE  \A n \in Nat : n \in S
<1> DEFINE T == Nat \ S
<1>1. SUFFICES ASSUME T # {} PROVE FALSE
      OBVIOUS
<1>2. T \subseteq Nat
      OBVIOUS
<1> HIDE DEF T
<1>3. PICK x \in T : \A y \in T : ~(<<y, x>> \in Less)
      BY <1>1, <1>2, LessIsWellFounded, WFMin
<1>4. x \in Nat /\ x \notin S
      BY <1>3 DEF T
<1>5. x - 1 \in Nat
      BY <1>4
<1>6. <<x - 1, x>> \in Less
      BY <1>4, <1>5 DEF Less
<1>7. x - 1 \in S
      BY <1>3, <1>5, <1>6 DEF T
<1>8. (x - 1) + 1 \in S
      BY <1>5, <1>7
<1>9. (x - 1) + 1 = x
      BY <1>4
<1> QED BY <1>4, <1>8, <1>9

IsWalk(f, bytes) == f = [i \in 1 .. (Len(bytes) + 1) |-> WalkFrom(f, bytes, i)]

LEMMA WalkDefined ==
    ASSUME NEW bytes, \E f : IsWalk(f, bytes)
    PROVE  \E f : IsWalk(f, bytes) /\ Walk(bytes) = f[1]
<1> DEFINE f == CHOOSE g : IsWalk(g, bytes)
<1>1. IsWalk(f, bytes)
      OBVIOUS
<1>2. Walk(bytes) = f[1]
      BY DEF Walk, IsWalk
<1> QED BY <1>1, <1>2

LEMMA LengthsAre ==
    /\ DOMAIN LengthsOfType = {DEVICE, CONFIGURATION, INTERFACE, ENDPOINT, BOS, DEV_CAPABILITY,
                               SS_EP_COMPANION}
    /\ LengthsOfType[DEVICE] = {18} /\ LengthsOfType[CONFIGURATION] = {9}
    /\ LengthsOfType[INTERFACE] = {9} /\ LengthsOfType[ENDPOINT] = {7} /\ LengthsOfType[BOS] = {5}
    /\ LengthsOfType[DEV_CAPABILITY] = {7, 10} /\ LengthsOfType[SS_EP_COMPANION] = {6}
<1> DEFINE T == {DEVICE, CONFIGURATION, INTERFACE, ENDPOINT, BOS, DEV_CAPABILITY,
                 SS_EP_COMPANION}
<1>1. DOMAIN LengthsOfType = T
      BY DEF LengthsOfType
<1>2. LengthsOfType[DEVICE] = {18}
      BY DEF LengthsOfType, DEVICE, CONFIGURATION, INTERFACE, ENDPOINT, BOS, DEV_CAPABILITY,
             SS_EP_COMPANION
<1>3. LengthsOfType[CONFIGURATION] = {9}
      BY DEF LengthsOfType, DEVICE, CONFIGURATION, INTERFACE, ENDPOINT, BOS, DEV_CAPABILITY,
             SS_EP_COMPANION
<1>4. LengthsOfType[INTERFACE] = {9}
      BY DEF LengthsOfType, DEVICE, CONFIGURATION, INTERFACE, ENDPOINT, BOS, DEV_CAPABILITY,
             SS_EP_COMPANION
<1>5. LengthsOfType[ENDPOINT] = {7}
      BY DEF LengthsOfType, DEVICE, CONFIGURATION, INTERFACE, ENDPOINT, BOS, DEV_CAPABILITY,
             SS_EP_COMPANION
<1>6. LengthsOfType[BOS] = {5}
      BY DEF LengthsOfType, DEVICE, CONFIGURATION, INTERFACE, ENDPOINT, BOS, DEV_CAPABILITY,
             SS_EP_COMPANION
<1>7. LengthsOfType[DEV_CAPABILITY] = {7, 10}
      BY DEF LengthsOfType, DEVICE, CONFIGURATION, INTERFACE, ENDPOINT, BOS, DEV_CAPABILITY,
             SS_EP_COMPANION
<1>8. LengthsOfType[SS_EP_COMPANION] = {6}
      BY DEF LengthsOfType, DEVICE, CONFIGURATION, INTERFACE, ENDPOINT, BOS, DEV_CAPABILITY,
             SS_EP_COMPANION
<1> QED BY <1>1, <1>2, <1>3, <1>4, <1>5, <1>6, <1>7, <1>8

\* A part takes the walk forward, and not beyond the end.
LEMMA PartGoesOn ==
    ASSUME NEW bytes \in Seq(Byte), NEW i \in 1 .. (Len(bytes) + 1), PartAt(bytes, i)
    PROVE  i + bytes[i] \in 1 .. (Len(bytes) + 1) /\ i < i + bytes[i]
<1>1. /\ bytes[i + 1] \in DOMAIN LengthsOfType
      /\ bytes[i] \in LengthsOfType[bytes[i + 1]] /\ i + bytes[i] <= Len(bytes) + 1
      BY DEF PartAt
<1>2. bytes[i] \in {5, 6, 7, 9, 10, 18}
  <2> DEFINE t == bytes[i + 1]
             n == bytes[i]
  <2>1. t \in {DEVICE, CONFIGURATION, INTERFACE, ENDPOINT, BOS, DEV_CAPABILITY,
               SS_EP_COMPANION} /\ n \in LengthsOfType[t]
        BY <1>1, LengthsAre
  <2> HIDE DEF t, n
  <2>2. n \in {5, 6, 7, 9, 10, 18}
        BY <2>1, LengthsAre
  <2> QED BY <2>2 DEF n
<1>3. Len(bytes) \in Nat
      OBVIOUS
<1> QED BY <1>1, <1>2, <1>3

LEMMA SameWalkFrom ==
    ASSUME NEW bytes \in Seq(Byte), NEW i \in 1 .. (Len(bytes) + 1), NEW f, NEW g,
           \A j \in 1 .. (Len(bytes) + 1) : i < j => f[j] = g[j]
    PROVE  WalkFrom(f, bytes, i) = WalkFrom(g, bytes, i)
<1>1. CASE i = Len(bytes) + 1
  <2>1. ~PartAt(bytes, i)
    <3>1. Len(bytes) \in Nat
          OBVIOUS
    <3> QED BY <1>1, <3>1 DEF PartAt
  <2> QED BY <1>1, <2>1 DEF WalkFrom
<1>2. CASE i # Len(bytes) + 1 /\ PartAt(bytes, i)
  <2>1. f[i + bytes[i]] = g[i + bytes[i]]
        BY <1>2, PartGoesOn
  <2>2. /\ WalkFrom(f, bytes, i) = <<bytes[i + 1]>> \o f[i + bytes[i]]
        /\ WalkFrom(g, bytes, i) = <<bytes[i + 1]>> \o g[i + bytes[i]]
        BY <1>2 DEF WalkFrom
  <2> QED BY <2>1, <2>2
<1>3. CASE i # Len(bytes) + 1 /\ ~PartAt(bytes, i)
      BY <1>3 DEF WalkFrom
<1> QED BY <1>1, <1>2, <1>3

LEMMA WalkExists ==
    ASSUME NEW bytes \in Seq(Byte)
    PROVE  \E f : IsWalk(f, bytes)
<1> DEFINE N == Len(bytes) + 1
           Last(f, k) == /\ f = [i \in 1 .. N |-> f[i]]
                         /\ \A i \in 1 .. N : N - k < i => f[i] = WalkFrom(f, bytes, i)
           S == {k \in Nat : \E f : Last(f, k)}
<1>1. N \in Nat
      OBVIOUS
<1>2. 0 \in S
  <2> DEFINE f == [i \in 1 .. N |-> <<>>]
  <2>1. f = [i \in 1 .. N |-> f[i]]
        OBVIOUS
  <2>2. \A i \in 1 .. N : ~(N - 0 < i)
        BY <1>1
  <2> HIDE DEF f, N
  <2>3. Last(f, 0)
        BY <2>1, <2>2
  <2> QED BY <2>3
<1>3. ASSUME NEW k \in Nat, k \in S PROVE k + 1 \in S
  <2>1. PICK f : Last(f, k)
        BY <1>3
  <2>2. CASE k >= N
    <3>1. \A i \in 1 .. N : N - k < i
          BY <1>1, <2>2
    <3> HIDE DEF N
    <3>2. Last(f, k + 1)
          BY <2>1, <3>1
    <3> HIDE DEF Last
    <3>9. \E h : Last(h, k + 1)
          BY <3>2
    <3>10. k + 1 \in Nat
          OBVIOUS
    <3> QED BY <3>9, <3>10
  <2>3. CASE k < N
    <3> DEFINE m == N - k
               g == [i \in 1 .. N |-> IF i = m THEN WalkFrom(f, bytes, m) ELSE f[i]]
    <3>1. m \in 1 .. N
          BY <1>1, <2>3
    <3>2. \A i \in 1 .. N : N - (k + 1) < i => i = m \/ N - k < i
          BY <1>1
    <3>3. ASSUME NEW i \in 1 .. N, N - (k + 1) < i PROVE g[i] = WalkFrom(g, bytes, i)
      <4>1. \A j \in 1 .. N : i < j => f[j] = g[j]
            BY <1>1, <3>3
      <4>2. WalkFrom(f, bytes, i) = WalkFrom(g, bytes, i)
            BY <4>1, SameWalkFrom
      <4>3. g[i] = WalkFrom(f, bytes, i)
        <5>1. CASE i = m
              BY <5>1
        <5>2. CASE i # m
          <6>1. N - k < i
                BY <3>2, <3>3, <5>2
          <6>2. f[i] = WalkFrom(f, bytes, i)
                BY <2>1, <6>1
          <6> QED BY <5>2, <6>2
        <5> QED BY <5>1, <5>2
      <4> QED BY <4>2, <4>3
    <3>4. g = [i \in 1 .. N |-> g[i]]
          OBVIOUS
    <3> HIDE DEF N, g
    <3>5. Last(g, k + 1)
          BY <3>3, <3>4
    <3> HIDE DEF Last
    <3>9. \E h : Last(h, k + 1)
          BY <3>5
    <3>10. k + 1 \in Nat
          OBVIOUS
    <3> QED BY <3>9, <3>10
  <2> QED BY <1>1, <2>2, <2>3
<1> HIDE DEF S
<1>4. N \in S
      BY <1>1, <1>2, <1>3, AllOfNat
<1>5. PICK f : Last(f, N)
      BY <1>4 DEF S
<1>6. \A i \in 1 .. N : N - N < i
      BY <1>1
<1>7. f = [i \in 1 .. N |-> f[i]] /\ \A i \in 1 .. N : f[i] = WalkFrom(f, bytes, i)
      BY <1>5, <1>6
<1>8. f = [i \in 1 .. N |-> WalkFrom(f, bytes, i)]
      BY <1>7
<1> QED BY <1>8 DEF IsWalk

\* The parts of a walk, one by one.
Then(type, walk) == <<type>> \o walk

Walks(f, bytes) ==
    \A i \in 1 .. Len(bytes) : PartAt(bytes, i) => f[i] = Then(bytes[i + 1], f[i + bytes[i]])

LEMMA WalkSteps ==
    ASSUME NEW bytes \in Seq(Byte)
    PROVE  \E f : Walk(bytes) = f[1] /\ f[Len(bytes) + 1] = <<>> /\ Walks(f, bytes)
<1>1. PICK f : IsWalk(f, bytes) /\ Walk(bytes) = f[1]
      BY WalkExists, WalkDefined
<1>2. Len(bytes) \in Nat
      OBVIOUS
<1>3. \A i \in 1 .. (Len(bytes) + 1) : f[i] = WalkFrom(f, bytes, i)
      BY <1>1 DEF IsWalk
<1>4. f[Len(bytes) + 1] = <<>>
  <2>1. Len(bytes) + 1 \in 1 .. (Len(bytes) + 1) /\ ~PartAt(bytes, Len(bytes) + 1)
        BY <1>2 DEF PartAt
  <2>2. WalkFrom(f, bytes, Len(bytes) + 1) = <<>>
        BY <2>1 DEF WalkFrom
  <2> QED BY <1>3, <2>1, <2>2
<1>5. ASSUME NEW i \in 1 .. Len(bytes), PartAt(bytes, i)
      PROVE  f[i] = Then(bytes[i + 1], f[i + bytes[i]])
  <2>1. i \in 1 .. (Len(bytes) + 1) /\ i # Len(bytes) + 1
        BY <1>2
  <2>2. WalkFrom(f, bytes, i) = <<bytes[i + 1]>> \o f[i + bytes[i]]
        BY <1>5, <2>1 DEF WalkFrom
  <2>3. WalkFrom(f, bytes, i) = Then(bytes[i + 1], f[i + bytes[i]])
        BY <2>2 DEF Then
  <2> QED BY <1>3, <2>1, <2>3
<1> QED BY <1>1, <1>4, <1>5 DEF Walks

LEMMA ThenNone ==
    ASSUME NEW a
    PROVE  Then(a, <<>>) = <<a>>
<1> DEFINE S == {a}
           p == <<a>>
           w == <<>>
           r == <<a>>
           all == p \o w
<1>1. p \in Seq(S) /\ Len(p) = 1 /\ p[1] = a
      OBVIOUS
<1>2. w \in Seq(S) /\ Len(w) = 0
      OBVIOUS
<1>3. r \in Seq(S) /\ Len(r) = 1 /\ r[1] = a
      OBVIOUS
<1> HIDE DEF p, w, r, S
<1>4. /\ all \in Seq(S) /\ Len(all) = 1 + 0
      /\ \A i \in 1 .. 1 + 0 : all[i] = IF i <= 1 THEN p[i] ELSE w[i - 1]
  <2>1. /\ all \in Seq(S) /\ Len(all) = Len(p) + Len(w)
        /\ \A i \in 1 .. Len(p) + Len(w) : all[i] = IF i <= Len(p) THEN p[i] ELSE w[i - Len(p)]
        BY <1>1, <1>2, ConcatProperties
  <2> HIDE DEF all
  <2> QED BY <1>1, <1>2, <2>1
<1> HIDE DEF all
<1>5. all[1] = a
      BY <1>1, <1>2, <1>4
<1>6. \A i \in 1 .. Len(all) : all[i] = r[i]
      BY <1>3, <1>4, <1>5
<1>7. all = r
      BY <1>3, <1>4, <1>6, SeqEqual
<1> QED BY <1>7 DEF Then, all, p, w, r

LEMMA ThenOne ==
    ASSUME NEW a, NEW b
    PROVE  Then(a, <<b>>) = <<a, b>>
<1> DEFINE S == {a, b}
           p == <<a>>
           w == <<b>>
           r == <<a, b>>
           all == p \o w
<1>1. p \in Seq(S) /\ Len(p) = 1 /\ p[1] = a
      OBVIOUS
<1>2. w \in Seq(S) /\ Len(w) = 1 /\ w[1] = b
      OBVIOUS
<1>3. r \in Seq(S) /\ Len(r) = 2 /\ r[1] = a /\ r[2] = b
      OBVIOUS
<1> HIDE DEF p, w, r, S
<1>4. /\ all \in Seq(S) /\ Len(all) = 1 + 1
      /\ \A i \in 1 .. 1 + 1 : all[i] = IF i <= 1 THEN p[i] ELSE w[i - 1]
  <2>1. /\ all \in Seq(S) /\ Len(all) = Len(p) + Len(w)
        /\ \A i \in 1 .. Len(p) + Len(w) : all[i] = IF i <= Len(p) THEN p[i] ELSE w[i - Len(p)]
        BY <1>1, <1>2, ConcatProperties
  <2> HIDE DEF all
  <2> QED BY <1>1, <1>2, <2>1
<1> HIDE DEF all
<1>5. all[1] = a /\ all[2] = b
      BY <1>1, <1>2, <1>4
<1>6. \A i \in 1 .. Len(all) : all[i] = r[i]
      BY <1>3, <1>4, <1>5
<1>7. all = r
      BY <1>3, <1>4, <1>6, SeqEqual
<1> QED BY <1>7 DEF Then, all, p, w, r

LEMMA ThenTwo ==
    ASSUME NEW a, NEW b, NEW c
    PROVE  Then(a, <<b, c>>) = <<a, b, c>>
<1> DEFINE S == {a, b, c}
           p == <<a>>
           w == <<b, c>>
           r == <<a, b, c>>
           all == p \o w
<1>1. p \in Seq(S) /\ Len(p) = 1 /\ p[1] = a
      OBVIOUS
<1>2. w \in Seq(S) /\ Len(w) = 2 /\ w[1] = b /\ w[2] = c
      OBVIOUS
<1>3. r \in Seq(S) /\ Len(r) = 3 /\ r[1] = a /\ r[2] = b /\ r[3] = c
      OBVIOUS
<1> HIDE DEF p, w, r, S
<1>4. /\ all \in Seq(S) /\ Len(all) = 1 + 2
      /\ \A i \in 1 .. 1 + 2 : all[i] = IF i <= 1 THEN p[i] ELSE w[i - 1]
  <2>1. /\ all \in Seq(S) /\ Len(all) = Len(p) + Len(w)
        /\ \A i \in 1 .. Len(p) + Len(w) : all[i] = IF i <= Len(p) THEN p[i] ELSE w[i - Len(p)]
        BY <1>1, <1>2, ConcatProperties
  <2> HIDE DEF all
  <2> QED BY <1>1, <1>2, <2>1
<1> HIDE DEF all
<1>5. all[1] = a /\ all[2] = b /\ all[3] = c
      BY <1>1, <1>2, <1>4
<1>6. \A i \in 1 .. Len(all) : all[i] = r[i]
      BY <1>3, <1>4, <1>5
<1>7. all = r
      BY <1>3, <1>4, <1>6, SeqEqual
<1> QED BY <1>7 DEF Then, all, p, w, r

LEMMA ThenThree ==
    ASSUME NEW a, NEW b, NEW c, NEW d
    PROVE  Then(a, <<b, c, d>>) = <<a, b, c, d>>
<1> DEFINE S == {a, b, c, d}
           p == <<a>>
           w == <<b, c, d>>
           r == <<a, b, c, d>>
           all == p \o w
<1>1. p \in Seq(S) /\ Len(p) = 1 /\ p[1] = a
      OBVIOUS
<1>2. w \in Seq(S) /\ Len(w) = 3 /\ w[1] = b /\ w[2] = c /\ w[3] = d
      OBVIOUS
<1>3. r \in Seq(S) /\ Len(r) = 4 /\ r[1] = a /\ r[2] = b /\ r[3] = c /\ r[4] = d
      OBVIOUS
<1> HIDE DEF p, w, r, S
<1>4. /\ all \in Seq(S) /\ Len(all) = 1 + 3
      /\ \A i \in 1 .. 1 + 3 : all[i] = IF i <= 1 THEN p[i] ELSE w[i - 1]
  <2>1. /\ all \in Seq(S) /\ Len(all) = Len(p) + Len(w)
        /\ \A i \in 1 .. Len(p) + Len(w) : all[i] = IF i <= Len(p) THEN p[i] ELSE w[i - Len(p)]
        BY <1>1, <1>2, ConcatProperties
  <2> HIDE DEF all
  <2> QED BY <1>1, <1>2, <2>1
<1> HIDE DEF all
<1>5. all[1] = a /\ all[2] = b /\ all[3] = c /\ all[4] = d
      BY <1>1, <1>2, <1>4
<1>6. \A i \in 1 .. Len(all) : all[i] = r[i]
      BY <1>3, <1>4, <1>5
<1>7. all = r
      BY <1>3, <1>4, <1>6, SeqEqual
<1> QED BY <1>7 DEF Then, all, p, w, r

\* Where the bytes of two sequences, and of the parts of a whole, are found.
Joined(c, a, n, b, m) == c = a \o b /\ Bytes(a, n) /\ Bytes(b, m)

LEMMA JoinedEarlier ==
    ASSUME NEW c, NEW a, NEW b, NEW n \in Nat, NEW m \in Nat, Joined(c, a, n, b, m)
    PROVE  \A j \in 1 .. n : c[j] = a[j]
<1>1. a \in Seq(Byte) /\ b \in Seq(Byte) /\ Len(a) = n /\ c = a \o b
      BY DEF Joined, Bytes
<1>2. \A j \in 1 .. n : (a \o b)[j] = a[j]
      BY <1>1, JoinOfSeq
<1> QED BY <1>1, <1>2

LEMMA JoinedLater ==
    ASSUME NEW c, NEW a, NEW b, NEW n \in Nat, NEW m \in Nat, Joined(c, a, n, b, m)
    PROVE  \A j \in 1 .. m : c[n + j] = b[j]
<1>1. a \in Seq(Byte) /\ b \in Seq(Byte) /\ Len(a) = n /\ Len(b) = m /\ c = a \o b
      BY DEF Joined, Bytes
<1>2. \A i \in 1 .. n + m : (a \o b)[i] = IF i <= n THEN a[i] ELSE b[i - n]
      BY <1>1, ConcatProperties
<1> DEFINE all == a \o b
<1>3. c = all
      BY <1>1
<1>4. \A i \in 1 .. n + m : all[i] = IF i <= n THEN a[i] ELSE b[i - n]
      BY <1>2
<1> HIDE DEF all
<1>5. ASSUME NEW j \in 1 .. m PROVE c[n + j] = b[j]
  <2>1. n + j \in 1 .. n + m /\ ~(n + j <= n) /\ (n + j) - n = j
        OBVIOUS
  <2> QED BY <1>3, <1>4, <2>1
<1> QED BY <1>5

IsWhole(d, type, fields, n, parts, m) ==
    d = Whole(type, fields, parts) /\ Bytes(fields, n) /\ Bytes(parts, m)

LEMMA WholeParts ==
    ASSUME NEW d, NEW type \in Byte, NEW fields, NEW parts, NEW n \in Nat, NEW m \in Nat,
           n <= 100, m <= 100, IsWhole(d, type, fields, n, parts, m)
    PROVE  \A j \in 1 .. m : d[n + 4 + j] = parts[j]
<1> DEFINE w == Word(Len(fields) + 4 + Len(parts))
           p == Part(type, w \o fields)
<1>1. d = p \o parts /\ Bytes(fields, n) /\ Bytes(parts, m)
      BY DEF IsWhole, Whole
<1>2. Len(fields) + 4 + Len(parts) = n + 4 + m
      BY <1>1 DEF Bytes
<1>3. n + 4 + m \in Nat /\ n + 4 + m < 2^16
      OBVIOUS
<1>4. Bytes(w, 2)
      BY <1>2, <1>3, WordBytes
<1> HIDE DEF w
<1>5. Bytes(w \o fields, 2 + n)
      BY <1>1, <1>4, JoinBytes
<1>6. Bytes(p, (2 + n) + 2)
  <2>1. 2 + n \in Nat /\ 2 + n <= 253
        OBVIOUS
  <2> QED BY <1>5, <2>1, PartBytes
<1> HIDE DEF p
<1> DEFINE k == n + 4
<1>7. k \in Nat /\ (2 + n) + 2 = k
      OBVIOUS
<1>8. Bytes(p, k)
      BY <1>6, <1>7
<1> HIDE DEF k
<1>9. k \in Nat
      BY <1>7
<1>10. Joined(d, p, k, parts, m)
      BY <1>1, <1>8 DEF Joined
<1>11. \A j \in 1 .. m : d[k + j] = parts[j]
      BY <1>9, <1>10, JoinedLater
<1> QED BY <1>11 DEF k

LEMMA InterfaceEndpoint ==
    ASSUME NEW c, NEW a, NEW b, Joined(c, a, 9, b, 7)
    PROVE  /\ c[1] = a[1] /\ c[2] = a[2]
           /\ c[10] = b[1] /\ c[11] = b[2]
<1> DEFINE n == 9
           m == 7
<1>1. n \in Nat /\ m \in Nat /\ Joined(c, a, n, b, m)
      OBVIOUS
<1>2. n = 9 /\ m = 7
      OBVIOUS
<1> HIDE DEF n, m
<1>3. \A j \in 1 .. n : c[j] = a[j]
      BY <1>1, JoinedEarlier
<1>4. \A j \in 1 .. m : c[n + j] = b[j]
      BY <1>1, JoinedLater
<1> QED BY <1>2, <1>3, <1>4

LEMMA EndpointCompanion ==
    ASSUME NEW c, NEW a, NEW b, Joined(c, a, 16, b, 6)
    PROVE  /\ c[1] = a[1] /\ c[2] = a[2] /\ c[10] = a[10] /\ c[11] = a[11]
           /\ c[17] = b[1] /\ c[18] = b[2]
<1> DEFINE n == 16
           m == 6
<1>1. n \in Nat /\ m \in Nat /\ Joined(c, a, n, b, m)
      OBVIOUS
<1>2. n = 16 /\ m = 6
      OBVIOUS
<1> HIDE DEF n, m
<1>3. \A j \in 1 .. n : c[j] = a[j]
      BY <1>1, JoinedEarlier
<1>4. \A j \in 1 .. m : c[n + j] = b[j]
      BY <1>1, JoinedLater
<1> QED BY <1>2, <1>3, <1>4

LEMMA TwoCapabilities ==
    ASSUME NEW c, NEW a, NEW b, Joined(c, a, 7, b, 10)
    PROVE  /\ c[1] = a[1] /\ c[2] = a[2]
           /\ c[8] = b[1] /\ c[9] = b[2]
<1> DEFINE n == 7
           m == 10
<1>1. n \in Nat /\ m \in Nat /\ Joined(c, a, n, b, m)
      OBVIOUS
<1>2. n = 7 /\ m = 10
      OBVIOUS
<1> HIDE DEF n, m
<1>3. \A j \in 1 .. n : c[j] = a[j]
      BY <1>1, JoinedEarlier
<1>4. \A j \in 1 .. m : c[n + j] = b[j]
      BY <1>1, JoinedLater
<1> QED BY <1>2, <1>3, <1>4

LEMMA PartsOfConfiguration ==
    ASSUME NEW d, NEW fields, NEW parts, IsWhole(d, CONFIGURATION, fields, 5, parts, 22)
    PROVE  /\ d[10] = parts[1] /\ d[11] = parts[2] /\ d[19] = parts[10] /\ d[20] = parts[11] 
           /\ d[26] = parts[17] /\ d[27] = parts[18]
<1> DEFINE n == 5
           m == 22
<1>1. /\ n \in Nat /\ m \in Nat /\ n <= 100 /\ m <= 100 /\ CONFIGURATION \in Byte
      /\ IsWhole(d, CONFIGURATION, fields, n, parts, m)
      BY TypesAreBytes
<1>2. n = 5 /\ m = 22
      OBVIOUS
<1> HIDE DEF n, m
<1>3. \A j \in 1 .. m : d[n + 4 + j] = parts[j]
      BY <1>1, WholeParts
<1> QED BY <1>2, <1>3

LEMMA PartsOfBos ==
    ASSUME NEW d, NEW fields, NEW parts, IsWhole(d, BOS, fields, 1, parts, 17)
    PROVE  d[6] = parts[1] /\ d[7] = parts[2] /\ d[13] = parts[8] /\ d[14] = parts[9]
<1> DEFINE n == 1
           m == 17
<1>1. /\ n \in Nat /\ m \in Nat /\ n <= 100 /\ m <= 100 /\ BOS \in Byte
      /\ IsWhole(d, BOS, fields, n, parts, m)
      BY TypesAreBytes
<1>2. n = 1 /\ m = 17
      OBVIOUS
<1> HIDE DEF n, m
<1>3. \A j \in 1 .. m : d[n + 4 + j] = parts[j]
      BY <1>1, WholeParts
<1> QED BY <1>2, <1>3

LEMMA ConfigurationParts ==
    ASSUME NEW s
    PROVE  LET d == configuration_descriptor(s)
           IN  /\ d[10] = 9 /\ d[11] = INTERFACE /\ d[19] = 7 /\ d[20] = ENDPOINT
               /\ d[26] = 6 /\ d[27] = SS_EP_COMPANION
<1>1. PICK f, i, p, x :
         /\ configuration_descriptor(s) = Whole(CONFIGURATION, f, (i \o p) \o x)
         /\ Bytes(f, 5)
         /\ Bytes(i, 9) /\ i[1] = 9 /\ i[2] = INTERFACE
         /\ Bytes(p, 7) /\ p[1] = 7 /\ p[2] = ENDPOINT
         /\ Bytes(x, 6) /\ x[1] = 6 /\ x[2] = SS_EP_COMPANION
      BY ConfigurationPieces
<1> DEFINE ip == i \o p
           parts == ip \o x
           d == configuration_descriptor(s)
<1>2. Joined(ip, i, 9, p, 7) /\ Bytes(ip, 16)
  <2>1. Bytes(ip, 16)
        BY <1>1, JoinBytes
  <2> QED BY <1>1, <2>1 DEF Joined
<1>3. d = Whole(CONFIGURATION, f, parts)
      BY <1>1
<1> HIDE DEF ip
<1>4. Joined(parts, ip, 16, x, 6) /\ Bytes(parts, 22)
  <2>1. Bytes(parts, 22)
        BY <1>1, <1>2, JoinBytes
  <2> QED BY <1>1, <1>2, <2>1 DEF Joined
<1> HIDE DEF parts, d
<1>5. IsWhole(d, CONFIGURATION, f, 5, parts, 22)
      BY <1>1, <1>3, <1>4 DEF IsWhole
<1>6. ip[1] = i[1] /\ ip[2] = i[2] /\ ip[10] = p[1] /\ ip[11] = p[2]
      BY <1>2, InterfaceEndpoint
<1>7. /\ parts[1] = ip[1] /\ parts[2] = ip[2] /\ parts[10] = ip[10] /\ parts[11] = ip[11]
      /\ parts[17] = x[1] /\ parts[18] = x[2]
      BY <1>4, EndpointCompanion
<1>8. /\ d[10] = parts[1] /\ d[11] = parts[2] /\ d[19] = parts[10] /\ d[20] = parts[11]
      /\ d[26] = parts[17] /\ d[27] = parts[18]
      BY <1>5, PartsOfConfiguration
<1>9. /\ d[10] = 9 /\ d[11] = INTERFACE /\ d[19] = 7 /\ d[20] = ENDPOINT
      /\ d[26] = 6 /\ d[27] = SS_EP_COMPANION
      BY <1>1, <1>6, <1>7, <1>8
<1> QED BY <1>9 DEF d

LEMMA BosParts ==
    LET d == bos_descriptor
    IN  d[6] = 7 /\ d[7] = DEV_CAPABILITY /\ d[13] = 10 /\ d[14] = DEV_CAPABILITY
<1>1. PICK f, i, x : /\ bos_descriptor = Whole(BOS, f, i \o x)
                     /\ Bytes(f, 1)
                     /\ Bytes(i, 7) /\ i[1] = 7 /\ i[2] = DEV_CAPABILITY
                     /\ Bytes(x, 10) /\ x[1] = 10 /\ x[2] = DEV_CAPABILITY
      BY BosPieces
<1> DEFINE parts == i \o x
           d == bos_descriptor
<1>2. Joined(parts, i, 7, x, 10) /\ Bytes(parts, 17)
  <2>1. Bytes(parts, 17)
        BY <1>1, JoinBytes
  <2> QED BY <1>1, <2>1 DEF Joined
<1>3. d = Whole(BOS, f, parts)
      BY <1>1
<1> HIDE DEF parts, d
<1>4. IsWhole(d, BOS, f, 1, parts, 17)
      BY <1>1, <1>2, <1>3 DEF IsWhole
<1>5. parts[1] = i[1] /\ parts[2] = i[2] /\ parts[8] = x[1] /\ parts[9] = x[2]
      BY <1>2, TwoCapabilities
<1>6. d[6] = parts[1] /\ d[7] = parts[2] /\ d[13] = parts[8] /\ d[14] = parts[9]
      BY <1>4, PartsOfBos
<1>7. d[6] = 7 /\ d[7] = DEV_CAPABILITY /\ d[13] = 10 /\ d[14] = DEV_CAPABILITY
      BY <1>1, <1>5, <1>6
<1> QED BY <1>7 DEF d

\* The walks through the three descriptors, part by part.
LEMMA WalkDevice ==
    ASSUME NEW bytes, Bytes(bytes, 18), bytes[1] = 18, bytes[2] = DEVICE
    PROVE  Walk(bytes) = <<DEVICE>>
<1>1. bytes \in Seq(Byte) /\ Len(bytes) = 18
      BY DEF Bytes
<1>2. PICK f : Walk(bytes) = f[1] /\ f[Len(bytes) + 1] = <<>> /\ Walks(f, bytes)
      BY <1>1, WalkSteps
<1>3. f[19] = <<>>
      BY <1>1, <1>2
<1>4. f[1] = Then(DEVICE, f[19])
  <2>1. DEVICE \in DOMAIN LengthsOfType /\ 18 \in LengthsOfType[DEVICE]
        BY LengthsAre
  <2>2. /\ bytes[1 + 1] = DEVICE /\ bytes[1] = 18
        /\ 1 < Len(bytes) /\ 1 + bytes[1] <= Len(bytes) + 1
        BY <1>1
  <2>3. PartAt(bytes, 1)
        BY <2>1, <2>2 DEF PartAt
  <2>4. 1 \in 1 .. Len(bytes)
        BY <1>1
  <2>5. f[1] = Then(bytes[1 + 1], f[1 + bytes[1]])
        BY <1>2, <2>3, <2>4 DEF Walks
  <2> QED BY <2>2, <2>5
<1>5. f[1] = <<DEVICE>>
      BY <1>3, <1>4, ThenNone
<1> QED BY <1>2, <1>5

LEMMA WalkConfiguration ==
    ASSUME NEW bytes, Bytes(bytes, 31), bytes[1] = 9, bytes[2] = CONFIGURATION,
           bytes[10] = 9, bytes[11] = INTERFACE, bytes[19] = 7, bytes[20] = ENDPOINT,
           bytes[26] = 6, bytes[27] = SS_EP_COMPANION
    PROVE  Walk(bytes) = <<CONFIGURATION, INTERFACE, ENDPOINT, SS_EP_COMPANION>>
<1>1. bytes \in Seq(Byte) /\ Len(bytes) = 31
      BY DEF Bytes
<1>2. PICK f : Walk(bytes) = f[1] /\ f[Len(bytes) + 1] = <<>> /\ Walks(f, bytes)
      BY <1>1, WalkSteps
<1>3. f[32] = <<>>
      BY <1>1, <1>2
<1>4. f[26] = Then(SS_EP_COMPANION, f[32])
  <2>1. SS_EP_COMPANION \in DOMAIN LengthsOfType /\ 6 \in LengthsOfType[SS_EP_COMPANION]
        BY LengthsAre
  <2>2. /\ bytes[26 + 1] = SS_EP_COMPANION /\ bytes[26] = 6
        /\ 26 < Len(bytes) /\ 26 + bytes[26] <= Len(bytes) + 1
        BY <1>1
  <2>3. PartAt(bytes, 26)
        BY <2>1, <2>2 DEF PartAt
  <2>4. 26 \in 1 .. Len(bytes)
        BY <1>1
  <2>5. f[26] = Then(bytes[26 + 1], f[26 + bytes[26]])
        BY <1>2, <2>3, <2>4 DEF Walks
  <2> QED BY <2>2, <2>5
<1>5. f[26] = <<SS_EP_COMPANION>>
      BY <1>3, <1>4, ThenNone
<1>6. f[19] = Then(ENDPOINT, f[26])
  <2>1. ENDPOINT \in DOMAIN LengthsOfType /\ 7 \in LengthsOfType[ENDPOINT]
        BY LengthsAre
  <2>2. /\ bytes[19 + 1] = ENDPOINT /\ bytes[19] = 7
        /\ 19 < Len(bytes) /\ 19 + bytes[19] <= Len(bytes) + 1
        BY <1>1
  <2>3. PartAt(bytes, 19)
        BY <2>1, <2>2 DEF PartAt
  <2>4. 19 \in 1 .. Len(bytes)
        BY <1>1
  <2>5. f[19] = Then(bytes[19 + 1], f[19 + bytes[19]])
        BY <1>2, <2>3, <2>4 DEF Walks
  <2> QED BY <2>2, <2>5
<1>7. f[19] = <<ENDPOINT, SS_EP_COMPANION>>
      BY <1>5, <1>6, ThenOne
<1>8. f[10] = Then(INTERFACE, f[19])
  <2>1. INTERFACE \in DOMAIN LengthsOfType /\ 9 \in LengthsOfType[INTERFACE]
        BY LengthsAre
  <2>2. /\ bytes[10 + 1] = INTERFACE /\ bytes[10] = 9
        /\ 10 < Len(bytes) /\ 10 + bytes[10] <= Len(bytes) + 1
        BY <1>1
  <2>3. PartAt(bytes, 10)
        BY <2>1, <2>2 DEF PartAt
  <2>4. 10 \in 1 .. Len(bytes)
        BY <1>1
  <2>5. f[10] = Then(bytes[10 + 1], f[10 + bytes[10]])
        BY <1>2, <2>3, <2>4 DEF Walks
  <2> QED BY <2>2, <2>5
<1>9. f[10] = <<INTERFACE, ENDPOINT, SS_EP_COMPANION>>
      BY <1>7, <1>8, ThenTwo
<1>10. f[1] = Then(CONFIGURATION, f[10])
  <2>1. CONFIGURATION \in DOMAIN LengthsOfType /\ 9 \in LengthsOfType[CONFIGURATION]
        BY LengthsAre
  <2>2. /\ bytes[1 + 1] = CONFIGURATION /\ bytes[1] = 9
        /\ 1 < Len(bytes) /\ 1 + bytes[1] <= Len(bytes) + 1
        BY <1>1
  <2>3. PartAt(bytes, 1)
        BY <2>1, <2>2 DEF PartAt
  <2>4. 1 \in 1 .. Len(bytes)
        BY <1>1
  <2>5. f[1] = Then(bytes[1 + 1], f[1 + bytes[1]])
        BY <1>2, <2>3, <2>4 DEF Walks
  <2> QED BY <2>2, <2>5
<1>11. f[1] = <<CONFIGURATION, INTERFACE, ENDPOINT, SS_EP_COMPANION>>
      BY <1>9, <1>10, ThenThree
<1> QED BY <1>2, <1>11

LEMMA WalkBos ==
    ASSUME NEW bytes, Bytes(bytes, 22), bytes[1] = 5, bytes[2] = BOS,
           bytes[6] = 7, bytes[7] = DEV_CAPABILITY, bytes[13] = 10, bytes[14] = DEV_CAPABILITY
    PROVE  Walk(bytes) = <<BOS, DEV_CAPABILITY, DEV_CAPABILITY>>
<1>1. bytes \in Seq(Byte) /\ Len(bytes) = 22
      BY DEF Bytes
<1>2. PICK f : Walk(bytes) = f[1] /\ f[Len(bytes) + 1] = <<>> /\ Walks(f, bytes)
      BY <1>1, WalkSteps
<1>3. f[23] = <<>>
      BY <1>1, <1>2
<1>4. f[13] = Then(DEV_CAPABILITY, f[23])
  <2>1. DEV_CAPABILITY \in DOMAIN LengthsOfType /\ 10 \in LengthsOfType[DEV_CAPABILITY]
        BY LengthsAre
  <2>2. /\ bytes[13 + 1] = DEV_CAPABILITY /\ bytes[13] = 10
        /\ 13 < Len(bytes) /\ 13 + bytes[13] <= Len(bytes) + 1
        BY <1>1
  <2>3. PartAt(bytes, 13)
        BY <2>1, <2>2 DEF PartAt
  <2>4. 13 \in 1 .. Len(bytes)
        BY <1>1
  <2>5. f[13] = Then(bytes[13 + 1], f[13 + bytes[13]])
        BY <1>2, <2>3, <2>4 DEF Walks
  <2> QED BY <2>2, <2>5
<1>5. f[13] = <<DEV_CAPABILITY>>
      BY <1>3, <1>4, ThenNone
<1>6. f[6] = Then(DEV_CAPABILITY, f[13])
  <2>1. DEV_CAPABILITY \in DOMAIN LengthsOfType /\ 7 \in LengthsOfType[DEV_CAPABILITY]
        BY LengthsAre
  <2>2. /\ bytes[6 + 1] = DEV_CAPABILITY /\ bytes[6] = 7
        /\ 6 < Len(bytes) /\ 6 + bytes[6] <= Len(bytes) + 1
        BY <1>1
  <2>3. PartAt(bytes, 6)
        BY <2>1, <2>2 DEF PartAt
  <2>4. 6 \in 1 .. Len(bytes)
        BY <1>1
  <2>5. f[6] = Then(bytes[6 + 1], f[6 + bytes[6]])
        BY <1>2, <2>3, <2>4 DEF Walks
  <2> QED BY <2>2, <2>5
<1>7. f[6] = <<DEV_CAPABILITY, DEV_CAPABILITY>>
      BY <1>5, <1>6, ThenOne
<1>8. f[1] = Then(BOS, f[6])
  <2>1. BOS \in DOMAIN LengthsOfType /\ 5 \in LengthsOfType[BOS]
        BY LengthsAre
  <2>2. /\ bytes[1 + 1] = BOS /\ bytes[1] = 5
        /\ 1 < Len(bytes) /\ 1 + bytes[1] <= Len(bytes) + 1
        BY <1>1
  <2>3. PartAt(bytes, 1)
        BY <2>1, <2>2 DEF PartAt
  <2>4. 1 \in 1 .. Len(bytes)
        BY <1>1
  <2>5. f[1] = Then(bytes[1 + 1], f[1 + bytes[1]])
        BY <1>2, <2>3, <2>4 DEF Walks
  <2> QED BY <2>2, <2>5
<1>9. f[1] = <<BOS, DEV_CAPABILITY, DEV_CAPABILITY>>
      BY <1>7, <1>8, ThenTwo
<1> QED BY <1>2, <1>9

\* The strings: the length comes first, and no unit of the rest is 0.
LEMMA LiteralUnits ==
    ASSUME NEW first \in Nat, first < 2^16, NEW characters \in Nat
    PROVE  \A i \in 1 .. characters : Literal(first, characters)[2 * i + 1] = 63
<1> DEFINE a == Word(first)
           n == 2 * characters
           b == [i \in 1 .. n |-> IF i % 2 = 1 THEN 63 ELSE 0]
           c == Word(0)
           ab == a \o b
           all == ab \o c
<1>1. Bytes(a, 2) /\ Bytes(c, 2) /\ n \in Nat /\ n = 2 * characters
      BY WordBytes
<1>2. Literal(first, characters) = all
      BY DEF Literal
<1> HIDE DEF a, c, n
<1>3. Bytes(b, n)
  <2>1. 63 \in Byte /\ 0 \in Byte
        BY DEF Byte
  <2>2. b \in [1 .. n -> Byte]
        BY <2>1
  <2> HIDE DEF b
  <2>3. b \in Seq(Byte)
        BY <1>1, <2>2
  <2>4. Len(b) = n
        BY <1>1, <2>2, LenProperties
  <2> QED BY <2>3, <2>4 DEF Bytes
<1>4. ASSUME NEW i \in 1 .. characters PROVE b[2 * i - 1] = 63
  <2>1. 2 * i - 1 \in 1 .. n /\ (2 * i - 1) % 2 = 1
        BY <1>1
  <2> QED BY <2>1
<1> HIDE DEF b
<1> DEFINE k == 2
<1>5. k \in Nat /\ Joined(ab, a, k, b, n)
      BY <1>1, <1>3 DEF Joined
<1>6. k = 2
      OBVIOUS
<1>7. Bytes(ab, 2 + n)
      BY <1>1, <1>3, JoinBytes
<1> DEFINE m == 2 + n
<1>8. m \in Nat /\ k \in Nat /\ Joined(all, ab, m, c, k)
      BY <1>1, <1>7 DEF Joined
<1>9. m = 2 + n
      OBVIOUS
<1> HIDE DEF k, m, ab, all
<1>10. \A j \in 1 .. n : ab[k + j] = b[j]
      BY <1>1, <1>5, JoinedLater
<1>11. \A j \in 1 .. m : all[j] = ab[j]
      BY <1>8, JoinedEarlier
<1>12. ASSUME NEW i \in 1 .. characters PROVE all[2 * i + 1] = 63
  <2>1. 2 * i - 1 \in 1 .. n /\ 2 * i + 1 = k + (2 * i - 1) /\ 2 * i + 1 \in 1 .. m
        BY <1>1, <1>6, <1>9
  <2>2. ab[2 * i + 1] = b[2 * i - 1]
        BY <1>10, <2>1
  <2>3. all[2 * i + 1] = ab[2 * i + 1]
        BY <1>11, <2>1
  <2> QED BY <1>4, <2>2, <2>3
<1> QED BY <1>2, <1>12

ReadsAsString(bytes) ==
    /\ bytes[1] = Len(bytes)
    /\ 0 \notin {bytes[2 * i + 1] + bytes[2 * i + 2] : i \in 0 .. (Len(bytes) \div 2 - 1)}

LEMMA StringReads ==
    ASSUME NEW first \in Nat, first < 2^16, NEW characters \in Nat,
           first % 256 = 2 * characters + 2,
           NEW bytes, Bytes(bytes, 2 * characters + 2),
           \A i \in 1 .. 2 * characters + 2 : bytes[i] = Literal(first, characters)[i]
    PROVE  ReadsAsString(bytes)
<1> DEFINE descr == Literal(first, characters)
<1>1. descr[1] = 2 * characters + 2
      BY LiteralBytes, ZenonT(60)
<1>2. \A i \in 1 .. characters : descr[2 * i + 1] = 63
      BY LiteralUnits
<1>3. bytes \in Seq(Byte) /\ Len(bytes) = 2 * characters + 2
      BY DEF Bytes
<1>4. \A i \in 1 .. 2 * characters + 2 : bytes[i] = descr[i]
      OBVIOUS
<1> HIDE DEF descr
<1>5. bytes[1] = 2 * characters + 2
      BY <1>1, <1>4
<1>6. Len(bytes) \div 2 - 1 = characters
      BY <1>3
<1>7. ASSUME NEW i \in 0 .. characters PROVE bytes[2 * i + 1] + bytes[2 * i + 2] # 0
  <2>1. 2 * i + 1 \in 1 .. 2 * characters + 2 /\ 2 * i + 2 \in 1 .. 2 * characters + 2
        OBVIOUS
  <2>2. bytes[2 * i + 2] \in Nat /\ bytes[2 * i + 1] \in Nat
    <3>1. \A j \in 1 .. Len(bytes) : bytes[j] \in Byte
          BY <1>3
    <3>2. bytes[2 * i + 2] \in Byte /\ bytes[2 * i + 1] \in Byte
          BY <1>3, <2>1, <3>1
    <3> QED BY <3>2 DEF Byte
  <2>3. CASE i = 0
        BY <1>5, <2>2, <2>3
  <2>4. CASE i # 0
    <3>1. i \in 1 .. characters
          BY <2>4
    <3>2. bytes[2 * i + 1] = 63
          BY <1>2, <1>4, <2>1, <3>1
    <3> QED BY <2>2, <3>2
  <2> QED BY <2>3, <2>4
<1>8. \A i \in 0 .. (Len(bytes) \div 2 - 1) : bytes[2 * i + 1] + bytes[2 * i + 2] # 0
      BY <1>6, <1>7
<1>9. bytes[1] = Len(bytes)
      BY <1>3, <1>5
<1> QED BY <1>8, <1>9 DEF ReadsAsString

LEMMA StringsAre ==
    ASSUME NEW no \in Nat, no < Len(string_descriptors)
    PROVE  \E first, characters \in Nat :
              /\ first < 2^16 /\ characters <= 8
              /\ first % 256 = 2 * characters + 2 /\ first \div 256 = 3
              /\ string_descriptors[no + 1] = Literal(first, characters)
<1>1. no = 0 \/ no = 1 \/ no = 2 \/ no = 3
      BY DEF string_descriptors
<1>2. CASE no = 0
  <2>1. string_descriptors[no + 1] = Literal(\h0304, 1)
        BY <1>2 DEF string_descriptors
  <2> QED BY <2>1
<1>3. CASE no = 1
  <2>1. string_descriptors[no + 1] = Literal(\h030E, 6)
        BY <1>3 DEF string_descriptors
  <2> QED BY <2>1
<1>4. CASE no = 2
  <2>1. string_descriptors[no + 1] = Literal(\h0310, 7)
        BY <1>4 DEF string_descriptors
  <2> QED BY <2>1
<1>5. CASE no = 3
  <2>1. string_descriptors[no + 1] = Literal(\h0312, 8)
        BY <1>5 DEF string_descriptors
  <2> QED BY <2>1
<1> QED BY <1>1, <1>2, <1>3, <1>4, <1>5

(***************************************************************************)
(* What is answered is what the handler answers to the request that is in   *)
(* the SETUP registers, until the host takes it.                            *)
(***************************************************************************)
AnsweredInv == answer # Idle => setup # <<>> /\ answer = SetupData

LEMMA AnswerKept ==
    ASSUME UNCHANGED <<speed, setup>>
    PROVE  SetupData' = SetupData
<1>1. /\ request_type' = request_type /\ request' = request
      /\ value' = value /\ index' = index /\ length' = length
      BY DEF request_type, request, value, index, length
<1>2. TypeBits' = TypeBits /\ Configures' = Configures
      BY <1>1 DEF TypeBits, Configures
<1>3. VendorCommand' = VendorCommand
      BY <1>1 DEF VendorCommand, Plain
<1>4. GetDescriptorRequest' = GetDescriptorRequest
      BY <1>1 DEF GetDescriptorRequest, LengthOf
<1> QED BY <1>1, <1>2, <1>3, <1>4 DEF SetupData

LEMMA AnsweredSteps ==
    ASSUME AnsweredInv, Next \/ UNCHANGED vars
    PROVE  AnsweredInv'
<1>1. CASE Handle
  <2>1. setup # <<>> /\ answer' = SetupData /\ UNCHANGED <<speed, setup>>
        BY <1>1 DEF Handle
  <2>2. SetupData' = SetupData
        BY <2>1, AnswerKept
  <2> QED BY <2>1, <2>2 DEF AnsweredInv
<1>2. CASE Request \/ Enumerate
  <2>1. setup = <<>> /\ answer' = answer
        BY <1>2 DEF Request, Enumerate, Send
  <2>2. answer = Idle
        BY <2>1 DEF AnsweredInv
  <2>3. answer' = Idle'
        BY <2>1, <2>2 DEF Idle
  <2> QED BY <2>3 DEF AnsweredInv
<1>3. CASE Take \/ FallBack
  <2>1. answer' = Idle
        BY <1>3 DEF Take, FallBack
  <2>2. answer' = Idle'
        BY <2>1 DEF Idle
  <2> QED BY <2>2 DEF AnsweredInv
<1>4. CASE UNCHANGED vars
  <2>1. UNCHANGED <<speed, setup, answer>>
        BY <1>4 DEF vars
  <2>2. SetupData' = SetupData
        BY <2>1, AnswerKept
  <2>3. Idle' = Idle
        BY DEF Idle
  <2> QED BY <2>1, <2>2, <2>3 DEF AnsweredInv
<1> QED BY <1>1, <1>2, <1>3, <1>4 DEF Next

\* The only IN data stage of a GET_DESCRIPTOR is of a descriptor there is.
LEMMA OnlyDescriptors ==
    ASSUME SetupData.kind = "in", request = GET_DESCRIPTOR
    PROVE  SetupData = GetDescriptorRequest /\ request_type = IN_STD /\ Wanted # <<>>
<1>1. Stall.kind # "in"
      BY DEF Stall
<1>2. VendorCommand = Stall
      BY DEF VendorCommand, CMD_START, CMD_GET_FW_VERSION, CMD_GET_REVID_VERSION, GET_DESCRIPTOR
<1>3. ~Configures
      BY DEF Configures, GET_DESCRIPTOR, SET_CONFIGURATION
<1>4. SetupData # Stall
      BY <1>1
<1>5. TypeBits # 2
  <2>1. TypeBits = 2 => SetupData = VendorCommand
        BY <1>3 DEF SetupData
  <2> QED BY <1>2, <1>4, <2>1
<1>6. TypeBits = 0
  <2>1. TypeBits # 2 /\ TypeBits # 0 => SetupData = Stall
        BY <1>3 DEF SetupData
  <2> QED BY <1>4, <1>5, <2>1
<1>7. SetupData = GetDescriptorRequest
      BY <1>3, <1>5, <1>6 DEF SetupData
<1>8. ~(request_type = IN_STD /\ Wanted # <<>>) => GetDescriptorRequest = Stall
      BY DEF GetDescriptorRequest, Wanted
<1> QED BY <1>4, <1>7, <1>8

\* With room for it, the host reads the whole descriptor.
LEMMA ReadsWhole ==
    ASSUME Asks(setup), request_type = IN_STD, NEW descr, Wanted = descr, descr # <<>>,
           NEW n \in Nat, WholeLength(descr) = n, n < 64, length >= 64
    PROVE  /\ Bytes(GetDescriptorRequest.bytes, n) /\ n <= Len(descr)
           /\ \A i \in 1 .. n : GetDescriptorRequest.bytes[i] = descr[i]
<1>1. Sound(descr) /\ IsWord(length)
      BY WantedIsSound, AskedWith
<1>2. length \in Nat
      BY <1>1 DEF IsWord
<1>3. LengthOf(descr) = n
  <2>1. LengthOf(descr) = IF WholeLength(descr) < length THEN WholeLength(descr) ELSE length
        BY <1>1, LengthIs
  <2>2. n < length
        BY <1>2
  <2> QED BY <2>1, <2>2
<1>4. n <= Len(descr)
      BY <1>1 DEF Sound
<1>5. /\ GetDescriptorRequest.bytes \in Seq(Byte)
      /\ Len(GetDescriptorRequest.bytes) = n
      /\ \A i \in 1 .. n : GetDescriptorRequest.bytes[i] = descr[i]
      BY <1>3, GetAnswers
<1> QED BY <1>4, <1>5 DEF Bytes

LEMMA DescriptorWalks ==
    ASSUME NEW bytes, NEW descr, NEW n \in Nat, Bytes(bytes, n), \A i \in 1 .. n : bytes[i] = descr[i]
    PROVE  /\ \A s : descr = device_descriptor(s) /\ n = 18 => Walk(bytes) = PartsOf[DEVICE]
           /\ \A s : descr = configuration_descriptor(s) /\ n = 31 =>
                        Walk(bytes) = PartsOf[CONFIGURATION]
           /\ descr = bos_descriptor /\ n = 22 => Walk(bytes) = PartsOf[BOS]
<1>1. /\ PartsOf[DEVICE] = <<DEVICE>>
      /\ PartsOf[CONFIGURATION] = <<CONFIGURATION, INTERFACE, ENDPOINT, SS_EP_COMPANION>>
      /\ PartsOf[BOS] = <<BOS, DEV_CAPABILITY, DEV_CAPABILITY>>
      BY DEF PartsOf, DEVICE, CONFIGURATION, BOS
<1>2. ASSUME NEW s, descr = device_descriptor(s), n = 18 PROVE Walk(bytes) = PartsOf[DEVICE]
  <2>1. descr[1] = 18 /\ descr[2] = DEVICE
        BY <1>2, DeviceBytes DEF DEVICE
  <2>2. Bytes(bytes, 18) /\ \A i \in 1 .. 18 : bytes[i] = descr[i]
        BY <1>2
  <2>3. bytes[1] = 18 /\ bytes[2] = DEVICE
        BY <2>1, <2>2
  <2> QED BY <1>1, <2>2, <2>3, WalkDevice
<1>3. ASSUME NEW s, descr = configuration_descriptor(s), n = 31
      PROVE  Walk(bytes) = PartsOf[CONFIGURATION]
  <2>1. /\ descr[1] = 9 /\ descr[2] = CONFIGURATION /\ descr[10] = 9 /\ descr[11] = INTERFACE
        /\ descr[19] = 7 /\ descr[20] = ENDPOINT /\ descr[26] = 6 /\ descr[27] = SS_EP_COMPANION
    <3>1. descr[1] = 9 /\ descr[2] = CONFIGURATION
          BY <1>3, ConfigurationBytes DEF CONFIGURATION
    <3>2. /\ descr[10] = 9 /\ descr[11] = INTERFACE /\ descr[19] = 7 /\ descr[20] = ENDPOINT
          /\ descr[26] = 6 /\ descr[27] = SS_EP_COMPANION
          BY <1>3, ConfigurationParts
    <3> QED BY <3>1, <3>2
  <2>2. Bytes(bytes, 31) /\ \A i \in 1 .. 31 : bytes[i] = descr[i]
        BY <1>3
  <2>3. /\ bytes[1] = 9 /\ bytes[2] = CONFIGURATION /\ bytes[10] = 9 /\ bytes[11] = INTERFACE
        /\ bytes[19] = 7 /\ bytes[20] = ENDPOINT /\ bytes[26] = 6 /\ bytes[27] = SS_EP_COMPANION
        BY <2>1, <2>2
  <2> QED BY <1>1, <2>2, <2>3, WalkConfiguration
<1>4. ASSUME descr = bos_descriptor, n = 22 PROVE Walk(bytes) = PartsOf[BOS]
  <2>1. /\ descr[1] = 5 /\ descr[2] = BOS /\ descr[6] = 7 /\ descr[7] = DEV_CAPABILITY
        /\ descr[13] = 10 /\ descr[14] = DEV_CAPABILITY
    <3>1. descr[1] = 5 /\ descr[2] = BOS
          BY <1>4, BosBytes DEF BOS
    <3> QED BY <1>4, <3>1, BosParts
  <2>2. Bytes(bytes, 22) /\ \A i \in 1 .. 22 : bytes[i] = descr[i]
        BY <1>4
  <2>3. /\ bytes[1] = 5 /\ bytes[2] = BOS /\ bytes[6] = 7 /\ bytes[7] = DEV_CAPABILITY
        /\ bytes[13] = 10 /\ bytes[14] = DEV_CAPABILITY
        BY <2>1, <2>2
  <2> QED BY <1>1, <2>2, <2>3, WalkBos
<1> QED BY <1>2, <1>3, <1>4

\* The wanted descriptor is one of those there are.
LEMMA WantedIs ==
    ASSUME Asks(setup), Wanted # <<>>
    PROVE  \/ value \div 256 = DEVICE /\ Wanted = device_descriptor(speed)
           \/ value \div 256 = CONFIGURATION /\ Wanted = configuration_descriptor(speed)
           \/ value \div 256 = BOS /\ Wanted = bos_descriptor
           \/ value \div 256 = STRING_TYPE
              /\ \E no \in Nat : no < Len(string_descriptors) /\ Wanted = string_descriptors[no + 1]
<1> DEFINE type == value \div 256
           no == value % 256
<1>1. no \in Nat
      BY AskedWith DEF IsWord
<1>2. Wanted = GetDescriptor(type, no, speed)
      BY DEF Wanted
<1> HIDE DEF type, no
<1>3. \/ type = DEVICE /\ no = 0
      \/ type = CONFIGURATION /\ no = 0
      \/ type = BOS /\ no = 0
      \/ type = STRING_TYPE /\ no < Len(string_descriptors)
      BY <1>2 DEF GetDescriptor
<1>4. /\ type = DEVICE /\ no = 0 => Wanted = device_descriptor(speed)
      /\ type = CONFIGURATION /\ no = 0 => Wanted = configuration_descriptor(speed)
      /\ type = BOS /\ no = 0 => Wanted = bos_descriptor
      /\ type = STRING_TYPE /\ no < Len(string_descriptors) =>
            Wanted = string_descriptors[no + 1]
      BY <1>2 DEF GetDescriptor, DEVICE, CONFIGURATION, STRING_TYPE, BOS
<1>5. \/ type = DEVICE /\ Wanted = device_descriptor(speed)
      \/ type = CONFIGURATION /\ Wanted = configuration_descriptor(speed)
      \/ type = BOS /\ Wanted = bos_descriptor
      \/ type = STRING_TYPE
         /\ \E k \in Nat : k < Len(string_descriptors) /\ Wanted = string_descriptors[k + 1]
      BY <1>1, <1>3, <1>4
<1> QED BY <1>5 DEF type

LEMMA AnswersWalkThrough ==
    ASSUME DataInv, AnsweredInv
    PROVE  WalksThrough
<1> SUFFICES ASSUME answer.kind = "in", request = GET_DESCRIPTOR, length >= 64
             PROVE  LET type == value \div 256
                    IN  IF type = STRING_TYPE
                        THEN /\ answer.bytes[1] = Len(answer.bytes)
                             /\ 0 \notin {answer.bytes[2 * i + 1] + answer.bytes[2 * i + 2] :
                                             i \in 0 .. (Len(answer.bytes) \div 2 - 1)}
                        ELSE Walk(answer.bytes) = PartsOf[type]
      BY DEF WalksThrough
<1>1. answer # Idle
      BY DEF Idle
<1>2. setup # <<>> /\ answer = SetupData
      BY <1>1 DEF AnsweredInv
<1>3. Asks(setup)
      BY <1>2 DEF DataInv
<1>4. answer = GetDescriptorRequest /\ request_type = IN_STD /\ Wanted # <<>>
      BY <1>2, OnlyDescriptors
<1> DEFINE bytes == answer.bytes
<1>5. ASSUME NEW n \in Nat, WholeLength(Wanted) = n, n < 64
      PROVE  Bytes(bytes, n) /\ \A i \in 1 .. n : bytes[i] = Wanted[i]
      BY <1>3, <1>4, <1>5, ReadsWhole
<1> HIDE DEF bytes
<1>6. DEVICE # STRING_TYPE /\ CONFIGURATION # STRING_TYPE /\ BOS # STRING_TYPE
      BY DEF DEVICE, CONFIGURATION, BOS, STRING_TYPE
<1>7. CASE value \div 256 = DEVICE /\ Wanted = device_descriptor(speed)
  <2>1. WholeLength(Wanted) = 18
        BY <1>7, SizesOf
  <2>2. Bytes(bytes, 18) /\ \A i \in 1 .. 18 : bytes[i] = Wanted[i]
        BY <1>5, <2>1
  <2>3. Walk(bytes) = PartsOf[DEVICE]
        BY <1>7, <2>2, DescriptorWalks
  <2> QED BY <1>6, <1>7, <2>3 DEF bytes
<1>8. CASE value \div 256 = CONFIGURATION /\ Wanted = configuration_descriptor(speed)
  <2>1. WholeLength(Wanted) = 31
        BY <1>8, SizesOf
  <2>2. Bytes(bytes, 31) /\ \A i \in 1 .. 31 : bytes[i] = Wanted[i]
        BY <1>5, <2>1
  <2>3. Walk(bytes) = PartsOf[CONFIGURATION]
        BY <1>8, <2>2, DescriptorWalks
  <2> QED BY <1>6, <1>8, <2>3 DEF bytes
<1>9. CASE value \div 256 = BOS /\ Wanted = bos_descriptor
  <2>1. WholeLength(Wanted) = 22
        BY <1>9, SizesOf
  <2>2. Bytes(bytes, 22) /\ \A i \in 1 .. 22 : bytes[i] = Wanted[i]
        BY <1>5, <2>1
  <2>3. Walk(bytes) = PartsOf[BOS]
        BY <1>9, <2>2, DescriptorWalks
  <2> QED BY <1>6, <1>9, <2>3 DEF bytes
<1>10. CASE /\ value \div 256 = STRING_TYPE
            /\ \E no \in Nat : no < Len(string_descriptors) /\ Wanted = string_descriptors[no + 1]
  <2>1. PICK first \in Nat, characters \in Nat :
            /\ first < 2^16 /\ characters <= 8
            /\ first % 256 = 2 * characters + 2 /\ first \div 256 = 3
            /\ Wanted = Literal(first, characters)
        BY <1>10, StringsAre
  <2> DEFINE n == 2 * characters + 2
  <2>2. n \in Nat /\ n < 64
        BY <2>1
  <2>3. WholeLength(Wanted) = n
    <3>1. /\ Literal(first, characters)[1] = first % 256
          /\ Literal(first, characters)[2] = first \div 256
          BY <2>1, LiteralBytes, ZenonT(60)
    <3>2. Wanted[1] = n /\ Wanted[2] = 3
          BY <2>1, <3>1 DEF n
    <3> QED BY <3>2 DEF WholeLength, CONFIGURATION, BOS
  <2> HIDE DEF n
  <2>4. Bytes(bytes, n) /\ \A i \in 1 .. n : bytes[i] = Wanted[i]
        BY <1>5, <2>2, <2>3
  <2>5. /\ Bytes(bytes, 2 * characters + 2)
        /\ \A i \in 1 .. 2 * characters + 2 : bytes[i] = Literal(first, characters)[i]
        BY <2>1, <2>4 DEF n
  <2>6. ReadsAsString(bytes)
        BY <2>1, <2>5, StringReads
  <2> QED BY <1>10, <2>6 DEF bytes, ReadsAsString
<1> QED BY <1>3, <1>4, <1>7, <1>8, <1>9, <1>10, WantedIs, ZenonT(60)

(***************************************************************************)
(* A host that reads a descriptor as a whole can walk through it by the     *)
(* lengths of its parts, finds those of PartsOf and ends at the             *)
(* total length; a string has its length first and no character 0, for any  *)
(* requests before and at either speed (descriptors.c:8-282, main.c:84-124). *)
(***************************************************************************)
THEOREM DescriptorsWalkThrough == MCSpec => []WalksThrough
<1>1. MCInit => AnsweredInv
  <2>1. Init => answer = Idle
        BY DEF Init
  <2> QED BY <2>1 DEF MCInit, AnsweredInv
<1>2. AnsweredInv /\ [MCNext]_<<part, vars, linkVars>> => AnsweredInv'
  <2> SUFFICES ASSUME AnsweredInv, [MCNext]_<<part, vars, linkVars>> PROVE AnsweredInv'
      OBVIOUS
  <2>1. Next \/ UNCHANGED vars
        BY DEF MCNext
  <2> QED BY <2>1, AnsweredSteps
<1>3. DataInv /\ AnsweredInv => WalksThrough
      BY AnswersWalkThrough
<1> QED BY <1>1, <1>2, <1>3, AnswersFollowed, PTL DEF MCSpec

===============================================================================
