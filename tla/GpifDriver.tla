------------------------------ MODULE GpifDriver ------------------------------
(***************************************************************************)
(* How start_acquisition brings its tables into the hardware: GPIF_STATE    *)
(* packs each state into three words, Fx3GpifConfigure writes them to the   *)
(* waveform memories, each under the states it can be reached from, and     *)
(* Fx3GpifConfigureCommon writes the functions and, as one block, the       *)
(* registers.  The hardware unpacks the words by the layout of rdb/gpif.h.  *)
(*                                                                          *)
(* A word of a waveform is the set of the positions of its bits.  Any other *)
(* word is a set of pairs of a field and a bit of that field.  What the     *)
(* hardware itself changes in its registers, as its requests and the state  *)
(* it is in, is not in them here.                                           *)
(***************************************************************************)
EXTENDS GpifTable, Sequences

CONSTANTS
    BitWidths, Delays       \* the widths (8 to 32) and 16-bit delays the host asks for

VARIABLES
    width, delay,           \* the parameters of the last start
    busConfig,              \* registers.bus_config
    todo,                   \* the accesses left to do
    left, right,            \* the waveform memories
    regs,                   \* the GPIF registers and functions, as the processor left them
    cur,                    \* the waveform the GPIF executes
    inputs                  \* the inputs of its last transition

vars == <<width, delay, busConfig, todo, left, right, regs, cur, inputs>>

-----------------------------------------------------------------------------
\* Bits of numbers, and fields.

BitsOf(v, n) == {i \in 0 .. (n - 1) : (v \div 2^i) % 2 = 1}
Weight(bits, i) == IF i \in bits THEN 2^i ELSE 0
ValueOf(bits) ==                                    \* of at most 8 bits
    Weight(bits, 0) + Weight(bits, 1) + Weight(bits, 2) + Weight(bits, 3)
    + Weight(bits, 4) + Weight(bits, 5) + Weight(bits, 6) + Weight(bits, 7)
Shift(bits, n) == {i + n : i \in bits}
ShiftDown(bits, n) == {i - n : i \in {b \in bits : b >= n}}
Field(name, v) == {name} \X BitsOf(v, 16)
Flag(name) == Field(name, 1)

Lambda(input) ==
    CASE input = "CTL0"     -> 0
      [] input = "ADDR_HIT" -> 19
      [] input = "DATA_HIT" -> 20
      [] input = "DMA_RDY"  -> 26

SampleDin == {2}

Beta(w) ==
    Shift(BitsOf(w.thread, 2), 4)
    \cup {CASE b = "PUSH"       -> 7
            [] b = "COUNT_ADDR" -> 14
            [] b = "LD_ADDR"    -> 15
            [] b = "COUNT_DATA" -> 16
            [] b = "LD_DATA"    -> 17 : b \in w.beta}

\* The rows of the table as the arguments of GPIF_STATE; n is the state.
Row(n, w) ==
    [n |-> n, Fa |-> Lambda(w.fa), Fb |-> Lambda(w.fb), f0 |-> w.f0, f1 |-> w.f1,
     AL |-> IF w.din = "left" THEN SampleDin ELSE {},
     AR |-> IF w.din = "right" THEN SampleDin ELSE {}, B |-> Beta(w)]

rows == [n \in 3 .. Done |-> Row(n, waveforms[n])]

-----------------------------------------------------------------------------
\* Mutant: the part of f0 in the second word is forgotten, and f1 is there instead.
GPIF_STATE_f1(r) ==
    << BitsOf(r.n, 8) \cup Shift(BitsOf(r.Fa, 5), 8) \cup Shift(BitsOf(r.Fb, 5), 13)
           \cup Shift(BitsOf(r.f0, 4), 28),
       BitsOf(r.f1, 5) \cup Shift(r.AL, 6) \cup Shift(r.AR, 14)
           \cup Shift(r.B \cap 0 .. 9, 22),
       ShiftDown(r.B, 10) \cup {31} >>

\* Fc, Fd, rep and BD are 0 throughout.
GPIF_STATE(r) ==
    << BitsOf(r.n, 8) \cup Shift(BitsOf(r.Fa, 5), 8) \cup Shift(BitsOf(r.Fb, 5), 13)
           \cup Shift(BitsOf(r.f0, 4), 28),
       ShiftDown(BitsOf(r.f0, 5), 4) \cup Shift(BitsOf(r.f1, 5), 1) \cup Shift(r.AL, 6)
           \cup Shift(r.AR, 14) \cup Shift(r.B \cap 0 .. 9, 22),
       ShiftDown(r.B, 10) \cup {31} >>

GPIF_START_STATE(n) == << BitsOf(n, 8), {}, {} >>

\* The array waveforms: the three words of each state, and its successors.
words == [n \in 0 .. Done |-> IF n < 3 THEN GPIF_START_STATE(n) ELSE GPIF_STATE(rows[n])]
leftOf == [n \in 0 .. Done |-> IF n < 3 THEN StartState(n) ELSE waveforms[n].left]
rightOf == [n \in 0 .. Done |-> IF n < 3 THEN 0 ELSE waveforms[n].right]

Fields == [n |-> <<0, 8>>, Fa |-> <<8, 5>>, Fb |-> <<13, 5>>, Fc |-> <<18, 5>>,
           Fd |-> <<23, 5>>, f0 |-> <<28, 5>>, f1 |-> <<33, 5>>, AL |-> <<38, 8>>,
           AR |-> <<46, 8>>, B |-> <<54, 32>>, REPEAT_COUNT |-> <<86, 8>>,
           BETA_DEASSERT |-> <<94, 1>>, VALID |-> <<95, 1>>]

\* A field of three words, as the hardware takes it.
Bits(w, f) ==
    LET all == w[1] \cup Shift(w[2], 32) \cup Shift(w[3], 64)
        at  == Fields[f][1]
    IN  ShiftDown(all \cap at .. (at + Fields[f][2] - 1), at)

StateOf(w) == ValueOf(Bits(w, "n"))

-----------------------------------------------------------------------------
\* Fx3GpifRegisters_t: the fields, and the number of words of each.
Layout ==
 << <<"config", 1>>, <<"bus_config", 1>>, <<"bus_config2", 1>>, <<"ad_config", 1>>,
    <<"status", 1>>, <<"intr", 1>>, <<"intr_mask", 1>>,
    <<"serial_in_config", 1>>, <<"serial_out_config", 1>>,
    <<"ctrl_bus_direction", 1>>, <<"ctrl_bus_default", 1>>, <<"ctrl_bus_polarity", 1>>,
    <<"ctrl_bus_toggle", 1>>, <<"ctrl_bus_select", 16>>,
    <<"ctrl_count_config", 1>>, <<"ctrl_count_reset", 1>>, <<"ctrl_count_limit", 1>>,
    <<"addr_count_config", 1>>, <<"addr_count_reset", 1>>, <<"addr_count_limit", 1>>,
    <<"state_count_config", 1>>, <<"state_count_limit", 1>>,
    <<"data_count_config", 1>>, <<"data_count_reset", 1>>, <<"data_count_limit", 1>>,
    <<"ctrl_comp_value", 1>>, <<"ctrl_comp_mask", 1>>, <<"data_comp_value", 1>>,
    <<"data_comp_mask", 1>>, <<"addr_comp_value", 1>>, <<"addr_comp_mask", 1>>,
    <<"data_ctrl", 1>>, <<"ingress_data", 4>>, <<"egress_data", 4>>,
    <<"ingress_address", 4>>, <<"egress_address", 4>>, <<"thread_config", 4>>,
    <<"lambda_stat", 1>>, <<"alpha_stat", 1>>, <<"beta_stat", 1>>,
    <<"waveform_ctrl_stat", 1>>, <<"waveform_switch", 1>>, <<"waveform_switch_timeout", 1>>,
    <<"crc_config", 1>>, <<"crc_data", 1>>, <<"beta_deassert", 1>> >>

\* The words of the structure before each field, and before its end.
Offset[k \in 1 .. (Len(Layout) + 1)] ==
    IF k = 1 THEN 0 ELSE Offset[k - 1] + Layout[k - 1][2]

NumRegisters == Offset[Len(Layout) + 1]

\* The words of the structure, in order: the field each belongs to, and which of its words.
layoutWords ==
    [i \in 1 .. NumRegisters |->
        LET k == CHOOSE k \in DOMAIN Layout : Offset[k] < i /\ i <= Offset[k + 1]
        IN  <<Layout[k][1], i - 1 - Offset[k]>>]

\* The word of the first register of each name, counted from FX3_GPIF_CONFIG.
Address ==
  [config |-> 0, bus_config |-> 1, bus_config2 |-> 2, ad_config |-> 3, status |-> 4,
   intr |-> 5, intr_mask |-> 6, serial_in_config |-> 7, serial_out_config |-> 8,
   ctrl_bus_direction |-> 9, ctrl_bus_default |-> 10, ctrl_bus_polarity |-> 11,
   ctrl_bus_toggle |-> 12, ctrl_bus_select |-> 13, ctrl_count_config |-> 29,
   ctrl_count_reset |-> 30, ctrl_count_limit |-> 31, addr_count_config |-> 32,
   addr_count_reset |-> 33, addr_count_limit |-> 34, state_count_config |-> 35,
   state_count_limit |-> 36, data_count_config |-> 37, data_count_reset |-> 38,
   data_count_limit |-> 39, ctrl_comp_value |-> 40, ctrl_comp_mask |-> 41,
   data_comp_value |-> 42, data_comp_mask |-> 43, addr_comp_value |-> 44,
   addr_comp_mask |-> 45, data_ctrl |-> 46, ingress_data |-> 47, egress_data |-> 51,
   ingress_address |-> 55, egress_address |-> 59, thread_config |-> 63,
   lambda_stat |-> 67, alpha_stat |-> 68, beta_stat |-> 69, waveform_ctrl_stat |-> 70,
   waveform_switch |-> 71, waveform_switch_timeout |-> 72, crc_config |-> 73,
   crc_data |-> 74, beta_deassert |-> 75]

FunctionBase == 76          \* FX3_GPIF_FUNCTION, and its 32 words
Words == 0 .. (FunctionBase + 31)

ThreadConfig(t) ==
    Flag("ENABLE") \cup Field("WATERMARK", 1) \cup Field("BURST_SIZE", 4) \cup Field("THREAD_SOCK", t)

CountConfig == Field("INCREMENT", 1) \cup Flag("DOWN_UP") \cup Flag("RELOAD") \cup Flag("ENABLE")

SamplesPerBuffer == (6144 * 8) \div width

\* The j-th word of a field of the structure registers, as start_acquisition leaves it.
registers(name, j) ==
    CASE name = "config"            -> Flag("ENABLE") \cup Flag("THREAD_IN_STATE") \cup Flag("CLK_SOURCE")
      [] name = "bus_config"        -> busConfig
      [] name = "ad_config"         -> Field("A_OEN_CFG", 1) \cup Field("DQ_OEN_CFG", 1)
      [] name \in {"data_count_config", "addr_count_config"} -> CountConfig
      [] name = "data_count_limit"  -> Field("LIMIT", delay)
      [] name = "addr_count_limit"  -> Field("LIMIT", IF delay = 0 THEN SamplesPerBuffer - 1
                                                                   ELSE SamplesPerBuffer)
      [] name = "thread_config" /\ j < 2 -> ThreadConfig(j)
      [] name = "waveform_switch"   -> Field("DONE_STATE", Done) \cup Flag("DONE_ENABLE")
      [] OTHER                      -> {}

\* The truth tables of functions, over the four inputs Fa to Fd as bits of a number.
Fa == {k \in 0 .. 15 : k % 2 = 1}
Fb == {k \in 0 .. 15 : (k \div 2) % 2 = 1}

\* Mutant: !Fa lacks its complement.
functionsUncomplemented == << {}, 0 .. 15, Fa, Fa, Fb >>

functions == << {}, 0 .. 15, Fa, (0 .. 15) \ Fa, Fb >>

-----------------------------------------------------------------------------
\* Mutant: the loop over the registers ends before the first of them.
commonOpsButFirst ==
    [i \in 1 .. Len(functions) |-> <<"function", i - 1>>]
    \o [i \in 1 .. (NumRegisters - 1) |-> <<"register", NumRegisters - i>>]

\* Fx3GpifConfigureCommon: the functions, and the registers from the last to CONFIG.
commonOps ==
    [i \in 1 .. Len(functions) |-> <<"function", i - 1>>]
    \o [i \in 1 .. NumRegisters |-> <<"register", NumRegisters - i>>]

\* Fx3GpifConfigure.
configureOps == [i \in 1 .. (Done + 1) |-> <<"waveform", i - 1>>] \o commonOps

\* Mutant: the requests are enabled first, and the registers written over the mask.
startOpsMaskFirst == << <<"stop">>, <<"power">>, <<"acknowledge">>, <<"mask">> >> \o configureOps
                     \o << <<"alpha">>, <<"valid">>, <<"destination">>, <<"switch">> >>

\* start_acquisition: stop, PIB, Fx3GpifConfigure, Fx3GpifStart.
startOps == << <<"stop">>, <<"power">> >> \o configureOps
            \o << <<"acknowledge">>, <<"mask">>, <<"alpha">>,
                  <<"valid">>, <<"destination">>, <<"switch">> >>

NoInputs == [i \in 0 .. 3 |-> FALSE]
NoWords == << {}, {}, {} >>
Off == << {}, {}, {32} >>           \* no word: the GPIF executes nothing

Init ==
    /\ width = 8 /\ delay = 0 /\ busConfig = {}
    /\ todo = <<>>
    /\ left = [n \in 0 .. Done |-> NoWords] /\ right = left
    /\ regs = [i \in Words |-> {}]
    /\ cur = Off /\ inputs = NoInputs

\* The start of start_acquisition: width and limits.
Start(b, d) ==
    /\ todo = <<>>
    /\ width' = b /\ delay' = d
    /\ busConfig' = (busConfig \ ({"BUS_WIDTH"} \X (0 .. 1))) \cup Field("BUS_WIDTH", (b \div 8) - 1)
    /\ todo' = startOps
    /\ UNCHANGED <<left, right, regs, cur, inputs>>

\* stop_acquisition when main finds the GPIF paused.
Stop ==
    /\ todo = <<>>
    /\ todo' = << <<"stop">> >>
    /\ UNCHANGED <<width, delay, busConfig, left, right, regs, cur, inputs>>

SetRegister(i, bits) == regs' = [regs EXCEPT ![i] = bits]

GpifRequests == Flag("GPIF_INTR") \cup Flag("GPIF_DONE")
AlphaInit == {"ALPHA_INIT"} \X (0 .. 7)

Destination == Field("DESTINATION_STATE", IF delay < 2 THEN delay ELSE 2)

\* Of waveform_switch.  The code has the shift of DESTINATION_STATE for its mask: the value
\* 16, which is the bit of that weight and lies in TIMEOUT_MODE.
Cleared == {<<"TIMEOUT_MODE", 1>>} \cup ({"TERMINAL_STATE"} \X (0 .. 7))
           \cup Flag("SWITCH_NOW") \cup Flag("WAVEFORM_SWITCH")

\* Mutant: the functions are written downward, as the registers are.
FunctionWordDown(i) == FunctionBase - i

FunctionWord(i) == FunctionBase + i

\* The accesses that only write registers.
WriteRegister(op) ==
    CASE op[1] = "function"    -> SetRegister(FunctionWord(op[2]), {"Fx"} \X functions[op[2] + 1])
      [] op[1] = "register"    -> SetRegister(op[2], registers(layoutWords[op[2] + 1][1],
                                                               layoutWords[op[2] + 1][2]))
      [] op[1] = "acknowledge" -> SetRegister(Address.intr, {})     \* writes 1 to all it reads
      [] op[1] = "mask"        -> SetRegister(Address.intr_mask, GpifRequests)
      [] op[1] = "alpha"       -> SetRegister(Address.waveform_ctrl_stat,   \* to 0
                                      regs[Address.waveform_ctrl_stat] \ AlphaInit)
      [] op[1] = "valid"       -> SetRegister(Address.waveform_ctrl_stat,
                                      regs[Address.waveform_ctrl_stat] \cup Flag("WAVEFORM_VALID"))
      [] op[1] = "destination" -> SetRegister(Address.waveform_switch,
                                      (regs[Address.waveform_switch] \ Cleared) \cup Destination)

\* The PIB loses its power: its registers keep their contents or are reset.
PowerCycle ==
    /\ \/ UNCHANGED regs
       \/ regs' = [i \in Words |-> {}]
    /\ UNCHANGED <<left, right, cur, inputs>>

WriteWaveform(n) ==
    /\ left' = [left EXCEPT ![StateOf(words[n])] = words[leftOf[n]]]
    /\ right' = [right EXCEPT ![StateOf(words[n])] = words[rightOf[n]]]
    /\ UNCHANGED <<regs, cur, inputs>>

StopGpif ==
    /\ SetRegister(Address.waveform_ctrl_stat, {})
    /\ cur' = Off /\ inputs' = NoInputs
    /\ UNCHANGED <<left, right>>

\* SWITCH_NOW: the GPIF goes to the destination state and by its left edge on.
Switch ==
    /\ SetRegister(Address.waveform_switch,
            regs[Address.waveform_switch] \cup Flag("SWITCH_NOW") \cup Flag("WAVEFORM_SWITCH"))
    /\ cur' = left[ValueOf({x[2] : x \in {y \in regs[Address.waveform_switch] :
                                             y[1] = "DESTINATION_STATE"}})]
    /\ UNCHANGED <<left, right, inputs>>

Step ==
    /\ todo # <<>>
    /\ todo' = Tail(todo)
    /\ CASE Head(todo)[1] = "stop"     -> StopGpif
         [] Head(todo)[1] = "power"    -> PowerCycle
         [] Head(todo)[1] = "waveform" -> WriteWaveform(Head(todo)[2])
         [] Head(todo)[1] = "switch"   -> Switch
         [] OTHER                      -> /\ WriteRegister(Head(todo))
                                          /\ UNCHANGED <<left, right, cur, inputs>>
    /\ UNCHANGED <<width, delay, busConfig>>

-----------------------------------------------------------------------------
(***************************************************************************)
(* One transition of the GPIF, for any values of the inputs the waveform    *)
(* selects, by the functions in its registers.                              *)
(***************************************************************************)
FunctionHolds(f, in) ==
    <<"Fx", ValueOf({i \in 0 .. 3 : in[i]})>> \in regs[FunctionBase + ValueOf(Bits(cur, f))]

Transition ==
    /\ todo = <<>> /\ cur # Off
    /\ inputs' \in [0 .. 3 -> BOOLEAN]
    /\ cur' = CASE FunctionHolds("f0", inputs') -> left[StateOf(cur)]
                [] ~FunctionHolds("f0", inputs') /\ FunctionHolds("f1", inputs') -> right[StateOf(cur)]
                [] OTHER -> cur
    /\ UNCHANGED <<width, delay, busConfig, todo, left, right, regs>>

Next ==
    \/ \E b \in BitWidths, d \in Delays : Start(b, d)
    \/ Stop
    \/ Step
    \/ Transition

Spec == Init /\ [][Next]_vars

-----------------------------------------------------------------------------
\* The ranges; only the words of functions hold truth tables.
TypeOK ==
    /\ width \in BitWidths \cup {8} /\ delay \in Delays \cup {0}
    /\ \A i \in 0 .. (FunctionBase - 1) : \A x \in regs[i] : x[1] # "Fx"
    /\ \A i \in FunctionBase .. (FunctionBase + 31) : \A x \in regs[i] : x[1] = "Fx"

Running == todo = <<>> /\ cur # Off

(***************************************************************************)
(* What the GPIF executes is a valid waveform, and its fields, taken apart  *)
(* by the layout of the hardware, are those of one of the rows of the       *)
(* table: no state is left out, overwritten or packed across its neighbours *)
(* (gpif.h:86-90, gpif.c:126-138, acquisition.c:18-124).                    *)
(***************************************************************************)
Unpacked(w) ==
    [n |-> StateOf(w), Fa |-> ValueOf(Bits(w, "Fa")), Fb |-> ValueOf(Bits(w, "Fb")),
     f0 |-> ValueOf(Bits(w, "f0")), f1 |-> ValueOf(Bits(w, "f1")),
     AL |-> Bits(w, "AL"), AR |-> Bits(w, "AR"), B |-> Bits(w, "B")]

ExecutesTable ==
    Running =>
        /\ Bits(cur, "VALID") = {0}
        /\ \A f \in {"Fc", "Fd", "REPEAT_COUNT", "BETA_DEASSERT"} : Bits(cur, f) = {}
        /\ StateOf(cur) \in 3 .. Done
        /\ Unpacked(cur) = rows[StateOf(cur)]

(***************************************************************************)
(* The GPIF goes from state to state as the table and its functions say,    *)
(* whatever its unused inputs do (acquisition.c:10-16, 18-124, gpif.c:126). *)
(***************************************************************************)
GoesByTable ==
    [][Running /\ Running' =>
        LET w == waveforms[StateOf(cur)]
            holds(f) == function(f, inputs'[0], inputs'[1])
        IN  StateOf(cur') = IF holds(w.f0) THEN w.left
                            ELSE IF holds(w.f1) THEN w.right ELSE StateOf(cur)]_vars

(***************************************************************************)
(* While the GPIF runs, the processor has left in every register the value  *)
(* meant for it by the last start and nothing of an earlier one: each field *)
(* of the structure is at the address of its register; over those,          *)
(* Fx3GpifStart has enabled its two requests, declared the waveforms valid  *)
(* and sent the GPIF to the first state of the delay asked for              *)
(* (gpif.h:162-209, gpif.c:61-79, 100-141, acquisition.c:126-150, 179-199). *)
(***************************************************************************)
Reg(name, j) == regs[Address[name] + j]

RunsAsConfigured ==
    Running =>
        /\ \A k \in DOMAIN Layout : \A j \in 0 .. (Layout[k][2] - 1) :
             Reg(Layout[k][1], j) = registers(Layout[k][1], j)
                \cup CASE Layout[k][1] = "intr_mask" -> GpifRequests
                       [] Layout[k][1] = "waveform_ctrl_stat" -> Flag("WAVEFORM_VALID")
                       [] Layout[k][1] = "waveform_switch" ->
                            Destination \cup Flag("SWITCH_NOW") \cup Flag("WAVEFORM_SWITCH")
                       [] OTHER -> {}
        /\ Reg("bus_config", 0) = Field("BUS_WIDTH", (width \div 8) - 1)

===============================================================================
