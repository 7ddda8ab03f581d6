----------------------------- MODULE UsbDescriptors -----------------------------
(***************************************************************************)
(* The descriptors and the decoding of requests: a host enumerates the      *)
(* device by what it reads, at super speed or, after the fallback, at high  *)
(* speed, while programs on it send requests of any kind.  SetupData,       *)
(* VendorCommand and GetDescriptor answer.  Here a request is answered in   *)
(* one step: how the handler is interleaved with main and the hardware is   *)
(* in UsbControl.                                                           *)
(*                                                                          *)
(* A descriptor is the sequence of its bytes, as the compiler lays it out.  *)
(***************************************************************************)
EXTENDS Integers, Sequences

CONSTANTS
    StdValues,          \* wValue and wLength of the standard requests
    StdLengths,
    AnyValues,          \* wValue, wIndex and wLength of the others
    AnyIndices,
    AnyLengths

ASSUME RequestsAssumption ==
    StdValues \cup StdLengths \cup AnyValues \cup AnyIndices \cup AnyLengths \subseteq 0 .. 2^16 - 1

VARIABLES
    speed,              \* "SS" or "HS"
    setup,              \* the eight bytes of the SETUP packet, <<>> for none
    count,              \* what the handler wrote to the XFER_CNT of which direction
    answer,             \* the answer of the handler
    ep,                 \* the registers of endpoint 2
    stage, heard,       \* the enumeration: the next request, and the last answer
    asked               \* is the SETUP one of the enumeration

vars == <<speed, setup, count, answer, ep, stage, heard, asked>>

Word(v) == <<v % 256, v \div 256>>
WordAt(bytes, i) == bytes[i] + 256 * bytes[i + 1]

-----------------------------------------------------------------------------
\* Descriptors.

DEVICE == 1
CONFIGURATION == 2
STRING_TYPE == 3
INTERFACE == 4
ENDPOINT == 5
BOS == 15
DEV_CAPABILITY == 16
SS_EP_COMPANION == 48

\* A part: its length, its type, its other fields.
Part(type, fields) == <<Len(fields) + 2, type>> \o fields

\* Mutant: total_length is that of the first part alone.
WholeShort(type, fields, parts) == Part(type, Word(Len(fields) + 4) \o fields) \o parts

\* A part with the total length of itself and the parts that follow.
Whole(type, fields, parts) == Part(type, Word(Len(fields) + 4 + Len(parts)) \o fields) \o parts

device_descriptor(s) ==
    Part(DEVICE, Word(IF s = "SS" THEN \h0300 ELSE \h0200)
                 \o <<255, 255, 255, IF s = "SS" THEN 9 ELSE 64>>
                 \o Word(\h04B4) \o Word(\h00F3) \o Word(1) \o <<1, 2, 3, 1>>)

configuration_descriptor(s) ==
    Whole(CONFIGURATION, <<1, 1, 0, \h80, 50>>,
        Part(INTERFACE, <<0, 0, 1, 255, 255, 255, 0>>)
        \o Part(ENDPOINT, <<\h82, 2>> \o Word(IF s = "SS" THEN 1024 ELSE 512) \o <<0>>)
        \o Part(SS_EP_COMPANION, <<0, 0>> \o Word(0)))

bos_descriptor ==
    Whole(BOS, <<2>>, Part(DEV_CAPABILITY, <<2, 2, 0, 0, 0>>)
                      \o Part(DEV_CAPABILITY, <<3, 0>> \o Word(14) \o <<3, 0>> \o Word(0)))

\* The 16-bit units of a literal, with the unit 0 the compiler adds.  The first is
\* the length and the type; of the characters only the number matters.
Literal(first, characters) ==
    Word(first) \o [i \in 1 .. (2 * characters) |-> IF i % 2 = 1 THEN 63 ELSE 0] \o Word(0)

string_descriptors == << Literal(\h0304, 1), Literal(\h030E, 6),
                         Literal(\h0310, 7), Literal(\h0312, 8) >>

\* <<>> stands for NULL.
GetDescriptor(type, no, s) ==
    CASE type = DEVICE /\ no = 0            -> device_descriptor(s)
      [] type = CONFIGURATION /\ no = 0     -> configuration_descriptor(s)
      [] type = STRING_TYPE /\ no < Len(string_descriptors) -> string_descriptors[no + 1]
      [] type = BOS /\ no = 0               -> bos_descriptor
      [] OTHER                              -> <<>>

-----------------------------------------------------------------------------
\* Requests, by the bytes of the SETUP packet.

OUT_STD == \h00
IN_STD == \h80
OUT_VENDOR == \h40
IN_VENDOR == \hC0

GET_DESCRIPTOR == 6
SET_CONFIGURATION == 9
CMD_GET_FW_VERSION == \hB0
CMD_START == \hB1
CMD_GET_REVID_VERSION == \hB2

Packet(type, request, value, index, length) ==
    <<type, request>> \o Word(value) \o Word(index) \o Word(length)

request_type == setup[1]
request == setup[2]
value == WordAt(setup, 3)
index == WordAt(setup, 5)
length == WordAt(setup, 7)

Direction == IF request_type >= 128 THEN "in" ELSE "out"
TypeBits == (request_type \div 32) % 4         \* 0 standard, 1 class, 2 vendor

Stall == [kind |-> "stall", bytes |-> <<>>]
Acknowledge == [kind |-> "ok", bytes |-> <<>>]
Beyond == 256                   \* a byte that is not part of the descriptor

\* Fx3UsbDmaDataIn and Fx3UsbDmaDataOut; DmaBuf has 32 bytes.
DmaDataIn(object, n) ==
    [kind |-> "in", bytes |-> [i \in 1 .. n |-> IF i <= Len(object) THEN object[i] ELSE Beyond]]
DmaDataOut(n) == [kind |-> "out", bytes |-> [i \in 1 .. n |-> IF i <= 32 THEN 0 ELSE Beyond]]

\* Mutant: the length is not limited by the length of the descriptor.
LengthAsAsked(descr) == length

\* What SetupData sends of a descriptor.
LengthOf(descr) ==
    LET len == IF descr[2] \in {CONFIGURATION, BOS} THEN WordAt(descr, 3) ELSE descr[1]
    IN  IF len < length THEN len ELSE length

Plain(n) == value = 0 /\ index = 0 /\ length = n

\* Mutant: neither the direction nor the length of CMD_START is checked.
VendorCommandTrusting ==
    CASE request = CMD_START -> DmaDataOut(3)
      [] request = CMD_GET_FW_VERSION /\ request_type = IN_VENDOR /\ Plain(2)    -> DmaDataIn(<<1, 3>>, 2)
      [] request = CMD_GET_REVID_VERSION /\ request_type = IN_VENDOR /\ Plain(1) -> DmaDataIn(<<1>>, 1)
      [] OTHER -> Stall

VendorCommand ==
    CASE request = CMD_START /\ request_type = OUT_VENDOR /\ Plain(3)            -> DmaDataOut(3)
      [] request = CMD_GET_FW_VERSION /\ request_type = IN_VENDOR /\ Plain(2)    -> DmaDataIn(<<1, 3>>, 2)
      [] request = CMD_GET_REVID_VERSION /\ request_type = IN_VENDOR /\ Plain(1) -> DmaDataIn(<<1>>, 1)
      [] OTHER -> Stall

GetDescriptorRequest ==
    LET descr == GetDescriptor(value \div 256, value % 256, speed)
    IN  IF request_type = IN_STD /\ descr # <<>> THEN DmaDataIn(descr, LengthOf(descr)) ELSE Stall

\* Mutant: the configurations count from 0.
ConfiguresZero ==
    TypeBits = 0 /\ request = SET_CONFIGURATION /\ request_type = OUT_STD /\ value = 0

Configures ==
    TypeBits = 0 /\ request = SET_CONFIGURATION /\ request_type = OUT_STD /\ value = 1

SetupData ==
    CASE TypeBits = 2                               -> VendorCommand
      [] TypeBits = 0 /\ request = GET_DESCRIPTOR   -> GetDescriptorRequest
      [] Configures                                 -> Acknowledge
      [] OTHER                                      -> Stall

\* Fx3UsbEndpointType_t, and the map to the types of USB 2.
ep_type == [ISOCHRONOUS |-> 0, INTERRUPT |-> 1, BULK |-> 2, CONTROL |-> 3]
usb2_type_map == [ISOCHRONOUS |-> 1, INTERRUPT |-> 3, BULK |-> 2, CONTROL |-> 0]

\* Fx3UsbEnableInEndpoint: the registers of the endpoint, for both speeds.
EnableInEndpoint(type, pktsize) ==
    [valid |-> TRUE, ss_type |-> ep_type[type] % 4, hs_type |-> usb2_type_map[type],
     payload |-> pktsize % 2^10, packet_size |-> pktsize % 2^11]

\* Mutant: the packet size is that of super speed at either speed.
PacketSizeOf1024(s) == 1024

PacketSizeOf(s) == IF s = "HS" THEN 512 ELSE 1024

-----------------------------------------------------------------------------
NoEp == [valid |-> FALSE, ss_type |-> 0, hs_type |-> 0, payload |-> 0, packet_size |-> 0]
Idle == [kind |-> "idle", bytes |-> <<>>]
NoCount == [dir |-> "none", n |-> 0]

Init ==
    /\ speed = "SS"
    /\ setup = <<>> /\ count = NoCount /\ answer = Idle
    /\ ep = NoEp
    /\ stage = "device" /\ heard = <<>> /\ asked = FALSE

\* The handler: EPI_XFER_CNT or EPO_XFER_CNT, then the callback SetupData.
Handle ==
    /\ setup # <<>> /\ answer = Idle
    /\ count' = [dir |-> Direction, n |-> length]
    /\ answer' = SetupData
    /\ ep' = IF Configures THEN EnableInEndpoint("BULK", PacketSizeOf(speed)) ELSE ep
    /\ UNCHANGED <<speed, setup, stage, heard, asked>>

\* A program on the host sends a request.
StdRequests == {Packet(t, r, v, 0, l) : t \in {IN_STD, OUT_STD, \h81},
                    r \in {GET_DESCRIPTOR, SET_CONFIGURATION}, v \in StdValues, l \in StdLengths}
AnyRequests == {Packet(t, r, v, i, l) :
                    t \in {OUT_VENDOR, IN_VENDOR, \h21, \hC1},
                    r \in {CMD_GET_FW_VERSION, CMD_START, CMD_GET_REVID_VERSION, GET_DESCRIPTOR},
                    v \in AnyValues, i \in AnyIndices, l \in AnyLengths}

Send(packet, enumerating) ==
    /\ setup = <<>>
    /\ setup' = packet
    /\ asked' = enumerating
    /\ UNCHANGED <<speed, count, answer, ep, stage, heard>>

Request == \E packet \in StdRequests \cup AnyRequests : Send(packet, FALSE)

\* The requests of the enumeration, each by what the last one told.
Get(type, no, n) == Packet(IN_STD, GET_DESCRIPTOR, 256 * type + no, 0, n)
EnumerationRequest ==
    CASE stage = "device"        -> Get(DEVICE, 0, IF speed = "SS" THEN 8 ELSE 64)
      [] stage = "wholeDevice"  -> Get(DEVICE, 0, heard[1])
      [] stage = "language"      -> Get(STRING_TYPE, 0, 255)
      [] stage = "string"        -> Get(STRING_TYPE, heard[16], 255)
      [] stage = "bos"           -> Get(BOS, 0, 5)
      [] stage = "wholeBos"     -> Get(BOS, 0, WordAt(heard, 3))
      [] stage = "configuration" -> Get(CONFIGURATION, 0, 9)
      [] stage = "wholeConfiguration" -> Get(CONFIGURATION, 0, WordAt(heard, 3))
      [] stage = "configure"     -> Packet(OUT_STD, SET_CONFIGURATION, heard[6], 0, 0)

After(s) ==
    CASE s = "device"        -> "wholeDevice"
      [] s = "wholeDevice"  -> "string"
      [] s = "string"        -> "language"
      [] s = "language"      -> IF speed = "SS" THEN "bos" ELSE "configuration"
      [] s = "bos"           -> "wholeBos"
      [] s = "wholeBos"     -> "configuration"
      [] s = "configuration" -> "wholeConfiguration"
      [] s = "wholeConfiguration" -> "configure"
      [] s = "configure"     -> "configured"

Enumerate ==
    /\ stage # "configured"
    /\ Send(EnumerationRequest, TRUE)

\* The host takes the answer.
Take ==
    /\ answer # Idle
    /\ IF asked /\ answer.kind # "stall"
       THEN /\ stage' = After(stage)
            /\ heard' = answer.bytes
       ELSE UNCHANGED <<stage, heard>>
    /\ setup' = <<>> /\ answer' = Idle /\ count' = NoCount /\ asked' = FALSE
    /\ UNCHANGED <<speed, ep>>

\* The link falls back to high speed, and the host starts again.
FallBack ==
    /\ speed = "SS"
    /\ speed' = "HS"
    /\ setup' = <<>> /\ answer' = Idle /\ count' = NoCount /\ asked' = FALSE
    /\ stage' = "device" /\ heard' = <<>>
    /\ UNCHANGED ep

Next == Handle \/ Request \/ Enumerate \/ Take \/ FallBack

Spec == Init /\ [][Next]_vars

(***************************************************************************)
(* Requests are handled, their answers taken, and the enumeration gets its  *)
(* turn among the requests of other programs.                               *)
(***************************************************************************)
FairSpec == Spec /\ WF_vars(Handle) /\ WF_vars(Take) /\ SF_vars(Enumerate)

-----------------------------------------------------------------------------
(***************************************************************************)
(* The ranges: every byte of an answer is one of the descriptor or of       *)
(* DmaBuf, none from what lies beyond (main.c:115-124).                     *)
(***************************************************************************)
TypeOK ==
    /\ speed \in {"SS", "HS"}
    /\ setup \in Seq(0 .. 255)
    /\ answer.kind \in {"idle", "stall", "ok", "in", "out"}
    /\ answer.bytes \in Seq(0 .. 255)
    /\ ep.payload \in 0 .. 2^10 - 1 /\ ep.packet_size \in 0 .. 2^11 - 1

(***************************************************************************)
(* A data stage goes in the direction the host asked for and for which the  *)
(* handler set the transfer count, with no more bytes than that when it is  *)
(* IN and exactly those when it is OUT, where the handler waits for them    *)
(* (usb.c:370-384, 481-498, main.c:24-86, 112-124).                         *)
(***************************************************************************)
DataStageAsAsked ==
    answer.kind \in {"in", "out"} =>
        /\ count.dir = answer.kind
        /\ Len(answer.bytes) <= count.n
        /\ answer.kind = "out" => Len(answer.bytes) = count.n

(***************************************************************************)
(* A host that walks through a whole descriptor by the lengths of its parts *)
(* finds the parts of PartsOf, with their lengths, as many as announced, and *)
(* ends at the total length (descriptors.c:8-223).  The code sends the       *)
(* companion of super speed at high speed too, where USB 2.0 knows none.     *)
(***************************************************************************)
LengthsOfType == [t \in {DEVICE, CONFIGURATION, INTERFACE, ENDPOINT, BOS, DEV_CAPABILITY,
                         SS_EP_COMPANION} |->
    CASE t = DEVICE -> {18} [] t = CONFIGURATION -> {9} [] t = INTERFACE -> {9}
      [] t = ENDPOINT -> {7} [] t = BOS -> {5} [] t = DEV_CAPABILITY -> {7, 10}
      [] t = SS_EP_COMPANION -> {6}]

\* Is there a part at byte i, with a length of its type, that ends within the bytes?
PartAt(bytes, i) ==
    i < Len(bytes) /\ bytes[i + 1] \in DOMAIN LengthsOfType
        /\ bytes[i] \in LengthsOfType[bytes[i + 1]] /\ i + bytes[i] <= Len(bytes) + 1

\* The types of the parts from byte i on, when walk has those from each later byte on.
WalkFrom(walk, bytes, i) ==
    CASE i = Len(bytes) + 1 -> <<>>
      [] PartAt(bytes, i)   -> <<bytes[i + 1]>> \o walk[i + bytes[i]]
      [] OTHER              -> <<"lost">>

\* The types of the parts a host finds that walks through the bytes.
Walk(bytes) ==
    LET walk[i \in 1 .. (Len(bytes) + 1)] == WalkFrom(walk, bytes, i) IN walk[1]

PartsOf ==
    [t \in {DEVICE, CONFIGURATION, BOS} |->
        CASE t = DEVICE        -> <<DEVICE>>
          [] t = CONFIGURATION -> <<CONFIGURATION, INTERFACE, ENDPOINT, SS_EP_COMPANION>>
          [] t = BOS           -> <<BOS, DEV_CAPABILITY, DEV_CAPABILITY>>]

WalksThrough ==
    answer.kind = "in" /\ request = GET_DESCRIPTOR /\ length >= 64 =>
        LET type == value \div 256
        IN  IF type = STRING_TYPE THEN answer.bytes[1] = Len(answer.bytes)
                                  /\ 0 \notin {answer.bytes[2 * i + 1] + answer.bytes[2 * i + 2] :
                                                   i \in 0 .. (Len(answer.bytes) \div 2 - 1)}
            ELSE Walk(answer.bytes) = PartsOf[type]

\* The endpoint the host found in the descriptor of this speed is the one that is
\* enabled, with the type and packet size announced.
EndpointPart == SubSeq(configuration_descriptor(speed), 19, 25)

EndpointAsAnnounced ==
    /\ ep.valid
    /\ EndpointPart[2] = ENDPOINT /\ EndpointPart[3] = 128 + 2
    /\ ep.packet_size = WordAt(EndpointPart, 5)
    /\ IF speed = "SS" THEN ep.ss_type = EndpointPart[4]
       ELSE ep.hs_type = EndpointPart[4] /\ ep.payload = WordAt(EndpointPart, 5)

(***************************************************************************)
(* An enumeration that goes by what it reads is never stalled and ends with *)
(* the device configured and its endpoint enabled as announced, whatever    *)
(* else is asked of it and although the link may fall back on the way, or   *)
(* after a configuration at the other speed (main.c:110-137, usb.c:667-693, *)
(* descriptors.c:77-84, 163-170, 232-259).                                  *)
(***************************************************************************)
Configured == stage = "configured" /\ EndpointAsAnnounced
Enumerates == <>[]Configured

===============================================================================
