# Verification of fx3lafw

fx3lafw is firmware that makes a logic analyzer of a Cypress FX3: the GPIF
samples up to 32 pins, DMA sockets move the samples through a ring of buffers
to USB endpoint 2, and a host (sigrok) controls it by vendor requests on
endpoint 0.  This directory holds TLA+ models of the firmware, the TLC
configurations that check them, and TLAPS proofs.  Line numbers refer to `src/`.

## The system

There is one processor.  `main` sets everything up and then loops, polling about
once a second; everything else happens in interrupt handlers, which do not nest
(nothing re-enables interrupts in a handler) but interrupt `main` anywhere.  The
hardware (GPIF, DMA sockets, USB core) runs concurrently with both.

| part | state it keeps | operations | correct when |
|---|---|---|---|
| acquisition (`acquisition.c`) | the ring: `gpif_buf`, `dma_buffer_descriptor`; `registers` | `setup_acquisition`, `start_acquisition`, `stop_acquisition`, `poll_acquisition`, the tables `waveforms` and `functions` | the host gets every sample in order, at an even rate, until a sample cannot be stored; then everything stops |
| GPIF driver (`bsp/gpif.c`) | GPIF and PIB registers, waveform memories | start, stop, configure, `Fx3GpifPibIsr`, status | the hardware executes the table of the last start; an error pauses the GPIF it belongs to and no later one |
| DMA (`bsp/dma.c`) | free list and watermark of the descriptors; socket registers | allocate, free, fill, start, abort, transfer, wait | a descriptor has one holder; a socket does what the call asked for; nothing waits for ever |
| USB control (`main.c`, `bsp/usb.c`) | endpoint registers, `DmaBuf` | `Fx3UsbUsbCoreIsr`, `SetupData`, `VendorCommand`, data stages, stall | each request is answered, with the right data |
| USB descriptors (`descriptors.c`) | none | `GetDescriptor` | a host that believes them can configure and use the device |
| USB link (`bsp/usb.c`) | clocks, PHY and mode registers | init, connect, super speed, high speed, LMP handshake, VBUS | clocks, PHY, controller and pull-up agree on one speed |
| clocks (`bsp/gctl.c`, `main.c`) | PLL and dividers | init, I/O matrix, reset | each clock is what its name says |
| UART (`bsp/uart.c`) | a FIFO | init, print, flush | the log is readable |
| GPIO (`bsp/gpio.c`) | override and pin registers | simple and complex pins | pins do not disturb each other |
| interrupts (`bsp/irq.c`, `vectors.S`) | VIC, vectors, processor mask | init, enable, disable | a handler runs for its own line, and for each |
| `elf2img.py`, `rdb/generator`, Makefiles | none | run on the developer's machine | the image holds the segments |

Interactions: the USB handler calls `SetupData`, which for CMD_START calls
`start_acquisition`; that one begins with `stop_acquisition`, which `main` also
calls, unlocked, when it finds the GPIF paused; the GPIF is paused by the
handler of the PIB when it raises GPIF_ERR.  `start_acquisition` and the
control endpoint take descriptors from one allocator.  `Fx3UsbConnect` leads, on
another set of events of the same handler, to the connection at one of the two
speeds, which the control endpoint then asks the registers for.

What is hard to test here: the order in which hardware is started while it
already runs; a handler that cuts into `stop_acquisition`; what an acquisition
leaves in latches and counters for the next; counters that must hit at the last
sample of a buffer and not one clock later; the free list that lives in words the
holders overwrite; data that goes through memory behind the cache; link events
latched while the handler or `main` is in the middle of changing the speed; what the
boot loader left in sockets, vectors and clocks.  The list, with the lines and
the properties that cover each point, is `hazards` in
`PROJECT.json`.

## The modules

```
CaptureStream  <--implements--  DmaRing  <--implements--  GpifSampler --uses--> GpifTable
DescriptorPool <--implements--  DmaDescriptor  <--used as it demands--  UsbControl
AcquisitionControl                          GpifDriver --loads--> GpifTable
DmaDriver     UsbLink     UsbDescriptors     Clocks     Uart     Gpio     Interrupts
```

Most of the firmware's steps are accesses to registers in a fixed order.  So in
most modules a function of the code is a sequence of accesses (`stopOps`,
`initOps` and the like), a program counter is what is left of it, and one
action executes one access, so that interrupts and the hardware come between any two.

**DmaDescriptor** is the allocator of `bsp/dma.c`: the watermark, the list head
and the word `dscr_chain` of each descriptor, which is the link of the free list
when the descriptor is free and the links the sockets follow when it is in use.
`AllocateFromFreeList`, `AllocateFresh` and `AllocateFails` are the branches of
`Fx3DmaAllocateDescriptor`; `Fill` rewrites the word of a held descriptor with
anything.  **DescriptorPool** is what the callers rely on.  `result` and `calls`
(the parity of the number of calls) make the answers visible: without the parity
a second answer equal to the first would be no step at all.

**DmaRing** is the ring at the grain of a buffer.  `StartGpif`,
`StartFirstProducer`, `StartSecondProducer` and `StartConsumer` are the calls
of `start_acquisition`, between which the GPIF, the sockets and the host go on;
`Capture`, `Overrun`, `BeginCapture` and `Send` are the hardware.  The links are those of
`setup_descriptors`.  **CaptureStream** is the promise to the host: buffers in
order, none lost, none twice, an overrun only when all the buffers wait.

**GpifSampler** executes the table `waveforms` clock by clock, with the two
counters and the limits `start_acquisition` computes, for each width and delay.
It implements DmaRing: `thread` there is the parity of the captures here, so the
refinement says that the table changes thread exactly when a buffer is full.
The table itself, with its start states, is in **GpifTable**.

**GpifDriver** is how the table gets into the hardware: `GPIF_STATE` packs a row
into three words, `Fx3GpifConfigure` writes them under the numbers of the states
they are reached from, left and right, and `Fx3GpifConfigureCommon` copies
functions and the structure `registers` as words.  The hardware side unpacks the words by
the layout of `rdb/gpif.h`, and not by the macros of the driver.  So what GpifSampler
takes for granted, that the GPIF executes its table, is a property here.
`Fx3GpifStart` then acknowledges and unmasks the GPIF's requests and sets the valid
bit, alpha and the first state.  The registers hold what the processor left in
them: requests and status bits that the hardware changes are not in them.

**AcquisitionControl** is about who starts and who stops.  `stopOps` and `startOps`
list the register accesses of `stop_acquisition` and `start_acquisition`, in
order; `MainStep` and `IsrStep` execute one.  The hardware (a socket's
ENABLED follows its GO_ENABLE, the GPIF begins, loses a sample) may act between
any two.  Accesses no property can tell apart (clock divisor, DLL, second
write of the mask, the contents of the tables, the GPIF's own requests, which the
handler only logs, and their mask, alpha) are left out; GpifDriver has those of the GPIF.
Two variables are not in the program.  `live`: an acquisition was
started and has lost no sample since.  `raced`: the last CMD_START came while
`main` was in `stop_acquisition`.  The disagreements below are such races; the
properties named `...UnlessRaced` say that there are no others.

**UsbControl** is the control endpoint at both speeds.  `SetupData` gives the
steps of the handler for each request, `mainOps` those of `main` before its
loop, with an allocation in two halves since an interrupt may come between them.
`DmaBuf` has a value in memory, where the DMA sees it, and a cache line, where
the processor does; the line may be written back and dropped at any time.  Its
property `AllocatorUsedRight` is that main and the handler together are a
behaviour of DmaDescriptor, which closes the assumption that module makes
about its callers.

**DmaDriver** is a transfer: the Fill functions build the four words of a
descriptor bit by bit, through the cache; `Fx3DmaTransferStart` and
`Fx3DmaSimpleTransferRead`/`Write` program the socket and wait; the socket reads what is in
memory.  It starts with sockets in any state a boot loader may leave: running, with a
descriptor of its own, with events raised.  `moved` counts the bytes of the
present call that went over the bus.

**UsbLink** is the connection: `Fx3UsbInit`, `Fx3UsbConnect` and
`Fx3UsbEnablePhy` in `main`, the LNK, PROT and DEV_CTL branches of the USB
handler, the power handler, `Fx3UsbConnectSuperSpeed`, `Fx3UsbConnectHighSpeed`, and the
strobes and acknowledgements of `Fx3UsbWritePhyReg`.  `both` (CONNECT and DISCONNECT were
once latched together) is there for the same reason as `raced`.

**UsbDescriptors** holds the descriptors as bytes, as the compiler lays the
structures out, and decodes the eight bytes of a SETUP as `SetupData` and
`VendorCommand` do, at the speed of the moment.  `Enumerate` is a host that sends the request
which the answers so far call for, with the lengths and numbers it has read; `Request`
is anybody else.  Interleavings inside a request are UsbControl's business.

**Clocks** is the PLL, all dividers computed from it at build time, and what
`start_acquisition` makes of flags and delay: divisor, half division, bus width, limits.
**Uart** is the log: `main` and the handlers test TX_SPACE and write to one FIFO.
**Gpio** is the pins: the override registers, the conflict checks, the output
of a simple pin.  **Interrupts** is the way from the boot loader's vectors and
enables to our own, the masks `Fx3UsbEnablePhy` saves and restores, and which
handler the processor runs.

### The MC modules

Each extends the module it checks; the `.cfg` files hold the bounds.  Where
modules share no state and are no part of one property, one MC module checks
several side by side: it EXTENDS one, INSTANCEs the others, and has a variable
`part`, chosen at the start and constant, which says whose actions are taken.
The others stay in one initial state.  As no action and no part of a property mentions
two of them, a behaviour of the whole shows no more than one of a
part: `MCDma` is DmaDescriptor and DmaDriver, `MCGpif` is GpifSampler and GpifDriver, `MCUsb`
is UsbDescriptors and UsbLink, `MCPlatform` is Clocks, Uart, Gpio and Interrupts.
Properties of the instances that belong together are conjoined under one name there
(`LoadsAsAsked` is `D!TypeOK /\ D!LoadsAsAsked`, for example).

Operators introduced by a comment "Mutant" are variants of the definition that
follows, with a plausible bug; they are used nowhere, and exist to show that
each property fails when the code is wrong in that way.  A conjunction has one for each of
its parts.

## What the hardware is assumed to do

From how the code uses it, as none of it is in the repository:

- The GPIF goes to the left state if f0 holds, else to the right one if f1 holds,
  else it stays.  A counter at its limit signals a hit and is reloaded
  with 0 on the next clock, whether or not the state counts.
- DMA_RDY is asserted for the thread of the state when its socket is enabled and its
  current buffer empty.  A push without it loses the sample, raises GPIF_ERR and
  (by the table) goes to state 16.  The input latched by SAMPLE_DIN is the sample
  that is pushed next.
- A socket's ENABLED follows GO_ENABLE after some time, each way.
- PIB_INTR keeps GPIF_ERR until it is written 1, over a power cycle of the PIB.
  The status field is not PAUSED once WAVEFORM_VALID is 0.
- The host reaches the data and status stages only after SETUP_CLR_BUSY, and the
  data stage only with an enabled socket.
- A socket loads its descriptor when it becomes enabled, and works on it until it
  has stopped.  It raises the event of its direction if that is enabled in its
  status register; an error ends the transfer.
- SWITCH_NOW takes the GPIF to the destination state and from there by its left
  edge.  A power cycle of the PIB keeps the GPIF registers or resets them.
- The link reports events only while the super speed PHY is on; the PHY
  follows each strobe with its acknowledgement while it has power.  Event
  registers are cleared by writing 1.  VBUS changes at any time.
- The VIC knows one priority here and gives the lowest pending number first; it gives no
  further interrupt before VIC_ADDRESS is written.  No SETUP comes before the link is up.
- The UART drops a byte written to a full FIFO; the numbers of pins that do not
  exist address registers of something else.
- The data cache allocates on reads and may evict at any time.  (With the MMU off
  it may well hold no data at all, which is a case of this.)

## The runs

| run | instance | states | shows |
|---|---|---|---|
| `dma` | 5 descriptors (number 0 is never handed out) over any initial memory; transfers of 3 and 255 bytes, any sockets | 138,511 | the free list is exact and the allocator a pool, also when it is exhausted; sockets load what was asked for, and each call ends, with its own event |
| `ring` | 4 buffers, 10 captures | 556 | links, order of the starts and restarts give the stream; what is captured is sent |
| `gpif` | buffers of 12 bytes, 4 widths, delays 0 to 3, 6 captures; driver with delays 0, 1, 65535 | 159,451 | the table fills each buffer exactly, evenly but for delay 1; it reaches the hardware as written; nothing of an earlier start stays |
| `period_delay1` | delay 1 | violation | the period is not even: see below |
| `control` | complete | 9,143 | an acquisition is left alone until it loses a sample, then stopped; a CMD_START always leaves a running one; the flush comes when the socket has stopped |
| `control_stop_race` | complete | violation | main's stop can take the new acquisition apart |
| `control_stop_hangs` | complete | violation | and nobody may ever notice |
| `usb_control` | 3 descriptors, 2 buffers, 2 parameter values | 52,148 | requests are answered rightly and end; the allocator is used rightly |
| `usb` | 4 link events; every descriptor and the number after the last, lengths around theirs | 247,616 | modes agree with the speed; the handshake with the PHY is never mixed up; main returns to its loop again and again, with no interrupt due; every data stage is of the right object; a host enumerates |
| `usb_link_latched` | 4 link events | violation | the modes of two speeds mixed |
| `usb_link_ep0` | 4 link events | violation | endpoint 0 keeps the size of super speed |
| `platform` | all 256 flag bytes, 3 delays, 4 boot PLLs; FIFO of 2, 2 interrupts; pins 18, 50, 61; 8 raised lines | 38,394 | clocks are as named; messages of handlers are whole and the log goes out before a reset; pins stay apart; each interrupt runs its own handler and is served |

Why the bounds are enough.  Four buffers are the least with which the chain of
the producers, the chain of the consumer and the identity differ; ten captures
go round twice and a half.  A buffer of 12 bytes holds 12, 6, 4 or 3 samples, so
that the divisions by the widths are exact as they are for 6144; the delays lie on both
sides of each case of the table and of `delay < 2`, and six captures make each
thread come back to a buffer it has filled.  Four usable descriptors give each
shape of free list beside held and fresh ones, and exhaustion.  In `usb_control` the
ring and one transfer need every descriptor there is.  AcquisitionControl has no
bound: it is finite.  The proofs below do away with most of these bounds.

3 bytes are the parameters of CMD_START and 255 needs all the bits of a length
below a unit of 16; neither is a multiple of it.  Four link events (`MaxEvents`) are a connection, a
loss of it, and one event in the middle of each.  The
requests contain, for each type, the descriptors there are, one beyond, and lengths
below, at and above their lengths and that of `DmaBuf`.  `MaxInterrupts` and
`MaxSent` of Uart bound what happens between two resets: with a FIFO of two bytes a single
message fills it, and two interrupts can come around one test of TX_SPACE.  Pins 18
and 50 are in different words and share bit and instance; 61 is the first
that does not exist.  `MaxRaised` lets every line come twice, in any order; it also stands for
devices that do not raise their lines without end, for else the lowest number
would keep all others from being served.

Deadlock is checked in every run.

### Fairness

Weak fairness throughout, but for one case, and none for anything that need not happen:
samples, link events, requests, interrupts.

- DmaRing: an interrupt handler runs to its end, and the host keeps reading.
- AcquisitionControl: main polls and makes its steps when no handler runs, handlers
  run, sockets follow GO_ENABLE.
- UsbControl: the same of the processor, and a host that has begun a
  control transfer goes through with it.
- DmaDriver: the processor and the sockets, and a host that carries the data stage
  it began through, or fails.
- UsbLink: main, handlers, interrupts that are pending and enabled, the PHY.  A handler
  that does not acknowledge a cause is so entered for ever, which `NothingWaitsForEver`
  rules out: the number of link events is bounded, that of interrupts is not.
- UsbDescriptors: a request is handled and its answer taken.  The host that enumerates
  has strong fairness, as it competes with others for endpoint 0: operating systems
  queue control transfers.
- Uart: main, handlers, the transmitter.  Interrupts: main, handlers and an
  interrupt that stays pending.

### Disagreements found

1. *Delay 1 is not even* (`period_delay1`, acquisition.c:86).  When a buffer of
   thread 0 is full, state 9 goes straight to the push of the other thread, state
   12; when one of thread 1 is full, state 11 goes to state 9, whose address
   counter test no longer hits, and only then to state 10.  Every second
   buffer begins one clock late.  No sample is lost, and `gpif` shows that
   the buffers stay exact.
2. *A CMD_START during main's stop* (`control_stop_race`, acquisition.c:217).
   The handler stops and starts as it should, and main then finishes its own stop:
   on the sockets, the GPIF and the PIB of the new acquisition.
3. *And it may hang* (`control_stop_hangs`, bsp/dma.c:67).  Interrupted
   between clearing GO_ENABLE and testing ENABLED, main waits for a socket
   that the new acquisition keeps enabled; or the loss of a sample of the new
   acquisition is not noticed, as its interrupt was masked.

4. *Up and down in one read* (`usb_link_latched`, bsp/usb.c:417).  The handler serves
   DISCONNECT before CONNECT, whichever came first.  When the link came up and was
   lost in the meantime, it falls back to high speed and then puts the clocks,
   the termination and the endpoint manager's mode of super speed back, which
   nothing undoes.
5. *Packet size of endpoint 0* (`usb_link_ep0`, bsp/usb.c:187).  The descriptor of
   high speed announces 64 bytes, `Fx3UsbConnectSuperSpeed` sets 512 in the endpoint
   manager, and `Fx3UsbConnectHighSpeed` does not set 64 again.

`StartRecovers` in `control` is the other half of 2 and 3: the next CMD_START
repairs it all, unless main is the one that waits, which it does harmlessly until then.

A remark on the documentation: README.md:8-9 says that there is no high speed.
`Fx3UsbConnectHighSpeed` and a second set of descriptors implement it, and `usb`
shows that a host can enumerate and configure the device with it.

## The proofs

`DmaDescriptorProofs`, for every number of descriptors (`NumDescriptors` a
positive natural number, nothing else assumed):

- `TypeCorrect`, `FreeListCorrect`, `AllocatorIsPool`.  The invariant is `TypeOK`
  and `ListInv`: some enumeration of the freed descriptors threads the list
  from the last to the first.  `FreeListExact`, with its cardinality, is
  not convenient for induction; that the enumeration is a bijection and so has the length
  `Cardinality(Freed)` is shown at the end.  One lemma per action: a pop drops the last of
  the enumeration, a free appends, a fill writes only outside it, a fresh
  allocation needs the list, and therefore `Freed`, to be empty.

`DmaRingProofs`, for every even number of buffers from 2 and every bound on the
captures (`NumBuffersAssumption`, `MaxCapturedAssumption`; the code has 10):

- `TypeCorrect`, `ProducersKeepToTheirDescriptors`, `RingIsStream`.  The
  inductive invariant places everything relative to `Head`, the buffer the
  consumer sends next: the buffers that wait are the first `captured - sent`
  from `Head` on and hold consecutive captures; the producer in turn stands
  right behind the last of them, the other producer one buffer further
  (`LinkInv`).  `PhaseInv` says what is enabled between the calls of
  `start_acquisition`: the socket of thread 0 comes after that of thread 1, so
  nothing is captured that thread 1 could not take over.  Evenness is needed:
  going round the ring must keep the parity of a buffer.

`AcquisitionControlProofs`, without any assumption, as the module has no constant:

- `TypeCorrect`, `LeftAloneUnlessRaced`, `FlushedWhenStopped`, `CmdStartRecovers`.
  The inductive invariant is `TypeOK` and five parts, each about one party:
  what the start has done at each position of `startOps`, whatever was before
  (`StartInv`); that without a race main is not in its stop while the handler runs
  (`RaceInv`); where the flush falls and what main's stop has stopped by then (`FlushInv`,
  `StopInv`); and that an acquisition that lives has its sockets, its GPIF and its
  interrupt, and that main stops none that lives (`LiveInv`).
  `StartedUntilDoneUnlessRaced` alone is not inductive: it says nothing of the
  positions in which the start is half done.

`DmaDriverProofs`, for all buffers and every set of lengths from 1 to 512 bytes
(`LengthsAssumption`: 512 is the most that endpoint 0 takes in one packet, and the
longest transfer of the code, a descriptor, is below 256):

- `SocketLoadsAsAsked`, `TransferEndsWithItsOwn`.  First the words: a word is the set of its bits, and
  lemmas say which bits a shift, a mask and a field have, that a value of 16
  bits comes back from its bits (`ValueOfBits`), and what rounding up to 16 leaves (`RoundedUp`); together
  they give the fields a socket reads for the three kinds of descriptors
  (`ReadLoads`, `WriteLoads`, `RingLoads`), for every length and not only those of the run.  Then the calls:
  `DriverInv` says, of a call that made n of its accesses, which registers are set
  by now, whether the words are in memory, and that a job of the call can be in the socket
  only after GO_ENABLE was set for it (`TransferAt`, `ProduceAt`, `QuietAt`).  The
  properties say nothing of a call halfway, so they are not inductive: that old events are gone
  when the wait begins needs the socket to be seen stopped at access 4 and the flags cleared at access 6.

`GpifProofs`, of GpifSampler, for every size of a buffer that is a positive multiple of 12
bytes, every set of widths out of the four and every set of delays
(`BufferSizeAssumption`, `BitWidthsAssumption`, `DelaysAssumption`; the code has 6144
bytes and delays below 65536), and the assumptions of the ring:

- `TypeCorrect`, `CountersReachLimits`, `SampledAtOneRate`, `SamplerIsRing`.  The rows of
  the table are lemmas, one per state.  `BufferInv`: the address counter is the number of samples in
  the buffer in turn, and the other buffer is empty; `RateInv`: the data counter is the
  age of the last sample.  From the first it follows that a buffer is full exactly on a
  hit, and so that each clock is a step of DmaRing or a stutter.

`GpifProofs`, of GpifDriver, for every set of widths out of the four and of delays of 16 bits
(`BitWidthsAssumption`, `DriverDelaysAssumption`):

- `TableExecuted`, `RegistersAsConfigured`, `GoesByTableAlways`.  Two facts come before the
  states.  The three words of a state unpack to the row they were packed from (`WordsUnpack`):
  no field reaches into its neighbour (`PackedFields`), and a number of 8 bits is the sum of its bits
  (`ValueOfBits`).  The words of the structure are at the addresses of its registers (`LayoutWords`),
  as the sizes of its fields add up to them (`OffsetsAre`).  None of the properties is inductive, since
  each speaks only of a GPIF that runs.  `DriverInv` says what is in the memories, the functions and the
  registers after each of the 106 accesses of a start (`Place`), whatever an earlier one left there
  and whether or not the registers were reset in between; after the last of them, all of it is.

`UsbControlProofs`, for every number of buffers, every allocator with
descriptors for the ring and one transfer (`EnoughDescriptors`) and every set of parameters:

- `TypeCorrect`, `HostIsAnswered`, `StartUsesItsOwn`.  What main and the handler have
  left is a suffix of a list known from the request (`Rest`); the lemmas
  `Programs`, `Progress` and `Starting` give the next step from the present one, so that
  the invariant speaks of steps by name.  `MainInv` counts main's
  steps, `HandlerInv` and `HostInv` say what host and handler may be
  doing at each of the other's steps, `BufferInv` what `DmaBuf` holds in memory
  and in the cache, `PoolInv` where the one descriptor of endpoint 0 is.
- `AllocatorIsUsedRight`: each step is one of DmaDescriptor or none.  Put together with
  `FreeListCorrect`, that gives `FreeListStaysExact`, the free list in
  the program as a whole, with no assumption about callers left.

`PlatformProofs`:

- `PinsAreKeptApart`, for every set of pins that exist (`PinsAssumption`): the
  registers agree with what was set up (`GpioInv`).
- `EachHasItsHandler`, for any number of interrupts: while main has not yet written
  the vectors everything is masked, and what `Fx3UsbEnablePhy` restores is
  what it saved (`IrqInv`).
- `ClocksAreAsNamed`, for every divisor the boot loader may leave, all flags
  and all delays of 16 bits, under `BuildOptions`, the values of the makefile: other
  options give other frequencies, or none that fits.
- `MessagesAreKept`, for every depth of the FIFO, any strings and any number of interrupts
  (`UartAssumption`; a handler's message is not empty).  `UartInv` has two halves.
  `StillBooting`: with k accesses of `UartInit` to go, nothing interrupts, and main finds the space it
  tested for.  `Up`: a write of main that is due while a handler prints or the FIFO is full is
  a byte that may be lost (`Pending`), and it is counted with those that were; a handler
  that has printed w characters has them at the end of the output (`Handling`).  That every write
  follows its test, and the reset the flush (`Tested`), comes from the way the strings are
  put together, by the induction of `AllNumbers`.

`UsbProofs`, for any number of link events (`MaxEventsAssumption`), every set of values and
lengths of 16 bits in the requests (`RequestsAssumption`) and both speeds:

- `TimeoutsAreNotLate`.  The types of registers and lists of steps (`TypeInv`) and, of the timers,
  that a timeout which is pending after its LMP was handled is about to be cleared:
  the next step of the handler is the clearing (`TimerInv`).  That follows from every
  list being `Followed`: a step that stops a timer has the clearing of its timeout behind it.
- `ModesAgreeAlways`, `FallbackStays`.  Both speak only of moments in which no list is under
  way, so neither is inductive.  `ModeInv` says where in which list main and the handler
  are, and of each place which modes, clocks and masks the list has left there.  `Booting`: main is
  in its list of boot (`BootAt`).  `Enabling`: main writes the list of `Fx3UsbEnablePhy`, with or
  without an access to the PHY before it, and the pull-ups stay off up to step 17 (`EnablingAt`).
  `Running`: main is done and the handler is idle or at a place of the fallback
  (`FallingAt`) or of the connection (`RisingAt`), with lists that touch no mode (`Inert`)
  before and after.
- `StrobesInOrder`.  `PhyInv`: either the handshake is at rest, or exactly one
  of main and the handler is at a place of `phyOps`, and the place fixes request, acknowledgement
  and which strobe comes next (`PhyAt`).  It needs `ModeInv`: while main is in an access,
  no interrupt is enabled.
- `DataStagesFit`.  `DataInv`: what is in the SETUP registers is a packet (`Asks`), an answer fits the
  direction and length of its request (`AnswerFits`), and what the enumeration has heard
  suffices for the bytes its next request reads (`Heard`).  The lemmas about
  descriptors give their lengths and bytes from the way they are put together, in both speeds.
- `DescriptorsWalkThrough`.  `AnsweredInv`: the answer is what `SetupData` gives for the request in
  the registers, so a read of 64 bytes or more returns the descriptor as a whole (`ReadsWhole`).
  The walk is a recursive function; that there is one, and what it does at a part
  (`WalkSteps`), needs an induction over the bytes that remain, which is made with the set of the
  numbers that satisfy it in place of a predicate (`AllOfNat`).  A walk over joined descriptors
  goes through the first and on in the second (`Joined`), down to the parts of which the code
  puts them together.

Only model-checked:

- Every liveness property, as the prover knows neither fairness nor ENABLED:
  `CapturedIsSent`, `LossStopsDmaUnlessRaced`, `SetupAnswered`, `CallsReturn`,
  `NothingWaitsForEver`, `HostEnumerates` and `NothingStarves`.

## Not modelled

- A host that abandons a control transfer.  `Fx3DmaWaitForEvent` would then wait
  for ever (bsp/dma.c:121 asks "timeout?"); what the socket makes of the
  next transfer is not known.  The same holds for a GET_DESCRIPTOR of no bytes.
- A VBUS that comes after boot: the code only logs it, and so does UsbLink.
- The characters of the string descriptors.
- Delays by counting (`Fx3UtilDelayUs`), the LED, and the start-up code
  of `vectors.S` (stacks, memories, clearing of .bss); enabling the caches.
- The lines of the DMA descriptors in the cache: each fill cleans its own, which
  DmaDriver has for one descriptor and the other modules take for granted.
- The requests and status bits of the GPIF that the hardware changes, but for the
  error AcquisitionControl latches.  A read and write of one pin register, which
  Gpio takes as one step: what it has of a request latched between the two is
  that a written 0 leaves the request alone.
- `Fx3GpifInvalidate`, `Fx3GpifConfigureCompat` and `Fx3UartTxBytes`, which nothing calls.
- `elf2img.py`, the Makefiles and `rdb/generator`, which run on the developer's
  machine.  The headers of `rdb` are constants; a module takes from them the
  layouts its properties depend on.

## Plan

The model is complete but for the above, and the safety properties of the passing runs are
proved for every value of the constants.  What is left with TLC is liveness.
