--------------------------------- MODULE MCGpif ---------------------------------
(***************************************************************************)
(* The table of waveforms executed clock by clock, and its way into the     *)
(* hardware, checked side by side.  They share the table, GpifTable, and no *)
(* state: GpifDriver shows that the hardware executes the table with the    *)
(* registers meant for it, whatever those are, which GpifSampler takes for  *)
(* granted.  So only one of the parts moves in a behaviour, and the other   *)
(* stays in one of its initial states.                                      *)
(*                                                                          *)
(* Buffers of 12 bytes, the smallest size acquisition.c allows, hold 12, 6, *)
(* 4 or 3 samples; the delays are on both sides of every case distinction.  *)
(***************************************************************************)
EXTENDS GpifSampler

CONSTANTS
    Parts,              \* those to check: "sampler", "driver"
    DriverDelays

\* Delays of 16 bits, as they are in CMD_START.
ASSUME DriverDelaysAssumption == \A d \in DriverDelays : d \in Nat /\ d < 65536

VARIABLES part, width, limit, busConfig, todo, left, right, regs, cur, inputs

D == INSTANCE GpifDriver WITH delay <- limit, Delays <- DriverDelays
driverVars == <<width, limit, busConfig, todo, left, right, regs, cur, inputs>>

MCInit ==
    /\ part \in Parts
    /\ Init
    /\ D!Init
    /\ part # "sampler" => bits = 8 /\ delay = 0

MCNext ==
    \/ part = "sampler" /\ Next /\ UNCHANGED <<part, driverVars>>
    \/ part = "driver" /\ D!Next /\ UNCHANGED <<part, vars>>

MCSpec == MCInit /\ [][MCNext]_<<part, vars, driverVars>>

-----------------------------------------------------------------------------
(***************************************************************************)
(* What the GPIF executes are the rows of the table, and registers of       *)
(* functions and others do not overlap: ExecutesTable and TypeOK of         *)
(* GpifDriver (gpif.h:86-90, gpif.c:126-138, acquisition.c:18-124).         *)
(***************************************************************************)
ExecutesTable == D!TypeOK /\ D!ExecutesTable

(***************************************************************************)
(* While the GPIF runs, every register has the value meant for it by the    *)
(* last start: GpifDriver!RunsAsConfigured (gpif.h:162-209, gpif.c:61-79,   *)
(* 100-141, acquisition.c:126-150, 179-199).                                *)
(***************************************************************************)
RunsAsConfigured == D!RunsAsConfigured

(***************************************************************************)
(* The GPIF goes from state to state as the table and its functions say:    *)
(* GpifDriver!GoesByTable (acquisition.c:10-16, 18-124, gpif.c:126).        *)
(***************************************************************************)
GoesByTable == D!GoesByTable

================================================================================
