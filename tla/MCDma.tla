--------------------------------- MODULE MCDma ---------------------------------
(***************************************************************************)
(* The allocator of descriptors and the transfers, checked side by side.    *)
(* They share nothing: DmaDriver fills and starts one descriptor, whichever *)
(* the allocator gave.  So only one of the parts moves in a behaviour, and  *)
(* the other stays in one of its initial states.                            *)
(*                                                                          *)
(* Four descriptors are enough for a free list of every shape up to length  *)
(* four beside descriptors in use and fresh ones, and for exhaustion.  The  *)
(* lengths are those of the command of CMD_START and of the longest         *)
(* descriptor.                                                              *)
(***************************************************************************)
EXTENDS DmaDescriptor

CONSTANTS
    Parts,              \* those to check: "allocator", "driver"
    Buffers, Lengths

ASSUME LengthsAssumption ==
    \A length \in Lengths : length \in Nat /\ 1 <= length /\ length <= 512

VARIABLES part, now, todo, outcome, cache, dirty, memory, STATUS, INTR, SIZE, job, moved

D == INSTANCE DmaDriver
driverVars == <<now, todo, outcome, cache, dirty, memory, STATUS, INTR, SIZE, job, moved>>

MCInit ==
    /\ part \in Parts
    /\ Init
    /\ D!Init
    /\ part # "allocator" => \A d \in Descriptor : dscrChain[d] = NoDescriptor
    /\ part # "driver" => \A s \in D!Socket : STATUS[s] = {}

MCNext ==
    \/ part = "allocator" /\ Next /\ UNCHANGED <<part, driverVars>>
    \/ part = "driver" /\ D!Next /\ UNCHANGED <<part, vars>>

\* The fairness is that of DmaDriver.
MCSpec ==
    /\ MCInit /\ [][MCNext]_<<part, vars, driverVars>>
    /\ WF_driverVars(part = "driver" /\ D!Access)
    /\ \A s \in D!Socket : /\ WF_driverVars(part = "driver" /\ D!Enable(s))
                           /\ WF_driverVars(part = "driver" /\ D!Disable(s))
                           /\ WF_driverVars(part = "driver" /\ D!Move(s))

-----------------------------------------------------------------------------
(***************************************************************************)
(* A socket loads what the caller asked for, and no descriptor has room for *)
(* more than a buffer: LoadsAsAsked and TypeOK of DmaDriver (dma.c:71-172). *)
(***************************************************************************)
LoadsAsAsked == D!TypeOK /\ D!LoadsAsAsked

(***************************************************************************)
(* A transfer ends with the event of its own data or its own error, and an  *)
(* abort with a socket that stopped: EndsWithItsOwn and StopsWhenAborted of *)
(* DmaDriver (dma.c:61-69, 90-123).                                         *)
(***************************************************************************)
EndsWithItsOwn == D!EndsWithItsOwn /\ D!StopsWhenAborted

(***************************************************************************)
(* A call returns: DmaDriver!CallsReturn (dma.c:61-69, 90-123).             *)
(***************************************************************************)
CallsReturn == D!CallsReturn

================================================================================
