--------------------------------- MODULE MCUsb ---------------------------------
(***************************************************************************)
(* The link and the descriptors, checked side by side.  They share nothing: *)
(* the speed at which UsbDescriptors answers is any that UsbLink may reach. *)
(* So only one of the parts moves in a behaviour, and the other stays in    *)
(* one of its initial states.                                               *)
(*                                                                          *)
(* Four link events are enough for a connection, a fallback and one event   *)
(* in the middle of each.  The requests are for each descriptor and for the *)
(* number after the last of each type, with lengths below, at and above     *)
(* those of the descriptors and of DmaBuf.                                  *)
(***************************************************************************)
EXTENDS UsbDescriptors

CONSTANTS
    Parts,              \* those to check: "link", "descriptors"
    MaxEvents

ASSUME MaxEventsAssumption == MaxEvents \in Nat

VARIABLES part, reg, main, saved, isr, ack, expected, vbus, events, both

L == INSTANCE UsbLink
linkVars == <<reg, main, saved, isr, ack, expected, vbus, events, both>>

MCStdValues == {0, 1, 2} \cup {\h100, \h101, \h200, \h201, \h300, \h301, \h302, \h303, \h304,
                               \h400, \h600, \hF00, \hF01}
MCStdLengths == {0, 1, 2, 4, 9, 18, 31, 64, 255, 65535}

MCInit ==
    /\ part \in Parts
    /\ Init
    /\ L!Init
    /\ part # "link" => reg.OTG_CTRL \cup reg.DEV_PWR \cup reg.LNK_INTR = {} /\ ~vbus

MCNext ==
    \/ part = "link" /\ L!Next /\ UNCHANGED <<part, vars>>
    \/ part = "descriptors" /\ Next /\ UNCHANGED <<part, linkVars>>

MCSpec == MCInit /\ [][MCNext]_<<part, vars, linkVars>>

\* The fairness of each part.
MCFairSpec ==
    /\ MCSpec
    /\ WF_linkVars(part = "link" /\ L!MainStep) /\ WF_linkVars(part = "link" /\ L!IsrStep)
    /\ WF_linkVars(part = "link" /\ L!UsbCoreIsr) /\ WF_linkVars(part = "link" /\ L!GctlPowerIsr)
    /\ WF_linkVars(part = "link" /\ L!PhyFollows)
    /\ WF_vars(part = "descriptors" /\ Handle) /\ WF_vars(part = "descriptors" /\ Take)
    /\ SF_vars(part = "descriptors" /\ Enumerate)

-----------------------------------------------------------------------------
(***************************************************************************)
(* Clocks, modes, termination and interrupts agree with the kind of         *)
(* connection, unless CONNECT and DISCONNECT were latched together: TypeOK  *)
(* and ModesAgreeUnlessBoth of UsbLink (usb.c:66-291, 409-422).             *)
(***************************************************************************)
LinkModesAgree == L!TypeOK /\ L!ModesAgreeUnlessBoth

(***************************************************************************)
(* The same, also when both were latched: UsbLink!ModesAgree (usb.c:417).   *)
(***************************************************************************)
LinkModesAlwaysAgree == L!ModesAgree

(***************************************************************************)
(* The timeout of an LMP is not reported once the LMP was handled:          *)
(* UsbLink!NoLateTimeout (usb.c:394-406).                                   *)
(***************************************************************************)
NoLateTimeout == L!NoLateTimeout

(***************************************************************************)
(* The accesses of main and of the handler to the PHY do not cut into each  *)
(* other: UsbLink!PhyInOrder (usb.c:38-62, 242-244, 277).                   *)
(***************************************************************************)
PhyInOrder == L!PhyInOrder

(***************************************************************************)
(* No event of super speed undoes a fallback: UsbLink!FallbackIsFinal       *)
(* (usb.c:108-112, 415-422).                                                *)
(***************************************************************************)
FallbackIsFinal == L!FallbackIsFinal

(***************************************************************************)
(* Again and again main is in its loop and nothing keeps it from it:        *)
(* UsbLink!NothingWaitsForEver (usb.c:38-62, 344-530, main.c:186).          *)
(***************************************************************************)
NothingWaitsForEver == []<>(part = "link" => L!Idle /\ ~L!InterruptDue)

(***************************************************************************)
(* Endpoint 0 has the packet size announced: UsbLink!Ep0AsAnnounced         *)
(* (usb.c:187, descriptors.c:21).                                           *)
(***************************************************************************)
Ep0AsAnnounced == L!Ep0AsAnnounced

(***************************************************************************)
(* Every byte of a data stage is one of the descriptor or of DmaBuf, and    *)
(* the stage has the direction and no more than the length the host asked   *)
(* for: TypeOK and DataStageAsAsked of UsbDescriptors (usb.c:370-384,       *)
(* 481-498, main.c:24-86, 112-124).                                         *)
(***************************************************************************)
DataStageOfTheObject == TypeOK /\ DataStageAsAsked

(***************************************************************************)
(* An enumeration ends with the device configured as it announced:          *)
(* UsbDescriptors!Enumerates (main.c:110-137, usb.c:667-693,                *)
(* descriptors.c:8-259).                                                    *)
(***************************************************************************)
HostEnumerates == <>[](part = "descriptors" => Configured)

================================================================================
