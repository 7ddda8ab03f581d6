------------------------- MODULE MCAcquisitionControl -------------------------
(***************************************************************************)
(* The module is finite as it is, with any number of acquisitions.          *)
(***************************************************************************)
EXTENDS AcquisitionControl
==============================================================================
