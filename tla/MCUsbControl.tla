----------------------------- MODULE MCUsbControl -----------------------------
(***************************************************************************)
(* Two buffers in the ring and one descriptor more for endpoint 0, all the  *)
(* allocator has; two commands that differ in their parameters.             *)
(***************************************************************************)
EXTENDS UsbControl
===============================================================================
