--------------------------- MODULE MCDeviceLifetime ---------------------------
(***************************************************************************)
(* Small instances of DeviceLifetime for TLC: two handles, so that an      *)
(* engine is stopped and started for the other user and a close need not   *)
(* be the last, and two DMA buffers, so that an allocation fails between.  *)
(***************************************************************************)
EXTENDS DeviceLifetime

CONSTANTS h1, h2
=============================================================================
