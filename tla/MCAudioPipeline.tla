--------------------------- MODULE MCAudioPipeline ---------------------------
(***************************************************************************)
(* Small instances of AudioPipeline for TLC.                               *)
(***************************************************************************)
EXTENDS AudioPipeline
=============================================================================
