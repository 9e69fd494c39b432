----------------------------- MODULE MCStreaming -----------------------------
(***************************************************************************)
(* An instance of Streaming for TLC.                                       *)
(***************************************************************************)
EXTENDS Streaming
=============================================================================
