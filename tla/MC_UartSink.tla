----------------------------- MODULE MC_UartSink -----------------------------
(***************************************************************************)
(* Short frames for UartSink, and bytes that may be taken for lengths.      *)
(***************************************************************************)
EXTENDS UartSink

TwoFrames == {<<0, 2>>, <<2, 3, 0>>}
=============================================================================
