--------------------------- MODULE MC_TfSession ---------------------------
(* Model-checking instance of TfSession: one one-shot command, one device *)
(* failure code, streams of up to two chunks.                             *)
EXTENDS TfSession

MC_OneShotCmds == {"DELETE"}
MC_DevFailCodes == {3}
MC_InitDevStates == DevStates

\* Once a late reply has put the host one reply behind, nothing stops it from
\* running ahead of the device; this bounds the packets queued on each endpoint.
MaxQueue == 2

QueueBound == Len(h2d) <= MaxQueue /\ Len(d2h) <= MaxQueue
=============================================================================
