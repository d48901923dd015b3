---------------------------- MODULE MC_DeviceLock ----------------------------
(* Three processes on one device index: enough for a holder, a process      *)
(* pre-empting it, and a third whose pid the lock file still names.         *)
EXTENDS DeviceLock

CONSTANTS p1, p2, p3

MC_Procs == {p1, p2, p3}
=============================================================================
