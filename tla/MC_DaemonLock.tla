---------------------------- MODULE MC_DaemonLock ----------------------------
(* Two processes on one pid file, a holder and a contender at any moment;  *)
(* block_seconds 2 gives daemon_acquire_lock two sleeps between three tries. *)
EXTENDS DaemonLock

CONSTANTS d1, d2

MC_Procs == {d1, d2}
=============================================================================
