----------------------------- MODULE DaemonLock -----------------------------
(***************************************************************************)
(* The pid-file lock of daemon.c: processes calling daemon_lock_pid (one   *)
(* try, block_seconds 0) or daemon_acquire_lock(pidfile, BlockSeconds),    *)
(* holding the fcntl write lock, and releasing it with daemon_release_lock *)
(* or by exiting.  Each system call is a step; the errors of open, fcntl,  *)
(* ftruncate and write are possible outcomes of their steps.  The pid file *)
(* outlives its holders ("the file is not removed"), so it may name an     *)
(* earlier process.                                                        *)
(***************************************************************************)
EXTENDS Integers

CONSTANTS
    Procs,          \* processes contending for the pid file
    BlockSeconds,   \* block_seconds of the daemon_acquire_lock callers
    None

VARIABLES
    pc,       \* each process's place in the functions of daemon.c
    fn,       \* the entry point called: "lock_pid" or "acquire"
    tries,    \* daemon_acquire_lock's tries
    holder,   \* the process owning the fcntl write lock, or None
    file,     \* the pid in the pid file, None if it is empty
    ret       \* what the last call returned: 0 for a descriptor or "locked
              \* OK", -1, -2, or the pid daemon_lock_pid reports

vars == <<pc, fn, tries, holder, file, ret>>

Pcs == {"idle", "open", "setlk", "truncate", "write", "locked", "readpid"}

Block(p) == IF fn[p] = "lock_pid" THEN 0 ELSE BlockSeconds

\* daemon_acquire_lock returns -2; daemon_lock_pid turns that into -1
Error(p) ==
    /\ pc' = [pc EXCEPT ![p] = "idle"]
    /\ ret' = [ret EXCEPT ![p] = IF fn[p] = "lock_pid" THEN -1 ELSE -2]

-----------------------------------------------------------------------------
(* daemon_acquire_lock                                                      *)

Call(p) ==
    /\ pc[p] = "idle"
    /\ \E f \in {"lock_pid", "acquire"} : fn' = [fn EXCEPT ![p] = f]
    /\ tries' = [tries EXCEPT ![p] = 0]
    /\ pc' = [pc EXCEPT ![p] = "open"]
    /\ UNCHANGED <<holder, file, ret>>

\* Mutant: the pid file opened with O_TRUNC, emptied before the lock is tried
OpenPidfileTrunc(p) ==
    /\ pc[p] = "open"
    /\ \/ /\ pc' = [pc EXCEPT ![p] = "setlk"]
          /\ file' = None
          /\ UNCHANGED ret
       \/ /\ Error(p)
          /\ UNCHANGED file
    /\ UNCHANGED <<fn, tries, holder>>

\* open(pidfile, O_WRONLY | O_CREAT): an existing file is left as it is
OpenPidfile(p) ==
    /\ pc[p] = "open"
    /\ \/ /\ pc' = [pc EXCEPT ![p] = "setlk"]
          /\ UNCHANGED ret
       \/ Error(p)
    /\ UNCHANGED <<fn, tries, holder, file>>

\* Mutant: tries never counted, so a held lock is polled for ever
SetLockNoCount(p) ==
    /\ pc[p] = "setlk"
    /\ IF holder = None
         THEN /\ holder' = p
              /\ pc' = [pc EXCEPT ![p] = "truncate"]
         ELSE UNCHANGED <<holder, pc>>
    /\ UNCHANGED <<fn, tries, file, ret>>

\* Mutant: tries++ > block_seconds, one sleep more than the code allows
SetLockOffByOne(p) ==
    /\ pc[p] = "setlk"
    /\ IF holder = None
         THEN /\ holder' = p
              /\ pc' = [pc EXCEPT ![p] = "truncate"]
              /\ UNCHANGED <<tries, ret>>
         ELSE /\ UNCHANGED holder
              /\ tries' = [tries EXCEPT ![p] = @ + 1]
              /\ IF tries[p] > Block(p)
                   THEN /\ pc' = [pc EXCEPT ![p] =
                                    IF fn[p] = "lock_pid" THEN "readpid" ELSE "idle"]
                        /\ ret' = [ret EXCEPT ![p] = -1]
                   ELSE UNCHANGED <<pc, ret>>
    /\ UNCHANGED <<fn, file>>

\* lock_reg(F_SETLK, F_WRLCK) on the whole file.  Held elsewhere (EACCES or
\* EAGAIN): tries++ >= block_seconds gives up with -1, closing fd, and
\* daemon_lock_pid goes on to read the pid; otherwise sleep(1) and again.
SetLock(p) ==
    /\ pc[p] = "setlk"
    /\ IF holder = None
         THEN /\ holder' = p
              /\ pc' = [pc EXCEPT ![p] = "truncate"]
              /\ UNCHANGED <<tries, ret>>
         ELSE /\ UNCHANGED holder
              /\ tries' = [tries EXCEPT ![p] = @ + 1]
              /\ IF tries[p] >= Block(p)
                   THEN /\ pc' = [pc EXCEPT ![p] =
                                    IF fn[p] = "lock_pid" THEN "readpid" ELSE "idle"]
                        /\ ret' = [ret EXCEPT ![p] = -1]
                   ELSE UNCHANGED <<pc, ret>>
    /\ UNCHANGED <<fn, file>>

\* Any other errno of F_SETLK
SetLockError(p) ==
    /\ pc[p] = "setlk"
    /\ Error(p)
    /\ UNCHANGED <<fn, tries, holder, file>>

\* ftruncate(fd, 0), now that the lock is held; a failure closes fd
Truncate(p) ==
    /\ pc[p] = "truncate"
    /\ \/ /\ file' = None
          /\ pc' = [pc EXCEPT ![p] = "write"]
          /\ UNCHANGED <<holder, ret>>
       \/ /\ holder' = None
          /\ Error(p)
          /\ UNCHANGED file
    /\ UNCHANGED <<fn, tries>>

\* write "<pid>\n"; a short write closes fd.  FD_CLOEXEC failing is not
\* fatal, and the descriptor is returned (daemon_lock_pid returns 0).
WritePid(p) ==
    /\ pc[p] = "write"
    /\ \/ /\ file' = p
          /\ pc' = [pc EXCEPT ![p] = "locked"]
          /\ ret' = [ret EXCEPT ![p] = 0]
          /\ UNCHANGED holder
       \/ /\ holder' = None
          /\ Error(p)
          /\ UNCHANGED file
    /\ UNCHANGED <<fn, tries>>

-----------------------------------------------------------------------------
(* daemon_lock_pid after -1: open O_RDONLY, read, atoi, "fake it" as 1      *)

ReadPid(p) ==
    /\ pc[p] = "readpid"
    /\ pc' = [pc EXCEPT ![p] = "idle"]
    /\ ret' = [ret EXCEPT ![p] = IF file = None THEN 1 ELSE file]
    /\ UNCHANGED <<fn, tries, holder, file>>

\* daemon_release_lock(fd), or the holder's exit: closing fd releases the lock
Release(p) ==
    /\ pc[p] = "locked"
    /\ holder' = None
    /\ pc' = [pc EXCEPT ![p] = "idle"]
    /\ UNCHANGED <<fn, tries, file, ret>>

-----------------------------------------------------------------------------

\* No call in progress; the pid file may name an earlier daemon, or be empty
Init ==
    /\ pc = [p \in Procs |-> "idle"]
    /\ fn = [p \in Procs |-> "acquire"]
    /\ tries = [p \in Procs |-> 0]
    /\ holder = None
    /\ file \in Procs \cup {None}
    /\ ret = [p \in Procs |-> None]

\* The steps of a call in progress: each system call returns
Step(p) ==
    OpenPidfile(p) \/ SetLock(p) \/ SetLockError(p) \/ Truncate(p)
    \/ WritePid(p) \/ ReadPid(p)

Next == \E p \in Procs : Call(p) \/ Step(p) \/ Release(p)

\* A call in progress keeps running: each system call returns (with one of
\* its outcomes, the errors included).  An fcntl error is possible but never
\* forced, so a held lock is left only through the tries count.  Whether a
\* holder ever releases is the daemon's own business.
Fair(p) ==
    /\ WF_vars(OpenPidfile(p)) /\ WF_vars(SetLock(p)) /\ WF_vars(Truncate(p))
    /\ WF_vars(WritePid(p)) /\ WF_vars(ReadPid(p))

Spec == Init /\ [][Next]_vars /\ \A p \in Procs : Fair(p)

-----------------------------------------------------------------------------
(* Properties                                                               *)

TypeOK ==
    /\ pc \in [Procs -> Pcs]
    /\ fn \in [Procs -> {"lock_pid", "acquire"}]
    /\ tries \in [Procs -> 0..BlockSeconds + 1]
    /\ holder \in Procs \cup {None}
    /\ file \in Procs \cup {None}
    /\ ret \in [Procs -> {None, 0, 1, -1, -2} \cup Procs]

\* The pid file is truncated and written only under the lock: while a daemon
\* holds the lock it acquired, the file names it, whatever the processes
\* that failed to get the lock did to the file meanwhile.
PidNamesHolder == holder # None /\ pc[holder] = "locked" => file = holder

\* daemon_acquire_lock gives up after block_seconds sleeps: every call
\* returns, even while another daemon holds the lock for good.
CallsReturn ==
    \A p \in Procs : pc[p] \notin {"idle", "locked"} ~> pc[p] \in {"idle", "locked"}

=============================================================================
