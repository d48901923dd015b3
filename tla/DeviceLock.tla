----------------------------- MODULE DeviceLock -----------------------------
(***************************************************************************)
(* The device lock manager of tf_open.c: processes that open and close the *)
(* same device index through topfield_open and topfield_close.  A process  *)
(* steps at the system calls the code makes (open+flock, write, open+read, *)
(* kill, open_usb_dev, close), so every interleaving of them is explored.  *)
(*                                                                         *)
(* The lock file /tmp/puppy outlives its holders: it is opened O_CREAT     *)
(* without O_TRUNC and never cleared, so it holds the pid last written.    *)
(* SIGHUP has its default disposition: the process ends, and the kernel    *)
(* closes its descriptors, releasing the flock and the USB device.  A      *)
(* process that ends is started again (the same pid stands for any later   *)
(* process that reuses it).                                                 *)
(***************************************************************************)
EXTENDS FiniteSets

CONSTANTS
    Procs,       \* the processes using the device index
    None

\* tf_lock_t values a caller may pass (TF_LOCK_NONE, "Do not use!", is left out)
LockModes == {"STD", "HUP"}

VARIABLES
    pc,        \* where each process is in topfield_open / topfield_close
    lock,      \* topfield_open's lock argument, demoted to STD after one HUP
    pid,       \* the pid read from the lock file in the HUP path
    holder,    \* the process whose lock_fd holds the flock, or None
    pidfile,   \* the pid in the lock file, None if it is empty
    usb,       \* the processes with the USB device open (tf->dev)
    hup        \* the processes with a SIGHUP pending

vars == <<pc, lock, pid, holder, pidfile, usb, hup>>

Pcs == {"idle", "flock", "writepid", "readpid", "kill", "usbopen", "using",
        "closelock"}

-----------------------------------------------------------------------------
(* topfield_open                                                            *)

\* Entry: the caller picks the lock policy
Open(p) ==
    /\ pc[p] = "idle"
    /\ \E m \in LockModes : lock' = [lock EXCEPT ![p] = m]
    /\ pc' = [pc EXCEPT ![p] = "flock"]
    /\ UNCHANGED <<pid, holder, pidfile, usb, hup>>

\* Mutant: the result of flock not tested
FlockIgnoresResult(p) ==
    /\ pc[p] = "flock"
    /\ holder' = p
    /\ pc' = [pc EXCEPT ![p] = "writepid"]
    /\ UNCHANGED <<lock, pid, pidfile, usb, hup>>

\* Mutant: the policy never demoted, so the HUP path is taken on every retry
FlockRetriesHup(p) ==
    /\ pc[p] = "flock"
    /\ IF holder = None
         THEN /\ holder' = p
              /\ pc' = [pc EXCEPT ![p] = "writepid"]
         ELSE /\ UNCHANGED holder
              /\ pc' = [pc EXCEPT ![p] = IF lock[p] = "HUP" THEN "readpid" ELSE "idle"]
    /\ UNCHANGED <<lock, pid, pidfile, usb, hup>>

\* The lock file not opened or not locked ("Already locked, or we don't have
\* enough privs"): the descriptor is closed; with TF_LOCK_HUP the policy drops
\* to STD and the pid is looked up, otherwise topfield_open returns 1.
LockRefused(p) ==
    /\ UNCHANGED holder
    /\ IF lock[p] = "HUP"
         THEN /\ lock' = [lock EXCEPT ![p] = "STD"]
              /\ pc' = [pc EXCEPT ![p] = "readpid"]
         ELSE /\ pc' = [pc EXCEPT ![p] = "idle"]
              /\ UNCHANGED lock

\* open(O_RDWR | O_CREAT), which may fail (permissions), and flock(LOCK_EX |
\* LOCK_NB), which fails while another descriptor holds the lock
Flock(p) ==
    /\ pc[p] = "flock"
    /\ \/ /\ holder = None
          /\ holder' = p
          /\ pc' = [pc EXCEPT ![p] = "writepid"]
          /\ UNCHANGED lock
       \/ /\ holder # None
          /\ LockRefused(p)
       \/ LockRefused(p)          \* open failed
    /\ UNCHANGED <<pid, pidfile, usb, hup>>

\* write(lock_fd, "<pid>\n") at offset 0 of the freshly opened file
WritePid(p) ==
    /\ pc[p] = "writepid"
    /\ pidfile' = p
    /\ pc' = [pc EXCEPT ![p] = "usbopen"]
    /\ UNCHANGED <<lock, pid, holder, usb, hup>>

\* Mutant: no pid > 0 test, so an empty file means kill(0, SIGHUP)
ReadPidNoZeroCheck(p) ==
    /\ pc[p] = "readpid"
    /\ pid' = [pid EXCEPT ![p] = pidfile]
    /\ pc' = [pc EXCEPT ![p] = "kill"]
    /\ UNCHANGED <<lock, holder, pidfile, usb, hup>>

\* open(O_RDONLY), read, atoi: an empty file gives pid 0 and the call gives up
ReadPid(p) ==
    /\ pc[p] = "readpid"
    /\ \/ /\ pid' = [pid EXCEPT ![p] = pidfile]   \* a local: None again once used
          /\ pc' = [pc EXCEPT ![p] = IF pidfile = None THEN "idle" ELSE "kill"]
       \/ /\ pc' = [pc EXCEPT ![p] = "idle"]        \* open(O_RDONLY) failed: return 1
          /\ UNCHANGED pid
    /\ UNCHANGED <<lock, holder, pidfile, usb, hup>>

\* kill(pid, SIGHUP), sleep(2), and back to the top of the loop; a failed
\* kill (EPERM: another user's process) gives up with 1
Kill(p) ==
    /\ pc[p] = "kill"
    /\ pid' = [pid EXCEPT ![p] = None]
    /\ \/ /\ hup' = hup \cup {pid[p]}
          /\ pc' = [pc EXCEPT ![p] = "flock"]
       \/ /\ pc' = [pc EXCEPT ![p] = "idle"]
          /\ UNCHANGED hup
    /\ UNCHANGED <<lock, holder, pidfile, usb>>

\* open_usb_dev: success returns 0; failure closes the lock and returns -1
UsbOpen(p) ==
    /\ pc[p] = "usbopen"
    /\ \/ /\ usb' = usb \cup {p}
          /\ pc' = [pc EXCEPT ![p] = "using"]
          /\ UNCHANGED holder
       \/ /\ holder' = None
          /\ pc' = [pc EXCEPT ![p] = "idle"]
          /\ UNCHANGED usb
    /\ UNCHANGED <<lock, pid, pidfile, hup>>

-----------------------------------------------------------------------------
(* topfield_close: close_usb_dev, then close(lock_fd)                       *)

\* close_usb_dev: releases interface 0 (or resets the device on Linux 2.6.0
\* to 2.6.10), ignoring the result, and closes the descriptor, so the device
\* is let go whatever the ioctl did
CloseUsbDev(p) == usb' = usb \ {p}

CloseUsb(p) ==
    /\ pc[p] = "using"
    /\ CloseUsbDev(p)
    /\ pc' = [pc EXCEPT ![p] = "closelock"]
    /\ UNCHANGED <<lock, pid, holder, pidfile, hup>>

CloseLock(p) ==
    /\ pc[p] = "closelock"
    /\ holder' = None
    /\ pc' = [pc EXCEPT ![p] = "idle"]
    /\ UNCHANGED <<lock, pid, pidfile, usb, hup>>

-----------------------------------------------------------------------------
(* A pending SIGHUP ends the process wherever it is                         *)

Hangup(p) ==
    /\ p \in hup
    /\ hup' = hup \ {p}
    /\ holder' = IF holder = p THEN None ELSE holder
    /\ usb' = usb \ {p}
    /\ pc' = [pc EXCEPT ![p] = "idle"]
    /\ pid' = [pid EXCEPT ![p] = None]
    /\ UNCHANGED <<lock, pidfile>>

-----------------------------------------------------------------------------

\* No process runs topfield_open yet; the lock file may be left by an
\* earlier run, holding any pid, or be empty
Init ==
    /\ pc = [p \in Procs |-> "idle"]
    /\ lock = [p \in Procs |-> "STD"]
    /\ pid = [p \in Procs |-> None]
    /\ holder = None
    /\ pidfile \in Procs \cup {None}
    /\ usb = {}
    /\ hup = {}

\* The steps that run by themselves once started: a system call returns
Progress(p) ==
    Flock(p) \/ WritePid(p) \/ ReadPid(p) \/ Kill(p) \/ UsbOpen(p) \/ CloseLock(p)

Next ==
    \E p \in Procs :
        Open(p) \/ Progress(p) \/ CloseUsb(p) \/ Hangup(p)

\* Each process's own steps and a pending signal's delivery are fair; when a
\* caller opens or closes the device is its own choice
Spec ==
    /\ Init /\ [][Next]_vars
    /\ \A p \in Procs : WF_vars(Progress(p)) /\ WF_vars(Hangup(p))

-----------------------------------------------------------------------------
(* Properties                                                               *)

TypeOK ==
    /\ pc \in [Procs -> Pcs]
    /\ lock \in [Procs -> LockModes]
    /\ pid \in [Procs -> Procs \cup {None}]
    /\ holder \in Procs \cup {None}
    /\ pidfile \in Procs \cup {None}
    /\ usb \subseteq Procs /\ hup \subseteq Procs

\* The lock exists because two processes on the device stall the USB bus: a
\* process has the device open (open_usb_dev to close_usb_dev) only while it
\* holds the flock, so no two ever have it open together.
DeviceExclusive == \A p \in usb : holder = p

\* spec.md 4.7: the HUP policy signals "the pid recorded by the current
\* holder": every SIGHUP topfield_open sends goes to the process holding the
\* lock at that moment.
HupOnlyToHolder ==
    [][\A q \in Procs : q \notin hup /\ q \in hup' => q = holder]_vars

\* topfield_open tries the HUP pre-emption once ("Don't try more than once")
\* and then returns, whoever holds the lock and for however long; so does
\* topfield_close.
OpenReturns ==
    \A p \in Procs :
        pc[p] \in Pcs \ {"idle", "using"} ~> pc[p] \in {"idle", "using"}

=============================================================================
