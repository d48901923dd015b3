------------------------------- MODULE TfApi -------------------------------
(***************************************************************************)
(* What src/tf_io.h promises a caller of the tf_cmd_... API, with the USB  *)
(* exchange of each call left out.  A call begins, may run for a while,    *)
(* and returns one of the results its comment documents.  The caller's     *)
(* transaction follows the results (a get that returned 0 must be          *)
(* cancelled unless tf_cmd_get_next returns TF_ERR_DONE, and so on), and   *)
(* the device's transaction follows the caller's: once the link is quiet  *)
(* between calls, the device is in the transaction the last result left    *)
(* the caller in.  The one latitude: after a failed tf_cmd_get_next or     *)
(* tf_cmd_put_data the caller must still cancel, while the device may      *)
(* already have ended the transfer.                                        *)
(*                                                                         *)
(* dtxn is "busy" while the device's state is not settled: during a call,  *)
(* and between calls until the packets on the link are taken.              *)
(***************************************************************************)
EXTENDS Integers

VARIABLES
    fn,      \* the call running, "idle" between calls
    txn,     \* the caller's transaction: "none", "dir", "get", "put", "closed"
    lastFn,  \* the last call that returned
    last,    \* its result
    dtxn     \* the device's transaction, or "busy"

avars == <<fn, txn, lastFn, last, dtxn>>

Txns == {"none", "dir", "get", "put"}

\* TF_ERR_... codes of tf_io.h below zero
Failures == {-1, -2, -3, -4, -5, -6, -7, -100, -101, -102}

\* "They all return 0 if OK or < 0 on error"; tf_init returns 0 or -1; a
\* listing returns a code > 0 when there are no more entries; tf_cmd_get_next
\* returns TF_ERR_DONE (1) once all data has been retrieved.
Documented(f) ==
    CASE f = "init"                      -> {0, -1}
      [] f \in {"dir_first", "dir_next"} -> {0, 1} \cup Failures
      [] f = "get_next"                  -> {0, 1} \cup Failures
      [] OTHER                           -> {0} \cup Failures

\* The caller's transaction after f returned r
TxnAfter(f, r) ==
    CASE f = "init"                       -> IF r = 0 THEN "none" ELSE "closed"
      [] f \in {"dir_first", "dir_next"}  -> IF r = 0 THEN "dir" ELSE "none"
      [] f = "get"                        -> IF r = 0 THEN "get" ELSE "none"
      [] f = "get_next"                   -> IF r = 1 THEN "none" ELSE "get"
      [] f = "put"                        -> IF r = 0 THEN "put" ELSE "none"
      [] f = "put_data"                   -> "put"
      [] OTHER                            -> "none"

\* The device's transaction once the link is quiet after f returned r
DevAfter(f, r) ==
    CASE f = "init" /\ r # 0                       -> Txns
      [] f \in {"get_next", "put_data"} /\ r < 0   -> {TxnAfter(f, r), "none"}
      [] OTHER                                     -> {TxnAfter(f, r)}

\* The calls the caller may make: only the completion of an open
\* transaction, and after a failure in a get or put only its cancel
Allowed(t, r) ==
    CASE t = "none" -> {"cmd", "size", "dir_first", "get", "put"}
      [] t = "dir"  -> {"dir_next", "dir_cancel"}
      [] t = "get"  -> IF r = 0 THEN {"get_next", "get_cancel"} ELSE {"get_cancel"}
      [] t = "put"  -> IF r = 0 THEN {"put_data", "put_done", "put_cancel"} ELSE {"put_cancel"}
      [] OTHER      -> {}

\* topfield_open has succeeded and tf_init is running
Init ==
    /\ fn = "init" /\ txn = "none" /\ lastFn = "none" /\ last = 0
    /\ dtxn = "busy"

Begin ==
    /\ fn = "idle"
    /\ \E f \in Allowed(txn, last) : fn' = f
    /\ dtxn' = "busy"
    /\ UNCHANGED <<txn, lastFn, last>>

Finish ==
    /\ fn # "idle"
    /\ \E r \in Documented(fn) :
         /\ last' = r /\ lastFn' = fn /\ txn' = TxnAfter(fn, r)
         /\ dtxn' \in DevAfter(fn, r) \cup {"busy"}
    /\ fn' = "idle"

\* The packets still on the link are taken, and the device settles
Settle ==
    /\ fn = "idle" /\ dtxn = "busy"
    /\ dtxn' \in DevAfter(lastFn, last)
    /\ UNCHANGED <<fn, txn, lastFn, last>>

Next == Begin \/ Finish \/ Settle

\* Every call returns.  The link need not drain between calls: a reply may
\* wait for the next call to read it.
Spec == Init /\ [][Next]_avars /\ WF_avars(Finish)

=============================================================================
