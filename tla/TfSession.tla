----------------------------- MODULE TfSession -----------------------------
(***************************************************************************)
(* The host-side session protocol of libtopfield (src/tf_io.c): the       *)
(* dispatcher tf_cmd, the tf_init handshake, the one-shot commands, and   *)
(* the transactional directory listing, file get (with its pipelined ack *)
(* and the pending flag) and file put, each API function split at its    *)
(* USB transfers (tf_send = one bulk write, tf_get_response = one bulk   *)
(* read).  The caller follows the usage contract written in src/tf_io.h. *)
(* The Topfield device is the environment: a protocol machine that takes *)
(* host packets in order and answers each with at most one packet.  The  *)
(* bulk endpoints are FIFO queues; a write may fail, a read may time out *)
(* before a slow device answers, and a reply may arrive with a bad CRC,  *)
(* each a bounded number of times.                                        *)
(***************************************************************************)
EXTENDS Integers, Sequences, FiniteSets

CONSTANTS
    None,           \* model value: "no packet"
    OneShotCmds,    \* the one-shot requests the caller may issue (CANCEL, DELETE, ...)
    DevFailCodes,   \* reason codes the device puts in its FAIL packets
    InitDevStates,  \* device states a previous, aborted session may leave behind
    MaxChunks,      \* DIRENT / FILE_DATA packets the device sends per transfer
    MaxWriteFail,   \* bulk writes that may fail (short write, timeout)
    MaxLate,        \* reads that may time out before the device has answered
    MaxCorrupt      \* replies that may arrive with a CRC error

ASSUME MaxChunks \in Nat /\ MaxWriteFail \in Nat /\ MaxLate \in Nat /\ MaxCorrupt \in Nat
ASSUME DevFailCodes \subseteq 1..7

\* Error codes of src/tf_io.h
TF_ERR_NONE == 0
TF_ERR_DONE == 1
TF_ERR_CRC == -1
TF_ERR_UNEXPECTED == -100
TF_ERR_IO == -101

\* Direction byte of TF_MSG_HDD_FILE_SEND
DIR_PUT == 0
DIR_GET == 1

\* tf_req_put32 stores an int into a __u32 field: the two's-complement word,
\* kept as its big-endian 16-bit halves (TLC integers are 32-bit signed)
U32(x) == <<(x \div 65536) % 65536, x % 65536>>

\* get_u32 of a word the device wrote (its reason codes are small)
GetU32(w) == w[1] * 65536 + w[2]

\* A packet is its command and one 32-bit argument (FAIL reason, FILE_SEND direction)
Pkt(c) == [cmd |-> c, arg |-> U32(0)]
FailPkt(reason) == [cmd |-> "FAIL", arg |-> U32(reason)]

HostCmds == {"FAIL", "SUCCESS", "CANCEL", "READY", "RESET", "TURBO", "SIZE", "DIR",
             "DELETE", "RENAME", "MKDIR", "FILE_SEND", "FILE_START", "FILE_DATA", "FILE_END"}
DevCmds == {"FAIL", "SUCCESS", "SIZE_RESULT", "DIRENT", "DIREND",
            "FILE_START", "FILE_DATA", "FILE_END"}
Packets == [cmd : HostCmds \cup DevCmds, arg : (0..65535) \X (0..65535)]

DevStates == {"idle", "dir", "dirEnd", "getAck", "getEnd", "putOpen", "putData"}

Funcs == {"init", "cmd", "size", "dir_first", "dir_next", "dir_cancel", "get", "get_next",
          "get_cancel", "put", "put_data", "put_done", "put_cancel"}

\* Number of cancel attempts in tf_cmd_get_cancel
MaxCancelTries == 5

VARIABLES
    fn, pc,         \* API function running ("idle" between calls) and its step
    ret, cret,      \* the function's ret, and the result of its nested tf_cmd
    creq, cont,     \* request and return step of the nested tf_cmd
    i,              \* loop counter of tf_cmd_get_cancel
    pending,        \* tf->pending
    txn, lastFn, last, \* caller: open transaction, last function called, its result
    acks, chunks,   \* history: SUCCESS delivered and FILE_START/DATA taken since the last
                    \* call outside a get
    dstate, dlast, dchunks,  \* device: protocol state, last packet sent, chunks in this transfer
    h2d, d2h,       \* bulk-out and bulk-in endpoints
    wfails, lates, corrupts  \* faults used so far

control == <<fn, pc, creq, cont, txn, lastFn, last>>
locals == <<ret, cret, i, pending>>
device == <<dstate, dlast, dchunks>>
vars == <<fn, pc, ret, cret, creq, cont, i, pending, txn, lastFn, last,
          acks, chunks, dstate, dlast, dchunks, h2d, d2h, wfails, lates, corrupts>>

NoWrite == UNCHANGED <<h2d, wfails, acks>>
NoRead == UNCHANGED <<d2h, lates, corrupts, chunks>>

-----------------------------------------------------------------------------
(* Transport: tf_send and tf_get_response                                   *)

\* tf_send: one bulk write of the packet; ok = FALSE is a short write (TF_ERR_IO)
Write(p, ok) ==
    /\ IF ok THEN h2d' = Append(h2d, p) /\ wfails' = wfails
             ELSE wfails < MaxWriteFail /\ wfails' = wfails + 1 /\ h2d' = h2d
    /\ acks' = IF ok /\ p.cmd = "SUCCESS" THEN acks + 1 ELSE acks

\* tf_get_response: what one bulk read can return.  A read takes the queued
\* reply (possibly damaged: TF_ERR_CRC), or times out (TF_ERR_IO) when nothing
\* is queued: always when the device owes nothing, within MaxLate otherwise.
ReadOutcomes ==
    IF d2h # <<>>
    THEN {[err |-> 0, pkt |-> Head(d2h)]}
         \cup (IF corrupts < MaxCorrupt THEN {[err |-> TF_ERR_CRC, pkt |-> None]} ELSE {})
    ELSE IF h2d = <<>> \/ lates < MaxLate THEN {[err |-> TF_ERR_IO, pkt |-> None]} ELSE {}

Read(o) ==
    /\ d2h' = IF d2h # <<>> THEN Tail(d2h) ELSE d2h
    /\ corrupts' = IF d2h # <<>> /\ o.err = TF_ERR_CRC THEN corrupts + 1 ELSE corrupts
    /\ lates' = IF d2h = <<>> /\ h2d # <<>> THEN lates + 1 ELSE lates
    /\ chunks' = IF o.err = 0 /\ o.pkt.cmd \in {"FILE_START", "FILE_DATA"}
                 THEN chunks + 1 ELSE chunks

Is(o, c) == o.err = 0 /\ o.pkt.cmd = c

\* Mutant: a FAIL reason taken without negation
CmdResultUnnegated(o) ==
    CASE o.err # 0       -> o.err
      [] Is(o, "FAIL")    -> GetU32(o.pkt.arg)
      [] Is(o, "SUCCESS") -> TF_ERR_NONE
      [] OTHER            -> TF_ERR_UNEXPECTED

\* tf_cmd's classification of its reply
CmdResult(o) ==
    CASE o.err # 0       -> o.err
      [] Is(o, "FAIL")    -> -GetU32(o.pkt.arg)
      [] Is(o, "SUCCESS") -> TF_ERR_NONE
      [] OTHER            -> TF_ERR_UNEXPECTED

-----------------------------------------------------------------------------
(* Control flow of the host: return to the caller, call tf_cmd, next step   *)

\* The caller's obligations after a call returns r (src/tf_io.h comments):
\* a listing or get that returned 0 is open; a get_next that did not return
\* DONE must be cancelled; a put stays open until put_done or put_cancel.
TxnAfter(f, r) ==
    CASE f = "init"                       -> IF r = TF_ERR_NONE THEN "none" ELSE "closed"
      [] f \in {"dir_first", "dir_next"}  -> IF r = TF_ERR_NONE THEN "dir" ELSE "none"
      [] f = "get"                        -> IF r = TF_ERR_NONE THEN "get" ELSE "none"
      [] f = "get_next"                   -> IF r = TF_ERR_DONE THEN "none" ELSE "get"
      [] f = "put"                        -> IF r = TF_ERR_NONE THEN "put" ELSE "none"
      [] f = "put_data"                   -> "put"
      [] OTHER                            -> "none"

Return(r) ==
    /\ fn' = "idle" /\ pc' = "idle"
    /\ last' = r /\ lastFn' = fn /\ txn' = TxnAfter(fn, r)
    /\ creq' = "none" /\ cont' = "none"

Call(req, k) ==
    /\ creq' = req /\ cont' = k /\ pc' = "cmdW"
    /\ UNCHANGED <<fn, txn, lastFn, last>>

Goto(l) ==
    /\ pc' = l
    /\ UNCHANGED <<fn, creq, cont, txn, lastFn, last>>

\* A tf_send whose failure makes the function return TF_ERR_IO
SendOrFail(p, l) ==
    \E ok \in BOOLEAN : Write(p, ok) /\ IF ok THEN Goto(l) ELSE Return(TF_ERR_IO)

\* A tf_send whose result the function ignores
SendIgnored(p) == \E ok \in BOOLEAN : Write(p, ok)

-----------------------------------------------------------------------------
(* tf_cmd: send the request, wait for SUCCESS                               *)

CmdSend ==
    /\ pc = "cmdW"
    /\ \E ok \in BOOLEAN :
         /\ Write(Pkt(creq), ok)
         /\ IF ok THEN Goto("cmdR") /\ UNCHANGED cret
                  ELSE Goto(cont) /\ cret' = TF_ERR_IO
    /\ NoRead /\ UNCHANGED <<ret, i, pending>>

CmdRecv ==
    /\ pc = "cmdR"
    /\ \E o \in ReadOutcomes : Read(o) /\ cret' = CmdResult(o)
    /\ Goto(cont)
    /\ NoWrite /\ UNCHANGED <<ret, i, pending>>

\* The end of a function that returns what its tf_cmd returned
CmdReturn ==
    /\ pc = "ret"
    /\ Return(cret)
    /\ NoWrite /\ NoRead /\ UNCHANGED locals

-----------------------------------------------------------------------------
(* tf_init: CANCEL; CANCEL; FAIL(2), SUCCESS, READY; CANCEL                 *)

InitAfterCancel1 ==
    /\ pc = "i2"
    /\ IF cret = TF_ERR_NONE THEN Return(TF_ERR_NONE) ELSE Call("CANCEL", "i3")
    /\ NoWrite /\ NoRead /\ UNCHANGED locals

InitAfterCancel2 ==
    /\ pc = "i3"
    /\ IF cret = TF_ERR_NONE
       THEN Return(TF_ERR_NONE) /\ NoWrite
       ELSE SendIgnored(FailPkt(2)) /\ Goto("i4")
    /\ NoRead /\ UNCHANGED locals

InitSendSuccess ==
    /\ pc = "i4"
    /\ SendIgnored(Pkt("SUCCESS"))
    /\ Call("READY", "i6")
    /\ NoRead /\ UNCHANGED locals

InitAfterReady ==
    /\ pc = "i6"
    /\ IF cret = TF_ERR_NONE THEN Return(TF_ERR_NONE) ELSE Call("CANCEL", "i7")
    /\ NoWrite /\ NoRead /\ UNCHANGED locals

InitAfterCancel3 ==
    /\ pc = "i7"
    /\ Return(IF cret = TF_ERR_NONE THEN TF_ERR_NONE ELSE -1)
    /\ NoWrite /\ NoRead /\ UNCHANGED locals

-----------------------------------------------------------------------------
(* tf_cmd_size                                                              *)

SizeSend ==
    /\ pc = "s1"
    /\ SendOrFail(Pkt("SIZE"), "s2")
    /\ NoRead /\ UNCHANGED locals

SizeRecv ==
    /\ pc = "s2"
    /\ \E o \in ReadOutcomes :
         /\ Read(o)
         /\ Return(CASE o.err # 0             -> o.err
                     [] Is(o, "SIZE_RESULT") -> TF_ERR_NONE
                     [] OTHER                -> TF_ERR_UNEXPECTED)
    /\ NoWrite /\ UNCHANGED locals

-----------------------------------------------------------------------------
(* Directory listing: tf_cmd_dir_first, tf_cmd_dir_next, get_dirents        *)

DirFirstSend ==
    /\ pc = "d1"
    /\ SendOrFail(Pkt("DIR"), "gd")
    /\ NoRead /\ UNCHANGED locals

DirNextSend ==
    /\ pc = "n1"
    /\ SendOrFail(Pkt("SUCCESS"), "gd")
    /\ NoRead /\ UNCHANGED locals

\* get_dirents: a DIRENT batch returns 0; DIREND is acknowledged and returns DONE
GetDirents ==
    /\ pc = "gd"
    /\ \E o \in ReadOutcomes :
         /\ Read(o)
         /\ CASE o.err # 0        -> Return(o.err)
              [] Is(o, "DIRENT") -> Return(TF_ERR_NONE)
              [] Is(o, "DIREND") -> Goto("gd2")
              [] OTHER           -> Return(TF_ERR_UNEXPECTED)
    /\ NoWrite /\ UNCHANGED locals

\* Mutant: DIREND reported without acknowledging it
DirEndAckSkipped ==
    /\ pc = "gd2"
    /\ Return(TF_ERR_DONE)
    /\ NoWrite /\ NoRead /\ UNCHANGED locals

DirEndAck ==
    /\ pc = "gd2"
    /\ SendIgnored(Pkt("SUCCESS"))
    /\ Return(TF_ERR_DONE)
    /\ NoRead /\ UNCHANGED locals

-----------------------------------------------------------------------------
(* File get: tf_cmd_get, tf_cmd_get_next, tf_cmd_get_cancel                 *)

GetSend ==
    /\ pc = "g1"
    /\ SendOrFail([cmd |-> "FILE_SEND", arg |-> U32(DIR_GET)], "g2")
    /\ NoRead /\ UNCHANGED locals

GetRecv ==
    /\ pc = "g2"
    /\ \E o \in ReadOutcomes :
         /\ Read(o)
         /\ Return(CASE o.err # 0            -> o.err
                     [] Is(o, "FILE_START") -> TF_ERR_NONE
                     [] Is(o, "FAIL")       -> -GetU32(o.pkt.arg)
                     [] OTHER               -> TF_ERR_UNEXPECTED)
    /\ NoWrite /\ UNCHANGED locals

\* Mutant: tf->pending not consulted
GetNextStartIgnoresPending ==
    /\ pc = "gn1"
    /\ pending' = FALSE
    /\ SendOrFail(Pkt("SUCCESS"), "gn2")
    /\ NoRead /\ UNCHANGED <<ret, cret, i>>

\* Ask for the next unit unless the previous call already acknowledged it
GetNextStart ==
    /\ pc = "gn1"
    /\ pending' = FALSE
    /\ IF pending
       THEN Goto("gn2") /\ NoWrite
       ELSE SendOrFail(Pkt("SUCCESS"), "gn2")
    /\ NoRead /\ UNCHANGED <<ret, cret, i>>

GetNextRecv ==
    /\ pc = "gn2"
    /\ \E o \in ReadOutcomes :
         /\ Read(o)
         /\ CASE o.err # 0           -> Return(o.err)
              [] Is(o, "FILE_END")  -> Goto("gn3")
              [] Is(o, "FILE_DATA") -> Goto("gn4")
              [] Is(o, "FAIL")      -> Return(TF_ERR_IO)
              [] OTHER              -> Return(TF_ERR_UNEXPECTED)
    /\ NoWrite /\ UNCHANGED locals

GetNextEndAck ==
    /\ pc = "gn3"
    /\ SendIgnored(Pkt("SUCCESS"))
    /\ Return(TF_ERR_DONE)
    /\ NoRead /\ UNCHANGED locals

\* Mutant: pending set whether or not the ack was written
GetNextDataAckAssumed ==
    /\ pc = "gn4"
    /\ \E ok \in BOOLEAN : Write(Pkt("SUCCESS"), ok) /\ pending' = TRUE
    /\ Return(TF_ERR_NONE)
    /\ NoRead /\ UNCHANGED <<ret, cret, i>>

\* The pipelined ack: acknowledge the chunk before handing it to the caller
GetNextDataAck ==
    /\ pc = "gn4"
    /\ \E ok \in BOOLEAN : Write(Pkt("SUCCESS"), ok) /\ pending' = ok
    /\ Return(TF_ERR_NONE)
    /\ NoRead /\ UNCHANGED <<ret, cret, i>>

\* Drain the response the pending ack asked for
GetCancelDrain ==
    /\ pc = "gc0"
    /\ pending' = FALSE
    /\ \E o \in ReadOutcomes : Read(o)
    /\ Goto("gc1")
    /\ NoWrite /\ UNCHANGED <<ret, cret, i>>

\* One attempt: FAIL with reason TF_ERR_CRC, then tf_cmd_cancel
GetCancelAttempt ==
    /\ pc = "gc1"
    /\ SendIgnored(FailPkt(TF_ERR_CRC))
    /\ Call("CANCEL", "gc2")
    /\ NoRead /\ UNCHANGED locals

GetCancelAfterCancel ==
    /\ pc = "gc2"
    /\ ret' = cret
    /\ IF cret = TF_ERR_NONE THEN Return(TF_ERR_NONE) ELSE Goto("gc3")
    /\ NoWrite /\ NoRead /\ UNCHANGED <<cret, i, pending>>

\* After sleep(2), any response that arrives counts as recovery
GetCancelRetryRead ==
    /\ pc = "gc3"
    /\ \E o \in ReadOutcomes :
         /\ Read(o)
         /\ ret' = o.err
         /\ i' = i + 1
         /\ IF o.err = TF_ERR_NONE THEN Return(TF_ERR_NONE)
            ELSE IF i + 1 < MaxCancelTries THEN Goto("gc1")
            ELSE Return(o.err)
    /\ NoWrite /\ UNCHANGED <<cret, pending>>

-----------------------------------------------------------------------------
(* File put: tf_cmd_put, tf_cmd_put_data, tf_cmd_put_done, put_cancel       *)

PutSend ==
    /\ pc = "p1"
    /\ SendOrFail([cmd |-> "FILE_SEND", arg |-> U32(DIR_PUT)], "p2")
    /\ NoRead /\ UNCHANGED locals

PutRecv ==
    /\ pc = "p2"
    /\ \E o \in ReadOutcomes :
         /\ Read(o)
         /\ CASE o.err # 0         -> Return(o.err)
              [] Is(o, "SUCCESS") -> Goto("p3")
              [] Is(o, "FAIL")    -> Return(-GetU32(o.pkt.arg))
              [] OTHER            -> Return(TF_ERR_UNEXPECTED)
    /\ NoWrite /\ UNCHANGED locals

PutStartSend ==
    /\ pc = "p3"
    /\ SendOrFail(Pkt("FILE_START"), "p4")
    /\ NoRead /\ UNCHANGED locals

\* Mutant: any packet read taken for the device's SUCCESS
ExpectSuccessAnyReply(o) == IF o.err # 0 THEN o.err ELSE TF_ERR_NONE

\* The reply to FILE_START (put) or FILE_DATA (put_data): anything but SUCCESS is unexpected
ExpectSuccess(o) ==
    CASE o.err # 0         -> o.err
      [] Is(o, "SUCCESS") -> TF_ERR_NONE
      [] OTHER            -> TF_ERR_UNEXPECTED

PutStartRecv ==
    /\ pc = "p4"
    /\ \E o \in ReadOutcomes : Read(o) /\ Return(ExpectSuccess(o))
    /\ NoWrite /\ UNCHANGED locals

PutDataSend ==
    /\ pc = "pd1"
    /\ SendOrFail(Pkt("FILE_DATA"), "pd2")
    /\ NoRead /\ UNCHANGED locals

PutDataRecv ==
    /\ pc = "pd2"
    /\ \E o \in ReadOutcomes : Read(o) /\ Return(ExpectSuccess(o))
    /\ NoWrite /\ UNCHANGED locals

PutDoneSend ==
    /\ pc = "pe1"
    /\ SendOrFail(Pkt("FILE_END"), "pe2")
    /\ NoRead /\ UNCHANGED locals

\* A failed FILE_END is followed by a CANCEL whose result is ignored
PutDoneRecv ==
    /\ pc = "pe2"
    /\ \E o \in ReadOutcomes :
         /\ Read(o)
         /\ ret' = ExpectSuccess(o)
         /\ IF ExpectSuccess(o) = TF_ERR_NONE THEN Return(TF_ERR_NONE) ELSE Call("CANCEL", "pe3")
    /\ NoWrite /\ UNCHANGED <<cret, i, pending>>

PutDoneReturn ==
    /\ pc = "pe3"
    /\ Return(ret)
    /\ NoWrite /\ NoRead /\ UNCHANGED locals

\* Mutant: the second CANCEL continues at its own step again
PutCancelAgainLoops ==
    /\ pc = "pc2"
    /\ Call("CANCEL", "pc2")
    /\ NoWrite /\ NoRead /\ UNCHANGED locals

\* tf_cmd_put_cancel: CANCEL, sleep(1), CANCEL
PutCancelAgain ==
    /\ pc = "pc2"
    /\ Call("CANCEL", "ret")
    /\ NoWrite /\ NoRead /\ UNCHANGED locals

-----------------------------------------------------------------------------
(* The caller: calls the API as the comments in src/tf_io.h require         *)

Allowed ==
    CASE txn = "none" -> {"cmd", "size", "dir_first", "get", "put"}
      [] txn = "dir"  -> {"dir_next", "dir_cancel"}
      [] txn = "get"  -> IF last = TF_ERR_NONE THEN {"get_next", "get_cancel"} ELSE {"get_cancel"}
      [] txn = "put"  -> IF last = TF_ERR_NONE THEN {"put_data", "put_done", "put_cancel"}
                                              ELSE {"put_cancel"}
      [] OTHER        -> {}

\* First step, nested request and its return step of each API function
Entry(f, c) ==
    CASE f = "cmd"        -> <<"cmdW", c, "ret">>
      [] f = "dir_cancel" -> <<"cmdW", "CANCEL", "ret">>
      [] f = "put_cancel" -> <<"cmdW", "CANCEL", "pc2">>
      [] f = "get_cancel" -> <<IF pending THEN "gc0" ELSE "gc1", "none", "none">>
      [] f = "size"       -> <<"s1", "none", "none">>
      [] f = "dir_first"  -> <<"d1", "none", "none">>
      [] f = "dir_next"   -> <<"n1", "none", "none">>
      [] f = "get"        -> <<"g1", "none", "none">>
      [] f = "get_next"   -> <<"gn1", "none", "none">>
      [] f = "put"        -> <<"p1", "none", "none">>
      [] f = "put_data"   -> <<"pd1", "none", "none">>
      [] f = "put_done"   -> <<"pe1", "none", "none">>

Invoke ==
    /\ fn = "idle"
    /\ \E f \in Allowed, c \in OneShotCmds :
         /\ fn' = f
         /\ pc' = Entry(f, c)[1] /\ creq' = Entry(f, c)[2] /\ cont' = Entry(f, c)[3]
         /\ acks' = IF f \in {"get_next", "get_cancel"} THEN acks ELSE 0
         /\ chunks' = IF f \in {"get_next", "get_cancel"} THEN chunks ELSE 0
    /\ ret' = 0 /\ cret' = 0 /\ i' = 0
    /\ UNCHANGED <<pending, txn, lastFn, last, h2d, d2h, wfails, lates, corrupts>>
    /\ UNCHANGED device

-----------------------------------------------------------------------------
(* The device (environment): one host packet in, at most one packet out.   *)
(* Any FAIL it sends ends its transaction; CANCEL always ends it.  While it *)
(* waits for the ack of a get chunk, a host FAIL makes it resend the chunk *)
(* or nothing.  Streams end within MaxChunks packets.                       *)

DevReply(pk, st, n) == [reply |-> pk, st |-> st, n |-> n]

Abort == {DevReply(FailPkt(c), "idle", 0) : c \in DevFailCodes}

Stream(more, end, moreSt, endSt) ==
    (IF dchunks < MaxChunks THEN {DevReply(Pkt(more), moreSt, dchunks + 1)} ELSE {})
    \cup {DevReply(Pkt(end), endSt, 0)}

IdleRespond(p) ==
    CASE p.cmd \in {"SUCCESS", "FAIL"} -> {DevReply(None, "idle", 0)}
      [] p.cmd = "SIZE"      -> {DevReply(Pkt("SIZE_RESULT"), "idle", 0)} \cup Abort
      [] p.cmd = "DIR"       -> {DevReply(Pkt("DIRENT"), "dir", 1),
                                 DevReply(Pkt("DIREND"), "dirEnd", 0)} \cup Abort
      [] p.cmd = "FILE_SEND" /\ p.arg = U32(DIR_GET)
                             -> {DevReply(Pkt("FILE_START"), "getAck", 0)} \cup Abort
      [] p.cmd = "FILE_SEND" -> {DevReply(Pkt("SUCCESS"), "putOpen", 0)} \cup Abort
      [] p.cmd \in {"READY", "RESET", "TURBO", "DELETE", "RENAME", "MKDIR"}
                             -> {DevReply(Pkt("SUCCESS"), "idle", 0)} \cup Abort
      [] OTHER               -> Abort

Respond(p) ==
    CASE p.cmd = "CANCEL" -> {DevReply(Pkt("SUCCESS"), "idle", 0)}
      [] dstate = "idle" -> IdleRespond(p)
      [] dstate = "dir" /\ p.cmd = "SUCCESS" -> Stream("DIRENT", "DIREND", "dir", "dirEnd")
      [] dstate \in {"dirEnd", "getEnd"} /\ p.cmd = "SUCCESS" -> {DevReply(None, "idle", 0)}
      [] dstate = "getAck" /\ p.cmd = "SUCCESS"
            -> Stream("FILE_DATA", "FILE_END", "getAck", "getEnd") \cup Abort
      [] dstate \in {"getAck", "getEnd"} /\ p.cmd = "FAIL"
            -> {DevReply(dlast, dstate, dchunks), DevReply(None, dstate, dchunks)}
      [] dstate = "putOpen" /\ p.cmd = "FILE_START"
            -> {DevReply(Pkt("SUCCESS"), "putData", 0)} \cup Abort
      [] dstate = "putData" /\ p.cmd = "FILE_DATA"
            -> {DevReply(Pkt("SUCCESS"), "putData", 0)} \cup Abort
      [] dstate = "putData" /\ p.cmd = "FILE_END"
            -> {DevReply(Pkt("SUCCESS"), "idle", 0)} \cup Abort
      [] OTHER -> Abort

DevStep ==
    /\ h2d # <<>>
    /\ \E r \in Respond(Head(h2d)) :
         /\ h2d' = Tail(h2d)
         /\ d2h' = IF r.reply = None THEN d2h ELSE Append(d2h, r.reply)
         /\ dstate' = r.st
         /\ dlast' = IF r.reply = None THEN dlast ELSE r.reply
         /\ dchunks' = r.n
    /\ UNCHANGED <<fn, pc, ret, cret, creq, cont, i, pending, txn, lastFn, last,
                   acks, chunks, wfails, lates, corrupts>>

-----------------------------------------------------------------------------

Init ==
    /\ fn = "init" /\ pc = "cmdW" /\ creq = "CANCEL" /\ cont = "i2"
    /\ ret = 0 /\ cret = 0 /\ i = 0 /\ pending = FALSE
    /\ txn = "none" /\ lastFn = "none" /\ last = 0
    /\ acks = 0 /\ chunks = 0
    /\ dstate \in InitDevStates /\ dlast = None /\ dchunks = 0
    /\ h2d = <<>> /\ d2h = <<>>
    /\ wfails = 0 /\ lates = 0 /\ corrupts = 0

HostStep ==
  /\ \/ CmdSend \/ CmdRecv \/ CmdReturn
     \/ InitAfterCancel1 \/ InitAfterCancel2 \/ InitSendSuccess \/ InitAfterReady \/ InitAfterCancel3
     \/ SizeSend \/ SizeRecv
     \/ DirFirstSend \/ DirNextSend \/ GetDirents \/ DirEndAck
     \/ GetSend \/ GetRecv \/ GetNextStart \/ GetNextRecv \/ GetNextEndAck \/ GetNextDataAck
     \/ GetCancelDrain \/ GetCancelAttempt \/ GetCancelAfterCancel \/ GetCancelRetryRead
     \/ PutSend \/ PutRecv \/ PutStartSend \/ PutStartRecv \/ PutDataSend \/ PutDataRecv
     \/ PutDoneSend \/ PutDoneRecv \/ PutDoneReturn \/ PutCancelAgain
  /\ UNCHANGED device

Next == HostStep \/ Invoke \/ DevStep

\* A running library call is blocked only in a USB transfer, which completes
\* or times out; the device keeps taking packets off its endpoint.
Spec == Init /\ [][Next]_vars /\ WF_vars(HostStep) /\ WF_vars(DevStep)

-----------------------------------------------------------------------------
(* Properties                                                               *)

Labels == {"idle", "cmdW", "cmdR", "ret", "i2", "i3", "i4", "i6", "i7", "s1", "s2",
           "d1", "n1", "gd", "gd2", "g1", "g2", "gn1", "gn2", "gn3", "gn4",
           "gc0", "gc1", "gc2", "gc3", "p1", "p2", "p3", "p4", "pd1", "pd2",
           "pe1", "pe2", "pe3", "pc2"}

Results == {TF_ERR_NONE, TF_ERR_DONE, TF_ERR_UNEXPECTED, TF_ERR_IO} \cup {-c : c \in 1..7}

TypeOK ==
    /\ fn \in Funcs \cup {"idle"} /\ pc \in Labels
    /\ ret \in Results /\ cret \in Results
    /\ creq \in HostCmds \cup {"none"} /\ cont \in Labels \cup {"none"}
    /\ i \in 0..MaxCancelTries /\ pending \in BOOLEAN
    /\ txn \in {"none", "dir", "get", "put", "closed"}
    /\ lastFn \in Funcs \cup {"none"} /\ last \in Results
    /\ acks \in Nat /\ chunks \in Nat
    /\ dstate \in DevStates /\ dlast \in Packets \cup {None} /\ dchunks \in 0..MaxChunks
    /\ h2d \in Seq(Packets) /\ d2h \in Seq(Packets)
    /\ wfails \in 0..MaxWriteFail /\ lates \in 0..MaxLate /\ corrupts \in 0..MaxCorrupt

\* Host and device are in step between transactions: when no call is running,
\* the caller has no transaction open (every listing, get and put has been
\* completed or cancelled as src/tf_io.h asks) and the device has taken every
\* packet, the device is idle and no reply waits to be read.  This is what
\* tf_init, the DIREND/FILE_END acks, the pending drain and the retry loop of
\* tf_cmd_get_cancel, and the CANCELs of put_done/put_cancel are for.
SyncAtRest ==
    (fn = "idle" /\ txn = "none" /\ h2d = <<>>) => (dstate = "idle" /\ d2h = <<>>)

\* Every FILE_START and FILE_DATA of a get is acknowledged exactly once: while a
\* get is streaming (the last call returned 0), the SUCCESS packets delivered
\* since tf_cmd_get number one less than the chunks taken, plus one when
\* tf->pending says the latest chunk was acknowledged inside tf_cmd_get_next.
AckDiscipline ==
    (fn = "idle" /\ txn = "get" /\ last = TF_ERR_NONE)
        => acks = chunks - 1 + (IF pending THEN 1 ELSE 0)

\* Every library call returns: tf_init's fallbacks, the retry loop of
\* tf_cmd_get_cancel and each transfer (which completes or times out) end.
CallsReturn == (fn # "idle") ~> (fn = "idle")

-----------------------------------------------------------------------------
(* Refinement of TfApi, the contract of src/tf_io.h                         *)

\* The transaction a device protocol state belongs to
DevTxn ==
    [s \in DevStates |->
        CASE s = "idle"                  -> "none"
          [] s \in {"dir", "dirEnd"}     -> "dir"
          [] s \in {"getAck", "getEnd"}  -> "get"
          [] OTHER                       -> "put"]

\* The device's transaction as the contract sees it: settled only between
\* calls, with nothing left on either endpoint
DevView == IF fn = "idle" /\ h2d = <<>> /\ d2h = <<>> THEN DevTxn[dstate] ELSE "busy"

Api == INSTANCE TfApi WITH dtxn <- DevView

\* The session implements the header's contract: each call returns a result
\* its comment documents, and whenever the link falls quiet between calls
\* the device is in the transaction the caller's last result implies (the
\* acks of DIREND and FILE_END, the CANCELs of the cancel functions and of
\* tf_init included); every call returns.
ApiRefinement == Api!Spec

=============================================================================
