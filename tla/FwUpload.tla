------------------------------ MODULE FwUpload ------------------------------
(***************************************************************************)
(* The firmware upload of tf_fwio.c: the boot-loader protocol in which the *)
(* host sends PC_TO_STB, reads ID, and then answers each REQ_DATA(seq,     *)
(* len, offset) of the boot loader with a DATA packet carrying that block  *)
(* of the image, until the boot loader sends END and the host sends        *)
(* REBOOT.  Packets are "ToFi", seq, cmd, a big-endian u16 data length,    *)
(* the data and an 8-bit additive checksum.                                *)
(*                                                                         *)
(* The caller (not in the repository) is the loop the return values of     *)
(* tf_fwio.c call for: tf_fw_upload, then tf_fw_upload_next with the block *)
(* fw_data names while the result is 0, then tf_fw_reboot on 1; it stops   *)
(* on -1.  The boot loader is the environment: it asks for the image in    *)
(* blocks of a size of its choosing, numbers its requests with an 8-bit    *)
(* seq, and asks again for a block whose DATA it does not accept.          *)
(***************************************************************************)
EXTENDS Integers, Sequences

CONSTANTS
    Image,        \* the firmware image, a sequence of bytes
    MaxData,      \* MAX_DATA_SIZE (defined in a header not in the repository)
    BlockLens,    \* block lengths the boot loader may ask for
    Seq0,         \* the seq of the boot loader's first REQ_DATA
    MaxFaults,    \* bound on write failures, timeouts and short reads
    Truncations,  \* byte counts a short read may return (at least the header)
    Stale,        \* values of reply bytes past those a short read filled
    None

\* tf_fwio.c command codes and sizes
TF_FW_ID == 2
TF_FW_PC_TO_STB == 1
TF_FW_REQ_DATA == 4
TF_FW_DATA == 5
TF_FW_END == 6
TF_FW_REBOOT == 11
PACKET_HEAD_SIZE == 8
MAX_SEND_SIZE == 16384
TOFI == <<84, 111, 70, 105>>

\* tf_bytes.c
PutU16(v) == <<(v \div 256) % 256, v % 256>>
GetU16(b, k) == b[k] * 256 + b[k + 1]
PutU24(v) == <<(v \div 65536) % 256>> \o PutU16(v % 65536)
\* Mutant: get_u24 reading the bytes least significant first
GetU24Swapped(b, k) == b[k + 2] * 65536 + b[k + 1] * 256 + b[k]
GetU24(b, k) == b[k] * 65536 + b[k + 1] * 256 + b[k + 2]

-----------------------------------------------------------------------------
(* Packets                                                                  *)

\* The sum of a sequence of bytes, without wrapping
RECURSIVE SumData(_)
SumData(s) == IF s = <<>> THEN 0 ELSE Head(s) + SumData(Tail(s))

\* calc_checksum: a __u8 sum, wrapping at each byte
RECURSIVE CalcChecksum(_)
CalcChecksum(s) == IF s = <<>> THEN 0 ELSE (Head(s) + CalcChecksum(Tail(s))) % 256

\* tf_req_init, tf_req_putdata and tf_req_done: the length swapped to big
\* endian, the checksum over seq, cmd, length and data (len + 4 bytes from
\* &req->seq) stored in data[len]
ReqDone(cmd, seq, data) ==
    LET p == TOFI \o <<seq, cmd>> \o PutU16(Len(data)) \o data
    IN  p \o <<CalcChecksum(SubSeq(p, 5, 8 + Len(data)))>>

\* Mutant: the 0x200 test made on the length before the odd pad
TxLenPadFirst(len) ==
    LET pad == IF len % 2 # 0 THEN 1 ELSE 0
    IN  IF len % 512 = 0 /\ pad + len # MAX_SEND_SIZE
          THEN len + pad + 2 ELSE len + pad

\* tf_send: pad an odd length by one byte; pad a length at a multiple of
\* 0x200 by two more unless it is exactly MAX_SEND_SIZE
TxLen(len) ==
    LET pad == IF len % 2 # 0 THEN 1 ELSE 0
    IN  IF (len + pad) % 512 = 0 /\ pad + len # MAX_SEND_SIZE
          THEN len + pad + 2 ELSE len + pad

\* tf_send's do-while: writes of at most MAX_SEND_SIZE bytes
RECURSIVE Writes(_)
Writes(n) ==
    IF n > MAX_SEND_SIZE THEN <<MAX_SEND_SIZE>> \o Writes(n - MAX_SEND_SIZE) ELSE <<n>>

\* The bytes of a padded packet: the pad comes from the packet buffer, which
\* tf_req_init cleared
Transmit(p) ==
    p \o [k \in 1..TxLen(PACKET_HEAD_SIZE + GetU16(p, 7) + 1) - Len(p) |-> 0]

\* A boot loader reply as it arrives: header fields and data bytes
Reply(cmd, seq, data) == [seq |-> seq, cmd |-> cmd, length |-> Len(data), data |-> data]

ReqData(r) == Reply(TF_FW_REQ_DATA, r.seq, PutU16(r.len) \o PutU24(r.off))

\* tf_get_response: a read of ret bytes; -1 below the header or below the
\* length field, which counts the data only
GetResponse(ret, reply) ==
    IF ret < PACKET_HEAD_SIZE THEN -1
    ELSE IF ret < reply.length THEN -1
    ELSE 0

\* The reply buffer as read: bytes past the ret read are 0 where usb_io.c's
\* usb_bulk_read zeroes the buffer, and what the stack held with libusb's
\* (USE_LIBUSB)
Seen(ret, reply, stale) ==
    [k \in 1..Len(reply.data) |->
        IF PACKET_HEAD_SIZE + k <= ret THEN reply.data[k] ELSE stale]

\* The caller's buffer: the image at fw_data's offset (0 past its end)
Block(off, len) ==
    [k \in 1..len |-> IF off + k <= Len(Image) THEN Image[off + k] ELSE 0]

-----------------------------------------------------------------------------

VARIABLES
    hpc,      \* the caller's place: the call in progress, "done" or "failed"
    fw,       \* tf_fw_data_t: seq, len and offset of the last REQ_DATA
    h2d,      \* packets written and not yet taken by the boot loader
    d2h,      \* boot loader replies not yet read
    faults,   \* link faults so far
    dstate,   \* the boot loader: "boot", "req", "end" or "rebooted"
    dreq,     \* its outstanding request [seq, len, off], or None
    flash     \* the image bytes it has accepted, None where none yet

host == <<hpc, fw>>
link == <<h2d, d2h, faults>>
dev == <<dstate, dreq, flash>>
vars == <<hpc, fw, h2d, d2h, faults, dstate, dreq, flash>>

\* Write outcomes: the packet arrives, a write fails, or (a link fault) the
\* packet arrives with a damaged checksum byte
WriteOk ==
    {"ok"} \cup (IF faults < MaxFaults THEN {"fail", "damaged"} ELSE {})

Damage(x) == [x EXCEPT ![PACKET_HEAD_SIZE + GetU16(x, 7) + 1] = (@ + 1) % 256]

\* tf_send of a finished packet; a failed write makes the call return -1
Send(p, next, ok) ==
    /\ h2d' = CASE ok = "ok" -> Append(h2d, Transmit(p))
                [] ok = "damaged" -> Append(h2d, Damage(Transmit(p)))
                [] OTHER -> h2d
    /\ faults' = IF ok = "ok" THEN faults ELSE faults + 1
    /\ hpc' = IF ok = "fail" THEN "failed" ELSE next

\* usb_bulk_read: the whole reply, a short read, or a timeout that leaves a
\* late reply unread (0 bytes from usb_io.c's, an error from libusb's: both
\* below the header)
Reads ==
    LET r == Head(d2h)
        full == PACKET_HEAD_SIZE + r.length + 1
    IN  (IF d2h = <<>> THEN {}
         ELSE {[ret |-> full, reply |-> r]}
              \cup (IF faults < MaxFaults
                      THEN {[ret |-> t, reply |-> r] : t \in {x \in Truncations : x < full}}
                      ELSE {}))
        \cup (IF faults < MaxFaults THEN {[ret |-> 0, reply |-> None]} ELSE {})

Faulty(o) == o.reply = None \/ o.ret < PACKET_HEAD_SIZE + o.reply.length + 1

ReadStep(o) ==
    /\ d2h' = IF o.reply = None THEN d2h ELSE Tail(d2h)
    /\ faults' = IF Faulty(o) THEN faults + 1 ELSE faults

-----------------------------------------------------------------------------
(* The host: tf_fw_upload, tf_wait_for_req_data, tf_fw_upload_next,        *)
(* tf_fw_reboot                                                             *)

\* tf_fw_upload: PC_TO_STB with seq 0, sent before anything is read
UploadSend ==
    /\ hpc = "upload"
    /\ \E ok \in WriteOk : Send(ReqDone(TF_FW_PC_TO_STB, 0, <<>>), "upload_id", ok)
    /\ UNCHANGED <<fw, d2h, dev>>

\* tf_fw_upload: the reply must be ID
UploadRecvId ==
    /\ hpc = "upload_id"
    /\ \E o \in Reads, s \in Stale :
         /\ ReadStep(o)
         /\ hpc' = IF GetResponse(o.ret, o.reply) # 0 \/ o.reply.cmd # TF_FW_ID
                     THEN "failed" ELSE "wait"
    /\ UNCHANGED <<fw, h2d, dev>>

\* Mutant: the next seq stored instead of the one received
WaitForReqDataNextSeq ==
    /\ hpc = "wait"
    /\ \E o \in Reads, s \in Stale :
         LET d == Seen(o.ret, o.reply, s)
             ok == GetResponse(o.ret, o.reply) = 0
         IN  /\ ReadStep(o)
             /\ hpc' = CASE ok /\ o.reply.cmd = TF_FW_REQ_DATA -> "next"
                         [] ok /\ o.reply.cmd = TF_FW_END -> "reboot"
                         [] OTHER -> "failed"
             /\ fw' = IF ok /\ o.reply.cmd = TF_FW_REQ_DATA
                        THEN [seq |-> o.reply.seq + 1, len |-> GetU16(d, 1), off |-> GetU24(d, 3)]
                        ELSE fw
    /\ UNCHANGED <<h2d, dev>>

\* tf_wait_for_req_data: REQ_DATA fills fw_data (0), END returns 1, a read
\* error or any other command -1; the caller then sends the block or reboots
WaitForReqData ==
    /\ hpc = "wait"
    /\ \E o \in Reads, s \in Stale :
         LET d == Seen(o.ret, o.reply, s)
             ok == GetResponse(o.ret, o.reply) = 0
         IN  /\ ReadStep(o)
             /\ hpc' = CASE ok /\ o.reply.cmd = TF_FW_REQ_DATA -> "next"
                         [] ok /\ o.reply.cmd = TF_FW_END -> "reboot"
                         [] OTHER -> "failed"
             /\ fw' = IF ok /\ o.reply.cmd = TF_FW_REQ_DATA
                        THEN [seq |-> o.reply.seq, len |-> GetU16(d, 1), off |-> GetU24(d, 3)]
                        ELSE fw
    /\ UNCHANGED <<h2d, dev>>

\* Mutant: DATA sent with seq 0, as tf_fw_upload's request is
UploadNextSeqZero ==
    /\ hpc = "next"
    /\ IF fw.len > MaxData
         THEN /\ hpc' = "failed"
              /\ UNCHANGED <<h2d, faults>>
         ELSE \E ok \in WriteOk :
                Send(ReqDone(TF_FW_DATA, 0, Block(fw.off, fw.len)), "wait", ok)
    /\ UNCHANGED <<fw, d2h, dev>>

\* tf_fw_upload_next with the block fw_data names: a block longer than
\* MAX_DATA_SIZE is refused (-1) before anything is sent; DATA echoes the
\* request's seq
UploadNext ==
    /\ hpc = "next"
    /\ IF fw.len > MaxData
         THEN /\ hpc' = "failed"
              /\ UNCHANGED <<h2d, faults>>
         ELSE \E ok \in WriteOk :
                Send(ReqDone(TF_FW_DATA, fw.seq, Block(fw.off, fw.len)), "wait", ok)
    /\ UNCHANGED <<fw, d2h, dev>>

\* tf_fw_reboot after END: its result is tf_send's
Reboot ==
    /\ hpc = "reboot"
    /\ \E ok \in WriteOk : Send(ReqDone(TF_FW_REBOOT, 0, <<>>), "done", ok)
    /\ UNCHANGED <<fw, d2h, dev>>

-----------------------------------------------------------------------------
(* The boot loader (environment): takes the packet at the head of h2d      *)

Pkt == Head(h2d)
PktLen == GetU16(Pkt, 7)
PktData == SubSeq(Pkt, 9, 8 + PktLen)

\* The checksum the boot loader expects: the sum of seq, cmd, the two
\* length bytes and the data, modulo 256
PktValid ==
    Pkt[9 + PktLen] = (Pkt[5] + Pkt[6] + Pkt[7] + Pkt[8] + SumData(PktData)) % 256

NewReq(seq, off) ==
    {[seq |-> seq, len |-> IF b < Len(Image) - off THEN b ELSE Len(Image) - off,
      off |-> off] : b \in BlockLens}

\* PC_TO_STB: ID, then the request for the first block (whether the boot
\* loader checks this packet's checksum is not known; it is taken as sent)
DevBoot ==
    /\ h2d # <<>> /\ dstate = "boot" /\ Pkt[6] = TF_FW_PC_TO_STB
    /\ \E r \in NewReq(Seq0, 0) :
         /\ dreq' = r
         /\ d2h' = d2h \o <<Reply(TF_FW_ID, 0, <<>>), ReqData(r)>>
    /\ dstate' = "req"
    /\ h2d' = Tail(h2d)
    /\ UNCHANGED <<host, faults, flash>>

\* DATA answering the request (seq, length and checksum): the block is
\* taken, and the next block or END is sent
DevAccept ==
    /\ h2d # <<>> /\ dstate = "req" /\ Pkt[6] = TF_FW_DATA
    /\ PktValid /\ Pkt[5] = dreq.seq /\ PktLen = dreq.len
    /\ LET nxt == dreq.off + dreq.len
       IN  /\ flash' = [k \in DOMAIN flash |->
                          IF dreq.off < k /\ k <= nxt THEN PktData[k - dreq.off] ELSE flash[k]]
           /\ IF nxt >= Len(Image)
                THEN /\ dstate' = "end"
                     /\ dreq' = None
                     /\ d2h' = Append(d2h, Reply(TF_FW_END, dreq.seq, <<>>))
                ELSE /\ \E r \in NewReq((dreq.seq + 1) % 256, nxt) :
                          /\ dreq' = r
                          /\ d2h' = Append(d2h, ReqData(r))
                     /\ UNCHANGED dstate
    /\ h2d' = Tail(h2d)
    /\ UNCHANGED <<host, faults>>

\* Any other DATA: the same block is asked for again
DevReject ==
    /\ h2d # <<>> /\ dstate = "req" /\ Pkt[6] = TF_FW_DATA
    /\ ~(PktValid /\ Pkt[5] = dreq.seq /\ PktLen = dreq.len)
    /\ d2h' = Append(d2h, ReqData(dreq))
    /\ h2d' = Tail(h2d)
    /\ UNCHANGED <<host, faults, dstate, dreq, flash>>

DevReboot ==
    /\ h2d # <<>> /\ dstate = "end" /\ Pkt[6] = TF_FW_REBOOT
    /\ dstate' = "rebooted"
    /\ h2d' = Tail(h2d)
    /\ UNCHANGED <<host, faults, dreq, d2h, flash>>

-----------------------------------------------------------------------------

\* The caller is about to call tf_fw_upload; the boot loader waits
Init ==
    /\ hpc = "upload"
    /\ fw = None
    /\ h2d = <<>> /\ d2h = <<>> /\ faults = 0
    /\ dstate = "boot" /\ dreq = None
    /\ flash = [k \in 1..Len(Image) |-> None]

HostStep == UploadSend \/ UploadRecvId \/ WaitForReqData \/ UploadNext \/ Reboot
DevStep == DevBoot \/ DevAccept \/ DevReject \/ DevReboot

Next == HostStep \/ DevStep

\* The caller runs its loop to the end and the boot loader answers every
\* packet; a fault is possible, never forced
Spec == Init /\ [][Next]_vars /\ WF_vars(HostStep) /\ WF_vars(DevStep)

-----------------------------------------------------------------------------
(* Properties                                                               *)

TypeOK ==
    /\ hpc \in {"upload", "upload_id", "wait", "next", "reboot", "done", "failed"}
    /\ fw \in {None} \cup [seq : 0..255, len : 0..65535, off : 0..16777215]
    /\ faults \in 0..MaxFaults
    /\ dstate \in {"boot", "req", "end", "rebooted"}
    /\ flash \in [1..Len(Image) -> {None} \cup 0..255]

\* The boot loader writes what it accepts to flash: every byte it has taken
\* is the image's byte at that offset, and once it reboots it holds all of
\* the image.  tf_wait_for_req_data's parse of the request (seq, big-endian
\* len and 24-bit offset), tf_fw_upload_next's echo of seq and tf_req_done's
\* framing and checksum all go into this.
ImageIntact ==
    /\ \A k \in 1..Len(Image) : flash[k] # None => flash[k] = Image[k]
    /\ dstate = "rebooted" => \A k \in 1..Len(Image) : flash[k] = Image[k]

\* The upload ends: every call returns, and the caller either sees a call
\* fail or reboots the boot loader after END, whatever block sizes it asks
\* for.  A DATA the boot loader cannot accept makes it ask again for ever.
UploadEnds == <>(hpc = "failed" \/ (hpc = "done" /\ dstate = "rebooted"))

\* The writes tf_send makes for a packet whose length field is n: no USB
\* write is a multiple of 0x200 bytes, except a write of exactly
\* MAX_SEND_SIZE (the boot loader "doesn't like this size")
TxWritesAvoid512(n) ==
    LET w == Writes(TxLen(PACKET_HEAD_SIZE + n + 1))
    IN  \A k \in 1..Len(w) : w[k] % 512 # 0 \/ w[k] = MAX_SEND_SIZE

\* tf_send's padding holds for every length field a packet can carry (a
\* fact about tf_send alone, so it holds at every step of the upload)
TransferSizes == [][\A n \in 0..65535 : TxWritesAvoid512(n)]_vars

=============================================================================
