------------------------------ MODULE TfCodec ------------------------------
(***************************************************************************)
(* The packet codec of libtopfield: how tf_io.c builds a request           *)
(* (tf_req_init, tf_req_put*, tf_req_putfilename, tf_req_done), pads it    *)
(* for the bulk write (tf_send), and how tf_get_response checks and        *)
(* decodes a reply; the byte helpers of tf_bytes.c.  Bytes are integers    *)
(* 0..255 and a buffer is a sequence of them, byte k at offset k-1.        *)
(*                                                                         *)
(* The state is the last request put on the wire by one of the request     *)
(* builders of tf_io.c, the encoding spec.md gives for the same request,   *)
(* and the last reply decoded.  Inputs (paths, offsets, data) come from    *)
(* small constant sets.                                                    *)
(***************************************************************************)
EXTENDS Integers, Sequences, UsbIo

CONSTANTS
    Paths,        \* path strings, as sequences of character codes
    Offsets,      \* 64-bit file offsets, as <<high, low>> 32-bit halves
    DataBlocks,   \* buffers given to tf_cmd_put_data
    Garbage,      \* what uninitialised bytes of a request buffer can hold
    Replies,      \* [raw : bytes read by usb_bulk_read, sent : the packet meant]
    None,
    WriteLens,    \* lengths handed to usb_bulk_write
    ReadSizes,    \* buffer sizes handed to usb_bulk_read
    Pendings,     \* the device's transfers waiting on bulk-in when a read starts
    Busses,       \* USB topologies: busses, each a sequence of devices
    DevIndexes,   \* the index argument of topfield_open
    LengthFloor   \* per reply command, the least length field the device sends

\* Command codes (tf_io.c TF_MSG_*)
FAIL == 1
SUCCESS == 2
CANCEL == 3
READY == 256
RESET == 257
TURBO == 258
SIZE == 4096
DIR == 4098
DIRENT == 4099
DELETE == 4101
RENAME == 4102
MKDIR == 4103
FILE_SEND == 4104
FILE_START == 4105
FILE_DATA == 4106
FILE_END == 4107
DIR_PUT == 0
DIR_GET == 1
TF_ERR_CRC == -1
TF_ERR_IO == -101
PACKET_HEAD_SIZE == 8
SLASH == 47
BACKSLASH == 92

-----------------------------------------------------------------------------
(* tf_bytes.c                                                               *)

PutU16(v) == <<(v \div 256) % 256, v % 256>>
PutU32(v) == PutU16((v \div 65536) % 65536) \o PutU16(v % 65536)
PutU64(off) == PutU32(off[1]) \o PutU32(off[2])
GetU16(b, k) == b[k] * 256 + b[k + 1]
GetU16Raw(b, k) == b[k + 1] * 256 + b[k]
GetU32(b, k) == GetU16(b, k) * 65536 + GetU16(b, k + 2)

\* swab(p, p, count): swap the pairs of the first count bytes (an odd last
\* byte stays put, as test_swab.c asserts)
ByteSwap(s, count) ==
    [k \in 1..Len(s) |-> IF k > count - (count % 2) THEN s[k]
                         ELSE IF k % 2 = 1 THEN s[k + 1] ELSE s[k - 1]]

\* src/test_swab.c: swab in place swaps "01234567" to "10325476", and leaves
\* the last byte of the odd-length "0123456" where it is
ASSUME /\ ByteSwap(<<48, 49, 50, 51, 52, 53, 54, 55>>, 8) = <<49, 48, 51, 50, 53, 52, 55, 54>>
       /\ ByteSwap(<<48, 49, 50, 51, 52, 53, 54>>, 7) = <<49, 48, 51, 50, 53, 52, 54>>

\* crc16_ansi(0, p, n): CRC-16/ARC (reflected polynomial 0xA001, seed 0),
\* a bit at a time.
Bit(x, i) == (x \div 2^i) % 2
Flip(x, i) == IF Bit(x, i) = 1 THEN x - 2^i ELSE x + 2^i

RECURSIVE XorLow(_, _, _)
XorLow(a, d, i) == IF i = 8 THEN a ELSE XorLow(IF Bit(d, i) = 1 THEN Flip(a, i) ELSE a, d, i + 1)

\* After the shift the top bit is clear: xor 0xA001 sets bit 15, flips 13 and 0
CrcShift(c) == IF c % 2 = 1 THEN Flip(Flip(c \div 2 + 32768, 13), 0) ELSE c \div 2

RECURSIVE CrcBits(_, _)
CrcBits(c, n) == CASE n = 0 -> c [] c \in 0..65535 -> CrcBits(CrcShift(c), n - 1)

CrcByte(c, d) == CrcBits(XorLow(c, d, 0), 8)

RECURSIVE Crc16(_, _)
Crc16(c, s) ==   \* c: the 16-bit register, checked so each byte's step is done
    CASE s = <<>> -> c
      [] c \in 0..65535 -> Crc16(CrcByte(c, Head(s)), Tail(s))

-----------------------------------------------------------------------------
(* Building a request: req->length stays in host (little-endian) order in   *)
(* the first two bytes until tf_req_done.                                   *)

ReqInit(cmd) == [length |-> 8, buf |-> <<8, 0, 0, 0>> \o PutU32(cmd)]

PutBytes(r, b) == [length |-> r.length + Len(b), buf |-> r.buf \o b]
Put8(r, v) == PutBytes(r, <<v>>)
Put16(r, v) == PutBytes(r, PutU16(v))
Put32(r, v) == PutBytes(r, PutU32(v))
Put64(r, off) == PutBytes(r, PutU64(off))

\* Mutant: the pad decided by the name's own length, not where it ends
PutFilenameOwnParity(r, str, addlength) ==
    LET len == Len(str) + 1
        pad == len % 2
        chars == [k \in 1..Len(str) |-> IF str[k] = SLASH THEN BACKSLASH ELSE str[k]]
        r2 == IF addlength = 1 THEN Put16(r, len + pad) ELSE r
    IN PutBytes(r2, chars \o <<0>> \o (IF pad = 1 THEN <<0>> ELSE <<>>))

\* The name with its terminator, '/' written as '\', a null pad byte when the
\* packet would end on an odd offset, after an optional length of name+pad
PutFilename(r, str, addlength) ==
    LET len == Len(str) + 1
        pad == (len + r.length) % 2
        chars == [k \in 1..Len(str) |-> IF str[k] = SLASH THEN BACKSLASH ELSE str[k]]
        r2 == IF addlength = 1 THEN Put16(r, len + pad) ELSE r
    IN PutBytes(r2, chars \o <<0>> \o (IF pad = 1 THEN <<0>> ELSE <<>>))

\* Length and CRC in big-endian order, a zero pad byte if odd, pairs swapped
ReqDone(r) ==
    LET len == r.length
        pad == len % 2
        body == SubSeq(r.buf, 5, len)
        bytes == PutU16(len) \o PutU16(Crc16(0, body)) \o body
    IN ByteSwap(IF pad = 1 THEN Append(bytes, 0) ELSE bytes, len + pad)

\* tf_send: two more bytes for a multiple of 64, one for an odd length.
\* Bytes past the finished packet were never written: g holds them.
TxPadNoOdd(len) == IF len % 64 = 0 THEN 2 ELSE 0   \* mutant: no pad for odd

TxPad(len) == IF len % 64 = 0 THEN 2 ELSE IF len % 2 = 1 THEN 1 ELSE 0

Transfer(wire, g) ==
    LET len == GetU16Raw(wire, 1)
        n == len + TxPad(len)
    IN IF n <= Len(wire) THEN SubSeq(wire, 1, n) ELSE wire \o SubSeq(g, 1, n - Len(wire))

\* tf_send_success: the pre-built packet
SuccessPacket == <<8, 0, 129, 193, 0, 0, 2, 0>>

-----------------------------------------------------------------------------
(* tf_get_response on the ret bytes read; stale is the byte of the buffer   *)
(* just past them, left there before the read.  With a length field below 4 *)
(* crc16_ansi runs over len - 4 < 0, i.e. about 2^32 bytes of the stack:    *)
(* ub marks that undefined behaviour, after which err means nothing.        *)

\* Mutant: the extra byte of an odd-length reply left unswapped
ParseNoOddSwap(raw, stale, nocrc) ==
    LET ret == Len(raw)
        len == GetU16Raw(raw, 1)
        buf == ByteSwap(raw \o <<stale>>, len)
        crcOk == nocrc \/ GetU16(buf, 3) = Crc16(0, SubSeq(buf, 5, len))
    IN CASE ret < PACKET_HEAD_SIZE -> [err |-> TF_ERR_IO, ub |-> FALSE]
         [] ret < len              -> [err |-> TF_ERR_IO, ub |-> FALSE]
         [] OTHER -> [err |-> IF crcOk THEN 0 ELSE TF_ERR_CRC, ub |-> ~nocrc /\ len < 4,
                       length |-> len, cmd |-> GetU32(buf, 5),
                       payload |-> SubSeq(buf, 9, len)]

Parse(raw, stale, nocrc) ==
    LET ret == Len(raw)
        len == GetU16Raw(raw, 1)
        buf == ByteSwap(raw \o <<stale>>, len + (len % 2))
        crcOk == nocrc \/ GetU16(buf, 3) = Crc16(0, SubSeq(buf, 5, len))
    IN CASE ret < PACKET_HEAD_SIZE -> [err |-> TF_ERR_IO, ub |-> FALSE]
         [] ret < len              -> [err |-> TF_ERR_IO, ub |-> FALSE]
         [] OTHER -> [err |-> IF crcOk THEN 0 ELSE TF_ERR_CRC, ub |-> ~nocrc /\ len < 4,
                       length |-> len, cmd |-> GetU32(buf, 5),
                       payload |-> SubSeq(buf, 9, len)]

-----------------------------------------------------------------------------
(* The encoding spec.md (section 4.1) gives for a request: independent      *)
(* reference definitions the code's operators are checked against.          *)

RECURSIVE BigEndian(_, _)
BigEndian(v, n) == IF n = 0 THEN <<>> ELSE BigEndian(v \div 256, n - 1) \o <<v % 256>>

\* append_filename: name, '\' for '/', a null, optional 2-byte length of what
\* follows, one more null if the packet would otherwise end at an odd offset
SpecFilename(at, str, withLen) ==
    LET name == [k \in 1..Len(str) |-> IF str[k] = SLASH THEN BACKSLASH ELSE str[k]]
                \o <<0>>
        pre == IF withLen THEN 2 ELSE 0
        pad == IF (at + pre + Len(name)) % 2 = 1 THEN <<0>> ELSE <<>>
    IN (IF withLen THEN BigEndian(Len(name) + Len(pad), 2) ELSE <<>>) \o name \o pad

\* finalize: length and CRC of cmd and payload, a zero byte to even length,
\* every adjacent pair transposed
SpecFinalize(cmd, payload) ==
    LET body == BigEndian(cmd, 4) \o payload
        host == BigEndian(4 + Len(body), 2) \o BigEndian(Crc16(0, body), 2) \o body
        even == IF Len(host) % 2 = 1 THEN Append(host, 0) ELSE host
    IN [k \in 1..Len(even) |-> IF k % 2 = 1 THEN even[k + 1] ELSE even[k - 1]]

-----------------------------------------------------------------------------
(* The requests tf_io.c sends, and the replies it decodes                   *)

VARIABLES
    req,    \* the last request sent: command, payload in spec terms, the
            \* finished packet (tf_req_done) and the USB transfer (tf_send)
    rx      \* the reply last read and what tf_get_response made of it

vars == <<req, rx>>

Typefiles == {[k \in 1..114 |-> 0]}   \* sizeof(tf_typefile_t) bytes

(* Unpacking a reply.  get_dirents and tf_cmd_get_next size what they copy *)
(* out of a reply from its length field.  C arithmetic on a size_t of w    *)
(* bits (32 or 64) is done on w/16 digits of 16 bits, high digit first,   *)
(* since TLC integers stop at 2^31.                                        *)

MAX_DIR_ENTRIES == 595   \* the size of tf_dir_entries.entry[]
HostWidths == {32, 64}   \* sizeof(size_t) * 8 on the hosts the tools build for

\* x, an int of -65535..65535, converted to an unsigned w-bit size_t
USizeT(x, w) ==
    [i \in 1..(w \div 16) |-> IF i < w \div 16 THEN IF x < 0 THEN 65535 ELSE 0
                                                ELSE (x + 65536) % 65536]

\* Unsigned long division of a digit sequence by a small divisor d
UDivDigits(ds, d) ==
    LET step(acc, x) == [q |-> Append(acc.q, (acc.r * 65536 + x) \div d),
                         r |-> (acc.r * 65536 + x) % d]
    IN FoldLeft(step, [q |-> <<>>, r |-> 0], ds).q

\* The low 32 bits of an unsigned value, as the int they are assigned to
ToInt32(ds) ==
    LET hi == ds[Len(ds) - 1]
        lo == ds[Len(ds)]
    IN IF hi >= 32768 THEN (hi - 65536) * 65536 + lo ELSE hi * 65536 + lo

\* A mutant of DirentCount that leaves the header in the entries
DirentCountWithHeader(len, w) ==
    ToInt32(UDivDigits(USizeT(len, w), Len(CHOOSE t \in Typefiles : TRUE)))

\* get_dirents: result->count = (reply.length - PACKET_HEAD_SIZE) /
\* sizeof(tf_typefile_t), the difference an int made size_t by the sizeof
DirentCount(len, w) ==
    ToInt32(UDivDigits(USizeT(len - PACKET_HEAD_SIZE, w),
                       Len(CHOOSE t \in Typefiles : TRUE)))

\* tf_cmd_get_next: __u16 len = reply->length - (PACKET_HEAD_SIZE + 8), the
\* byte count of a FILE_DATA reply past its 8-byte file offset
DataSize(len) == (len - (PACKET_HEAD_SIZE + 8) + 65536) % 65536

\* A request as tf_req_done leaves it and tf_send transmits it, g being what
\* the uninitialised bytes past it hold
Request(cmd, payload, wire, g) ==
    [cmd |-> cmd, payload |-> payload, wire |-> wire, xfer |-> Transfer(wire, g)]

\* tf_cmd_size, tf_cmd_cancel, tf_cmd_ready, tf_cmd_reset, tf_cmd_put_done
SendPlain ==
    \E c \in {SIZE, CANCEL, READY, RESET, FILE_END}, g \in Garbage :
        /\ req' = Request(c, <<>>, ReqDone(ReqInit(c)), g)
        /\ UNCHANGED rx

\* tf_cmd_turbo
SendTurbo ==
    \E on \in {0, 1}, g \in Garbage :
        /\ req' = Request(TURBO, BigEndian(on, 4), ReqDone(Put32(ReqInit(TURBO), on)), g)
        /\ UNCHANGED rx

\* tf_send_fail: tf_init sends reason 2, tf_cmd_get_cancel TF_ERR_CRC
SendFail ==
    \E reason \in {2, TF_ERR_CRC}, g \in Garbage :
        /\ req' = Request(FAIL, BigEndian(reason, 4),
                          ReqDone(Put32(ReqInit(FAIL), reason)), g)
        /\ UNCHANGED rx

\* tf_cmd_dir_first and tf_cmd_delete (no length), tf_cmd_mkdir (length)
SendPath ==
    \E c \in {DIR, DELETE, MKDIR}, p \in Paths, g \in Garbage :
        LET addlength == IF c = MKDIR THEN 1 ELSE 0
        IN /\ req' = Request(c, SpecFilename(8, p, c = MKDIR),
                             ReqDone(PutFilename(ReqInit(c), p, addlength)), g)
           /\ UNCHANGED rx

\* tf_cmd_rename
SendRename ==
    \E src, dest \in Paths, g \in Garbage :
        LET first == SpecFilename(8, src, TRUE)
        IN /\ req' = Request(RENAME, first \o SpecFilename(8 + Len(first), dest, TRUE),
                       ReqDone(PutFilename(PutFilename(ReqInit(RENAME), src, 1), dest, 1)), g)
           /\ UNCHANGED rx

\* tf_cmd_put (DIR_PUT) and tf_cmd_get (DIR_GET): FILE_SEND
SendFileSend ==
    \E dir \in {DIR_PUT, DIR_GET}, p \in Paths, off \in Offsets, g \in Garbage :
        /\ req' = Request(FILE_SEND,
                    <<dir>> \o SpecFilename(9, p, TRUE) \o BigEndian(off[1], 4)
                            \o BigEndian(off[2], 4),
                    ReqDone(Put64(PutFilename(Put8(ReqInit(FILE_SEND), dir), p, 1), off)), g)
        /\ UNCHANGED rx

\* tf_cmd_put after SUCCESS: FILE_START with the tf_typefile_t
SendFileStart ==
    \E tfile \in Typefiles, g \in Garbage :
        /\ req' = Request(FILE_START, tfile, ReqDone(PutBytes(ReqInit(FILE_START), tfile)), g)
        /\ UNCHANGED rx

\* tf_cmd_put_data
SendFileData ==
    \E off \in Offsets, blk \in DataBlocks, g \in Garbage :
        /\ req' = Request(FILE_DATA, BigEndian(off[1], 4) \o BigEndian(off[2], 4) \o blk,
                          ReqDone(PutBytes(Put64(ReqInit(FILE_DATA), off), blk)), g)
        /\ UNCHANGED rx

\* tf_send_success: the static packet through tf_send
SendSuccess ==
    \E g \in Garbage :
        /\ req' = Request(SUCCESS, <<>>, SuccessPacket, g)
        /\ UNCHANGED rx

\* tf_get_response, reading into a stack packet whose byte past the reply
\* is whatever was there; tf->nocrc is the handle's setting
Receive ==
    \E r \in Replies, stale \in {g[1] : g \in Garbage}, nocrc \in BOOLEAN :
        /\ rx' = [reply |-> r, nocrc |-> nocrc, out |-> Parse(r.raw, stale, nocrc)]
        /\ UNCHANGED req

-----------------------------------------------------------------------------
(* The transport beneath tf_send and tf_get_response (UsbIo)                *)

\* tf_send: tf->error = (ret == len) ? TF_ERR_NONE : TF_ERR_IO
SendError(len, ret) == IF ret = len THEN 0 ELSE TF_ERR_IO

\* topfield_open: open_usb_dev(TOPFIELD_VENDOR_ID, TOPFIELD_5000PVRT_ID, index)
TOPFIELD_VENDOR_ID == 4571
TOPFIELD_5000PVRT_ID == 4096

Init == req = None /\ rx = None

Next ==
    \/ SendPlain \/ SendTurbo \/ SendFail \/ SendPath \/ SendRename
    \/ SendFileSend \/ SendFileStart \/ SendFileData \/ SendSuccess
    \/ Receive

Spec == Init /\ [][Next]_vars

-----------------------------------------------------------------------------
(* Properties                                                               *)

StaleBytes == {g[1] : g \in Garbage}

\* Every request the builders of tf_io.c finish (tf_req_init, the put
\* helpers, tf_req_putfilename with its parity pad, tf_req_done) is the
\* packet spec.md's finalize gives for the same command and payload.
WireMatchesSpec == req # None => req.wire = SpecFinalize(req.cmd, req.payload)

\* What tf_send puts on the bus decodes, by tf_get_response with the CRC
\* checked, to the command and payload that were built, whatever byte lies
\* past the transfer in the receiving buffer (parse(finalize(build))).
ParseInvertsFinalize ==
    req # None =>
        \A st \in StaleBytes :
            Parse(req.xfer, st, FALSE) =
                [err |-> 0, ub |-> FALSE, length |-> 8 + Len(req.payload),
                 cmd |-> req.cmd, payload |-> req.payload]

\* A well-formed reply from the device is accepted by tf_get_response, with
\* or without the CRC check, and decoded to what the device sent, including
\* the last byte of an odd-length reply that the swap must take back.
ReplyDecodesAsSent ==
    rx # None /\ rx.reply.cmd # None =>
        rx.out = [err |-> 0, ub |-> FALSE, length |-> 8 + Len(rx.reply.payload),
                  cmd |-> rx.reply.cmd, payload |-> rx.reply.payload]

\* tf_get_response accepts no reply whose length field is shorter than the
\* header, and never runs crc16_ansi over a negative length.
ReplyLengthSafe ==
    rx # None =>
        /\ ~rx.out.ub
        /\ rx.out.err = 0 => rx.out.length >= PACKET_HEAD_SIZE

\* What get_dirents and tf_cmd_get_next take out of a reply stays inside it
\* and inside the caller's array, on every host, for every length field the
\* device sends: the directory count lies in 0..MAX_DIR_ENTRIES and its
\* entries within the reply's data, and the FILE_DATA size within the data
\* past the offset.
UnpacksFit ==
    /\ \A len \in LengthFloor[DIRENT]..65535, w \in HostWidths :
          LET c == DirentCount(len, w)
          IN  /\ c \in 0..MAX_DIR_ENTRIES
              /\ c * Len(CHOOSE t \in Typefiles : TRUE) <= len - PACKET_HEAD_SIZE
    /\ \A len \in LengthFloor[FILE_DATA]..65535 :
          PACKET_HEAD_SIZE + 8 + DataSize(len) <= len
UnpackInBounds == [][UnpacksFit]_vars

\* tf_send over usb_bulk_write: whatever each ioctl does, the write ends,
\* the device receives the start of the packet in order with no byte twice,
\* and tf_send reports success only when all of the packet went out.
WritesDeliver ==
    \A len \in WriteLens : \A o \in UsbBulkWrite(len) :
        /\ o.ends
        /\ IsPrefix(o.got, [i \in 1..len |-> i])
        /\ SendError(len, o.ret) = 0 => Len(o.got) = len
SendDelivers == [][WritesDeliver]_vars

\* tf_get_response over usb_bulk_read: the bytes it gets, and the count it
\* is told, are the start of the first transfer waiting, never run on into
\* the next one, for device transfers that end in a short packet.
ReadsStayInTransfer ==
    \A size \in ReadSizes, ts \in Pendings : \A o \in UsbBulkRead(size, ts) :
        /\ o.ends /\ o.ret = Len(o.got)
        /\ IsPrefix(o.got, IF ts = <<>> THEN <<>> ELSE ts[1])
ReadOneTransfer == [][ReadsStayInTransfer]_vars

\* topfield_open reaches the same device in both builds: the /proc scan of
\* usb_io_util.c and the libusb walk of usbutil.c pick, for every index, the
\* index-th Topfield in bus order, or none.
BuildsAgree ==
    \A bs \in Busses, idx \in DevIndexes :
        OpenUsbDevProc(DevicesFile(bs), TOPFIELD_VENDOR_ID, TOPFIELD_5000PVRT_ID, idx)
          = OpenUsbDevLib(bs, TOPFIELD_VENDOR_ID, TOPFIELD_5000PVRT_ID, idx)
BuildsOpenSameDevice == [][BuildsAgree]_vars

=============================================================================
