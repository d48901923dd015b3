------------------------------- MODULE UsbIo -------------------------------
(***************************************************************************)
(* The USB transport under tf_send and tf_get_response, as this repository *)
(* builds it without USE_LIBUSB: usb_bulk_write and usb_bulk_read of       *)
(* src/usb_io.c, which split a transfer into USBDEVFS_BULK ioctls of at    *)
(* most MAX_WRITE / MAX_READ bytes, and open_usb_dev, found in two         *)
(* versions: src/usb_io_util.c scans /proc/bus/usb/devices, src/usbutil.c  *)
(* walks libusb's bus list (the USE_LIBUSB build).                          *)
(*                                                                         *)
(* Each function runs alone on its caller's thread; what varies is what    *)
(* each ioctl does.  A function is an operator giving the set of its       *)
(* results over every outcome of every ioctl it makes.  Bytes are labels:  *)
(* byte i of a written buffer is i, byte k of the device's transfer t is   *)
(* <<t, k>>.                                                               *)
(***************************************************************************)
EXTENDS Integers, Sequences, SequencesExt

CONSTANTS
    MaxWrite,    \* MAX_WRITE
    MaxRead,     \* MAX_READ, a multiple of MaxPacket
    MaxPacket,   \* the bulk endpoint's packet size: a shorter packet ends a transfer
    NoDev        \* the NULL handle

Less(a, b) == IF a < b THEN a ELSE b

-----------------------------------------------------------------------------
(* usb_bulk_write                                                           *)

\* Mutant: the loop runs while (sent < length), through failed and empty ioctls
RECURSIVE WriteFromNoRetCheck(_, _, _, _)
WriteFromNoRetCheck(length, sent, got, n) ==
    LET c == Less(length - sent, MaxWrite)
        moved(k) == got \o [i \in 1..k |-> sent + i]
        Done(r, g) == {[ret |-> r, got |-> g, ends |-> TRUE]}
    IN IF n = 0 THEN {[ret |-> sent, got |-> got, ends |-> FALSE]}
       ELSE UNION {IF sent + r < length
                   THEN WriteFromNoRetCheck(length, sent + r, moved(r), n - 1)
                   ELSE Done(sent + r, moved(r)) : r \in 0..c}
            \cup UNION {WriteFromNoRetCheck(length, sent, moved(m), n - 1) : m \in 0..c}

\* The do/while loop from sent bytes on, got being the bytes the device has
\* received, with n ioctls left before the loop is taken to run on for ever.
\* An ioctl moves r bytes of its chunk and returns r; or it fails (a timeout,
\* a stall) after m of them went out, and returns -1, which ends the loop.
RECURSIVE WriteFrom(_, _, _, _)
WriteFrom(length, sent, got, n) ==
    LET c == Less(length - sent, MaxWrite)
        moved(k) == got \o [i \in 1..k |-> sent + i]
        Done(r, g) == {[ret |-> r, got |-> g, ends |-> TRUE]}
    IN IF n = 0 THEN {[ret |-> sent, got |-> got, ends |-> FALSE]}
       ELSE UNION {IF r > 0 /\ sent + r < length
                   THEN WriteFrom(length, sent + r, moved(r), n - 1)
                   ELSE Done(sent + r, moved(r)) : r \in 0..c}
            \cup UNION {Done(sent, moved(m)) : m \in 0..c}

\* usb_bulk_write(dev, ep, bytes, length, timeout)
UsbBulkWrite(length) == WriteFrom(length, 0, <<>>, length + 1)

-----------------------------------------------------------------------------
(* usb_bulk_read                                                            *)

\* Mutant: the loop goes on after a short transfer (no ret == requested)
RECURSIVE ReadFromPastShort(_, _, _, _, _)
ReadFromPastShort(size, retrieved, got, pend, n) ==
    LET q == Less(size - retrieved, MaxRead)
        Done(g) == {[ret |-> Len(g), got |-> g, ends |-> TRUE]}
    IN IF n = 0 THEN {[ret |-> retrieved, got |-> got, ends |-> FALSE]}
       ELSE IF pend = <<>> THEN Done(got)
       ELSE LET t == Head(pend)
                k == Less(Len(t), q)
                rest == IF k < Len(t) THEN <<SubSeq(t, k + 1, Len(t))>> \o Tail(pend)
                        ELSE Tail(pend)
                g2 == got \o SubSeq(t, 1, k)
            IN Done(got)
               \cup (IF k > 0 /\ retrieved + k < size
                     THEN ReadFromPastShort(size, retrieved + k, g2, rest, n - 1)
                     ELSE Done(g2))

\* The loop over the transfers pending on the bulk-in endpoint.  An ioctl
\* asks for requested = min(size - retrieved, MAX_READ) bytes and returns the
\* bytes up to the end of the transfer at the head, or all it asked for,
\* leaving the rest of the transfer pending; with nothing pending, or on a
\* fault, it fails and the loop ends.  The buffer was zeroed first.
RECURSIVE ReadFrom(_, _, _, _, _)
ReadFrom(size, retrieved, got, pend, n) ==
    LET q == Less(size - retrieved, MaxRead)
        Done(g) == {[ret |-> Len(g), got |-> g, ends |-> TRUE]}
    IN IF n = 0 THEN {[ret |-> retrieved, got |-> got, ends |-> FALSE]}
       ELSE IF pend = <<>> THEN Done(got)
       ELSE LET t == Head(pend)
                k == Less(Len(t), q)
                rest == IF k < Len(t) THEN <<SubSeq(t, k + 1, Len(t))>> \o Tail(pend)
                        ELSE Tail(pend)
                g2 == got \o SubSeq(t, 1, k)
            IN Done(got)
               \cup (IF k > 0 /\ retrieved + k < size /\ k = q
                     THEN ReadFrom(size, retrieved + k, g2, rest, n - 1)
                     ELSE Done(g2))

\* usb_bulk_read(dev, ep, bytes, size, timeout) with transfers ts pending
UsbBulkRead(size, ts) == ReadFrom(size, 0, <<>>, ts, size + 1)

-----------------------------------------------------------------------------
(* open_usb_dev                                                             *)

\* Mutant: ++count == index
ScanDevicesPreIncrement(lines, vid, pid, index) ==
    LET step(acc, l) ==
            CASE acc.found                                    -> acc
              [] l.kind = "T"                                 -> [acc EXCEPT !.bus = l.bus, !.dev = l.dev]
              [] acc.bus = 0 \/ acc.dev = 0                   -> acc
              [] l.kind = "P" /\ l.vendor = vid /\ l.product = pid ->
                    [acc EXCEPT !.count = @ + 1, !.found = (acc.count + 1 = index)]
              [] OTHER                                        -> acc
        last == FoldLeft(step, [bus |-> 0, dev |-> 0, count |-> 0, found |-> FALSE], lines)
    IN IF last.found THEN <<last.bus, last.dev>> ELSE NoDev

\* src/usb_io_util.c: the lines of /proc/bus/usb/devices, each a record with
\* kind "T" (topology: bus, dev), "P" (vendor, product) or another line.  A
\* T line sets bus and device; a P line, once both are set, counts if the
\* ids match, and the index-th such line stops the scan.
ScanDevices(lines, vid, pid, index) ==
    LET step(acc, l) ==
            CASE acc.found                                    -> acc
              [] l.kind = "T"                                 -> [acc EXCEPT !.bus = l.bus, !.dev = l.dev]
              [] acc.bus = 0 \/ acc.dev = 0                   -> acc
              [] l.kind = "P" /\ l.vendor = vid /\ l.product = pid ->
                    [acc EXCEPT !.count = @ + 1, !.found = (acc.count = index)]
              [] OTHER                                        -> acc
        last == FoldLeft(step, [bus |-> 0, dev |-> 0, count |-> 0, found |-> FALSE], lines)
    IN IF last.found THEN <<last.bus, last.dev>> ELSE NoDev

\* The device node found is opened, reset, its interface 0 claimed and set;
\* any of these may fail, and a failed reset is ignored before Linux 2.6.
OpenUsbDevProc(lines, vid, pid, index) ==
    IF ScanDevices(lines, vid, pid, index) = NoDev THEN {NoDev}
    ELSE {ScanDevices(lines, vid, pid, index), NoDev}

\* src/usbutil.c: libusb's busses, each a sequence of devices [id, vendor,
\* product]; the index-th match in that order
FindDevice(busses, vid, pid, index) ==
    LET devs == FlattenSeq(busses)
        match == SelectSeq(devs, LAMBDA d : d.vendor = vid /\ d.product = pid)
    IN IF index < Len(match) THEN match[index + 1].id ELSE NoDev

\* usb_open and usb_claim_interface may fail
OpenUsbDevLib(busses, vid, pid, index) ==
    IF FindDevice(busses, vid, pid, index) = NoDev THEN {NoDev}
    ELSE {FindDevice(busses, vid, pid, index), NoDev}

-----------------------------------------------------------------------------
(* The kernel's side                                                        *)

\* The /proc/bus/usb/devices text of a bus list: per device its T line,
\* a descriptor line, and its P line; bus b is numbered b
DevicesFile(busses) ==
    FlattenSeq([b \in 1..Len(busses) |->
        FlattenSeq([k \in 1..Len(busses[b]) |->
            << [kind |-> "T", bus |-> b, dev |-> busses[b][k].id[2]],
               [kind |-> "D"],
               [kind |-> "P", vendor |-> busses[b][k].vendor,
                product |-> busses[b][k].product] >>])])

=============================================================================
