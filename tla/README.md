# TLA+ models of libtopfield

libtopfield talks to a Topfield PVR over USB. Its protocol is strictly
request/reply: the host writes one packet to the bulk-out endpoint and reads one
back from bulk-in, within a timeout. The exception is file get, which
acknowledges a data chunk before the caller has consumed it. This directory
holds TLA+ models of that protocol as the code implements it, the TLC
configurations that check them, and `PROJECT.json`. That file maps every
definition to the source lines it translates and lists the runs, mutants,
findings and hazards.

## 1. The system (inventory)

| Part | Source | State | Operations |
|---|---|---|---|
| Protocol session engine | `src/tf_io.c`, `src/tf_io.h`, `tf_handle` in `src/tf_open.h` | `tf->pending` (an ack was sent early), `tf->error`, `tf->timeout`, the receive buffer `tf->buf` | `tf_init`, `tf_cmd` with the one-shots (cancel, ready, reset, turbo, delete, mkdir, rename), `tf_cmd_size`, `tf_cmd_dir_first/next/cancel`, `tf_cmd_get/get_next/get_cancel`, `tf_cmd_put/put_data/put_done/put_cancel`, `tf_send_success`, `tf_send_fail` |
| Packet codec | `tf_req_*`, `tf_send`, `tf_get_response` in `src/tf_io.c`; `src/tf_bytes.c` | none (pure) | build a packet, pad it for transmission, swap byte pairs, put/get u16/u32/u64, check the CRC |
| Topfield device | not in the repository (spec §4) | its protocol state: idle, inside a listing, get or put | replies to each request; streams DIRENT and FILE_DATA; FAILs any request |
| Device lock manager | `src/tf_open.c` | the lock file, `tf->lock_fd`, the USB device | `topfield_open` (flock, or SIGHUP the holder and retry once), `topfield_close` |
| Daemon pid lock | `src/daemon.c` | the pid file and its fcntl lock | `daemon_acquire_lock` (poll up to `block_seconds`), `daemon_lock_pid`, `daemon_release_lock` |
| Firmware upload | `src/tf_fwio.c` | sequence numbers, the checksum | `tf_fw_upload`, `tf_fw_upload_next`, `tf_fw_reboot` over a separate boot-loader protocol |
| USB transport | `src/usb_io.c` and `src/usb_io_util.c` (default build), `src/usbutil.c` with libusb (`USE_LIBUSB`) | the device handle | `usb_bulk_write`, `usb_bulk_read` (split into `USBDEVFS_BULK` ioctls of at most `MAX_WRITE`/`MAX_READ` bytes), `open_usb_dev` (find the index-th Topfield, open and claim it), `close_usb_dev` |
| Utilities | `src/tf_util.c` | none of its own; `tf_stat` drives a listing on the session | `tf_stat`, `tf_makename`, `tf_sort_dirents` |
| Tests | `src/test_makename.c`, `src/test_swab.c`, `src/test_crc.c` | none | assertions on `tf_makename` and `byte_swap`; a printed CRC |

How the parts interact. An application opens the device through the lock
manager, calls `tf_init` and then the `tf_cmd_*` functions. Each function
builds packets with the codec, and `tf_send` and `tf_get_response` move them
through the USB transport. The caller must close every transaction:
- a listing that returned 0 ends at DIREND or with `tf_cmd_dir_cancel`;
- a get ends at `TF_ERR_DONE` or with `tf_cmd_get_cancel`;
- a put ends with `tf_cmd_put_done` or `tf_cmd_put_cancel`.

Otherwise the device stays inside the transaction (comments in `src/tf_io.h`).

What makes this code hard. Its hard behaviour lies in the order of packets on
two endpoints that can fail independently:
- a write fails;
- a read times out while the answer is still on its way;
- a reply arrives damaged;
- the device answers a request with FAIL;
- a session dies and leaves the device inside a transaction.

File get adds one-packet pipelining, tracked by `tf->pending`.
`tf_cmd_get_cancel` adds a five-try retry loop that stops on any packet it
reads.

## 2. The models

### `TfSession` (the session engine and the device)

**Host.** Each API function is split at its USB transfers. `fn` is the
function running (`"idle"` between calls) and `pc` its step. A nested
`tf_cmd`, as in `tf_cmd_cancel` or `tf_cmd_ready`, is a subroutine:
- `creq` holds the request;
- `cont` holds the step to return to;
- `cret` holds its result.

`ret`, `i` and `pending` are the function's `ret`, the loop counter of
`tf_cmd_get_cancel`, and `tf->pending`. Every step of a function is one action:

| Function | Actions |
|---|---|
| `tf_cmd` | `CmdSend`, `CmdRecv`, `CmdReturn` |
| `tf_init` | `InitAfterCancel1/2/3`, `InitSendSuccess`, `InitAfterReady` |
| `tf_cmd_size` | `SizeSend`, `SizeRecv` |
| listing | `DirFirstSend`, `DirNextSend`, `GetDirents`, `DirEndAck` |
| get | `GetSend`, `GetRecv`, `GetNextStart`, `GetNextRecv`, `GetNextEndAck`, `GetNextDataAck`, `GetCancelDrain`, `GetCancelAttempt`, `GetCancelAfterCancel`, `GetCancelRetryRead` |
| put | `PutSend`, `PutRecv`, `PutStartSend`, `PutStartRecv`, `PutDataSend`, `PutDataRecv`, `PutDoneSend`, `PutDoneRecv`, `PutDoneReturn`, `PutCancelAgain` |

A write may fail, and the action then takes the code's error path. A read
returns one of:
- the queued reply;
- `TF_ERR_CRC`, for a damaged reply;
- `TF_ERR_IO`, for a timeout.

**Caller.** `Invoke` calls any function that `Allowed` permits in the current
transaction (`txn`). That follows the `src/tf_io.h` contract, including "dir
cancel need not be called after a non-zero result".

**Device.** The device is the environment, modelled from spec §4 because its
firmware is not in the repository. `DevStep` takes one packet off `h2d`,
replies on `d2h` according to `Respond`, and moves `dstate`. Streams end within
`MaxChunks` packets. Any request outside CANCEL may be answered with FAIL.
During a get, a host FAIL makes the device resend its last chunk or stay silent.

**Transport.** `h2d` and `d2h` are FIFO sequences, so the USB layer neither
reorders nor duplicates. Faults are bounded by three constants:
- `MaxWriteFail`: short writes;
- `MaxCorrupt`: replies whose CRC fails;
- `MaxLate`: reads that time out while the device has still to answer.

A read with nothing owed always times out.

**Data.** Payloads, paths, offsets and sizes are abstracted away. A packet is
its command and one 32-bit argument, kept as two 16-bit halves because TLC
integers are signed 32-bit. Only FAIL reasons and the FILE_SEND direction use
that argument.

**History.** These variables exist only for the properties:
- `acks`: SUCCESS packets delivered since the get began;
- `chunks`: FILE_START and FILE_DATA packets taken;
- `txn`, `lastFn`, `last`: the caller's view.

`MC_TfSession` instantiates the module for TLC with:
- the one-shot command `DELETE`;
- device failure code 3;
- every device state as a possible start, because a previous session may have
  died anywhere.

It also defines `QueueBound`, described below.

Properties of `TfSession`:
- `TypeOK`: every result is one of the library's error codes. A FAIL reason
  that was not negated would break it.
- `SyncAtRest`: between calls, with no transaction open and every packet taken,
  the device is idle and no reply is waiting. This is the correctness condition
  that `tf_init`, the DIREND/FILE_END acks, the pending drain and the CANCELs
  exist for.
- `AckDiscipline`: while a get is streaming, the SUCCESS packets delivered
  equal the chunks taken minus one, plus one if `tf->pending`. So each chunk is
  acknowledged exactly once across calls, whether the ack is sent early or late.
- `CallsReturn`: every call returns. This covers the `tf_init` fallbacks, the
  retry loop of `tf_cmd_get_cancel`, and the transfers, which complete or time
  out.

### `TfApi` (the contract of `src/tf_io.h`) and the refinement

`TfApi` is the abstract specification of what the header promises a caller,
with the USB exchange left out. Its state is the running call `fn`, the
caller's transaction `txn`, the last call and result `lastFn`/`last`, and
`dtxn`: the device's transaction, or `"busy"` while the device is not settled.
Its actions are:
- `Begin`: the caller starts a call the contract allows (`Allowed`).
- `Finish`: the call returns a result its comment documents (`Documented`).
  For example, `tf_init` returns 0 or -1, and a listing or
  `tf_cmd_get_next` returns 0, a code above zero, or a failure. The caller's
  transaction follows the result (`TxnAfter`).
- `Settle`: the packets left on the link are taken, and the device ends up in
  the transaction the result implies (`DevAfter`). There is one latitude:
  after a failed `tf_cmd_get_next` or `tf_cmd_put_data`, the caller must still
  cancel, but the device may already have left the transfer.

`TfSession` instantiates it as `Api == INSTANCE TfApi WITH dtxn <- DevView`.
The other variables map to the session's variables of the same names.
`DevView` is the device's transaction (`DevTxn[dstate]`) between calls when
both endpoints are empty, and `"busy"` otherwise. Every step inside a call
is a stuttering step of `TfApi`. `Invoke` is `Begin`, `Return` is `Finish`,
and a device step that empties the link between calls is `Settle`.

`ApiRefinement == Api!Spec` is checked by `prompt`, fairness included: every
call returns. It covers two things no invariant states:
- the per-function result sets;
- the device's transaction inside an open listing, get or put.

It does not hold under faults. With `MaxCorrupt = 1`, TLC finds a violation in
a few hundred states: `tf_cmd_put`'s FILE_SEND is accepted, but its SUCCESS
arrives damaged. The call returns -1, so no cancel is owed, yet the device
waits in the put. This is the mechanism of finding 2 (`dirdesync`), on
another call. It is recorded as a hazard, not as a run of its own.


### `TfCodec` (packet construction and parsing)

The codec is checked on real bytes. `Request(cmd, payload, wire, g)` records a
request as the code builds it:
- `ReqInit` and the `Put*` helpers (`tf_req_*` of `tf_io.c`);
- `ReqDone`, which sets the length with the CRC-time pad, byte-swaps and stores
  the CRC;
- `Transfer`, the padded transmit buffer of `tf_send`, in which bytes past the
  packet are the stale buffer contents `g`.

Each `Send*` action is one `tf_cmd_*` request builder with its inputs taken
from small sets (paths "/a" and "/ab", two 64-bit offsets, data blocks of 1, 47
and 48 bytes). `Receive` runs `Parse`, which is `tf_get_response` (the
`ret < 8` and `ret < len` checks, the odd-length swap, the CRC), on a reply
the device could send, a damaged read, and a stale first byte. CRC-16/ARC is
written bit by bit from its definition, because `crc16_ansi` is not under
`src/`; its test vector is the SUCCESS packet's 0xC181. The spec's own
encodings (`SpecFilename`, `SpecFinalize`, `BigEndian`) are the reference.

- `WireMatchesSpec`: every request's wire bytes equal the spec's encoding.
- `ParseInvertsFinalize`: parsing the transmitted buffer of any request gives
  back its command and payload, whatever the stale pad bytes hold.
- `ReplyDecodesAsSent`: every well-formed reply decodes to what the device
  sent.
- `ReplyLengthSafe` (violation run only): no reply is accepted with a length
  shorter than the header.
- `UnpackInBounds`: what `get_dirents` and `tf_cmd_get_next` take out of an
  accepted reply fits. For each length field from a floor (`LengthFloor`, per
  command) to 65535, and on hosts with a 32- and a 64-bit `size_t`, three
  things hold:
  - the DIRENT count lies in 0..`MAX_DIR_ENTRIES`;
  - its 114-byte entries lie within the reply's data;
  - the FILE_DATA size lies within the data after the 8-byte offset.

  `DirentCount` does the C arithmetic of `tf_io.c:527`:
  - an int minus 8 is converted to `size_t` (`USizeT`);
  - it is divided by `sizeof(tf_typefile_t)` (`UDivDigits`);
  - the result is stored in an int (`ToInt32`).

  TLC's integers are 32 bits wide, so the operators work on 16-bit digits.
  `DataSize` is the `__u16` subtraction of `tf_io.c:802`.

  The `codec` run sets the floor to a well-formed reply: 8 for DIRENT, and 16
  for FILE_DATA, whose data starts with the offset. Setting it to 4, the
  least length `tf_get_response` accepts with the CRC on (`MC_AcceptedFloor`,
  which `TfCodec_rxshort.cfg` already sets), breaks the property:
  - a DIRENT length of 4 to 7 counts 37,675,151 entries on a 32-bit host, so
    the loop writes far past `entry[595]`;
  - the same lengths count -1,205,604,856 entries on a 64-bit host;
  - a FILE_DATA length of 8 to 15 gives a chunk of 65,528 to 65,535 bytes
    that starts 16 bytes into the 0x10000-byte `tf->buf`, so it runs up to
    15 bytes past the buffer.

  To reproduce this, run `TfCodec_rxshort.cfg` with
  `PROPERTY UnpackInBounds`. The run cap leaves it without a run of its own.

The ASSUME after `ByteSwap` holds the two assertions of `test_swab.c`.

**The transport beneath it (`UsbIo`).** `TfCodec` extends `UsbIo`, so the
`codec` run also checks what `tf_send` and `tf_get_response` stand on. Each
function of the transport runs alone on its caller's thread; what varies is
what each ioctl does. So each is an operator that gives the set of its results
over every outcome of every ioctl, each result a record of the return value,
the bytes that reached the other side, and whether the loop ended:
- `WriteFrom`/`UsbBulkWrite` is the do/while of `usb_bulk_write`. An ioctl
  moves any part of its chunk of at most `MAX_WRITE` bytes, or fails after
  some of it went out. A loop still running after `length + 1` ioctls is
  reported as not ending.
- `ReadFrom`/`UsbBulkRead` is the loop of `usb_bulk_read` over the transfers
  pending on bulk-in. An ioctl returns up to the end of the transfer at the
  head or all it asked for, and fails when nothing is pending or on a fault.
- `ScanDevices`/`OpenUsbDevProc` is the `/proc/bus/usb/devices` scan of
  `usb_io_util.c`. `FindDevice`/`OpenUsbDevLib` is the libusb walk of
  `usbutil.c`. The open, reset and claim calls after the search may each fail.
  `DevicesFile` renders a bus list as the kernel's text, so that both builds
  can be given the same topology.

Properties:
- `SendDelivers`: every write loop ends. The device receives a prefix of the
  packet, in order, with no byte skipped or repeated, and `tf_send` reports
  success only when all of it arrived. This holds over every split and
  failure of the ioctls for packet lengths 1 to 5 with `MAX_WRITE = 2`.
- `ReadOneTransfer`: every read loop ends. It returns exactly the bytes it
  copied, and they are a prefix of one device transfer, never the start of
  the next one. This holds for pending transfers that end in a short packet.
- `BuildsOpenSameDevice`: for every topology and index, the `/proc` scan and
  the libusb walk find the same Topfield, or both find none.

### `TfUtil` (`tf_util.c`)

`tf_stat` is a client of the listing calls. `TfUtil` composes it with `TfApi`
(`Api == INSTANCE TfApi`) and shares `TfApi`'s `Begin` and `Finish` steps:
- `StatCall` fakes "/" and rejects a path with no '/'. Otherwise it begins
  `tf_cmd_dir_first` on the parent.
- `StatExamine` handles one batch. A non-zero result returns 1. A matching
  entry is copied out and `tf_cmd_dir_cancel` begins. Otherwise
  `tf_cmd_dir_next` begins.
- `StatCancelled` returns 0 after the cancel.
- `ListFinish` is the device answering from a tree `Fs` in batches of any
  size. It may also fail on the link.

`tf_makename` and `tf_sort_dirents` are pure, so they are operators:
- `Makename` follows the copy loop of `tf_makename`, with its ".." back-up
  and the trailing '/' cut. It also reports the highest buffer byte written.
- `Qsort` is the set of orders `qsort` may produce with a comparator. Order
  within equal keys is unspecified, so all of those orders are included.

The references are `RefMakename`, which splits a path into components and
resolves "..", and `Before`, the order each sort type documents. The 16 cases
of `test_makename.c` are `TestMakename`.

Properties:
- `StatFindsEntry`: a `tf_stat` that returned 0 gives the entry the path names
  in the tree. One that returned 1 with no listing call failing means the
  path names nothing.
- `StatClosesListing`: when `tf_stat` returns, the caller is outside any
  transaction and the device is not left inside the listing.
- `StatReturns`: `tf_stat` returns, under weak fairness on the library's
  returns and on `tf_stat`'s own steps.
- `MakenameCanonical`: `tf_makename` gives the path the reference and the
  tests describe for every dir and filename of up to three of '/', '.' and 'a'.
- `MakenameFits`: it never writes past its `malloc`.
- `SortOrdered`: every order `qsort` may produce is sorted by the key the sort
  type names.

### `DeviceLock` (`topfield_open` / `topfield_close`)

Three processes open and close the same device index. Each system call of
`topfield_open` is an action: `Flock` (open and flock), `WritePid`, `ReadPid`,
`Kill`, `UsbOpen`; `topfield_close` is `CloseUsb` then `CloseLock`. In `CloseUsb`,
`CloseUsbDev` is `close_usb_dev`. It ignores the result of the interface
release and closes the descriptor, so the device is always let go. The error
paths of `topfield_open` are outcomes of these steps:
- if the lock file's `open` fails, the call takes the path of a refused
  flock (`LockRefused`): the pid lookup with `TF_LOCK_HUP`, otherwise it
  returns 1;
- if the pid lookup's `open(O_RDONLY)` fails, the call returns 1;
- if `kill` fails (EPERM), the call returns 1.

`holder` is
the process whose descriptor holds the flock, `pidfile` the pid in
`/tmp/puppy`, `usb` the processes with the device open, `hup` the pending
SIGHUPs. `Hangup` delivers one: SIGHUP's default action ends the process, and
the kernel releases its flock and device. The lock file starts with any pid or
empty, because it outlives its writers.

- `DeviceExclusive`: a process has the device open only while it holds the
  flock, so no two ever have it open together.
- `OpenReturns`: every `topfield_open` returns; the HUP path is tried once.
- `HupOnlyToHolder` (violation run only): every SIGHUP goes to the process
  holding the lock at that moment, as spec 4.7 says.

Fairness: weak fairness on each process's system-call steps (`Progress`) and
on signal delivery. None on `Open` and `CloseUsb`, because when a program opens
or closes the device is its own choice.

### `DaemonLock` (`daemon.c`)

Two processes call `daemon_lock_pid` (one try) or
`daemon_acquire_lock(pidfile, BlockSeconds)` and release with
`daemon_release_lock`. The steps are `OpenPidfile`, `SetLock` (`lock_reg` with
`F_SETLK`: the lock is taken, or `tries++ >= block_seconds` gives up, or it
sleeps and tries again), `SetLockError` (any other errno), `Truncate`,
`WritePid` and, for `daemon_lock_pid` after -1, `ReadPid`. Every error return
of open, fcntl, ftruncate and write is an outcome of its step. `ret` is what
the call returns.

- `PidNamesHolder`: while a daemon holds the lock it acquired, the pid file
  names it, whatever the processes that failed to lock did to the file.
- `CallsReturn`: every call returns, even while another daemon holds the lock
  for good.

Fairness: weak fairness on each system call's action separately. An fcntl
error is possible but never forced, so `CallsReturn` rests on the tries count
and not on an error ending the loop. A holder is never forced to release.

### `FwUpload` (`tf_fwio.c`)

The boot-loader protocol is modelled on real bytes:
- `ReqDone` frames a packet as "ToFi", seq, cmd, a big-endian length, the data
  and `calc_checksum`, an 8-bit sum over `len + 4` bytes from `seq`;
- `TxLen` and `Writes` are the padding and the 0x4000-byte chunking of
  `tf_send`;
- `GetResponse` and `Seen` are `tf_get_response`, where a short read leaves
  the rest of the stack buffer as it was.

The host actions are `UploadSend` and `UploadRecvId` (`tf_fw_upload`),
`WaitForReqData`, `UploadNext` (refuses a block longer than `MAX_DATA_SIZE`)
and `Reboot`. The calling loop (continue on 0, reboot on 1, stop on -1) and
the boot loader are not in the repository and form the environment. The boot
loader answers PC_TO_STB with ID and the first REQ_DATA. It accepts a DATA
whose seq, length and checksum match its request, writes it to `flash`, and
asks for the next block or sends END. It asks again for a DATA it rejects.
Link faults, at most `MaxFaults`, are a failed write, a packet whose checksum
byte is damaged, a read timeout, and (in `shortread`) a short read.
`MAX_DATA_SIZE` is a constant because `tf_fwio.h` is missing from the
repository.

- `ImageIntact`: every byte the boot loader has accepted is the image's byte
  at that offset, and after REBOOT it holds the whole image.
- `UploadEnds`: every upload ends, with a failed call or with the boot loader
  rebooted.
- `TransferSizes`: for every length field from 0 to 65535, no write of
  `tf_send` is a multiple of 0x200 bytes, except a full 0x4000-byte write.

Fairness: weak fairness on the host's steps (the calling loop runs to its end)
and on the boot loader's. Faults are never forced.

## 3. Runs

| Run | Module | Bounds | Checks | Result |
|---|---|---|---|---|
| `prompt` | TfSession | reliable link, `MaxChunks = 2` | TypeOK, SyncAtRest, AckDiscipline, CallsReturn, ApiRefinement | pass |
| `faults` | TfSession | `MaxWriteFail = 5`, `MaxCorrupt = 1`, `MaxLate = 1`, `QueueBound` | AckDiscipline, CallsReturn | pass (875,111 states) |
| `stale` | TfSession | `MaxLate = 1` | SyncAtRest | violation |
| `dirdesync` | TfSession | `MaxCorrupt = 1` | SyncAtRest | violation |
| `codec` | TfCodec + UsbIo | every builder on the input sets above; `MAX_WRITE = 2`, `MAX_READ = 4`, writes of 1 to 5 bytes, reads of 7 bytes over up to two pending transfers, three bus topologies, indexes 0 to 2 | WireMatchesSpec, ParseInvertsFinalize, ReplyDecodesAsSent, SendDelivers, ReadOneTransfer, BuildsOpenSameDevice, UnpackInBounds | pass |
| `rxshort` | TfCodec | adds an all-zero 8-byte read; length floor 4 | ReplyLengthSafe | violation |
| `devlock` | DeviceLock | 3 processes | TypeOK, DeviceExclusive, OpenReturns | pass |
| `stalepid` | DeviceLock | 3 processes | HupOnlyToHolder | violation |
| `pidlock` | DaemonLock | 2 processes, `BlockSeconds = 2` | TypeOK, PidNamesHolder, CallsReturn | pass |
| `fwupload` | FwUpload | 4-byte image, blocks of 1, 2 or 3 bytes, `MAX_DATA_SIZE = 2`, 2 faults | TypeOK, ImageIntact, UploadEnds, TransferSizes | pass |
| `shortread` | FwUpload | one short read of 10 bytes | ImageIntact | violation |
| `util` | TfUtil | the tree, paths, strings and listing of `MC_TfUtil` | StatFindsEntry, StatClosesListing, StatReturns, MakenameCanonical, MakenameFits, SortOrdered | pass |

**Why these bounds are enough.**
- **`TfSession`.** Two chunks per stream exercise the pipelined ack: one chunk
  acknowledged early and one acknowledged late. Five write failures let
  `tf_cmd_get_cancel` exhaust its five tries and let `tf_init` reach its last
  fallback. A single late reply desynchronises host and device for good.
  `QueueBound` (`MaxQueue = 2` per endpoint) bounds the queues in `faults`:
  once the host is a reply behind, it can keep writing without waiting.
  `tf_init` may give up, and the program then closes the session, so `faults`
  allows a stopped behaviour.
- **`TfCodec`.** The inputs reach every branch of the pad rules:
  - a 47-byte data block makes a 63-byte packet;
  - a 48-byte block makes a 64-byte one;
  - "/a" and "/ab" give both filename parities;
  - a stale byte of 0 or 170 tells the pad bytes apart.
- **`UsbIo`.** `MAX_WRITE = 2` and `MAX_READ = 4` stand for 16384. Writes of
  1 to 5 bytes need one, two and three chunks, and a last chunk both full and
  short. A 7-byte read of one transfer of 1, 3, 5 or 7 bytes, or of two
  transfers, covers a transfer ending inside the first ioctl, inside the
  second, and at the request's end. A following transfer is there to be
  wrongly appended. Transfer lengths that are multiples of `MAX_READ` are
  left out; see the hazard at `usb_io.c:141`. The topologies put a Topfield
  behind a hub, two Topfields on one bus, a Topfield of another product id
  before them, devices on two buses, and no Topfield at all. With indexes 0 to 2, both the
  second match and a missing one are reached.
- **`TfUtil`.** The tree has a file and two directories in "/", one of them
  empty. The paths reach the root, a name with no '/', a missing name, a
  missing parent, and an entry one level down. Batches of every size let a
  match fall in the first or a later `tf_cmd_dir_next`. The strings are every
  string of up to three of '/', '.' and 'a': 40 of them, giving 1,640 calls
  to `tf_makename`. They reach "..", "../", "/..", a leading '/' in the
  filename and doubled slashes. The listing has equal sizes, equal stamps and
  names equal but for case, so that ties decide the order.
- **`DeviceLock`.** Three processes give a holder, a HUP caller and a third
  whose stale pid the file can hold.
- **`DaemonLock`.** Two processes give a holder and a contender, and
  `BlockSeconds = 2` gives the loop two sleeps.
- **`FwUpload`.**
  - The image is four distinct bytes, so a block from the wrong offset is seen.
  - The blocks mix lengths, and one is longer than `MAX_DATA_SIZE`.
  - The first seq is 255 and the boot loader wraps it to 0; the host only
    echoes the seq it was given.
  - The upload program ends, so `fwupload` and `shortread` allow a stopped
    behaviour.

**Findings** (details in `PROJECT.json`):
1. A late reply is never drained. `tf_init` can return 0 with a stale SUCCESS
   still queued, and every later exchange then reads the previous one's reply
   (`stale`).
2. A damaged or timed-out DIRENT read returns non-zero with the device still
   inside the listing. The header says no dir_cancel is needed in that case
   (`dirdesync`).
3. `tf_get_response` does not check that the length field covers the header.
   A length of 0 to 3 makes the CRC run over a negative size, and 4 to 7 is
   accepted (`rxshort`). `get_dirents` then unpacks a count that is huge or
   negative, and nothing bounds it by `MAX_DIR_ENTRIES` (`UnpackInBounds`, see
   `TfCodec`).
4. With `TF_LOCK_HUP`, `topfield_open` signals the pid in the lock file. That
   file is never cleared and is written only after the flock is taken, so the
   signal can reach a process that does not hold the lock (`stalepid`).
5. The firmware `tf_get_response` compares the bytes read with the data length
   alone. A REQ_DATA cut short after its length bytes is accepted, and the offset
   comes from bytes the read never filled. These are zeros with `usb_io.c`'s
   `usb_bulk_read`, which clears the buffer, and whatever the stack held with
   libusb's. The boot loader then flashes the wrong block (`shortread`).

**Mutants.** Each property of a passing run is broken by a plausible code
change, listed in `PROJECT.json`:
- TfSession:
  - a FAIL code left un-negated;
  - a DIREND left unacknowledged;
  - `tf->pending` ignored;
  - `pending` set when the ack write failed;
  - a second CANCEL that loops.
  - any reply to FILE_START or FILE_DATA taken for SUCCESS (breaks
    `ApiRefinement`: a put the device failed stays open for the caller).
- TfCodec:
  - the filename pad computed on the string's own parity;
  - no odd transmit pad;
  - no swap of an odd reply;
  - the write loop not stopping at a failed or empty ioctl (`SendDelivers`);
  - the read loop going on after a short transfer (`ReadOneTransfer`);
  - the `/proc` scan counting with `++count == index`
    (`BuildsOpenSameDevice`);
  - the DIRENT count taken over the whole length, header included
    (`UnpackInBounds`).
- TfUtil:
  - the entry loop stopping one entry short;
  - a match returned without `tf_cmd_dir_cancel`;
  - the loop run while `ret >= 0`;
  - ".." skipped without the '/' after it;
  - no room allocated for the separator;
  - the reverse-time comparison swapped.
- DeviceLock:
  - flock's result ignored;
  - the HUP policy never demoted;
  - no `pid > 0` test.
- DaemonLock:
  - the pid file opened with O_TRUNC;
  - tries never counted;
  - `tries++ > block_seconds`.
- FwUpload:
  - get_u24 little-endian;
  - DATA sent with seq 0;
  - the next seq stored;
  - the 0x200 test made before the odd pad.

**Observations without a run.** These come from reading the code. No run
checks them, because each is a single expression that a unit test reaches:
- `tf_cmd_get_cancel` sends `tf_send_fail(tf, TF_ERR_CRC)`, so the reason goes
  out as 0xFFFFFFFF where the header says to negate it.
- `tf_cmd_size` and `tf_cmd_put` turn a device FAIL into `TF_ERR_UNEXPECTED`.
- `tf_send` leaves the pad bytes unwritten, because the memset is commented
  out.
- A 63-byte packet goes out as 64 bytes, because the pad is chosen from the
  length field.
- `tf_cmd_put_done` returns without sending CANCEL when its FILE_END write
  fails. Spec §4.6 says any failure cancels. After the failed call,
  `TfApi` (the `tf_io.h` contract) has no transaction open, so the caller
  owes no cancel. The device is then left inside the put until the next
  `tf_init` CANCEL. `SyncAtRest` would flag this, but in the `faults` bounds
  the undrained late reply already breaks it (`stale`), so no run checks
  this path.
- `tf_stat` returns 1 both when the name is absent and when a listing call
  failed. `tf_util.h` says it returns "<0 on error". `TfUtil` models the
  code's 1 and states no type invariant that would make either reading the
  right one.
- `usb_bulk_write` warns when a length is a multiple of 0x200, but only
  prints the warning. The firmware `tf_send` of `tf_fwio.c` pads its packets
  so that this never happens (`TransferSizes` in `FwUpload` checks it). The
  `tf_send` of `tf_io.c` does not. It pads an odd length by one, so a 511-byte
  packet goes out as 512 bytes.
- `daemon_lock_pid` reads the pid file after its F_SETLK fails. The new
  holder may not yet have rewritten the file, so the caller can be told an
  earlier daemon's pid, including its own if it held the lock before.
  `daemon.h` promises the holder's pid. TLC finds this in 8 steps with two
  processes, for the invariant "no lock_pid caller is told its own pid" on
  `MC_DaemonLock`. The run cap leaves it as a hazard at `daemon.c:177`.
- `tf_cmp_dirent_by_time` returns a `time_t` difference as an `int`. Stamps more
  than 2^31 seconds apart would wrap. TLC's integers are 32 bits, so this is
  recorded as a hazard rather than checked.

## 4. Plan

1. A fault in `TfSession` where a write times out after the device received
   the packet. `UsbIo` shows that this can happen, but in `TfSession` a
   failed write delivers nothing. Such a ghost write would violate
   `AckDiscipline` with a second ack after a pipelined FILE_DATA ack
   (`tf_io.c:798`). `tf_init`'s CANCEL would also leave a stale SUCCESS queued,
   which is the outcome the `stale` run already shows. The run cap leaves it
   as a hazard.
2. Hotplug between the lock and the open in `topfield_open`
   (`tf_open.c:130`). The lock file is per index, and the index counts the
   Topfields on the bus at the moment of the open. A device added or removed
   in between lets two lock holders open the same device. `DeviceLock`
   keeps the bus fixed.

## 5. Not modelled

- The kernel and libusb beneath `usb_io.c` and `usbutil.c`. The ioctl's
  behaviour is every outcome it may have; libusb's bus order is taken to be
  the order of `/proc`. In `TfSession` the transport is a pair of queues with
  bounded faults. `UsbIo` checks, per call, what that abstraction assumes.
- The date conversion (`tfdt_to_time`, `time_to_tfdt`, declared in `mjd.h`). It
  has no definition in the repository.
- Tracing and hex dumps (`print_packet`, `tf_command_name`), and
  `tf_strerror`.
- `lock_filename`'s file name for an index, and `TF_LOCK_NONE`.
- The `tf->dev == NULL` paths of the firmware code, which cannot be reached
  after a successful `topfield_open`.
- The receive buffer `tf->buf`, whose data stays valid only until the next
  receive. That is a constraint on the caller's data, not on protocol state.
- `test_crc.c`, which prints a CRC without asserting it. `test_makename.c`
  and `test_swab.c` are checked (`TestMakename`, the ASSUME in `TfCodec`).
