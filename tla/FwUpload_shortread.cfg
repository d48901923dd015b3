\* One short read that stops two bytes into a REQ_DATA's data: its length
\* field (5, the data only) is below the 10 bytes read, so tf_get_response
\* accepts it, and the offset bytes are the zeros usb_io.c's usb_bulk_read
\* left (with libusb, whatever the stack held).
CONSTANTS
    None = None
    Image <- MC_Image
    BlockLens <- MC_BlockLens
    MaxData = 2
    Seq0 = 255
    MaxFaults = 1
    Truncations = {10}
    Stale = {0}
SPECIFICATION Spec
INVARIANT
    ImageIntact
CHECK_DEADLOCK FALSE
