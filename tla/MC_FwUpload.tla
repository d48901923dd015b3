----------------------------- MODULE MC_FwUpload -----------------------------
(* A four-byte image whose bytes differ, so a block taken from the wrong    *)
(* offset is seen.  The boot loader asks for blocks of one or two bytes, in *)
(* any mix (the last one short when it would pass the end), or for three,   *)
(* more than MAX_DATA_SIZE = 2.  Its first seq is 255, so the second        *)
(* request's seq wraps to 0.                                                *)
EXTENDS FwUpload

MC_Image == <<17, 34, 51, 68>>
MC_BlockLens == {1, 2, 3}
=============================================================================
