----------------------------- MODULE MC_TfCodec -----------------------------
(* Inputs for TfCodec: paths of both parities, with and without '/', two     *)
(* offsets, data blocks whose FILE_DATA packets are 17, 63 and 64 bytes, and *)
(* the replies a device or a damaged transfer can produce.                   *)
EXTENDS TfCodec

MC_Paths == {<<47, 97>>, <<47, 97, 98>>}                 \* "/a", "/ab"
MC_Offsets == {<<0, 0>>, <<1, 65538>>}
MC_DataBlocks == {<<7>>, [k \in 1..47 |-> k], [k \in 1..48 |-> k]}
MC_Garbage == {<<0, 0>>, <<170, 85>>}

\* Replies as the device transmits them (finalized, even length)
Good(cmd, payload) == [raw |-> SpecFinalize(cmd, payload), cmd |-> cmd, payload |-> payload]
\* Reads that are not a packet: a short read, a truncated FILE_DATA
Damaged == {[raw |-> <<8, 0, 0, 0>>, cmd |-> None],
            [raw |-> SubSeq(SpecFinalize(FILE_DATA, <<0,0,0,0,0,0,0,0,7>>), 1, 16),
             cmd |-> None]}
MC_Replies ==
    {Good(SUCCESS, <<>>), Good(FAIL, BigEndian(5, 4)),
     Good(FILE_DATA, <<0, 0, 0, 0, 0, 0, 0, 0, 7>>)} \cup Damaged
\* Transfers of odd length (no multiple of the 2-byte packet), each byte
\* labelled with its transfer: none, one, or one with another behind it
Xfer(t, n) == [k \in 1..n |-> <<t, k>>]
MC_Pendings ==
    {<<>>} \cup {<<Xfer(1, n)>> : n \in {1, 3, 5, 7}}
           \cup {<<Xfer(1, n), Xfer(2, m)>> : n \in {1, 3, 5, 7}, m \in {1, 3}}

\* Busses of a root hub (1d6b:0002), Topfields (11db:1000) and another
\* Topfield model (11db:1001), device numbers as the kernel gives them
Hub(b) == [id |-> <<b, 1>>, vendor |-> 7531, product |-> 2]
Tf(b, d) == [id |-> <<b, d>>, vendor |-> 4571, product |-> 4096]
Other(b, d) == [id |-> <<b, d>>, vendor |-> 4571, product |-> 4097]
MC_Busses ==
    {<<<<Hub(1), Tf(1, 2)>>>>,
     <<<<Hub(1), Other(1, 3), Tf(1, 4)>>, <<Hub(2), Tf(2, 5), Tf(2, 6)>>>>,
     <<<<Hub(1)>>, <<Hub(2), Other(2, 2)>>>>}

\* A full header of zero bytes (e.g. a zero-length bulk packet filled out)
MC_BadReplies == MC_Replies \cup {[raw |-> [k \in 1..8 |-> 0], cmd |-> None]}

\* The least length field of a well-formed reply: a DIRENT reply holds its
\* header, a FILE_DATA reply its header and its 8-byte file offset
MC_WellFormedFloor == (DIRENT :> PACKET_HEAD_SIZE) @@ (FILE_DATA :> PACKET_HEAD_SIZE + 8)

\* The least length field tf_get_response accepts with the CRC check on
\* without running it over a negative size (length - 4 >= 0)
MC_AcceptedFloor == (DIRENT :> 4) @@ (FILE_DATA :> 4)
=============================================================================
