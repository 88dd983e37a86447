---------------------------- MODULE MCUdpUpdates ----------------------------
(* A small instance of UdpUpdates: a size packet of one byte, chunks of two  *)
(* and a buffer of three.  The files are one of three bytes, whose last      *)
(* chunk is as long as a size packet, one of five, which is too long and     *)
(* whose last chunk can be taken for the size 2, and an empty one.           *)
EXTENDS UdpUpdates

CONSTANT MCBufferSize

MCFileByte(f, n) == [kind |-> "file", of |-> f, at |-> n]
MCSizeByte(n) == [kind |-> "size", of |-> "none", at |-> n]
MCZero == [kind |-> "zero", of |-> "none", at |-> 0]
MCFile(f, n) == [i \in 1..n |-> MCFileByte(f, i)]

MCByte == [kind : {"file", "size", "zero"}, of : {"none", "A", "C"}, at : 0..5]
MCFiles == {MCFile("A", 3), MCFile("C", 5), <<>>}
MCSizePacket == [n \in 0..MCBufferSize + 1 |-> <<MCSizeByte(n)>>]
=============================================================================
