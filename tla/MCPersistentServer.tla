------------------------- MODULE MCPersistentServer -------------------------
(* Small instances of PersistentServer.  A byte names the image it belongs   *)
(* to and its position there.  MinBlock is 1, so SZX 0, 1 give blocks of 1   *)
(* and 2 bytes.                                                              *)
EXTENDS PersistentServer

CONSTANTS ImageA, ImageB, Flash

MCImage(x, n) == [i \in 1..n |-> <<x, i>>]

MCByte == ({ImageA, ImageB, Flash} \X (1..4)) \cup {<<Flash, 0>>}
MCStatic == MCImage(Flash, 1)
WildBytes(n) == [i \in 1..n |-> <<Flash, 0>>]

\* two images, of three and of four bytes, in blocks of one and of two bytes
HonestPuts ==
  UNION {ImageBlocks(image, szx) : image \in {MCImage(ImageA, 3), MCImage(ImageB, 4)}, szx \in {0, 1}}

\* blocks that no image explains, of any length and order; with WordSize 8, block 4 of SZX 1
\* wraps to offset 0
WildPuts ==
  [num : {0, 1, 2, 4}, szx : {0, 1}, more : BOOLEAN, payload : {<<>>, WildBytes(1), WildBytes(2)}]

AllPuts == HonestPuts \cup WildPuts
=============================================================================
