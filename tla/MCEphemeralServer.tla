------------------------- MODULE MCEphemeralServer -------------------------
(* A small instance of EphemeralServer: images of one, of two and of three   *)
(* bytes in blocks of one and of two bytes, in any order.                    *)
EXTENDS EphemeralServer

CONSTANTS ImageA, ImageB

MCImage(x, n) == [i \in 1..n |-> <<x, i>>]
MCByte == {ImageA, ImageB} \X (1..3)

HonestPuts ==
  ImageBlocks(MCImage(ImageA, 1), 0)
    \cup UNION {ImageBlocks(MCImage(x, 3), szx) : x \in {ImageA, ImageB}, szx \in {0, 1}}
=============================================================================
