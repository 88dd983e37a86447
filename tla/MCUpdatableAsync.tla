-------------------------- MODULE MCUpdatableAsync --------------------------
(* A small instance of UpdatableAsync: two images of one and of two blocks   *)
(* that peers upload in blocks of one byte, in any order.                    *)
EXTENDS UpdatableAsync

CONSTANTS ImageA, ImageB, Flash

MCImage(x, n) == [i \in 1..n |-> <<x, i>>]
MCByte == {ImageA, ImageB, Flash} \X (1..3)
MCInitial == MCImage(Flash, 1)

HonestPuts == ImageBlocks(MCImage(ImageA, 1), 0) \cup ImageBlocks(MCImage(ImageB, 3), 0)
=============================================================================
