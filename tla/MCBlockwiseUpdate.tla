------------------------- MODULE MCBlockwiseUpdate -------------------------
(* Small instances of BlockwiseUpdate: blocks of one byte, images of two and *)
(* three blocks whose bytes name their image and position.                   *)
EXTENDS BlockwiseUpdate

CONSTANTS ImageA, ImageB, Flash

MCImage(x, n) == [i \in 1..n |-> <<x, i>>]
MCByte == {ImageA, ImageB, Flash} \X (1..3)
MCStatic == MCImage(Flash, 1)

TwoImages == <<MCImage(ImageA, 2), MCImage(ImageB, 3)>>

\* an ordered network without OSCORE; one that reorders, with OSCORE, and memory that fails
MCSettings == {[ordered |-> TRUE, protected |-> FALSE, memoryFails |-> FALSE],
               [ordered |-> FALSE, protected |-> TRUE, memoryFails |-> TRUE]}
MCPuts == UploadBlocks
=============================================================================
