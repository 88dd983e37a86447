----------------------------- MODULE MCSandbox -----------------------------
(* A small instance of Sandbox: two paths, images of two and of three bytes, *)
(* blocks of one and of two bytes of theirs, of every length, final or not.  *)
EXTENDS Sandbox, TLC

CONSTANTS ImageA, ImageB, PathP, PathQ

MCImage(x, n) == [i \in 1..n |-> <<x, i>>]
MCByte == {ImageA, ImageB} \X (1..3)
MCPath == {PathP, PathQ}

\* what an image has at the place of a block, or only the first byte of it;
\* SZX 7 is reserved
Parts(image) ==
  UNION {{[num |-> num, szx |-> szx, more |-> more,
           payload |-> SubSeq(image, num * BlockSize(szx) + 1, num * BlockSize(szx) + n)] :
          more \in BOOLEAN} :
         <<num, szx, n>> \in {x \in (0..2) \X {0, 1} \X {1, 2} :
                               /\ x[3] <= BlockSize(x[2])
                               /\ x[1] * BlockSize(x[2]) + x[3] <= Len(image)}}

HonestPuts ==
  Parts(MCImage(ImageA, 2)) \cup Parts(MCImage(ImageB, 3))
    \cup [num : {0}, szx : {7}, more : {FALSE}, payload : {<<>>}]

Symmetry == Permutations(MCPath)
=============================================================================
