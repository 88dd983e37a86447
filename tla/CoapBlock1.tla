----------------------------- MODULE CoapBlock1 -----------------------------
(* The arithmetic on the Block1 option of a PUT, the same few lines in every *)
(* handler that takes an image in blocks, and the codes these handlers       *)
(* answer.  A request without the option counts as block 0 of SZX 0.         *)
EXTENDS Naturals, Sequences

CONSTANTS MinBlock,   \* size of a block with SZX 0: 16 bytes in CoAP
          WordSize    \* offsets are u32: 2^32 in the code

ASSUME Block1Assumption == MinBlock \in Nat \ {0} /\ WordSize \in Nat \ {0}

\* a request with its Block1 option taken apart: NUM, M, SZX, and its payload
PutType(Byte) == [num : Nat, szx : 0..7, more : BOOLEAN, payload : Seq(Byte)]

NoBlock == [num |-> 0, szx |-> 0, more |-> FALSE, payload |-> <<>>]

\* 1 << (4 + szx), for every SZX that fits in its three bits
BlockSize(szx) == MinBlock * <<1, 2, 4, 8, 16, 32, 64, 128>>[szx + 1]

\* where the sender of a block means its payload to go
BlockStart(b) == b.num * BlockSize(b.szx)

\* where the server takes it to go: the product wraps
Offset(b) == BlockStart(b) % WordSize

\* a byte is a pair, of the image it comes from and its position there
At(byte) == byte[2]

\* the payload of a block is the part of some image that its number says
Honest(b) ==
  /\ BlockStart(b) < WordSize
  /\ \A i \in DOMAIN b.payload : At(b.payload[i]) = BlockStart(b) + i

\* bytes of no image have the position 0
Wild(b) == \A i \in DOMAIN b.payload : At(b.payload[i]) = 0

(* How a peer cuts an image into blocks (RFC 7959).                          *)
BlockCount(image, szx) == (Len(image) + BlockSize(szx) - 1) \div BlockSize(szx)

ImageBlock(image, num, szx) ==
  LET from == num * BlockSize(szx)
      more == num + 1 < BlockCount(image, szx)
  IN  [num |-> num, szx |-> szx, more |-> more,
       payload |-> SubSeq(image, from + 1, IF more THEN from + BlockSize(szx) ELSE Len(image))]

ImageBlocks(image, szx) ==
  {ImageBlock(image, num, szx) : num \in 0..BlockCount(image, szx) - 1}

\* CoAP codes of the answers
Created == "2.01"
Deleted == "2.02"
Changed == "2.04"
Content == "2.05"
Continue == "2.31"
BadRequest == "4.00"
BadOption == "4.02"
Forbidden == "4.03"
NotFound == "4.04"
MethodNotAllowed == "4.05"
Incomplete == "4.08"
TooLarge == "4.13"
InternalServerError == "5.00"
ServiceUnavailable == "5.03"

Code == {Created, Deleted, Changed, Content, Continue, BadRequest, BadOption,
         Forbidden, NotFound, MethodNotAllowed, Incomplete, TooLarge,
         InternalServerError, ServiceUnavailable}
=============================================================================
