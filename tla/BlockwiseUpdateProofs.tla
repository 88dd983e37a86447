----------------------- MODULE BlockwiseUpdateProofs -----------------------
(* Theorems about BlockwiseUpdate on a network that loses and repeats: either*)
(* one that reorders, where OSCORE refuses replays, or one that keeps the    *)
(* order, without OSCORE.  For all images, block sizes and numbers of        *)
(* messages in flight, and whatever allocations and starts fail.             *)
EXTENDS BlockwiseUpdate, PersistentServerProofs

(* The two kinds of settings.                                                *)
Protected == setting.protected /\ ~setting.ordered
InOrder == setting.ordered /\ ~setting.protected

Covered == \A s \in Settings : s.protected <=> ~s.ordered

Size == BlockSize(Szx)
Count(k) == BlockCount(Images[k], Szx)

\* the first n blocks of an image
Beginning(k, n) == SubSeq(Images[k], 1, n * Size)

Slot == IF handler.state = "Running" THEN handler.instance.code ELSE <<>>

\* the server has the first n blocks of an image, and nothing runs
Expecting(k, n) == handler.state # "Running" /\ handler.program = Beginning(k, n)

InSlot(k) == handler.state = "Running" /\ handler.instance.code = Images[k]
-----------------------------------------------------------------------------
LEMMA SizeType == Size \in Nat /\ Size > 0
<1>1. <<1, 2, 4, 8, 16, 32, 64, 128>>[Szx + 1] \in Nat \ {0}
  BY BlockwiseAssumption
<1> QED
  BY <1>1, Block1Assumption DEF Size, BlockSize

LEMMA ImageType ==
  ASSUME NEW k \in DOMAIN Images
  PROVE  /\ Images[k] \in Seq(Byte) /\ Len(Images[k]) \in Nat
         /\ Len(Images[k]) <= WordSize
         /\ Count(k) \in Nat /\ Count(k) > 0
         /\ Count(k) = (Len(Images[k]) + Size - 1) \div Size
<1>1. Images[k] \in Seq(Byte) /\ Len(Images[k]) \in Nat /\ Len(Images[k]) <= WordSize
  BY BlockwiseAssumption
<1>2. Count(k) = (Len(Images[k]) + Size - 1) \div Size /\ Count(k) > 0
  BY BlockwiseAssumption DEF Count, BlockCount, Size
<1>3. Len(Images[k]) + Size - 1 \in Nat
  BY <1>1, SizeType
<1>4. Count(k) \in Nat
  BY <1>2, <1>3, SizeType
<1> QED
  BY <1>1, <1>2, <1>4

(* A network without a replay window is only given images of several blocks. *)
LEMMA SeveralBlocks ==
  ASSUME InOrder, setting \in Settings, NEW k \in DOMAIN Images
  PROVE  Count(k) > 1
  BY BlockwiseAssumption DEF InOrder, Count

(* Every block begins within its image, and the one after it behind it.      *)
LEMMA BlockWithin ==
  ASSUME NEW k \in DOMAIN Images, NEW n \in 0..Count(k) - 1
  PROVE  /\ n * Size \in Nat /\ n * Size < Len(Images[k])
         /\ (n + 1) * Size = n * Size + Size
<1> DEFINE q == Count(k)
           a == Len(Images[k]) + Size - 1
<1>1. n \in Nat /\ n + 1 <= q /\ q \in Nat
  BY ImageType
<1>2. Size \in Nat /\ Size > 0 /\ a \in Nat /\ q = a \div Size /\ Len(Images[k]) \in Nat
  BY ImageType, SizeType
<1> HIDE DEF q, a
<1>3. q * Size <= a
  BY <1>1, <1>2
<1>4. (n + 1) * Size <= q * Size
  BY <1>1, <1>2
<1>5. (n + 1) * Size = n * Size + Size /\ n * Size \in Nat /\ q * Size \in Nat
  BY <1>1, <1>2
<1>6. n * Size + Size <= Len(Images[k]) + Size - 1
  BY <1>1, <1>2, <1>3, <1>4, <1>5 DEF a
<1> QED
  BY <1>2, <1>5, <1>6

(* What the server makes of a block of an image: where it goes, and what the *)
(* beginning of the image becomes with it.                                   *)
LEMMA TheBlock ==
  ASSUME NEW k \in DOMAIN Images, NEW n \in 0..Count(k) - 1,
         NEW b, b = ImageBlock(Images[k], n, Szx)
  PROVE  /\ b \in UploadBlocks /\ b \in PutRequest
         /\ b.more <=> n + 1 < Count(k)
         /\ Offset(b) = n * Size /\ (Offset(b) = 0 <=> n = 0)
         /\ b.more => Beginning(k, n) \o b.payload = Beginning(k, n + 1)
         /\ ~b.more => Beginning(k, n) \o b.payload = Images[k]
<1> DEFINE from == n * Size
           image == Images[k]
<1>1. /\ b.num = n /\ b.szx = Szx
      /\ b.more <=> n + 1 < Count(k)
      /\ b.payload = SubSeq(image, from + 1, IF b.more THEN from + Size ELSE Len(image))
  BY DEF ImageBlock, Count, Size
<1>2. b \in UploadBlocks /\ b \in PutRequest
  <2>1. b \in ImageBlocks(Images[k], Szx)
    BY DEF ImageBlocks, Count
  <2> QED
    BY <2>1, BlockwiseAssumption DEF UploadBlocks
<1>3. /\ n \in Nat /\ Size \in Nat /\ Size > 0 /\ WordSize \in Nat \ {0}
      /\ image \in Seq(Byte) /\ Len(image) \in Nat /\ Len(image) <= WordSize
      /\ from \in Nat /\ from < Len(image) /\ (n + 1) * Size = from + Size
  BY SizeType, ImageType, BlockWithin, Block1Assumption
<1>4. Offset(b) = n * Size /\ (Offset(b) = 0 <=> n = 0)
  <2>1. BlockStart(b) = from
    BY <1>1 DEF BlockStart, Size
  <2>2. n > 0 => from > 0
    BY <1>3
  <2>3. n = 0 => from = 0
    BY <1>3
  <2>4. from < WordSize
    BY <1>3
  <2> HIDE DEF from
  <2>5. from % WordSize = from
    BY <1>3, <2>4
  <2>6. Offset(b) = from
    BY <2>1, <2>5 DEF Offset
  <2> QED
    BY <1>3, <2>2, <2>3, <2>6 DEF from
<1>7. CASE b.more
  <2>1. (n + 1) * Size < Len(image)
    BY <1>1, <1>7, BlockWithin, ImageType
  <2> HIDE DEF from, image
  <2>2. SubSeq(image, 1, from) \o SubSeq(image, from + 1, from + Size) = SubSeq(image, 1, from + Size)
    <3>1. 1 \in 1..Len(image) + 1 /\ from \in 1 - 1..Len(image) /\ from + Size \in from..Len(image)
      BY <1>3, <2>1
    <3> QED
      BY <1>3, <3>1, ConcatAdjacentSubSeq
  <2>3. Beginning(k, n) \o b.payload = Beginning(k, n + 1)
    BY <1>1, <1>3, <1>7, <2>2 DEF Beginning, from, image
  <2> QED
    BY <1>1, <1>2, <1>4, <1>7, <2>3
<1>8. CASE ~b.more
  <2> HIDE DEF from, image
  <2>1. SubSeq(image, 1, from) \o SubSeq(image, from + 1, Len(image)) = image
    <3>1. 1 \in 1..Len(image) + 1 /\ from \in 1 - 1..Len(image) /\ Len(image) \in from..Len(image)
      BY <1>3
    <3>2. SubSeq(image, 1, from) \o SubSeq(image, from + 1, Len(image)) = SubSeq(image, 1, Len(image))
      BY <1>3, <3>1, ConcatAdjacentSubSeq
    <3> QED
      BY <1>3, <3>2, SubSeqFull
  <2>2. Beginning(k, n) \o b.payload = Images[k]
    BY <1>1, <1>8, <2>1 DEF Beginning, from, image
  <2> QED
    BY <1>1, <1>2, <1>4, <1>8, <2>2
<1> QED
  BY <1>7, <1>8

(* The part of the handler before it decides: the slot is down, and the      *)
(* buffer is what precedes the block.                                        *)
LEMMA BegunForBlock ==
  ASSUME IInv, NEW k \in DOMAIN Images, NEW n \in 0..Count(k) - 1, n > 0 => Expecting(k, n),
         NEW b, b = ImageBlock(Images[k], n, Szx)
  PROVE  /\ Begun(handler, b) \in Handler
         /\ Begun(handler, b).state # "Running"
         /\ Begun(handler, b).program = Beginning(k, n)
<1>1. handler \in Handler /\ b \in PutRequest /\ (Offset(b) = 0 <=> n = 0)
  BY TheBlock DEF IInv, TypeOK
<1>2. CASE n = 0
  <2>1. Stop(handler) \in Handler /\ Stop(handler).state # "Running"
    BY <1>1, StopType
  <2>2. Begun(handler, b) = [Stop(handler) EXCEPT !.program = <<>>]
    BY <1>1, <1>2 DEF Begun
  <2>3. Beginning(k, n) = <<>>
    BY <1>2, SizeType, SubSeqEmpty DEF Beginning
  <2>4. <<>> \in Seq(Byte)
    OBVIOUS
  <2> QED
    BY <2>1, <2>2, <2>3, <2>4 DEF Handler
<1>3. CASE n # 0
  <2>1. Begun(handler, b) = handler
    BY <1>1, <1>3 DEF Begun
  <2> QED
    BY <1>1, <1>3, <2>1 DEF Expecting
<1> QED
  BY <1>2, <1>3

LEMMA DynamicStart ==
  ASSUME NEW h \in Handler, NEW outcome
  PROVE  LET g == StartRaw(h, h.program, TRUE, outcome) IN
         /\ g.state = "Taken" \/ (g.state = "Running" /\ g.instance.code = h.program)
         /\ h.state = "NotRunning" /\ outcome = "Ok" => g.state = "Running"
  BY DEF StartRaw, Handler

(* What a block of the image that is expected can do: the buffer stays the   *)
(* beginning of the image, the slot goes down or gets the image, and the     *)
(* answers that let the peer go on are true.                                 *)
LEMMA HandleResult ==
  ASSUME IInv, NEW k \in DOMAIN Images, NEW n \in 0..Count(k) - 1, n > 0 => Expecting(k, n),
         Handle(ImageBlock(Images[k], n, Szx))
  PROVE  /\ \/ handler'.program = Beginning(k, n)
            \/ n + 1 < Count(k) /\ handler'.program = Beginning(k, n + 1)
            \/ handler'.program = Images[k]
         /\ Slot' \in {<<>>, Images[k]}
         /\ status' = "serving" =>
              /\ last'.code \in Code
              /\ last'.code = Continue => n + 1 < Count(k) /\ Expecting(k, n + 1)'
              /\ last'.code = Changed => n + 1 = Count(k) /\ InSlot(k)'
<1> DEFINE b == ImageBlock(Images[k], n, Szx)
           h == Begun(handler, b)
           e == Extended(handler, b)
<1>1. h \in Handler /\ h.state # "Running" /\ h.program = Beginning(k, n)
  BY BegunForBlock
<1>2. /\ b \in PutRequest
      /\ b.more <=> n + 1 < Count(k)
      /\ b.more => Beginning(k, n) \o b.payload = Beginning(k, n + 1)
      /\ ~b.more => Beginning(k, n) \o b.payload = Images[k]
  BY TheBlock
<1>3. e \in Handler /\ e.state # "Running" /\ e.program = Beginning(k, n) \o b.payload
  BY <1>1, <1>2, BegunType DEF IInv
<1> HIDE DEF b
<1>4. CASE PutIncomplete(b) \/ PutNoMemory(b)
  <2>1. handler' = h
    BY <1>4 DEF PutIncomplete, PutNoMemory
  <2>2. last'.code \in {Incomplete, InternalServerError}
    BY <1>4 DEF PutIncomplete, PutNoMemory, AnswerPut
  <2> HIDE DEF h
  <2>3. last'.code \in Code /\ last'.code # Continue /\ last'.code # Changed
    BY <2>2 DEF Code, Incomplete, InternalServerError, Continue, Changed
  <2> QED
    BY <1>1, <2>1, <2>3 DEF Slot
<1>5. CASE PutContinue(b)
  <2>1. handler' = e /\ b.more /\ last'.code = Continue
    BY <1>5 DEF PutContinue, AnswerPut
  <2> HIDE DEF e
  <2>2. Continue \in Code /\ Continue # Changed
    BY DEF Code, Continue, Changed
  <2> QED
    BY <1>2, <1>3, <2>1, <2>2 DEF Slot, Expecting
<1>6. ASSUME NEW outcome \in StartOutcome, PutStart(b, outcome)
      PROVE  /\ handler'.program = Images[k]
             /\ Slot' \in {<<>>, Images[k]}
             /\ status' = "serving" =>
                  /\ last'.code \in {BadRequest, Changed}
                  /\ last'.code = Changed => n + 1 = Count(k) /\ InSlot(k)'
  <2>1. handler' = StartRaw(e, e.program, TRUE, outcome) /\ ~b.more /\ status = "serving"
    BY <1>6 DEF PutStart, StartFromDynamic
  <2>2. e.program = Images[k]
    BY <1>2, <1>3, <2>1
  <2>3. e.program \in Seq(Byte)
    BY <1>3 DEF Handler
  <2>4. status' = "serving" => /\ ~StartPanics(e, outcome)
                              /\ last'.code = IF outcome = "BadImage" THEN BadRequest ELSE Changed
    BY <1>6 DEF PutStart, AnswerPut
  <2> HIDE DEF e
  <2>5. handler' \in Handler /\ handler'.program = e.program
    BY <1>3, <2>1, <2>3, StartType, StartProgram
  <2>6. \/ handler'.state = "Running" /\ handler'.instance.code = Images[k]
        \/ handler'.state = "Taken"
    BY <1>3, <2>1, <2>2, DynamicStart
  <2>7. e.state = "NotRunning" /\ outcome = "Ok" => handler'.state = "Running"
    BY <1>3, <2>1, DynamicStart
  <2>8. ~StartPanics(e, outcome) /\ outcome # "BadImage" => e.state = "NotRunning" /\ outcome = "Ok"
    BY DEF StartPanics, StartOutcome
  <2>9. status' = "serving" /\ last'.code = Changed => InSlot(k)'
    BY <2>4, <2>6, <2>7, <2>8 DEF InSlot, BadRequest, Changed
  <2>10. n + 1 = Count(k)
    BY <1>2, <2>1, ImageType
  <2> QED
    BY <2>2, <2>4, <2>5, <2>6, <2>9, <2>10 DEF Slot
<1>7. BadRequest \in Code /\ Changed \in Code /\ BadRequest # Continue /\ Changed # Continue
  BY DEF Code, BadRequest, Changed, Continue
<1> QED
  <2>1. Handle(b)
    BY DEF b
  <2>2. \/ PutIncomplete(b) \/ PutNoMemory(b) \/ PutContinue(b)
        \/ \E outcome \in StartOutcome : PutStart(b, outcome)
    BY <2>1 DEF Handle, StartOutcome
  <2> QED
    BY <1>4, <1>5, <1>6, <1>7, <2>2
-----------------------------------------------------------------------------
(* The inductive invariant.  Tokens grow, and a request whose token is not   *)
(* the last one has been handled and is refused: the server handles nothing  *)
(* but the block that the peer awaits an answer for, and that once.          *)
PeerState ==
  /\ setting \in Settings
  /\ want \in 0..Len(Images) /\ confirmed \in Nat /\ want \in {confirmed, confirmed + 1}
  /\ block \in Nat /\ token \in 0..MaxToken
  /\ Uploading => token > 0 /\ block \in 0..Count(want) - 1

Window ==
  /\ seen \subseteq 1..token
  /\ \A t \in 1..token : t \in seen \/ (t = token /\ Uploading)

Outstanding == Uploading /\ token \notin seen /\ block > 0 => Expecting(want, block)

Requests ==
  {m \in [token : 1..token, block : UploadBlocks] :
     m.token = token /\ Uploading => m.block = ImageBlock(Images[want], block, Szx)}

Responses ==
  {r \in [token : seen, code : Code \cup {Replayed}] :
     r.token = token /\ Uploading =>
       /\ r.code = Continue => block + 1 < Count(want) /\ Expecting(want, block + 1)
       /\ r.code = Changed => InSlot(want)}

BInv ==
  /\ IInv
  /\ PeerState /\ Window /\ Outstanding
  /\ reqs \in Seq(Requests)
  /\ resps \in Seq(Responses)
-----------------------------------------------------------------------------
LEMMA WithoutType ==
  ASSUME NEW S, NEW channel \in Seq(S), NEW i \in Positions(channel)
  PROVE  Without(channel, i) \in Seq(S) /\ channel[i] \in S
<1>1. i \in 1..Len(channel) /\ Len(channel) \in Nat
  BY DEF Positions
<1>2. SubSeq(channel, 1, i - 1) \in Seq(S)
  <2>1. \A j \in 1..i - 1 : channel[j] \in S
    BY <1>1
  <2> QED
    BY <1>1, <2>1, SubSeqProperties
<1>3. SubSeq(channel, i + 1, Len(channel)) \in Seq(S)
  <2>1. \A j \in i + 1..Len(channel) : channel[j] \in S
    BY <1>1
  <2> QED
    BY <1>1, <2>1, SubSeqProperties
<1> QED
  BY <1>1, <1>2, <1>3, ConcatProperties DEF Without

LEMMA SeqWider ==
  ASSUME NEW S, NEW T, S \subseteq T
  PROVE  Seq(S) \subseteq Seq(T)
  OBVIOUS

LEMMA AppendType ==
  ASSUME NEW S, NEW channel \in Seq(S), NEW m \in S
  PROVE  Append(channel, m) \in Seq(S)
  OBVIOUS

LEMMA WantIsImage == PeerState /\ Uploading => want \in DOMAIN Images
  BY BlockwiseAssumption DEF PeerState, Uploading

(* A new request, once the last one was handled: all that is in flight has   *)
(* an older token.                                                           *)
LEMMA SendKeeps ==
  ASSUME BInv, Protected, Send(want', block'), UNCHANGED <<vars, setting, seen>>,
         1..token \subseteq seen, Uploading', PeerState',
         block' > 0 => Expecting(want', block'), resps' \in Seq(Responses)
  PROVE  BInv'
<1>1. ~setting.ordered /\ token' = token + 1 /\ token' \in Nat /\ token \in Nat
  BY DEF BInv, PeerState, Protected, Send
<1>2. IInv'
  BY DEF BInv, IInv, TypeOK, BootIsFresh, SlotConsistent, ProgramPinned, AdvertisedAreServed, vars
<1>3. Window'
  BY <1>1 DEF BInv, Window
<1>4. Outstanding'
  BY DEF Outstanding, Expecting, Beginning, vars
<1>5. Requests \subseteq Requests'
  BY <1>1 DEF Requests
<1>6. [token |-> token', block |-> ImageBlock(Images[want'], block', Szx)] \in Requests'
  <2>1. want' \in DOMAIN Images /\ block' \in 0..Count(want') - 1
    <3>1. (PeerState /\ Uploading => want \in DOMAIN Images)'
      BY WantIsImage, PTL
    <3> QED
      BY <3>1 DEF PeerState, Count
  <2>2. ImageBlock(Images[want'], block', Szx) \in UploadBlocks
    BY <2>1, TheBlock
  <2>3. token' \in 1..token'
    BY <1>1
  <2> QED
    BY <2>2, <2>3 DEF Requests
<1>7. reqs' \in Seq(Requests')
  BY <1>5, <1>6, SeqWider, AppendType DEF BInv, Send
<1>8. Responses \subseteq Responses'
  <2>1. \A t \in seen : t # token'
    BY <1>1 DEF BInv, Window
  <2> QED
    BY <2>1 DEF Responses
<1> QED
  BY <1>2, <1>3, <1>4, <1>7, <1>8, SeqWider DEF BInv

(* The peer's side of an upload keeps the invariant.                         *)
LEMMA PeerKeeps ==
  ASSUME BInv, Protected, NEW i \in Positions(resps), PeerReceive(i)
  PROVE  BInv'
<1> DEFINE r == resps[i]
<1>1. resps' \in Seq(Responses) /\ r \in Responses
  BY WithoutType DEF BInv, PeerReceive
<1>2. UNCHANGED <<vars, setting, want, seen>>
  BY DEF PeerReceive
<1>3. IInv'
  BY <1>2 DEF BInv, IInv, TypeOK, BootIsFresh, SlotConsistent, ProgramPinned, AdvertisedAreServed, vars
<1>4. CASE UNCHANGED <<confirmed, block, token, reqs>>
  <2>1. Requests' = Requests /\ Responses' = Responses
    BY <1>2, <1>4 DEF Requests, Responses, Uploading, Expecting, InSlot, Beginning, Count, vars
  <2> QED
    BY <1>1, <1>2, <1>3, <1>4, <2>1
       DEF BInv, PeerState, Window, Outstanding, Uploading, Expecting, Beginning, Count, vars
<1>5. CASE Uploading /\ r.token = token /\ ~UNCHANGED <<confirmed, block, token, reqs>>
  <2>1. token \in seen
    BY <1>1, <1>5 DEF Responses
  <2>2. 1..token \subseteq seen
    BY <2>1 DEF BInv, Window
  <2>3. CASE r.code = Changed /\ confirmed' = want /\ UNCHANGED <<block, token, reqs>>
    <3>1. ~Uploading'
      BY <1>2, <2>3 DEF Uploading
    <3>2. Requests \subseteq Requests' /\ Responses \subseteq Responses'
      BY <1>2, <2>3, <3>1 DEF Requests, Responses
    <3>3. reqs' \in Seq(Requests') /\ resps' \in Seq(Responses')
      BY <1>1, <2>3, <3>2, SeqWider DEF BInv
    <3>4. PeerState'
      BY <1>2, <2>3, <3>1 DEF BInv, PeerState
    <3>5. Window'
      <4>1. seen' = seen /\ token' = token
        BY <1>2, <2>3
      <4>2. seen' \subseteq 1..token' /\ \A t \in 1..token' : t \in seen'
        BY <2>2, <4>1 DEF BInv, Window
      <4> QED
        BY <3>1, <4>2 DEF Window
    <3>6. Outstanding'
      BY <3>1 DEF Outstanding
    <3> QED
      BY <1>3, <3>3, <3>4, <3>5, <3>6 DEF BInv
  <2>4. ASSUME NEW num \in 0..Count(want) - 1, Send(want, num), UNCHANGED confirmed,
               num > 0 => Expecting(want, num)
        PROVE  BInv'
    <3>1. block' = num /\ Uploading'
      BY <1>2, <1>5, <2>4 DEF Send, Uploading
    <3>2. want' = want /\ Send(want', block') /\ (block' > 0 => Expecting(want', block'))
      BY <1>2, <2>4, <3>1
    <3>3. ~setting.ordered
      BY DEF BInv, PeerState, Protected
    <3>4. token' \in 0..MaxToken /\ token' > 0
      BY <2>4, <3>3, BlockwiseAssumption DEF Send, BInv, PeerState
    <3>5. PeerState'
      <4>1. num \in Nat
        BY <2>4, ImageType, WantIsImage, <1>5 DEF BInv
      <4> QED
        BY <1>2, <2>4, <3>1, <3>4, <4>1 DEF BInv, PeerState, Count
    <3> QED
      BY <1>1, <1>2, <2>2, <3>1, <3>2, <3>5, SendKeeps
  <2>5. want \in DOMAIN Images /\ Count(want) \in Nat /\ Count(want) > 0 /\ block \in Nat
    BY <1>5, WantIsImage, ImageType DEF BInv, PeerState
  <2>6. CASE r.code = Continue /\ Send(want, block + 1) /\ UNCHANGED confirmed
    <3>1. block + 1 < Count(want) /\ Expecting(want, block + 1)
      BY <1>1, <1>5, <2>6 DEF Responses
    <3>2. block + 1 \in 0..Count(want) - 1
      BY <2>5, <3>1
    <3> QED
      BY <2>4, <2>6, <3>1, <3>2
  <2>7. CASE Send(want, 0) /\ UNCHANGED confirmed
    <3>1. 0 \in 0..Count(want) - 1
      BY <2>5
    <3> QED
      BY <2>4, <2>7, <3>1
  <2> QED
    BY <1>5, <2>3, <2>6, <2>7 DEF PeerReceive
<1> QED
  BY <1>4, <1>5 DEF PeerReceive

LEMMA BeginKeeps ==
  ASSUME BInv, Protected, BeginUpload
  PROVE  BInv'
<1>1. /\ ~Uploading /\ want' = want + 1 /\ confirmed' = confirmed /\ Send(want', 0)
      /\ want < Len(Images) /\ UNCHANGED <<vars, setting, resps, seen>>
  BY DEF BeginUpload
<1>2. want \in Nat /\ confirmed = want /\ want' \in 1..Len(Images)
  BY <1>1, BlockwiseAssumption DEF BInv, PeerState, Uploading
<1>3. Uploading' /\ 1..token \subseteq seen
  BY <1>1, <1>2 DEF BInv, Uploading, Window
<1>4. block' = 0 /\ token' \in 0..MaxToken /\ token' > 0
  BY <1>1, BlockwiseAssumption DEF BInv, PeerState, Protected, Send
<1>5. 0 \in 0..Count(want') - 1
  <2>1. want' \in DOMAIN Images
    BY <1>2, BlockwiseAssumption
  <2> QED
    BY <2>1, ImageType
<1>6. PeerState'
  BY <1>1, <1>2, <1>4, <1>5 DEF BInv, PeerState, Count
<1> QED
  BY <1>1, <1>3, <1>4, <1>6, SendKeeps DEF BInv

(* The channels and the server.                                              *)
LEMMA ChannelsKeep ==
  ASSUME BInv, UNCHANGED <<vars, peer, seen>>,
         reqs' \in Seq(Requests), resps' \in Seq(Responses)
  PROVE  BInv'
<1>1. Requests' = Requests /\ Responses' = Responses
  BY DEF peer, Requests, Responses, Uploading, Expecting, InSlot, Beginning, Count, vars
<1>2. IInv'
  BY DEF BInv, IInv, TypeOK, BootIsFresh, SlotConsistent, ProgramPinned, AdvertisedAreServed, vars
<1>3. PeerState' /\ Window' /\ Outstanding'
  BY DEF BInv, PeerState, Window, Outstanding, peer, Uploading, Expecting, Beginning, Count, vars
<1> QED
  BY <1>1, <1>2, <1>3 DEF BInv

LEMMA RetransmitKeeps ==
  ASSUME BInv, Retransmit
  PROVE  BInv'
<1> DEFINE m == [token |-> token, block |-> ImageBlock(Images[want], block, Szx)]
<1>1. want \in DOMAIN Images /\ block \in 0..Count(want) - 1
  BY WantIsImage DEF BInv, PeerState, Retransmit
<1>2. m.block \in UploadBlocks
  BY <1>1, TheBlock
<1>3. token \in 1..token
  BY DEF BInv, PeerState, Retransmit
<1>4. m \in Requests
  BY <1>2, <1>3 DEF Requests
<1>5. reqs' \in Seq(Requests)
  BY <1>4, AppendType DEF BInv, Retransmit
<1> QED
  BY <1>5, ChannelsKeep DEF BInv, Retransmit

(* What reaches the handler is the block that the peer awaits.               *)
LEMMA HandledIsAwaited ==
  ASSUME BInv, Protected, NEW i \in Positions(reqs), ServerHandle(i)
  PROVE  /\ reqs[i].token = token /\ token \notin seen /\ token \in 1..token
         /\ Uploading /\ want \in DOMAIN Images /\ block \in 0..Count(want) - 1
         /\ block > 0 => Expecting(want, block)
         /\ Handle(ImageBlock(Images[want], block, Szx))
<1>1. reqs[i] \in Requests
  BY WithoutType DEF BInv
<1>2. reqs[i].token \notin seen
  BY DEF BInv, PeerState, Protected, ServerHandle
<1>3. reqs[i].token = token /\ Uploading /\ token \in 1..token
  BY <1>1, <1>2 DEF BInv, Window, Requests
<1> QED
  BY <1>1, <1>2, <1>3, WantIsImage DEF BInv, PeerState, Outstanding, Requests, ServerHandle

LEMMA HandleIsStep ==
  ASSUME NEW b \in PutRequest, Handle(b)
  PROVE  Next
  BY DEF Handle, Next, Control, Put, StartOutcome

LEMMA ServerKeeps ==
  ASSUME BInv, Protected, NEW i \in Positions(reqs), ServerHandle(i)
  PROVE  BInv'
<1> DEFINE b == ImageBlock(Images[want], block, Szx)
<1>1. /\ reqs[i].token = token /\ token \notin seen /\ token \in 1..token
      /\ Uploading /\ want \in DOMAIN Images /\ block \in 0..Count(want) - 1
      /\ block > 0 => Expecting(want, block)
      /\ Handle(b)
  BY HandledIsAwaited
<1>2. UNCHANGED peer /\ seen' = seen \cup {token}
  BY <1>1 DEF ServerHandle, BInv, PeerState, Protected
<1>3. IInv'
  <2>1. b \in PutRequest
    BY <1>1, TheBlock
  <2> QED
    BY <1>1, <2>1, HandleIsStep, NextIInv DEF BInv
<1>4. PeerState' /\ Window' /\ Outstanding'
  <2>1. UNCHANGED <<setting, want, confirmed, block, token>> /\ (Uploading' <=> Uploading)
    BY <1>2 DEF peer, Uploading
  <2>2. PeerState'
    BY <2>1 DEF BInv, PeerState, Count
  <2>3. Window'
    BY <1>1, <1>2, <2>1 DEF BInv, Window
  <2>4. token' \in seen'
    BY <1>2, <2>1
  <2> QED
    BY <2>2, <2>3, <2>4 DEF Outstanding
<1>5. reqs' \in Seq(Requests')
  <2>1. Requests' = Requests
    BY <1>2 DEF Requests, peer, Uploading
  <2> QED
    BY <2>1, WithoutType DEF BInv, ServerHandle
<1>6. resps' \in Seq(Responses')
  <2>1. Responses \subseteq Responses'
    BY <1>1, <1>2 DEF Responses, peer
  <2>2. CASE status' = "serving"
    <3>1. PICK k \in DOMAIN Images, n \in 0..Count(want) - 1 : k = want /\ n = block
      BY <1>1
    <3>2. /\ last'.code \in Code
          /\ last'.code = Continue => n + 1 < Count(k) /\ Expecting(k, n + 1)'
          /\ last'.code = Changed => InSlot(k)'
      BY <1>1, <2>2, <3>1, HandleResult DEF BInv
    <3>3. want' = k /\ block' = n /\ token' = token
      BY <1>2, <3>1 DEF peer
    <3>4. [token |-> token, code |-> last'.code] \in Responses'
      BY <1>2, <3>2, <3>3 DEF Responses, Expecting, InSlot, Beginning, Count
    <3>5. resps' = Append(resps, [token |-> token, code |-> last'.code])
      BY <1>1, <2>2 DEF ServerHandle
    <3> QED
      BY <2>1, <3>4, <3>5, SeqWider, AppendType DEF BInv
  <2>3. CASE status' # "serving"
    BY <2>1, <2>3, SeqWider DEF BInv, ServerHandle
  <2> QED
    BY <2>2, <2>3
<1> QED
  BY <1>3, <1>4, <1>5, <1>6 DEF BInv

LEMMA InitBInv == BInit => BInv
<1> SUFFICES ASSUME BInit
             PROVE  BInv
  OBVIOUS
<1>1. IInv
  <2>1. handler = StartRaw(New, StaticProgram, FALSE, "Ok") /\ status = "serving"
    BY DEF BInit, StartFromStatic
  <2>2. New \in Handler /\ Idle(New) /\ New.state = "NotRunning"
    BY NewType DEF New, Idle
  <2>3. "Ok" \in StartOutcome /\ StaticProgram \in Seq(Byte)
    BY PersistentAssumption DEF StartOutcome
  <2>4. handler \in Handler
    BY <2>1, <2>2, <2>3, StartType
  <2>5. Consistent(handler)
    BY <2>1, <2>2, <2>3, StartConsistent
  <2>6. SlotConsistent
    BY <2>5, SlotConsistentIff
  <2>7. last \in Answered
    BY DEF BInit, Answered, Operation
  <2> QED
    BY <2>1, <2>4, <2>6, <2>7 DEF IInv, TypeOK, BootIsFresh, Status
<1>2. ~Uploading
  BY DEF BInit, Uploading
<1>3. PeerState /\ Window /\ Outstanding
  BY <1>2, BlockwiseAssumption DEF BInit, PeerState, Window, Outstanding
<1>4. reqs \in Seq(Requests) /\ resps \in Seq(Responses)
  BY DEF BInit
<1> QED
  BY <1>1, <1>3, <1>4 DEF BInv

LEMMA StepBInv ==
  ASSUME Protected
  PROVE  BInv /\ [BNext]_bvars => BInv'
<1> SUFFICES ASSUME BInv, [BNext]_bvars
             PROVE  BInv'
  OBVIOUS
<1>1. CASE BeginUpload
  BY <1>1, BeginKeeps
<1>2. CASE Retransmit
  BY <1>2, RetransmitKeeps
<1>3. ASSUME NEW i \in Positions(reqs), ServerHandle(i)
      PROVE  BInv'
  BY <1>3, ServerKeeps
<1>4. ASSUME NEW i \in Positions(reqs), ServerRefuseReplay(i)
      PROVE  BInv'
  <2>1. reqs[i].token \in seen /\ reqs' \in Seq(Requests)
    BY <1>4, WithoutType DEF BInv, ServerRefuseReplay
  <2>2. [token |-> reqs[i].token, code |-> Replayed] \in Responses
    BY <2>1 DEF Responses, Replayed, Continue, Changed
  <2>3. resps' \in Seq(Responses)
    BY <1>4, <2>2, AppendType DEF BInv, ServerRefuseReplay
  <2> QED
    BY <1>4, <2>1, <2>3, ChannelsKeep DEF ServerRefuseReplay
<1>5. ASSUME NEW i \in Positions(reqs), LoseRequest(i)
      PROVE  BInv'
  BY <1>5, WithoutType, ChannelsKeep DEF BInv, LoseRequest
<1>6. ASSUME NEW i \in Positions(resps), LoseResponse(i)
      PROVE  BInv'
  BY <1>6, WithoutType, ChannelsKeep DEF BInv, LoseResponse
<1>7. ASSUME NEW i \in Positions(resps), PeerReceive(i)
      PROVE  BInv'
  BY <1>7, PeerKeeps
<1>8. CASE UNCHANGED bvars
  BY <1>8, ChannelsKeep DEF BInv, bvars
<1> QED
  BY <1>1, <1>2, <1>3, <1>4, <1>5, <1>6, <1>7, <1>8 DEF BNext
-----------------------------------------------------------------------------
(* The network that keeps the order.  There are two tokens, so a message     *)
(* tells only whether it belongs to the last request; but on the way through *)
(* the requests and then the answers those of the last request come behind   *)
(* all others.  The server may handle a block again: one of the image that is*)
(* uploaded, or the last one of the image before, which finds the slot       *)
(* running and changes nothing.                                              *)
LastBlock(k) == ImageBlock(Images[k], Count(k) - 1, Szx)

OPeerState ==
  /\ setting \in Settings
  /\ want \in 0..Len(Images) /\ confirmed \in Nat /\ want \in {confirmed, confirmed + 1}
  /\ block \in Nat /\ token \in {0, 1}
  /\ Uploading => block \in 0..Count(want) - 1

OMessages ==
  /\ reqs \in Seq([token : {0, 1}, block : UploadBlocks])
  /\ resps \in Seq([token : {0, 1}, code : Code])

\* once a message of the last request, always
Steady(channel, t) ==
  \A i, j \in DOMAIN channel : i < j /\ channel[i].token = t => channel[j].token = t

LastBehind ==
  /\ Steady(resps, token) /\ Steady(reqs, token)
  /\ \A i \in DOMAIN resps, j \in DOMAIN reqs : resps[i].token = token => reqs[j].token = token

AwaitedReqs ==
  Uploading => \A i \in DOMAIN reqs :
    reqs[i].token = token => reqs[i].block = ImageBlock(Images[want], block, Szx)

AwaitedResps ==
  Uploading => \A i \in DOMAIN resps :
    resps[i].token = token =>
      /\ resps[i].code = Continue => block + 1 < Count(want)
      /\ resps[i].code = Changed => block + 1 = Count(want) /\ InSlot(want)

AtRest ==
  ~Uploading =>
    /\ \A i \in DOMAIN reqs :
         reqs[i].token = token /\ want > 0 /\ reqs[i].block = LastBlock(want)
    /\ \A i \in DOMAIN resps : resps[i].token = token
    /\ want > 0 => InSlot(want)

\* the first block of an image has not reached the server
NotBegun ==
  /\ block = 0
  /\ \A i \in DOMAIN resps : resps[i].token # token
  /\ \A i \in DOMAIN reqs :
       reqs[i].token # token => want > 1 /\ reqs[i].block = LastBlock(want - 1)
  /\ want > 1 => InSlot(want - 1)

\* the buffer holds whole blocks of an image, or all of it
InBuffer(k) ==
  \/ handler.program = Images[k]
  \/ \E m \in 0..Count(k) - 1 : handler.program = Beginning(k, m)

BlockOf(b, k) == \E n \in 0..Count(k) - 1 : b = ImageBlock(Images[k], n, Szx)

UnderWay ==
  /\ InBuffer(want) /\ Slot \in {<<>>, Images[want]}
  /\ \A i \in DOMAIN reqs : reqs[i].token # token => BlockOf(reqs[i].block, want)

OInv ==
  /\ IInv
  /\ OPeerState /\ OMessages /\ LastBehind
  /\ AwaitedReqs /\ AwaitedResps /\ AtRest
  /\ Uploading => NotBegun \/ UnderWay
-----------------------------------------------------------------------------
(* The server's side.                                                        *)
LEMMA BeginningsDiffer ==
  ASSUME NEW k \in DOMAIN Images, NEW n \in 0..Count(k) - 1, InBuffer(k),
         Len(handler.program) = n * Size
  PROVE  handler.program = Beginning(k, n)
<1>1. n * Size < Len(Images[k]) /\ n \in Nat /\ Size \in Nat /\ Size > 0
  BY BlockWithin, SizeType
<1>2. handler.program # Images[k]
  BY <1>1, ImageType
<1>3. PICK m \in 0..Count(k) - 1 : handler.program = Beginning(k, m)
  BY <1>2 DEF InBuffer
<1>4. m * Size \in Nat /\ m * Size < Len(Images[k]) /\ m \in Nat
  BY BlockWithin
<1>5. Len(handler.program) = m * Size
  <2>1. Images[k] \in Seq(Byte) /\ Len(Images[k]) \in Nat
    BY ImageType
  <2>2. \A j \in 1..m * Size : Images[k][j] \in Byte
    BY <1>4, <2>1
  <2>3. Len(SubSeq(Images[k], 1, m * Size)) = IF 1 <= m * Size THEN m * Size - 1 + 1 ELSE 0
    BY <1>4, <2>2, SubSeqProperties
  <2> QED
    BY <1>3, <1>4, <2>3 DEF Beginning
<1>6. m = n
  <2>1. \A x, y, s \in Nat : s > 0 /\ x < y => x * s < y * s
    <3> SUFFICES ASSUME NEW x \in Nat, NEW y \in Nat, NEW s \in Nat, s > 0, x < y
                 PROVE  x * s < y * s
      OBVIOUS
    <3>1. PICK d \in Nat : y = x + d /\ d > 0
      <4>1. y - x \in Nat /\ y = x + (y - x) /\ y - x > 0
        OBVIOUS
      <4> QED
        BY <4>1
    <3>2. y * s = x * s + d * s
      BY <3>1
    <3>3. d * s > 0 /\ d * s \in Nat /\ x * s \in Nat
      BY <3>1
    <3> QED
      BY <3>2, <3>3
  <2>2. m * Size = n * Size
    BY <1>5
  <2> QED
    BY <1>1, <1>4, <2>1, <2>2
<1> QED
  BY <1>3, <1>6

(* A block that is not the next one changes nothing, and neither does a later*)
(* block of an image that runs.                                              *)
LEMMA HandleMisfit ==
  ASSUME NEW k \in DOMAIN Images, NEW n \in 0..Count(k) - 1, n > 0,
         handler.state = "Running" \/ (InBuffer(k) /\ ~Expecting(k, n)),
         Handle(ImageBlock(Images[k], n, Szx))
  PROVE  /\ UNCHANGED <<handler, status>> /\ status = "serving"
         /\ last'.code \in Code \ {Continue, Changed}
<1> DEFINE b == ImageBlock(Images[k], n, Szx)
<1>1. Offset(b) = n * Size /\ Offset(b) # 0
  BY TheBlock
<1>2. Begun(handler, b) = handler
  BY <1>1 DEF Begun
<1>3. ~Fits(handler, b)
  <2>1. CASE handler.state = "Running"
    BY <1>2, <2>1 DEF Fits, MayMutateProgram
  <2>2. CASE handler.state # "Running"
    <3>1. InBuffer(k) /\ handler.program # Beginning(k, n)
      BY <2>2 DEF Expecting
    <3>2. Len(handler.program) # n * Size
      BY <3>1, BeginningsDiffer
    <3> QED
      BY <1>1, <1>2, <3>2 DEF Fits
  <2> QED
    BY <2>1, <2>2
<1> HIDE DEF b
<1>4. PutIncomplete(b)
  BY <1>3 DEF Handle, PutNoMemory, PutContinue, PutStart, b
<1>5. last'.code = Incomplete
  BY <1>4 DEF PutIncomplete, AnswerPut
<1> QED
  BY <1>2, <1>4, <1>5 DEF PutIncomplete, Code, Incomplete, Continue, Changed

(* Any block of an image leaves blocks of that image behind, if it is the    *)
(* first one or such were there before.                                      *)
LEMMA HandleAny ==
  ASSUME IInv, NEW k \in DOMAIN Images, NEW n \in 0..Count(k) - 1,
         n = 0 \/ (InBuffer(k) /\ Slot \in {<<>>, Images[k]}),
         Handle(ImageBlock(Images[k], n, Szx))
  PROVE  /\ InBuffer(k)' /\ Slot' \in {<<>>, Images[k]}
         /\ status' = "serving" =>
              /\ last'.code \in Code
              /\ last'.code = Continue => n + 1 < Count(k)
              /\ last'.code = Changed => n + 1 = Count(k) /\ InSlot(k)'
<1>1. CASE n > 0 => Expecting(k, n)
  <2>1. \/ handler'.program = Beginning(k, n)
        \/ n + 1 < Count(k) /\ handler'.program = Beginning(k, n + 1)
        \/ handler'.program = Images[k]
    BY <1>1, HandleResult
  <2>2. n + 1 < Count(k) => n + 1 \in 0..Count(k) - 1
    BY ImageType
  <2>3. InBuffer(k)'
    BY <2>1, <2>2 DEF InBuffer, Beginning, Count
  <2> QED
    BY <1>1, <2>3, HandleResult
<1>2. CASE n > 0 /\ ~Expecting(k, n)
  <2>1. InBuffer(k) /\ Slot \in {<<>>, Images[k]}
    BY <1>2
  <2>2. UNCHANGED handler /\ last'.code \in Code \ {Continue, Changed}
    BY <1>2, <2>1, HandleMisfit
  <2> QED
    BY <2>1, <2>2 DEF InBuffer, Slot, Beginning, Count
<1> QED
  BY <1>1, <1>2
-----------------------------------------------------------------------------
(* The channels: what leaves does so at the front.                           *)
Suffix(later, channel) ==
  \E d \in {0, 1} : \A i \in DOMAIN later : i + d \in DOMAIN channel /\ later[i] = channel[i + d]

LEMMA HeadTaken ==
  ASSUME InOrder, NEW S, NEW channel \in Seq(S), NEW i \in Positions(channel)
  PROVE  /\ i = 1 /\ 1 \in DOMAIN channel /\ channel[1] \in S
         /\ Without(channel, i) \in Seq(S)
         /\ Suffix(Without(channel, i), channel)
         /\ \A j \in DOMAIN Without(channel, i) :
              j + 1 \in DOMAIN channel /\ Without(channel, i)[j] = channel[j + 1]
<1>1. i = 1 /\ 1 \in DOMAIN channel /\ Len(channel) \in Nat /\ 1 <= Len(channel)
  BY DEF Positions, InOrder
<1>2. Without(channel, i) \in Seq(S) /\ channel[1] \in S
  BY <1>1, WithoutType
<1> DEFINE w == SubSeq(channel, 2, Len(channel))
<1>3. Without(channel, i) = <<>> \o w
  BY <1>1, SubSeqEmpty DEF Without
<1>4. /\ w \in Seq(S) /\ Len(w) = IF 2 <= Len(channel) THEN Len(channel) - 2 + 1 ELSE 0
      /\ \A j \in 1..Len(channel) - 2 + 1 : w[j] = channel[2 + j - 1]
  <2>1. \A j \in 2..Len(channel) : channel[j] \in S
    BY <1>1
  <2> QED
    BY <1>1, <2>1, SubSeqProperties
<1> HIDE DEF w
<1>5. Without(channel, i) = w
  BY <1>3, <1>4, ConcatEmptySeq
<1>6. \A j \in DOMAIN w : j + 1 \in DOMAIN channel /\ w[j] = channel[j + 1]
  <2> SUFFICES ASSUME NEW j \in DOMAIN w
               PROVE  j + 1 \in DOMAIN channel /\ w[j] = channel[j + 1]
    OBVIOUS
  <2>1. j \in 1..Len(w) /\ Len(w) \in Nat
    BY <1>4
  <2>2. j \in 1..Len(channel) - 2 + 1 /\ 2 + j - 1 = j + 1 /\ j + 1 \in 1..Len(channel)
    BY <1>1, <1>4, <2>1
  <2> QED
    BY <1>4, <2>2
<1> QED
  BY <1>1, <1>2, <1>5, <1>6 DEF Suffix

LEMMA SuffixSelf ==
  ASSUME NEW S, NEW channel \in Seq(S)
  PROVE  Suffix(channel, channel)
<1>1. \A i \in DOMAIN channel : i + 0 \in DOMAIN channel /\ channel[i] = channel[i + 0]
  OBVIOUS
<1> QED
  BY <1>1 DEF Suffix

LEMMA SuffixSteady ==
  ASSUME NEW S, NEW channel \in Seq(S), NEW later \in Seq(S), Suffix(later, channel),
         NEW t, Steady(channel, t)
  PROVE  Steady(later, t)
<1>1. PICK d \in {0, 1} : \A i \in DOMAIN later : i + d \in DOMAIN channel /\ later[i] = channel[i + d]
  BY DEF Suffix
<1> SUFFICES ASSUME NEW i \in DOMAIN later, NEW j \in DOMAIN later, i < j, later[i].token = t
             PROVE  later[j].token = t
  BY DEF Steady
<1>2. i + d \in DOMAIN channel /\ j + d \in DOMAIN channel /\ i + d < j + d
  BY <1>1
<1> QED
  BY <1>1, <1>2 DEF Steady

LEMMA AppendAt ==
  ASSUME NEW S, NEW channel \in Seq(S), NEW m \in S
  PROVE  /\ Append(channel, m) \in Seq(S)
         /\ \A i \in DOMAIN Append(channel, m) :
              \/ i \in DOMAIN channel /\ Append(channel, m)[i] = channel[i]
              \/ i = Len(channel) + 1 /\ Append(channel, m)[i] = m
         /\ \A i \in DOMAIN channel : i < Len(channel) + 1
  OBVIOUS

LEMMA UnchangedInv == IInv /\ UNCHANGED vars => IInv'
  BY DEF IInv, TypeOK, BootIsFresh, SlotConsistent, ProgramPinned, AdvertisedAreServed, vars

(* Loss.                                                                     *)
LEMMA OChannelsKeep ==
  ASSUME OInv, UNCHANGED <<vars, peer, seen>>, OMessages',
         Suffix(reqs', reqs), Suffix(resps', resps)
  PROVE  OInv'
<1> USE DEF OInv
<1>1. IInv' /\ OPeerState'
  BY UnchangedInv DEF OPeerState, peer, Uploading, Count
<1>2. /\ UNCHANGED <<setting, want, confirmed, block, token, handler>>
      /\ (Uploading' <=> Uploading)
  BY DEF peer, vars, Uploading
<1>3. PICK d \in {0, 1} : \A i \in DOMAIN reqs' : i + d \in DOMAIN reqs /\ reqs'[i] = reqs[i + d]
  BY DEF Suffix
<1>4. PICK e \in {0, 1} : \A i \in DOMAIN resps' : i + e \in DOMAIN resps /\ resps'[i] = resps[i + e]
  BY DEF Suffix
<1>5. LastBehind'
  <2>1. Steady(reqs', token) /\ Steady(resps', token)
    BY SuffixSteady DEF OMessages, LastBehind
  <2> QED
    BY <1>2, <1>3, <1>4, <2>1 DEF LastBehind, Steady
<1>6. AwaitedReqs' /\ AwaitedResps'
  BY <1>2, <1>3, <1>4 DEF AwaitedReqs, AwaitedResps, Count, InSlot
<1>7. AtRest'
  BY <1>2, <1>3, <1>4 DEF AtRest, LastBlock, Count, InSlot
<1>8. NotBegun => NotBegun'
  BY <1>2, <1>3, <1>4 DEF NotBegun, LastBlock, Count, InSlot
<1>9. UnderWay => UnderWay'
  BY <1>2, <1>3 DEF UnderWay, InBuffer, Slot, BlockOf, Beginning, Count
<1> QED
  BY <1>1, <1>2, <1>5, <1>6, <1>7, <1>8, <1>9

LEMMA ORetransmitKeeps ==
  ASSUME OInv, Retransmit
  PROVE  OInv'
<1> USE DEF OInv
<1> DEFINE m == [token |-> token, block |-> ImageBlock(Images[want], block, Szx)]
<1>1. want \in DOMAIN Images /\ block \in 0..Count(want) - 1 /\ Uploading
  BY BlockwiseAssumption DEF Retransmit, OPeerState, Uploading
<1>2. UNCHANGED <<vars, peer, resps, seen>> /\ reqs' = Append(reqs, m)
  BY DEF Retransmit
<1>3. m \in [token : {0, 1}, block : UploadBlocks]
  BY <1>1, TheBlock DEF OPeerState
<1>4. m.token = token /\ m.block = ImageBlock(Images[want], block, Szx)
  OBVIOUS
<1> HIDE DEF m
<1>5. /\ reqs' \in Seq([token : {0, 1}, block : UploadBlocks])
      /\ \A i \in DOMAIN reqs' : \/ i \in DOMAIN reqs /\ reqs'[i] = reqs[i]
                                 \/ i = Len(reqs) + 1 /\ reqs'[i] = m
      /\ \A i \in DOMAIN reqs : i < Len(reqs) + 1
  BY <1>2, <1>3, AppendAt DEF OMessages
<1>6. IInv' /\ OPeerState' /\ OMessages'
  BY <1>2, <1>5, UnchangedInv DEF OPeerState, OMessages, peer, Uploading, Count
<1>7. /\ UNCHANGED <<setting, want, confirmed, block, token, handler, resps>>
      /\ Uploading'
  BY <1>1, <1>2 DEF peer, vars, Uploading
<1>8. LastBehind'
  <2>1. \A i \in DOMAIN reqs : i \in Nat
    BY DEF OMessages
  <2> QED
    BY <1>4, <1>5, <1>7, <2>1 DEF LastBehind, Steady, OMessages
<1>9. AwaitedReqs' /\ AwaitedResps' /\ AtRest'
  BY <1>1, <1>4, <1>5, <1>7 DEF AwaitedReqs, AwaitedResps, AtRest, Count, InSlot
<1>10. NotBegun => NotBegun'
  BY <1>4, <1>5, <1>7 DEF NotBegun, LastBlock, Count, InSlot
<1>11. UnderWay => UnderWay'
  BY <1>4, <1>5, <1>7 DEF UnderWay, InBuffer, Slot, BlockOf, Beginning, Count
<1> QED
  BY <1>1, <1>6, <1>7, <1>8, <1>9, <1>10, <1>11

(* The peer's side.  What awaits the peer comes behind all others, so that   *)
(* when it takes an answer to its last request nothing older is under way.   *)
LEMMA AllCurrent ==
  ASSUME OInv, InOrder, NEW i \in Positions(resps), resps[i].token = token
  PROVE  /\ \A j \in DOMAIN resps : resps[j].token = token
         /\ \A j \in DOMAIN reqs : reqs[j].token = token
         /\ Uploading => UnderWay
<1>1. i = 1 /\ 1 \in DOMAIN resps /\ \A j \in DOMAIN resps : j \in Nat /\ j >= 1
  BY DEF OInv, OMessages, Positions, InOrder
<1>2. \A j \in DOMAIN resps : resps[j].token = token
  BY <1>1 DEF OInv, LastBehind, Steady
<1>3. \A j \in DOMAIN reqs : reqs[j].token = token
  BY <1>1 DEF OInv, LastBehind
<1>4. ~NotBegun
  BY <1>1 DEF NotBegun
<1> QED
  BY <1>2, <1>3, <1>4 DEF OInv

(* A new request, when all that is in flight belongs to the last one: it is  *)
(* the first block of the next image, or one of the image under way.         *)
LEMMA OSendKeeps ==
  ASSUME OInv, InOrder, UNCHANGED <<vars, setting>>, OPeerState', Uploading',
         want' \in DOMAIN Images, block' \in 0..Count(want') - 1,
         Send(want', block'),
         \A j \in DOMAIN reqs : reqs[j].token = token,
         \A j \in DOMAIN resps : resps[j].token = token,
         resps' \in Seq([token : {0, 1}, code : Code]), Suffix(resps', resps),
         \/ /\ block' = 0
            /\ \A j \in DOMAIN reqs : want' > 1 /\ reqs[j].block = LastBlock(want' - 1)
            /\ want' > 1 => InSlot(want' - 1)
         \/ /\ InBuffer(want') /\ Slot \in {<<>>, Images[want']}
            /\ \A j \in DOMAIN reqs : BlockOf(reqs[j].block, want')
  PROVE  OInv'
<1> DEFINE m == [token |-> token', block |-> ImageBlock(Images[want'], block', Szx)]
<1>1. /\ token' = 1 - token /\ token \in {0, 1} /\ token' \in {0, 1} /\ token' # token
      /\ reqs' = Append(reqs, m)
  BY DEF OInv, OPeerState, Send, InOrder
<1>2. m.token = token' /\ m.block = ImageBlock(Images[want'], block', Szx)
  OBVIOUS
<1>3. m \in [token : {0, 1}, block : UploadBlocks]
  BY <1>1, TheBlock
<1> HIDE DEF m
<1>4. /\ reqs' \in Seq([token : {0, 1}, block : UploadBlocks])
      /\ \A i \in DOMAIN reqs' : \/ i \in DOMAIN reqs /\ reqs'[i] = reqs[i]
                                 \/ i = Len(reqs) + 1 /\ reqs'[i] = m
      /\ \A i \in DOMAIN reqs : i < Len(reqs) + 1
  BY <1>1, <1>3, AppendAt DEF OInv, OMessages
<1>5. IInv' /\ OMessages'
  BY <1>4, UnchangedInv DEF OInv, OMessages
<1>6. \A i \in DOMAIN resps' : resps'[i].token # token'
  BY <1>1 DEF Suffix
<1>7. \A i \in DOMAIN reqs' : \/ i \in DOMAIN reqs /\ reqs'[i] = reqs[i] /\ reqs'[i].token # token'
                              \/ i = Len(reqs) + 1 /\ reqs'[i] = m
  BY <1>1, <1>4
<1>8. LastBehind'
  <2>1. \A i \in DOMAIN reqs' : reqs'[i].token = token' => i = Len(reqs) + 1
    BY <1>7
  <2>2. \A i \in DOMAIN reqs' : i \in Nat
    BY <1>4
  <2>3. \A i, j \in DOMAIN reqs' : i < j => ~(reqs'[i].token = token')
    <3> SUFFICES ASSUME NEW i \in DOMAIN reqs', NEW j \in DOMAIN reqs', i < j,
                        reqs'[i].token = token'
                 PROVE  FALSE
      OBVIOUS
    <3>1. i = Len(reqs) + 1 /\ j \in Nat /\ Len(reqs) \in Nat
      BY <2>1, <2>2 DEF OInv, OMessages
    <3>2. j # Len(reqs) + 1 /\ ~(j < Len(reqs) + 1)
      BY <3>1
    <3> QED
      BY <1>4, <3>2
  <2> QED
    BY <1>6, <2>3 DEF LastBehind, Steady
<1>9. AwaitedReqs' /\ AwaitedResps' /\ AtRest'
  BY <1>2, <1>6, <1>7 DEF AwaitedReqs, AwaitedResps, AtRest
<1>10. ASSUME block' = 0, \A j \in DOMAIN reqs : want' > 1 /\ reqs[j].block = LastBlock(want' - 1),
              want' > 1 => InSlot(want' - 1)
       PROVE  NotBegun'
  <2>1. (want > 1 => InSlot(want - 1))'
    BY <1>10 DEF InSlot, vars
  <2>2. (\A i \in DOMAIN reqs : reqs[i].token # token => want > 1 /\ reqs[i].block = LastBlock(want - 1))'
    BY <1>2, <1>7, <1>10 DEF LastBlock, Count
  <2> QED
    BY <1>6, <1>10, <2>1, <2>2 DEF NotBegun
<1>11. ASSUME InBuffer(want'), Slot \in {<<>>, Images[want']},
              \A j \in DOMAIN reqs : BlockOf(reqs[j].block, want')
       PROVE  UnderWay'
  <2>1. (InBuffer(want) /\ Slot \in {<<>>, Images[want]})'
    BY <1>11 DEF InBuffer, Slot, Beginning, Count, vars
  <2>2. (\A i \in DOMAIN reqs : reqs[i].token # token => BlockOf(reqs[i].block, want))'
    BY <1>2, <1>7, <1>11 DEF BlockOf, Count
  <2> QED
    BY <2>1, <2>2 DEF UnderWay
<1> QED
  BY <1>5, <1>8, <1>9, <1>10, <1>11 DEF OInv

LEMMA OBeginKeeps ==
  ASSUME OInv, InOrder, BeginUpload
  PROVE  OInv'
<1>1. /\ ~Uploading /\ want' = want + 1 /\ confirmed' = confirmed /\ Send(want', 0)
      /\ want < Len(Images) /\ UNCHANGED <<vars, setting, resps, seen>>
  BY DEF BeginUpload
<1>2. /\ want \in Nat /\ confirmed = want /\ want' \in DOMAIN Images /\ want' - 1 = want
      /\ want' > 1 <=> want > 0
  BY <1>1, BlockwiseAssumption DEF OInv, OPeerState, Uploading
<1>3. block' = 0 /\ 0 \in 0..Count(want') - 1
  BY <1>1, <1>2, ImageType DEF Send
<1>4. Send(want', block') /\ Uploading'
  BY <1>1, <1>2, <1>3 DEF Uploading
<1>5. token' \in {0, 1}
  BY <1>1 DEF Send, InOrder, OInv, OPeerState
<1>6. OPeerState'
  BY <1>1, <1>2, <1>3, <1>5 DEF OInv, OPeerState, Count
<1>7. /\ \A j \in DOMAIN reqs :
           reqs[j].token = token /\ want' > 1 /\ reqs[j].block = LastBlock(want' - 1)
      /\ \A j \in DOMAIN resps : resps[j].token = token
      /\ want' > 1 => InSlot(want' - 1)
  BY <1>1, <1>2 DEF OInv, AtRest
<1>8. resps' \in Seq([token : {0, 1}, code : Code]) /\ Suffix(resps', resps)
  BY <1>1, SuffixSelf DEF OInv, OMessages
<1> QED
  BY <1>1, <1>2, <1>3, <1>4, <1>6, <1>7, <1>8, OSendKeeps

LEMMA OPeerKeeps ==
  ASSUME OInv, InOrder, NEW i \in Positions(resps), PeerReceive(i)
  PROVE  OInv'
<1> DEFINE r == resps[i]
<1>1. /\ resps' \in Seq([token : {0, 1}, code : Code]) /\ Suffix(resps', resps)
      /\ i \in DOMAIN resps
  BY HeadTaken DEF OInv, OMessages, PeerReceive
<1>2. UNCHANGED <<vars, setting, want, seen>>
  BY DEF PeerReceive
<1>3. CASE UNCHANGED <<confirmed, block, token, reqs>>
  <2>1. OMessages' /\ Suffix(reqs', reqs)
    BY <1>1, <1>3, SuffixSelf DEF OInv, OMessages
  <2> QED
    BY <1>1, <1>2, <1>3, <2>1, OChannelsKeep DEF peer
<1>4. CASE Uploading /\ r.token = token /\ ~UNCHANGED <<confirmed, block, token, reqs>>
  <2>1. /\ \A j \in DOMAIN resps : resps[j].token = token
        /\ \A j \in DOMAIN reqs :
             reqs[j].token = token /\ reqs[j].block = ImageBlock(Images[want], block, Szx)
        /\ UnderWay
    BY <1>4, AllCurrent DEF OInv, AwaitedReqs
  <2>2. /\ want \in DOMAIN Images /\ block \in 0..Count(want) - 1 /\ block \in Nat
        /\ Count(want) \in Nat /\ Count(want) > 0 /\ want > 0
    BY <1>4, BlockwiseAssumption, ImageType DEF OInv, OPeerState, Uploading
  <2>3. CASE r.code = Changed /\ confirmed' = want /\ UNCHANGED <<block, token, reqs>>
    <3>1. ~Uploading'
      BY <1>2, <2>3 DEF Uploading
    <3>2. block = Count(want) - 1 /\ InSlot(want)
      BY <1>1, <1>4, <2>2, <2>3 DEF OInv, AwaitedResps
    <3>3. /\ \A j \in DOMAIN reqs' : reqs'[j].token = token' /\ reqs'[j].block = LastBlock(want')
          /\ \A j \in DOMAIN resps' : resps'[j].token = token'
      BY <1>1, <1>2, <2>1, <2>3, <3>2 DEF LastBlock, Suffix
    <3>4. InSlot(want)'
      BY <1>2, <3>2 DEF InSlot, vars
    <3>5. AtRest'
      <4>1. (\A j \in DOMAIN reqs :
              reqs[j].token = token /\ want > 0 /\ reqs[j].block = LastBlock(want))'
        BY <1>2, <2>2, <3>3 DEF LastBlock, Count
      <4> QED
        BY <3>3, <3>4, <4>1 DEF AtRest
    <3>6. IInv' /\ OPeerState' /\ OMessages'
      <4>1. want' \in Nat /\ want' = confirmed'
        BY <1>2, <2>2, <2>3 DEF OInv, OPeerState
      <4> QED
        BY <1>1, <1>2, <2>3, <3>1, <4>1, UnchangedInv DEF OInv, OPeerState, OMessages
    <3>7. LastBehind'
      BY <3>3 DEF LastBehind, Steady
    <3> QED
      BY <3>1, <3>5, <3>6, <3>7 DEF OInv, AwaitedReqs, AwaitedResps
  <2>4. ASSUME NEW num \in 0..Count(want) - 1, Send(want, num), UNCHANGED confirmed
        PROVE  OInv'
    <3>1. block' = num /\ Uploading' /\ want' = want /\ token' \in {0, 1}
      BY <1>2, <1>4, <2>4 DEF Send, Uploading, InOrder, OInv, OPeerState
    <3>2. Send(want', block') /\ want' \in DOMAIN Images /\ block' \in 0..Count(want') - 1
      BY <2>2, <2>4, <3>1
    <3>3. OPeerState'
      BY <1>2, <2>2, <2>4, <3>1 DEF OInv, OPeerState, Count
    <3>4. /\ InBuffer(want') /\ Slot \in {<<>>, Images[want']}
          /\ \A j \in DOMAIN reqs : BlockOf(reqs[j].block, want')
      BY <2>1, <2>2, <3>1 DEF UnderWay, BlockOf
    <3> QED
      BY <1>1, <1>2, <2>1, <3>1, <3>2, <3>3, <3>4, OSendKeeps
  <2>5. CASE r.code = Continue /\ Send(want, block + 1) /\ UNCHANGED confirmed
    <3>1. block + 1 < Count(want)
      BY <1>1, <1>4, <2>5 DEF OInv, AwaitedResps
    <3>2. block + 1 \in 0..Count(want) - 1
      BY <2>2, <3>1
    <3> QED
      BY <2>4, <2>5, <3>2
  <2>6. CASE Send(want, 0) /\ UNCHANGED confirmed
    <3>1. 0 \in 0..Count(want) - 1
      BY <2>2
    <3> QED
      BY <2>4, <2>6, <3>1
  <2> QED
    BY <1>4, <2>3, <2>5, <2>6 DEF PeerReceive
<1> QED
  BY <1>3, <1>4 DEF PeerReceive

(* The server's side.  The answer to a request of the last token comes behind*)
(* all others, and behind it are only requests of that token.                *)
LEMMA OAnswered ==
  ASSUME OInv, InOrder, NEW i \in Positions(reqs), ServerHandle(i),
         status' = "serving" => last'.code \in Code
  PROVE  /\ 1 \in DOMAIN reqs /\ Handle(reqs[1].block)
         /\ UNCHANGED <<peer, seen>> /\ (Uploading' <=> Uploading)
         /\ IInv' /\ OPeerState' /\ OMessages' /\ LastBehind' /\ AwaitedReqs'
         /\ \A j \in DOMAIN reqs' : j + 1 \in DOMAIN reqs /\ reqs'[j] = reqs[j + 1]
         /\ \A j \in DOMAIN resps' :
              \/ j \in DOMAIN resps /\ resps'[j] = resps[j]
              \/ /\ status' = "serving"
                 /\ resps'[j] = [token |-> reqs[1].token, code |-> last'.code]
<1> DEFINE m == [token |-> reqs[1].token, code |-> last'.code]
<1>1. /\ i = 1 /\ 1 \in DOMAIN reqs
      /\ reqs[1] \in [token : {0, 1}, block : UploadBlocks]
      /\ reqs' \in Seq([token : {0, 1}, block : UploadBlocks])
      /\ Suffix(reqs', reqs)
      /\ \A j \in DOMAIN reqs' : j + 1 \in DOMAIN reqs /\ reqs'[j] = reqs[j + 1]
  <2> DEFINE S == [token : {0, 1}, block : UploadBlocks]
  <2>1. reqs' = Without(reqs, i) /\ reqs \in Seq(S)
    BY DEF OInv, OMessages, ServerHandle
  <2> HIDE DEF S
  <2>2. /\ i = 1 /\ 1 \in DOMAIN reqs /\ reqs[1] \in S
        /\ Without(reqs, i) \in Seq(S)
        /\ Suffix(Without(reqs, i), reqs)
        /\ \A j \in DOMAIN Without(reqs, i) :
             j + 1 \in DOMAIN reqs /\ Without(reqs, i)[j] = reqs[j + 1]
    BY <2>1, HeadTaken
  <2> QED
    BY <2>1, <2>2 DEF S
<1>2. Handle(reqs[1].block) /\ UNCHANGED <<peer, seen>>
  BY <1>1 DEF ServerHandle, InOrder
<1>3. IInv'
  <2>1. reqs[1].block \in PutRequest
    BY <1>1, BlockwiseAssumption
  <2> QED
    BY <1>2, <2>1, HandleIsStep, NextIInv DEF OInv
<1>4. UNCHANGED <<setting, want, confirmed, block, token>> /\ (Uploading' <=> Uploading)
  BY <1>2 DEF peer, Uploading
<1>5. OPeerState'
  BY <1>4 DEF OInv, OPeerState, Count
<1>6. resps' = IF status' = "serving" THEN Append(resps, m) ELSE resps
  BY <1>1 DEF ServerHandle
<1>7. m.token = reqs[1].token /\ (status' = "serving" => m \in [token : {0, 1}, code : Code])
  BY <1>1
<1>8. m = [token |-> reqs[1].token, code |-> last'.code]
  OBVIOUS
<1> HIDE DEF m
<1>9. /\ resps' \in Seq([token : {0, 1}, code : Code])
      /\ \A j \in DOMAIN resps' :
           \/ j \in DOMAIN resps /\ resps'[j] = resps[j]
           \/ status' = "serving" /\ j = Len(resps) + 1 /\ resps'[j] = m
      /\ \A j \in DOMAIN resps : j < Len(resps) + 1
  <2>1. CASE status' = "serving"
    BY <1>6, <1>7, <2>1, AppendAt DEF OInv, OMessages
  <2>2. CASE status' # "serving"
    BY <1>6, <2>2 DEF OInv, OMessages
  <2> QED
    BY <2>1, <2>2
<1>10. LastBehind'
  <2>1. Steady(reqs', token')
    BY <1>1, <1>4, SuffixSteady DEF OInv, OMessages, LastBehind
  <2>2. ASSUME NEW j \in DOMAIN reqs', reqs[1].token = token
        PROVE  reqs'[j].token = token
    <3>1. j + 1 \in DOMAIN reqs /\ 1 < j + 1 /\ reqs'[j] = reqs[j + 1]
      BY <1>1
    <3> QED
      BY <1>1, <2>2, <3>1 DEF OInv, LastBehind, Steady
  <2>3. ASSUME NEW a \in DOMAIN resps', NEW j \in DOMAIN reqs', resps'[a].token = token
        PROVE  reqs'[j].token = token
    BY <1>1, <1>7, <1>9, <2>2, <2>3 DEF OInv, LastBehind
  <2>4. ASSUME NEW a \in DOMAIN resps', NEW c \in DOMAIN resps', a < c, resps'[a].token = token
        PROVE  resps'[c].token = token
    <3>1. a \in Nat /\ c \in Nat /\ Len(resps) \in Nat
      BY <1>9 DEF OInv, OMessages
    <3>2. a \in DOMAIN resps /\ resps'[a] = resps[a]
      <4>1. a # Len(resps) + 1
        BY <1>9, <2>4, <3>1
      <4> QED
        BY <1>9, <4>1
    <3>3. CASE c \in DOMAIN resps /\ resps'[c] = resps[c]
      BY <2>4, <3>2, <3>3 DEF OInv, LastBehind, Steady
    <3>4. CASE resps'[c] = m
      BY <1>1, <1>7, <2>4, <3>2, <3>4 DEF OInv, LastBehind
    <3> QED
      BY <1>9, <3>3, <3>4
  <2> QED
    BY <1>4, <2>1, <2>3, <2>4 DEF LastBehind, Steady
<1>11. AwaitedReqs'
  BY <1>1, <1>4 DEF OInv, AwaitedReqs, Count
<1> QED
  BY <1>1, <1>2, <1>3, <1>4, <1>5, <1>8, <1>9, <1>10, <1>11 DEF OMessages

(* What the server handles has one of three effects: none, when the block is *)
(* not the next one; the first block of an image ends the one before; and an *)
(* image that is under way stays so.                                         *)
LEMMA OHandled ==
  ASSUME OInv, InOrder, NEW i \in Positions(reqs), ServerHandle(i)
  PROVE  /\ status' = "serving" => last'.code \in Code
         /\ \/ /\ UNCHANGED handler /\ last'.code \notin {Continue, Changed}
               /\ Uploading /\ ~UnderWay => reqs[1].token # token
            \/ /\ Uploading /\ InBuffer(want)' /\ Slot' \in {<<>>, Images[want]}
               /\ ~UnderWay => reqs[1].token = token
               /\ UnderWay => \A j \in DOMAIN resps :
                                ~(resps[j].token = token /\ resps[j].code = Changed)
               /\ status' = "serving" /\ reqs[1].token = token =>
                    /\ last'.code = Continue => block + 1 < Count(want)
                    /\ last'.code = Changed => block + 1 = Count(want) /\ InSlot(want)'
<1>1. 1 \in DOMAIN reqs /\ Handle(reqs[1].block)
  <2> DEFINE S == [token : {0, 1}, block : UploadBlocks]
  <2>1. reqs \in Seq(S)
    BY DEF OInv, OMessages
  <2> HIDE DEF S
  <2>2. i = 1 /\ 1 \in DOMAIN reqs
    BY <2>1, HeadTaken
  <2> QED
    BY <2>2 DEF ServerHandle
<1>2. ASSUME NEW k \in DOMAIN Images, InSlot(k), reqs[1].block = LastBlock(k)
      PROVE  UNCHANGED handler /\ last'.code \in Code \ {Continue, Changed}
  <2>1. Count(k) - 1 \in 0..Count(k) - 1 /\ Count(k) - 1 > 0
    BY ImageType, SeveralBlocks DEF OInv, OPeerState
  <2> QED
    BY <1>1, <1>2, <2>1, HandleMisfit DEF LastBlock, InSlot
<1>3. CASE ~Uploading
  <2>1. want > 0 /\ reqs[1].block = LastBlock(want) /\ InSlot(want)
    BY <1>1, <1>3 DEF OInv, AtRest
  <2>2. want \in DOMAIN Images
    BY <2>1, BlockwiseAssumption DEF OInv, OPeerState
  <2> QED
    BY <1>2, <1>3, <2>1, <2>2
<1>4. ASSUME Uploading
      PROVE  /\ want \in DOMAIN Images /\ block \in 0..Count(want) - 1 /\ block \in Nat
             /\ Count(want) \in Nat /\ Count(want) > 0 /\ want \in Nat /\ want > 0
             /\ reqs[1].token = token => reqs[1].block = ImageBlock(Images[want], block, Szx)
  <2>1. want \in DOMAIN Images /\ want \in Nat /\ want > 0
    BY <1>4, BlockwiseAssumption DEF OInv, OPeerState, Uploading
  <2> QED
    BY <1>1, <1>4, <2>1, ImageType DEF OInv, OPeerState, AwaitedReqs
<1>5. CASE Uploading /\ NotBegun /\ reqs[1].token # token
  <2>1. want > 1 /\ reqs[1].block = LastBlock(want - 1) /\ InSlot(want - 1)
    BY <1>1, <1>5 DEF NotBegun
  <2>2. want - 1 \in DOMAIN Images
    BY <1>4, <1>5, <2>1, BlockwiseAssumption
  <2> QED
    BY <1>2, <1>5, <2>1, <2>2
<1>6. ASSUME Uploading, NEW n \in 0..Count(want) - 1,
             reqs[1].block = ImageBlock(Images[want], n, Szx),
             reqs[1].token = token => n = block,
             n = 0 \/ (InBuffer(want) /\ Slot \in {<<>>, Images[want]})
      PROVE  /\ InBuffer(want)' /\ Slot' \in {<<>>, Images[want]}
             /\ status' = "serving" => last'.code \in Code
             /\ status' = "serving" /\ reqs[1].token = token =>
                  /\ last'.code = Continue => block + 1 < Count(want)
                  /\ last'.code = Changed => block + 1 = Count(want) /\ InSlot(want)'
  <2>1. PICK k \in DOMAIN Images : k = want
    BY <1>4, <1>6
  <2>2. want' = want
    BY DEF ServerHandle, peer
  <2>3. n \in 0..Count(k) - 1 /\ Handle(ImageBlock(Images[k], n, Szx))
    BY <1>1, <1>6, <2>1
  <2>4. n = 0 \/ (InBuffer(k) /\ Slot \in {<<>>, Images[k]})
    BY <1>6, <2>1
  <2>5. IInv
    BY DEF OInv
  <2>6. /\ InBuffer(k)' /\ Slot' \in {<<>>, Images[k]}
        /\ status' = "serving" =>
             /\ last'.code \in Code
             /\ last'.code = Continue => n + 1 < Count(k)
             /\ last'.code = Changed => n + 1 = Count(k) /\ InSlot(k)'
    BY <2>3, <2>4, <2>5, HandleAny
  <2>7. (InBuffer(k)' <=> InBuffer(want)') /\ (InSlot(k)' <=> InSlot(want)')
    BY <2>1, <2>2
  <2> QED
    BY <1>6, <2>1, <2>6, <2>7
<1>7. CASE Uploading /\ NotBegun /\ ~UnderWay /\ reqs[1].token = token
  <2>1. block = 0
    BY <1>7 DEF NotBegun
  <2> QED
    BY <1>4, <1>6, <1>7, <2>1
<1>8. CASE UnderWay /\ Uploading
  <2>1. PICK n \in 0..Count(want) - 1 :
          /\ reqs[1].block = ImageBlock(Images[want], n, Szx)
          /\ reqs[1].token = token => n = block
    BY <1>1, <1>4, <1>8 DEF UnderWay, BlockOf
  <2>2. CASE \A j \in DOMAIN resps : ~(resps[j].token = token /\ resps[j].code = Changed)
    BY <1>6, <1>8, <2>1, <2>2 DEF UnderWay
  <2>3. CASE \E j \in DOMAIN resps : resps[j].token = token /\ resps[j].code = Changed
    <3>1. reqs[1].token = token /\ block + 1 = Count(want) /\ InSlot(want)
      BY <1>1, <1>8, <2>3 DEF OInv, LastBehind, AwaitedResps
    <3>2. reqs[1].block = LastBlock(want)
      BY <1>4, <1>8, <3>1 DEF LastBlock
    <3> QED
      BY <1>2, <1>4, <1>8, <3>1, <3>2
  <2> QED
    BY <2>2, <2>3
<1> QED
  BY <1>3, <1>5, <1>7, <1>8 DEF OInv

LEMMA OServerKeeps ==
  ASSUME OInv, InOrder, NEW i \in Positions(reqs), ServerHandle(i)
  PROVE  OInv'
<1>1. /\ 1 \in DOMAIN reqs
      /\ UNCHANGED <<peer, seen>> /\ (Uploading' <=> Uploading)
      /\ IInv' /\ OPeerState' /\ OMessages' /\ LastBehind' /\ AwaitedReqs'
      /\ \A j \in DOMAIN reqs' : j + 1 \in DOMAIN reqs /\ reqs'[j] = reqs[j + 1]
      /\ \A j \in DOMAIN resps' :
           \/ j \in DOMAIN resps /\ resps'[j] = resps[j]
           \/ /\ status' = "serving"
              /\ resps'[j] = [token |-> reqs[1].token, code |-> last'.code]
  BY OHandled, OAnswered
<1>2. UNCHANGED <<setting, want, confirmed, block, token>>
  BY <1>1 DEF peer
<1>3. ASSUME UNCHANGED handler, last'.code \notin {Continue, Changed},
             Uploading /\ ~UnderWay => reqs[1].token # token
      PROVE  OInv'
  <2>1. AwaitedResps'
    <3>1. \A j \in DOMAIN resps' :
            resps'[j].code \in {Continue, Changed} => j \in DOMAIN resps /\ resps'[j] = resps[j]
      BY <1>1, <1>3
    <3> QED
      BY <1>1, <1>2, <1>3, <3>1 DEF OInv, AwaitedResps, InSlot, Count
  <2>2. AtRest'
    <3>1. CASE ~Uploading
      <4>1. \A j \in DOMAIN resps' : resps'[j].token = token'
        BY <1>1, <1>2, <3>1 DEF OInv, AtRest
      <4>2. (\A j \in DOMAIN reqs :
              reqs[j].token = token /\ want > 0 /\ reqs[j].block = LastBlock(want))'
        BY <1>1, <1>2, <3>1 DEF OInv, AtRest, LastBlock, Count
      <4>3. (want > 0 => InSlot(want))'
        BY <1>2, <1>3, <3>1 DEF OInv, AtRest, InSlot
      <4> QED
        BY <4>1, <4>2, <4>3 DEF AtRest
    <3>2. CASE Uploading
      BY <1>1, <3>2 DEF AtRest
    <3> QED
      BY <3>1, <3>2
  <2>3. CASE Uploading /\ UnderWay
    <3>1. UnderWay'
      BY <1>1, <1>2, <1>3, <2>3 DEF UnderWay, InBuffer, Slot, BlockOf, Beginning, Count
    <3> QED
      BY <1>1, <2>1, <2>2, <3>1 DEF OInv
  <2>4. CASE Uploading /\ NotBegun /\ reqs[1].token # token
    <3>1. NotBegun'
      <4>1. \A j \in DOMAIN resps' : resps'[j].token # token'
        BY <1>1, <1>2, <2>4 DEF NotBegun
      <4>2. (\A j \in DOMAIN reqs : reqs[j].token # token => want > 1 /\ reqs[j].block = LastBlock(want - 1))'
        BY <1>1, <1>2, <2>4 DEF NotBegun, LastBlock, Count
      <4>3. (block = 0 /\ (want > 1 => InSlot(want - 1)))'
        BY <1>2, <1>3, <2>4 DEF NotBegun, InSlot
      <4> QED
        BY <4>1, <4>2, <4>3 DEF NotBegun
    <3> QED
      BY <1>1, <2>1, <2>2, <3>1 DEF OInv
  <2>5. CASE ~Uploading
    BY <1>1, <2>1, <2>2, <2>5 DEF OInv
  <2> QED
    BY <1>3, <2>3, <2>4, <2>5 DEF OInv
<1>4. ASSUME Uploading, InBuffer(want)', Slot' \in {<<>>, Images[want]},
             ~UnderWay => reqs[1].token = token,
             UnderWay => \A j \in DOMAIN resps :
                           ~(resps[j].token = token /\ resps[j].code = Changed),
             status' = "serving" /\ reqs[1].token = token =>
               /\ last'.code = Continue => block + 1 < Count(want)
               /\ last'.code = Changed => block + 1 = Count(want) /\ InSlot(want)'
      PROVE  OInv'
  <2>1. \A j \in DOMAIN resps : ~(resps[j].token = token /\ resps[j].code = Changed)
    BY <1>4 DEF OInv, NotBegun
  <2>2. AwaitedResps'
    <3> SUFFICES ASSUME NEW j \in DOMAIN resps', resps'[j].token = token
                 PROVE  /\ resps'[j].code = Continue => block + 1 < Count(want)
                        /\ resps'[j].code = Changed => block + 1 = Count(want) /\ InSlot(want)'
      BY <1>2 DEF AwaitedResps, Count
    <3>1. CASE j \in DOMAIN resps /\ resps'[j] = resps[j]
      BY <1>4, <2>1, <3>1 DEF OInv, AwaitedResps
    <3>2. CASE status' = "serving" /\ resps'[j] = [token |-> reqs[1].token, code |-> last'.code]
      <4>1. reqs[1].token = token /\ resps'[j].code = last'.code
        BY <3>2
      <4> QED
        BY <1>4, <3>2, <4>1
    <3> QED
      BY <1>1, <3>1, <3>2
  <2>3. (\A j \in DOMAIN reqs : reqs[j].token # token => BlockOf(reqs[j].block, want))'
    <3>1. CASE UnderWay
      BY <1>1, <1>2, <3>1 DEF UnderWay, BlockOf, Count
    <3>2. CASE ~UnderWay
      <4>1. \A j \in DOMAIN reqs : j \in Nat /\ j >= 1
        BY DEF OInv, OMessages
      <4>2. \A j \in DOMAIN reqs : reqs[j].token = token
        BY <1>1, <1>4, <3>2, <4>1 DEF OInv, LastBehind, Steady
      <4> QED
        BY <1>1, <1>2, <4>2
    <3> QED
      BY <3>1, <3>2
  <2>4. UnderWay'
    BY <1>2, <1>4, <2>3 DEF UnderWay
  <2>5. AtRest'
    BY <1>1, <1>4 DEF AtRest
  <2> QED
    BY <1>1, <2>2, <2>4, <2>5 DEF OInv
<1> QED
  BY <1>3, <1>4, OHandled

LEMMA InitOInv == BInit => OInv
<1> SUFFICES ASSUME BInit
             PROVE  OInv
  OBVIOUS
<1>1. IInv
  BY InitBInv DEF BInv
<1>2. ~Uploading /\ reqs = <<>> /\ resps = <<>> /\ want = 0 /\ confirmed = 0 /\ token = 0 /\ block = 0
  BY DEF BInit, Uploading
<1>3. OPeerState
  BY <1>2, BlockwiseAssumption DEF BInit, OPeerState
<1>4. OMessages /\ LastBehind /\ AwaitedReqs /\ AwaitedResps /\ AtRest
  BY <1>2 DEF OMessages, LastBehind, Steady, AwaitedReqs, AwaitedResps, AtRest
<1> QED
  BY <1>1, <1>2, <1>3, <1>4 DEF OInv

LEMMA StepOInv ==
  ASSUME OInv, InOrder, [BNext]_bvars
  PROVE  OInv'
<1> DEFINE Q == [token : {0, 1}, block : UploadBlocks]
           R == [token : {0, 1}, code : Code]
<1>1. reqs \in Seq(Q) /\ resps \in Seq(R)
  BY DEF OInv, OMessages
<1>2. Suffix(reqs, reqs) /\ Suffix(resps, resps)
  BY <1>1, SuffixSelf
<1>3. ASSUME NEW i \in Positions(reqs), LoseRequest(i)
      PROVE  OInv'
  <2> HIDE DEF Q, R
  <2>1. reqs' \in Seq(Q) /\ Suffix(reqs', reqs)
    BY <1>1, <1>3, HeadTaken DEF LoseRequest
  <2>2. OMessages'
    BY <1>1, <1>3, <2>1 DEF OMessages, Q, R, LoseRequest
  <2> QED
    BY <1>2, <1>3, <2>1, <2>2, OChannelsKeep DEF LoseRequest
<1>4. ASSUME NEW i \in Positions(resps), LoseResponse(i)
      PROVE  OInv'
  <2> HIDE DEF Q, R
  <2>1. resps' \in Seq(R) /\ Suffix(resps', resps)
    BY <1>1, <1>4, HeadTaken DEF LoseResponse
  <2>2. OMessages'
    BY <1>1, <1>4, <2>1 DEF OMessages, Q, R, LoseResponse
  <2> QED
    BY <1>2, <1>4, <2>1, <2>2, OChannelsKeep DEF LoseResponse
<1>5. CASE UNCHANGED bvars
  BY <1>1, <1>2, <1>5, OChannelsKeep DEF OMessages, bvars
<1>6. ASSUME NEW i \in Positions(reqs), ServerRefuseReplay(i)
      PROVE  FALSE
  BY <1>6 DEF ServerRefuseReplay, InOrder
<1> QED
  BY <1>3, <1>4, <1>5, <1>6, OBeginKeeps, ORetransmitKeeps, OServerKeeps, OPeerKeeps DEF BNext

-----------------------------------------------------------------------------
(* Either kind of network.                                                   *)
EitherInv == (Protected /\ BInv) \/ (InOrder /\ OInv)

LEMMA InitEither ==
  ASSUME Covered
  PROVE  BInit => EitherInv
<1> SUFFICES ASSUME BInit
             PROVE  EitherInv
  OBVIOUS
<1>1. BInv /\ OInv
  BY InitBInv, InitOInv
<1>2. setting.protected \in BOOLEAN /\ setting.ordered \in BOOLEAN
  BY BlockwiseAssumption DEF BInit, Setting
<1>3. setting.protected <=> ~setting.ordered
  BY DEF BInit, Covered
<1> QED
  BY <1>1, <1>2, <1>3 DEF EitherInv, Protected, InOrder

LEMMA StepEither == EitherInv /\ [BNext]_bvars => EitherInv'
<1> SUFFICES ASSUME EitherInv, [BNext]_bvars
             PROVE  EitherInv'
  OBVIOUS
<1>1. UNCHANGED setting
  BY DEF BNext, BeginUpload, Retransmit, ServerHandle, ServerRefuseReplay, LoseRequest,
         PeerReceive, LoseResponse, bvars, peer
<1>2. (Protected' <=> Protected) /\ (InOrder' <=> InOrder)
  BY <1>1 DEF Protected, InOrder
<1> QED
  BY <1>2, StepBInv, StepOInv DEF EitherInv

(* A block that is handled only touches the slot and the buffer while an     *)
(* upload is open, and only for the image that is uploaded.                  *)
LEMMA ServerChanges ==
  ASSUME EitherInv, NEW i \in Positions(reqs), ServerHandle(i), ~UNCHANGED handler
  PROVE  /\ Uploading /\ want \in DOMAIN Images
         /\ InBuffer(want)' /\ Slot' \in {<<>>, Images[want]}
<1>1. CASE Protected /\ BInv
  <2>1. /\ Uploading /\ want \in DOMAIN Images /\ block \in 0..Count(want) - 1
        /\ block > 0 => Expecting(want, block)
        /\ Handle(ImageBlock(Images[want], block, Szx))
    BY <1>1, HandledIsAwaited
  <2>2. PICK k \in DOMAIN Images, n \in 0..Count(want) - 1 : k = want /\ n = block
    BY <2>1
  <2>3. n \in 0..Count(k) - 1 /\ n \in Nat /\ Handle(ImageBlock(Images[k], n, Szx))
    BY <2>1, <2>2, ImageType
  <2>4. n = 0 \/ (InBuffer(k) /\ Slot \in {<<>>, Images[k]})
    BY <2>1, <2>2, <2>3 DEF Expecting, InBuffer, Slot
  <2>5. InBuffer(k)' /\ Slot' \in {<<>>, Images[k]}
    BY <1>1, <2>3, <2>4, HandleAny DEF BInv
  <2>6. want' = want
    BY DEF ServerHandle, peer
  <2> QED
    BY <2>1, <2>2, <2>5, <2>6
<1>2. CASE InOrder /\ OInv
  <2>1. Uploading /\ InBuffer(want)' /\ Slot' \in {<<>>, Images[want]}
    BY <1>2, OHandled
  <2> QED
    BY <1>2, <2>1, BlockwiseAssumption DEF OInv, OPeerState, Uploading
<1> QED
  BY <1>1, <1>2 DEF EitherInv

LEMMA ChangedIsTrue ==
  ASSUME EitherInv, NEW i \in Positions(resps), Uploading,
         resps[i].token = token, resps[i].code = Changed
  PROVE  InSlot(want)
<1>1. CASE BInv
  <2>1. resps[i] \in Responses
    BY <1>1, WithoutType DEF BInv
  <2> QED
    BY <2>1 DEF Responses
<1>2. CASE OInv
  BY <1>2 DEF OInv, AwaitedResps, Positions
<1> QED
  BY <1>1, <1>2 DEF EitherInv

(* Every step of the upload is a step of the abstract update, or a stutter.  *)
LEMMA StepImplements ==
  ASSUME EitherInv, [BNext]_bvars
  PROVE  [Update!Next]_Update!vars
<1>1. CASE UNCHANGED <<handler, want, confirmed>>
  BY <1>1 DEF Update!vars
<1>2. CASE BeginUpload
  BY <1>2 DEF BeginUpload, vars, Uploading, Update!Next, Update!Request, Update!Open
<1>3. ASSUME NEW i \in Positions(reqs), ServerHandle(i), ~UNCHANGED handler
      PROVE  Update!Interrupt \/ Update!Install
  <2>1. Uploading /\ Slot' \in {<<>>, Images[want]}
    BY <1>3, ServerChanges
  <2>2. UNCHANGED <<want, confirmed>>
    BY <1>3 DEF ServerHandle, peer
  <2> QED
    BY <2>1, <2>2
       DEF Slot, Uploading, Update!Interrupt, Update!Install, Update!Open, Update!Down
<1>4. ASSUME NEW i \in Positions(resps), PeerReceive(i), ~UNCHANGED confirmed
      PROVE  Update!Confirm
  <2>1. /\ resps[i].token = token /\ Uploading /\ resps[i].code = Changed
        /\ confirmed' = want /\ UNCHANGED <<handler, want>>
    BY <1>4 DEF PeerReceive, vars
  <2>2. InSlot(want)
    BY <1>4, <2>1, ChangedIsTrue
  <2> QED
    BY <2>1, <2>2 DEF InSlot, Uploading, Update!Confirm, Update!Open
<1> QED
  <2>1. CASE Retransmit \/ UNCHANGED bvars
    BY <1>1, <2>1 DEF Retransmit, bvars, vars, peer
  <2>2. ASSUME NEW i \in Positions(reqs),
               \/ ServerRefuseReplay(i) \/ LoseRequest(i)
               \/ ServerHandle(i) /\ UNCHANGED handler
        PROVE  UNCHANGED <<handler, want, confirmed>>
    BY <2>2 DEF ServerHandle, ServerRefuseReplay, LoseRequest, vars, peer
  <2>3. ASSUME NEW i \in Positions(resps), LoseResponse(i) \/ (PeerReceive(i) /\ UNCHANGED confirmed)
        PROVE  UNCHANGED <<handler, want, confirmed>>
    BY <2>3 DEF PeerReceive, LoseResponse, vars, peer
  <2> QED
    BY <1>1, <1>2, <1>3, <1>4, <2>1, <2>2, <2>3 DEF BNext, Update!Next

(* Over a network that loses and repeats, and reorders if OSCORE refuses     *)
(* replays, uploading implements the abstract update: nothing but an open    *)
(* request takes a capsule down, and an image that the peer was told is      *)
(* installed is the one that runs.                                           *)
THEOREM UpdateImplementedHolds ==
  ASSUME Covered
  PROVE  BSpec => UpdateImplemented
<1>1. BInit => Update!Init
  BY DEF BInit, Update!Init, StartFromStatic, StartRaw, New
<1>2. EitherInv /\ [BNext]_bvars => [Update!Next]_Update!vars
  BY StepImplements
<1> QED
  BY <1>1, <1>2, InitEither, StepEither, PTL DEF BSpec, UpdateImplemented, Update!Spec

(* The variables keep their types.                                           *)
THEOREM BTypeCorrect ==
  ASSUME Covered
  PROVE  BSpec => []BTypeOK
<1>1. BInv => BTypeOK
  <2> SUFFICES ASSUME BInv
               PROVE  BTypeOK
    OBVIOUS
  <2>1. TypeOK /\ setting \in Settings /\ block \in Nat /\ token \in 0..MaxToken
    BY DEF BInv, IInv, PeerState
  <2>2. confirmed \in 0..Len(Images) /\ want \in {confirmed, confirmed + 1}
    BY BlockwiseAssumption DEF BInv, PeerState
  <2>3. 1..token \subseteq 0..MaxToken /\ seen \subseteq 0..MaxToken
    BY <2>1, BlockwiseAssumption DEF BInv, Window
  <2>4. Requests \subseteq [token : 0..MaxToken, block : UploadBlocks]
    BY <2>3 DEF Requests
  <2>5. Responses \subseteq [token : 0..MaxToken, code : Code \cup {Replayed}]
    BY <2>3 DEF Responses
  <2>6. /\ reqs \in Seq([token : 0..MaxToken, block : UploadBlocks])
        /\ resps \in Seq([token : 0..MaxToken, code : Code \cup {Replayed}])
    BY <2>4, <2>5, SeqWider DEF BInv
  <2> QED
    BY <2>1, <2>2, <2>3, <2>6 DEF BTypeOK
<1>2. OInv /\ seen = {} => BTypeOK
  <2> SUFFICES ASSUME OInv, seen = {}
               PROVE  BTypeOK
    OBVIOUS
  <2> DEFINE Q == [token : {0, 1}, block : UploadBlocks]
             R == [token : {0, 1}, code : Code]
             WiderQ == [token : 0..MaxToken, block : UploadBlocks]
             WiderR == [token : 0..MaxToken, code : Code \cup {Replayed}]
  <2>1. {0, 1} \subseteq 0..MaxToken
    BY BlockwiseAssumption
  <2>2. TypeOK /\ setting \in Settings /\ block \in Nat /\ token \in 0..MaxToken
    BY <2>1 DEF OInv, IInv, OPeerState
  <2>3. confirmed \in 0..Len(Images) /\ want \in {confirmed, confirmed + 1}
    BY BlockwiseAssumption DEF OInv, OPeerState
  <2>4. Q \subseteq WiderQ /\ R \subseteq WiderR
    BY <2>1
  <2>5. reqs \in Seq(Q) /\ resps \in Seq(R)
    BY DEF OInv, OMessages
  <2>6. reqs \in Seq(WiderQ) /\ resps \in Seq(WiderR)
    <3> HIDE DEF Q, R, WiderQ, WiderR
    <3> QED
      BY <2>4, <2>5, SeqWider
  <2> QED
    BY <2>2, <2>3, <2>6 DEF BTypeOK
<1> DEFINE Empty == InOrder => seen = {}
<1>3. BInit => Empty
  BY DEF BInit
<1>4. Empty /\ [BNext]_bvars => Empty'
  BY DEF InOrder, BNext, BeginUpload, Retransmit, ServerHandle, ServerRefuseReplay,
         LoseRequest, PeerReceive, LoseResponse, bvars, peer
<1>5. EitherInv /\ Empty => BTypeOK
  BY <1>1, <1>2 DEF EitherInv
<1> HIDE DEF Empty
<1> QED
  BY <1>3, <1>4, <1>5, InitEither, StepEither, PTL DEF BSpec

(* Whatever is lost, repeated or overtaken, the buffer is the beginning of   *)
(* one image, if there is any.                                               *)
THEOREM BufferIsPrefixHolds ==
  ASSUME Covered, Images # <<>>
  PROVE  BSpec => []BufferIsPrefix
<1>1. BInit => BufferIsPrefix
  <2> SUFFICES ASSUME BInit
               PROVE  BufferIsPrefix
    OBVIOUS
  <2>1. handler.program = <<>>
    BY DEF BInit, StartFromStatic, StartRaw, New
  <2>2. 1 \in DOMAIN Images
    BY BlockwiseAssumption
  <2>3. SubSeq(Images[1], 1, 0) = <<>> /\ 0 \in 0..Len(Images[1])
    BY <2>2, SubSeqEmpty, ImageType
  <2> QED
    BY <2>1, <2>2, <2>3 DEF BufferIsPrefix
<1>2. ASSUME NEW k \in DOMAIN Images, InBuffer(k)'
      PROVE  BufferIsPrefix'
  <2>1. CASE handler'.program = Images[k]
    <3>1. Images[k] = SubSeq(Images[k], 1, Len(Images[k])) /\ Len(Images[k]) \in 0..Len(Images[k])
      BY ImageType, SubSeqFull
    <3> QED
      BY <2>1, <3>1 DEF BufferIsPrefix
  <2>2. ASSUME NEW n \in 0..Count(k) - 1, handler'.program = Beginning(k, n)
        PROVE  BufferIsPrefix'
    <3>1. n * Size \in 0..Len(Images[k])
      BY BlockWithin, ImageType
    <3> QED
      BY <2>2, <3>1 DEF BufferIsPrefix, Beginning
  <2> QED
    BY <1>2, <2>1, <2>2 DEF InBuffer, Count, Beginning
<1>3. EitherInv /\ BufferIsPrefix /\ [BNext]_bvars => BufferIsPrefix'
  <2> SUFFICES ASSUME EitherInv, BufferIsPrefix, [BNext]_bvars
               PROVE  BufferIsPrefix'
    OBVIOUS
  <2>1. CASE UNCHANGED handler
    BY <2>1 DEF BufferIsPrefix
  <2>2. ASSUME NEW i \in Positions(reqs), ServerHandle(i), ~UNCHANGED handler
        PROVE  BufferIsPrefix'
    <3>1. want \in DOMAIN Images /\ InBuffer(want)' /\ want' = want
      BY <2>2, ServerChanges DEF ServerHandle, peer
    <3>2. PICK k \in DOMAIN Images : k = want
      BY <3>1
    <3>3. InBuffer(k)'
      BY <3>1, <3>2
    <3> QED
      BY <1>2, <3>3
  <2> QED
    BY <2>1, <2>2
       DEF BNext, BeginUpload, Retransmit, ServerRefuseReplay, LoseRequest, LoseResponse,
           PeerReceive, bvars, vars
<1> QED
  BY <1>1, <1>3, InitEither, StepEither, PTL DEF BSpec
=============================================================================
