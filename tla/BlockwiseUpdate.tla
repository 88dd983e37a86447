-------------------------- MODULE BlockwiseUpdate --------------------------
(* Replacing the capsule of a PersistentServer over the network: one peer    *)
(* uploads images to /vm-control block by block (README of the example,      *)
(* `aiocoap-client ... -m PUT --payload`), over a network that loses and     *)
(* may reorder messages.  The peer awaits the answer to a block before it    *)
(* sends the next one, repeats a block that is not answered, and starts over *)
(* when an answer is an error.                                               *)
(*                                                                           *)
(* The peer and the network are no part of the repository; the server's      *)
(* steps are those of PersistentServer.                                      *)
EXTENDS PersistentServer

CONSTANTS Images,           \* the images the peer uploads, in this order
          Szx,              \* the block size the peer has chosen
          Settings,         \* the settings the update may take place in
          StartsFail,       \* whether starts may fail
          Capacity,         \* bound: messages in flight in one direction
          MaxToken          \* bound: tokens where the network reorders

(* A setting: whether the network keeps messages in order, whether OSCORE    *)
(* refuses a request it has seen, and whether allocations may fail.          *)
Setting == [ordered : BOOLEAN, protected : BOOLEAN, memoryFails : BOOLEAN]

UploadBlocks == UNION {ImageBlocks(Images[k], Szx) : k \in DOMAIN Images}

(* Unless repetitions are refused, an image of one block is outside of this  *)
(* model: its repetition restarts the capsule, so that an answer can overtake*)
(* a failing restart.                                                        *)
ASSUME BlockwiseAssumption ==
  /\ Images \in Seq(Seq(Byte))
  /\ \A k \in DOMAIN Images : Len(Images[k]) <= WordSize
  /\ UploadBlocks \subseteq PutRequest
  /\ Szx \in 0..7 /\ Capacity \in Nat \ {0} /\ MaxToken \in Nat \ {0}
  /\ Settings \subseteq Setting /\ StartsFail \in BOOLEAN
  /\ StaticProgram # <<>>
  /\ \A k \in DOMAIN Images : BlockCount(Images[k], Szx) > 0
  /\ \A s \in Settings : s.protected \/ \A k \in DOMAIN Images : BlockCount(Images[k], Szx) > 1

VARIABLES setting,    \* chosen once
          want,       \* number of the image the peer uploads, or uploaded last
          confirmed,  \* number of the image that was answered with 2.04 last
          block,      \* the block the peer awaits an answer for
          token,      \* and the token of that request
          reqs,       \* requests in flight, oldest first
          resps,      \* answers in flight, oldest first
          seen        \* tokens the server's replay window holds

peer == <<setting, want, confirmed, block, token>>
bvars == <<vars, peer, reqs, resps, seen>>

Replayed == "4.01"

Uploading == want # confirmed

Positions(channel) == IF setting.ordered THEN {1} \cap DOMAIN channel ELSE DOMAIN channel
Without(channel, i) == SubSeq(channel, 1, i - 1) \o SubSeq(channel, i + 1, Len(channel))

BInit ==
  /\ setting \in Settings
  /\ status = "serving"
  /\ handler = StartFromStatic(New, StaticProgram, "Ok")
  /\ last = [op |-> "none", block |-> NoBlock, code |-> "none"]
  /\ want = 0 /\ confirmed = 0 /\ block = 0 /\ token = 0
  /\ reqs = <<>> /\ resps = <<>> /\ seen = {}
-----------------------------------------------------------------------------
\* a new request for a block, with a token of its own; where the network keeps the
\* order two tokens are enough
Send(k, num) ==
  /\ block' = num
  /\ IF setting.ordered
     THEN token' = 1 - token
     ELSE token < MaxToken /\ token' = token + 1
  /\ reqs' = Append(reqs, [token |-> token', block |-> ImageBlock(Images[k], num, Szx)])

BeginUpload ==
  /\ ~Uploading /\ want < Len(Images)
  /\ want' = want + 1
  /\ Send(want', 0)
  /\ UNCHANGED <<vars, setting, confirmed, resps, seen>>

\* the timer of the request fires; also stands for a copy made by the network
Retransmit ==
  /\ Uploading /\ Len(reqs) < Capacity
  /\ reqs' = Append(reqs, [token |-> token, block |-> ImageBlock(Images[want], block, Szx)])
  /\ UNCHANGED <<vars, peer, resps, seen>>

PeerReceive(i) ==
  /\ resps' = Without(resps, i)
  /\ UNCHANGED <<vars, setting, want, seen>>
  /\ LET r == resps[i] IN
     \/ /\ ~Uploading \/ r.token # token
        /\ UNCHANGED <<confirmed, block, token, reqs>>
     \/ /\ Uploading /\ r.token = token
        /\ \/ r.code = Continue /\ Send(want, block + 1) /\ UNCHANGED confirmed
           \/ r.code = Changed /\ confirmed' = want /\ UNCHANGED <<block, token, reqs>>
           \/ r.code \notin {Continue, Changed} /\ Send(want, 0) /\ UNCHANGED confirmed
-----------------------------------------------------------------------------
\* what the handler of /vm-control does, with the faults that are allowed
Handle(b) ==
  \/ PutIncomplete(b)
  \/ PutContinue(b)
  \/ setting.memoryFails /\ PutNoMemory(b)
  \/ \E outcome \in (IF StartsFail THEN StartOutcome ELSE {"Ok"}) : PutStart(b, outcome)

\* deviation: the replay window is not advanced
ServerHandleForgetting(i) ==
  LET m == reqs[i] IN
  /\ ~(setting.protected /\ m.token \in seen)
  /\ Len(resps) < Capacity
  /\ Handle(m.block)
  /\ reqs' = Without(reqs, i)
  /\ resps' = IF status' = "serving"
              THEN Append(resps, [token |-> m.token, code |-> last'.code])
              ELSE resps
  /\ UNCHANGED <<peer, seen>>

\* a handler that panics answers nothing
ServerHandle(i) ==
  LET m == reqs[i] IN
  /\ ~(setting.protected /\ m.token \in seen)
  /\ Len(resps) < Capacity
  /\ Handle(m.block)
  /\ reqs' = Without(reqs, i)
  /\ resps' = IF status' = "serving"
              THEN Append(resps, [token |-> m.token, code |-> last'.code])
              ELSE resps
  /\ seen' = IF setting.protected THEN seen \cup {m.token} ELSE seen
  /\ UNCHANGED peer

\* OSCORE has seen the request: it does not reach the handler
ServerRefuseReplay(i) ==
  LET m == reqs[i] IN
  /\ setting.protected /\ m.token \in seen
  /\ status = "serving" /\ Len(resps) < Capacity
  /\ reqs' = Without(reqs, i)
  /\ resps' = Append(resps, [token |-> m.token, code |-> Replayed])
  /\ UNCHANGED <<vars, peer, seen>>

LoseRequest(i) == reqs' = Without(reqs, i) /\ UNCHANGED <<vars, peer, resps, seen>>

LoseResponse(i) == resps' = Without(resps, i) /\ UNCHANGED <<vars, peer, reqs, seen>>

BNext ==
  \/ BeginUpload
  \/ Retransmit
  \/ \E i \in Positions(reqs) : ServerHandle(i) \/ ServerRefuseReplay(i) \/ LoseRequest(i)
  \/ \E i \in Positions(resps) : PeerReceive(i) \/ LoseResponse(i)

BSpec == BInit /\ [][BNext]_bvars
-----------------------------------------------------------------------------
(* Fairness: the peer repeats an unanswered block; a block that is sent      *)
(* again and again arrives and is handled; so does the answer that lets the  *)
(* peer go on from a block, and the refusals (a network that loses every     *)
(* 2.04 and nothing else would keep the peer from learning of its success).  *)
(* Starts may fail at any time; that an allocation is not refused each time  *)
(* one is tried is left out where memoryFails.                               *)
BlockNumber == {b.num : b \in UploadBlocks}

Fairness ==
  /\ WF_bvars(BeginUpload)
  /\ WF_bvars(Retransmit)
  /\ SF_bvars(\E i \in Positions(reqs) : ServerHandle(i) \/ ServerRefuseReplay(i))
  /\ \A num \in BlockNumber :
       SF_bvars(\E i \in Positions(resps) :
                 /\ resps[i].token = token /\ resps[i].code \in {Continue, Changed}
                 /\ block = num
                 /\ PeerReceive(i))
  /\ SF_bvars(\E i \in Positions(resps) :
                /\ resps[i].token = token /\ resps[i].code \notin {Continue, Changed}
                /\ PeerReceive(i))
  /\ WF_bvars(\E i \in Positions(resps) : PeerReceive(i) \/ LoseResponse(i))

FairBSpec == BSpec /\ Fairness
-----------------------------------------------------------------------------
(* The variables keep their types: numbers within the images, messages made  *)
(* of blocks of the images and codes of the server.                          *)
BTypeOK ==
  /\ TypeOK
  /\ setting \in Settings
  /\ confirmed \in 0..Len(Images) /\ want \in {confirmed, confirmed + 1}
  /\ block \in Nat /\ token \in 0..MaxToken /\ seen \subseteq 0..MaxToken
  /\ reqs \in Seq([token : 0..MaxToken, block : UploadBlocks])
  /\ resps \in Seq([token : 0..MaxToken, code : Code \cup {Replayed}])

(* Losses, repetitions and restarts of an upload leave nothing in the buffer *)
(* but the beginning of one image: no gap, no repetition, no mix of two.     *)
BufferIsPrefix ==
  \E k \in DOMAIN Images : \E n \in 0..Len(Images[k]) :
    handler.program = SubSeq(Images[k], 1, n)

(* The upload implements the abstract update: what runs is in the slot, and  *)
(* an image the peer considers installed is the one that runs.               *)
Update == INSTANCE CapsuleUpdate WITH
            Factory <- StaticProgram,
            slot <- IF handler.state = "Running" THEN handler.instance.code ELSE <<>>

UpdateImplemented == Update!Spec

(* On a network that does not lose one message for ever, every upload ends   *)
(* with a 2.04, through all restarts that losses cause (while memory lasts); *)
(* only a failed start ends otherwise, in a panic.  Claimed where the order  *)
(* is kept: elsewhere the tokens are bounded.                                *)
UploadsConfirmed ==
  setting.ordered /\ ~setting.memoryFails /\ Uploading
    ~> (~Uploading \/ status = "panicked")
=============================================================================
