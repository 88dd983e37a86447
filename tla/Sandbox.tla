------------------------------ MODULE Sandbox ------------------------------
(* The sandbox of capsules (sanbdox.rs): PUT /sandbox/<path> uploads and     *)
(* instantiates a capsule, GET runs it, DELETE removes it.  Every path has   *)
(* an instance of its own; all uploads share one buffer.                     *)
(*                                                                           *)
(* A request is handled without awaiting, from the extraction of its data to *)
(* the building of the response, so each request is one step.                *)
EXTENDS CoapBlock1

CONSTANTS Byte,       \* the values a byte of a program takes
          Path,       \* the first Uri-Path segments that peers use
          PutRequest  \* the blocks that peers may send

ASSUME SandboxAssumption == PutRequest \subseteq PutType(Byte)

VARIABLES instances,  \* BTreeMap from path to instance; NoCapsule if absent
          buffer,     \* last_received_vector
          last        \* the request answered last, and its answer

vars == <<instances, buffer, last>>

(* An instance owns a copy of its code (Component::deserialize), so the      *)
(* buffer may change while it lives.  A trapped one cannot be entered again. *)
NoCapsule == [code |-> <<>>, trapped |-> FALSE, present |-> FALSE]
Capsule(code) == [code |-> code, trapped |-> FALSE, present |-> TRUE]

Answered == [op : {"none", "bad", "put", "get", "delete"}, path : Path,
             block : PutRequest \cup {NoBlock}, code : Code \cup {"none"}]

Answer(op, path, block, code) ==
  last' = [op |-> op, path |-> path, block |-> block, code |-> code]

TypeOK ==
  /\ instances \in [Path -> [code : Seq(Byte), trapped : BOOLEAN, present : BOOLEAN]]
  /\ buffer \in Seq(Byte)
  /\ last \in Answered

Init ==
  /\ instances = [p \in Path |-> NoCapsule]
  /\ buffer = <<>>
  /\ last \in {[op |-> "none", path |-> p, block |-> NoBlock, code |-> "none"] : p \in Path}
-----------------------------------------------------------------------------
(* extract_request_data: requests refused before they reach a capsule, for   *)
(* an option not understood, no path, an empty path or an unknown method.    *)
BadRequestLine(path, code) ==
  /\ code \in {BadOption, NotFound, Forbidden, MethodNotAllowed}
  /\ Answer("bad", path, NoBlock, code)
  /\ UNCHANGED <<instances, buffer>>

Delete(path) ==
  /\ instances' = [instances EXCEPT ![path] = NoCapsule]
  /\ Answer("delete", path, NoBlock, Deleted)
  /\ UNCHANGED buffer

(* GET runs the capsule while the response is built; a later block of the    *)
(* same response runs it again.                                              *)
GetAbsent(path) ==
  /\ ~instances[path].present
  /\ Answer("get", path, NoBlock, NotFound)
  /\ UNCHANGED <<instances, buffer>>

GetResult(path) ==
  /\ instances[path].present /\ ~instances[path].trapped
  /\ Answer("get", path, NoBlock, Content)
  /\ UNCHANGED <<instances, buffer>>

\* deviation: a capsule whose run fails is dropped
GetFailsRemoving(path) ==
  /\ instances[path].present
  /\ instances' = [instances EXCEPT ![path] = NoCapsule]
  /\ Answer("get", path, NoBlock, InternalServerError)
  /\ UNCHANGED buffer

\* the run traps, or a capsule that trapped before is entered again
GetFails(path) ==
  /\ instances[path].present
  /\ instances' = [instances EXCEPT ![path].trapped = TRUE]
  /\ Answer("get", path, NoBlock, InternalServerError)
  /\ UNCHANGED buffer
-----------------------------------------------------------------------------
(* process_put_request.                                                      *)

\* deviations: the first block drops every capsule, or none
BegunInstancesKept(path, b) == instances
BegunInstancesAll(path, b) == IF Offset(b) = 0 THEN [p \in Path |-> NoCapsule] ELSE instances

\* block 0 of a body removes the capsule at its path and empties the buffer
BegunInstances(path, b) ==
  IF Offset(b) = 0 THEN [instances EXCEPT ![path] = NoCapsule] ELSE instances

BegunBuffer(b) == IF Offset(b) = 0 THEN <<>> ELSE buffer

\* deviations: the position, or the length of a block is not looked at
FitsAnywhere(b) == b.more => Len(b.payload) = BlockSize(b.szx)
FitsAnyLength(b) == Len(BegunBuffer(b)) = Offset(b)

Fits(b) == /\ Len(BegunBuffer(b)) = Offset(b)
           /\ b.more => Len(b.payload) = BlockSize(b.szx)

\* deviation: push in the place of extend_from_slice
ExtendedByPush(b) == Append(BegunBuffer(b), b.payload)

Extended(b) == BegunBuffer(b) \o b.payload

PutReserved(path, b) ==
  /\ b.szx = 7
  /\ Answer("put", path, b, BadRequest)
  /\ UNCHANGED <<instances, buffer>>

PutIncomplete(path, b) ==
  /\ b.szx # 7 /\ ~Fits(b)
  /\ instances' = BegunInstances(path, b)
  /\ buffer' = BegunBuffer(b)
  /\ Answer("put", path, b, Incomplete)

\* try_reserve fails: the upload is given up and its memory reused
PutTooLarge(path, b) ==
  /\ b.szx # 7 /\ Fits(b) /\ b.payload # <<>>
  /\ instances' = BegunInstances(path, b)
  /\ buffer' = <<>>
  /\ Answer("put", path, b, TooLarge)

PutContinue(path, b) ==
  /\ b.szx # 7 /\ Fits(b) /\ b.more
  /\ instances' = BegunInstances(path, b)
  /\ buffer' = Extended(b)
  /\ Answer("put", path, b, Continue)

(* instantiate_capsule: the last block decides at which path the buffer is   *)
(* instantiated.                                                             *)
PutCreated(path, b) ==
  /\ b.szx # 7 /\ Fits(b) /\ ~b.more
  /\ instances' = [BegunInstances(path, b) EXCEPT ![path] = Capsule(Extended(b))]
  /\ buffer' = <<>>
  /\ Answer("put", path, b, Created)

\* deserialize or instantiate fails: what was at the path stays if the block
\* is not at offset 0, and the buffer keeps the image
PutBadImage(path, b) ==
  /\ b.szx # 7 /\ Fits(b) /\ ~b.more
  /\ instances' = BegunInstances(path, b)
  /\ buffer' = Extended(b)
  /\ Answer("put", path, b, BadRequest)

Put(path, b) ==
  \/ PutReserved(path, b)
  \/ PutIncomplete(path, b)
  \/ PutTooLarge(path, b)
  \/ PutContinue(path, b)
  \/ PutCreated(path, b)
  \/ PutBadImage(path, b)

Get(path) == GetAbsent(path) \/ GetResult(path) \/ GetFails(path)

Next == \E path \in Path :
  \/ \E code \in Code : BadRequestLine(path, code)
  \/ Delete(path)
  \/ Get(path)
  \/ \E b \in PutRequest : Put(path, b)

Spec == Init /\ [][Next]_vars
-----------------------------------------------------------------------------
HonestClients == \A b \in PutRequest : Honest(b)

(* With honest clients, in any order, with any losses and repetitions and    *)
(* whatever paths they name, the buffer and every instance are made of bytes *)
(* that are at their position of the image they come from.                   *)
InPlace ==
  /\ \A i \in DOMAIN buffer : At(buffer[i]) = i
  /\ \A p \in Path : \A i \in DOMAIN instances[p].code : At(instances[p].code[i]) = i

(* A block that was answered with 2.31 can be continued: the next block of   *)
(* the same size is the one that fits.  Without the check on the length of a *)
(* block the peer would be told to go on with an upload that cannot end.     *)
ContinueCanContinue ==
  last.code = Continue =>
    Len(buffer) = BlockStart([last.block EXCEPT !.num = @ + 1]) % WordSize

(* What peers do at one path never touches the capsule at another: not a     *)
(* shared buffer that is reset, not a bad image, not a crash.                *)
PathsIndependent ==
  [][\A p \in Path : instances'[p] # instances[p] => last'.path = p]_vars

(* A capsule leaves its path only for a DELETE or the first block of a new   *)
(* upload, and one that crashed works again only after an upload.            *)
CapsuleStays ==
  [][\A p \in Path : instances[p].present =>
       \/ last'.op = "delete"
       \/ last'.op = "put" /\ (Offset(last'.block) = 0 \/ last'.code = Created)
       \/ /\ instances'[p].present /\ instances'[p].code = instances[p].code
          /\ instances[p].trapped => instances'[p].trapped]_vars

(* The answer to an upload tells what is at the path: after a 2.01 the new   *)
(* capsule and a free buffer, and nothing that could be run after a 2.31 for *)
(* a first block.                                                            *)
AnswersTruthful ==
  last.op = "put" =>
    /\ last.code = Created =>
         /\ instances[last.path].present /\ ~instances[last.path].trapped
         /\ buffer = <<>>
    /\ last.code = Continue /\ Offset(last.block) = 0 => ~instances[last.path].present
=============================================================================
