--------------------------- MODULE SandboxProofs ---------------------------
(* Theorems about Sandbox, for every set of paths and requests and every     *)
(* block and word size.                                                      *)
EXTENDS Sandbox, SequenceTheorems, TLAPS

(* The inductive invariant of InPlace: the types are what tells that         *)
(* appending a block only adds bytes behind those that are there.            *)
Types ==
  /\ DOMAIN instances = Path
  /\ \A p \in Path : instances[p] \in [code : Seq(Byte), trapped : BOOLEAN, present : BOOLEAN]
  /\ buffer \in Seq(Byte)

InOrder(bytes) == \A i \in DOMAIN bytes : At(bytes[i]) = i
-----------------------------------------------------------------------------
(* What happens at one path leaves the capsules at the others alone.         *)
LEMMA BegunElsewhere ==
  ASSUME NEW path \in Path, NEW b
  PROVE  \A p \in Path : p # path => BegunInstances(path, b)[p] = instances[p]
  BY DEF BegunInstances

LEMMA BegunTypes ==
  ASSUME Types, NEW path \in Path, NEW b
  PROVE  /\ DOMAIN BegunInstances(path, b) = Path
         /\ \A p \in Path : BegunInstances(path, b)[p] = instances[p]
                            \/ BegunInstances(path, b)[p] = NoCapsule
  BY DEF Types, BegunInstances

LEMMA ExtendedType ==
  ASSUME Types, NEW b \in PutRequest
  PROVE  /\ BegunBuffer(b) \in {<<>>, buffer}
         /\ Extended(b) \in Seq(Byte)
<1>1. b.payload \in Seq(Byte)
  BY SandboxAssumption DEF PutType
<1>2. BegunBuffer(b) \in {<<>>, buffer} /\ BegunBuffer(b) \in Seq(Byte)
  BY DEF Types, BegunBuffer
<1> QED
  BY <1>1, <1>2, ConcatProperties DEF Extended

(* What a step can make of the buffer and of the capsule at a path: nothing  *)
(* but what was there, an empty buffer, or the buffer extended by a block    *)
(* that fits.                                                                *)
Bytes == {<<>>, buffer} \cup {Extended(b) : b \in {c \in PutRequest : Fits(c)}}

LEMMA StepBytes ==
  ASSUME Types, [Next]_vars
  PROVE  /\ DOMAIN instances' = Path
         /\ buffer' \in Bytes
         /\ \A p \in Path : \/ instances'[p] = instances[p]
                            \/ instances'[p] = NoCapsule
                            \/ instances'[p] = [instances[p] EXCEPT !.trapped = TRUE]
                            \/ \E code \in Bytes : instances'[p] = Capsule(code)
<1> DEFINE Result == /\ DOMAIN instances' = Path
                     /\ buffer' \in Bytes
                     /\ \A p \in Path : \/ instances'[p] = instances[p]
                                        \/ instances'[p] = NoCapsule
                                        \/ instances'[p] = [instances[p] EXCEPT !.trapped = TRUE]
                                        \/ \E code \in Bytes : instances'[p] = Capsule(code)
<1>0. DOMAIN instances = Path
  BY DEF Types
<1>1. CASE UNCHANGED <<instances, buffer>>
  BY <1>0, <1>1 DEF Bytes
<1>2. ASSUME NEW path \in Path, Delete(path) \/ GetFails(path)
      PROVE  Result
  BY <1>0, <1>2 DEF Delete, GetFails, Bytes
<1>3. ASSUME NEW path \in Path, NEW b \in PutRequest, Put(path, b)
      PROVE  Result
  <2>1. BegunBuffer(b) \in Bytes /\ (Fits(b) => Extended(b) \in Bytes) /\ <<>> \in Bytes
    BY ExtendedType DEF Bytes
  <2>2. CASE PutReserved(path, b)
    BY <1>1, <2>2 DEF PutReserved
  <2>3. CASE PutIncomplete(path, b) \/ PutTooLarge(path, b) \/ PutContinue(path, b)
             \/ PutBadImage(path, b)
    <3>1. instances' = BegunInstances(path, b)
      BY <2>3 DEF PutIncomplete, PutTooLarge, PutContinue, PutBadImage
    <3>2. buffer' \in Bytes
      BY <2>1, <2>3 DEF PutIncomplete, PutTooLarge, PutContinue, PutBadImage
    <3> QED
      BY <3>1, <3>2, BegunTypes
  <2>4. CASE PutCreated(path, b)
    <3>1. /\ instances' = [BegunInstances(path, b) EXCEPT ![path] = Capsule(Extended(b))]
          /\ buffer' \in Bytes
          /\ Extended(b) \in Bytes
      BY <2>1, <2>4 DEF PutCreated
    <3> QED
      BY <3>1, BegunTypes
  <2> QED
    BY <1>3, <2>2, <2>3, <2>4 DEF Put
<1> QED
  BY <1>1, <1>2, <1>3 DEF Next, Get, GetAbsent, GetResult, BadRequestLine, vars

(* Where the server takes an honest block to go is where it belongs, and one *)
(* that fits extends a buffer in place by bytes in place.                    *)
LEMMA ExtendedInOrder ==
  ASSUME HonestClients, Types, InOrder(buffer), NEW b \in PutRequest, Fits(b)
  PROVE  InOrder(Extended(b))
<1> DEFINE front == BegunBuffer(b)
           back == b.payload
<1>1. b.num \in Nat /\ b.szx \in 0..7 /\ back \in Seq(Byte)
  BY SandboxAssumption DEF PutType
<1>2. BlockStart(b) \in Nat
  <2>1. <<1, 2, 4, 8, 16, 32, 64, 128>>[b.szx + 1] \in Nat
    BY <1>1
  <2>2. BlockSize(b.szx) \in Nat
    BY <2>1, Block1Assumption DEF BlockSize
  <2> QED
    BY <1>1, <2>2 DEF BlockStart
<1>3. Len(front) = BlockStart(b)
  <2>1. BlockStart(b) < WordSize
    BY DEF HonestClients, Honest
  <2>2. Offset(b) = BlockStart(b)
    BY <1>2, <2>1, Block1Assumption DEF Offset
  <2> QED
    BY <2>2 DEF Fits
<1>4. front \in Seq(Byte) /\ \A i \in 1..Len(front) : At(front[i]) = i
  BY DEF Types, BegunBuffer, InOrder
<1>5. \A i \in 1..Len(back) : At(back[i]) = Len(front) + i
  BY <1>1, <1>3 DEF HonestClients, Honest
<1> HIDE DEF front, back
<1>6. /\ front \o back \in Seq(Byte)
      /\ \A i \in 1..Len(front \o back) : At((front \o back)[i]) = i
  BY <1>1, <1>4, <1>5, ConcatProperties
<1>7. InOrder(front \o back)
  BY <1>6 DEF InOrder
<1> QED
  BY <1>7 DEF Extended, front, back
-----------------------------------------------------------------------------
LEMMA InitTypes == Init => Types
  BY DEF Init, Types, NoCapsule

LEMMA StepTypes == Types /\ [Next]_vars => Types'
<1> SUFFICES ASSUME Types, [Next]_vars
             PROVE  Types'
  OBVIOUS
<1>1. Bytes \subseteq Seq(Byte)
  <2>1. buffer \in Seq(Byte) /\ <<>> \in Seq(Byte)
    BY DEF Types
  <2>2. \A b \in PutRequest : Extended(b) \in Seq(Byte)
    BY ExtendedType
  <2> QED
    BY <2>1, <2>2 DEF Bytes
<1>2. \A code \in Bytes : Capsule(code) \in [code : Seq(Byte), trapped : BOOLEAN, present : BOOLEAN]
  BY <1>1 DEF Capsule
<1>3. NoCapsule \in [code : Seq(Byte), trapped : BOOLEAN, present : BOOLEAN]
  BY DEF NoCapsule
<1>4. ASSUME NEW p \in Path
      PROVE  [instances[p] EXCEPT !.trapped = TRUE]
                \in [code : Seq(Byte), trapped : BOOLEAN, present : BOOLEAN]
  BY DEF Types
<1>5. ASSUME NEW p \in Path
      PROVE  instances'[p] \in [code : Seq(Byte), trapped : BOOLEAN, present : BOOLEAN]
  <2>1. \/ instances'[p] = instances[p]
        \/ instances'[p] = NoCapsule
        \/ instances'[p] = [instances[p] EXCEPT !.trapped = TRUE]
        \/ \E code \in Bytes : instances'[p] = Capsule(code)
    BY StepBytes
  <2>2. instances[p] \in [code : Seq(Byte), trapped : BOOLEAN, present : BOOLEAN]
    BY DEF Types
  <2> QED
    BY <1>2, <1>3, <1>4, <2>1, <2>2
<1>6. DOMAIN instances' = Path /\ buffer' \in Seq(Byte)
  BY <1>1, StepBytes
<1> QED
  BY <1>5, <1>6 DEF Types

(* The buffer and every instance are made of bytes that are at their place   *)
(* in the image they come from, whatever paths honest clients name and       *)
(* whatever is lost, repeated or mixed.                                      *)
THEOREM InPlaceHolds ==
  ASSUME HonestClients
  PROVE  Spec => []InPlace
<1>1. Init => InPlace
  BY DEF Init, InPlace, NoCapsule
<1>2. ASSUME Types, InPlace, [Next]_vars
      PROVE  InPlace'
  <2>1. ASSUME NEW bytes \in Bytes
        PROVE  InOrder(bytes)
    BY <1>2, ExtendedInOrder DEF Bytes, InPlace, InOrder
  <2>2. ASSUME NEW p \in Path
        PROVE  InOrder(instances'[p].code)
    <3>1. InOrder(instances[p].code) /\ InOrder(NoCapsule.code)
      BY <1>2 DEF InPlace, InOrder, NoCapsule
    <3>2. [instances[p] EXCEPT !.trapped = TRUE].code = instances[p].code
      BY <1>2 DEF Types
    <3>3. \A code \in Bytes : Capsule(code).code = code
      BY DEF Capsule
    <3> QED
      BY <1>2, <2>1, <3>1, <3>2, <3>3, StepBytes
  <2>3. InOrder(buffer')
    BY <1>2, <2>1, StepBytes
  <2> QED
    BY <2>2, <2>3 DEF InPlace, InOrder
<1> QED
  BY <1>1, <1>2, InitTypes, StepTypes, PTL DEF Spec

(* A request that names one path changes nothing at any other path.          *)
THEOREM PathsIndependentHolds == Spec => PathsIndependent
<1>1. ASSUME Types, [Next]_vars, NEW q \in Path, instances'[q] # instances[q]
      PROVE  last'.path = q
  <2>1. ASSUME NEW path \in Path, Delete(path) \/ GetFails(path)
        PROVE  last'.path = q
    BY <1>1, <2>1 DEF Types, Delete, GetFails, Answer
  <2>2. ASSUME NEW path \in Path, NEW b \in PutRequest, Put(path, b)
        PROVE  last'.path = q
    <3>1. last'.path = path
      BY <2>2 DEF Put, PutReserved, PutIncomplete, PutTooLarge, PutContinue, PutCreated,
                  PutBadImage, Answer
    <3>2. \/ instances' = instances
          \/ instances' = BegunInstances(path, b)
          \/ instances' = [BegunInstances(path, b) EXCEPT ![path] = Capsule(Extended(b))]
      BY <2>2 DEF Put, PutReserved, PutIncomplete, PutTooLarge, PutContinue, PutCreated, PutBadImage
    <3>3. q # path => instances'[q] = instances[q]
      BY <1>1, <3>2, BegunElsewhere, BegunTypes
    <3> QED
      BY <1>1, <3>1, <3>3
  <2> QED
    BY <1>1, <2>1, <2>2 DEF Next, Get, GetAbsent, GetResult, BadRequestLine, vars
<1>2. Types /\ [Next]_vars
        => [\A p \in Path : instances'[p] # instances[p] => last'.path = p]_vars
  BY <1>1
<1> QED
  BY <1>2, InitTypes, StepTypes, PTL DEF Spec, PathsIndependent
-----------------------------------------------------------------------------
CapsuleType == [code : Seq(Byte), trapped : BOOLEAN, present : BOOLEAN]

LEMMA BegunInstancesType ==
  ASSUME TypeOK, NEW path \in Path, NEW b \in PutRequest
  PROVE  /\ BegunInstances(path, b) \in [Path -> CapsuleType]
         /\ Extended(b) \in Seq(Byte)
         /\ BegunBuffer(b) \in Seq(Byte)
<1>1. Types
  BY DEF TypeOK, Types
<1>2. NoCapsule \in CapsuleType
  BY DEF NoCapsule, CapsuleType
<1>3. BegunInstances(path, b) \in [Path -> CapsuleType]
  BY <1>2 DEF BegunInstances, TypeOK, CapsuleType
<1>4. buffer \in Seq(Byte) /\ <<>> \in Seq(Byte)
  BY DEF TypeOK
<1>5. Extended(b) \in Seq(Byte) /\ BegunBuffer(b) \in {<<>>, buffer}
  BY <1>1, ExtendedType
<1>6. BegunBuffer(b) \in Seq(Byte)
  BY <1>4, <1>5
<1> QED
  BY <1>3, <1>5, <1>6

(* An answer has the type of last, whatever was asked.                       *)
LEMMA AnswerType ==
  ASSUME NEW op \in {"none", "bad", "put", "get", "delete"}, NEW path \in Path,
         NEW b \in PutRequest \cup {NoBlock}, NEW code \in Code, Answer(op, path, b, code)
  PROVE  last' \in Answered
  BY DEF Answer, Answered

LEMMA StepTypeOK == TypeOK /\ [Next]_vars => TypeOK'
<1> SUFFICES ASSUME TypeOK, [Next]_vars
             PROVE  TypeOK'
  OBVIOUS
<1>0. /\ instances \in [Path -> CapsuleType]
      /\ buffer \in Seq(Byte) /\ <<>> \in Seq(Byte)
      /\ NoCapsule \in CapsuleType
  BY DEF TypeOK, CapsuleType, NoCapsule
<1>1. ASSUME NEW path \in Path, NEW code \in Code, BadRequestLine(path, code)
      PROVE  TypeOK'
  BY <1>1, AnswerType DEF BadRequestLine, TypeOK
<1>2. ASSUME NEW path \in Path, Delete(path)
      PROVE  TypeOK'
  <2>1. last' \in Answered
    BY <1>2, AnswerType DEF Delete, Code, Deleted
  <2>2. instances' \in [Path -> CapsuleType]
    BY <1>0, <1>2 DEF Delete
  <2> QED
    BY <1>2, <2>1, <2>2 DEF Delete, TypeOK, CapsuleType
<1>3. ASSUME NEW path \in Path, Get(path)
      PROVE  TypeOK'
  <2>1. last' \in Answered
    BY <1>3, AnswerType DEF Get, GetAbsent, GetResult, GetFails, Code, NotFound, Content,
                            InternalServerError
  <2>2. [instances[path] EXCEPT !.trapped = TRUE] \in CapsuleType
    BY <1>0 DEF CapsuleType
  <2>3. instances' \in [Path -> CapsuleType]
    BY <1>0, <1>3, <2>2 DEF Get, GetAbsent, GetResult, GetFails
  <2> QED
    BY <1>3, <2>1, <2>3 DEF Get, GetAbsent, GetResult, GetFails, TypeOK, CapsuleType
<1>4. ASSUME NEW path \in Path, NEW b \in PutRequest, Put(path, b)
      PROVE  TypeOK'
  <2>1. last' \in Answered
    BY <1>4, AnswerType DEF Put, PutReserved, PutIncomplete, PutTooLarge, PutContinue, PutCreated,
                            PutBadImage, Code, BadRequest, Incomplete, TooLarge, Continue, Created
  <2>2. Capsule(Extended(b)) \in CapsuleType
    BY BegunInstancesType DEF Capsule, CapsuleType
  <2>3. instances' \in [Path -> CapsuleType]
    BY <1>0, <1>4, <2>2, BegunInstancesType
       DEF Put, PutReserved, PutIncomplete, PutTooLarge, PutContinue, PutCreated, PutBadImage
  <2>4. buffer' \in {buffer, <<>>, BegunBuffer(b), Extended(b)}
    BY <1>4 DEF Put, PutReserved, PutIncomplete, PutTooLarge, PutContinue, PutCreated, PutBadImage
  <2>5. buffer' \in Seq(Byte)
    BY <1>0, <2>4, BegunInstancesType
  <2> QED
    BY <2>1, <2>3, <2>5 DEF TypeOK, CapsuleType
<1>5. CASE UNCHANGED vars
  BY <1>5 DEF vars, TypeOK
<1> QED
  BY <1>1, <1>2, <1>3, <1>4, <1>5 DEF Next

(* Every variable keeps the shape the Rust types give it.                    *)
THEOREM TypeCorrect == Spec => []TypeOK
<1>1. Init => TypeOK
  BY DEF Init, TypeOK, NoCapsule, Answered
<1> QED
  BY <1>1, StepTypeOK, PTL DEF Spec

(* What an answer to an upload tells the peer is what is at the path.        *)
THEOREM AnswersTruthfulHolds == Spec => []AnswersTruthful
<1>1. Init => AnswersTruthful
  BY DEF Init, AnswersTruthful
<1>2. ASSUME Types, AnswersTruthful, [Next]_vars
      PROVE  AnswersTruthful'
  <2>1. ASSUME NEW path \in Path, Delete(path) \/ Get(path) \/ \E code \in Code : BadRequestLine(path, code)
        PROVE  AnswersTruthful'
    <3>1. last'.op # "put"
      BY <2>1 DEF Delete, Get, GetAbsent, GetResult, GetFails, BadRequestLine, Answer
    <3> QED
      BY <3>1 DEF AnswersTruthful
  <2>2. ASSUME NEW path \in Path, NEW b \in PutRequest, Put(path, b)
        PROVE  AnswersTruthful'
    <3>1. CASE PutContinue(path, b)
      <4>1. /\ instances' = BegunInstances(path, b)
            /\ last' = [op |-> "put", path |-> path, block |-> b, code |-> Continue]
        BY <3>1 DEF PutContinue, Answer
      <4>2. Offset(b) = 0 => BegunInstances(path, b)[path] = NoCapsule
        BY <1>2 DEF BegunInstances, Types
      <4> QED
        BY <4>1, <4>2 DEF AnswersTruthful, NoCapsule, Continue, Created
    <3>2. CASE PutCreated(path, b)
      <4>1. /\ instances'[path] = Capsule(Extended(b)) /\ buffer' = <<>>
            /\ last' = [op |-> "put", path |-> path, block |-> b, code |-> Created]
        BY <1>2, <3>2, BegunTypes DEF PutCreated, Answer
      <4> QED
        BY <4>1 DEF AnswersTruthful, Capsule, Continue, Created
    <3>3. CASE ~PutContinue(path, b) /\ ~PutCreated(path, b)
      <4>1. last'.code \notin {Continue, Created}
        BY <2>2, <3>3 DEF Put, PutReserved, PutIncomplete, PutTooLarge, PutBadImage, Answer,
                          Continue, Created, BadRequest, Incomplete, TooLarge
      <4> QED
        BY <4>1 DEF AnswersTruthful
    <3> QED
      BY <3>1, <3>2, <3>3
  <2>3. CASE UNCHANGED vars
    BY <1>2, <2>3 DEF vars, AnswersTruthful
  <2> QED
    BY <1>2, <2>1, <2>2, <2>3 DEF Next
<1> QED
  BY <1>1, <1>2, InitTypes, StepTypes, PTL DEF Spec

(* A capsule leaves its path only for a DELETE or an upload that asks for    *)
(* it, and one that crashed stays crashed until then.                        *)
THEOREM CapsuleStaysHolds == Spec => CapsuleStays
<1> DEFINE Stays(p) == \/ last'.op = "delete"
                       \/ last'.op = "put" /\ (Offset(last'.block) = 0 \/ last'.code = Created)
                       \/ /\ instances'[p].present /\ instances'[p].code = instances[p].code
                          /\ instances[p].trapped => instances'[p].trapped
<1>1. ASSUME Types, [Next]_vars, NEW p \in Path, instances[p].present
      PROVE  Stays(p)
  <2>1. CASE UNCHANGED instances
    BY <1>1, <2>1
  <2>2. ASSUME NEW path \in Path, Delete(path)
        PROVE  Stays(p)
    BY <2>2 DEF Delete, Answer
  <2>3. ASSUME NEW path \in Path, GetFails(path)
        PROVE  Stays(p)
    BY <1>1, <2>3 DEF GetFails, Types
  <2>4. ASSUME NEW path \in Path, NEW b \in PutRequest, Put(path, b)
        PROVE  Stays(p)
    <3>1. last'.op = "put" /\ last'.block = b
      BY <2>4 DEF Put, PutReserved, PutIncomplete, PutTooLarge, PutContinue, PutCreated,
                  PutBadImage, Answer
    <3>2. CASE Offset(b) = 0
      BY <3>1, <3>2
    <3>3. CASE PutCreated(path, b)
      BY <3>1, <3>3 DEF PutCreated, Answer
    <3>4. CASE Offset(b) # 0 /\ ~PutCreated(path, b)
      <4>1. instances' = instances
        BY <2>4, <3>4 DEF Put, PutReserved, PutIncomplete, PutTooLarge, PutContinue, PutBadImage,
                          BegunInstances
      <4> QED
        BY <2>1, <4>1
    <3> QED
      BY <3>2, <3>3, <3>4
  <2> QED
    BY <1>1, <2>1, <2>2, <2>3, <2>4 DEF Next, Get, GetAbsent, GetResult, BadRequestLine, vars
<1>2. Types /\ [Next]_vars => [\A p \in Path : instances[p].present => Stays(p)]_vars
  BY <1>1
<1> QED
  BY <1>2, InitTypes, StepTypes, PTL DEF Spec, CapsuleStays

(* A peer that is told 2.31 can go on: the buffer ends where the next block  *)
(* of the size it uses begins, if no block reaches the end of the range of   *)
(* offsets (4 GB in the code).                                               *)
THEOREM ContinueCanContinueHolds ==
  ASSUME \A b \in PutRequest : BlockStart(b) + Len(b.payload) < WordSize
  PROVE  Spec => []ContinueCanContinue
<1>1. Init => ContinueCanContinue
  BY DEF Init, ContinueCanContinue, Continue
<1>2. ASSUME Types, ContinueCanContinue, [Next]_vars
      PROVE  ContinueCanContinue'
  <2>1. ASSUME NEW path \in Path, NEW b \in PutRequest, PutContinue(path, b)
        PROVE  ContinueCanContinue'
    <3> DEFINE size == BlockSize(b.szx)
               next == [b EXCEPT !.num = @ + 1]
    <3>1. /\ b \in PutType(Byte)
          /\ b.num \in Nat /\ b.szx \in 0..7 /\ b.payload \in Seq(Byte)
      BY SandboxAssumption DEF PutType
    <3>2. size \in Nat /\ WordSize \in Nat /\ WordSize > 0
      <4>1. <<1, 2, 4, 8, 16, 32, 64, 128>>[b.szx + 1] \in Nat
        BY <3>1
      <4> QED
        BY <4>1, Block1Assumption DEF BlockSize
    <3>3. next.num = b.num + 1 /\ next.szx = b.szx
      BY <3>1 DEF PutType
    <3>4. Len(b.payload) = size /\ Len(BegunBuffer(b)) = (b.num * size) % WordSize
      BY <2>1 DEF PutContinue, Fits, Offset, BlockStart
    <3>5. BlockStart(next) = (b.num + 1) * size
      BY <3>3 DEF BlockStart
    <3> HIDE DEF size
    <3>6. b.num * size \in Nat /\ (b.num + 1) * size = b.num * size + size
      BY <3>1, <3>2
    <3>7. b.num * size + size < WordSize
      BY <3>4 DEF BlockStart, size
    <3>8. (b.num * size) % WordSize = b.num * size
      BY <3>2, <3>6, <3>7
    <3>9. BlockStart(next) % WordSize = b.num * size + size
      BY <3>2, <3>5, <3>6, <3>7
    <3>10. Len(Extended(b)) = b.num * size + size
      <4>1. BegunBuffer(b) \in Seq(Byte)
        BY <1>2 DEF Types, BegunBuffer
      <4>2. Len(Extended(b)) = Len(BegunBuffer(b)) + Len(b.payload)
        BY <3>1, <4>1, ConcatProperties DEF Extended
      <4> QED
        BY <3>4, <3>8, <4>2
    <3>11. buffer' = Extended(b) /\ last'.block = b
      BY <2>1 DEF PutContinue, Answer
    <3> QED
      BY <3>9, <3>10, <3>11 DEF ContinueCanContinue, next
  <2>2. CASE UNCHANGED vars
    BY <1>2, <2>2 DEF vars, ContinueCanContinue
  <2>3. ASSUME NEW path \in Path, NEW b \in PutRequest, Put(path, b), ~PutContinue(path, b)
        PROVE  last'.code # Continue
    BY <2>3 DEF Put, PutReserved, PutIncomplete, PutTooLarge, PutCreated, PutBadImage, Answer,
                Continue, Created, BadRequest, Incomplete, TooLarge
  <2>4. ASSUME NEW path \in Path, Delete(path) \/ Get(path)
        PROVE  last'.code # Continue
    BY <2>4 DEF Delete, Get, GetAbsent, GetResult, GetFails, Answer, Continue,
                Deleted, NotFound, Content, InternalServerError
  <2>5. ASSUME NEW path \in Path, NEW code \in Code, BadRequestLine(path, code)
        PROVE  last'.code # Continue
    BY <2>5 DEF BadRequestLine, Answer, Continue, NotFound, BadOption, Forbidden, MethodNotAllowed
  <2> QED
    BY <1>2, <2>1, <2>2, <2>3, <2>4, <2>5 DEF Next, ContinueCanContinue
<1> QED
  BY <1>1, <1>2, InitTypes, StepTypes, PTL DEF Spec
=============================================================================
