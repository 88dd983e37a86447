------------------------ MODULE UpdatableAsyncProofs ------------------------
(* Theorems about UpdatableAsync, for every set of images and requests.      *)
EXTENDS UpdatableAsync, SequenceTheorems, TLAPS

(* The inductive invariant.  An update that waits is the one signalled last, *)
(* so the one that is taken is the last one; the property itself says what   *)
(* the runner has made of it.                                                *)
WaitingIsLast == update # Nothing => update = command

IInv == WaitingIsLast /\ ObeysLastUpdate
-----------------------------------------------------------------------------
LEMMA InitIInv == Init => IInv
  BY DEF Init, IInv, WaitingIsLast, ObeysLastUpdate, Install

LEMMA StepIInv == IInv /\ [Next]_vars => IInv'
<1> SUFFICES ASSUME IInv, [Next]_vars
             PROVE  IInv'
  OBVIOUS
<1>0. /\ Nothing.kind = "nothing" /\ Stop.kind = "stop"
      /\ \A image : Install(image).kind = "install"
  BY DEF Nothing, Stop, Install
<1>1. ASSUME NEW msg, msg.kind # "nothing", Signal(msg)
      PROVE  IInv'
  <2>1. update' # Nothing /\ update' = command'
    BY <1>0, <1>1 DEF Signal
  <2> QED
    BY <2>1 DEF IInv, WaitingIsLast, ObeysLastUpdate
<1>2. CASE Delete
  BY <1>0, <1>1, <1>2 DEF Delete
<1>3. ASSUME NEW b \in PutRequest, PutInstall(b)
      PROVE  IInv'
  BY <1>0, <1>1, <1>3 DEF PutInstall
<1>4. ASSUME NEW b \in PutRequest, PutRefused(b) \/ PutContinue(b)
      PROVE  IInv'
  BY <1>4 DEF PutRefused, PutContinue, IInv, WaitingIsLast, ObeysLastUpdate
<1>5. CASE TakeInstall
  <2>1. update # Nothing
    BY <1>0, <1>5 DEF TakeInstall
  <2>2. command = update /\ command' = command
    BY <1>5, <2>1 DEF TakeInstall, IInv, WaitingIsLast
  <2>3. update' = Nothing /\ payload' = command.image /\ command.kind = "install"
    BY <1>5, <2>2 DEF TakeInstall
  <2> QED
    BY <2>2, <2>3 DEF IInv, WaitingIsLast, ObeysLastUpdate
<1>6. CASE TakeStop
  <2>1. update # Nothing
    BY <1>0, <1>6 DEF TakeStop
  <2>2. command = update /\ command' = command
    BY <1>6, <2>1 DEF TakeStop, IInv, WaitingIsLast
  <2>3. update' = Nothing /\ runner' = "waiting" /\ command.kind = "stop"
    BY <1>6, <2>2 DEF TakeStop
  <2> QED
    BY <2>2, <2>3 DEF IInv, WaitingIsLast, ObeysLastUpdate
<1>7. CASE Started
  BY <1>7 DEF Started, IInv, WaitingIsLast, ObeysLastUpdate
<1>8. CASE CapsuleFinishes
  BY <1>8 DEF CapsuleFinishes, CapsulePolled, IInv, WaitingIsLast, ObeysLastUpdate
<1>9. CASE CapsuleHogs
  BY <1>9 DEF CapsuleHogs, CapsulePolled, IInv, WaitingIsLast, ObeysLastUpdate
<1>10. CASE UNCHANGED vars
  BY <1>10 DEF vars, IInv, WaitingIsLast, ObeysLastUpdate
<1> QED
  BY <1>2, <1>3, <1>4, <1>5, <1>6, <1>7, <1>8, <1>9, <1>10
     DEF Next, CoapTask, RunnerTask, Put

(* Whatever the order in which the two tasks run, once no update is waiting  *)
(* the runner has made of the last one what it asked for.                    *)
THEOREM ObeysLastUpdateHolds == Spec => []ObeysLastUpdate
<1>1. IInv => ObeysLastUpdate
  BY DEF IInv
<1> QED
  BY <1>1, InitIInv, StepIInv, PTL DEF Spec
-----------------------------------------------------------------------------
(* Types: the buffer grows by payloads only, and what is signalled is it.    *)
LEMMA BlockTypes ==
  ASSUME TypeOK, NEW b \in PutRequest
  PROVE  /\ b.payload \in Seq(Byte) /\ Begun(b) \in Seq(Byte) /\ Extended(b) \in Seq(Byte)
         /\ Install(Extended(b)) \in Update
<1>1. b.payload \in Seq(Byte)
  BY UpdatableAssumption DEF PutType
<1>2. Begun(b) \in Seq(Byte)
  BY DEF Begun, TypeOK
<1>3. Extended(b) \in Seq(Byte)
  BY <1>1, <1>2, ConcatProperties DEF Extended
<1> QED
  BY <1>1, <1>2, <1>3 DEF Install, Update

LEMMA StepTypeOK == TypeOK /\ [Next]_vars => TypeOK'
<1> SUFFICES ASSUME TypeOK, [Next]_vars
             PROVE  TypeOK'
  OBVIOUS
<1>0. <<>> \in Seq(Byte) /\ Nothing \in Update /\ Stop \in Update
  BY DEF Nothing, Stop, Update
<1>1. CASE Delete
  BY <1>0, <1>1 DEF Delete, Signal, TypeOK
<1>2. ASSUME NEW b \in PutRequest, Put(b)
      PROVE  TypeOK'
  BY <1>0, <1>2, BlockTypes DEF Put, PutRefused, PutContinue, PutInstall, Signal, TypeOK
<1>3. CASE TakeInstall \/ TakeStop
  BY <1>0, <1>3 DEF TakeInstall, TakeStop, TypeOK, Update, Runner
<1>4. CASE Started \/ CapsuleFinishes \/ CapsuleHogs
  BY <1>4 DEF Started, CapsuleFinishes, CapsuleHogs, TypeOK, Runner
<1>5. CASE UNCHANGED vars
  BY <1>5 DEF vars, TypeOK
<1> QED
  BY <1>1, <1>2, <1>3, <1>4, <1>5 DEF Next, CoapTask, RunnerTask

(* Every variable keeps the shape the Rust types give it.                    *)
THEOREM TypeCorrect == Spec => []TypeOK
<1>1. Init => TypeOK
  BY UpdatableAssumption DEF Init, TypeOK, Nothing, Install, Update, Runner
<1> QED
  BY <1>1, StepTypeOK, PTL DEF Spec
-----------------------------------------------------------------------------
(* Refinement, after the types: every step of the two tasks is a step of     *)
(* LatestUpdate or a stutter.                                                *)
LEMMA LatestInit == Init => Latest!Init
<1> SUFFICES ASSUME Init
             PROVE  Latest!Init
  OBVIOUS
<1>1. /\ command.kind = "install" /\ command.image = payload
      /\ update = Nothing /\ runner = "starting" /\ payload \in Seq(Byte)
  BY UpdatableAssumption DEF Init, Install
<1> QED
  BY <1>1 DEF Latest!Init, Latest!AtMostOne

(* A signal of either task is the last word.                                 *)
LEMMA SignalTells ==
  ASSUME NEW msg \in Update, msg.kind # "nothing", ExecutorFree, Signal(msg),
         UNCHANGED <<runner, payload>>
  PROVE  Latest!Tell
<1>1. command' = msg /\ update' = msg /\ runner # "panicked" /\ msg.image \in Seq(Byte)
  BY DEF Signal, ExecutorFree, Update
<1>2. update' # Nothing
  BY <1>1 DEF Nothing
<1> QED
  BY <1>1, <1>2 DEF Latest!Tell, Latest!AtMostOne

LEMMA LatestStep ==
  ASSUME TypeOK, IInv, [Next]_vars
  PROVE  [Latest!Next]_(Latest!vars)
<1>0. /\ Nothing.kind = "nothing" /\ Stop.kind = "stop" /\ Stop \in Update
      /\ \A image : Install(image).kind = "install"
  BY DEF Nothing, Stop, Install, Update
<1>1. CASE Delete
  BY <1>0, <1>1, SignalTells DEF Delete, Latest!Next
<1>2. ASSUME NEW b \in PutRequest, PutInstall(b)
      PROVE  Latest!Tell
  BY <1>0, <1>2, SignalTells, BlockTypes DEF PutInstall
<1>3. ASSUME NEW b \in PutRequest, PutRefused(b) \/ PutContinue(b)
      PROVE  UNCHANGED Latest!vars
  BY <1>3 DEF PutRefused, PutContinue, Latest!vars
<1>4. ASSUME TakeInstall \/ TakeStop
      PROVE  update # Nothing /\ update = command
  <2>1. update # Nothing
    BY <1>0, <1>4 DEF TakeInstall, TakeStop
  <2> QED
    BY <2>1 DEF IInv, WaitingIsLast
<1>5. CASE TakeInstall
  <2>1. /\ update # Nothing /\ command.kind = "install" /\ payload' = command.image
        /\ update' = Nothing /\ command' = command /\ runner # "panicked"
    BY <1>4, <1>5 DEF TakeInstall
  <2>2. CASE runner' = "starting"
    <3>1. Latest!Obey
      BY <2>1, <2>2 DEF Latest!Obey
    <3> QED
      BY <3>1 DEF Latest!Next
  <2>3. CASE runner' = "panicked"
    <3>1. Latest!Fail
      BY <2>1, <2>3 DEF Latest!Fail
    <3> QED
      BY <3>1 DEF Latest!Next
  <2> QED
    BY <1>5, <2>2, <2>3 DEF TakeInstall
<1>6. CASE TakeStop
  <2>1. /\ update # Nothing /\ command.kind = "stop" /\ runner' = "waiting"
        /\ update' = Nothing /\ command' = command /\ runner # "panicked"
    BY <1>4, <1>6 DEF TakeStop
  <2>2. Latest!Obey
    BY <2>1 DEF Latest!Obey
  <2> QED
    BY <2>2 DEF Latest!Next
<1>7. CASE Started
  <2>1. CASE runner' = "running"
    BY <1>7, <2>1 DEF Started, Latest!vars
  <2>2. CASE runner' = "panicked"
    <3>1. Latest!Fail
      BY <1>7, <2>2 DEF Started, Latest!Fail
    <3> QED
      BY <3>1 DEF Latest!Next
  <2> QED
    BY <1>7, <2>1, <2>2 DEF Started
<1>8. CASE CapsuleFinishes
  <2>1. Latest!End
    BY <1>8 DEF CapsuleFinishes, CapsulePolled, Latest!End
  <2> QED
    BY <2>1 DEF Latest!Next
<1>9. CASE CapsuleHogs
  BY <1>9 DEF CapsuleHogs, CapsulePolled, Latest!vars
<1>10. CASE UNCHANGED vars
  BY <1>10 DEF vars, Latest!vars
<1> QED
  BY <1>1, <1>2, <1>3, <1>5, <1>6, <1>7, <1>8, <1>9, <1>10
     DEF Next, CoapTask, RunnerTask, Put, Latest!Next

(* The two tasks implement LatestUpdate: whatever the interleaving, the last *)
(* word counts.                                                              *)
THEOREM LatestUpdateImplementedHolds == Spec => LatestUpdateImplemented
<1>1. Spec => []IInv
  BY InitIInv, StepIInv, PTL DEF Spec
<1>2. TypeOK /\ IInv /\ [Next]_vars => [Latest!Next]_(Latest!vars)
  BY LatestStep
<1> QED
  BY <1>1, <1>2, LatestInit, TypeCorrect, PTL
     DEF Spec, Latest!Spec, LatestUpdateImplemented
-----------------------------------------------------------------------------
(* A block that fits ends the buffer in place: it begins where the buffer    *)
(* ends, which is where its bytes belong.                                    *)
LEMMA ExtendedInPlace ==
  ASSUME TypeOK, InPlace, NEW b \in PutRequest, Honest(b), Fits(b)
  PROVE  \A i \in DOMAIN Extended(b) : At(Extended(b)[i]) = i
<1> DEFINE p == Begun(b)
           q == b.payload
<1>1. p \in Seq(Byte) /\ q \in Seq(Byte)
  BY BlockTypes
<1>2. BlockStart(b) \in Nat /\ BlockStart(b) < WordSize
  <2>1. b.num \in Nat /\ b.szx \in 0..7
    BY UpdatableAssumption DEF PutType
  <2>2. <<1, 2, 4, 8, 16, 32, 64, 128>>[b.szx + 1] \in Nat
    BY <2>1
  <2>3. BlockSize(b.szx) \in Nat
    BY <2>2, Block1Assumption DEF BlockSize
  <2> QED
    BY <2>1, <2>3 DEF Honest, BlockStart
<1>3. Len(p) = BlockStart(b)
  BY <1>2, Block1Assumption DEF Fits, Offset
<1>4. \A i \in 1..Len(p) : At(p[i]) = i
  BY <1>1 DEF Begun, InPlace, TypeOK
<1>5. \A i \in 1..Len(q) : At(q[i]) = Len(p) + i
  BY <1>1, <1>3 DEF Honest
<1> HIDE DEF p, q
<1>6. \A i \in 1..Len(p \o q) : At((p \o q)[i]) = i
  BY <1>1, <1>4, <1>5
<1>7. DOMAIN (p \o q) = 1..Len(p \o q)
  BY <1>1
<1> QED
  BY <1>6, <1>7 DEF Extended, p, q

(* Every image that is uploaded, signalled or run is made of bytes at their  *)
(* places, however blocks are lost, repeated or mixed and whatever overtakes *)
(* what, if the peers are honest and the image in flash is in order.         *)
THEOREM InPlaceHolds ==
  ASSUME HonestClients, \A i \in DOMAIN InitialPayload : At(InitialPayload[i]) = i
  PROVE  Spec => []InPlace
<1>1. Init => InPlace
  BY DEF Init, InPlace, Nothing
<1>2. ASSUME TypeOK, InPlace, [Next]_vars
      PROVE  InPlace'
  <2>1. CASE Delete
    BY <1>2, <2>1 DEF Delete, Signal, Stop, InPlace
  <2>2. ASSUME NEW b \in PutRequest, PutRefused(b)
        PROVE  InPlace'
    BY <1>2, <2>2 DEF PutRefused, Begun, InPlace
  <2>3. ASSUME NEW b \in PutRequest, PutContinue(b)
        PROVE  InPlace'
    BY <1>2, <2>3, ExtendedInPlace DEF PutContinue, HonestClients, InPlace
  <2>4. ASSUME NEW b \in PutRequest, PutInstall(b)
        PROVE  InPlace'
    <3>1. update'.image = Extended(b) /\ program' = <<>> /\ payload' = payload
      BY <2>4 DEF PutInstall, Signal, Install
    <3>2. \A i \in DOMAIN Extended(b) : At(Extended(b)[i]) = i
      BY <1>2, <2>4, ExtendedInPlace DEF PutInstall, HonestClients
    <3> QED
      BY <1>2, <3>1, <3>2 DEF InPlace
  <2>5. CASE TakeInstall \/ TakeStop
    BY <1>2, <2>5 DEF TakeInstall, TakeStop, Nothing, InPlace
  <2>6. CASE Started \/ CapsuleFinishes \/ CapsuleHogs
    BY <1>2, <2>6 DEF Started, CapsuleFinishes, CapsuleHogs, InPlace
  <2>7. CASE UNCHANGED vars
    BY <1>2, <2>7 DEF vars, InPlace
  <2> QED
    BY <1>2, <2>1, <2>2, <2>3, <2>4, <2>5, <2>6, <2>7 DEF Next, CoapTask, Put, RunnerTask
<1> QED
  BY <1>1, <1>2, TypeCorrect, PTL DEF Spec
=============================================================================
