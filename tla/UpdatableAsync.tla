--------------------------- MODULE UpdatableAsync ---------------------------
(* examples/updatable-async: coap_task takes uploads and DELETEs and hands   *)
(* them to runner_task through the static Signal UPDATE, a slot whose last   *)
(* value wins; runner_task runs one capsule at a time until it finishes or   *)
(* an update arrives.                                                        *)
(*                                                                           *)
(* Both tasks live on one cooperative executor: a step is what one task does *)
(* between two awaits.  A capsule gives the executor back only by calling an *)
(* asynchronous host function (sleep); one that does not keeps it for ever.  *)
EXTENDS CoapBlock1

CONSTANTS Byte,           \* the values a byte of a program takes
          InitialPayload, \* async-payload.cwasm, included in the firmware
          PutRequest      \* the blocks that peers may send

ASSUME UpdatableAssumption ==
  InitialPayload \in Seq(Byte) /\ PutRequest \subseteq PutType(Byte)

VARIABLES program,  \* VmControl::program, the upload under way
          update,   \* the Signal UPDATE
          runner,   \* where runner_task is
          payload,  \* the image runner_task runs or ran last
          command   \* history: the update signalled last

vars == <<program, update, runner, payload, command>>

Nothing == [kind |-> "nothing", image |-> <<>>]
Stop == [kind |-> "stop", image |-> <<>>]
Install(image) == [kind |-> "install", image |-> image]
Update == [kind : {"nothing", "stop", "install"}, image : Seq(Byte)]

(* starting: instantiate_async is awaited; running: select awaits the update *)
(* and the capsule; waiting: wait_for_payload; hogged: the capsule computes  *)
(* and never yields; panicked: an unwrap of the runner failed.               *)
Runner == {"starting", "running", "waiting", "hogged", "panicked"}

TypeOK ==
  /\ program \in Seq(Byte)
  /\ update \in Update /\ command \in Update
  /\ runner \in Runner
  /\ payload \in Seq(Byte)

\* the first pass of the loop of runner_task has deserialized the payload in
\* flash; make_engine and the linker are set up before it
Init ==
  /\ program = <<>>
  /\ update = Nothing
  /\ runner = "starting"
  /\ payload = InitialPayload
  /\ command = Install(InitialPayload)
-----------------------------------------------------------------------------
(* coap_task: VmControl::extract_request_data.  It runs when the runner      *)
(* awaits.                                                                   *)
ExecutorFree == runner \notin {"hogged", "panicked"}

\* deviation: a signal does not replace one that is still waiting
SignalKeepingFirst(msg) ==
  /\ update' = IF update = Nothing THEN msg ELSE update
  /\ command' = msg

\* Signal::signal: an update that was not taken yet is dropped
Signal(msg) == update' = msg /\ command' = msg

Delete ==
  /\ ExecutorFree
  /\ program' = <<>>
  /\ Signal(Stop)
  /\ UNCHANGED <<runner, payload>>

Begun(b) == IF Offset(b) = 0 THEN <<>> ELSE program

\* deviation: the position of a block is not looked at
FitsAnywhere(b) == TRUE

Fits(b) == Len(Begun(b)) = Offset(b)

\* deviation: push in the place of extend_from_slice
ExtendedByPush(b) == Append(Begun(b), b.payload)

Extended(b) == Begun(b) \o b.payload

\* 4.08, or 5.00 if try_reserve_exact fails
PutRefused(b) ==
  /\ ExecutorFree
  /\ Fits(b) => b.payload # <<>>
  /\ program' = Begun(b)
  /\ UNCHANGED <<update, runner, payload, command>>

PutContinue(b) ==
  /\ ExecutorFree
  /\ Fits(b) /\ b.more
  /\ program' = Extended(b)
  /\ UNCHANGED <<update, runner, payload, command>>

\* the last block: the buffer is taken and signalled as a whole
PutInstall(b) ==
  /\ ExecutorFree
  /\ Fits(b) /\ ~b.more
  /\ program' = <<>>
  /\ Signal(Install(Extended(b)))
  /\ UNCHANGED <<runner, payload>>

Put(b) == PutRefused(b) \/ PutContinue(b) \/ PutInstall(b)
-----------------------------------------------------------------------------
(* runner_task.                                                              *)

\* deviation: an install is only taken while nothing runs
TakeInstallWaiting ==
  /\ runner = "waiting"
  /\ update.kind = "install"
  /\ update' = Nothing
  /\ payload' = update.image
  /\ runner' \in {"starting", "panicked"}
  /\ UNCHANGED <<program, command>>

(* The runner is polled with an update: run_payload returns it and drops the *)
(* capsule, or wait_for_payload does.  For an image, the next pass of the    *)
(* loop deserializes it before it awaits anything; a bad one panics.         *)
TakeInstall ==
  /\ runner \in {"running", "waiting"}
  /\ update.kind = "install"
  /\ update' = Nothing
  /\ payload' = update.image
  /\ runner' \in {"starting", "panicked"}
  /\ UNCHANGED <<program, command>>

\* wait_for_payload goes on waiting; run_payload returns None to the loop,
\* which waits
TakeStop ==
  /\ runner \in {"running", "waiting"}
  /\ update.kind = "stop"
  /\ update' = Nothing
  /\ runner' = "waiting"
  /\ UNCHANGED <<program, payload, command>>

\* instantiate_async is done, well or not
Started ==
  /\ runner = "starting"
  /\ runner' \in {"running", "panicked"}
  /\ UNCHANGED <<program, update, payload, command>>

\* deviation: select polls the capsule before the update
CapsulePolledFirst == runner = "running"

\* select polls the update before the capsule
CapsulePolled == runner = "running" /\ update = Nothing

CapsuleFinishes ==
  /\ CapsulePolled
  /\ runner' = "waiting"
  /\ UNCHANGED <<program, update, payload, command>>

\* a capsule that never yields again, in run or when it is instantiated
CapsuleHogs ==
  /\ CapsulePolled \/ runner = "starting"
  /\ runner' = "hogged"
  /\ UNCHANGED <<program, update, payload, command>>

CoapTask == Delete \/ \E b \in PutRequest : Put(b)

RunnerTask == TakeInstall \/ TakeStop \/ Started \/ CapsuleFinishes \/ CapsuleHogs

Next == CoapTask \/ RunnerTask

Spec == Init /\ [][Next]_vars

(* The executor polls a task that was woken: the signal wakes the runner     *)
(* that awaits it, and an instantiation that is not hogged ends.  Nothing    *)
(* makes a capsule finish or a peer send.                                    *)
RunnerPolled == TakeInstall \/ TakeStop \/ Started

Fairness == WF_vars(RunnerPolled)

FairSpec == Spec /\ Fairness
-----------------------------------------------------------------------------
HonestClients == \A b \in PutRequest : Honest(b)

(* Whatever the order in which the tasks run, the runner obeys the update    *)
(* that was signalled last once none is waiting: after a stop nothing runs,  *)
(* after an install the image is that one.  Updates that were overtaken are  *)
(* dropped, never applied late.                                              *)
ObeysLastUpdate ==
  update = Nothing =>
    /\ command.kind = "stop" => runner = "waiting"
    /\ command.kind = "install" => payload = command.image

(* The two tasks implement LatestUpdate.  What runs is the image of a runner *)
(* that starts or polls a capsule, or of one that is hogged; an update is    *)
(* open while it waits in the signal, whoever put it there and however many  *)
(* went before it.                                                           *)
Latest == INSTANCE LatestUpdate WITH
  Image  <- Seq(Byte),
  wanted <- IF command.kind = "install" THEN {command.image} ELSE {},
  open   <- update # Nothing,
  active <- IF runner \in {"starting", "running", "hogged"} THEN {payload} ELSE {},
  up     <- runner # "panicked"

(* However uploads, DELETEs, the runner and the capsule interleave, the      *)
(* device does what it was told last: an update that was overtaken is never  *)
(* obeyed, nothing runs that was not told to, the end of a capsule is never  *)
(* taken for that of one that is to replace it, and a device that has        *)
(* nothing to start does not fail.                                           *)
LatestUpdateImplemented == Latest!Spec

(* Every image that is signalled, taken or being uploaded is made of bytes   *)
(* at their place, if the peers are honest.                                  *)
InPlace ==
  /\ \A i \in DOMAIN program : At(program[i]) = i
  /\ \A i \in DOMAIN update.image : At(update.image[i]) = i
  /\ \A i \in DOMAIN payload : At(payload[i]) = i

(* An update is taken in the end, unless a capsule hogs the executor or a    *)
(* bad image panics the runner first; that the capsule runs on is no excuse. *)
UpdatesTaken ==
  update # Nothing ~> (update = Nothing \/ runner \in {"hogged", "panicked"})
=============================================================================
