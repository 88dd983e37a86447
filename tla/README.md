# A verification development for trevm

trevm runs WebAssembly capsules (wasmtime components) on microcontrollers under
Ariel OS.  The Rust code of the repository is the *host* side: firmware examples
that receive capsules over CoAP or UDP, instantiate and run them, bindings
that give capsules access to logging, time, random numbers, sensors, GPIO and
UDP, and the tools that compile capsules for the firmware.  This directory holds TLA+ modules of that host code, configurations that
model-check them with TLC, and theorems that TLAPS checks.

Paths are relative to the root of the repository; `bindings/` stands for
`src/ariel-os-bindings/src/wasm/`.  What stands for which line is in
`PROJECT.json` ("map").

## 1. Inventory

| Component | Source | State it keeps | Operations | What is hard about it |
|---|---|---|---|---|
| Capsule slot | `bindings/coap/coap_server_guest.rs`, `coap_traits.rs` | `WasmHandler`: a state (`Running`, `NotRunning`, `Taken`), the program bytes an instance may be executing from, the paths a capsule reported | `start_from_static`, `start_from_dynamic`, their `start_ff_` variants, `stop`, `mutate_program` | wasmtime executes from bytes the network can write; starting replaces the state in two steps with `?` and `unwrap` between them |
| Upload to `/vm-control` | `examples/{persistent,ephemeral}-*/src/main.rs` | the program bytes so far | one PUT per block, DELETE | lost, repeated, late and mixed blocks; no identity of an upload; wrapping offset; allocation failing in between |
| Persistent CoAP server | `examples/persistent-{with,no}-bindings` | the slot, shared by `/vm` and `/vm-control` through a `RefCell` | boot, forward a request to the capsule, replace the capsule | traps, crashing starts, replacement while running |
| Ephemeral CoAP server | `examples/ephemeral-{with,no}-bindings` | the slot, `NotRunning` between requests | boot, run an uploaded capsule to its end | running something twice; a slot unusable after a failure |
| Update over the network | the above, README of `persistent-with-bindings` | client, channels, replay window | upload, retransmission, loss | answers that are lost, duplicates that arrive late |
| Sandbox | `bindings/coap/sanbdox.rs`, `examples/sandbox-no-bindings` | a map from path to instance, one shared upload buffer | PUT, GET, DELETE on a path | uploads to different paths share the buffer; failing instantiation |
| Updatable runner | `examples/updatable-async` | upload buffer, `Signal` between two tasks, the running capsule | upload, stop, install, run | two tasks; an update overtaken by the next; a capsule that ends as an update arrives |
| Updates over UDP | `examples/insecure-updates` and its `send_files.rs` | 32 KiB buffer, offset and remaining bytes, current instance | receive size, receive chunk, run | no sequence numbers, no timeouts; the buffer is the memory of the running component |
| Sensor host functions | `bindings/sensors.rs`, `examples/fake-sensor` | none of their own; sensors measure in the background | trigger a category, wait for readings | partial failure of a loop over sensors; blocking wait |
| UDP host functions | `bindings/udp.rs`, `examples/udp-bindings`, `payloads/udp-bindings` | one socket with a queue of one packet per direction, fuel | bind, send, try_recv, run every 10 ms | `block_on` on the executor that also drives the network; fuel that is given once |
| GPIO, log, time, rng host functions | `bindings/{gpio,log,time,rng,mod}.rs`, `examples/gpio` | LED and button handles | one forwarded call each | little |
| Capsule switch by button | `examples/simple-updates` | which of two components is current, the future that awaits the edge | run until done or button | an edge nobody waits for; an edge in the poll that ends the capsule |
| Run with timeout | `examples/async-bindings` | fuel, one timer | run | fuel slices against a timeout |
| BLE scanner | `examples/ble-scanner`, `payloads/ble-scanner` | a store in a `RefCell`, the counts in the capsule | report, statistics | borrow across a callback; batches that are cut short; memory of the capsule |
| Build tools | `precompile_wasm.rs`, `rebuild-all-payloads.sh` | the payload files, one `temp.wasm` for all commands | compile, precompile, clean, copy | a stage that fails leaves files behind; the engine options of a payload must match the firmware |
| Guests and interfaces | `payloads/`, `wit/` | guest memory | exports | host models treat a capsule as arbitrary |

How they interact: the CoAP stack of Ariel OS calls one handler at a time with a
request (`extract_request_data`, then `build_response`).  The handlers of the
persistent server share one `WasmHandler` through a `RefCell`; as no handler awaits
anything, a request is atomic.  In `updatable-async` the CoAP task and the runner
task meet only in the static `Signal` `UPDATE`.  In `insecure-updates` one
task does everything, with `select` between the socket and the capsule.
Host functions are called from inside a capsule.  The remaining examples share no
state with each other; what joins them to the workstation is `include_bytes!`: a
firmware starts only if the payload file it was compiled with fits its engine.

What makes each component correct:

* the bytes of a running instance never change (the documented safety invariant of
  `WasmHandler::program`, and the requirement of `deserialize_raw` everywhere);
* what is started is an image as its sender meant it: each byte at its position, no
  mix, no prefix;
* answers, listed resources and signalled commands tell the truth about what runs;
* only what is meant to interrupt a capsule does;
* after a failure the component is in a state from which the documentation says it
  goes on;
* an update that was accepted takes effect, and an upload that is repeated often
  enough succeeds.

The hazards are listed one by one, with their lines, in `PROJECT.json`.

## 2. Modules

```
CoapBlock1     WasmHandler                          CapsuleUpdate
     \          /                                        ^ implemented by
     ProgramUpload                                       |
      /         \                                        |
EphemeralServer  PersistentServer <---- extended by -- BlockwiseUpdate

Payloads   UdpBindings   SimpleUpdates   AsyncBindings   BleScanner
      \         \              |              /             /
       `---------`---------- Board ---------'-------------'

Sandbox, UpdatableAsync (both on CoapBlock1)     UdpUpdates     SensorsHost
              |
              v implements
         LatestUpdate
```

The theorems about a module `M` and their proofs are in `MProofs`: there are such
modules for `PersistentServer`, `EphemeralServer`, `BlockwiseUpdate`, `Sandbox`,
`UpdatableAsync`, `UdpUpdates`, `SensorsHost` and `Board`; the last one also holds
those about the parts of the board.

`MC<Module>` gives the constants of a module small values for TLC.  Operators
marked "deviation" next to a definition are what a plausible mistake in that
place of the code would be; nothing uses them unless one is put in the place of
the definition, to see that a property notices.

### CoapBlock1, WasmHandler, ProgramUpload

Pure operators.  `CoapBlock1` is the arithmetic on the Block1 option, the same few
lines in every handler: the block size `1 << (4 + szx)` and the offset, a `u32`
product that wraps (`% WordSize`; firmware is built in release mode).  `WasmHandler` is
the struct as a record and its methods as operators on it.  A byte is abstract; where
a property speaks of positions it is a pair of the image it belongs to and its
place there.  The reported paths are represented by the program they come from.
`StartRaw` keeps what the code does in between: from the `mem::replace` on the
state is `Taken`, and only success ends that; a start from any other state than
`NotRunning` panics, and so do the two unwrapped calls into the new capsule.
`ProgramUpload` is what a PUT does before it decides what to answer: at offset 0
stop and truncate, then check that the buffer may be changed and ends where the
block begins, then append.

### PersistentServer

`status`, `handler`, `last` (the request answered last).  One action per way a
request can go:

| Code | Action |
|---|---|
| `run_wasm_coap_server`, `main` | `Boot(outcome)` |
| `/vm`, running capsule: answer, trap, entering a trapped instance | `VmForward`, `VmTrap`, `VmCrashed` |
| `/vm`, nothing running | `VmUnavailable` |
| `/vm-control` with a critical option that is not understood, or an unknown method | `ControlBadOption`, `ControlOtherMethod` |
| DELETE | `Delete` |
| PUT: 4.08, 5.00 (`try_reserve`), 2.31, last block | `PutIncomplete`, `PutNoMemory`, `PutContinue`, `PutStart` |

What a capsule does is arbitrary: it answers, fails or traps.  `coap_run` returns the code
of its answer as a `u8` that the server passes on, so `GuestCode` is any code: one that the
firmware answers too, 5.03 included, or another (`OtherCode`).  A 5.03 from `/vm` therefore
does not tell that nothing runs; that nothing runs does imply a 5.03.  Whether bytes can be
instantiated is arbitrary as well (`StartOutcome`).  The twin without bindings,
`persistent-no-bindings`, is the same code with another world.

### EphemeralServer

The same upload, but the last block runs the capsule to its end in `PutRun`
(`start_ff_raw`), and nothing runs between requests.  `last.ran` is a history of the
program whose `run` was called; `refused` of whether an image could not be
instantiated.  The definitions are those of `ephemeral-no-bindings`; its twin differs
in its world.

### CapsuleUpdate and BlockwiseUpdate

`CapsuleUpdate` is what an update promises: requests are made one after the other;
while one is open the slot may be down or hold the requested image; nothing else
touches the slot; a request is confirmed only when its image is in the slot.
`BlockwiseUpdate` extends `PersistentServer` with the client that the example's
README calls (`aiocoap-client -m PUT`), which awaits an answer to each block, repeats
one that is not answered and starts over on an error, and with a network that loses,
repeats and may reorder.  The variable `setting` is chosen once, from `Settings`:
whether the network keeps the order, whether OSCORE's replay window protects the
server, and whether allocations may fail.  The client and the network are external; the server's steps are those of
`PersistentServer`.  The refinement maps the slot to the code of the running
instance.  Images of a single block are excluded by assumption where a setting has no
replay window: a repetition of their only block is at offset 0, restarts the capsule,
and can fail after the first answer was on its way.
With a replay window no repetition is handled; this case is not part of a run, but the
theorems of section 4 cover it.

### Sandbox

`instances` (a map from path to capsule), `buffer` (`last_received_vector`), `last`.
One action per outcome of GET, DELETE and PUT.  As in the code, the capsule at a path
is removed by block 0 *before* the block is checked; a failed allocation
empties the buffer; a failed instantiation leaves it full.  Sandbox instances own a
copy of their bytes (`Component::deserialize`), so the buffer may change.  The
rendering of a result into Block2 blocks is not modelled; a GET for a further block
runs the capsule again, as any GET does.

### LatestUpdate and UpdatableAsync

`LatestUpdate` is what a device promises whose peers tell it, without waiting for each
other, which capsule to run: the last word counts (`Tell`, `Obey`), words before it are
forgotten, a capsule ends by itself only while no word waits (`End`), and the device fails
only over an image it has to start (`Fail`).  In the refinement a word waits while the
signal holds an update, and what is active is the image of a runner that starts, polls or
is hogged by a capsule.

`program` (upload), `update` (the `Signal`), `runner` (where `runner_task` is),
`payload`, and the history `command` of the update signalled last.  A step is what a
task does between two awaits.  `Signal::signal` overwrites.  `select` polls the
update before the capsule: a capsule is polled only when no update waits
(`CapsulePolled`).  A capsule that never calls an async host function keeps the executor
(`hogged`), since this engine has no fuel.  A bad uploaded image panics the runner
(the `unwrap`s of `run_payload`).  Requests refused for their options or method change
nothing and are left out.

### UdpUpdates

`pc` (which of the `recv_from(...).await`s the task is at), `progress`
(`CommunicationState`), `buffer`, `running` (a snapshot of the bytes the current
instance was made from), `socket` (one packet: `rx_meta` has one entry), `outbox`
(what `send_files.rs` has still to send).  `KindNotStarted` and `KindInProgress` are
the two halves of `process_packet`.  The device deserializes the *whole* buffer; a
component ends where its own headers say, so "runs file F" is "the buffer begins
with F".  `RecvError` cannot occur, as the receive buffer of the task is as long as
the one of the socket.  A packet that is not a size packet but has its length is read
as the size `Misread`.  Packets carry neither sender nor number.  `outbox` holds those of
one script after the other; `Interfere` brings any packet of any script, or an empty one,
at any time, which covers scripts that overlap and packets that are repeated or late.  A
script that is cut short is one whose remaining packets are lost (`LosePacket`).  The
history `astray` tells whether a packet was lost, came in between, or was taken for a size
that it is not, since a script last found the device quiet (no transfer, no packet waiting).

### SensorsHost

`phase` (what each sensor is doing), `call`, `next` and `results` (the loop of
`wait_for_reading`), `async` (the build feature `sensors-async`, chosen once), and the
history `expected`.  Triggering is one step, as it does not await: `Trigger(cat, n)`
starts the selected sensors before place `n` of the registry, whose sensor refuses, or
all of them.  Waiting is one step per sensor; `Wanted` is what one sensor adds to the
results.  Sensors are external, but for the fake one, which measures whenever it is
waited for.  Values, units and scalings are left out, except that a label or unit that
the wit file lacks panics in the conversion (`unimplemented!`).

### Payloads

The workstation: `payload` (the `.cwasm` files: crate, target and fuel they were
compiled with), `component` (what `temp.wasm` holds), `commands` (what is left of the
script or of a single command by hand) and `stage`.  `RebuildScript` is the script,
command by command.  A build has the stages of `precompile_wasm.rs`: `Componentize`
(cargo and wasm-tools, which write `temp.wasm`), `Precompile` (reads it and writes the
output), `Clean`.  `Fail` ends a command in any stage and leaves what was written so
far; `set -e` ends the script with it.  `Loads` is what `deserialize` and
`instantiate` demand of a file.

### UdpBindings

`udpMain` (what main, or the capsule it called, is doing), `fuel`, the two queues `rx`
and `tx`, and `hand`, the packet the echoing capsule has received and not yet sent.
The host functions do not await: `send` waits in `block_on` (`SendBlocks`), and as
nothing else runs on the executor then, the network task (`Arrive`, `Transmit`)
moves packets only while main awaits its timer.  `set_fuel` is called once, before the
loop; every host call is taken to cost one unit.

### SimpleUpdates

`swMain`, `current`, and `edge`: whether the future of `wait_for_falling_edge` has
seen an edge.  A press counts only while such a future has been polled
and not been dropped, so not during `instantiate_async`.  `select` polls the
capsule before the button: the result of a capsule drops the edge of the same poll.

### AsyncBindings

`asMain`, `slices` (the fuel, in the intervals after which the capsule yields),
`expired`, `result`.  A poll of main polls the capsule and, if that is pending, the
timer; a capsule that is ready is never cut off in the poll in which it ends.

### BleScanner

`bleMain`, `seen` (the counts the capsule keeps), `heard` (a history of the reports),
`stats`.  `AdvReports` is one call of the callback with a batch: the reports before
the first one that cannot be parsed reach the capsule, and one address too many for
its memory (`Room`) panics the firmware.  `WindowEnds` is the end of 5 seconds.

### Board

The composition: the workstation works (`Work`), one of the four examples is compiled
with the files it includes and flashed (`Flash`), and its main runs.  Whether an
example starts depends on what the workstation made of its payload (`Loads`).

## 3. What is checked

| Run | Question | Distinct states |
|---|---|---|
| `persistent` | two images in blocks of two sizes, mixed, lost, repeated and reordered at will, beside blocks no image explains, one of which wraps to offset 0: do the bytes of a running capsule stay (`ProgramPinned`), are the listed resources those of the running capsule (`AdvertisedAreServed`), are answers true (`AnswersTruthful`), is every byte at its place (`InPlace`)?  Does only a DELETE or a block at offset 0 take a capsule down (`OutageIsAskedFor`), is the slot a failed start leaves final (`FailedStartIsFinal`)? | 34 362 |
| `persistent_taken_is_transient` | *violated*: the comment on `Taken` | |
| `persistent_startup_crash_is_served` | *violated*: the messages on a crash at startup | |
| `ephemeral` | does the device panic only after an image it could not instantiate, never because a capsule trapped (`PanicNeedsRefusal`)?  Does a repeated last block run nothing (`RepetitionRunsNothing`)? | 505 |
| `blockwise` | two images, with replay protection over a network that reorders and with allocations that fail, and without protection over one that keeps the order: is `CapsuleUpdate` implemented (`UpdateImplemented`), is the buffer always the beginning of one image (`BufferIsPrefix`)?  Where the order is kept, is every upload confirmed in the end, unless a failed start panics the device (`UploadsConfirmed`)? | 127 612 |
| `sandbox` | two paths, two images, blocks of all lengths: bytes in place (`InPlace`), a 2.31 can be continued (`ContinueCanContinue`), answers are true, paths are independent (`PathsIndependent`), capsules stay (`CapsuleStays`) | 13 273 |
| `updatable_async` | does the runner obey the last update (`ObeysLastUpdate`), do the two tasks implement `LatestUpdate` (`LatestUpdateImplemented`), are updates taken while a capsule that never ends runs (`UpdatesTaken`), are images in place? | 189 |
| `udp` | does no chunk go beyond the buffer (`TransferWithinBuffer`), does the buffer of a running capsule stay (`RunningUnchanged`), with any losses, misread chunks and packets of other senders?  Unless something went astray since a script last found the device quiet, are only whole files started (`OnlyFilesRun`), and do transfers end but for that of an empty file (`TransfersEnd`)? | 1 298 549 |
| `sensors` | does a wait return the readings of exactly the sensors that were measuring (`WaitIsExact`), after any failed trigger or wait; does a wait end (`WaitEnds`)? | 4 846 |
| `sensors_category_triggered` | *violated*: the comment in `sensors.wit` for the category RelativeHumidity | |
| `board` | payload files are built, with any stage failing, and one of four examples is flashed with them and runs.  Does no payload hold the code of another crate (`PayloadIsOfItsCrate`)?  Does the UDP capsule lose, repeat and reorder nothing (`RepliesInOrder`), and is the executor kept only by a send (`BlocksOnlyToSend`)?  Does every switch of capsules cost a press (`SwitchNeedsPress`)?  Are the BLE statistics exact (`StatsAreExact`)?  Does every main go on, or end, as it is meant to (`ExamplesGoOn`)? | 237 047 |
| `payloads_rebuilt_examples_start` | *violated*: the comments on fuel in the script and on "Must match precompilation" in the firmware | |

Each module has one type invariant, checked in one of its runs (those of the parts of
`Board` as conjuncts of `BoardTypeOK`).

### Disagreements the runs show

* **`Taken` is left behind.**  `start_raw` returns with `?` after it has put `Taken`
  into the handler.  An uploaded image that cannot be deserialized or instantiated
  leaves it there; `/vm` then answers 5.03, and the next complete upload panics the
  device.  The comment on the variant expects it to be replaced immediately.
* **A crash at startup panics.**  The example's messages announce that requests to
  such a capsule will be answered with 5.00 or 5.03; `start_raw` unwraps the result.
* **RelativeHumidity triggers gyroscopes.**  One arm of
  `From<comp_sensor::Category> for Category`.
* **The script compiles two payloads with the wrong fuel option.**  Its loop
  compiles `udp-bindings` without `--fuel`, although that firmware's engine counts
  fuel; and it copies the payload of `async-bindings`, compiled with `--fuel`, to
  `updatable-async`, whose engine does not.  After an undisturbed run of the script the
  first firmware exits and the second panics on its own payload.  (The root README's
  command for the async example lacks `--fuel` too, `README.md:32`.)

Two exceptions are written into a property rather than a run of its own.  `main.rs:89` of
`udp-bindings` says that main will stop because of fuel exhaustion.  A reply that waits
in `block_on` behind another one burns no fuel and makes no room, so `UdpEnds` allows
`blocked` beside `exited`, and `BlocksOnlyToSend` says that this is the only way there.  And `insecure-updates` accepts a declared size of 0
(`main.rs:333-339`), which `send_files.rs` sends for an empty file: the device is then in a
transfer with nothing missing, and stays there until the next packet, which ends the
transfer and is dropped.  No comment promises otherwise; `TransfersEnd` names the case
(`DeclaredEmpty`).

### Bounds

* Blocks are of one and two bytes (`MinBlock = 1`), images of one to four bytes: enough
  for a first, a middle and a last block, for a last block that is shorter, and for
  blocks of two sizes to end at the same offset.
* Two images are enough to mix uploads; two paths are enough for one to disturb
  another.  `Symmetry` in `MCSandbox` permutes the two paths, which the model treats
  alike and no liveness property is checked there.
* `WordSize` is 8 in `persistent`, so that block 4 of size 2 wraps to 0, and 16
  elsewhere, beyond every image.
* `Capacity = 2` messages per direction: a request and a late copy of another.
  `MaxToken` bounds the number of requests on an unordered network (6: two uploads of
  five blocks together and a restart); on an ordered one two tokens alternate.
* UDP: a size packet of one byte, chunks of two, a buffer of three; a file that fits
  and ends in a chunk as long as a size packet, one that is too long and whose
  last chunk can be misread, and an empty one.
* Sensors: three, one of them fake, one with two channels, two that share a category
  in part.
* Board: `MCScript` leaves out the commands of the script for examples the board does
  not run, but for one that copies; `MaxBuilds = 2`, a failed start and another; the
  workstation stops once the board has its firmware.  `UdpFuel = 8` and
  `MaxPackets = 4`: both queues and the hand are full, a packet is dropped, and main
  still runs out of fuel.  `MaxPresses = 3`: an edge that is used, one that is dropped and
  one during an instantiation.  `Slices = 3`.  Three addresses, `Room = 2`, batches of
  two, `MaxReports = 4`: a capsule that runs full, a batch cut short, an address that is
  heard again after a window.
* `payloads_rebuilt_examples_start` runs the whole script once.

Deadlock is not checked where the system may stop: a device that has panicked or
exited, a client that has no more images.  It is checked for the sandbox.

### Fairness

* `BlockwiseUpdate`: the client repeats an unanswered block (weak fairness of
  `Retransmit`; a CoAP client has a timer).  A block sent over and over arrives and is
  handled, and an answer likewise (strong fairness): the usual assumption that a
  network does not lose one message for ever.  It is stated per block number, for
  otherwise a network that lets through only the answers to some block would be
  fair.  `UploadsConfirmed` is claimed where `memoryFails` is off: an allocation refused
  every time would keep an upload from ending.
* `UpdatableAsync`: weak fairness of the runner's steps, for the executor polls a woken
  task.  None for the capsule's end, nor for peers.
* `UdpUpdates`: weak fairness of the receiving task and of the script that has been
  started; none for the capsule or for starting a script.
* `SensorsHost`: weak fairness of the wait and of every measurement.  Without
  `sensors-async` a measurement cannot go on during a wait (`block_on` keeps the
  executor), so that `WaitEnds` says less there.
* `Board`: weak fairness of the main that was flashed (`UFairness`, `SFairness`,
  `AFairness`), for the executor polls what was woken, and of the timer of
  `async-bindings`.  None for capsules: they may sleep or loop for ever.  None for
  presses, packets or reports.

## 4. What is proved

Each theorem holds for every value of the constants that satisfies the assumptions
of its module: every set of bytes, programs, files, paths and requests, every size
of blocks, packets and buffers.

| Module | Theorem | States |
|---|---|---|
| `PersistentServerProofs` | `TypeCorrect` | `Spec => []TypeOK` |
| | `ProgramPinnedHolds` | `Spec => []ProgramPinned` |
| | `AdvertisedAreServedHolds` | `Spec => []AdvertisedAreServed` |
| | `AnswersTruthfulHolds` | `Spec => []AnswersTruthful` |
| | `OutageIsAskedForHolds` | `Spec => OutageIsAskedFor` |
| | `FailedStartIsFinalHolds` | `Spec => FailedStartIsFinal` |
| | `InPlaceHolds` | `Spec => []InPlace`, if `HonestClients` |
| `EphemeralServerProofs` | `TypeCorrect` | `Spec => []TypeOK` |
| | `PanicNeedsRefusalHolds` | `Spec => []PanicNeedsRefusal` |
| | `RepetitionRunsNothingHolds` | `Spec => RepetitionRunsNothing`, if `HonestClients` |
| `BlockwiseUpdateProofs` | `UpdateImplementedHolds` | `BSpec => UpdateImplemented`, if `Covered` |
| | `BTypeCorrect` | `BSpec => []BTypeOK`, if `Covered` |
| | `BufferIsPrefixHolds` | `BSpec => []BufferIsPrefix`, if `Covered` and there are images |
| `SandboxProofs` | `TypeCorrect` | `Spec => []TypeOK` |
| | `AnswersTruthfulHolds` | `Spec => []AnswersTruthful` |
| | `CapsuleStaysHolds` | `Spec => CapsuleStays` |
| | `PathsIndependentHolds` | `Spec => PathsIndependent` |
| | `InPlaceHolds` | `Spec => []InPlace`, if `HonestClients` |
| | `ContinueCanContinueHolds` | `Spec => []ContinueCanContinue`, if no block reaches the end of the range of offsets |
| `UpdatableAsyncProofs` | `TypeCorrect` | `Spec => []TypeOK` |
| | `ObeysLastUpdateHolds` | `Spec => []ObeysLastUpdate` |
| | `LatestUpdateImplementedHolds` | `Spec => LatestUpdateImplemented` |
| | `InPlaceHolds` | `Spec => []InPlace`, if `HonestClients` and the image in flash is in place |
| `UdpUpdatesProofs` | `TypeCorrect` | `Spec => []TypeOK` |
| | `TransferWithinBufferHolds` | `Spec => []TransferWithinBuffer` |
| | `RunningUnchangedHolds` | `Spec => []RunningUnchanged` |
| | `OnlyFilesRunHolds` | `Spec => OnlyFilesRun`, if `FilesAndSizes` |
| `SensorsHostProofs` | `TypeCorrect` | `Spec => []TypeOK` |
| | `WaitIsExactHolds` | `Spec => []WaitIsExact` |
| `BoardProofs` | `PayloadIsOfItsCrateHolds` | `PSpec => []PayloadIsOfItsCrate` |
| | `RepliesInOrderHolds` | `USpec => []RepliesInOrder` |
| | `BlocksOnlyToSendHolds` | `USpec => []BlocksOnlyToSend` |
| | `SwitchNeedsPressHolds` | `SSpec => []SwitchNeedsPress` |
| | `StatsAreExactHolds` | `BleSpec => StatsAreExact` |
| | `BoardRunsItsParts` | `BoardSpec => PSpec /\ USpec /\ SSpec /\ ASpec /\ BleSpec` |
| | `PartsHoldOnBoard` | on the board, all that is proved of its parts |
| | `BoardTypeCorrect` | `BoardSpec => []BoardTypeOK` |

The assumptions are those the modules name: `Block1Assumption` (block and word size
are positive), `PersistentAssumption`, `EphemeralAssumption`, `SandboxAssumption` and
`UpdatableAssumption` (requests are PUTs, programs are sequences of bytes),
`BlockwiseAssumption` (images are programs of at least one block, of two where a
setting has no replay window, and shorter than the range of offsets), `UdpAssumption` (files are sequences of bytes, sizes are
positive, a size packet is as `send_files.rs` makes it), `SensorsAssumption` (the
registry lists each sensor once, and each has a sequence of channels),
`PayloadsAssumption` (every command of the script names the crate of its output, and
each build one of the two targets) and the types of the bounds in the parts of
`Board`.  Conditions of a single theorem are in the table:

* `HonestClients`: every block carries the part of its image that its number says.
* `Covered`: each setting is one of two kinds, a network that keeps the order, without a
  replay window, or one that may reorder, with it.  These are the settings of the run.
  Of the other two, a network that reorders without a replay window does not implement
  the update (section 5), and where the order is kept the model gives two tokens to all
  requests, too few for a replay window.
* `FilesAndSizes`: no file is empty, size packets tell sizes apart, and no chunk of a
  file that is too long is a size packet (its script goes on sending after the size was
  refused, and the device would begin a transfer).  The run has an empty file as well;
  there every last chunk differs from the size packets, which a theorem with empty files
  would have to require of all files.

**Persistent server.**  `ProgramPinned` is not inductive.  A `stop` must be known to
leave no instance, or the buffer could be changed while an instance of an earlier
program is still recorded; and the first start must find a fresh handler, or it
would list paths of no capsule.  Hence

    IInv == TypeOK /\ BootIsFresh /\ SlotConsistent

where `BootIsFresh` says that the handler is `New` until the boot, and
`SlotConsistent` joins `ProgramPinned`, `AdvertisedAreServed` and "no instance
unless Running".  The lemmas on the methods of `WasmHandler` (`StopType`,
`StartType`, `StartResult`) and on uploads (`BegunType` and what follows it) say
what each returns; the step theorem takes one action at a time.  `InPlace` needs
the invariant only for types: a block that fits begins where the buffer ends, and an
honest one carries the bytes of those positions; concatenation keeps both.  It also
needs that the offset of an honest block does not wrap.  `AnswersTruthful` needs in
addition that nothing has been answered before the boot (`BootUnanswered`).

**Ephemeral server.**  A panic takes a handler that is not `NotRunning` when the last
block arrives.  So the invariant says that between requests the handler is
`NotRunning` or `Taken`, that it is fresh until the boot, and that a device that
serves with `Taken` has refused an image (`TakenNeedsRefusal`).  `RunGivesBack` is the
lemma that matters: whatever a capsule did, the state comes back.  For
`RepetitionRunsNothing` the invariant `RanIsAtTheEnd` says that the block that ran a
capsule ends where the buffer ends, so that its repetition begins before that end.

**Update over the network.**  Each kind of setting has an invariant of its own,
`EitherInv` joins them.  With the replay window, `BInv` joins the server's invariant, the ranges of the
peer's numbers (`PeerState`), `Window`, `Outstanding` and what messages in flight say.
`Window` is what matters: every token but the last is in the replay window, so that
nothing but the block the peer awaits an answer for is ever handled, and it is handled
once.  Hence, while it is not, the buffer ends where that block begins
(`Outstanding`); afterwards an answer with the current token says what the buffer or
the slot holds (`Responses`).

Where the order is kept and nothing refuses a repetition, the server does handle
blocks again, and two tokens alternate, so that a token only tells whether a message
belongs to the last request.  `OInv` rests on `LastBehind`: on the way from the peer
through the requests, the server and the answers back, what belongs to the last request
comes behind all that does not.  When the peer takes an answer to its last request,
therefore, nothing older is in flight.  What is older falls in one of two cases.
`NotBegun`: the first block of an image has not reached the server; then all that is
older is the last block of the image before, which runs, and a block at a later
offset leaves a running slot alone (`HandleMisfit`).  `UnderWay`: the first
block has been handled; then all that is older are blocks of the image that is
uploaded, the buffer holds whole blocks of it, and the slot is down or runs it.  In that
case a block that does not fit changes nothing, because the ends of different
numbers of blocks differ (`BeginningsDiffer`), and one that fits leaves such a buffer
(`HandleAny`).  A 2.04 that the peer has yet to take stays true (`AwaitedResps`): what
the server can still handle before it is taken is the last block again.  This is where
images of one block would fail, as their last block is at offset 0.

From either invariant, `ServerChanges` and `ChangedIsTrue` show that every step of the
detailed specification is a step of `CapsuleUpdate` or a stutter.

**Sandbox.**  `StepBytes` bounds what any step can make of the buffer and of the
capsule at a path: what was there, nothing, or the buffer extended by a block that
fits.  With `ExtendedInOrder` (the argument of `InPlace` above) this gives `InPlace`;
`BegunElsewhere` gives `PathsIndependent`.  The remaining theorems go action by
action, from the types; `ContinueCanContinue` needs the arithmetic of block sizes.

**Updatable runner.**  `ObeysLastUpdate` speaks of the state in which no update waits;
to get there the runner takes one, and it must be the last one signalled.  The
strengthening is `WaitingIsLast`: an update that waits is the last command.  From it
`LatestUpdateImplementedHolds` follows step by step: a signal is `Tell`; what the runner
takes is the last word, so that taking it is `Obey`, or `Fail` if its image is bad; and a
capsule is polled, and can end, only while no update waits (`End`).

**Updates over UDP.**  `RunningUnchanged` holds because a buffer is only written in
states in which no component runs; `TransferWithinBuffer` needs that offset and
remaining bytes are numbers, and that an accepted chunk is not longer than what is
missing (`AcceptedFits`).  `SizeInRange` covers every packet that is read as a size,
also one that is not.  The packets in flight are shown to be sequences, so that their
length is a number.  For `OnlyFilesRun`, `FInv` joins the device with what it has still
to take (`Pending`, the socket and then the script's outbox): within a transfer
(`InTransfer`) some file is such that the buffer holds its first chunks and `Pending`
the others; between transfers (`Between`) a whole script, or nothing, or the rest of a
file that is too long, is pending.  `ChunkFills` says that the chunk that arrives makes
the next such state.  After something went astray nothing is known, until a script finds
the device quiet: then its packets are all that is pending.

**Sensor host functions.**  `Collected` says that a wait has the readings of the sensors
behind it that were measuring when it began (`expected`); it is inductive only with
`StillMeasuring`: a sensor before it is expected exactly if it is fake or has a
measurement, which may have ended meanwhile but cannot have been taken.  The results are a
`FlattenSeq`, which is defined by recursion.  `SetInduction` is induction for a set of
numbers, from their well-foundedness; with it, `JoinsUnique` and `JoinsExists` show that
the function inside `FlattenSeq` exists and is unique, and hence `FlattenAppend` what one
more sensor adds.

**UDP host functions.**  `RepliesInOrder` is kept by each step once the capsule's hand
is empty unless it is sending (`HandInUse`); that what is sent has data
(`OnlyDataIsSent`) gives `BlocksOnlyToSend`.

**Payloads.**  `ComponentIsOfCommand`: when a build reads `temp.wasm`, it is of the crate
of the command under way; at any other time it may hold anything.
Hence what an earlier command left there never gets into a payload.

**Switch by button.**  `PressesPaid`: a press that is seen pays for one start, and once
it is spent on the start under way no edge is left.

**BLE scanner.**  `BleInv`: the count of an address is the number of places at which it
was heard.  `ParsedIsPrefix` (what is parsed of a batch is a prefix) and `PlacesAdd`
(places in a concatenation) show that a batch keeps it; `TotalIsHeard` adds up the
counts by a bijection onto the places.

**Board.**  `PartsStep`: a step of the board is, for each part, one of its steps or a
stutter.  Hence the board implements each part, and inherits its theorems.
`BoardTypeCorrect` joins what each part needs for its types: that a build leaves the
name of a crate or a partial file (`PTyped`), that a packet in a queue has a number
(`UTyped`), and that only the example that was flashed has left its initial state
(`FlashedRuns`).

Every invariant and every action property that a run checks is the subject of a theorem.
Only model-checked are the liveness properties (`UploadsConfirmed`, `UpdatesTaken`,
`TransfersEnd`, `WaitEnds`, `ExamplesGoOn`): they rest on fairness and with it on
ENABLED, which TLAPS does not reach.

## 5. What is not modelled

* GPIO, log, time and rng host functions: each forwards one call and keeps nothing (a
  sleep is part of `AsyncBindings`).
* Guest programs and WIT worlds: a capsule is arbitrary for the host.  The exceptions
  are the capsules of `udp-bindings` and `ble-scanner`, whose state the properties are
  about.
* Of the build tools, the options `--module` and `--conserve-artifacts` and a `.wasm`
  as `--path`, which the script does not use, and two commands at the same time, which
  would share `temp.wasm`.
* Memory safety inside wasmtime, the contents of results and logs, the CoAP
  encoding.  The reencoding of a request into 1280 bytes
  (`coap_server_guest.rs:313-326`) panics for a larger one; the CoAP stack bounds
  requests below that, outside of the repository.  The rendering of a result in Block2
  blocks: a GET for a further block runs the capsule again.
* Power loss: nothing is persisted; a restart is `Init`.
* An unprotected configuration (`coap-server-config-unprotected`) on a network that
  reorders: there a late copy of block 0 does take a capsule down that was
  confirmed.  No comment promises otherwise, and no property claims it.
* Two peers that upload images of the same block size at once: the code does not tell
  them apart, and `InPlace` (positions, not images) is what is claimed.

## 6. What is left

All components that keep state are modelled, and their safety is proved as section 4
says.  Left to do:

1. Two peers that upload at once, as a further setting of `BlockwiseUpdate`: what the
   code guarantees then is `InPlace`, and the refinement would need an identity of an
   upload that the code does not have.
2. Images of a single block without a replay window, with a restart that fails after
   the 2.04 as an event of its own in `CapsuleUpdate`.
