----------------------------- MODULE UdpUpdates -----------------------------
(* examples/insecure-updates: a device that receives capsules over UDP and   *)
(* runs them, and send_files.rs, the script that sends them: a packet with   *)
(* the size of the file, then the file in chunks.  There are no sequence     *)
(* numbers, answers or timeouts.                                             *)
(*                                                                           *)
(* The device is one async task: it awaits a packet, or a packet and the     *)
(* capsule.  The socket holds one packet (rx_meta); one that arrives before  *)
(* the last was taken is dropped.                                            *)
EXTENDS Naturals, Sequences

CONSTANTS Byte,        \* the values of a byte
          Zero,        \* what the buffer is filled with at the start
          File,        \* the files that are sent: sequences of bytes
          SizePacket,  \* the bytes of a size packet, for every size in 0..MaxSize
          Misread,     \* what the device reads as a size in any other packet of that length
          SizeBytes,   \* USIZE_BYTES, 4
          ChunkSize,   \* packet_size of the script, at most BUFFER_SIZE of the device
          BufferSize   \* WASM_BUFFER_SIZE

SizeRange == 0..BufferSize + 1

ASSUME UdpAssumption ==
  /\ Zero \in Byte
  /\ File \subseteq Seq(Byte)
  /\ \A n \in SizeRange : SizePacket[n] \in Seq(Byte) /\ Len(SizePacket[n]) = SizeBytes
  /\ Misread \in SizeRange
  /\ {SizeBytes, ChunkSize, BufferSize} \subseteq Nat \ {0}

VARIABLES pc,         \* where run_wasm is
          progress,   \* CommunicationState: bytes received and bytes missing
          buffer,     \* wasm_buffer
          running,    \* what the current instance was made from, <<>> if there is none
          socket,     \* the packet in the socket, at most one
          outbox,     \* the packets the script has still to send
          astray      \* history: whether a packet was lost or mistaken, or one came
                      \* in between, since a script last found the device quiet

device == <<pc, progress, buffer, running>>
vars == <<device, socket, outbox, astray>>

(* waiting: no capsule, no transfer; filling: first 'inner loop; running:    *)
(* 'polling; refilling: second 'inner loop, the old instance still exists.   *)
PC == {"waiting", "filling", "running", "refilling", "exited", "panicked"}

NotStarted == [offset |-> 0, remaining |-> 0]
Slots == 1..BufferSize

TypeOK ==
  /\ pc \in PC
  /\ progress \in [offset : 0..BufferSize, remaining : 0..BufferSize]
  /\ buffer \in [Slots -> Byte]
  /\ running \in Seq(Byte)
  /\ socket \in Seq(Seq(Byte)) /\ Len(socket) <= 1
  /\ outbox \in Seq(Seq(Byte))
  /\ astray \in BOOLEAN

Init ==
  /\ pc = "waiting"
  /\ progress = NotStarted
  /\ buffer = [i \in Slots |-> Zero]
  /\ running = <<>>
  /\ socket = <<>> /\ outbox = <<>> /\ astray = FALSE
-----------------------------------------------------------------------------
(* send_files.rs.  The packets of one script after the other are in outbox;  *)
(* those of a script that runs at the same time come in between.             *)

ChunkCount(file) == (Len(file) + ChunkSize - 1) \div ChunkSize

Chunk(file, k) ==
  SubSeq(file, (k - 1) * ChunkSize + 1,
         IF k * ChunkSize < Len(file) THEN k * ChunkSize ELSE Len(file))

Packets(file) ==
  <<SizePacket[IF Len(file) \in SizeRange THEN Len(file) ELSE BufferSize + 1]>>
    \o [k \in 1..ChunkCount(file) |-> Chunk(file, k)]

Receiving == pc \in {"filling", "refilling"}

\* no transfer is under way and no packet waits
Quiet == socket = <<>> /\ ~Receiving

\* a script that finds the device quiet makes good what went wrong before
StartScript(file) ==
  /\ outbox = <<>>
  /\ outbox' = Packets(file)
  /\ astray' = (astray /\ ~Quiet)
  /\ UNCHANGED <<device, socket>>

\* the script sleeps before the next packet, long enough for the last one to
\* arrive and, in time, to be taken
Deliver ==
  /\ outbox # <<>> /\ socket = <<>>
  /\ socket' = <<Head(outbox)>>
  /\ outbox' = Tail(outbox)
  /\ UNCHANGED <<device, astray>>

\* lost on the way, or dropped because the socket is full; a script that is cut
\* short loses all that it has not sent
LosePacket ==
  /\ outbox # <<>>
  /\ outbox' = Tail(outbox)
  /\ astray' = TRUE
  /\ UNCHANGED <<device, socket>>

StrayPacket ==
  {<<>>} \cup UNION {{Packets(file)[k] : k \in DOMAIN Packets(file)} : file \in File}

\* a packet of another script, one that the network repeats or brings late, or
\* an empty one
Interfere ==
  /\ socket = <<>>
  /\ \E packet \in StrayPacket : socket' = <<packet>>
  /\ astray' = TRUE
  /\ UNCHANGED <<device, outbox>>
-----------------------------------------------------------------------------
(* process_packet.                                                           *)

\* usize::from_be_bytes, for a packet of SizeBytes bytes
SizeOf(packet) ==
  IF \E n \in SizeRange : SizePacket[n] = packet
  THEN CHOOSE n \in SizeRange : SizePacket[n] = packet
  ELSE Misread

\* deviation: a chunk that is too long for what is missing is accepted
KindInProgressUnchecked(packet) ==
  CASE Len(packet) = 0                  -> "ProgressStopped"
    [] Len(packet) >= progress.remaining -> "BufferFiled"
    [] OTHER                            -> "PartialFill"

\* deviation: the chunk that fills the buffer is taken for any other
KindInProgressOpen(packet) ==
  CASE Len(packet) = 0                  -> "ProgressStopped"
    [] Len(packet) > progress.remaining -> "SizeTooBig"
    [] OTHER                            -> "PartialFill"

KindInProgress(packet) ==
  CASE Len(packet) = 0                  -> "ProgressStopped"
    [] Len(packet) > progress.remaining -> "SizeTooBig"
    [] Len(packet) = progress.remaining -> "BufferFiled"
    [] OTHER                            -> "PartialFill"

\* deviation: the declared size is not compared with the buffer
KindNotStartedUnchecked(packet) ==
  CASE Len(packet) = 0         -> "Useless"
    [] Len(packet) # SizeBytes -> "HadntStartedYet"
    [] OTHER                   -> "DeclareSize"

KindNotStarted(packet) ==
  CASE Len(packet) = 0              -> "Useless"
    [] Len(packet) # SizeBytes      -> "HadntStartedYet"
    [] SizeOf(packet) > BufferSize  -> "SizeTooBig"
    [] OTHER                        -> "DeclareSize"

\* deviation: every chunk goes to the start
FilledAtStart(packet) ==
  [i \in Slots |-> IF i <= Len(packet) THEN packet[i] ELSE buffer[i]]

\* the arms that copy the packet into the buffer
Filled(packet) ==
  [i \in Slots |-> IF i > progress.offset /\ i <= progress.offset + Len(packet)
                   THEN packet[i - progress.offset]
                   ELSE buffer[i]]

Advanced(packet) == [offset    |-> progress.offset + Len(packet),
                     remaining |-> progress.remaining - Len(packet)]

\* wasm_buffer[offset..offset + n] panics beyond the end
Overruns(packet) == progress.offset + Len(packet) > BufferSize

\* a component ends where its own headers say; what follows it in the buffer
\* is not looked at
BeginsWith(contents, file) ==
  Len(file) <= Len(contents) /\ \A i \in DOMAIN file : contents[i] = file[i]
-----------------------------------------------------------------------------
(* run_wasm.                                                                 *)

Take == socket' = <<>> /\ UNCHANGED outbox

\* a packet begins a transfer, the chunk of a file that is too long perhaps
Declare ==
  /\ progress' = [offset |-> 0, remaining |-> SizeOf(socket[1])]
  /\ astray' = (astray \/ \A n \in SizeRange : SizePacket[n] # socket[1])

\* no capsule, NotStarted: a size begins a transfer, all else is ignored
ReceiveWaiting ==
  /\ pc = "waiting" /\ socket # <<>>
  /\ Take
  /\ IF KindNotStarted(socket[1]) = "DeclareSize"
     THEN pc' = "filling" /\ Declare
     ELSE UNCHANGED <<pc, progress, astray>>
  /\ UNCHANGED <<buffer, running>>

\* a chunk that leaves bytes missing
ReceivePart ==
  /\ Receiving /\ socket # <<>>
  /\ KindInProgress(socket[1]) = "PartialFill"
  /\ Take /\ UNCHANGED astray
  /\ IF Overruns(socket[1])
     THEN pc' = "panicked" /\ UNCHANGED <<progress, buffer, running>>
     ELSE /\ buffer' = Filled(socket[1])
          /\ progress' = Advanced(socket[1])
          /\ UNCHANGED <<pc, running>>

\* the last chunk: deserialize the whole buffer, instantiate, and call run.  An error
\* is returned with `?` and main exits
ReceiveLast ==
  /\ Receiving /\ socket # <<>>
  /\ KindInProgress(socket[1]) = "BufferFiled"
  /\ Take /\ UNCHANGED astray
  /\ IF Overruns(socket[1])
     THEN pc' = "panicked" /\ UNCHANGED <<progress, buffer, running>>
     ELSE /\ buffer' = Filled(socket[1])
          /\ progress' = NotStarted
          /\ \/ pc' = "running" /\ running' = buffer'
             \/ pc' = "exited" /\ running' = <<>>

\* deviation: the old instance goes on when its replacement is given up
ReceiveStoppedResuming ==
  /\ Receiving /\ socket # <<>>
  /\ KindInProgress(socket[1]) \in {"ProgressStopped", "SizeTooBig"}
  /\ Take /\ UNCHANGED astray
  /\ pc' = IF pc = "refilling" THEN "running" ELSE "waiting"
  /\ progress' = NotStarted
  /\ UNCHANGED <<buffer, running>>

\* an empty packet or one that is too long ends the transfer; the old instance
\* is given up
ReceiveStopped ==
  /\ Receiving /\ socket # <<>>
  /\ KindInProgress(socket[1]) \in {"ProgressStopped", "SizeTooBig"}
  /\ Take /\ UNCHANGED astray
  /\ pc' = "waiting"
  /\ progress' = NotStarted
  /\ running' = <<>>
  /\ UNCHANGED buffer

\* select polls the socket before the capsule: a size drops the call of run,
\* which is not resumed; any other packet is ignored
ReceiveRunning ==
  /\ pc = "running" /\ socket # <<>>
  /\ Take
  /\ IF KindNotStarted(socket[1]) = "DeclareSize"
     THEN pc' = "refilling" /\ Declare
     ELSE UNCHANGED <<pc, progress, astray>>
  /\ UNCHANGED <<buffer, running>>

\* call_run returns, well or with a trap
CapsuleFinishes ==
  /\ pc = "running" /\ socket = <<>>
  /\ pc' = "waiting"
  /\ running' = <<>>
  /\ UNCHANGED <<progress, buffer, socket, outbox, astray>>

Receive == ReceiveWaiting \/ ReceivePart \/ ReceiveLast \/ ReceiveStopped \/ ReceiveRunning

Script == Deliver \/ LosePacket \/ Interfere \/ \E file \in File : StartScript(file)

Next == Receive \/ CapsuleFinishes \/ Script

Spec == Init /\ [][Next]_vars

(* The executor polls the task when a packet is there (capsules of this      *)
(* example are async and yield); a script that was started sends everything. *)
Fairness == WF_vars(Receive) /\ WF_vars(Deliver)

FairSpec == Spec /\ Fairness
-----------------------------------------------------------------------------
(* A transfer stays within wasm_buffer, so the copy of a chunk never panics: *)
(* what was received and what is missing are together a size that was        *)
(* checked, through every abandoned and misunderstood transfer.              *)
TransferWithinBuffer ==
  /\ pc # "panicked"
  /\ progress.offset + progress.remaining <= BufferSize

(* deserialize_raw requires its bytes to stay unchanged while code of the    *)
(* component runs: while a capsule runs, the buffer is what it was made of.  *)
RunningUnchanged ==
  pc = "running" => running = buffer

(* The device starts nothing but whole files, whatever it was running or     *)
(* receiving before, unless a packet was lost or mistaken or one of another  *)
(* script came in between.  And it recovers: once a script finds it quiet,   *)
(* what went wrong before no longer matters.                                 *)
OnlyFilesRun ==
  [][pc # "running" /\ pc' = "running" /\ ~astray'
       => \E file \in File \ {<<>>} : BeginsWith(running', file)]_vars

(* On the same condition the device is not left in the middle of a transfer  *)
(* after the last packet of a script, with one exception: a declared size of *)
(* 0, which the script sends for an empty file, begins a transfer with       *)
(* nothing received and nothing missing (main.rs:333-339), and 'inner waits  *)
(* for a packet that this script never sends.                                *)
DeclaredEmpty == Receiving /\ progress = NotStarted

TransfersEnd == Receiving ~> (astray \/ ~Receiving \/ DeclaredEmpty)
=============================================================================
