-------------------------- MODULE UdpUpdatesProofs --------------------------
(* Theorems about UdpUpdates, for every set of files, every coding of sizes, *)
(* every size of packets and buffer, on a network that loses and repeats at  *)
(* will and with other senders.                                              *)
EXTENDS UdpUpdates, SequenceTheorems, TLAPS

(* The inductive invariant.  That a chunk stays within the buffer follows    *)
(* from the bound on what was received and what is missing; the bound needs  *)
(* both to be numbers.                                                       *)
IInv ==
  /\ progress \in [offset : Nat, remaining : Nat]
  /\ TransferWithinBuffer
  /\ RunningUnchanged
-----------------------------------------------------------------------------
(* Whatever packet is read as a size, the result is in the range of sizes.   *)
LEMMA SizeInRange ==
  ASSUME NEW packet
  PROVE  SizeOf(packet) \in SizeRange
  BY UdpAssumption DEF SizeOf

(* A chunk that is accepted does not go beyond the buffer, and receiving it  *)
(* keeps the sum of the bytes received and missing.                          *)
LEMMA AcceptedFits ==
  ASSUME IInv, NEW packet, Len(packet) \in Nat,
         KindInProgress(packet) \in {"PartialFill", "BufferFiled"}
  PROVE  /\ ~Overruns(packet)
         /\ Advanced(packet) \in [offset : Nat, remaining : Nat]
         /\ Advanced(packet).offset + Advanced(packet).remaining <= BufferSize
<1>0. BufferSize \in Nat
  BY UdpAssumption
<1>1. Len(packet) <= progress.remaining
  BY DEF KindInProgress, IInv
<1>2. /\ progress.offset \in Nat /\ progress.remaining \in Nat
      /\ progress.offset + progress.remaining <= BufferSize
  BY DEF IInv, TransferWithinBuffer
<1> QED
  BY <1>0, <1>1, <1>2 DEF Overruns, Advanced

(* The packets are sequences.                                                *)
PacketsAreSequences == socket \in Seq(Seq(Byte)) /\ outbox \in Seq(Seq(Byte))

LEMMA ScriptPackets ==
  ASSUME NEW file \in File
  PROVE  Packets(file) \in Seq(Seq(Byte))
<1>0. /\ file \in Seq(Byte) /\ Len(file) \in Nat
      /\ ChunkSize \in Nat /\ ChunkSize > 0 /\ BufferSize \in Nat
  BY UdpAssumption
<1>1. ChunkCount(file) \in Nat
  <2>1. Len(file) + ChunkSize - 1 \in Nat
    BY <1>0
  <2> QED
    BY <1>0, <2>1 DEF ChunkCount
<1>2. ASSUME NEW k \in 1..ChunkCount(file)
      PROVE  Chunk(file, k) \in Seq(Byte)
  <2>1. (k - 1) * ChunkSize + 1 \in Nat /\ (k - 1) * ChunkSize + 1 >= 1
    <3>1. k - 1 \in Nat
      BY <1>1
    <3>2. (k - 1) * ChunkSize \in Nat
      BY <3>1, <1>0
    <3> QED
      BY <3>2
  <2>2. \A m, n : m \in Nat /\ m >= 1 /\ n \in Nat /\ n <= Len(file) => SubSeq(file, m, n) \in Seq(Byte)
    BY <1>0
  <2>3. k * ChunkSize \in Nat
    BY <1>0, <1>1
  <2>4. (IF k * ChunkSize < Len(file) THEN k * ChunkSize ELSE Len(file)) \in Nat
    BY <1>0, <2>3
  <2>5. (IF k * ChunkSize < Len(file) THEN k * ChunkSize ELSE Len(file)) <= Len(file)
    BY <1>0, <2>3
  <2> QED
    BY <2>1, <2>2, <2>4, <2>5 DEF Chunk
<1>3. [k \in 1..ChunkCount(file) |-> Chunk(file, k)] \in Seq(Seq(Byte))
  BY <1>1, <1>2
<1>4. (IF Len(file) \in SizeRange THEN Len(file) ELSE BufferSize + 1) \in SizeRange
  BY <1>0 DEF SizeRange
<1>5. SizePacket[IF Len(file) \in SizeRange THEN Len(file) ELSE BufferSize + 1] \in Seq(Byte)
  BY <1>4, UdpAssumption
<1> QED
  BY <1>3, <1>5 DEF Packets

LEMMA StrayPacketType == StrayPacket \subseteq Seq(Byte)
<1>1. ASSUME NEW file \in File, NEW k \in DOMAIN Packets(file)
      PROVE  Packets(file)[k] \in Seq(Byte)
  BY ScriptPackets
<1>2. ASSUME NEW file \in File
      PROVE  {Packets(file)[k] : k \in DOMAIN Packets(file)} \subseteq Seq(Byte)
  BY <1>1
<1>3. UNION {{Packets(file)[k] : k \in DOMAIN Packets(file)} : file \in File} \subseteq Seq(Byte)
  BY <1>2, Zenon
<1>4. {<<>>} \subseteq Seq(Byte)
  OBVIOUS
<1> QED
  BY <1>3, <1>4, Zenon DEF StrayPacket

LEMMA SpecPackets == Spec => []PacketsAreSequences
<1>1. Init => PacketsAreSequences
  BY DEF Init, PacketsAreSequences
<1>2. PacketsAreSequences /\ [Next]_vars => PacketsAreSequences'
  <2> SUFFICES ASSUME PacketsAreSequences, [Next]_vars
               PROVE  PacketsAreSequences'
    OBVIOUS
  <2> USE DEF PacketsAreSequences
  <2>1. CASE Receive
    <3>1. Take
      BY <2>1 DEF Receive, ReceiveWaiting, ReceivePart, ReceiveLast, ReceiveStopped, ReceiveRunning
    <3>2. <<>> \in Seq(Seq(Byte))
      OBVIOUS
    <3> QED
      BY <3>1, <3>2 DEF Take
  <2>2. CASE CapsuleFinishes
    BY <2>2 DEF CapsuleFinishes
  <2>3. CASE Deliver
    BY <2>3 DEF Deliver
  <2>4. CASE LosePacket
    BY <2>4 DEF LosePacket
  <2>5. ASSUME NEW file \in File, StartScript(file)
        PROVE  PacketsAreSequences'
    BY <2>5, ScriptPackets DEF StartScript
  <2>6. CASE Interfere
    BY <2>6, StrayPacketType DEF Interfere
  <2>7. CASE UNCHANGED vars
    BY <2>7 DEF vars
  <2> QED
    BY <2>1, <2>2, <2>3, <2>4, <2>5, <2>6, <2>7 DEF Next, Script
<1> QED
  BY <1>1, <1>2, PTL DEF Spec
-----------------------------------------------------------------------------
LEMMA InitIInv == Init => IInv
  BY UdpAssumption DEF Init, IInv, NotStarted, TransferWithinBuffer, RunningUnchanged

LEMMA DeclareKeeps ==
  ASSUME IInv, Declare, KindNotStarted(socket[1]) = "DeclareSize"
  PROVE  /\ progress' \in [offset : Nat, remaining : Nat]
         /\ progress'.offset + progress'.remaining <= BufferSize
<1>1. SizeOf(socket[1]) \in Nat /\ BufferSize \in Nat
  BY SizeInRange, UdpAssumption DEF SizeRange
<1>2. SizeOf(socket[1]) <= BufferSize
  BY <1>1 DEF KindNotStarted
<1> QED
  BY <1>1, <1>2 DEF Declare

LEMMA StepIInv == IInv /\ PacketsAreSequences /\ [Next]_vars => IInv'
<1> SUFFICES ASSUME IInv, PacketsAreSequences, [Next]_vars
             PROVE  IInv'
  OBVIOUS
<1>0. BufferSize \in Nat /\ NotStarted \in [offset : Nat, remaining : Nat]
      /\ NotStarted.offset + NotStarted.remaining <= BufferSize
  BY UdpAssumption DEF NotStarted
<1>1. socket # <<>> => Len(socket[1]) \in Nat
  BY DEF PacketsAreSequences
<1>2. CASE ReceiveWaiting
  <2>1. CASE KindNotStarted(socket[1]) = "DeclareSize"
    BY <1>2, <2>1, DeclareKeeps DEF ReceiveWaiting, IInv, TransferWithinBuffer, RunningUnchanged
  <2>2. CASE KindNotStarted(socket[1]) # "DeclareSize"
    BY <1>2, <2>2 DEF ReceiveWaiting, IInv, TransferWithinBuffer, RunningUnchanged
  <2> QED
    BY <2>1, <2>2
<1>3. CASE ReceivePart
  <2>1. /\ ~Overruns(socket[1])
        /\ Advanced(socket[1]) \in [offset : Nat, remaining : Nat]
        /\ Advanced(socket[1]).offset + Advanced(socket[1]).remaining <= BufferSize
    BY <1>1, <1>3, AcceptedFits DEF ReceivePart
  <2> QED
    BY <1>3, <2>1 DEF ReceivePart, Receiving, IInv, TransferWithinBuffer, RunningUnchanged
<1>4. CASE ReceiveLast
  <2>1. ~Overruns(socket[1])
    BY <1>1, <1>4, AcceptedFits DEF ReceiveLast
  <2> QED
    BY <1>0, <1>4, <2>1 DEF ReceiveLast, IInv, TransferWithinBuffer, RunningUnchanged
<1>5. CASE ReceiveStopped
  BY <1>0, <1>5 DEF ReceiveStopped, IInv, TransferWithinBuffer, RunningUnchanged
<1>6. CASE ReceiveRunning
  <2>1. CASE KindNotStarted(socket[1]) = "DeclareSize"
    BY <1>6, <2>1, DeclareKeeps DEF ReceiveRunning, IInv, TransferWithinBuffer, RunningUnchanged
  <2>2. CASE KindNotStarted(socket[1]) # "DeclareSize"
    BY <1>6, <2>2 DEF ReceiveRunning, IInv, TransferWithinBuffer, RunningUnchanged
  <2> QED
    BY <2>1, <2>2
<1>7. CASE CapsuleFinishes
  BY <1>7 DEF CapsuleFinishes, IInv, TransferWithinBuffer, RunningUnchanged
<1>8. CASE Script \/ UNCHANGED vars
  <2>1. UNCHANGED device
    BY <1>8 DEF Script, Deliver, LosePacket, Interfere, StartScript, vars
  <2> QED
    BY <2>1 DEF device, IInv, TransferWithinBuffer, RunningUnchanged
<1> QED
  BY <1>2, <1>3, <1>4, <1>5, <1>6, <1>7, <1>8 DEF Next, Receive

LEMMA SpecIInv == Spec => []IInv
  BY InitIInv, StepIInv, SpecPackets, PTL DEF Spec

(* No chunk is ever written beyond the buffer, whatever is lost and whatever *)
(* is taken for a size.                                                      *)
THEOREM TransferWithinBufferHolds == Spec => []TransferWithinBuffer
  BY SpecIInv, PTL DEF IInv

(* While a capsule runs, the buffer it was deserialized from does not change *)
(* (the requirement of deserialize_raw).                                     *)
THEOREM RunningUnchangedHolds == Spec => []RunningUnchanged
  BY SpecIInv, PTL DEF IInv
-----------------------------------------------------------------------------
(* A packet that is copied into the buffer leaves bytes in every slot.       *)
LEMMA FilledType ==
  ASSUME buffer \in [Slots -> Byte], progress.offset \in Nat, NEW packet \in Seq(Byte)
  PROVE  Filled(packet) \in [Slots -> Byte]
<1>1. ASSUME NEW i \in Slots, i > progress.offset, i <= progress.offset + Len(packet)
      PROVE  packet[i - progress.offset] \in Byte
  <2>1. i \in Nat /\ Len(packet) \in Nat
    BY UdpAssumption DEF Slots
  <2>2. i - progress.offset \in 1..Len(packet)
    BY <1>1, <2>1
  <2> QED
    BY <2>2
<1>2. ASSUME NEW i \in Slots
      PROVE  (IF i > progress.offset /\ i <= progress.offset + Len(packet)
              THEN packet[i - progress.offset] ELSE buffer[i]) \in Byte
  BY <1>1
<1> QED
  BY <1>2 DEF Filled

(* The buffer as the bytes of an instance.                                   *)
LEMMA BufferIsBytes ==
  ASSUME NEW b \in [Slots -> Byte]
  PROVE  b \in Seq(Byte)
<1>1. BufferSize \in Nat
  BY UdpAssumption
<1> QED
  BY <1>1 DEF Slots

LEMMA InitTypeOK == Init => TypeOK
<1>1. BufferSize \in Nat /\ Zero \in Byte
  BY UdpAssumption
<1>2. [i \in Slots |-> Zero] \in [Slots -> Byte]
  BY <1>1
<1>3. NotStarted \in [offset : 0..BufferSize, remaining : 0..BufferSize]
  BY <1>1 DEF NotStarted
<1> SUFFICES ASSUME Init
             PROVE  TypeOK
  OBVIOUS
<1>4. /\ socket = <<>> /\ outbox = <<>> /\ running = <<>>
      /\ buffer \in [Slots -> Byte] /\ astray \in BOOLEAN /\ pc \in PC
  BY <1>2 DEF Init, PC
<1>5. progress \in [offset : 0..BufferSize, remaining : 0..BufferSize]
  BY <1>3 DEF Init
<1>6. /\ running \in Seq(Byte) /\ outbox \in Seq(Seq(Byte))
      /\ socket \in Seq(Seq(Byte)) /\ Len(socket) <= 1
  BY <1>4
<1> QED
  BY <1>4, <1>5, <1>6 DEF TypeOK

LEMMA StepTypeOK == TypeOK /\ IInv /\ IInv' /\ PacketsAreSequences' /\ [Next]_vars => TypeOK'
<1> SUFFICES ASSUME TypeOK, IInv, IInv', PacketsAreSequences', [Next]_vars
             PROVE  TypeOK'
  OBVIOUS
<1> USE DEF TypeOK
<1>1. progress' \in [offset : 0..BufferSize, remaining : 0..BufferSize]
  <2>1. /\ progress' \in [offset : Nat, remaining : Nat]
        /\ progress'.offset + progress'.remaining <= BufferSize
    BY DEF IInv, TransferWithinBuffer
  <2>2. BufferSize \in Nat
    BY UdpAssumption
  <2>3. progress'.offset \in 0..BufferSize /\ progress'.remaining \in 0..BufferSize
    BY <2>1, <2>2
  <2> QED
    BY <2>1, <2>3
<1>2. socket' \in Seq(Seq(Byte)) /\ outbox' \in Seq(Seq(Byte))
  BY DEF PacketsAreSequences
<1>3. socket # <<>> => socket[1] \in Seq(Byte)
  OBVIOUS
<1>4. progress.offset \in Nat
  BY DEF IInv
<1>5. CASE ReceiveWaiting \/ ReceiveRunning
  <2>1. socket' = <<>> /\ UNCHANGED <<buffer, running>>
    BY <1>5 DEF ReceiveWaiting, ReceiveRunning, Take
  <2>2. pc' \in PC
    BY <1>5 DEF ReceiveWaiting, ReceiveRunning, PC
  <2>3. UNCHANGED astray \/ astray' = (astray \/ \A n \in SizeRange : SizePacket[n] # socket[1])
    BY <1>5 DEF ReceiveWaiting, ReceiveRunning, Declare
  <2>4. astray' \in BOOLEAN
    BY <2>3
  <2>5. Len(socket') <= 1
    BY <2>1
  <2> QED
    BY <1>1, <1>2, <2>1, <2>2, <2>4, <2>5
<1>6. CASE ReceivePart \/ ReceiveLast
  <2>1. Filled(socket[1]) \in [Slots -> Byte] /\ Filled(socket[1]) \in Seq(Byte)
    BY <1>3, <1>4, <1>6, FilledType, BufferIsBytes DEF ReceivePart, ReceiveLast
  <2>2. <<>> \in Seq(Byte)
    OBVIOUS
  <2> QED
    BY <1>1, <1>2, <1>6, <2>1, <2>2 DEF ReceivePart, ReceiveLast, Take, PC
<1>7. CASE ReceiveStopped \/ CapsuleFinishes
  BY <1>1, <1>2, <1>7 DEF ReceiveStopped, CapsuleFinishes, Take, PC
<1>8. CASE Script
  <2>1. /\ UNCHANGED device
        /\ \/ astray' = astray \/ astray' = TRUE
           \/ astray' = (astray /\ ~Quiet)
        /\ \/ socket' = socket \/ socket' = <<Head(outbox)>>
           \/ \E packet \in StrayPacket : socket' = <<packet>>
    BY <1>8 DEF Script, Deliver, LosePacket, Interfere, StartScript
  <2>2. Len(socket') <= 1
    <3>1. Len(socket) <= 1
      OBVIOUS
    <3>2. \A packet : Len(<<packet>>) <= 1
      OBVIOUS
    <3> QED
      BY <2>1, <3>1, <3>2
  <2>3. UNCHANGED <<pc, buffer, running>>
    BY <2>1 DEF device
  <2>4. astray' \in BOOLEAN
    BY <2>1
  <2> QED
    BY <1>1, <1>2, <2>2, <2>3, <2>4
<1>9. CASE UNCHANGED vars
  BY <1>9 DEF vars, device
<1> QED
  BY <1>5, <1>6, <1>7, <1>8, <1>9 DEF Next, Receive

(* Every variable keeps its shape; offset and missing bytes stay within the  *)
(* size of the buffer.                                                       *)
THEOREM TypeCorrect == Spec => []TypeOK
  BY InitTypeOK, StepTypeOK, SpecIInv, SpecPackets, PTL DEF Spec
-----------------------------------------------------------------------------
(* What the device has yet to take: the rest of the file that is on its way, *)
(* and the whole of the next one if its script has been started.             *)
Pending == socket \o outbox

Rest(file, j) == [i \in 1..ChunkCount(file) - j |-> Chunk(file, j + i)]

Whole == {<<>>} \cup {Packets(file) : file \in File}

Remains(file, j) ==
  /\ j \in 0..ChunkCount(file) - 1
  /\ \E t \in Whole : Pending = Rest(file, j) \o t

(* The device has taken the first j chunks of a file, and they are at the    *)
(* start of the buffer.                                                      *)
InTransfer ==
  \E file \in File : \E j \in 0..ChunkCount(file) - 1 :
    /\ Remains(file, j)
    /\ Len(file) <= BufferSize
    /\ progress = [offset |-> j * ChunkSize, remaining |-> Len(file) - j * ChunkSize]
    /\ \A i \in 1..j * ChunkSize : buffer[i] = file[i]

(* No transfer is under way: a whole file is to come, or what is left of one *)
(* whose size was refused.                                                   *)
Between ==
  \/ Pending \in Whole
  \/ \E file \in File : \E j \in 0..ChunkCount(file) - 1 : Len(file) > BufferSize /\ Remains(file, j)

FInv == ~astray => IF Receiving THEN InTransfer ELSE Between

(* Files are not empty (TransfersEnd says what an empty one does), sizes are *)
(* told apart, and no chunk of a file that is too long is the packet of a    *)
(* size.                                                                     *)
FilesAndSizes ==
  /\ <<>> \notin File
  /\ \A m, n \in SizeRange : SizePacket[m] = SizePacket[n] => m = n
  /\ \A file \in File : Len(file) > BufferSize =>
       \A k \in 1..ChunkCount(file) : \A n \in SizeRange : Chunk(file, k) # SizePacket[n]
-----------------------------------------------------------------------------
LEMMA ChunkBounds ==
  ASSUME FilesAndSizes, NEW file \in File, NEW j \in 0..ChunkCount(file) - 1
  PROVE  /\ ChunkCount(file) \in Nat /\ Len(file) \in Nat /\ j \in Nat
         /\ j * ChunkSize \in Nat /\ j * ChunkSize < Len(file)
         /\ (j + 1) * ChunkSize = j * ChunkSize + ChunkSize
         /\ j + 1 < ChunkCount(file) <=> (j + 1) * ChunkSize < Len(file)
<1> DEFINE n == ChunkCount(file)
           a == Len(file) + ChunkSize - 1
<1>1. /\ file \in Seq(Byte) /\ Len(file) \in Nat
      /\ ChunkSize \in Nat /\ ChunkSize > 0 /\ BufferSize \in Nat
  BY UdpAssumption
<1>2. a \in Nat /\ n = a \div ChunkSize
  BY <1>1 DEF ChunkCount
<1>3. n \in Nat /\ j \in Nat /\ j + 1 <= n
  BY <1>1, <1>2
<1> HIDE DEF n, a
<1>4. n * ChunkSize <= a /\ a < n * ChunkSize + ChunkSize
  BY <1>1, <1>2, <1>3
<1>5. /\ (j + 1) * ChunkSize = j * ChunkSize + ChunkSize
      /\ j * ChunkSize \in Nat /\ n * ChunkSize \in Nat
  BY <1>1, <1>3
<1>6. \A m \in Nat : m <= n => m * ChunkSize <= n * ChunkSize
  BY <1>1, <1>3
<1>7. (j + 1) * ChunkSize <= n * ChunkSize
  BY <1>3, <1>6
<1>8. j * ChunkSize < Len(file)
  BY <1>1, <1>4, <1>5, <1>7 DEF a
<1>9. j + 1 < n => (j + 1) * ChunkSize < Len(file)
  <2> SUFFICES ASSUME j + 1 < n
               PROVE  (j + 1) * ChunkSize < Len(file)
    OBVIOUS
  <2>1. (j + 2) * ChunkSize <= n * ChunkSize
    BY <1>3, <1>6
  <2>2. (j + 2) * ChunkSize = (j + 1) * ChunkSize + ChunkSize
    BY <1>1, <1>3
  <2>3. (j + 1) * ChunkSize \in Nat
    BY <1>1, <1>3
  <2> QED
    BY <1>1, <1>4, <1>5, <2>1, <2>2, <2>3 DEF a
<1>10. ~(j + 1 < n) => ~((j + 1) * ChunkSize < Len(file))
  <2> SUFFICES ASSUME ~(j + 1 < n)
               PROVE  ~((j + 1) * ChunkSize < Len(file))
    OBVIOUS
  <2>1. j + 1 = n
    BY <1>3
  <2> QED
    BY <1>1, <1>4, <1>5, <2>1 DEF a
<1> QED
  BY <1>1, <1>3, <1>5, <1>8, <1>9, <1>10 DEF n

LEMMA TheChunk ==
  ASSUME FilesAndSizes, NEW file \in File, NEW j \in 0..ChunkCount(file) - 1
  PROVE  /\ Chunk(file, j + 1) \in Seq(Byte)
         /\ Len(Chunk(file, j + 1)) =
              IF j + 1 < ChunkCount(file) THEN ChunkSize ELSE Len(file) - j * ChunkSize
         /\ \A i \in 1..Len(Chunk(file, j + 1)) : Chunk(file, j + 1)[i] = file[j * ChunkSize + i]
<1> DEFINE from == j * ChunkSize
           to == IF (j + 1) * ChunkSize < Len(file) THEN (j + 1) * ChunkSize ELSE Len(file)
<1>1. /\ file \in Seq(Byte) /\ Len(file) \in Nat /\ j \in Nat
      /\ ChunkSize \in Nat /\ ChunkSize > 0
  BY UdpAssumption, ChunkBounds
<1>2. from \in Nat /\ from < Len(file) /\ (j + 1) * ChunkSize = from + ChunkSize
  BY ChunkBounds
<1>3. to \in Nat /\ from < to /\ to <= Len(file)
  BY <1>1, <1>2
<1>4. Chunk(file, j + 1) = SubSeq(file, from + 1, to)
  <2> DEFINE k == j + 1
  <2>1. k - 1 = j
    BY <1>1
  <2> HIDE DEF k
  <2>2. Chunk(file, k) = SubSeq(file, (k - 1) * ChunkSize + 1,
                                IF k * ChunkSize < Len(file) THEN k * ChunkSize ELSE Len(file))
    BY DEF Chunk
  <2>3. Chunk(file, k) = SubSeq(file, j * ChunkSize + 1,
                                IF k * ChunkSize < Len(file) THEN k * ChunkSize ELSE Len(file))
    BY <2>1, <2>2, Zenon
  <2> QED
    BY <2>3, Zenon DEF k
<1>5. to - from = IF j + 1 < ChunkCount(file) THEN ChunkSize ELSE Len(file) - from
  <2>1. j + 1 < ChunkCount(file) <=> (j + 1) * ChunkSize < Len(file)
    BY ChunkBounds
  <2>2. to = IF j + 1 < ChunkCount(file) THEN from + ChunkSize ELSE Len(file)
    BY <1>2, <2>1
  <2> HIDE DEF from, to
  <2> QED
    BY <1>1, <1>2, <2>2
<1> HIDE DEF from, to
<1>6. \A i \in from + 1..to : file[i] \in Byte
  BY <1>1, <1>2, <1>3
<1>7. /\ SubSeq(file, from + 1, to) \in Seq(Byte)
      /\ Len(SubSeq(file, from + 1, to)) = to - from
      /\ \A i \in 1..to - from : SubSeq(file, from + 1, to)[i] = file[from + i]
  <2>1. from + 1 \in Int /\ to \in Int /\ from + 1 <= to /\ to - (from + 1) + 1 = to - from
    BY <1>2, <1>3
  <2>2. /\ SubSeq(file, from + 1, to) \in Seq(Byte)
        /\ Len(SubSeq(file, from + 1, to)) = to - (from + 1) + 1
        /\ \A i \in 1..to - (from + 1) + 1 : SubSeq(file, from + 1, to)[i] = file[from + 1 + i - 1]
    BY <1>6, <2>1, SubSeqProperties
  <2>3. \A i \in 1..to - from : from + 1 + i - 1 = from + i
    BY <1>2, <1>3
  <2> QED
    BY <2>1, <2>2, <2>3
<1> QED
  BY <1>4, <1>5, <1>7 DEF from

(* Taking the chunks one by one.                                             *)
LEMMA RestType ==
  ASSUME FilesAndSizes, NEW file \in File, NEW j \in 0..ChunkCount(file) - 1
  PROVE  /\ Rest(file, j) \in Seq(Seq(Byte)) /\ Len(Rest(file, j)) = ChunkCount(file) - j
         /\ Rest(file, j)[1] = Chunk(file, j + 1)
<1>1. ChunkCount(file) \in Nat /\ j \in Nat /\ ChunkCount(file) - j \in Nat
  BY ChunkBounds
<1>2. ASSUME NEW i \in 1..ChunkCount(file) - j
      PROVE  Chunk(file, j + i) \in Seq(Byte)
  <2>1. j + i - 1 \in 0..ChunkCount(file) - 1 /\ (j + i - 1) + 1 = j + i
    BY <1>1
  <2> QED
    BY <2>1, TheChunk
<1> QED
  BY <1>1, <1>2 DEF Rest

LEMMA WholeType == \A t \in Whole : t \in Seq(Seq(Byte))
<1>1. <<>> \in Seq(Seq(Byte))
  OBVIOUS
<1> QED
  BY <1>1, ScriptPackets DEF Whole

LEMMA RestUnfolds ==
  ASSUME FilesAndSizes, NEW file \in File, NEW j \in 0..ChunkCount(file) - 1, NEW t \in Whole
  PROVE  /\ (Rest(file, j) \o t)[1] = Chunk(file, j + 1)
         /\ j + 1 < ChunkCount(file) => Tail(Rest(file, j) \o t) = Rest(file, j + 1) \o t
         /\ j + 1 = ChunkCount(file) => Tail(Rest(file, j) \o t) = t
<1> DEFINE s == Rest(file, j)
           u == Tail(s \o t)
<1>1. /\ t \in Seq(Seq(Byte)) /\ s \in Seq(Seq(Byte)) /\ Len(s) = ChunkCount(file) - j
      /\ ChunkCount(file) \in Nat /\ j \in Nat /\ Len(s) \in Nat /\ Len(s) > 0 /\ Len(t) \in Nat
  BY WholeType, RestType, ChunkBounds
<1>2. \A i \in 1..Len(s) : s[i] = Chunk(file, j + i)
  BY <1>1 DEF Rest
<1> HIDE DEF s
<1>3. /\ s \o t \in Seq(Seq(Byte)) /\ Len(s \o t) = Len(s) + Len(t)
      /\ \A i \in 1..Len(s) + Len(t) : (s \o t)[i] = IF i <= Len(s) THEN s[i] ELSE t[i - Len(s)]
  BY <1>1, ConcatProperties
<1>4. (s \o t)[1] = Chunk(file, j + 1)
  BY <1>1, <1>2, <1>3
<1>5. /\ u \in Seq(Seq(Byte)) /\ Len(u) = Len(s) + Len(t) - 1
      /\ \A i \in 1..Len(u) : u[i] = (s \o t)[i + 1]
  <2>1. s \o t # <<>>
    BY <1>1, <1>3
  <2> QED
    BY <1>3, <2>1, HeadTailProperties
<1> HIDE DEF u
<1>6. ASSUME j + 1 < ChunkCount(file)
      PROVE  u = Rest(file, j + 1) \o t
  <2> DEFINE r == Rest(file, j + 1)
  <2>1. j + 1 \in 0..ChunkCount(file) - 1
    BY <1>1, <1>6
  <2>2. r \in Seq(Seq(Byte)) /\ Len(r) = Len(s) - 1
    BY <1>1, <2>1, RestType
  <2>3. \A i \in 1..Len(r) : r[i] = s[i + 1]
    <3>1. \A i \in 1..Len(r) : r[i] = Chunk(file, j + 1 + i)
      BY <1>1, <2>2 DEF Rest
    <3>2. \A i \in 1..Len(r) : i + 1 \in 1..Len(s) /\ j + (i + 1) = j + 1 + i
      BY <1>1, <2>2
    <3> QED
      BY <1>2, <3>1, <3>2
  <2> HIDE DEF r
  <2>4. /\ r \o t \in Seq(Seq(Byte)) /\ Len(r \o t) = Len(r) + Len(t)
        /\ \A i \in 1..Len(r) + Len(t) : (r \o t)[i] = IF i <= Len(r) THEN r[i] ELSE t[i - Len(r)]
    BY <1>1, <2>2, ConcatProperties
  <2>5. Len(u) = Len(r \o t)
    BY <1>1, <1>5, <2>2, <2>4
  <2>6. ASSUME NEW i \in 1..Len(u)
        PROVE  u[i] = (r \o t)[i]
    <3>1. u[i] = IF i + 1 <= Len(s) THEN s[i + 1] ELSE t[i + 1 - Len(s)]
      <4>1. i + 1 \in 1..Len(s) + Len(t)
        BY <1>1, <1>5
      <4> QED
        BY <1>3, <1>5, <4>1
    <3>0. i \in Nat /\ i > 0 /\ Len(s) \in Nat /\ Len(r) = Len(s) - 1
      BY <1>1, <1>5, <2>2
    <3>2. (r \o t)[i] = IF i <= Len(r) THEN r[i] ELSE t[i - Len(r)]
      <4>1. i \in 1..Len(r) + Len(t)
        BY <2>4, <2>5
      <4> QED
        BY <2>4, <4>1
    <3>3. (i + 1 <= Len(s) <=> i <= Len(r)) /\ i + 1 - Len(s) = i - Len(r)
      BY <3>0
    <3>4. i <= Len(r) => r[i] = s[i + 1]
      <4>1. i <= Len(r) => i \in 1..Len(r)
        BY <3>0
      <4> QED
        BY <2>3, <4>1
    <3> QED
      BY <3>1, <3>2, <3>3, <3>4
  <2>7. u = r \o t
    BY <1>5, <2>4, <2>5, <2>6, SeqEqual
  <2> QED
    BY <2>7 DEF r
<1>7. ASSUME j + 1 = ChunkCount(file)
      PROVE  u = t
  <2>1. Len(s) = 1
    BY <1>1, <1>7
  <2>0. Len(t) \in Nat /\ Len(u) = Len(s) + Len(t) - 1
    BY <1>1, <1>5
  <2>2. Len(u) = Len(t)
    BY <2>0, <2>1
  <2>3. ASSUME NEW i \in 1..Len(u)
        PROVE  u[i] = t[i]
    <3>1. /\ i + 1 \in 1..Len(s) + Len(t) /\ i \in Nat /\ i > 0
          /\ ~(i + 1 <= Len(s)) /\ i + 1 - Len(s) = i
      BY <2>0, <2>1, <2>2
    <3>2. u[i] = (s \o t)[i + 1]
      BY <1>5
    <3> QED
      BY <1>3, <3>1, <3>2
  <2> QED
    BY <1>1, <1>5, <2>2, <2>3, SeqEqual
<1> QED
  BY <1>4, <1>6, <1>7 DEF s, u

LEMMA PacketsUnfold ==
  ASSUME FilesAndSizes, NEW file \in File
  PROVE  LET n == IF Len(file) \in SizeRange THEN Len(file) ELSE BufferSize + 1 IN
         /\ n \in SizeRange /\ Packets(file)[1] = SizePacket[n]
         /\ Tail(Packets(file)) = Rest(file, 0) \o <<>>
         /\ 0 \in 0..ChunkCount(file) - 1
         /\ Packets(file) \in Seq(Seq(Byte)) /\ Len(Packets(file)) > 1
         /\ Len(file) > BufferSize <=> n > BufferSize
         /\ Len(file) <= BufferSize => n = Len(file)
<1> DEFINE n == IF Len(file) \in SizeRange THEN Len(file) ELSE BufferSize + 1
<1>1. Len(file) \in Nat /\ Len(file) > 0 /\ BufferSize \in Nat /\ ChunkSize \in Nat /\ ChunkSize > 0
  <2>1. file \in Seq(Byte) /\ file # <<>>
    BY UdpAssumption DEF FilesAndSizes
  <2> QED
    BY <2>1, EmptySeq, UdpAssumption
<1>2. n \in SizeRange /\ (Len(file) > BufferSize <=> n > BufferSize) /\ (Len(file) <= BufferSize => n = Len(file))
  BY <1>1 DEF SizeRange
<1> HIDE DEF n
<1>3. ChunkCount(file) \in Nat /\ ChunkCount(file) > 0
  <2> DEFINE a == Len(file) + ChunkSize - 1
  <2>1. a \in Nat /\ a >= ChunkSize /\ ChunkCount(file) = a \div ChunkSize
    BY <1>1 DEF ChunkCount
  <2> HIDE DEF a
  <2> QED
    BY <1>1, <2>1
<1>4. 0 \in 0..ChunkCount(file) - 1
  BY <1>3
<1>5. Rest(file, 0) = [k \in 1..ChunkCount(file) |-> Chunk(file, k)]
  BY <1>3 DEF Rest
<1>6. Rest(file, 0) \in Seq(Seq(Byte)) /\ Len(Rest(file, 0)) = ChunkCount(file)
  BY <1>3, <1>4, RestType
<1>7. SizePacket[n] \in Seq(Byte)
  BY <1>2, UdpAssumption
<1>8. Packets(file) = <<SizePacket[n]>> \o Rest(file, 0)
  BY <1>5 DEF Packets, n
<1>9. \A s \in Seq(Seq(Byte)), e \in Seq(Byte) :
        /\ <<e>> \o s \in Seq(Seq(Byte)) /\ (<<e>> \o s)[1] = e
        /\ Len(<<e>> \o s) = 1 + Len(s) /\ Tail(<<e>> \o s) = s
  OBVIOUS
<1>10. /\ Packets(file) \in Seq(Seq(Byte)) /\ Packets(file)[1] = SizePacket[n]
       /\ Len(Packets(file)) = 1 + ChunkCount(file) /\ Tail(Packets(file)) = Rest(file, 0)
  BY <1>6, <1>7, <1>8, <1>9
<1>11. Rest(file, 0) \o <<>> = Rest(file, 0)
  BY <1>6, ConcatEmptySeq
<1> QED
  BY <1>2, <1>3, <1>4, <1>10, <1>11 DEF n
-----------------------------------------------------------------------------
(* How the steps move along what is pending.                                 *)
LEMMA PendingTaken ==
  ASSUME TypeOK, socket # <<>>, Take
  PROVE  /\ Pending # <<>> /\ Pending[1] = socket[1] /\ Pending' = Tail(Pending)
         /\ socket[1] \in Seq(Byte)
<1>1. socket \in Seq(Seq(Byte)) /\ outbox \in Seq(Seq(Byte)) /\ Len(socket) = 1
  <2>1. socket \in Seq(Seq(Byte)) /\ outbox \in Seq(Seq(Byte)) /\ Len(socket) <= 1
    BY DEF TypeOK
  <2>2. Len(socket) \in Nat \ {0}
    BY <2>1, EmptySeq
  <2>3. Len(socket) = 1
    <3> DEFINE n == Len(socket)
    <3>1. n \in Nat \ {0} /\ n <= 1
      BY <2>1, <2>2
    <3> HIDE DEF n
    <3>2. n = 1
      BY <3>1
    <3> QED
      BY <3>2 DEF n
  <2> QED
    BY <2>1, <2>3
<1>2. socket[1] \in Seq(Byte) /\ socket = <<socket[1]>>
  BY <1>1
<1>3. \A e \in Seq(Byte), t \in Seq(Seq(Byte)) :
        <<e>> \o t # <<>> /\ (<<e>> \o t)[1] = e /\ Tail(<<e>> \o t) = t
  OBVIOUS
<1>4. Pending = <<socket[1]>> \o outbox
  BY <1>2 DEF Pending
<1>5. Pending' = outbox
  <2>1. socket' = <<>> /\ outbox' = outbox
    BY DEF Take
  <2> QED
    BY <1>1, <2>1, ConcatEmptySeq DEF Pending
<1> QED
  BY <1>1, <1>2, <1>3, <1>4, <1>5

LEMMA PendingDelivered ==
  ASSUME TypeOK, Deliver
  PROVE  Pending' = Pending
<1>1. outbox \in Seq(Seq(Byte)) /\ outbox # <<>> /\ socket = <<>>
  BY DEF TypeOK, Deliver
<1>2. \A t \in Seq(Seq(Byte)) : t # <<>> => <<Head(t)>> \o Tail(t) = t
  OBVIOUS
<1>3. Pending' = <<Head(outbox)>> \o Tail(outbox)
  BY DEF Pending, Deliver
<1>4. Pending = outbox
  BY <1>1, ConcatEmptySeq DEF Pending
<1> QED
  BY <1>1, <1>2, <1>3, <1>4

(* A script is started when at most one packet is pending, hence not between *)
(* the size of a file and its chunks.                                        *)
LEMMA StartedBehind ==
  ASSUME FilesAndSizes, TypeOK, NEW file \in File, StartScript(file),
         NEW t \in Whole
  PROVE  /\ Pending = t => Pending' \in Whole
         /\ \A f \in File : \A j \in 0..ChunkCount(f) - 1 :
              Pending = Rest(f, j) \o t => Pending' = Rest(f, j) \o Packets(file)
<1>1. /\ socket \in Seq(Seq(Byte)) /\ Len(socket) \in Nat /\ Len(socket) <= 1
      /\ outbox = <<>> /\ socket' = socket /\ outbox' = Packets(file)
  BY DEF TypeOK, StartScript
<1>2. Pending = socket
  BY <1>1, ConcatEmptySeq DEF Pending
<1>3. Pending' = socket \o Packets(file)
  BY <1>1 DEF Pending
<1>4. Packets(file) \in Seq(Seq(Byte))
  BY PacketsUnfold
<1>5. t = <<>> \/ Len(t) > 1
  BY PacketsUnfold DEF Whole
<1>6. ASSUME Pending = t
      PROVE  Pending' \in Whole
  <2>1. socket = <<>>
    BY <1>1, <1>2, <1>5, <1>6
  <2>2. Pending' = Packets(file)
    BY <1>3, <1>4, <2>1, ConcatEmptySeq
  <2> QED
    BY <2>2 DEF Whole
<1>7. ASSUME NEW f \in File, NEW j \in 0..ChunkCount(f) - 1, Pending = Rest(f, j) \o t
      PROVE  Pending' = Rest(f, j) \o Packets(file)
  <2>1. Rest(f, j) \in Seq(Seq(Byte)) /\ Len(Rest(f, j)) \in Nat /\ Len(Rest(f, j)) > 0
    BY RestType, ChunkBounds
  <2>2. t \in Seq(Seq(Byte)) /\ Len(t) \in Nat
    BY WholeType
  <2>3. Len(Rest(f, j) \o t) = Len(Rest(f, j)) + Len(t)
    BY <2>1, <2>2, ConcatProperties
  <2>4. ~(Len(t) > 1)
    BY <1>1, <1>2, <1>7, <2>1, <2>2, <2>3
  <2>5. Rest(f, j) \o t = Rest(f, j)
    BY <1>5, <2>1, <2>4, ConcatEmptySeq
  <2> QED
    BY <1>2, <1>3, <1>7, <2>5
<1> QED
  BY <1>6, <1>7

(* A packet that is taken for a size outside of a transfer.                  *)
LEMMA SizeIsRead ==
  ASSUME FilesAndSizes, NEW n \in SizeRange
  PROVE  /\ SizeOf(SizePacket[n]) = n
         /\ KindNotStarted(SizePacket[n]) = "DeclareSize" <=> n <= BufferSize
<1>1. /\ Len(SizePacket[n]) = SizeBytes /\ SizeBytes # 0
      /\ BufferSize \in Nat /\ n \in Nat
  BY UdpAssumption DEF SizeRange
<1>2. SizeOf(SizePacket[n]) = n
  BY DEF SizeOf, FilesAndSizes
<1> QED
  BY <1>1, <1>2 DEF KindNotStarted

LEMMA BetweenKept ==
  ASSUME FilesAndSizes, TypeOK, Between, socket # <<>>, Take,
         \/ KindNotStarted(socket[1]) = "DeclareSize" /\ Declare /\ astray' = FALSE /\ buffer' = buffer
         \/ KindNotStarted(socket[1]) # "DeclareSize"
  PROVE  IF KindNotStarted(socket[1]) = "DeclareSize" THEN InTransfer' ELSE Between'
<1> DEFINE declared == KindNotStarted(socket[1]) = "DeclareSize"
<1>1. /\ Pending # <<>> /\ Pending[1] = socket[1] /\ Pending' = Tail(Pending)
  BY PendingTaken
<1>2. <<>> \in Whole
  BY DEF Whole
<1>3. ASSUME NEW file \in File, Pending = Packets(file)
      PROVE  IF declared THEN InTransfer' ELSE Between'
  <2>1. PICK n \in SizeRange :
          /\ Packets(file)[1] = SizePacket[n]
          /\ Tail(Packets(file)) = Rest(file, 0) \o <<>>
          /\ 0 \in 0..ChunkCount(file) - 1
          /\ Len(file) > BufferSize <=> n > BufferSize
          /\ Len(file) <= BufferSize => n = Len(file)
    BY PacketsUnfold, Zenon
  <2>2. Remains(file, 0)'
    BY <1>1, <1>2, <1>3, <2>1 DEF Remains
  <2>3. socket[1] = SizePacket[n]
    BY <1>1, <1>3, <2>1
  <2>4. BufferSize \in Nat /\ n \in Nat /\ Len(file) \in Nat
    BY UdpAssumption DEF SizeRange
  <2>5. CASE declared
    <3>1. n <= BufferSize
      BY <2>3, <2>5, SizeIsRead
    <3>2. Len(file) <= BufferSize /\ n = Len(file)
      BY <2>1, <2>4, <3>1
    <3>3. progress' = [offset |-> 0, remaining |-> n]
      BY <2>3, <2>5, SizeIsRead DEF Declare
    <3>4. 0 * ChunkSize = 0 /\ Len(file) - 0 = Len(file)
      BY <2>4, UdpAssumption
    <3>5. progress' = [offset |-> 0 * ChunkSize, remaining |-> Len(file) - 0 * ChunkSize]
      BY <3>2, <3>3, <3>4
    <3>6. \A i \in 1..0 * ChunkSize : buffer'[i] = file[i]
      BY <3>4
    <3> QED
      BY <2>1, <2>2, <2>5, <3>2, <3>5, <3>6 DEF InTransfer
  <2>6. CASE ~declared
    <3>1. ~(n <= BufferSize)
      BY <2>3, <2>6, SizeIsRead
    <3>2. Len(file) > BufferSize
      BY <2>1, <2>4, <3>1
    <3> QED
      BY <2>1, <2>2, <2>6, <3>2 DEF Between
  <2> QED
    BY <2>5, <2>6
<1>4. ASSUME NEW file \in File, NEW j \in 0..ChunkCount(file) - 1,
             Len(file) > BufferSize, Remains(file, j)
      PROVE  IF declared THEN InTransfer' ELSE Between'
  <2>1. PICK t \in Whole : Pending = Rest(file, j) \o t
    BY <1>4 DEF Remains
  <2>2. ChunkCount(file) \in Nat /\ j \in Nat /\ j + 1 \in 1..ChunkCount(file)
    BY ChunkBounds
  <2>3. socket[1] = Chunk(file, j + 1)
    BY <1>1, <2>1, RestUnfolds
  <2>4. \A n \in SizeRange : SizePacket[n] # socket[1]
    BY <1>4, <2>2, <2>3 DEF FilesAndSizes
  <2>5. ~declared
    BY <2>4 DEF Declare
  <2>6. CASE j + 1 < ChunkCount(file)
    <3>1. j + 1 \in 0..ChunkCount(file) - 1
      BY <2>2, <2>6
    <3>2. Pending' = Rest(file, j + 1) \o t
      BY <1>1, <2>1, <2>6, RestUnfolds
    <3>3. Remains(file, j + 1)'
      BY <3>1, <3>2 DEF Remains
    <3> QED
      BY <1>4, <2>5, <3>1, <3>3 DEF Between
  <2>7. CASE j + 1 = ChunkCount(file)
    <3>1. Pending' = t
      BY <1>1, <2>1, <2>7, RestUnfolds
    <3> QED
      BY <2>5, <3>1 DEF Between
  <2> QED
    BY <2>2, <2>6, <2>7
<1>5. CASE Pending \in Whole
  <2>1. PICK file \in File : Pending = Packets(file)
    BY <1>1, <1>5 DEF Whole
  <2> QED
    BY <1>3, <2>1
<1> QED
  BY <1>4, <1>5 DEF Between

(* The next chunk of the file that is being received: it is accepted, and    *)
(* the transfer goes on or the whole file is at the start of the buffer.     *)
LEMMA ChunkFills ==
  ASSUME FilesAndSizes, TypeOK, InTransfer, socket # <<>>, Take
  PROVE  /\ KindInProgress(socket[1]) \notin {"ProgressStopped", "SizeTooBig"}
         /\ ~Overruns(socket[1])
         /\ KindInProgress(socket[1]) = "PartialFill"
              /\ buffer' = Filled(socket[1]) /\ progress' = Advanced(socket[1])
            => InTransfer'
         /\ KindInProgress(socket[1]) = "BufferFiled" /\ buffer' = Filled(socket[1])
            => Between' /\ \E file \in File : BeginsWith(buffer', file)
<1>0. PICK file \in File : \E j \in 0..ChunkCount(file) - 1 :
        /\ Remains(file, j)
        /\ Len(file) <= BufferSize
        /\ progress = [offset |-> j * ChunkSize, remaining |-> Len(file) - j * ChunkSize]
        /\ \A i \in 1..j * ChunkSize : buffer[i] = file[i]
  BY DEF InTransfer
<1>1. PICK j \in 0..ChunkCount(file) - 1 :
        /\ Remains(file, j)
        /\ Len(file) <= BufferSize
        /\ progress = [offset |-> j * ChunkSize, remaining |-> Len(file) - j * ChunkSize]
        /\ \A i \in 1..j * ChunkSize : buffer[i] = file[i]
  BY <1>0
<1>2. PICK t \in Whole : Pending = Rest(file, j) \o t
  BY <1>1 DEF Remains
<1> DEFINE packet == socket[1]
           from == j * ChunkSize
           length == Len(packet)
<1>3. packet = Chunk(file, j + 1) /\ Pending' = Tail(Rest(file, j) \o t)
  BY <1>2, PendingTaken, RestUnfolds
<1>4. /\ ChunkCount(file) \in Nat /\ Len(file) \in Nat /\ j \in Nat
      /\ ChunkSize \in Nat /\ ChunkSize > 0 /\ BufferSize \in Nat
      /\ from \in Nat /\ from < Len(file) /\ (j + 1) * ChunkSize = from + ChunkSize
      /\ j + 1 < ChunkCount(file) <=> from + ChunkSize < Len(file)
      /\ j + 1 \in 1..ChunkCount(file)
  BY ChunkBounds, UdpAssumption
<1>5. /\ length = IF j + 1 < ChunkCount(file) THEN ChunkSize ELSE Len(file) - from
      /\ \A i \in 1..length : packet[i] = file[from + i]
  BY <1>3, TheChunk
<1>6. progress.offset = from /\ progress.remaining = Len(file) - from /\ Len(file) <= BufferSize
  BY <1>1
<1>7. \A i \in 1..from : buffer[i] = file[i]
  BY <1>1
<1> HIDE DEF from, packet
<1>8. length \in Nat /\ length > 0 /\ length <= Len(file) - from
  BY <1>4, <1>5
<1>9. length = Len(file) - from <=> ~(j + 1 < ChunkCount(file))
  BY <1>4, <1>5
<1>10. ASSUME NEW i \in 1..from + length, buffer' = Filled(packet)
       PROVE  buffer'[i] = file[i]
  <2>1. i \in Nat /\ i >= 1 /\ i <= BufferSize /\ i <= from + length
    BY <1>4, <1>6, <1>8
  <2>2. i \in Slots
    BY <2>1 DEF Slots
  <2>3. buffer'[i] = IF i > from /\ i <= from + length THEN packet[i - from] ELSE buffer[i]
    BY <1>6, <1>10, <2>2 DEF Filled
  <2>4. CASE i > from
    <3>1. i - from \in 1..length /\ from + (i - from) = i
      BY <1>4, <1>8, <2>1, <2>4
    <3>2. packet[i - from] = file[i]
      BY <1>5, <3>1
    <3> QED
      BY <2>1, <2>3, <2>4, <3>2
  <2>5. CASE ~(i > from)
    <3>1. i \in 1..from
      BY <1>4, <2>1, <2>5
    <3> QED
      BY <1>7, <2>3, <2>5, <3>1
  <2> QED
    BY <2>4, <2>5
<1>11. KindInProgress(packet) = IF length = Len(file) - from THEN "BufferFiled" ELSE "PartialFill"
  BY <1>4, <1>6, <1>8 DEF KindInProgress
<1>12. ASSUME KindInProgress(packet) = "PartialFill", buffer' = Filled(packet), progress' = Advanced(packet)
       PROVE  InTransfer'
  <2>1. j + 1 < ChunkCount(file) /\ length = ChunkSize
    BY <1>5, <1>9, <1>11, <1>12
  <2>2. j + 1 \in 0..ChunkCount(file) - 1
    BY <1>4, <2>1
  <2>3. Pending' = Rest(file, j + 1) \o t
    BY <1>3, <2>1, RestUnfolds
  <2>4. Remains(file, j + 1)'
    BY <2>2, <2>3 DEF Remains
  <2>5. progress' = [offset |-> from + length, remaining |-> Len(file) - from - length]
    BY <1>6, <1>12 DEF Advanced
  <2>6. from + length = (j + 1) * ChunkSize /\ Len(file) - from - length = Len(file) - (j + 1) * ChunkSize
    BY <1>4, <2>1
  <2>7. \A i \in 1..(j + 1) * ChunkSize : buffer'[i] = file[i]
    BY <1>10, <1>12, <2>6
  <2> QED
    BY <1>6, <2>2, <2>4, <2>5, <2>6, <2>7 DEF InTransfer
<1>13. ASSUME KindInProgress(packet) = "BufferFiled", buffer' = Filled(packet)
       PROVE  Between' /\ BeginsWith(buffer', file)
  <2>1. j + 1 = ChunkCount(file) /\ from + length = Len(file)
    BY <1>4, <1>8, <1>9, <1>11, <1>13
  <2>2. Pending' = t
    BY <1>3, <2>1, RestUnfolds
  <2>3. Between'
    BY <2>2 DEF Between
  <2>4. DOMAIN file = 1..Len(file)
    BY UdpAssumption
  <2>5. \A i \in DOMAIN file : buffer'[i] = file[i]
    BY <1>10, <1>13, <2>1, <2>4
  <2>6. Len(buffer') = BufferSize
    BY <1>4, <1>13 DEF Filled, Slots
  <2> QED
    BY <1>6, <2>3, <2>5, <2>6 DEF BeginsWith
<1>14. ~Overruns(packet)
  BY <1>4, <1>6, <1>8 DEF Overruns
<1> QED
  BY <1>11, <1>12, <1>13, <1>14 DEF packet
-----------------------------------------------------------------------------
LEMMA InitFInv == Init => FInv
<1> SUFFICES ASSUME Init
             PROVE  FInv
  OBVIOUS
<1>1. Pending = <<>>
  BY ConcatEmptySeq, EmptySeq DEF Init, Pending
<1> QED
  BY <1>1 DEF Init, FInv, Between, Whole, Receiving

(* What a step does to the history: it goes on, or a script that finds the   *)
(* device quiet starts it anew.                                              *)
LEMMA AstrayStep ==
  ASSUME TypeOK, [Next]_vars, astray' # TRUE
  PROVE  /\ astray' = FALSE
         /\ astray = FALSE \/ (Quiet /\ \E file \in File : StartScript(file))
<1>1. astray \in BOOLEAN
  BY DEF TypeOK
<1>2. CASE \E file \in File : StartScript(file)
  <2>1. astray' = (astray /\ ~Quiet)
    BY <1>2 DEF StartScript
  <2> QED
    BY <1>1, <1>2, <2>1
<1>3. CASE ~\E file \in File : StartScript(file)
  <2>1. \/ astray' = astray \/ astray' = TRUE
        \/ astray' = (astray \/ \A n \in SizeRange : SizePacket[n] # socket[1])
    BY <1>3 DEF Next, Receive, ReceiveWaiting, ReceiveRunning, ReceivePart, ReceiveLast, ReceiveStopped,
                Declare, CapsuleFinishes, Script, Deliver, LosePacket, Interfere, vars
  <2> QED
    BY <1>1, <2>1
<1> QED
  BY <1>2, <1>3

(* The step that runs a file, and the one that keeps FInv.                   *)
OnlyFilesStep ==
  pc # "running" /\ pc' = "running" /\ ~astray'
    => \E file \in File \ {<<>>} : BeginsWith(running', file)

Kept == (IF Receiving THEN InTransfer ELSE Between)' /\ OnlyFilesStep

LEMMA StepFInv ==
  ASSUME FilesAndSizes, TypeOK, FInv, [Next]_vars
  PROVE  FInv' /\ OnlyFilesStep
<1> SUFFICES ASSUME astray' # TRUE
             PROVE  Kept
  <2>1. astray' = TRUE => FInv' /\ OnlyFilesStep
    BY DEF FInv, OnlyFilesStep
  <2>2. Kept => FInv' /\ OnlyFilesStep
    BY DEF FInv, Kept
  <2> QED
    BY <2>1, <2>2
<1>1. CASE Quiet /\ \E file \in File : StartScript(file)
  <2>1. PICK file \in File : StartScript(file)
    BY <1>1
  <2>2. socket = <<>> /\ socket' = socket /\ outbox' = Packets(file) /\ UNCHANGED device /\ ~Receiving
    BY <1>1, <2>1 DEF Quiet, StartScript
  <2>3. Packets(file) \in Seq(Seq(Byte))
    BY PacketsUnfold
  <2>4. Pending' = Packets(file)
    BY <2>2, <2>3, ConcatEmptySeq DEF Pending
  <2>5. Between'
    BY <2>4 DEF Between, Whole
  <2> QED
    BY <2>2, <2>5 DEF device, Kept, OnlyFilesStep, Receiving
<1>2. CASE astray = FALSE
  <2>0. /\ Receiving => InTransfer
        /\ ~Receiving => Between
    BY <1>2 DEF FInv
  <2>1. CASE ReceiveWaiting \/ ReceiveRunning
    <3>1. /\ socket # <<>> /\ Take /\ UNCHANGED buffer /\ ~Receiving
          /\ \/ KindNotStarted(socket[1]) = "DeclareSize" /\ Declare /\ Receiving'
             \/ KindNotStarted(socket[1]) # "DeclareSize" /\ ~Receiving'
      BY <2>1 DEF ReceiveWaiting, ReceiveRunning, Receiving
    <3>2. ~(pc # "running" /\ pc' = "running")
      BY <2>1 DEF ReceiveWaiting, ReceiveRunning
    <3>3. astray' = FALSE
      BY AstrayStep
    <3>4. IF KindNotStarted(socket[1]) = "DeclareSize" THEN InTransfer' ELSE Between'
      BY <2>0, <3>1, <3>3, BetweenKept
    <3> QED
      BY <3>1, <3>2, <3>4 DEF Kept, OnlyFilesStep
  <2>2. CASE ReceivePart
    <3>1. /\ socket # <<>> /\ Take /\ Receiving
          /\ KindInProgress(socket[1]) = "PartialFill"
      BY <2>2 DEF ReceivePart
    <3>2. ~Overruns(socket[1])
      BY <2>0, <3>1, ChunkFills
    <3>3. buffer' = Filled(socket[1]) /\ progress' = Advanced(socket[1]) /\ UNCHANGED pc
      BY <2>2, <3>2 DEF ReceivePart
    <3>4. InTransfer'
      BY <2>0, <3>1, <3>3, ChunkFills
    <3> QED
      BY <3>1, <3>3, <3>4 DEF Kept, OnlyFilesStep, Receiving
  <2>3. CASE ReceiveLast
    <3>1. /\ socket # <<>> /\ Take /\ Receiving
          /\ KindInProgress(socket[1]) = "BufferFiled"
      BY <2>3 DEF ReceiveLast
    <3>2. ~Overruns(socket[1])
      BY <2>0, <3>1, ChunkFills
    <3>3. /\ buffer' = Filled(socket[1]) /\ ~Receiving'
          /\ pc' = "running" => running' = buffer'
      BY <2>3, <3>2 DEF ReceiveLast, Receiving
    <3>4. Between' /\ \E file \in File : BeginsWith(buffer', file)
      BY <2>0, <3>1, <3>3, ChunkFills
    <3>5. <<>> \notin File
      BY DEF FilesAndSizes
    <3> QED
      BY <3>3, <3>4, <3>5 DEF Kept, OnlyFilesStep
  <2>4. CASE ReceiveStopped
    BY <2>0, <2>4, ChunkFills DEF ReceiveStopped
  <2>5. CASE CapsuleFinishes
    <3>1. Pending' = Pending /\ pc' = "waiting" /\ ~Receiving /\ ~Receiving'
      BY <2>5 DEF CapsuleFinishes, Pending, Receiving
    <3>2. Between'
      BY <2>0, <3>1 DEF Between, Remains
    <3> QED
      BY <3>1, <3>2 DEF Kept, OnlyFilesStep
  <2>6. ASSUME Pending' = Pending, UNCHANGED device
        PROVE  Kept
    BY <2>0, <2>6 DEF device, Kept, OnlyFilesStep, Receiving, InTransfer, Between, Remains
  <2>7. CASE Deliver
    BY <2>6, <2>7, PendingDelivered DEF Deliver
  <2>8. ~LosePacket /\ ~Interfere
    BY DEF LosePacket, Interfere
  <2>9. ASSUME NEW file \in File, StartScript(file)
        PROVE  Kept
    <3>1. UNCHANGED device
      BY <2>9 DEF StartScript
    <3>2. \A f \in File : \A j \in 0..ChunkCount(f) - 1 : Remains(f, j) => Remains(f, j)'
      BY <2>9, StartedBehind DEF Remains, Whole
    <3>3. Pending \in Whole => Pending' \in Whole
      BY <2>9, StartedBehind
    <3>4. InTransfer => InTransfer'
      BY <3>1, <3>2 DEF InTransfer, device
    <3>5. Between => Between'
      BY <3>2, <3>3 DEF Between
    <3> QED
      BY <2>0, <3>1, <3>4, <3>5 DEF device, Kept, OnlyFilesStep, Receiving
  <2>10. CASE UNCHANGED vars
    <3>1. Pending' = Pending
      BY <2>10 DEF vars, Pending
    <3> QED
      BY <2>6, <2>10, <3>1 DEF vars
  <2> QED
    BY <2>1, <2>2, <2>3, <2>4, <2>5, <2>7, <2>8, <2>9, <2>10 DEF Next, Receive, Script
<1> QED
  BY <1>1, <1>2, AstrayStep

(* The device starts nothing but whole files, for files, chunks and buffers  *)
(* of any size, unless something went astray since a script last found it    *)
(* quiet; the condition FilesAndSizes is on the files alone.                 *)
THEOREM OnlyFilesRunHolds ==
  ASSUME FilesAndSizes
  PROVE  Spec => OnlyFilesRun
<1>1. TypeOK /\ FInv /\ [Next]_vars => FInv'
  BY StepFInv
<1>2. Spec => []FInv
  BY <1>1, InitFInv, TypeCorrect, PTL DEF Spec
<1>3. TypeOK /\ FInv /\ [Next]_vars => [OnlyFilesStep]_vars
  BY StepFInv
<1>4. Spec => [][OnlyFilesStep]_vars
  BY <1>2, <1>3, TypeCorrect, PTL DEF Spec
<1> QED
  BY <1>4 DEF OnlyFilesRun, OnlyFilesStep
=============================================================================
