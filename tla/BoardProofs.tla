---------------------------- MODULE BoardProofs ----------------------------
(* Theorems about the parts of Board (Payloads, UdpBindings, SimpleUpdates,  *)
(* AsyncBindings and BleScanner) and about Board: what is proved of a part   *)
(* holds on the board, since every step of the board is a step of the part   *)
(* or leaves it alone.                                                       *)
EXTENDS Board, SequenceTheorems, FiniteSetTheorems, FunctionTheorems, TLAPS

-----------------------------------------------------------------------------
(* Payloads: for every script whose commands name the crate of their output. *)

Command == {c \in {Script[i] : i \in DOMAIN Script} \cup ByHand : Proper(c) /\ c.file \in Files}

(* The inductive invariant.  temp.wasm may hold anything between commands;   *)
(* what matters is that it was made for the very command that compiles it.   *)
ComponentIsOfCommand ==
  stage = "precompile" =>
    commands # <<>> /\ Head(commands).do = "build" /\ component = Head(commands).crate

PInv ==
  /\ DOMAIN payload = Files /\ payload = [f \in Files |-> payload[f]]
  /\ commands \in Seq(Command)
  /\ ComponentIsOfCommand
  /\ PayloadIsOfItsCrate
-----------------------------------------------------------------------------
LEMMA ScriptOfCommands == Script \in Seq(Command)
<1>1. \A i \in DOMAIN Script : Script[i] \in Command
  BY PayloadsAssumption DEF Command, Files
<1>2. Script \in Seq({Script[i] : i \in DOMAIN Script})
  BY PayloadsAssumption
<1>3. Len(Script) \in Nat /\ DOMAIN Script = 1..Len(Script)
  BY <1>2, LenProperties
<1>4. Script = [i \in 1..Len(Script) |-> Script[i]]
  BY <1>2, <1>3, SeqDef
<1> QED
  BY <1>1, <1>3, <1>4, IsASeq

LEMMA ByHandAreCommands == \A c \in ByHand : <<c>> \in Seq(Command)
<1> SUFFICES ASSUME NEW c \in ByHand
             PROVE  c \in Command
  OBVIOUS
<1>1. PICK i \in DOMAIN Script : /\ Script[i].do = "build" /\ c.do = "build"
                                /\ c.crate = Script[i].crate /\ c.file = Script[i].file
  BY DEF ByHand
<1>2. Proper(c) /\ c.file \in Files
  BY <1>1, PayloadsAssumption DEF Proper, Files
<1> QED
  BY <1>2 DEF Command

(* What is written to one file is all that can break the property.           *)
LEMMA Written ==
  ASSUME PInv, NEW f \in Files, NEW content, payload' = [payload EXCEPT ![f] = content],
         content = Broken \/ content.crate = CrateOf(f)
  PROVE  /\ DOMAIN payload' = Files /\ payload' = [g \in Files |-> payload'[g]]
         /\ PayloadIsOfItsCrate'
  BY DEF PInv, PayloadIsOfItsCrate

LEMMA HeadIsCommand ==
  ASSUME PInv, commands # <<>>
  PROVE  /\ Head(commands) \in Command /\ Tail(commands) \in Seq(Command)
         /\ Proper(Head(commands)) /\ Head(commands).file \in Files
  BY HeadTailProperties DEF PInv, Command

LEMMA DoneKeeps ==
  ASSUME PInv, commands # <<>>, Done
  PROVE  commands' \in Seq(Command) /\ ComponentIsOfCommand'
  BY HeadIsCommand DEF Done, ComponentIsOfCommand
-----------------------------------------------------------------------------
LEMMA InitPInv == PInit => PInv
  BY DEF PInit, PInv, ComponentIsOfCommand, PayloadIsOfItsCrate

LEMMA StepPInv == PInv /\ [PNext]_pvars => PInv'
<1> SUFFICES ASSUME PInv, [PNext]_pvars
             PROVE  PInv'
  OBVIOUS
<1> USE DEF PInv
<1>1. CASE RunScript \/ RunByHand
  <2>1. /\ commands' \in Seq(Command)
        /\ UNCHANGED <<payload, component, stage>> /\ commands = <<>>
    BY <1>1, ScriptOfCommands, ByHandAreCommands DEF RunScript, RunByHand, Begin
  <2> QED
    BY <2>1 DEF ComponentIsOfCommand, PayloadIsOfItsCrate
<1>2. CASE Componentize
  BY <1>2 DEF Componentize, Doing, ComponentIsOfCommand, PayloadIsOfItsCrate
<1>3. CASE Precompile
  <2> DEFINE c == Head(commands)
             written == [crate |-> component, target |-> c.options.target,
                         fuel |-> c.options.fuel]
  <2>1. /\ commands # <<>> /\ stage' = "clean" /\ UNCHANGED commands
        /\ payload' = [payload EXCEPT ![c.file] = written]
    BY <1>3 DEF Precompile, Doing
  <2>2. c.file \in Files /\ written.crate = CrateOf(c.file)
    BY <1>3, <2>1, HeadIsCommand DEF Precompile, Doing, ComponentIsOfCommand, Proper
  <2> QED
    BY <2>1, <2>2, Written DEF ComponentIsOfCommand
<1>4. CASE Clean
  BY <1>4, DoneKeeps DEF Clean, Doing, PayloadIsOfItsCrate
<1>5. CASE CopyFile
  <2> DEFINE c == Head(commands)
  <2>1. /\ commands # <<>> /\ c.do = "copy" /\ Done
        /\ payload' = [payload EXCEPT ![c.file] = payload[c.from]]
    BY <1>5 DEF CopyFile, Doing
  <2>2. /\ c.file \in Files
        /\ payload[c.from] = Broken \/ payload[c.from].crate = CrateOf(c.file)
    BY <2>1, HeadIsCommand DEF Proper, PayloadIsOfItsCrate
  <2> QED
    BY <2>1, <2>2, Written, DoneKeeps
<1>6. CASE Fail
  <2>1. commands # <<>> /\ commands' = <<>> /\ stage' = "begin"
    BY <1>6 DEF Fail
  <2>2. \/ UNCHANGED payload
        \/ payload' = [payload EXCEPT ![Head(commands).file] = Broken]
    BY <1>6 DEF Fail
  <2> QED
    BY <2>1, <2>2, HeadIsCommand, Written DEF ComponentIsOfCommand, PayloadIsOfItsCrate
<1>7. CASE UNCHANGED pvars
  BY <1>7 DEF pvars, ComponentIsOfCommand, PayloadIsOfItsCrate
<1> QED
  BY <1>1, <1>2, <1>3, <1>4, <1>5, <1>6, <1>7 DEF PNext

(* No failure and no rerun after one puts the code of one crate into the     *)
(* payload of another, although all commands share temp.wasm.                *)
THEOREM PayloadIsOfItsCrateHolds == PSpec => []PayloadIsOfItsCrate
<1>1. PInv => PayloadIsOfItsCrate
  BY DEF PInv
<1> QED
  BY <1>1, InitPInv, StepPInv, PTL DEF PSpec
-----------------------------------------------------------------------------
(* UdpBindings: for any fuel and any number of packets.                      *)

(* The inductive invariant: where the capsule is tells whether it holds a    *)
(* packet, and only packets with data are sent.                              *)
HandInUse ==
  /\ udpMain \in {"off", "calling", "pausing"} => hand = NoPacket
  /\ udpMain \in {"sending", "blocked"} => ~hand.empty

OnlyDataIsSent ==
  /\ tx = NoPacket \/ ~tx.empty
  /\ udpMain = "blocked" => tx # NoPacket

Sequences == accepted \in Seq(Nat) /\ replied \in Seq(Nat)
Packets == {rx, tx, hand} \subseteq Packet /\ arrivals \in Nat

UInv == Sequences /\ Packets /\ HandInUse /\ OnlyDataIsSent /\ RepliesInOrder
-----------------------------------------------------------------------------
LEMMA PacketType ==
  ASSUME NEW p \in Packet
  PROVE  p.id \in Nat /\ p.empty \in BOOLEAN /\ Data(p) \in Seq(Nat)
<1>1. p.id \in Nat /\ p.empty \in BOOLEAN
  BY UdpBindingsAssumption DEF Packet
<1> QED
  BY <1>1 DEF Data

LEMMA NoPacketType == NoPacket \in Packet /\ NoPacket.empty /\ Data(NoPacket) = <<>>
  BY UdpBindingsAssumption DEF NoPacket, Packet, Data

(* Moving the content of one place on to the next, empty one keeps what the  *)
(* places hold together, in its order.                                       *)
LEMMA MovedOn ==
  ASSUME NEW a \in Seq(Nat), NEW b \in Seq(Nat)
  PROVE  /\ a \o <<>> = a /\ <<>> \o a = a
         /\ a \o <<>> \o b = a \o b \o <<>>
         /\ a \o b \in Seq(Nat)
  BY ConcatEmptySeq, ConcatProperties
-----------------------------------------------------------------------------
LEMMA InitUInv == UInit => UInv
  BY NoPacketType DEF UInit, UInv, Sequences, Packets, HandInUse, OnlyDataIsSent, RepliesInOrder

(* Steps that leave the queues, the packet in hand and the histories alone.  *)
LEMMA QueuesUnchanged ==
  ASSUME UInv, UNCHANGED <<rx, tx, hand, arrivals, accepted, replied>>,
         \/ UNCHANGED udpMain
         \/ udpMain' = "exited"
         \/ udpMain \in {"off", "pausing"} /\ udpMain' = "calling"
         \/ udpMain = "sending" /\ udpMain' = "blocked" /\ tx # NoPacket
  PROVE  UInv'
  BY DEF UInv, Sequences, Packets, HandInUse, OnlyDataIsSent, RepliesInOrder, Data

LEMMA ReceiveKeeps == UInv /\ (ReceiveNothing \/ ReceivePacket) => UInv'
<1> SUFFICES ASSUME UInv, ReceiveNothing \/ ReceivePacket
             PROVE  UInv'
  OBVIOUS
<1> DEFINE sent == replied \o Data(tx)
<1>1. /\ udpMain = "calling" /\ hand = NoPacket /\ Data(hand) = <<>>
      /\ rx' = NoPacket /\ Data(rx') = <<>>
      /\ UNCHANGED <<tx, arrivals, accepted, replied>>
  BY NoPacketType DEF UInv, HandInUse, ReceiveNothing, ReceivePacket
<1>2. {rx, tx, hand, NoPacket} \subseteq Packet /\ accepted = sent \o Data(hand) \o Data(rx)
  BY <1>1, NoPacketType DEF UInv, Packets, RepliesInOrder
<1>3. sent \in Seq(Nat) /\ Data(rx) \in Seq(Nat) /\ Data(tx') = Data(tx)
  BY <1>1, <1>2, PacketType, MovedOn DEF UInv, Sequences, Data
<1>4. accepted' = sent \o Data(hand') \o Data(rx') /\ hand' \in Packet
  <2>1. CASE ReceiveNothing
    <3>1. Data(rx) = <<>> /\ hand' = hand
      BY <2>1 DEF ReceiveNothing, Data
    <3> QED
      BY <1>1, <1>2, <3>1
  <2>2. CASE ReceivePacket
    <3>1. hand' = rx
      BY <2>2 DEF ReceivePacket
    <3>2. Data(hand') = Data(rx)
      BY <3>1 DEF Data
    <3> QED
      BY <1>1, <1>2, <1>3, <3>1, <3>2, MovedOn
  <2> QED
    BY <2>1, <2>2
<1>5. RepliesInOrder' /\ Packets' /\ Sequences'
  BY <1>1, <1>2, <1>3, <1>4 DEF RepliesInOrder, UInv, Packets, Sequences
<1>6. HandInUse' /\ OnlyDataIsSent'
  BY <1>1 DEF UInv, HandInUse, OnlyDataIsSent, ReceiveNothing, ReceivePacket
<1> QED
  BY <1>5, <1>6 DEF UInv

LEMMA SendKeeps == UInv /\ Send => UInv'
<1> SUFFICES ASSUME UInv, Send
             PROVE  UInv'
  OBVIOUS
<1>1. /\ udpMain = "sending" /\ udpMain' = "pausing" /\ ~hand.empty
      /\ Data(tx) = <<>> /\ tx' = hand
      /\ hand' = NoPacket /\ Data(hand') = <<>>
      /\ UNCHANGED <<rx, arrivals, accepted, replied>>
  BY NoPacketType DEF UInv, HandInUse, Send
<1>2. /\ {rx, hand, NoPacket} \subseteq Packet /\ Data(tx') = Data(hand) /\ Data(rx') = Data(rx)
      /\ accepted = replied \o Data(tx) \o Data(hand) \o Data(rx)
  BY <1>1, NoPacketType DEF UInv, Packets, RepliesInOrder, Data
<1>3. replied \in Seq(Nat) /\ Data(hand) \in Seq(Nat)
  BY <1>2, PacketType DEF UInv, Sequences
<1>4. replied \o Data(tx) \o Data(hand) = replied \o Data(tx') \o Data(hand')
  BY <1>1, <1>2, <1>3, MovedOn
<1> QED
  BY <1>1, <1>2, <1>4
  DEF UInv, Sequences, Packets, HandInUse, OnlyDataIsSent, RepliesInOrder

LEMMA TransmitKeeps == UInv /\ Transmit => UInv'
<1> SUFFICES ASSUME UInv, Transmit
             PROVE  UInv'
  OBVIOUS
<1>1. /\ udpMain = "pausing" /\ ~tx.empty /\ Data(tx) = <<tx.id>>
      /\ replied' = Append(replied, tx.id)
      /\ tx' = NoPacket /\ Data(tx') = <<>>
      /\ UNCHANGED <<udpMain, rx, hand, arrivals, accepted>>
  BY NoPacketType DEF UInv, OnlyDataIsSent, Transmit, Data
<1>2. replied \in Seq(Nat) /\ tx.id \in Nat /\ NoPacket \in Packet
  BY PacketType, NoPacketType DEF UInv, Sequences, Packets
<1>3. replied' \in Seq(Nat) /\ replied' = replied \o <<tx.id>>
  BY <1>1, <1>2, AppendIsConcat, AppendProperties
<1>4. replied' \o Data(tx') = replied \o Data(tx)
  BY <1>1, <1>3, MovedOn
<1>5. Data(hand') = Data(hand) /\ Data(rx') = Data(rx)
  BY <1>1 DEF Data
<1> QED
  BY <1>1, <1>2, <1>3, <1>4, <1>5
  DEF UInv, Sequences, Packets, HandInUse, OnlyDataIsSent, RepliesInOrder

LEMMA ArriveKeeps ==
  ASSUME UInv, NEW empty \in BOOLEAN, Arrive(empty)
  PROVE  UInv'
<1>1. /\ udpMain = "pausing" /\ arrivals' = arrivals + 1
      /\ arrivals \in Nat /\ arrivals < MaxPackets
      /\ UNCHANGED <<udpMain, tx, hand, replied>>
  BY DEF Arrive, UInv, Packets
<1>2. arrivals' \in Nat /\ arrivals' \in 0..MaxPackets
  BY <1>1, UdpBindingsAssumption
<1>3. Data(hand') = Data(hand) /\ Data(tx') = Data(tx)
  BY <1>1 DEF Data
<1> DEFINE before == replied \o Data(tx) \o Data(hand)
<1>4. accepted = before \o Data(rx) /\ before \in Seq(Nat)
  BY <1>1, PacketType, MovedOn DEF UInv, RepliesInOrder, Packets, Sequences
<1>5. CASE rx = NoPacket
  <2>1. rx' = [id |-> arrivals', empty |-> empty] /\ accepted = before
    BY <1>4, <1>5, NoPacketType, MovedOn DEF Arrive
  <2>2. rx' \in Packet
    BY <1>2, <2>1 DEF Packet
  <2>3. accepted' = before \o Data(rx')
    <3>1. CASE empty
      <4>1. Data(rx') = <<>> /\ accepted' = accepted
        BY <1>5, <2>1, <3>1 DEF Arrive, Data
      <4> QED
        BY <1>4, <2>1, <4>1, MovedOn
    <3>2. CASE ~empty
      <4>1. Data(rx') = <<arrivals'>> /\ accepted' = Append(accepted, arrivals')
        BY <1>5, <2>1, <3>2 DEF Arrive, Data
      <4> QED
        BY <1>2, <1>4, <2>1, <4>1, AppendIsConcat
    <3> QED
      BY <3>1, <3>2
  <2>4. accepted' \in Seq(Nat)
    BY <1>4, <2>2, <2>3, PacketType, MovedOn
  <2> QED
    BY <1>1, <1>2, <1>3, <2>2, <2>3, <2>4
    DEF UInv, Sequences, Packets, HandInUse, OnlyDataIsSent, RepliesInOrder
<1>6. CASE rx # NoPacket
  <2>1. UNCHANGED <<rx, accepted>>
    BY <1>6 DEF Arrive
  <2> QED
    BY <1>1, <1>2, <1>3, <2>1
    DEF UInv, Sequences, Packets, HandInUse, OnlyDataIsSent, RepliesInOrder, Data
<1> QED
  BY <1>5, <1>6
-----------------------------------------------------------------------------
UStep == UNext \/ \E loads \in BOOLEAN : UBoot(loads)

LEMMA StepUInv == UInv /\ [UStep]_uvars => UInv'
<1> SUFFICES ASSUME UInv, [UStep]_uvars
             PROVE  UInv'
  OBVIOUS
<1>1. CASE ReceiveNothing \/ ReceivePacket
  BY <1>1, ReceiveKeeps
<1>2. CASE Send
  BY <1>2, SendKeeps
<1>3. CASE SendBlocks \/ SendFails \/ OutOfFuel \/ PauseEnds
  BY <1>3, QueuesUnchanged DEF SendBlocks, SendFails, OutOfFuel, PauseEnds
<1>4. CASE Transmit
  BY <1>4, TransmitKeeps
<1>5. CASE \E empty \in BOOLEAN : Arrive(empty)
  BY <1>5, ArriveKeeps
<1>6. CASE \E loads \in BOOLEAN : UBoot(loads)
  BY <1>6, QueuesUnchanged DEF UBoot
<1>7. CASE UNCHANGED uvars
  BY <1>7, QueuesUnchanged DEF uvars
<1> QED
  BY <1>1, <1>2, <1>3, <1>4, <1>5, <1>6, <1>7 DEF UStep, UNext, UMain

LEMMA SpecUInv == USpec => []UInv
  BY InitUInv, StepUInv, PTL DEF USpec, UStep

(* No accepted packet is lost, echoed twice or overtaken on its way through  *)
(* the queues and the capsule, until main exits.                             *)
THEOREM RepliesInOrderHolds == USpec => []RepliesInOrder
  BY SpecUInv, PTL DEF UInv

(* The executor is kept only by a reply that waits behind another one.       *)
THEOREM BlocksOnlyToSendHolds == USpec => []BlocksOnlyToSend
<1>1. UInv => BlocksOnlyToSend
  BY DEF UInv, HandInUse, OnlyDataIsSent, BlocksOnlyToSend
<1> QED
  BY <1>1, SpecUInv, PTL
-----------------------------------------------------------------------------
(* The switch by button.                                                     *)

(* The inductive invariant for the button: a press that is seen pays for one *)
(* start, and once it is spent on the start under way no edge is left.       *)
PressesPaid ==
  /\ swMain = "off" => starts = 0
  /\ swMain \in {"off", "starting"} => ~edge
  /\ edge \/ swMain = "starting" => starts <= presses
  /\ starts <= presses + 1

SInv == starts \in Nat /\ presses \in Nat /\ PressesPaid

SStep == SNext \/ \E loads \in BOOLEAN : SBoot(loads)

LEMMA StepSInv == SInv /\ [SStep]_swvars => SInv'
<1> SUFFICES ASSUME SInv, [SStep]_swvars
             PROVE  SInv'
  OBVIOUS
<1> USE DEF SInv, PressesPaid
<1>1. CASE \E loads \in BOOLEAN : SBoot(loads)
  BY <1>1 DEF SBoot
<1>2. CASE InstantiateFails
  BY <1>2 DEF InstantiateFails
<1>3. CASE \E becomes \in {"running", "ended", "hogging"} : StartCapsule(becomes)
  BY <1>3 DEF StartCapsule
<1>4. CASE Switch
  BY <1>4 DEF Switch
<1>5. CASE Press
  <2>1. presses' = presses + 1 /\ starts' = starts /\ swMain' = swMain /\ swMain # "off"
    BY <1>5 DEF Press
  <2>2. swMain = "starting" => ~edge'
    BY <1>5 DEF Press
  <2> QED
    BY <2>1, <2>2
<1>6. CASE \E becomes \in {"ended", "hogging"} : CapsulePolled(becomes)
  BY <1>6 DEF CapsulePolled
<1>7. CASE UNCHANGED swvars
  BY <1>7 DEF swvars
<1> QED
  BY <1>1, <1>2, <1>3, <1>4, <1>5, <1>6, <1>7 DEF SStep, SNext, SMain

(* Every start of a component but the first has cost a press of its own.     *)
THEOREM SwitchNeedsPressHolds == SSpec => []SwitchNeedsPress
<1>1. SInit => SInv
  BY DEF SInit, SInv, PressesPaid
<1>2. SInv => SwitchNeedsPress
  BY DEF SInv, PressesPaid, SwitchNeedsPress
<1> QED
  BY <1>1, <1>2, StepSInv, PTL DEF SSpec, SStep
-----------------------------------------------------------------------------
(* The BLE scanner: the capsule's counts are the numbers of places at which  *)
(* an address was heard.                                                     *)
Places(s, a) == {i \in 1..Len(s) : s[i] = a}

CountsAreHeard == \A a \in Addr : seen[a] = Cardinality(Places(heard, a))

BleInv ==
  /\ BleTypeOK
  /\ bleMain \in {"off", "scanning"} => CountsAreHeard

BleStep == BleNext \/ \E loads \in BOOLEAN : BleBoot(loads)
-----------------------------------------------------------------------------
LEMMA InitialSegment ==
  ASSUME NEW n \in Nat
  PROVE  IsFiniteSet(1..n) /\ Cardinality(1..n) = n
<1>1. 1 \in Int /\ n \in Int /\ (1 > n => n = 0) /\ n - 1 + 1 = n
  OBVIOUS
<1>2. IsFiniteSet(1..n) /\ Cardinality(1..n) = IF 1 > n THEN 0 ELSE n - 1 + 1
  BY <1>1, FS_Interval
<1> QED
  BY <1>1, <1>2

LEMMA OneToOne ==
  ASSUME NEW S, NEW T, NEW F \in Bijection(S, T)
  PROVE  /\ \A x, y \in S : F[x] = F[y] => x = y
         /\ \A i \in T : \E x \in S : F[x] = i
BY Fun_BijectionProperties

LEMMA PlacesFinite ==
  ASSUME NEW S, NEW s \in Seq(S), NEW a
  PROVE  IsFiniteSet(Places(s, a)) /\ Cardinality(Places(s, a)) \in Nat
<1>1. IsFiniteSet(1..Len(s))
  BY InitialSegment
<1>2. Places(s, a) \in SUBSET (1..Len(s))
  BY DEF Places
<1> QED
  BY <1>1, <1>2, FS_Subset, FS_CardinalityType

(* What is heard later adds to what was heard before.                        *)
LEMMA PlacesAdd ==
  ASSUME NEW s \in Seq(Addr), NEW t \in Seq(Addr), NEW a
  PROVE  Cardinality(Places(s \o t, a)) = Cardinality(Places(s, a)) + Cardinality(Places(t, a))
<1> DEFINE n == Len(s)
           m == Len(t)
           old == Places(s, a)
           new == {i \in n + 1..n + m : t[i - n] = a}
           move == [i \in Places(t, a) |-> i + n]
<1>1. /\ n \in Nat /\ m \in Nat /\ Len(s \o t) = n + m
      /\ \A i \in 1..n + m : (s \o t)[i] = IF i <= n THEN s[i] ELSE t[i - n]
  BY ConcatProperties
<1>2. IsFiniteSet(old) /\ IsFiniteSet(new)
  <2>1. n + 1 \in Int /\ n + m \in Int
    BY <1>1
  <2>2. IsFiniteSet(n + 1..n + m)
    BY <2>1, FS_Interval
  <2>3. new \in SUBSET (n + 1..n + m)
    OBVIOUS
  <2> QED
    BY <2>2, <2>3, PlacesFinite, FS_Subset
<1>3. Places(s \o t, a) = old \cup new
  <2>1. ASSUME NEW i \in 1..n + m
        PROVE  (s \o t)[i] = a <=> i \in old \cup new
    <3> HIDE DEF n, m
    <3>1. CASE i <= n
      <4>1. i \in 1..n /\ i \notin n + 1..n + m
        BY <1>1, <3>1
      <4> QED
        BY <1>1, <3>1, <4>1 DEF Places, n
    <3>2. CASE ~(i <= n)
      <4>1. i \notin 1..n /\ i \in n + 1..n + m
        BY <1>1, <3>2
      <4> QED
        BY <1>1, <3>2, <4>1 DEF Places, n
    <3> QED
      BY <3>1, <3>2
  <2>2. old \cup new \subseteq 1..n + m
    BY <1>1 DEF Places
  <2> QED
    BY <1>1, <2>1, <2>2 DEF Places
<1>4. old \cap new = {}
  BY <1>1 DEF Places
<1>5. Cardinality(new) = Cardinality(Places(t, a))
  <2>1. \A i \in Places(t, a) : i \in 1..m /\ t[i] = a
    BY DEF Places
  <2>2. \A i \in Places(t, a) : i + n \in n + 1..n + m /\ (i + n) - n = i
    BY <1>1, <2>1
  <2>3. move \in [Places(t, a) -> new]
    BY <2>1, <2>2
  <2>4. \A i, j \in Places(t, a) : move[i] = move[j] => i = j
    BY <2>2
  <2>5. ASSUME NEW k \in new
        PROVE  \E i \in Places(t, a) : move[i] = k
    <3>1. k - n \in 1..m /\ (k - n) + n = k /\ t[k - n] = a
      BY <1>1
    <3>2. k - n \in Places(t, a)
      BY <3>1 DEF Places
    <3> QED
      BY <3>1, <3>2
  <2> HIDE DEF move, new
  <2>6. move \in Bijection(Places(t, a), new)
    BY <2>3, <2>4, <2>5, Fun_IsBij
  <2>7. move \in Injection(Places(t, a), new) /\ move \in Surjection(Places(t, a), new)
    BY <2>6, Fun_BijectionProperties
  <2> QED
    BY <1>2, <2>7, FS_Injection
<1> HIDE DEF old, new
<1>6. Cardinality(old \cup new) = Cardinality(old) + Cardinality(new) - Cardinality(old \cap new)
  BY <1>2, FS_Union
<1>7. /\ Cardinality(old \cap new) = 0
      /\ Cardinality(old) \in Nat /\ Cardinality(new) \in Nat
  BY <1>2, <1>4, FS_EmptySet, FS_CardinalityType
<1> QED
  BY <1>3, <1>5, <1>6, <1>7 DEF old

(* The reports of a batch that are parsed are those before the first one     *)
(* that cannot be.                                                           *)
LEMMA ParsedIsPrefix ==
  ASSUME NEW batch \in Batch
  PROVE  LET t == SubSeq(batch, 1, Cardinality(Parsed(batch))) IN
         /\ t \in Seq(Addr)
         /\ \A a : {i \in Parsed(batch) : batch[i] = a} = Places(t, a)
<1> DEFINE m == Cardinality(Parsed(batch))
           t == SubSeq(batch, 1, m)
<1>1. PICK n \in 1..BatchSize : batch \in [1..n -> Addr \cup {Malformed}]
  BY DEF Batch
<1>2. n \in Nat /\ Parsed(batch) \in SUBSET (1..n) /\ IsFiniteSet(1..n) /\ Cardinality(1..n) = n
  BY <1>1, FS_Interval, BleScannerAssumption DEF Parsed
<1>3. IsFiniteSet(Parsed(batch)) /\ m \in Nat /\ m <= n
  BY <1>2, FS_Subset, FS_CardinalityType
<1>4. ASSUME NEW i \in Parsed(batch)
      PROVE  i \in 1..m
  <2>1. i \in Nat /\ i > 0 /\ i <= n
    BY <1>2
  <2>2. 1..i \in SUBSET Parsed(batch)
    <3> SUFFICES ASSUME NEW j \in 1..i
                 PROVE  j \in Parsed(batch)
      OBVIOUS
    <3>1. j \in 1..n /\ \A k \in 1..j : k \in 1..i
      BY <2>1
    <3> QED
      BY <1>1, <3>1 DEF Parsed
  <2>3. Cardinality(1..i) = i
    BY <2>1, FS_Interval
  <2>4. Cardinality(1..i) <= m
    BY <1>3, <2>2, FS_Subset
  <2>5. i <= m
    BY <2>3, <2>4
  <2> QED
    BY <1>3, <2>1, <2>5
<1>5. Parsed(batch) = 1..m
  <2>1. IsFiniteSet(1..m) /\ Cardinality(1..m) = m
    BY <1>3, FS_Interval
  <2>2. Parsed(batch) \in SUBSET (1..m)
    BY <1>4
  <2> QED
    BY <2>1, <2>2, FS_Subset
<1> HIDE DEF m
<1>6. \A i \in 1..m : batch[i] \in Addr
  <2> SUFFICES ASSUME NEW i \in 1..m
               PROVE  batch[i] \in Addr
    OBVIOUS
  <2>1. i \in Parsed(batch) /\ i \in 1..i /\ i \in 1..n
    BY <1>2, <1>3, <1>5
  <2> QED
    BY <1>1, <2>1 DEF Parsed
<1>7. t \in Seq(Addr) /\ Len(t) = m /\ \A i \in 1..m : t[i] = batch[i]
  <2>1. /\ t \in Seq(Addr) /\ Len(t) = IF 1 <= m THEN m - 1 + 1 ELSE 0
        /\ \A i \in 1..m - 1 + 1 : t[i] = batch[1 + i - 1]
    BY <1>3, <1>6, SubSeqProperties
  <2>2. m - 1 + 1 = m /\ (~(1 <= m) => m = 0) /\ \A i \in 1..m : 1 + i - 1 = i
    BY <1>3
  <2> QED
    BY <2>1, <2>2
<1> HIDE DEF t
<1>8. \A a : {i \in Parsed(batch) : batch[i] = a} = Places(t, a)
  BY <1>5, <1>7 DEF Places
<1> QED
  BY <1>7, <1>8 DEF t, m
-----------------------------------------------------------------------------
(* The two numbers of the statistics.                                        *)
LEMMA KnownAreHeard ==
  ASSUME BleTypeOK, CountsAreHeard
  PROVE  Known = {heard[i] : i \in DOMAIN heard}
<1>1. heard \in Seq(Addr) /\ DOMAIN heard = 1..Len(heard)
  BY DEF BleTypeOK
<1>2. ASSUME NEW a \in Addr
      PROVE  seen[a] > 0 <=> \E i \in DOMAIN heard : heard[i] = a
  <2>1. IsFiniteSet(Places(heard, a)) /\ Cardinality(Places(heard, a)) \in Nat
    BY <1>1, PlacesFinite
  <2>2. Cardinality(Places(heard, a)) = 0 <=> Places(heard, a) = {}
    BY <2>1, FS_EmptySet
  <2>3. Places(heard, a) # {} <=> \E i \in DOMAIN heard : heard[i] = a
    BY <1>1 DEF Places
  <2>4. seen[a] = Cardinality(Places(heard, a))
    BY DEF CountsAreHeard
  <2> QED
    BY <2>1, <2>2, <2>3, <2>4
<1> QED
  BY <1>1, <1>2 DEF Known

LEMMA TotalIsHeard ==
  ASSUME BleTypeOK, CountsAreHeard
  PROVE  Cardinality(UNION {{a} \X (1..seen[a]) : a \in Addr}) = Len(heard)
<1> DEFINE S == UNION {{a} \X (1..seen[a]) : a \in Addr}
           place == [a \in Addr |-> CHOOSE f : f \in Bijection(1..seen[a], Places(heard, a))]
           F == [p \in S |-> place[p[1]][p[2]]]
           T == 1..Len(heard)
<1>1. heard \in Seq(Addr) /\ Len(heard) \in Nat /\ \A i \in T : heard[i] \in Addr
  BY DEF BleTypeOK
<1>2. IsFiniteSet(T) /\ Cardinality(T) = Len(heard)
  BY <1>1, InitialSegment
<1>3. ASSUME NEW a \in Addr
      PROVE  place[a] \in Bijection(1..seen[a], Places(heard, a))
  <2>1. IsFiniteSet(Places(heard, a)) /\ seen[a] = Cardinality(Places(heard, a))
    BY <1>1, PlacesFinite DEF CountsAreHeard
  <2>2. Bijection(1..seen[a], Places(heard, a)) # {}
    BY <2>1, FS_CardinalityType DEF ExistsBijection
  <2> QED
    BY <2>2
<1> HIDE DEF place
<1>4. \A p \in S : \E a \in Addr : \E k \in 1..seen[a] : p = <<a, k>>
  OBVIOUS
<1>5. \A a \in Addr : \A k \in 1..seen[a] : <<a, k>> \in S /\ F[<<a, k>>] = place[a][k]
  OBVIOUS
<1> HIDE DEF S, F
<1>6. \A a \in Addr : \A k \in 1..seen[a] : F[<<a, k>>] \in T /\ heard[F[<<a, k>>]] = a
  <2> SUFFICES ASSUME NEW a \in Addr, NEW k \in 1..seen[a]
               PROVE  F[<<a, k>>] \in T /\ heard[F[<<a, k>>]] = a
    OBVIOUS
  <2>1. place[a] \in [1..seen[a] -> Places(heard, a)]
    BY <1>3, Fun_BijectionProperties
  <2>2. place[a][k] \in Places(heard, a)
    BY <2>1
  <2> QED
    BY <1>5, <2>2 DEF Places
<1>7. F \in [S -> T]
  <2>1. \A p \in S : F[p] \in T
    BY <1>4, <1>6
  <2> QED
    BY <2>1 DEF F
<1>8. ASSUME NEW p \in S, NEW q \in S, F[p] = F[q]
      PROVE  p = q
  <2>1. PICK a \in Addr : \E k \in 1..seen[a] : p = <<a, k>>
    BY <1>4
  <2>2. PICK k \in 1..seen[a] : p = <<a, k>>
    BY <2>1
  <2>3. PICK b \in Addr : \E l \in 1..seen[b] : q = <<b, l>>
    BY <1>4
  <2>4. PICK l \in 1..seen[b] : q = <<b, l>>
    BY <2>3
  <2>5. a = b
    BY <1>6, <1>8, <2>2, <2>4
  <2>6. place[a][k] = place[a][l]
    BY <1>5, <1>8, <2>2, <2>4, <2>5
  <2>7. \A x, y \in 1..seen[a] : place[a][x] = place[a][y] => x = y
    <3> DEFINE f == place[a]
               D == 1..seen[a]
               R == Places(heard, a)
    <3>1. f \in Bijection(D, R)
      BY <1>3
    <3> HIDE DEF f, D, R
    <3>2. /\ \A x, y \in D : f[x] = f[y] => x = y
          /\ \A spot \in R : \E x \in D : f[x] = spot
      BY <3>1, OneToOne
    <3> QED
      BY <3>2 DEF f, D, R
  <2>8. k = l
    BY <2>5, <2>6, <2>7
  <2> QED
    BY <2>2, <2>4, <2>5, <2>8
<1>9. ASSUME NEW i \in T
      PROVE  \E p \in S : F[p] = i
  <2>1. heard[i] \in Addr /\ i \in Places(heard, heard[i])
    BY <1>1 DEF Places
  <2>2. \A a \in Addr : \A y \in Places(heard, a) : \E k \in 1..seen[a] : place[a][k] = y
    <3> SUFFICES ASSUME NEW a \in Addr
                 PROVE  \A y \in Places(heard, a) : \E k \in 1..seen[a] : place[a][k] = y
      OBVIOUS
    <3> DEFINE f == place[a]
               D == 1..seen[a]
               R == Places(heard, a)
    <3>1. f \in Bijection(D, R)
      BY <1>3
    <3> HIDE DEF f, D, R
    <3>2. /\ \A x, y \in D : f[x] = f[y] => x = y
          /\ \A spot \in R : \E x \in D : f[x] = spot
      BY <3>1, OneToOne
    <3> QED
      BY <3>2 DEF f, D, R
  <2>3. PICK k \in 1..seen[heard[i]] : place[heard[i]][k] = i
    BY <2>1, <2>2
  <2> QED
    BY <1>5, <2>1, <2>3
<1>10. F \in Bijection(S, T)
  BY <1>7, <1>8, <1>9, Fun_IsBij
<1>11. F \in Injection(S, T) /\ F \in Surjection(S, T)
  BY <1>10, Fun_BijectionProperties
<1> HIDE DEF T
<1>12. Cardinality(S) = Cardinality(T)
  BY <1>2, <1>11, FS_Injection
<1> QED
  BY <1>2, <1>12 DEF S
-----------------------------------------------------------------------------
LEMMA InitBleInv == BleInit => BleInv
<1> SUFFICES ASSUME BleInit
             PROVE  BleInv
  OBVIOUS
<1>1. BleTypeOK
  BY DEF BleInit, BleTypeOK
<1>2. \A a \in Addr : Places(heard, a) = {}
  BY DEF BleInit, Places
<1> QED
  BY <1>1, <1>2, FS_EmptySet DEF BleInit, BleInv, CountsAreHeard

LEMMA AdvReportsKeep ==
  ASSUME BleInv, NEW batch \in Batch, AdvReports(batch)
  PROVE  BleInv'
<1> DEFINE t == SubSeq(batch, 1, Cardinality(Parsed(batch)))
<1>1. t \in Seq(Addr) /\ \A a : {i \in Parsed(batch) : batch[i] = a} = Places(t, a)
  BY ParsedIsPrefix
<1> HIDE DEF t
<1>2. /\ seen \in [Addr -> Nat] /\ heard \in Seq(Addr) /\ CountsAreHeard /\ bleMain = "scanning"
      /\ heard' = heard \o t /\ stats' = stats
      /\ \/ bleMain' = "panicked" /\ seen' = seen
         \/ bleMain' = "scanning" /\ seen' = Counted(batch)
  BY DEF BleInv, BleTypeOK, AdvReports, t
<1>3. \A a \in Addr : Counted(batch)[a] = seen[a] + Cardinality(Places(t, a))
  BY <1>1 DEF Counted
<1>4. \A a \in Addr : seen[a] \in Nat /\ Cardinality(Places(t, a)) \in Nat
  BY <1>1, <1>2, PlacesFinite
<1>5. \A a \in Addr : Counted(batch)[a] \in Nat
  BY <1>3, <1>4
<1>6. Counted(batch) \in [Addr -> Nat]
  BY <1>5 DEF Counted
<1>7. \A a \in Addr : Counted(batch)[a] = Cardinality(Places(heard', a))
  BY <1>1, <1>2, <1>3, PlacesAdd DEF CountsAreHeard
<1>8. heard' \in Seq(Addr)
  BY <1>1, <1>2, ConcatProperties
<1> QED
  BY <1>2, <1>6, <1>7, <1>8 DEF BleInv, BleTypeOK, CountsAreHeard

LEMMA WindowCounts ==
  ASSUME BleInv, WindowEnds
  PROVE  /\ stats'.total = Len(heard)
         /\ stats'.different = Cardinality({heard[i] : i \in DOMAIN heard})
         /\ stats' \in [different : Nat, total : Nat]
<1>1. BleTypeOK /\ CountsAreHeard
  BY DEF BleInv, WindowEnds
<1>2. stats' = [different |-> Cardinality(Known), total |-> Len(heard)]
  BY <1>1, TotalIsHeard DEF WindowEnds
<1>3. Cardinality(Known) \in Nat
  BY BleScannerAssumption, FS_Subset, FS_CardinalityType DEF Known
<1>4. Len(heard) \in Nat
  BY <1>1 DEF BleTypeOK
<1> QED
  BY <1>1, <1>2, <1>3, <1>4, KnownAreHeard

LEMMA StepBleInv == BleInv /\ [BleStep]_blevars => BleInv'
<1> SUFFICES ASSUME BleInv, [BleStep]_blevars
             PROVE  BleInv'
  OBVIOUS
<1>1. ASSUME NEW batch \in Batch, AdvReports(batch)
      PROVE  BleInv'
  BY <1>1, AdvReportsKeep
<1>2. CASE WindowEnds
  BY <1>2, WindowCounts DEF WindowEnds, BleInv, BleTypeOK, CountsAreHeard
<1>3. CASE BleFails
  BY <1>3 DEF BleFails, BleInv, BleTypeOK, CountsAreHeard
<1>4. CASE \E loads \in BOOLEAN : BleBoot(loads)
  BY <1>4 DEF BleBoot, BleInv, BleTypeOK, CountsAreHeard
<1>5. CASE UNCHANGED blevars
  BY <1>5 DEF blevars, BleInv, BleTypeOK, CountsAreHeard
<1> QED
  BY <1>1, <1>2, <1>3, <1>4, <1>5 DEF BleStep, BleNext

LEMMA SpecBleInv == BleSpec => []BleInv
  BY InitBleInv, StepBleInv, PTL DEF BleSpec, BleStep

(* The statistics of every window are true of all that was heard, for any    *)
(* number of addresses, reports and windows.                                 *)
THEOREM StatsAreExactHolds == BleSpec => StatsAreExact
<1>1. BleInv /\ [BleStep]_blevars
        => [stats' # stats => /\ stats'.total = Len(heard)
                              /\ stats'.different = Cardinality({heard[i] : i \in DOMAIN heard})]_blevars
  <2> SUFFICES ASSUME BleInv, BleStep, stats' # stats
               PROVE  /\ stats'.total = Len(heard)
                      /\ stats'.different = Cardinality({heard[i] : i \in DOMAIN heard})
    OBVIOUS
  <2>1. WindowEnds
    BY DEF BleStep, BleNext, BleFails, AdvReports, BleBoot
  <2> QED
    BY <2>1, WindowCounts
<1> QED
  BY <1>1, SpecBleInv, PTL DEF BleSpec, BleStep, StatsAreExact
-----------------------------------------------------------------------------
(* The board.                                                                *)
AStep == ANext \/ \E loads \in BOOLEAN : ABoot(loads)

(* A step of the board is, for each part, one of its steps or a stutter.     *)
LEMMA PartsStep ==
  [BoardNext]_boardvars => /\ [PNext]_pvars
                           /\ [UStep]_uvars
                           /\ [SStep]_swvars
                           /\ [AStep]_avars
                           /\ [BleStep]_blevars
<1> SUFFICES ASSUME [BoardNext]_boardvars
             PROVE  /\ [PNext]_pvars
                    /\ [UStep]_uvars
                    /\ [SStep]_swvars
                    /\ [AStep]_avars
                    /\ [BleStep]_blevars
  OBVIOUS
<1>1. CASE Work
  BY <1>1 DEF Work
<1>2. CASE \E e \in DOMAIN Included : Flash(e)
  <2>1. PICK e \in DOMAIN Included : Flash(e)
    BY <1>2
  <2>2. PICK loads \in BOOLEAN : loads = (\A f \in Included[e] : Loads(f))
    OBVIOUS
  <2>3. /\ UBoot(loads) \/ UNCHANGED uvars
        /\ SBoot(loads) \/ UNCHANGED swvars
        /\ ABoot(loads) \/ UNCHANGED avars
        /\ BleBoot(loads) \/ UNCHANGED blevars
        /\ UNCHANGED pvars
    BY <2>1, <2>2 DEF Flash
  <2> QED
    BY <2>3 DEF UStep, SStep, AStep, BleStep
<1>3. CASE RunUdp
  BY <1>3 DEF RunUdp, UStep
<1>4. CASE RunSwitch
  BY <1>4 DEF RunSwitch, SStep
<1>5. CASE RunAsync
  BY <1>5 DEF RunAsync, AStep
<1>6. CASE RunBle
  BY <1>6 DEF RunBle, BleStep
<1>7. CASE UNCHANGED boardvars
  BY <1>7 DEF boardvars
<1> QED
  BY <1>1, <1>2, <1>3, <1>4, <1>5, <1>6, <1>7 DEF BoardNext

(* The board runs each example as it would run alone: the workstation only   *)
(* decides whether its payload loads.                                        *)
THEOREM BoardRunsItsParts == BoardSpec => PSpec /\ USpec /\ SSpec /\ ASpec /\ BleSpec
  BY PartsStep, PTL
  DEF BoardSpec, BoardInit, PSpec, USpec, SSpec, ASpec, BleSpec, UStep, SStep, AStep, BleStep

(* Hence what the parts promise holds on the board: payloads are of their    *)
(* crates, replies in order, blocking only to send, switches paid by presses,*)
(* statistics exact.                                                         *)
THEOREM PartsHoldOnBoard ==
  BoardSpec => /\ [](PayloadIsOfItsCrate /\ RepliesInOrder /\ BlocksOnlyToSend /\ SwitchNeedsPress)
               /\ StatsAreExact
  BY BoardRunsItsParts, PayloadIsOfItsCrateHolds, RepliesInOrderHolds, BlocksOnlyToSendHolds,
     SwitchNeedsPressHolds, StatsAreExactHolds, PTL
-----------------------------------------------------------------------------
(* Types.                                                                    *)

Target == {"pulley32", "pulley64", ""}
Payload == [crate : Crate \cup {Partial}, target : Target, fuel : BOOLEAN]

(* What a command may write: the names and options of its payload.           *)
LEMMA CommandNames ==
  ASSUME NEW c \in Command, c.do = "build"
  PROVE  c.crate \in Crate /\ c.options.target \in Target /\ c.options.fuel \in BOOLEAN
<1> USE DEF Target
<1>1. c.crate \in Crate
  BY DEF Command, Proper, Crate
<1>2. c.options.target \in Target /\ c.options.fuel \in BOOLEAN
  <2>1. CASE c \in {Script[i] : i \in DOMAIN Script}
    BY <2>1, PayloadsAssumption
  <2>2. CASE c \in ByHand
    <3>1. PICK d \in {Script[i] : i \in DOMAIN Script}, fuel_ \in BOOLEAN :
            d.do = "build" /\ c.options = [target |-> d.options.target, fuel |-> fuel_]
      BY <2>2 DEF ByHand
    <3>2. d.options.target \in Target
      BY <3>1, PayloadsAssumption
    <3> HIDE DEF Target
    <3>3. c.options.target = d.options.target /\ c.options.fuel = fuel_
      BY <3>1
    <3> QED
      BY <3>2, <3>3, Zenon
  <2> QED
    BY <2>1, <2>2 DEF Command
<1> QED
  BY <1>1, <1>2

PTyped == PInv /\ PTypeOK

LEMMA InitPTyped == PInit => PTyped
<1> SUFFICES ASSUME PInit
             PROVE  PTypeOK
  BY InitPInv DEF PTyped
<1>1. \A f \in Files : (CrateOf(f) = "async-bindings") \in BOOLEAN
  OBVIOUS
<1>2. payload \in [Files -> Payload]
  BY <1>1 DEF PInit, Payload, Target, Crate
<1>3. commands \in Seq({Script[i] : i \in DOMAIN Script} \cup ByHand)
  BY DEF PInit
<1> QED
  BY <1>2, <1>3, PayloadsAssumption DEF PInit, PTypeOK, Payload, Target

LEMMA StepPTyped == PTyped /\ [PNext]_pvars => PTyped'
<1> SUFFICES ASSUME PTyped, [PNext]_pvars
             PROVE  PTyped'
  OBVIOUS
<1> DEFINE c == Head(commands)
<1>1. PInv /\ PTypeOK /\ PInv'
  BY StepPInv DEF PTyped
<1>2. commands' \in Seq({Script[i] : i \in DOMAIN Script} \cup ByHand)
  BY <1>1 DEF PInv, Command
<1>3. /\ payload \in [Files -> Payload] /\ Broken \in Payload
      /\ component \in Crate \cup {Partial, None} /\ builds \in 0..MaxBuilds /\ MaxBuilds \in Nat
      /\ stage \in {"begin", "precompile", "clean"} /\ rebuilt \in {"no", "running", "yes"}
  BY <1>1, PayloadsAssumption DEF PTypeOK, Payload, Target, Broken
<1>4. commands # <<>> => c \in Command
  BY <1>1, HeadIsCommand
<1> HIDE DEF c
<1> SUFFICES /\ payload' \in [Files -> Payload] /\ component' \in Crate \cup {Partial, None}
             /\ builds' \in 0..MaxBuilds
             /\ stage' \in {"begin", "precompile", "clean"} /\ rebuilt' \in {"no", "running", "yes"}
  BY <1>1, <1>2 DEF PTyped, PTypeOK, Payload, Target
<1>5. CASE RunScript \/ RunByHand
  BY <1>3, <1>5 DEF RunScript, RunByHand, Begin
<1>6. CASE Componentize
  BY <1>3, <1>4, <1>6, CommandNames DEF Componentize, Doing, c
<1>7. CASE Precompile
  <2> DEFINE written == [crate |-> component, target |-> c.options.target,
                         fuel |-> c.options.fuel]
  <2>1. /\ commands # <<>> /\ c.do = "build" /\ payload' = [payload EXCEPT ![c.file] = written]
        /\ stage' = "clean" /\ UNCHANGED <<component, builds, rebuilt>>
    BY <1>7 DEF Precompile, Doing, c
  <2>2. component = c.crate
    BY <1>1, <1>7, <2>1 DEF PInv, ComponentIsOfCommand, Precompile, Doing, c
  <2>3. written \in Payload
    BY <1>4, <2>1, <2>2, CommandNames DEF Payload
  <2> QED
    BY <1>3, <2>1, <2>3
<1>8. CASE Clean
  BY <1>3, <1>8 DEF Clean, Doing, Done
<1>9. CASE CopyFile
  <2>1. /\ commands # <<>> /\ c.do = "copy" /\ payload' = [payload EXCEPT ![c.file] = payload[c.from]]
        /\ stage' = "begin" /\ rebuilt' \in {"yes", rebuilt} /\ UNCHANGED <<component, builds>>
    BY <1>9 DEF CopyFile, Doing, Done, c
  <2>2. payload[c.from] \in Payload
    BY <1>3, <1>4, <2>1 DEF Command, Proper
  <2> QED
    BY <1>3, <2>1, <2>2
<1>10. CASE Fail
  <2>1. /\ stage' = "begin" /\ rebuilt' = "no" /\ builds' = builds
        /\ component' \in {component, Partial, None}
        /\ payload' \in {payload, [payload EXCEPT ![c.file] = Broken]}
    BY <1>10 DEF Fail, c
  <2> QED
    BY <1>3, <2>1
<1>11. CASE UNCHANGED pvars
  BY <1>3, <1>11 DEF pvars
<1> QED
  BY <1>5, <1>6, <1>7, <1>8, <1>9, <1>10, <1>11 DEF PNext

(* A packet that holds data has the number of an arrival.                    *)
UTyped == UInv /\ UTypeOK /\ \A p \in {rx, tx, hand} : p.empty \/ p.id # 0

LEMMA InitUTyped == UInit => UTyped
<1> SUFFICES ASSUME UInit
             PROVE  UTyped
  OBVIOUS
<1>1. <<>> \in Seq(1..MaxPackets)
  OBVIOUS
<1> QED
  BY <1>1, InitUInv, NoPacketType, UdpBindingsAssumption DEF UInit, UTyped, UTypeOK

LEMMA StepUTyped == UTyped /\ [UStep]_uvars => UTyped'
<1> SUFFICES ASSUME UTyped, [UStep]_uvars
             PROVE  UTyped'
  OBVIOUS
<1>1. UInv'
  BY StepUInv DEF UTyped
<1> DEFINE Ids == 1..MaxPackets
<1>2. /\ udpMain \in {"off", "calling", "sending", "pausing", "blocked", "exited"}
      /\ fuel \in 0..UdpFuel /\ arrivals \in 0..MaxPackets
      /\ {rx, tx, hand, NoPacket} \subseteq Packet
      /\ accepted \in Seq(Ids) /\ replied \in Seq(Ids)
      /\ \A p \in {rx, tx, hand, NoPacket} : p.empty \/ p.id # 0
      /\ UdpFuel \in Nat /\ MaxPackets \in Nat
  BY NoPacketType, UdpBindingsAssumption DEF UTyped, UTypeOK
<1> SUFFICES /\ udpMain' \in {"off", "calling", "sending", "pausing", "blocked", "exited"}
             /\ fuel' \in 0..UdpFuel /\ arrivals' \in 0..MaxPackets
             /\ {rx', tx', hand'} \subseteq Packet
             /\ accepted' \in Seq(Ids) /\ replied' \in Seq(Ids)
             /\ \A p \in {rx', tx', hand'} : p.empty \/ p.id # 0
  BY <1>1 DEF UTyped, UTypeOK
<1> HIDE DEF Ids
<1>3. CASE ReceiveNothing \/ ReceivePacket
  BY <1>2, <1>3 DEF ReceiveNothing, ReceivePacket
<1>4. CASE Send \/ SendBlocks \/ SendFails
  BY <1>2, <1>4 DEF Send, SendBlocks, SendFails
<1>5. CASE OutOfFuel \/ PauseEnds
  BY <1>2, <1>5 DEF OutOfFuel, PauseEnds
<1>6. CASE Transmit
  <2>1. ~tx.empty
    BY <1>6 DEF UTyped, UInv, OnlyDataIsSent, Transmit
  <2>2. tx.id \in Ids
    BY <1>2, <2>1 DEF Packet, Ids
  <2>3. Append(replied, tx.id) \in Seq(Ids)
    BY <1>2, <2>2, AppendProperties
  <2> QED
    BY <1>2, <1>6, <2>3 DEF Transmit
<1>7. ASSUME NEW empty_ \in BOOLEAN, Arrive(empty_)
      PROVE  /\ udpMain' \in {"off", "calling", "sending", "pausing", "blocked", "exited"}
             /\ fuel' \in 0..UdpFuel /\ arrivals' \in 0..MaxPackets
             /\ {rx', tx', hand'} \subseteq Packet
             /\ accepted' \in Seq(Ids) /\ replied' \in Seq(Ids)
             /\ \A p \in {rx', tx', hand'} : p.empty \/ p.id # 0
  <2>1. arrivals' = arrivals + 1 /\ arrivals' \in 0..MaxPackets /\ arrivals' # 0
    BY <1>2, <1>7 DEF Arrive
  <2>2. arrivals' \in Ids
    BY <1>2, <2>1 DEF Ids
  <2>3. accepted' \in Seq(Ids)
    <3>1. Append(accepted, arrivals') \in Seq(Ids)
      BY <1>2, <2>2, AppendProperties
    <3>2. accepted' \in {accepted, Append(accepted, arrivals')}
      BY <1>7 DEF Arrive
    <3> QED
      BY <1>2, <3>1, <3>2
  <2>4. rx' = rx \/ rx' = [id |-> arrivals', empty |-> empty_]
    BY <1>7 DEF Arrive
  <2>5. rx' \in Packet /\ (rx'.empty \/ rx'.id # 0)
    BY <1>2, <2>1, <2>4 DEF Packet
  <2>6. UNCHANGED <<udpMain, fuel, tx, hand, replied>>
    BY <1>7 DEF Arrive
  <2> QED
    BY <1>2, <2>1, <2>3, <2>5, <2>6
<1>8. CASE \E loads \in BOOLEAN : UBoot(loads)
  BY <1>2, <1>8 DEF UBoot
<1>9. CASE UNCHANGED uvars
  BY <1>2, <1>9 DEF uvars
<1> QED
  BY <1>3, <1>4, <1>5, <1>6, <1>7, <1>8, <1>9 DEF UStep, UNext, UMain

STyped == SInv /\ STypeOK

LEMMA InitSTyped == SInit => STyped
<1> SUFFICES ASSUME SInit
             PROVE  STyped
  OBVIOUS
<1>1. edge \in BOOLEAN
  BY DEF SInit
<1>2. SInv /\ presses \in 0..MaxPresses /\ starts \in 0..(MaxPresses + 1)
  BY SimpleUpdatesAssumption DEF SInit, SInv, PressesPaid
<1> QED
  BY <1>1, <1>2 DEF SInit, STyped, STypeOK

LEMMA StepSTyped == STyped /\ [SStep]_swvars => STyped'
<1> SUFFICES ASSUME STyped, [SStep]_swvars
             PROVE  STyped'
  OBVIOUS
<1>1. SInv'
  BY StepSInv DEF STyped
<1>2. /\ swMain' \in {"off", "starting", "running", "ended", "hogging", "exited"}
      /\ current' \in {"One", "Two"} /\ edge' \in BOOLEAN
  BY DEF STyped, STypeOK, SStep, SNext, SMain, InstantiateFails, StartCapsule, Switch, Press,
         CapsulePolled, SBoot, Other, swvars
<1>3. presses' \in 0..MaxPresses
  <2>1. presses \in 0..MaxPresses /\ presses' \in {presses, presses + 1}
        /\ (presses' # presses => presses < MaxPresses)
    BY DEF STyped, STypeOK, SStep, SNext, SMain, InstantiateFails, StartCapsule, Switch, Press,
           CapsulePolled, SBoot, swvars
  <2> QED
    BY <2>1, SimpleUpdatesAssumption
<1>4. starts' \in 0..(MaxPresses + 1)
  <2>1. starts' \in Nat /\ presses' \in Nat /\ starts' <= presses' + 1
    BY <1>1 DEF SInv, PressesPaid
  <2>2. \A s, p, m \in Nat : s <= p + 1 /\ p \in 0..m => s \in 0..(m + 1)
    OBVIOUS
  <2> QED
    BY <1>3, <2>1, <2>2, SimpleUpdatesAssumption
<1> QED
  BY <1>1, <1>2, <1>3, <1>4 DEF STyped, STypeOK

LEMMA InitATyped == AInit => ATypeOK
<1> SUFFICES ASSUME AInit
             PROVE  ATypeOK
  OBVIOUS
<1>1. expired \in BOOLEAN
  BY DEF AInit
<1>2. slices \in 0..Slices
  BY AsyncBindingsAssumption DEF AInit
<1> QED
  BY <1>1, <1>2 DEF AInit, ATypeOK

LEMMA StepATyped == ATypeOK /\ [AStep]_avars => ATypeOK'
<1> SUFFICES ASSUME ATypeOK, [AStep]_avars
             PROVE  ATypeOK'
  OBVIOUS
<1> USE DEF ATypeOK, AStep, ANext, APoll, SliceSpent, CapsuleSleeps, CapsuleEnds, AOutOfFuel,
            TimedOut, SleepEnds, TimerExpires, ABoot, Pending, Exit, avars
<1>1. expired' \in BOOLEAN
  OBVIOUS
<1>2. slices' \in 0..Slices
  BY AsyncBindingsAssumption
<1>3. /\ asMain' \in {"off", "ready", "sleeping", "exited"}
      /\ result' \in {"none", "ok", "error", "timeout"}
  OBVIOUS
<1> QED
  BY <1>1, <1>2, <1>3, Zenon

(* An example runs only once it was flashed.                                 *)
FlashedRuns ==
  /\ firmware \in DOMAIN Included \cup {None}
  /\ firmware # "udp-bindings"   => udpMain = "off"
  /\ firmware # "simple-updates" => swMain = "off"
  /\ firmware # "async-bindings" => asMain = "off"
  /\ firmware # "ble-scanner"    => bleMain = "off"

LEMMA InitFlashedRuns == BoardInit => FlashedRuns
  BY DEF BoardInit, FlashedRuns, UInit, SInit, AInit, BleInit

LEMMA StepFlashedRuns == FlashedRuns /\ [BoardNext]_boardvars => FlashedRuns'
<1> SUFFICES ASSUME FlashedRuns, [BoardNext]_boardvars
             PROVE  FlashedRuns'
  OBVIOUS
<1> USE DEF FlashedRuns, uvars, swvars, avars, blevars
<1>1. CASE Work \/ UNCHANGED boardvars
  BY <1>1 DEF Work, boardvars
<1>2. CASE \E e \in DOMAIN Included : Flash(e)
  BY <1>2 DEF Flash, Included, None
<1>3. CASE RunUdp \/ RunSwitch \/ RunAsync \/ RunBle
  BY <1>3 DEF RunUdp, RunSwitch, RunAsync, RunBle
<1> QED
  BY <1>1, <1>2, <1>3 DEF BoardNext

(* Every variable keeps its type, for every script, amount of fuel and bound,*)
(* and only the example that was flashed leaves its initial state.           *)
THEOREM BoardTypeCorrect == BoardSpec => []BoardTypeOK
<1>1. PSpec => []PTyped
  BY InitPTyped, StepPTyped, PTL DEF PSpec
<1>2. USpec => []UTyped
  BY InitUTyped, StepUTyped, PTL DEF USpec, UStep
<1>3. SSpec => []STyped
  BY InitSTyped, StepSTyped, PTL DEF SSpec, SStep
<1>4. ASpec => []ATypeOK
  BY InitATyped, StepATyped, PTL DEF ASpec, AStep
<1>5. BoardSpec => []FlashedRuns
  BY InitFlashedRuns, StepFlashedRuns, PTL DEF BoardSpec
<1>6. PTyped /\ UTyped /\ STyped /\ ATypeOK /\ BleInv /\ FlashedRuns => BoardTypeOK
  BY DEF PTyped, UTyped, STyped, BleInv, FlashedRuns, BoardTypeOK
<1> QED
  BY <1>1, <1>2, <1>3, <1>4, <1>5, <1>6, BoardRunsItsParts, SpecBleInv, PTL
=============================================================================
