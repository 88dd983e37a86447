---------------------------- MODULE UdpBindings ----------------------------
(* examples/udp-bindings: a capsule (payloads/udp-bindings) that echoes the  *)
(* packets of one socket through the host functions bind, try_recv and send. *)
(* main calls its `run` every 10 ms.  The host functions do not await: send  *)
(* waits in block_on, which keeps the executor, so the network task moves    *)
(* packets only while main awaits its timer.                                 *)
(*                                                                           *)
(* The socket holds one packet in each direction (rx_meta and tx_meta have   *)
(* one entry each).                                                          *)
EXTENDS Naturals, Sequences

CONSTANTS UdpFuel,     \* what set_fuel gives the store, once, in calls of the host
          MaxPackets   \* bound: packets that arrive

ASSUME UdpBindingsAssumption == UdpFuel \in Nat /\ MaxPackets \in Nat

VARIABLES udpMain,   \* what main, or the capsule it called, is doing
          fuel,      \* what is left of UdpFuel
          rx, tx,    \* the two queues of the socket
          hand,      \* the packet the capsule has received and not yet echoed
          arrivals,  \* number of packets that arrived
          accepted,  \* history: the packets with data that found room in rx
          replied    \* history: the packets the network has sent

uvars == <<udpMain, fuel, rx, tx, hand, arrivals, accepted, replied>>

Packet == [id : 0..MaxPackets, empty : BOOLEAN]
NoPacket == [id |-> 0, empty |-> TRUE]

UInit ==
  /\ udpMain = "off" /\ fuel = UdpFuel
  /\ rx = NoPacket /\ tx = NoPacket /\ hand = NoPacket
  /\ arrivals = 0 /\ accepted = <<>> /\ replied = <<>>

\* run_wasm up to the loop: deserialize_raw, instantiate and bind_socket return errors,
\* with which main exits
UBoot(loads) ==
  /\ udpMain = "off"
  /\ udpMain' \in (IF loads THEN {"calling", "exited"} ELSE {"exited"})
  /\ UNCHANGED <<fuel, rx, tx, hand, arrivals, accepted, replied>>
-----------------------------------------------------------------------------
(* One call of the capsule's run.                                            *)

\* deviation: recv_from without may_recv before it
ReceiveNothingBlocking ==
  /\ udpMain = "calling" /\ fuel > 0 /\ rx.empty
  /\ rx' = NoPacket /\ fuel' = fuel - 1
  /\ udpMain' = IF rx = NoPacket THEN "blocked" ELSE "pausing"
  /\ UNCHANGED <<tx, hand, arrivals, accepted, replied>>

\* try_recv finds nothing, or a packet without data, which it takes and drops
ReceiveNothing ==
  /\ udpMain = "calling" /\ fuel > 0 /\ rx.empty
  /\ rx' = NoPacket /\ fuel' = fuel - 1
  /\ udpMain' = "pausing"
  /\ UNCHANGED <<tx, hand, arrivals, accepted, replied>>

ReceivePacket ==
  /\ udpMain = "calling" /\ fuel > 0 /\ ~rx.empty
  /\ hand' = rx /\ rx' = NoPacket /\ fuel' = fuel - 1
  /\ udpMain' = "sending"
  /\ UNCHANGED <<tx, arrivals, accepted, replied>>

\* deviation: send does not wait for room
SendAtOnce ==
  /\ udpMain = "sending" /\ fuel > 0
  /\ tx' = hand /\ hand' = NoPacket /\ fuel' = fuel - 1
  /\ udpMain' = "pausing"
  /\ UNCHANGED <<rx, arrivals, accepted, replied>>

Send ==
  /\ udpMain = "sending" /\ fuel > 0 /\ tx = NoPacket
  /\ tx' = hand /\ hand' = NoPacket /\ fuel' = fuel - 1
  /\ udpMain' = "pausing"
  /\ UNCHANGED <<rx, arrivals, accepted, replied>>

\* block_on polls send_to until there is room, which only the network task makes
SendBlocks ==
  /\ udpMain = "sending" /\ fuel > 0 /\ tx # NoPacket
  /\ udpMain' = "blocked"
  /\ UNCHANGED <<fuel, rx, tx, hand, arrivals, accepted, replied>>

\* no route to the peer: the capsule unwraps the error, and main returns its trap
SendFails ==
  /\ udpMain = "sending" /\ fuel > 0
  /\ udpMain' = "exited"
  /\ UNCHANGED <<fuel, rx, tx, hand, arrivals, accepted, replied>>

\* the trap of a capsule without fuel is returned
OutOfFuel ==
  /\ udpMain \in {"calling", "sending"} /\ fuel = 0
  /\ udpMain' = "exited"
  /\ UNCHANGED <<fuel, rx, tx, hand, arrivals, accepted, replied>>

\* deviation: every call gets fuel of its own
PauseEndsRefuelled ==
  /\ udpMain = "pausing" /\ udpMain' = "calling" /\ fuel' = UdpFuel
  /\ UNCHANGED <<rx, tx, hand, arrivals, accepted, replied>>

\* the 10 ms are over
PauseEnds ==
  /\ udpMain = "pausing" /\ udpMain' = "calling"
  /\ UNCHANGED <<fuel, rx, tx, hand, arrivals, accepted, replied>>

UMain == \/ ReceiveNothing \/ ReceivePacket
         \/ Send \/ SendBlocks \/ SendFails
         \/ OutOfFuel \/ PauseEnds
-----------------------------------------------------------------------------
(* The network task, which runs while main awaits.                           *)

\* a packet is put into rx, or dropped if there is no room
Arrive(empty) ==
  /\ udpMain = "pausing" /\ arrivals < MaxPackets
  /\ arrivals' = arrivals + 1
  /\ IF rx = NoPacket
     THEN /\ rx' = [id |-> arrivals', empty |-> empty]
          /\ accepted' = IF empty THEN accepted ELSE Append(accepted, arrivals')
     ELSE UNCHANGED <<rx, accepted>>
  /\ UNCHANGED <<udpMain, fuel, tx, hand, replied>>

Transmit ==
  /\ udpMain = "pausing" /\ tx # NoPacket
  /\ replied' = Append(replied, tx.id) /\ tx' = NoPacket
  /\ UNCHANGED <<udpMain, fuel, rx, hand, arrivals, accepted>>

UNext == UMain \/ Transmit \/ \E empty \in BOOLEAN : Arrive(empty)

USpec == UInit /\ [][UNext \/ \E loads \in BOOLEAN : UBoot(loads)]_uvars

\* the executor polls main whenever its timer has fired, and the capsule runs
UFairness == WF_uvars(UMain)
-----------------------------------------------------------------------------
UTypeOK ==
  /\ udpMain \in {"off", "calling", "sending", "pausing", "blocked", "exited"}
  /\ fuel \in 0..UdpFuel
  /\ {rx, tx, hand} \subseteq Packet
  /\ arrivals \in 0..MaxPackets
  /\ accepted \in Seq(1..MaxPackets) /\ replied \in Seq(1..MaxPackets)

Data(p) == IF p.empty THEN <<>> ELSE <<p.id>>

(* Until main exits no accepted packet is lost between the two queues, the   *)
(* capsule and the network, none is echoed twice and none overtakes another. *)
RepliesInOrder ==
  udpMain # "exited" => accepted = replied \o Data(tx) \o Data(hand) \o Data(rx)

(* The executor is kept for ever only by a reply that waits behind another   *)
(* one; a receive never waits, since nothing takes the packet that may_recv  *)
(* has seen.                                                                 *)
BlocksOnlyToSend == udpMain = "blocked" => ~hand.empty /\ ~tx.empty

(* main.rs:89 "it will stop because of fuel exhaustation": main ends, but    *)
(* for that one case, in which the capsule burns no fuel.                    *)
UdpEnds == udpMain # "off" ~> udpMain \in {"exited", "blocked"}
=============================================================================
