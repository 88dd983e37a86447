------------------------------- MODULE Board -------------------------------
(* From the workstation to the board: payload files are built (Payloads),    *)
(* one of four examples is compiled with the files that it includes, and     *)
(* flashed, and its main runs.  The examples share no state; what joins them *)
(* to the workstation is include_bytes!.                                     *)
EXTENDS Payloads, UdpBindings, SimpleUpdates, AsyncBindings, BleScanner

VARIABLE firmware   \* the example on the board, None before one is flashed

boardvars == <<pvars, uvars, swvars, avars, blevars, firmware>>

\* the files each example includes
Included == [e \in {"udp-bindings", "async-bindings", "ble-scanner", "simple-updates"} |->
               IF e = "simple-updates" THEN {File(e, "payload1"), File(e, "payload2")}
                                       ELSE {File(e, "payload")}]

BoardInit ==
  /\ PInit /\ UInit /\ SInit /\ AInit /\ BleInit
  /\ firmware = None

\* bound: the workstation stops once the board has its firmware
Work == firmware = None /\ PNext /\ UNCHANGED <<uvars, swvars, avars, blevars, firmware>>

\* build and flash an example, while no command changes the files
Flash(e) ==
  LET loads == \A f \in Included[e] : Loads(f) IN
  /\ firmware = None /\ commands = <<>>
  /\ firmware' = e
  /\ IF e = "udp-bindings"   THEN UBoot(loads)   ELSE UNCHANGED uvars
  /\ IF e = "simple-updates" THEN SBoot(loads)   ELSE UNCHANGED swvars
  /\ IF e = "async-bindings" THEN ABoot(loads)   ELSE UNCHANGED avars
  /\ IF e = "ble-scanner"    THEN BleBoot(loads) ELSE UNCHANGED blevars
  /\ UNCHANGED pvars

RunUdp == firmware = "udp-bindings" /\ UNext /\ UNCHANGED <<pvars, swvars, avars, blevars, firmware>>
RunSwitch == firmware = "simple-updates" /\ SNext /\ UNCHANGED <<pvars, uvars, avars, blevars, firmware>>
RunAsync == firmware = "async-bindings" /\ ANext /\ UNCHANGED <<pvars, uvars, swvars, blevars, firmware>>
RunBle == firmware = "ble-scanner" /\ BleNext /\ UNCHANGED <<pvars, uvars, swvars, avars, firmware>>

BoardNext == \/ Work
             \/ \E e \in DOMAIN Included : Flash(e)
             \/ RunUdp \/ RunSwitch \/ RunAsync \/ RunBle

BoardSpec ==
  /\ BoardInit /\ [][BoardNext]_boardvars
  /\ UFairness /\ SFairness /\ AFairness
-----------------------------------------------------------------------------
(* Every variable of the workstation and of the examples keeps its type, and *)
(* at most the flashed example has left its initial state.                   *)
BoardTypeOK ==
  /\ PTypeOK /\ UTypeOK /\ STypeOK /\ ATypeOK /\ BleTypeOK
  /\ firmware \in DOMAIN Included \cup {None}
  /\ firmware # "udp-bindings"   => udpMain = "off"
  /\ firmware # "simple-updates" => swMain = "off"
  /\ firmware # "async-bindings" => asMain = "off"
  /\ firmware # "ble-scanner"    => bleMain = "off"

(* No example is left waiting for what nobody will do: the three mains that  *)
(* are meant to go on or to end do so, but for the exceptions that UdpEnds   *)
(* and PressesAreHeard name.                                                 *)
ExamplesGoOn == UdpEnds /\ PressesAreHeard /\ TimeoutEnds
=============================================================================
