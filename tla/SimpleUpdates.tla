--------------------------- MODULE SimpleUpdates ---------------------------
(* examples/simple-updates: two components that run in turn; a press of the  *)
(* button starts the other one.  An edge counts only while a future of       *)
(* wait_for_falling_edge has been polled and not been dropped.  A step of    *)
(* main is what happens between two of its awaits; presses come at any time. *)
EXTENDS Naturals

CONSTANT MaxPresses   \* bound: how often the button is pressed

ASSUME SimpleUpdatesAssumption == MaxPresses \in Nat

VARIABLES swMain,    \* where main is
          current,   \* which component it starts the other one of
          edge,      \* whether the future it awaits has seen an edge
          presses,   \* history: presses of the button
          starts     \* history: components started

swvars == <<swMain, current, edge, presses, starts>>

SInit ==
  /\ swMain = "off" /\ current = "One" /\ edge = FALSE
  /\ presses = 0 /\ starts = 0

\* both components are deserialized first
SBoot(loads) ==
  /\ swMain = "off"
  /\ swMain' = IF loads THEN "starting" ELSE "exited"
  /\ UNCHANGED <<current, edge, presses, starts>>

Other(c) == IF c = "One" THEN "Two" ELSE "One"

InstantiateFails ==
  /\ swMain = "starting" /\ swMain' = "exited"
  /\ UNCHANGED <<current, edge, presses, starts>>

\* instantiate_async and the first poll of select: the capsule is polled before
\* the button; it waits for a host function, ends (or traps), or never yields
StartCapsule(becomes) ==
  /\ swMain = "starting"
  /\ becomes \in {"running", "ended", "hogging"}
  /\ swMain' = becomes
  /\ current' = Other(current)
  /\ starts' = starts + 1
  /\ UNCHANGED <<edge, presses>>

\* deviation: the end of a capsule starts the other one
CapsulePolledSwitching(becomes) ==
  /\ swMain = "running"
  /\ becomes \in {"ended", "hogging"}
  /\ swMain' = IF becomes = "ended" THEN "starting" ELSE becomes
  /\ edge' = (edge /\ becomes = "hogging")
  /\ UNCHANGED <<current, presses, starts>>

\* a later poll of select, with the capsule first: its result drops the future
\* of the button with the edge that it may have seen; if the capsule does not
\* yield again the poll never ends, and the future stays as it is
CapsulePolled(becomes) ==
  /\ swMain = "running"
  /\ becomes \in {"ended", "hogging"}
  /\ swMain' = becomes
  /\ edge' = (edge /\ becomes = "hogging")
  /\ UNCHANGED <<current, presses, starts>>

\* deviation: only a capsule that has ended gives way
SwitchEnded ==
  /\ swMain = "ended" /\ edge
  /\ swMain' = "starting" /\ edge' = FALSE
  /\ UNCHANGED <<current, presses, starts>>

\* the capsule is still pending, or has ended before; the button has its turn
Switch ==
  /\ swMain \in {"running", "ended"} /\ edge
  /\ swMain' = "starting" /\ edge' = FALSE
  /\ UNCHANGED <<current, presses, starts>>

Press ==
  /\ swMain # "off" /\ presses < MaxPresses
  /\ presses' = presses + 1
  /\ edge' = (edge \/ swMain \in {"running", "ended"})
  /\ UNCHANGED <<swMain, current, starts>>

SMain == \/ InstantiateFails
         \/ \E becomes \in {"running", "ended", "hogging"} : StartCapsule(becomes)
         \/ Switch

SNext == SMain \/ Press \/ \E becomes \in {"ended", "hogging"} : CapsulePolled(becomes)

SSpec == SInit /\ [][SNext \/ \E loads \in BOOLEAN : SBoot(loads)]_swvars

\* main is polled once it is woken; whether the capsule ever ends is its own affair
SFairness == WF_swvars(SMain)
-----------------------------------------------------------------------------
STypeOK ==
  /\ swMain \in {"off", "starting", "running", "ended", "hogging", "exited"}
  /\ current \in {"One", "Two"} /\ edge \in BOOLEAN
  /\ presses \in 0..MaxPresses /\ starts \in 0..(MaxPresses + 1)

(* After the first component every start of the other one has cost a press   *)
(* of its own: no edge counts twice, and neither the end of a capsule nor an *)
(* edge left over from the last select starts anything.                      *)
SwitchNeedsPress == starts <= presses + 1

(* A press that is seen starts the other component, unless the capsule ends  *)
(* in the same poll (its edge is dropped) or never yields again.             *)
PressesAreHeard == edge ~> (~edge \/ swMain = "hogging")
=============================================================================
