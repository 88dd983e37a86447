---------------------------- MODULE LatestUpdate ----------------------------
(* What a device promises that is told over the network which capsule to     *)
(* run, or to run none, by peers who do not wait for each other: the last    *)
(* word counts.  The words before it are forgotten, and what a capsule does  *)
(* while one waits to be obeyed has no effect on it.                         *)
(*                                                                           *)
(* A set of at most one image is an image, or none if it is empty.           *)

CONSTANT Image

VARIABLES wanted,  \* what the device was told last
          open,    \* whether it has still to obey
          active,  \* what the device runs
          up       \* whether it has not failed

vars == <<wanted, open, active, up>>

AtMostOne(S) == \A x, y \in S : x = y

\* the device comes with a program of its own
Init ==
  /\ wanted \subseteq Image /\ AtMostOne(wanted)
  /\ open = FALSE /\ active = wanted /\ up = TRUE

\* the last word; one that was not obeyed yet is forgotten
Tell ==
  /\ up
  /\ wanted' \subseteq Image /\ AtMostOne(wanted')
  /\ open' = TRUE
  /\ UNCHANGED <<active, up>>

Obey ==
  /\ up /\ open
  /\ active' = wanted
  /\ open' = FALSE
  /\ UNCHANGED <<wanted, up>>

\* a capsule ends by itself, but not in the place of one that is to replace it
End ==
  /\ up /\ ~open
  /\ active' = {}
  /\ UNCHANGED <<wanted, open, up>>

\* an image cannot be started; a device that has none to start does not fail
Fail ==
  /\ up /\ (active # {} \/ (open /\ wanted # {}))
  /\ up' = FALSE
  /\ active' = {}
  /\ open' \in {open, FALSE}
  /\ UNCHANGED wanted

Next == Tell \/ Obey \/ End \/ Fail

Spec == Init /\ [][Next]_vars
=============================================================================
