--------------------------- MODULE CapsuleUpdate ---------------------------
(* What updating the capsule of a device over the network promises, without  *)
(* blocks, messages or handlers: images are requested one after the other;   *)
(* while a request is open the slot may be down or hold the requested image, *)
(* and a request is confirmed only when its image is in the slot.            *)
EXTENDS Naturals, Sequences

CONSTANTS Images,   \* the images requested, in this order
          Factory   \* the program the device comes with

Down == <<>>        \* nothing runs

VARIABLES slot,       \* the program that runs, or Down
          want,       \* number of the image requested last, 0 before the first
          confirmed   \* number of the image confirmed last

vars == <<slot, want, confirmed>>

Init == slot = Factory /\ want = 0 /\ confirmed = 0

Open == want # confirmed

Request == /\ ~Open /\ want < Len(Images)
           /\ want' = want + 1
           /\ UNCHANGED <<slot, confirmed>>

\* the service goes down, but only for a request
Interrupt == /\ Open
             /\ slot' = Down
             /\ UNCHANGED <<want, confirmed>>

Install == /\ Open
           /\ slot' = Images[want]
           /\ UNCHANGED <<want, confirmed>>

Confirm == /\ Open /\ slot = Images[want]
           /\ confirmed' = want
           /\ UNCHANGED <<slot, want>>

Next == Request \/ Interrupt \/ Install \/ Confirm

Spec == Init /\ [][Next]_vars
=============================================================================
