--------------------------- MODULE AsyncBindings ---------------------------
(* examples/async-bindings: a capsule runs under with_timeout.  It yields to *)
(* the executor after every 10_000 units of fuel and whenever it awaits a    *)
(* host function; each poll of main polls the capsule before the timer.      *)
EXTENDS Naturals

CONSTANT Slices   \* fuel of the store, in intervals after which the capsule yields

ASSUME AsyncBindingsAssumption == Slices \in Nat

VARIABLES asMain,    \* where main is
          slices,    \* fuel that is left
          expired,   \* whether the 9 seconds are over
          result     \* of run_wasm

avars == <<asMain, slices, expired, result>>

AInit == asMain = "off" /\ slices = Slices /\ expired = FALSE /\ result = "none"

Exit(r) == asMain' = "exited" /\ result' = r

\* the first poll: an error before the capsule runs ends run_wasm at once
ABoot(loads) ==
  /\ asMain = "off"
  /\ IF loads THEN asMain' = "ready" /\ UNCHANGED result ELSE Exit("error")
  /\ UNCHANGED <<slices, expired>>

\* the capsule is pending: the timer is polled
Pending(becomes) == IF expired THEN Exit("timeout") ELSE asMain' = becomes /\ UNCHANGED result

\* deviation: fuel is filled up again and the timer is not polled, so a loop is never left
SliceSpentRefuelled ==
  /\ asMain = "ready" /\ slices > 0
  /\ slices' = IF slices = 1 THEN Slices ELSE slices - 1
  /\ UNCHANGED <<asMain, expired, result>>

\* an interval is spent: the capsule yields and is ready again
SliceSpent ==
  /\ asMain = "ready" /\ slices > 0
  /\ slices' = slices - 1
  /\ Pending("ready")
  /\ UNCHANGED expired

CapsuleSleeps ==
  /\ asMain = "ready"
  /\ Pending("sleeping")
  /\ UNCHANGED <<slices, expired>>

\* run_wasm returns, also if the timer has expired before this poll
CapsuleEnds ==
  /\ asMain = "ready"
  /\ Exit("ok") \/ Exit("error")
  /\ UNCHANGED <<slices, expired>>

AOutOfFuel ==
  /\ asMain = "ready" /\ slices = 0
  /\ Exit("error")
  /\ UNCHANGED <<slices, expired>>

\* what the capsule awaits has happened
SleepEnds ==
  /\ asMain = "sleeping" /\ asMain' = "ready"
  /\ UNCHANGED <<slices, expired, result>>

\* main is woken by the timer alone
TimedOut ==
  /\ asMain = "sleeping" /\ expired
  /\ Exit("timeout")
  /\ UNCHANGED <<slices, expired>>

TimerExpires ==
  /\ asMain \in {"ready", "sleeping"} /\ ~expired
  /\ expired' = TRUE
  /\ UNCHANGED <<asMain, slices, result>>

APoll == SliceSpent \/ CapsuleSleeps \/ CapsuleEnds \/ AOutOfFuel \/ TimedOut

ANext == APoll \/ SleepEnds \/ TimerExpires

ASpec == AInit /\ [][ANext \/ \E loads \in BOOLEAN : ABoot(loads)]_avars

\* main is polled when it is woken, and the timer runs out; a capsule may sleep for ever
AFairness == WF_avars(APoll) /\ WF_avars(TimerExpires)
-----------------------------------------------------------------------------
ATypeOK ==
  /\ asMain \in {"off", "ready", "sleeping", "exited"}
  /\ slices \in 0..Slices /\ expired \in BOOLEAN
  /\ result \in {"none", "ok", "error", "timeout"}

(* main.rs:33 "to showcase that the runtime yields regularly": main goes on  *)
(* after the timeout whatever the capsule does, also if it loops without     *)
(* calling the host or sleeps for ever.                                      *)
TimeoutEnds == asMain # "off" ~> asMain = "exited"
=============================================================================
