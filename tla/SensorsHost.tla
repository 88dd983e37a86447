---------------------------- MODULE SensorsHost ----------------------------
(* The sensor host functions (sensors.rs): a capsule triggers measurements   *)
(* of the sensors of a category, then waits for the readings, perhaps only   *)
(* of one label.  Host functions run one at a time; sensors measure in tasks *)
(* of their own.                                                             *)
(*                                                                           *)
(* The Sensor trait and its drivers are outside of the repository, but for   *)
(* the fake sensor of examples/fake-sensor, which measures at every wait.    *)
EXTENDS Naturals, Sequences, SequencesExt

CONSTANTS Registry,    \* the sensors, in the order REGISTRY lists them
          Fake,        \* those that are fake sensors
          Categories,  \* the categories of each sensor
          Channels,    \* the reading channels of each sensor, in order
          Category,    \* the categories a capsule asks for, as named in the wit file
          Label,       \* the labels a capsule asks for, as named there
          OtherLabel   \* a label the wit file does not have

Sensor == ToSet(Registry)

\* `supported` tells whether the wit file has the label and the unit
Channel == {c \in [label : Label \cup {OtherLabel}, supported : BOOLEAN] :
              c.supported => c.label # OtherLabel}

ASSUME SensorsAssumption ==
  /\ OtherLabel \notin Label
  /\ Registry \in Seq(Sensor)
  /\ Fake \subseteq Sensor
  /\ IsInjective(Registry)
  /\ Channels \in [Sensor -> Seq(Channel)]
  /\ DOMAIN Categories = Sensor

VARIABLES async,     \* whether the feature sensors-async is enabled
          phase,     \* what each sensor is doing
          call,      \* where the capsule is
          label,     \* the label the capsule waits for
          next,      \* the sensor whose reading is awaited
          results,   \* the readings collected by wait_for_reading
          expected,  \* history: the sensors that were measuring when it began
          last       \* the call answered last

vars == <<async, phase, call, label, next, results, expected, last>>

All == "all"      \* None, where a category or a label may be given

\* idle: a wait is answered with NotMeasuring; ready, failed: the reading, or
\* an error, can be taken
Phase == {"idle", "measuring", "ready", "failed"}

Reading == [sensor : Sensor, channel : Channel]

\* the readings of a sensor that a wait for a label returns
Wanted(s, l) ==
  FlattenSeq([i \in DOMAIN Channels[s] |->
                IF l \in {All, Channels[s][i].label}
                THEN <<[sensor |-> s, channel |-> Channels[s][i]]>>
                ELSE <<>>])

TypeOK ==
  /\ async \in BOOLEAN
  /\ phase \in [Sensor -> Phase]
  /\ call \in {"idle", "waiting", "panicked"}
  /\ label \in Label \cup {All}
  /\ next \in 1..Len(Registry) + 1
  /\ results \in Seq(Reading)
  /\ expected \subseteq Sensor
  /\ last \in [op : {"none", "trigger", "wait"}, asked : Category \cup Label \cup {All}, ok : BOOLEAN]

Init ==
  /\ async \in BOOLEAN
  /\ phase = [s \in Sensor |-> "idle"]
  /\ call = "idle" /\ label = All
  /\ next = 1 /\ results = <<>> /\ expected = {}
  /\ last = [op |-> "none", asked |-> All, ok |-> TRUE]

Answer(op, asked, ok) == last' = [op |-> op, asked |-> asked, ok |-> ok]
-----------------------------------------------------------------------------
(* trigger_measurements.                                                     *)

\* From<comp_sensor::Category> for Category
HostCategory(cat) == IF cat = "RelativeHumidity" THEN "Gyroscope" ELSE cat

Selected(cat) == {s \in Sensor : cat = All \/ HostCategory(cat) \in Categories[s]}

\* the selected sensors are triggered in the order of the registry, up to one
\* that refuses, at place n, or to the end
Trigger(cat, n) ==
  /\ call = "idle"
  /\ n \in DOMAIN Registry => Registry[n] \in Selected(cat) \ Fake
  /\ phase' = [s \in Sensor |->
                 IF s \in Selected(cat) \ Fake /\ \E i \in 1..n - 1 : Registry[i] = s
                 THEN "measuring"
                 ELSE phase[s]]
  /\ Answer("trigger", cat, n \notin DOMAIN Registry)
  /\ UNCHANGED <<async, call, label, next, results, expected>>
-----------------------------------------------------------------------------
(* wait_for_reading: the sensors are awaited one after the other.            *)

WaitBegin(l) ==
  /\ call = "idle"
  /\ call' = "waiting" /\ label' = l /\ next' = 1 /\ results' = <<>>
  /\ expected' = Fake \cup {s \in Sensor : phase[s] # "idle"}
  /\ UNCHANGED <<async, phase, last>>

Awaited == Registry[next]
Awaiting == call = "waiting" /\ next \in DOMAIN Registry

\* deviations: NotMeasuring ends the loop, or skips one sensor too many; a
\* sensor that does not measure is awaited
SkipRest ==
  /\ Awaiting /\ Awaited \notin Fake /\ phase[Awaited] = "idle"
  /\ next' = Len(Registry) + 1
  /\ UNCHANGED <<async, phase, call, label, results, expected, last>>

SkipTwo ==
  /\ Awaiting /\ Awaited \notin Fake /\ phase[Awaited] = "idle"
  /\ next' = next + 2
  /\ UNCHANGED <<async, phase, call, label, results, expected, last>>

SkipNone == FALSE /\ UNCHANGED vars

\* Err(NotMeasuring): the next sensor
Skip ==
  /\ Awaiting /\ Awaited \notin Fake /\ phase[Awaited] = "idle"
  /\ next' = next + 1
  /\ UNCHANGED <<async, phase, call, label, results, expected, last>>

\* Ok(samples): the reading is taken, and those of its channels that match are
\* converted, which panics for what the wit file does not have
Collect ==
  /\ Awaiting /\ (Awaited \in Fake \/ phase[Awaited] = "ready")
  /\ phase' = [phase EXCEPT ![Awaited] = "idle"]
  /\ IF \E r \in ToSet(Wanted(Awaited, label)) : ~r.channel.supported
     THEN call' = "panicked" /\ UNCHANGED <<next, results>>
     ELSE /\ next' = next + 1
          /\ results' = results \o Wanted(Awaited, label)
          /\ UNCHANGED call
  /\ UNCHANGED <<async, label, expected, last>>

\* any other error is the answer; what was collected is lost, the sensors that
\* follow keep their readings
WaitFails ==
  /\ Awaiting /\ phase[Awaited] = "failed"
  /\ phase' = [phase EXCEPT ![Awaited] = "idle"]
  /\ call' = "idle"
  /\ Answer("wait", label, FALSE)
  /\ UNCHANGED <<async, label, next, results, expected>>

WaitDone ==
  /\ call = "waiting" /\ next > Len(Registry)
  /\ call' = "idle"
  /\ Answer("wait", label, TRUE)
  /\ UNCHANGED <<async, phase, label, next, results, expected>>

Wait == Skip \/ Collect \/ WaitFails \/ WaitDone
-----------------------------------------------------------------------------
(* The task of a sensor ends a measurement.  Without sensors-async the wait  *)
(* blocks the executor that the tasks share with the capsule.                *)
Measured(s) ==
  /\ async \/ call # "waiting"
  /\ call # "panicked"
  /\ phase[s] = "measuring"
  /\ \E outcome \in {"ready", "failed"} : phase' = [phase EXCEPT ![s] = outcome]
  /\ UNCHANGED <<async, call, label, next, results, expected, last>>

Next ==
  \/ \E cat \in Category \cup {All} : \E n \in 1..Len(Registry) + 1 : Trigger(cat, n)
  \/ \E l \in Label \cup {All} : WaitBegin(l)
  \/ Wait
  \/ \E s \in Sensor : Measured(s)

Spec == Init /\ [][Next]_vars

(* Tasks that are ready are polled, and a measurement ends.                  *)
Fairness == WF_vars(Wait) /\ \A s \in Sensor : WF_vars(Measured(s))

FairSpec == Spec /\ Fairness
-----------------------------------------------------------------------------
(* A wait that is answered with Ok returns the readings of all sensors that  *)
(* were measuring when it was called and of no other, each once, in the      *)
(* order of the registry, whatever triggers and waits failed halfway before. *)
WaitIsExact ==
  last.op = "wait" /\ last.ok /\ call = "idle" =>
    results = FlattenSeq([i \in DOMAIN Registry |->
                            IF Registry[i] \in expected
                            THEN Wanted(Registry[i], last.asked)
                            ELSE <<>>])

(* sensors.wit:7: after a trigger that was answered with Ok, all sensors of  *)
(* the category measure, or have measured.                                   *)
CategoryTriggered ==
  last.op = "trigger" /\ last.ok /\ call = "idle" =>
    \A s \in Sensor \ Fake : last.asked \in Categories[s] \cup {All} => phase[s] # "idle"

(* A wait ends if the sensors that measure can go on while it lasts; with a  *)
(* blocking wait, if none is measuring any more.                             *)
WaitEnds ==
  call = "waiting" /\ (async \/ \A s \in Sensor : phase[s] # "measuring") ~> call # "waiting"
=============================================================================
