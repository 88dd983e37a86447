------------------------------ MODULE Payloads ------------------------------
(* The workstation: how the payload files of the examples come about.        *)
(* rebuild-all-payloads.sh runs precompile_wasm.rs for one crate after the   *)
(* other and copies two results; a developer may run a single command by     *)
(* hand.  Every command works on the same temp.wasm in the current           *)
(* directory, and any of its stages may fail or be interrupted, which leaves *)
(* behind what was written so far.  Commands are run one at a time.          *)
EXTENDS Naturals, Sequences

CONSTANTS Script,     \* the commands of the script: RebuildScript, or some of them
          MaxBuilds   \* bound: how often the script or a command is started

None == "none"
Partial == "partial"

\* a file that was not written to its end
Broken == [crate |-> Partial, target |-> "", fuel |-> FALSE]

File(dir, name) == [dir |-> dir, name |-> name]

Build(crate, dir, name, target, fuel) ==
  [do |-> "build", crate |-> crate, file |-> File(dir, name),
   options |-> [target |-> target, fuel |-> fuel]]

Copy(from, to) == [do |-> "copy", from |-> from, file |-> to]

\* the loop of the script, for the crates whose name is that of the example
Plain == <<"ble-scanner", "ephemeral-no-bindings", "ephemeral-with-bindings", "gpio",
           "persistent-no-bindings", "persistent-with-bindings", "udp-bindings">>

RebuildScript ==
  [i \in DOMAIN Plain |-> Build(Plain[i], Plain[i], "payload", "pulley32", FALSE)]
  \o <<Build("async-bindings", "async-bindings", "payload", "pulley32", TRUE),
       Build("async-bindings", "async-bindings", "payload.pulley64f", "pulley64", TRUE),
       Build("simple-updates-1", "simple-updates", "payload1", "pulley32", FALSE),
       Build("simple-updates-2", "simple-updates", "payload2", "pulley32", FALSE),
       Copy(File("simple-updates", "payload1"), File("insecure-updates", "payload1")),
       Copy(File("simple-updates", "payload2"), File("insecure-updates", "payload2")),
       Copy(File("async-bindings", "payload"), File("updatable-async", "async-payload")),
       Build("sensors", "fake-sensor", "payload", "pulley32", FALSE)>>

Files == {Script[i].file : i \in DOMAIN Script}

\* single commands: those of the script, each with --fuel or without
ByHand ==
  {[do |-> "build", crate |-> c.crate, file |-> c.file,
    options |-> [target |-> c.options.target, fuel |-> fuel]] :
     c \in {s \in {Script[i] : i \in DOMAIN Script} : s.do = "build"}, fuel \in BOOLEAN}

\* the crate a file is meant to be made from
CrateOf(f) ==
  CASE f.name = "payload1"          -> "simple-updates-1"
    [] f.name = "payload2"          -> "simple-updates-2"
    [] f.dir = "updatable-async"    -> "async-bindings"
    [] f.dir = "fake-sensor"        -> "sensors"
    [] OTHER                        -> f.dir

\* every command names the crate of its output
Proper(c) ==
  /\ c.do \in {"build", "copy"}
  /\ c.do = "build" => c.crate = CrateOf(c.file)
  /\ c.do = "copy"  => c.from \in Files /\ CrateOf(c.from) = CrateOf(c.file)

ASSUME PayloadsAssumption ==
  /\ Script \in Seq({Script[i] : i \in DOMAIN Script})
  /\ \A i \in DOMAIN Script :
       /\ Proper(Script[i])
       /\ Script[i].do = "build" =>
            Script[i].options \in [target : {"pulley32", "pulley64"}, fuel : BOOLEAN]
  /\ MaxBuilds \in Nat

VARIABLES payload,    \* the .cwasm files
          component,  \* the crate temp.wasm was made from, None or Partial
          commands,   \* what is left of the script or command that runs
          stage,      \* and how far the first of them is
          builds,     \* number of starts
          rebuilt     \* whether the whole script has run, and nothing since

pvars == <<payload, component, commands, stage, builds, rebuilt>>

\* whether the engine of an example counts fuel
EngineFuel(dir) == dir \in {"async-bindings", "udp-bindings"}

\* deserialize takes what was compiled with the options of the engine, and the
\* instance has the exports of the example's world
Loads(f) ==
  /\ payload[f].crate = CrateOf(f)
  /\ payload[f].target = (IF f.name = "payload.pulley64f" THEN "pulley64" ELSE "pulley32")
  /\ payload[f].fuel = EngineFuel(f.dir)
-----------------------------------------------------------------------------
\* the files of the repository are those of an earlier run of the script
PInit ==
  /\ payload = [f \in Files |->
                  [crate |-> CrateOf(f), fuel |-> CrateOf(f) = "async-bindings",
                   target |-> IF f.name = "payload.pulley64f" THEN "pulley64" ELSE "pulley32"]]
  /\ component = None
  /\ commands = <<>> /\ stage = "begin" /\ builds = 0 /\ rebuilt = "no"

Begin(cs, whole) ==
  /\ commands = <<>> /\ builds < MaxBuilds
  /\ commands' = cs /\ builds' = builds + 1
  /\ rebuilt' = IF whole THEN "running" ELSE "no"
  /\ UNCHANGED <<payload, component, stage>>

RunScript == Begin(Script, TRUE)
RunByHand == \E c \in ByHand : Begin(<<c>>, FALSE)

Doing(what, at) == commands # <<>> /\ Head(commands).do = what /\ stage = at

\* the command is through; set -e lets the next one begin
Done ==
  /\ commands' = Tail(commands) /\ stage' = "begin"
  /\ rebuilt' = IF Len(commands) = 1 /\ rebuilt = "running" THEN "yes" ELSE rebuilt

\* deviation: a temp.wasm that is there is used again
ComponentizeUnlessThere ==
  /\ Doing("build", "begin")
  /\ component' = IF component = None THEN Head(commands).crate ELSE component
  /\ stage' = "precompile"
  /\ UNCHANGED <<payload, commands, builds, rebuilt>>

\* cargo rustc, then wasm-tools component new -o temp.wasm
Componentize ==
  /\ Doing("build", "begin")
  /\ component' = Head(commands).crate
  /\ stage' = "precompile"
  /\ UNCHANGED <<payload, commands, builds, rebuilt>>

\* precompile: read temp.wasm, compile it, write the output
Precompile ==
  /\ Doing("build", "precompile")
  /\ LET c == Head(commands) IN
     payload' = [payload EXCEPT ![c.file] =
                   [crate |-> component, target |-> c.options.target, fuel |-> c.options.fuel]]
  /\ stage' = "clean"
  /\ UNCHANGED <<component, commands, builds, rebuilt>>

\* remove temp.wasm and the directory temp
Clean ==
  /\ Doing("build", "clean")
  /\ component' = None
  /\ Done
  /\ UNCHANGED <<payload, builds>>

CopyFile ==
  /\ Doing("copy", "begin")
  /\ payload' = [payload EXCEPT ![Head(commands).file] = payload[Head(commands).from]]
  /\ Done
  /\ UNCHANGED <<component, builds>>

\* a stage fails: what it was writing may be left in part, and set -e ends the script
Fail ==
  /\ commands # <<>>
  /\ commands' = <<>> /\ stage' = "begin" /\ rebuilt' = "no"
  /\ LET c == Head(commands)
         written == [payload EXCEPT ![c.file] = Broken]
     IN  CASE c.do = "copy"        -> payload' \in {payload, written} /\ UNCHANGED component
           [] stage = "begin"      -> component' \in {component, Partial} /\ UNCHANGED payload
           [] stage = "precompile" -> payload' \in {payload, written} /\ UNCHANGED component
           [] OTHER                -> component' \in {component, None} /\ UNCHANGED payload
  /\ UNCHANGED builds

PNext == RunScript \/ RunByHand \/ Componentize \/ Precompile \/ Clean \/ CopyFile \/ Fail

PSpec == PInit /\ [][PNext]_pvars
-----------------------------------------------------------------------------
Crate == {CrateOf(f) : f \in Files}

PTypeOK ==
  /\ payload \in [Files -> [crate : Crate \cup {Partial}, target : {"pulley32", "pulley64", ""},
                           fuel : BOOLEAN]]
  /\ component \in Crate \cup {Partial, None}
  /\ commands \in Seq({Script[i] : i \in DOMAIN Script} \cup ByHand)
  /\ stage \in {"begin", "precompile", "clean"} /\ builds \in 0..MaxBuilds /\ rebuilt \in {"no", "running", "yes"}

(* No failure and no rerun after one puts the code of one crate into the     *)
(* payload of another, although all commands share temp.wasm and leave it    *)
(* behind when they fail: a file is of its crate, or visibly broken.         *)
PayloadIsOfItsCrate == \A f \in Files : payload[f] = Broken \/ payload[f].crate = CrateOf(f)

(* rebuild-all-payloads.sh:11 "These need fuel": after the whole script, the *)
(* engine of every example takes the payloads in its directory.              *)
RebuiltExamplesStart == rebuilt = "yes" => \A f \in Files : Loads(f)
=============================================================================
