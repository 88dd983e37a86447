----------------------------- MODULE BleScanner -----------------------------
(* examples/ble-scanner: while main scans, for 5 seconds at a time, the BLE  *)
(* stack hands batches of advertising reports to a callback, which calls the *)
(* capsule (payloads/ble-scanner) once per report; after each window main    *)
(* asks the capsule for its statistics.  Both borrow the same store, the     *)
(* callback inside the select3 of main and the statistics after it.          *)
EXTENDS Naturals, Sequences, FiniteSets

CONSTANTS Addr,         \* addresses of devices
          Room,         \* how many of them the memory of the capsule holds
          BatchSize,    \* bound: reports in a batch
          MaxReports    \* bound: reports heard

ASSUME BleScannerAssumption == IsFiniteSet(Addr) /\ {Room, BatchSize, MaxReports} \subseteq Nat

VARIABLES bleMain,   \* where main is
          seen,      \* SEEN of the capsule: how often each address was reported
          heard,     \* history: the reports the stack could parse
          stats      \* what main printed last

blevars == <<bleMain, seen, heard, stats>>

Malformed == "malformed"

BleInit ==
  /\ bleMain = "off"
  /\ seen = [a \in Addr |-> 0] /\ heard = <<>>
  /\ stats = [different |-> 0, total |-> 0]

\* deserialize_raw is unwrapped, unlike in the other examples; instantiate is not
BleBoot(loads) ==
  /\ bleMain = "off"
  /\ bleMain' \in (IF loads THEN {"scanning", "exited"} ELSE {"panicked"})
  /\ UNCHANGED <<seen, heard, stats>>

Batch == UNION {[1..n -> Addr \cup {Malformed}] : n \in 1..BatchSize}

\* deviation: the callback passes over a report that cannot be parsed
ParsedSkipping(batch) == {i \in DOMAIN batch : batch[i] # Malformed}

\* the callback stops at the first report that cannot be parsed
Parsed(batch) == {i \in DOMAIN batch : \A j \in 1..i : batch[j] # Malformed}

Known == {a \in Addr : seen[a] > 0}

\* deviation: a capsule that forgets what it has seen before the batch
CountedAnew(batch) ==
  [a \in Addr |-> Cardinality({i \in Parsed(batch) : batch[i] = a})]

Counted(batch) ==
  [a \in Addr |-> seen[a] + Cardinality({i \in Parsed(batch) : batch[i] = a})]

\* on_adv_reports; a capsule without room for a new address traps, which is unwrapped
AdvReports(batch) ==
  /\ bleMain = "scanning"
  /\ Len(heard) + Len(batch) <= MaxReports
  /\ heard' = heard \o SubSeq(batch, 1, Cardinality(Parsed(batch)))
  /\ IF Cardinality(Known \cup {batch[i] : i \in Parsed(batch)}) > Room
     THEN bleMain' = "panicked" /\ UNCHANGED seen
     ELSE seen' = Counted(batch) /\ UNCHANGED bleMain
  /\ UNCHANGED stats

\* scan fails or the stack returns: unwrap and unreachable!
BleFails ==
  /\ bleMain = "scanning" /\ bleMain' = "panicked"
  /\ UNCHANGED <<seen, heard, stats>>

\* the 5 seconds are over; return_stats, printed before the next scan
WindowEnds ==
  /\ bleMain = "scanning"
  /\ stats' = [different |-> Cardinality(Known),
               total |-> Cardinality(UNION {{a} \X (1..seen[a]) : a \in Addr})]
  /\ UNCHANGED <<bleMain, seen, heard>>

BleNext == BleFails \/ WindowEnds \/ \E batch \in Batch : AdvReports(batch)

BleSpec == BleInit /\ [][BleNext \/ \E loads \in BOOLEAN : BleBoot(loads)]_blevars
-----------------------------------------------------------------------------
BleTypeOK ==
  /\ bleMain \in {"off", "scanning", "panicked", "exited"}
  /\ seen \in [Addr -> Nat] /\ heard \in Seq(Addr)
  /\ stats \in [different : Nat, total : Nat]

(* What the capsule returns at the end of a window is true of all that was   *)
(* heard since the start: it survives the windows.                           *)
StatsAreExact ==
  [][stats' # stats => /\ stats'.total = Len(heard)
                       /\ stats'.different = Cardinality({heard[i] : i \in DOMAIN heard})]_blevars
=============================================================================
