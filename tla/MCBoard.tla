------------------------------ MODULE MCBoard ------------------------------
(* A small instance of Board, with the commands of the script for the four   *)
(* examples and one that copies.                                             *)
EXTENDS Board

MCScript ==
  SelectSeq(RebuildScript,
            LAMBDA c : /\ c.file.dir \in DOMAIN Included \cup {"updatable-async"}
                       /\ c.file.name # "payload.pulley64f")
=============================================================================
