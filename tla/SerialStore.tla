------------------------------ MODULE SerialStore ------------------------------
(***************************************************************************)
(* What tigon's transactions promise of the rows that they return: the     *)
(* committed transactions take effect one at a time, each in a single step *)
(* in which every row that it read still has the value it read.  What a    *)
(* range scan did not return is no part of the promise (see NoPhantom of   *)
(* module TwoPLPasha).                                                     *)
(***************************************************************************)
EXTENDS Integers, TLC

CONSTANTS
  Key,
  Database,    \* the keys of the rows that are loaded before the workers start
  Absent       \* the value of a key that has no visible row

VARIABLES
  db,          \* the value of each key
  last         \* the last transaction: the values it read and those it wrote

Init ==
  /\ db = [k \in Key |-> IF k \in Database THEN 0 ELSE Absent]
  /\ last = [reads |-> <<>>, writes |-> <<>>]

Commit ==
  /\ last' = [reads |-> last'.reads, writes |-> last'.writes]
  /\ \A k \in DOMAIN last'.reads : k \in Key /\ db[k] = last'.reads[k]
  /\ db' = last'.writes @@ db

Spec == Init /\ [][Commit]_<<db, last>>
=============================================================================
