----------------------------- MODULE MCTwoPLPasha -----------------------------
EXTENDS TwoPLPasha

Workers == Permutations(Worker)

Updating(k) == [key |-> k, write |-> TRUE]
Reading(k) == [key |-> k, write |-> FALSE]
Inserting(k, next) == [key |-> k, next |-> next]

\* YCSB rmw, scan, Insert and Delete, and TPC-C's NewOrder, with a few rows each.
Workload ==
  {Reads(<<Updating(2), Updating(4)>>), Reads(<<Updating(4), Updating(2)>>),
   Reads(<<Updating(4), Reading(3)>>),
   Scans("read", 2, 4, 0), Scans("update", 3, 5, 0),
   [Scans("insert", 2, 10, 2) EXCEPT !.inserts = <<Inserting(Hole, FALSE)>>],
   [Scans("delete", 2, 10, 1) EXCEPT !.delete = TRUE],
   [Reads(<<Updating(2)>>) EXCEPT !.inserts = <<Inserting(3, FALSE), Inserting(5, TRUE)>>]}

\* YCSB rmw on tables with copies.
ReplicatedWorkload ==
  {Reads(<<Updating(2), Updating(4)>>), Reads(<<Updating(4), Reading(2)>>),
   Reads(<<Reading(2), Reading(4)>>)}

Mix == [x \in BOOLEAN |-> IF x THEN ReplicatedWorkload ELSE Workload]

\* Two inserts and a scan of the lower one's key.
InsertsAndScan ==
  [x \in BOOLEAN |-> IF x THEN {} ELSE
     {[Reads(<<>>) EXCEPT !.inserts = <<Inserting(1, TRUE)>>],
      [Reads(<<>>) EXCEPT !.inserts = <<Inserting(2, TRUE)>>],
      Scans("read", 1, 1, 0)}]
=============================================================================
