------------------------------ MODULE TwoPLPasha ------------------------------
(***************************************************************************)
(* Transactions of tigon's TwoPLPasha protocol on one table in UB memory:  *)
(* strict two-phase locking in which a lock that is taken makes the        *)
(* transaction abort.  The tuple locks, the visibility states and the tree *)
(* lock are words in shared memory, changed by the workers of every        *)
(* coordinator.  A worker's step is one access to such a word, or several  *)
(* where the others cannot tell.                                           *)
(*                                                                         *)
(* A tuple's state is 0 (tombstone), 1 (visible) or 2 (placeholder of an   *)
(* insert); no tuple leaves the index.  A delete cannot commit on UB: its  *)
(* scan holds the write lock of the row that the delete then tries to      *)
(* lock, so commit's part for deletes is never reached and is left out.    *)
(*                                                                         *)
(* With ub_replicated_rmw each of two coordinators has a copy of the table *)
(* in its region.  A read uses the worker's own copy, an update locks and  *)
(* writes both; there are point requests only.  A write that is not read   *)
(* back ends the coordinator and leaves its locks taken.  Versions are     *)
(* left out where there are no copies: nothing is decided by them.         *)
(***************************************************************************)
EXTENDS UBBPlusTree, TLC

CONSTANTS
  Worker,
  Key,          \* positive numbers
  Database,     \* bound: the loaded keys on which the workers start
  Program,      \* Program[x]: the transactions that may be run, with copies if x
  MaxTxns,      \* bound: transactions of a worker
  Absent, NoWorker

ASSUME TwoPLPashaAssumption == Database \subseteq Key /\ Key \subseteq Nat \ {0} /\ MaxTxns \in Nat

VARIABLES
  started,      \* the tables are loaded, the workers run
  replicated,   \* context.ub_replicated_rmw
  home,         \* home[w]: the region of worker w's coordinator
  dead,         \* the workers whose coordinator has failed
  tree,         \* the index
  writer, readers,   \* who holds the tree's lock exclusively, and who shares it
  lock,         \* lock[r]: -1 exclusive, else the number of readers of tuple r
  valid, value, version,   \* a tuple's visibility state, value and version
  txn,          \* txn[w]: the transaction of worker w
  runs,         \* transactions begun by each worker
  max_tid,      \* the last version that each worker has chosen
  last          \* history: what the last committed transaction read and wrote

config == <<started, replicated, home>>
shared == <<tree, writer, readers, lock, valid, value, version>>
vars == <<config, dead, shared, txn, runs, max_tid, last>>

EndGap == Max(Key) + 1      \* the tuple behind the last one
Peer(k) == EndGap + k       \* the copy of k's tuple in region 1
Tuple == Key \cup {Peer(k) : k \in Key}
Row == Tuple \cup {EndGap}
NoRow == 0
Hole == 0                   \* an insert whose key is the first hole in the scan

\* A program is what a transaction adds to its four sets before process_requests.
Reads(keys) == [reads |-> keys, scan |-> <<>>, inserts |-> <<>>, delete |-> FALSE]
Scans(mode, min, max, limit) ==
  [reads |-> <<>>, scan |-> <<[mode |-> mode, min |-> min, max |-> max, limit |-> limit]>>,
   inserts |-> <<>>, delete |-> FALSE]

\* Each set is processed from its end.
Requests(p) ==
  LET Kind(kind, s) == [i \in DOMAIN s |-> [kind |-> kind, arg |-> Reverse(s)[i]]] IN
  Kind("point", p.reads) \o Kind("scan", p.scan) \o Kind("insert", p.inserts)
    \o (IF p.delete THEN <<[kind |-> "delete", arg |-> Hole]>> ELSE <<>>)

Idle ==
  [pc |-> "idle", requests |-> <<>>, reads |-> <<>>, inserts |-> <<>>, scan |-> <<>>,
   results |-> <<>>, seen |-> <<>>, gap |-> NoRow, walk |-> <<>>, row |-> NoRow, todo |-> <<>>]

Init ==
  /\ started = FALSE /\ replicated = FALSE /\ home = [w \in Worker |-> 0] /\ dead = {}
  /\ tree = EmptyTree
  /\ writer = NoWorker /\ readers = {}
  /\ lock = [r \in Row |-> 0]
  /\ valid = [r \in Row |-> IF r = EndGap THEN 1 ELSE 0]
  /\ value = [r \in Tuple |-> 0]
  /\ version = [r \in Tuple |-> 0]
  /\ txn = [w \in Worker |-> Idle]
  /\ runs = [w \in Worker |-> 0] /\ max_tid = [w \in Worker |-> 0]
  /\ last = [reads |-> <<>>, writes |-> <<>>]

-----------------------------------------------------------------------------
\* Loading

Load(k) ==
  /\ ~started /\ ~search(tree, k)
  /\ tree' = InsertEntry(tree, k)
  /\ valid' = [valid EXCEPT ![k] = 1, ![Peer(k)] = 1]
  /\ UNCHANGED <<config, dead, writer, readers, lock, value, version, txn, runs, max_tid, last>>

\* Without copies it does not matter to whose coordinator a worker belongs.
Start ==
  /\ ~started /\ {k \in Key : search(tree, k)} = Database
  /\ started' = TRUE
  /\ replicated' \in BOOLEAN
  /\ home' \in [Worker -> IF replicated' THEN {0, 1} ELSE {0}]
  /\ UNCHANGED <<dead, shared, txn, runs, max_tid, last>>

-----------------------------------------------------------------------------
\* Transactions

At(w, pc) == txn[w].pc = pc /\ w \notin dead
Request(w) == Head(txn[w].requests)
Serving(w, kind) == At(w, "next") /\ txn[w].requests # <<>> /\ Request(w).kind = kind
Scan(w) == Head(txn[w].scan)

\* read_lock for point reads and SCAN_FOR_READ, write_lock for everything else.
Exclusive(w) ==
  CASE Request(w).kind = "point" -> Request(w).arg.write
    [] Request(w).kind = "scan" -> Request(w).arg.mode # "read"
    [] OTHER -> TRUE

\* The row that ends a scan: behind the range, or behind the limit, or the end gap.
EndsScan(w, r) ==
  \/ r > Scan(w).max
  \/ Scan(w).limit # 0 /\ Len(txn[w].results) = Scan(w).limit

\* YCSB's Insert looks for the first key from min on that the scan did not return,
\* YCSB's Delete takes the first row returned; NoRow: there is none.
FirstHole(w) ==
  LET keys == txn[w].results
      holes == {i \in DOMAIN keys : keys[i] # Scan(w).min + i - 1}
  IN  IF holes # {} THEN Scan(w).min + Min(holes) - 1
      ELSE IF Len(keys) < Scan(w).limit THEN Scan(w).min + Len(keys) ELSE NoRow

Target(w) ==
  LET arg == Request(w).arg IN
  CASE Request(w).kind = "delete" ->
         IF txn[w].results = <<>> THEN NoRow ELSE Head(txn[w].results)
    [] Request(w).kind = "insert" /\ arg.key = Hole -> FirstHole(w)
    [] OTHER -> arg.key

\* The tuples of key k, the worker's own first, and those that a request for k locks:
\* of a pair, the one of region 0 is locked first.
Copies(w, k) ==
  IF ~replicated THEN <<k>> ELSE IF home[w] = 0 THEN <<k, Peer(k)>> ELSE <<Peer(k), k>>

\* Mutant of ToLock: an update locks the worker's own copy only.
ToLockOwn(w, k) == <<Head(Copies(w, k))>>

ToLock(w, k) ==
  IF replicated /\ Exclusive(w) THEN <<k, Peer(k)>> ELSE <<Head(Copies(w, k))>>

Pair(w) == ToLock(w, Target(w))
Paired(w) == replicated /\ Len(Pair(w)) = 2

Begin(w) ==
  /\ started /\ At(w, "idle") /\ runs[w] < MaxTxns
  /\ runs' = [runs EXCEPT ![w] = @ + 1]
  /\ \E p \in Program[replicated] :
       txn' = [txn EXCEPT ![w] = [Idle EXCEPT !.pc = "next", !.requests = Requests(p),
                                              !.scan = p.scan]]
  /\ UNCHANGED <<config, dead, shared, max_tid, last>>

\* What is left to do is a sequence of operations on tuples.
Do(op, r, x) == [op |-> op, row |-> r, exclusive |-> x]
UnlockRows(rows, x) == [i \in DOMAIN rows |-> Do("unlock", Reverse(rows)[i], x)]
UnlockReads(t) ==
  FlattenSeq([i \in DOMAIN t.reads |-> UnlockRows(t.reads[i].locks, t.reads[i].write)])
UnlockNext(insert) == IF insert.next = NoRow THEN <<>> ELSE <<Do("unlock", insert.next, TRUE)>>

\* Mutant of UnlockScan: the protection row of the scan stays locked.
UnlockResults(t) ==
  IF t.scan = <<>> THEN <<>>
  ELSE LET x == Head(t.scan).mode # "read" IN
       [i \in DOMAIN t.results |-> Do("unlock", t.results[i], x)]

UnlockScan(t) ==
  IF t.scan = <<>> THEN <<>>
  ELSE LET x == Head(t.scan).mode # "read" IN
       (IF t.gap = NoRow THEN <<>> ELSE <<Do("unlock", t.gap, x)>>)
       \o [i \in DOMAIN t.results |-> Do("unlock", t.results[i], x)]

\* Mutant of AbortSteps: only the locks are given back.
AbortUnlocks(t) ==
  FlattenSeq([i \in DOMAIN t.inserts |-> UnlockNext(t.inserts[i])])
  \o UnlockReads(t) \o UnlockScan(t)

\* abort: the placeholders become tombstones, then every lock is released.
AbortSteps(t) ==
  FlattenSeq([i \in DOMAIN t.inserts |->
                <<Do("discard", t.inserts[i].key, TRUE)>> \o UnlockNext(t.inserts[i])])
  \o UnlockReads(t) \o UnlockScan(t)

\* The transaction goes on with these operations, and ends after the last.
GoOn(w, todo) ==
  txn' = [txn EXCEPT ![w] = IF todo = <<>> THEN Idle
                            ELSE [@ EXCEPT !.pc = "todo", !.todo = todo]]

\* A request fails: process_requests returns and the transaction aborts.
Abort(w) == GoOn(w, AbortSteps(txn[w]))

\* The next request.
Served(w, t) == txn' = [txn EXCEPT ![w] = [t EXCEPT !.pc = "next", !.requests = Tail(@)]]

-----------------------------------------------------------------------------
\* Requests

\* A lookup with a shared lock on the tree; the lock is dropped before the tuple's
\* lock is tried.
Search(w) ==
  /\ Serving(w, "point") \/ Serving(w, "delete")
  /\ writer = NoWorker
  /\ LET k == Target(w) IN
       IF k # NoRow /\ search(tree, k) /\ \A r \in Range(ToLock(w, k)) : valid[r] = 1
         THEN txn' = [txn EXCEPT ![w].pc = "lock", ![w].row = Head(ToLock(w, k))]
         ELSE Abort(w)
  /\ UNCHANGED <<config, dead, shared, runs, max_tid, last>>

\* scan_range keeps the tree's shared lock while it locks the rows.
ScanBegin(w) ==
  /\ Serving(w, "scan")
  /\ writer = NoWorker
  /\ readers' = readers \cup {w}
  /\ txn' = [txn EXCEPT ![w].pc = "walk", ![w].walk = EntriesFrom(tree, Scan(w).min)]
  /\ UNCHANGED <<config, dead, tree, writer, lock, valid, value, version, runs, max_tid, last>>

Occupied(k) == search(tree, k) /\ valid[k] # 0

\* insert_impl keeps the tree's exclusive lock to its end.
InsertBegin(w) ==
  /\ Serving(w, "insert")
  /\ writer = NoWorker /\ readers = {}
  /\ LET k == Target(w) IN
       IF k = NoRow \/ Occupied(k)
         THEN Abort(w) /\ UNCHANGED writer
         ELSE /\ writer' = w
              /\ txn' = [txn EXCEPT ![w].pc = IF Request(w).arg.next THEN "walk" ELSE "place",
                                    ![w].walk = EntriesFrom(tree, k + 1),
                                    ![w].row = NoRow]
  /\ UNCHANGED <<config, dead, tree, readers, lock, valid, value, version, runs, max_tid, last>>

\* One entry of the scan, or of next_visible: invisible tuples are passed over.
Walk(w) ==
  /\ At(w, "walk")
  /\ LET t == txn[w] IN
       IF t.walk # <<>> /\ valid[Head(t.walk)] # 1
         THEN txn' = [txn EXCEPT ![w].walk = Tail(@)]
         ELSE txn' = [txn EXCEPT ![w].pc = "lock",
                                 ![w].row = IF t.walk = <<>> THEN EndGap ELSE Head(t.walk),
                                 ![w].walk = IF t.walk = <<>> THEN @ ELSE Tail(@)]
  /\ UNCHANGED <<config, dead, shared, runs, max_tid, last>>

MayLock(r, x) == IF x THEN lock[r] = 0 ELSE lock[r] # -1

Locked(r, x) == [lock EXCEPT ![r] = IF x THEN -1 ELSE @ + 1]
Unlocked(r, x) == [lock EXCEPT ![r] = IF x THEN 0 ELSE @ - 1]

\* The guard of the tree is released when scan_range or insert_impl returns.
LeaveTree(w) ==
  /\ readers' = readers \ {w}
  /\ writer' = IF writer = w THEN NoWorker ELSE writer

\* Mutant of TryLock: the transaction waits for the lock.
WaitForLock(w) ==
  LET r == txn[w].row x == Exclusive(w) IN
  /\ At(w, "lock")
  /\ MayLock(r, x)
  /\ lock' = Locked(r, x)
  /\ txn' = [txn EXCEPT ![w].pc = "check"]
  /\ UNCHANGED <<config, dead, tree, writer, readers, valid, value, version, runs, max_tid, last>>

TryLock(w) ==
  LET r == txn[w].row x == Exclusive(w) IN
  /\ At(w, "lock")
  /\ IF MayLock(r, x)
       THEN /\ lock' = Locked(r, x)
            /\ txn' = [txn EXCEPT ![w].pc = IF Paired(w) THEN "second" ELSE "check"]
            /\ UNCHANGED <<writer, readers>>
       ELSE Abort(w) /\ LeaveTree(w) /\ UNCHANGED lock
  /\ UNCHANGED <<config, dead, tree, valid, value, version, runs, max_tid, last>>

\* The other lock of a pair.
TrySecond(w) ==
  LET r == Pair(w)[2] IN
  /\ At(w, "second")
  /\ IF MayLock(r, TRUE)
       THEN lock' = Locked(r, TRUE) /\ txn' = [txn EXCEPT ![w].pc = "pair"]
       ELSE /\ GoOn(w, <<Do("unlock", txn[w].row, TRUE)>> \o AbortSteps(txn[w]))
            /\ UNCHANGED lock
  /\ UNCHANGED <<config, dead, tree, writer, readers, valid, value, version, runs, max_tid, last>>

\* With its lock held, a tuple is used only if it is visible.  What is recorded of it
\* is what commit and abort will release: of a delete nothing is.
Record(w) ==
  LET t == txn[w] r == t.row IN
  CASE Request(w).kind = "point" ->
         /\ Served(w, [t EXCEPT !.reads =
              <<[key |-> Target(w), write |-> Exclusive(w), locks |-> ToLock(w, Target(w)),
                 copies |-> Copies(w, Target(w)), val |-> value[Head(Copies(w, Target(w)))],
                 tid |-> version[Head(Copies(w, Target(w)))]]>> \o @])
         /\ UNCHANGED <<writer, readers>>
    [] Request(w).kind = "scan" /\ ~EndsScan(w, r) ->
         /\ txn' = [txn EXCEPT ![w].pc = "walk", ![w].results = Append(@, r),
                               ![w].seen = Append(@, value[r])]
         /\ UNCHANGED <<writer, readers>>
    [] Request(w).kind = "scan" /\ EndsScan(w, r) ->
         Served(w, [t EXCEPT !.gap = r, !.walk = <<>>]) /\ LeaveTree(w)
    [] Request(w).kind = "insert" ->
         txn' = [txn EXCEPT ![w].pc = "place"] /\ UNCHANGED <<writer, readers>>
    [] OTHER -> Served(w, t) /\ UNCHANGED <<writer, readers>>

CheckValid(w) ==
  /\ At(w, "check")
  /\ IF valid[txn[w].row] = 1
       THEN Record(w) /\ UNCHANGED lock
       ELSE Abort(w) /\ LeaveTree(w) /\ lock' = Unlocked(txn[w].row, Exclusive(w))
  /\ UNCHANGED <<config, dead, tree, valid, value, version, runs, max_tid, last>>

\* Both copies must be visible and have the same version.
CheckPair(w) ==
  /\ At(w, "pair")
  /\ IF (\A r \in Range(Pair(w)) : valid[r] = 1) /\ version[Pair(w)[1]] = version[Pair(w)[2]]
       THEN Record(w)
       ELSE GoOn(w, UnlockRows(Pair(w), TRUE) \o AbortSteps(txn[w])) /\ LeaveTree(w)
  /\ UNCHANGED <<config, dead, tree, lock, valid, value, version, runs, max_tid, last>>

\* The placeholder: a new tuple and its entry, or the tombstone of the key with its
\* lock taken for as long as it is filled in.
Place(w) ==
  /\ At(w, "place")
  /\ LET k == Target(w) IN
       /\ lock[k] = 0
       /\ tree' = IF search(tree, k) THEN tree ELSE InsertEntry(tree, k)
       /\ valid' = [valid EXCEPT ![k] = 2]
       /\ value' = [value EXCEPT ![k] = 0]
       /\ Served(w, [txn[w] EXCEPT !.inserts = <<[key |-> k, next |-> txn[w].row]>> \o @,
                                   !.walk = <<>>, !.row = NoRow])
  /\ LeaveTree(w)
  /\ UNCHANGED <<config, dead, lock, version, runs, max_tid, last>>

-----------------------------------------------------------------------------
\* Commit and abort

\* Every update of a row is one of the value that was read.  A pair is written on both
\* sides and read back; the versions follow when all the values are there.
Updates(t) == SelectSeq(t.reads, LAMBDA e : e.write)
OnCopies(op, e) ==
  [i \in DOMAIN e.copies |-> Do(op, e.copies[i], TRUE)]
  \o (IF Len(e.copies) = 2 THEN <<Do("complete", e.key, TRUE)>> ELSE <<>>)
WriteBack(t) == FlattenSeq([i \in DOMAIN Updates(t) |-> OnCopies("write", Updates(t)[i])])
PublishVersions(t) ==
  FlattenSeq([i \in DOMAIN Updates(t) |-> IF Len(Updates(t)[i].copies) = 1 THEN <<>>
                                          ELSE OnCopies("version", Updates(t)[i])])
PublishAll(t) == [i \in DOMAIN t.inserts |-> Do("publish", t.inserts[i].key, TRUE)]
ReleaseLocks(t) ==
  UnlockReads(t) \o FlattenSeq([i \in DOMAIN t.inserts |-> UnlockNext(t.inserts[i])])
  \o UnlockScan(t)

\* Mutant of CommitSteps: the locks are released before the values are written.
CommitReleasesFirst(t) ==
  PublishAll(t) \o ReleaseLocks(t) \o WriteBack(t) \o PublishVersions(t)

CommitSteps(t) == PublishAll(t) \o WriteBack(t) \o PublishVersions(t) \o ReleaseLocks(t)

ValueRead(t, r) == (CHOOSE e \in Range(t.reads) : r \in Range(e.copies) \cup {e.key}).val

\* History: what the scan found in row r.  The results point into the tuples, which the
\* transaction reads later.
ValueSeen(t, r) == t.seen[CHOOSE i \in DOMAIN t.results : t.results[i] = r]

\* Mutant of generate_tid: greater than the worker's last one only.
OwnNextTid(w) == max_tid[w] + 1

\* Greater than every version read and than the worker's last one.
generate_tid(w) == Max({max_tid[w]} \cup {e.tid : e \in Range(txn[w].reads)}) + 1

Commit(w) ==
  LET t == txn[w] IN
  /\ At(w, "next") /\ t.requests = <<>>
  /\ max_tid' = [max_tid EXCEPT ![w] = IF replicated THEN generate_tid(w) ELSE @]
  /\ GoOn(w, CommitSteps(t))
  /\ last' = [reads |-> [k \in {e.key : e \in Range(t.reads)} \cup Range(t.results) |->
                           IF k \in Range(t.results) THEN ValueSeen(t, k) ELSE ValueRead(t, k)],
              writes |-> [k \in {e.key : e \in Range(Updates(t)) \cup Range(t.inserts)} |->
                            IF k \in {e.key : e \in Range(t.inserts)} THEN 0
                            ELSE ValueRead(t, k) + 1]]
  /\ UNCHANGED <<config, dead, shared, runs>>

Doing(w, op) == txn[w].todo # <<>> /\ Head(txn[w].todo).op = op
Done(w) == GoOn(w, Tail(txn[w].todo))

\* A placeholder is looked up again, with a shared lock on the tree.
FindPlaceholder(w) ==
  /\ At(w, "todo") /\ (Doing(w, "publish") \/ Doing(w, "discard"))
  /\ writer = NoWorker
  /\ txn' = [txn EXCEPT ![w].pc = "found"]
  /\ UNCHANGED <<config, dead, shared, runs, max_tid, last>>

\* modify_tuple_valid_bit takes no lock.
Publish(w) ==
  /\ At(w, "found") /\ Doing(w, "publish")
  /\ valid' = [valid EXCEPT ![Head(txn[w].todo).row] = 1]
  /\ Done(w)
  /\ UNCHANGED <<config, dead, tree, writer, readers, lock, value, version, runs, max_tid, last>>

Discard(w) ==
  LET k == Head(txn[w].todo).row IN
  /\ At(w, "found") /\ Doing(w, "discard")
  /\ lock[k] = 0
  /\ valid' = [valid EXCEPT ![k] = IF @ = 2 THEN 0 ELSE @]
  /\ Done(w)
  /\ UNCHANGED <<config, dead, tree, writer, readers, lock, value, version, runs, max_tid, last>>

Write(w) ==
  LET k == Head(txn[w].todo).row IN
  /\ At(w, "todo") /\ Doing(w, "write")
  /\ value' = [value EXCEPT ![k] = ValueRead(txn[w], k) + 1]
  /\ Done(w)
  /\ UNCHANGED <<config, dead, tree, writer, readers, lock, valid, version, runs, max_tid, last>>

\* publish, with the version that Commit has chosen.
Version(w) ==
  /\ At(w, "todo") /\ Doing(w, "version")
  /\ version' = [version EXCEPT ![Head(txn[w].todo).row] = max_tid[w]]
  /\ Done(w)
  /\ UNCHANGED <<config, dead, tree, writer, readers, lock, valid, value, runs, max_tid, last>>

\* The peer's copy is read back: it is what was written, or a CHECK ends the process of
\* the coordinator, with all the locks of its workers taken.
Complete(w) ==
  /\ At(w, "todo") /\ Doing(w, "complete")
  /\ \/ Done(w) /\ UNCHANGED dead
     \/ dead' = dead \cup {u \in Worker : home[u] = home[w]} /\ UNCHANGED txn
  /\ UNCHANGED <<config, shared, runs, max_tid, last>>

Unlock(w) ==
  LET d == Head(txn[w].todo) IN
  /\ At(w, "todo") /\ Doing(w, "unlock")
  /\ lock' = Unlocked(d.row, d.exclusive)
  /\ Done(w)
  /\ UNCHANGED <<config, dead, tree, writer, readers, valid, value, version, runs, max_tid, last>>

-----------------------------------------------------------------------------
\* What a worker does next, once a transaction has begun.
Step(w) ==
  \/ Search(w) \/ ScanBegin(w) \/ InsertBegin(w) \/ Walk(w) \/ TryLock(w) \/ CheckValid(w)
  \/ TrySecond(w) \/ CheckPair(w) \/ Place(w) \/ Commit(w) \/ FindPlaceholder(w)
  \/ Publish(w) \/ Discard(w) \/ Write(w) \/ Version(w) \/ Complete(w) \/ Unlock(w)

Next ==
  \/ Start \/ \E k \in Key : Load(k)
  \/ \E w \in Worker : Step(w) \/ Begin(w)

Spec == Init /\ [][Next]_vars

-----------------------------------------------------------------------------
\* Properties

Ending(w) == txn[w].pc \in {"todo", "found"}
ToDo(w, op) == {d \in Range(txn[w].todo) : d.op = op}

\* The tuple locks that worker w has taken and will release.
HeldLocks(w) ==
  LET t == txn[w] IN
  IF Ending(w) THEN {<<d.row, d.exclusive>> : d \in ToDo(w, "unlock")}
  ELSE UNION {{<<r, e.write>> : r \in Range(e.locks)} : e \in Range(t.reads)}
       \cup {<<e.next, TRUE>> : e \in {i \in Range(t.inserts) : i.next # NoRow}}
       \cup {<<r, Scan(w).mode # "read">> : r \in Range(t.results) \cup ({t.gap} \ {NoRow})}
       \cup (IF t.pc \in {"check", "second"} \/ (t.pc = "place" /\ t.row # NoRow)
               THEN {<<t.row, Exclusive(w)>>} ELSE {})
       \cup (IF t.pc = "pair" THEN {<<r, TRUE>> : r \in Range(Pair(w))} ELSE {})

\* A tuple's lock word is what the transactions account for: every lock is held by a
\* transaction that will release it, so neither commit nor any way to abort leaks one
\* or releases one twice (UBSharedRWLock would throw), and a writer is alone.
LocksAccounted ==
  LET held == UNION {{<<w, l>> : l \in HeldLocks(w)} : w \in Worker} IN
  \A r \in Row :
    LET holders(x) == {h \in held : h[2] = <<r, x>>} IN
    IF lock[r] = -1
      THEN Cardinality(holders(TRUE)) = 1 /\ holders(FALSE) = {}
      ELSE holders(TRUE) = {} /\ Cardinality(holders(FALSE)) = lock[r]

Placeholders(w) ==
  IF Ending(w) THEN {d.row : d \in ToDo(w, "publish") \cup ToDo(w, "discard")}
  ELSE {e.key : e \in Range(txn[w].inserts)}

\* A placeholder belongs to one transaction, which will publish it or turn it into a
\* tombstone: the CHECK in abort that discard_placeholder succeeds, and the DCHECK in
\* modify_tuple_valid_bit that the state is 2, never fail, and no placeholder is left.
PlaceholderOwned ==
  \A k \in Key :
    Cardinality({w \in Worker : k \in Placeholders(w)}) = (IF valid[k] = 2 THEN 1 ELSE 0)

\* Whatever the order of the inserts and the splits, a lookup from the root finds exactly
\* the keys in the leaves, and among them every tuple that is visible or a placeholder.
\* The leaves are linked in the order of the keys in both directions, and no node has more
\* entries than it has room for.
SearchIsExact ==
  LET keys == Chain(tree, FirstLeaf) IN
  /\ {k \in Key : search(tree, k)} = Range(keys)
  /\ {k \in Key : valid[k] # 0} \subseteq Range(keys)
  /\ \A i, j \in DOMAIN keys : i < j => keys[i] < keys[j]
  /\ \A id \in DOMAIN tree.node :
       LET n == tree.node[id] IN
       /\ Len(n.keys) <= IF IsLeaf(id) THEN LeafCapacity ELSE InnerCapacity
       /\ IsLeaf(id) /\ n.next # NoNode => tree.node[n.next].prev = id
       /\ IsLeaf(id) \/ Len(n.children) = Len(n.keys) + 1

\* The committed value of a key: that of the transaction that is committing it.  The
\* workers start on the rows of Database.
Committed ==
  LET published == UNION {{d.row : d \in ToDo(w, "publish")} : w \in Worker}
      written == UNION {{<<d.row, ValueRead(txn[w], d.row) + 1>> : d \in ToDo(w, "write")} :
                          w \in Worker}
  IN  [k \in Key |->
         LET new == {p \in written : p[1] \in {k, Peer(k)}} IN
         IF ~started THEN IF k \in Database THEN 0 ELSE Absent
         ELSE IF k \in published THEN 0
         ELSE IF new # {} THEN (CHOOSE p \in new : TRUE)[2]
         ELSE IF valid[k] = 1 THEN value[k] ELSE Absent]

Store == INSTANCE SerialStore WITH db <- Committed

\* Transactions are serialized by commit: no update is lost, nothing is read that was
\* not committed, and what a transaction read, the rows that its scan returned included,
\* is current when it commits, although publication, write-back and release of the locks
\* are many steps.
Serializable == Store!Spec

\* Waiting for the tree's lock, or for the lock of a tombstone or of a placeholder that
\* is discarded, is never mutual: some transaction can go on until all have ended.  A
\* tuple lock held by another transaction is not waited for.
NeverStuck ==
  (\E w \in Worker \ dead : ~At(w, "idle")) => ENABLED (\E w \in Worker : Step(w))

\* The two copies of a tuple are the same unless a transaction has them locked: a reader
\* of either region reads the one committed value, also after a coordinator has failed
\* in the middle of a commit, since the pair that is in doubt stays locked on both sides.
ReplicasAgree ==
  replicated =>
    \A k \in Database :
      \/ lock[k] = -1 /\ lock[Peer(k)] = -1
      \/ value[k] = value[Peer(k)] /\ version[k] = version[Peer(k)]

\* publish never refuses a version, which a CHECK in commit requires: the version that a
\* transaction has chosen is above that of each pair that it has still to publish.
VersionsGrow ==
  \A w \in Worker : \A d \in ToDo(w, "version") : version[d.row] < max_tid[w]

\* The scan is complete and its locks are held.
Protected(w) ==
  txn[w].gap # NoRow /\ <<txn[w].gap, Scan(w).mode # "read">> \in HeldLocks(w)
InRange(w, k) == Scan(w).min <= k /\ k <= Scan(w).max /\ k < txn[w].gap

\* docs/ub_tigon.md: an insert must take the lock of the same successor, which keeps
\* phantoms out of a protected range: no row of another transaction becomes visible in
\* a range for as long as the scan of it holds its locks.
NoPhantom ==
  [][\A w \in Worker, k \in Key :
       Protected(w) /\ Protected(w)' /\ InRange(w, k) /\ valid[k] # 1 /\ valid'[k] = 1
         => k \in Placeholders(w)]_vars
=============================================================================
