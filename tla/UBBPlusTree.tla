------------------------------ MODULE UBBPlusTree ------------------------------
(***************************************************************************)
(* The ordered index of a tigon table in UB memory (core/UBBPlusTree.h): a *)
(* B+ tree whose leaves hold keys and the offsets of tuples, and are       *)
(* linked in both directions.  A tree is a value here; module TwoPLPasha   *)
(* says when it is read and changed under the tree's lock.  Keys are       *)
(* positive numbers, a tuple is named by its key.  A node's offset is      *)
(* opaque to the code; here it is the node's height and the separator that *)
(* it was split off with (0 for a node that was not).                      *)
(***************************************************************************)
EXTENDS Integers, Sequences, SequencesExt, FiniteSetsExt

CONSTANTS LeafCapacity, InnerCapacity

ASSUME CapacityAssumption == LeafCapacity >= 3 /\ InnerCapacity >= 3

NoNode == <<>>
LeafNode(keys, prev, next) == [keys |-> keys, children |-> <<>>, prev |-> prev, next |-> next]
InnerNode(keys, children) ==
  [keys |-> keys, children |-> children, prev |-> NoNode, next |-> NoNode]

IsLeaf(id) == id[1] = 0
FirstLeaf == <<0, 0>>

EmptyTree == [root |-> FirstLeaf, node |-> (FirstLeaf :> LeafNode(<<>>, NoNode, NoNode))]

-----------------------------------------------------------------------------
\* Search.  Positions count from 1.

RECURSIVE LowerBound(_, _, _, _)
LowerBound(keys, first, count, key) ==
  IF count = 0 THEN first
  ELSE LET step == count \div 2 middle == first + step IN
       IF keys[middle] < key
         THEN LowerBound(keys, middle + 1, count - (step + 1), key)
         ELSE LowerBound(keys, first, step, key)

leaf_lower_bound(keys, key) == LowerBound(keys, 1, Len(keys), key)

\* Mutant of child_index: a key equal to a separator goes to the left.
child_index_left(keys, key) ==
  LET beyond == {i \in DOMAIN keys : key <= keys[i]} IN
  IF beyond = {} THEN Len(keys) + 1 ELSE Min(beyond)

child_index(keys, key) ==
  LET beyond == {i \in DOMAIN keys : key < keys[i]} IN
  IF beyond = {} THEN Len(keys) + 1 ELSE Min(beyond)

\* The inner nodes on the way down from node id, with the child taken, and the leaf.
RECURSIVE Path(_, _, _)
Path(tree, id, key) ==
  IF IsLeaf(id) THEN <<[node |-> id, child |-> 0]>>
  ELSE LET n == tree.node[id] i == child_index(n.keys, key) IN
       <<[node |-> id, child |-> i]>> \o Path(tree, n.children[i], key)

find_leaf(tree, key) == Last(Path(tree, tree.root, key)).node

search(tree, key) ==
  LET keys == tree.node[find_leaf(tree, key)].keys
      position == leaf_lower_bound(keys, key)
  IN  position <= Len(keys) /\ keys[position] = key

\* The keys from a leaf on, along the links to the next leaf.
RECURSIVE Chain(_, _)
Chain(tree, leaf) ==
  IF leaf = NoNode THEN <<>>
  ELSE tree.node[leaf].keys \o Chain(tree, tree.node[leaf].next)

\* The entries that a scan or next_visible visits: from the first key >= key on.
EntriesFrom(tree, key) ==
  LET leaf == find_leaf(tree, key)
      position == leaf_lower_bound(tree.node[leaf].keys, key)
      chain == Chain(tree, leaf)
  IN  SubSeq(chain, position, Len(chain))

-----------------------------------------------------------------------------
\* Insertion of a key that the tree does not hold

insert_inner_entry(n, child, separator, right) ==
  InnerNode(InsertAt(n.keys, child, separator), InsertAt(n.children, child + 1, right))

\* A full inner node with one more entry is split; its middle key moves up.
split_inner(n) ==
  LET middle == (InnerCapacity + 1) \div 2 + 1 IN
  [promoted |-> n.keys[middle],
   left |-> InnerNode(SubSeq(n.keys, 1, middle - 1), SubSeq(n.children, 1, middle)),
   right |-> InnerNode(SubSeq(n.keys, middle + 1, Len(n.keys)),
                       SubSeq(n.children, middle + 1, Len(n.children)))]

RECURSIVE propagate_split(_, _, _, _)
propagate_split(tree, path, separator, right) ==
  IF path = <<>>
    THEN LET id == <<tree.root[1] + 1, 0>> IN
         [root |-> id,
          node |-> (id :> InnerNode(<<separator>>, <<tree.root, right>>)) @@ tree.node]
    ELSE LET id == Last(path).node
             n == insert_inner_entry(tree.node[id], Last(path).child, separator, right)
             s == split_inner(n)
             new == <<id[1], s.promoted>>
         IN  IF Len(n.keys) <= InnerCapacity
               THEN [tree EXCEPT !.node[id] = n]
               ELSE propagate_split(
                      [tree EXCEPT !.node = (id :> s.left) @@ (new :> s.right) @@ tree.node],
                      Front(path), s.promoted, new)

\* keys are the leaf's and the new one.  The right half becomes a new leaf, linked
\* between the leaf and its old right neighbour.
split_leaf(tree, leaf, keys) ==
  LET left_count == (LeafCapacity + 1) \div 2
      n == tree.node[leaf]
      right == <<0, keys[left_count + 1]>>
      node == (leaf :> LeafNode(SubSeq(keys, 1, left_count), n.prev, right))
              @@ (right :> LeafNode(SubSeq(keys, left_count + 1, Len(keys)), leaf, n.next))
              @@ tree.node
  IN  [right |-> right,
       node |-> IF n.next = NoNode THEN node ELSE [node EXCEPT ![n.next].prev = right]]

InsertEntry(tree, key) ==
  LET path == Path(tree, tree.root, key)
      leaf == Last(path).node
      old == tree.node[leaf].keys
      keys == InsertAt(old, leaf_lower_bound(old, key), key)
      split == split_leaf(tree, leaf, keys)
  IN  IF Len(keys) <= LeafCapacity
        THEN [tree EXCEPT !.node[leaf].keys = keys]
        ELSE propagate_split([tree EXCEPT !.node = split.node], Front(path),
                             split.right[2], split.right)
=============================================================================
