-------------------------------- MODULE Heap --------------------------------
(***************************************************************************)
(* The max heap of include/data_struct/heap.c as the block managers use    *)
(* it: blocks are appended in any order (mh_insert_append), their keys,    *)
(* the invalid_number of each block, change while they are in it, and      *)
(* base_get_gc_target orders it (mh_construct) and takes the maximum       *)
(* (mh_get_max).  A node keeps a copy, cnt, of the key of its block.       *)
(* The back pointers hptr are left out: nothing reads them.                *)
(***************************************************************************)
EXTENDS Integers, FiniteSets

CONSTANTS Blocks,  \* the blocks of one channel
          Null,    \* a node without data
          MAXINV   \* bound: pages of a block, its largest invalid_number

ASSUME HeapAssumption == Null \notin Blocks /\ MAXINV \in Nat

VARIABLES data, cnt,  \* body: of each node its block and its copy of the key
          size,
          inv         \* invalid_number of each block

vars == <<data, cnt, size, inv>>

Node == 1 .. 2 * Cardinality(Blocks) + 1   \* mh_init allocates 2 * (bn + 1) nodes

Init ==
  /\ data = [i \in Node |-> Null]
  /\ cnt = [i \in Node |-> 0]
  /\ size = 0
  /\ inv = [b \in Blocks |-> 0]

-----------------------------------------------------------------------------
(* Operators on h, a record of data, cnt and the keys.                     *)

\* Mutant: a node's copy of the key is not brought up to date.
RefreshNothing(h, S) == h

\* maxchild brings the copies of the nodes it compares up to date.
Refresh(h, S) ==
  [h EXCEPT !.cnt = [i \in Node |-> IF i \in S /\ h.data[i] # Null
                                    THEN h.inv[h.data[i]] ELSE h.cnt[i]]]

Children(h, n) == {c \in {2 * n, 2 * n + 1} : c \in Node /\ h.data[c] # Null}

\* The child maxchild returns; the right one of two with equal keys.
MaxChild(h, n) ==
  CHOOSE c \in Children(h, n) :
    \A d \in Children(h, n) : h.cnt[d] < h.cnt[c] \/ (h.cnt[d] = h.cnt[c] /\ d <= c)

Swap(h, m, n) ==
  [h EXCEPT !.data[m] = h.data[n], !.data[n] = h.data[m],
            !.cnt[m]  = h.cnt[n],  !.cnt[n]  = h.cnt[m]]

RECURSIVE Downdate(_, _)
Downdate(h, n) ==
  IF h.data[n] = Null THEN h
  ELSE LET g == Refresh(h, {n, 2 * n, 2 * n + 1})
           c == MaxChild(g, n)
       IN IF Children(g, n) # {} /\ g.cnt[c] > g.cnt[n]
          THEN Downdate(Swap(g, c, n), c)
          ELSE g

\* The nodes from `from` down to 1, each sifted down.
RECURSIVE DowndateFrom(_, _)
DowndateFrom(h, from) == IF from = 0 THEN h ELSE DowndateFrom(Downdate(h, from), from - 1)

\* Mutant: the level above the leaves is left out.
ConstructShort(h, sz) == DowndateFrom(h, sz \div 4)

\* mh_construct works level by level from the one above the deepest; within a level the
\* subtrees are disjoint, so the order there is immaterial.  The nodes of that level
\* without children are left as they are.
Construct(h, sz) == DowndateFrom(h, sz \div 2)

\* Mutant: the last node is not emptied.
GetMaxKeepsLast(h, sz) ==
  Downdate([h EXCEPT !.data[1] = h.data[sz], !.cnt[1] = h.cnt[sz]], 1)

\* mh_get_max, after it has read node 1.
GetMax(h, sz) ==
  Downdate([h EXCEPT !.cnt[1] = h.cnt[sz],
                     !.data = [h.data EXCEPT ![1] = h.data[sz], ![sz] = Null]], 1)

-----------------------------------------------------------------------------

In == {data[i] : i \in 1 .. size}

\* mh_insert_append, of an erased block or of the old reserve segment's.
InsertAppend(b) ==
  /\ b \notin In
  /\ size' = size + 1
  /\ data' = [data EXCEPT ![size + 1] = b]
  /\ UNCHANGED <<cnt, inv>>

\* base_unpopulate_bit: a key changes and the heap is not told.
Invalidate(b) ==
  /\ inv[b] < MAXINV
  /\ inv' = [inv EXCEPT ![b] = @ + 1]
  /\ UNCHANGED <<data, cnt, size>>

\* base_get_gc_target on this channel; the victim is erased before it is used again.
Take ==
  LET h0 == [data |-> data, cnt |-> cnt, inv |-> inv]
      h1 == Construct(h0, size)
      h2 == GetMax(h1, size)
  IN /\ size > 0
     /\ data' = h2.data /\ cnt' = h2.cnt
     /\ size' = size - 1
     /\ inv' = [inv EXCEPT ![h1.data[1]] = 0]

Next ==
  \/ \E b \in Blocks : InsertAppend(b) \/ Invalidate(b)
  \/ Take

Spec == Init /\ [][Next]_vars

-----------------------------------------------------------------------------

\* The nodes 1 .. size hold different blocks, the others none: mh_get_max loses no
\* block and leaves none behind, so a child with data is a child in the heap.
NodesExact ==
  /\ \A i \in Node : data[i] # Null <=> i <= size
  /\ \A i, j \in 1 .. size : data[i] = data[j] => i = j

\* base_get_gc_target takes one block, one with the most invalid pages of the channel,
\* whatever the order of appends and however stale the copies of the keys are.
TakesMostInvalid ==
  [][size' < size => \E b \in In : /\ \A a \in In : inv[a] <= inv[b]
                                   /\ In' = In \ {b}]_vars

=============================================================================
