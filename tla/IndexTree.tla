------------------------------ MODULE IndexTree ------------------------------
(***************************************************************************)
(* What an lzma_index is made of: the sizes an Index is reckoned in        *)
(* (src/original/src/liblzma/common/index.h, vli_size.c), and the          *)
(* append-only balanced tree of index.c (index_tree): nodes are only ever  *)
(* appended at the right end, so a rotation after every append that is not *)
(* a power of two keeps it balanced. Nodes are numbered in the order they  *)
(* were appended; 0 is NULL.                                               *)
(***************************************************************************)
EXTENDS Integers, Sequences, FiniteSets, Stepwise

CONSTANTS
  VliMax,         \* LZMA_VLI_MAX; sums are taken modulo 2 * (VliMax + 1)
  VliBase,        \* values a byte of a variable-length integer tells apart
  VliBytesMax,    \* LZMA_VLI_BYTES_MAX
  GroupSize,      \* INDEX_GROUP_SIZE
  BackwardMax     \* LZMA_BACKWARD_SIZE_MAX

ASSUME IndexAssumption ==
  /\ {VliMax, VliBase, VliBytesMax, GroupSize, BackwardMax} \subseteq Nat \ {0}
  /\ VliMax < VliBase ^ VliBytesMax

Wrap(v) == v % (2 * (VliMax + 1))
VliUnknown  == 2 * VliMax + 1
UnpaddedMin == 5
UnpaddedMax == VliMax - (VliMax % 4)
HeaderSize  == 12                     \* LZMA_STREAM_HEADER_SIZE
NoFlags     == "unset"                \* stream_flags.version = UINT32_MAX

Ceil4(v) == ((v + 3) \div 4) * 4
VliSize(v) == IF v > VliMax THEN 0
              ELSE CHOOSE n \in 1 .. VliBytesMax :
                     v < VliBase^n /\ (n = 1 \/ v >= VliBase^(n - 1))

IndexSizeUnpadded(count, list_size) == 1 + VliSize(count) + list_size + 4
IndexSize(count, list_size) == Ceil4(IndexSizeUnpadded(count, list_size))
StreamSize(blocks_size, count, list_size) ==
  2 * HeaderSize + blocks_size + IndexSize(count, list_size)

-----------------------------------------------------------------------------
EmptyTree == [root |-> 0, parent |-> <<>>, left |-> <<>>, right |-> <<>>]

Count(t)     == Len(t.parent)
Leftmost(t)  == IF Count(t) = 0 THEN 0 ELSE 1
Rightmost(t) == Count(t)

IsPowerOf2(n) == \E k \in 0 .. 30 : 2^k = n
Ctz(n) == CHOOSE k \in 0 .. 30 : n % 2^k = 0 /\ (n \div 2^k) % 2 = 1

(* The pivot takes the place of node, which becomes its left child.        *)
RotateLeft(t, node) ==
  LET pivot  == t.right[node]
      inner  == t.left[pivot]
      above  == t.parent[node]
      linked == [t EXCEPT !.right[node] = inner, !.left[pivot] = node,
                          !.parent[pivot] = above, !.parent[node] = pivot,
                          !.root = IF above = 0 THEN pivot ELSE @]
      up     == IF above = 0 THEN linked ELSE [linked EXCEPT !.right[above] = pivot]
  IN IF inner = 0 THEN up ELSE [up EXCEPT !.parent[inner] = node]

Added(t) ==
  LET n == Count(t) + 1
      grown == [root |-> IF n = 1 THEN 1 ELSE t.root, parent |-> Append(t.parent, n - 1),
                left |-> Append(t.left, 0), right |-> Append(t.right, 0)]
  IN IF n = 1 THEN grown ELSE [grown EXCEPT !.right[n - 1] = n]

LevelsUp(n) == Ctz(n) + 2

TreeAppend(t) ==
  LET n == Count(t) + 1
  IN IF IsPowerOf2(n) THEN Added(t)
     ELSE With(Added(t), LAMBDA u : RotateLeft(u, Times(LevelsUp(n), LAMBDA v : u.parent[v], n)))

(* The node after this one: the left end of the right subtree, or the      *)
(* first ancestor that lies to the right.                                  *)
TreeNext(t, node) ==
  LET down[n \in 1 .. Count(t)] == IF t.left[n] = 0 THEN n ELSE down[t.left[n]]
      up[n \in 1 .. Count(t)] ==
        IF t.parent[n] # 0 /\ t.right[t.parent[n]] = n THEN up[t.parent[n]] ELSE t.parent[n]
  IN IF t.right[node] # 0 THEN down[t.right[node]] ELSE up[node]

(* The last node whose base, a function of the node, is at most target.    *)
TreeLocate(t, base, target) ==
  LET search[n \in 0 .. Count(t), found \in 0 .. Count(t)] ==
        CASE n = 0                          -> found
          [] n # 0 /\ base[n] > target      -> search[t.left[n], found]
          [] n # 0 /\ ~(base[n] > target)   -> search[t.right[n], n]
  IN search[t.root, 0]

(* All nodes, the left subtree first.                                      *)
Traversal(t) ==
  LET walk[n \in 0 .. Count(t)] ==
        IF n = 0 THEN <<>> ELSE walk[t.left[n]] \o <<n>> \o walk[t.right[n]]
  IN walk[t.root]

=============================================================================
