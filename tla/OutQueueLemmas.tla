--------------------------- MODULE OutQueueLemmas ---------------------------
(***************************************************************************)
(* What each operation of the output queue does to its buffers, its cache  *)
(* and the memory in use, for any kind of buffer; sums and folds over      *)
(* numbered things, the counters that are such sums, and pieces joined one *)
(* after the other: the lemmas that the proofs about the queue and about   *)
(* the coders over it rest on.                                             *)
(***************************************************************************)
EXTENDS OutQueue, SequenceTheorems, FiniteSetTheorems, WellFoundedInduction, TLAPS

(* What a queue of buffers of B, cached ones of sizes in S, is made of. Of *)
(* the counters nothing is said here: see Counted below.                   *)
IsQueue(r, B, S) ==
  /\ r = [active |-> r.active, cache |-> r.cache, read_pos |-> r.read_pos,
          mem_allocated |-> r.mem_allocated, mem_in_use |-> r.mem_in_use]
  /\ r.active \in Seq(B)
  /\ r.cache \in Seq(S)

-----------------------------------------------------------------------------
(* One field changes, and a queue it stays. Below, an operation is taken   *)
(* apart into such changes; their values are named by PICK so that the     *)
(* provers see them as atoms.                                              *)

LEMMA SetCache ==
  ASSUME NEW B, NEW S, NEW r, IsQueue(r, B, S), NEW c \in Seq(S),
         NEW k, k = [r EXCEPT !.cache = c]
  PROVE  /\ IsQueue(k, B, S) /\ k.active = r.active /\ k.cache = c
         /\ k.mem_in_use = r.mem_in_use /\ k.mem_allocated = r.mem_allocated
  BY SMTT(60) DEF IsQueue

LEMMA SetAllocated ==
  ASSUME NEW B, NEW S, NEW r, IsQueue(r, B, S), NEW c,
         NEW k, k = [r EXCEPT !.mem_allocated = c]
  PROVE  /\ IsQueue(k, B, S) /\ k.active = r.active /\ k.cache = r.cache
         /\ k.mem_in_use = r.mem_in_use /\ k.mem_allocated = c
  BY SMTT(60) DEF IsQueue

LEMMA SetInUse ==
  ASSUME NEW B, NEW S, NEW r, IsQueue(r, B, S), NEW c,
         NEW k, k = [r EXCEPT !.mem_in_use = c]
  PROVE  /\ IsQueue(k, B, S) /\ k.active = r.active /\ k.cache = r.cache
         /\ k.mem_in_use = c /\ k.mem_allocated = r.mem_allocated
  BY SMTT(60) DEF IsQueue

LEMMA SetReadPos ==
  ASSUME NEW B, NEW S, NEW r, IsQueue(r, B, S), NEW c,
         NEW k, k = [r EXCEPT !.read_pos = c]
  PROVE  /\ IsQueue(k, B, S) /\ k.active = r.active /\ k.cache = r.cache
         /\ k.mem_in_use = r.mem_in_use /\ k.mem_allocated = r.mem_allocated
  BY SMTT(60) DEF IsQueue

LEMMA SetActive ==
  ASSUME NEW B, NEW S, NEW r, IsQueue(r, B, S), NEW c \in Seq(B),
         NEW k, k = [r EXCEPT !.active = c]
  PROVE  /\ IsQueue(k, B, S) /\ k.active = c /\ k.cache = r.cache
         /\ k.mem_in_use = r.mem_in_use /\ k.mem_allocated = r.mem_allocated
  BY DEF IsQueue

-----------------------------------------------------------------------------
(* The operations.                                                         *)

LEMMA ClearedCache ==
  ASSUME NEW B, NEW S, NEW r, IsQueue(r, B, S)
  PROVE  /\ IsQueue(ClearCache(r), B, S)
         /\ ClearCache(r).active = r.active /\ ClearCache(r).mem_in_use = r.mem_in_use
         /\ ClearCache(r).cache = <<>>
         /\ ClearCache(r).mem_allocated = r.mem_allocated - UsageOf(r.cache)
  <1>1. PICK m : m = r.mem_allocated - UsageOf(r.cache)
    OBVIOUS
  <1>2. <<>> \in Seq(S)
    OBVIOUS
  <1>3. PICK e \in Seq(S) : e = <<>>
    BY <1>2
  <1>4. PICK k : k = [r EXCEPT !.cache = e]
    OBVIOUS
  <1>5. ClearCache(r) = [k EXCEPT !.mem_allocated = m]
    BY <1>1, <1>4, <1>3 DEF ClearCache
  <1>6. IsQueue(k, B, S) /\ k.active = r.active /\ k.cache = e /\ k.mem_in_use = r.mem_in_use
    BY <1>4, SetCache
  <1>7. PICK l : l = [k EXCEPT !.mem_allocated = m]
    OBVIOUS
  <1>8. /\ IsQueue(l, B, S) /\ l.active = k.active /\ l.cache = k.cache
        /\ l.mem_in_use = k.mem_in_use /\ l.mem_allocated = m
    <2>1. IsQueue(k, B, S)
      BY <1>6
    <2> QED  BY <1>7, <2>1 DEF IsQueue
  <1> QED  BY <1>1, <1>5, <1>3, <1>6, <1>7, <1>8

LEMMA TrimmedCache ==
  ASSUME NEW B, NEW S, NEW r, IsQueue(r, B, S), NEW size \in S
  PROVE  /\ IsQueue(ClearCacheKeep(r, size), B, S)
         /\ ClearCacheKeep(r, size).active = r.active
         /\ ClearCacheKeep(r, size).mem_in_use = r.mem_in_use
         /\ \/ /\ ClearCacheKeep(r, size).cache = <<>>
               /\ ClearCacheKeep(r, size).mem_allocated = r.mem_allocated - UsageOf(r.cache)
            \/ /\ ClearCacheKeep(r, size).cache = <<size>> /\ Len(r.cache) > 0
               /\ ClearCacheKeep(r, size).mem_allocated = r.mem_allocated - UsageOf(r.cache) + Usage(size)
  <1>1. PICK c : c = ClearCache(r)
    OBVIOUS
  <1>2. /\ IsQueue(c, B, S) /\ c.active = r.active /\ c.cache = <<>>
        /\ c.mem_in_use = r.mem_in_use /\ c.mem_allocated = r.mem_allocated - UsageOf(r.cache)
    BY <1>1, ClearedCache
  <1>3. CASE size \in ToSet(r.cache)
    <2>1. PICK m : m = c.mem_allocated + Usage(size)
      OBVIOUS
    <2>2. <<size>> \in Seq(S)
      OBVIOUS
    <2>3. PICK e \in Seq(S) : e = <<size>>
      BY <2>2
    <2>4. PICK k : k = [c EXCEPT !.cache = e]
      OBVIOUS
    <2>5. ClearCacheKeep(r, size) = [k EXCEPT !.mem_allocated = m]
      BY <1>1, <1>3, <2>1, <2>4, <2>3 DEF ClearCacheKeep
    <2>6. IsQueue(k, B, S) /\ k.active = r.active /\ k.cache = e /\ k.mem_in_use = r.mem_in_use
      BY <1>2, <2>4, SetCache
    <2>7. /\ IsQueue(ClearCacheKeep(r, size), B, S)
          /\ ClearCacheKeep(r, size).active = r.active
          /\ ClearCacheKeep(r, size).mem_in_use = r.mem_in_use
          /\ ClearCacheKeep(r, size).cache = <<size>>
          /\ ClearCacheKeep(r, size).mem_allocated = m
      BY <2>5, <2>3, <2>6, SetAllocated
    <2>8. Len(r.cache) > 0
      BY <1>3 DEF ToSet, IsQueue
    <2> QED  BY <1>2, <2>1, <2>7, <2>8
  <1>4. CASE size \notin ToSet(r.cache)
    BY <1>1, <1>2, <1>4 DEF ClearCacheKeep
  <1> QED  BY <1>3, <1>4

(* A preallocated buffer is at the cache's end and has the size wanted.    *)
LEMMA Preallocated ==
  ASSUME NEW B, NEW S, NEW r, IsQueue(r, B, S), NEW size \in S
  PROVE  LET p == PreallocBuf(r, size)
         IN /\ IsQueue(p, B, S) /\ p.active = r.active /\ p.mem_in_use = r.mem_in_use
            /\ \/ p.cache = <<size>> /\ p.mem_allocated = r.mem_allocated - UsageOf(r.cache) + Usage(size)
               \/ /\ p.cache = r.cache /\ Len(r.cache) > 0 /\ Last(r.cache) = size
                  /\ Reusable(r, size) /\ p.mem_allocated = r.mem_allocated
  <1>1. PICK c : c = ClearCache(r)
    OBVIOUS
  <1>2. /\ IsQueue(c, B, S) /\ c.active = r.active /\ c.cache = <<>>
        /\ c.mem_in_use = r.mem_in_use /\ c.mem_allocated = r.mem_allocated - UsageOf(r.cache)
    BY <1>1, ClearedCache
  <1>3. CASE Reusable(r, size)
    BY <1>3 DEF Reusable, PreallocBuf, IsQueue
  <1>4. CASE ~Reusable(r, size)
    <2>1. PICK m : m = c.mem_allocated + Usage(size)
      OBVIOUS
    <2>2. <<size>> \in Seq(S)
      OBVIOUS
    <2>3. PICK e \in Seq(S) : e = <<size>>
      BY <2>2
    <2>4. PICK k : k = [c EXCEPT !.cache = e]
      OBVIOUS
    <2>5. PreallocBuf(r, size) = [k EXCEPT !.mem_allocated = m]
      BY <1>1, <1>4, <2>1, <2>4, <2>3 DEF PreallocBuf
    <2>6. IsQueue(k, B, S) /\ k.active = r.active /\ k.cache = e /\ k.mem_in_use = r.mem_in_use
      BY <1>2, <2>4, SetCache
    <2>7. /\ IsQueue(PreallocBuf(r, size), B, S)
          /\ PreallocBuf(r, size).active = r.active
          /\ PreallocBuf(r, size).mem_in_use = r.mem_in_use
          /\ PreallocBuf(r, size).cache = <<size>>
          /\ PreallocBuf(r, size).mem_allocated = m
      BY <2>5, <2>3, <2>6, SetAllocated
    <2> QED  BY <1>2, <2>1, <2>7
  <1> QED  BY <1>3, <1>4

(* The cache without its last buffer.                                      *)
LEMMA FrontOfCache ==
  ASSUME NEW S, NEW c \in Seq(S), Len(c) > 0
  PROVE  /\ Front(c) \in Seq(S) /\ Len(Front(c)) = Len(c) - 1
         /\ \A i \in DOMAIN Front(c) : i \in DOMAIN c /\ Front(c)[i] = c[i]
         /\ Last(c) \in S
  <1>1. \A i \in 1 .. Len(c) - 1 : c[i] \in S
    OBVIOUS
  <1>2. Len(c) - 1 \in Nat /\ Last(c) \in S
    BY DEF Last
  <1>3. PICK n : n = Len(c) - 1
    OBVIOUS
  <1>4. /\ SubSeq(c, 1, n) \in Seq(S) /\ Len(SubSeq(c, 1, n)) = IF 1 <= n THEN n - 1 + 1 ELSE 0
        /\ \A i \in 1 .. n - 1 + 1 : SubSeq(c, 1, n)[i] = c[1 + i - 1]
    <2>1. 1 \in Int /\ n \in Int /\ \A i \in 1 .. n : c[i] \in S
      BY <1>1, <1>2, <1>3
    <2> QED  BY <2>1, SubSeqProperties
  <1>5. Len(SubSeq(c, 1, n)) = n /\ \A i \in 1 .. n : SubSeq(c, 1, n)[i] = c[i]
    BY <1>2, <1>3, <1>4
  <1>6. Front(c) = SubSeq(c, 1, n)
    BY <1>3 DEF Front
  <1> QED  BY <1>2, <1>3, <1>4, <1>5, <1>6

(* Taking a buffer moves one from the cache to the queue.                  *)
LEMMA Taken ==
  ASSUME NEW B, NEW S, NEW r, IsQueue(r, B, S), Len(r.cache) > 0, NEW job, NEW worker,
         FreshBuf(job, Last(r.cache), worker) \in B
  PROVE  LET g == GetBuf(r, job, worker)
         IN /\ IsQueue(g, B, S)
            /\ g.active = Append(r.active, FreshBuf(job, Last(r.cache), worker))
            /\ g.cache = Front(r.cache)
            /\ g.mem_in_use = r.mem_in_use + Usage(Last(r.cache))
            /\ g.mem_allocated = r.mem_allocated
  <1>1. r.active \in Seq(B) /\ r.cache \in Seq(S)
    BY DEF IsQueue
  <1>2. PICK size : size = Last(r.cache)
    OBVIOUS
  <1>3. size \in S /\ Front(r.cache) \in Seq(S)
    BY <1>1, <1>2, FrontOfCache
  <1>4. PICK b : b = FreshBuf(job, size, worker)
    OBVIOUS
  <1>5. b \in B
    BY <1>2, <1>4
  <1>6. PICK a : a = Append(r.active, b)
    OBVIOUS
  <1>7. a \in Seq(B)
    BY <1>1, <1>5, <1>6
  <1>8. PICK m : m = r.mem_in_use + Usage(size)
    OBVIOUS
  <1>9. PICK f : f = Front(r.cache)
    OBVIOUS
  <1>10. PICK k : k = [r EXCEPT !.cache = f]
    OBVIOUS
  <1>11. /\ IsQueue(k, B, S) /\ k.active = r.active /\ k.cache = f
         /\ k.mem_in_use = r.mem_in_use /\ k.mem_allocated = r.mem_allocated
    BY <1>3, <1>10, <1>9, SetCache
  <1>12. PICK l : l = [k EXCEPT !.active = a]
    OBVIOUS
  <1>13. /\ IsQueue(l, B, S) /\ l.active = a /\ l.cache = f
         /\ l.mem_in_use = r.mem_in_use /\ l.mem_allocated = r.mem_allocated
    BY <1>7, <1>11, <1>12, SetActive
  <1>14. GetBuf(r, job, worker) = [l EXCEPT !.mem_in_use = m]
    BY <1>2, <1>4, <1>6, <1>8, <1>10, <1>12, <1>9 DEF GetBuf
  <1>15. PICK g : g = [l EXCEPT !.mem_in_use = m]
    OBVIOUS
  <1>16. /\ IsQueue(g, B, S) /\ g.active = l.active /\ g.cache = l.cache
         /\ g.mem_in_use = m /\ g.mem_allocated = l.mem_allocated
    <2>1. IsQueue(l, B, S)
      BY <1>13
    <2> QED  BY <1>15, <2>1 DEF IsQueue
  <1>17. GetBuf(r, job, worker) = g
    BY <1>14, <1>15
  <1> QED  BY <1>2, <1>4, <1>6, <1>8, <1>9, <1>13, <1>16, <1>17

(* A buffer that is drained moves to the cache.                            *)
LEMMA Recycled ==
  ASSUME NEW B, NEW S, NEW r, IsQueue(r, B, S), NEW size \in S
  PROVE  LET k == Recycle(r, size)
         IN /\ IsQueue(k, B, S) /\ k.active = r.active /\ k.mem_in_use = r.mem_in_use
            /\ \/ k.cache = <<size>>
               \/ k.cache = Append(r.cache, size) /\ Len(r.cache) > 0 /\ Last(r.cache) = size
            /\ \/ k.cache = <<size>> /\ k.mem_allocated = r.mem_allocated - UsageOf(r.cache)
               \/ k.cache = Append(r.cache, size) /\ k.mem_allocated = r.mem_allocated
  <1>1. r.cache \in Seq(S)
    BY DEF IsQueue
  <1>2. PICK kept : kept = IF r.cache # <<>> /\ Last(r.cache) # size THEN ClearCache(r) ELSE r
    OBVIOUS
  <1>3. /\ IsQueue(kept, B, S) /\ kept.active = r.active /\ kept.mem_in_use = r.mem_in_use
        /\ kept.cache = <<>> \/ (kept.cache = r.cache /\ Len(r.cache) > 0 /\ Last(r.cache) = size)
        /\ \/ kept.cache = <<>> /\ kept.mem_allocated = r.mem_allocated - UsageOf(r.cache)
           \/ kept.cache = r.cache /\ kept.mem_allocated = r.mem_allocated
    <2>1. CASE r.cache # <<>> /\ Last(r.cache) # size
      BY <1>2, <2>1, ClearedCache
    <2>2. CASE ~(r.cache # <<>> /\ Last(r.cache) # size)
      BY <1>1, <1>2, <2>2
    <2> QED  BY <2>1, <2>2
  <1>4. PICK c : c = Append(kept.cache, size)
    OBVIOUS
  <1>5. c \in Seq(S) /\ (kept.cache = <<>> => c = <<size>>)
    <2>1. kept.cache \in Seq(S)
      BY <1>3 DEF IsQueue
    <2>2. c \in Seq(S)
      BY <1>4, <2>1
    <2>3. Append(<<>>, size) = <<size>>
      OBVIOUS
    <2> QED  BY <1>4, <2>2, <2>3
  <1>6. Recycle(r, size) = [kept EXCEPT !.cache = c]
    BY <1>2, <1>4 DEF Recycle
  <1>7. PICK k : k = [kept EXCEPT !.cache = c]
    OBVIOUS
  <1>8. /\ IsQueue(k, B, S) /\ k.active = kept.active /\ k.cache = c
        /\ k.mem_in_use = kept.mem_in_use /\ k.mem_allocated = kept.mem_allocated
    BY <1>3, <1>5, <1>7, SetCache
  <1> QED  BY <1>3, <1>4, <1>5, <1>6, <1>7, <1>8

(* Reading leaves the buffers alone or recycles the head.                  *)
LEMMA ReadOn ==
  ASSUME NEW B, NEW S, NEW r, IsQueue(r, B, S), NEW space, ~Drains(r, space)
  PROVE  LET k == Read(r, space)
         IN /\ IsQueue(k, B, S) /\ k.active = r.active /\ k.cache = r.cache
            /\ k.mem_in_use = r.mem_in_use /\ k.mem_allocated = r.mem_allocated
  <1>1. PICK p : p = r.read_pos + Available(r, space)
    OBVIOUS
  <1>2. Read(r, space) = [r EXCEPT !.read_pos = p]
    BY <1>1 DEF Read
  <1>3. PICK k : k = [r EXCEPT !.read_pos = p]
    OBVIOUS
  <1>4. /\ IsQueue(k, B, S) /\ k.active = r.active /\ k.cache = r.cache
        /\ k.mem_in_use = r.mem_in_use /\ k.mem_allocated = r.mem_allocated
    BY <1>3, SetReadPos
  <1> QED  BY <1>2, <1>3, <1>4

LEMMA ReadOut ==
  ASSUME NEW B, NEW S, NEW r, IsQueue(r, B, S), NEW space, Drains(r, space),
         Head(r.active).size \in S
  PROVE  LET k == Read(r, space)
             size == Head(r.active).size
         IN /\ IsQueue(k, B, S) /\ k.active = Tail(r.active)
            /\ k.mem_in_use = r.mem_in_use - Usage(size)
            /\ \/ k.cache = <<size>>
               \/ k.cache = Append(r.cache, size) /\ Len(r.cache) > 0 /\ Last(r.cache) = size
            /\ \/ k.cache = <<size>> /\ k.mem_allocated = r.mem_allocated - UsageOf(r.cache)
               \/ k.cache = Append(r.cache, size) /\ k.mem_allocated = r.mem_allocated
  <1>1. r.active \in Seq(B) /\ r.active # <<>>
    BY DEF Drains, IsQueue
  <1>2. PICK size \in S : size = Head(r.active).size
    OBVIOUS
  <1>3. PICK m : m = r.mem_in_use - Usage(size)
    OBVIOUS
  <1>4. PICK a : a = Tail(r.active)
    OBVIOUS
  <1>5. a \in Seq(B)
    BY <1>1, <1>4
  <1>6. PICK k : k = [r EXCEPT !.active = a]
    OBVIOUS
  <1>7. IsQueue(k, B, S) /\ k.cache = r.cache /\ k.active = a /\ k.mem_allocated = r.mem_allocated
    BY <1>5, <1>6, SetActive
  <1>8. PICK l : l = [k EXCEPT !.read_pos = 0]
    OBVIOUS
  <1>9. IsQueue(l, B, S) /\ l.cache = r.cache /\ l.active = a /\ l.mem_allocated = r.mem_allocated
    BY <1>7, <1>8, SetReadPos
  <1>10. PICK p : p = [l EXCEPT !.mem_in_use = m]
    OBVIOUS
  <1>11. /\ IsQueue(p, B, S) /\ p.cache = r.cache /\ p.active = a
         /\ p.mem_in_use = m /\ p.mem_allocated = r.mem_allocated
    BY <1>9, <1>10, SetInUse
  <1>12. p = PopHead(r)
    BY <1>2, <1>3, <1>4, <1>6, <1>8, <1>10 DEF PopHead
  <1>13. Read(r, space) = Recycle(p, size)
    BY <1>2, <1>12 DEF Read
  <1>14. PICK k2 : k2 = Recycle(p, size)
    OBVIOUS
  <1>15. /\ IsQueue(k2, B, S) /\ k2.active = p.active /\ k2.mem_in_use = p.mem_in_use
         /\ \/ k2.cache = <<size>>
            \/ k2.cache = Append(p.cache, size) /\ Len(p.cache) > 0 /\ Last(p.cache) = size
         /\ \/ k2.cache = <<size>> /\ k2.mem_allocated = p.mem_allocated - UsageOf(p.cache)
            \/ k2.cache = Append(p.cache, size) /\ k2.mem_allocated = p.mem_allocated
    BY ONLY <1>11, <1>14, <1>2, Recycled
  <1>16. Read(r, space) = k2 /\ k2.active = Tail(r.active) /\ k2.mem_in_use = r.mem_in_use - Usage(size)
    BY <1>3, <1>4, <1>11, <1>13, <1>14, <1>15
  <1>17. /\ \/ k2.cache = <<size>>
            \/ k2.cache = Append(r.cache, size) /\ Len(r.cache) > 0 /\ Last(r.cache) = size
         /\ \/ k2.cache = <<size>> /\ k2.mem_allocated = r.mem_allocated - UsageOf(r.cache)
            \/ k2.cache = Append(r.cache, size) /\ k2.mem_allocated = r.mem_allocated
    BY ONLY <1>11, <1>15
  <1> QED BY <1>2, <1>15, <1>16, <1>17

(* An update within a sequence's domain changes one element, any other    *)
(* none.                                                                   *)
LEMMA Updated ==
  ASSUME NEW S, NEW s \in Seq(S), NEW j, NEW e \in S
  PROVE  [s EXCEPT ![j] = e] \in Seq(S) /\ Len([s EXCEPT ![j] = e]) = Len(s)
  <1>1. PICK n \in Nat : s \in [1 .. n -> S]
    OBVIOUS
  <1>2. [s EXCEPT ![j] = e] \in [1 .. n -> S]
    BY <1>1
  <1> QED  BY <1>1, <1>2

-----------------------------------------------------------------------------
(* Proof by induction: a set of natural numbers has a least element.       *)
LEMMA LeastNumber ==
  ASSUME NEW T, T \subseteq Nat, T # {}
  PROVE  \E x \in T : \A y \in T : x <= y
  <1>1. PICK R : R = OpToRel(<, Nat)
    OBVIOUS
  <1>2. IsWellFoundedOn(R, Nat)
    BY <1>1, NatLessThanWellFounded
  <1>3. PICK x \in T : \A y \in T : ~ (<<y, x>> \in R)
    BY <1>2, WFMin
  <1>4. \A y \in T : ~ (y < x)
    BY <1>1, <1>3 DEF OpToRel
  <1>5. \A y \in T : x <= y
    BY <1>4
  <1> QED BY <1>5

LEMMA AllNumbers ==
  ASSUME NEW T, 0 \in T, \A n \in Nat : n \in T => n + 1 \in T
  PROVE  Nat \subseteq T
  <1> SUFFICES ASSUME Nat \ T # {} PROVE FALSE
    OBVIOUS
  <1>1. PICK x \in Nat \ T : \A y \in Nat \ T : x <= y
    BY LeastNumber
  <1>2. x # 0 /\ x - 1 \in Nat
    OBVIOUS
  <1>3. x - 1 \in T
    BY <1>1, <1>2
  <1> QED BY <1>2, <1>3

-----------------------------------------------------------------------------
(* Sums: v[1] + ... + v[n], as the last of the partial sums, which exist   *)
(* and are unique.                                                         *)
Accumulates(p, v, n) ==
  /\ p \in [0 .. n -> Int] /\ p[0] = 0
  /\ \A i \in 1 .. n : p[i] = p[i - 1] + v[i]
SumTo(v, n) == (CHOOSE p : Accumulates(p, v, n))[n]
Numbers(v, n) == \A i \in 1 .. n : v[i] \in Int
Agree(v, w, n) == \A i \in 1 .. n : v[i] = w[i]

LEMMA AccumulationExists == ASSUME NEW v, NEW n \in Nat, Numbers(v, n) PROVE \E p : Accumulates(p, v, n)
  <1>1. PICK T : T = {m \in Nat : m <= n => \E p : Accumulates(p, v, m)}
    OBVIOUS
  <1>2. 0 \in T
    <2>1. Accumulates([i \in 0 .. 0 |-> 0], v, 0)
      BY DEF Accumulates
    <2> QED BY <1>1, <2>1
  <1>3. ASSUME NEW m \in Nat, m \in T PROVE m + 1 \in T
    <2> SUFFICES ASSUME m + 1 <= n PROVE \E p : Accumulates(p, v, m + 1)
      BY <1>1
    <2>1. PICK p : Accumulates(p, v, m)
      BY <1>1, <1>3
    <2>2. PICK q : q = [i \in 0 .. m + 1 |-> IF i = m + 1 THEN p[m] + v[m + 1] ELSE p[i]]
      OBVIOUS
    <2>3. v[m + 1] \in Int
      BY DEF Numbers
    <2>4. p[m] \in Int
      BY <2>1 DEF Accumulates
    <2>5. q \in [0 .. m + 1 -> Int]
      BY <2>1, <2>2, <2>3, <2>4 DEF Accumulates
    <2>6. q[0] = 0
      BY <2>1, <2>2 DEF Accumulates
    <2>7. ASSUME NEW i \in 1 .. m + 1 PROVE q[i] = q[i - 1] + v[i]
      <3>1. q[m + 1] = p[m] + v[m + 1]
        BY <2>2
      <3>2. \A j \in 0 .. m : q[j] = p[j]
        BY <2>2
      <3>3. CASE i = m + 1
        BY <3>1, <3>2, <3>3
      <3>4. CASE i \in 1 .. m
        <4>1. p[i] = p[i - 1] + v[i]
          BY <2>1, <3>4 DEF Accumulates
        <4>2. i \in 0 .. m /\ i - 1 \in 0 .. m
          BY <3>4
        <4> QED BY <3>2, <4>1, <4>2
      <3> QED BY <3>3, <3>4
    <2> QED BY <2>5, <2>6, <2>7 DEF Accumulates
  <1>4. n \in T
    BY <1>2, <1>3, AllNumbers
  <1> QED BY <1>1, <1>4

LEMMA AccumulationUnique ==
  ASSUME NEW v, NEW w, NEW n \in Nat, NEW p, NEW q, Accumulates(p, v, n), Accumulates(q, w, n), Agree(v, w, n)
  PROVE  p[n] = q[n]
  <1>1. PICK T : T = {m \in Nat : m <= n => p[m] = q[m]}
    OBVIOUS
  <1>2. 0 \in T
    BY <1>1 DEF Accumulates
  <1>3. ASSUME NEW m \in Nat, m \in T PROVE m + 1 \in T
    <2> SUFFICES ASSUME m + 1 <= n PROVE p[m + 1] = q[m + 1]
      BY <1>1
    <2>1. p[m] = q[m]
      BY <1>1, <1>3
    <2>2. m + 1 \in 1 .. n /\ (m + 1) - 1 = m
      OBVIOUS
    <2>3. p[m + 1] = p[m] + v[m + 1]
      BY <2>2 DEF Accumulates
    <2>4. q[m + 1] = q[m] + w[m + 1]
      BY <2>2 DEF Accumulates
    <2>5. v[m + 1] = w[m + 1]
      BY <2>2 DEF Agree
    <2> QED BY <2>1, <2>3, <2>4, <2>5
  <1>4. n \in T
    BY <1>2, <1>3, AllNumbers
  <1> QED BY <1>1, <1>4

LEMMA SumOf ==
  ASSUME NEW v, NEW n \in Nat, NEW p, Accumulates(p, v, n)
  PROVE  SumTo(v, n) = p[n]
  <1>1. PICK q : q = CHOOSE r : Accumulates(r, v, n)
    OBVIOUS
  <1>2. Accumulates(q, v, n)
    BY <1>1
  <1>3. Agree(v, v, n)
    BY DEF Agree
  <1>4. q[n] = p[n]
    BY <1>2, <1>3, AccumulationUnique
  <1> QED BY <1>1, <1>4 DEF SumTo

LEMMA SumType == ASSUME NEW v, NEW n \in Nat, Numbers(v, n) PROVE SumTo(v, n) \in Int
  <1>1. PICK p : Accumulates(p, v, n)
    BY AccumulationExists
  <1>2. p[n] \in Int
    BY <1>1 DEF Accumulates
  <1> QED BY <1>1, <1>2, SumOf

LEMMA SumSame ==
  ASSUME NEW v, NEW w, NEW n \in Nat, Numbers(v, n), Agree(v, w, n)
  PROVE  SumTo(v, n) = SumTo(w, n)
  <1>1. Numbers(w, n)
    BY DEF Numbers, Agree
  <1>2. PICK p : Accumulates(p, v, n)
    BY AccumulationExists
  <1>3. PICK q : Accumulates(q, w, n)
    BY <1>1, AccumulationExists
  <1>4. p[n] = q[n]
    BY <1>2, <1>3, AccumulationUnique
  <1> QED BY <1>2, <1>3, <1>4, SumOf

LEMMA SumZero == ASSUME NEW v PROVE SumTo(v, 0) = 0
  <1>1. Accumulates([i \in 0 .. 0 |-> 0], v, 0)
    BY DEF Accumulates
  <1> QED BY <1>1, SumOf

LEMMA SumStep ==
  ASSUME NEW v, NEW n \in Nat, Numbers(v, n + 1)
  PROVE  SumTo(v, n + 1) = SumTo(v, n) + v[n + 1]
  <1>1. PICK p : Accumulates(p, v, n + 1)
    BY AccumulationExists
  <1>2. PICK q : q = [i \in 0 .. n |-> p[i]]
    OBVIOUS
  <1>3. Accumulates(q, v, n)
    <2>1. q \in [0 .. n -> Int] /\ q[0] = 0
      BY <1>1, <1>2 DEF Accumulates
    <2>2. ASSUME NEW i \in 1 .. n PROVE q[i] = q[i - 1] + v[i]
      <3>1. p[i] = p[i - 1] + v[i]
        BY <1>1 DEF Accumulates
      <3>2. i \in 0 .. n /\ i - 1 \in 0 .. n
        OBVIOUS
      <3> QED BY <1>2, <3>1, <3>2
    <2> QED BY <2>1, <2>2 DEF Accumulates
  <1>4. p[n + 1] = p[n] + v[n + 1]
    <2>1. n + 1 \in 1 .. n + 1 /\ (n + 1) - 1 = n
      OBVIOUS
    <2> QED BY <1>1, <2>1 DEF Accumulates
  <1>5. SumTo(v, n + 1) = p[n + 1]
    BY <1>1, SumOf
  <1>6. SumTo(v, n) = q[n]
    BY <1>3, SumOf
  <1>7. q[n] = p[n]
    BY <1>2
  <1> QED BY <1>4, <1>5, <1>6, <1>7

(* Adding one number in front, changing one, and what is not negative.     *)
LEMMA SumCons ==
  ASSUME NEW v, NEW w, NEW n \in Nat, Numbers(v, n + 1), \A i \in 1 .. n : w[i] = v[i + 1]
  PROVE  SumTo(v, n + 1) = v[1] + SumTo(w, n)
  <1>1. PICK T : T = {m \in Nat : m <= n => SumTo(v, m + 1) = v[1] + SumTo(w, m)}
    OBVIOUS
  <1>2. \A i \in 1 .. n + 1 : v[i] \in Int
    BY DEF Numbers
  <1>3. 0 \in T
    <2>1. Numbers(v, 0 + 1)
      BY <1>2 DEF Numbers
    <2>2. SumTo(v, 0 + 1) = SumTo(v, 0) + v[0 + 1]
      BY <2>1, SumStep
    <2>3. SumTo(v, 0) = 0 /\ SumTo(w, 0) = 0
      BY SumZero
    <2>4. v[1] \in Int
      BY <1>2
    <2> QED BY <1>1, <2>2, <2>3, <2>4
  <1>4. ASSUME NEW m \in Nat, m \in T PROVE m + 1 \in T
    <2> SUFFICES ASSUME m + 1 <= n PROVE SumTo(v, m + 1 + 1) = v[1] + SumTo(w, m + 1)
      BY <1>1
    <2>1. SumTo(v, m + 1) = v[1] + SumTo(w, m)
      BY <1>1, <1>4
    <2>2. Numbers(v, m + 1 + 1)
      BY <1>2 DEF Numbers
    <2>3. SumTo(v, m + 1 + 1) = SumTo(v, m + 1) + v[m + 1 + 1]
      BY <2>2, SumStep
    <2>4. Numbers(w, m + 1)
      BY <1>2 DEF Numbers
    <2>5. SumTo(w, m + 1) = SumTo(w, m) + w[m + 1]
      BY <2>4, SumStep
    <2>6. w[m + 1] = v[m + 1 + 1]
      OBVIOUS
    <2>7. v[1] \in Int /\ v[m + 1 + 1] \in Int
      BY <1>2
    <2>8. Numbers(w, m)
      BY <1>2 DEF Numbers
    <2>9. SumTo(w, m) \in Int
      BY <2>8, SumType
    <2> QED BY <2>1, <2>3, <2>5, <2>6, <2>7, <2>9
  <1>5. n \in T
    BY <1>3, <1>4, AllNumbers
  <1> QED BY <1>1, <1>5

LEMMA SumChange ==
  ASSUME NEW v, NEW w, NEW n \in Nat, NEW k \in 1 .. n, Numbers(v, n), Numbers(w, n),
         \A i \in 1 .. n : i # k => v[i] = w[i]
  PROVE  SumTo(w, n) = SumTo(v, n) - v[k] + w[k]
  <1>1. PICK T : T = {m \in Nat : m <= n => SumTo(w, m) = IF m < k THEN SumTo(v, m) ELSE SumTo(v, m) - v[k] + w[k]}
    OBVIOUS
  <1>2. \A i \in 1 .. n : v[i] \in Int /\ w[i] \in Int
    BY DEF Numbers
  <1>3. 0 \in T
    <2>1. SumTo(v, 0) = 0 /\ SumTo(w, 0) = 0
      BY SumZero
    <2> QED BY <1>1, <2>1
  <1>4. ASSUME NEW m \in Nat, m \in T PROVE m + 1 \in T
    <2> SUFFICES ASSUME m + 1 <= n PROVE SumTo(w, m + 1) = IF m + 1 < k THEN SumTo(v, m + 1) ELSE SumTo(v, m + 1) - v[k] + w[k]
      BY <1>1
    <2>1. SumTo(w, m) = IF m < k THEN SumTo(v, m) ELSE SumTo(v, m) - v[k] + w[k]
      BY <1>1, <1>4
    <2>2. Numbers(v, m + 1) /\ Numbers(w, m + 1) /\ Numbers(v, m)
      BY <1>2 DEF Numbers
    <2>3. SumTo(v, m + 1) = SumTo(v, m) + v[m + 1]
      BY <2>2, SumStep
    <2>4. SumTo(w, m + 1) = SumTo(w, m) + w[m + 1]
      BY <2>2, SumStep
    <2>5. SumTo(v, m) \in Int
      BY <2>2, SumType
    <2>6. v[k] \in Int /\ w[k] \in Int /\ v[m + 1] \in Int /\ w[m + 1] \in Int
      BY <1>2
    <2>7. CASE m + 1 = k
      BY <2>1, <2>3, <2>4, <2>5, <2>6, <2>7
    <2>8. CASE m + 1 # k
      <3>1. v[m + 1] = w[m + 1]
        BY <2>8
      <3> QED BY <2>1, <2>3, <2>4, <2>5, <2>6, <2>8, <3>1
    <2> QED BY <2>7, <2>8
  <1>5. n \in T
    BY <1>3, <1>4, AllNumbers
  <1> QED BY <1>1, <1>5

LEMMA SumNat ==
  ASSUME NEW v, NEW n \in Nat, \A i \in 1 .. n : v[i] \in Nat
  PROVE  SumTo(v, n) \in Nat
  <1>1. PICK T : T = {m \in Nat : m <= n => SumTo(v, m) \in Nat}
    OBVIOUS
  <1>2. 0 \in T
    BY <1>1, SumZero
  <1>3. ASSUME NEW m \in Nat, m \in T PROVE m + 1 \in T
    <2> SUFFICES ASSUME m + 1 <= n PROVE SumTo(v, m + 1) \in Nat
      BY <1>1
    <2>1. SumTo(v, m) \in Nat
      BY <1>1, <1>3
    <2>2. Numbers(v, m + 1)
      BY DEF Numbers
    <2>3. SumTo(v, m + 1) = SumTo(v, m) + v[m + 1]
      BY <2>2, SumStep
    <2> QED BY <2>1, <2>3
  <1>4. n \in T
    BY <1>2, <1>3, AllNumbers
  <1> QED BY <1>1, <1>4

-----------------------------------------------------------------------------
(* A fold that takes an element out of a set of indices and adds what is   *)
(* at it (MapThenFoldSet) is a sum, whatever order it chooses.             *)
Some(s) == CHOOSE x \in s : TRUE

LEMMA SomeIn == ASSUME NEW s, s # {} PROVE Some(s) \in s
  BY DEF Some

Only(v, s, n) == [i \in 1 .. n |-> IF i \in s THEN v[i] ELSE 0]
AddsUp(f, v, S, b) ==
  /\ f[{}] = b
  /\ \A s \in SUBSET S : s # {} /\ f[s \ {Some(s)}] \in Int => f[s] = v[Some(s)] + f[s \ {Some(s)}]
IntsOn(v, s) == \A i \in s : v[i] \in Int
SumOver(v, s, n) == SumTo(Only(v, s, n), n)

LEMMA SumOverNone == ASSUME NEW v, NEW n \in Nat PROVE SumOver(v, {}, n) = 0
  <1> DEFINE w == Only(v, {}, n)
  <1>1. PICK T : T = {m \in Nat : m <= n => SumTo(w, m) = 0}
    OBVIOUS
  <1>2. \A i \in 1 .. n : w[i] = 0
    BY DEF Only
  <1> HIDE DEF w
  <1>3. 0 \in T
    BY <1>1, SumZero
  <1>4. ASSUME NEW m \in Nat, m \in T PROVE m + 1 \in T
    <2> SUFFICES ASSUME m + 1 <= n PROVE SumTo(w, m + 1) = 0
      BY <1>1
    <2>1. Numbers(w, m + 1)
      BY <1>2 DEF Numbers
    <2>2. SumTo(w, m + 1) = SumTo(w, m) + w[m + 1]
      BY <2>1, SumStep
    <2>3. SumTo(w, m) = 0
      BY <1>1, <1>4
    <2> QED BY <2>2, <2>3, <1>2
  <1>5. n \in T
    BY <1>3, <1>4, AllNumbers
  <1>6. SumTo(w, n) = 0
    BY <1>1, <1>5
  <1> QED BY <1>6 DEF SumOver, w

LEMMA SumOverRemove ==
  ASSUME NEW v, NEW n \in Nat, NEW s, NEW c \in s, c \in 1 .. n, IntsOn(v, s \cap (1 .. n))
  PROVE  SumOver(v, s, n) = v[c] + SumOver(v, s \ {c}, n)
  <1> DEFINE w == Only(v, s, n)
           u == Only(v, s \ {c}, n)
  <1>1. \A i \in s \cap (1 .. n) : v[i] \in Int
    BY DEF IntsOn
  <1>2. \A i \in 1 .. n : w[i] = IF i \in s THEN v[i] ELSE 0
    BY DEF Only
  <1>3. \A i \in 1 .. n : u[i] = IF i \in s /\ i # c THEN v[i] ELSE 0
    BY DEF Only
  <1> HIDE DEF w, u
  <1>4. Numbers(w, n) /\ Numbers(u, n)
    BY <1>1, <1>2, <1>3 DEF Numbers
  <1>5. \A i \in 1 .. n : i # c => w[i] = u[i]
    BY <1>2, <1>3
  <1>6. SumTo(u, n) = SumTo(w, n) - w[c] + u[c]
    BY <1>4, <1>5, SumChange
  <1>7. w[c] = v[c] /\ u[c] = 0 /\ v[c] \in Int
    BY <1>1, <1>2, <1>3
  <1>8. SumTo(w, n) \in Int /\ SumTo(u, n) \in Int
    BY <1>4, SumType
  <1>9. SumTo(w, n) = v[c] + SumTo(u, n)
    BY <1>6, <1>7, <1>8
  <1> QED BY <1>9 DEF SumOver, w, u

LEMMA SumOverType ==
  ASSUME NEW v, NEW n \in Nat, NEW s, IntsOn(v, s \cap (1 .. n))
  PROVE  SumOver(v, s, n) \in Int
  <1> DEFINE w == Only(v, s, n)
  <1>1. \A i \in s \cap (1 .. n) : v[i] \in Int
    BY DEF IntsOn
  <1>2. \A i \in 1 .. n : w[i] = IF i \in s THEN v[i] ELSE 0
    BY DEF Only
  <1> HIDE DEF w
  <1>3. Numbers(w, n)
    BY <1>1, <1>2 DEF Numbers
  <1>4. SumTo(w, n) \in Int
    BY <1>3, SumType
  <1> QED BY <1>4 DEF SumOver, w

LEMMA FoldExists ==
  ASSUME NEW v, NEW n \in Nat, NEW S \in SUBSET (1 .. n), IntsOn(v, S), NEW b \in Int
  PROVE  \E f \in [SUBSET S -> Int] : AddsUp(f, v, S, b)
  <1>1. PICK g : g = [s \in SUBSET S |-> b + SumOver(v, s, n)]
    OBVIOUS
  <1>2. ASSUME NEW s \in SUBSET S PROVE SumOver(v, s, n) \in Int
    <2>1. IntsOn(v, s \cap (1 .. n))
      BY DEF IntsOn
    <2> QED BY <2>1, SumOverType
  <1>3. ASSUME NEW s \in SUBSET S, s # {} PROVE g[s] = v[Some(s)] + g[s \ {Some(s)}]
    <2>1. PICK c : c = Some(s)
      OBVIOUS
    <2>2. c \in s
      BY <1>3, <2>1, SomeIn
    <2>3. c \in 1 .. n /\ IntsOn(v, s \cap (1 .. n)) /\ v[c] \in Int
      BY <2>2 DEF IntsOn
    <2>4. SumOver(v, s, n) = v[c] + SumOver(v, s \ {c}, n)
      BY <2>2, <2>3, SumOverRemove
    <2>5. PICK t \in SUBSET S : t = s \ {c}
      OBVIOUS
    <2>6. SumOver(v, s, n) \in Int /\ SumOver(v, t, n) \in Int
      BY <1>2
    <2>7. g[s] = b + SumOver(v, s, n) /\ g[t] = b + SumOver(v, t, n)
      BY <1>1
    <2> QED BY <2>1, <2>3, <2>4, <2>5, <2>6, <2>7
  <1>4. g[{}] = b
    BY <1>1, SumOverNone
  <1>5. g \in [SUBSET S -> Int]
    BY <1>1, <1>2
  <1>6. AddsUp(g, v, S, b)
    BY <1>3, <1>4 DEF AddsUp
  <1> QED BY <1>5, <1>6

LEMMA FoldIsSum ==
  ASSUME NEW v, NEW n \in Nat, NEW S \in SUBSET (1 .. n), IntsOn(v, S), NEW b \in Int, NEW f, AddsUp(f, v, S, b)
  PROVE  f[S] = b + SumOver(v, S, n)
  <1>1. PICK T : T = {m \in Nat : \A s \in SUBSET S : Cardinality(s) = m => f[s] = b + SumOver(v, s, n)}
    OBVIOUS
  <1>2. IsFiniteSet(1 .. n)
    BY FS_Interval
  <1>3. IsFiniteSet(S)
    BY <1>2, FS_Subset
  <1>4. ASSUME NEW s \in SUBSET S PROVE SumOver(v, s, n) \in Int
    <2>1. IntsOn(v, s \cap (1 .. n))
      BY DEF IntsOn
    <2> QED BY <2>1, SumOverType
  <1>5. 0 \in T
    <2>1. ASSUME NEW s \in SUBSET S, Cardinality(s) = 0 PROVE f[s] = b + SumOver(v, s, n)
      <3>1. IsFiniteSet(s)
        BY <1>3, FS_Subset
      <3>2. s = {}
        BY <2>1, <3>1, FS_EmptySet
      <3>3. f[s] = b
        BY <3>2 DEF AddsUp
      <3>4. SumOver(v, {}, n) = 0
        BY SumOverNone
      <3> QED BY <3>2, <3>3, <3>4
    <2> QED BY <1>1, <2>1
  <1>6. ASSUME NEW m \in Nat, m \in T PROVE m + 1 \in T
    <2>1. ASSUME NEW s \in SUBSET S, Cardinality(s) = m + 1 PROVE f[s] = b + SumOver(v, s, n)
      <3>1. IsFiniteSet(s)
        BY <1>3, FS_Subset
      <3>2. s # {}
        BY <2>1, <3>1, FS_EmptySet
      <3>3. PICK c : c = Some(s)
        OBVIOUS
      <3>4. c \in s
        BY <3>2, <3>3, SomeIn
      <3>5. Cardinality(s \ {c}) = Cardinality(s) - 1
        BY <3>1, <3>4, FS_RemoveElement
      <3>6. Cardinality(s \ {c}) = m
        BY <3>5, <2>1
      <3>7. PICK t \in SUBSET S : t = s \ {c}
        OBVIOUS
      <3>8. f[t] = b + SumOver(v, t, n)
        BY <1>1, <1>6, <3>6, <3>7
      <3>9. SumOver(v, t, n) \in Int
        BY <1>4
      <3>10. f[t] \in Int
        BY <3>8, <3>9
      <3>11. f[s] = v[c] + f[t]
        BY <3>2, <3>3, <3>7, <3>10 DEF AddsUp
      <3>12. c \in 1 .. n /\ IntsOn(v, s \cap (1 .. n)) /\ v[c] \in Int
        BY <3>4 DEF IntsOn
      <3>13. SumOver(v, s, n) = v[c] + SumOver(v, t, n)
        BY <3>4, <3>12, <3>7, SumOverRemove
      <3> QED BY <3>8, <3>11, <3>12, <3>13, <3>9
    <2> QED BY <1>1, <2>1
  <1>7. Cardinality(S) \in Nat
    BY <1>3, FS_CardinalityType
  <1>8. Cardinality(S) \in T
    BY <1>5, <1>6, <1>7, AllNumbers
  <1> QED BY <1>1, <1>8

(* A sum over all indices is the sum of them.                              *)
LEMMA SumOverAll ==
  ASSUME NEW v, NEW n \in Nat, Numbers(v, n)
  PROVE  SumOver(v, 1 .. n, n) = SumTo(v, n)
  <1> DEFINE w == Only(v, 1 .. n, n)
  <1>1. Agree(v, w, n)
    BY DEF Only, Agree
  <1> HIDE DEF w
  <1>2. SumTo(v, n) = SumTo(w, n)
    BY <1>1, SumSame
  <1> QED BY <1>2 DEF SumOver, w

(* Sums are compared index by index.                                       *)
LEMMA SumMinus ==
  ASSUME NEW u, NEW v, NEW w, NEW n \in Nat, Numbers(v, n), Numbers(w, n),
         \A i \in 1 .. n : u[i] = v[i] - w[i]
  PROVE  SumTo(u, n) = SumTo(v, n) - SumTo(w, n)
  <1>1. PICK T : T = {m \in Nat : m <= n => SumTo(u, m) = SumTo(v, m) - SumTo(w, m)}
    OBVIOUS
  <1>2. \A i \in 1 .. n : v[i] \in Int /\ w[i] \in Int /\ u[i] \in Int
    BY DEF Numbers
  <1>3. 0 \in T
    BY <1>1, SumZero
  <1>4. ASSUME NEW m \in Nat, m \in T PROVE m + 1 \in T
    <2> SUFFICES ASSUME m + 1 <= n PROVE SumTo(u, m + 1) = SumTo(v, m + 1) - SumTo(w, m + 1)
      BY <1>1
    <2>1. Numbers(u, m + 1) /\ Numbers(v, m + 1) /\ Numbers(w, m + 1)
      BY <1>2 DEF Numbers
    <2>2. Numbers(u, m) /\ Numbers(v, m) /\ Numbers(w, m)
      BY <1>2 DEF Numbers
    <2>3. SumTo(u, m) = SumTo(v, m) - SumTo(w, m)
      BY <1>1, <1>4
    <2>4. SumTo(v, m) \in Int /\ SumTo(w, m) \in Int
      BY <2>2, SumType
    <2>5. u[m + 1] = v[m + 1] - w[m + 1] /\ v[m + 1] \in Int /\ w[m + 1] \in Int
      BY <1>2
    <2>6. SumTo(u, m + 1) = SumTo(u, m) + u[m + 1]
      BY <2>1, SumStep
    <2>7. SumTo(v, m + 1) = SumTo(v, m) + v[m + 1] /\ SumTo(w, m + 1) = SumTo(w, m) + w[m + 1]
      BY <2>1, SumStep
    <2> QED BY <2>3, <2>4, <2>5, <2>6, <2>7
  <1>5. n \in T
    BY <1>3, <1>4, AllNumbers
  <1> QED BY <1>1, <1>5

LEMMA SumOverSame ==
  ASSUME NEW v, NEW w, NEW n \in Nat, NEW s, IntsOn(v, s), \A i \in s : v[i] = w[i]
  PROVE  SumOver(v, s, n) = SumOver(w, s, n)
  <1>1. PICK x : x = Only(v, s, n)
    OBVIOUS
  <1>2. PICK y : y = Only(w, s, n)
    OBVIOUS
  <1>3. Agree(x, y, n) /\ Numbers(x, n)
    BY <1>1, <1>2 DEF Only, Agree, Numbers, IntsOn
  <1>4. SumTo(x, n) = SumTo(y, n)
    BY <1>3, SumSame
  <1> QED BY <1>1, <1>2, <1>4 DEF SumOver

(* The numbers of D become zero.                                           *)
LEMMA SumOverZeroed ==
  ASSUME NEW v, NEW w, NEW n \in Nat, NEW s, NEW D \in SUBSET s, IntsOn(v, s),
         \A i \in s : w[i] = IF i \in D THEN 0 ELSE v[i]
  PROVE  SumOver(w, s, n) = SumOver(v, s, n) - SumOver(v, D, n)
  <1>1. PICK x : x = Only(v, s, n)
    OBVIOUS
  <1>2. PICK y : y = Only(v, D, n)
    OBVIOUS
  <1>3. PICK z : z = Only(w, s, n)
    OBVIOUS
  <1>4. Numbers(x, n) /\ Numbers(y, n)
    BY <1>1, <1>2 DEF Only, Numbers, IntsOn
  <1>5. \A i \in 1 .. n : z[i] = x[i] - y[i]
    BY <1>1, <1>2, <1>3 DEF Only, IntsOn
  <1>6. SumTo(z, n) = SumTo(x, n) - SumTo(y, n)
    BY <1>4, <1>5, SumMinus
  <1> QED BY <1>1, <1>2, <1>3, <1>6 DEF SumOver

(* What buffers of these sizes take, as a sum.                             *)
UsageFold(f, sizes, S) ==
  f = [s \in SUBSET S |-> IF s = {} THEN 0 ELSE LET x == CHOOSE x \in s : TRUE IN Usage(sizes[x]) + f[s \ {x}]]

LEMMA UsageIsSum ==
  ASSUME NEW sizes \in Seq(Nat)
  PROVE  UsageOf(sizes) = SumTo([i \in 1 .. Len(sizes) |-> Usage(sizes[i])], Len(sizes))
  <1>1. PICK n \in Nat : n = Len(sizes)
    OBVIOUS
  <1>2. PICK S : S = 1 .. n
    OBVIOUS
  <1>3. PICK v : v = [i \in S |-> Usage(sizes[i])]
    OBVIOUS
  <1>4. DOMAIN sizes = S
    BY <1>1, <1>2
  <1>5. IntsOn(v, S)
    BY <1>1, <1>2, <1>3, QueueAssumption DEF IntsOn, Usage
  <1>6. PICK f : f = CHOOSE g : UsageFold(g, sizes, S)
    OBVIOUS
  <1>7. PICK b \in Int : b = 0
    OBVIOUS
  <1>8. UsageFold(f, sizes, S)
    <2>1. PICK g \in [SUBSET S -> Int] : AddsUp(g, v, S, b)
      BY <1>2, <1>5, FoldExists
    <2>2. ASSUME NEW s \in SUBSET S, s # {} PROVE g[s] = Usage(sizes[Some(s)]) + g[s \ {Some(s)}]
      <3>1. Some(s) \in s
        BY <2>2, SomeIn
      <3>2. PICK t \in SUBSET S : t = s \ {Some(s)}
        OBVIOUS
      <3>3. g[t] \in Int
        BY <2>1
      <3> QED BY <1>3, <2>1, <2>2, <3>1, <3>2, <3>3 DEF AddsUp
    <2>3. g[{}] = 0
      BY <1>7, <2>1 DEF AddsUp
    <2>4. UsageFold(g, sizes, S)
      BY <2>1, <2>2, <2>3 DEF Some, UsageFold
    <2> QED BY <1>6, <2>4
  <1>9. UsageOf(sizes) = f[S]
  BY <1>4, <1>6 DEF UsageFold, UsageOf, FoldSeq, FoldFunction, FoldFunctionOnSet, MapThenFoldSet
  <1>10. AddsUp(f, v, S, b)
    <2>1. ASSUME NEW s \in SUBSET S, s # {} PROVE f[s] = v[Some(s)] + f[s \ {Some(s)}]
      <3>1. Some(s) \in S
        BY <2>1, SomeIn
      <3>2. f[s] = Usage(sizes[Some(s)]) + f[s \ {Some(s)}]
        BY <1>8, <2>1 DEF Some, UsageFold
      <3> QED BY <1>3, <3>1, <3>2
    <2>2. f[{}] = 0
      BY <1>8 DEF UsageFold
    <2> QED BY <1>7, <2>1, <2>2 DEF AddsUp
  <1>11. f[S] = b + SumOver(v, S, n)
    BY <1>2, <1>5, <1>10, FoldIsSum
  <1>12. Numbers(v, n)
    BY <1>2, <1>5 DEF Numbers, IntsOn
  <1>13. SumOver(v, S, n) = SumTo(v, n)
    BY <1>2, <1>12, SumOverAll
  <1>14. SumTo(v, n) \in Int
    BY <1>12, SumType
  <1>15. UsageOf(sizes) = SumTo(v, n)
    BY <1>9, <1>11, <1>13, <1>14, <1>7
  <1> QED BY <1>1, <1>2, <1>3, <1>15

-----------------------------------------------------------------------------
(* What buffers of these sizes cost, as they are added, taken and dropped. *)
LEMMA UsageNat == ASSUME NEW s \in Seq(Nat) PROVE UsageOf(s) \in Nat
  <1>1. PICK n \in Nat : n = Len(s)
    OBVIOUS
  <1>2. PICK v : v = [i \in 1 .. Len(s) |-> Usage(s[i])]
    OBVIOUS
  <1>3. \A i \in 1 .. n : v[i] \in Nat
    BY <1>1, <1>2, QueueAssumption DEF Usage
  <1>4. SumTo(v, n) \in Nat
    BY <1>3, SumNat
  <1> QED BY <1>1, <1>2, <1>4, UsageIsSum

LEMMA UsageNone == UsageOf(<<>>) = 0
  <1>1. PICK N : N = Nat
    OBVIOUS
  <1>2. <<>> \in Seq(N)
    OBVIOUS
  <1>3. PICK s \in Seq(Nat) : s = <<>>
    BY <1>1, <1>2
  <1>4. PICK v : v = [i \in 1 .. Len(s) |-> Usage(s[i])]
    OBVIOUS
  <1>5. UsageOf(s) = SumTo(v, Len(s))
    BY <1>4, UsageIsSum
  <1>6. Len(s) = 0
    BY <1>3
  <1> QED BY <1>3, <1>5, <1>6, SumZero

LEMMA UsageAppended ==
  ASSUME NEW s \in Seq(Nat), NEW x \in Nat
  PROVE  UsageOf(Append(s, x)) = UsageOf(s) + Usage(x)
  <1>1. PICK N : N = Nat
    OBVIOUS
  <1>2. Append(s, x) \in Seq(N)
    BY <1>1
  <1>3. PICK t \in Seq(Nat) : t = Append(s, x)
    BY <1>1, <1>2
  <1>4. PICK n \in Nat : n = Len(s)
    OBVIOUS
  <1>5. Len(t) = n + 1 /\ t[n + 1] = x /\ \A i \in 1 .. n : t[i] = s[i]
    BY <1>3, <1>4
  <1>6. PICK v : v = [i \in 1 .. Len(s) |-> Usage(s[i])]
    OBVIOUS
  <1>7. PICK w : w = [i \in 1 .. Len(t) |-> Usage(t[i])]
    OBVIOUS
  <1>8. UsageOf(s) = SumTo(v, n)
    BY <1>4, <1>6, UsageIsSum
  <1>9. UsageOf(t) = SumTo(w, n + 1)
    BY <1>5, <1>7, UsageIsSum
  <1>10. Numbers(w, n + 1)
    BY <1>5, <1>7, QueueAssumption DEF Numbers, Usage
  <1>11. SumTo(w, n + 1) = SumTo(w, n) + w[n + 1]
    BY <1>10, SumStep
  <1>12. Agree(v, w, n)
    BY <1>4, <1>5, <1>6, <1>7 DEF Agree
  <1>13. Numbers(v, n)
    BY <1>4, <1>6, QueueAssumption DEF Numbers, Usage
  <1>14. SumTo(v, n) = SumTo(w, n)
    BY <1>12, <1>13, SumSame
  <1>15. w[n + 1] = Usage(x)
    BY <1>5, <1>7
  <1> QED BY <1>3, <1>8, <1>9, <1>11, <1>14, <1>15

LEMMA UsageOne == ASSUME NEW x \in Nat PROVE UsageOf(<<x>>) = Usage(x)
  <1>1. PICK N : N = Nat
    OBVIOUS
  <1>2. <<>> \in Seq(N)
    OBVIOUS
  <1>3. PICK s \in Seq(Nat) : s = <<>>
    BY <1>1, <1>2
  <1>4. UsageOf(Append(s, x)) = UsageOf(s) + Usage(x)
    BY UsageAppended
  <1>5. Append(s, x) = <<x>>
    BY <1>3
  <1>6. UsageOf(s) = 0
    BY <1>3, UsageNone
  <1> QED BY <1>4, <1>5, <1>6, QueueAssumption DEF Usage

LEMMA UsageTail ==
  ASSUME NEW s \in Seq(Nat), s # <<>>
  PROVE  UsageOf(s) = Usage(Head(s)) + UsageOf(Tail(s))
  <1>1. PICK N : N = Nat
    OBVIOUS
  <1>2. Tail(s) \in Seq(N)
    BY <1>1
  <1>3. PICK t \in Seq(Nat) : t = Tail(s)
    BY <1>1, <1>2
  <1>4. PICK n \in Nat : n = Len(t)
    OBVIOUS
  <1>5. Len(s) = n + 1 /\ s[1] = Head(s) /\ \A i \in 1 .. n : t[i] = s[i + 1]
    BY <1>3, <1>4
  <1>6. PICK v : v = [i \in 1 .. Len(s) |-> Usage(s[i])]
    OBVIOUS
  <1>7. PICK w : w = [i \in 1 .. Len(t) |-> Usage(t[i])]
    OBVIOUS
  <1>8. UsageOf(s) = SumTo(v, n + 1)
    BY <1>5, <1>6, UsageIsSum
  <1>9. UsageOf(t) = SumTo(w, n)
    BY <1>4, <1>7, UsageIsSum
  <1>10. Numbers(v, n + 1)
    BY <1>5, <1>6, QueueAssumption DEF Numbers, Usage
  <1>11. \A i \in 1 .. n : w[i] = v[i + 1]
    BY <1>4, <1>5, <1>6, <1>7
  <1>12. SumTo(v, n + 1) = v[1] + SumTo(w, n)
    BY <1>10, <1>11, SumCons
  <1>13. v[1] = Usage(Head(s))
    BY <1>5, <1>6
  <1> QED BY <1>3, <1>8, <1>9, <1>12, <1>13

LEMMA UsageFront ==
  ASSUME NEW s \in Seq(Nat), Len(s) > 0
  PROVE  UsageOf(s) = UsageOf(Front(s)) + Usage(Last(s))
  <1>1. PICK t \in Seq(Nat) : t = Front(s)
    BY FrontOfCache
  <1>2. PICK x \in Nat : x = Last(s)
    BY FrontOfCache
  <1>3. Len(t) = Len(s) - 1 /\ \A i \in DOMAIN t : t[i] = s[i]
    BY <1>1, FrontOfCache
  <1>4. s = Append(t, x)
    <2>1. Len(Append(t, x)) = Len(s) /\ Append(t, x) \in Seq(Nat)
      BY <1>3
    <2>2. ASSUME NEW i \in 1 .. Len(s) PROVE Append(t, x)[i] = s[i]
      <3>1. CASE i = Len(s)
        <4>1. Append(t, x)[Len(t) + 1] = x
          OBVIOUS
        <4>2. s[Len(s)] = x
          BY <1>2 DEF Last
        <4> QED BY <1>3, <3>1, <4>1, <4>2
      <3>2. CASE i # Len(s)
        <4>1. i \in 1 .. Len(t)
          BY <1>3, <3>2
        <4>2. Append(t, x)[i] = t[i]
          BY <4>1
        <4>3. i \in DOMAIN t
          BY <4>1
        <4>4. t[i] = s[i]
          BY <1>3, <4>3
        <4> QED BY <4>2, <4>4
      <3> QED BY <3>1, <3>2
    <2> QED BY <2>1, <2>2, SeqEqual
  <1>5. UsageOf(Append(t, x)) = UsageOf(t) + Usage(x)
    BY UsageAppended
  <1> QED BY <1>1, <1>2, <1>4, <1>5

-----------------------------------------------------------------------------
(* The sizes of the queued buffers.                                        *)
SizesOf(active) == [i \in 1 .. Len(active) |-> active[i].size]
Sized(B) == \A b \in B : b.size \in Nat

LEMMA SizesType == ASSUME NEW B, Sized(B), NEW a \in Seq(B) PROVE SizesOf(a) \in Seq(Nat)
  <1>1. \A i \in 1 .. Len(a) : a[i].size \in Nat
    BY DEF Sized
  <1> QED BY <1>1 DEF SizesOf

LEMMA SizesAppended ==
  ASSUME NEW B, Sized(B), NEW a \in Seq(B), NEW b \in B
  PROVE  SizesOf(Append(a, b)) = Append(SizesOf(a), b.size)
  <1>1. PICK c : c = Append(a, b)
    OBVIOUS
  <1>2. c \in Seq(B) /\ Len(c) = Len(a) + 1 /\ c[Len(a) + 1] = b /\ \A i \in 1 .. Len(a) : c[i] = a[i]
    BY <1>1
  <1>3. SizesOf(c) \in Seq(Nat) /\ SizesOf(a) \in Seq(Nat) /\ b.size \in Nat
    BY <1>2, SizesType DEF Sized
  <1>4. Len(SizesOf(a)) = Len(a) /\ Len(SizesOf(c)) = Len(c)
    BY <1>2 DEF SizesOf
  <1>5. ASSUME NEW i \in 1 .. Len(c) PROVE SizesOf(c)[i] = Append(SizesOf(a), b.size)[i]
    <2>1. SizesOf(c)[i] = c[i].size
      BY DEF SizesOf
    <2>2. CASE i = Len(a) + 1
      BY <1>2, <1>3, <1>4, <2>1, <2>2
    <2>3. CASE i \in 1 .. Len(a)
      <3>1. SizesOf(a)[i] = a[i].size
        BY <2>3 DEF SizesOf
      <3>2. Append(SizesOf(a), b.size)[i] = SizesOf(a)[i]
        BY <1>3, <1>4, <2>3
      <3> QED BY <1>2, <2>1, <2>3, <3>1, <3>2
    <2>4. i = Len(a) + 1 \/ i \in 1 .. Len(a)
      BY <1>2
    <2> QED BY <2>2, <2>3, <2>4
  <1>6. Append(SizesOf(a), b.size) \in Seq(Nat) /\ Len(Append(SizesOf(a), b.size)) = Len(c)
    BY <1>2, <1>3, <1>4
  <1>7. SizesOf(c) = Append(SizesOf(a), b.size)
    BY <1>3, <1>4, <1>5, <1>6, SeqEqual
  <1> QED BY <1>1, <1>7

LEMMA SizesTail ==
  ASSUME NEW B, Sized(B), NEW a \in Seq(B), a # <<>>
  PROVE  SizesOf(a) # <<>> /\ Head(SizesOf(a)) = Head(a).size /\ SizesOf(Tail(a)) = Tail(SizesOf(a))
  <1>1. Tail(a) \in Seq(B)
    OBVIOUS
  <1>2. PICK c \in Seq(B) : c = Tail(a)
    BY <1>1
  <1>3. Len(a) = Len(c) + 1 /\ a[1] = Head(a) /\ \A i \in 1 .. Len(c) : c[i] = a[i + 1]
    BY <1>2
  <1>4. SizesOf(c) \in Seq(Nat) /\ SizesOf(a) \in Seq(Nat)
    BY SizesType
  <1>5. Len(SizesOf(a)) = Len(a) /\ Len(SizesOf(c)) = Len(c)
    BY DEF SizesOf
  <1>6. SizesOf(a) # <<>> /\ Head(SizesOf(a)) = a[1].size
    BY <1>3, <1>4, <1>5 DEF SizesOf
  <1>7. Tail(SizesOf(a)) \in Seq(Nat) /\ Len(Tail(SizesOf(a))) = Len(c)
    BY <1>3, <1>4, <1>5
  <1>8. ASSUME NEW i \in 1 .. Len(c) PROVE SizesOf(c)[i] = Tail(SizesOf(a))[i]
    <2>1. SizesOf(c)[i] = c[i].size /\ SizesOf(a)[i + 1] = a[i + 1].size
      BY <1>3 DEF SizesOf
    <2>2. Tail(SizesOf(a))[i] = SizesOf(a)[i + 1]
      BY <1>3, <1>4, <1>5
    <2> QED BY <1>3, <2>1, <2>2
  <1>9. SizesOf(c) = Tail(SizesOf(a))
    BY <1>4, <1>5, <1>7, <1>8, SeqEqual
  <1> QED BY <1>2, <1>3, <1>6, <1>9

(* The memory in use is that of the queued buffers, and what is allocated  *)
(* is that and the cache: each operation keeps both counters exact.        *)
Counted(r) ==
  /\ r.mem_in_use = UsageOf(SizesOf(r.active))
  /\ r.mem_allocated = r.mem_in_use + UsageOf(r.cache)

LEMMA CountsAreNat ==
  ASSUME NEW B, Sized(B), NEW r, IsQueue(r, B, Nat), Counted(r)
  PROVE  r.mem_in_use \in Nat /\ UsageOf(r.cache) \in Nat /\ r.mem_allocated \in Nat
  <1>1. PICK s \in Seq(Nat) : s = SizesOf(r.active)
    BY SizesType DEF IsQueue
  <1>2. r.cache \in Seq(Nat)
    BY DEF IsQueue
  <1>3. UsageOf(s) \in Nat /\ UsageOf(r.cache) \in Nat
    BY <1>2, UsageNat
  <1> QED BY <1>1, <1>3 DEF Counted

LEMMA EmptyCounted == Counted(Empty)
  <1>1. SizesOf(<<>>) = <<>>
    BY DEF SizesOf
  <1> QED BY <1>1, UsageNone DEF Counted, Empty

LEMMA ClearCounted ==
  ASSUME NEW B, Sized(B), NEW r, IsQueue(r, B, Nat), Counted(r)
  PROVE  Counted(ClearCache(r)) /\ ClearCache(r).mem_allocated = r.mem_in_use
  <1>1. PICK k : k = ClearCache(r)
    OBVIOUS
  <1>2. /\ k.active = r.active /\ k.mem_in_use = r.mem_in_use /\ k.cache = <<>>
        /\ k.mem_allocated = r.mem_allocated - UsageOf(r.cache)
    BY <1>1, ClearedCache
  <1>3. r.mem_in_use \in Nat /\ UsageOf(r.cache) \in Nat
    BY CountsAreNat
  <1> QED BY <1>1, <1>2, <1>3, UsageNone DEF Counted

LEMMA TrimCounted ==
  ASSUME NEW B, Sized(B), NEW r, IsQueue(r, B, Nat), Counted(r), NEW size \in Nat
  PROVE  LET k == ClearCacheKeep(r, size)
         IN /\ Counted(k)
            /\ \/ k.cache = <<>> /\ k.mem_allocated = r.mem_in_use
               \/ k.cache = <<size>> /\ k.mem_allocated = r.mem_in_use + Usage(size)
  <1>1. PICK k : k = ClearCacheKeep(r, size)
    OBVIOUS
  <1>2. /\ k.active = r.active /\ k.mem_in_use = r.mem_in_use
        /\ \/ k.cache = <<>> /\ k.mem_allocated = r.mem_allocated - UsageOf(r.cache)
           \/ k.cache = <<size>> /\ k.mem_allocated = r.mem_allocated - UsageOf(r.cache) + Usage(size)
    BY <1>1, TrimmedCache
  <1>3. r.mem_in_use \in Nat /\ UsageOf(r.cache) \in Nat /\ Usage(size) \in Nat
    BY CountsAreNat, QueueAssumption DEF Usage
  <1>4. UsageOf(<<>>) = 0 /\ UsageOf(<<size>>) = Usage(size)
    BY UsageNone, UsageOne
  <1>5. r.mem_in_use = UsageOf(SizesOf(r.active)) /\ r.mem_allocated = r.mem_in_use + UsageOf(r.cache)
    BY DEF Counted
  <1>6. k.mem_in_use = UsageOf(SizesOf(k.active))
    BY <1>2, <1>5
  <1>7. /\ k.mem_allocated = k.mem_in_use + UsageOf(k.cache)
        /\ \/ k.cache = <<>> /\ k.mem_allocated = r.mem_in_use
           \/ k.cache = <<size>> /\ k.mem_allocated = r.mem_in_use + Usage(size)
    <2>1. CASE k.cache = <<>> /\ k.mem_allocated = r.mem_allocated - UsageOf(r.cache)
      BY <1>2, <1>3, <1>4, <1>5, <2>1
    <2>2. CASE k.cache = <<size>> /\ k.mem_allocated = r.mem_allocated - UsageOf(r.cache) + Usage(size)
      BY <1>2, <1>3, <1>4, <1>5, <2>2
    <2> QED BY <1>2, <2>1, <2>2
  <1> QED BY <1>1, <1>6, <1>7 DEF Counted

LEMMA PreallocCounted ==
  ASSUME NEW B, Sized(B), NEW r, IsQueue(r, B, Nat), Counted(r), NEW size \in Nat
  PROVE  LET k == PreallocBuf(r, size)
         IN /\ Counted(k)
            /\ \/ Reusable(r, size) /\ k.mem_allocated = r.mem_allocated
               \/ k.mem_allocated = r.mem_in_use + Usage(size)
  <1>1. PICK k : k = PreallocBuf(r, size)
    OBVIOUS
  <1>2. /\ k.active = r.active /\ k.mem_in_use = r.mem_in_use
        /\ \/ k.cache = <<size>> /\ k.mem_allocated = r.mem_allocated - UsageOf(r.cache) + Usage(size)
           \/ k.cache = r.cache /\ Reusable(r, size) /\ k.mem_allocated = r.mem_allocated
    BY <1>1, Preallocated
  <1>3. r.mem_in_use \in Nat /\ UsageOf(r.cache) \in Nat /\ Usage(size) \in Nat
    BY CountsAreNat, QueueAssumption DEF Usage
  <1>4. UsageOf(<<size>>) = Usage(size)
    BY UsageOne
  <1>5. r.mem_in_use = UsageOf(SizesOf(r.active)) /\ r.mem_allocated = r.mem_in_use + UsageOf(r.cache)
    BY DEF Counted
  <1>6. k.mem_in_use = UsageOf(SizesOf(k.active))
    BY <1>2, <1>5
  <1>7. /\ k.mem_allocated = k.mem_in_use + UsageOf(k.cache)
        /\ \/ Reusable(r, size) /\ k.mem_allocated = r.mem_allocated
           \/ k.mem_allocated = r.mem_in_use + Usage(size)
    <2>1. CASE k.cache = r.cache /\ Reusable(r, size) /\ k.mem_allocated = r.mem_allocated
      BY <1>2, <1>5, <2>1
    <2>2. CASE k.cache = <<size>> /\ k.mem_allocated = r.mem_allocated - UsageOf(r.cache) + Usage(size)
      BY <1>2, <1>3, <1>4, <1>5, <2>2
    <2> QED BY <1>2, <2>1, <2>2
  <1> QED BY <1>1, <1>6, <1>7 DEF Counted

LEMMA GetCounted ==
  ASSUME NEW B, Sized(B), NEW r, IsQueue(r, B, Nat), Counted(r), Len(r.cache) > 0, NEW job, NEW worker,
         FreshBuf(job, Last(r.cache), worker) \in B
  PROVE  Counted(GetBuf(r, job, worker))
  <1>1. PICK k : k = GetBuf(r, job, worker)
    OBVIOUS
  <1>2. PICK size \in Nat : size = Last(r.cache)
    BY FrontOfCache DEF IsQueue
  <1>3. PICK b \in B : b = FreshBuf(job, size, worker)
    BY <1>2
  <1>4. /\ k.active = Append(r.active, b) /\ k.cache = Front(r.cache)
        /\ k.mem_in_use = r.mem_in_use + Usage(size) /\ k.mem_allocated = r.mem_allocated
    BY <1>1, <1>2, <1>3, Taken
  <1>5. r.active \in Seq(B) /\ r.cache \in Seq(Nat)
    BY DEF IsQueue
  <1>6. PICK s \in Seq(Nat) : s = SizesOf(r.active)
    BY <1>5, SizesType
  <1>7. SizesOf(k.active) = Append(s, size)
    <2>1. b.size = size
      BY <1>3 DEF FreshBuf
    <2> QED BY <1>4, <1>5, <1>6, <2>1, SizesAppended
  <1>8. UsageOf(Append(s, size)) = UsageOf(s) + Usage(size)
    BY UsageAppended
  <1>9. UsageOf(r.cache) = UsageOf(k.cache) + Usage(size)
    BY <1>2, <1>4, <1>5, UsageFront
  <1>10. k.cache \in Seq(Nat)
    BY <1>4, <1>5, FrontOfCache
  <1>11. UsageOf(k.cache) \in Nat /\ UsageOf(s) \in Nat /\ Usage(size) \in Nat
    BY <1>10, UsageNat, QueueAssumption DEF Usage
  <1>12. r.mem_in_use = UsageOf(s) /\ r.mem_allocated = r.mem_in_use + UsageOf(r.cache)
    BY <1>6 DEF Counted
  <1>13. k.mem_in_use = UsageOf(SizesOf(k.active))
    BY <1>4, <1>7, <1>8, <1>12
  <1>14. k.mem_allocated = k.mem_in_use + UsageOf(k.cache)
    BY <1>4, <1>9, <1>11, <1>12
  <1> QED BY <1>1, <1>13, <1>14 DEF Counted

LEMMA ReadCounted ==
  ASSUME NEW B, Sized(B), NEW r, IsQueue(r, B, Nat), Counted(r), NEW space
  PROVE  LET k == Read(r, space)
         IN Counted(k) /\ k.mem_allocated <= r.mem_allocated /\ k.mem_in_use <= r.mem_in_use
  <1>1. PICK k : k = Read(r, space)
    OBVIOUS
  <1>2. r.mem_in_use \in Nat /\ UsageOf(r.cache) \in Nat /\ r.mem_allocated \in Nat
    BY CountsAreNat
  <1>3. CASE ~Drains(r, space)
    <2>1. k.active = r.active /\ k.cache = r.cache /\ k.mem_in_use = r.mem_in_use /\ k.mem_allocated = r.mem_allocated
      BY <1>1, <1>3, ReadOn
    <2> QED BY <1>1, <1>2, <2>1 DEF Counted
  <1>4. CASE Drains(r, space)
    <2>1. r.active \in Seq(B) /\ r.active # <<>> /\ r.cache \in Seq(Nat)
      BY <1>4 DEF Drains, IsQueue
    <2>2. Head(r.active) \in B
      BY <2>1, HeadTailProperties
    <2>3. PICK size \in Nat : size = Head(r.active).size
      BY <2>2 DEF Sized
    <2>4. /\ k.active = Tail(r.active) /\ k.mem_in_use = r.mem_in_use - Usage(size)
          /\ \/ k.cache = <<size>> /\ k.mem_allocated = r.mem_allocated - UsageOf(r.cache)
             \/ k.cache = Append(r.cache, size) /\ k.mem_allocated = r.mem_allocated
      BY <1>1, <1>4, <2>3, ReadOut
    <2>5. PICK s \in Seq(Nat) : s = SizesOf(r.active)
      BY <2>1, SizesType
    <2>6. s # <<>> /\ Head(s) = size /\ SizesOf(k.active) = Tail(s)
      BY <2>1, <2>3, <2>4, <2>5, SizesTail
    <2>7. UsageOf(s) = Usage(size) + UsageOf(Tail(s))
      BY <2>6, UsageTail
    <2>8. Tail(s) \in Seq(Nat)
      BY <2>6, HeadTailProperties
    <2>9. PICK u \in Seq(Nat) : u = Tail(s)
      BY <2>8
    <2>10. UsageOf(u) \in Nat
      BY UsageNat
    <2>11. UsageOf(Tail(s)) \in Nat /\ Usage(size) \in Nat
      BY <2>9, <2>10, QueueAssumption DEF Usage
    <2>12. UsageOf(<<size>>) = Usage(size) /\ UsageOf(Append(r.cache, size)) = UsageOf(r.cache) + Usage(size)
      BY <2>1, UsageOne, UsageAppended
    <2>13. r.mem_in_use = UsageOf(s) /\ r.mem_allocated = r.mem_in_use + UsageOf(r.cache)
      BY <2>5 DEF Counted
    <2>14. UsageOf(SizesOf(k.active)) = UsageOf(Tail(s))
      BY <2>6
    <2>15. k.mem_in_use = UsageOf(SizesOf(k.active)) /\ k.mem_in_use <= r.mem_in_use
      BY <2>4, <2>7, <2>11, <2>13, <2>14
    <2>16. k.mem_allocated = k.mem_in_use + UsageOf(k.cache) /\ k.mem_allocated <= r.mem_allocated
      <3>1. CASE k.cache = <<size>> /\ k.mem_allocated = r.mem_allocated - UsageOf(r.cache)
        <4>1. UsageOf(k.cache) = Usage(size)
          BY <2>12, <3>1
        <4> QED BY <1>2, <2>4, <2>11, <2>13, <3>1, <4>1
      <3>2. CASE k.cache = Append(r.cache, size) /\ k.mem_allocated = r.mem_allocated
        <4>1. UsageOf(k.cache) = UsageOf(r.cache) + Usage(size)
          BY <2>12, <3>2
        <4> QED BY <1>2, <2>4, <2>11, <2>13, <3>2, <4>1
      <3> QED BY <2>4, <3>1, <3>2
    <2> QED BY <1>1, <2>15, <2>16 DEF Counted
  <1> QED BY <1>3, <1>4

(* Counters stay exact while the sizes of the queued buffers do.           *)
LEMMA SameSizesCounted ==
  ASSUME NEW r, Counted(r), NEW k, k.cache = r.cache, k.mem_in_use = r.mem_in_use,
         k.mem_allocated = r.mem_allocated, Len(k.active) = Len(r.active),
         \A i \in 1 .. Len(r.active) : k.active[i].size = r.active[i].size
  PROVE  Counted(k)
  <1>1. SizesOf(k.active) = SizesOf(r.active)
    BY DEF SizesOf
  <1> QED BY <1>1 DEF Counted

-----------------------------------------------------------------------------
(* Pieces put together one after the other. As for sums, the function that *)
(* the recursion defines exists and is unique.                             *)
Joins(f, p, n) ==
  f = [k \in 0 .. n |-> IF k = 0 THEN <<>> ELSE f[k - 1] \o p[k]]

LEMMA JoinsExists ==
  ASSUME NEW U, NEW n \in Nat, NEW p, \A i \in 1 .. n : p[i] \in Seq(U)
  PROVE  \E f \in [0 .. n -> Seq(U)] : Joins(f, p, n)
  <1>1. PICK T : T = {m \in Nat : m <= n => \E f \in [0 .. m -> Seq(U)] : Joins(f, p, m)}
    OBVIOUS
  <1>2. 0 \in T
    <2>1. PICK f : f = [i \in 0 .. 0 |-> <<>>]
      OBVIOUS
    <2>2. Joins(f, p, 0) /\ f \in [0 .. 0 -> Seq(U)]
      BY <2>1 DEF Joins
    <2> QED BY <1>1, <2>2
  <1>3. ASSUME NEW m \in Nat, m \in T PROVE m + 1 \in T
    <2> SUFFICES ASSUME m + 1 <= n PROVE \E f \in [0 .. m + 1 -> Seq(U)] : Joins(f, p, m + 1)
      BY <1>1
    <2>1. PICK f \in [0 .. m -> Seq(U)] : Joins(f, p, m)
      BY <1>1, <1>3
    <2>2. PICK e : e = f[m] \o p[m + 1]
      OBVIOUS
    <2>3. e \in Seq(U)
      <3>1. f[m] \in Seq(U) /\ p[m + 1] \in Seq(U)
        BY <2>1
      <3> QED BY <2>2, <3>1
    <2>4. PICK g : g = [i \in 0 .. m + 1 |-> IF i = m + 1 THEN e ELSE f[i]]
      OBVIOUS
    <2>5. g \in [0 .. m + 1 -> Seq(U)]
      BY <2>1, <2>3, <2>4
    <2>6. ASSUME NEW i \in 0 .. m + 1 PROVE g[i] = IF i = 0 THEN <<>> ELSE g[i - 1] \o p[i]
      <3>1. g[m + 1] = e /\ \A j \in 0 .. m : g[j] = f[j]
        BY <2>4
      <3>2. CASE i = m + 1
        <4>1. i # 0 /\ i - 1 = m /\ m \in 0 .. m
          BY <3>2
        <4>2. g[m] = f[m]
          BY <3>1, <4>1
        <4> QED BY <2>2, <3>1, <3>2, <4>1, <4>2
      <3>3. CASE i \in 0 .. m
        <4>1. f[i] = IF i = 0 THEN <<>> ELSE f[i - 1] \o p[i]
          BY <2>1, <3>3 DEF Joins
        <4>2. i # 0 => i - 1 \in 0 .. m
          BY <3>3
        <4> QED BY <3>1, <3>3, <4>1, <4>2
      <3> QED BY <3>2, <3>3
    <2>7. Joins(g, p, m + 1)
      BY <2>5, <2>6 DEF Joins
    <2> QED BY <2>5, <2>7
  <1>4. n \in T
    BY <1>2, <1>3, AllNumbers
  <1> QED BY <1>1, <1>4

LEMMA JoinsUnique ==
  ASSUME NEW n \in Nat, NEW k \in Nat, k <= n, NEW p, NEW f, NEW g, Joins(f, p, n), Joins(g, p, k)
  PROVE  f[k] = g[k]
  <1>1. PICK T : T = {m \in Nat : m <= k => f[m] = g[m]}
    OBVIOUS
  <1>2. 0 \in T
    <2>1. f[0] = <<>> /\ g[0] = <<>>
      BY DEF Joins
    <2> QED BY <1>1, <2>1
  <1>3. ASSUME NEW m \in Nat, m \in T PROVE m + 1 \in T
    <2> SUFFICES ASSUME m + 1 <= k PROVE f[m + 1] = g[m + 1]
      BY <1>1
    <2>1. m + 1 \in 0 .. k /\ m + 1 \in 0 .. n /\ (m + 1) - 1 = m /\ m + 1 # 0
      OBVIOUS
    <2>2. f[m + 1] = f[m] \o p[m + 1]
      BY <2>1 DEF Joins
    <2>3. g[m + 1] = g[m] \o p[m + 1]
      BY <2>1 DEF Joins
    <2>4. f[m] = g[m]
      BY <1>1, <1>3
    <2> QED BY <2>2, <2>3, <2>4
  <1>4. k \in T
    BY <1>2, <1>3, AllNumbers
  <1> QED BY <1>1, <1>4

=============================================================================
