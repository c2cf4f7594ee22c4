--------------------------- MODULE OutQueueProofs ---------------------------
(***************************************************************************)
(* Proofs about the output queue in use (OutQueueUse), for any number of   *)
(* threads and any buffer sizes: queue and cache stay within the limit,    *)
(* and the cache holds one size.                                           *)
(***************************************************************************)
EXTENDS OutQueueUse, OutQueueLemmas

Buf == [job : Nat, size : Sizes, worker : Int, pos : Nat, in_pos : Nat,
        finished : BOOLEAN, ret : {"STREAM_END"}]

Uniform(cache) == \A i, j \in DOMAIN cache : cache[i] = cache[j]

(* The inductive invariant.                                                *)
IInv ==
  /\ IsQueue(q, Buf, Sizes)
  /\ started \in Seq(Int)
  /\ Uniform(q.cache)
  /\ Len(q.active) + Len(q.cache) <= BufsLimit

(* Reading leaves queue and cache alone or recycles the head.              *)
LEMMA ReadKeepsBounds ==
  ASSUME NEW r, IsQueue(r, Buf, Sizes), Uniform(r.cache), NEW space \in Nat
  PROVE  /\ IsQueue(Read(r, space), Buf, Sizes) /\ Uniform(Read(r, space).cache)
         /\ Len(Read(r, space).active) + Len(Read(r, space).cache)
              <= Len(r.active) + Len(r.cache)
  <1>0. r.active \in Seq(Buf) /\ r.cache \in Seq(Sizes)
    BY DEF IsQueue
  <1>1. CASE ~Drains(r, space)
    <2>1. PICK k : k = Read(r, space)
      OBVIOUS
    <2>2. IsQueue(k, Buf, Sizes) /\ k.active = r.active /\ k.cache = r.cache
      BY <1>1, <2>1, ReadOn
    <2> QED  BY <1>0, <2>1, <2>2
  <1>2. CASE Drains(r, space)
    <2>1. r.active # <<>>
      BY <1>2 DEF Drains
    <2>2. Head(r.active) \in Buf
      BY <1>0, <2>1
    <2>3. PICK size \in Sizes : size = Head(r.active).size
      BY <2>2 DEF Buf
    <2>4. PICK k : k = Read(r, space)
      OBVIOUS
    <2>5. /\ IsQueue(k, Buf, Sizes) /\ k.active = Tail(r.active)
          /\ \/ k.cache = <<size>>
             \/ k.cache = Append(r.cache, size) /\ Len(r.cache) > 0 /\ Last(r.cache) = size
      BY <1>2, <2>3, <2>4, ReadOut
    <2>6. Len(k.active) = Len(r.active) - 1
      BY <1>0, <2>1, <2>5
    <2>7. Uniform(k.cache) /\ Len(k.cache) <= Len(r.cache) + 1 /\ Len(k.cache) \in Nat
      <3>1. CASE k.cache = <<size>>
        <4>1. Len(r.cache) \in Nat
          BY <1>0
        <4> QED  BY <3>1, <4>1 DEF Uniform
      <3>2. CASE k.cache = Append(r.cache, size) /\ Len(r.cache) > 0 /\ Last(r.cache) = size
        <4>1. \A i \in DOMAIN r.cache : r.cache[i] = size
          BY <1>0, <3>2 DEF Uniform, Last
        <4> QED  BY <1>0, <3>2, <4>1 DEF Uniform
      <3> QED  BY <2>5, <3>1, <3>2
    <2>8. Len(r.active) \in Nat /\ Len(r.cache) \in Nat
      BY <1>0
    <2>9. ASSUME NEW a \in Nat, NEW b, NEW c \in Nat, NEW d \in Nat, b = a - 1, d <= c + 1
          PROVE  b + d <= a + c
      BY <2>9
    <2>10. Len(k.active) + Len(k.cache) <= Len(r.active) + Len(r.cache)
      BY <2>6, <2>7, <2>8, <2>9
    <2> QED  BY <2>4, <2>5, <2>7, <2>10
  <1> QED  BY <1>1, <1>2

-----------------------------------------------------------------------------
(* Steps.                                                                  *)

LEMMA InitIInv == Init => IInv
  BY QueueAssumption DEF Init, IInv, IsQueue, Empty, Uniform, BufsLimit

LEMMA StartIInv ==
  ASSUME IInv, Start
  PROVE  IInv'
  <1> USE QueueAssumption, UseAssumption
  <1>1. PICK size \in Sizes : q' = GetBuf(PreallocBuf(q, size), Len(started) + 1, 0)
    BY DEF Start
  <1> DEFINE p == PreallocBuf(q, size)
  <1>2. /\ IsQueue(p, Buf, Sizes) /\ p.active = q.active
        /\ \/ p.cache = <<size>>
           \/ p.cache = q.cache /\ Len(q.cache) > 0 /\ Last(q.cache) = size
    BY Preallocated DEF IInv
  <1> HIDE DEF p
  <1>3. Len(p.cache) > 0
    <2>1. Len(<<size>>) = 1
      OBVIOUS
    <2>2. CASE p.cache = <<size>>
      BY <2>1, <2>2
    <2>3. CASE p.cache = q.cache /\ Len(q.cache) > 0
      BY <2>3
    <2> QED  BY <1>2, <2>2, <2>3
  <1>4. PICK job \in Nat : job = Len(started) + 1
    BY DEF IInv
  <1>5. /\ IsQueue(q', Buf, Sizes) /\ Len(q'.active) = Len(p.active) + 1 /\ q'.cache = Front(p.cache)
    <2>1. q' = GetBuf(p, job, 0)
      BY <1>1, <1>4 DEF p
    <2>2. IsQueue(p, Buf, Sizes) /\ p.cache \in Seq(Sizes) /\ p.active \in Seq(Buf)
      BY <1>2 DEF IsQueue
    <2>3. PICK b : b = FreshBuf(job, Last(p.cache), 0)
      OBVIOUS
    <2>4. b \in Buf
      <3>1. Last(p.cache) \in Sizes
        BY <1>3, <2>2, FrontOfCache
      <3> QED  BY <2>3, <3>1 DEF FreshBuf, Buf
    <2>5. IsQueue(q', Buf, Sizes) /\ q'.active = Append(p.active, b) /\ q'.cache = Front(p.cache)
      BY <1>3, <2>1, <2>2, <2>3, <2>4, Taken
    <2> QED  BY <2>2, <2>4, <2>5
  <1>6. Uniform(q'.cache)
    <2>1. p.cache \in Seq(Sizes) /\ Uniform(p.cache)
      <3>1. p.cache \in Seq(Sizes) /\ Uniform(q.cache)
        BY <1>2 DEF IInv, IsQueue
      <3>2. Uniform(<<size>>)
        BY DEF Uniform
      <3> QED  BY <1>2, <3>1, <3>2
    <2>2. \A i \in DOMAIN q'.cache : i \in DOMAIN p.cache /\ q'.cache[i] = p.cache[i]
      BY <1>3, <1>5, <2>1, FrontOfCache
    <2> QED  BY <2>1, <2>2 DEF Uniform
  <1>7. p.cache \in Seq(Sizes) /\ Len(q'.cache) = Len(p.cache) - 1
    <2>1. p.cache \in Seq(Sizes)
      BY <1>2 DEF IsQueue
    <2>2. Len(Front(p.cache)) = Len(p.cache) - 1
      BY <1>3, <2>1, FrontOfCache
    <2> QED  BY <1>5, <2>1, <2>2
  <1>8. Len(q.active) < BufsLimit /\ BufsLimit \in Nat
    BY DEF Start, HasBuf, BufsLimit
  <1>9. Len(q'.active) + Len(q'.cache) <= BufsLimit
    <2>1. Len(q.active) \in Nat /\ Len(q.cache) \in Nat
      BY DEF IInv, IsQueue
    <2>2. Len(q'.active) = Len(q.active) + 1
      BY <1>2, <1>5
    <2>3. CASE p.cache = <<size>>
      <3>1. Len(q'.cache) = 0
        BY <1>7, <2>3
      <3> QED  BY <1>8, <2>1, <2>2, <3>1
    <2>4. CASE p.cache = q.cache
      <3>1. Len(q'.cache) = Len(q.cache) - 1
        BY <1>7, <2>4
      <3>2. Len(q.active) + Len(q.cache) <= BufsLimit
        BY DEF IInv
      <3>3. ASSUME NEW a \in Nat, NEW c \in Nat, NEW limit \in Nat, a + c <= limit
            PROVE  (a + 1) + (c - 1) <= limit
        BY <3>3
      <3> QED  BY <1>8, <2>1, <2>2, <3>1, <3>2, <3>3
    <2> QED  BY <1>2, <2>3, <2>4
  <1>10. started' \in Seq(Int)
    BY DEF Start, IInv
  <1> QED  BY <1>5, <1>6, <1>9, <1>10 DEF IInv

LEMMA TrimIInv ==
  ASSUME IInv, Trim
  PROVE  IInv'
  <1>1. PICK size \in Sizes : q' = ClearCacheKeep(q, size)
    BY DEF Trim
  <1>2. /\ IsQueue(q', Buf, Sizes) /\ q'.active = q.active
        /\ q'.cache = <<>> \/ (q'.cache = <<size>> /\ Len(q.cache) > 0)
    BY <1>1, TrimmedCache DEF IInv
  <1>3. Uniform(q'.cache)
    BY <1>2 DEF Uniform
  <1>4. /\ Len(q.active) \in Nat /\ Len(q.cache) \in Nat /\ BufsLimit \in Nat
        /\ Len(q.active) + Len(q.cache) <= BufsLimit
    <2>1. Len(q.active) \in Nat /\ Len(q.cache) \in Nat
      BY DEF IInv, IsQueue
    <2>2. BufsLimit \in Nat
      BY QueueAssumption DEF BufsLimit
    <2>3. Len(q.active) + Len(q.cache) <= BufsLimit
      BY DEF IInv
    <2> QED  BY <2>1, <2>2, <2>3
  <1>5. Len(q'.active) = Len(q.active)
    BY <1>2
  <1>6. Len(q'.cache) \in Nat /\ Len(q'.cache) <= Len(q.cache)
    <2>1. CASE q'.cache = <<>>
      BY <1>4, <2>1
    <2>2. CASE q'.cache = <<size>> /\ Len(q.cache) > 0
      BY <1>4, <2>2
    <2> QED  BY <1>2, <2>1, <2>2
  <1>7. Len(q'.active) + Len(q'.cache) <= BufsLimit
    <2>1. ASSUME NEW a \in Nat, NEW c \in Nat, NEW d \in Nat, NEW limit \in Nat,
                 a + c <= limit, d <= c
          PROVE  a + d <= limit
      BY <2>1
    <2> QED  BY <1>4, <1>5, <1>6, <2>1
  <1> QED  BY <1>2, <1>3, <1>7 DEF IInv, Trim

LEMMA FillIInv ==
  ASSUME IInv, Fill
  PROVE  IInv'
  <1>0. PICK i \in DOMAIN q.active :
          /\ ~q.active[i].finished
          /\ \E pos \in q.active[i].pos .. q.active[i].size, finished \in BOOLEAN :
               /\ q' = [q EXCEPT !.active[i].pos = pos, !.active[i].finished = finished]
               /\ started' = IF finished THEN [started EXCEPT ![q.active[i].job] = pos] ELSE started
    BY DEF Fill
  <1>1. PICK pos \in q.active[i].pos .. q.active[i].size, finished \in BOOLEAN :
          /\ q' = [q EXCEPT !.active[i].pos = pos, !.active[i].finished = finished]
          /\ started' = IF finished THEN [started EXCEPT ![q.active[i].job] = pos] ELSE started
    BY <1>0
  <1> DEFINE b == [q.active[i] EXCEPT !.pos = pos, !.finished = finished]
  <1>2. q.active[i] \in Buf
    BY <1>1 DEF IInv, IsQueue
  <1>3. pos \in Nat
    BY <1>1, <1>2, UseAssumption DEF Buf
  <1>4. b \in Buf
    BY <1>1, <1>2, <1>3 DEF Buf
  <1>5. q' = [q EXCEPT !.active = [@ EXCEPT ![i] = b]]
    BY <1>1 DEF IInv, IsQueue
  <1> HIDE DEF b
  <1>6. [q.active EXCEPT ![i] = b] \in Seq(Buf) /\ Len([q.active EXCEPT ![i] = b]) = Len(q.active)
    BY <1>4 DEF IInv, IsQueue
  <1>7. IsQueue(q', Buf, Sizes) /\ q'.cache = q.cache /\ Len(q'.active) = Len(q.active)
    BY <1>5, <1>6 DEF IInv, IsQueue
  <1>8. started' \in Seq(Int)
    <2>1. started \in Seq(Int) /\ pos \in Int
      BY <1>3 DEF IInv
    <2>2. [started EXCEPT ![q.active[i].job] = pos] \in Seq(Int)
      <3>1. PICK j : j = q.active[i].job
        OBVIOUS
      <3>2. [started EXCEPT ![j] = pos] \in Seq(Int)
        BY <2>1, Updated
      <3> QED  BY <3>1, <3>2
    <2> QED  BY <1>1, <2>1, <2>2
  <1> QED  BY <1>7, <1>8 DEF IInv

LEMMA ReadIInv ==
  ASSUME IInv, ReadSome
  PROVE  IInv'
  <1>1. PICK space \in Spaces : q' = Read(q, space)
    BY DEF ReadSome
  <1>2. space \in Nat
    BY UseAssumption
  <1>3. /\ IsQueue(q', Buf, Sizes) /\ Uniform(q'.cache)
        /\ Len(q'.active) + Len(q'.cache) <= Len(q.active) + Len(q.cache)
    BY <1>1, <1>2, ReadKeepsBounds DEF IInv
  <1>4. Len(q'.active) + Len(q'.cache) <= BufsLimit
    BY <1>3, QueueAssumption DEF IInv, IsQueue, BufsLimit
  <1> QED  BY <1>3, <1>4 DEF IInv, ReadSome

LEMMA EndIInv ==
  ASSUME IInv, End
  PROVE  IInv'
  BY QueueAssumption DEF End, IInv, IsQueue, Empty, Uniform, BufsLimit

LEMMA NextIInv == IInv /\ [Next]_vars => IInv'
  <1> SUFFICES ASSUME IInv, [Next]_vars PROVE IInv'
    OBVIOUS
  <1>1. CASE Start    BY <1>1, StartIInv
  <1>2. CASE Trim     BY <1>2, TrimIInv
  <1>3. CASE Fill     BY <1>3, FillIInv
  <1>4. CASE ReadSome BY <1>4, ReadIInv
  <1>5. CASE End      BY <1>5, EndIInv
  <1>6. CASE UNCHANGED vars
    BY <1>6 DEF vars, IInv
  <1> QED  BY <1>1, <1>2, <1>3, <1>4, <1>5, <1>6 DEF Next

LEMMA AlwaysIInv == Spec => []IInv
  BY InitIInv, NextIInv, PTL DEF Spec

-----------------------------------------------------------------------------
(* Queue and cache together never hold more buffers than memusage()        *)
(* promised (OutQueue::get_buf, read, clear_cache_keep).                   *)
THEOREM LimitHolds == Spec => []BuffersBounded
  <1>1. IInv => BuffersBounded
    BY DEF IInv, BuffersBounded
  <1> QED  BY <1>1, AlwaysIInv, PTL

(* All cached buffers have the size of the last, which alone is looked at  *)
(* (OutQueue::prealloc_buf, read).                                         *)
THEOREM OneSizeCached == Spec => []CacheUniform
  <1>1. IInv => CacheUniform
    BY DEF IInv, CacheUniform, Uniform
  <1> QED  BY <1>1, AlwaysIInv, PTL

-----------------------------------------------------------------------------
(* --- the counters ---                                                    *)
LEMMA QueueOfNat == IInv => IsQueue(q, Buf, Nat) /\ Sized(Buf) /\ Sizes \subseteq Nat
  <1> SUFFICES ASSUME IInv PROVE IsQueue(q, Buf, Nat) /\ Sized(Buf) /\ Sizes \subseteq Nat
    OBVIOUS
  <1>1. Sizes \subseteq Nat
    BY UseAssumption
  <1>2. q.cache \in Seq(Sizes)
    BY DEF IInv, IsQueue
  <1>3. q.cache \in Seq(Nat)
    BY <1>1, <1>2, SeqMonotonic
  <1> QED BY <1>1, <1>3 DEF IInv, IsQueue, Sized, Buf

LEMMA StartCounted == ASSUME IInv, Counted(q), Start PROVE Counted(q')
  <1>1. PICK size \in Sizes : q' = GetBuf(PreallocBuf(q, size), Len(started) + 1, 0)
    BY DEF Start
  <1>2. IsQueue(q, Buf, Nat) /\ Sized(Buf) /\ size \in Nat
    BY QueueOfNat
  <1>3. PICK p : p = PreallocBuf(q, size)
    OBVIOUS
  <1>4. /\ IsQueue(p, Buf, Nat) /\ IsQueue(p, Buf, Sizes)
        /\ p.cache = <<size>> \/ (p.cache = q.cache /\ Len(q.cache) > 0 /\ Last(q.cache) = size)
    <2>1. IsQueue(p, Buf, Nat)
      BY <1>2, <1>3, Preallocated
    <2>2. /\ IsQueue(p, Buf, Sizes)
          /\ p.cache = <<size>> \/ (p.cache = q.cache /\ Len(q.cache) > 0 /\ Last(q.cache) = size)
      BY <1>3, Preallocated DEF IInv
    <2> QED BY <2>1, <2>2
  <1>5. Counted(p)
    BY <1>2, <1>3, PreallocCounted
  <1>6. Len(p.cache) > 0 /\ Last(p.cache) = size
    <2>1. Len(<<size>>) = 1 /\ Last(<<size>>) = size
      BY DEF Last
    <2> QED BY <1>4, <2>1, SMTT(30)
  <1>7. PICK job \in Nat : job = Len(started) + 1
    BY DEF IInv
  <1>8. FreshBuf(job, Last(p.cache), 0) \in Buf
    BY <1>6 DEF FreshBuf, Buf
  <1>9. PICK none : none = 0
    OBVIOUS
  <1>10. Counted(GetBuf(p, job, none))
    BY <1>2, <1>4, <1>5, <1>6, <1>8, <1>9, GetCounted
  <1> QED BY <1>1, <1>3, <1>7, <1>9, <1>10

LEMMA FillCounted == ASSUME IInv, Counted(q), Fill PROVE Counted(q')
  <1>0. PICK i \in DOMAIN q.active : \E pos, finished :
          q' = [q EXCEPT !.active[i].pos = pos, !.active[i].finished = finished]
    BY DEF Fill
  <1>1. PICK pos, finished :
          q' = [q EXCEPT !.active[i].pos = pos, !.active[i].finished = finished]
    BY <1>0
  <1>2. PICK b : b = [q.active[i] EXCEPT !.pos = pos, !.finished = finished]
    OBVIOUS
  <1>3. PICK a : a = [q.active EXCEPT ![i] = b]
    OBVIOUS
  <1>4. q' = [q EXCEPT !.active = a]
    BY <1>1, <1>2, <1>3 DEF IInv, IsQueue
  <1>5. /\ q'.active = a /\ q'.cache = q.cache /\ q'.mem_in_use = q.mem_in_use
        /\ q'.mem_allocated = q.mem_allocated
    BY <1>4 DEF IInv, IsQueue
  <1>6. q.active \in Seq(Buf) /\ q.active[i] \in Buf
    BY DEF IInv, IsQueue
  <1>7. b.size = q.active[i].size
    BY <1>2, <1>6 DEF Buf
  <1>8. Len(a) = Len(q.active) /\ \A k \in 1 .. Len(q.active) : a[k].size = q.active[k].size
    BY <1>3, <1>6, <1>7
  <1> QED BY <1>5, <1>8, SameSizesCounted

LEMMA NextCounted == IInv /\ Counted(q) /\ [Next]_vars => Counted(q')
  <1> SUFFICES ASSUME IInv, Counted(q), [Next]_vars PROVE Counted(q')
    OBVIOUS
  <1>1. CASE Start BY <1>1, StartCounted
  <1>2. CASE Trim
    <2>1. PICK size \in Nat : q' = ClearCacheKeep(q, size)
      BY <1>2, QueueOfNat DEF Trim
    <2> QED BY <2>1, QueueOfNat, TrimCounted
  <1>3. CASE Fill BY <1>3, FillCounted
  <1>4. CASE ReadSome
    <2>1. PICK space : q' = Read(q, space)
      BY <1>4 DEF ReadSome
    <2> QED BY <2>1, QueueOfNat, ReadCounted
  <1>5. CASE End BY <1>5, EmptyCounted DEF End
  <1>6. CASE UNCHANGED vars BY <1>6 DEF vars
  <1> QED BY <1>1, <1>2, <1>3, <1>4, <1>5, <1>6 DEF Next

(* The counters that the memory limits of both coders rest on are exact,   *)
(* whatever was cached, reused and dropped: the memory in use is that of   *)
(* the queued buffers, and what is allocated is that and the cache.        *)
THEOREM CountersExact == Spec => []Counted(q)
  <1>1. Init => Counted(q)
    BY EmptyCounted DEF Init
  <1>2. IInv /\ Counted(q) /\ [Next]_vars => Counted(q)'
    BY NextCounted
  <1> QED BY <1>1, <1>2, AlwaysIInv, PTL DEF Spec
=============================================================================
