------------------------------ MODULE OutQueue ------------------------------
(***************************************************************************)
(* The output queue of both threaded coders,                               *)
(* src/safe/src/internal/container/outqueue.rs, as operators on its value: *)
(* a FIFO of buffers that workers fill and the application drains, a cache *)
(* of drained buffers for reuse, and two memory counters.                  *)
(*                                                                         *)
(* A buffer's data is the sequence of (job, i), i = 1 .. size, where job   *)
(* names what was decoded into it.                                         *)
(***************************************************************************)
EXTENDS Integers, Sequences, SequencesExt

CONSTANTS
  Threads,   (* threads given to OutQueue::init                            *)
  Overhead   (* size_of::<OutBuf>(), the cost of a buffer besides its data *)

ASSUME QueueAssumption == Threads \in Nat \ {0} /\ Overhead \in Nat

NoWorker    == -1
BufsLimit   == 2 * Threads
Usage(size) == Overhead + size

(* A queue as OutQueue::end leaves it; init ends the queue first.          *)
Empty == [active |-> <<>>, cache |-> <<>>, read_pos |-> 0,
          mem_allocated |-> 0, mem_in_use |-> 0]

(* A buffer as OutBuf::reset leaves it.                                    *)
FreshBuf(job, size, worker) ==
  [job |-> job, size |-> size, worker |-> worker, pos |-> 0, in_pos |-> 0,
   finished |-> FALSE, ret |-> "STREAM_END"]

HasBufOffByOne(q) == Len(q.active) <= BufsLimit
HasBuf(q)     == Len(q.active) < BufsLimit
IsEmpty(q)    == q.active = <<>>
IsReadable(q) ==
  q.active # <<>> /\ (q.read_pos < Head(q.active).pos \/ Head(q.active).finished)

UsageOf(sizes) == FoldSeq(LAMBDA size, sum : Usage(size) + sum, 0, sizes)

-----------------------------------------------------------------------------
(* The cache holds sizes: what a drained buffer held does not matter.      *)

ClearCache(q) ==
  [q EXCEPT !.cache = <<>>, !.mem_allocated = @ - UsageOf(q.cache)]

(* clear_cache_keep: one buffer of the size wanted next may stay.          *)
ClearCacheKeep(q, size) ==
  IF size \in ToSet(q.cache)
  THEN [ClearCache(q) EXCEPT !.cache = <<size>>, !.mem_allocated = @ + Usage(size)]
  ELSE ClearCache(q)

(* The next buffer is taken from the cache's end: is it of this size?      *)
Reusable(q, size) == q.cache # <<>> /\ Last(q.cache) = size

PreallocBuf(q, size) ==
  IF Reusable(q, size) THEN q
  ELSE [ClearCache(q) EXCEPT !.cache = <<size>>, !.mem_allocated = @ + Usage(size)]

GetBuf(q, job, worker) ==
  LET size == Last(q.cache)
  IN [q EXCEPT !.cache = Front(@),
               !.active = Append(@, FreshBuf(job, size, worker)),
               !.mem_in_use = @ + Usage(size)]

(* take_head_worker: who fills the head; asked at most once per buffer.    *)
HeadWorker(q) ==
  IF q.active = <<>> \/ Head(q.active).finished THEN NoWorker ELSE Head(q.active).worker

TakeHeadWorker(q) ==
  IF HeadWorker(q) = NoWorker THEN q ELSE [q EXCEPT !.active[1].worker = NoWorker]

-----------------------------------------------------------------------------
(* Reading.                                                                *)

SmallerOf(m, n) == IF m < n THEN m ELSE n

(* How much read copies out, and whether that drains a finished head.      *)
Available(q, space) ==
  IF q.active = <<>> THEN 0 ELSE SmallerOf(Head(q.active).pos - q.read_pos, space)

Drains(q, space) ==
  /\ q.active # <<>> /\ Head(q.active).finished
  /\ q.read_pos + Available(q, space) = Head(q.active).pos

(* The units copied out.                                                   *)
Copied(q, space) ==
  [i \in 1 .. Available(q, space) |-> <<Head(q.active).job, q.read_pos + i>>]

(* What read returns: a drained buffer reports how its worker ended.       *)
ReadRet(q, space) == IF Drains(q, space) THEN Head(q.active).ret ELSE "OK"

(* A drained buffer goes to the cache, which holds one size only.          *)
Recycle(q, size) ==
  LET kept == IF q.cache # <<>> /\ Last(q.cache) # size THEN ClearCache(q) ELSE q
  IN [kept EXCEPT !.cache = Append(@, size)]

PopHead(q) ==
  [q EXCEPT !.active = Tail(@), !.read_pos = 0, !.mem_in_use = @ - Usage(Head(q.active).size)]

Read(q, space) ==
  IF ~Drains(q, space)
  THEN [q EXCEPT !.read_pos = @ + Available(q, space)]
  ELSE Recycle(PopHead(q), Head(q.active).size)
=============================================================================
