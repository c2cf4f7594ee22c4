---------------------------- MODULE OutQueueUse ----------------------------
(***************************************************************************)
(* The output queue in use: buffers of any size are started, filled and    *)
(* finished by workers in any order, and read in any portions. The callers *)
(* (start_worker, prepare_worker) take a buffer only while has_buf holds   *)
(* and right after preallocating it.                                       *)
(***************************************************************************)
EXTENDS OutQueue

CONSTANTS
  Sizes,    (* sizes of buffers                                            *)
  Spaces,   (* output space of a read                                      *)
  Jobs      (* bound: buffers started in all                               *)

ASSUME UseAssumption == Sizes \subseteq Nat /\ Spaces \subseteq Nat /\ Jobs \in Nat

VARIABLES
  q,         (* the OutQueue                                               *)
  started    (* history: the final size of each buffer started             *)

vars == <<q, started>>

Init == q = Empty /\ started = <<>>

Start ==
  /\ HasBuf(q) /\ Len(started) < Jobs
  /\ \E size \in Sizes : q' = GetBuf(PreallocBuf(q, size), Len(started) + 1, 0)
  /\ started' = Append(started, -1)

(* prepare_worker under memory pressure.                                   *)
Trim ==
  /\ \E size \in Sizes : q' = ClearCacheKeep(q, size)
  /\ UNCHANGED started

(* A worker publishes more of its buffer, or the last of it.               *)
Fill ==
  /\ \E i \in DOMAIN q.active :
       /\ ~q.active[i].finished
       /\ \E pos \in q.active[i].pos .. q.active[i].size, finished \in BOOLEAN :
            /\ q' = [q EXCEPT !.active[i].pos = pos, !.active[i].finished = finished]
            /\ started' = IF finished THEN [started EXCEPT ![q.active[i].job] = pos] ELSE started

ReadSome ==
  /\ \E space \in Spaces : q' = Read(q, space)
  /\ UNCHANGED started

(* end: what is still queued is dropped, and so is the cache.              *)
End ==
  /\ q' = Empty /\ started' = <<>>

Next == Start \/ Trim \/ Fill \/ ReadSome \/ End

Spec == Init /\ [][Next]_vars

-----------------------------------------------------------------------------
(* Type invariant; reading stays within what the head buffer holds.        *)
TypeOK ==
  /\ q \in [active : Seq([job : Nat, size : Sizes, worker : Int, pos : Nat, in_pos : Nat,
                          finished : BOOLEAN, ret : {"STREAM_END"}]),
            cache : Seq(Sizes), read_pos : Nat, mem_allocated : Int, mem_in_use : Int]
  /\ started \in Seq(Int)
  /\ \A i \in DOMAIN q.active : q.active[i].pos <= q.active[i].size
  /\ q.read_pos <= (IF q.active = <<>> THEN 0 ELSE Head(q.active).pos)

(* Queue and cache together never hold more buffers than the limit that    *)
(* OutQueue::memusage promised, whatever is cached, trimmed and reused.    *)
BuffersBounded == Len(q.active) + Len(q.cache) <= BufsLimit

(* All cached buffers have one size, so the last one stands for all.       *)
CacheUniform == \A i, j \in DOMAIN q.cache : q.cache[i] = q.cache[j]

=============================================================================
