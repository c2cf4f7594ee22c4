----------------------------- MODULE MatchFinder -----------------------------
(***************************************************************************)
(* The match finders of the LZ encoder: hash chains and binary trees over  *)
(* a window that moves (src/original/src/liblzma/lz/lz_encoder_mf.c). A    *)
(* position in the tables is read_pos + offset, so that moving the window  *)
(* leaves the tables alone; from time to time they are normalized.         *)
(*                                                                         *)
(* mf is a record of the fields of lzma_mf that matter here; buffer is a   *)
(* sequence whose first write_pos elements are meaningful.                 *)
(***************************************************************************)
EXTENDS Stepwise, FiniteSets, SequencesExt

CONSTANTS MatchLenMax,    \* MATCH_LEN_MAX
          NiceLen,        \* mf->nice_len
          SearchDepth,          \* mf->depth
          MustNormalize   \* MUST_NORMALIZE_POS

HashBytes == [hc3 |-> 3, hc4 |-> 4, bt2 |-> 2, bt3 |-> 3, bt4 |-> 4]
IsBt(mf) == mf.finder \in {"bt2", "bt3", "bt4"}
Long(mf) == HashBytes[mf.finder]

EmptyHash == 0
NeverRead == -1      \* what the uninitialized son[] holds

Avail(mf) == mf.write_pos - mf.read_pos
Pos(mf) == mf.read_pos + mf.offset
At(mf, k) == mf.buffer[mf.read_pos + k + 1]

(* lzma_memcmplen of what is at read_pos and delta before it.              *)
MemCmpLen(mf, delta, from, limit) ==
  CHOOSE n \in from .. limit :
    /\ \A k \in from .. n - 1 : At(mf, k) = At(mf, k - delta)
    /\ n = limit \/ At(mf, n) # At(mf, n - delta)

(* The hashes collide, yet two places that begin with the same byte and    *)
(* have the same hash of two (three) bytes agree in both (all three). The  *)
(* table for strings of two bytes is indexed by the bytes themselves.      *)
Hash2(mf) == (3 * At(mf, 0) + At(mf, 1)) % 4
Hash3(mf) == (3 * At(mf, 0) + At(mf, 1) + 4 * At(mf, 2)) % 16
HashMain(mf) == CASE Long(mf) = 2 -> 4 * At(mf, 0) + At(mf, 1)
                  [] Long(mf) = 3 -> Hash3(mf) % 8
                  [] Long(mf) = 4 -> (Hash3(mf) + 5 * At(mf, 3)) % 8
EmptyTable == [h \in 0 .. 15 |-> EmptyHash]

-----------------------------------------------------------------------------
(* All tables forget what is further back than the window reaches.         *)
Normalize(mf) ==
  LET subvalue == MustNormalize - mf.cyclic_size
      Less(table) == [k \in DOMAIN table |-> IF table[k] <= subvalue THEN EmptyHash
                                             ELSE table[k] - subvalue]
  IN [mf EXCEPT !.hash = Less(@), !.hash2 = Less(@), !.hash3 = Less(@), !.son = Less(@),
                !.offset = @ - subvalue]

Advanced(mf) == [mf EXCEPT !.read_pos = @ + 1,
                           !.cyclic_pos = IF @ + 1 = mf.cyclic_size THEN 0 ELSE @ + 1]
MovePos(mf) == With(Advanced(mf), LAMBDA m : IF Pos(m) = MustNormalize THEN Normalize(m) ELSE m)

(* Too little is left to hash (or to put into a tree that a flush cuts     *)
(* short): the byte is added when more input has come.                     *)
MovePending(mf) == [mf EXCEPT !.read_pos = @ + 1, !.pending = @ + 1]

LenLimit(mf) == IF NiceLen <= Avail(mf) THEN NiceLen ELSE Avail(mf)
TooShort(mf) == /\ NiceLen > Avail(mf)
                /\ Avail(mf) < Long(mf) \/ (IsBt(mf) /\ mf.action = "SYNC_FLUSH")

Hashed(mf) == [mf EXCEPT !.hash[HashMain(mf)] = Pos(mf),
                         !.hash2 = IF Long(mf) > 2 THEN [@ EXCEPT ![Hash2(mf)] = Pos(mf)] ELSE @,
                         !.hash3 = IF Long(mf) > 3 THEN [@ EXCEPT ![Hash3(mf)] = Pos(mf)] ELSE @]

(* --- the search ---                                                      *)
(* s is [son, cur, depth, len0, len1, ptr0, ptr1, best, matches, done]; cur *)
(* is the position of the next candidate.                                  *)
Wrapped(mf, delta) == mf.cyclic_pos - delta + (IF delta > mf.cyclic_pos THEN mf.cyclic_size ELSE 0)

Better(s, len, delta) ==
  IF s.best < len THEN [s EXCEPT !.best = len, !.matches = Append(@, [len |-> len, dist |-> delta - 1])]
  ELSE s

OutOfReach(mf, s, delta) == s.depth = 0 \/ delta >= mf.cyclic_size

HcStep(mf, s) ==
  LET delta == Pos(mf) - s.cur
      t == [s EXCEPT !.cur = s.son[Wrapped(mf, delta)], !.depth = @ - 1]
  IN CASE OutOfReach(mf, s, delta) -> [s EXCEPT !.done = TRUE]
       [] ~OutOfReach(mf, s, delta) /\ At(mf, s.best - delta) = At(mf, s.best) /\ At(mf, -delta) = At(mf, 0) ->
            With(MemCmpLen(mf, delta, 1, LenLimit(mf)), LAMBDA len :
              [Better(t, len, delta) EXCEPT !.done = (len = LenLimit(mf))])
       [] OTHER -> t

BtStep(mf, s) ==
  LET delta == Pos(mf) - s.cur
      pair == 2 * Wrapped(mf, delta)
      least == IF s.len0 < s.len1 THEN s.len0 ELSE s.len1
      Below(t, len) == [t EXCEPT !.son[t.ptr1] = t.cur, !.ptr1 = pair + 1, !.cur = t.son[pair + 1],
                                 !.len1 = len, !.depth = @ - 1]
      Above(t, len) == [t EXCEPT !.son[t.ptr0] = t.cur, !.ptr0 = pair, !.cur = t.son[pair],
                                 !.len0 = len, !.depth = @ - 1]
      Descend(t, len) == IF At(mf, len - delta) < At(mf, len) THEN Below(t, len) ELSE Above(t, len)
      Replace(t) == [t EXCEPT !.son = [@ EXCEPT ![t.ptr1] = t.son[pair], ![t.ptr0] = t.son[pair + 1]],
                              !.done = TRUE]
  IN CASE OutOfReach(mf, s, delta) ->
            [s EXCEPT !.son = [@ EXCEPT ![s.ptr0] = EmptyHash, ![s.ptr1] = EmptyHash], !.done = TRUE]
       [] ~OutOfReach(mf, s, delta) /\ At(mf, least - delta) = At(mf, least) ->
            With(MemCmpLen(mf, delta, least + 1, LenLimit(mf)), LAMBDA len :
              IF len = LenLimit(mf) THEN Replace(Better(s, len, delta)) ELSE Descend(Better(s, len, delta), len))
       [] OTHER -> Descend(s, least)

Search(mf, cur, best, matches) ==
  LET start == [son |-> IF IsBt(mf) THEN mf.son ELSE [mf.son EXCEPT ![mf.cyclic_pos] = cur],
                cur |-> cur, depth |-> SearchDepth, len0 |-> 0, len1 |-> 0, ptr0 |-> 2 * mf.cyclic_pos + 1,
                ptr1 |-> 2 * mf.cyclic_pos, best |-> best, matches |-> matches, done |-> FALSE]
  IN Times(SearchDepth + 1, LAMBDA s : IF s.done THEN s ELSE IF IsBt(mf) THEN BtStep(mf, s) ELSE HcStep(mf, s),
           start)

(* --- find ---                                                            *)
(* The tables for two and three bytes give a near match at once.           *)
Near(mf, delta) == delta < mf.cyclic_size /\ At(mf, -delta) = At(mf, 0)

Candidates(mf) ==
  LET delta2 == Pos(mf) - mf.hash2[Hash2(mf)]
      delta3 == Pos(mf) - mf.hash3[Hash3(mf)]
      Two == IF Near(mf, delta2) THEN << [len |-> 2, dist |-> delta2 - 1] >> ELSE <<>>
      Three == IF delta2 # delta3 /\ Near(mf, delta3) THEN << [len |-> 3, dist |-> delta3 - 1] >> ELSE <<>>
  IN CASE Long(mf) = 2 -> <<>>
       [] Long(mf) = 3 -> Two
       [] Long(mf) = 4 -> Two \o Three

Extended(mf, matches) ==
  IF matches = <<>> THEN matches
  ELSE [matches EXCEPT ![Len(matches)].len = MemCmpLen(mf, matches[Len(matches)].dist + 1, @, LenLimit(mf))]

LeastBest(mf) == [hc3 |-> 2, hc4 |-> 3, bt2 |-> 1, bt3 |-> 2, bt4 |-> 3][mf.finder]

Inserted(mf) ==
  With(Hashed(mf), LAMBDA m :
    MovePos([m EXCEPT !.son = IF IsBt(mf) THEN Search(m, mf.hash[HashMain(mf)], 0, <<>>).son
                              ELSE [@ EXCEPT ![mf.cyclic_pos] = mf.hash[HashMain(mf)]]]))

Found(mf) ==
  With(Extended(mf, Candidates(mf)), LAMBDA near :
    LET best == IF near = <<>> THEN 0 ELSE near[Len(near)].len
        least == IF best < LeastBest(mf) THEN LeastBest(mf) ELSE best
    IN IF near # <<>> /\ best = LenLimit(mf) THEN [mf |-> Inserted(mf), matches |-> near]
       ELSE With(Search(Hashed(mf), mf.hash[HashMain(mf)], least, near), LAMBDA s :
              [mf |-> MovePos([Hashed(mf) EXCEPT !.son = s.son]), matches |-> s.matches]))

Find(mf) == IF TooShort(mf) THEN [mf |-> MovePending(mf), matches |-> <<>>] ELSE Found(mf)

SkipOne(mf) == IF TooShort(mf) THEN MovePending(mf) ELSE Inserted(mf)
Skip(mf, num) == Times(num, SkipOne, mf)

(* lzma_mf_find: a match of nice_len may be longer than the finder looked. *)
MfFind(mf) ==
  With(Find(mf), LAMBDA f :
    LET last == f.matches[Len(f.matches)]
        limit == IF Avail(mf) < MatchLenMax THEN Avail(mf) ELSE MatchLenMax
    IN [mf |-> [f.mf EXCEPT !.read_ahead = @ + 1], matches |-> f.matches,
        len |-> CASE f.matches = <<>> -> 0
                  [] f.matches # <<>> /\ last.len = NiceLen -> MemCmpLen(mf, last.dist + 1, NiceLen, limit)
                  [] OTHER -> last.len])

MfSkip(mf, amount) == IF amount = 0 THEN mf
                      ELSE [Skip(mf, amount) EXCEPT !.read_ahead = @ + amount]

(* What the tables and son[] start as; son[] is not cleared for a later    *)
(* Block.                                                                  *)
MfInit(finder, dict, buffer, son) ==
  [finder |-> finder, buffer |-> buffer, cyclic_size |-> dict + 1, offset |-> dict + 1, read_pos |-> 0,
   read_ahead |-> 0, read_limit |-> 0, write_pos |-> 0, pending |-> 0, action |-> "RUN",
   hash |-> EmptyTable, hash2 |-> EmptyTable, hash3 |-> EmptyTable, son |-> son, cyclic_pos |-> 0]
=============================================================================
