----------------------------- MODULE LzmaEncoder -----------------------------
(***************************************************************************)
(* The LZMA encoder over the match finders: what is coded as a literal, a  *)
(* match or a repeat, and when it stops                                    *)
(* (src/original/src/liblzma/lzma/lzma_encoder.c,                          *)
(* lzma_encoder_optimum_fast.c, lzma_encoder_optimum_normal.c).            *)
(*                                                                         *)
(* The range coder is a queue of bytes: a literal or a repeat is one, a    *)
(* match is two. A byte shows what is coded, the state it was coded in and *)
(* how many bytes the probabilities have adapted to: a decoder that is not *)
(* in step reads something else.                                           *)
(***************************************************************************)
EXTENDS MatchFinder

CONSTANTS OPTS,       \* OPTS: entries of opts[], before_size of the window
          Prices      \* [lit, miss, rep, len, dist]: what the symbols cost

ASSUME OptsAssumption == OPTS > MatchLenMax /\ NiceLen \in 4 .. MatchLenMax

LOOP_INPUT_MAX == OPTS + 1
REPS == 4
Literal == -1               \* back = UINT32_MAX
Unlimited == 1000000        \* limit = UINT32_MAX; also no out_limit

(* --- states and symbols ---                                              *)
IsLiteralState(s) == s < 7
UpdateLiteral(s)  == IF s <= 3 THEN 0 ELSE IF s <= 9 THEN s - 3 ELSE s - 6
UpdateMatch(s)    == IF IsLiteralState(s) THEN 7 ELSE 10
UpdateLongRep(s)  == IF IsLiteralState(s) THEN 8 ELSE 11
UpdateShortRep(s) == IF IsLiteralState(s) THEN 9 ELSE 11

LiteralSymbol(byte, match) == 10 * match + byte      \* match is 0 when not used
LenSymbol(len) == 200 + len
DistSymbol(dist) == 300 + dist
RepSymbol(len, rep) == 400 + 10 * len + rep
EndDist == 99               \* the distance UINT32_MAX: end of payload marker
FlushSymbol == 950
MATCH_LEN_MIN == 2
InContext(symbol, state, adapted) == symbol + 1000 * state + 12000 * (adapted % 50)

Push(e, symbol) == [e EXCEPT !.rc = Append(@, InContext(symbol, e.state, e.adapted)), !.adapted = @ + 1]

(* props stands for lc, lp and pb: other properties, other probabilities.  *)
LzmaReset(e, props) == [e EXCEPT !.rc = <<>>, !.out_total = 0, !.state = 0, !.adapted = 7 * props,
                                 !.reps = <<0, 0, 0, 0>>, !.end = 0, !.current = 0]

NoOpt == [price |-> 0, pos_prev |-> 0, back |-> 0, lit1 |-> FALSE, two |-> FALSE, pos2 |-> 0,
          back2 |-> 0, state |-> 0, backs |-> <<0, 0, 0, 0>>]
LzmaCreate(fast, eopm, props) ==
  LzmaReset([initialized |-> FALSE, flushed |-> FALSE, uncomp |-> 0, out_limit |-> Unlimited,
             eopm |-> eopm, fast |-> fast, rc |-> <<>>, out_total |-> 0, state |-> 0, adapted |-> 0,
             reps |-> <<>>, matches |-> <<>>, longest |-> 0, end |-> 0, current |-> 0,
             opts |-> [k \in 0 .. OPTS - 1 |-> NoOpt]], props)

(* --- what was last used comes first ---                                  *)
RepsAfter(reps, back) ==
  IF back < REPS
  THEN [k \in 1 .. REPS |-> IF k = 1 THEN reps[back + 1] ELSE IF k <= back + 1 THEN reps[k - 1] ELSE reps[k]]
  ELSE <<back - REPS>> \o SubSeq(reps, 1, REPS - 1)

(* --- one symbol ---                                                      *)
CodeLiteral(e, mf) ==
  LET byte == At(mf, -mf.read_ahead)
      match == IF IsLiteralState(e.state) THEN 0 ELSE At(mf, -mf.read_ahead - e.reps[1] - 1)
  IN [Push(e, LiteralSymbol(byte, match)) EXCEPT !.state = UpdateLiteral(@)]

CodeMatch(e, dist, len) ==
  [Push(Push(e, LenSymbol(len)), DistSymbol(dist)) EXCEPT !.state = UpdateMatch(@),
                                                          !.reps = RepsAfter(@, dist + REPS)]
CodeRep(e, rep, len) ==
  [Push(e, RepSymbol(len, rep)) EXCEPT !.state = IF len = 1 THEN UpdateShortRep(@) ELSE UpdateLongRep(@),
                                       !.reps = RepsAfter(@, rep)]

EncodeSymbol(e, mf, back, len) ==
  CASE back = Literal -> CodeLiteral(e, mf)
    [] back \in 0 .. REPS - 1 -> CodeRep(e, back, len)
    [] back >= REPS -> CodeMatch(e, back - REPS, len)

-----------------------------------------------------------------------------
(* --- the fast choice ---                                                 *)
(* chosen is [e, mf, back, len]. The byte to be coded is one behind        *)
(* read_pos, what was found there is in e.longest and e.matches.           *)
Chosen(e, mf, back, len) == [e |-> e, mf |-> mf, back |-> back, len |-> len]

Looked(e, mf) == With(MfFind(mf), LAMBDA f :
  [e |-> [e EXCEPT !.longest = f.len, !.matches = f.matches], mf |-> f.mf])
LookedOnce(e, mf) == IF mf.read_ahead = 0 THEN Looked(e, mf) ELSE [e |-> e, mf |-> mf]

Behind(mf) == [mf EXCEPT !.read_pos = @ - 1]
BufAvail(mf) == IF Avail(mf) + 1 < MatchLenMax THEN Avail(mf) + 1 ELSE MatchLenMax
RepLen(b, rep, limit) == IF At(b, 0) # At(b, -rep - 1) \/ At(b, 1) # At(b, -rep) THEN 0
                         ELSE MemCmpLen(b, rep + 1, 2, limit)
LongestRep(lens) == CHOOSE k \in 1 .. REPS : /\ \A j \in 1 .. REPS : lens[j] <= lens[k]
                                             /\ \A j \in 1 .. k - 1 : lens[j] < lens[k]
FirstNice(lens) == IF \E k \in 1 .. REPS : lens[k] >= NiceLen
                   THEN CHOOSE k \in 1 .. REPS : lens[k] >= NiceLen /\ \A j \in 1 .. k - 1 : lens[j] < NiceLen
                   ELSE 0

(* The thresholds of the distances are scaled: 2 stands for 2^7 and so on. *)
ChangePair(small, big) == big \div 2 > small
TooFar(len, dist) == len = 2 /\ dist >= 3
FartherThan(k, dist) == dist >= k

(* A pair that is one shorter but much nearer is preferred.                *)
Preferred(matches) ==
  LET from[k \in 1 .. Len(matches)] ==
        IF k > 1 /\ matches[k].len = matches[k - 1].len + 1 /\ ChangePair(matches[k - 1].dist, matches[k].dist)
        THEN from[k - 1] ELSE matches[k]
  IN from[Len(matches)]

BetterNext(e, main, dist) ==
  /\ e.longest >= 2
  /\ LET new == Last(e.matches).dist
     IN \/ e.longest >= main /\ new < dist
        \/ e.longest = main + 1 /\ ~ChangePair(dist, new)
        \/ e.longest > main + 1
        \/ e.longest + 1 >= main /\ main >= 3 /\ ChangePair(new, dist)

RepeatsNext(e, b, limit) ==
  \E k \in 1 .. REPS : \A n \in 0 .. limit - 1 : At(b, n) = At(b, n - e.reps[k] - 1)

FastMatch(e, mf, main, dist) ==
  With(Looked(e, mf), LAMBDA next :
    IF \/ BetterNext(next.e, main, dist)
       \/ RepeatsNext(e, Behind(next.mf), IF main > 3 THEN main - 1 ELSE 2)
    THEN Chosen(next.e, next.mf, Literal, 1)
    ELSE Chosen(next.e, MfSkip(next.mf, main - 2), dist + REPS, main))

OptimumFast(e0, mf0) ==
  With(LookedOnce(e0, mf0), LAMBDA l :
    LET e == l.e
        mf == l.mf
        b == Behind(mf)
        avail == BufAvail(mf)
        lens == [k \in 1 .. REPS |-> RepLen(b, e.reps[k], avail)]
        nice == FirstNice(lens)
        best == LongestRep(lens)
        rep == lens[best]
        pair == Preferred(e.matches)
        dist == IF e.longest >= 2 THEN pair.dist ELSE 0
        main == IF e.longest < 2 \/ TooFar(pair.len, pair.dist) THEN 1 ELSE pair.len
    IN CASE avail < 2 -> Chosen(e, mf, Literal, 1)
         [] avail >= 2 /\ nice > 0 -> Chosen(e, MfSkip(mf, lens[nice] - 1), nice - 1, lens[nice])
         [] avail >= 2 /\ nice = 0 /\ e.longest >= NiceLen ->
              Chosen(e, MfSkip(mf, e.longest - 1), Last(e.matches).dist + REPS, e.longest)
         [] OTHER ->
              IF rep >= 2 /\ \/ rep + 1 >= main
                             \/ rep + 2 >= main /\ FartherThan(2, dist)
                             \/ rep + 3 >= main /\ FartherThan(3, dist)
              THEN Chosen(e, MfSkip(mf, rep - 1), best - 1, rep)
              ELSE IF main < 2 \/ avail <= 2 THEN Chosen(e, mf, Literal, 1)
              ELSE FastMatch(e, mf, main, dist))

-----------------------------------------------------------------------------
(* --- the optimal choice ---                                              *)
(* opts[k] is the cheapest known way to be k bytes further on: where the   *)
(* last step of it began (pos_prev) and what it was (back); lit1: a        *)
(* literal and then rep0; two: in front of these, one from pos2 with back2. *)
Infinity == 1000000
LiteralPrice(state, byte, match) == IF IsLiteralState(state) \/ byte # match THEN Prices.lit ELSE Prices.miss
RepPrice(rep, len) == Prices.rep + rep + len * Prices.len
DistLenPrice(dist, len) == Prices.dist + dist + len * Prices.len

Relax(h, k, price, new) ==
  IF price < h.opts[k].price THEN [h EXCEPT !.opts[k] = [new EXCEPT !.price = price, !.state = h.opts[k].state,
                                                                    !.backs = h.opts[k].backs]]
  ELSE h
Step(from, back) == [NoOpt EXCEPT !.pos_prev = from, !.back = back]
Grow(h, to) == [h EXCEPT !.len_end = IF to > @ THEN to ELSE @,
                         !.opts = [k \in DOMAIN @ |-> IF k \in h.len_end + 1 .. to
                                                      THEN [@[k] EXCEPT !.price = Infinity] ELSE @[k]]]

(* The match of least distance that is long enough.                        *)
DistFor(matches, len) == matches[CHOOSE k \in DOMAIN matches :
                                   /\ matches[k].len >= len
                                   /\ \A j \in 1 .. k - 1 : matches[j].len < len].dist

(* From where the encoder is (helper1).                                    *)
FirstStep(e, mf, lens, main) ==
  LET b == Behind(mf)
      byte == At(b, 0)
      match == At(b, -e.reps[1] - 1)
      short == Prices.rep
      literal == LiteralPrice(e.state, byte, match)
      single == IF byte = match /\ short < literal THEN [Step(0, 0) EXCEPT !.price = short]
                ELSE [Step(0, Literal) EXCEPT !.price = literal]
      far == lens[LongestRep(lens)]
      end == IF main > far THEN main ELSE far
      begun == [opts |-> [e.opts EXCEPT ![0] = [@ EXCEPT !.state = e.state, !.backs = e.reps],
                                        ![1] = [single EXCEPT !.state = @, !.backs = e.reps]],
                len_end |-> 1]
      Reps(h, k) == Fold(LAMBDA g, len : Relax(g, len, RepPrice(k - 1, len), Step(0, k - 1)), h,
                         [n \in 1 .. (IF lens[k] < 2 THEN 0 ELSE lens[k] - 1) |-> n + 1])
      from == IF lens[1] >= 2 THEN lens[1] + 1 ELSE 2
      Match(h, len) == LET dist == DistFor(e.matches, len)
                       IN Relax(h, len, DistLenPrice(dist, len), Step(0, dist + REPS))
      InMain == IF main < from THEN <<>> ELSE [n \in 1 .. main - from + 1 |-> from + n - 1]
  IN [back |-> single.back, end |-> end,
      h |-> Fold(Match, Fold(Reps, Grow(begun, end), <<1, 2, 3, 4>>), InMain)]

(* The state and the reps that the way to cur leads to.                    *)
RepOrMatch(state, back, len) == IF back < REPS THEN UpdateLongRep(state) ELSE UpdateMatch(state)
StateAt(opts, cur) ==
  LET o == opts[cur] IN
  CASE ~o.lit1 /\ o.pos_prev = cur - 1 ->
         IF o.back = 0 THEN UpdateShortRep(opts[o.pos_prev].state) ELSE UpdateLiteral(opts[o.pos_prev].state)
    [] ~o.lit1 /\ o.pos_prev # cur - 1 -> RepOrMatch(opts[o.pos_prev].state, o.back, 2)
    [] o.lit1 /\ o.two ->
         UpdateLongRep(UpdateLiteral(RepOrMatch(opts[o.pos2].state, o.back2, 2)))
    [] o.lit1 /\ ~o.two -> UpdateLongRep(UpdateLiteral(opts[o.pos_prev - 1].state))

(* When the way is a single byte the reps stay as they are.                *)
RepsAt(opts, cur, reps) ==
  LET o == opts[cur]
      start == IF o.lit1 THEN o.pos_prev - 1 ELSE o.pos_prev
  IN CASE start = cur - 1 -> reps
       [] start # cur - 1 /\ o.lit1 /\ o.two -> RepsAfter(opts[o.pos2].backs, o.back2)
       [] OTHER -> RepsAfter(opts[start].backs, o.back)

(* h is [opts, len_end, cur, state, reps, b, full, price, lit, start]: b   *)
(* stands at the byte cur, full bytes are there to be looked at.           *)
Smaller(x, y) == IF x < y THEN x ELSE y
Upto(from, to) == [n \in 1 .. (IF to < from THEN 0 ELSE to - from + 1) |-> from + n - 1]

OneByte(h) ==
  LET byte == At(h.b, 0)
      match == At(h.b, -h.reps[1] - 1)
      literal == h.price + LiteralPrice(h.state, byte, match)
      l == Relax(h, h.cur + 1, literal, Step(h.cur, Literal))
      next == l.opts[h.cur + 1]
      short == h.price + Prices.rep
      repeats == byte = match /\ ~(next.pos_prev < h.cur /\ next.back = 0) /\ short <= next.price
      s == IF repeats THEN Relax([l EXCEPT !.opts[h.cur + 1].price = Infinity], h.cur + 1, short, Step(h.cur, 0))
           ELSE l
  IN [s EXCEPT !.lit = literal,
               !.single = repeats \/ literal < h.opts[h.cur + 1].price]

(* A literal and rep0.                                                     *)
LiteralRep(h) ==
  LET limit == Smaller(h.full, NiceLen + 1)
      len == MemCmpLen(h.b, h.reps[1] + 1, 1, limit) - 1
      offset == h.cur + 1 + len
  IN IF h.single \/ At(h.b, 0) = At(h.b, -h.reps[1] - 1) \/ len < 2 THEN h
     ELSE Relax(Grow(h, offset), offset, h.lit + RepPrice(0, len), [Step(h.cur + 1, 0) EXCEPT !.lit1 = TRUE])

(* And behind len bytes from dist, coded as back.                          *)
ThenLiteralRep(h, dist, len, price, back) ==
  LET limit == Smaller(h.full, len + 1 + NiceLen)
      more == IF len + 1 < limit THEN MemCmpLen(h.b, dist + 1, len + 1, limit) - len - 1 ELSE 0
      offset == h.cur + len + 1 + more
      literal == LiteralPrice(7, At(h.b, len), At(h.b, len - dist - 1))
  IN IF more < 2 THEN h
     ELSE Relax(Grow(h, offset), offset, price + literal + RepPrice(0, more),
                [Step(h.cur + len + 1, 0) EXCEPT !.lit1 = TRUE, !.two = TRUE, !.pos2 = h.cur, !.back2 = back])

TryRep(h, k) ==
  LET rep == h.reps[k]
      len == RepLen(h.b, rep, Smaller(h.full, NiceLen))
      all == Fold(LAMBDA g, n : Relax(g, h.cur + n, h.price + RepPrice(k - 1, n), Step(h.cur, k - 1)),
                  Grow(h, h.cur + len), Upto(2, len))
  IN IF len = 0 THEN h
     ELSE ThenLiteralRep([all EXCEPT !.start = IF k = 1 THEN len + 1 ELSE @], rep, len,
                         h.price + RepPrice(k - 1, len), k - 1)

TryMatches(h, e) ==
  LET len == Smaller(e.longest, Smaller(h.full, NiceLen))
      Try(g, n) ==
        LET dist == DistFor(e.matches, n)
            price == h.price + DistLenPrice(dist, n)
            r == Relax(g, h.cur + n, price, Step(h.cur, dist + REPS))
        IN IF n = len \/ \E m \in DOMAIN e.matches : e.matches[m].len = n
           THEN ThenLiteralRep(r, dist, n, price, dist + REPS) ELSE r
  IN IF len < h.start THEN h ELSE Fold(Try, Grow(h, h.cur + len), Upto(h.start, len))

(* helper2.                                                                *)
NextStep(h0, e, mf) ==
  LET at == [h0 EXCEPT !.state = StateAt(h0.opts, h0.cur), !.reps = RepsAt(h0.opts, h0.cur, @),
                       !.b = Behind(mf), !.full = Smaller(Avail(mf) + 1, OPTS - 1 - h0.cur),
                       !.price = h0.opts[h0.cur].price, !.start = 2]
      Kept(h) == [h EXCEPT !.opts[h.cur] = [@ EXCEPT !.state = h.state, !.backs = h.reps]]
  IN With(OneByte(Kept(at)), LAMBDA h :
       IF h.full < 2 THEN h
       ELSE With(Fold(TryRep, LiteralRep(h), <<1, 2, 3, 4>>), LAMBDA r : TryMatches(r, e)))

(* The way to cur, turned round so that it can be followed from 0.         *)
Backward(opts, cur) ==
  LET begun == [opts |-> opts, cur |-> cur, pos |-> opts[cur].pos_prev, back |-> opts[cur].back, done |-> FALSE]
      Literal1(w) == IF ~w.opts[w.cur].lit1 THEN w.opts
                     ELSE [w.opts EXCEPT ![w.pos] = [@ EXCEPT !.back = Literal, !.lit1 = FALSE, !.pos_prev = w.pos - 1]]
      First2(w) == IF ~(w.opts[w.cur].lit1 /\ w.opts[w.cur].two) THEN Literal1(w)
                   ELSE [Literal1(w) EXCEPT ![w.pos - 1] = [@ EXCEPT !.lit1 = FALSE, !.pos_prev = w.opts[w.cur].pos2,
                                                                     !.back = w.opts[w.cur].back2]]
      Turn(w) == With(First2(w), LAMBDA o :
                   [opts |-> [o EXCEPT ![w.pos] = [@ EXCEPT !.back = w.back, !.pos_prev = w.cur]],
                    cur |-> w.pos, pos |-> o[w.pos].pos_prev, back |-> o[w.pos].back, done |-> w.pos = 0])
  IN Times(OPTS, LAMBDA w : IF w.done THEN w ELSE Turn(w), begun).opts

Followed(e, mf) ==
  LET o == e.opts[e.current]
  IN Chosen([e EXCEPT !.current = o.pos_prev], mf, o.back, o.pos_prev - e.current)

OptimumSearch(e, mf, first) ==
  LET begun == [e |-> e, mf |-> mf, done |-> FALSE,
                h |-> [opts |-> first.h.opts, len_end |-> first.end, cur |-> 1, state |-> 0, reps |-> e.reps,
                       b |-> mf, full |-> 0, price |-> 0, lit |-> 0, start |-> 2, single |-> FALSE]]
      Look(x) == With(Looked(x.e, x.mf), LAMBDA l :
                   IF l.e.longest >= NiceLen THEN [x EXCEPT !.e = l.e, !.mf = l.mf, !.done = TRUE]
                   ELSE [x EXCEPT !.e = l.e, !.mf = l.mf,
                                  !.h = [NextStep(x.h, l.e, l.mf) EXCEPT !.cur = @ + 1]])
  IN With(Times(OPTS, LAMBDA x : IF x.done \/ x.h.cur >= x.h.len_end THEN x ELSE Look(x), begun), LAMBDA x :
       Followed([x.e EXCEPT !.opts = Backward(x.h.opts, x.h.cur), !.end = x.h.cur, !.current = 0], x.mf))

OptimumNormal(e0, mf0) ==
  IF e0.end # e0.current THEN Followed(e0, mf0)
  ELSE With(LookedOnce(e0, mf0), LAMBDA l :
    LET e == l.e
        mf == l.mf
        b == Behind(mf)
        avail == BufAvail(mf)
        lens == [k \in 1 .. REPS |-> RepLen(b, e.reps[k], avail)]
        best == LongestRep(lens)
    IN CASE avail < 2 -> Chosen(e, mf, Literal, 1)
         [] avail >= 2 /\ lens[best] >= NiceLen -> Chosen(e, MfSkip(mf, lens[best] - 1), best - 1, lens[best])
         [] avail >= 2 /\ lens[best] < NiceLen /\ e.longest >= NiceLen ->
              Chosen(e, MfSkip(mf, e.longest - 1), Last(e.matches).dist + REPS, e.longest)
         [] OTHER ->
              IF e.longest < 2 /\ lens[best] < 2 /\ At(b, 0) # At(b, -e.reps[1] - 1)
              THEN Chosen(e, mf, Literal, 1)
              ELSE With(FirstStep(e, mf, lens, e.longest), LAMBDA first :
                     IF first.end < 2 THEN Chosen(e, mf, first.back, 1)
                     ELSE OptimumSearch(e, mf, first)))
=============================================================================
