------------------------- MODULE BlockDecoderProofs -------------------------
(***************************************************************************)
(* Proofs about the Block decoder, for Blocks of any number and size of    *)
(* chunks and any way to cut input and output into pieces.                 *)
(***************************************************************************)
EXTENDS BlockDecoderUse, SequenceTheorems, TLAPS

Decoder ==
  [coding : BOOLEAN, in : Nat, out : Nat, stuck : BOOLEAN, src : Nat, eof : BOOLEAN, opened : Nat, next : Nat,
   torn : BOOLEAN, end : BOOLEAN, pending : Seq(Nat), finished : BOOLEAN]

IsBlock(k) ==
  /\ k.chunks \in Nat \ {0} /\ k.comp \in Nat /\ k.out \in Nat /\ k.tail \in Nat
  /\ k.chunks < k.comp /\ k.chunks <= k.out /\ k.flaw \in {"none", "data"}

(* The reader never holds more than the compressed data it was given, nor  *)
(* has it read more than its chunks hold.                                  *)
Sound(k, e) ==
  /\ e \in Decoder /\ e.opened <= k.chunks /\ 1 <= e.next
  /\ e.next - 1 <= e.opened * ChunkOut(k) /\ e.opened * ChunkIn(k) + e.src <= k.comp

(* What is pending is what was read last.                                  *)
Ahead(e) == Len(e.pending) < e.next /\ e.pending = Units(e.next - Len(e.pending), Len(e.pending))

(* Together with it, o is not more than what was read, and it is the data  *)
(* from its start unless something was lost.                               *)
Lossless(o, e) == Len(o) + Len(e.pending) = e.next - 1
Kept(o, e) ==
  Len(o) + Len(e.pending) <= e.next - 1 /\ (Lossless(o, e) => o = Units(1, Len(o)))

-----------------------------------------------------------------------------
(* Units of data.                                                          *)

LEMMA UnitsType ==
  ASSUME NEW f \in Nat, NEW n \in Nat
  PROVE  /\ Units(f, n) \in Seq(Int) /\ (f > 0 => Units(f, n) \in Seq(Nat)) /\ Len(Units(f, n)) = n
         /\ \A i \in 1 .. n : Units(f, n)[i] = f + i - 1
  BY DEF Units

Adds(m, n, l) == l = m + n

LEMMA UnitsJoined ==
  ASSUME NEW f \in Nat \ {0}, NEW m \in Nat, NEW n \in Nat, NEW g \in Nat, NEW l \in Nat,
         Adds(f, m, g), Adds(m, n, l)
  PROVE  Units(f, m) \o Units(g, n) = Units(f, l)
  <1>1. PICK s \in Seq(Nat) : s = Units(f, m) /\ Len(s) = m /\ \A i \in 1 .. m : s[i] = f + i - 1
    BY UnitsType
  <1>2. g > 0 /\ g = f + m /\ l = m + n
    BY DEF Adds
  <1>3. g \in Nat /\ g > 0
    BY <1>2
  <1>4. PICK t \in Seq(Nat) : t = Units(g, n) /\ Len(t) = n /\ \A i \in 1 .. n : t[i] = g + i - 1
    BY <1>3, UnitsType
  <1>5. PICK u \in Seq(Nat) : u = Units(f, l) /\ Len(u) = l /\ \A i \in 1 .. l : u[i] = f + i - 1
    BY UnitsType
  <1>6. s \o t \in Seq(Nat) /\ Len(s \o t) = l /\ \A i \in 1 .. l : (s \o t)[i] = IF i <= m THEN s[i] ELSE t[i - m]
    <2>1. s \in Seq(Nat) /\ t \in Seq(Nat) /\ Len(s) = m /\ Len(t) = n
      BY <1>1, <1>4
    <2>2. s \o t \in Seq(Nat) /\ Len(s \o t) = m + n
          /\ \A i \in 1 .. m + n : (s \o t)[i] = IF i <= m THEN s[i] ELSE t[i - m]
      BY ONLY <2>1, ConcatProperties
    <2> QED BY <1>2, <2>2
  <1>7. ASSUME NEW i \in 1 .. l PROVE (s \o t)[i] = u[i]
    <2>1. CASE i <= m
      BY <1>1, <1>5, <1>6, <2>1
    <2>2. CASE ~(i <= m)
      <3>1. i - m \in 1 .. n
        BY <1>2, <2>2
      <3>2. t[i - m] = f + i - 1
        BY <1>2, <1>4, <3>1
      <3> QED BY <1>5, <1>6, <2>2, <3>2
    <2> QED BY <2>1, <2>2
  <1>8. s \o t = u
    <2>1. PICK v \in Seq(Nat) : v = s \o t
      BY <1>6
    <2>2. Len(v) = Len(u) /\ \A i \in 1 .. Len(v) : v[i] = u[i]
      BY <1>5, <1>6, <1>7, <2>1
    <2> QED BY <2>1, <2>2, SeqEqual
  <1> QED BY <1>1, <1>4, <1>5, <1>8

LEMMA UnitsCut ==
  ASSUME NEW f \in Nat \ {0}, NEW n \in Nat, NEW i \in 1 .. n + 1, NEW j \in 0 .. n, i <= j + 1
  PROVE  SubSeq(Units(f, n), i, j) = Units(f + i - 1, j - i + 1)
  <1>1. PICK s \in Seq(Nat) : s = Units(f, n) /\ Len(s) = n /\ \A k \in 1 .. n : s[k] = f + k - 1
    BY UnitsType
  <1>2. \A k \in i .. j : s[k] \in Nat
    BY <1>1
  <1>3. PICK t : t = SubSeq(s, i, j)
    OBVIOUS
  <1>4. t \in Seq(Nat) /\ Len(t) = (IF i <= j THEN j - i + 1 ELSE 0) /\ \A k \in 1 .. j - i + 1 : t[k] = s[i + k - 1]
    <2>1. i \in Int /\ j \in Int
      OBVIOUS
    <2> QED BY <1>2, <1>3, <2>1, SubSeqProperties
  <1>5. PICK g \in Nat \ {0}, m \in Nat : g = f + i - 1 /\ m = j - i + 1
    OBVIOUS
  <1>6. PICK u \in Seq(Nat) : u = Units(g, m) /\ Len(u) = m /\ \A k \in 1 .. m : u[k] = g + k - 1
    BY UnitsType
  <1>7. ASSUME NEW k \in 1 .. m PROVE t[k] = u[k]
    <2>1. i + k - 1 \in 1 .. n
      BY <1>5
    <2> QED BY <1>1, <1>4, <1>5, <1>6, <2>1
  <1>8. t = u
    <2>1. Len(t) = Len(u) /\ \A k \in 1 .. Len(t) : t[k] = u[k]
      <3>1. m = IF i <= j THEN j - i + 1 ELSE 0
        BY <1>5
      <3> QED BY <1>4, <1>6, <1>7, <3>1
    <2> QED BY <1>4, <2>1, SeqEqual
  <1> QED BY <1>1, <1>3, <1>5, <1>6, <1>8

LEMMA UnitsHead ==
  ASSUME NEW f \in Nat \ {0}, NEW n \in Nat, NEW m \in 0 .. n
  PROVE  SubSeq(Units(f, n), 1, m) = Units(f, m)
  <1>1. 1 \in 1 .. n + 1 /\ m \in 0 .. n /\ 1 <= m + 1 /\ f + 1 - 1 = f /\ m - 1 + 1 = m
    OBVIOUS
  <1>2. SubSeq(Units(f, n), 1, m) = Units(f + 1 - 1, m - 1 + 1)
    BY <1>1, UnitsCut
  <1> QED BY <1>1, <1>2

LEMMA UnitsTail ==
  ASSUME NEW f \in Nat \ {0}, NEW n \in Nat, NEW m \in 0 .. n
  PROVE  SubSeq(Units(f, n), m + 1, n) = Units(f + m, n - m)
  <1>1. PICK i \in 1 .. n + 1 : i = m + 1
    OBVIOUS
  <1>2. n \in 0 .. n /\ i <= n + 1 /\ f + i - 1 = f + m /\ n - i + 1 = n - m
    BY <1>1
  <1>3. SubSeq(Units(f, n), i, n) = Units(f + i - 1, n - i + 1)
    BY <1>2, UnitsCut
  <1> QED BY <1>1, <1>2, <1>3

-----------------------------------------------------------------------------
(* The reader.                                                             *)

LEMMA Divided ==
  ASSUME NEW x \in Nat, NEW y \in Nat \ {0}, NEW q, q = x \div y
  PROVE  q \in Nat /\ q * y <= x /\ x < q * y + y
  OBVIOUS

LEMMA Times == ASSUME NEW x \in Int, NEW y \in Int, NEW c \in Nat, x <= y PROVE x * c <= y * c
  OBVIOUS

LEMMA Chunks ==
  ASSUME NEW k, IsBlock(k)
  PROVE  /\ ChunkIn(k) \in Nat \ {0} /\ ChunkOut(k) \in Nat \ {0}
         /\ k.chunks * ChunkIn(k) < k.comp /\ k.chunks * ChunkOut(k) <= k.out
  <1>1. PICK n \in Nat \ {0}, c \in Nat, o \in Nat : n = k.chunks /\ c = k.comp - 1 /\ o = k.out /\ n <= c /\ n <= o
    BY DEF IsBlock
  <1>2. PICK i \in Nat : i = c \div n /\ i * n <= c /\ c < i * n + n
    BY Divided
  <1>3. PICK j \in Nat : j = o \div n /\ j * n <= o /\ o < j * n + n
    BY Divided
  <1>4. i # 0 /\ j # 0
    <2>1. 0 * n = 0
      OBVIOUS
    <2>2. PICK x \in Int, y \in Int : x = i * n /\ y = j * n
      OBVIOUS
    <2>3. x + n > n /\ y + n > n
      <3>1. n <= c /\ n <= o
        BY <1>1
      <3>2. c < x + n /\ o < y + n
        BY <1>2, <1>3, <2>2
      <3>3. n \in Nat /\ c \in Nat /\ o \in Nat
        OBVIOUS
      <3> QED BY ONLY <3>1, <3>2, <3>3, x \in Int, y \in Int
    <2> QED BY <2>1, <2>3, <2>2
  <1>5. n * i = i * n /\ n * j = j * n
    OBVIOUS
  <1>6. PICK x \in Int, y \in Int : x = n * i /\ y = n * j
    OBVIOUS
  <1>7. x < k.comp /\ y <= k.out
    <2>1. x <= c /\ y <= o
      BY <1>2, <1>3, <1>5, <1>6
    <2> QED BY <1>1, <2>1 DEF IsBlock
  <1> QED BY <1>1, <1>2, <1>3, <1>4, <1>6, <1>7 DEF ChunkIn, ChunkOut

LEMMA WholeRest ==
  ASSUME NEW C \in Nat \ {0}, NEW src \in Nat, NEW rest \in Nat, rest * C < src
  PROVE  Least(src \div C, rest) = rest
  <1>1. PICK q \in Nat : q = src \div C /\ q * C <= src /\ src < q * C + C
    BY Divided
  <1>2. q >= rest
    <2> SUFFICES ASSUME q < rest PROVE FALSE
      OBVIOUS
    <2>1. (q + 1) * C <= rest * C
      BY Times
    <2>2. (q + 1) * C = q * C + C
      OBVIOUS
    <2>3. PICK x \in Int, y \in Int : x = rest * C /\ y = q * C
      OBVIOUS
    <2> QED BY <1>1, <2>1, <2>2, <2>3
  <1> QED BY <1>1, <1>2 DEF Least

(* What reading leaves alone.                                              *)
Same(f, e) ==
  f.coding = e.coding /\ f.in = e.in /\ f.out = e.out /\ f.stuck = e.stuck /\ f.eof = e.eof

Loaded(k, e) == e.opened * ChunkIn(k) + e.src

LEMMA LoadedType == ASSUME NEW k, IsBlock(k), NEW e \in Decoder PROVE Loaded(k, e) \in Nat
  <1>1. PICK C \in Nat, n \in Nat, s \in Nat : C = ChunkIn(k) /\ n = e.opened /\ s = e.src
    BY Chunks DEF Decoder
  <1> QED BY <1>1 DEF Loaded

LEMMA TakeStep ==
  ASSUME NEW k, IsBlock(k), NEW e, Sound(k, e), NEW n \in Nat, n <= Readable(k, e), NEW f, f = Take(k, e, n)
  PROVE  /\ Sound(k, f) /\ f.next = e.next + n /\ Loaded(k, f) = Loaded(k, e) /\ Same(f, e)
         /\ f.torn = e.torn /\ f.end = e.end /\ f.pending = e.pending /\ f.finished = e.finished
         /\ n = Readable(k, e) => f.opened = e.opened + Whole(k, e)
  <1>1. PICK N \in Nat, C \in Nat \ {0}, O \in Nat \ {0} : N = k.chunks /\ C = ChunkIn(k) /\ O = ChunkOut(k)
    BY Chunks DEF IsBlock
  <1>2. e \in Decoder
    BY DEF Sound
  <1>3. PICK src \in Nat, opened \in Nat, last \in Nat :
          /\ src = e.src /\ opened = e.opened /\ last = e.next - 1
          /\ opened <= N /\ last <= opened * O /\ opened * C + src <= k.comp
    BY <1>1, <1>2, SMTT(30) DEF Decoder, Sound
  <1>4. PICK w : w = Least(src \div C, N - opened)
    OBVIOUS
  <1>5. w = Whole(k, e) /\ last + n <= (opened + w) * O
    <2>1. w = Whole(k, e)
      BY <1>1, <1>3, <1>4 DEF Whole
    <2>2. PICK q \in Nat : q = src \div C
      BY Divided
    <2>3. w \in Nat
      BY <1>3, <1>4, <2>2 DEF Least
    <2>4. PICK x \in Int : x = (opened + w) * O
      BY <2>3
    <2>5. n <= x - last
      BY <1>1, <1>3, <2>1, <2>4 DEF Readable
    <2> QED BY <2>1, <2>4, <2>5
  <1>6. PICK m : m = (last + n + O - 1) \div O
    OBVIOUS
  <1>7. PICK more : more = Most(0, m - opened)
    OBVIOUS
  <1>8. /\ more \in Nat /\ more * C <= src /\ opened + more <= N /\ last + n <= (opened + more) * O
        /\ (opened + more) * C = opened * C + more * C
        /\ last + n = (opened + w) * O => more = w
    <2>1. PICK q \in Nat : q = src \div C /\ q * C <= src /\ src < q * C + C
      BY Divided
    <2>2. w \in Nat /\ w <= q /\ opened + w <= N
      BY <1>3, <1>4, <2>1 DEF Least
    <2>3. w * C <= src
      <3>1. w * C <= q * C
        BY <2>2, Times
      <3>2. PICK x \in Int, y \in Int : x = w * C /\ y = q * C
        BY <2>2
      <3> QED BY <2>1, <3>1, <3>2
    <2>4. m \in Nat /\ m * O <= last + n + O - 1 /\ last + n + O - 1 < m * O + O
      <3>1. PICK x \in Nat : x = last + n + O - 1
        OBVIOUS
      <3> QED BY <1>6, <3>1, Divided
    <2>5. more \in Nat
      BY <1>7, <2>4 DEF Most
    <2>6. more <= w
      <3> SUFFICES ASSUME more > w PROVE FALSE
        BY <2>2, <2>5
      <3>1. m >= opened + w + 1
        BY <1>7, <2>2, <2>4, <2>5 DEF Most
      <3>2. (opened + w + 1) * O <= m * O
        BY <2>2, <2>4, <3>1, Times
      <3>3. (opened + w + 1) * O = (opened + w) * O + O
        BY <2>2
      <3>4. PICK x \in Int, y \in Int : x = (opened + w) * O /\ y = m * O
        BY <2>2, <2>4
      <3> QED BY <1>5, <2>4, <3>2, <3>3, <3>4
    <2>7. more * C <= w * C
      BY <2>2, <2>5, <2>6, Times
    <2>8. last + n <= (opened + more) * O
      <3>1. m <= opened + more
        BY <1>7, <2>4, <2>5 DEF Most
      <3>2. m * O <= (opened + more) * O
        BY <2>4, <2>5, <3>1, Times
      <3>3. PICK x \in Int, y \in Int : x = m * O /\ y = (opened + more) * O
        BY <2>4, <2>5
      <3> QED BY <2>4, <3>2, <3>3
    <2>9. last + n = (opened + w) * O => more = w
      <3> SUFFICES ASSUME last + n = (opened + w) * O, more < w PROVE FALSE
        BY <2>2, <2>5, <2>6
      <3>1. (opened + more + 1) * O <= (opened + w) * O
        BY <2>2, <2>5, Times
      <3>2. (opened + more + 1) * O = (opened + more) * O + O
        BY <2>5
      <3>3. PICK x \in Int, y \in Int : x = (opened + more) * O /\ y = (opened + w) * O
        BY <2>2, <2>5
      <3> QED BY <2>8, <3>1, <3>2, <3>3
    <2>10. PICK x \in Int, y \in Int : x = more * C /\ y = w * C
      BY <2>2, <2>5
    <2>11. (opened + more) * C = opened * C + more * C
      BY <2>5
    <2>12. more * C <= src
      BY <2>3, <2>7, <2>10
    <2>13. opened + more <= N
      BY <2>2, <2>5, <2>6
    <2> QED BY <2>5, <2>8, <2>9, <2>11, <2>12, <2>13
  <1>9. PICK left \in Nat, begun \in Nat, next \in Nat : left = src - more * C /\ begun = opened + more /\ next = last + n + 1
    BY <1>8
  <1>10. f = [e EXCEPT !.src = left, !.opened = begun, !.next = next]
    <2>1. Needed(k, e.next - 1 + n) = m
      BY <1>1, <1>3, <1>6 DEF Needed
    <2>2. f = Open(k, e, more, last + n)
      BY <1>3, <1>7, <2>1 DEF Take
    <2> QED BY <1>1, <1>3, <1>9, <2>2 DEF Open
  <1>11. /\ f \in Decoder /\ f.src = left /\ f.opened = begun /\ f.next = next /\ Same(f, e)
         /\ f.torn = e.torn /\ f.end = e.end /\ f.pending = e.pending /\ f.finished = e.finished
    BY <1>2, <1>10 DEF Decoder, Same
  <1>12. PICK x \in Int, y \in Int, z \in Int : x = opened * C /\ y = more * C /\ z = begun * C /\ z = x + y
    BY <1>8, <1>9
  <1>13. Loaded(k, f) = Loaded(k, e)
    <2>1. Loaded(k, f) = z + left
      BY <1>1, <1>9, <1>11, <1>12 DEF Loaded
    <2>2. Loaded(k, e) = x + src
      BY <1>1, <1>3, <1>12 DEF Loaded
    <2> QED BY <1>9, <1>12, <2>1, <2>2
  <1>14. Sound(k, f)
    <2>1. f.opened <= k.chunks /\ 1 <= f.next /\ f.next - 1 <= f.opened * ChunkOut(k)
      BY <1>1, <1>8, <1>9, <1>11
    <2>2. f.opened * ChunkIn(k) + f.src <= k.comp
      BY <1>13 DEF Loaded, Sound
    <2> QED BY <1>11, <2>1, <2>2 DEF Sound
  <1>15. n = Readable(k, e) => f.opened = e.opened + Whole(k, e)
    <2>1. PICK q \in Nat : q = src \div C
      BY Divided
    <2>2. w \in Nat
      BY <1>3, <1>4, <2>1 DEF Least
    <2>3. PICK v \in Int : v = (opened + w) * O
      BY <2>2
    <2>4. n = Readable(k, e) => n = v - last
      BY <1>1, <1>3, <1>5, <2>3 DEF Readable
    <2> QED BY <1>3, <1>5, <1>8, <1>9, <1>11, <2>3, <2>4
  <1>16. f.next = e.next + n
    <2>1. e.next \in Nat
      BY <1>2 DEF Decoder
    <2> QED BY <1>3, <1>9, <1>11, <2>1
  <1> QED BY <1>11, <1>13, <1>14, <1>15, <1>16

LEMMA ReadableType ==
  ASSUME NEW k, IsBlock(k), NEW e, Sound(k, e)
  PROVE  Readable(k, e) \in Nat
  <1>1. PICK N \in Nat, C \in Nat \ {0}, O \in Nat \ {0} : N = k.chunks /\ C = ChunkIn(k) /\ O = ChunkOut(k)
    BY Chunks DEF IsBlock
  <1>2. PICK src \in Nat, opened \in Nat, last \in Nat :
          src = e.src /\ opened = e.opened /\ last = e.next - 1 /\ opened <= N /\ last <= opened * O
    BY <1>1, SMTT(30) DEF Decoder, Sound
  <1>3. PICK q \in Nat : q = src \div C
    BY Divided
  <1>4. PICK w \in Nat : w = Whole(k, e)
    BY <1>1, <1>2, <1>3 DEF Whole, Least
  <1>5. opened * O <= (opened + w) * O
    BY Times
  <1>6. PICK x \in Int, y \in Int : x = opened * O /\ y = (opened + w) * O
    OBVIOUS
  <1>7. Readable(k, e) = y - last
    BY <1>1, <1>2, <1>4, <1>6 DEF Readable
  <1> QED BY <1>2, <1>5, <1>6, <1>7

(* Everything of the Block is here, or nothing is yet.                     *)
Complete(k, e)  == ~e.torn /\ Loaded(k, e) + (IF e.end THEN 1 ELSE 0) = k.comp
Untouched(e)    == e.opened = 0 /\ e.src = 0 /\ e.next = 1 /\ ~e.torn /\ ~e.end

(* With everything here, all that is left is readable, and then there is   *)
(* the end marker.                                                         *)
LEMMA CompleteReads ==
  ASSUME NEW k, IsBlock(k), NEW e, Sound(k, e), Complete(k, e), ~e.end
  PROVE  Whole(k, e) = k.chunks - e.opened
  <1>1. PICK N \in Nat, C \in Nat \ {0} : N = k.chunks /\ C = ChunkIn(k) /\ N * C < k.comp
    BY Chunks DEF IsBlock
  <1>2. PICK src \in Nat, opened \in Nat : src = e.src /\ opened = e.opened /\ opened <= N
    BY <1>1 DEF Decoder, Sound
  <1>3. PICK rest \in Nat : rest = N - opened
    BY <1>2
  <1>4. PICK x \in Int, y \in Int, z \in Int : x = opened * C /\ y = rest * C /\ z = N * C
    OBVIOUS
  <1>5. z = x + y
    <2>1. N = opened + rest
      BY <1>2, <1>3
    <2>2. (opened + rest) * C = opened * C + rest * C
      OBVIOUS
    <2> QED BY <1>4, <2>1, <2>2
  <1>6. x + src = k.comp
    BY <1>1, <1>2, <1>4 DEF Complete, Loaded
  <1>7. rest * C < src
    BY <1>1, <1>4, <1>5, <1>6
  <1>8. Least(src \div C, rest) = rest
    BY <1>7, WholeRest
  <1> QED BY <1>1, <1>2, <1>3, <1>8 DEF Whole

LEMMA UntouchedReads ==
  ASSUME NEW k, IsBlock(k), NEW e, Sound(k, e), Untouched(e)
  PROVE  Whole(k, e) = 0 /\ Readable(k, e) = 0 /\ Loaded(k, e) = 0
  <1>1. PICK N \in Nat, C \in Nat \ {0}, O \in Nat : N = k.chunks /\ C = ChunkIn(k) /\ O = ChunkOut(k)
    BY Chunks DEF IsBlock
  <1>2. 0 \div C = 0
    <2>1. PICK q \in Nat : q = 0 \div C /\ q * C <= 0
      BY Divided
    <2>2. CASE q >= 1
      <3>1. 1 * C <= q * C
        BY <2>2, Times
      <3> QED BY <2>1, <3>1
    <2> QED BY <2>1, <2>2
  <1>3. Whole(k, e) = 0
    BY <1>1, <1>2 DEF Untouched, Whole, Least
  <1>4. Readable(k, e) = 0
    BY <1>1, <1>3 DEF Untouched, Readable
  <1>5. Loaded(k, e) = 0
    BY <1>1 DEF Untouched, Loaded
  <1> QED BY <1>3, <1>4, <1>5

(* What a read for n units does: r gives m of them, and what was lost, if  *)
(* anything, lies before them.                                             *)
Reads(k, e, r, m) ==
  /\ Sound(k, r.d) /\ Loaded(k, r.d) <= Loaded(k, e) /\ Same(r.d, e)
  /\ r.d.pending = e.pending /\ r.d.finished = e.finished
  /\ r.units = Units(r.d.next - m, m) /\ e.next + m <= r.d.next
  /\ r.ret \in {"OK", "WouldBlock", "BUF_ERROR", "DATA_ERROR"}
  /\ r.ret # "OK" => m = 0
  /\ r.ret = "OK" => r.d.next = e.next + m
  /\ e.eof => r.ret # "WouldBlock"
  /\ Complete(k, e) => Complete(k, r.d) /\ r.ret = "OK"
  /\ Untouched(e) => Untouched(r.d) /\ r.ret # "OK"

LEMMA UnitsNone == ASSUME NEW f PROVE Units(f, 0) = <<>>
  BY DEF Units

LEMMA ReadStep ==
  ASSUME NEW k, IsBlock(k), NEW e, Sound(k, e), NEW n \in Nat \ {0}, NEW r, r = ReadUnits(k, e, n)
  PROVE  \E m \in 0 .. n : Reads(k, e, r, m) /\ (n = 1 => r.d.next = e.next + m)
  <1>1. e \in Decoder /\ e.next \in Nat /\ e.src \in Nat /\ e.opened \in Nat /\ Loaded(k, e) \in Nat
    <2>1. PICK C \in Nat : C = ChunkIn(k)
      BY Chunks
    <2>2. e \in Decoder /\ e.next \in Nat /\ e.src \in Nat /\ e.opened \in Nat
      BY DEF Sound, Decoder
    <2> QED BY <2>1, <2>2 DEF Loaded
  <1>2. CASE r.d = e /\ r.units = <<>> /\ (e.end \/ e.torn)
             /\ ((e.end /\ r.ret = "OK") \/ (~e.end /\ e.torn /\ r.ret \in {"DATA_ERROR", Dry(e)}))
    <2>1. Reads(k, e, r, 0) /\ r.d.next = e.next + 0
      BY <1>1, <1>2, UnitsNone DEF Reads, Same, Complete, Untouched, Dry
    <2> QED BY <2>1
  <1>3. PICK rest \in Nat : rest = Readable(k, e)
    BY ReadableType
  <1>4. PICK g : g = Take(k, e, rest)
    OBVIOUS
  <1>5. /\ Sound(k, g) /\ g.next = e.next + rest /\ Loaded(k, g) = Loaded(k, e) /\ Same(g, e)
        /\ g.torn = e.torn /\ g.end = e.end /\ g.pending = e.pending /\ g.finished = e.finished
        /\ g.opened = e.opened + Whole(k, e)
    BY <1>3, <1>4, TakeStep
  <1>6. CASE ~e.end /\ ~e.torn /\ n <= rest /\ r = Result(Take(k, e, n), Units(e.next, n), "OK")
    <2>1. PICK f : f = Take(k, e, n)
      OBVIOUS
    <2>2. /\ Sound(k, f) /\ f.next = e.next + n /\ Loaded(k, f) = Loaded(k, e) /\ Same(f, e)
          /\ f.torn = e.torn /\ f.end = e.end /\ f.pending = e.pending /\ f.finished = e.finished
      BY <1>3, <1>6, <2>1, TakeStep
    <2>3. r.d = f /\ r.units = Units(e.next, n) /\ r.ret = "OK"
      BY <1>6, <2>1 DEF Result
    <2>4. ~Untouched(e)
      BY <1>3, <1>6, UntouchedReads
    <2>5. Reads(k, e, r, n)
      BY <1>1, <2>2, <2>3, <2>4 DEF Reads, Complete
    <2> QED BY <2>2, <2>3, <2>5
  <1>7. CASE ~e.end /\ ~e.torn /\ n > rest /\ AtMarker(k, g)
             /\ r = Result([g EXCEPT !.src = @ - 1, !.end = TRUE], Units(e.next, rest), "OK")
    <2>1. g \in Decoder /\ g.src \in Nat /\ g.src > 0 /\ g.opened = k.chunks
      BY <1>5, <1>7 DEF Sound, Decoder, AtMarker
    <2>2. PICK src \in Nat : src = g.src - 1
      BY <2>1
    <2>3. PICK f : f = [g EXCEPT !.src = src, !.end = TRUE]
      OBVIOUS
    <2>4. /\ f \in Decoder /\ f.src = src /\ f.end = TRUE /\ Same(f, g) /\ f.opened = g.opened /\ f.next = g.next
          /\ f.torn = g.torn /\ f.pending = g.pending /\ f.finished = g.finished
      BY <2>1, <2>3 DEF Decoder, Same
    <2>5. r.d = f /\ r.units = Units(e.next, rest) /\ r.ret = "OK"
      BY <1>7, <2>2, <2>3 DEF Result
    <2>6. Loaded(k, f) + 1 = Loaded(k, e)
      <3>1. PICK x \in Int : x = g.opened * ChunkIn(k)
        BY <2>1, Chunks DEF IsBlock
      <3>2. Loaded(k, f) = x + src /\ Loaded(k, g) = x + g.src
        BY <2>4, <3>1 DEF Loaded
      <3> QED BY <1>5, <2>1, <2>2, <3>1, <3>2
    <2>7. Sound(k, f)
      <3>1. f.opened * ChunkIn(k) + f.src <= k.comp
        <4>1. Loaded(k, e) <= k.comp /\ k.comp \in Nat
          BY DEF Sound, Loaded, IsBlock
        <4>2. Loaded(k, f) = Loaded(k, e) - 1
          <5>1. PICK x \in Int : x = Loaded(k, f)
            BY <2>1, <2>4, Chunks DEF Loaded, IsBlock
          <5> QED BY <1>1, <2>6, <5>1
        <4> QED BY <1>1, <4>1, <4>2 DEF Loaded
      <3> QED BY <1>5, <2>4, <3>1 DEF Sound
    <2>8. ~Untouched(e)
      <3>1. Untouched(e) => g.opened = 0
        BY <1>5, UntouchedReads DEF Untouched
      <3> QED BY <2>1, <3>1 DEF IsBlock
    <2>9. PICK x \in Int : x = Loaded(k, f)
      BY <2>1, <2>4, Chunks DEF Loaded, IsBlock
    <2>10. Complete(k, e) => Complete(k, f)
      BY <1>1, <1>5, <1>7, <2>4, <2>6 DEF Complete
    <2>11. Reads(k, e, r, rest)
      BY <1>1, <1>5, <2>4, <2>5, <2>6, <2>7, <2>8, <2>9, <2>10 DEF Reads, Same
    <2> QED BY <1>5, <1>7, <2>4, <2>5, <2>11
  <1>8. CASE ~e.end /\ ~e.torn /\ n > rest /\ ~AtMarker(k, g) /\ r = RunDry(g)
    <2>1. g \in Decoder /\ g.src \in Nat
      BY <1>5 DEF Sound, Decoder
    <2>2. PICK torn \in BOOLEAN : torn = (g.src > 0)
      <3>1. (g.src > 0) \in BOOLEAN
        BY <2>1
      <3> QED BY <3>1, Zenon
    <2>3. PICK f : f = [g EXCEPT !.src = 0, !.torn = torn]
      OBVIOUS
    <2>4. /\ f \in Decoder /\ f.src = 0 /\ f.torn = torn /\ Same(f, g) /\ f.opened = g.opened /\ f.next = g.next
          /\ f.end = g.end /\ f.pending = g.pending /\ f.finished = g.finished
      BY <2>1, <2>3 DEF Decoder, Same
    <2>5. r.d = f /\ r.units = <<>> /\ r.ret = Dry(g)
      BY <1>8, <2>2, <2>3 DEF RunDry, Result
    <2>6. Loaded(k, f) <= Loaded(k, e)
      <3>1. g.opened \in Nat /\ ChunkIn(k) \in Nat
        BY <2>1, Chunks DEF Decoder
      <3>2. PICK x \in Int : x = g.opened * ChunkIn(k)
        BY <3>1
      <3>3. Loaded(k, f) = x /\ Loaded(k, g) = x + g.src
        BY <2>4, <3>2 DEF Loaded
      <3> QED BY <1>5, <2>1, <3>2, <3>3
    <2>7. Sound(k, f)
      <3>1. Loaded(k, e) <= k.comp /\ k.comp \in Nat
        BY DEF Sound, Loaded, IsBlock
      <3>2. f.opened \in Nat /\ ChunkIn(k) \in Nat
        BY <2>4, Chunks DEF Decoder
      <3>3. PICK x \in Int : x = Loaded(k, f)
        BY <2>4, <3>2 DEF Loaded
      <3>4. Loaded(k, f) <= k.comp
        BY <1>1, <2>6, <3>1, <3>3
      <3> QED BY <1>5, <2>4, <3>4 DEF Sound, Loaded
    <2>8. ~Complete(k, e)
      <3> SUFFICES ASSUME Complete(k, e) PROVE FALSE
        OBVIOUS
      <3>1. PICK N \in Nat, o \in Nat : N = k.chunks /\ o = e.opened
        BY <1>1 DEF IsBlock
      <3>2. g.opened = N
        <4>1. Whole(k, e) = N - o
          BY <1>8, <3>1, CompleteReads
        <4> QED BY <1>5, <3>1, <4>1
      <3>3. PICK x \in Int, c \in Nat : x = N * ChunkIn(k) /\ c = k.comp /\ x < c
        BY <3>1, Chunks DEF IsBlock
      <3>4. x + g.src = c
        <4>1. Loaded(k, e) = c
          BY <1>1, <1>8, <3>3 DEF Complete
        <4>2. Loaded(k, g) = x + g.src
          BY <3>2, <3>3 DEF Loaded
        <4> QED BY <1>5, <4>1, <4>2
      <3>5. g.src > 0
        BY <2>1, <3>3, <3>4
      <3> QED BY <1>8, <3>1, <3>2, <3>5 DEF AtMarker
    <2>9. Untouched(e) => Untouched(f)
      <3> SUFFICES ASSUME Untouched(e) PROVE Untouched(f)
        OBVIOUS
      <3>1. g.opened = 0 /\ rest = 0 /\ Loaded(k, g) = 0
        BY <1>3, <1>5, UntouchedReads DEF Untouched
      <3>2. g.src = 0
        <4>1. PICK C \in Nat : C = ChunkIn(k)
          BY Chunks
        <4> QED BY <2>1, <3>1, <4>1 DEF Loaded
      <3>3. ~torn
        <4>1. ~(g.src > 0)
          BY <3>2
        <4> QED BY <2>2, <4>1, Zenon
      <3>4. g.next = 1 /\ ~g.end
        BY <1>5, <3>1 DEF Untouched
      <3> QED BY <2>4, <3>1, <3>3, <3>4 DEF Untouched
    <2>10. Dry(g) \in {"BUF_ERROR", "WouldBlock"} /\ (e.eof => Dry(g) = "BUF_ERROR")
      BY <1>5 DEF Dry, Same
    <2>11. Reads(k, e, r, 0)
      BY <1>1, <1>5, <2>4, <2>5, <2>6, <2>7, <2>8, <2>9, <2>10, UnitsNone DEF Reads, Same
    <2> QED BY <1>1, <1>5, <1>8, <2>4, <2>5, <2>11
  <1>9. e.end \in BOOLEAN /\ e.torn \in BOOLEAN
    BY <1>1 DEF Decoder
  <1>10. ReadUnits(k, e, n) =
           CASE e.end            -> Result(e, <<>>, "OK")
             [] ~e.end /\ e.torn -> Result(e, <<>>, IF e.src > 0 THEN "DATA_ERROR" ELSE Dry(e))
             [] OTHER            -> ReadOn(k, e, n, rest, g)
    BY <1>3, <1>4 DEF ReadUnits
  <1>11. CASE e.end
    BY <1>2, <1>10, <1>11 DEF Result
  <1>12. CASE ~e.end /\ e.torn
    BY <1>2, <1>10, <1>12 DEF Result
  <1>13. CASE ~e.end /\ ~e.torn
    <2>1. r = ReadOn(k, e, n, rest, g)
      BY <1>10, <1>13
    <2> QED BY <1>6, <1>7, <1>8, <1>13, <2>1 DEF ReadOn
  <1> QED BY <1>9, <1>11, <1>12, <1>13

-----------------------------------------------------------------------------
(* The raw decoder: giving out, refilling.                                 *)

(* f is e after part of what was pending.                                  *)
GivenOut(e, f, part) ==
  /\ f \in Decoder /\ Ahead(f) /\ Same(f, e) /\ part \in Seq(Nat)
  /\ f.next = e.next /\ f.opened = e.opened /\ f.src = e.src /\ f.torn = e.torn /\ f.end = e.end
  /\ f.finished = e.finished
  /\ Len(part) + Len(f.pending) = Len(e.pending)
  /\ part = Units(e.next - Len(e.pending), Len(part))

Gives(e, in, before, s, r) ==
  \E part : /\ GivenOut(e, r.d, part) /\ r.units = before \o part /\ r.in = in
            /\ r.ret \in {"OK", "STREAM_END"} /\ Len(part) <= s

LEMMA GiveStep ==
  ASSUME NEW e \in Decoder, Ahead(e), NEW s \in Nat, NEW before, NEW in
  PROVE  Gives(e, in, before, s, GiveOut(e, in, before, s))
  <1>1. PICK r : r = GiveOut(e, in, before, s)
    OBVIOUS
  <1>2. e.next \in Nat /\ e.pending \in Seq(Nat)
    BY DEF Decoder
  <1>3. PICK p \in Nat, x \in Nat : p = Len(e.pending) /\ x = e.next /\ p < x
    BY <1>2 DEF Ahead
  <1>4. PICK first \in Nat \ {0} : first = x - p
    BY <1>3
  <1>5. PICK m \in 0 .. p : m = Least(p, s) /\ m <= s
    BY DEF Least
  <1>6. PICK part, rest : part = SubSeq(e.pending, 1, m) /\ rest = SubSeq(e.pending, m + 1, p)
    OBVIOUS
  <1>7. e.pending = Units(first, p)
    BY <1>3, <1>4 DEF Ahead
  <1>8. part = Units(first, m)
    <2>1. SubSeq(Units(first, p), 1, m) = Units(first, m)
      BY UnitsHead
    <2> QED BY <1>6, <1>7, <2>1
  <1>9. PICK g \in Nat \ {0}, left \in Nat : g = first + m /\ left = p - m
    OBVIOUS
  <1>10. rest = Units(g, left)
    <2>1. SubSeq(Units(first, p), m + 1, p) = Units(first + m, p - m)
      BY UnitsTail
    <2> QED BY <1>6, <1>7, <1>9, <2>1
  <1>11. part \in Seq(Nat) /\ Len(part) = m /\ rest \in Seq(Nat) /\ Len(rest) = left
    BY <1>8, <1>10, UnitsType
  <1>12. PICK f : f = [e EXCEPT !.pending = rest]
    OBVIOUS
  <1>13. /\ f \in Decoder /\ Same(f, e) /\ f.pending = rest
         /\ f.next = e.next /\ f.opened = e.opened /\ f.src = e.src /\ f.torn = e.torn /\ f.end = e.end
         /\ f.finished = e.finished
    BY <1>11, <1>12 DEF Decoder, Same
  <1>14. Ahead(f)
    <2>1. p < x /\ first = x - p /\ g = first + m /\ left = p - m
      BY <1>3, <1>4, <1>9
    <2>2. x - left = g /\ left < x
      BY <2>1
    <2> QED BY <1>3, <1>10, <1>11, <1>13, <2>2 DEF Ahead
  <1>15. GivenOut(e, f, part)
    BY <1>3, <1>4, <1>8, <1>9, <1>11, <1>13, <1>14 DEF GivenOut
  <1>16. r.d = f /\ r.in = in /\ r.units = before \o part /\ r.ret \in {"OK", "STREAM_END"}
    BY <1>1, <1>3, <1>5, <1>6, <1>12 DEF GiveOut, Given, Answer
  <1> QED BY <1>1, <1>5, <1>11, <1>15, <1>16 DEF Gives

LEMMA KeptGiven ==
  ASSUME NEW o \in Seq(Nat), NEW e \in Decoder, Ahead(e), Kept(o, e), NEW f, NEW part, GivenOut(e, f, part)
  PROVE  /\ o \o part \in Seq(Nat) /\ Len(o \o part) = Len(o) + Len(part)
         /\ Kept(o \o part, f) /\ (Lossless(o, e) <=> Lossless(o \o part, f))
  <1>1. PICK n \in Nat, p \in Nat, q \in Nat, m \in Nat, x \in Nat :
          /\ n = Len(o) /\ p = Len(e.pending) /\ q = Len(f.pending) /\ m = Len(part) /\ x = e.next
          /\ m + q = p /\ f.next = x /\ p < x /\ n + p <= x - 1
    <2>1. e.pending \in Seq(Nat) /\ f.pending \in Seq(Nat) /\ part \in Seq(Nat) /\ e.next \in Nat /\ f.next = e.next
      BY DEF GivenOut, Decoder
    <2>2. PICK n \in Nat, p \in Nat, q \in Nat, m \in Nat, x \in Nat :
            n = Len(o) /\ p = Len(e.pending) /\ q = Len(f.pending) /\ m = Len(part) /\ x = e.next
      BY <2>1
    <2>3. m + q = p
      BY <2>2 DEF GivenOut
    <2>4. p < x /\ n + p <= x - 1
      BY <2>2 DEF Ahead, Kept
    <2> QED BY <2>1, <2>2, <2>3, <2>4
  <1>2. m + q = p /\ p < x /\ n + p <= x - 1
    BY <1>1
  <1>3. part \in Seq(Nat) /\ part = Units(x - p, m)
    BY <1>1 DEF GivenOut
  <1>4. PICK s : s = o \o part
    OBVIOUS
  <1>5. s \in Seq(Nat) /\ Len(s) = n + m
    BY <1>1, <1>3, <1>4, ConcatProperties
  <1>6. Lossless(o, e) <=> Lossless(s, f)
    <2>1. Lossless(o, e) <=> n + p = x - 1
      BY <1>1 DEF Lossless
    <2>2. Lossless(s, f) <=> (n + m) + q = x - 1
      BY <1>1, <1>5 DEF Lossless
    <2>3. (n + m) + q = n + p
      BY <1>2
    <2> QED BY <2>1, <2>2, <2>3
  <1>7. Lossless(o, e) => s = Units(1, n + m)
    <2> SUFFICES ASSUME Lossless(o, e) PROVE s = Units(1, n + m)
      OBVIOUS
    <2>1. o = Units(1, n)
      BY <1>1 DEF Kept
    <2>2. n + p = x - 1
      BY <1>1 DEF Lossless
    <2>3. PICK one \in Nat \ {0} : one = 1
      OBVIOUS
    <2>4. PICK g \in Nat : g = x - p /\ g = one + n
      BY <2>2, <2>3
    <2>5. Units(one, n) \o Units(g, m) = Units(one, n + m)
      <3>1. PICK l \in Nat : l = n + m
        OBVIOUS
      <3>2. Adds(one, n, g) /\ Adds(n, m, l)
        BY <2>4, <3>1 DEF Adds
      <3>3. Units(one, n) \o Units(g, m) = Units(one, l)
        BY <3>2, UnitsJoined
      <3> QED BY <3>1, <3>3
    <2> QED BY <1>3, <1>4, <2>1, <2>4, <2>5, <2>3
  <1>8. Kept(s, f)
    <2>1. (n + m) + q <= x - 1
      BY <1>2
    <2>2. Lossless(s, f) => s = Units(1, Len(s))
      BY <1>5, <1>6, <1>7
    <2> QED BY <1>1, <1>5, <2>1, <2>2 DEF Kept
  <1> QED BY <1>1, <1>4, <1>5, <1>6, <1>8

(* What refilling does to a decoder with nothing pending.                  *)
Refills(k, e, R) ==
  /\ Sound(k, R.d) /\ Ahead(R.d) /\ Loaded(k, R.d) <= Loaded(k, e) /\ Same(R.d, e)
  /\ e.next + Len(R.d.pending) <= R.d.next
  /\ R.ret \in {"OK", "WouldBlock", "BUF_ERROR", "DATA_ERROR"}
  /\ (e.eof /\ ~Fails(R.ret)) \/ R.d.pending # <<>> => R.d.next = e.next + Len(R.d.pending)
  /\ Complete(k, e) => Complete(k, R.d) /\ R.d.next = e.next + Len(R.d.pending)
  /\ Untouched(e) => Untouched(R.d) /\ R.d.pending = <<>>

LEMMA RefillStep ==
  ASSUME NEW k, IsBlock(k), NEW e, Sound(k, e), NEW target \in Nat \ {0}, NEW R, R = Refill(k, e, target)
  PROVE  Refills(k, e, R)
  <1>1. PICK r : r = ReadUnits(k, e, target)
    OBVIOUS
  <1>2. PICK m \in 0 .. target : Reads(k, e, r, m)
    BY <1>1, ReadStep
  <1>3. r.d \in Decoder /\ r.d.next \in Nat /\ e.next \in Nat /\ e.next >= 1
    BY <1>2 DEF Reads, Sound, Decoder
  <1>4. PICK x \in Nat, y \in Nat \ {0} : x = e.next /\ y = r.d.next /\ x >= 1 /\ x + m <= y
    BY <1>2, <1>3 DEF Reads
  <1>5. PICK first \in Nat \ {0} : first = y - m
    BY <1>4
  <1>6. y = first + m
    <2>1. y \in Nat /\ m \in Nat /\ first = y - m
      BY <1>5
    <2> QED BY ONLY <2>1
  <1>7. PICK units \in Seq(Nat) : units = r.units /\ units = Units(first, m) /\ Len(units) = m
    <2>1. r.units = Units(first, m)
      BY <1>2, <1>4, <1>5 DEF Reads
    <2>2. m \in Nat /\ first \in Nat /\ first > 0
      OBVIOUS
    <2>3. Units(first, m) \in Seq(Nat) /\ Len(Units(first, m)) = m
      BY <2>2, UnitsType
    <2> QED BY <2>1, <2>3
  <1>8. PICK done \in BOOLEAN : done = (r.ret = "OK" /\ Len(r.units) < target)
    BY Zenon
  <1>9. PICK f : f = [r.d EXCEPT !.pending = units, !.finished = done]
    OBVIOUS
  <1>10. /\ f \in Decoder /\ f.pending = units /\ Same(f, r.d) /\ f.next = y /\ f.opened = r.d.opened
        /\ f.src = r.d.src /\ f.torn = r.d.torn /\ f.end = r.d.end
    BY <1>3, <1>4, <1>9 DEF Decoder, Same
  <1>11. Filled(r, target) = f
    BY <1>7, <1>8, <1>9 DEF Filled
  <1>12. Sound(k, f) /\ Ahead(f) /\ Loaded(k, f) = Loaded(k, r.d)
    <2>1. Ahead(f)
      BY <1>4, <1>5, <1>7, <1>10 DEF Ahead
    <2> QED BY <1>2, <1>4, <1>10, <2>1 DEF Reads, Sound, Loaded
  <1>13. /\ Same(f, e) /\ x + m <= y /\ (r.ret = "OK" => y = x + m)
         /\ Complete(k, e) => Complete(k, f) /\ r.ret = "OK"
         /\ Untouched(e) => Untouched(f) /\ r.ret # "OK" /\ m = 0
    BY <1>2, <1>4, <1>10, <1>12 DEF Reads, Same, Complete, Untouched
  <1>14. R = LookAhead(k, f, r.ret, target)
    BY <1>1, <1>11 DEF Refill, AfterRead
  <1>15. CASE R = Result(f, <<>>, r.ret)
    <2>1. R.d = f /\ R.ret = r.ret
      BY <1>15 DEF Result
    <2>2. Len(f.pending) = m /\ (m = 0 => f.pending = <<>>)
      BY <1>7, <1>10, UnitsNone
    <2>3. (e.eof /\ ~Fails(r.ret)) \/ f.pending # <<>> => y = x + m
      BY <1>2, <1>13, <2>2 DEF Fails, Reads
    <2> QED BY <1>2, <1>4, <1>10, <1>12, <1>13, <2>1, <2>2, <2>3 DEF Refills, Reads
  <1>16. CASE ~Fails(r.ret) /\ f.eof /\ Len(f.pending) = target /\ R = Look(ReadUnits(k, f, 1))
    <2>1. PICK l : l = ReadUnits(k, f, 1)
      OBVIOUS
    <2>2. PICK j \in 0 .. 1 : Reads(k, f, l, j) /\ l.d.next = y + j
      <3>1. PICK one \in Nat \ {0} : one = 1
        OBVIOUS
      <3>2. l = ReadUnits(k, f, one) /\ Sound(k, f)
        BY <1>12, <2>1, <3>1
      <3>3. \E j \in 0 .. one : Reads(k, f, l, j) /\ (one = 1 => l.d.next = f.next + j)
        BY ONLY IsBlock(k), <3>2, ReadStep
      <3> QED BY <1>10, <3>1, <3>3
    <2>3. l.d \in Decoder /\ l.d.pending = units
      BY <1>10, <2>2 DEF Reads, Sound
    <2>4. m = target /\ r.ret = "OK" /\ y = x + m
      BY <1>2, <1>7, <1>10, <1>13, <1>16 DEF Fails, Reads, Same
    <2>5. l.units = Units(y, j)
      BY <1>4, <2>2 DEF Reads
    <2>6. units \o l.units = Units(first, m + j)
      <3>1. y = first + m
        BY <1>6
      <3>2. m \in Nat /\ j \in Nat /\ first \in Nat \ {0}
        OBVIOUS
      <3>3. Units(first, m) \o Units(y, j) = Units(first, m + j)
        <4>1. PICK sum \in Nat : sum = m + j
          BY <3>2
        <4>2. Adds(first, m, y) /\ Adds(m, j, sum) /\ y \in Nat
          BY <3>1, <4>1 DEF Adds
        <4>3. Units(first, m) \o Units(y, j) = Units(first, sum)
          BY <3>2, <4>2, UnitsJoined
        <4> QED BY <4>1, <4>3
      <3> QED BY <1>7, <2>5, <3>3
    <2>7. PICK more \in Seq(Nat) : more = units \o l.units /\ more = Units(first, m + j) /\ Len(more) = m + j
      <3>1. m + j \in Nat
        OBVIOUS
      <3> QED BY <2>6, <3>1, UnitsType
    <2>8. PICK ended \in BOOLEAN : ended = (l.ret = "OK" /\ l.units = <<>>)
      BY Zenon
    <2>9. PICK g : g = [l.d EXCEPT !.pending = more, !.finished = ended]
      OBVIOUS
    <2>10. /\ g \in Decoder /\ g.pending = more /\ Same(g, l.d) /\ g.next = l.d.next /\ g.opened = l.d.opened
           /\ g.src = l.d.src /\ g.torn = l.d.torn /\ g.end = l.d.end
      BY <2>3, <2>9 DEF Decoder, Same
    <2>11. R.d = g /\ R.ret = l.ret
      <3>1. R = Look(l)
        BY <1>16, <2>1
      <3>2. R.d = [l.d EXCEPT !.pending = @ \o l.units, !.finished = l.ret = "OK" /\ l.units = <<>>] /\ R.ret = l.ret
        BY <3>1 DEF Look, Result
      <3> QED BY <2>3, <2>7, <2>8, <2>9, <3>2
    <2>12. Sound(k, g) /\ Loaded(k, g) = Loaded(k, l.d)
      BY <2>2, <2>10 DEF Reads, Sound, Loaded
    <2>13. Ahead(g)
      <3>1. g.next = y + j /\ (y + j) - (m + j) = first /\ m + j < y + j
        <4>1. y = first + m
          BY <1>6
        <4>2. g.next = y + j
          BY <2>2, <2>10
        <4>3. m \in Nat /\ j \in Nat /\ y \in Nat /\ first \in Nat \ {0}
          OBVIOUS
        <4>4. (y + j) - (m + j) = first /\ m + j < y + j
          BY ONLY <4>1, <4>3
        <4> QED BY <4>2, <4>4
      <3>2. PICK u, v : u = m + j /\ v = y + j
        OBVIOUS
      <3>3. g.next = v /\ v - u = first /\ u < v /\ more = Units(first, u) /\ Len(more) = u /\ g.pending = more
        BY <2>7, <2>10, <3>1, <3>2
      <3>4. PICK w : w = Len(g.pending)
        OBVIOUS
      <3>5. w = u
        BY ONLY <3>3, <3>4
      <3>6. w < g.next /\ g.pending = Units(g.next - w, w)
        BY ONLY <3>3, <3>5
      <3> QED BY ONLY <3>4, <3>6 DEF Ahead
    <2>14. Loaded(k, g) <= Loaded(k, e)
      <3>1. Loaded(k, g) <= Loaded(k, f) /\ Loaded(k, f) <= Loaded(k, e)
        BY <1>2, <1>12, <2>2, <2>12 DEF Reads
      <3>2. Loaded(k, g) \in Int /\ Loaded(k, f) \in Int /\ Loaded(k, e) \in Int
        <4>1. e \in Decoder
          BY DEF Sound
        <4> QED BY <1>10, <2>10, <4>1, LoadedType
      <3> QED BY <3>1, <3>2
    <2>15. Complete(k, e) => Complete(k, g)
      BY <1>13, <2>2, <2>10, <2>12 DEF Reads, Complete
    <2>16. Same(g, e) /\ g.next = x + (m + j)
      BY <1>13, <2>2, <2>4, <2>10 DEF Reads, Same
    <2>17. e.next + Len(g.pending) = g.next
      BY <1>4, <2>7, <2>10, <2>16
    <2>18. l.ret \in {"OK", "WouldBlock", "BUF_ERROR", "DATA_ERROR"}
      BY <2>2 DEF Reads
    <2>19. ~Untouched(e)
      BY <1>13, <2>4
    <2>20. e.next + Len(g.pending) <= g.next
      <3>1. g.next \in Nat
        BY <2>10 DEF Decoder
      <3> QED BY <2>17, <3>1
    <2> QED BY <2>11, <2>12, <2>13, <2>14, <2>15, <2>16, <2>17, <2>18, <2>19, <2>20 DEF Refills
  <1> QED BY <1>14, <1>15, <1>16 DEF LookAhead

(* New input for the reader, a units of it.                                *)
Feeding(e, fed, a) ==
  /\ fed \in Decoder /\ fed.src = e.src + a /\ fed.next = e.next /\ fed.opened = e.opened
  /\ fed.torn = e.torn /\ fed.end = e.end /\ fed.pending = e.pending /\ fed.finished = e.finished
  /\ fed.coding = e.coding /\ fed.in = e.in /\ fed.out = e.out /\ fed.stuck = e.stuck

Fed(e, src, eof) == [e EXCEPT !.src = src, !.eof = eof]

LEMMA FeedStep ==
  ASSUME NEW k, IsBlock(k), NEW e, Sound(k, e), NEW a \in Nat, NEW total, Adds(Loaded(k, e), a, total),
         total <= k.comp, NEW fed, NEW src, Adds(e.src, a, src), NEW eof \in BOOLEAN, fed = Fed(e, src, eof)
  PROVE  Feeding(e, fed, a) /\ fed.eof = eof /\ Sound(k, fed) /\ Loaded(k, fed) = total
  <1>1. src = e.src + a /\ total = Loaded(k, e) + a
    BY DEF Adds
  <1>2. e \in Decoder /\ e.src \in Nat /\ e.opened \in Nat
    BY DEF Sound, Decoder
  <1>3. src \in Nat
    BY <1>1, <1>2
  <1>4. fed \in Decoder /\ fed.src = src /\ fed.eof = eof /\ fed.opened = e.opened /\ fed.next = e.next
    BY <1>2, <1>3 DEF Decoder, Fed
  <1>5. Feeding(e, fed, a)
    BY <1>1, <1>2, <1>3 DEF Decoder, Feeding, Fed
  <1>6. PICK C \in Nat : C = ChunkIn(k)
    BY Chunks
  <1>7. PICK x \in Int : x = e.opened * C
    BY <1>2
  <1>8. Loaded(k, fed) = x + src /\ Loaded(k, e) = x + e.src
    BY <1>4, <1>6, <1>7 DEF Loaded
  <1>9. x + src = (x + e.src) + a
    BY <1>1, <1>2, <1>7
  <1>10. Sound(k, fed)
    <2>1. fed.opened * ChunkIn(k) + fed.src <= k.comp
      BY <1>1, <1>8, <1>9 DEF Loaded
    <2> QED BY <1>4, <2>1 DEF Sound
  <1> QED BY <1>1, <1>4, <1>5, <1>8, <1>9, <1>10

(* Refilling loses nothing that has been given out.                        *)
LEMMA KeptRefilled ==
  ASSUME NEW k, NEW o \in Seq(Nat), NEW e \in Decoder, e.pending = <<>>, Kept(o, e),
         NEW R, Refills(k, e, R)
  PROVE  /\ Kept(o, R.d) /\ (Lossless(o, e) => o = Units(1, Len(o)))
         /\ Lossless(o, e) /\ R.d.next = e.next + Len(R.d.pending) => Lossless(o, R.d)
  <1>1. R.d \in Decoder /\ R.d.next \in Nat /\ R.d.pending \in Seq(Nat) /\ e.next \in Nat
    BY DEF Refills, Sound, Decoder
  <1>2. PICK n \in Nat, x \in Nat, y \in Nat, p \in Nat :
          n = Len(o) /\ x = e.next /\ y = R.d.next /\ p = Len(R.d.pending)
    BY <1>1
  <1>3. x + p <= y
    BY <1>2 DEF Refills
  <1>4. n <= x - 1
    <2>1. n + 0 <= x - 1
      BY <1>2 DEF Kept
    <2> QED BY <2>1
  <1>5. Lossless(o, e) <=> n = x - 1
    <2>1. Lossless(o, e) <=> n + 0 = x - 1
      BY <1>2 DEF Lossless
    <2> QED BY <2>1
  <1>6. Lossless(o, R.d) <=> n + p = y - 1
    BY <1>2 DEF Lossless
  <1>7. n + p <= y - 1 /\ (n + p = y - 1 => n = x - 1) /\ (n = x - 1 /\ y = x + p => n + p = y - 1)
    BY <1>3, <1>4
  <1>8. Lossless(o, e) => o = Units(1, Len(o))
    BY DEF Kept
  <1> QED BY <1>2, <1>5, <1>6, <1>7, <1>8 DEF Kept

-----------------------------------------------------------------------------
(* One call of the raw decoder with a units of input and s of space.       *)

Pristine(e)       == Untouched(e) /\ e.pending = <<>>
Brimful(k, e, a)  == ~e.torn /\ Loaded(k, e) + a + (IF e.end THEN 1 ELSE 0) = k.comp

(* After o has been given out.                                             *)
Works(k, o, e, a, s, fin, r) ==
  /\ Sound(k, r.d) /\ Ahead(r.d) /\ Loaded(k, r.d) <= Loaded(k, e) + r.in /\ r.in \in {0, a}
  /\ r.d.coding = e.coding /\ r.d.in = e.in /\ r.d.out = e.out /\ r.d.stuck = e.stuck
  /\ r.units \in Seq(Nat) /\ Len(r.units) <= s /\ Kept(o \o r.units, r.d)
  /\ r.ret \in {"OK", "STREAM_END", "BUF_ERROR", "DATA_ERROR"}
  /\ Lossless(o, e) => o \o r.units = Units(1, Len(o \o r.units))
  /\ /\ Lossless(o, e) /\ r.ret \in {"OK", "STREAM_END"}
     /\ fin \/ (Pristine(e) /\ a = 0) \/ (Brimful(k, e, a) /\ (a = 0 \/ e.pending = <<>>))
     => Lossless(o \o r.units, r.d)
  /\ e.pending = <<>> => r.in = a
  /\ Pristine(e) /\ a = 0 => Pristine(r.d)
  /\ Brimful(k, e, a) /\ (a = 0 \/ e.pending = <<>>) => Complete(k, r.d)

(* Only what was pending goes out.                                         *)
LEMMA OldOut ==
  ASSUME NEW k, IsBlock(k), NEW o \in Seq(Nat), NEW e, Sound(k, e), Ahead(e), Kept(o, e),
         NEW a \in Nat, NEW s \in Nat, NEW fin, NEW r, NEW part, GivenOut(e, r.d, part), Len(part) <= s,
         r.units = part, r.in = 0, r.ret \in {"OK", "STREAM_END"}, e.pending # <<>>
  PROVE  Works(k, o, e, a, s, fin, r)
  <1>1. e \in Decoder
    BY DEF Sound
  <1>2. /\ Kept(o \o part, r.d) /\ (Lossless(o, e) <=> Lossless(o \o part, r.d))
    BY <1>1, KeptGiven
  <1>3. Loaded(k, r.d) = Loaded(k, e) /\ Loaded(k, e) \in Nat
    BY <1>1, LoadedType DEF GivenOut, Loaded
  <1>4. Sound(k, r.d) /\ Ahead(r.d)
    BY DEF GivenOut, Sound
  <1>5. Loaded(k, r.d) <= Loaded(k, e) + 0 /\ Loaded(k, e) + 0 = Loaded(k, e)
    BY <1>3
  <1>6. a = 0 /\ Brimful(k, e, a) => Complete(k, r.d)
    <2>1. a = 0 /\ Brimful(k, e, a) => ~e.torn /\ Loaded(k, e) + (IF e.end THEN 1 ELSE 0) = k.comp
      BY <1>5 DEF Brimful
    <2>2. r.d.torn = e.torn /\ r.d.end = e.end
      BY DEF GivenOut
    <2> QED BY <1>3, <2>1, <2>2 DEF Complete
  <1>7. Lossless(o, e) => o \o part = Units(1, Len(o \o part))
    BY <1>2 DEF Kept
  <1>8. part \in Seq(Nat) /\ Same(r.d, e)
    BY DEF GivenOut
  <1> QED BY <1>2, <1>4, <1>5, <1>6, <1>7, <1>8 DEF Works, Pristine, Same

(* Everything pending has gone out, and the input is taken.                *)
LEMMA FedOut ==
  ASSUME NEW k, IsBlock(k), NEW o \in Seq(Nat), NEW e, Sound(k, e), Ahead(e), Kept(o, e),
         NEW a \in Nat, NEW s \in Nat, NEW fin \in BOOLEAN, Loaded(k, e) + a <= k.comp,
         NEW g, NEW part, GivenOut(e, g, part), g.pending = <<>>, NEW space \in Nat, Len(part) + space <= s,
         NEW fed, NEW src, src = g.src + a, fed = [g EXCEPT !.src = src, !.eof = @ \/ fin],
         NEW r, r = Feed(k, fed, part, a, space)
  PROVE  Works(k, o, e, a, s, fin, r)
  <1>1. e \in Decoder /\ g \in Decoder /\ part \in Seq(Nat)
    BY DEF Sound, GivenOut
  <1>2. PICK q : q = o \o part
    OBVIOUS
  <1>3. q \in Seq(Nat) /\ Len(q) = Len(o) + Len(part) /\ Kept(q, g) /\ (Lossless(o, e) <=> Lossless(q, g))
    BY <1>1, <1>2, KeptGiven
  <1>4. Loaded(k, g) = Loaded(k, e) /\ Sound(k, g) /\ Loaded(k, e) \in Nat
    BY <1>1, LoadedType DEF GivenOut, Sound, Loaded
  <1>5. PICK eof \in BOOLEAN : eof = (g.eof \/ fin)
    BY <1>1 DEF Decoder
  <1>6. Feeding(g, fed, a) /\ fed.eof = eof /\ Sound(k, fed) /\ Loaded(k, fed) = Loaded(k, e) + a
    <2>1. fed = Fed(g, src, eof)
      BY <1>5 DEF Fed
    <2>2. Loaded(k, g) + a <= k.comp
      BY <1>4
    <2>3. Feeding(g, fed, a) /\ fed.eof = eof /\ Sound(k, fed) /\ Loaded(k, fed) = Loaded(k, g) + a
      <3>1. PICK total : total = Loaded(k, g) + a
        OBVIOUS
      <3>2. IsBlock(k) /\ a \in Nat /\ eof \in BOOLEAN /\ Adds(g.src, a, src) /\ Adds(Loaded(k, g), a, total)
            /\ total <= k.comp
        BY <2>2, <3>1 DEF Adds
      <3>3. Feeding(g, fed, a) /\ fed.eof = eof /\ Sound(k, fed) /\ Loaded(k, fed) = total
        <4>1. IsBlock(k) /\ Sound(k, g)
          BY <1>4
        <4> QED BY ONLY <4>1, <2>1, <3>2, FeedStep
      <3> QED BY <3>1, <3>3
    <2> QED BY <1>4, <2>3
  <1>7. fed \in Decoder /\ fed.pending = <<>> /\ Kept(q, fed) /\ (Lossless(q, fed) <=> Lossless(q, g))
    BY <1>3, <1>6 DEF Feeding, Kept, Lossless
  <1>8. Ahead(fed)
    <2>1. fed.next \in Nat /\ 1 <= fed.next
      BY <1>6 DEF Sound, Decoder
    <2>2. Len(fed.pending) = 0
      BY <1>7
    <2> QED BY <1>7, <2>1, <2>2, UnitsNone DEF Ahead
  <1>9. /\ fed.coding = e.coding /\ fed.in = e.in /\ fed.out = e.out /\ fed.stuck = e.stuck
        /\ fed.torn = e.torn /\ fed.end = e.end /\ fed.next = e.next /\ fed.opened = e.opened
        /\ fed.src = e.src + a
    BY <1>6 DEF Feeding, GivenOut, Same
  <1>10. Pristine(e) /\ a = 0 => Untouched(fed)
    BY <1>9 DEF Pristine, Untouched
  <1>11. Brimful(k, e, a) => Complete(k, fed)
    BY <1>6, <1>9 DEF Brimful, Complete
  <1>12. Len(part) <= s
    BY <1>1
  <1>13. CASE fed.finished
    <2>1. r.d = fed /\ r.in = a /\ r.units = part /\ r.ret = "STREAM_END"
      BY <1>13 DEF Feed, Answer
    <2>2. Lossless(o, e) => q = Units(1, Len(q))
      BY <1>3 DEF Kept
    <2>3. Loaded(k, fed) <= Loaded(k, e) + a
      BY <1>4, <1>6
    <2> QED BY <1>1, <1>2, <1>3, <1>6, <1>7, <1>8, <1>9, <1>10, <1>11, <1>12, <2>1, <2>2, <2>3 DEF Works, Pristine
  <1>14. CASE ~fed.finished
    <2>1. PICK target \in Nat \ {0} : target = Most(1, space)
      BY DEF Most
    <2>2. PICK R : R = Refill(k, fed, target)
      OBVIOUS
    <2>3. Refills(k, fed, R)
      BY <1>6, <2>2, RefillStep
    <2>4. r = Refilled(R, part, a, space)
      BY <1>14, <2>1, <2>2 DEF Feed
    <2>5. /\ Kept(q, R.d) /\ (Lossless(q, fed) => q = Units(1, Len(q)))
          /\ Lossless(q, fed) /\ R.d.next = fed.next + Len(R.d.pending) => Lossless(q, R.d)
      BY ONLY <1>3, <1>7, <2>3, KeptRefilled
    <2>6. R.d \in Decoder /\ Sound(k, R.d) /\ Ahead(R.d) /\ Same(R.d, fed)
      BY <2>3 DEF Refills, Sound
    <2>7. Loaded(k, R.d) <= Loaded(k, e) + a
      BY <1>6, <2>3 DEF Refills
    <2>8. Lossless(o, e) <=> Lossless(q, fed)
      BY <1>3, <1>7
    <2>9. CASE Fails(R.ret)
      <3>1. r.d = R.d /\ r.in = a /\ r.units = part /\ r.ret = R.ret
        BY <2>4, <2>9 DEF Refilled, Answer
      <3>2. r.ret \in {"BUF_ERROR", "DATA_ERROR"}
        BY <2>3, <2>9, <3>1 DEF Refills, Fails
      <3> QED BY <1>1, <1>2, <1>9, <1>10, <1>11, <1>12, <2>3, <2>5, <2>6, <2>7, <2>8, <3>1, <3>2
              DEF Works, Pristine, Refills, Same
    <2>10. CASE ~Fails(R.ret)
      <3>1. r = GiveOut(R.d, a, part, space)
        BY <2>4, <2>10 DEF Refilled
      <3>2. PICK part2 : /\ GivenOut(R.d, r.d, part2) /\ r.units = part \o part2 /\ r.in = a
                         /\ r.ret \in {"OK", "STREAM_END"} /\ Len(part2) <= space
        <4>1. space \in Nat
          OBVIOUS
        <4>2. PICK w : w = R.d
          OBVIOUS
        <4>3. w \in Decoder /\ Ahead(w) /\ r = GiveOut(w, a, part, space)
          BY <2>6, <3>1, <4>2
        <4>4. Gives(w, a, part, space, r)
          BY ONLY <4>1, <4>3, GiveStep
        <4> QED BY <4>2, <4>4 DEF Gives
      <3>3. part2 \in Seq(Nat)
        BY <3>2 DEF GivenOut
      <3>4. q \o part2 = o \o r.units /\ r.units \in Seq(Nat) /\ Len(r.units) <= s
        <4>1. (o \o part) \o part2 = o \o (part \o part2)
          <5>1. o \in Seq(Nat)
            OBVIOUS
          <5>2. ASSUME NEW x \in Seq(Nat), NEW y \in Seq(Nat), NEW z \in Seq(Nat)
                PROVE  (x \o y) \o z = x \o (y \o z)
            BY ONLY <5>2, ConcatAssociative, SMTT(60)
          <5>3. part \in Seq(Nat)
            BY <1>1
          <5> QED BY ONLY <3>3, <5>1, <5>2, <5>3
        <4>2. part \o part2 \in Seq(Nat) /\ Len(part \o part2) = Len(part) + Len(part2)
          BY <1>1, <3>3, ConcatProperties
        <4>3. Len(part) + Len(part2) <= s
          <5>1. Len(part) \in Nat /\ Len(part2) \in Nat
            BY <1>1, <3>3
          <5> QED BY <3>2, <5>1
        <4> QED BY <1>2, <3>2, <4>1, <4>2, <4>3
      <3>5. /\ q \o part2 \in Seq(Nat) /\ Len(q \o part2) = Len(q) + Len(part2)
            /\ Kept(q \o part2, r.d) /\ (Lossless(q, R.d) <=> Lossless(q \o part2, r.d))
        BY <1>3, <2>5, <2>6, <3>2, KeptGiven, ZenonT(40)
      <3>6. (fin \/ (Pristine(e) /\ a = 0) \/ Brimful(k, e, a) \/ R.d.pending # <<>>)
            => R.d.next = fed.next + Len(R.d.pending)
        <4>1. fin => fed.eof
          BY <1>5, <1>6
        <4>2. Pristine(e) /\ a = 0 => R.d.next = fed.next + Len(R.d.pending)
          <5>1. Pristine(e) /\ a = 0 => R.d.next = 1 /\ R.d.pending = <<>> /\ fed.next = 1
            BY <1>10, <2>3 DEF Refills, Untouched
          <5> QED BY <5>1
        <4>3. fed.eof => R.d.next = fed.next + Len(R.d.pending)
          BY <2>3, <2>10 DEF Refills
        <4>4. Brimful(k, e, a) \/ R.d.pending # <<>> => R.d.next = fed.next + Len(R.d.pending)
          BY <1>11, <2>3 DEF Refills
        <4> QED BY <4>1, <4>2, <4>3, <4>4
      <3>7. Lossless(o, e) => o \o r.units = Units(1, Len(o \o r.units))
        <4>1. CASE R.d.pending = <<>>
          <5>1. part2 = <<>>
            <6>1. r.d.pending \in Seq(Nat) /\ Len(part2) + Len(r.d.pending) = 0
              BY <3>2, <4>1 DEF GivenOut, Decoder
            <6>2. Len(part2) = 0
              BY <3>3, <6>1
            <6> QED BY <3>3, <6>2
          <5>2. q \o part2 = q
            BY <1>3, <5>1, ConcatEmptySeq
          <5> QED BY <2>5, <2>8, <3>4, <5>2
        <4>2. CASE R.d.pending # <<>>
          <5>1. Lossless(o, e) => Lossless(q \o part2, r.d)
            BY <2>5, <2>8, <3>5, <3>6, <4>2
          <5> QED BY <3>4, <3>5, <5>1 DEF Kept
        <4> QED BY <4>1, <4>2
      <3>8. /\ Lossless(o, e) /\ (fin \/ (Pristine(e) /\ a = 0) \/ Brimful(k, e, a))
            => Lossless(o \o r.units, r.d)
        BY <2>5, <2>8, <3>4, <3>5, <3>6
      <3>9. Pristine(e) /\ a = 0 => Pristine(r.d)
        <4>1. Pristine(e) /\ a = 0 => Untouched(R.d) /\ Len(R.d.pending) = 0
          BY <1>10, <2>3 DEF Refills
        <4>2. Untouched(R.d) => Untouched(r.d)
          BY <3>2 DEF GivenOut, Untouched
        <4>3. Len(R.d.pending) = 0 => r.d.pending = <<>>
          <5>1. r.d.pending \in Seq(Nat) /\ Len(part2) + Len(r.d.pending) = Len(R.d.pending)
            BY <3>2 DEF GivenOut, Decoder
          <5>2. Len(part2) \in Nat /\ Len(r.d.pending) \in Nat
            BY <3>3, <5>1
          <5>3. Len(R.d.pending) = 0 => Len(r.d.pending) = 0
            BY <5>1, <5>2
          <5> QED BY <5>1, <5>3
        <4> QED BY <4>1, <4>2, <4>3 DEF Pristine
      <3>10. Brimful(k, e, a) => Complete(k, r.d)
        <4>1. Brimful(k, e, a) => Complete(k, R.d)
          BY <1>11, <2>3 DEF Refills
        <4>2. Loaded(k, r.d) = Loaded(k, R.d) /\ r.d.torn = R.d.torn /\ r.d.end = R.d.end
          BY <3>2 DEF GivenOut, Loaded
        <4> QED BY <4>1, <4>2 DEF Complete
      <3>11. Sound(k, r.d) /\ Ahead(r.d) /\ Loaded(k, r.d) = Loaded(k, R.d) /\ Same(r.d, R.d)
        BY <2>6, <3>2 DEF GivenOut, Sound, Loaded
      <3> QED BY <1>9, <2>6, <2>7, <3>2, <3>4, <3>5, <3>7, <3>8, <3>9, <3>10, <3>11 DEF Works, Same
    <2> QED BY <2>9, <2>10
  <1> QED BY <1>13, <1>14

LEMMA RawStep ==
  ASSUME NEW k, IsBlock(k), NEW o \in Seq(Nat), NEW e, Sound(k, e), Ahead(e), Kept(o, e),
         NEW a \in Nat, NEW s \in Nat, NEW fin \in BOOLEAN, Loaded(k, e) + a <= k.comp,
         NEW r, r = RawDecode(k, e, a, s, fin)
  PROVE  Works(k, o, e, a, s, fin, r)
  <1>1. e \in Decoder /\ e.pending \in Seq(Nat)
    BY DEF Sound, Decoder
  <1>2. PICK p \in Nat : p = Len(e.pending)
    BY <1>1
  <1>3. PICK space \in Nat : space = s - Least(p, s)
    <2>1. PICK z \in Nat : z = Least(p, s) /\ z <= s
      BY DEF Least
    <2> QED BY <2>1
  <1>4. PICK old : old = GiveOut(e, 0, <<>>, s)
    OBVIOUS
  <1>5. PICK part : /\ GivenOut(e, old.d, part) /\ old.units = <<>> \o part /\ old.in = 0
                    /\ old.ret \in {"OK", "STREAM_END"} /\ Len(part) <= s
    <2>1. PICK zero, none : zero = 0 /\ none = <<>>
      OBVIOUS
    <2>2. Gives(e, zero, none, s, GiveOut(e, zero, none, s))
      BY <1>1, GiveStep
    <2> QED BY <1>4, <2>1, <2>2 DEF Gives
  <1>6. part \in Seq(Nat) /\ old.d \in Decoder
    BY <1>5 DEF GivenOut
  <1>7. old.units = part
    BY <1>5, <1>6, ConcatEmptySeq
  <1>8. PICK src : src = old.d.src + a
    OBVIOUS
  <1>9. PICK fed : fed = [old.d EXCEPT !.src = src, !.eof = @ \/ fin]
    OBVIOUS
  <1>10. CASE e.pending # <<>> /\ (old.d.pending # <<>> \/ old.ret = "STREAM_END" \/ space = 0)
    <2>1. r = old
      BY <1>2, <1>3, <1>4, <1>10 DEF RawDecode, AfterOld
    <2> QED BY <1>5, <1>7, <1>10, <2>1, OldOut
  <1>11. CASE ~(e.pending # <<>> /\ (old.d.pending # <<>> \/ old.ret = "STREAM_END" \/ space = 0))
    <2>1. r = Feed(k, fed, part, a, space)
      BY <1>2, <1>3, <1>4, <1>7, <1>8, <1>9, <1>11 DEF RawDecode, AfterOld
    <2>2. PICK m \in Nat, q \in Nat : m = Len(part) /\ q = Len(old.d.pending) /\ m + q = p
      <3>1. old.d.pending \in Seq(Nat)
        BY <1>6 DEF Decoder
      <3>2. Len(part) + Len(old.d.pending) = p
        BY <1>2, <1>5 DEF GivenOut
      <3> QED BY <1>6, <3>1, <3>2
    <2>3. old.d.pending = <<>>
      <3>1. old.d.pending \in Seq(Nat)
        BY <1>6 DEF Decoder
      <3>2. e.pending = <<>> => p = 0
        BY <1>2
      <3>3. p = 0 => q = 0
        BY <2>2
      <3> QED BY <1>11, <2>2, <3>1, <3>2, <3>3
    <2>4. Len(part) + space <= s
      <3>1. q = 0 /\ m <= s
        BY <1>5, <2>2, <2>3
      <3>2. m + space <= s
        BY <1>3, <2>2, <3>1 DEF Least
      <3> QED BY <2>2, <3>2
    <2>5. GivenOut(e, old.d, part)
      BY <1>5
    <2> QED BY <1>8, <1>9, <2>1, <2>3, <2>4, <2>5, FedOut, ZenonT(40)
  <1> QED BY <1>10, <1>11

-----------------------------------------------------------------------------
(* One call of the Block decoder.                                          *)

(* Between two calls, o given out.                                         *)
Between(k, o, e) ==
  /\ Sound(k, e) /\ Ahead(e) /\ o \in Seq(Nat) /\ Kept(o, e) /\ e.out = Len(o) /\ e.out <= k.out
  /\ e.coding => e.in <= k.comp /\ Loaded(k, e) <= e.in
  /\ ~e.coding => e.out = k.out /\ e.in <= k.comp + k.tail

(* The reader has been given nothing, or everything.                       *)
Entire(k, e) == (Pristine(e) /\ e.in = 0) \/ (e.in = k.comp /\ Complete(k, e))

(* The input a call offers, a units of it, does not end within the data.   *)
Uncut(k, e, a) == e.in + a = 0 \/ e.in + a >= k.comp

(* A call that is offered a units of input.                                *)
Decodes(k, o, e, a, fin, r) ==
  /\ Between(k, o \o r.units, r.d)
  /\ r.in \in Nat /\ r.in <= a /\ r.d.in = e.in + r.in /\ (r.d.coding => e.coding)
  /\ Lossless(o, e) => o \o r.units = Units(1, Len(o \o r.units))
  /\ Lossless(o, e) /\ r.ret = "OK" /\ (~e.coding \/ fin \/ (Entire(k, e) /\ Uncut(k, e, a)))
     => Lossless(o \o r.units, r.d)
  /\ e.coding /\ Entire(k, e) /\ Uncut(k, e, a) /\ r.d.coding => Entire(k, r.d)

LEMMA InnerStep ==
  ASSUME NEW k, IsBlock(k), NEW o, NEW e, Between(k, o, e), e.coding,
         NEW a \in Nat, NEW s \in Nat, NEW fin \in BOOLEAN, NEW r, r = Inner(k, e, a, s, fin)
  PROVE  /\ Decodes(k, o, e, a, fin, r) /\ r.d.coding
         /\ Lossless(o, e) /\ r.ret = "STREAM_END" /\ (fin \/ (Entire(k, e) /\ Uncut(k, e, a)))
            => Lossless(o \o r.units, r.d)
  <1>1. e \in Decoder /\ o \in Seq(Nat)
    BY DEF Between, Sound
  <1>2. PICK comp \in Nat, in \in Nat, size \in Nat, out \in Nat :
          /\ comp = k.comp /\ in = e.in /\ size = k.out /\ out = e.out /\ in <= comp /\ out <= size
    BY <1>1 DEF Between, Decoder, IsBlock
  <1>3. PICK a1 \in Nat : a1 = Least(a, comp - in) /\ a1 <= a /\ in + a1 <= comp
    BY <1>2 DEF Least
  <1>4. PICK s1 \in Nat : s1 = Least(s, size - out) /\ out + s1 <= size
    BY <1>2 DEF Least
  <1>5. PICK w : w = RawDecode(k, e, a1, s1, fin)
    OBVIOUS
  <1>6. PICK l \in Nat : l = Loaded(k, e) /\ l <= in
    BY <1>1, <1>2, LoadedType DEF Between
  <1>7. Works(k, o, e, a1, s1, fin, w)
    <2>1. Loaded(k, e) + a1 <= k.comp
      BY <1>2, <1>3, <1>6
    <2>2. Sound(k, e) /\ Ahead(e) /\ Kept(o, e) /\ o \in Seq(Nat)
      BY DEF Between
    <2> QED BY <1>5, <2>1, <2>2, RawStep
  <1>8. w.d \in Decoder /\ w.units \in Seq(Nat) /\ w.d.in = in /\ w.d.out = out /\ w.d.coding
    BY <1>2, <1>7 DEF Works, Sound
  <1>9. PICK n \in Nat, m \in Nat : n = w.in /\ n \in {0, a1} /\ m = Len(w.units) /\ m <= s1
    BY <1>7, <1>8 DEF Works
  <1>10. PICK in2 \in Nat, out2 \in Nat : in2 = in + n /\ out2 = out + m
    OBVIOUS
  <1>11. PICK f : f = [w.d EXCEPT !.in = in2, !.out = out2]
    OBVIOUS
  <1>12. /\ f \in Decoder /\ f.in = in2 /\ f.out = out2 /\ f.coding = w.d.coding /\ f.src = w.d.src
         /\ f.opened = w.d.opened /\ f.next = w.d.next /\ f.torn = w.d.torn /\ f.end = w.d.end
         /\ f.pending = w.d.pending
    BY <1>8, <1>11 DEF Decoder
  <1>13. r.d = f /\ r.in = n /\ r.units = w.units /\ (r.ret = w.ret \/ r.ret = "BUF_ERROR")
    <2>1. r = Counted(e, w)
      BY <1>2, <1>3, <1>4, <1>5 DEF Inner
    <2> QED BY <1>8, <1>9, <1>10, <1>11, <2>1 DEF Counted, Answer
  <1>14. /\ Sound(k, f) /\ Ahead(f) /\ Kept(o \o w.units, f) /\ Loaded(k, f) = Loaded(k, w.d)
         /\ (Lossless(o \o w.units, f) <=> Lossless(o \o w.units, w.d))
         /\ (Pristine(w.d) => Pristine(f)) /\ (Complete(k, w.d) => Complete(k, f))
    BY <1>7, <1>12 DEF Works, Sound, Ahead, Kept, Lossless, Loaded, Pristine, Untouched, Complete
  <1>15. Between(k, o \o r.units, f)
    <2>1. o \o w.units \in Seq(Nat) /\ Len(o \o w.units) = Len(o) + m
      BY <1>1, <1>8, <1>9, ConcatProperties
    <2>2. f.out = Len(o \o w.units)
      BY <1>2, <1>10, <1>12, <2>1 DEF Between
    <2>3. out2 <= size /\ in2 <= comp
      <3>1. in + a1 <= comp /\ out + s1 <= size /\ m <= s1 /\ n \in {0, a1} /\ in <= comp
        BY <1>2, <1>3, <1>4, <1>9
      <3> QED BY <1>10, <3>1
    <2>4. Loaded(k, f) <= f.in
      <3>1. Loaded(k, w.d) <= l + n /\ Loaded(k, w.d) \in Nat
        BY <1>6, <1>7, <1>8, <1>9, LoadedType DEF Works
      <3> QED BY <1>6, <1>10, <1>12, <1>14, <3>1
    <2> QED BY <1>2, <1>8, <1>12, <1>13, <1>14, <2>1, <2>2, <2>3, <2>4 DEF Between
  <1>16. Entire(k, e) /\ Uncut(k, e, a) =>
           (Pristine(e) /\ in = 0 /\ a1 = 0) \/ (Brimful(k, e, a1) /\ (a1 = 0 \/ e.pending = <<>>) /\ in + a1 = comp)
    <2>1. CASE Pristine(e) /\ in = 0 /\ a = 0
      <3>1. a1 = 0
        BY <1>3, <2>1
      <3> QED BY <2>1, <3>1
    <2>2. CASE Pristine(e) /\ in = 0 /\ a >= comp
      <3>1. a1 = comp
        BY <1>2, <1>3, <2>2 DEF Least
      <3>2. Loaded(k, e) = 0
        BY <2>2, UntouchedReads DEF Between, Pristine
      <3>3. 0 + comp + 0 = comp
        OBVIOUS
      <3>4. Brimful(k, e, a1)
        BY <1>2, <2>2, <3>1, <3>2, <3>3 DEF Pristine, Untouched, Brimful
      <3> QED BY <2>2, <3>1, <3>4 DEF Pristine
    <2>3. CASE in = comp /\ Complete(k, e)
      <3>1. a1 = 0
        BY <1>2, <1>3, <2>3
      <3>2. l + a1 = l
        BY <3>1
      <3>3. Brimful(k, e, a1)
        BY <1>6, <2>3, <3>2 DEF Brimful, Complete
      <3> QED BY <2>3, <3>1, <3>3
    <2>4. in = 0 /\ Uncut(k, e, a) => a = 0 \/ a >= comp
      BY <1>2 DEF Uncut
    <2> QED BY <1>2, <2>1, <2>2, <2>3, <2>4 DEF Entire
  <1>17. Lossless(o, e) => o \o r.units = Units(1, Len(o \o r.units))
    BY <1>7, <1>13 DEF Works
  <1>18. Lossless(o, e) /\ r.ret \in {"OK", "STREAM_END"} /\ (fin \/ (Entire(k, e) /\ Uncut(k, e, a)))
         => Lossless(o \o r.units, f)
    BY <1>7, <1>13, <1>14, <1>16 DEF Works
  <1>19. Entire(k, e) /\ Uncut(k, e, a) => Entire(k, f)
    <2>1. CASE Pristine(e) /\ in = 0 /\ a1 = 0
      <3>1. Pristine(w.d) /\ n = 0
        BY <1>7, <1>9, <2>1 DEF Works
      <3> QED BY <1>10, <1>12, <1>14, <2>1, <3>1 DEF Entire
    <2>2. CASE Brimful(k, e, a1) /\ (a1 = 0 \/ e.pending = <<>>) /\ in + a1 = comp
      <3>1. Complete(k, w.d) /\ n = a1
        BY <1>7, <1>9, <2>2 DEF Works
      <3> QED BY <1>2, <1>10, <1>12, <1>14, <2>2, <3>1 DEF Entire
    <2> QED BY <1>16, <2>1, <2>2
  <1>20. n <= a /\ f.in = e.in + n
    BY <1>2, <1>3, <1>9, <1>10, <1>12
  <1>21. Decodes(k, o, e, a, fin, r)
    BY <1>13, <1>15, <1>17, <1>18, <1>19, <1>20 DEF Decodes
  <1> QED BY <1>8, <1>12, <1>13, <1>18, <1>21

(* The Block has been decoded and checked.                                 *)
Ended(k, e) == e.in = k.comp + k.tail /\ e.out = k.out /\ k.flaw = "none"

(* After i, padding and check from what is left of a units.                *)
MayEnd(k, o, i, a) ==
  Between(k, o, i.d) /\ i.d.out = k.out /\ i.d.in <= k.comp + k.tail /\ i.in \in Nat /\ i.in <= a
Tails(k, o, i, a, t) ==
  \E n \in Nat :
    /\ Between(k, o, t.d) /\ t.in = i.in + n /\ t.in <= a /\ t.d.in = i.d.in + n /\ ~t.d.coding
    /\ t.units = i.units /\ t.ret \in {"OK", "DATA_ERROR", "STREAM_END"}
    /\ t.ret = "STREAM_END" => Ended(k, t.d)
    /\ Lossless(o, i.d) <=> Lossless(o, t.d)
    /\ t = Answer(t.d, t.in, t.units, t.ret)

LEMMA TailStep ==
  ASSUME NEW k, IsBlock(k), NEW o, NEW i, NEW a \in Nat, MayEnd(k, o, i, a), NEW t, t = DecodeTail(k, i, a)
  PROVE  Tails(k, o, i, a, t)
  <1>1. i.d \in Decoder
    BY DEF MayEnd, Between, Sound
  <1>2. PICK whole \in Nat, in \in Nat, used \in Nat :
          whole = k.comp + k.tail /\ in = i.d.in /\ used = i.in /\ used <= a /\ in <= whole
    <2>1. k.comp + k.tail \in Nat
      BY DEF IsBlock
    <2>2. i.d.in \in Nat
      BY <1>1 DEF Decoder
    <2>3. i.in \in Nat /\ i.in <= a /\ i.d.in <= k.comp + k.tail
      BY DEF MayEnd
    <2> QED BY <2>1, <2>2, <2>3
  <1>3. PICK n \in Nat : n = Least(a - used, whole - in) /\ used + n <= a /\ in + n <= whole
    BY <1>2 DEF Least
  <1>4. PICK in2 \in Nat, used2 \in Nat : in2 = in + n /\ used2 = used + n
    OBVIOUS
  <1>5. PICK f : f = [i.d EXCEPT !.coding = FALSE, !.in = in2]
    OBVIOUS
  <1>6. /\ f \in Decoder /\ f.in = in2 /\ f.coding = FALSE /\ f.out = i.d.out /\ f.src = i.d.src
        /\ f.opened = i.d.opened /\ f.next = i.d.next /\ f.pending = i.d.pending
    BY <1>1, <1>5 DEF Decoder
  <1>7. t = Answer(f, used2, i.units, IF in2 < whole THEN "OK"
                                       ELSE IF k.flaw = "data" THEN "DATA_ERROR" ELSE "STREAM_END")
    <2>1. n = Least(a - i.in, k.comp + k.tail - i.d.in)
      <3>1. a - used = a - i.in /\ whole - in = k.comp + k.tail - i.d.in
        <4>1. PICK c \in Nat, l \in Nat : c = k.comp /\ l = k.tail
          BY DEF IsBlock
        <4>2. whole = c + l /\ in = i.d.in /\ used = i.in
          BY <1>2, <4>1
        <4>3. whole - in = c + l - in
          BY <4>2
        <4> QED BY <4>1, <4>2, <4>3
      <3> QED BY <1>3, <3>1
    <2>2. t = TailOf(k, i, n)
      BY <2>1 DEF DecodeTail
    <2>3. [i.d EXCEPT !.coding = FALSE, !.in = @ + n] = f
      BY <1>2, <1>4, <1>5
    <2>4. i.in + n = used2 /\ i.d.in + n = in2 /\ k.comp + k.tail = whole
      BY <1>2, <1>4
    <2> QED BY <2>2, <2>3, <2>4 DEF TailOf
  <1>8. t.d = f /\ t.in = used2 /\ t.units = i.units /\ t = Answer(t.d, t.in, t.units, t.ret)
    BY <1>7 DEF Answer
  <1>9. t.ret = IF in2 < whole THEN "OK" ELSE IF k.flaw = "data" THEN "DATA_ERROR" ELSE "STREAM_END"
    BY <1>7 DEF Answer
  <1>10. in2 <= whole
    BY <1>3, <1>4
  <1>11. t.ret = "STREAM_END" => Ended(k, f)
    <2>1. t.ret = "STREAM_END" => in2 = whole /\ k.flaw # "data"
      BY <1>9, <1>10
    <2>2. k.flaw # "data" => k.flaw = "none"
      BY DEF IsBlock
    <2>3. f.out = k.out /\ f.in = in2 /\ whole = k.comp + k.tail
      BY <1>2, <1>6 DEF MayEnd
    <2> QED BY <2>1, <2>2, <2>3 DEF Ended
  <1>12. t.ret \in {"OK", "DATA_ERROR", "STREAM_END"}
    BY <1>9
  <1>13. Sound(k, f) /\ Ahead(f) /\ Kept(o, f) /\ (Lossless(o, i.d) <=> Lossless(o, f)) /\ o \in Seq(Nat)
    BY <1>6 DEF MayEnd, Between, Sound, Ahead, Kept, Lossless
  <1>14. Between(k, o, f)
    BY <1>2, <1>6, <1>10, <1>13 DEF Between, MayEnd
  <1> QED BY <1>2, <1>3, <1>4, <1>6, <1>8, <1>11, <1>12, <1>13, <1>14 DEF Tails

LEMMA BlockStep ==
  ASSUME NEW k, IsBlock(k), NEW o, NEW e, Between(k, o, e),
         NEW a \in Nat, NEW s \in Nat, NEW fin \in BOOLEAN, NEW t, t = BlockDecode(k, e, a, s, fin)
  PROVE  /\ Decodes(k, o, e, a, fin, t) /\ (t.ret = "STREAM_END" => Ended(k, t.d))
         /\ t = Answer(t.d, t.in, t.units, t.ret)
  <1>1. e \in Decoder /\ o \in Seq(Nat)
    BY DEF Between, Sound
  <1>2. k.comp \in Nat /\ k.tail \in Nat
    BY DEF IsBlock
  <1>3. CASE e.coding
    <2>1. PICK i : i = Inner(k, e, a, s, fin)
      OBVIOUS
    <2>2. /\ Decodes(k, o, e, a, fin, i) /\ i.d.coding
          /\ Lossless(o, e) /\ i.ret = "STREAM_END" /\ (fin \/ (Entire(k, e) /\ Uncut(k, e, a)))
             => Lossless(o \o i.units, i.d)
      BY <1>3, <2>1, InnerStep
    <2>3. i = Answer(i.d, i.in, i.units, i.ret)
      BY <2>1 DEF Inner, Counted, Answer
    <2>4. t = Coded(k, i, a, s)
      BY <1>3, <2>1 DEF BlockDecode
    <2>5. CASE t = [i EXCEPT !.ret = "DATA_ERROR"]
      <3>1. t.d = i.d /\ t.in = i.in /\ t.units = i.units /\ t.ret = "DATA_ERROR"
        BY <2>3, <2>5 DEF Answer
      <3>2. t = Answer(t.d, t.in, t.units, t.ret)
        BY <2>3, <2>5 DEF Answer
      <3> QED BY <2>2, <3>1, <3>2 DEF Decodes
    <2>6. CASE i.ret = "STREAM_END" /\ i.d.in = k.comp /\ i.d.out = k.out /\ t = DecodeTail(k, i, a)
      <3>1. Between(k, o \o i.units, i.d) /\ i.in \in Nat /\ i.in <= a /\ i.d.in = e.in + i.in
        BY <2>2 DEF Decodes
      <3>2. i.d.in <= k.comp + k.tail
        BY <1>2, <2>6
      <3>3. PICK n \in Nat :
              /\ Between(k, o \o i.units, t.d) /\ t.in = i.in + n /\ t.in <= a /\ t.d.in = i.d.in + n /\ ~t.d.coding
              /\ t.units = i.units /\ t.ret \in {"OK", "DATA_ERROR", "STREAM_END"}
              /\ t.ret = "STREAM_END" => Ended(k, t.d)
              /\ Lossless(o \o i.units, i.d) <=> Lossless(o \o i.units, t.d)
              /\ t = Answer(t.d, t.in, t.units, t.ret)
        <4>1. MayEnd(k, o \o i.units, i, a)
          BY <2>6, <3>1, <3>2 DEF MayEnd
        <4>2. Tails(k, o \o i.units, i, a, t)
          BY <2>6, <4>1, TailStep
        <4> QED BY <4>2 DEF Tails
      <3>4. t.in \in Nat /\ t.d.in = e.in + t.in
        <4>1. e.in \in Nat
          BY <1>1 DEF Decoder
        <4> QED BY <3>1, <3>3, <4>1
      <3>5. Lossless(o, e) => o \o i.units = Units(1, Len(o \o i.units))
        BY <2>2 DEF Decodes
      <3>6. Decodes(k, o, e, a, fin, t)
        BY <1>3, <2>2, <2>6, <3>3, <3>4, <3>5 DEF Decodes
      <3> QED BY <3>3, <3>6
    <2>7. CASE t = i /\ i.ret # "STREAM_END"
      BY <2>2, <2>3, <2>7
    <2> QED BY <2>4, <2>5, <2>6, <2>7 DEF Coded
  <1>4. CASE ~e.coding
    <2>1. PICK i : i = Answer(e, 0, <<>>, "OK")
      OBVIOUS
    <2>2. i.d = e /\ i.in = 0 /\ i.units = <<>>
      BY <2>1 DEF Answer
    <2>3. t = DecodeTail(k, i, a)
      BY <1>4, <2>1 DEF BlockDecode
    <2>4. Between(k, o, i.d) /\ i.d.out = k.out /\ i.d.in <= k.comp + k.tail
      BY <1>4, <2>2 DEF Between
    <2>5. i.in \in Nat /\ i.in <= a
      BY <2>2
    <2>6. PICK n \in Nat :
            /\ Between(k, o, t.d) /\ t.in = i.in + n /\ t.in <= a /\ t.d.in = i.d.in + n /\ ~t.d.coding
            /\ t.units = i.units /\ t.ret \in {"OK", "DATA_ERROR", "STREAM_END"}
            /\ t.ret = "STREAM_END" => Ended(k, t.d)
            /\ Lossless(o, i.d) <=> Lossless(o, t.d)
            /\ t = Answer(t.d, t.in, t.units, t.ret)
      <3>1. MayEnd(k, o, i, a)
        BY <2>4, <2>5 DEF MayEnd
      <3>2. Tails(k, o, i, a, t)
        BY <2>3, <3>1, TailStep
      <3> QED BY <3>2 DEF Tails
    <2>7. t.in = n /\ t.d.in = e.in + n
      BY <2>2, <2>6
    <2>8. o \o t.units = o
      BY <1>1, <2>2, <2>6, ConcatEmptySeq
    <2>9. Lossless(o, e) => o = Units(1, Len(o))
      BY DEF Between, Kept
    <2>10. Decodes(k, o, e, a, fin, t)
      BY <1>4, <2>2, <2>6, <2>7, <2>8, <2>9 DEF Decodes
    <2> QED BY <2>6, <2>10
  <1>5. e.coding \in BOOLEAN
    BY <1>1 DEF Decoder
  <1> QED BY <1>3, <1>4, <1>5

LEMMA CodeStep ==
  ASSUME NEW k, IsBlock(k), NEW o, NEW e, Between(k, o, e),
         NEW a \in Nat, NEW s \in Nat, NEW fin \in BOOLEAN, NEW r, r = Code(k, e, a, s, fin)
  PROVE  Decodes(k, o, e, a, fin, r) /\ (r.ret = "STREAM_END" => Ended(k, r.d))
  <1>1. PICK t : t = BlockDecode(k, e, a, s, fin)
    OBVIOUS
  <1>2. /\ Decodes(k, o, e, a, fin, t) /\ (t.ret = "STREAM_END" => Ended(k, t.d))
        /\ t = Answer(t.d, t.in, t.units, t.ret)
    BY <1>1, BlockStep
  <1>3. PICK x, in, units, ret2 : t = Answer(x, in, units, ret2) /\ x = t.d /\ in = t.in /\ units = t.units /\ ret2 = t.ret
    BY <1>2
  <1>4. PICK idle \in BOOLEAN : idle = Idle(t)
    BY DEF Idle
  <1>5. x \in Decoder
    BY <1>2, <1>3 DEF Decodes, Between, Sound
  <1>6. PICK f : f = [x EXCEPT !.stuck = idle]
    OBVIOUS
  <1>7. /\ f \in Decoder /\ f.coding = x.coding /\ f.in = x.in /\ f.out = x.out /\ f.src = x.src
        /\ f.opened = x.opened /\ f.next = x.next /\ f.torn = x.torn /\ f.end = x.end /\ f.pending = x.pending
    BY <1>5, <1>6 DEF Decoder
  <1>8. PICK ret3 : ret3 = IF idle /\ e.stuck THEN "BUF_ERROR" ELSE ret2
    OBVIOUS
  <1>9. r = Answer(f, in, units, ret3)
    <2>1. r = [t EXCEPT !.d.stuck = idle, !.ret = ret3]
      BY <1>1, <1>3, <1>4, <1>8 DEF Code, Watched, Answer
    <2> QED BY <1>3, <1>6, <2>1 DEF Answer
  <1>10. r.d = f /\ r.in = t.in /\ r.units = t.units /\ (r.ret = t.ret \/ r.ret = "BUF_ERROR")
    BY <1>3, <1>8, <1>9 DEF Answer
  <1>11. Between(k, o \o t.units, f)
    <2>1. Between(k, o \o t.units, x)
      BY <1>2, <1>3 DEF Decodes
    <2> QED BY <1>7, <2>1 DEF Between, Sound, Ahead, Kept, Lossless, Loaded
  <1>12. /\ (Lossless(o \o t.units, x) <=> Lossless(o \o t.units, f)) /\ (Ended(k, x) => Ended(k, f))
         /\ (Entire(k, x) => Entire(k, f))
    BY <1>7 DEF Lossless, Ended, Entire, Pristine, Untouched, Complete, Loaded
  <1> QED BY <1>2, <1>3, <1>7, <1>10, <1>11, <1>12 DEF Decodes

-----------------------------------------------------------------------------
(* The application.                                                        *)

(* As long as no input has ended within the data, nothing is lost.         *)
NothingLost ==
  /\ output = Units(1, Len(output))
  /\ ret = "OK" => Lossless(output, d)
  /\ ret = "OK" /\ ~finish /\ d.coding => Entire(b, d)

DecoderInv ==
  /\ b \in Blocks /\ Between(b, output, d) /\ avail \in Nat /\ finish \in BOOLEAN
  /\ d.in + avail <= b.comp + b.tail + Follow
  /\ ret = "STREAM_END" => Ended(b, d)
  /\ ~cut => NothingLost

LEMMA InputFits ==
  ASSUME DecoderInv
  PROVE  /\ IsBlock(b) /\ d.in \in Nat /\ Rest \in Nat
         /\ d.in + (avail + Rest) = b.comp + b.tail + Follow
  <1>1. IsBlock(b)
    BY UseAssumption DEF DecoderInv, IsBlock
  <1>2. PICK in \in Nat, c \in Nat, l \in Nat, f \in Nat, v \in Nat :
          in = d.in /\ c = b.comp /\ l = b.tail /\ f = Follow /\ v = avail /\ in + v <= c + l + f
    BY <1>1, UseAssumption DEF IsBlock, DecoderInv, Between, Sound, Decoder
  <1>3. Rest = c + l + f - (in + v)
    BY <1>2 DEF Rest
  <1>4. PICK x \in Nat : x = c + l + f - (in + v) /\ in + (v + x) = c + l + f
    BY <1>2
  <1> QED BY <1>1, <1>2, <1>3, <1>4

LEMMA InitDecodes == Init => DecoderInv
  <1> SUFFICES ASSUME Init PROVE DecoderInv
    OBVIOUS
  <1>1. IsBlock(b) /\ b \in Blocks /\ d = FreshDecoder /\ output = <<>> /\ avail = 0 /\ finish = FALSE /\ ret = "OK"
    BY UseAssumption DEF Init, IsBlock
  <1>2. PICK N \in Nat, C \in Nat, O \in Nat, comp \in Nat, size \in Nat, tail \in Nat :
          /\ N = b.chunks /\ C = ChunkIn(b) /\ O = ChunkOut(b) /\ comp = b.comp /\ size = b.out /\ tail = b.tail
    BY <1>1, Chunks DEF IsBlock
  <1>3. 0 * C = 0 /\ 0 * O = 0
    OBVIOUS
  <1>4. /\ d.coding = TRUE /\ d.in = 0 /\ d.out = 0 /\ d.src = 0 /\ d.opened = 0 /\ d.next = 1 /\ d.torn = FALSE
        /\ d.end = FALSE /\ d.pending = <<>>
    BY <1>1 DEF FreshDecoder
  <1>5. d \in Decoder
    BY <1>1 DEF FreshDecoder, Decoder
  <1>6. Sound(b, d) /\ Loaded(b, d) = 0
    BY <1>2, <1>3, <1>4, <1>5 DEF Sound, Loaded
  <1>7. Ahead(d)
    <2>1. Len(d.pending) = 0 /\ d.pending = <<>> /\ d.next = 1
      BY <1>4
    <2> QED BY <2>1, UnitsNone DEF Ahead
  <1>8. output \in Seq(Nat) /\ Len(output) = 0 /\ output = Units(1, 0)
    BY <1>1, UnitsNone
  <1>9. Kept(output, d) /\ Lossless(output, d)
    BY <1>4, <1>8 DEF Kept, Lossless
  <1>10. Between(b, output, d)
    BY <1>2, <1>4, <1>6, <1>7, <1>8, <1>9 DEF Between
  <1>11. Entire(b, d)
    BY <1>4 DEF Entire, Pristine, Untouched
  <1>12. d.in + avail <= b.comp + b.tail + Follow
    BY <1>1, <1>2, <1>4, UseAssumption
  <1> QED BY <1>1, <1>8, <1>9, <1>10, <1>11, <1>12 DEF DecoderInv, NothingLost

LEMMA CallDecodes ==
  ASSUME DecoderInv, NEW a \in Nat, NEW s \in Nat, NEW fin \in BOOLEAN, Call(a, s, fin),
         d.in + a <= b.comp + b.tail + Follow, finish => fin
  PROVE  DecoderInv'
  <1>1. PICK r : r = Code(b, d, a, s, fin)
    OBVIOUS
  <1>2. /\ ret = "OK" /\ d' = r.d /\ ret' = r.ret /\ output' = output \o r.units /\ avail' = a - r.in
        /\ finish' = fin /\ b' = b
        /\ cut' = (cut \/ (~fin /\ 0 < d.in + a /\ d.in + a < b.comp))
    BY <1>1 DEF Call
  <1>3. IsBlock(b) /\ Between(b, output, d) /\ d \in Decoder
    BY InputFits DEF DecoderInv, Between, Sound
  <1>4. Decodes(b, output, d, a, fin, r) /\ (r.ret = "STREAM_END" => Ended(b, r.d))
    BY <1>1, <1>3, CodeStep
  <1>5. avail' \in Nat /\ d'.in + avail' = d.in + a
    <2>1. PICK n \in Nat, in \in Nat : n = r.in /\ in = d.in /\ n <= a /\ r.d.in = in + n
      BY <1>3, <1>4 DEF Decodes, Decoder
    <2>2. a - n \in Nat /\ (in + n) + (a - n) = in + a
      BY <2>1
    <2> QED BY <1>2, <2>1, <2>2
  <1>6. Between(b', output', d') /\ (ret' = "STREAM_END" => Ended(b', d'))
    BY <1>2, <1>4 DEF Decodes
  <1>7. ~cut' => NothingLost'
    <2> SUFFICES ASSUME ~cut' PROVE NothingLost'
      OBVIOUS
    <2>1. NothingLost /\ Lossless(output, d)
      BY <1>2 DEF DecoderInv, NothingLost
    <2>2. ~fin => Uncut(b, d, a)
      <3>1. PICK in \in Nat, c \in Nat : in = d.in /\ c = b.comp
        BY <1>3 DEF Decoder, IsBlock
      <3>2. ~fin => ~(0 < in + a /\ in + a < c)
        BY <1>2, <3>1
      <3>3. in + a = 0 \/ in + a >= c \/ (0 < in + a /\ in + a < c)
        BY <3>1
      <3> QED BY <3>1, <3>2, <3>3 DEF Uncut
    <2>3. ~fin /\ d.coding => Entire(b, d)
      BY <1>2, <2>1 DEF NothingLost
    <2>4. output' = Units(1, Len(output'))
      BY <1>2, <1>4, <2>1 DEF Decodes
    <2>5. ret' = "OK" => Lossless(output', d')
      BY <1>2, <1>4, <2>1, <2>2, <2>3 DEF Decodes
    <2>6. d'.coding => d.coding
      BY <1>2, <1>4 DEF Decodes
    <2>7. ret' = "OK" /\ ~finish' /\ d'.coding => Entire(b', d')
      BY <1>2, <1>4, <2>2, <2>3, <2>6 DEF Decodes
    <2> QED BY <2>4, <2>5, <2>7 DEF NothingLost
  <1>8. d'.in + avail' <= b'.comp + b'.tail + Follow
    BY <1>2, <1>5
  <1> QED BY <1>2, <1>5, <1>6, <1>7, <1>8 DEF DecoderInv

LEMMA NextDecodes == ASSUME DecoderInv, [Next]_vars PROVE DecoderInv'
  <1>1. /\ IsBlock(b) /\ d.in \in Nat /\ Rest \in Nat /\ avail \in Nat /\ finish \in BOOLEAN
        /\ d.in + (avail + Rest) = b.comp + b.tail + Follow
    BY InputFits DEF DecoderInv
  <1>2. CASE Run
    <2>1. PICK s \in Spaces, n \in Pieces : n <= Rest /\ Call(avail + n, s, FALSE) /\ ~finish
      BY <1>2 DEF Run
    <2>2. s \in Nat /\ n \in Nat
      BY UseAssumption
    <2>3. PICK a \in Nat : a = avail + n
      BY <1>1, <2>2
    <2>4. d.in + a <= b.comp + b.tail + Follow
      <3>1. PICK in \in Nat, x \in Nat, v \in Nat : in = d.in /\ x = Rest /\ v = avail
        BY <1>1
      <3>2. in + (v + n) <= in + (v + x)
        BY <2>1, <2>2, <3>1
      <3> QED BY <1>1, <2>3, <3>1, <3>2
    <2> QED BY <2>1, <2>2, <2>3, <2>4, CallDecodes
  <1>3. CASE Finish
    <2>1. PICK s \in Spaces, a \in {avail, avail + Rest} : Call(a, s, TRUE)
      BY <1>3 DEF Finish
    <2>2. s \in Nat /\ a \in Nat
      BY <1>1, <2>1, UseAssumption
    <2>3. d.in + a <= b.comp + b.tail + Follow
      <3>1. d.in + avail <= b.comp + b.tail + Follow
        BY DEF DecoderInv
      <3>2. b.comp + b.tail + Follow \in Nat
        BY <1>1, UseAssumption DEF IsBlock
      <3> QED BY <1>1, <2>1, <3>1, <3>2
    <2> QED BY <2>1, <2>2, <2>3, CallDecodes
  <1>4. CASE Again
    <2>1. Init'
      BY <1>4 DEF Again, Init
    <2> QED BY <2>1, InitDecodes, PTL
  <1>5. CASE UNCHANGED vars
    <2>1. /\ b' = b /\ d' = d /\ avail' = avail /\ finish' = finish /\ ret' = ret /\ output' = output /\ cut' = cut
      BY <1>5 DEF vars
    <2> QED BY <2>1 DEF DecoderInv, NothingLost
  <1> QED BY <1>2, <1>3, <1>4, <1>5 DEF Next

LEMMA DecoderInvariant == Spec => []DecoderInv
  <1>1. Init => DecoderInv
    BY InitDecodes
  <1>2. DecoderInv /\ [Next]_vars => DecoderInv'
    BY NextDecodes
  <1> QED BY <1>1, <1>2, PTL DEF Spec

LEMMA EndWhole == ASSUME DecoderInv PROVE EndIsExact
  <1>1. IsBlock(b) /\ Sound(b, d) /\ d \in Decoder /\ output \in Seq(Nat)
    BY InputFits DEF DecoderInv, Between, Sound
  <1>2. ASSUME ret = "STREAM_END" PROVE output = Units(1, b.out)
    <2>1. PICK n \in Nat, p \in Nat, last \in Nat, size \in Nat, N \in Nat, O \in Nat, opened \in Nat :
            /\ n = Len(output) /\ p = Len(d.pending) /\ last = d.next - 1 /\ size = b.out /\ N = b.chunks
            /\ O = ChunkOut(b) /\ opened = d.opened
      <3>1. d.pending \in Seq(Nat) /\ d.opened \in Nat /\ d.next \in Nat /\ 1 <= d.next
        BY <1>1 DEF Sound, Decoder
      <3>2. b.out \in Nat /\ b.chunks \in Nat /\ ChunkOut(b) \in Nat
        BY <1>1, Chunks DEF IsBlock
      <3>3. d.next - 1 \in Nat
        BY <3>1
      <3>4. Len(output) \in Nat /\ Len(d.pending) \in Nat
        BY <1>1, <3>1
      <3> QED BY <3>1, <3>2, <3>3, <3>4
    <2>2. n = size
      BY <1>2, <2>1 DEF DecoderInv, Ended, Between
    <2>3. n + p <= last
      BY <2>1 DEF DecoderInv, Between, Kept
    <2>4. PICK x \in Int, y \in Int : x = opened * O /\ y = N * O
      OBVIOUS
    <2>5. last <= x /\ opened <= N
      BY <1>1, <2>1, <2>4 DEF Sound
    <2>6. x <= y
      BY <2>4, <2>5, Times
    <2>7. y <= size
      BY <1>1, <2>1, <2>4, Chunks
    <2>8. n + p = last
      BY <2>2, <2>3, <2>4, <2>5, <2>6, <2>7
    <2>9. Lossless(output, d)
      BY <2>1, <2>8 DEF Lossless
    <2> QED BY <2>1, <2>2, <2>9 DEF DecoderInv, Between, Kept
  <1>3. d.opened * ChunkIn(b) + d.src <= b.comp
    BY <1>1 DEF Sound
  <1>4. ret = "STREAM_END" => d.in = b.comp + b.tail /\ b.flaw = "none"
    BY DEF DecoderInv, Ended
  <1> QED BY <1>2, <1>3, <1>4 DEF EndIsExact

(* STREAM_END means the whole of the Block's data, in order, with the      *)
(* input right behind the Block; and the raw decoder never has more than   *)
(* the compressed data: whatever the chunks, and however both buffers are  *)
(* cut (block_decode of block/coder.rs over raw_code of upstream.rs).      *)
THEOREM BlockEndIsExact == Spec => []EndIsExact
  <1>1. DecoderInv => EndIsExact
    BY EndWhole
  <1> QED BY <1>1, DecoderInvariant, PTL

(* Nothing is skipped or repeated in what is given out as long as no RUN   *)
(* call's input ends within the compressed data (raw_code of upstream.rs). *)
THEOREM BlockPrefixUnlessCut == Spec => []PrefixUnlessCut
  <1>1. DecoderInv => PrefixUnlessCut
    BY DEF DecoderInv, NothingLost, PrefixUnlessCut
  <1> QED BY <1>1, DecoderInvariant, PTL

=============================================================================
