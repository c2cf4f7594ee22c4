------------------------------- MODULE Filters -------------------------------
(***************************************************************************)
(* The filters in front of LZMA2: Delta, and the BCJ filters, which        *)
(* convert in place and so hold back what they cannot convert yet          *)
(* (src/original/src/liblzma/delta, src/original/src/liblzma/simple).      *)
(*                                                                         *)
(* A coder is a record; coding takes what is left of in[] and the room in  *)
(* out[] and gives [c, used, out, ret]. Coder is the coder next in the     *)
(* chain: LZMA when decoding; an encoder here is the last of its chain and *)
(* copies.                                                                 *)
(***************************************************************************)
EXTENDS LzmaDecoder

Copy(in, room) == SubSeq(in, 1, Least(room, Len(in)))

(* A filter that is not there: lzma_bufcpy, as fill_window does it.        *)
NoFilter == [kind |-> "none"]
CopyCode(c, in, room, action) ==
  LET n == Least(room, Len(in))
  IN Coded(c, n, SubSeq(in, 1, n), IF action # "RUN" /\ n = Len(in) THEN "STREAM_END" ELSE "OK")

(* --- Delta ---                                                           *)
(* history holds the latest bytes, the latest first.                       *)
DeltaInit(dist) == [kind |-> "delta", distance |-> dist, history |-> [k \in 1 .. dist |-> 0]]
Remember(history, byte) == <<byte>> \o SubSeq(history, 1, Len(history) - 1)

(* d is [c, out].                                                          *)
DeltaEncodeByte(d, byte) == [c |-> [d.c EXCEPT !.history = Remember(@, byte)],
                             out |-> Append(d.out, (byte - d.c.history[d.c.distance]) % Bytes)]
DeltaDecodeByte(d, byte) ==
  With((byte + d.c.history[d.c.distance]) % Bytes, LAMBDA plain :
    [c |-> [d.c EXCEPT !.history = Remember(@, plain)], out |-> Append(d.out, plain)])

DeltaEncode(c, in, room, action) ==
  With(CopyCode(c, in, room, action), LAMBDA r :
    With(Fold(DeltaEncodeByte, [c |-> c, out |-> <<>>], r.out), LAMBDA d : Coded(d.c, r.used, d.out, r.ret)))

DeltaDecode(c, Coder, in, room, action) ==
  With(LzDecode(Coder, in, room, action), LAMBDA r :
    With(Fold(DeltaDecodeByte, [c |-> c, out |-> <<>>], r.out), LAMBDA d :
      [c |-> d.c, next |-> r.c, used |-> r.used, out |-> d.out, ret |-> r.ret]))

(* --- BCJ ---                                                             *)
(* A branch becomes absolute when encoding, relative when decoding. Fields *)
(* are scaled to bytes below Bytes = 4: of an opcode is left what tells it *)
(* from the rest of the data, an address has the bits that are over.       *)
Relocated(encoder, address, pc) == IF encoder THEN address + pc ELSE address - pc
Number(bytes) == Total([k \in DOMAIN bytes |-> bytes[k] * Bytes^(k - 1)], LAMBDA d : d)
ByteOf(v, k) == (v \div Bytes^k) % Bytes
NumberBytes(v, n) == [k \in 1 .. n |-> ByteOf(v, k - 1)]
(* The low bits of v, the highest of them repeated: below modulus.         *)
SignExtended(v, low, modulus) == With(v % low, LAMBDA x : IF x < low \div 2 THEN x ELSE x + modulus - low)

(* Each takes the position and the bytes of one instruction.               *)
ArmCode(encoder, at, i) ==
  IF i[4] # 3 THEN i ELSE Append(NumberBytes(Relocated(encoder, Number(SubSeq(i, 1, 3)), (at + 8) \div 4), 3), 3)

(* Two halves, each with its mark and the half of an address.              *)
IsThumbBranch(i) == i[2] >= 2 /\ i[4] < 2
ArmThumbCode(encoder, at, i) ==
  IF ~IsThumbBranch(i) THEN i
  ELSE With(Relocated(encoder, (i[2] % 2) * 32 + i[1] * 8 + (i[4] % 2) * 4 + i[3], (at + 4) \div 2), LAMBDA dest :
         <<(dest \div 8) % 4, 2 + ((dest \div 32) % 2), dest % 4, (dest \div 4) % 2>>)

(* BL; and ADRP, with a page of 16 bytes, if the target is not too far.    *)
Arm64Code(encoder, at, i) ==
  LET src == Number(SubSeq(i, 2, 3))
  IN CASE i[4] = 3 -> Append(NumberBytes(Relocated(encoder, Number(SubSeq(i, 1, 3)), at \div 4), 3), 3)
       [] i[4] = 2 /\ (src + 4) % 16 < 8 ->
            <<i[1]>> \o NumberBytes(SignExtended(Relocated(encoder, src, at \div 16), 8, 16), 2) \o <<2>>
       [] OTHER -> i

PowerpcCode(encoder, at, i) ==
  IF i[1] < 2 \/ i[4] % 2 # 1 THEN i
  ELSE With(Relocated(encoder, (i[1] % 2) * 32 + i[2] * 8 + i[3] * 2 + (i[4] \div 2), at \div 4), LAMBDA dest :
         <<2 + ((dest \div 32) % 2), (dest \div 8) % 4, (dest \div 2) % 4, 2 * (dest % 2) + 1>>)

(* The sign bits of the displacement must agree.                           *)
SparcCode(encoder, at, i) ==
  IF i[1] < 2 \/ i[1] % 2 # i[2] \div 2 THEN i
  ELSE With(SignExtended(Relocated(encoder, (i[1] % 2) * 64 + i[2] * 16 + i[3] * 4 + i[4], at \div 4), 64, 128), LAMBDA dest :
         <<2 + (dest \div 64), (dest \div 16) % 4, (dest \div 4) % 4, dest % 4>>)

(* A bundle of three slots of five bytes; the first byte tells which of    *)
(* them are branches.                                                      *)
BRANCH_TABLE == <<{}, {2}, {1, 2}, {0, 1, 2}>>
SlotCode(encoder, at, slot) ==
  IF slot[5] # 1 \/ slot[1] # 0 THEN slot
  ELSE With(Relocated(encoder, Number(SubSeq(slot, 2, 3)) + 16 * (slot[4] % 2), at \div 16), LAMBDA dest :
         <<0>> \o NumberBytes(dest, 2) \o <<2 * (slot[4] \div 2) + ((dest \div 16) % 2), 1>>)
Ia64Code(encoder, at, i) ==
  LET Slot(k) == With(SubSeq(i, 5 * k + 2, 5 * k + 6), LAMBDA slot :
                   IF k \in BRANCH_TABLE[i[1] + 1] THEN SlotCode(encoder, at, slot) ELSE slot)
  IN <<i[1]>> \o Slot(0) \o Slot(1) \o Slot(2)

(* One round of the loop over the bytes; s is [at, bytes, mask, prev], of  *)
(* which only x86 uses the last two.                                       *)
UnfilteredMax == [x86 |-> 5, ia64 |-> 16, arm |-> 4, armthumb |-> 4, arm64 |-> 4, powerpc |-> 4, sparc |-> 4]
AlignmentOf   == [x86 |-> 1, ia64 |-> 16, arm |-> 4, armthumb |-> 2, arm64 |-> 4, powerpc |-> 4, sparc |-> 4]
Instruction(s, n) == SubSeq(s.bytes, s.at + 1, s.at + n)
Replaced(s, code, n) == [s EXCEPT !.bytes = SubSeq(@, 1, s.at) \o code \o SubSeq(@, s.at + Len(code) + 1, Len(@)), !.at = @ + n]
AlignedRound(c, s) ==
  LET n == UnfilteredMax[c.arch]
      at == c.now + s.at
  IN With(Instruction(s, n), LAMBDA i :
       CASE c.arch = "arm"      -> Replaced(s, ArmCode(c.encoder, at, i), n)
         [] c.arch = "armthumb" -> Replaced(s, ArmThumbCode(c.encoder, at, i), IF IsThumbBranch(i) THEN 4 ELSE 2)
         [] c.arch = "arm64"    -> Replaced(s, Arm64Code(c.encoder, at, i), n)
         [] c.arch = "powerpc"  -> Replaced(s, PowerpcCode(c.encoder, at, i), n)
         [] c.arch = "sparc"    -> Replaced(s, SparcCode(c.encoder, at, i), n)
         [] c.arch = "ia64"     -> Replaced(s, Ia64Code(c.encoder, at, i), n))

(* x86 looks at every byte. mask tells which of the bytes before looked    *)
(* like an opcode (the low half), and which of these like a branch (the    *)
(* high half); an address whose top byte is not all zeros or all ones is   *)
(* not converted, nor one in doubt.                                        *)
Test86MSByte(byte) == byte \in {0, Bytes - 1}
Allowed == {0, 1, 2, 4}
MASK_TO_BIT_NUMBER == [m \in 0 .. 7 |-> CASE m = 0 -> 0 [] m = 1 -> 1 [] m \in {2, 3} -> 2 [] OTHER -> 3]
ShiftMask(mask) == 2 * ((mask % 8) + 16 * ((mask \div 16) % 8))
MaskAt(s, offset) == IF offset > 5 THEN 0 ELSE Times(offset, ShiftMask, s.mask)

(* The low bytes of the target are complemented when they would be taken   *)
(* for an opcode's own top byte.                                           *)
X86Dest(encoder, pc, mask, address) ==
  LET low == 4 - MASK_TO_BIT_NUMBER[mask \div 2]
      Complement(v) == v + Bytes^low - 1 - 2 * (v % Bytes^low)
      TryDest(x) == With(Relocated(encoder, x.src, pc) % Bytes^4, LAMBDA dest :
                    [dest |-> dest, src |-> Complement(dest), done |-> mask = 0 \/ ~Test86MSByte(ByteOf(dest, low - 1))])
  IN Loop(TryDest, [dest |-> address, src |-> address, done |-> FALSE]).dest
X86Branch(encoder, at, mask, address) ==
  With(X86Dest(encoder, at + 5, mask, address), LAMBDA dest : NumberBytes(SignExtended(dest, 2 * Bytes^3, Bytes^4), 4))

X86Round(c, s) ==
  With(Instruction(s, 5), LAMBDA i :
    LET at == c.now + s.at
        mask == MaskAt(s, at - s.prev)
    IN CASE i[1] \notin {1, 2} -> [s EXCEPT !.at = @ + 1]
         [] i[1] \in {1, 2} /\ Test86MSByte(i[5]) /\ (mask \div 2) % 8 \in Allowed /\ mask < 32 ->
              [Replaced(s, <<i[1]>> \o X86Branch(c.encoder, at, mask, Number(SubSeq(i, 2, 5))), 5) EXCEPT
                 !.prev = at, !.mask = 0]
         [] OTHER -> [s EXCEPT !.at = @ + 1, !.prev = at, !.mask = mask + 1 + (IF Test86MSByte(i[5]) THEN 16 ELSE 0)])

SimpleInit(arch, start, encoder) ==
  [kind |-> "simple", arch |-> arch, encoder |-> encoder, now |-> start, ended |-> FALSE,
   pos |-> 0, filtered |-> 0, buffer |-> <<>>, mask |-> 0, prev |-> -5]
Allocated(c) == 2 * UnfilteredMax[c.arch]

(* A whole call of the filter: what cannot be converted yet is left alone. *)
Filtered(c, bytes) ==
  LET Round(s, k) == IF k # s.at THEN s ELSE IF c.arch = "x86" THEN X86Round(c, s) ELSE AlignedRound(c, s)
      begun == [at |-> 0, bytes |-> bytes, mask |-> c.mask, prev |-> IF c.now - c.prev > 5 THEN c.now - 5 ELSE c.prev]
  IN IF Len(bytes) < UnfilteredMax[c.arch] THEN [begun EXCEPT !.prev = c.prev]
     ELSE Fold(Round, begun, [k \in 1 .. Len(bytes) - UnfilteredMax[c.arch] + 1 |-> k - 1])
(* call_filter: [c, bytes, filtered].                                      *)
CallFilter(c, bytes) ==
  With(Filtered(c, bytes), LAMBDA s :
    [c |-> [c EXCEPT !.now = @ + s.at, !.mask = s.mask, !.prev = s.prev], bytes |-> s.bytes, filtered |-> s.at])

(* copy_or_code.                                                           *)
CopyOrCode(c, Coder, in, room, action) ==
  IF c.encoder THEN With(Copy(in, room), LAMBDA got :
         [c |-> [c EXCEPT !.ended = (action = "FINISH" /\ Len(got) = Len(in))],
          next |-> Coder, used |-> Len(got), out |-> got, ret |-> "OK"])
  ELSE With(LzDecode(Coder, in, room, action), LAMBDA r :
         [c |-> [c EXCEPT !.ended = (r.ret = "STREAM_END")], next |-> r.c, used |-> r.used, out |-> r.out,
          ret |-> IF r.ret = "STREAM_END" THEN "OK" ELSE r.ret])

(* s is [c, next, used, out, ret]; the three parts of simple_code.         *)
FlushFiltered(s, room) ==
  LET n == Least(room, s.c.filtered - s.c.pos)
  IN [s EXCEPT !.out = SubSeq(s.c.buffer, s.c.pos + 1, s.c.pos + n), !.c.pos = @ + n]

(* Straight into out[], what was held back first; what stays unfiltered is *)
(* taken out again.                                                        *)
CodeDirectly(s, held, in, room, action) ==
  With(CopyOrCode([s.c EXCEPT !.filtered = 0], s.next, in, room - Len(s.out) - Len(held), action), LAMBDA r :
    With(CallFilter(r.c, held \o r.out), LAMBDA f :
      LET size == Len(f.bytes)
          keep == IF r.c.ended THEN 0 ELSE size - f.filtered
      IN IF r.ret # "OK"
         THEN [s EXCEPT !.c = r.c, !.next = r.next, !.used = r.used, !.out = @ \o held \o r.out, !.ret = r.ret]
         ELSE [s EXCEPT !.c = [f.c EXCEPT !.pos = 0, !.buffer = SubSeq(f.bytes, size - keep + 1, size)],
                        !.next = r.next, !.used = r.used, !.out = @ \o SubSeq(f.bytes, 1, size - keep)]))

(* Through the buffer, when out[] has no room for what is held back and    *)
(* the rest of its unit.                                                   *)
CodeThroughBuffer(s, in, room, action) ==
  With(CopyOrCode(s.c, s.next, SubSeq(in, s.used + 1, Len(in)), Allocated(s.c) - Len(s.c.buffer), action), LAMBDA r :
    With(CallFilter(r.c, s.c.buffer \o r.out), LAMBDA f :
      LET filtered == IF r.c.ended THEN Len(f.bytes) ELSE f.filtered
          n == Least(room - Len(s.out), filtered)
      IN IF r.ret # "OK"
         THEN [s EXCEPT !.c = [r.c EXCEPT !.buffer = @ \o r.out], !.next = r.next, !.used = @ + r.used, !.ret = r.ret]
         ELSE [s EXCEPT !.c = [f.c EXCEPT !.buffer = f.bytes, !.filtered = filtered, !.pos = n],
                        !.next = r.next, !.used = @ + r.used, !.out = @ \o SubSeq(f.bytes, 1, n)]))

Ended(s) == [s EXCEPT !.ret = IF s.ret = "OK" /\ s.c.ended /\ s.c.pos = Len(s.c.buffer) THEN "STREAM_END" ELSE @]

SimpleFresh(s, in, room, action) ==
  LET held == SubSeq(s.c.buffer, s.c.pos + 1, Len(s.c.buffer))
      direct == room - Len(s.out) > Len(held) \/ held = <<>>
      first == IF direct THEN CodeDirectly(s, held, in, room, action)
               ELSE [s EXCEPT !.c = [@ EXCEPT !.filtered = 0, !.pos = 0, !.buffer = held]]
  IN With(first, LAMBDA f :
       Ended(IF f.ret = "OK" /\ f.c.buffer # <<>> THEN CodeThroughBuffer(f, in, room, action) ELSE f))

SimpleCode(c, Coder, in, room, action) ==
  LET begun == [c |-> c, next |-> Coder, used |-> 0, out |-> <<>>, ret |-> "OK"]
  IN IF action = "SYNC_FLUSH" THEN [begun EXCEPT !.ret = "OPTIONS_ERROR"]
     ELSE With(IF c.pos < c.filtered THEN FlushFiltered(begun, room) ELSE begun, LAMBDA s :
            CASE c.pos < c.filtered /\ s.c.pos < s.c.filtered -> s
              [] c.pos < c.filtered /\ s.c.pos = s.c.filtered /\ c.ended -> [s EXCEPT !.ret = "STREAM_END"]
              [] OTHER -> SimpleFresh(s, in, room, action))

-----------------------------------------------------------------------------
(* The end of an encoder's chain.                                          *)
FilterEncode(f, in, room, action) ==
  CASE f.kind = "none" -> CopyCode(f, in, room, action)
    [] f.kind = "delta" -> DeltaEncode(f, in, room, action)
    [] f.kind = "simple" ->
         With(SimpleCode(f, NoFilter, in, room, action), LAMBDA s : Coded(s.c, s.used, s.out, s.ret))

(* The chain of a Block: LZMA2, or a filter and LZMA2; k.front is the      *)
(* filter.                                                                 *)
ChainDecode(k, in, room, action) ==
  CASE k.front.kind = "none" -> With(LzDecode(k.lz, in, room, action), LAMBDA r :
         Coded([k EXCEPT !.lz = r.c], r.used, r.out, r.ret))
    [] k.front.kind = "delta" -> With(DeltaDecode(k.front, k.lz, in, room, action), LAMBDA r :
         Coded([front |-> r.c, lz |-> r.next], r.used, r.out, r.ret))
    [] k.front.kind = "simple" -> With(SimpleCode(k.front, k.lz, in, room, action), LAMBDA r :
         Coded([front |-> r.c, lz |-> r.next], r.used, r.out, r.ret))
=============================================================================
