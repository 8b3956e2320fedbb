---------------------------- MODULE PackingProofs ----------------------------
(***************************************************************************)
(* Theorems about Packing: for every number of transfers and every         *)
(* configuration of the device, whatever number of turns it takes.  Bits   *)
(* and samples first, then where the samples of a turn are in the stream,  *)
(* unpacker by unpacker, then the turns of a read.                         *)
(***************************************************************************)
EXTENDS Packing, SequenceTheorems, TLAPS

Bit    == Int \X Int
Sample == Seq(Bit)

\* What turn i stores, and how many samples every turn stores.
Stored(i, c) == IF c.pxldata THEN smi_unpack(i, c) ELSE smi_truncate(i, c)
Group(c)     == IF c.width = 0 THEN 0 ELSE smi_packed_ratio(c).out_pixels

\* Bit r of pixel q, and the bit b stored as bit k of sample j being the one it should be.
Pixel(c, q, r) ==
    LET bit == IF PixelBits(c) = 18 THEN Six(c.format, r) ELSE PixelBits(c) - 1 - r
    IN  IF c.format = "XRGB" THEN <<q + 1, bit>> ELSE <<1 + q \div 2, 16 * (q % 2) + bit>>

InPlace(c, j, k, b) ==
    LET p == Position(c, j, k)
    IN  Repeated(c, p % PixelBits(c)) \/ b = Stream(c, p)

Good(c, j, s) == Len(s) = c.width /\ \A k \in 1..c.width : InPlace(c, j, k, s[k])

-----------------------------------------------------------------------------
(* Bits and samples *)

LEMMA BitString ==
    ASSUME NEW n \in Nat, NEW f \in [1..n -> Bit]
    PROVE  f \in Sample /\ Len(f) = n
  BY DEF Sample

LEMMA Field ==
    ASSUME NEW w \in Int, NEW hi \in Int, NEW lo \in Int, hi - lo + 1 \in Nat
    PROVE  /\ FIFO(w, hi, lo) \in Sample /\ Len(FIFO(w, hi, lo)) = hi - lo + 1
           /\ \A k \in 1..(hi - lo + 1) : FIFO(w, hi, lo)[k] = <<w, hi - k + 1>>
  <1>1. \A k \in 1..(hi - lo + 1) : <<w, hi - k + 1>> \in Bit
    BY DEF Bit
  <1>2. FIFO(w, hi, lo) = [k \in 1..(hi - lo + 1) |-> <<w, hi - k + 1>>]
    BY DEF FIFO
  <1>3. FIFO(w, hi, lo) \in [1..(hi - lo + 1) -> Bit]
    BY <1>1, <1>2
  <1>4. FIFO(w, hi, lo) \in Seq(Bit) /\ Len(FIFO(w, hi, lo)) = hi - lo + 1
    BY <1>3
  <1> QED BY <1>2, <1>4 DEF Sample

\* The same, for a field of n bits.
LEMMA Fields ==
    ASSUME NEW w \in Int, NEW hi \in Int, NEW lo \in Int, NEW n \in Nat, hi - lo + 1 = n
    PROVE  /\ FIFO(w, hi, lo) \in Sample /\ Len(FIFO(w, hi, lo)) = n
           /\ \A k \in 1..n : FIFO(w, hi, lo)[k] = <<w, hi - k + 1>>
  BY Field

LEMMA Glued ==
    ASSUME NEW s \in Sample, NEW t \in Sample
    PROVE  /\ s \o t \in Sample /\ Len(s \o t) = Len(s) + Len(t)
           /\ \A k \in 1..Len(s) : (s \o t)[k] = s[k]
           /\ \A k \in (Len(s) + 1)..(Len(s) + Len(t)) : (s \o t)[k] = t[k - Len(s)]
  <1>1. /\ s \o t \in Sample /\ Len(s \o t) = Len(s) + Len(t)
        /\ \A k \in 1..(Len(s) + Len(t)) :
             (s \o t)[k] = IF k <= Len(s) THEN s[k] ELSE t[k - Len(s)]
    BY ConcatProperties DEF Sample
  <1>2. Len(s) \in Nat /\ Len(t) \in Nat
    BY LenProperties DEF Sample
  <1> QED BY <1>1, <1>2

\* A sample of two bit fields: n bits of word w from bit hi down, m of word v from top.
Joined(s, w, hi, n, v, top, m) ==
    /\ s \in Sample /\ Len(s) = n + m
    /\ \A k \in 1..n : s[k] = <<w, hi - k + 1>>
    /\ \A k \in (n + 1)..(n + m) : s[k] = <<v, top - (k - n) + 1>>

LEMMA TwoFields ==
    ASSUME NEW w \in Int, NEW hi \in Int, NEW lo \in Int, NEW n \in Nat, hi - lo + 1 = n,
           NEW v \in Int, NEW top \in Int, NEW bottom \in Int, NEW m \in Nat,
           top - bottom + 1 = m
    PROVE  Joined(FIFO(w, hi, lo) \o FIFO(v, top, bottom), w, hi, n, v, top, m)
  <1> DEFINE s == FIFO(w, hi, lo)
             t == FIFO(v, top, bottom)
  <1>1. /\ s \in Sample /\ Len(s) = n
        /\ \A k \in 1..n : s[k] = <<w, hi - k + 1>>
    <2>1. hi - lo + 1 \in Nat
      OBVIOUS
    <2>2. s \in Sample
      BY ONLY <2>1, w \in Int, hi \in Int, lo \in Int, Field
    <2>3. Len(s) = hi - lo + 1
      BY ONLY <2>1, w \in Int, hi \in Int, lo \in Int, Field
    <2>4. \A k \in 1..(hi - lo + 1) : s[k] = <<w, hi - k + 1>>
      BY DEF FIFO
    <2> HIDE DEF s
    <2> QED BY ONLY <2>2, <2>3, <2>4, hi - lo + 1 = n
  <1>2. /\ t \in Sample /\ Len(t) = m
        /\ \A k \in 1..m : t[k] = <<v, top - k + 1>>
    <2>1. top - bottom + 1 \in Nat
      OBVIOUS
    <2>2. t \in Sample
      BY ONLY <2>1, v \in Int, top \in Int, bottom \in Int, Field
    <2>3. Len(t) = top - bottom + 1
      BY ONLY <2>1, v \in Int, top \in Int, bottom \in Int, Field
    <2>4. \A k \in 1..(top - bottom + 1) : t[k] = <<v, top - k + 1>>
      BY DEF FIFO
    <2> HIDE DEF t
    <2> QED BY ONLY <2>2, <2>3, <2>4, top - bottom + 1 = m
  <1> HIDE DEF s, t
  <1>3. /\ s \o t \in Sample /\ Len(s \o t) = n + m
        /\ \A k \in 1..n : (s \o t)[k] = s[k]
        /\ \A k \in (n + 1)..(n + m) : (s \o t)[k] = t[k - n]
    <2>1. s \in Sample /\ t \in Sample /\ Len(s) = n /\ Len(t) = m
      BY <1>1, <1>2
    <2>2. /\ s \o t \in Sample /\ Len(s \o t) = Len(s) + Len(t)
          /\ \A k \in 1..Len(s) : (s \o t)[k] = s[k]
          /\ \A k \in (Len(s) + 1)..(Len(s) + Len(t)) : (s \o t)[k] = t[k - Len(s)]
      BY ONLY <2>1, Glued
    <2> QED BY ONLY <2>1, <2>2
  <1>4. \A k \in (n + 1)..(n + m) : k - n \in 1..m
    OBVIOUS
  <1>5. /\ \A k \in 1..n : (s \o t)[k] = <<w, hi - k + 1>>
        /\ \A k \in (n + 1)..(n + m) : (s \o t)[k] = <<v, top - (k - n) + 1>>
    BY ONLY <1>1, <1>2, <1>3, <1>4
  <1> QED BY <1>3, <1>5 DEF s, t, Joined

\* The same with three fields, of one word.
Joined3(s, w, hi, n, mid, m, top, l) ==
    /\ s \in Sample /\ Len(s) = n + m + l
    /\ \A k \in 1..n : s[k] = <<w, hi - k + 1>>
    /\ \A k \in (n + 1)..(n + m) : s[k] = <<w, mid - (k - n) + 1>>
    /\ \A k \in (n + m + 1)..(n + m + l) : s[k] = <<w, top - (k - n - m) + 1>>

LEMMA ThreeFields ==
    ASSUME NEW w \in Int,
           NEW hi \in Int, NEW lo \in Int, NEW n \in Nat, hi - lo + 1 = n,
           NEW mid \in Int, NEW low \in Int, NEW m \in Nat, mid - low + 1 = m,
           NEW top \in Int, NEW bottom \in Int, NEW l \in Nat, top - bottom + 1 = l
    PROVE  Joined3(FIFO(w, hi, lo) \o FIFO(w, mid, low) \o FIFO(w, top, bottom),
                   w, hi, n, mid, m, top, l)
  <1> DEFINE s == FIFO(w, hi, lo) \o FIFO(w, mid, low)
             t == FIFO(w, top, bottom)
  <1>1. Joined(s, w, hi, n, w, mid, m)
    BY TwoFields
  <1>2. t \in Sample /\ Len(t) = l /\ \A k \in 1..l : t[k] = <<w, top - k + 1>>
    <2>1. top - bottom + 1 \in Nat
      OBVIOUS
    <2>2. t \in Sample
      BY ONLY <2>1, w \in Int, top \in Int, bottom \in Int, Field
    <2>3. Len(t) = top - bottom + 1
      BY ONLY <2>1, w \in Int, top \in Int, bottom \in Int, Field
    <2>4. \A k \in 1..(top - bottom + 1) : t[k] = <<w, top - k + 1>>
      BY DEF FIFO
    <2> HIDE DEF t
    <2> QED BY ONLY <2>2, <2>3, <2>4, top - bottom + 1 = l
  <1> HIDE DEF s, t
  <1>3. /\ s \o t \in Sample /\ Len(s \o t) = n + m + l
        /\ \A k \in 1..(n + m) : (s \o t)[k] = s[k]
        /\ \A k \in (n + m + 1)..(n + m + l) : (s \o t)[k] = t[k - (n + m)]
    <2>1. s \in Sample /\ t \in Sample /\ Len(s) = n + m /\ Len(t) = l
      BY <1>1, <1>2 DEF Joined
    <2>2. /\ s \o t \in Sample /\ Len(s \o t) = Len(s) + Len(t)
          /\ \A k \in 1..Len(s) : (s \o t)[k] = s[k]
          /\ \A k \in (Len(s) + 1)..(Len(s) + Len(t)) : (s \o t)[k] = t[k - Len(s)]
      BY ONLY <2>1, Glued
    <2> QED BY ONLY <2>1, <2>2
  <1>4. \A k \in (n + m + 1)..(n + m + l) : k - (n + m) \in 1..l /\ k - (n + m) = k - n - m
    OBVIOUS
  <1>5. \A k \in (n + m + 1)..(n + m + l) : (s \o t)[k] = <<w, top - (k - n - m) + 1>>
    BY ONLY <1>2, <1>3, <1>4
  <1>6. /\ \A k \in 1..n : k \in 1..(n + m)
        /\ \A k \in (n + 1)..(n + m) : k \in 1..(n + m)
    OBVIOUS
  <1>7. /\ \A k \in 1..n : (s \o t)[k] = <<w, hi - k + 1>>
        /\ \A k \in (n + 1)..(n + m) : (s \o t)[k] = <<w, mid - (k - n) + 1>>
    BY ONLY <1>1, <1>3, <1>6 DEF Joined
  <1> QED BY <1>3, <1>5, <1>7 DEF s, t, Joined3

\* Pixels are cut out of the stream every PixelBits(c) bits.
LEMMA Cut ==
    ASSUME NEW q \in Nat, NEW n \in {16, 18, 24}, NEW r \in 0..(n - 1)
    PROVE  (n * q + r) \div n = q /\ (n * q + r) % n = r
  <1>1. CASE n = 16
    BY <1>1
  <1>2. CASE n = 18
    BY <1>2
  <1>3. CASE n = 24
    BY <1>3
  <1> QED BY <1>1, <1>2, <1>3

LEMMA InPlaceIf ==
    ASSUME NEW c \in Configs, NEW j, NEW k, NEW b, NEW q \in Nat,
           NEW r \in 0..(PixelBits(c) - 1),
           Position(c, j, k) = PixelBits(c) * q + r,
           Repeated(c, r) \/ b = Pixel(c, q, r)
    PROVE  InPlace(c, j, k, b)
  <1> DEFINE p == Position(c, j, k)
  <1>1. PixelBits(c) \in {16, 18, 24}
    BY DEF PixelBits
  <1>2. p \div PixelBits(c) = q /\ p % PixelBits(c) = r
    BY <1>1, Cut
  <1>3. Stream(c, p) = Pixel(c, q, r)
    BY <1>2 DEF Stream, Pixel
  <1> QED BY <1>2, <1>3 DEF InPlace

\* The bits of a sample follow each other in the stream.
LEMMA Steps ==
    ASSUME NEW c \in Configs, NEW j \in Nat, NEW k \in 1..c.width
    PROVE  Position(c, j, k) = Position(c, j, 1) + k - 1
  <1>1. c.width \in {0, 8, 9, 16, 18} /\ j - 1 \in Int
    BY DEF Configs, Widths
  <1>2. (j - 1) * c.width \in Int
    BY ONLY <1>1
  <1> DEFINE place == (j - 1) * c.width
  <1>3. Position(c, j, k) = place + k - 1 /\ Position(c, j, 1) = place + 1 - 1
    BY DEF Position
  <1> HIDE DEF place
  <1>4. place \in Int
    BY <1>2 DEF place
  <1> QED BY <1>1, <1>3, <1>4

\* Every unpacker of RGB565 takes its pixels from the two halves of a word: sample j is in
\* place when its bits are those of half h of word w from bit r on.
HalfBit(c, h, r) == 16 * h + (IF PixelBits(c) = 18 THEN Six("RGB565", r) ELSE 15 - r)

LEMMA HalfWord ==
    ASSUME NEW w \in Nat \ {0}, NEW h \in 0..1, NEW c \in Configs, c.format = "RGB565",
           NEW j \in Nat, NEW s, Len(s) = c.width, NEW r \in Nat, r + c.width <= PixelBits(c),
           c.width # 0, Position(c, j, 1) = PixelBits(c) * (2 * (w - 1) + h) + r,
           \A k \in 1..c.width : \/ Repeated(c, r + k - 1)
                                 \/ s[k] = <<w, HalfBit(c, h, r + k - 1)>>
    PROVE  Good(c, j, s)
  <1> DEFINE q == 2 * (w - 1) + h
  <1>1. q \in Nat /\ q \div 2 = w - 1 /\ q % 2 = h /\ 1 + (w - 1) = w
    BY ONLY w \in Nat \ {0}, h \in 0..1
  <1>2. PixelBits(c) \in {16, 18} /\ c.width \in {8, 9, 16, 18}
    BY DEF PixelBits, Configs, Widths
  <1>3. ASSUME NEW a PROVE Pixel(c, q, a) = <<w, HalfBit(c, h, a)>>
    BY <1>1, <1>2 DEF Pixel, HalfBit
  <1>4. ASSUME NEW k \in 1..c.width PROVE InPlace(c, j, k, s[k])
    <2> DEFINE a == r + k - 1
    <2>1. /\ k \in Int /\ 1 <= k /\ k <= c.width
          /\ c.width \in Int /\ PixelBits(c) \in Int
      BY <1>2
    <2>2. a \in 0..(PixelBits(c) - 1)
      BY ONLY <2>1, r \in Nat, r + c.width <= PixelBits(c)
    <2>3. Position(c, j, k) = Position(c, j, 1) + k - 1
      BY <1>2, Steps
    <2>5. PixelBits(c) * q \in Int
      BY <1>1, <1>2
    <2>6. Position(c, j, k) = PixelBits(c) * q + a
      BY <2>1, <2>3, <2>5
    <2>4. Repeated(c, a) \/ s[k] = Pixel(c, q, a)
      BY <1>3
    <2> HIDE DEF a, q
    <2> QED BY <1>1, <2>2, <2>6, <2>4, InPlaceIf
  <1> QED BY <1>4 DEF Good

\* Every unpacker of XRGB takes a pixel from a word.
WholeBit(c, r) == IF PixelBits(c) = 18 THEN Six("XRGB", r) ELSE 23 - r

LEMMA WholeWord ==
    ASSUME NEW w \in Nat \ {0}, NEW c \in Configs, c.format = "XRGB",
           NEW j \in Nat, NEW s, Len(s) = c.width, NEW r \in Nat, r + c.width <= PixelBits(c),
           c.width # 0, Position(c, j, 1) = PixelBits(c) * (w - 1) + r,
           \A k \in 1..c.width : s[k] = <<w, WholeBit(c, r + k - 1)>>
    PROVE  Good(c, j, s)
  <1> DEFINE q == w - 1
  <1>1. q \in Nat /\ q + 1 = w
    OBVIOUS
  <1>2. PixelBits(c) \in {18, 24} /\ c.width \in {8, 9, 16, 18}
    BY DEF PixelBits, Configs, Widths
  <1>3. ASSUME NEW a PROVE Pixel(c, q, a) = <<w, WholeBit(c, a)>>
    BY <1>1, <1>2 DEF Pixel, WholeBit
  <1>4. ASSUME NEW k \in 1..c.width PROVE InPlace(c, j, k, s[k])
    <2> DEFINE a == r + k - 1
    <2>1. /\ k \in Int /\ 1 <= k /\ k <= c.width
          /\ c.width \in Int /\ PixelBits(c) \in Int
      BY <1>2
    <2>2. a \in 0..(PixelBits(c) - 1)
      BY ONLY <2>1, r \in Nat, r + c.width <= PixelBits(c)
    <2>3. Position(c, j, k) = Position(c, j, 1) + k - 1
      BY <1>2, Steps
    <2>5. PixelBits(c) * q \in Int
      BY <1>1, <1>2
    <2>6. Position(c, j, k) = PixelBits(c) * q + a
      BY <2>1, <2>3, <2>5
    <2>4. s[k] = Pixel(c, q, a)
      BY <1>3
    <2> HIDE DEF a, q
    <2> QED BY <1>1, <2>2, <2>6, <2>4, InPlaceIf
  <1> QED BY <1>4 DEF Good

-----------------------------------------------------------------------------
(* The unpackers, one by one *)

LEMMA Good_rgb565_8 ==
    ASSUME NEW i \in Nat \ {0}, NEW c \in Configs, c.width = 8, c.format = "RGB565",
           NEW h \in 0..1, NEW e \in 0..1
    PROVE  /\ smi_unpack_rgb565_8(i)[2 * h + e + 1] \in Sample
           /\ Good(c, (i - 1) * 4 + (2 * h + e + 1), smi_unpack_rgb565_8(i)[2 * h + e + 1])
  <1> DEFINE j  == (i - 1) * 4 + (2 * h + e + 1)
             hi == 16 * h + 15 - 8 * e
             lo == 16 * h + 8 - 8 * e
             r  == 8 * e
             s  == FIFO(i, hi, lo)
  <1>1. smi_unpack_rgb565_8(i)[2 * h + e + 1] = s
    BY DEF smi_unpack_rgb565_8
  <1>2. hi \in Int /\ lo \in Int /\ hi - lo + 1 = 8 /\ j \in Nat /\ r \in Nat /\ r <= 8
        /\ i \in Int
    OBVIOUS
  <1>3. PixelBits(c) = 16
    BY DEF PixelBits
  <1>4. Position(c, j, 1) = PixelBits(c) * (2 * (i - 1) + h) + r
    BY <1>3 DEF Position
  <1>5. \A k \in 1..8 : hi - k + 1 = HalfBit(c, h, r + k - 1)
    BY <1>3 DEF HalfBit
  <1> HIDE DEF hi, lo, j, r
  <1>6. s \in Sample /\ Len(s) = 8 /\ \A k \in 1..8 : s[k] = <<i, hi - k + 1>>
    BY ONLY <1>2, 8 \in Nat, Fields
  <1> HIDE DEF s
  <1>7. \A k \in 1..c.width : s[k] = <<i, HalfBit(c, h, r + k - 1)>>
    BY <1>5, <1>6
  <1>8. Len(s) = c.width /\ c.width # 0 /\ r + c.width <= PixelBits(c)
    BY <1>2, <1>3, <1>6
  <1>9. Good(c, j, s)
    BY <1>2, <1>4, <1>7, <1>8, HalfWord
  <1> QED BY <1>1, <1>6, <1>9 DEF j

LEMMA Good_xrgb_8 ==
    ASSUME NEW i \in Nat \ {0}, NEW c \in Configs, c.width = 8, c.format = "XRGB", NEW m \in 1..3
    PROVE  /\ smi_unpack_xrgb_8(i)[m] \in Sample
           /\ Good(c, (i - 1) * 3 + m, smi_unpack_xrgb_8(i)[m])
  <1> DEFINE j  == (i - 1) * 3 + m
             hi == 31 - 8 * m
             lo == 24 - 8 * m
             r  == 8 * (m - 1)
             s  == FIFO(i, hi, lo)
  <1>1. smi_unpack_xrgb_8(i)[m] = s
    BY DEF smi_unpack_xrgb_8
  <1>2. /\ hi \in Int /\ lo \in Int /\ hi - lo + 1 = 8 /\ j \in Nat /\ r \in Nat /\ r <= 16
        /\ i \in Int
    OBVIOUS
  <1>3. PixelBits(c) = 24
    BY DEF PixelBits
  <1>4. Position(c, j, 1) = PixelBits(c) * (i - 1) + r
    BY <1>3 DEF Position
  <1>5. \A k \in 1..8 : hi - k + 1 = WholeBit(c, r + k - 1)
    BY <1>3 DEF WholeBit
  <1> HIDE DEF hi, lo, j, r
  <1>6. s \in Sample /\ Len(s) = 8 /\ \A k \in 1..8 : s[k] = <<i, hi - k + 1>>
    BY ONLY <1>2, 8 \in Nat, Fields
  <1> HIDE DEF s
  <1>7. \A k \in 1..c.width : s[k] = <<i, WholeBit(c, r + k - 1)>>
    BY <1>5, <1>6
  <1>8. Len(s) = c.width /\ c.width # 0 /\ r + c.width <= PixelBits(c)
    BY <1>2, <1>3, <1>6
  <1>9. Good(c, j, s)
    BY <1>2, <1>4, <1>7, <1>8, WholeWord
  <1> QED BY <1>1, <1>6, <1>9 DEF j

LEMMA Good_rgb565_16 ==
    ASSUME NEW i \in Nat \ {0}, NEW c \in Configs, c.width = 16, c.format = "RGB565",
           NEW h \in 0..1
    PROVE  /\ smi_unpack_rgb565_16(i)[h + 1] \in Sample
           /\ Good(c, (i - 1) * 2 + (h + 1), smi_unpack_rgb565_16(i)[h + 1])
  <1> DEFINE j  == (i - 1) * 2 + (h + 1)
             hi == 16 * h + 15
             lo == 16 * h
             s  == FIFO(i, hi, lo)
  <1>1. smi_unpack_rgb565_16(i)[h + 1] = s
    BY DEF smi_unpack_rgb565_16
  <1>2. hi \in Int /\ lo \in Int /\ hi - lo + 1 = 16 /\ j \in Nat /\ i \in Int
    OBVIOUS
  <1>3. PixelBits(c) = 16
    BY DEF PixelBits
  <1>4. Position(c, j, 1) = PixelBits(c) * (2 * (i - 1) + h) + 0
    BY <1>3 DEF Position
  <1>5. \A k \in 1..16 : hi - k + 1 = HalfBit(c, h, 0 + k - 1)
    BY <1>3 DEF HalfBit
  <1> HIDE DEF hi, lo, j
  <1>6. s \in Sample /\ Len(s) = 16 /\ \A k \in 1..16 : s[k] = <<i, hi - k + 1>>
    BY ONLY <1>2, 16 \in Nat, Fields
  <1> HIDE DEF s
  <1>7. \A k \in 1..c.width : s[k] = <<i, HalfBit(c, h, 0 + k - 1)>>
    BY <1>5, <1>6
  <1>8. Len(s) = c.width /\ c.width # 0 /\ 0 + c.width <= PixelBits(c)
    BY <1>2, <1>3, <1>6
  <1>9. Good(c, j, s)
    BY <1>2, <1>4, <1>7, <1>8, HalfWord
  <1> QED BY <1>1, <1>6, <1>9 DEF j

LEMMA Good_xrgb_9 ==
    ASSUME NEW i \in Nat \ {0}, NEW c \in Configs, c.width = 9, c.format = "XRGB",
           NEW j \in Nat
    PROVE  /\ LET s == FIFO(i, 23, 18) \o FIFO(i, 15, 13)
              IN  s \in Sample /\ (Position(c, j, 1) = 18 * (i - 1) => Good(c, j, s))
           /\ LET s == FIFO(i, 12, 10) \o FIFO(i, 7, 2)
              IN  s \in Sample /\ (Position(c, j, 1) = 18 * (i - 1) + 9 => Good(c, j, s))
  <1> DEFINE s == FIFO(i, 23, 18) \o FIFO(i, 15, 13)
             t == FIFO(i, 12, 10) \o FIFO(i, 7, 2)
  <1>1. i \in Int /\ i - 1 \in Nat
    OBVIOUS
  <1>2. PixelBits(c) = 18
    BY DEF PixelBits
  <1>3. Joined(s, i, 23, 6, i, 15, 3)
    BY ONLY <1>1, TwoFields
  <1>4. Joined(t, i, 12, 3, i, 7, 6)
    BY ONLY <1>1, TwoFields
  <1> HIDE DEF s, t
  <1>5. /\ Len(s) = c.width /\ c.width # 0 /\ 0 + c.width <= PixelBits(c)
        /\ \A k \in 1..c.width : s[k] = <<i, WholeBit(c, 0 + k - 1)>>
    BY <1>2, <1>3 DEF WholeBit, Six, Joined
  <1>6. /\ Len(t) = c.width /\ c.width # 0 /\ 9 + c.width <= PixelBits(c)
        /\ \A k \in 1..c.width : t[k] = <<i, WholeBit(c, 9 + k - 1)>>
    BY <1>2, <1>4 DEF WholeBit, Six, Joined
  <1>7. ASSUME Position(c, j, 1) = 18 * (i - 1) PROVE Good(c, j, s)
    <2>1. Position(c, j, 1) = PixelBits(c) * (i - 1) + 0
      BY <1>1, <1>2, <1>7
    <2> QED BY <2>1, <1>5, WholeWord
  <1>8. ASSUME Position(c, j, 1) = 18 * (i - 1) + 9 PROVE Good(c, j, t)
    <2>1. Position(c, j, 1) = PixelBits(c) * (i - 1) + 9
      BY <1>1, <1>2, <1>8
    <2> QED BY <2>1, <1>6, WholeWord
  <1> QED BY <1>3, <1>4, <1>7, <1>8 DEF s, t, Joined

LEMMA Good_xrgb_18 ==
    ASSUME NEW i \in Nat \ {0}, NEW c \in Configs, c.width = 18, c.format = "XRGB"
    PROVE  /\ smi_unpack_xrgb_18(i)[1] \in Sample
           /\ Good(c, (i - 1) * 1 + 1, smi_unpack_xrgb_18(i)[1])
  <1> DEFINE j == (i - 1) * 1 + 1
             s == FIFO(i, 23, 18) \o FIFO(i, 15, 10) \o FIFO(i, 7, 2)
  <1>1. smi_unpack_xrgb_18(i)[1] = s
    BY DEF smi_unpack_xrgb_18
  <1>2. i \in Int /\ j \in Nat
    OBVIOUS
  <1>3. PixelBits(c) = 18
    BY DEF PixelBits
  <1>4. Position(c, j, 1) = PixelBits(c) * (i - 1) + 0
    BY <1>3 DEF Position
  <1> HIDE DEF j
  <1>5. Joined3(s, i, 23, 6, 15, 6, 7, 6)
    <2>1. /\ 23 \in Int /\ 18 \in Int /\ 15 \in Int /\ 10 \in Int /\ 7 \in Int /\ 2 \in Int
          /\ 6 \in Nat /\ 23 - 18 + 1 = 6 /\ 15 - 10 + 1 = 6 /\ 7 - 2 + 1 = 6
      OBVIOUS
    <2> QED BY ONLY <1>2, <2>1, ThreeFields, Zenon
  <1> HIDE DEF s
  <1>6. /\ Len(s) = c.width /\ c.width # 0 /\ 0 + c.width <= PixelBits(c)
        /\ \A k \in 1..c.width : s[k] = <<i, WholeBit(c, 0 + k - 1)>>
    BY <1>3, <1>5 DEF WholeBit, Six, Joined3
  <1>7. Good(c, j, s)
    BY <1>2, <1>4, <1>6, WholeWord
  <1> QED BY <1>1, <1>5, <1>7 DEF j, Joined3

LEMMA Good_rgb565_9 ==
    ASSUME NEW i \in Nat \ {0}, NEW h \in 0..1, NEW c \in Configs, c.width = 9,
           c.format = "RGB565", NEW j \in Nat, NEW e \in 0..1
    PROVE  LET s == smi_unpack_rgb565_9_half(i, 16 * h)[e + 1]
           IN  /\ s \in Sample
               /\ Position(c, j, 1) = 18 * (2 * (i - 1) + h) + 9 * e => Good(c, j, s)
  <1> DEFINE b == 16 * h
             s == FIFO(i, b + 15, b + 11) \o FIFO(i, b + 13, b + 13) \o FIFO(i, b + 10, b + 8)
             t == FIFO(i, b + 7, b) \o FIFO(i, b + 7, b + 7)
             q == 2 * (i - 1) + h
  <1>1. smi_unpack_rgb565_9_half(i, b) = <<s, t>>
    BY DEF smi_unpack_rgb565_9_half
  <1>2. i \in Int /\ b \in Int /\ q \in Nat
    OBVIOUS
  <1>3. PixelBits(c) = 18
    BY DEF PixelBits
  <1>4. \A r : HalfBit(c, h, r) = b + Six("RGB565", r)
    BY <1>3 DEF HalfBit
  <1> HIDE DEF b
  <1>5. Joined3(s, i, b + 15, 5, b + 13, 1, b + 10, 3)
    <2>1. /\ b + 15 \in Int /\ b + 11 \in Int /\ 5 \in Nat /\ (b + 15) - (b + 11) + 1 = 5
          /\ b + 13 \in Int /\ 1 \in Nat /\ (b + 13) - (b + 13) + 1 = 1
          /\ b + 10 \in Int /\ b + 8 \in Int /\ 3 \in Nat /\ (b + 10) - (b + 8) + 1 = 3
      BY ONLY <1>2
    <2> QED BY ONLY <1>2, <2>1, ThreeFields, Zenon
  <1>6. Joined(t, i, b + 7, 8, i, b + 7, 1)
    BY ONLY <1>2, TwoFields
  <1> HIDE DEF s, t
  <1>7. /\ Len(s) = c.width /\ c.width # 0 /\ 0 + c.width <= PixelBits(c)
        /\ \A k \in 1..c.width : \/ Repeated(c, 0 + k - 1)
                                  \/ s[k] = <<i, HalfBit(c, h, 0 + k - 1)>>
    BY <1>2, <1>3, <1>4, <1>5 DEF Six, Joined3, Repeated
  <1>8. /\ Len(t) = c.width /\ c.width # 0 /\ 9 + c.width <= PixelBits(c)
        /\ \A k \in 1..c.width : \/ Repeated(c, 9 + k - 1)
                                  \/ t[k] = <<i, HalfBit(c, h, 9 + k - 1)>>
    BY <1>2, <1>3, <1>4, <1>6 DEF Six, Joined, Repeated
  <1>9. CASE e = 0
    <2>1. smi_unpack_rgb565_9_half(i, 16 * h)[e + 1] = s /\ s \in Sample
      BY <1>1, <1>5, <1>9 DEF b, Joined3
    <2>2. ASSUME Position(c, j, 1) = 18 * q + 9 * e PROVE Good(c, j, s)
      <3>1. Position(c, j, 1) = PixelBits(c) * q + 0
        BY <1>2, <1>3, <1>9, <2>2
      <3> QED BY <3>1, <1>7, HalfWord
    <2> QED BY <2>1, <2>2
  <1>10. CASE e = 1
    <2>1. smi_unpack_rgb565_9_half(i, 16 * h)[e + 1] = t /\ t \in Sample
      BY <1>1, <1>6, <1>10 DEF b, Joined
    <2>2. ASSUME Position(c, j, 1) = 18 * q + 9 * e PROVE Good(c, j, t)
      <3>1. Position(c, j, 1) = PixelBits(c) * q + 9
        BY <1>2, <1>3, <1>10, <2>2
      <3> QED BY <3>1, <1>8, HalfWord
    <2> QED BY <2>1, <2>2
  <1> QED BY <1>9, <1>10

\* Of the 16 bits of a half word 18 are made: the first is repeated as the sixth.
LEMMA Widening ==
    ASSUME NEW half \in Sample, Len(half) = 16
    PROVE  /\ Widened(half) \in Sample /\ Len(Widened(half)) = 18
           /\ \A k \in 1..5 : Widened(half)[k] = half[k]
           /\ \A k \in 7..17 : Widened(half)[k] = half[k - 1]
  <1> DEFINE a == SubSeq(half, 1, 5)
             b == SubSeq(half, 1, 1)
             d == SubSeq(half, 6, 16)
             z == Zero(1)
  <1>1. \A k \in 1..16 : half[k] \in Bit
    <2>1. half \in Seq(Bit)
      BY DEF Sample
    <2> QED BY ONLY <2>1, Len(half) = 16, ElementOfSeq
  <1>2. a \in Sample /\ Len(a) = 5 /\ \A k \in 1..5 : a[k] = half[k]
    <2>1. \A k \in 1..5 : half[k] \in Bit
      BY <1>1
    <2>2. /\ a \in Seq(Bit) /\ Len(a) = (IF 1 <= 5 THEN 5 - 1 + 1 ELSE 0)
          /\ \A k \in 1..(5 - 1 + 1) : a[k] = half[1 + k - 1]
      BY <2>1, SubSeqProperties
    <2> HIDE DEF a
    <2> QED BY <2>2 DEF Sample
  <1>3. b \in Sample /\ Len(b) = 1
    <2>1. \A k \in 1..1 : half[k] \in Bit
      BY <1>1
    <2>2. b \in Seq(Bit) /\ Len(b) = (IF 1 <= 1 THEN 1 - 1 + 1 ELSE 0)
      BY <2>1, SubSeqProperties
    <2> HIDE DEF b
    <2> QED BY <2>2 DEF Sample
  <1>4. d \in Sample /\ Len(d) = 11 /\ \A k \in 1..11 : d[k] = half[k + 5]
    <2>1. \A k \in 6..16 : half[k] \in Bit
      BY <1>1
    <2>2. /\ d \in Seq(Bit) /\ Len(d) = (IF 6 <= 16 THEN 16 - 6 + 1 ELSE 0)
          /\ \A k \in 1..(16 - 6 + 1) : d[k] = half[6 + k - 1]
      BY <2>1, SubSeqProperties
    <2> HIDE DEF d
    <2>3. \A k \in 1..11 : 6 + k - 1 = k + 5
      OBVIOUS
    <2> QED BY <2>2, <2>3 DEF Sample
  <1>5. z \in Sample /\ Len(z) = 1
    BY DEF Zero, Sample, Bit
  <1>6. Widened(half) = a \o b \o d \o z
    BY DEF Widened
  <1> HIDE DEF a, b, d, z
  <1>7. /\ a \o b \in Sample /\ Len(a \o b) = 6
        /\ \A k \in 1..5 : (a \o b)[k] = half[k]
    <2>1. a \in Sample /\ b \in Sample /\ Len(a) = 5 /\ Len(b) = 1
      BY <1>2, <1>3
    <2>2. /\ a \o b \in Sample /\ Len(a \o b) = Len(a) + Len(b)
          /\ \A k \in 1..Len(a) : (a \o b)[k] = a[k]
          /\ \A k \in (Len(a) + 1)..(Len(a) + Len(b)) : (a \o b)[k] = b[k - Len(a)]
      BY ONLY <2>1, Glued
    <2> QED BY ONLY <2>1, <2>2, <1>2
  <1> DEFINE e == a \o b
  <1> HIDE DEF e
  <1>8. /\ e \in Sample /\ Len(e) = 6 /\ \A k \in 1..5 : e[k] = half[k]
    BY <1>7 DEF e
  <1>9. /\ e \o d \in Sample /\ Len(e \o d) = 17
        /\ \A k \in 1..5 : (e \o d)[k] = half[k]
        /\ \A k \in 7..17 : (e \o d)[k] = half[k - 1]
    <2>1. /\ e \o d \in Sample /\ Len(e \o d) = 17
          /\ \A k \in 1..6 : (e \o d)[k] = e[k]
          /\ \A k \in 7..17 : (e \o d)[k] = d[k - 6]
      <3>1. e \in Sample /\ d \in Sample /\ Len(e) = 6 /\ Len(d) = 11
        BY <1>4, <1>8
      <3>2. /\ e \o d \in Sample /\ Len(e \o d) = Len(e) + Len(d)
            /\ \A k \in 1..Len(e) : (e \o d)[k] = e[k]
            /\ \A k \in (Len(e) + 1)..(Len(e) + Len(d)) : (e \o d)[k] = d[k - Len(e)]
        BY ONLY <3>1, Glued
      <3>3. e \o d \in Sample /\ Len(e \o d) = 17
        BY ONLY <3>1, <3>2
      <3>4. \A k \in 1..6 : (e \o d)[k] = e[k]
        BY ONLY <3>1, <3>2
      <3>5. \A k \in 7..17 : (e \o d)[k] = d[k - 6]
        <4> TAKE k \in 7..17
        <4>1. k \in (Len(e) + 1)..(Len(e) + Len(d)) /\ k - Len(e) = k - 6
          BY ONLY <3>1, k \in 7..17
        <4> QED BY ONLY <3>2, <4>1
      <3> QED BY ONLY <3>3, <3>4, <3>5
    <2>2. \A k \in 7..17 : k - 6 \in 1..11 /\ (k - 6) + 5 = k - 1
      OBVIOUS
    <2>3. \A k \in 1..5 : k \in 1..6
      OBVIOUS
    <2>4. \A k \in 7..17 : (e \o d)[k] = half[k - 1]
      <3> TAKE k \in 7..17
      <3>1. (e \o d)[k] = d[k - 6] /\ d[k - 6] = half[(k - 6) + 5]
        BY ONLY <2>1, <2>2, <1>4
      <3> QED BY <3>1, <2>2
    <2>5. \A k \in 1..5 : (e \o d)[k] = half[k]
      BY ONLY <2>1, <2>3, <1>8
    <2> QED BY <2>1, <2>4, <2>5
  <1> DEFINE f == e \o d
  <1> HIDE DEF f
  <1>10. /\ f \in Sample /\ Len(f) = 17 /\ \A k \in 1..5 : f[k] = half[k]
         /\ \A k \in 7..17 : f[k] = half[k - 1]
    BY <1>9 DEF f
  <1>11. /\ f \o z \in Sample /\ Len(f \o z) = 18
         /\ \A k \in 1..17 : (f \o z)[k] = f[k]
    <2>1. f \in Sample /\ z \in Sample /\ Len(f) = 17 /\ Len(z) = 1
      BY <1>5, <1>10
    <2>2. /\ f \o z \in Sample /\ Len(f \o z) = Len(f) + Len(z)
          /\ \A k \in 1..Len(f) : (f \o z)[k] = f[k]
          /\ \A k \in (Len(f) + 1)..(Len(f) + Len(z)) : (f \o z)[k] = z[k - Len(f)]
      BY ONLY <2>1, Glued
    <2>3. f \o z \in Sample /\ Len(f \o z) = 18
      BY ONLY <2>1, <2>2
    <2>4. \A k \in 1..17 : (f \o z)[k] = f[k]
      BY ONLY <2>1, <2>2
    <2> QED BY ONLY <2>3, <2>4
  <1>12. Widened(half) = f \o z
    BY <1>6 DEF e, f
  <1>13. /\ \A k \in 1..5 : (f \o z)[k] = half[k]
         /\ \A k \in 7..17 : (f \o z)[k] = half[k - 1]
    <2>1. (\A k \in 1..5 : k \in 1..17) /\ (\A k \in 7..17 : k \in 1..17)
      OBVIOUS
    <2> QED BY ONLY <2>1, <1>10, <1>11
  <1> QED BY ONLY <1>11, <1>12, <1>13

LEMMA Good_rgb565_18 ==
    ASSUME NEW i \in Nat \ {0}, NEW c \in Configs, c.width = 18, c.format = "RGB565",
           NEW h \in 0..1
    PROVE  /\ smi_unpack_rgb565_18(i)[h + 1] \in Sample
           /\ Good(c, (i - 1) * 2 + (h + 1), smi_unpack_rgb565_18(i)[h + 1])
  <1> DEFINE j  == (i - 1) * 2 + (h + 1)
             hi == 16 * h + 15
             lo == 16 * h
             half == FIFO(i, hi, lo)
             s  == Widened(half)
  <1>1. smi_unpack_rgb565_18(i)[h + 1] = s
    BY DEF smi_unpack_rgb565_18
  <1>2. hi \in Int /\ lo \in Int /\ hi - lo + 1 = 16 /\ j \in Nat /\ i \in Int
    OBVIOUS
  <1>3. PixelBits(c) = 18
    BY DEF PixelBits
  <1>4. Position(c, j, 1) = PixelBits(c) * (2 * (i - 1) + h) + 0
    BY <1>3 DEF Position
  <1>5. /\ \A k \in 1..5 : hi - k + 1 = HalfBit(c, h, 0 + k - 1)
        /\ \A k \in 7..17 : hi - (k - 1) + 1 = HalfBit(c, h, 0 + k - 1)
    BY <1>3 DEF HalfBit, Six
  <1> HIDE DEF hi, lo, j
  <1>6. half \in Sample /\ Len(half) = 16 /\ \A k \in 1..16 : half[k] = <<i, hi - k + 1>>
    BY ONLY <1>2, 16 \in Nat, Fields
  <1> HIDE DEF half
  <1>7. /\ s \in Sample /\ Len(s) = 18
        /\ \A k \in 1..5 : s[k] = half[k]
        /\ \A k \in 7..17 : s[k] = half[k - 1]
    BY ONLY <1>6, Widening
  <1> HIDE DEF s
  <1>8. \A k \in 1..5 : s[k] = <<i, HalfBit(c, h, 0 + k - 1)>>
    BY <1>5, <1>6, <1>7
  <1>9. \A k \in 7..17 : s[k] = <<i, HalfBit(c, h, 0 + k - 1)>>
    <2>1. \A k \in 7..17 : k - 1 \in 1..16
      OBVIOUS
    <2> QED BY ONLY <1>5, <1>6, <1>7, <2>1
  <1>10. /\ Len(s) = c.width /\ c.width # 0 /\ 0 + c.width <= PixelBits(c)
         /\ \A k \in 1..c.width : \/ Repeated(c, 0 + k - 1)
                                  \/ s[k] = <<i, HalfBit(c, h, 0 + k - 1)>>
    BY <1>3, <1>7, <1>8, <1>9 DEF Repeated
  <1>11. Good(c, j, s)
    BY <1>2, <1>4, <1>10, HalfWord
  <1> QED BY <1>1, <1>7, <1>11 DEF j

\* The last pixels of one word and the first of the next share a sample.
LEMMA Good_xrgb_16 ==
    ASSUME NEW i \in Nat \ {0}, NEW c \in Configs, c.width = 16, c.format = "XRGB"
    PROVE  /\ smi_unpack_xrgb_16(i) \in Seq(Sample) /\ Len(smi_unpack_xrgb_16(i)) = 3
           /\ \A m \in 1..3 : Good(c, (i - 1) * 3 + m, smi_unpack_xrgb_16(i)[m])
  <1> DEFINE w  == 2 * i - 1
             v  == w + 1
             s1 == FIFO(w, 23, 8)
             s2 == FIFO(w, 7, 0) \o FIFO(v, 23, 16)
             s3 == FIFO(v, 15, 0)
             j(m) == (i - 1) * 3 + m
  <1>1. smi_unpack_xrgb_16(i) = <<s1, s2, s3>>
    BY DEF smi_unpack_xrgb_16
  <1>2. /\ w \in Nat \ {0} /\ v \in Nat \ {0} /\ w \in Int /\ v \in Int
        /\ j(1) \in Nat /\ j(2) \in Nat /\ j(3) \in Nat
    OBVIOUS
  <1>3. PixelBits(c) = 24
    BY DEF PixelBits
  <1>4. /\ Position(c, j(1), 1) = PixelBits(c) * (w - 1) + 0
        /\ Position(c, j(2), 1) = PixelBits(c) * (w - 1) + 16
        /\ Position(c, j(3), 1) = PixelBits(c) * (v - 1) + 8
    BY <1>3 DEF Position
  <1>5. v = w + 1
    OBVIOUS
  <1> HIDE DEF w, v, j
  <1>0. /\ 23 \in Int /\ 16 \in Int /\ 7 \in Int /\ 0 \in Int /\ 8 \in Nat
        /\ 7 - 0 + 1 = 8 /\ 23 - 16 + 1 = 8
    OBVIOUS
  <1>6. /\ s1 \in Sample /\ Len(s1) = 16 /\ \A k \in 1..16 : s1[k] = <<w, 23 - k + 1>>
    <2>1. \A k \in 1..16 : <<w, 23 - k + 1>> \in Bit
      BY <1>2 DEF Bit
    <2>2. s1 = [k \in 1..16 |-> <<w, 23 - k + 1>>]
      BY DEF FIFO
    <2> HIDE DEF s1
    <2>3. s1 \in [1..16 -> Bit]
      BY ONLY <2>1, <2>2
    <2> QED BY ONLY <2>2, <2>3 DEF Sample
  <1>7. Joined(s2, w, 7, 8, v, 23, 8)
    BY ONLY <1>0, <1>2, TwoFields, Zenon
  <1>8. /\ s3 \in Sample /\ Len(s3) = 16 /\ \A k \in 1..16 : s3[k] = <<v, 15 - k + 1>>
    <2>1. \A k \in 1..16 : <<v, 15 - k + 1>> \in Bit
      BY <1>2 DEF Bit
    <2>2. s3 = [k \in 1..16 |-> <<v, 15 - k + 1>>]
      BY DEF FIFO
    <2> HIDE DEF s3
    <2>3. s3 \in [1..16 -> Bit]
      BY ONLY <2>1, <2>2
    <2> QED BY ONLY <2>2, <2>3 DEF Sample
  <1> HIDE DEF s1, s2, s3
  <1>9. Good(c, j(1), s1)
    <2>1. /\ Len(s1) = c.width /\ c.width # 0 /\ 0 + c.width <= PixelBits(c)
          /\ \A k \in 1..c.width : s1[k] = <<w, WholeBit(c, 0 + k - 1)>>
      BY <1>3, <1>6 DEF WholeBit
    <2> QED BY <1>2, <1>4, <2>1, WholeWord
  <1>10. Good(c, j(3), s3)
    <2>1. /\ Len(s3) = c.width /\ c.width # 0 /\ 8 + c.width <= PixelBits(c)
          /\ \A k \in 1..c.width : s3[k] = <<v, WholeBit(c, 8 + k - 1)>>
      BY <1>3, <1>8 DEF WholeBit
    <2> QED BY <1>2, <1>4, <2>1, WholeWord
  <1>11. Good(c, j(2), s2)
    <2>1. \A q \in Nat, r \in 0..23 : Pixel(c, q, r) = <<q + 1, 23 - r>>
      BY <1>3 DEF Pixel
    <2>2. ASSUME NEW k \in 1..16 PROVE InPlace(c, j(2), k, s2[k])
      <3>1. Position(c, j(2), k) = Position(c, j(2), 1) + k - 1
        BY <1>2, Steps
      <3>2. Position(c, j(2), k) = 24 * (w - 1) + 16 + k - 1
        BY <1>2, <1>3, <1>4, <3>1
      <3>3. CASE k <= 8
        <4> DEFINE q == w - 1
                   r == 15 + k
        <4>1. q \in Nat /\ r \in 0..23 /\ q + 1 = w /\ 23 - r = 7 - k + 1
          BY <1>2, <3>3
        <4>2. Position(c, j(2), k) = PixelBits(c) * q + r
          BY <1>2, <1>3, <3>2
        <4>3. s2[k] = <<w, 7 - k + 1>>
          BY <1>7, <3>3 DEF Joined
        <4> HIDE DEF q, r
        <4>4. s2[k] = Pixel(c, q, r)
          BY <2>1, <4>1, <4>3
        <4>5. r \in 0..(PixelBits(c) - 1)
          BY <1>3, <4>1
        <4> QED BY ONLY c \in Configs, <4>1, <4>2, <4>4, <4>5, InPlaceIf
      <3>4. CASE ~(k <= 8)
        <4> DEFINE q == w
                   r == k - 9
        <4>1. q \in Nat /\ r \in 0..23 /\ q + 1 = v /\ 23 - r = 23 - (k - 8) + 1
          BY <1>2, <1>5, <3>4
        <4>2. Position(c, j(2), k) = PixelBits(c) * q + r
          BY <1>2, <1>3, <3>2
        <4>3. s2[k] = <<v, 23 - (k - 8) + 1>>
          BY <1>7, <3>4 DEF Joined
        <4> HIDE DEF q, r
        <4>4. s2[k] = Pixel(c, q, r)
          BY <2>1, <4>1, <4>3
        <4>5. r \in 0..(PixelBits(c) - 1)
          BY <1>3, <4>1
        <4> QED BY ONLY c \in Configs, <4>1, <4>2, <4>4, <4>5, InPlaceIf
      <3> QED BY <3>3, <3>4
    <2>3. Len(s2) = 16
      BY <1>7 DEF Joined
    <2> QED BY <2>2, <2>3 DEF Good
  <1>12. s1 \in Sample /\ s2 \in Sample /\ s3 \in Sample
    BY <1>6, <1>7, <1>8 DEF Joined
  <1>13. \A m \in 1..3 : Good(c, j(m), <<s1, s2, s3>>[m])
    BY <1>9, <1>10, <1>11
  <1> QED BY <1>1, <1>12, <1>13 DEF j

-----------------------------------------------------------------------------
(* A turn of the loop *)

Turned(i, c) ==
    /\ Stored(i, c) \in Seq(Sample) /\ Len(Stored(i, c)) = Group(c)
    /\ Understood(c) => \A m \in 1..Group(c) : Good(c, (i - 1) * Group(c) + m, Stored(i, c)[m])

LEMMA Tuples ==
    ASSUME NEW a \in Sample, NEW b \in Sample, NEW d \in Sample, NEW e \in Sample
    PROVE  /\ <<a>> \in Seq(Sample) /\ Len(<<a>>) = 1
           /\ <<a, b>> \in Seq(Sample) /\ Len(<<a, b>>) = 2
           /\ <<a, b, d>> \in Seq(Sample) /\ Len(<<a, b, d>>) = 3
           /\ <<a, b, d, e>> \in Seq(Sample) /\ Len(<<a, b, d, e>>) = 4
  OBVIOUS

LEMMA Groups ==
    ASSUME NEW c \in Configs
    PROVE  /\ Group(c) \in Nat
           /\ c.width = 0 => Group(c) = 0
           /\ c.width # 0 /\ ~c.pxldata => Group(c) = 1
           /\ c.pxldata /\ c.width = 8  /\ c.format = "RGB565" => Group(c) = 4
           /\ c.pxldata /\ c.width = 8  /\ c.format = "XRGB"   => Group(c) = 3
           /\ c.pxldata /\ c.width = 9  /\ c.format = "RGB565" => Group(c) = 4
           /\ c.pxldata /\ c.width = 9  /\ c.format = "XRGB"   => Group(c) = 2
           /\ c.pxldata /\ c.width = 16 /\ c.format = "RGB565" => Group(c) = 2
           /\ c.pxldata /\ c.width = 16 /\ c.format = "XRGB"   => Group(c) = 3
           /\ c.pxldata /\ c.width = 18 /\ c.format = "RGB565" => Group(c) = 2
           /\ c.pxldata /\ c.width = 18 /\ c.format = "XRGB"   => Group(c) = 1
  BY DEF Configs, Widths, Formats, Group, smi_packed_ratio, Ratio

LEMMA Turned_8 ==
    ASSUME NEW i \in Nat \ {0}, NEW c \in Configs, c.pxldata, c.width = 8
    PROVE  Turned(i, c)
  <1>1. CASE c.format = "RGB565"
    <2> DEFINE s == smi_unpack_rgb565_8(i)
    <2>1. Stored(i, c) = s /\ Group(c) = 4
      BY <1>1, Groups DEF Stored, smi_unpack
    <2>2. \A h, e \in 0..1 : /\ s[2 * h + e + 1] \in Sample
                             /\ Good(c, (i - 1) * 4 + (2 * h + e + 1), s[2 * h + e + 1])
      BY <1>1, Good_rgb565_8
    <2>3. \A m \in 1..4 : \E h, e \in 0..1 : m = 2 * h + e + 1
      OBVIOUS
    <2>4. \A m \in 1..4 : s[m] \in Sample /\ Good(c, (i - 1) * 4 + m, s[m])
      BY ONLY <2>2, <2>3
    <2>5. s = <<s[1], s[2], s[3], s[4]>>
      BY DEF smi_unpack_rgb565_8
    <2> HIDE DEF s
    <2>6. s \in Seq(Sample) /\ Len(s) = 4
      <3>1. s[1] \in Sample /\ s[2] \in Sample /\ s[3] \in Sample /\ s[4] \in Sample
        BY <2>4
      <3>2. <<s[1], s[2], s[3], s[4]>> \in Seq(Sample) /\ Len(<<s[1], s[2], s[3], s[4]>>) = 4
        BY ONLY <3>1, Tuples
      <3> QED BY ONLY <2>5, <3>2, Zenon
    <2> QED BY <2>1, <2>4, <2>6 DEF Turned
  <1>2. CASE c.format = "XRGB"
    <2> DEFINE s == smi_unpack_xrgb_8(i)
    <2>1. Stored(i, c) = s /\ Group(c) = 3
      BY <1>2, Groups DEF Stored, smi_unpack
    <2>2. \A m \in 1..3 : s[m] \in Sample /\ Good(c, (i - 1) * 3 + m, s[m])
      BY <1>2, Good_xrgb_8
    <2>3. s = <<s[1], s[2], s[3]>>
      BY DEF smi_unpack_xrgb_8
    <2> HIDE DEF s
    <2>4. s \in Seq(Sample) /\ Len(s) = 3
      <3>1. s[1] \in Sample /\ s[2] \in Sample /\ s[3] \in Sample
        BY <2>2
      <3>2. <<s[1], s[2], s[3]>> \in Seq(Sample) /\ Len(<<s[1], s[2], s[3]>>) = 3
        BY ONLY <3>1, Tuples
      <3> QED BY ONLY <2>3, <3>2, Zenon
    <2> QED BY <2>1, <2>2, <2>4 DEF Turned
  <1> QED BY <1>1, <1>2 DEF Configs, Formats

\* Where the pieces of a 9-bit group are.
LEMMA Place_9 ==
    ASSUME NEW c \in Configs, c.width = 9, NEW n \in Nat, NEW e \in 0..1
    PROVE  Position(c, 2 * n + (e + 1), 1) = 18 * n + 9 * e
  <1>1. Position(c, 2 * n + (e + 1), 1) = (2 * n + (e + 1) - 1) * 9 + 1 - 1
    BY DEF Position
  <1> QED BY <1>1

LEMMA Turned_9_XRGB ==
    ASSUME NEW i \in Nat \ {0}, NEW c \in Configs, c.pxldata, c.width = 9, c.format = "XRGB"
    PROVE  Turned(i, c)
  <1> DEFINE s == FIFO(i, 23, 18) \o FIFO(i, 15, 13)
             t == FIFO(i, 12, 10) \o FIFO(i, 7, 2)
             first  == (i - 1) * 2 + 1
             second == (i - 1) * 2 + 2
  <1>1. Stored(i, c) = (IF c.swap THEN <<t, s>> ELSE <<s, t>>) /\ Group(c) = 2
    BY Groups DEF Stored, smi_unpack, smi_unpack_xrgb_9, smi_unpack_xrgb_9_swap
  <1>2. first \in Nat /\ second \in Nat /\ i - 1 \in Nat
        /\ first = 2 * (i - 1) + (0 + 1) /\ second = 2 * (i - 1) + (1 + 1)
    OBVIOUS
  <1>3. Position(c, first, 1) = 18 * (i - 1) /\ Position(c, second, 1) = 18 * (i - 1) + 9
    <2>1. \A e \in 0..1 : Position(c, 2 * (i - 1) + (e + 1), 1) = 18 * (i - 1) + 9 * e
      BY <1>2, Place_9
    <2> QED BY <1>2, <2>1
  <1> HIDE DEF first, second
  <1>4. s \in Sample /\ t \in Sample
    BY <1>2, Good_xrgb_9
  <1>5. Good(c, first, s) /\ Good(c, second, t)
    BY <1>2, <1>3, Good_xrgb_9
  <1> HIDE DEF s, t
  <1>6. CASE c.swap
    <2>1. ~Understood(c) /\ Stored(i, c) = <<t, s>>
      BY <1>1, <1>6 DEF Understood
    <2> QED BY <1>1, <1>4, <2>1, Tuples DEF Turned
  <1>7. CASE ~c.swap
    <2>1. Stored(i, c) = <<s, t>>
      BY <1>1, <1>7
    <2>2. \A m \in 1..2 : Good(c, (i - 1) * 2 + m, <<s, t>>[m])
      BY <1>5 DEF first, second
    <2> QED BY <1>1, <1>4, <2>1, <2>2, Tuples DEF Turned
  <1> QED BY <1>6, <1>7

LEMMA Turned_9_RGB565 ==
    ASSUME NEW i \in Nat \ {0}, NEW c \in Configs, c.pxldata, c.width = 9, c.format = "RGB565"
    PROVE  Turned(i, c)
  <1> DEFINE half(h) == smi_unpack_rgb565_9_half(i, 16 * h)
             s1 == half(0)[1]
             s2 == half(0)[2]
             s3 == half(1)[1]
             s4 == half(1)[2]
             j(m) == (i - 1) * 4 + m
  <1>1. smi_unpack_rgb565_9(i) = <<s1, s2, s3, s4>>
    <2>1. half(0) = <<s1, s2>> /\ half(1) = <<s3, s4>>
      BY DEF smi_unpack_rgb565_9_half
    <2>2. half(0) = smi_unpack_rgb565_9_half(i, 0) /\ half(1) = smi_unpack_rgb565_9_half(i, 16)
      OBVIOUS
    <2> HIDE DEF half
    <2>3. smi_unpack_rgb565_9(i) = half(0) \o half(1)
      BY <2>2 DEF smi_unpack_rgb565_9
    <2> HIDE DEF s1, s2, s3, s4
    <2>4. <<s1, s2>> \o <<s3, s4>> = <<s1, s2, s3, s4>>
      <3> DEFINE S == {s1, s2, s3, s4}
                 a == <<s1, s2>>
                 b == <<s3, s4>>
                 t == <<s1, s2, s3, s4>>
      <3>1. a \in Seq(S) /\ b \in Seq(S) /\ Len(a) = 2 /\ Len(b) = 2
            /\ t \in Seq(S) /\ Len(t) = 4
        OBVIOUS
      <3>2. /\ t[1] = a[1] /\ t[2] = a[2] /\ t[3] = b[1] /\ t[4] = b[2]
        OBVIOUS
      <3> HIDE DEF S, a, b, t
      <3>3. /\ a \o b \in Seq(S) /\ Len(a \o b) = Len(a) + Len(b)
            /\ \A k \in 1..(Len(a) + Len(b)) :
                 (a \o b)[k] = IF k <= Len(a) THEN a[k] ELSE b[k - Len(a)]
        BY ONLY <3>1, ConcatProperties
      <3>4. \A k \in 1..4 : (a \o b)[k] = t[k]
        BY ONLY <3>1, <3>2, <3>3
      <3>5. a \o b = t
        BY ONLY <3>1, <3>3, <3>4, SeqEqual
      <3> QED BY ONLY <3>5 DEF a, b, t
    <2> QED BY ONLY <2>1, <2>3, <2>4, Zenon
  <1>2. /\ ~c.swap => Stored(i, c) = <<s1, s2, s3, s4>>
        /\ c.swap  => Stored(i, c) = <<s2, s1, s4, s3>>
        /\ Group(c) = 4
    BY <1>1, Groups DEF Stored, smi_unpack, smi_unpack_rgb565_9_swap
  <1>3. /\ s1 \in Sample /\ s2 \in Sample /\ s3 \in Sample /\ s4 \in Sample
        /\ \A n \in Nat :
             /\ Position(c, n, 1) = 18 * (2 * (i - 1) + 0) + 9 * 0 => Good(c, n, s1)
             /\ Position(c, n, 1) = 18 * (2 * (i - 1) + 0) + 9 * 1 => Good(c, n, s2)
             /\ Position(c, n, 1) = 18 * (2 * (i - 1) + 1) + 9 * 0 => Good(c, n, s3)
             /\ Position(c, n, 1) = 18 * (2 * (i - 1) + 1) + 9 * 1 => Good(c, n, s4)
    <2>1. \A h, e \in 0..1, n \in Nat :
            /\ half(h)[e + 1] \in Sample
            /\ Position(c, n, 1) = 18 * (2 * (i - 1) + h) + 9 * e => Good(c, n, half(h)[e + 1])
      BY Good_rgb565_9
    <2> HIDE DEF half
    <2>2. 0 + 1 = 1 /\ 1 + 1 = 2 /\ 0 \in 0..1 /\ 1 \in 0..1 /\ 0 \in Nat
      OBVIOUS
    <2> QED BY ONLY <2>1, <2>2
  <1>4. \A h, e \in 0..1 :
          /\ 2 * (i - 1) + h \in Nat
          /\ j(2 * h + e + 1) = 2 * (2 * (i - 1) + h) + (e + 1)
          /\ j(2 * h + e + 1) \in Nat
    OBVIOUS
  <1>5. \A h, e \in 0..1 :
          Position(c, j(2 * h + e + 1), 1) = 18 * (2 * (i - 1) + h) + 9 * e
    <2> TAKE h \in 0..1, e \in 0..1
    <2> DEFINE n == 2 * (i - 1) + h
    <2>1. n \in Nat /\ j(2 * h + e + 1) = 2 * n + (e + 1)
      BY <1>4
    <2> HIDE DEF n, j
    <2>2. Position(c, 2 * n + (e + 1), 1) = 18 * n + 9 * e
      BY <2>1, Place_9
    <2> QED BY <2>1, <2>2 DEF n
  <1> HIDE DEF s1, s2, s3, s4
  <1>6. CASE c.swap
    <2>1. ~Understood(c)
      BY <1>6 DEF Understood
    <2>2. <<s2, s1, s4, s3>> \in Seq(Sample) /\ Len(<<s2, s1, s4, s3>>) = 4
      BY <1>3, Tuples
    <2> QED BY <1>2, <1>6, <2>1, <2>2 DEF Turned
  <1>7. CASE ~c.swap
    <2>1. /\ Position(c, j(1), 1) = 18 * (2 * (i - 1) + 0) + 9 * 0
          /\ Position(c, j(2), 1) = 18 * (2 * (i - 1) + 0) + 9 * 1
          /\ Position(c, j(3), 1) = 18 * (2 * (i - 1) + 1) + 9 * 0
          /\ Position(c, j(4), 1) = 18 * (2 * (i - 1) + 1) + 9 * 1
      BY <1>5, <1>7
    <2>2. j(1) \in Nat /\ j(2) \in Nat /\ j(3) \in Nat /\ j(4) \in Nat
      OBVIOUS
    <2> HIDE DEF j
    <2>3. Good(c, j(1), s1) /\ Good(c, j(2), s2) /\ Good(c, j(3), s3) /\ Good(c, j(4), s4)
      BY ONLY <1>3, <2>1, <2>2
    <2>4. \A m \in 1..4 : Good(c, j(m), <<s1, s2, s3, s4>>[m])
      BY <2>3
    <2>5. <<s1, s2, s3, s4>> \in Seq(Sample) /\ Len(<<s1, s2, s3, s4>>) = 4
      BY <1>3, Tuples
    <2> QED BY <1>2, <1>7, <2>4, <2>5 DEF Turned, j
  <1> QED BY <1>6, <1>7

LEMMA Turned_16 ==
    ASSUME NEW i \in Nat \ {0}, NEW c \in Configs, c.pxldata, c.width = 16
    PROVE  Turned(i, c)
  <1>1. CASE c.format = "XRGB"
    <2>1. Stored(i, c) = smi_unpack_xrgb_16(i) /\ Group(c) = 3
      BY <1>1, Groups DEF Stored, smi_unpack
    <2> QED BY <1>1, <2>1, Good_xrgb_16 DEF Turned
  <1>2. CASE c.format = "RGB565"
    <2> DEFINE s == smi_unpack_rgb565_16(i)
    <2>1. Stored(i, c) = s /\ Group(c) = 2
      BY <1>2, Groups DEF Stored, smi_unpack
    <2>2. \A h \in 0..1 : s[h + 1] \in Sample /\ Good(c, (i - 1) * 2 + (h + 1), s[h + 1])
      BY <1>2, Good_rgb565_16
    <2>3. s = <<s[1], s[2]>>
      BY DEF smi_unpack_rgb565_16
    <2> HIDE DEF s
    <2>4. \A m \in 1..2 : \E h \in 0..1 : m = h + 1
      OBVIOUS
    <2>5. \A m \in 1..2 : s[m] \in Sample /\ Good(c, (i - 1) * 2 + m, s[m])
      BY ONLY <2>2, <2>4
    <2>6. s \in Seq(Sample) /\ Len(s) = 2
      <3>1. s[1] \in Sample /\ s[2] \in Sample
        BY <2>5
      <3>2. <<s[1], s[2]>> \in Seq(Sample) /\ Len(<<s[1], s[2]>>) = 2
        BY ONLY <3>1, Tuples
      <3> QED BY ONLY <2>3, <3>2, Zenon
    <2> QED BY <2>1, <2>5, <2>6 DEF Turned
  <1> QED BY <1>1, <1>2 DEF Configs, Formats

LEMMA Turned_18 ==
    ASSUME NEW i \in Nat \ {0}, NEW c \in Configs, c.pxldata, c.width = 18
    PROVE  Turned(i, c)
  <1>1. CASE c.format = "XRGB"
    <2> DEFINE s == smi_unpack_xrgb_18(i)
    <2>1. Stored(i, c) = s /\ Group(c) = 1
      BY <1>1, Groups DEF Stored, smi_unpack
    <2>2. s[1] \in Sample /\ Good(c, (i - 1) * 1 + 1, s[1])
      BY <1>1, Good_xrgb_18
    <2>3. s = <<s[1]>>
      BY DEF smi_unpack_xrgb_18
    <2> HIDE DEF s
    <2>4. <<s[1]>> \in Seq(Sample) /\ Len(<<s[1]>>) = 1
      BY ONLY <2>2, Tuples
    <2>5. s \in Seq(Sample) /\ Len(s) = 1
      BY ONLY <2>3, <2>4, Zenon
    <2>6. \A m \in 1..1 : Good(c, (i - 1) * 1 + m, s[m])
      BY <2>2
    <2> QED BY <2>1, <2>5, <2>6 DEF Turned
  <1>2. CASE c.format = "RGB565" /\ ~c.swap
    <2> DEFINE s == smi_unpack_rgb565_18(i)
    <2>1. Stored(i, c) = s /\ Group(c) = 2
      BY <1>2, Groups DEF Stored, smi_unpack
    <2>2. \A h \in 0..1 : s[h + 1] \in Sample /\ Good(c, (i - 1) * 2 + (h + 1), s[h + 1])
      BY <1>2, Good_rgb565_18
    <2>3. s = <<s[1], s[2]>>
      BY DEF smi_unpack_rgb565_18
    <2> HIDE DEF s
    <2>4. \A m \in 1..2 : \E h \in 0..1 : m = h + 1
      OBVIOUS
    <2>5. \A m \in 1..2 : s[m] \in Sample /\ Good(c, (i - 1) * 2 + m, s[m])
      BY ONLY <2>2, <2>4
    <2>6. s \in Seq(Sample) /\ Len(s) = 2
      <3>1. s[1] \in Sample /\ s[2] \in Sample
        BY <2>5
      <3>2. <<s[1], s[2]>> \in Seq(Sample) /\ Len(<<s[1], s[2]>>) = 2
        BY ONLY <3>1, Tuples
      <3> QED BY ONLY <2>3, <3>2, Zenon
    <2> QED BY <2>1, <2>5, <2>6 DEF Turned
  <1>3. CASE c.format = "RGB565" /\ c.swap
    <2>1. ~Understood(c) /\ Group(c) = 2
      BY <1>3, Groups DEF Understood
    <2>2. Stored(i, c) = <<Widened(reverse18(i, 0)), Widened(reverse18(i, 16))>>
      BY <1>3 DEF Stored, smi_unpack, smi_unpack_rgb565_18_swap
    <2>3. ASSUME NEW b \in {0, 16} PROVE Widened(reverse18(i, b)) \in Sample
      <3>1. \A k \in 1..16 : (IF k <= 14 THEN <<i, b + k - 1>> ELSE <<0, 0>>) \in Bit
        BY DEF Bit
      <3>2. reverse18(i, b) \in [1..16 -> Bit]
        BY <3>1 DEF reverse18
      <3>3. reverse18(i, b) \in Sample /\ Len(reverse18(i, b)) = 16
        BY <3>2, 16 \in Nat, BitString
      <3> QED BY <3>3, Widening
    <2>4. Stored(i, c) \in Seq(Sample) /\ Len(Stored(i, c)) = 2
      BY <2>2, <2>3, Tuples
    <2> QED BY <2>1, <2>4 DEF Turned
  <1> QED BY <1>1, <1>2, <1>3 DEF Configs, Formats

\* A device that is not in pixel mode keeps the low bits of the word.
LEMMA Truncated ==
    ASSUME NEW i \in Nat \ {0}, NEW c \in Configs, ~c.pxldata \/ c.width = 0
    PROVE  Turned(i, c)
  <1>1. ~Understood(c)
    BY DEF Understood
  <1>2. CASE c.width = 0
    <2>1. Stored(i, c) = <<>> /\ Group(c) = 0
      BY <1>2, Groups DEF Stored, smi_unpack, smi_truncate
    <2>2. <<>> \in Seq(Sample) /\ Len(<<>>) = 0
      OBVIOUS
    <2> QED BY <1>1, <2>1, <2>2 DEF Turned
  <1>3. CASE c.width # 0
    <2> DEFINE hi == c.width - 1
               lo == 0
               s  == FIFO(i, hi, lo)
    <2>1. c.width \in {8, 9, 16, 18} /\ ~c.pxldata
      BY <1>3 DEF Configs, Widths
    <2>2. Stored(i, c) = <<s>> /\ Group(c) = 1
      BY <1>3, <2>1, Groups DEF Stored, smi_truncate
    <2>3. hi \in Int /\ lo \in Int /\ hi - lo + 1 \in Nat /\ i \in Int
      BY <2>1
    <2> HIDE DEF hi, lo
    <2>4. s \in Sample
      BY ONLY <2>3, Field
    <2> QED BY <1>1, <2>2, <2>4, Tuples DEF Turned
  <1> QED BY <1>2, <1>3

LEMMA EveryTurn ==
    ASSUME NEW i \in Nat \ {0}, NEW c \in Configs
    PROVE  Turned(i, c)
  <1>1. c.width \in {0, 8, 9, 16, 18} /\ c.format \in {"RGB565", "XRGB"}
    BY DEF Configs, Widths, Formats
  <1> QED BY <1>1, Turned_8, Turned_9_XRGB, Turned_9_RGB565, Turned_16, Turned_18, Truncated

-----------------------------------------------------------------------------
(* A read *)

InOrder == Understood(cfg) => \A j \in 1..Len(out) : Good(cfg, j, out[j])

\* The inductive invariant: every turn so far stored a whole group of samples, and a
\* call that has returned has made all its turns.
PInv ==
    /\ cfg \in Configs /\ len \in Nat /\ pc \in {"idle", "store"}
    /\ words = word_reads(len, cfg) /\ words \in Nat
    /\ turn \in 0..Turns(cfg, words) /\ (pc = "idle" => turn = Turns(cfg, words))
    /\ out \in Seq(Sample) /\ Len(out) = turn * Group(cfg)
    /\ InOrder

\* The words asked for hold what was asked for, and less than a word or a pair beyond it.
LEMMA Words ==
    ASSUME NEW n \in Nat, NEW c \in Configs
    PROVE  /\ word_reads(n, c) \in Nat /\ Turns(c, word_reads(n, c)) \in Nat
           /\ n = 0 => Turns(c, word_reads(n, c)) = 0
           /\ c.width # 0 =>
                LET got == Turns(c, word_reads(n, c)) * Group(c)
                IN  IF Pairs(c) /\ word_reads(n, c) % 2 = 1
                      THEN got = n - 1
                      ELSE n <= got /\ got <= n + smi_packed_ratio(c).out_pixels - 1
  <1> DEFINE p == smi_packed_ratio(c).out_pixels
             w == word_reads(n, c)
  <1>1. CASE Pairs(c)
    <2>1. c.pxldata /\ c.width = 16 /\ c.format = "XRGB"
      BY <1>1 DEF Pairs
    <2>2. w = (n * 2 + 3 - 1) \div 3 /\ p = 3 /\ Group(c) = 3 /\ Turns(c, w) = w \div 2
      BY <1>1, <2>1, Groups DEF word_reads, smi_packed_ratio, Ratio, Turns
    <2> HIDE DEF w, p
    <2>3. w \in Nat /\ 3 * w <= 2 * n + 2 /\ 2 * n <= 3 * w /\ w \div 2 \in Nat
      BY ONLY <2>2, n \in Nat
    <2>4. n = 0 => w \div 2 = 0
      BY ONLY <2>3, n \in Nat
    <2>5. ~(w % 2 = 1) => n <= (w \div 2) * 3 /\ (w \div 2) * 3 <= n + 3 - 1
      BY ONLY <2>3, n \in Nat
    <2>6. w % 2 = 1 => (w \div 2) * 3 = n - 1
      <3>1. w % 2 = 1 => w = 2 * (w \div 2) + 1
        BY ONLY <2>3
      <3> DEFINE k == w \div 2
      <3> HIDE DEF k
      <3>2. k \in Nat
        BY <2>3 DEF k
      <3>3. ASSUME w = 2 * k + 1 PROVE k * 3 = n - 1
        BY ONLY <2>3, <3>2, <3>3, n \in Nat
      <3> QED BY <3>1, <3>3 DEF k
    <2> QED BY <1>1, <2>2, <2>3, <2>4, <2>5, <2>6 DEF w, p
  <1>2. CASE ~Pairs(c)
    <2>1. p \in {1, 2, 3, 4} /\ w = (n * 1 + p - 1) \div p
      BY <1>2 DEF word_reads, smi_packed_ratio, Ratio, Pairs, Configs, Widths, Formats
    <2>2. Turns(c, w) = w /\ (c.width # 0 => Group(c) = p)
      BY <1>2 DEF Turns, Group
    <2> HIDE DEF w, p
    <2>3. /\ w \in Nat /\ (n = 0 => w = 0)
          /\ n <= w * p /\ w * p <= n + p - 1
      <3>1. CASE p = 1
        BY ONLY <2>1, <3>1, n \in Nat
      <3>2. CASE p = 2
        BY ONLY <2>1, <3>2, n \in Nat
      <3>3. CASE p = 3
        BY ONLY <2>1, <3>3, n \in Nat
      <3>4. CASE p = 4
        BY ONLY <2>1, <3>4, n \in Nat
      <3> QED BY <2>1, <3>1, <3>2, <3>3, <3>4
    <2> QED BY <1>2, <2>2, <2>3 DEF w, p
  <1> QED BY <1>1, <1>2

LEMMA PInvInit == Init => PInv
  <1> SUFFICES ASSUME Init PROVE PInv
    OBVIOUS
  <1>1. /\ cfg \in Configs /\ len = 0 /\ words = 0 /\ turn = 0 /\ out = <<>> /\ pc = "idle"
    BY DEF Init
  <1>2. word_reads(0, cfg) = 0 /\ Turns(cfg, 0) = 0
    <2>1. CASE Pairs(cfg)
      BY <1>1, <2>1 DEF word_reads, smi_packed_ratio, Ratio, Turns, Pairs
    <2>2. CASE ~Pairs(cfg)
      BY <1>1, <2>2 DEF word_reads, smi_packed_ratio, Ratio, Turns, Pairs, Configs, Widths, Formats
    <2> QED BY <2>1, <2>2
  <1>3. Group(cfg) \in Nat
    BY <1>1, Groups
  <1>4. out \in Seq(Sample) /\ Len(out) = turn * Group(cfg) /\ InOrder
    BY <1>1, <1>3 DEF InOrder
  <1> QED BY <1>1, <1>2, <1>4 DEF PInv

LEMMA PInvTurn == PInv /\ Turn => PInv'
  <1> SUFFICES ASSUME PInv, Turn PROVE PInv'
    OBVIOUS
  <1> DEFINE g == Group(cfg)
             s == Stored(turn + 1, cfg)
  <1>1. /\ cfg' = cfg /\ len' = len /\ words' = words /\ pc' = "store" /\ turn' = turn + 1
        /\ turn < Turns(cfg, words) /\ out' = out \o s
    BY DEF Turn, Stored
  <1>2. /\ cfg \in Configs /\ len \in Nat /\ words = word_reads(len, cfg) /\ words \in Nat
        /\ turn \in 0..Turns(cfg, words) /\ out \in Seq(Sample) /\ Len(out) = turn * g
        /\ InOrder
    BY DEF PInv
  <1>3. Turns(cfg, words) \in Nat
    BY <1>2, Words
  <1>4. turn + 1 \in Nat \ {0} /\ turn \in Nat /\ turn + 1 \in 0..Turns(cfg, words)
        /\ (turn + 1) - 1 = turn
    BY ONLY <1>1, <1>2, <1>3
  <1>5. g \in Nat
    BY <1>2, Groups
  <1>6. /\ s \in Seq(Sample) /\ Len(s) = g
        /\ Understood(cfg) => \A m \in 1..g : Good(cfg, turn * g + m, s[m])
    BY <1>2, <1>4, EveryTurn DEF Turned
  <1> DEFINE n == turn * g
  <1> HIDE DEF g, s
  <1>7. n \in Nat /\ (turn + 1) * g = n + g
    BY ONLY <1>4, <1>5
  <1>8. Len(out) = n
    BY <1>2
  <1> HIDE DEF n
  <1>9. /\ out' \in Seq(Sample) /\ Len(out') = Len(out) + Len(s)
        /\ \A k \in 1..(Len(out) + Len(s)) :
             (out')[k] = IF k <= Len(out) THEN out[k] ELSE s[k - Len(out)]
    BY <1>1, <1>2, <1>6, ConcatProperties
  <1>10. Len(out') = turn' * Group(cfg')
    BY <1>1, <1>6, <1>7, <1>8, <1>9 DEF g
  <1>11. InOrder'
    <2> SUFFICES ASSUME Understood(cfg), NEW k \in 1..Len(out')
                 PROVE  Good(cfg, k, (out')[k])
      BY <1>1 DEF InOrder
    <2>1. k \in 1..(n + g) /\ Len(out) = n /\ Len(s) = g
      BY <1>6, <1>8, <1>9
    <2>2. CASE k <= n
      <3>1. k \in 1..Len(out) /\ (out')[k] = out[k]
        BY <1>7, <1>5, <1>9, <2>1, <2>2
      <3> QED BY <1>2, <3>1 DEF InOrder
    <2>3. CASE ~(k <= n)
      <3>1. k - n \in 1..g /\ n + (k - n) = k
        BY ONLY <1>5, <1>7, <2>1, <2>3
      <3>2. (out')[k] = s[k - n]
        BY ONLY <1>9, <2>1, <2>3
      <3>3. Good(cfg, n + (k - n), s[k - n])
        BY <1>6, <3>1 DEF n
      <3> QED BY <3>1, <3>2, <3>3
    <2> QED BY <2>2, <2>3
  <1> QED BY <1>1, <1>2, <1>4, <1>9, <1>10, <1>11 DEF PInv

LEMMA PInvNext == PInv /\ [Next]_vars => PInv'
  <1> SUFFICES ASSUME PInv, [Next]_vars PROVE PInv'
    OBVIOUS
  <1>1. ASSUME NEW n \in Lens, NEW c \in Configs, smi_programmed_read_arr(n, c)
        PROVE  PInv'
    <2>1. /\ cfg' = c /\ len' = n /\ words' = word_reads(n, c) /\ turn' = 0 /\ out' = <<>>
          /\ pc' = "store" /\ n \in Nat
      BY <1>1, PackingConstants DEF smi_programmed_read_arr
    <2>2. word_reads(n, c) \in Nat /\ Turns(c, word_reads(n, c)) \in Nat /\ Group(c) \in Nat
      BY <2>1, Words, Groups
    <2>3. (out' \in Seq(Sample)) /\ Len(out') = turn' * Group(cfg')
      BY <2>1, <2>2
    <2>4. InOrder'
      BY <2>1 DEF InOrder
    <2>5. turn' \in 0..Turns(cfg', words')
      BY <2>1, <2>2
    <2> QED BY <2>1, <2>2, <2>3, <2>4, <2>5 DEF PInv
  <1>2. CASE Turn
    BY <1>2, PInvTurn
  <1>3. CASE Return
    BY <1>3 DEF Return, PInv, InOrder
  <1>4. CASE UNCHANGED vars
    BY <1>4 DEF vars, PInv, InOrder
  <1> QED BY <1>1, <1>2, <1>3, <1>4 DEF Next

LEMMA PInvAlways == Spec => []PInv
  BY PInvInit, PInvNext, PTL DEF Spec

-----------------------------------------------------------------------------
(* The theorems *)

\* smi_unpack: however many words a read takes, with WSWAP clear what it stores are the
\* samples the words were packed from, in bus order.
THEOREM BusOrder == Spec => []SamplesInBusOrder
  <1>1. PInv => SamplesInBusOrder
    BY DEF PInv, InOrder, SamplesInBusOrder, Good, InPlace
  <1> QED BY <1>1, PInvAlways, PTL

\* smi_packed_ratio and smi_unpack: for every length and every known width, a call that
\* returns has stored what it was asked for, and less than a group beyond it; or, in
\* 16-bit XRGB with an odd number of words, exactly one sample less.
THEOREM Covered == Spec => []RequestCovered
  <1>1. ASSUME PInv PROVE RequestCovered
    <2> SUFFICES ASSUME pc = "idle", cfg.width # 0
                 PROVE  IF Pairs(cfg) /\ words % 2 = 1
                          THEN Len(out) = len - 1
                          ELSE /\ len <= Len(out)
                               /\ Len(out) <= len + smi_packed_ratio(cfg).out_pixels - 1
      BY DEF RequestCovered
    <2>1. /\ cfg \in Configs /\ len \in Nat /\ words = word_reads(len, cfg)
          /\ Len(out) = Turns(cfg, words) * Group(cfg)
      BY <1>1 DEF PInv
    <2> QED BY <2>1, Words
  <1> QED BY <1>1, PInvAlways, PTL
=============================================================================
