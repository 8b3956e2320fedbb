------------------------------- MODULE Packing -------------------------------
(***************************************************************************)
(* What a completed read does with the words it took from the RX FIFO:     *)
(* smi_packed_ratio, the dispatch of smi_unpack and smi_truncate, and the  *)
(* unpackers, each with its loop over the words.                           *)
(*                                                                         *)
(* The data is symbolic: bit b of raw[w - 1] is <<w, b>>, a stored sample  *)
(* the sequence of its bits, most significant first.  The reference is the *)
(* stream of pixels the FIFO words hold, cut into bus samples.             *)
(***************************************************************************)
EXTENDS Integers, Sequences

CONSTANTS Lens   \* numbers of bus transfers a client asks for
ASSUME PackingConstants == Lens \subseteq Nat \ {0}

Widths  == {8, 9, 16, 18}
Formats == {"RGB565", "XRGB"}
\* rw_config and pxldata.  Width 0 stands for an rwidth that is none of the four.
Configs == [width : Widths \cup {0}, format : Formats, swap : BOOLEAN, pxldata : BOOLEAN]

VARIABLES pc, cfg, len,
          words,  \* word_reads, all of them received
          turn,   \* turns of the unpacker's loop so far
          out     \* the samples stored in ret_data
vars == <<pc, cfg, len, words, turn, out>>

-----------------------------------------------------------------------------
(* smi_packed_ratio *)

Ratio(r, p) == [read |-> r, out_pixels |-> p]

\* Seeded bug: one word to two samples in 9-bit RGB565.
smi_packed_ratio_Nine(c) ==
    CASE ~c.pxldata \/ c.width = 0 -> Ratio(1, 1)
      [] c.pxldata /\ c.format = "RGB565" /\ c.width # 0 ->
           Ratio(1, IF c.width = 8 THEN 4 ELSE 2)
      [] c.pxldata /\ c.format = "XRGB" /\ c.width # 0 ->
           CASE c.width = 8 -> Ratio(1, 3) [] c.width = 9  -> Ratio(1, 2)
             [] c.width = 16 -> Ratio(2, 3) [] c.width = 18 -> Ratio(1, 1)

\* Words to samples; 1 to 1 when nothing is packed, or with an unknown width.
smi_packed_ratio(c) ==
    CASE ~c.pxldata \/ c.width = 0 -> Ratio(1, 1)
      [] c.pxldata /\ c.format = "RGB565" /\ c.width # 0 ->
           Ratio(1, IF c.width \in {8, 9} THEN 4 ELSE 2)
      [] c.pxldata /\ c.format = "XRGB" /\ c.width # 0 ->
           CASE c.width = 8 -> Ratio(1, 3) [] c.width = 9  -> Ratio(1, 2)
             [] c.width = 16 -> Ratio(2, 3) [] c.width = 18 -> Ratio(1, 1)

word_reads(n, c) ==
    LET ratio == smi_packed_ratio(c)
    IN  (n * ratio.read + ratio.out_pixels - 1) \div ratio.out_pixels

-----------------------------------------------------------------------------
(* The unpackers: the samples one turn of each loop stores *)

\* FIFO[hi:lo] of word w.
FIFO(w, hi, lo) == [k \in 1..(hi - lo + 1) |-> <<w, hi - k + 1>>]
Zero(n) == [k \in 1..n |-> <<0, 0>>]

\* Seeded bug: the bytes of a half word in memory order.
smi_unpack_rgb565_8_Memory(w) ==
    <<FIFO(w, 7, 0), FIFO(w, 15, 8), FIFO(w, 23, 16), FIFO(w, 31, 24)>>

smi_unpack_rgb565_8(w) ==
    <<FIFO(w, 15, 8), FIFO(w, 7, 0), FIFO(w, 31, 24), FIFO(w, 23, 16)>>

smi_unpack_xrgb_8(w) == <<FIFO(w, 23, 16), FIFO(w, 15, 8), FIFO(w, 7, 0)>>

smi_unpack_xrgb_9(w) ==
    <<FIFO(w, 23, 18) \o FIFO(w, 15, 13), FIFO(w, 12, 10) \o FIFO(w, 7, 2)>>

smi_unpack_xrgb_9_swap(w) ==
    <<FIFO(w, 12, 10) \o FIFO(w, 7, 2), FIFO(w, 23, 18) \o FIFO(w, 15, 13)>>

\* b is 0 or 16; the repeated bits are bits 5 and 7 of the two bytes.
smi_unpack_rgb565_9_half(w, b) ==
    <<FIFO(w, b + 15, b + 11) \o FIFO(w, b + 13, b + 13) \o FIFO(w, b + 10, b + 8),
      FIFO(w, b + 7, b) \o FIFO(w, b + 7, b + 7)>>

smi_unpack_rgb565_9(w) ==
    smi_unpack_rgb565_9_half(w, 0) \o smi_unpack_rgb565_9_half(w, 16)

smi_unpack_rgb565_9_swap(w) ==
    LET s == smi_unpack_rgb565_9(w) IN <<s[2], s[1], s[4], s[3]>>

\* Two words to a turn.
smi_unpack_xrgb_16(i) ==
    LET w == 2 * i - 1
    IN  <<FIFO(w, 23, 8), FIFO(w, 7, 0) \o FIFO(w + 1, 23, 16), FIFO(w + 1, 15, 0)>>

smi_unpack_rgb565_16(w) == <<FIFO(w, 15, 0), FIFO(w, 31, 16)>>

smi_unpack_xrgb_18(w) == <<FIFO(w, 23, 18) \o FIFO(w, 15, 10) \o FIFO(w, 7, 2)>>

\* d0 or d1 from the 16 bits of w0 or w1, most significant first.
Widened(half) == SubSeq(half, 1, 5) \o SubSeq(half, 1, 1) \o SubSeq(half, 6, 16) \o Zero(1)

smi_unpack_rgb565_18(w) == <<Widened(FIFO(w, 15, 0)), Widened(FIFO(w, 31, 16))>>

\* Of the 16 bits from bit b on: the masks of the last step of the reversal let
\* two bits fall out.
reverse18(w, b) == [k \in 1..16 |-> IF k <= 14 THEN <<w, b + k - 1>> ELSE <<0, 0>>]

smi_unpack_rgb565_18_swap(w) == <<Widened(reverse18(w, 0)), Widened(reverse18(w, 16))>>

\* The width lowest bits of the word.
smi_truncate(w, c) == IF c.width = 0 THEN <<>> ELSE <<FIFO(w, c.width - 1, 0)>>

\* What turn i of the loop chosen for c stores; nothing for an unknown width.
smi_unpack(i, c) ==
    CASE c.width = 0 -> <<>>
      [] c.width = 8 ->
           IF c.format = "RGB565" THEN smi_unpack_rgb565_8(i) ELSE smi_unpack_xrgb_8(i)
      [] c.width = 9 ->
           IF c.format = "RGB565"
             THEN IF c.swap THEN smi_unpack_rgb565_9_swap(i) ELSE smi_unpack_rgb565_9(i)
             ELSE IF c.swap THEN smi_unpack_xrgb_9_swap(i) ELSE smi_unpack_xrgb_9(i)
      [] c.width = 16 ->
           IF c.format = "RGB565" THEN smi_unpack_rgb565_16(i) ELSE smi_unpack_xrgb_16(i)
      [] c.width = 18 ->
           IF c.format = "RGB565"
             THEN IF c.swap THEN smi_unpack_rgb565_18_swap(i) ELSE smi_unpack_rgb565_18(i)
             ELSE smi_unpack_xrgb_18(i)

Pairs(c) == c.pxldata /\ c.width = 16 /\ c.format = "XRGB"

\* Turns the loop makes for w words: one a word, or one a pair of words.
Turns(c, w) == IF Pairs(c) THEN w \div 2 ELSE w

-----------------------------------------------------------------------------
(* A read, as far as its samples are concerned *)

Init == /\ pc = "idle" /\ cfg \in Configs /\ len = 0 /\ words = 0
        /\ turn = 0 /\ out = <<>>

smi_programmed_read_arr(n, c) ==
    /\ pc = "idle" /\ pc' = "store" /\ cfg' = c /\ len' = n
    /\ words' = word_reads(n, c) /\ turn' = 0 /\ out' = <<>>

Turn ==
    /\ pc = "store" /\ turn < Turns(cfg, words) /\ turn' = turn + 1
    /\ out' = out \o (IF cfg.pxldata THEN smi_unpack(turn', cfg)
                                     ELSE smi_truncate(turn', cfg))
    /\ UNCHANGED <<pc, cfg, len, words>>

Return ==
    /\ pc = "store" /\ turn = Turns(cfg, words) /\ pc' = "idle"
    /\ UNCHANGED <<cfg, len, words, turn, out>>

Next == (\E n \in Lens, c \in Configs : smi_programmed_read_arr(n, c)) \/ Turn \/ Return
Spec == Init /\ [][Next]_vars

-----------------------------------------------------------------------------
(* The pixel stream *)

PixelBits(c) == IF c.width \in {9, 18} THEN 18 ELSE IF c.format = "XRGB" THEN 24 ELSE 16

\* Which bit of its word is the r-th bit of an 18-bit pixel, most significant first;
\* the sixth bits of a five-bit red and blue repeat another one.
Six(format, r) ==
    IF format = "XRGB"
      THEN 23 - r - (IF r < 6 THEN 0 ELSE IF r < 12 THEN 2 ELSE 4)
      ELSE IF r = 5 THEN 15 ELSE IF r = 17 THEN 4 ELSE IF r < 5 THEN 15 - r ELSE 16 - r

Repeated(c, r) == c.format = "RGB565" /\ c.width \in {9, 18} /\ r \in {5, 17}

\* Bit p of the stream.
Stream(c, p) ==
    LET q   == p \div PixelBits(c)
        r   == p % PixelBits(c)
        bit == IF PixelBits(c) = 18 THEN Six(c.format, r) ELSE PixelBits(c) - 1 - r
    IN  IF c.format = "XRGB" THEN <<q + 1, bit>> ELSE <<1 + q \div 2, 16 * (q % 2) + bit>>

\* Where bit k of sample j is in the stream.
Position(c, j, k) == (j - 1) * c.width + k - 1

\* Pixel mode with WSWAP clear.  What WSWAP does to a word the documentation does not
\* say bit by bit (the "pixel data bits" are swapped), so there is no reference for it.
Understood(c) == c.pxldata /\ c.width # 0 /\ ~c.swap

-----------------------------------------------------------------------------
(* Properties *)

\* smi_unpack, WSWAP clear: the samples stored are the bus samples the words were
\* packed from, in bus order and none of their bits elsewhere, for every width and
\* format and across word boundaries.
SamplesInBusOrder ==
    Understood(cfg) =>
        \A j \in 1..Len(out) :
          /\ Len(out[j]) = cfg.width
          /\ \A k \in 1..cfg.width :
               LET p == Position(cfg, j, k)
               IN  Repeated(cfg, p % PixelBits(cfg)) \/ out[j][k] = Stream(cfg, p)

\* smi_packed_ratio against the loop of the unpacker: a call stores what was asked for,
\* and less than a group beyond it, whatever the configuration, with one exception.
\* In 16-bit XRGB an odd number of words loses its last (smi.c:914), which costs
\* the caller exactly one sample.
RequestCovered ==
    pc = "idle" /\ cfg.width # 0 =>
        IF Pairs(cfg) /\ words % 2 = 1
          THEN Len(out) = len - 1
          ELSE len <= Len(out) /\ Len(out) <= len + smi_packed_ratio(cfg).out_pixels - 1
=============================================================================
