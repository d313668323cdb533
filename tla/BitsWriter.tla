------------------------------ MODULE BitsWriter ------------------------------
(***************************************************************************)
(* The bitswriter_t of mudec.c and the headers written with it: the USEQ   *)
(* header in front of a stream and the UPES header in front of a frame.    *)
(* write_bits ORs the low `bits' bits of a 32-bit value into a byte        *)
(* buffer, one byte a turn of its loop.                                    *)
(*                                                                         *)
(* A bit is 0 or names where it comes from: <<number, place>>, place 0     *)
(* being the lowest bit of that number.                                    *)
(***************************************************************************)
EXTENDS Integers, Sequences

VARIABLES
  fields,       \* the write_bits calls still to make
  value, bits,  \* of the call being made; bits = 0 between two calls
  buffer,       \* the bits from p_start on; Slack more than the header has
  left_bits, left_bytes, full,
  header,       \* which header is written, "off" for none
  asked         \* history: the bits passed to write_bits so far

writerVars == <<fields, value, bits, buffer, left_bits, left_bytes, full, header, asked>>

Slack == 8
Zero == <<"zero", 0>>

\* A call write_bits((number & mask) >> lo, n) with mask the bits hi .. lo.
Field(number, hi, lo, n) == [of |-> number, hi |-> hi, lo |-> lo, bits |-> n]
Mark(n) == Field("mark", n - 1, 0, n)

\* The 16 low bits of a number of 32, then a mark, then the high ones.
Halves(number) ==
  <<Field(number, 15, 8, 8), Field(number, 7, 0, 8), Mark(1),
    Field(number, 31, 24, 8), Field(number, 23, 16, 8)>>

\* fill_useq_header
Useq(is_mp4s_flag) ==
  <<Field("prefix", 23, 8, 16), Field("prefix", 7, 0, 8), Field("startcode", 7, 0, 8),
    Field("signature", 31, 0, 32), Field("v_format", 7, 0, 8)>>
  \o Halves("time_scale") \o <<Mark(1)>> \o Halves("frame_tick") \o <<Mark(1)>>
  \o (IF is_mp4s_flag
        THEN <<Field("width", 14, 8, 7), Field("width", 7, 0, 8), Mark(2),
               Field("height", 14, 8, 7), Field("height", 7, 0, 8)>>
        ELSE <<>>)
  \o <<Field("padding", 31, 0, 20)>>

\* fill_upes_header, behind the 8 bytes that init_upes_header sets
Upes(has_pts) ==
  <<Mark(1)>>
  \o (IF has_pts
        THEN Halves("pts_low") \o <<Mark(1)>> \o Halves("pts_high")
             \o <<Mark(1), Mark(1), Field("padding", 31, 0, 27)>>
        ELSE <<>>)
  \o <<Field("au_datalen", 15, 8, 8), Field("au_datalen", 7, 0, 8), Mark(1),
       Field("au_datalen", 26, 24, 3), Field("au_datalen", 23, 16, 8), Mark(3)>>

Layouts == [useq |-> Useq(FALSE), useq_ex |-> Useq(TRUE),
            upes |-> Upes(TRUE), upes_nopts |-> Upes(FALSE)]
\* UDEC_SEQ_HEADER_LENGTH, UDEC_SEQ_HEADER_EX_LENGTH, UDEC_PES_HEADER_LENGTH - 8
Sizes == [useq |-> 20, useq_ex |-> 24, upes |-> 16, upes_nopts |-> 16]

\* 32-bit words, the highest bit first
Word(f) ==
  [i \in 1 .. 32 |-> IF 32 - i <= f.hi - f.lo THEN <<f.of, f.lo + 32 - i>> ELSE Zero]
ShiftLeft(w, n) == [i \in 1 .. 32 |-> IF i + n <= 32 THEN w[i + n] ELSE Zero]
ShiftRight(w, n) == [i \in 1 .. 32 |-> IF i > n THEN w[i - n] ELSE Zero]

\* create_bitswriter and memset
WriterOff ==
  /\ header = "off"
  /\ fields = <<>> /\ value = <<>> /\ bits = 0 /\ buffer = <<>>
  /\ left_bits = 8 /\ left_bytes = 0 /\ full = FALSE /\ asked = <<>>
WriterInit ==
  /\ header \in DOMAIN Layouts
  /\ fields = Layouts[header]
  /\ value = <<>> /\ bits = 0 /\ asked = <<>>
  /\ buffer = [i \in 1 .. 8 * Sizes[header] + Slack |-> Zero]
  /\ left_bits = 8 /\ left_bytes = Sizes[header] /\ full = FALSE

p_cur_bit == 8 * (Sizes[header] - left_bytes)   \* 8 * (p_cur - p_start)

WriteBits ==
  /\ header # "off" /\ bits = 0 /\ fields # <<>> /\ ~ full
  /\ value' = Word(Head(fields)) /\ bits' = Head(fields).bits
  /\ asked' = asked \o SubSeq(value', 33 - bits', 32)
  /\ fields' = Tail(fields)
  /\ UNCHANGED <<buffer, left_bits, left_bytes, full, header>>

\* *p_cur |= (value << (32 - bits)) >> (32 - left_bits)
AlignedToByte(w) == ShiftRight(ShiftLeft(w, 32 - bits), 24)              \* mutant
Aligned(w) == ShiftRight(ShiftLeft(w, 32 - bits), 32 - left_bits)
Ored(old, new) == IF old = Zero THEN new ELSE IF new = Zero THEN old ELSE <<"clash", 0>>

\* What is left of value when its first left_bits bits are out.
Rest(w) ==
  ShiftRight(ShiftLeft(w, 32 - bits + left_bits), 32 - bits + left_bits)

\* One turn of the loop of write_bits.
WriteByte ==
  /\ bits > 0 /\ ~ full
  /\ LET byte == Aligned(value)
         byteDone == bits >= left_bits
     IN  /\ buffer' = [i \in DOMAIN buffer |->
                         IF i - p_cur_bit \in 1 .. 8
                           THEN Ored(buffer[i], byte[24 + i - p_cur_bit]) ELSE buffer[i]]
         /\ full' = (byteDone /\ left_bytes = 0)
         /\ left_bytes' = IF byteDone /\ left_bytes > 0 THEN left_bytes - 1 ELSE left_bytes
         /\ left_bits' = IF ~ byteDone THEN left_bits - bits
                         ELSE IF left_bytes > 0 THEN 8
                         ELSE IF bits = left_bits THEN 0 ELSE left_bits
  /\ value' = Rest(value)
  /\ bits' = IF bits > left_bits THEN bits - left_bits ELSE 0
  /\ UNCHANGED <<fields, header, asked>>

WriterNext == WriteBits \/ WriteByte

-----------------------------------------------------------------------------

\* Every variable has its type.
WriterTypeOK ==
  /\ bits \in 0 .. 32 /\ left_bits \in 0 .. 8 /\ left_bytes \in 0 .. 24
  /\ full \in BOOLEAN

\* Between two calls the buffer holds the bits that were asked for, one behind the
\* other across every byte and nothing else: no bit of a value above the `bits' asked
\* for, none of the earlier ones overwritten.
BitsInPlace ==
  bits = 0 => \A i \in DOMAIN buffer :
                buffer[i] = IF i <= Len(asked) THEN asked[i] ELSE Zero

\* The fields fill their header to its last byte and never run over it; without a
\* pts the UPES header is the twelve bytes that its length says.
HeaderFilled ==
  /\ ~ full
  /\ header # "off" /\ fields = <<>> /\ bits = 0 =>
       /\ left_bits = 8
       /\ left_bytes = IF header = "upes_nopts" THEN 12 ELSE 0

\* Every bit of a number that a decoder puts together from the header is there, once.
NumbersWhole ==
  header # "off" /\ fields = <<>> /\ bits = 0 =>
    \A number \in {buffer[i][1] : i \in DOMAIN buffer} \cap
                  {"time_scale", "frame_tick", "pts_low", "pts_high"} :
      \A place \in 0 .. 31 :
        \E i \in DOMAIN buffer : /\ buffer[i] = <<number, place>>
                                 /\ \A j \in DOMAIN buffer : buffer[j] = buffer[i] => j = i

\* The headers come out of the writer as their layouts say, whichever fields cross a
\* byte or are split in two.
HeadersWritten == BitsInPlace /\ HeaderFilled /\ NumbersWhole
=============================================================================
