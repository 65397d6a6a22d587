---------------------------- MODULE CodecProofs ----------------------------
(***************************************************************************)
(* What the codecs compute: a frame of any identifier comes back from      *)
(* every format with what the format has room for, and the bit timings of  *)
(* the known cards are exact.                                              *)
(*                                                                         *)
(* A frame is handled as the list of its fields, and a step of a codec as  *)
(* the change of one field: Puts and Gets say what such changes do.  Each  *)
(* format then has a lemma of its own that reads what it writes, and       *)
(* ReadIsKept puts them together.                                          *)
(***************************************************************************)
EXTENDS FrameFormats, BitTiming, WellFoundedInduction, NaturalsInduction, TLAPS
-----------------------------------------------------------------------------
(* The fields of a frame.                                                   *)

\* What a frame's fields can be.
Row == {f \in [id : Nat, ext : BOOLEAN, rtr : BOOLEAN, error : BOOLEAN, fd : BOOLEAN,
               brs : BOOLEAN, dlc : 0..15, bytes : 0..64, src : {0, 1, 255}, tx : BOOLEAN] :
          ~f.error}

\* FALSE, under a name.
Off == FALSE

\* A frame from its fields; none here is an error frame.
R(id, ext, rtr, fd, brs, dlc, bytes, src, tx) ==
  [id |-> id, ext |-> ext, rtr |-> rtr, error |-> Off, fd |-> fd, brs |-> brs, dlc |-> dlc,
   bytes |-> bytes, src |-> src, tx |-> tx]

\* One field changed.
Id(r, x) == [r EXCEPT !.id = x]
Ext(r, x) == [r EXCEPT !.ext = x]
Rtr(r, x) == [r EXCEPT !.rtr = x]
Fd(r, x) == [r EXCEPT !.fd = x]
Brs(r, x) == [r EXCEPT !.brs = x]
Dlc(r, x) == [r EXCEPT !.dlc = x]
Bytes(r, x) == [r EXCEPT !.bytes = x]
Src(r, x) == [r EXCEPT !.src = x]
Tx(r, x) == [r EXCEPT !.tx = x]
Err(r, x) == [r EXCEPT !.error = x]

\* Changing one field of a frame built from its fields.
LEMMA Puts ==
  \A a, b, c, d, e, f, g, h, i, x :
    /\ Id(R(a, b, c, d, e, f, g, h, i), x) = R(x, b, c, d, e, f, g, h, i)
    /\ Ext(R(a, b, c, d, e, f, g, h, i), x) = R(a, x, c, d, e, f, g, h, i)
    /\ Rtr(R(a, b, c, d, e, f, g, h, i), x) = R(a, b, x, d, e, f, g, h, i)
    /\ Fd(R(a, b, c, d, e, f, g, h, i), x) = R(a, b, c, x, e, f, g, h, i)
    /\ Brs(R(a, b, c, d, e, f, g, h, i), x) = R(a, b, c, d, x, f, g, h, i)
    /\ Dlc(R(a, b, c, d, e, f, g, h, i), x) = R(a, b, c, d, e, x, g, h, i)
    /\ Bytes(R(a, b, c, d, e, f, g, h, i), x) = R(a, b, c, d, e, f, x, h, i)
    /\ Src(R(a, b, c, d, e, f, g, h, i), x) = R(a, b, c, d, e, f, g, x, i)
    /\ Tx(R(a, b, c, d, e, f, g, h, i), x) = R(a, b, c, d, e, f, g, h, x)
    /\ Err(R(a, b, c, d, e, f, g, h, i), Off) = R(a, b, c, d, e, f, g, h, i)
  <1> TAKE a, b, c, d, e, f, g, h, i, x
  <1>1. Id(R(a, b, c, d, e, f, g, h, i), x) = R(x, b, c, d, e, f, g, h, i)
    BY DEF R, Id
  <1>2. Ext(R(a, b, c, d, e, f, g, h, i), x) = R(a, x, c, d, e, f, g, h, i)
    BY DEF R, Ext
  <1>3. Rtr(R(a, b, c, d, e, f, g, h, i), x) = R(a, b, x, d, e, f, g, h, i)
    BY DEF R, Rtr
  <1>4. Fd(R(a, b, c, d, e, f, g, h, i), x) = R(a, b, c, x, e, f, g, h, i)
    BY DEF R, Fd
  <1>5. Brs(R(a, b, c, d, e, f, g, h, i), x) = R(a, b, c, d, x, f, g, h, i)
    BY DEF R, Brs
  <1>6. Dlc(R(a, b, c, d, e, f, g, h, i), x) = R(a, b, c, d, e, x, g, h, i)
    BY DEF R, Dlc
  <1>7. Bytes(R(a, b, c, d, e, f, g, h, i), x) = R(a, b, c, d, e, f, x, h, i)
    BY DEF R, Bytes
  <1>8. Src(R(a, b, c, d, e, f, g, h, i), x) = R(a, b, c, d, e, f, g, x, i)
    BY DEF R, Src
  <1>9. Tx(R(a, b, c, d, e, f, g, h, i), x) = R(a, b, c, d, e, f, g, h, x)
    BY DEF R, Tx
  <1>10. Err(R(a, b, c, d, e, f, g, h, i), Off) = R(a, b, c, d, e, f, g, h, i)
    BY DEF R, Err
  <1>11. QED
    BY <1>1, <1>2, <1>3, <1>4, <1>5, <1>6, <1>7, <1>8, <1>9, <1>10

\* Reading one.
LEMMA Gets ==
  \A a, b, c, d, e, f, g, h, i :
    LET r == R(a, b, c, d, e, f, g, h, i) IN
    /\ r.id = a /\ r.ext = b /\ r.rtr = c /\ r.fd = d /\ r.brs = e /\ r.dlc = f
    /\ r.bytes = g /\ r.src = h /\ r.tx = i /\ r.error = Off
  BY DEF R

\* can_frame{}, from its fields.
LEMMA BlankIs == Blank = R(0, Off, Off, Off, Off, 0, 0, 255, Off)
  BY DEF R, Blank, Off

\* A frame is made of its fields.
LEMMA Fields ==
  ASSUME NEW f \in Row
  PROVE  /\ f = R(f.id, f.ext, f.rtr, f.fd, f.brs, f.dlc, f.bytes, f.src, f.tx)
         /\ f.id \in Nat /\ f.ext \in BOOLEAN /\ f.rtr \in BOOLEAN /\ f.fd \in BOOLEAN
         /\ f.brs \in BOOLEAN /\ f.dlc \in 0..15 /\ f.bytes \in 0..64
         /\ f.src \in {0, 1, 255} /\ f.tx \in BOOLEAN
  <1>1. f \in [id : Nat, ext : BOOLEAN, rtr : BOOLEAN, error : BOOLEAN, fd : BOOLEAN,
               brs : BOOLEAN, dlc : 0..15, bytes : 0..64, src : {0, 1, 255}, tx : BOOLEAN]
    BY DEF Row
  <1>2. f.error = Off
    <2>1. ~f.error /\ f.error \in BOOLEAN
      BY <1>1 DEF Row
    <2>2. QED
      BY <2>1 DEF Off
  <1>3. f = [id |-> f.id, ext |-> f.ext, rtr |-> f.rtr, error |-> f.error, fd |-> f.fd,
             brs |-> f.brs, dlc |-> f.dlc, bytes |-> f.bytes, src |-> f.src, tx |-> f.tx]
    BY <1>1
  <1>4. f = R(f.id, f.ext, f.rtr, f.fd, f.brs, f.dlc, f.bytes, f.src, f.tx)
    BY <1>2, <1>3 DEF R
  <1>5. QED
    BY <1>1, <1>4

\* The frames of the transmitter panel: what they have in common.
LEMMA FrameFacts ==
  ASSUME NEW f \in Frames
  PROVE  /\ f \in Row /\ f.bytes <= PayloadLen(f)
         /\ (f.rtr => f.bytes = 0) /\ (f.rtr => f.fd = Off) /\ (~f.fd => f.brs = Off)
  <1> DEFINE T == [id : Ids, ext : BOOLEAN, rtr : BOOLEAN, error : BOOLEAN, fd : BOOLEAN, brs : BOOLEAN,
                   dlc : 0..15, bytes : {0, 1, 8, 12, 64}, src : {0, 1, 255}, tx : BOOLEAN]
  <1>1. f \in T
    BY DEF Frames
  <1>2. /\ f = R(f.id, f.ext, f.rtr, f.fd, f.brs, f.dlc, f.bytes, f.src, f.tx)
        /\ f.id \in Ids /\ f.ext \in BOOLEAN /\ f.rtr \in BOOLEAN /\ f.fd \in BOOLEAN
        /\ f.brs \in BOOLEAN /\ f.dlc \in 0..15 /\ f.bytes \in {0, 1, 8, 12, 64}
        /\ f.src \in {0, 1, 255} /\ f.tx \in BOOLEAN
    <2>1. f.error = Off
      <3>1. ~f.error /\ f.error \in BOOLEAN
        BY <1>1 DEF Frames
      <3>2. QED
        BY <3>1 DEF Off
    <2>2. f = [id |-> f.id, ext |-> f.ext, rtr |-> f.rtr, error |-> f.error, fd |-> f.fd,
               brs |-> f.brs, dlc |-> f.dlc, bytes |-> f.bytes, src |-> f.src, tx |-> f.tx]
      BY <1>1
    <2>3. f = R(f.id, f.ext, f.rtr, f.fd, f.brs, f.dlc, f.bytes, f.src, f.tx)
      BY <2>1, <2>2 DEF R
    <2>4. QED
      BY <1>1, <2>3
  <1>3. f.id \in Nat /\ f.bytes \in 0..64
    <2>1. f.id \in Nat
      BY <1>2, FormatConstants, Zenon
    <2>2. f.bytes \in 0..64
      BY <1>2
    <2>3. QED
      BY <2>1, <2>2
  <1>4. f \in Row
    <2>1. ~f.error /\ f.error \in BOOLEAN
      BY <1>1 DEF Frames
    <2>2. f \in [id : Nat, ext : BOOLEAN, rtr : BOOLEAN, error : BOOLEAN, fd : BOOLEAN,
                 brs : BOOLEAN, dlc : 0..15, bytes : 0..64, src : {0, 1, 255}, tx : BOOLEAN]
      BY <1>1, <1>3
    <2>3. QED
      BY <2>1, <2>2 DEF Row
  <1>5. f.bytes <= PayloadLen(f)
    BY DEF Frames
  <1>6. f.rtr => f.bytes = 0
    BY DEF Frames
  <1>7. f.rtr => ~f.fd
    BY DEF Frames
  <1>8. f.brs => f.fd
    BY DEF Frames
  <1>9. (f.rtr => f.fd = Off) /\ (~f.fd => f.brs = Off)
    BY <1>2, <1>7, <1>8 DEF Off
  <1>10. f \in Row
    BY <1>2, <1>4, Zenon
  <1>11. QED
    BY <1>5, <1>6, <1>9, <1>10

\* A flag can be read back, and sets no other bit.
LEMMA FlagIn == ASSUME NEW b \in BOOLEAN, NEW n PROVE (n \in Flag(b, n)) = b
  BY DEF Flag

LEMMA FlagOut == ASSUME NEW b, NEW n, NEW m, m # n PROVE m \notin Flag(b, n)
  BY DEF Flag

\* The lengths grow with the dlc, so that len_to_dlc() undoes dlc_to_len().
LEMMA LengthFacts ==
  ASSUME NEW d \in 0..15
  PROVE  /\ DlcToLen(d) \in 0..64 /\ (d <= 8 => DlcToLen(d) = d) /\ (d > 8 => DlcToLen(d) >= 12)
         /\ LenToDlc(DlcToLen(d)) = d
  <1>1. /\ Lengths[1] = 0 /\ Lengths[2] = 1 /\ Lengths[3] = 2 /\ Lengths[4] = 3 /\ Lengths[5] = 4
        /\ Lengths[6] = 5 /\ Lengths[7] = 6 /\ Lengths[8] = 7 /\ Lengths[9] = 8 /\ Lengths[10] = 12
        /\ Lengths[11] = 16 /\ Lengths[12] = 20 /\ Lengths[13] = 24 /\ Lengths[14] = 32
        /\ Lengths[15] = 48 /\ Lengths[16] = 64
    BY DEF Lengths
  <1>2. DlcToLen(d) = Lengths[d + 1]
    BY DEF DlcToLen
  <1>3. /\ Lengths[d + 1] \in 0..64 /\ (d <= 8 => Lengths[d + 1] = d)
        /\ (d > 8 => Lengths[d + 1] >= 12)
    BY <1>1
  <1>4. \A i, j \in 0..15 : i < j => Lengths[i + 1] < Lengths[j + 1]
    <2>1. \A i \in 0..14 : Lengths[i + 1] < Lengths[i + 2]
      BY <1>1
    <2>2. QED
      BY <1>1
  <1>5. LenToDlc(Lengths[d + 1]) = d
    <2>1. \A e \in 0..15 : (/\ Lengths[d + 1] <= Lengths[e + 1]
                            /\ \A i \in 0..(e - 1) : Lengths[d + 1] > Lengths[i + 1])
                           <=> e = d
      BY <1>1, <1>4
    <2>2. QED
      BY <2>1 DEF LenToDlc
  <1>6. QED
    BY <1>2, <1>3, <1>5

\* How many bytes a frame carries; up to eight they are what the dlc says.
LEMMA PayloadFacts ==
  ASSUME NEW f \in Row
  PROVE  /\ PayloadLen(f) = IF f.fd THEN DlcToLen(f.dlc) ELSE AtMost(f.dlc, 8)
         /\ PayloadLen(f) \in 0..64 /\ (~f.fd => PayloadLen(f) <= 8)
         /\ AtMost(PayloadLen(f), 8) = AtMost(f.dlc, 8)
         /\ f.dlc % 16 = f.dlc /\ AtMost(f.dlc, 8) \in 0..8
         /\ (PayloadLen(f) <= 8 => PayloadLen(f) = AtMost(f.dlc, 8))
  <1>1. f.dlc \in 0..15 /\ f.fd \in BOOLEAN
    BY Fields
  <1>2. /\ DlcToLen(f.dlc) \in 0..64 /\ (f.dlc <= 8 => DlcToLen(f.dlc) = f.dlc)
        /\ (f.dlc > 8 => DlcToLen(f.dlc) >= 12)
    BY <1>1, LengthFacts
  <1>3. f.dlc % 16 = f.dlc /\ AtMost(f.dlc, 8) \in 0..8
    BY <1>1 DEF AtMost
  <1>4. PayloadLen(f) = IF f.fd THEN DlcToLen(f.dlc) ELSE AtMost(f.dlc, 8)
    BY DEF PayloadLen
  <1>5. QED
    BY <1>1, <1>2, <1>3, <1>4 DEF AtMost
-----------------------------------------------------------------------------
(* What the formats keep.                                                   *)

\* What is left of a frame on a classic bus, field by field.
LEMMA ClassicIs ==
  ASSUME NEW f \in Row, NEW n
  PROVE  Classic(f, n) = R(f.id, f.ext, f.rtr, Off, Off, f.dlc, AtMost(f.bytes, n), f.src, f.tx)
  <1>1. Classic(f, n) = Bytes(Brs(Fd(f, Off), Off), AtMost(f.bytes, n))
    BY DEF Classic, Off, Bytes, Fd, Brs
  <1>2. PICK g : g = f /\ g = R(f.id, f.ext, f.rtr, f.fd, f.brs, f.dlc, f.bytes, f.src, f.tx)
    BY Fields
  <1>3. Bytes(Brs(Fd(g, Off), Off), AtMost(f.bytes, n))
          = R(f.id, f.ext, f.rtr, Off, Off, f.dlc, AtMost(f.bytes, n), f.src, f.tx)
    BY <1>2, Puts
  <1>4. QED
    BY <1>1, <1>2, <1>3

\* The eleven bits of a standard frame, and the 29 of an extended one.
Short(f) == f.id % 2^(IF f.ext THEN 29 ELSE 11)

\* ShortId changes the identifier only.
LEMMA ShortIs ==
  ASSUME NEW a, NEW b, NEW c, NEW d, NEW e, NEW f, NEW g, NEW h, NEW i
  PROVE  ShortId(R(a, b, c, d, e, f, g, h, i))
           = R(a % 2^(IF b THEN 29 ELSE 11), b, c, d, e, f, g, h, i)
  <1> DEFINE r == R(a, b, c, d, e, f, g, h, i)
  <1>1. ShortId(r) = Id(r, r.id % 2^(IF r.ext THEN 29 ELSE 11))
    BY DEF ShortId, Id
  <1>2. r.ext = b /\ r.id = a
    BY Gets
  <1>3. QED
    BY <1>1, <1>2, Puts

\* A received frame from its fields.
LEMMA ReceivedIs ==
  \A x, y, z, u, v : Received(x, y, z, u, v) = R(x, y, u, Off, Off, z, v, 255, Off)
  <1> TAKE x, y, z, u, v
  <1>1. Received(x, y, z, u, v) = Bytes(Rtr(Dlc(Ext(Id(Blank, x), y), z), u), v)
    BY DEF Received, Id, Ext, Dlc, Rtr, Bytes
  <1>2. Bytes(Rtr(Dlc(Ext(Id(R(0, Off, Off, Off, Off, 0, 0, 255, Off), x), y), z), u), v)
          = R(x, y, u, Off, Off, z, v, 255, Off)
    BY Puts
  <1>3. QED
    BY <1>1, <1>2, BlankIs

\* What a classic frame keeps, of one that was received and written by nobody.
LEMMA ClassicReceived ==
  ASSUME NEW f \in Row, f.src = 255, f.tx = Off, NEW n
  PROVE  /\ Received(Short(f), f.ext, f.dlc, f.rtr, AtMost(f.bytes, n)) = ShortId(Classic(f, n))
         /\ Received(f.id, f.ext, f.dlc, f.rtr, AtMost(f.bytes, n)) = Classic(f, n)
  <1>1. Classic(f, n) = R(f.id, f.ext, f.rtr, Off, Off, f.dlc, AtMost(f.bytes, n), 255, Off)
    BY ClassicIs
  <1>2. ShortId(Classic(f, n))
          = R(Short(f), f.ext, f.rtr, Off, Off, f.dlc, AtMost(f.bytes, n), 255, Off)
    BY <1>1, ShortIs DEF Short
  <1>3. QED
    BY <1>1, <1>2, ReceivedIs
-----------------------------------------------------------------------------
(* The XL library.                                                          *)

\* vector_xlapi_adapter reads what it sent, as a classic frame.
LEMMA XlKeeps ==
  ASSUME NEW f \in Frames, f.src = 255, f.tx = Off
  PROVE  RecvXl(SendXl(f)) = <<ShortId(Classic(f, AtMost(f.dlc, 8)))>>
  <1> DEFINE w == SendXl(f)
             n == AtMost(f.dlc, 8)
  <1>1. f \in Row
    BY FrameFacts
  <1>2. /\ f.dlc % 16 = f.dlc /\ n \in 0..8 /\ f.bytes \in 0..64
        /\ f.ext \in BOOLEAN /\ f.rtr \in BOOLEAN
    BY <1>1, Fields, PayloadFacts
  <1>3. /\ w.id = f.id /\ w.top = Flag(f.ext, 31) /\ w.dlc = f.dlc /\ w.flags = Flag(f.rtr, 4)
        /\ w.bytes = AtMost(f.bytes, n)
    BY DEF SendXl
  <1>4. (31 \in w.top) = f.ext /\ (4 \in w.flags) = f.rtr /\ {0, 6} \cap w.flags = {}
    <2>1. (31 \in w.top) = f.ext /\ (4 \in w.flags) = f.rtr
      BY <1>2, <1>3, FlagIn
    <2>2. 0 \notin w.flags /\ 6 \notin w.flags
      BY <1>3, FlagOut
    <2>3. QED
      BY <2>1, <2>2
  <1>5. AtMost(w.bytes, AtMost(w.dlc % 16, 8)) = AtMost(f.bytes, n)
    BY <1>2, <1>3 DEF AtMost
  <1> HIDE DEF w, n
  <1>6. RecvXl(w) = <<Received(Short(f), f.ext, f.dlc, f.rtr, AtMost(f.bytes, n))>>
    BY <1>2, <1>3, <1>4, <1>5 DEF RecvXl, Short
  <1>7. QED
    BY <1>1, <1>6, ClassicReceived DEF w, n
-----------------------------------------------------------------------------
(* The leaf protocol.                                                       *)

\* The identifier comes together again from the fields leaf_parse_rx_frame() reads.
LEMMA LeafIds ==
  ASSUME NEW f \in Row
  PROVE  LeafId(SendLeaf(f)) = Short(f)
  <1> DEFINE w == SendLeaf(f)
             id == f.id
             r == w.raw
  <1>1. id \in Nat /\ f.ext \in BOOLEAN
    BY Fields
  <1>2. w.cmd = (IF f.ext THEN "ext" ELSE "std")
    BY DEF SendLeaf
  <1>p. /\ 2^0 = 1 /\ 2^4 = 16 /\ 2^5 = 32 /\ 2^6 = 64 /\ 2^8 = 256 /\ 2^11 = 2048 /\ 2^14 = 16384
        /\ 2^18 = 262144 /\ 2^24 = 16777216 /\ 2^29 = 536870912
    BY SMT
  <1>w. /\ Widths[1] = 5 /\ Widths[2] = 6 /\ Widths[3] = 4 /\ Widths[4] = 8 /\ Widths[5] = 6
        /\ Shifts[1] = 24 /\ Shifts[2] = 18 /\ Shifts[3] = 14 /\ Shifts[4] = 6 /\ Shifts[5] = 0
    BY DEF Widths, Shifts
  <1>3. CASE f.ext
    <2>1. r = [i \in 1..5 |-> Bits(id, Shifts[i], Widths[i])]
      BY <1>3 DEF SendLeaf
    <2>2. /\ r[1] = (id \div 2^24) % 2^5 /\ r[2] = (id \div 2^18) % 2^6
          /\ r[3] = (id \div 2^14) % 2^4 /\ r[4] = (id \div 2^6) % 2^8 /\ r[5] = (id \div 2^0) % 2^6
      <3>1. \A i \in 1..5 : r[i] = Bits(id, Shifts[i], Widths[i])
        BY <2>1
      <3>2. /\ r[1] = Bits(id, 24, 5) /\ r[2] = Bits(id, 18, 6) /\ r[3] = Bits(id, 14, 4)
            /\ r[4] = Bits(id, 6, 8) /\ r[5] = Bits(id, 0, 6)
        BY <1>w, <3>1
      <3>3. QED
        BY <3>2 DEF Bits
    <2> HIDE DEF w, r, id
    <2>3. PICK j \in Nat : j = id % 2^29 /\ j < 2^29
      <3>1. id % 2^29 \in Nat /\ id % 2^29 < 2^29
        BY <1>1, <1>p, SMT
      <3>2. QED
        BY <3>1
    <2>4. /\ (id \div 2^24) % 2^5 = j \div 2^24 /\ (id \div 2^18) % 2^6 = (j \div 2^18) % 2^6
          /\ (id \div 2^14) % 2^4 = (j \div 2^14) % 2^4 /\ (id \div 2^6) % 2^8 = (j \div 2^6) % 2^8
          /\ (id \div 2^0) % 2^6 = (j \div 2^0) % 2^6
      <3>1. PICK q \in Nat : id = q * 536870912 + j
        <4>1. id \div 536870912 \in Nat /\ id = (id \div 536870912) * 536870912 + j
          BY <1>1, <1>p, <2>3, SMT
        <4>2. QED
          BY <4>1, SMT
      <3>2. /\ id \div 2^24 = q * 32 + j \div 2^24 /\ id \div 2^18 = q * 2048 + j \div 2^18
            /\ id \div 2^14 = q * 32768 + j \div 2^14
            /\ id \div 2^6 = q * 8388608 + j \div 2^6 /\ id \div 2^0 = q * 536870912 + j \div 2^0
        BY <1>p, <2>3, <3>1, SMT
      <3>3. j \div 2^24 \in 0..31
        BY <1>p, <2>3, SMT
      <3>4. (id \div 2^24) % 2^5 = j \div 2^24
        BY <1>p, <3>1, <3>2, <3>3, SMT
      <3>5. (id \div 2^18) % 2^6 = (j \div 2^18) % 2^6
        BY <1>p, <2>3, <3>1, <3>2, SMT
      <3>6. (id \div 2^14) % 2^4 = (j \div 2^14) % 2^4
        BY <1>p, <2>3, <3>1, <3>2, SMT
      <3>7. (id \div 2^6) % 2^8 = (j \div 2^6) % 2^8
        BY <1>p, <2>3, <3>1, <3>2, SMT
      <3>8. (id \div 2^0) % 2^6 = (j \div 2^0) % 2^6
        BY <1>p, <2>3, <3>1, <3>2, SMT
      <3>9. QED
        BY <3>4, <3>5, <3>6, <3>7, <3>8
    <2>5. Field(0, r, 1) = j \div 2^24
      <3>1. r[1] = j \div 2^24
        BY <2>2, <2>4
      <3>2. Field(0, r, 1) = (0 * 2^5) + ((j \div 2^24) % 2^5)
        BY <1>w, <3>1 DEF Field
      <3>3. QED
        BY <1>p, <2>3, <3>2, SMT
    <2>6. Field(j \div 2^24, r, 2) = j \div 2^18
      <3>1. r[2] = (j \div 2^18) % 2^6
        BY <2>2, <2>4
      <3>2. Field(j \div 2^24, r, 2) = ((j \div 2^24) * 2^6) + (((j \div 2^18) % 2^6) % 2^6)
        BY <1>w, <3>1 DEF Field
      <3>3. PICK m \in Nat : m = j \div 2^18
        BY <1>p, <2>3, SMT
      <3>4. j \div 2^24 = m \div 64
        BY <1>p, <2>3, <3>3, SMT
      <3>5. ((m \div 64) * 64) + ((m % 64) % 64) = m
        BY <3>3, SMT
      <3>6. QED
        BY <1>p, <2>3, <3>2, <3>3, <3>4, <3>5, SMT
    <2>7. Field(j \div 2^18, r, 3) = j \div 2^14
      <3>1. r[3] = (j \div 2^14) % 2^4
        BY <2>2, <2>4
      <3>2. Field(j \div 2^18, r, 3) = ((j \div 2^18) * 2^4) + (((j \div 2^14) % 2^4) % 2^4)
        BY <1>w, <3>1 DEF Field
      <3>3. PICK m \in Nat : m = j \div 2^14
        BY <1>p, <2>3, SMT
      <3>4. j \div 2^18 = m \div 16
        BY <1>p, <2>3, <3>3, SMT
      <3>5. ((m \div 16) * 16) + ((m % 16) % 16) = m
        BY <3>3, SMT
      <3>6. QED
        BY <1>p, <2>3, <3>2, <3>3, <3>4, <3>5, SMT
    <2>8. Field(j \div 2^14, r, 4) = j \div 2^6
      <3>1. r[4] = (j \div 2^6) % 2^8
        BY <2>2, <2>4
      <3>2. Field(j \div 2^14, r, 4) = ((j \div 2^14) * 2^8) + (((j \div 2^6) % 2^8) % 2^8)
        BY <1>w, <3>1 DEF Field
      <3>3. PICK m \in Nat : m = j \div 2^6
        BY <1>p, <2>3, SMT
      <3>4. j \div 2^14 = m \div 256
        BY <1>p, <2>3, <3>3, SMT
      <3>5. ((m \div 256) * 256) + ((m % 256) % 256) = m
        BY <3>3, SMT
      <3>6. QED
        BY <1>p, <2>3, <3>2, <3>3, <3>4, <3>5, SMT
    <2>9. Field(j \div 2^6, r, 5) = j
      <3>1. r[5] = (j \div 2^0) % 2^6
        BY <2>2, <2>4
      <3>2. Field(j \div 2^6, r, 5) = ((j \div 2^6) * 2^6) + (((j \div 2^0) % 2^6) % 2^6)
        BY <1>w, <3>1 DEF Field
      <3>3. PICK m \in Nat : m = j \div 2^0
        BY <1>p, <2>3, SMT
      <3>4. j \div 2^6 = m \div 64
        BY <1>p, <2>3, <3>3, SMT
      <3>5. ((m \div 64) * 64) + ((m % 64) % 64) = m
        BY <3>3, SMT
      <3>6. QED
        BY <1>p, <2>3, <3>2, <3>3, <3>4, <3>5, SMT
    <2>10. LeafId(w) = j
      BY <1>2, <1>3, <2>5, <2>6, <2>7, <2>8, <2>9 DEF LeafId, r
    <2>11. QED
      BY <1>3, <2>3, <2>10 DEF Short, w, id
  <1>4. CASE ~f.ext
    <2>1. r = <<Bits(id, 6, 5), Bits(id, 0, 6)>>
      BY <1>4 DEF SendLeaf
    <2>2. r[1] = (id \div 2^6) % 2^5 /\ r[2] = (id \div 2^0) % 2^6
      BY <2>1 DEF Bits
    <2> HIDE DEF w, r, id
    <2>3. Field(0, r, 1) = (id \div 2^6) % 2^5
      BY <1>1, <1>w, <2>2, SMT DEF Field
    <2>4. Field((id \div 2^6) % 2^5, r, 2) = id % 2^11
      BY <1>1, <1>w, <2>2, SMT DEF Field
    <2>5. LeafId(w) = id % 2^11
      BY <1>2, <1>4, <2>3, <2>4 DEF LeafId, r
    <2>6. QED
      BY <1>4, <2>5 DEF Short, w, id
  <1>5. QED
    BY <1>1, <1>3, <1>4

\* The leaf protocol keeps a classic frame.
LEMMA LeafKeeps ==
  ASSUME NEW f \in Frames, f.src = 255, f.tx = Off
  PROVE  ParseLeaf(SendLeaf(f)) = <<ShortId(Classic(f, AtMost(f.dlc, 8)))>>
  <1> DEFINE w == SendLeaf(f)
             n == AtMost(f.dlc, 8)
  <1>1. f \in Row
    BY FrameFacts
  <1>2. /\ f.dlc % 16 = f.dlc /\ n \in 0..8 /\ f.bytes \in 0..64
        /\ f.ext \in BOOLEAN /\ f.rtr \in BOOLEAN
    BY <1>1, Fields, PayloadFacts
  <1>3. /\ w.cmd = (IF f.ext THEN "ext" ELSE "std") /\ w.dlc = f.dlc
        /\ w.flags = Flag(f.rtr, 4) /\ w.bytes = AtMost(f.bytes, n)
    BY <1>2 DEF SendLeaf
  <1>4. (w.cmd = "ext") = f.ext /\ (4 \in w.flags) = f.rtr /\ 0 \notin w.flags
    <2>1. (w.cmd = "ext") = f.ext
      BY <1>2, <1>3
    <2>2. (4 \in w.flags) = f.rtr /\ 0 \notin w.flags
      BY <1>2, <1>3, FlagIn, FlagOut
    <2>3. QED
      BY <2>1, <2>2
  <1>5. AtMost(w.bytes, AtMost(w.dlc % 16, 8)) = AtMost(f.bytes, n) /\ w.dlc % 16 = f.dlc
    BY <1>2, <1>3 DEF AtMost
  <1>6. LeafId(w) = Short(f)
    BY <1>1, LeafIds
  <1> HIDE DEF w, n
  <1>7. ParseLeaf(w) = <<Received(Short(f), f.ext, f.dlc, f.rtr, AtMost(f.bytes, n))>>
    BY <1>4, <1>5, <1>6 DEF ParseLeaf
  <1>8. QED
    BY <1>1, <1>7, ClassicReceived DEF w, n
-----------------------------------------------------------------------------
(* The mhydra protocol.                                                     *)

\* The two places of an address, and what is put there.
Places(addr, tid) == [addr |-> addr, tid |-> tid]
PutAddr(h, x) == [h EXCEPT !.addr = x]
PutTid(h, x) == [h EXCEPT !.tid = x]

\* Writing one of the places leaves the other alone.
LEMMA PlaceFacts ==
  \A a, t, x : /\ PutAddr(Places(a, t), x) = Places(x, t) /\ PutTid(Places(a, t), x) = Places(a, x)
               /\ Places(a, t).addr = a /\ Places(a, t).tid = t
  BY DEF Places, PutAddr, PutTid

\* What set_dst(), set_src() and set_seq() put where.
LEMMA HeadSteps ==
  ASSUME NEW a, NEW t, NEW x
  PROVE  /\ SetDst(Places(a, t), x) = Places((a \div 64) * 64 + (x % 64), t)
         /\ SetSeq(Places(a, t), x) = Places(a, t - (t % 4096) + (x % 4096))
         /\ SetSrc(Places(a, t), x)
              = Places((a % 64) + Bits(x, 4, 2) * 64, (t % 4096) + Bits(x, 0, 4) * 4096)
  <1> DEFINE h == Places(a, t)
  <1>1. /\ SetDst(h, x) = PutAddr(h, (h.addr \div 64) * 64 + (x % 64))
        /\ SetSeq(h, x) = PutTid(h, h.tid - (h.tid % 4096) + (x % 4096))
        /\ SetSrc(h, x) = PutTid(PutAddr(h, (h.addr % 64) + Bits(x, 4, 2) * 64),
                                 (h.tid % 4096) + Bits(x, 0, 4) * 4096)
    BY DEF SetDst, SetSeq, SetSrc, PutAddr, PutTid
  <1>2. h.addr = a /\ h.tid = t
    BY PlaceFacts
  <1>3. QED
    BY <1>1, <1>2, PlaceFacts

\* A command carries an address of six bits and a sequence number of twelve.
Addresses == 0..63
Tids == 0..4095

\* The card answers to the address in a command (hardware_kvaser.hpp:182-219).
LEMMA HeadComesBack ==
  ASSUME NEW he \in Addresses, NEW tid \in Tids
  PROVE  GetSrc(FromCard(SetSeq(SetDst(Head0, he), tid))) = he
  <1>t. he \in 0..63 /\ tid \in 0..4095
    BY DEF Addresses, Tids
  <1>1. Head0 = Places(0, 0)
    BY DEF Head0, Places
  <1>2. SetDst(Head0, he) = Places(he, 0)
    <2>1. SetDst(Head0, he) = Places((0 \div 64) * 64 + (he % 64), 0)
      BY <1>1, HeadSteps
    <2>2. (0 \div 64) * 64 + (he % 64) = he
      BY <1>t, SMT
    <2>3. QED
      BY <2>1, <2>2
  <1>3. PICK b : b = SetSeq(SetDst(Head0, he), tid) /\ b = Places(he, tid)
    <2>1. SetSeq(Places(he, 0), tid) = Places(he, 0 - (0 % 4096) + (tid % 4096))
      BY HeadSteps
    <2>2. 0 - (0 % 4096) + (tid % 4096) = tid
      BY <1>t, SMT
    <2>3. QED
      BY <1>2, <2>1, <2>2
  <1>4. b.addr % 64 = he /\ GetSeq(b) = tid
    <2>1. b.addr = he /\ b.tid = tid
      BY <1>3, PlaceFacts
    <2>2. QED
      BY <1>t, <2>1, SMT DEF GetSeq
  <1> DEFINE x == (he \div 16) * 64
             y == (he % 16) * 4096
  <1>5. SetSrc(Head0, he) = Places(x, y)
    <2>1. Bits(he, 4, 2) = he \div 16 /\ Bits(he, 0, 4) = he % 16
      <3>1. 2^4 = 16 /\ 2^0 = 1 /\ 2^2 = 4
        BY SMT
      <3>2. QED
        BY <1>t, <3>1, SMT DEF Bits
    <2>2. SetSrc(Head0, he)
            = Places((0 % 64) + Bits(he, 4, 2) * 64, (0 % 4096) + Bits(he, 0, 4) * 4096)
      BY <1>1, HeadSteps
    <2>3. /\ (0 % 64) + Bits(he, 4, 2) * 64 = x
          /\ (0 % 4096) + Bits(he, 0, 4) * 4096 = y
      BY <1>t, <2>1, SMT
    <2>4. QED
      BY <2>2, <2>3
  <1>6. SetSeq(Places(x, y), tid) = Places(x, y + tid)
    <2>1. SetSeq(Places(x, y), tid) = Places(x, y - (y % 4096) + (tid % 4096))
      BY HeadSteps
    <2>2. y - (y % 4096) + (tid % 4096) = y + tid
      BY <1>t, SMT
    <2>3. QED
      BY <2>1, <2>2
  <1>7. FromCard(b) = Places(x, y + tid)
    BY <1>4, <1>5, <1>6 DEF FromCard
  <1>8. ((x \div 64) * 16 + (y + tid) \div 4096) % 64 = he
    BY <1>t, SMT
  <1> HIDE DEF x, y
  <1>9. QED
    BY <1>3, <1>7, <1>8, PlaceFacts DEF GetSrc

\* The mhydra protocol keeps a classic frame, and finds the channel it came from.
LEMMA HydraKeeps ==
  ASSUME NEW f \in Frames, f.src = 255, f.tx = Off, f.id < 2^29,
         NEW he \in Addresses, NEW tid \in Tids
  PROVE  ParseRxLog([SendHydra(f, he, tid) EXCEPT !.head = FromCard(@)], he)
           = <<Classic(f, AtMost(f.dlc, 8))>>
  <1> DEFINE v == SendHydra(f, he, tid)
             w == [v EXCEPT !.head = FromCard(@)]
             n == AtMost(f.dlc, 8)
  <1>1. f \in Row
    BY FrameFacts
  <1>2. /\ f.dlc % 16 = f.dlc /\ n \in 0..8 /\ f.bytes \in 0..64
        /\ f.ext \in BOOLEAN /\ f.rtr \in BOOLEAN /\ f.id \in Nat
    BY <1>1, Fields, PayloadFacts
  <1>3. /\ w.head = FromCard(SetSeq(SetDst(Head0, he), tid))
        /\ w.id = f.id /\ w.top = Flag(f.ext, 31) /\ w.dlc = f.dlc
        /\ w.flags = Flag(f.rtr, 4) /\ w.bytes = AtMost(f.bytes, n)
    BY <1>2 DEF SendHydra
  <1>4. (31 \in w.top) = f.ext /\ (4 \in w.flags) = f.rtr /\ 0 \notin w.flags
    BY <1>2, <1>3, FlagIn, FlagOut
  <1>5. AtMost(w.bytes, AtMost(w.dlc % 16, 8)) = AtMost(f.bytes, n) /\ w.dlc % 16 = f.dlc
    BY <1>2, <1>3 DEF AtMost
  <1>6. GetSrc(w.head) = he
    <2>1. GetSrc(FromCard(SetSeq(SetDst(Head0, he), tid))) = he
      BY HeadComesBack
    <2>2. QED
      BY <1>3, <2>1
  <1>7. w.id % 2^29 = f.id
    BY <1>2, <1>3, SMT
  <1> HIDE DEF v, w, n
  <1>8. ParseRxLog(w, he) = <<Received(f.id, f.ext, f.dlc, f.rtr, AtMost(f.bytes, n))>>
    BY <1>4, <1>5, <1>6, <1>7 DEF ParseRxLog
  <1>9. QED
    BY <1>1, <1>8, ClassicReceived DEF v, w, n

\* So does its extended form, for which the card itself rebuilds the flags.
LEMMA HydraExtKeeps ==
  ASSUME NEW f \in Frames, f.src = 255, f.tx = Off, f.id < 2^29,
         NEW he \in Addresses, NEW tid \in Tids
  PROVE  ParseRxFd(HydraReports(SendHydraExt(f, he, tid)), he)
           = <<Classic(f, AtMost(f.dlc, 8))>>
  <1> DEFINE v == SendHydraExt(f, he, tid)
             w == HydraReports(v)
             n == AtMost(f.dlc, 8)
  <1>1. f \in Row /\ (f.rtr => f.bytes = 0)
    BY FrameFacts
  <1>2. /\ f.dlc % 16 = f.dlc /\ n \in 0..8 /\ f.bytes \in 0..64 /\ f.dlc \in 0..15
        /\ f.ext \in BOOLEAN /\ f.rtr \in BOOLEAN /\ f.id \in Nat
    BY <1>1, Fields, PayloadFacts
  <1>3. /\ v.head = SetSeq(SetDst(Head0, he), tid)
        /\ v.len = ((8 + 24 + n + 7) \div 8) * 8
        /\ v.fpga = FpgaId(f) /\ v.control = f.dlc /\ v.bytes = AtMost(f.bytes, n)
    BY <1>2 DEF SendHydraExt
  <1>4. /\ w.head = FromCard(v.head) /\ w.len = v.len /\ w.control = v.control /\ w.bytes = v.bytes
        /\ w.flags = Flag({30, 31} \cap v.fpga.top # {}, 5) \cup Flag(29 \in v.fpga.top, 4)
        /\ w.id = v.fpga.id
    BY DEF HydraReports
  <1> HIDE DEF v, w, n
  <1>5. GetSrc(w.head) = he
    <2>1. GetSrc(FromCard(SetSeq(SetDst(Head0, he), tid))) = he
      BY HeadComesBack
    <2>2. QED
      BY <1>3, <1>4, <2>1
  <1>6. w.len >= 32 + n /\ w.len >= 32 /\ w.len \in Nat
    BY <1>2, <1>3, <1>4, SMT
  <1>7. w.id % 2^29 = f.id
    <2>1. w.id = f.id % 2^29
      BY <1>3, <1>4 DEF FpgaId
    <2>2. QED
      BY <1>2, <2>1, SMT
  <1>8. v.fpga.top = (IF f.ext THEN {30, 31} ELSE {}) \cup Flag(f.rtr, 29)
    BY <1>3 DEF FpgaId
  <1>9. {30, 31} \cap v.fpga.top # {} <=> f.ext
    <2>1. 30 \notin Flag(f.rtr, 29) /\ 31 \notin Flag(f.rtr, 29)
      BY FlagOut
    <2>2. QED
      BY <1>2, <1>8, <2>1
  <1>10. 29 \in v.fpga.top <=> f.rtr
    <2>1. (29 \in Flag(f.rtr, 29)) = f.rtr
      BY <1>2, FlagIn
    <2>2. QED
      BY <1>2, <1>8, <2>1
  <1>11. w.flags = (IF f.ext THEN {5} ELSE {}) \cup (IF f.rtr THEN {4} ELSE {})
    BY <1>4, <1>9, <1>10 DEF Flag
  <1>12. (5 \in w.flags) = f.ext /\ (4 \in w.flags) = f.rtr /\ {0, 6} \cap w.flags = {}
    BY <1>2, <1>11
  <1> DEFINE k == IF 4 \in w.flags THEN 0 ELSE AtMost(w.control, 8)
  <1>13. w.control = f.dlc /\ w.bytes = AtMost(f.bytes, n)
    BY <1>3, <1>4
  <1>14. 32 + k <= w.len /\ AtMost(w.bytes, k) = AtMost(f.bytes, n)
    BY <1>1, <1>2, <1>6, <1>12, <1>13 DEF AtMost, n
  <1>15. ParseRxFd(w, he) = <<Received(f.id, f.ext, f.dlc, f.rtr, AtMost(f.bytes, n))>>
    BY <1>5, <1>6, <1>7, <1>12, <1>13, <1>14 DEF ParseRxFd
  <1>16. QED
    BY <1>1, <1>15, ClassicReceived DEF v, w, n
-----------------------------------------------------------------------------
(* The slcan adapter and the Vector protocol.                               *)

\* slcan loses the remote flag and shortens an FD frame, and nothing else.
LEMMA SlcanKeeps ==
  ASSUME NEW f \in Frames, f.src = 255, f.tx = Off, f.id < 2^29
  PROVE  ParseSlcan(SendSlcan(f))
           = <<[ShortId(Classic(f, 8)) EXCEPT !.rtr = FALSE, !.dlc = AtMost(PayloadLen(f), 8)]>>
  <1> DEFINE w == SendSlcan(f)
             n == AtMost(PayloadLen(f), 8)
             s == ShortId(Classic(f, 8))
             b == AtMost(f.bytes, 8)
  <1>1. f \in Row /\ f.bytes <= PayloadLen(f)
    BY FrameFacts
  <1>2. f.bytes \in 0..64 /\ f.ext \in BOOLEAN /\ PayloadLen(f) \in 0..64
    BY <1>1, Fields, PayloadFacts
  <1>3. /\ w.type = (IF f.ext THEN "T" ELSE "t") /\ w.id = Short(f) /\ w.digit = n
        /\ w.bytes = AtMost(f.bytes, n)
    <2>1. f.id \in Nat
      BY <1>1, Fields
    <2>2. f.id = f.id % 2^29
      BY <2>1, SMT
    <2>3. w.id = IF f.ext THEN f.id ELSE f.id % 2^11
      BY DEF SendSlcan
    <2>4. w.id = Short(f)
      BY <2>2, <2>3 DEF Short
    <2>5. QED
      BY <2>4 DEF SendSlcan
  <1>4. (w.type = "T") = f.ext
    BY <1>2, <1>3
  <1>5. AtMost(w.bytes, w.digit) = b
    BY <1>1, <1>2, <1>3 DEF AtMost
  <1> HIDE DEF w, n, b
  <1>6. ParseSlcan(w) = <<Received(Short(f), f.ext, n, Off, b)>>
    BY <1>3, <1>4, <1>5 DEF ParseSlcan, Off
  <1>7. s = R(Short(f), f.ext, f.rtr, Off, Off, f.dlc, b, 255, Off)
    <2>1. Classic(f, 8) = R(f.id, f.ext, f.rtr, Off, Off, f.dlc, b, 255, Off)
      BY <1>1, ClassicIs DEF b
    <2>2. QED
      BY <2>1, ShortIs DEF Short
  <1>8. [s EXCEPT !.rtr = FALSE, !.dlc = n] = R(Short(f), f.ext, Off, Off, Off, n, b, 255, Off)
    <2> HIDE DEF s
    <2>1. [s EXCEPT !.rtr = FALSE, !.dlc = n] = Dlc(Rtr(s, Off), n)
      BY DEF Dlc, Rtr, Off
    <2>2. QED
      BY <1>7, <2>1, Puts
  <1>9. QED
    BY <1>6, <1>8, ReceivedIs DEF w, n

\* The Vector protocol keeps all of a frame, FD frames included.
LEMMA VectorKeeps ==
  ASSUME NEW f \in Frames, f.src = 255, f.tx = Off
  PROVE  ParseRxEvent(VectorReports(SendVector(f))) = <<ShortId(f)>>
  <1> DEFINE v == SendVector(f)
             w == VectorReports(v)
             n == PayloadLen(f)
  <1>1. /\ f \in Row /\ f.bytes <= n /\ (~f.fd => f.brs = Off)
    BY FrameFacts
  <1>2. /\ f.dlc % 16 = f.dlc /\ n \in 0..64 /\ f.bytes \in 0..64
        /\ f.ext \in BOOLEAN /\ f.rtr \in BOOLEAN /\ f.fd \in BOOLEAN /\ f.brs \in BOOLEAN
    BY <1>1, Fields, PayloadFacts
  <1>3. /\ v.inner = ((n + 31) \div 4) * 4 /\ v.dlc = f.dlc /\ v.id = f.id
        /\ v.ctrl = Flag(f.ext, 5) \cup Flag(f.fd /\ f.brs, 7) \cup Flag(f.fd, 14) \cup Flag(f.rtr, 4)
        /\ v.bytes = AtMost(f.bytes, n)
    BY <1>2 DEF SendVector
  <1>4. /\ w.size = v.inner + 20 /\ w.dlc = v.dlc /\ w.id = v.id /\ w.bytes = v.bytes
        /\ w.ctrl = Flag(14 \in v.ctrl, 29) \cup Flag(7 \in v.ctrl, 30) \cup Flag(4 \in v.ctrl, 4)
        /\ w.top = Flag(5 \in v.ctrl, 29)
    BY DEF VectorReports
  <1> HIDE DEF v, w, n
  <1>5. /\ 14 \in v.ctrl <=> f.fd
        /\ 7 \in v.ctrl <=> f.brs
        /\ 4 \in v.ctrl <=> f.rtr
        /\ 5 \in v.ctrl <=> f.ext
    <2>1. v.ctrl = (IF f.ext THEN {5} ELSE {}) \cup (IF f.fd /\ f.brs THEN {7} ELSE {})
                     \cup (IF f.fd THEN {14} ELSE {}) \cup (IF f.rtr THEN {4} ELSE {})
      BY <1>3 DEF Flag
    <2>2. f.fd /\ f.brs <=> f.brs
      BY <1>1, <1>2 DEF Off
    <2>3. QED
      BY <2>1, <2>2
  <1>6. /\ (29 \in w.ctrl) = f.fd /\ (30 \in w.ctrl) = f.brs /\ (4 \in w.ctrl) = f.rtr
        /\ (29 \in w.top) = f.ext
    <2>1. /\ w.ctrl = (IF f.fd THEN {29} ELSE {}) \cup (IF f.brs THEN {30} ELSE {})
                        \cup (IF f.rtr THEN {4} ELSE {})
          /\ w.top = (IF f.ext THEN {29} ELSE {})
      BY <1>4, <1>5 DEF Flag
    <2>2. QED
      BY <1>2, <2>1
  <1>7. /\ w.dlc = f.dlc /\ w.id = f.id /\ w.bytes = f.bytes /\ w.size >= 40 /\ 48 + n <= w.size
    <2>1. w.size >= 40 /\ 48 + n <= w.size
      BY <1>2, <1>3, <1>4, SMT
    <2>2. w.bytes = f.bytes
      BY <1>1, <1>2, <1>3, <1>4 DEF AtMost
    <2>3. QED
      BY <1>3, <1>4, <2>1, <2>2
  <1> DEFINE g == [Blank EXCEPT !.dlc = w.dlc, !.fd = (29 \in w.ctrl), !.brs = (30 \in w.ctrl),
                         !.rtr = (4 \in w.ctrl), !.ext = (29 \in w.top),
                         !.id = w.id % 2^(IF 29 \in w.top THEN 29 ELSE 11)]
             h == R(Short(f), f.ext, f.rtr, f.fd, f.brs, f.dlc, 0, 255, Off)
  <1>8. g = h
    <2>1. g = [Blank EXCEPT !.dlc = f.dlc, !.fd = f.fd, !.brs = f.brs,
                            !.rtr = f.rtr, !.ext = f.ext, !.id = Short(f)]
      BY <1>6, <1>7 DEF Short
    <2>2. [Blank EXCEPT !.dlc = f.dlc, !.fd = f.fd, !.brs = f.brs,
                        !.rtr = f.rtr, !.ext = f.ext, !.id = Short(f)]
            = Id(Ext(Rtr(Brs(Fd(Dlc(Blank, f.dlc), f.fd), f.brs), f.rtr), f.ext), Short(f))
      BY DEF Id, Ext, Rtr, Brs, Fd, Dlc
    <2>3. Id(Ext(Rtr(Brs(Fd(Dlc(R(0, Off, Off, Off, Off, 0, 0, 255, Off), f.dlc), f.fd), f.brs),
                     f.rtr), f.ext), Short(f)) = h
      BY Puts
    <2> HIDE DEF g, h
    <2>4. QED
      BY <2>1, <2>2, <2>3, BlankIs
  <1>9. ParseRxEvent(w) = <<[g EXCEPT !.bytes = IF 48 + PayloadLen(g) <= w.size
                                                THEN AtMost(w.bytes, PayloadLen(g)) ELSE 0]>>
    <2>1. ~(w.size < 40)
      BY <1>2, <1>3, <1>4, <1>7, SMT
    <2>2. QED
      BY <2>1 DEF ParseRxEvent
  <1>10. PayloadLen(g) = n
    <2> HIDE DEF g
    <2>1. g.fd = f.fd /\ g.dlc = f.dlc
      BY <1>8, Gets
    <2>2. QED
      BY <2>1 DEF PayloadLen, n
  <1>11. AtMost(f.bytes, n) = f.bytes
    BY <1>1, <1>2 DEF AtMost
  <1> HIDE DEF g, h
  <1>12. ParseRxEvent(w) = <<Bytes(h, f.bytes)>>
    BY <1>7, <1>8, <1>9, <1>10, <1>11 DEF Bytes
  <1>13. Bytes(h, f.bytes) = R(Short(f), f.ext, f.rtr, f.fd, f.brs, f.dlc, f.bytes, 255, Off)
    BY Puts DEF h
  <1>14. ShortId(f) = R(Short(f), f.ext, f.rtr, f.fd, f.brs, f.dlc, f.bytes, 255, Off)
    <2>1. PICK k : k = f /\ k = R(f.id, f.ext, f.rtr, f.fd, f.brs, f.dlc, f.bytes, 255, Off)
      BY <1>1, Fields
    <2>2. ShortId(k) = R(Short(f), f.ext, f.rtr, f.fd, f.brs, f.dlc, f.bytes, 255, Off)
      BY <2>1, ShortIs DEF Short
    <2>3. QED
      BY <2>1, <2>2
  <1>15. QED
    BY <1>12, <1>13, <1>14 DEF w, v
-----------------------------------------------------------------------------
(* SocketCAN.                                                               *)

\* What a socket gives back of a frame, field by field.
LEMMA SocketReads ==
  ASSUME NEW f \in Frames, f.src = 255, f.tx = Off, f.id < 2^29, NEW on \in BOOLEAN,
         NEW c \in BOOLEAN, c <=> f.fd /\ on,
         NEW n, n = (IF c THEN PayloadLen(f) ELSE AtMost(f.dlc, 8))
  PROVE  RecvSocket(SendSocket(f, on))
           = <<R(f.id, f.ext, f.rtr, c, c /\ f.brs, IF c THEN f.dlc ELSE AtMost(f.dlc, 8),
                 AtMost(f.bytes, n), 255, Off)>>
  <1> DEFINE w == SendSocket(f, on)
  <1>1. f \in Row
    BY FrameFacts
  <1>2. /\ f.id \in Nat /\ f.dlc \in 0..15 /\ f.bytes \in 0..64
        /\ f.ext \in BOOLEAN /\ f.rtr \in BOOLEAN /\ f.fd \in BOOLEAN /\ f.brs \in BOOLEAN
        /\ PayloadLen(f) \in 0..64 /\ AtMost(f.dlc, 8) \in 0..8
        /\ (f.fd => PayloadLen(f) = DlcToLen(f.dlc))
    BY <1>1, Fields, PayloadFacts
  <1>3. /\ w.canfd = (f.fd /\ on) /\ w.can_id = CanId(f)
        /\ w.len = (IF f.fd /\ on THEN PayloadLen(f) ELSE AtMost(f.dlc, 8))
        /\ w.flags = Flag(f.fd /\ on /\ f.brs, 0)
        /\ w.bytes = AtMost(f.bytes, IF f.fd /\ on THEN PayloadLen(f) ELSE AtMost(f.dlc, 8))
    BY DEF SendSocket
  <1> HIDE DEF w
  <1>4. w.canfd = c /\ w.len = n /\ w.bytes = AtMost(f.bytes, n)
    <2>1. (f.fd /\ on) = c
      BY <1>2
    <2>2. QED
      BY <1>3, <2>1
  <1>5. w.can_id.id % 2^29 = f.id
    <2>1. w.can_id.id = f.id
      BY <1>3 DEF CanId
    <2>2. QED
      BY <1>2, <2>1, SMT
  <1>6. /\ (31 \in w.can_id.top) = f.ext /\ (30 \in w.can_id.top) = f.rtr
        /\ (29 \in w.can_id.top) = Off
    <2>1. w.can_id.top = (IF f.ext THEN {31} ELSE {}) \cup (IF f.rtr THEN {30} ELSE {})
      BY <1>3 DEF CanId, Flag
    <2>2. QED
      BY <1>2, <2>1 DEF Off
  <1>7. (w.canfd /\ 0 \in w.flags) = (c /\ f.brs)
    <2>1. 0 \in w.flags <=> c /\ f.brs
      BY <1>3 DEF Flag
    <2>2. QED
      BY <1>4, <2>1
  <1>8. (IF w.canfd THEN LenToDlc(w.len) ELSE w.len) = IF c THEN f.dlc ELSE AtMost(f.dlc, 8)
    <2>1. LenToDlc(DlcToLen(f.dlc)) = f.dlc
      BY <1>2, LengthFacts
    <2>2. QED
      BY <1>2, <1>4, <2>1
  <1>9. AtMost(w.bytes, w.len) = AtMost(f.bytes, n)
    <2>1. n \in 0..64
      BY <1>2
    <2>2. QED
      BY <1>2, <1>4, <2>1 DEF AtMost
  <1> DEFINE d == IF c THEN f.dlc ELSE AtMost(f.dlc, 8)
             b == AtMost(f.bytes, n)
  <1>10. RecvSocket(w) = <<[Blank EXCEPT !.id = f.id, !.ext = f.ext, !.rtr = f.rtr,
                                         !.error = Off, !.fd = c, !.brs = (c /\ f.brs), !.dlc = d, !.bytes = b]>>
    <2> HIDE DEF d, b
    <2>1. /\ (IF w.canfd THEN LenToDlc(w.len) ELSE w.len) = d
          /\ AtMost(w.bytes, w.len) = b
      BY <1>8, <1>9 DEF d, b
    <2>2. QED
      BY <1>4, <1>5, <1>6, <1>7, <2>1 DEF RecvSocket
  <1> DEFINE p == c /\ f.brs
  <1> HIDE DEF d, b, p
  <1>11. [Blank EXCEPT !.id = f.id, !.ext = f.ext, !.rtr = f.rtr, !.error = Off, !.fd = c,
                       !.brs = p, !.dlc = d, !.bytes = b]
           = Bytes(Dlc(Brs(Fd(Err(Rtr(Ext(Id(Blank, f.id), f.ext), f.rtr), Off), c), p), d), b)
    BY DEF Id, Ext, Rtr, Err, Brs, Fd, Dlc, Bytes
  <1>12. Bytes(Dlc(Brs(Fd(Err(Rtr(Ext(Id(R(0, Off, Off, Off, Off, 0, 0, 255, Off), f.id), f.ext),
                                  f.rtr), Off), c), p), d), b)
           = R(f.id, f.ext, f.rtr, c, p, d, b, 255, Off)
    BY Puts
  <1>13. QED
    BY <1>10, <1>11, <1>12, BlankIs DEF d, b, p, w

\* A socket that takes no FD frames cuts them to eight bytes.
LEMMA SocketKeeps ==
  ASSUME NEW f \in Frames, f.src = 255, f.tx = Off, f.id < 2^29
  PROVE  RecvSocket(SendSocket(f, FALSE))
           = <<[Classic(f, AtMost(f.dlc, 8)) EXCEPT !.dlc = AtMost(@, 8)]>>
  <1> DEFINE n == AtMost(f.dlc, 8)
             k == Classic(f, n)
             b == AtMost(f.bytes, n)
  <1>1. RecvSocket(SendSocket(f, Off)) = <<R(f.id, f.ext, f.rtr, Off, Off, n, b, 255, Off)>>
    <2>1. /\ Off \in BOOLEAN /\ (Off <=> f.fd /\ Off)
          /\ n = IF Off THEN PayloadLen(f) ELSE AtMost(f.dlc, 8)
          /\ n = IF Off THEN f.dlc ELSE AtMost(f.dlc, 8)
          /\ (Off /\ f.brs) = Off
      BY DEF Off
    <2> HIDE DEF n, b
    <2>2. RecvSocket(SendSocket(f, Off))
            = <<R(f.id, f.ext, f.rtr, Off, Off /\ f.brs, IF Off THEN f.dlc ELSE AtMost(f.dlc, 8),
                  AtMost(f.bytes, n), 255, Off)>>
      BY <2>1, SocketReads
    <2>3. QED
      BY <2>1, <2>2 DEF b
  <1>2. k = R(f.id, f.ext, f.rtr, Off, Off, f.dlc, b, 255, Off)
    BY FrameFacts, ClassicIs
  <1> HIDE DEF b, k
  <1>3. [k EXCEPT !.dlc = AtMost(@, 8)] = R(f.id, f.ext, f.rtr, Off, Off, n, b, 255, Off)
    <2>1. [k EXCEPT !.dlc = AtMost(@, 8)] = Dlc(k, AtMost(k.dlc, 8))
      BY DEF Dlc
    <2>2. k.dlc = f.dlc
      BY <1>2, Gets
    <2>3. QED
      BY <1>2, <2>1, <2>2, Puts
  <1>4. QED
    BY <1>1, <1>3 DEF k, Off

\* One that does keeps them.
LEMMA SocketFdKeeps ==
  ASSUME NEW f \in Frames, f.src = 255, f.tx = Off, f.id < 2^29
  PROVE  RecvSocket(SendSocket(f, TRUE))
           = <<[f EXCEPT !.dlc = IF f.fd THEN @ ELSE AtMost(@, 8)]>>
  <1> DEFINE d == IF f.fd THEN f.dlc ELSE AtMost(f.dlc, 8)
             n == PayloadLen(f)
  <1>1. f \in Row /\ f.bytes <= n /\ (~f.fd => f.brs = Off)
    BY FrameFacts
  <1>2. f.fd \in BOOLEAN /\ f.brs \in BOOLEAN /\ f.bytes \in 0..64 /\ n \in 0..64
    BY <1>1, Fields, PayloadFacts
  <1>3. n = IF f.fd THEN PayloadLen(f) ELSE AtMost(f.dlc, 8)
    BY <1>2 DEF PayloadLen
  <1>4. (f.fd /\ f.brs) = f.brs
    BY <1>1, <1>2 DEF Off
  <1>5. AtMost(f.bytes, n) = f.bytes
    BY <1>1, <1>2 DEF AtMost
  <1> HIDE DEF n
  <1>6. RecvSocket(SendSocket(f, TRUE))
          = <<R(f.id, f.ext, f.rtr, f.fd, f.fd /\ f.brs, IF f.fd THEN f.dlc ELSE AtMost(f.dlc, 8),
                AtMost(f.bytes, n), 255, Off)>>
    <2>1. PICK on : on = TRUE
      OBVIOUS
    <2>2. PICK c : c = f.fd
      OBVIOUS
    <2>3. on \in BOOLEAN /\ c \in BOOLEAN
      BY <1>2, <2>1, <2>2
    <2>4. c <=> f.fd /\ on
      BY <1>2, <2>1, <2>2
    <2>5. n = IF c THEN PayloadLen(f) ELSE AtMost(f.dlc, 8)
      BY <1>3, <2>2
    <2>6. RecvSocket(SendSocket(f, on))
            = <<R(f.id, f.ext, f.rtr, c, c /\ f.brs, IF c THEN f.dlc ELSE AtMost(f.dlc, 8),
                  AtMost(f.bytes, n), 255, Off)>>
      BY <2>3, <2>4, <2>5, SocketReads
    <2>7. QED
      BY <2>1, <2>2, <2>6
  <1>7. [f EXCEPT !.dlc = IF f.fd THEN @ ELSE AtMost(@, 8)] = Dlc(f, d)
    BY DEF Dlc
  <1> HIDE DEF d
  <1>8. Dlc(f, d) = R(f.id, f.ext, f.rtr, f.fd, f.brs, d, f.bytes, 255, Off)
    <2>1. PICK g : g = f /\ g = R(f.id, f.ext, f.rtr, f.fd, f.brs, f.dlc, f.bytes, 255, Off)
      BY <1>1, Fields
    <2>2. Dlc(g, d) = R(f.id, f.ext, f.rtr, f.fd, f.brs, d, f.bytes, 255, Off)
      BY <2>1, Puts
    <2>3. QED
      BY <2>1, <2>2
  <1>9. RecvSocket(SendSocket(f, TRUE)) = <<R(f.id, f.ext, f.rtr, f.fd, f.brs, d, f.bytes, 255, Off)>>
    BY <1>4, <1>5, <1>6 DEF d
  <1>10. QED
    BY <1>7, <1>8, <1>9
-----------------------------------------------------------------------------
(* The Kvaser library and the log files.                                    *)

\* The Kvaser library keeps the data, and the length in place of the dlc.
LEMMA CanlibKeeps ==
  ASSUME NEW f \in Frames, f.src = 255, f.tx = Off, PayloadLen(f) <= 8
  PROVE  RecvCanlib(SendCanlib(f)) = <<[Classic(f, 8) EXCEPT !.dlc = PayloadLen(f)]>>
  <1> DEFINE w == SendCanlib(f)
             n == PayloadLen(f)
             g == [Blank EXCEPT !.id = w.id, !.ext = (2 \in w.flags), !.rtr = (0 \in w.flags),
                                !.error = (5 \in w.flags), !.dlc = w.dlc, !.fd = (16 \in w.flags), !.brs = (17 \in w.flags)]
             h == R(f.id, f.ext, f.rtr, Off, Off, n, 0, 255, Off)
             k == Classic(f, 8)
  <1>1. f \in Row /\ f.bytes <= n
    BY FrameFacts
  <1>2. f.bytes \in 0..64 /\ f.ext \in BOOLEAN /\ f.rtr \in BOOLEAN /\ n \in 0..64 /\ n <= 8
    BY <1>1, Fields, PayloadFacts
  <1>3. /\ w.id = f.id /\ w.dlc = n /\ w.bytes = AtMost(f.bytes, n)
        /\ w.flags = Flag(f.rtr, 0) \cup Flag(~f.ext, 1) \cup Flag(f.ext, 2)
    BY DEF SendCanlib
  <1> HIDE DEF w, n
  <1>4. /\ (2 \in w.flags) = f.ext /\ (0 \in w.flags) = f.rtr
        /\ (5 \in w.flags) = Off /\ (16 \in w.flags) = Off /\ (17 \in w.flags) = Off
    <2>1. w.flags = (IF f.rtr THEN {0} ELSE {}) \cup (IF f.ext THEN {2} ELSE {1})
      BY <1>3 DEF Flag
    <2>2. QED
      BY <1>2, <2>1 DEF Off
  <1>5. RecvCanlib(w) = <<[g EXCEPT !.bytes = AtMost(w.bytes, PayloadLen(g))]>>
    BY DEF RecvCanlib
  <1>6. g = h
    <2>1. g = Brs(Fd(Dlc(Err(Rtr(Ext(Id(Blank, f.id), f.ext), f.rtr), Off), n), Off), Off)
      <3>1. g = [Blank EXCEPT !.id = f.id, !.ext = f.ext, !.rtr = f.rtr, !.error = Off,
                              !.dlc = n, !.fd = Off, !.brs = Off]
        BY <1>3, <1>4
      <3>2. QED
        BY <3>1 DEF Id, Ext, Rtr, Err, Dlc, Fd, Brs
    <2>2. Brs(Fd(Dlc(Err(Rtr(Ext(Id(R(0, Off, Off, Off, Off, 0, 0, 255, Off), f.id), f.ext), f.rtr),
                         Off), n), Off), Off) = h
      BY Puts
    <2> HIDE DEF g, h
    <2>3. QED
      BY <2>1, <2>2, BlankIs
  <1>7. PayloadLen(h) = n
    <2> HIDE DEF h
    <2>1. h.fd = Off /\ h.dlc = n
      BY Gets DEF h
    <2>2. QED
      BY <1>2, <2>1 DEF PayloadLen, Off, AtMost
  <1>8. /\ AtMost(w.bytes, n) = f.bytes /\ AtMost(f.bytes, 8) = f.bytes
    BY <1>1, <1>2, <1>3 DEF AtMost, n
  <1> HIDE DEF g, h
  <1>9. RecvCanlib(w) = <<R(f.id, f.ext, f.rtr, Off, Off, n, f.bytes, 255, Off)>>
    <2>1. RecvCanlib(w) = <<Bytes(h, f.bytes)>>
      BY <1>5, <1>6, <1>7, <1>8 DEF Bytes
    <2>2. Bytes(h, f.bytes) = R(f.id, f.ext, f.rtr, Off, Off, n, f.bytes, 255, Off)
      BY Puts DEF h
    <2>3. QED
      BY <2>1, <2>2
  <1>10. k = R(f.id, f.ext, f.rtr, Off, Off, f.dlc, f.bytes, 255, Off)
    BY <1>1, <1>8, ClassicIs
  <1> HIDE DEF k
  <1>11. [k EXCEPT !.dlc = n] = R(f.id, f.ext, f.rtr, Off, Off, n, f.bytes, 255, Off)
    BY <1>10, Puts DEF Dlc
  <1>12. QED
    BY <1>9, <1>11 DEF w, n, k

\* The lesser of two numbers in order.
LEMMA NoMore == ASSUME NEW a \in 0..64, NEW b \in 0..64, a <= b PROVE AtMost(a, b) = a
  BY DEF AtMost

\* A line with data is read as the frame it was written for, but the channel is
\* what the line says.
LEMMA CsvReads ==
  ASSUME NEW f \in Frames, NEW c, NEW s,
         s = (IF c = << >> THEN 255 ELSE c[1] % 256)
  PROVE  ParseCsv(CsvColumns(f, c))
           = IF PayloadLen(f) = 0 THEN << >>
             ELSE <<R(f.id, f.ext, f.rtr, f.fd, f.brs, f.dlc, f.bytes, s, f.tx)>>
  <1> DEFINE n == PayloadLen(f)
  <1>0. PICK w : w = CsvColumns(f, c)
    OBVIOUS
  <1>1. f \in Row /\ f.bytes <= n
    BY FrameFacts
  <1>2. f.bytes \in 0..64 /\ n \in 0..64
    BY <1>1, Fields, PayloadFacts
  <1>3. /\ w.channel = c /\ w.tx = f.tx /\ w.id = f.id /\ w.ext = f.ext /\ w.rtr = f.rtr
        /\ w.dlc = f.dlc /\ w.fd = f.fd /\ w.brs = f.brs /\ w.digits = n
        /\ w.bytes = AtMost(f.bytes, n)
    BY <1>0 DEF CsvColumns
  <1> DEFINE g == [Blank EXCEPT !.tx = w.tx, !.id = w.id, !.ext = w.ext, !.rtr = w.rtr,
                         !.dlc = w.dlc, !.fd = w.fd, !.brs = w.brs,
                         !.src = IF w.channel = << >> THEN 255 ELSE w.channel[1] % 256]
             h == R(f.id, f.ext, f.rtr, f.fd, f.brs, f.dlc, 0, s, f.tx)
  <1>4. ParseCsv(w) = IF w.digits = 0 THEN << >>
                      ELSE <<[g EXCEPT !.bytes = AtMost(w.bytes, PayloadLen(g))]>>
    BY DEF ParseCsv
  <1>5. g = h
    <2>1. g = Src(Brs(Fd(Dlc(Rtr(Ext(Id(Tx(Blank, f.tx), f.id), f.ext), f.rtr), f.dlc), f.fd), f.brs), s)
      BY <1>3 DEF Id, Ext, Rtr, Dlc, Fd, Brs, Src, Tx
    <2>2. Src(Brs(Fd(Dlc(Rtr(Ext(Id(Tx(R(0, Off, Off, Off, Off, 0, 0, 255, Off), f.tx), f.id),
                                 f.ext), f.rtr), f.dlc), f.fd), f.brs), s) = h
      BY Puts
    <2> HIDE DEF g, h
    <2>3. QED
      BY <2>1, <2>2, BlankIs
  <1>6. PayloadLen(h) = n
    <2> HIDE DEF h
    <2>1. h.fd = f.fd /\ h.dlc = f.dlc
      BY Gets DEF h
    <2>2. QED
      BY <2>1 DEF PayloadLen
  <1> HIDE DEF g, h
  <1>7. AtMost(w.bytes, n) = f.bytes
    <2> HIDE DEF n
    <2>1. AtMost(f.bytes, n) = f.bytes
      BY <1>1, <1>2, NoMore
    <2>2. QED
      BY <1>3, <2>1
  <1>8. [g EXCEPT !.bytes = AtMost(w.bytes, PayloadLen(g))]
          = R(f.id, f.ext, f.rtr, f.fd, f.brs, f.dlc, f.bytes, s, f.tx)
    <2>1. Bytes(h, f.bytes) = R(f.id, f.ext, f.rtr, f.fd, f.brs, f.dlc, f.bytes, s, f.tx)
      BY Puts DEF h
    <2>2. QED
      BY <1>5, <1>6, <1>7, <2>1 DEF Bytes
  <1>9. QED
    BY <1>0, <1>3, <1>4, <1>8

\* A CSV line that has data comes back whole, but for the channel if it has none.
LEMMA CsvKeeps ==
  ASSUME NEW f \in Frames
  PROVE  /\ ParseCsv(LogCsv(f)) = IF PayloadLen(f) = 0 THEN << >> ELSE <<f>>
         /\ ParseCsv(ExportCsv(f))
              = IF PayloadLen(f) = 0 THEN << >> ELSE <<[f EXCEPT !.src = 255]>>
  <1>1. f \in Row
    BY FrameFacts
  <1>2. /\ f = R(f.id, f.ext, f.rtr, f.fd, f.brs, f.dlc, f.bytes, f.src, f.tx)
        /\ f.src \in {0, 1, 255}
    BY <1>1, Fields
  <1>3. f.src = IF <<f.src>> = << >> THEN 255 ELSE <<f.src>>[1] % 256
    BY <1>2
  <1>4. ParseCsv(LogCsv(f))
          = IF PayloadLen(f) = 0 THEN << >>
            ELSE <<R(f.id, f.ext, f.rtr, f.fd, f.brs, f.dlc, f.bytes, f.src, f.tx)>>
    <2>1. PICK c : c = <<f.src>>
      OBVIOUS
    <2>2. PICK s : s = f.src
      OBVIOUS
    <2>3. s = IF c = << >> THEN 255 ELSE c[1] % 256
      BY <1>3, <2>1, <2>2
    <2>4. ParseCsv(CsvColumns(f, c))
            = IF PayloadLen(f) = 0 THEN << >>
              ELSE <<R(f.id, f.ext, f.rtr, f.fd, f.brs, f.dlc, f.bytes, s, f.tx)>>
      BY <2>3, CsvReads
    <2>5. QED
      BY <2>1, <2>2, <2>4 DEF LogCsv
  <1>5. ParseCsv(ExportCsv(f))
          = IF PayloadLen(f) = 0 THEN << >>
            ELSE <<R(f.id, f.ext, f.rtr, f.fd, f.brs, f.dlc, f.bytes, 255, f.tx)>>
    <2>1. PICK c : c = << >>
      OBVIOUS
    <2>2. PICK s : s = 255
      OBVIOUS
    <2>3. s = IF c = << >> THEN 255 ELSE c[1] % 256
      BY <2>1, <2>2
    <2>4. ParseCsv(CsvColumns(f, c))
            = IF PayloadLen(f) = 0 THEN << >>
              ELSE <<R(f.id, f.ext, f.rtr, f.fd, f.brs, f.dlc, f.bytes, s, f.tx)>>
      BY <2>3, CsvReads
    <2>5. QED
      BY <2>1, <2>2, <2>4 DEF ExportCsv
  <1>6. [f EXCEPT !.src = 255] = R(f.id, f.ext, f.rtr, f.fd, f.brs, f.dlc, f.bytes, 255, f.tx)
    <2>1. PICK g : g = f /\ g = R(f.id, f.ext, f.rtr, f.fd, f.brs, f.dlc, f.bytes, f.src, f.tx)
      BY <1>2
    <2>2. Src(g, 255) = R(f.id, f.ext, f.rtr, f.fd, f.brs, f.dlc, f.bytes, 255, f.tx)
      BY <2>1, Puts
    <2>3. QED
      BY <2>1, <2>2 DEF Src
  <1>7. QED
    BY <1>2, <1>4, <1>5, <1>6

\* The source that a channel of an ASC line is read as.
SlotOf(c) == IF c > 0 THEN (c - 1) % 256 ELSE 255

\* A line of ASC is read as what such a line keeps, but the channel is what it says.
LEMMA AscReads ==
  ASSUME NEW f \in Frames, NEW c
  PROVE  ParseAsc(AscWords(f, c, TRUE)) = <<InAsc(f, SlotOf(c))>>
  <1> DEFINE s == SlotOf(c)
             p == PayloadLen(f)
             n == AtMost(p, 8)
             b == AtMost(f.bytes, 8)
             k == Classic(f, 8)
  <1>0. PICK w : w = AscWords(f, c, TRUE)
    OBVIOUS
  <1>1. f \in Row /\ f.bytes <= p
    BY FrameFacts
  <1>2. f.bytes \in 0..64 /\ p \in 0..64
    BY <1>1, Fields, PayloadFacts
  <1>3. /\ ~w.padded /\ w.channel = c
        /\ w.id = f.id /\ w.x = f.ext /\ w.tx = f.tx /\ w.len = p /\ w.bytes = AtMost(f.bytes, p)
    BY <1>0 DEF AscWords
  <1> HIDE DEF p
  <1>4. (IF w.channel > 0 THEN (w.channel - 1) % 256 ELSE 255) = s
    BY <1>3 DEF SlotOf
  <1> HIDE DEF s
  <1>5. AtMost(w.len, 8) = n /\ AtMost(w.bytes, n) = b
    <2>1. w.bytes = f.bytes
      BY <1>1, <1>2, <1>3, NoMore
    <2>2. AtMost(f.bytes, n) = b
      BY <1>1, <1>2 DEF AtMost
    <2>3. QED
      BY <1>3, <2>1, <2>2
  <1> HIDE DEF n, b
  <1>6. ParseAsc(w) = <<Bytes(Dlc(Ext(Id(Src(Tx(Blank, f.tx), s), f.id), f.ext), n), b)>>
    <2>1. ParseAsc(w)
            = <<[Blank EXCEPT !.tx = w.tx, !.src = IF w.channel > 0 THEN (w.channel - 1) % 256 ELSE 255,
                              !.id = w.id, !.ext = w.x, !.dlc = AtMost(w.len, 8),
                              !.bytes = AtMost(w.bytes, AtMost(w.len, 8))]>>
      BY <1>3 DEF ParseAsc
    <2>2. ParseAsc(w)
            = <<Bytes(Dlc(Ext(Id(Src(Tx(Blank, w.tx),
                                     IF w.channel > 0 THEN (w.channel - 1) % 256 ELSE 255),
                                 w.id), w.x), AtMost(w.len, 8)),
                      AtMost(w.bytes, AtMost(w.len, 8)))>>
      BY <2>1 DEF Tx, Src, Id, Ext, Dlc, Bytes
    <2>3. QED
      BY <1>3, <1>4, <1>5, <2>2
  <1>7. Bytes(Dlc(Ext(Id(Src(Tx(R(0, Off, Off, Off, Off, 0, 0, 255, Off), f.tx), s), f.id), f.ext),
                  n), b)
          = R(f.id, f.ext, Off, Off, Off, n, b, s, f.tx)
    BY Puts
  <1>8. k = R(f.id, f.ext, f.rtr, Off, Off, f.dlc, b, f.src, f.tx)
    BY <1>1, ClassicIs DEF b
  <1> HIDE DEF k
  <1>9. InAsc(f, s) = Src(Dlc(Rtr(k, Off), n), s)
    BY DEF InAsc, Src, Dlc, Rtr, Off, k, n, p
  <1>10. Src(Dlc(Rtr(k, Off), n), s) = R(f.id, f.ext, Off, Off, Off, n, b, s, f.tx)
    BY <1>8, Puts
  <1>11. ParseAsc(w) = <<R(f.id, f.ext, Off, Off, Off, n, b, s, f.tx)>>
    BY <1>6, <1>7, BlankIs
  <1>12. InAsc(f, s) = R(f.id, f.ext, Off, Off, Off, n, b, s, f.tx)
    BY <1>9, <1>10
  <1>13. ParseAsc(w) = <<InAsc(f, s)>>
    BY <1>11, <1>12
  <1>14. QED
    BY <1>0, <1>13 DEF s

\* The number of a channel in an ASC line is one above the slot's; in an exported
\* one it is 1.
LEMMA AscKeeps ==
  ASSUME NEW f \in Frames
  PROVE  /\ ParseAsc(LogAsc(f, TRUE)) = <<InAsc(f, IF f.src = 255 THEN 0 ELSE f.src)>>
         /\ ParseAsc(ExportAsc(f, TRUE)) = <<InAsc(f, 0)>>
  <1>1. f.src \in {0, 1, 255}
    BY FrameFacts, Fields
  <1>2. PICK c : c = (IF f.src = 255 THEN 1 ELSE f.src + 1)
    OBVIOUS
  <1>3. PICK s : s = (IF f.src = 255 THEN 0 ELSE f.src)
    OBVIOUS
  <1>4. SlotOf(c) = s
    BY <1>1, <1>2, <1>3 DEF SlotOf
  <1>5. ParseAsc(AscWords(f, c, TRUE)) = <<InAsc(f, s)>>
    BY <1>4, AscReads
  <1>6. SlotOf(1) = 0
    BY DEF SlotOf
  <1>7. ParseAsc(AscWords(f, 1, TRUE)) = <<InAsc(f, 0)>>
    BY <1>6, AscReads
  <1>8. QED
    BY <1>2, <1>3, <1>5, <1>7 DEF LogAsc, ExportAsc

\* The formats with an address and a transaction id, and the ids they were tried with.
HydraFormats == {"hydra", "hydra_ext"}
Tid == {1, 255}

\* What is on the wire was written for this frame, and what was read from it is
\* what the format keeps.
FormatInv ==
  /\ format \in BusFormats \cup LogFormats
  /\ frame \in Frames
  /\ Passes(format, frame)
  /\ late \in BOOLEAN
  /\ format \in HydraFormats => entity \in Entities
  /\ at = "written" => \E tid \in Tid : wire = Write(tid)
  /\ RoundTrip

\* A frame of a bus format is one that nobody received.
LEMMA NoSource ==
  ASSUME NEW k \in BusFormats, NEW f \in Frames, Passes(k, f)
  PROVE  f.src = 255 /\ f.tx = Off
  <1>1. f.src = 255 /\ ~f.tx
    BY DEF Passes
  <1>2. f.tx \in BOOLEAN
    BY FrameFacts, Fields
  <1>3. QED
    BY <1>1, <1>2 DEF Off

\* What is read from a frame's line or message is what the format keeps.
LEMMA ReadIsKept ==
  ASSUME FormatInv, ~PassedOver, NEW tid \in Tid, wire = Write(tid)
  PROVE  Read = Kept
  <1>1. /\ format \in BusFormats \cup LogFormats /\ frame \in Frames /\ Passes(format, frame)
        /\ late \in BOOLEAN
    BY DEF FormatInv
  <1>2. format \in BusFormats => frame.src = 255 /\ frame.tx = Off
    BY <1>1, NoSource
  <1>b. format \in BusFormats \ {"leaf", "echo"} => frame.id < 2^29
    BY <1>1 DEF Passes
  <1>3. tid \in Tids
    BY DEF Tid, Tids
  <1>4. format \in HydraFormats => entity \in Addresses
    BY FormatConstants DEF FormatInv, Addresses
  <1>5. CASE format = "leaf"
    <2>1. wire = SendLeaf(frame)
      BY <1>5 DEF Write
    <2>2. Read = ParseLeaf(wire)
      BY <1>5 DEF Read, CsvFormats, AscFormats
    <2>3. Kept = <<ShortId(Classic(frame, AtMost(frame.dlc, 8)))>>
      BY <1>5 DEF Kept
    <2>4. QED
      BY <1>1, <1>2, <1>5, <2>1, <2>2, <2>3, LeafKeeps DEF BusFormats
  <1>6. CASE format = "hydra"
    <2>1. wire = SendHydra(frame, entity, tid)
      BY <1>6 DEF Write
    <2>2. Read = ParseRxLog([wire EXCEPT !.head = FromCard(@)], entity)
      BY <1>6 DEF Read, CsvFormats, AscFormats
    <2>3. Kept = <<Classic(frame, AtMost(frame.dlc, 8))>>
      BY <1>6 DEF Kept
    <2>4. QED
      BY <1>1, <1>2, <1>b, <1>3, <1>4, <1>6, <2>1, <2>2, <2>3, HydraKeeps DEF BusFormats, HydraFormats
  <1>7. CASE format = "hydra_ext"
    <2>1. wire = SendHydraExt(frame, entity, tid)
      BY <1>7 DEF Write
    <2>2. Read = ParseRxFd(HydraReports(wire), entity)
      BY <1>7 DEF Read, CsvFormats, AscFormats
    <2>3. Kept = <<Classic(frame, AtMost(frame.dlc, 8))>>
      BY <1>7 DEF Kept
    <2>4. QED
      BY <1>1, <1>2, <1>b, <1>3, <1>4, <1>7, <2>1, <2>2, <2>3, HydraExtKeeps DEF BusFormats, HydraFormats
  <1>8. CASE format = "vector"
    <2>1. wire = SendVector(frame)
      BY <1>8 DEF Write
    <2>2. Read = ParseRxEvent(VectorReports(wire))
      BY <1>8 DEF Read, CsvFormats, AscFormats
    <2>3. Kept = <<ShortId(frame)>>
      BY <1>8 DEF Kept
    <2>4. QED
      BY <1>1, <1>2, <1>8, <2>1, <2>2, <2>3, VectorKeeps DEF BusFormats
  <1>9. CASE format = "slcan"
    <2>1. wire = SendSlcan(frame)
      BY <1>9 DEF Write
    <2>2. Read = ParseSlcan(wire)
      BY <1>9 DEF Read, CsvFormats, AscFormats
    <2>3. Kept = <<[ShortId(Classic(frame, 8))
                      EXCEPT !.rtr = FALSE, !.dlc = AtMost(PayloadLen(frame), 8)]>>
      BY <1>9 DEF Kept
    <2>4. QED
      BY <1>1, <1>2, <1>b, <1>9, <2>1, <2>2, <2>3, SlcanKeeps DEF BusFormats
  <1>10. CASE format = "socket"
    <2>1. wire = SendSocket(frame, FALSE)
      BY <1>10 DEF Write
    <2>2. Read = RecvSocket(wire)
      BY <1>10 DEF Read, CsvFormats, AscFormats
    <2>3. Kept = <<[Classic(frame, AtMost(frame.dlc, 8)) EXCEPT !.dlc = AtMost(@, 8)]>>
      BY <1>10 DEF Kept
    <2>4. frame \in Frames /\ frame.src = 255 /\ frame.tx = Off /\ frame.id < 2^29
      BY <1>1, <1>2, <1>b, <1>10 DEF BusFormats
    <2>5. RecvSocket(SendSocket(frame, FALSE))
            = <<[Classic(frame, AtMost(frame.dlc, 8)) EXCEPT !.dlc = AtMost(@, 8)]>>
      BY <2>4, SocketKeeps
    <2>6. QED
      BY <2>1, <2>2, <2>3, <2>5
  <1>11. CASE format = "socket_fd"
    <2>1. wire = SendSocket(frame, TRUE)
      BY <1>11 DEF Write
    <2>2. Read = RecvSocket(wire)
      BY <1>11 DEF Read, CsvFormats, AscFormats
    <2>3. Kept = <<[frame EXCEPT !.dlc = IF frame.fd THEN @ ELSE AtMost(@, 8)]>>
      BY <1>11 DEF Kept
    <2>4. frame \in Frames /\ frame.src = 255 /\ frame.tx = Off /\ frame.id < 2^29
      BY <1>1, <1>2, <1>b, <1>11 DEF BusFormats
    <2>5. RecvSocket(SendSocket(frame, TRUE))
            = <<[frame EXCEPT !.dlc = IF frame.fd THEN @ ELSE AtMost(@, 8)]>>
      BY <2>4, SocketFdKeeps
    <2>6. QED
      BY <2>1, <2>2, <2>3, <2>5
  <1>12. CASE format = "xl"
    <2>1. wire = SendXl(frame)
      BY <1>12 DEF Write
    <2>2. Read = RecvXl(wire)
      BY <1>12 DEF Read, CsvFormats, AscFormats
    <2>3. Kept = <<ShortId(Classic(frame, AtMost(frame.dlc, 8)))>>
      BY <1>12 DEF Kept
    <2>4. QED
      BY <1>1, <1>2, <1>12, <2>1, <2>2, <2>3, XlKeeps DEF BusFormats
  <1>13. CASE format = "canlib"
    <2>1. wire = SendCanlib(frame)
      BY <1>13 DEF Write
    <2>2. Read = RecvCanlib(wire)
      BY <1>13 DEF Read, CsvFormats, AscFormats
    <2>3. Kept = <<[Classic(frame, 8) EXCEPT !.dlc = PayloadLen(frame)]>>
      BY <1>13 DEF Kept
    <2>4. PayloadLen(frame) <= 8
      BY <1>1, <1>13 DEF Passes
    <2>5. QED
      BY <1>1, <1>2, <1>13, <2>1, <2>2, <2>3, <2>4, CanlibKeeps DEF BusFormats
  <1>14. CASE format = "echo"
    <2>1. wire = SendEcho(frame)
      BY <1>14 DEF Write
    <2>2. Read = <<wire>>
      BY <1>14 DEF Read, CsvFormats, AscFormats
    <2>3. Kept = <<frame>>
      BY <1>14 DEF Kept
    <2>4. QED
      BY <2>1, <2>2, <2>3 DEF SendEcho
  <1>15. CASE format = "csv"
    <2>1. wire = LogCsv(frame)
      BY <1>15 DEF Write
    <2>2. Read = ParseCsv(wire)
      BY <1>15 DEF Read, CsvFormats, AscFormats
    <2>3. Kept = <<frame>>
      BY <1>15 DEF Kept
    <2>4. PayloadLen(frame) # 0
      BY <1>15 DEF PassedOver, CsvFormats
    <2>5. QED
      BY <1>1, <2>1, <2>2, <2>3, <2>4, CsvKeeps
  <1>16. CASE format = "csv_without_channel"
    <2>1. wire = ExportCsv(frame)
      BY <1>16 DEF Write
    <2>2. Read = ParseCsv(wire)
      BY <1>16 DEF Read, CsvFormats, AscFormats
    <2>3. Kept = <<[frame EXCEPT !.src = 255]>>
      BY <1>16 DEF Kept
    <2>4. PayloadLen(frame) # 0
      BY <1>16 DEF PassedOver, CsvFormats
    <2>5. QED
      BY <1>1, <2>1, <2>2, <2>3, <2>4, CsvKeeps
  <1>17. CASE format = "asc"
    <2>1. wire = LogAsc(frame, late)
      BY <1>17 DEF Write
    <2>2. Read = ParseAsc(wire)
      BY <1>17 DEF Read, CsvFormats, AscFormats
    <2>3. Kept = <<InAsc(frame, IF frame.src = 255 THEN 0 ELSE frame.src)>>
      BY <1>17 DEF Kept
    <2>4. late = TRUE
      BY <1>1, <1>17 DEF PassedOver, AscFormats
    <2>5. wire = LogAsc(frame, TRUE)
      BY <2>1, <2>4
    <2>6. ParseAsc(LogAsc(frame, TRUE))
            = <<InAsc(frame, IF frame.src = 255 THEN 0 ELSE frame.src)>>
      BY <1>1, AscKeeps
    <2>7. QED
      BY <2>2, <2>3, <2>5, <2>6
  <1>18. CASE format = "asc_one_channel"
    <2>1. wire = ExportAsc(frame, late)
      BY <1>18 DEF Write
    <2>2. Read = ParseAsc(wire)
      BY <1>18 DEF Read, CsvFormats, AscFormats
    <2>3. Kept = <<InAsc(frame, 0)>>
      BY <1>18 DEF Kept
    <2>4. late = TRUE
      BY <1>1, <1>18 DEF PassedOver, AscFormats
    <2>5. QED
      BY <1>1, <2>1, <2>2, <2>3, <2>4, AscKeeps
  <1>19. QED
    BY <1>1, <1>5, <1>6, <1>7, <1>8, <1>9, <1>10, <1>11, <1>12, <1>13, <1>14, <1>15, <1>16, <1>17, <1>18
       DEF BusFormats, LogFormats, CsvFormats, AscFormats

\* A frame of any identifier that went through any of the formats, on a card at any
\* address, comes back with everything that format has room for, and nothing in it
\* has turned into something else (send() and recv_many() of each driver,
\* log_csv(), log_asc() and the parsers of the import).
THEOREM FramesComeBack == Spec => []RoundTrip
  <1>1. Init => FormatInv
    <2> SUFFICES ASSUME Init PROVE FormatInv
      OBVIOUS
    <2>1. /\ format \in BusFormats \cup LogFormats /\ frame \in Frames /\ Passes(format, frame)
          /\ at = "new"
      BY DEF Init
    <2>2. late \in BOOLEAN
      BY DEF Init
    <2>3. format \in HydraFormats => entity \in Entities
      BY DEF Init, HydraFormats
    <2>4. QED
      BY <2>1, <2>2, <2>3 DEF FormatInv, RoundTrip
  <1>2. FormatInv /\ [Next]_vars => FormatInv'
    <2> SUFFICES ASSUME FormatInv, [Next]_vars PROVE FormatInv'
      OBVIOUS
    <2>1. CASE WriteFrame
      <3>1. PICK tid \in Tid : wire' = Write(tid)
        BY <2>1 DEF WriteFrame, Tid
      <3>2. UNCHANGED <<format, frame, late, entity>> /\ at' = "written"
        BY <2>1 DEF WriteFrame
      <3>3. Write(tid)' = Write(tid)
        BY <3>2 DEF Write
      <3>4. QED
        BY <3>1, <3>2, <3>3 DEF FormatInv, RoundTrip
    <2>2. CASE ReadFrame
      <3>1. UNCHANGED <<format, frame, late, entity>> /\ at' = "read" /\ got' = Read
        BY <2>2 DEF ReadFrame
      <3>2. PICK tid \in Tid : wire = Write(tid)
        BY <2>2 DEF ReadFrame, FormatInv
      <3>3. ~PassedOver => Read = Kept
        BY <3>2, ReadIsKept
      <3>4. Kept' = Kept /\ (PassedOver <=> PassedOver')
        BY <3>1 DEF Kept, PassedOver
      <3>5. QED
        BY <3>1, <3>3, <3>4 DEF FormatInv, RoundTrip
    <2>3. CASE UNCHANGED vars
      BY <2>3 DEF FormatInv, RoundTrip, PassedOver, Write, Kept, vars
    <2>4. QED
      BY <2>1, <2>2, <2>3 DEF Next
  <1>3. FormatInv => RoundTrip
    BY DEF FormatInv
  <1>4. QED
    BY <1>1, <1>2, <1>3, PTL DEF Spec
-----------------------------------------------------------------------------
(* The timing of a bit.                                                     *)

\* A set of numbers below a bound has a largest one.
LEMMA MaxFacts ==
  ASSUME NEW b \in Nat, NEW S, S \subseteq 0..b, S # {}
  PROVE  Max(S) \in S /\ \A y \in S : y <= Max(S)
  <1> DEFINE Less == {ss \in Nat \X Nat : ss[1] < ss[2]}
             T == {b - x : x \in S}
  <1>1. IsWellFoundedOn(Less, Nat)
    BY NatLessThanWellFounded, Zenon DEF OpToRel
  <1>2. T \subseteq Nat /\ T # {}
    <2>1. \A x \in S : b - x \in Nat
      OBVIOUS
    <2>2. QED
      BY <2>1
  <1> HIDE DEF Less, T
  <1>3. PICK t \in T : \A u \in T : <<u, t>> \notin Less
    BY <1>1, <1>2, WFMin, Zenon
  <1>4. PICK x \in S : t = b - x
    BY DEF T
  <1>5. ASSUME NEW y \in S
        PROVE  x >= y
    <2>1. b - y \in T
      BY DEF T
    <2>2. b - y \in Nat /\ t \in Nat /\ ~(b - y < t)
      BY <1>2, <1>3, <2>1 DEF Less
    <2>3. x \in Nat /\ y \in Nat
      OBVIOUS
    <2>4. QED
      BY <1>4, <2>2, <2>3
  <1>6. Max(S) \in S /\ \A y \in S : Max(S) >= y
    BY <1>5 DEF Max
  <1>7. QED
    BY <1>6

\* From 12 quanta on the point lies where it should.
LEMMA SamplePoint ==
  ASSUME NEW tq \in 12..80
  PROVE  /\ 100 * (1 + Tseg1(tq)) \in (75 * tq)..(80 * tq)
         /\ 1 + Tseg1(tq) + Tseg2(tq) = tq /\ Tseg1(tq) \in Int /\ Tseg2(tq) \in Int
  BY SMT DEF Tseg1, Tseg2

\* A card of the known ones, and its clock.
Known == <<card, clock>> \in CardsAndClocks /\ rate \in Bitrates

\* The splits that meet each rate: 16 or 20 quanta, or 15 and 24 with the clock
\* of 24 MHz.
LEMMA SplitExists ==
  ASSUME Known, card # Leaf \/ rate # 10000
  PROVE  \E tq \in card.quanta : tq >= 12 /\ Fits(tq)
  <1>1. CASE card = Leaf /\ clock = 16000000 /\ rate # 10000
    <2>1. CASE rate = 800000
      <3>1. Fits(20) /\ 20 \in card.quanta
        BY <1>1, <2>1, SMT DEF Leaf, Fits, Tseg1, Tseg2
      <3>2. QED
        BY <3>1
    <2>2. CASE rate # 800000
      <3>1. Fits(16) /\ 16 \in card.quanta
        BY <1>1, <2>2, SMT DEF Leaf, Fits, Tseg1, Tseg2, Known, Bitrates
      <3>2. QED
        BY <3>1
    <2>3. QED
      BY <2>1, <2>2
  <1>2. CASE card = Hydra /\ clock = 80000000
    <2>1. Fits(20) /\ 20 \in card.quanta
      BY <1>2, SMT DEF Hydra, Fits, Tseg1, Tseg2, Known, Bitrates
    <2>2. QED
      BY <2>1
  <1>3. CASE card = VectorCard /\ clock = 160000000
    <2>1. Fits(20) /\ 20 \in card.quanta
      BY <1>3, SMT DEF VectorCard, Fits, Tseg1, Tseg2, Known, Bitrates
    <2>2. QED
      BY <2>1
  <1>4. CASE card = Hydra /\ clock = 24000000
    <2>1. CASE rate \in {10000, 20000, 50000, 100000, 800000}
      <3>1. Fits(15) /\ 15 \in card.quanta
        BY <1>4, <2>1, SMT DEF Hydra, Fits, Tseg1, Tseg2
      <3>2. QED
        BY <3>1
    <2>2. CASE rate \in {125000, 250000, 500000}
      <3>1. Fits(16) /\ 16 \in card.quanta
        BY <1>4, <2>2, SMT DEF Hydra, Fits, Tseg1, Tseg2
      <3>2. QED
        BY <3>1
    <2>3. CASE rate = 1000000
      <3>1. Fits(24) /\ 24 \in card.quanta
        BY <1>4, <2>3, SMT DEF Hydra, Fits, Tseg1, Tseg2
      <3>2. QED
        BY <3>1
    <2>4. QED
      BY <2>1, <2>2, <2>3, SMT DEF Known, Bitrates
  <1>5. QED
    BY <1>1, <1>2, <1>3, <1>4, SMT DEF Known, CardsAndClocks

\* On a leaf nothing gives 10 kbit/s: with fewer than 25 quanta each would take more
\* than 64 periods of the clock, and 25 have too long a first segment.
LEMMA NoneFits ==
  ASSUME card = Leaf, clock = 16000000, rate = 10000, NEW tq \in 3..25
  PROVE  ~Fits(tq)
  <1>1. CASE tq = 25
    BY <1>1, SMT DEF Leaf, Fits, Tseg1
  <1>2. CASE tq < 25
    <2>1. SUFFICES ASSUME Fits(tq) PROVE FALSE
      OBVIOUS
    <2> DEFINE d == 10000 * tq
               q == 16000000 \div d
    <2>2. 16000000 % d = 0 /\ q \in 1..64
      BY <2>1, SMT DEF Fits, Leaf
    <2>3. d \in Nat \ {0} /\ d <= 240000
      BY <1>2, SMT
    <2>4. 16000000 = d * q
      BY <2>2, <2>3, SMT
    <2>5. d * q <= 240000 * 64
      <3> HIDE DEF d, q
      <3>1. q \in Nat
        BY <2>2
      <3>2. d * q <= 240000 * q
        BY <2>3, <3>1, SMT
      <3>3. QED
        BY <2>2, <2>3, <3>1, <3>2, SMT
    <2>6. QED
      BY <2>4, <2>5, SMT
  <1>3. QED
    BY <1>1, <1>2

\* The registers of the known cards.
LEMMA LimitsOf ==
  ASSUME Known
  PROVE  /\ clock \in Nat /\ rate \in Nat \ {0}
         /\ \E a \in {3, 8}, b \in {25, 80} : card.quanta = a..b
         /\ card.brp \in Nat /\ card.tseg1 \in Nat /\ card.tseg2 \in Nat /\ card.sjw \in Nat
  <1>1. clock \in Nat /\ rate \in Nat \ {0} /\ card \in {Leaf, Hydra, VectorCard}
    BY SMT DEF Known, CardsAndClocks, Bitrates
  <1>2. QED
    BY <1>1, SMT DEF Leaf, Hydra, VectorCard

\* A split that fits and has 12 quanta or more gives the rate exactly.
LEMMA FittingIsExact ==
  ASSUME Known, NEW tq \in 12..80, Fits(tq), NEW sjw \in Int, sjw <= Tseg2(tq),
         timing = [tseg1 |-> Tseg1(tq), tseg2 |-> Tseg2(tq), sjw |-> sjw]
  PROVE  Exact
  <1> DEFINE d == rate * tq
             q == clock \div d
  <1>1. clock \in Nat /\ rate \in Nat \ {0}
    BY LimitsOf
  <1>2. d \in Nat \ {0}
    BY <1>1, SMT
  <1>3. clock % d = 0 /\ q \in 1..card.brp
    BY DEF Fits
  <1>4. clock = d * q
    <2> HIDE DEF d
    <2>1. QED
      BY <1>1, <1>2, <1>3, SMT
  <1>5. /\ timing.tseg1 = Tseg1(tq) /\ timing.tseg2 = Tseg2(tq) /\ timing.sjw = sjw
        /\ timing.tseg1 <= card.tseg1 /\ timing.tseg2 <= card.tseg2
    BY LimitsOf DEF Fits
  <1>6. /\ 1 + timing.tseg1 + timing.tseg2 = tq
        /\ 100 * (1 + timing.tseg1) \in (75 * tq)..(80 * tq)
    BY <1>5, SamplePoint
  <1>7. QED
    BY <1>3, <1>4, <1>5, <1>6, SMT DEF Exact

\* What the search finds is exact, and where it finds nothing the fallback is not.
LEMMA TimingFacts ==
  ASSUME Known, timing = Timing
  PROVE  TimingExact
  <1> DEFINE F == {tq \in card.quanta : Fits(tq)}
  <1>1. CASE card # Leaf \/ rate # 10000
    <2>1. PICK w \in card.quanta : w >= 12 /\ Fits(w)
      BY <1>1, SplitExists
    <2>2. w \in F /\ F \subseteq 0..80
      BY <2>1, LimitsOf
    <2> DEFINE m == Max(F)
    <2>3. m \in F /\ \A y \in F : y <= m
      <3> HIDE DEF F
      <3>1. QED
        BY <2>2, MaxFacts
    <2>4. m \in 12..80 /\ Fits(m)
      <3> HIDE DEF m
      <3>1. Fits(m) /\ m \in 0..80 /\ w <= m /\ w \in 0..80
        BY <2>2, <2>3
      <3>2. QED
        BY <2>1, <3>1
    <2> DEFINE s == Min({Tseg2(m), card.sjw})
    <2>5. timing = [tseg1 |-> Tseg1(m), tseg2 |-> Tseg2(m), sjw |-> s]
      BY <2>2 DEF Timing
    <2>6. s \in Int /\ s <= Tseg2(m)
      <3> DEFINE t == Tseg2(m)
                 r == card.sjw
      <3>1. t \in Int /\ r \in Int
        <4>1. t \in Int
          BY <2>4, SamplePoint
        <4>2. r \in Int
          BY LimitsOf
        <4>3. QED
          BY <4>1, <4>2
      <3> HIDE DEF t, r
      <3>2. Min({t, r}) \in {t, r} /\ Min({t, r}) <= t
        BY <3>1 DEF Min
      <3>3. QED
        BY <3>1, <3>2 DEF t, r
    <2> HIDE DEF m, s
    <2>7. Exact
      BY <2>4, <2>5, <2>6, FittingIsExact
    <2>8. QED
      BY <1>1, <2>7 DEF TimingExact
  <1>2. CASE card = Leaf /\ rate = 10000
    <2>1. clock = 16000000
      BY <1>2, SMT DEF Known, CardsAndClocks, Leaf, Hydra, VectorCard
    <2>2. F = {}
      BY <1>2, <2>1, NoneFits DEF Leaf
    <2>3. timing = [tseg1 |-> 5, tseg2 |-> 2, sjw |-> 1] /\ card.brp = 64
      BY <1>2, <2>2 DEF Timing, Leaf
    <2>4. ~Exact
      BY <1>2, <2>1, <2>3, SMT DEF Exact
    <2>5. QED
      BY <1>2, <2>4 DEF TimingExact
  <1>3. QED
    BY <1>1, <1>2

\* On the cards and clocks the drivers know, every bitrate the connection panel
\* offers is met exactly, except 10 kbit/s on a leaf (compute_leaf_timing(),
\* compute_mhydra_timing(), compute_can_timing()).
THEOREM TimingsAreExact == TimingSpec => []TimingExact
  <1> DEFINE Inv == Known /\ (timing = Unset \/ timing = Timing)
  <1>1. TimingInit => Inv
    <2>1. ASSUME TimingInit
          PROVE  Inv
      <3>1. PICK known \in CardsAndClocks : card = known[1] /\ clock = known[2]
        BY <2>1 DEF TimingInit
      <3>2. known = <<known[1], known[2]>>
        BY SMT DEF CardsAndClocks
      <3>3. QED
        BY <2>1, <3>1, <3>2 DEF TimingInit, Known
    <2>2. QED
      BY <2>1
  <1>2. Inv /\ [ChooseTiming]_timingVars => Inv'
    <2>1. ASSUME Inv, [ChooseTiming]_timingVars
          PROVE  Inv'
      <3>1. UNCHANGED <<card, clock, rate>> /\ (timing' = Timing \/ timing' = timing)
        BY <2>1 DEF ChooseTiming, timingVars
      <3>2. Timing' = Timing
        BY <3>1 DEF Timing, Fits, Tseg1, Tseg2
      <3>3. Known'
        BY <2>1, <3>1 DEF Known
      <3>4. QED
        BY <2>1, <3>1, <3>2, <3>3
    <2>2. QED
      BY <2>1
  <1>3. Inv => TimingExact
    BY TimingFacts DEF TimingExact
  <1>4. QED
    BY <1>1, <1>2, <1>3, PTL DEF TimingSpec
==============================================================================
