----------------------------- MODULE FrameFormats -----------------------------
(***************************************************************************)
(* How a frame is written and read: to the bus, in the format of each      *)
(* driver, and to the two kinds of log files.  A frame of any format is    *)
(* written, handed over as it is, and read by the same program; where a    *)
(* card has one layout for what it is sent and another for what it         *)
(* reports, the card's part is marked external.                            *)
(*                                                                         *)
(* Words are kept field by field and flags by the number of their bit.  Of *)
(* the data only counts how many bytes, from the first on, come with the   *)
(* frame: the others are zero.  A remote frame comes with none.            *)
(***************************************************************************)
EXTENDS Integers, SequencesExt

CONSTANTS Ids,      \* identifiers; the transmitter takes more than the 29 bits of a bus
          Entities  \* addresses an mhydra card gives its channel

ASSUME FormatConstants == Ids \subseteq Nat /\ Entities \subseteq 0..63

VARIABLES format, frame,  \* what is written, and how
          late,           \* at a time of 10 000 seconds or more
          entity,         \* address of the card's channel
          at,             \* new, written or read
          wire,           \* what was written
          got             \* the frames read from it: one or none

vars == <<format, frame, late, entity, at, wire, got>>

BusFormats == {"leaf", "hydra", "hydra_ext", "vector", "slcan", "socket", "socket_fd",
               "xl", "canlib", "echo"}
CsvFormats == {"csv", "csv_without_channel"}
AscFormats == {"asc", "asc_one_channel"}
LogFormats == CsvFormats \cup AscFormats
-----------------------------------------------------------------------------
(* types.hpp                                                                *)

\* can_frame{}
Blank == [id |-> 0, ext |-> FALSE, rtr |-> FALSE, error |-> FALSE, fd |-> FALSE,
          brs |-> FALSE, dlc |-> 0, bytes |-> 0, src |-> 255, tx |-> FALSE]

\* A classic frame that was received: no FD frame, and no source yet.
Received(id, ext, dlc, rtr, bytes) ==
  [Blank EXCEPT !.id = id, !.ext = ext, !.dlc = dlc, !.rtr = rtr, !.bytes = bytes]

AtMost(n, limit) == IF n < limit THEN n ELSE limit

Lengths == <<0, 1, 2, 3, 4, 5, 6, 7, 8, 12, 16, 20, 24, 32, 48, 64>>

\* dlc_to_len()
DlcToLen(dlc) == IF dlc < 16 THEN Lengths[dlc + 1] ELSE 64

\* len_to_dlc()
LenToDlc(len) == CHOOSE dlc \in 0..15 : /\ len <= Lengths[dlc + 1]
                                        /\ \A d \in 0..(dlc - 1) : len > Lengths[d + 1]

\* frame_payload_len()
PayloadLen(f) == IF f.fd THEN DlcToLen(f.dlc) ELSE AtMost(f.dlc, 8)

Bits(n, from, width) == (n \div 2^from) % 2^width

Flag(set, bit) == IF set THEN {bit} ELSE {}
-----------------------------------------------------------------------------
(* hardware_kvaser.hpp, the leaf protocol: send_leaf() and                  *)
(* leaf_parse_rx_frame().                                                   *)

Widths == <<5, 6, 4, 8, 6>>
Shifts == <<24, 18, 14, 6, 0>>

SendLeaf(f) ==
  [cmd |-> IF f.ext THEN "ext" ELSE "std",
   raw |-> IF f.ext THEN [i \in 1..5 |-> Bits(f.id, Shifts[i], Widths[i])]
           ELSE <<Bits(f.id, 6, 5), Bits(f.id, 0, 6)>>,
   dlc |-> f.dlc % 16,
   bytes |-> AtMost(f.bytes, AtMost(f.dlc, 8)),
   flags |-> Flag(f.rtr, 4)]

\* The next field of an identifier, after what has been read of it.
Field(id, raw, i) == id * 2^Widths[i] + (raw[i] % 2^Widths[i])

LeafIdSwapped(w) ==
  LET std == Field(Field(0, w.raw, 1), w.raw, 2)
  IN IF w.cmd = "ext" THEN Field(Field(Field(std, w.raw, 4), w.raw, 3), w.raw, 5) ELSE std

LeafId(w) ==
  LET std == Field(Field(0, w.raw, 1), w.raw, 2)
  IN IF w.cmd = "ext" THEN Field(Field(Field(std, w.raw, 3), w.raw, 4), w.raw, 5) ELSE std

ParseLeaf(w) ==
  IF 0 \in w.flags THEN << >>
  ELSE <<Received(LeafId(w), w.cmd = "ext", w.dlc % 16, 4 \in w.flags,
                  AtMost(w.bytes, AtMost(w.dlc % 16, 8)))>>
-----------------------------------------------------------------------------
(* The mhydra protocol.  A command carries the address of its channel in    *)
(* two places: two bits of its second byte, four of the transaction id.     *)

SetDst(head, dst) == [head EXCEPT !.addr = (@ \div 64) * 64 + (dst % 64)]

SetSrc(head, src) == [head EXCEPT !.addr = (@ % 64) + Bits(src, 4, 2) * 64,
                                  !.tid = (@ % 4096) + Bits(src, 0, 4) * 4096]

SetSeq(head, seq) == [head EXCEPT !.tid = @ - (@ % 4096) + (seq % 4096)]

GetSrc(head) == ((head.addr \div 64) * 16 + head.tid \div 4096) % 64

GetSeq(head) == head.tid % 4096

Head0 == [addr |-> 0, tid |-> 0]

\* The card answers in the name of the channel the command was for (external).
FromCard(head) == SetSeq(SetSrc(Head0, head.addr % 64), GetSeq(head))

\* send_mhydra(): bit 31 of the id stands apart.
SendHydra(f, he, tid) ==
  [head |-> SetSeq(SetDst(Head0, he), tid),
   id |-> f.id, top |-> Flag(f.ext, 31), dlc |-> f.dlc % 16,
   bytes |-> AtMost(f.bytes, AtMost(f.dlc, 8)), flags |-> Flag(f.rtr, 4)]

\* mhydra_parse_rx_log(): he2channel_ knows the channel's own address only.
ParseRxLog(w, he) ==
  IF GetSrc(w.head) # he \/ 0 \in w.flags THEN << >>
  ELSE <<Received(w.id % 2^29, 31 \in w.top, w.dlc % 16, 4 \in w.flags,
                  AtMost(w.bytes, AtMost(w.dlc % 16, 8)))>>

FpgaId(f) == [id |-> f.id % 2^29,
              top |-> (IF f.ext THEN {30, 31} ELSE {}) \cup Flag(f.rtr, 29)]

\* send_mhydra_ext(): the flags say nothing of the frame's kind but rtr.
SendHydraExt(f, he, tid) ==
  LET n == AtMost(f.dlc % 16, 8) IN
  [head |-> SetSeq(SetDst(Head0, he), tid),
   len |-> ((8 + 24 + n + 7) \div 8) * 8,
   flags |-> Flag(f.rtr, 4), fpga |-> FpgaId(f), control |-> f.dlc % 16,
   bytes |-> AtMost(f.bytes, n)]

\* What the card reports of the frame it was told to send (external).
HydraReports(w) ==
  [head |-> FromCard(w.head), len |-> w.len,
   flags |-> Flag({30, 31} \cap w.fpga.top # {}, 5) \cup Flag(29 \in w.fpga.top, 4),
   id |-> w.fpga.id, control |-> w.control, bytes |-> w.bytes]

\* mhydra_parse_rx_fd()
ParseRxFd(w, he) ==
  LET rtr == 4 \in w.flags
      n == IF rtr THEN 0 ELSE AtMost(w.control, 8)
  IN IF GetSrc(w.head) # he \/ w.len < 32 \/ {0, 6} \cap w.flags # {} THEN << >>
     ELSE <<Received(w.id % 2^29, 5 \in w.flags, w.control, rtr,
                     IF 32 + n <= w.len THEN AtMost(w.bytes, n) ELSE 0)>>
-----------------------------------------------------------------------------
(* hardware_vector.hpp: send() and parse_rx_event().                        *)

SendVector(f) ==
  [inner |-> ((PayloadLen(f) + 31) \div 4) * 4,
   dlc |-> f.dlc % 16,
   ctrl |-> Flag(f.ext, 5) \cup Flag(f.fd /\ f.brs, 7) \cup Flag(f.fd, 14) \cup Flag(f.rtr, 4),
   id |-> f.id, bytes |-> AtMost(f.bytes, PayloadLen(f))]

\* The event for a frame has its flags at other places, and 48 bytes before the
\* data (external).
VectorReports(w) ==
  [size |-> w.inner + 20, dlc |-> w.dlc,
   ctrl |-> Flag(14 \in w.ctrl, 29) \cup Flag(7 \in w.ctrl, 30) \cup Flag(4 \in w.ctrl, 4),
   id |-> w.id, top |-> Flag(5 \in w.ctrl, 29), bytes |-> w.bytes]

ParseRxEvent(w) ==
  LET f == [Blank EXCEPT !.dlc = w.dlc, !.fd = (29 \in w.ctrl), !.brs = (30 \in w.ctrl),
                         !.rtr = (4 \in w.ctrl), !.ext = (29 \in w.top),
                         !.id = w.id % 2^(IF 29 \in w.top THEN 29 ELSE 11)]
      n == PayloadLen(f)
  IN IF w.size < 40 THEN << >>
     ELSE <<[f EXCEPT !.bytes = IF 48 + n <= w.size THEN AtMost(w.bytes, n) ELSE 0]>>
-----------------------------------------------------------------------------
(* hardware_slcan.hpp: send() and parse_slcan(), for the lines it sends.    *)

SendSlcan(f) ==
  LET n == AtMost(PayloadLen(f), 8) IN
  [type |-> IF f.ext THEN "T" ELSE "t", id |-> IF f.ext THEN f.id ELSE f.id % 2^11,
   digit |-> n, bytes |-> AtMost(f.bytes, n)]

ParseSlcan(w) == <<Received(w.id, w.type = "T", w.digit, FALSE, AtMost(w.bytes, w.digit))>>
-----------------------------------------------------------------------------
(* hardware_sock.hpp: send() and recv_many(), on a socket that takes FD     *)
(* frames and on one that does not.                                         *)

CanId(f) == [id |-> f.id, top |-> Flag(f.ext, 31) \cup Flag(f.rtr, 30)]

SendSocket(f, fd_enabled) ==
  LET n == IF f.fd /\ fd_enabled THEN PayloadLen(f) ELSE AtMost(f.dlc, 8) IN
  [canfd |-> f.fd /\ fd_enabled, can_id |-> CanId(f), len |-> n,
   flags |-> Flag(f.fd /\ fd_enabled /\ f.brs, 0), bytes |-> AtMost(f.bytes, n)]

RecvSocket(w) ==
  <<[Blank EXCEPT !.id = w.can_id.id % 2^29, !.ext = (31 \in w.can_id.top),
                  !.rtr = (30 \in w.can_id.top), !.error = (29 \in w.can_id.top),
                  !.fd = w.canfd,
                  !.brs = (w.canfd /\ 0 \in w.flags),
                  !.dlc = IF w.canfd THEN LenToDlc(w.len) ELSE w.len,
                  !.bytes = AtMost(w.bytes, w.len)]>>
-----------------------------------------------------------------------------
(* hardware_vector_xlapi.hpp and hardware_kvaser_canlib.hpp.                *)

SendXl(f) == [id |-> f.id, top |-> Flag(f.ext, 31), dlc |-> f.dlc, flags |-> Flag(f.rtr, 4),
              bytes |-> AtMost(f.bytes, AtMost(f.dlc, 8))]

RecvXl(w) ==
  LET ext == 31 \in w.top
      dlc == w.dlc % 16
  IN IF {0, 6} \cap w.flags # {} THEN << >>
     ELSE <<Received(w.id % 2^(IF ext THEN 29 ELSE 11), ext, dlc, 4 \in w.flags,
                     AtMost(w.bytes, AtMost(dlc, 8)))>>

\* The length is passed for the dlc, and nothing says that a frame is FD.
SendCanlib(f) == [id |-> f.id, dlc |-> PayloadLen(f), bytes |-> AtMost(f.bytes, PayloadLen(f)),
                  flags |-> Flag(f.rtr, 0) \cup Flag(~f.ext, 1) \cup Flag(f.ext, 2)]

RecvCanlib(w) ==
  LET f == [Blank EXCEPT !.id = w.id, !.ext = (2 \in w.flags), !.rtr = (0 \in w.flags),
                         !.error = (5 \in w.flags),
                         !.dlc = w.dlc, !.fd = (16 \in w.flags), !.brs = (17 \in w.flags)]
  IN <<[f EXCEPT !.bytes = AtMost(w.bytes, PayloadLen(f))]>>

\* hardware_mock.hpp: the echo gives back the frame.
SendEcho(f) == f
-----------------------------------------------------------------------------
(* logger.hpp, app_state.hpp: CSV.                                          *)

CsvColumns(f, channel) ==
  [channel |-> channel, tx |-> f.tx, id |-> f.id, ext |-> f.ext, rtr |-> f.rtr, dlc |-> f.dlc,
   fd |-> f.fd, brs |-> f.brs,
   digits |-> PayloadLen(f), bytes |-> AtMost(f.bytes, PayloadLen(f))]

\* log_csv(), export_to_file()
LogCsv(f) == CsvColumns(f, <<f.src>>)

\* start_export(), to a file of an extension it does not know: no column for the
\* channel.  To a CSV file it copies the log as it is.
ExportCsv(f) == CsvColumns(f, << >>)

\* parse_csv_line(): getline() finds nothing where the data should be when there
\* is none, and the line is not a frame.
ParseCsv(w) ==
  LET f == [Blank EXCEPT !.tx = w.tx, !.id = w.id, !.ext = w.ext, !.rtr = w.rtr,
                         !.dlc = w.dlc, !.fd = w.fd, !.brs = w.brs,
                         !.src = IF w.channel = << >> THEN 255 ELSE w.channel[1] % 256]
  IN IF w.digits = 0 THEN << >>
     ELSE <<[f EXCEPT !.bytes = AtMost(w.bytes, PayloadLen(f))]>>

\* ASC: the time is padded with spaces to five places before the point.
AscWords(f, channel, isLate) ==
  [padded |-> ~isLate, channel |-> channel,
   id |-> f.id, x |-> f.ext, tx |-> f.tx, mark |-> IF f.fd THEN "fd" ELSE "d",
   len |-> PayloadLen(f), bytes |-> AtMost(f.bytes, PayloadLen(f)),
   last |-> IF f.fd /\ f.brs THEN "BRS" ELSE ""]

\* log_asc(), export_to_file()
LogAsc(f, isLate) == AscWords(f, IF f.src = 255 THEN 1 ELSE f.src + 1, isLate)

\* start_export(): every frame is one of channel 1.
ExportAsc(f, isLate) == AscWords(f, 1, isLate)

\* parse_asc_line(): a line begins with a digit.
ParseAsc(w) ==
  LET n == AtMost(w.len, 8)
  IN IF w.padded THEN << >>
     ELSE <<[Blank EXCEPT !.tx = w.tx, !.src = IF w.channel > 0 THEN (w.channel - 1) % 256 ELSE 255,
                          !.id = w.id, !.ext = w.x, !.dlc = n, !.bytes = AtMost(w.bytes, n)]>>
-----------------------------------------------------------------------------
Write(tid) ==
  CASE format = "leaf" -> SendLeaf(frame)
    [] format = "hydra" -> SendHydra(frame, entity, tid)
    [] format = "hydra_ext" -> SendHydraExt(frame, entity, tid)
    [] format = "vector" -> SendVector(frame)
    [] format = "slcan" -> SendSlcan(frame)
    [] format = "socket" -> SendSocket(frame, FALSE)
    [] format = "socket_fd" -> SendSocket(frame, TRUE)
    [] format = "xl" -> SendXl(frame)
    [] format = "canlib" -> SendCanlib(frame)
    [] format = "echo" -> SendEcho(frame)
    [] format = "csv" -> LogCsv(frame)
    [] format = "csv_without_channel" -> ExportCsv(frame)
    [] format = "asc" -> LogAsc(frame, late)
    [] format = "asc_one_channel" -> ExportAsc(frame, late)

Read ==
  CASE format = "leaf" -> ParseLeaf(wire)
    [] format = "hydra" -> ParseRxLog([wire EXCEPT !.head = FromCard(@)], entity)
    [] format = "hydra_ext" -> ParseRxFd(HydraReports(wire), entity)
    [] format = "vector" -> ParseRxEvent(VectorReports(wire))
    [] format = "slcan" -> ParseSlcan(wire)
    [] format \in {"socket", "socket_fd"} -> RecvSocket(wire)
    [] format = "xl" -> RecvXl(wire)
    [] format = "canlib" -> RecvCanlib(wire)
    [] format = "echo" -> <<wire>>
    [] format \in CsvFormats -> ParseCsv(wire)
    [] format \in AscFormats -> ParseAsc(wire)

\* Frames as the transmitter panel lets one make them: an identifier too long for
\* a standard frame, or for any, or a dlc above 8 in a frame that is not FD any
\* more.  The flag brs comes from received frames only, and so with fd; a remote
\* frame is never an FD frame and comes without data; error frames are neither
\* sent nor logged.
Frames ==
  {f \in [id : Ids, ext : BOOLEAN, rtr : BOOLEAN, error : BOOLEAN, fd : BOOLEAN, brs : BOOLEAN,
          dlc : 0..15, bytes : {0, 1, 8, 12, 64}, src : {0, 1, 255}, tx : BOOLEAN] :
     /\ ~f.error
     /\ f.brs => f.fd
     /\ f.rtr => ~f.fd /\ f.bytes = 0
     /\ f.bytes <= PayloadLen(f)}

\* What a card, the kernel or a library makes of an identifier with more bits than
\* a frame of its kind has, which most drivers pass on as it is, or canWrite() of
\* more than eight bytes, is not in this code.
Passes(k, f) ==
  /\ k \in {"hydra", "hydra_ext", "socket", "socket_fd", "canlib"} => f.ext \/ f.id < 2^11
  /\ k \in BusFormats \ {"leaf", "echo"} => f.id < 2^29
  /\ k = "canlib" => PayloadLen(f) <= 8
  /\ k \in BusFormats => f.src = 255 /\ ~f.tx

Init ==
  /\ format \in BusFormats \cup LogFormats /\ frame \in {f \in Frames : Passes(format, f)}
  /\ late \in (IF format \in AscFormats THEN BOOLEAN ELSE {FALSE})
  /\ entity \in (IF format \in {"hydra", "hydra_ext"} THEN Entities ELSE {0})
  /\ at = "new" /\ wire = << >> /\ got = << >>

WriteFrame == /\ at = "new" /\ at' = "written"
              /\ \E tid \in (IF format \in {"hydra", "hydra_ext"} THEN {1, 255} ELSE {1}) :
                   wire' = Write(tid)
              /\ UNCHANGED <<format, frame, late, entity, got>>

ReadFrame == /\ at = "written" /\ at' = "read"
             /\ got' = Read
             /\ UNCHANGED <<format, frame, late, entity, wire>>

Next == WriteFrame \/ ReadFrame

Spec == Init /\ [][Next]_vars
-----------------------------------------------------------------------------
(* What each format keeps, by the fields of a frame.                        *)

\* A classic frame with at most n bytes: fd and brs are lost.
Classic(f, n) == [f EXCEPT !.fd = FALSE, !.brs = FALSE, !.bytes = AtMost(@, n)]

ShortId(f) == [f EXCEPT !.id = @ % 2^(IF f.ext THEN 29 ELSE 11)]

\* A line of an ASC file has no place for fd, brs and rtr.
InAsc(f, src) == [Classic(f, 8) EXCEPT !.rtr = FALSE, !.dlc = AtMost(PayloadLen(f), 8),
                                       !.src = src]

Kept ==
  CASE format \in {"leaf", "xl"} -> <<ShortId(Classic(frame, AtMost(frame.dlc, 8)))>>
    [] format \in {"hydra", "hydra_ext"} -> <<Classic(frame, AtMost(frame.dlc, 8))>>
    [] format = "vector" -> <<ShortId(frame)>>
    [] format = "slcan" ->
         <<[ShortId(Classic(frame, 8)) EXCEPT !.rtr = FALSE, !.dlc = AtMost(PayloadLen(frame), 8)]>>
    [] format = "socket" -> <<[Classic(frame, AtMost(frame.dlc, 8)) EXCEPT !.dlc = AtMost(@, 8)]>>
    [] format = "socket_fd" -> <<[frame EXCEPT !.dlc = IF frame.fd THEN @ ELSE AtMost(@, 8)]>>
    [] format = "canlib" -> <<[Classic(frame, 8) EXCEPT !.dlc = PayloadLen(frame)]>>
    [] format \in {"echo", "csv"} -> <<frame>>
    [] format = "csv_without_channel" -> <<[frame EXCEPT !.src = 255]>>
    [] format = "asc" -> <<InAsc(frame, IF frame.src = 255 THEN 0 ELSE frame.src)>>
    [] format = "asc_one_channel" -> <<InAsc(frame, 0)>>

\* The parser passes over the line: a frame without data in CSV, any frame of the
\* first 10 000 seconds in ASC.
PassedOver == \/ format \in CsvFormats /\ PayloadLen(frame) = 0
              \/ format \in AscFormats /\ ~late

\* A frame that went through a format comes back with everything that format has
\* room for, and nothing in it has turned into something else: the identifier, the
\* kind of frame, the length, the data and the channel are those that were written,
\* except for what Kept says the format has no room for (the FD kind on a Kvaser or
\* slcan adapter, the channel in a file that "Export Log..." made).  It says nothing of
\* lines that are passed over: LogsReadBack does
\* (hardware_*.hpp send() and recv_many(), logger.hpp:171-306, app_state.hpp:405-433).
RoundTrip == at = "read" /\ ~PassedOver => got = Kept

\* A frame written to a log is found in it when the log is opened again: the dialogs
\* of "Replay Log..." and of the import offer the files that "Export Log..." and the
\* logger write, "CSV" and "Vector ASC" (gui_main.cpp:290, 305, 353).
LogsReadBack == at = "read" /\ format \in LogFormats => got # << >>
===============================================================================
