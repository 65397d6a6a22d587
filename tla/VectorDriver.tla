---------------------------- MODULE VectorDriver ----------------------------
(***************************************************************************)
(* hardware_vector.hpp: a Vector VN16xx on its USB protocol.               *)
(*                                                                         *)
(* The receive endpoint is a stream of events, cut into transfers without  *)
(* regard to them.  A unit is a word of four bytes: sizes are multiples of *)
(* four (478) and so are transfers, and the header that recv_many() looks  *)
(* at, size and tag, is the first word.  An event whose end has not come   *)
(* is kept in rx_partial_ and completed by the next transfer.              *)
(***************************************************************************)
EXTENDS DriverSteps

Find ==
  << Takes("ctx", {}), Must("find", {"ctx"}), Takes("dev", {"ctx"}),
     May("reset"), May("set_configuration"), Takes("iface", {"dev", "ctx"}), May("flush") >>

All == {"iface", "dev", "ctx"}

\* run_init_sequence() up to the transceivers: the firmware is loaded into the
\* device at every open, and again the FPGA.  One transfer of the events that come
\* while it starts is read and dropped; others are left.
Firmware ==
  << Must("get_bootcode_info", All), Must("download_main", All),
     Tried(10, Must("get_firmware_info", All)), Must("download_fpga", All),
     Must("get_firmware_info", All), Must("set_rx_evt_transfer_mode", All),
     May("get_transceiver_info"), DropsWhole(Tried(10, May("fpga_wait"))) >>

\* The rest of it.
Channel ==
  << Must("start_firmware_op", All), May("read_core_frequency"), May("read_canxl_caps") >>
  \o [ch \in 1..5 |-> May("read_default_config")]
  \o << Must("set_output_mode", All), Must("set_chip_param", All),
        Must("set_transceiver_mode", All), PutsOn(Must("activate_channel", All)) >>

OpenSteps == Find \o Firmware \o Channel

\* A frame is an event of three words, anything else (receipts, errors, timers)
\* one of two.
Units(n) == Message(n, 3)
Other == Message(0, 2)

\* parse_rx_event(): the frame of an event that is whole.
FrameOf(event) ==
  IF \E j \in DOMAIN event : event[j].n # event[1].n \/ event[j].i # j THEN <<Torn>>
  ELSE IF event[1].n > 0 THEN <<event[1].n>> ELSE << >>

\* The loop over the events of a transfer.  A word that is no header ends it, and
\* the rest of the transfer is dropped.
Events(words) ==
  LET whole(p) == p + words[p].len - 1 <= Len(words)
      from[p \in 1..(Len(words) + 1)] ==
        IF p > Len(words) \/ words[p].i # 1 THEN [frames |-> << >>, part |-> << >>]
        ELSE IF ~whole(p) THEN [frames |-> << >>, part |-> SubSeq(words, p, Len(words))]
        ELSE LET rest == from[p + words[p].len]
             IN [frames |-> FrameOf(SubSeq(words, p, p + words[p].len - 1)) \o rest.frames,
                 part |-> rest.part]
  IN from[1]

RecvUncompleted(part, words) == Events(words)

RecvWaitsForMore(part, words) ==
  IF part = << >> THEN Events(words)
  ELSE LET need == part[1].len - Len(part) IN
       IF Len(words) <= need THEN [frames |-> << >>, part |-> part \o words]
       ELSE LET rest == Events(SubSeq(words, need + 1, Len(words)))
            IN [frames |-> FrameOf(part \o SubSeq(words, 1, need)) \o rest.frames,
                part |-> rest.part]

\* recv_many(): part is rx_partial_, its first word says how much is expected.
Recv(part, words) ==
  IF part = << >> THEN Events(words)
  ELSE LET need == part[1].len - Len(part) IN
       IF Len(words) < need THEN [frames |-> << >>, part |-> part \o words]
       ELSE LET rest == Events(SubSeq(words, need + 1, Len(words)))
            IN [frames |-> FrameOf(part \o SubSeq(words, 1, need)) \o rest.frames,
                part |-> rest.part]
=============================================================================
