------------------------------ MODULE SessionLog ------------------------------
(***************************************************************************)
(* The session log and its export.  The GUI thread appends a line for      *)
(* every frame it polls; the stream keeps some of them in memory, and what *)
(* it has handed to the file may end in the middle of a line.  An export   *)
(* flushes the log once, and then a thread of its own copies the file, or  *)
(* parses it and writes another format, while the GUI goes on logging,     *)
(* starts new logs and disconnects.                                        *)
(*                                                                         *)
(* A line is the number of the frame it is about, 0 a line of which only a *)
(* part was read.  A frame without data has a line that parse_csv_line()    *)
(* takes for none.  Files are named for the second they are begun in.      *)
(***************************************************************************)
EXTENDS Integers, SequencesExt

CONSTANTS MaxSecond,   \* bound: seconds
          MaxLines,    \* bound: frames logged
          MaxExports,  \* bound: exports asked for
          Bare,        \* frames that have no data
          Null

ASSUME SessionLogConstants ==
  /\ {MaxSecond, MaxLines, MaxExports} \subseteq Nat
  /\ Null \notin Nat

VARIABLES
  second,      \* the wall clock
  last,        \* the last frame logged
  disk, cut,   \* whole lines of each file; the files that end within a line
  path,        \* session_log_path
  recording,   \* logger.recording_
  file,        \* the file ofs_ has open
  unwritten,   \* lines in its buffer, the first of them partly written if cut
  count,       \* frame_count_
  gui,         \* where the GUI thread is
  exporting, msg, stop,
  at,          \* where the export thread is
  job,         \* what it was started with
  read,        \* lines it has read, up to position pos of the source
  pos,
  out,         \* the exported file
  renewed,     \* the source was begun again since the export began
  exports, crashed

logVars == <<second, last, disk, cut, path, recording, file, unwritten, count>>
exportVars == <<exporting, msg, stop, at, job, read, pos, out, renewed, exports, crashed>>
vars == <<logVars, gui, exportVars>>

Seconds == 0..MaxSecond
Lines == Seq(0..MaxLines)
Ways == {"copied", "parsed"}
NoJob == [src |-> Null, way |-> "copied", asked |-> << >>, count |-> 0, said |-> Null]

Init == /\ second = 0 /\ last = 0
        /\ disk = [s \in Seconds |-> << >>] /\ cut = {}
        /\ path = Null /\ recording = FALSE /\ file = Null
        /\ unwritten = << >> /\ count = 0
        /\ gui = "frame"
        /\ exporting = FALSE /\ msg = "" /\ stop = FALSE
        /\ at = "none" /\ job = NoJob /\ read = << >> /\ pos = 0
        /\ out = << >> /\ renewed = FALSE
        /\ exports = 0 /\ crashed = FALSE

Working == at \notin {"none", "done"}

GuiFree == gui = "frame" /\ ~crashed
-----------------------------------------------------------------------------
(* The GUI thread: logging.                                                 *)

Tick == /\ second < MaxSecond /\ second' = second + 1
        /\ UNCHANGED <<last, disk, cut, path, recording, file, unwritten, count, gui, exportVars>>

\* What the files hold once the log is closed or flushed.
Flushed == IF recording THEN [disk EXCEPT ![file] = @ \o unwritten] ELSE disk

\* logger.stop() and auto_start_session_log(): the first connection, and New
\* Log while recording.  The directory cannot be made, or the file cannot be
\* opened, or a file of that second is truncated.
NoDirectory ==
  /\ recording' = FALSE /\ file' = Null /\ disk' = Flushed /\ cut' = {}
  /\ unwritten' = << >>
  /\ UNCHANGED <<path, count, renewed>>

NotOpenedUnchecked ==
  /\ path' = second
  /\ recording' = TRUE /\ file' = Null /\ disk' = Flushed /\ cut' = {}
  /\ unwritten' = << >>
  /\ UNCHANGED <<count, renewed>>

NotOpened ==
  /\ path' = second
  /\ recording' = FALSE /\ file' = Null /\ disk' = Flushed /\ cut' = {}
  /\ unwritten' = << >>
  /\ UNCHANGED <<count, renewed>>

Opened ==
  /\ path' = second
  /\ recording' = TRUE /\ file' = second
  /\ disk' = [Flushed EXCEPT ![second] = << >>] /\ cut' = {}
  /\ unwritten' = << >> /\ count' = 0
  /\ renewed' = (renewed \/ job.src = second)

StartLog ==
  /\ GuiFree
  /\ NoDirectory \/ NotOpened \/ Opened
  /\ UNCHANGED <<second, last, gui, exporting, msg, stop, at, job, read, pos, out, exports, crashed>>

\* disconnect(): logger.stop().
StopLog ==
  /\ GuiFree /\ recording
  /\ NoDirectory
  /\ UNCHANGED <<second, last, gui, exporting, msg, stop, at, job, read, pos, out, exports, crashed>>

\* log() for a polled frame.  The stream may hand any part of what it holds to
\* the file.
Log ==
  /\ GuiFree /\ recording /\ last < MaxLines
  /\ last' = last + 1 /\ count' = count + 1
  /\ LET held == Append(unwritten, last + 1) IN
     \E n \in 0..Len(held) :
        /\ disk' = [disk EXCEPT ![file] = @ \o SubSeq(held, 1, n)]
        /\ unwritten' = SubSeq(held, n + 1, Len(held))
        /\ cut' \in {{}, {file}}
        /\ n = Len(held) => cut' = {}
        /\ n = 0 /\ cut = {file} => cut' = {file}
  /\ UNCHANGED <<second, path, recording, file, gui, exportVars>>
-----------------------------------------------------------------------------
(* The GUI thread: exporting.                                               *)

\* The user has picked a file; what is in it depends on its extension.
NoSession ==
  /\ ~recording \/ path = Null
  /\ msg' = "none"
  /\ UNCHANGED <<logVars, gui, exporting, stop, at, job, read, pos, out, renewed, crashed>>

Begin(way, asked) ==
  /\ exporting' = TRUE /\ msg' = ""
  /\ at' = "read" /\ read' = << >> /\ pos' = 0 /\ out' = << >> /\ renewed' = FALSE
  /\ job' = [src |-> path, way |-> way, asked |-> asked, count |-> count,
             said |-> Null]
  /\ UNCHANGED <<second, last, path, recording, file, count, gui, stop, crashed>>

SessionUnflushed(way) ==
  /\ recording /\ path # Null
  /\ Begin(way, Flushed[path])
  /\ UNCHANGED <<disk, cut, unwritten>>

Session(way) ==
  /\ recording /\ path # Null
  /\ disk' = Flushed /\ cut' = {} /\ unwritten' = << >>
  /\ Begin(way, disk'[path])

StartExport(way) ==
  /\ GuiFree /\ ~exporting
  /\ exports < MaxExports /\ exports' = exports + 1
  /\ Session(way) \/ NoSession

\* The main loop: the flag is read, and then the message, and it is cleared.
LookForMessage ==
  /\ GuiFree /\ ~exporting /\ msg # ""
  /\ gui' = "message"
  /\ UNCHANGED <<logVars, exportVars>>

TakeMessage ==
  /\ gui = "message" /\ ~crashed
  /\ gui' = "frame" /\ msg' = ""
  /\ UNCHANGED <<logVars, exporting, stop, at, job, read, pos, out, renewed, exports, crashed>>

\* Quitting: the export thread is asked to stop and joined, then the log closed.
Quit ==
  /\ GuiFree
  /\ gui' = "joining" /\ stop' = TRUE
  /\ UNCHANGED <<logVars, exporting, msg, at, job, read, pos, out, renewed, exports, crashed>>

Exit ==
  /\ gui = "joining" /\ ~Working /\ ~crashed
  /\ gui' = "exited"
  /\ NoDirectory
  /\ UNCHANGED <<second, last, exporting, msg, stop, at, job, read, pos, out, exports, crashed>>
-----------------------------------------------------------------------------
(* The export thread.                                                       *)

Source == disk[job.src]

\* Lines that are read as frames; a copy has them all.
Survives(n) == job.way = "parsed" => n \notin Bare

\* A part of a line is copied as it is.  Parsed, it may be dropped, taken for a
\* line, or throw: nothing on the thread catches that, and the program ends.
ReadPart ==
  \/ read' = Append(read, 0) /\ UNCHANGED crashed
  \/ job.way = "parsed" /\ UNCHANGED <<read, crashed>>
  \/ job.way = "parsed" /\ crashed' = TRUE /\ UNCHANGED read

\* In a file that was begun again the position need not be where a line begins.
ReadLine ==
  /\ at = "read" /\ ~crashed /\ pos < Len(Source)
  /\ pos' = pos + 1
  /\ \/ /\ read' = IF Survives(Source[pos + 1]) THEN Append(read, Source[pos + 1]) ELSE read
        /\ UNCHANGED crashed
     \/ renewed /\ ReadPart
  /\ UNCHANGED <<logVars, gui, exporting, msg, stop, at, job, out, renewed, exports>>

\* The end of the file, which may be within a line.  A copy may also end at the
\* size the file had when it began.
EndOfFile ==
  /\ at = "read" /\ ~crashed
  /\ pos >= Len(Source) \/ (job.way = "copied" /\ pos >= Len(job.asked))
  /\ \/ (job.src \in cut \/ pos < Len(Source)) /\ ReadPart
     \/ (job.src \notin cut \/ pos < Len(Source)) /\ UNCHANGED <<read, crashed>>
  /\ at' = "open"
  /\ UNCHANGED <<logVars, gui, exporting, msg, stop, job, pos, out, renewed, exports>>

Say(frames) == msg' = "exported" /\ job' = [job EXCEPT !.said = frames]

\* The file cannot be opened, or copying it fails.
ExportFails ==
  /\ at = "open" /\ ~crashed
  /\ msg' = "failed" /\ at' = "flag"
  /\ UNCHANGED <<logVars, gui, exporting, stop, job, read, pos, out, renewed, exports, crashed>>

CopyFile ==
  /\ at = "open" /\ ~crashed /\ job.way = "copied"
  /\ out' = read
  /\ Say(job.count) /\ at' = "flag"
  /\ UNCHANGED <<logVars, gui, exporting, stop, read, pos, renewed, exports, crashed>>

\* The loop over the frames looks at the stop token before each.
WriteFrames ==
  /\ at = "open" /\ ~crashed /\ job.way = "parsed"
  /\ at' = "write"
  /\ UNCHANGED <<logVars, gui, exporting, msg, stop, job, read, pos, out, renewed, exports, crashed>>

WriteFrame ==
  /\ at = "write" /\ ~crashed /\ Len(out) < Len(read) /\ ~stop
  /\ out' = Append(out, read[Len(out) + 1])
  /\ UNCHANGED <<logVars, gui, exporting, msg, stop, at, job, read, pos, renewed, exports, crashed>>

WrittenFlagFirst ==
  /\ at = "write" /\ ~crashed
  /\ Len(out) = Len(read) \/ stop
  /\ exporting' = FALSE /\ at' = "flag"
  /\ UNCHANGED <<logVars, gui, msg, stop, job, read, pos, out, renewed, exports, crashed>>

Written ==
  /\ at = "write" /\ ~crashed
  /\ Len(out) = Len(read) \/ stop
  /\ Say(Len(read)) /\ at' = "flag"
  /\ UNCHANGED <<logVars, gui, exporting, stop, read, pos, out, renewed, exports, crashed>>

\* exporting.store(false), and the thread returns.
ExportEnds ==
  /\ at = "flag" /\ ~crashed
  /\ exporting' = FALSE /\ at' = "done"
  /\ UNCHANGED <<logVars, gui, msg, stop, job, read, pos, out, renewed, exports, crashed>>
-----------------------------------------------------------------------------
Next ==
  \/ Tick \/ StartLog \/ StopLog \/ Log
  \/ \E way \in Ways : StartExport(way)
  \/ LookForMessage \/ TakeMessage \/ Quit \/ Exit
  \/ ReadLine \/ EndOfFile \/ ExportFails \/ CopyFile
  \/ WriteFrames \/ WriteFrame \/ Written \/ ExportEnds

Spec == Init /\ [][Next]_vars
-----------------------------------------------------------------------------
TypeOK ==
  /\ second \in Seconds /\ last \in 0..MaxLines
  /\ disk \in [Seconds -> Lines] /\ cut \subseteq {file}
  /\ path \in Seconds \cup {Null} /\ file \in Seconds \cup {Null}
  /\ recording \in BOOLEAN /\ recording = (file # Null)
  /\ unwritten \in Lines /\ count \in 0..MaxLines
  /\ gui \in {"frame", "message", "joining", "exited"}
  /\ exporting \in BOOLEAN /\ stop \in BOOLEAN /\ crashed \in BOOLEAN /\ renewed \in BOOLEAN
  /\ msg \in {"", "none", "failed", "exported"}
  /\ at \in {"none", "read", "open", "write", "flag", "done"}
  /\ job.src \in Seconds \cup {Null} /\ job.way \in Ways
  /\ read \in Lines /\ out \in Lines /\ pos \in Nat /\ exports \in 0..MaxExports

\* A finished export holds every line that had been logged when it was asked for,
\* in order, whatever is logged meanwhile, those of frames without data excepted
\* when it is parsed.  What else it holds are later lines of the log, without a
\* gap, and one line cut short at the very end, and it reports no more than it
\* holds.  Only lines logged meanwhile can make parsing throw.  (Unless the source
\* is begun again within its second, or the program quits.)
ExportComplete ==
  ~renewed =>
    /\ job.said # Null /\ ~stop =>
         /\ \A n \in ToSet(job.asked) : Survives(n) => n \in ToSet(out)
         /\ \A n \in ToSet(out) \ {0} :
              /\ n \in ToSet(Flushed[job.src])
              /\ \A m \in ToSet(Flushed[job.src]) : m < n /\ Survives(m) => m \in ToSet(out)
         /\ \A i, k \in DOMAIN out : i < k => out[i] # 0 /\ (out[k] # 0 => out[i] < out[k])
         /\ job.said <= Len(out)
    /\ crashed => Len(Flushed[job.src]) > Len(job.asked)

\* The message of an export is one thread's at a time: while the GUI reads and
\* clears it, no export is on its way to write it, and a second export begins only
\* after the first has told its result.
MessageHandedOver ==
  /\ gui = "message" => ~Working /\ msg # ""
  /\ Working => exporting
==============================================================================
