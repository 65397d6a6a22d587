---------------------------- MODULE SessionLogProofs ----------------------------
(***************************************************************************)
(* For any number of frames, logs and exports: what had been logged when   *)
(* an export was asked for is in it, whatever happens to the log while the *)
(* file is read, and the export's message belongs to one thread at a time. *)
(*                                                                         *)
(* An export reads a file that grows under it.  The proof follows from two *)
(* facts: the lines of a file are in the order of the frames, those still  *)
(* in the stream after those on disk; and unless a log is begun again, a   *)
(* file only gets longer.                                                  *)
(***************************************************************************)
EXTENDS SessionLog, SequenceTheorems, TLAPS

Job == [src : Seconds \cup {Null}, way : Ways, asked : Lines,
        count : 0..MaxLines, said : Nat \cup {Null}]

\* TypeOK in two halves, one for the log and one for the export.
LogTypes ==
  /\ second \in Seconds /\ last \in 0..MaxLines
  /\ disk \in [Seconds -> Lines] /\ cut \subseteq {file}
  /\ path \in Seconds \cup {Null} /\ file \in Seconds \cup {Null}
  /\ recording \in BOOLEAN /\ recording = (file # Null)
  /\ unwritten \in Lines /\ count \in 0..MaxLines

ExportTypes ==
  /\ gui \in {"frame", "message", "joining", "exited"}
  /\ exporting \in BOOLEAN /\ stop \in BOOLEAN /\ crashed \in BOOLEAN /\ renewed \in BOOLEAN
  /\ msg \in {"", "none", "failed", "exported"}
  /\ at \in {"none", "read", "open", "write", "flag", "done"}
  /\ job \in Job
  /\ read \in Lines /\ out \in Lines /\ pos \in Nat /\ exports \in 0..MaxExports

Types == LogTypes /\ ExportTypes

\* The lines of a log follow each other, as far as frame up.
InOrder(s, up) ==
  /\ \A i \in 1..Len(s) : s[i] >= 1 /\ s[i] <= up
  /\ \A i, j \in 1..Len(s) : i < j => s[i] < s[j]

LogInv ==
  /\ count <= last
  /\ recording => path = file /\ count = Len(Flushed[file])
  /\ ~recording => unwritten = << >>
  /\ cut # {} => recording /\ unwritten # << >>
  /\ \A s \in Seconds : InOrder(Flushed[s], last)

\* t is s and perhaps more.
Extends(t, s) == Len(s) <= Len(t) /\ \A i \in 1..Len(s) : t[i] = s[i]

\* What the export has read: of the lines up to pos, all that survive, in order,
\* and behind them perhaps a part of one.
ReadInv ==
  /\ pos <= Len(Source)
  /\ Extends(Source, job.asked)
  /\ \A i \in 1..pos : Survives(Source[i]) => \E k \in 1..Len(read) : read[k] = Source[i]
  /\ \A k \in 1..Len(read) : read[k] # 0 => \E i \in 1..pos : read[k] = Source[i]
  /\ \A i, k \in 1..Len(read) : i < k => read[i] # 0 /\ (read[k] # 0 => read[i] < read[k])
  /\ at = "read" => \A k \in 1..Len(read) : read[k] # 0
  /\ at # "read" => pos >= Len(job.asked)
  /\ job.way = "copied" => pos <= Len(read)
  /\ crashed => Len(Flushed[job.src]) > Len(job.asked)

\* What it has written is a part of what it has read, and all of it when it has
\* told its result.
OutInv ==
  /\ at = "none" <=> job.src = Null
  /\ at = "none" => ~crashed
  /\ job.said # Null => at \in {"flag", "done"}
  /\ at \in {"read", "open"} => out = << >>
  /\ at = "write" => Extends(read, out)
  /\ job.said # Null /\ ~stop => out = read
  /\ job.count = Len(job.asked)
  /\ job.said \in {Null, Len(read), job.count}
  /\ job.said = Null \/ job.way = "copied" \/ job.said = Len(read)

ExportInv == OutInv /\ (~renewed /\ job.src # Null => ReadInv)

IInv == Types /\ LogInv /\ ExportInv /\ MessageHandedOver
-----------------------------------------------------------------------------
(* Files.                                                                   *)

Line == 0..MaxLines

LEMMA LinesDef == Lines = Seq(Line) /\ 0 \in Line /\ \A n \in Line : n \in Nat
  BY SessionLogConstants DEF Lines, Line

LEMMA TypesImply == Types => TypeOK
  BY DEF Types, LogTypes, ExportTypes, TypeOK, Job

LEMMA Constants == /\ MaxSecond \in Nat /\ MaxLines \in Nat /\ MaxExports \in Nat
                   /\ Null \notin Nat /\ Null \notin Seconds
                   /\ << >> \in Lines /\ 0 \in 0..MaxLines
                   /\ \A n \in 0..MaxLines : n \in Nat
  BY SessionLogConstants, EmptySeq DEF Seconds, Lines

\* The files d once the stream's lines u are added to the one it has open.
Whole(d, rec, f, u) == IF rec THEN [d EXCEPT ![f] = @ \o u] ELSE d

\* What w, the files d with u added to the one that is open, looks like.
FileFacts(d, w, rec, f, u) ==
  /\ w \in [Seconds -> Lines]
  /\ \A s \in Seconds :
       /\ w[s] = IF rec /\ s = f THEN d[s] \o u ELSE d[s]
       /\ Len(w[s]) = IF rec /\ s = f THEN Len(d[s]) + Len(u) ELSE Len(d[s])
       /\ Len(d[s]) \in Nat /\ Len(u) \in Nat /\ Len(w[s]) \in Nat
       /\ Extends(w[s], d[s]) /\ (u = << >> => w[s] = d[s])

LEMMA WholeFacts ==
  ASSUME NEW d \in [Seconds -> Lines], NEW rec \in BOOLEAN, NEW f, rec => f \in Seconds,
         NEW u \in Lines
  PROVE  FileFacts(d, Whole(d, rec, f, u), rec, f, u)
  <1>1. Whole(d, rec, f, u) \in [Seconds -> Lines]
    <2>1. CASE rec
      <3>1. d[f] \o u \in Seq(Line)
        BY <2>1, LinesDef, ConcatProperties
      <3>2. QED
        BY <2>1, <3>1, LinesDef DEF Whole
    <2>2. CASE ~rec
      BY <2>2 DEF Whole
    <2>3. QED
      BY <2>1, <2>2
  <1>2. ASSUME NEW s \in Seconds
        PROVE  LET w == Whole(d, rec, f, u)
               IN /\ w[s] = IF rec /\ s = f THEN d[s] \o u ELSE d[s]
                  /\ Len(w[s]) = IF rec /\ s = f THEN Len(d[s]) + Len(u) ELSE Len(d[s])
                  /\ Len(d[s]) \in Nat /\ Len(u) \in Nat /\ Len(w[s]) \in Nat
                  /\ Extends(w[s], d[s]) /\ (u = << >> => w[s] = d[s])
    <2>1. d[s] \in Seq(Line) /\ u \in Seq(Line)
      BY LinesDef
    <2>2. /\ d[s] \o u \in Seq(Line) /\ Len(d[s] \o u) = Len(d[s]) + Len(u)
          /\ \A i \in 1..Len(d[s]) : (d[s] \o u)[i] = d[s][i]
          /\ Len(d[s]) \in Nat /\ Len(u) \in Nat
      BY <2>1, ConcatProperties
    <2>3. u = << >> => d[s] \o u = d[s]
      BY <2>1, ConcatEmptySeq
    <2>4. Whole(d, rec, f, u)[s] = IF rec /\ s = f THEN d[s] \o u ELSE d[s]
      BY DEF Whole
    <2>5. QED
      BY <2>1, <2>2, <2>3, <2>4 DEF Extends
  <1>3. QED
    BY <1>1, <1>2 DEF FileFacts

\* A file on disk, and what it will be once what the stream holds is written.
LEMMA FlushedFacts ==
  ASSUME Types
  PROVE  FileFacts(disk, Flushed, recording, file, unwritten)
  <1>1. /\ disk \in [Seconds -> Lines] /\ unwritten \in Lines /\ recording \in BOOLEAN
        /\ recording => file \in Seconds
    BY DEF Types, LogTypes
  <1>2. Flushed = Whole(disk, recording, file, unwritten)
    BY DEF Flushed, Whole
  <1>3. QED
    BY <1>1, <1>2, WholeFacts

LEMMA FlushedFactsNext ==
  ASSUME Types'
  PROVE  FileFacts(disk', Flushed', recording', file', unwritten')
  <1>1. /\ disk' \in [Seconds -> Lines] /\ unwritten' \in Lines /\ recording' \in BOOLEAN
        /\ recording' => file' \in Seconds
    BY DEF Types, LogTypes
  <1>2. Flushed' = Whole(disk', recording', file', unwritten')
    BY DEF Flushed, Whole
  <1>3. QED
    BY <1>1, <1>2, WholeFacts
-----------------------------------------------------------------------------
(* Types.                                                                   *)

\* Logs that end and begin (app_state.hpp:529-550, logger.hpp:34-57).
LEMMA LogType ==
  ASSUME Types, LogInv, StartLog \/ StopLog \/ Exit
  PROVE  Types'
  <1>1. Flushed \in [Seconds -> Lines] /\ << >> \in Lines /\ second \in Seconds
    <2>1. Flushed \in [Seconds -> Lines]
      BY FlushedFacts DEF FileFacts
    <2>2. QED
      BY <2>1, Constants DEF Types, LogTypes, ExportTypes
  <1>2. /\ UNCHANGED <<second, last, exporting, msg, stop, at, job, read, pos, out, exports, crashed>>
        /\ gui' \in {gui, "exited"}
        /\ NoDirectory \/ NotOpened \/ Opened
    BY DEF StartLog, StopLog, Exit
  <1>3. CASE NoDirectory \/ NotOpened
    <2>1. /\ disk' = Flushed /\ cut' = {} /\ unwritten' = << >> /\ file' = Null
          /\ path' \in Seconds \cup {Null} /\ count' = count /\ renewed' = renewed
          /\ recording' \in BOOLEAN /\ recording' = (file' # Null)
      BY <1>1, <1>3 DEF NoDirectory, NotOpened, Types, LogTypes, ExportTypes
    <2>2. LogTypes'
      BY <1>1, <1>2, <2>1 DEF Types, LogTypes
    <2>3. ExportTypes'
      BY <1>2, <2>1 DEF Types, ExportTypes
    <2>4. QED
      BY <2>2, <2>3 DEF Types
  <1>4. CASE Opened
    <2>1. disk' \in [Seconds -> Lines]
      <3>1. [Flushed EXCEPT ![second] = << >>] \in [Seconds -> Lines]
        BY <1>1
      <3>2. QED
        BY <1>4, <3>1 DEF Opened
    <2>2. count' \in 0..MaxLines
      BY <1>4, Constants DEF Opened
    <2>3. recording' = (file' # Null) /\ recording' \in BOOLEAN
      BY <1>1, <1>4, Constants DEF Opened
    <2>4. renewed' \in BOOLEAN
      BY <1>4 DEF Opened, Types, LogTypes, ExportTypes
    <2>5. QED
      BY <1>1, <1>2, <1>4, <2>1, <2>2, <2>3, <2>4 DEF Opened, Types, LogTypes, ExportTypes
  <1>5. QED
    BY <1>2, <1>3, <1>4

\* What logging a frame makes of the log.
LEMMA LogFacts ==
  ASSUME Types, LogInv, Log
  PROVE  /\ file \in Seconds /\ recording
         /\ disk' \in [Seconds -> Lines] /\ unwritten' \in Lines
         /\ \A s \in Seconds \ {file} : disk'[s] = disk[s]
         /\ disk'[file] \o unwritten' = Append(disk[file] \o unwritten, last + 1)
         /\ Extends(disk'[file], disk[file])
         /\ cut' \subseteq {file} /\ (cut' # {} => unwritten' # << >>)
         /\ last + 1 \in 1..MaxLines
  <1>1. /\ file \in Seconds /\ recording /\ unwritten \in Lines /\ disk[file] \in Lines
        /\ disk \in [Seconds -> Lines] /\ last \in Nat /\ last + 1 \in 1..MaxLines
    <2>1. last \in 0..MaxLines /\ last < MaxLines
      BY DEF Log, Types, LogTypes, ExportTypes
    <2>2. last \in Nat /\ last + 1 \in 1..MaxLines
      BY <2>1, Constants
    <2>3. QED
      BY <2>2 DEF Log, Types, LogTypes, ExportTypes
  <1> DEFINE d == disk[file]
             h == Append(unwritten, last + 1)
  <1>2. PICK n \in 0..Len(h) :
          /\ disk' = [disk EXCEPT ![file] = d \o SubSeq(h, 1, n)]
          /\ unwritten' = SubSeq(h, n + 1, Len(h))
          /\ cut' \in {{}, {file}}
          /\ n = Len(h) => cut' = {}
    BY DEF Log
  <1>3. d \in Seq(Line) /\ unwritten \in Seq(Line) /\ last + 1 \in Line
    BY <1>1, LinesDef, Constants DEF Line
  <1>4. /\ h \in Seq(Line) /\ Len(h) = Len(unwritten) + 1 /\ Len(unwritten) \in Nat
        /\ d \o h = Append(d \o unwritten, last + 1)
    <2>1. \A p, q \in Seq(Line), x \in Line : p \o Append(q, x) = Append(p \o q, x)
      OBVIOUS
    <2>2. h \in Seq(Line) /\ Len(h) = Len(unwritten) + 1 /\ Len(unwritten) \in Nat
      BY <1>3, AppendProperties
    <2>3. d \o Append(unwritten, last + 1) = Append(d \o unwritten, last + 1)
      BY <1>3, <2>1
    <2>4. QED
      BY <2>2, <2>3
  <1> DEFINE a == SubSeq(h, 1, n)
             b == SubSeq(h, n + 1, Len(h))
             front == d \o a
  <1> HIDE DEF h, d
  <1>5. a \in Seq(Line) /\ Len(a) = n /\ b \in Seq(Line) /\ Len(b) = Len(h) - n
    <2>1. \A i \in 1..Len(h) : h[i] \in Line
      BY <1>4
    <2>2. n \in Int /\ Len(h) \in Int /\ n >= 0 /\ n <= Len(h)
      BY <1>4
    <2>3. a \in Seq(Line) /\ Len(a) = n
      BY <2>1, <2>2, SubSeqProperties
    <2>4. b \in Seq(Line) /\ Len(b) = Len(h) - n
      BY <2>1, <2>2, SubSeqProperties
    <2>5. QED
      BY <2>3, <2>4
  <1>6. /\ front \in Lines /\ unwritten' \in Lines
        /\ front \o unwritten' = Append(d \o unwritten, last + 1)
        /\ Extends(front, d) /\ Len(unwritten') = Len(unwritten) + 1 - n
        /\ disk' = [disk EXCEPT ![file] = front]
    <2>1. a \o b = h
      <3>1. 1 \in 1..(Len(h) + 1) /\ n \in (1 - 1)..Len(h) /\ Len(h) \in n..Len(h)
        BY <1>4
      <3>2. a \o b = SubSeq(h, 1, Len(h))
        BY <1>4, <3>1, ConcatAdjacentSubSeq
      <3>3. QED
        BY <1>4, <3>2, SubSeqFull
    <2>2. unwritten' = b /\ disk' = [disk EXCEPT ![file] = front]
      BY <1>2
    <2> HIDE DEF a, b
    <2>3. (d \o a) \o b = d \o (a \o b)
      BY <1>3, <1>5
    <2>4. front \in Lines /\ Extends(front, d)
      BY <1>3, <1>5, ConcatProperties, LinesDef DEF Extends
    <2>5. front \o b = Append(d \o unwritten, last + 1)
      BY <1>4, <2>1, <2>3
    <2> HIDE DEF front
    <2>6. QED
      BY <1>4, <1>5, <2>2, <2>4, <2>5, LinesDef
  <1> HIDE DEF a, b, front
  <1>7. cut' # {} => unwritten' # << >>
    <2>1. cut' # {} => n < Len(unwritten) + 1
      BY <1>2, <1>4
    <2>2. cut' # {} => Len(unwritten') > 0
      BY <1>2, <1>4, <1>6, <2>1
    <2>3. QED
      BY <1>6, <2>2, LinesDef
  <1>8. QED
    BY <1>1, <1>2, <1>6, <1>7 DEF d

LEMMA LogFrameType == ASSUME Types, LogInv, Log PROVE Types'
  <1>1. last' \in 0..MaxLines /\ count' \in 0..MaxLines
    <2>1. /\ last' = last + 1 /\ count' = count + 1 /\ last + 1 \in 1..MaxLines
          /\ count <= last /\ count \in 0..MaxLines /\ last \in 0..MaxLines
      BY LogFacts DEF Log, LogInv, Types, LogTypes, ExportTypes
    <2>2. QED
      BY <2>1, Constants
  <1>2. /\ disk' \in [Seconds -> Lines] /\ unwritten' \in Lines /\ cut' \subseteq {file}
        /\ UNCHANGED <<second, path, recording, file, gui, exportVars>>
    BY LogFacts DEF Log
  <1>3. LogTypes'
    BY <1>1, <1>2 DEF Types, LogTypes
  <1>4. ExportTypes'
    BY <1>2 DEF exportVars, Types, ExportTypes
  <1>5. QED
    BY <1>3, <1>4 DEF Types

LEMMA GuiType ==
  ASSUME Types, LogInv,
         Tick \/ LookForMessage \/ TakeMessage \/ Quit \/ \E way \in Ways : StartExport(way)
  PROVE  Types'
  <1>1. CASE Tick
    <2>1. second' \in Seconds
      <3>1. second' = second + 1 /\ second < MaxSecond /\ second \in Seconds
        BY <1>1 DEF Tick, Types, LogTypes, ExportTypes
      <3>2. QED
        BY <3>1, Constants DEF Seconds
    <2>2. /\ UNCHANGED <<last, disk, cut, path, recording, file, unwritten, count, gui, exportVars>>
      BY <1>1 DEF Tick
    <2>3. LogTypes'
      BY <2>1, <2>2 DEF Types, LogTypes
    <2>4. ExportTypes'
      BY <2>2 DEF exportVars, Types, ExportTypes
    <2>5. QED
      BY <2>3, <2>4 DEF Types
  <1>2. CASE LookForMessage
    BY <1>2 DEF LookForMessage, logVars, exportVars, Types, LogTypes, ExportTypes
  <1>3. CASE TakeMessage
    BY <1>3 DEF TakeMessage, logVars, Types, LogTypes, ExportTypes
  <1>4. CASE Quit
    BY <1>4 DEF Quit, logVars, Types, LogTypes, ExportTypes
  <1>5. ASSUME NEW way \in Ways, StartExport(way)
        PROVE  Types'
    <2>1. exports' \in 0..MaxExports
      <3>1. exports' = exports + 1 /\ exports < MaxExports /\ exports \in 0..MaxExports
        BY <1>5 DEF StartExport, Types, LogTypes, ExportTypes
      <3>2. QED
        BY <3>1, Constants
    <2>2. CASE NoSession
      BY <2>1, <2>2 DEF NoSession, logVars, Types, LogTypes, ExportTypes
    <2>3. CASE Session(way)
      <3>1. path \in Seconds /\ Flushed \in [Seconds -> Lines]
        <4>1. path \in Seconds
          BY <2>3 DEF Session, Types, LogTypes, ExportTypes
        <4>2. QED
          BY <4>1, FlushedFacts DEF FileFacts
      <3>2. /\ disk' = Flushed /\ cut' = {} /\ unwritten' = << >> /\ Begin(way, Flushed[path])
        BY <2>3 DEF Session
      <3>3. << >> \in Lines /\ Flushed[path] \in Lines
        BY <3>1, LinesDef
      <3>4. job' \in Job
        BY <3>1, <3>2, <3>3 DEF Begin, Job, Types, LogTypes, ExportTypes
      <3>5. job'.src \in Seconds \cup {Null} /\ job'.way \in Ways
        BY <3>4 DEF Job
      <3>6. QED
        BY <2>1, <3>1, <3>2, <3>3, <3>4, <3>5 DEF Begin, Types, LogTypes, ExportTypes
    <2>4. QED
      BY <1>5, <2>2, <2>3 DEF StartExport
  <1>6. QED
    BY <1>1, <1>2, <1>3, <1>4, <1>5

\* The export thread (app_state.hpp:374-443).
LEMMA ReadLineType == ASSUME Types, OutInv, ReadLine PROVE Types'
  <1>1. pos \in Nat /\ pos < Len(Source) /\ pos' = pos + 1 /\ read \in Lines /\ job.src \in Seconds
    BY DEF ReadLine, OutInv, Types, ExportTypes, Job
  <1>2. read' \in Lines
    <2>1. CASE ReadPart
      BY <1>1, <2>1, Constants, AppendProperties, LinesDef DEF ReadPart
    <2>2. CASE read' = IF Survives(Source[pos + 1]) THEN Append(read, Source[pos + 1]) ELSE read
      <3>1. Source \in Lines
        BY <1>1 DEF Source, Types, LogTypes
      <3>2. pos + 1 \in 1..Len(Source)
        BY <1>1, <3>1, LinesDef
      <3>3. Source[pos + 1] \in Line
        BY <3>1, <3>2, ElementOfSeq, LinesDef
      <3>4. QED
        BY <1>1, <2>2, <3>3, AppendProperties, LinesDef
    <2>3. QED
      BY <2>1, <2>2 DEF ReadLine
  <1>3. /\ crashed' \in BOOLEAN
        /\ UNCHANGED <<logVars, gui, exporting, msg, stop, at, job, out, renewed, exports>>
    BY DEF ReadLine, ReadPart, Types, ExportTypes
  <1>4. LogTypes'
    BY <1>3 DEF logVars, Types, LogTypes
  <1>5. ExportTypes'
    <2>1. pos' \in Nat
      BY <1>1
    <2>2. QED
      BY <1>2, <1>3, <2>1 DEF Types, ExportTypes
  <1>6. QED
    BY <1>4, <1>5 DEF Types

LEMMA EndOfFileType == ASSUME Types, EndOfFile PROVE Types'
  <1>1. /\ at' = "open" /\ crashed' \in BOOLEAN
        /\ read' = read \/ read' = Append(read, 0)
        /\ UNCHANGED <<logVars, gui, exporting, msg, stop, job, pos, out, renewed, exports>>
    <2>1. (ReadPart \/ UNCHANGED <<read, crashed>>)
      BY DEF EndOfFile
    <2>2. QED
      BY <2>1 DEF EndOfFile, ReadPart, Types, ExportTypes
  <1>2. read' \in Lines
    <2>1. read \in Seq(Line) /\ 0 \in Line
      BY Constants, LinesDef DEF Types, ExportTypes
    <2>2. QED
      BY <1>1, <2>1, AppendProperties, LinesDef
  <1>3. LogTypes'
    BY <1>1 DEF logVars, Types, LogTypes
  <1>4. ExportTypes'
    BY <1>1, <1>2 DEF Types, ExportTypes
  <1>5. QED
    BY <1>3, <1>4 DEF Types

\* The file it writes.
LEMMA WriterType ==
  ASSUME Types,
         ExportFails \/ CopyFile \/ WriteFrames \/ WriteFrame \/ Written \/ ExportEnds
  PROVE  Types'
  <1>1. UNCHANGED <<logVars, gui, stop, read, pos, renewed, exports, crashed>>
    BY DEF ExportFails, CopyFile, WriteFrames, WriteFrame, Written, ExportEnds
  <1>2. LogTypes'
    BY <1>1 DEF logVars, Types, LogTypes
  <1>3. at' \in {"none", "read", "open", "write", "flag", "done"} /\ exporting' \in BOOLEAN
        /\ msg' \in {"", "none", "failed", "exported"}
    BY DEF ExportFails, CopyFile, WriteFrames, WriteFrame, Written, ExportEnds, Say,
           Types, ExportTypes
  <1>4. out' \in Lines
    <2>1. CASE WriteFrame
      <3>1. read \in Lines /\ out \in Lines /\ Len(out) < Len(read)
        BY <2>1 DEF WriteFrame, Types, ExportTypes
      <3>2. Len(out) + 1 \in 1..Len(read)
        BY <3>1, LinesDef
      <3>3. read[Len(out) + 1] \in Line
        BY <3>1, <3>2, ElementOfSeq, LinesDef
      <3>4. QED
        BY <2>1, <3>1, <3>3, AppendProperties, LinesDef DEF WriteFrame
    <2>2. CASE ~WriteFrame
      BY <2>2 DEF ExportFails, CopyFile, WriteFrames, Written, ExportEnds, Types, ExportTypes
    <2>3. QED
      BY <2>1, <2>2
  <1>5. job' \in Job
    <2>1. ASSUME NEW n \in Nat, Say(n)
          PROVE  job' \in Job
      BY <2>1 DEF Say, Job, Types, ExportTypes
    <2>2. Len(read) \in Nat /\ job.count \in Nat
      <3>1. read \in Seq(Line) /\ job.count \in 0..MaxLines
        BY LinesDef DEF Types, ExportTypes, Job
      <3>2. QED
        BY <3>1, Constants, LenProperties
    <2>3. QED
      BY <2>1, <2>2 DEF ExportFails, CopyFile, WriteFrames, WriteFrame, Written, ExportEnds,
         Types, ExportTypes
  <1>6. ExportTypes'
    BY <1>1, <1>3, <1>4, <1>5 DEF Types, ExportTypes
  <1>7. QED
    BY <1>2, <1>6 DEF Types

LEMMA TypeStep == ASSUME Types, LogInv, OutInv, [Next]_vars PROVE Types'
  <1>1. CASE UNCHANGED vars
    <2>1. LogTypes'
      BY <1>1 DEF vars, logVars, Types, LogTypes
    <2>2. ExportTypes'
      BY <1>1 DEF vars, exportVars, Types, ExportTypes
    <2>3. QED
      BY <2>1, <2>2 DEF Types
  <1>2. QED
    BY <1>1, LogType, LogFrameType, GuiType, ReadLineType, EndOfFileType, WriterType DEF Next
-----------------------------------------------------------------------------
(* The log.                                                                 *)

\* The lines of the file of second s, on disk and in all, are added to at most.
Grown(s) == Extends(disk'[s], disk[s]) /\ Extends(Flushed'[s], Flushed[s])

LEMMA ExtendsSelf == ASSUME NEW t \in Lines PROVE Extends(t, t) /\ Len(t) \in Nat
  BY LinesDef, LenProperties DEF Extends

\* A step that logs nothing and opens no file.
LEMMA Settled ==
  ASSUME Types, Types', LogInv,
         \A s \in Seconds : Flushed'[s] = Flushed[s] /\ Extends(disk'[s], disk[s]),
         last' = last,
         recording' => path' = file' /\ recording /\ file' = file /\ count' = count,
         ~recording' => unwritten' = << >>,
         cut' # {} => recording' /\ unwritten' # << >>,
         count' = count
  PROVE  LogInv' /\ \A s \in Seconds : Grown(s)
  <1>1. \A s \in Seconds : Flushed[s] \in Lines /\ Flushed'[s] \in Lines
    BY FlushedFacts, FlushedFactsNext DEF FileFacts
  <1>2. recording' => file \in Seconds /\ file' = file
    BY DEF Types, LogTypes
  <1>3. LogInv'
    BY <1>2 DEF LogInv
  <1>4. QED
    BY <1>1, <1>3, ExtendsSelf DEF Grown

LEMMA LogUnchanged ==
  ASSUME Types, Types', LogInv,
         UNCHANGED <<last, disk, cut, path, recording, file, unwritten, count>>
  PROVE  LogInv' /\ \A s \in Seconds : Grown(s)
  <1>1. Flushed' = Flushed
    BY DEF Flushed
  <1>2. \A s \in Seconds : disk[s] \in Lines /\ disk'[s] = disk[s]
    BY DEF Types, LogTypes
  <1>3. \A s \in Seconds : Extends(disk'[s], disk[s])
    BY <1>2, ExtendsSelf
  <1>4. QED
    BY <1>1, <1>3, Settled DEF LogInv

\* The stream is flushed, because of an export or for good.
LEMMA LogFlushed ==
  ASSUME Types, Types', LogInv,
         disk' = Flushed, cut' = {}, unwritten' = << >>, UNCHANGED <<last, count>>,
         recording' => UNCHANGED <<path, recording, file>>
  PROVE  LogInv' /\ \A s \in Seconds : Grown(s)
  <1>1. \A s \in Seconds : Flushed'[s] = Flushed[s]
    BY FlushedFactsNext DEF FileFacts
  <1>2. \A s \in Seconds : Extends(disk'[s], disk[s])
    BY FlushedFacts DEF FileFacts
  <1>3. QED
    BY <1>1, <1>2, Settled DEF LogInv

LEMMA LogOpened ==
  ASSUME Types, Types', LogInv, StartLog, Opened
  PROVE  LogInv' /\ \A s \in Seconds \ {second} : Grown(s)
  <1>1. /\ last' = last /\ path' = second /\ recording' /\ file' = second
        /\ cut' = {} /\ unwritten' = << >> /\ count' = 0 /\ second \in Seconds
    BY DEF StartLog, Opened, Types, LogTypes
  <1>2. \A s \in Seconds : disk'[s] = IF s = second THEN << >> ELSE Flushed[s]
    BY FlushedFacts DEF Opened, FileFacts
  <1>3. \A s \in Seconds : Flushed'[s] = IF s = second THEN << >> ELSE Flushed[s]
    BY <1>1, <1>2, FlushedFactsNext DEF FileFacts
  <1>4. \A s \in Seconds : Flushed[s] \in Lines /\ Extends(Flushed[s], disk[s])
    BY FlushedFacts DEF FileFacts
  <1>5. \A s \in Seconds : InOrder(Flushed'[s], last')
    BY <1>1, <1>3 DEF InOrder, LogInv
  <1>6. count' <= last' /\ Len(Flushed'[second]) = 0
    BY <1>1, <1>3, Constants DEF Types, LogTypes
  <1>7. LogInv'
    BY <1>1, <1>5, <1>6 DEF LogInv
  <1>8. \A s \in Seconds \ {second} : Grown(s)
    BY <1>2, <1>3, <1>4, ExtendsSelf DEF Grown
  <1>9. QED
    BY <1>7, <1>8

LEMMA LogAppended ==
  ASSUME Types, Types', LogInv, Log
  PROVE  LogInv' /\ \A s \in Seconds : Grown(s)
  <1>1. /\ last' = last + 1 /\ count' = count + 1 /\ last \in Nat /\ count \in Nat
        /\ UNCHANGED <<path, recording, file>> /\ recording /\ file \in Seconds
    BY LogFacts, Constants DEF Log, Types, LogTypes
  <1>2. /\ \A s \in Seconds \ {file} : Flushed'[s] = Flushed[s] /\ disk'[s] = disk[s]
        /\ Flushed'[file] = Append(Flushed[file], last + 1)
    BY <1>1, LogFacts, FlushedFacts, FlushedFactsNext DEF FileFacts
  <1>3. \A s \in Seconds : Flushed[s] \in Seq(Line) /\ disk[s] \in Seq(Line)
    BY FlushedFacts, LinesDef DEF FileFacts, Types, LogTypes
  <1>4. /\ Len(Flushed'[file]) = Len(Flushed[file]) + 1 /\ Len(Flushed[file]) \in Nat
        /\ \A i \in 1..Len(Flushed[file]) : Flushed'[file][i] = Flushed[file][i]
        /\ Flushed'[file][Len(Flushed[file]) + 1] = last + 1
    <2>1. last + 1 \in Line
      BY LogFacts DEF Line
    <2>2. QED
      BY <1>1, <1>2, <1>3, <2>1, AppendProperties
  <1>5. \A s \in Seconds : InOrder(Flushed'[s], last')
    <2>1. ASSUME NEW s \in Seconds \ {file}
          PROVE  InOrder(Flushed'[s], last')
      <3>1. \A i \in 1..Len(Flushed[s]) : Flushed[s][i] \in Nat
        BY <1>3, ElementOfSeq, LinesDef
      <3>2. QED
        BY <1>1, <1>2, <3>1 DEF InOrder, LogInv
    <2>2. InOrder(Flushed'[file], last')
      <3>1. \A i \in 1..Len(Flushed[file]) : Flushed[file][i] \in Nat
        BY <1>1, <1>3, ElementOfSeq, LinesDef
      <3>2. InOrder(Flushed[file], last)
        BY <1>1 DEF LogInv
      <3>3. ASSUME NEW i \in 1..(Len(Flushed[file]) + 1)
            PROVE  /\ i \in 1..Len(Flushed[file]) => /\ Flushed'[file][i] = Flushed[file][i]
                                                     /\ Flushed'[file][i] \in 1..last
                   /\ i \notin 1..Len(Flushed[file]) => /\ i = Len(Flushed[file]) + 1
                                                        /\ Flushed'[file][i] = last + 1
        BY <1>1, <1>4, <3>1, <3>2 DEF InOrder
      <3>4. ASSUME NEW i \in 1..(Len(Flushed[file]) + 1), NEW j \in 1..(Len(Flushed[file]) + 1),
                   i < j
            PROVE  Flushed'[file][i] < Flushed'[file][j]
        <4>1. i \in 1..Len(Flushed[file])
          BY <1>4, <3>4
        <4>2. CASE j \in 1..Len(Flushed[file])
          <5>1. Flushed[file][i] < Flushed[file][j]
            BY <3>2, <3>4, <4>1, <4>2 DEF InOrder
          <5>2. QED
            BY <3>3, <4>1, <4>2, <5>1
        <4>3. CASE j \notin 1..Len(Flushed[file])
          BY <1>1, <3>3, <4>1, <4>3
        <4>4. QED
          BY <4>2, <4>3
      <3>5. \A i \in 1..(Len(Flushed[file]) + 1) :
              Flushed'[file][i] >= 1 /\ Flushed'[file][i] <= last'
        BY <1>1, <3>3
      <3>6. QED
        BY <1>4, <3>4, <3>5 DEF InOrder
    <2>3. QED
      BY <2>1, <2>2
  <1>6. cut' # {} => unwritten' # << >>
    BY LogFacts
  <1>7. LogInv'
    BY <1>1, <1>4, <1>5, <1>6 DEF LogInv
  <1>8. Grown(file)
    BY <1>4, LogFacts DEF Grown, Extends
  <1>9. \A s \in Seconds \ {file} : Grown(s)
    BY <1>2, <1>3, ExtendsSelf, LinesDef DEF Grown
  <1>10. QED
    BY <1>7, <1>8, <1>9

\* The log stays in order, and its files only grow, but for one that is begun
\* again.
LEMMA LogStep ==
  ASSUME Types, Types', LogInv, [Next]_vars
  PROVE  LogInv' /\ \A s \in Seconds : Grown(s) \/ (Opened /\ StartLog /\ s = second)
  <1>1. CASE UNCHANGED <<last, disk, cut, path, recording, file, unwritten, count>>
    BY <1>1, LogUnchanged
  <1>2. CASE StartLog \/ StopLog \/ Exit
    <2>1. CASE Opened /\ StartLog
      BY <2>1, LogOpened
    <2>2. CASE NoDirectory \/ NotOpened
      BY <1>2, <2>2, LogFlushed DEF StartLog, StopLog, Exit, NoDirectory, NotOpened
    <2>3. QED
      BY <1>2, <2>1, <2>2 DEF StartLog, StopLog, Exit
  <1>3. CASE Log
    BY <1>3, LogAppended
  <1>4. ASSUME NEW way \in Ways, StartExport(way)
        PROVE  LogInv' /\ \A s \in Seconds : Grown(s)
    <2>1. CASE NoSession
      BY <2>1, LogUnchanged DEF NoSession, logVars
    <2>2. CASE Session(way)
      BY <2>2, LogFlushed DEF Session, Begin
    <2>3. QED
      BY <1>4, <2>1, <2>2 DEF StartExport
  <1>5. CASE \/ UNCHANGED vars \/ Tick \/ LookForMessage \/ TakeMessage \/ Quit
             \/ ReadLine \/ EndOfFile \/ ExportFails \/ CopyFile
             \/ WriteFrames \/ WriteFrame \/ Written \/ ExportEnds
    <2>1. UNCHANGED <<last, disk, cut, path, recording, file, unwritten, count>>
      BY <1>5 DEF vars, logVars, Tick, LookForMessage, TakeMessage, Quit, ReadLine, EndOfFile,
         ExportFails, CopyFile, WriteFrames, WriteFrame, Written, ExportEnds
    <2>2. QED
      BY <1>1, <2>1
  <1>6. QED
    BY <1>2, <1>3, <1>4, <1>5 DEF Next
-----------------------------------------------------------------------------
(* The export.                                                              *)

\* A step that leaves the export thread where it is, while the log grows.
LEMMA ExportWaits ==
  ASSUME Types, Types', ExportInv,
         UNCHANGED <<at, job, read, pos, out, crashed>>,
         stop => stop', renewed => renewed',
         ~renewed' /\ job.src # Null => Grown(job.src)
  PROVE  ExportInv'
  <1>1. OutInv'
    BY DEF OutInv, ExportInv
  <1>2. ASSUME ~renewed', job.src # Null
        PROVE  ReadInv'
    <2>1. ReadInv /\ Grown(job.src) /\ job.src \in Seconds /\ ~renewed
      BY <1>2 DEF ExportInv, Types, ExportTypes, Job
    <2>2. /\ Source = disk[job.src] /\ Source' = disk'[job.src]
          /\ Source \in Seq(Line) /\ Source' \in Seq(Line)
          /\ Flushed[job.src] \in Seq(Line) /\ Flushed'[job.src] \in Seq(Line)
          /\ job.asked \in Seq(Line)
      BY <2>1, FlushedFacts, FlushedFactsNext, LinesDef
         DEF Source, FileFacts, Types, LogTypes, ExportTypes, Job
    <2>3. /\ Len(Source) \in Nat /\ Len(Source') \in Nat /\ Len(job.asked) \in Nat
          /\ Len(Flushed[job.src]) \in Nat /\ Len(Flushed'[job.src]) \in Nat
      BY <2>2, LenProperties
    <2>4. /\ Len(Source) <= Len(Source') /\ \A i \in 1..Len(Source) : Source'[i] = Source[i]
          /\ Len(Flushed[job.src]) <= Len(Flushed'[job.src])
      BY <2>1, <2>2 DEF Grown, Extends
    <2>5. pos \in Nat /\ pos <= Len(Source) /\ pos <= Len(Source')
      <3>1. pos \in Nat /\ pos <= Len(Source)
        BY <2>1 DEF ReadInv, Types, ExportTypes
      <3>2. QED
        BY <2>3, <2>4, <3>1
    <2>6. \A i \in 1..pos : Source'[i] = Source[i] /\ (Survives(Source[i]))' = Survives(Source[i])
      BY <2>3, <2>4, <2>5 DEF Survives
    <2>7. Extends(Source', job.asked)
      BY <2>1, <2>3, <2>4 DEF Extends, ReadInv
    <2>8. crashed' => Len(Flushed'[job.src]) > Len(job.asked)
      BY <2>1, <2>3, <2>4 DEF ReadInv
    <2>9. \A i \in 1..pos : (Survives(Source[i]))' => \E k \in 1..Len(read) : read[k] = Source'[i]
      BY <2>1, <2>6 DEF ReadInv
    <2>10. \A k \in 1..Len(read) : read[k] # 0 => \E i \in 1..pos : read[k] = Source'[i]
      BY <2>1, <2>6 DEF ReadInv
    <2>11. QED
      BY <2>1, <2>5, <2>7, <2>8, <2>9, <2>10 DEF ReadInv
  <1>3. QED
    BY <1>1, <1>2 DEF ExportInv

LEMMA ExportBegun ==
  ASSUME Types, Types', LogInv, NEW way \in Ways, Session(way), ~crashed
  PROVE  ExportInv'
  <1>1. /\ recording /\ path = file /\ file \in Seconds /\ path # Null
        /\ disk' = Flushed /\ Begin(way, Flushed[path])
        /\ Flushed[path] \in Seq(Line) /\ count = Len(Flushed[path])
    BY FlushedFacts, LinesDef DEF Session, FileFacts, LogInv, Types, LogTypes
  <1>2. /\ job' = [src |-> path, way |-> way, asked |-> Flushed[path], count |-> count,
                   said |-> Null]
        /\ at' = "read" /\ read' = << >> /\ pos' = 0 /\ out' = << >> /\ crashed' = crashed
    BY <1>1 DEF Begin
  <1>3. /\ job'.src = path /\ job'.way = way /\ job'.asked = Flushed[path]
        /\ job'.count = count /\ job'.said = Null
    BY <1>2
  <1>4. OutInv'
    <2>1. Len(read') = 0
      BY <1>2
    <2>2. QED
      BY <1>1, <1>2, <1>3 DEF OutInv
  <1>5. ReadInv'
    <2>1. Source' = job'.asked /\ Source' \in Seq(Line) /\ Len(Source') \in Nat
      <3>1. Source' = Flushed[path]
        BY <1>1, <1>3 DEF Source
      <3>2. QED
        BY <1>1, <1>3, <3>1, LenProperties
    <2>2. Extends(Source', job'.asked)
      BY <2>1 DEF Extends
    <2>3. Len(read') = 0 /\ pos' = 0 /\ at' = "read" /\ ~crashed'
      BY <1>2
    <2>4. QED
      BY <2>1, <2>2, <2>3 DEF ReadInv
  <1>6. QED
    BY <1>4, <1>5 DEF ExportInv
\* The part of the source that is on disk is in the order of the frames.
LEMMA SourceFacts ==
  ASSUME Types, LogInv, OutInv, at # "none"
  PROVE  /\ job.src \in Seconds /\ Source = disk[job.src] /\ Source \in Seq(Line)
         /\ Flushed[job.src] \in Seq(Line)
         /\ Len(Source) \in Nat /\ Len(Flushed[job.src]) \in Nat
         /\ Extends(Flushed[job.src], Source) /\ InOrder(Flushed[job.src], last)
         /\ InOrder(Source, last) /\ last \in Nat
         /\ read \in Seq(Line) /\ Len(read) \in Nat /\ pos \in Nat
         /\ job.asked \in Seq(Line) /\ Len(job.asked) \in Nat
         /\ (job.src \in cut => Len(Flushed[job.src]) > Len(Source))
  <1>1. job.src \in Seconds /\ Source = disk[job.src]
    BY DEF OutInv, Types, ExportTypes, Job, Source
  <1>2. /\ Source \in Seq(Line) /\ Flushed[job.src] \in Seq(Line)
        /\ read \in Seq(Line) /\ job.asked \in Seq(Line) /\ pos \in Nat /\ last \in Nat
    BY <1>1, FlushedFacts, LinesDef, Constants DEF FileFacts, Types, LogTypes, ExportTypes, Job
  <1>3. /\ Len(Source) \in Nat /\ Len(Flushed[job.src]) \in Nat
        /\ Len(read) \in Nat /\ Len(job.asked) \in Nat
    BY <1>2, LenProperties
  <1>4. Extends(Flushed[job.src], Source)
    BY <1>1, FlushedFacts DEF FileFacts
  <1>5. InOrder(Flushed[job.src], last)
    BY <1>1 DEF LogInv
  <1>6. InOrder(Source, last)
    <2>1. \A i \in 1..Len(Source) : i \in 1..Len(Flushed[job.src])
                                    /\ Source[i] = Flushed[job.src][i]
      BY <1>3, <1>4 DEF Extends
    <2>2. QED
      BY <1>5, <2>1 DEF InOrder
  <1>7. ASSUME job.src \in cut
        PROVE  Len(Flushed[job.src]) > Len(Source)
    <2>1. recording /\ job.src = file /\ unwritten # << >> /\ unwritten \in Seq(Line)
      BY <1>7, LinesDef DEF LogInv, Types, LogTypes
    <2>2. Len(unwritten) > 0
      BY <2>1, EmptySeq, LenProperties
    <2>3. Len(Flushed[job.src]) = Len(Source) + Len(unwritten) /\ Len(unwritten) \in Nat
      BY <1>1, <2>1, FlushedFacts DEF FileFacts
    <2>4. QED
      BY <1>3, <2>2, <2>3
  <1>8. QED
    BY <1>1, <1>2, <1>3, <1>4, <1>5, <1>6, <1>7

LEMMA ReadLineOut ==
  ASSUME Types, OutInv, ReadLine \/ EndOfFile
  PROVE  OutInv'
  <1>1. /\ at = "read" /\ at' \in {"read", "open"} /\ job' = job /\ out' = out /\ stop' = stop
    BY DEF ReadLine, EndOfFile
  <1>2. job.said = Null
    BY <1>1 DEF OutInv
  <1>3. QED
    BY <1>1, <1>2 DEF OutInv

LEMMA ReadLineRead ==
  ASSUME Types, LogInv, OutInv, ReadInv, ReadLine, ~renewed
  PROVE  ReadInv'
  <1> DEFINE l == Source[pos + 1]
  <1>1. /\ at = "read" /\ at' = "read" /\ pos < Len(Source) /\ pos' = pos + 1
        /\ read' = (IF Survives(l) THEN Append(read, l) ELSE read)
        /\ crashed' = crashed /\ ~crashed /\ job' = job
        /\ Source' = Source /\ Flushed' = Flushed
    BY DEF ReadLine, Source, Flushed, logVars
  <1>2. /\ Source \in Seq(Line) /\ Len(Source) \in Nat /\ InOrder(Source, last)
        /\ read \in Seq(Line) /\ Len(read) \in Nat /\ pos \in Nat
        /\ Len(job.asked) \in Nat /\ last \in Nat
    BY <1>1, SourceFacts
  <1>3. /\ l \in Line /\ l \in Nat /\ l # 0
        /\ \A i \in 1..pos : Source[i] < l /\ Source[i] \in Nat
    <2>1. \A i \in 1..Len(Source) : Source[i] \in Line /\ Source[i] \in Nat
      BY <1>2, ElementOfSeq, LinesDef
    <2>2. pos + 1 \in 1..Len(Source) /\ \A i \in 1..pos : i \in 1..Len(Source) /\ i < pos + 1
      BY <1>1, <1>2
    <2>3. QED
      BY <1>2, <2>1, <2>2 DEF InOrder
  <1>4. \A n : (Survives(n))' = Survives(n)
    BY <1>1 DEF Survives
  <1> HIDE DEF l
  <1>5. /\ pos' <= Len(Source') /\ Extends(Source', job'.asked) /\ ~crashed' /\ at' = "read"
    BY <1>1, <1>2 DEF ReadInv
  <1>6. \A i \in 1..pos' : i \in 1..pos \/ (i = pos' /\ Source[i] = l)
    BY <1>1, <1>2 DEF l
  <1>7. \A i \in 1..pos : i \in 1..pos'
    BY <1>1, <1>2
  <1>8. CASE ~Survives(l)
    <2>1. read' = read
      BY <1>1, <1>8
    <2>2. \A i \in 1..pos' : Survives(Source[i]) => \E k \in 1..Len(read') : read'[k] = Source[i]
      BY <1>6, <1>8, <2>1 DEF ReadInv
    <2>3. \A k \in 1..Len(read') : read'[k] # 0 => \E i \in 1..pos' : read'[k] = Source[i]
      BY <1>7, <2>1 DEF ReadInv
    <2>4. job'.way # "copied"
      BY <1>1, <1>8 DEF Survives
    <2>5. QED
      BY <1>1, <1>4, <1>5, <2>1, <2>2, <2>3, <2>4 DEF ReadInv
  <1>9. CASE Survives(l)
    <2>1. /\ read' = Append(read, l) /\ Len(read') = Len(read) + 1
          /\ \A k \in 1..Len(read) : read'[k] = read[k]
          /\ read'[Len(read) + 1] = l
      BY <1>1, <1>2, <1>3, <1>9, AppendProperties
    <2>2. /\ \A k \in 1..Len(read') : k \in 1..Len(read) \/ k = Len(read) + 1
          /\ \A k \in 1..Len(read) : k \in 1..Len(read')
          /\ Len(read) + 1 \in 1..Len(read')
      BY <1>2, <2>1
    <2>3. \A i \in 1..pos' : Survives(Source[i]) => \E k \in 1..Len(read') : read'[k] = Source[i]
      BY <1>6, <2>1, <2>2 DEF ReadInv
    <2>4. pos' \in 1..pos' /\ Source[pos'] = l
      BY <1>1, <1>2 DEF l
    <2>5. \A k \in 1..Len(read') : read'[k] # 0 => \E i \in 1..pos' : read'[k] = Source[i]
      BY <1>7, <2>1, <2>2, <2>4 DEF ReadInv
    <2>6. \A k \in 1..Len(read) : read[k] # 0 /\ read[k] < l
      BY <1>1, <1>3 DEF ReadInv
    <2>7. ASSUME NEW i \in 1..Len(read'), NEW k \in 1..Len(read'), i < k
          PROVE  read'[i] # 0 /\ read'[i] < read'[k]
      <3>1. i \in 1..Len(read)
        BY <1>2, <2>1, <2>7
      <3>2. CASE k \in 1..Len(read)
        BY <2>1, <2>6, <2>7, <3>1, <3>2 DEF ReadInv
      <3>3. CASE k = Len(read) + 1
        BY <2>1, <2>6, <3>1, <3>3
      <3>4. QED
        BY <2>2, <3>2, <3>3
    <2>8. \A k \in 1..Len(read') : read'[k] # 0
      BY <1>3, <2>1, <2>2, <2>6
    <2>9. job'.way = "copied" => pos' <= Len(read')
      BY <1>1, <1>2, <2>1 DEF ReadInv
    <2>10. QED
      BY <1>1, <1>4, <1>5, <2>3, <2>5, <2>7, <2>8, <2>9 DEF ReadInv
  <1>10. QED
    BY <1>8, <1>9

LEMMA EndOfFileRead ==
  ASSUME Types, LogInv, OutInv, ReadInv, EndOfFile
  PROVE  ReadInv'
  <1>1. /\ at = "read" /\ at' = "open" /\ pos' = pos /\ ~crashed /\ job' = job
        /\ Source' = Source /\ Flushed' = Flushed
        /\ pos >= Len(Source) \/ (job.way = "copied" /\ pos >= Len(job.asked))
    BY DEF EndOfFile, Source, Flushed, logVars
  <1>2. /\ Len(Source) \in Nat /\ read \in Seq(Line) /\ Len(read) \in Nat /\ pos \in Nat
        /\ Len(job.asked) \in Nat /\ Len(Flushed[job.src]) \in Nat
        /\ job.src \in cut => Len(Flushed[job.src]) > Len(Source)
    BY <1>1, SourceFacts
  <1>3. /\ pos >= Len(job.asked) /\ pos <= Len(Source) /\ Len(job.asked) <= Len(Source)
    BY <1>1, <1>2 DEF ReadInv, Extends
  <1>4. \A n : (Survives(n))' = Survives(n)
    BY <1>1 DEF Survives
  <1>5. crashed' => Len(Flushed'[job'.src]) > Len(job'.asked)
    <2>1. ASSUME crashed'
          PROVE  job.src \in cut
      <3>1. job.way = "parsed"
        BY <1>1, <2>1 DEF EndOfFile, ReadPart
      <3>2. ~(pos < Len(Source))
        BY <1>1, <1>2, <3>1
      <3>3. QED
        BY <1>1, <2>1, <3>2 DEF EndOfFile
    <2>2. QED
      BY <1>1, <1>2, <1>3, <2>1
  <1>6. CASE read' = read
    BY <1>1, <1>3, <1>4, <1>5, <1>6 DEF ReadInv
  <1>7. CASE read' = Append(read, 0)
    <2>1. /\ Len(read') = Len(read) + 1
          /\ \A k \in 1..Len(read) : read'[k] = read[k]
          /\ read'[Len(read) + 1] = 0
      BY <1>2, <1>7, LinesDef, AppendProperties
    <2>2. /\ \A k \in 1..Len(read') : k \in 1..Len(read) \/ k = Len(read) + 1
          /\ \A k \in 1..Len(read) : k \in 1..Len(read')
      BY <1>2, <2>1
    <2>3. ASSUME NEW i \in 1..Len(read'), NEW k \in 1..Len(read'), i < k
          PROVE  read'[i] # 0 /\ (read'[k] # 0 => read'[i] < read'[k])
      <3>1. i \in 1..Len(read)
        BY <1>2, <2>1, <2>3
      <3>2. QED
        BY <1>1, <2>1, <2>2, <2>3, <3>1 DEF ReadInv
    <2>4. \A i \in 1..pos : Survives(Source[i]) => \E k \in 1..Len(read') : read'[k] = Source[i]
      BY <2>1, <2>2 DEF ReadInv
    <2>5. \A k \in 1..Len(read') : read'[k] # 0 => \E i \in 1..pos : read'[k] = Source[i]
      BY <2>1, <2>2 DEF ReadInv
    <2>6. job.way = "copied" => pos <= Len(read')
      BY <1>2, <2>1 DEF ReadInv
    <2>7. Extends(Source, job.asked) /\ pos <= Len(Source)
      BY DEF ReadInv
    <2>8. QED
      BY <1>1, <1>3, <1>4, <1>5, <2>3, <2>4, <2>5, <2>6, <2>7 DEF ReadInv
  <1>8. read' = read \/ read' = Append(read, 0)
    BY DEF EndOfFile, ReadPart
  <1>9. QED
    BY <1>6, <1>7, <1>8
LEMMA WriterOut ==
  ASSUME Types, OutInv,
         ExportFails \/ CopyFile \/ WriteFrames \/ WriteFrame \/ Written \/ ExportEnds
  PROVE  OutInv'
  <1>1. /\ read' = read /\ stop' = stop /\ crashed' = crashed /\ ~crashed
        /\ at \in {"open", "write", "flag"}
        /\ read \in Seq(Line) /\ out \in Seq(Line) /\ Len(read) \in Nat /\ Len(out) \in Nat
    <2>1. read \in Seq(Line) /\ out \in Seq(Line)
      BY LinesDef DEF Types, ExportTypes
    <2>2. QED
      BY <2>1, LenProperties
         DEF ExportFails, CopyFile, WriteFrames, WriteFrame, Written, ExportEnds
  <1>2. ASSUME NEW n, Say(n)
        PROVE  /\ job'.src = job.src /\ job'.way = job.way /\ job'.asked = job.asked
               /\ job'.count = job.count /\ job'.said = n
    BY <1>2 DEF Say, Types, ExportTypes, Job
  <1>3. CASE ExportFails \/ WriteFrames
    <2>1. /\ at = "open" /\ at' \in {"flag", "write"} /\ job' = job /\ out' = out
          /\ out = << >> /\ job.said = Null
      BY <1>3 DEF ExportFails, WriteFrames, OutInv
    <2>2. Extends(read, out)
      BY <1>1, <2>1 DEF Extends
    <2>3. QED
      BY <1>1, <2>1, <2>2 DEF OutInv
  <1>4. CASE CopyFile
    <2>1. /\ at = "open" /\ at' = "flag" /\ out' = read /\ job.way = "copied" /\ Say(job.count)
      BY <1>4 DEF CopyFile
    <2>2. QED
      BY <1>1, <1>2, <2>1 DEF OutInv
  <1>5. CASE WriteFrame
    <2>1. /\ at = "write" /\ at' = at /\ job' = job /\ Len(out) < Len(read)
          /\ out' = Append(out, read[Len(out) + 1]) /\ Extends(read, out) /\ job.said = Null
      BY <1>5 DEF WriteFrame, OutInv
    <2>2. read[Len(out) + 1] \in Line
      BY <1>1, <2>1, ElementOfSeq
    <2>3. Extends(read, out')
      BY <1>1, <2>1, <2>2, AppendProperties DEF Extends
    <2>4. QED
      BY <1>1, <2>1, <2>3 DEF OutInv
  <1>6. CASE Written
    <2>1. /\ at = "write" /\ at' = "flag" /\ out' = out /\ Say(Len(read))
          /\ Len(out) = Len(read) \/ stop
          /\ Extends(read, out)
      BY <1>6 DEF Written, OutInv
    <2>2. ~stop => out = read
      BY <1>1, <2>1, SeqEqual DEF Extends
    <2>3. QED
      BY <1>1, <1>2, <2>1, <2>2 DEF OutInv
  <1>7. CASE ExportEnds
    BY <1>7 DEF ExportEnds, OutInv
  <1>8. QED
    BY <1>3, <1>4, <1>5, <1>6, <1>7

LEMMA WriterRead ==
  ASSUME Types, ReadInv,
         ExportFails \/ CopyFile \/ WriteFrames \/ WriteFrame \/ Written \/ ExportEnds
  PROVE  ReadInv'
  <1>1. /\ read' = read /\ pos' = pos /\ crashed' = crashed /\ at # "read" /\ at' # "read"
        /\ UNCHANGED logVars
    BY DEF ExportFails, CopyFile, WriteFrames, WriteFrame, Written, ExportEnds
  <1>2. job'.src = job.src /\ job'.way = job.way /\ job'.asked = job.asked
    BY DEF ExportFails, CopyFile, WriteFrames, WriteFrame, Written, ExportEnds, Say,
       Types, ExportTypes, Job
  <1>3. Source' = Source /\ Flushed' = Flushed /\ \A n : (Survives(n))' = Survives(n)
    BY <1>1, <1>2 DEF Source, Flushed, logVars, Survives
  <1>4. QED
    BY <1>1, <1>2, <1>3 DEF ReadInv

LEMMA ExportStep ==
  ASSUME Types, Types', LogInv, ExportInv, [Next]_vars
  PROVE  ExportInv'
  <1>1. \A s \in Seconds : Grown(s) \/ (Opened /\ StartLog /\ s = second)
    BY LogStep
  <1>2. job.src # Null => job.src \in Seconds
    BY DEF Types, ExportTypes, Job
  <1>3. CASE StartLog
    <2>1. /\ UNCHANGED <<at, job, read, pos, out, crashed, stop>>
          /\ renewed => renewed'
          /\ Opened /\ job.src = second => renewed'
      <3>1. UNCHANGED <<at, job, read, pos, out, crashed, stop>>
        BY <1>3 DEF StartLog
      <3>2. CASE NoDirectory \/ NotOpened
        <4>1. renewed' = renewed /\ (Opened => recording' /\ ~recording')
          BY <3>2 DEF NoDirectory, NotOpened, Opened
        <4>2. QED
          BY <3>1, <4>1
      <3>3. CASE Opened
        <4>1. renewed' = (renewed \/ job.src = second)
          BY <3>3 DEF Opened
        <4>2. QED
          BY <3>1, <4>1
      <3>4. QED
        BY <1>3, <3>2, <3>3 DEF StartLog
    <2>2. ~renewed' /\ job.src # Null => Grown(job.src)
      BY <1>1, <1>2, <2>1
    <2>3. QED
      BY <2>1, <2>2, ExportWaits
  <1>4. CASE \/ UNCHANGED vars \/ Tick \/ StopLog \/ Log \/ LookForMessage \/ TakeMessage
             \/ Quit \/ Exit
             \/ \E way \in Ways : StartExport(way) /\ NoSession
    <2>1. /\ UNCHANGED <<at, job, read, pos, out, crashed, renewed>>
          /\ stop => stop'
      <3>1. CASE UNCHANGED vars \/ Tick \/ Log \/ LookForMessage
        <4>1. UNCHANGED exportVars
          BY <3>1 DEF vars, Tick, Log, LookForMessage
        <4>2. QED
          BY <4>1 DEF exportVars
      <3>2. CASE StopLog \/ Exit
        BY <3>2 DEF StopLog, Exit, NoDirectory
      <3>3. CASE TakeMessage \/ Quit \/ NoSession
        <4>1. UNCHANGED <<at, job, read, pos, out, crashed, renewed>>
          BY <3>3 DEF TakeMessage, Quit, NoSession
        <4>2. stop' = stop \/ stop' = TRUE
          BY <3>3 DEF TakeMessage, Quit, NoSession
        <4>3. QED
          BY <4>1, <4>2
      <3>4. QED
        BY <1>4, <3>1, <3>2, <3>3
    <2>2. job.src # Null => Grown(job.src) \/ (Opened /\ StartLog)
      BY <1>1, <1>2
    <2>3. CASE Opened /\ StartLog
      BY <1>3, <2>3
    <2>4. CASE ~(Opened /\ StartLog)
      BY <2>1, <2>2, <2>4, ExportWaits
    <2>5. QED
      BY <2>3, <2>4
  <1>5. ASSUME NEW way \in Ways, StartExport(way), Session(way)
        PROVE  ExportInv'
    BY <1>5, ExportBegun DEF StartExport, GuiFree
  <1>6. CASE ReadLine \/ EndOfFile
    <2>1. OutInv'
      BY <1>6, ReadLineOut DEF ExportInv
    <2>2. job' = job /\ renewed' = renewed
      BY <1>6 DEF ReadLine, EndOfFile
    <2>3. ASSUME ~renewed, job.src # Null
          PROVE  ReadInv'
      BY <1>6, <2>3, ReadLineRead, EndOfFileRead DEF ExportInv
    <2>4. QED
      BY <2>1, <2>2, <2>3 DEF ExportInv
  <1>7. CASE ExportFails \/ CopyFile \/ WriteFrames \/ WriteFrame \/ Written \/ ExportEnds
    <2>1. OutInv'
      BY <1>7, WriterOut DEF ExportInv
    <2>2. job'.src = job.src /\ renewed' = renewed
      BY <1>7 DEF ExportFails, CopyFile, WriteFrames, WriteFrame, Written, ExportEnds, Say,
         Types, ExportTypes, Job
    <2>3. ASSUME ~renewed, job.src # Null
          PROVE  ReadInv'
      BY <1>7, <2>3, WriterRead DEF ExportInv
    <2>4. QED
      BY <2>1, <2>2, <2>3 DEF ExportInv
  <1>8. QED
    BY <1>3, <1>4, <1>5, <1>6, <1>7 DEF Next, StartExport

\* The message: who may write it is told by the flag.
LEMMA MessageStep ==
  ASSUME Types, MessageHandedOver, [Next]_vars
  PROVE  MessageHandedOver'
  <1>1. CASE \/ UNCHANGED vars \/ Tick \/ StartLog \/ StopLog \/ Log
    BY <1>1 DEF vars, logVars, exportVars, Tick, StartLog, StopLog, Log, MessageHandedOver, Working
  <1>2. CASE LookForMessage \/ TakeMessage \/ Quit \/ Exit
    BY <1>2 DEF LookForMessage, TakeMessage, Quit, Exit, exportVars, MessageHandedOver, Working
  <1>3. ASSUME NEW way \in Ways, StartExport(way)
        PROVE  MessageHandedOver'
    BY <1>3 DEF StartExport, GuiFree, NoSession, Session, Begin, MessageHandedOver, Working
  <1>4. CASE \/ ReadLine \/ EndOfFile \/ ExportFails \/ CopyFile
             \/ WriteFrames \/ WriteFrame \/ Written \/ ExportEnds
    BY <1>4 DEF ReadLine, EndOfFile, ExportFails, CopyFile, WriteFrames, WriteFrame, Written,
       ExportEnds, Say, MessageHandedOver, Working
  <1>5. QED
    BY <1>1, <1>2, <1>3, <1>4 DEF Next
-----------------------------------------------------------------------------
(* The invariant.                                                           *)

LEMMA InvInit == Init => IInv
  <1> SUFFICES ASSUME Init PROVE IInv
    OBVIOUS
  <1>1. Types
    <2>1. LogTypes
      <3>1. disk \in [Seconds -> Lines] /\ unwritten \in Lines
        BY Constants DEF Init
      <3>2. 0 \in Seconds /\ 0 \in 0..MaxLines
        BY Constants DEF Seconds
      <3>3. QED
        BY <3>1, <3>2 DEF Init, LogTypes
    <2>2. NoJob \in Job
      BY Constants DEF NoJob, Job, Ways
    <2>3. ExportTypes
      <3>1. 0 \in Nat /\ 0 \in 0..MaxExports
        BY Constants
      <3>2. read \in Lines /\ out \in Lines /\ job \in Job
        BY <2>2, Constants DEF Init
      <3>3. QED
        BY <3>1, <3>2 DEF Init, ExportTypes
    <2>4. QED
      BY <2>1, <2>3 DEF Types
  <1>2. LogInv
    <2>1. \A s \in Seconds : Flushed[s] = << >>
      BY DEF Init, Flushed
    <2>2. QED
      <3>1. \A s \in Seconds : InOrder(Flushed[s], last)
        BY <2>1 DEF InOrder
      <3>2. QED
        <4>1. count = 0 /\ last = 0 /\ unwritten = << >> /\ cut = {}
          BY DEF Init
        <4>2. ~recording
          BY Zenon DEF Init
        <4>3. count <= last
          BY <4>1
        <4>4. QED
          BY <3>1, <4>1, <4>2, <4>3 DEF LogInv
  <1>3. ExportInv
    BY DEF Init, NoJob, ExportInv, OutInv
  <1>4. MessageHandedOver
    BY DEF Init, MessageHandedOver, Working
  <1>5. QED
    BY <1>1, <1>2, <1>3, <1>4 DEF IInv

LEMMA InvStep == IInv /\ [Next]_vars => IInv'
  <1> SUFFICES ASSUME IInv, [Next]_vars PROVE IInv'
    OBVIOUS
  <1>1. Types'
    BY TypeStep DEF IInv, ExportInv
  <1>2. LogInv'
    BY <1>1, LogStep DEF IInv
  <1>3. ExportInv'
    BY <1>1, ExportStep DEF IInv
  <1>4. MessageHandedOver'
    BY MessageStep DEF IInv
  <1>5. QED
    BY <1>1, <1>2, <1>3, <1>4 DEF IInv

LEMMA InvAlways == Spec => []IInv
  BY InvInit, InvStep, PTL DEF Spec

LEMMA Complete == IInv => ExportComplete
  <1> SUFFICES ASSUME IInv, ~renewed
               PROVE  /\ job.said # Null /\ ~stop =>
                           /\ \A n \in ToSet(job.asked) : Survives(n) => n \in ToSet(out)
                           /\ \A n \in ToSet(out) \ {0} :
                                /\ n \in ToSet(Flushed[job.src])
                                /\ \A m \in ToSet(Flushed[job.src]) :
                                     m < n /\ Survives(m) => m \in ToSet(out)
                           /\ \A i, k \in DOMAIN out :
                                i < k => out[i] # 0 /\ (out[k] # 0 => out[i] < out[k])
                           /\ job.said <= Len(out)
                      /\ crashed => Len(Flushed[job.src]) > Len(job.asked)
    BY DEF ExportComplete
  <1>1. Types /\ LogInv /\ OutInv /\ (job.src # Null => ReadInv)
    BY DEF IInv, ExportInv
  <1>2. ASSUME crashed
        PROVE  Len(Flushed[job.src]) > Len(job.asked)
    BY <1>1, <1>2 DEF OutInv, ReadInv
  <1>3. ASSUME job.said # Null, ~stop
        PROVE  /\ \A n \in ToSet(job.asked) : Survives(n) => n \in ToSet(out)
               /\ \A n \in ToSet(out) \ {0} :
                    /\ n \in ToSet(Flushed[job.src])
                    /\ \A m \in ToSet(Flushed[job.src]) :
                         m < n /\ Survives(m) => m \in ToSet(out)
               /\ \A i, k \in DOMAIN out :
                    i < k => out[i] # 0 /\ (out[k] # 0 => out[i] < out[k])
               /\ job.said <= Len(out)
    <2>1. at \in {"flag", "done"} /\ ReadInv /\ out = read
      BY <1>1, <1>3 DEF OutInv
    <2>2. /\ Source \in Seq(Line) /\ Flushed[job.src] \in Seq(Line)
          /\ read \in Seq(Line) /\ job.asked \in Seq(Line) /\ pos \in Nat
          /\ Len(Source) \in Nat /\ Len(Flushed[job.src]) \in Nat
          /\ Len(read) \in Nat /\ Len(job.asked) \in Nat
          /\ Extends(Flushed[job.src], Source) /\ InOrder(Flushed[job.src], last)
          /\ pos >= Len(job.asked) /\ pos <= Len(Source)
      BY <1>1, <2>1, SourceFacts DEF ReadInv
    <2>3. \A s \in Seq(Line) : \A n : n \in ToSet(s) <=> \E i \in 1..Len(s) : n = s[i]
      BY LenProperties DEF ToSet
    <2>4. \A i \in 1..Len(Flushed[job.src]) : Flushed[job.src][i] \in Nat
      BY <2>2, ElementOfSeq, LinesDef
    <2>5. ASSUME NEW n \in ToSet(job.asked), Survives(n)
          PROVE  n \in ToSet(out)
      <3>1. PICK i \in 1..Len(job.asked) : n = job.asked[i]
        BY <2>2, <2>3
      <3>2. i \in 1..pos /\ Source[i] = n
        BY <2>1, <2>2, <3>1 DEF ReadInv, Extends
      <3>3. PICK k \in 1..Len(read) : read[k] = n
        BY <2>1, <2>5, <3>2 DEF ReadInv
      <3>4. QED
        BY <2>1, <2>2, <2>3, <3>3
    <2>6. ASSUME NEW n \in ToSet(out) \ {0}
          PROVE  /\ n \in ToSet(Flushed[job.src])
                 /\ \A m \in ToSet(Flushed[job.src]) : m < n /\ Survives(m) => m \in ToSet(out)
      <3>1. PICK k \in 1..Len(read) : n = read[k]
        BY <2>1, <2>2, <2>3
      <3>2. PICK i \in 1..pos : n = Source[i]
        BY <2>1, <3>1 DEF ReadInv
      <3>3. i \in 1..Len(Flushed[job.src]) /\ Flushed[job.src][i] = n
        BY <2>2, <3>2 DEF Extends
      <3>4. ASSUME NEW m \in ToSet(Flushed[job.src]), m < n, Survives(m)
            PROVE  m \in ToSet(out)
        <4>1. PICK j \in 1..Len(Flushed[job.src]) : m = Flushed[job.src][j]
          BY <2>2, <2>3
        <4>2. j < i
          <5>1. n \in Nat /\ m \in Nat /\ i < j => n < m
            BY <2>2, <2>4, <3>3, <4>1 DEF InOrder
          <5>2. i # j
            BY <2>4, <3>3, <3>4, <4>1
          <5>3. n \in Nat /\ m \in Nat /\ ~(n < m)
            BY <2>4, <3>3, <3>4, <4>1
          <5>4. QED
            BY <5>1, <5>2, <5>3
        <4>3. j \in 1..pos /\ Source[j] = m
          BY <2>2, <4>1, <4>2 DEF Extends
        <4>4. PICK l \in 1..Len(read) : read[l] = m
          BY <2>1, <3>4, <4>3 DEF ReadInv
        <4>5. QED
          BY <2>1, <2>2, <2>3, <4>4
      <3>5. QED
        BY <2>2, <2>3, <3>3, <3>4
    <2>7. ASSUME NEW i \in DOMAIN out, NEW k \in DOMAIN out, i < k
          PROVE  out[i] # 0 /\ (out[k] # 0 => out[i] < out[k])
      <3>1. DOMAIN out = 1..Len(read)
        BY <2>1, <2>2, LenProperties
      <3>2. QED
        BY <2>1, <2>7, <3>1 DEF ReadInv
    <2>8. job.said <= Len(out)
      <3>1. job.said = Len(read) \/ (job.way = "copied" /\ job.said = Len(job.asked))
        BY <1>1, <1>3 DEF OutInv
      <3>2. job.way = "copied" => pos <= Len(read)
        BY <2>1 DEF ReadInv
      <3>3. QED
        BY <2>1, <2>2, <3>1, <3>2
    <2>9. QED
      BY <2>5, <2>6, <2>7, <2>8
  <1>4. QED
    BY <1>2, <1>3
-----------------------------------------------------------------------------
\* Every variable has its type: the stream is open whenever the logger records,
\* only the file it has open may end within a line (logger.hpp:34-98), and there is
\* a source whenever the export thread reads.
THEOREM TypeCorrect == Spec => []TypeOK
  <1>1. IInv => TypeOK
    BY TypesImply DEF IInv
  <1>2. QED
    BY <1>1, InvAlways, PTL

\* Whatever the GUI thread logs while the export thread reads the same file
\* (app_state.hpp:350-445, logger.hpp:120-133), a finished export has every line
\* that had been logged when it was asked for, adds later ones without a gap, is
\* cut short at its very end at most, and reports no more than it has.
THEOREM ExportsAreComplete == Spec => []ExportComplete
  BY InvAlways, Complete, PTL

\* While the GUI thread reads and clears an export's message (gui_main.cpp:742-747)
\* no export thread is on its way to write it (app_state.hpp:380-441).
THEOREM MessageSafe == Spec => []MessageHandedOver
  <1>1. IInv => MessageHandedOver
    BY DEF IInv
  <1>2. QED
    BY <1>1, InvAlways, PTL
=============================================================================
