---------------------------- MODULE MachineProofs ----------------------------
(***************************************************************************)
(* Of the machines of MCMachines, for any instance: that an agent executes *)
(* one job at a time, that the report of a shard is what its child wrote,  *)
(* and that control is told how direct jobs end (AgentChild); and that     *)
(* what the other machines leave behind is what they have checked or done. *)
(***************************************************************************)
EXTENDS MCMachines, SequenceTheorems, FiniteSetTheorems, WellFoundedInduction, TLAPS

USE ChildAssumption

-----------------------------------------------------------------------------
(* The inductive invariant.                                                *)

Live == {"starting", "working", "closing"}
Codes == {Alive, 0, 1, -SIGTERM, -SIGKILL}
GoodLine == {line \in Line : line.type \in FileEnd \cup {"page_done"} => line.file # NoFile}
EndedIn(lines, f) == \E k \in DOMAIN lines : lines[k].type \in FileEnd /\ lines[k].file = f
AllEnded(lines) == \A f \in Files : EndedIn(lines, f)

ChildFields == {"stage", "next", "open", "lines", "told", "code"}

ChildTypes(c) ==
  /\ DOMAIN c = ChildFields
  /\ c.stage \in Live \cup {"none", "gone"}
  /\ c.next \in 1 .. NFiles + 1 /\ c.open \in Files \cup {NoFile}
  /\ c.lines \in Seq(GoodLine)
  /\ c.told \in BOOLEAN /\ c.code \in Codes
  /\ c.stage = "gone" <=> c.code # Alive
  /\ c.stage = "none" => c.lines = <<>> /\ c.told = FALSE

\* A child that went through its files wrote an end of each, and so did one that
\* exited by itself, unless it was told to stop.
Progress(c) ==
  /\ c.stage \in {"starting", "working"}
       => \A f \in Files : f < c.next /\ f # c.open => EndedIn(c.lines, f)
  /\ c.stage = "closing" \/ c.code = 0 => c.told \/ AllEnded(c.lines)

ChildOK(c) == ChildTypes(c) /\ Progress(c)

\* A line is written after the others.
LEMMA Written ==
  ASSUME NEW lines \in Seq(GoodLine), NEW line \in GoodLine
  PROVE  LET longer == Append(lines, line)
         IN  /\ longer \in Seq(GoodLine) /\ Len(longer) = Len(lines) + 1
             /\ longer[Len(lines) + 1] = line
             /\ \A k \in 1 .. Len(lines) : longer[k] = lines[k]
             /\ \A f : EndedIn(lines, f) => EndedIn(longer, f)
             /\ line.type \in FileEnd => EndedIn(longer, line.file)
             /\ line.type \in JobEnd => line.type \in Ends(longer)
<1> DEFINE longer == Append(lines, line)
<1>1. /\ longer \in Seq(GoodLine) /\ Len(longer) = Len(lines) + 1
      /\ longer[Len(lines) + 1] = line
      /\ \A k \in 1 .. Len(lines) : longer[k] = lines[k]
  OBVIOUS
<1>2. DOMAIN lines = 1 .. Len(lines) /\ DOMAIN longer = 1 .. Len(lines) + 1 /\ Len(lines) \in Nat
  BY <1>1
<1> HIDE DEF longer
<1>3. \A f : EndedIn(lines, f) => EndedIn(longer, f)
  BY <1>1, <1>2 DEF EndedIn
<1>4. line.type \in FileEnd => EndedIn(longer, line.file)
  BY <1>1, <1>2 DEF EndedIn
<1>5. line.type \in JobEnd => line.type \in Ends(longer)
  BY <1>1, <1>2 DEF Ends
<1> QED
  BY <1>1, <1>3, <1>4, <1>5 DEF longer

\* What the steps of a child make of its record.
Turns(stage, code) ==
  /\ DOMAIN child' = ChildFields
  /\ child'.stage = stage /\ child'.code = code /\ child'.lines = child.lines
  /\ child'.next = child.next /\ child'.open = child.open /\ child'.told = child.told

Writes(line, stage, code, next, open) ==
  /\ DOMAIN child' = ChildFields
  /\ child'.stage = stage /\ child'.code = code /\ child'.lines = Append(child.lines, line)
  /\ child'.next = next /\ child'.open = open /\ child'.told = child.told

\* A line about the file the child is at, or skips.
FileLine(type, file) == [type |-> type, file |-> file]

LEMMA ChildMoves ==
  ASSUME DOMAIN child = ChildFields, ChildStep
  PROVE  \/ /\ UNCHANGED lost
            /\ \/ child.stage = "starting" /\ Turns("working", child.code)
               \/ child.stage = "starting" /\ Turns("gone", 1)
               \/ child.stage = "working" /\ Writes(FileLine("job_failed", NoFile), "gone", 1, child.next, child.open)
               \/ child.stage \in Live /\ Turns("gone", -SIGKILL)
               \/ child.stage = "closing" /\ Turns("gone", 0)
               \/ /\ child.stage = "working" /\ child.open = NoFile /\ child.next \in Files
                  /\ \/ /\ DOMAIN child' = ChildFields
                        /\ child'.stage = child.stage /\ child'.code = child.code
                        /\ child'.lines = child.lines /\ child'.told = child.told
                        /\ child'.next = child.next + 1 /\ child'.open = child.next
                     \/ Writes(FileLine("file_skipped", child.next), "working", child.code,
                               child.next + 1, NoFile)
               \/ /\ child.stage = "working" /\ child.open # NoFile
                  /\ \/ Writes(FileLine("page_done", child.open), "working", child.code,
                               child.next, child.open)
                     \/ \E type \in {"file_done", "file_failed"} :
                          Writes(FileLine(type, child.open), "working", child.code,
                                 child.next, NoFile)
               \/ /\ child.stage = "working" /\ child.open = NoFile
                  /\ child.told \/ child.next \notin Files
                  /\ \E type \in JobEnd :
                       Writes(FileLine(type, NoFile), "closing", child.code, child.next, NoFile)
         \/ /\ child.stage = "working" /\ child.open = NoFile
            /\ child.told \/ child.next \notin Files
            /\ Turns("closing", child.code) /\ lost' = TRUE
<1> USE DEF Turns, Writes, ChildFields, ChildOnly, Write, FileLine
<1>1. CASE ChildReady
  BY <1>1 DEF ChildReady
<1>2. CASE ChildBegins
  <2>1. CASE child' = [child EXCEPT !.next = @ + 1, !.open = child.next]
    BY <1>2, <2>1 DEF ChildBegins
  <2>2. CASE child' = [child EXCEPT !.next = @ + 1, !.lines = Write("file_skipped", child.next)]
    BY <1>2, <2>2 DEF ChildBegins
  <2> QED
    BY <1>2, <2>1, <2>2 DEF ChildBegins
<1>3. CASE ChildPage
  BY <1>3 DEF ChildPage
<1>4. ASSUME NEW type \in FileEnd, ChildEndsFile(type)
      PROVE  /\ UNCHANGED lost /\ child.stage = "working" /\ child.open # NoFile
             /\ type \in {"file_done", "file_failed"}
             /\ Writes(FileLine(type, child.open), "working", child.code, child.next, NoFile)
  BY <1>4 DEF ChildEndsFile
<1>5. CASE ChildEndsJob
  <2>1. PICK type \in JobEnd : /\ child' = [child EXCEPT !.lines = Write(type, NoFile),
                                                        !.stage = "closing"]
                               /\ UNCHANGED lost
    <3> DEFINE t == IF child.told THEN "job_stopped"
                    ELSE IF FileFailedIn(child.lines) THEN "job_failed" ELSE "job_done"
    <3>1. t \in JobEnd
      BY DEF JobEnd
    <3>2. child' = [child EXCEPT !.lines = Write(t, NoFile), !.stage = "closing"]
      BY <1>5 DEF ChildEndsJob
    <3> HIDE DEF t
    <3> QED
      BY <1>5, <3>1, <3>2 DEF ChildEndsJob
  <2> QED
    BY <1>5, <2>1 DEF ChildEndsJob
<1>6. CASE ChildRaises
  <2>1. CASE child.stage = "starting"
    BY <1>6, <2>1 DEF ChildRaises
  <2>2. CASE child.stage = "working"
    BY <1>6, <2>2 DEF ChildRaises
  <2> QED
    BY <1>6, <2>1, <2>2 DEF ChildRaises
<1>7. CASE ChildExits
  BY <1>7 DEF ChildExits
<1>8. CASE ChildKilled
  BY <1>8 DEF ChildKilled, Live
<1>9. CASE ChildLosesEnd
  BY <1>9 DEF ChildLosesEnd, Loses
<1> HIDE DEF Turns, Writes, ChildFields, ChildOnly, Write, FileLine
<1> QED
  BY <1>1, <1>2, <1>3, <1>4, <1>5, <1>6, <1>7, <1>8, <1>9 DEF ChildStep

\* What a child does to its own record.
Grows(c, d) ==
  /\ c.stage \in Live /\ d.stage \in Live \cup {"gone"} /\ d.told = c.told
  /\ Len(c.lines) <= Len(d.lines)
  /\ \A k \in 1 .. Len(c.lines) : d.lines[k] = c.lines[k]

\* An end of the job is among the lines before the child exits by itself, unless
\* it could not be written.
EndIsWritten(c, isLost) ==
  c.stage = "closing" \/ c.code = 0 => isLost = TRUE \/ Ends(c.lines) # {}

LEMMA ChildGoesOn ==
  ASSUME ChildOK(child), ChildStep, EndIsWritten(child, lost), lost \in BOOLEAN
  PROVE  /\ ChildOK(child') /\ Grows(child, child') /\ EndIsWritten(child', lost')
         /\ lost = TRUE => lost' = TRUE
<1> USE DEF Codes, Live, Alive, SIGKILL, SIGTERM, NoFile, Files
<1>0. /\ ChildTypes(child) /\ Progress(child) /\ DOMAIN child = ChildFields
      /\ child.lines \in Seq(GoodLine) /\ child.code \in Codes
      /\ child.stage = "gone" <=> child.code # Alive
      /\ child.next \in 1 .. NFiles + 1 /\ child.open \in 0 .. NFiles
  BY DEF ChildOK, ChildTypes
<1>1. ASSUME NEW stage \in Live \cup {"gone"}, NEW code \in Codes, Turns(stage, code),
             child.stage \in Live, stage = "gone" <=> code # Alive,
             stage \in {"starting", "working"} => child.stage \in {"starting", "working"},
             stage = "closing" \/ code = 0 =>
               \/ child.stage = "closing"
               \/ child.stage = "working" /\ child.open = NoFile /\ lost' = TRUE
                  /\ (child.told \/ child.next \notin Files),
             lost = TRUE => lost' = TRUE
      PROVE  ChildOK(child') /\ Grows(child, child') /\ EndIsWritten(child', lost')
  <2>1. ChildTypes(child')
    BY <1>0, <1>1 DEF ChildTypes, Turns
  <2>2. Progress(child')
    BY <1>0, <1>1 DEF Progress, Turns, AllEnded
  <2>4. Grows(child, child')
    BY <1>0, <1>1 DEF Grows, Turns
  <2>3. Grows(child, child') /\ EndIsWritten(child', lost')
    BY <2>4, <1>0, <1>1 DEF EndIsWritten, Turns
  <2> QED
    BY <2>1, <2>2, <2>3 DEF ChildOK
<1>2. ASSUME NEW line \in GoodLine, NEW stage \in {"working", "closing", "gone"},
             NEW code \in Codes, NEW next \in 1 .. NFiles + 1, NEW open \in 0 .. NFiles,
             Writes(line, stage, code, next, open), child.stage = "working",
             stage = "gone" <=> code # Alive, code # 0,
             stage = "working" =>
               \A f \in Files : f < next /\ f # open =>
                 \/ f < child.next /\ f # child.open
                 \/ line.type \in FileEnd /\ f = line.file,
             stage = "closing" => child.open = NoFile /\ line.type \in JobEnd,
             stage = "closing" => child.told \/ child.next \notin Files,
             lost' = lost
      PROVE  ChildOK(child') /\ Grows(child, child') /\ EndIsWritten(child', lost')
  <2> DEFINE longer == Append(child.lines, line)
  <2>1. /\ longer \in Seq(GoodLine) /\ Len(longer) = Len(child.lines) + 1
        /\ \A k \in 1 .. Len(child.lines) : longer[k] = child.lines[k]
        /\ \A f : EndedIn(child.lines, f) => EndedIn(longer, f)
        /\ line.type \in FileEnd => EndedIn(longer, line.file)
        /\ line.type \in JobEnd => line.type \in Ends(longer)
        /\ Len(child.lines) \in Nat
    BY <1>0, Written
  <2>2. /\ DOMAIN child' = ChildFields
        /\ child'.stage = stage /\ child'.code = code /\ child'.lines = longer
        /\ child'.next = next /\ child'.open = open /\ child'.told = child.told
    BY <1>2 DEF Writes
  <2> HIDE DEF longer
  <2>3. ChildTypes(child')
    BY <1>0, <1>2, <2>1, <2>2 DEF ChildTypes
  <2>6. ASSUME stage = "closing", ~child.told PROVE AllEnded(longer)
    <3>1. child.next = NFiles + 1 /\ child.open = NoFile
      BY <1>0, <1>2, <2>6
    <3>2. \A f \in Files : EndedIn(child.lines, f)
      BY <1>0, <1>2, <3>1 DEF Progress
    <3> QED
      BY <2>1, <3>2 DEF AllEnded
  <2>7. ASSUME stage = "working", NEW f \in Files, f < next, f # open PROVE EndedIn(longer, f)
    <3>1. CASE f < child.next /\ f # child.open
      BY <1>0, <1>2, <2>1, <2>7, <3>1 DEF Progress
    <3>2. CASE line.type \in FileEnd /\ f = line.file
      BY <2>1, <3>2
    <3> QED
      BY <1>2, <2>7, <3>1, <3>2
  <2>4. Progress(child')
    BY <1>2, <2>2, <2>6, <2>7 DEF Progress
  <2>8. Grows(child, child')
    BY <1>0, <1>2, <2>1, <2>2 DEF Grows
  <2>5. Grows(child, child') /\ EndIsWritten(child', lost')
    BY <2>8, <1>2, <2>1, <2>2 DEF EndIsWritten
  <2> QED
    BY <2>3, <2>4, <2>5 DEF ChildOK
<1>3. \A file \in 0 .. NFiles :
        /\ \A type \in JobEnd : FileLine(type, NoFile) \in GoodLine
        /\ \A type \in FileEnd \cup {"page_done"} : file # NoFile => FileLine(type, file) \in GoodLine
        /\ \A type : FileLine(type, file).type = type /\ FileLine(type, file).file = file
  BY DEF GoodLine, Line, FileEnd, JobEnd, FileLine
<1>4. /\ 1 \in Codes /\ 0 \in Codes /\ -SIGKILL \in Codes /\ child.code \in Codes
      /\ child.stage \in Live => child.code = Alive
      /\ Alive # 0 /\ Alive # 1 /\ -SIGKILL # Alive /\ -SIGKILL # 0
  BY <1>0
<1> HIDE DEF Codes, Live, Alive, SIGKILL, SIGTERM, NoFile, Files
<1> DEFINE Goal == /\ ChildOK(child') /\ Grows(child, child') /\ EndIsWritten(child', lost')
                   /\ lost = TRUE => lost' = TRUE
<1>5. ASSUME NEW stage \in Live \cup {"gone"}, NEW code \in Codes, Turns(stage, code),
             UNCHANGED lost,
             \/ child.stage = "starting" /\ stage = "working" /\ code = child.code
             \/ child.stage = "starting" /\ stage = "gone" /\ code = 1
             \/ child.stage \in Live /\ stage = "gone" /\ code = -SIGKILL
             \/ child.stage = "closing" /\ stage = "gone" /\ code = 0
      PROVE  Goal
  <2>1. /\ stage = "gone" <=> code # Alive
        /\ child.stage \in Live
        /\ stage \in {"starting", "working"} => child.stage \in {"starting", "working"}
        /\ stage = "closing" \/ code = 0 => child.stage = "closing"
    BY <1>4, <1>5 DEF Live
  <2>2. ChildOK(child') /\ Grows(child, child') /\ EndIsWritten(child', lost')
    BY <1>1, <1>5, <2>1
  <2> QED
    BY <1>5, <2>2
<1>6. CASE /\ child.stage = "working" /\ Turns("closing", child.code) /\ lost' = TRUE
           /\ child.open = NoFile /\ (child.told \/ child.next \notin Files)
  BY <1>1, <1>4, <1>6 DEF Live
<1>7. CASE /\ UNCHANGED lost /\ child.stage = "working"
           /\ Writes(FileLine("job_failed", NoFile), "gone", 1, child.next, child.open)
  BY <1>0, <1>2, <1>3, <1>4, <1>7 DEF JobEnd, NoFile
<1>8. CASE /\ UNCHANGED lost /\ child.stage = "working" /\ child.open = NoFile
           /\ child.next \in Files
           /\ DOMAIN child' = ChildFields
           /\ child'.stage = child.stage /\ child'.code = child.code
           /\ child'.lines = child.lines /\ child'.told = child.told
           /\ child'.next = child.next + 1 /\ child'.open = child.next
  <2>1. ChildTypes(child')
    BY <1>0, <1>8 DEF ChildTypes, Files, NoFile
  <2>2. Progress(child')
    BY <1>0, <1>4, <1>8 DEF Progress, Files, NoFile, Live
  <2>3. Grows(child, child') /\ EndIsWritten(child', lost')
    BY <1>0, <1>8 DEF Grows, EndIsWritten, Live, ChildTypes
  <2> QED
    BY <1>8, <2>1, <2>2, <2>3 DEF ChildOK
<1>9. CASE /\ UNCHANGED lost /\ child.stage = "working" /\ child.open = NoFile
           /\ child.next \in Files
           /\ Writes(FileLine("file_skipped", child.next), "working", child.code,
                     child.next + 1, NoFile)
  <2>1. /\ FileLine("file_skipped", child.next) \in GoodLine
        /\ FileLine("file_skipped", child.next).type = "file_skipped"
        /\ FileLine("file_skipped", child.next).file = child.next
        /\ child.next + 1 \in 1 .. NFiles + 1 /\ NoFile \in 0 .. NFiles
    BY <1>3, <1>9 DEF Files, FileEnd, NoFile
  <2>2. \A f \in Files : f < child.next + 1 => f < child.next \/ f = child.next
    BY <1>9 DEF Files
  <2>3. \A f \in Files : f # NoFile
    BY DEF Files, NoFile
  <2> QED
    BY <1>2, <1>4, <1>9, <2>1, <2>2, <2>3 DEF FileEnd, Live
<1>10. CASE /\ UNCHANGED lost /\ child.stage = "working" /\ child.open # NoFile
            /\ Writes(FileLine("page_done", child.open), "working", child.code,
                      child.next, child.open)
  <2>1. FileLine("page_done", child.open) \in GoodLine
    BY <1>0, <1>3, <1>10
  <2> QED
    BY <1>0, <1>2, <1>4, <1>10, <2>1 DEF Live
<1>11. CASE /\ UNCHANGED lost /\ child.stage = "working" /\ child.open # NoFile
            /\ \E type \in {"file_done", "file_failed"} :
                 Writes(FileLine(type, child.open), "working", child.code, child.next, NoFile)
  <2>1. PICK type \in {"file_done", "file_failed"} :
          Writes(FileLine(type, child.open), "working", child.code, child.next, NoFile)
    BY <1>11
  <2>2. /\ FileLine(type, child.open) \in GoodLine /\ NoFile \in 0 .. NFiles
        /\ FileLine(type, child.open).type \in FileEnd
        /\ FileLine(type, child.open).file = child.open
    BY <1>0, <1>3, <1>11 DEF FileEnd, NoFile
  <2> QED
    BY <1>0, <1>2, <1>4, <1>11, <2>1, <2>2 DEF Live
<1>12. CASE /\ UNCHANGED lost /\ child.stage = "working" /\ child.open = NoFile
            /\ child.told \/ child.next \notin Files
            /\ \E type \in JobEnd :
                 Writes(FileLine(type, NoFile), "closing", child.code, child.next, NoFile)
  <2>1. PICK type \in JobEnd :
          Writes(FileLine(type, NoFile), "closing", child.code, child.next, NoFile)
    BY <1>12
  <2>2. /\ FileLine(type, NoFile) \in GoodLine /\ NoFile \in 0 .. NFiles
        /\ FileLine(type, NoFile).type \in JobEnd
    BY <1>3 DEF NoFile
  <2> QED
    BY <1>0, <1>2, <1>4, <1>12, <2>1, <2>2 DEF Live
<1> HIDE DEF Goal
<1> QED
  BY <1>0, <1>4, <1>5, <1>6, <1>7, <1>8, <1>9, <1>10, <1>11, <1>12, ChildMoves DEF Live, Goal

\* What a signal leaves of a child.
Survives(c, d) ==
  /\ ChildOK(d) /\ d.stage # "none" /\ d.lines = c.lines
  /\ c.stage = "gone" => d = c
  /\ d.stage \in Live => c.stage \in Live
  /\ d.stage = "closing" \/ d.code = 0 => c.stage = "closing" \/ c.code = 0

LEMMA SignalsTaken ==
  ASSUME NEW c, ChildOK(c), c.stage # "none"
  PROVE  /\ Survives(c, Signalled(c)) /\ Survives(c, Slain(c))
         /\ Slain(c).told = c.told
<1> DEFINE d == Signalled(c)
           e == Slain(c)
<1> USE DEF Codes, Live, Alive, SIGTERM, SIGKILL
<1>0. ChildTypes(c) /\ Progress(c) /\ DOMAIN c = ChildFields
  BY DEF ChildOK, ChildTypes
<1>1. CASE c.stage = "gone"
  <2>1. d = c /\ e = c
    BY <1>1 DEF Signalled, Slain
  <2> QED
    BY <2>1, <1>1 DEF Survives
<1>2. ASSUME NEW x, DOMAIN x = ChildFields, x.stage = "gone", x.code \in {-SIGTERM, -SIGKILL},
             x.lines = c.lines, x.next = c.next, x.open = c.open, x.told = c.told
      PROVE  Survives(c, x) \/ c.stage = "gone"
  <2>1. ChildTypes(x)
    BY <1>0, <1>2 DEF ChildTypes
  <2>2. Progress(x)
    BY <1>2 DEF Progress
  <2> QED
    BY <1>2, <2>1, <2>2 DEF Survives, ChildOK
<1>3. CASE c.stage # "gone"
  <2>1. /\ DOMAIN e = ChildFields /\ e.stage = "gone" /\ e.code = -SIGKILL
        /\ e.lines = c.lines /\ e.next = c.next /\ e.open = c.open /\ e.told = c.told
    BY <1>0, <1>3 DEF Slain, ChildFields
  <2>2. Survives(c, e)
    BY <1>2, <1>3, <2>1
  <2>3. CASE c.stage = "starting"
    <3>1. /\ DOMAIN d = ChildFields /\ d.stage = "gone" /\ d.code = -SIGTERM
          /\ d.lines = c.lines /\ d.next = c.next /\ d.open = c.open /\ d.told = c.told
      BY <1>0, <2>3 DEF Signalled, ChildFields
    <3> QED
      BY <1>2, <1>3, <2>1, <2>2, <3>1
  <2>4. CASE c.stage = "working"
    <3>1. /\ DOMAIN d = ChildFields /\ d.stage = "working" /\ d.code = c.code
          /\ d.lines = c.lines /\ d.next = c.next /\ d.open = c.open /\ d.told = TRUE
      BY <1>0, <2>4 DEF Signalled, ChildFields
    <3>4. d.told \in BOOLEAN
      BY <3>1
    <3> HIDE DEF d
    <3>2. ChildTypes(d)
      BY <1>0, <2>4, <3>1, <3>4 DEF ChildTypes
    <3>3. Progress(d)
      BY <1>0, <2>4, <3>1 DEF Progress
    <3> QED
      BY <1>0, <2>1, <2>2, <2>4, <3>1, <3>2, <3>3 DEF Survives, ChildOK, ChildTypes, d
  <2>5. CASE c.stage = "closing"
    <3>1. d = c
      BY <2>5 DEF Signalled
    <3> QED
      BY <2>1, <2>2, <2>5, <3>1 DEF Survives
  <2> QED
    BY <1>0, <1>3, <2>3, <2>4, <2>5 DEF ChildTypes
<1>4. Slain(c).told = c.told
  BY <1>0 DEF Slain, ChildFields
<1> QED
  BY <1>1, <1>3, <1>4

-----------------------------------------------------------------------------
(* The inductive invariant of the agent.                                   *)

Held == {"wait", "raise", "cancel"}
Free == {"idle", "gone"}
Places == Held \cup Free \cup {"start", "publish", "raised", "over"}

\* A lane has a job from its queue until it lets go of it, and none is asked for
\* in between.
LaneOK ==
  /\ agent \in {"up", "stopping", "closing"} /\ polling \in {"ask", "calling", "gone"}
  /\ current \in Jobs \cup {NoJob}
  /\ queue # {} => current = NoJob /\ \E j \in Jobs : queue = {j}
  /\ polling = "calling" => current = NoJob /\ queue = {}
  /\ DOMAIN exec = {"pc", "outcome", "sent"} /\ exec.pc \in Places
  /\ current = NoJob <=> exec.pc \in Free
  /\ exec.pc = "cancel" => agent = "closing"
  /\ faults \in 0 .. MaxFaults

\* A child is there while its lane waits for it or ends it, and its exit is known
\* only then.
ChildHeld ==
  /\ ChildOK(child) /\ lost \in BOOLEAN /\ EndIsWritten(child, lost)
  /\ child.stage \in Live => exec.pc \in Held
  /\ exec.pc \in Held => child.stage # "none"
  /\ exec.pc \in Free \cup {"start"} => child.stage = "none"
  /\ known \in {Alive, child.code}
  /\ stopper \in {"ask", "tell", "term", "sent"} => exec.pc \in Held

\* After the exit is known the event file is read to its end.
ReaderOK ==
  /\ DOMAIN reader = {"pc", "offset", "upto"}
  /\ reader.offset \in Nat /\ reader.upto \in Nat
  /\ reader.offset <= reader.upto /\ reader.upto <= Len(child.lines)
  /\ reader.pc \in {"last", "postlast", "done"} => child.stage = "gone"
  /\ reader.pc = "postlast" => reader.upto = Len(child.lines)
  /\ reader.pc = "done" => reader.offset = Len(child.lines)

\* A child that its lane waits for was told to stop because the job is stopped.
StopsOK ==
  /\ stop \in BOOLEAN
  /\ stopper \in {"tell", "term", "sent", "true"} => stop = TRUE
  /\ child.told = TRUE /\ exec.pc \in {"wait", "publish", "over"} => stop = TRUE

\* Control heard the ends that were forwarded, and of each run that is over.
HeardOK ==
  /\ \A k \in 1 .. reader.offset : child.lines[k].type \in JobEnd => child.lines[k].type \in heard
  /\ exec.pc = "over" => lost = TRUE \/ heard \cap JobEnd # {}

\* The code run_job comes to is that of the exit and of all the lines.
Judged(code) ==
  /\ child.stage = "gone" /\ reader.pc = "done" /\ known = child.code
  /\ child.code # 0 => code = child.code
  /\ child.code = 0 =>
       (code = 0 <=> ~Status.jobStopped /\ ~Status.jobFailed /\ ~Status.fileFailed)

OutcomeOK ==
  exec.pc \in {"publish", "over"} =>
    \/ Judged(exec.outcome.code)
    \/ exec.pc = "over" /\ child.stage = "none" /\ exec.outcome.code = 1

RunInv == LaneOK /\ ChildHeld /\ ReaderOK /\ StopsOK /\ HeardOK /\ OutcomeOK

-----------------------------------------------------------------------------
(* Each step keeps it.                                                     *)

\* The fields of a record a process starts or ends with.
LEMMA NoChildOK ==
  /\ ChildOK(NoChild) /\ NoChild.stage = "none" /\ NoChild.code = Alive
  /\ ChildOK(NewChild) /\ NewChild.stage = "starting" /\ NewChild.code = Alive
  /\ NewChild.told = FALSE /\ NewChild.lines = <<>>
<1> USE DEF Codes, Live, Alive, NoFile, Files
<1>1. /\ DOMAIN NoChild = ChildFields /\ NoChild.stage = "none" /\ NoChild.code = Alive
      /\ NoChild.lines = <<>> /\ NoChild.told = FALSE /\ NoChild.next = 1 /\ NoChild.open = NoFile
  BY DEF NoChild, ChildFields
<1>2. /\ DOMAIN NewChild = ChildFields /\ NewChild.stage = "starting" /\ NewChild.code = Alive
      /\ NewChild.lines = <<>> /\ NewChild.told = FALSE /\ NewChild.next = 1 /\ NewChild.open = NoFile
  BY DEF NewChild, NoChild, ChildFields
<1>3. <<>> \in Seq(GoodLine)
  OBVIOUS
<1>6. NoChild.told \in BOOLEAN /\ NewChild.told \in BOOLEAN
  BY <1>1, <1>2
<1>7. 1 \in 1 .. NFiles + 1 /\ NoFile \in Files \cup {NoFile}
  OBVIOUS
<1>8. \A f \in Files : ~(f < 1)
  OBVIOUS
<1>4. ChildOK(NoChild)
  <2>1. ChildTypes(NoChild)
    BY <1>1, <1>3, <1>6, <1>7 DEF ChildTypes
  <2>2. Progress(NoChild)
    BY <1>1 DEF Progress
  <2> QED
    BY <2>1, <2>2 DEF ChildOK
<1>5. ChildOK(NewChild)
  <2>1. ChildTypes(NewChild)
    BY <1>2, <1>3, <1>6, <1>7 DEF ChildTypes
  <2>2. Progress(NewChild)
    BY <1>2, <1>8 DEF Progress
  <2> QED
    BY <2>1, <2>2 DEF ChildOK
<1> QED
  BY <1>1, <1>2, <1>4, <1>5

LEMMA NoReaderFields ==
  /\ DOMAIN NoReader = {"pc", "offset", "upto"} /\ NoReader.pc = "off"
  /\ NoReader.offset = 0 /\ NoReader.upto = 0
BY DEF NoReader

LEMMA AtFields ==
  ASSUME NEW pc
  PROVE  /\ DOMAIN At(pc) = {"pc", "outcome", "sent"} /\ At(pc).pc = pc
         /\ At(pc).outcome = NoOutcome /\ At(pc).sent = FALSE
BY DEF At

LEMMA Starts == ChildInit => RunInv
<1> SUFFICES ASSUME ChildInit PROVE RunInv
  OBVIOUS
<1> USE NoChildOK, NoReaderFields, AtFields DEF ChildInit
<1>1. LaneOK
  <2>1. /\ agent = "up" /\ polling = "ask" /\ queue = {} /\ current = NoJob
        /\ DOMAIN exec = {"pc", "outcome", "sent"} /\ exec.pc = "idle" /\ faults = 0
    OBVIOUS
  <2> HIDE DEF ChildInit
  <2> QED
    BY <2>1 DEF LaneOK, Places, Free
<1>2. Len(child.lines) = 0 /\ child.told = FALSE
  BY DEF NoChild
<1>3. ChildHeld
  <2>1. lost \in BOOLEAN
    BY DEF ChildInit
  <2>2. child = NoChild /\ exec.pc = "idle" /\ known = Alive /\ stopper = "off"
    OBVIOUS
  <2> HIDE DEF ChildInit
  <2>3. EndIsWritten(child, lost)
    BY <2>2 DEF EndIsWritten, Alive
  <2> QED
    BY <2>1, <2>2, <2>3 DEF ChildHeld, Live, Held, Free
<1>4. ReaderOK
  BY <1>2 DEF ReaderOK
<1>5. StopsOK
  <2>1. stop \in BOOLEAN /\ stopper = "off"
    BY DEF ChildInit
  <2> HIDE DEF ChildInit
  <2> QED
    BY <1>2, <2>1 DEF StopsOK
<1>6. HeardOK /\ OutcomeOK
  <2>1. exec.pc = "idle" /\ reader.offset = 0
    OBVIOUS
  <2> HIDE DEF ChildInit
  <2> QED
    BY <2>1 DEF HeardOK, OutcomeOK
<1> QED
  BY <1>1, <1>3, <1>4, <1>5, <1>6 DEF RunInv

LEMMA OutcomeStays ==
  ASSUME OutcomeOK, UNCHANGED <<child, reader, known, current, exec>>
  PROVE  OutcomeOK'
BY DEF OutcomeOK, Judged, Status, Sharded

\* A child changes nothing but its record, and what is lost with it.
LEMMA ChildAlone ==
  ASSUME ChildStep, faults \in 0 .. MaxFaults
  PROVE  /\ UNCHANGED <<agent, polling, queue, current, exec, known, reader, stopper, streams,
                        stop, heard, report>>
         /\ faults' \in 0 .. MaxFaults
         /\ lost' = lost \/ lost' = TRUE
<1> USE DEF ChildOnly, laneVars, runVars, Fault, Loses
<1>1. CASE ChildReady BY <1>1 DEF ChildReady
<1>2. CASE ChildBegins BY <1>2 DEF ChildBegins
<1>3. CASE ChildPage BY <1>3 DEF ChildPage
<1>4. CASE ChildEndsJob BY <1>4 DEF ChildEndsJob
<1>5. CASE ChildExits BY <1>5 DEF ChildExits
<1>6. CASE \E type \in FileEnd : ChildEndsFile(type) BY <1>6 DEF ChildEndsFile
<1>7. CASE ChildRaises BY <1>7 DEF ChildRaises
<1>8. CASE ChildKilled BY <1>8 DEF ChildKilled
<1>9. CASE ChildLosesEnd BY <1>9 DEF ChildLosesEnd
<1> HIDE DEF ChildOnly, laneVars, runVars, Fault, Loses
<1> QED
  BY <1>1, <1>2, <1>3, <1>4, <1>5, <1>6, <1>7, <1>8, <1>9 DEF ChildStep

LEMMA ChildSteps ==
  ASSUME RunInv, ChildStep
  PROVE  RunInv'
<1>1. /\ UNCHANGED <<agent, polling, queue, current, exec, known, reader, stopper, streams, stop, heard, report>>
      /\ faults' \in 0 .. MaxFaults /\ (lost' = lost \/ lost' = TRUE)
  BY ChildAlone DEF RunInv, LaneOK
<1>2. /\ ChildOK(child) /\ lost \in BOOLEAN /\ EndIsWritten(child, lost)
      /\ ReaderOK /\ StopsOK /\ HeardOK /\ LaneOK /\ ChildHeld /\ OutcomeOK
  BY DEF RunInv, ChildHeld
<1>3. /\ ChildOK(child') /\ Grows(child, child') /\ EndIsWritten(child', lost')
      /\ lost = TRUE => lost' = TRUE
  BY <1>2, ChildGoesOn
<1>4. child.stage \in Live /\ exec.pc \in Held /\ child.code = Alive /\ child.stage # "gone"
  BY <1>2, <1>3 DEF Grows, ChildHeld, Live, ChildOK, ChildTypes
<1>5. lost' \in BOOLEAN
  BY <1>1, <1>2
<1>6. LaneOK'
  BY <1>1, <1>2 DEF LaneOK
<1>7. ChildHeld'
  BY <1>1, <1>2, <1>3, <1>4, <1>5 DEF ChildHeld, Held, Free, Grows, Live
<1>8. ReaderOK'
  BY <1>1, <1>2, <1>3, <1>4 DEF ReaderOK, Grows, ChildOK, ChildTypes
<1>9. StopsOK'
  BY <1>1, <1>2, <1>3 DEF StopsOK, Grows
<1>10. HeardOK'
  <2>1. exec'.pc # "over"
    BY <1>1, <1>4 DEF Held
  <2>2. ASSUME NEW k \in 1 .. reader.offset
        PROVE  child'.lines[k] = child.lines[k]
    BY <1>2, <1>3 DEF ReaderOK, Grows, ChildOK, ChildTypes
  <2> QED
    BY <1>1, <1>2, <2>1, <2>2 DEF HeardOK
<1>11. OutcomeOK'
  BY <1>1, <1>4 DEF OutcomeOK, Held
<1> QED
  BY <1>6, <1>7, <1>8, <1>9, <1>10, <1>11 DEF RunInv

LEMMA ReapStep ==
  ASSUME RunInv, Reap
  PROVE  RunInv'
<1>1. /\ UNCHANGED <<agent, polling, queue, current, exec, child, reader, stopper, stop, heard,
                     lost, faults>>
      /\ exec.pc \in Held /\ known' = child.code
  BY DEF Reap, laneVars, Held
<1>2. LaneOK' /\ ReaderOK' /\ StopsOK' /\ HeardOK'
  BY <1>1 DEF RunInv, LaneOK, ReaderOK, StopsOK, HeardOK
<1>3. ChildHeld'
  BY <1>1 DEF RunInv, ChildHeld, EndIsWritten, ChildOK
<1>4. OutcomeOK'
  BY <1>1 DEF OutcomeOK, Held
<1> QED
  BY <1>2, <1>3, <1>4 DEF RunInv

\* The exit is known only of a child that is gone.
LEMMA KnownIsGone ==
  ASSUME ChildHeld
  PROVE  known # Alive => child.stage = "gone" /\ known = child.code
BY DEF ChildHeld, ChildOK, ChildTypes

\* What a step of the reader leaves alone.
LEMMA ReaderFrame ==
  ASSUME RunInv,
         UNCHANGED <<agent, polling, queue, current, exec, child, known, stopper, stop, lost>>,
         faults' \in 0 .. MaxFaults, reader.pc # "done", heard \subseteq heard',
         ReaderOK',
         \A k \in 1 .. reader'.offset : child.lines[k].type \in JobEnd =>
                                          k \in 1 .. reader.offset \/ child.lines[k].type \in heard'
  PROVE  RunInv'
<1>1. LaneOK' /\ StopsOK' /\ ChildHeld'
  BY DEF RunInv, LaneOK, StopsOK, ChildHeld, EndIsWritten, ChildOK
<1>2. HeardOK'
  BY DEF RunInv, HeardOK
<1>3. OutcomeOK'
  <2>1. OutcomeOK
    BY DEF RunInv
  <2> QED
    BY <2>1 DEF OutcomeOK, Judged
<1> QED
  BY <1>1, <1>2, <1>3 DEF RunInv

LEMMA ReaderSteps ==
  ASSUME RunInv, ReaderStep
  PROVE  RunInv'
<1>1. /\ ReaderOK /\ ChildHeld /\ faults \in 0 .. MaxFaults
      /\ child.lines \in Seq(GoodLine) /\ Len(child.lines) \in Nat
  BY DEF RunInv, LaneOK, ChildHeld, ChildOK, ChildTypes
<1>2. UNCHANGED <<agent, polling, queue, current, exec, child, known, stopper, stop, lost>>
  BY DEF ReaderStep, ReadLines, ForwardLines, ReaderOnly, laneVars
<1>3. CASE ReadLines
  <2>1. /\ DOMAIN reader' = {"pc", "offset", "upto"}
        /\ reader'.pc = IF reader.pc = "read" THEN "post" ELSE "postlast"
        /\ reader'.upto = Len(child.lines) /\ reader'.offset = reader.offset
        /\ reader.pc \in {"read", "last"} /\ UNCHANGED <<heard, faults>>
    BY <1>1, <1>3 DEF ReadLines, ReaderOK
  <2>2. ReaderOK'
    BY <1>1, <1>2, <2>1 DEF ReaderOK
  <2> QED
    BY <1>1, <1>2, <2>1, <2>2, ReaderFrame
<1>4. ASSUME NEW n \in reader.offset .. reader.upto, NEW pc,
             reader' = [reader EXCEPT !.offset = n, !.pc = pc],
             reader.pc \in {"post", "postlast"}, faults' \in 0 .. MaxFaults,
             Tell({child.lines[k].type : k \in reader.offset + 1 .. n}),
             pc \in {"last", "postlast", "done"} => child.stage = "gone",
             pc # "postlast", pc = "done" => n = Len(child.lines)
      PROVE  RunInv'
  <2>1. /\ DOMAIN reader' = {"pc", "offset", "upto"}
        /\ reader'.pc = pc /\ reader'.upto = reader.upto /\ reader'.offset = n
    BY <1>1, <1>4 DEF ReaderOK
  <2>2. ReaderOK'
    BY <1>1, <1>2, <1>4, <2>1 DEF ReaderOK
  <2>3. heard \subseteq heard'
    BY <1>4 DEF Tell
  <2>4. ASSUME NEW k \in 1 .. reader'.offset, child.lines[k].type \in JobEnd
        PROVE  k \in 1 .. reader.offset \/ child.lines[k].type \in heard'
    <3>1. k \in 1 .. reader.offset \/ k \in reader.offset + 1 .. n
      BY <1>1, <1>4, <2>1 DEF ReaderOK
    <3> QED
      BY <1>4, <2>4, <3>1 DEF Tell
  <2> QED
    BY <1>2, <1>4, <2>2, <2>3, <2>4, ReaderFrame
<1>5. CASE ForwardLines
  <2>1. NextPc \in {"done", "last", "read"}
        /\ (NextPc = "last" => known # Alive)
        /\ (NextPc = "done" => reader.pc = "postlast")
    BY DEF NextPc
  <2>4. reader.pc \in {"post", "postlast"}
    BY <1>5 DEF ForwardLines
  <2>2. CASE /\ reader' = [reader EXCEPT !.offset = reader.upto, !.pc = NextPc]
             /\ Tell({child.lines[k].type : k \in reader.offset + 1 .. reader.upto})
             /\ Sound
    <3>1. reader.upto \in reader.offset .. reader.upto
      BY <1>1 DEF ReaderOK
    <3>2. NextPc \in {"last", "postlast", "done"} => child.stage = "gone"
      BY <1>1, <2>1, KnownIsGone DEF ReaderOK
    <3>3. NextPc = "done" => reader.upto = Len(child.lines)
      BY <1>1, <2>1 DEF ReaderOK
    <3> QED
      BY <1>1, <1>4, <2>1, <2>2, <2>4, <3>1, <3>2, <3>3 DEF Sound
  <2>3. CASE /\ Fault
             /\ \E n \in reader.offset .. reader.upto :
                  /\ reader' = [reader EXCEPT !.offset = n, !.pc = "failed"]
                  /\ Tell({child.lines[k].type : k \in reader.offset + 1 .. n})
    <3>1. PICK n \in reader.offset .. reader.upto :
            /\ reader' = [reader EXCEPT !.offset = n, !.pc = "failed"]
            /\ Tell({child.lines[k].type : k \in reader.offset + 1 .. n})
      BY <2>3
    <3>2. faults' \in 0 .. MaxFaults
      BY <1>1, <2>3 DEF Fault
    <3> QED
      BY <1>4, <2>4, <3>1, <3>2
  <2> QED
    BY <1>5, <2>2, <2>3 DEF ForwardLines
<1> QED
  BY <1>3, <1>5 DEF ReaderStep

\* What a step does that at most signals the child.
LEMMA SignalFrame ==
  ASSUME RunInv, exec.pc \in Held,
         UNCHANGED <<agent, polling, queue, current, known, reader, stop, lost>>,
         DOMAIN exec' = DOMAIN exec, exec'.pc = exec.pc,
         child' = child \/ Survives(child, child'),
         child'.told = TRUE => child.told = TRUE \/ stop = TRUE \/ exec.pc # "wait",
         stopper' \in {"tell", "term", "sent", "true"} => stop = TRUE,
         faults' \in 0 .. MaxFaults, heard \subseteq heard'
  PROVE  RunInv'
<1>1. LaneOK'
  BY DEF RunInv, LaneOK
<1>2. ChildOK(child) /\ EndIsWritten(child, lost) /\ child.stage # "none" /\ known \in {Alive, child.code}
  BY DEF RunInv, ChildHeld
<1>3. ChildOK(child') /\ child'.stage # "none" /\ child'.lines = child.lines
      /\ (child.stage = "gone" => child' = child)
  BY <1>2 DEF Survives
<1>4. EndIsWritten(child', lost')
  <2>1. child'.stage = "closing" \/ child'.code = 0 => child.stage = "closing" \/ child.code = 0
    BY DEF Survives
  <2> QED
    BY <1>2, <1>3, <2>1 DEF EndIsWritten, Ends
<1>5. known' \in {Alive, child'.code}
  BY <1>2, <1>3 DEF ChildOK, ChildTypes
<1>6. ChildHeld'
  <2>1. lost' \in BOOLEAN
    BY DEF RunInv, ChildHeld
  <2> QED
    BY <1>3, <1>4, <1>5, <2>1 DEF ChildHeld, Held, Free
<1>7. ReaderOK'
  BY <1>3 DEF RunInv, ReaderOK
<1>8. StopsOK'
  BY DEF RunInv, StopsOK, Held
<1>9. HeardOK'
  BY <1>3 DEF RunInv, HeardOK, Held
<1>10. OutcomeOK'
  BY DEF OutcomeOK, Held
<1> QED
  BY <1>1, <1>6, <1>7, <1>8, <1>9, <1>10 DEF RunInv

\* The signals as steps.
LEMMA Signals ==
  ASSUME RunInv, exec.pc \in Held
  PROVE  /\ SendTerm => Survives(child, child')
         /\ SendKill => Survives(child, child') /\ child'.told = child.told
<1>1. ChildOK(child) /\ child.stage # "none"
  BY DEF RunInv, ChildHeld
<1> QED
  BY <1>1, SignalsTaken DEF SendTerm, SendKill

LEMMA StopperSteps ==
  ASSUME RunInv, StopperStep
  PROVE  RunInv'
<1>1. /\ UNCHANGED <<agent, polling, queue, current, exec, known, reader, streams, stop, lost>>
      /\ stopper \in {"ask", "tell", "term", "sent"}
  BY DEF StopperStep, AskStop, TellStopping, StopperTerm, StopperKill, StopperDone, StopperOnly,
         laneVars
<1>2. /\ exec.pc \in Held /\ faults \in 0 .. MaxFaults
      /\ stopper \in {"tell", "term", "sent"} => stop = TRUE
  BY <1>1 DEF RunInv, LaneOK, ChildHeld, StopsOK
<1>3. CASE AskStop
  <2>1. /\ UNCHANGED <<child, heard, faults>>
        /\ stopper' \in {"false", "tell", "ask"} /\ (stopper' = "tell" => stop)
    BY <1>3 DEF AskStop
  <2>2. stopper' = "tell" => stop = TRUE
    BY <2>1 DEF RunInv, StopsOK
  <2> QED
    BY <1>1, <1>2, <2>1, <2>2, SignalFrame
<1>4. CASE TellStopping
  <2>1. /\ child' = child /\ heard \subseteq heard' /\ stopper = "tell"
        /\ (faults' = faults \/ (faults < MaxFaults /\ faults' = faults + 1))
    BY <1>4 DEF TellStopping, Tell, Sound, Fault
  <2>2. faults' \in 0 .. MaxFaults
    BY <1>2, <2>1
  <2> QED
    BY <1>1, <1>2, <2>1, <2>2, SignalFrame
<1>5. CASE StopperTerm
  <2>1. /\ stopper = "term" /\ UNCHANGED <<heard, faults>>
        /\ child' = child \/ SendTerm
    BY <1>5 DEF StopperTerm
  <2> QED
    BY <1>1, <1>2, <2>1, Signals, SignalFrame
<1>6. CASE StopperKill
  <2>1. SendKill /\ UNCHANGED <<stopper, heard, faults>> /\ stopper = "sent"
    BY <1>6 DEF StopperKill
  <2> QED
    BY <1>1, <1>2, <2>1, Signals, SignalFrame
<1>7. CASE StopperDone
  <2>1. UNCHANGED <<child, heard, faults>> /\ stopper = "sent"
    BY <1>7 DEF StopperDone
  <2> QED
    BY <1>1, <1>2, <2>1, SignalFrame
<1> QED
  BY <1>3, <1>4, <1>5, <1>6, <1>7 DEF StopperStep

\* Steps that leave all but streams, stop and faults.
LEMMA QuietSteps ==
  ASSUME RunInv,
         UNCHANGED <<agent, polling, queue, current, exec, child, known, reader, stopper, heard,
                     lost>>,
         faults' \in 0 .. MaxFaults, stop' = stop \/ stop' = TRUE
  PROVE  RunInv'
<1>1. LaneOK' /\ ChildHeld' /\ ReaderOK' /\ HeardOK'
  BY DEF RunInv, LaneOK, ChildHeld, ReaderOK, HeardOK, EndIsWritten, ChildOK
<1>2. StopsOK'
  <2>1. stop' \in BOOLEAN
    BY DEF RunInv, StopsOK
  <2> QED
    BY <2>1 DEF RunInv, StopsOK
<1>3. OutcomeOK'
  BY OutcomeStays DEF RunInv
<1> QED
  BY <1>1, <1>2, <1>3 DEF RunInv

\* Nothing is left of a run its lane lets go of.
LEMMA LetGoStep ==
  ASSUME RunInv, NEW pc \in Free, LetGo(pc), child.stage \notin Live,
         UNCHANGED queue, polling' \in {polling, "gone"},
         agent' \in {"up", "stopping", "closing"}, faults' \in 0 .. MaxFaults,
         lost' = lost \/ lost' = TRUE,
         queue = {} \/ current = NoJob
  PROVE  RunInv'
<1>1. /\ exec'.pc = pc /\ DOMAIN exec' = {"pc", "outcome", "sent"} /\ current' = NoJob
      /\ known' = Alive /\ stop' = FALSE /\ reader' = NoReader /\ stopper' = "off"
      /\ \/ child' = NoChild
         \/ child.stage # "gone" /\ child' = child
  BY AtFields DEF LetGo
<1>2. /\ ChildOK(child) /\ lost \in BOOLEAN /\ LaneOK
      /\ child.stage \in {"none", "gone"}
  BY DEF RunInv, ChildHeld, ChildOK, ChildTypes, Live
<1>3. ChildOK(child') /\ child'.stage = "none" /\ child'.code = Alive
  BY <1>1, <1>2, NoChildOK DEF ChildOK, ChildTypes
<1>4. child'.told = FALSE /\ Len(child'.lines) = 0
  BY <1>3 DEF ChildOK, ChildTypes
<1>5. LaneOK'
  BY <1>1, <1>2 DEF LaneOK, Places, Free
<1>6. ChildHeld'
  <2>1. lost' \in BOOLEAN
    BY <1>2
  <2> QED
    BY <1>1, <1>3, <2>1 DEF ChildHeld, EndIsWritten, Live, Held, Free, Alive
<1>7. ReaderOK'
  BY <1>1, <1>4, NoReaderFields DEF ReaderOK
<1>8. StopsOK'
  <2>1. stop' \in BOOLEAN
    BY <1>1
  <2> QED
    BY <1>1, <1>4, <2>1 DEF StopsOK
<1>9. HeardOK' /\ OutcomeOK'
  BY <1>1, NoReaderFields DEF HeardOK, OutcomeOK, Free
<1> QED
  BY <1>5, <1>6, <1>7, <1>8, <1>9 DEF RunInv

LEMMA PollingSteps ==
  ASSUME RunInv, AskJob \/ GetJob \/ RequestStop \/ RequestShutdown \/ Shutdown
  PROVE  RunInv'
<1>0. LaneOK /\ ChildHeld
  BY DEF RunInv
<1>1. CASE AskJob \/ GetJob \/ RequestShutdown
  <2>1. UNCHANGED <<current, exec, child, known, reader, stopper, heard, lost, faults, stop>>
    BY <1>1 DEF AskJob, GetJob, RequestShutdown, OutsideExec, runVars
  <2>2. LaneOK'
    <3>1. CASE AskJob
      BY <1>0, <2>1, <3>1 DEF LaneOK, AskJob, MayAsk
    <3>2. CASE GetJob
      <4>1. polling = "calling" /\ polling' = "ask" /\ agent' = agent /\ queue = {} /\ current = NoJob
        BY <1>0, <3>2 DEF GetJob, LaneOK
      <4>2. queue' = {} \/ \E j \in Jobs : queue' = {j}
        BY <4>1, <3>2 DEF GetJob
      <4> QED
        BY <1>0, <2>1, <4>1, <4>2 DEF LaneOK
    <3>3. CASE RequestShutdown
      BY <1>0, <2>1, <3>3 DEF LaneOK, RequestShutdown
    <3> QED
      BY <1>1, <3>1, <3>2, <3>3
  <2>3. ChildHeld' /\ ReaderOK' /\ StopsOK' /\ HeardOK'
    BY <2>1 DEF RunInv, ChildHeld, ReaderOK, StopsOK, HeardOK, EndIsWritten, ChildOK
  <2>4. OutcomeOK'
    BY <2>1, OutcomeStays DEF RunInv
  <2> QED
    BY <2>2, <2>3, <2>4 DEF RunInv
<1>2. CASE RequestStop
  <2>1. faults' \in 0 .. MaxFaults
    BY <1>0, <1>2 DEF LaneOK, RequestStop, OutsideExec
  <2> QED
    BY <1>2, <2>1, QuietSteps DEF RequestStop, OutsideExec, laneVars, runVars
<1>3. CASE Shutdown
  <2>1. /\ agent = "stopping" /\ agent' = "closing" /\ polling' = "gone"
        /\ UNCHANGED <<queue, heard, lost, faults>>
    BY <1>3 DEF Shutdown
  <2>2. CASE exec.pc \in {"wait", "raise"}
    <3>1. /\ exec' = At("cancel")
          /\ UNCHANGED <<current, child, known, reader, stopper, stop>>
      BY <1>3, <2>2 DEF Shutdown, runVars
    <3>2. exec'.pc = "cancel" /\ DOMAIN exec' = {"pc", "outcome", "sent"}
      BY <3>1, AtFields
    <3>3. LaneOK'
      BY <1>0, <2>1, <2>2, <3>1, <3>2 DEF LaneOK, Places, Held, Free
    <3>4. ChildHeld' /\ ReaderOK' /\ StopsOK' /\ HeardOK'
      BY <2>1, <2>2, <3>1, <3>2
         DEF RunInv, ChildHeld, ReaderOK, StopsOK, HeardOK, EndIsWritten, ChildOK, Held, Free
    <3>5. OutcomeOK'
      BY <3>2 DEF OutcomeOK
    <3> QED
      BY <3>3, <3>4, <3>5 DEF RunInv
  <2>3. CASE exec.pc \notin {"wait", "raise"}
    <3>1. LetGo("gone")
      BY <1>3, <2>3 DEF Shutdown
    <3>2. child.stage \notin Live
      BY <1>0, <2>1, <2>3 DEF LaneOK, ChildHeld, Held
    <3> QED
      BY <1>0, <2>1, <3>1, <3>2, LetGoStep DEF LaneOK, Free
  <2> QED
    BY <2>2, <2>3
<1> QED
  BY <1>1, <1>2, <1>3

\* A lane goes on to another place, with the child as it is.
LEMMA LaneMoves ==
  ASSUME RunInv, exec'.pc \in Places \ (Free \cup {"start", "cancel"}),
         DOMAIN exec' = {"pc", "outcome", "sent"}, exec.pc \notin Free,
         UNCHANGED <<agent, polling, queue, current, child, known, stop>>,
         \/ UNCHANGED <<reader, stopper>>
         \/ reader' = [reader EXCEPT !.pc = "off"] /\ stopper' = "off" /\ exec'.pc = "raised",
         exec'.pc \in Held => exec.pc \in Held,
         exec'.pc \notin Held => child.stage \notin Live
                                  /\ stopper' \notin {"ask", "tell", "term", "sent"},
         exec'.pc \in {"wait", "publish", "over"} => exec.pc \in {"wait", "publish", "over"},
         heard \subseteq heard', lost' = lost \/ lost' = TRUE, faults' \in 0 .. MaxFaults,
         exec'.pc = "over" => lost' = TRUE \/ heard' \cap JobEnd # {},
         OutcomeOK'
  PROVE  RunInv'
<1>1. LaneOK'
  BY DEF RunInv, LaneOK, Places, Free
<1>2. ChildHeld'
  <2>1. lost' \in BOOLEAN
    BY DEF RunInv, ChildHeld
  <2>2. ChildOK(child') /\ EndIsWritten(child', lost')
    BY DEF RunInv, ChildHeld, EndIsWritten
  <2>3. ChildHeld
    BY DEF RunInv
  <2>4. exec'.pc \notin Free \cup {"start"}
    OBVIOUS
  <2> QED
    BY <2>1, <2>2, <2>3, <2>4 DEF ChildHeld
<1>3. ReaderOK'
  <2>1. ReaderOK /\ DOMAIN reader = {"pc", "offset", "upto"}
    BY DEF RunInv, ReaderOK
  <2>2. CASE reader' = [reader EXCEPT !.pc = "off"]
    <3>1. /\ DOMAIN reader' = {"pc", "offset", "upto"} /\ reader'.pc = "off"
          /\ reader'.offset = reader.offset /\ reader'.upto = reader.upto
      BY <2>1, <2>2
    <3> QED
      BY <2>1, <3>1 DEF ReaderOK
  <2> QED
    BY <2>1, <2>2 DEF ReaderOK
<1>4. reader'.offset = reader.offset
  BY DEF RunInv, ReaderOK
<1>5. StopsOK'
  BY DEF RunInv, StopsOK
<1>6. HeardOK'
  BY <1>4 DEF RunInv, HeardOK
<1> QED
  BY <1>1, <1>2, <1>3, <1>5, <1>6 DEF RunInv

LEMMA TakeStep ==
  ASSUME RunInv, TakeJob
  PROVE  RunInv'
<1>1. LaneOK /\ ChildHeld /\ ReaderOK /\ StopsOK
  BY DEF RunInv
<1>2. PICK j \in queue : current' = j /\ queue' = queue \ {j}
  BY DEF TakeJob
<1>3. /\ exec.pc = "idle" /\ exec' = At("start") /\ lost' = FALSE
      /\ UNCHANGED <<agent, polling, child, known, reader, stopper, stop, faults>>
  BY DEF TakeJob, runVars
<1>4. exec'.pc = "start" /\ DOMAIN exec' = {"pc", "outcome", "sent"}
  BY <1>3, AtFields
<1>5. LaneOK'
  <2>1. queue' = {} /\ j \in Jobs /\ polling # "calling"
    BY <1>1, <1>2 DEF LaneOK
  <2> QED
    BY <1>1, <1>2, <1>3, <1>4, <2>1 DEF LaneOK, Places, Free
<1>6. child.stage = "none" /\ ChildOK(child)
  BY <1>1, <1>3 DEF ChildHeld, Free
<1>7. Len(child.lines) = 0 /\ child.told = FALSE /\ child.code = Alive
  BY <1>6 DEF ChildOK, ChildTypes
<1>8. ChildHeld'
  <2>1. lost' \in BOOLEAN
    BY <1>3
  <2> QED
    BY <1>1, <1>3, <1>4, <1>6, <1>7, <2>1 DEF ChildHeld, EndIsWritten, Held, Free, Live, Alive
<1>9. ReaderOK' /\ StopsOK'
  BY <1>1, <1>3, <1>4 DEF ReaderOK, StopsOK
<1>10. HeardOK' /\ OutcomeOK'
  BY <1>1, <1>3, <1>4, <1>7 DEF HeardOK, OutcomeOK, ReaderOK
<1> QED
  BY <1>5, <1>8, <1>9, <1>10 DEF RunInv

LEMMA StartStep ==
  ASSUME RunInv, StartChild
  PROVE  RunInv'
<1>1. LaneOK /\ ChildHeld /\ ReaderOK /\ StopsOK /\ HeardOK /\ ChildOK(child) /\ exec.pc = "start"
  BY DEF RunInv, ChildHeld, StartChild
<1>2. /\ child.stage = "none" /\ Len(child.lines) = 0 /\ child.told = FALSE
      /\ stopper \notin {"ask", "tell", "term", "sent"}
  BY <1>1 DEF ChildHeld, ChildOK, ChildTypes, Free, Held
<1>3. known = Alive
  BY <1>1, <1>2 DEF ChildHeld, ChildOK, ChildTypes
<1>4. UNCHANGED <<agent, polling, queue, current, known, stop>>
  BY DEF StartChild, laneVars
<1>5. CASE /\ child' = NewChild
           /\ exec' = At("wait")
           /\ reader' = [NoReader EXCEPT !.pc = "read"]
           /\ stopper' = "ask" /\ streams' = "open"
           /\ Sound /\ UNCHANGED <<heard, lost>>
  <2>1. exec'.pc = "wait" /\ DOMAIN exec' = {"pc", "outcome", "sent"}
    BY <1>5, AtFields
  <2>2. /\ DOMAIN reader' = {"pc", "offset", "upto"} /\ reader'.pc = "read"
        /\ reader'.offset = 0 /\ reader'.upto = 0
    BY <1>5, NoReaderFields
  <2>3. /\ ChildOK(child') /\ child'.stage = "starting" /\ child'.code = Alive
        /\ child'.told = FALSE /\ Len(child'.lines) = 0
    BY <1>5, NoChildOK
  <2>4. LaneOK'
    BY <1>1, <1>4, <1>5, <2>1 DEF LaneOK, Places, Held, Free, Sound
  <2>5. ChildHeld'
    <3>1. lost' \in BOOLEAN
      BY <1>1, <1>5 DEF ChildHeld
    <3>2. EndIsWritten(child', lost')
      BY <2>3 DEF EndIsWritten, Alive
    <3> QED
      BY <1>3, <1>4, <1>5, <2>1, <2>3, <3>1, <3>2 DEF ChildHeld, Held, Free, Live
  <2>6. ReaderOK'
    BY <2>2, <2>3 DEF ReaderOK
  <2>7. StopsOK'
    BY <1>1, <1>4, <1>5, <2>3 DEF StopsOK
  <2>8. HeardOK' /\ OutcomeOK'
    BY <2>1, <2>2 DEF HeardOK, OutcomeOK
  <2> QED
    BY <2>4, <2>5, <2>6, <2>7, <2>8 DEF RunInv
<1>6. CASE /\ Fault
           /\ \/ Tell({"job_failed"}) /\ UNCHANGED lost
              \/ Loses /\ UNCHANGED heard
           /\ exec' = With("over", Outcome(1, FALSE))
           /\ UNCHANGED <<child, reader, stopper, streams>>
  <2>1. exec'.pc = "over" /\ exec'.outcome.code = 1 /\ DOMAIN exec' = {"pc", "outcome", "sent"}
    <3>1. Outcome(1, FALSE).code = 1
      BY DEF Outcome
    <3> HIDE DEF Outcome
    <3>2. exec' = With("over", Outcome(1, FALSE))
      BY <1>6
    <3> DEFINE outcome == Outcome(1, FALSE)
    <3>3. outcome.code = 1 /\ exec' = [At("over") EXCEPT !.outcome = outcome]
      BY <3>1, <3>2 DEF With
    <3> HIDE DEF outcome
    <3> QED
      BY <3>3, AtFields
  <2>2. lost' = TRUE \/ heard' \cap JobEnd # {}
    <3>1. "job_failed" \in JobEnd
      BY DEF JobEnd
    <3> QED
      BY <1>6, <3>1 DEF Tell, Loses
  <2>3. LaneOK'
    <3>1. faults' \in 0 .. MaxFaults
      BY <1>1, <1>6 DEF LaneOK, Fault
    <3> QED
      BY <1>1, <1>4, <2>1, <3>1 DEF LaneOK, Places, Free
  <2>4. ChildHeld'
    <3>1. lost' \in BOOLEAN
      BY <1>1, <1>6 DEF ChildHeld, Loses
    <3>2. child' = child /\ EndIsWritten(child', lost')
      BY <1>1, <1>2, <1>6 DEF EndIsWritten, Alive, ChildOK, ChildTypes
    <3> QED
      BY <1>1, <1>2, <1>3, <1>4, <1>6, <2>1, <3>1, <3>2 DEF ChildHeld, Held, Free, Live
  <2>5. ReaderOK' /\ StopsOK'
    BY <1>1, <1>2, <1>4, <1>6 DEF ReaderOK, StopsOK
  <2>6. HeardOK'
    <3>1. reader'.offset = 0
      BY <1>1, <1>2, <1>6 DEF ReaderOK
    <3> QED
      BY <2>2, <3>1 DEF HeardOK
  <2>7. OutcomeOK'
    BY <1>2, <1>6, <2>1 DEF OutcomeOK
  <2> QED
    BY <2>3, <2>4, <2>5, <2>6, <2>7 DEF RunInv
<1> QED
  BY <1>5, <1>6 DEF StartChild

LEMMA StreamsStep ==
  ASSUME RunInv, StreamsEnd
  PROVE  RunInv'
<1>1. faults' \in 0 .. MaxFaults
  BY DEF RunInv, LaneOK, StreamsEnd, Sound, Fault
<1> QED
  BY <1>1, QuietSteps DEF StreamsEnd, laneVars

\* A forwarded line of an end is one control heard.
LEMMA ForwardedHeard ==
  ASSUME HeardOK, NEW type \in JobEnd,
         \E line \in {child.lines[k] : k \in 1 .. reader.offset} : line.type = type
  PROVE  heard \cap JobEnd # {}
BY DEF HeardOK

\* What run_job announces, control heard already or hears now.
LEMMA AnnouncedOnce ==
  ASSUME HeardOK, ReaderOK, ChildHeld, Judged(exec.outcome.code),
         Tell(Announcement(exec.outcome)), UNCHANGED lost
  PROVE  lost' = TRUE \/ heard' \cap JobEnd # {}
<1> DEFINE said == Announcement(exec.outcome)
<1>1. heard \subseteq heard' /\ said \cap JobEnd \subseteq heard'
  BY DEF Tell
<1>2. "job_stopped" \in JobEnd /\ "job_failed" \in JobEnd
  BY DEF JobEnd
<1>3. CASE said # {}
  <2>1. said \subseteq {"job_stopped", "job_failed"}
    BY DEF Announcement
  <2> QED
    BY <1>1, <1>2, <1>3, <2>1
<1>4. CASE Status.jobStopped \/ Status.jobFailed
  <2>1. \E type \in {"job_stopped", "job_failed"} :
           \E line \in {child.lines[k] : k \in 1 .. reader.offset} : line.type = type
    BY <1>4 DEF Status
  <2> QED
    BY <1>1, <1>2, <2>1, ForwardedHeard
<1>5. CASE said = {} /\ ~Status.jobStopped /\ ~Status.jobFailed
  <2>1. exec.outcome.code = 0
    BY <1>5 DEF Announcement
  <2>2. child.code = 0 /\ reader.offset = Len(child.lines) /\ child.lines \in Seq(GoodLine)
    BY <2>1 DEF Judged, ReaderOK, ChildHeld, ChildOK, ChildTypes
  <2>3. lost = TRUE \/ Ends(child.lines) # {}
    BY <2>2 DEF ChildHeld, EndIsWritten
  <2>4. ASSUME Ends(child.lines) # {} PROVE heard \cap JobEnd # {}
    BY <2>2, <2>4 DEF Ends, HeardOK
  <2> QED
    BY <1>1, <2>3, <2>4
<1> QED
  BY <1>3, <1>4, <1>5

LEMMA ExecSteps ==
  ASSUME RunInv, ExecStep
  PROVE  RunInv'
<1>1. LaneOK /\ ChildHeld /\ ReaderOK /\ StopsOK /\ HeardOK /\ OutcomeOK /\ faults \in 0 .. MaxFaults
  BY DEF RunInv, LaneOK
<1>2. ASSUME Fault PROVE faults' \in 0 .. MaxFaults
  BY <1>1, <1>2 DEF Fault
<1>3. CASE StartChild
  BY <1>3, StartStep
<1>4. CASE Resolve
  <2>1. /\ exec.pc = "wait" /\ reader.pc = "done" /\ stopper \in {"true", "false"} /\ known # Alive
        /\ UNCHANGED <<agent, polling, queue, current, child, known, stop, reader, stopper, lost,
                       heard, faults>>
    BY <1>4 DEF Resolve, KeptExec, QuietExec, ExecOnly, AllDone, Waited
  <2> DEFINE code == IF known # 0 THEN known
                     ELSE IF Status.jobStopped THEN -SIGTERM
                     ELSE IF Status.jobFailed \/ Status.fileFailed THEN 1
                     ELSE 0
  <2>2. PICK stopped : exec' = With("publish", Outcome(code, stopped))
    BY <1>4 DEF Resolve
  <2>3. Outcome(code, stopped).code = code
    BY DEF Outcome
  <2>4. /\ exec'.pc = "publish" /\ DOMAIN exec' = {"pc", "outcome", "sent"}
        /\ exec'.outcome.code = code
    <3> DEFINE outcome == Outcome(code, stopped)
    <3>1. exec' = With("publish", outcome) /\ outcome.code = code
      BY <2>2, <2>3
    <3> HIDE DEF outcome, code
    <3>2. exec' = [At("publish") EXCEPT !.outcome = outcome]
      BY <3>1 DEF With
    <3> QED
      BY <3>1, <3>2, AtFields
  <2>5. child.stage = "gone" /\ known = child.code
    BY <1>1, <2>1, KnownIsGone
  <2>6. Judged(code)
    BY <2>1, <2>5 DEF Judged, SIGTERM
  <2> HIDE DEF code
  <2>7. Status' = Status
    BY <2>1 DEF Status, Sharded
  <2>8. OutcomeOK'
    BY <2>1, <2>4, <2>6, <2>7 DEF OutcomeOK, Judged
  <2> QED
    BY <1>1, <2>1, <2>4, <2>5, <2>8, LaneMoves DEF Places, Held, Free, Live
<1>5. CASE Publish
  <2>1. /\ exec.pc = "publish" /\ DOMAIN exec = {"pc", "outcome", "sent"}
        /\ UNCHANGED <<agent, polling, queue, current, child, known, stop, reader, stopper>>
    BY <1>1, <1>5 DEF Publish, QuietExec, ExecOnly, LaneOK
  <2>2. /\ Judged(exec.outcome.code)
        /\ child.stage \notin Live /\ stopper \notin {"ask", "tell", "term", "sent"}
    BY <1>1, <2>1 DEF OutcomeOK, ChildHeld, Held
  <2>3. \/ /\ exec' = [exec EXCEPT !.pc = "over"] /\ Tell(Announcement(exec.outcome))
           /\ UNCHANGED <<faults, lost>>
        \/ /\ exec' = [exec EXCEPT !.pc = "raised"] /\ Fault /\ UNCHANGED <<heard, lost>>
        \/ /\ exec' = [exec EXCEPT !.pc = "over"] /\ Fault /\ lost' = TRUE /\ heard' = heard
    BY <1>5 DEF Publish, Loses, Sound
  <2>4. /\ DOMAIN exec' = {"pc", "outcome", "sent"} /\ exec'.outcome = exec.outcome
        /\ exec'.pc \in {"over", "raised"}
    BY <2>1, <2>3
  <2>5. Status' = Status
    BY <2>1 DEF Status, Sharded
  <2>6. OutcomeOK'
    BY <2>1, <2>2, <2>4, <2>5 DEF OutcomeOK, Judged
  <2>7. /\ faults' \in 0 .. MaxFaults /\ heard \subseteq heard' /\ (lost' = lost \/ lost' = TRUE)
    BY <1>1, <1>2, <2>3 DEF Tell
  <2>8. exec'.pc = "over" => lost' = TRUE \/ heard' \cap JobEnd # {}
    <3>1. CASE exec' = [exec EXCEPT !.pc = "raised"]
      BY <2>1, <3>1
    <3>2. CASE lost' = TRUE
      BY <3>2
    <3>3. CASE Tell(Announcement(exec.outcome)) /\ UNCHANGED lost
      BY <1>1, <2>2, <3>3, AnnouncedOnce
    <3> QED
      BY <2>3, <3>1, <3>2, <3>3
  <2> QED
    BY <1>1, <2>1, <2>2, <2>4, <2>6, <2>7, <2>8, LaneMoves DEF Places, Held, Free
<1>6. CASE TaskFailed
  <2>1. /\ exec.pc = "wait" /\ exec' = At("raise")
        /\ UNCHANGED <<agent, polling, queue, current, child, known, stop, reader, stopper, lost,
                       heard, faults>>
    BY <1>6 DEF TaskFailed, KeptExec, QuietExec, ExecOnly
  <2>2. exec'.pc = "raise" /\ DOMAIN exec' = {"pc", "outcome", "sent"}
    BY <2>1, AtFields
  <2>3. OutcomeOK'
    BY <2>2 DEF OutcomeOK
  <2> QED
    BY <1>1, <2>1, <2>2, <2>3, LaneMoves DEF Places, Held, Free
<1>7. CASE TermChild
  <2>1. /\ exec.pc \in {"raise", "cancel"} /\ SendTerm
        /\ exec' = [exec EXCEPT !.sent = TRUE]
        /\ UNCHANGED <<agent, polling, queue, current, known, reader, stopper, stop, lost,
                       heard, faults>>
    BY <1>7 DEF TermChild, laneVars, runVars
  <2>2. DOMAIN exec' = DOMAIN exec /\ exec'.pc = exec.pc
    BY <1>1, <2>1 DEF LaneOK
  <2> QED
    BY <1>1, <2>1, <2>2, Signals, SignalFrame DEF Held, StopsOK
<1>8. CASE KillChild
  <2>1. /\ exec.pc \in {"raise", "cancel"} /\ SendKill
        /\ UNCHANGED <<agent, polling, queue, current, exec, known, reader, stopper, stop, lost,
                       heard, faults>>
    BY <1>8 DEF KillChild, laneVars, runVars
  <2> QED
    BY <1>1, <2>1, Signals, SignalFrame DEF Held, StopsOK
<1>9. CASE RunBroken
  <2>1. child.stage = "gone" /\ exec.pc \in {"raise", "cancel"}
    BY <1>1, <1>9, KnownIsGone DEF RunBroken, Terminated, Waited
  <2>2. UNCHANGED <<agent, polling, queue, heard, lost, faults>>
    BY <1>9 DEF RunBroken, laneVars
  <2>3. CASE exec.pc = "cancel"
    <3>1. LetGo("gone")
      BY <1>9, <2>3 DEF RunBroken
    <3> QED
      BY <1>1, <2>1, <2>2, <3>1, LetGoStep DEF LaneOK, Live, Free
  <2>4. CASE exec.pc = "raise"
    <3>1. /\ exec' = At("raised") /\ reader' = [reader EXCEPT !.pc = "off"] /\ stopper' = "off"
          /\ UNCHANGED <<current, child, known, stop>>
      BY <1>9, <2>4 DEF RunBroken
    <3>2. exec'.pc = "raised" /\ DOMAIN exec' = {"pc", "outcome", "sent"}
      BY <3>1, AtFields
    <3>3. OutcomeOK'
      BY <3>2 DEF OutcomeOK
    <3> QED
      BY <1>1, <2>1, <2>2, <2>4, <3>1, <3>2, <3>3, LaneMoves DEF Places, Held, Free, Live
  <2> QED
    BY <2>1, <2>3, <2>4
<1>10. CASE LaneReports
  <2>1. /\ exec.pc = "raised" /\ LetGo("idle") /\ UNCHANGED <<agent, polling, queue>>
        /\ (lost' = lost \/ lost' = TRUE)
    BY <1>10 DEF LaneReports, laneVars, Loses
  <2>2. faults' \in 0 .. MaxFaults
    BY <1>1, <1>2, <1>10 DEF LaneReports, Sound
  <2>3. child.stage \notin Live
    BY <1>1, <2>1 DEF ChildHeld, Held
  <2> QED
    BY <1>1, <2>1, <2>2, <2>3, LetGoStep DEF LaneOK, Free
<1>11. CASE EndDirect
  <2>1. /\ exec.pc = "over" /\ LetGo("idle")
        /\ UNCHANGED <<agent, polling, queue, heard, lost, faults>>
    BY <1>11 DEF EndDirect, laneVars
  <2>2. child.stage \notin Live
    BY <1>1, <2>1 DEF ChildHeld, Held
  <2> QED
    BY <1>1, <2>1, <2>2, LetGoStep DEF LaneOK, Free
<1>12. CASE EndShardRun
  <2>1. exec.pc = "over" /\ UNCHANGED <<agent, polling, queue, heard, lost>>
    BY <1>12 DEF EndShardRun, laneVars
  <2>2. child.stage \notin Live /\ stopper \notin {"ask", "tell", "term", "sent"}
    BY <1>1, <2>1 DEF ChildHeld, Held
  <2>3. CASE LetGo("idle") /\ Sound
    BY <1>1, <2>1, <2>2, <2>3, LetGoStep DEF LaneOK, Free, Sound
  <2>4. CASE /\ Fault /\ exec' = At("raised")
             /\ UNCHANGED <<report, current, child, helpers, runVars, stop>>
    <3>1. exec'.pc = "raised" /\ DOMAIN exec' = {"pc", "outcome", "sent"}
      BY <2>4, AtFields
    <3>2. OutcomeOK'
      BY <3>1 DEF OutcomeOK
    <3> QED
      BY <1>1, <1>2, <2>1, <2>2, <2>4, <3>1, <3>2, LaneMoves DEF Places, Held, Free, runVars
  <2> QED
    BY <1>12, <2>3, <2>4 DEF EndShardRun
<1> QED
  BY <1>3, <1>4, <1>5, <1>6, <1>7, <1>8, <1>9, <1>10, <1>11, <1>12 DEF ExecStep

LEMMA RunStep == RunInv /\ [ChildNext]_childVars => RunInv'
<1>1. ASSUME RunInv, UNCHANGED childVars PROVE RunInv'
  <2>1. RunInv' <=> RunInv
    BY <1>1 DEF childVars, RunInv, LaneOK, ChildHeld, ReaderOK, StopsOK, HeardOK, OutcomeOK, Judged,
                Status, Sharded, EndIsWritten, ChildOK
  <2> QED
    BY <1>1, <2>1
<1> QED
  BY <1>1, ChildSteps, ReapStep, ReaderSteps, StopperSteps, StreamsStep, TakeStep, ExecSteps,
     PollingSteps DEF ChildNext

\* The invariant holds of every behaviour of an agent and its child.
THEOREM RunHolds == ChildSpec => []RunInv
<1> QED
  BY Starts, RunStep, PTL DEF ChildSpec

-----------------------------------------------------------------------------
(* One job at a time.                                                      *)

LEMMA Typed == RunInv => ChildTypeOK
<1> SUFFICES ASSUME RunInv PROVE ChildTypeOK
  OBVIOUS
<1>1. LaneOK /\ ChildHeld /\ ReaderOK /\ StopsOK /\ ChildTypes(child)
  BY DEF RunInv, ChildHeld, ChildOK
<1>2. queue \subseteq Jobs
  BY <1>1 DEF LaneOK
<1>3. \A k \in DOMAIN child.lines : child.lines[k] \in Line
  BY <1>1 DEF ChildTypes, GoodLine
<1>4. Status.failed \cup Status.skipped \subseteq Status.terminal
  BY DEF Status, FileEnd
<1>5. reader.offset <= Len(child.lines)
  BY <1>1 DEF ReaderOK, ChildTypes
<1>6. stop \in BOOLEAN
  BY <1>1 DEF StopsOK
<1> QED
  BY <1>1, <1>2, <1>3, <1>4, <1>5, <1>6
     DEF ChildTypeOK, LaneOK, ChildHeld, ReaderOK, ChildTypes, Places, Held, Free, Live

\* One run at a time, by the invariant.
LEMMA RunsOne == RunInv => OneRunAtATime
<1> SUFFICES ASSUME RunInv PROVE OneRunAtATime
  OBVIOUS
<1>1. LaneOK /\ ChildHeld /\ ChildTypeOK
  BY Typed DEF RunInv
<1>2. Cardinality(queue) + (IF current = NoJob THEN 0 ELSE 1) <= 1
  <2>1. CASE queue = {}
    BY <2>1, FS_EmptySet
  <2>2. CASE queue # {}
    <3>1. current = NoJob /\ \E j \in Jobs : queue = {j}
      BY <1>1, <2>2 DEF LaneOK
    <3>2. Cardinality(queue) = 1
      BY <3>1, FS_Singleton
    <3> QED
      BY <3>1, <3>2
  <2> QED
    BY <2>1, <2>2
<1>3. child.stage \in Live => current # NoJob /\ exec.pc \in Held
  BY <1>1 DEF LaneOK, ChildHeld, Held, Free
<1> QED
  BY <1>1, <1>2, <1>3 DEF OneRunAtATime, Live, Held

\* An agent holds one job at most, and a child is alive only while the lane that
\* started it waits for it or ends it, whatever fails, is stopped or shut down.
THEOREM OneJobOneChild == ChildSpec => []OneRunAtATime
<1> QED
  BY RunsOne, RunHolds, PTL

-----------------------------------------------------------------------------
(* The report of a shard.                                                  *)

\* When all lines were forwarded, the agent knows the files of each kind of line.
LEMMA AllObserved ==
  ASSUME ChildOK(child), reader.offset = Len(child.lines), Sharded,
         NEW types \in SUBSET (FileEnd \cup {"page_done"})
  PROVE  LET forwarded == {child.lines[k] : k \in 1 .. reader.offset}
             files == {line.file : line \in {l \in forwarded : l.type \in types}}
         IN  files = FilesOf(child.lines, types) /\ files \subseteq Files
<1> DEFINE forwarded == {child.lines[k] : k \in 1 .. reader.offset}
           files == {line.file : line \in {l \in forwarded : l.type \in types}}
<1>1. child.lines \in Seq(GoodLine) /\ DOMAIN child.lines = 1 .. reader.offset
  BY DEF ChildOK, ChildTypes
<1>2. \A k \in 1 .. reader.offset : child.lines[k] \in GoodLine
  BY <1>1
<1>3. \A line \in forwarded : line.type \in types => line.file \in Files \ {NoFile}
  BY <1>2 DEF GoodLine, Line, Files, NoFile
<1>4. files = FilesOf(child.lines, types)
  BY <1>1, <1>3 DEF FilesOf
<1>5. files \subseteq Files
  BY <1>3
<1> QED
  BY <1>4, <1>5

\* What the agent knows of a shard when its run is over: all the child wrote.
LEMMA ShardObserved ==
  ASSUME RunInv, exec.pc = "over", Sharded
  PROVE  /\ Status.failed = FilesOf(child.lines, {"file_failed"})
         /\ Status.skipped = FilesOf(child.lines, {"file_skipped"})
         /\ Status.pages = FilesOf(child.lines, {"page_done"})
         /\ Status.terminal = FilesOf(child.lines, FileEnd) /\ Status.terminal \subseteq Files
         /\ reader.offset = Len(child.lines)
<1>1. ChildOK(child) /\ ReaderOK /\ OutcomeOK /\ child.lines \in Seq(GoodLine)
  BY DEF RunInv, ChildHeld, ChildOK, ChildTypes
<1>2. reader.offset = Len(child.lines)
  <2>1. CASE child.stage = "none"
    <3>1. Len(child.lines) = 0
      BY <1>1, <2>1 DEF ChildOK, ChildTypes
    <3> QED
      BY <1>1, <3>1 DEF ReaderOK
  <2>2. CASE child.stage # "none"
    BY <1>1, <2>2 DEF OutcomeOK, Judged, ReaderOK
  <2> QED
    BY <2>1, <2>2
<1>3. /\ {"file_failed"} \in SUBSET (FileEnd \cup {"page_done"})
      /\ {"file_skipped"} \in SUBSET (FileEnd \cup {"page_done"})
      /\ {"page_done"} \in SUBSET (FileEnd \cup {"page_done"})
      /\ FileEnd \in SUBSET (FileEnd \cup {"page_done"})
  BY DEF FileEnd
<1>4. Status.failed = FilesOf(child.lines, {"file_failed"})
  BY <1>1, <1>2, <1>3, AllObserved DEF Status
<1>5. Status.skipped = FilesOf(child.lines, {"file_skipped"})
  BY <1>1, <1>2, <1>3, AllObserved DEF Status
<1>6. Status.pages = FilesOf(child.lines, {"page_done"})
  BY <1>1, <1>2, <1>3, AllObserved DEF Status
<1>7. Status.terminal = FilesOf(child.lines, FileEnd) /\ Status.terminal \subseteq Files
  BY <1>1, <1>2, <1>3, AllObserved DEF Status
<1> QED
  BY <1>2, <1>4, <1>5, <1>6, <1>7

\* The child exited by itself, with all its files and no failure and no stop.
Clean(lines) == /\ child.code = 0 /\ FilesOf(lines, {"file_failed"}) = {}
                /\ Ends(lines) \subseteq {"job_done"}

\* The code of a run that is over is zero exactly of a clean child; one that was
\* not told to stop finished every file.
LEMMA CodeIsTrue ==
  ASSUME RunInv, exec.pc = "over", reader.offset = Len(child.lines)
  PROVE  /\ exec.outcome.code = 0 <=> Clean(child.lines)
         /\ exec.outcome.code = 0 /\ ~stop => FilesOf(child.lines, FileEnd) = Files
<1>1. /\ ChildTypes(child) /\ Progress(child) /\ OutcomeOK /\ StopsOK
      /\ child.lines \in Seq(GoodLine)
  BY DEF RunInv, ChildHeld, ChildOK, ChildTypes
<1>2. DOMAIN child.lines = 1 .. reader.offset /\ \A k \in 1 .. reader.offset : child.lines[k] \in GoodLine
  BY <1>1
<1>3. CASE child.stage = "none" /\ exec.outcome.code = 1
  <2>1. child.code # 0
    BY <1>1, <1>3 DEF ChildTypes, Alive
  <2> QED
    BY <1>3, <2>1 DEF Clean
<1>4. CASE Judged(exec.outcome.code)
  <2>1. CASE child.code # 0
    BY <1>4, <2>1 DEF Judged, Clean
  <2>2. CASE child.code = 0
    <3>1. Status.fileFailed <=> FilesOf(child.lines, {"file_failed"}) # {}
      <4>1. \A k \in 1 .. reader.offset : child.lines[k].type = "file_failed" =>
                                            child.lines[k].file # NoFile
        BY <1>2 DEF GoodLine, FileEnd
      <4>2. Status.fileFailed <=> \E k \in 1 .. reader.offset : child.lines[k].type = "file_failed"
        BY DEF Status
      <4>3. FilesOf(child.lines, {"file_failed"}) # {}
              <=> \E k \in 1 .. reader.offset : child.lines[k].type = "file_failed"
        <5>1. ASSUME NEW k \in 1 .. reader.offset, child.lines[k].type = "file_failed"
              PROVE  child.lines[k].file \in FilesOf(child.lines, {"file_failed"})
          BY <1>2, <4>1, <5>1 DEF FilesOf
        <5>2. ASSUME NEW f \in FilesOf(child.lines, {"file_failed"})
              PROVE  \E k \in 1 .. reader.offset : child.lines[k].type = "file_failed"
          BY <1>2 DEF FilesOf
        <5> QED
          BY <5>1, <5>2
      <4> QED
        BY <4>2, <4>3
    <3>2. Status.jobStopped \/ Status.jobFailed <=> ~(Ends(child.lines) \subseteq {"job_done"})
      BY <1>2 DEF Status, Ends, JobEnd
    <3>3. exec.outcome.code = 0 <=> Clean(child.lines)
      BY <1>4, <2>2, <3>1, <3>2 DEF Judged, Clean
    <3>4. ASSUME ~stop PROVE FilesOf(child.lines, FileEnd) = Files
      <4>1. ~child.told
        BY <1>1, <3>4 DEF StopsOK
      <4>2. AllEnded(child.lines)
        BY <1>1, <2>2, <4>1 DEF Progress
      <4>3. Files \subseteq FilesOf(child.lines, FileEnd)
        BY <4>2 DEF AllEnded, EndedIn, FilesOf, Files, NoFile
      <4>4. FilesOf(child.lines, FileEnd) \subseteq Files
        BY <1>2 DEF FilesOf, GoodLine, Line
      <4> QED
        BY <4>3, <4>4
    <3> QED
      BY <3>3, <3>4
  <2> QED
    BY <2>1, <2>2
<1> QED
  BY <1>1, <1>3, <1>4 DEF OutcomeOK

\* The verdict of a report, and what it counts.
LEMMA TerminalFields ==
  ASSUME NEW code, NEW stopped \in BOOLEAN
  PROVE  LET r == Terminal(code, stopped)
             seen == Cardinality(Status.terminal)
         IN  /\ r.failed = Cardinality(Status.failed) /\ r.skipped = Cardinality(Status.skipped)
             /\ r.pages = Cardinality(Status.pages)
             /\ r.processed = seen \/ (r.processed = Cardinality(Files) /\ seen < Cardinality(Files))
             /\ r.status = "succeeded" => ~stopped /\ code = 0
             /\ r.status = "failed" => ~stopped /\ code # 0
<1>1. CASE stopped
  BY <1>1 DEF Terminal
<1>2. CASE ~stopped /\ code = 0
  BY <1>2 DEF Terminal
<1>3. CASE ~stopped /\ code # 0
  BY <1>3 DEF Terminal
<1> QED
  BY <1>1, <1>2, <1>3

\* Only the end of a shard writes a report, and a new job has none.
LEMMA ReportKept ==
  ASSUME RunInv, [ChildNext]_childVars
  PROVE  \/ report' = report \/ report' = NoReport
         \/ exec.pc = "over" /\ Sharded /\ report' = Terminal(exec.outcome.code, stop)
            /\ UNCHANGED lost
<1>1. faults \in 0 .. MaxFaults
  BY DEF RunInv, LaneOK
<1>2. CASE ChildStep
  BY <1>1, <1>2, ChildAlone
<1>3. CASE Reap \/ StreamsEnd
  BY <1>3 DEF Reap, StreamsEnd
<1>4. CASE ReaderStep
  BY <1>4 DEF ReaderStep, ReadLines, ForwardLines, ReaderOnly
<1>5. CASE StopperStep
  BY <1>5 DEF StopperStep, AskStop, TellStopping, StopperTerm, StopperKill, StopperDone, StopperOnly
<1>6. CASE TakeJob
  BY <1>6 DEF TakeJob
<1>7. CASE AskJob \/ GetJob \/ RequestStop \/ RequestShutdown \/ Shutdown
  BY <1>7 DEF AskJob, GetJob, RequestStop, RequestShutdown, Shutdown, OutsideExec
<1>8. CASE EndShardRun
  BY <1>8 DEF EndShardRun
<1>9. CASE StartChild \/ TermChild \/ KillChild \/ RunBroken \/ LaneReports \/ EndDirect
  BY <1>9 DEF StartChild, TermChild, KillChild, RunBroken, LaneReports, EndDirect
<1>10. CASE Resolve \/ Publish \/ TaskFailed
  BY <1>10 DEF Resolve, Publish, TaskFailed, KeptExec, QuietExec
<1>11. CASE UNCHANGED childVars
  BY <1>11 DEF childVars
<1> QED
  BY <1>2, <1>3, <1>4, <1>5, <1>6, <1>7, <1>8, <1>9, <1>10, <1>11 DEF ChildNext, ExecStep

\* What the terminal update of a shard says when it is sent.
ReportsTruly ==
  report' # report /\ report' # NoReport =>
    LET r == report'
        clean == child.code = 0 /\ FilesOf(child.lines, {"file_failed"}) = {}
                 /\ Ends(child.lines) \subseteq {"job_done"}
    IN /\ r.failed = Cardinality(FilesOf(child.lines, {"file_failed"}))
       /\ r.skipped = Cardinality(FilesOf(child.lines, {"file_skipped"}))
       /\ r.pages = Cardinality(FilesOf(child.lines, {"page_done"}))
       /\ r.processed >= Cardinality(FilesOf(child.lines, FileEnd))
       /\ r.status = "succeeded" => clean /\ FilesOf(child.lines, FileEnd) = Files
       /\ r.status = "failed" => ~clean

\* It is true, by the invariant.
LEMMA ReportsTrulyStep ==
  ASSUME RunInv, [ChildNext]_childVars
  PROVE  ReportsTruly
<1> SUFFICES ASSUME report' # report, report' # NoReport PROVE ReportsTruly
  BY DEF ReportsTruly
<1>1. exec.pc = "over" /\ Sharded /\ report' = Terminal(exec.outcome.code, stop)
  BY ReportKept
<1>2. stop \in BOOLEAN
  BY DEF RunInv, StopsOK
<1>3. /\ Status.failed = FilesOf(child.lines, {"file_failed"})
      /\ Status.skipped = FilesOf(child.lines, {"file_skipped"})
      /\ Status.pages = FilesOf(child.lines, {"page_done"})
      /\ Status.terminal = FilesOf(child.lines, FileEnd) /\ Status.terminal \subseteq Files
      /\ reader.offset = Len(child.lines)
  BY <1>1, ShardObserved
<1>4. /\ exec.outcome.code = 0 <=> Clean(child.lines)
      /\ exec.outcome.code = 0 /\ ~stop => FilesOf(child.lines, FileEnd) = Files
  BY <1>1, <1>3, CodeIsTrue
<1> DEFINE seen == Cardinality(Status.terminal)
<1>5. /\ report'.failed = Cardinality(Status.failed) /\ report'.skipped = Cardinality(Status.skipped)
      /\ report'.pages = Cardinality(Status.pages)
      /\ report'.processed = seen \/ (report'.processed = Cardinality(Files) /\ seen < Cardinality(Files))
      /\ report'.status = "succeeded" => ~stop /\ exec.outcome.code = 0
      /\ report'.status = "failed" => ~stop /\ exec.outcome.code # 0
  BY <1>1, <1>2, TerminalFields
<1>6. seen \in Nat /\ Cardinality(Files) \in Nat
  <2>1. IsFiniteSet(Files)
    BY FS_Interval DEF Files
  <2>2. IsFiniteSet(Status.terminal)
    BY <1>3, <2>1, FS_Subset
  <2> QED
    BY <2>1, <2>2, FS_CardinalityType
<1>7. report'.processed >= seen
  BY <1>5, <1>6
<1> QED
  BY <1>3, <1>4, <1>5, <1>7 DEF Clean, ReportsTruly

\* The terminal update of a shard counts every file the child finished, up to its
\* last line; it says succeeded only of a child that exited by itself, reported
\* every file of the shard and no failure and no stop, and failed only of one that
\* did not do all this, however child, signals, forwarding and exit interleave.
THEOREM ReportAlwaysTrue == ChildSpec => ReportIsTrue
<1>1. RunInv /\ [ChildNext]_childVars => [ReportsTruly]_childVars
  BY ReportsTrulyStep
<1> QED
  BY <1>1, RunHolds, PTL DEF ChildSpec, ReportIsTrue, ReportsTruly

-----------------------------------------------------------------------------
(* The end of a direct job.                                                *)

\* The steps that let go of a job while the agent is up end its run or report
\* why it has none.
LEMMA Goes ==
  ASSUME RunInv, [ChildNext]_childVars, current # NoJob, current' = NoJob
  PROVE  LaneReports \/ EndDirect \/ EndShardRun \/ RunBroken \/ Shutdown
<1>0. LaneOK
  BY DEF RunInv
<1>1. CASE ChildStep
  BY <1>0, <1>1, ChildAlone DEF LaneOK
<1>2. CASE Reap \/ StreamsEnd
  BY <1>2 DEF Reap, StreamsEnd
<1>3. CASE ReaderStep
  BY <1>3 DEF ReaderStep, ReadLines, ForwardLines, ReaderOnly
<1>4. CASE StopperStep
  BY <1>4 DEF StopperStep, AskStop, TellStopping, StopperTerm, StopperKill, StopperDone, StopperOnly
<1>5. CASE TakeJob
  BY <1>0, <1>5 DEF TakeJob, LaneOK
<1>6. CASE AskJob \/ GetJob \/ RequestStop \/ RequestShutdown
  BY <1>6 DEF AskJob, GetJob, RequestStop, RequestShutdown, OutsideExec
<1>7. CASE StartChild \/ TermChild \/ KillChild
  BY <1>7 DEF StartChild, TermChild, KillChild
<1>8. CASE Resolve \/ Publish \/ TaskFailed
  BY <1>8 DEF Resolve, Publish, TaskFailed, KeptExec, QuietExec
<1>9. CASE UNCHANGED childVars
  BY <1>9 DEF childVars
<1> QED
  BY <1>1, <1>2, <1>3, <1>4, <1>5, <1>6, <1>7, <1>8, <1>9 DEF ChildNext, ExecStep

\* Control is told when a direct job is let go of.
EndsTold ==
  current \notin ShardJobs \cup {NoJob} /\ current' = NoJob /\ agent = "up" /\ ~lost'
    => heard' \cap JobEnd # {}

\* It is, by the invariant.
LEMMA EndsToldStep ==
  ASSUME RunInv, [ChildNext]_childVars
  PROVE  EndsTold
<1> SUFFICES ASSUME current \notin ShardJobs \cup {NoJob}, current' = NoJob, agent = "up", ~lost'
             PROVE  heard' \cap JobEnd # {}
  BY DEF EndsTold
<1>0. LaneOK /\ HeardOK /\ ~Sharded /\ "job_failed" \in JobEnd
  BY DEF RunInv, Sharded, JobEnd
<1>1. CASE LaneReports
  BY <1>0, <1>1 DEF LaneReports, Tell, Loses
<1>2. CASE EndDirect
  BY <1>0, <1>2 DEF EndDirect, HeardOK
<1>3. CASE EndShardRun
  BY <1>0, <1>3 DEF EndShardRun
<1>4. CASE RunBroken
  BY <1>0, <1>4 DEF RunBroken, LaneOK
<1>5. CASE Shutdown
  BY <1>5 DEF Shutdown
<1> QED
  BY <1>1, <1>2, <1>3, <1>4, <1>5, Goes

\* Control is told an end of every job the agent executed directly and lets go of
\* while it is up, however the child, its tasks or control's answers ended it;
\* unless the end was written nowhere or refused.
THEOREM EndsAlwaysTold == ChildSpec => EndsAreTold
<1>1. RunInv /\ [ChildNext]_childVars => [EndsTold]_childVars
  BY EndsToldStep
<1> QED
  BY <1>1, RunHolds, PTL DEF ChildSpec, EndsAreTold, EndsTold

HIDE ChildAssumption

-----------------------------------------------------------------------------
(* The New Job page.                                                       *)

PageFields == {"draft", "auto", "banner", "enabled", "known", "timer", "calls", "passed",
               "created", "clicks", "faults"}

\* What is about to be created was checked, and what was checked stays so.
WizardHolds ==
  /\ DOMAIN subject = PageFields
  /\ subject.created \subseteq subject.passed
  /\ \A c \in subject.calls : c.kind \in {"message", "create"} => c.draft \in subject.passed

\* The page of JobWizard creates only what was checked.
LEMMA WizardKeeps ==
  /\ Wizard!PageInit => WizardHolds
  /\ WizardHolds /\ Wizard!PageNext => WizardHolds'
<1> USE DEF WizardHolds, PageFields
<1>1. Wizard!PageInit => WizardHolds
  BY DEF Wizard!PageInit
<1>2. ASSUME WizardHolds, Wizard!PageNext PROVE WizardHolds'
  <2> USE <1>2 DEF Wizard!Becomes, Wizard!Clicks, Wizard!Invalidated, Wizard!Call, Wizard!Sends,
                   Wizard!Done, Wizard!ClearSecret
  <2>1. CASE Wizard!Operator
    <3>1. CASE Wizard!EditInput
      BY <3>1 DEF Wizard!EditInput
    <3>2. CASE Wizard!EditWorker
      BY <3>2 DEF Wizard!EditWorker
    <3>3. CASE Wizard!EditRoot
      BY <3>3 DEF Wizard!EditRoot
    <3>4. CASE Wizard!EditKey
      BY <3>4 DEF Wizard!EditKey
    <3>5. CASE Wizard!Leave
      BY <3>5 DEF Wizard!Leave
    <3>6. CASE Wizard!ClickPreflight
      BY <3>6 DEF Wizard!ClickPreflight
    <3>7. CASE Wizard!ClickCreate
      BY <3>7 DEF Wizard!ClickCreate
    <3> QED
      BY <2>1, <3>1, <3>2, <3>3, <3>4, <3>5, <3>6, <3>7 DEF Wizard!Operator
  <2>2. CASE Wizard!TimerFires
    BY <2>2 DEF Wizard!TimerFires
  <2>3. CASE Wizard!ServersListed
    BY <2>3 DEF Wizard!ServersListed, Wizard!Scheduled
  <2>4. ASSUME NEW c \in subject.calls, Wizard!Answered(c) PROVE WizardHolds'
    <3>1. CASE Wizard!PathsAnswered(c)
      BY <3>1 DEF Wizard!PathsAnswered, Wizard!WithRoot
    <3>2. CASE Wizard!PreflightAnswered(c)
      BY <3>2 DEF Wizard!PreflightAnswered, Wizard!Told
    <3>3. CASE Wizard!CreateGoesOn(c)
      <4> DEFINE told == Wizard!Told(Wizard!Done(c), c, TRUE)
                 next == [kind |-> IF subject.known = Wizard!Empty /\ c.draft.input # Wizard!Empty
                                     THEN "message" ELSE "create",
                          draft |-> c.draft]
      <4>1. CASE subject' = Wizard!Told(Wizard!Done(c), c, FALSE)
        BY <4>1 DEF Wizard!Told
      <4>2. CASE subject' = [told EXCEPT !.calls = @ \cup {next}]
        <5>1. /\ DOMAIN told = PageFields /\ told.created = subject.created
              /\ told.calls = subject.calls \ {c} /\ told.passed = subject.passed \cup {c.draft}
          BY DEF Wizard!Told
        <5>2. /\ DOMAIN subject' = PageFields /\ subject'.created = subject.created
              /\ subject'.calls = (subject.calls \ {c}) \cup {next}
              /\ subject'.passed = subject.passed \cup {c.draft}
          BY <4>2, <5>1
        <5> QED
          BY <5>2
      <4> QED
        BY <3>3, <4>1, <4>2 DEF Wizard!CreateGoesOn, Wizard!FromPreflight
    <3>4. CASE Wizard!PathsForMessage(c)
      BY <3>4 DEF Wizard!PathsForMessage
    <3>5. CASE Wizard!Created(c)
      BY <3>5 DEF Wizard!Created
    <3> QED
      BY <2>4, <3>1, <3>2, <3>3, <3>4, <3>5 DEF Wizard!Answered
  <2>5. ASSUME NEW c \in subject.calls, Wizard!CallFails(c) PROVE WizardHolds'
    BY <2>5 DEF Wizard!CallFails
  <2> QED
    BY <2>1, <2>2, <2>3, <2>4, <2>5 DEF Wizard!PageNext, Wizard!Browser
<1> QED
  BY <1>1, <1>2

-----------------------------------------------------------------------------
(* A worker that is archived.                                              *)

FleetFields == {"fresh", "archived", "alive", "held", "job", "shard", "archive", "claim",
                "counted", "between", "archives", "silences", "crashes"}
Verdicts == {"succeeded", "stopped"}
Before == {"none", "checked"}

FleetTypes ==
  /\ DOMAIN subject = FleetFields
  /\ DOMAIN subject.job = Pinned /\ DOMAIN subject.shard = Pinned
  /\ \A j \in Pinned : subject.job[j] \in Before \cup {"queued", "running"} \cup Verdicts
  /\ DOMAIN subject.archive = {"pc", "todo", "wrote", "ended"}
  /\ DOMAIN subject.claim = {"pc", "job"}
  /\ subject.archive.todo \cup subject.archive.wrote \cup subject.counted \subseteq Pinned
  /\ subject.archive.ended \subseteq subject.archive.wrote
  /\ subject.archive.pc \in {"idle", "queued", "stop", "shards", "count", "commit"}
  /\ subject.archive.pc = "idle" <=> subject.archive = Archive!NoArchive

\* What the archive has read stays true as far as it matters: its jobs were there,
\* those it has stopped have no shard waiting that it leaves, unless the worker was
\* started again; those it does not stop have their verdict.
ArchiveHolds ==
  LET a == subject.archive IN
  /\ FleetTypes
  /\ a.pc # "idle" => ~ subject.archived
  /\ a.pc = "queued" => a.wrote = {}
  /\ \A j \in a.todo \cup a.wrote : subject.job[j] \notin Before
  /\ a.pc \in {"count", "commit"} =>
       \A j \in subject.counted : j \in a.wrote \/ subject.job[j] \in Verdicts
  /\ subject.archived => \A j \in subject.counted : subject.job[j] \in Verdicts
  /\ ~ subject.between /\ a.pc \in {"stop", "count", "commit"} =>
       \A j \in a.wrote \ a.ended : subject.shard[j] # "waiting"
  /\ ~ subject.between /\ a.pc = "commit" =>
       \A j \in a.wrote \ a.ended : subject.shard[j] # "running"
  /\ ~ subject.between => \A j \in Pinned : subject.job[j] = "stopped" => subject.shard[j] # "running"

\* Archiving holds against claims, creations, heartbeats and restarts of the worker.
LEMMA ArchiveKeeps ==
  /\ Archive!FleetInit => ArchiveHolds
  /\ ArchiveHolds /\ Archive!FleetNext => ArchiveHolds'
  /\ ArchiveHolds => Archive!ArchivedIsIdle
<1> USE DEF ArchiveHolds, FleetTypes, FleetFields, Verdicts, Before, Archive!NoArchive, Archive!NoClaim
<1>1. Archive!FleetInit => ArchiveHolds
  BY DEF Archive!FleetInit
<1>2. ASSUME ArchiveHolds, Archive!FleetNext PROVE ArchiveHolds'
  <2> USE <1>2 DEF Archive!Becomes, Archive!Heard, Archive!In, Archive!ArchiveGoes
  <2>1. CASE Archive!Heartbeat
    BY <2>1 DEF Archive!Heartbeat
  <2>2. CASE Archive!Register
    BY <2>2 DEF Archive!Register
  <2>3. ASSUME NEW j \in Pinned, Archive!CreateCommits(j) PROVE ArchiveHolds'
    BY <2>3 DEF Archive!CreateCommits
  <2>4. CASE Archive!ClaimReads
    BY <2>4 DEF Archive!ClaimReads
  <2>5. CASE Archive!ClaimLooks
    BY <2>5 DEF Archive!ClaimLooks, Archive!Given
  <2>6. CASE Archive!ClaimTakes
    BY <2>6 DEF Archive!ClaimTakes, Archive!Given, Archive!JobLocked
  <2>7. CASE Archive!RunShard
    BY <2>7 DEF Archive!RunShard, Archive!ShardLocked
  <2>8. CASE Archive!FinishJob
    BY <2>8 DEF Archive!FinishJob, Archive!JobLocked
  <2>9. CASE Archive!LeaveJob
    BY <2>9 DEF Archive!LeaveJob
  <2>10. CASE Archive!ArchiveReads
    BY <2>10 DEF Archive!ArchiveReads
  <2>11. CASE Archive!SelectsQueued
    BY <2>11 DEF Archive!SelectsQueued
  <2>12. CASE Archive!WritesStop
    <3>1. PICK j \in subject.archive.todo :
             subject' = [Archive!ArchiveGoes("shards") EXCEPT
                           !.archive.todo = @ \ {j}, !.archive.wrote = @ \union {j}]
      BY <2>12 DEF Archive!WritesStop
    <3>2. /\ DOMAIN subject' = FleetFields
          /\ subject'.job = subject.job /\ subject'.shard = subject.shard
          /\ subject'.archived = subject.archived /\ subject'.claim = subject.claim
          /\ subject'.counted = subject.counted /\ subject'.between = subject.between
          /\ DOMAIN subject'.archive = {"pc", "todo", "wrote", "ended"}
          /\ subject'.archive.pc = "shards" /\ subject'.archive.todo = subject.archive.todo \ {j}
          /\ subject'.archive.wrote = subject.archive.wrote \union {j}
          /\ subject'.archive.ended = subject.archive.ended
      BY <3>1
    <3> QED
      BY <2>12, <3>2 DEF Archive!WritesStop
  <2>13. CASE Archive!StopsShards
    BY <2>13 DEF Archive!StopsShards
  <2>14. CASE Archive!CountsJobs
    BY <2>14 DEF Archive!CountsJobs, Archive!OpenJobs, Archive!Refused, Archive!Open
  <2>15. CASE Archive!CountsShards
    BY <2>15 DEF Archive!CountsShards, Archive!RunningShards, Archive!Refused
  <2>16. CASE Archive!ArchiveCommits
    BY <2>16 DEF Archive!ArchiveCommits, Archive!Stopped
  <2>17. CASE Archive!Crash
    BY <2>17 DEF Archive!Crash
  <2>18. CASE Archive!FallSilent
    BY <2>18 DEF Archive!FallSilent
  <2>19. ASSUME NEW j \in Pinned, Archive!CreateLooks(j) PROVE ArchiveHolds'
    BY <2>19 DEF Archive!CreateLooks
  <2> QED
    BY <2>1, <2>2, <2>3, <2>4, <2>5, <2>6, <2>7, <2>8, <2>9, <2>10, <2>11, <2>12, <2>13, <2>14,
       <2>15, <2>16, <2>17, <2>18, <2>19
    DEF Archive!FleetNext, Archive!Goes, Archive!ArchiveSteps
<1>3. ArchiveHolds => Archive!ArchivedIsIdle
  BY DEF Archive!ArchivedIsIdle, Archive!Open
<1> QED
  BY <1>1, <1>2, <1>3

-----------------------------------------------------------------------------
(* The uploader.                                                           *)

USE UploadAssumption

Task == [key : Upload!Keys, size : Sizes, force : BOOLEAN]
Working == {"head", "put", "append"}
NowFields == {"phase", "queue", "joined", "sentinels", "entries", "file", "remote", "caller",
              "worker", "stats"}
Full(seq) == seq # <<>>

CallerTypes(caller) ==
  /\ DOMAIN caller = {"pc", "todo", "doc"} /\ caller.pc \in {"rest", "put", "ask"}
  /\ caller.pc = "put" => caller.todo \in Seq(Task) /\ Full(caller.todo)
  /\ caller.pc = "ask" =>
       caller.doc \in Docs /\ caller.todo \in Seq(Upload!Keys) /\ Full(caller.todo)

WorkerTypes(worker) ==
  /\ DOMAIN worker = {"pc", "task", "status"} /\ worker.pc \in {"get", "gone"} \cup Working
  /\ worker.pc \in Working => worker.task \in Task
  /\ worker.pc = "append" => worker.status \in {"uploaded", "skipped"}

NowTypes(now) ==
  /\ DOMAIN now = NowFields
  /\ now.phase \in {"started", "closing", "closed"}
  /\ now.queue \in Seq(Task \cup {Upload!Sentinel}) /\ Len(now.queue) <= Room
  /\ now.joined \in BOOLEAN /\ now.sentinels \in Nat
  /\ now.remote \in [Upload!Keys -> Sizes \cup {Upload!Nothing}]
  /\ DOMAIN now.caller = Callers /\ \A c \in Callers : CallerTypes(now.caller[c])
  /\ DOMAIN now.worker = Uploaders /\ \A w \in Uploaders : WorkerTypes(now.worker[w])
  /\ now.stats \in [uploaded : Nat, skipped : Nat, failed : Nat]

UploadTypes ==
  /\ DOMAIN subject = {"now", "prepared", "stored", "told", "calls", "runs", "faults"}
  /\ NowTypes(subject.now) /\ subject.prepared \in Nat
  /\ subject.told \subseteq Docs

\* Cardinality is the same operator wherever it comes from.
LEMMA UploadCardinality == \A S : Upload!Cardinality(S) = Cardinality(S)
  BY DEF Cardinality, Upload!Cardinality

\* A caller that puts the first n of its tasks, and waits with the rest when the queue
\* is full.
Fits(now, c, todo, next, n) ==
  /\ n \in 0 .. Len(todo)
  /\ next.queue = now.queue \o SubSeq(todo, 1, n)
  /\ next.queue \in Seq(Task \cup {Upload!Sentinel}) /\ Len(next.queue) <= Room
  /\ Len(next.queue) = Len(now.queue) + n
  /\ next = [now EXCEPT !.queue = next.queue, !.entries = next.entries,
                        !.caller[c] = next.caller[c]]
  /\ next.entries \subseteq now.entries
  /\ n = Len(todo) => next.caller[c] = Upload!Resting
  /\ n < Len(todo) => /\ Len(next.queue) = Room
                      /\ next.caller[c] = [pc |-> "put", doc |-> "none",
                                           todo |-> SubSeq(todo, n + 1, Len(todo))]

\* A caller puts what there is room for.
LEMMA PutsWhatFits ==
  ASSUME NEW now, NowTypes(now), NEW c \in Callers, NEW todo \in Seq(Task)
  PROVE  \E n \in Nat : Fits(now, c, todo, Upload!Puts(now, c, todo), n)
<1>q. PICK q : q = now.queue
  OBVIOUS
<1>next. PICK next : next = Upload!Puts(now, c, todo)
  OBVIOUS
<1>a. /\ q \in Seq(Task \cup {Upload!Sentinel}) /\ Len(q) <= Room
  BY <1>q DEF NowTypes
<1>b. PICK a \in Nat : a = Len(q)
  BY <1>a
<1>c. PICK b \in Nat : b = Len(todo)
  OBVIOUS
<1> DEFINE room == IF b <= Room - a THEN b ELSE Room - a
<1>1. PICK n : n = room
  OBVIOUS
<1>2. n \in 0 .. b /\ (n < b => a + n = Room) /\ a + n <= Room
  BY <1>a, <1>b, <1>1
<1> DEFINE put == SubSeq(todo, 1, n)
           reached == SubSeq(todo, 1, IF n < b THEN n + 1 ELSE n)
           entries == now.entries \ {Upload!Entry(reached[k]) : k \in {k \in DOMAIN reached : reached[k].force}}
           resting == IF n = b THEN Upload!Resting
                      ELSE [pc |-> "put", todo |-> SubSeq(todo, n + 1, b), doc |-> "none"]
<1>3. next = [now EXCEPT !.queue = q \o put, !.entries = entries, !.caller[c] = resting]
  BY <1>1, <1>next, <1>q, <1>b, <1>c DEF Upload!Puts
<1>4. put \in Seq(Task \cup {Upload!Sentinel}) /\ Len(put) = n
  <2>1. put \in Seq(Task) /\ Len(put) = n
    BY <1>2, <1>c
  <2> QED
    BY <2>1
<1> HIDE DEF put
<1>5. q \o put \in Seq(Task \cup {Upload!Sentinel}) /\ Len(q \o put) = a + n
  BY <1>a, <1>b, <1>4
<1>6. entries \subseteq now.entries
  OBVIOUS
<1>7. /\ n = b => resting = Upload!Resting
      /\ n < b => resting = [pc |-> "put", todo |-> SubSeq(todo, n + 1, b), doc |-> "none"]
  BY <1>2
<1> HIDE DEF entries, resting, reached, room
<1>8. next.queue = q \o put /\ next.entries = entries /\ next.caller[c] = resting
  BY <1>3 DEF NowTypes, NowFields
<1>9. next = [now EXCEPT !.queue = next.queue, !.entries = next.entries, !.caller[c] = next.caller[c]]
  BY <1>3, <1>8
<1>10. Len(next.queue) <= Room /\ (n < b => Len(next.queue) = Room) /\ n \in Nat
  BY <1>2, <1>5, <1>8
<1>11. Fits(now, c, todo, next, n)
  BY <1>2, <1>5, <1>6, <1>7, <1>8, <1>9, <1>10, <1>q, <1>b, <1>c DEF Fits, put
<1> QED
  BY <1>10, <1>11, <1>next

\* A run begins.
LEMMA FreshTypes ==
  ASSUME NEW file, NEW remote \in [Upload!Keys -> Sizes \cup {Upload!Nothing}]
  PROVE  NowTypes(Upload!Fresh(file, remote))
<1> DEFINE fresh == Upload!Fresh(file, remote)
<1>1. CallerTypes(Upload!Resting) /\ WorkerTypes(Upload!Fetching)
  BY DEF CallerTypes, WorkerTypes, Working, Full, Upload!Resting, Upload!Fetching
<1>2. <<>> \in Seq(Task \cup {Upload!Sentinel}) /\ Len(<<>>) <= Room
  OBVIOUS
<1>3. Upload!Tally \in [uploaded : Nat, skipped : Nat, failed : Nat]
  BY DEF Upload!Tally
<1>4. Cardinality(Uploaders) \in Nat
  BY FS_CardinalityType
<1>0. DOMAIN fresh = NowFields
  BY Zenon DEF Upload!Fresh, NowFields
<1> USE DEF Upload!Fresh
<1>5. fresh.phase = "started" /\ fresh.queue = <<>> /\ fresh.remote = remote
  OBVIOUS
<1>5a. fresh.sentinels \in Nat
  BY <1>4, UploadCardinality
<1>5c. fresh.stats \in [uploaded : Nat, skipped : Nat, failed : Nat]
  BY <1>3
<1>5b. fresh.joined \in BOOLEAN
  OBVIOUS
<1>6. /\ DOMAIN fresh.caller = Callers /\ \A c \in Callers : fresh.caller[c] = Upload!Resting
      /\ DOMAIN fresh.worker = Uploaders /\ \A w \in Uploaders : fresh.worker[w] = Upload!Fetching
  BY DEF Upload!Fresh
<1> HIDE DEF fresh
<1>7. NowTypes(fresh)
  BY <1>1, <1>2, <1>0, <1>5, <1>5a, <1>5b, <1>5c, <1>6 DEF NowTypes
<1> QED
  BY <1>7 DEF fresh

\* The tasks of a document.
LEMMA TasksOf ==
  ASSUME NEW d \in Docs, NEW size \in Sizes, NEW force \in BOOLEAN
  PROVE  [n \in DOMAIN Artifacts[d] |->
            [key |-> Artifacts[d][n], size |-> size, force |-> force]] \in Seq(Task)
<1> DEFINE tasks == [n \in DOMAIN Artifacts[d] |->
                       [key |-> Artifacts[d][n], size |-> size, force |-> force]]
<1>1. PICK n \in Nat : Artifacts[d] \in [1 .. n -> Upload!Keys]
  BY SeqDef
<1>2. tasks \in [1 .. n -> Task]
  BY <1>1 DEF Task
<1>3. tasks \in Seq(Task)
  BY <1>2, SeqDef
<1> QED
  BY <1>3

\* A task names a key, and has a size.
LEMMA TaskFields ==
  ASSUME NEW task \in Task
  PROVE  task.key \in Upload!Keys /\ task.size \in Sizes /\ task.size # Upload!Nothing
<1>1. task.key \in Upload!Keys /\ task.size \in Sizes
  BY DEF Task
<1>2. task.size \in Nat
  BY <1>1
<1> QED
  BY <1>1, <1>2 DEF Upload!Nothing

\* The types hold at every step.
LEMMA UploadTypesKept ==
  /\ Upload!UploadInit => UploadTypes
  /\ UploadTypes /\ Upload!UploadNext => UploadTypes'
<1> USE DEF UploadTypes
<1>1. Upload!UploadInit => UploadTypes
  <2> SUFFICES ASSUME Upload!UploadInit PROVE UploadTypes
    OBVIOUS
  <2>2. NowTypes(Upload!Fresh({}, Upload!NoObjects))
    BY FreshTypes DEF Upload!NoObjects
  <2> QED
    BY <2>2 DEF Upload!UploadInit
<1>2. ASSUME UploadTypes, Upload!UploadNext PROVE UploadTypes'
  <2> DEFINE now == subject.now
  <2> USE <1>2 DEF Upload!Now, Upload!Becomes, Upload!Faults, Upload!Goes
  <2>0. NowTypes(now)
    OBVIOUS
  <2>1. ASSUME NEW w \in Uploaders, Upload!GetTask(w) PROVE UploadTypes'
    <3> DEFINE task == Head(now.queue)
               taken == [now EXCEPT !.queue = Tail(@), !.worker[w].pc = "head", !.worker[w].task = task]
    <3>1. /\ now.queue # <<>> /\ now.worker[w].pc = "get"
          /\ subject' = [subject EXCEPT !.now =
               IF task = Upload!Sentinel THEN [taken EXCEPT !.worker[w].pc = "gone"]
               ELSE IF task.force THEN [taken EXCEPT !.worker[w].pc = "put"] ELSE taken]
      BY <2>1 DEF Upload!GetTask
    <3>2. /\ task \in Task \cup {Upload!Sentinel}
          /\ Tail(now.queue) \in Seq(Task \cup {Upload!Sentinel}) /\ Len(Tail(now.queue)) <= Room
      BY <3>1 DEF NowTypes
    <3> HIDE DEF task
    <3> DEFINE pc == IF task = Upload!Sentinel THEN "gone" ELSE IF task.force THEN "put" ELSE "head"
               next == [now EXCEPT !.queue = Tail(@),
                                   !.worker[w] = [now.worker[w] EXCEPT !.pc = pc, !.task = task]]
    <3>3. subject' = [subject EXCEPT !.now = next]
      <4> DEFINE head == [now EXCEPT !.queue = Tail(@),
                            !.worker[w] = [now.worker[w] EXCEPT !.pc = "head", !.task = task]]
      <4>1. DOMAIN now = NowFields /\ DOMAIN now.worker = Uploaders /\ DOMAIN now.worker[w] = {"pc", "task", "status"}
        BY DEF NowTypes, WorkerTypes
      <4>2. taken = head
        BY <4>1 DEF NowFields
      <4>3. \A x : [head EXCEPT !.worker[w].pc = x] =
              [now EXCEPT !.queue = Tail(@), !.worker[w] = [now.worker[w] EXCEPT !.pc = x, !.task = task]]
        BY <4>1 DEF NowFields
      <4> HIDE DEF head, taken
      <4>4. CASE task = Upload!Sentinel
        BY <3>1, <4>2, <4>3, <4>4
      <4>5. CASE task # Upload!Sentinel /\ task.force
        BY <3>1, <4>2, <4>3, <4>5
      <4>6. CASE task # Upload!Sentinel /\ ~ task.force
        BY <3>1, <4>2, <4>6 DEF head
      <4> QED
        BY <4>4, <4>5, <4>6
    <3>4. WorkerTypes([now.worker[w] EXCEPT !.pc = pc, !.task = task])
      BY <3>2 DEF NowTypes, WorkerTypes, Working
    <3> HIDE DEF pc
    <3>5. NowTypes(next)
      BY <3>2, <3>4 DEF NowTypes, NowFields
    <3> QED
      BY <3>3, <3>5
  <2>2. ASSUME NEW w \in Uploaders, Upload!HeadAnswered(w) PROVE UploadTypes'
    <3>1. WorkerTypes([now.worker[w] EXCEPT !.pc = "append", !.status = "skipped"])
      BY <2>2 DEF Upload!HeadAnswered, NowTypes, WorkerTypes, Working
    <3>2. WorkerTypes([now.worker[w] EXCEPT !.pc = "put"])
      BY <2>2 DEF Upload!HeadAnswered, NowTypes, WorkerTypes, Working
    <3>3. NowTypes(subject'.now)
      BY <2>2, <3>1, <3>2 DEF Upload!HeadAnswered, Upload!Appends, NowTypes, NowFields
    <3> QED
      BY <2>2, <3>3 DEF Upload!HeadAnswered
  <2>3. ASSUME NEW w \in Uploaders, Upload!HeadFails(w) PROVE UploadTypes'
    <3>1. WorkerTypes([now.worker[w] EXCEPT !.pc = "put"])
      BY <2>3 DEF Upload!HeadFails, NowTypes, WorkerTypes, Working
    <3>2. NowTypes(Upload!Goes(now, w, "put"))
      BY <3>1 DEF NowTypes, NowFields
    <3> QED
      BY <2>3, <3>2 DEF Upload!HeadFails
  <2>4. ASSUME NEW w \in Uploaders, Upload!Uploaded(w) PROVE UploadTypes'
    <3> DEFINE task == now.worker[w].task
               put == Upload!Stores([now EXCEPT !.entries = Upload!EntryAfter(now, task, TRUE)], task)
    <3>1. /\ task \in Task
          /\ WorkerTypes([now.worker[w] EXCEPT !.pc = "append", !.status = "uploaded"])
      BY <2>4 DEF Upload!Uploaded, NowTypes, WorkerTypes, Working
    <3>2. /\ NowTypes(put) /\ put.worker = now.worker
      BY <3>1 DEF Upload!Stores, NowTypes, NowFields, Task
    <3> HIDE DEF put
    <3>3. NowTypes(Upload!Appends(put, w, "uploaded"))
      BY <3>1, <3>2 DEF Upload!Appends, NowTypes, NowFields
    <3> QED
      BY <2>4, <3>3 DEF Upload!Uploaded, put
  <2>5. ASSUME NEW w \in Uploaders, NEW x, NowTypes(x), NEW status \in {"uploaded", "skipped", "failed"}
        PROVE  NowTypes(Upload!Done(x, w, status))
    <3>1. WorkerTypes(Upload!Fetching)
      BY DEF WorkerTypes, Working, Upload!Fetching
    <3> QED
      BY <2>5, <3>1 DEF Upload!Done, NowTypes, NowFields
  <2>6. ASSUME NEW w \in Uploaders, Upload!UploadFails(w) PROVE UploadTypes'
    <3> DEFINE task == now.worker[w].task
    <3>1. now.worker[w].pc = "put"
      BY <2>6 DEF Upload!UploadFails
    <3>2. NowTypes([now EXCEPT !.entries = now.entries])
      BY DEF NowTypes, NowFields
    <3>3. NowTypes(Upload!Stores([now EXCEPT !.entries = now.entries], task))
      BY <3>1 DEF Upload!Stores, NowTypes, NowFields, Task, WorkerTypes, Working
    <3>4. NowTypes(subject'.now)
      BY <2>5, <2>6, <3>2, <3>3 DEF Upload!UploadFails, Upload!EntryAfter
    <3> QED
      BY <2>6, <3>4 DEF Upload!UploadFails
  <2>7. ASSUME NEW w \in Uploaders, Upload!Appended(w) \/ Upload!AppendFails(w) PROVE UploadTypes'
    <3>1. now.worker[w].status \in {"uploaded", "skipped", "failed"}
      BY <2>7 DEF Upload!Appended, Upload!AppendFails, NowTypes, WorkerTypes
    <3>2. NowTypes([now EXCEPT !.file = @ \cup {Upload!Entry(now.worker[w].task)}])
      BY DEF NowTypes, NowFields
    <3> DEFINE kept == [now EXCEPT !.file = @ \cup {Upload!Entry(now.worker[w].task)}]
               status == now.worker[w].status
    <3>3. NowTypes(Upload!Done(now, w, status)) /\ NowTypes(Upload!Done(kept, w, status))
      BY <2>5, <3>1, <3>2
    <3>4. CASE Upload!Appended(w)
      BY <3>3, <3>4 DEF Upload!Appended
    <3>5. CASE Upload!AppendFails(w)
      BY <3>3, <3>5 DEF Upload!AppendFails
    <3> QED
      BY <2>7, <3>4, <3>5
  <2>8. ASSUME NEW c \in Callers, NEW todo \in Seq(Task) PROVE NowTypes(Upload!Puts(now, c, todo))
    <3>p. PICK next : next = Upload!Puts(now, c, todo)
      OBVIOUS
    <3>n. PICK n \in Nat : Fits(now, c, todo, next, n)
      BY <2>0, <3>p, PutsWhatFits
    <3>0. ASSUME NEW k \in Nat, k < Len(todo)
          PROVE  /\ SubSeq(todo, k + 1, Len(todo)) \in Seq(Task)
                 /\ Len(SubSeq(todo, k + 1, Len(todo))) # 0
      BY <3>0, k + 1 \in 1 .. Len(todo) + 1, SubSeqProperties
    <3>1. /\ next.queue \in Seq(Task \cup {Upload!Sentinel}) /\ Len(next.queue) <= Room
          /\ next = [now EXCEPT !.queue = next.queue, !.entries = next.entries,
                                !.caller[c] = next.caller[c]]
      BY <3>n DEF Fits
    <3>2. /\ n \in 0 .. Len(todo)
          /\ n = Len(todo) => next.caller[c] = Upload!Resting
          /\ n < Len(todo) => next.caller[c] = [pc |-> "put", doc |-> "none", todo |-> SubSeq(todo, n + 1, Len(todo))]
      BY <3>n DEF Fits
    <3> Len(todo) \in Nat
      OBVIOUS
    <3>3. n < Len(todo) => /\ SubSeq(todo, n + 1, Len(todo)) \in Seq(Task)
                           /\ Full(SubSeq(todo, n + 1, Len(todo)))
      BY <3>2, <3>0 DEF Full
    <3>4. CallerTypes(next.caller[c])
      <4>1. CASE n = Len(todo)
        BY <3>2, <4>1 DEF Upload!Resting, CallerTypes
      <4>2. CASE n < Len(todo)
        <5>1. PICK rest : rest = SubSeq(todo, n + 1, Len(todo))
          OBVIOUS
        <5>2. rest \in Seq(Task) /\ Full(rest)
          BY <3>3, <4>2, <5>1
        <5>3. CallerTypes([pc |-> "put", doc |-> "none", todo |-> rest])
          BY <5>2 DEF CallerTypes
        <5> QED
          BY <3>2, <4>2, <5>1, <5>3
      <4> QED
        BY <3>2, <4>1, <4>2
    <3>5. NowTypes([now EXCEPT !.queue = next.queue, !.entries = next.entries, !.caller[c] = next.caller[c]])
      BY <3>1, <3>4 DEF NowTypes, NowFields
    <3> QED
      BY <3>1, <3>5, <3>p
  <2>9. ASSUME NEW c \in Callers, Upload!Enqueue(c) PROVE UploadTypes'
    <3>1. PICK d \in Docs, size \in Sizes, force \in BOOLEAN :
            LET tasks == [n \in DOMAIN Artifacts[d] |->
                            [key |-> Artifacts[d][n], size |-> size, force |-> force]]
            IN  subject' = [subject EXCEPT !.now = Upload!Puts(now, c, tasks), !.calls = @ + 1,
                                           !.prepared = @ + Len(tasks)]
      BY <2>9 DEF Upload!Enqueue
    <3> DEFINE tasks == [n \in DOMAIN Artifacts[d] |->
                            [key |-> Artifacts[d][n], size |-> size, force |-> force]]
    <3>2. tasks \in Seq(Task) /\ Len(tasks) \in Nat
      BY TasksOf
    <3> HIDE DEF tasks
    <3>3. NowTypes(Upload!Puts(now, c, tasks))
      BY <2>8, <3>2
    <3>4. subject' = [subject EXCEPT !.now = Upload!Puts(now, c, tasks), !.calls = @ + 1,
                                     !.prepared = @ + Len(tasks)]
      BY <3>1 DEF tasks
    <3> QED
      BY <3>2, <3>3, <3>4
  <2>10. ASSUME NEW c \in Callers, Upload!PutMore(c) PROVE UploadTypes'
    <3>1. now.caller[c].todo \in Seq(Task)
      BY <2>10 DEF Upload!PutMore, NowTypes, CallerTypes
    <3>2. NowTypes(Upload!Puts(now, c, now.caller[c].todo))
      BY <2>8, <3>1
    <3> QED
      BY <2>10, <3>2 DEF Upload!PutMore
  <2>11. ASSUME NEW c \in Callers, Upload!AskExists(c) PROVE UploadTypes'
    <3>1. PICK d \in Docs : subject' = [subject EXCEPT !.calls = @ + 1,
                    !.now.caller[c] = [pc |-> "ask", todo |-> Artifacts[d], doc |-> d]]
      BY <2>11 DEF Upload!AskExists
    <3>2. NowTypes([now EXCEPT !.caller[c] = [pc |-> "ask", todo |-> Artifacts[d], doc |-> d]])
      BY DEF NowTypes, NowFields, CallerTypes, Full
    <3> QED
      BY <3>1, <3>2
  <2>12. ASSUME NEW c \in Callers, Upload!ExistsAnswered(c) PROVE UploadTypes'
    <3> DEFINE asked == now.caller[c]
               there == now.phase # "closed" /\ Upload!AllThere(now, asked.todo)
               onward == now.phase # "closed" /\ now.remote[Head(asked.todo)] # Upload!Nothing /\ ~ there
               rest == IF onward THEN [asked EXCEPT !.todo = Tail(@)] ELSE Upload!Resting
    <3>1. asked.pc = "ask" /\ asked.todo \in Seq(Upload!Keys) /\ asked.todo # <<>> /\ asked.doc \in Docs
      BY <2>12 DEF Upload!ExistsAnswered, NowTypes, CallerTypes, Full
    <3>2. onward => Len(asked.todo) # 1
      BY DEF Upload!AllThere
    <3> HIDE DEF onward, there
    <3>3. onward => Tail(asked.todo) \in Seq(Upload!Keys) /\ Tail(asked.todo) # <<>>
      <4> DEFINE t == asked.todo
      <4>1. t \in Seq(Upload!Keys) /\ t # <<>>
        BY <3>1
      <4> HIDE DEF t
      <4>2. Len(t) # 1 => Len(Tail(t)) # 0 /\ Tail(t) \in Seq(Upload!Keys)
        BY <4>1
      <4> QED
        BY <3>2, <4>2 DEF t
    <3>4. subject' = [subject EXCEPT !.now.caller[c] = rest,
                        !.told = IF there THEN @ \cup {asked.doc} ELSE @]
      BY <2>12 DEF Upload!ExistsAnswered, onward, there
    <3>5. CallerTypes(rest)
      BY <3>1, <3>3 DEF NowTypes, Upload!Resting, CallerTypes, Full
    <3> HIDE DEF rest
    <3>6. NowTypes([now EXCEPT !.caller[c] = rest])
      BY <3>5 DEF NowTypes, NowFields
    <3> QED
      BY <3>1, <3>4, <3>6
  <2>13. ASSUME NEW c \in Callers, Upload!ExistsFails(c) PROVE UploadTypes'
    <3>1. NowTypes([now EXCEPT !.caller[c] = Upload!Resting])
      BY DEF NowTypes, NowFields, Upload!Resting, CallerTypes
    <3> QED
      BY <2>13, <3>1 DEF Upload!ExistsFails
  <2>14. CASE Upload!Close
    <3>1. NowTypes(subject'.now)
      BY <2>14 DEF Upload!Close, NowTypes, NowFields
    <3> QED
      BY <2>14, <3>1 DEF Upload!Close
  <2>15. CASE Upload!SendSentinels
    <3>1. /\ Append(now.queue, Upload!Sentinel) \in Seq(Task \cup {Upload!Sentinel})
          /\ Len(Append(now.queue, Upload!Sentinel)) <= Room /\ now.sentinels - 1 \in Nat
      BY <2>15 DEF Upload!SendSentinels, NowTypes
    <3>2. NowTypes([now EXCEPT !.queue = Append(@, Upload!Sentinel), !.sentinels = @ - 1])
      BY <3>1 DEF NowTypes, NowFields
    <3> QED
      BY <2>15, <3>2 DEF Upload!SendSentinels
  <2>16. CASE Upload!Closed
    <3>1. NowTypes(subject'.now)
      BY <2>16 DEF Upload!Closed, NowTypes, NowFields
    <3> QED
      BY <2>16, <3>1 DEF Upload!Closed
  <2>17. CASE Upload!NextRun
    <3>1. NowTypes(Upload!Fresh(now.file, now.remote))
      BY FreshTypes DEF NowTypes
    <3> QED
      BY <2>17, <3>1 DEF Upload!NextRun
  <2> QED
    BY <2>1, <2>2, <2>3, <2>4, <2>6, <2>7, <2>9, <2>10, <2>11, <2>12, <2>13, <2>14, <2>15, <2>16, <2>17
    DEF Upload!UploadNext, Upload!Works
<1> QED
  BY <1>1, <1>2

(* What the steps of workers and callers do.                               *)

Shape ==
  /\ DOMAIN subject = {"now", "prepared", "stored", "told", "calls", "runs", "faults"}
  /\ DOMAIN subject.now = NowFields
  /\ DOMAIN subject.now.caller = Callers /\ DOMAIN subject.now.worker = Uploaders
  /\ DOMAIN subject.now.remote = Upload!Keys
  /\ \A w \in Uploaders : DOMAIN subject.now.worker[w] = {"pc", "task", "status"}
  /\ DOMAIN subject.now.stats = {"uploaded", "skipped", "failed"}

\* The shape of the uploader is part of its types.
LEMMA TypesShape == UploadTypes => Shape
BY DEF UploadTypes, NowTypes, WorkerTypes, Shape

\* A worker goes on with its task.
StaysAtWork(w) ==
  LET now == subject.now
      next == subject'.now
      task == now.worker[w].task
  IN  /\ now.worker[w].pc \in {"head", "put"}
      /\ next.worker = [now.worker EXCEPT ![w] = next.worker[w]]
      /\ next.worker[w].pc \in {"put", "append"} /\ next.worker[w].task = task
      /\ next.queue = now.queue /\ next.joined = now.joined /\ next.stats = now.stats
      /\ next.caller = now.caller /\ next.phase = now.phase /\ next.file = now.file
      /\ next.sentinels = now.sentinels
      /\ subject'.prepared = subject.prepared /\ subject'.told = subject.told
      /\ \/ /\ next.remote = now.remote /\ subject'.stored = subject.stored
            /\ \/ next.worker[w].pc = "put" /\ next.entries \subseteq now.entries
               \/ now.remote[task.key] = task.size /\ next.entries = now.entries \cup {Upload!Entry(task)}
         \/ /\ subject'.stored = subject.stored \cup {Upload!Entry(task)}
            /\ next.entries = now.entries \cup {Upload!Entry(task)}
            /\ next.remote = [now.remote EXCEPT ![task.key] = task.size]

\* These steps of a worker leave its task with it.
LEMMA WorkerStays ==
  ASSUME Shape, NEW w \in Uploaders,
         Upload!HeadAnswered(w) \/ Upload!HeadFails(w) \/ Upload!Uploaded(w)
  PROVE  StaysAtWork(w)
<1> DEFINE now == subject.now
           task == now.worker[w].task
<1> USE DEF Upload!Now, Upload!Becomes, Upload!Goes, Upload!Appends, Shape, NowFields
<1>1. CASE Upload!HeadAnswered(w) /\ now.remote[task.key] = task.size
  <2>1. now.worker[w].pc = "head"
    BY <1>1 DEF Upload!HeadAnswered
  <2>2. subject' = [subject EXCEPT !.now = [[[now EXCEPT !.entries = @ \cup {Upload!Entry(task)}]
                      EXCEPT !.worker[w].pc = "append"] EXCEPT !.worker[w].status = "skipped"]]
    BY <1>1 DEF Upload!HeadAnswered
  <2> QED
    BY <1>1, <2>1, <2>2 DEF StaysAtWork
<1>2. CASE Upload!HeadAnswered(w) /\ now.remote[task.key] # task.size
  <2>1. now.worker[w].pc = "head"
    BY <1>2 DEF Upload!HeadAnswered
  <2>2. subject' = [subject EXCEPT !.now = [[now EXCEPT !.entries = @ \ {Upload!Entry(task)}]
                      EXCEPT !.worker[w].pc = "put"]]
    BY <1>2 DEF Upload!HeadAnswered
  <2> QED
    BY <2>1, <2>2 DEF StaysAtWork
<1>3. CASE Upload!HeadFails(w)
  BY <1>3 DEF Upload!HeadFails, StaysAtWork
<1>4. CASE Upload!Uploaded(w)
  <2>1. now.worker[w].pc = "put"
    BY <1>4 DEF Upload!Uploaded
  <2> DEFINE put == [[now EXCEPT !.entries = now.entries \cup {Upload!Entry(task)}]
                        EXCEPT !.remote[task.key] = task.size]
  <2>2. /\ subject'.now = [[put EXCEPT !.worker[w].pc = "append"] EXCEPT !.worker[w].status = "uploaded"]
        /\ subject'.stored = subject.stored \cup {Upload!Entry(task)}
        /\ subject'.prepared = subject.prepared /\ subject'.told = subject.told
    BY <1>4 DEF Upload!Uploaded, Upload!Stores, Upload!EntryAfter
  <2> QED
    BY <2>1, <2>2 DEF StaysAtWork
<1> QED
  BY <1>1, <1>2, <1>3, <1>4

\* A worker ends its task.
EndsTask(w) ==
  LET now == subject.now
      next == subject'.now
      task == now.worker[w].task
  IN  /\ ~ \E c \in Callers : now.caller[c].pc = "put" /\ Len(now.queue) < Room
      /\ now.worker[w].pc \in {"put", "append"}
      /\ next.worker = [now.worker EXCEPT ![w] = Upload!Fetching]
      /\ \E status \in {now.worker[w].status, "failed"} :
           /\ now.worker[w].pc = "put" => status = "failed"
           /\ now.worker[w].pc = "append" => status = now.worker[w].status
           /\ next.stats = [now.stats EXCEPT ![status] = @ + 1]
      /\ next.queue = now.queue /\ next.caller = now.caller /\ next.phase = now.phase
      /\ next.sentinels = now.sentinels
      /\ next.joined = (now.joined \/ (now.phase = "closing" /\ Upload!Unfinished(next) = 0))
      /\ subject'.prepared = subject.prepared /\ subject'.told = subject.told
      /\ next.entries = now.entries
      /\ \/ next.file = now.file
         \/ now.worker[w].pc = "append" /\ next.file = now.file \cup {Upload!Entry(task)}
      /\ \/ subject'.stored = subject.stored /\ next.remote = now.remote
         \/ /\ subject'.stored = subject.stored \cup {Upload!Entry(task)}
            /\ next.remote = [now.remote EXCEPT ![task.key] = task.size]
            /\ now.worker[w].pc = "put"

\* A task is counted, and its worker fetches the next.
Ended(now, next, w, status) ==
  /\ next.worker = [now.worker EXCEPT ![w] = Upload!Fetching]
  /\ next.stats = [now.stats EXCEPT ![status] = @ + 1]
  /\ next.queue = now.queue /\ next.caller = now.caller /\ next.phase = now.phase
  /\ next.sentinels = now.sentinels /\ next.entries = now.entries
  /\ next.file = now.file /\ next.remote = now.remote
  /\ next.joined = (now.joined \/ (now.phase = "closing" /\ Upload!Unfinished(next) = 0))

\* What Done makes of the uploader.
LEMMA DoneFields ==
  ASSUME NEW w \in Uploaders, NEW status \in {"uploaded", "skipped", "failed"}, NEW now,
         DOMAIN now = NowFields, DOMAIN now.worker = Uploaders,
         DOMAIN now.stats = {"uploaded", "skipped", "failed"}
  PROVE  Ended(now, Upload!Done(now, w, status), w, status)
<1> DEFINE before == [now EXCEPT !.stats[status] = @ + 1, !.worker[w] = Upload!Fetching]
           next == Upload!Done(now, w, status)
<1>1. next = [before EXCEPT !.joined = now.joined \/ (now.phase = "closing" /\ Upload!Unfinished(before) = 0)]
  BY DEF Upload!Done, NowFields
<1>2. DOMAIN before = NowFields
  OBVIOUS
<1> HIDE DEF next
<1>3. next.worker = before.worker /\ next.queue = before.queue
  BY <1>1, <1>2 DEF NowFields
<1>4. Upload!Unfinished(next) = Upload!Unfinished(before)
  BY <1>3 DEF Upload!Unfinished, Upload!Busy
<1>5. next.joined = (now.joined \/ (now.phase = "closing" /\ Upload!Unfinished(next) = 0))
  <2> HIDE DEF before
  <2> QED
    BY <1>1, <1>2, <1>4 DEF NowFields
<1>6. /\ next.worker = [now.worker EXCEPT ![w] = Upload!Fetching]
      /\ next.stats = [now.stats EXCEPT ![status] = @ + 1]
      /\ next.queue = now.queue /\ next.caller = now.caller /\ next.phase = now.phase
      /\ next.sentinels = now.sentinels /\ next.entries = now.entries
      /\ next.file = now.file /\ next.remote = now.remote
  BY <1>1 DEF NowFields
<1> QED
  BY <1>5, <1>6 DEF next, Ended

\* These steps end the task of a worker.
LEMMA WorkerEnds ==
  ASSUME UploadTypes, NEW w \in Uploaders,
         Upload!UploadFails(w) \/ Upload!Appended(w) \/ Upload!AppendFails(w)
  PROVE  EndsTask(w)
<1> DEFINE now == subject.now
           task == now.worker[w].task
<1>s. Shape
  BY TypesShape
<1>1. CASE Upload!UploadFails(w)
  <2>1. PICK stored \in BOOLEAN :
          subject' = [subject EXCEPT
             !.now = Upload!Done(IF stored THEN Upload!Stores([now EXCEPT !.entries = now.entries], task)
                                 ELSE [now EXCEPT !.entries = now.entries], w, "failed"),
             !.stored = IF stored THEN @ \cup {Upload!Entry(task)} ELSE @,
             !.faults = @ + 1]
    BY <1>1 DEF Upload!UploadFails, Upload!EntryAfter, Upload!Now
  <2>2. now.worker[w].pc = "put" /\ Upload!Quiet
    BY <1>1 DEF Upload!UploadFails, Upload!Now
  <2>3. PICK x : x = IF stored THEN Upload!Stores([now EXCEPT !.entries = now.entries], task)
                     ELSE [now EXCEPT !.entries = now.entries]
    OBVIOUS
  <2>4. /\ DOMAIN x = NowFields /\ x.worker = now.worker /\ x.stats = now.stats
        /\ x.queue = now.queue /\ x.caller = now.caller /\ x.phase = now.phase /\ x.joined = now.joined
        /\ x.sentinels = now.sentinels /\ x.entries = now.entries /\ x.file = now.file
        /\ x.remote = IF stored THEN [now.remote EXCEPT ![task.key] = task.size] ELSE now.remote
    BY <1>s, <2>3 DEF Shape, NowFields, Upload!Stores
  <2>5. PICK next : next = Upload!Done(x, w, "failed")
    OBVIOUS
  <2>e. Ended(x, next, w, "failed")
    BY <1>s, <2>4, <2>5, DoneFields DEF Shape
  <2>6. /\ next.worker = [now.worker EXCEPT ![w] = Upload!Fetching]
        /\ next.stats = [now.stats EXCEPT !["failed"] = @ + 1]
        /\ next.queue = now.queue /\ next.caller = now.caller /\ next.phase = now.phase
        /\ next.sentinels = now.sentinels /\ next.entries = now.entries
        /\ next.file = now.file /\ next.remote = x.remote
        /\ next.joined = (now.joined \/ (now.phase = "closing" /\ Upload!Unfinished(next) = 0))
    BY <1>s, <2>4, <2>5, <2>e DEF Shape, Ended
  <2>7. /\ subject'.now = next /\ subject'.prepared = subject.prepared /\ subject'.told = subject.told
        /\ subject'.stored = IF stored THEN subject.stored \cup {Upload!Entry(task)} ELSE subject.stored
    BY <1>s, <2>1, <2>3, <2>5 DEF Shape
  <2> QED
    BY <2>2, <2>4, <2>6, <2>7 DEF EndsTask, Upload!Quiet, Upload!Now
<1>2. CASE Upload!Appended(w) \/ Upload!AppendFails(w)
  <2> DEFINE status == now.worker[w].status
  <2>1. /\ now.worker[w].pc = "append" /\ Upload!Quiet
        /\ \/ subject' = [subject EXCEPT !.now = Upload!Done([now EXCEPT !.file = @ \cup {Upload!Entry(task)}], w, status)]
           \/ subject' = [subject EXCEPT !.now = Upload!Done(now, w, status), !.faults = @ + 1]
    BY <1>2 DEF Upload!Appended, Upload!AppendFails, Upload!Now, Upload!Becomes
  <2>2. status \in {"uploaded", "skipped"}
    BY <2>1 DEF UploadTypes, NowTypes, WorkerTypes
  <2>3. PICK x \in {[now EXCEPT !.file = @ \cup {Upload!Entry(task)}], now} :
          /\ subject'.now = Upload!Done(x, w, status)
          /\ subject'.prepared = subject.prepared /\ subject'.told = subject.told
          /\ subject'.stored = subject.stored
    BY <1>s, <2>1 DEF Shape
  <2>4. /\ DOMAIN x = NowFields /\ x.worker = now.worker /\ x.stats = now.stats
        /\ x.queue = now.queue /\ x.caller = now.caller /\ x.phase = now.phase /\ x.joined = now.joined
        /\ x.sentinels = now.sentinels /\ x.entries = now.entries
        /\ x.file \in {now.file, now.file \cup {Upload!Entry(task)}} /\ x.remote = now.remote
    BY <1>s DEF Shape, NowFields
  <2>5. PICK next : next = Upload!Done(x, w, status)
    OBVIOUS
  <2>e. Ended(x, next, w, status)
    BY <1>s, <2>2, <2>4, <2>5, DoneFields DEF Shape
  <2>6. /\ next.worker = [now.worker EXCEPT ![w] = Upload!Fetching]
        /\ next.stats = [now.stats EXCEPT ![status] = @ + 1]
        /\ next.queue = now.queue /\ next.caller = now.caller /\ next.phase = now.phase
        /\ next.sentinels = now.sentinels /\ next.entries = now.entries
        /\ next.file = x.file /\ next.remote = now.remote
        /\ next.joined = (now.joined \/ (now.phase = "closing" /\ Upload!Unfinished(next) = 0))
    BY <1>s, <2>2, <2>4, <2>5, <2>e DEF Shape, Ended
  <2> HIDE DEF status
  <2> QED
    BY <2>1, <2>3, <2>4, <2>5, <2>6 DEF EndsTask, Upload!Quiet, Upload!Now, status
<1> QED
  BY <1>1, <1>2

\* A worker takes the first task, or the end of its work.
TakesTask(w) ==
  LET now == subject.now
      next == subject'.now
  IN  /\ now.worker[w].pc = "get" /\ now.queue # <<>> /\ next.queue = Tail(now.queue)
      /\ next.worker = [now.worker EXCEPT ![w] = next.worker[w]]
      /\ next.worker[w].task = Head(now.queue)
      /\ IF Head(now.queue) = Upload!Sentinel THEN next.worker[w].pc = "gone"
         ELSE next.worker[w].pc \in {"head", "put"}
      /\ next.joined = now.joined /\ next.stats = now.stats /\ next.caller = now.caller
      /\ next.phase = now.phase /\ next.file = now.file /\ next.entries = now.entries
      /\ next.remote = now.remote /\ next.sentinels = now.sentinels
      /\ subject'.prepared = subject.prepared /\ subject'.told = subject.told
      /\ subject'.stored = subject.stored

\* GetTask takes the first task of the queue, or a sentinel.
LEMMA WorkerTakes ==
  ASSUME Shape, NEW w \in Uploaders, Upload!GetTask(w)
  PROVE  TakesTask(w)
<1> DEFINE now == subject.now
<1>1. PICK task : task = Head(now.queue)
  OBVIOUS
<1> DEFINE taken == [now EXCEPT !.queue = Tail(@), !.worker[w].pc = "head", !.worker[w].task = task]
<1>2. /\ now.queue # <<>> /\ now.worker[w].pc = "get"
      /\ subject' = [subject EXCEPT !.now =
           IF task = Upload!Sentinel THEN [taken EXCEPT !.worker[w].pc = "gone"]
           ELSE IF task.force THEN [taken EXCEPT !.worker[w].pc = "put"] ELSE taken]
  BY <1>1 DEF Upload!GetTask, Upload!Now, Upload!Becomes, Upload!Goes
<1>3. /\ DOMAIN taken = NowFields /\ taken.queue = Tail(now.queue)
      /\ taken.worker = [now.worker EXCEPT ![w] = [@ EXCEPT !.pc = "head", !.task = task]]
      /\ taken.joined = now.joined /\ taken.stats = now.stats /\ taken.caller = now.caller
      /\ taken.phase = now.phase /\ taken.file = now.file /\ taken.entries = now.entries
      /\ taken.remote = now.remote /\ taken.sentinels = now.sentinels
  BY DEF Shape, NowFields
<1>4. /\ DOMAIN taken.worker = Uploaders /\ DOMAIN taken.worker[w] = {"pc", "task", "status"}
      /\ taken.worker[w].task = task /\ taken.worker[w].pc = "head"
  BY <1>3 DEF Shape
<1> HIDE DEF taken
<1>5. /\ subject'.prepared = subject.prepared /\ subject'.told = subject.told
      /\ subject'.stored = subject.stored
  BY <1>2 DEF Shape
<1>6. ASSUME NEW pc, subject'.now = [taken EXCEPT !.worker[w].pc = pc]
      PROVE  /\ subject'.now.queue = Tail(now.queue)
             /\ subject'.now.worker = [now.worker EXCEPT ![w] = subject'.now.worker[w]]
             /\ subject'.now.worker[w].task = task /\ subject'.now.worker[w].pc = pc
             /\ subject'.now.joined = now.joined /\ subject'.now.stats = now.stats
             /\ subject'.now.caller = now.caller /\ subject'.now.phase = now.phase
             /\ subject'.now.file = now.file /\ subject'.now.entries = now.entries
             /\ subject'.now.remote = now.remote /\ subject'.now.sentinels = now.sentinels
  <2>1. subject'.now.worker = [taken.worker EXCEPT ![w] = [@ EXCEPT !.pc = pc]]
    BY <1>3, <1>6 DEF NowFields
  <2>2. subject'.now.worker[w].task = task /\ subject'.now.worker[w].pc = pc
    BY <1>4, <2>1
  <2>3. subject'.now.worker = [now.worker EXCEPT ![w] = subject'.now.worker[w]]
    BY <1>3, <1>4, <2>1 DEF Shape
  <2> QED
    BY <1>3, <1>6, <2>2, <2>3 DEF NowFields
<1>7. CASE task = Upload!Sentinel
  <2>1. subject'.now = [taken EXCEPT !.worker[w].pc = "gone"]
    BY <1>2, <1>7 DEF Shape
  <2> QED
    BY <1>1, <1>2, <1>5, <1>6, <1>7, <2>1 DEF TakesTask
<1>8. CASE task # Upload!Sentinel /\ task.force
  <2>1. subject'.now = [taken EXCEPT !.worker[w].pc = "put"]
    BY <1>2, <1>8 DEF Shape
  <2> QED
    BY <1>1, <1>2, <1>5, <1>6, <1>8, <2>1 DEF TakesTask
<1>9. CASE task # Upload!Sentinel /\ ~ task.force
  <2>1. subject'.now = taken
    BY <1>2, <1>9 DEF Shape
  <2>2. subject'.now.worker = [now.worker EXCEPT ![w] = subject'.now.worker[w]]
    BY <1>3, <2>1 DEF Shape
  <2> QED
    BY <1>1, <1>2, <1>3, <1>4, <1>5, <1>9, <2>1, <2>2 DEF TakesTask
<1> QED
  BY <1>7, <1>8, <1>9

\* A caller puts tasks.
PutsTasks(c, todo, n) ==
  LET now == subject.now
      next == subject'.now
  IN  /\ next.queue = now.queue \o SubSeq(todo, 1, n)
      /\ Len(next.queue) = Len(now.queue) + n
      /\ n = Len(todo) => next.caller[c] = Upload!Resting
      /\ n < Len(todo) => /\ Len(next.queue) = Room
                          /\ next.caller[c] = [pc |-> "put", doc |-> "none",
                                               todo |-> SubSeq(todo, n + 1, Len(todo))]
      /\ n \in 0 .. Len(todo) /\ todo \in Seq(Task)
      /\ next.caller = [now.caller EXCEPT ![c] = next.caller[c]]
      /\ next.entries \subseteq now.entries
      /\ next.worker = now.worker
      /\ next.joined = now.joined /\ next.stats = now.stats
      /\ next.phase = now.phase /\ next.file = now.file
      /\ next.remote = now.remote /\ next.sentinels = now.sentinels
      /\ subject'.told = subject.told /\ subject'.stored = subject.stored

\* Puts enqueues as many tasks as fit.
LEMMA FitsPuts ==
  ASSUME Shape, UploadTypes, NEW c \in Callers, NEW todo \in Seq(Task),
         subject'.now = Upload!Puts(subject.now, c, todo),
         subject'.told = subject.told, subject'.stored = subject.stored
  PROVE  \E n \in Nat : PutsTasks(c, todo, n)
<1>1. PICK next : next = Upload!Puts(subject.now, c, todo)
  OBVIOUS
<1>2. PICK n \in Nat : Fits(subject.now, c, todo, next, n)
  BY <1>1, PutsWhatFits DEF UploadTypes
<1>3. subject'.now = next
  BY <1>1
<1>4. next = [subject.now EXCEPT !.queue = next.queue, !.entries = next.entries, !.caller[c] = next.caller[c]]
  BY <1>2 DEF Fits
<1>5. /\ next.caller = [subject.now.caller EXCEPT ![c] = next.caller[c]]
      /\ next.worker = subject.now.worker
      /\ next.joined = subject.now.joined /\ next.stats = subject.now.stats
      /\ next.phase = subject.now.phase /\ next.file = subject.now.file
      /\ next.remote = subject.now.remote /\ next.sentinels = subject.now.sentinels
  BY <1>4 DEF Shape, NowFields
<1> QED
  BY <1>2, <1>3, <1>5 DEF Fits, PutsTasks

\* Enqueue prepares the tasks of a document and puts those that fit.
LEMMA CallerEnqueues ==
  ASSUME UploadTypes, NEW c \in Callers, Upload!Enqueue(c)
  PROVE  /\ subject.now.phase = "started" /\ subject.now.caller[c].pc = "rest"
         /\ \E todo \in Seq(Task), n \in Nat :
              PutsTasks(c, todo, n) /\ subject'.prepared = subject.prepared + Len(todo)
<1> DEFINE now == subject.now
<1>s. Shape
  BY TypesShape
<1>1. PICK d \in Docs, size \in Sizes, force \in BOOLEAN :
        LET tasks == [n \in DOMAIN Artifacts[d] |->
                        [key |-> Artifacts[d][n], size |-> size, force |-> force]]
        IN  subject' = [subject EXCEPT !.now = Upload!Puts(now, c, tasks), !.calls = @ + 1,
                                       !.prepared = @ + Len(tasks)]
  BY DEF Upload!Enqueue, Upload!Now
<1>2. PICK todo \in Seq(Task) :
         subject' = [subject EXCEPT !.now = Upload!Puts(now, c, todo), !.calls = @ + 1,
                                    !.prepared = @ + Len(todo)]
  <2> DEFINE tasks == [n \in DOMAIN Artifacts[d] |->
                        [key |-> Artifacts[d][n], size |-> size, force |-> force]]
  <2>1. tasks \in Seq(Task)
    BY TasksOf
  <2> QED
    BY <1>1, <2>1
<1>3. /\ subject'.now = Upload!Puts(now, c, todo) /\ subject'.prepared = subject.prepared + Len(todo)
      /\ subject'.told = subject.told /\ subject'.stored = subject.stored
  BY <1>s, <1>2 DEF Shape
<1>4. now.phase = "started" /\ now.caller[c].pc = "rest"
  BY DEF Upload!Enqueue, Upload!Calls, Upload!Now
<1>5. PICK n \in Nat : PutsTasks(c, todo, n)
  BY <1>s, <1>3, FitsPuts
<1> QED
  BY <1>3, <1>4, <1>5

\* PutMore puts the tasks that did not fit before.
LEMMA CallerGoesOn ==
  ASSUME UploadTypes, NEW c \in Callers, Upload!PutMore(c)
  PROVE  /\ subject.now.caller[c].pc = "put" /\ Len(subject.now.queue) < Room
         /\ subject'.prepared = subject.prepared
         /\ \E n \in Nat : PutsTasks(c, subject.now.caller[c].todo, n)
<1>s. Shape
  BY TypesShape
<1>1. PICK todo : todo = subject.now.caller[c].todo
  OBVIOUS
<1>2. /\ subject.now.caller[c].pc = "put" /\ Len(subject.now.queue) < Room
      /\ subject' = [subject EXCEPT !.now = Upload!Puts(subject.now, c, todo)]
  BY <1>1 DEF Upload!PutMore, Upload!Now, Upload!Becomes
<1>3. todo \in Seq(Task)
  BY <1>1, <1>2 DEF UploadTypes, NowTypes, CallerTypes
<1>4. /\ subject'.now = Upload!Puts(subject.now, c, todo) /\ subject'.prepared = subject.prepared
      /\ subject'.told = subject.told /\ subject'.stored = subject.stored
  BY <1>s, <1>2 DEF Shape
<1>5. PICK n \in Nat : PutsTasks(c, todo, n)
  BY <1>s, <1>3, <1>4, FitsPuts
<1> QED
  BY <1>1, <1>2, <1>4, <1>5

HIDE UploadAssumption

There(now, k) == now.remote[k] # Upload!Nothing

\* The manifest and what workers are about to append name objects that were stored; a
\* caller that asks for a document has seen the artifacts it does not ask for any more.
ManifestHolds ==
  LET now == subject.now
  IN  /\ now.entries \cup now.file \subseteq subject.stored
      /\ \A k \in Upload!Keys : There(now, k) => <<k, now.remote[k]>> \in subject.stored
      /\ \A w \in Uploaders :
           now.worker[w].pc = "append" => Upload!Entry(now.worker[w].task) \in subject.stored
      /\ \A d \in subject.told : \A n \in DOMAIN Artifacts[d] : There(now, Artifacts[d][n])
      /\ \A c \in Callers : now.caller[c].pc = "ask" =>
           LET asked == now.caller[c]
           IN  \A n \in DOMAIN Artifacts[asked.doc] :
                 \/ There(now, Artifacts[asked.doc][n])
                 \/ \E k \in DOMAIN asked.todo : asked.todo[k] = Artifacts[asked.doc][n]

\* The artifacts of a document are keys.
LEMMA KeysOfDocs ==
  ASSUME NEW d \in Docs, NEW n \in DOMAIN Artifacts[d] PROVE Artifacts[d][n] \in Upload!Keys
BY DEF Upload!Keys

\* A step in which nobody that asks takes part.
LEMMA ManifestStep ==
  ASSUME UploadTypes, ManifestHolds,
         subject.stored \subseteq subject'.stored, subject'.told = subject.told,
         subject'.now.entries \subseteq subject'.stored,
         subject'.now.file \subseteq subject'.stored,
         \A k \in Upload!Keys : \/ subject'.now.remote[k] = subject.now.remote[k]
                                \/ /\ subject'.now.remote[k] # Upload!Nothing
                                   /\ <<k, subject'.now.remote[k]>> \in subject'.stored,
         \A w \in Uploaders : subject'.now.worker[w].pc = "append" =>
                               Upload!Entry(subject'.now.worker[w].task) \in subject'.stored,
         \A c \in Callers : subject'.now.caller[c].pc = "ask" =>
                             subject'.now.caller[c] = subject.now.caller[c]
  PROVE  ManifestHolds'
<1>1. \A d \in subject'.told : \A n \in DOMAIN Artifacts[d] : There(subject'.now, Artifacts[d][n])
  BY KeysOfDocs DEF ManifestHolds, There, UploadTypes
<1>2. ASSUME NEW c \in Callers, subject'.now.caller[c].pc = "ask",
             NEW n \in DOMAIN Artifacts[subject'.now.caller[c].doc]
      PROVE  \/ There(subject'.now, Artifacts[subject'.now.caller[c].doc][n])
             \/ \E k \in DOMAIN subject'.now.caller[c].todo :
                  subject'.now.caller[c].todo[k] = Artifacts[subject'.now.caller[c].doc][n]
  <2>1. subject'.now.caller[c] = subject.now.caller[c] /\ subject.now.caller[c].doc \in Docs
    BY <1>2 DEF UploadTypes, NowTypes, CallerTypes
  <2>2. Artifacts[subject.now.caller[c].doc][n] \in Upload!Keys
    BY <1>2, <2>1, KeysOfDocs
  <2>3. \/ There(subject.now, Artifacts[subject.now.caller[c].doc][n])
        \/ \E k \in DOMAIN subject.now.caller[c].todo :
             subject.now.caller[c].todo[k] = Artifacts[subject.now.caller[c].doc][n]
    BY <1>2, <2>1 DEF ManifestHolds
  <2>4. \A k \in Upload!Keys : There(subject.now, k) => There(subject'.now, k)
    BY DEF There
  <2> QED
    BY <2>1, <2>2, <2>3, <2>4
<1>3. \A k \in Upload!Keys : There(subject'.now, k) => <<k, subject'.now.remote[k]>> \in subject'.stored
  BY DEF ManifestHolds, There
<1> QED
  BY <1>1, <1>2, <1>3 DEF ManifestHolds

\* The manifest names what the bucket has had, at every step.
LEMMA ManifestKept ==
  /\ Upload!UploadInit => ManifestHolds
  /\ UploadTypes /\ ManifestHolds /\ Upload!UploadNext => ManifestHolds'
<1>1. Upload!UploadInit => ManifestHolds
  BY DEF Upload!UploadInit, Upload!Fresh, Upload!NoObjects, Upload!Resting, Upload!Fetching, ManifestHolds, There
<1>2. ASSUME UploadTypes, ManifestHolds, Upload!UploadNext PROVE ManifestHolds'
  <2> DEFINE now == subject.now
  <2> USE <1>2
  <2>s. Shape
    BY TypesShape
  <2>m. /\ now.entries \subseteq subject.stored /\ now.file \subseteq subject.stored
        /\ \A k \in Upload!Keys : now.remote[k] # Upload!Nothing => <<k, now.remote[k]>> \in subject.stored
        /\ \A w \in Uploaders :
           now.worker[w].pc = "append" => Upload!Entry(now.worker[w].task) \in subject.stored
    BY DEF ManifestHolds, There
  <2>t. ASSUME NEW w \in Uploaders, now.worker[w].pc \in Working
        PROVE  LET task == now.worker[w].task
               IN  /\ task.key \in Upload!Keys /\ task.size # Upload!Nothing
                   /\ Upload!Entry(task) = <<task.key, task.size>>
    <3>1. now.worker[w].task \in Task
      BY <2>t DEF UploadTypes, NowTypes, WorkerTypes
    <3> QED
      BY <3>1, TaskFields DEF Upload!Entry
  <2>1. ASSUME NEW w \in Uploaders, Upload!GetTask(w) PROVE ManifestHolds'
    <3>1. TakesTask(w)
      BY <2>s, <2>1, WorkerTakes
    <3>2. \A x \in Uploaders : subject'.now.worker[x] = IF x = w THEN subject'.now.worker[w] ELSE now.worker[x]
      BY <2>s, <3>1 DEF TakesTask, Shape
    <3>3. subject'.now.worker[w].pc # "append"
      BY <3>1 DEF TakesTask
    <3> QED
      BY <2>m, <3>1, <3>2, <3>3, ManifestStep DEF TakesTask
  <2>2. ASSUME NEW w \in Uploaders, StaysAtWork(w) PROVE ManifestHolds'
    <3> DEFINE task == now.worker[w].task
    <3>1. now.worker[w].pc \in Working
      BY <2>2 DEF StaysAtWork, Working
    <3>2. /\ task.key \in Upload!Keys /\ task.size # Upload!Nothing
          /\ Upload!Entry(task) = <<task.key, task.size>>
      BY <2>t, <3>1
    <3>3. \A x \in Uploaders : subject'.now.worker[x] = IF x = w THEN subject'.now.worker[w] ELSE now.worker[x]
      BY <2>s, <2>2 DEF StaysAtWork, Shape
    <3>4. /\ subject'.told = subject.told /\ subject'.now.file = now.file /\ subject'.now.caller = now.caller
          /\ subject'.now.worker[w].task = task
      BY <2>2 DEF StaysAtWork
    <3>5. CASE subject'.now.remote = now.remote /\ subject'.stored = subject.stored
                 /\ subject'.now.worker[w].pc = "put" /\ subject'.now.entries \subseteq now.entries
      BY <2>m, <3>3, <3>4, <3>5, ManifestStep
    <3>6. CASE subject'.now.remote = now.remote /\ subject'.stored = subject.stored
                 /\ now.remote[task.key] = task.size /\ subject'.now.entries = now.entries \cup {Upload!Entry(task)}
      <4>1. Upload!Entry(task) \in subject.stored
        BY <2>m, <3>2, <3>6
      <4> HIDE DEF task
      <4> QED
        BY <2>m, <3>3, <3>4, <3>6, <4>1, ManifestStep
    <3>7. CASE /\ subject'.stored = subject.stored \cup {Upload!Entry(task)}
               /\ subject'.now.entries = now.entries \cup {Upload!Entry(task)}
               /\ subject'.now.remote = [now.remote EXCEPT ![task.key] = task.size]
      <4>1. \A k \in Upload!Keys : \/ subject'.now.remote[k] = subject.now.remote[k]
                                   \/ /\ subject'.now.remote[k] # Upload!Nothing
                                      /\ <<k, subject'.now.remote[k]>> \in subject'.stored
        BY <2>s, <3>2, <3>7 DEF Shape
      <4> HIDE DEF task
      <4>2. \A x \in Uploaders : subject'.now.worker[x].pc = "append" =>
                               Upload!Entry(subject'.now.worker[x].task) \in subject'.stored
        BY <2>m, <3>3, <3>4, <3>7
      <4> QED
        BY <2>m, <3>4, <3>7, <4>1, <4>2, ManifestStep
    <3> QED
      BY <2>2, <3>5, <3>6, <3>7 DEF StaysAtWork
  <2>3. ASSUME NEW w \in Uploaders, EndsTask(w) PROVE ManifestHolds'
    <3> DEFINE task == now.worker[w].task
    <3>1. now.worker[w].pc \in Working
      BY <2>3 DEF EndsTask, Working
    <3>2. /\ task.key \in Upload!Keys /\ task.size # Upload!Nothing
          /\ Upload!Entry(task) = <<task.key, task.size>>
      BY <2>t, <3>1
    <3>3. \A x \in Uploaders : subject'.now.worker[x] = IF x = w THEN Upload!Fetching ELSE now.worker[x]
      BY <2>s, <2>3 DEF EndsTask, Shape
    <3>4. \A x \in Uploaders : subject'.now.worker[x].pc = "append" => subject'.now.worker[x] = now.worker[x]
      BY <3>3 DEF Upload!Fetching
    <3>5. /\ subject'.told = subject.told /\ subject'.now.caller = now.caller
          /\ subject'.now.entries = now.entries
      BY <2>3 DEF EndsTask
    <3>6. subject'.now.file \subseteq subject'.stored /\ subject.stored \subseteq subject'.stored
      BY <2>m, <2>3 DEF EndsTask
    <3>7. \A k \in Upload!Keys : \/ subject'.now.remote[k] = subject.now.remote[k]
                                   \/ /\ subject'.now.remote[k] # Upload!Nothing
                                      /\ <<k, subject'.now.remote[k]>> \in subject'.stored
      <4>1. CASE subject'.now.remote = now.remote
        BY <4>1
      <4>2. CASE /\ subject'.stored = subject.stored \cup {Upload!Entry(task)}
                 /\ subject'.now.remote = [now.remote EXCEPT ![task.key] = task.size]
        BY <2>s, <3>2, <4>2 DEF Shape
      <4> QED
        BY <2>3, <4>1, <4>2 DEF EndsTask
    <3> QED
      BY <2>m, <3>4, <3>5, <3>6, <3>7, ManifestStep
  <2>4. ASSUME NEW c \in Callers, NEW todo, NEW n \in Nat, PutsTasks(c, todo, n) PROVE ManifestHolds'
    <3>1. n = Len(todo) \/ n < Len(todo)
      BY <2>4 DEF PutsTasks
    <3>2. subject'.now.caller[c].pc # "ask"
      <4>1. CASE n = Len(todo)
        <5>1. subject'.now.caller[c] = Upload!Resting
          BY <2>4, <4>1 DEF PutsTasks
        <5> QED
          BY <5>1 DEF Upload!Resting
      <4>2. CASE n < Len(todo)
        <5>1. subject'.now.caller[c] = [pc |-> "put", doc |-> "none", todo |-> SubSeq(todo, n + 1, Len(todo))]
          BY <2>4, <4>2 DEF PutsTasks
        <5> QED
          BY <5>1
      <4> QED
        BY <3>1, <4>1, <4>2
    <3>3. \A x \in Callers : subject'.now.caller[x].pc = "ask" => subject'.now.caller[x] = now.caller[x]
      BY <2>s, <2>4, <3>2 DEF PutsTasks, Shape
    <3> QED
      BY <2>m, <2>4, <3>3, ManifestStep DEF PutsTasks
  <2>5. ASSUME NEW c \in Callers, Upload!AskExists(c) PROVE ManifestHolds'
    <3>1. PICK d \in Docs : subject' = [subject EXCEPT !.calls = @ + 1,
                    !.now.caller[c] = [pc |-> "ask", todo |-> Artifacts[d], doc |-> d]]
      BY <2>5 DEF Upload!AskExists
    <3>2. /\ subject'.stored = subject.stored /\ subject'.told = subject.told
          /\ subject'.now.entries = now.entries /\ subject'.now.file = now.file
          /\ subject'.now.remote = now.remote /\ subject'.now.worker = now.worker
          /\ \A x \in Callers : subject'.now.caller[x] =
               IF x = c THEN [pc |-> "ask", todo |-> Artifacts[d], doc |-> d] ELSE now.caller[x]
      BY <2>s, <3>1 DEF Shape, NowFields
    <3>3. \A k : There(subject'.now, k) <=> There(now, k)
      BY <3>2 DEF There
    <3>4. ASSUME NEW x \in Callers, subject'.now.caller[x].pc = "ask",
                 NEW n \in DOMAIN Artifacts[subject'.now.caller[x].doc]
          PROVE  \/ There(now, Artifacts[subject'.now.caller[x].doc][n])
                 \/ \E k \in DOMAIN subject'.now.caller[x].todo :
                      subject'.now.caller[x].todo[k] = Artifacts[subject'.now.caller[x].doc][n]
      <4>1. CASE x = c
        BY <3>2, <3>4, <4>1
      <4>2. CASE x # c
        <5>1. subject'.now.caller[x] = now.caller[x]
          BY <3>2, <4>2
        <5> QED
          BY <3>4, <5>1 DEF ManifestHolds
      <4> QED
        BY <4>1, <4>2
    <3>5. \A d1 \in subject'.told : \A n \in DOMAIN Artifacts[d1] : There(subject'.now, Artifacts[d1][n])
      BY <3>2, <3>3 DEF ManifestHolds
    <3> QED
      BY <2>m, <3>2, <3>3, <3>4, <3>5 DEF ManifestHolds, There
  <2>6. ASSUME NEW c \in Callers, Upload!ExistsAnswered(c) PROVE ManifestHolds'
    <3> DEFINE asked == now.caller[c]
               there == now.phase # "closed" /\ Upload!AllThere(now, asked.todo)
               onward == now.phase # "closed" /\ now.remote[Head(asked.todo)] # Upload!Nothing /\ ~ there
               rest == IF onward THEN [asked EXCEPT !.todo = Tail(@)] ELSE Upload!Resting
    <3>1. asked.pc = "ask" /\ asked.todo \in Seq(Upload!Keys) /\ asked.todo # <<>> /\ asked.doc \in Docs
            /\ DOMAIN asked = {"pc", "todo", "doc"}
      BY <2>6 DEF Upload!ExistsAnswered, UploadTypes, NowTypes, CallerTypes, Full, Upload!Now
    <3>2. subject' = [subject EXCEPT !.now.caller[c] = rest,
                        !.told = IF there THEN @ \cup {asked.doc} ELSE @]
      BY <2>6 DEF Upload!ExistsAnswered, Upload!Now
    <3>3. ASSUME NEW n \in DOMAIN Artifacts[asked.doc]
          PROVE  \/ There(now, Artifacts[asked.doc][n])
                 \/ Artifacts[asked.doc][n] = Head(asked.todo)
                 \/ Len(asked.todo) # 1 /\ \E k \in DOMAIN Tail(asked.todo) : Tail(asked.todo)[k] = Artifacts[asked.doc][n]
      <4>1. CASE ~ There(now, Artifacts[asked.doc][n])
        <5>1. PICK k \in DOMAIN asked.todo : asked.todo[k] = Artifacts[asked.doc][n]
          BY <3>1, <3>3, <4>1 DEF ManifestHolds
        <5>2. PICK t \in Seq(Upload!Keys) : t = asked.todo
          BY <3>1
        <5>3. k \in 1 .. Len(t) /\ t # <<>>
          BY <3>1, <5>1, <5>2
        <5>4. k # 1 => Len(t) # 1 /\ k - 1 \in DOMAIN Tail(t) /\ Tail(t)[k - 1] = t[k]
          BY <5>3
        <5> QED
          BY <5>1, <5>2, <5>3, <5>4
      <4> QED
        BY <4>1
    <3>4. there => \A n \in DOMAIN Artifacts[asked.doc] : There(now, Artifacts[asked.doc][n])
      BY <3>3 DEF Upload!AllThere, There
    <3>5. onward => \A n \in DOMAIN Artifacts[asked.doc] :
                      \/ There(now, Artifacts[asked.doc][n])
                      \/ \E k \in DOMAIN Tail(asked.todo) : Tail(asked.todo)[k] = Artifacts[asked.doc][n]
      BY <3>3 DEF There
    <3>6. /\ onward => rest.todo = Tail(asked.todo) /\ rest.doc = asked.doc
          /\ ~ onward => rest.pc = "rest"
      BY <3>1 DEF Upload!Resting
    <3> HIDE DEF there, onward, rest
    <3>7. /\ subject'.stored = subject.stored
          /\ subject'.told = IF there THEN subject.told \cup {asked.doc} ELSE subject.told
          /\ subject'.now.entries = now.entries /\ subject'.now.file = now.file
          /\ subject'.now.remote = now.remote /\ subject'.now.worker = now.worker
          /\ \A x \in Callers : subject'.now.caller[x] = IF x = c THEN rest ELSE now.caller[x]
      BY <2>s, <3>2 DEF Shape, NowFields
    <3>8. \A k : There(subject'.now, k) <=> There(now, k)
      BY <3>7 DEF There
    <3>9. \A d \in subject'.told : \A n \in DOMAIN Artifacts[d] : There(subject'.now, Artifacts[d][n])
      BY <3>4, <3>7, <3>8 DEF ManifestHolds
    <3>10. ASSUME NEW x \in Callers, subject'.now.caller[x].pc = "ask",
                  NEW n \in DOMAIN Artifacts[subject'.now.caller[x].doc]
           PROVE  \/ There(now, Artifacts[subject'.now.caller[x].doc][n])
                  \/ \E k \in DOMAIN subject'.now.caller[x].todo :
                       subject'.now.caller[x].todo[k] = Artifacts[subject'.now.caller[x].doc][n]
      <4>1. CASE x = c
        <5>1. onward /\ subject'.now.caller[x].todo = Tail(asked.todo) /\ subject'.now.caller[x].doc = asked.doc
          BY <3>6, <3>7, <3>10, <4>1
        <5> QED
          BY <3>5, <3>10, <5>1
      <4>2. CASE x # c
        <5>1. subject'.now.caller[x] = now.caller[x]
          BY <3>7, <4>2
        <5> QED
          BY <3>10, <5>1 DEF ManifestHolds
      <4> QED
        BY <4>1, <4>2
    <3> QED
      BY <2>m, <3>7, <3>8, <3>9, <3>10 DEF ManifestHolds, There
  <2>7. ASSUME NEW c \in Callers, Upload!ExistsFails(c) PROVE ManifestHolds'
    <3>1. subject' = [subject EXCEPT !.now.caller[c] = Upload!Resting, !.faults = @ + 1]
      BY <2>7 DEF Upload!ExistsFails
    <3>2. /\ subject'.stored = subject.stored /\ subject'.told = subject.told
          /\ subject'.now.entries = now.entries /\ subject'.now.file = now.file
          /\ subject'.now.remote = now.remote /\ subject'.now.worker = now.worker
          /\ \A x \in Callers : subject'.now.caller[x] = IF x = c THEN Upload!Resting ELSE now.caller[x]
      BY <2>s, <3>1 DEF Shape, NowFields
    <3>3. \A x \in Callers : subject'.now.caller[x].pc = "ask" => subject'.now.caller[x] = now.caller[x]
      BY <3>2 DEF Upload!Resting
    <3> QED
      BY <2>m, <3>2, <3>3, ManifestStep
  <2>8. CASE Upload!Close \/ Upload!SendSentinels \/ Upload!Closed
    <3>1. /\ subject'.stored = subject.stored /\ subject'.told = subject.told
          /\ subject'.now.entries = now.entries /\ subject'.now.file = now.file
          /\ subject'.now.remote = now.remote /\ subject'.now.worker = now.worker
          /\ subject'.now.caller = now.caller
      <4> USE <2>s DEF Upload!Becomes, Upload!Now, Shape, NowFields
      <4>1. CASE Upload!Close
        BY <4>1 DEF Upload!Close
      <4>2. CASE Upload!SendSentinels
        BY <4>2 DEF Upload!SendSentinels
      <4>3. CASE Upload!Closed
        BY <4>3 DEF Upload!Closed
      <4> QED
        BY <2>8, <4>1, <4>2, <4>3
    <3> QED
      BY <2>m, <3>1, ManifestStep
  <2>9. CASE Upload!NextRun
    <3>1. /\ subject'.stored = subject.stored /\ subject'.told = subject.told
          /\ subject'.now = Upload!Fresh(now.file, now.remote)
      BY <2>s, <2>9 DEF Upload!NextRun, Upload!Now, Shape
    <3>2. /\ subject'.now.entries = now.file /\ subject'.now.file = now.file
          /\ subject'.now.remote = now.remote
          /\ \A w \in Uploaders : subject'.now.worker[w].pc # "append"
          /\ \A c \in Callers : subject'.now.caller[c].pc # "ask"
      BY <3>1 DEF Upload!Fresh, Upload!Fetching, Upload!Resting
    <3> QED
      BY <2>m, <3>1, <3>2, ManifestStep
  <2>10. ASSUME NEW w \in Uploaders, Upload!Works(w) PROVE ManifestHolds'
    BY <2>s, <2>1, <2>2, <2>3, <2>10, WorkerStays, WorkerEnds DEF Upload!Works
  <2>11. ASSUME NEW c \in Callers, Upload!Enqueue(c) \/ Upload!PutMore(c) PROVE ManifestHolds'
    BY <2>4, <2>11, CallerEnqueues, CallerGoesOn
  <2> QED
    BY <2>5, <2>6, <2>7, <2>8, <2>9, <2>10, <2>11 DEF Upload!UploadNext
<1> QED
  BY <1>1, <1>2

Owed(now, c) == IF now.caller[c].pc = "put" THEN Len(now.caller[c].todo) ELSE 0
Pending(now) == {p \in Callers \X Nat : p[2] \in 1 .. Owed(now, p[1])}
AtWork(now) == {w \in Uploaders : now.worker[w].pc \in Working}
Left(now) == {w \in Uploaders : now.worker[w].pc = "gone"}
Sum(stats) == stats.uploaded + stats.skipped + stats.failed

\* Before the flush has joined the queue, every task prepared is counted, queued, at
\* work or with a caller that waits; no worker was told to go.
OpenRun(now, prepared) ==
  /\ now.phase # "closed" /\ now.sentinels = Cardinality(Uploaders)
  /\ now.queue \in Seq(Task) /\ Left(now) = {}
  /\ prepared = Sum(now.stats) + Len(now.queue) + Cardinality(AtWork(now)) + Cardinality(Pending(now))

\* After that every task is counted, and only sentinels go round.
DrainedRun(now, prepared) ==
  /\ now.phase # "started" /\ AtWork(now) = {}
  /\ \A c \in Callers : now.caller[c].pc # "put"
  /\ \A k \in DOMAIN now.queue : now.queue[k] = Upload!Sentinel
  /\ now.sentinels + Len(now.queue) + Cardinality(Left(now)) = Cardinality(Uploaders)
  /\ prepared = Sum(now.stats)

CountHolds ==
  LET now == subject.now
  IN  /\ IsFiniteSet(Pending(now))
      /\ IF now.joined THEN DrainedRun(now, subject.prepared) ELSE OpenRun(now, subject.prepared)
      /\ now.phase = "closed" => now.queue = <<>>
      /\ (\E c \in Callers : now.caller[c].pc = "put") => now.queue # <<>> \/ AtWork(now) # {}

\* A row of tasks is as long as it says.
LEMMA RowSize ==
  ASSUME NEW c, NEW n \in Nat
  PROVE  IsFiniteSet({c} \X (1 .. n)) /\ Cardinality({c} \X (1 .. n)) = n
<1>1. IsFiniteSet({c}) /\ Cardinality({c}) = 1
  BY FS_Singleton
<1>2. IsFiniteSet(1 .. n) /\ Cardinality(1 .. n) = n
  BY FS_Interval
<1>3. /\ IsFiniteSet({c} \X (1 .. n))
      /\ Cardinality({c} \X (1 .. n)) = Cardinality({c}) * Cardinality(1 .. n)
  BY <1>1, <1>2, FS_Product
<1> QED
  BY <1>1, <1>2, <1>3

SwapsRow(P, Q, rest, c, a, b) ==
  /\ P = rest \cup ({c} \X (1 .. a)) /\ Q = rest \cup ({c} \X (1 .. b))
  /\ \A p \in rest : p[1] # c

\* When the row of a caller changes, so many tasks come or go.
LEMMA RowChanges ==
  ASSUME NEW P, IsFiniteSet(P), NEW c, NEW a \in Nat, NEW b \in Nat, NEW rest, NEW Q,
         SwapsRow(P, Q, rest, c, a, b)
  PROVE  IsFiniteSet(Q) /\ Cardinality(Q) = Cardinality(P) - a + b
<1> USE DEF SwapsRow
<1>1. IsFiniteSet(rest)
  BY FS_Subset
<1>2. /\ rest \cap ({c} \X (1 .. a)) = {} /\ rest \cap ({c} \X (1 .. b)) = {}
  OBVIOUS
<1>3. Cardinality(P) = Cardinality(rest) + a
  <2> DEFINE row == {c} \X (1 .. a)
  <2>1. IsFiniteSet(row) /\ Cardinality(row) = a
    BY RowSize
  <2>2. rest \cap row = {} /\ P = rest \cup row
    BY <1>2
  <2> HIDE DEF row, SwapsRow
  <2>3. Cardinality(P) = Cardinality(rest) + Cardinality(row) - Cardinality({})
    BY <1>1, <2>1, <2>2, FS_Union
  <2> QED
    BY <1>1, <2>1, <2>3, FS_EmptySet, FS_CardinalityType
<1>4. IsFiniteSet(Q) /\ Cardinality(Q) = Cardinality(rest) + b
  <2> DEFINE row == {c} \X (1 .. b)
  <2>1. IsFiniteSet(row) /\ Cardinality(row) = b
    BY RowSize
  <2>2. rest \cap row = {} /\ Q = rest \cup row
    BY <1>2
  <2> HIDE DEF row, SwapsRow
  <2>3. IsFiniteSet(Q) /\ Cardinality(Q) = Cardinality(rest) + Cardinality(row) - Cardinality({})
    BY <1>1, <2>1, <2>2, FS_Union
  <2> QED
    BY <1>1, <2>1, <2>3, FS_EmptySet, FS_CardinalityType
<1>5. Cardinality(rest) \in Nat
  BY <1>1, FS_CardinalityType
<1> QED
  BY <1>3, <1>4, <1>5

\* A step of one caller changes what it waits with.
LEMMA PendingStep ==
  ASSUME UploadTypes, IsFiniteSet(Pending(subject.now)), NEW c \in Callers,
         subject'.now.caller = [subject.now.caller EXCEPT ![c] = subject'.now.caller[c]],
         Owed(subject'.now, c) \in Nat
  PROVE  /\ IsFiniteSet(Pending(subject'.now))
         /\ Cardinality(Pending(subject'.now)) =
              Cardinality(Pending(subject.now)) - Owed(subject.now, c) + Owed(subject'.now, c)
<1> DEFINE rest == {p \in Pending(subject.now) : p[1] # c}
<1>1. PICK a : a = Owed(subject.now, c)
  OBVIOUS
<1>2. PICK b \in Nat : b = Owed(subject'.now, c)
  OBVIOUS
<1>3. a \in Nat
  BY <1>1 DEF Owed, UploadTypes, NowTypes, CallerTypes
<1>4. \A x \in Callers : x # c => Owed(subject'.now, x) = Owed(subject.now, x)
  BY DEF Owed, UploadTypes, NowTypes
<1>5. Pending(subject.now) = rest \cup ({c} \X (1 .. a))
  BY <1>1, <1>3 DEF Pending
<1>6. Pending(subject'.now) = rest \cup ({c} \X (1 .. b))
  BY <1>2, <1>4 DEF Pending
<1>7. \A p \in rest : p[1] # c
  OBVIOUS
<1>8. PICK r : r = rest
  OBVIOUS
<1> HIDE DEF rest
<1>9. PICK P : P = Pending(subject.now)
  OBVIOUS
<1>10. PICK Q : Q = Pending(subject'.now)
  OBVIOUS
<1>11. IsFiniteSet(P) /\ SwapsRow(P, Q, r, c, a, b)
  BY <1>5, <1>6, <1>7, <1>8, <1>9, <1>10 DEF SwapsRow
<1>12. IsFiniteSet(Q) /\ Cardinality(Q) = Cardinality(P) - a + b
  BY <1>3, <1>11, RowChanges
<1> QED
  BY <1>1, <1>2, <1>9, <1>10, <1>12

USE UploadAssumption

\* Nobody waits when no caller puts.
LEMMA NonePending ==
  ASSUME NEW now, \A c \in Callers : now.caller[c].pc # "put"
  PROVE  Pending(now) = {} /\ IsFiniteSet(Pending(now)) /\ Cardinality(Pending(now)) = 0
<1>1. Pending(now) = {}
  BY DEF Pending, Owed
<1> QED
  BY <1>1, FS_EmptySet

\* The sets of workers are finite.
LEMMA CrewIsFinite ==
  ASSUME NEW now
  PROVE  /\ IsFiniteSet(AtWork(now)) /\ Cardinality(AtWork(now)) \in Nat
         /\ IsFiniteSet(Left(now)) /\ Cardinality(Left(now)) \in Nat
         /\ Upload!Busy(now) = AtWork(now)
         /\ Upload!Unfinished(now) = Len(now.queue) + Cardinality(AtWork(now))
<1>1. IsFiniteSet(AtWork(now)) /\ IsFiniteSet(Left(now))
  <2>1. AtWork(now) \in SUBSET Uploaders /\ Left(now) \in SUBSET Uploaders
    BY DEF AtWork, Left
  <2> QED
    BY <2>1, FS_Subset
<1>2. Upload!Busy(now) = AtWork(now)
  BY DEF Upload!Busy, AtWork, Working
<1> QED
  BY <1>1, <1>2, FS_CardinalityType, UploadCardinality DEF Upload!Unfinished

\* Workers that go on change nothing that is counted.
LEMMA StaysCounted ==
  ASSUME Shape, CountHolds, NEW w \in Uploaders, StaysAtWork(w)
  PROVE  CountHolds'
<1> DEFINE now == subject.now
           next == subject'.now
<1>1. \A x \in Uploaders : next.worker[x] = IF x = w THEN next.worker[w] ELSE now.worker[x]
  BY DEF StaysAtWork, Shape
<1>2. now.worker[w].pc \in {"head", "put"} /\ next.worker[w].pc \in {"put", "append"}
  BY DEF StaysAtWork
<1>3. AtWork(next) = AtWork(now) /\ Left(next) = Left(now)
  BY <1>1, <1>2 DEF AtWork, Left, Working
<1>4. /\ next.queue = now.queue /\ next.joined = now.joined /\ next.stats = now.stats
      /\ next.caller = now.caller /\ next.phase = now.phase
      /\ next.sentinels = now.sentinels /\ subject'.prepared = subject.prepared
  BY DEF StaysAtWork
<1>5. Pending(next) = Pending(now)
  BY <1>4 DEF Pending, Owed
<1> QED
  BY <1>3, <1>4, <1>5 DEF CountHolds, OpenRun, DrainedRun

\* A task that ends is counted, and the last one lets the flush go on.
LEMMA EndsCounted ==
  ASSUME UploadTypes, CountHolds, NEW w \in Uploaders, EndsTask(w)
  PROVE  CountHolds'
<1> DEFINE now == subject.now
           next == subject'.now
<1>s. Shape
  BY TypesShape
<1>1. \A x \in Uploaders : next.worker[x] = IF x = w THEN Upload!Fetching ELSE now.worker[x]
  BY <1>s DEF EndsTask, Shape
<1>2. w \in AtWork(now)
  BY DEF EndsTask, AtWork, Working
<1>3. AtWork(next) = AtWork(now) \ {w} /\ Left(next) = Left(now)
  <2>1. Upload!Fetching.pc = "get" /\ now.worker[w].pc \in Working
    BY <1>2 DEF Upload!Fetching, AtWork
  <2> QED
    BY <1>1, <2>1 DEF AtWork, Left, Working
<1>4. ~ now.joined /\ OpenRun(now, subject.prepared) /\ now.joined \in BOOLEAN
  BY <1>2 DEF CountHolds, DrainedRun, UploadTypes, NowTypes
<1>5. /\ next.queue = now.queue /\ next.caller = now.caller /\ next.phase = now.phase
      /\ next.sentinels = now.sentinels /\ subject'.prepared = subject.prepared
      /\ ~ \E c \in Callers : now.caller[c].pc = "put" /\ Len(now.queue) < Room
  BY DEF EndsTask
<1>6. Pending(next) = Pending(now)
  BY <1>5 DEF Pending, Owed
<1>7. Sum(next.stats) = Sum(now.stats) + 1 /\ Sum(now.stats) \in Nat
  <2>1. PICK status \in {"uploaded", "skipped", "failed"} : next.stats = [now.stats EXCEPT ![status] = @ + 1]
    BY DEF EndsTask, UploadTypes, NowTypes, WorkerTypes
  <2>2. now.stats \in [uploaded : Nat, skipped : Nat, failed : Nat]
    BY DEF UploadTypes, NowTypes
  <2> QED
    <3>1. CASE status = "uploaded"
      BY <2>1, <2>2, <3>1 DEF Sum
    <3>2. CASE status = "skipped"
      BY <2>1, <2>2, <3>2 DEF Sum
    <3>3. CASE status = "failed"
      BY <2>1, <2>2, <3>3 DEF Sum
    <3> QED
      BY <2>1, <3>1, <3>2, <3>3
<1>8. PICK q : q = now.queue
  OBVIOUS
<1>9. Len(q) \in Nat /\ q \in Seq(Task) /\ (Len(q) = 0 => q = <<>>)
  BY <1>4, <1>8 DEF OpenRun
<1>10. /\ Cardinality(AtWork(next)) = Cardinality(AtWork(now)) - 1
       /\ Cardinality(AtWork(now)) \in Nat /\ Cardinality(AtWork(next)) \in Nat
  BY <1>2, <1>3, CrewIsFinite, FS_RemoveElement
<1>11. ASSUME NEW c \in Callers, now.caller[c].pc = "put" PROVE Len(q) >= 1
  <2>1. ~ (Len(q) < Room)
    BY <1>5, <1>8, <1>11
  <2> QED
    BY <1>9, <2>1
<1>12. next.joined <=> (now.phase = "closing" /\ Len(q) + Cardinality(AtWork(next)) = 0)
  <2>1. next.joined = (now.joined \/ (now.phase = "closing" /\ Upload!Unfinished(next) = 0))
    BY DEF EndsTask
  <2>2. Upload!Unfinished(next) = Len(next.queue) + Cardinality(AtWork(next))
    BY CrewIsFinite
  <2>3. Upload!Unfinished(next) = Len(q) + Cardinality(AtWork(next))
    BY <1>5, <1>8, <2>2
  <2>4. now.joined = FALSE
    BY <1>4
  <2> QED
    BY <2>1, <2>3, <2>4
<1>13. subject'.prepared = Sum(next.stats) + Len(q) + Cardinality(AtWork(next)) + Cardinality(Pending(next))
  <2>1. subject.prepared = Sum(now.stats) + Len(q) + Cardinality(AtWork(now)) + Cardinality(Pending(now))
    BY <1>4, <1>8 DEF OpenRun
  <2>2. Cardinality(Pending(now)) \in Nat
    BY FS_CardinalityType DEF CountHolds
  <2> QED
    BY <1>5, <1>6, <1>7, <1>9, <1>10, <2>1, <2>2
<1>14. CASE next.joined
  <2>1. now.phase = "closing" /\ Len(q) = 0 /\ Cardinality(AtWork(next)) = 0 /\ q = <<>>
    BY <1>9, <1>10, <1>12, <1>14
  <2>2. AtWork(next) = {}
    BY <2>1, CrewIsFinite, FS_EmptySet
  <2>3. \A c \in Callers : next.caller[c].pc # "put"
    BY <1>5, <1>11, <2>1
  <2>4. Cardinality(Pending(next)) = 0 /\ IsFiniteSet(Pending(next))
    BY <2>3, NonePending
  <2>5. Left(next) = {} /\ next.sentinels = Cardinality(Uploaders)
    BY <1>3, <1>4, <1>5 DEF OpenRun
  <2>6. subject'.prepared = Sum(next.stats)
    BY <1>7, <1>13, <2>1, <2>4
  <2>7. next.sentinels + Len(next.queue) + Cardinality(Left(next)) = Cardinality(Uploaders)
    <3>1. Cardinality(Uploaders) \in Nat /\ Cardinality(Left(next)) = 0 /\ Len(next.queue) = 0
      BY <1>5, <1>8, <2>1, <2>5, FS_EmptySet, FS_CardinalityType
    <3> QED
      BY <2>5, <3>1
  <2>8. DrainedRun(next, subject'.prepared)
    BY <1>5, <1>8, <2>1, <2>2, <2>3, <2>6, <2>7 DEF DrainedRun
  <2> QED
    BY <1>5, <1>8, <1>14, <2>1, <2>3, <2>4, <2>8 DEF CountHolds
<1>15. CASE ~ next.joined
  <2>1. OpenRun(next, subject'.prepared)
    BY <1>3, <1>4, <1>5, <1>8, <1>13 DEF OpenRun
  <2>2. (\E c \in Callers : next.caller[c].pc = "put") => next.queue # <<>>
    BY <1>5, <1>8, <1>9, <1>11
  <2>3. IsFiniteSet(Pending(next)) /\ (next.phase = "closed" => next.queue = <<>>)
    BY <1>5, <1>6 DEF CountHolds
  <2> QED
    BY <1>15, <2>1, <2>2, <2>3 DEF CountHolds
<1> QED
  BY <1>14, <1>15

HIDE UploadAssumption

\* A task that a worker takes is at work; a sentinel sends the worker away.
LEMMA TakesCounted ==
  ASSUME UploadTypes, CountHolds, NEW w \in Uploaders, TakesTask(w)
  PROVE  CountHolds'
<1> DEFINE now == subject.now
           next == subject'.now
<1>s. Shape
  BY TypesShape
<1>1. \A x \in Uploaders : next.worker[x] = IF x = w THEN next.worker[w] ELSE now.worker[x]
  BY <1>s DEF TakesTask, Shape
<1>2. /\ next.caller = now.caller /\ next.phase = now.phase /\ next.joined = now.joined
      /\ next.stats = now.stats /\ next.sentinels = now.sentinels
      /\ subject'.prepared = subject.prepared
      /\ now.worker[w].pc = "get" /\ now.queue # <<>>
  BY DEF TakesTask
<1>3. PICK q : q = now.queue
  OBVIOUS
<1>4. PICK t : t = Tail(q)
  OBVIOUS
<1>5. next.queue = t /\ next.worker[w].pc \in {"gone", "head", "put"}
      /\ (q[1] = Upload!Sentinel <=> next.worker[w].pc = "gone") /\ q # <<>>
  BY <1>3, <1>4 DEF TakesTask
<1>6. /\ q \in Seq(Task \cup {Upload!Sentinel}) /\ Len(q) \in Nat /\ Len(t) = Len(q) - 1
      /\ \A k \in 1 .. Len(t) : t[k] = q[k + 1] /\ k + 1 \in 1 .. Len(q)
      /\ 1 \in 1 .. Len(q) /\ t \in Seq(Task \cup {Upload!Sentinel})
  <2>1. q \in Seq(Task \cup {Upload!Sentinel})
    BY <1>3 DEF UploadTypes, NowTypes
  <2> QED
    BY <1>4, <1>5, <2>1
<1>7. Pending(next) = Pending(now)
  BY <1>2 DEF Pending, Owed
<1>8. now.phase # "closed"
  BY <1>2 DEF CountHolds
<1>9. IsFiniteSet(Pending(next)) /\ Cardinality(AtWork(now)) \in Nat /\ Cardinality(Left(now)) \in Nat
  BY <1>7, CrewIsFinite DEF CountHolds
<1>10. w \notin AtWork(now) /\ w \notin Left(now)
  BY <1>2 DEF AtWork, Left, Working
<1>11. CASE ~ now.joined
  <2>1. OpenRun(now, subject.prepared) /\ q \in Seq(Task)
    BY <1>3, <1>11 DEF CountHolds, OpenRun
  <2>2. t \in Seq(Task)
    BY <1>4, <1>5, <2>1
  <2>3. q[1] \in Task
    BY <1>6, <2>1
  <2>4. q[1] # Upload!Sentinel
    <3>1. q[1].size # Upload!Nothing
      BY <2>3, TaskFields
    <3>2. Upload!Sentinel.size = Upload!Nothing
      BY DEF Upload!Sentinel
    <3> QED
      BY <3>1, <3>2
  <2>5. next.worker[w].pc \in {"head", "put"}
    BY <1>5, <2>4
  <2>6. AtWork(next) = AtWork(now) \cup {w} /\ Left(next) = Left(now)
    BY <1>1, <1>2, <2>5 DEF AtWork, Left, Working
  <2>7. Cardinality(AtWork(next)) = Cardinality(AtWork(now)) + 1
    BY <1>10, <2>6, CrewIsFinite, FS_AddElement
  <2>8. Sum(now.stats) \in Nat /\ Cardinality(Pending(now)) \in Nat
    BY FS_CardinalityType, <1>7, <1>9 DEF UploadTypes, NowTypes, Sum
  <2>9. subject.prepared = Sum(now.stats) + Len(q) + Cardinality(AtWork(now)) + Cardinality(Pending(now))
    BY <1>3, <2>1 DEF OpenRun
  <2>10. subject'.prepared = Sum(next.stats) + Len(t) + Cardinality(AtWork(next)) + Cardinality(Pending(next))
    BY <1>2, <1>6, <1>7, <1>9, <2>7, <2>8, <2>9
  <2>11. OpenRun(next, subject'.prepared)
    BY <1>2, <1>5, <2>1, <2>2, <2>6, <2>10 DEF OpenRun
  <2> QED
    BY <1>2, <1>8, <1>9, <1>11, <2>6, <2>11 DEF CountHolds
<1>12. CASE now.joined
  <2>1. DrainedRun(now, subject.prepared) /\ \A k \in 1 .. Len(q) : q[k] = Upload!Sentinel
    BY <1>3, <1>6, <1>12 DEF CountHolds, DrainedRun
  <2>2. next.worker[w].pc = "gone"
    BY <1>5, <1>6, <2>1
  <2>3. AtWork(next) = AtWork(now) /\ Left(next) = Left(now) \cup {w}
    BY <1>1, <1>2, <2>2 DEF AtWork, Left, Working
  <2>4. Cardinality(Left(next)) = Cardinality(Left(now)) + 1
    BY <1>10, <2>3, CrewIsFinite, FS_AddElement
  <2>5. \A k \in DOMAIN t : t[k] = Upload!Sentinel
    BY <1>6, <2>1
  <2>6. now.sentinels \in Nat /\ now.sentinels + Len(q) + Cardinality(Left(now)) = Cardinality(Uploaders)
    BY <1>3, <2>1 DEF DrainedRun, UploadTypes, NowTypes
  <2>7. next.sentinels + Len(t) + Cardinality(Left(next)) = Cardinality(Uploaders)
    <3>1. PICK l \in Nat, a \in Nat : l = Len(q) /\ a = Cardinality(Left(now))
      BY <1>6, <1>9
    <3>2. now.sentinels + (l - 1) + (a + 1) = Cardinality(Uploaders)
      BY <2>6, <3>1
    <3> QED
      BY <1>2, <1>6, <2>4, <3>1, <3>2
  <2>8. DrainedRun(next, subject'.prepared)
    BY <1>2, <1>5, <2>1, <2>3, <2>5, <2>7 DEF DrainedRun
  <2>9. \A c \in Callers : next.caller[c].pc # "put"
    BY <2>8 DEF DrainedRun
  <2> QED
    BY <1>2, <1>8, <1>9, <1>12, <2>8, <2>9 DEF CountHolds
<1> QED
  BY <1>11, <1>12

\* A caller puts the rest of a document it counted, or that of one it counts now.
LEMMA PutsCounted ==
  ASSUME UploadTypes, CountHolds, NEW c \in Callers, NEW todo, NEW n \in Nat,
         PutsTasks(c, todo, n),
         subject'.prepared + Owed(subject.now, c) = subject.prepared + Len(todo),
         subject'.prepared \in Nat,
         subject.now.phase = "started" \/ subject.now.caller[c].pc = "put"
  PROVE  CountHolds'
<1> DEFINE now == subject.now
           next == subject'.now
<1>s. Shape
  BY TypesShape
<1>1. /\ next.worker = now.worker /\ next.joined = now.joined /\ next.stats = now.stats
      /\ next.phase = now.phase /\ next.sentinels = now.sentinels
      /\ next.caller = [now.caller EXCEPT ![c] = next.caller[c]]
      /\ n \in 0 .. Len(todo) /\ todo \in Seq(Task)
  BY DEF PutsTasks
<1>2. AtWork(next) = AtWork(now) /\ Left(next) = Left(now)
  BY <1>1 DEF AtWork, Left
<1>3. ~ now.joined
  BY DEF CountHolds, DrainedRun
<1>4. OpenRun(now, subject.prepared)
  BY <1>3 DEF CountHolds
<1>5. PICK q : q = now.queue
  OBVIOUS
<1>6. PICK r : r = next.queue
  OBVIOUS
<1>7. q \in Seq(Task) /\ Len(q) \in Nat /\ Len(todo) \in Nat
  BY <1>1, <1>4, <1>5 DEF OpenRun
<1>8. r \in Seq(Task) /\ Len(r) = Len(q) + n
  <2>1. r = q \o SubSeq(todo, 1, n) /\ Len(r) = Len(q) + n
    BY <1>5, <1>6 DEF PutsTasks
  <2>2. SubSeq(todo, 1, n) \in Seq(Task)
    BY <1>1, <1>7
  <2> QED
    BY <1>7, <2>1, <2>2
<1>9. Owed(next, c) = Len(todo) - n /\ (n < Len(todo) => Len(r) = Room)
  <2>1. CASE n = Len(todo)
    <3>1. next.caller[c] = Upload!Resting
      BY <2>1 DEF PutsTasks
    <3> QED
      BY <1>7, <2>1, <3>1 DEF Upload!Resting, Owed
  <2>2. CASE n < Len(todo)
    <3>1. PICK rest : rest = SubSeq(todo, n + 1, Len(todo))
      OBVIOUS
    <3>2. next.caller[c] = [pc |-> "put", doc |-> "none", todo |-> rest] /\ Len(r) = Room
      BY <1>6, <2>2, <3>1 DEF PutsTasks
    <3>3. Len(rest) = Len(todo) - n
      BY <1>1, <1>7, <2>2, <3>1
    <3> QED
      BY <3>2, <3>3 DEF Owed
  <2> QED
    BY <1>1, <1>7, <2>1, <2>2
<1>10. Owed(next, c) \in Nat
  BY <1>1, <1>7, <1>9
<1>11. PICK owed \in Nat : owed = Owed(now, c)
  BY DEF Owed, UploadTypes, NowTypes, CallerTypes
<1>12. /\ IsFiniteSet(Pending(next))
       /\ Cardinality(Pending(next)) = Cardinality(Pending(now)) - Owed(now, c) + Owed(next, c)
  BY <1>1, <1>10, PendingStep DEF CountHolds
<1>13. Cardinality(Pending(now)) \in Nat /\ Sum(now.stats) \in Nat /\ Cardinality(AtWork(now)) \in Nat
       /\ subject.prepared \in Nat
  <2>1. now.stats \in [uploaded : Nat, skipped : Nat, failed : Nat] /\ subject.prepared \in Nat
    BY DEF UploadTypes, NowTypes
  <2>2. Sum(now.stats) \in Nat
    BY <2>1 DEF Sum
  <2>3. Cardinality(Pending(now)) \in Nat
    BY FS_CardinalityType DEF CountHolds
  <2> QED
    BY <2>1, <2>2, <2>3, CrewIsFinite
<1>14. subject.prepared = Sum(now.stats) + Len(q) + Cardinality(AtWork(now)) + Cardinality(Pending(now))
  BY <1>4, <1>5 DEF OpenRun
<1>15. subject'.prepared = Sum(next.stats) + Len(r) + Cardinality(AtWork(next)) + Cardinality(Pending(next))
  <2>1. Cardinality(Pending(next)) = Cardinality(Pending(now)) - owed + (Len(todo) - n)
    BY <1>9, <1>11, <1>12
  <2>2. subject'.prepared + owed = subject.prepared + Len(todo)
    BY <1>11
  <2>3. Sum(next.stats) = Sum(now.stats) /\ Cardinality(AtWork(next)) = Cardinality(AtWork(now))
    BY <1>1, <1>2
  <2>4. PICK a \in Nat, p \in Nat, s \in Nat, l \in Nat, k \in Nat :
          /\ a = Cardinality(AtWork(now)) /\ p = Cardinality(Pending(now)) /\ s = Sum(now.stats)
          /\ l = Len(q) /\ k = Len(todo)
    BY <1>7, <1>13
  <2>5. subject.prepared = s + l + a + p /\ subject'.prepared \in Nat
    BY <1>14, <2>4
  <2>6. PICK later \in Nat : later = subject'.prepared
    BY <2>5
  <2>7. later + owed = (s + l + a + p) + k
    BY <2>2, <2>4, <2>5, <2>6
  <2>8. later = s + (l + n) + a + (p - owed + (k - n))
    BY <2>7
  <2> QED
    BY <1>8, <2>1, <2>3, <2>4, <2>6, <2>8
<1>16. OpenRun(next, subject'.prepared)
  BY <1>1, <1>2, <1>4, <1>6, <1>8, <1>15 DEF OpenRun
<1>17. ASSUME NEW x \in Callers, next.caller[x].pc = "put" PROVE next.queue # <<>> \/ AtWork(next) # {}
  <2>1. CASE x = c
    <3>1. n # Len(todo)
      <4>1. CASE n = Len(todo)
        <5>1. next.caller[c] = Upload!Resting
          BY <4>1 DEF PutsTasks
        <5> QED
          BY <1>17, <2>1, <5>1 DEF Upload!Resting
      <4> QED
        BY <4>1
    <3>2. Len(r) = Room /\ Room # 0
      BY <1>1, <1>7, <1>9, <3>1, UploadAssumption
    <3> QED
      BY <1>6, <3>2
  <2>2. CASE x # c
    <3>1. now.caller[x].pc = "put"
      BY <1>s, <1>1, <1>17, <2>2 DEF Shape
    <3>2. q # <<>> \/ AtWork(now) # {}
      BY <1>5, <3>1 DEF CountHolds
    <3>3. q # <<>> => Len(r) # 0
      BY <1>7, <1>8
    <3> QED
      BY <1>2, <1>6, <3>2, <3>3
  <2> QED
    BY <2>1, <2>2
<1>18. next.phase # "closed" /\ ~ next.joined
  BY <1>1, <1>3, <1>4 DEF OpenRun
<1> QED
  BY <1>12, <1>16, <1>17, <1>18 DEF CountHolds

\* A step of somebody that neither puts nor works changes nothing that is counted.
LEMMA SameCounted ==
  ASSUME CountHolds, \A c \in Callers : Owed(subject'.now, c) = Owed(subject.now, c),
         \A c \in Callers : subject'.now.caller[c].pc = "put" => subject.now.caller[c].pc = "put",
         subject'.now.queue = subject.now.queue, subject'.now.joined = subject.now.joined,
         subject'.now.stats = subject.now.stats, subject'.now.phase = subject.now.phase,
         subject'.now.sentinels = subject.now.sentinels,
         subject'.now.worker = subject.now.worker, subject'.prepared = subject.prepared
  PROVE  CountHolds'
<1>1. Pending(subject'.now) = Pending(subject.now)
  BY DEF Pending
<1>2. AtWork(subject'.now) = AtWork(subject.now) /\ Left(subject'.now) = Left(subject.now)
  BY DEF AtWork, Left
<1> QED
  BY <1>1, <1>2 DEF CountHolds, OpenRun, DrainedRun

\* A caller that asks, or has asked.
Rests(c, x) ==
  LET now == subject.now
      next == subject'.now
  IN  /\ x.pc \in {"rest", "ask"}
      /\ next.caller = [now.caller EXCEPT ![c] = x]
      /\ next.queue = now.queue /\ next.joined = now.joined
      /\ next.stats = now.stats /\ next.phase = now.phase
      /\ next.sentinels = now.sentinels /\ next.worker = now.worker
      /\ subject'.prepared = subject.prepared

\* The tasks of a run are all counted, at every step.
LEMMA CountKept ==
  /\ Upload!UploadInit => CountHolds
  /\ UploadTypes /\ CountHolds /\ Upload!UploadNext => CountHolds'
<1>1. ASSUME NEW file, NEW remote
      PROVE  LET fresh == Upload!Fresh(file, remote)
             IN  /\ ~ fresh.joined /\ OpenRun(fresh, 0) /\ IsFiniteSet(Pending(fresh))
                 /\ fresh.phase # "closed" /\ \A c \in Callers : fresh.caller[c].pc # "put"
  <2> DEFINE fresh == Upload!Fresh(file, remote)
  <2>1. /\ fresh.phase = "started" /\ fresh.joined = FALSE /\ fresh.queue = <<>>
        /\ fresh.stats = Upload!Tally /\ fresh.sentinels = Upload!Cardinality(Uploaders)
        /\ \A c \in Callers : fresh.caller[c] = Upload!Resting
        /\ \A w \in Uploaders : fresh.worker[w] = Upload!Fetching
    BY DEF Upload!Fresh
  <2> HIDE DEF fresh
  <2>2. \A c \in Callers : fresh.caller[c].pc # "put"
    BY <2>1 DEF Upload!Resting
  <2>3. AtWork(fresh) = {} /\ Left(fresh) = {}
    BY <2>1 DEF AtWork, Left, Working, Upload!Fetching
  <2>4. IsFiniteSet(Pending(fresh)) /\ Cardinality(Pending(fresh)) = 0
    BY <2>2, NonePending
  <2>5. Sum(fresh.stats) = 0 /\ Len(fresh.queue) = 0 /\ fresh.queue \in Seq(Task)
    BY <2>1 DEF Sum, Upload!Tally
  <2>6. 0 = Sum(fresh.stats) + Len(fresh.queue) + Cardinality(AtWork(fresh)) + Cardinality(Pending(fresh))
    BY <2>3, <2>4, <2>5, FS_EmptySet
  <2>7. OpenRun(fresh, 0)
    BY <2>1, <2>3, <2>5, <2>6, UploadCardinality DEF OpenRun
  <2> QED
    BY <2>1, <2>2, <2>4, <2>7 DEF fresh
<1>2. Upload!UploadInit => CountHolds
  <2> SUFFICES ASSUME Upload!UploadInit PROVE CountHolds
    OBVIOUS
  <2>1. subject.now = Upload!Fresh({}, Upload!NoObjects) /\ subject.prepared = 0
    BY DEF Upload!UploadInit
  <2> QED
    BY <1>1, <2>1 DEF CountHolds
<1>3. ASSUME UploadTypes, CountHolds, Upload!UploadNext PROVE CountHolds'
  <2> DEFINE now == subject.now
             next == subject'.now
  <2> USE <1>3
  <2>s. Shape
    BY TypesShape
  <2>1. ASSUME NEW c \in Callers, Upload!Enqueue(c) PROVE CountHolds'
    <3>1. PICK todo \in Seq(Task), n \in Nat :
            PutsTasks(c, todo, n) /\ subject'.prepared = subject.prepared + Len(todo)
      BY <2>1, CallerEnqueues
    <3>2. now.phase = "started" /\ Owed(now, c) = 0
      BY <2>1, CallerEnqueues DEF Owed
    <3>3. subject.prepared \in Nat /\ Len(todo) \in Nat
      BY DEF UploadTypes
    <3>4. subject'.prepared + Owed(now, c) = subject.prepared + Len(todo) /\ subject'.prepared \in Nat
      BY <3>1, <3>2, <3>3
    <3> QED
      BY <3>1, <3>2, <3>4, PutsCounted
  <2>2. ASSUME NEW c \in Callers, Upload!PutMore(c) PROVE CountHolds'
    <3>1. PICK todo : todo = now.caller[c].todo
      OBVIOUS
    <3>2. PICK n \in Nat : PutsTasks(c, todo, n)
      BY <2>2, <3>1, CallerGoesOn
    <3>3. now.caller[c].pc = "put" /\ subject'.prepared = subject.prepared /\ subject.prepared \in Nat
      BY <2>2, CallerGoesOn DEF UploadTypes
    <3>4. subject'.prepared + Owed(now, c) = subject.prepared + Len(todo)
      BY <3>1, <3>3 DEF Owed
    <3> QED
      BY <3>2, <3>3, <3>4, PutsCounted
  <2>3. ASSUME NEW c \in Callers, Upload!AskExists(c) \/ Upload!ExistsAnswered(c) \/ Upload!ExistsFails(c)
        PROVE  CountHolds'
    <3>1. now.caller[c].pc \in {"rest", "ask"}
      BY <2>3 DEF Upload!AskExists, Upload!ExistsAnswered, Upload!ExistsFails, Upload!Calls, Upload!Now
    <3>2. PICK x : Rests(c, x)
      <4>1. CASE Upload!AskExists(c)
        <5>1. PICK d \in Docs : subject' = [subject EXCEPT !.calls = @ + 1,
                    !.now.caller[c] = [pc |-> "ask", todo |-> Artifacts[d], doc |-> d]]
          BY <4>1 DEF Upload!AskExists
        <5>2. PICK x : x = [pc |-> "ask", todo |-> Artifacts[d], doc |-> d]
          OBVIOUS
        <5>3. x.pc = "ask" /\ subject' = [subject EXCEPT !.calls = @ + 1, !.now.caller[c] = x]
          BY <5>1, <5>2
        <5>4. Rests(c, x)
          BY <2>s, <5>3 DEF Shape, NowFields, Rests
        <5> QED
          BY <5>4
      <4>2. CASE Upload!ExistsAnswered(c)
        <5> DEFINE asked == now.caller[c]
                   there == now.phase # "closed" /\ Upload!AllThere(now, asked.todo)
                   onward == now.phase # "closed" /\ now.remote[Head(asked.todo)] # Upload!Nothing /\ ~ there
                   rest == IF onward THEN [asked EXCEPT !.todo = Tail(@)] ELSE Upload!Resting
        <5>1. asked.pc = "ask" /\ DOMAIN asked = {"pc", "todo", "doc"}
          BY <4>2 DEF Upload!ExistsAnswered, UploadTypes, NowTypes, CallerTypes, Upload!Now
        <5>2. subject' = [subject EXCEPT !.now.caller[c] = rest,
                        !.told = IF there THEN @ \cup {asked.doc} ELSE @]
          BY <4>2 DEF Upload!ExistsAnswered, Upload!Now
        <5>3. rest.pc \in {"rest", "ask"}
          BY <5>1 DEF Upload!Resting
        <5> HIDE DEF rest, there
        <5>4. /\ next.caller = [now.caller EXCEPT ![c] = rest]
              /\ next.queue = now.queue /\ next.joined = now.joined
              /\ next.stats = now.stats /\ next.phase = now.phase
              /\ next.sentinels = now.sentinels /\ next.worker = now.worker
              /\ subject'.prepared = subject.prepared
          BY <2>s, <5>2 DEF Shape, NowFields
        <5>5. Rests(c, rest)
          BY <5>3, <5>4 DEF Rests
        <5> QED
          BY <5>5
      <4>3. CASE Upload!ExistsFails(c)
        <5>1. subject' = [subject EXCEPT !.now.caller[c] = Upload!Resting, !.faults = @ + 1]
          BY <4>3 DEF Upload!ExistsFails
        <5>2. PICK x : x = Upload!Resting
          OBVIOUS
        <5>3. x.pc = "rest" /\ subject' = [subject EXCEPT !.now.caller[c] = x, !.faults = @ + 1]
          BY <5>1, <5>2 DEF Upload!Resting
        <5>4. Rests(c, x)
          BY <2>s, <5>3 DEF Shape, NowFields, Rests
        <5> QED
          BY <5>4
      <4> QED
        BY <2>3, <4>1, <4>2, <4>3
    <3>3. next.caller[c].pc \in {"rest", "ask"} /\ \A y \in Callers : y # c => next.caller[y] = now.caller[y]
      BY <2>s, <3>2 DEF Shape, Rests
    <3>4. \A y \in Callers : Owed(next, y) = Owed(now, y)
      BY <3>1, <3>3 DEF Owed
    <3>5. \A y \in Callers : next.caller[y].pc = "put" => now.caller[y].pc = "put"
      BY <3>3
    <3> QED
      BY <3>2, <3>4, <3>5, SameCounted DEF Rests
  <2>4. CASE Upload!Close
    <3>1. /\ now.phase = "started" /\ next.phase = "closing" /\ (next.joined <=> Upload!Unfinished(now) = 0)
          /\ next.queue = now.queue /\ next.caller = now.caller /\ next.worker = now.worker
          /\ next.stats = now.stats /\ next.sentinels = now.sentinels /\ subject'.prepared = subject.prepared
      BY <2>s, <2>4 DEF Upload!Close, Upload!Becomes, Upload!Now, Shape, NowFields
    <3>2. AtWork(next) = AtWork(now) /\ Left(next) = Left(now) /\ Pending(next) = Pending(now)
      BY <3>1 DEF AtWork, Left, Pending, Owed
    <3>3. ~ now.joined /\ OpenRun(now, subject.prepared) /\ IsFiniteSet(Pending(now))
      BY <3>1 DEF CountHolds, DrainedRun
    <3>4. CASE next.joined
      <4>1. Len(now.queue) = 0 /\ Cardinality(AtWork(now)) = 0 /\ now.queue = <<>>
        <5>1. PICK q \in Seq(Task) : q = now.queue
          BY <3>3 DEF OpenRun
        <5>2. Len(q) + Cardinality(AtWork(now)) = 0
          BY <3>1, <3>4, <5>1, CrewIsFinite
        <5>3. Len(q) \in Nat /\ Cardinality(AtWork(now)) \in Nat
          BY CrewIsFinite
        <5>4. Len(q) = 0 /\ Cardinality(AtWork(now)) = 0
          BY <5>2, <5>3
        <5> QED
          BY <5>1, <5>4
      <4>2. AtWork(now) = {}
        BY <4>1, CrewIsFinite, FS_EmptySet
      <4>3. \A c \in Callers : now.caller[c].pc # "put"
        BY <4>1, <4>2 DEF CountHolds
      <4>4. Cardinality(Pending(now)) = 0
        BY <4>3, NonePending
      <4>5. Sum(now.stats) \in Nat
        BY DEF UploadTypes, NowTypes, Sum
      <4>6. subject.prepared = Sum(now.stats)
        BY <3>3, <4>1, <4>4, <4>5 DEF OpenRun
      <4>7. Left(now) = {} /\ now.sentinels = Cardinality(Uploaders)
        BY <3>3 DEF OpenRun
      <4>8. now.sentinels + Len(now.queue) + Cardinality(Left(now)) = Cardinality(Uploaders)
        <5>1. Cardinality(Left(now)) = 0 /\ now.sentinels \in Nat
          BY <4>7, FS_EmptySet DEF UploadTypes, NowTypes
        <5> QED
          BY <4>1, <4>7, <5>1
      <4>9. DrainedRun(next, subject'.prepared)
        BY <3>1, <3>2, <4>1, <4>2, <4>3, <4>6, <4>8 DEF DrainedRun
      <4> QED
        BY <3>1, <3>2, <3>3, <3>4, <4>1, <4>3, <4>9 DEF CountHolds
    <3>5. CASE ~ next.joined
      BY <3>1, <3>2, <3>3, <3>5 DEF CountHolds, OpenRun
    <3> QED
      BY <3>4, <3>5
  <2>5. CASE Upload!SendSentinels
    <3>1. /\ now.joined /\ now.phase = "closing" /\ now.sentinels > 0
          /\ next.queue = Append(now.queue, Upload!Sentinel) /\ next.sentinels = now.sentinels - 1
          /\ next.phase = now.phase /\ next.joined = now.joined
          /\ next.caller = now.caller /\ next.worker = now.worker
          /\ next.stats = now.stats /\ subject'.prepared = subject.prepared
      BY <2>s, <2>5 DEF Upload!SendSentinels, Upload!Joined, Upload!Becomes, Upload!Now, Shape, NowFields
    <3>2. AtWork(next) = AtWork(now) /\ Left(next) = Left(now) /\ Pending(next) = Pending(now)
      BY <3>1 DEF AtWork, Left, Pending, Owed
    <3>3. DrainedRun(now, subject.prepared)
      BY <3>1 DEF CountHolds
    <3>4. PICK q \in Seq(Task \cup {Upload!Sentinel}) : q = now.queue
      BY DEF UploadTypes, NowTypes
    <3>5. PICK r : r = next.queue
      OBVIOUS
    <3>6. Len(r) = Len(q) + 1 /\ Len(q) \in Nat /\ \A k \in DOMAIN r : r[k] = Upload!Sentinel
      <4>1. \A k \in DOMAIN q : q[k] = Upload!Sentinel
        BY <3>3, <3>4 DEF DrainedRun
      <4>2. r = Append(q, Upload!Sentinel)
        BY <3>1, <3>4, <3>5
      <4> QED
        BY <4>1, <4>2
    <3>7. now.sentinels + Len(q) + Cardinality(Left(now)) = Cardinality(Uploaders) /\ now.sentinels \in Nat
      BY <3>3, <3>4 DEF DrainedRun, UploadTypes, NowTypes
    <3>8. next.sentinels + Len(r) + Cardinality(Left(next)) = Cardinality(Uploaders)
      <4>1. PICK a \in Nat : a = Cardinality(Left(now))
        BY CrewIsFinite
      <4>2. now.sentinels - 1 + (Len(q) + 1) + a = Cardinality(Uploaders)
        BY <3>6, <3>7, <4>1
      <4> QED
        BY <3>1, <3>2, <3>6, <4>1, <4>2
    <3>9. DrainedRun(next, subject'.prepared)
      BY <3>1, <3>2, <3>3, <3>5, <3>6, <3>8 DEF DrainedRun
    <3> QED
      BY <3>1, <3>2, <3>9 DEF CountHolds, DrainedRun
  <2>6. CASE Upload!Closed
    <3>1. /\ now.phase = "closing" /\ now.sentinels = 0 /\ next.phase = "closed"
          /\ \A w \in Uploaders : now.worker[w].pc = "gone"
          /\ next.queue = now.queue /\ next.sentinels = now.sentinels
          /\ next.joined = now.joined /\ next.caller = now.caller /\ next.worker = now.worker
          /\ next.stats = now.stats /\ subject'.prepared = subject.prepared
      BY <2>s, <2>6 DEF Upload!Closed, Upload!Becomes, Upload!Now, Shape, NowFields
    <3>2. AtWork(next) = AtWork(now) /\ Left(next) = Left(now) /\ Pending(next) = Pending(now)
      BY <3>1 DEF AtWork, Left, Pending, Owed
    <3>3. Left(now) = Uploaders /\ Cardinality(Uploaders) # 0 /\ Cardinality(Uploaders) \in Nat
      BY <3>1, FS_EmptySet, FS_CardinalityType, UploadAssumption DEF Left
    <3>4. now.joined /\ DrainedRun(now, subject.prepared)
      BY <3>1, <3>3 DEF CountHolds, OpenRun
    <3>5. now.queue = <<>>
      <4>1. PICK q \in Seq(Task \cup {Upload!Sentinel}) : q = now.queue
        BY DEF UploadTypes, NowTypes
      <4>2. 0 + Len(q) + Cardinality(Uploaders) = Cardinality(Uploaders)
        BY <3>1, <3>3, <3>4, <4>1 DEF DrainedRun
      <4>3. Len(q) = 0
        BY <3>3, <4>2
      <4> QED
        BY <4>1, <4>3
    <3>6. DrainedRun(next, subject'.prepared)
      BY <3>1, <3>2, <3>4 DEF DrainedRun
    <3> QED
      BY <3>1, <3>2, <3>4, <3>5, <3>6 DEF CountHolds, DrainedRun
  <2>7. CASE Upload!NextRun
    <3>1. subject'.prepared = 0 /\ next = Upload!Fresh(now.file, now.remote)
      BY <2>s, <2>7 DEF Upload!NextRun, Upload!Now, Shape
    <3> QED
      BY <1>1, <3>1 DEF CountHolds
  <2>8. ASSUME NEW w \in Uploaders, Upload!Works(w) PROVE CountHolds'
    BY <2>s, <2>8, WorkerStays, WorkerEnds, WorkerTakes, StaysCounted, EndsCounted, TakesCounted DEF Upload!Works
  <2> QED
    BY <2>1, <2>2, <2>3, <2>4, <2>5, <2>6, <2>7, <2>8 DEF Upload!UploadNext
<1> QED
  BY <1>2, <1>3

\* What the uploader of S3Upload is to leave behind.
LEMMA UploadHolds ==
  UploadTypes /\ ManifestHolds /\ CountHolds => Upload!ClosedIsComplete /\ Upload!ManifestIsTrue
<1> SUFFICES ASSUME UploadTypes, ManifestHolds, CountHolds
             PROVE  Upload!ClosedIsComplete /\ Upload!ManifestIsTrue
  OBVIOUS
<1>1. ASSUME subject.now.phase = "closed"
      PROVE  /\ subject.now.stats.uploaded + subject.now.stats.skipped + subject.now.stats.failed = subject.prepared
             /\ subject.now.queue = <<>> /\ \A c \in Callers : subject.now.caller[c].pc # "put"
  BY <1>1 DEF CountHolds, OpenRun, DrainedRun, Sum
<1>2. Upload!ClosedIsComplete
  BY <1>1 DEF Upload!ClosedIsComplete, Upload!Now
<1>3. Upload!ManifestIsTrue
  BY DEF Upload!ManifestIsTrue, Upload!Now, ManifestHolds, There
<1> QED
  BY <1>2, <1>3

-----------------------------------------------------------------------------
(* The index of documents.                                                 *)

Papery == {Index!Row(j) : j \in Papers}
Elems(seq) == {seq[n] : n \in DOMAIN seq}
RowsOf(i) == Elems(i.file) \cup Elems(i.run.buffer) \cup Elems(i.run.writing)
RunFields == {"known", "buffer", "writing", "writer", "up", "job"}
JobFields == {"pc", "end", "calls"}

\* What the runner knows is in the file, waits for its batch or is being written.
KnownIn(seen, held) ==
  /\ \A x \in seen.sums : \E row \in held : row.sum = x
  /\ \A s \in seen.sizes : \E row \in held : row.path = s[1] /\ row.size = s[2]

\* So is a document that was not failed on.
EndIn(j, job, held) ==
  job.end \in {"success", "skipped"} /\ Doc[j].size # Index!Gone =>
    \E row \in held :
      row.sum = Doc[j].sum \/ (row.path = Doc[j].path /\ row.size = Doc[j].size)

IndexShape(i) ==
  /\ DOMAIN i = {"run", "file", "lost", "faults"} /\ DOMAIN i.run = RunFields
  /\ DOMAIN i.run.known = {"sums", "sizes"}
  /\ DOMAIN i.run.job = Papers /\ \A j \in Papers : DOMAIN i.run.job[j] = JobFields
  /\ i.file \in Seq(Papery) /\ i.run.buffer \in Seq(Papery) /\ i.run.writing \in Seq(Papery)

\* Who completes a batch writes it, its own row with it, before anybody else appends.
OneWriter(i) ==
  /\ \A j \in Papers : i.run.job[j].pc = "write" =>
                         i.run.writer = j /\ Index!Row(j) \in Elems(i.run.writing)
  /\ IF i.run.writer = "nobody" THEN i.run.writing = <<>>
     ELSE i.run.writer \in Papers /\ i.run.job[i.run.writer].pc = "write"
  /\ ~ i.run.up => i.run.buffer = <<>> /\ \A j \in Papers : i.run.job[j].pc \in {"new", "ended"}

IndexHolds ==
  /\ IndexShape(subject) /\ OneWriter(subject)
  /\ ~ subject.lost => /\ KnownIn(subject.run.known, RowsOf(subject))
                       /\ \A j \in Papers : EndIn(j, subject.run.job[j], RowsOf(subject))

\* The elements of sequences that are put together.
LEMMA ElemsOf ==
  /\ Elems(<<>>) = {}
  /\ \A s \in Seq(Papery), x \in Papery :
       Append(s, x) \in Seq(Papery) /\ Elems(Append(s, x)) = Elems(s) \cup {x}
  /\ \A s, t \in Seq(Papery) : s \o t \in Seq(Papery) /\ Elems(s \o t) = Elems(s) \cup Elems(t)
<1>1. Elems(<<>>) = {}
  BY DEF Elems
<1>2. ASSUME NEW s \in Seq(Papery), NEW x \in Papery
      PROVE  Append(s, x) \in Seq(Papery) /\ Elems(Append(s, x)) = Elems(s) \cup {x}
  <2>1. PICK t : t = Append(s, x)
    OBVIOUS
  <2>2. t \in Seq(Papery) /\ DOMAIN t = 1 .. Len(s) + 1 /\ DOMAIN s = 1 .. Len(s) /\ Len(s) \in Nat
        /\ t[Len(s) + 1] = x /\ \A n \in 1 .. Len(s) : t[n] = s[n]
    BY <2>1
  <2>3. Elems(t) = Elems(s) \cup {x}
    BY <2>2 DEF Elems
  <2> QED
    BY <2>1, <2>2, <2>3
<1>3. ASSUME NEW s \in Seq(Papery), NEW t \in Seq(Papery)
      PROVE  s \o t \in Seq(Papery) /\ Elems(s \o t) = Elems(s) \cup Elems(t)
  <2>1. PICK u : u = s \o t
    OBVIOUS
  <2>2. u \in Seq(Papery) /\ DOMAIN u = 1 .. Len(s) + Len(t) /\ DOMAIN s = 1 .. Len(s) /\ Len(s) \in Nat
        /\ DOMAIN t = 1 .. Len(t) /\ Len(t) \in Nat
        /\ \A n \in 1 .. Len(s) + Len(t) : u[n] = IF n <= Len(s) THEN s[n] ELSE t[n - Len(s)]
    BY <2>1
  <2>3. \A n \in 1 .. Len(t) : u[n + Len(s)] = t[n] /\ n + Len(s) \in 1 .. Len(s) + Len(t)
    BY <2>2
  <2>4. \A n \in 1 .. Len(s) : u[n] = s[n] /\ n \in 1 .. Len(s) + Len(t)
    BY <2>2
  <2>5. Elems(s) \cup Elems(t) \subseteq Elems(u)
    BY <2>2, <2>3, <2>4 DEF Elems
  <2>6. ASSUME NEW n \in 1 .. Len(s) + Len(t) PROVE u[n] \in Elems(s) \cup Elems(t)
    <3>1. CASE n <= Len(s)
      BY <2>2, <3>1 DEF Elems
    <3>2. CASE ~ (n <= Len(s))
      <4>1. n - Len(s) \in 1 .. Len(t) /\ u[n] = t[n - Len(s)]
        BY <2>2, <3>2
      <4> QED
        BY <2>2, <4>1 DEF Elems
    <3> QED
      BY <3>1, <3>2
  <2>7. Elems(u) \subseteq Elems(s) \cup Elems(t)
    BY <2>2, <2>6 DEF Elems
  <2> QED
    BY <2>1, <2>2, <2>5, <2>7
<1> QED
  BY <1>1, <1>2, <1>3

\* What is held stays in reach when more is held.
LEMMA HeldGrows ==
  ASSUME NEW held, NEW more, held \subseteq more
  PROVE  /\ \A seen : KnownIn(seen, held) => KnownIn(seen, more)
         /\ \A j, job : EndIn(j, job, held) => EndIn(j, job, more)
BY DEF KnownIn, EndIn

\* A run that starts knows what the file has.
LEMMA RunStarts ==
  ASSUME NEW i, DOMAIN i = {"run", "file", "lost", "faults"}, i.file \in Seq(Papery),
         i.run = Index!Run(i.file)
  PROVE  /\ IndexShape(i) /\ OneWriter(i) /\ KnownIn(i.run.known, RowsOf(i))
         /\ \A j \in Papers : EndIn(j, i.run.job[j], RowsOf(i))
<1>1. DOMAIN i.run = RunFields
  BY Zenon DEF Index!Run, RunFields
<1>2. /\ i.run.known = Index!Loaded(i.file) /\ i.run.buffer = <<>> /\ i.run.writing = <<>>
      /\ i.run.writer = "nobody" /\ i.run.up = TRUE
      /\ DOMAIN i.run.job = Papers /\ \A j \in Papers : i.run.job[j] = Index!New
  BY DEF Index!Run
<1>3. DOMAIN Index!New = JobFields /\ Index!New.pc = "new" /\ Index!New.end = "none"
  BY DEF Index!New, JobFields
<1>4. PICK seen : seen = Index!Loaded(i.file)
  OBVIOUS
<1>5. DOMAIN seen = {"sums", "sizes"} /\ KnownIn(seen, RowsOf(i))
  BY <1>4 DEF Index!Loaded, KnownIn, RowsOf, Elems
<1>6. IndexShape(i)
  BY <1>1, <1>2, <1>3, <1>4, <1>5 DEF IndexShape
<1>7. OneWriter(i)
  BY <1>2, <1>3 DEF OneWriter
<1>8. \A j \in Papers : EndIn(j, i.run.job[j], RowsOf(i))
  BY <1>2, <1>3 DEF EndIn
<1> QED
  BY <1>2, <1>4, <1>5, <1>6, <1>7, <1>8

\* A job goes on, or ends, that does not write.
MovesTo(j, job) ==
  LET run == subject.run
      next == subject'.run
  IN  /\ DOMAIN subject' = {"run", "file", "lost", "faults"} /\ DOMAIN next = RunFields
      /\ subject'.file = subject.file /\ subject'.lost = subject.lost
      /\ next.job = [run.job EXCEPT ![j] = job]
      /\ next.known = run.known /\ next.buffer = run.buffer /\ next.writing = run.writing
      /\ next.writer = run.writer /\ next.up = run.up

\* A job of the index that goes on without the writer.
LEMMA JobMoves ==
  ASSUME IndexHolds, NEW j \in Papers, NEW job, MovesTo(j, job), DOMAIN job = JobFields,
         job.pc # "write", subject.run.job[j].pc # "write", subject.run.up,
         ~ subject.lost => EndIn(j, job, RowsOf(subject))
  PROVE  IndexHolds'
<1> DEFINE next == subject'.run
<1>1. \A k \in Papers : next.job[k] = IF k = j THEN job ELSE subject.run.job[k]
  BY DEF MovesTo, IndexHolds, IndexShape
<1>2. RowsOf(subject') = RowsOf(subject)
  BY DEF MovesTo, RowsOf
<1>3. IndexShape(subject')
  BY <1>1 DEF MovesTo, IndexHolds, IndexShape
<1>4. OneWriter(subject')
  BY <1>1 DEF MovesTo, IndexHolds, OneWriter
<1>5. ~ subject'.lost => /\ KnownIn(next.known, RowsOf(subject'))
                         /\ \A k \in Papers : EndIn(k, next.job[k], RowsOf(subject'))
  BY <1>1, <1>2 DEF MovesTo, IndexHolds
<1> QED
  BY <1>3, <1>4, <1>5 DEF IndexHolds

\* What is registered of a row is held with it.
LEMMA RegistersHeld ==
  ASSUME NEW seen, NEW held, KnownIn(seen, held), NEW row \in held
  PROVE  KnownIn(Index!Registered(seen, row), held)
<1>1. PICK next : next = Index!Registered(seen, row)
  OBVIOUS
<1>2. next.sums = seen.sums \cup {row.sum}
      /\ next.sizes \subseteq seen.sizes \cup {<<row.path, row.size>>}
  BY <1>1 DEF Index!Registered
<1>3. KnownIn(next, held)
  BY <1>2 DEF KnownIn
<1> QED
  BY <1>1, <1>3

\* A document whose row is held counts.
LEMMA RowCounts ==
  ASSUME NEW j \in Papers, NEW job, NEW held, Index!Row(j) \in held PROVE EndIn(j, job, held)
<1>1. Doc[j].size # Index!Gone => Index!Row(j).sum = Doc[j].sum
  BY DEF Index!Row
<1> QED
  BY <1>1 DEF EndIn

\* Everything but the job, whose new state is given, stays.
LEMMA StepMoves ==
  ASSUME IndexHolds, NEW j \in Papers, NEW job, NEW spent,
         subject' = [subject EXCEPT !.run = [subject.run EXCEPT !.job[j] = job], !.faults = spent]
  PROVE  MovesTo(j, job)
<1> USE DEF IndexHolds, IndexShape, RunFields
<1>1. PICK run : run = [subject.run EXCEPT !.job[j] = job]
  OBVIOUS
<1>2. /\ DOMAIN run = RunFields /\ run.job = [subject.run.job EXCEPT ![j] = job]
      /\ run.known = subject.run.known /\ run.buffer = subject.run.buffer
      /\ run.writing = subject.run.writing
      /\ run.writer = subject.run.writer /\ run.up = subject.run.up
  BY <1>1
<1>3. /\ DOMAIN subject' = {"run", "file", "lost", "faults"} /\ subject'.run = run
      /\ subject'.file = subject.file /\ subject'.lost = subject.lost
  BY <1>1
<1> QED
  BY <1>2, <1>3 DEF MovesTo

\* Jobs that are not up are over.
LEMMA StillUp ==
  ASSUME IndexHolds, NEW j \in Papers, subject.run.job[j].pc \notin {"new", "ended"}
  PROVE  subject.run.up
BY DEF IndexHolds, OneWriter

\* A job that goes on, skips or fails.
LEMMA JobGoes ==
  ASSUME IndexHolds, NEW j \in Papers,
         \/ Index!Submit(j) \/ Index!TakeLane(j) \/ Index!Read(j) \/ Index!ReadFails(j)
         \/ Index!Gathered(j)
  PROVE  IndexHolds'
<1> DEFINE run == subject.run
           old == subject.run.job[j]
<1> USE DEF Index!Now, Index!Becomes
<1>s. /\ DOMAIN subject = {"run", "file", "lost", "faults"} /\ DOMAIN run = RunFields
      /\ DOMAIN run.job = Papers /\ DOMAIN old = JobFields
  BY DEF IndexHolds, IndexShape
<1>1. \A pc : Index!Goes(run, j, pc) = [run EXCEPT !.job[j] = [old EXCEPT !.pc = pc]]
  BY <1>s DEF Index!Goes, RunFields
<1>2. \A end : Index!Ends(run, j, end) = [run EXCEPT !.job[j] = [Index!New EXCEPT !.pc = "ended", !.end = end]]
  BY DEF Index!Ends
<1>3. subject.lost \/ (KnownIn(run.known, RowsOf(subject)) /\ EndIn(j, old, RowsOf(subject)))
  BY DEF IndexHolds
<1>5. \A x : [subject EXCEPT !.run = x] = [subject EXCEPT !.run = x, !.faults = subject.faults]
  BY <1>s
<1>6. ASSUME NEW pc, pc # "write", old.pc # "write", run.up,
             subject' = [subject EXCEPT !.run = Index!Goes(run, j, pc)]
      PROVE  IndexHolds'
  <2>1. PICK job : job = [old EXCEPT !.pc = pc]
    OBVIOUS
  <2>2. DOMAIN job = JobFields /\ job.pc = pc /\ job.end = old.end
    BY <1>s, <2>1 DEF JobFields
  <2>3. subject' = [subject EXCEPT !.run = [run EXCEPT !.job[j] = job], !.faults = subject.faults]
    BY <1>1, <1>5, <1>6, <2>1
  <2>4. MovesTo(j, job)
    BY <2>3, StepMoves
  <2>5. ~ subject.lost => EndIn(j, job, RowsOf(subject))
    BY <1>3, <2>2 DEF EndIn
  <2> QED
    BY <1>6, <2>2, <2>4, <2>5, JobMoves
<1>7. ASSUME NEW end, NEW spent, old.pc # "write", run.up,
             subject' = [subject EXCEPT !.run = Index!Ends(run, j, end), !.faults = spent],
             ~ subject.lost => \A job : job.end = end => EndIn(j, job, RowsOf(subject))
      PROVE  IndexHolds'
  <2>1. PICK job : job = [Index!New EXCEPT !.pc = "ended", !.end = end]
    OBVIOUS
  <2>2. DOMAIN job = JobFields /\ job.pc = "ended" /\ job.end = end
    BY <2>1 DEF JobFields, Index!New
  <2>3. subject' = [subject EXCEPT !.run = [run EXCEPT !.job[j] = job], !.faults = spent]
    BY <1>2, <1>7, <2>1
  <2>4. MovesTo(j, job)
    BY <2>3, StepMoves
  <2> QED
    BY <1>7, <2>2, <2>4, JobMoves
<1>8. CASE Index!Submit(j)
  <2>1. run.up /\ old.pc = "new"
    BY <1>8 DEF Index!Submit
  <2>2. CASE Index!IsIndexed(run.known, j)
    <3>1. subject' = [subject EXCEPT !.run = Index!Ends(run, j, "skipped"), !.faults = subject.faults]
      BY <1>5, <1>8, <2>2 DEF Index!Submit
    <3>2. ~ subject.lost => \A job : EndIn(j, job, RowsOf(subject))
      BY <1>3, <2>2 DEF Index!IsIndexed, KnownIn, EndIn
    <3> QED
      BY <1>7, <2>1, <3>1, <3>2
  <2>3. CASE ~ Index!IsIndexed(run.known, j)
    BY <1>6, <1>8, <2>1, <2>3 DEF Index!Submit
  <2> QED
    BY <2>2, <2>3
<1>9. CASE Index!TakeLane(j)
  <2>1. old.pc = "queued" /\ subject' = [subject EXCEPT !.run = Index!Goes(run, j, "read")]
    BY <1>9 DEF Index!TakeLane
  <2>2. run.up
    BY <2>1, StillUp
  <2> QED
    BY <1>6, <2>1, <2>2
<1>10. CASE Index!Read(j)
  <2>1. old.pc = "read"
    BY <1>10 DEF Index!Read
  <2>2. run.up
    BY <2>1, StillUp
  <2>3. CASE Index!SumCounts(run.known, j)
    <3>1. subject' = [subject EXCEPT !.run = Index!Ends(run, j, "skipped"), !.faults = subject.faults]
      BY <1>5, <1>10, <2>3 DEF Index!Read
    <3>2. Doc[j].size # Index!Gone => Index!Row(j).sum = Doc[j].sum
      BY DEF Index!Row
    <3>3. ~ subject.lost => \A job : EndIn(j, job, RowsOf(subject))
      BY <1>3, <2>3, <3>2 DEF Index!SumCounts, KnownIn, EndIn
    <3> QED
      BY <1>7, <2>1, <2>2, <3>1, <3>3
  <2>4. CASE ~ Index!SumCounts(run.known, j)
    BY <1>6, <1>10, <2>1, <2>2, <2>4 DEF Index!Read
  <2> QED
    BY <2>3, <2>4
<1>11. CASE Index!ReadFails(j)
  <2>1. old.pc = "read" /\ subject' = [subject EXCEPT !.run = Index!Ends(run, j, "failed"), !.faults = @ + 1]
    BY <1>11 DEF Index!ReadFails
  <2>2. run.up
    BY <2>1, StillUp
  <2>3. \A job : job.end = "failed" => EndIn(j, job, RowsOf(subject))
    BY DEF EndIn
  <2> QED
    BY <1>7, <2>1, <2>2, <2>3
<1>12. CASE Index!Gathered(j)
  <2>1. old.pc = "ask"
        /\ subject' = [subject EXCEPT !.run = [run EXCEPT !.job[j] = [Index!New EXCEPT !.pc = "append"]]]
    BY <1>12 DEF Index!Gathered
  <2>2. run.up
    BY <2>1, StillUp
  <2>3. PICK job : job = [Index!New EXCEPT !.pc = "append"]
    OBVIOUS
  <2>4. DOMAIN job = JobFields /\ job.pc = "append" /\ job.end = "none"
    BY <2>3 DEF JobFields, Index!New
  <2>5. MovesTo(j, job)
    <3>1. subject' = [subject EXCEPT !.run = [run EXCEPT !.job[j] = job], !.faults = subject.faults]
      BY <1>5, <2>1, <2>3
    <3> QED
      BY <3>1, StepMoves
  <2>6. EndIn(j, job, RowsOf(subject))
    BY <2>4 DEF EndIn
  <2> QED
    BY <2>1, <2>2, <2>4, <2>5, <2>6, JobMoves
<1> QED
  BY <1>8, <1>9, <1>10, <1>11, <1>12

\* The questions about a text.
LEMMA JobAsks ==
  ASSUME IndexHolds, NEW j \in Papers, NEW t \in Tasks,
         Index!TakeSlot(j, t) \/ Index!Answered(j, t) \/ Index!Unanswered(j, t) \/ Index!Retry(j, t)
  PROVE  IndexHolds'
<1> DEFINE run == subject.run
           old == subject.run.job[j]
<1> USE DEF Index!Now, Index!Becomes
<1>s. /\ DOMAIN subject = {"run", "file", "lost", "faults"} /\ DOMAIN run = RunFields
      /\ DOMAIN run.job = Papers /\ DOMAIN old = JobFields
  BY DEF IndexHolds, IndexShape
<1>1. old.pc = "ask"
  BY DEF Index!TakeSlot, Index!Answered, Index!Unanswered, Index!Retry, Index!Asked
<1>2. run.up
  BY <1>1, StillUp
<1>3. ASSUME NEW calls, subject' = [subject EXCEPT !.run = [run EXCEPT !.job[j].calls = calls]]
      PROVE  IndexHolds'
  <2>1. PICK job : job = [old EXCEPT !.calls = calls]
    OBVIOUS
  <2>2. DOMAIN job = JobFields /\ job.pc = "ask" /\ job.end = old.end
    BY <1>s, <1>1, <2>1 DEF JobFields
  <2>3. [run EXCEPT !.job[j].calls = calls] = [run EXCEPT !.job[j] = job]
    BY <1>s, <2>1 DEF RunFields
  <2>4. subject' = [subject EXCEPT !.run = [run EXCEPT !.job[j] = job], !.faults = subject.faults]
    BY <1>s, <1>3, <2>3
  <2>5. MovesTo(j, job)
    BY <2>4, StepMoves
  <2>6. ~ subject.lost => EndIn(j, job, RowsOf(subject))
    BY <2>2 DEF EndIn, IndexHolds
  <2> QED
    BY <1>1, <1>2, <2>2, <2>5, <2>6, JobMoves
<1>4. \A pc : Index!CallGoes(run, j, t, pc) = [run EXCEPT !.job[j].calls = [@ EXCEPT ![t].pc = pc]]
  BY <1>s DEF Index!CallGoes, RunFields, JobFields
<1>5. ASSUME NEW n
      PROVE  Index!CallGoes([run EXCEPT !.job[j].calls[t].tries = n], j, t, "call")
               = [run EXCEPT !.job[j].calls = [[@ EXCEPT ![t].tries = n] EXCEPT ![t].pc = "call"]]
  <2> DEFINE first == [run EXCEPT !.job[j].calls[t].tries = n]
             asked == [old.calls EXCEPT ![t].tries = n]
  <2>1. first = [run EXCEPT !.job[j].calls = asked]
    OBVIOUS
  <2>2. PICK x : x = asked
    OBVIOUS
  <2>3. first.job[j].calls = x /\ DOMAIN first = RunFields
    BY <1>s, <2>1, <2>2 DEF RunFields, JobFields
  <2>4. PICK y : y = [x EXCEPT ![t].pc = "call"]
    OBVIOUS
  <2>5. [first EXCEPT !.job[j].calls = y] = [run EXCEPT !.job[j].calls = y]
    <3>1. first = [run EXCEPT !.job[j].calls = x]
      BY <2>1, <2>2
    <3> HIDE DEF first
    <3> QED
      BY <1>s, <3>1 DEF RunFields, JobFields
  <2>6. Index!CallGoes(first, j, t, "call") = [first EXCEPT !.job[j].calls = y]
    <3> HIDE DEF first
    <3> QED
      BY <2>3, <2>4 DEF Index!CallGoes
  <2>7. [run EXCEPT !.job[j].calls = [[@ EXCEPT ![t].tries = n] EXCEPT ![t].pc = "call"]]
          = [run EXCEPT !.job[j].calls = y]
    BY <2>2, <2>4
  <2> QED
    BY <2>5, <2>6, <2>7
<1>6. \E calls : subject' = [subject EXCEPT !.run = [run EXCEPT !.job[j].calls = calls]]
  <2>1. ASSUME NEW pc, subject' = [subject EXCEPT !.run = Index!CallGoes(run, j, t, pc)]
        PROVE  \E calls : subject' = [subject EXCEPT !.run = [run EXCEPT !.job[j].calls = calls]]
    BY <1>4, <2>1
  <2>2. ASSUME NEW n, subject' = [subject EXCEPT !.run = Index!CallGoes([run EXCEPT !.job[j].calls[t].tries = n], j, t, "call")]
        PROVE  \E calls : subject' = [subject EXCEPT !.run = [run EXCEPT !.job[j].calls = calls]]
    BY <1>5, <2>2
  <2>3. CASE Index!TakeSlot(j, t)
    BY <2>2, <2>3 DEF Index!TakeSlot
  <2>4. CASE Index!Answered(j, t)
    BY <2>1, <2>4 DEF Index!Answered, Index!CallDone
  <2>5. CASE Index!Unanswered(j, t)
    BY <2>1, <2>5 DEF Index!Unanswered, Index!CallDone
  <2>6. CASE Index!Retry(j, t)
    <3>1. PICK n : subject' = [subject EXCEPT !.run = Index!CallGoes([run EXCEPT !.job[j].calls[t].tries = n], j, t, "call")]
      BY <1>s, <2>6 DEF Index!Retry
    <3> QED
      BY <2>2, <3>1
  <2> QED
    BY <2>3, <2>4, <2>5, <2>6
<1> QED
  BY <1>3, <1>6

Succeeded(run, next, j) ==
  /\ DOMAIN next = RunFields /\ next.buffer = run.buffer /\ next.writing = run.writing
  /\ next.writer = run.writer /\ next.up = run.up
  /\ next.known = Index!Registered(run.known, Index!Row(j))
  /\ \E job : DOMAIN job = JobFields /\ job.pc = "ended"
              /\ next.job = [run.job EXCEPT ![j] = job]

\* The fields of a job that succeeds.
LEMMA Succeeds ==
  ASSUME NEW run, DOMAIN run = RunFields, DOMAIN run.job = Papers, NEW j \in Papers
  PROVE  Succeeded(run, Index!Success(run, j), j)
<1>1. PICK job : job = [Index!New EXCEPT !.pc = "ended", !.end = "success"]
  OBVIOUS
<1>2. DOMAIN job = JobFields /\ job.pc = "ended"
  BY <1>1 DEF Index!New, JobFields
<1>3. PICK ended : ended = Index!Ends(run, j, "success")
  OBVIOUS
<1>4. ended = [run EXCEPT !.job[j] = job]
  BY <1>1, <1>3 DEF Index!Ends
<1>5. DOMAIN ended = RunFields /\ ended.buffer = run.buffer /\ ended.writing = run.writing
      /\ ended.writer = run.writer /\ ended.up = run.up /\ ended.known = run.known
      /\ ended.job = [run.job EXCEPT ![j] = job]
  BY <1>4 DEF RunFields
<1>6. Index!Success(run, j) = [ended EXCEPT !.known = Index!Registered(ended.known, Index!Row(j))]
  BY <1>3 DEF Index!Success
<1>7. PICK seen : seen = Index!Registered(ended.known, Index!Row(j))
  OBVIOUS
<1>8. PICK next : next = Index!Success(run, j)
  OBVIOUS
<1>9. next = [ended EXCEPT !.known = seen]
  BY <1>6, <1>7, <1>8
<1>10. /\ DOMAIN next = RunFields /\ next.buffer = run.buffer /\ next.writing = run.writing
       /\ next.writer = run.writer /\ next.up = run.up
       /\ next.known = seen /\ next.job = [run.job EXCEPT ![j] = job]
  BY <1>5, <1>9 DEF RunFields
<1>11. Succeeded(run, next, j)
  BY <1>2, <1>5, <1>7, <1>10 DEF Succeeded
<1> QED
  BY <1>8, <1>11

\* A job that has appended its row, or written it with its batch.
Completes(j, i, next) ==
  /\ DOMAIN next = {"run", "file", "lost", "faults"} /\ DOMAIN next.run = RunFields
  /\ next.lost = i.lost /\ next.run.up = i.run.up
  /\ next.run.known = Index!Registered(i.run.known, Index!Row(j))
  /\ \E job : DOMAIN job = JobFields /\ job.pc = "ended"
              /\ next.run.job = [i.run.job EXCEPT ![j] = job]

\* What it has registered is held, and so is what was.
LEMMA CompletesHolds ==
  ASSUME IndexHolds, NEW j \in Papers, Completes(j, subject, subject'),
         RowsOf(subject) \cup {Index!Row(j)} \subseteq RowsOf(subject'),
         ~ subject.lost => KnownIn(subject.run.known, RowsOf(subject'))
  PROVE  ~ subject'.lost => /\ KnownIn(subject'.run.known, RowsOf(subject'))
                            /\ \A k \in Papers : EndIn(k, subject'.run.job[k], RowsOf(subject'))
<1> SUFFICES ASSUME ~ subject'.lost
             PROVE  /\ KnownIn(subject'.run.known, RowsOf(subject'))
                    /\ \A k \in Papers : EndIn(k, subject'.run.job[k], RowsOf(subject'))
  OBVIOUS
<1>1. KnownIn(subject.run.known, RowsOf(subject)) /\ \A k \in Papers : EndIn(k, subject.run.job[k], RowsOf(subject))
  BY DEF Completes, IndexHolds
<1>2. KnownIn(subject'.run.known, RowsOf(subject'))
  BY RegistersHeld DEF Completes
<1>3. ASSUME NEW k \in Papers PROVE EndIn(k, subject'.run.job[k], RowsOf(subject'))
  <2>1. CASE k = j
    BY <2>1, RowCounts
  <2>2. CASE k # j
    <3>1. subject'.run.job[k] = subject.run.job[k]
      BY <2>2 DEF Completes, IndexHolds, IndexShape
    <3> QED
      BY <1>1, <3>1, HeldGrows
  <2> QED
    BY <2>1, <2>2
<1> QED
  BY <1>2, <1>3

\* A row that is appended waits for its batch, or is the last one of it.
LEMMA JobAppends ==
  ASSUME IndexHolds, NEW j \in Papers, Index!AppendRow(j)
  PROVE  IndexHolds'
<1> DEFINE run == subject.run
           row == Index!Row(j)
<1> USE DEF Index!Now, Index!Becomes
<1>s. /\ DOMAIN subject = {"run", "file", "lost", "faults"} /\ DOMAIN run = RunFields
      /\ DOMAIN run.job = Papers /\ DOMAIN run.job[j] = JobFields /\ DOMAIN run.known = {"sums", "sizes"}
      /\ subject.file \in Seq(Papery) /\ run.buffer \in Seq(Papery)
      /\ \A k \in Papers : DOMAIN run.job[k] = JobFields
  BY DEF IndexHolds, IndexShape
<1>1. run.job[j].pc = "append" /\ run.writer = "nobody"
  BY DEF Index!AppendRow
<1>2. run.writing = <<>> /\ run.up /\ \A k \in Papers : run.job[k].pc # "write"
  BY <1>1, StillUp, IndexAssumption DEF IndexHolds, OneWriter
<1>3. PICK buffer : buffer = Append(run.buffer, row)
  OBVIOUS
<1>4. buffer \in Seq(Papery) /\ Elems(buffer) = Elems(run.buffer) \cup {row} /\ row \in Papery
  BY <1>s, <1>3, ElemsOf DEF Papery
<1>5. RowsOf(subject) = Elems(subject.file) \cup Elems(run.buffer)
  BY <1>2, ElemsOf DEF RowsOf
<1>6. \/ subject' = [subject EXCEPT !.run = Index!Success([run EXCEPT !.buffer = buffer], j)]
      \/ subject' = [subject EXCEPT !.run = [[run EXCEPT !.buffer = <<>>, !.writing = buffer, !.writer = j]
                                               EXCEPT !.job[j].pc = "write"]]
  <2>1. subject' = [subject EXCEPT !.run =
          IF Len(buffer) < Batch THEN Index!Success([run EXCEPT !.buffer = buffer], j)
          ELSE Index!Goes([run EXCEPT !.buffer = <<>>, !.writing = buffer, !.writer = j], j, "write")]
    BY <1>3 DEF Index!AppendRow
  <2> QED
    BY <2>1 DEF Index!Goes
<1>7. CASE subject' = [subject EXCEPT !.run = Index!Success([run EXCEPT !.buffer = buffer], j)]
  <2>1. PICK mid : mid = [run EXCEPT !.buffer = buffer]
    OBVIOUS
  <2>2. /\ DOMAIN mid = RunFields /\ mid.job = run.job /\ mid.buffer = buffer /\ mid.writing = run.writing
        /\ mid.writer = run.writer /\ mid.up = run.up /\ mid.known = run.known
    BY <1>s, <2>1 DEF RunFields
  <2>3. PICK next : next = Index!Success(mid, j)
    OBVIOUS
  <2>4. subject' = [subject EXCEPT !.run = next]
    BY <1>7, <2>1, <2>3
  <2>5. PICK job : /\ DOMAIN job = JobFields /\ job.pc = "ended"
                   /\ next.job = [run.job EXCEPT ![j] = job]
                   /\ DOMAIN next = RunFields /\ next.buffer = buffer /\ next.writing = run.writing
                   /\ next.writer = run.writer /\ next.up = run.up
                   /\ next.known = Index!Registered(run.known, row)
    <3>1. Succeeded(mid, next, j)
      BY <1>s, <2>2, <2>3, Succeeds
    <3> QED
      BY <2>2, <3>1 DEF Succeeded
  <2>6. /\ DOMAIN subject' = {"run", "file", "lost", "faults"} /\ subject'.run = next
        /\ subject'.file = subject.file /\ subject'.lost = subject.lost
    BY <1>s, <2>4
  <2>7. RowsOf(subject') = RowsOf(subject) \cup {row}
    BY <1>2, <1>4, <1>5, <2>5, <2>6, ElemsOf DEF RowsOf
  <2>8. \A k \in Papers : next.job[k] = IF k = j THEN job ELSE run.job[k]
    BY <1>s, <2>5
  <2>9. IndexShape(subject')
    <3>1. DOMAIN next.known = {"sums", "sizes"}
      BY <2>5 DEF Index!Registered
    <3>2. next.writing = <<>> /\ <<>> \in Seq(Papery) /\ \A k \in Papers : DOMAIN next.job[k] = JobFields
      BY <1>s, <1>2, <2>5, <2>8
    <3>3. DOMAIN next.job = Papers
      BY <1>s, <2>5
    <3> QED
      BY <1>s, <1>4, <2>5, <2>6, <3>1, <3>2, <3>3 DEF IndexShape
  <2>10. OneWriter(subject')
    BY <1>1, <1>2, <2>5, <2>6, <2>8 DEF OneWriter
  <2>11. Completes(j, subject, subject')
    BY <2>5, <2>6 DEF Completes
  <2>12. ~ subject.lost => KnownIn(run.known, RowsOf(subject'))
    BY <2>7, HeldGrows DEF IndexHolds
  <2> QED
    BY <2>7, <2>9, <2>10, <2>11, <2>12, CompletesHolds DEF IndexHolds
<1>8. CASE subject' = [subject EXCEPT !.run = [[run EXCEPT !.buffer = <<>>, !.writing = buffer, !.writer = j]
                                               EXCEPT !.job[j].pc = "write"]]
  <2>1. PICK mid : mid = [run EXCEPT !.buffer = <<>>, !.writing = buffer, !.writer = j]
    OBVIOUS
  <2>2. /\ DOMAIN mid = RunFields /\ mid.job = run.job /\ mid.buffer = <<>> /\ mid.writing = buffer
        /\ mid.writer = j /\ mid.up = run.up /\ mid.known = run.known
    BY <1>s, <2>1 DEF RunFields
  <2>3. PICK next : next = [mid EXCEPT !.job[j].pc = "write"]
    OBVIOUS
  <2>4. subject' = [subject EXCEPT !.run = next]
    BY <1>8, <2>1, <2>3
  <2>5. PICK job : job = [run.job[j] EXCEPT !.pc = "write"]
    OBVIOUS
  <2>6. DOMAIN job = JobFields /\ job.pc = "write" /\ job.end = run.job[j].end
    BY <1>s, <2>5 DEF JobFields
  <2>7. /\ DOMAIN next = RunFields /\ next.buffer = <<>> /\ next.writing = buffer
        /\ next.writer = j /\ next.up = run.up /\ next.known = run.known
        /\ next.job = [run.job EXCEPT ![j] = job]
    BY <2>2, <2>3, <2>5 DEF RunFields
  <2>8. /\ DOMAIN subject' = {"run", "file", "lost", "faults"} /\ subject'.run = next
        /\ subject'.file = subject.file /\ subject'.lost = subject.lost
    BY <1>s, <2>4
  <2>9. RowsOf(subject') = RowsOf(subject) \cup {row}
    BY <1>4, <1>5, <2>7, <2>8, ElemsOf DEF RowsOf
  <2>10. \A k \in Papers : next.job[k] = IF k = j THEN job ELSE run.job[k]
    BY <1>s, <2>7
  <2>11. IndexShape(subject')
    <3>1. <<>> \in Seq(Papery)
      OBVIOUS
    <3> QED
      BY <1>s, <1>4, <2>6, <2>7, <2>8, <2>10, <3>1 DEF IndexShape
  <2>12. OneWriter(subject')
    <3>1. \A k \in Papers : next.job[k].pc = "write" => k = j
      BY <1>2, <2>10
    <3>2. next.job[j].pc = "write" /\ row \in Elems(buffer) /\ j # "nobody" /\ next.up
      BY <1>2, <1>4, <2>6, <2>7, <2>10, IndexAssumption
    <3> HIDE DEF row
    <3> QED
      BY <2>7, <2>8, <3>1, <3>2 DEF OneWriter, row
  <2>13. ASSUME ~ subject'.lost
         PROVE  /\ KnownIn(subject'.run.known, RowsOf(subject'))
                /\ \A k \in Papers : EndIn(k, subject'.run.job[k], RowsOf(subject'))
    <3>1. KnownIn(run.known, RowsOf(subject)) /\ \A k \in Papers : EndIn(k, run.job[k], RowsOf(subject))
      BY <2>8, <2>13 DEF IndexHolds
    <3>2. KnownIn(run.known, RowsOf(subject')) /\ \A k \in Papers : EndIn(k, run.job[k], RowsOf(subject'))
      BY <2>9, <3>1, HeldGrows
    <3>3. EndIn(j, job, RowsOf(subject'))
      BY <2>9, RowCounts
    <3> QED
      BY <2>7, <2>8, <2>10, <3>2, <3>3
  <2> QED
    BY <2>11, <2>12, <2>13 DEF IndexHolds
<1> QED
  BY <1>6, <1>7, <1>8

\* The fields of a run whose batch is written.
LEMMA WroteFields ==
  ASSUME NEW run, DOMAIN run = RunFields
  PROVE  LET next == Index!Wrote(run)
         IN  /\ DOMAIN next = RunFields /\ next.job = run.job /\ next.buffer = run.buffer
             /\ next.writing = <<>> /\ next.writer = "nobody"
             /\ next.up = run.up /\ next.known = run.known
BY DEF Index!Wrote, RunFields

\* A batch is written.
LEMMA JobWrites ==
  ASSUME IndexHolds, NEW j \in Papers, Index!WriteBatch(j)
  PROVE  IndexHolds'
<1> DEFINE run == subject.run
           row == Index!Row(j)
<1> USE DEF Index!Now, Index!Becomes
<1>s. /\ DOMAIN subject = {"run", "file", "lost", "faults"} /\ DOMAIN run = RunFields
      /\ DOMAIN run.job = Papers /\ DOMAIN run.known = {"sums", "sizes"}
      /\ subject.file \in Seq(Papery) /\ run.buffer \in Seq(Papery) /\ run.writing \in Seq(Papery)
      /\ \A k \in Papers : DOMAIN run.job[k] = JobFields
  BY DEF IndexHolds, IndexShape
<1>1. run.job[j].pc = "write"
  BY DEF Index!WriteBatch
<1>2. run.up /\ row \in Elems(run.writing) /\ \A k \in Papers : k # j => run.job[k].pc # "write"
  BY <1>1, StillUp DEF IndexHolds, OneWriter
<1>3. PICK mid : mid = Index!Wrote(run)
  OBVIOUS
<1>4. /\ DOMAIN mid = RunFields /\ mid.job = run.job /\ mid.buffer = run.buffer /\ mid.writing = <<>>
      /\ mid.writer = "nobody" /\ mid.up = run.up /\ mid.known = run.known
  BY <1>s, <1>3, WroteFields
<1>5. PICK next : next = Index!Success(mid, j)
  OBVIOUS
<1>6. subject' = [subject EXCEPT !.run = next, !.file = @ \o run.writing]
  BY <1>3, <1>5 DEF Index!WriteBatch
<1>7. PICK job : /\ DOMAIN job = JobFields /\ job.pc = "ended"
                 /\ next.job = [run.job EXCEPT ![j] = job]
                 /\ DOMAIN next = RunFields /\ next.buffer = run.buffer /\ next.writing = <<>>
                 /\ next.writer = "nobody" /\ next.up = run.up
                 /\ next.known = Index!Registered(run.known, row)
  <2>1. Succeeded(mid, next, j)
    BY <1>s, <1>4, <1>5, Succeeds
  <2> QED
    BY <1>4, <2>1 DEF Succeeded
<1>8. /\ DOMAIN subject' = {"run", "file", "lost", "faults"} /\ subject'.run = next
      /\ subject'.file = subject.file \o run.writing /\ subject'.lost = subject.lost
  BY <1>s, <1>6
<1>9. subject'.file \in Seq(Papery) /\ Elems(subject'.file) = Elems(subject.file) \cup Elems(run.writing)
  BY <1>s, <1>8, ElemsOf
<1>10. RowsOf(subject') = RowsOf(subject) /\ row \in RowsOf(subject)
  BY <1>2, <1>7, <1>8, <1>9, ElemsOf DEF RowsOf
<1>11. \A k \in Papers : next.job[k] = IF k = j THEN job ELSE run.job[k]
  BY <1>s, <1>7
<1>12. IndexShape(subject')
  <2>1. DOMAIN next.known = {"sums", "sizes"} /\ <<>> \in Seq(Papery)
    BY <1>7 DEF Index!Registered
  <2> QED
    BY <1>s, <1>7, <1>8, <1>9, <1>11, <2>1 DEF IndexShape
<1>13. OneWriter(subject')
  BY <1>2, <1>7, <1>8, <1>11 DEF OneWriter
<1>14. Completes(j, subject, subject')
  BY <1>7, <1>8 DEF Completes
<1>15. ~ subject.lost => KnownIn(run.known, RowsOf(subject'))
  BY <1>10 DEF IndexHolds
<1> QED
  BY <1>10, <1>12, <1>13, <1>14, <1>15, CompletesHolds DEF IndexHolds

\* A batch is lost.
LEMMA JobLoses ==
  ASSUME IndexHolds, NEW j \in Papers, Index!WriteFails(j)
  PROVE  IndexHolds'
<1> DEFINE run == subject.run
<1> USE DEF Index!Now, Index!Becomes
<1>s. /\ DOMAIN subject = {"run", "file", "lost", "faults"} /\ DOMAIN run = RunFields
      /\ DOMAIN run.job = Papers /\ DOMAIN run.known = {"sums", "sizes"}
      /\ subject.file \in Seq(Papery) /\ run.buffer \in Seq(Papery)
      /\ \A k \in Papers : DOMAIN run.job[k] = JobFields
  BY DEF IndexHolds, IndexShape
<1>1. run.job[j].pc = "write"
  BY DEF Index!WriteFails
<1>2. run.up /\ \A k \in Papers : k # j => run.job[k].pc # "write"
  BY <1>1, StillUp DEF IndexHolds, OneWriter
<1>3. PICK mid : mid = Index!Wrote(run)
  OBVIOUS
<1>4. /\ DOMAIN mid = RunFields /\ mid.job = run.job /\ mid.buffer = run.buffer /\ mid.writing = <<>>
      /\ mid.writer = "nobody" /\ mid.up = run.up /\ mid.known = run.known
  BY <1>s, <1>3, WroteFields
<1>5. PICK job : job = [Index!New EXCEPT !.pc = "ended", !.end = "failed"]
  OBVIOUS
<1>6. DOMAIN job = JobFields /\ job.pc = "ended"
  BY <1>5 DEF Index!New, JobFields
<1>7. PICK next : next = [mid EXCEPT !.job[j] = job]
  OBVIOUS
<1>8. subject' = [subject EXCEPT !.run = next, !.lost = TRUE, !.faults = @ + 1]
  BY <1>3, <1>5, <1>7 DEF Index!WriteFails, Index!Ends
<1>9. /\ DOMAIN next = RunFields /\ next.buffer = run.buffer /\ next.writing = <<>>
      /\ next.writer = "nobody" /\ next.up = run.up /\ next.known = run.known
      /\ next.job = [run.job EXCEPT ![j] = job]
  BY <1>4, <1>7 DEF RunFields
<1>10. /\ DOMAIN subject' = {"run", "file", "lost", "faults"} /\ subject'.run = next
       /\ subject'.file = subject.file /\ subject'.lost = TRUE
  BY <1>s, <1>8
<1>11. \A k \in Papers : next.job[k] = IF k = j THEN job ELSE run.job[k]
  BY <1>s, <1>9
<1>12. IndexShape(subject')
  <2>1. <<>> \in Seq(Papery)
    OBVIOUS
  <2> QED
    BY <1>s, <1>6, <1>9, <1>10, <1>11, <2>1 DEF IndexShape
<1>13. OneWriter(subject')
  BY <1>2, <1>6, <1>9, <1>10, <1>11 DEF OneWriter
<1> QED
  BY <1>10, <1>12, <1>13 DEF IndexHolds

\* What the index holds of what it knows, at every step.
LEMMA IndexKeeps ==
  /\ Index!IndexInit => IndexHolds
  /\ IndexHolds /\ Index!IndexNext => IndexHolds'
  /\ IndexHolds => Index!IndexComplete
<1>1. ASSUME Index!IndexInit PROVE IndexHolds
  <2>1. /\ DOMAIN subject = {"run", "file", "lost", "faults"} /\ subject.file = <<>>
        /\ subject.run = Index!Run(subject.file)
    BY <1>1 DEF Index!IndexInit
  <2>2. subject.file \in Seq(Papery)
    BY <2>1
  <2> QED
    BY <2>1, <2>2, RunStarts DEF IndexHolds
<1>2. ASSUME IndexHolds, Index!IndexNext PROVE IndexHolds'
  <2> DEFINE run == subject.run
  <2>s. /\ DOMAIN subject = {"run", "file", "lost", "faults"} /\ DOMAIN run = RunFields
        /\ subject.file \in Seq(Papery) /\ run.buffer \in Seq(Papery)
    BY <1>2 DEF IndexHolds, IndexShape
  <2>1. CASE Index!Shutdown
    <3>1. /\ run.up /\ \A j \in Papers : run.job[j].pc \in {"new", "ended"}
          /\ subject' = [subject EXCEPT !.run.up = FALSE, !.run.buffer = <<>>,
                                        !.file = subject.file \o run.buffer]
      BY <2>1 DEF Index!Shutdown, Index!AllEnded, Index!WithBuffer, Index!Now
    <3>2. /\ DOMAIN subject' = {"run", "file", "lost", "faults"} /\ DOMAIN subject'.run = RunFields
          /\ subject'.file = subject.file \o run.buffer /\ subject'.lost = subject.lost
          /\ subject'.run.up = FALSE /\ subject'.run.buffer = <<>> /\ subject'.run.job = run.job
          /\ subject'.run.known = run.known /\ subject'.run.writing = run.writing
          /\ subject'.run.writer = run.writer
      BY <2>s, <3>1 DEF RunFields
    <3>3. subject'.file \in Seq(Papery) /\ Elems(subject'.file) = Elems(subject.file) \cup Elems(run.buffer)
      BY <2>s, <3>2, ElemsOf
    <3>4. RowsOf(subject') = RowsOf(subject)
      BY <3>2, <3>3, ElemsOf DEF RowsOf
    <3>5. IndexShape(subject')
      <4>1. <<>> \in Seq(Papery)
        OBVIOUS
      <4> QED
        BY <1>2, <3>2, <3>3, <4>1 DEF IndexHolds, IndexShape
    <3>6. OneWriter(subject')
      BY <1>2, <3>1, <3>2 DEF IndexHolds, OneWriter
    <3> QED
      BY <1>2, <3>2, <3>4, <3>5, <3>6 DEF IndexHolds
  <2>2. CASE Index!NextRun
    <3>1. /\ DOMAIN subject' = {"run", "file", "lost", "faults"} /\ subject'.file = subject.file
          /\ subject'.run = Index!Run(subject'.file)
      BY <2>s, <2>2 DEF Index!NextRun
    <3> QED
      BY <2>s, <3>1, RunStarts DEF IndexHolds
  <2>3. ASSUME NEW j \in Papers, Index!JobStep(j) PROVE IndexHolds'
    BY <1>2, <2>3, JobGoes, JobAsks, JobAppends, JobWrites, JobLoses DEF Index!JobStep
  <2> QED
    BY <1>2, <2>1, <2>2, <2>3 DEF Index!IndexNext
<1>3. ASSUME IndexHolds PROVE Index!IndexComplete
  <2>1. ASSUME ~ subject.run.up PROVE RowsOf(subject) = Elems(subject.file)
    <3>1. /\ subject.run.buffer = <<>>
          /\ \A j \in Papers : subject.run.job[j].pc # "write"
      BY <1>3, <2>1 DEF IndexHolds, OneWriter
    <3>2. subject.run.writing = <<>>
      BY <1>3, <3>1 DEF IndexHolds, OneWriter
    <3> QED
      BY <3>1, <3>2, ElemsOf DEF RowsOf
  <2>2. Index!Rows = Elems(subject.file)
    BY DEF Index!Rows, Elems
  <2>3. ASSUME ~ subject.run.up, ~ subject.lost, NEW j \in Papers,
               subject.run.job[j].end \in {"success", "skipped"}, Doc[j].size # Index!Gone
        PROVE  \E row \in Index!Rows :
                 row.sum = Doc[j].sum \/ (row.path = Doc[j].path /\ row.size = Doc[j].size)
    BY <1>3, <2>1, <2>2, <2>3 DEF IndexHolds, EndIn
  <2> QED
    BY <2>3 DEF Index!IndexComplete, Index!Now
<1> QED
  BY <1>1, <1>2, <1>3

-----------------------------------------------------------------------------
(* The schema of the control database.                                     *)

SchemaFields == {"dialect", "rows", "runs", "holder", "proc", "seeded", "indexed", "starts",
                 "faults", "probe", "behind", "late"}
ProcFields == {"pc", "work", "todo", "mine"}
Pcs(dialect) ==
  IF dialect = "postgresql" THEN {"off", "status", "lock", "apply", "bootstrap", "up"}
  ELSE {"off", "inspect", "create", "alter", "bootstrap", "up"}

\* A script has run as the history says, and the history has no gaps.
RowsOK(rows, runs) ==
  /\ DOMAIN rows = Schema!Versions /\ DOMAIN runs = Schema!Versions
  /\ \A v \in Schema!Versions : runs[v] = IF rows[v] = Schema!NotApplied THEN 0 ELSE 1
  /\ \A v \in Schema!Applied(rows), w \in Schema!Versions : w < v => w \in Schema!Applied(rows)

\* Who runs scripts has the lock, and what it has run is not in the history yet; what
\* an upgrade has no column for, it has still to add.
ProcOK(p, x, rows, dialect, holder) ==
  /\ DOMAIN x = ProcFields /\ x.pc \in Pcs(dialect)
  /\ x.pc = "apply" =>
       /\ holder = p /\ DOMAIN x.work = Schema!Versions
       /\ Schema!Applied(x.work) = Schema!Applied(rows) \cup x.mine
       /\ x.mine \cap Schema!Applied(rows) = {}
       /\ x.todo \cup x.mine = Schema!Missing(p, rows)
       /\ Schema!Applied(rows) \subseteq DOMAIN Build[p]
  /\ x.pc = "alter" =>
       x.todo \subseteq DOMAIN Build[p] /\ DOMAIN Build[p] \subseteq Schema!Applied(rows) \cup x.todo
  /\ x.pc \in {"bootstrap", "up"} /\ (dialect = "postgresql" => p \in Autos) =>
       Schema!Missing(p, rows) = {}

MigrationHolds ==
  /\ DOMAIN subject = SchemaFields /\ subject.dialect \in {"postgresql", "sqlite"}
  /\ DOMAIN subject.proc = Procs
  /\ RowsOK(subject.rows, subject.runs)
  /\ \A p \in Procs : ProcOK(p, subject.proc[p], subject.rows, subject.dialect, subject.holder)
  /\ subject.seeded => \E p \in Procs : Schema!Missing(p, subject.rows) = {}

\* A step of one process that changes no rows.
MovesProc(p, x) ==
  /\ DOMAIN subject' = SchemaFields /\ subject'.dialect = subject.dialect
  /\ subject'.proc = [subject.proc EXCEPT ![p] = x]
  /\ subject'.rows = subject.rows /\ subject'.runs = subject.runs

\* A process that goes on keeps what holds of the schema.
LEMMA ProcMoves ==
  ASSUME MigrationHolds, NEW p \in Procs, NEW x, MovesProc(p, x),
         ProcOK(p, x, subject.rows, subject.dialect, subject'.holder),
         \A q \in Procs : q # p /\ subject.holder = q => subject'.holder = q,
         subject'.seeded => subject.seeded \/ Schema!Missing(p, subject.rows) = {}
  PROVE  MigrationHolds'
<1>1. ASSUME NEW q \in Procs
      PROVE  ProcOK(q, subject'.proc[q], subject'.rows, subject'.dialect, subject'.holder)
  <2>1. CASE q = p
    BY <2>1 DEF MovesProc, MigrationHolds
  <2>2. CASE q # p
    <3>1. subject'.proc[q] = subject.proc[q]
      BY <2>2 DEF MovesProc, MigrationHolds
    <3> QED
      BY <2>2, <3>1 DEF MovesProc, MigrationHolds, ProcOK
  <2> QED
    BY <2>1, <2>2
<1> QED
  BY <1>1 DEF MovesProc, MigrationHolds

\* What a stopped process leaves behind.
LEMMA Stops ==
  ASSUME MigrationHolds, NEW p \in Procs, NEW spent,
         subject' = [Schema!Stopped(p) EXCEPT !.faults = spent]
  PROVE  MigrationHolds'
<1>1. PICK x : x = Schema!Off
  OBVIOUS
<1>2. DOMAIN x = ProcFields /\ x.pc = "off"
  BY <1>1 DEF Schema!Off, ProcFields
<1>3. MovesProc(p, x) /\ subject'.seeded = subject.seeded
      /\ subject'.holder = IF subject.holder = p THEN Schema!NoOne ELSE subject.holder
  BY <1>1 DEF Schema!Stopped, MovesProc, MigrationHolds, SchemaFields
<1>4. ProcOK(p, x, subject.rows, subject.dialect, subject'.holder)
  BY <1>2 DEF ProcOK, Pcs, MigrationHolds
<1> QED
  BY <1>3, <1>4, ProcMoves

\* A process goes from one place to another.
LEMMA Goes1 ==
  ASSUME MigrationHolds, NEW p \in Procs, NEW pc, NEW s,
         subject' = Schema!Goes(s, p, pc), s \in {subject, [subject EXCEPT !.starts = @ + 1]},
         pc \in Pcs(subject.dialect) \ {"apply", "alter"},
         pc \in {"bootstrap", "up"} /\ (subject.dialect = "postgresql" => p \in Autos) =>
           Schema!Missing(p, subject.rows) = {}
  PROVE  MigrationHolds'
<1>1. PICK x : x = [subject.proc[p] EXCEPT !.pc = pc]
  OBVIOUS
<1>2. DOMAIN x = ProcFields /\ x.pc = pc
  BY <1>1 DEF MigrationHolds, ProcOK, ProcFields
<1>3. DOMAIN s = SchemaFields /\ s.proc = subject.proc /\ s.dialect = subject.dialect /\ s.rows = subject.rows
      /\ s.runs = subject.runs /\ s.holder = subject.holder /\ s.seeded = subject.seeded
  BY DEF MigrationHolds, SchemaFields
<1>4. MovesProc(p, x) /\ subject'.seeded = subject.seeded /\ subject'.holder = subject.holder
  BY <1>1, <1>3 DEF Schema!Goes, MovesProc, MigrationHolds, SchemaFields
<1>5. ProcOK(p, x, subject.rows, subject.dialect, subject'.holder)
  BY <1>2 DEF ProcOK
<1> QED
  BY <1>4, <1>5, ProcMoves

\* Starting, up to the lock and the scripts.
LEMMA MigratesKeeps ==
  ASSUME MigrationHolds, NEW p \in Procs,
         \/ Schema!Start(p) \/ Schema!ReadStatus(p) \/ Schema!TakeLock(p) \/ Schema!RunScript(p)
  PROVE  MigrationHolds'
<1> DEFINE old == subject.proc[p]
<1>s. DOMAIN subject = SchemaFields /\ DOMAIN subject.proc = Procs /\ DOMAIN old = ProcFields
      /\ subject.dialect \in {"postgresql", "sqlite"} /\ old.pc \in Pcs(subject.dialect)
      /\ DOMAIN subject.rows = Schema!Versions
      /\ ProcOK(p, old, subject.rows, subject.dialect, subject.holder)
  BY DEF MigrationHolds, ProcOK, RowsOK
<1> USE DEF Schema!At, Schema!Becomes, Schema!Postgres
<1>1. ASSUME subject' = Schema!Stopped(p) PROVE MigrationHolds'
  <2>1. Schema!Stopped(p) = [Schema!Stopped(p) EXCEPT !.faults = subject.faults]
    BY <1>s DEF Schema!Stopped, SchemaFields
  <2> QED
    BY <1>1, <2>1, Stops
<1>2. CASE Schema!Start(p)
  <2> DEFINE pc == IF ~ Schema!Postgres THEN "inspect"
                   ELSE IF p \in Clis THEN "lock"
                   ELSE IF p \in Autos THEN "status" ELSE "bootstrap"
             s == [subject EXCEPT !.starts = @ + 1]
  <2>1. subject' = Schema!Goes(s, p, pc)
    BY <1>2 DEF Schema!Start
  <2>2. pc \in Pcs(subject.dialect) \ {"apply", "alter"} /\ pc # "up"
        /\ (pc = "bootstrap" => subject.dialect = "postgresql" /\ p \notin Autos)
    BY <1>s DEF Pcs
  <2> HIDE DEF pc
  <2> QED
    BY <2>1, <2>2, Goes1
<1>3. CASE Schema!ReadStatus(p)
  <2>1. old.pc = "status" /\ subject.dialect = "postgresql"
    BY <1>s, <1>3 DEF Schema!ReadStatus, Pcs
  <2>2. "lock" \in Pcs(subject.dialect) \ {"apply", "alter"}
    BY <2>1 DEF Pcs
  <2>3. subject' = Schema!Stopped(p) \/ subject' = Schema!Goes(subject, p, "lock")
    BY <1>3 DEF Schema!ReadStatus
  <2> QED
    BY <1>1, <2>2, <2>3, Goes1
<1>4. CASE Schema!TakeLock(p)
  <2>1. old.pc = "lock" /\ subject.dialect = "postgresql" /\ subject.holder = "nobody"
    BY <1>s, <1>4 DEF Schema!TakeLock, Schema!LockFree, Schema!NoOne, Pcs
  <2>2. CASE Schema!Refuses(p, subject.rows)
    BY <1>1, <1>4, <2>2 DEF Schema!TakeLock
  <2>3. CASE ~ Schema!Refuses(p, subject.rows)
    <3>1. PICK x : x = [pc |-> "apply", work |-> subject.rows, mine |-> {},
                        todo |-> Schema!Missing(p, subject.rows)]
      OBVIOUS
    <3>2. subject' = [subject EXCEPT !.holder = p, !.proc[p] = x]
      BY <1>4, <2>3, <3>1 DEF Schema!TakeLock
    <3>3. MovesProc(p, x) /\ subject'.holder = p /\ subject'.seeded = subject.seeded
      BY <1>s, <3>2 DEF MovesProc, SchemaFields
    <3>4. Schema!Applied(subject.rows) \subseteq DOMAIN Build[p]
      BY <2>3 DEF Schema!Refuses, Schema!Unexpected
    <3>5. ProcOK(p, x, subject.rows, subject.dialect, p)
      BY <1>s, <2>1, <3>1, <3>4 DEF ProcOK, ProcFields, Pcs
    <3>6. \A q \in Procs : subject.holder # q
      BY <2>1, SchemaAssumption
    <3> QED
      BY <3>3, <3>5, <3>6, ProcMoves
  <2> QED
    BY <2>2, <2>3
<1>5. CASE Schema!RunScript(p)
  <2>1. PICK v \in old.todo :
          subject' = [subject EXCEPT !.proc[p].work[v] = Schema!Unset, !.proc[p].todo = @ \ {v},
                                     !.proc[p].mine = @ \cup {v}]
    BY <1>5 DEF Schema!RunScript
  <2>2. old.pc = "apply" /\ old.todo \cup old.mine = Schema!Missing(p, subject.rows)
        /\ old.mine \cap Schema!Applied(subject.rows) = {}
        /\ Schema!Applied(old.work) = Schema!Applied(subject.rows) \cup old.mine
        /\ DOMAIN old.work = Schema!Versions /\ subject.holder = p
        /\ Schema!Applied(subject.rows) \subseteq DOMAIN Build[p]
    BY <1>s, <1>5 DEF Schema!RunScript, ProcOK
  <2>3. PICK x : x = [old EXCEPT !.work[v] = Schema!Unset, !.todo = @ \ {v}, !.mine = @ \cup {v}]
    OBVIOUS
  <2>4. DOMAIN x = ProcFields /\ x.pc = "apply" /\ x.work = [old.work EXCEPT ![v] = Schema!Unset]
        /\ x.todo = old.todo \ {v} /\ x.mine = old.mine \cup {v}
    BY <1>s, <2>2, <2>3 DEF ProcFields
  <2>5. MovesProc(p, x) /\ subject'.holder = subject.holder /\ subject'.seeded = subject.seeded
    BY <1>s, <2>1, <2>3 DEF MovesProc, SchemaFields, ProcFields
  <2>6. v \in Schema!Versions /\ v \notin Schema!Applied(subject.rows) /\ v \in DOMAIN Build[p]
    BY <2>2 DEF Schema!Missing, Schema!Versions
  <2>7. Schema!Applied(x.work) = Schema!Applied(subject.rows) \cup x.mine
    <3>1. \A w \in Schema!Versions : x.work[w] = IF w = v THEN Schema!Unset ELSE old.work[w]
      BY <2>2, <2>4
    <3>2. Schema!Unset # Schema!NotApplied
      BY DEF Schema!Unset, Schema!NotApplied
    <3>3. Schema!Applied(x.work) = Schema!Applied(old.work) \cup {v}
      BY <2>6, <3>1, <3>2 DEF Schema!Applied
    <3> QED
      BY <2>2, <2>4, <3>3
  <2>8. ProcOK(p, x, subject.rows, subject.dialect, subject'.holder)
    <3>1. x.pc \in Pcs(subject.dialect) /\ DOMAIN x.work = Schema!Versions
      BY <1>s, <2>2, <2>4
    <3>2. x.mine \cap Schema!Applied(subject.rows) = {} /\ x.todo \cup x.mine = Schema!Missing(p, subject.rows)
      BY <2>2, <2>4, <2>6
    <3> QED
      BY <2>2, <2>4, <2>5, <2>7, <3>1, <3>2 DEF ProcOK
  <2> QED
    BY <2>5, <2>8, ProcMoves
<1> QED
  BY <1>2, <1>3, <1>4, <1>5

\* Who does not run scripts is content with more rows.
LEMMA RowsGrow ==
  ASSUME NEW q, NEW x, NEW rows, NEW more, NEW dialect, NEW holder, NEW next,
         ProcOK(q, x, rows, dialect, holder), x.pc # "apply",
         Schema!Applied(rows) \subseteq Schema!Applied(more)
  PROVE  ProcOK(q, x, more, dialect, next)
BY DEF ProcOK, Schema!Missing

Counts(runs, versions) ==
  [v \in Schema!Versions |-> runs[v] + IF v \in versions THEN 1 ELSE 0]

\* Scripts that were not in the history yet come into it.
LEMMA RowsCome ==
  ASSUME NEW rows, NEW runs, RowsOK(rows, runs), NEW more, NEW versions,
         DOMAIN more = Schema!Versions, versions \subseteq Schema!Versions,
         versions \cap Schema!Applied(rows) = {},
         Schema!Applied(more) = Schema!Applied(rows) \cup versions,
         \A v \in versions, w \in Schema!Versions : w < v => w \in Schema!Applied(more)
  PROVE  RowsOK(more, Counts(runs, versions))
<1>1. \A v \in Schema!Versions :
        Counts(runs, versions)[v] = IF more[v] = Schema!NotApplied THEN 0 ELSE 1
  BY DEF RowsOK, Counts, Schema!Applied
<1> QED
  BY <1>1 DEF RowsOK, Counts

\* The fields after scripts have run.
LEMMA RanFields ==
  ASSUME NEW s, DOMAIN s = SchemaFields, NEW versions
  PROVE  Schema!Ran(s, versions) = [s EXCEPT !.runs = Counts(s.runs, versions)]
BY DEF Schema!Ran, Counts, SchemaFields

\* A step of one process that brings rows, while nobody else runs scripts.
BringsRows(p, x, rows, versions) ==
  /\ DOMAIN subject' = SchemaFields /\ subject'.dialect = subject.dialect
  /\ subject'.proc = [subject.proc EXCEPT ![p] = x]
  /\ subject'.rows = rows /\ subject'.runs = Counts(subject.runs, versions)
  /\ subject'.seeded = subject.seeded

\* Versions that are applied, each once, keep what holds of the schema.
LEMMA RowsBrought ==
  ASSUME MigrationHolds, NEW p \in Procs, NEW x, NEW rows, NEW versions,
         BringsRows(p, x, rows, versions),
         ProcOK(p, x, rows, subject.dialect, subject'.holder),
         \A q \in Procs : q # p => subject.proc[q].pc # "apply",
         DOMAIN rows = Schema!Versions, versions \subseteq Schema!Versions,
         versions \cap Schema!Applied(subject.rows) = {},
         Schema!Applied(rows) = Schema!Applied(subject.rows) \cup versions,
         \A v \in versions, w \in Schema!Versions : w < v => w \in Schema!Applied(rows)
  PROVE  MigrationHolds'
<1>1. ASSUME NEW q \in Procs
      PROVE  ProcOK(q, subject'.proc[q], subject'.rows, subject'.dialect, subject'.holder)
  <2>1. CASE q = p
    BY <2>1 DEF BringsRows, MigrationHolds
  <2>2. CASE q # p
    <3>1. subject'.proc[q] = subject.proc[q]
      BY <2>2 DEF BringsRows, MigrationHolds
    <3>2. ProcOK(q, subject.proc[q], subject.rows, subject.dialect, subject.holder)
            /\ subject.proc[q].pc # "apply"
      BY <2>2 DEF MigrationHolds
    <3>3. ProcOK(q, subject.proc[q], rows, subject.dialect, subject'.holder)
      BY <3>2, RowsGrow
    <3> QED
      BY <3>1, <3>3 DEF BringsRows
  <2> QED
    BY <2>1, <2>2
<1>2. RowsOK(rows, Counts(subject.runs, versions))
  BY RowsCome DEF MigrationHolds
<1>3. subject.seeded => \E q \in Procs : Schema!Missing(q, rows) = {}
  BY DEF MigrationHolds, Schema!Missing
<1> QED
  BY <1>1, <1>2, <1>3 DEF BringsRows, MigrationHolds

\* The commit of a migration brings the scripts it has run.
LEMMA CommitKeeps ==
  ASSUME MigrationHolds, NEW p \in Procs, Schema!Commit(p)
  PROVE  MigrationHolds'
<1> DEFINE old == subject.proc[p]
<1> USE DEF Schema!At, Schema!Becomes
<1>s. DOMAIN subject = SchemaFields /\ DOMAIN subject.proc = Procs /\ DOMAIN old = ProcFields
      /\ old.pc \in Pcs(subject.dialect)
      /\ ProcOK(p, old, subject.rows, subject.dialect, subject.holder)
  BY DEF MigrationHolds, ProcOK
<1>1. old.pc = "apply" /\ old.todo = {}
  BY DEF Schema!Commit
<1>2. /\ subject.holder = p /\ DOMAIN old.work = Schema!Versions
      /\ Schema!Applied(old.work) = Schema!Applied(subject.rows) \cup old.mine
      /\ old.mine \cap Schema!Applied(subject.rows) = {}
      /\ old.mine = Schema!Missing(p, subject.rows)
      /\ Schema!Applied(subject.rows) \subseteq DOMAIN Build[p]
      /\ subject.dialect = "postgresql"
  BY <1>s, <1>1 DEF ProcOK, Pcs
<1>3. PICK rows : rows = Schema!WithSums(p, old.work)
  OBVIOUS
<1>4. DOMAIN rows = Schema!Versions /\ Schema!Applied(rows) = Schema!Applied(old.work)
  <2>1. \A v \in Schema!Versions : rows[v] =
          IF old.work[v] = Schema!Unset /\ v \in DOMAIN Build[p] /\ Column \in Schema!Applied(old.work)
            THEN Build[p][v] ELSE old.work[v]
    BY <1>3 DEF Schema!WithSums
  <2>2. Schema!Unset # Schema!NotApplied /\ \A v \in DOMAIN Build[p] : Build[p][v] # Schema!NotApplied
    BY SchemaAssumption DEF Schema!Unset, Schema!NotApplied
  <2>3. \A v \in Schema!Versions : rows[v] = Schema!NotApplied <=> old.work[v] = Schema!NotApplied
    BY <2>1, <2>2
  <2> QED
    BY <1>3, <2>3 DEF Schema!WithSums, Schema!Applied
<1>5. PICK behind : behind = IF Schema!IsCurrent(Gate, rows) THEN 0 ELSE subject.behind
  OBVIOUS
<1>6. PICK done : done = [[subject EXCEPT !.runs = Counts(subject.runs, old.mine)] EXCEPT
                            !.rows = rows, !.holder = Schema!NoOne, !.proc[p] = Schema!Off,
                            !.behind = behind]
  OBVIOUS
<1>7. subject' = IF p \in Clis THEN done ELSE Schema!Goes(done, p, "bootstrap")
  <2>1. Schema!Ran(subject, old.mine) = [subject EXCEPT !.runs = Counts(subject.runs, old.mine)]
    BY <1>s, RanFields
  <2>2. done = [Schema!Ran(subject, old.mine) EXCEPT
                  !.rows = rows, !.holder = Schema!NoOne, !.proc[p] = Schema!Off,
                  !.behind = IF Schema!IsCurrent(Gate, rows) THEN 0 ELSE Schema!Ran(subject, old.mine).behind]
    BY <1>s, <1>5, <1>6, <2>1 DEF SchemaFields
  <2> QED
    BY <1>3, <2>2 DEF Schema!Commit
<1>8. /\ DOMAIN done = SchemaFields /\ done.dialect = subject.dialect /\ done.rows = rows
      /\ done.runs = Counts(subject.runs, old.mine) /\ done.seeded = subject.seeded
      /\ done.proc = [subject.proc EXCEPT ![p] = Schema!Off]
  BY <1>s, <1>6 DEF SchemaFields
<1>9. \A q \in Procs : q # p => subject.proc[q].pc # "apply"
  BY <1>2 DEF MigrationHolds, ProcOK
<1>10. old.mine \subseteq Schema!Versions /\ old.mine \subseteq DOMAIN Build[p]
  BY <1>2 DEF Schema!Missing, Schema!Versions
<1>11. \A v \in old.mine, w \in Schema!Versions : w < v => w \in Schema!Applied(rows)
  <2>1. \A v \in old.mine, w \in Schema!Versions : w < v => w \in DOMAIN Build[p]
    BY <1>10, SchemaAssumption
  <2>2. DOMAIN Build[p] \subseteq Schema!Applied(rows)
    BY <1>2, <1>4 DEF Schema!Missing
  <2> QED
    BY <2>1, <2>2
<1>12. Schema!Missing(p, rows) = {}
  BY <1>2, <1>4 DEF Schema!Missing
<1>13. ASSUME NEW x, DOMAIN x = ProcFields, x.pc \in {"off", "bootstrap"},
              BringsRows(p, x, rows, old.mine)
       PROVE  MigrationHolds'
  <2>1. ProcOK(p, x, rows, subject.dialect, subject'.holder)
    BY <1>2, <1>12, <1>13 DEF ProcOK, Pcs
  <2> QED
    BY <1>2, <1>4, <1>9, <1>10, <1>11, <1>13, <2>1, RowsBrought
<1>14. CASE p \in Clis
  <2>1. PICK x : x = Schema!Off
    OBVIOUS
  <2>2. DOMAIN x = ProcFields /\ x.pc = "off" /\ BringsRows(p, x, rows, old.mine)
    BY <1>7, <1>8, <1>14, <2>1 DEF Schema!Off, ProcFields, BringsRows
  <2> QED
    BY <1>13, <2>2
<1>15. CASE p \notin Clis
  <2>1. PICK x : x = [Schema!Off EXCEPT !.pc = "bootstrap"]
    OBVIOUS
  <2>2. DOMAIN x = ProcFields /\ x.pc = "bootstrap"
    BY <2>1 DEF Schema!Off, ProcFields
  <2>3. done.proc[p] = Schema!Off
    BY <1>s, <1>8
  <2>4. subject' = [done EXCEPT !.proc[p].pc = "bootstrap"]
    BY <1>7, <1>15 DEF Schema!Goes
  <2>5. subject'.proc = [done.proc EXCEPT ![p] = x]
    BY <1>8, <2>1, <2>3, <2>4 DEF SchemaFields
  <2>6. subject'.proc = [subject.proc EXCEPT ![p] = x]
    BY <1>s, <1>8, <2>5
  <2>7. BringsRows(p, x, rows, old.mine)
    BY <1>8, <2>4, <2>6 DEF BringsRows, SchemaFields
  <2> QED
    BY <1>13, <2>2, <2>7
<1> QED
  BY <1>14, <1>15

\* An upgrade of SQLite, and the default profiles.
LEMMA UpgradesKeep ==
  ASSUME MigrationHolds, NEW p \in Procs,
         Schema!Upgrades(p) \/ Schema!Bootstrap(p) \/ Schema!Fail(p)
  PROVE  MigrationHolds'
<1> DEFINE old == subject.proc[p]
<1>s. DOMAIN subject = SchemaFields /\ DOMAIN subject.proc = Procs /\ DOMAIN old = ProcFields
      /\ subject.dialect \in {"postgresql", "sqlite"} /\ old.pc \in Pcs(subject.dialect)
      /\ DOMAIN subject.rows = Schema!Versions
      /\ ProcOK(p, old, subject.rows, subject.dialect, subject.holder)
  BY DEF MigrationHolds, ProcOK, RowsOK
<1> USE DEF Schema!At, Schema!Becomes, Schema!Postgres
<1>1. ASSUME subject' = Schema!Stopped(p) PROVE MigrationHolds'
  <2>1. Schema!Stopped(p) = [Schema!Stopped(p) EXCEPT !.faults = subject.faults]
    BY <1>s DEF Schema!Stopped, SchemaFields
  <2> QED
    BY <1>1, <2>1, Stops
<1>2. subject.dialect = "sqlite" => \A q \in Procs : subject.proc[q].pc # "apply"
  BY DEF MigrationHolds, ProcOK, Pcs
<1>3. CASE Schema!InspectTables(p)
  <2>1. subject.dialect = "sqlite"
    BY <1>s, <1>3 DEF Schema!InspectTables, Pcs
  <2>2. CASE Schema!Applied(subject.rows) = {}
    <3>1. subject' = Schema!Goes(subject, p, "create")
      BY <1>3, <2>2 DEF Schema!InspectTables
    <3>2. "create" \in Pcs(subject.dialect) \ {"apply", "alter"}
      BY <2>1 DEF Pcs
    <3> QED
      BY <3>1, <3>2, Goes1
  <2>3. CASE Schema!Applied(subject.rows) # {}
    <3>1. PICK x : x = [old EXCEPT !.pc = "alter", !.todo = Schema!Missing(p, subject.rows)]
      OBVIOUS
    <3>2. subject' = [subject EXCEPT !.proc[p] = x]
      BY <1>s, <1>3, <2>3, <3>1 DEF Schema!InspectTables
    <3>3. DOMAIN x = ProcFields /\ x.pc = "alter" /\ x.todo = Schema!Missing(p, subject.rows)
      BY <1>s, <3>1 DEF ProcFields
    <3>4. MovesProc(p, x) /\ subject'.seeded = subject.seeded /\ subject'.holder = subject.holder
      BY <1>s, <3>2 DEF MovesProc, SchemaFields
    <3>5. ProcOK(p, x, subject.rows, subject.dialect, subject'.holder)
      BY <2>1, <3>3 DEF ProcOK, Pcs, Schema!Missing
    <3> QED
      BY <3>4, <3>5, ProcMoves
  <2> QED
    BY <2>2, <2>3
<1>4. CASE Schema!CreateTables(p)
  <2>1. old.pc = "create" /\ subject.dialect = "sqlite"
    BY <1>s, <1>4 DEF Schema!CreateTables, Pcs
  <2>2. CASE Schema!Applied(subject.rows) # {}
    BY <1>1, <1>4, <2>2 DEF Schema!CreateTables
  <2>3. CASE Schema!Applied(subject.rows) = {}
    <3>1. PICK rows : rows = [v \in Schema!Versions |->
                                IF v \in DOMAIN Build[p] THEN Schema!Unset ELSE subject.rows[v]]
      OBVIOUS
    <3>2. PICK made : made = [subject EXCEPT !.rows = rows]
      OBVIOUS
    <3>3. DOMAIN made = SchemaFields /\ made.runs = subject.runs
      BY <1>s, <3>2 DEF SchemaFields
    <3>4. subject' = Schema!Goes(Schema!Ran(made, DOMAIN Build[p]), p, "inspect")
      BY <1>s, <1>4, <2>3, <3>1, <3>2 DEF Schema!CreateTables
    <3>5. Schema!Ran(made, DOMAIN Build[p]) = [made EXCEPT !.runs = Counts(subject.runs, DOMAIN Build[p])]
      BY <3>3, RanFields
    <3>6. PICK x : x = [old EXCEPT !.pc = "inspect"]
      OBVIOUS
    <3>7. DOMAIN x = ProcFields /\ x.pc = "inspect"
      BY <1>s, <3>6 DEF ProcFields
    <3>8. PICK ran : ran = [made EXCEPT !.runs = Counts(subject.runs, DOMAIN Build[p])]
      OBVIOUS
    <3>9. DOMAIN ran = SchemaFields /\ ran.dialect = subject.dialect /\ ran.proc = subject.proc
          /\ ran.rows = rows /\ ran.runs = Counts(subject.runs, DOMAIN Build[p]) /\ ran.seeded = subject.seeded
      BY <1>s, <3>2, <3>8 DEF SchemaFields
    <3>10. BringsRows(p, x, rows, DOMAIN Build[p])
      BY <1>s, <3>4, <3>5, <3>6, <3>8, <3>9 DEF BringsRows, Schema!Goes, SchemaFields
    <3>11. ProcOK(p, x, rows, subject.dialect, subject'.holder)
      BY <2>1, <3>7 DEF ProcOK, Pcs
    <3>12. DOMAIN Build[p] \subseteq Schema!Versions
      BY DEF Schema!Versions
    <3>13. DOMAIN rows = Schema!Versions /\ Schema!Applied(rows) = Schema!Applied(subject.rows) \cup DOMAIN Build[p]
      <4>1. Schema!Unset # Schema!NotApplied
        BY DEF Schema!Unset, Schema!NotApplied
      <4> QED
        BY <2>3, <3>1, <3>12, <4>1 DEF Schema!Applied
    <3>14. \A v \in DOMAIN Build[p], w \in Schema!Versions : w < v => w \in Schema!Applied(rows)
      BY <3>13, SchemaAssumption
    <3> QED
      BY <1>2, <2>1, <2>3, <3>10, <3>11, <3>12, <3>13, <3>14, RowsBrought
  <2> QED
    BY <2>2, <2>3
<1>5. CASE Schema!AddColumn(p)
  <2>1. old.pc = "alter" /\ subject.dialect = "sqlite"
    BY <1>s, <1>5 DEF Schema!AddColumn, Pcs
  <2>2. PICK v \in old.todo :
          /\ \A w \in old.todo : v <= w
          /\ subject' = IF v \in Schema!Applied(subject.rows) THEN Schema!Stopped(p)
                        ELSE Schema!Ran([subject EXCEPT !.rows[v] = Schema!Unset, !.proc[p].todo = @ \ {v}], {v})
    BY <1>5 DEF Schema!AddColumn
  <2>3. CASE v \in Schema!Applied(subject.rows)
    BY <1>1, <2>2, <2>3
  <2>4. CASE v \notin Schema!Applied(subject.rows)
    <3>1. PICK rows : rows = [subject.rows EXCEPT ![v] = Schema!Unset]
      OBVIOUS
    <3>2. PICK x : x = [old EXCEPT !.todo = @ \ {v}]
      OBVIOUS
    <3>3. DOMAIN x = ProcFields /\ x.pc = "alter" /\ x.todo = old.todo \ {v}
      BY <1>s, <2>1, <3>2 DEF ProcFields
    <3>4. PICK made : made = [subject EXCEPT !.rows = rows, !.proc[p] = x]
      OBVIOUS
    <3>5. DOMAIN made = SchemaFields /\ made.runs = subject.runs /\ made.rows = rows
          /\ made.proc = [subject.proc EXCEPT ![p] = x] /\ made.dialect = subject.dialect
          /\ made.seeded = subject.seeded
      BY <1>s, <3>4 DEF SchemaFields
    <3>6. made = [subject EXCEPT !.rows[v] = Schema!Unset, !.proc[p].todo = @ \ {v}]
      BY <1>s, <3>1, <3>2, <3>4 DEF SchemaFields
    <3>7. subject' = [made EXCEPT !.runs = Counts(subject.runs, {v})]
      <4>1. subject' = Schema!Ran(made, {v})
        BY <2>2, <2>4, <3>6
      <4>2. Schema!Ran(made, {v}) = [made EXCEPT !.runs = Counts(made.runs, {v})]
        BY <3>5, RanFields
      <4> QED
        BY <3>5, <4>1, <4>2
    <3>8. BringsRows(p, x, rows, {v})
      BY <3>5, <3>7 DEF BringsRows, SchemaFields
    <3>9. old.todo \subseteq DOMAIN Build[p] /\ DOMAIN Build[p] \subseteq Schema!Applied(subject.rows) \cup old.todo
      BY <1>s, <2>1 DEF ProcOK
    <3>10. v \in DOMAIN Build[p] /\ DOMAIN Build[p] \subseteq Schema!Versions
      BY <3>9 DEF Schema!Versions
    <3>11. DOMAIN rows = Schema!Versions /\ Schema!Applied(rows) = Schema!Applied(subject.rows) \cup {v}
      <4>1. Schema!Unset # Schema!NotApplied
        BY DEF Schema!Unset, Schema!NotApplied
      <4> QED
        BY <1>s, <3>1, <3>10, <4>1 DEF Schema!Applied
    <3>12. ProcOK(p, x, rows, subject.dialect, subject'.holder)
      BY <2>1, <3>3, <3>9, <3>11 DEF ProcOK, Pcs
    <3>13. ASSUME NEW w \in Schema!Versions, w < v PROVE w \in Schema!Applied(rows)
      <4>1. w \in DOMAIN Build[p]
        BY <3>10, <3>13, SchemaAssumption
      <4>2. w \notin old.todo
        <5>1. w \in Nat /\ v \in Nat
          BY <3>10, SchemaAssumption
        <5> QED
          BY <2>2, <3>13, <5>1
      <4> QED
        BY <3>9, <3>11, <4>1, <4>2
    <3> QED
      BY <1>2, <2>1, <2>4, <3>8, <3>10, <3>11, <3>12, <3>13, RowsBrought
  <2> QED
    BY <2>3, <2>4
<1>6. CASE Schema!AddIndexes(p)
  <2>1. old.pc = "alter" /\ old.todo = {} /\ subject.dialect = "sqlite"
    BY <1>s, <1>6 DEF Schema!AddIndexes, Pcs
  <2>2. Schema!Missing(p, subject.rows) = {}
    BY <1>s, <2>1 DEF ProcOK, Schema!Missing
  <2>3. PICK x : x = [old EXCEPT !.pc = "bootstrap"]
    OBVIOUS
  <2>4. DOMAIN x = ProcFields /\ x.pc = "bootstrap"
    BY <1>s, <2>3 DEF ProcFields
  <2>5. subject' = [[subject EXCEPT !.indexed = Schema!HasIndexed(p, subject.rows)] EXCEPT !.proc[p].pc = "bootstrap"]
    BY <1>6 DEF Schema!AddIndexes, Schema!Goes
  <2>6. MovesProc(p, x) /\ subject'.seeded = subject.seeded /\ subject'.holder = subject.holder
    BY <1>s, <2>3, <2>5 DEF MovesProc, SchemaFields
  <2>7. ProcOK(p, x, subject.rows, subject.dialect, subject'.holder)
    BY <2>1, <2>2, <2>4 DEF ProcOK, Pcs
  <2> QED
    BY <2>6, <2>7, ProcMoves
<1>7. CASE Schema!Bootstrap(p)
  <2>1. old.pc = "bootstrap"
    BY <1>7 DEF Schema!Bootstrap
  <2>2. PICK seeded : seeded = (subject.seeded \/ ~ Schema!Postgres \/ Schema!IsCurrent(p, subject.rows))
    OBVIOUS
  <2>3. seeded => subject.seeded \/ Schema!Missing(p, subject.rows) = {}
    <3>1. ~ Schema!Postgres => Schema!Missing(p, subject.rows) = {}
      BY <1>s, <2>1 DEF ProcOK
    <3>2. Schema!IsCurrent(p, subject.rows) => Schema!Missing(p, subject.rows) = {}
      BY DEF Schema!IsCurrent
    <3> QED
      BY <2>2, <3>1, <3>2
  <2>4. PICK x : x = [old EXCEPT !.pc = "up"]
    OBVIOUS
  <2>5. DOMAIN x = ProcFields /\ x.pc = "up"
    BY <1>s, <2>4 DEF ProcFields
  <2>6. subject' = [[subject EXCEPT !.seeded = seeded] EXCEPT !.proc[p].pc = "up"]
    BY <1>s, <1>7, <2>2 DEF Schema!Bootstrap, Schema!Goes
  <2>7. MovesProc(p, x) /\ subject'.seeded = seeded /\ subject'.holder = subject.holder
    BY <1>s, <2>4, <2>6 DEF MovesProc, SchemaFields
  <2>8. ProcOK(p, x, subject.rows, subject.dialect, subject'.holder)
    BY <1>s, <2>1, <2>5 DEF ProcOK, Pcs
  <2> QED
    BY <2>3, <2>7, <2>8, ProcMoves
<1>8. CASE Schema!Fail(p)
  <2>1. subject' = [Schema!Stopped(p) EXCEPT !.faults = subject.faults + 1]
    BY <1>s, <1>8 DEF Schema!Fail, Schema!Stopped, SchemaFields
  <2> QED
    BY <2>1, Stops
<1> QED
  BY <1>3, <1>4, <1>5, <1>6, <1>7, <1>8 DEF Schema!Upgrades

-----------------------------------------------------------------------------
(* The gate in front of the API.                                           *)

ProbeFields == {"age", "lock", "thread"}
ThreadFields == {"pc", "force", "got", "took"}

\* A look that found the gate's schema was not over before the schema was another's.
ThreadOK(x, behind) ==
  /\ DOMAIN x = ThreadFields /\ x.took \in 0 .. Slow
  /\ x.pc = "seen" /\ x.got => behind <= x.took

\* An answer that is kept is older than what is behind it, but for a look.
AgeOK(age, behind) ==
  \/ age = Schema!NoAge
  \/ age \in 0 .. Ttl + 1 /\ behind <= age + Slow

GateHolds ==
  /\ DOMAIN subject.probe = ProbeFields /\ DOMAIN subject.probe.thread = Threads
  /\ subject.behind \in 0 .. Ttl + Slow + 1 /\ subject.late \in 0 .. Ttl + Slow
  /\ Schema!IsCurrent(Gate, subject.rows) \/ subject.dialect = "sqlite" => subject.behind = 0
  /\ \A t \in Threads : ThreadOK(subject.probe.thread[t], subject.behind)
  /\ AgeOK(subject.probe.age, subject.behind)

\* No request is at the gate of a control that has just come up.
LEMMA ShutIsFine ==
  ASSUME NEW behind \in Nat
  PROVE  /\ DOMAIN Schema!Shut = ProbeFields /\ DOMAIN Schema!Shut.thread = Threads
         /\ \A t \in Threads : ThreadOK(Schema!Shut.thread[t], behind)
         /\ AgeOK(Schema!Shut.age, behind)
<1>1. ThreadOK(Schema!Idle, behind)
  BY SchemaAssumption DEF Schema!Idle, ThreadOK, ThreadFields
<1> QED
  BY <1>1 DEF Schema!Shut, AgeOK, ProbeFields

\* A process leaves the gate alone or shuts it, and what it does to the history can
\* only end the time that the schema is not the gate's.
LeavesGate ==
  /\ subject'.probe \in {subject.probe, Schema!Shut}
  /\ subject'.late = subject.late /\ subject'.dialect = subject.dialect
  /\ subject'.behind \in {0, subject.behind}
  /\ Schema!IsCurrent(Gate, subject'.rows) \/ subject.dialect = "sqlite" => subject'.behind = 0

\* A step that leaves the readiness probe alone keeps what holds of it.
LEMMA GateIsLeft ==
  ASSUME GateHolds, LeavesGate
  PROVE  GateHolds'
<1>0. Ttl \in Nat /\ Slow \in Nat
  BY SchemaAssumption
<1>1. subject.behind \in 0 .. Ttl + Slow + 1 /\ subject'.behind \in 0 .. Ttl + Slow + 1
      /\ subject'.behind <= subject.behind
  BY <1>0 DEF GateHolds, LeavesGate
<1>2. CASE subject'.probe = subject.probe
  <2>1. ASSUME NEW t \in Threads
        PROVE  ThreadOK(subject.probe.thread[t], subject'.behind)
    <3>1. ThreadOK(subject.probe.thread[t], subject.behind)
      BY DEF GateHolds
    <3> QED
      BY <1>0, <1>1, <3>1 DEF ThreadOK
  <2>2. AgeOK(subject.probe.age, subject'.behind)
    BY <1>0, <1>1 DEF GateHolds, AgeOK
  <2> QED
    BY <1>1, <1>2, <2>1, <2>2 DEF GateHolds, LeavesGate
<1>3. CASE subject'.probe = Schema!Shut
  <2>1. subject'.behind \in Nat
    BY <1>0, <1>1
  <2> QED
    BY <1>1, <1>3, <2>1, ShutIsFine DEF GateHolds, LeavesGate
<1> QED
  BY <1>2, <1>3 DEF LeavesGate

\* The processes leave the gate as it was.
LEMMA ProcsKeepGate ==
  ASSUME MigrationHolds, GateHolds, NEW p \in Procs,
         \/ Schema!Start(p) \/ Schema!Migrates(p) \/ Schema!Upgrades(p)
         \/ Schema!Bootstrap(p) \/ Schema!Fail(p)
  PROVE  GateHolds'
<1> USE DEF Schema!At, Schema!Becomes, Schema!Postgres
<1> DEFINE old == subject.proc[p]
<1>s. DOMAIN subject = SchemaFields /\ DOMAIN subject.proc = Procs /\ DOMAIN old = ProcFields
      /\ subject.dialect \in {"postgresql", "sqlite"} /\ old.pc \in Pcs(subject.dialect)
  BY DEF MigrationHolds, ProcOK
<1>g. /\ Schema!IsCurrent(Gate, subject.rows) => subject.behind = 0
      /\ subject.dialect = "sqlite" => subject.behind = 0
  BY DEF GateHolds
<1>1. ASSUME subject'.probe \in {subject.probe, Schema!Shut}, subject'.late = subject.late,
             subject'.dialect = subject.dialect, subject'.behind = subject.behind,
             subject'.rows = subject.rows \/ subject.dialect = "sqlite"
      PROVE  GateHolds'
  <2>1. LeavesGate
    BY <1>1, <1>g DEF LeavesGate
  <2> QED
    BY <2>1, GateIsLeft
<1>2. ASSUME NEW s, DOMAIN s = SchemaFields, s.probe = subject.probe, s.late = subject.late,
             s.dialect = subject.dialect, s.behind = subject.behind,
             s.rows = subject.rows \/ subject.dialect = "sqlite",
             NEW pc, subject' = Schema!Goes(s, p, pc)
      PROVE  GateHolds'
  BY <1>1, <1>2 DEF Schema!Goes, SchemaFields
<1>3. ASSUME NEW spent, subject' = [Schema!Stopped(p) EXCEPT !.faults = spent]
      PROVE  GateHolds'
  <2>1. /\ subject'.probe \in {subject.probe, Schema!Shut} /\ subject'.late = subject.late
        /\ subject'.dialect = subject.dialect /\ subject'.behind = subject.behind
        /\ subject'.rows = subject.rows
    BY <1>s, <1>3 DEF Schema!Stopped, SchemaFields
  <2> QED
    BY <1>1, <2>1
<1>4. ASSUME subject' = Schema!Stopped(p) PROVE GateHolds'
  <2>1. Schema!Stopped(p) = [Schema!Stopped(p) EXCEPT !.faults = subject.faults]
    BY <1>s DEF Schema!Stopped, SchemaFields
  <2> QED
    BY <1>3, <1>4, <2>1
<1>5. CASE Schema!Start(p)
  <2>1. PICK s : s = [subject EXCEPT !.starts = subject.starts + 1]
    OBVIOUS
  <2>2. DOMAIN s = SchemaFields /\ s.probe = subject.probe /\ s.late = subject.late
        /\ s.dialect = subject.dialect /\ s.behind = subject.behind /\ s.rows = subject.rows
    BY <1>s, <2>1 DEF SchemaFields
  <2>3. \E pc : subject' = Schema!Goes(s, p, pc)
    BY <1>5, <2>1 DEF Schema!Start
  <2> QED
    BY <1>2, <2>2, <2>3
<1>6. CASE Schema!ReadStatus(p)
  BY <1>2, <1>4, <1>6, <1>s DEF Schema!ReadStatus
<1>7. CASE Schema!TakeLock(p)
  <2>1. CASE Schema!Refuses(p, subject.rows)
    BY <1>4, <1>7, <2>1 DEF Schema!TakeLock
  <2>2. CASE ~ Schema!Refuses(p, subject.rows)
    <3>1. \E x : subject' = [subject EXCEPT !.holder = p, !.proc[p] = x]
      BY <1>7, <2>2 DEF Schema!TakeLock
    <3> QED
      BY <1>1, <1>s, <3>1 DEF SchemaFields
  <2> QED
    BY <2>1, <2>2
<1>8. CASE Schema!RunScript(p)
  <2>1. \E procs : subject' = [subject EXCEPT !.proc = procs]
    <3>1. PICK v \in old.todo :
            subject' = [subject EXCEPT !.proc[p].work[v] = Schema!Unset, !.proc[p].todo = @ \ {v},
                                       !.proc[p].mine = @ \cup {v}]
      BY <1>8 DEF Schema!RunScript
    <3>2. subject' = [subject EXCEPT !.proc = subject'.proc]
      BY <1>s, <3>1 DEF SchemaFields
    <3> QED
      BY <3>2
  <2> QED
    BY <1>1, <1>s, <2>1 DEF SchemaFields
<1>9. CASE Schema!Commit(p)
  <2>1. PICK rows : rows = Schema!WithSums(p, old.work)
    OBVIOUS
  <2>2. PICK behind : behind = IF Schema!IsCurrent(Gate, rows) THEN 0 ELSE subject.behind
    OBVIOUS
  <2>3. PICK done : done = [[subject EXCEPT !.runs = Counts(subject.runs, old.mine)] EXCEPT
                              !.rows = rows, !.holder = Schema!NoOne, !.proc[p] = Schema!Off,
                              !.behind = behind]
    OBVIOUS
  <2>4. subject' = done \/ subject' = Schema!Goes(done, p, "bootstrap")
    <3>1. Schema!Ran(subject, old.mine) = [subject EXCEPT !.runs = Counts(subject.runs, old.mine)]
      BY <1>s, RanFields
    <3>2. done = [Schema!Ran(subject, old.mine) EXCEPT
                    !.rows = rows, !.holder = Schema!NoOne, !.proc[p] = Schema!Off,
                    !.behind = IF Schema!IsCurrent(Gate, rows) THEN 0 ELSE Schema!Ran(subject, old.mine).behind]
      BY <1>s, <2>2, <2>3, <3>1 DEF SchemaFields
    <3> QED
      BY <1>9, <2>1, <3>2 DEF Schema!Commit
  <2>5. DOMAIN done = SchemaFields /\ done.probe = subject.probe /\ done.late = subject.late
        /\ done.dialect = subject.dialect /\ done.behind = behind /\ done.rows = rows
    BY <1>s, <2>3 DEF SchemaFields
  <2>6. subject'.probe = subject.probe /\ subject'.late = subject.late
        /\ subject'.dialect = subject.dialect /\ subject'.behind = behind /\ subject'.rows = rows
    BY <2>4, <2>5 DEF Schema!Goes, SchemaFields
  <2>7. LeavesGate
    BY <1>g, <2>2, <2>6 DEF LeavesGate
  <2> QED
    BY <2>7, GateIsLeft
<1>10. CASE Schema!InspectTables(p)
  <2>1. CASE Schema!Applied(subject.rows) = {}
    BY <1>2, <1>10, <1>s, <2>1 DEF Schema!InspectTables
  <2>2. CASE Schema!Applied(subject.rows) # {}
    <3>1. subject' = [subject EXCEPT !.proc[p].pc = "alter",
                                     !.proc[p].todo = Schema!Missing(p, subject.rows)]
      BY <1>10, <2>2 DEF Schema!InspectTables
    <3> QED
      BY <1>1, <1>s, <3>1 DEF SchemaFields
  <2> QED
    BY <2>1, <2>2
<1>11. CASE Schema!CreateTables(p)
  <2>1. subject.dialect = "sqlite"
    BY <1>s, <1>11 DEF Schema!CreateTables, Pcs
  <2>2. CASE Schema!Applied(subject.rows) # {}
    BY <1>4, <1>11, <2>2 DEF Schema!CreateTables
  <2>3. CASE Schema!Applied(subject.rows) = {}
    <3>1. PICK made : made = [subject EXCEPT !.rows = [v \in Schema!Versions |->
                                IF v \in DOMAIN Build[p] THEN Schema!Unset ELSE subject.rows[v]]]
      OBVIOUS
    <3>2. PICK ran : ran = Schema!Ran(made, DOMAIN Build[p])
      OBVIOUS
    <3>3. DOMAIN made = SchemaFields /\ made.probe = subject.probe /\ made.late = subject.late
          /\ made.dialect = subject.dialect /\ made.behind = subject.behind
      BY <1>s, <3>1 DEF SchemaFields
    <3>4. DOMAIN ran = SchemaFields /\ ran.probe = subject.probe /\ ran.late = subject.late
          /\ ran.dialect = subject.dialect /\ ran.behind = subject.behind
      <4>1. ran = [made EXCEPT !.runs = Counts(made.runs, DOMAIN Build[p])]
        BY <3>2, <3>3, RanFields
      <4> QED
        BY <3>3, <4>1 DEF SchemaFields
    <3>5. subject' = Schema!Goes(ran, p, "inspect")
      BY <1>11, <2>3, <3>1, <3>2 DEF Schema!CreateTables
    <3> QED
      BY <1>2, <2>1, <3>4, <3>5
  <2> QED
    BY <2>2, <2>3
<1>12. CASE Schema!AddColumn(p)
  <2>1. subject.dialect = "sqlite"
    BY <1>s, <1>12 DEF Schema!AddColumn, Pcs
  <2>2. PICK v \in old.todo :
          subject' = IF v \in Schema!Applied(subject.rows) THEN Schema!Stopped(p)
                     ELSE Schema!Ran([subject EXCEPT !.rows[v] = Schema!Unset, !.proc[p].todo = @ \ {v}], {v})
    BY <1>12 DEF Schema!AddColumn
  <2>3. CASE v \in Schema!Applied(subject.rows)
    BY <1>4, <2>2, <2>3
  <2>4. CASE v \notin Schema!Applied(subject.rows)
    <3>1. PICK made : made = [subject EXCEPT !.rows[v] = Schema!Unset, !.proc[p].todo = old.todo \ {v}]
      OBVIOUS
    <3>2. DOMAIN made = SchemaFields /\ made.probe = subject.probe /\ made.late = subject.late
          /\ made.dialect = subject.dialect /\ made.behind = subject.behind
      BY <1>s, <3>1 DEF SchemaFields
    <3>3. subject' = [made EXCEPT !.runs = Counts(made.runs, {v})]
      BY <2>2, <2>4, <3>1, <3>2, RanFields
    <3>4. subject'.probe = subject.probe /\ subject'.late = subject.late
          /\ subject'.dialect = subject.dialect /\ subject'.behind = subject.behind
      BY <3>2, <3>3 DEF SchemaFields
    <3> QED
      BY <1>1, <2>1, <3>4
  <2> QED
    BY <2>3, <2>4
<1>13. CASE Schema!AddIndexes(p)
  <2>1. PICK s : s = [subject EXCEPT !.indexed = Schema!HasIndexed(p, subject.rows)]
    OBVIOUS
  <2>2. DOMAIN s = SchemaFields /\ s.probe = subject.probe /\ s.late = subject.late
        /\ s.dialect = subject.dialect /\ s.behind = subject.behind /\ s.rows = subject.rows
    BY <1>s, <2>1 DEF SchemaFields
  <2>3. subject' = Schema!Goes(s, p, "bootstrap")
    BY <1>13, <2>1 DEF Schema!AddIndexes
  <2> QED
    BY <1>2, <2>2, <2>3
<1>14. CASE Schema!Bootstrap(p)
  <2>1. PICK s : s = [subject EXCEPT !.seeded = subject.seeded \/ ~ Schema!Postgres \/ Schema!IsCurrent(p, subject.rows)]
    OBVIOUS
  <2>2. DOMAIN s = SchemaFields /\ s.probe = subject.probe /\ s.late = subject.late
        /\ s.dialect = subject.dialect /\ s.behind = subject.behind /\ s.rows = subject.rows
    BY <1>s, <2>1 DEF SchemaFields
  <2>3. subject' = Schema!Goes(s, p, "up")
    BY <1>14, <2>1 DEF Schema!Bootstrap
  <2> QED
    BY <1>2, <2>2, <2>3
<1>15. CASE Schema!Fail(p)
  <2>1. subject' = [Schema!Stopped(p) EXCEPT !.faults = subject.faults + 1]
    BY <1>s, <1>15 DEF Schema!Fail, Schema!Stopped, SchemaFields
  <2> QED
    BY <1>3, <2>1
<1> QED
  BY <1>5, <1>6, <1>7, <1>8, <1>9, <1>10, <1>11, <1>12, <1>13, <1>14, <1>15
     DEF Schema!Migrates, Schema!Upgrades

\* A step of the gate does nothing to the history, the processes and their lock.
KeepsSchema ==
  /\ DOMAIN subject' = SchemaFields
  /\ subject'.dialect = subject.dialect /\ subject'.rows = subject.rows
  /\ subject'.runs = subject.runs /\ subject'.holder = subject.holder
  /\ subject'.proc = subject.proc /\ subject'.seeded = subject.seeded

\* A step that leaves the schema alone keeps what holds of it.
LEMMA SchemaIsKept ==
  ASSUME MigrationHolds, KeepsSchema
  PROVE  MigrationHolds'
<1>1. ASSUME NEW p \in Procs
      PROVE  ProcOK(p, subject'.proc[p], subject'.rows, subject'.dialect, subject'.holder)
  BY DEF MigrationHolds, KeepsSchema
<1> QED
  BY <1>1 DEF MigrationHolds, KeepsSchema

\* A step of a request at the gate: its place, the age of the answer, and how late the
\* latest requests were.
MovesThread(t, x, age, late) ==
  /\ KeepsSchema
  /\ DOMAIN subject'.probe = ProbeFields /\ subject'.probe.age = age
  /\ subject'.probe.thread = [subject.probe.thread EXCEPT ![t] = x]
  /\ subject'.behind = subject.behind /\ subject'.late = late

\* A thread that goes on keeps what holds of schema and probe.
LEMMA ThreadMoves ==
  ASSUME MigrationHolds, GateHolds, NEW t \in Threads, NEW x, NEW age, NEW late,
         MovesThread(t, x, age, late), ThreadOK(x, subject.behind), AgeOK(age, subject.behind),
         late \in 0 .. Ttl + Slow
  PROVE  MigrationHolds' /\ GateHolds'
<1>1. MigrationHolds'
  BY SchemaIsKept DEF MovesThread
<1>2. ASSUME NEW u \in Threads
      PROVE  ThreadOK(subject'.probe.thread[u], subject'.behind)
  BY DEF MovesThread, GateHolds
<1>3. /\ subject'.late \in 0 .. Ttl + Slow /\ DOMAIN subject'.probe.thread = Threads
      /\ subject'.behind \in 0 .. Ttl + Slow + 1 /\ AgeOK(subject'.probe.age, subject'.behind)
      /\ Schema!IsCurrent(Gate, subject'.rows) \/ subject'.dialect = "sqlite" => subject'.behind = 0
      /\ DOMAIN subject'.probe = ProbeFields
  BY DEF MovesThread, KeepsSchema, GateHolds
<1> QED
  BY <1>1, <1>2, <1>3 DEF GateHolds

\* A request that gets in does so on an answer that is good enough; one that is sent
\* away may do so at any time.
LEMMA AnswerKeeps ==
  ASSUME MigrationHolds, GateHolds, NEW t \in Threads, NEW s, NEW ready, NEW age,
         DOMAIN s = SchemaFields, DOMAIN s.probe = ProbeFields,
         s.dialect = subject.dialect, s.rows = subject.rows, s.runs = subject.runs,
         s.holder = subject.holder, s.proc = subject.proc, s.seeded = subject.seeded,
         s.probe.thread = subject.probe.thread, s.probe.age = age,
         s.behind = subject.behind, s.late = subject.late,
         ready => subject.behind <= Ttl + Slow, AgeOK(age, subject.behind),
         subject' = Schema!Answered(s, t, ready)
  PROVE  MigrationHolds' /\ GateHolds'
<1>0. Ttl \in Nat /\ Slow \in Nat /\ subject.behind \in Nat
  BY SchemaAssumption DEF GateHolds
<1>1. PICK late : late = IF ready /\ subject.behind > subject.late THEN subject.behind ELSE subject.late
  OBVIOUS
<1>2. late \in 0 .. Ttl + Slow
  BY <1>0, <1>1 DEF GateHolds
<1>3. PICK x : x = Schema!Idle
  OBVIOUS
<1>4. subject' = [s EXCEPT !.probe.thread[t] = x, !.late = late]
  BY <1>1, <1>3 DEF Schema!Answered, SchemaFields
<1>5. MovesThread(t, x, age, late)
  BY <1>4 DEF MovesThread, KeepsSchema, SchemaFields, ProbeFields
<1>6. ThreadOK(x, subject.behind)
  BY <1>0, <1>3 DEF ThreadOK, ThreadFields, Schema!Idle
<1> QED
  BY <1>2, <1>5, <1>6, ThreadMoves

\* A request that goes on in the gate.
LEMMA GoesOnKeeps ==
  ASSUME MigrationHolds, GateHolds, NEW t \in Threads, NEW x,
         NEW probe, DOMAIN probe = ProbeFields, probe.age = subject.probe.age,
         probe.thread = [subject.probe.thread EXCEPT ![t] = x],
         subject' = [subject EXCEPT !.probe = probe], ThreadOK(x, subject.behind)
  PROVE  MigrationHolds' /\ GateHolds'
<1>1. MovesThread(t, x, subject.probe.age, subject.late)
  BY DEF MovesThread, KeepsSchema, SchemaFields, MigrationHolds
<1>2. subject.late \in 0 .. Ttl + Slow /\ AgeOK(subject.probe.age, subject.behind)
  BY DEF GateHolds
<1> QED
  BY <1>1, <1>2, ThreadMoves

\* A request of the API, at every place of the gate.
LEMMA ServesKeeps ==
  ASSUME MigrationHolds, GateHolds, NEW t \in Threads, Schema!Serves(t)
  PROVE  MigrationHolds' /\ GateHolds'
<1> USE DEF Schema!Becomes, Schema!Probe, Schema!In, Schema!Thread
<1> DEFINE probe == subject.probe  old == probe.thread[t]
<1>0. Ttl \in Nat /\ Slow \in Nat /\ subject.behind \in Nat
  BY SchemaAssumption DEF GateHolds
<1>s. DOMAIN subject = SchemaFields /\ DOMAIN probe = ProbeFields /\ DOMAIN probe.thread = Threads
      /\ DOMAIN old = ThreadFields /\ ThreadOK(old, subject.behind) /\ AgeOK(probe.age, subject.behind)
  BY DEF MigrationHolds, GateHolds, ThreadOK
<1>1. ASSUME NEW pc, pc # "seen", subject' = [subject EXCEPT !.probe.thread[t].pc = pc]
      PROVE  MigrationHolds' /\ GateHolds'
  <2>1. PICK x : x = [old EXCEPT !.pc = pc]
    OBVIOUS
  <2>2. PICK next : next = [probe EXCEPT !.thread[t] = x]
    OBVIOUS
  <2>3. DOMAIN next = ProbeFields /\ next.age = probe.age
        /\ next.thread = [probe.thread EXCEPT ![t] = x] /\ subject' = [subject EXCEPT !.probe = next]
    BY <1>s, <1>1, <2>1, <2>2 DEF SchemaFields, ProbeFields
  <2>4. ThreadOK(x, subject.behind)
    BY <1>s, <1>1, <2>1 DEF ThreadOK, ThreadFields
  <2> QED
    BY <2>3, <2>4, GoesOnKeeps
<1>2. ASSUME NEW ready, ready => subject.behind <= Ttl + Slow, subject' = Schema!Answered(subject, t, ready)
      PROVE  MigrationHolds' /\ GateHolds'
  BY <1>s, <1>2, AnswerKeeps
<1>3. Schema!Fresh => subject.behind <= Ttl + Slow
  BY <1>0, <1>s DEF Schema!Fresh, AgeOK
<1>4. ASSUME NEW force \in BOOLEAN, Schema!Ask(t, force)
      PROVE  MigrationHolds' /\ GateHolds'
  <2>1. CASE ~ force /\ probe.age # Schema!NoAge
    BY <1>1, <1>4, <2>1 DEF Schema!Ask
  <2>2. CASE ~ (~ force /\ probe.age # Schema!NoAge)
    <3>1. subject' = [[subject EXCEPT !.probe.thread[t].force = force] EXCEPT !.probe.thread[t].pc = "queued"]
      BY <1>4, <2>2 DEF Schema!Ask
    <3>2. PICK x : x = [old EXCEPT !.force = force, !.pc = "queued"]
      OBVIOUS
    <3>3. PICK next : next = [probe EXCEPT !.thread[t] = x]
      OBVIOUS
    <3>4. DOMAIN next = ProbeFields /\ next.age = probe.age /\ next.thread = [probe.thread EXCEPT ![t] = x]
      BY <1>s, <3>3 DEF ProbeFields
    <3>5. subject' = [subject EXCEPT !.probe = next]
      BY <1>s, <3>1, <3>2, <3>3 DEF SchemaFields, ProbeFields, ThreadFields
    <3>6. ThreadOK(x, subject.behind)
      BY <1>s, <3>2 DEF ThreadOK, ThreadFields
    <3> QED
      BY <3>4, <3>5, <3>6, GoesOnKeeps
  <2> QED
    BY <2>1, <2>2
<1>5. CASE Schema!Compare(t)
  BY <1>1, <1>2, <1>3, <1>5 DEF Schema!Compare
<1>6. CASE Schema!Refresh(t)
  <2>1. CASE ~ old.force /\ Schema!Fresh
    BY <1>2, <1>3, <1>6, <2>1 DEF Schema!Refresh
  <2>2. CASE ~ (~ old.force /\ Schema!Fresh)
    <3>1. subject' = [[subject EXCEPT !.probe.lock = t] EXCEPT !.probe.thread[t].pc = "looking"]
      BY <1>6, <2>2 DEF Schema!Refresh
    <3>2. PICK x : x = [old EXCEPT !.pc = "looking"]
      OBVIOUS
    <3>3. PICK next : next = [probe EXCEPT !.lock = t, !.thread[t] = x]
      OBVIOUS
    <3>4. DOMAIN next = ProbeFields /\ next.age = probe.age /\ next.thread = [probe.thread EXCEPT ![t] = x]
      BY <1>s, <3>3 DEF ProbeFields
    <3>5. subject' = [subject EXCEPT !.probe = next]
      BY <1>s, <3>1, <3>2, <3>3 DEF SchemaFields, ProbeFields, ThreadFields
    <3>6. ThreadOK(x, subject.behind)
      BY <1>s, <3>2 DEF ThreadOK, ThreadFields
    <3> QED
      BY <3>4, <3>5, <3>6, GoesOnKeeps
  <2> QED
    BY <2>1, <2>2
<1>7. CASE Schema!Look(t)
  <2>1. PICK got : got = Schema!IsCurrent(Gate, subject.rows)
    OBVIOUS
  <2>2. subject' = [[subject EXCEPT !.probe.thread[t].got = got] EXCEPT !.probe.thread[t].pc = "seen"]
    BY <1>7, <2>1 DEF Schema!Look
  <2>3. PICK x : x = [old EXCEPT !.got = got, !.pc = "seen"]
    OBVIOUS
  <2>4. PICK next : next = [probe EXCEPT !.thread[t] = x]
    OBVIOUS
  <2>5. DOMAIN next = ProbeFields /\ next.age = probe.age /\ next.thread = [probe.thread EXCEPT ![t] = x]
    BY <1>s, <2>4 DEF ProbeFields
  <2>6. subject' = [subject EXCEPT !.probe = next]
    BY <1>s, <2>2, <2>3, <2>4 DEF SchemaFields, ProbeFields, ThreadFields
  <2>7. got => subject.behind = 0
    BY <2>1 DEF GateHolds
  <2>8. x.got = got /\ x.took = old.took /\ DOMAIN x = ThreadFields
    BY <1>s, <2>3 DEF ThreadFields
  <2>9. ThreadOK(x, subject.behind)
    <3>1. x.took \in 0 .. Slow
      BY <1>s, <2>8 DEF ThreadOK
    <3>2. ASSUME x.got PROVE subject.behind <= x.took
      <4>1. subject.behind = 0
        BY <2>7, <2>8, <3>2
      <4> QED
        BY <1>0, <3>1, <4>1
    <3> QED
      BY <2>8, <3>1, <3>2 DEF ThreadOK
  <2> QED
    BY <2>5, <2>6, <2>9, GoesOnKeeps
<1>8. CASE Schema!Keep(t)
  <2>1. PICK ok \in {TRUE, old.got} :
          LET ready == ok /\ old.got
          IN  subject' = Schema!Answered([subject EXCEPT !.probe.age = IF ready THEN 0 ELSE Schema!NoAge,
                                           !.probe.lock = Schema!NoOne], t, ready)
    BY <1>8 DEF Schema!Keep
  <2>2. PICK ready : ready = (ok /\ old.got)
    OBVIOUS
  <2>3. PICK age : age = IF ready THEN 0 ELSE Schema!NoAge
    OBVIOUS
  <2>4. PICK s : s = [subject EXCEPT !.probe.age = age, !.probe.lock = Schema!NoOne]
    OBVIOUS
  <2>5. subject' = Schema!Answered(s, t, ready)
    BY <2>1, <2>2, <2>3, <2>4
  <2>6. ready => subject.behind <= Slow
    <3>1. old.pc = "seen"
      BY <1>8 DEF Schema!Keep
    <3>2. old.got => subject.behind <= old.took
      BY <1>s, <3>1 DEF ThreadOK
    <3>3. old.took \in 0 .. Slow
      BY <1>s DEF ThreadOK
    <3>4. ready => old.got
      BY <2>2
    <3> QED
      BY <1>0, <3>2, <3>3, <3>4
  <2>7. AgeOK(age, subject.behind) /\ (ready => subject.behind <= Ttl + Slow)
    <3>1. CASE ready
      BY <1>0, <2>3, <2>6, <3>1 DEF AgeOK
    <3>2. CASE ~ ready
      BY <2>3, <3>2 DEF AgeOK
    <3> QED
      BY <3>1, <3>2
  <2>8. /\ DOMAIN s = SchemaFields /\ DOMAIN s.probe = ProbeFields
        /\ s.dialect = subject.dialect /\ s.rows = subject.rows /\ s.runs = subject.runs
        /\ s.holder = subject.holder /\ s.proc = subject.proc /\ s.seeded = subject.seeded
        /\ s.probe.thread = probe.thread /\ s.probe.age = age
        /\ s.behind = subject.behind /\ s.late = subject.late
    BY <1>s, <2>4 DEF SchemaFields, ProbeFields
  <2> QED
    BY <2>5, <2>7, <2>8, AnswerKeeps
<1> QED
  BY <1>4, <1>5, <1>6, <1>7, <1>8 DEF Schema!Serves

\* Time passes: what is looked at and what is kept get older with the schema.
LEMMA TickKeeps ==
  ASSUME MigrationHolds, GateHolds, Schema!Tick
  PROVE  MigrationHolds' /\ GateHolds'
<1> USE DEF Schema!Becomes, Schema!Probe, Schema!Postgres, Schema!At
<1> DEFINE probe == subject.probe  behind == subject.behind
<1>0. Ttl \in Nat /\ Slow \in Nat /\ behind \in 0 .. Ttl + Slow + 1
  BY SchemaAssumption DEF GateHolds
<1>s. DOMAIN subject = SchemaFields /\ DOMAIN probe = ProbeFields /\ DOMAIN probe.thread = Threads
      /\ subject.dialect = "postgresql"
  BY DEF MigrationHolds, GateHolds, Schema!Tick
<1>1. PICK age : age = IF probe.age \in {Schema!NoAge, Ttl + 1} THEN probe.age ELSE probe.age + 1
  OBVIOUS
<1>2. PICK thread : thread = [t \in Threads |-> Schema!Older(probe.thread[t])]
  OBVIOUS
<1>3. PICK next : next = IF Schema!IsCurrent(Gate, subject.rows) THEN 0
                         ELSE IF behind = Ttl + Slow + 1 THEN behind ELSE behind + 1
  OBVIOUS
<1>4. subject' = [subject EXCEPT !.probe.age = age, !.probe.thread = thread, !.behind = next]
  BY <1>s, <1>1, <1>2, <1>3 DEF Schema!Tick, SchemaFields, ProbeFields
<1>5. /\ KeepsSchema /\ DOMAIN subject'.probe = ProbeFields /\ subject'.probe.age = age
      /\ subject'.probe.thread = thread /\ subject'.behind = next /\ subject'.late = subject.late
  BY <1>s, <1>4 DEF KeepsSchema, SchemaFields, ProbeFields
<1>6. next \in 0 .. Ttl + Slow + 1 /\ next <= behind + 1
      /\ (Schema!IsCurrent(Gate, subject.rows) => next = 0)
  BY <1>0, <1>3
<1>7. ASSUME NEW t \in Threads
      PROVE  ThreadOK(thread[t], next)
  <2>1. PICK old : old = probe.thread[t]
    OBVIOUS
  <2>2. DOMAIN old = ThreadFields /\ old.took \in 0 .. Slow /\ old.took < Slow
        /\ (old.pc = "seen" /\ old.got => behind <= old.took)
    BY <2>1 DEF GateHolds, ThreadOK, Schema!Tick
  <2>3. CASE old.pc = "seen"
    <3>1. PICK x : x = [old EXCEPT !.took = old.took + 1]
      OBVIOUS
    <3>2. DOMAIN x = ThreadFields /\ x.took = old.took + 1 /\ x.got = old.got
      BY <2>2, <3>1 DEF ThreadFields
    <3>3. x.took \in 0 .. Slow /\ (behind <= old.took => next <= x.took)
      BY <1>0, <1>6, <2>2, <3>2
    <3>4. thread[t] = x
      BY <1>2, <2>1, <2>3, <3>1 DEF Schema!Older
    <3> QED
      BY <2>2, <2>3, <3>2, <3>3, <3>4 DEF ThreadOK
  <2>4. CASE old.pc # "seen"
    BY <1>2, <2>1, <2>2, <2>4 DEF ThreadOK, Schema!Older
  <2> QED
    BY <2>3, <2>4
<1>8. AgeOK(age, next)
  <2>1. AgeOK(probe.age, behind)
    BY DEF GateHolds
  <2> QED
    BY <1>0, <1>1, <1>6, <2>1 DEF AgeOK, Schema!NoAge
<1>9. GateHolds'
  <2>1. subject'.late \in 0 .. Ttl + Slow /\ DOMAIN subject'.probe.thread = Threads
    BY <1>2, <1>5 DEF GateHolds
  <2> QED
    BY <1>5, <1>6, <1>7, <1>8, <1>s, <2>1 DEF GateHolds, KeepsSchema
<1> QED
  BY <1>5, <1>9, SchemaIsKept

-----------------------------------------------------------------------------
SchemaHolds == MigrationHolds /\ GateHolds

\* What the schema is at first.
LEMMA SchemaBegins ==
  ASSUME Schema!SchemaInit
  PROVE  SchemaHolds
<1>0. Ttl \in Nat /\ Slow \in Nat
  BY SchemaAssumption
<1>1. PICK rows \in Histories, dialect \in {"postgresql", "sqlite"} :
        subject = [dialect |-> dialect, rows |-> rows,
                   runs |-> [v \in Schema!Versions |-> IF rows[v] = Schema!NotApplied THEN 0 ELSE 1],
                   holder |-> Schema!NoOne, proc |-> [p \in Procs |-> Schema!Off],
                   seeded |-> FALSE, indexed |-> FALSE, starts |-> 0, faults |-> 0,
                   probe |-> Schema!Shut, behind |-> 0, late |-> 0]
  BY DEF Schema!SchemaInit
<1>2. /\ DOMAIN subject = SchemaFields /\ subject.dialect \in {"postgresql", "sqlite"}
      /\ subject.rows = rows /\ subject.proc = [p \in Procs |-> Schema!Off]
      /\ subject.runs = [v \in Schema!Versions |-> IF rows[v] = Schema!NotApplied THEN 0 ELSE 1]
      /\ ~ subject.seeded /\ subject.probe = Schema!Shut /\ subject.behind = 0 /\ subject.late = 0
  BY <1>1 DEF SchemaFields
<1>3. RowsOK(subject.rows, subject.runs)
  <2>1. DOMAIN rows = Schema!Versions
        /\ \A v, w \in Schema!Versions : v \in Schema!Applied(rows) /\ w < v => w \in Schema!Applied(rows)
    BY SchemaAssumption
  <2>2. Schema!Applied(rows) \subseteq Schema!Versions
    BY DEF Schema!Applied
  <2> QED
    BY <1>2, <2>1, <2>2 DEF RowsOK
<1>4. ASSUME NEW p \in Procs
      PROVE  ProcOK(p, subject.proc[p], subject.rows, subject.dialect, subject.holder)
  <2>1. PICK x : x = Schema!Off
    OBVIOUS
  <2>2. DOMAIN x = ProcFields /\ x.pc = "off"
    BY <2>1 DEF Schema!Off, ProcFields
  <2>3. subject.proc[p] = x
    BY <1>2, <2>1
  <2> QED
    BY <1>2, <2>2, <2>3 DEF ProcOK, Pcs
<1>5. MigrationHolds
  BY <1>2, <1>3, <1>4 DEF MigrationHolds
<1>6. GateHolds
  BY <1>0, <1>2, ShutIsFine DEF GateHolds
<1> QED
  BY <1>5, <1>6 DEF SchemaHolds

\* The invariant of the schema, and what it says.
LEMMA SchemaKeeps ==
  /\ Schema!SchemaInit => SchemaHolds
  /\ SchemaHolds /\ Schema!SchemaNext => SchemaHolds'
  /\ SchemaHolds => Schema!MigratedOnce /\ Schema!ServedIsCurrent /\ Schema!SeededIsWhole
<1>1. ASSUME SchemaHolds, Schema!SchemaNext PROVE SchemaHolds'
  <2>1. ASSUME NEW p \in Procs,
               \/ Schema!Start(p) \/ Schema!Migrates(p) \/ Schema!Upgrades(p)
               \/ Schema!Bootstrap(p) \/ Schema!Fail(p)
        PROVE  SchemaHolds'
    <3>1. MigrationHolds /\ GateHolds
      BY <1>1 DEF SchemaHolds
    <3>2. GateHolds'
      BY <2>1, <3>1, ProcsKeepGate
    <3>3. MigrationHolds'
      BY <2>1, <3>1, MigratesKeeps, CommitKeeps, UpgradesKeep DEF Schema!Migrates
    <3> QED
      BY <3>2, <3>3 DEF SchemaHolds
  <2>2. ASSUME NEW t \in Threads, Schema!Serves(t) PROVE SchemaHolds'
    BY <1>1, <2>2, ServesKeeps DEF SchemaHolds
  <2>3. ASSUME Schema!Tick PROVE SchemaHolds'
    BY <1>1, <2>3, TickKeeps DEF SchemaHolds
  <2> QED
    BY <1>1, <2>1, <2>2, <2>3 DEF Schema!SchemaNext
<1>2. ASSUME SchemaHolds
      PROVE  Schema!MigratedOnce /\ Schema!ServedIsCurrent /\ Schema!SeededIsWhole
  <2>1. Schema!SeededIsWhole
    BY <1>2 DEF SchemaHolds, MigrationHolds, Schema!SeededIsWhole
  <2>2. Schema!ServedIsCurrent
    BY <1>2, SchemaAssumption DEF SchemaHolds, GateHolds, Schema!ServedIsCurrent
  <2>3. \A v \in Schema!Versions :
          /\ subject.runs[v] = IF subject.rows[v] = Schema!NotApplied THEN 0 ELSE 1
          /\ v \in Schema!Applied(subject.rows) =>
               \A w \in Schema!Versions : w < v => w \in Schema!Applied(subject.rows)
    BY <1>2 DEF SchemaHolds, MigrationHolds, RowsOK
  <2>4. ASSUME NEW p \in Procs, Schema!At(p, "up"), Schema!Postgres => p \in Autos
        PROVE  Schema!Missing(p, subject.rows) = {}
    <3>1. ProcOK(p, subject.proc[p], subject.rows, subject.dialect, subject.holder)
      BY <1>2 DEF SchemaHolds, MigrationHolds
    <3> QED
      BY <2>4, <3>1 DEF ProcOK, Schema!At, Schema!Postgres
  <2> QED
    BY <2>1, <2>2, <2>3, <2>4 DEF Schema!MigratedOnce
<1> QED
  BY <1>1, <1>2, SchemaBegins

-----------------------------------------------------------------------------
(* The host whose workers are scaled.                                      *)

HostFields == {"env", "unit", "template", "running", "enabled", "script", "byhand", "faults"}
ScriptFields == {"pc", "n", "prefix", "at", "todo", "items", "code", "heard", "plan", "alone", "before"}
Items == [action : Host!ScaleActions, status : Host!ScaleStatuses, instance : Nat]

HostShape ==
  /\ DOMAIN subject = HostFields /\ DOMAIN subject.script = Requests
  /\ DOMAIN subject.env = Instances /\ DOMAIN subject.running = Instances
  /\ subject.enabled \subseteq Instances
  /\ \A i \in Instances : subject.running[i] # "none" \/ i \in subject.enabled => subject.env[i] # "none"

\* Where a script may be.
ScriptOK(s) ==
  s.pc # "off" =>
    /\ DOMAIN s = ScriptFields /\ s.n \in Instances /\ s.prefix \in Names /\ s.items \in Seq(Items)
    /\ s.pc \in {"unit", "reload", "env", "start", "heartbeat", "list", "stop", "disable", "ended"}
    /\ s.pc # "ended" => s.code = 0
    /\ s.pc \in {"unit", "reload"} => s.at = 1
    /\ s.pc \in {"env", "start", "heartbeat"} => s.at \in 1 .. s.n
    /\ s.pc \in {"stop", "disable"} =>
         s.at \in s.todo /\ s.todo \subseteq Instances /\ \A i \in s.todo : s.at <= i /\ i > s.n

\* The workers that a script is through with, those asked for and the surplus.
Ups(s) ==
  {i \in 1 .. s.n : \/ s.pc \in {"list", "stop", "disable", "ended"}
                    \/ s.pc \in {"env", "start"} /\ i < s.at
                    \/ s.pc = "heartbeat" /\ i <= s.at}
Extra(env, n) == {i \in Instances : env[i] # "none" /\ i > n}
Downs(s, env) ==
  {i \in Extra(env, s.n) : s.pc = "ended" \/ (s.pc \in {"stop", "disable"} /\ i < s.at)}

\* What a script has done that went well.
Achieved(s, env, running, enabled) ==
  /\ \A i \in Ups(s) \ Host!Failed(s.items) :
       env[i] = s.prefix /\ i \in enabled /\ running[i] # "none"
  /\ s.pc = "start" => env[s.at] = s.prefix
  /\ \A i \in Downs(s, env) \ Host!Failed(s.items) : running[i] = "none" /\ i \notin enabled
  /\ s.pc = "disable" /\ s.at \notin Host!Failed(s.items) => running[s.at] = "none"
  /\ s.pc \in {"stop", "disable"} => s.todo = {i \in Extra(env, s.n) : s.at <= i}

\* Services that ran are not started anew.
Unmoved(s, running) ==
  \A i \in (1 .. s.n) \ Host!Failed(s.items) :
    running[i] = IF i \in Ups(s) /\ s.before[i] = "none" THEN s.prefix ELSE s.before[i]

\* How many steps a script has taken.
Taken(s, env) ==
  CASE s.pc \in {"unit", "reload"} -> 0
    [] s.pc = "env" -> 3 * s.at - 3
    [] s.pc = "start" -> 3 * s.at - 2
    [] s.pc = "heartbeat" -> 3 * s.at - 1
    [] s.pc = "list" -> 3 * s.n
    [] s.pc = "stop" -> 3 * s.n + 2 * Cardinality(Downs(s, env))
    [] s.pc = "disable" -> 3 * s.n + 2 * Cardinality(Downs(s, env)) + 1
    [] s.pc = "ended" -> 3 * s.n + 2 * Cardinality(Extra(env, s.n))

\* The plan is that of the host, for what the script has not done yet.
PlanFits(s, env) ==
  /\ Len(s.plan) = 1 + 3 * s.n + 2 * Cardinality(Extra(env, s.n))
  /\ DOMAIN s.plan = 1 .. Len(s.plan)
  /\ s.plan[1].action = "skip"
  /\ \A i \in 1 .. s.n :
       /\ s.plan[3 * i - 1].instance = i
       /\ i \notin Ups(s) /\ ~ (s.pc = "start" /\ i = s.at) =>
            s.plan[3 * i - 1].action = IF env[i] # "none" THEN "update_env" ELSE "create_env"
       /\ s.plan[3 * i].action = "start_service" /\ s.plan[3 * i].instance = i
       /\ s.plan[3 * i + 1].action = "wait_heartbeat" /\ s.plan[3 * i + 1].instance = i
  /\ \A i \in Extra(env, s.n) :
       LET k == 3 * s.n + 2 * Cardinality({j \in Extra(env, s.n) : j < i}) + 2
       IN  /\ s.plan[k].action = "stop_service" /\ s.plan[k].instance = i
           /\ s.plan[k + 1].action = "disable_service" /\ s.plan[k + 1].instance = i

\* What a script has printed are the steps of the plan, after the skipped items.
Printed(s, taken) ==
  /\ taken \in Nat /\ taken < Len(s.items)
  /\ \A k \in 1 .. Len(s.items) - taken : s.items[k].action = "skip"
  /\ \A k \in 1 .. taken :
       /\ s.items[Len(s.items) - taken + k].action = s.plan[k + 1].action
       /\ s.items[Len(s.items) - taken + k].instance = s.plan[k + 1].instance

\* A script that was begun and has not failed.
Begins(s) == s.pc # "off" /\ s.code = 0

\* Every request asks for the same, and nothing has gone wrong.
Agreed ==
  /\ ~ subject.byhand
  /\ \A q, r \in Requests :
       subject.script[q].pc # "off" /\ subject.script[r].pc # "off" =>
         /\ subject.script[q].n = subject.script[r].n /\ subject.script[q].prefix = subject.script[r].prefix
         /\ subject.script[q].code = 0 /\ Host!Failed(subject.script[q].items) = {}

\* A script does what it was begun for as far as it got, in the steps of its plan when it
\* is alone on the host.
HostHolds ==
  /\ HostShape
  /\ \A r \in Requests :
       LET s == subject.script[r]
       IN  /\ ScriptOK(s) /\ (s.pc = "start" => subject.env[s.at] # "none")
           /\ Begins(s) /\ (s.alone \/ Agreed) => Achieved(s, subject.env, subject.running, subject.enabled)
           /\ Begins(s) /\ s.alone =>
                /\ Unmoved(s, subject.running) /\ PlanFits(s, subject.env)
                /\ Printed(s, Taken(s, subject.env))

-----------------------------------------------------------------------------
\* The host after a step of a script for n workers with a prefix: workers asked for
\* are only started, the others only stopped.
Benign(n, prefix) ==
  \A i \in Instances :
    /\ i > n => /\ subject'.env[i] = subject.env[i]
                /\ subject.running[i] = "none" => subject'.running[i] = "none"
                /\ i \notin subject.enabled => i \notin subject'.enabled
    /\ i <= n => /\ subject'.env[i] \in {subject.env[i], prefix}
                 /\ subject.running[i] # "none" => subject'.running[i] # "none"
                 /\ i \in subject.enabled => i \in subject'.enabled

\* The instances are 1 .. size.
LEMMA InstancesRange ==
  \E size \in Nat : Instances = 1 .. size
BY HostAssumption, FS_CardinalityType

\* What a script has done stays done while others do only the same.
LEMMA AchievedKept ==
  ASSUME NEW s, ScriptOK(s), s.pc # "off", Benign(s.n, s.prefix),
         Achieved(s, subject.env, subject.running, subject.enabled)
  PROVE  Achieved(s, subject'.env, subject'.running, subject'.enabled)
<1>0. s.n \in Instances /\ \A i \in 1 .. s.n : i \in Instances /\ i <= s.n
  BY InstancesRange DEF ScriptOK
<1>0a. Instances \subseteq Nat
  BY InstancesRange
<1>1. Extra(subject'.env, s.n) = Extra(subject.env, s.n)
  BY DEF Extra, Benign
<1>2. Downs(s, subject'.env) = Downs(s, subject.env)
  BY <1>1 DEF Downs
<1>3. ASSUME NEW i \in Ups(s) \ Host!Failed(s.items)
      PROVE  subject'.env[i] = s.prefix /\ i \in subject'.enabled /\ subject'.running[i] # "none"
  <2>1. i \in Instances /\ i <= s.n
    BY <1>0, <1>3 DEF Ups
  <2>2. subject.env[i] = s.prefix /\ i \in subject.enabled /\ subject.running[i] # "none"
    BY <1>3 DEF Achieved
  <2> QED
    BY <2>1, <2>2 DEF Benign
<1>4. s.pc = "start" => subject'.env[s.at] = s.prefix
  BY <1>0 DEF Achieved, Benign, ScriptOK
<1>5. ASSUME NEW i \in Downs(s, subject.env) \ Host!Failed(s.items)
      PROVE  subject'.running[i] = "none" /\ i \notin subject'.enabled
  BY <1>5 DEF Achieved, Downs, Extra, Benign
<1>6. s.pc = "disable" /\ s.at \notin Host!Failed(s.items) => subject'.running[s.at] = "none"
  <2>1. s.pc = "disable" => s.at \in Instances /\ s.at > s.n
    BY DEF ScriptOK
  <2> QED
    BY <2>1 DEF Achieved, Benign
<1>7. s.pc \in {"stop", "disable"} => s.todo = {i \in Extra(subject'.env, s.n) : s.at <= i}
  BY <1>1 DEF Achieved
<1> QED
  BY <1>2, <1>3, <1>4, <1>5, <1>6, <1>7 DEF Achieved

-----------------------------------------------------------------------------
\* The other scripts are disturbed.
Disturbs(scripts, r) ==
  /\ DOMAIN scripts = Requests
  /\ \A q \in Requests \ {r} :
       scripts[q] = IF subject.script[q].pc = "off" THEN subject.script[q]
                    ELSE [subject.script[q] EXCEPT !.alone = FALSE]

\* How a script goes on.
Continues(s, x) ==
  /\ x.pc # "off"
  /\ s.pc # "off" => /\ x.n = s.n /\ x.prefix = s.prefix /\ x.alone = s.alone
                     /\ x.code = 0 => s.code = 0
                     /\ Host!Failed(s.items) \subseteq Host!Failed(x.items)

Achieves(x) == Achieved(x, subject'.env, subject'.running, subject'.enabled)
Keeps(x) ==
  /\ Unmoved(x, subject'.running) /\ PlanFits(x, subject'.env)
  /\ Printed(x, Taken(x, subject'.env))

\* A disturbed script is where it was, and has still done what it has done.
LEMMA DisturbedKeeps ==
  ASSUME NEW s, ScriptOK(s), s.pc # "off", NEW y, y = [s EXCEPT !.alone = FALSE],
         NEW env, NEW running, NEW enabled
  PROVE  /\ ScriptOK(y) /\ ~ y.alone /\ y.n = s.n /\ y.prefix = s.prefix /\ y.code = s.code
         /\ y.items = s.items /\ y.pc = s.pc /\ y.at = s.at
         /\ Achieved(s, env, running, enabled) => Achieved(y, env, running, enabled)
<1>1. DOMAIN s = ScriptFields
  BY DEF ScriptOK
<1>2. /\ DOMAIN y = ScriptFields /\ ~ y.alone /\ y.n = s.n /\ y.prefix = s.prefix /\ y.code = s.code
      /\ y.items = s.items /\ y.pc = s.pc /\ y.at = s.at /\ y.todo = s.todo
  BY <1>1 DEF ScriptFields
<1>3. ScriptOK(y)
  BY <1>2 DEF ScriptOK
<1>4. Ups(y) = Ups(s) /\ Downs(y, env) = Downs(s, env)
  BY <1>2 DEF Ups, Downs
<1>5. Achieved(s, env, running, enabled) => Achieved(y, env, running, enabled)
  BY <1>2, <1>4 DEF Achieved
<1> QED
  BY <1>2, <1>3, <1>5

\* A step of one script that others notice.
LEMMA ScriptActs ==
  ASSUME HostHolds, NEW r \in Requests, NEW x, HostShape', subject'.byhand = subject.byhand,
         Disturbs(subject'.script, r), subject'.script[r] = x, ScriptOK(x),
         Continues(subject.script[r], x), Benign(x.n, x.prefix),
         x.pc = "start" => subject'.env[x.at] # "none",
         Begins(x) /\ (x.alone \/ Agreed) => Achieves(x),
         Begins(x) /\ x.alone => Keeps(x)
  PROVE  HostHolds'
<1> DEFINE s(q) == subject.script[q]  y(q) == subject'.script[q]
<1>1. ASSUME NEW q \in Requests, q # r, s(q).pc # "off"
      PROVE  /\ ScriptOK(y(q)) /\ ~ y(q).alone /\ y(q).n = s(q).n /\ y(q).prefix = s(q).prefix
             /\ y(q).code = s(q).code /\ y(q).items = s(q).items /\ y(q).pc = s(q).pc
             /\ y(q).at = s(q).at
             /\ Achieved(s(q), subject'.env, subject'.running, subject'.enabled) => Achieves(y(q))
  <2>1. ScriptOK(s(q)) /\ y(q) = [s(q) EXCEPT !.alone = FALSE]
    BY <1>1 DEF HostHolds, Disturbs
  <2> QED
    BY <1>1, <2>1, DisturbedKeeps DEF Achieves
<1>2. \A q \in Requests : q # r /\ s(q).pc = "off" => y(q) = s(q)
  BY DEF Disturbs
<1>3. Agreed' => Agreed
  <2>1. ASSUME NEW q \in Requests, s(q).pc # "off"
        PROVE  /\ y(q).pc # "off" /\ y(q).n = s(q).n /\ y(q).prefix = s(q).prefix
               /\ y(q).code = 0 => s(q).code = 0
               /\ Host!Failed(s(q).items) \subseteq Host!Failed(y(q).items)
    <3>1. CASE q = r
      BY <2>1, <3>1 DEF Continues
    <3>2. CASE q # r
      BY <1>1, <2>1, <3>2
    <3> QED
      BY <3>1, <3>2
  <2>2. ASSUME Agreed', NEW p \in Requests, NEW q \in Requests, s(p).pc # "off", s(q).pc # "off"
        PROVE  /\ s(p).n = s(q).n /\ s(p).prefix = s(q).prefix /\ s(p).code = 0
               /\ Host!Failed(s(p).items) = {}
    <3>1. y(p).pc # "off" /\ y(q).pc # "off"
      BY <2>1, <2>2
    <3>2. y(p).n = y(q).n /\ y(p).prefix = y(q).prefix /\ y(p).code = 0 /\ Host!Failed(y(p).items) = {}
      BY <2>2, <3>1 DEF Agreed, Host!Failed
    <3>3. /\ y(p).n = s(p).n /\ y(p).prefix = s(p).prefix /\ s(p).code = 0
          /\ Host!Failed(s(p).items) \subseteq Host!Failed(y(p).items)
      BY <2>1, <2>2, <3>2
    <3>4. y(q).n = s(q).n /\ y(q).prefix = s(q).prefix
      BY <2>1, <2>2
    <3> QED
      BY <3>2, <3>3, <3>4
  <2>3. Agreed' => ~ subject.byhand
    BY DEF Agreed
  <2> QED
    BY <2>2, <2>3 DEF Agreed
<1>4. ASSUME NEW q \in Requests
      PROVE  /\ ScriptOK(y(q)) /\ (y(q).pc = "start" => subject'.env[y(q).at] # "none")
             /\ Begins(y(q)) /\ (y(q).alone \/ Agreed') => Achieves(y(q))
             /\ Begins(y(q)) /\ y(q).alone => Keeps(y(q))
  <2>1. CASE q = r
    BY <1>3, <2>1
  <2>2. CASE q # r /\ s(q).pc = "off"
    BY <1>2, <2>2 DEF Begins, ScriptOK
  <2>4. ASSUME q # r, s(q).pc = "start" PROVE subject'.env[s(q).at] # "none"
    <3>1. s(q).at \in Instances /\ subject.env[s(q).at] # "none"
      <4>1. s(q).at \in 1 .. s(q).n /\ s(q).n \in Instances
        BY <2>4 DEF HostHolds, ScriptOK
      <4> QED
        BY <2>4, <4>1, InstancesRange DEF HostHolds
    <3>2. x.prefix # "none" /\ x.n \in Nat /\ Instances \subseteq Nat
      BY HostAssumption, InstancesRange DEF ScriptOK, Continues
    <3>3. s(q).at <= x.n \/ s(q).at > x.n
      BY <3>1, <3>2
    <3> QED
      BY <3>1, <3>2, <3>3 DEF Benign
  <2>3. CASE q # r /\ s(q).pc # "off"
    <3>1. ASSUME Begins(y(q)), Agreed' PROVE Achieves(y(q))
      <4>1. Achieved(s(q), subject.env, subject.running, subject.enabled)
        BY <1>1, <1>3, <2>3, <3>1 DEF HostHolds, Begins
      <4>2. s(q).n = x.n /\ s(q).prefix = x.prefix
        <5>1. y(q).pc # "off" /\ y(r).pc # "off"
          BY <1>1, <2>3 DEF Continues
        <5>2. y(q).n = y(r).n /\ y(q).prefix = y(r).prefix
          BY <3>1, <5>1 DEF Agreed
        <5> QED
          BY <1>1, <2>3, <5>2
      <4>3. ScriptOK(s(q))
        BY DEF HostHolds
      <4>4. Achieved(s(q), subject'.env, subject'.running, subject'.enabled)
        BY <2>3, <4>1, <4>2, <4>3, AchievedKept
      <4> QED
        BY <1>1, <2>3, <4>4
    <3> QED
      BY <1>1, <2>3, <2>4, <3>1
  <2> QED
    BY <2>1, <2>2, <2>3
<1> QED
  BY <1>4 DEF HostHolds, Achieves, Keeps

\* A step of one script that nobody notices.
Unnoticed(r, x) ==
  /\ DOMAIN subject' = HostFields /\ subject'.env = subject.env /\ subject'.running = subject.running
  /\ subject'.enabled = subject.enabled /\ subject'.byhand = subject.byhand
  /\ subject'.script = [subject.script EXCEPT ![r] = x]

\* A step of a script that nobody notices.
LEMMA ScriptGoesOn ==
  ASSUME HostHolds, NEW r \in Requests, NEW x, Unnoticed(r, x), ScriptOK(x),
         subject.script[r].pc # "off", Continues(subject.script[r], x),
         x.pc = "start" => subject.env[x.at] # "none",
         Begins(x) /\ (x.alone \/ Agreed) => Achieves(x),
         Begins(x) /\ x.alone => Keeps(x)
  PROVE  HostHolds'
<1> DEFINE s(q) == subject.script[q]  y(q) == subject'.script[q]
<1>1. HostShape'
  BY DEF HostHolds, HostShape, Unnoticed
<1>2. y(r) = x /\ \A q \in Requests : q # r => y(q) = s(q)
  BY DEF Unnoticed, HostHolds, HostShape
<1>3. Agreed' => Agreed
  <2>1. ASSUME NEW q \in Requests, s(q).pc # "off"
        PROVE  /\ y(q).pc # "off" /\ y(q).n = s(q).n /\ y(q).prefix = s(q).prefix
               /\ y(q).code = 0 => s(q).code = 0
               /\ Host!Failed(s(q).items) \subseteq Host!Failed(y(q).items)
    <3>1. CASE q = r
      BY <1>2, <2>1, <3>1 DEF Continues
    <3>2. CASE q # r
      BY <1>2, <2>1, <3>2
    <3> QED
      BY <3>1, <3>2
  <2>2. ASSUME Agreed', NEW p \in Requests, NEW q \in Requests, s(p).pc # "off", s(q).pc # "off"
        PROVE  /\ s(p).n = s(q).n /\ s(p).prefix = s(q).prefix /\ s(p).code = 0
               /\ Host!Failed(s(p).items) = {}
    <3>1. y(p).pc # "off" /\ y(q).pc # "off"
      BY <2>1, <2>2
    <3>2. y(p).n = y(q).n /\ y(p).prefix = y(q).prefix /\ y(p).code = 0 /\ Host!Failed(y(p).items) = {}
      BY <2>2, <3>1 DEF Agreed, Host!Failed
    <3>3. /\ y(p).n = s(p).n /\ y(p).prefix = s(p).prefix /\ s(p).code = 0
          /\ Host!Failed(s(p).items) \subseteq Host!Failed(y(p).items)
      BY <2>1, <2>2, <3>2
    <3>4. y(q).n = s(q).n /\ y(q).prefix = s(q).prefix
      BY <2>1, <2>2
    <3> QED
      BY <3>2, <3>3, <3>4
  <2>3. Agreed' => ~ subject.byhand
    BY DEF Agreed, Unnoticed
  <2> QED
    BY <2>2, <2>3 DEF Agreed
<1>4. ASSUME NEW q \in Requests
      PROVE  /\ ScriptOK(y(q)) /\ (y(q).pc = "start" => subject'.env[y(q).at] # "none")
             /\ Begins(y(q)) /\ (y(q).alone \/ Agreed') => Achieves(y(q))
             /\ Begins(y(q)) /\ y(q).alone => Keeps(y(q))
  <2>1. CASE q = r
    BY <1>2, <1>3, <2>1 DEF Unnoticed
  <2>2. CASE q # r
    BY <1>2, <1>3, <2>2 DEF HostHolds, Achieves, Keeps, Unnoticed
  <2> QED
    BY <2>1, <2>2
<1> QED
  BY <1>1, <1>4 DEF HostHolds, Achieves, Keeps

\* An item that a script prints.
FailedOf(item) == IF item.status = "failed" THEN {item.instance} ELSE {}

\* What an appended item adds.
LEMMA ItemPrinted ==
  ASSUME NEW items \in Seq(Items), NEW item \in Items, NEW more, more = Append(items, item)
  PROVE  /\ more \in Seq(Items) /\ Len(more) = Len(items) + 1 /\ more[Len(items) + 1] = item
         /\ \A k \in 1 .. Len(items) : more[k] = items[k]
         /\ Host!Failed(more) = Host!Failed(items) \cup FailedOf(item)
<1>1. /\ more \in Seq(Items) /\ Len(more) = Len(items) + 1 /\ more[Len(items) + 1] = item
      /\ \A k \in 1 .. Len(items) : more[k] = items[k]
  OBVIOUS
<1>2. DOMAIN items = 1 .. Len(items) /\ DOMAIN more = 1 .. Len(items) + 1 /\ Len(items) \in Nat
  BY <1>1
<1>3. ASSUME NEW k \in DOMAIN more
      PROVE  (k \in DOMAIN items /\ more[k] = items[k]) \/ (k = Len(items) + 1 /\ more[k] = item)
  <2>1. k \in 1 .. Len(items) \/ k = Len(items) + 1
    BY <1>2
  <2> QED
    BY <1>1, <1>2, <2>1
<1>4. \A k \in DOMAIN items : k \in DOMAIN more /\ more[k] = items[k]
  BY <1>1, <1>2
<1>5. Len(items) + 1 \in DOMAIN more
  BY <1>2
<1>6. Host!Failed(more) = Host!Failed(items) \cup FailedOf(item)
  BY <1>1, <1>3, <1>4, <1>5 DEF Host!Failed, FailedOf
<1> QED
  BY <1>1, <1>6

\* An appended item adds the worker it fails for.
LEMMA ItemFails ==
  ASSUME NEW items \in Seq(Items), NEW item \in Items
  PROVE  Host!Failed(Append(items, item)) = Host!Failed(items) \cup FailedOf(item)
BY ItemPrinted

\* Items of the script are what it printed.
LEMMA ItemParsed ==
  ASSUME NEW action \in Host!ScaleActions, NEW status \in Host!ScaleStatuses, NEW i \in Nat,
         NEW item, item = Host!Item(action, status, i)
  PROVE  /\ Host!Parsed(item) = item /\ item \in Items
         /\ item.action = action /\ item.status = status /\ item.instance = i
         /\ FailedOf(item) = IF status = "failed" THEN {i} ELSE {}
<1>1. item \in Items /\ item.action = action /\ item.status = status /\ item.instance = i
  BY DEF Host!Item, Items
<1> QED
  BY <1>1 DEF Host!Parsed, FailedOf

\* The host after a step of a script: the host without it, and the script.
Leaves(t, h, r, x) ==
  /\ DOMAIN t = HostFields /\ t.env = h.env /\ t.running = h.running /\ t.enabled = h.enabled
  /\ t.byhand = h.byhand /\ Disturbs(t.script, r) /\ t.script[r] = x

\* The host but for its scripts.
BesideScripts(h) ==
  DOMAIN h = HostFields /\ h.script = subject.script /\ h.byhand = subject.byhand

\* A printed line leaves the host as it is but for the scripts.
LEMMA PrintLeaves ==
  ASSUME HostShape, NEW r \in Requests, NEW h, BesideScripts(h), NEW item, NEW pc,
         ScriptOK(subject.script[r]), subject.script[r].pc # "off",
         Host!Parsed(item) = item
  PROVE  Leaves(Host!Prints(h, r, item, pc), h, r,
                [subject.script[r] EXCEPT !.items = Append(subject.script[r].items, item), !.pc = pc])
<1> DEFINE s == subject.script[r]
<1>1. PICK t : t = Host!Touches(h, r)
  OBVIOUS
<1>2. /\ DOMAIN t = HostFields /\ t.env = h.env /\ t.running = h.running /\ t.enabled = h.enabled
      /\ t.byhand = h.byhand
      /\ t.script = [q \in Requests |-> IF q = r \/ subject.script[q].pc = "off" THEN subject.script[q]
                                        ELSE [subject.script[q] EXCEPT !.alone = FALSE]]
  BY <1>1 DEF Host!Touches, BesideScripts, HostFields
<1>3. t.script[r] = s /\ DOMAIN s = ScriptFields
  BY <1>2 DEF ScriptOK
<1>4. PICK x : x = [s EXCEPT !.items = Append(s.items, item), !.pc = pc]
  OBVIOUS
<1>5. PICK u : u = Host!Prints(h, r, item, pc)
  OBVIOUS
<1>6. u = [t EXCEPT !.script[r].items = Append(t.script[r].items, item), !.script[r].pc = pc]
  BY <1>1, <1>2, <1>5 DEF Host!Prints
<1>7. u = [t EXCEPT !.script = [t.script EXCEPT ![r] = x]]
  BY <1>2, <1>3, <1>4, <1>6 DEF HostFields, ScriptFields
<1>8. u.script = [t.script EXCEPT ![r] = x]
  BY <1>2, <1>7 DEF HostFields
<1>9. Disturbs(u.script, r) /\ u.script[r] = x
  BY <1>2, <1>8 DEF Disturbs
<1> QED
  BY <1>2, <1>4, <1>5, <1>7, <1>9 DEF Leaves, HostFields

\* More faults change nothing else.
LEMMA FaultsLeave ==
  ASSUME NEW t, NEW h, NEW r, NEW x, NEW spent, Leaves(t, h, r, x)
  PROVE  Leaves([t EXCEPT !.faults = spent], h, r, x)
BY DEF Leaves, HostFields

\* The script goes to another place after it has printed.
LEMMA PlaceLeaves ==
  ASSUME NEW t, NEW h, NEW r \in Requests, NEW x, NEW y, NEW script, Leaves(t, h, r, x),
         script = [t.script EXCEPT ![r] = y]
  PROVE  Leaves([t EXCEPT !.script = script], h, r, y)
<1>1. DOMAIN t.script = Requests /\ script[r] = y /\ DOMAIN script = Requests
      /\ \A q \in Requests \ {r} : script[q] = t.script[q]
  BY DEF Leaves, Disturbs
<1>2. Disturbs(script, r)
  BY <1>1 DEF Leaves, Disturbs
<1> QED
  BY <1>1, <1>2 DEF Leaves, HostFields

-----------------------------------------------------------------------------
\* A step of the plan that is printed, and an item that is none.
LEMMA StepPrinted ==
  ASSUME NEW s, NEW x, s.items \in Seq(Items), NEW item \in Items, NEW taken, Printed(s, taken),
         x.items = Append(s.items, item), x.plan = s.plan,
         item.action = s.plan[taken + 2].action, item.instance = s.plan[taken + 2].instance
  PROVE  Printed(x, taken + 1)
<1>1. PICK more : more = x.items
  OBVIOUS
<1>2. /\ Len(more) = Len(s.items) + 1 /\ more[Len(s.items) + 1] = item
      /\ \A k \in 1 .. Len(s.items) : more[k] = s.items[k]
  BY <1>1, ItemPrinted
<1>3. taken \in Nat /\ taken < Len(s.items) /\ Len(s.items) \in Nat
  BY DEF Printed
<1>4. PICK lead \in Nat : lead = Len(s.items) - taken
  BY <1>3
<1>5. Len(more) - (taken + 1) = lead /\ lead <= Len(s.items)
  BY <1>2, <1>3, <1>4
<1>6. \A k \in 1 .. lead : more[k].action = "skip"
  BY <1>2, <1>3, <1>4 DEF Printed
<1>7. ASSUME NEW k \in 1 .. taken + 1
      PROVE  more[lead + k].action = s.plan[k + 1].action /\ more[lead + k].instance = s.plan[k + 1].instance
  <2>1. CASE k = taken + 1
    <3>1. PICK len \in Nat : len = Len(s.items)
      BY <1>3
    <3>2. lead + taken = len /\ taken \in Nat
      BY <1>3, <1>4, <3>1
    <3>3. lead + (taken + 1) = len + 1 /\ taken + 1 + 1 = taken + 2
      BY <3>2
    <3>4. more[lead + (taken + 1)] = item
      BY <1>2, <3>1, <3>3
    <3> QED
      BY <2>1, <3>3, <3>4
  <2>2. CASE k \in 1 .. taken
    <3>1. lead + k \in 1 .. Len(s.items)
      BY <1>3, <1>4, <2>2
    <3>2. more[lead + k] = s.items[lead + k]
      BY <1>2, <3>1
    <3> QED
      BY <1>4, <2>2, <3>2 DEF Printed
  <2> QED
    BY <1>3, <2>1, <2>2
<1>8. taken + 1 \in Nat /\ taken + 1 < Len(more)
  BY <1>2, <1>3
<1> QED
  <2>1. \A k \in 1 .. Len(more) - (taken + 1) : more[k].action = "skip"
    BY <1>5, <1>6
  <2>2. \A k \in 1 .. taken + 1 :
          /\ more[Len(more) - (taken + 1) + k].action = s.plan[k + 1].action
          /\ more[Len(more) - (taken + 1) + k].instance = s.plan[k + 1].instance
    BY <1>5, <1>7
  <2> QED
    BY <1>1, <1>8, <2>1, <2>2 DEF Printed

\* An item that is no step, before the first step.
LEMMA SkipPrinted ==
  ASSUME NEW s, NEW x, s.items \in Seq(Items), NEW item \in Items, Printed(s, 0),
         x.items = Append(s.items, item), item.action = "skip"
  PROVE  Printed(x, 0)
<1>1. PICK more : more = x.items
  OBVIOUS
<1>2. /\ Len(more) = Len(s.items) + 1 /\ more[Len(s.items) + 1] = item
      /\ \A k \in 1 .. Len(s.items) : more[k] = s.items[k]
  BY <1>1, ItemPrinted
<1>3. \A k \in 1 .. Len(more) : more[k].action = "skip"
  BY <1>2 DEF Printed
<1> QED
  BY <1>1, <1>2, <1>3 DEF Printed

\* The plan fits as before when the script is further.
LEMMA PlanStill ==
  ASSUME NEW s, NEW x, NEW env, NEW next, PlanFits(s, env), x.n = s.n, x.plan = s.plan,
         Extra(next, s.n) = Extra(env, s.n),
         \A i \in 1 .. s.n :
           i \notin Ups(x) /\ ~ (x.pc = "start" /\ i = x.at) =>
             i \notin Ups(s) /\ ~ (s.pc = "start" /\ i = s.at) /\ next[i] = env[i]
  PROVE  PlanFits(x, next)
<1>1. /\ Len(x.plan) = 1 + 3 * x.n + 2 * Cardinality(Extra(next, x.n))
      /\ DOMAIN x.plan = 1 .. Len(x.plan) /\ x.plan[1].action = "skip"
  BY DEF PlanFits
<1>2. ASSUME NEW i \in 1 .. x.n
      PROVE  /\ x.plan[3 * i - 1].instance = i
             /\ i \notin Ups(x) /\ ~ (x.pc = "start" /\ i = x.at) =>
                  x.plan[3 * i - 1].action = IF next[i] # "none" THEN "update_env" ELSE "create_env"
             /\ x.plan[3 * i].action = "start_service" /\ x.plan[3 * i].instance = i
             /\ x.plan[3 * i + 1].action = "wait_heartbeat" /\ x.plan[3 * i + 1].instance = i
  BY DEF PlanFits
<1>3. ASSUME NEW i \in Extra(next, x.n), NEW k,
             k = 3 * x.n + 2 * Cardinality({j \in Extra(next, x.n) : j < i}) + 2
      PROVE  /\ x.plan[k].action = "stop_service" /\ x.plan[k].instance = i
             /\ x.plan[k + 1].action = "disable_service" /\ x.plan[k + 1].instance = i
  BY <1>3 DEF PlanFits
<1> QED
  BY <1>1, <1>2, <1>3 DEF PlanFits

\* What a script that prints an item may change.
Moves(r, h, s, x, item) ==
  /\ s = subject.script[r] /\ Leaves(subject', h, r, x) /\ BesideScripts(h)
  /\ item \in Items /\ x.items = Append(s.items, item)
  /\ x.n = s.n /\ x.prefix = s.prefix /\ x.plan = s.plan /\ x.before = s.before
  /\ x.alone = s.alone /\ x.code = s.code
  /\ s.pc \notin {"off", "ended"}

\* It is enough that the script that moves goes on doing what it should.
LEMMA MoveKeeps ==
  ASSUME HostHolds, NEW r \in Requests, NEW h, NEW s, NEW x, NEW item, Moves(r, h, s, x, item),
         HostShape', ScriptOK(x), x.pc # "off", Benign(s.n, s.prefix),
         x.pc = "start" => subject'.env[x.at] # "none",
         Achieves(s) => Achieves(x),
         Achieves(s) /\ Unmoved(s, subject.running) /\ PlanFits(s, subject.env)
           /\ Printed(s, Taken(s, subject.env)) => Keeps(x)
  PROVE  HostHolds'
<1>1. ScriptOK(s) /\ s.pc # "off" /\ s.code = 0
  BY DEF HostHolds, Moves, ScriptOK
<1>2. Host!Failed(s.items) \subseteq Host!Failed(x.items)
  <2>1. PICK items \in Seq(Items) : items = s.items
    BY <1>1 DEF ScriptOK
  <2>2. PICK more : more = x.items
    OBVIOUS
  <2>3. item \in Items /\ more = Append(items, item)
    BY <2>1, <2>2 DEF Moves
  <2>4. Host!Failed(more) = Host!Failed(items) \cup FailedOf(item)
    BY <2>3, ItemFails
  <2> QED
    BY <2>1, <2>2, <2>4
<1>3. Continues(s, x)
  BY <1>2 DEF Continues, Moves
<1>4. s.alone \/ Agreed => Achieves(s)
  <2>1. s.alone \/ Agreed => Achieved(s, subject.env, subject.running, subject.enabled)
    BY <1>1 DEF HostHolds, Moves, Begins
  <2> QED
    BY <1>1, <2>1, AchievedKept DEF Achieves
<1>5. s.alone => Unmoved(s, subject.running) /\ PlanFits(s, subject.env) /\ Printed(s, Taken(s, subject.env))
  BY <1>1 DEF HostHolds, Moves, Begins
<1>6. x.alone = s.alone /\ x.n = s.n /\ x.prefix = s.prefix /\ s = subject.script[r]
      /\ subject'.byhand = subject.byhand /\ Disturbs(subject'.script, r) /\ subject'.script[r] = x
  BY DEF Moves, Leaves, BesideScripts
<1> QED
  BY <1>3, <1>4, <1>5, <1>6, ScriptActs

\* The host stays as it is, or a worker that is asked for gets its env, or is started;
\* or a surplus worker is stopped or disabled.
LEMMA HostStays ==
  ASSUME HostShape, DOMAIN subject' = HostFields, DOMAIN subject'.script = Requests,
         subject'.env = subject.env, subject'.running = subject.running, subject'.enabled = subject.enabled,
         NEW n, NEW prefix
  PROVE  HostShape' /\ Benign(n, prefix)
BY DEF HostShape, Benign

\* A worker gets its env.
LEMMA EnvWritten ==
  ASSUME HostShape, DOMAIN subject' = HostFields, DOMAIN subject'.script = Requests, NEW i \in Instances,
         NEW n \in Instances, i <= n, NEW prefix \in Names, subject'.env = [subject.env EXCEPT ![i] = prefix],
         subject'.running = subject.running, subject'.enabled = subject.enabled
  PROVE  HostShape' /\ Benign(n, prefix)
<1>1. prefix # "none" /\ i \in Nat /\ n \in Nat /\ Instances \subseteq Nat
  BY HostAssumption, InstancesRange
<1>2. \A j \in Instances : subject'.env[j] = IF j = i THEN prefix ELSE subject.env[j]
  BY DEF HostShape
<1> QED
  BY <1>1, <1>2 DEF HostShape, Benign

\* A worker is started.
LEMMA WorkerStarted ==
  ASSUME HostShape, DOMAIN subject' = HostFields, DOMAIN subject'.script = Requests, NEW i \in Instances,
         NEW n \in Instances, i <= n, NEW prefix, subject.env[i] # "none",
         subject'.env = subject.env, subject'.enabled = subject.enabled \cup {i},
         subject'.running = [subject.running EXCEPT
           ![i] = IF subject.running[i] = "none" THEN subject.env[i] ELSE subject.running[i]]
  PROVE  HostShape' /\ Benign(n, prefix) /\ subject'.running[i] # "none"
<1>1. i \in Nat /\ n \in Nat /\ Instances \subseteq Nat
  BY InstancesRange
<1>2. \A j \in Instances : subject'.running[j] =
        IF j # i THEN subject.running[j]
        ELSE IF subject.running[i] = "none" THEN subject.env[i] ELSE subject.running[i]
  BY DEF HostShape
<1>3. HostShape'
  BY <1>2 DEF HostShape
<1> QED
  BY <1>1, <1>2, <1>3 DEF HostShape, Benign

\* A surplus worker is stopped, or disabled.
LEMMA WorkerStopped ==
  ASSUME HostShape, DOMAIN subject' = HostFields, DOMAIN subject'.script = Requests, NEW i \in Instances,
         NEW n \in Instances, i > n, NEW prefix, subject'.env = subject.env,
         \/ /\ subject'.running = [subject.running EXCEPT ![i] = "none"]
            /\ subject'.enabled = subject.enabled
         \/ /\ subject'.running = subject.running
            /\ subject'.enabled = subject.enabled \ {i}
  PROVE  HostShape' /\ Benign(n, prefix)
<1>1. i \in Nat /\ n \in Nat /\ Instances \subseteq Nat
  BY InstancesRange
<1>2. \A j \in Instances : j # i => subject'.running[j] = subject.running[j]
                                    /\ (j \in subject'.enabled <=> j \in subject.enabled)
  BY DEF HostShape
<1>3. subject'.running[i] = subject.running[i] \/ subject'.running[i] = "none"
  BY DEF HostShape
<1>4. subject'.enabled \subseteq subject.enabled /\ DOMAIN subject'.running = Instances
  BY DEF HostShape
<1>5. HostShape'
  BY <1>2, <1>3, <1>4 DEF HostShape
<1>6. \A j \in Instances : j <= n => j # i
  BY <1>1
<1>7. Benign(n, prefix)
  BY <1>2, <1>3, <1>4, <1>6 DEF Benign
<1> QED
  BY <1>5, <1>7

\* A script at its next place.
NextPlace(s, x, item, pc, at, todo) ==
  /\ DOMAIN x = ScriptFields /\ x.pc = pc /\ x.at = at /\ x.todo = todo
  /\ x.n = s.n /\ x.prefix = s.prefix /\ x.plan = s.plan /\ x.before = s.before
  /\ x.alone = s.alone /\ x.code = s.code
  /\ item \in Items /\ x.items = Append(s.items, item)

\* The items of a script at its next place.
LEMMA NextItems ==
  ASSUME NEW s, ScriptOK(s), s.pc # "off", NEW x, NEW item, NEW pc, NEW at, NEW todo,
         NextPlace(s, x, item, pc, at, todo)
  PROVE  /\ x.items \in Seq(Items) /\ Host!Failed(x.items) = Host!Failed(s.items) \cup FailedOf(item)
         /\ x.n \in Instances /\ x.prefix \in Names /\ s.items \in Seq(Items)
<1>1. PICK items \in Seq(Items) : items = s.items
  BY DEF ScriptOK
<1>2. PICK more : more = x.items
  OBVIOUS
<1>3. item \in Items /\ more = Append(items, item)
  BY <1>1, <1>2 DEF NextPlace
<1>4. more \in Seq(Items) /\ Host!Failed(more) = Host!Failed(items) \cup FailedOf(item)
  BY <1>3, ItemPrinted
<1> QED
  BY <1>1, <1>2, <1>4 DEF NextPlace, ScriptOK

\* A line is printed by a script: it moves.
LEMMA PrintMoves ==
  ASSUME HostHolds, NEW r \in Requests, NEW s, s = subject.script[r], s.pc \notin {"off", "ended"},
         NEW h, BesideScripts(h), NEW item \in Items, Host!Parsed(item) = item, NEW pc, NEW t,
         t = Host!Prints(h, r, item, pc), subject' = t \/ \E spent : subject' = [t EXCEPT !.faults = spent]
  PROVE  \E x : Moves(r, h, s, x, item) /\ NextPlace(s, x, item, pc, s.at, s.todo)
<1>1. PICK x : x = [s EXCEPT !.items = Append(s.items, item), !.pc = pc]
  OBVIOUS
<1>2. ScriptOK(s) /\ DOMAIN s = ScriptFields /\ HostShape
  BY DEF HostHolds, ScriptOK
<1>3. Leaves(t, h, r, x)
  BY <1>1, <1>2, PrintLeaves
<1>4. Leaves(subject', h, r, x)
  BY <1>3, FaultsLeave
<1>5. NextPlace(s, x, item, pc, s.at, s.todo)
  BY <1>1, <1>2 DEF NextPlace, ScriptFields
<1>6. Moves(r, h, s, x, item)
  BY <1>4, <1>5 DEF Moves, NextPlace
<1> QED
  BY <1>5, <1>6

\* The host is that of the step, but for the scripts.
LEMMA MovesHost ==
  ASSUME NEW r, NEW h, NEW s, NEW x, NEW item, Moves(r, h, s, x, item)
  PROVE  /\ DOMAIN subject' = HostFields /\ DOMAIN subject'.script = Requests
         /\ subject'.env = h.env /\ subject'.running = h.running /\ subject'.enabled = h.enabled
BY DEF Moves, Leaves, Disturbs

\* Before the first worker.
LEMMA LeadKeeps ==
  ASSUME HostHolds, NEW r \in Requests, NEW h, NEW s, NEW x, NEW item, NEW pc,
         Moves(r, h, s, x, item), NextPlace(s, x, item, pc, s.at, s.todo),
         s.pc \in {"unit", "reload"}, pc \in {"reload", "env"}, item.action = "skip",
         h.env = subject.env, h.running = subject.running, h.enabled = subject.enabled
  PROVE  HostHolds'
<1>1. ScriptOK(s) /\ HostShape /\ s.at = 1 /\ s.pc # "off"
  BY DEF HostHolds, Moves, ScriptOK
<1>2. s.n \in Instances /\ s.n \in Nat /\ 1 \in 1 .. s.n
  BY <1>1, InstancesRange DEF ScriptOK
<1>3. HostShape' /\ Benign(s.n, s.prefix)
  BY <1>1, MovesHost, HostStays
<1>4. x.pc = pc /\ x.at = 1 /\ x.n = s.n /\ x.code = s.code /\ DOMAIN x = ScriptFields /\ s.code = 0
  BY <1>1 DEF NextPlace, ScriptOK
<1>5. ScriptOK(x)
  BY <1>1, <1>2, <1>4, NextItems DEF ScriptOK
<1>6. Ups(x) = {} /\ Ups(s) = {} /\ \A env : Downs(x, env) = {}
  BY <1>2, <1>4 DEF Ups, Downs
<1>7. Achieves(x)
  BY <1>4, <1>6 DEF Achieves, Achieved
<1>8. ASSUME Unmoved(s, subject.running), PlanFits(s, subject.env), Printed(s, Taken(s, subject.env))
      PROVE  Keeps(x)
  <2>0. Host!Failed(x.items) = Host!Failed(s.items) \cup FailedOf(item) /\ s.items \in Seq(Items)
    BY <1>1, NextItems
  <2>1. Host!Failed(s.items) \subseteq Host!Failed(x.items) /\ s.items \in Seq(Items)
    BY <2>0
  <2>2. Unmoved(x, subject'.running)
    BY <1>4, <1>6, <1>8, <2>1, MovesHost DEF Unmoved, NextPlace
  <2>3. PlanFits(x, subject'.env)
    <3>1. x.plan = s.plan /\ subject'.env = subject.env
      BY MovesHost DEF NextPlace
    <3> QED
      BY <1>4, <1>6, <1>8, <3>1, PlanStill
  <2>4. Taken(s, subject.env) = 0 /\ Taken(x, subject'.env) = 0
    BY <1>4 DEF Taken
  <2>5. Printed(x, 0)
    <3>1. Printed(s, 0)
      BY <1>8, <2>4
    <3>2. item \in Items /\ x.items = Append(s.items, item)
      BY DEF NextPlace
    <3> QED
      BY <2>1, <3>1, <3>2, SkipPrinted
  <2> QED
    BY <2>2, <2>3, <2>4, <2>5 DEF Keeps
<1>9. x.pc # "off" /\ x.pc # "start"
  BY <1>4
<1> QED
  BY <1>3, <1>5, <1>7, <1>8, <1>9, MoveKeeps

\* The unit is installed, or it cannot be; systemd reads it.
LEMMA UnitKeeps ==
  ASSUME HostHolds, NEW r \in Requests, Host!InstallUnit(r) \/ Host!Reload(r)
  PROVE  HostHolds'
<1> USE DEF Host!Becomes, Host!Script
<1> DEFINE s == subject.script[r]
<1>s. DOMAIN subject = HostFields
  BY DEF HostHolds, HostShape
<1>1. ASSUME NEW h, BesideScripts(h), NEW pc \in {"reload", "env"}, NEW status \in Host!ScaleStatuses, NEW t,
             t = Host!Prints(h, r, Host!Item("skip", status, 0), pc),
             subject' = t \/ \E spent : subject' = [t EXCEPT !.faults = spent],
             h.env = subject.env, h.running = subject.running, h.enabled = subject.enabled,
             s.pc \in {"unit", "reload"}
      PROVE  HostHolds'
  <2>1. PICK item : item = Host!Item("skip", status, 0)
    OBVIOUS
  <2>2. Host!Parsed(item) = item /\ item \in Items /\ item.action = "skip"
    BY <2>1, ItemParsed DEF Host!ScaleActions
  <2>3. PICK x : Moves(r, h, s, x, item) /\ NextPlace(s, x, item, pc, s.at, s.todo)
    BY <1>1, <2>1, <2>2, PrintMoves
  <2> QED
    BY <1>1, <2>2, <2>3, LeadKeeps
<1>2. BesideScripts(subject) /\ Host!NoInstance = 0 /\ {"ok", "warning", "failed"} \subseteq Host!ScaleStatuses
  BY <1>s DEF BesideScripts, Host!NoInstance, Host!ScaleStatuses
<1>3. CASE Host!InstallUnit(r)
  <2>1. CASE subject.template
    <3>1. PICK h : h = [subject EXCEPT !.unit = TRUE]
      OBVIOUS
    <3>2. BesideScripts(h) /\ h.env = subject.env /\ h.running = subject.running /\ h.enabled = subject.enabled
      BY <1>s, <3>1 DEF BesideScripts, HostFields
    <3>3. subject' = Host!Prints(h, r, Host!Item("skip", "ok", 0), "reload") /\ s.pc = "unit"
      BY <1>2, <1>3, <2>1, <3>1 DEF Host!InstallUnit
    <3> QED
      BY <1>1, <1>2, <3>2, <3>3
  <2>2. CASE ~ subject.template
    <3>1. subject' = Host!Prints(subject, r, Host!Item("skip", "warning", 0), "env") /\ s.pc = "unit"
      BY <1>2, <1>3, <2>2 DEF Host!InstallUnit
    <3> QED
      BY <1>1, <1>2, <3>1
  <2> QED
    BY <2>1, <2>2
<1>4. CASE Host!Reload(r)
  <2>1. /\ s.pc = "reload"
        /\ \/ subject' = Host!Prints(subject, r, Host!Item("skip", "ok", 0), "env")
           \/ \E spent : subject' = [Host!Prints(subject, r, Host!Item("skip", "failed", 0), "env")
                                        EXCEPT !.faults = spent]
    <3>1. CASE subject' = Host!Prints(subject, r, Host!Item("skip", "ok", 0), "env")
      BY <1>4, <3>1 DEF Host!Reload
    <3>2. CASE subject' # Host!Prints(subject, r, Host!Item("skip", "ok", 0), "env")
      <4>1. PICK t : t = Host!Prints(subject, r, Host!Item("skip", "failed", 0), "env")
        OBVIOUS
      <4>2. subject' = [t EXCEPT !.faults = t.faults + 1] /\ s.pc = "reload"
        BY <1>2, <1>4, <3>2, <4>1 DEF Host!Reload, Host!Runs
      <4> QED
        BY <4>1, <4>2
    <3> QED
      BY <3>1, <3>2
  <2> QED
    BY <1>1, <1>2, <2>1
<1> QED
  BY <1>3, <1>4

\* The env of a worker that is asked for.
LEMMA EnvKeeps ==
  ASSUME HostHolds, NEW r \in Requests, Host!WriteEnv(r)
  PROVE  HostHolds'
<1> USE DEF Host!Becomes, Host!Script
<1> DEFINE s == subject.script[r]  i == s.at
<1>1. s.pc = "env" /\ s.pc # "off"
  BY DEF Host!WriteEnv
<1>2. ScriptOK(s) /\ HostShape /\ DOMAIN subject = HostFields
  BY DEF HostHolds, HostShape
<1>3. i \in 1 .. s.n /\ s.n \in Instances /\ s.code = 0 /\ s.prefix \in Names
  BY <1>1, <1>2 DEF ScriptOK
<1>4. i \in Instances /\ i \in Nat /\ s.n \in Nat /\ i <= s.n
  BY <1>3, InstancesRange
<1>5. PICK action : action = IF subject.env[i] # "none" THEN "update_env" ELSE "create_env"
  OBVIOUS
<1>6. PICK item : item = Host!Item(action, "ok", i)
  OBVIOUS
<1>7. Host!Parsed(item) = item /\ item \in Items /\ item.action = action /\ item.instance = i /\ FailedOf(item) = {}
  <2>1. action \in Host!ScaleActions /\ "ok" \in Host!ScaleStatuses
    BY <1>5 DEF Host!ScaleActions, Host!ScaleStatuses
  <2> QED
    BY <1>4, <1>6, <2>1, ItemParsed
<1>8. PICK h : h = [subject EXCEPT !.env[i] = s.prefix]
  OBVIOUS
<1>9. BesideScripts(h) /\ h.env = [subject.env EXCEPT ![i] = s.prefix] /\ h.running = subject.running
      /\ h.enabled = subject.enabled
  BY <1>2, <1>8 DEF BesideScripts, HostFields
<1>10. subject' = Host!Prints(h, r, item, "start")
  BY <1>5, <1>6, <1>8 DEF Host!WriteEnv, Host!None
<1>11. PICK x : Moves(r, h, s, x, item) /\ NextPlace(s, x, item, "start", i, s.todo)
  BY <1>1, <1>7, <1>9, <1>10, PrintMoves
<1>12. HostShape' /\ Benign(s.n, s.prefix)
  BY <1>2, <1>3, <1>4, <1>9, <1>11, MovesHost, EnvWritten
<1>13. /\ x.pc = "start" /\ x.at = i /\ x.n = s.n /\ x.code = 0 /\ DOMAIN x = ScriptFields
       /\ x.prefix = s.prefix /\ x.plan = s.plan /\ x.before = s.before
       /\ x.items = Append(s.items, item)
  BY <1>3, <1>11 DEF NextPlace
<1>14. ScriptOK(x)
  BY <1>2, <1>1, <1>3, <1>11, <1>13, NextItems DEF ScriptOK
<1>15. Ups(x) = Ups(s) /\ \A env : Downs(x, env) = {} /\ Downs(s, env) = {}
  BY <1>1, <1>13 DEF Ups, Downs
<1>15a. Host!Failed(x.items) = Host!Failed(s.items) \cup FailedOf(item) /\ s.items \in Seq(Items)
  BY <1>1, <1>2, <1>11, NextItems
<1>16. Host!Failed(x.items) = Host!Failed(s.items) /\ s.items \in Seq(Items)
  BY <1>7, <1>15a
<1>17. subject'.env[i] = s.prefix /\ subject'.running = subject.running
       /\ \A j \in Instances : j # i => subject'.env[j] = subject.env[j]
  BY <1>2, <1>4, <1>9, <1>11, MovesHost DEF HostShape
<1>18. ASSUME Achieves(s) PROVE Achieves(x)
  BY <1>13, <1>15, <1>16, <1>17, <1>18 DEF Achieves, Achieved
<1>19. ASSUME Unmoved(s, subject.running), PlanFits(s, subject.env), Printed(s, Taken(s, subject.env))
       PROVE  Keeps(x)
  <2>1. Unmoved(x, subject'.running)
    BY <1>13, <1>15, <1>16, <1>17, <1>19 DEF Unmoved
  <2>2. PlanFits(x, subject'.env)
    <3>1. Extra(subject'.env, s.n) = Extra(subject.env, s.n)
      BY <1>12 DEF Extra, Benign
    <3>2. \A j \in 1 .. s.n :
            j \notin Ups(x) /\ ~ (x.pc = "start" /\ j = x.at) =>
              j \notin Ups(s) /\ ~ (s.pc = "start" /\ j = s.at) /\ subject'.env[j] = subject.env[j]
      <4>1. \A j \in 1 .. s.n : j \in Instances
        BY <1>3, InstancesRange
      <4> QED
        BY <1>1, <1>13, <1>15, <1>17, <4>1
    <3> QED
      BY <1>13, <1>19, <3>1, <3>2, PlanStill
  <2>3. PICK taken : taken = 3 * i - 3
    OBVIOUS
  <2>4. Taken(s, subject.env) = taken /\ Taken(x, subject'.env) = taken + 1 /\ taken + 2 = 3 * i - 1
    <3>1. Taken(s, subject.env) = 3 * i - 3 /\ Taken(x, subject'.env) = 3 * i - 2
      BY <1>1, <1>13 DEF Taken
    <3> QED
      BY <1>4, <2>3, <3>1
  <2>5. s.plan[3 * i - 1].instance = i /\ s.plan[3 * i - 1].action = action
    <3>1. i \notin Ups(s)
      BY <1>1, <1>4 DEF Ups
    <3>2. \A j \in 1 .. s.n :
            /\ s.plan[3 * j - 1].instance = j
            /\ j \notin Ups(s) /\ ~ (s.pc = "start" /\ j = s.at) =>
                 s.plan[3 * j - 1].action = IF subject.env[j] # "none" THEN "update_env" ELSE "create_env"
      BY <1>19 DEF PlanFits
    <3>3. ~ (s.pc = "start" /\ i = s.at)
      BY <1>1
    <3>4. /\ s.plan[3 * i - 1].instance = i
          /\ s.plan[3 * i - 1].action = IF subject.env[i] # "none" THEN "update_env" ELSE "create_env"
      BY <1>3, <3>1, <3>2, <3>3
    <3> QED
      BY <1>5, <3>4
  <2>6. Printed(x, taken + 1)
    <3>1. Printed(s, taken)
      BY <1>19, <2>4
    <3>2. item.action = s.plan[taken + 2].action /\ item.instance = s.plan[taken + 2].instance
      BY <1>7, <2>4, <2>5
    <3> QED
      BY <1>7, <1>13, <1>16, <3>1, <3>2, StepPrinted
  <2> QED
    BY <2>1, <2>2, <2>4, <2>6 DEF Keeps
<1>20. x.pc # "off" /\ subject'.env[x.at] # "none"
  BY <1>3, <1>13, <1>17, HostAssumption
<1> QED
  BY <1>11, <1>12, <1>14, <1>18, <1>19, <1>20, MoveKeeps

\* A worker that is asked for is started, or that fails, with or without effect.
LEMMA StartKeeps ==
  ASSUME HostHolds, NEW r \in Requests, NEW h, NEW s, NEW x, NEW item,
         Moves(r, h, s, x, item), NextPlace(s, x, item, "heartbeat", s.at, s.todo),
         s.pc = "start", item.action = "start_service", item.instance = s.at,
         h.env = subject.env,
         \/ /\ h.enabled = subject.enabled \cup {s.at}
            /\ h.running = [subject.running EXCEPT
                 ![s.at] = IF subject.running[s.at] = "none" THEN subject.env[s.at] ELSE subject.running[s.at]]
         \/ h.enabled = subject.enabled /\ h.running = subject.running /\ FailedOf(item) = {s.at}
  PROVE  HostHolds'
<1> DEFINE i == s.at
<1>1. ScriptOK(s) /\ HostShape /\ s.pc # "off" /\ subject.env[i] # "none"
  BY DEF HostHolds, Moves
<1>2. i \in 1 .. s.n /\ s.n \in Instances /\ s.code = 0
  BY <1>1 DEF ScriptOK
<1>3. i \in Instances /\ i \in Nat /\ s.n \in Nat /\ i <= s.n
  BY <1>2, InstancesRange
<1>4. /\ x.pc = "heartbeat" /\ x.at = i /\ x.n = s.n /\ x.code = 0 /\ DOMAIN x = ScriptFields
      /\ x.prefix = s.prefix /\ x.plan = s.plan /\ x.before = s.before
      /\ x.items = Append(s.items, item) /\ item \in Items
  BY <1>2 DEF NextPlace
<1>5. ScriptOK(x)
  BY <1>1, <1>2, <1>4, NextItems DEF ScriptOK
<1>6. Ups(x) = Ups(s) \cup {i} /\ i \notin Ups(s) /\ \A env : Downs(x, env) = {} /\ Downs(s, env) = {}
  BY <1>2, <1>3, <1>4 DEF Ups, Downs
<1>7. Host!Failed(x.items) = Host!Failed(s.items) \cup FailedOf(item) /\ s.items \in Seq(Items)
  BY <1>1, NextItems
<1>8. CASE /\ h.enabled = subject.enabled \cup {i}
           /\ h.running = [subject.running EXCEPT
                ![i] = IF subject.running[i] = "none" THEN subject.env[i] ELSE subject.running[i]]
  <2>1. HostShape' /\ Benign(s.n, s.prefix) /\ subject'.running[i] # "none"
    BY <1>1, <1>2, <1>3, <1>8, MovesHost, WorkerStarted
  <2>2. i \in subject'.enabled /\ subject'.env = subject.env
        /\ \A j \in Instances : subject'.running[j] =
             IF j = i /\ subject.running[i] = "none" THEN subject.env[i] ELSE subject.running[j]
    BY <1>1, <1>8, MovesHost DEF HostShape
  <2>3. ASSUME Achieves(s) PROVE Achieves(x)
    <3>1. subject'.env[i] = s.prefix
      BY <2>3 DEF Achieves, Achieved
    <3>2. ASSUME NEW j \in Ups(x) \ Host!Failed(x.items)
          PROVE  subject'.env[j] = x.prefix /\ j \in subject'.enabled /\ subject'.running[j] # "none"
      <4>1. CASE j = i
        BY <1>4, <2>1, <2>2, <3>1, <4>1
      <4>2. CASE j # i
        BY <1>4, <1>6, <1>7, <2>3, <4>2 DEF Achieves, Achieved
      <4> QED
        BY <4>1, <4>2
    <3> QED
      BY <1>4, <1>6, <3>2 DEF Achieves, Achieved
  <2>4. ASSUME Achieves(s), Unmoved(s, subject.running) PROVE Unmoved(x, subject'.running)
    <3>1. subject.env[i] = s.prefix
      BY <2>2, <2>4 DEF Achieves, Achieved
    <3>2. ASSUME NEW j \in (1 .. s.n) \ Host!Failed(x.items)
          PROVE  subject'.running[j] = IF j \in Ups(x) /\ s.before[j] = "none" THEN s.prefix ELSE s.before[j]
      <4>1. j \in Instances
        BY <1>2, InstancesRange
      <4>2. subject.running[j] = IF j \in Ups(s) /\ s.before[j] = "none" THEN s.prefix ELSE s.before[j]
        BY <1>7, <2>4 DEF Unmoved
      <4>3. CASE j = i
        BY <1>6, <2>2, <3>1, <4>1, <4>2, <4>3
      <4>4. CASE j # i
        BY <1>6, <2>2, <4>1, <4>2, <4>4
      <4> QED
        BY <4>3, <4>4
    <3> QED
      BY <1>4, <3>2 DEF Unmoved
  <2>5. ASSUME PlanFits(s, subject.env), Printed(s, Taken(s, subject.env))
        PROVE  PlanFits(x, subject'.env) /\ Printed(x, Taken(x, subject'.env))
    <3>1. PlanFits(x, subject'.env)
      <4>1. \A j \in 1 .. s.n :
              j \notin Ups(x) /\ ~ (x.pc = "start" /\ j = x.at) =>
                j \notin Ups(s) /\ ~ (s.pc = "start" /\ j = s.at) /\ subject'.env[j] = subject.env[j]
        BY <1>6, <2>2
      <4> QED
        BY <1>4, <2>2, <2>5, <4>1, PlanStill
    <3>2. PICK taken : taken = 3 * i - 2
      OBVIOUS
    <3>3. Taken(s, subject.env) = taken /\ Taken(x, subject'.env) = taken + 1 /\ taken + 2 = 3 * i
      <4>1. Taken(s, subject.env) = 3 * i - 2 /\ Taken(x, subject'.env) = 3 * i - 1
        BY <1>4 DEF Taken
      <4> QED
        BY <1>3, <3>2, <4>1
    <3>4. s.plan[3 * i].action = "start_service" /\ s.plan[3 * i].instance = i
      <4>1. \A j \in 1 .. s.n : s.plan[3 * j].action = "start_service" /\ s.plan[3 * j].instance = j
        BY <2>5 DEF PlanFits
      <4> QED
        BY <1>2, <4>1
    <3>5. Printed(s, taken)
      BY <2>5, <3>3
    <3>6. item.action = s.plan[taken + 2].action /\ item.instance = s.plan[taken + 2].instance
      BY <3>3, <3>4
    <3> QED
      BY <1>4, <1>7, <3>1, <3>3, <3>5, <3>6, StepPrinted
  <2>6. x.pc # "off" /\ x.pc # "start"
    BY <1>4
  <2> QED
    BY <1>5, <2>1, <2>3, <2>4, <2>5, <2>6, MoveKeeps DEF Keeps
<1>9. CASE h.enabled = subject.enabled /\ h.running = subject.running /\ FailedOf(item) = {i}
  <2>1. HostShape' /\ Benign(s.n, s.prefix)
    BY <1>1, <1>9, MovesHost, HostStays
  <2>2. subject'.enabled = subject.enabled /\ subject'.env = subject.env /\ subject'.running = subject.running
    BY <1>9, MovesHost
  <2>3. ASSUME Achieves(s) PROVE Achieves(x)
    <3>1. ASSUME NEW j \in Ups(x) \ Host!Failed(x.items)
          PROVE  subject'.env[j] = x.prefix /\ j \in subject'.enabled /\ subject'.running[j] # "none"
      BY <1>4, <1>6, <1>7, <1>9, <2>3 DEF Achieves, Achieved
    <3> QED
      BY <1>4, <1>6, <3>1 DEF Achieves, Achieved
  <2>4. ASSUME Unmoved(s, subject.running) PROVE Unmoved(x, subject'.running)
    BY <1>4, <1>6, <1>7, <1>9, <2>2, <2>4 DEF Unmoved
  <2>5. ASSUME PlanFits(s, subject.env), Printed(s, Taken(s, subject.env))
        PROVE  PlanFits(x, subject'.env) /\ Printed(x, Taken(x, subject'.env))
    <3>1. PlanFits(x, subject'.env)
      <4>1. \A j \in 1 .. s.n :
              j \notin Ups(x) /\ ~ (x.pc = "start" /\ j = x.at) =>
                j \notin Ups(s) /\ ~ (s.pc = "start" /\ j = s.at) /\ subject'.env[j] = subject.env[j]
        BY <1>6, <2>2
      <4> QED
        BY <1>4, <2>2, <2>5, <4>1, PlanStill
    <3>2. PICK taken : taken = 3 * i - 2
      OBVIOUS
    <3>3. Taken(s, subject.env) = taken /\ Taken(x, subject'.env) = taken + 1 /\ taken + 2 = 3 * i
      <4>1. Taken(s, subject.env) = 3 * i - 2 /\ Taken(x, subject'.env) = 3 * i - 1
        BY <1>4 DEF Taken
      <4> QED
        BY <1>3, <3>2, <4>1
    <3>4. s.plan[3 * i].action = "start_service" /\ s.plan[3 * i].instance = i
      <4>1. \A j \in 1 .. s.n : s.plan[3 * j].action = "start_service" /\ s.plan[3 * j].instance = j
        BY <2>5 DEF PlanFits
      <4> QED
        BY <1>2, <4>1
    <3>5. Printed(s, taken)
      BY <2>5, <3>3
    <3>6. item.action = s.plan[taken + 2].action /\ item.instance = s.plan[taken + 2].instance
      BY <3>3, <3>4
    <3> QED
      BY <1>4, <1>7, <3>1, <3>3, <3>5, <3>6, StepPrinted
  <2>6. x.pc # "off" /\ x.pc # "start"
    BY <1>4
  <2> QED
    BY <1>5, <2>1, <2>3, <2>4, <2>5, <2>6, MoveKeeps DEF Keeps
<1> QED
  BY <1>8, <1>9

\* systemd starts a service, or does not know it, or fails.
LEMMA ServiceKeeps ==
  ASSUME HostHolds, NEW r \in Requests, Host!StartService(r)
  PROVE  HostHolds'
<1> USE DEF Host!Becomes, Host!Script
<1> DEFINE s == subject.script[r]  i == s.at
<1>1. s.pc = "start"
  BY DEF Host!StartService
<1>2. ScriptOK(s) /\ HostShape /\ DOMAIN subject = HostFields
  BY DEF HostHolds, HostShape
<1>3. i \in Nat /\ s.pc \notin {"off", "ended"}
  BY <1>1, <1>2, InstancesRange DEF ScriptOK
<1>4. PICK started : started = Host!Started(i)
  OBVIOUS
<1>5. /\ BesideScripts(started) /\ started.env = subject.env
      /\ started.enabled = subject.enabled \cup {i}
      /\ started.running = [subject.running EXCEPT
           ![i] = IF subject.running[i] = "none" THEN subject.env[i] ELSE subject.running[i]]
  BY <1>2, <1>4 DEF Host!Started, BesideScripts, HostFields, Host!None
<1>6. BesideScripts(subject)
  BY <1>2 DEF BesideScripts
<1>7. ASSUME NEW h, BesideScripts(h), h.env = subject.env, NEW status \in {"ok", "failed"}, NEW t,
             t = Host!Prints(h, r, Host!Item("start_service", status, i), "heartbeat"),
             subject' = t \/ \E spent : subject' = [t EXCEPT !.faults = spent],
             h = started \/ (h = subject /\ status = "failed")
      PROVE  HostHolds'
  <2>1. PICK item : item = Host!Item("start_service", status, i)
    OBVIOUS
  <2>2. Host!Parsed(item) = item /\ item \in Items /\ item.action = "start_service" /\ item.instance = i
        /\ FailedOf(item) = IF status = "failed" THEN {i} ELSE {}
    <3>1. "start_service" \in Host!ScaleActions /\ status \in Host!ScaleStatuses
      BY DEF Host!ScaleActions, Host!ScaleStatuses
    <3> QED
      <4>1. PICK at \in Nat : at = i
        BY <1>3
      <4>2. PICK action \in Host!ScaleActions : action = "start_service"
        BY <3>1
      <4>3. item = Host!Item(action, status, at)
        BY <2>1, <4>1, <4>2
      <4>4. /\ Host!Parsed(item) = item /\ item \in Items /\ item.action = action /\ item.instance = at
            /\ item.status = status
        BY <3>1, <4>1, <4>3, ItemParsed
      <4>5. FailedOf(item) = IF status = "failed" THEN {at} ELSE {}
        BY <4>4 DEF FailedOf
      <4> QED
        BY <4>1, <4>2, <4>4, <4>5
  <2>3. PICK x : Moves(r, h, s, x, item) /\ NextPlace(s, x, item, "heartbeat", i, s.todo)
    BY <1>3, <1>7, <2>1, <2>2, PrintMoves
  <2>4. CASE h = started
    BY <1>1, <1>5, <2>2, <2>3, <2>4, StartKeeps
  <2>5. CASE h = subject /\ status = "failed"
    BY <1>1, <2>2, <2>3, <2>5, StartKeeps
  <2> QED
    BY <1>7, <2>4, <2>5
<1>8. CASE ~ subject.unit
  <2>1. subject' = Host!Prints(subject, r, Host!Item("start_service", "failed", i), "heartbeat")
    BY <1>8 DEF Host!StartService
  <2> QED
    BY <1>6, <1>7, <2>1
<1>9. CASE subject.unit
  <2>1. Host!Runs(r, "start_service", i, "heartbeat", started)
    BY <1>4, <1>9 DEF Host!StartService
  <2>2. CASE subject' = Host!Prints(started, r, Host!Item("start_service", "ok", i), "heartbeat")
    <3>1. PICK t : t = Host!Prints(started, r, Host!Item("start_service", "ok", i), "heartbeat")
      OBVIOUS
    <3>2. "ok" \in {"ok", "failed"} /\ subject' = t
      BY <2>2, <3>1
    <3> QED
      BY <1>5, <1>7, <3>1, <3>2
  <2>3. CASE subject' # Host!Prints(started, r, Host!Item("start_service", "ok", i), "heartbeat")
    <3>1. PICK h \in {subject, started} :
            subject' = [Host!Prints(h, r, Host!Item("start_service", "failed", i), "heartbeat")
                          EXCEPT !.faults = Host!Prints(h, r, Host!Item("start_service", "failed", i), "heartbeat").faults + 1]
      BY <2>1, <2>3 DEF Host!Runs
    <3> QED
      BY <1>5, <1>6, <1>7, <3>1
  <2> QED
    BY <2>2, <2>3
<1> QED
  BY <1>8, <1>9

\* The host is t, but for the faults.
ButFaults(t) == subject' = t \/ \E spent : subject' = [t EXCEPT !.faults = spent]

\* The script goes to another place in the step in which it prints.
LEMMA PrintPlaces ==
  ASSUME HostHolds, NEW r \in Requests, NEW s, s = subject.script[r], s.pc \notin {"off", "ended"},
         NEW h, BesideScripts(h), NEW item \in Items, Host!Parsed(item) = item, NEW pc, NEW t,
         t = Host!Prints(h, r, item, pc), NEW at, NEW todo, NEW next,
         NEW x, x = [s EXCEPT !.items = Append(s.items, item), !.pc = next, !.at = at, !.todo = todo],
         NEW u, u = [t EXCEPT !.script = [t.script EXCEPT ![r] = x]],
         ButFaults(u)
  PROVE  Moves(r, h, s, x, item) /\ NextPlace(s, x, item, next, at, todo)
<1>1. PICK y : y = [s EXCEPT !.items = Append(s.items, item), !.pc = pc]
  OBVIOUS
<1>2. ScriptOK(s) /\ DOMAIN s = ScriptFields /\ HostShape
  BY DEF HostHolds, ScriptOK
<1>3. Leaves(t, h, r, y)
  BY <1>1, <1>2, PrintLeaves
<1>4. Leaves(u, h, r, x)
  <2>1. PICK script : script = [t.script EXCEPT ![r] = x]
    OBVIOUS
  <2> QED
    BY <1>3, <2>1, PlaceLeaves
<1>5. Leaves(subject', h, r, x)
  <2>1. CASE subject' = u
    BY <1>4, <2>1
  <2>2. CASE subject' # u
    <3>1. PICK spent : subject' = [u EXCEPT !.faults = spent]
      BY <2>2 DEF ButFaults
    <3> QED
      BY <1>4, <3>1, FaultsLeave
  <2> QED
    BY <2>1, <2>2
<1>6. NextPlace(s, x, item, next, at, todo)
  BY <1>2 DEF NextPlace, ScriptFields
<1>7. Moves(r, h, s, x, item)
  BY <1>5, <1>6 DEF Moves, NextPlace
<1> QED
  BY <1>6, <1>7

\* What a script has printed, in the script.
PrintsTo(t, h, s, item, pc, r) ==
  /\ DOMAIN t = HostFields /\ DOMAIN t.script = Requests /\ DOMAIN s = ScriptFields
  /\ t.script[r] = [s EXCEPT !.items = Append(s.items, item), !.pc = pc]
  /\ t.env = h.env

\* A line is added to the items of the script.
LEMMA PrintedScript ==
  ASSUME HostShape, NEW r \in Requests, NEW s, s = subject.script[r], ScriptOK(s), s.pc # "off",
         NEW h, BesideScripts(h), NEW item, Host!Parsed(item) = item, NEW pc, NEW t, t = Host!Prints(h, r, item, pc)
  PROVE  PrintsTo(t, h, s, item, pc, r)
<1>1. Leaves(t, h, r, [s EXCEPT !.items = Append(s.items, item), !.pc = pc])
  BY PrintLeaves
<1> QED
  BY <1>1 DEF Leaves, Disturbs, ScriptOK, PrintsTo

\* The heartbeat of a worker is not waited for; the next worker, or the surplus.
LEMMA HeartbeatKeeps ==
  ASSUME HostHolds, NEW r \in Requests, Host!WaitHeartbeat(r)
  PROVE  HostHolds'
<1> USE DEF Host!Becomes, Host!Script
<1> DEFINE s == subject.script[r]  i == s.at
<1>1. s.pc = "heartbeat" /\ s.pc \notin {"off", "ended"}
  BY DEF Host!WaitHeartbeat
<1>2. ScriptOK(s) /\ HostShape /\ DOMAIN subject = HostFields /\ DOMAIN s = ScriptFields
  BY <1>1 DEF HostHolds, HostShape, ScriptOK
<1>3. i \in 1 .. s.n /\ s.n \in Instances /\ s.code = 0
  BY <1>1, <1>2 DEF ScriptOK
<1>4. i \in Instances /\ i \in Nat /\ s.n \in Nat /\ i <= s.n
  BY <1>3, InstancesRange
<1>5. PICK item : item = Host!Item("wait_heartbeat", "pending", i)
  OBVIOUS
<1>6. Host!Parsed(item) = item /\ item \in Items /\ item.action = "wait_heartbeat" /\ item.instance = i
      /\ item.status = "pending"
  <2>1. "wait_heartbeat" \in Host!ScaleActions /\ "pending" \in Host!ScaleStatuses
    BY DEF Host!ScaleActions, Host!ScaleStatuses
  <2> QED
    BY <1>4, <1>5, <2>1, ItemParsed
<1>7. FailedOf(item) = {}
  BY <1>6 DEF FailedOf
<1>8. BesideScripts(subject)
  BY <1>2 DEF BesideScripts
<1>9. PICK t : t = Host!Prints(subject, r, item, "env")
  OBVIOUS
<1>10. /\ DOMAIN t = HostFields /\ DOMAIN t.script = Requests
       /\ t.script[r] = [s EXCEPT !.items = Append(s.items, item), !.pc = "env"]
  <2>1. PICK script : script = s
    OBVIOUS
  <2>2. script.pc # "off" /\ ScriptOK(script) /\ script = subject.script[r]
    BY <1>1, <1>2, <2>1
  <2>3. PrintsTo(t, subject, script, item, "env", r)
    BY <1>2, <1>6, <1>8, <1>9, <2>2, PrintedScript
  <2> QED
    BY <2>1, <2>3 DEF PrintsTo
<1>11. PICK next, at : /\ next = (IF i < s.n THEN "env" ELSE "list") /\ next \in {"env", "list"}
                       /\ at = IF i < s.n THEN i + 1 ELSE i
  OBVIOUS
<1>12. PICK x : x = [s EXCEPT !.items = Append(s.items, item), !.pc = next, !.at = at, !.todo = s.todo]
  OBVIOUS
<1>13. subject' = [t EXCEPT !.script = [t.script EXCEPT ![r] = x]]
  <2>1. CASE i < s.n
    <3>1. subject' = [t EXCEPT !.script[r].at = i + 1]
      BY <1>5, <1>9, <2>1 DEF Host!WaitHeartbeat
    <3>2. x = [t.script[r] EXCEPT !.at = i + 1]
      BY <1>2, <1>10, <1>11, <1>12, <2>1 DEF ScriptFields
    <3> QED
      BY <1>10, <3>1, <3>2 DEF HostFields
  <2>2. CASE ~ i < s.n
    <3>1. subject' = [t EXCEPT !.script[r].pc = "list"]
      BY <1>5, <1>9, <2>2 DEF Host!WaitHeartbeat
    <3>2. x = [t.script[r] EXCEPT !.pc = "list"]
      BY <1>2, <1>10, <1>11, <1>12, <2>2 DEF ScriptFields
    <3> QED
      BY <1>10, <3>1, <3>2 DEF HostFields
  <2> QED
    BY <2>1, <2>2
<1>14. Moves(r, subject, s, x, item) /\ NextPlace(s, x, item, next, at, s.todo)
  <2>1. PICK u : u = [t EXCEPT !.script = [t.script EXCEPT ![r] = x]]
    OBVIOUS
  <2>2. ButFaults(u)
    BY <1>13, <2>1 DEF ButFaults
  <2> QED
    BY <1>1, <1>6, <1>8, <1>9, <1>12, <2>1, <2>2, PrintPlaces
<1>15. HostShape' /\ Benign(s.n, s.prefix) /\ subject'.env = subject.env /\ subject'.running = subject.running
       /\ subject'.enabled = subject.enabled
  BY <1>2, <1>14, MovesHost, HostStays
<1>16. /\ x.pc = next /\ x.at = at /\ x.n = s.n /\ x.code = 0 /\ DOMAIN x = ScriptFields
       /\ x.prefix = s.prefix /\ x.plan = s.plan /\ x.before = s.before
       /\ x.items = Append(s.items, item)
  BY <1>3, <1>14 DEF NextPlace
<1>17. (next = "env" /\ at = i + 1 /\ i < s.n) \/ (next = "list" /\ i = s.n)
  BY <1>4, <1>11
<1>18. ScriptOK(x)
  <2>1. x.items \in Seq(Items) /\ x.n \in Instances /\ x.prefix \in Names
    BY <1>1, <1>2, <1>14, NextItems
  <2>2. next = "env" => at \in 1 .. s.n
    BY <1>4, <1>17
  <2> QED
    BY <1>16, <1>17, <2>1, <2>2 DEF ScriptOK
<1>19. Ups(x) = Ups(s) /\ i \in Ups(s) /\ \A env : Downs(x, env) = {} /\ Downs(s, env) = {}
  BY <1>1, <1>3, <1>4, <1>16, <1>17 DEF Ups, Downs
<1>20. Host!Failed(x.items) = Host!Failed(s.items) /\ s.items \in Seq(Items)
  <2>1. Host!Failed(x.items) = Host!Failed(s.items) \cup FailedOf(item) /\ s.items \in Seq(Items)
    BY <1>1, <1>2, <1>14, NextItems
  <2> QED
    BY <1>7, <2>1
<1>21. ASSUME Achieves(s) PROVE Achieves(x)
  BY <1>16, <1>17, <1>19, <1>20, <1>21 DEF Achieves, Achieved
<1>22. ASSUME Unmoved(s, subject.running), PlanFits(s, subject.env), Printed(s, Taken(s, subject.env))
       PROVE  Keeps(x)
  <2>1. Unmoved(x, subject'.running)
    BY <1>15, <1>16, <1>19, <1>20, <1>22 DEF Unmoved
  <2>2. PlanFits(x, subject'.env)
    <3>1. \A j \in 1 .. s.n :
            j \notin Ups(x) /\ ~ (x.pc = "start" /\ j = x.at) =>
              j \notin Ups(s) /\ ~ (s.pc = "start" /\ j = s.at) /\ subject'.env[j] = subject.env[j]
      BY <1>1, <1>15, <1>19
    <3> QED
      BY <1>15, <1>16, <1>22, <3>1, PlanStill
  <2>3. PICK taken : taken = 3 * i - 1
    OBVIOUS
  <2>4. Taken(s, subject.env) = taken /\ Taken(x, subject'.env) = taken + 1 /\ taken + 2 = 3 * i + 1
    <3>1. Taken(s, subject.env) = 3 * i - 1
      BY <1>1 DEF Taken
    <3>2. Taken(x, subject'.env) = IF next = "env" THEN 3 * at - 3 ELSE 3 * s.n
      BY <1>16, <1>17 DEF Taken
    <3>3. Taken(x, subject'.env) = 3 * i
      BY <1>4, <1>17, <3>2
    <3> QED
      BY <1>4, <2>3, <3>1, <3>3
  <2>5. s.plan[3 * i + 1].action = "wait_heartbeat" /\ s.plan[3 * i + 1].instance = i
    <3>1. \A j \in 1 .. s.n : s.plan[3 * j + 1].action = "wait_heartbeat" /\ s.plan[3 * j + 1].instance = j
      BY <1>22 DEF PlanFits
    <3> QED
      BY <1>3, <3>1
  <2>6. Printed(x, taken + 1)
    <3>1. Printed(s, taken)
      BY <1>22, <2>4
    <3>2. item.action = s.plan[taken + 2].action /\ item.instance = s.plan[taken + 2].instance
      BY <1>6, <2>4, <2>5
    <3> QED
      BY <1>6, <1>16, <1>20, <3>1, <3>2, StepPrinted
  <2> QED
    BY <2>1, <2>2, <2>4, <2>6 DEF Keeps
<1>23. x.pc # "off" /\ x.pc # "start"
  BY <1>16, <1>17
<1> QED
  BY <1>14, <1>15, <1>18, <1>21, <1>22, <1>23, MoveKeeps

\* The end of a script that an error or the lost connection ends.
LEMMA EndKeeps ==
  ASSUME HostHolds, NEW r \in Requests, Host!WriteFails(r) \/ Host!Orphaned(r)
  PROVE  HostHolds'
<1> USE DEF Host!Becomes, Host!Script
<1> DEFINE s == subject.script[r]
<1>1. s.pc # "off"
  BY DEF Host!WriteFails, Host!Orphaned, Host!Active
<1>2. ScriptOK(s) /\ HostShape /\ DOMAIN subject = HostFields /\ DOMAIN s = ScriptFields
      /\ DOMAIN subject.script = Requests
  BY <1>1 DEF HostHolds, HostShape, ScriptOK
<1>3. PICK x : x = [s EXCEPT !.pc = "ended", !.code = 1]
  OBVIOUS
<1>4. /\ DOMAIN x = ScriptFields /\ x.pc = "ended" /\ x.code = 1 /\ x.n = s.n /\ x.prefix = s.prefix
      /\ x.alone = s.alone /\ x.items = s.items
  BY <1>2, <1>3 DEF ScriptFields
<1>5. ScriptOK(x) /\ ~ Begins(x) /\ Continues(s, x)
  BY <1>1, <1>2, <1>4 DEF ScriptOK, Begins, Continues
<1>6. CASE Host!WriteFails(r)
  <2>1. PICK t : t = Host!Touches(subject, r)
    OBVIOUS
  <2>2. /\ DOMAIN t = HostFields /\ t.env = subject.env /\ t.running = subject.running
        /\ t.enabled = subject.enabled /\ t.byhand = subject.byhand
        /\ t.script = [q \in Requests |-> IF q = r \/ subject.script[q].pc = "off" THEN subject.script[q]
                                          ELSE [subject.script[q] EXCEPT !.alone = FALSE]]
    BY <1>2, <2>1 DEF Host!Touches, HostFields
  <2>3. t.script[r] = s
    BY <2>2
  <2>4. \E spent : subject' = [t EXCEPT !.script[r].pc = "ended", !.script[r].code = 1, !.faults = spent]
    <3>1. subject' = [t EXCEPT !.script[r].pc = "ended", !.script[r].code = 1, !.faults = subject.faults + 1]
      BY <1>6, <1>2, <2>1, <2>2 DEF Host!WriteFails, Host!Touches, HostFields
    <3> QED
      BY <3>1
  <2>5. subject'.script = [t.script EXCEPT ![r] = x]
    <3>1. PICK spent : subject' = [t EXCEPT !.script[r].pc = "ended", !.script[r].code = 1, !.faults = spent]
      BY <2>4
    <3>2. "script" \in DOMAIN t /\ r \in DOMAIN t.script /\ "pc" \in DOMAIN s /\ "code" \in DOMAIN s
      BY <1>2, <2>2 DEF HostFields, ScriptFields
    <3>3. subject' = [t EXCEPT !.script = [t.script EXCEPT ![r] = x], !.faults = spent]
      BY <1>3, <2>3, <3>1, <3>2
    <3> QED
      BY <2>2, <3>3 DEF HostFields
  <2>6. Disturbs(subject'.script, r) /\ subject'.script[r] = x
    BY <2>2, <2>5 DEF Disturbs
  <2>7. /\ DOMAIN subject' = HostFields /\ subject'.env = subject.env /\ subject'.running = subject.running
        /\ subject'.enabled = subject.enabled /\ subject'.byhand = subject.byhand
    BY <2>2, <2>4 DEF HostFields
  <2>8. HostShape' /\ Benign(x.n, x.prefix)
    BY <1>2, <2>6, <2>7, HostStays DEF Disturbs
  <2> QED
    BY <1>4, <1>5, <2>6, <2>7, <2>8, ScriptActs
<1>7. CASE Host!Orphaned(r)
  <2>1. subject' = [subject EXCEPT !.script[r].pc = "ended", !.script[r].code = 1]
    BY <1>7 DEF Host!Orphaned
  <2>2. Unnoticed(r, x)
    BY <1>2, <1>3, <2>1 DEF Unnoticed, HostFields, ScriptFields
  <2> QED
    BY <1>1, <1>4, <1>5, <2>2, ScriptGoesOn
<1> QED
  BY <1>6, <1>7

\* The connection is lost, and the script goes on.
LEMMA TimeoutKeeps ==
  ASSUME HostHolds, NEW r \in Requests, Host!SshTimeout(r)
  PROVE  HostHolds'
<1> USE DEF Host!Becomes, Host!Script
<1> DEFINE s == subject.script[r]
<1>1. s.pc # "off"
  BY DEF Host!SshTimeout, Host!Active
<1>2. ScriptOK(s) /\ HostShape /\ DOMAIN subject = HostFields /\ DOMAIN s = ScriptFields
  BY <1>1 DEF HostHolds, HostShape, ScriptOK
<1>3. PICK x : x = [s EXCEPT !.heard = FALSE]
  OBVIOUS
<1>4. /\ DOMAIN x = ScriptFields /\ x.pc = s.pc /\ x.code = s.code /\ x.n = s.n /\ x.prefix = s.prefix
      /\ x.alone = s.alone /\ x.items = s.items /\ x.at = s.at /\ x.todo = s.todo /\ x.plan = s.plan
      /\ x.before = s.before
  BY <1>2, <1>3 DEF ScriptFields
<1>5. ScriptOK(x) /\ Continues(s, x) /\ Begins(x) = Begins(s)
  BY <1>1, <1>2, <1>4 DEF ScriptOK, Begins, Continues
<1>6. Unnoticed(r, x)
  BY <1>2, <1>3 DEF Host!SshTimeout, Unnoticed, HostFields, ScriptFields
<1>7. subject'.env = subject.env /\ subject'.running = subject.running /\ subject'.enabled = subject.enabled
  BY <1>6 DEF Unnoticed
<1>8. Ups(x) = Ups(s) /\ \A env : Downs(x, env) = Downs(s, env)
  BY <1>4 DEF Ups, Downs
<1>9. ASSUME Achieved(s, subject.env, subject.running, subject.enabled) PROVE Achieves(x)
  BY <1>4, <1>7, <1>8, <1>9 DEF Achieves, Achieved
<1>10. ASSUME Unmoved(s, subject.running), PlanFits(s, subject.env), Printed(s, Taken(s, subject.env))
       PROVE  Keeps(x)
  <2>1. Unmoved(x, subject'.running)
    BY <1>4, <1>7, <1>8, <1>10 DEF Unmoved
  <2>2. PlanFits(x, subject'.env)
    BY <1>4, <1>7, <1>8, <1>10, PlanStill
  <2>3. Taken(x, subject'.env) = Taken(s, subject.env)
    BY <1>4, <1>7, <1>8 DEF Taken
  <2>4. Printed(x, Taken(s, subject.env))
    BY <1>4, <1>10 DEF Printed
  <2> QED
    BY <2>1, <2>2, <2>3, <2>4 DEF Keeps
<1>11. x.pc = "start" => subject.env[x.at] # "none"
  BY <1>4 DEF HostHolds
<1>12. Begins(x) /\ (x.alone \/ Agreed) => Achieves(x)
  BY <1>4, <1>5, <1>9 DEF HostHolds
<1>13. Begins(x) /\ x.alone => Keeps(x)
  BY <1>4, <1>5, <1>10 DEF HostHolds
<1> QED
  BY <1>1, <1>5, <1>6, <1>11, <1>12, <1>13, ScriptGoesOn

\* A service action disturbs every script.
LEMMA ActionKeeps ==
  ASSUME HostHolds, NEW i \in Instances, NEW action \in {"start", "stop", "restart", "disable"},
         Host!ServiceAction(action, i)
  PROVE  HostHolds'
<1> USE DEF Host!Becomes, Host!None
<1>1. HostShape /\ DOMAIN subject = HostFields /\ DOMAIN subject.script = Requests
      /\ \A r \in Requests : "nobody" # r
  BY HostAssumption DEF HostHolds, HostShape
<1>2. PICK t : t = Host!Touches(subject, "nobody")
  OBVIOUS
<1>3. /\ DOMAIN t = HostFields /\ t.env = subject.env /\ t.running = subject.running
      /\ t.enabled = subject.enabled
      /\ t.script = [q \in Requests |-> IF subject.script[q].pc = "off" THEN subject.script[q]
                                        ELSE [subject.script[q] EXCEPT !.alone = FALSE]]
  BY <1>1, <1>2 DEF Host!Touches, HostFields
<1>4. PICK runs : runs = CASE action = "start" -> IF t.running[i] = "none" THEN subject.env[i] ELSE t.running[i]
                           [] action = "restart" -> subject.env[i]
                           [] action \in {"stop", "disable"} -> "none"
  OBVIOUS
<1>5. runs \in {"none", subject.env[i], subject.running[i]}
  BY <1>3, <1>4
<1>6. PICK enabled : enabled = IF action = "disable" THEN t.enabled \ {i} ELSE t.enabled
  OBVIOUS
<1>7. subject' = [t EXCEPT !.running[i] = runs, !.enabled = enabled, !.byhand = TRUE, !.faults = t.faults + 1]
      /\ subject.env[i] # "none"
  BY <1>1, <1>2, <1>3, <1>4, <1>6 DEF Host!ServiceAction, Host!NoRequest, HostFields
<1>8. /\ DOMAIN subject' = HostFields /\ subject'.env = subject.env /\ subject'.byhand = TRUE
      /\ subject'.running = [subject.running EXCEPT ![i] = runs] /\ subject'.enabled = enabled
      /\ subject'.script = t.script
  BY <1>3, <1>7 DEF HostFields
<1>9. HostShape'
  BY <1>1, <1>3, <1>5, <1>6, <1>7, <1>8 DEF HostShape
<1>10. ~ Agreed'
  BY <1>8 DEF Agreed
<1>11. ASSUME NEW r \in Requests
       PROVE  /\ ScriptOK(subject'.script[r]) /\ ~ (Begins(subject'.script[r]) /\ subject'.script[r].alone)
              /\ subject'.script[r].pc = "start" => subject'.env[subject'.script[r].at] # "none"
  <2>1. ScriptOK(subject.script[r]) /\ (subject.script[r].pc = "start" => subject.env[subject.script[r].at] # "none")
    BY DEF HostHolds
  <2>2. CASE subject.script[r].pc = "off"
    BY <1>3, <1>8, <2>1, <2>2 DEF Begins
  <2>3. CASE subject.script[r].pc # "off"
    <3>1. subject'.script[r] = [subject.script[r] EXCEPT !.alone = FALSE]
      BY <1>3, <1>8, <2>3
    <3> QED
      BY <1>8, <2>1, <2>3, <3>1, DisturbedKeeps
  <2> QED
    BY <2>2, <2>3
<1> QED
  BY <1>9, <1>10, <1>11 DEF HostHolds

\* A set of naturals has a least one.
LEMMA LeastIsThere ==
  ASSUME NEW S \in SUBSET Nat, S # {}
  PROVE  \E i \in S : \A j \in S : i <= j
<1> DEFINE R == OpToRel(<, Nat)
<1>1. \A i, j \in Nat : i < j <=> <<i, j>> \in R
  BY DEF OpToRel
<1>2. PICK i \in S : \A j \in S : ~ (<<j, i>> \in R)
  <2>1. IsWellFoundedOn(R, Nat)
    BY NatLessThanWellFounded
  <2> HIDE DEF R
  <2> QED
    BY <2>1, WFMin
<1> HIDE DEF R
<1>3. \A j \in S : i \in Nat /\ j \in Nat /\ ~ (j < i)
  BY <1>1, <1>2
<1> QED
  BY <1>3

\* Where a script goes for the surplus workers that are left.
SurplusGoes(s, next, at, left) ==
  \/ left = {} /\ next = "ended" /\ at = s.at
  \/ left # {} /\ next = "stop" /\ at \in left /\ \A j \in left : at <= j

ScriptPlaced(u, t, r, y, next, at, left) ==
  /\ SurplusGoes(y, next, at, left)
  /\ u = [t EXCEPT !.script = [t.script EXCEPT ![r] = [y EXCEPT !.pc = next, !.at = at, !.todo = left]]]

\* The next of them is the least.
LEMMA SurplusPlaces ==
  ASSUME NEW r \in Requests, NEW t, DOMAIN t = HostFields, DOMAIN t.script = Requests,
         NEW y, t.script[r] = y, DOMAIN y = ScriptFields,
         NEW left \in SUBSET Nat, NEW u, u = Host!NextSurplus(t, r, left)
  PROVE  \E next, at : ScriptPlaced(u, t, r, y, next, at, left)
<1>1. CASE left = {}
  <2>1. u = [t EXCEPT !.script[r].pc = "ended", !.script[r].todo = {}]
    BY <1>1 DEF Host!NextSurplus
  <2>2. PICK x : x = [y EXCEPT !.pc = "ended", !.at = y.at, !.todo = left]
    OBVIOUS
  <2>3. x = [y EXCEPT !.pc = "ended", !.todo = {}]
    BY <1>1, <2>2 DEF ScriptFields
  <2>4. u = [t EXCEPT !.script = [t.script EXCEPT ![r] = x]]
    BY <2>1, <2>3 DEF HostFields, ScriptFields
  <2>5. SurplusGoes(y, "ended", y.at, left)
    BY <1>1 DEF SurplusGoes
  <2> QED
    BY <2>2, <2>4, <2>5 DEF ScriptPlaced
<1>2. CASE left # {}
  <2>1. PICK at : at = CHOOSE i \in left : \A j \in left : i <= j
    OBVIOUS
  <2>2. at \in left /\ \A j \in left : at <= j
    BY <1>2, <2>1, LeastIsThere
  <2>3. u = [t EXCEPT !.script[r].pc = "stop", !.script[r].todo = left, !.script[r].at = at]
    BY <1>2, <2>1 DEF Host!NextSurplus
  <2>4. PICK x : x = [y EXCEPT !.pc = "stop", !.at = at, !.todo = left]
    OBVIOUS
  <2>5. u = [t EXCEPT !.script = [t.script EXCEPT ![r] = x]]
    <3>1. PICK script : script = t.script
      OBVIOUS
    <3>2. u = [t EXCEPT !.script = [script EXCEPT ![r] =
                 [[[script[r] EXCEPT !.pc = "stop"] EXCEPT !.todo = left] EXCEPT !.at = at]]]
      BY <2>3, <3>1 DEF HostFields, ScriptFields
    <3>3. x = [[[y EXCEPT !.pc = "stop"] EXCEPT !.todo = left] EXCEPT !.at = at]
      BY <2>4 DEF ScriptFields
    <3> QED
      BY <3>1, <3>2, <3>3
  <2>6. SurplusGoes(y, "stop", at, left)
    BY <1>2, <2>2 DEF SurplusGoes
  <2> QED
    BY <2>4, <2>5, <2>6 DEF ScriptPlaced
<1> QED
  BY <1>1, <1>2

\* The surplus is what has an env beyond those asked for.
LEMMA SurplusIsExtra ==
  ASSUME NEW n
  PROVE  Host!Surplus(n) = Extra(subject.env, n)
BY DEF Host!Surplus, Host!Existing, Host!None, Extra

\* The surplus is listed when the workers asked for are there.
LEMMA ListKeeps ==
  ASSUME HostHolds, NEW r \in Requests, Host!ListSurplus(r)
  PROVE  HostHolds'
<1> USE DEF Host!Becomes, Host!Script
<1> DEFINE s == subject.script[r]  left == Extra(subject.env, s.n)
<1>1. s.pc = "list" /\ s.pc # "off"
  BY DEF Host!ListSurplus
<1>2. ScriptOK(s) /\ HostShape /\ DOMAIN subject = HostFields /\ DOMAIN s = ScriptFields
      /\ DOMAIN subject.script = Requests
  BY <1>1 DEF HostHolds, HostShape, ScriptOK
<1>3. s.n \in Instances /\ s.code = 0 /\ s.prefix \in Names /\ s.items \in Seq(Items)
  BY <1>1, <1>2 DEF ScriptOK
<1>4. left \in SUBSET Nat /\ left \subseteq Instances /\ \A i \in left : i > s.n
  BY InstancesRange DEF Extra
<1>5. subject' = Host!NextSurplus(subject, r, left)
  BY SurplusIsExtra DEF Host!ListSurplus
<1>6. PICK next, at :
        /\ SurplusGoes(s, next, at, left)
        /\ subject' = [subject EXCEPT !.script = [subject.script EXCEPT ![r] =
             [s EXCEPT !.pc = next, !.at = at, !.todo = left]]]
  <2>1. PICK todo \in SUBSET Nat : todo = left
    BY <1>4
  <2>2. PICK y : y = s
    OBVIOUS
  <2>3. PICK next, at : ScriptPlaced(subject', subject, r, y, next, at, todo)
    BY <1>2, <1>5, <2>1, <2>2, SurplusPlaces
  <2> QED
    BY <2>1, <2>2, <2>3 DEF ScriptPlaced
<1>7. PICK x : x = [s EXCEPT !.pc = next, !.at = at, !.todo = left]
  OBVIOUS
<1>8. /\ DOMAIN x = ScriptFields /\ x.pc = next /\ x.code = s.code /\ x.n = s.n /\ x.prefix = s.prefix
      /\ x.alone = s.alone /\ x.items = s.items /\ x.at = at /\ x.todo = left /\ x.plan = s.plan
      /\ x.before = s.before
  BY <1>2, <1>7 DEF ScriptFields
<1>9. Unnoticed(r, x)
  BY <1>2, <1>6, <1>7 DEF Unnoticed, HostFields
<1>10. (next = "ended" /\ left = {}) \/ (next = "stop" /\ at \in left /\ \A j \in left : at <= j)
  BY <1>6 DEF SurplusGoes
<1>11. ScriptOK(x)
  BY <1>3, <1>4, <1>8, <1>10 DEF ScriptOK
<1>12. Continues(s, x) /\ Begins(x) = Begins(s) /\ x.pc # "off" /\ x.pc # "start"
  BY <1>1, <1>8, <1>10 DEF Begins, Continues
<1>13. subject'.env = subject.env /\ subject'.running = subject.running /\ subject'.enabled = subject.enabled
  BY <1>9 DEF Unnoticed
<1>14. Ups(x) = Ups(s)
  BY <1>1, <1>8, <1>10 DEF Ups
<1>15. Downs(x, subject.env) = {} /\ Downs(s, subject.env) = {}
  <2>1. Downs(s, subject.env) = {}
    BY <1>1 DEF Downs
  <2>2. ASSUME NEW i \in Downs(x, subject.env) PROVE FALSE
    <3>1. i \in left /\ (next = "ended" \/ (next = "stop" /\ i < at))
      BY <1>8, <1>10, <2>2 DEF Downs
    <3>2. next = "stop" /\ i < at /\ at <= i /\ at \in left
      BY <1>10, <3>1
    <3> QED
      BY <1>4, <3>1, <3>2
  <2> QED
    BY <2>1, <2>2
<1>16. ASSUME Achieved(s, subject.env, subject.running, subject.enabled) PROVE Achieves(x)
  <2>1. x.pc \in {"stop", "disable"} => x.todo = {i \in Extra(subject.env, x.n) : x.at <= i}
    BY <1>8, <1>10
  <2>2. x.pc \notin {"start", "disable"}
    BY <1>8, <1>10
  <2> QED
    BY <1>8, <1>13, <1>14, <1>15, <1>16, <2>1, <2>2 DEF Achieves, Achieved
<1>17. ASSUME Unmoved(s, subject.running), PlanFits(s, subject.env), Printed(s, Taken(s, subject.env))
       PROVE  Keeps(x)
  <2>1. Unmoved(x, subject'.running)
    BY <1>8, <1>13, <1>14, <1>17 DEF Unmoved
  <2>2. PlanFits(x, subject'.env)
    <3>1. \A j \in 1 .. s.n :
            j \notin Ups(x) /\ ~ (x.pc = "start" /\ j = x.at) =>
              j \notin Ups(s) /\ ~ (s.pc = "start" /\ j = s.at) /\ subject'.env[j] = subject.env[j]
      BY <1>1, <1>13, <1>14
    <3> QED
      BY <1>8, <1>13, <1>17, <3>1, PlanStill
  <2>3. Taken(s, subject.env) = 3 * s.n
    BY <1>1 DEF Taken
  <2>4. Taken(x, subject'.env) = 3 * s.n
    <3>1. Cardinality({}) = 0
      BY FS_EmptySet
    <3>2. CASE next = "ended"
      <4>1. Taken(x, subject'.env) = 3 * s.n + 2 * Cardinality(left) /\ left = {}
        BY <1>8, <1>10, <1>13, <3>2 DEF Taken
      <4> QED
        BY <1>3, <3>1, <4>1, InstancesRange
    <3>3. CASE next = "stop"
      <4>1. Taken(x, subject'.env) = 3 * s.n + 2 * Cardinality(Downs(x, subject.env))
        BY <1>8, <1>13, <3>3 DEF Taken
      <4> QED
        BY <1>3, <1>15, <3>1, <4>1, InstancesRange
    <3> QED
      BY <1>10, <3>2, <3>3
  <2>5. Printed(x, Taken(s, subject.env))
    BY <1>8, <1>17 DEF Printed
  <2> QED
    BY <2>1, <2>2, <2>3, <2>4, <2>5 DEF Keeps
<1>18. Begins(x) /\ (x.alone \/ Agreed) => Achieves(x)
  BY <1>8, <1>12, <1>16 DEF HostHolds
<1>19. Begins(x) /\ x.alone => Keeps(x)
  BY <1>8, <1>12, <1>17 DEF HostHolds
<1> QED
  BY <1>1, <1>9, <1>11, <1>12, <1>18, <1>19, ScriptGoesOn

\* The surplus workers before one that is the next of them.
LEMMA DownsAre ==
  ASSUME NEW s, NEW env, s.pc \in {"stop", "disable"}
  PROVE  Downs(s, env) = {j \in Extra(env, s.n) : j < s.at}
BY DEF Downs

\* A surplus worker is stopped, or that fails, with or without effect.
LEMMA StopKeeps ==
  ASSUME HostHolds, NEW r \in Requests, NEW h, NEW s, NEW x, NEW item,
         Moves(r, h, s, x, item), NextPlace(s, x, item, "disable", s.at, s.todo),
         s.pc = "stop", item.action = "stop_service", item.instance = s.at,
         h.env = subject.env, h.enabled = subject.enabled,
         \/ h.running = [subject.running EXCEPT ![s.at] = "none"]
         \/ h.running = subject.running /\ FailedOf(item) = {s.at}
  PROVE  HostHolds'
<1> DEFINE i == s.at
<1>1. ScriptOK(s) /\ HostShape /\ s.pc # "off"
  BY DEF HostHolds, Moves
<1>2. i \in Instances /\ i > s.n /\ s.n \in Instances /\ s.code = 0 /\ i \in s.todo
  BY <1>1 DEF ScriptOK
<1>3. i \in Nat /\ s.n \in Nat /\ Instances \subseteq Nat
  BY <1>2, InstancesRange
<1>4. /\ x.pc = "disable" /\ x.at = i /\ x.n = s.n /\ x.code = 0 /\ DOMAIN x = ScriptFields
      /\ x.prefix = s.prefix /\ x.plan = s.plan /\ x.before = s.before /\ x.todo = s.todo
      /\ x.items = Append(s.items, item) /\ item \in Items
  BY <1>2 DEF NextPlace
<1>5. ScriptOK(x)
  <2>1. x.items \in Seq(Items) /\ x.n \in Instances /\ x.prefix \in Names
    BY <1>1, NextItems
  <2> QED
    BY <1>1, <1>2, <1>4, <2>1 DEF ScriptOK
<1>6. Ups(x) = Ups(s) /\ \A env : Downs(x, env) = Downs(s, env)
  BY <1>4 DEF Ups, Downs
<1>7. Host!Failed(x.items) = Host!Failed(s.items) \cup FailedOf(item) /\ s.items \in Seq(Items)
  BY <1>1, NextItems
<1>8. /\ DOMAIN subject' = HostFields /\ DOMAIN subject'.script = Requests
      /\ subject'.env = subject.env /\ subject'.running = h.running /\ subject'.enabled = subject.enabled
  BY MovesHost
<1>9. HostShape' /\ Benign(s.n, s.prefix)
  <2>1. CASE h.running = [subject.running EXCEPT ![i] = "none"]
    BY <1>1, <1>2, <1>8, <2>1, WorkerStopped
  <2>2. CASE h.running = subject.running
    BY <1>1, <1>8, <2>2, HostStays
  <2> QED
    BY <2>1, <2>2
<1>10. /\ \A j \in Instances : j # i => subject'.running[j] = subject.running[j]
       /\ i \in FailedOf(item) \/ subject'.running[i] = "none"
  BY <1>1, <1>2, <1>8 DEF HostShape
<1>11. ASSUME Achieves(s) PROVE Achieves(x)
  <2>1. x.pc = "disable" /\ x.at \notin Host!Failed(x.items) => subject'.running[x.at] = "none"
    BY <1>4, <1>7, <1>10
  <2>2. /\ \A j \in Ups(x) \ Host!Failed(x.items) :
             subject'.env[j] = x.prefix /\ j \in subject'.enabled /\ subject'.running[j] # "none"
        /\ \A j \in Downs(x, subject'.env) \ Host!Failed(x.items) :
             subject'.running[j] = "none" /\ j \notin subject'.enabled
    BY <1>4, <1>6, <1>7, <1>11 DEF Achieves, Achieved
  <2>3. x.todo = {j \in Extra(subject'.env, x.n) : x.at <= j}
    BY <1>4, <1>11 DEF Achieves, Achieved
  <2> QED
    BY <1>4, <2>1, <2>2, <2>3 DEF Achieves, Achieved
<1>12. ASSUME Achieves(s), Unmoved(s, subject.running), PlanFits(s, subject.env),
              Printed(s, Taken(s, subject.env))
       PROVE  Keeps(x)
  <2>1. Unmoved(x, subject'.running)
    <3>1. \A j \in 1 .. s.n : j \in Instances /\ j # i
      BY <1>2, <1>3, InstancesRange
    <3> QED
      BY <1>4, <1>6, <1>7, <1>10, <1>12, <3>1 DEF Unmoved
  <2>2. PlanFits(x, subject'.env)
    <3>1. \A j \in 1 .. s.n :
            j \notin Ups(x) /\ ~ (x.pc = "start" /\ j = x.at) =>
              j \notin Ups(s) /\ ~ (s.pc = "start" /\ j = s.at) /\ subject'.env[j] = subject.env[j]
      BY <1>6, <1>8
    <3> QED
      BY <1>4, <1>8, <1>12, <3>1, PlanStill
  <2>3. PICK taken : taken = Taken(s, subject.env)
    OBVIOUS
  <2>4. /\ taken = 3 * s.n + 2 * Cardinality(Downs(s, subject.env))
        /\ Taken(x, subject'.env) = 3 * s.n + 2 * Cardinality(Downs(s, subject.env)) + 1
    BY <1>4, <1>6, <1>8, <2>3 DEF Taken
  <2>5. Taken(x, subject'.env) = taken + 1
    BY <2>4
  <2>6. s.plan[taken + 2].action = "stop_service" /\ s.plan[taken + 2].instance = i
    <3>1. i \in Extra(subject.env, s.n)
      BY <1>2, <1>8, <1>12 DEF Achieves, Achieved
    <3>2. taken + 2 = 3 * s.n + 2 * Cardinality({j \in Extra(subject.env, s.n) : j < i}) + 2
      BY <2>4, DownsAre
    <3> QED
      BY <1>12, <3>1, <3>2 DEF PlanFits
  <2>7. Printed(x, taken + 1)
    <3>1. Printed(s, taken)
      BY <1>12, <2>3
    <3> QED
      BY <1>4, <1>7, <2>6, <3>1, StepPrinted
  <2> QED
    BY <2>1, <2>2, <2>5, <2>7 DEF Keeps
<1>13. x.pc # "off" /\ x.pc # "start"
  BY <1>4
<1> QED
  BY <1>5, <1>9, <1>11, <1>12, <1>13, MoveKeeps

\* A surplus worker is disabled, or that fails; the next of them.
LEMMA DisableKeeps ==
  ASSUME HostHolds, NEW r \in Requests, NEW h, NEW s, NEW x, NEW item, NEW next, NEW at, NEW left,
         Moves(r, h, s, x, item), NextPlace(s, x, item, next, at, left), SurplusGoes(s, next, at, left),
         left = s.todo \ {s.at},
         s.pc = "disable", item.action = "disable_service", item.instance = s.at,
         h.env = subject.env, h.running = subject.running,
         \/ h.enabled = subject.enabled \ {s.at}
         \/ h.enabled = subject.enabled /\ FailedOf(item) = {s.at}
  PROVE  HostHolds'
<1> DEFINE i == s.at  E == Extra(subject.env, s.n)
<1>1. ScriptOK(s) /\ HostShape /\ s.pc # "off"
  BY DEF HostHolds, Moves
<1>2. i \in Instances /\ i > s.n /\ s.n \in Instances /\ s.code = 0 /\ i \in s.todo
      /\ s.todo \subseteq Instances /\ \A j \in s.todo : i <= j /\ j > s.n
  BY <1>1 DEF ScriptOK
<1>3. i \in Nat /\ s.n \in Nat /\ Instances \subseteq Nat /\ IsFiniteSet(Instances)
  BY <1>2, InstancesRange, HostAssumption
<1>4. /\ x.pc = next /\ x.at = at /\ x.n = s.n /\ x.code = 0 /\ DOMAIN x = ScriptFields
      /\ x.prefix = s.prefix /\ x.plan = s.plan /\ x.before = s.before /\ x.todo = left
      /\ x.items = Append(s.items, item) /\ item \in Items
  BY <1>2 DEF NextPlace
<1>4a. (next = "ended" /\ left = {}) \/ (next = "stop" /\ at \in left /\ \A j \in left : at <= j)
  BY DEF SurplusGoes
<1>5. ScriptOK(x)
  <2>1. x.items \in Seq(Items) /\ x.n \in Instances /\ x.prefix \in Names
    BY <1>1, NextItems
  <2> QED
    BY <1>2, <1>4, <1>4a, <2>1 DEF ScriptOK
<1>6. Ups(x) = Ups(s)
  BY <1>4, <1>4a DEF Ups
<1>7. Host!Failed(x.items) = Host!Failed(s.items) \cup FailedOf(item) /\ s.items \in Seq(Items)
  BY <1>1, NextItems
<1>8. /\ DOMAIN subject' = HostFields /\ DOMAIN subject'.script = Requests
      /\ subject'.env = subject.env /\ subject'.running = subject.running /\ subject'.enabled = h.enabled
  BY MovesHost
<1>9. HostShape' /\ Benign(s.n, s.prefix)
  <2>1. CASE h.enabled = subject.enabled \ {i}
    BY <1>1, <1>2, <1>8, <2>1, WorkerStopped
  <2>2. CASE h.enabled = subject.enabled
    BY <1>1, <1>8, <2>2, HostStays
  <2> QED
    BY <2>1, <2>2
<1>10. /\ subject'.enabled \subseteq subject.enabled
       /\ \A j \in Instances : j # i => (j \in subject'.enabled <=> j \in subject.enabled)
       /\ i \in FailedOf(item) \/ i \notin subject'.enabled
  BY <1>8
<1>11. ASSUME Achieves(s)
       PROVE  Downs(x, subject.env) = Downs(s, subject.env) \cup {i} /\ i \in E /\ i \notin Downs(s, subject.env)
              /\ (next = "stop" => left = {j \in E : at <= j})
  <2>1. s.todo = {j \in E : i <= j} /\ i \in E
    BY <1>2, <1>8, <1>11 DEF Achieves, Achieved
  <2>2. Downs(s, subject.env) = {j \in E : j < i}
    BY DownsAre
  <2>3. E \subseteq Nat
    BY <1>3 DEF Extra
  <2>4. left = {j \in E : i < j}
    BY <1>3, <2>1, <2>3
  <2>5. CASE next = "ended"
    <3>1. Downs(x, subject.env) = E
      BY <1>4, <2>5 DEF Downs
    <3>2. \A j \in E : j < i \/ j = i
      BY <1>3, <1>4a, <2>3, <2>4, <2>5
    <3> QED
      BY <1>3, <2>1, <2>2, <2>5, <3>1, <3>2
  <2>6. CASE next = "stop"
    <3>1. Downs(x, subject.env) = {j \in E : j < at}
      BY <1>4, <2>6, DownsAre
    <3>2. at \in E /\ i < at /\ \A j \in E : i < j => at <= j
      BY <1>4a, <2>4, <2>6
    <3>3. \A j \in E : j < at <=> j < i \/ j = i
      BY <1>3, <2>3, <3>2
    <3>4. \A j \in E : i < j <=> at <= j
      BY <1>3, <2>3, <3>2
    <3> QED
      BY <1>3, <2>1, <2>2, <2>4, <2>6, <3>1, <3>3, <3>4
  <2> QED
    BY <1>4a, <2>5, <2>6
<1>12. ASSUME Achieves(s) PROVE Achieves(x)
  <2>1. ASSUME NEW j \in Downs(x, subject'.env) \ Host!Failed(x.items)
        PROVE  subject'.running[j] = "none" /\ j \notin subject'.enabled
    <3>1. CASE j = i
      BY <1>7, <1>8, <1>10, <1>12, <2>1, <3>1 DEF Achieves, Achieved
    <3>2. CASE j # i
      <4>1. j \in Downs(s, subject.env) \ Host!Failed(s.items)
        BY <1>7, <1>8, <1>11, <1>12, <2>1, <3>2
      <4> QED
        BY <1>8, <1>10, <1>12, <4>1 DEF Achieves, Achieved
    <3> QED
      BY <3>1, <3>2
  <2>2. \A j \in Ups(x) \ Host!Failed(x.items) :
          subject'.env[j] = x.prefix /\ j \in subject'.enabled /\ subject'.running[j] # "none"
    BY <1>4, <1>6, <1>7, <1>12 DEF Achieves, Achieved
  <2>3. x.pc \in {"stop", "disable"} => x.todo = {j \in Extra(subject'.env, x.n) : x.at <= j}
    BY <1>4, <1>4a, <1>8, <1>11, <1>12
  <2>4. x.pc \notin {"start", "disable"}
    BY <1>4, <1>4a
  <2> QED
    BY <2>1, <2>2, <2>3, <2>4 DEF Achieves, Achieved
<1>13. ASSUME Achieves(s), Unmoved(s, subject.running), PlanFits(s, subject.env),
              Printed(s, Taken(s, subject.env))
       PROVE  Keeps(x)
  <2>1. Unmoved(x, subject'.running)
    BY <1>4, <1>6, <1>7, <1>8, <1>13 DEF Unmoved
  <2>2. PlanFits(x, subject'.env)
    <3>1. \A j \in 1 .. s.n :
            j \notin Ups(x) /\ ~ (x.pc = "start" /\ j = x.at) =>
              j \notin Ups(s) /\ ~ (s.pc = "start" /\ j = s.at) /\ subject'.env[j] = subject.env[j]
      BY <1>6, <1>8
    <3> QED
      BY <1>4, <1>8, <1>13, <3>1, PlanStill
  <2>3. PICK taken : taken = Taken(s, subject.env)
    OBVIOUS
  <2>4. PICK c \in Nat : c = Cardinality(Downs(s, subject.env)) /\ Cardinality(Downs(x, subject.env)) = c + 1
    <3>1. Downs(s, subject.env) \in SUBSET Instances
      BY DEF Downs, Extra
    <3>2. PICK D \in SUBSET Instances : D = Downs(s, subject.env)
      BY <3>1
    <3>3. IsFiniteSet(D) /\ Cardinality(D) \in Nat
      BY <1>3, FS_Subset, FS_CardinalityType
    <3>4. Cardinality(D \cup {i}) = Cardinality(D) + 1
      BY <1>11, <1>13, <3>2, <3>3, FS_AddElement
    <3> QED
      BY <1>11, <1>13, <3>2, <3>3, <3>4
  <2>5. taken = 3 * s.n + 2 * c + 1 /\ Taken(x, subject'.env) = 3 * s.n + 2 * (c + 1)
    <3>1. taken = 3 * s.n + 2 * Cardinality(Downs(s, subject.env)) + 1
      BY <2>3 DEF Taken
    <3>2. CASE next = "ended"
      <4>1. Taken(x, subject'.env) = 3 * s.n + 2 * Cardinality(E)
        BY <1>4, <1>8, <3>2 DEF Taken
      <4>2. Downs(x, subject.env) = E
        BY <1>4, <3>2 DEF Downs
      <4> QED
        BY <2>4, <3>1, <4>1, <4>2
    <3>3. CASE next = "stop"
      <4>1. Taken(x, subject'.env) = 3 * s.n + 2 * Cardinality(Downs(x, subject.env))
        BY <1>4, <1>8, <3>3 DEF Taken
      <4> QED
        BY <2>4, <3>1, <4>1
    <3> QED
      BY <1>4a, <3>2, <3>3
  <2>6. Taken(x, subject'.env) = taken + 1 /\ taken + 2 = 3 * s.n + 2 * c + 2 + 1
    BY <1>3, <2>4, <2>5
  <2>7. s.plan[taken + 2].action = "disable_service" /\ s.plan[taken + 2].instance = i
    <3>1. PICK k : k = 3 * s.n + 2 * Cardinality({j \in E : j < i}) + 2
      OBVIOUS
    <3>2. s.plan[k + 1].action = "disable_service" /\ s.plan[k + 1].instance = i
      BY <1>11, <1>13, <3>1 DEF PlanFits
    <3>3. k + 1 = taken + 2
      <4>1. Downs(s, subject.env) = {j \in E : j < i}
        BY DownsAre
      <4>2. k = 3 * s.n + 2 * c + 2
        BY <2>4, <3>1, <4>1
      <4> QED
        BY <2>6, <4>2
    <3> QED
      BY <3>2, <3>3
  <2>8. Printed(x, taken + 1)
    <3>1. Printed(s, taken)
      BY <1>13, <2>3
    <3> QED
      BY <1>4, <1>7, <2>7, <3>1, StepPrinted
  <2> QED
    BY <2>1, <2>2, <2>6, <2>8 DEF Keeps
<1>14. x.pc # "off" /\ x.pc # "start"
  BY <1>4, <1>4a
<1> QED
  BY <1>5, <1>9, <1>12, <1>13, <1>14, MoveKeeps

\* systemd stops a surplus worker, or fails.
LEMMA StopServiceKeeps ==
  ASSUME HostHolds, NEW r \in Requests, Host!StopService(r)
  PROVE  HostHolds'
<1> USE DEF Host!Becomes, Host!Script
<1> DEFINE s == subject.script[r]  i == s.at
<1>1. s.pc = "stop"
  BY DEF Host!StopService
<1>2. ScriptOK(s) /\ HostShape /\ DOMAIN subject = HostFields
  BY DEF HostHolds, HostShape
<1>3. i \in Nat /\ s.pc \notin {"off", "ended"}
  BY <1>1, <1>2, InstancesRange DEF ScriptOK
<1>4. PICK stopped : stopped = Host!Stopped(i)
  OBVIOUS
<1>5. /\ BesideScripts(stopped) /\ stopped.env = subject.env /\ stopped.enabled = subject.enabled
      /\ stopped.running = [subject.running EXCEPT ![i] = "none"]
  BY <1>2, <1>4 DEF Host!Stopped, BesideScripts, HostFields, Host!None
<1>6. BesideScripts(subject)
  BY <1>2 DEF BesideScripts
<1>7. ASSUME NEW h, BesideScripts(h), NEW status \in {"ok", "failed"}, NEW t,
             t = Host!Prints(h, r, Host!Item("stop_service", status, i), "disable"),
             subject' = t \/ \E spent : subject' = [t EXCEPT !.faults = spent],
             h = stopped \/ (h = subject /\ status = "failed")
      PROVE  HostHolds'
  <2>1. PICK item : item = Host!Item("stop_service", status, i)
    OBVIOUS
  <2>2. Host!Parsed(item) = item /\ item \in Items /\ item.action = "stop_service" /\ item.instance = i
        /\ FailedOf(item) = IF status = "failed" THEN {i} ELSE {}
    <3>1. "stop_service" \in Host!ScaleActions /\ status \in Host!ScaleStatuses
      BY DEF Host!ScaleActions, Host!ScaleStatuses
    <3> QED
      <4>1. PICK at \in Nat : at = i
        BY <1>3
      <4>2. PICK action \in Host!ScaleActions : action = "stop_service"
        BY <3>1
      <4>3. item = Host!Item(action, status, at)
        BY <2>1, <4>1, <4>2
      <4>4. /\ Host!Parsed(item) = item /\ item \in Items /\ item.action = action /\ item.instance = at
            /\ item.status = status
        BY <3>1, <4>1, <4>3, ItemParsed
      <4>5. FailedOf(item) = IF status = "failed" THEN {at} ELSE {}
        BY <4>4 DEF FailedOf
      <4> QED
        BY <4>1, <4>2, <4>4, <4>5
  <2>3. PICK x : Moves(r, h, s, x, item) /\ NextPlace(s, x, item, "disable", i, s.todo)
    BY <1>3, <1>7, <2>1, <2>2, PrintMoves
  <2>4. CASE h = stopped
    BY <1>1, <1>5, <2>2, <2>3, <2>4, StopKeeps
  <2>5. CASE h = subject /\ status = "failed"
    BY <1>1, <2>2, <2>3, <2>5, StopKeeps
  <2> QED
    BY <1>7, <2>4, <2>5
<1>8. Host!Runs(r, "stop_service", i, "disable", stopped)
  BY <1>4 DEF Host!StopService
<1>9. CASE subject' = Host!Prints(stopped, r, Host!Item("stop_service", "ok", i), "disable")
  <2>1. PICK t : t = Host!Prints(stopped, r, Host!Item("stop_service", "ok", i), "disable")
    OBVIOUS
  <2>2. "ok" \in {"ok", "failed"} /\ subject' = t
    BY <1>9, <2>1
  <2> QED
    BY <1>5, <1>7, <2>1, <2>2
<1>10. CASE subject' # Host!Prints(stopped, r, Host!Item("stop_service", "ok", i), "disable")
  <2>1. PICK h \in {subject, stopped} :
          subject' = [Host!Prints(h, r, Host!Item("stop_service", "failed", i), "disable")
                        EXCEPT !.faults = Host!Prints(h, r, Host!Item("stop_service", "failed", i), "disable").faults + 1]
    BY <1>8, <1>10 DEF Host!Runs
  <2> QED
    BY <1>5, <1>6, <1>7, <2>1
<1> QED
  BY <1>9, <1>10

\* systemd disables a surplus worker, or fails.
LEMMA DisableServiceKeeps ==
  ASSUME HostHolds, NEW r \in Requests, Host!DisableService(r)
  PROVE  HostHolds'
<1> USE DEF Host!Becomes, Host!Script
<1> DEFINE s == subject.script[r]  i == s.at
<1>1. s.pc = "disable"
  BY DEF Host!DisableService
<1>2. ScriptOK(s) /\ HostShape /\ DOMAIN subject = HostFields /\ DOMAIN s = ScriptFields
  BY <1>1 DEF HostHolds, HostShape, ScriptOK
<1>3. i \in Nat /\ s.pc \notin {"off", "ended"} /\ s.todo \subseteq Nat
  BY <1>1, <1>2, InstancesRange DEF ScriptOK
<1>4. PICK disabled : disabled = [subject EXCEPT !.enabled = subject.enabled \ {i}]
  OBVIOUS
<1>5. /\ BesideScripts(disabled) /\ disabled.env = subject.env /\ disabled.running = subject.running
      /\ disabled.enabled = subject.enabled \ {i}
  BY <1>2, <1>4 DEF BesideScripts, HostFields
<1>6. BesideScripts(subject)
  BY <1>2 DEF BesideScripts
<1>7. ASSUME NEW h, BesideScripts(h), NEW status \in {"ok", "failed"}, NEW t,
             t = Host!Prints(h, r, Host!Item("disable_service", status, i), "stop"),
             NEW u, u = Host!NextSurplus(t, r, s.todo \ {i}),
             subject' = u \/ \E spent : subject' = [u EXCEPT !.faults = spent],
             h = disabled \/ (h = subject /\ status = "failed")
      PROVE  HostHolds'
  <2>1. PICK item : item = Host!Item("disable_service", status, i)
    OBVIOUS
  <2>2. Host!Parsed(item) = item /\ item \in Items /\ item.action = "disable_service" /\ item.instance = i
        /\ FailedOf(item) = IF status = "failed" THEN {i} ELSE {}
    <3>1. "disable_service" \in Host!ScaleActions /\ status \in Host!ScaleStatuses
      BY DEF Host!ScaleActions, Host!ScaleStatuses
    <3> QED
      <4>1. PICK at \in Nat : at = i
        BY <1>3
      <4>2. PICK action \in Host!ScaleActions : action = "disable_service"
        BY <3>1
      <4>3. item = Host!Item(action, status, at)
        BY <2>1, <4>1, <4>2
      <4>4. /\ Host!Parsed(item) = item /\ item \in Items /\ item.action = action /\ item.instance = at
            /\ item.status = status
        BY <3>1, <4>1, <4>3, ItemParsed
      <4>5. FailedOf(item) = IF status = "failed" THEN {at} ELSE {}
        BY <4>4 DEF FailedOf
      <4> QED
        BY <4>1, <4>2, <4>4, <4>5
  <2>3. PICK script : script = s
    OBVIOUS
  <2>4. PrintsTo(t, h, script, item, "stop", r)
    <3>1. script.pc # "off" /\ ScriptOK(script) /\ script = subject.script[r]
      BY <1>2, <1>3, <2>3
    <3> QED
      BY <1>2, <1>7, <2>1, <2>2, <3>1, PrintedScript
  <2>5. PICK y : y = [script EXCEPT !.items = Append(script.items, item), !.pc = "stop"]
    OBVIOUS
  <2>6. /\ t.script[r] = y /\ DOMAIN t = HostFields /\ DOMAIN t.script = Requests
        /\ DOMAIN y = ScriptFields /\ y.at = i
    BY <1>2, <2>3, <2>4, <2>5 DEF PrintsTo, ScriptFields
  <2>7. PICK left \in SUBSET Nat : left = s.todo \ {i}
    BY <1>3
  <2>8. PICK next, at : ScriptPlaced(u, t, r, y, next, at, left)
    BY <1>7, <2>6, <2>7, SurplusPlaces
  <2>9. PICK x : x = [s EXCEPT !.items = Append(s.items, item), !.pc = next, !.at = at, !.todo = left]
    OBVIOUS
  <2>10. x = [y EXCEPT !.pc = next, !.at = at, !.todo = left]
    BY <1>2, <2>3, <2>5, <2>9 DEF ScriptFields
  <2>11. u = [t EXCEPT !.script = [t.script EXCEPT ![r] = x]]
    BY <2>8, <2>10 DEF ScriptPlaced
  <2>12. Moves(r, h, s, x, item) /\ NextPlace(s, x, item, next, at, left)
    <3>1. PICK pc : pc = "stop"
      OBVIOUS
    <3>2. t = Host!Prints(h, r, item, pc)
      BY <1>7, <2>1, <3>1
    <3>3. script = subject.script[r] /\ script.pc \notin {"off", "ended"}
      BY <1>3, <2>3
    <3>4. x = [script EXCEPT !.items = Append(script.items, item), !.pc = next, !.at = at, !.todo = left]
      BY <2>3, <2>9
    <3>5. BesideScripts(h) /\ ButFaults(u)
      BY <1>7 DEF ButFaults
    <3>6. item \in Items /\ Host!Parsed(item) = item
      BY <2>2
    <3>7. Moves(r, h, script, x, item) /\ NextPlace(script, x, item, next, at, left)
      BY <2>11, <3>2, <3>3, <3>4, <3>5, <3>6, PrintPlaces
    <3> QED
      BY <2>3, <3>7
  <2>13. SurplusGoes(s, next, at, left)
    BY <2>6, <2>8 DEF ScriptPlaced, SurplusGoes
  <2>14. CASE h = disabled
    BY <1>1, <1>5, <2>2, <2>7, <2>12, <2>13, <2>14, DisableKeeps
  <2>15. CASE h = subject /\ status = "failed"
    BY <1>1, <2>2, <2>7, <2>12, <2>13, <2>15, DisableKeeps
  <2> QED
    BY <1>7, <2>14, <2>15
<1>8. \/ subject' = Host!NextSurplus(Host!Prints(disabled, r, Host!Item("disable_service", "ok", i), "stop"),
                                    r, s.todo \ {i})
      \/ \E spent :
           subject' = [Host!NextSurplus(Host!Prints(subject, r, Host!Item("disable_service", "failed", i), "stop"),
                                        r, s.todo \ {i}) EXCEPT !.faults = spent]
  <2>1. PICK ok : ok = Host!NextSurplus(Host!Prints(disabled, r, Host!Item("disable_service", "ok", i), "stop"),
                                        r, s.todo \ {i})
    OBVIOUS
  <2>2. PICK failed : failed =
          Host!NextSurplus(Host!Prints(subject, r, Host!Item("disable_service", "failed", i), "stop"),
                           r, s.todo \ {i})
    OBVIOUS
  <2>3. subject' = ok \/ subject' = [failed EXCEPT !.faults = failed.faults + 1]
    BY <1>4, <2>1, <2>2 DEF Host!DisableService
  <2> QED
    BY <2>1, <2>2, <2>3
<1>9. {"ok", "failed"} = {"ok", "failed"} /\ "ok" \in {"ok", "failed"} /\ "failed" \in {"ok", "failed"}
  OBVIOUS
<1>10. CASE subject' = Host!NextSurplus(Host!Prints(disabled, r, Host!Item("disable_service", "ok", i), "stop"),
                                        r, s.todo \ {i})
  BY <1>5, <1>7, <1>9, <1>10
<1>11. CASE \E spent :
             subject' = [Host!NextSurplus(Host!Prints(subject, r, Host!Item("disable_service", "failed", i), "stop"),
                                          r, s.todo \ {i}) EXCEPT !.faults = spent]
  BY <1>6, <1>7, <1>9, <1>11
<1> QED
  BY <1>8, <1>10, <1>11

\* Sizes of sets are what they are in the module of the host.
LEMMA HostCounts ==
  ASSUME NEW S
  PROVE  Host!Cardinality(S) = Cardinality(S)
BY DEF Host!Cardinality, Cardinality

\* Quotients and remainders of the places in a plan.
LEMMA WorkerPlaces ==
  ASSUME NEW i \in Nat
  PROVE  /\ (3 * i) \div 3 = i /\ (3 * i) % 3 = 0
         /\ (3 * i + 1) \div 3 = i /\ (3 * i + 1) % 3 = 1
         /\ (3 * i + 2) \div 3 = i /\ (3 * i + 2) % 3 = 2
OBVIOUS

\* Quotients and remainders of the places of the surplus in a plan.
LEMMA SurplusOrder ==
  ASSUME NEW c \in Nat
  PROVE  /\ (2 * c + 2) \div 2 = c + 1 /\ (2 * c + 2) % 2 = 0
         /\ (2 * c + 3) \div 2 = c + 1 /\ (2 * c + 3) % 2 = 1
OBVIOUS

\* Of a finite set of naturals a greater one has more before it.
LEMMA MoreBefore ==
  ASSUME NEW S \in SUBSET Nat, IsFiniteSet(S), NEW i \in S, NEW k \in S, i < k
  PROVE  /\ Cardinality({j \in S : j < i}) \in Nat /\ Cardinality({j \in S : j < k}) \in Nat
         /\ Cardinality({j \in S : j < i}) < Cardinality({j \in S : j < k})
<1>1. PICK A \in SUBSET S : A = {j \in S : j < i}
  OBVIOUS
<1>2. PICK B \in SUBSET S : B = {j \in S : j < k}
  OBVIOUS
<1>3. IsFiniteSet(A) /\ IsFiniteSet(B) /\ Cardinality(A) \in Nat /\ Cardinality(B) \in Nat
  BY FS_Subset, FS_CardinalityType
<1>4. A \in SUBSET B /\ i \in B /\ i \notin A
  <2>1. \A j \in S : j < i => j < k
    OBVIOUS
  <2>2. \A j \in A : j \in B
    BY <1>1, <1>2, <2>1
  <2>3. i \in B
    BY <1>2
  <2>4. i \notin A
    BY <1>1
  <2> QED
    BY <2>2, <2>3, <2>4
<1>5. Cardinality(A) <= Cardinality(B) /\ (Cardinality(A) = Cardinality(B) => A = B)
  BY <1>3, <1>4, FS_Subset
<1> QED
  BY <1>1, <1>2, <1>3, <1>4, <1>5

\* Before an element of a finite set there are fewer than all.
LEMMA FewerBefore ==
  ASSUME NEW S \in SUBSET Nat, IsFiniteSet(S), NEW i \in S
  PROVE  /\ Cardinality({j \in S : j < i}) \in Nat /\ Cardinality(S) \in Nat
         /\ Cardinality({j \in S : j < i}) + 1 <= Cardinality(S)
<1>1. PICK A \in SUBSET S : A = {j \in S : j < i}
  OBVIOUS
<1>2. IsFiniteSet(A) /\ Cardinality(A) \in Nat /\ Cardinality(S) \in Nat
  BY FS_Subset, FS_CardinalityType
<1>3. i \notin A
  BY <1>1
<1>4. Cardinality(A) <= Cardinality(S) /\ (Cardinality(A) = Cardinality(S) => A = S)
  BY <1>2, FS_Subset
<1> QED
  BY <1>1, <1>2, <1>3, <1>4

\* The worker that is named by how many are before it.
LEMMA NthIs ==
  ASSUME NEW S \in SUBSET Nat, IsFiniteSet(S), NEW i \in S, NEW c, c = Cardinality({j \in S : j < i})
  PROVE  Host!Nth(S, c + 1) = i
<1>1. c \in Nat
  BY FewerBefore
<1>2. \A k \in S : Cardinality({j \in S : j < k}) = c => k = i
  <2> SUFFICES ASSUME NEW k \in S, Cardinality({j \in S : j < k}) = c, k # i PROVE FALSE
    OBVIOUS
  <2>1. CASE i < k
    BY <1>1, <2>1, MoreBefore
  <2>2. CASE k < i
    BY <1>1, <2>2, MoreBefore
  <2> QED
    BY <2>1, <2>2
<1>3. PICK x : x = Host!Nth(S, c + 1)
  OBVIOUS
<1>4. Host!Cardinality({j \in S : j < i}) = (c + 1) - 1
  <2>1. Host!Cardinality({j \in S : j < i}) = c
    BY HostCounts
  <2> QED
    BY <1>1, <2>1
<1>5. x \in S /\ Host!Cardinality({j \in S : j < x}) = (c + 1) - 1
  BY <1>3, <1>4 DEF Host!Nth
<1>6. x \in S /\ Cardinality({j \in S : j < x}) = c
  <2>1. Cardinality({j \in S : j < x}) = (c + 1) - 1
    BY <1>5, HostCounts
  <2> QED
    BY <1>1, <1>5, <2>1
<1> QED
  BY <1>2, <1>3, <1>6

\* The steps of a plan for a worker that is asked for, and for one that is not.
Grown(i) == << IF i \in Host!Existing THEN Host!Item("update_env", "skipped", i)
                                      ELSE Host!Item("create_env", "pending", i),
               Host!Item("start_service", "pending", i), Host!Item("wait_heartbeat", "pending", i) >>
Shrunk(i) == << Host!Item("stop_service", "pending", i), Host!Item("disable_service", "pending", i) >>
PlanStep(n, k) == IF k = 1 THEN Host!PlanUnit
              ELSE IF k <= 3 * n + 1 THEN Grown((k + 1) \div 3)[((k + 1) % 3) + 1]
              ELSE Shrunk(Host!Nth(Extra(subject.env, n), (k - 3 * n) \div 2))[((k - 3 * n) % 2) + 1]

\* A plan is as long as its steps, and they are these.
LEMMA PlanSteps ==
  ASSUME NEW n \in Instances, NEW plan, plan = Host!PlanOf(n),
         NEW size, size = 1 + 3 * n + 2 * Cardinality(Extra(subject.env, n))
  PROVE  /\ size \in Nat /\ DOMAIN plan = 1 .. size /\ Len(plan) = size
         /\ \A k \in 1 .. size : plan[k] = PlanStep(n, k)
<1>1. Extra(subject.env, n) \in SUBSET Instances /\ IsFiniteSet(Instances) /\ n \in Nat
  BY HostAssumption, InstancesRange DEF Extra
<1>2. PICK E \in SUBSET Instances : E = Extra(subject.env, n)
  BY <1>1
<1>3. Cardinality(E) \in Nat
  BY <1>1, FS_Subset, FS_CardinalityType
<1>4. size \in Nat
  BY <1>1, <1>2, <1>3
<1>5. plan = [k \in 1 .. size |-> PlanStep(n, k)]
  <2>1. Host!Surplus(n) = Extra(subject.env, n) /\ Host!Cardinality(Host!Surplus(n)) = Cardinality(Extra(subject.env, n))
    BY SurplusIsExtra, HostCounts
  <2> QED
    BY <2>1 DEF Host!PlanOf, PlanStep, Grown, Shrunk
<1>6. PICK X : X = {plan[k] : k \in 1 .. size}
  OBVIOUS
<1>7. plan \in [1 .. size -> X]
  BY <1>5, <1>6
<1>8. Len(plan) = size
  BY <1>4, <1>7
<1> QED
  BY <1>4, <1>5, <1>8

\* The steps of a plan by the workers.
LEMMA PlanIsFit ==
  ASSUME HostShape, NEW n \in Instances, NEW x, x.plan = Host!PlanOf(n), x.n = n
  PROVE  PlanFits(x, subject.env)
<1> DEFINE E == Extra(subject.env, n)
<1>1. PICK plan : plan = x.plan
  OBVIOUS
<1>2. PICK size : size = 1 + 3 * n + 2 * Cardinality(E)
  OBVIOUS
<1>3. /\ size \in Nat /\ DOMAIN plan = 1 .. size /\ Len(plan) = size
      /\ \A k \in 1 .. size : plan[k] = PlanStep(n, k)
  BY <1>1, <1>2, PlanSteps
<1>4. n \in Nat /\ Instances \subseteq Nat /\ E \in SUBSET Instances /\ IsFiniteSet(E)
  <2>1. E \in SUBSET Instances /\ IsFiniteSet(Instances)
    BY HostAssumption DEF Extra
  <2> QED
    BY <2>1, InstancesRange, FS_Subset
<1>5. PICK total \in Nat : total = Cardinality(E)
  BY <1>4, FS_CardinalityType
<1>6. size = 1 + 3 * n + 2 * total
  BY <1>2, <1>5
<1>7. plan[1].action = "skip"
  <2>1. plan[1] = Host!PlanUnit
    BY <1>3, <1>4, <1>6 DEF PlanStep
  <2> QED
    BY <2>1 DEF Host!PlanUnit, Host!Item
<1>8. ASSUME NEW i \in 1 .. n
      PROVE  /\ plan[3 * i - 1].instance = i
             /\ plan[3 * i - 1].action = IF subject.env[i] # "none" THEN "update_env" ELSE "create_env"
             /\ plan[3 * i].action = "start_service" /\ plan[3 * i].instance = i
             /\ plan[3 * i + 1].action = "wait_heartbeat" /\ plan[3 * i + 1].instance = i
  <2>1. i \in Nat /\ i >= 1 /\ i <= n /\ i \in Instances
    BY <1>4, InstancesRange
  <2>2. PICK a \in 1 .. size : a = 3 * i - 1 /\ a # 1 /\ a <= 3 * n + 1 /\ a + 1 = 3 * i
    BY <1>4, <1>6, <2>1
  <2>3. PICK b \in 1 .. size : b = 3 * i /\ b # 1 /\ b <= 3 * n + 1 /\ b + 1 = 3 * i + 1
    BY <1>4, <1>6, <2>1
  <2>4. PICK c \in 1 .. size : c = 3 * i + 1 /\ c # 1 /\ c <= 3 * n + 1 /\ c + 1 = 3 * i + 2
    BY <1>4, <1>6, <2>1
  <2>5. plan[a] = Grown(i)[1]
    <3>1. plan[a] = Grown((a + 1) \div 3)[((a + 1) % 3) + 1]
      BY <1>3, <2>2 DEF PlanStep
    <3>2. (a + 1) \div 3 = i /\ ((a + 1) % 3) + 1 = 1
      BY <2>1, <2>2, WorkerPlaces
    <3> QED
      BY <3>1, <3>2
  <2>6. plan[b] = Grown(i)[2]
    <3>1. plan[b] = Grown((b + 1) \div 3)[((b + 1) % 3) + 1]
      BY <1>3, <2>3 DEF PlanStep
    <3>2. (b + 1) \div 3 = i /\ ((b + 1) % 3) + 1 = 2
      BY <2>1, <2>3, WorkerPlaces
    <3> QED
      BY <3>1, <3>2
  <2>7. plan[c] = Grown(i)[3]
    <3>1. plan[c] = Grown((c + 1) \div 3)[((c + 1) % 3) + 1]
      BY <1>3, <2>4 DEF PlanStep
    <3>2. (c + 1) \div 3 = i /\ ((c + 1) % 3) + 1 = 3
      BY <2>1, <2>4, WorkerPlaces
    <3> QED
      BY <3>1, <3>2
  <2>8. i \in Host!Existing <=> subject.env[i] # "none"
    BY <2>1 DEF Host!Existing, Host!None
  <2>9. plan[a].instance = i /\ plan[a].action = IF subject.env[i] # "none" THEN "update_env" ELSE "create_env"
    BY <2>5, <2>8 DEF Grown, Host!Item
  <2>10. plan[b].action = "start_service" /\ plan[b].instance = i
    BY <2>6 DEF Grown, Host!Item
  <2>11. plan[c].action = "wait_heartbeat" /\ plan[c].instance = i
    BY <2>7 DEF Grown, Host!Item
  <2> QED
    BY <2>2, <2>3, <2>4, <2>9, <2>10, <2>11
<1>9. ASSUME NEW i \in E, NEW k, k = 3 * n + 2 * Cardinality({j \in E : j < i}) + 2
      PROVE  /\ plan[k].action = "stop_service" /\ plan[k].instance = i
             /\ plan[k + 1].action = "disable_service" /\ plan[k + 1].instance = i
  <2>1. PICK S \in SUBSET Nat : S = E
    BY <1>4
  <2>2. PICK c : c = Cardinality({j \in S : j < i})
    OBVIOUS
  <2>3. c \in Nat /\ c + 1 <= total /\ Host!Nth(S, c + 1) = i
    BY <1>4, <1>5, <1>9, <2>1, <2>2, FewerBefore, NthIs
  <2>4. k = 3 * n + 2 * c + 2
    BY <1>9, <2>1, <2>2
  <2>5. PICK a \in 1 .. size : a = k /\ a # 1 /\ ~ (a <= 3 * n + 1) /\ a - 3 * n = 2 * c + 2
    BY <1>4, <1>6, <2>3, <2>4
  <2>6. PICK b \in 1 .. size : b = k + 1 /\ b # 1 /\ ~ (b <= 3 * n + 1) /\ b - 3 * n = 2 * c + 3
    BY <1>4, <1>6, <2>3, <2>4
  <2>7. plan[a] = Shrunk(i)[1]
    <3>1. plan[a] = Shrunk(Host!Nth(E, (a - 3 * n) \div 2))[((a - 3 * n) % 2) + 1]
      BY <1>3, <2>5 DEF PlanStep
    <3>2. (a - 3 * n) \div 2 = c + 1 /\ ((a - 3 * n) % 2) + 1 = 1
      BY <2>3, <2>5, SurplusOrder
    <3> QED
      BY <2>1, <2>3, <3>1, <3>2
  <2>8. plan[b] = Shrunk(i)[2]
    <3>1. plan[b] = Shrunk(Host!Nth(E, (b - 3 * n) \div 2))[((b - 3 * n) % 2) + 1]
      BY <1>3, <2>6 DEF PlanStep
    <3>2. (b - 3 * n) \div 2 = c + 1 /\ ((b - 3 * n) % 2) + 1 = 2
      BY <2>3, <2>6, SurplusOrder
    <3> QED
      BY <2>1, <2>3, <3>1, <3>2
  <2> QED
    BY <2>5, <2>6, <2>7, <2>8 DEF Shrunk, Host!Item
<1>10. Len(plan) = 1 + 3 * n + 2 * Cardinality(E) /\ DOMAIN plan = 1 .. Len(plan)
  BY <1>2, <1>3
<1> QED
  BY <1>1, <1>7, <1>8, <1>9, <1>10 DEF PlanFits

\* A script begins with a plan that is made right before.
LEMMA ApplyKeeps ==
  ASSUME HostHolds, NEW r \in Requests, Host!ScaleApply(r)
  PROVE  HostHolds'
<1> USE DEF Host!Becomes, Host!Script
<1> DEFINE s == subject.script[r]
<1>1. s.pc = "off"
  BY DEF Host!ScaleApply
<1>2. HostShape /\ DOMAIN subject = HostFields /\ DOMAIN subject.script = Requests
  BY DEF HostHolds, HostShape
<1>3. PICK greeting : greeting = Host!Parsed(Host!Greeting)
  OBVIOUS
<1>4. greeting \in Items /\ greeting.action = "skip" /\ greeting.status = "warning"
  BY <1>3 DEF Host!Parsed, Host!Greeting, Host!Item, Host!NoInstance, Host!ScaleActions,
              Host!ScaleStatuses, Items
<1>5. PICK t : t = Host!Touches(subject, r)
  OBVIOUS
<1>6. PICK alone \in BOOLEAN : alone = (Host!Active = {})
  OBVIOUS
<1>s. PICK spent : spent = IF Host!Begun = {} THEN t.faults ELSE t.faults + 1
  OBVIOUS
<1>7. PICK n \in Instances, prefix \in Names :
        subject' = [t EXCEPT !.script[r] = [Host!NewScript(n, prefix, Host!PlanOf(n)) EXCEPT
                                              !.alone = alone, !.items = <<greeting>>],
                             !.faults = spent]
  BY <1>3, <1>5, <1>6, <1>s DEF Host!ScaleApply
<1>8. PICK x : x = [Host!NewScript(n, prefix, Host!PlanOf(n)) EXCEPT !.alone = alone, !.items = <<greeting>>]
  OBVIOUS
<1>9. /\ DOMAIN x = ScriptFields /\ x.pc = "unit" /\ x.code = 0 /\ x.n = n /\ x.prefix = prefix
      /\ x.at = 1 /\ x.todo = {} /\ x.items = <<greeting>> /\ x.plan = Host!PlanOf(n)
      /\ x.before = subject.running /\ x.alone = alone
  BY <1>8 DEF Host!NewScript, ScriptFields
<1>10. /\ DOMAIN t = HostFields /\ t.env = subject.env /\ t.running = subject.running
       /\ t.enabled = subject.enabled /\ t.byhand = subject.byhand
       /\ t.script = [q \in Requests |-> IF q = r \/ subject.script[q].pc = "off" THEN subject.script[q]
                                         ELSE [subject.script[q] EXCEPT !.alone = FALSE]]
  BY <1>2, <1>5 DEF Host!Touches, HostFields
<1>11. subject'.script = [t.script EXCEPT ![r] = x]
  BY <1>7, <1>8, <1>10 DEF HostFields
<1>12. Disturbs(subject'.script, r) /\ subject'.script[r] = x
  BY <1>10, <1>11 DEF Disturbs
<1>13. /\ DOMAIN subject' = HostFields /\ subject'.env = subject.env /\ subject'.running = subject.running
       /\ subject'.enabled = subject.enabled /\ subject'.byhand = subject.byhand
  BY <1>7, <1>10 DEF HostFields
<1>14. HostShape' /\ Benign(x.n, x.prefix)
  BY <1>2, <1>12, <1>13, HostStays DEF Disturbs
<1>15. <<greeting>> \in Seq(Items) /\ Len(<<greeting>>) = 1 /\ <<greeting>>[1] = greeting
  BY <1>4
<1>16. ScriptOK(x)
  BY <1>9, <1>15 DEF ScriptOK
<1>17. Continues(s, x)
  BY <1>1, <1>9 DEF Continues
<1>18. Ups(x) = {} /\ \A env : Downs(x, env) = {}
  BY <1>9 DEF Ups, Downs
<1>19. Achieves(x)
  BY <1>9, <1>18 DEF Achieves, Achieved
<1>20. Unmoved(x, subject'.running)
  BY <1>9, <1>13, <1>18 DEF Unmoved
<1>21. PlanFits(x, subject'.env)
  BY <1>2, <1>9, <1>13, PlanIsFit
<1>22. Printed(x, 0) /\ Taken(x, subject'.env) = 0
  <2>1. Taken(x, subject'.env) = 0
    BY <1>9 DEF Taken
  <2>2. Printed(x, 0)
    BY <1>4, <1>9, <1>15 DEF Printed
  <2> QED
    BY <2>1, <2>2
<1>23. Keeps(x)
  BY <1>20, <1>21, <1>22 DEF Keeps
<1>24. x.pc # "start"
  BY <1>9
<1> QED
  BY <1>12, <1>13, <1>14, <1>16, <1>17, <1>19, <1>23, <1>24, ScriptActs

\* A host before it is asked to scale.
LEMMA HostBegins ==
  ASSUME Host!ScaleInit
  PROVE  HostHolds
<1>1. PICK env \in [Instances -> {"none", Old}], unit \in BOOLEAN, template \in BOOLEAN :
        \E up \in SUBSET {i \in Instances : env[i] # "none"} :
          subject = [env |-> env, unit |-> unit, template |-> template,
                     running |-> [i \in Instances |-> IF i \in up THEN env[i] ELSE "none"],
                     enabled |-> up, script |-> [r \in Requests |-> Host!Unsent],
                     byhand |-> FALSE, faults |-> 0]
  BY DEF Host!ScaleInit, Host!None
<1>2. PICK up \in SUBSET {i \in Instances : env[i] # "none"} :
        subject = [env |-> env, unit |-> unit, template |-> template,
                   running |-> [i \in Instances |-> IF i \in up THEN env[i] ELSE "none"],
                   enabled |-> up, script |-> [r \in Requests |-> Host!Unsent],
                   byhand |-> FALSE, faults |-> 0]
  BY <1>1
<1>3. HostShape
  BY <1>2 DEF HostShape, HostFields
<1>4. \A r \in Requests : subject.script[r].pc = "off"
  BY <1>2 DEF Host!Unsent
<1> QED
  BY <1>3, <1>4 DEF HostHolds, ScriptOK, Begins

\* The host as it is stays as it should be.
LEMMA HostKeeps ==
  ASSUME HostHolds, Host!ScaleNext
  PROVE  HostHolds'
BY ApplyKeeps, UnitKeeps, EnvKeeps, EndKeeps, ServiceKeeps, HeartbeatKeeps, ListKeeps,
   StopServiceKeeps, DisableServiceKeeps, TimeoutKeeps, ActionKeeps DEF Host!ScaleNext

\* Retries: what every script has done, when nothing went wrong.
LEMMA HostAgrees ==
  ASSUME HostHolds
  PROVE  Host!RetriesAgree
<1> USE DEF Host!Script
<1> SUFFICES ASSUME Host!AllWell,
                    \A q, r \in Requests : subject.script[q].n = subject.script[r].n
                                           /\ subject.script[q].prefix = subject.script[r].prefix,
                    NEW r \in Requests, NEW i \in Instances
             PROVE  IF i <= subject.script[r].n
                      THEN /\ i \in subject.enabled /\ subject.running[i] # "none"
                           /\ subject.env[i] = subject.script[r].prefix
                      ELSE subject.running[i] = "none" /\ i \notin subject.enabled
  BY DEF Host!RetriesAgree, Host!None
<1> DEFINE s == subject.script[r]
<1>1. ~ subject.byhand /\ \A q \in Requests :
        /\ subject.script[q].pc = "ended" /\ subject.script[q].code = 0
        /\ Host!Failed(subject.script[q].items) = {}
  BY DEF Host!AllWell
<1>2. Agreed
  BY <1>1 DEF Agreed
<1>3. Achieved(s, subject.env, subject.running, subject.enabled) /\ ScriptOK(s) /\ HostShape
  BY <1>1, <1>2 DEF HostHolds, Begins
<1>4. s.n \in Instances /\ Instances \subseteq Nat /\ s.n \in Nat /\ i >= 1
  BY <1>1, <1>3, InstancesRange DEF ScriptOK
<1>5. CASE i <= s.n
  <2>1. i \in Ups(s) \ Host!Failed(s.items)
    BY <1>1, <1>4, <1>5 DEF Ups
  <2> QED
    BY <1>3, <1>5, <2>1 DEF Achieved
<1>6. CASE ~ i <= s.n
  <2>1. CASE subject.env[i] = "none"
    BY <1>3, <1>6, <2>1 DEF HostShape
  <2>2. CASE subject.env[i] # "none"
    <3>1. i \in Downs(s, subject.env) \ Host!Failed(s.items)
      BY <1>1, <1>4, <1>6, <2>2 DEF Downs, Extra
    <3> QED
      BY <1>3, <1>6, <3>1 DEF Achieved
  <2> QED
    BY <2>1, <2>2
<1> QED
  BY <1>5, <1>6

\* A script that nobody disturbed took the steps of its plan, and did them.
LEMMA HostKeepsPlan ==
  ASSUME HostHolds
  PROVE  Host!ScaleKeepsPlan
<1> USE DEF Host!Script
<1> SUFFICES ASSUME NEW r \in Requests, NEW s, s = subject.script[r],
                    s.pc = "ended", s.code = 0, s.alone
             PROVE  /\ Host!Follows(s.items, s.plan)
                    /\ \A i \in Instances \ Host!Failed(s.items) :
                         IF i <= s.n
                           THEN /\ subject.env[i] = s.prefix /\ i \in subject.enabled
                                /\ subject.running[i] = IF s.before[i] = "none" THEN s.prefix ELSE s.before[i]
                           ELSE subject.running[i] = "none" /\ i \notin subject.enabled
  BY DEF Host!ScaleKeepsPlan, Host!None
<1>1. /\ ScriptOK(s) /\ HostShape /\ Achieved(s, subject.env, subject.running, subject.enabled)
      /\ Unmoved(s, subject.running) /\ PlanFits(s, subject.env) /\ Printed(s, Taken(s, subject.env))
  BY DEF HostHolds, Begins
<1>2. s.n \in Instances /\ Instances \subseteq Nat /\ s.n \in Nat /\ \A i \in Instances : i >= 1
      /\ s.items \in Seq(Items)
  BY <1>1, InstancesRange DEF ScriptOK
<1>3. Host!Follows(s.items, s.plan)
  <2>1. PICK items \in Seq(Items) : items = s.items
    BY <1>2
  <2>2. PICK total \in Nat : total = 3 * s.n + 2 * Cardinality(Extra(subject.env, s.n))
    <3>1. PICK E \in SUBSET Instances : E = Extra(subject.env, s.n)
      BY DEF Extra
    <3>2. Cardinality(E) \in Nat
      BY HostAssumption, FS_Subset, FS_CardinalityType
    <3> QED
      BY <1>2, <3>1, <3>2
  <2>3. Len(s.plan) = 1 + total /\ DOMAIN s.plan = 1 .. Len(s.plan) /\ s.plan[1].action = "skip"
    <3>1. Len(s.plan) = 1 + 3 * s.n + 2 * Cardinality(Extra(subject.env, s.n))
      BY <1>1 DEF PlanFits
    <3>2. DOMAIN s.plan = 1 .. Len(s.plan) /\ s.plan[1].action = "skip"
      BY <1>1 DEF PlanFits
    <3>3. Len(s.plan) = 1 + total
      <4>1. PICK c \in Nat : c = Cardinality(Extra(subject.env, s.n))
        <5>1. PICK E \in SUBSET Instances : E = Extra(subject.env, s.n)
          BY DEF Extra
        <5>2. Cardinality(E) \in Nat
          BY HostAssumption, FS_Subset, FS_CardinalityType
        <5> QED
          BY <5>1, <5>2
      <4>2. Len(s.plan) = 1 + 3 * s.n + 2 * c /\ total = 3 * s.n + 2 * c
        BY <2>2, <3>1, <4>1
      <4> QED
        BY <1>2, <4>2
    <3> QED
      BY <3>2, <3>3
  <2>4. Printed(s, total)
    BY <1>1, <2>2 DEF Taken
  <2>5. Len(items) \in Nat /\ DOMAIN items = 1 .. Len(items)
    OBVIOUS
  <2>6. total < Len(items) /\ (\A k \in 1 .. Len(items) - total : items[k].action = "skip")
        /\ \A k \in 1 .. total :
             /\ items[Len(items) - total + k].action = s.plan[k + 1].action
             /\ items[Len(items) - total + k].instance = s.plan[k + 1].instance
    BY <2>1, <2>4 DEF Printed
  <2>7. PICK a \in Nat : a = Len(items) - total
    BY <2>2, <2>5, <2>6
  <2>8. a \in DOMAIN items /\ 1 \in DOMAIN s.plan
    BY <2>2, <2>3, <2>5, <2>6, <2>7
  <2>9. Len(items) - a = Len(s.plan) - 1 /\ Len(s.plan) - 1 = total
    <3>1. PICK len \in Nat : len = Len(items)
      BY <2>5
    <3>2. PICK steps : steps = Len(s.plan)
      OBVIOUS
    <3>3. a = len - total /\ steps = 1 + total
      BY <2>3, <2>7, <3>1, <3>2
    <3>4. len - a = steps - 1 /\ steps - 1 = total
      BY <3>3
    <3> QED
      BY <3>1, <3>2, <3>4
  <2>10. \A k \in 1 .. a : items[k].action = "skip"
    BY <2>6, <2>7
  <2>11. \A k \in 1 .. Len(s.plan) - 1 :
           /\ items[a + k].action = s.plan[1 + k].action
           /\ items[a + k].instance = s.plan[1 + k].instance
    <3>1. \A k \in 1 .. total : k + 1 = 1 + k
      BY <2>2
    <3> QED
      BY <2>6, <2>7, <2>9, <3>1
  <2>12. \A k \in 1 .. 1 : s.plan[k].action = "skip"
    BY <2>3
  <2> QED
    <3>1. PICK plan : plan = s.plan
      OBVIOUS
    <3>2. \E b \in DOMAIN plan :
            /\ \A k \in 1 .. a : items[k].action = "skip"
            /\ \A k \in 1 .. b : plan[k].action = "skip"
            /\ Len(items) - a = Len(plan) - b
            /\ \A k \in 1 .. Len(plan) - b :
                 items[a + k].action = plan[b + k].action /\ items[a + k].instance = plan[b + k].instance
      BY <2>8, <2>9, <2>10, <2>11, <2>12, <3>1
    <3>3. Host!Follows(items, plan)
      BY <2>8, <3>2 DEF Host!Follows
    <3> QED
      BY <2>1, <3>1, <3>3
<1>4. ASSUME NEW i \in Instances \ Host!Failed(s.items), i <= s.n
      PROVE  /\ subject.env[i] = s.prefix /\ i \in subject.enabled
             /\ subject.running[i] = IF s.before[i] = "none" THEN s.prefix ELSE s.before[i]
  <2>1. i \in Ups(s) /\ i \in 1 .. s.n
    BY <1>2, <1>4 DEF Ups
  <2> QED
    BY <1>1, <1>4, <2>1 DEF Achieved, Unmoved
<1>5. ASSUME NEW i \in Instances \ Host!Failed(s.items), ~ i <= s.n
      PROVE  subject.running[i] = "none" /\ i \notin subject.enabled
  <2>1. CASE subject.env[i] = "none"
    BY <1>1, <2>1 DEF HostShape
  <2>2. CASE subject.env[i] # "none"
    <3>1. i \in Downs(s, subject.env)
      BY <1>2, <1>5, <2>2 DEF Downs, Extra
    <3> QED
      BY <1>1, <3>1 DEF Achieved
  <2> QED
    BY <2>1, <2>2
<1> QED
  BY <1>3, <1>4, <1>5

-----------------------------------------------------------------------------
(* The machines together.                                                  *)

UploadInv == UploadTypes /\ ManifestHolds /\ CountHolds

\* The invariant of the machine that is the topic, and that of the agent, which rests
\* when another machine is.
MachineInv ==
  /\ RunInv
  /\ topic = "wizard" => WizardHolds
  /\ topic = "schema" => SchemaHolds
  /\ topic = "upload" => UploadInv
  /\ topic = "index" => IndexHolds
  /\ topic = "host" => HostHolds
  /\ topic = "archive" => ArchiveHolds

\* Every machine begins as its invariant says.
LEMMA MachinesBegin == MachineInit => MachineInv
<1> SUFFICES ASSUME MachineInit PROVE MachineInv
  OBVIOUS
<1>1. RunInv
  BY Starts DEF MachineInit
<1>2. /\ topic = "wizard" => WizardHolds
      /\ topic = "schema" => SchemaHolds
      /\ topic = "upload" => UploadInv
      /\ topic = "index" => IndexHolds
      /\ topic = "host" => HostHolds
      /\ topic = "archive" => ArchiveHolds
  BY WizardKeeps, SchemaKeeps, UploadTypesKept, ManifestKept, CountKept, IndexKeeps, HostBegins,
     ArchiveKeeps DEF MachineInit, UploadInv
<1> QED
  BY <1>1, <1>2 DEF MachineInv

\* No step of a machine breaks an invariant.
LEMMA MachinesGoOn == MachineInv /\ [MachineNext]_<<childVars, topic, subject>> => MachineInv'
<1> SUFFICES ASSUME MachineInv, [MachineNext]_<<childVars, topic, subject>> PROVE MachineInv'
  OBVIOUS
<1>1. RunInv'
  <2>1. [ChildNext]_childVars
    BY DEF MachineNext, Beside
  <2> QED
    BY <2>1, RunStep DEF MachineInv
<1>2. CASE UNCHANGED <<topic, subject>>
  <2>1. WizardHolds => WizardHolds'
    BY <1>2 DEF WizardHolds
  <2>2. SchemaHolds => SchemaHolds'
    BY <1>2 DEF SchemaHolds, MigrationHolds, GateHolds
  <2>3. UploadInv => UploadInv'
    BY <1>2 DEF UploadInv, UploadTypes, ManifestHolds, CountHolds
  <2>4. IndexHolds => IndexHolds'
    BY <1>2 DEF IndexHolds
  <2>5. HostHolds => HostHolds'
    BY <1>2 DEF HostHolds, HostShape, Agreed
  <2>6. ArchiveHolds => ArchiveHolds'
    BY <1>2 DEF ArchiveHolds, FleetTypes
  <2> QED
    BY <1>1, <1>2, <2>1, <2>2, <2>3, <2>4, <2>5, <2>6 DEF MachineInv
<1>3. CASE Beside("wizard", Wizard!PageNext)
  <2>1. topic' = "wizard" /\ WizardHolds'
    BY <1>3, WizardKeeps DEF Beside, MachineInv
  <2> QED
    BY <1>1, <2>1 DEF MachineInv
<1>4. CASE Beside("schema", Schema!SchemaNext)
  <2>1. topic' = "schema" /\ SchemaHolds'
    BY <1>4, SchemaKeeps DEF Beside, MachineInv
  <2> QED
    BY <1>1, <2>1 DEF MachineInv
<1>5. CASE Beside("upload", Upload!UploadNext)
  <2>1. topic' = "upload" /\ UploadInv'
    BY <1>5, UploadTypesKept, ManifestKept, CountKept DEF Beside, MachineInv, UploadInv
  <2> QED
    BY <1>1, <2>1 DEF MachineInv
<1>6. CASE Beside("index", Index!IndexNext)
  <2>1. topic' = "index" /\ IndexHolds'
    BY <1>6, IndexKeeps DEF Beside, MachineInv
  <2> QED
    BY <1>1, <2>1 DEF MachineInv
<1>7. CASE Beside("host", Host!ScaleNext)
  <2>1. topic' = "host" /\ HostHolds'
    BY <1>7, HostKeeps DEF Beside, MachineInv
  <2> QED
    BY <1>1, <2>1 DEF MachineInv
<1>8. CASE Beside("archive", Archive!FleetNext)
  <2>1. topic' = "archive" /\ ArchiveHolds'
    BY <1>8, ArchiveKeeps DEF Beside, MachineInv
  <2> QED
    BY <1>1, <2>1 DEF MachineInv
<1> QED
  BY <1>2, <1>3, <1>4, <1>5, <1>6, <1>7, <1>8 DEF MachineNext

\* The page creates only what was checked as it is; a script of the schema is applied
\* once and in order, and a control that serves has the tables it needs; a closed
\* upload accounts for every artifact, and its manifest names only what is in the
\* bucket; every document that the index says is done is in it; a scaling leaves the
\* workers that its plan has shown, and retries agree; an archived worker has nothing
\* to do: whatever fails, and however the steps of the machine alternate.
THEOREM DoneAlwaysTrue == MachineSpec => []DoneIsTrue
<1>1. MachineInv => DoneIsTrue
  <2>1. WizardHolds => Wizard!CreatedWasChecked
    BY DEF WizardHolds, Wizard!CreatedWasChecked
  <2> QED
    BY <2>1, SchemaKeeps, UploadHolds, IndexKeeps, HostKeepsPlan, HostAgrees, ArchiveKeeps
    DEF MachineInv, UploadInv, DoneIsTrue
<1> QED
  BY <1>1, MachinesBegin, MachinesGoOn, PTL DEF MachineSpec

\* The agent of the machines runs as it does alone: one job at a time, a true report
\* of a shard, and an end that control is told of for every direct job.
THEOREM MachinesRunTruly == MachineSpec => []OneRunAtATime /\ ReportIsTrue /\ EndsAreTold
<1>1. MachineInv => OneRunAtATime /\ RunInv
  BY RunsOne DEF MachineInv
<1>2. [MachineNext]_<<childVars, topic, subject>> => [ChildNext]_childVars
  BY DEF MachineNext, Beside
<1>3. RunInv /\ [ChildNext]_childVars => [ReportsTruly]_childVars /\ [EndsTold]_childVars
  BY ReportsTrulyStep, EndsToldStep
<1> QED
  BY <1>1, <1>2, <1>3, MachinesBegin, MachinesGoOn, PTL
  DEF MachineSpec, ReportIsTrue, EndsAreTold, ReportsTruly, EndsTold
=============================================================================
