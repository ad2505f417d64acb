------------------------- MODULE ProgressLoggerTheorems -------------------------
(****************************************************************************)
(* What is proved of the progress logger, for any number of workers, any    *)
(* nesting of frames and any number of messages: below the messages there   *)
(* are exactly the frames that the next redraw erases, messages are not     *)
(* interleaved, and a line of a message is lost exactly when one frame only *)
(* is displayed and is erased.                                              *)
(****************************************************************************)
EXTENDS ProgressLogger, SequenceTheorems, TLAPS

Frame == [kind : {"cycle"}, iteration : Nat] \cup [kind : {"call"}]
Line == Frame \cup {MessageLine(w, part) : w \in Writers, part \in {1, 2}}
Places == {"none", "test", "tested", "wait", "woken", "lock", "draw", "final", "done"}

TypeOK ==
  /\ thread \in Places
  /\ owner \in Writers \cup {Display, Nobody}
  /\ current \in Seq(Frame) /\ displayed \in Seq(Frame)
  /\ drawn \in Nat
  /\ screen \in Seq(Line)
  /\ written \in [Writers -> 0..NoMessage]

(* The mutex is held while frames are drawn, and by whoever writes a        *)
(* message; nothing is displayed after the last redraw.                     *)
MutexOK ==
  /\ thread = "draw" <=> owner = Display
  /\ drawn <= Len(current)
  /\ thread # "draw" => drawn = 0
  /\ \A w \in Writers : written[w] # NoMessage <=> owner = w
  /\ thread \in {"draw", "done"} => displayed = <<>>
  /\ phase = "none" => thread = "none"

LoggerInv == TypeOK /\ MutexOK /\ ScreenConsistent

(* What a step may erase.                                                   *)
Kept == IF LoneFrameErased THEN LastLineLost ELSE MessagesStay

(* Line i of a screen is that of a message, and not the end of one whose    *)
(* beginning is elsewhere.                                                  *)
LineOK(lines, i) ==
  /\ IsMessageLine(lines[i])
  /\ \A w \in Writers :
       lines[i] = MessageLine(w, 2) => i > 1 /\ lines[i - 1] = MessageLine(w, 1)

------------------------------------------------------------------------------
(* Sequences.                                                               *)

LEMMA Prefix ==
  ASSUME NEW S, NEW s \in Seq(S), NEW n \in 0..Len(s)
  PROVE  /\ SubSeq(s, 1, n) \in Seq(S) /\ Len(SubSeq(s, 1, n)) = n
         /\ \A i \in 1..n : SubSeq(s, 1, n)[i] = s[i]
<1>1. n \in Int /\ \A i \in 1..n : s[i] \in S
  BY LenProperties, ElementOfSeq
<1>2. /\ SubSeq(s, 1, n) \in Seq(S)
      /\ Len(SubSeq(s, 1, n)) = IF 1 <= n THEN n - 1 + 1 ELSE 0
      /\ \A i \in 1..(n - 1 + 1) : SubSeq(s, 1, n)[i] = s[1 + i - 1]
  BY <1>1, SubSeqProperties
<1>3. n \in Nat
  BY LenProperties
<1>4. Len(SubSeq(s, 1, n)) = n
  BY <1>2, <1>3
<1>5. ASSUME NEW i \in 1..n PROVE SubSeq(s, 1, n)[i] = s[i]
  BY <1>2, <1>3
<1> QED  BY <1>2, <1>4, <1>5

(* What the parts of the screen are.                                        *)
LEMMA ScreenParts ==
  ASSUME TypeOK, MutexOK
  PROVE  /\ LastDrawn \in Seq(Frame) /\ Len(LastDrawn) \in Nat
         /\ MessageLines \in Int /\ Len(screen) = MessageLines + Len(LastDrawn)
         /\ Len(LastDrawn) = IF thread = "draw" THEN drawn ELSE Len(displayed)
         /\ Len(screen) \in Nat /\ Len(current) \in Nat /\ Len(displayed) \in Nat
         /\ Nobody \notin Writers /\ Display \notin Writers /\ Nobody # Display
<1>1. Len(screen) \in Nat /\ Len(current) \in Nat /\ Len(displayed) \in Nat
  BY LenProperties DEF TypeOK
<1>2. drawn \in 0..Len(current)
  BY <1>1 DEF TypeOK, MutexOK
<1>3. LastDrawn \in Seq(Frame) /\ Len(LastDrawn) = IF thread = "draw" THEN drawn ELSE Len(displayed)
  BY <1>2, Prefix DEF LastDrawn, TypeOK
<1>4. Len(LastDrawn) \in Nat
  BY <1>3, LenProperties
<1>5. MessageLines \in Int /\ Len(screen) = MessageLines + Len(LastDrawn)
  BY <1>1, <1>4 DEF MessageLines
<1>6. Nobody \notin Writers /\ Display \notin Writers /\ Nobody # Display
  BY OwnersDistinct DEF Nobody, Display
<1> QED  BY <1>1, <1>3, <1>4, <1>5, <1>6

(* The invariant of the screen, in parts.                                   *)
LEMMA ScreenConjuncts ==
  ScreenConsistent <=>
    /\ MessageLines \in Nat
    /\ \A i \in 1..Len(LastDrawn) : screen[MessageLines + i] = LastDrawn[i]
    /\ \A i \in 1..MessageLines : LineOK(screen, i)
    /\ \A w \in Writers :
         written[w] # NoMessage =>
           /\ LastDrawn = <<>>
           /\ written[w] = 1 => screen # <<>> /\ screen[Len(screen)] = MessageLine(w, 1)
BY DEF ScreenConsistent, LineOK

(* Lines that stay are those of messages still.                             *)
LEMMA LinesStay ==
  ASSUME LoggerInv, NEW n \in 0..MessageLines, \A i \in 1..n : screen'[i] = screen[i]
  PROVE  \A i \in 1..n : LineOK(screen', i)
<1>1. MessageLines \in Nat
  BY DEF LoggerInv, ScreenConsistent
<1>2. ASSUME NEW i \in 1..n PROVE LineOK(screen', i)
  <2>1. i \in 1..MessageLines /\ screen'[i] = screen[i] /\ (i > 1 => i - 1 \in 1..n)
    BY <1>1
  <2>2. LineOK(screen, i)
    BY <2>1, ScreenConjuncts DEF LoggerInv
  <2> QED  BY <2>1, <2>2 DEF LineOK
<1> QED  BY <1>2

(* To erase what was displayed leaves the messages, but for the last line   *)
(* above a lone frame.                                                      *)
LEMMA Erased ==
  ASSUME LoggerInv, thread # "draw", ClearDisplayedStackFrame
  PROVE  /\ screen' \in Seq(Line) /\ Len(screen') \in 0..MessageLines
         /\ \A i \in 1..Len(screen') : screen'[i] = screen[i] /\ LineOK(screen', i)
         /\ displayed' = <<>>
         /\ Kept
<1> DEFINE size == Len(displayed)
           lines == MessageLines
           n == IF size = 1 /\ lines > 0 THEN lines - 1 ELSE lines
<1>1. /\ size \in Nat /\ Len(screen) \in Nat /\ lines \in Nat
      /\ Len(screen) = lines + size
      /\ displayed = <<>> <=> size = 0
      /\ screen \in Seq(Line)
  BY ScreenParts, EmptySeq DEF LoggerInv, ScreenConsistent, TypeOK
<1>2. /\ size # 0 => screen' = SubSeq(screen, 1, Len(screen) - (CursorUp(size - 1) + 1))
      /\ size = 0 => screen' = screen
      /\ displayed' = <<>>
  BY <1>1 DEF ClearDisplayedStackFrame, LastLinesErased
<1>3. size # 0 => CursorUp(size - 1) + 1 = IF size = 1 THEN 2 ELSE size
  BY <1>1 DEF CursorUp
<1>4. /\ LoneFrameErased <=> size = 1
      /\ LastLineLost <=> screen' = SubSeq(screen, 1, lines - 1)
      /\ MessagesStay <=> /\ lines <= Len(screen')
                          /\ \A i \in 1..lines : screen'[i] = screen[i]
  BY <1>2 DEF LoneFrameErased, LastLineLost, MessagesStay
<1>5. \A m \in 0..lines : (\A i \in 1..m : screen'[i] = screen[i]) => \A i \in 1..m : LineOK(screen', i)
  BY LinesStay
<1> HIDE DEF size, lines
<1>6. n \in Nat /\ n <= lines /\ n <= Len(screen) /\ (size # 1 => n = lines)
  BY <1>1
<1>7. screen' = SubSeq(screen, 1, n) \/ (size = 0 /\ n = Len(screen) /\ screen' = screen)
  <2>1. CASE size = 0
    <3>1. n = Len(screen)
      BY <1>1, <2>1
    <3> QED  BY <1>2, <2>1, <3>1
  <2>2. CASE size = 1
    <3>1. Len(screen) - (CursorUp(size - 1) + 1) = lines - 1
      BY <1>1, <1>3, <2>2
    <3>2. screen' = SubSeq(screen, 1, lines - 1)
      BY <1>2, <2>2, <3>1
    <3>3. CASE lines > 0
      BY <2>2, <3>2, <3>3
    <3>4. CASE lines = 0
      <4>1. n = 0 /\ screen' = SubSeq(screen, 1, -1)
        BY <2>2, <3>2, <3>4
      <4> HIDE DEF n
      <4>2. SubSeq(screen, 1, -1) = <<>>
        BY SubSeqEmpty, -1 \in Int, 1 \in Int, -1 < 1
      <4>3. SubSeq(screen, 1, 0) = <<>>
        BY SubSeqEmpty, 0 \in Int, 1 \in Int, 0 < 1
      <4> QED  BY <4>1, <4>2, <4>3
    <3> QED  BY <1>1, <3>3, <3>4
  <2>3. CASE size > 1
    <3>1. Len(screen) - (CursorUp(size - 1) + 1) = lines /\ n = lines
      BY <1>1, <1>3, <2>3
    <3> QED  BY <1>2, <2>3, <3>1
  <2> QED  BY <1>1, <2>1, <2>2, <2>3
<1> HIDE DEF n
<1>8. screen' \in Seq(Line) /\ Len(screen') = n /\ \A i \in 1..n : screen'[i] = screen[i]
  <2>1. n \in 0..Len(screen)
    BY <1>1, <1>6
  <2> QED  BY <1>1, <1>7, <2>1, Prefix
<1>9. \A i \in 1..n : LineOK(screen', i)
  BY <1>1, <1>5, <1>6, <1>8
<1>10. Kept
  <2>1. CASE size = 1
    <3>1. Len(screen) - (CursorUp(size - 1) + 1) = lines - 1
      BY <1>1, <1>3, <2>1
    <3> QED  BY <1>2, <1>4, <2>1, <3>1 DEF Kept
  <2>2. CASE size # 1
    <3>1. n = lines
      BY <1>6, <2>2
    <3> QED  BY <1>1, <1>4, <1>8, <2>2, <3>1 DEF Kept
  <2> QED  BY <2>1, <2>2
<1>11. n \in 0..lines
  BY <1>1, <1>6
<1> QED  BY <1>2, <1>8, <1>9, <1>10, <1>11 DEF lines

(* What was displayed is erased, and nothing is drawn yet.                  *)
LEMMA ErasedScreen ==
  ASSUME LoggerInv, thread # "draw", ClearDisplayedStackFrame, Len(LastDrawn') = 0,
         LastDrawn' = <<>>, \A w \in Writers : written'[w] # 1
  PROVE  ScreenConsistent' /\ Kept /\ screen' \in Seq(Line) /\ displayed' = <<>>
<1>1. /\ screen' \in Seq(Line) /\ Len(screen') \in 0..MessageLines
      /\ \A i \in 1..Len(screen') : LineOK(screen', i)
      /\ displayed' = <<>> /\ Kept
  BY Erased
<1>2. Len(screen') \in Nat
  BY <1>1, LenProperties
<1>3. MessageLines' = Len(screen')
  BY <1>2 DEF MessageLines
<1> QED  BY <1>1, <1>2, <1>3, ScreenConjuncts DEF ScreenConsistent, LineOK

(* The same messages and frames, wherever the thread of the logger is.      *)
LEMMA SameScreen ==
  ASSUME LoggerInv, UNCHANGED <<screen, written>>, LastDrawn' = LastDrawn,
         displayed' = displayed \/ displayed = <<>>
  PROVE  ScreenConsistent' /\ Kept
<1>1. MessageLines' = MessageLines
  BY DEF MessageLines
<1>2. ScreenConsistent'
  BY <1>1 DEF LoggerInv, ScreenConsistent
<1>3. MessageLines <= Len(screen)
  BY ScreenParts DEF LoggerInv
<1>4. ~ LoneFrameErased
  BY EmptySeq DEF LoneFrameErased
<1> QED  BY <1>2, <1>3, <1>4 DEF MessagesStay, Kept

------------------------------------------------------------------------------
(* One lemma per kind of step.                                              *)

(* The thread of the analysis starts and stops the logger, and the thread   *)
(* of the logger goes from place to place, without a look at the screen.    *)
LEMMA QuietStep ==
  ASSUME LoggerInv, UNCHANGED <<owner, current, displayed, drawn, screen, written>>,
         thread' \in Places, thread' = "draw" <=> thread = "draw",
         thread' = "done" => thread = "done",
         phase' = "none" => thread' = "none"
  PROVE  LoggerInv' /\ Kept
<1>1. TypeOK'
  BY DEF LoggerInv, TypeOK
<1>2. MutexOK'
  BY DEF LoggerInv, MutexOK
<1>3. LastDrawn' = LastDrawn
  BY DEF LastDrawn
<1>4. ScreenConsistent' /\ Kept
  BY <1>3, SameScreen
<1> QED  BY <1>1, <1>2, <1>4 DEF LoggerInv

(* Frames are pushed and popped while nobody draws them.                    *)
LEMMA FrameStep ==
  ASSUME LoggerInv, NEW frames \in Seq(Frame), Locked(frames)
  PROVE  LoggerInv' /\ Kept
<1>1. /\ thread # "draw" /\ thread' = thread /\ current' = frames
      /\ UNCHANGED <<phase, owner, displayed, drawn, screen, written>>
  BY ScreenParts DEF LoggerInv, MutexOK, Locked
<1>2. TypeOK'
  BY <1>1 DEF LoggerInv, TypeOK
<1>3. MutexOK'
  BY <1>1, LenProperties DEF LoggerInv, MutexOK
<1>4. LastDrawn' = LastDrawn
  BY <1>1 DEF LastDrawn
<1>5. ScreenConsistent' /\ Kept
  BY <1>1, <1>4, SameScreen
<1> QED  BY <1>2, <1>3, <1>5 DEF LoggerInv

(* When the logger is destroyed its frames are erased already.              *)
LEMMA JoinStep ==
  ASSUME LoggerInv, Join
  PROVE  LoggerInv' /\ Kept
<1>1. /\ thread = "done" /\ thread' = "none" /\ current' = <<>> /\ displayed' = <<>>
      /\ UNCHANGED <<owner, drawn, screen, written>> /\ phase' = "none"
      /\ displayed = <<>> /\ drawn = 0
  BY DEF LoggerInv, MutexOK, Join
<1>2. TypeOK'
  BY <1>1 DEF LoggerInv, TypeOK, Places
<1>3. MutexOK'
  BY <1>1, EmptySeq DEF LoggerInv, MutexOK
<1>4. LastDrawn' = LastDrawn
  BY <1>1 DEF LastDrawn
<1>5. ScreenConsistent' /\ Kept
  BY <1>1, <1>4, SameScreen
<1> QED  BY <1>2, <1>3, <1>5 DEF LoggerInv

(* A message begins where the frames were.                                  *)
LEMMA StartMessageStep ==
  ASSUME LoggerInv, NEW w \in Writers, StartMessage(w)
  PROVE  LoggerInv' /\ Kept
<1>1. /\ owner = Nobody /\ owner' = w /\ written' = [written EXCEPT ![w] = 0]
      /\ ClearDisplayedStackFrame /\ UNCHANGED <<phase, thread, current, drawn>>
      /\ displayed' = <<>> /\ phase # "none"
  BY DEF StartMessage, MayLock, ClearDisplayedStackFrame
<1>2. /\ thread # "draw" /\ Nobody \notin Writers /\ w # Display
      /\ \A v \in Writers : written[v] = NoMessage
      /\ written \in [Writers -> 0..NoMessage]
  BY <1>1, ScreenParts DEF LoggerInv, MutexOK, TypeOK
<1>3. \A v \in Writers : written'[v] = IF v = w THEN 0 ELSE NoMessage
  BY <1>1, <1>2
<1>4. LastDrawn' = <<>> /\ Len(LastDrawn') = 0
  BY <1>1, <1>2, EmptySeq DEF LastDrawn
<1>5. ScreenConsistent' /\ Kept /\ screen' \in Seq(Line)
  BY <1>1, <1>2, <1>3, <1>4, ErasedScreen DEF NoMessage
<1>6. TypeOK'
  BY <1>1, <1>2, <1>5, EmptySeq DEF LoggerInv, TypeOK, NoMessage
<1>7. MutexOK'
  BY <1>1, <1>2, <1>3 DEF LoggerInv, MutexOK, NoMessage
<1> QED  BY <1>5, <1>6, <1>7 DEF LoggerInv

(* A line of a message goes below the messages.                             *)
LEMMA WriteLineStep ==
  ASSUME LoggerInv, NEW w \in Writers, WriteLine(w)
  PROVE  LoggerInv' /\ Kept
<1> DEFINE part == written[w] + 1
           line == MessageLine(w, part)
<1>1. /\ written[w] # NoMessage /\ screen' = Append(screen, line)
      /\ written' = [written EXCEPT ![w] = part]
      /\ owner' = IF part = 2 THEN Nobody ELSE owner
      /\ UNCHANGED <<phase, thread, current, displayed, drawn>>
  <2>1. written[w] \in 0..NoMessage /\ written \in [Writers -> 0..NoMessage]
    BY DEF LoggerInv, TypeOK
  <2>2. written[w] = 1 <=> written[w] + 1 = 2
    BY <2>1 DEF NoMessage
  <2> QED  BY <2>1, <2>2 DEF WriteLine
<1>2. /\ owner = w /\ thread # "draw" /\ Nobody \notin Writers /\ Display \notin Writers
      /\ Nobody # Display
      /\ \A v \in Writers \ {w} : written[v] = NoMessage
      /\ written \in [Writers -> 0..NoMessage] /\ part \in {1, 2}
      /\ screen \in Seq(Line)
  BY <1>1, ScreenParts DEF LoggerInv, MutexOK, TypeOK, NoMessage
<1>3. /\ LastDrawn = <<>> /\ LastDrawn' = <<>> /\ Len(LastDrawn) = 0
      /\ part = 2 => screen # <<>> /\ screen[Len(screen)] = MessageLine(w, 1)
  BY <1>1, <1>2, EmptySeq DEF LoggerInv, ScreenConsistent, LastDrawn
<1>4. Len(screen) \in Nat /\ MessageLines = Len(screen)
  BY <1>3, ScreenParts DEF LoggerInv, MessageLines
<1>5. line \in Line /\ IsMessageLine(line)
  BY <1>2 DEF Line, IsMessageLine
<1>6. /\ screen' \in Seq(Line) /\ screen' # <<>> /\ Len(screen') = Len(screen) + 1
      /\ \A i \in 1..Len(screen) : screen'[i] = screen[i]
      /\ screen'[Len(screen) + 1] = line
  <2> HIDE DEF line
  <2> QED  BY <1>1, <1>2, <1>5, AppendProperties
<1>7. MessageLines' = Len(screen) + 1
  BY <1>3, <1>4, <1>6 DEF MessageLines
<1>8. \A v \in Writers : written'[v] = IF v = w THEN part ELSE NoMessage
  BY <1>1, <1>2
<1>9. LineOK(screen', Len(screen) + 1)
  <2>1. ASSUME NEW v \in Writers, line = MessageLine(v, 2) PROVE v = w /\ part = 2
    BY <2>1 DEF MessageLine
  <2>2. CASE part = 2
    <3>1. Len(screen) \in 1..Len(screen)
      BY <1>2, <1>3, <1>4, <2>2, EmptySeq
    <3>2. Len(screen) + 1 > 1 /\ screen'[Len(screen) + 1 - 1] = MessageLine(w, 1)
      BY <1>3, <1>4, <1>6, <2>2, <3>1
    <3> QED  BY <1>5, <1>6, <2>1, <3>2 DEF LineOK
  <2>3. CASE part # 2
    BY <1>5, <1>6, <2>1, <2>3 DEF LineOK
  <2> QED  BY <2>2, <2>3
<1>10. ASSUME NEW i \in 1..(Len(screen) + 1) PROVE LineOK(screen', i)
  <2>1. CASE i = Len(screen) + 1
    BY <1>9, <2>1
  <2>2. CASE i # Len(screen) + 1
    <3>1. i \in 1..Len(screen) /\ Len(screen) \in 0..MessageLines
      BY <1>4, <2>2
    <3> QED  BY <1>6, <3>1, LinesStay
  <2> QED  BY <2>1, <2>2
<1>11. ScreenConsistent'
  <2>1. ASSUME NEW v \in Writers, written'[v] = 1 PROVE screen'[Len(screen')] = MessageLine(v, 1)
    <3>1. v = w /\ part = 1
      BY <1>8, <2>1 DEF NoMessage
    <3> QED  BY <1>6, <3>1
  <2>2. MessageLines' \in Nat /\ \A i \in 1..MessageLines' : LineOK(screen', i)
    BY <1>4, <1>7, <1>10
  <2> QED  BY <1>3, <1>6, <2>1, <2>2, EmptySeq DEF ScreenConsistent, LineOK
<1>12. TypeOK'
  BY <1>1, <1>2, <1>6 DEF LoggerInv, TypeOK, NoMessage
<1>13. MutexOK'
  <2>1. \A v \in Writers : written'[v] # NoMessage <=> owner' = v
    BY <1>1, <1>2, <1>8 DEF NoMessage
  <2>2. owner' # Display
    BY <1>1, <1>2
  <2> QED  BY <1>1, <1>2, <2>1, <2>2 DEF LoggerInv, MutexOK
<1>14. Kept
  <2>1. ~ LoneFrameErased
    BY <1>1, <1>2, <1>3, EmptySeq DEF LoneFrameErased, LastDrawn
  <2> QED  BY <1>4, <1>6, <2>1 DEF Kept, MessagesStay
<1> QED  BY <1>11, <1>12, <1>13, <1>14 DEF LoggerInv

(* The thread of the logger erases the last redraw.                         *)
LEMMA LockAndClearStep ==
  ASSUME LoggerInv, LockAndClear
  PROVE  LoggerInv' /\ Kept
<1>1. /\ thread = "lock" /\ owner = Nobody /\ owner' = Display /\ thread' = "draw"
      /\ ClearDisplayedStackFrame /\ UNCHANGED <<phase, current, drawn, written>>
      /\ displayed' = <<>>
  BY DEF LockAndClear, MayLock, ClearDisplayedStackFrame
<1>2. /\ drawn = 0 /\ Display \notin Writers /\ Len(current) \in Nat /\ current \in Seq(Frame)
      /\ \A v \in Writers : written[v] = NoMessage
  BY <1>1, ScreenParts DEF LoggerInv, MutexOK, TypeOK
<1>3. LastDrawn' = <<>> /\ Len(LastDrawn') = 0
  <2>1. LastDrawn' = SubSeq(current, 1, 0) /\ 0 \in 0..Len(current)
    BY <1>1, <1>2 DEF LastDrawn
  <2> QED  BY <1>2, <2>1, Prefix, EmptySeq
<1>4. ScreenConsistent' /\ Kept /\ screen' \in Seq(Line)
  BY <1>1, <1>2, <1>3, ErasedScreen DEF NoMessage
<1>5. TypeOK'
  BY <1>1, <1>4, EmptySeq DEF LoggerInv, TypeOK, Places
<1>6. MutexOK'
  BY <1>1, <1>2 DEF LoggerInv, MutexOK
<1> QED  BY <1>4, <1>5, <1>6 DEF LoggerInv

(* A frame goes below the ones that are drawn.                              *)
LEMMA PrintFrameStep ==
  ASSUME LoggerInv, PrintFrame
  PROVE  LoggerInv' /\ Kept
<1> DEFINE frame == current[drawn + 1]
           n == MessageLines
<1>1. /\ thread = "draw" /\ drawn < Len(current) /\ screen' = Append(screen, frame)
      /\ drawn' = drawn + 1
      /\ UNCHANGED <<phase, thread, owner, current, displayed, written>>
  BY DEF PrintFrame
<1>2. /\ drawn \in Nat /\ Len(current) \in Nat /\ screen \in Seq(Line) /\ current \in Seq(Frame)
      /\ Len(screen) \in Nat /\ n \in Nat /\ Len(screen) = n + drawn
      /\ displayed = <<>> /\ \A v \in Writers : written[v] = NoMessage
  BY <1>1, ScreenParts DEF LoggerInv, TypeOK, MutexOK, ScreenConsistent
<1>3. frame \in Line
  BY <1>1, <1>2, ElementOfSeq DEF Line
<1> HIDE DEF frame, n
<1>4. /\ screen' \in Seq(Line) /\ Len(screen') = Len(screen) + 1
      /\ \A i \in 1..Len(screen) : screen'[i] = screen[i]
      /\ screen'[Len(screen) + 1] = frame
  BY <1>1, <1>2, <1>3, AppendProperties
<1>5. /\ Len(LastDrawn') = drawn + 1
      /\ \A i \in 1..(drawn + 1) : LastDrawn'[i] = current[i]
  <2>1. LastDrawn' = SubSeq(current, 1, drawn + 1) /\ drawn + 1 \in 0..Len(current)
    BY <1>1, <1>2 DEF LastDrawn
  <2> QED  BY <1>2, <2>1, Prefix
<1>6. Len(LastDrawn) = drawn /\ \A i \in 1..drawn : LastDrawn[i] = current[i]
  <2>1. LastDrawn = SubSeq(current, 1, drawn) /\ drawn \in 0..Len(current)
    BY <1>1, <1>2 DEF LastDrawn
  <2> QED  BY <1>2, <2>1, Prefix
<1>7. MessageLines' = n
  BY <1>2, <1>4, <1>5 DEF MessageLines
<1>8. ASSUME NEW i \in 1..(drawn + 1)
      PROVE  screen'[n + i] = LastDrawn'[i]
  <2>1. CASE i = drawn + 1
    BY <1>2, <1>4, <1>5, <2>1 DEF frame
  <2>2. CASE i # drawn + 1
    <3>1. i \in 1..drawn /\ n + i \in 1..Len(screen)
      BY <1>2, <2>2
    <3>2. screen[n + i] = LastDrawn[i]
      BY <1>6, <3>1 DEF LoggerInv, ScreenConsistent, n
    <3> QED  BY <1>4, <1>5, <1>6, <3>1, <3>2
  <2> QED  BY <2>1, <2>2
<1>9. n <= Len(screen') /\ \A i \in 1..n : screen'[i] = screen[i]
  BY <1>2, <1>4
<1>10. \A i \in 1..n : LineOK(screen', i)
  <2>1. n \in 0..MessageLines
    BY <1>2 DEF n
  <2> QED  BY <1>9, <2>1, LinesStay
<1>11. ScreenConsistent'
  BY <1>1, <1>2, <1>5, <1>7, <1>8, <1>10 DEF ScreenConsistent, LineOK
<1>12. TypeOK'
  BY <1>1, <1>2, <1>4 DEF LoggerInv, TypeOK
<1>13. MutexOK'
  BY <1>1, <1>2 DEF LoggerInv, MutexOK
<1>14. Kept
  <2>1. ~ LoneFrameErased
    BY <1>2, EmptySeq DEF LoneFrameErased
  <2> QED  BY <1>9, <2>1 DEF Kept, MessagesStay, n
<1> QED  BY <1>11, <1>12, <1>13, <1>14 DEF LoggerInv

(* All frames are drawn: the next redraw erases as many.                    *)
LEMMA FinishDrawingStep ==
  ASSUME LoggerInv, FinishDrawing
  PROVE  LoggerInv' /\ Kept
<1>1. /\ thread = "draw" /\ drawn = Len(current) /\ displayed' = current /\ drawn' = 0
      /\ owner' = Nobody /\ thread' = "test"
      /\ UNCHANGED <<phase, current, screen, written>>
  BY DEF FinishDrawing
<1>2. /\ owner = Display /\ Display \notin Writers /\ Nobody \notin Writers /\ Nobody # Display
      /\ phase # "none" /\ displayed = <<>> /\ Len(current) \in Nat
      /\ \A v \in Writers : written[v] = NoMessage
  BY <1>1, ScreenParts DEF LoggerInv, MutexOK
<1>3. TypeOK'
  BY <1>1 DEF LoggerInv, TypeOK, Places
<1>4. MutexOK'
  BY <1>1, <1>2 DEF LoggerInv, MutexOK
<1>5. LastDrawn' = current
  BY <1>1 DEF LastDrawn
<1>6. Len(LastDrawn) = Len(current) /\ \A i \in 1..Len(current) : LastDrawn[i] = current[i]
  <2>1. LastDrawn = SubSeq(current, 1, Len(current)) /\ current \in Seq(Frame)
    BY <1>1 DEF LastDrawn, LoggerInv, TypeOK
  <2>2. Len(current) \in 0..Len(current)
    BY <1>2
  <2> QED  BY <2>1, <2>2, Prefix
<1>7. MessageLines' = MessageLines
  BY <1>1, <1>5, <1>6 DEF MessageLines
<1>8. ScreenConsistent'
  BY <1>1, <1>2, <1>5, <1>6, <1>7 DEF LoggerInv, ScreenConsistent
<1>9. Kept
  <2>1. ~ LoneFrameErased
    BY <1>2, EmptySeq DEF LoneFrameErased
  <2>2. MessageLines <= Len(screen)
    BY ScreenParts DEF LoggerInv
  <2> QED  BY <1>1, <2>1, <2>2 DEF Kept, MessagesStay
<1> QED  BY <1>3, <1>4, <1>8, <1>9 DEF LoggerInv

(* The thread of the logger leaves no frames behind.                        *)
LEMMA LeaveStep ==
  ASSUME LoggerInv, Leave
  PROVE  LoggerInv' /\ Kept
<1>1. /\ thread = "final" /\ owner = Nobody /\ thread' = "done"
      /\ ClearDisplayedStackFrame /\ displayed' = <<>>
      /\ UNCHANGED <<phase, owner, current, drawn, written>>
  BY DEF Leave, MayLock, ClearDisplayedStackFrame
<1>2. /\ Nobody \notin Writers /\ Nobody # Display /\ phase # "none"
      /\ \A v \in Writers : written[v] = NoMessage
  BY <1>1, ScreenParts DEF LoggerInv, MutexOK
<1>3. LastDrawn' = <<>> /\ Len(LastDrawn') = 0
  BY <1>1, EmptySeq DEF LastDrawn
<1>4. ScreenConsistent' /\ Kept /\ screen' \in Seq(Line)
  BY <1>1, <1>2, <1>3, ErasedScreen DEF NoMessage
<1>5. TypeOK'
  BY <1>1, <1>4, EmptySeq DEF LoggerInv, TypeOK, Places
<1>6. MutexOK'
  BY <1>1, <1>2 DEF LoggerInv, MutexOK
<1> QED  BY <1>4, <1>5, <1>6 DEF LoggerInv

------------------------------------------------------------------------------
LEMMA LoggerInit == Init => LoggerInv
<1> SUFFICES ASSUME Init PROVE LoggerInv
  OBVIOUS
<1>1. TypeOK
  BY EmptySeq DEF Init, TypeOK, Places, NoMessage
<1>2. Display \notin Writers /\ Nobody \notin Writers /\ Display # Nobody
  BY OwnersDistinct DEF Display, Nobody
<1>3. MutexOK
  BY <1>2, EmptySeq DEF Init, MutexOK
<1>4. LastDrawn = <<>> /\ MessageLines = 0
  BY EmptySeq DEF Init, LastDrawn, MessageLines
<1>5. ScreenConsistent
  BY <1>4, EmptySeq DEF Init, ScreenConsistent
<1> QED  BY <1>1, <1>3, <1>5 DEF LoggerInv

(* The frames that Main pushes and pops are frames.                         *)
LEMMA FramesStep ==
  ASSUME LoggerInv, Frames
  PROVE  LoggerInv' /\ Kept
<1>1. current \in Seq(Frame) /\ Len(current) \in Nat
  BY ScreenParts DEF LoggerInv, TypeOK
<1>2. current # <<>> => Front(current) \in Seq(Frame) /\ Top \in Frame
  <2> SUFFICES ASSUME current # <<>> PROVE Front(current) \in Seq(Frame) /\ Top \in Frame
    OBVIOUS
  <2>1. Len(current) \in 1..Len(current) /\ Len(current) - 1 \in 0..Len(current)
    BY <1>1, EmptySeq
  <2> QED  BY <1>1, <2>1, Prefix, ElementOfSeq DEF Front, Top
<1>3. CASE StartCycle
  <2>1. [kind |-> "cycle", iteration |-> 0] \in Frame
    BY DEF Frame
  <2> QED  BY <1>1, <1>3, <2>1, AppendProperties, FrameStep DEF StartCycle
<1>4. CASE StartCycleIter
  <2>1. [kind |-> "cycle", iteration |-> Top.iteration + 1] \in Frame
    BY <1>2, <1>4 DEF StartCycleIter, Frame
  <2> QED  BY <1>2, <1>4, <2>1, AppendProperties, FrameStep DEF StartCycleIter
<1>5. CASE StartCallee
  <2>1. [kind |-> "call"] \in Frame
    BY DEF Frame
  <2> QED  BY <1>1, <1>5, <2>1, AppendProperties, FrameStep DEF StartCallee
<1>6. CASE EndFrame
  BY <1>2, <1>6, FrameStep DEF EndFrame
<1> QED  BY <1>3, <1>4, <1>5, <1>6 DEF Frames

LEMMA LoggerStep ==
  ASSUME LoggerInv, [Next]_vars
  PROVE  LoggerInv' /\ Kept
<1>1. thread \in Places
  BY DEF LoggerInv, TypeOK
<1>2. phase = "none" => thread = "none"
  BY DEF LoggerInv, MutexOK
<1>3. CASE StartLogger
  <2>1. thread = "none"
    BY <1>2, <1>3 DEF StartLogger
  <2> QED  BY <1>3, <2>1, QuietStep DEF StartLogger, Places
<1>4. CASE Frames
  BY <1>4, FramesStep
<1>5. CASE StopRunning
  BY <1>1, <1>5, QuietStep DEF StopRunning
<1>6. CASE Ending
  <2>1. CASE NotifyAll
    BY <1>1, <2>1, QuietStep DEF NotifyAll, Places
  <2> QED  BY <1>6, <2>1, JoinStep DEF Ending
<1>7. CASE \E w \in Writers : StartMessage(w) \/ WriteLine(w)
  BY <1>7, StartMessageStep, WriteLineStep
<1>8. CASE Drawing
  <2>1. ASSUME NEW place \in Places \ {"none", "draw", "done"}, Goto(place),
               thread \in {"test", "tested", "wait", "woken"}
        PROVE  LoggerInv' /\ Kept
    BY <1>2, <2>1, QuietStep DEF Goto
  <2>2. CASE TestRunning \/ Wait \/ Elapsed \/ TestAgain
    BY <2>1, <2>2 DEF TestRunning, Wait, Elapsed, TestAgain, Places
  <2> QED  BY <1>8, <2>2, LockAndClearStep, PrintFrameStep, FinishDrawingStep, LeaveStep
           DEF Drawing
<1>9. CASE UNCHANGED vars
  BY <1>1, <1>2, <1>9, QuietStep DEF vars
<1> QED  BY <1>3, <1>4, <1>5, <1>6, <1>7, <1>8, <1>9 DEF Next

(* The terminal: below the messages there are exactly the frames that the   *)
(* next redraw erases, and messages are not interleaved, whatever the       *)
(* workers, the thread of the analysis and that of the logger do            *)
(* (InteractiveProgressLogger).                                             *)
THEOREM ScreenCorrect == Spec => []ScreenConsistent
<1>1. Init => LoggerInv
  BY LoggerInit
<1>2. LoggerInv /\ [Next]_vars => LoggerInv'
  BY LoggerStep
<1>3. LoggerInv => ScreenConsistent
  BY DEF LoggerInv
<1> QED  BY <1>1, <1>2, <1>3, PTL DEF Spec

(* Which lines of messages are lost: the last one, each time one frame only *)
(* is displayed and is erased, and no other (clear_displayed_stack_frame).  *)
THEOREM MessagesKept == Spec => LinesKept
<1>1. Init => LoggerInv
  BY LoggerInit
<1>2. LoggerInv /\ [Next]_vars
      => LoggerInv' /\ IF LoneFrameErased THEN LastLineLost ELSE MessagesStay
  BY LoggerStep DEF Kept
<1> QED  BY <1>1, <1>2, PTL DEF Spec, LinesKept
==============================================================================
