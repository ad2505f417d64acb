----------------------------- MODULE ProgressLogger -----------------------------
(****************************************************************************)
(* The interactive progress logger (analyzer/src/analysis/value/            *)
(* interprocedural/progress.cpp), the scope that makes it the logger of an  *)
(* analysis (analyzer/src/util/log.cpp) and the terminal they write to.     *)
(*                                                                          *)
(* Three kinds of threads share the terminal: the thread of the analysis,   *)
(* Main, which keeps the stack of the loops and calls being analyzed, the   *)
(* workers, which write log messages, and a thread of the logger that       *)
(* redraws the stack every two seconds below the last message.  A redraw    *)
(* and a message each begin by erasing the lines of the last redraw, of     *)
(* which only the number is known, so whatever else got below them would    *)
(* be erased in their place.  A redraw of one frame is erased with the line *)
(* above it: the code asks the terminal to go up by 0 lines, and a terminal *)
(* takes 0 for 1.                                                           *)
(*                                                                          *)
(* The time between two steps is arbitrary: the two seconds may elapse at   *)
(* any moment.  A message is two lines; frames are one line each, and the   *)
(* frames of cycles count their iterations.  The screen begins where the    *)
(* first message is written: what is erased above that is not modelled.     *)
(****************************************************************************)
EXTENDS Naturals, Sequences, SequencesExt

CONSTANTS
  Workers,        \* threads that write messages, besides Main
  Main,           \* the thread of the analysis
  MaxDepth,       \* bound on the nesting of loops and calls
  MaxIteration,   \* bound on the iterations of a loop
  MaxMessages     \* bound on the messages

Display == "display"
Nobody == "nobody"
Writers == Workers \cup {Main}

ASSUME OwnersDistinct == Writers \cap {Display, Nobody} = {}

VARIABLES
  phase,          \* what Main does with the logger
  thread,         \* where the thread of the logger is
  running,        \* _running
  owner,          \* owner of _mutex
  current,        \* _current_stack_frame
  displayed,      \* _displayed_stack_frame
  drawn,          \* frames that print_stack_frame has printed
  screen,         \* lines of the terminal
  written,        \* lines of its message that a thread has written
  messages        \* number of messages begun

vars ==
  <<phase, thread, running, owner, current, displayed, drawn, screen, written,
    messages>>

(* A thread that writes no message.                                         *)
NoMessage == 2

MessageLine(w, part) == [kind |-> "message", by |-> w, part |-> part]

Init ==
  /\ phase = "none"
  /\ thread = "none"
  /\ running = FALSE
  /\ owner = Nobody
  /\ current = <<>>
  /\ displayed = <<>>
  /\ drawn = 0
  /\ screen = <<>>
  /\ written = [w \in Writers |-> NoMessage]
  /\ messages = 0

------------------------------------------------------------------------------
(* The terminal: the cursor goes up by n lines, and a parameter of 0 stands *)
(* for the default, 1 (control sequence CUU); the lines from there on are   *)
(* erased (control sequence ED).                                            *)
CursorUp(n) == IF n = 0 THEN 1 ELSE n

LastLinesErased(n) == SubSeq(screen, 1, Len(screen) - n)

(* Faulty: the cursor goes up by one line for each frame.                   *)
ClearDisplayedStackFrameFaulty ==
  /\ screen' = IF displayed = <<>> THEN screen
                ELSE LastLinesErased(CursorUp(Len(displayed)) + 1)
  /\ displayed' = <<>>

(* From the end of the last frame the cursor goes up by size() - 1 lines,   *)
(* and that line and those below it are erased.                             *)
ClearDisplayedStackFrame ==
  /\ screen' = IF displayed = <<>> THEN screen
                ELSE LastLinesErased(CursorUp(Len(displayed) - 1) + 1)
  /\ displayed' = <<>>

------------------------------------------------------------------------------
(* The thread of the analysis: ScopeLogger and the frames.                  *)

StartLogger ==
  /\ phase = "none"
  /\ phase' = "analysis"
  /\ running' = TRUE
  /\ thread' = "test"
  /\ UNCHANGED <<owner, current, displayed, drawn, screen, written, messages>>

(* Main pushes or pops under the mutex, in one step: nobody who does not    *)
(* hold the mutex could tell the parts of it apart.                         *)
Locked(frames) ==
  /\ phase = "analysis"
  /\ owner = Nobody
  /\ current' = frames
  /\ UNCHANGED <<phase, thread, running, owner, displayed, drawn, screen, written,
                 messages>>

Top == current[Len(current)]

StartCycle ==
  /\ Len(current) < MaxDepth
  /\ Locked(Append(current, [kind |-> "cycle", iteration |-> 0]))

StartCycleIter ==
  /\ current # <<>>
  /\ Top.kind = "cycle"
  /\ Top.iteration < MaxIteration
  /\ Locked(Append(Front(current),
                   [kind |-> "cycle", iteration |-> Top.iteration + 1]))

StartCallee ==
  /\ Len(current) < MaxDepth
  /\ Locked(Append(current, [kind |-> "call"]))

(* end_cycle and end_callee. *)
EndFrame ==
  /\ current # <<>>
  /\ Locked(Front(current))

StopRunningFaulty ==
  /\ phase = "analysis"
  /\ current = <<>>
  /\ \A w \in Writers : written[w] = NoMessage
  /\ phase' = "stopping"
  /\ UNCHANGED <<thread, running, owner, current, displayed, drawn, screen, written,
                 messages>>

(* The end of the scope: all frames are popped and no worker is active. *)
StopRunning ==
  /\ phase = "analysis"
  /\ current = <<>>
  /\ \A w \in Writers : written[w] = NoMessage
  /\ running' = FALSE
  /\ phase' = "stopping"
  /\ UNCHANGED <<thread, owner, current, displayed, drawn, screen, written,
                 messages>>

(* A notification that finds nobody waiting is lost. *)
NotifyAll ==
  /\ phase = "stopping"
  /\ phase' = "notified"
  /\ thread' = IF thread = "wait" THEN "woken" ELSE thread
  /\ UNCHANGED <<running, owner, current, displayed, drawn, screen, written,
                 messages>>

(* The thread has ended, and the next scope has a logger of its own. *)
Join ==
  /\ phase = "notified"
  /\ thread = "done"
  /\ phase' = "none"
  /\ thread' = "none"
  /\ current' = <<>>
  /\ displayed' = <<>>
  /\ UNCHANGED <<running, owner, drawn, screen, written, messages>>

------------------------------------------------------------------------------
(* Messages: the mutex is held from start_message to end_message.           *)

MayLockFaulty(t) == owner # t

MayLock(t) == owner = Nobody

StartMessage(w) ==
  /\ phase = "analysis"
  /\ messages < MaxMessages
  /\ written[w] = NoMessage
  /\ MayLock(w)
  /\ owner' = w
  /\ written' = [written EXCEPT ![w] = 0]
  /\ messages' = messages + 1
  /\ ClearDisplayedStackFrame
  /\ UNCHANGED <<phase, thread, running, current, drawn>>

(* The last line ends the message, and end_message unlocks.                 *)
WriteLine(w) ==
  /\ written[w] # NoMessage
  /\ screen' = Append(screen, MessageLine(w, written[w] + 1))
  /\ written' = [written EXCEPT ![w] = @ + 1]
  /\ owner' = IF written[w] = 1 THEN Nobody ELSE owner
  /\ UNCHANGED <<phase, thread, running, current, displayed, drawn, messages>>

------------------------------------------------------------------------------
(* The thread of the logger: run().                                         *)

Goto(place) ==
  /\ thread' = place
  /\ UNCHANGED <<phase, running, owner, current, displayed, drawn, screen, written,
                 messages>>

TestRunning ==
  /\ thread = "test"
  /\ Goto(IF running THEN "tested" ELSE "final")

Wait ==
  /\ thread = "tested"
  /\ Goto("wait")

(* wait_for returns after RefreshRate, notified or not. *)
Elapsed ==
  /\ thread = "wait"
  /\ Goto("woken")

TestAgain ==
  /\ thread = "woken"
  /\ Goto(IF running THEN "lock" ELSE "final")

LockAndClear ==
  /\ thread = "lock"
  /\ MayLock(Display)
  /\ owner' = Display
  /\ thread' = "draw"
  /\ ClearDisplayedStackFrame
  /\ UNCHANGED <<phase, running, current, drawn, written, messages>>

PrintFrame ==
  /\ thread = "draw"
  /\ drawn < Len(current)
  /\ screen' = Append(screen, current[drawn + 1])
  /\ drawn' = drawn + 1
  /\ UNCHANGED <<phase, thread, running, owner, current, displayed, written,
                 messages>>

FinishDrawing ==
  /\ thread = "draw"
  /\ drawn = Len(current)
  /\ displayed' = current
  /\ drawn' = 0
  /\ owner' = Nobody
  /\ thread' = "test"
  /\ UNCHANGED <<phase, running, current, screen, written, messages>>

(* Leave erases the frames before the thread ends. *)
Leave ==
  /\ thread = "final"
  /\ MayLock(Display)
  /\ ClearDisplayedStackFrame
  /\ thread' = "done"
  /\ UNCHANGED <<phase, running, owner, current, drawn, written, messages>>

------------------------------------------------------------------------------
Frames == StartCycle \/ StartCycleIter \/ StartCallee \/ EndFrame

Ending == NotifyAll \/ Join

Drawing ==
  \/ TestRunning \/ Wait \/ Elapsed \/ TestAgain
  \/ LockAndClear \/ PrintFrame \/ FinishDrawing \/ Leave

Next ==
  \/ StartLogger \/ Frames \/ StopRunning \/ Ending
  \/ \E w \in Writers : StartMessage(w) \/ WriteLine(w)
  \/ Drawing

(* Every thread goes on; nothing says that the analysis ends. *)
Spec ==
  /\ Init /\ [][Next]_vars
  /\ WF_vars(Ending)
  /\ WF_vars(Drawing)
  /\ \A w \in Writers : WF_vars(WriteLine(w))

------------------------------------------------------------------------------
(* The frames on the screen: those of the redraw under way, or the ones that *)
(* the next message or redraw is going to erase.                             *)
LastDrawn == IF thread = "draw" THEN SubSeq(current, 1, drawn) ELSE displayed

(* Above them are lines of messages.                                        *)
MessageLines == Len(screen) - Len(LastDrawn)

IsMessageLine(line) ==
  \E w \in Writers : line \in {MessageLine(w, 1), MessageLine(w, 2)}

(* Below the messages there are exactly the frames that were drawn last, no *)
(* frame of an earlier redraw is left, and messages are not interleaved:    *)
(* the end of a message is below its beginning, and nothing is below one    *)
(* that is under way (start_message, print_stack_frame).                    *)
ScreenConsistent ==
  /\ MessageLines \in Nat
  /\ \A i \in 1..Len(LastDrawn) : screen[MessageLines + i] = LastDrawn[i]
  /\ \A i \in 1..MessageLines :
       /\ IsMessageLine(screen[i])
       /\ \A w \in Writers :
            screen[i] = MessageLine(w, 2) => i > 1 /\ screen[i - 1] = MessageLine(w, 1)
  /\ \A w \in Writers :
       written[w] # NoMessage =>
         /\ LastDrawn = <<>>
         /\ written[w] = 1 => screen # <<>> /\ screen[Len(screen)] = MessageLine(w, 1)

(* One frame is displayed, and is erased.                                   *)
LoneFrameErased == Len(displayed) = 1 /\ displayed' = <<>>

LastLineLost == screen' = SubSeq(screen, 1, MessageLines - 1)

MessagesStay ==
  /\ MessageLines <= Len(screen')
  /\ \A i \in 1..MessageLines : screen'[i] = screen[i]

(* No step erases or changes a line of a message, but that each time a lone *)
(* frame is erased the last line above it goes too: the comment says that   *)
(* the cursor goes up by size - 1 lines, which no terminal does if that     *)
(* is 0 (clear_displayed_stack_frame).                                      *)
LinesKept == [][IF LoneFrameErased THEN LastLineLost ELSE MessagesStay]_vars

(* end_logger returns, although its notification is lost when the thread    *)
(* of the logger has tested _running and does not wait yet.                 *)
EndLoggerReturns == phase = "stopping" ~> phase = "none"
==============================================================================
