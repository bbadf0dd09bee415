------------------------------ MODULE TuiAudio ------------------------------
(***************************************************************************)
(* How the terminal UI of the desktop TNC starts, stops and reaps its      *)
(* audio thread: desktop/src/tui/mod.rs (App, run_tui), tui/event.rs       *)
(* (EventHandler) and main.rs (spawn_audio_thread, run_audio_loop).        *)
(*                                                                         *)
(* Three kinds of process: the UI loop, the event handler task, and the    *)
(* audio threads.  An audio thread reports through a bounded channel; the  *)
(* event handler copies it into the UI's unbounded queue of events, but    *)
(* only between two polls of the keyboard.                                 *)
(***************************************************************************)
EXTENDS Integers, Sequences, FiniteSets

CONSTANTS
    MaxStarts,     \* bound: audio threads started
    Live,          \* the starts that open a sound card; the others play a file
    MaxHeard,     \* bound: frames a thread decodes
    ChannelSize,   \* capacity of the channel from the threads (256)
    MaxKeys        \* bound: keys the user presses

ASSUME TuiAssumption ==
    /\ MaxStarts \in Nat /\ MaxHeard \in Nat /\ MaxKeys \in Nat
    /\ ChannelSize \in Nat \ {0} /\ Live \subseteq 1 .. MaxStarts

Threads == 1 .. MaxStarts
None == 0
Keys == {"s", "o", "enter", "esc", "q", "y"}

VARIABLES
    ui,               \* where run_tui is
    processing,       \* App::processing: the thread of Running, None if Stopped
    start_requested,  \* App::start_requested
    should_quit,      \* App::should_quit
    dialog,           \* the dialog that takes the keys
    joining,          \* the thread the UI waits for in join
    events,           \* the queue of EventHandler::next
    handler,          \* what the event handler task does: "drain" or "poll"
    pressed,          \* keys pressed so far
    async,            \* the channel from the audio threads
    thread,           \* what each audio thread does
    stop,             \* each thread's stop_signal
    decoded           \* frames each thread has decoded

uiVars == <<ui, processing, start_requested, should_quit, dialog, joining>>
threadVars == <<thread, stop, decoded>>
tuiVars == <<uiVars, events, handler, pressed, async, threadVars>>

TuiInit ==
    /\ ui = "top"
    /\ processing = None /\ joining = None
    /\ start_requested = FALSE /\ should_quit = FALSE
    /\ dialog = "none"
    /\ events = << >> /\ handler = "drain" /\ pressed = 0
    /\ async = << >>
    /\ thread = [t \in Threads |-> "unborn"]
    /\ stop = [t \in Threads |-> FALSE]
    /\ decoded = [t \in Threads |-> 0]

-----------------------------------------------------------------------------
(* An audio thread: run_audio_loop, then the closing event. *)

\* emit_tui_frame: try_send, so a full channel loses the frame.
DecodeFrame(t) ==
    /\ thread[t] = "running" /\ decoded[t] < MaxHeard
    /\ decoded' = [decoded EXCEPT ![t] = @ + 1]
    /\ async' = IF Len(async) < ChannelSize THEN Append(async, "frame") ELSE async
    /\ UNCHANGED <<uiVars, events, handler, pressed, thread, stop>>

\* Faulty variant: looks at the stop signal only at the end of a file.
LeaveLoopAtEof(t) ==
    /\ thread[t] = "running" /\ t \notin Live
    /\ thread' = [thread EXCEPT ![t] = "reporting"]
    /\ UNCHANGED <<uiVars, events, handler, pressed, async, stop, decoded>>

\* The loop ends when it sees the stop signal, or at the end of a file.
LeaveLoop(t) ==
    /\ thread[t] = "running"
    /\ stop[t] \/ t \notin Live
    /\ thread' = [thread EXCEPT ![t] = "reporting"]
    /\ UNCHANGED <<uiVars, events, handler, pressed, async, stop, decoded>>

\* async_tx.send(AudioDone) waits for room.
SendDone(t) ==
    /\ thread[t] = "reporting"
    /\ Len(async) < ChannelSize
    /\ async' = Append(async, "done")
    /\ thread' = [thread EXCEPT ![t] = "ending"]
    /\ UNCHANGED <<uiVars, events, handler, pressed, stop, decoded>>

\* From here on is_finished answers true and join returns.
Finish(t) ==
    /\ thread[t] = "ending"
    /\ thread' = [thread EXCEPT ![t] = "finished"]
    /\ UNCHANGED <<uiVars, events, handler, pressed, async, stop, decoded>>

Thread(t) == LeaveLoop(t) \/ SendDone(t) \/ Finish(t)

-----------------------------------------------------------------------------
(* The event handler task. *)
Drain ==
    /\ handler = "drain"
    /\ IF async # << >>
       THEN /\ events' = Append(events, Head(async))
            /\ async' = Tail(async)
            /\ UNCHANGED handler
       ELSE /\ handler' = "poll"
            /\ UNCHANGED <<events, async>>
    /\ UNCHANGED <<uiVars, pressed, threadVars>>

\* event::poll reports a key, or nothing for a tick's time.  The tick it then
\* sends only wakes the UI: see Wake.
PollKey(k) ==
    /\ handler = "poll" /\ pressed < MaxKeys
    /\ pressed' = pressed + 1
    /\ events' = Append(events, k)
    /\ handler' = "drain"
    /\ UNCHANGED <<uiVars, async, threadVars>>

PollTimeout ==
    /\ handler = "poll"
    /\ handler' = "drain"
    /\ UNCHANGED <<uiVars, events, pressed, async, threadVars>>

Handler == Drain \/ PollTimeout

-----------------------------------------------------------------------------
(* run_tui: one round of the loop. *)

\* start_audio spawns a thread and waits until it has opened its source.
Unborn == {t \in Threads : thread[t] = "unborn"}

StartAudio(t) ==
    /\ t \in Unborn /\ \A u \in Unborn : t <= u
    /\ thread' = [thread EXCEPT ![t] = "running"]
    /\ processing' = t
    /\ UNCHANGED dialog

StartFails == dialog' = "notice" /\ UNCHANGED <<thread, processing>>

Top ==
    /\ ui = "top"
    /\ ui' = "check"
    /\ start_requested' = FALSE
    /\ IF start_requested
       THEN StartFails \/ \E t \in Threads : StartAudio(t)
       ELSE UNCHANGED <<thread, processing, dialog>>
    /\ UNCHANGED <<should_quit, joining, events, handler, pressed, async, stop, decoded>>

\* The thread that is left when a finished one has been reaped.
Reaped == IF processing # None /\ thread[processing] = "finished" THEN None ELSE processing

\* Reap the thread if it has finished; then draw, and leave if asked to.  When
\* the terminal cannot be drawn on, `?` leaves run_tui at once: the handle of
\* the thread is dropped with the App and nobody sets the stop signal.  What
\* still runs goes on until run_tui_mode has printed the error and the process
\* ends.
Check ==
    /\ ui = "check"
    /\ \/ /\ processing' = Reaped
          /\ ui' = IF should_quit THEN "cleanup" ELSE "wait"
       \/ /\ processing' = None
          /\ ui' = "failed"
    /\ UNCHANGED <<start_requested, should_quit, dialog, joining, events,
                   handler, pressed, async, threadVars>>

\* events.next() returned a tick.
Wake ==
    /\ ui = "wait"
    /\ ui' = "top"
    /\ UNCHANGED <<processing, start_requested, should_quit, dialog, joining,
                   events, handler, pressed, async, threadVars>>

\* Faulty variant: forgets the running thread instead of joining it.
AudioDoneUnjoined ==
    /\ processing' = None
    /\ ui' = "top"
    /\ UNCHANGED <<start_requested, should_quit, dialog, joining, stop>>

\* handle_async_event(AudioDone): whatever thread is running now is joined.
AudioDone ==
    /\ processing' = None
    /\ joining' = processing
    /\ ui' = IF processing = None THEN "top" ELSE "join"
    /\ UNCHANGED <<start_requested, should_quit, dialog, stop>>

\* toggle_processing; with a file source and no file chosen yet, 's' is
\* answered by a notice.
ToggleProcessing ==
    \/ /\ processing = None
       /\ start_requested' = TRUE
       /\ UNCHANGED <<dialog, stop>>
    \/ /\ processing = None
       /\ dialog' = "notice"
       /\ UNCHANGED <<start_requested, stop>>
    \/ /\ processing # None
       /\ stop' = [stop EXCEPT ![processing] = TRUE]
       /\ UNCHANGED <<dialog, start_requested>>

\* handle_key: the dialog that is open decides what a key does.  A "notice" is
\* the error dialog or the details of a packet.
MainKey(k) ==
    \/ k = "s" /\ ToggleProcessing /\ UNCHANGED should_quit
    \/ /\ k # "s"
       /\ \/ k = "q" /\ dialog' = "quit"
          \/ k = "o" /\ processing = None /\ dialog' = "picker"
          \/ k = "enter" /\ dialog' = "notice"
          \/ k # "q" /\ UNCHANGED dialog
       /\ UNCHANGED <<start_requested, stop, should_quit>>

Closes(k) == dialog' = IF k \in {"enter", "esc"} THEN "none" ELSE dialog

QuitDialogKey(k) ==
    /\ should_quit' = (should_quit \/ k = "y")
    /\ IF k = "y" THEN dialog' = "none" ELSE Closes(k)
    /\ UNCHANGED <<start_requested, stop>>

NoticeKey(k) == Closes(k) /\ UNCHANGED <<start_requested, stop, should_quit>>

\* Enter on a file closes the picker and plays the file, Enter on a directory
\* opens it.
PickerKey(k) ==
    /\ \/ /\ Closes(k)
          /\ start_requested' = (start_requested \/ k = "enter")
       \/ /\ k = "enter"
          /\ UNCHANGED <<dialog, start_requested>>
    /\ UNCHANGED <<stop, should_quit>>

HandleKey(k) ==
    /\ CASE dialog = "none" -> MainKey(k)
         [] dialog = "quit" -> QuitDialogKey(k)
         [] dialog = "notice" -> NoticeKey(k)
         [] dialog = "picker" -> PickerKey(k)
    /\ ui' = "top"
    /\ UNCHANGED <<processing, joining>>

HandleEvent ==
    /\ ui = "wait" /\ events # << >>
    /\ events' = Tail(events)
    /\ \/ /\ Head(events) \in Keys
          /\ HandleKey(Head(events))
       \/ /\ Head(events) = "done"
          /\ AudioDone
       \/ /\ Head(events) = "frame"
          /\ ui' = "top"
          /\ UNCHANGED <<processing, start_requested, should_quit, dialog, joining, stop>>
    /\ UNCHANGED <<handler, pressed, async, thread, decoded>>

\* audio_handle.join() returns.
Joined(from, to) ==
    /\ ui = from /\ thread[joining] = "finished"
    /\ ui' = to
    /\ joining' = None
    /\ UNCHANGED <<processing, start_requested, should_quit, dialog, events,
                   handler, pressed, async, threadVars>>

\* Faulty variant: joins the thread without telling it to stop.
CleanupUnsignalled ==
    /\ ui = "cleanup"
    /\ ui' = IF processing = None THEN "exited" ELSE "lastjoin"
    /\ processing' = None /\ joining' = processing
    /\ UNCHANGED <<start_requested, should_quit, dialog, events, handler,
                   pressed, async, threadVars>>

\* After the loop: stop the audio thread and wait for it.
Cleanup ==
    /\ ui = "cleanup"
    /\ IF processing = None
       THEN ui' = "exited" /\ UNCHANGED stop
       ELSE ui' = "lastjoin" /\ stop' = [stop EXCEPT ![processing] = TRUE]
    /\ processing' = None /\ joining' = processing
    /\ UNCHANGED <<start_requested, should_quit, dialog, events, handler,
                   pressed, async, thread, decoded>>

UiStep == Top \/ Check \/ Cleanup \/ Joined("join", "top") \/ Joined("lastjoin", "exited")

TuiNext ==
    \/ UiStep \/ Wake \/ HandleEvent
    \/ Drain \/ PollTimeout \/ \E k \in Keys : PollKey(k)
    \/ \E t \in Threads : DecodeFrame(t) \/ Thread(t)

TuiSpec == TuiInit /\ [][TuiNext]_tuiVars

(***************************************************************************)
(* The threads, the handler task and the UI loop are scheduled; a sound    *)
(* card that was opened goes on delivering samples, so that the audio loop *)
(* comes back to look at its stop signal.  Ticks do not keep events from   *)
(* the UI: they share a first-in first-out queue with them, hence SF.      *)
(***************************************************************************)
FairTuiSpec ==
    /\ TuiSpec
    /\ WF_tuiVars(UiStep) /\ SF_tuiVars(HandleEvent)
    /\ WF_tuiVars(Handler)
    /\ WF_tuiVars(Wake \/ HandleEvent)
    /\ \A t \in Threads : WF_tuiVars(Thread(t))

-----------------------------------------------------------------------------
Alive(t) == thread[t] \in {"running", "reporting", "ending"}

\* No thread is lost track of, unless the terminal fails: one that still runs is
\* the one the UI shows as running, or the one it waits for.  So two threads
\* never decode at once, and a program that is quit leaves none behind.
NoOrphan ==
    ui # "failed" => \A t \in Threads : Alive(t) => t \in {processing, joining}

\* Once the user has confirmed, the program ends, also when the audio thread
\* is just then waiting for room in its channel.
QuitIsHeeded == should_quit ~> ui \in {"exited", "failed"}

\* A stop signal is answered: the thread ends and the UI shows it stopped, or
\* the program ends for want of a terminal.
StopIsHeeded ==
    \A t \in Threads :
        stop[t] ~> \/ thread[t] = "finished" /\ processing # t
                  \/ ui = "failed"

\* "Run the TUI event loop (blocks until quit)": the UI comes back to its
\* events again and again until it ends.
UiKeepsRunning == []<>(ui \in {"wait", "exited", "failed"})
=============================================================================
