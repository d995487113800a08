------------------------------- MODULE Window -------------------------------
(***************************************************************************)
(* The main loop of a window (graphics/Window.cpp, Window::display): the   *)
(* update callback, drawing as the refresh mode says, waiting for events   *)
(* with or without a timeout, the handlers of the events, and close() and  *)
(* wakeup(), which other threads call.  Drawing is the module Frames.      *)
(*                                                                         *)
(* The application is the callbacks and other threads: a callback does one *)
(* of the Effects, or nothing.  SDL is external: its queue of events holds *)
(* MaxEvents, pushing to a full queue fails.                               *)
(***************************************************************************)
EXTENDS Frames

CONSTANTS
  Modes,        \* the refresh modes that are tried
  Effects,      \* what a callback of the application may do
  MaxEvents,    \* bound: capacity of the queue of events
  MaxInputs     \* bound: events that come from the system or other threads

ASSUME ModesAssumption == Modes \subseteq {"OnDemand", "OnEvent", "Periodic"}
ASSUME BoundsAssumption == MaxEvents \in Nat /\ MaxInputs \in Nat

VARIABLES
  mode,         \* m_refresh_mode
  pc,           \* where display() is
  after,        \* where display() goes on when draw() returns
  quit,         \* m_quit
  needsRefresh, \* View::m_needs_refresh
  timeout,      \* m_timeout is not 0
  clearTimeout, \* m_clear_timeout
  events,       \* the queue of events
  closing,      \* where another thread is in close()
  inputs,       \* how many events came from outside
  asked,        \* history: refresh() was called by an update or a handler
                \* and nothing was drawn since
  owed          \* history: a timeout was set and no update was called since

loopVars == <<mode, pc, after, quit, needsRefresh, timeout, clearTimeout,
              events, closing, inputs, asked, owed>>
vars == <<frameVars, loopVars>>

Events == {"wakeup", "quit", "resize", "expose", "input"}

TypeOK ==
  /\ FramesTypeOK
  /\ mode \in {"OnDemand", "OnEvent", "Periodic"}
  /\ pc \in {"test", "update", "refresh", "draw", "wait", "handled", "poll", "drain", "done"}
  /\ after \in {"wait", "handled", "poll", "test"}
  /\ {quit, needsRefresh, timeout, clearTimeout, asked, owed} \subseteq BOOLEAN
  /\ events \in Seq(Events) /\ Len(events) <= MaxEvents
  /\ closing \in {"no", "wake", "closed"}
  /\ inputs \in 0 .. MaxInputs

Init ==
  /\ FramesInit
  /\ mode \in Modes
  /\ pc = "test"
  /\ after = "wait"
  /\ quit = FALSE
  /\ needsRefresh = TRUE
  /\ timeout = FALSE
  /\ clearTimeout = FALSE
  /\ events = <<>>
  /\ closing = "no"
  /\ inputs = 0
  /\ asked = FALSE
  /\ owed = FALSE

(* SDL_PushEvent *)
Pushed(queue, e) == IF Len(queue) < MaxEvents THEN Append(queue, e) ELSE queue

-----------------------------------------------------------------------------
(* The effects of a callback that is called with the queue at `queue' and  *)
(* after which the requests `asked' and `owed' stand as given.             *)

Callback(e, queue, askedBefore, owedBefore) ==
  /\ needsRefresh' = (needsRefresh \/ e = "refresh")
  /\ asked' = (askedBefore \/ e = "refresh")
  /\ CASE e = "once"     -> timeout' = TRUE  /\ clearTimeout' = TRUE
       [] e = "periodic" -> timeout' = TRUE  /\ clearTimeout' = FALSE
       [] e = "off"      -> timeout' = FALSE /\ clearTimeout' = FALSE
       [] OTHER          -> UNCHANGED <<timeout, clearTimeout>>
  /\ owed' = (e \in {"once", "periodic"} \/ (owedBefore /\ e # "off"))
  /\ quit' = (quit \/ e = "close")
  /\ events' = IF e = "close" THEN Pushed(queue, "wakeup") ELSE queue

(* The condition of the loop. *)
Enter ==
  /\ pc = "test"
  /\ ~quit
  /\ pc' = "update"
  /\ owed' = FALSE
  /\ UNCHANGED <<frameVars, mode, after, quit, needsRefresh, timeout,
                 clearTimeout, events, closing, inputs, asked>>

(* The update callback; before it returns, widgets that it updates may     *)
(* call finish_draw().                                                     *)
UpdateFinishesDraw ==
  /\ pc = "update"
  /\ FinishDraw
  /\ UNCHANGED loopVars

Update ==
  /\ pc = "update"
  /\ pc' = "refresh"
  /\ \E e \in Effects : Callback(e, events, asked, owed)
  /\ UNCHANGED <<frameVars, mode, after, closing, inputs>>

Leave ==
  /\ pc = "test"
  /\ quit
  /\ pc' = "drain"
  /\ UNCHANGED <<frameVars, mode, after, quit, needsRefresh, timeout,
                 clearTimeout, events, closing, inputs, asked, owed>>

(* vkDeviceWaitIdle at the end of display() *)
Drained ==
  /\ pc = "drain"
  /\ DeviceIdle
  /\ pc' = "done"
  /\ UNCHANGED <<frameVars, mode, after, quit, needsRefresh, timeout,
                 clearTimeout, events, closing, inputs, asked, owed>>

(* In OnDemand mode the request to refresh is popped, and nothing is drawn *)
(* without it.                                                             *)
RefreshDraws ==
  /\ pc = "refresh"
  /\ mode = "OnDemand" => needsRefresh
  /\ needsRefresh' = IF mode = "OnDemand" THEN FALSE ELSE needsRefresh
  /\ BeginDraw
  /\ pc' = "draw"
  /\ after' = IF mode = "Periodic" THEN "poll" ELSE "wait"
  /\ UNCHANGED <<mode, quit, timeout, clearTimeout, events, closing, inputs,
                 asked, owed>>

RefreshNotNeeded ==
  /\ pc = "refresh"
  /\ mode = "OnDemand" /\ ~needsRefresh
  /\ pc' = "wait"
  /\ UNCHANGED <<frameVars, mode, after, quit, needsRefresh, timeout,
                 clearTimeout, events, closing, inputs, asked, owed>>

-----------------------------------------------------------------------------
(* draw(), called from the loop or from the handler of a resize. *)

ReturnsFromDraw == pc' = IF step' = "idle" THEN after ELSE "draw"

DrawOn ==
  /\ pc = "draw"
  /\ DrawStep
  /\ ReturnsFromDraw
  /\ UNCHANGED <<mode, after, quit, needsRefresh, timeout, clearTimeout,
                 events, closing, inputs, asked, owed>>

(* The swapchain was out of date: wakeup(), so that the loop goes on. *)
DrawOutOfDate ==
  /\ pc = "draw"
  /\ ReturnOutOfDate
  /\ ReturnsFromDraw
  /\ events' = Pushed(events, "wakeup")
  /\ UNCHANGED <<mode, after, quit, needsRefresh, timeout, clearTimeout,
                 closing, inputs, asked, owed>>

(* The draw callback.  What it draws is what the updates asked for; it may *)
(* ask for the next refresh itself.                                        *)
DrawCallback ==
  /\ pc = "draw"
  /\ BeginCommands
  /\ \E e \in Effects \cap {"none", "refresh"} :
        needsRefresh' = (needsRefresh \/ e = "refresh")
  /\ asked' = FALSE
  /\ UNCHANGED <<mode, pc, after, quit, timeout, clearTimeout, events, closing,
                 inputs, owed>>

DrawSubmit ==
  /\ pc = "draw"
  /\ Submit
  /\ UNCHANGED loopVars

-----------------------------------------------------------------------------
(* Events. *)

Rest == Tail(events)

QuitEvent ==
  /\ Head(events) = "quit"
  /\ quit' = TRUE
  /\ events' = Rest
  /\ UNCHANGED <<frameVars, needsRefresh, timeout, clearTimeout, asked, owed>>

ExposeEvent ==
  /\ Head(events) = "expose"
  /\ needsRefresh' = TRUE
  /\ asked' = TRUE
  /\ events' = Rest
  /\ UNCHANGED <<frameVars, quit, timeout, clearTimeout, owed>>

WakeupEvent ==
  /\ Head(events) = "wakeup"
  /\ events' = Rest
  /\ UNCHANGED <<frameVars, quit, needsRefresh, timeout, clearTimeout, asked, owed>>

(* Keys, text, the mouse: the callback of the application is called. *)
InputEvent ==
  /\ Head(events) = "input"
  /\ \E e \in Effects : Callback(e, Rest, asked, owed)
  /\ UNCHANGED frameVars

(* resize_framebuffer() creates the swapchain anew when its size differs   *)
(* (it waits for the device first), then the size callback is called.      *)
ResizeEvent ==
  /\ Head(events) = "resize"
  /\ stale => DeviceIdle
  /\ stale' = FALSE
  /\ step' = "wait"
  /\ IF stale THEN \E e \in Effects : Callback(e, Rest, asked, owed)
              ELSE Callback("none", Rest, asked, owed)
  /\ UNCHANGED <<cur, fence, gpu, finished, abandoned>>

(* handle_event(); after it the loop goes to `next'. *)
HandleEvent(next) ==
  /\ events # <<>>
  /\ \/ /\ QuitEvent \/ ExposeEvent \/ WakeupEvent \/ InputEvent
        /\ pc' = next
        /\ UNCHANGED after
     \/ /\ ResizeEvent
        /\ pc' = "draw"
        /\ after' = next
  /\ UNCHANGED <<mode, closing, inputs>>

\* Mutant: the next event is waited for without going round the loop.
GotEventWaitsOn ==
  /\ pc = "wait"
  /\ HandleEvent("wait")

(* SDL_WaitEvent or, with a timeout, SDL_WaitEventTimeout got an event. *)
GotEvent ==
  /\ pc = "wait"
  /\ HandleEvent(IF timeout THEN "handled" ELSE "test")

\* Mutant: the expired timeout is cleared and the wait goes on.
TimedOutWaitsOn ==
  /\ pc = "wait"
  /\ timeout
  /\ events = <<>>
  /\ timeout' = ~clearTimeout
  /\ UNCHANGED <<frameVars, mode, pc, after, quit, needsRefresh, clearTimeout,
                 events, closing, inputs, asked, owed>>

(* SDL_WaitEventTimeout returns without an event. *)
TimedOut ==
  /\ pc = "wait"
  /\ timeout
  /\ events = <<>>
  /\ pc' = "handled"
  /\ UNCHANGED <<frameVars, mode, after, quit, needsRefresh, timeout,
                 clearTimeout, events, closing, inputs, asked, owed>>

(* A one-shot timeout is cleared, whether it expired or an event came. *)
ClearTimeout ==
  /\ pc = "handled"
  /\ timeout' = (timeout /\ ~clearTimeout)
  /\ pc' = "test"
  /\ UNCHANGED <<frameVars, mode, after, quit, needsRefresh, clearTimeout,
                 events, closing, inputs, asked, owed>>

(* Periodic mode: all the events there are, then the next frame. *)
Poll ==
  /\ pc = "poll"
  /\ HandleEvent("poll")

PolledAll ==
  /\ pc = "poll"
  /\ events = <<>>
  /\ pc' = "test"
  /\ UNCHANGED <<frameVars, mode, after, quit, needsRefresh, timeout,
                 clearTimeout, events, closing, inputs, asked, owed>>

-----------------------------------------------------------------------------
(* The rest of the world. *)

(* An event of the system: a resize comes with a surface that changed. *)
SystemEvent ==
  /\ inputs < MaxInputs
  /\ inputs' = inputs + 1
  /\ \E e \in Events :
        /\ events' = Pushed(events, e)
        /\ IF e = "resize" THEN SurfaceChanges ELSE UNCHANGED frameVars
  /\ UNCHANGED <<mode, pc, after, quit, needsRefresh, timeout, clearTimeout,
                 closing, asked, owed>>

\* Mutant: close() without wakeup().
CloseWithoutWakeup ==
  /\ closing = "no"
  /\ closing' = "closed"
  /\ quit' = TRUE
  /\ UNCHANGED <<frameVars, mode, pc, after, needsRefresh, timeout,
                 clearTimeout, events, inputs, asked, owed>>

(* close() in another thread: the flag first, then the wake-up. *)
CloseSetsQuit ==
  /\ closing = "no"
  /\ closing' = "wake"
  /\ quit' = TRUE
  /\ UNCHANGED <<frameVars, mode, pc, after, needsRefresh, timeout,
                 clearTimeout, events, inputs, asked, owed>>

CloseWakesUp ==
  /\ closing = "wake"
  /\ closing' = "closed"
  /\ events' = Pushed(events, "wakeup")
  /\ UNCHANGED <<frameVars, mode, pc, after, quit, needsRefresh, timeout,
                 clearTimeout, inputs, asked, owed>>

Gpu ==
  /\ GpuDone
  /\ UNCHANGED loopVars

MainThread ==
  \/ Enter \/ UpdateFinishesDraw \/ Update \/ Leave \/ Drained
  \/ RefreshDraws \/ RefreshNotNeeded
  \/ DrawOn \/ DrawOutOfDate \/ DrawCallback \/ DrawSubmit
  \/ GotEvent \/ TimedOut \/ ClearTimeout
  \/ Poll \/ PolledAll

Next ==
  \/ MainThread
  \/ SystemEvent
  \/ CloseSetsQuit
  \/ CloseWakesUp
  \/ Gpu

(* The main thread runs whenever it can, a timeout expires, the GPU works  *)
(* off its queue, and a thread that entered close() leaves it.  Nothing    *)
(* makes the system send events or a thread call close().                  *)
Fairness ==
  /\ WF_vars(MainThread)
  /\ WF_vars(Gpu)
  /\ WF_vars(CloseWakesUp)

Spec == Init /\ [][Next]_vars /\ Fairness

-----------------------------------------------------------------------------
(* Properties. *)

(* close() stops the main loop from any thread and in any state of the     *)
(* loop, also between its test of the flag and its wait for an event, as   *)
(* long as no call of draw() was abandoned.                                *)
ClosesUnlessAbandoned == quit ~> (pc = "done" \/ abandoned)

(* The same without the exception: what Window.h says of close().          *)
Closes == quit ~> pc = "done"

(* A refresh that an update or an event handler asked for is drawn, also   *)
(* when no other event ever comes.                                         *)
RefreshDrawn == asked ~> (~asked \/ quit \/ abandoned)

(* After a timeout was set, by any callback, an update is called, although *)
(* the one-shot timeout may be cleared by an event that came first.        *)
TimeoutHonoured == owed ~> (~owed \/ quit \/ abandoned)
=============================================================================
