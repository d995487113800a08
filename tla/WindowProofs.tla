---------------------------- MODULE WindowProofs ----------------------------
(***************************************************************************)
(* Proofs about the main loop of a window: types, and that a frame is      *)
(* recorded and drawn objects are destroyed only while the GPU does not    *)
(* use them, for every number of command buffers, every capacity of the    *)
(* queue of events and everything a callback or another thread may do.     *)
(***************************************************************************)
EXTENDS Window, FramesProofs, SequenceTheorems

(* Outside of draw() no frame is on the way, so the draw() of a resize     *)
(* starts one of its own.                                                  *)
DrawsInDraw == pc # "draw" => step = "idle"

IInv == TypeOK /\ FramesInv /\ DrawsInDraw

(* A queue of events stays one when an event is pushed to it or taken. *)
Queues == {q \in Seq(Events) : Len(q) <= MaxEvents}

LEMMA PushedQueue ==
  ASSUME NEW q \in Queues, NEW e \in Events
  PROVE  Pushed(q, e) \in Queues
  BY BoundsAssumption DEF Pushed, Queues

LEMMA TailQueue ==
  ASSUME NEW q \in Queues, q # <<>>
  PROVE  Tail(q) \in Queues
  BY BoundsAssumption DEF Queues

(* The effect of a callback has the right types. *)
LEMMA CallbackTypes ==
  ASSUME TypeOK, NEW e, NEW queue \in Queues,
         NEW a \in BOOLEAN, NEW o \in BOOLEAN,
         Callback(e, queue, a, o)
  PROVE  /\ {quit', needsRefresh', timeout', clearTimeout', asked', owed'}
              \subseteq BOOLEAN
         /\ events' \in Queues
<1>1. events' \in Queues
  BY PushedQueue DEF Callback, Events
<1>2. needsRefresh' \in BOOLEAN /\ asked' \in BOOLEAN /\ owed' \in BOOLEAN
      /\ quit' \in BOOLEAN
  BY DEF Callback, TypeOK
<1>3. timeout' \in BOOLEAN /\ clearTimeout' \in BOOLEAN
  <2>1. timeout \in BOOLEAN /\ clearTimeout \in BOOLEAN
    BY DEF TypeOK
  <2>2. CASE e = "once"
    BY <2>2 DEF Callback
  <2>3. CASE e = "periodic"
    BY <2>3 DEF Callback
  <2>4. CASE e = "off"
    BY <2>4 DEF Callback
  <2>5. CASE e \notin {"once", "periodic", "off"}
    BY <2>1, <2>5 DEF Callback
  <2> QED
    BY <2>2, <2>3, <2>4, <2>5
<1> QED
  BY <1>1, <1>2, <1>3

(* What the loop does is a step of a frame, or leaves the frames alone. *)
LEMMA StepsOfFrames ==
  ASSUME IInv, [Next]_vars
  PROVE  FramesStep
<1> USE DEF FramesStep
<1>1. CASE MainThread
  <2>1. CASE Enter \/ Update \/ Leave \/ Drained \/ RefreshNotNeeded
             \/ TimedOut \/ ClearTimeout \/ PolledAll
    BY <2>1 DEF Enter, Update, Leave, Drained, RefreshNotNeeded, TimedOut,
                ClearTimeout, PolledAll
  <2>2. CASE UpdateFinishesDraw \/ RefreshDraws
    BY <2>2 DEF UpdateFinishesDraw, RefreshDraws
  <2>3. CASE DrawOn \/ DrawOutOfDate \/ DrawCallback \/ DrawSubmit
    BY <2>3 DEF DrawOn, DrawOutOfDate, DrawCallback, DrawSubmit
  <2>4. ASSUME NEW next, HandleEvent(next), pc # "draw"
        PROVE  FramesStep
    <3>1. CASE QuitEvent \/ ExposeEvent \/ WakeupEvent \/ InputEvent
      BY <3>1 DEF QuitEvent, ExposeEvent, WakeupEvent, InputEvent
    <3>2. CASE ResizeEvent
      BY <3>2, <2>4 DEF ResizeEvent, Resized, IInv, DrawsInDraw
    <3> QED
      BY <2>4, <3>1, <3>2 DEF HandleEvent
  <2>5. CASE GotEvent
    BY <2>5, <2>4 DEF GotEvent
  <2>6. CASE Poll
    BY <2>6, <2>4 DEF Poll
  <2> QED
    BY <1>1, <2>1, <2>2, <2>3, <2>5, <2>6 DEF MainThread
<1>2. CASE SystemEvent
  BY <1>2 DEF SystemEvent
<1>3. CASE CloseSetsQuit \/ CloseWakesUp
  BY <1>3 DEF CloseSetsQuit, CloseWakesUp
<1>4. CASE Gpu
  BY <1>4 DEF Gpu
<1>5. CASE UNCHANGED vars
  BY <1>5 DEF vars, frameVars
<1> QED
  BY <1>1, <1>2, <1>3, <1>4, <1>5 DEF Next

(* The types of the loop's own variables, without those of the frames. *)
LoopTypes ==
  /\ mode \in {"OnDemand", "OnEvent", "Periodic"}
  /\ pc \in {"test", "update", "refresh", "draw", "wait", "handled", "poll", "drain", "done"}
  /\ after \in {"wait", "handled", "poll", "test"}
  /\ {quit, needsRefresh, timeout, clearTimeout, asked, owed} \subseteq BOOLEAN
  /\ events \in Queues
  /\ closing \in {"no", "wake", "closed"}
  /\ inputs \in 0 .. MaxInputs

LEMMA TypeOKParts == TypeOK <=> FramesTypeOK /\ LoopTypes
  BY DEF TypeOK, LoopTypes, Queues

(* Handling an event, wherever the loop goes on. *)
LEMMA HandleEventTypes ==
  ASSUME TypeOK, NEW next \in {"wait", "handled", "poll", "test"},
         HandleEvent(next)
  PROVE  LoopTypes' /\ (pc' # "draw" => UNCHANGED step)
<1>1. LoopTypes
  BY TypeOKParts
<1>2. events # <<>> /\ events \in Queues /\ Rest \in Queues
  BY <1>1, TailQueue DEF HandleEvent, LoopTypes, Rest
<1>3. UNCHANGED <<mode, closing, inputs>>
  BY DEF HandleEvent
<1>4. CASE (QuitEvent \/ ExposeEvent \/ WakeupEvent \/ InputEvent)
           /\ pc' = next /\ UNCHANGED after
  <2>1. CASE QuitEvent
    BY <1>1, <1>2, <1>3, <1>4, <2>1 DEF QuitEvent, LoopTypes, frameVars
  <2>2. CASE ExposeEvent
    BY <1>1, <1>2, <1>3, <1>4, <2>2 DEF ExposeEvent, LoopTypes, frameVars
  <2>3. CASE WakeupEvent
    BY <1>1, <1>2, <1>3, <1>4, <2>3 DEF WakeupEvent, LoopTypes, frameVars
  <2>4. CASE InputEvent
    <3>1. PICK e \in Effects : Callback(e, Rest, asked, owed)
      BY <2>4 DEF InputEvent
    <3>2. asked \in BOOLEAN /\ owed \in BOOLEAN
      BY <1>1 DEF LoopTypes
    <3>3. /\ {quit', needsRefresh', timeout', clearTimeout', asked', owed'}
              \subseteq BOOLEAN
          /\ events' \in Queues
      BY <1>2, <3>1, <3>2, CallbackTypes
    <3> QED
      BY <1>1, <1>3, <1>4, <2>4, <3>3 DEF InputEvent, LoopTypes, frameVars
  <2> QED
    BY <1>4, <2>1, <2>2, <2>3, <2>4
<1>5. CASE ResizeEvent /\ pc' = "draw" /\ after' = next
  <2>1. PICK e : Callback(e, Rest, asked, owed)
    BY <1>5 DEF ResizeEvent
  <2>2. asked \in BOOLEAN /\ owed \in BOOLEAN
    BY <1>1 DEF LoopTypes
  <2>3. /\ {quit', needsRefresh', timeout', clearTimeout', asked', owed'}
            \subseteq BOOLEAN
        /\ events' \in Queues
    BY <1>2, <2>1, <2>2, CallbackTypes
  <2> QED
    BY <1>1, <1>3, <1>5, <2>3 DEF LoopTypes
<1> QED
  BY <1>4, <1>5 DEF HandleEvent

(* Every step of the loop leaves its variables well-typed, and draw() only *)
(* when the frame is over.                                                 *)
LEMMA MainThreadTypes ==
  ASSUME TypeOK, DrawsInDraw, MainThread
  PROVE  LoopTypes' /\ DrawsInDraw'
<1>1. LoopTypes
  BY TypeOKParts
<1>2. CASE Enter \/ Leave \/ Drained \/ RefreshNotNeeded \/ TimedOut
           \/ PolledAll
  BY <1>1, <1>2 DEF Enter, Leave, Drained, RefreshNotNeeded, TimedOut,
                    PolledAll, LoopTypes, DrawsInDraw, frameVars
<1>3. CASE ClearTimeout
  BY <1>1, <1>3 DEF ClearTimeout, LoopTypes, DrawsInDraw, frameVars
<1>4. CASE UpdateFinishesDraw
  BY <1>1, <1>4 DEF UpdateFinishesDraw, FinishDraw, loopVars, LoopTypes,
                    DrawsInDraw
<1>5. CASE Update
  <2>1. PICK e \in Effects : Callback(e, events, asked, owed)
    BY <1>5 DEF Update
  <2>2. asked \in BOOLEAN /\ owed \in BOOLEAN /\ events \in Queues
    BY <1>1 DEF LoopTypes
  <2>3. /\ {quit', needsRefresh', timeout', clearTimeout', asked', owed'}
            \subseteq BOOLEAN
        /\ events' \in Queues
    BY <2>1, <2>2, CallbackTypes
  <2> QED
    BY <1>1, <1>5, <2>3 DEF Update, LoopTypes, DrawsInDraw, frameVars
<1>6. CASE RefreshDraws
  BY <1>1, <1>6 DEF RefreshDraws, LoopTypes, DrawsInDraw
<1>7. CASE DrawOn
  BY <1>1, <1>7 DEF DrawOn, ReturnsFromDraw, LoopTypes, DrawsInDraw
<1>8. CASE DrawOutOfDate
  <2>1. events' \in Queues
    BY <1>1, <1>8, PushedQueue DEF DrawOutOfDate, LoopTypes, Events
  <2> QED
    BY <1>1, <1>8, <2>1 DEF DrawOutOfDate, ReturnsFromDraw, LoopTypes,
                            DrawsInDraw
<1>9. CASE DrawCallback
  BY <1>1, <1>9 DEF DrawCallback, LoopTypes, DrawsInDraw
<1>10. CASE DrawSubmit
  BY <1>1, <1>10 DEF DrawSubmit, loopVars, LoopTypes, DrawsInDraw
<1>11. ASSUME NEW next \in {"wait", "handled", "poll", "test"},
              HandleEvent(next), pc # "draw"
       PROVE  LoopTypes' /\ DrawsInDraw'
  BY <1>11, HandleEventTypes DEF DrawsInDraw
<1>12. CASE GotEvent
  BY <1>12, <1>11 DEF GotEvent
<1>13. CASE Poll
  BY <1>13, <1>11 DEF Poll
<1> QED
  BY <1>2, <1>3, <1>4, <1>5, <1>6, <1>7, <1>8, <1>9, <1>10, <1>12, <1>13
     DEF MainThread

(* The steps of the rest of the world. *)
LEMMA OutsideTypes ==
  ASSUME TypeOK, DrawsInDraw,
         SystemEvent \/ CloseSetsQuit \/ CloseWakesUp \/ Gpu \/ UNCHANGED vars
  PROVE  LoopTypes' /\ DrawsInDraw'
<1>1. LoopTypes
  BY TypeOKParts
<1>2. CASE SystemEvent
  <2>1. PICK e \in Events :
           /\ events' = Pushed(events, e)
           /\ IF e = "resize" THEN SurfaceChanges ELSE UNCHANGED frameVars
    BY <1>2 DEF SystemEvent
  <2>2. events' \in Queues /\ UNCHANGED step
    BY <1>1, <2>1, PushedQueue DEF LoopTypes, SurfaceChanges, frameVars
  <2>3. inputs' \in 0 .. MaxInputs
    BY <1>1, <1>2, BoundsAssumption DEF LoopTypes, SystemEvent
  <2> QED
    BY <1>1, <1>2, <2>2, <2>3 DEF SystemEvent, LoopTypes, DrawsInDraw
<1>3. CASE CloseSetsQuit
  BY <1>1, <1>3 DEF CloseSetsQuit, LoopTypes, DrawsInDraw, frameVars
<1>4. CASE CloseWakesUp
  <2>1. events' \in Queues
    BY <1>1, <1>4, PushedQueue DEF CloseWakesUp, LoopTypes, Events
  <2> QED
    BY <1>1, <1>4, <2>1 DEF CloseWakesUp, LoopTypes, DrawsInDraw, frameVars
<1>5. CASE Gpu
  BY <1>1, <1>5 DEF Gpu, GpuDone, loopVars, LoopTypes, DrawsInDraw
<1>6. CASE UNCHANGED vars
  BY <1>1, <1>6 DEF vars, frameVars, loopVars, LoopTypes, DrawsInDraw
<1> QED
  BY <1>2, <1>3, <1>4, <1>5, <1>6

(* The loop starts outside of draw() with an empty queue. *)
LEMMA InitialInv == Init => IInv
<1> SUFFICES ASSUME Init
             PROVE  IInv
  OBVIOUS
<1>1. FramesInv
  BY FramesInitially DEF Init
<1>2. events \in Queues
  BY BoundsAssumption DEF Init, Queues
<1>3. LoopTypes
  <2>1. mode \in {"OnDemand", "OnEvent", "Periodic"} /\ inputs \in 0 .. MaxInputs
    BY ModesAssumption, BoundsAssumption DEF Init
  <2> QED
    BY <1>2, <2>1 DEF Init, LoopTypes
<1> QED
  BY <1>1, <1>3, TypeOKParts DEF IInv, FramesInv, DrawsInDraw, Init, FramesInit

LEMMA InvPreserved == IInv /\ [Next]_vars => IInv'
<1> SUFFICES ASSUME IInv, [Next]_vars
             PROVE  IInv'
  OBVIOUS
<1>1. FramesInv'
  BY StepsOfFrames, FramesPreserved DEF IInv
<1>2. LoopTypes' /\ DrawsInDraw'
  BY MainThreadTypes, OutsideTypes DEF IInv, Next
<1>3. TypeOK'
  BY <1>1, <1>2, TypeOKParts, PTL DEF FramesInv
<1> QED
  BY <1>1, <1>2, <1>3 DEF IInv

LEMMA InvAlways == Spec => []IInv
  BY InitialInv, InvPreserved, PTL DEF Spec

(* The variables of the loop and of the frames keep their types; the queue *)
(* of events never holds more than SDL lets it.                            *)
THEOREM TypeCorrect == Spec => []TypeOK
  BY InvAlways, PTL DEF IInv

(* Window::draw records a command buffer only when the GPU does not have   *)
(* it, with any number of command buffers in turn, whatever calls were     *)
(* abandoned and whenever the swapchain was created anew.                  *)
THEOREM RecordsIdleBuffers == Spec => []RecordedIdle
<1>1. IInv => RecordedIdle
  BY FramesSafe DEF IInv
<1> QED
  BY <1>1, InvAlways, PTL

(* When Window::finish_draw returns at once, the GPU has nothing to do, so *)
(* that what a widget destroys after it is not in use.                     *)
THEOREM FinishedIsIdle == Spec => []FinishedIdle
<1>1. IInv => FinishedIdle
  BY FramesSafe DEF IInv
<1> QED
  BY <1>1, InvAlways, PTL
=============================================================================
