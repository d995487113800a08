------------------------------- MODULE Frames -------------------------------
(***************************************************************************)
(* How a window draws its frames (graphics/Window.cpp, Window::draw): the  *)
(* main thread records command buffers in turn and submits them to the     *)
(* GPU, which executes them asynchronously, in order, and signals the      *)
(* fence of a buffer when it is done with it.  One call of draw is a       *)
(* sequence of steps, because it blocks on fences and on the device and    *)
(* the GPU goes on meanwhile; `step' is where the call is.                 *)
(*                                                                         *)
(* This module is the part that does not depend on who draws: Window adds  *)
(* the event loop, Primitives what the draw callback records.              *)
(*                                                                         *)
(* Vulkan is external: a queue executes what is submitted in order, a      *)
(* fence is signalled when the submission is done, vkDeviceWaitIdle waits  *)
(* until the queue is empty.  Presentation is not modelled beyond the      *)
(* results of acquiring and presenting an image: once the surface changed  *)
(* the swapchain is `stale' and these calls may fail until it is created   *)
(* anew.                                                                   *)
(***************************************************************************)
EXTENDS Naturals, Sequences

CONSTANT CmdBufCount    \* cmd_buf_count: 2 in the code

ASSUME CmdBufCountAssumption == CmdBufCount \in Nat \ {0}

Bufs == 0 .. CmdBufCount - 1

VARIABLES
  step,       \* where draw() is, "idle" when it is not running
  cur,        \* m_current_cmd_buf
  fence,      \* m_cmd_buf_fences: TRUE when signalled
  gpu,        \* command buffers submitted and not executed yet, oldest first
  finished,   \* m_draw_finished
  stale,      \* the swapchain does not fit the surface any more
  abandoned   \* history: a call of draw() returned before it submitted

frameVars == <<step, cur, fence, gpu, finished, stale, abandoned>>

Steps == {"idle", "wait", "acquire", "outdated", "release", "record", "present",
          "recreate"}

FramesTypeOK ==
  /\ step \in Steps
  /\ cur \in Bufs
  /\ fence \in [Bufs -> BOOLEAN]
  /\ gpu \in Seq(Bufs)
  /\ finished \in BOOLEAN
  /\ stale \in BOOLEAN
  /\ abandoned \in BOOLEAN

(* The fences are created signalled: nothing was submitted yet. *)
FramesInit ==
  /\ step = "idle"
  /\ cur = 0
  /\ fence = [b \in Bufs |-> TRUE]
  /\ gpu = <<>>
  /\ finished = TRUE
  /\ stale = FALSE
  /\ abandoned = FALSE

InFlight(b) == \E i \in DOMAIN gpu : gpu[i] = b

DeviceIdle == gpu = <<>>                                \* vkDeviceWaitIdle returns

-----------------------------------------------------------------------------
(* The call of draw(). *)

BeginDraw ==
  /\ step = "idle"
  /\ step' = "wait"
  /\ UNCHANGED <<cur, fence, gpu, finished, stale, abandoned>>

\* Mutant: the fence is reset without waiting for it.
ResetFence ==
  /\ step = "wait"
  /\ fence' = [fence EXCEPT ![cur] = FALSE]
  /\ step' = "acquire"
  /\ UNCHANGED <<cur, gpu, finished, stale, abandoned>>

(* vkWaitForFences without a timeout, then vkResetFences. *)
WaitFence ==
  /\ step = "wait"
  /\ fence[cur]
  /\ fence' = [fence EXCEPT ![cur] = FALSE]
  /\ step' = "acquire"
  /\ UNCHANGED <<cur, gpu, finished, stale, abandoned>>

(* An image is acquired, of a swapchain that is still good or suboptimal. *)
AcquireImage ==
  /\ step = "acquire"
  /\ step' = "release"
  /\ UNCHANGED <<cur, fence, gpu, finished, stale, abandoned>>

(* The command buffer has released the resources of its last frame and is  *)
(* begun.                                                                  *)
BeginCommands ==
  /\ step = "release"
  /\ step' = "record"
  /\ UNCHANGED <<cur, fence, gpu, finished, stale, abandoned>>

(* VK_ERROR_OUT_OF_DATE_KHR: reset_framebuffer() waits for the device ...   *)
AcquireOutOfDate ==
  /\ step = "acquire"
  /\ stale
  /\ step' = "outdated"
  /\ UNCHANGED <<cur, fence, gpu, finished, stale, abandoned>>

(* ... and draw() returns.  The fence it reset stays unsignalled: nothing  *)
(* was submitted that would signal it.                                     *)
ReturnOutOfDate ==
  /\ step = "outdated"
  /\ DeviceIdle
  /\ stale' = FALSE
  /\ abandoned' = TRUE
  /\ step' = "idle"
  /\ UNCHANGED <<cur, fence, gpu, finished>>

(* Any other error is logged, and draw() returns in the same way. *)
AcquireError ==
  /\ step = "acquire"
  /\ stale
  /\ abandoned' = TRUE
  /\ step' = "idle"
  /\ UNCHANGED <<cur, fence, gpu, finished, stale>>

Submit ==
  /\ step = "record"
  /\ gpu' = Append(gpu, cur)
  /\ step' = "present"
  /\ UNCHANGED <<cur, fence, finished, stale, abandoned>>

(* The image is presented, with a complaint when the swapchain is stale    *)
(* (a suboptimal one may also be left for the next frame).                 *)
PresentComplains ==
  /\ step = "present"
  /\ stale
  /\ step' = "recreate"
  /\ UNCHANGED <<cur, fence, gpu, finished, stale, abandoned>>

\* Mutant: m_draw_finished is not reset.
AdvanceOnly ==
  /\ cur' = (cur + 1) % CmdBufCount
  /\ step' = "idle"
  /\ UNCHANGED finished

Advance ==
  /\ cur' = (cur + 1) % CmdBufCount
  /\ finished' = FALSE
  /\ step' = "idle"

Present ==
  /\ step = "present"
  /\ Advance
  /\ UNCHANGED <<fence, gpu, stale, abandoned>>

(* reset_framebuffer() after the complaint. *)
PresentRecreates ==
  /\ step = "recreate"
  /\ DeviceIdle
  /\ stale' = FALSE
  /\ Advance
  /\ UNCHANGED <<fence, gpu, abandoned>>

-----------------------------------------------------------------------------
(* finish_draw(): called by widgets before they create anew what is drawn. *)
(* It returns at once when m_draw_finished is set.                         *)
FinishDraw ==
  /\ ~finished
  /\ DeviceIdle
  /\ finished' = TRUE
  /\ UNCHANGED <<step, cur, fence, gpu, stale, abandoned>>

(* The GPU is done with the oldest submission. *)
GpuDone ==
  /\ gpu # <<>>
  /\ fence' = [fence EXCEPT ![Head(gpu)] = TRUE]
  /\ gpu' = Tail(gpu)
  /\ UNCHANGED <<step, cur, finished, stale, abandoned>>

(* The surface is resized, moved to another display, ... *)
SurfaceChanges ==
  /\ ~stale
  /\ stale' = TRUE
  /\ UNCHANGED <<step, cur, fence, gpu, finished, abandoned>>

(* A step of draw() that its caller does not take part in. *)
DrawStep ==
  \/ WaitFence
  \/ AcquireImage
  \/ AcquireOutOfDate
  \/ AcquireError
  \/ PresentComplains
  \/ Present
  \/ PresentRecreates

-----------------------------------------------------------------------------
(* Properties. *)

(* A command buffer is begun and recorded only when the GPU does not have  *)
(* it any more, and no command buffer is submitted twice: the fence that   *)
(* is waited for belongs to the last submission of the same buffer.        *)
RecordedIdle ==
  /\ step \in {"acquire", "outdated", "release", "record"} => ~InFlight(cur)
  /\ \A i, j \in DOMAIN gpu : gpu[i] = gpu[j] => i = j

(* When finish_draw() returns at once because m_draw_finished is set, the  *)
(* GPU really has nothing to do: whatever is destroyed next is not in use. *)
FinishedIdle == finished /\ step # "present" /\ step # "recreate" => DeviceIdle
=============================================================================
