---------------------------- MODULE FramesProofs ----------------------------
(***************************************************************************)
(* What every step of a frame preserves, whoever draws: the part of the    *)
(* invariants of Window and Primitives that is about fences and            *)
(* submissions.  RecordedIdle is not inductive: that a buffer is idle once *)
(* its fence was waited for rests on a buffer in flight having its fence   *)
(* unsignalled.                                                            *)
(***************************************************************************)
EXTENDS Frames, TLAPS

(* Whatever the GPU has not executed yet has not signalled. *)
Unsignalled == \A i \in DOMAIN gpu : ~fence[gpu[i]]

(* Between the wait and the submission the buffer is not in flight, and    *)
(* its fence is reset.                                                     *)
Reset ==
  step \in {"acquire", "outdated", "release", "record"} =>
     ~fence[cur] /\ \A i \in DOMAIN gpu : gpu[i] # cur

SubmittedOnce == \A i, j \in DOMAIN gpu : gpu[i] = gpu[j] => i = j

FramesInv ==
  /\ FramesTypeOK
  /\ Unsignalled
  /\ Reset
  /\ SubmittedOnce
  /\ FinishedIdle

(* The resize of an idle window, which draws at once. *)
Resized ==
  /\ step = "idle"
  /\ step' = "wait"
  /\ stale' = FALSE
  /\ UNCHANGED <<cur, fence, gpu, finished, abandoned>>

FramesStep ==
  \/ BeginDraw \/ DrawStep \/ ReturnOutOfDate \/ BeginCommands \/ Submit
  \/ FinishDraw \/ GpuDone \/ SurfaceChanges \/ Resized
  \/ UNCHANGED frameVars

(* The fences are created signalled and the queue is empty. *)
LEMMA FramesInitially == FramesInit => FramesInv
<1> SUFFICES ASSUME FramesInit
             PROVE  FramesInv
  OBVIOUS
<1>1. gpu \in Seq(Bufs) /\ DOMAIN gpu = {}
  BY DEF FramesInit
<1>2. 0 \in Bufs
  BY CmdBufCountAssumption DEF Bufs
<1>3. FramesTypeOK
  BY <1>1, <1>2 DEF FramesInit, FramesTypeOK, Steps
<1>4. Unsignalled /\ Reset /\ SubmittedOnce
  BY <1>1 DEF Unsignalled, Reset, SubmittedOnce, FramesInit
<1> QED
  BY <1>3, <1>4 DEF FramesInv, FinishedIdle, DeviceIdle, FramesInit

(* The next command buffer is one of them. *)
LEMMA NextBuffer == \A b \in Bufs : (b + 1) % CmdBufCount \in Bufs
  BY CmdBufCountAssumption DEF Bufs

(* Steps that move neither a fence nor the queue. *)
LEMMA FramesQuietSteps ==
  ASSUME FramesInv,
         \/ BeginDraw \/ AcquireImage \/ AcquireOutOfDate \/ AcquireError
         \/ PresentComplains \/ Present \/ PresentRecreates
         \/ ReturnOutOfDate \/ BeginCommands \/ FinishDraw \/ SurfaceChanges
         \/ Resized \/ UNCHANGED frameVars
  PROVE  FramesInv'
<1> USE DEF FramesInv, FramesTypeOK, Unsignalled, Reset, SubmittedOnce,
            FinishedIdle, DeviceIdle, Steps
<1>1. CASE BeginDraw
  BY <1>1 DEF BeginDraw
<1>2. CASE AcquireImage
  BY <1>2 DEF AcquireImage
<1>3. CASE AcquireOutOfDate
  BY <1>3 DEF AcquireOutOfDate
<1>4. CASE AcquireError
  BY <1>4 DEF AcquireError
<1>5. CASE PresentComplains
  BY <1>5 DEF PresentComplains
<1>6. CASE Present
  BY <1>6, NextBuffer DEF Present, Advance
<1>7. CASE PresentRecreates
  BY <1>7, NextBuffer DEF PresentRecreates, Advance
<1>8. CASE ReturnOutOfDate
  BY <1>8 DEF ReturnOutOfDate
<1>9. CASE BeginCommands
  BY <1>9 DEF BeginCommands
<1>10. CASE FinishDraw
  BY <1>10 DEF FinishDraw
<1>11. CASE SurfaceChanges
  BY <1>11 DEF SurfaceChanges
<1>12. CASE Resized
  BY <1>12 DEF Resized
<1>13. CASE UNCHANGED frameVars
  BY <1>13 DEF frameVars
<1> QED
  BY <1>1, <1>2, <1>3, <1>4, <1>5, <1>6, <1>7, <1>8, <1>9, <1>10, <1>11,
     <1>12, <1>13

(* Waiting for the fence: it is signalled, so the buffer is not in flight. *)
LEMMA FramesWaitFence ==
  ASSUME FramesInv, WaitFence
  PROVE  FramesInv'
<1>1. \A i \in DOMAIN gpu : gpu[i] # cur
  BY DEF FramesInv, Unsignalled, WaitFence
<1>2. ~fence'[cur] /\ \A b \in Bufs : b # cur => fence'[b] = fence[b]
  BY DEF WaitFence, FramesInv, FramesTypeOK
<1>3. \A i \in DOMAIN gpu : gpu[i] \in Bufs
  BY DEF FramesInv, FramesTypeOK
<1>4. FramesTypeOK'
  BY DEF FramesInv, FramesTypeOK, WaitFence, Steps
<1> QED
  BY <1>1, <1>2, <1>3, <1>4
     DEF FramesInv, Unsignalled, Reset, SubmittedOnce, FinishedIdle,
         DeviceIdle, WaitFence

(* The submission: the buffer was not in the queue, its fence is reset. *)
LEMMA FramesSubmit ==
  ASSUME FramesInv, Submit
  PROVE  FramesInv'
<1>1. gpu \in Seq(Bufs) /\ cur \in Bufs /\ gpu' = Append(gpu, cur)
  BY DEF FramesInv, FramesTypeOK, Submit
<1>2. ~fence[cur] /\ \A i \in DOMAIN gpu : gpu[i] # cur
  BY DEF FramesInv, Reset, Submit
<1>3. /\ DOMAIN gpu' = 1 .. Len(gpu) + 1
      /\ \A i \in 1 .. Len(gpu) : gpu'[i] = gpu[i]
      /\ gpu'[Len(gpu) + 1] = cur
      /\ DOMAIN gpu = 1 .. Len(gpu)
      /\ Len(gpu) \in Nat
  BY <1>1
<1>4. FramesTypeOK'
  BY <1>1 DEF FramesInv, FramesTypeOK, Submit, Steps
<1>5. Unsignalled'
  BY <1>2, <1>3 DEF FramesInv, Unsignalled, Submit
<1>6. SubmittedOnce'
  BY <1>2, <1>3 DEF FramesInv, SubmittedOnce
<1> QED
  BY <1>4, <1>5, <1>6 DEF FramesInv, Reset, FinishedIdle, Submit

(* The GPU is done with a submission: the buffer is not elsewhere in the   *)
(* queue, so its fence tells the truth.                                    *)
LEMMA FramesGpuDone ==
  ASSUME FramesInv, GpuDone
  PROVE  FramesInv'
<1>1. gpu \in Seq(Bufs) /\ gpu # <<>> /\ gpu' = Tail(gpu)
  BY DEF FramesInv, FramesTypeOK, GpuDone
<1>2. /\ DOMAIN gpu = 1 .. Len(gpu)
      /\ Len(gpu) \in Nat \ {0}
      /\ DOMAIN gpu' = 1 .. Len(gpu) - 1
      /\ \A i \in 1 .. Len(gpu) - 1 : gpu'[i] = gpu[i + 1]
      /\ Head(gpu) = gpu[1]
      /\ Head(gpu) \in Bufs
      /\ gpu' \in Seq(Bufs)
  BY <1>1
<1>3. \A i \in DOMAIN gpu' : gpu'[i] # Head(gpu) /\ gpu'[i] \in Bufs
  BY <1>1, <1>2 DEF FramesInv, SubmittedOnce
<1>4. \A b \in Bufs : b # Head(gpu) => fence'[b] = fence[b]
  BY DEF GpuDone, FramesInv, FramesTypeOK
<1>5. \A i \in DOMAIN gpu' : i + 1 \in DOMAIN gpu /\ gpu'[i] = gpu[i + 1]
  BY <1>2
<1>6. FramesTypeOK'
  BY <1>2 DEF FramesInv, FramesTypeOK, GpuDone, Steps
<1>7. Unsignalled'
  BY <1>3, <1>4, <1>5 DEF FramesInv, Unsignalled
<1>8. SubmittedOnce'
  <2> SUFFICES ASSUME NEW i \in DOMAIN gpu', NEW j \in DOMAIN gpu',
                      gpu'[i] = gpu'[j]
               PROVE  i = j
    BY DEF SubmittedOnce
  <2>1. i + 1 = j + 1
    BY <1>5 DEF FramesInv, SubmittedOnce
  <2> QED
    BY <2>1, <1>2
<1>9. Reset'
  <2> SUFFICES ASSUME step \in {"acquire", "outdated", "release", "record"}
               PROVE  ~fence'[cur] /\ \A i \in DOMAIN gpu' : gpu'[i] # cur
    BY DEF Reset, GpuDone
  <2>1. ~fence[cur] /\ \A i \in DOMAIN gpu : gpu[i] # cur
    BY DEF FramesInv, Reset
  <2>2. cur # Head(gpu) /\ cur \in Bufs
    BY <2>1, <1>2 DEF FramesInv, FramesTypeOK
  <2> QED
    BY <2>1, <2>2, <1>4, <1>5
<1>10. FinishedIdle'
  BY <1>1 DEF FramesInv, FinishedIdle, DeviceIdle, GpuDone
<1> QED
  BY <1>6, <1>7, <1>8, <1>9, <1>10 DEF FramesInv

(* All the steps of a frame preserve the invariant. *)
LEMMA FramesPreserved ==
  ASSUME FramesInv, FramesStep
  PROVE  FramesInv'
  BY FramesQuietSteps, FramesWaitFence, FramesSubmit, FramesGpuDone
     DEF FramesStep, DrawStep

(* What the invariant is for. *)
LEMMA FramesSafe == FramesInv => RecordedIdle /\ FinishedIdle
  BY DEF FramesInv, RecordedIdle, InFlight, Reset, SubmittedOnce
=============================================================================
