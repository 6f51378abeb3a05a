-------------------------- MODULE MidiSynthProofs --------------------------
(***************************************************************************)
(* For every size of the queues and the blocks: no thread is in a          *)
(* synthesizer that has been destroyed, and the three threads do not wait  *)
(* for each other.  The invariant needs the mutex: what the destructor     *)
(* does while it holds it, the mixer thread cannot see half done.          *)
(***************************************************************************)
EXTENDS MidiSynth, TLAPS

----------------------------------------------------------------------------
(* The inductive invariant.                                                *)

\* where the main thread has the mutex
Locked == {"construct", "disable", "stop work", "stop audio", "join", "unlock"}

\* The mutex excludes the mixer thread's pass from what the main thread does
\* between lock and unlock.
Excluded ==
  /\ holder = "mixer" <=> mixer # "top"
  /\ holder = "main" <=> main \in Locked

\* A synthesizer's queues run until its destructor stops them, so that its
\* renderer goes on; the other device's queue is stopped by the lock.
Built ==
  /\ main \in {"sending", "destroy", "disable", "stop work", "stop audio", "join"} => registered
  /\ main \in {"create", "construct"} => ~registered
  /\ registered =>
       /\ work_running <=> main \notin {"stop audio", "join"}
       /\ audio_running <=> main # "join"
       /\ work_running => renderer # "ended"
  /\ main \notin {"idle", "sending"} => ~device_running

\* Only the renderer dequeues messages, and it has seen one, unless it is
\* backlogged, which only a Sound Canvas can be.
Awake ==
  /\ renderer = "dequeue" => work # <<>> \/ ~work_running \/ is_work_fifo_backlogged
  /\ is_work_fifo_backlogged => model = "Sound Canvas"

IInv == TypeOK /\ Excluded /\ GoneIsGone /\ Built /\ Awake

\* All but the types.
Rest == Excluded /\ GoneIsGone /\ Built /\ Awake

LEMMA Sizes ==
  /\ WorkRoom \in Nat /\ AudioRoom \in Nat /\ Blocksize \in Nat
  /\ WorkRoom > 0 /\ AudioRoom > 0 /\ Blocksize > 0
BY RoomsAssumption

LEMMA Frames == \A n \in Pending \cup {0} : n \in Nat
BY RoomsAssumption

\* A step that leaves a group of variables alone keeps their types.
LEMMA TypesKept ==
  ASSUME TypeOK
  PROVE  /\ UNCHANGED mainVars => MainType'
         /\ UNCHANGED <<model, due, holder, fast_forward_mode>> => SharedType'
         /\ UNCHANGED deviceVars => DeviceType'
         /\ UNCHANGED channelVars => ChannelType'
         /\ UNCHANGED workVars => WorkType'
         /\ UNCHANGED audioVars => AudioType'
         /\ UNCHANGED rendererVars => RendererType'
         /\ UNCHANGED mixerVars => MixerType'
<1> USE DEF TypeOK
<1>1. UNCHANGED mainVars => MainType'
  BY DEF mainVars, MainType
<1>2. UNCHANGED <<model, due, holder, fast_forward_mode>> => SharedType'
  BY DEF SharedType
<1>3. UNCHANGED deviceVars => DeviceType'
  BY DEF deviceVars, DeviceType
<1>4. UNCHANGED channelVars => ChannelType'
  BY DEF channelVars, ChannelType
<1>5. UNCHANGED workVars => WorkType'
  BY DEF workVars, WorkType
<1>6. UNCHANGED audioVars => AudioType'
  BY DEF audioVars, AudioType
<1>7. UNCHANGED rendererVars => RendererType'
  BY DEF rendererVars, RendererType
<1>8. UNCHANGED mixerVars => MixerType'
  BY DEF mixerVars, MixerType
<1>9. QED
  BY <1>1, <1>2, <1>3, <1>4, <1>5, <1>6, <1>7, <1>8

\* At first there is no synthesizer, and nobody in one.
LEMMA InitInvariant == ASSUME Init PROVE IInv
<1>1. MainType /\ SharedType /\ DeviceType /\ ChannelType
  BY DEF Init, MainType, MainPlaces, SharedType, DeviceType, ChannelType
<1>2. WorkType /\ AudioType
  <2>1. work = <<>> /\ audio = 0 /\ work_running = FALSE /\ audio_running = FALSE
    BY DEF Init
  <2>2. <<>> \in Seq(Pending \cup {0}) /\ Len(<<>>) = 0
    OBVIOUS
  <2>3. work_running \in BOOLEAN /\ audio_running \in BOOLEAN
    BY <2>1
  <2>4. Len(work) <= WorkRoom /\ audio \in 0 .. AudioRoom
    BY <2>1, <2>2, Sizes
  <2>5. QED
    BY <2>1, <2>2, <2>3, <2>4 DEF WorkType, AudioType
<1>3. RendererType /\ MixerType
  <2>1. frames = 0 /\ renderer = "ended" /\ is_work_fifo_backlogged = FALSE
    BY DEF Init
  <2>2. ~(frames > 0) /\ ~(renderer \in {"rendering", "drip-feeding"})
    BY <2>1
  <2>3. RendererType
    BY <2>1, <2>2 DEF RendererType
  <2>4. MixerType
    BY Sizes DEF Init, MixerType
  <2>5. QED
    BY <2>3, <2>4
<1>4. Excluded /\ GoneIsGone /\ Built /\ Awake
  BY DEF Init, Excluded, Locked, GoneIsGone, Built, Awake
<1>5. QED
  BY <1>1, <1>2, <1>3, <1>4 DEF IInv, TypeOK

----------------------------------------------------------------------------
(* The main thread.                                                        *)

\* Its steps that leave the synthesizer alone.
MainMove ==
  \/ Tick \/ MIXER_FastForward \/ Send \/ Acquire \/ Unlock
  \/ \E purpose \in {"change", "create", "destroy"} : Lock(purpose)

LEMMA MainMoveTyped == ASSUME TypeOK, MainMove PROVE TypeOK'
<1>1. UNCHANGED <<model, workVars, audioVars, rendererVars, mixerVars>>
  BY DEF MainMove, Tick, MIXER_FastForward, Send, Acquire, Unlock, Lock
<1>2. MainType'
  BY DEF MainMove, Tick, MIXER_FastForward, Send, Acquire, Unlock, Lock, TypeOK, MainType,
    MainPlaces, mainVars
<1>3. SharedType'
  BY <1>1 DEF MainMove, Tick, MIXER_FastForward, Send, Acquire, Unlock, Lock, TypeOK, SharedType
<1>4. DeviceType'
  BY DEF MainMove, Tick, MIXER_FastForward, Send, Acquire, Unlock, Lock, TypeOK, DeviceType,
    deviceVars
<1>5. ChannelType'
  BY DEF MainMove, Tick, MIXER_FastForward, Send, Acquire, Unlock, Lock, TypeOK, ChannelType,
    channelVars
<1>6. WorkType' /\ AudioType' /\ RendererType' /\ MixerType'
  BY <1>1, TypesKept
<1>7. QED
  BY <1>2, <1>3, <1>4, <1>5, <1>6 DEF TypeOK

LEMMA MainMoveKeeps == ASSUME IInv, MainMove PROVE IInv'
<1> USE DEF IInv
<1>1. TypeOK'
  BY MainMoveTyped
<1>2. UNCHANGED <<model, registered, work, work_running, audio_running, renderer,
                  is_work_fifo_backlogged, mixer>>
  BY DEF MainMove, Tick, MIXER_FastForward, Send, Acquire, Unlock, Lock, channelVars, workVars,
    audioVars, rendererVars, mixerVars
<1>3. Excluded'
  BY <1>2 DEF MainMove, Tick, MIXER_FastForward, Send, Acquire, Unlock, Lock, Excluded, Locked,
    mainVars, TypeOK, SharedType
<1>4. GoneIsGone' /\ Awake'
  BY <1>2 DEF GoneIsGone, Awake
<1>5. Built'
  <2>1. CASE Tick \/ MIXER_FastForward \/ Send
    BY <1>2, <2>1 DEF Tick, MIXER_FastForward, Send, Built, mainVars, deviceVars
  <2>2. CASE Acquire
    BY <1>2, <2>2 DEF Acquire, Built, deviceVars
  <2>3. CASE Unlock
    BY <1>2, <2>3 DEF Unlock, Built
  <2>4. ASSUME NEW purpose \in {"change", "create", "destroy"}, Lock(purpose)
        PROVE  Built'
    BY <1>2, <2>4 DEF Lock, Built
  <2>5. QED
    BY <2>1, <2>2, <2>3, <2>4 DEF MainMove
<1>6. QED
  BY <1>1, <1>3, <1>4, <1>5

\* A message is queued.
LEMMA EnqueueKeeps == ASSUME IInv, Enqueue PROVE IInv'
<1> USE DEF IInv
<1>1. /\ main = "sending" /\ main' = "idle" /\ message' = 0
      /\ work' = Append(work, message) /\ Len(work) < WorkRoom /\ UNCHANGED work_running
      /\ UNCHANGED <<model, due, deviceVars, holder, channelVars, audioVars, rendererVars,
                     fast_forward_mode, mixerVars>>
  BY DEF Enqueue
<1>2. work' \in Seq(Pending \cup {0}) /\ Len(work') = Len(work) + 1 /\ work' # <<>>
  BY <1>1 DEF TypeOK, WorkType, MainType
<1>3. TypeOK'
  <2>1. MainType'
    BY <1>1 DEF MainType, MainPlaces
  <2>2. WorkType'
    BY <1>1, <1>2, Sizes DEF TypeOK, WorkType
  <2>3. QED
    BY <1>1, <2>1, <2>2, TypesKept DEF TypeOK
<1>4. Rest'
  BY <1>1, <1>2 DEF Rest, Excluded, Locked, GoneIsGone, Built, Awake, deviceVars, channelVars,
    audioVars, rendererVars, mixerVars
<1>5. QED
  BY <1>3, <1>4 DEF Rest

\* The constructor: whoever holds the lock finds the mixer thread outside.
LEMMA ConstructKeeps == ASSUME IInv, Construct PROVE IInv'
<1> USE DEF IInv
<1>1. TypeOK'
  <2>1. MainType' /\ SharedType'
    BY DEF Construct, TypeOK, MainType, MainPlaces, SharedType
  <2>2. ChannelType'
    BY DEF Construct, TypeOK, ChannelType
  <2>3. WorkType'
    BY Sizes DEF Construct, WorkType
  <2>4. AudioType' /\ RendererType'
    <3>1. /\ audio' = 0 /\ audio_running' = TRUE
          /\ renderer' = "top" /\ frames' = 0 /\ is_work_fifo_backlogged' = FALSE
      BY DEF Construct
    <3>2. AudioType'
      BY <3>1, Sizes DEF AudioType
    <3>3. ~(frames' > 0) /\ ~(renderer' \in {"rendering", "drip-feeding"})
      BY <3>1
    <3>4. RendererType'
      BY <3>1, <3>3 DEF RendererType
    <3>5. QED
      BY <3>2, <3>4
  <2>5. DeviceType' /\ MixerType'
    BY TypesKept DEF Construct
  <2>6. QED
    BY <2>1, <2>2, <2>3, <2>4, <2>5 DEF TypeOK
<1>2. Excluded' /\ GoneIsGone'
  BY DEF Construct, Excluded, Locked, GoneIsGone, mixerVars
<1>3. Built' /\ Awake'
  BY DEF Construct, Built, Awake, deviceVars
<1>4. QED
  BY <1>1, <1>2, <1>3

\* The destructor joins the renderer before the channel goes.
LEMMA DestructorKeeps == ASSUME IInv, DestructorStep PROVE IInv'
<1> USE DEF IInv
<1>1. UNCHANGED <<model, message, due, deviceVars, holder, work, audio, rendererVars,
                  fast_forward_mode, mixerVars>>
  BY DEF DestructorStep, Disable, StopWork, StopAudio, Join, workVars, audioVars
<1>2. \/ /\ main = "disable" /\ main' = "stop work" /\ enabled' = FALSE
         /\ UNCHANGED <<registered, work_running, audio_running>>
      \/ /\ main = "stop work" /\ main' = "stop audio" /\ work_running' = FALSE
         /\ UNCHANGED <<registered, enabled, audio_running>>
      \/ /\ main = "stop audio" /\ main' = "join" /\ audio_running' = FALSE
         /\ UNCHANGED <<registered, enabled, work_running>>
      \/ /\ main = "join" /\ main' = "unlock" /\ renderer = "ended" /\ registered' = FALSE
         /\ UNCHANGED <<enabled, work_running, audio_running>>
  BY DEF DestructorStep, Disable, StopWork, StopAudio, Join, channelVars, workVars, audioVars
<1>3. TypeOK'
  <2>1. MainType' /\ ChannelType'
    BY <1>1, <1>2 DEF TypeOK, MainType, MainPlaces, ChannelType
  <2>2. WorkType' /\ AudioType'
    BY <1>1, <1>2 DEF TypeOK, WorkType, AudioType
  <2>3. QED
    BY <1>1, <2>1, <2>2, TypesKept DEF TypeOK
<1>4. Excluded' /\ GoneIsGone'
  BY <1>1, <1>2 DEF Excluded, Locked, GoneIsGone, rendererVars, mixerVars
<1>5. Built'
  <2>1. registered /\ ~device_running
    BY <1>2 DEF Built
  <2>2. ~device_running' /\ renderer' = renderer
    BY <1>1, <2>1 DEF deviceVars, rendererVars
  <2>3. CASE main = "disable"
    BY <1>2, <2>1, <2>2, <2>3 DEF Built
  <2>4. CASE main = "stop work"
    BY <1>2, <2>1, <2>2, <2>4 DEF Built
  <2>5. CASE main = "stop audio"
    <3>1. main' = "join" /\ registered' = registered /\ work_running' = work_running
          /\ audio_running' = FALSE
      BY <1>2, <2>5
    <3>2. ~work_running /\ ~audio_running'
      BY <2>1, <2>5, <3>1 DEF Built
    <3>3. QED
      BY <2>1, <2>2, <3>1, <3>2 DEF Built
  <2>6. CASE main = "join"
    BY <1>2, <2>1, <2>2, <2>6 DEF Built
  <2>7. QED
    BY <1>2, <2>3, <2>4, <2>5, <2>6
<1>6. Awake'
  <2>1. CASE work_running' = work_running
    BY <1>1, <2>1 DEF Awake, rendererVars
  <2>2. CASE work_running' = FALSE
    BY <1>1, <2>2 DEF Awake, rendererVars
  <2>3. QED
    BY <1>2, <2>1, <2>2
<1>7. QED
  BY <1>3, <1>4, <1>5, <1>6

----------------------------------------------------------------------------
(* The renderer: one that has ended takes no more steps.                   *)

LEMMA RendererTyped == ASSUME TypeOK, RendererStep PROVE TypeOK'
<1>1. UNCHANGED <<model, mainVars, due, deviceVars, holder, channelVars, fast_forward_mode,
                  mixerVars>>
  BY DEF RendererStep, Render, ProcessWorkFromFifo, RenderBacklogged, DripFeed, DequeueStopped,
         RenderAudioFramesToFifo, LeaveBacklogged
<1>2. WorkType' /\ AudioType' /\ RendererType'
  <2>1. CASE Render
    <3>1. RendererType'
      BY <2>1 DEF Render, TypeOK, RendererType
    <3>2. QED
      BY <2>1, <3>1, TypesKept DEF Render
  <2>2. CASE ProcessWorkFromFifo \/ RenderBacklogged
    <3>1. work # <<>> /\ work' = Tail(work) /\ UNCHANGED work_running /\ UNCHANGED audioVars
      BY <2>2 DEF ProcessWorkFromFifo, RenderBacklogged, DripFeed
    <3>2. /\ work' \in Seq(Pending \cup {0}) /\ Len(work') = Len(work) - 1
          /\ Len(work) \in Nat
      BY <3>1 DEF TypeOK, WorkType
    <3>3. WorkType'
      BY <3>1, <3>2, Sizes DEF TypeOK, WorkType
    <3>4. is_work_fifo_backlogged' \in BOOLEAN
      BY <2>2 DEF ProcessWorkFromFifo, RenderBacklogged, TypeOK, RendererType
    <3>5. Head(work) \in Nat
      <4>1. Head(work) \in Pending \cup {0}
        BY <3>1 DEF TypeOK, WorkType
      <4>2. QED
        BY <4>1, Frames
    <3>6. \/ frames' = Head(work) /\ Head(work) > 0 /\ renderer' = "rendering"
          \/ frames' = Head(work) /\ ~(Head(work) > 0) /\ renderer' = "top"
          \/ frames' = 1 /\ renderer' = "drip-feeding"
          \/ frames' = 0 /\ renderer' = "backlogged"
      BY <2>2 DEF ProcessWorkFromFifo, RenderBacklogged, DripFeed
    <3>7. \/ frames' \in Nat /\ frames' > 0 /\ renderer' \in {"rendering", "drip-feeding"}
          \/ frames' = 0 /\ renderer' \in {"top", "backlogged"}
      BY <3>5, <3>6
    <3>8. RendererType'
      BY <3>4, <3>7 DEF RendererType
    <3>9. QED
      BY <3>1, <3>3, <3>8, TypesKept
  <2>3. CASE DequeueStopped \/ LeaveBacklogged
    <3>1. RendererType'
      <4>1. CASE DequeueStopped
        <5>1. frames = 0 /\ is_work_fifo_backlogged' \in BOOLEAN
          BY <4>1 DEF DequeueStopped, TypeOK, RendererType
        <5>2. \/ frames' = 1 /\ renderer' = "drip-feeding"
              \/ frames' = 0 /\ renderer' \in {"top", "backlogged"}
          BY <4>1, <5>1 DEF DequeueStopped, DripFeed
        <5>3. QED
          BY <5>1, <5>2 DEF RendererType
      <4>2. CASE LeaveBacklogged
        BY <4>2 DEF LeaveBacklogged, TypeOK, RendererType
      <4>3. QED
        BY <2>3, <4>1, <4>2
    <3>2. QED
      BY <2>3, <3>1, TypesKept DEF DequeueStopped, LeaveBacklogged
  <2>4. CASE RenderAudioFramesToFifo
    <3>1. /\ audio \in Int /\ frames \in Nat /\ frames > 0 /\ AudioRoom \in Nat
          /\ 0 <= audio /\ audio <= AudioRoom
          /\ renderer \in {"rendering", "drip-feeding"} /\ Onward \in {"backlogged", "top"}
      BY <2>4, Sizes DEF RenderAudioFramesToFifo, TypeOK, AudioType, RendererType, Onward
    <3>2. /\ audio' \in 0 .. AudioRoom /\ frames' \in Nat
          /\ renderer' \in {renderer, Onward}
          /\ frames' > 0 <=> renderer' \in {"rendering", "drip-feeding"}
      BY <2>4, <3>1 DEF RenderAudioFramesToFifo, Lesser
    <3>3. UNCHANGED <<workVars, audio_running, is_work_fifo_backlogged>>
      BY <2>4 DEF RenderAudioFramesToFifo
    <3>4. AudioType' /\ RendererType'
      BY <3>1, <3>2, <3>3 DEF TypeOK, AudioType, RendererType
    <3>5. QED
      BY <3>3, <3>4, TypesKept
  <2>5. QED
    BY <2>1, <2>2, <2>3, <2>4 DEF RendererStep
<1>3. QED
  BY <1>1, <1>2, TypesKept DEF TypeOK

LEMMA RendererKeeps == ASSUME IInv, RendererStep PROVE IInv'
<1> USE DEF IInv
<1>1. TypeOK'
  BY RendererTyped
<1>2. /\ UNCHANGED <<model, main, device_running, holder, registered, work_running,
                     audio_running, mixer>>
      /\ renderer # "ended"
  BY DEF RendererStep, Render, ProcessWorkFromFifo, RenderBacklogged, DripFeed, DequeueStopped,
         RenderAudioFramesToFifo, LeaveBacklogged, mainVars, deviceVars, channelVars, workVars,
         audioVars, mixerVars
<1>3. renderer' = "ended" => ~work_running
  BY <1>2 DEF RendererStep, Render, ProcessWorkFromFifo, RenderBacklogged, DripFeed, DequeueStopped,
         RenderAudioFramesToFifo, LeaveBacklogged, Onward
<1>4. is_work_fifo_backlogged' => is_work_fifo_backlogged \/ model = "Sound Canvas"
  BY DEF RendererStep, Render, ProcessWorkFromFifo, RenderBacklogged, DripFeed, DequeueStopped,
         RenderAudioFramesToFifo, LeaveBacklogged
<1>5. renderer' = "dequeue" => work' # <<>> \/ is_work_fifo_backlogged'
  <2>1. CASE Render
    BY <2>1 DEF Render, workVars
  <2>2. CASE ~Render
    BY <2>2 DEF RendererStep, ProcessWorkFromFifo, RenderBacklogged, DripFeed, DequeueStopped,
           RenderAudioFramesToFifo, LeaveBacklogged, Onward
  <2>3. QED
    BY <2>1, <2>2
<1>6. Excluded' /\ GoneIsGone'
  BY <1>2 DEF Excluded, GoneIsGone
<1>7. Built'
  BY <1>2, <1>3 DEF Built
<1>8. Awake'
  BY <1>2, <1>4, <1>5 DEF Awake
<1>9. QED
  BY <1>1, <1>6, <1>7, <1>8

----------------------------------------------------------------------------
(* The mixer thread: it enters only a synthesizer that is registered.      *)

LEMMA MixerTyped == ASSUME TypeOK, MixerLock \/ MixerStep PROVE TypeOK'
<1> USE DEF MixerStep
<1>1. UNCHANGED <<model, mainVars, device_running, registered, workVars, audio_running,
                  rendererVars, fast_forward_mode>>
  BY DEF MixerLock, MixerCallback, MaybeSleep, MixDevice, deviceVars, channelVars, audioVars
<1>2. SharedType'
  BY <1>1 DEF MixerLock, MixerCallback, MaybeSleep, MixDevice, TypeOK, SharedType
<1>3. DeviceType'
  BY <1>1 DEF MixerLock, MixerCallback, MaybeSleep, MixDevice, TypeOK, DeviceType, deviceVars
<1>4. ChannelType'
  BY <1>1 DEF MixerLock, MixerCallback, MaybeSleep, MixDevice, TypeOK, ChannelType, channelVars
<1>5. /\ audio' \in 0 .. AudioRoom /\ needed' \in 0 .. Blocksize
      /\ needed' > 0 <=> mixer' = "pulling"
  <2>1. /\ audio \in Int /\ needed \in Int /\ AudioRoom \in Nat /\ Blocksize \in Nat
        /\ 0 <= audio /\ audio <= AudioRoom /\ 0 <= needed /\ needed <= Blocksize
        /\ Blocksize > 0 /\ (needed > 0 <=> mixer = "pulling")
    BY Sizes DEF TypeOK, AudioType, MixerType
  <2>2. CASE MixerLock
    BY <2>1, <2>2 DEF MixerLock, audioVars
  <2>3. CASE MixerCallback
    <3>1. CASE audio > 0
      <4>1. PICK n : n = Lesser(audio, needed)
        OBVIOUS
      <4>2. ~(audio = 0)
        BY <2>1, <3>1
      <4>3. /\ audio' = audio - n /\ needed' = needed - n
            /\ mixer' = IF needed = n THEN "mixed" ELSE "pulling"
        BY <2>3, <4>1, <4>2 DEF MixerCallback
      <4>4. n \in Int /\ 0 <= n /\ n <= audio /\ n <= needed
        BY <2>1, <4>1 DEF Lesser
      <4>5. QED
        BY <2>1, <4>3, <4>4
    <3>2. CASE ~(audio > 0)
      <4>1. audio' = audio /\ needed' = 0 /\ mixer' = "mixed"
        BY <2>3, <3>2 DEF MixerCallback
      <4>2. QED
        BY <2>1, <4>1
    <3>3. QED
      BY <3>1, <3>2
  <2>4. CASE MaybeSleep \/ MixDevice
    <3>1. audio' = audio /\ needed' = needed /\ mixer # "pulling" /\ mixer' # "pulling"
      BY <2>4 DEF MaybeSleep, MixDevice, audioVars
    <3>2. QED
      BY <2>1, <3>1
  <2>5. QED
    BY <2>2, <2>3, <2>4
<1>6. mixer' \in {"top", "pulling", "mixed", "device"}
  BY DEF MixerLock, MixerCallback, MaybeSleep, MixDevice
<1>7. AudioType' /\ MixerType'
  BY <1>1, <1>5, <1>6 DEF TypeOK, AudioType, MixerType
<1>8. QED
  BY <1>1, <1>2, <1>3, <1>4, <1>7, TypesKept DEF TypeOK

LEMMA MixerKeeps == ASSUME IInv, MixerLock \/ MixerStep PROVE IInv'
<1> USE DEF IInv
<1>1. TypeOK'
  BY MixerTyped
<1>2. UNCHANGED <<model, main, device_running, registered, work, work_running,
                  audio_running, renderer, is_work_fifo_backlogged>>
  BY DEF MixerLock, MixerStep, MixerCallback, MaybeSleep, MixDevice, mainVars, deviceVars,
         channelVars, workVars, audioVars, rendererVars
<1>3. /\ mixer' \in {"pulling", "mixed"} => registered
      /\ holder' = "mixer" <=> mixer' # "top"
      /\ holder' # "main" /\ holder # "main"
  BY DEF MixerLock, MixerStep, MixerCallback, MaybeSleep, MixDevice, Excluded, GoneIsGone
<1>4. Excluded' /\ GoneIsGone'
  BY <1>2, <1>3 DEF Excluded, GoneIsGone
<1>5. Built' /\ Awake'
  BY <1>2 DEF Built, Awake
<1>6. QED
  BY <1>1, <1>4, <1>5

----------------------------------------------------------------------------
(* Theorems.                                                               *)

\* The invariant holds throughout.
THEOREM Invariance == Spec => []IInv
<1>1. ASSUME IInv, [Next]_vars PROVE IInv'
  <2>1. CASE UNCHANGED vars
    <3>1. TypeOK'
      BY <1>1, <2>1, TypesKept DEF IInv, vars, TypeOK
    <3>2. Rest'
      BY <1>1, <2>1 DEF vars, IInv, Rest, Excluded, GoneIsGone, Built, Awake, mainVars,
        deviceVars, channelVars, workVars, audioVars, rendererVars, mixerVars
    <3>3. QED
      BY <3>1, <3>2 DEF IInv, Rest
  <2>2. CASE Next
    BY <1>1, <2>2, MainMoveKeeps, EnqueueKeeps, ConstructKeeps, DestructorKeeps, RendererKeeps,
       MixerKeeps
    DEF Next, CallStep, MainMove
  <2>3. QED
    BY <1>1, <2>1, <2>2
<1>2. QED
  BY <1>1, InitInvariant, PTL DEF Spec

\* The variables keep their types, and the queues their sizes.
THEOREM TypeCorrect == Spec => []TypeOK
<1>1. IInv => TypeOK
  BY DEF IInv
<1>2. QED
  BY <1>1, Invariance, PTL

\* Neither the renderer nor the mixer thread is in a synthesizer that has been
\* destroyed.
THEOREM NoUseAfterFree == Spec => []GoneIsGone
<1>1. IInv => GoneIsGone
  BY DEF IInv
<1>2. QED
  BY <1>1, Invariance, PTL

\* The renderer sleeps: for a message, or for room for its frames.
RendererWaits ==
  \/ renderer = "dequeue" /\ work = <<>> /\ work_running
  \/ renderer \in {"rendering", "drip-feeding"} /\ audio = AudioRoom /\ audio_running

\* Whoever waits for the mutex waits for the mixer thread, which waits for no
\* sample of the main thread's; the mixer thread, when it waits for frames, for a
\* renderer that is there and does not sleep, unless it is that of a backlogged
\* Sound Canvas; and a renderer that is joined does not sleep.
WaitsHaveAnEnd ==
  /\ main \in {"change", "create", "destroy"} /\ holder # "nobody" =>
       mixer # "top" /\ ~device_running
  /\ mixer = "pulling" /\ audio = 0 =>
       /\ registered /\ renderer # "ended"
       /\ RendererWaits => model = "Sound Canvas" /\ is_work_fifo_backlogged
  /\ main = "join" => ~RendererWaits

\* The safe part of LocksReturn and of AudioArrives, for every size.
THEOREM NoCircle == Spec => []WaitsHaveAnEnd
<1>1. IInv => WaitsHaveAnEnd
  <2>1. SUFFICES ASSUME IInv PROVE WaitsHaveAnEnd
    OBVIOUS
  <2>2. TypeOK /\ Excluded /\ GoneIsGone /\ Built /\ Awake
    BY <2>1 DEF IInv
  <2>3. ASSUME main \in {"change", "create", "destroy"}, holder # "nobody"
        PROVE  mixer # "top" /\ ~device_running
    BY <2>2, <2>3 DEF TypeOK, SharedType, Excluded, Locked, Built
  <2>4. ASSUME mixer = "pulling", audio = 0
        PROVE  /\ registered /\ renderer # "ended"
               /\ RendererWaits => model = "Sound Canvas" /\ is_work_fifo_backlogged
    <3>1. registered /\ main \notin Locked
      BY <2>2, <2>4 DEF Excluded, GoneIsGone
    <3>2. renderer # "ended"
      BY <2>2, <3>1 DEF Built, Locked
    <3>3. RendererWaits => is_work_fifo_backlogged
      <4>1. audio # AudioRoom
        BY <2>4, Sizes
      <4>2. QED
        BY <2>2, <4>1 DEF RendererWaits, Awake
    <3>4. QED
      BY <2>2, <3>1, <3>2, <3>3 DEF Awake
  <2>5. main = "join" => ~RendererWaits
    BY <2>2 DEF Built, RendererWaits
  <2>6. QED
    BY <2>3, <2>4, <2>5 DEF WaitsHaveAnEnd
<1>2. QED
  BY <1>1, Invariance, PTL
============================================================================
