----------------------------- MODULE MidiSynth -----------------------------
(***************************************************************************)
(* The MIDI synthesizers (src/src/midi/fluidsynth.cpp, mt32.cpp and        *)
(* soundcanvas.cpp): a renderer thread between two queues.                 *)
(*                                                                         *)
(* The main thread puts messages into work_fifo; the renderer turns them   *)
(* into frames in audio_frame_fifo; the mixer thread takes a block of them *)
(* while it holds mixer.mutex.  Unlike the queues of MixerThread these two *)
(* are not stopped by whoever locks the mixer: the renderer is trusted to  *)
(* keep the mixer thread going.  The mixer thread also takes a block of    *)
(* another device, which plays on the main thread.                         *)
(*                                                                         *)
(* A message is the number of frames to render before it is applied.  Both *)
(* queues are what ThreadQueue says.  Time is left open: when a channel    *)
(* has been silent for long, and whether a message is a second late.       *)
(***************************************************************************)
EXTENDS Integers, Sequences

CONSTANTS
  Models,     \* the synthesizers the user may choose
  WorkRoom,   \* MaxMidiWorkFifoSize
  AudioRoom,  \* the capacity of audio_frame_fifo
  Blocksize,  \* the frames that are mixed at a time
  Pending     \* how many frames may be due when a message is sent

ASSUME ModelsAssumption == Models \subseteq {"FluidSynth", "MT-32", "Sound Canvas"}

ASSUME RoomsAssumption ==
  /\ {WorkRoom, AudioRoom, Blocksize} \subseteq Nat \ {0}
  /\ Pending \subseteq Nat \ {0}

VARIABLES
  model,
  main,          \* where the main thread is
  message,       \* what it is about to enqueue
  due,           \* whether last_rendered_ms has passed
  samples,       \* what is in the queue of the other device, in blocks
  device_running,\* whether that queue runs
  holder,        \* who holds mixer.mutex
  registered, enabled,   \* the synthesizer's channel
  work, work_running, audio, audio_running,
  renderer, frames,      \* where the renderer is; what it has yet to enqueue
  is_work_fifo_backlogged, fast_forward_mode,
  mixer, needed          \* where the mixer thread is; what it has yet to dequeue

mainVars == <<main, message>>
deviceVars == <<samples, device_running>>
channelVars == <<registered, enabled>>
workVars == <<work, work_running>>
audioVars == <<audio, audio_running>>
rendererVars == <<renderer, frames, is_work_fifo_backlogged>>
mixerVars == <<mixer, needed>>
vars == <<model, mainVars, due, deviceVars, holder, channelVars, workVars, audioVars,
          rendererVars, fast_forward_mode, mixerVars>>

MainPlaces ==
  {"idle", "sending", "change", "create", "destroy", "construct", "disable", "stop work",
   "stop audio", "join", "unlock"}

MainType == main \in MainPlaces /\ message \in Pending \cup {0}

SharedType ==
  /\ model \in Models
  /\ due \in BOOLEAN /\ fast_forward_mode \in BOOLEAN
  /\ holder \in {"nobody", "main", "mixer"}

DeviceType == samples \in {0, 1} /\ device_running \in BOOLEAN

ChannelType == registered \in BOOLEAN /\ enabled \in BOOLEAN

WorkType ==
  /\ work \in Seq(Pending \cup {0}) /\ Len(work) <= WorkRoom
  /\ work_running \in BOOLEAN

AudioType == audio \in 0 .. AudioRoom /\ audio_running \in BOOLEAN

\* The renderer is at the audio queue as long as it has frames.
RendererType ==
  /\ renderer \in {"ended", "top", "dequeue", "rendering", "drip-feeding", "backlogged"}
  /\ frames \in Nat
  /\ frames > 0 <=> renderer \in {"rendering", "drip-feeding"}
  /\ is_work_fifo_backlogged \in BOOLEAN

\* So is the mixer thread as long as it needs some.
MixerType ==
  /\ mixer \in {"top", "pulling", "mixed", "device"}
  /\ needed \in 0 .. Blocksize
  /\ needed > 0 <=> mixer = "pulling"

\* The queues keep to their sizes.
TypeOK ==
  /\ MainType /\ SharedType /\ DeviceType /\ ChannelType
  /\ WorkType /\ AudioType /\ RendererType /\ MixerType

Lesser(m, n) == IF m < n THEN m ELSE n

----------------------------------------------------------------------------
(* The main thread.                                                        *)

\* The guest's clock: the other device makes samples, as long as there is room.
Tick ==
  /\ main = "idle"
  /\ samples' = 1
  /\ due' = TRUE
  /\ UNCHANGED <<model, mainVars, device_running, holder, channelVars, workVars, audioVars,
                 rendererVars, fast_forward_mode, mixerVars>>

\* The user holds the fast-forward key, or lets it go.
MIXER_FastForward ==
  /\ main = "idle"
  /\ fast_forward_mode' = ~fast_forward_mode
  /\ UNCHANGED <<model, mainVars, due, deviceVars, holder, channelVars, workVars, audioVars,
                 rendererVars, mixerVars>>

\* SendMidiMessage, SendSysExMessage: a channel that sleeps owes no frames.
Send ==
  /\ main = "idle" /\ registered
  /\ main' = "sending"
  /\ message' \in IF enabled /\ due THEN Pending ELSE {0}
  /\ due' = FALSE
  /\ enabled' = TRUE
  /\ UNCHANGED <<model, deviceVars, holder, registered, workVars, audioVars, rendererVars,
                 fast_forward_mode, mixerVars>>

Enqueue ==
  /\ main = "sending" /\ Len(work) < WorkRoom
  /\ work' = Append(work, message)
  /\ main' = "idle" /\ message' = 0
  /\ UNCHANGED <<model, due, deviceVars, holder, channelVars, work_running, audioVars,
                 rendererVars, fast_forward_mode, mixerVars>>

\* MIXER_LockMixerThread, which stops the queue of the other device, for a
\* change of the mixer's settings, in the constructor or in the destructor.
Lock(purpose) ==
  /\ main = "idle"
  /\ registered <=> purpose # "create"
  /\ main' = purpose
  /\ device_running' = FALSE
  /\ UNCHANGED <<model, message, due, samples, holder, channelVars, workVars, audioVars,
                 rendererVars, fast_forward_mode, mixerVars>>

\* Mutant: the destructor does not wait for the mixer thread.
Barge ==
  /\ \/ main = "change" /\ holder = "nobody" /\ main' = "unlock"
     \/ main = "create" /\ holder = "nobody" /\ main' = "construct"
     \/ main = "destroy" /\ main' = "disable"
  /\ holder' = "main"
  /\ UNCHANGED <<model, message, due, deviceVars, channelVars, workVars, audioVars, rendererVars,
                 fast_forward_mode, mixerVars>>

Acquire ==
  /\ holder = "nobody"
  /\ \/ main = "change" /\ main' = "unlock"
     \/ main = "create" /\ main' = "construct"
     \/ main = "destroy" /\ main' = "disable"
  /\ holder' = "main"
  /\ UNCHANGED <<model, message, due, deviceVars, channelVars, workVars, audioVars, rendererVars,
                 fast_forward_mode, mixerVars>>

\* MIXER_UnlockMixerThread
Unlock ==
  /\ main = "unlock"
  /\ main' = "idle"
  /\ holder' = "nobody"
  /\ device_running' = TRUE
  /\ UNCHANGED <<model, message, due, samples, channelVars, workVars, audioVars, rendererVars,
                 fast_forward_mode, mixerVars>>

\* The constructor, once it has the lock: the channel, the queues, the thread.
Construct ==
  /\ main = "construct" /\ main' = "unlock"
  /\ model' \in Models
  /\ registered' = TRUE
  /\ work' = <<>> /\ work_running' = TRUE
  /\ audio' = 0 /\ audio_running' = TRUE
  /\ renderer' = "top" /\ frames' = 0 /\ is_work_fifo_backlogged' = FALSE
  /\ UNCHANGED <<message, due, deviceVars, holder, enabled, fast_forward_mode, mixerVars>>

\* The destructor, once it has the lock.
Disable ==
  /\ main = "disable" /\ main' = "stop work"
  /\ enabled' = FALSE
  /\ UNCHANGED <<model, message, due, deviceVars, holder, registered, workVars, audioVars,
                 rendererVars, fast_forward_mode, mixerVars>>

StopWork ==
  /\ main = "stop work" /\ main' = "stop audio"
  /\ work_running' = FALSE
  /\ UNCHANGED <<model, message, due, deviceVars, holder, channelVars, work, audioVars,
                 rendererVars, fast_forward_mode, mixerVars>>

\* Mutant: the renderer may still wait for room when it is joined.
LeaveAudio ==
  /\ main = "stop audio" /\ main' = "join"
  /\ UNCHANGED <<model, message, due, deviceVars, holder, channelVars, workVars, audioVars,
                 rendererVars, fast_forward_mode, mixerVars>>

StopAudio ==
  /\ main = "stop audio" /\ main' = "join"
  /\ audio_running' = FALSE
  /\ UNCHANGED <<model, message, due, deviceVars, holder, channelVars, workVars, audio,
                 rendererVars, fast_forward_mode, mixerVars>>

Join ==
  /\ main = "join" /\ renderer = "ended"
  /\ main' = "unlock"
  /\ registered' = FALSE
  /\ UNCHANGED <<model, message, due, deviceVars, holder, enabled, workVars, audioVars,
                 rendererVars, fast_forward_mode, mixerVars>>

DestructorStep == Disable \/ StopWork \/ StopAudio \/ Join

----------------------------------------------------------------------------
(* The renderer: Render.                                                   *)

\* Mutant: a renderer that has no messages waits for one.
WaitForMessages ==
  /\ renderer = "top"
  /\ renderer' = IF work_running THEN "dequeue" ELSE "ended"
  /\ UNCHANGED <<model, mainVars, due, deviceVars, holder, channelVars, workVars, audioVars,
                 frames, is_work_fifo_backlogged, fast_forward_mode, mixerVars>>

\* With no messages, one more frame is rendered.
Render ==
  /\ renderer = "top"
  /\ IF ~work_running
     THEN renderer' = "ended" /\ frames' = 0
     ELSE IF is_work_fifo_backlogged \/ work # <<>>
          THEN renderer' = "dequeue" /\ frames' = 0
          ELSE renderer' = "rendering" /\ frames' = 1
  /\ UNCHANGED <<model, mainVars, due, deviceVars, holder, channelVars, workVars, audioVars,
                 is_work_fifo_backlogged, fast_forward_mode, mixerVars>>

\* The frames due before the message.  A Sound Canvas whose message is late is
\* backlogged from then on.
ProcessWorkFromFifo ==
  /\ renderer = "dequeue" /\ ~is_work_fifo_backlogged /\ work # <<>>
  /\ work' = Tail(work)
  /\ frames' = Head(work)
  /\ renderer' = IF Head(work) > 0 THEN "rendering" ELSE "top"
  /\ \/ UNCHANGED is_work_fifo_backlogged
     \/ model = "Sound Canvas" /\ is_work_fifo_backlogged' = TRUE
  /\ UNCHANGED <<model, mainVars, due, deviceVars, holder, channelVars, work_running, audioVars,
                 fast_forward_mode, mixerVars>>

\* Once more than ten events have come together, one frame is rendered.
DripFeed ==
  \/ renderer' = "drip-feeding" /\ frames' = 1
  \/ renderer' = "backlogged" /\ frames' = 0

\* Notes are dropped, the rest is collected.
RenderBacklogged ==
  /\ renderer = "dequeue" /\ is_work_fifo_backlogged /\ work # <<>>
  /\ work' = Tail(work)
  /\ DripFeed
  /\ UNCHANGED <<model, mainVars, due, deviceVars, holder, channelVars, work_running, audioVars,
                 is_work_fifo_backlogged, fast_forward_mode, mixerVars>>

\* Dequeue of a queue that is stopped and empty
DequeueStopped ==
  /\ renderer = "dequeue" /\ work = <<>> /\ ~work_running
  /\ IF is_work_fifo_backlogged THEN DripFeed ELSE renderer' = "top" /\ UNCHANGED frames
  /\ UNCHANGED <<model, mainVars, due, deviceVars, holder, channelVars, workVars, audioVars,
                 is_work_fifo_backlogged, fast_forward_mode, mixerVars>>

\* what follows when the frames are in the queue
Onward == IF renderer = "drip-feeding" THEN "backlogged" ELSE "top"

\* RenderAudioFramesToFifo: a stopped queue refuses the frames.
RenderAudioFramesToFifo ==
  /\ renderer \in {"rendering", "drip-feeding"}
  /\ \/ /\ audio_running /\ audio < AudioRoom
        /\ LET n == Lesser(AudioRoom - audio, frames) IN
           /\ audio' = audio + n
           /\ frames' = frames - n
           /\ renderer' = IF frames = n THEN Onward ELSE renderer
     \/ /\ ~audio_running
        /\ renderer' = Onward /\ frames' = 0
        /\ UNCHANGED audio
  /\ UNCHANGED <<model, mainVars, due, deviceVars, holder, channelVars, workVars, audio_running,
                 is_work_fifo_backlogged, fast_forward_mode, mixerVars>>

\* The end of RenderBacklogged: out of fast forward, rendering is as usual.
LeaveBacklogged ==
  /\ renderer = "backlogged" /\ renderer' = "top"
  /\ is_work_fifo_backlogged' = (is_work_fifo_backlogged /\ fast_forward_mode)
  /\ UNCHANGED <<model, mainVars, due, deviceVars, holder, channelVars, workVars, audioVars,
                 frames, fast_forward_mode, mixerVars>>

RendererStep ==
  \/ Render \/ ProcessWorkFromFifo \/ RenderBacklogged \/ DequeueStopped
  \/ RenderAudioFramesToFifo \/ LeaveBacklogged

----------------------------------------------------------------------------
(* The mixer thread: mixer_thread_loop.                                    *)

MixerLock ==
  /\ mixer = "top" /\ holder = "nobody"
  /\ holder' = "mixer"
  /\ IF registered /\ enabled THEN mixer' = "pulling" /\ needed' = Blocksize
                            ELSE mixer' = "device" /\ needed' = 0
  /\ UNCHANGED <<model, mainVars, due, deviceVars, channelVars, workVars, audioVars, rendererVars,
                 fast_forward_mode>>

\* MixerCallback of the synthesizer.
MixerCallback ==
  /\ mixer = "pulling"
  /\ \/ /\ audio > 0
        /\ LET n == Lesser(audio, needed) IN
           /\ audio' = audio - n
           /\ needed' = needed - n
           /\ mixer' = IF needed = n THEN "mixed" ELSE "pulling"
           /\ due' = IF needed = n THEN FALSE ELSE due
     \/ /\ audio = 0 /\ ~audio_running
        /\ mixer' = "mixed" /\ needed' = 0
        /\ UNCHANGED <<audio, due>>
  /\ UNCHANGED <<model, mainVars, deviceVars, holder, channelVars, workVars, audio_running,
                 rendererVars, fast_forward_mode>>

\* The sleeper disables a channel that has been silent, or it does not.
MaybeSleep ==
  /\ mixer = "mixed" /\ mixer' = "device"
  /\ enabled' \in {enabled, FALSE}
  /\ UNCHANGED <<model, mainVars, due, deviceVars, holder, registered, workVars, audioVars,
                 rendererVars, fast_forward_mode, needed>>

\* The block of the other device, or silence if its queue is stopped and empty;
\* then the mutex is given up.
MixDevice ==
  /\ mixer = "device" /\ (samples > 0 \/ ~device_running)
  /\ mixer' = "top"
  /\ samples' = 0
  /\ holder' = "nobody"
  /\ UNCHANGED <<model, mainVars, due, device_running, channelVars, workVars, audioVars,
                 rendererVars, fast_forward_mode, needed>>

MixerStep == MixerCallback \/ MaybeSleep \/ MixDevice

----------------------------------------------------------------------------
\* There is no synthesizer yet.
Init ==
  /\ model \in Models
  /\ main = "idle" /\ message = 0 /\ due = TRUE
  /\ samples = 0 /\ device_running = TRUE
  /\ holder = "nobody"
  /\ registered = FALSE /\ enabled = FALSE
  /\ work = <<>> /\ work_running = FALSE
  /\ audio = 0 /\ audio_running = FALSE
  /\ renderer = "ended" /\ frames = 0
  /\ is_work_fifo_backlogged = FALSE /\ fast_forward_mode = FALSE
  /\ mixer = "top" /\ needed = 0

\* what the main thread goes on with once it is in a call
CallStep == Enqueue \/ Construct \/ Unlock \/ DestructorStep

Next ==
  \/ Tick \/ MIXER_FastForward \/ Send
  \/ \E purpose \in {"change", "create", "destroy"} : Lock(purpose)
  \/ Acquire \/ CallStep \/ RendererStep \/ MixerLock \/ MixerStep

Spec == Init /\ [][Next]_vars

\* Every thread that can go on does, a mutex that is free again and again is
\* given to each thread that waits for it, and the guest's clock ticks whenever
\* the main thread is back.  Nobody has to send a message or touch the mixer.
FairSpec ==
  /\ Spec
  /\ WF_vars(CallStep) /\ SF_vars(Acquire) /\ SF_vars(Tick)
  /\ WF_vars(RendererStep)
  /\ WF_vars(MixerStep) /\ SF_vars(MixerLock)

----------------------------------------------------------------------------
(* Properties.                                                             *)

\* Neither thread is in a synthesizer that has been destroyed.
GoneIsGone ==
  ~registered => renderer = "ended" /\ mixer \notin {"pulling", "mixed"}

\* The constructor, the destructor and everybody else who locks the mixer come
\* back, whatever the renderer waits for.  A Sound Canvas that is backlogged may
\* wait for a message that does not come: see MidiClaims.
LocksReturn ==
  main \in {"change", "create", "destroy"} ~> main = "idle" \/ is_work_fifo_backlogged

\* A block of sound arrives; a Sound Canvas that is backlogged may make none.
AudioArrives == mixer = "pulling" ~> mixer # "pulling" \/ is_work_fifo_backlogged
============================================================================
