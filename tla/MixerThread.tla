---------------------------- MODULE MixerThread ----------------------------
(***************************************************************************)
(* The mixer (src/src/audio/mixer.cpp) and its three threads.  The sound   *)
(* devices make their samples on the main thread, which also runs the      *)
(* guest; the mixer thread pulls them out of the devices' queues while it  *)
(* holds mixer.mutex; the host's audio thread takes what was mixed.        *)
(*                                                                         *)
(* The mixer thread blocks on the main thread while it holds the mutex, so *)
(* whoever locks the mutex on the main thread has to stop the queues first.*)
(* What the main thread does with the mutex is a script of steps; between  *)
(* two of them the other threads go on.  A queue is what ThreadQueue says: *)
(* a call on it waits for what it needs, or until the queue is stopped.    *)
(* A tick makes one sample for every device.                               *)
(***************************************************************************)
EXTENDS Integers, Sequences

CONSTANTS
  Speakers,       \* PC speaker, LPT DAC: locked by whoever creates or destroys
  SoundBlasters,  \* as these, and the destructor disables the channel
  Guses,          \* locked in the constructor and by whoever destroys it
  Ps1s,           \* PS/1 and Tandy DAC: locked in constructor and destructor
  ReelMagics,     \* a global object that gets and loses its channel
  Installations,  \* the sets of devices that a user may have chosen
  Configured,     \* the states that MIXER_Init may leave the mixer in
  Blocksize,      \* the frames that are mixed at a time
  Room            \* the capacity of final_output

ASSUME ConfiguredAssumption == Configured \subseteq {"NoSound", "On"}

ASSUME SizesAssumption ==
  Blocksize \in Nat \ {0} /\ Room \in Nat /\ Room >= Blocksize

Devices == Speakers \cup SoundBlasters \cup Guses \cup Ps1s \cup ReelMagics

ASSUME InstallationsAssumption == Installations \subseteq (SUBSET Devices) \ {{}}

VARIABLES
  \* the main thread and the devices
  installed, \* the devices that may be created
  script,    \* the steps that the main thread has begun to take
  left,      \* the queues that a lock has to stop, or an unlock to start
  exists,    \* the devices that have been constructed
  pointed,   \* the devices that their global pointer points to
  running,   \* the devices whose output_queue is running
  queued,    \* queued[d]: what is in the output_queue of d
  \* mixer.mutex and what it protects
  holder, depth, channels,
  enabled,   \* the devices whose channel is enabled; the settings cache keeps
             \* it while there is no channel
  \* the mixer thread
  pc, todo, device, needed,
  \* the output
  state, output, output_running, should_quit, callback, asked

mainVars == <<installed, script, left, exists, pointed>>
lockVars == <<holder, depth>>
mixerVars == <<pc, todo, device, needed>>
outputVars == <<state, output, output_running, should_quit, callback, asked>>
vars == <<mainVars, running, queued, lockVars, channels, enabled, mixerVars, outputVars>>

Operations == {"lock", "unlock", "construct", "add", "point", "forget", "enable", "disable",
               "erase", "free", "start", "stop", "quit", "end output", "join", "close", "exit"}

TypeOK ==
  /\ installed \in Installations
  /\ script \in Seq([op : Operations, dev : Devices \cup {"none"}])
  /\ left \subseteq installed
  /\ exists \subseteq installed /\ pointed \subseteq exists
  /\ running \subseteq exists
  /\ queued \in [Devices -> 0 .. 2 * Blocksize]
  /\ holder \in {"main", "mixer", "nobody"}
  /\ depth \in Nat /\ (depth = 0 <=> holder = "nobody")
  /\ channels \subseteq Devices /\ enabled \subseteq Devices
  /\ pc \in {"top", "lock", "mixing", "pulling", "mixed", "output", "ended"}
  /\ todo \subseteq Devices /\ device \in installed
  /\ needed \in 0 .. Blocksize
  /\ state \in {"NoSound", "On", "Muted"}
  /\ output \in 0 .. Room
  /\ output_running \in BOOLEAN /\ should_quit \in BOOLEAN
  /\ callback \in {"idle", "pulling", "closed"}
  /\ asked \in 0 .. Blocksize

----------------------------------------------------------------------------
(* Scripts.                                                                *)

Step(op, d) == <<[op |-> op, dev |-> d]>>

\* Mutant: nothing is locked.
Unlocked(s) == s

\* MIXER_LockMixerThread, s, MIXER_UnlockMixerThread
Locked(s) == Step("lock", "none") \o s \o Step("unlock", "none")

LockedIf(condition, s) == IF condition THEN Locked(s) ELSE s

AddChannel(d) == Locked(Step("add", d))
DeregisterChannel(d) == Locked(Step("erase", d))

Constructor(d) ==
  Step("construct", d) \o LockedIf(d \in Guses \cup Ps1s, AddChannel(d))

Silence(d) ==
  IF d \in Speakers THEN <<>>
  ELSE IF d \in SoundBlasters THEN Step("stop", d) \o Step("disable", d)
  ELSE Step("disable", d)

Destructor(d) ==
  LockedIf(d \in Guses \cup Ps1s, Silence(d) \o DeregisterChannel(d)) \o Step("free", d)

\* The pointer is set when the constructor is done, and forgotten before the
\* destructor begins: std::unique_ptr.
CreateScript(d) ==
  IF d \in ReelMagics THEN Locked(AddChannel(d))
  ELSE LockedIf(d \in Speakers \cup SoundBlasters, Constructor(d) \o Step("point", d))

\* Mutant: the pointer is not reset.
DestroyDangling(d) ==
  IF d \in ReelMagics THEN Locked(DeregisterChannel(d))
  ELSE LockedIf(d \notin Ps1s, Destructor(d))

DestroyScript(d) ==
  IF d \in ReelMagics THEN Locked(DeregisterChannel(d))
  ELSE LockedIf(d \notin Ps1s, Step("forget", d) \o Destructor(d))

Idle == script = <<>>

Begin(s) ==
  /\ Idle
  /\ script' = s
  /\ UNCHANGED <<installed, left, exists, pointed, running, queued, lockVars, channels, enabled,
                 mixerVars, outputVars>>

Create(d) == d \in installed \ channels /\ Begin(CreateScript(d))
Destroy(d) == d \in channels /\ Begin(DestroyScript(d))

\* Any change of the mixer's settings.
ChangeSettings == Begin(Locked(<<>>))

\* Mutant: the queue is not started.
EnablePlayer(d) == d \in channels /\ Begin(Step("enable", d))

ActivatePlayer(d) == d \in channels /\ Begin(Step("start", d) \o Step("enable", d))

DeactivatePlayer(d) == d \in channels /\ Begin(Step("disable", d) \o Step("stop", d))

\* The mixer is destroyed after the devices.
MIXER_CloseAudioDevice ==
  /\ channels = {}
  /\ Begin(Step("quit", "none") \o Step("end output", "none") \o Step("join", "none")
           \o Step("close", "none") \o Step("exit", "none"))

----------------------------------------------------------------------------
(* The steps of scripts.                                                   *)

Now(op, d) == script # <<>> /\ Head(script) = [op |-> op, dev |-> d]

Done == script' = Tail(script) /\ left' = installed /\ UNCHANGED installed

\* Mutant: the queues are not stopped.
SkipStop(d) ==
  /\ Now("lock", "none") /\ d \in left
  /\ left' = left \ {d}
  /\ UNCHANGED <<installed, script, exists, pointed, running, queued, lockVars, channels, enabled,
                 mixerVars, outputVars>>

\* The program has a fixed order; any order is covered.
NotifyLockMixer(d) ==
  /\ Now("lock", "none") /\ d \in left
  /\ left' = left \ {d}
  /\ running' = IF d \in pointed THEN running \ {d} ELSE running
  /\ UNCHANGED <<installed, script, exists, pointed, queued, lockVars, channels, enabled,
                 mixerVars, outputVars>>

Acquire ==
  /\ Now("lock", "none") /\ left = {}
  /\ holder \in {"nobody", "main"}
  /\ holder' = "main" /\ depth' = depth + 1
  /\ Done
  /\ UNCHANGED <<exists, pointed, running, queued, channels, enabled, mixerVars, outputVars>>

\* Mutant: the queues are not started again.
SkipStart(d) ==
  /\ Now("unlock", "none") /\ d \in left
  /\ left' = left \ {d}
  /\ UNCHANGED <<installed, script, exists, pointed, running, queued, lockVars, channels, enabled,
                 mixerVars, outputVars>>

NotifyUnlockMixer(d) ==
  /\ Now("unlock", "none") /\ d \in left
  /\ left' = left \ {d}
  /\ running' = IF d \in pointed THEN running \cup {d} ELSE running
  /\ UNCHANGED <<installed, script, exists, pointed, queued, lockVars, channels, enabled,
                 mixerVars, outputVars>>

Release ==
  /\ Now("unlock", "none") /\ left = {}
  /\ depth' = depth - 1
  /\ holder' = IF depth = 1 THEN "nobody" ELSE "main"
  /\ Done
  /\ UNCHANGED <<exists, pointed, running, queued, channels, enabled, mixerVars, outputVars>>

Construct(d) ==
  /\ Now("construct", d) /\ Done
  /\ exists' = exists \cup {d}
  /\ running' = running \cup {d}
  /\ queued' = [queued EXCEPT ![d] = 0]
  /\ UNCHANGED <<pointed, lockVars, channels, enabled, mixerVars, outputVars>>

Free(d) ==
  /\ Now("free", d) /\ Done
  /\ exists' = exists \ {d}
  /\ running' = running \ {d}
  /\ UNCHANGED <<pointed, queued, lockVars, channels, enabled, mixerVars, outputVars>>

SetPointer(d) ==
  /\ \/ Now("point", d) /\ pointed' = pointed \cup {d}
     \/ Now("forget", d) /\ pointed' = pointed \ {d}
  /\ Done
  /\ UNCHANGED <<exists, running, queued, lockVars, channels, enabled, mixerVars, outputVars>>

SetChannel(d) ==
  /\ \/ Now("add", d) /\ channels' = channels \cup {d}
     \/ Now("erase", d) /\ channels' = channels \ {d}
  /\ Done
  /\ UNCHANGED <<exists, pointed, running, queued, lockVars, enabled, mixerVars, outputVars>>

Enable(d) ==
  /\ \/ Now("enable", d) /\ enabled' = enabled \cup {d}
     \/ Now("disable", d) /\ enabled' = enabled \ {d}
  /\ Done
  /\ UNCHANGED <<exists, pointed, running, queued, lockVars, channels, mixerVars, outputVars>>

StartStop(d) ==
  /\ \/ Now("start", d) /\ running' = running \cup {d}
     \/ Now("stop", d) /\ running' = running \ {d}
  /\ Done
  /\ UNCHANGED <<exists, pointed, queued, lockVars, channels, enabled, mixerVars, outputVars>>

Quit ==
  /\ Now("quit", "none") /\ Done
  /\ should_quit' = TRUE
  /\ UNCHANGED <<exists, pointed, running, queued, lockVars, channels, enabled, mixerVars,
                 state, output, output_running, callback, asked>>

\* Mutant: final_output is not stopped.
LeaveOutput ==
  /\ Now("end output", "none") /\ Done
  /\ UNCHANGED <<exists, pointed, running, queued, lockVars, channels, enabled, mixerVars,
                 outputVars>>

EndOutput ==
  /\ Now("end output", "none") /\ Done
  /\ output_running' = FALSE
  /\ UNCHANGED <<exists, pointed, running, queued, lockVars, channels, enabled, mixerVars,
                 state, output, should_quit, callback, asked>>

Join ==
  /\ Now("join", "none") /\ pc = "ended" /\ Done
  /\ UNCHANGED <<exists, pointed, running, queued, lockVars, channels, enabled, mixerVars,
                 outputVars>>

\* SDL_DestroyAudioStream waits for the callback
CloseStream ==
  /\ Now("close", "none") /\ callback = "idle" /\ Done
  /\ callback' = "closed"
  /\ UNCHANGED <<exists, pointed, running, queued, lockVars, channels, enabled, mixerVars,
                 state, output, output_running, should_quit, asked>>

----------------------------------------------------------------------------
(* The main thread between scripts: the guest, its clock, the user.        *)

Producing == pointed \cap enabled \cap channels

\* Every device's callback: it makes samples if its channel is enabled, and
\* its queue takes what it has room for.
Tick ==
  /\ Idle
  /\ queued' = [d \in Devices |->
                  IF d \in Producing \cap running /\ queued[d] < 2 * Blocksize
                  THEN queued[d] + 1 ELSE queued[d]]
  /\ UNCHANGED <<mainVars, running, lockVars, channels, enabled, mixerVars, outputVars>>

\* The guest uses a device.
WakeUp(d) ==
  /\ Idle /\ d \in (pointed \cap channels) \ ReelMagics
  /\ enabled' = enabled \cup {d}
  /\ running' = IF d \in SoundBlasters THEN running \cup {d} ELSE running
  /\ UNCHANGED <<mainVars, queued, lockVars, channels, mixerVars, outputVars>>

\* The guest resets the Gravis UltraSound.
GusReset(d) ==
  /\ Idle /\ d \in pointed \cap channels
  /\ enabled' = enabled \ {d}
  /\ UNCHANGED <<mainVars, running, queued, lockVars, channels, mixerVars, outputVars>>

MIXER_Mute ==
  /\ Idle /\ state = "On"
  /\ output' = 0
  /\ state' = "Muted"
  /\ UNCHANGED <<mainVars, running, queued, lockVars, channels, enabled, mixerVars,
                 output_running, should_quit, callback, asked>>

MIXER_Unmute ==
  /\ Idle /\ state = "Muted"
  /\ state' = "On"
  /\ UNCHANGED <<mainVars, running, queued, lockVars, channels, enabled, mixerVars,
                 output, output_running, should_quit, callback, asked>>

----------------------------------------------------------------------------
(* The mixer thread: mixer_thread_loop.                                    *)

Lesser(m, n) == IF m < n THEN m ELSE n

MixerTop ==
  /\ pc = "top"
  /\ pc' = IF should_quit THEN "ended" ELSE "lock"
  /\ UNCHANGED <<mainVars, running, queued, lockVars, channels, enabled,
                 todo, device, needed, outputVars>>

MixerLock ==
  /\ pc = "lock" /\ holder = "nobody"
  /\ holder' = "mixer" /\ depth' = 1
  /\ pc' = "mixing" /\ todo' = channels
  /\ UNCHANGED <<mainVars, running, queued, channels, enabled, device, needed, outputVars>>

\* MixerChannel::Mix; the channels are visited in any order.
Mix(d) ==
  /\ pc = "mixing" /\ d \in todo
  /\ todo' = todo \ {d} /\ device' = d
  /\ IF d \in enabled THEN pc' = "pulling" /\ needed' = Blocksize
                      ELSE pc' = "mixed" /\ needed' = 0
  /\ UNCHANGED <<mainVars, running, queued, lockVars, channels, enabled, outputVars>>

MIXER_PullFromQueueCallback ==
  /\ pc = "pulling" /\ queued[device] > 0
  /\ LET n == Lesser(queued[device], needed) IN
     /\ queued' = [queued EXCEPT ![device] = @ - n]
     /\ needed' = needed - n
     /\ pc' = IF needed = n THEN "mixed" ELSE "pulling"
  /\ UNCHANGED <<mainVars, running, lockVars, channels, enabled, todo, device, outputVars>>

\* The queue is stopped and empty: the shortfall is silence.
PullStopped ==
  /\ pc = "pulling" /\ queued[device] = 0 /\ device \notin running
  /\ pc' = "mixed" /\ needed' = 0
  /\ UNCHANGED <<mainVars, running, queued, lockVars, channels, enabled, todo, device, outputVars>>

\* The sleeper disables a channel that has been silent, or it does not.
MaybeSleep ==
  /\ pc = "mixed" /\ pc' = "mixing"
  /\ \/ enabled' = enabled \ {device}
     \/ enabled' = enabled
  /\ UNCHANGED <<mainVars, running, queued, lockVars, channels, todo, device, needed, outputVars>>

\* Mutant: a muted mixer puts nothing out.
MutedDiscards ==
  /\ pc = "mixing" /\ todo = {}
  /\ holder' = "nobody" /\ depth' = 0
  /\ IF state # "On" THEN pc' = "top" /\ needed' = needed
                     ELSE pc' = "output" /\ needed' = Blocksize
  /\ UNCHANGED <<mainVars, running, queued, channels, enabled, todo, device, outputVars>>

MixerUnlock ==
  /\ pc = "mixing" /\ todo = {}
  /\ holder' = "nobody" /\ depth' = 0
  /\ IF state = "NoSound" THEN pc' = "top" /\ needed' = needed
                          ELSE pc' = "output" /\ needed' = Blocksize
  /\ UNCHANGED <<mainVars, running, queued, channels, enabled, todo, device, outputVars>>

\* A block of sound or, if muted, of silence.
EnqueueOutput ==
  /\ pc = "output" /\ output_running /\ output < Room
  /\ LET n == Lesser(Room - output, needed) IN
     /\ output' = output + n
     /\ needed' = needed - n
     /\ pc' = IF needed = n THEN "top" ELSE "output"
  /\ UNCHANGED <<mainVars, running, queued, lockVars, channels, enabled, todo, device,
                 state, output_running, should_quit, callback, asked>>

OutputStopped ==
  /\ pc = "output" /\ ~output_running
  /\ pc' = "top" /\ needed' = 0
  /\ UNCHANGED <<mainVars, running, queued, lockVars, channels, enabled, todo, device, outputVars>>

MixerStep ==
  \/ MixerTop \/ (\E d \in Devices : Mix(d)) \/ MIXER_PullFromQueueCallback
  \/ PullStopped \/ MaybeSleep \/ MixerUnlock \/ EnqueueOutput \/ OutputStopped

----------------------------------------------------------------------------
(* The host's audio thread: old_mixer_callback.                            *)

\* It asks for what there is now; where there is nothing, it writes silence.
MixerCallback ==
  /\ callback = "idle" /\ state # "NoSound" /\ output > 0
  /\ asked' = Lesser(output, Blocksize)
  /\ callback' = "pulling"
  /\ UNCHANGED <<mainVars, running, queued, lockVars, channels, enabled, mixerVars,
                 state, output, output_running, should_quit>>

DequeueOutput ==
  /\ callback = "pulling" /\ output > 0
  /\ LET n == Lesser(output, asked) IN
     /\ output' = output - n
     /\ asked' = asked - n
     /\ callback' = IF asked = n THEN "idle" ELSE "pulling"
  /\ UNCHANGED <<mainVars, running, queued, lockVars, channels, enabled, mixerVars,
                 state, output_running, should_quit>>

OutputEnded ==
  /\ callback = "pulling" /\ output = 0 /\ ~output_running
  /\ callback' = "idle" /\ asked' = 0
  /\ UNCHANGED <<mainVars, running, queued, lockVars, channels, enabled, mixerVars,
                 state, output, output_running, should_quit>>

CallbackStep == MixerCallback \/ DequeueOutput \/ OutputEnded

----------------------------------------------------------------------------
Init ==
  /\ installed \in Installations
  /\ script = <<>> /\ left = installed
  /\ exists = ReelMagics \cap installed /\ pointed = exists /\ running = exists
  /\ queued = [d \in Devices |-> 0]
  /\ holder = "nobody" /\ depth = 0 /\ channels = {} /\ enabled = {}
  /\ pc = "top" /\ todo = {} /\ device \in installed /\ needed = 0
  /\ state \in Configured
  /\ output = 0 /\ output_running = TRUE /\ should_quit = FALSE
  /\ callback = "idle" /\ asked = 0

\* a step of a script that needs no mutex
ScriptStep ==
  \/ \E d \in Devices :
       \/ NotifyLockMixer(d) \/ NotifyUnlockMixer(d) \/ Construct(d) \/ Free(d)
       \/ SetPointer(d) \/ SetChannel(d) \/ Enable(d) \/ StartStop(d)
  \/ Release \/ Quit \/ EndOutput \/ Join \/ CloseStream

MainStep ==
  \/ \E d \in Devices : Create(d) \/ Destroy(d) \/ WakeUp(d)
  \/ \E d \in Guses : GusReset(d)
  \/ \E d \in ReelMagics : ActivatePlayer(d) \/ DeactivatePlayer(d)
  \/ ChangeSettings \/ Tick \/ MIXER_Mute \/ MIXER_Unmute \/ MIXER_CloseAudioDevice

Next == MainStep \/ ScriptStep \/ Acquire \/ MixerStep \/ MixerLock \/ CallbackStep

Spec == Init /\ [][Next]_vars

\* Every thread that can go on does, a mutex that is free again and again is
\* given to each thread that waits for it, and the main thread comes back to
\* the guest, whose clock ticks.  It never has to use a device or a lock.
FairSpec ==
  /\ Spec
  /\ WF_vars(ScriptStep) /\ SF_vars(Acquire) /\ SF_vars(Tick)
  /\ WF_vars(MixerStep) /\ SF_vars(MixerLock)
  /\ WF_vars(CallbackStep)

----------------------------------------------------------------------------
(* Properties.                                                             *)

Pulling(d) == pc = "pulling" /\ device = d

\* The mixer thread has nothing to do with a device that is not registered or
\* no longer exists, although devices come and go while it runs.
OnlyLiveDevices ==
  pc \in {"mixing", "pulling", "mixed"} =>
    /\ todo \subseteq channels \cap exists
    /\ pc # "mixing" => device \in channels \cap exists

\* Between scripts the main thread holds no lock, and every device that plays
\* has a running queue, however locks were nested and whatever they changed.
BackToNormal ==
  Idle => holder # "main" /\ enabled \cap channels \subseteq running

\* No sound is left out of what is mixed except on behalf of a lock, or of the
\* guest, that stopped the queue.
NoGap ==
  [][pc = "pulling" /\ pc' = "mixed" /\ needed > 0 /\ queued'[device] = queued[device]
       => ~Idle \/ device \notin enabled]_vars

\* Whoever stops the queues gets the mutex, also if the guest stands still from
\* then on: the main thread never waits for a mixer thread that waits for it.
LockGranted == Now("lock", "none") /\ left = {} ~> holder = "main"

\* A pull ends as long as the channel it is for stays enabled.
PullEnds ==
  \A d \in Devices : Pulling(d) ~> ~Pulling(d) \/ d \notin enabled

\* The program closes its audio device once it set out to.
ShutsDown == should_quit ~> callback = "closed"

\* The host's audio thread comes back, unless the user mutes and unmutes, or the
\* mixer thread waits for a device that has been silenced.
CallbackReturns ==
  \A s \in {"On", "Muted"} :
    callback = "pulling" /\ state = s ~>
      \/ callback # "pulling" \/ state # s
      \/ pc = "pulling" /\ device \notin enabled
============================================================================
