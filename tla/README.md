# A TLA+ model of the DOSBox Staging debugger fork

This directory models the parts of the program in `src/` whose correctness
depends on the order in which things happen: the debugger's breakpoints, the
bridge between the web server and the emulation thread and what clients build on
it, the blocking queue that connects the emulator's threads, the lock that the
sound devices share with the mixer thread, the threads of the MIDI synthesizers,
the workers that draw the triangles of the 3D card, and the interrupt controllers.
Every definition is translated from the C++ source;
`PROJECT.json` maps each one to its lines.

## 1. Inventory

The program is a PC emulator.  One thread, here called the emulation thread,
runs the guest (`dosbox.cpp`, `cpu/`), the emulated hardware, DOS, the GUI event
loop and the debugger.  Other threads do audio, MIDI synthesis, triangles, image
saving and the web server.  The fork adds a debugger with a GUI and a REST API.

| Component | State it keeps | Operations | Interacts with | Hard behaviour |
|---|---|---|---|---|
| Breakpoints (`debugger/breakpoint.cpp`) | list `BPoints`; 0xCC patches in guest memory; the byte each patch hides | add, delete, activate, sweep, check | CPU core (INT3, INT), keys, commands, DOS_Execute | several breakpoints share a patch; guest and user overwrite patches; deletion inside a search |
| Run control (`debugger/debugger.cpp`, `debugger_keys.cpp`, `dosbox.cpp`) | loop pointer, `debugging`, `exitNormalLoop`, `exitDebugLoop`, `skipInterrupts`, event queue | DEBUG_Loop, DEBUG_Run, DEBUG_Enable, normal_loop | breakpoints, CPU, mapper | one callback deep inside nested loops changes who has control |
| Commands (`debugger_command.cpp`) | none of their own | about forty commands | breakpoints, guest memory, registers, views | some of them let the guest run |
| Views (`debugger_gui.cpp`, `debugvar.cpp`) | cursor, address, ring of visited addresses, variables | set, scroll, back, forward | keys, commands | index arithmetic in a ring |
| Disassembler, analyzer (`debugger_disasm.cpp`, `debug_analyzer.cpp`) | decoded lines | decode | views | size only |
| Bridge (`webserver/bridge.cpp`) | queue of pointers to commands, `done` flags, mutex, condition variable | ExecuteCommand, ProcessRequests | handlers, normal_loop | time-outs racing execution; pointers into stack frames |
| Requests (`webserver/memory.cpp`, `cpu.cpp`, `dos.cpp`) | request and response fields | Execute on the emulation thread | guest memory, DOS and page allocators | the conditional write is a synchronisation primitive for clients |
| HTTP server (`webserver/webserver.cpp`) | the server, a detached thread | start, stop | requests | shutdown with handlers waiting |
| Mixer (`audio/mixer.cpp`, devices in `hardware/audio/`) | `mixer.mutex`, channels and whether they are enabled, the queue of each device, `final_output`, the mixer's state | MIXER_LockMixerThread and Unlock, mixer_thread_loop, the host's callback, creation and destruction of devices, muting, MIXER_CloseAudioDevice | main thread, mixer thread, host's audio thread | the mixer thread waits for the main thread with the mutex held; locks nest; devices die while others use them |
| MIDI synthesizers (`midi/`) | work queue, audio queue, renderer thread, `is_work_fifo_backlogged` | send, render, create, destroy | main thread, mixer thread | two queues in a row, three threads that wait for each other, with the mixer's mutex held |
| Triangle workers (`hardware/video/voodoo.cpp`) | `work_index`, `done_count`, `threads_active`, the triangle | `triangle_worker_run`, the workers' loop, shutdown | main thread, worker threads | lock-free: late workers, waits on atomics, reset of two counters, plain data between them |
| Interrupt controllers (`hardware/pic.cpp`) | registers of two controllers, `PIC_IRQCheck` | raise, lower, mask, end of interrupt, initialisation, start | devices, guest, CPU | facts kept beside the registers they follow from, in two controllers that signal each other |
| Image saver (`capture/image/`) | queue of frames, worker thread | open, queue, close | renderer, worker | stopping a worker that still has work |
| CD audio reader (`dos/cdrom.cpp`) | queue of samples, reader thread | play, pause, stop | guest, mixer | a queue that both threads start and stop |
| Thread queue (`misc/rwqueue.cpp`) | bounded queue, `is_running`, two condition variables | blocking, non-blocking and bulk enqueue and dequeue, Stop, Start, Clear, Resize | mixer, MIDI devices, image saver, sound cards | lost wake-ups, stop while waiting, chunks |
| DOS (`dos/`), other devices (`hardware/`, `ints/`), CPU (`cpu/`, `fpu/`), video, shell, GUI | the emulated machine | instructions, I/O, interrupts | all of the above | mostly sequential and very large |

What makes the first components correct:

* *Breakpoints.*  The guest runs the same code with breakpoints as without, apart
  from stopping; when it stops, the user sees the guest's memory and not the
  debugger's patches; no breakpoint that the user set is missed or lost.
* *Bridge.*  A request is executed at most once, at one moment between call and
  answer; the verdict a handler gets is true; nobody waits for ever; a command is
  not used after its destruction.
* *Clients.*  The conditional write is atomic, so clients can build a mutex on it.
* *Run control.*  Exactly one of guest and debugger has control, and every stop
  reaches the debugger's loop.
* *Thread queue.*  It is a FIFO; it loses and invents nothing when stopped; no
  thread sleeps while it could proceed.
* *Mixer.*  The main thread gets the mutex whenever it asks; the mixer thread uses
  no device that is gone; queues that were stopped for a lock run again afterwards;
  the program can always end.
* *MIDI synthesizers.*  Whoever locks the mixer comes back although nobody stops the
  synthesizer's queues for it; sound keeps coming; no thread is in a synthesizer that
  was destroyed.
* *Triangle workers.*  Each unit of a triangle is drawn once, by whomever; nobody reads
  a triangle that is being written; the call always returns.
* *Interrupt controllers.*  The CPU is told of an interrupt exactly when there is one to
  start, and interrupts start in the order of their priorities.

## 2. Modules

```
Lists                    searching and erasing in lists
  BreakpointOps          class CBreakpoint: operators on (list, memory)
    Breakpoints          the state machine of everything that uses them
      MCBreakpoints      TLC instances
        BreakpointClaims what comments say and the code does not do
      BreakpointsProofs  (with ListTheorems)
  MemoryRequests         what a request does to a word of memory
    RequestService       abstract: at-most-once requests
    DebugBridge          the bridge; implements RequestService
      GuestMutex         clients that take a mutex through the bridge
        MCDebugBridge    TLC instances of both
        DebugBridgeProofs  about both (with ListTheorems)
ListTheorems             facts about Lists, with proofs

ThreadQueue              abstract: a blocking first-in first-out buffer
  RWQueue                the monitor; implements ThreadQueue
    MCRWQueue            TLC instances
      RWQueueClaims      what a comment says and the code does not do
    RWQueueProofs

MixerThread              mixer, its lock, its devices; queues as in ThreadQueue
  MCMixerThread          TLC instances
  MixerClaims            what comments say and the code does not do
  MixerThreadProofs

MidiSynth                a synthesizer, its renderer thread, the mixer; queues as in ThreadQueue
  MCMidiSynth            TLC instance
  MidiClaims             what a comment says and the code does not do
  MidiSynthProofs

TriangleJob              abstract: every unit is drawn once
  TriangleWorkers        the workers; implements TriangleJob
    MCTriangleWorkers    TLC instance
    TriangleWorkersProofs

InterruptController      two controllers, devices, guest, CPU
  MCInterruptController  TLC instance
  InterruptControllerProofs
```

### Breakpoints

The build the repository configures has `C_DEBUGGER` 1 and `C_HEAVY_DEBUGGER` 0
(`include/dosbox_config.h`): a physical breakpoint is a 0xCC in guest memory.
`BreakpointOps` is the class as operators that take and return the pair
`[bps, mem]`; `Breakpoints` is the state machine:

| Variable | Code |
|---|---|
| `BPoints` | `BPoints`, front first; a record per `CBreakpoint` |
| `mem` | guest memory with the patches in it |
| `ip` | the physical address of cs:eip |
| `debugging` | `debugging`, which is TRUE exactly when the machine runs `DEBUG_Loop` |
| `guest` | history: memory had there been no breakpoints |
| `holes` | history: addresses whose books are lost (below) |

Everything here is done by one thread, so an action is one complete handler: an
instruction, a hit, a command, a key (`DEBUG_Run` with the instruction it
executes and the callback that instruction returns), a skipped interrupt, a
program start under DEBUG.COM.  An instruction is its first byte and writes any
guest bytes to one of `WriteSets`; the next `ip` is arbitrary.  `DEBUG_Close`
requests the shutdown of the program and is not an action.

`holes` says where the code cannot keep its books, by construction of the patch:
an armed address that the guest or the user writes to (the remembered byte is
stale until the breakpoint is armed again), an address with a breakpoint where
the guest writes a 0xCC of its own, an address whose last armed breakpoint
F9 deletes, and one where `BPDEL *` was misled.  `DeleteAll` deletes each breakpoint
while the list still points to it, and the search for another armed one at the address
reads the deleted ones: what it finds in them is anybody's guess, so each but the first
may find one and leave the patch where it is (`Misled`).  The hole is an address with
an armed breakpoint whose search was misled, and no other.  `Transparent` and `HitLeavesNoPatch` speak of the other addresses;
the run `claim_orphan_patch` and section 5 show what happens in the holes.

### Bridge

`DebugBridge` has the emulation thread and a set `Clients` of handlers.  The
mutex makes each stretch of a handler's code between two waits one action:
`ExecuteCommand` (up to the first wait), `Wake` (time-out or spurious),
`WaitAgain`, `Complete`, `TimeOut`.  The emulation thread holds the mutex for its
whole loop, which is several actions (`ProcessRequests`, one `Execute` per
command, `Finish`) under `locked`, so that a handler's time can run out between
any two of them.  `Emulate` is guest code.  `request`, `done` and `reply` are the
fields of the command object in the handler's frame; a pointer in `queue` is the
handler's name.  Memory is one word and a request is a read, a write or a
conditional write (`MemoryRequests`).

`RequestService` is the promise: open, performed, idle, and the effect and the
reply at the one step `Perform`.  The refinement mapping takes `done` for
"performed".

`GuestMutex` is the use that the comment in `memory.h` names: "Usable as an
atomic CAS to implement a mutex".  The clients' own programs are external; the
interpretation of the answer is that of `WriteMemCommand::Put`.

### Thread queue

`RWQueue` is the class as a monitor.  A critical section is one action, a wait
splits a method, and the notification after the unlock is an action of its own, so
that other threads come between the two.  Waits may end for no reason.

| Variable | Code |
|---|---|
| `queue`, `capacity`, `is_running` | the members of these names |
| `pc` | where each thread is: outside, about to lock, in a wait set, out of it, about to notify |
| `chunk` | `num_items`, which is fixed before the wait |
| `todo`, `wanted` | what is left of the producer's vector, `num_remaining` of the consumer |
| `made`, `received`, `dropped` | history: items made, delivered, and cleared or refused |

`Enqueue` and `Dequeue` are the bulk operations with a batch of one; the module's
header says how the real ones differ.  `capacity - queue.size()` is taken
modulo `SizeRange`, as a `size_t`: when `Resize` made the capacity smaller than what
is queued, the difference is huge.  `Resize` is not called while a producer is inside a blocking call, as in the
program, where queues are resized by their owner before the producer's thread
starts or between its calls.  `AsUsed` names how the program uses the class, one
thread at each end, and the theorems assume it.

`ThreadQueue` is the promise: chunks move in while there is room and out while
there are any; a call ends when it is served, or when the queue is stopped and
drained.  It knows no sleep and no wake-up, so its fairness says that every call
that could go on does.  `ImplementsThreadQueue` checks the refinement with that
fairness.

### Mixer

The mixer thread pulls samples out of the devices' queues while it holds
`mixer.mutex`, and the main thread makes the samples: whoever locks the mutex on the
main thread first stops the queues, and starts them after the unlock.

| Variable | Code |
|---|---|
| `installed` | the devices that the user chose: the instances try several sets in one run |
| `script`, `left` | what the main thread has still to do of the function it is in, and the queues still to stop or start of the lock or unlock it is in |
| `exists`, `pointed` | devices that are constructed; devices a global pointer points to (the notify functions look at the pointer) |
| `running`, `queued` | each device's `output_queue`: `is_running`, and how much is in it |
| `holder`, `depth` | `mixer.mutex`, which is recursive |
| `channels`, `enabled` | the registered channels; `is_enabled`, which the settings cache keeps while there is no channel |
| `pc`, `todo`, `device`, `needed` | the mixer thread: place in the loop, channels still to visit, the one visited, frames still to pull or to put out |
| `state`, `output`, `output_running`, `should_quit` | `mixer.state`, `final_output`, `thread_should_quit` |
| `callback`, `asked` | the host's audio thread: `old_mixer_callback` |

A function on the main thread is a *script*, a sequence of steps built by
operators that follow its calls (`CreateScript`, `DestroyScript`, `Locked`, ...); each
step is an action, and the other threads run between any two.  Devices come in the
five kinds that the code has, by where they lock: by the functions that create
and destroy (PC speaker, LPT DAC, Sound Blaster), in the constructor and by whoever
destroys (Gravis UltraSound), in constructor and destructor (PS/1, Tandy), or as a
member of a global object (ReelMagic).  Between scripts the main thread runs the
guest (`Tick`, `WakeUp`, `GusReset`) or the user mutes.  A call on a queue is an
action that waits for what it needs or for the queue to stop, which is what
`ThreadQueue` allows and `RWQueue` is shown to implement.

Left out: what is mixed, fast forward, the capture queue, and devices that
synthesise on the mixer thread, which only lock (`ChangeSettings`).  Left out too is the
eviction of another device from a DMA channel that a constructor asks for
(`tandy_sound.cpp:182`, `soundblaster.cpp:3605`): it runs the other device's callback
on the main thread, which has the recursive mutex at that moment.

### MIDI synthesizers

| Variable | Code |
|---|---|
| `model` | which of the three classes the object is |
| `main`, `message` | the main thread: outside, in `SendMidiMessage` or `SendSysExMessage`, or between a lock and an unlock of the mixer; the message it enqueues |
| `due` | whether time has passed since `last_rendered_ms` |
| `samples`, `device_running` | the `output_queue` of one device that plays on the main thread |
| `holder` | `mixer.mutex` |
| `registered`, `enabled` | the synthesizer's channel |
| `work`, `work_running` | `work_fifo`; a message is its `num_pending_audio_frames` |
| `audio`, `audio_running` | `audio_frame_fifo` |
| `renderer`, `frames` | the renderer thread, and what it has yet to enqueue |
| `is_work_fifo_backlogged`, `fast_forward_mode` | the members of these names |
| `mixer`, `needed` | the mixer thread, and what it has yet to dequeue |

The three classes share one shape.  The Sound Canvas adds a mode: a message more
than a second late makes it drop notes and render only now and then until fast
forward ends.  How late a message is, and when the sleeper disables a silent
channel, are open choices.  The other device is there because the mixer thread,
between two blocks of the synthesizer, may wait for the main thread: whoever locks
the mixer stops that device's queue, and the synthesizer's queues are left alone.

### Triangle workers

Each access to an atomic variable is an action, and so is the drawing of a unit.
The code uses acquire and release order on every access, and the only plain data
(the vertices, the target buffer) are written between two triangles; `NoDataRace`
says that nobody reads them then, which is what the interleaving of actions rests
on.  `wait(old)` compares and sleeps in one step, and compares again after a
notification or for none.

| Variable | Code |
|---|---|
| `threads_active`, `work_index`, `done_count` | the members of these names; `work_index` starts at `INT_MAX` and wraps as an `int` |
| `pc`, `i` | where each thread is; its local variable `i` |
| `drawn` | history: how often each unit was drawn, for the present triangle |

`TriangleJob` is what `triangle` relies on: every unit once, all when the call returns.
`ImplementsJob` speaks until the card is shut down.  The shutdown sets `work_index`
to 0 to wake the workers up; one that has not yet seen `threads_active` takes units of
the last triangle and draws them again.  The triangle is unchanged until the threads
are joined, so this does no harm.

### Interrupt controllers

A register is the set of lines whose bit is 1.  The methods of `PIC_Controller`
call each other across the two controllers (`activate` of the secondary one is
`raise_irq(2)` of the primary one), so they are operators on a state
`[pics, check]`; an action is one call from outside: a device, a port write, the
CPU between two instructions.

| Variable | Code |
|---|---|
| `pics` | `pics[0]`, `pics[1]`: `irr`, `imr`, `isr`, `active_irq`, `special`, `auto_eoi` |
| `PIC_IRQCheck` | the variable of this name |
| `icw` | `icw_index`, `icw_words`, `single` |
| `IF_` | the interrupt flag |
| `shared` | history: whether a device has raised or lowered line 2 of the primary controller itself |

`imrr` and `isrr` are the complements of `imr` and `isr`.  `PIC_IRQCheck` and the
request of line 2 follow from other registers, and every method adjusts them:
`Signalled` and `CascadeFollows` say that the adjustments suffice.  A device may use
line 2 itself: the Music Feature Card with `imfc_irq = 2` (`imfc.cpp:13461-13464`), and
a Sound Blaster when the guest writes 1 to its mixer register 0x80
(`soundblaster.cpp:2774-2775`); `PIC_ActivateIRQ` does not pass that line on to line 9.
From then on (`shared`) the request of line 2 says nothing of the secondary controller,
and both properties except it by name: section 5 has what happens.

## 3. Runs

| Run | What it asks | Bounds |
|---|---|---|
| `breakpoints` | type, transparency, armed while running, clean stop, no lost breakpoint | 2 addresses, 0xCC and one more byte, 1 service, 3 breakpoints, code at address 0 is rewritten |
| `bridge` | pointers, verdicts, notification, mutual exclusion, the mutex is not lost, every call returns, implements the service | either 2 handlers, 2 words and all 9 requests, or 3 clients of the mutex |
| `queue` | order, no loss, no lost wake-up, capacity, calls end after a stop, implements the buffer | 1 producer, 1 consumer, 1 owner, capacities 2, 1 and 3, batches and requests of 1 and 3, 5 items |
| `mixer_lock` | no dead device, queues run after a lock, no gap | PC speaker, Gravis UltraSound and PS/1 DAC, or Sound Blaster, PS/1 DAC and ReelMagic; mix discarded |
| `mixer_output` | the lock is granted, pulls end, the program ends, the host's callback comes back | Sound Blaster, Gravis UltraSound or ReelMagic, blocks of 2, output queue of 3 |
| `triangles` | types, no data race, no overflow, the call returns, implements the job | 2 workers, 12 units, `INT_MAX` 20 |
| `pic` | types, the two kept facts, order of interrupts | lines 0, 2 and 3, lines 8 and 9, each used by devices, the cascade too; primary reprogrammed; no special mask, no auto-EOI |
| `midi` | no use after destruction, locks return, sound arrives | FluidSynth and Sound Canvas, 2 messages, 3 frames, blocks of 2, messages after 0, 1 or 4 frames |
| `claim_orphan_patch` | a comment of `breakpoint.cpp`, refuted | as `breakpoints` |
| `claim_no_deadlock` | a comment of `mixer.cpp`, refuted | PS/1 DAC |
| `claim_fifo_populated` | a comment of `soundcanvas.cpp`, refuted | Sound Canvas |
| `claim_bulk_dequeue_stopped` | a comment of `rwqueue.h`, refuted | as `queue` |

Why these bounds are enough.  Two addresses give one that a sweep passes over
and one that it does not, and let an instruction modify another one.  Three
breakpoints give two at one address plus one elsewhere, and three at one address:
the searches distinguish "this one", "another one", "none".  Two guest bytes tell
a stale byte from a right one.  Two handlers give every order of queueing,
execution and time-out; three clients let two of them compete for a word while a
third holds it.  The guest of `breakpoints` rewrites only the code at one address:
what a write does to a patch does not depend on the other addresses.  It does not follow
a state in which both addresses are holes, since transparency then says nothing
(`BooksOfOneAddress`), nor `pic` one in which a device has used line 2 and the guest has
begun to reprogram the primary controller (`OneOfTwo`); the theorems know no such limit.  A batch of 3 in a queue of 2 takes several chunks and is
cut at every place, and 5 items let a second batch follow the first while that is
still queued.  A block of 2 and an output queue of 3 make the mixer thread put out a
block in two pieces.  A device's queue holds two blocks, enough to be empty, to have
part of a block, and to be full.  `mixer_lock` discards the mix (the mixer's state
`NoSound`): then nothing keeps the mixer thread from taking the mutex again at once,
which is the hardest case for the main thread.  Three devices show one being
destroyed while the mixer thread waits for another; the liveness run has one device
at a time, since what a lock has to stop does not depend on the others.  Two workers
let one be late with a claim while the other and the main thread finish a triangle and
start the next; 12 is the number of units that the program has for two workers.  Two
lines of its own on each controller, one below and one above the cascade on the
primary one, give every nesting of two services and every loss of a signal.  Special
mask and auto-EOI mode are left to the theorems, which hold for every choice of the
controllers that may be put in them.  A message of 4 frames is longer than the audio
queue, and a block of 2 does not fit into it twice, so both ends wait in the middle of a
call.  Nothing is symmetric: runs that check liveness must not use it, and the others
are small enough.

Deadlock is not checked where the machine may stop: in the breakpoint instances,
where a list that is full (`MaxBreakpoints`) disables the actions that add to it, in
the mixer's, where the program ends, and in the synthesizer's, where the three threads
can wait for each other (section 5).

### Fairness

*Bridge.*  `Execute` and `Finish` are weakly fair: a
finite loop under a held mutex.  A handler's time-out and its taking of the mutex
are strongly fair: time passes and the clock of `wait_for` is not reset by wake-ups;
the emulation thread may take the mutex again and again but executes guest code
without it.  `ProcessRequests` is *not* fair, since while the debugger is open
`normal_loop` does not run: `AllReturn` therefore rests on the time-out alone.

*Queue.*  `FairSpec` is weak fairness of each thread inside a call: the host
schedules what can run.  Nobody has to call anything, and no wait has to end
without a notification.

*Mixer.*  Steps of scripts, of the mixer thread and of the callback are weakly
fair.  Taking the mutex is strongly fair for both threads: it is free again and
again, and the host gives it to each thread that waits.  `Tick` is strongly fair:
the main thread returns to the guest from every function, and the guest's clock
ticks.  The guest never has to use a device, and the user never has to do anything.
`LockGranted` does not rest on `Tick` alone: once the queues are stopped no sample
is needed.

*MIDI synthesizers.*  As the mixer, and the renderer is weakly fair.  Nobody has to
send a message: that is what a backlogged Sound Canvas waits for, and why
`LocksReturn` and `AudioArrives` except it.

*Triangle workers.*  Weak fairness of each thread.  No wait has to end without a
notification, and nobody has to draw a triangle.

## 4. Proofs

TLAPS checks these for every value of the constants.

* `BreakpointsProofs`.  The invariant `IInv` joins the type invariant,
  `Transparent` and facts about single breakpoints.  A sweep is a loop over the
  list, written as a recursive function; its lemmas go by induction on the number
  of iterations.  The library's induction rules are stated with an operator
  parameter, which the installed back ends cannot instantiate, so `ListTheorems`
  derives a set-based induction (`SetInduction`) from the well-foundedness of <:
  the iterations that satisfy the loop invariant form a set that contains 0 and is
  closed under successor.  `Arm` and `Disarm` are shown to keep the invariant of
  one address, the sweeps follow by induction, each action from the operators
  it is made of.  In the loop of `DeleteAll` an iteration may also leave a patch behind
  (`VisitKeeps`); the addresses where none did are as clean as after a sweep.  That only the user deletes a permanent breakpoint needs a count: a new
  breakpoint pushes the others on, an erased once-only one lets them move up, and
  either move is an injection on the permanent ones at an address.
  Results: `TypeCorrect`, `Transparency`, `HitsLeaveNoPatch`, `AllButOneArmed`,
  `PermanentKept`.
* `DebugBridgeProofs`.  The inductive invariant adds to the checked properties
  that commands before the iterator are done and the others are not
  (`IteratorIsFront`), that `done` counts executions (`Counted`), and what a verdict
  says of `done` (`Verdicts`).  Results: `TypeCorrect`, `PointersAreLive`, `VerdictsAreTrue`,
  `NotificationsArrive`, and `Refinement`: every step of the bridge is a step of
  `RequestService` or leaves its state alone.
  Its last part is about `GuestMutex`, and is the only one that uses
  `FreeAssumption`.  A client owns the mutex from the execution of the
  request that takes it to the execution of the one that gives it up, whatever the client
  knows of either (`Owns`); the word always names the owner (`WordIsOwner`), so there is
  one at most.  A client that is out owns nothing, even after a time-out, because a
  request that timed out was not made.  Results: `Exclusion`, `NeverLost`.
* `RWQueueProofs`, under `AsUsed`.  `NoLostWakeup` is not inductive alone: a
  chunk is fixed before the wait, and a thread would sleep on beside fewer items
  than its chunk.  It never does, since whoever goes to sleep found nothing, and
  the clamp made its chunk one item: `Places` says so, and which places each kind of
  thread can be in.  `IInv` further has that a queue with a producer inside a
  blocking call is not above its capacity (`Fits`), so that the unsigned difference
  does not wrap.  For the order, what was received, what is queued and what is left of
  the producer's batch are increasing parts, each below the next, and an action moves
  a cut between two of them.  One lemma per action.
  Results: `TypeCorrect`, `NoWakeupIsLost`, `CapacityIsKept`, `OrderIsKept`,
  `NoItemIsLost`, `Refinement`.
* `TriangleWorkersProofs`, for any number of workers and units.  `IInv` adds five
  facts.  Threads between the load and the fetch_add saw an index below the number
  of units, and each adds one at most (`ClaimsBounded`): this bounds the index.  A unit
  below the index was drawn, or exactly one thread is about to draw it; the others
  are untouched (`UnitsShared`).  `done_count` lacks as many units as there are threads
  that have one in hand (`DoneCounted`), hence when it is complete nobody has any
  (`QuietBetween`), which gives `NoDataRace` and the end of the job.  `WorkersStopped`
  is for starting and joining the threads.  A cardinality changes when one thread
  moves; `CountedWith` and the library's facts on finite sets do that part.
  Of `MainReturns`, the part that is not fairness: a sleeper will be notified.
  `WInv` says why the main thread sleeps (`MainWaits`) and on which index a worker
  may (`WorkersWait`): one that is not below the number of units.  A shutdown
  resets the index; each worker that has not seen that the threads are to end adds one
  at most, and there are more units than workers, so the index stays below what any
  worker waits on.  The constructor's assertion is needed here.
  Results: `TypeCorrect`, `NoRace`, `NoOverflow`, `Refinement`, `NoLostNotification`.
* `MixerThreadProofs`, for any sets of devices, block sizes and capacities.  The functions
  of the main thread are scripts, put together from operators that the model
  shares with the code.  The proof follows that structure.  A plan abstracts the state
  to what a script works on: which devices exist, are pointed to and have a channel, whose
  channels are off, whose queues were started, how often the mutex is held
  (`PlanStates`).  `Allowed` says when a step does no harm there, `After` where it
  leads, `Runs` that a whole script leads from one plan state to another, one
  allowed step after the other.  One lemma per operator
  (`LockMixerThread`, `Constructor`, `Destructor`, ...) gives where it leads, and
  the lemmas on functions compose them: each ends settled, with no lock held and a
  running queue for every device that plays.  The invariant `Planned` then has that
  what is left of the script is such a plan from the present state, so that one
  lemma per kind of step, not per script and place, shows it kept.
  `Restarted` and `Stopped` say how far the loop over the devices in a lock and an
  unlock has come, `Hold` when the mixer thread has the mutex, `Registered` that
  a channel is a device's.
  Results: `TypeCorrect`, `LiveDevices` (`OnlyLiveDevices`), `NormalAgain`
  (`BackToNormal`), `NoSoundIsLeftOut` (`NoGap`), and `LockStopsQueues`, the part of
  `LockGranted` that is not fairness: while the main thread waits for the mutex and the
  mixer thread has it, no queue that the mixer thread can wait for runs, except that of
  a PS/1 or Tandy DAC being destroyed.  The exception is the second finding.
* `InterruptControllerProofs`, for any lines in use and any modes allowed.  Each
  method gets two lemmas: it keeps a state good (typed, both kept facts true), and
  what it does to the lines in service.  `IInv` adds `ActiveIsFirst`: `active_irq` is the
  first line in service of a controller that is never in special mask mode, which the
  order of starts needs.  No line is kept from the devices; what `CpuIsTold` and `CascadeIsTrue`
  except, the two modes and a line 2 that a device has used, is part of the properties.
  Results: `TypeCorrect`, `CpuIsTold`, `CascadeIsTrue`, `PriorityKept`.
* `MidiSynthProofs`, for any sizes.  The mutex excludes the mixer thread's pass from
  the constructor and the destructor (`Excluded`).  A synthesizer's queues run until its
  destructor stops them (`Built`), so that a mixer thread that waits for frames has a
  renderer; and that renderer waits for a message only if it is backlogged, which only
  a Sound Canvas can be (`Awake`).  `WaitsHaveAnEnd` puts this together: a main thread that
  waits for the mutex waits for a mixer thread that needs no sample of it, that one for a
  renderer that does not sleep, and a renderer that is joined does not sleep.  The
  exception is the third finding; that the main thread may wait for room for a message is
  the cycle noted in section 5.
  Results: `TypeCorrect`, `NoUseAfterFree`, `NoCircle`.

Every invariant and every action property of the passing runs is a theorem, and so is
the safe part of each refinement.  Model-checked only is what needs
fairness, which TLAPS does not reach: `AllReturn`, `StopEndsCalls`, `MainReturns`,
`LockGranted`, `PullEnds`, `ShutsDown`, `CallbackReturns`, `LocksReturn`, `AudioArrives`,
and the fairness in `ImplementsService` and `ImplementsThreadQueue`.  `NoWakeupIsLost`,
`NotificationsArrive`, `NoLostNotification`, `LockStopsQueues` and `NoCircle` are about
what it rests on: nobody waits for something that cannot come.

## 5. Findings

Each of these has a run whose counterexample shows it.

* F9 on an armed breakpoint deletes it and leaves its 0xCC in guest memory
  (`claim_orphan_patch`).
* The PS/1 and Tandy DACs clear their pointer before they are locked, so their queue
  is not stopped: the main thread waits for the mutex, the mixer thread for
  samples (`claim_no_deadlock`).
* A Sound Canvas that met a message more than a second old waits for messages from
  then on and renders nothing until one comes.  When the music has ended, the mixer
  thread waits for its frames, with the mixer locked: no sound at all, and the next
  change of a sound setting hangs (`claim_fifo_populated`).
* `rwqueue.h:136-137` says that a bulk dequeue on a queue that was stopped before
  returns 0 and dequeues nothing.  The code drains the queue first, as its own comment
  says and `ThreadQueue` promises; the comment in the header is what disagrees
  (`claim_bulk_dequeue_stopped`).

Noted while reading, and no run refutes them:

* Two breakpoints at one address can each remember another byte, after the guest
  wrote there; the one disarmed last decides (`holes` covers it).
* Comments say that no once-only breakpoint is added where there is one
  (`debugger_keys.cpp:38`); other callers add one without looking.
* From an armed breakpoint, F5 executes the 0xCC and stops again.
* The comment at `debugger_keys.cpp:129` says SHIFT+F9 is for permanent
  breakpoints; the code makes once-only ones.
* `BPDEL *` deletes breakpoints that are still listed, and the next `Activate(false)`
  reads them (`breakpoint.cpp:214-220`, `258-266`).  With two armed breakpoints, which
  the pause key leaves behind, a 0xCC may stay in guest memory with nobody to take it
  away, or the program may end.
* A bulk enqueue notifies one consumer for many items, which is enough for the one
  consumer that each of the program's queues has (`AsUsed`), not for two.
* Muting may clear what the host's callback has just counted; it then waits for
  the next block (`CallbackReturns` bounds the wait).
* A reset of the Gravis UltraSound (`gus.cpp:1085`) disables its channel while the
  mixer thread may be waiting for its samples: all sound stops until the guest uses the
  card again or somebody locks the mixer.  `PullEnds` therefore says that a pull ends or
  the card's channel is disabled.
* When a synthesizer's work queue is full, the main thread waits for the renderer, the
  renderer for the mixer thread, and the mixer thread may wait for another device's
  samples, which the main thread makes.  The model has this cycle with its two
  messages; the program needs 10410 that are not yet rendered, so no property
  excludes it.
* `PIC_runIRQs` clears `PIC_IRQCheck` after it has started one interrupt.  In special mask
  and in auto-EOI mode another may be ready, and the CPU is told of it only by the next
  change of a register.  `Signalled` and `CascadeFollows` name the two exceptions.
* A device on line 2 (`imfc_irq = 2`, mixer register 0x80 of a Sound Blaster) requests
  what only the secondary controller can serve.  With nothing to deliver there,
  `secondary_startIRQ` logs an error and starts nothing (`pic.cpp:370-372`),
  `PIC_runIRQs` clears `PIC_IRQCheck` all the same, and the request stays: the device
  gets no interrupt, and lines 3 to 7 wait while line 2 comes before them.
* In single mode without a fourth word, the controller still waits for one
  (`pic.cpp:271-272`): the next mask that the guest writes is taken for it.
  `NextIndex` has it so.
* A specific end of interrupt with the rotate bit shifts by more than an `int` has bits
  (`pic.cpp:236`); the code reports that mode as unsupported, the model has no rotation.

## 6. Plan

1. (done) Breakpoints; bridge and mutex; thread queue; mixer and its devices; MIDI
   synthesizers; triangle workers; interrupt controllers.
2. `ImageSavers` and `CdReader` over `ThreadQueue`.
3. `DebuggerControl`: loop pointer and flags, nested `DOSBOX_RunMachine`; stops
   reach `DEBUG_Loop`; composed with `Breakpoints` and with `DebugBridge`
   (requests are answered only while the guest runs).
4. `EventQueue`: the list of 512 events in `pic.cpp`, its handlers that add and remove
   events, and the tick handlers.
5. `ViewHistory`: the ring of 64 visited addresses against a list; `DosMemory`: the MCB
   chain behind the allocation requests; `PageAllocator`.
6. Proofs: (done) the mixer; the safe parts of `LockGranted`, `MainReturns`, `LocksReturn`
   and `AudioArrives`.  Next, those of `ShutsDown` and `CallbackReturns`.

Not modelled, and not planned: decoders, renderers, the emulation of single devices, the
vendored libraries in `libs/` - large, mostly sequential, and without a
specification in the repository to hold them against; file and network I/O.
