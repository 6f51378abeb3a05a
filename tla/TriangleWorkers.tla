-------------------------- MODULE TriangleWorkers --------------------------
(***************************************************************************)
(* The threads that draw the triangles of the emulated Voodoo card         *)
(* (struct triangle_worker in src/src/hardware/video/voodoo.cpp).  The     *)
(* main thread prepares a triangle, cuts it into num_work_units units, and *)
(* draws them together with the workers; everybody takes the next unit     *)
(* from the counter work_index and reports it in done_count.               *)
(*                                                                         *)
(* Each access to an atomic variable is an action.  A wait compares and    *)
(* goes to sleep in one step, and compares again whenever it is notified,  *)
(* or for no reason, as C++20 defines it.                                  *)
(***************************************************************************)
EXTENDS Integers, FiniteSets

CONSTANTS
  Main,            \* the main thread
  Workers,         \* threads: the workers; num_threads is their number
  num_work_units,
  INT_MAX

\* the assertion of the constructor, and an int that is wide enough
ASSUME WorkersAssumption ==
  /\ IsFiniteSet(Workers) /\ Main \notin Workers
  /\ num_work_units \in Nat /\ num_work_units > Cardinality(Workers)
  /\ INT_MAX \in Nat /\ INT_MAX > num_work_units + Cardinality(Workers)

VARIABLES
  threads_active, work_index, done_count,
  pc,     \* where each thread is
  i,      \* i[t]: the variable i of the function that t is in
  drawn   \* history: how often each unit was drawn, for the present triangle

vars == <<threads_active, work_index, done_count, pc, i, drawn>>

Threads == Workers \cup {Main}
Units == 0 .. num_work_units - 1

\* in do_triangle_work: before the load, before the fetch_add, drawing, before
\* the fetch_add on done_count, before its notify_all
WorkPlaces == {"load", "claim", "draw", "count", "notify"}

\* "none": not started, or ended
WorkerPlaces == WorkPlaces \cup {"none", "test", "wait", "asleep"}

\* "idle" and "gone": outside, with and without a card; "fill": writing the
\* vertices and the other fields that the units are drawn from
MainPlaces == WorkPlaces \cup
  {"idle", "fill", "spawn", "reset_done", "reset_index", "notify_work",
   "check_done", "wait", "asleep", "stop_index", "stop_notify", "join", "gone"}

Stopping == {"stop_index", "stop_notify", "join", "gone"}

TypeOK ==
  /\ threads_active \in BOOLEAN
  /\ work_index \in 0 .. INT_MAX
  /\ done_count \in Nat
  /\ pc[Main] \notin Stopping => done_count <= num_work_units
  /\ pc \in [Threads -> WorkerPlaces \cup MainPlaces]
  /\ pc[Main] \in MainPlaces
  /\ \A w \in Workers : pc[w] \in WorkerPlaces
  /\ i \in [Threads -> 0 .. INT_MAX]
  /\ drawn \in [Units -> Nat]

Goto(t, place) == pc' = [pc EXCEPT ![t] = place]

\* the increment of an atomic int, which wraps around
Successor(n) == IF n = INT_MAX THEN -INT_MAX - 1 ELSE n + 1

\* whoever waits compares again
Woken(S) == [t \in Threads |-> IF t \in S /\ pc[t] = "asleep" THEN "wait" ELSE pc[t]]

----------------------------------------------------------------------------
(* do_triangle_work, by any thread.                                        *)

\* Mutant: the main thread does not wait for the others.
AfterEager(t, r) ==
  IF t = Main
  THEN IF r < num_work_units THEN "load" ELSE "idle"
  ELSE IF r < num_work_units THEN "test" ELSE "wait"

\* where t goes on when the call has returned r: a worker waits for the next
\* triangle, the main thread for the others
After(t, r) ==
  IF t = Main
  THEN IF r < num_work_units THEN "load" ELSE "check_done"
  ELSE IF r < num_work_units THEN "test" ELSE "wait"

\* Mutant: the load that guards the fetch_add is saved.
ClaimUnseen(t) ==
  /\ pc[t] = "load"
  /\ Goto(t, "claim")
  /\ UNCHANGED <<threads_active, work_index, done_count, i, drawn>>

Load(t) ==
  /\ pc[t] = "load"
  /\ IF work_index >= num_work_units
     THEN /\ i' = [i EXCEPT ![t] = work_index]
          /\ Goto(t, After(t, work_index))
     ELSE /\ Goto(t, "claim")
          /\ UNCHANGED i
  /\ UNCHANGED <<threads_active, work_index, done_count, drawn>>

Claim(t) ==
  /\ pc[t] = "claim"
  /\ work_index' = Successor(work_index)
  /\ IF work_index < num_work_units
     THEN /\ i' = [i EXCEPT ![t] = work_index]
          /\ Goto(t, "draw")
     ELSE /\ i' = [i EXCEPT ![t] = Successor(work_index)]
          /\ Goto(t, After(t, Successor(work_index)))
  /\ UNCHANGED <<threads_active, done_count, drawn>>

\* triangle_worker_work(tworker, i, i + 1)
Draw(t) ==
  /\ pc[t] = "draw"
  /\ drawn' = [drawn EXCEPT ![i[t]] = @ + 1]
  /\ Goto(t, "count")
  /\ UNCHANGED <<threads_active, work_index, done_count, i>>

\* Mutant: nobody is told that the last unit is done.
CountQuietly(t) ==
  /\ pc[t] = "count"
  /\ done_count' = done_count + 1
  /\ i' = [i EXCEPT ![t] = @ + 1]
  /\ Goto(t, After(t, i[t] + 1))
  /\ UNCHANGED <<threads_active, work_index, drawn>>

Count(t) ==
  /\ pc[t] = "count"
  /\ done_count' = done_count + 1
  /\ i' = [i EXCEPT ![t] = @ + 1]
  /\ Goto(t, IF done_count + 1 >= num_work_units THEN "notify" ELSE After(t, i[t] + 1))
  /\ UNCHANGED <<threads_active, work_index, drawn>>

\* done_count.notify_all()
NotifyDone(t) ==
  /\ pc[t] = "notify"
  /\ pc' = [Woken({Main}) EXCEPT ![t] = After(t, i[t])]
  /\ UNCHANGED <<threads_active, work_index, done_count, i, drawn>>

DoTriangleWork(t) == Load(t) \/ Claim(t) \/ Draw(t) \/ Count(t) \/ NotifyDone(t)

----------------------------------------------------------------------------
(* triangle_worker_thread_func.                                            *)

Test(w) ==
  /\ pc[w] = "test"
  /\ Goto(w, IF threads_active THEN "load" ELSE "none")
  /\ UNCHANGED <<threads_active, work_index, done_count, i, drawn>>

\* work_index.wait(i)
WaitForWork(w) ==
  /\ pc[w] = "wait"
  /\ Goto(w, IF work_index = i[w] THEN "asleep" ELSE "test")
  /\ UNCHANGED <<threads_active, work_index, done_count, i, drawn>>

WorkerStep(w) == DoTriangleWork(w) \/ Test(w) \/ WaitForWork(w)

----------------------------------------------------------------------------
(* triangle and triangle_worker_run.                                       *)

Triangle ==
  /\ pc[Main] = "idle"
  /\ Goto(Main, "fill")
  /\ drawn' = [u \in Units |-> 0]
  /\ UNCHANGED <<threads_active, work_index, done_count, i>>

\* There are no workers, or the triangle has few pixels.
DrawAlone ==
  /\ pc[Main] = "fill"
  /\ drawn' = [u \in Units |-> drawn[u] + 1]
  /\ Goto(Main, "idle")
  /\ UNCHANGED <<threads_active, work_index, done_count, i>>

\* The threads are started with the first large triangle.
DrawTogether ==
  /\ pc[Main] = "fill" /\ Workers # {}
  /\ threads_active' = TRUE
  /\ Goto(Main, IF threads_active THEN "reset_done" ELSE "spawn")
  /\ UNCHANGED <<work_index, done_count, i, drawn>>

Spawn(w) ==
  /\ pc[Main] = "spawn" /\ pc[w] = "none"
  /\ Goto(w, "test")
  /\ UNCHANGED <<threads_active, work_index, done_count, i, drawn>>

Spawned ==
  /\ pc[Main] = "spawn"
  /\ \A w \in Workers : pc[w] # "none"
  /\ Goto(Main, "reset_done")
  /\ UNCHANGED <<threads_active, work_index, done_count, i, drawn>>

\* Mutant: the counter is not reset.
KeepDone ==
  /\ pc[Main] = "reset_done"
  /\ Goto(Main, "reset_index")
  /\ UNCHANGED <<threads_active, work_index, done_count, i, drawn>>

ResetDone ==
  /\ pc[Main] = "reset_done"
  /\ done_count' = 0
  /\ Goto(Main, "reset_index")
  /\ UNCHANGED <<threads_active, work_index, i, drawn>>

ResetIndex ==
  /\ pc[Main] = "reset_index"
  /\ work_index' = 0
  /\ Goto(Main, "notify_work")
  /\ UNCHANGED <<threads_active, done_count, i, drawn>>

\* work_index.notify_all(), in triangle_worker_run and triangle_worker_shutdown
NotifyWork ==
  /\ pc[Main] \in {"notify_work", "stop_notify"}
  /\ pc' = [Woken(Workers) EXCEPT
              ![Main] = IF pc[Main] = "notify_work" THEN "load" ELSE "join"]
  /\ UNCHANGED <<threads_active, work_index, done_count, i, drawn>>

\* Mutant: one unit too few is waited for.
CheckDoneShort ==
  /\ pc[Main] = "check_done"
  /\ i' = [i EXCEPT ![Main] = done_count]
  /\ Goto(Main, IF done_count < num_work_units - 1 THEN "wait" ELSE "idle")
  /\ UNCHANGED <<threads_active, work_index, done_count, drawn>>

CheckDone ==
  /\ pc[Main] = "check_done"
  /\ i' = [i EXCEPT ![Main] = done_count]
  /\ Goto(Main, IF done_count < num_work_units THEN "wait" ELSE "idle")
  /\ UNCHANGED <<threads_active, work_index, done_count, drawn>>

\* done_count.wait(i)
WaitForDone ==
  /\ pc[Main] = "wait"
  /\ Goto(Main, IF done_count = i[Main] THEN "asleep" ELSE "check_done")
  /\ UNCHANGED <<threads_active, work_index, done_count, i, drawn>>

----------------------------------------------------------------------------
(* voodoo_shutdown and Voodoo_Startup.                                     *)

Shutdown ==
  /\ pc[Main] = "idle"
  /\ threads_active' = FALSE
  /\ Goto(Main, IF threads_active THEN "stop_index" ELSE "gone")
  /\ UNCHANGED <<work_index, done_count, i, drawn>>

\* This wakes the workers up; one that has not seen threads_active may draw.
StopIndex ==
  /\ pc[Main] = "stop_index"
  /\ work_index' = 0
  /\ Goto(Main, "stop_notify")
  /\ UNCHANGED <<threads_active, done_count, i, drawn>>

Join ==
  /\ pc[Main] = "join"
  /\ \A w \in Workers : pc[w] = "none"
  /\ Goto(Main, "gone")
  /\ UNCHANGED <<threads_active, work_index, done_count, i, drawn>>

Startup ==
  /\ pc[Main] = "gone"
  /\ work_index' = INT_MAX /\ done_count' = 0
  /\ drawn' = [u \in Units |-> 0]
  /\ Goto(Main, "idle")
  /\ UNCHANGED <<threads_active, i>>

----------------------------------------------------------------------------
Init ==
  /\ threads_active = FALSE
  /\ work_index = INT_MAX /\ done_count = 0
  /\ pc = [t \in Threads |-> IF t = Main THEN "idle" ELSE "none"]
  /\ i = [t \in Threads |-> INT_MAX]
  /\ drawn = [u \in Units |-> 0]

\* what the main thread does once it has begun
MainStep ==
  \/ DoTriangleWork(Main)
  \/ DrawAlone \/ DrawTogether \/ (\E w \in Workers : Spawn(w)) \/ Spawned
  \/ ResetDone \/ ResetIndex \/ NotifyWork \/ CheckDone \/ WaitForDone
  \/ StopIndex \/ Join

SpuriousWake(t) ==
  /\ pc[t] = "asleep"
  /\ Goto(t, "wait")
  /\ UNCHANGED <<threads_active, work_index, done_count, i, drawn>>

Next ==
  \/ MainStep \/ Triangle \/ Shutdown \/ Startup
  \/ \E w \in Workers : WorkerStep(w)
  \/ \E t \in Threads : SpuriousWake(t)

Spec == Init /\ [][Next]_vars

\* The host schedules every thread that can run; no wait has to end without a
\* notification.
FairSpec ==
  /\ Spec
  /\ WF_vars(MainStep)
  /\ \A w \in Workers : WF_vars(WorkerStep(w))

----------------------------------------------------------------------------
(* Properties.                                                             *)

\* No worker is still drawing when the main thread writes the vertices of the
\* next triangle, or when it frees them: they are not atomic.
NoDataRace ==
  \A w \in Workers : pc[w] = "draw" => pc[Main] \notin {"fill", "gone"}

\* "this should ensure we don't overflow the index, with the fetch_add below"
\* (do_triangle_work): late workers add no more than one each.
IndexDoesNotOverflow ==
  \A t \in Threads :
    pc[t] = "claim" => work_index <= num_work_units + Cardinality(Workers)

\* A triangle gets drawn, and the card can always be shut down: nobody misses a
\* notification, also if the counters have the values they had before.
MainReturns == pc[Main] \notin {"idle", "gone"} ~> pc[Main] \in {"idle", "gone"}

Phase == CASE pc[Main] = "idle" -> "ready"
           [] pc[Main] \in Stopping -> "off"
           [] OTHER -> "drawing"

Times == IF pc[Main] \in Stopping THEN [u \in Units |-> 0] ELSE drawn

Job == INSTANCE TriangleJob WITH phase <- Phase, times <- Times

\* Until the card is shut down, each unit of each triangle is drawn once, and
\* all are drawn when triangle_worker_run returns.
ImplementsJob == Job!JSafe
============================================================================
