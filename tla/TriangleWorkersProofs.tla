----------------------- MODULE TriangleWorkersProofs -----------------------
(***************************************************************************)
(* Proofs about TriangleWorkers, for any number of workers and of units:   *)
(* no data race, no overflow of the index, each unit drawn once.           *)
(***************************************************************************)
EXTENDS TriangleWorkers, FiniteSetTheorems, TLAPS

----------------------------------------------------------------------------
(* The inductive invariant.                                                *)

Claiming == {t \in Threads : pc[t] = "claim"}

Busy == {t \in Threads : pc[t] \in {"draw", "count"}}

\* The main thread is between two triangles, or prepares one.
Preparing == {"fill", "spawn", "reset_done", "reset_index"}
Quiet == Preparing \cup {"idle"}

\* It is in triangle_worker_run, after the reset of the index.
Running == WorkPlaces \cup {"notify_work", "check_done", "wait", "asleep"}

Taken == IF work_index < num_work_units THEN work_index ELSE num_work_units

\* Threads between the load and the fetch_add saw an index below
\* num_work_units; each adds one at most.
ClaimsBounded ==
  Claiming # {} =>
    work_index + Cardinality(Claiming) <= num_work_units + Cardinality(Workers)

\* Workers run only while they may, or until they are joined.
WorkersStopped ==
  /\ pc[Main] \in Stopping => ~threads_active
  /\ pc[Main] = "spawn" => threads_active
  /\ pc[Main] = "gone" \/ (pc[Main] \notin Stopping /\ ~threads_active) =>
       \A w \in Workers : pc[w] = "none"

\* Between two triangles there is nothing to draw.
QuietBetween ==
  /\ pc[Main] \in Quiet => Busy = {} /\ work_index >= num_work_units
  /\ pc[Main] \in Preparing => drawn = [u \in Units |-> 0]
  /\ pc[Main] = "reset_index" => done_count = 0

\* A unit below the index was drawn, or one thread is about to draw it; the
\* others are untouched.
UnitsShared ==
  pc[Main] \in Running =>
    /\ \A t \in Busy :
         /\ i[t] < work_index
         /\ drawn[i[t]] = IF pc[t] = "draw" THEN 0 ELSE 1
    /\ \A t, u \in Busy : i[t] = i[u] => t = u
    /\ \A u \in Units :
         IF u < work_index
         THEN drawn[u] = 1 \/ \E t \in Busy : pc[t] = "draw" /\ i[t] = u
         ELSE drawn[u] = 0

\* done_count lacks the units whose threads have not reported yet.
DoneCounted ==
  pc[Main] \in Running => done_count + Cardinality(Busy) = Taken

IInv ==
  /\ TypeOK
  /\ \A t \in Busy : i[t] \in Units
  /\ ClaimsBounded
  /\ WorkersStopped
  /\ QuietBetween
  /\ UnitsShared
  /\ DoneCounted

----------------------------------------------------------------------------
(* Counting threads.                                                       *)

LEMMA ThreadsFinite ==
  /\ IsFiniteSet(Threads)
  /\ Cardinality(Threads) = Cardinality(Workers) + 1
  /\ Cardinality(Workers) \in Nat
BY WorkersAssumption, FS_AddElement, FS_CardinalityType DEF Threads

LEMMA Counted ==
  ASSUME NEW S \in SUBSET Threads
  PROVE  /\ IsFiniteSet(S) /\ Cardinality(S) \in Nat
         /\ Cardinality(S) <= Cardinality(Workers) + 1
         /\ Cardinality(S) = 0 <=> S = {}
BY ThreadsFinite, FS_Subset, FS_CardinalityType, FS_EmptySet

LEMMA CountedWith ==
  ASSUME NEW S \in SUBSET Threads, NEW t \in Threads
  PROVE  /\ t \notin S => Cardinality(S \cup {t}) = Cardinality(S) + 1
         /\ t \in S => Cardinality(S \ {t}) = Cardinality(S) - 1
BY Counted, FS_AddElement, FS_RemoveElement

\* What a step of one thread does to the two sets of threads.
LEMMA Moved ==
  ASSUME TypeOK, NEW t \in Threads, NEW p, pc' = [pc EXCEPT ![t] = p]
  PROVE  /\ pc'[t] = p
         /\ \A u \in Threads : u # t => pc'[u] = pc[u]
         /\ Claiming' = IF p = "claim" THEN Claiming \cup {t} ELSE Claiming \ {t}
         /\ Busy' = IF p \in {"draw", "count"} THEN Busy \cup {t} ELSE Busy \ {t}
BY DEF TypeOK, Claiming, Busy

\* Waking threads up changes neither.
LEMMA MovedAndWoken ==
  ASSUME TypeOK, NEW t \in Threads, NEW p, p \notin {"claim", "draw", "count"},
         pc[t] \notin {"claim", "draw", "count"},
         NEW S \in SUBSET Threads, pc' = [Woken(S) EXCEPT ![t] = p]
  PROVE  /\ pc'[t] = p
         /\ \A u \in Threads : u # t =>
              pc'[u] = pc[u] \/ (u \in S /\ pc[u] = "asleep" /\ pc'[u] = "wait")
         /\ Claiming' = Claiming /\ Busy' = Busy
BY DEF TypeOK, Claiming, Busy, Woken

----------------------------------------------------------------------------
(* do_triangle_work.                                                       *)

\* A thread that calls it is a worker, or the main thread in
\* triangle_worker_run.
LEMMA Callers ==
  ASSUME TypeOK, NEW t \in Threads, pc[t] \in WorkPlaces
  PROVE  t # Main \/ pc[Main] \in Running
BY DEF Running

\* A step that only moves threads, none of them from or to a place where it has
\* claimed a unit or is about to, and the main thread not into another phase.
LEMMA OnlyMoves ==
  ASSUME IInv, TypeOK', WorkersStopped',
         UNCHANGED <<work_index, done_count, drawn>>,
         Claiming' = Claiming, Busy' = Busy,
         \A t \in Busy : i'[t] = i[t] /\ pc'[t] = pc[t],
         pc'[Main] \in Running => pc[Main] \in Running,
         pc'[Main] \in Quiet => pc[Main] \in Quiet,
         pc'[Main] \in Preparing => pc[Main] \in Preparing,
         pc'[Main] = "reset_index" => pc[Main] = "reset_index"
  PROVE  IInv'
<1> USE DEF IInv
<1>1. ClaimsBounded'
  BY DEF ClaimsBounded
<1>2. QuietBetween'
  BY DEF QuietBetween
<1>3. UnitsShared'
  BY DEF UnitsShared
<1>4. DoneCounted'
  BY DEF DoneCounted, Taken
<1> QED
  BY <1>1, <1>2, <1>3, <1>4

LEMMA LoadStep ==
  ASSUME IInv, NEW t \in Threads, Load(t)
  PROVE  IInv'
<1> USE DEF IInv
<1>a. num_work_units \in Nat /\ INT_MAX \in Nat /\ work_index \in Nat /\ Main \notin Workers
  BY WorkersAssumption DEF TypeOK
<1>1. CASE work_index >= num_work_units
  <2>1. PICK p : p = After(t, work_index)
    OBVIOUS
  <2>2. pc' = [pc EXCEPT ![t] = p] /\ i' = [i EXCEPT ![t] = work_index]
    BY <1>1, <2>1 DEF Load, Goto
  <2>3. p = IF t = Main THEN "check_done" ELSE "wait"
    BY <1>1, <1>a, <2>1 DEF After
  <2>4. UNCHANGED <<threads_active, work_index, done_count, drawn>>
    BY DEF Load
  <2>5. Claiming' = Claiming /\ Busy' = Busy /\ t \notin Busy
    BY <2>2, <2>3, Moved DEF Load, Claiming, Busy
  <2>6. \A u \in Busy : i'[u] = i[u] /\ pc'[u] = pc[u]
    BY <2>2, <2>5 DEF Busy, TypeOK
  <2>7. t # Main => pc'[Main] = pc[Main]
    BY <2>2 DEF TypeOK, Threads
  <2>8. t = Main => pc'[Main] = "check_done" /\ pc[Main] = "load"
    BY <2>2, <2>3 DEF TypeOK, Threads, Load
  <2>9. TypeOK'
    BY <1>a, <2>2, <2>3, <2>4, <2>7, <2>8
    DEF TypeOK, WorkPlaces, WorkerPlaces, MainPlaces, Stopping, Threads
  <2>10. WorkersStopped'
    BY <2>2, <2>3, <2>4, <2>7, <2>8 DEF WorkersStopped, Stopping, TypeOK, Threads, Load
  <2> QED
    BY <2>4, <2>5, <2>6, <2>7, <2>8, <2>9, <2>10, OnlyMoves
    DEF Running, WorkPlaces, Quiet, Preparing
<1>2. CASE ~(work_index >= num_work_units)
  <2>1. pc' = [pc EXCEPT ![t] = "claim"] /\ pc[t] = "load"
    BY <1>2 DEF Load, Goto
  <2>2. UNCHANGED <<threads_active, work_index, done_count, i, drawn>>
    BY <1>2 DEF Load
  <2>3. Claiming' = Claiming \cup {t} /\ Busy' = Busy /\ t \notin Busy
    BY <2>1, Moved DEF Busy
  <2>4. pc'[Main] \in Running <=> pc[Main] \in Running
    BY <2>1 DEF Running, WorkPlaces, TypeOK, Threads
  <2>5. \A u \in Busy : pc'[u] = pc[u]
    BY <2>1, <2>3 DEF Busy, TypeOK
  <2>6. t # Main => pc'[Main] = pc[Main]
    BY <2>1 DEF TypeOK, Threads
  <2>7. t = Main => pc'[Main] = "claim" /\ pc[Main] = "load"
    BY <2>1 DEF TypeOK, Threads
  <2>8. TypeOK'
    BY <2>1, <2>2, <2>6, <2>7
    DEF TypeOK, WorkPlaces, WorkerPlaces, MainPlaces, Stopping, Threads
  <2>9. ClaimsBounded'
    <3>1. Claiming' \in SUBSET Threads
      BY <2>3 DEF Claiming
    <3>2. /\ Cardinality(Claiming') \in Nat
          /\ Cardinality(Claiming') <= Cardinality(Workers) + 1
      BY <3>1, Counted
    <3> QED
      BY <1>2, <1>a, <2>2, <3>2, ThreadsFinite DEF ClaimsBounded
  <2>10. WorkersStopped'
    BY <2>1, <2>2, <2>6, <2>7 DEF WorkersStopped, Stopping, TypeOK, Threads
  <2>11. QuietBetween'
    BY <1>2, <2>2, <2>3, <2>6, <2>7 DEF QuietBetween, Quiet, Preparing
  <2>12. UnitsShared'
    BY <2>2, <2>3, <2>4, <2>5 DEF UnitsShared
  <2>13. DoneCounted'
    BY <2>2, <2>3, <2>4 DEF DoneCounted, Taken
  <2> QED
    BY <2>2, <2>3, <2>8, <2>9, <2>10, <2>11, <2>12, <2>13
<1> QED
  BY <1>1, <1>2

LEMMA ClaimStep ==
  ASSUME IInv, NEW t \in Threads, Claim(t)
  PROVE  IInv'
<1> USE DEF IInv
<1> DEFINE n == Cardinality(Workers)
<1>a. /\ num_work_units \in Nat /\ INT_MAX \in Nat /\ work_index \in Nat
      /\ Main \notin Workers /\ n \in Nat /\ INT_MAX > num_work_units + n
  BY WorkersAssumption, ThreadsFinite DEF TypeOK
<1>b. t \in Claiming /\ t \notin Busy /\ pc[t] = "claim"
  BY DEF Claim, Claiming, Busy
<1>1. PICK m \in Nat : m = Cardinality(Claiming \ {t}) /\ Cardinality(Claiming) = m + 1
  <2>1. Claiming \in SUBSET Threads /\ Claiming \ {t} \in SUBSET Threads
    BY DEF Claiming
  <2> QED
    BY <1>b, <2>1, Counted, CountedWith
<1>2. work_index + m + 1 <= num_work_units + n
  BY <1>a, <1>b, <1>1 DEF ClaimsBounded
<1>3. work_index' = work_index + 1 /\ UNCHANGED <<threads_active, done_count, drawn>>
  <2>1. work_index # INT_MAX
    BY <1>a, <1>1, <1>2
  <2> QED
    BY <2>1 DEF Claim, Successor
<1> HIDE DEF n
<1>4. CASE work_index < num_work_units
  <2>1. pc' = [pc EXCEPT ![t] = "draw"] /\ i' = [i EXCEPT ![t] = work_index]
    BY <1>4 DEF Claim, Goto
  <2>2. Claiming' = Claiming \ {t} /\ Busy' = Busy \cup {t}
    BY <2>1, Moved
  <2>3. \A u \in Busy : u # t /\ i'[u] = i[u] /\ pc'[u] = pc[u]
    BY <1>b, <2>1 DEF Busy, TypeOK
  <2>4. i'[t] = work_index /\ pc'[t] = "draw"
    BY <2>1 DEF TypeOK
  <2>5. t # Main => pc'[Main] = pc[Main]
    BY <2>1 DEF TypeOK, Threads
  <2>6. t = Main => pc'[Main] = "draw" /\ pc[Main] = "claim"
    BY <1>b, <2>4
  <2>7. TypeOK'
    BY <1>a, <1>2, <1>1, <1>3, <2>1, <2>5, <2>6
    DEF TypeOK, WorkPlaces, WorkerPlaces, MainPlaces, Stopping, Threads
  <2>8. \A u \in Busy' : i'[u] \in Units'
    BY <1>a, <1>4, <2>2, <2>3, <2>4 DEF Units
  <2>9. ClaimsBounded'
    BY <1>a, <1>1, <1>2, <1>3, <2>2 DEF ClaimsBounded, n
  <2>10. WorkersStopped'
    BY <1>b, <1>3, <2>1, <2>5, <2>6 DEF WorkersStopped, Stopping, TypeOK, Threads
  <2>11. QuietBetween'
    BY <1>a, <1>4, <1>3, <2>5, <2>6 DEF QuietBetween, Quiet, Preparing
  <2>12. pc'[Main] \in Running => pc[Main] \in Running
    BY <2>5, <2>6 DEF Running, WorkPlaces
  <2>13. UnitsShared'
    <3> SUFFICES ASSUME pc'[Main] \in Running
                 PROVE  UnitsShared'
      BY DEF UnitsShared
    <3> USE <2>12
    <3>1. /\ \A u \in Busy : i[u] < work_index
                             /\ drawn[i[u]] = IF pc[u] = "draw" THEN 0 ELSE 1
          /\ \A u, w \in Busy : i[u] = i[w] => u = w
          /\ \A u \in Units :
               IF u < work_index
               THEN drawn[u] = 1 \/ \E w \in Busy : pc[w] = "draw" /\ i[w] = u
               ELSE drawn[u] = 0
      BY DEF UnitsShared
    <3>2. \A u \in Busy : i[u] \in Nat
      BY <1>a DEF Units
    <3>3. work_index \in Units /\ drawn[work_index] = 0
      BY <1>a, <1>4, <3>1 DEF Units
    <3>4. \A u \in Busy' : i'[u] < work_index'
                           /\ drawn'[i'[u]] = IF pc'[u] = "draw" THEN 0 ELSE 1
      BY <1>a, <1>3, <2>2, <2>3, <2>4, <3>1, <3>2, <3>3
    <3>5. \A u, w \in Busy' : i'[u] = i'[w] => u = w
      BY <1>a, <2>2, <2>3, <2>4, <3>1, <3>2
    <3>6. ASSUME NEW u \in Units
          PROVE  IF u < work_index'
                 THEN drawn'[u] = 1 \/ \E w \in Busy' : pc'[w] = "draw" /\ i'[w] = u
                 ELSE drawn'[u] = 0
      <4>1. u \in Nat
        BY <1>a DEF Units
      <4>2. CASE u = work_index
        BY <1>a, <1>3, <2>2, <2>4, <4>2
      <4>3. CASE u < work_index
        BY <1>a, <1>3, <2>2, <2>3, <3>1, <4>1, <4>3
      <4>4. CASE u > work_index
        BY <1>a, <1>3, <3>1, <4>1, <4>4
      <4> QED
        BY <1>a, <4>1, <4>2, <4>3, <4>4
    <3> QED
      BY <3>4, <3>5, <3>6 DEF UnitsShared, Units
  <2>14. DoneCounted'
    <3>1. Cardinality(Busy \cup {t}) = Cardinality(Busy) + 1 /\ Cardinality(Busy) \in Nat
      BY <1>b, Counted, CountedWith DEF Busy
    <3> QED
      BY <1>a, <1>3, <1>4, <2>2, <2>12, <3>1 DEF DoneCounted, Taken, TypeOK
  <2> QED
    BY <2>7, <2>8, <2>9, <2>10, <2>11, <2>13, <2>14
<1>5. CASE ~(work_index < num_work_units)
  <2>1. PICK p : p = After(t, work_index + 1)
    OBVIOUS
  <2>2. pc' = [pc EXCEPT ![t] = p] /\ i' = [i EXCEPT ![t] = work_index + 1]
    BY <1>3, <1>5, <2>1 DEF Claim, Goto
  <2>3. p = IF t = Main THEN "check_done" ELSE "wait"
    BY <1>5, <1>a, <2>1 DEF After
  <2>4. Claiming' = Claiming \ {t} /\ Busy' = Busy
    <3>1. p \notin {"claim", "draw", "count"}
      BY <2>3
    <3>2. Claiming' = Claiming \ {t} /\ Busy' = Busy \ {t}
      BY <2>2, <3>1, Moved
    <3> QED
      BY <1>b, <3>2
  <2>5. \A u \in Busy : i'[u] = i[u] /\ pc'[u] = pc[u]
    BY <1>b, <2>2 DEF Busy, TypeOK
  <2>6. t # Main => pc'[Main] = pc[Main]
    BY <2>2 DEF TypeOK, Threads
  <2>7. t = Main => pc'[Main] = "check_done" /\ pc[Main] = "claim"
    BY <1>b, <2>2, <2>3 DEF TypeOK
  <2>8. TypeOK'
    BY <1>a, <1>1, <1>2, <1>3, <2>2, <2>3, <2>6, <2>7
    DEF TypeOK, WorkPlaces, WorkerPlaces, MainPlaces, Stopping, Threads
  <2>9. ClaimsBounded'
    BY <1>a, <1>1, <1>2, <1>3, <2>4 DEF ClaimsBounded, n
  <2>10. WorkersStopped'
    BY <1>b, <1>3, <2>2, <2>3, <2>6, <2>7 DEF WorkersStopped, Stopping, TypeOK, Threads
  <2>11. QuietBetween'
    BY <1>a, <1>5, <1>3, <2>4, <2>6, <2>7 DEF QuietBetween, Quiet, Preparing
  <2>12. pc'[Main] \in Running => pc[Main] \in Running
    BY <2>6, <2>7 DEF Running, WorkPlaces
  <2>13. UnitsShared'
    <3>1. \A u \in Units : u < work_index /\ u < work_index'
      BY <1>a, <1>3, <1>5 DEF Units
    <3>2. \A u \in Busy : i[u] < work_index'
      BY <3>1
    <3> QED
      BY <1>3, <2>4, <2>5, <2>12, <3>1, <3>2 DEF UnitsShared, Units
  <2>14. DoneCounted'
    BY <1>a, <1>3, <1>5, <2>4, <2>12 DEF DoneCounted, Taken
  <2> QED
    BY <2>4, <2>5, <2>8, <2>9, <2>10, <2>11, <2>13, <2>14 DEF Units
<1> QED
  BY <1>4, <1>5

LEMMA DrawStep ==
  ASSUME IInv, NEW t \in Threads, Draw(t)
  PROVE  IInv'
<1> USE DEF IInv
<1>a. num_work_units \in Nat /\ work_index \in Nat /\ Main \notin Workers
  BY WorkersAssumption DEF TypeOK
<1>1. /\ pc[t] = "draw" /\ t \in Busy /\ i[t] \in Units
      /\ pc' = [pc EXCEPT ![t] = "count"]
      /\ drawn' = [drawn EXCEPT ![i[t]] = @ + 1]
      /\ UNCHANGED <<threads_active, work_index, done_count, i>>
  BY DEF Draw, Goto, Busy
<1>2. Claiming' = Claiming /\ Busy' = Busy
  <2>1. Claiming' = Claiming \ {t} /\ Busy' = Busy \cup {t}
    BY <1>1, Moved
  <2> QED
    BY <1>1, <2>1 DEF Claiming
<1>3. pc'[t] = "count" /\ \A u \in Threads : u # t => pc'[u] = pc[u]
  BY <1>1, Moved
<1>4. t # Main => pc'[Main] = pc[Main]
  BY <1>3 DEF Threads
<1>5. t = Main => pc'[Main] = "count" /\ pc[Main] = "draw"
  BY <1>1, <1>3
<1>6. TypeOK'
  BY <1>1, <1>4, <1>5 DEF TypeOK, WorkPlaces, WorkerPlaces, MainPlaces, Stopping, Threads
<1>7. ClaimsBounded' /\ DoneCounted'
  BY <1>1, <1>2, <1>4, <1>5 DEF ClaimsBounded, DoneCounted, Taken, Running, WorkPlaces
<1>8. WorkersStopped'
  BY <1>1, <1>3, <1>4, <1>5 DEF WorkersStopped, Stopping, Threads
<1>9. QuietBetween'
  BY <1>1, <1>2, <1>4, <1>5 DEF QuietBetween, Quiet, Preparing
<1>10. UnitsShared'
  <2> SUFFICES ASSUME pc'[Main] \in Running
               PROVE  UnitsShared'
    BY DEF UnitsShared
  <2>1. pc[Main] \in Running
    BY <1>4, <1>5 DEF Running, WorkPlaces
  <2>2. /\ \A u \in Busy : i[u] < work_index
                           /\ drawn[i[u]] = IF pc[u] = "draw" THEN 0 ELSE 1
        /\ \A u, w \in Busy : i[u] = i[w] => u = w
        /\ \A u \in Units :
             IF u < work_index
             THEN drawn[u] = 1 \/ \E w \in Busy : pc[w] = "draw" /\ i[w] = u
             ELSE drawn[u] = 0
    BY <2>1 DEF UnitsShared
  <2>3. drawn'[i[t]] = 1 /\ \A u \in Units : u # i[t] => drawn'[u] = drawn[u]
    BY <1>1, <2>2 DEF TypeOK
  <2>4. \A u \in Busy : drawn'[i[u]] = IF pc'[u] = "draw" THEN 0 ELSE 1
    BY <1>1, <1>3, <2>2, <2>3 DEF Busy
  <2>5. ASSUME NEW u \in Units
        PROVE  IF u < work_index
               THEN drawn'[u] = 1 \/ \E w \in Busy : pc'[w] = "draw" /\ i[w] = u
               ELSE drawn'[u] = 0
    <3>1. CASE u = i[t]
      BY <1>1, <2>2, <2>3, <3>1
    <3>2. CASE u # i[t]
      <4>1. \A w \in Busy : i[w] = u => pc'[w] = pc[w]
        BY <1>3, <3>2 DEF Busy
      <4> QED
        BY <2>2, <2>3, <3>2, <4>1
    <3> QED
      BY <3>1, <3>2
  <2> QED
    BY <1>1, <1>2, <2>2, <2>4, <2>5 DEF UnitsShared, Units
<1> QED
  BY <1>1, <1>2, <1>6, <1>7, <1>8, <1>9, <1>10 DEF Units

LEMMA CountStep ==
  ASSUME IInv, NEW t \in Threads, Count(t)
  PROVE  IInv'
<1> USE DEF IInv
<1>a. /\ num_work_units \in Nat /\ INT_MAX \in Nat /\ work_index \in Nat
      /\ Main \notin Workers /\ done_count \in Nat /\ INT_MAX > num_work_units
  BY WorkersAssumption, ThreadsFinite DEF TypeOK
<1>1. PICK p : /\ pc' = [pc EXCEPT ![t] = p]
               /\ p \in {"notify", After(t, i[t] + 1)}
  BY DEF Count, Goto
<1>2. /\ pc[t] = "count" /\ t \in Busy /\ i[t] \in Units
      /\ done_count' = done_count + 1 /\ i' = [i EXCEPT ![t] = @ + 1]
      /\ UNCHANGED <<threads_active, work_index, drawn>>
  BY DEF Count, Busy
<1>3. p \in IF t = Main THEN {"notify", "load", "check_done"} ELSE {"notify", "test", "wait"}
  BY <1>1 DEF After
<1>4. Claiming' = Claiming /\ Busy' = Busy \ {t}
  <2>1. p \notin {"claim", "draw", "count"}
    BY <1>3
  <2>2. Claiming' = Claiming \ {t} /\ Busy' = Busy \ {t}
    BY <1>1, <2>1, Moved
  <2> QED
    BY <1>2, <2>2 DEF Claiming
<1>5. pc'[t] = p /\ \A u \in Threads : u # t => pc'[u] = pc[u]
  BY <1>1, Moved
<1>6. t # Main => pc'[Main] = pc[Main]
  BY <1>5 DEF Threads
<1>7. t = Main => pc'[Main] \in {"notify", "load", "check_done"} /\ pc[Main] = "count"
  BY <1>2, <1>3, <1>5
<1>8. \A u \in Busy' : u \in Busy /\ u # t /\ i'[u] = i[u] /\ pc'[u] = pc[u]
  BY <1>2, <1>4, <1>5 DEF TypeOK, Busy
<1>9. pc'[Main] \in Running => pc[Main] \in Running
  BY <1>6, <1>7 DEF Running, WorkPlaces
<1>10. DoneCounted'
  <2>1. /\ Cardinality(Busy \ {t}) = Cardinality(Busy) - 1
        /\ Cardinality(Busy) \in Nat
    BY <1>2, Counted, CountedWith DEF Busy
  <2> QED
    BY <1>a, <1>2, <1>4, <1>9, <2>1 DEF DoneCounted, Taken
<1>11. pc'[Main] \notin Stopping => done_count' <= num_work_units
  <2>1. pc[Main] \notin Quiet
    BY <1>2 DEF QuietBetween
  <2>2. pc'[Main] \notin Stopping => pc[Main] \in Running /\ pc'[Main] \in Running
    BY <1>6, <1>7, <2>1
    DEF TypeOK, MainPlaces, Running, Quiet, Preparing, Stopping, WorkPlaces
  <2>3. Cardinality(Busy') \in Nat
    BY <1>4, Counted DEF Busy
  <2> QED
    BY <1>a, <1>2, <1>10, <2>2, <2>3 DEF DoneCounted, Taken
<1>12. TypeOK'
  <2>1. i[t] + 1 \in 0 .. INT_MAX
    BY <1>a, <1>2 DEF Units
  <2> QED
    BY <1>a, <1>1, <1>2, <1>3, <1>6, <1>7, <1>11, <2>1
    DEF TypeOK, WorkPlaces, WorkerPlaces, MainPlaces, Stopping, Threads
<1>13. ClaimsBounded'
  BY <1>2, <1>4 DEF ClaimsBounded
<1>14. WorkersStopped'
  BY <1>2, <1>5, <1>6, <1>7 DEF WorkersStopped, Stopping, Threads
<1>15. QuietBetween'
  BY <1>2, <1>4, <1>6, <1>7 DEF QuietBetween, Quiet, Preparing
<1>16. UnitsShared'
  <2> SUFFICES ASSUME pc'[Main] \in Running
               PROVE  UnitsShared'
    BY DEF UnitsShared
  <2>1. \A w \in Busy : pc[w] = "draw" => w \in Busy' /\ pc'[w] = "draw" /\ i'[w] = i[w]
    BY <1>2, <1>4, <1>8
  <2> QED
    BY <1>2, <1>8, <1>9, <2>1 DEF UnitsShared, Units
<1> QED
  BY <1>8, <1>10, <1>12, <1>13, <1>14, <1>15, <1>16 DEF Units

LEMMA NotifyDoneStep ==
  ASSUME IInv, NEW t \in Threads, NotifyDone(t)
  PROVE  IInv'
<1> USE DEF IInv
<1>a. Main \notin Workers /\ Main \in Threads
  BY WorkersAssumption DEF Threads
<1>1. PICK p : p = After(t, i[t])
  OBVIOUS
<1>2. /\ pc[t] = "notify" /\ pc' = [Woken({Main}) EXCEPT ![t] = p]
      /\ UNCHANGED <<threads_active, work_index, done_count, i, drawn>>
  BY <1>1 DEF NotifyDone
<1>3. p \in IF t = Main THEN {"load", "check_done"} ELSE {"test", "wait"}
  BY <1>1 DEF After
<1>4. /\ pc'[t] = p
      /\ \A u \in Threads : u # t =>
           pc'[u] = pc[u] \/ (u = Main /\ pc[u] = "asleep" /\ pc'[u] = "wait")
      /\ Claiming' = Claiming /\ Busy' = Busy
  <2>1. p \notin {"claim", "draw", "count"} /\ pc[t] \notin {"claim", "draw", "count"}
    BY <1>2, <1>3
  <2>2. {Main} \in SUBSET Threads
    BY <1>a
  <2> QED
    BY <1>2, <2>1, <2>2, MovedAndWoken
<1>5. \/ pc'[Main] = pc[Main]
      \/ pc[Main] = "asleep" /\ pc'[Main] = "wait"
      \/ pc[Main] = "notify" /\ pc'[Main] \in {"load", "check_done"}
  BY <1>a, <1>2, <1>3, <1>4
<1>6. \A u \in Busy : pc'[u] = pc[u]
  BY <1>2, <1>4 DEF Busy
<1>7. TypeOK'
  <2>1. pc' \in [Threads -> WorkerPlaces \cup MainPlaces]
    BY <1>2, <1>3 DEF TypeOK, Woken, WorkerPlaces, MainPlaces, WorkPlaces
  <2>2. \A w \in Workers : pc'[w] \in WorkerPlaces
    BY <1>a, <1>3, <1>4 DEF TypeOK, Threads, WorkerPlaces
  <2> QED
    BY <1>2, <1>5, <2>1, <2>2 DEF TypeOK, MainPlaces, WorkPlaces, Stopping
<1>8. WorkersStopped'
  BY <1>a, <1>2, <1>4, <1>5 DEF WorkersStopped, Stopping, Threads
<1> QED
  BY <1>2, <1>4, <1>5, <1>6, <1>7, <1>8, OnlyMoves
  DEF Running, WorkPlaces, Quiet, Preparing

----------------------------------------------------------------------------
(* Workers.                                                                *)

\* Threads that only wait, look and end.
LEMMA WaitingStep ==
  ASSUME IInv, NEW t \in Threads,
         (t \in Workers /\ (Test(t) \/ WaitForWork(t))) \/ SpuriousWake(t)
  PROVE  IInv'
<1> USE DEF IInv
<1>a. Main \notin Workers /\ Main \in Threads
  BY WorkersAssumption DEF Threads
<1>1. PICK p : /\ pc' = [pc EXCEPT ![t] = p]
               /\ \/ t \in Workers /\ pc[t] = "test" /\ p = "load" /\ threads_active
                  \/ t \in Workers /\ pc[t] = "test" /\ p = "none" /\ ~threads_active
                  \/ t \in Workers /\ pc[t] = "wait" /\ p \in {"asleep", "test"}
                  \/ pc[t] = "asleep" /\ p = "wait"
  BY DEF Test, WaitForWork, SpuriousWake, Goto
<1>2. UNCHANGED <<threads_active, work_index, done_count, i, drawn>>
  BY DEF Test, WaitForWork, SpuriousWake
<1>3. Claiming' = Claiming /\ Busy' = Busy
  <2>1. p \notin {"claim", "draw", "count"} /\ pc[t] \notin {"claim", "draw", "count"}
    BY <1>1
  <2>2. Claiming' = Claiming \ {t} /\ Busy' = Busy \ {t}
    BY <1>1, <2>1, Moved
  <2> QED
    BY <2>1, <2>2 DEF Claiming, Busy
<1>4. pc'[t] = p /\ \A u \in Threads : u # t => pc'[u] = pc[u]
  BY <1>1, Moved
<1>5. pc'[Main] = pc[Main] \/ (t = Main /\ pc[Main] = "asleep" /\ pc'[Main] = "wait")
  BY <1>a, <1>1, <1>4
<1>6. \A u \in Busy : pc'[u] = pc[u]
  BY <1>1, <1>4 DEF Busy
<1>7. TypeOK'
  BY <1>1, <1>2, <1>5 DEF TypeOK, WorkerPlaces, MainPlaces, WorkPlaces, Stopping, Threads
<1>8. WorkersStopped'
  <2>1. pc'[Main] \in Stopping <=> pc[Main] \in Stopping
    BY <1>5 DEF Stopping
  <2>2. pc'[Main] \in {"gone", "spawn"} => pc'[Main] = pc[Main]
    BY <1>5
  <2>3. \A w \in Workers : pc[w] = "none" => pc'[w] = "none"
    BY <1>1, <1>4 DEF Threads
  <2> QED
    BY <1>2, <2>1, <2>2, <2>3 DEF WorkersStopped
<1> QED
  BY <1>2, <1>3, <1>5, <1>6, <1>7, <1>8, OnlyMoves
  DEF Running, WorkPlaces, Quiet, Preparing

----------------------------------------------------------------------------
(* The main thread.                                                        *)

\* A step of the main thread alone, from one place outside do_triangle_work to
\* another.
LEMMA MainMoved ==
  ASSUME IInv, NEW p \in MainPlaces \ {"claim", "draw", "count"},
         pc' = [pc EXCEPT ![Main] = p],
         pc[Main] \notin {"claim", "draw", "count"}
  PROVE  /\ pc' \in [Threads -> WorkerPlaces \cup MainPlaces]
         /\ pc'[Main] = p
         /\ \A w \in Workers : pc'[w] = pc[w] /\ pc'[w] \in WorkerPlaces
         /\ \A t \in Busy : pc'[t] = pc[t]
         /\ Claiming' = Claiming /\ Busy' = Busy
<1> USE DEF IInv
<1>1. Main \in Threads /\ Main \notin Workers
  BY WorkersAssumption DEF Threads
<1>2. pc'[Main] = p /\ \A u \in Threads : u # Main => pc'[u] = pc[u]
  BY <1>1, Moved
<1>3. Claiming' = Claiming \ {Main} /\ Busy' = Busy \ {Main}
  BY <1>1, Moved
<1>4. \A w \in Workers : pc'[w] = pc[w] /\ pc'[w] \in WorkerPlaces
  BY <1>1, <1>2 DEF Threads, TypeOK
<1>5. pc' \in [Threads -> WorkerPlaces \cup MainPlaces]
  BY <1>1 DEF TypeOK
<1> QED
  BY <1>2, <1>3, <1>4, <1>5 DEF Claiming, Busy

\* The steps that only move the main thread on.
LEMMA MainWaitingStep ==
  ASSUME IInv, Spawned \/ WaitForDone \/ Join
  PROVE  IInv'
<1> USE DEF IInv
<1>1. PICK p \in MainPlaces \ {"claim", "draw", "count"} :
        /\ pc' = [pc EXCEPT ![Main] = p]
        /\ \/ pc[Main] = "spawn" /\ p = "reset_done"
           \/ pc[Main] = "wait" /\ p \in {"asleep", "check_done"}
           \/ pc[Main] = "join" /\ p = "gone" /\ \A w \in Workers : pc[w] = "none"
  BY DEF Spawned, WaitForDone, Join, Goto, MainPlaces
<1>2. UNCHANGED <<threads_active, work_index, done_count, i, drawn>>
  BY DEF Spawned, WaitForDone, Join
<1>3. /\ pc' \in [Threads -> WorkerPlaces \cup MainPlaces] /\ pc'[Main] = p
      /\ \A w \in Workers : pc'[w] = pc[w] /\ pc'[w] \in WorkerPlaces
      /\ \A t \in Busy : pc'[t] = pc[t]
      /\ Claiming' = Claiming /\ Busy' = Busy
  BY <1>1, MainMoved
<1>4. TypeOK'
  BY <1>1, <1>2, <1>3 DEF TypeOK, Stopping
<1>5. WorkersStopped'
  BY <1>1, <1>2, <1>3 DEF WorkersStopped, Stopping
<1> QED
  BY <1>1, <1>2, <1>3, <1>4, <1>5, OnlyMoves DEF Running, WorkPlaces, Quiet, Preparing

LEMMA SpawnStep ==
  ASSUME IInv, NEW w \in Workers, Spawn(w)
  PROVE  IInv'
<1> USE DEF IInv
<1>1. /\ pc[Main] = "spawn" /\ pc[w] = "none" /\ pc' = [pc EXCEPT ![w] = "test"]
      /\ UNCHANGED <<threads_active, work_index, done_count, i, drawn>>
      /\ w \in Threads /\ w # Main /\ Main \in Threads
  BY WorkersAssumption DEF Spawn, Goto, Threads
<1>2. Claiming' = Claiming /\ Busy' = Busy
  <2>1. Claiming' = Claiming \ {w} /\ Busy' = Busy \ {w}
    BY <1>1, Moved
  <2> QED
    BY <1>1, <2>1 DEF Claiming, Busy
<1>3. pc'[Main] = pc[Main] /\ \A t \in Busy : pc'[t] = pc[t]
  BY <1>1 DEF TypeOK, Busy
<1>4. TypeOK'
  BY <1>1, <1>3 DEF TypeOK, WorkerPlaces
<1>5. WorkersStopped'
  BY <1>1, <1>3 DEF WorkersStopped, Stopping, TypeOK, Threads
<1> QED
  BY <1>1, <1>2, <1>3, <1>4, <1>5, OnlyMoves

LEMMA NotifyWorkStep ==
  ASSUME IInv, NotifyWork
  PROVE  IInv'
<1> USE DEF IInv
<1>a. Main \notin Workers /\ Main \in Threads /\ Workers \in SUBSET Threads
  BY WorkersAssumption DEF Threads
<1>1. PICK p : /\ pc' = [Woken(Workers) EXCEPT ![Main] = p]
               /\ \/ pc[Main] = "notify_work" /\ p = "load"
                  \/ pc[Main] = "stop_notify" /\ p = "join"
  BY DEF NotifyWork
<1>2. UNCHANGED <<threads_active, work_index, done_count, i, drawn>>
  BY DEF NotifyWork
<1>3. /\ pc'[Main] = p
      /\ \A u \in Threads : u # Main =>
           pc'[u] = pc[u] \/ (u \in Workers /\ pc[u] = "asleep" /\ pc'[u] = "wait")
      /\ Claiming' = Claiming /\ Busy' = Busy
  BY <1>a, <1>1, MovedAndWoken
<1>4. \A u \in Busy : pc'[u] = pc[u]
  BY <1>1, <1>3 DEF Busy
<1>5. TypeOK'
  <2>1. pc' \in [Threads -> WorkerPlaces \cup MainPlaces]
    BY <1>1 DEF TypeOK, Woken, WorkerPlaces, MainPlaces, WorkPlaces
  <2>2. \A w \in Workers : pc'[w] \in WorkerPlaces
    BY <1>a, <1>3 DEF TypeOK, Threads, WorkerPlaces
  <2> QED
    BY <1>1, <1>2, <1>3, <2>1, <2>2 DEF TypeOK, MainPlaces, WorkPlaces, Stopping
<1>6. WorkersStopped'
  BY <1>a, <1>1, <1>2, <1>3 DEF WorkersStopped, Stopping, Threads
<1> QED
  BY <1>1, <1>2, <1>3, <1>4, <1>5, <1>6, OnlyMoves
  DEF Running, WorkPlaces, Quiet, Preparing

\* A triangle is begun, drawn by the main thread alone, or handed out.
LEMMA PrepareStep ==
  ASSUME IInv, Triangle \/ DrawAlone \/ DrawTogether \/ ResetDone
  PROVE  IInv'
<1> USE DEF IInv
<1>a. num_work_units \in Nat
  BY WorkersAssumption
<1>1. PICK p \in MainPlaces \ {"claim", "draw", "count"} :
        /\ pc' = [pc EXCEPT ![Main] = p]
        /\ \/ /\ pc[Main] = "idle" /\ p = "fill" /\ drawn' = [u \in Units |-> 0]
              /\ UNCHANGED <<threads_active, done_count>>
           \/ /\ pc[Main] = "fill" /\ p = "idle" /\ drawn' = [u \in Units |-> drawn[u] + 1]
              /\ UNCHANGED <<threads_active, done_count>>
           \/ /\ pc[Main] = "fill" /\ p \in {"spawn", "reset_done"} /\ threads_active' = TRUE
              /\ UNCHANGED <<drawn, done_count>>
           \/ /\ pc[Main] = "reset_done" /\ p = "reset_index" /\ done_count' = 0
              /\ UNCHANGED <<threads_active, drawn>>
  BY DEF Triangle, DrawAlone, DrawTogether, ResetDone, Goto, MainPlaces
<1>2. UNCHANGED <<work_index, i>>
  BY DEF Triangle, DrawAlone, DrawTogether, ResetDone
<1>3. /\ pc' \in [Threads -> WorkerPlaces \cup MainPlaces] /\ pc'[Main] = p
      /\ \A w \in Workers : pc'[w] = pc[w] /\ pc'[w] \in WorkerPlaces
      /\ Claiming' = Claiming /\ Busy' = Busy
  BY <1>1, MainMoved
<1>4. threads_active' \in BOOLEAN /\ drawn' \in [Units -> Nat]
  <2>1. threads_active' \in BOOLEAN
    BY <1>1 DEF TypeOK
  <2>2. [u \in Units |-> drawn[u] + 1] \in [Units -> Nat] /\ [u \in Units |-> 0] \in [Units -> Nat]
    BY DEF TypeOK
  <2>3. drawn' \in [Units -> Nat]
    BY <1>1, <2>2 DEF TypeOK
  <2> QED
    BY <2>1, <2>3
<1>5. TypeOK'
  BY <1>a, <1>1, <1>2, <1>3, <1>4 DEF TypeOK, Stopping, Units
<1>6. ClaimsBounded'
  BY <1>2, <1>3 DEF ClaimsBounded
<1>7. WorkersStopped'
  BY <1>1, <1>3 DEF WorkersStopped, Stopping
<1>8. QuietBetween'
  BY <1>1, <1>2, <1>3 DEF QuietBetween, Quiet, Preparing, Units
<1>9. pc'[Main] \notin Running
  BY <1>1, <1>3 DEF Running, WorkPlaces
<1> QED
  BY <1>2, <1>3, <1>5, <1>6, <1>7, <1>8, <1>9 DEF UnitsShared, DoneCounted, Units

LEMMA ResetIndexStep ==
  ASSUME IInv, ResetIndex
  PROVE  IInv'
<1> USE DEF IInv
<1>a. num_work_units \in Nat /\ INT_MAX \in Nat /\ work_index \in Nat
  BY WorkersAssumption DEF TypeOK
<1>1. /\ pc[Main] = "reset_index" /\ pc' = [pc EXCEPT ![Main] = "notify_work"]
      /\ work_index' = 0
      /\ UNCHANGED <<threads_active, done_count, i, drawn>>
  BY DEF ResetIndex, Goto
<1>2. /\ pc' \in [Threads -> WorkerPlaces \cup MainPlaces] /\ pc'[Main] = "notify_work"
      /\ \A w \in Workers : pc'[w] = pc[w] /\ pc'[w] \in WorkerPlaces
      /\ Claiming' = Claiming /\ Busy' = Busy
  <2>1. "notify_work" \in MainPlaces \ {"claim", "draw", "count"}
    BY DEF MainPlaces
  <2> QED
    BY <1>1, <2>1, MainMoved
<1>3. Busy' = {} /\ done_count' = 0 /\ drawn' = [u \in Units |-> 0]
  BY <1>1, <1>2 DEF QuietBetween, Quiet, Preparing
<1>4. TypeOK'
  BY <1>a, <1>1, <1>2 DEF TypeOK, Stopping, MainPlaces
<1>5. ClaimsBounded'
  <2>1. Cardinality(Claiming) \in Nat
    BY Counted DEF Claiming
  <2> QED
    BY <1>a, <1>1, <1>2, <2>1, ThreadsFinite DEF ClaimsBounded
<1>6. WorkersStopped'
  BY <1>1, <1>2 DEF WorkersStopped, Stopping
<1>7. QuietBetween'
  BY <1>2 DEF QuietBetween, Quiet, Preparing
<1>8. UnitsShared'
  BY <1>a, <1>1, <1>3 DEF UnitsShared, Units
<1>9. DoneCounted'
  BY <1>a, <1>1, <1>3, FS_EmptySet DEF DoneCounted, Taken
<1> QED
  BY <1>3, <1>4, <1>5, <1>6, <1>7, <1>8, <1>9

\* When all units are reported nobody is drawing, and each was drawn once.
LEMMA AllDrawn ==
  ASSUME IInv, pc[Main] \in Running, done_count >= num_work_units
  PROVE  Busy = {} /\ work_index >= num_work_units /\ drawn = [u \in Units |-> 1]
<1> USE DEF IInv
<1>a. num_work_units \in Nat /\ work_index \in Nat /\ done_count \in Nat
  BY WorkersAssumption DEF TypeOK
<1>1. Cardinality(Busy) \in Nat /\ (Cardinality(Busy) = 0 => Busy = {})
  BY Counted DEF Busy
<1>2. Busy = {} /\ work_index >= num_work_units
  BY <1>a, <1>1 DEF DoneCounted, Taken
<1>3. \A u \in Units : drawn[u] = 1
  BY <1>a, <1>2 DEF UnitsShared, Units
<1> QED
  BY <1>2, <1>3 DEF TypeOK

LEMMA CheckDoneStep ==
  ASSUME IInv, CheckDone
  PROVE  IInv'
<1> USE DEF IInv
<1>a. num_work_units \in Nat /\ INT_MAX \in Nat /\ done_count \in Nat /\ INT_MAX > num_work_units
  BY WorkersAssumption, ThreadsFinite DEF TypeOK
<1>b. pc[Main] = "check_done" /\ pc[Main] \in Running
  BY DEF CheckDone, Running
<1>1. PICK p \in MainPlaces \ {"claim", "draw", "count"} :
        /\ pc' = [pc EXCEPT ![Main] = p]
        /\ p = IF done_count < num_work_units THEN "wait" ELSE "idle"
  BY DEF CheckDone, Goto, MainPlaces
<1>2. /\ i' = [i EXCEPT ![Main] = done_count]
      /\ UNCHANGED <<threads_active, work_index, done_count, drawn>>
  BY DEF CheckDone
<1>3. /\ pc' \in [Threads -> WorkerPlaces \cup MainPlaces] /\ pc'[Main] = p
      /\ \A w \in Workers : pc'[w] = pc[w] /\ pc'[w] \in WorkerPlaces
      /\ \A t \in Busy : pc'[t] = pc[t]
      /\ Claiming' = Claiming /\ Busy' = Busy
  BY <1>b, <1>1, MainMoved
<1>4. \A t \in Busy : i'[t] = i[t]
  BY <1>b, <1>2 DEF Busy, TypeOK
<1>5. TypeOK'
  <2>1. done_count <= num_work_units
    BY <1>b DEF TypeOK, Stopping
  <2>2. i' \in [Threads -> 0 .. INT_MAX]
    <3>1. done_count \in 0 .. INT_MAX
      BY <1>a, <2>1
    <3> QED
      BY <1>2, <3>1 DEF TypeOK
  <2> QED
    BY <1>1, <1>2, <1>3, <2>1, <2>2 DEF TypeOK, Stopping
<1>6. WorkersStopped'
  BY <1>b, <1>1, <1>2, <1>3 DEF WorkersStopped, Stopping
<1>7. CASE done_count < num_work_units
  BY <1>b, <1>1, <1>2, <1>3, <1>4, <1>5, <1>6, <1>7, OnlyMoves DEF Quiet, Preparing
<1>8. CASE ~(done_count < num_work_units)
  <2>1. Busy = {} /\ work_index >= num_work_units
    BY <1>a, <1>b, <1>8, AllDrawn
  <2>2. pc'[Main] = "idle"
    BY <1>1, <1>3, <1>8
  <2>3. ClaimsBounded' /\ QuietBetween'
    BY <1>2, <1>3, <2>1, <2>2 DEF ClaimsBounded, QuietBetween, Preparing
  <2>4. UnitsShared' /\ DoneCounted'
    BY <2>2 DEF UnitsShared, DoneCounted, Running, WorkPlaces
  <2> QED
    BY <1>3, <1>5, <1>6, <2>1, <2>3, <2>4
<1> QED
  BY <1>7, <1>8

\* The card is shut down and started again.
LEMMA ShutdownStep ==
  ASSUME IInv, Shutdown \/ StopIndex \/ Startup
  PROVE  IInv'
<1> USE DEF IInv
<1>a. /\ num_work_units \in Nat /\ INT_MAX \in Nat /\ work_index \in Nat
      /\ INT_MAX > num_work_units + Cardinality(Workers) /\ Cardinality(Workers) \in Nat
  BY WorkersAssumption, ThreadsFinite DEF TypeOK
<1>1. PICK p \in MainPlaces \ {"claim", "draw", "count"} :
        /\ pc' = [pc EXCEPT ![Main] = p]
        /\ \/ /\ pc[Main] = "idle" /\ threads_active' = FALSE
              /\ p = IF threads_active THEN "stop_index" ELSE "gone"
              /\ UNCHANGED <<work_index, done_count, drawn>>
           \/ /\ pc[Main] = "stop_index" /\ p = "stop_notify" /\ work_index' = 0
              /\ UNCHANGED <<threads_active, done_count, drawn>>
           \/ /\ pc[Main] = "gone" /\ p = "idle" /\ work_index' = INT_MAX
              /\ done_count' = 0 /\ drawn' = [u \in Units |-> 0]
              /\ UNCHANGED threads_active
  BY DEF Shutdown, StopIndex, Startup, Goto, MainPlaces
<1>2. UNCHANGED i
  BY DEF Shutdown, StopIndex, Startup
<1>3. /\ pc' \in [Threads -> WorkerPlaces \cup MainPlaces] /\ pc'[Main] = p
      /\ \A w \in Workers : pc'[w] = pc[w] /\ pc'[w] \in WorkerPlaces
      /\ \A t \in Busy : pc'[t] = pc[t]
      /\ Claiming' = Claiming /\ Busy' = Busy
  BY <1>1, MainMoved
<1>4. pc[Main] = "gone" => Claiming = {} /\ Busy = {}
  BY DEF WorkersStopped, Claiming, Busy, Threads
<1>5. TypeOK'
  <2>1. threads_active' \in BOOLEAN
    BY <1>1 DEF TypeOK
  <2>2. work_index' \in 0 .. INT_MAX
    BY <1>a, <1>1 DEF TypeOK
  <2>3. done_count' \in Nat /\ (pc'[Main] \notin Stopping => done_count' <= num_work_units)
    BY <1>a, <1>1, <1>3 DEF TypeOK, Stopping
  <2>4. drawn' \in [Units -> Nat]
    <3>1. [u \in Units |-> 0] \in [Units -> Nat]
      OBVIOUS
    <3> QED
      BY <1>1, <3>1 DEF TypeOK
  <2> QED
    BY <1>2, <1>3, <2>1, <2>2, <2>3, <2>4 DEF TypeOK, Units
<1>6. ClaimsBounded'
  <2>1. Cardinality(Claiming) \in Nat /\ Cardinality(Claiming) <= Cardinality(Workers) + 1
    BY Counted DEF Claiming
  <2>2. CASE work_index' = work_index
    BY <1>3, <2>2 DEF ClaimsBounded
  <2>3. CASE work_index' = 0
    BY <1>a, <1>3, <2>1, <2>3, WorkersAssumption DEF ClaimsBounded
  <2>4. CASE pc[Main] = "gone"
    BY <1>3, <1>4, <2>4 DEF ClaimsBounded
  <2> QED
    BY <1>1, <2>2, <2>3, <2>4
<1>7. WorkersStopped'
  BY <1>1, <1>3 DEF WorkersStopped, Stopping, TypeOK
<1>8. QuietBetween'
  BY <1>a, <1>1, <1>3, <1>4 DEF QuietBetween, Quiet, Preparing
<1>9. UnitsShared' /\ DoneCounted'
  BY <1>1, <1>3 DEF UnitsShared, DoneCounted, Running, WorkPlaces
<1> QED
  BY <1>2, <1>3, <1>5, <1>6, <1>7, <1>8, <1>9 DEF Units

----------------------------------------------------------------------------
(* Theorems.                                                               *)

LEMMA InitInvariant ==
  ASSUME Init
  PROVE  IInv
<1>a. /\ num_work_units \in Nat /\ INT_MAX \in Nat /\ INT_MAX >= num_work_units
      /\ Main \notin Workers
  BY WorkersAssumption, ThreadsFinite
<1>1. pc[Main] = "idle" /\ \A w \in Workers : pc[w] = "none"
  BY <1>a DEF Init, Threads
<1>2. Busy = {} /\ Claiming = {}
  BY <1>1 DEF Busy, Claiming, Threads
<1>3. TypeOK
  <2>1. pc \in [Threads -> WorkerPlaces \cup MainPlaces]
    BY DEF Init, WorkerPlaces, MainPlaces
  <2>2. drawn \in [Units -> Nat] /\ i \in [Threads -> 0 .. INT_MAX]
    BY <1>a DEF Init
  <2>3. /\ work_index \in 0 .. INT_MAX
        /\ done_count \in Nat /\ done_count <= num_work_units
    <3>1. work_index = INT_MAX /\ done_count = 0
      BY DEF Init
    <3> QED
      BY <1>a, <3>1
  <2>4. threads_active \in BOOLEAN
    BY DEF Init
  <2>5. "idle" \in MainPlaces /\ "none" \in WorkerPlaces
    BY DEF MainPlaces, WorkerPlaces
  <2> QED
    BY <1>a, <1>1, <2>1, <2>2, <2>3, <2>4, <2>5 DEF TypeOK
<1> QED
  BY <1>a, <1>1, <1>2, <1>3
  DEF Init, IInv, ClaimsBounded, WorkersStopped, QuietBetween, UnitsShared,
      DoneCounted, Running, WorkPlaces, Preparing, Stopping

LEMMA NextInvariant ==
  ASSUME IInv, [Next]_vars
  PROVE  IInv'
<1>1. CASE UNCHANGED vars
  BY <1>1 DEF vars, IInv, TypeOK, ClaimsBounded, WorkersStopped, QuietBetween, UnitsShared,
              DoneCounted, Claiming, Busy, Taken
<1>2. CASE Next
  <2> USE DEF Threads
  <2>1. ASSUME NEW t \in Threads, DoTriangleWork(t)
        PROVE  IInv'
    BY <2>1, LoadStep, ClaimStep, DrawStep, CountStep, NotifyDoneStep DEF DoTriangleWork
  <2>2. ASSUME NEW w \in Workers, WorkerStep(w)
        PROVE  IInv'
    BY <2>1, <2>2, WaitingStep DEF WorkerStep
  <2>3. CASE MainStep
    BY <2>1, <2>3, PrepareStep, SpawnStep, MainWaitingStep, ResetIndexStep, NotifyWorkStep,
       CheckDoneStep, ShutdownStep DEF MainStep
  <2>4. CASE Triangle \/ Shutdown \/ Startup
    BY <2>4, PrepareStep, ShutdownStep
  <2>5. ASSUME NEW t \in Threads, SpuriousWake(t)
        PROVE  IInv'
    BY <2>5, WaitingStep
  <2> QED
    BY <1>2, <2>2, <2>3, <2>4, <2>5 DEF Next
<1> QED
  BY <1>1, <1>2

\* The inductive invariant holds.
THEOREM Invariant == Spec => []IInv
BY InitInvariant, NextInvariant, PTL DEF Spec

\* The type invariant; done_count never passes the number of units while the
\* card is in use.
THEOREM TypeCorrect == Spec => []TypeOK
<1>1. IInv => TypeOK
  BY DEF IInv
<1> QED
  BY <1>1, Invariant, PTL

\* The vertices are never written, nor freed, while a worker draws from them
\* (triangle, voodoo_shutdown).
THEOREM NoRace == Spec => []NoDataRace
<1>1. IInv => NoDataRace
  BY DEF IInv, NoDataRace, QuietBetween, Quiet, Preparing, WorkersStopped, Busy, Threads
<1> QED
  BY <1>1, Invariant, PTL

\* The load in do_triangle_work keeps the fetch_add from overflowing.
THEOREM NoOverflow == Spec => []IndexDoesNotOverflow
<1>1. IInv => IndexDoesNotOverflow
  <2> SUFFICES ASSUME IInv, NEW t \in Threads, pc[t] = "claim"
               PROVE  work_index <= num_work_units + Cardinality(Workers)
    BY DEF IndexDoesNotOverflow
  <2>1. Claiming # {} /\ Cardinality(Claiming) \in Nat
    BY Counted DEF Claiming
  <2> QED
    BY <2>1, WorkersAssumption, ThreadsFinite DEF IInv, ClaimsBounded, TypeOK
<1> QED
  BY <1>1, Invariant, PTL

\* Steps in one phase of the main thread, in which nothing is drawn, or nothing
\* that counts, do not show in Job.
LEMMA Stutters ==
  ASSUME \/ pc'[Main] = pc[Main]
         \/ pc[Main] \in Stopping /\ pc'[Main] \in Stopping
         \/ /\ pc[Main] \notin Stopping \cup {"idle"}
            /\ pc'[Main] \notin Stopping \cup {"idle"},
         drawn' = drawn \/ pc[Main] \in Stopping
  PROVE  UNCHANGED <<Phase, Times>>
BY DEF Phase, Times, Stopping

LEMMA DrawImplementsJob ==
  ASSUME IInv, NEW t \in Threads, Draw(t)
  PROVE  [Job!JNext]_(Job!jvars)
<1> USE DEF IInv
<1>1. /\ pc[t] = "draw" /\ t \in Busy /\ i[t] \in Units
      /\ pc' = [pc EXCEPT ![t] = "count"]
      /\ drawn' = [drawn EXCEPT ![i[t]] = @ + 1]
  BY DEF Draw, Goto, Busy
<1>2. pc'[Main] = pc[Main] \/ (pc[Main] = "draw" /\ pc'[Main] = "count")
  BY <1>1 DEF TypeOK, Threads
<1>3. CASE pc[Main] \in Stopping
  <2>1. UNCHANGED <<Phase, Times>>
    BY <1>2, <1>3, Stutters DEF Stopping
  <2> QED
    BY <2>1 DEF Job!jvars
<1>4. CASE pc[Main] \notin Stopping
  <2>1. pc[Main] \in Running
    BY <1>1, <1>4
    DEF QuietBetween, Running, Quiet, Preparing, TypeOK, MainPlaces, Stopping
  <2>2. Phase = "drawing" /\ Phase' = "drawing" /\ Times = drawn /\ Times' = drawn'
    BY <1>2, <2>1 DEF Phase, Times, Running, WorkPlaces, Stopping
  <2>3. drawn[i[t]] = 0
    BY <1>1, <2>1 DEF UnitsShared
  <2>4. Job!Draw(i[t])
    BY <1>1, <2>2, <2>3 DEF Job!Draw
  <2> QED
    BY <1>1, <2>4 DEF Job!JNext
<1> QED
  BY <1>3, <1>4

LEMMA StepImplementsJob ==
  ASSUME IInv, [Next]_vars
  PROVE  [Job!JNext]_(Job!jvars)
<1> USE DEF IInv
<1>a. Main \notin Workers /\ Main \in Threads /\ num_work_units \in Nat
  BY WorkersAssumption DEF Threads
<1>1. UNCHANGED <<Phase, Times>> => [Job!JNext]_(Job!jvars)
  BY DEF Job!jvars
<1>2. CASE UNCHANGED vars
  BY <1>2, <1>1, Stutters DEF vars
<1>3. ASSUME NEW t \in Threads, DoTriangleWork(t)
      PROVE  [Job!JNext]_(Job!jvars)
  <2>1. CASE Draw(t)
    BY <2>1, DrawImplementsJob
  <2>2. CASE Load(t) \/ Claim(t) \/ Count(t) \/ NotifyDone(t)
    <3>1. drawn' = drawn
      BY <2>2 DEF Load, Claim, Count, NotifyDone
    <3>2. pc[t] \in WorkPlaces
      BY <2>2 DEF Load, Claim, Count, NotifyDone, WorkPlaces
    <3>3. CASE t = Main
      <4>1. pc'[Main] \in WorkPlaces \cup {"check_done"}
        BY <1>a, <2>2, <3>3
        DEF Load, Claim, Count, NotifyDone, Goto, After, WorkPlaces, TypeOK, Woken
      <4> QED
        BY <1>1, <3>1, <3>2, <3>3, <4>1, Stutters DEF WorkPlaces, Stopping
    <3>4. CASE t # Main
      <4>1. pc'[Main] = pc[Main] \/ (pc[Main] = "asleep" /\ pc'[Main] = "wait")
        BY <1>a, <2>2, <3>4 DEF Load, Claim, Count, NotifyDone, Goto, TypeOK, Woken
      <4> QED
        BY <1>1, <3>1, <4>1, Stutters DEF Stopping
    <3> QED
      BY <3>3, <3>4
  <2> QED
    BY <1>3, <2>1, <2>2 DEF DoTriangleWork
<1>4. ASSUME NEW t \in Threads,
             (t \in Workers /\ (Test(t) \/ WaitForWork(t) \/ Spawn(t))) \/ SpuriousWake(t)
      PROVE  [Job!JNext]_(Job!jvars)
  <2>1. drawn' = drawn
    BY <1>4 DEF Test, WaitForWork, Spawn, SpuriousWake
  <2>2. pc'[Main] = pc[Main] \/ (pc[Main] = "asleep" /\ pc'[Main] = "wait")
    BY <1>a, <1>4 DEF Test, WaitForWork, Spawn, SpuriousWake, Goto, TypeOK
  <2> QED
    BY <1>1, <2>1, <2>2, Stutters DEF Stopping
<1>5. CASE DrawTogether \/ Spawned \/ ResetDone \/ ResetIndex \/ WaitForDone \/ NotifyWork
           \/ StopIndex \/ Join
  <2>1. drawn' = drawn
    BY <1>5 DEF DrawTogether, Spawned, ResetDone, ResetIndex, WaitForDone, NotifyWork,
                StopIndex, Join
  <2>2. \/ pc[Main] \in Stopping /\ pc'[Main] \in Stopping
        \/ /\ pc[Main] \notin Stopping \cup {"idle"}
           /\ pc'[Main] \notin Stopping \cup {"idle"}
    BY <1>a, <1>5 DEF DrawTogether, Spawned, ResetDone, ResetIndex, WaitForDone, NotifyWork,
                StopIndex, Join, Goto, Stopping, TypeOK, Woken
  <2> QED
    BY <1>1, <2>1, <2>2, Stutters
<1>6. CASE Triangle
  <2>1. pc[Main] = "idle" /\ pc'[Main] = "fill" /\ drawn' = [u \in Units |-> 0]
    BY <1>a, <1>6 DEF Triangle, Goto, TypeOK
  <2>2. Job!Begin
    BY <2>1 DEF Job!Begin, Job!AllAt, Phase, Times, Stopping
  <2> QED
    BY <2>2 DEF Job!JNext
<1>7. CASE DrawAlone
  <2>1. /\ pc[Main] = "fill" /\ pc'[Main] = "idle"
        /\ drawn = [u \in Units |-> 0] /\ drawn' = [u \in Units |-> drawn[u] + 1]
    BY <1>a, <1>7 DEF DrawAlone, Goto, TypeOK, QuietBetween, Preparing
  <2>2. drawn' = [u \in Units |-> 1]
    BY <2>1
  <2>3. Job!DrawAll
    BY <2>1, <2>2 DEF Job!DrawAll, Job!AllAt, Phase, Times, Stopping
  <2> QED
    BY <2>3 DEF Job!JNext
<1>8. CASE CheckDone
  <2>1. /\ pc[Main] = "check_done" /\ pc[Main] \in Running /\ drawn' = drawn
        /\ done_count \in Nat
        /\ pc'[Main] = IF done_count < num_work_units THEN "wait" ELSE "idle"
    BY <1>a, <1>8 DEF CheckDone, Goto, TypeOK, Running
  <2>2. CASE done_count < num_work_units
    BY <1>1, <2>1, <2>2, Stutters DEF Stopping
  <2>3. CASE ~(done_count < num_work_units)
    <3>1. drawn = [u \in Units |-> 1]
      BY <1>a, <2>1, <2>3, AllDrawn
    <3>2. Job!End
      BY <2>1, <2>3, <3>1 DEF Job!End, Job!AllAt, Phase, Times, Stopping
    <3> QED
      BY <3>2 DEF Job!JNext
  <2> QED
    BY <2>2, <2>3
<1>9. CASE Shutdown
  <2>1. pc[Main] = "idle" /\ pc'[Main] \in {"stop_index", "gone"}
    BY <1>a, <1>9 DEF Shutdown, Goto, TypeOK
  <2>2. Job!Close
    BY <2>1 DEF Job!Close, Job!AllAt, Phase, Times, Stopping
  <2> QED
    BY <2>2 DEF Job!JNext
<1>10. CASE Startup
  <2>1. pc[Main] = "gone" /\ pc'[Main] = "idle" /\ drawn' = [u \in Units |-> 0]
    BY <1>a, <1>10 DEF Startup, Goto, TypeOK
  <2>2. Job!Open
    BY <2>1 DEF Job!Open, Phase, Times, Stopping
  <2> QED
    BY <2>2 DEF Job!JNext
<1> QED
  BY <1>a, <1>2, <1>3, <1>4, <1>5, <1>6, <1>7, <1>8, <1>9, <1>10
  DEF Next, MainStep, WorkerStep, Threads

\* However many workers there are, each unit of each triangle is drawn once, and
\* all are drawn when triangle_worker_run returns.
THEOREM Refinement == Spec => ImplementsJob
<1>1. Init => Job!JInit
  BY WorkersAssumption DEF Init, Job!JInit, Job!AllAt, Phase, Times, Threads, Stopping
<1>2. IInv /\ [Next]_vars => [Job!JNext]_(Job!jvars)
  BY StepImplementsJob
<1> QED
  BY <1>1, <1>2, Invariant, PTL DEF Spec, ImplementsJob, Job!JSafe

----------------------------------------------------------------------------
(* Sleepers.  What liveness needs besides fairness: whoever sleeps on one  *)
(* of the counters will be notified.                                       *)

\* The main thread waits for the others only when all units are taken, and goes
\* to sleep only while one has not been reported.
MainWaits ==
  /\ pc[Main] = "notify" => i[Main] <= work_index
  /\ pc[Main] \in {"check_done", "wait", "asleep"} => work_index >= num_work_units
  /\ pc[Main] \in {"wait", "asleep"} => i[Main] < num_work_units
  /\ pc[Main] = "asleep" => done_count < num_work_units \/ \E w \in Workers : pc[w] = "notify"

\* Workers that may still take a unit after the card was shut down.
Late == {w \in Workers : pc[w] \in {"load", "claim"}}

\* A worker waits for another index than one below the number of units, and after
\* the last reset of the index it stays there: each worker takes one unit at most,
\* and there are more units than workers.
WorkersWait ==
  /\ \A w \in Workers : pc[w] \in {"wait", "asleep"} => i[w] >= num_work_units
  /\ pc[Main] \in {"stop_notify", "join"} =>
       work_index + Cardinality(Late) <= Cardinality(Workers)
  /\ pc[Main] = "join" => \A w \in Workers : pc[w] # "asleep"

WInv == IInv /\ MainWaits /\ WorkersWait

LEMMA LateCounted ==
  /\ Cardinality(Late) \in Nat /\ Cardinality(Late) <= Cardinality(Workers)
  /\ \A w \in Workers :
       /\ w \notin Late => Cardinality(Late \cup {w}) = Cardinality(Late) + 1
       /\ w \in Late => Cardinality(Late \ {w}) = Cardinality(Late) - 1
  /\ \A S \in SUBSET Late : Cardinality(S) \in Nat /\ Cardinality(S) <= Cardinality(Late)
<1>1. Late \subseteq Workers /\ IsFiniteSet(Workers)
  BY WorkersAssumption DEF Late
<1>2. IsFiniteSet(Late) /\ Cardinality(Late) \in Nat /\ Cardinality(Late) <= Cardinality(Workers)
  BY <1>1, FS_Subset, FS_CardinalityType
<1>3. QED
  BY <1>1, <1>2, FS_AddElement, FS_RemoveElement, FS_Subset, FS_CardinalityType

\* The index does not wrap around.
LEMMA NoWrap ==
  ASSUME IInv, NEW t \in Threads, pc[t] = "claim"
  PROVE  /\ work_index \in Nat /\ work_index < INT_MAX
         /\ Successor(work_index) = work_index + 1
<1>1. Claiming # {} /\ Cardinality(Claiming) \in Nat /\ work_index \in Nat
  BY Counted, WorkersAssumption DEF Claiming, IInv, TypeOK
<1>2. work_index <= num_work_units + Cardinality(Workers)
  BY <1>1, WorkersAssumption, ThreadsFinite DEF IInv, ClaimsBounded
<1>3. QED
  BY <1>1, <1>2, WorkersAssumption, ThreadsFinite DEF Successor

\* Where threads move to and from without the index, and nobody joins those that
\* may take a unit, the bound on the index stays.
LEMMA LateShrinks ==
  ASSUME IInv, WorkersWait, Late' \subseteq Late, work_index' = work_index
  PROVE  pc[Main] \in {"stop_notify", "join"} =>
           work_index' + Cardinality(Late') <= Cardinality(Workers)
<1>1. work_index \in Nat /\ Cardinality(Workers) \in Nat
  BY WorkersAssumption, ThreadsFinite DEF IInv, TypeOK
<1>2. Cardinality(Late') <= Cardinality(Late) /\ Cardinality(Late') \in Nat
      /\ Cardinality(Late) \in Nat
  BY LateCounted
<1>3. QED
  BY <1>1, <1>2 DEF WorkersWait

LEMMA LoadWaits ==
  ASSUME WInv, NEW t \in Threads, Load(t)
  PROVE  MainWaits' /\ WorkersWait'
<1>1. /\ TypeOK /\ MainWaits /\ WorkersWait /\ Main \notin Workers
      /\ work_index \in Nat /\ num_work_units \in Nat
  BY WorkersAssumption DEF WInv, IInv, TypeOK
<1> DEFINE p == IF work_index >= num_work_units THEN After(t, work_index) ELSE "claim"
<1>2. /\ pc[t] = "load" /\ pc' = [pc EXCEPT ![t] = p]
      /\ work_index >= num_work_units => i' = [i EXCEPT ![t] = work_index]
      /\ work_index < num_work_units => i' = i
      /\ UNCHANGED <<work_index, done_count>>
  BY <1>1 DEF Load, Goto
<1>3. /\ p \in {"claim", "check_done", "wait"}
      /\ p # "claim" => work_index >= num_work_units
      /\ p = "wait" => t # Main
      /\ p = "check_done" => t = Main
  BY <1>1, <1>2 DEF After
<1> HIDE DEF p
<1>4. /\ pc'[t] = p /\ \A u \in Threads : u # t => pc'[u] = pc[u] /\ i'[u] = i[u]
      /\ p # "claim" => i'[t] = work_index
  BY <1>1, <1>2, <1>3 DEF TypeOK
<1>5. MainWaits'
  BY <1>1, <1>2, <1>3, <1>4 DEF MainWaits, Threads
<1>6. WorkersWait'
  <2>1. Late' \subseteq Late
    BY <1>2, <1>4 DEF Late, Threads
  <2>2. pc'[Main] \in {"stop_notify", "join"} => pc'[Main] = pc[Main]
    BY <1>3, <1>4 DEF Threads
  <2>3. QED
    BY <1>1, <1>2, <1>3, <1>4, <2>1, <2>2, LateShrinks DEF WorkersWait, Threads, WInv
<1>7. QED
  BY <1>5, <1>6

LEMMA ClaimWaits ==
  ASSUME WInv, NEW t \in Threads, Claim(t)
  PROVE  MainWaits' /\ WorkersWait'
<1>1. /\ TypeOK /\ MainWaits /\ WorkersWait /\ Main \notin Workers
      /\ work_index \in Nat /\ num_work_units \in Nat /\ Cardinality(Workers) \in Nat
  BY WorkersAssumption, ThreadsFinite DEF WInv, IInv, TypeOK
<1> DEFINE p == IF work_index < num_work_units THEN "draw" ELSE After(t, work_index + 1)
<1>2. work_index' = work_index + 1 /\ pc[t] = "claim" /\ Successor(work_index) = work_index + 1
  BY NoWrap DEF Claim, WInv
<1>3. /\ pc' = [pc EXCEPT ![t] = p]
      /\ i' = [i EXCEPT ![t] = IF work_index < num_work_units THEN work_index ELSE work_index + 1]
      /\ UNCHANGED done_count
  BY <1>2 DEF Claim, Goto
<1>4. /\ p \in {"draw", "check_done", "wait"}
      /\ p # "draw" => work_index >= num_work_units
      /\ p = "wait" => t # Main
      /\ p = "check_done" => t = Main
  BY <1>1 DEF After
<1> HIDE DEF p
<1>5. /\ pc'[t] = p /\ \A u \in Threads : u # t => pc'[u] = pc[u] /\ i'[u] = i[u]
      /\ p # "draw" => i'[t] = work_index + 1
  BY <1>1, <1>3, <1>4 DEF TypeOK
<1>6. MainWaits'
  <2>1. pc'[Main] = "notify" => i'[Main] <= work_index'
    <3>1. pc'[Main] = "notify" => t # Main /\ pc[Main] = "notify" /\ i'[Main] = i[Main]
      BY <1>4, <1>5 DEF Threads
    <3>2. i[Main] \in Int
      BY <1>1, WorkersAssumption DEF TypeOK, Threads
    <3>3. QED
      BY <1>1, <1>2, <3>1, <3>2 DEF MainWaits
  <2>2. pc'[Main] \in {"check_done", "wait", "asleep"} => work_index' >= num_work_units
    BY <1>1, <1>2, <1>4, <1>5 DEF MainWaits, Threads
  <2>3. QED
    BY <1>1, <1>2, <1>3, <1>4, <1>5, <2>1, <2>2 DEF MainWaits, Threads
<1>7. WorkersWait'
  <2>1. \A w \in Workers : pc'[w] \in {"wait", "asleep"} => i'[w] >= num_work_units
    BY <1>1, <1>4, <1>5 DEF WorkersWait, Threads
  <2>2. ASSUME pc'[Main] \in {"stop_notify", "join"}
        PROVE  work_index' + Cardinality(Late') <= Cardinality(Workers)
    <3>1. t \in Workers /\ pc[Main] = pc'[Main]
      BY <1>2, <1>4, <1>5, <2>2 DEF Threads
    <3>2. t \in Late /\ Late' = Late \ {t}
      BY <1>2, <1>4, <1>5, <3>1 DEF Late, Threads
    <3>3. Cardinality(Late') = Cardinality(Late) - 1 /\ Cardinality(Late) \in Nat
      BY <3>1, <3>2, LateCounted
    <3>4. QED
      BY <1>1, <1>2, <2>2, <3>1, <3>3 DEF WorkersWait
  <2>3. pc'[Main] = "join" => \A w \in Workers : pc'[w] # "asleep"
    BY <1>1, <1>4, <1>5 DEF WorkersWait, Threads
  <2>4. QED
    BY <2>1, <2>2, <2>3 DEF WorkersWait
<1>8. QED
  BY <1>6, <1>7

LEMMA DrawWaits ==
  ASSUME WInv, NEW t \in Threads, Draw(t)
  PROVE  MainWaits' /\ WorkersWait'
<1>1. TypeOK /\ MainWaits /\ WorkersWait /\ Main \notin Workers
  BY WorkersAssumption DEF WInv, IInv
<1>2. /\ pc[t] = "draw" /\ pc' = [pc EXCEPT ![t] = "count"]
      /\ UNCHANGED <<work_index, done_count, i>>
  BY DEF Draw, Goto
<1>3. pc'[t] = "count" /\ \A u \in Threads : u # t => pc'[u] = pc[u]
  BY <1>1, <1>2 DEF TypeOK
<1>4. Late' \subseteq Late
  BY <1>3 DEF Late, Threads
<1>5. MainWaits'
  BY <1>1, <1>2, <1>3 DEF MainWaits, Threads
<1>6. WorkersWait'
  BY <1>1, <1>2, <1>3, <1>4, LateShrinks DEF WorkersWait, Threads, WInv
<1>7. QED
  BY <1>5, <1>6

\* Whoever reports the last unit will notify.
LEMMA CountWaits ==
  ASSUME WInv, NEW t \in Threads, Count(t)
  PROVE  MainWaits' /\ WorkersWait'
<1>1. /\ TypeOK /\ MainWaits /\ WorkersWait /\ Main \notin Workers
      /\ work_index \in Nat /\ num_work_units \in Nat /\ done_count \in Nat
  BY WorkersAssumption DEF WInv, IInv, TypeOK
<1>0. i[t] \in Int
  BY <1>1, WorkersAssumption DEF TypeOK
<1> DEFINE p == IF done_count + 1 >= num_work_units THEN "notify" ELSE After(t, i[t] + 1)
<1>2. /\ pc[t] = "count" /\ pc' = [pc EXCEPT ![t] = p]
      /\ i' = [i EXCEPT ![t] = i[t] + 1]
      /\ UNCHANGED work_index /\ done_count' = done_count + 1
  BY <1>1 DEF Count, Goto, TypeOK
<1>3. /\ p \in {"notify", "load", "test", "check_done", "wait"}
      /\ p # "notify" => done_count + 1 < num_work_units
      /\ p \in {"check_done", "wait"} => i[t] + 1 >= num_work_units
      /\ p \in {"wait", "test"} => t # Main
      /\ p \in {"load", "check_done"} => t = Main
  BY <1>1, <1>0 DEF After
<1> HIDE DEF p
<1>4. /\ pc'[t] = p /\ \A u \in Threads : u # t => pc'[u] = pc[u] /\ i'[u] = i[u]
      /\ i'[t] = i[t] + 1 /\ i[t] \in Int
  BY <1>1, <1>2, WorkersAssumption DEF TypeOK
<1>5. t = Main => i[t] + 1 <= work_index
  <2>1. t = Main => pc[Main] \in Running /\ t \in Busy
    BY <1>2 DEF Running, WorkPlaces, Busy
  <2>2. t = Main => i[t] < work_index
    BY <2>1 DEF WInv, IInv, UnitsShared
  <2>3. QED
    BY <1>1, <1>4, <2>2
<1>6. Late' \subseteq Late
  BY <1>1, <1>3, <1>4 DEF Late, Threads
<1>7. MainWaits'
  <2>1. CASE t = Main
    BY <1>1, <1>2, <1>3, <1>4, <1>5, <2>1 DEF MainWaits
  <2>2. CASE t # Main
    <3>1. t \in Workers /\ pc'[Main] = pc[Main] /\ i'[Main] = i[Main]
      BY <1>4, <2>2 DEF Threads
    <3>2. pc[Main] = "asleep" =>
            done_count' < num_work_units \/ \E w \in Workers : pc'[w] = "notify"
      <4>1. CASE p = "notify"
        BY <1>4, <3>1, <4>1
      <4>2. CASE p # "notify"
        BY <1>2, <1>3, <4>2
      <4>3. QED
        BY <4>1, <4>2
    <3>3. QED
      BY <1>1, <1>2, <3>1, <3>2 DEF MainWaits
  <2>3. QED
    BY <2>1, <2>2
<1>8. WorkersWait'
  <2>1. \A w \in Workers : pc'[w] \in {"wait", "asleep"} => i'[w] >= num_work_units
    BY <1>1, <1>3, <1>4 DEF WorkersWait, Threads
  <2>2. pc'[Main] \in {"stop_notify", "join"} => pc'[Main] = pc[Main]
    BY <1>3, <1>4 DEF Threads
  <2>3. pc'[Main] = "join" => \A w \in Workers : pc'[w] # "asleep"
    BY <1>1, <1>3, <1>4, <2>2 DEF WorkersWait, Threads
  <2>4. QED
    BY <1>1, <1>2, <1>6, <2>1, <2>2, <2>3, LateShrinks DEF WorkersWait, WInv
<1>9. QED
  BY <1>7, <1>8

LEMMA NotifyDoneWaits ==
  ASSUME WInv, NEW t \in Threads, NotifyDone(t)
  PROVE  MainWaits' /\ WorkersWait'
<1>1. /\ TypeOK /\ MainWaits /\ WorkersWait /\ Main \notin Workers
      /\ work_index \in Nat /\ num_work_units \in Nat
      /\ \A u \in Threads : i[u] \in Int
  BY WorkersAssumption DEF WInv, IInv, TypeOK
<1> DEFINE p == After(t, i[t])
<1>2. /\ pc[t] = "notify" /\ pc' = [Woken({Main}) EXCEPT ![t] = p]
      /\ UNCHANGED <<work_index, done_count, i>>
  BY DEF NotifyDone
<1>3. /\ p \in {"load", "test", "check_done", "wait"}
      /\ p \in {"check_done", "wait"} => i[t] >= num_work_units
      /\ p \in {"wait", "test"} => t # Main
      /\ p \in {"load", "check_done"} => t = Main
  BY <1>1 DEF After
<1> HIDE DEF p
<1>4. /\ pc'[t] = p
      /\ \A u \in Threads : u # t =>
           pc'[u] = IF u = Main /\ pc[u] = "asleep" THEN "wait" ELSE pc[u]
  BY <1>1, <1>2 DEF Woken
<1>5. Late' \subseteq Late
  BY <1>1, <1>3, <1>4 DEF Late, Threads
<1>6. MainWaits'
  <2>1. CASE t = Main
    BY <1>1, <1>2, <1>3, <1>4, <2>1 DEF MainWaits, Threads
  <2>2. CASE t # Main
    <3>1. pc'[Main] = IF pc[Main] = "asleep" THEN "wait" ELSE pc[Main]
      BY <1>4, <2>2 DEF Threads
    <3>2. QED
      BY <1>1, <1>2, <3>1 DEF MainWaits
  <2>3. QED
    BY <2>1, <2>2
<1>7. WorkersWait'
  <2>1. \A w \in Workers : w # t => pc'[w] = pc[w]
    BY <1>1, <1>4 DEF Threads
  <2>2. \A w \in Workers : pc'[w] \in {"wait", "asleep"} => i'[w] >= num_work_units
    BY <1>1, <1>2, <1>3, <1>4, <2>1 DEF WorkersWait
  <2>3. pc'[Main] \in {"stop_notify", "join"} => pc'[Main] = pc[Main]
    BY <1>1, <1>3, <1>4 DEF Threads
  <2>4. pc'[Main] = "join" => \A w \in Workers : pc'[w] # "asleep"
    BY <1>1, <1>3, <1>4, <2>1, <2>3 DEF WorkersWait
  <2>5. QED
    BY <1>1, <1>2, <1>5, <2>2, <2>3, <2>4, LateShrinks DEF WorkersWait, WInv
<1>8. QED
  BY <1>6, <1>7

\* A worker goes to sleep on the index it has seen, which the index is not when
\* the threads are to be joined.
LEMMA WaitingWaits ==
  ASSUME WInv, NEW w \in Workers, Test(w) \/ WaitForWork(w)
  PROVE  MainWaits' /\ WorkersWait'
<1>1. /\ TypeOK /\ MainWaits /\ WorkersWait /\ Main \notin Workers /\ WorkersStopped
      /\ work_index \in Nat /\ num_work_units \in Nat /\ Cardinality(Workers) \in Nat
      /\ num_work_units > Cardinality(Workers) /\ w \in Threads
  BY WorkersAssumption, ThreadsFinite DEF WInv, IInv, TypeOK, Threads
<1> DEFINE p == IF pc[w] = "test" THEN (IF threads_active THEN "load" ELSE "none")
                ELSE IF work_index = i[w] THEN "asleep" ELSE "test"
<1>2. /\ pc[w] \in {"test", "wait"} /\ pc' = [pc EXCEPT ![w] = p]
      /\ UNCHANGED <<work_index, done_count, i>>
  BY DEF Test, WaitForWork, Goto
<1>3. /\ p \in {"load", "none", "asleep", "test"}
      /\ p = "load" => threads_active
      /\ p = "asleep" => work_index = i[w] /\ pc[w] = "wait"
  BY <1>2
<1> HIDE DEF p
<1>4. pc'[w] = p /\ \A u \in Threads : u # w => pc'[u] = pc[u]
  BY <1>1, <1>2 DEF TypeOK
<1>5. pc'[Main] = pc[Main]
  BY <1>1, <1>4 DEF Threads
<1>6. MainWaits'
  BY <1>1, <1>2, <1>3, <1>4, <1>5 DEF MainWaits, Threads
<1>7. \A u \in Workers : pc'[u] \in {"wait", "asleep"} => i'[u] >= num_work_units
  BY <1>1, <1>2, <1>3, <1>4 DEF WorkersWait, Threads
<1>8. ASSUME pc[Main] \in {"stop_notify", "join"}
      PROVE  /\ work_index' + Cardinality(Late') <= Cardinality(Workers)
             /\ p # "asleep"
  <2>1. ~threads_active
    BY <1>1, <1>8 DEF WorkersStopped, Stopping
  <2>2. Late' \subseteq Late
    BY <1>3, <1>4, <2>1 DEF Late, Threads
  <2>3. work_index' + Cardinality(Late') <= Cardinality(Workers)
    BY <1>1, <1>2, <1>8, <2>2, LateShrinks DEF WInv
  <2>4. work_index <= Cardinality(Workers)
    BY <1>1, <1>8, LateCounted DEF WorkersWait
  <2>5. pc[w] = "wait" => i[w] >= num_work_units /\ i[w] \in Int
    BY <1>1, WorkersAssumption DEF WorkersWait, TypeOK
  <2>6. QED
    BY <1>1, <1>3, <2>3, <2>4, <2>5
<1>9. WorkersWait'
  BY <1>1, <1>4, <1>5, <1>7, <1>8 DEF WorkersWait, Threads
<1>10. QED
  BY <1>6, <1>9

\* The steps of the main thread alone: it looks at the counter before it waits,
\* and resets the index before it joins.
LEMMA MainStepWaits ==
  ASSUME WInv,
         \/ Triangle \/ DrawAlone \/ DrawTogether \/ Spawned
         \/ ResetDone \/ ResetIndex \/ CheckDone \/ WaitForDone
         \/ Shutdown \/ StopIndex \/ Join \/ Startup
  PROVE  MainWaits' /\ WorkersWait'
<1>1. /\ IInv /\ TypeOK /\ MainWaits /\ WorkersWait
      /\ Main \notin Workers /\ Main \in Threads /\ Workers \subseteq Threads
      /\ work_index \in Nat /\ num_work_units \in Nat /\ done_count \in Nat
      /\ Cardinality(Workers) \in Nat
  BY WorkersAssumption, ThreadsFinite DEF WInv, IInv, TypeOK, Threads
<1>2. PICK p \in MainPlaces \ {"claim", "draw", "count"} :
        /\ pc' = [pc EXCEPT ![Main] = p]
        /\ pc[Main] \notin {"claim", "draw", "count", "stop_notify"}
        /\ p \in {"wait", "asleep", "check_done"} => pc[Main] \in {"check_done", "wait"}
        /\ p = "wait" => done_count < num_work_units /\ i'[Main] = done_count
        /\ p = "asleep" => pc[Main] = "wait" /\ done_count = i[Main]
        /\ p = "asleep" => UNCHANGED <<done_count, i>>
        /\ p = "stop_notify" => work_index' = 0
        /\ p \in {"wait", "asleep", "check_done"} => UNCHANGED work_index
        /\ p \notin {"notify", "join"}
  BY <1>1 DEF Triangle, DrawAlone, DrawTogether, Spawned, ResetDone, ResetIndex, CheckDone,
       WaitForDone, Shutdown, StopIndex, Join, Startup, Goto, MainPlaces, TypeOK
<1>3. pc'[Main] = p /\ \A w \in Workers : pc'[w] = pc[w]
  BY <1>1, <1>2, MainMoved
<1>4. \A w \in Workers : i'[w] = i[w]
  BY <1>1 DEF Triangle, DrawAlone, DrawTogether, Spawned, ResetDone, ResetIndex, CheckDone,
       WaitForDone, Shutdown, StopIndex, Join, Startup, TypeOK
<1>5. Late' = Late
  BY <1>3 DEF Late
<1>6. MainWaits'
  BY <1>1, <1>2, <1>3 DEF MainWaits
<1>7. WorkersWait'
  BY <1>1, <1>2, <1>3, <1>4, <1>5, LateCounted DEF WorkersWait
<1>8. QED
  BY <1>6, <1>7

\* The notification reaches every worker that sleeps.
LEMMA NotifyWorkWaits ==
  ASSUME WInv, NotifyWork
  PROVE  MainWaits' /\ WorkersWait'
<1>1. /\ TypeOK /\ MainWaits /\ WorkersWait
      /\ Main \notin Workers /\ Main \in Threads /\ Workers \subseteq Threads
  BY WorkersAssumption DEF WInv, IInv, TypeOK, Threads
<1>2. PICK p : /\ pc' = [Woken(Workers) EXCEPT ![Main] = p]
               /\ \/ pc[Main] = "notify_work" /\ p = "load"
                  \/ pc[Main] = "stop_notify" /\ p = "join"
  BY DEF NotifyWork
<1>3. UNCHANGED <<work_index, done_count, i>>
  BY DEF NotifyWork
<1>4. /\ pc'[Main] = p
      /\ \A w \in Workers : pc'[w] = IF pc[w] = "asleep" THEN "wait" ELSE pc[w]
  BY <1>1, <1>2 DEF Woken
<1>5. Late' = Late
  BY <1>4 DEF Late
<1>6. MainWaits'
  BY <1>2, <1>4 DEF MainWaits
<1>7. WorkersWait'
  BY <1>1, <1>2, <1>3, <1>4, <1>5 DEF WorkersWait
<1>8. QED
  BY <1>6, <1>7

\* A worker is started, or a thread wakes up without a notification.
LEMMA WakingWaits ==
  ASSUME WInv, NEW t \in Threads, SpuriousWake(t) \/ (t \in Workers /\ Spawn(t))
  PROVE  MainWaits' /\ WorkersWait'
<1>1. /\ TypeOK /\ MainWaits /\ WorkersWait
      /\ Main \notin Workers /\ Main \in Threads /\ Workers \subseteq Threads
  BY WorkersAssumption DEF WInv, IInv, TypeOK, Threads
<1>2. PICK p : /\ pc' = [pc EXCEPT ![t] = p]
               /\ \/ pc[t] = "asleep" /\ p = "wait"
                  \/ pc[t] = "none" /\ p = "test" /\ t \in Workers
  BY DEF SpuriousWake, Spawn, Goto
<1>3. UNCHANGED <<work_index, done_count, i>>
  BY DEF SpuriousWake, Spawn
<1>4. pc'[t] = p /\ \A u \in Threads : u # t => pc'[u] = pc[u]
  BY <1>1, <1>2 DEF TypeOK
<1>5. Late' = Late
  BY <1>1, <1>2, <1>4 DEF Late
<1>6. MainWaits'
  BY <1>1, <1>2, <1>3, <1>4 DEF MainWaits
<1>7. WorkersWait'
  BY <1>1, <1>2, <1>3, <1>4, <1>5 DEF WorkersWait
<1>8. QED
  BY <1>6, <1>7

LEMMA InitWaits ==
  ASSUME Init
  PROVE  WInv
<1>1. IInv /\ Main \notin Workers
  BY InitInvariant, WorkersAssumption
<1>2. pc[Main] = "idle" /\ \A w \in Workers : pc[w] = "none"
  BY <1>1 DEF Init, Threads
<1>3. QED
  BY <1>1, <1>2 DEF WInv, MainWaits, WorkersWait

LEMMA NextWaits ==
  ASSUME WInv, [Next]_vars
  PROVE  WInv'
<1>1. IInv'
  BY NextInvariant DEF WInv
<1>2. MainWaits' /\ WorkersWait'
  <2>1. CASE UNCHANGED vars
    <3>1. Late' = Late
      BY <2>1 DEF vars, Late
    <3>2. QED
      BY <2>1, <3>1 DEF vars, WInv, MainWaits, WorkersWait
  <2>2. ASSUME NEW t \in Threads, DoTriangleWork(t)
        PROVE  MainWaits' /\ WorkersWait'
    BY <2>2, LoadWaits, ClaimWaits, DrawWaits, CountWaits, NotifyDoneWaits DEF DoTriangleWork
  <2>3. ASSUME NEW w \in Workers, WorkerStep(w)
        PROVE  MainWaits' /\ WorkersWait'
    BY <2>2, <2>3, WaitingWaits DEF WorkerStep, Threads
  <2>4. CASE MainStep
    BY <2>2, <2>4, MainStepWaits, NotifyWorkWaits, WakingWaits DEF MainStep, Threads
  <2>5. CASE Triangle \/ Shutdown \/ Startup
    BY <2>5, MainStepWaits
  <2>6. ASSUME NEW t \in Threads, SpuriousWake(t)
        PROVE  MainWaits' /\ WorkersWait'
    BY <2>6, WakingWaits
  <2>7. QED
    BY <2>1, <2>3, <2>4, <2>5, <2>6 DEF Next
<1>3. QED
  BY <1>1, <1>2 DEF WInv

\* Nobody sleeps for ever: while the main thread sleeps on the number of units
\* done (triangle_worker_run), a worker is about to report one or to notify it;
\* and when it joins the workers (triangle_worker_shutdown) none of them sleeps,
\* nor will one go to sleep again, whatever values the counters had before.
SleepersAreWoken ==
  /\ pc[Main] = "asleep" => \E w \in Workers : pc[w] \in {"draw", "count", "notify"}
  /\ pc[Main] = "join" => \A w \in Workers : pc[w] # "asleep"

\* The safe part of MainReturns, for any number of workers and of units: with the
\* fairness of FairSpec, only a worker that runs can keep the main thread waiting.
THEOREM NoLostNotification == Spec => []SleepersAreWoken
<1>1. Init => WInv
  BY InitWaits
<1>2. WInv /\ [Next]_vars => WInv'
  BY NextWaits
<1>3. WInv => SleepersAreWoken
  <2> SUFFICES ASSUME WInv, pc[Main] = "asleep", \A w \in Workers : pc[w] # "notify"
               PROVE  \E w \in Workers : pc[w] \in {"draw", "count"}
    BY DEF SleepersAreWoken, WInv, WorkersWait
  <2>1. /\ done_count < num_work_units /\ work_index >= num_work_units
        /\ done_count \in Nat /\ num_work_units \in Nat /\ work_index \in Nat
    BY WorkersAssumption DEF WInv, MainWaits, IInv, TypeOK
  <2>2. done_count + Cardinality(Busy) = num_work_units
    BY <2>1 DEF WInv, IInv, DoneCounted, Taken, Running
  <2>3. Busy # {}
    BY <2>1, <2>2, FS_EmptySet
  <2>4. QED
    BY <2>3 DEF Busy, Threads
<1>4. QED
  BY <1>1, <1>2, <1>3, PTL DEF Spec
=============================================================================
