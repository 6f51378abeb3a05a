------------------------- MODULE MixerThreadProofs -------------------------
(***************************************************************************)
(* Proofs about MixerThread, for any devices, installations and sizes: the *)
(* mixer thread works on live devices only, locks and queues are back to   *)
(* normal between scripts, and no sound is left out.                       *)
(*                                                                         *)
(* What the main thread has still to do is its script.  Part one is about  *)
(* scripts alone: which ones keep their promises from which state of the   *)
(* main thread (a plan), composed from the operators that make them.  Part *)
(* two shows that the rest of the script always does, whatever the other   *)
(* threads do between two of its steps.                                    *)
(***************************************************************************)
EXTENDS MixerThread, SequenceTheorems, TLAPS

----------------------------------------------------------------------------
(* Plans.                                                                  *)

\* What a script works on: how often the mutex is locked, the devices that
\* exist, are pointed to and have a channel; and what is known of queues and
\* channels: "doomed" devices are about to be freed, the channels of those that
\* are "off" are disabled, the queues of those that are "started" run.
PlanStates ==
  [depth : Nat, installed : SUBSET Devices, exists : SUBSET Devices,
   pointed : SUBSET Devices, channels : SUBSET Devices, doomed : SUBSET Devices,
   off : SUBSET Devices, started : SUBSET Devices]

Steps == [op : Operations, dev : Devices \cup {"none"}]

DeviceOperations ==
  {"construct", "add", "point", "forget", "enable", "disable", "erase", "free", "start", "stop"}

\* A lock stops the queues of the devices that are pointed to.  A PS/1 or Tandy
\* DAC is locked for without its pointer.
Lockable(a) == a.depth > 0 \/ a.channels \ a.pointed \subseteq Ps1s

\* When a step can be taken without harm.
Allowed(x, a) ==
  /\ x.op \in DeviceOperations => x.dev \in Devices
  /\ x.op = "lock" => Lockable(a)
  /\ x.op \in {"unlock", "erase"} => a.depth > 0
  /\ x.op = "construct" => x.dev \in a.installed
  /\ x.op \in {"add", "point", "start"} => x.dev \in a.exists
  /\ x.op = "add" /\ x.dev \in ReelMagics => x.dev \in a.pointed /\ a.depth > 0
  /\ x.op = "forget" => x.dev \notin ReelMagics
  /\ x.op = "free" => x.dev \notin a.pointed \cup a.channels
  /\ x.op = "enable" => x.dev \in a.started
  /\ x.op = "stop" => x.dev \in a.doomed \/ x.dev \in ReelMagics \cap a.off

With(x, op, S) == IF x.op = op THEN S \cup {x.dev} ELSE S
Minus(x, op, S) == IF x.op = op THEN S \ {x.dev} ELSE S

\* What it does.
After(x, a) ==
  [depth     |-> IF x.op = "lock" THEN a.depth + 1
                 ELSE IF x.op = "unlock" THEN a.depth - 1 ELSE a.depth,
   installed |-> a.installed,
   exists    |-> Minus(x, "free", With(x, "construct", a.exists)),
   pointed   |-> Minus(x, "forget", With(x, "point", a.pointed)),
   channels  |-> Minus(x, "erase", With(x, "add", a.channels)),
   doomed    |-> Minus(x, "free", With(x, "forget", a.doomed)),
   off       |-> Minus(x, "enable", With(x, "disable", a.off)),
   started   |-> IF x.op = "lock" THEN {}
                 ELSE Minus(x, "free", Minus(x, "stop", With(x, "start", a.started)))]

\* Script s leads from a to b, every step being allowed where it is taken.
IsRun(run, s, a, b) ==
  /\ run \in [0 .. Len(s) -> PlanStates]
  /\ run[0] = a /\ run[Len(s)] = b
  /\ \A i \in 1 .. Len(s) : Allowed(s[i], run[i - 1]) /\ run[i] = After(s[i], run[i - 1])

Runs(s, a, b) == s \in Seq(Steps) /\ \E run : IsRun(run, s, a, b)

\* A step leads from state to state.
LEMMA AfterType ==
  ASSUME NEW x \in Steps, NEW a \in PlanStates, Allowed(x, a)
  PROVE  After(x, a) \in PlanStates
<1>1. /\ a.depth \in Nat /\ a.installed \in SUBSET Devices /\ a.exists \in SUBSET Devices
      /\ a.pointed \in SUBSET Devices /\ a.channels \in SUBSET Devices
      /\ a.doomed \in SUBSET Devices /\ a.off \in SUBSET Devices
      /\ a.started \in SUBSET Devices
  BY DEF PlanStates
<1>2. \A op \in DeviceOperations : \A S \in SUBSET Devices :
        With(x, op, S) \in SUBSET Devices /\ Minus(x, op, S) \in SUBSET Devices
  BY DEF Allowed, With, Minus
<1>3. /\ Minus(x, "free", With(x, "construct", a.exists)) \in SUBSET Devices
      /\ Minus(x, "forget", With(x, "point", a.pointed)) \in SUBSET Devices
      /\ Minus(x, "erase", With(x, "add", a.channels)) \in SUBSET Devices
      /\ Minus(x, "free", With(x, "forget", a.doomed)) \in SUBSET Devices
      /\ Minus(x, "enable", With(x, "disable", a.off)) \in SUBSET Devices
      /\ Minus(x, "free", Minus(x, "stop", With(x, "start", a.started))) \in SUBSET Devices
  BY <1>1, <1>2 DEF DeviceOperations
<1>4. x.op = "unlock" => a.depth - 1 \in Nat
  BY <1>1 DEF Allowed
<1>5. QED
  BY <1>1, <1>3, <1>4 DEF After, PlanStates

\* The script without steps leads nowhere.
LEMMA RunsEmpty ==
  /\ \A a \in PlanStates : Runs(<<>>, a, a)
  /\ \A a, b : Runs(<<>>, a, b) => a = b /\ a \in PlanStates
<1>1. ASSUME NEW a \in PlanStates PROVE Runs(<<>>, a, a)
  <2>1. IsRun([i \in 0 .. 0 |-> a], <<>>, a, a)
    BY DEF IsRun
  <2>2. QED
    BY <2>1 DEF Runs
<1>2. ASSUME NEW a, NEW b, Runs(<<>>, a, b) PROVE a = b /\ a \in PlanStates
  BY <1>2 DEF Runs, IsRun
<1>3. QED
  BY <1>1, <1>2

\* A script of one step.
LEMMA RunsStep ==
  ASSUME NEW op \in Operations, NEW d \in Devices \cup {"none"}, NEW a \in PlanStates,
         Allowed([op |-> op, dev |-> d], a)
  PROVE  Runs(Step(op, d), a, After([op |-> op, dev |-> d], a))
<1> DEFINE x == [op |-> op, dev |-> d]
           b == After(x, a)
           run == [i \in 0 .. 1 |-> IF i = 0 THEN a ELSE b]
<1>1. x \in Steps
  BY DEF Steps
<1>2. b \in PlanStates
  BY <1>1, AfterType
<1>3. Step(op, d) = <<x>> /\ Allowed(x, a)
  BY DEF Step
<1> HIDE DEF x, b
<1>4. /\ run \in [0 .. 1 -> PlanStates]
      /\ run[0] = a /\ run[1] = b
  BY <1>2
<1> HIDE DEF run
<1>5. /\ Step(op, d) \in Seq(Steps) /\ Len(Step(op, d)) = 1 /\ Step(op, d)[1] = x
  BY <1>1, <1>3
<1>6. \A i \in 1 .. 1 : Allowed(Step(op, d)[i], run[i - 1]) /\ run[i] = After(Step(op, d)[i], run[i - 1])
  BY <1>3, <1>4, <1>5 DEF b
<1>7. IsRun(run, Step(op, d), a, b)
  BY <1>4, <1>5, <1>6 DEF IsRun
<1>8. Runs(Step(op, d), a, b)
  BY <1>5, <1>7 DEF Runs
<1>9. QED
  BY <1>8 DEF b, x

\* One script after another.
LEMMA RunsConcat ==
  ASSUME NEW s, NEW t, NEW a, NEW b, NEW c, Runs(s, a, b), Runs(t, b, c)
  PROVE  Runs(s \o t, a, c)
<1>1. PICK r1 : IsRun(r1, s, a, b)
  BY DEF Runs
<1>2. PICK r2 : IsRun(r2, t, b, c)
  BY DEF Runs
<1> DEFINE m == Len(s)
           n == Len(t)
           q == s \o t
           run == [i \in 0 .. (m + n) |-> IF i <= m THEN r1[i] ELSE r2[i - m]]
<1>3. s \in Seq(Steps) /\ t \in Seq(Steps) /\ m \in Nat /\ n \in Nat
  BY DEF Runs
<1>4. /\ q \in Seq(Steps) /\ Len(q) = m + n
      /\ \A i \in 1 .. (m + n) : q[i] = IF i <= m THEN s[i] ELSE t[i - m]
  BY <1>3, ConcatProperties, Zenon
<1>5. /\ r1 \in [0 .. m -> PlanStates] /\ r1[0] = a /\ r1[m] = b
      /\ \A i \in 1 .. m : Allowed(s[i], r1[i - 1]) /\ r1[i] = After(s[i], r1[i - 1])
  BY <1>1 DEF IsRun
<1>6. /\ r2 \in [0 .. n -> PlanStates] /\ r2[0] = b /\ r2[n] = c
      /\ \A i \in 1 .. n : Allowed(t[i], r2[i - 1]) /\ r2[i] = After(t[i], r2[i - 1])
  BY <1>2 DEF IsRun
<1> HIDE DEF m, n, q
<1>7. run \in [0 .. (m + n) -> PlanStates]
  <2>1. ASSUME NEW i \in 0 .. (m + n) PROVE (IF i <= m THEN r1[i] ELSE r2[i - m]) \in PlanStates
    <3>1. CASE i <= m
      <4>1. i \in 0 .. m
        BY <1>3, <3>1
      <4>2. QED
        BY <1>5, <3>1, <4>1
    <3>2. CASE ~(i <= m)
      <4>1. i - m \in 0 .. n
        BY <1>3, <3>2
      <4>2. QED
        BY <1>6, <3>2, <4>1
    <3>3. QED
      BY <3>1, <3>2
  <2>2. QED
    BY <2>1
<1>8. run[0] = a /\ run[m + n] = c
  BY <1>3, <1>5, <1>6
<1>9. ASSUME NEW i \in 1 .. (m + n)
      PROVE  Allowed(q[i], run[i - 1]) /\ run[i] = After(q[i], run[i - 1])
  <2>1. CASE i <= m
    <3>1. i \in 1 .. m /\ i - 1 <= m /\ i - 1 \in 0 .. (m + n) /\ i \in 0 .. (m + n)
      BY <1>3, <2>1
    <3>2. q[i] = s[i] /\ run[i] = r1[i] /\ run[i - 1] = r1[i - 1]
      BY <1>4, <2>1, <3>1
    <3>3. QED
      BY <1>5, <3>1, <3>2
  <2>2. CASE ~(i <= m)
    <3>1. /\ i - m \in 1 .. n /\ i - 1 \in 0 .. (m + n) /\ i \in 0 .. (m + n)
          /\ (i - m) - 1 = (i - 1) - m
      BY <1>3, <2>2
    <3>2. q[i] = t[i - m] /\ run[i] = r2[i - m]
      BY <1>4, <2>2, <3>1
    <3>3. run[i - 1] = r2[(i - m) - 1]
      <4>1. CASE i - 1 <= m
        <5>1. i - 1 = m /\ (i - m) - 1 = 0
          BY <1>3, <2>2, <4>1
        <5>2. QED
          BY <1>5, <1>6, <3>1, <4>1, <5>1
      <4>2. CASE ~(i - 1 <= m)
        BY <3>1, <4>2
      <4>3. QED
        BY <4>1, <4>2
    <3> HIDE DEF run
    <3>4. QED
      BY <1>6, <3>1, <3>2, <3>3
  <2>3. QED
    BY <2>1, <2>2
<1> HIDE DEF run
<1>10. IsRun(run, q, a, c)
  BY <1>4, <1>7, <1>8, <1>9 DEF IsRun
<1>11. QED
  BY <1>4, <1>10 DEF Runs, q

\* The rest of a script goes on from where its first step leads.
LEMMA RunsTail ==
  ASSUME NEW s, NEW a, NEW b, Runs(s, a, b), s # <<>>
  PROVE  /\ a \in PlanStates /\ Head(s) \in Steps
         /\ Allowed(Head(s), a)
         /\ Runs(Tail(s), After(Head(s), a), b)
<1>1. PICK run : IsRun(run, s, a, b)
  BY DEF Runs
<1> DEFINE n == Len(s)
           t == Tail(s)
           r == [i \in 0 .. (n - 1) |-> run[i + 1]]
<1>2. /\ s \in Seq(Steps) /\ n \in Nat /\ n > 0
      /\ Head(s) = s[1] /\ Head(s) \in Steps
      /\ t \in Seq(Steps) /\ Len(t) = n - 1
      /\ \A i \in 1 .. (n - 1) : t[i] = s[i + 1]
  BY DEF Runs
<1>3. /\ run \in [0 .. n -> PlanStates] /\ run[0] = a /\ run[n] = b
      /\ \A i \in 1 .. n : Allowed(s[i], run[i - 1]) /\ run[i] = After(s[i], run[i - 1])
  BY <1>1 DEF IsRun
<1> HIDE DEF n, t
<1>4. a \in PlanStates /\ Allowed(Head(s), a) /\ run[1] = After(Head(s), a)
  <2>1. 1 \in 1 .. n /\ 0 \in 0 .. n /\ 1 - 1 = 0
    BY <1>2
  <2>2. QED
    BY <1>2, <1>3, <2>1
<1>5. r \in [0 .. (n - 1) -> PlanStates] /\ r[0] = run[1] /\ r[n - 1] = b
  BY <1>2, <1>3
<1>6. ASSUME NEW i \in 1 .. (n - 1) PROVE Allowed(t[i], r[i - 1]) /\ r[i] = After(t[i], r[i - 1])
  <2>1. i + 1 \in 1 .. n /\ (i + 1) - 1 = i /\ (i - 1) + 1 = i
    BY <1>2
  <2>2. r[i] = run[i + 1] /\ r[i - 1] = run[i] /\ t[i] = s[i + 1]
    BY <1>2, <2>1
  <2> HIDE DEF r
  <2>3. QED
    BY <1>3, <2>1, <2>2
<1> HIDE DEF r
<1>7. IsRun(r, t, After(Head(s), a), b)
  BY <1>2, <1>4, <1>5, <1>6 DEF IsRun
<1>8. QED
  BY <1>2, <1>4, <1>7 DEF Runs, t

----------------------------------------------------------------------------
(* The scripts, composed as the operators of MixerThread compose them.     *)

LockStep == [op |-> "lock", dev |-> "none"]
UnlockStep == [op |-> "unlock", dev |-> "none"]

Up(a) == After(LockStep, a)

\* What a script that locks at some time makes of a: no queue is known to run.
Left(a, exs, ptd, chs, dmd, offs) ==
  [depth |-> a.depth, installed |-> a.installed, exists |-> exs, pointed |-> ptd,
   channels |-> chs, doomed |-> dmd, off |-> offs, started |-> {}]

\* A lock leads to the same state, one level deeper.
LEMMA UpState ==
  ASSUME NEW a \in PlanStates
  PROVE  /\ Up(a) \in PlanStates
         /\ Up(a).depth = a.depth + 1 /\ Up(a).depth > 0 /\ Lockable(Up(a))
         /\ Up(a).installed = a.installed /\ Up(a).exists = a.exists
         /\ Up(a).pointed = a.pointed /\ Up(a).channels = a.channels
         /\ Up(a).doomed = a.doomed /\ Up(a).off = a.off
         /\ Up(a).started = {}
<1>1. /\ a.depth \in Nat /\ a.installed \in SUBSET Devices /\ a.exists \in SUBSET Devices
      /\ a.pointed \in SUBSET Devices /\ a.channels \in SUBSET Devices
      /\ a.doomed \in SUBSET Devices /\ a.off \in SUBSET Devices
  BY DEF PlanStates
<1>2. /\ Up(a).depth = a.depth + 1 /\ Up(a).depth > 0
      /\ Up(a).installed = a.installed /\ Up(a).exists = a.exists
      /\ Up(a).pointed = a.pointed /\ Up(a).channels = a.channels
      /\ Up(a).doomed = a.doomed /\ Up(a).off = a.off
      /\ Up(a).started = {}
  BY <1>1 DEF Up, After, LockStep, With, Minus
<1>3. Up(a) \in PlanStates
  BY <1>1 DEF Up, After, LockStep, With, Minus, PlanStates
<1>4. QED
  BY <1>2, <1>3 DEF Lockable

\* What runs under a lock runs with the lock and the unlock around it.
LEMMA LockedRuns ==
  ASSUME NEW a \in PlanStates, Lockable(a), NEW s,
         NEW exs \in SUBSET Devices, NEW ptd \in SUBSET Devices, NEW chs \in SUBSET Devices,
         NEW dmd \in SUBSET Devices, NEW offs \in SUBSET Devices,
         Runs(s, Up(a), Left(Up(a), exs, ptd, chs, dmd, offs))
  PROVE  Runs(Locked(s), a, Left(a, exs, ptd, chs, dmd, offs))
<1> DEFINE b == Left(Up(a), exs, ptd, chs, dmd, offs)
<1>1. a.depth \in Nat /\ a.installed \in SUBSET Devices
  BY DEF PlanStates
<1>2. b \in PlanStates /\ b.depth > 0
  <2>1. Up(a).depth \in Nat /\ Up(a).depth > 0 /\ Up(a).installed \in SUBSET Devices
    BY <1>1, UpState
  <2>2. QED
    BY <2>1 DEF Left, PlanStates
<1>3. Allowed(LockStep, a) /\ Allowed(UnlockStep, b)
  BY <1>2 DEF LockStep, UnlockStep, Allowed, DeviceOperations
<1>4. After(UnlockStep, b) = Left(a, exs, ptd, chs, dmd, offs)
  <2>1. /\ b.depth - 1 = a.depth /\ b.installed = a.installed
        /\ b.exists = exs /\ b.pointed = ptd /\ b.channels = chs
        /\ b.doomed = dmd /\ b.off = offs /\ b.started = {}
    BY <1>1, UpState DEF Left
  <2> HIDE DEF b
  <2>2. QED
    BY <2>1 DEF After, UnlockStep, With, Minus, Left
<1>5. Runs(Step("lock", "none"), a, After(LockStep, a))
  BY <1>3, RunsStep DEF LockStep, Operations
<1>6. Runs(Step("unlock", "none"), b, After(UnlockStep, b))
  BY <1>2, <1>3, RunsStep DEF UnlockStep, Operations
<1>7. Runs(Step("lock", "none") \o s, a, b)
  BY <1>5, RunsConcat DEF Up
<1>8. Runs((Step("lock", "none") \o s) \o Step("unlock", "none"), a, After(UnlockStep, b))
  BY <1>6, <1>7, RunsConcat
<1>9. QED
  BY <1>4, <1>8 DEF Locked

\* A channel is added under a lock; a ReelMagic channel only where the lock can
\* stop the queue, that is, where the device is pointed to.
LEMMA AddChannelRuns ==
  ASSUME NEW a \in PlanStates, Lockable(a), NEW d \in a.exists,
         d \in ReelMagics => d \in a.pointed
  PROVE  Runs(AddChannel(d), a,
              Left(a, a.exists, a.pointed, a.channels \cup {d}, a.doomed, a.off))
<1> DEFINE x == [op |-> "add", dev |-> d]
<1>1. /\ d \in Devices /\ a.exists \in SUBSET Devices /\ a.pointed \in SUBSET Devices
      /\ a.channels \cup {d} \in SUBSET Devices /\ a.doomed \in SUBSET Devices
      /\ a.off \in SUBSET Devices
  BY DEF PlanStates
<1>2. Allowed(x, Up(a))
  BY <1>1, UpState DEF Allowed
<1>3. Runs(Step("add", d), Up(a), After(x, Up(a)))
  BY <1>1, <1>2, UpState, RunsStep DEF Operations
<1>4. After(x, Up(a)) = Left(Up(a), a.exists, a.pointed, a.channels \cup {d}, a.doomed, a.off)
  BY UpState DEF After, With, Minus, Left
<1>5. QED
  BY <1>1, <1>3, <1>4, LockedRuns DEF AddChannel

\* A channel is removed under a lock.
LEMMA DeregisterChannelRuns ==
  ASSUME NEW a \in PlanStates, Lockable(a), NEW d \in Devices
  PROVE  Runs(DeregisterChannel(d), a,
              Left(a, a.exists, a.pointed, a.channels \ {d}, a.doomed, a.off))
<1> DEFINE x == [op |-> "erase", dev |-> d]
<1>1. /\ a.exists \in SUBSET Devices /\ a.pointed \in SUBSET Devices
      /\ a.channels \ {d} \in SUBSET Devices /\ a.doomed \in SUBSET Devices
      /\ a.off \in SUBSET Devices
  BY DEF PlanStates
<1>2. Allowed(x, Up(a))
  BY UpState DEF Allowed
<1>3. Runs(Step("erase", d), Up(a), After(x, Up(a)))
  BY <1>2, UpState, RunsStep DEF Operations
<1>4. After(x, Up(a)) = Left(Up(a), a.exists, a.pointed, a.channels \ {d}, a.doomed, a.off)
  BY UpState DEF After, With, Minus, Left
<1>5. QED
  BY <1>1, <1>3, <1>4, LockedRuns DEF DeregisterChannel

\* A constructor makes a device and its channel.
LEMMA ConstructorRuns ==
  ASSUME NEW a \in PlanStates, Lockable(a), NEW d \in a.installed, d \notin ReelMagics
  PROVE  Runs(Constructor(d), a,
              Left(a, a.exists \cup {d}, a.pointed, a.channels \cup {d}, a.doomed, a.off))
<1> DEFINE x == [op |-> "construct", dev |-> d]
           b == After(x, a)
           c(u) == Left(u, a.exists \cup {d}, a.pointed, a.channels \cup {d}, a.doomed, a.off)
<1>1. /\ d \in Devices /\ a.exists \cup {d} \in SUBSET Devices
      /\ a.pointed \in SUBSET Devices /\ a.channels \cup {d} \in SUBSET Devices
      /\ a.doomed \in SUBSET Devices /\ a.off \in SUBSET Devices
  BY DEF PlanStates
<1>2. Allowed(x, a) /\ x \in Steps
  BY <1>1 DEF Allowed, Steps, Operations
<1>3. Runs(Step("construct", d), a, b) /\ b \in PlanStates
  BY <1>1, <1>2, RunsStep, AfterType DEF Operations
<1>4. /\ b.depth = a.depth /\ b.installed = a.installed /\ b.exists = a.exists \cup {d}
      /\ b.pointed = a.pointed /\ b.channels = a.channels /\ b.doomed = a.doomed
      /\ b.off = a.off
  BY DEF After, With, Minus
<1>5. c(b) = c(a) /\ Lockable(b)
  BY <1>4 DEF Left, Lockable
<1> HIDE DEF b
<1>6. Runs(AddChannel(d), b, c(b))
  <2>1. d \in b.exists
    BY <1>4
  <2>2. Runs(AddChannel(d), b, Left(b, b.exists, b.pointed, b.channels \cup {d}, b.doomed, b.off))
    BY <1>3, <1>5, <2>1, AddChannelRuns
  <2>3. QED
    BY <1>4, <2>2
<1>7. Runs(AddChannel(d), Up(b), c(Up(b)))
  <2>1. d \in Up(b).exists /\ Up(b) \in PlanStates /\ Lockable(Up(b))
    BY <1>3, <1>4, UpState
  <2>2. Runs(AddChannel(d), Up(b),
             Left(Up(b), Up(b).exists, Up(b).pointed, Up(b).channels \cup {d}, Up(b).doomed,
                  Up(b).off))
    BY <2>1, AddChannelRuns
  <2>3. QED
    BY <1>3, <1>4, <2>2, UpState
<1>8. Runs(LockedIf(d \in Guses \cup Ps1s, AddChannel(d)), b, c(b))
  <2>1. CASE d \in Guses \cup Ps1s
    BY <1>1, <1>3, <1>5, <1>7, <2>1, LockedRuns DEF LockedIf
  <2>2. CASE d \notin Guses \cup Ps1s
    BY <1>6, <2>2 DEF LockedIf
  <2>3. QED
    BY <2>1, <2>2
<1>9. Runs(Step("construct", d) \o LockedIf(d \in Guses \cup Ps1s, AddChannel(d)), a, c(b))
  BY <1>3, <1>8, RunsConcat
<1>10. QED
  BY <1>5, <1>9 DEF Constructor

\* The devices whose channels are disabled once d has been silenced as well.
Quiet(d, S) == IF d \in Speakers THEN S ELSE S \cup {d}

\* The destructor of a device stops its queue, or disables its channel, or both;
\* a queue only of a device that is about to be freed.
LEMMA SilenceRuns ==
  ASSUME NEW a \in PlanStates, NEW d \in a.doomed
  PROVE  \E b \in PlanStates :
           /\ Runs(Silence(d), a, b)
           /\ b.depth = a.depth /\ b.installed = a.installed /\ b.exists = a.exists
           /\ b.pointed = a.pointed /\ b.channels = a.channels /\ b.doomed = a.doomed
           /\ b.off = Quiet(d, a.off)
<1> DEFINE stop == [op |-> "stop", dev |-> d]
           disable == [op |-> "disable", dev |-> d]
<1>1. d \in Devices
  BY DEF PlanStates
<1>2. stop \in Steps /\ disable \in Steps
  BY <1>1 DEF Steps, Operations
<1>3. \A u \in PlanStates :
        /\ Runs(Step("disable", d), u, After(disable, u)) /\ After(disable, u) \in PlanStates
        /\ After(disable, u).depth = u.depth /\ After(disable, u).installed = u.installed
        /\ After(disable, u).exists = u.exists /\ After(disable, u).pointed = u.pointed
        /\ After(disable, u).channels = u.channels /\ After(disable, u).doomed = u.doomed
        /\ After(disable, u).off = u.off \cup {d}
  <2>1. TAKE u \in PlanStates
  <2>2. Allowed(disable, u)
    BY <1>1 DEF Allowed
  <2>3. Runs(Step("disable", d), u, After(disable, u)) /\ After(disable, u) \in PlanStates
    BY <1>1, <1>2, <2>2, RunsStep, AfterType DEF Operations
  <2>4. QED
    BY <2>3 DEF After, With, Minus
<1>4. /\ Runs(Step("stop", d), a, After(stop, a)) /\ After(stop, a) \in PlanStates
      /\ After(stop, a).depth = a.depth /\ After(stop, a).installed = a.installed
      /\ After(stop, a).exists = a.exists /\ After(stop, a).pointed = a.pointed
      /\ After(stop, a).channels = a.channels /\ After(stop, a).doomed = a.doomed
      /\ After(stop, a).off = a.off
  <2>1. Allowed(stop, a)
    BY <1>1 DEF Allowed
  <2>2. Runs(Step("stop", d), a, After(stop, a)) /\ After(stop, a) \in PlanStates
    BY <1>1, <1>2, <2>1, RunsStep, AfterType DEF Operations
  <2>3. QED
    BY <2>2 DEF After, With, Minus
<1> HIDE DEF stop, disable
<1>5. CASE d \in Speakers
  <2>1. Runs(Silence(d), a, a)
    BY <1>5, RunsEmpty DEF Silence
  <2>2. QED
    BY <1>5, <2>1 DEF Quiet
<1>6. CASE d \notin Speakers /\ d \in SoundBlasters
  <2>1. Runs(Step("stop", d) \o Step("disable", d), a, After(disable, After(stop, a)))
    BY <1>3, <1>4, RunsConcat
  <2>2. Runs(Silence(d), a, After(disable, After(stop, a)))
    BY <1>6, <2>1 DEF Silence
  <2>3. QED
    BY <1>3, <1>4, <1>6, <2>2 DEF Quiet
<1>7. CASE d \notin Speakers /\ d \notin SoundBlasters
  <2>1. Runs(Silence(d), a, After(disable, a))
    BY <1>3, <1>7 DEF Silence
  <2>2. QED
    BY <1>3, <1>7, <2>1 DEF Quiet
<1>8. QED
  BY <1>5, <1>6, <1>7

\* A destructor undoes the channel, then the device.
LEMMA DestructorRuns ==
  ASSUME NEW a \in PlanStates, Lockable(a), NEW d \in a.doomed, d \notin a.pointed
  PROVE  Runs(Destructor(d), a,
              Left(a, a.exists \ {d}, a.pointed, a.channels \ {d}, a.doomed \ {d},
                   Quiet(d, a.off)))
<1> DEFINE s == Silence(d) \o DeregisterChannel(d)
           c(u) == Left(u, a.exists, a.pointed, a.channels \ {d}, a.doomed, Quiet(d, a.off))
           x == [op |-> "free", dev |-> d]
<1>1. /\ d \in Devices /\ a.exists \in SUBSET Devices /\ a.pointed \in SUBSET Devices
      /\ a.channels \ {d} \in SUBSET Devices /\ a.doomed \in SUBSET Devices
      /\ a.off \in SUBSET Devices /\ a.depth \in Nat /\ a.installed \in SUBSET Devices
  BY DEF PlanStates
<1>2. Quiet(d, a.off) \in SUBSET Devices
  BY <1>1 DEF Quiet
<1>3. ASSUME NEW u \in PlanStates, Lockable(u),
             /\ u.exists = a.exists /\ u.pointed = a.pointed /\ u.channels = a.channels
             /\ u.doomed = a.doomed /\ u.off = a.off
      PROVE  Runs(s, u, c(u))
  <2>1. PICK b \in PlanStates :
          /\ Runs(Silence(d), u, b)
          /\ b.depth = u.depth /\ b.installed = u.installed /\ b.exists = u.exists
          /\ b.pointed = u.pointed /\ b.channels = u.channels /\ b.doomed = u.doomed
          /\ b.off = Quiet(d, u.off)
    BY <1>3, SilenceRuns
  <2>2. Runs(DeregisterChannel(d), b,
             Left(b, b.exists, b.pointed, b.channels \ {d}, b.doomed, b.off))
    <3>1. Lockable(b)
      BY <1>3, <2>1 DEF Lockable
    <3>2. QED
      BY <1>1, <3>1, DeregisterChannelRuns
  <2>3. Left(b, b.exists, b.pointed, b.channels \ {d}, b.doomed, b.off) = c(u)
    BY <1>3, <2>1 DEF Left
  <2>4. QED
    BY <2>1, <2>2, <2>3, RunsConcat
<1>4. Runs(LockedIf(d \in Guses \cup Ps1s, s), a, c(a))
  <2>1. CASE d \in Guses \cup Ps1s
    <3>1. Runs(s, Up(a), c(Up(a)))
      BY <1>3, UpState
    <3> HIDE DEF s
    <3>2. Runs(Locked(s), a, c(a))
      BY <1>1, <1>2, <3>1, LockedRuns
    <3>3. QED
      BY <2>1, <3>2 DEF LockedIf
  <2>2. CASE d \notin Guses \cup Ps1s
    <3>1. Runs(s, a, c(a))
      BY <1>3
    <3> HIDE DEF s
    <3>2. QED
      BY <2>2, <3>1 DEF LockedIf
  <2>3. QED
    BY <2>1, <2>2
<1>5. c(a) \in PlanStates
  BY <1>1, <1>2 DEF Left, PlanStates
<1>6. Allowed(x, c(a))
  BY <1>1 DEF Allowed, Left
<1>7. Runs(Step("free", d), c(a), After(x, c(a)))
  BY <1>1, <1>5, <1>6, RunsStep DEF Operations
<1>8. After(x, c(a)) = Left(a, a.exists \ {d}, a.pointed, a.channels \ {d}, a.doomed \ {d},
                            Quiet(d, a.off))
  BY DEF After, With, Minus, Left
<1> HIDE DEF s, c, x
<1>9. Runs(LockedIf(d \in Guses \cup Ps1s, s) \o Step("free", d), a, After(x, c(a)))
  BY <1>4, <1>7, RunsConcat
<1>10. QED
  BY <1>8, <1>9 DEF Destructor, s

\* What a script may begin in, and what it has to end in.
Settled(a) ==
  /\ a \in PlanStates /\ a.depth = 0 /\ a.doomed = {}
  /\ a.channels \subseteq a.pointed

EndsWell(s, a) == \E b : Runs(s, a, b) /\ Settled(b)

\* A device that has no channel is created; of a ReelMagic only the channel.
LEMMA CreateEndsWell ==
  ASSUME NEW a, Settled(a), NEW d \in a.installed,
         ReelMagics \cap a.installed \subseteq a.pointed \cap a.exists
  PROVE  EndsWell(CreateScript(d), a)
<1> DEFINE c(u) == Left(u, a.exists \cup {d}, a.pointed \cup {d}, a.channels \cup {d}, {}, a.off)
           s == Constructor(d) \o Step("point", d)
           x == [op |-> "point", dev |-> d]
<1>1. a \in PlanStates /\ a.doomed = {} /\ a.depth = 0 /\ a.channels \subseteq a.pointed
      /\ Lockable(a)
  BY DEF Settled, Lockable
<1>2. /\ d \in Devices /\ a.exists \cup {d} \in SUBSET Devices
      /\ a.pointed \cup {d} \in SUBSET Devices /\ a.channels \cup {d} \in SUBSET Devices
      /\ a.exists \in SUBSET Devices /\ a.pointed \in SUBSET Devices
      /\ {} \in SUBSET Devices /\ a.off \in SUBSET Devices /\ a.installed \in SUBSET Devices
  BY <1>1 DEF PlanStates
<1>3. Settled(c(a))
  BY <1>1, <1>2 DEF Settled, Left, PlanStates
<1>4. CASE d \in ReelMagics
  <2>1. d \in a.pointed /\ d \in a.exists
    BY <1>4
  <2>2. d \in Up(a).exists /\ d \in Up(a).pointed /\ Up(a) \in PlanStates
        /\ Lockable(Up(a))
    BY <1>1, <2>1, UpState
  <2>3. Runs(AddChannel(d), Up(a), Left(Up(a), Up(a).exists, Up(a).pointed,
               Up(a).channels \cup {d}, Up(a).doomed, Up(a).off))
    BY <2>2, AddChannelRuns
  <2>4. /\ a.exists \cup {d} = Up(a).exists /\ a.pointed \cup {d} = Up(a).pointed
        /\ a.channels \cup {d} = Up(a).channels \cup {d} /\ Up(a).doomed = {}
        /\ a.off = Up(a).off
    BY <1>1, <2>1, UpState
  <2>5. Runs(AddChannel(d), Up(a), c(Up(a)))
    BY <2>3, <2>4
  <2>6. Runs(CreateScript(d), a, c(a))
    BY <1>1, <1>2, <1>4, <2>5, LockedRuns DEF CreateScript
  <2>7. QED
    BY <1>3, <2>6 DEF EndsWell
<1>5. CASE d \notin ReelMagics
  <2>1. ASSUME NEW u \in PlanStates, Lockable(u),
               /\ u.installed = a.installed /\ u.exists = a.exists /\ u.pointed = a.pointed
               /\ u.channels = a.channels /\ u.doomed = {} /\ u.off = a.off
        PROVE  Runs(s, u, c(u))
    <3> DEFINE b == Left(u, u.exists \cup {d}, u.pointed, u.channels \cup {d}, u.doomed, u.off)
    <3>1. Runs(Constructor(d), u, b)
      BY <1>5, <2>1, ConstructorRuns
    <3>2. u.depth \in Nat
      BY DEF PlanStates
    <3>3. /\ b \in PlanStates /\ b.exists = a.exists \cup {d}
          /\ b.installed = a.installed /\ b.pointed = a.pointed /\ b.depth = u.depth
          /\ b.channels = a.channels \cup {d} /\ b.doomed = {} /\ b.off = a.off
          /\ b.started = {}
      BY <1>2, <2>1, <3>2 DEF Left, PlanStates
    <3> HIDE DEF b
    <3>4. Allowed(x, b)
      BY <1>2, <3>3 DEF Allowed
    <3>5. Runs(Step("point", d), b, After(x, b))
      BY <1>2, <3>3, <3>4, RunsStep DEF Operations
    <3>6. After(x, b) = c(u)
      BY <2>1, <3>3 DEF After, With, Minus, Left
    <3>7. QED
      BY <3>1, <3>5, <3>6, RunsConcat
  <2>2. Runs(s, a, c(a))
    BY <1>1, <2>1
  <2>3. Runs(s, Up(a), c(Up(a)))
    BY <1>1, <2>1, UpState
  <2> HIDE DEF s
  <2>4. Runs(Locked(s), a, c(a))
    BY <1>1, <1>2, <2>3, LockedRuns
  <2>5. CreateScript(d) = LockedIf(d \in Speakers \cup SoundBlasters, s)
    BY <1>5 DEF CreateScript, s
  <2>6. CreateScript(d) = s \/ CreateScript(d) = Locked(s)
    BY <2>5 DEF LockedIf
  <2>7. Runs(CreateScript(d), a, c(a))
    BY <2>2, <2>4, <2>6
  <2>8. QED
    BY <1>3, <2>7 DEF EndsWell
<1>6. QED
  BY <1>4, <1>5

\* A device that has a channel is destroyed.
LEMMA DestroyEndsWell ==
  ASSUME NEW a, Settled(a), NEW d \in a.channels
  PROVE  EndsWell(DestroyScript(d), a)
<1>1. a \in PlanStates /\ a.doomed = {} /\ a.depth = 0 /\ a.channels \subseteq a.pointed
      /\ Lockable(a)
  BY DEF Settled, Lockable
<1>2. /\ d \in Devices /\ a.exists \in SUBSET Devices /\ a.exists \ {d} \in SUBSET Devices
      /\ a.pointed \in SUBSET Devices /\ a.pointed \ {d} \in SUBSET Devices
      /\ a.channels \ {d} \in SUBSET Devices
      /\ {} \in SUBSET Devices /\ a.off \in SUBSET Devices /\ Quiet(d, a.off) \in SUBSET Devices
      /\ a.installed \in SUBSET Devices
  BY <1>1 DEF PlanStates, Quiet
<1>3. CASE d \in ReelMagics
  <2> DEFINE c(u) == Left(u, a.exists, a.pointed, a.channels \ {d}, {}, a.off)
  <2>1. Runs(DeregisterChannel(d), Up(a), c(Up(a)))
    BY <1>1, <1>2, UpState, DeregisterChannelRuns
  <2>2. Runs(DestroyScript(d), a, c(a))
    BY <1>1, <1>2, <1>3, <2>1, LockedRuns DEF DestroyScript
  <2>3. Settled(c(a))
    BY <1>1, <1>2 DEF Settled, Left, PlanStates
  <2>4. QED
    BY <2>2, <2>3 DEF EndsWell
<1>4. CASE d \notin ReelMagics
  <2> DEFINE c(u) == Left(u, a.exists \ {d}, a.pointed \ {d}, a.channels \ {d}, {},
                          Quiet(d, a.off))
             s == Step("forget", d) \o Destructor(d)
             x == [op |-> "forget", dev |-> d]
  <2>1. ASSUME NEW u \in PlanStates, u.depth > 0 \/ d \in Ps1s,
               /\ u.installed = a.installed /\ u.exists = a.exists /\ u.pointed = a.pointed
               /\ u.channels = a.channels /\ u.doomed = {} /\ u.off = a.off
        PROVE  Runs(s, u, c(u))
    <3> DEFINE b == After(x, u)
    <3>1. Allowed(x, u) /\ x \in Steps
      BY <1>2, <1>4 DEF Allowed, Steps, Operations
    <3>2. Runs(Step("forget", d), u, b) /\ b \in PlanStates
      BY <1>2, <3>1, RunsStep, AfterType DEF Operations
    <3>3. /\ b.depth = u.depth /\ b.installed = u.installed /\ b.exists = a.exists
          /\ b.pointed = a.pointed \ {d} /\ b.channels = a.channels /\ b.doomed = {d}
          /\ b.off = a.off
      BY <2>1 DEF After, With, Minus
    <3> HIDE DEF b
    <3>4. d \in b.doomed /\ d \notin b.pointed /\ Lockable(b)
      BY <1>1, <2>1, <3>3 DEF Lockable
    <3>5. Runs(Destructor(d), b, Left(b, b.exists \ {d}, b.pointed, b.channels \ {d},
                                      b.doomed \ {d}, Quiet(d, b.off)))
      BY <3>2, <3>4, DestructorRuns
    <3>6. Left(b, b.exists \ {d}, b.pointed, b.channels \ {d}, b.doomed \ {d}, Quiet(d, b.off))
            = c(u)
      BY <3>3 DEF Left
    <3>7. QED
      BY <3>2, <3>5, <3>6, RunsConcat
  <2>2. d \in Ps1s => Runs(s, a, c(a))
    BY <1>1, <2>1
  <2>3. Runs(s, Up(a), c(Up(a)))
    BY <1>1, <2>1, UpState
  <2> HIDE DEF s
  <2>4. Runs(Locked(s), a, c(a))
    BY <1>1, <1>2, <2>3, LockedRuns
  <2>5. DestroyScript(d) = LockedIf(d \notin Ps1s, s)
    BY <1>4 DEF DestroyScript, s
  <2>6. DestroyScript(d) = IF d \in Ps1s THEN s ELSE Locked(s)
    BY <2>5 DEF LockedIf
  <2>7. Runs(DestroyScript(d), a, c(a))
    BY <2>2, <2>4, <2>6
  <2>8. Settled(c(a))
    BY <1>1, <1>2 DEF Settled, Left, PlanStates
  <2>9. QED
    BY <2>7, <2>8 DEF EndsWell
<1>5. QED
  BY <1>3, <1>4

\* Settings change under a lock.
LEMMA SettingsEndWell ==
  ASSUME NEW a, Settled(a)
  PROVE  EndsWell(Locked(<<>>), a)
<1>1. a \in PlanStates /\ a.doomed = {} /\ a.depth = 0 /\ a.channels \subseteq a.pointed
      /\ Lockable(a)
  BY DEF Settled, Lockable
<1>2. /\ a.exists \in SUBSET Devices /\ a.pointed \in SUBSET Devices
      /\ a.channels \in SUBSET Devices /\ a.doomed \in SUBSET Devices
      /\ a.off \in SUBSET Devices /\ a.installed \in SUBSET Devices
  BY <1>1 DEF PlanStates
<1>3. Up(a) = Left(Up(a), a.exists, a.pointed, a.channels, a.doomed, a.off)
  BY <1>1, <1>2 DEF Up, After, LockStep, With, Minus, Left
<1>4. Runs(<<>>, Up(a), Left(Up(a), a.exists, a.pointed, a.channels, a.doomed, a.off))
  BY <1>1, <1>3, UpState, RunsEmpty
<1>5. Runs(Locked(<<>>), a, Left(a, a.exists, a.pointed, a.channels, a.doomed, a.off))
  BY <1>1, <1>2, <1>4, LockedRuns
<1>6. Settled(Left(a, a.exists, a.pointed, a.channels, a.doomed, a.off))
  BY <1>1, <1>2 DEF Settled, Left, PlanStates
<1>7. QED
  BY <1>5, <1>6 DEF EndsWell

\* The ReelMagic player starts the queue before it enables the channel.
LEMMA ActivateEndsWell ==
  ASSUME NEW a, Settled(a), NEW d \in a.exists
  PROVE  EndsWell(Step("start", d) \o Step("enable", d), a)
<1> DEFINE x == [op |-> "start", dev |-> d]
           y == [op |-> "enable", dev |-> d]
           b == After(x, a)
           c == After(y, b)
<1>1. a \in PlanStates /\ a.doomed = {} /\ a.depth = 0 /\ d \in Devices
      /\ a.channels \subseteq a.pointed
  BY DEF Settled, PlanStates
<1>2. x \in Steps /\ y \in Steps
  BY <1>1 DEF Steps, Operations
<1>3. Allowed(x, a)
  BY <1>1 DEF Allowed
<1>4. Runs(Step("start", d), a, b) /\ b \in PlanStates
  BY <1>1, <1>2, <1>3, RunsStep, AfterType DEF Operations
<1>5. b.depth = 0 /\ b.doomed = {} /\ b.channels \subseteq b.pointed /\ d \in b.started
  BY <1>1 DEF After, With, Minus
<1> HIDE DEF b
<1>6. Allowed(y, b)
  BY <1>1, <1>5 DEF Allowed
<1>7. Runs(Step("enable", d), b, c) /\ c \in PlanStates
  BY <1>1, <1>2, <1>4, <1>6, RunsStep, AfterType DEF Operations
<1>8. Settled(c)
  BY <1>5, <1>7 DEF Settled, After, With, Minus
<1> HIDE DEF c
<1>9. Runs(Step("start", d) \o Step("enable", d), a, c)
  BY <1>4, <1>7, RunsConcat
<1>10. QED
  BY <1>8, <1>9 DEF EndsWell

\* It disables the channel before it stops the queue.
LEMMA DeactivateEndsWell ==
  ASSUME NEW a, Settled(a), NEW d \in ReelMagics
  PROVE  EndsWell(Step("disable", d) \o Step("stop", d), a)
<1> DEFINE x == [op |-> "disable", dev |-> d]
           y == [op |-> "stop", dev |-> d]
           b == After(x, a)
           c == After(y, b)
<1>1. a \in PlanStates /\ a.doomed = {} /\ a.depth = 0 /\ d \in Devices
      /\ a.channels \subseteq a.pointed
  BY DEF Settled, Devices
<1>2. x \in Steps /\ y \in Steps
  BY <1>1 DEF Steps, Operations
<1>3. Allowed(x, a)
  BY <1>1 DEF Allowed
<1>4. Runs(Step("disable", d), a, b) /\ b \in PlanStates
  BY <1>1, <1>2, <1>3, RunsStep, AfterType DEF Operations
<1>5. b.depth = 0 /\ b.doomed = {} /\ b.channels \subseteq b.pointed /\ d \in b.off
  BY <1>1 DEF After, With, Minus
<1> HIDE DEF b
<1>6. Allowed(y, b)
  BY <1>1, <1>5 DEF Allowed
<1>7. Runs(Step("stop", d), b, c) /\ c \in PlanStates
  BY <1>1, <1>2, <1>4, <1>6, RunsStep, AfterType DEF Operations
<1>8. Settled(c)
  BY <1>5, <1>7 DEF Settled, After, With, Minus
<1> HIDE DEF c
<1>9. Runs(Step("disable", d) \o Step("stop", d), a, c)
  BY <1>4, <1>7, RunsConcat
<1>10. QED
  BY <1>8, <1>9 DEF EndsWell

\* The steps that shut the mixer down concern no device and no lock.
LEMMA ShutdownStep ==
  ASSUME NEW a, NEW s, EndsWell(s, a),
         NEW op \in {"quit", "end output", "join", "close", "exit"}
  PROVE  EndsWell(s \o Step(op, "none"), a)
<1>1. PICK b : Runs(s, a, b) /\ Settled(b)
  BY DEF EndsWell
<1> DEFINE x == [op |-> op, dev |-> "none"]
           c == After(x, b)
<1>2. b \in PlanStates /\ b.doomed = {} /\ b.depth = 0 /\ b.channels \subseteq b.pointed
  BY <1>1 DEF Settled
<1>3. op \in Operations /\ x \in Steps /\ Allowed(x, b)
  BY DEF Operations, Steps, Allowed, DeviceOperations
<1>4. Runs(Step(op, "none"), b, c) /\ c \in PlanStates
  BY <1>2, <1>3, RunsStep, AfterType
<1>5. Settled(c)
  BY <1>2, <1>4 DEF Settled, After, With, Minus
<1> HIDE DEF c
<1>6. QED
  BY <1>1, <1>4, <1>5, RunsConcat DEF EndsWell

LEMMA ShutdownEndsWell ==
  ASSUME NEW a, Settled(a)
  PROVE  EndsWell(Step("quit", "none") \o Step("end output", "none") \o Step("join", "none")
                  \o Step("close", "none") \o Step("exit", "none"), a)
<1> DEFINE x == [op |-> "quit", dev |-> "none"]
           b == After(x, a)
           s1 == Step("quit", "none")
           s2 == s1 \o Step("end output", "none")
           s3 == s2 \o Step("join", "none")
           s4 == s3 \o Step("close", "none")
           s5 == s4 \o Step("exit", "none")
<1>1. a \in PlanStates /\ a.doomed = {} /\ a.depth = 0 /\ a.channels \subseteq a.pointed
  BY DEF Settled
<1>2. x \in Steps /\ Allowed(x, a)
  BY DEF Operations, Steps, Allowed, DeviceOperations
<1>3. Runs(s1, a, b) /\ b \in PlanStates
  BY <1>1, <1>2, RunsStep, AfterType DEF Operations
<1>4. Settled(b)
  BY <1>1, <1>3 DEF Settled, After, With, Minus
<1>5. EndsWell(s1, a)
  BY <1>3, <1>4 DEF EndsWell
<1> HIDE DEF s1
<1>6. EndsWell(s2, a)
  BY <1>5, ShutdownStep
<1> HIDE DEF s2
<1>7. EndsWell(s3, a)
  BY <1>6, ShutdownStep
<1> HIDE DEF s3
<1>8. EndsWell(s4, a)
  BY <1>7, ShutdownStep
<1> HIDE DEF s4
<1>9. EndsWell(s5, a)
  BY <1>8, ShutdownStep
<1>10. QED
  BY <1>9 DEF s1, s2, s3, s4

----------------------------------------------------------------------------
(* The inductive invariant.                                                *)

\* The main thread is about to get the mutex, or has it.
Locking == holder = "main" \/ (script # <<>> /\ Head(script).op = "lock")

\* Why the mixer thread does not wait for device d in vain: its queue runs, or
\* the main thread, which stopped it, has the mutex or will start it again, or
\* the device is going away, or the channel is not mixed.
Covered(d, doomed) ==
  \/ d \in running
  \/ d \in pointed /\ Locking
  \/ d \in doomed
  \/ d \in ReelMagics /\ d \notin enabled \cap channels

\* The state that a plan starts in describes the state of the program.
Describes(a) ==
  /\ a \in PlanStates
  /\ a.depth = IF holder = "main" THEN depth ELSE 0
  /\ a.installed = installed /\ a.exists = exists
  /\ a.pointed = pointed /\ a.channels = channels
  /\ a.off \cap enabled = {}
  /\ Now("lock", "none") \/ a.started \subseteq running
  /\ \A d \in exists : Covered(d, a.doomed)

\* What is left of the script keeps its promises.
Planned == \E a : Describes(a) /\ EndsWell(script, a)

\* The mixer thread has the mutex while it mixes, and never twice.
Hold ==
  /\ pc \in {"mixing", "pulling", "mixed"} <=> holder = "mixer"
  /\ holder = "mixer" => depth = 1

\* An unlock has started the queues of the devices it has been to.
Restarted == Now("unlock", "none") => pointed \ left \subseteq running

\* A lock has stopped the queues of the devices it has been to, and begins with
\* all of them.
Stopped ==
  /\ Now("lock", "none") => (pointed \ left) \cap running = {}
  /\ Idle => left = installed

\* A channel is a device's; the ReelMagic stays.
Registered == channels \subseteq exists /\ ReelMagics \cap installed \subseteq pointed

IInv ==
  TypeOK /\ Planned /\ Hold /\ Restarted /\ Stopped /\ Registered /\ OnlyLiveDevices


\* The state of the program between two scripts.
Base ==
  [depth |-> 0, installed |-> installed, exists |-> exists, pointed |-> pointed,
   channels |-> channels, doomed |-> {}, off |-> {}, started |-> {}]

----------------------------------------------------------------------------
(* Plans and steps.                                                        *)

\* What holds where a script has ended.
LEMMA IdleState ==
  ASSUME TypeOK, Planned, Idle
  PROVE  /\ Settled(Base) /\ holder # "main"
         /\ \A d \in exists : Covered(d, {})
<1>1. PICK a : Describes(a) /\ EndsWell(<<>>, a)
  BY DEF Planned, Idle
<1>2. Settled(a)
  BY <1>1, RunsEmpty DEF EndsWell
<1>3. holder # "main"
  BY <1>1, <1>2 DEF Describes, Settled, TypeOK
<1>4. Settled(Base)
  <2>1. /\ installed \in SUBSET Devices /\ exists \in SUBSET Devices
        /\ pointed \in SUBSET Devices /\ channels \in SUBSET Devices
    BY <1>1 DEF Describes, PlanStates
  <2>2. channels \subseteq pointed
    BY <1>1, <1>2 DEF Describes, Settled
  <2>3. QED
    BY <2>1, <2>2 DEF Base, Settled, PlanStates
<1>5. QED
  BY <1>1, <1>2, <1>3, <1>4 DEF Describes, Settled

\* A script that ends well from there may begin, and no script begins with an
\* unlock.
LEMMA BeginPlanned ==
  ASSUME TypeOK, Planned, NEW s, Begin(s), EndsWell(s, Base)
  PROVE  /\ Planned' /\ ~Now("unlock", "none")'
         /\ script' \in Seq(Steps)
<1>1. /\ Settled(Base) /\ holder # "main"
      /\ \A d \in exists : Covered(d, {})
  BY IdleState DEF Begin
<1>2. /\ script' = s /\ UNCHANGED <<installed, exists, pointed, running, holder, depth, channels,
                                    enabled>>
  BY DEF Begin, lockVars
<1>3. Describes(Base)'
  <2>1. ASSUME NEW d \in exists PROVE Covered(d, {})'
    BY <1>1, <1>2 DEF Covered, Locking, Begin, Idle
  <2>2. Base \in PlanStates
    BY <1>1 DEF Settled
  <2>3. Base' = Base
    BY <1>2 DEF Base
  <2>4. QED
    BY <1>1, <1>2, <2>1, <2>2, <2>3 DEF Describes, Base
<1>4. Planned'
  <2>1. Base' = Base
    BY <1>2 DEF Base
  <2>2. EndsWell(script', Base')
    BY <1>2, <2>1
  <2>3. QED
    BY <1>3, <2>2 DEF Planned
<1>5. PICK b : Runs(s, Base, b)
  BY DEF EndsWell
<1>6. ~Now("unlock", "none")'
  <2>1. SUFFICES ASSUME Now("unlock", "none")' PROVE FALSE
    OBVIOUS
  <2>2. s # <<>> /\ Head(s) = UnlockStep
    BY <1>2, <2>1 DEF Now, UnlockStep
  <2>3. Allowed(UnlockStep, Base)
    BY <1>5, <2>2, RunsTail
  <2>4. QED
    BY <2>3 DEF Allowed, UnlockStep, Base
<1>7. QED
  BY <1>2, <1>4, <1>5, <1>6 DEF Runs

\* Steps of the other threads, and of the main thread between scripts, leave the
\* plan as it is.
LEMMA FramePlanned ==
  ASSUME TypeOK, Planned,
         UNCHANGED <<installed, script, exists, pointed, channels>>,
         enabled' \subseteq enabled, running \subseteq running',
         holder' = "main" <=> holder = "main",
         holder = "main" => depth' = depth
  PROVE  Planned'
<1>1. PICK a : Describes(a) /\ EndsWell(script, a)
  BY DEF Planned
<1>2. Describes(a)'
  <2>1. ASSUME NEW d \in exists' PROVE Covered(d, a.doomed)'
    <3>1. Covered(d, a.doomed)
      BY <1>1 DEF Describes
    <3>2. QED
      BY <3>1 DEF Covered, Locking
  <2>2. a.depth = IF holder' = "main" THEN depth' ELSE 0
    BY <1>1 DEF Describes
  <2>3. a.off \cap enabled' = {}
    BY <1>1 DEF Describes
  <2>4. Now("lock", "none")' \/ a.started \subseteq running'
    BY <1>1 DEF Describes, Now
  <2>5. QED
    BY <1>1, <2>1, <2>2, <2>3, <2>4 DEF Describes
<1>3. QED
  BY <1>1, <1>2 DEF Planned

\* The step that a script has come to is allowed, and the rest of the script
\* ends well from where it leads.
LEMMA NowPlanned ==
  ASSUME Planned, NEW op, NEW d, Now(op, d)
  PROVE  \E a : /\ Describes(a) /\ Allowed([op |-> op, dev |-> d], a)
                /\ After([op |-> op, dev |-> d], a) \in PlanStates
                /\ EndsWell(Tail(script), After([op |-> op, dev |-> d], a))
<1>1. PICK a : Describes(a) /\ EndsWell(script, a)
  BY DEF Planned
<1>2. PICK b : Runs(script, a, b) /\ Settled(b)
  BY <1>1 DEF EndsWell
<1>3. script # <<>> /\ Head(script) = [op |-> op, dev |-> d]
  BY DEF Now
<1>4. /\ Head(script) \in Steps /\ Allowed(Head(script), a)
      /\ Runs(Tail(script), After(Head(script), a), b)
  BY <1>2, <1>3, RunsTail
<1>5. After(Head(script), a) \in PlanStates
  BY <1>1, <1>4, AfterType DEF Describes
<1>6. EndsWell(Tail(script), After(Head(script), a))
  BY <1>2, <1>4 DEF EndsWell
<1>7. QED
  BY <1>1, <1>3, <1>4, <1>5, <1>6

----------------------------------------------------------------------------
(* Types.                                                                  *)

LEMMA InitType ==
  ASSUME Init
  PROVE  TypeOK
<1>2. installed \in Installations /\ installed \subseteq Devices /\ exists \subseteq installed
  BY InstallationsAssumption DEF Init
<1>3. queued \in [Devices -> 0 .. 2 * Blocksize] /\ needed \in 0 .. Blocksize
      /\ output \in 0 .. Room /\ asked \in 0 .. Blocksize
  BY SizesAssumption DEF Init
<1>4. state \in {"NoSound", "On", "Muted"}
  BY ConfiguredAssumption DEF Init
<1>5. script \in Seq([op : Operations, dev : Devices \cup {"none"}])
  BY DEF Init
<1>6. QED
  BY <1>2, <1>3, <1>4, <1>5 DEF Init, TypeOK

\* What a step of a script has to be for the types to stay: the device exists
\* where it is used, and the mutex is the main thread's where it is given back.
LEMMA NowType ==
  ASSUME TypeOK, Planned, NEW op, NEW d, Now(op, d)
  PROVE  /\ Tail(script) \in Seq([op : Operations, dev : Devices \cup {"none"}])
         /\ op \in DeviceOperations => d \in Devices
         /\ op \in {"unlock", "erase"} => holder = "main" /\ depth \in Nat \ {0}
         /\ op = "construct" => d \in installed
         /\ op \in {"add", "point", "start"} => d \in exists
         /\ op = "add" /\ d \in ReelMagics => d \in pointed /\ holder = "main"
         /\ op = "forget" => d \notin ReelMagics
         /\ op = "free" => d \notin pointed \cup channels
<1>1. PICK a : Describes(a) /\ Allowed([op |-> op, dev |-> d], a)
  BY NowPlanned
<1>2. Tail(script) \in Seq([op : Operations, dev : Devices \cup {"none"}])
  BY DEF TypeOK, Now
<1>3. a.depth > 0 => holder = "main" /\ depth \in Nat \ {0}
  BY <1>1 DEF Describes, TypeOK
<1>4. /\ a.installed = installed /\ a.exists = exists
      /\ a.pointed = pointed /\ a.channels = channels
  BY <1>1 DEF Describes
<1>5. QED
  BY <1>1, <1>2, <1>3, <1>4 DEF Allowed

\* Whatever the main thread begins ends well.
LEMMA BegunEndsWell ==
  ASSUME TypeOK, Planned, Registered, MainStep
  PROVE  \/ \E s : Begin(s) /\ EndsWell(s, Base)
         \/ \E d \in Devices : WakeUp(d)
         \/ \E d \in Guses : GusReset(d)
         \/ Tick \/ MIXER_Mute \/ MIXER_Unmute
<1> DEFINE Good == \E s : Begin(s) /\ EndsWell(s, Base)
<1>1. ASSUME NEW s, Begin(s) PROVE Settled(Base)
  BY <1>1, IdleState DEF Begin
<1>2. /\ Base.installed = installed /\ Base.exists = exists
      /\ Base.pointed = pointed /\ Base.channels = channels
  BY DEF Base
<1>3. ReelMagics \cap installed \subseteq pointed \cap exists /\ channels \subseteq exists
  BY DEF TypeOK, Registered
<1> HIDE DEF Good
<1>4. ASSUME NEW d \in Devices, Create(d) PROVE Good
  <2>1. Begin(CreateScript(d)) /\ d \in installed
    BY <1>4 DEF Create
  <2>2. EndsWell(CreateScript(d), Base)
    BY <1>1, <1>2, <1>3, <2>1, CreateEndsWell
  <2>3. QED
    BY <2>1, <2>2 DEF Good
<1>5. ASSUME NEW d \in Devices, Destroy(d) PROVE Good
  <2>1. Begin(DestroyScript(d)) /\ d \in channels
    BY <1>5 DEF Destroy
  <2>2. EndsWell(DestroyScript(d), Base)
    BY <1>1, <1>2, <2>1, DestroyEndsWell
  <2>3. QED
    BY <2>1, <2>2 DEF Good
<1>6. ASSUME NEW d \in ReelMagics, ActivatePlayer(d) PROVE Good
  <2>1. Begin(Step("start", d) \o Step("enable", d)) /\ d \in exists
    BY <1>3, <1>6 DEF ActivatePlayer
  <2>2. EndsWell(Step("start", d) \o Step("enable", d), Base)
    BY <1>1, <1>2, <2>1, ActivateEndsWell
  <2>3. QED
    BY <2>1, <2>2 DEF Good
<1>7. ASSUME NEW d \in ReelMagics, DeactivatePlayer(d) PROVE Good
  <2>1. Begin(Step("disable", d) \o Step("stop", d))
    BY <1>7 DEF DeactivatePlayer
  <2>2. EndsWell(Step("disable", d) \o Step("stop", d), Base)
    BY <1>1, <2>1, DeactivateEndsWell
  <2>3. QED
    BY <2>1, <2>2 DEF Good
<1>8. ASSUME ChangeSettings PROVE Good
  <2>1. Begin(Locked(<<>>))
    BY <1>8 DEF ChangeSettings
  <2>2. EndsWell(Locked(<<>>), Base)
    BY <1>1, <2>1, SettingsEndWell
  <2>3. QED
    BY <2>1, <2>2 DEF Good
<1>9. ASSUME MIXER_CloseAudioDevice PROVE Good
  BY <1>1, <1>9, ShutdownEndsWell DEF MIXER_CloseAudioDevice, Good
<1>10. \/ Good
       \/ \E d \in Devices : WakeUp(d)
       \/ \E d \in Guses : GusReset(d)
       \/ Tick \/ MIXER_Mute \/ MIXER_Unmute
  BY <1>4, <1>5, <1>6, <1>7, <1>8, <1>9 DEF MainStep
<1>11. QED
  BY <1>10 DEF Good

LEMMA MainType ==
  ASSUME TypeOK, Planned, Registered, MainStep
  PROVE  TypeOK'
<1> USE DEF mainVars, lockVars, mixerVars, outputVars
<1>1. ASSUME NEW s, Begin(s), EndsWell(s, Base) PROVE TypeOK'
  <2>1. script' \in Seq(Steps)
    BY <1>1, BeginPlanned
  <2>2. QED
    BY <1>1, <2>1 DEF TypeOK, Begin, Steps
<1>2. ASSUME NEW d \in Devices, WakeUp(d) PROVE TypeOK'
  BY <1>2 DEF TypeOK, WakeUp
<1>3. ASSUME NEW d \in Guses, GusReset(d) PROVE TypeOK'
  BY <1>3 DEF TypeOK, GusReset
<1>4. CASE Tick
  <2>1. queued' \in [Devices -> 0 .. 2 * Blocksize]
    <3>1. \A d \in Devices : queued[d] \in 0 .. 2 * Blocksize
      BY DEF TypeOK
    <3>2. 2 * Blocksize \in Nat
      BY SizesAssumption
    <3>3. \A d \in Devices : queued[d] < 2 * Blocksize => queued[d] + 1 \in 0 .. 2 * Blocksize
      BY <3>1, <3>2
    <3>4. QED
      BY <1>4, <3>1, <3>3 DEF Tick
  <2>2. QED
    BY <1>4, <2>1 DEF TypeOK, Tick
<1>5. CASE MIXER_Mute
  BY <1>5, SizesAssumption DEF TypeOK, MIXER_Mute
<1>6. CASE MIXER_Unmute
  BY <1>6 DEF TypeOK, MIXER_Unmute
<1>7. QED
  BY <1>1, <1>2, <1>3, <1>4, <1>5, <1>6, BegunEndsWell

LEMMA ScriptType ==
  ASSUME TypeOK, Planned, ScriptStep \/ Acquire
  PROVE  TypeOK'
<1> USE DEF lockVars, mixerVars, outputVars
<1>1. ASSUME NEW d \in Devices, NotifyLockMixer(d) PROVE TypeOK'
  BY <1>1 DEF TypeOK, NotifyLockMixer
<1>2. ASSUME NEW d \in Devices, NotifyUnlockMixer(d) PROVE TypeOK'
  BY <1>2 DEF TypeOK, NotifyUnlockMixer
<1>3. ASSUME NEW d \in Devices, Construct(d) PROVE TypeOK'
  <2>1. d \in installed /\ Tail(script) \in Seq([op : Operations, dev : Devices \cup {"none"}])
    BY <1>3, NowType DEF Construct
  <2>2. 0 \in 0 .. 2 * Blocksize
    BY SizesAssumption
  <2>3. queued' \in [Devices -> 0 .. 2 * Blocksize]
    BY <1>3, <2>2 DEF Construct, TypeOK
  <2>4. QED
    BY <1>3, <2>1, <2>3 DEF TypeOK, Construct, Done
<1>4. ASSUME NEW d \in Devices, Free(d) PROVE TypeOK'
  <2>1. /\ d \notin pointed
        /\ Tail(script) \in Seq([op : Operations, dev : Devices \cup {"none"}])
    BY <1>4, NowType DEF Free
  <2>2. QED
    BY <1>4, <2>1 DEF TypeOK, Free, Done
<1>5. ASSUME NEW d \in Devices, SetPointer(d) PROVE TypeOK'
  <2>1. /\ Now("point", d) => d \in exists
        /\ Tail(script) \in Seq([op : Operations, dev : Devices \cup {"none"}])
    BY <1>5, NowType DEF SetPointer
  <2>2. pointed' \subseteq exists
    BY <1>5, <2>1 DEF SetPointer, TypeOK
  <2>3. QED
    BY <1>5, <2>1, <2>2 DEF TypeOK, SetPointer, Done
<1>6. ASSUME NEW d \in Devices, SetChannel(d) PROVE TypeOK'
  <2>1. Tail(script) \in Seq([op : Operations, dev : Devices \cup {"none"}])
    BY <1>6, NowType DEF SetChannel
  <2>2. channels' \subseteq Devices
    BY <1>6 DEF SetChannel, TypeOK
  <2>3. QED
    BY <1>6, <2>1, <2>2 DEF TypeOK, SetChannel, Done
<1>7. ASSUME NEW d \in Devices, Enable(d) PROVE TypeOK'
  <2>1. Tail(script) \in Seq([op : Operations, dev : Devices \cup {"none"}])
    BY <1>7, NowType DEF Enable
  <2>2. enabled' \subseteq Devices
    BY <1>7 DEF Enable, TypeOK
  <2>3. QED
    BY <1>7, <2>1, <2>2 DEF TypeOK, Enable, Done
<1>8. ASSUME NEW d \in Devices, StartStop(d) PROVE TypeOK'
  <2>1. /\ Now("start", d) => d \in exists
        /\ Tail(script) \in Seq([op : Operations, dev : Devices \cup {"none"}])
    BY <1>8, NowType DEF StartStop
  <2>2. running' \subseteq exists
    BY <1>8, <2>1 DEF StartStop, TypeOK
  <2>3. QED
    BY <1>8, <2>1, <2>2 DEF TypeOK, StartStop, Done
<1>9. CASE Release
  <2>1. /\ holder = "main" /\ depth \in Nat \ {0}
        /\ Tail(script) \in Seq([op : Operations, dev : Devices \cup {"none"}])
    BY <1>9, NowType DEF Release
  <2>2. depth' \in Nat /\ (depth' = 0 <=> holder' = "nobody") /\ holder' \in {"main", "nobody"}
    BY <1>9, <2>1 DEF Release
  <2>3. QED
    BY <1>9, <2>1, <2>2 DEF TypeOK, Release, Done
<1>10. CASE Quit
  <2>1. Tail(script) \in Seq([op : Operations, dev : Devices \cup {"none"}])
    BY <1>10, NowType DEF Quit
  <2>2. QED
    BY <1>10, <2>1 DEF TypeOK, Quit, Done
<1>11. CASE EndOutput
  <2>1. Tail(script) \in Seq([op : Operations, dev : Devices \cup {"none"}])
    BY <1>11, NowType DEF EndOutput
  <2>2. QED
    BY <1>11, <2>1 DEF TypeOK, EndOutput, Done
<1>12. CASE Join
  <2>1. Tail(script) \in Seq([op : Operations, dev : Devices \cup {"none"}])
    BY <1>12, NowType DEF Join
  <2>2. QED
    BY <1>12, <2>1 DEF TypeOK, Join, Done
<1>13. CASE CloseStream
  <2>1. Tail(script) \in Seq([op : Operations, dev : Devices \cup {"none"}])
    BY <1>13, NowType DEF CloseStream
  <2>2. QED
    BY <1>13, <2>1 DEF TypeOK, CloseStream, Done
<1>14. CASE Acquire
  <2>1. Tail(script) \in Seq([op : Operations, dev : Devices \cup {"none"}])
    BY <1>14, NowType DEF Acquire
  <2>2. depth' \in Nat /\ (depth' = 0 <=> holder' = "nobody") /\ holder' = "main"
    BY <1>14 DEF Acquire, TypeOK
  <2>3. QED
    BY <1>14, <2>1, <2>2 DEF TypeOK, Acquire, Done
<1>15. QED
  BY <1>1, <1>2, <1>3, <1>4, <1>5, <1>6, <1>7, <1>8, <1>9, <1>10, <1>11, <1>12, <1>13, <1>14
     DEF ScriptStep

LEMMA OtherType ==
  ASSUME TypeOK, OnlyLiveDevices, MixerStep \/ MixerLock \/ CallbackStep
  PROVE  TypeOK'
<1> USE DEF mainVars, lockVars, mixerVars, outputVars
<1>1. CASE MixerTop
  BY <1>1 DEF TypeOK, MixerTop
<1>2. ASSUME NEW d \in Devices, Mix(d) PROVE TypeOK'
  <2>1. d \in installed
    BY <1>2 DEF OnlyLiveDevices, TypeOK, Mix
  <2>2. needed' \in 0 .. Blocksize /\ pc' \in {"pulling", "mixed"}
    BY <1>2, SizesAssumption DEF Mix
  <2>3. QED
    BY <1>2, <2>1, <2>2 DEF TypeOK, Mix
<1>3. CASE MIXER_PullFromQueueCallback
  <2>1. device \in Devices /\ queued[device] \in 0 .. 2 * Blocksize /\ needed \in 0 .. Blocksize
    BY InstallationsAssumption DEF TypeOK
  <2>2. /\ Lesser(queued[device], needed) \in Nat
        /\ Lesser(queued[device], needed) <= queued[device]
        /\ Lesser(queued[device], needed) <= needed
    BY <2>1, SizesAssumption DEF Lesser
  <2>3. /\ queued[device] - Lesser(queued[device], needed) \in 0 .. 2 * Blocksize
        /\ needed - Lesser(queued[device], needed) \in 0 .. Blocksize
    BY <2>1, <2>2, SizesAssumption
  <2>4. queued' \in [Devices -> 0 .. 2 * Blocksize] /\ needed' \in 0 .. Blocksize
    BY <1>3, <2>3 DEF MIXER_PullFromQueueCallback, TypeOK
  <2>5. pc' \in {"mixed", "pulling"}
    BY <1>3 DEF MIXER_PullFromQueueCallback
  <2>6. QED
    BY <1>3, <2>4, <2>5 DEF TypeOK, MIXER_PullFromQueueCallback
<1>4. CASE PullStopped
  BY <1>4, SizesAssumption DEF TypeOK, PullStopped
<1>5. CASE MaybeSleep
  BY <1>5 DEF TypeOK, MaybeSleep
<1>6. CASE MixerUnlock
  <2>1. needed' \in 0 .. Blocksize /\ pc' \in {"top", "output"}
    BY <1>6, SizesAssumption DEF MixerUnlock, TypeOK
  <2>2. QED
    BY <1>6, <2>1 DEF TypeOK, MixerUnlock
<1>7. CASE EnqueueOutput
  <2>1. output \in 0 .. Room /\ needed \in 0 .. Blocksize /\ Room \in Nat /\ Blocksize \in Nat
    BY SizesAssumption DEF TypeOK
  <2>2. /\ Lesser(Room - output, needed) \in Nat
        /\ Lesser(Room - output, needed) <= Room - output
        /\ Lesser(Room - output, needed) <= needed
    BY <2>1 DEF Lesser
  <2>3. output' \in 0 .. Room /\ needed' \in 0 .. Blocksize /\ pc' \in {"top", "output"}
    BY <1>7, <2>1, <2>2 DEF EnqueueOutput
  <2>4. QED
    BY <1>7, <2>3 DEF TypeOK, EnqueueOutput
<1>8. CASE OutputStopped
  BY <1>8, SizesAssumption DEF TypeOK, OutputStopped
<1>9. CASE MixerLock
  BY <1>9 DEF TypeOK, MixerLock
<1>10. CASE MixerCallback
  <2>1. asked' \in 0 .. Blocksize
    BY <1>10, SizesAssumption DEF TypeOK, MixerCallback, Lesser
  <2>2. QED
    BY <1>10, <2>1 DEF TypeOK, MixerCallback
<1>11. CASE DequeueOutput
  <2>1. output \in 0 .. Room /\ asked \in 0 .. Blocksize /\ Room \in Nat /\ Blocksize \in Nat
    BY SizesAssumption DEF TypeOK
  <2>2. /\ Lesser(output, asked) \in Nat
        /\ Lesser(output, asked) <= output /\ Lesser(output, asked) <= asked
    BY <2>1 DEF Lesser
  <2>3. output' \in 0 .. Room /\ asked' \in 0 .. Blocksize /\ callback' \in {"idle", "pulling"}
    BY <1>11, <2>1, <2>2 DEF DequeueOutput
  <2>4. QED
    BY <1>11, <2>3 DEF TypeOK, DequeueOutput
<1>12. CASE OutputEnded
  BY <1>12, SizesAssumption DEF TypeOK, OutputEnded
<1>13. QED
  BY <1>1, <1>2, <1>3, <1>4, <1>5, <1>6, <1>7, <1>8, <1>9, <1>10, <1>11, <1>12
     DEF MixerStep, CallbackStep

----------------------------------------------------------------------------
(* The plan is kept.                                                       *)

\* The step moves the script on and does to the program what it does to the
\* plan; it is no step of the mutex.
Follows(x) ==
  /\ Now(x.op, x.dev) /\ x.op \notin {"lock", "unlock"}
  /\ script' = Tail(script) /\ UNCHANGED <<installed, holder, depth>>
  /\ exists' = Minus(x, "free", With(x, "construct", exists))
  /\ pointed' = Minus(x, "forget", With(x, "point", pointed))
  /\ channels' = Minus(x, "erase", With(x, "add", channels))
  /\ enabled' = Minus(x, "disable", With(x, "enable", enabled))
  /\ running' = Minus(x, "free", Minus(x, "stop",
                  With(x, "start", With(x, "construct", running))))

LEMMA StepPlanned ==
  ASSUME Planned, NEW op, NEW d, Follows([op |-> op, dev |-> d])
  PROVE  Planned'
<1> DEFINE x == [op |-> op, dev |-> d]
<1>0. /\ Now(op, d) /\ op \notin {"lock", "unlock"}
      /\ script' = Tail(script) /\ UNCHANGED <<installed, holder, depth>>
      /\ exists' = Minus(x, "free", With(x, "construct", exists))
      /\ pointed' = Minus(x, "forget", With(x, "point", pointed))
      /\ channels' = Minus(x, "erase", With(x, "add", channels))
      /\ enabled' = Minus(x, "disable", With(x, "enable", enabled))
      /\ running' = Minus(x, "free", Minus(x, "stop",
                      With(x, "start", With(x, "construct", running))))
  BY DEF Follows
<1>1. PICK a : /\ Describes(a) /\ Allowed(x, a)
               /\ After(x, a) \in PlanStates /\ EndsWell(Tail(script), After(x, a))
  BY <1>0, NowPlanned
<1> DEFINE b == After(x, a)
<1>2. x.op = op /\ x.dev = d
  OBVIOUS
<1> HIDE DEF x
<1>3. /\ b.depth = a.depth /\ b.installed = a.installed
      /\ b.exists = Minus(x, "free", With(x, "construct", a.exists))
      /\ b.pointed = Minus(x, "forget", With(x, "point", a.pointed))
      /\ b.channels = Minus(x, "erase", With(x, "add", a.channels))
      /\ b.doomed = Minus(x, "free", With(x, "forget", a.doomed))
      /\ b.off = Minus(x, "enable", With(x, "disable", a.off))
      /\ b.started = Minus(x, "free", Minus(x, "stop", With(x, "start", a.started)))
  BY <1>0, <1>2 DEF After
<1>4. /\ a.depth = IF holder = "main" THEN depth ELSE 0
      /\ a.installed = installed /\ a.exists = exists
      /\ a.pointed = pointed /\ a.channels = channels
      /\ a.off \cap enabled = {} /\ a.started \subseteq running
      /\ \A e \in exists : Covered(e, a.doomed)
  BY <1>0, <1>1 DEF Describes, Now
<1>5. Locking => holder = "main"
  BY <1>0 DEF Locking, Now
<1>6. holder = "main" => Locking'
  BY <1>0 DEF Locking
<1> HIDE DEF b
<1>7. ASSUME NEW e \in exists' PROVE Covered(e, b.doomed)'
  <2>1. CASE e \notin exists
    <3>1. op = "construct" /\ d = e
      BY <1>0, <1>2, <2>1 DEF With, Minus
    <3>2. e \in running'
      BY <1>0, <1>2, <3>1 DEF With, Minus
    <3>3. QED
      BY <3>2 DEF Covered
  <2>2. CASE e \in exists
    <3>1. ~(op = "free" /\ d = e)
      BY <1>0, <1>2 DEF With, Minus
    <3>2. Covered(e, a.doomed)
      BY <1>4, <2>2
    <3>3. CASE e \in running
      <4>1. CASE op = "stop" /\ d = e
        <5>1. e \in a.doomed \/ (e \in ReelMagics /\ e \notin enabled)
          BY <1>1, <1>2, <1>4, <4>1 DEF Allowed
        <5>2. enabled' = enabled /\ b.doomed = a.doomed
          BY <1>0, <1>2, <1>3, <4>1 DEF With, Minus
        <5>3. QED
          BY <5>1, <5>2 DEF Covered
      <4>2. CASE ~(op = "stop" /\ d = e)
        <5>1. e \in running'
          BY <1>0, <1>2, <3>1, <3>3, <4>2 DEF With, Minus
        <5>2. QED
          BY <5>1 DEF Covered
      <4>3. QED
        BY <4>1, <4>2
    <3>4. CASE e \in pointed /\ Locking
      <4>1. e \in pointed' \/ e \in b.doomed
        BY <1>0, <1>2, <1>3, <3>4 DEF With, Minus
      <4>2. Locking'
        BY <1>5, <1>6, <3>4
      <4>3. QED
        BY <4>1, <4>2 DEF Covered
    <3>5. CASE e \in a.doomed
      <4>1. e \in b.doomed
        BY <1>0, <1>2, <1>3, <3>1, <3>5 DEF With, Minus
      <4>2. QED
        BY <4>1 DEF Covered
    <3>6. CASE e \in ReelMagics /\ e \notin enabled \cap channels
      <4>1. CASE op = "enable" /\ d = e
        <5>1. e \in running
          BY <1>1, <1>2, <1>4, <4>1 DEF Allowed
        <5>2. QED
          BY <3>3, <5>1
      <4>2. CASE op = "add" /\ d = e
        <5>1. e \in pointed /\ holder = "main"
          BY <1>1, <1>2, <1>4, <3>6, <4>2 DEF Allowed
        <5>2. e \in pointed'
          BY <1>0, <1>2, <4>2, <5>1 DEF With, Minus
        <5>3. QED
          BY <1>6, <5>1, <5>2 DEF Covered
      <4>3. CASE ~(op = "enable" /\ d = e) /\ ~(op = "add" /\ d = e)
        <5>1. e \notin enabled' \cap channels'
          BY <1>0, <1>2, <3>6, <4>3 DEF With, Minus
        <5>2. QED
          BY <3>6, <5>1 DEF Covered
      <4>4. QED
        BY <4>1, <4>2, <4>3
    <3>7. QED
      BY <3>2, <3>3, <3>4, <3>5, <3>6 DEF Covered
  <2>3. QED
    BY <2>1, <2>2
<1>8. b.off \cap enabled' = {}
  BY <1>0, <1>2, <1>3, <1>4 DEF With, Minus
<1>9. b.started \subseteq running'
  BY <1>0, <1>2, <1>3, <1>4 DEF With, Minus
<1>10. Describes(b)'
  BY <1>0, <1>1, <1>3, <1>4, <1>7, <1>8, <1>9 DEF Describes, b
<1>11. QED
  BY <1>0, <1>1, <1>10 DEF Planned, b

\* A queue that is stopped for a lock is covered by the lock.
LEMMA NotifyLockPlanned ==
  ASSUME Planned, NEW d \in Devices, NotifyLockMixer(d)
  PROVE  Planned'
<1>1. PICK a : Describes(a) /\ EndsWell(script, a)
  BY DEF Planned
<1>2. /\ UNCHANGED <<script, installed, exists, pointed, channels, holder, depth, enabled>>
      /\ running' = IF d \in pointed THEN running \ {d} ELSE running
      /\ Now("lock", "none") /\ Now("lock", "none")'
  BY DEF NotifyLockMixer, Now, lockVars
<1>3. Locking /\ Locking'
  BY <1>2 DEF Locking, Now
<1>4. ASSUME NEW e \in exists' PROVE Covered(e, a.doomed)'
  <2>1. Covered(e, a.doomed)
    BY <1>1, <1>2 DEF Describes
  <2>2. QED
    BY <1>2, <1>3, <2>1 DEF Covered
<1>5. Describes(a)'
  BY <1>1, <1>2, <1>4 DEF Describes
<1>6. QED
  BY <1>1, <1>2, <1>5 DEF Planned

LEMMA AcquirePlanned ==
  ASSUME TypeOK, Planned, Acquire
  PROVE  Planned'
<1> DEFINE x == [op |-> "lock", dev |-> "none"]
<1>1. PICK a : /\ Describes(a) /\ Allowed(x, a)
               /\ After(x, a) \in PlanStates /\ EndsWell(Tail(script), After(x, a))
  BY NowPlanned DEF Acquire
<1> DEFINE b == After(x, a)
<1>2. /\ b.depth = a.depth + 1 /\ b.installed = a.installed /\ b.exists = a.exists
      /\ b.pointed = a.pointed /\ b.channels = a.channels /\ b.doomed = a.doomed
      /\ b.off = a.off /\ b.started = {}
  BY DEF After, With, Minus
<1>3. /\ script' = Tail(script) /\ holder' = "main" /\ depth' = depth + 1
      /\ UNCHANGED <<installed, exists, pointed, channels, running, enabled>>
      /\ Now("lock", "none") /\ (holder = "main" \/ holder = "nobody")
  BY DEF Acquire, Done
<1> HIDE DEF b
<1>4. Locking /\ Locking'
  BY <1>3 DEF Locking, Now
<1>5. ASSUME NEW e \in exists' PROVE Covered(e, b.doomed)'
  <2>1. Covered(e, a.doomed)
    BY <1>1, <1>3 DEF Describes
  <2>2. QED
    BY <1>2, <1>3, <1>4, <2>1 DEF Covered
<1>6. b.depth = depth'
  BY <1>1, <1>2, <1>3 DEF Describes, TypeOK
<1>7. Describes(b)'
  BY <1>1, <1>2, <1>3, <1>5, <1>6 DEF Describes, b
<1>8. QED
  BY <1>1, <1>3, <1>7 DEF Planned, b

\* When the mutex is given back, every queue that the lock stopped runs again.
LEMMA ReleasePlanned ==
  ASSUME TypeOK, Planned, Restarted, Release
  PROVE  Planned'
<1> DEFINE x == [op |-> "unlock", dev |-> "none"]
<1>1. PICK a : /\ Describes(a) /\ Allowed(x, a)
               /\ After(x, a) \in PlanStates /\ EndsWell(Tail(script), After(x, a))
  BY NowPlanned DEF Release
<1> DEFINE b == After(x, a)
<1>2. /\ b.depth = a.depth - 1 /\ b.installed = a.installed /\ b.exists = a.exists
      /\ b.pointed = a.pointed /\ b.channels = a.channels /\ b.doomed = a.doomed
      /\ b.off = a.off /\ b.started = a.started
  BY DEF After, With, Minus
<1>3. /\ script' = Tail(script) /\ depth' = depth - 1
      /\ holder' = IF depth = 1 THEN "nobody" ELSE "main"
      /\ UNCHANGED <<installed, exists, pointed, channels, running, enabled>>
      /\ Now("unlock", "none") /\ left = {}
  BY DEF Release, Done
<1> HIDE DEF b
<1>4. holder = "main" /\ depth \in Nat \ {0}
  BY <1>3, NowType
<1>5. pointed \subseteq running
  BY <1>3 DEF Restarted
<1>6. ASSUME NEW e \in exists' PROVE Covered(e, b.doomed)'
  <2>1. Covered(e, a.doomed)
    BY <1>1, <1>3 DEF Describes
  <2>2. QED
    BY <1>2, <1>3, <1>5, <2>1 DEF Covered
<1>7. b.depth = IF holder' = "main" THEN depth' ELSE 0
  BY <1>1, <1>2, <1>3, <1>4 DEF Describes
<1>8. b.started \subseteq running'
  BY <1>1, <1>2, <1>3 DEF Describes, Now
<1>9. Describes(b)'
  BY <1>1, <1>2, <1>3, <1>6, <1>7, <1>8 DEF Describes, b
<1>10. QED
  BY <1>1, <1>3, <1>9 DEF Planned, b

LEMMA ScriptPlanned ==
  ASSUME TypeOK, Planned, Restarted, ScriptStep \/ Acquire
  PROVE  Planned'
<1> USE DEF lockVars, mixerVars, outputVars
<1>1. ASSUME NEW d \in Devices, NotifyUnlockMixer(d) PROVE Planned'
  BY <1>1, FramePlanned DEF NotifyUnlockMixer
<1>2. ASSUME NEW d \in Devices, Construct(d) PROVE Planned'
  <2>1. Follows([op |-> "construct", dev |-> d])
    BY <1>2 DEF Follows, Construct, Done, With, Minus
  <2>2. QED
    BY <2>1, StepPlanned
<1>3. ASSUME NEW d \in Devices, Free(d) PROVE Planned'
  <2>1. Follows([op |-> "free", dev |-> d])
    BY <1>3 DEF Follows, Free, Done, With, Minus
  <2>2. QED
    BY <2>1, StepPlanned
<1>4. ASSUME NEW d \in Devices, SetPointer(d) PROVE Planned'
  <2>1. Follows([op |-> "point", dev |-> d]) \/ Follows([op |-> "forget", dev |-> d])
    BY <1>4 DEF Follows, SetPointer, Done, With, Minus
  <2>2. QED
    BY <2>1, StepPlanned
<1>5. ASSUME NEW d \in Devices, SetChannel(d) PROVE Planned'
  <2>1. Follows([op |-> "add", dev |-> d]) \/ Follows([op |-> "erase", dev |-> d])
    BY <1>5 DEF Follows, SetChannel, Done, With, Minus
  <2>2. QED
    BY <2>1, StepPlanned
<1>6. ASSUME NEW d \in Devices, Enable(d) PROVE Planned'
  <2>1. Follows([op |-> "enable", dev |-> d]) \/ Follows([op |-> "disable", dev |-> d])
    BY <1>6 DEF Follows, Enable, Done, With, Minus
  <2>2. QED
    BY <2>1, StepPlanned
<1>7. ASSUME NEW d \in Devices, StartStop(d) PROVE Planned'
  <2>1. Follows([op |-> "start", dev |-> d]) \/ Follows([op |-> "stop", dev |-> d])
    BY <1>7 DEF Follows, StartStop, Done, With, Minus
  <2>2. QED
    BY <2>1, StepPlanned
<1>8. CASE Quit
  <2>1. Follows([op |-> "quit", dev |-> "none"])
    BY <1>8 DEF Follows, Quit, Done, With, Minus
  <2>2. QED
    BY <2>1, StepPlanned
<1>9. CASE EndOutput
  <2>1. Follows([op |-> "end output", dev |-> "none"])
    BY <1>9 DEF Follows, EndOutput, Done, With, Minus
  <2>2. QED
    BY <2>1, StepPlanned
<1>10. CASE Join
  <2>1. Follows([op |-> "join", dev |-> "none"])
    BY <1>10 DEF Follows, Join, Done, With, Minus
  <2>2. QED
    BY <2>1, StepPlanned
<1>11. CASE CloseStream
  <2>1. Follows([op |-> "close", dev |-> "none"])
    BY <1>11 DEF Follows, CloseStream, Done, With, Minus
  <2>2. QED
    BY <2>1, StepPlanned
<1>12. QED
  BY <1>1, <1>2, <1>3, <1>4, <1>5, <1>6, <1>7, <1>8, <1>9, <1>10, <1>11,
     NotifyLockPlanned, AcquirePlanned, ReleasePlanned
     DEF ScriptStep

\* The guest uses a device: its channel is enabled, and a device whose queue it
\* does not start, a ReelMagic apart, has a running queue already.
LEMMA WakeUpPlanned ==
  ASSUME TypeOK, Planned, NEW d \in Devices, WakeUp(d)
  PROVE  Planned'
<1>1. Settled(Base) /\ holder # "main" /\ \A e \in exists : Covered(e, {})
  BY IdleState DEF WakeUp
<1>2. /\ script = <<>> /\ d \notin ReelMagics
      /\ UNCHANGED <<installed, script, exists, pointed, channels, holder, depth>>
      /\ enabled' = enabled \cup {d} /\ running \subseteq running'
  BY DEF WakeUp, Idle, mainVars, lockVars
<1>3. ASSUME NEW e \in exists' PROVE Covered(e, {})'
  BY <1>1, <1>2 DEF Covered, Locking
<1>4. Base' = Base /\ Base \in PlanStates
  BY <1>1, <1>2 DEF Base, Settled
<1>5. Describes(Base)'
  <2>1. /\ Base.depth = 0 /\ Base.installed = installed /\ Base.exists = exists
        /\ Base.pointed = pointed /\ Base.channels = channels /\ Base.doomed = {}
        /\ Base.off = {} /\ Base.started = {}
    BY DEF Base
  <2>2. QED
    BY <1>1, <1>2, <1>3, <1>4, <2>1 DEF Describes
<1>6. EndsWell(script', Base')
  <2>1. Runs(<<>>, Base, Base)
    BY <1>4, RunsEmpty
  <2>2. QED
    BY <1>1, <1>2, <1>4, <2>1 DEF EndsWell
<1>7. QED
  BY <1>5, <1>6 DEF Planned

LEMMA MainPlanned ==
  ASSUME TypeOK, Planned, Registered, MainStep
  PROVE  Planned'
<1> USE DEF mainVars, lockVars, mixerVars, outputVars
<1>1. ASSUME NEW s, Begin(s), EndsWell(s, Base) PROVE Planned'
  BY <1>1, BeginPlanned
<1>2. ASSUME NEW d \in Guses, GusReset(d) PROVE Planned'
  BY <1>2, FramePlanned DEF GusReset
<1>3. CASE Tick
  BY <1>3, FramePlanned DEF Tick
<1>4. CASE MIXER_Mute
  BY <1>4, FramePlanned DEF MIXER_Mute
<1>5. CASE MIXER_Unmute
  BY <1>5, FramePlanned DEF MIXER_Unmute
<1>6. QED
  BY <1>1, <1>2, <1>3, <1>4, <1>5, BegunEndsWell, WakeUpPlanned

LEMMA OtherPlanned ==
  ASSUME TypeOK, Planned, Hold, MixerStep \/ MixerLock \/ CallbackStep
  PROVE  Planned'
<1> USE DEF mainVars, lockVars, mixerVars, outputVars
<1>1. /\ UNCHANGED <<installed, script, exists, pointed, channels, running>>
      /\ enabled' \subseteq enabled
  BY DEF MixerStep, MixerTop, Mix, MIXER_PullFromQueueCallback, PullStopped, MaybeSleep,
         MixerUnlock, EnqueueOutput, OutputStopped, MixerLock, CallbackStep, MixerCallback,
         DequeueOutput, OutputEnded
<1>2. UNCHANGED <<holder, depth>> \/ (holder # "main" /\ holder' # "main")
  BY DEF MixerStep, MixerTop, Mix, MIXER_PullFromQueueCallback, PullStopped, MaybeSleep,
         MixerUnlock, EnqueueOutput, OutputStopped, MixerLock, CallbackStep, MixerCallback,
         DequeueOutput, OutputEnded, Hold
<1>3. QED
  BY <1>1, <1>2, FramePlanned

----------------------------------------------------------------------------
(* The mutex, the channels and the mixer thread.                           *)

LEMMA HoldStep ==
  ASSUME TypeOK, Planned, Registered, Hold, Next
  PROVE  Hold'
<1> USE DEF mainVars, lockVars, mixerVars, outputVars
<1>1. CASE MainStep
  <2>1. UNCHANGED <<pc, holder, depth>>
    BY <1>1, BegunEndsWell
       DEF Begin, WakeUp, GusReset, Tick, MIXER_Mute, MIXER_Unmute
  <2>2. QED
    BY <2>1 DEF Hold
<1>2. CASE Release
  <2>1. holder = "main"
    BY <1>2, NowType DEF Release
  <2>2. QED
    BY <1>2, <2>1 DEF Release, Hold
<1>3. CASE Acquire
  BY <1>3 DEF Acquire, Hold
<1>4. CASE ScriptStep /\ ~Release
  <2>1. UNCHANGED <<pc, holder, depth>>
    BY <1>4 DEF ScriptStep, NotifyLockMixer, NotifyUnlockMixer, Construct, Free, SetPointer,
                SetChannel, Enable, StartStop, Quit, EndOutput, Join, CloseStream
  <2>2. QED
    BY <2>1 DEF Hold
<1>5. CASE MixerTop \/ EnqueueOutput \/ OutputStopped
  BY <1>5 DEF MixerTop, EnqueueOutput, OutputStopped, Hold
<1>6. ASSUME NEW d \in Devices, Mix(d) PROVE Hold'
  BY <1>6 DEF Mix, Hold
<1>7. CASE MIXER_PullFromQueueCallback \/ PullStopped \/ MaybeSleep
  BY <1>7 DEF MIXER_PullFromQueueCallback, PullStopped, MaybeSleep, Hold
<1>8. CASE MixerUnlock
  BY <1>8 DEF MixerUnlock, Hold
<1>9. CASE MixerLock
  BY <1>9 DEF MixerLock, Hold
<1>10. CASE CallbackStep
  BY <1>10 DEF CallbackStep, MixerCallback, DequeueOutput, OutputEnded, Hold
<1>11. QED
  BY <1>1, <1>2, <1>3, <1>4, <1>5, <1>6, <1>7, <1>8, <1>9, <1>10 DEF Next, MixerStep

\* What the main thread does to devices and channels: a channel goes only under
\* the mutex, a device only after its channel.
LEMMA LiveStep ==
  ASSUME TypeOK, Planned, Registered, Next
  PROVE  /\ Registered'
         /\ holder = "main" \/ channels \cap exists \subseteq channels' \cap exists'
<1> USE DEF mainVars, lockVars, mixerVars, outputVars
<1>1. CASE MainStep
  <2>1. UNCHANGED <<installed, exists, pointed, channels>>
    BY <1>1, BegunEndsWell
       DEF Begin, WakeUp, GusReset, Tick, MIXER_Mute, MIXER_Unmute
  <2>2. QED
    BY <2>1 DEF Registered
<1>2. CASE \/ MixerStep \/ MixerLock \/ CallbackStep \/ Acquire \/ Release
           \/ Quit \/ EndOutput \/ Join \/ CloseStream
           \/ \E d \in Devices : NotifyLockMixer(d) \/ NotifyUnlockMixer(d) \/ Enable(d)
                                 \/ StartStop(d)
  <2>1. UNCHANGED <<installed, exists, pointed, channels>>
    BY <1>2 DEF MixerStep, MixerTop, Mix, MIXER_PullFromQueueCallback, PullStopped, MaybeSleep,
                MixerUnlock, EnqueueOutput, OutputStopped, MixerLock, CallbackStep,
                MixerCallback, DequeueOutput, OutputEnded, Acquire, Release, Quit, EndOutput,
                Join, CloseStream, NotifyLockMixer, NotifyUnlockMixer, Enable, StartStop, Done
  <2>2. QED
    BY <2>1 DEF Registered
<1>3. ASSUME NEW d \in Devices, Construct(d)
      PROVE  Registered' /\ channels \cap exists \subseteq channels' \cap exists'
  BY <1>3 DEF Construct, Done, Registered
<1>4. ASSUME NEW d \in Devices, Free(d)
      PROVE  Registered' /\ channels \cap exists \subseteq channels' \cap exists'
  <2>1. d \notin pointed \cup channels
    BY <1>4, NowType DEF Free
  <2>2. QED
    BY <1>4, <2>1 DEF Free, Done, Registered
<1>5. ASSUME NEW d \in Devices, SetPointer(d)
      PROVE  Registered' /\ channels \cap exists \subseteq channels' \cap exists'
  <2>1. Now("forget", d) => d \notin ReelMagics
    BY NowType
  <2>2. QED
    BY <1>5, <2>1 DEF SetPointer, Done, Registered
<1>6. ASSUME NEW d \in Devices, SetChannel(d)
      PROVE  /\ Registered'
             /\ holder = "main" \/ channels \cap exists \subseteq channels' \cap exists'
  <2>1. /\ Now("add", d) => d \in exists
        /\ Now("erase", d) => holder = "main"
    BY NowType
  <2>2. QED
    BY <1>6, <2>1 DEF SetChannel, Done, Registered
<1>7. QED
  BY <1>1, <1>2, <1>3, <1>4, <1>5, <1>6 DEF Next, ScriptStep

LEMMA LiveDevicesStep ==
  ASSUME TypeOK, Planned, Registered, Hold, OnlyLiveDevices, Next
  PROVE  OnlyLiveDevices'
<1> USE DEF mainVars, lockVars, mixerVars, outputVars
<1>1. CASE MainStep \/ ScriptStep \/ Acquire \/ CallbackStep
  <2>1. UNCHANGED <<pc, todo, device>>
    <3>1. CASE MainStep
      BY <3>1, BegunEndsWell
         DEF Begin, WakeUp, GusReset, Tick, MIXER_Mute, MIXER_Unmute
    <3>2. CASE ScriptStep
      BY <3>2 DEF ScriptStep, NotifyLockMixer, NotifyUnlockMixer, Construct, Free, SetPointer,
                  SetChannel, Enable, StartStop, Release, Quit, EndOutput, Join, CloseStream
    <3>3. CASE Acquire
      BY <3>3 DEF Acquire
    <3>4. CASE CallbackStep
      BY <3>4 DEF CallbackStep, MixerCallback, DequeueOutput, OutputEnded
    <3>5. QED
      BY <1>1, <3>1, <3>2, <3>3, <3>4
  <2>2. holder = "main" => pc \notin {"mixing", "pulling", "mixed"}
    BY DEF Hold
  <2>3. QED
    BY <2>1, <2>2, LiveStep DEF OnlyLiveDevices
<1>2. CASE MixerTop \/ EnqueueOutput \/ OutputStopped \/ MixerUnlock
  BY <1>2 DEF MixerTop, EnqueueOutput, OutputStopped, MixerUnlock, OnlyLiveDevices
<1>3. ASSUME NEW d \in Devices, Mix(d) PROVE OnlyLiveDevices'
  BY <1>3 DEF Mix, OnlyLiveDevices
<1>4. CASE MIXER_PullFromQueueCallback \/ PullStopped \/ MaybeSleep
  BY <1>4 DEF MIXER_PullFromQueueCallback, PullStopped, MaybeSleep, OnlyLiveDevices
<1>5. CASE MixerLock
  BY <1>5 DEF MixerLock, OnlyLiveDevices, Registered
<1>6. QED
  BY <1>1, <1>2, <1>3, <1>4, <1>5 DEF Next, MixerStep

\* When the script comes to an unlock, every queue is still to be started.
LEMMA RestartedStep ==
  ASSUME TypeOK, Planned, Registered, Restarted, Next, TypeOK'
  PROVE  Restarted'
<1> USE DEF mainVars, lockVars, mixerVars, outputVars
<1>1. ASSUME Done PROVE Restarted'
  <2>1. left' = installed' /\ pointed' \subseteq installed'
    BY <1>1 DEF Done, TypeOK
  <2>2. QED
    BY <2>1 DEF Restarted
<1>2. CASE MainStep
  <2>1. ASSUME NEW s, Begin(s), EndsWell(s, Base) PROVE Restarted'
    BY <2>1, BeginPlanned DEF Restarted
  <2>2. ASSUME Idle, script' = script PROVE Restarted'
    BY <2>2 DEF Restarted, Now, Idle
  <2>3. QED
    BY <1>2, <2>1, <2>2, BegunEndsWell
       DEF WakeUp, GusReset, Tick, MIXER_Mute, MIXER_Unmute
<1>3. CASE MixerStep \/ MixerLock \/ CallbackStep
  <2>1. UNCHANGED <<script, pointed, left, running>>
    BY <1>3 DEF MixerStep, MixerTop, Mix, MIXER_PullFromQueueCallback, PullStopped, MaybeSleep,
                MixerUnlock, EnqueueOutput, OutputStopped, MixerLock, CallbackStep,
                MixerCallback, DequeueOutput, OutputEnded
  <2>2. QED
    BY <2>1 DEF Restarted, Now
<1>4. ASSUME NEW d \in Devices, NotifyLockMixer(d) PROVE Restarted'
  BY <1>4 DEF NotifyLockMixer, Now, Restarted
<1>5. ASSUME NEW d \in Devices, NotifyUnlockMixer(d) PROVE Restarted'
  BY <1>5 DEF NotifyUnlockMixer, Now, Restarted
<1>6. ASSUME Next, ~MainStep, ~(MixerStep \/ MixerLock \/ CallbackStep),
             ~(\E d \in Devices : NotifyLockMixer(d) \/ NotifyUnlockMixer(d))
      PROVE  Done
  BY <1>6 DEF Next, ScriptStep, Construct, Free, SetPointer, SetChannel, Enable, StartStop,
              Release, Quit, EndOutput, Join, CloseStream, Acquire
<1>7. QED
  BY <1>1, <1>2, <1>3, <1>4, <1>5, <1>6

\* When the script comes to a lock, every queue is still to be stopped.
LEMMA StoppedStep ==
  ASSUME TypeOK, Planned, Registered, Stopped, Next, TypeOK'
  PROVE  Stopped'
<1> USE DEF mainVars, lockVars, mixerVars, outputVars
<1>1. ASSUME Done PROVE Stopped'
  <2>1. left' = installed' /\ pointed' \subseteq installed'
    BY <1>1 DEF Done, TypeOK
  <2>2. QED
    BY <2>1 DEF Stopped
<1>2. CASE MainStep
  <2>1. ASSUME NEW s, Begin(s) PROVE Stopped'
    <3>1. left' = installed' /\ pointed' \subseteq installed'
      BY <2>1 DEF Begin, Stopped, TypeOK
    <3>2. QED
      BY <3>1 DEF Stopped
  <2>2. ASSUME Idle, UNCHANGED <<script, left, installed>> PROVE Stopped'
    BY <2>2 DEF Stopped, Now, Idle
  <2>3. QED
    BY <1>2, <2>1, <2>2, BegunEndsWell
       DEF WakeUp, GusReset, Tick, MIXER_Mute, MIXER_Unmute
<1>3. CASE MixerStep \/ MixerLock \/ CallbackStep
  <2>1. UNCHANGED <<script, pointed, left, running, installed>>
    BY <1>3 DEF MixerStep, MixerTop, Mix, MIXER_PullFromQueueCallback, PullStopped, MaybeSleep,
                MixerUnlock, EnqueueOutput, OutputStopped, MixerLock, CallbackStep,
                MixerCallback, DequeueOutput, OutputEnded
  <2>2. QED
    BY <2>1 DEF Stopped, Now, Idle
<1>4. ASSUME NEW d \in Devices, NotifyLockMixer(d) PROVE Stopped'
  BY <1>4 DEF NotifyLockMixer, Now, Stopped, Idle
<1>5. ASSUME NEW d \in Devices, NotifyUnlockMixer(d) PROVE Stopped'
  BY <1>5 DEF NotifyUnlockMixer, Now, Stopped, Idle
<1>6. ASSUME Next, ~MainStep, ~(MixerStep \/ MixerLock \/ CallbackStep),
             ~(\E d \in Devices : NotifyLockMixer(d) \/ NotifyUnlockMixer(d))
      PROVE  Done
  BY <1>6 DEF Next, ScriptStep, Construct, Free, SetPointer, SetChannel, Enable, StartStop,
              Release, Quit, EndOutput, Join, CloseStream, Acquire
<1>7. QED
  BY <1>1, <1>2, <1>3, <1>4, <1>5, <1>6

----------------------------------------------------------------------------
(* The theorems.                                                           *)

LEMMA InitInv ==
  ASSUME Init
  PROVE  IInv
<1>1. TypeOK
  BY InitType
<1>2. ReelMagics \cap installed = exists /\ pointed = exists /\ running = exists
      /\ script = <<>> /\ holder = "nobody" /\ depth = 0 /\ channels = {} /\ enabled = {}
      /\ pc = "top"
  BY DEF Init
<1>3. Base \in PlanStates /\ Settled(Base)
  <2>1. installed \in SUBSET Devices /\ exists \in SUBSET Devices /\ pointed \in SUBSET Devices
    BY <1>1, <1>2, InstallationsAssumption DEF TypeOK
  <2>2. QED
    BY <1>2, <2>1 DEF Base, Settled, PlanStates
<1>4. Describes(Base)
  <2>1. /\ Base.depth = 0 /\ Base.installed = installed /\ Base.exists = exists
        /\ Base.pointed = pointed /\ Base.channels = channels /\ Base.doomed = {}
        /\ Base.off = {} /\ Base.started = {}
    BY DEF Base
  <2>2. QED
    BY <1>2, <1>3, <2>1 DEF Describes, Covered
<1>5. Planned
  <2>1. Runs(<<>>, Base, Base)
    BY <1>3, RunsEmpty
  <2>2. QED
    BY <1>2, <1>3, <1>4, <2>1 DEF Planned, EndsWell
<1>6. left = installed
  BY DEF Init
<1>7. QED
  BY <1>1, <1>2, <1>5, <1>6 DEF IInv, Hold, Restarted, Stopped, Now, Registered, OnlyLiveDevices

LEMMA StutterInv ==
  ASSUME IInv, UNCHANGED vars
  PROVE  IInv'
<1> USE DEF vars, mainVars, lockVars, mixerVars, outputVars
<1>1. TypeOK'
  BY DEF IInv, TypeOK
<1>2. Planned'
  BY FramePlanned DEF IInv
<1>3. Hold' /\ Registered' /\ OnlyLiveDevices'
  BY DEF IInv, Hold, Registered, OnlyLiveDevices
<1>4. Restarted' /\ Stopped'
  BY DEF IInv, Restarted, Stopped, Now, Idle
<1>5. QED
  BY <1>1, <1>2, <1>3, <1>4 DEF IInv

LEMMA NextInv ==
  ASSUME IInv, Next
  PROVE  IInv'
<1> USE DEF IInv
<1>1. TypeOK'
  BY MainType, ScriptType, OtherType DEF Next
<1>2. Planned'
  BY MainPlanned, ScriptPlanned, OtherPlanned DEF Next
<1>3. QED
  BY <1>1, <1>2, HoldStep, LiveStep, LiveDevicesStep, RestartedStep, StoppedStep

LEMMA Invariance == Spec => []IInv
<1>1. Init => IInv
  BY InitInv
<1>2. IInv /\ [Next]_vars => IInv'
  BY StutterInv, NextInv
<1>3. QED
  BY <1>1, <1>2, PTL DEF Spec

\* The variables keep their types: no queue holds more than two blocks, and the
\* mutex is held exactly when it has been locked.
THEOREM TypeCorrect == Spec => []TypeOK
<1>1. IInv => TypeOK
  BY DEF IInv
<1>2. QED
  BY <1>1, Invariance, PTL

\* Devices and channels come and go while the mixer thread runs; it has only to
\* do with those that are registered and exist.
THEOREM LiveDevices == Spec => []OnlyLiveDevices
<1>1. IInv => OnlyLiveDevices
  BY DEF IInv
<1>2. QED
  BY <1>1, Invariance, PTL

\* Between scripts the main thread holds no lock, and every device that plays
\* has a running queue.
THEOREM NormalAgain == Spec => []BackToNormal
<1>1. IInv => BackToNormal
  <2>1. SUFFICES ASSUME IInv, Idle
                 PROVE  holder # "main" /\ enabled \cap channels \subseteq running
    BY DEF BackToNormal
  <2>2. holder # "main" /\ \A d \in exists : Covered(d, {})
    BY <2>1, IdleState DEF IInv
  <2>3. ~Locking
    BY <2>1, <2>2 DEF Locking, Idle
  <2>4. channels \subseteq exists
    BY <2>1 DEF IInv, Registered
  <2>5. QED
    BY <2>2, <2>3, <2>4 DEF Covered
<1>2. QED
  BY <1>1, Invariance, PTL

\* Whoever waits for the mutex while the mixer thread has it has stopped every
\* queue that the mixer thread may pull from, except that of a PS/1 or Tandy DAC
\* that is being destroyed.
QueuesAreStopped ==
  Now("lock", "none") /\ left = {} /\ holder = "mixer" =>
    channels \cap running \subseteq Ps1s \ pointed

\* The main thread, waiting for the mutex, and the mixer thread, waiting for
\* samples, never wait for each other, unless a PS/1 or Tandy DAC is destroyed.
THEOREM LockStopsQueues == Spec => []QueuesAreStopped
<1>1. IInv => QueuesAreStopped
  <2>1. SUFFICES ASSUME IInv, Now("lock", "none"), left = {}, holder = "mixer",
                        NEW d \in channels \cap running
                 PROVE  d \in Ps1s \ pointed
    BY DEF QueuesAreStopped
  <2>2. d \notin pointed
    BY <2>1 DEF IInv, Stopped
  <2>3. PICK a : Describes(a) /\ Allowed(LockStep, a)
    BY <2>1, NowPlanned DEF IInv, LockStep
  <2>4. a.depth = 0 /\ a.channels = channels /\ a.pointed = pointed
    BY <2>1, <2>3 DEF Describes
  <2>5. channels \ pointed \subseteq Ps1s
    BY <2>3, <2>4 DEF Allowed, LockStep, Lockable
  <2>6. QED
    BY <2>1, <2>2, <2>5
<1>2. QED
  BY <1>1, Invariance, PTL

\* What is mixed misses sound only on behalf of a lock, or of the guest, that
\* stopped the queue.
THEOREM NoSoundIsLeftOut == Spec => NoGap
<1> DEFINE Gap == pc = "pulling" /\ pc' = "mixed" /\ needed > 0 /\ queued'[device] = queued[device]
           Excused == ~Idle \/ device \notin enabled
<1>1. ASSUME IInv, Next, Gap PROVE Excused
  <2>1. MIXER_PullFromQueueCallback \/ PullStopped
    <3>1. CASE MainStep
      <4>1. TypeOK /\ Planned /\ Registered
        BY <1>1 DEF IInv
      <4>2. UNCHANGED pc
        BY <3>1, <4>1, BegunEndsWell
           DEF Begin, WakeUp, GusReset, Tick, MIXER_Mute, MIXER_Unmute, mixerVars
      <4>3. QED
        BY <1>1, <4>2
    <3>2. CASE ScriptStep \/ Acquire
      <4>1. UNCHANGED pc
        BY <3>2
           DEF ScriptStep, NotifyLockMixer, NotifyUnlockMixer, Construct, Free, SetPointer,
               SetChannel, Enable, StartStop, Release, Quit, EndOutput, Join, CloseStream,
               Acquire, mixerVars
      <4>2. QED
        BY <1>1, <4>1
    <3>3. CASE CallbackStep
      BY <1>1, <3>3 DEF CallbackStep, MixerCallback, DequeueOutput, OutputEnded, mixerVars
    <3>4. CASE MixerStep \/ MixerLock
      BY <1>1, <3>4
         DEF MixerStep, MixerTop, Mix, MaybeSleep, MixerUnlock, EnqueueOutput, OutputStopped,
             MixerLock
    <3>5. QED
      BY <1>1, <3>1, <3>2, <3>3, <3>4 DEF Next
  <2>2. ~MIXER_PullFromQueueCallback
    <3>1. SUFFICES ASSUME MIXER_PullFromQueueCallback PROVE FALSE
      OBVIOUS
    <3>2. /\ device \in Devices /\ queued \in [Devices -> 0 .. 2 * Blocksize]
          /\ needed \in 0 .. Blocksize
      BY <1>1, InstallationsAssumption DEF IInv, TypeOK
    <3>3. queued[device] \in Nat /\ needed \in Nat
      BY <3>2, SizesAssumption
    <3>4. /\ Lesser(queued[device], needed) \in Nat
          /\ Lesser(queued[device], needed) > 0
      BY <1>1, <3>1, <3>3 DEF Lesser, MIXER_PullFromQueueCallback
    <3>5. queued'[device] = queued[device] - Lesser(queued[device], needed)
      BY <3>1, <3>2 DEF MIXER_PullFromQueueCallback
    <3>6. QED
      BY <1>1, <3>3, <3>4, <3>5
  <2>3. device \notin running
    BY <2>1, <2>2 DEF PullStopped
  <2>4. device \in channels \cap exists
    BY <1>1 DEF IInv, OnlyLiveDevices
  <2>5. ASSUME Idle PROVE device \notin enabled
    <3>1. holder # "main" /\ Covered(device, {})
      BY <1>1, <2>4, <2>5, IdleState DEF IInv
    <3>2. ~Locking
      BY <2>5, <3>1 DEF Locking, Idle
    <3>3. QED
      BY <2>3, <2>4, <3>1, <3>2 DEF Covered
  <2>6. QED
    BY <2>5
<1>2. IInv /\ [Next]_vars => [Gap => Excused]_vars
  BY <1>1
<1>3. QED
  BY <1>2, Invariance, PTL DEF NoGap, Spec
=============================================================================
