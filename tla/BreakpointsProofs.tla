------------------------- MODULE BreakpointsProofs -------------------------
(***************************************************************************)
(* Proofs about Breakpoints, for any addresses, bytes and number of        *)
(* breakpoints: types, that patching is transparent, that a hit leaves no  *)
(* patch, that the sweeps pass over one address at most, and that only the *)
(* user deletes a permanent breakpoint.  Everything rests on the invariant *)
(* Kept, which every operation of BreakpointOps is shown to keep.          *)
(***************************************************************************)
EXTENDS Breakpoints, ListTheorems, FiniteSetTheorems

----------------------------------------------------------------------------
(* The inductive invariant, as a predicate of a pair s of list and memory, *)
(* the history g of guest memory and the set h of holes.                   *)

\* A breakpoint at address a remembers the right byte, and memory at a is
\* right.  The last conjunct is the strengthening: where the guest has a 0xCC
\* of its own, even the breakpoints that are not armed remember 0xCC, because
\* Disarm writes what they remember over any 0xCC it finds.
Clean(s, g, a) ==
  /\ ActiveAt(s.bps, a) = {} => s.mem[a] = g[a]
  /\ ActiveAt(s.bps, a) # {} => s.mem[a] = BpByte
  /\ \A i \in ActiveAt(s.bps, a) : s.bps[i].oldData = g[a]
  /\ g[a] = BpByte => \A i \in PhysAt(s.bps, a) : s.bps[i].oldData = BpByte

Located(bps) ==
  \A i \in DOMAIN bps : bps[i].type = "PHYSICAL" => bps[i].location \in Addrs

Typed(s) ==
  /\ s \in [bps : Seq(CBreakpoint), mem : [Addrs -> Bytes]]
  /\ Located(s.bps)

Kept(s, g, h) == Typed(s) /\ \A a \in Addrs \ h : Clean(s, g, a)

\* s1 has the breakpoints of s at the same places.
SamePlaces(s, s1) ==
  /\ Len(s1.bps) = Len(s.bps)
  /\ \A j \in DOMAIN s.bps :
       /\ s1.bps[j].type = s.bps[j].type
       /\ s1.bps[j].location = s.bps[j].location
       /\ s1.bps[j].once = s.bps[j].once

\* The types of a list, of its elements and of their fields.
LEMMA Elements ==
  ASSUME NEW s, Typed(s)
  PROVE  /\ s.bps \in Seq(CBreakpoint)
         /\ s.mem \in [Addrs -> Bytes]
         /\ Len(s.bps) \in Nat
         /\ DOMAIN s.bps = 1 .. Len(s.bps)
         /\ \A i \in DOMAIN s.bps :
              /\ s.bps[i] \in CBreakpoint
              /\ s.bps[i].type \in {"PHYSICAL", "INTERRUPT"}
              /\ s.bps[i].type = "PHYSICAL" => s.bps[i].location \in Addrs
              /\ s.bps[i].oldData \in Bytes
              /\ s.bps[i].active \in BOOLEAN
              /\ s.bps[i].once \in BOOLEAN
<1>1. s.bps \in Seq(CBreakpoint) /\ s.mem \in [Addrs -> Bytes] /\ Located(s.bps)
  BY DEF Typed
<1>2. Len(s.bps) \in Nat /\ DOMAIN s.bps = 1 .. Len(s.bps)
  BY <1>1
<1>3. ASSUME NEW i \in DOMAIN s.bps PROVE s.bps[i] \in CBreakpoint
  BY <1>1, <1>2
<1>4. \A bp \in CBreakpoint : /\ bp.type \in {"PHYSICAL", "INTERRUPT"}
                              /\ bp.oldData \in Bytes
                              /\ bp.active \in BOOLEAN
                              /\ bp.once \in BOOLEAN
  BY DEF CBreakpoint
<1>5. QED
  BY <1>1, <1>2, <1>3, <1>4 DEF Located

\* s1 is s, but for whether the breakpoint at position i is armed, what it
\* remembers, and memory.
SameBut(s, s1, i) ==
  /\ Typed(s1)
  /\ SamePlaces(s, s1)
  /\ \A j \in DOMAIN s.bps : j # i => s1.bps[j] = s.bps[j]

\* It now remembers o and is armed or not (b).
Changed(s, s1, i, o, b) ==
  /\ SameBut(s, s1, i)
  /\ s1.bps[i].oldData = o
  /\ s1.bps[i].active = b

Updated(s, i, o, b, m) ==
  [bps |-> [s.bps EXCEPT ![i] = [s.bps[i] EXCEPT !.oldData = o, !.active = b]],
   mem |-> m]

\* The effect of assigning oldData and active.
LEMMA UpdateEffect ==
  ASSUME NEW s, Typed(s), NEW i \in DOMAIN s.bps,
         NEW o \in Bytes, NEW b \in BOOLEAN, NEW m \in [Addrs -> Bytes]
  PROVE  /\ Changed(s, Updated(s, i, o, b, m), i, o, b)
         /\ Updated(s, i, o, b, m).mem = m
<1> DEFINE s1 == Updated(s, i, o, b, m)
           bp == [s.bps[i] EXCEPT !.oldData = o, !.active = b]
           q  == [s.bps EXCEPT ![i] = [s.bps[i] EXCEPT !.oldData = o, !.active = b]]
<1>1. s.bps \in Seq(CBreakpoint) /\ s.bps[i] \in CBreakpoint
  BY DEF Typed
<1>2. /\ bp \in CBreakpoint
      /\ bp.type = s.bps[i].type
      /\ bp.location = s.bps[i].location
      /\ bp.once = s.bps[i].once
      /\ bp.oldData = o
      /\ bp.active = b
  BY <1>1 DEF CBreakpoint
<1>3. /\ q \in Seq(CBreakpoint)
      /\ Len(q) = Len(s.bps)
      /\ DOMAIN q = DOMAIN s.bps
      /\ q[i] = bp
      /\ \A j \in DOMAIN s.bps : j # i => q[j] = s.bps[j]
  <2>1. q = [s.bps EXCEPT ![i] = bp]
    OBVIOUS
  <2> HIDE DEF bp, q
  <2>2. QED
    BY <1>1, <1>2, <2>1
<1>4. \A j \in DOMAIN s.bps : /\ q[j].type = s.bps[j].type
                              /\ q[j].location = s.bps[j].location
                              /\ q[j].once = s.bps[j].once
  BY <1>2, <1>3
<1>5. Located(q)
  BY <1>3, <1>4 DEF Typed, Located
<1>6. s1 = [bps |-> q, mem |-> m]
  BY DEF Updated
<1> HIDE DEF s1, bp, q
<1>7. s1.bps = q /\ s1.mem = m
  BY <1>6
<1>8. Typed(s1)
  BY <1>3, <1>5, <1>6 DEF Typed
<1>9. SamePlaces(s, s1)
  BY <1>3, <1>4, <1>7 DEF SamePlaces
<1>10. s1.bps[i].oldData = o /\ s1.bps[i].active = b
  BY <1>2, <1>3, <1>7, Zenon
<1>11. QED
  BY <1>3, <1>7, <1>8, <1>9, <1>10 DEF Changed, SameBut, s1

\* Where breakpoints stand does not depend on whether they are armed.
LEMMA PhysAtSame ==
  ASSUME NEW s, NEW s1, Typed(s), Typed(s1), SamePlaces(s, s1), NEW a
  PROVE  PhysAt(s1.bps, a) = PhysAt(s.bps, a)
<1>1. DOMAIN s1.bps = DOMAIN s.bps
  BY DEF Typed, SamePlaces
<1>2. QED
  BY <1>1 DEF SamePlaces, PhysAt

\* What the byte that Arm records is.
LEMMA CapturedByteType ==
  ASSUME NEW s, Typed(s), NEW i \in DOMAIN s.bps, s.bps[i].location \in Addrs
  PROVE  CapturedByte(s, i) \in Bytes
<1> DEFINE others == FindOtherActiveBreakpoint(s.bps, s.bps[i].location, i)
<1>1. others # {} => First(others) \in DOMAIN s.bps
  <2>1. others \subseteq DOMAIN s.bps /\ others \subseteq Nat
    BY DEF FindOtherActiveBreakpoint, ActiveAt, PhysAt, Typed
  <2>2. QED
    BY <2>1, FirstIsElement
<1>2. \A j \in DOMAIN s.bps : s.bps[j].oldData \in Bytes
  BY Elements
<1>3. s.mem[s.bps[i].location] \in Bytes
  BY Elements
<1>4. QED
  BY <1>1, <1>2, <1>3, BreakpointAssumption DEF CapturedByte

\* Arming one breakpoint: only that breakpoint and the byte under it change.
LEMMA ArmEffect ==
  ASSUME NEW s, Typed(s), NEW i \in DOMAIN s.bps
  PROVE  LET bp == s.bps[i] IN
         /\ bp.type # "PHYSICAL" =>
              Changed(s, Arm(s, i), i, bp.oldData, TRUE) /\ Arm(s, i).mem = s.mem
         /\ bp.type = "PHYSICAL" =>
              /\ Changed(s, Arm(s, i), i, CapturedByte(s, i), TRUE)
              /\ Arm(s, i).mem = [s.mem EXCEPT ![bp.location] = BpByte]
<1> DEFINE bp == s.bps[i]
           c  == CapturedByte(s, i)
<1>1. /\ bp \in CBreakpoint /\ bp.oldData \in Bytes
      /\ s.mem \in [Addrs -> Bytes]
      /\ s.bps \in Seq(CBreakpoint)
      /\ s = [bps |-> s.bps, mem |-> s.mem]
  BY Elements DEF Typed
<1>2. CASE bp.type # "PHYSICAL"
  <2>0. [bp EXCEPT !.active = TRUE] = [bp EXCEPT !.oldData = bp.oldData, !.active = TRUE]
    BY <1>1 DEF CBreakpoint
  <2>1. Arm(s, i) = Updated(s, i, bp.oldData, TRUE, s.mem)
    BY <1>1, <1>2, <2>0 DEF Arm, Updated
  <2>2. /\ Changed(s, Updated(s, i, bp.oldData, TRUE, s.mem), i, bp.oldData, TRUE)
        /\ Updated(s, i, bp.oldData, TRUE, s.mem).mem = s.mem
    BY <1>1, UpdateEffect, Zenon
  <2>3. QED
    BY <1>2, <2>1, <2>2, Zenon
<1>3. CASE bp.type = "PHYSICAL"
  <2>1. bp.location \in Addrs
    BY <1>3 DEF Typed, Located
  <2> DEFINE m == [s.mem EXCEPT ![bp.location] = BpByte]
  <2>2. Arm(s, i) = Updated(s, i, c, TRUE, m)
    BY <1>3 DEF Arm, Updated
  <2>3. m \in [Addrs -> Bytes]
    BY <1>1, BreakpointAssumption
  <2>4. c \in Bytes
    BY <2>1, CapturedByteType
  <2>5. Changed(s, Updated(s, i, c, TRUE, m), i, c, TRUE) /\ Updated(s, i, c, TRUE, m).mem = m
    <3> HIDE DEF m, c
    <3> QED
      BY <2>3, <2>4, UpdateEffect, Zenon
  <2>6. QED
    BY <1>3, <2>2, <2>5, Zenon
<1>4. QED
  BY <1>2, <1>3

\* Disarming one breakpoint: only its flag and perhaps the byte under it change.
LEMMA DisarmEffect ==
  ASSUME NEW s, Typed(s), NEW i \in DOMAIN s.bps
  PROVE  LET bp     == s.bps[i]
             others == FindOtherActiveBreakpoint(s.bps, bp.location, i)
             last   == /\ bp.type = "PHYSICAL"
                       /\ s.mem[bp.location] = BpByte
                       /\ others = {}
         IN  /\ Changed(s, Disarm(s, i), i, bp.oldData, FALSE)
             /\ last  => Disarm(s, i).mem = [s.mem EXCEPT ![bp.location] = bp.oldData]
             /\ ~last => Disarm(s, i).mem = s.mem
<1> DEFINE bp     == s.bps[i]
           others == FindOtherActiveBreakpoint(s.bps, bp.location, i)
           last   == /\ bp.type = "PHYSICAL"
                     /\ s.mem[bp.location] = BpByte
                     /\ others = {}
<1>1. /\ bp \in CBreakpoint /\ bp.oldData \in Bytes
      /\ s.mem \in [Addrs -> Bytes]
      /\ s.bps \in Seq(CBreakpoint)
      /\ s = [bps |-> s.bps, mem |-> s.mem]
  BY Elements DEF Typed
<1>2. [bp EXCEPT !.active = FALSE] = [bp EXCEPT !.oldData = bp.oldData, !.active = FALSE]
  BY <1>1 DEF CBreakpoint
<1>3. CASE last
  <2> DEFINE m == [s.mem EXCEPT ![bp.location] = bp.oldData]
  <2>1. m \in [Addrs -> Bytes]
    BY <1>1, <1>3, Elements
  <2>2. Disarm(s, i) = Updated(s, i, bp.oldData, FALSE, m)
    BY <1>2, <1>3 DEF Disarm, Updated
  <2>3. /\ Changed(s, Updated(s, i, bp.oldData, FALSE, m), i, bp.oldData, FALSE)
        /\ Updated(s, i, bp.oldData, FALSE, m).mem = m
    <3>1. bp.oldData \in Bytes
      BY <1>1
    <3> HIDE DEF m
    <3> QED
      BY <3>1, <2>1, UpdateEffect, Zenon
  <2>4. QED
    BY <1>3, <2>2, <2>3, Zenon
<1>4. CASE ~last
  <2>1. Disarm(s, i) = Updated(s, i, bp.oldData, FALSE, s.mem)
    BY <1>1, <1>2, <1>4 DEF Disarm, LeavePatch, Updated
  <2>2. /\ Changed(s, Updated(s, i, bp.oldData, FALSE, s.mem), i, bp.oldData, FALSE)
        /\ Updated(s, i, bp.oldData, FALSE, s.mem).mem = s.mem
    BY <1>1, UpdateEffect, Zenon
  <2>3. QED
    BY <1>4, <2>1, <2>2, Zenon
<1>5. QED
  BY <1>3, <1>4, Zenon

\* The armed breakpoints at an address after one breakpoint was changed.
LEMMA ActiveAtChanged ==
  ASSUME NEW s, NEW s1, NEW i \in DOMAIN s.bps, NEW a,
         Typed(s), SameBut(s, s1, i)
  PROVE  /\ PhysAt(s1.bps, a) = PhysAt(s.bps, a)
         /\ i \notin PhysAt(s.bps, a) => ActiveAt(s1.bps, a) = ActiveAt(s.bps, a)
         /\ i \in PhysAt(s.bps, a) /\ s1.bps[i].active =>
              ActiveAt(s1.bps, a) = ActiveAt(s.bps, a) \cup {i}
         /\ i \in PhysAt(s.bps, a) /\ ~s1.bps[i].active =>
              ActiveAt(s1.bps, a) = ActiveAt(s.bps, a) \ {i}
<1>1. PhysAt(s1.bps, a) = PhysAt(s.bps, a)
  BY PhysAtSame DEF SameBut
<1>2. \A j \in PhysAt(s.bps, a) : j # i => s1.bps[j] = s.bps[j]
  BY DEF SameBut, PhysAt
<1>3. QED
  BY <1>1, <1>2 DEF ActiveAt

\* Arming one breakpoint keeps the books.
LEMMA ArmKeeps ==
  ASSUME NEW s, NEW g, NEW h, Kept(s, g, h), NEW i \in DOMAIN s.bps
  PROVE  Kept(Arm(s, i), g, h)
<1> DEFINE s1 == Arm(s, i)
           bp == s.bps[i]
           c  == CapturedByte(s, i)
<1>0. Typed(s) /\ \A a \in Addrs \ h : Clean(s, g, a)
  BY DEF Kept
<1>1. /\ bp.type # "PHYSICAL" => Changed(s, s1, i, bp.oldData, TRUE) /\ s1.mem = s.mem
      /\ bp.type = "PHYSICAL" => /\ Changed(s, s1, i, c, TRUE)
                                 /\ s1.mem = [s.mem EXCEPT ![bp.location] = BpByte]
  BY <1>0, ArmEffect, Zenon
<1>2. SameBut(s, s1, i) /\ Typed(s1) /\ s1.bps[i].active
  BY <1>1 DEF Changed, SameBut
<1>3. ASSUME NEW a \in Addrs \ h PROVE Clean(s1, g, a)
  <2>0. /\ Clean(s, g, a)
        /\ s.mem \in [Addrs -> Bytes]
    BY <1>0, Elements
  <2>1. CASE i \notin PhysAt(s.bps, a)
    <3>1. PhysAt(s1.bps, a) = PhysAt(s.bps, a) /\ ActiveAt(s1.bps, a) = ActiveAt(s.bps, a)
      BY <1>0, <1>2, <2>1, ActiveAtChanged
    <3>2. \A j \in PhysAt(s.bps, a) : s1.bps[j] = s.bps[j]
      BY <1>1, <2>1 DEF Changed, SameBut, PhysAt
    <3>3. s1.mem[a] = s.mem[a]
      BY <1>1, <2>0, <2>1 DEF PhysAt
    <3>4. ActiveAt(s.bps, a) \subseteq PhysAt(s.bps, a)
      BY DEF ActiveAt
    <3>5. QED
      BY <2>0, <3>1, <3>2, <3>3, <3>4 DEF Clean
  <2>2. CASE i \in PhysAt(s.bps, a)
    <3>1. bp.type = "PHYSICAL" /\ bp.location = a
      BY <2>2 DEF PhysAt
    <3>2. /\ PhysAt(s1.bps, a) = PhysAt(s.bps, a)
          /\ ActiveAt(s1.bps, a) = ActiveAt(s.bps, a) \cup {i}
      BY <1>0, <1>2, <2>2, ActiveAtChanged
    <3>3. s1.mem[a] = BpByte
      BY <1>1, <2>0, <3>1
    <3>4. c = g[a]
      <4> DEFINE others == FindOtherActiveBreakpoint(s.bps, a, i)
      <4>1. CASE s.mem[a] # BpByte
        BY <2>0, <3>1, <4>1 DEF Clean, CapturedByte
      <4>2. CASE s.mem[a] = BpByte /\ bp.active
        BY <2>0, <2>2, <3>1, <4>2 DEF Clean, CapturedByte, ActiveAt
      <4>3. CASE s.mem[a] = BpByte /\ ~bp.active /\ others # {}
        <5>1. others \subseteq Nat
          BY <1>0, Elements DEF FindOtherActiveBreakpoint, ActiveAt, PhysAt
        <5>2. First(others) \in ActiveAt(s.bps, a)
          BY <4>3, <5>1, FirstIsElement DEF FindOtherActiveBreakpoint
        <5>3. c = s.bps[First(others)].oldData
          BY <3>1, <4>3 DEF CapturedByte
        <5>4. QED
          BY <2>0, <5>2, <5>3 DEF Clean
      <4>4. CASE s.mem[a] = BpByte /\ ~bp.active /\ others = {}
        <5>1. ActiveAt(s.bps, a) = {}
          BY <4>4 DEF FindOtherActiveBreakpoint, ActiveAt
        <5>2. c = BpByte
          BY <3>1, <4>4 DEF CapturedByte
        <5>3. QED
          BY <2>0, <4>4, <5>1, <5>2 DEF Clean
      <4>5. QED
        BY <4>1, <4>2, <4>3, <4>4
    <3>5. s1.bps[i].oldData = c
      BY <1>1, <3>1 DEF Changed
    <3>6. \A j \in PhysAt(s.bps, a) : j # i => s1.bps[j] = s.bps[j]
      BY <1>1, <3>1 DEF Changed, SameBut, PhysAt
    <3>7. ActiveAt(s.bps, a) \subseteq PhysAt(s.bps, a)
      BY DEF ActiveAt
    <3> HIDE DEF s1, c
    <3>8. QED
      BY <2>0, <3>2, <3>3, <3>4, <3>5, <3>6, <3>7 DEF Clean
  <2>3. QED
    BY <2>1, <2>2
<1>4. QED
  BY <1>2, <1>3 DEF Kept

\* Disarming one breakpoint keeps the books.
LEMMA DisarmKeeps ==
  ASSUME NEW s, NEW g, NEW h, Kept(s, g, h), NEW i \in DOMAIN s.bps
  PROVE  Kept(Disarm(s, i), g, h)
<1> DEFINE s1     == Disarm(s, i)
           bp     == s.bps[i]
           others == FindOtherActiveBreakpoint(s.bps, bp.location, i)
           last   == /\ bp.type = "PHYSICAL"
                     /\ s.mem[bp.location] = BpByte
                     /\ others = {}
<1>0. Typed(s) /\ \A a \in Addrs \ h : Clean(s, g, a)
  BY DEF Kept
<1>1. /\ Changed(s, s1, i, bp.oldData, FALSE)
      /\ last  => s1.mem = [s.mem EXCEPT ![bp.location] = bp.oldData]
      /\ ~last => s1.mem = s.mem
  BY <1>0, DisarmEffect, Zenon
<1>2. SameBut(s, s1, i) /\ Typed(s1) /\ ~s1.bps[i].active
  BY <1>1 DEF Changed, SameBut
<1>3. ASSUME NEW a \in Addrs \ h PROVE Clean(s1, g, a)
  <2>0. /\ Clean(s, g, a)
        /\ s.mem \in [Addrs -> Bytes]
    BY <1>0, Elements
  <2>1. PhysAt(s1.bps, a) = PhysAt(s.bps, a)
    BY <1>0, <1>2, ActiveAtChanged
  <2>2. \A j \in PhysAt(s.bps, a) : s1.bps[j].oldData = s.bps[j].oldData
    BY <1>1 DEF Changed, SameBut, PhysAt
  <2>3. CASE i \notin PhysAt(s.bps, a)
    <3>1. ActiveAt(s1.bps, a) = ActiveAt(s.bps, a)
      BY <1>0, <1>2, <2>3, ActiveAtChanged
    <3>2. s1.mem[a] = s.mem[a]
      BY <1>1, <2>0, <2>3 DEF PhysAt
    <3>3. ActiveAt(s.bps, a) \subseteq PhysAt(s.bps, a)
      BY DEF ActiveAt
    <3> HIDE DEF s1
    <3>4. QED
      BY <2>0, <2>1, <2>2, <3>1, <3>2, <3>3 DEF Clean
  <2>4. CASE i \in PhysAt(s.bps, a)
    <3>1. bp.type = "PHYSICAL" /\ bp.location = a
      BY <2>4 DEF PhysAt
    <3>2. ActiveAt(s1.bps, a) = ActiveAt(s.bps, a) \ {i}
      BY <1>0, <1>2, <2>4, ActiveAtChanged
    <3>3. others = ActiveAt(s.bps, a) \ {i}
      BY <3>1 DEF FindOtherActiveBreakpoint
    <3>4. i \in ActiveAt(s.bps, a) <=> bp.active
      BY <2>4 DEF ActiveAt
    <3>5. s1.mem[a] = IF ActiveAt(s1.bps, a) = {} THEN g[a] ELSE BpByte
      <4>1. CASE others # {}
        BY <1>1, <2>0, <3>1, <3>2, <3>3, <4>1 DEF Clean
      <4>2. CASE others = {} /\ s.mem[a] = BpByte
        <5>1. s1.mem[a] = bp.oldData
          BY <1>1, <2>0, <3>1, <4>2
        <5>2. bp.oldData = g[a]
          BY <2>0, <2>4, <3>3, <3>4, <4>2 DEF Clean
        <5>3. QED
          BY <3>2, <3>3, <4>2, <5>1, <5>2
      <4>3. CASE others = {} /\ s.mem[a] # BpByte
        BY <1>1, <2>0, <3>1, <3>2, <3>3, <4>3 DEF Clean
      <4>4. QED
        BY <4>1, <4>2, <4>3
    <3>6. ActiveAt(s.bps, a) \subseteq PhysAt(s.bps, a)
      BY DEF ActiveAt
    <3> HIDE DEF s1
    <3>7. QED
      BY <2>0, <2>1, <2>2, <3>2, <3>5, <3>6 DEF Clean
  <2>5. QED
    BY <2>3, <2>4
<1>4. QED
  BY <1>2, <1>3 DEF Kept

\* One call of Activate keeps the books and concerns one breakpoint.
LEMMA ActivateKeeps ==
  ASSUME NEW s, NEW g, NEW h, Kept(s, g, h), NEW i \in DOMAIN s.bps, NEW on \in BOOLEAN
  PROVE  /\ Kept(Activate(s, i, on), g, h)
         /\ SameBut(s, Activate(s, i, on), i)
         /\ Activate(s, i, on).bps[i].active = on
<1>1. Typed(s)
  BY DEF Kept
<1>2. CASE on
  <2>1. Activate(s, i, on) = Arm(s, i)
    BY <1>2 DEF Activate
  <2>2. SameBut(s, Arm(s, i), i) /\ Arm(s, i).bps[i].active = TRUE
    <3>1. \/ Changed(s, Arm(s, i), i, s.bps[i].oldData, TRUE)
          \/ Changed(s, Arm(s, i), i, CapturedByte(s, i), TRUE)
      BY <1>1, ArmEffect, Zenon
    <3>2. QED
      BY <3>1, Zenon DEF Changed
  <2>3. Kept(Arm(s, i), g, h)
    BY ArmKeeps
  <2>4. QED
    BY <1>2, <2>1, <2>2, <2>3, Zenon
<1>3. CASE ~on
  <2>1. Activate(s, i, on) = Disarm(s, i)
    BY <1>3 DEF Activate
  <2>2. SameBut(s, Disarm(s, i), i) /\ Disarm(s, i).bps[i].active = FALSE
    <3>1. Changed(s, Disarm(s, i), i, s.bps[i].oldData, FALSE)
      BY <1>1, DisarmEffect, Zenon
    <3>2. QED
      BY <3>1, Zenon DEF Changed
  <2>3. Kept(Disarm(s, i), g, h)
    BY DisarmKeeps
  <2>4. QED
    BY <1>3, <2>1, <2>2, <2>3, Zenon
<1>4. QED
  BY <1>2, <1>3

----------------------------------------------------------------------------
(* The loops.                                                              *)

\* What the recursive function in Visited says of itself.
IsVisit(run, n, s, on, except, misled) ==
  run = [k \in 0 .. n |->
          IF k = 0                            THEN s
          ELSE IF k \in PhysAt(s.bps, except) THEN run[k - 1]
          ELSE IF k \in misled                THEN LeavePatch(run[k - 1], k)
          ELSE Activate(run[k - 1], k, on)]

\* Such a function exists, for a list of any length.
LEMMA VisitExists ==
  ASSUME NEW s, NEW on, NEW except, NEW misled, NEW n \in Nat
  PROVE  \E run : IsVisit(run, n, s, on, except, misled)
<1> DEFINE T == {m \in Nat : \E run : IsVisit(run, m, s, on, except, misled)}
           After(run, k) == IF k = 0                            THEN s
                            ELSE IF k \in PhysAt(s.bps, except) THEN run[k - 1]
                            ELSE IF k \in misled                THEN LeavePatch(run[k - 1], k)
                            ELSE Activate(run[k - 1], k, on)
<1>1. 0 \in T
  <2>1. IsVisit([k \in 0 .. 0 |-> s], 0, s, on, except, misled)
    BY DEF IsVisit
  <2>2. QED
    BY <2>1
<1>2. ASSUME NEW m \in Nat, m \in T PROVE m + 1 \in T
  <2>1. PICK run : IsVisit(run, m, s, on, except, misled)
    BY <1>2
  <2> DEFINE run1 == [k \in 0 .. (m + 1) |-> IF k = m + 1 THEN After(run, k) ELSE run[k]]
  <2>2. \A k \in 0 .. m : run[k] = After(run, k) /\ run1[k] = run[k]
    BY <2>1 DEF IsVisit
  <2>3. run1[m + 1] = After(run, m + 1)
    OBVIOUS
  <2>4. run1 = [k \in 0 .. (m + 1) |-> run1[k]]
    OBVIOUS
  <2> HIDE DEF run1
  <2>5. ASSUME NEW k \in 0 .. (m + 1) PROVE run1[k] = After(run1, k)
    <3>1. CASE k = 0
      BY <2>2, <3>1
    <3>2. CASE k \in 1 .. m
      <4>1. k \in 0 .. m /\ k - 1 \in 0 .. m
        BY <3>2
      <4>2. run1[k] = run[k] /\ run1[k - 1] = run[k - 1] /\ run[k] = After(run, k)
        BY <2>2, <4>1
      <4>3. QED
        BY <3>2, <4>2
    <3>3. CASE k = m + 1
      <4>1. run1[k - 1] = run[k - 1]
        BY <2>2, <3>3
      <4>2. QED
        BY <2>3, <3>3, <4>1
    <3>4. QED
      BY <3>1, <3>2, <3>3
  <2>6. IsVisit(run1, m + 1, s, on, except, misled)
    BY <2>4, <2>5 DEF IsVisit
  <2>7. QED
    BY <2>6
<1> HIDE DEF T
<1>3. Nat \subseteq T
  BY <1>1, <1>2, SetInduction
<1>4. QED
  BY <1>3 DEF T

\* The states a loop goes through.
LEMMA VisitedSteps ==
  ASSUME NEW s, NEW on, NEW except, NEW misled, Len(s.bps) \in Nat,
         NEW run, run = Visited(s, on, except, misled)
  PROVE  /\ run[0] = s
         /\ \A k \in 1 .. Len(s.bps) :
              run[k] = IF k \in PhysAt(s.bps, except) THEN run[k - 1]
                       ELSE IF k \in misled           THEN LeavePatch(run[k - 1], k)
                       ELSE Activate(run[k - 1], k, on)
<1>1. \E r : IsVisit(r, Len(s.bps), s, on, except, misled)
  BY VisitExists
<1>2. IsVisit(run, Len(s.bps), s, on, except, misled)
  BY <1>1, Zenon DEF Visited, IsVisit
<1>3. \A k \in 0 .. Len(s.bps) :
        run[k] = IF k = 0                            THEN s
                 ELSE IF k \in PhysAt(s.bps, except) THEN run[k - 1]
                 ELSE IF k \in misled                THEN LeavePatch(run[k - 1], k)
                 ELSE Activate(run[k - 1], k, on)
  BY <1>2 DEF IsVisit
<1>4. QED
  BY <1>3

\* Leaving the patch of one breakpoint keeps the books, unless it is an armed
\* one at an address where they count.
LEMMA LeavePatchKeeps ==
  ASSUME NEW s, NEW g, NEW h, Kept(s, g, h), NEW i \in DOMAIN s.bps,
         \A a \in Addrs \ h : i \notin ActiveAt(s.bps, a)
  PROVE  /\ Kept(LeavePatch(s, i), g, h)
         /\ SameBut(s, LeavePatch(s, i), i)
         /\ LeavePatch(s, i).bps[i].active = FALSE
<1> DEFINE s1 == LeavePatch(s, i)
           bp == s.bps[i]
<1>1. Typed(s) /\ \A a \in Addrs \ h : Clean(s, g, a)
  BY DEF Kept
<1>2. /\ bp \in CBreakpoint /\ bp.oldData \in Bytes
      /\ s.mem \in [Addrs -> Bytes]
      /\ s.bps \in Seq(CBreakpoint)
      /\ s = [bps |-> s.bps, mem |-> s.mem]
  BY <1>1, Elements DEF Typed
<1>3. [bp EXCEPT !.active = FALSE] = [bp EXCEPT !.oldData = bp.oldData, !.active = FALSE]
  BY <1>2 DEF CBreakpoint
<1>4. s1 = Updated(s, i, bp.oldData, FALSE, s.mem)
  <2>1. LeavePatch(s, i) = [bps |-> [s.bps EXCEPT ![i] = [bp EXCEPT !.active = FALSE]],
                            mem |-> s.mem]
    <3> DEFINE q == [s.bps EXCEPT ![i] = [s.bps[i] EXCEPT !.active = FALSE]]
    <3>1. LeavePatch(s, i) = [s EXCEPT !.bps = q]
      BY DEF LeavePatch
    <3> HIDE DEF q
    <3>2. [s EXCEPT !.bps = q] = [bps |-> q, mem |-> s.mem]
      BY <1>2
    <3>3. QED
      BY <3>1, <3>2 DEF q
  <2>2. QED
    BY <1>3, <2>1 DEF Updated
<1>5. Changed(s, s1, i, bp.oldData, FALSE) /\ s1.mem = s.mem
  <2>1. /\ Changed(s, Updated(s, i, bp.oldData, FALSE, s.mem), i, bp.oldData, FALSE)
        /\ Updated(s, i, bp.oldData, FALSE, s.mem).mem = s.mem
    BY <1>1, <1>2, UpdateEffect, Zenon
  <2> HIDE DEF s1
  <2>2. QED
    BY <1>4, <2>1, Zenon
<1> HIDE DEF s1
<1>6. SameBut(s, s1, i) /\ Typed(s1) /\ s1.bps[i].active = FALSE
  BY <1>5 DEF Changed, SameBut
<1>7. ASSUME NEW a \in Addrs \ h PROVE Clean(s1, g, a)
  <2>1. Clean(s, g, a) /\ i \notin ActiveAt(s.bps, a)
    BY <1>1
  <2>2. PhysAt(s1.bps, a) = PhysAt(s.bps, a) /\ ActiveAt(s1.bps, a) = ActiveAt(s.bps, a)
    BY <1>1, <1>6, <2>1, ActiveAtChanged
  <2>3. \A j \in PhysAt(s.bps, a) : s1.bps[j].oldData = s.bps[j].oldData
    BY <1>5 DEF Changed, SameBut, PhysAt
  <2>4. ActiveAt(s.bps, a) \subseteq PhysAt(s.bps, a)
    BY DEF ActiveAt
  <2>5. QED
    BY <1>5, <2>1, <2>2, <2>3, <2>4 DEF Clean
<1>8. QED
  BY <1>6, <1>7 DEF Kept, s1

\* Every loop over the list keeps the books and moves no breakpoint; what it
\* has visited is armed or disarmed as asked.  A breakpoint whose search was
\* misled must not be armed where the books count.
LEMMA VisitKeeps ==
  ASSUME NEW s, NEW g, NEW h, Kept(s, g, h), NEW on \in BOOLEAN, NEW except, NEW misled,
         misled # {} => ~on,
         \A a \in Addrs \ h : ActiveAt(s.bps, a) \cap misled = {},
         NEW s1, s1 = Visited(s, on, except, misled)[Len(s.bps)]
  PROVE  /\ Kept(s1, g, h)
         /\ SamePlaces(s, s1)
         /\ \A j \in DOMAIN s.bps \ PhysAt(s.bps, except) : s1.bps[j].active = on
<1> DEFINE n      == Len(s.bps)
           run    == Visited(s, on, except, misled)
           Good(k) == /\ Kept(run[k], g, h)
                      /\ SamePlaces(s, run[k])
                      /\ \A j \in (1 .. k) \ PhysAt(s.bps, except) :
                           run[k].bps[j].active = on
                      /\ \A j \in (k + 1) .. n : run[k].bps[j] = s.bps[j]
           T      == {k \in Nat : k <= n => Good(k)}
<1>1. Typed(s) /\ n \in Nat /\ DOMAIN s.bps = 1 .. n
  BY Elements DEF Kept
<1>2. /\ run[0] = s
      /\ \A k \in 1 .. n :
           run[k] = IF k \in PhysAt(s.bps, except) THEN run[k - 1]
                    ELSE IF k \in misled           THEN LeavePatch(run[k - 1], k)
                    ELSE Activate(run[k - 1], k, on)
  BY <1>1, VisitedSteps
<1> HIDE DEF run
<1>3. 0 \in T
  <2>1. SamePlaces(s, s)
    BY DEF SamePlaces
  <2>2. QED
    BY <1>2, <2>1
<1>4. ASSUME NEW k \in Nat, k \in T PROVE k + 1 \in T
  <2>1. SUFFICES ASSUME k + 1 <= n PROVE Good(k + 1)
    OBVIOUS
  <2>2. Good(k)
    BY <1>1, <1>4, <2>1
  <2> DEFINE r == run[k]
  <2>3. k + 1 \in 1 .. n /\ (k + 1) - 1 = k
    BY <1>1, <2>1
  <2>4. run[k + 1] = IF k + 1 \in PhysAt(s.bps, except) THEN r
                     ELSE IF k + 1 \in misled           THEN LeavePatch(r, k + 1)
                     ELSE Activate(r, k + 1, on)
    BY <1>2, <2>3
  <2>5. Typed(r) /\ DOMAIN r.bps = DOMAIN s.bps
    BY <1>1, <2>2, Elements DEF Kept, SamePlaces
  <2>6. CASE k + 1 \in PhysAt(s.bps, except)
    BY <2>2, <2>4, <2>6
  <2>7. CASE k + 1 \notin PhysAt(s.bps, except)
    <3> DEFINE r1 == IF k + 1 \in misled THEN LeavePatch(r, k + 1)
                     ELSE Activate(r, k + 1, on)
    <3>1. k + 1 \in DOMAIN r.bps
      BY <1>1, <2>3, <2>5
    <3>2. Kept(r1, g, h) /\ SameBut(r, r1, k + 1) /\ r1.bps[k + 1].active = on
      <4>1. CASE k + 1 \in misled
        <5>1. on = FALSE
          BY <4>1
        <5>2. r.bps[k + 1] = s.bps[k + 1] /\ k + 1 \in DOMAIN s.bps
          BY <1>1, <2>2, <2>3
        <5>3. \A a : PhysAt(r.bps, a) = PhysAt(s.bps, a)
          BY <1>1, <2>2, <2>5, PhysAtSame, Zenon
        <5>4. \A a : k + 1 \in ActiveAt(r.bps, a) => k + 1 \in ActiveAt(s.bps, a)
          BY <5>2, <5>3 DEF ActiveAt
        <5>5. \A a \in Addrs \ h : k + 1 \notin ActiveAt(r.bps, a)
          BY <4>1, <5>4
        <5>6. /\ Kept(LeavePatch(r, k + 1), g, h)
              /\ SameBut(r, LeavePatch(r, k + 1), k + 1)
              /\ LeavePatch(r, k + 1).bps[k + 1].active = FALSE
          BY <2>2, <3>1, <5>5, LeavePatchKeeps
        <5>7. QED
          BY <4>1, <5>1, <5>6, Zenon
      <4>2. CASE k + 1 \notin misled
        <5>1. /\ Kept(Activate(r, k + 1, on), g, h)
              /\ SameBut(r, Activate(r, k + 1, on), k + 1)
              /\ Activate(r, k + 1, on).bps[k + 1].active = on
          BY <2>2, <3>1, ActivateKeeps
        <5>2. QED
          BY <4>2, <5>1, Zenon
      <4>3. QED
        BY <4>1, <4>2
    <3> HIDE DEF r1
    <3>3. SamePlaces(s, r1)
      BY <2>2, <2>5, <3>2 DEF SamePlaces, SameBut
    <3>4. \A j \in (1 .. k) \ PhysAt(s.bps, except) : r1.bps[j].active = on
      <4>1. \A j \in 1 .. k : j \in DOMAIN r.bps /\ j # k + 1
        BY <1>1, <2>3, <2>5
      <4>2. \A j \in 1 .. k : r1.bps[j] = r.bps[j]
        BY <3>2, <4>1 DEF SameBut
      <4>3. QED
        BY <2>2, <4>2
    <3>5. \A j \in (1 .. (k + 1)) : j \in 1 .. k \/ j = k + 1
      OBVIOUS
    <3>6. run[k + 1] = r1
      BY <2>4, <2>7 DEF r1
    <3>7. \A j \in (k + 2) .. n : r1.bps[j] = s.bps[j]
      <4>1. \A j \in (k + 2) .. n : j \in (k + 1) .. n /\ j \in DOMAIN r.bps /\ j # k + 1
        BY <1>1, <2>3, <2>5
      <4>2. QED
        BY <2>2, <3>2, <4>1 DEF SameBut
    <3>8. (k + 1) + 1 = k + 2
      OBVIOUS
    <3>9. QED
      BY <3>2, <3>3, <3>4, <3>5, <3>6, <3>7, <3>8, Zenon
  <2>8. QED
    BY <2>6, <2>7
<1>5. Good(n)
  <2> HIDE DEF Good
  <2>1. Nat \subseteq T
    <3> HIDE DEF T
    <3> QED
      BY <1>3, <1>4, SetInduction
  <2>2. QED
    BY <1>1, <2>1
<1>6. QED
  BY <1>1, <1>5 DEF run

\* Where no search is misled the books are kept everywhere.
LEMMA SweepKeeps ==
  ASSUME NEW s, NEW g, NEW h, Kept(s, g, h), NEW on \in BOOLEAN, NEW except
  PROVE  /\ Kept(Sweep(s, on, except), g, h)
         /\ SamePlaces(s, Sweep(s, on, except))
         /\ \A j \in DOMAIN s.bps \ PhysAt(s.bps, except) :
              Sweep(s, on, except).bps[j].active = on
<1> DEFINE s1 == Visited(s, on, except, {})[Len(s.bps)]
<1>1. \A a \in Addrs \ h : ActiveAt(s.bps, a) \cap {} = {}
  OBVIOUS
<1>2. /\ Kept(s1, g, h)
      /\ SamePlaces(s, s1)
      /\ \A j \in DOMAIN s.bps \ PhysAt(s.bps, except) : s1.bps[j].active = on
  BY <1>1, VisitKeeps
<1>3. QED
  BY <1>2, Zenon DEF Sweep

----------------------------------------------------------------------------
(* Adding, deleting and writing.                                           *)

\* Erasing a breakpoint keeps the books, unless it is the only armed one where
\* it stands.
LEMMA EraseKeeps ==
  ASSUME NEW s, NEW g, NEW h, Kept(s, g, h), NEW i \in DOMAIN s.bps,
         \A a \in Addrs \ h : ActiveAt(s.bps, a) # {i}
  PROVE  Kept(EraseAt(s, i), g, h)
<1> DEFINE q       == Erase(s.bps, i)
           orig(j) == IF j < i THEN j ELSE j + 1
<1>1. /\ Typed(s) /\ s.bps \in Seq(CBreakpoint) /\ s.mem \in [Addrs -> Bytes]
      /\ Len(s.bps) \in Nat /\ DOMAIN s.bps = 1 .. Len(s.bps)
  BY Elements DEF Kept
<1>2. /\ q \in Seq(CBreakpoint)
      /\ DOMAIN q = 1 .. (Len(s.bps) - 1)
      /\ \A j \in DOMAIN q : orig(j) \in DOMAIN s.bps \ {i} /\ q[j] = s.bps[orig(j)]
  <2>1. /\ q \in Seq(CBreakpoint)
        /\ DOMAIN q = 1 .. (Len(s.bps) - 1)
        /\ \A j \in DOMAIN q : q[j] = IF j < i THEN s.bps[j] ELSE s.bps[j + 1]
    BY <1>1, EraseElements
  <2> HIDE DEF q
  <2>2. ASSUME NEW j \in DOMAIN q
        PROVE  orig(j) \in DOMAIN s.bps \ {i} /\ q[j] = s.bps[orig(j)]
    BY <1>1, <2>1
  <2>3. QED
    BY <2>1, <2>2
<1>3. \A k \in DOMAIN s.bps \ {i} : \E j \in DOMAIN q : orig(j) = k
  <2> TAKE k \in DOMAIN s.bps \ {i}
  <2>1. CASE k < i
    <3>1. k \in DOMAIN q /\ orig(k) = k
      BY <1>1, <1>2, <2>1
    <3>2. QED
      BY <3>1
  <2>2. CASE ~(k < i)
    <3>1. k - 1 \in DOMAIN q /\ orig(k - 1) = k
      BY <1>1, <1>2, <2>2
    <3>2. QED
      BY <3>1
  <2>3. QED
    BY <2>1, <2>2
<1>4. EraseAt(s, i) = [bps |-> q, mem |-> s.mem]
  BY DEF EraseAt, Kept, Typed
<1> HIDE DEF q, orig
<1>5. Typed(EraseAt(s, i))
  <2>1. Located(q)
    BY <1>1, <1>2 DEF Typed, Located
  <2>2. QED
    BY <1>1, <1>2, <1>4, <2>1 DEF Typed
<1>6. ASSUME NEW a \in Addrs \ h PROVE Clean(EraseAt(s, i), g, a)
  <2>1. Clean(s, g, a) /\ ActiveAt(s.bps, a) # {i}
    BY DEF Kept
  <2>2. \A j \in PhysAt(q, a) : orig(j) \in PhysAt(s.bps, a) /\ q[j] = s.bps[orig(j)]
    BY <1>2 DEF PhysAt
  <2>3. \A j \in ActiveAt(q, a) : orig(j) \in ActiveAt(s.bps, a) /\ q[j] = s.bps[orig(j)]
    BY <2>2 DEF ActiveAt
  <2>4. ActiveAt(s.bps, a) # {} => ActiveAt(q, a) # {}
    <3>1. SUFFICES ASSUME ActiveAt(s.bps, a) # {} PROVE ActiveAt(q, a) # {}
      OBVIOUS
    <3>2. PICK k \in ActiveAt(s.bps, a) : k # i
      BY <2>1, <3>1
    <3>3. k \in DOMAIN s.bps \ {i}
      BY <3>2 DEF ActiveAt, PhysAt
    <3>4. PICK j \in DOMAIN q : orig(j) = k
      BY <1>3, <3>3
    <3>5. j \in ActiveAt(q, a)
      BY <1>2, <3>2, <3>4 DEF ActiveAt, PhysAt
    <3>6. QED
      BY <3>5
  <2>5. EraseAt(s, i).bps = q /\ EraseAt(s, i).mem = s.mem
    BY <1>4
  <2>6. QED
    BY <2>1, <2>2, <2>3, <2>4, <2>5 DEF Clean
<1>7. QED
  BY <1>5, <1>6 DEF Kept

\* Erasing a breakpoint after disarming it keeps the books.
LEMMA DisarmAndEraseKeeps ==
  ASSUME NEW s, NEW g, NEW h, Kept(s, g, h), NEW i \in DOMAIN s.bps
  PROVE  Kept(DisarmAndErase(s, i), g, h)
<1> DEFINE s1 == Disarm(s, i)
<1>1. Typed(s)
  BY DEF Kept
<1>2. Kept(s1, g, h)
  BY DisarmKeeps
<1>3. SameBut(s, s1, i) /\ s1.bps[i].active = FALSE
  BY <1>1, DisarmEffect, Zenon DEF Changed
<1> HIDE DEF s1
<1>4. i \in DOMAIN s1.bps
  BY <1>1, <1>2, <1>3, Elements DEF SameBut, SamePlaces, Kept
<1>5. \A a : i \notin ActiveAt(s1.bps, a)
  BY <1>3 DEF ActiveAt
<1>6. Kept(EraseAt(s1, i), g, h)
  BY <1>2, <1>4, <1>5, EraseKeeps
<1>7. QED
  BY <1>6 DEF DisarmAndErase, s1

\* Adding a breakpoint that is not armed keeps the books.
LEMMA AddKeeps ==
  ASSUME NEW s, NEW g, NEW h, Kept(s, g, h), NEW bp \in CBreakpoint,
         ~bp.active, bp.oldData = BpByte,
         bp.type = "PHYSICAL" => bp.location \in Addrs
  PROVE  Kept(Add(s, bp), g, h)
<1> DEFINE q == <<bp>> \o s.bps
<1>1. /\ Typed(s) /\ s.bps \in Seq(CBreakpoint) /\ s.mem \in [Addrs -> Bytes]
      /\ Len(s.bps) \in Nat /\ DOMAIN s.bps = 1 .. Len(s.bps)
  BY Elements DEF Kept
<1>2. /\ q \in Seq(CBreakpoint)
      /\ DOMAIN q = 1 .. (Len(s.bps) + 1)
      /\ q[1] = bp
      /\ \A j \in DOMAIN s.bps : q[j + 1] = s.bps[j]
  <2>1. /\ <<bp>> \in Seq(CBreakpoint) /\ Len(<<bp>>) = 1 /\ <<bp>>[1] = bp
    OBVIOUS
  <2>2. /\ q \in Seq(CBreakpoint) /\ Len(q) = 1 + Len(s.bps)
        /\ \A j \in 1 .. (1 + Len(s.bps)) : q[j] = IF j <= 1 THEN bp ELSE s.bps[j - 1]
    BY <1>1, <2>1, ConcatProperties
  <2> HIDE DEF q
  <2>3. QED
    BY <1>1, <2>2
<1>3. Add(s, bp) = [bps |-> q, mem |-> s.mem]
  <2>1. s = [bps |-> s.bps, mem |-> s.mem]
    BY DEF Kept, Typed
  <2>2. [s EXCEPT !.bps = q] = [bps |-> q, mem |-> s.mem]
    <3> HIDE DEF q
    <3> QED BY <2>1
  <2>3. QED
    BY <2>2 DEF Add
<1> HIDE DEF q
<1>4. \A j \in DOMAIN q : \/ j = 1 /\ q[j] = bp
                          \/ j - 1 \in DOMAIN s.bps /\ q[j] = s.bps[j - 1]
  <2> TAKE j \in DOMAIN q
  <2>1. CASE j = 1
    BY <1>2, <2>1
  <2>2. CASE j # 1
    <3>1. j - 1 \in DOMAIN s.bps /\ (j - 1) + 1 = j
      BY <1>1, <1>2, <2>2
    <3>2. QED
      BY <1>2, <3>1
  <2>3. QED
    BY <2>1, <2>2
<1>5. Typed(Add(s, bp))
  <2>1. Located(q)
    BY <1>1, <1>4 DEF Typed, Located
  <2>2. QED
    BY <1>1, <1>2, <1>3, <2>1 DEF Typed
<1>6. ASSUME NEW a \in Addrs \ h PROVE Clean(Add(s, bp), g, a)
  <2>1. Clean(s, g, a)
    BY DEF Kept
  <2>2. \A j \in PhysAt(q, a) : \/ q[j] = bp
                                \/ j - 1 \in PhysAt(s.bps, a) /\ q[j] = s.bps[j - 1]
    BY <1>4 DEF PhysAt
  <2>3. \A j \in ActiveAt(q, a) : j - 1 \in ActiveAt(s.bps, a) /\ q[j] = s.bps[j - 1]
    BY <2>2 DEF ActiveAt
  <2>4. ASSUME NEW k \in ActiveAt(s.bps, a) PROVE k + 1 \in ActiveAt(q, a)
    <3>1. k \in DOMAIN s.bps /\ s.bps[k].type = "PHYSICAL" /\ s.bps[k].location = a
          /\ s.bps[k].active
      BY DEF ActiveAt, PhysAt
    <3>2. k + 1 \in DOMAIN q /\ q[k + 1] = s.bps[k]
      BY <1>1, <1>2, <3>1
    <3>3. QED
      BY <3>1, <3>2 DEF ActiveAt, PhysAt
  <2>5. Add(s, bp).bps = q /\ Add(s, bp).mem = s.mem
    BY <1>3
  <2>6. QED
    BY <2>1, <2>2, <2>3, <2>4, <2>5 DEF Clean
<1>7. QED
  BY <1>5, <1>6 DEF Kept

\* Both kinds of new breakpoints are of that kind.
LEMMA AddBreakpointKeeps ==
  ASSUME NEW s, NEW g, NEW h, Kept(s, g, h)
  PROVE  /\ \A a \in Addrs, isOnce \in BOOLEAN : Kept(AddBreakpoint(s, a, isOnce), g, h)
         /\ \A p \in ServicePatterns : Kept(AddIntBreakpoint(s, p), g, h)
<1>1. ASSUME NEW a \in Addrs, NEW isOnce \in BOOLEAN
      PROVE  Kept(AddBreakpoint(s, a, isOnce), g, h)
  <2> DEFINE bp == PhysBreakpoint(a, isOnce)
  <2>1. NoService \in ServicePatterns
    BY DEF ServicePatterns
  <2>2. /\ bp \in CBreakpoint /\ ~bp.active /\ bp.oldData = BpByte
        /\ bp.location \in Addrs
    BY <2>1, BreakpointAssumption DEF PhysBreakpoint, CBreakpoint
  <2> HIDE DEF bp
  <2>3. Kept(Add(s, bp), g, h)
    BY <2>2, AddKeeps
  <2>4. QED
    BY <2>3 DEF AddBreakpoint, bp
<1>2. ASSUME NEW p \in ServicePatterns PROVE Kept(AddIntBreakpoint(s, p), g, h)
  <2> DEFINE bp == IntBreakpoint(p)
  <2>1. bp \in CBreakpoint /\ ~bp.active /\ bp.oldData = BpByte /\ bp.type # "PHYSICAL"
    BY BreakpointAssumption DEF IntBreakpoint, CBreakpoint
  <2> HIDE DEF bp
  <2>2. Kept(Add(s, bp), g, h)
    BY <2>1, AddKeeps
  <2>3. QED
    BY <2>2 DEF AddIntBreakpoint, bp
<1>3. QED
  BY <1>1, <1>2

\* A write to guest memory keeps the books outside the holes it makes.
LEMMA WriteKeeps ==
  ASSUME NEW s, NEW g, NEW h, Kept(s, g, h), NEW w \in Writes
  PROVE  Kept(Write(s, w), Overlay(g, w), h \cup NewHoles(s, w))
<1>1. Typed(s) /\ s.mem \in [Addrs -> Bytes]
  BY Elements DEF Kept
<1>2. PICK S \in WriteSets : w \in [S -> GuestBytes]
  BY DEF Writes
<1>3. Write(s, w) = [bps |-> s.bps, mem |-> Overlay(s.mem, w)]
  BY <1>1 DEF Write, Typed
<1>4. Overlay(s.mem, w) \in [Addrs -> Bytes]
  BY <1>1, <1>2, GuestAssumption DEF Overlay
<1>5. Typed(Write(s, w))
  BY <1>1, <1>3, <1>4 DEF Typed
<1>6. ASSUME NEW a \in Addrs \ (h \cup NewHoles(s, w))
      PROVE  Clean(Write(s, w), Overlay(g, w), a)
  <2>1. Clean(s, g, a)
    BY DEF Kept
  <2>2. Write(s, w).bps = s.bps /\ Write(s, w).mem = Overlay(s.mem, w)
    BY <1>3
  <2>3. ActiveAt(s.bps, a) \subseteq PhysAt(s.bps, a)
    BY DEF ActiveAt
  <2>4. CASE a \in DOMAIN w
    <3>1. ActiveAt(s.bps, a) = {} /\ (w[a] = BpByte => PhysAt(s.bps, a) = {})
      BY <2>4 DEF NewHoles
    <3>2. Overlay(s.mem, w)[a] = w[a] /\ Overlay(g, w)[a] = w[a]
      BY <2>4 DEF Overlay
    <3>3. QED
      BY <2>2, <3>1, <3>2 DEF Clean
  <2>5. CASE a \notin DOMAIN w
    <3>1. Overlay(s.mem, w)[a] = s.mem[a] /\ Overlay(g, w)[a] = g[a]
      BY <2>5 DEF Overlay
    <3>2. QED
      BY <2>1, <2>2, <3>1 DEF Clean
  <2>6. QED
    BY <2>4, <2>5
<1>7. QED
  BY <1>5, <1>6 DEF Kept
----------------------------------------------------------------------------
(* Hits, and the deletions that a key or a command asks for.               *)

\* Fewer places where the books are right is less to keep.
LEMMA KeptFewer ==
  ASSUME NEW s, NEW g, NEW h, NEW h1, Kept(s, g, h), h \subseteq h1
  PROVE  Kept(s, g, h1)
  BY DEF Kept

\* What CheckBreakpoint deletes keeps the books.
LEMMA CheckBreakpointKeeps ==
  ASSUME NEW s, NEW g, NEW h, Kept(s, g, h), NEW a, IsHit(s.bps, a)
  PROVE  Kept(CheckBreakpoint(s, a), g, h)
<1> DEFINE spent == SpentBreakpoint(s.bps, a)
           onces == FindPhysBreakpoint(s.bps, a, TRUE)
<1>1. DOMAIN s.bps \subseteq Nat
  BY Elements DEF Kept
<1>2. ActiveAt(s.bps, a) \subseteq DOMAIN s.bps /\ onces \subseteq DOMAIN s.bps
  BY DEF ActiveAt, PhysAt, FindPhysBreakpoint
<1>3. First(ActiveAt(s.bps, a)) \in DOMAIN s.bps
  BY <1>1, <1>2, FirstIsElement DEF IsHit
<1>4. onces # {} => First(onces) \in DOMAIN s.bps
  BY <1>1, <1>2, FirstIsElement
<1>5. spent \subseteq DOMAIN s.bps
  BY <1>3, <1>4 DEF SpentBreakpoint
<1>6. spent # {} => First(spent) \in DOMAIN s.bps
  BY <1>1, <1>5, FirstIsElement
<1> HIDE DEF spent
<1>7. CASE spent = {}
  BY <1>7 DEF CheckBreakpoint, spent
<1>8. CASE spent # {}
  <2>1. Kept(DisarmAndErase(s, First(spent)), g, h)
    BY <1>6, <1>8, DisarmAndEraseKeeps
  <2>2. CheckBreakpoint(s, a) = DisarmAndErase(s, First(spent))
    BY <1>8 DEF CheckBreakpoint, spent
  <2>3. QED
    BY <2>1, <2>2
<1>9. QED
  BY <1>7, <1>8

\* No breakpoint is armed in a list.
AllDisarmed(bps) == \A i \in DOMAIN bps : ~bps[i].active

\* DeactivateBreakpoints passes over none.
LEMMA DeactivateKeeps ==
  ASSUME NEW s, NEW g, NEW h, Kept(s, g, h)
  PROVE  /\ Kept(DeactivateBreakpoints(s), g, h)
         /\ AllDisarmed(DeactivateBreakpoints(s).bps)
<1> DEFINE s1 == Sweep(s, FALSE, NoAddr)
<1>1. PhysAt(s.bps, NoAddr) = {}
  BY BreakpointAssumption DEF Kept, Typed, Located, PhysAt
<1>2. \A on \in BOOLEAN :
        /\ Kept(Sweep(s, on, NoAddr), g, h)
        /\ SamePlaces(s, Sweep(s, on, NoAddr))
        /\ \A j \in DOMAIN s.bps \ PhysAt(s.bps, NoAddr) :
             Sweep(s, on, NoAddr).bps[j].active = on
  BY SweepKeeps
<1>2a. /\ Kept(s1, g, h)
       /\ SamePlaces(s, s1)
       /\ \A j \in DOMAIN s.bps \ PhysAt(s.bps, NoAddr) : ~s1.bps[j].active
  BY <1>2
<1> HIDE DEF s1
<1>3. DOMAIN s1.bps = DOMAIN s.bps
  BY <1>2a, Elements DEF Kept, SamePlaces
<1>4. QED
  <2>1. s1 = DeactivateBreakpoints(s)
    BY DEF DeactivateBreakpoints, s1
  <2>2. AllDisarmed(s1.bps)
    BY <1>1, <1>2a, <1>3 DEF AllDisarmed
  <2>3. QED
    BY <1>2a, <2>1, <2>2

\* Activating, with or without an exception, keeps the books.
LEMMA ActivateAllKeeps ==
  ASSUME NEW s, NEW g, NEW h, Kept(s, g, h), NEW a
  PROVE  /\ Kept(ActivateBreakpoints(s), g, h)
         /\ Kept(ActivateBreakpointsExceptAt(s, a), g, h)
<1>1. Kept(Sweep(s, TRUE, NoAddr), g, h) /\ Kept(Sweep(s, TRUE, a), g, h)
  BY SweepKeeps, Zenon
<1>2. QED
  BY <1>1 DEF ActivateBreakpoints, ActivateBreakpointsExceptAt

\* A hit leaves the books kept and nothing armed.
LEMMA DebugBreakpointKeeps ==
  ASSUME NEW s, NEW g, NEW h, Kept(s, g, h), NEW a, IsHit(s.bps, a)
  PROVE  /\ Kept(DebugBreakpoint(s, a), g, h)
         /\ AllDisarmed(DebugBreakpoint(s, a).bps)
  BY CheckBreakpointKeeps, DeactivateKeeps DEF DebugBreakpoint

\* Where nothing is armed, memory is the guest's own.
LEMMA DisarmedMemory ==
  ASSUME NEW s, NEW g, NEW h, Kept(s, g, h), AllDisarmed(s.bps)
  PROVE  \A a \in Addrs \ h : s.mem[a] = g[a]
<1>1. \A a : ActiveAt(s.bps, a) = {}
  BY DEF AllDisarmed, ActiveAt, PhysAt
<1>2. QED
  BY <1>1 DEF Kept, Clean

\* DeleteAll leaves the guest's own memory behind, except at the addresses of
\* armed breakpoints whose search was misled.
LEMMA DeleteAllKeeps ==
  ASSUME NEW s, NEW g, NEW h, Kept(s, g, h), NEW misled, NEW h1, h \subseteq h1,
         \A a \in Addrs \ h1 : ActiveAt(s.bps, a) \cap misled = {}
  PROVE  Kept(DeleteAll(s, misled), g, h1)
<1> DEFINE d == Visited(s, FALSE, NoAddr, misled)[Len(s.bps)]
           e == DeleteAll(s, misled)
<1>1. Kept(s, g, h1)
  BY KeptFewer
<1>2. PhysAt(s.bps, NoAddr) = {}
  BY BreakpointAssumption DEF Kept, Typed, Located, PhysAt
<1>3. e = [bps |-> <<>>, mem |-> d.mem]
  BY DEF DeleteAll
<1>4. /\ Kept(d, g, h1)
      /\ SamePlaces(s, d)
      /\ \A j \in DOMAIN s.bps \ PhysAt(s.bps, NoAddr) : ~d.bps[j].active
  <2>1. ASSUME NEW on \in BOOLEAN, ~on
        PROVE  LET e1 == Visited(s, on, NoAddr, misled)[Len(s.bps)]
               IN  /\ Kept(e1, g, h1)
                   /\ SamePlaces(s, e1)
                   /\ \A j \in DOMAIN s.bps \ PhysAt(s.bps, NoAddr) : e1.bps[j].active = on
    BY <1>1, <2>1, VisitKeeps
  <2>2. QED
    BY <2>1
<1> HIDE DEF d, e
<1>5. AllDisarmed(d.bps)
  BY <1>1, <1>2, <1>4, Elements DEF AllDisarmed, Kept, SamePlaces
<1>6. d.mem \in [Addrs -> Bytes] /\ \A a \in Addrs \ h1 : d.mem[a] = g[a]
  <2>1. d.mem \in [Addrs -> Bytes]
    BY <1>4 DEF Kept, Typed
  <2>2. QED
    BY <1>4, <1>5, <2>1, DisarmedMemory
<1>7. <<>> \in Seq(CBreakpoint) /\ DOMAIN <<>> = {}
  OBVIOUS
<1>8. Typed(e)
  BY <1>3, <1>6, <1>7 DEF Typed, Located
<1>9. \A a : PhysAt(e.bps, a) = {} /\ ActiveAt(e.bps, a) = {}
  BY <1>3, <1>7 DEF PhysAt, ActiveAt
<1>10. ASSUME NEW a \in Addrs \ h1 PROVE Clean(e, g, a)
  BY <1>3, <1>6, <1>9 DEF Clean
<1>11. QED
  BY <1>8, <1>10 DEF Kept, e

\* Deleting a breakpoint that may be armed loses the books of its address only.
LEMMA DeleteBreakpointKeeps ==
  ASSUME NEW s, NEW g, NEW h, Kept(s, g, h), NEW a, NEW isOnce,
         FindPhysBreakpoint(s.bps, a, isOnce) # {}, NEW h1, h \subseteq h1,
         ActiveAt(s.bps, a) = {First(FindPhysBreakpoint(s.bps, a, isOnce))} => a \in h1
  PROVE  Kept(DeleteBreakpoint(s, a, isOnce), g, h1)
<1> DEFINE found == FindPhysBreakpoint(s.bps, a, isOnce)
           i     == First(found)
<1>1. i \in found
  <2>1. found \subseteq Nat
    BY Elements DEF Kept, FindPhysBreakpoint, PhysAt
  <2>2. QED
    BY <2>1, FirstIsElement
<1>2. i \in DOMAIN s.bps /\ s.bps[i].location = a
  BY <1>1 DEF FindPhysBreakpoint, PhysAt
<1> HIDE DEF i, found
<1>3. Kept(s, g, h1)
  BY KeptFewer
<1>4. ASSUME NEW b \in Addrs \ h1, ActiveAt(s.bps, b) = {i} PROVE FALSE
  <2>1. s.bps[i].location = b
    BY <1>4 DEF ActiveAt, PhysAt
  <2>2. QED
    BY <1>2, <1>4, <2>1 DEF i, found
<1>5. Kept(EraseAt(s, i), g, h1)
  BY <1>2, <1>3, <1>4, EraseKeeps
<1>6. QED
  BY <1>5 DEF DeleteBreakpoint, i, found
----------------------------------------------------------------------------
(* The inductive invariant, and that every action keeps it.                *)

IInv ==
  /\ Kept(st, guest, holes)
  /\ ip \in Addrs
  /\ debugging \in BOOLEAN
  /\ guest \in [Addrs -> Bytes]
  /\ holes \subseteq Addrs

\* The state that an action becomes is the next state.
LEMMA BecomeKeeps ==
  ASSUME NEW s, NEW g, NEW h, Kept(s, g, h), Become(s), guest' = g, holes' = h
  PROVE  Kept(st, guest, holes)' /\ st' = s
<1>1. s = [bps |-> s.bps, mem |-> s.mem]
  BY DEF Kept, Typed
<1>2. st' = s
  BY <1>1 DEF st, Become
<1>3. QED
  BY <1>2

\* What a write to guest memory does to the history variables.
LEMMA RememberTypes ==
  ASSUME IInv, NEW s, NEW w \in Writes, Remember(s, w)
  PROVE  guest' \in [Addrs -> Bytes] /\ holes' \subseteq Addrs
<1>1. PICK S \in WriteSets : w \in [S -> GuestBytes]
  BY DEF Writes
<1>2. Overlay(guest, w) \in [Addrs -> Bytes]
  BY <1>1, GuestAssumption DEF Overlay, IInv
<1>3. DOMAIN w \subseteq Addrs
  BY <1>1, GuestAssumption
<1>4. QED
  BY <1>2, <1>3 DEF Remember, NewHoles, IInv

\* A temporary breakpoint is an ordinary one.
LEMMA WithTemporaryKeeps ==
  ASSUME IInv, NEW temp \in Addrs \cup {NoAddr}
  PROVE  Kept(WithTemporary(temp), guest, holes)
<1>1. Kept(st, guest, holes)
  BY DEF IInv
<1>2. \A a \in Addrs : Kept(AddBreakpoint(st, a, TRUE), guest, holes)
  BY <1>1, AddBreakpointKeeps
<1>3. QED
  BY <1>1, <1>2 DEF WithTemporary

\* Before the first action the list is empty and memory is the guest's own.
LEMMA InitInvariant == Init => IInv
<1> SUFFICES ASSUME Init PROVE IInv
  OBVIOUS
<1>1. mem \in [Addrs -> Bytes] /\ guest = mem
  BY GuestAssumption DEF Init
<1>2. <<>> \in Seq(CBreakpoint) /\ DOMAIN <<>> = {}
  OBVIOUS
<1>3. st = [bps |-> <<>>, mem |-> mem]
  BY DEF st, Init
<1>4. Typed(st)
  BY <1>1, <1>2, <1>3 DEF Typed, Located
<1>5. \A a : PhysAt(st.bps, a) = {} /\ ActiveAt(st.bps, a) = {}
  BY <1>2, <1>3 DEF PhysAt, ActiveAt
<1>6. ASSUME NEW a \in Addrs PROVE Clean(st, guest, a)
  BY <1>1, <1>3, <1>5 DEF Clean
<1>7. QED
  BY <1>1, <1>4, <1>6 DEF Kept, IInv, Init

\* The actions of the running guest.
LEMMA RunInvariant == IInv /\ RunNext => IInv'
<1> SUFFICES ASSUME IInv, RunNext PROVE IInv'
  OBVIOUS
<1>1. Kept(st, guest, holes)
  BY DEF IInv
<1>2. CASE Instruction
  <2>1. PICK w \in Writes : Become(Write(st, w)) /\ Remember(st, w)
    BY <1>2 DEF Instruction
  <2>2. Kept(Write(st, w), Overlay(guest, w), holes \cup NewHoles(st, w))
    BY <1>1, WriteKeeps
  <2>3. Kept(st, guest, holes)'
    BY <2>1, <2>2, BecomeKeeps DEF Remember
  <2>4. guest' \in [Addrs -> Bytes] /\ holes' \subseteq Addrs
    BY <2>1, RememberTypes
  <2>5. QED
    BY <1>2, <2>3, <2>4 DEF Instruction, IInv
<1>3. CASE Hit
  <2>1. Kept(DebugBreakpoint(st, ip), guest, holes)
    BY <1>1, <1>3, DebugBreakpointKeeps DEF Hit, AtBreakpoint
  <2>2. Kept(st, guest, holes)'
    BY <1>3, <2>1, BecomeKeeps DEF Hit
  <2>3. QED
    BY <1>3, <2>2 DEF Hit, IInv
<1>4. CASE IntHit
  <2>1. Kept(DeactivateBreakpoints(st), guest, holes)
    BY <1>1, DeactivateKeeps
  <2>2. Kept(st, guest, holes)'
    BY <1>4, <2>1, BecomeKeeps DEF IntHit
  <2>3. QED
    BY <1>4, <2>2 DEF IntHit, IInv
<1>5. CASE PauseKey
  BY <1>1, <1>5 DEF PauseKey, IInv, st
<1>6. ASSUME NEW a \in Addrs, DEBUG_CheckExecuteBreakpoint(a) PROVE IInv'
  <2>1. Kept(AddBreakpoint(st, a, TRUE), guest, holes)
    BY <1>1, AddBreakpointKeeps
  <2>2. Kept(ActivateBreakpointsExceptAt(AddBreakpoint(st, a, TRUE), ip), guest, holes)
    BY <2>1, ActivateAllKeeps
  <2>3. Kept(st, guest, holes)'
    BY <1>6, <2>2, BecomeKeeps DEF DEBUG_CheckExecuteBreakpoint
  <2>4. QED
    BY <1>6, <2>3 DEF DEBUG_CheckExecuteBreakpoint, IInv
<1>7. QED
  BY <1>2, <1>3, <1>4, <1>5, <1>6 DEF RunNext
\* The commands.
LEMMA CommandInvariant == IInv /\ CommandNext => IInv'
<1> SUFFICES ASSUME IInv, CommandNext PROVE IInv'
  OBVIOUS
<1>1. Kept(st, guest, holes)
  BY DEF IInv
<1>2. ASSUME NEW a \in Addrs, CommandBP(a) PROVE IInv'
  <2>1. Kept(AddBreakpoint(st, a, FALSE), guest, holes)
    BY <1>1, AddBreakpointKeeps
  <2>2. Kept(st, guest, holes)'
    BY <1>2, <2>1, BecomeKeeps DEF CommandBP
  <2>3. QED
    BY <1>2, <2>2 DEF CommandBP, IInv
<1>3. ASSUME NEW p \in ServicePatterns, CommandBPINT(p) PROVE IInv'
  <2>1. Kept(AddIntBreakpoint(st, p), guest, holes)
    BY <1>1, AddBreakpointKeeps
  <2>2. Kept(st, guest, holes)'
    BY <1>3, <2>1, BecomeKeeps DEF CommandBPINT
  <2>3. QED
    BY <1>3, <2>2 DEF CommandBPINT, IInv
<1>4. ASSUME NEW i \in DOMAIN BPoints, CommandBPDEL(i) PROVE IInv'
  <2>1. i \in DOMAIN st.bps
    BY DEF st
  <2>2. Kept(DisarmAndErase(st, i), guest, holes)
    BY <1>1, <2>1, DisarmAndEraseKeeps
  <2>3. Kept(st, guest, holes)'
    BY <1>4, <2>2, BecomeKeeps DEF CommandBPDEL
  <2>4. QED
    BY <1>4, <2>3 DEF CommandBPDEL, IInv
<1>5. CASE CommandBPDELAll
  <2>1. PICK misled \in Misled(BPoints) :
          /\ Become(DeleteAll(st, misled))
          /\ holes' = holes \cup {a \in Addrs : ActiveAt(BPoints, a) \cap misled # {}}
    BY <1>5 DEF CommandBPDELAll
  <2>2. \A a \in Addrs \ holes' : ActiveAt(st.bps, a) \cap misled = {}
    BY <2>1 DEF st
  <2>3. Kept(DeleteAll(st, misled), guest, holes')
    BY <1>1, <2>1, <2>2, DeleteAllKeeps
  <2>4. Kept(st, guest, holes)'
    BY <1>5, <2>1, <2>3, BecomeKeeps DEF CommandBPDELAll
  <2>5. QED
    BY <1>5, <2>1, <2>4 DEF CommandBPDELAll, IInv
<1>6. ASSUME NEW w \in Writes, Become(Write(st, w)), Remember(st, w)
      PROVE  /\ Kept(st, guest, holes)'
             /\ guest' \in [Addrs -> Bytes] /\ holes' \subseteq Addrs
  <2>1. Kept(Write(st, w), Overlay(guest, w), holes \cup NewHoles(st, w))
    BY <1>1, WriteKeeps
  <2>2. QED
    BY <1>6, <2>1, BecomeKeeps, RememberTypes DEF Remember
<1>7. CASE CommandSM
  BY <1>6, <1>7 DEF CommandSM, IInv
<1>8. CASE CommandSR
  BY <1>1, <1>8 DEF CommandSR, IInv, st
<1>9. CASE CommandINTT
  BY <1>6, <1>9 DEF CommandINTT, IInv
<1>9a. CASE CommandX
  BY <1>6, <1>9a DEF CommandX, IInv
<1>10. CASE CommandINT
  <2> DEFINE s == ActivateBreakpointsExceptAt(AddBreakpoint(st, ip, TRUE), ip - 1)
  <2>1. Kept(AddBreakpoint(st, ip, TRUE), guest, holes)
    BY <1>1, AddBreakpointKeeps DEF IInv
  <2>2. Kept(s, guest, holes)
    BY <2>1, ActivateAllKeeps
  <2>3. PICK w \in Writes : Become(Write(s, w)) /\ Remember(s, w)
    BY <1>10 DEF CommandINT
  <2> HIDE DEF s
  <2>4. Kept(Write(s, w), Overlay(guest, w), holes \cup NewHoles(s, w))
    BY <2>2, WriteKeeps
  <2>5. Kept(st, guest, holes)'
    BY <2>3, <2>4, BecomeKeeps DEF Remember
  <2>6. guest' \in [Addrs -> Bytes] /\ holes' \subseteq Addrs
    BY <2>3, RememberTypes
  <2>7. QED
    BY <1>10, <2>5, <2>6 DEF CommandINT, IInv
<1>11. QED
  BY <1>2, <1>3, <1>4, <1>5, <1>7, <1>8, <1>9, <1>9a, <1>10 DEF CommandNext

\* The keys, and the interrupt that DEBUG_Loop takes.
LEMMA KeyInvariant == IInv /\ KeyNext => IInv'
<1> SUFFICES ASSUME IInv, KeyNext PROVE IInv'
  OBVIOUS
<1>1. Kept(st, guest, holes)
  BY DEF IInv
<1>2. ASSUME NEW a \in Addrs, NEW shift \in BOOLEAN, KeyF9(a, shift) PROVE IInv'
  <2> DEFINE found == FindPhysBreakpoint(BPoints, a, shift)
  <2>1. /\ UNCHANGED <<ip, debugging, guest>>
        /\ \/ /\ found # {}
              /\ Become(DeleteBreakpoint(st, a, shift))
              /\ holes' = IF ActiveAt(BPoints, a) = {First(found)}
                          THEN holes \cup {a} ELSE holes
           \/ /\ Become(AddBreakpoint(st, a, shift))
              /\ UNCHANGED holes
    BY <1>2 DEF KeyF9
  <2>2. CASE /\ found # {}
             /\ Become(DeleteBreakpoint(st, a, shift))
             /\ holes' = IF ActiveAt(BPoints, a) = {First(found)}
                         THEN holes \cup {a} ELSE holes
    <3>1. /\ holes \subseteq holes' /\ holes' \subseteq Addrs
          /\ ActiveAt(BPoints, a) = {First(found)} => a \in holes'
      BY <2>2 DEF IInv
    <3>2. st.bps = BPoints
      BY DEF st
    <3>3. Kept(DeleteBreakpoint(st, a, shift), guest, holes')
      BY <1>1, <2>2, <3>1, <3>2, DeleteBreakpointKeeps
    <3>4. Kept(st, guest, holes)'
      BY <2>1, <2>2, <3>3, BecomeKeeps
    <3>5. QED
      BY <2>1, <3>1, <3>4 DEF IInv
  <2>3. CASE Become(AddBreakpoint(st, a, shift)) /\ UNCHANGED holes
    <3>1. Kept(AddBreakpoint(st, a, shift), guest, holes)
      BY <1>1, AddBreakpointKeeps
    <3>2. Kept(st, guest, holes)'
      BY <2>1, <2>3, <3>1, BecomeKeeps
    <3>3. QED
      BY <2>1, <2>3, <3>2 DEF IInv
  <2>4. QED
    BY <2>1, <2>2, <2>3
<1>3. ASSUME NEW temp \in Addrs \cup {NoAddr}, NEW quickexit \in BOOLEAN,
             DEBUG_Run(temp, quickexit)
      PROVE  IInv'
  <2> DEFINE s         == WithTemporary(temp)
             Leave(s1) == IF quickexit THEN s1 ELSE ActivateBreakpoints(s1)
  <2>1. Kept(s, guest, holes)
    BY WithTemporaryKeeps
  <2>2. \A s1, g, h : Kept(s1, g, h) => Kept(Leave(s1), g, h)
    BY ActivateAllKeeps
  <2>3. \/ /\ AtBreakpoint(s)
           /\ Become(Leave(DebugBreakpoint(s, ip)))
           /\ UNCHANGED <<ip, debugging, guest, holes>>
        \/ /\ AtIntBreakpoint(s)
           /\ Become(Leave(DeactivateBreakpoints(s)))
           /\ UNCHANGED <<ip, debugging, guest, holes>>
        \/ /\ \E w \in Writes : Become(Leave(Write(s, w))) /\ Remember(s, w)
           /\ ip' \in Addrs
           /\ debugging' = quickexit
    BY <1>3 DEF DEBUG_Run
  <2> HIDE DEF s, Leave
  <2>4. CASE /\ AtBreakpoint(s)
             /\ Become(Leave(DebugBreakpoint(s, ip)))
             /\ UNCHANGED <<ip, debugging, guest, holes>>
    <3>1. Kept(DebugBreakpoint(s, ip), guest, holes)
      BY <2>1, <2>4, DebugBreakpointKeeps DEF AtBreakpoint
    <3>2. Kept(st, guest, holes)'
      BY <2>2, <2>4, <3>1, BecomeKeeps
    <3>3. QED
      BY <2>4, <3>2 DEF IInv
  <2>5. CASE /\ AtIntBreakpoint(s)
             /\ Become(Leave(DeactivateBreakpoints(s)))
             /\ UNCHANGED <<ip, debugging, guest, holes>>
    <3>1. Kept(DeactivateBreakpoints(s), guest, holes)
      BY <2>1, DeactivateKeeps
    <3>2. Kept(st, guest, holes)'
      BY <2>2, <2>5, <3>1, BecomeKeeps
    <3>3. QED
      BY <2>5, <3>2 DEF IInv
  <2>6. CASE /\ \E w \in Writes : Become(Leave(Write(s, w))) /\ Remember(s, w)
             /\ ip' \in Addrs
             /\ debugging' = quickexit
    <3>1. PICK w \in Writes : Become(Leave(Write(s, w))) /\ Remember(s, w)
      BY <2>6
    <3>2. Kept(Write(s, w), Overlay(guest, w), holes \cup NewHoles(s, w))
      BY <2>1, WriteKeeps
    <3>3. Kept(st, guest, holes)'
      BY <2>2, <3>1, <3>2, BecomeKeeps DEF Remember
    <3>4. guest' \in [Addrs -> Bytes] /\ holes' \subseteq Addrs
      BY <3>1, RememberTypes
    <3>5. QED
      BY <2>6, <3>3, <3>4 DEF IInv
  <2>7. QED
    BY <2>3, <2>4, <2>5, <2>6
<1>4. CASE SkipInterrupt
  <2>1. /\ ip' \in Addrs
        /\ debugging' = FALSE
        /\ \E w \in Writes :
             /\ Become(ActivateBreakpointsExceptAt(AddBreakpoint(Write(st, w), ip, TRUE), ip'))
             /\ Remember(st, w)
    BY <1>4 DEF SkipInterrupt
  <2>2. PICK w \in Writes :
             /\ Become(ActivateBreakpointsExceptAt(AddBreakpoint(Write(st, w), ip, TRUE), ip'))
             /\ Remember(st, w)
    BY <2>1
  <2> DEFINE g == Overlay(guest, w)
             h == holes \cup NewHoles(st, w)
  <2>3. Kept(Write(st, w), g, h)
    BY <1>1, WriteKeeps
  <2>4. Kept(AddBreakpoint(Write(st, w), ip, TRUE), g, h)
    BY <2>3, AddBreakpointKeeps DEF IInv
  <2>5. Kept(ActivateBreakpointsExceptAt(AddBreakpoint(Write(st, w), ip, TRUE), ip'), g, h)
    BY <2>4, ActivateAllKeeps
  <2>6. Kept(st, guest, holes)'
    BY <2>2, <2>5, BecomeKeeps DEF Remember
  <2>7. guest' \in [Addrs -> Bytes] /\ holes' \subseteq Addrs
    BY <2>2, RememberTypes
  <2>8. QED
    BY <2>1, <2>6, <2>7 DEF IInv
<1>5. QED
  BY <1>2, <1>3, <1>4 DEF KeyNext
----------------------------------------------------------------------------
(* The theorems.                                                           *)

\* Every step, and every step that changes nothing, keeps the invariant.
LEMMA StepInvariant == IInv /\ [Next]_vars => IInv'
<1>1. ASSUME IInv, UNCHANGED vars PROVE IInv'
  BY <1>1 DEF vars, IInv, st
<1>2. QED
  BY <1>1, RunInvariant, CommandInvariant, KeyInvariant DEF Next

\* The invariant holds in every reachable state.
THEOREM Invariance == Spec => []IInv
  BY InitInvariant, StepInvariant, PTL DEF Spec

\* Whatever the user and the guest do, every breakpoint of the list is a
\* well-formed one and memory holds bytes: a byte that Activate writes back is
\* always one that a breakpoint captured.
THEOREM TypeCorrect == Spec => []TypeOK
<1>1. IInv => TypeOK
  BY DEF IInv, Kept, Typed, TypeOK, st
<1>2. QED
  BY <1>1, Invariance, PTL

\* Patching is transparent: outside the holes, memory is the guest's own except
\* under an armed breakpoint, and every armed breakpoint remembers the guest's
\* byte, for any number of breakpoints, addresses and bytes.
THEOREM Transparency == Spec => []Transparent
<1>1. IInv => Transparent
  BY DEF IInv, Kept, Clean, Transparent, st
<1>2. QED
  BY <1>1, Invariance, PTL

\* A breakpoint or interrupt breakpoint that stops the guest leaves no patch in
\* memory and no breakpoint armed.
THEOREM HitsLeaveNoPatch == Spec => HitLeavesNoPatch
<1> DEFINE Good == /\ \A i \in DOMAIN BPoints' : ~BPoints'[i].active
                   /\ \A a \in Addrs \ holes : mem'[a] = guest[a]
           A    == ~debugging /\ debugging' /\ ~PauseKey => Good
<1>1. ASSUME IInv, NEW s, Kept(s, guest, holes), AllDisarmed(s.bps), Become(s)
      PROVE  Good
  <2>1. \A a \in Addrs \ holes : s.mem[a] = guest[a]
    BY <1>1, DisarmedMemory
  <2>2. QED
    BY <1>1, <2>1 DEF Become, AllDisarmed
<1>2. ASSUME IInv, Hit PROVE Good
  <2>1. /\ Kept(DebugBreakpoint(st, ip), guest, holes)
        /\ AllDisarmed(DebugBreakpoint(st, ip).bps)
    BY <1>2, DebugBreakpointKeeps DEF IInv, Hit, AtBreakpoint
  <2>2. QED
    BY <1>1, <1>2, <2>1 DEF Hit
<1>3. ASSUME IInv, IntHit PROVE Good
  <2>1. /\ Kept(DeactivateBreakpoints(st), guest, holes)
        /\ AllDisarmed(DeactivateBreakpoints(st).bps)
    BY <1>3, DeactivateKeeps DEF IInv
  <2>2. QED
    BY <1>1, <1>3, <2>1 DEF IntHit
<1>4. ASSUME Next, ~debugging, debugging' PROVE Hit \/ IntHit \/ PauseKey
  <2>1. CASE RunNext
    BY <1>4, <2>1 DEF RunNext, Instruction, DEBUG_CheckExecuteBreakpoint
  <2>2. CASE CommandNext
    BY <1>4, <2>2 DEF CommandNext, CommandBP, CommandBPINT, CommandBPDEL,
       CommandBPDELAll, CommandSM, CommandSR, CommandINTT, CommandX, CommandINT
  <2>3. CASE KeyNext
    BY <1>4, <2>3 DEF KeyNext, KeyF9, DEBUG_Run, SkipInterrupt
  <2>4. QED
    BY <1>4, <2>1, <2>2, <2>3 DEF Next
<1> HIDE DEF Good
<1>5. IInv /\ Next => A
  BY <1>2, <1>3, <1>4
<1>6. IInv /\ [Next]_vars => [A]_vars
  BY <1>5
<1>7. Spec => [][A]_vars
  BY <1>6, Invariance, PTL DEF Spec
<1>8. QED
  BY <1>7 DEF HitLeavesNoPatch, A, Good

----------------------------------------------------------------------------
(* While the guest runs, one address at most is without its breakpoints.   *)

OneAddressUnarmed(bps) ==
  \A i, j \in DOMAIN bps :
    ~bps[i].active /\ ~bps[j].active =>
      bps[i].type = "PHYSICAL" /\ bps[i].location = bps[j].location

\* Activating, with or without an exception, leaves one address unarmed at most.
LEMMA ActivateAllArms ==
  ASSUME NEW s, NEW g, NEW h, Kept(s, g, h), NEW a
  PROVE  /\ OneAddressUnarmed(ActivateBreakpointsExceptAt(s, a).bps)
         /\ OneAddressUnarmed(ActivateBreakpoints(s).bps)
<1>1. ASSUME NEW e PROVE OneAddressUnarmed(Sweep(s, TRUE, e).bps)
  <2> DEFINE s1 == Sweep(s, TRUE, e)
  <2>1. /\ Kept(s1, g, h) /\ SamePlaces(s, s1)
        /\ \A j \in DOMAIN s.bps \ PhysAt(s.bps, e) : s1.bps[j].active = TRUE
    BY SweepKeeps, Zenon
  <2> HIDE DEF s1
  <2>2. DOMAIN s1.bps = DOMAIN s.bps
    BY <2>1, Elements DEF Kept, SamePlaces
  <2>3. \A j \in DOMAIN s1.bps : ~s1.bps[j].active =>
          s1.bps[j].type = "PHYSICAL" /\ s1.bps[j].location = e
    BY <2>1, <2>2 DEF SamePlaces, PhysAt
  <2>4. OneAddressUnarmed(s1.bps)
    BY <2>3 DEF OneAddressUnarmed
  <2>5. QED
    BY <2>4 DEF s1
<1>2. QED
  BY <1>1, Zenon DEF ActivateBreakpoints, ActivateBreakpointsExceptAt

\* Every step that leaves the guest running does.
LEMMA StepArms ==
  ASSUME IInv, UnarmedAtOneAddress, Next, ~debugging'
  PROVE  OneAddressUnarmed(BPoints')
<1>1. Kept(st, guest, holes) /\ st.bps = BPoints
  BY DEF IInv, st
<1>2. \A s, w : Write(s, w).bps = s.bps
  <2>1. ASSUME NEW s, NEW w PROVE Write(s, w).bps = s.bps
    BY DEF Write
  <2>2. QED
    BY <2>1
<1>3. CASE Instruction
  <2>1. BPoints' = BPoints
    BY <1>1, <1>2, <1>3 DEF Instruction, Become
  <2>2. QED
    BY <1>3, <2>1 DEF Instruction, UnarmedAtOneAddress, OneAddressUnarmed
<1>4. ASSUME NEW a \in Addrs, DEBUG_CheckExecuteBreakpoint(a)
      PROVE  OneAddressUnarmed(BPoints')
  <2>1. Kept(AddBreakpoint(st, a, TRUE), guest, holes)
    BY <1>1, AddBreakpointKeeps
  <2>2. BPoints' = ActivateBreakpointsExceptAt(AddBreakpoint(st, a, TRUE), ip).bps
    BY <1>4 DEF DEBUG_CheckExecuteBreakpoint, Become
  <2>3. QED
    BY <2>1, <2>2, ActivateAllArms
<1>5. CASE CommandINT
  <2> DEFINE s == ActivateBreakpointsExceptAt(AddBreakpoint(st, ip, TRUE), ip - 1)
  <2>1. Kept(AddBreakpoint(st, ip, TRUE), guest, holes)
    BY <1>1, AddBreakpointKeeps DEF IInv
  <2>2. OneAddressUnarmed(s.bps)
    BY <2>1, ActivateAllArms
  <2>3. PICK w \in Writes : Become(Write(s, w))
    BY <1>5 DEF CommandINT
  <2> HIDE DEF s
  <2>4. BPoints' = s.bps
    BY <1>2, <2>3 DEF Become
  <2>5. QED
    BY <2>2, <2>4
<1>6. ASSUME NEW temp \in Addrs \cup {NoAddr}, NEW quickexit \in BOOLEAN,
             DEBUG_Run(temp, quickexit)
      PROVE  OneAddressUnarmed(BPoints')
  <2> DEFINE s == WithTemporary(temp)
  <2>1. Kept(s, guest, holes)
    BY WithTemporaryKeeps
  <2>2. PICK w \in Writes :
          /\ Become(IF quickexit THEN Write(s, w) ELSE ActivateBreakpoints(Write(s, w)))
          /\ debugging' = quickexit
    BY <1>6 DEF DEBUG_Run
  <2> HIDE DEF s
  <2>3. Kept(Write(s, w), Overlay(guest, w), holes \cup NewHoles(s, w))
    BY <2>1, WriteKeeps
  <2>4. BPoints' = ActivateBreakpoints(Write(s, w)).bps
    BY <2>2 DEF Become
  <2>5. QED
    BY <2>3, <2>4, ActivateAllArms
<1>7. CASE SkipInterrupt
  <2>1. PICK w \in Writes :
          Become(ActivateBreakpointsExceptAt(AddBreakpoint(Write(st, w), ip, TRUE), ip'))
    BY <1>7 DEF SkipInterrupt
  <2> DEFINE g == Overlay(guest, w)
             h == holes \cup NewHoles(st, w)
  <2>2. Kept(Write(st, w), g, h)
    BY <1>1, WriteKeeps
  <2>3. Kept(AddBreakpoint(Write(st, w), ip, TRUE), g, h)
    BY <2>2, AddBreakpointKeeps DEF IInv
  <2>4. QED
    BY <2>1, <2>3, ActivateAllArms DEF Become
<1>8. RunNext => Instruction \/ \E a \in Addrs : DEBUG_CheckExecuteBreakpoint(a)
  BY DEF RunNext, Hit, IntHit, PauseKey
<1>9. CommandNext => CommandINT
  <2> DEFINE Stays == debugging /\ debugging' = debugging
  <2>1. ~Stays
    BY SMT
  <2>2. /\ \A a : CommandBP(a) => Stays
        /\ \A p : CommandBPINT(p) => Stays
        /\ \A i : CommandBPDEL(i) => Stays
    BY Zenon DEF CommandBP, CommandBPINT, CommandBPDEL
  <2>3. CommandBPDELAll \/ CommandSM \/ CommandSR \/ CommandINTT \/ CommandX => Stays
    BY Zenon DEF CommandBPDELAll, CommandSM, CommandSR, CommandINTT, CommandX
  <2> HIDE DEF Stays
  <2>4. QED
    BY <2>1, <2>2, <2>3, Zenon DEF CommandNext
<1>10. KeyNext => \/ SkipInterrupt
                  \/ \E temp \in Addrs \cup {NoAddr}, quickexit \in BOOLEAN :
                       DEBUG_Run(temp, quickexit)
  BY DEF KeyNext, KeyF9
<1>11. QED
  BY <1>3, <1>4, <1>5, <1>6, <1>7, <1>8, <1>9, <1>10 DEF Next

\* While the guest runs every breakpoint is armed, but for those at one address,
\* for any number of breakpoints: no sweep misses one.
THEOREM AllButOneArmed == Spec => []UnarmedAtOneAddress
<1>1. Init => UnarmedAtOneAddress
  BY DEF Init, UnarmedAtOneAddress
<1>2. IInv /\ UnarmedAtOneAddress /\ [Next]_vars => UnarmedAtOneAddress'
  <2> SUFFICES ASSUME IInv, UnarmedAtOneAddress, [Next]_vars PROVE UnarmedAtOneAddress'
    OBVIOUS
  <2>1. CASE UNCHANGED vars
    BY <2>1 DEF vars, UnarmedAtOneAddress
  <2>2. CASE Next
    BY <2>2, StepArms DEF UnarmedAtOneAddress, OneAddressUnarmed
  <2>3. QED
    BY <2>1, <2>2
<1>3. QED
  BY <1>1, <1>2, Invariance, PTL DEF Spec

----------------------------------------------------------------------------
(* Only the user deletes a permanent breakpoint.                           *)

Permanents(bps, a) == {i \in PhysAt(bps, a) : ~bps[i].once}

\* No address has fewer permanent breakpoints in s1 than in s.
Survive(s, s1) ==
  \A a \in Addrs : Cardinality(Permanents(s.bps, a)) <= Cardinality(Permanents(s1.bps, a))

\* The permanent breakpoints at an address can be counted.
LEMMA PermanentsFinite ==
  ASSUME NEW s, Typed(s), NEW a
  PROVE  /\ IsFiniteSet(Permanents(s.bps, a))
         /\ Cardinality(Permanents(s.bps, a)) \in Nat
<1>1. Permanents(s.bps, a) \subseteq 1 .. Len(s.bps) /\ Len(s.bps) \in Nat
  BY Elements DEF Permanents, PhysAt
<1>2. IsFiniteSet(1 .. Len(s.bps))
  BY <1>1, FS_Interval
<1>3. IsFiniteSet(Permanents(s.bps, a))
  BY <1>1, <1>2, FS_Subset
<1>4. QED
  BY <1>3, FS_CardinalityType

\* One operation after another.
LEMMA SurviveBoth ==
  ASSUME NEW s, NEW s1, NEW s2, Typed(s), Typed(s1), Typed(s2),
         Survive(s, s1), Survive(s1, s2)
  PROVE  Survive(s, s2)
<1>1. ASSUME NEW a \in Addrs
      PROVE  Cardinality(Permanents(s.bps, a)) <= Cardinality(Permanents(s2.bps, a))
  <2>1. /\ Cardinality(Permanents(s.bps, a)) <= Cardinality(Permanents(s1.bps, a))
        /\ Cardinality(Permanents(s1.bps, a)) <= Cardinality(Permanents(s2.bps, a))
    BY DEF Survive
  <2>2. /\ Cardinality(Permanents(s.bps, a)) \in Nat
        /\ Cardinality(Permanents(s1.bps, a)) \in Nat
        /\ Cardinality(Permanents(s2.bps, a)) \in Nat
    BY PermanentsFinite
  <2>3. QED
    BY <2>1, <2>2
<1>2. QED
  BY <1>1 DEF Survive

\* Breakpoints that move to places of their own survive.
LEMMA MovedSurvive ==
  ASSUME NEW s, NEW s1, Typed(s), Typed(s1), NEW place,
         \A a \in Addrs : \A i \in Permanents(s.bps, a) : place[i] \in Permanents(s1.bps, a),
         \A a \in Addrs : \A i, j \in Permanents(s.bps, a) : place[i] = place[j] => i = j
  PROVE  Survive(s, s1)
<1>1. ASSUME NEW a \in Addrs
      PROVE  Cardinality(Permanents(s.bps, a)) <= Cardinality(Permanents(s1.bps, a))
  <2> DEFINE P == Permanents(s.bps, a)
             Q == Permanents(s1.bps, a)
             f == [i \in P |-> place[i]]
  <2>1. f \in Injection(P, Q)
    <3>1. f \in [P -> Q]
      OBVIOUS
    <3>2. IsInjective(f)
      BY DEF IsInjective
    <3>3. QED
      BY <3>1, <3>2 DEF Injection
  <2>2. IsFiniteSet(Q)
    BY PermanentsFinite
  <2> HIDE DEF P, Q, f
  <2>3. Cardinality(P) <= Cardinality(Q)
    BY <2>1, <2>2, FS_Injection
  <2>4. QED
    BY <2>3 DEF P, Q
<1>2. QED
  BY <1>1 DEF Survive

\* Arming and disarming delete nothing.
LEMMA PlacesSurvive ==
  ASSUME NEW s, NEW s1, Typed(s), Typed(s1), SamePlaces(s, s1)
  PROVE  Survive(s, s1)
<1>1. ASSUME NEW a \in Addrs PROVE Permanents(s1.bps, a) = Permanents(s.bps, a)
  <2>1. PhysAt(s1.bps, a) = PhysAt(s.bps, a)
    BY PhysAtSame
  <2>2. \A i \in PhysAt(s.bps, a) : s1.bps[i].once = s.bps[i].once
    BY DEF PhysAt, SamePlaces
  <2>3. QED
    BY <2>1, <2>2 DEF Permanents
<1>2. ASSUME NEW a \in Addrs
      PROVE  Cardinality(Permanents(s.bps, a)) <= Cardinality(Permanents(s1.bps, a))
  <2>1. Cardinality(Permanents(s.bps, a)) \in Nat
    BY PermanentsFinite
  <2>2. QED
    BY <1>1, <2>1
<1>3. QED
  BY <1>2 DEF Survive

LEMMA SweepsSurvive ==
  ASSUME NEW s, NEW g, NEW h, Kept(s, g, h), NEW a
  PROVE  /\ Survive(s, ActivateBreakpoints(s))
         /\ Survive(s, ActivateBreakpointsExceptAt(s, a))
         /\ Survive(s, DeactivateBreakpoints(s))
<1>1. ASSUME NEW on \in BOOLEAN, NEW e PROVE Survive(s, Sweep(s, on, e))
  <2>1. Kept(Sweep(s, on, e), g, h) /\ SamePlaces(s, Sweep(s, on, e))
    BY SweepKeeps, Zenon
  <2>2. QED
    BY <2>1, PlacesSurvive DEF Kept
<1>2. QED
  BY <1>1, Zenon DEF ActivateBreakpoints, ActivateBreakpointsExceptAt, DeactivateBreakpoints

\* A new breakpoint pushes the others one place on.
LEMMA AddSurvives ==
  ASSUME NEW s, Typed(s), NEW bp, Typed(Add(s, bp))
  PROVE  Survive(s, Add(s, bp))
<1> DEFINE q == <<bp>> \o s.bps
           place == [i \in DOMAIN s.bps |-> i + 1]
<1>1. Add(s, bp).bps = q
  BY DEF Typed, Add
<1>2. s.bps \in Seq(CBreakpoint) /\ DOMAIN s.bps = 1 .. Len(s.bps) /\ Len(s.bps) \in Nat
  BY Elements
<1>3. \A i \in DOMAIN s.bps : i + 1 \in DOMAIN q /\ q[i + 1] = s.bps[i]
  BY <1>2
<1> HIDE DEF q
<1>4. \A a \in Addrs : \A i \in Permanents(s.bps, a) : place[i] \in Permanents(q, a)
  BY <1>3 DEF Permanents, PhysAt
<1>5. \A a \in Addrs : \A i, j \in Permanents(s.bps, a) : place[i] = place[j] => i = j
  BY <1>2 DEF Permanents, PhysAt
<1> HIDE DEF place
<1>6. QED
  BY <1>1, <1>4, <1>5, MovedSurvive

\* Erasing a once-only breakpoint moves those behind it one place down.
LEMMA EraseSurvives ==
  ASSUME NEW s, Typed(s), NEW i \in DOMAIN s.bps, s.bps[i].once = TRUE,
         Typed(EraseAt(s, i))
  PROVE  Survive(s, EraseAt(s, i))
<1> DEFINE q == Erase(s.bps, i)
           place == [j \in DOMAIN s.bps |-> IF j < i THEN j ELSE j - 1]
<1>1. EraseAt(s, i).bps = q
  BY DEF Typed, EraseAt
<1>2. s.bps \in Seq(CBreakpoint) /\ DOMAIN s.bps = 1 .. Len(s.bps) /\ Len(s.bps) \in Nat
  BY Elements
<1>3. /\ DOMAIN q = 1 .. (Len(s.bps) - 1)
      /\ \A j \in DOMAIN q : q[j] = IF j < i THEN s.bps[j] ELSE s.bps[j + 1]
  BY <1>2, EraseElements
<1> HIDE DEF q
<1>4. ASSUME NEW j \in DOMAIN s.bps, j # i
      PROVE  place[j] \in DOMAIN q /\ q[place[j]] = s.bps[j]
  <2>1. CASE j < i
    BY <1>2, <1>3, <2>1
  <2>2. CASE ~(j < i)
    <3>1. place[j] = j - 1 /\ j - 1 \in DOMAIN q /\ ~(j - 1 < i) /\ (j - 1) + 1 = j
      BY <1>2, <1>3, <1>4, <2>2
    <3>2. QED
      BY <1>3, <3>1
  <2>3. QED
    BY <2>1, <2>2
<1>5. \A a \in Addrs : \A j \in Permanents(s.bps, a) : j \in DOMAIN s.bps /\ j # i
  BY DEF Permanents, PhysAt
<1>6. \A j, k \in DOMAIN s.bps : j # i /\ k # i /\ place[j] = place[k] => j = k
  BY <1>2
<1> HIDE DEF place
<1>7. \A a \in Addrs : \A j \in Permanents(s.bps, a) : place[j] \in Permanents(q, a)
  BY <1>4, <1>5 DEF Permanents, PhysAt
<1>8. \A a \in Addrs : \A j, k \in Permanents(s.bps, a) : place[j] = place[k] => j = k
  BY <1>5, <1>6
<1>9. QED
  BY <1>1, <1>7, <1>8, MovedSurvive

\* Both kinds of new breakpoints.
LEMMA AddBreakpointSurvives ==
  ASSUME NEW s, NEW g, NEW h, Kept(s, g, h)
  PROVE  /\ \A a \in Addrs, isOnce \in BOOLEAN : Survive(s, AddBreakpoint(s, a, isOnce))
         /\ \A p \in ServicePatterns : Survive(s, AddIntBreakpoint(s, p))
<1>1. /\ \A a \in Addrs, isOnce \in BOOLEAN : Typed(AddBreakpoint(s, a, isOnce))
      /\ \A p \in ServicePatterns : Typed(AddIntBreakpoint(s, p))
  BY AddBreakpointKeeps, Zenon DEF Kept
<1>2. Typed(s)
  BY DEF Kept
<1>3. QED
  BY <1>1, <1>2, AddSurvives, Zenon DEF AddBreakpoint, AddIntBreakpoint

\* A write to guest memory does not touch the list.
LEMMA WriteSurvives ==
  ASSUME NEW s, NEW g, NEW h, Kept(s, g, h), NEW w \in Writes
  PROVE  Survive(s, Write(s, w))
<1>1. Kept(Write(s, w), Overlay(g, w), h \cup NewHoles(s, w))
  BY WriteKeeps
<1>2. Write(s, w).bps = s.bps
  BY DEF Write, Kept, Typed
<1>3. SamePlaces(s, Write(s, w))
  BY <1>2 DEF SamePlaces
<1>4. QED
  BY <1>1, <1>3, PlacesSurvive DEF Kept

\* A hit deletes a once-only breakpoint or none.
LEMMA CheckBreakpointSurvives ==
  ASSUME NEW s, NEW g, NEW h, Kept(s, g, h), NEW a, IsHit(s.bps, a)
  PROVE  Survive(s, CheckBreakpoint(s, a))
<1> DEFINE spent == SpentBreakpoint(s.bps, a)
           onces == FindPhysBreakpoint(s.bps, a, TRUE)
           i     == First(spent)
           s1    == Disarm(s, i)
<1>0. Typed(s) /\ DOMAIN s.bps \subseteq Nat
  BY Elements DEF Kept
<1>1. /\ ActiveAt(s.bps, a) \subseteq DOMAIN s.bps
      /\ \A j \in onces : j \in DOMAIN s.bps /\ s.bps[j].once = TRUE
  BY DEF ActiveAt, PhysAt, FindPhysBreakpoint
<1>2. First(ActiveAt(s.bps, a)) \in DOMAIN s.bps
  BY <1>0, <1>1, FirstIsElement DEF IsHit
<1>3. onces # {} => First(onces) \in onces
  BY <1>0, <1>1, FirstIsElement
<1>4. \A j \in spent : j \in DOMAIN s.bps /\ s.bps[j].once = TRUE
  <2>1. s.bps[First(ActiveAt(s.bps, a))].once \in BOOLEAN
    BY <1>0, <1>2, Elements
  <2> HIDE DEF onces
  <2>2. QED
    BY <1>1, <1>2, <1>3, <2>1 DEF SpentBreakpoint, onces
<1> HIDE DEF spent
<1>5. CASE spent = {}
  <2>1. CheckBreakpoint(s, a) = s
    BY <1>5 DEF CheckBreakpoint, spent
  <2>2. SamePlaces(s, s)
    BY DEF SamePlaces
  <2>3. QED
    BY <1>0, <2>1, <2>2, PlacesSurvive
<1>6. CASE spent # {}
  <2>1. i \in DOMAIN s.bps /\ s.bps[i].once = TRUE
    BY <1>0, <1>4, <1>6, FirstIsElement
  <2>2. CheckBreakpoint(s, a) = EraseAt(s1, i)
    BY <1>6 DEF CheckBreakpoint, DisarmAndErase, spent
  <2> HIDE DEF i
  <2>3. SameBut(s, s1, i)
    BY <1>0, <2>1, DisarmEffect, Zenon DEF Changed
  <2> HIDE DEF s1
  <2>4. Typed(s1) /\ SamePlaces(s, s1)
    BY <2>3 DEF SameBut
  <2>5. i \in DOMAIN s1.bps /\ s1.bps[i].once = TRUE
    BY <1>0, <2>1, <2>4, Elements DEF SamePlaces
  <2>6. Typed(EraseAt(s1, i))
    BY <2>2, CheckBreakpointKeeps DEF Kept
  <2>7. Survive(s, s1) /\ Survive(s1, EraseAt(s1, i))
    BY <1>0, <2>4, <2>5, <2>6, PlacesSurvive, EraseSurvives
  <2>8. QED
    BY <1>0, <2>2, <2>4, <2>6, <2>7, SurviveBoth
<1>7. QED
  BY <1>5, <1>6

LEMMA DebugBreakpointSurvives ==
  ASSUME NEW s, NEW g, NEW h, Kept(s, g, h), NEW a, IsHit(s.bps, a)
  PROVE  Survive(s, DebugBreakpoint(s, a))
<1> DEFINE s1 == CheckBreakpoint(s, a)
<1>1. Kept(s1, g, h) /\ Survive(s, s1)
  BY CheckBreakpointKeeps, CheckBreakpointSurvives
<1> HIDE DEF s1
<1>2. Kept(DeactivateBreakpoints(s1), g, h) /\ Survive(s1, DeactivateBreakpoints(s1))
  BY <1>1, DeactivateKeeps, SweepsSurvive
<1>3. Survive(s, DeactivateBreakpoints(s1))
  BY <1>1, <1>2, SurviveBoth DEF Kept
<1>4. QED
  BY <1>3 DEF DebugBreakpoint, s1

\* F9 with shift deletes a once-only breakpoint.
LEMMA DeleteOnceSurvives ==
  ASSUME NEW s, Typed(s), NEW a, FindPhysBreakpoint(s.bps, a, TRUE) # {},
         Typed(DeleteBreakpoint(s, a, TRUE))
  PROVE  Survive(s, DeleteBreakpoint(s, a, TRUE))
<1> DEFINE found == FindPhysBreakpoint(s.bps, a, TRUE)
<1>1. First(found) \in found
  <2>1. found \subseteq Nat
    BY Elements DEF FindPhysBreakpoint, PhysAt
  <2>2. QED
    BY <2>1, FirstIsElement
<1>2. First(found) \in DOMAIN s.bps /\ s.bps[First(found)].once = TRUE
  BY <1>1 DEF FindPhysBreakpoint, PhysAt
<1>3. QED
  BY <1>2, EraseSurvives DEF DeleteBreakpoint

\* A breakpoint is added and the others are armed.
LEMMA AddAndArmSurvive ==
  ASSUME NEW s, NEW g, NEW h, Kept(s, g, h), NEW a \in Addrs, NEW e
  PROVE  Survive(s, ActivateBreakpointsExceptAt(AddBreakpoint(s, a, TRUE), e))
<1> DEFINE s1 == AddBreakpoint(s, a, TRUE)
<1>1. Kept(s1, g, h) /\ Survive(s, s1)
  BY AddBreakpointKeeps, AddBreakpointSurvives
<1> HIDE DEF s1
<1>2. /\ Kept(ActivateBreakpointsExceptAt(s1, e), g, h)
      /\ Survive(s1, ActivateBreakpointsExceptAt(s1, e))
  BY <1>1, ActivateAllKeeps, SweepsSurvive
<1>3. Survive(s, ActivateBreakpointsExceptAt(s1, e))
  BY <1>1, <1>2, SurviveBoth DEF Kept
<1>4. QED
  BY <1>3 DEF s1

\* What a step of the guest or of DEBUG_Loop does to the list.
LEMMA BecomeSurvives ==
  ASSUME NEW s, Become(s), Survive(st, s)
  PROVE  \A a \in Addrs : Permanent(a) <= Permanent(a)'
<1>1. st.bps = BPoints /\ BPoints' = s.bps
  BY DEF st, Become
<1>2. \A a : /\ Permanent(a) = Cardinality(Permanents(st.bps, a))
             /\ Permanent(a)' = Cardinality(Permanents(s.bps, a))
  BY <1>1 DEF Permanent, Permanents
<1>3. QED
  BY <1>2 DEF Survive

\* DEBUG_Run, with and without a temporary breakpoint, whatever stops it.
LEMMA RunSurvives ==
  ASSUME IInv, NEW temp \in Addrs \cup {NoAddr}, NEW quickexit \in BOOLEAN,
         DEBUG_Run(temp, quickexit)
  PROVE  \E s : Become(s) /\ Survive(st, s)
<1> DEFINE s         == WithTemporary(temp)
           Leave(s1) == IF quickexit THEN s1 ELSE ActivateBreakpoints(s1)
<1>1. Kept(st, guest, holes)
  BY DEF IInv
<1>2. Kept(s, guest, holes)
  BY WithTemporaryKeeps
<1>3. Survive(st, s)
  <2>1. SamePlaces(st, st) /\ Typed(st)
    BY <1>1 DEF SamePlaces, Kept
  <2>2. Survive(st, st)
    BY <2>1, PlacesSurvive
  <2>3. \A a \in Addrs : Survive(st, AddBreakpoint(st, a, TRUE))
    BY <1>1, AddBreakpointSurvives
  <2>4. QED
    BY <2>2, <2>3 DEF WithTemporary
<1>4. \/ AtBreakpoint(s) /\ Become(Leave(DebugBreakpoint(s, ip)))
      \/ Become(Leave(DeactivateBreakpoints(s)))
      \/ \E w \in Writes : Become(Leave(Write(s, w)))
  BY DEF DEBUG_Run
<1>5. ASSUME NEW s1, NEW g, NEW h, Kept(s1, g, h), Survive(s, s1)
      PROVE  Survive(st, Leave(s1))
  <2>1. Kept(ActivateBreakpoints(s1), g, h) /\ Survive(s1, ActivateBreakpoints(s1))
    BY <1>5, ActivateAllKeeps, SweepsSurvive
  <2> HIDE DEF s
  <2>2. Survive(st, s1)
    BY <1>1, <1>2, <1>3, <1>5, SurviveBoth DEF Kept
  <2>3. Survive(st, ActivateBreakpoints(s1))
    BY <1>1, <1>5, <2>1, <2>2, SurviveBoth DEF Kept
  <2>4. QED
    BY <2>2, <2>3
<1> HIDE DEF s, Leave
<1>6. CASE AtBreakpoint(s) /\ Become(Leave(DebugBreakpoint(s, ip)))
  <2>1. Kept(DebugBreakpoint(s, ip), guest, holes) /\ Survive(s, DebugBreakpoint(s, ip))
    BY <1>2, <1>6, DebugBreakpointKeeps, DebugBreakpointSurvives DEF AtBreakpoint
  <2>2. QED
    BY <1>5, <1>6, <2>1
<1>7. CASE Become(Leave(DeactivateBreakpoints(s)))
  <2>1. Kept(DeactivateBreakpoints(s), guest, holes) /\ Survive(s, DeactivateBreakpoints(s))
    BY <1>2, DeactivateKeeps, SweepsSurvive
  <2>2. QED
    BY <1>5, <1>7, <2>1
<1>8. ASSUME NEW w \in Writes, Become(Leave(Write(s, w)))
      PROVE  \E s1 : Become(s1) /\ Survive(st, s1)
  <2>1. /\ Kept(Write(s, w), Overlay(guest, w), holes \cup NewHoles(s, w))
        /\ Survive(s, Write(s, w))
    BY <1>2, WriteKeeps, WriteSurvives
  <2>2. QED
    BY <1>5, <1>8, <2>1
<1>9. QED
  BY <1>4, <1>6, <1>7, <1>8

\* Every other step.
LEMMA StepSurvives ==
  ASSUME IInv, Next, ~UserDeletes
  PROVE  \A a \in Addrs : Permanent(a) <= Permanent(a)'
<1> DEFINE Good == \A a \in Addrs : Permanent(a) <= Permanent(a)'
<1>1. Kept(st, guest, holes) /\ st.bps = BPoints /\ ip \in Addrs
  BY DEF IInv, st
<1>2. ASSUME BPoints' = BPoints PROVE Good
  <2>1. SamePlaces(st, st) /\ Typed(st)
    BY <1>1 DEF SamePlaces, Kept
  <2>2. Survive(st, st)
    BY <2>1, PlacesSurvive
  <2>3. \A a : Permanent(a)' = Permanent(a)
    BY <1>2 DEF Permanent
  <2>4. \A a : Permanent(a) = Cardinality(Permanents(st.bps, a))
    BY <1>1 DEF Permanent, Permanents
  <2>5. QED
    BY <2>2, <2>3, <2>4 DEF Survive
<1>3. \A w \in Writes : Become(Write(st, w)) => Good
  BY <1>1, WriteSurvives, BecomeSurvives
<1> HIDE DEF Good
<1>4. RunNext => Good
  <2>1. Hit => Good
    BY <1>1, DebugBreakpointSurvives, BecomeSurvives DEF Hit, AtBreakpoint, Good
  <2>2. IntHit => Good
    BY <1>1, SweepsSurvive, BecomeSurvives DEF IntHit, Good
  <2>3. ASSUME NEW a \in Addrs, DEBUG_CheckExecuteBreakpoint(a) PROVE Good
    BY <1>1, <2>3, AddAndArmSurvive, BecomeSurvives DEF DEBUG_CheckExecuteBreakpoint, Good
  <2>4. QED
    BY <1>2, <1>3, <2>1, <2>2, <2>3 DEF RunNext, Instruction, PauseKey
<1>5. CommandNext => Good
  <2>1. ASSUME NEW a \in Addrs, CommandBP(a) PROVE Good
    BY <1>1, <2>1, AddBreakpointSurvives, BecomeSurvives DEF CommandBP, Good
  <2>2. ASSUME NEW p \in ServicePatterns, CommandBPINT(p) PROVE Good
    BY <1>1, <2>2, AddBreakpointSurvives, BecomeSurvives DEF CommandBPINT, Good
  <2>3. CommandINT => Good
    <3> SUFFICES ASSUME CommandINT PROVE Good
      OBVIOUS
    <3> DEFINE s == ActivateBreakpointsExceptAt(AddBreakpoint(st, ip, TRUE), ip - 1)
    <3>1. Kept(s, guest, holes)
      BY <1>1, AddBreakpointKeeps, ActivateAllKeeps
    <3>2. Survive(st, s)
      BY <1>1, AddAndArmSurvive
    <3>3. PICK w \in Writes : Become(Write(s, w))
      BY DEF CommandINT
    <3> HIDE DEF s
    <3>4. /\ Kept(Write(s, w), Overlay(guest, w), holes \cup NewHoles(s, w))
          /\ Survive(s, Write(s, w))
      BY <3>1, WriteKeeps, WriteSurvives
    <3>5. Survive(st, Write(s, w))
      BY <1>1, <3>1, <3>2, <3>4, SurviveBoth DEF Kept
    <3>6. QED
      BY <3>3, <3>5, BecomeSurvives DEF Good
  <2>4. ~CommandBPDELAll /\ \A i \in DOMAIN BPoints : ~CommandBPDEL(i)
    BY DEF UserDeletes
  <2>5. CommandSM \/ CommandINTT \/ CommandX => Good
    BY <1>3 DEF CommandSM, CommandINTT, CommandX
  <2>6. CommandSR => Good
    BY <1>2 DEF CommandSR
  <2>7. QED
    BY <2>1, <2>2, <2>3, <2>4, <2>5, <2>6 DEF CommandNext
<1>6. KeyNext => Good
  <2>1. ASSUME NEW a \in Addrs, NEW shift \in BOOLEAN, KeyF9(a, shift) PROVE Good
    <3>1. shift = TRUE
      BY <2>1 DEF UserDeletes
    <3>2. \/ /\ FindPhysBreakpoint(st.bps, a, TRUE) # {}
             /\ Become(DeleteBreakpoint(st, a, TRUE))
          \/ Become(AddBreakpoint(st, a, TRUE))
      BY <1>1, <2>1, <3>1 DEF KeyF9
    <3>3. CASE /\ FindPhysBreakpoint(st.bps, a, TRUE) # {}
               /\ Become(DeleteBreakpoint(st, a, TRUE))
      <4>1. Kept(DeleteBreakpoint(st, a, TRUE), guest, holes \cup {a})
        BY <1>1, <3>3, DeleteBreakpointKeeps
      <4>2. Survive(st, DeleteBreakpoint(st, a, TRUE))
        BY <1>1, <3>3, <4>1, DeleteOnceSurvives DEF Kept
      <4>3. QED
        BY <3>3, <4>2, BecomeSurvives DEF Good
    <3>4. CASE Become(AddBreakpoint(st, a, TRUE))
      BY <1>1, <3>4, AddBreakpointSurvives, BecomeSurvives DEF Good
    <3>5. QED
      BY <3>2, <3>3, <3>4
  <2>2. ASSUME NEW temp \in Addrs \cup {NoAddr}, NEW quickexit \in BOOLEAN,
               DEBUG_Run(temp, quickexit)
        PROVE  Good
    BY <2>2, RunSurvives, BecomeSurvives DEF Good
  <2>3. SkipInterrupt => Good
    <3> SUFFICES ASSUME SkipInterrupt PROVE Good
      OBVIOUS
    <3>1. PICK w \in Writes :
            Become(ActivateBreakpointsExceptAt(AddBreakpoint(Write(st, w), ip, TRUE), ip'))
      BY DEF SkipInterrupt
    <3> DEFINE s  == Write(st, w)
               s1 == ActivateBreakpointsExceptAt(AddBreakpoint(s, ip, TRUE), ip')
               g  == Overlay(guest, w)
               h  == holes \cup NewHoles(st, w)
    <3>2. Kept(s, g, h) /\ Survive(st, s)
      BY <1>1, WriteKeeps, WriteSurvives
    <3> HIDE DEF s, g, h
    <3>3. Kept(AddBreakpoint(s, ip, TRUE), g, h)
      BY <1>1, <3>2, AddBreakpointKeeps
    <3>4. Kept(s1, g, h) /\ Survive(s, s1)
      BY <1>1, <3>2, <3>3, ActivateAllKeeps, AddAndArmSurvive
    <3>5. Become(s1)
      BY <3>1 DEF s
    <3> HIDE DEF s1
    <3>6. Survive(st, s1)
      BY <1>1, <3>2, <3>4, SurviveBoth DEF Kept
    <3>7. QED
      BY <3>5, <3>6, BecomeSurvives DEF Good
  <2>4. QED
    BY <2>1, <2>2, <2>3 DEF KeyNext
<1>7. QED
  BY <1>4, <1>5, <1>6 DEF Next, Good

\* Only the user's own commands and F9 delete a permanent breakpoint, for any
\* number of breakpoints: no hit, sweep or temporary breakpoint does.
THEOREM PermanentKept == Spec => PermanentSurvives
<1> DEFINE A == ~UserDeletes => \A a \in Addrs : Permanent(a) <= Permanent(a)'
<1>1. IInv /\ Next => A
  BY StepSurvives
<1>2. IInv /\ [Next]_vars => [A]_vars
  BY <1>1
<1>3. Spec => [][A]_vars
  BY <1>2, Invariance, PTL DEF Spec
<1>4. QED
  BY <1>3 DEF PermanentSurvives
=============================================================================
