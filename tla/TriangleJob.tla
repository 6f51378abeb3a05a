---------------------------- MODULE TriangleJob ----------------------------
(***************************************************************************)
(* What triangle() in src/src/hardware/video/voodoo.cpp relies on when it  *)
(* calls triangle_worker_run: every unit of work of the triangle is drawn  *)
(* once, by whomever, and all are drawn when the call returns.             *)
(***************************************************************************)
CONSTANT Units

VARIABLES
  phase,  \* "ready", "drawing" or "off"
  times   \* times[u]: how often u was drawn for the present triangle

jvars == <<phase, times>>

AllAt(n) == [u \in Units |-> n]

JInit == phase = "ready" /\ times = AllAt(0)

Begin == phase = "ready" /\ phase' = "drawing" /\ times' = AllAt(0)

Draw(u) ==
  /\ phase = "drawing" /\ times[u] = 0
  /\ times' = [times EXCEPT ![u] = 1]
  /\ UNCHANGED phase

DrawAll ==
  /\ phase = "drawing" /\ times = AllAt(0)
  /\ times' = AllAt(1) /\ phase' = "ready"

End ==
  /\ phase = "drawing" /\ times = AllAt(1)
  /\ phase' = "ready" /\ UNCHANGED times

Close == phase = "ready" /\ phase' = "off" /\ times' = AllAt(0)

Open == phase = "off" /\ phase' = "ready" /\ UNCHANGED times

JNext == Begin \/ DrawAll \/ End \/ Close \/ Open \/ \E u \in Units : Draw(u)

JSafe == JInit /\ [][JNext]_jvars
============================================================================
