---------------------------- MODULE MC_S1Scenes ----------------------------
(***************************************************************************)
(* S1Workflow where everything that began must end: two runs that compete  *)
(* for the slot, with a crash (scene "slot"), or one run with any of the   *)
(* faults (scene "faults").                                                *)
(***************************************************************************)
EXTENDS MC_S1Workflow

VARIABLE scene

\* Next has the faults of the scene "slot", its cfg's; this one has them all.
Broken == INSTANCE S1Workflow WITH
    Faults <- {"main", "docling", "api", "push", "handoff", "handback", "clear"},
    MaxFaults <- 3

SceneInit == Init /\ scene \in {"slot", "faults"}

InSlot(step) == scene = "slot" /\ step /\ UNCHANGED scene

\* The second run is not submitted.
Alone(step) == scene = "faults" /\ step /\ req'[r2] = "new" /\ UNCHANGED scene

SceneNext == InSlot(Next) \/ Alone(Broken!Next)

allVars == <<vars, scene>>

SceneSpec ==
    /\ SceneInit /\ [][SceneNext]_allVars
    /\ \A r \in Runs :
          /\ WF_allVars(InSlot(Request(r)) \/ Alone(Broken!Request(r)))
          /\ WF_allVars(InSlot(ExpireLeaked(r)) \/ Alone(Broken!ExpireLeaked(r)))
    /\ WF_allVars(InSlot(MainStep) \/ Alone(Broken!MainStep))
    /\ WF_allVars(InSlot(DoclingStep) \/ Alone(Broken!DoclingStep))
-----------------------------------------------------------------------------
\* LockHeld is claimed for crashes: a request that is told that its push failed
\* gives the lock back, although Redis may have taken the job.
LockKept == scene = "slot" => LockHeld
=============================================================================
