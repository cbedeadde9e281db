----------------------------- MODULE MCSurfaces -----------------------------
(***************************************************************************)
(* The two ways a surface is shown and revised in one server: by the tools *)
(* of a reply, and by hai.update outside any turn. They meet only at the   *)
(* conversation's lease, which Turns has, so they are checked side by      *)
(* side: a behaviour is of one part, and the other stays as it began.      *)
(*                                                                         *)
(* A reply of two calls starts four renders and revisions between them:    *)
(* enough for two to wait on one claim, and for a later call to revise     *)
(* what an earlier one asked. hai.update is called three times, naming any *)
(* of a surface's three handles.                                           *)
(***************************************************************************)
EXTENDS Questions, UpdateQueue

VARIABLE part

SurfacesInit == Init /\ QueueInit /\ part \in {"reply", "updates"}

SurfacesNext ==
  \/ part = "reply" /\ Next /\ UNCHANGED <<part, queueVars>>
  \/ part = "updates" /\ QueueNext /\ UNCHANGED <<part, vars>>

\* Each part's own, in the behaviours that are of it.
SurfacesFairness ==
  /\ WF_vars(part = "reply" /\ CallStep)
  /\ \A i \in 1 .. MaxOps : WF_vars(part = "reply" /\ i \in Op /\ OpStep(i))
  /\ \A k \in Handles : WF_queueVars(part = "updates" /\ QueueStep(k))

SurfacesSpec ==
  SurfacesInit /\ [][SurfacesNext]_<<part, vars, queueVars>> /\ SurfacesFairness

\* The reply always ends: renders that wait on one another's claims do not wait
\* for ever, and the wait on everything a tool left under way ends. (runTool)
ReplyEndsHere == part = "reply" => ReplyEnds
=============================================================================
