------------------------- MODULE ManagerRefinement --------------------------
(***************************************************************************)
(* The manager implements SessionLifecycle, as long as calls on the same   *)
(* session do not overlap, the clock does not step back and registrations  *)
(* are signed.                                                             *)
(***************************************************************************)
EXTENDS Manager

(* The session is being created by an initiate that has not written yet. *)
Opening(id) == \E w \in Workers : HeldBy(w, id) /\ call[w].op = "initiate"

Phase(id) ==
  IF id \notin minted \/ Opening(id) THEN "unborn"
  ELSE IF Dead(id) THEN "ended"
  ELSE sessions[id].state

(* A field of the stored session, while it is alive. *)
Alive(id) == Phase(id) \in SessionState

Key(id) == IF Alive(id) THEN sessions[id].public_key ELSE None

Current(id) == IF Alive(id) THEN sessions[id].challenge ELSE None

Lifecycle == INSTANCE SessionLifecycle WITH
  phase   <- [id \in Ids |-> Phase(id)],
  key     <- [id \in Ids |-> Key(id)],
  current <- [id \in Ids |-> Current(id)],
  spent   <- Spent

(***************************************************************************)
(* Every step of the manager is an opening, a binding, a renewal or an end *)
(* of sessions, or leaves all of them as they are: for calls that do not   *)
(* overlap the clone-and-write-back of the store is invisible.             *)
(***************************************************************************)
ImplementsLifecycle == Lifecycle!Spec

=============================================================================
