-------------------------- MODULE SessionLifecycle --------------------------
(***************************************************************************)
(* What the manager promises of each session, without threads, store or    *)
(* clock: it opens, is bound once to one device key, is renewed by that    *)
(* key, and ends.  Every binding and every renewal uses up the current     *)
(* challenge, which has never been used before, and puts a new one in its  *)
(* place.                                                                  *)
(***************************************************************************)
CONSTANTS None, Ids, Jwks, Challenges

VARIABLES
  phase,      \* the stage of each session's life
  key,        \* the device key of a bound session
  current,    \* the challenge the next proof must sign
  spent       \* challenges used up

vars == <<phase, key, current, spent>>

Phases == {"unborn", "Active", "Bound", "ended"}

TypeOK ==
  /\ phase \in [Ids -> Phases]
  /\ key \in [Ids -> Jwks \cup {None}]
  /\ current \in [Ids -> Challenges \cup {None}]
  /\ spent \subseteq Challenges

Unused(c) == c \notin spent /\ \A id \in Ids : current[id] # c

Init ==
  /\ phase = [id \in Ids |-> "unborn"]
  /\ key = [id \in Ids |-> None]
  /\ current = [id \in Ids |-> None]
  /\ spent = {}

Open(id, c) ==
  /\ phase[id] = "unborn"
  /\ Unused(c)
  /\ phase' = [phase EXCEPT ![id] = "Active"]
  /\ current' = [current EXCEPT ![id] = c]
  /\ UNCHANGED <<key, spent>>

(* The current challenge makes way for c. *)
Advance(id, c) ==
  /\ current[id] \notin spent
  /\ Unused(c)
  /\ current' = [current EXCEPT ![id] = c]
  /\ spent' = spent \cup {current[id]}

Bind(id, k, c) ==
  /\ phase[id] = "Active"
  /\ phase' = [phase EXCEPT ![id] = "Bound"]
  /\ key' = [key EXCEPT ![id] = k]
  /\ Advance(id, c)

Renew(id, c) ==
  /\ phase[id] = "Bound"
  /\ Advance(id, c)
  /\ UNCHANGED <<phase, key>>

(* Sessions are closed, dropped, or expire; a last proof may still have    *)
(* been accepted for a session that expires before it takes effect.        *)
End(S) ==
  /\ \A id \in S : phase[id] # "ended"
  /\ phase' = [id \in Ids |-> IF id \in S THEN "ended" ELSE phase[id]]
  /\ key' = [id \in Ids |-> IF id \in S THEN None ELSE key[id]]
  /\ current' = [id \in Ids |-> IF id \in S THEN None ELSE current[id]]
  /\ \E used \in SUBSET ({current[id] : id \in S} \ {None}) :
       spent' = spent \cup used

Next ==
  \/ \E id \in Ids, c \in Challenges :
       Open(id, c) \/ Renew(id, c) \/ \E k \in Jwks : Bind(id, k, c)
  \/ \E S \in (SUBSET Ids) \ {{}} : End(S)

Spec == Init /\ [][Next]_vars

=============================================================================
