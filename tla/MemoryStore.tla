---------------------------- MODULE MemoryStore -----------------------------
(***************************************************************************)
(* MemoryStore of src/src/store.rs with its mutex: a thread locks the map, *)
(* works on it, reading the clock as it goes, and unlocks it on return.    *)
(* get_by_user_id goes through the values of the map in the order the map  *)
(* has them, which is any, and reads the clock for each session of the     *)
(* user.  A poisoned lock cannot occur: nothing panics while holding it.   *)
(***************************************************************************)
EXTENDS AtomicStore

VARIABLES
  lock,       \* the thread that holds the mutex, or None
  todo,       \* the sessions its filter has not come to yet
  found       \* those that passed

memoryVars == <<vars, lock, todo, found>>

MemoryInit ==
  /\ Init
  /\ lock = None
  /\ todo = {}
  /\ found = {}

(* self.sessions.lock() *)
Lock(t) ==
  /\ lock = None
  /\ request[t] # None
  /\ lock' = t
  /\ todo' = {id \in Ids : sessions[id] # None}
  /\ found' = {}
  /\ UNCHANGED vars

(* Mutant: delete_by_user_id spins for the lock it holds. *)
PerformSpins(t) ==
  /\ lock = t
  /\ IF request[t].op = "drop" THEN UNCHANGED vars ELSE TakeEffect(t)
  /\ UNCHANGED <<lock, todo, found>>

(* insert, get, remove, retain *)
Perform(t) ==
  /\ lock = t
  /\ TakeEffect(t)
  /\ UNCHANGED <<lock, todo, found>>

(* Mutant: the clock is not looked at. *)
PassesUnlessForeign(id, user) == sessions[id].user_id = user

(* The filter of get_by_user_id. *)
Passes(id, user) == sessions[id].user_id = user /\ ~is_expired(sessions[id], now)

Filter(t) ==
  /\ lock = t
  /\ answer[t] = None
  /\ request[t].op = "list"
  /\ \E id \in todo :
       /\ todo' = todo \ {id}
       /\ found' = IF Passes(id, request[t].user) THEN found \cup {id} ELSE found
  /\ UNCHANGED <<vars, lock>>

(* .cloned().collect() *)
Collect(t) ==
  /\ lock = t
  /\ answer[t] = None
  /\ request[t].op = "list"
  /\ todo = {}
  /\ answer' = [answer EXCEPT ![t] = Clones(found)]
  /\ UNCHANGED <<sessions, now, request, readings, lock, todo, found>>

(* The guard goes out of scope as the function returns. *)
Unlock(t) ==
  /\ lock = t
  /\ Return(t)
  /\ lock' = None
  /\ UNCHANGED <<todo, found>>

Outside == (Tick \/ \E t \in Threads : Call(t)) /\ UNCHANGED <<lock, todo, found>>

Inside(t) == Perform(t) \/ Filter(t) \/ Collect(t) \/ Unlock(t)

MemoryNext == Outside \/ \E t \in Threads : Lock(t) \/ Inside(t)

(***************************************************************************)
(* A thread inside the lock runs on, and a free lock goes to one of those  *)
(* that wait for it; to which, the mutex does not promise.                 *)
(***************************************************************************)
MemorySpec ==
  /\ MemoryInit /\ [][MemoryNext]_memoryVars
  /\ \A t \in Threads : WF_memoryVars(Inside(t))
  /\ WF_memoryVars(\E t \in Threads : Lock(t))

-----------------------------------------------------------------------------
(***************************************************************************)
(* Every operation is one step to its callers, as Manager assumes, and the *)
(* list of a user's sessions is exact but for those that were live and     *)
(* expired in turn during the call, although the filter reads anew for     *)
(* each of them a clock that may go on and back meanwhile.                 *)
(***************************************************************************)
ImplementsAtomicStore == Spec

(***************************************************************************)
(* The store does not hang: whenever some call waits, some call returns,   *)
(* however the waiting threads compete and however long the map is.        *)
(***************************************************************************)
Waiting == \E t \in Threads : request[t] # None

SomeCallReturns ==
  []<><<\E t \in Threads : Unlock(t)>>_memoryVars \/ []<>~Waiting

=============================================================================
