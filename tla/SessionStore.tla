---------------------------- MODULE SessionStore ----------------------------
(***************************************************************************)
(* The operations of the SessionStore trait as MemoryStore implements them *)
(* (src/src/store.rs).  The map is a function from every identifier to its *)
(* session or None.  Each operation runs under the one mutex of the map    *)
(* and so is a single step for the modules that use it; get reads the      *)
(* clock while it holds the lock.                                          *)
(***************************************************************************)
EXTENDS Session

Store == [Ids -> Option(Session)]

(* create and update are the same HashMap::insert. *)
create(store, id, s) == [store EXCEPT ![id] = s]

update(store, id, s) == [store EXCEPT ![id] = s]

(* Mutant: get hands out whatever is stored. *)
GetIgnoresExpiry(store, id, t) == store[id]

(* An expired session is hidden, not removed. *)
get(store, id, t) ==
  IF store[id] # None /\ ~is_expired(store[id], t) THEN store[id] ELSE None

delete(store, id) == [store EXCEPT ![id] = None]

(* The identifiers whose stored session belongs to a user, expired or not. *)
OwnedBy(store, user) == {id \in Ids : store[id] # None /\ store[id].user_id = user}

delete_by_user_id(store, user) ==
  [id \in Ids |-> IF id \in OwnedBy(store, user) THEN None ELSE store[id]]

=============================================================================
