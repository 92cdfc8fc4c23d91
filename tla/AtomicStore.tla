---------------------------- MODULE AtomicStore -----------------------------
(***************************************************************************)
(* What MemoryStore promises its callers: each operation takes effect in   *)
(* one step between its call and its return.  Only the list of a user's    *)
(* sessions is less than a snapshot in time: sessions that are live at     *)
(* some readings of the clock while it is made and expired at others may   *)
(* be in it or not.                                                        *)
(***************************************************************************)
EXTENDS SessionStore

CONSTANTS
  Threads,          \* callers
  Stored,           \* the sessions they store
  MaxTime           \* bound on the clock

ASSUME StoreAssumption == Stored \subseteq Session /\ MaxTime \in Nat

(* None is no thread: it stands for the lock that nobody holds. *)
ASSUME ThreadsAssumption == None \notin Threads

VARIABLES
  sessions,   \* the map
  now,        \* the clock
  request,    \* what each thread has called, None if nothing
  readings,   \* what the clock has been since it did, {} if nothing
  answer      \* what the call is about to return, None before it took effect

vars == <<sessions, now, request, readings, answer>>

(* create and update insert; the answer to all but the queries is {}. *)
Requests ==
  [op : {"insert"}, id : Ids, session : Stored]
    \cup [op : {"get", "delete"}, id : Ids]
    \cup [op : {"list", "drop"}, user : Users]

(* Sessions are cloned out of the map. *)
Clones(S) == {[id |-> id, session |-> sessions[id]] : id \in S}

Live(user, t) == {id \in OwnedBy(sessions, user) : ~is_expired(sessions[id], t)}

Call(t) ==
  /\ request[t] = None
  /\ request' \in {[request EXCEPT ![t] = r] : r \in Requests}
  /\ readings' = [readings EXCEPT ![t] = {now}]
  /\ UNCHANGED <<sessions, now, answer>>

(* What a call of anything but list does to the map, and returns. *)
Effect(r) ==
  CASE r.op = "insert" -> update(sessions, r.id, r.session)
    [] r.op = "get"    -> sessions
    [] r.op = "delete" -> delete(sessions, r.id)
    [] r.op = "drop"   -> delete_by_user_id(sessions, r.user)

Returns(r) ==
  IF r.op = "get" /\ get(sessions, r.id, now) # None THEN Clones({r.id}) ELSE {}

TakeEffect(t) ==
  /\ request[t] # None /\ answer[t] = None
  /\ request[t].op # "list"
  /\ sessions' = Effect(request[t])
  /\ answer' = [answer EXCEPT ![t] = Returns(request[t])]
  /\ UNCHANGED <<now, request, readings>>

(* What was live at some reading of the clock may be in the list, and what *)
(* was live at all of them is.                                             *)
Lists(user, times, S) ==
  /\ \A id \in S : \E u \in times : id \in Live(user, u)
  /\ \A id \in Ids : (\A u \in times : id \in Live(user, u)) => id \in S

(* get_by_user_id *)
List(t) ==
  /\ request[t] # None /\ answer[t] = None
  /\ request[t].op = "list"
  /\ \E S \in SUBSET Ids :
       /\ Lists(request[t].user, readings[t], S)
       /\ answer' = [answer EXCEPT ![t] = Clones(S)]
  /\ UNCHANGED <<sessions, now, request, readings>>

Return(t) ==
  /\ answer[t] # None
  /\ request' = [request EXCEPT ![t] = None]
  /\ answer' = [answer EXCEPT ![t] = None]
  /\ readings' = [readings EXCEPT ![t] = {}]
  /\ UNCHANGED <<sessions, now>>

(* SystemTime may go back as well as on. *)
Tick ==
  /\ now' \in 0 .. MaxTime
  /\ readings' = [t \in Threads |->
                    IF request[t] = None THEN {} ELSE readings[t] \cup {now'}]
  /\ UNCHANGED <<sessions, request, answer>>

Init ==
  /\ sessions = [id \in Ids |-> None]
  /\ now = 0
  /\ request = [t \in Threads |-> None]
  /\ readings = [t \in Threads |-> {}]
  /\ answer = [t \in Threads |-> None]

Next == Tick \/ \E t \in Threads : Call(t) \/ TakeEffect(t) \/ List(t) \/ Return(t)

Spec == Init /\ [][Next]_vars

=============================================================================
