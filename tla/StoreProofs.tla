---------------------------- MODULE StoreProofs -----------------------------
(***************************************************************************)
(* MemoryStore implements AtomicStore, for any number of threads, sessions *)
(* and users, whichever way the clock goes while the map is locked.        *)
(***************************************************************************)
EXTENDS MemoryStore, TLAPS

(***************************************************************************)
(* Whoever holds the lock has called, and while it filters for a list,     *)
(* what it found was live at some reading of the clock since it called,    *)
(* and what was live at all of them is found or still to come.  Another    *)
(* reading can break neither, whichever way the clock has gone: the first  *)
(* asks for one of more readings, the second for all of more.              *)
(***************************************************************************)
Listing(t) ==
  request[t].op = "list" =>
    /\ todo \subseteq {id \in Ids : sessions[id] # None}
    /\ found \subseteq Ids
    /\ \A id \in found : \E u \in readings[t] : id \in Live(request[t].user, u)
    /\ \A id \in Ids :
         (\A u \in readings[t] : id \in Live(request[t].user, u)) => id \in found \cup todo

(* The clock's present reading is among those of every call. *)
TypeOK ==
  /\ sessions \in Store
  /\ request \in [Threads -> Option(Requests)]
  /\ readings \in [Threads -> SUBSET Nat]
  /\ now \in Nat
  /\ \A t \in Threads : request[t] # None => now \in readings[t]

MemoryInv ==
  /\ TypeOK
  /\ lock # None => lock \in Threads /\ request[lock] # None /\ Listing(lock)

-----------------------------------------------------------------------------
(* Every operation leaves a map from identifiers to sessions. *)
LEMMA EffectIsStore ==
  ASSUME sessions \in Store, NEW r \in Requests, r.op # "list"
  PROVE  Effect(r) \in Store
<1>1. CASE r.op = "insert"
  <2>1. r.id \in Ids /\ r.session \in Stored
    BY <1>1 DEF Requests
  <2>2. r.session \in Option(Session)
    BY <2>1, StoreAssumption DEF Option
  <2> QED
    BY <1>1, <2>1, <2>2 DEF Effect, update, Store
<1>2. CASE r.op = "get"
  BY <1>2 DEF Effect
<1>3. CASE r.op = "delete"
  BY <1>3 DEF Effect, delete, Store, Option
<1>4. CASE r.op = "drop"
  BY <1>4 DEF Effect, delete_by_user_id, Store, Option
<1> QED
  BY <1>1, <1>2, <1>3, <1>4 DEF Requests

LEMMA InitHolds == MemoryInit => MemoryInv
BY DEF MemoryInit, Init, MemoryInv, TypeOK, Store, Option

-----------------------------------------------------------------------------
(* The clock moves, under whichever lock. *)
LEMMA TickKeeps ==
  ASSUME MemoryInv, Tick, UNCHANGED <<lock, todo, found>>
  PROVE  MemoryInv'
<1>1. now' \in Nat /\ \A t \in Threads : request[t] # None => readings'[t] = readings[t] \cup {now'}
  BY StoreAssumption DEF Tick
<1>2. TypeOK'
  BY <1>1, StoreAssumption DEF MemoryInv, TypeOK, Tick
<1>3. ASSUME lock # None
      PROVE  Listing(lock)'
  <2>1. Listing(lock) /\ lock \in Threads /\ readings[lock] \subseteq readings'[lock]
    BY <1>1, <1>3 DEF MemoryInv
  <2> QED
    BY <2>1 DEF Listing, Tick, Live, OwnedBy
<1> QED
  BY <1>2, <1>3 DEF MemoryInv, Tick

(* A call leaves the thread inside alone: it has called already. *)
LEMMA CallKeeps ==
  ASSUME MemoryInv, NEW t \in Threads, Call(t), UNCHANGED <<lock, todo, found>>
  PROVE  MemoryInv'
<1>1. PICK r \in Requests : request' = [request EXCEPT ![t] = r]
  BY DEF Call
<1>2. TypeOK'
  BY <1>1 DEF MemoryInv, TypeOK, Call, Option
<1>3. ASSUME lock # None
      PROVE  /\ lock' \in Threads
             /\ request'[lock'] = request[lock] /\ readings'[lock'] = readings[lock]
  <2>1. lock \in Threads /\ lock # t
    BY <1>3 DEF MemoryInv, Call
  <2> QED
    BY <1>1, <2>1 DEF MemoryInv, TypeOK, Call
<1>4. lock # None => Listing(lock)'
  BY <1>3 DEF MemoryInv, Call, Listing, Live, OwnedBy
<1> QED
  BY <1>2, <1>3, <1>4 DEF MemoryInv

LEMMA LockKeeps ==
  ASSUME MemoryInv, NEW t \in Threads, Lock(t)
  PROVE  MemoryInv'
<1>1. TypeOK'
  BY DEF MemoryInv, TypeOK, Lock, vars
<1>2. Listing(t)'
  <2>1. found' = {} /\ todo' = {id \in Ids : sessions[id] # None}
    BY DEF Lock
  <2>2. now \in readings[t] /\ Live(request[t].user, now) \subseteq todo'
    BY <2>1 DEF MemoryInv, TypeOK, Lock, Live, OwnedBy
  <2> QED
    BY <2>1, <2>2 DEF Lock, vars, Listing, Live, OwnedBy
<1> QED
  BY <1>1, <1>2 DEF MemoryInv, Lock, vars

LEMMA PerformKeeps ==
  ASSUME MemoryInv, NEW t \in Threads, Perform(t)
  PROVE  MemoryInv'
<1>1. request[t] \in Requests /\ request[t].op # "list"
  BY DEF MemoryInv, TypeOK, Perform, TakeEffect, Option
<1>2. sessions' \in Store
  BY <1>1, EffectIsStore DEF MemoryInv, TypeOK, Perform, TakeEffect
<1>3. lock = t /\ lock' = t /\ t # None
  BY ThreadsAssumption DEF Perform
<1>4. Listing(t)'
  BY <1>1 DEF Perform, TakeEffect, Listing
<1> QED
  BY <1>1, <1>2, <1>3, <1>4 DEF MemoryInv, TypeOK, Perform, TakeEffect

(* One session more is decided, by the clock as it stands. *)
LEMMA FilterKeeps ==
  ASSUME MemoryInv, NEW t \in Threads, Filter(t)
  PROVE  MemoryInv'
<1>1. PICK id \in todo :
        /\ todo' = todo \ {id}
        /\ found' = IF Passes(id, request[t].user) THEN found \cup {id} ELSE found
  BY DEF Filter
<1>2. Listing(t) /\ request[t].op = "list"
  BY ThreadsAssumption DEF MemoryInv, Filter
<1>3. id \in Ids /\ sessions[id] # None
  BY <1>2 DEF Listing
<1>4. Listing(t)'
  <2> DEFINE user == request[t].user
  <2>1. Passes(id, user) <=> id \in Live(user, now)
    BY <1>3 DEF Passes, Live, OwnedBy
  <2>2. now \in readings[t]
    BY ThreadsAssumption DEF MemoryInv, TypeOK, Filter
  <2>3. /\ found' \subseteq Ids
        /\ \A i \in found' : \E u \in readings[t] : i \in Live(user, u)
    BY <1>1, <1>2, <1>3, <2>1, <2>2 DEF Listing
  <2>4. \A i \in Ids : (\A u \in readings[t] : i \in Live(user, u)) => i \in found' \cup todo'
    BY <1>1, <1>2, <2>1, <2>2 DEF Listing
  <2>5. todo' \subseteq {i \in Ids : sessions[i] # None}
    BY <1>1, <1>2 DEF Listing
  <2> QED
    BY <2>3, <2>4, <2>5 DEF Listing, Live, OwnedBy, Filter, vars
<1> QED
  BY <1>4 DEF MemoryInv, TypeOK, Filter, vars

LEMMA CollectKeeps ==
  ASSUME MemoryInv, NEW t \in Threads, Collect(t)
  PROVE  MemoryInv'
BY DEF MemoryInv, TypeOK, Collect, Listing, Live, OwnedBy

LEMMA UnlockKeeps ==
  ASSUME MemoryInv, NEW t \in Threads, Unlock(t)
  PROVE  MemoryInv'
BY DEF MemoryInv, TypeOK, Unlock, Return, Option

LEMMA StepKeeps == MemoryInv /\ [MemoryNext]_memoryVars => MemoryInv'
<1> SUFFICES ASSUME MemoryInv, [MemoryNext]_memoryVars
             PROVE  MemoryInv'
  OBVIOUS
<1>1. CASE Outside
  BY <1>1, TickKeeps, CallKeeps DEF Outside
<1>2. CASE \E t \in Threads : Lock(t) \/ Inside(t)
  BY <1>2, LockKeeps, PerformKeeps, FilterKeeps, CollectKeeps, UnlockKeeps DEF Inside
<1>3. CASE UNCHANGED memoryVars
  BY <1>3 DEF MemoryInv, TypeOK, Listing, Live, OwnedBy, memoryVars, vars
<1> QED
  BY <1>1, <1>2, <1>3 DEF MemoryNext

-----------------------------------------------------------------------------
(* The end of the filter is where the list takes effect. *)
LEMMA CollectIsList ==
  ASSUME MemoryInv, NEW t \in Threads, Collect(t)
  PROVE  List(t)
<1>1. Listing(t) /\ request[t] # None /\ request[t].op = "list"
  BY ThreadsAssumption DEF MemoryInv, Collect
<1>2. found \in SUBSET Ids /\ Lists(request[t].user, readings[t], found)
  BY <1>1 DEF Listing, Lists, Collect
<1> QED
  BY <1>1, <1>2 DEF List, Collect

LEMMA StepImplements == MemoryInv /\ [MemoryNext]_memoryVars => [Next]_vars
<1> SUFFICES ASSUME MemoryInv, [MemoryNext]_memoryVars
             PROVE  [Next]_vars
  OBVIOUS
<1>1. CASE Outside
  BY <1>1 DEF Outside, Next
<1>2. ASSUME NEW t \in Threads, Lock(t) \/ Filter(t)
      PROVE  UNCHANGED vars
  BY <1>2 DEF Lock, Filter
<1>3. ASSUME NEW t \in Threads, Perform(t) \/ Collect(t) \/ Unlock(t)
      PROVE  Next
  BY <1>3, CollectIsList DEF Perform, Unlock, Next
<1>4. CASE UNCHANGED memoryVars
  BY <1>4 DEF memoryVars
<1> QED
  BY <1>1, <1>2, <1>3, <1>4 DEF MemoryNext, Inside

(***************************************************************************)
(* MemoryStore is AtomicStore with the lock and the filter hidden: what    *)
(* Manager is modelled upon holds for the code of store.rs with any number *)
(* of threads, and with a clock that goes on and back.                     *)
(***************************************************************************)
THEOREM StoreImplements == MemorySpec => ImplementsAtomicStore
<1>1. MemoryInit => Init
  BY DEF MemoryInit
<1> QED
  BY InitHolds, StepKeeps, StepImplements, <1>1, PTL
    DEF MemorySpec, ImplementsAtomicStore, Spec

=============================================================================
