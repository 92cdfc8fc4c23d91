------------------------------ MODULE Manager -------------------------------
(***************************************************************************)
(* The protocol orchestration of src/src/manager.rs, called concurrently   *)
(* by the worker threads of an HTTP server over one shared store.          *)
(*                                                                         *)
(* A call is cut where it touches state that other threads touch:          *)
(*   entry   store.get under the lock, then every check on the session     *)
(*           and the proof, and the new field values, all on the clone;    *)
(*   ttl     apply_ttl reads the clock;                                    *)
(*   write   store.create / store.update inserts the clone;                *)
(*   reply   the ManagerResponse travels to the client, or is lost.        *)
(* Nothing orders the steps of different calls but the lock of the store.  *)
(***************************************************************************)
EXTENDS Handlers

CONSTANTS
  Workers,          \* threads that may be inside the manager at once
  Shapes,           \* proofs clients send, up to the challenge they sign
  MaxTime,          \* bound on the clock
  Overlap,          \* may two calls on one session overlap?
  StoreMayFail,     \* may a store operation return Err(Error::Store)?
  ClockStepsBack    \* may SystemTime::now go backwards?

ASSUME ManagerAssumption ==
  /\ Shapes \subseteq Token
  /\ MaxTime \in Nat
  /\ Overlap \in BOOLEAN /\ StoreMayFail \in BOOLEAN /\ ClockStepsBack \in BOOLEAN

VARIABLES
  sessions,   \* MemoryStore::sessions
  now,        \* the system clock, now_unix()
  minted,     \* identifiers Session::new has drawn
  owner,      \* for each challenge, the session it was generated for, or None
  revealed,   \* challenges that have reached a client in a response header
  accepted,   \* history: one record per proof whose effect reached the store
  call        \* what each worker is doing

vars == <<sessions, now, minted, owner, revealed, accepted, call>>

-----------------------------------------------------------------------------
(* Calls and their replies *)

Operations == {"initiate", "register", "refresh"}

(***************************************************************************)
(* A reply is the status code of the response and the challenge in its     *)
(* registration or challenge header.                                       *)
(***************************************************************************)
Call ==
  [ pc        : {"idle", "ttl", "write", "reply"},
    op        : Option(Operations),
    id        : Option(Ids),
    session   : Option(Session),
    proof     : Option(Token),
    status    : Statuses,
    challenge : Option(Challenges) ]

Idle == [pc |-> "idle", op |-> None, id |-> None, session |-> None,
         proof |-> None, status |-> Failed, challenge |-> None]

(* Worker w is inside a call, holding a clone of a session ... *)
Pending(w) == call[w].pc \in {"ttl", "write"}

(* ... of session id. *)
HeldBy(w, id) == Pending(w) /\ call[w].id = id

Held(id) == \E w \in Workers : HeldBy(w, id)

(* The cookie of a session and its first challenge arrive together. *)
Known(id) == \E c \in revealed : owner[c] = id

Fresh == {c \in Challenges : owner[c] = None}

Return(w, status, c) ==
  call' = [call EXCEPT ![w] =
             [pc |-> "reply", op |-> None, id |-> None, session |-> None,
              proof |-> None, status |-> status, challenge |-> c]]

(* The clone s goes on to apply_ttl. *)
Proceed(w, op, id, s, proof) ==
  call' = [call EXCEPT ![w] =
             [pc |-> "ttl", op |-> op, id |-> id, session |-> s,
              proof |-> proof, status |-> Failed, challenge |-> None]]

(***************************************************************************)
(* The proof a request carries: None stands for a missing header and for   *)
(* one parse_session_response refuses.  A client can only have signed a    *)
(* challenge that reached it.                                              *)
(***************************************************************************)
Headers ==
  {None} \cup {[sh EXCEPT !.jti = c] : sh \in Shapes, c \in Option(revealed)}

(* A request arrives on an idle worker: its identifier is one the client   *)
(* got in a cookie, or one the server never drew.                          *)
Arrives(w, id) ==
  /\ call[w].pc = "idle"
  /\ id \in minted => Known(id)
  /\ Overlap \/ ~Held(id)

-----------------------------------------------------------------------------
(* The handlers, up to the clock read of apply_ttl *)

(* Mutant: a client that already has a session keeps its identifier. *)
InitiateKeepsId(w, user) ==
  /\ call[w].pc = "idle"
  /\ \E id \in Ids, c \in Fresh :
       /\ (id \in minted => Known(id)) /\ ~Held(id)
       /\ Proceed(w, "initiate", id, Rotate(NewSession(user, now), c), None)
       /\ minted' = minted \cup {id}
       /\ owner' = [owner EXCEPT ![c] = id]
  /\ UNCHANGED <<sessions, now, revealed, accepted>>

Initiate(w, user) ==
  /\ call[w].pc = "idle"
  /\ \E id \in Ids \ minted, c \in Fresh :
       /\ Proceed(w, "initiate", id, Rotate(NewSession(user, now), c), None)
       /\ minted' = minted \cup {id}
       /\ owner' = [owner EXCEPT ![c] = id]
  /\ UNCHANGED <<sessions, now, revealed, accepted>>

(***************************************************************************)
(* register and refresh either answer, and change nothing, or rotate the   *)
(* challenge of the clone and go on.                                       *)
(***************************************************************************)
Refuse(w, status, s) ==
  /\ status # 200
  /\ Return(w, status, RetryWith(status, s))
  /\ UNCHANGED owner

Register(w, id, proof) ==
  /\ Arrives(w, id)
  /\ LET s      == get(sessions, id, now)
         status == RegisterStatus(s, proof)
     IN  \/ Refuse(w, status, s)
         \/ /\ status = 200
            /\ \E c \in Fresh :
                 /\ Proceed(w, "register", id, Bind(s, proof, c), proof)
                 /\ owner' = [owner EXCEPT ![c] = id]
  /\ UNCHANGED <<sessions, now, minted, revealed, accepted>>

Refresh(w, id, proof) ==
  /\ Arrives(w, id)
  /\ LET s      == get(sessions, id, now)
         status == RefreshStatus(s, proof)
     IN  \/ Refuse(w, status, s)
         \/ /\ status = 200
            /\ \E c \in Fresh :
                 /\ Proceed(w, "refresh", id, Rotate(s, c), proof)
                 /\ owner' = [owner EXCEPT ![c] = id]
  /\ UNCHANGED <<sessions, now, minted, revealed, accepted>>

(* store.get fails and `?` returns its error. *)
GetFails(w, id) ==
  /\ StoreMayFail
  /\ Arrives(w, id)
  /\ Return(w, Failed, None)
  /\ UNCHANGED <<sessions, now, minted, owner, revealed, accepted>>

Close(w, id) ==
  /\ Arrives(w, id)
  /\ sessions' = delete(sessions, id)
  /\ Return(w, 200, None)
  /\ UNCHANGED <<now, minted, owner, revealed, accepted>>

(* store.delete returns an error, with or without having deleted. *)
CloseFails(w, id) ==
  /\ StoreMayFail
  /\ Arrives(w, id)
  /\ sessions' \in {sessions, delete(sessions, id)}
  /\ Return(w, Failed, None)
  /\ UNCHANGED <<now, minted, owner, revealed, accepted>>

-----------------------------------------------------------------------------
(* The handlers, from apply_ttl on *)

ApplyTtl(w) ==
  /\ call[w].pc = "ttl"
  /\ ~(OverflowChecks /\ TtlOverflows(now))
  /\ call' = [call EXCEPT ![w].pc = "write",
                          ![w].session = apply_ttl(@, now)]
  /\ UNCHANGED <<sessions, now, minted, owner, revealed, accepted>>

(* A debug build panics; the panic unwinds out of the manager. *)
ApplyTtlPanics(w) ==
  /\ call[w].pc = "ttl"
  /\ OverflowChecks /\ TtlOverflows(now)
  /\ Return(w, Failed, None)
  /\ UNCHANGED <<sessions, now, minted, owner, revealed, accepted>>

(* The store with the clone of worker w inserted. *)
Written(w) ==
  IF call[w].op = "initiate"
  THEN create(sessions, call[w].id, call[w].session)
  ELSE update(sessions, call[w].id, call[w].session)

(* What the write of worker w accepted: which proof, for which session,    *)
(* and the challenge that took the place of the one it spent.              *)
Acceptance(w) ==
  IF call[w].op = "initiate" THEN {}
  ELSE {[op |-> call[w].op, id |-> call[w].id, proof |-> call[w].proof,
         next |-> call[w].session.challenge]}

Write(w) ==
  /\ call[w].pc = "write"
  /\ sessions' = Written(w)
  /\ accepted' = accepted \cup Acceptance(w)
  /\ Return(w, 200, call[w].session.challenge)
  /\ UNCHANGED <<now, minted, owner, revealed>>

(* The store reports an error although it may have performed the write. *)
WriteFails(w) ==
  /\ StoreMayFail
  /\ call[w].pc = "write"
  /\ \/ UNCHANGED <<sessions, accepted>>
     \/ /\ sessions' = Written(w)
        /\ accepted' = accepted \cup Acceptance(w)
  /\ Return(w, Failed, None)
  /\ UNCHANGED <<now, minted, owner, revealed>>

-----------------------------------------------------------------------------
(* The surroundings of the manager *)

(* The reply reaches the client, which reads the challenge in it ... *)
Deliver(w) ==
  /\ call[w].pc = "reply"
  /\ revealed' = revealed \cup ({call[w].challenge} \ {None})
  /\ call' = [call EXCEPT ![w] = Idle]
  /\ UNCHANGED <<sessions, now, minted, owner, accepted>>

(* ... or the connection breaks first. *)
Lose(w) ==
  /\ call[w].pc = "reply"
  /\ call' = [call EXCEPT ![w] = Idle]
  /\ UNCHANGED <<sessions, now, minted, owner, revealed, accepted>>

(* The application drops all sessions of a user, past the manager. *)
DropUser(user) ==
  /\ Overlap \/ \A id \in OwnedBy(sessions, user) : ~Held(id)
  /\ sessions' = delete_by_user_id(sessions, user)
  /\ UNCHANGED <<now, minted, owner, revealed, accepted, call>>

Tick ==
  /\ now' \in 0 .. MaxTime
  /\ ClockStepsBack \/ now < now'
  /\ UNCHANGED <<sessions, minted, owner, revealed, accepted, call>>

-----------------------------------------------------------------------------
Init ==
  /\ sessions = [id \in Ids |-> None]
  /\ now = 0
  /\ minted = {}
  /\ owner = [c \in Challenges |-> None]
  /\ revealed = {}
  /\ accepted = {}
  /\ call = [w \in Workers |-> Idle]

Step(w) ==
  \/ \E user \in Users : Initiate(w, user)
  \/ \E id \in Ids, proof \in Headers : Register(w, id, proof) \/ Refresh(w, id, proof)
  \/ \E id \in Ids : GetFails(w, id) \/ Close(w, id) \/ CloseFails(w, id)
  \/ ApplyTtl(w)
  \/ ApplyTtlPanics(w)
  \/ Write(w)
  \/ WriteFails(w)
  \/ Deliver(w)
  \/ Lose(w)

Next ==
  \/ \E w \in Workers : Step(w)
  \/ \E user \in Users : DropUser(user)
  \/ Tick

Spec == Init /\ [][Next]_vars

-----------------------------------------------------------------------------
(* Correctness *)

Acceptances ==
  [ op : {"register", "refresh"}, id : Ids, proof : Token, next : Challenges ]

(* A call on the way to its write has all it needs. *)
CallsOK ==
  /\ call \in [Workers -> Call]
  /\ \A w \in Workers :
       Pending(w) =>
         /\ call[w].op \in Operations
         /\ call[w].id \in Ids
         /\ call[w].session \in Session
         /\ call[w].session.challenge \in Challenges
         /\ call[w].op # "initiate" => call[w].proof \in Token

(* What the variables hold. *)
TypeOK ==
  /\ sessions \in Store
  /\ now \in 0 .. MaxTime
  /\ minted \subseteq Ids
  /\ owner \in [Challenges -> Option(Ids)]
  /\ revealed \subseteq Challenges
  /\ accepted \subseteq Acceptances
  /\ CallsOK

(* The challenges some accepted proof has signed. *)
Spent == {a.proof.jti : a \in accepted}

(***************************************************************************)
(* Once a proof over a challenge has taken effect, that challenge is never *)
(* current again in any session: whatever stale clones concurrent calls    *)
(* write back, the `generate_challenge` before each update keeps a used    *)
(* proof from being accepted by a call that starts later.                  *)
(***************************************************************************)
StoredChallengeUnspent ==
  \A id \in Ids : sessions[id] # None => sessions[id].challenge \notin Spent

(***************************************************************************)
(* A proof takes effect only on the session whose challenge it signs: the  *)
(* comparison with session.challenge, made on a clone that may be stale,   *)
(* never lets a proof for one session register or refresh another.         *)
(***************************************************************************)
ProofsStayInTheirSession ==
  \A a \in accepted : owner[a.proof.jti] = a.id

(***************************************************************************)
(* Whoever keeps a session alive holds a key that was registered for it:   *)
(* the stored key of a bound session signed an accepted registration of    *)
(* that session, and so did the signer of every accepted refresh.          *)
(***************************************************************************)
Registered(id, k) ==
  \E a \in accepted : a.op = "register" /\ a.id = id /\ a.proof.signer = k

KeysAreProved ==
  /\ \A id \in Ids :
       sessions[id] # None /\ sessions[id].public_key # None
         => Registered(id, sessions[id].public_key)
  /\ \A a \in accepted : a.op = "refresh" => Registered(a.id, a.proof.signer)

(***************************************************************************)
(* Binding is never undone: once a registration has taken effect no stale  *)
(* clone of a call that was under way turns the session Active again, so   *)
(* no later register can put another key in its place.                     *)
(***************************************************************************)
NeverUnbound ==
  \A a \in accepted : sessions[a.id] # None => sessions[a.id].state = "Bound"

(***************************************************************************)
(* A session is over when the store no longer hands it out and no call     *)
(* holds a clone of it.                                                    *)
(***************************************************************************)
Gone(id) == sessions[id] = None \/ is_expired(sessions[id], now)

Dead(id) == id \in minted /\ Gone(id) /\ ~Held(id)

(***************************************************************************)
(* A session that is over stays over: although update inserts whatever it  *)
(* is given, only a call that obtained the session while it was live can   *)
(* bring it back, and get hands out no expired session to start one.       *)
(* The clock must not step back.                                           *)
(***************************************************************************)
DeadStaysDead == [][\A id \in Ids : Dead(id) => Dead(id)']_vars

(***************************************************************************)
(* The stored expiry is the configured TTL after some instant between the  *)
(* creation of the session and now: no session outlives its last accepted  *)
(* proof by more than the TTL, and none is cut shorter than the TTL        *)
(* ("Backend session TTL in seconds", manager.rs).                         *)
(***************************************************************************)
ExpiryHonoursTtl ==
  \A id \in Ids :
    sessions[id] # None /\ Ttl # None =>
      /\ sessions[id].created_at + Ttl <= sessions[id].expires_at
      /\ sessions[id].expires_at <= now + Ttl

(***************************************************************************)
(* A challenge is good for one proof: no two updates have accepted proofs  *)
(* over the same challenge.  Only for calls that do not overlap.           *)
(***************************************************************************)
SingleUse ==
  \A a, b \in accepted : a.proof.jti = b.proof.jti => a = b

(***************************************************************************)
(* "The key is pinned to the registered value" (jwt.rs): while a bound     *)
(* session is stored its public key does not change.                       *)
(***************************************************************************)
PinnedKey ==
  [][\A id \in Ids :
       /\ sessions[id] # None /\ sessions'[id] # None
       /\ sessions[id].state = "Bound"
       => sessions'[id].public_key = sessions[id].public_key]_vars

(***************************************************************************)
(* "Replace an existing session" (SessionStore::update): no call puts a    *)
(* session that clients know of back into the store after its removal.     *)
(***************************************************************************)
RemovedStaysRemoved ==
  [][\A id \in Ids :
       Known(id) /\ sessions[id] = None => sessions'[id] = None]_vars

(***************************************************************************)
(* Keys are lost in one way only: a bound session without a key, which     *)
(* refresh reports as an error of the store, was bound by a registration   *)
(* with alg none, and neither a signed registration nor a refresh that     *)
(* overlaps with one, or fails half-way, leaves such a session behind.     *)
(***************************************************************************)
KeylessIsUnsigned ==
  \A id \in Ids :
    /\ sessions[id] # None
    /\ sessions[id].state = "Bound" /\ sessions[id].public_key = None
    => \E a \in accepted : a.op = "register" /\ a.id = id /\ a.proof.alg = "none"

(***************************************************************************)
(* "Bound to a device public key after successful registration"            *)
(* (SessionState::Bound), which refresh counts on when it reports a bound  *)
(* session without public key as an error of the store.                    *)
(***************************************************************************)
BoundHasKey ==
  \A id \in Ids :
    sessions[id] # None /\ sessions[id].state = "Bound"
      => sessions[id].public_key # None

=============================================================================
