------------------------ MODULE ManagerSerialProofs -------------------------
(***************************************************************************)
(* Single use of challenges and pinned keys, for any number of workers,    *)
(* sessions and keys, where the calls on one session do not overlap.       *)
(***************************************************************************)
EXTENDS ManagerProofs

(* No two calls hold the same session. *)
Alone ==
  \A v, w \in Workers :
    Pending(v) /\ Pending(w) /\ call[v].id = call[w].id => v = w

(* So what a call has checked is still true of the stored session.         *)
SignsCurrent ==
  \A w \in Workers : Pending(w) /\ call[w].op # "initiate" =>
    /\ sessions[call[w].id] # None
    /\ sessions[call[w].id].challenge = call[w].proof.jti
    /\ call[w].op = "register" => sessions[call[w].id].state = "Active"
    /\ call[w].op = "refresh" =>
         sessions[call[w].id].public_key = call[w].session.public_key

SerialInv == Alone /\ SignsCurrent /\ SingleUse

-----------------------------------------------------------------------------
(* Steps that start no call, write nothing and spare the sessions held. *)
LEMMA SparingStep ==
  ASSUME TypeOK, SerialInv, accepted' = accepted,
         \A v \in Workers : Pending(v)' =>
           /\ Pending(v)
           /\ call'[v].op = call[v].op /\ call'[v].id = call[v].id
           /\ call'[v].proof = call[v].proof
           /\ call'[v].session.public_key = call[v].session.public_key
           /\ sessions'[call[v].id] = sessions[call[v].id]
  PROVE  SerialInv'
<1>1. Alone'
  BY DEF SerialInv, Alone
<1>2. SignsCurrent'
  BY DEF SerialInv, SignsCurrent
<1>3. SingleUse'
  BY DEF SerialInv, SingleUse
<1> QED
  BY <1>1, <1>2, <1>3 DEF SerialInv

(* A call starts on a session that no other call holds. *)
LEMMA StartSerial ==
  ASSUME TypeOK, SerialInv, NEW w \in Workers, NEW op, NEW id, NEW s, NEW p,
         ~Pending(w), ~Held(id), Proceed(w, op, id, s, p),
         UNCHANGED <<sessions, accepted>>,
         op # "initiate" => sessions[id] # None /\ sessions[id].challenge = p.jti,
         op = "register" => sessions[id].state = "Active",
         op = "refresh" => sessions[id].public_key = s.public_key
  PROVE  SerialInv'
<1>1. /\ call'[w].op = op /\ call'[w].id = id /\ call'[w].proof = p
      /\ call'[w].session = s
      /\ \A v \in Workers : v # w => call'[v] = call[v]
  BY DEF Proceed, TypeOK, CallsOK
<1>2. \A v \in Workers : v # w => /\ Pending(v)' = Pending(v)
                                  /\ Pending(v) => call[v].id # id
  BY <1>1 DEF Pending, Held, HeldBy
<1>3. Alone'
  BY <1>1, <1>2 DEF SerialInv, Alone
<1>4. SignsCurrent'
  BY <1>1, <1>2 DEF SerialInv, SignsCurrent
<1>5. SingleUse'
  BY DEF SerialInv, SingleUse
<1> QED
  BY <1>3, <1>4, <1>5 DEF SerialInv

(* The write spends the challenge that is current until then. *)
LEMMA WriteSerial ==
  ASSUME TypeOK, IInv, SerialInv, NEW w \in Workers, call[w].pc = "write",
         ~Pending(w)', \A v \in Workers : v # w => call'[v] = call[v],
         sessions' = Written(w), accepted' = accepted \cup Acceptance(w)
  PROVE  SerialInv'
<1>1. Pending(w) /\ call[w].id \in Ids
  BY DEF Pending, TypeOK, CallsOK
<1>2. \A v \in Workers : Pending(v)' => /\ Pending(v) /\ call'[v] = call[v]
                                        /\ call[v].id # call[w].id /\ call[v].id \in Ids
  BY <1>1 DEF SerialInv, Alone, Pending, TypeOK, CallsOK
<1>3. \A id \in Ids : id # call[w].id => sessions'[id] = sessions[id]
  BY WriteType DEF TypeOK, Store
<1>4. Alone'
  BY <1>2 DEF SerialInv, Alone
<1>5. SignsCurrent'
  BY <1>2, <1>3 DEF SerialInv, SignsCurrent
<1>6. SingleUse'
  <2>1. \A a \in Acceptance(w), b \in accepted : a.proof.jti # b.proof.jti
    <3>1. ASSUME call[w].op # "initiate"
          PROVE  call[w].proof.jti \notin Spent
      BY <1>1, <3>1 DEF SerialInv, SignsCurrent, IInv, StoredChallengeUnspent
    <3> QED
      BY <3>1 DEF Acceptance, Spent
  <2>2. \A a, b \in Acceptance(w) : a = b
    BY DEF Acceptance
  <2> QED
    BY <2>1, <2>2 DEF SerialInv, SingleUse
<1> QED
  BY <1>4, <1>5, <1>6 DEF SerialInv

-----------------------------------------------------------------------------
(* An answer releases its worker; other workers keep what they hold. *)
LEMMA AnswerSerial ==
  ASSUME TypeOK, SerialInv, NEW w \in Workers, NEW id \in Ids, Answers(w, id),
         UNCHANGED <<sessions, accepted>>
  PROVE  SerialInv'
<1>1. \A v \in Workers : Pending(v)' => Pending(v) /\ call'[v] = call[v]
  BY ReturnCalls DEF Answers, TypeOK, Pending
<1> QED
  BY <1>1, SparingStep

LEMMA SerialStep ==
  ASSUME ~Overlap, TypeOK, IInv, SerialInv, [Next]_vars
  PROVE  SerialInv'
<1>1. ASSUME NEW w \in Workers, NEW user \in Users, Initiate(w, user)
      PROVE  SerialInv'
  <2>1. PICK id \in Ids \ minted, c \in Fresh :
          Proceed(w, "initiate", id, Rotate(NewSession(user, now), c), None)
    BY <1>1 DEF Initiate
  <2>2. ~Pending(w) /\ ~Held(id)
    BY <1>1, <2>1 DEF Initiate, Pending, Held, HeldBy, IInv, PendingChallengeSecret
  <2> QED
    BY <1>1, <2>1, <2>2, StartSerial DEF Initiate
<1>2. ASSUME NEW w \in Workers, NEW id \in Ids, NEW proof \in Headers,
             Register(w, id, proof)
      PROVE  SerialInv'
  <2>1. UNCHANGED <<sessions, accepted>> /\ ~Pending(w) /\ ~Held(id)
    BY <1>2 DEF Register, Arrives, Pending
  <2>2. ASSUME NEW c \in Fresh, RegisterAccepts(w, id, proof, c)
        PROVE  SerialInv'
    <3>1. /\ sessions[id] # None /\ sessions[id].challenge = proof.jti
          /\ sessions[id].state = "Active"
      BY <2>2, NoSessionAssumption DEF RegisterAccepts, ChallengeMatches
    <3> QED
      BY <2>1, <2>2, <3>1, StartSerial DEF RegisterAccepts
  <2> QED
    BY <1>2, <2>1, <2>2, AnswerSerial, RegisterCases
<1>3. ASSUME NEW w \in Workers, NEW id \in Ids, NEW proof \in Headers,
             Refresh(w, id, proof)
      PROVE  SerialInv'
  <2>1. UNCHANGED <<sessions, accepted>> /\ ~Pending(w) /\ ~Held(id)
    BY <1>3 DEF Refresh, Arrives, Pending
  <2>2. ASSUME NEW c \in Fresh, RefreshAccepts(w, id, proof, c)
        PROVE  SerialInv'
    <3>1. /\ sessions[id] # None /\ sessions[id].challenge = proof.jti
          /\ sessions[id].public_key = Rotate(sessions[id], c).public_key
      BY <2>2, NoSessionAssumption, RotateType DEF RefreshAccepts, ChallengeMatches, Fresh
    <3> QED
      BY <2>1, <2>2, <3>1, StartSerial DEF RefreshAccepts
  <2> QED
    BY <1>3, <2>1, <2>2, AnswerSerial, RefreshCases
<1>4. ASSUME NEW w \in Workers, NEW id \in Ids,
             GetFails(w, id) \/ Close(w, id) \/ CloseFails(w, id)
      PROVE  SerialInv'
  <2>1. /\ \A v \in Workers : Pending(v)' => Pending(v) /\ call'[v] = call[v]
        /\ ~Held(id)
    BY <1>4, ReturnCalls DEF GetFails, Close, CloseFails, Arrives, TypeOK, Pending, Option
  <2>2. \A v \in Workers : Pending(v) => call[v].id \in Ids /\ call[v].id # id
    BY <2>1 DEF Held, HeldBy, TypeOK, CallsOK
  <2>3. \A i \in Ids : i # id => sessions'[i] = sessions[i]
    BY <1>4 DEF GetFails, Close, CloseFails, delete, TypeOK, Store
  <2> QED
    BY <1>4, <2>1, <2>2, <2>3, SparingStep DEF GetFails, Close, CloseFails
<1>5. ASSUME NEW w \in Workers, ApplyTtl(w)
      PROVE  SerialInv'
  BY <1>5, TtlCalls, SparingStep DEF ApplyTtl, TypeOK, Pending
<1>6. ASSUME NEW w \in Workers, ApplyTtlPanics(w) \/ Deliver(w) \/ Lose(w)
      PROVE  SerialInv'
  <2>1. \A v \in Workers : Pending(v)' => Pending(v) /\ call'[v] = call[v]
    BY <1>6, ReturnCalls, IdleCalls
       DEF ApplyTtlPanics, Deliver, Lose, TypeOK, Pending, Option
  <2> QED
    BY <1>6, <2>1, SparingStep DEF ApplyTtlPanics, Deliver, Lose
<1>7. ASSUME NEW w \in Workers, Write(w) \/ WriteFails(w)
      PROVE  SerialInv'
  <2>1. call[w].pc = "write" /\ call[w].session.challenge \in Option(Challenges)
    BY <1>7 DEF Write, WriteFails, Pending, TypeOK, CallsOK, Option
  <2>2. ~Pending(w)' /\ \A v \in Workers : v # w => call'[v] = call[v]
    BY <1>7, <2>1, ReturnCalls DEF Write, WriteFails, TypeOK, Option
  <2>3. CASE UNCHANGED <<sessions, accepted>>
    BY <2>2, <2>3, SparingStep DEF Pending
  <2>4. CASE sessions' = Written(w) /\ accepted' = accepted \cup Acceptance(w)
    BY <2>1, <2>2, <2>4, WriteSerial
  <2> QED
    BY <1>7, <2>3, <2>4 DEF Write, WriteFails
<1>8. ASSUME NEW user \in Users, DropUser(user)
      PROVE  SerialInv'
  <2>1. \A v \in Workers : Pending(v) =>
          call[v].id \in Ids /\ call[v].id \notin OwnedBy(sessions, user)
    BY <1>8 DEF DropUser, Held, HeldBy, TypeOK, CallsOK
  <2>2. \A v \in Workers : Pending(v)' = Pending(v)
    BY <1>8 DEF DropUser, Pending
  <2> QED
    BY <1>8, <2>1, <2>2, SparingStep DEF DropUser, delete_by_user_id
<1>9. CASE Tick \/ UNCHANGED vars
  BY <1>9, SparingStep DEF Tick, vars, Pending
<1> QED
  BY <1>1, <1>2, <1>3, <1>4, <1>5, <1>6, <1>7, <1>8, <1>9 DEF Next, Step

LEMMA SerialHolds ==
  ASSUME ~Overlap
  PROVE  Spec => []SerialInv
<1>1. Init => SerialInv
  BY DEF Init, SerialInv, Alone, SignsCurrent, SingleUse, Pending, Idle
<1>2. TypeOK /\ IInv /\ SerialInv /\ [Next]_vars => SerialInv'
  BY SerialStep
<1> QED
  BY <1>1, <1>2, TypeCorrect, InvariantHolds, PTL DEF Spec

(***************************************************************************)
(* Where the calls on one session do not overlap, a challenge is good for  *)
(* one proof, however clients retry and whatever the store reports.        *)
(***************************************************************************)
THEOREM ChallengesAreSingleUse ==
  ASSUME ~Overlap
  PROVE  Spec => []SingleUse
<1>1. SerialInv => SingleUse
  BY DEF SerialInv
<1> QED
  BY <1>1, SerialHolds, PTL

-----------------------------------------------------------------------------
(* A write leaves the key of a bound session as it is: a register has      *)
(* found the session Active, a refresh holds its key, an initiate is the   *)
(* first to write.                                                         *)
LEMMA WritePins ==
  ASSUME TypeOK, IInv, SerialInv, NEW w \in Workers, call[w].pc = "write",
         NEW id \in Ids, sessions[id] # None, sessions[id].state = "Bound"
  PROVE  Written(w)[id].public_key = sessions[id].public_key
<1>1. Pending(w) /\ call[w].op \in Operations /\ call[w].id \in Ids
  BY DEF Pending, TypeOK, CallsOK
<1>2. Written(w)[id] = IF id = call[w].id THEN call[w].session ELSE sessions[id]
  BY WriteType DEF TypeOK, Store
<1>3. CASE call[w].op = "initiate"
  BY <1>1, <1>2, <1>3 DEF IInv, InitiatePrivate
<1>4. CASE call[w].op \in {"register", "refresh"}
  BY <1>1, <1>2, <1>4 DEF SerialInv, SignsCurrent
<1> QED
  BY <1>1, <1>3, <1>4 DEF Operations

(***************************************************************************)
(* Where the calls on one session do not overlap, the key of a bound       *)
(* session is the registered one for good.                                 *)
(***************************************************************************)
THEOREM KeysArePinned ==
  ASSUME ~Overlap
  PROVE  Spec => PinnedKey
<1> DEFINE Pins ==
      \A id \in Ids :
        /\ sessions[id] # None /\ sessions'[id] # None
        /\ sessions[id].state = "Bound"
        => sessions'[id].public_key = sessions[id].public_key
<1>1. TypeOK /\ IInv /\ SerialInv /\ [Next]_vars => Pins
  <2> SUFFICES ASSUME TypeOK, IInv, SerialInv, [Next]_vars, NEW id \in Ids,
                      sessions[id] # None, sessions'[id] # None,
                      sessions[id].state = "Bound"
               PROVE  sessions'[id].public_key = sessions[id].public_key
    OBVIOUS
  <2> QED
    BY OthersSpare, WritePins
<1> QED
  BY <1>1, TypeCorrect, InvariantHolds, SerialHolds, PTL DEF Spec, PinnedKey

-----------------------------------------------------------------------------
(***************************************************************************)
(* Where the calls on one session do not overlap, a session that clients   *)
(* know of does not come back once it is removed: update finds it stored,  *)
(* and create stores only what nobody has heard of.                        *)
(***************************************************************************)
THEOREM RemovalsLast ==
  ASSUME ~Overlap
  PROVE  Spec => RemovedStaysRemoved
<1> DEFINE Stays == \A id \in Ids : Known(id) /\ sessions[id] = None => sessions'[id] = None
<1>1. TypeOK /\ IInv /\ SerialInv /\ [Next]_vars => Stays
  <2> SUFFICES ASSUME TypeOK, IInv, SerialInv, [Next]_vars, NEW id \in Ids,
                      Known(id), sessions[id] = None, sessions'[id] # None
               PROVE  FALSE
    OBVIOUS
  <2>1. PICK w \in Workers : call[w].pc = "write" /\ sessions' = Written(w)
    BY OthersSpare
  <2>2. Pending(w) /\ call[w].op \in Operations /\ call[w].id \in Ids
    BY <2>1 DEF Pending, TypeOK, CallsOK
  <2>3. call[w].id = id
    BY <2>1, <2>2, WriteType DEF TypeOK, Store
  <2>4. call[w].op # "initiate"
    BY <2>2, <2>3 DEF IInv, InitiatePrivate, Known
  <2> QED
    BY <2>2, <2>3, <2>4 DEF SerialInv, SignsCurrent
<1> QED
  BY <1>1, TypeCorrect, InvariantHolds, SerialHolds, PTL DEF Spec, RemovedStaysRemoved

=============================================================================
