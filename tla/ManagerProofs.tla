--------------------------- MODULE ManagerProofs ----------------------------
(***************************************************************************)
(* Proofs about Manager, for any number of workers, sessions, users,       *)
(* challenges and keys, any configuration, and any interleaving.           *)
(***************************************************************************)
EXTENDS Manager, TLAPS

(***************************************************************************)
(* The values the handlers build are sessions, tokens and call records.    *)
(***************************************************************************)

(* initiate builds an Active session without a key. *)
LEMMA NewSessionType ==
  ASSUME NEW user \in Users, NEW t \in Int, NEW c \in Challenges
  PROVE  /\ Rotate(NewSession(user, t), c) \in Session
         /\ Rotate(NewSession(user, t), c).challenge = c
         /\ Rotate(NewSession(user, t), c).state = "Active"
         /\ Rotate(NewSession(user, t), c).public_key = None
BY DEF Rotate, NewSession, Session, SessionState, Option

(* Rotating changes the challenge and nothing else. *)
LEMMA RotateType ==
  ASSUME NEW s \in Session, NEW c \in Challenges
  PROVE  /\ Rotate(s, c) \in Session
         /\ Rotate(s, c).challenge = c
         /\ Rotate(s, c).state = s.state
         /\ Rotate(s, c).public_key = s.public_key
BY DEF Rotate, Session, Option

(* register builds a Bound session with the key of the proof. *)
LEMMA BindType ==
  ASSUME NEW s \in Session, NEW p \in Token, NEW c \in Challenges
  PROVE  /\ Bind(s, p, c) \in Session
         /\ Bind(s, p, c).challenge = c
         /\ Bind(s, p, c).state = "Bound"
         /\ Bind(s, p, c).public_key = p.jwk
BY DEF Bind, Session, SessionState, Token, Option

(* apply_ttl changes the expiry and nothing else, whatever the TTL. *)
LEMMA ApplyTtlType ==
  ASSUME NEW s \in Session, NEW t \in Int
  PROVE  /\ apply_ttl(s, t) \in Session
         /\ apply_ttl(s, t).challenge = s.challenge
         /\ apply_ttl(s, t).state = s.state
         /\ apply_ttl(s, t).public_key = s.public_key
<1>1. Ttl # None => ExpiryAt(t) \in Int
  BY I64Assumption, TtlAssumption DEF ExpiryAt, AsI64, I64Range, Option
<1>2. QED
  BY <1>1 DEF apply_ttl, Session, Option

(* A request carries no proof, or one over a challenge that was revealed. *)
LEMMA HeaderType ==
  ASSUME revealed \subseteq Challenges, NEW p \in Headers
  PROVE  /\ p \in Option(Token)
         /\ p # None => p.jti \in Option(revealed)
<1>1. Shapes \subseteq Token
  BY ManagerAssumption
<1>2. CASE p = None
  BY <1>2 DEF Option
<1>3. CASE p # None
  <2>1. PICK sh \in Shapes, c \in Option(revealed) : p = [sh EXCEPT !.jti = c]
    BY <1>3 DEF Headers
  <2>2. sh \in Token /\ c \in Option(Challenges)
    BY <1>1 DEF Option
  <2>3. p \in Token /\ p.jti = c
    BY <2>1, <2>2 DEF Token
  <2>4. QED
    BY <2>3 DEF Option
<1>4. QED
  BY <1>2, <1>3

(***************************************************************************)
(* What each way a call can move on does to the worker's record, and that  *)
(* it leaves the records of the other workers alone.                       *)
(***************************************************************************)

(* A call goes on to apply_ttl. *)
LEMMA ProceedCalls ==
  ASSUME CallsOK, NEW w \in Workers, NEW op \in Operations, NEW id \in Ids,
         NEW s \in Session, NEW p \in Option(Token),
         s.challenge \in Challenges, op # "initiate" => p \in Token,
         Proceed(w, op, id, s, p)
  PROVE  /\ CallsOK'
         /\ call'[w] = [pc |-> "ttl", op |-> op, id |-> id, session |-> s,
                        proof |-> p, status |-> Failed, challenge |-> None]
         /\ \A v \in Workers : v # w => call'[v] = call[v]
<1> DEFINE r == [pc |-> "ttl", op |-> op, id |-> id, session |-> s,
                 proof |-> p, status |-> Failed, challenge |-> None]
<1>1. call' = [call EXCEPT ![w] = r]
  BY DEF Proceed
<1>2. r \in Call
  BY DEF Call, Option, Failed, Statuses
<1>3. call' \in [Workers -> Call]
  BY <1>1, <1>2 DEF CallsOK
<1>4. call'[w] = r /\ \A v \in Workers : v # w => call'[v] = call[v]
  BY <1>1 DEF CallsOK
<1>5. CallsOK'
  BY <1>3, <1>4 DEF CallsOK, Pending
<1>6. QED
  BY <1>4, <1>5

(* A call answers. *)
LEMMA ReturnCalls ==
  ASSUME CallsOK, NEW w \in Workers, NEW status \in {Failed, 200, 400, 401, 403},
         NEW c \in Option(Challenges), Return(w, status, c)
  PROVE  /\ CallsOK'
         /\ ~Pending(w)' /\ call'[w].challenge = c
         /\ \A v \in Workers : v # w => call'[v] = call[v]
<1> DEFINE r == [pc |-> "reply", op |-> None, id |-> None, session |-> None,
                 proof |-> None, status |-> status, challenge |-> c]
<1>1. call' = [call EXCEPT ![w] = r]
  BY DEF Return
<1>2. r \in Call /\ r.pc = "reply" /\ r.challenge = c
  BY DEF Call, Option, Failed, Statuses
<1>3. call' \in [Workers -> Call]
  BY <1>1, <1>2 DEF CallsOK
<1>4. call'[w] = r /\ \A v \in Workers : v # w => call'[v] = call[v]
  BY <1>1 DEF CallsOK
<1>5. CallsOK'
  BY <1>2, <1>3, <1>4 DEF CallsOK, Pending
<1>6. QED
  BY <1>2, <1>4, <1>5 DEF Pending

(* A reply has left its worker. *)
LEMMA IdleCalls ==
  ASSUME CallsOK, NEW w \in Workers, call' = [call EXCEPT ![w] = Idle]
  PROVE  /\ CallsOK'
         /\ ~Pending(w)' /\ call'[w].challenge = None
         /\ \A v \in Workers : v # w => call'[v] = call[v]
<1>1. Idle \in Call
  BY DEF Call, Idle, Option, Failed, Statuses
<1>2. call' \in [Workers -> Call]
  BY <1>1 DEF CallsOK
<1>3. call'[w] = Idle /\ \A v \in Workers : v # w => call'[v] = call[v]
  BY DEF CallsOK
<1>4. CallsOK'
  BY <1>2, <1>3 DEF CallsOK, Pending, Idle
<1>5. QED
  BY <1>3, <1>4 DEF Pending, Idle

(* A call passes apply_ttl. *)
LEMMA TtlCalls ==
  ASSUME CallsOK, now \in 0 .. MaxTime, NEW w \in Workers, ApplyTtl(w)
  PROVE  /\ CallsOK'
         /\ Pending(w) /\ Pending(w)'
         /\ call'[w].op = call[w].op
         /\ call'[w].id = call[w].id
         /\ call'[w].proof = call[w].proof
         /\ call'[w].challenge = call[w].challenge
         /\ call'[w].session.challenge = call[w].session.challenge
         /\ call'[w].session.state = call[w].session.state
         /\ call'[w].session.public_key = call[w].session.public_key
         /\ \A v \in Workers : v # w => call'[v] = call[v]
<1> DEFINE r == [call[w] EXCEPT !.pc = "write", !.session = apply_ttl(@, now)]
<1>1. call' = [call EXCEPT ![w] = r] /\ Pending(w)
  BY DEF ApplyTtl, CallsOK, Pending
<1>2. now \in Int /\ call[w].session \in Session /\ call[w] \in Call
  BY <1>1, ManagerAssumption DEF CallsOK
<1>3. apply_ttl(call[w].session, now) \in Option(Session)
  BY <1>2, ApplyTtlType DEF Option
<1>4. /\ r \in Call /\ r.pc = "write" /\ r.session = apply_ttl(call[w].session, now)
      /\ r.op = call[w].op /\ r.id = call[w].id /\ r.proof = call[w].proof
      /\ r.challenge = call[w].challenge
  BY <1>2, <1>3 DEF Call
<1>5. call' \in [Workers -> Call]
  BY <1>1, <1>4 DEF CallsOK
<1>6. call'[w] = r /\ \A v \in Workers : v # w => call'[v] = call[v]
  BY <1>1 DEF CallsOK
<1>7. CallsOK'
  BY <1>1, <1>2, <1>4, <1>5, <1>6, ApplyTtlType DEF CallsOK, Pending
<1>8. QED
  BY <1>1, <1>2, <1>4, <1>6, <1>7, ApplyTtlType DEF Pending

(***************************************************************************)
(* The two ways a register or a refresh can go: it answers with nothing or *)
(* with the current challenge of the session, or it has checked the proof  *)
(* and holds a clone of the session.                                       *)
(***************************************************************************)
Answers(w, id) ==
  \E status \in {Failed, 200, 400, 401, 403}, c \in Option(Challenges) :
    /\ Return(w, status, c)
    /\ owner' = owner
    /\ c # None => sessions[id] # None /\ c = sessions[id].challenge

RegisterAccepts(w, id, proof, c) ==
  /\ get(sessions, id, now) # None
  /\ sessions[id] \in Session
  /\ proof \in Token
  /\ verify_registration(proof) = "ok"
  /\ sessions[id].state = "Active"
  /\ ChallengeMatches(sessions[id], proof)
  /\ Proceed(w, "register", id, Bind(sessions[id], proof, c), proof)
  /\ owner' = [owner EXCEPT ![c] = id]

RefreshAccepts(w, id, proof, c) ==
  /\ get(sessions, id, now) # None
  /\ sessions[id] \in Session
  /\ sessions[id].state = "Bound"
  /\ sessions[id].public_key # None
  /\ proof \in Token
  /\ verify_refresh(proof, sessions[id].public_key) = "ok"
  /\ ChallengeMatches(sessions[id], proof)
  /\ Proceed(w, "refresh", id, Rotate(sessions[id], c), proof)
  /\ owner' = [owner EXCEPT ![c] = id]

(* get returns the stored session, if anything. *)
LEMMA GetIsStored ==
  ASSUME TypeOK, NEW id \in Ids, get(sessions, id, now) # None
  PROVE  get(sessions, id, now) = sessions[id] /\ sessions[id] \in Session
BY DEF get, TypeOK, Store, Option

(* A refusal answers. *)
LEMMA RefuseAnswers ==
  ASSUME TypeOK, NEW w \in Workers, NEW id \in Ids, NEW status \in Statuses,
         status = 403 => get(sessions, id, now) # None,
         Refuse(w, status, get(sessions, id, now))
  PROVE  Answers(w, id)
<1> DEFINE s == get(sessions, id, now)
           c == RetryWith(status, s)
<1>1. status # 403 => c = None
  BY DEF RetryWith
<1>2. status = 403 => /\ s = sessions[id] /\ sessions[id] # None
                      /\ c = sessions[id].challenge /\ c \in Option(Challenges)
  BY GetIsStored DEF RetryWith, Session
<1>3. Return(w, status, c) /\ owner' = owner
  BY DEF Refuse
<1>4. c \in Option(Challenges)
  BY <1>1, <1>2 DEF Option
<1> HIDE DEF c
<1>5. QED
  BY <1>1, <1>2, <1>3, <1>4 DEF Answers, Statuses

(* register answers or accepts. *)
LEMMA RegisterCases ==
  ASSUME TypeOK, NEW w \in Workers, NEW id \in Ids, NEW proof \in Headers,
         Register(w, id, proof)
  PROVE  Answers(w, id) \/ \E c \in Fresh : RegisterAccepts(w, id, proof, c)
<1> DEFINE s == get(sessions, id, now)
           status == RegisterStatus(s, proof)
<1>1. s # None => s = sessions[id] /\ s \in Session
  BY GetIsStored
<1>2. proof # None => proof \in Token
  BY HeaderType DEF TypeOK, Option
<1>3. status \in Statuses /\ (status = 403 => s # None)
  BY DEF RegisterStatus, Statuses, Failed
<1>4. CASE Refuse(w, status, s)
  BY <1>3, <1>4, RefuseAnswers
<1>5. ASSUME status = 200, NEW c \in Fresh,
             Proceed(w, "register", id, Bind(s, proof, c), proof),
             owner' = [owner EXCEPT ![c] = id]
      PROVE  RegisterAccepts(w, id, proof, c)
  <2>1. s # None /\ s.state = "Active" /\ RegistrationAccepted(s, proof)
    BY <1>5 DEF RegisterStatus, Registrable
  <2>2. QED
    BY <1>1, <1>2, <1>5, <2>1 DEF RegisterAccepts, RegistrationAccepted
<1>6. QED
  BY <1>4, <1>5 DEF Register

(* refresh answers or accepts. *)
LEMMA RefreshCases ==
  ASSUME TypeOK, NEW w \in Workers, NEW id \in Ids, NEW proof \in Headers,
         Refresh(w, id, proof)
  PROVE  Answers(w, id) \/ \E c \in Fresh : RefreshAccepts(w, id, proof, c)
<1> DEFINE s == get(sessions, id, now)
           status == RefreshStatus(s, proof)
<1>1. s # None => s = sessions[id] /\ s \in Session
  BY GetIsStored
<1>2. proof # None => proof \in Token
  BY HeaderType DEF TypeOK, Option
<1>3. status \in Statuses /\ (status = 403 => s # None)
  BY DEF RefreshStatus, Statuses, Failed
<1>4. CASE Refuse(w, status, s)
  BY <1>3, <1>4, RefuseAnswers
<1>5. ASSUME status = 200, NEW c \in Fresh,
             Proceed(w, "refresh", id, Rotate(s, c), proof),
             owner' = [owner EXCEPT ![c] = id]
      PROVE  RefreshAccepts(w, id, proof, c)
  <2>1. /\ s # None /\ s.state = "Bound" /\ proof # None
        /\ s.public_key # None /\ RefreshAccepted(s, proof)
    BY <1>5 DEF RefreshStatus, Failed
  <2>2. QED
    BY <1>1, <1>2, <1>5, <2>1 DEF RefreshAccepts, RefreshAccepted
<1>6. QED
  BY <1>4, <1>5 DEF Refresh

(***************************************************************************)
(* A write keeps the types and its acceptance is well-formed.              *)
(***************************************************************************)
LEMMA WriteType ==
  ASSUME TypeOK, NEW w \in Workers, call[w].pc = "write"
  PROVE  /\ Written(w) = [sessions EXCEPT ![call[w].id] = call[w].session]
         /\ Written(w) \in Store
         /\ accepted \cup Acceptance(w) \subseteq Acceptances
<1>1. Pending(w)
  BY DEF Pending
<1>2. /\ call[w].op \in Operations /\ call[w].id \in Ids
      /\ call[w].session \in Session /\ call[w].session.challenge \in Challenges
      /\ call[w].op # "initiate" => call[w].proof \in Token
  BY <1>1 DEF TypeOK, CallsOK
<1>3. Written(w) = [sessions EXCEPT ![call[w].id] = call[w].session]
  BY DEF Written, create, update
<1>4. Written(w) \in Store
  BY <1>2, <1>3 DEF TypeOK, Store, Option
<1>5. Acceptance(w) \subseteq Acceptances
  BY <1>2 DEF Acceptance, Acceptances, Operations
<1>6. QED
  BY <1>3, <1>4, <1>5 DEF TypeOK

(* Deleting leaves a well-formed store. *)
LEMMA DeleteType ==
  ASSUME sessions \in Store
  PROVE  /\ \A id \in Ids : delete(sessions, id) \in Store
         /\ \A user \in Users : delete_by_user_id(sessions, user) \in Store
BY DEF Store, Option, delete, delete_by_user_id

-----------------------------------------------------------------------------
(***************************************************************************)
(* The variables always hold what their types say, and a call that is on   *)
(* its way to its write holds a session with a challenge and, unless it is *)
(* an initiate, the proof it has checked: the unwrap_or_default() of the   *)
(* challenge in register and refresh never has anything to default.        *)
(***************************************************************************)
THEOREM TypeCorrect == Spec => []TypeOK
<1>1. Init => TypeOK
  <2> SUFFICES ASSUME Init PROVE TypeOK
    OBVIOUS
  <2>1. Idle \in Call
    BY DEF Idle, Call, Option, Failed, Statuses
  <2>2. CallsOK
    BY <2>1 DEF Init, CallsOK, Pending, Idle
  <2>3. now \in 0 .. MaxTime
    BY ManagerAssumption DEF Init
  <2>4. QED
    BY <2>2, <2>3 DEF Init, TypeOK, Store, Option
<1>2. TypeOK /\ [Next]_vars => TypeOK'
  <2> SUFFICES ASSUME TypeOK, [Next]_vars PROVE TypeOK'
    OBVIOUS
  <2> USE DEF TypeOK
  <2>1. ASSUME NEW w \in Workers, NEW id \in Ids, Answers(w, id),
               UNCHANGED <<sessions, now, minted, revealed, accepted>>
        PROVE  TypeOK'
    BY <2>1, ReturnCalls DEF Answers
  <2>2. ASSUME NEW w \in Workers, NEW user \in Users, Initiate(w, user)
        PROVE  TypeOK'
    <3>1. PICK id \in Ids \ minted, c \in Fresh :
            /\ Proceed(w, "initiate", id, Rotate(NewSession(user, now), c), None)
            /\ minted' = minted \cup {id}
            /\ owner' = [owner EXCEPT ![c] = id]
      BY <2>2 DEF Initiate
    <3>2. c \in Challenges /\ now \in Int
      BY ManagerAssumption DEF Fresh
    <3>3. /\ Rotate(NewSession(user, now), c) \in Session
          /\ Rotate(NewSession(user, now), c).challenge = c
      BY <3>2, NewSessionType
    <3>4. CallsOK'
      BY <3>1, <3>2, <3>3, ProceedCalls DEF Operations, Option
    <3>5. QED
      BY <2>2, <3>1, <3>2, <3>4 DEF Initiate, Option
  <2>3. ASSUME NEW w \in Workers, NEW id \in Ids, NEW proof \in Headers,
               Register(w, id, proof)
        PROVE  TypeOK'
    <3>1. UNCHANGED <<sessions, now, minted, revealed, accepted>>
      BY <2>3 DEF Register
    <3>2. ASSUME NEW c \in Fresh, RegisterAccepts(w, id, proof, c)
          PROVE  TypeOK'
      <4>1. c \in Challenges
        BY DEF Fresh
      <4>2. CallsOK'
        <5>1. /\ Bind(sessions[id], proof, c) \in Session
              /\ Bind(sessions[id], proof, c).challenge \in Challenges
              /\ proof \in Token /\ proof \in Option(Token)
              /\ "register" \in Operations
          BY <3>2, <4>1, BindType DEF RegisterAccepts, Operations, Option
        <5>2. QED
          BY <3>2, <5>1, ProceedCalls DEF RegisterAccepts
      <4>3. QED
        BY <3>1, <3>2, <4>1, <4>2 DEF RegisterAccepts, Option
    <3>3. QED
      BY <2>1, <2>3, <3>1, <3>2, RegisterCases
  <2>4. ASSUME NEW w \in Workers, NEW id \in Ids, NEW proof \in Headers,
               Refresh(w, id, proof)
        PROVE  TypeOK'
    <3>1. UNCHANGED <<sessions, now, minted, revealed, accepted>>
      BY <2>4 DEF Refresh
    <3>2. ASSUME NEW c \in Fresh, RefreshAccepts(w, id, proof, c)
          PROVE  TypeOK'
      <4>1. c \in Challenges
        BY DEF Fresh
      <4>2. CallsOK'
        <5>1. /\ Rotate(sessions[id], c) \in Session
              /\ Rotate(sessions[id], c).challenge \in Challenges
              /\ proof \in Token /\ proof \in Option(Token)
              /\ "refresh" \in Operations
          BY <3>2, <4>1, RotateType DEF RefreshAccepts, Operations, Option
        <5>2. QED
          BY <3>2, <5>1, ProceedCalls DEF RefreshAccepts
      <4>3. QED
        BY <3>1, <3>2, <4>1, <4>2 DEF RefreshAccepts, Option
    <3>3. QED
      BY <2>1, <2>4, <3>1, <3>2, RefreshCases
  <2>5. ASSUME NEW w \in Workers, NEW id \in Ids,
               GetFails(w, id) \/ Close(w, id) \/ CloseFails(w, id)
        PROVE  TypeOK'
    <3>1. CallsOK'
      BY <2>5, ReturnCalls DEF GetFails, Close, CloseFails, Option
    <3>2. sessions' \in Store
      BY <2>5, DeleteType DEF GetFails, Close, CloseFails
    <3>3. QED
      BY <2>5, <3>1, <3>2 DEF GetFails, Close, CloseFails
  <2>6. ASSUME NEW w \in Workers, ApplyTtl(w)
        PROVE  TypeOK'
    BY <2>6, TtlCalls DEF ApplyTtl
  <2>7. ASSUME NEW w \in Workers, ApplyTtlPanics(w)
        PROVE  TypeOK'
    BY <2>7, ReturnCalls DEF ApplyTtlPanics, Option
  <2>8. ASSUME NEW w \in Workers, Write(w) \/ WriteFails(w)
        PROVE  TypeOK'
    <3>1. call[w].pc = "write" /\ Pending(w) /\ call[w].session.challenge \in Challenges
      BY <2>8 DEF Write, WriteFails, Pending, CallsOK
    <3>2. CallsOK'
      BY <2>8, <3>1, ReturnCalls DEF Write, WriteFails, Option
    <3>3. QED
      BY <2>8, <3>1, <3>2, WriteType DEF Write, WriteFails
  <2>9. ASSUME NEW w \in Workers, Deliver(w) \/ Lose(w)
        PROVE  TypeOK'
    <3>1. call[w].challenge \in Option(Challenges)
      BY DEF CallsOK, Call
    <3>2. CallsOK'
      BY <2>9, IdleCalls DEF Deliver, Lose
    <3>3. QED
      BY <2>9, <3>1, <3>2 DEF Deliver, Lose, Option
  <2>10. ASSUME NEW user \in Users, DropUser(user)
         PROVE  TypeOK'
    BY <2>10, DeleteType DEF DropUser, CallsOK, Pending
  <2>11. CASE Tick
    BY <2>11 DEF Tick, CallsOK, Pending
  <2>12. CASE UNCHANGED vars
    BY <2>12 DEF vars, CallsOK, Pending
  <2>13. QED
    BY <2>2, <2>3, <2>4, <2>5, <2>6, <2>7, <2>8, <2>9, <2>10, <2>11, <2>12
       DEF Next, Step
<1>3. QED
  BY <1>1, <1>2, PTL DEF Spec

-----------------------------------------------------------------------------
(***************************************************************************)
(* The inductive invariant.  All of it says where a challenge can be: a    *)
(* generated one is on the clone of one pending call, and nowhere else,    *)
(* until the write of that call makes it current in its own session.       *)
(***************************************************************************)

(* Whatever has been sent or stored was generated, for a minted session. *)
ChallengesOwned ==
  /\ \A c \in Challenges : owner[c] # None => owner[c] \in minted
  /\ \A c \in revealed : owner[c] # None
  /\ \A w \in Workers :
       call[w].challenge # None => owner[call[w].challenge] # None
  /\ \A id \in Ids : sessions[id] # None =>
       /\ id \in minted
       /\ sessions[id].challenge \in Challenges
       /\ owner[sessions[id].challenge] = id

(* The challenge on the clone of worker w, to become current by its write. *)
Pledged(w) == call[w].session.challenge

PendingChallengeSecret ==
  \A w \in Workers : Pending(w) =>
    /\ call[w].id \in minted
    /\ call[w].challenge = None
    /\ owner[Pledged(w)] = call[w].id
    /\ Pledged(w) \notin revealed
    /\ \A v \in Workers : call[v].challenge # Pledged(w)
    /\ \A id \in Ids : sessions[id] # None => sessions[id].challenge # Pledged(w)
    /\ \A v \in Workers : Pending(v) /\ v # w => Pledged(v) # Pledged(w)

(* Nobody knows of a session before initiate has stored it. *)
InitiatePrivate ==
  \A w \in Workers : Pending(w) /\ call[w].op = "initiate" =>
    /\ call[w].session.state = "Active"
    /\ call[w].session.public_key = None
    /\ sessions[call[w].id] = None
    /\ \A c \in revealed : owner[c] # call[w].id
    /\ \A v \in Workers :
         call[v].challenge # None => owner[call[v].challenge] # call[w].id
    /\ \A v \in Workers : Pending(v) /\ v # w => call[v].id # call[w].id

(* What the checks of register and refresh established still holds of the  *)
(* clone, whatever happened to the stored session since.                   *)
PendingProofChecked ==
  \A w \in Workers : Pending(w) /\ call[w].op # "initiate" =>
    /\ call[w].session.state = "Bound"
    /\ call[w].proof.jti \in revealed
    /\ owner[call[w].proof.jti] = call[w].id
    /\ call[w].session.public_key # None =>
         call[w].proof.signer = call[w].session.public_key
    /\ call[w].op = "refresh" => Registered(call[w].id, call[w].proof.signer)

AcceptedRevealed == \A a \in accepted : a.proof.jti \in revealed

IInv ==
  /\ ChallengesOwned
  /\ PendingChallengeSecret
  /\ InitiatePrivate
  /\ PendingProofChecked
  /\ AcceptedRevealed
  /\ StoredChallengeUnspent
  /\ ProofsStayInTheirSession
  /\ KeysAreProved
  /\ NeverUnbound

-----------------------------------------------------------------------------
(* verify_registration: a proof that carries a key is signed by it. *)
LEMMA VerifyRegistration ==
  ASSUME NEW p \in Token, verify_registration(p) = "ok"
  PROVE  p.jti # None /\ (p.jwk # None => p.signer = p.jwk)
<1>1. decode(p) = "ok"
  BY DEF verify_registration
<1>2. p.form = "ok" /\ p.typ = DBSC_TYP
  BY <1>1 DEF decode, Token
<1>3. p.jti # None
  BY <1>1, <1>2 DEF decode
<1>4. ASSUME p.jwk # None PROVE p.signer = p.jwk
  <2>1. p.alg \in {"ES256", "RS256"}
    BY <1>1, <1>4 DEF verify_registration, Token, Algorithms
  <2>2. verify_signature(p.alg, p.jwk, p) = "ok"
    BY <1>1, <1>4, <2>1 DEF verify_registration
  <2>3. QED
    BY <2>1, <2>2 DEF verify_signature
<1>5. QED
  BY <1>3, <1>4

(* verify_refresh: the proof is signed by the registered key. *)
LEMMA VerifyRefresh ==
  ASSUME NEW p \in Token, NEW k, verify_refresh(p, k) = "ok"
  PROVE  p.jti # None /\ p.signer = k
<1>1. decode(p) = "ok"
  BY DEF verify_refresh
<1>2. p.form = "ok" /\ p.typ = DBSC_TYP
  BY <1>1 DEF decode, Token
<1>3. p.jti # None
  BY <1>1, <1>2 DEF decode
<1>4. p.alg # "none" /\ verify_signature(p.alg, k, p) = "ok"
  BY <1>1 DEF verify_refresh
<1>5. p.alg \in {"ES256", "RS256"}
  BY <1>4 DEF verify_signature, Token, Algorithms
<1>6. p.signer = k
  BY <1>4, <1>5 DEF verify_signature
<1>7. QED
  BY <1>3, <1>6

-----------------------------------------------------------------------------
(***************************************************************************)
(* The kinds of steps, by what they do to the parts of the invariant.      *)
(***************************************************************************)

(* Worker w stops working, holding at most a challenge that is current;    *)
(* sessions may be removed.                                                *)
Rests(w, c) ==
  /\ ~Pending(w)' /\ call'[w].challenge = c
  /\ \A v \in Workers : v # w => call'[v] = call[v]

Removal ==
  /\ \A id \in Ids : sessions'[id] \in {sessions[id], None}
  /\ UNCHANGED <<minted, owner, revealed, accepted>>

LEMMA RestStep ==
  ASSUME TypeOK, IInv, NEW w \in Workers, NEW c \in Option(Challenges),
         Rests(w, c), Removal,
         c # None => \E id \in Ids : sessions[id] # None /\ c = sessions[id].challenge
  PROVE  IInv'
<1> USE DEF Removal
<1>1. \A v \in Workers : Pending(v)' => Pending(v) /\ v # w /\ call'[v] = call[v]
  BY DEF Rests, Pending
<1>2. \A v \in Workers : call'[v].challenge \in {call[v].challenge, c}
  BY DEF Rests
<1>3. c # None => c \in Challenges /\ owner[c] \in minted
                  /\ \A v \in Workers : Pending(v) =>
                       /\ c # Pledged(v)
                       /\ call[v].op = "initiate" => owner[c] # call[v].id
  BY DEF IInv, ChallengesOwned, PendingChallengeSecret, InitiatePrivate, Option
<1>4. ChallengesOwned'
  BY <1>2, <1>3, NoneAssumption DEF IInv, ChallengesOwned, TypeOK
<1>5. PendingChallengeSecret'
  BY <1>1, <1>2, <1>3 DEF IInv, PendingChallengeSecret, Pledged
<1>6. InitiatePrivate'
  <2> SUFFICES ASSUME NEW v \in Workers, Pending(v)', call'[v].op = "initiate"
               PROVE  /\ call'[v].session.state = "Active"
                      /\ call'[v].session.public_key = None
                      /\ sessions'[call'[v].id] = None
                      /\ \A d \in revealed' : owner'[d] # call'[v].id
                      /\ \A u \in Workers :
                           call'[u].challenge # None
                             => owner'[call'[u].challenge] # call'[v].id
                      /\ \A u \in Workers :
                           Pending(u)' /\ u # v => call'[u].id # call'[v].id
    BY DEF InitiatePrivate
  <2>1. Pending(v) /\ call'[v] = call[v] /\ call[v].id \in Ids
    BY <1>1 DEF TypeOK, CallsOK
  <2>2. QED
    BY <1>1, <1>2, <1>3, <2>1 DEF IInv, InitiatePrivate
<1>7. PendingProofChecked'
  BY <1>1 DEF IInv, PendingProofChecked, Registered
<1>8. AcceptedRevealed' /\ StoredChallengeUnspent' /\ ProofsStayInTheirSession'
  BY DEF IInv, AcceptedRevealed, StoredChallengeUnspent, Spent, ProofsStayInTheirSession
<1>9. KeysAreProved'
  BY DEF IInv, KeysAreProved, Registered
<1>10. NeverUnbound'
  BY DEF IInv, NeverUnbound, TypeOK, Acceptances
<1>11. QED
  BY <1>4, <1>5, <1>6, <1>7, <1>8, <1>9, <1>10 DEF IInv

(* The store and the threads do nothing; sessions may be removed. *)
LEMMA RemovalStep ==
  ASSUME TypeOK, IInv, Removal, call' = call
  PROVE  IInv'
<1> USE DEF Removal
<1>1. \A v \in Workers : Pending(v)' = Pending(v)
  BY DEF Pending
<1>2. ChallengesOwned' /\ PendingChallengeSecret' /\ PendingProofChecked'
  BY <1>1 DEF IInv, ChallengesOwned, PendingChallengeSecret, PendingProofChecked,
              Pledged, Registered
<1>3. InitiatePrivate'
  BY <1>1 DEF IInv, InitiatePrivate, TypeOK, CallsOK
<1>4. AcceptedRevealed' /\ StoredChallengeUnspent' /\ ProofsStayInTheirSession'
  BY DEF IInv, AcceptedRevealed, StoredChallengeUnspent, Spent, ProofsStayInTheirSession
<1>5. KeysAreProved' /\ NeverUnbound'
  BY DEF IInv, KeysAreProved, Registered, NeverUnbound, TypeOK, Acceptances
<1>6. QED
  BY <1>2, <1>3, <1>4, <1>5 DEF IInv

(* A reply reveals its challenge, which no pending call is about to store. *)
LEMMA DeliverStep ==
  ASSUME TypeOK, IInv, NEW w \in Workers, Deliver(w)
  PROVE  IInv'
<1> DEFINE c == call[w].challenge
<1>1. UNCHANGED <<sessions, minted, owner, accepted>>
      /\ revealed' = revealed \cup ({c} \ {None})
  BY DEF Deliver
<1>2. Rests(w, None)
  BY IdleCalls DEF Deliver, Rests, TypeOK
<1>3. \A v \in Workers : Pending(v)' => Pending(v) /\ v # w /\ call'[v] = call[v]
  BY <1>2 DEF Rests, Pending
<1>4. \A v \in Workers : call'[v].challenge \in {call[v].challenge, None}
  BY <1>2 DEF Rests
<1>5. ChallengesOwned'
  BY <1>1, <1>4 DEF IInv, ChallengesOwned
<1>6. PendingChallengeSecret'
  BY <1>1, <1>3, <1>4 DEF IInv, PendingChallengeSecret, Pledged
<1>7. InitiatePrivate'
  BY <1>1, <1>3, <1>4 DEF IInv, InitiatePrivate
<1>8. PendingProofChecked'
  BY <1>1, <1>3 DEF IInv, PendingProofChecked, Registered
<1>9. AcceptedRevealed' /\ StoredChallengeUnspent' /\ ProofsStayInTheirSession'
  BY <1>1 DEF IInv, AcceptedRevealed, StoredChallengeUnspent, Spent, ProofsStayInTheirSession
<1>10. KeysAreProved' /\ NeverUnbound'
  BY <1>1 DEF IInv, KeysAreProved, Registered, NeverUnbound
<1>11. QED
  BY <1>5, <1>6, <1>7, <1>8, <1>9, <1>10 DEF IInv

(* apply_ttl touches nothing the invariant speaks of. *)
LEMMA TtlStep ==
  ASSUME TypeOK, IInv, NEW w \in Workers, ApplyTtl(w)
  PROVE  IInv'
<1>1. UNCHANGED <<sessions, minted, owner, revealed, accepted>>
  BY DEF ApplyTtl
<1>2. \A v \in Workers :
        /\ Pending(v)' = Pending(v)
        /\ call'[v].op = call[v].op /\ call'[v].id = call[v].id
        /\ call'[v].proof = call[v].proof /\ call'[v].challenge = call[v].challenge
        /\ call'[v].session.challenge = call[v].session.challenge
        /\ call'[v].session.state = call[v].session.state
        /\ call'[v].session.public_key = call[v].session.public_key
  BY TtlCalls DEF TypeOK, Pending
<1>3. ChallengesOwned' /\ PendingChallengeSecret'
  BY <1>1, <1>2 DEF IInv, ChallengesOwned, PendingChallengeSecret, Pledged
<1>4. InitiatePrivate'
  BY <1>1, <1>2 DEF IInv, InitiatePrivate
<1>5. PendingProofChecked'
  BY <1>1, <1>2 DEF IInv, PendingProofChecked, Registered
<1>6. AcceptedRevealed' /\ StoredChallengeUnspent' /\ ProofsStayInTheirSession'
  BY <1>1 DEF IInv, AcceptedRevealed, StoredChallengeUnspent, Spent, ProofsStayInTheirSession
<1>7. KeysAreProved' /\ NeverUnbound'
  BY <1>1 DEF IInv, KeysAreProved, Registered, NeverUnbound
<1>8. QED
  BY <1>3, <1>4, <1>5, <1>6, <1>7 DEF IInv

(* A call starts to work on a clone that carries a fresh challenge. *)
LEMMA StartStep ==
  ASSUME TypeOK, IInv,
         NEW w \in Workers, NEW op \in Operations, NEW id \in Ids, NEW c \in Fresh,
         NEW s \in Session, NEW p \in Option(Token),
         call[w].pc = "idle",
         Proceed(w, op, id, s, p),
         s.challenge = c,
         owner' = [owner EXCEPT ![c] = id],
         minted' = minted \cup {id},
         UNCHANGED <<sessions, revealed, accepted>>,
         op = "initiate" => id \notin minted /\ s.state = "Active" /\ s.public_key = None,
         op # "initiate" =>
           /\ sessions[id] # None /\ p \in Token
           /\ s.state = "Bound"
           /\ p.jti \in revealed /\ owner[p.jti] = id
           /\ s.public_key # None => p.signer = s.public_key
           /\ op = "refresh" => Registered(id, p.signer)
  PROVE  IInv'
<1>1. c \in Challenges /\ owner[c] = None /\ None \notin Challenges /\ None \notin Ids
  BY NoneAssumption DEF Fresh
<1>2. /\ CallsOK'
      /\ call'[w] = [pc |-> "ttl", op |-> op, id |-> id, session |-> s,
                     proof |-> p, status |-> Failed, challenge |-> None]
      /\ \A v \in Workers : v # w => call'[v] = call[v]
  BY <1>1, ProceedCalls DEF TypeOK
<1>3. ~Pending(w) /\ Pending(w)' /\ \A v \in Workers : v # w => Pending(v)' = Pending(v)
  BY <1>2 DEF Pending
<1>4. owner'[c] = id /\ \A d \in Challenges : d # c => owner'[d] = owner[d]
  BY <1>1 DEF TypeOK
<1>5. /\ c \notin revealed
      /\ \A v \in Workers : call[v].challenge # c
      /\ \A v \in Workers : Pending(v) => Pledged(v) # c
      /\ \A i \in Ids : sessions[i] # None => sessions[i].challenge # c
  BY <1>1 DEF IInv, ChallengesOwned, PendingChallengeSecret, TypeOK, CallsOK
<1>6. op = "initiate" =>
        /\ sessions[id] = None
        /\ \A d \in Challenges : owner[d] # id
        /\ \A v \in Workers : Pending(v) => call[v].id # id
  BY <1>1 DEF IInv, ChallengesOwned, PendingChallengeSecret
<1>7. op # "initiate" => \A v \in Workers :
        Pending(v) /\ call[v].op = "initiate" => call[v].id # id
  BY DEF IInv, InitiatePrivate
<1>8. \A v \in Workers : call[v].challenge \in Option(Challenges)
  BY DEF TypeOK, CallsOK, Call
<1>9. ChallengesOwned'
  BY <1>1, <1>2, <1>4, <1>5, <1>8 DEF IInv, ChallengesOwned, TypeOK, Option
<1>10. PendingChallengeSecret'
  <2> SUFFICES ASSUME NEW v \in Workers, Pending(v)'
               PROVE  /\ call'[v].id \in minted'
                      /\ call'[v].challenge = None
                      /\ owner'[Pledged(v)'] = call'[v].id
                      /\ Pledged(v)' \notin revealed'
                      /\ \A u \in Workers : call'[u].challenge # Pledged(v)'
                      /\ \A i \in Ids : sessions'[i] # None => sessions'[i].challenge # Pledged(v)'
                      /\ \A u \in Workers : Pending(u)' /\ u # v => Pledged(u)' # Pledged(v)'
    BY DEF PendingChallengeSecret
  <2>1. CASE v = w
    BY <1>1, <1>2, <1>3, <1>4, <1>5, <2>1 DEF Pledged
  <2>2. CASE v # w
    <3>1. Pending(v) /\ call'[v] = call[v] /\ Pledged(v) \in Challenges /\ Pledged(v) # c
      BY <1>2, <1>3, <1>5, <2>2 DEF TypeOK, CallsOK, Pledged
    <3>2. QED
      BY <1>1, <1>2, <1>3, <1>4, <3>1 DEF IInv, PendingChallengeSecret, Pledged
  <2>3. QED
    BY <2>1, <2>2
<1>11. InitiatePrivate'
  <2> SUFFICES ASSUME NEW v \in Workers, Pending(v)', call'[v].op = "initiate"
               PROVE  /\ call'[v].session.state = "Active"
                      /\ call'[v].session.public_key = None
                      /\ sessions'[call'[v].id] = None
                      /\ \A d \in revealed' : owner'[d] # call'[v].id
                      /\ \A u \in Workers :
                           call'[u].challenge # None
                             => owner'[call'[u].challenge] # call'[v].id
                      /\ \A u \in Workers :
                           Pending(u)' /\ u # v => call'[u].id # call'[v].id
    BY DEF InitiatePrivate
  <2>1. CASE v = w
    BY <1>1, <1>2, <1>3, <1>4, <1>5, <1>6, <1>8, <2>1 DEF TypeOK, Option
  <2>2. CASE v # w
    <3>1. Pending(v) /\ call'[v] = call[v] /\ call[v].id # id
      BY <1>2, <1>3, <1>6, <1>7, <2>2
    <3>2. \A d \in revealed : owner'[d] # call[v].id
      BY <1>4, <1>5, <2>2, <3>1 DEF IInv, InitiatePrivate, TypeOK
    <3>3. QED
      BY <1>2, <1>3, <1>4, <1>5, <1>8, <2>2, <3>1, <3>2
         DEF IInv, InitiatePrivate, Option
  <2>3. QED
    BY <2>1, <2>2
<1>12. PendingProofChecked'
  <2> SUFFICES ASSUME NEW v \in Workers, Pending(v)', call'[v].op # "initiate"
               PROVE  /\ call'[v].session.state = "Bound"
                      /\ call'[v].proof.jti \in revealed'
                      /\ owner'[call'[v].proof.jti] = call'[v].id
                      /\ call'[v].session.public_key # None =>
                           call'[v].proof.signer = call'[v].session.public_key
                      /\ call'[v].op = "refresh" =>
                           Registered(call'[v].id, call'[v].proof.signer)
    BY DEF PendingProofChecked, Registered
  <2>1. CASE v = w
    BY <1>2, <1>4, <1>5, <2>1 DEF TypeOK, Registered
  <2>2. CASE v # w
    BY <1>2, <1>3, <1>4, <1>5, <2>2 DEF IInv, PendingProofChecked, TypeOK, Registered
  <2>3. QED
    BY <2>1, <2>2
<1>13. AcceptedRevealed' /\ StoredChallengeUnspent'
  BY DEF IInv, AcceptedRevealed, StoredChallengeUnspent, Spent
<1>14. ProofsStayInTheirSession'
  BY <1>4, <1>5 DEF IInv, ProofsStayInTheirSession, AcceptedRevealed, TypeOK
<1>15. KeysAreProved' /\ NeverUnbound'
  BY DEF IInv, KeysAreProved, Registered, NeverUnbound
<1>16. QED
  BY <1>9, <1>10, <1>11, <1>12, <1>13, <1>14, <1>15 DEF IInv

(***************************************************************************)
(* A call writes its clone back, over whatever the store holds by now.     *)
(***************************************************************************)
LEMMA WriteStep ==
  ASSUME TypeOK, IInv, NEW w \in Workers, NEW d,
         call[w].pc = "write",
         sessions' = Written(w),
         accepted' = accepted \cup Acceptance(w),
         Rests(w, d), d = None \/ d = Pledged(w),
         UNCHANGED <<minted, owner, revealed>>
  PROVE  IInv'
<1> DEFINE i == call[w].id
           s == call[w].session
           c == Pledged(w)
           p == call[w].proof
           RegisteredAfter(id, k) ==
             \E a \in accepted' : a.op = "register" /\ a.id = id /\ a.proof.signer = k
<1>1. Pending(w)
  BY DEF Pending
<1>2. /\ i \in Ids /\ s \in Session /\ c \in Challenges
      /\ call[w].op \in Operations
      /\ call[w].op # "initiate" => p \in Token
      /\ c = s.challenge /\ c # None /\ s # None
  BY <1>1, NoneAssumption, NoSessionAssumption DEF TypeOK, CallsOK, Pledged
<1>3. /\ sessions'[i] = s
      /\ \A id \in Ids : id # i => sessions'[id] = sessions[id]
  BY <1>2, WriteType DEF TypeOK, Store
<1>4. accepted \subseteq accepted' /\ accepted' \subseteq Acceptances
  BY WriteType
<1>5. \A a \in accepted' : a \in accepted \/
        (/\ call[w].op # "initiate" /\ a.op = call[w].op /\ a.id = i /\ a.proof = p)
  BY DEF Acceptance
<1>6. call[w].op = "register" =>
        \E a \in accepted' : a.op = "register" /\ a.id = i /\ a.proof = p
  <2> DEFINE a == [op |-> call[w].op, id |-> i, proof |-> p, next |-> s.challenge]
  <2>1. call[w].op = "register" => a \in accepted'
    BY DEF Acceptance
  <2>2. a.op = call[w].op /\ a.id = i /\ a.proof = p
    OBVIOUS
  <2>3. QED
    BY <2>1, <2>2
<1>7. \A v \in Workers : Pending(v)' => Pending(v) /\ v # w /\ call'[v] = call[v]
  BY DEF Rests, Pending
<1>8. \A v \in Workers : call'[v].challenge \in {call[v].challenge, d}
  BY DEF Rests
<1>9. /\ i \in minted /\ owner[c] = i /\ c \notin revealed
      /\ \A v \in Workers : Pending(v) /\ v # w => Pledged(v) # c
  BY <1>1 DEF IInv, PendingChallengeSecret
<1>10. call[w].op = "initiate" =>
         /\ s.state = "Active" /\ s.public_key = None
         /\ \A r \in revealed : owner[r] # i
  BY <1>1 DEF IInv, InitiatePrivate
<1>11. call[w].op # "initiate" =>
         /\ s.state = "Bound"
         /\ p.jti \in revealed /\ owner[p.jti] = i
         /\ s.public_key # None => p.signer = s.public_key
         /\ call[w].op = "refresh" => Registered(i, p.signer)
  BY <1>1 DEF IInv, PendingProofChecked
<1>12. \A id, k : Registered(id, k) => RegisteredAfter(id, k)
  BY <1>4 DEF Registered
<1>13. call[w].op \in {"register", "refresh"} => RegisteredAfter(i, p.signer)
  <2>1. CASE call[w].op = "register"
    BY <1>6, <2>1
  <2>2. CASE call[w].op = "refresh"
    BY <1>11, <1>12, <2>2
  <2>3. QED
    BY <2>1, <2>2
<1>14. \A v \in Workers : Pending(v) /\ v # w /\ call[v].op = "initiate" => call[v].id # i
  BY <1>1 DEF IInv, InitiatePrivate
<1>15. ChallengesOwned'
  <2>1. \A id \in Ids : sessions'[id] # None =>
          /\ id \in minted
          /\ sessions'[id].challenge \in Challenges
          /\ owner[sessions'[id].challenge] = id
    BY <1>2, <1>3, <1>9 DEF IInv, ChallengesOwned
  <2>2. owner[c] # None
    BY <1>2, <1>9, NoneAssumption
  <2>3. \A v \in Workers : call'[v].challenge # None => owner[call'[v].challenge] # None
    BY <1>8, <2>2 DEF IInv, ChallengesOwned
  <2>4. QED
    BY <2>1, <2>3 DEF IInv, ChallengesOwned
<1>16. PendingChallengeSecret'
  <2> SUFFICES ASSUME NEW v \in Workers, Pending(v)'
               PROVE  /\ call'[v].id \in minted'
                      /\ call'[v].challenge = None
                      /\ owner'[Pledged(v)'] = call'[v].id
                      /\ Pledged(v)' \notin revealed'
                      /\ \A u \in Workers : call'[u].challenge # Pledged(v)'
                      /\ \A id \in Ids : sessions'[id] # None => sessions'[id].challenge # Pledged(v)'
                      /\ \A u \in Workers : Pending(u)' /\ u # v => Pledged(u)' # Pledged(v)'
    BY DEF PendingChallengeSecret
  <2>1. /\ Pending(v) /\ v # w /\ call'[v] = call[v] /\ Pledged(v)' = Pledged(v)
        /\ Pledged(v) \in Challenges /\ Pledged(v) # None /\ Pledged(v) # c
    BY <1>7, <1>9, NoneAssumption DEF TypeOK, CallsOK, Pledged
  <2>2. QED
    BY <1>2, <1>3, <1>7, <1>8, <2>1 DEF IInv, PendingChallengeSecret, Pledged
<1>17. InitiatePrivate'
  <2> SUFFICES ASSUME NEW v \in Workers, Pending(v)', call'[v].op = "initiate"
               PROVE  /\ call'[v].session.state = "Active"
                      /\ call'[v].session.public_key = None
                      /\ sessions'[call'[v].id] = None
                      /\ \A r \in revealed' : owner'[r] # call'[v].id
                      /\ \A u \in Workers :
                           call'[u].challenge # None
                             => owner'[call'[u].challenge] # call'[v].id
                      /\ \A u \in Workers :
                           Pending(u)' /\ u # v => call'[u].id # call'[v].id
    BY DEF InitiatePrivate
  <2>1. Pending(v) /\ v # w /\ call'[v] = call[v] /\ call[v].id # i /\ call[v].id \in Ids
    BY <1>7, <1>14 DEF TypeOK, CallsOK
  <2>2. QED
    BY <1>3, <1>7, <1>8, <1>9, <2>1 DEF IInv, InitiatePrivate
<1>18. PendingProofChecked'
  <2> SUFFICES ASSUME NEW v \in Workers, Pending(v), call'[v] = call[v],
                      call[v].op # "initiate"
               PROVE  /\ call[v].session.state = "Bound"
                      /\ call[v].proof.jti \in revealed
                      /\ owner[call[v].proof.jti] = call[v].id
                      /\ call[v].session.public_key # None =>
                           call[v].proof.signer = call[v].session.public_key
                      /\ call[v].op = "refresh" =>
                           Registered(call[v].id, call[v].proof.signer)
    BY <1>4, <1>7 DEF PendingProofChecked, Registered
  <2>1. QED
    BY DEF IInv, PendingProofChecked
<1>19. AcceptedRevealed'
  BY <1>5, <1>11 DEF IInv, AcceptedRevealed
<1>20. ProofsStayInTheirSession'
  BY <1>5, <1>11 DEF IInv, ProofsStayInTheirSession
<1>21. StoredChallengeUnspent'
  <2> SUFFICES ASSUME NEW id \in Ids, sessions'[id] # None, NEW a \in accepted'
               PROVE  sessions'[id].challenge # a.proof.jti
    BY DEF StoredChallengeUnspent, Spent
  <2>1. CASE id = i
    BY <1>2, <1>3, <1>9, <1>19, <2>1 DEF AcceptedRevealed
  <2>2. CASE id # i /\ a \in accepted
    BY <1>3, <2>2 DEF IInv, StoredChallengeUnspent, Spent
  <2>3. CASE id # i /\ a \notin accepted
    BY <1>3, <1>5, <1>11, <2>3 DEF IInv, ChallengesOwned
  <2>4. QED
    BY <2>1, <2>2, <2>3
<1>22. KeysAreProved'
  <2>1. ASSUME NEW id \in Ids, sessions'[id] # None, sessions'[id].public_key # None
        PROVE  RegisteredAfter(id, sessions'[id].public_key)
    <3>1. CASE id = i
      <4>1. call[w].op # "initiate"
        BY <1>3, <1>10, <2>1, <3>1
      <4>2. call[w].op \in {"register", "refresh"} /\ p.signer = s.public_key
        BY <1>2, <1>3, <1>11, <2>1, <3>1, <4>1 DEF Operations
      <4>3. QED
        BY <1>3, <1>13, <3>1, <4>2
    <3>2. CASE id # i
      BY <1>3, <1>12, <2>1, <3>2 DEF IInv, KeysAreProved
    <3>3. QED
      BY <3>1, <3>2
  <2>2. ASSUME NEW a \in accepted', a.op = "refresh"
        PROVE  RegisteredAfter(a.id, a.proof.signer)
    <3>1. CASE a \in accepted
      BY <1>12, <2>2, <3>1 DEF IInv, KeysAreProved
    <3>2. CASE call[w].op = "refresh" /\ a.id = i /\ a.proof = p
      BY <1>13, <3>2
    <3>3. QED
      BY <1>5, <2>2, <3>1, <3>2
  <2>3. QED
    BY <2>1, <2>2 DEF KeysAreProved, Registered
<1>23. NeverUnbound'
  <2> SUFFICES ASSUME NEW a \in accepted', sessions'[a.id] # None
               PROVE  sessions'[a.id].state = "Bound"
    BY DEF NeverUnbound
  <2>1. a.id \in Ids
    BY <1>4 DEF Acceptances
  <2>2. CASE a.id # i
    BY <1>3, <1>5, <2>1, <2>2 DEF IInv, NeverUnbound
  <2>3. CASE a.id = i /\ call[w].op # "initiate"
    BY <1>3, <1>11, <2>3
  <2>4. CASE a.id = i /\ call[w].op = "initiate"
    BY <1>5, <1>10, <2>4 DEF IInv, ProofsStayInTheirSession, AcceptedRevealed
  <2>5. QED
    BY <2>2, <2>3, <2>4
<1>24. QED
  BY <1>15, <1>16, <1>17, <1>18, <1>19, <1>20, <1>21, <1>22, <1>23 DEF IInv

-----------------------------------------------------------------------------
(***************************************************************************)
(* Every action is one of the kinds of steps above.                        *)
(***************************************************************************)

(* The early returns of register and refresh. *)
LEMMA AnswersStep ==
  ASSUME TypeOK, IInv, NEW w \in Workers, NEW id \in Ids, Answers(w, id),
         UNCHANGED <<sessions, minted, revealed, accepted>>
  PROVE  IInv'
<1>1. PICK status \in {Failed, 200, 400, 401, 403}, c \in Option(Challenges) :
        /\ Return(w, status, c)
        /\ owner' = owner
        /\ c # None => sessions[id] # None /\ c = sessions[id].challenge
  BY DEF Answers
<1>2. Rests(w, c)
  BY <1>1, ReturnCalls DEF Rests, TypeOK
<1>3. Removal
  BY <1>1 DEF Removal
<1>4. QED
  BY <1>1, <1>2, <1>3, RestStep

(* initiate starts on a session nobody knows. *)
LEMMA InitiateStep ==
  ASSUME TypeOK, IInv, NEW w \in Workers, NEW user \in Users, Initiate(w, user)
  PROVE  IInv'
<1>1. PICK id \in Ids \ minted, c \in Fresh :
        /\ Proceed(w, "initiate", id, Rotate(NewSession(user, now), c), None)
        /\ minted' = minted \cup {id}
        /\ owner' = [owner EXCEPT ![c] = id]
  BY DEF Initiate
<1> DEFINE s == Rotate(NewSession(user, now), c)
<1>2. c \in Challenges /\ now \in Int /\ None \in Option(Token) /\ "initiate" \in Operations
  BY ManagerAssumption DEF Fresh, TypeOK, Option, Operations
<1>3. s \in Session /\ s.challenge = c /\ s.state = "Active" /\ s.public_key = None
  BY <1>2, NewSessionType
<1>4. call[w].pc = "idle" /\ UNCHANGED <<sessions, revealed, accepted>>
  BY DEF Initiate
<1> HIDE DEF s
<1>5. QED
  BY <1>1, <1>2, <1>3, <1>4, StartStep DEF s

(* register starts with a proof over the challenge it read. *)
LEMMA RegisterStep ==
  ASSUME TypeOK, IInv, NEW w \in Workers, NEW id \in Ids, NEW proof \in Headers,
         Register(w, id, proof)
  PROVE  IInv'
<1>1. UNCHANGED <<sessions, now, minted, revealed, accepted>> /\ call[w].pc = "idle"
  BY DEF Register, Arrives
<1>2. CASE Answers(w, id)
  BY <1>1, <1>2, AnswersStep
<1>3. ASSUME NEW c \in Fresh, RegisterAccepts(w, id, proof, c)
      PROVE  IInv'
  <2> DEFINE s == Bind(sessions[id], proof, c)
  <2>1. /\ sessions[id] \in Session /\ proof \in Token /\ sessions[id] # None
        /\ proof.jti = sessions[id].challenge
        /\ proof.jti # None /\ (proof.jwk # None => proof.signer = proof.jwk)
    BY <1>3, VerifyRegistration, NoSessionAssumption DEF RegisterAccepts, ChallengeMatches
  <2>2. c \in Challenges /\ proof \in Option(Token) /\ "register" \in Operations
    BY <2>1 DEF Fresh, Option, Operations
  <2>3. s \in Session /\ s.challenge = c /\ s.state = "Bound" /\ s.public_key = proof.jwk
    BY <2>1, <2>2, BindType
  <2>4. id \in minted /\ owner[proof.jti] = id
    BY <2>1 DEF IInv, ChallengesOwned
  <2>5. proof.jti \in revealed
    BY <2>1, HeaderType, NoTokenAssumption DEF TypeOK, Option
  <2>6. Proceed(w, "register", id, s, proof) /\ owner' = [owner EXCEPT ![c] = id]
        /\ minted' = minted \cup {id}
    BY <1>1, <1>3, <2>4 DEF RegisterAccepts
  <2> HIDE DEF s
  <2>7. QED
    BY <1>1, <2>1, <2>2, <2>3, <2>4, <2>5, <2>6, StartStep
<1>4. QED
  BY <1>2, <1>3, RegisterCases

(* refresh starts with a proof signed by the key it read. *)
LEMMA RefreshStep ==
  ASSUME TypeOK, IInv, NEW w \in Workers, NEW id \in Ids, NEW proof \in Headers,
         Refresh(w, id, proof)
  PROVE  IInv'
<1>1. UNCHANGED <<sessions, now, minted, revealed, accepted>> /\ call[w].pc = "idle"
  BY DEF Refresh, Arrives
<1>2. CASE Answers(w, id)
  BY <1>1, <1>2, AnswersStep
<1>3. ASSUME NEW c \in Fresh, RefreshAccepts(w, id, proof, c)
      PROVE  IInv'
  <2> DEFINE s == Rotate(sessions[id], c)
             k == sessions[id].public_key
  <2>1. /\ sessions[id] \in Session /\ proof \in Token /\ sessions[id] # None
        /\ sessions[id].state = "Bound" /\ k # None
        /\ proof.jti = sessions[id].challenge
        /\ proof.jti # None /\ proof.signer = k
    BY <1>3, VerifyRefresh, NoSessionAssumption DEF RefreshAccepts, ChallengeMatches
  <2>2. c \in Challenges /\ proof \in Option(Token) /\ "refresh" \in Operations
    BY <2>1 DEF Fresh, Option, Operations
  <2>3. s \in Session /\ s.challenge = c /\ s.state = "Bound" /\ s.public_key = k
    BY <2>1, <2>2, RotateType
  <2>4. id \in minted /\ owner[proof.jti] = id /\ Registered(id, proof.signer)
    BY <2>1 DEF IInv, ChallengesOwned, KeysAreProved
  <2>5. proof.jti \in revealed
    BY <2>1, HeaderType, NoTokenAssumption DEF TypeOK, Option
  <2>6. Proceed(w, "refresh", id, s, proof) /\ owner' = [owner EXCEPT ![c] = id]
        /\ minted' = minted \cup {id}
    BY <1>1, <1>3, <2>4 DEF RefreshAccepts
  <2> HIDE DEF s, k
  <2>7. QED
    BY <1>1, <2>1, <2>2, <2>3, <2>4, <2>5, <2>6, StartStep
<1>4. QED
  BY <1>2, <1>3, RefreshCases

(* The calls that answer without a challenge. *)
LEMMA EmptyReplyStep ==
  ASSUME TypeOK, IInv, NEW w \in Workers, Removal,
         Return(w, Failed, None) \/ Return(w, 200, None) \/ call' = [call EXCEPT ![w] = Idle]
  PROVE  IInv'
<1>1. None \in Option(Challenges)
  BY DEF Option
<1>2. Rests(w, None)
  BY <1>1, ReturnCalls, IdleCalls DEF Rests, TypeOK
<1>3. QED
  BY <1>1, <1>2, RestStep

(* delete and delete_by_user_id remove sessions and change none. *)
LEMMA DeleteStep ==
  ASSUME TypeOK
  PROVE  /\ \A i, id \in Ids : delete(sessions, id)[i] \in {sessions[i], None}
         /\ \A user \in Users, i \in Ids :
              delete_by_user_id(sessions, user)[i] \in {sessions[i], None}
BY DEF TypeOK, Store, delete, delete_by_user_id

(* The write, with or without an error reported. *)
LEMMA WritesStep ==
  ASSUME TypeOK, IInv, NEW w \in Workers, Write(w) \/ WriteFails(w)
  PROVE  IInv'
<1>1. /\ call[w].pc = "write" /\ Pledged(w) \in Option(Challenges)
      /\ None \in Option(Challenges)
  BY DEF Write, WriteFails, TypeOK, CallsOK, Pending, Pledged, Option
<1>2. CASE Write(w)
  <2>1. Rests(w, Pledged(w))
    BY <1>1, <1>2, ReturnCalls DEF Write, Rests, TypeOK, Pledged
  <2>2. QED
    BY <1>1, <1>2, <2>1, WriteStep DEF Write
<1>3. CASE WriteFails(w)
  <2>1. Rests(w, None) /\ Return(w, Failed, None) /\ UNCHANGED <<minted, owner, revealed>>
    BY <1>1, <1>3, ReturnCalls DEF WriteFails, Rests, TypeOK
  <2>2. CASE UNCHANGED <<sessions, accepted>>
    BY <2>1, <2>2, EmptyReplyStep DEF Removal
  <2>3. CASE sessions' = Written(w) /\ accepted' = accepted \cup Acceptance(w)
    BY <1>1, <2>1, <2>3, WriteStep
  <2>4. QED
    BY <1>3, <2>2, <2>3 DEF WriteFails
<1>4. QED
  BY <1>2, <1>3

(* The invariant holds initially and is kept by every action. *)
LEMMA InvariantHolds == Spec => []IInv
<1>1. Init => IInv
  BY NoneAssumption
     DEF Init, IInv, ChallengesOwned, PendingChallengeSecret, InitiatePrivate,
         PendingProofChecked, AcceptedRevealed, StoredChallengeUnspent,
         ProofsStayInTheirSession, KeysAreProved, NeverUnbound, Pending, Idle
<1>2. TypeOK /\ IInv /\ [Next]_vars => IInv'
  <2> SUFFICES ASSUME TypeOK, IInv, [Next]_vars PROVE IInv'
    OBVIOUS
  <2>1. ASSUME NEW w \in Workers, NEW id \in Ids,
               GetFails(w, id) \/ Close(w, id) \/ CloseFails(w, id)
        PROVE  IInv'
    BY <2>1, EmptyReplyStep, DeleteStep DEF GetFails, Close, CloseFails, Removal
  <2>2. ASSUME NEW w \in Workers, ApplyTtlPanics(w) \/ Lose(w)
        PROVE  IInv'
    BY <2>2, EmptyReplyStep DEF ApplyTtlPanics, Lose, Removal
  <2>3. ASSUME NEW user \in Users, DropUser(user)
        PROVE  IInv'
    BY <2>3, RemovalStep, DeleteStep DEF DropUser, Removal
  <2>4. CASE Tick \/ UNCHANGED vars
    BY <2>4, RemovalStep DEF Tick, vars, Removal
  <2>5. QED
    BY <2>1, <2>2, <2>3, <2>4, InitiateStep, RegisterStep, RefreshStep, TtlStep,
       WritesStep, DeliverStep
       DEF Next, Step
<1>3. QED
  BY <1>1, <1>2, TypeCorrect, PTL DEF Spec

-----------------------------------------------------------------------------
(***************************************************************************)
(* A challenge whose proof has taken effect is never current again, however*)
(* many threads write stale clones back over each other: every update      *)
(* stores a challenge that only its own call has ever seen.                *)
(***************************************************************************)
THEOREM ChallengesStaySpent == Spec => []StoredChallengeUnspent
BY InvariantHolds, PTL DEF IInv

(***************************************************************************)
(* A proof over a challenge of one session never takes effect on another   *)
(* session: register and refresh compare the `jti` with a challenge that   *)
(* was generated for the very session they update.                         *)
(***************************************************************************)
THEOREM ProofsStay == Spec => []ProofsStayInTheirSession
BY InvariantHolds, PTL DEF IInv

(***************************************************************************)
(* The key a session is bound to has signed an accepted registration of    *)
(* that session, and every accepted refresh was signed by such a key.      *)
(***************************************************************************)
THEOREM KeysProved == Spec => []KeysAreProved
BY InvariantHolds, PTL DEF IInv

(***************************************************************************)
(* No interleaving undoes a binding: after an accepted proof the session   *)
(* is stored as Bound or not at all.                                       *)
(***************************************************************************)
THEOREM BindingLasts == Spec => []NeverUnbound
BY InvariantHolds, PTL DEF IInv

-----------------------------------------------------------------------------
(* A worker that holds nothing afterwards takes nothing away from the dead *)
(* and brings nothing back.                                                *)
LEMMA DeadWhenReleased ==
  ASSUME NEW id \in Ids, Dead(id), now' = now, minted \subseteq minted',
         sessions'[id] \in {sessions[id], None},
         \A v \in Workers : Pending(v)' => Pending(v) /\ call'[v].id = call[v].id
  PROVE  Dead(id)'
BY DEF Dead, Gone, Held, HeldBy

(* Neither does a worker that starts on another session. *)
LEMMA DeadWhenOther ==
  ASSUME TypeOK, NEW id \in Ids, Dead(id), NEW w \in Workers, NEW i, i # id,
         NEW op, NEW s, NEW p, Proceed(w, op, i, s, p),
         minted \subseteq minted', UNCHANGED <<sessions, now>>
  PROVE  Dead(id)'
<1>1. call'[w].id = i /\ \A v \in Workers : v # w => call'[v] = call[v]
  BY DEF Proceed, TypeOK, CallsOK
<1>2. QED
  BY <1>1 DEF Dead, Gone, Held, HeldBy, Pending

(***************************************************************************)
(* While the clock does not step back, a session that has been closed,     *)
(* dropped or has expired, and that no call has a clone of, is over for    *)
(* good: SessionStore::get hands out nothing a call could write back.      *)
(***************************************************************************)
THEOREM TheDeadStayDead ==
  ASSUME ~ClockStepsBack
  PROVE  Spec => DeadStaysDead
<1>1. TypeOK /\ [Next]_vars => [\A id \in Ids : Dead(id) => Dead(id)']_vars
  <2> SUFFICES ASSUME TypeOK, Next, NEW id \in Ids, Dead(id)
               PROVE  Dead(id)'
    OBVIOUS
  <2>1. get(sessions, id, now) = None
    BY DEF Dead, Gone, get
  <2>2. ASSUME NEW w \in Workers, NEW i \in Ids, Answers(w, i),
               UNCHANGED <<sessions, now, minted>>
        PROVE  Dead(id)'
    <3>1. \A v \in Workers : Pending(v)' => Pending(v) /\ call'[v].id = call[v].id
      BY <2>2, ReturnCalls DEF Answers, TypeOK, Pending
    <3>2. QED
      BY <2>2, <3>1, DeadWhenReleased
  <2>3. ASSUME NEW w \in Workers, NEW user \in Users, Initiate(w, user)
        PROVE  Dead(id)'
    <3>1. PICK i \in Ids \ minted, c \in Fresh :
            /\ Proceed(w, "initiate", i, Rotate(NewSession(user, now), c), None)
            /\ minted' = minted \cup {i}
      BY <2>3 DEF Initiate
    <3>2. i # id
      BY <3>1 DEF Dead
    <3>3. QED
      BY <2>3, <3>1, <3>2, DeadWhenOther DEF Initiate
  <2>4. ASSUME NEW w \in Workers, NEW i \in Ids, NEW proof \in Headers,
               Register(w, i, proof)
        PROVE  Dead(id)'
    <3>1. UNCHANGED <<sessions, now, minted>>
      BY <2>4 DEF Register
    <3>2. CASE i = id
      BY <2>1, <2>2, <2>4, <3>1, <3>2, RegisterCases DEF RegisterAccepts
    <3>3. CASE i # id
      BY <2>2, <2>4, <3>1, <3>3, RegisterCases, DeadWhenOther DEF RegisterAccepts
    <3>4. QED
      BY <3>2, <3>3
  <2>5. ASSUME NEW w \in Workers, NEW i \in Ids, NEW proof \in Headers,
               Refresh(w, i, proof)
        PROVE  Dead(id)'
    <3>1. UNCHANGED <<sessions, now, minted>>
      BY <2>5 DEF Refresh
    <3>2. CASE i = id
      BY <2>1, <2>2, <2>5, <3>1, <3>2, RefreshCases DEF RefreshAccepts
    <3>3. CASE i # id
      BY <2>2, <2>5, <3>1, <3>3, RefreshCases, DeadWhenOther DEF RefreshAccepts
    <3>4. QED
      BY <3>2, <3>3
  <2>6. ASSUME NEW w \in Workers, NEW i \in Ids,
               GetFails(w, i) \/ Close(w, i) \/ CloseFails(w, i)
        PROVE  Dead(id)'
    <3>1. \A v \in Workers : Pending(v)' => Pending(v) /\ call'[v].id = call[v].id
      BY <2>6, ReturnCalls DEF GetFails, Close, CloseFails, TypeOK, Pending, Option
    <3>2. QED
      BY <2>6, <3>1, DeadWhenReleased, DeleteStep DEF GetFails, Close, CloseFails
  <2>7. ASSUME NEW w \in Workers, ApplyTtl(w)
        PROVE  Dead(id)'
    <3>1. \A v \in Workers : Pending(v)' => Pending(v) /\ call'[v].id = call[v].id
      BY <2>7, TtlCalls DEF TypeOK, Pending
    <3>2. QED
      BY <2>7, <3>1, DeadWhenReleased DEF ApplyTtl
  <2>8. ASSUME NEW w \in Workers, ApplyTtlPanics(w)
        PROVE  Dead(id)'
    <3>1. \A v \in Workers : Pending(v)' => Pending(v) /\ call'[v].id = call[v].id
      BY <2>8, ReturnCalls DEF ApplyTtlPanics, TypeOK, Pending, Option
    <3>2. QED
      BY <2>8, <3>1, DeadWhenReleased DEF ApplyTtlPanics
  <2>9. ASSUME NEW w \in Workers, Write(w) \/ WriteFails(w)
        PROVE  Dead(id)'
    <3>1. call[w].pc = "write" /\ Pending(w) /\ call[w].session.challenge \in Challenges
          /\ call[w].id # id
      BY <2>9 DEF Write, WriteFails, Pending, TypeOK, CallsOK, Dead, Held, HeldBy
    <3>2. Written(w)[id] = sessions[id]
      BY <3>1, WriteType DEF TypeOK, Store
    <3>3. \A v \in Workers : Pending(v)' => Pending(v) /\ call'[v].id = call[v].id
      BY <2>9, <3>1, ReturnCalls DEF Write, WriteFails, TypeOK, Pending, Option
    <3>4. QED
      BY <2>9, <3>2, <3>3, DeadWhenReleased DEF Write, WriteFails
  <2>10. ASSUME NEW w \in Workers, Deliver(w) \/ Lose(w)
         PROVE  Dead(id)'
    <3>1. \A v \in Workers : Pending(v)' => Pending(v) /\ call'[v].id = call[v].id
      BY <2>10, IdleCalls DEF Deliver, Lose, TypeOK, Pending
    <3>2. QED
      BY <2>10, <3>1, DeadWhenReleased DEF Deliver, Lose
  <2>11. ASSUME NEW user \in Users, DropUser(user)
         PROVE  Dead(id)'
    BY <2>11, DeadWhenReleased, DeleteStep DEF DropUser, Pending
  <2>12. CASE Tick
    <3>1. now \in Int /\ now' \in Int /\ now < now'
      BY <2>12, ManagerAssumption DEF Tick, TypeOK
    <3>2. sessions[id] # None => sessions[id].expires_at \in Option(Int)
      BY DEF TypeOK, Store, Option, Session
    <3>3. Gone(id)'
      BY <2>12, <3>1, <3>2, NoSessionAssumption
         DEF Tick, Dead, Gone, is_expired, Option
    <3>4. QED
      BY <2>12, <3>3 DEF Tick, Dead, Held, HeldBy, Pending
  <2>13. QED
    BY <2>3, <2>4, <2>5, <2>6, <2>7, <2>8, <2>9, <2>10, <2>11, <2>12 DEF Next, Step
<1>2. QED
  BY <1>1, TypeCorrect, PTL DEF Spec, DeadStaysDead

-----------------------------------------------------------------------------
(* Keys of bound sessions *)

(* A proof on its way to the store brings a key, or is an unsigned         *)
(* registration, as only a client that sends such makes it.                *)
BringsKey ==
  \A w \in Workers :
    /\ Pending(w) /\ call[w].op # "initiate"
    /\ call[w].session.public_key = None
    => /\ call[w].op = "register" /\ call[w].proof.alg = "none"
       /\ \E sh \in Shapes : sh.alg = "none"

(* A registration without a key is unsigned: verify_registration. *)
LEMMA KeylessProof ==
  ASSUME NEW proof \in Token, verify_registration(proof) = "ok", proof.jwk = None
  PROVE  proof.alg = "none"
<1>1. proof.alg \in Algorithms
  BY DEF Token
<1>2. decode(proof) = "ok"
  BY DEF verify_registration
<1> QED
  BY <1>1, <1>2 DEF verify_registration, Algorithms

(* The algorithm of a proof is that of its shape. *)
LEMMA ShapeOfProof ==
  ASSUME NEW proof \in Headers, proof # None
  PROVE  \E sh \in Shapes : proof.alg = sh.alg
<1>1. PICK sh \in Shapes, c \in Option(revealed) : proof = [sh EXCEPT !.jti = c]
  BY DEF Headers
<1> QED
  BY <1>1, ManagerAssumption DEF Token

LEMMA BringsKeyStep ==
  ASSUME TypeOK, BringsKey, [Next]_vars
  PROVE  BringsKey'
<1>1. ASSUME NEW w \in Workers, NEW id \in Ids, NEW proof \in Headers,
             Register(w, id, proof)
      PROVE  BringsKey'
  <2>1. CASE Answers(w, id)
    BY <2>1, ReturnCalls DEF Answers, TypeOK, Pending, BringsKey
  <2>2. ASSUME NEW c \in Fresh, RegisterAccepts(w, id, proof, c)
        PROVE  BringsKey'
    <3>1. /\ sessions[id] \in Session /\ proof \in Token /\ c \in Challenges
          /\ proof # None /\ verify_registration(proof) = "ok"
      BY <2>2, NoTokenAssumption DEF RegisterAccepts, Fresh
    <3>2. Bind(sessions[id], proof, c).public_key = None
            => proof.alg = "none" /\ \E sh \in Shapes : sh.alg = "none"
      BY <3>1, BindType, KeylessProof, ShapeOfProof
    <3>3. /\ call'[w].session = Bind(sessions[id], proof, c)
          /\ call'[w].op = "register" /\ call'[w].proof = proof
          /\ \A v \in Workers : v # w => call'[v] = call[v]
      BY <2>2 DEF RegisterAccepts, Proceed, TypeOK, CallsOK
    <3> QED
      BY <3>2, <3>3 DEF BringsKey, Pending
  <2> QED
    BY <1>1, <2>1, <2>2, RegisterCases
<1>2. ASSUME NEW w \in Workers, NEW id, NEW s, NEW p, Proceed(w, "initiate", id, s, p)
      PROVE  BringsKey'
  <2>1. call'[w].op = "initiate" /\ \A v \in Workers : v # w => call'[v] = call[v]
    BY <1>2 DEF Proceed, TypeOK, CallsOK
  <2> QED
    BY <2>1 DEF BringsKey, Pending
<1>3. ASSUME NEW w \in Workers, NEW id \in Ids, NEW proof \in Headers,
             Refresh(w, id, proof)
      PROVE  BringsKey'
  <2>1. CASE Answers(w, id)
    BY <2>1, ReturnCalls DEF Answers, TypeOK, Pending, BringsKey
  <2>2. ASSUME NEW c \in Fresh, RefreshAccepts(w, id, proof, c)
        PROVE  BringsKey'
    <3>1. Rotate(sessions[id], c).public_key # None
      BY <2>2, RotateType DEF RefreshAccepts, Fresh
    <3>2. /\ call'[w].session = Rotate(sessions[id], c)
          /\ \A v \in Workers : v # w => call'[v] = call[v]
      BY <2>2 DEF RefreshAccepts, Proceed, TypeOK, CallsOK
    <3> QED
      BY <3>1, <3>2 DEF BringsKey, Pending
  <2> QED
    BY <1>3, <2>1, <2>2, RefreshCases
<1>4. ASSUME NEW w \in Workers, ApplyTtl(w)
      PROVE  BringsKey'
  <2>1. /\ Pending(w) /\ call'[w].op = call[w].op /\ call'[w].proof = call[w].proof
        /\ call'[w].session.public_key = call[w].session.public_key
        /\ \A v \in Workers : v # w => call'[v] = call[v]
    BY <1>4, TtlCalls DEF TypeOK
  <2> QED
    BY <2>1 DEF BringsKey, Pending
<1>5. ASSUME NEW w \in Workers, \A v \in Workers : v # w => call'[v] = call[v], ~Pending(w)'
      PROVE  BringsKey'
  BY <1>5 DEF BringsKey, Pending
<1>6. ASSUME NEW w \in Workers,
             \/ \E id \in Ids : GetFails(w, id) \/ Close(w, id) \/ CloseFails(w, id)
             \/ ApplyTtlPanics(w) \/ Write(w) \/ WriteFails(w) \/ Deliver(w) \/ Lose(w)
      PROVE  BringsKey'
  <2>1. call[w].pc = "write" => call[w].session.challenge \in Option(Challenges)
    BY DEF TypeOK, CallsOK, Pending, Option
  <2>2. \/ \E status \in {Failed, 200}, c \in Option(Challenges) : Return(w, status, c)
        \/ call' = [call EXCEPT ![w] = Idle]
    BY <1>6, <2>1 DEF GetFails, Close, CloseFails, ApplyTtlPanics, Write, WriteFails, Deliver,
                      Lose, Option
  <2>3. ~Pending(w)' /\ \A v \in Workers : v # w => call'[v] = call[v]
    BY <2>2, ReturnCalls, IdleCalls DEF TypeOK
  <2> QED
    BY <1>5, <2>3
<1>7. CASE UNCHANGED call
  BY <1>7 DEF BringsKey, Pending
<1> QED
  BY <1>1, <1>2, <1>3, <1>4, <1>6, <1>7 DEF Next, Step, Initiate, DropUser, Tick, vars

LEMMA BringsKeyAlways == Spec => []BringsKey
<1>1. Init => BringsKey
  BY DEF Init, BringsKey, Pending, Idle
<1>2. TypeOK /\ BringsKey /\ [Next]_vars => BringsKey'
  BY BringsKeyStep
<1> QED
  BY <1>1, <1>2, TypeCorrect, PTL DEF Spec

(* Everything but a write leaves a stored session as it is or removes it,  *)
(* and a write has accepted the proof of its call.                         *)
LEMMA OthersSpare ==
  ASSUME TypeOK, [Next]_vars, NEW id \in Ids, sessions'[id] # None
  PROVE  /\ accepted \subseteq accepted'
         /\ \/ sessions'[id] = sessions[id]
            \/ \E w \in Workers : /\ call[w].pc = "write" /\ sessions' = Written(w)
                                  /\ accepted' = accepted \cup Acceptance(w)
<1>1. ASSUME NEW w \in Workers, Step(w)
      PROVE  /\ accepted \subseteq accepted'
             /\ \/ UNCHANGED sessions
                \/ \E i \in Ids : sessions' = delete(sessions, i)
                \/ /\ call[w].pc = "write" /\ sessions' = Written(w)
                   /\ accepted' = accepted \cup Acceptance(w)
  BY <1>1 DEF Step, Initiate, Register, Refresh, GetFails, Close, CloseFails, ApplyTtl,
              ApplyTtlPanics, Write, WriteFails, Deliver, Lose
<1>2. \A i \in Ids : delete(sessions, i)[id] \in {sessions[id], None}
  BY DEF delete, TypeOK, Store
<1>3. ASSUME NEW user \in Users, DropUser(user)
      PROVE  sessions'[id] \in {sessions[id], None} /\ UNCHANGED accepted
  BY <1>3 DEF DropUser, delete_by_user_id
<1>4. CASE Tick \/ UNCHANGED vars
  BY <1>4 DEF Tick, vars
<1> QED
  BY <1>1, <1>2, <1>3, <1>4 DEF Next

(***************************************************************************)
(* KeylessIsUnsigned (register's Bind of what verify_registration has let  *)
(* through, and refresh's check of public_key): a bound session without a  *)
(* key was bound by a registration with alg none, whatever calls overlap,  *)
(* fail, or write back what they read before others wrote.                 *)
(***************************************************************************)
THEOREM KeylessSessionsAreUnsigned == Spec => []KeylessIsUnsigned
<1>1. Init => KeylessIsUnsigned
  BY DEF Init, KeylessIsUnsigned
<1>2. TypeOK /\ IInv /\ BringsKey /\ KeylessIsUnsigned /\ [Next]_vars => KeylessIsUnsigned'
  <2> SUFFICES ASSUME TypeOK, IInv, BringsKey, KeylessIsUnsigned, [Next]_vars, NEW id \in Ids,
                      sessions'[id] # None, sessions'[id].state = "Bound",
                      sessions'[id].public_key = None
               PROVE  \E a \in accepted' :
                        a.op = "register" /\ a.id = id /\ a.proof.alg = "none"
    BY DEF KeylessIsUnsigned
  <2>1. CASE sessions'[id] = sessions[id]
    BY <2>1, OthersSpare DEF KeylessIsUnsigned
  <2>2. ASSUME NEW w \in Workers, call[w].pc = "write", sessions' = Written(w),
               accepted' = accepted \cup Acceptance(w)
        PROVE  \E a \in accepted' : a.op = "register" /\ a.id = id /\ a.proof.alg = "none"
    <3>1. Pending(w) /\ call[w].id \in Ids
      BY <2>2 DEF Pending, TypeOK, CallsOK
    <3>2. sessions'[id] = IF id = call[w].id THEN call[w].session ELSE sessions[id]
      BY <2>2, <3>1, WriteType DEF TypeOK, Store
    <3>3. CASE id # call[w].id
      BY <2>2, <3>2, <3>3 DEF KeylessIsUnsigned
    <3>4. CASE id = call[w].id
      <4>1. call[w].op # "initiate"
        BY <3>1, <3>2, <3>4 DEF IInv, InitiatePrivate
      <4>2. call[w].op = "register" /\ call[w].proof.alg = "none"
        BY <3>1, <3>2, <3>4, <4>1 DEF BringsKey
      <4> DEFINE a == [op |-> call[w].op, id |-> call[w].id, proof |-> call[w].proof,
                       next |-> call[w].session.challenge]
      <4>3. a \in accepted'
        BY <2>2, <4>1 DEF Acceptance
      <4> QED
        BY <3>4, <4>2, <4>3
    <3> QED
      BY <3>3, <3>4
  <2> QED
    BY <2>1, <2>2, OthersSpare
<1> QED
  BY <1>1, <1>2, TypeCorrect, InvariantHolds, BringsKeyAlways, PTL DEF Spec

-----------------------------------------------------------------------------
(***************************************************************************)
(* The expiry of stored sessions, with a clock that does not step back and *)
(* a TTL that does not overflow.                                           *)
(***************************************************************************)

(* No sum of the clock and the TTL leaves the range of i64. *)
TtlFits == Ttl # None => MaxTime + Ttl <= I64Max

(* The expiry was computed from a clock between the creation and now. *)
InTtl(s) ==
  /\ s.expires_at \in Int
  /\ s.created_at + Ttl <= s.expires_at
  /\ s.expires_at <= now + Ttl

(* A clone not yet past apply_ttl carries an expiry that does not count. *)
ExpiryInv ==
  /\ \A id \in Ids : sessions[id] # None => InTtl(sessions[id])
  /\ \A w \in Workers : Pending(w) =>
       /\ call[w].session.created_at <= now
       /\ call[w].pc = "write" => InTtl(call[w].session)

(* The cast and the sum of apply_ttl are those of the integers. *)
LEMMA ApplyTtlExpiry ==
  ASSUME Ttl # None, TtlFits, NEW t \in 0 .. MaxTime, NEW s \in Session,
         s.created_at <= t
  PROVE  /\ apply_ttl(s, t).expires_at = t + Ttl
         /\ apply_ttl(s, t).created_at = s.created_at
<1>1. Ttl \in Nat /\ MaxTime \in Nat /\ t \in Nat /\ Ttl <= I64Max /\ t + Ttl <= I64Max
  BY TtlAssumption, I64Assumption, ManagerAssumption DEF TtlFits, Option
<1>2. ExpiryAt(t) = t + Ttl
  BY <1>1, I64Assumption DEF ExpiryAt, AsI64
<1> QED
  BY <1>2 DEF apply_ttl, Session

(* Steps that start no call, write nothing and do not turn the clock back. *)
LEMMA AgeingStep ==
  ASSUME Ttl # None, TypeOK, TypeOK', ExpiryInv, now <= now',
         \A id \in Ids : sessions'[id] \in {sessions[id], None},
         \A v \in Workers : Pending(v)' => Pending(v) /\ call'[v] = call[v]
  PROVE  ExpiryInv'
<1>1. now \in Int /\ now' \in Int /\ Ttl \in Int
  BY ManagerAssumption, TtlAssumption, I64Assumption DEF TypeOK, Option
<1>2. ASSUME NEW s \in Session, InTtl(s)
      PROVE  s.expires_at <= now' + Ttl
  BY <1>1, <1>2 DEF InTtl, Session
<1>3. ASSUME NEW id \in Ids, sessions'[id] # None
      PROVE  InTtl(sessions[id])'
  BY <1>2, <1>3 DEF ExpiryInv, InTtl, TypeOK, Store, Option
<1>4. ASSUME NEW v \in Workers, Pending(v)'
      PROVE  /\ call'[v].session.created_at <= now'
             /\ call'[v].pc = "write" => InTtl(call[v].session)'
  <2>1. /\ Pending(v) /\ call'[v] = call[v] /\ call[v].session \in Session
        /\ call[v].session.created_at \in Int /\ call[v].session.created_at <= now
    BY <1>4 DEF TypeOK, CallsOK, ExpiryInv, Session
  <2> QED
    BY <1>1, <1>2, <2>1 DEF ExpiryInv, InTtl
<1> QED
  BY <1>3, <1>4 DEF ExpiryInv

(* A call starts with a clone that was created by now. *)
LEMMA StartAge ==
  ASSUME TypeOK, ExpiryInv, NEW w \in Workers, NEW op, NEW id, NEW s, NEW p,
         Proceed(w, op, id, s, p), s.created_at <= now,
         UNCHANGED <<sessions, now>>
  PROVE  ExpiryInv'
<1>1. /\ call'[w].pc = "ttl" /\ call'[w].session = s
      /\ \A v \in Workers : v # w => call'[v] = call[v]
  BY DEF Proceed, TypeOK, CallsOK
<1> QED
  BY <1>1 DEF ExpiryInv, InTtl, Pending

(* A stored session was created by now. *)
LEMMA StoredAge ==
  ASSUME Ttl # None, TypeOK, ExpiryInv, NEW id \in Ids, sessions[id] # None
  PROVE  sessions[id].created_at <= now
<1>1. now \in Int /\ Ttl \in Int
  BY ManagerAssumption, TtlAssumption, I64Assumption DEF TypeOK, Option
<1>2. sessions[id] \in Session /\ sessions[id].created_at \in Int
  BY DEF TypeOK, Store, Option, Session
<1> QED
  BY <1>1, <1>2 DEF ExpiryInv, InTtl

(* apply_ttl brings the clone's expiry up to the clock. *)
LEMMA TtlAge ==
  ASSUME Ttl # None, TtlFits, TypeOK, ExpiryInv, NEW w \in Workers, ApplyTtl(w)
  PROVE  ExpiryInv'
<1> DEFINE s == call[w].session
<1>1. /\ Pending(w) /\ s \in Session /\ call[w] \in Call /\ UNCHANGED <<sessions, now>>
      /\ call' = [call EXCEPT ![w].pc = "write", ![w].session = apply_ttl(@, now)]
  BY DEF ApplyTtl, Pending, TypeOK, CallsOK
<1>2. /\ now \in 0 .. MaxTime /\ now \in Int /\ Ttl \in Int
      /\ s.created_at \in Int /\ s.created_at <= now
  BY <1>1, ManagerAssumption, TtlAssumption, I64Assumption
     DEF TypeOK, Option, ExpiryInv, Session
<1>3. apply_ttl(s, now).expires_at = now + Ttl /\ apply_ttl(s, now).created_at = s.created_at
  BY <1>1, <1>2, ApplyTtlExpiry
<1>4. InTtl(apply_ttl(s, now))
  BY <1>2, <1>3 DEF InTtl
<1>5. /\ call'[w].session = apply_ttl(s, now)
      /\ \A v \in Workers : v # w => call'[v] = call[v]
  BY <1>1 DEF TypeOK, CallsOK, Call
<1> HIDE DEF s
<1> QED
  BY <1>1, <1>2, <1>3, <1>4, <1>5 DEF ExpiryInv, InTtl, Pending

LEMMA ExpiryStep ==
  ASSUME Ttl # None, TtlFits, ~ClockStepsBack, TypeOK, TypeOK', ExpiryInv, [Next]_vars
  PROVE  ExpiryInv'
<1>1. now \in Int
  BY ManagerAssumption DEF TypeOK
<1>2. ASSUME NEW w \in Workers, NEW user \in Users, Initiate(w, user)
      PROVE  ExpiryInv'
  <2>1. PICK id \in Ids \ minted, c \in Fresh :
          Proceed(w, "initiate", id, Rotate(NewSession(user, now), c), None)
    BY <1>2 DEF Initiate
  <2>2. Rotate(NewSession(user, now), c).created_at = now
    BY DEF Rotate, NewSession
  <2> QED
    BY <1>1, <1>2, <2>1, <2>2, StartAge DEF Initiate
<1>3. ASSUME NEW w \in Workers, NEW id \in Ids, Answers(w, id), UNCHANGED <<sessions, now>>
      PROVE  ExpiryInv'
  <2>1. \A v \in Workers : Pending(v)' => Pending(v) /\ call'[v] = call[v]
    BY <1>3, ReturnCalls DEF Answers, TypeOK, Pending
  <2> QED
    BY <1>1, <1>3, <2>1, AgeingStep
<1>4. ASSUME NEW w \in Workers, NEW id \in Ids, NEW proof \in Headers,
             Register(w, id, proof)
      PROVE  ExpiryInv'
  <2>1. UNCHANGED <<sessions, now>>
    BY <1>4 DEF Register
  <2>2. ASSUME NEW c \in Fresh, RegisterAccepts(w, id, proof, c)
        PROVE  ExpiryInv'
    <3>1. sessions[id] # None /\ sessions[id] \in Session
      BY <2>2, NoSessionAssumption DEF RegisterAccepts
    <3>2. Bind(sessions[id], proof, c).created_at = sessions[id].created_at
      BY <3>1 DEF Bind, Session
    <3> QED
      BY <2>1, <2>2, <3>1, <3>2, StoredAge, StartAge DEF RegisterAccepts
  <2> QED
    BY <1>3, <1>4, <2>1, <2>2, RegisterCases
<1>5. ASSUME NEW w \in Workers, NEW id \in Ids, NEW proof \in Headers,
             Refresh(w, id, proof)
      PROVE  ExpiryInv'
  <2>1. UNCHANGED <<sessions, now>>
    BY <1>5 DEF Refresh
  <2>2. ASSUME NEW c \in Fresh, RefreshAccepts(w, id, proof, c)
        PROVE  ExpiryInv'
    <3>1. sessions[id] # None /\ sessions[id] \in Session
      BY <2>2, NoSessionAssumption DEF RefreshAccepts
    <3>2. Rotate(sessions[id], c).created_at = sessions[id].created_at
      BY <3>1 DEF Rotate, Session
    <3> QED
      BY <2>1, <2>2, <3>1, <3>2, StoredAge, StartAge DEF RefreshAccepts
  <2> QED
    BY <1>3, <1>5, <2>1, <2>2, RefreshCases
<1>6. ASSUME NEW w \in Workers, NEW id \in Ids,
             GetFails(w, id) \/ Close(w, id) \/ CloseFails(w, id)
      PROVE  ExpiryInv'
  <2>1. \A v \in Workers : Pending(v)' => Pending(v) /\ call'[v] = call[v]
    BY <1>6, ReturnCalls DEF GetFails, Close, CloseFails, TypeOK, Pending, Option
  <2>2. now' = now /\ \A i \in Ids : sessions'[i] \in {sessions[i], None}
    BY <1>6, DeleteStep DEF GetFails, Close, CloseFails
  <2> QED
    BY <1>1, <2>1, <2>2, AgeingStep
<1>7. ASSUME NEW w \in Workers, ApplyTtlPanics(w) \/ Deliver(w) \/ Lose(w)
      PROVE  ExpiryInv'
  <2>1. \A v \in Workers : Pending(v)' => Pending(v) /\ call'[v] = call[v]
    BY <1>7, ReturnCalls, IdleCalls
       DEF ApplyTtlPanics, Deliver, Lose, TypeOK, Pending, Option
  <2> QED
    BY <1>1, <1>7, <2>1, AgeingStep DEF ApplyTtlPanics, Deliver, Lose
<1>8. ASSUME NEW w \in Workers, ApplyTtl(w)
      PROVE  ExpiryInv'
  BY <1>8, TtlAge
<1>9. ASSUME NEW w \in Workers, Write(w) \/ WriteFails(w)
      PROVE  ExpiryInv'
  <2>1. /\ call[w].pc = "write" /\ Pending(w) /\ call[w].id \in Ids
        /\ call[w].session.challenge \in Option(Challenges) /\ now' = now
    BY <1>9 DEF Write, WriteFails, Pending, TypeOK, CallsOK, Option
  <2>2. ~Pending(w)' /\ \A v \in Workers : v # w => call'[v] = call[v]
    BY <1>9, <2>1, ReturnCalls DEF Write, WriteFails, TypeOK, Option
  <2>3. CASE sessions' = sessions
    BY <1>1, <2>1, <2>2, <2>3, AgeingStep DEF Pending
  <2>4. CASE sessions' = Written(w)
    <3>1. InTtl(call[w].session)
      BY <2>1 DEF ExpiryInv
    <3>2. \A id \in Ids :
            sessions'[id] = IF id = call[w].id THEN call[w].session ELSE sessions[id]
      BY <2>1, <2>4, WriteType DEF TypeOK, Store
    <3> QED
      BY <2>1, <2>2, <3>1, <3>2 DEF ExpiryInv, InTtl, Pending
  <2> QED
    BY <1>9, <2>3, <2>4 DEF Write, WriteFails
<1>10. ASSUME NEW user \in Users, DropUser(user)
      PROVE  ExpiryInv'
  BY <1>1, <1>10, DeleteStep, AgeingStep DEF DropUser, Pending
<1>11. CASE Tick \/ UNCHANGED vars
  <2>1. now <= now'
    BY <1>1, <1>11, ManagerAssumption DEF Tick, vars
  <2> QED
    BY <1>11, <2>1, AgeingStep DEF Tick, vars, Pending
<1> QED
  BY <1>2, <1>4, <1>5, <1>6, <1>7, <1>8, <1>9, <1>10, <1>11 DEF Next, Step

(***************************************************************************)
(* Every stored session expires the TTL after its last accepted proof, to  *)
(* within the clock readings of the calls: no interleaving of apply_ttl    *)
(* and update leaves it with an older or a later expiry.                   *)
(***************************************************************************)
THEOREM ExpiryHonours ==
  ASSUME ~ClockStepsBack, TtlFits
  PROVE  Spec => []ExpiryHonoursTtl
<1>1. CASE Ttl = None
  <2>1. TypeOK => ExpiryHonoursTtl
    BY <1>1 DEF ExpiryHonoursTtl
  <2> QED
    BY <2>1, TypeCorrect, PTL
<1>2. CASE Ttl # None
  <2>1. Init => ExpiryInv
    BY DEF Init, ExpiryInv, Pending, Idle
  <2>2. TypeOK /\ TypeOK' /\ ExpiryInv /\ [Next]_vars => ExpiryInv'
    BY <1>2, ExpiryStep
  <2>3. ExpiryInv => ExpiryHonoursTtl
    BY DEF ExpiryInv, ExpiryHonoursTtl, InTtl
  <2> QED
    BY <2>1, <2>2, <2>3, TypeCorrect, PTL DEF Spec
<1> QED
  BY <1>1, <1>2

=============================================================================
