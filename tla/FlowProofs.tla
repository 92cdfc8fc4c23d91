----------------------------- MODULE FlowProofs -----------------------------
(***************************************************************************)
(* The browser and the server agree that a session is bound, for any       *)
(* number of server threads, identifiers and challenges, any TTLs and any  *)
(* authorization.                                                          *)
(***************************************************************************)
EXTENDS DbscFlow, TLAPS

(* A session, with any values in its fields. *)
Shaped(s) ==
  s = [ user_id |-> s.user_id, state |-> s.state, public_key |-> s.public_key,
        algorithm |-> s.algorithm, challenge |-> s.challenge,
        expires_at |-> s.expires_at, created_at |-> s.created_at ]

(* A session bound to the browser's key. *)
Mine(s) == s.state = "Bound" /\ s.public_key = DeviceKey

(* What the functions are defined on, and who may be waited for. *)
CallShaped(c) ==
  c = [pc |-> c.pc, op |-> c.op, id |-> c.id, session |-> c.session, response |-> c.response]

ShapeOK ==
  /\ sessions = [id \in Ids |-> sessions[id]]
  /\ call = [w \in Workers |-> call[w]]
  /\ \A w \in Workers : CallShaped(call[w])
  /\ browser = [ phase |-> browser.phase, id |-> browser.id, cookie |-> browser.cookie,
                 challenge |-> browser.challenge, authorization |-> browser.authorization ]
  /\ awaits \in Workers \cup {None}

(* A bound session is bound to the browser's key: nobody else registers.   *)
SessionsOK ==
  \A id \in Ids : sessions[id] # None =>
    /\ Shaped(sessions[id])
    /\ sessions[id].state = "Active" \/ Mine(sessions[id])

BoundIn(store, id) == id \in Ids /\ (store[id] # None => Mine(store[id]))

(* What a call holds on its way to the store, ... *)
WritesOK ==
  \A w \in Workers : call[w].pc = "write" =>
    /\ call[w].op \in {"initiate", "register", "refresh"}
    /\ call[w].id \in Ids
    /\ Shaped(call[w].session)
    /\ IF call[w].op = "initiate" THEN call[w].session.state = "Active"
       ELSE Mine(call[w].session)

(* ... and what its answer says: which session, ... *)
AnswerOK(op, id, r) ==
  \/ op = "initiate" /\ r.status_code = 200 /\ r.set_cookie.value = id
  \/ op = "close" /\ r.status_code = 200
  \/ /\ op \in {"register", "refresh"}
     /\ \/ r.status_code = 200 /\ FromJson(r.body).session_identifier = id
        \/ r.status_code \in {400, 401, 403}

(* ... and, a 400 to a registration too, that the session is bound. *)
SaysBound(op, r) ==
  \/ op = "register" /\ r.status_code \in {200, 400}
  \/ op = "refresh" /\ r.status_code = 200

RepliesOK ==
  \A w \in Workers : call[w].pc = "reply" =>
    /\ call[w].id \in Ids
    /\ AnswerOK(call[w].op, call[w].id, call[w].response)
    /\ SaysBound(call[w].op, call[w].response) => BoundIn(sessions, call[w].id)

(* An initiate that has not written yet has an identifier of its own. *)
Opening(w) == call[w].pc = "write" /\ call[w].op = "initiate"

OpeningPrivate ==
  \A w \in Workers : Opening(w) =>
    /\ browser.id # call[w].id
    /\ \A v \in Workers : v # w => call[v].id # call[w].id

BrowserOK ==
  /\ browser.phase \in {"out", "registering", "bound"}
  /\ browser.phase # "out" => browser.id \in Ids
  /\ browser.phase = "bound" => BoundIn(sessions, browser.id)

(* The answer to a registration is about the session the browser has. *)
AwaitsOK ==
  \A w \in Workers : awaits = w /\ call[w].op = "register" => call[w].id = browser.id

FlowInv ==
  /\ ShapeOK /\ SessionsOK /\ WritesOK /\ RepliesOK /\ OpeningPrivate
  /\ BrowserOK /\ AwaitsOK

-----------------------------------------------------------------------------
(* The handlers keep the shape of a session. *)
LEMMA BindMine ==
  ASSUME NEW s, Shaped(s), NEW p, p.jwk = DeviceKey, NEW c
  PROVE  Shaped(Bind(s, p, c)) /\ Mine(Bind(s, p, c))
<1> DEFINE k == p.jwk
           a == p.alg
           bound == [ user_id |-> s.user_id, state |-> "Bound", public_key |-> k,
                      algorithm |-> a, challenge |-> c,
                      expires_at |-> s.expires_at, created_at |-> s.created_at ]
<1>1. Bind(s, p, c) = [s EXCEPT !.state = "Bound", !.public_key = k, !.algorithm = a,
                                !.challenge = c]
  BY DEF Bind
<1> HIDE DEF a, k
<1>2. /\ DOMAIN s = {"user_id", "state", "public_key", "algorithm", "challenge",
                     "expires_at", "created_at"}
      /\ DOMAIN Bind(s, p, c) = DOMAIN s
  BY <1>1 DEF Shaped
<1>3. Bind(s, p, c) = bound
  BY <1>1, <1>2 DEF Shaped
<1> QED
  BY <1>3 DEF Shaped, Mine, k

LEMMA RotateMine ==
  ASSUME NEW s, Shaped(s), NEW c
  PROVE  /\ Shaped(Rotate(s, c)) /\ (Mine(s) => Mine(Rotate(s, c)))
         /\ Rotate(s, c).state = s.state
BY DEF Shaped, Rotate, Mine

(* Whatever its expiry becomes, it is the same session otherwise. *)
LEMMA ExpiryApart ==
  ASSUME NEW s, Shaped(s), NEW e
  PROVE  /\ Shaped([s EXCEPT !.expires_at = e])
         /\ Mine([s EXCEPT !.expires_at = e]) <=> Mine(s)
         /\ [s EXCEPT !.expires_at = e].state = s.state
<1>1. [s EXCEPT !.expires_at = e].state = s.state
  BY DEF Shaped
<1>2. Shaped([s EXCEPT !.expires_at = e])
  BY DEF Shaped
<1>3. [s EXCEPT !.expires_at = e].public_key = s.public_key
  BY DEF Shaped
<1> QED
  BY <1>1, <1>2, <1>3 DEF Mine

LEMMA TtlMine ==
  ASSUME NEW s, Shaped(s), NEW t
  PROVE  /\ Shaped(apply_ttl(s, t)) /\ (Mine(s) => Mine(apply_ttl(s, t)))
         /\ apply_ttl(s, t).state = s.state
<1> DEFINE e == ExpiryAt(t)
<1> HIDE DEF e
<1>1. /\ Shaped([s EXCEPT !.expires_at = e])
      /\ Mine([s EXCEPT !.expires_at = e]) <=> Mine(s)
      /\ [s EXCEPT !.expires_at = e].state = s.state
  BY ExpiryApart
<1> QED
  BY <1>1 DEF apply_ttl, e

LEMMA AgedMine ==
  ASSUME NEW s, Shaped(s)
  PROVE  /\ Shaped(Aged(s)) /\ (Mine(s) => Mine(Aged(s))) /\ Aged(s).state = s.state
<1> DEFINE e == Nearer(s.expires_at)
<1>1. Aged(s) = s \/ Aged(s) = [s EXCEPT !.expires_at = e]
  BY DEF Aged
<1> HIDE DEF e
<1>2. CASE Aged(s) = s
  BY <1>2
<1>3. CASE Aged(s) = [s EXCEPT !.expires_at = e]
  BY <1>3, ExpiryApart
<1> QED
  BY <1>1, <1>2, <1>3

(* get returns what is stored, or nothing. *)
LEMMA GetStored ==
  ASSUME NEW id \in Ids, NEW t, get(sessions, id, t) # None
  PROVE  get(sessions, id, t) = sessions[id] /\ sessions[id] # None
BY DEF get

(* The instruction in a 200 names the session of the call. *)
LEMMA BodyNamesSession ==
  ASSUME NEW id \in Ids
  PROVE  FromJson(ToJson(instruction_body(id))).session_identifier = id
<1> DEFINE i == instruction_body(id)
           optional == {"session_identifier", "refresh_url", "scope", "credentials"}
           r == Object(ToRepr(i), optional, {"allowed_refresh_initiators"})
<1>1. id # None
  BY NoneAssumption
<1>2. ToRepr(i).session_identifier = id /\ "session_identifier" \in DOMAIN ToRepr(i)
  BY DEF ToRepr, instruction_body
<1>3. "session_identifier" \in DOMAIN r /\ r.session_identifier = id
  BY <1>1, <1>2 DEF Object
<1>4. "session_identifier" \in DOMAIN ToJson(i) /\ ToJson(i).session_identifier = id
  <2> HIDE DEF i
  <2> QED
    BY <1>3 DEF ToJson
<1>5. Field(ToJson(i), "session_identifier", None) = id
  <2> HIDE DEF i
  <2> QED
    BY <1>4 DEF Field
<1> HIDE DEF i
<1> QED
  BY <1>1, <1>5 DEF FromJson, FromRepr, OrElse, i

(* Where no session changes but by being removed, bound ones stay so. *)
LEMMA RemovalKeepsBound ==
  ASSUME \A id \in Ids : sessions'[id] \in {sessions[id], None}
  PROVE  /\ \A id : BoundIn(sessions, id) => BoundIn(sessions', id)
         /\ SessionsOK => SessionsOK'
BY DEF BoundIn, SessionsOK

-----------------------------------------------------------------------------
(* Every step keeps the invariant *)

LEMMA StartsWell == Init => FlowInv
<1> SUFFICES ASSUME Init PROVE FlowInv
  OBVIOUS
<1> USE FlowAssumption DEF Init
<1>1. \A w \in Workers : call[w] = Idle
  OBVIOUS
<1>2. ShapeOK
  BY DEF ShapeOK, LoggedOut, CallShaped, Idle
<1>3. SessionsOK
  BY DEF SessionsOK
<1>4. WritesOK /\ RepliesOK /\ OpeningPrivate /\ AwaitsOK
  BY <1>1 DEF WritesOK, RepliesOK, OpeningPrivate, Opening, AwaitsOK, Idle
<1>5. BrowserOK
  BY DEF BrowserOK, LoggedOut
<1> QED
  BY <1>2, <1>3, <1>4, <1>5 DEF FlowInv

(* A request goes to a worker that does nothing. *)
LEMMA ServerIdle ==
  ASSUME Sends
  PROVE  Server \in Workers /\ call[Server].pc = "idle" /\ awaits = None
BY DEF Sends, Server, Free

(* A call that registers or refreshes the browser's session is accepted. *)
LEMMA AcceptKeeps ==
  ASSUME FlowInv, Sends, NEW op \in {"register", "refresh"}, NEW s, Shaped(s), Mine(s),
         browser.id \in Ids, Accepts(op, browser.id, s), UNCHANGED sessions
  PROVE  FlowInv'
<1> DEFINE held == [s EXCEPT !.expires_at = None]
           new == [pc |-> "write", op |-> op, id |-> browser.id, session |-> held, response |-> None]
<1>0. Shaped(held) /\ Mine(held)
  BY ExpiryApart
<1>1. /\ Server \in Workers /\ call[Server].pc = "idle"
      /\ call' = [call EXCEPT ![Server] = new] /\ awaits' = Server
      /\ UNCHANGED <<sessions, now, browser>>
  BY ServerIdle DEF Accepts
<1> HIDE DEF held
<1>2. /\ \A w \in Workers : call'[w] = IF w = Server THEN new ELSE call[w]
      /\ call' = [w \in Workers |-> call'[w]]
  BY <1>1 DEF FlowInv, ShapeOK
<1>3. ShapeOK'
  BY <1>1, <1>2 DEF FlowInv, ShapeOK, CallShaped
<1>4. SessionsOK' /\ BrowserOK'
  BY <1>1 DEF FlowInv, SessionsOK, BrowserOK, BoundIn
<1>5. WritesOK'
  BY <1>0, <1>1, <1>2 DEF FlowInv, WritesOK
<1>6. RepliesOK'
  BY <1>1, <1>2 DEF FlowInv, RepliesOK
<1>7. OpeningPrivate'
  BY <1>1, <1>2 DEF FlowInv, OpeningPrivate, Opening
<1>8. AwaitsOK'
  BY <1>1, <1>2 DEF AwaitsOK
<1> QED
  BY <1>3, <1>4, <1>5, <1>6, <1>7, <1>8 DEF FlowInv

(* A call is answered at once; at most it removes a session. *)
LEMMA AnswerKeeps ==
  ASSUME FlowInv, Sends, NEW op \in {"register", "refresh", "close"}, NEW r,
         browser.id \in Ids, AnswerOK(op, browser.id, r), Answers(op, browser.id, r),
         SaysBound(op, r) => BoundIn(sessions, browser.id),
         sessions' = [id \in Ids |-> sessions'[id]],
         \A id \in Ids : sessions'[id] \in {sessions[id], None}
  PROVE  FlowInv'
<1> DEFINE new == [pc |-> "reply", op |-> op, id |-> browser.id, session |-> None, response |-> r]
<1>1. /\ Server \in Workers /\ call[Server].pc = "idle"
      /\ call' = [call EXCEPT ![Server] = new] /\ awaits' = Server
      /\ UNCHANGED <<now, browser>>
  BY ServerIdle DEF Answers
<1>2. /\ \A w \in Workers : call'[w] = IF w = Server THEN new ELSE call[w]
      /\ call' = [w \in Workers |-> call'[w]]
  BY <1>1 DEF FlowInv, ShapeOK
<1>3. ShapeOK'
  BY <1>1, <1>2 DEF FlowInv, ShapeOK, CallShaped
<1>4. SessionsOK' /\ \A id : BoundIn(sessions, id) => BoundIn(sessions', id)
  BY RemovalKeepsBound DEF FlowInv
<1>5. WritesOK'
  BY <1>1, <1>2 DEF FlowInv, WritesOK
<1>6. RepliesOK'
  BY <1>1, <1>2, <1>4 DEF FlowInv, RepliesOK
<1>7. OpeningPrivate'
  BY <1>1, <1>2 DEF FlowInv, OpeningPrivate, Opening
<1>8. AwaitsOK'
  BY <1>1, <1>2 DEF AwaitsOK
<1>9. BrowserOK'
  BY <1>1, <1>4 DEF FlowInv, BrowserOK
<1> QED
  BY <1>3, <1>4, <1>5, <1>6, <1>7, <1>8, <1>9 DEF FlowInv

LEMMA RegisterKeeps ==
  ASSUME FlowInv, Register
  PROVE  FlowInv'
<1> DEFINE proof == RegistrationProof(browser)
           s == get(sessions, browser.id, now)
           status == RegisterStatus(s, proof)
<1>1. Sends /\ UNCHANGED sessions /\ browser.id \in Ids
  BY DEF Register, FlowInv, BrowserOK
<1>2. s # None => s = sessions[browser.id] /\ Shaped(s) /\ (s.state = "Active" \/ Mine(s))
  BY <1>1, GetStored DEF FlowInv, SessionsOK
<1>3. CASE status = 200 /\ Accepts("register", browser.id, Bind(s, proof, FreshChallenge))
  <2>1. s # None /\ proof # None
    BY <1>3 DEF RegisterStatus, RegistrationAccepted
  <2>2. proof.jwk = DeviceKey
    BY <2>1 DEF RegistrationProof, SignProof
  <2> HIDE DEF proof, s, status
  <2>3. Shaped(Bind(s, proof, FreshChallenge)) /\ Mine(Bind(s, proof, FreshChallenge))
    BY <1>2, <2>1, <2>2, BindMine
  <2> QED
    BY <1>1, <1>3, <2>3, AcceptKeeps
<1>4. CASE status # 200 /\ Answers("register", browser.id, RefusalResponse(status, s))
  <2> DEFINE r == RefusalResponse(status, s)
  <2>1. r.status_code = status
    BY DEF RefusalResponse, with_status
  <2>2. status = 401 \/ (status = 400 /\ s # None /\ s.state # "Active") \/ status = 403
    BY <1>4 DEF RegisterStatus, Registrable
  <2>3. status = 400 => BoundIn(sessions, browser.id)
    BY <1>1, <1>2, <2>2 DEF BoundIn
  <2> HIDE DEF r, status, s, proof
  <2>4. AnswerOK("register", browser.id, r) /\ (SaysBound("register", r) => BoundIn(sessions, browser.id))
    BY <1>4, <2>1, <2>2, <2>3 DEF AnswerOK, SaysBound
  <2>5. sessions' = [id \in Ids |-> sessions'[id]] /\ \A id \in Ids : sessions'[id] \in {sessions[id], None}
    BY <1>1 DEF FlowInv, ShapeOK
  <2>6. Answers("register", browser.id, r)
    BY <1>4 DEF r
  <2> QED
    BY <1>1, <2>4, <2>5, <2>6, AnswerKeeps
<1> QED
  BY <1>3, <1>4 DEF Register

LEMMA RefreshKeeps ==
  ASSUME FlowInv, Refresh
  PROVE  FlowInv'
<1> DEFINE proof == RefreshProof(browser)
           s == get(sessions, browser.id, now)
           status == RefreshStatus(s, proof)
<1>1. Sends /\ UNCHANGED sessions /\ browser.id \in Ids
  BY DEF Refresh, FlowInv, BrowserOK
<1>2. s # None => s = sessions[browser.id] /\ Shaped(s) /\ (s.state = "Active" \/ Mine(s))
  BY <1>1, GetStored DEF FlowInv, SessionsOK
<1>3. CASE status = 200 /\ Accepts("refresh", browser.id, Rotate(s, FreshChallenge))
  <2>1. s # None /\ s.state = "Bound"
    BY <1>3 DEF RefreshStatus, Failed
  <2> HIDE DEF proof, s, status
  <2>2. Shaped(Rotate(s, FreshChallenge)) /\ Mine(Rotate(s, FreshChallenge))
    BY <1>2, <2>1, RotateMine
  <2> QED
    BY <1>1, <1>3, <2>2, AcceptKeeps
<1>4. CASE status # 200 /\ Answers("refresh", browser.id, RefusalResponse(status, s))
  <2> DEFINE r == RefusalResponse(status, s)
  <2>1. r.status_code = status
    BY DEF RefusalResponse, with_status
  <2>2. s # None /\ s.state = "Bound" => s.public_key # None
    BY <1>2, FlowAssumption, NoneAssumption DEF Mine
  <2>3. status \in {400, 401, 403}
    <3> HIDE DEF s, proof
    <3> QED
      BY <1>4, <2>2 DEF RefreshStatus, Failed
  <2> HIDE DEF r, status, s, proof
  <2>4. AnswerOK("refresh", browser.id, r) /\ ~SaysBound("refresh", r)
    BY <2>1, <2>3 DEF AnswerOK, SaysBound
  <2>5. sessions' = [id \in Ids |-> sessions'[id]] /\ \A id \in Ids : sessions'[id] \in {sessions[id], None}
    BY <1>1 DEF FlowInv, ShapeOK
  <2>6. Answers("refresh", browser.id, r)
    BY <1>4 DEF r
  <2> QED
    BY <1>1, <2>4, <2>5, <2>6, AnswerKeeps
<1> QED
  BY <1>3, <1>4 DEF Refresh

LEMMA CloseKeeps ==
  ASSUME FlowInv, Close
  PROVE  FlowInv'
<1>1. /\ Sends /\ browser.id \in Ids
      /\ sessions' = [sessions EXCEPT ![browser.id] = None]
      /\ Answers("close", browser.id, CloseResponse)
  BY DEF Close, delete, FlowInv, BrowserOK
<1>2. sessions' = [id \in Ids |-> sessions'[id]] /\ \A id \in Ids : sessions'[id] \in {sessions[id], None}
  BY <1>1 DEF FlowInv, ShapeOK
<1>3. AnswerOK("close", browser.id, CloseResponse) /\ ~SaysBound("close", CloseResponse)
  BY DEF AnswerOK, SaysBound, CloseResponse, with_status
<1> QED
  BY <1>1, <1>2, <1>3, AnswerKeeps

LEMMA LogInKeeps ==
  ASSUME FlowInv, LogIn
  PROVE  FlowInv'
<1> DEFINE r == Rotate(NewSession(User, 0), FreshChallenge)
           s == [r EXCEPT !.expires_at = None]
           new == [pc |-> "write", op |-> "initiate", id |-> FreshId, session |-> s, response |-> None]
<1>1. FreshId \in Ids /\ FreshId \notin Reachable
  <2>1. \E id \in Ids : id \notin Reachable
    BY DEF LogIn
  <2> QED
    BY <2>1 DEF FreshId
<1>2. Shaped(s) /\ s.state = "Active"
  <2>1. Shaped(NewSession(User, 0)) /\ NewSession(User, 0).state = "Active"
    BY DEF Shaped, NewSession
  <2>2. Shaped(r) /\ r.state = "Active"
    BY <2>1, RotateMine
  <2> HIDE DEF r
  <2> QED
    BY <2>2, ExpiryApart
<1> HIDE DEF s
<1>3. /\ Server \in Workers /\ call[Server].pc = "idle"
      /\ call' = [call EXCEPT ![Server] = new] /\ awaits' = Server
      /\ UNCHANGED <<now, browser>>
      /\ browser.phase = "out"
  BY ServerIdle DEF LogIn, Accepts, s
<1>4. sessions' = [id \in Ids |-> sessions'[id]] /\ \A id \in Ids : sessions'[id] \in {sessions[id], None}
  BY DEF LogIn, Remembered
<1>5. /\ \A w \in Workers : call'[w] = IF w = Server THEN new ELSE call[w]
      /\ call' = [w \in Workers |-> call'[w]]
  BY <1>3 DEF FlowInv, ShapeOK
<1>6. ShapeOK'
  BY <1>3, <1>4, <1>5 DEF FlowInv, ShapeOK, CallShaped
<1>7. SessionsOK' /\ \A id : BoundIn(sessions, id) => BoundIn(sessions', id)
  BY <1>4, RemovalKeepsBound DEF FlowInv
<1>8. WritesOK'
  BY <1>1, <1>2, <1>3, <1>5 DEF FlowInv, WritesOK
<1>9. RepliesOK'
  BY <1>3, <1>5, <1>7 DEF FlowInv, RepliesOK
<1>10. OpeningPrivate'
  <2>1. FreshId # browser.id /\ \A v \in Workers : call[v].id # FreshId
    BY <1>1 DEF Reachable
  <2> QED
    BY <1>3, <1>5, <2>1 DEF FlowInv, OpeningPrivate, Opening
<1>11. AwaitsOK'
  BY <1>3, <1>5 DEF AwaitsOK
<1>12. BrowserOK'
  BY <1>3 DEF FlowInv, BrowserOK
<1> QED
  BY <1>6, <1>7, <1>8, <1>9, <1>10, <1>11, <1>12 DEF FlowInv

LEMMA WriteKeeps ==
  ASSUME FlowInv, NEW w \in Workers, Write(w)
  PROVE  FlowInv'
<1> DEFINE id == call[w].id
           op == call[w].op
           s == apply_ttl(call[w].session, now)
           done == [pc |-> "reply", op |-> op, id |-> id, session |-> None,
                    response |-> ResponseOf(op, id, s)]
<1>1. /\ call[w].pc = "write" /\ id \in Ids /\ op \in {"initiate", "register", "refresh"}
      /\ Shaped(s)
      /\ IF op = "initiate" THEN s.state = "Active" ELSE Mine(s)
  BY TtlMine DEF Write, FlowInv, WritesOK
<1>2. sessions' = [sessions EXCEPT ![id] = s]
  BY DEF Write, create, update
<1>3. call' = [call EXCEPT ![w] = IF awaits # w THEN Idle ELSE done]
  BY DEF Write
<1>4. UNCHANGED <<now, browser, awaits>>
  BY DEF Write
<1>5. op = "initiate" => AnswerOK(op, id, ResponseOf(op, id, s))
  <2> HIDE DEF s, id, op
  <2>1. op = "initiate" => ResponseOf(op, id, s) = InitiateResponse(id, s)
    BY DEF ResponseOf
  <2>2. InitiateResponse(id, s).status_code = 200 /\ InitiateResponse(id, s).set_cookie.value = id
    BY DEF InitiateResponse, with_status, build_cookie
  <2> QED
    BY <2>1, <2>2 DEF AnswerOK
<1>6. op # "initiate" =>
        /\ ResponseOf(op, id, s).status_code = 200
        /\ FromJson(ResponseOf(op, id, s).body).session_identifier = id
  <2> HIDE DEF s, id, op
  <2>1. FromJson(ToJson(instruction_body(id))).session_identifier = id
    BY <1>1, BodyNamesSession
  <2>2. op = "register" => ResponseOf(op, id, s) = RegisterResponse(id, s)
    BY DEF ResponseOf
  <2>3. op = "refresh" => ResponseOf(op, id, s) = RefreshResponse(id, s)
    BY DEF ResponseOf
  <2>4. \A f \in {RegisterResponse(id, s), RefreshResponse(id, s)} :
          f.status_code = 200 /\ f.body = ToJson(instruction_body(id))
    BY DEF RegisterResponse, RefreshResponse, with_status
  <2> QED
    BY <1>1, <2>1, <2>2, <2>3, <2>4
<1> DEFINE answer == ResponseOf(op, id, s)
<1> HIDE DEF s, answer
<1>7. /\ \A v \in Workers : call'[v] = IF v # w THEN call[v] ELSE IF awaits # w THEN Idle ELSE done
      /\ call' = [v \in Workers |-> call'[v]]
  BY <1>3 DEF FlowInv, ShapeOK
<1>8. \A i \in Ids : sessions'[i] = IF i = id THEN s ELSE sessions[i]
  BY <1>2 DEF FlowInv, ShapeOK
<1>9. \A i : BoundIn(sessions, i) /\ (i # id \/ op # "initiate") => BoundIn(sessions', i)
  BY <1>1, <1>8 DEF BoundIn
<1>10. op # "initiate" => BoundIn(sessions', id)
  BY <1>1, <1>8 DEF BoundIn
<1>11. ShapeOK'
  BY <1>2, <1>4, <1>7 DEF FlowInv, ShapeOK, CallShaped, Idle
<1>12. SessionsOK'
  BY <1>1, <1>8 DEF FlowInv, SessionsOK
<1>13. WritesOK'
  BY <1>7 DEF FlowInv, WritesOK, Idle
<1>14. RepliesOK'
  <2> SUFFICES ASSUME NEW v \in Workers, call'[v].pc = "reply"
               PROVE  /\ call'[v].id \in Ids
                      /\ AnswerOK(call'[v].op, call'[v].id, call'[v].response)
                      /\ SaysBound(call'[v].op, call'[v].response) => BoundIn(sessions', call'[v].id)
    BY DEF RepliesOK
  <2>1. CASE v # w
    <3>1. call'[v] = call[v] /\ (call[v].id # id \/ op # "initiate")
      BY <1>1, <1>7, <2>1 DEF FlowInv, OpeningPrivate, Opening
    <3> QED
      BY <1>9, <3>1 DEF FlowInv, RepliesOK
  <2>2. CASE v = w
    <3>1. call'[v].op = op /\ call'[v].id = id /\ call'[v].response = answer
      BY <1>7, <2>2 DEF Idle, answer
    <3>2. AnswerOK(op, id, answer)
      BY <1>1, <1>5, <1>6 DEF AnswerOK, answer
    <3>3. SaysBound(op, answer) => op # "initiate"
      BY DEF SaysBound
    <3> QED
      BY <1>1, <1>10, <3>1, <3>2, <3>3
  <2> QED
    BY <2>1, <2>2
<1>15. OpeningPrivate'
  <2> SUFFICES ASSUME NEW v \in Workers, Opening(v)'
               PROVE  /\ browser'.id # call'[v].id
                      /\ \A u \in Workers : u # v => call'[u].id # call'[v].id
    BY DEF OpeningPrivate
  <2>1. call'[v] = call[v] /\ Opening(v) /\ call[v].id \in Ids
    BY <1>7 DEF Opening, Idle, FlowInv, WritesOK
  <2>2. \A u \in Workers : call'[u].id \in {call[u].id, None}
    BY <1>7 DEF Idle
  <2> QED
    BY <1>4, <2>1, <2>2, NoneAssumption DEF FlowInv, OpeningPrivate
<1>16. BrowserOK'
  <2>1. browser.id # id \/ op # "initiate"
    BY <1>1 DEF FlowInv, OpeningPrivate, Opening
  <2> QED
    BY <1>4, <1>9, <2>1 DEF FlowInv, BrowserOK
<1>17. AwaitsOK'
  BY <1>4, <1>7 DEF FlowInv, AwaitsOK, Idle
<1> QED
  BY <1>11, <1>12, <1>13, <1>14, <1>15, <1>16, <1>17 DEF FlowInv

(* What the browser makes of an answer to its registration or refresh. *)
LEMMA AfterAnswer ==
  ASSUME ShapeOK, BrowserOK, NEW op, NEW id \in Ids, NEW r, AnswerOK(op, id, r),
         SaysBound(op, r) => BoundIn(sessions, id), op = "register" => id = browser.id,
         NEW b \in After(browser, op, r, now)
  PROVE  /\ b = [ phase |-> b.phase, id |-> b.id, cookie |-> b.cookie,
                  challenge |-> b.challenge, authorization |-> b.authorization ]
         /\ b.phase \in {"out", "registering", "bound"}
         /\ b.phase # "out" => b.id \in Ids
         /\ b.phase = "bound" => BoundIn(sessions, b.id)
         /\ b.id \in {id, browser.id, None}
<1> USE DEF ShapeOK, BrowserOK
<1>1. CASE op = "initiate" /\ r.status_code = 200 /\ r.set_cookie.value = id
  BY <1>1 DEF After
<1>2. CASE op = "close" /\ r.status_code = 200
  BY <1>2 DEF After, LoggedOut
<1>3. CASE op \in {"register", "refresh"} /\ r.status_code = 200
           /\ FromJson(r.body).session_identifier = id
  <2>1. b \in { [browser EXCEPT !.phase = "bound", !.id = FromJson(r.body).session_identifier,
                     !.cookie = StoreCookie(browser, r, now), !.challenge = c]
                : c \in {None, r.challenge_header} }
    BY <1>3 DEF After
  <2> DEFINE k == StoreCookie(browser, r, now)
             n == FromJson(r.body).session_identifier
  <2> HIDE DEF k, n
  <2>2. PICK c : b = [browser EXCEPT !.phase = "bound", !.id = n, !.cookie = k, !.challenge = c]
    BY <2>1 DEF k, n
  <2>3. n = id
    BY <1>3 DEF n
  <2>4. BoundIn(sessions, id)
    BY <1>3 DEF SaysBound
  <2> QED
    BY <2>2, <2>3, <2>4
<1>4. CASE op \in {"register", "refresh"} /\ r.status_code = 403
  <2>1. b = [browser EXCEPT !.challenge = r.challenge_header]
    BY <1>4 DEF After
  <2> QED
    BY <2>1
<1>5. CASE op = "register" /\ r.status_code = 400
  <2>1. b \in { LoggedOut, [browser EXCEPT !.phase = "bound", !.challenge = None] }
    BY <1>5 DEF After
  <2>2. BoundIn(sessions, browser.id) /\ browser.id \in Ids
    BY <1>5 DEF SaysBound, BoundIn
  <2>3. CASE b = LoggedOut
    BY <2>3 DEF LoggedOut
  <2>4. CASE b = [browser EXCEPT !.phase = "bound", !.challenge = None]
    BY <2>2, <2>4
  <2> QED
    BY <2>1, <2>3, <2>4
<1>6. CASE op \in {"register", "refresh"}
           /\ (r.status_code = 401 \/ (r.status_code = 400 /\ op = "refresh"))
  BY <1>6 DEF After, LoggedOut
<1> QED
  BY <1>1, <1>2, <1>3, <1>4, <1>5, <1>6 DEF AnswerOK

LEMMA ReceiveKeeps ==
  ASSUME FlowInv, NEW w \in Workers, Receive(w)
  PROVE  FlowInv'
<1> DEFINE id == call[w].id
<1>1. /\ awaits = w /\ call[w].pc = "reply" /\ awaits' = None
      /\ browser' \in After(browser, call[w].op, call[w].response, now)
      /\ call' = [call EXCEPT ![w] = Idle] /\ UNCHANGED <<sessions, now>>
  BY DEF Receive
<1>2. /\ id \in Ids /\ AnswerOK(call[w].op, id, call[w].response)
      /\ SaysBound(call[w].op, call[w].response) => BoundIn(sessions, id)
      /\ call[w].op = "register" => id = browser.id
  BY <1>1 DEF FlowInv, RepliesOK, AwaitsOK
<1>3. /\ browser' = [ phase |-> browser'.phase, id |-> browser'.id, cookie |-> browser'.cookie,
                      challenge |-> browser'.challenge, authorization |-> browser'.authorization ]
      /\ browser'.phase \in {"out", "registering", "bound"}
      /\ browser'.phase # "out" => browser'.id \in Ids
      /\ browser'.phase = "bound" => BoundIn(sessions, browser'.id)
      /\ browser'.id \in {id, browser.id, None}
  BY <1>1, <1>2, AfterAnswer DEF FlowInv
<1>4. /\ \A v \in Workers : call'[v] = IF v = w THEN Idle ELSE call[v]
      /\ call' = [v \in Workers |-> call'[v]]
  BY <1>1 DEF FlowInv, ShapeOK
<1>5. ShapeOK'
  BY <1>1, <1>3, <1>4 DEF FlowInv, ShapeOK, CallShaped, Idle
<1>6. SessionsOK' /\ BrowserOK'
  BY <1>1, <1>3 DEF FlowInv, SessionsOK, BrowserOK
<1>7. WritesOK' /\ RepliesOK'
  BY <1>1, <1>4 DEF FlowInv, WritesOK, RepliesOK, Idle
<1>8. OpeningPrivate'
  <2> SUFFICES ASSUME NEW v \in Workers, Opening(v)'
               PROVE  /\ browser'.id # call'[v].id
                      /\ \A u \in Workers : u # v => call'[u].id # call'[v].id
    BY DEF OpeningPrivate
  <2>1. v # w /\ call'[v] = call[v] /\ Opening(v) /\ call[v].id \in Ids
    BY <1>4 DEF Opening, Idle, FlowInv, WritesOK
  <2>2. \A u \in Workers : call'[u].id \in {call[u].id, None}
    BY <1>4 DEF Idle
  <2> QED
    BY <1>3, <2>1, <2>2, NoneAssumption DEF FlowInv, OpeningPrivate
<1>9. AwaitsOK'
  BY <1>1, FlowAssumption DEF AwaitsOK
<1> QED
  BY <1>5, <1>6, <1>7, <1>8, <1>9 DEF FlowInv

LEMMA GiveUpKeeps ==
  ASSUME FlowInv, GiveUp
  PROVE  FlowInv'
<1>1. /\ awaits \in Workers /\ awaits' = None /\ UNCHANGED <<sessions, now, browser>>
      /\ call' = [call EXCEPT ![awaits] = IF @.pc = "reply" THEN Idle ELSE @]
  BY DEF GiveUp, FlowInv, ShapeOK
<1>2. /\ \A v \in Workers : call'[v] \in {call[v], Idle}
      /\ call' = [v \in Workers |-> call'[v]]
  BY <1>1 DEF FlowInv, ShapeOK
<1>3. ShapeOK'
  BY <1>1, <1>2 DEF FlowInv, ShapeOK, CallShaped, Idle
<1>4. SessionsOK' /\ BrowserOK'
  BY <1>1 DEF FlowInv, SessionsOK, BrowserOK
<1>5. WritesOK' /\ RepliesOK'
  BY <1>1, <1>2 DEF FlowInv, WritesOK, RepliesOK, Idle
<1>6. OpeningPrivate'
  <2> SUFFICES ASSUME NEW v \in Workers, Opening(v)'
               PROVE  /\ browser'.id # call'[v].id
                      /\ \A u \in Workers : u # v => call'[u].id # call'[v].id
    BY DEF OpeningPrivate
  <2>1. call'[v] = call[v] /\ Opening(v) /\ call[v].id \in Ids
    BY <1>2 DEF Opening, Idle, FlowInv, WritesOK
  <2>2. \A u \in Workers : call'[u].id \in {call[u].id, None}
    BY <1>2 DEF Idle
  <2> QED
    BY <1>1, <2>1, <2>2, NoneAssumption DEF FlowInv, OpeningPrivate
<1>7. AwaitsOK'
  BY <1>1, FlowAssumption DEF AwaitsOK
<1> QED
  BY <1>3, <1>4, <1>5, <1>6, <1>7 DEF FlowInv

LEMMA StartOverKeeps ==
  ASSUME FlowInv, StartOver
  PROVE  FlowInv'
<1>1. awaits = None /\ browser' = LoggedOut /\ UNCHANGED <<sessions, now, call, awaits>>
  BY DEF StartOver
<1>2. ShapeOK' /\ SessionsOK' /\ WritesOK' /\ RepliesOK'
  BY <1>1 DEF FlowInv, ShapeOK, SessionsOK, WritesOK, RepliesOK, LoggedOut
<1>3. OpeningPrivate'
  BY <1>1, NoneAssumption DEF FlowInv, OpeningPrivate, Opening, WritesOK, LoggedOut
<1>4. BrowserOK' /\ AwaitsOK'
  BY <1>1, FlowAssumption DEF BrowserOK, AwaitsOK, LoggedOut
<1> QED
  BY <1>2, <1>3, <1>4 DEF FlowInv

(* Sessions that go away, a clock that steps, nothing at all. *)
LEMMA OthersKeep ==
  ASSUME FlowInv, DropUser \/ StepClock \/ UNCHANGED vars
  PROVE  FlowInv'
<1>1. UNCHANGED <<call, browser, awaits>>
  BY DEF DropUser, StepClock, vars
<1>2. sessions' = [id \in Ids |-> sessions'[id]] /\ \A id \in Ids : sessions'[id] \in {sessions[id], None}
  BY DEF DropUser, StepClock, vars, delete_by_user_id, FlowInv, ShapeOK
<1>3. SessionsOK' /\ \A id : BoundIn(sessions, id) => BoundIn(sessions', id)
  BY <1>2, RemovalKeepsBound DEF FlowInv
<1>4. ShapeOK' /\ WritesOK' /\ RepliesOK' /\ BrowserOK'
  BY <1>1, <1>2, <1>3 DEF FlowInv, ShapeOK, WritesOK, RepliesOK, BrowserOK
<1>5. OpeningPrivate' /\ AwaitsOK'
  BY <1>1 DEF FlowInv, OpeningPrivate, Opening, AwaitsOK
<1> QED
  BY <1>3, <1>4, <1>5 DEF FlowInv

(* Time that passes: every expiry comes nearer, and sessions nobody can ask *)
(* for are forgotten.                                                       *)
LEMMA PassFurthestKeeps ==
  ASSUME FlowInv, PassFurthest
  PROVE  FlowInv'
<1>1. /\ \A id \in Ids : sessions'[id] \in {Aged(sessions[id]), None}
      /\ sessions' = [id \in Ids |-> sessions'[id]]
  BY DEF PassFurthest, Remembered, Aged
<1>2. /\ awaits' = awaits
      /\ browser' = [browser EXCEPT !.cookie = Nearer(browser.cookie)]
  BY DEF PassFurthest
<1>3. /\ browser'.phase = browser.phase /\ browser'.id = browser.id
      /\ browser' = [ phase |-> browser'.phase, id |-> browser'.id, cookie |-> browser'.cookie,
                      challenge |-> browser'.challenge, authorization |-> browser'.authorization ]
  <2> DEFINE k == Nearer(browser.cookie)
  <2> HIDE DEF k
  <2>1. browser' = [browser EXCEPT !.cookie = k]
    BY <1>2 DEF k
  <2> QED
    BY <2>1 DEF FlowInv, ShapeOK
<1>4. /\ call' = [w \in Workers |-> call'[w]]
      /\ \A w \in Workers : call'[w] = [call[w] EXCEPT !.session = Aged(call[w].session)]
  BY DEF PassFurthest
<1>5. \A w \in Workers : /\ CallShaped(call'[w])
                         /\ call'[w].pc = call[w].pc /\ call'[w].op = call[w].op
                         /\ call'[w].id = call[w].id /\ call'[w].response = call[w].response
                         /\ call'[w].session = Aged(call[w].session)
  <2> TAKE w \in Workers
  <2> DEFINE c == call[w]
             d == call'[w]
             a == Aged(c.session)
  <2>1. d = [c EXCEPT !.session = a] /\ CallShaped(c)
    BY <1>4 DEF FlowInv, ShapeOK
  <2> HIDE DEF a, c, d
  <2>2. /\ CallShaped(d) /\ d.session = a
        /\ d.pc = c.pc /\ d.op = c.op /\ d.id = c.id /\ d.response = c.response
    BY <2>1 DEF CallShaped
  <2> QED
    BY <2>2 DEF a, c, d
<1>6. ShapeOK'
  BY <1>1, <1>2, <1>3, <1>4, <1>5 DEF FlowInv, ShapeOK, CallShaped
<1>7. SessionsOK' /\ \A id : BoundIn(sessions, id) => BoundIn(sessions', id)
  <2>1. \A id \in Ids : sessions'[id] # None => sessions[id] # None
    BY <1>1 DEF Aged
  <2>2. \A id \in Ids : sessions'[id] # None =>
          /\ Shaped(sessions'[id]) /\ (Mine(sessions[id]) => Mine(sessions'[id]))
          /\ sessions'[id].state = sessions[id].state
    <3> TAKE id \in Ids
    <3> HAVE sessions'[id] # None
    <3>1. sessions'[id] = Aged(sessions[id]) /\ Shaped(sessions[id])
      BY <1>1, <2>1 DEF FlowInv, SessionsOK
    <3> QED
      BY <3>1, AgedMine
  <2> QED
    BY <2>1, <2>2 DEF FlowInv, SessionsOK, BoundIn
<1>8. WritesOK'
  <2> SUFFICES ASSUME NEW w \in Workers, call[w].pc = "write"
               PROVE  /\ Shaped(call'[w].session)
                      /\ IF call[w].op = "initiate" THEN call'[w].session.state = "Active"
                         ELSE Mine(call'[w].session)
    BY <1>5 DEF FlowInv, WritesOK
  <2>1. /\ Shaped(call[w].session)
        /\ IF call[w].op = "initiate" THEN call[w].session.state = "Active"
           ELSE Mine(call[w].session)
    BY DEF FlowInv, WritesOK
  <2>2. call'[w].session = Aged(call[w].session)
    BY <1>5
  <2> QED
    BY <2>1, <2>2, AgedMine
<1>9. RepliesOK'
  BY <1>5, <1>7 DEF FlowInv, RepliesOK
<1>10. OpeningPrivate' /\ AwaitsOK'
  BY <1>2, <1>3, <1>5 DEF FlowInv, OpeningPrivate, Opening, AwaitsOK
<1>11. BrowserOK'
  BY <1>3, <1>7 DEF FlowInv, BrowserOK
<1> QED
  BY <1>6, <1>7, <1>8, <1>9, <1>10, <1>11 DEF FlowInv

(* No step of the browser or the server breaks the invariant. *)
LEMMA FlowStep == FlowInv /\ [Next]_vars => FlowInv'
<1> SUFFICES ASSUME FlowInv, [Next]_vars PROVE FlowInv'
  OBVIOUS
<1>1. CASE Asks
  BY <1>1, LogInKeeps, RegisterKeeps, StartOverKeeps, RefreshKeeps DEF Asks
<1>2. CASE Close
  BY <1>2, CloseKeeps
<1>3. CASE GiveUp
  BY <1>3, GiveUpKeeps
<1>4. CASE \E w \in Workers : Write(w) \/ Receive(w)
  BY <1>4, WriteKeeps, ReceiveKeeps
<1>5. CASE DropUser \/ Tick \/ UNCHANGED vars
  BY <1>5, OthersKeep, PassFurthestKeeps DEF Tick
<1> QED
  BY <1>1, <1>2, <1>3, <1>4, <1>5 DEF Next

(***************************************************************************)
(* BoundTogether (the status checks and the clone-and-update of register   *)
(* and refresh, and what the demo browser concludes from their answers):   *)
(* whatever answers are lost or given up on and however late a call        *)
(* writes, a session the browser takes for bound, and the server still     *)
(* has, is bound to the browser's key.                                     *)
(***************************************************************************)
THEOREM AgreeOnBinding == Spec => []BoundTogether
<1>1. FlowInv => BoundTogether
  BY DEF FlowInv, BrowserOK, BoundIn, Mine, BoundTogether
<1> QED
  BY <1>1, StartsWell, FlowStep, PTL DEF Spec

=============================================================================
