------------------------------ MODULE DbscFlow ------------------------------
(***************************************************************************)
(* One browser and the server it talks to, composed.  The browser waits    *)
(* for one answer at a time and may stop waiting at any moment, because    *)
(* the answer was lost or because it takes too long; the call goes on in   *)
(* the server and may write to the store after the browser has tried       *)
(* again.  The application may drop the user's sessions, and sessions and  *)
(* cookies run out.                                                        *)
(*                                                                         *)
(* A call is cut between its checks on the clone and its write; apply_ttl  *)
(* is merged into the write (Manager has it apart, with its panic).        *)
(* created_at, which nothing reads, is left at 0.                          *)
(***************************************************************************)
EXTENDS Browser

CONSTANTS
  Workers,          \* threads of the server
  User,             \* who logs in
  MaxBack           \* how far behind its furthest the clock may step

ASSUME FlowAssumption ==
  User \in Users /\ DeviceKey \in Jwks /\ MaxBack \in Nat /\ None \notin Workers

VARIABLES
  sessions,   \* MemoryStore::sessions
  now,        \* the clock of server and browser, counted from MaxBack
              \* before its furthest
  call,       \* what each worker is doing
  browser,    \* the browser
  awaits      \* the worker whose answer the browser waits for, or None

vars == <<sessions, now, call, browser, awaits>>

Idle == [pc |-> "idle", op |-> None, id |-> None, session |-> None, response |-> None]

-----------------------------------------------------------------------------
(***************************************************************************)
(* Identifiers and challenges are random and never repeat.  To keep the    *)
(* model finite one that nothing refers to any more is drawn again, and a  *)
(* session whose identifier neither the browser nor a call holds, which    *)
(* nobody can ask for, is forgotten at the next login or tick.             *)
(***************************************************************************)
Reachable == {browser.id} \cup {call[w].id : w \in Workers}

Remembered == [id \in Ids |-> IF id \in Reachable THEN sessions[id] ELSE None]

InUse ==
  {browser.challenge}
    \cup {sessions[id].challenge : id \in {i \in Ids : sessions[i] # None}}
    \cup {call[w].session.challenge : w \in {v \in Workers : call[v].session # None}}
    \cup UNION {LET r == call[w].response
                IN  {r.challenge_header}
                      \cup (IF r.registration_header = None THEN {}
                            ELSE {r.registration_header.challenge})
                : w \in {v \in Workers : call[v].response # None}}

FreshId == CHOOSE id \in Ids : id \notin Reachable

FreshChallenge == CHOOSE c \in Challenges : c \notin InUse

(* Workers are alike: a request goes to any that is free. *)
Free == {w \in Workers : call[w].pc = "idle"}

Server == CHOOSE w \in Free : TRUE

-----------------------------------------------------------------------------
(* Requests: what the browser sends and what the server checks at once *)

Sends == awaits = None /\ Free # {}

(***************************************************************************)
(* The checks are passed; the clone s is on its way to the store.  Its old *)
(* expiry is left out: if there is one, apply_ttl will replace it.         *)
(***************************************************************************)
Accepts(op, id, s) ==
  /\ call' = [call EXCEPT ![Server] =
                [pc |-> "write", op |-> op, id |-> id,
                 session |-> [s EXCEPT !.expires_at = None], response |-> None]]
  /\ awaits' = Server
  /\ UNCHANGED <<now, browser>>

Answers(op, id, response) ==
  /\ call' = [call EXCEPT ![Server] =
                [pc |-> "reply", op |-> op, id |-> id, session |-> None, response |-> response]]
  /\ awaits' = Server
  /\ UNCHANGED <<now, browser>>

LogIn ==
  /\ Sends
  /\ browser.phase = "out"
  /\ Ids \ Reachable # {}
  /\ sessions' = Remembered
  /\ Accepts("initiate", FreshId, Rotate(NewSession(User, 0), FreshChallenge))

Register ==
  /\ Sends
  /\ browser.phase = "registering" /\ HasCookie(browser, now)
  /\ LET proof  == RegistrationProof(browser)
         s      == get(sessions, browser.id, now)
         status == RegisterStatus(s, proof)
     IN  \/ /\ status = 200
            /\ Accepts("register", browser.id, Bind(s, proof, FreshChallenge))
         \/ /\ status # 200
            /\ Answers("register", browser.id, RefusalResponse(status, s))
  /\ UNCHANGED sessions

(* Without a cookie there is no session to register. *)
StartOver ==
  /\ awaits = None
  /\ browser.phase = "registering" /\ ~HasCookie(browser, now)
  /\ browser' = LoggedOut
  /\ UNCHANGED <<sessions, now, call, awaits>>

(* The session identifier has a header of its own and outlives the cookie. *)
Refresh ==
  /\ Sends
  /\ browser.phase = "bound"
  /\ LET proof  == RefreshProof(browser)
         s      == get(sessions, browser.id, now)
         status == RefreshStatus(s, proof)
     IN  \/ /\ status = 200
            /\ Accepts("refresh", browser.id, Rotate(s, FreshChallenge))
         \/ /\ status # 200
            /\ Answers("refresh", browser.id, RefusalResponse(status, s))
  /\ UNCHANGED sessions

Close ==
  /\ Sends
  /\ browser.phase = "bound"
  /\ sessions' = delete(sessions, browser.id)
  /\ Answers("close", browser.id, CloseResponse)

-----------------------------------------------------------------------------
(* The rest of a call *)

ResponseOf(op, id, s) ==
  CASE op = "initiate" -> InitiateResponse(id, s)
    [] op = "register" -> RegisterResponse(id, s)
    [] op = "refresh"  -> RefreshResponse(id, s)

(* An answer nobody waits for is dropped. *)
Write(w) ==
  /\ call[w].pc = "write"
  /\ LET s == apply_ttl(call[w].session, now)
     IN  /\ sessions' = IF call[w].op = "initiate" THEN create(sessions, call[w].id, s)
                        ELSE update(sessions, call[w].id, s)
         /\ call' = [call EXCEPT
                       ![w] = IF awaits # w THEN Idle
                              ELSE [pc |-> "reply", op |-> @.op, id |-> @.id, session |-> None,
                                    response |-> ResponseOf(@.op, @.id, s)]]
  /\ UNCHANGED <<now, browser, awaits>>

Receive(w) ==
  /\ awaits = w
  /\ call[w].pc = "reply"
  /\ browser' \in After(browser, call[w].op, call[w].response, now)
  /\ awaits' = None
  /\ call' = [call EXCEPT ![w] = Idle]
  /\ UNCHANGED <<sessions, now>>

(* The answer is lost, or the browser has waited long enough. *)
GiveUp ==
  /\ awaits # None
  /\ awaits' = None
  /\ call' = [call EXCEPT ![awaits] = IF @.pc = "reply" THEN Idle ELSE @]
  /\ UNCHANGED <<sessions, now, browser>>

DropUser ==
  /\ sessions' = delete_by_user_id(sessions, User)
  /\ UNCHANGED <<now, call, browser, awaits>>

(***************************************************************************)
(* Time goes on for ever, and SystemTime may step back on the way.  Only   *)
(* how far a stored time is from the present matters, so when the clock    *)
(* passes the furthest it has been, the origin moves with it and stored    *)
(* times come one nearer; one that lies at the origin or before has run    *)
(* out whatever the clock reads, and stays there.                          *)
(***************************************************************************)
Nearer(t) == IF t = None \/ t <= 0 THEN t ELSE t - 1

Aged(s) == IF s = None THEN None ELSE [s EXCEPT !.expires_at = Nearer(@)]

StepClock ==
  /\ now' \in 0 .. MaxBack
  /\ UNCHANGED <<sessions, call, browser, awaits>>

PassFurthest ==
  /\ now = MaxBack
  /\ sessions' = [id \in Ids |-> Aged(Remembered[id])]
  /\ call' = [w \in Workers |-> [call[w] EXCEPT !.session = Aged(@)]]
  /\ browser' = [browser EXCEPT !.cookie = Nearer(@)]
  /\ UNCHANGED <<now, awaits>>

Tick == StepClock \/ PassFurthest

(* A session somebody can ask for, or the browser's cookie, runs out. *)
RunsOut ==
  /\ Tick
  /\ \/ \E id \in Ids \cap Reachable :
          get(sessions, id, now) # None /\ get(sessions', id, now') = None
     \/ HasCookie(browser, now) /\ ~HasCookie(browser', now')

-----------------------------------------------------------------------------
Init ==
  /\ sessions = [id \in Ids |-> None]
  /\ now = 0
  /\ call = [w \in Workers |-> Idle]
  /\ browser = LoggedOut
  /\ awaits = None

Asks == LogIn \/ Register \/ StartOver \/ Refresh

Next ==
  \/ Asks \/ Close \/ GiveUp \/ DropUser \/ Tick
  \/ \E w \in Workers : Write(w) \/ Receive(w)

(***************************************************************************)
(* Threads of the server run on, and the browser keeps asking and waits    *)
(* for no answer forever.  The network and the browser's patience are only *)
(* as good as this: of the calls of one operation that are accepted again  *)
(* and again, some finish while the browser still waits; of the answers    *)
(* that say yes to one operation again and again, some arrive, and so do   *)
(* some of those that say no.  Nothing makes the user close a session, the *)
(* application drop one, the browser lose patience, or time pass.          *)
(***************************************************************************)
InTime(op) == \E w \in Workers : awaits = w /\ call[w].op = op /\ Write(w)

Answered(op, statuses) ==
  \E w \in Workers :
    /\ call[w].op = op /\ call[w].response # None
    /\ call[w].response.status_code \in statuses
    /\ Receive(w)

Yes(op) == Answered(op, {200})

No == \E op \in {"register", "refresh"} : Answered(op, {400, 401, 403})

Fairness ==
  /\ WF_vars(Asks)
  /\ WF_vars(GiveUp \/ \E w \in Workers : Receive(w))
  /\ \A w \in Workers : WF_vars(Write(w))
  /\ \A op \in {"initiate", "register", "refresh"} : SF_vars(InTime(op)) /\ SF_vars(Yes(op))
  /\ SF_vars(No)

Spec == Init /\ [][Next]_vars /\ Fairness

-----------------------------------------------------------------------------
(* Correctness *)

(***************************************************************************)
(* A browser that keeps asking is refreshed again and again, whatever      *)
(* answers are lost or come too late and however long it goes on, unless   *)
(* sessions are closed or dropped, or run out, again and again: a 403      *)
(* always carries a challenge that works, a lost 200 leads to a 403 with   *)
(* the new one, and a session the server no longer has leads to a new      *)
(* login.                                                                  *)
(***************************************************************************)
EndsAgainAndAgain == []<><<Close \/ DropUser \/ RunsOut>>_vars

KeepsRefreshing == []<><<Yes("refresh")>>_vars \/ EndsAgainAndAgain

(***************************************************************************)
(* A browser that believes its session bound to its device key is right,   *)
(* as long as the server has the session: neither an answer it gave up on  *)
(* nor a call that writes late leaves the two in disagreement.             *)
(***************************************************************************)
BoundTogether ==
  browser.phase = "bound" /\ sessions[browser.id] # None =>
    /\ sessions[browser.id].state = "Bound"
    /\ sessions[browser.id].public_key = DeviceKey

(***************************************************************************)
(* "Optional authorization value echoed in the registration header and     *)
(* verified against the proof JWT's authorization claim"                   *)
(* (ManagerConfig::authorization): a browser that keeps echoing what the   *)
(* header carried gets its session bound at last, unless its sessions end  *)
(* again and again before.                                                 *)
(***************************************************************************)
GetsBound == <>(browser.phase = "bound") \/ EndsAgainAndAgain

=============================================================================
