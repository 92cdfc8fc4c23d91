-------------------------- MODULE LifecycleProofs ---------------------------
(***************************************************************************)
(* The manager implements SessionLifecycle, for any number of workers,     *)
(* sessions, users and keys and any TTL, where the calls on one session do *)
(* not overlap, the clock does not step back and proofs are signed.        *)
(***************************************************************************)
EXTENDS ManagerRefinement, ManagerSerialProofs

(* Clients sign all their proofs. *)
Signed == \A sh \in Shapes : sh.alg # "none"

(* What SessionLifecycle sees of a session does not change. *)
Same(id) ==
  Phase(id)' = Phase(id) /\ Key(id)' = Key(id) /\ Current(id)' = Current(id)

-----------------------------------------------------------------------------
(* Where nothing happens *)

LEMMA Elsewhere ==
  ASSUME NEW w \in Workers, NEW id \in Ids,
         \A v \in Workers : v # w => call'[v] = call[v],
         ~HeldBy(w, id), ~HeldBy(w, id)',
         id \in minted' <=> id \in minted, sessions'[id] = sessions[id], now' = now
  PROVE  Same(id)
<1>1. \A v \in Workers : /\ HeldBy(v, id)' <=> HeldBy(v, id)
                         /\ HeldBy(v, id) => call'[v].op = call[v].op
  BY DEF HeldBy, Pending
<1>2. (Opening(id)' <=> Opening(id)) /\ (Held(id)' <=> Held(id))
  BY <1>1 DEF Opening, Held
<1>3. Dead(id)' <=> Dead(id)
  BY <1>2 DEF Dead, Gone
<1> QED
  BY <1>2, <1>3 DEF Same, Phase, Key, Current, Alive

(* Threads go on with the calls they have. *)
LEMMA Quiet ==
  ASSUME UNCHANGED <<sessions, now, minted>>, NEW id \in Ids,
         \A v \in Workers : /\ Pending(v)' = Pending(v)
                            /\ Pending(v) => call'[v].id = call[v].id /\ call'[v].op = call[v].op
  PROVE  Same(id)
<1>1. \A v \in Workers : /\ HeldBy(v, id)' <=> HeldBy(v, id)
                         /\ HeldBy(v, id) => call'[v].op = call[v].op
  BY DEF HeldBy
<1>2. (Opening(id)' <=> Opening(id)) /\ (Held(id)' <=> Held(id))
  BY <1>1 DEF Opening, Held
<1>3. Dead(id)' <=> Dead(id)
  BY <1>2 DEF Dead, Gone
<1> QED
  BY <1>2, <1>3 DEF Same, Phase, Key, Current, Alive

-----------------------------------------------------------------------------
(* Where sessions end *)

(* A call gives up its clone: what is left in the store may have expired.  *)
LEMMA Released ==
  ASSUME TypeOK, IInv, SerialInv, NEW w \in Workers, Pending(w), ~Pending(w)',
         \A v \in Workers : v # w => call'[v] = call[v],
         UNCHANGED <<sessions, now, minted>>, NEW id \in Ids
  PROVE  Same(id) \/ Phase(id)' = "ended"
<1>1. CASE id # call[w].id
  BY <1>1, Elsewhere DEF HeldBy
<1>2. CASE id = call[w].id
  <2>1. \A v \in Workers : HeldBy(v, id) => v = w
    BY <1>2 DEF SerialInv, Alone, HeldBy
  <2>2. ~Held(id)' /\ ~Opening(id)' /\ id \in minted
    BY <1>2, <2>1 DEF Held, HeldBy, Opening, Pending, IInv, PendingChallengeSecret
  <2>3. CASE Gone(id)
    BY <2>2, <2>3 DEF Phase, Dead, Gone
  <2>4. CASE ~Gone(id)
    <3>1. call[w].op # "initiate"
      BY <1>2, <2>4 DEF IInv, InitiatePrivate, Gone
    <3>2. ~Opening(id) /\ ~Dead(id)
      BY <1>2, <2>1, <2>4, <3>1 DEF Opening, Dead
    <3>3. ~Dead(id)'
      BY <2>4 DEF Dead, Gone
    <3> QED
      BY <2>2, <3>2, <3>3 DEF Same, Phase, Key, Current, Alive
  <2> QED
    BY <2>3, <2>4
<1> QED
  BY <1>1, <1>2

(* A session that no call holds is removed. *)
LEMMA Removed ==
  ASSUME NEW id \in Ids, ~Held(id), ~Held(id)', sessions'[id] = None, minted' = minted
  PROVE  Same(id) \/ Phase(id)' = "ended"
<1>1. CASE id \in minted
  BY <1>1 DEF Phase, Dead, Gone, Opening, Held
<1>2. CASE id \notin minted
  BY <1>2 DEF Same, Phase, Key, Current, Alive, SessionState
<1> QED
  BY <1>1, <1>2

(* Time passes. *)
LEMMA Passes ==
  ASSUME TypeOK, NEW id \in Ids, now' \in Int, now < now', UNCHANGED <<sessions, minted, call>>
  PROVE  Same(id) \/ Phase(id)' = "ended"
<1>1. (Opening(id)' <=> Opening(id)) /\ (Held(id)' <=> Held(id))
  BY DEF Opening, Held, HeldBy, Pending
<1>2. Dead(id) => Dead(id)'
  <2>1. now \in Int
    BY ManagerAssumption DEF TypeOK
  <2>2. sessions[id] # None /\ sessions[id].expires_at # None => sessions[id].expires_at \in Int
    BY DEF TypeOK, Store, Session, Option
  <2> QED
    BY <1>1, <2>1, <2>2 DEF Dead, Gone, is_expired
<1> QED
  BY <1>1, <1>2 DEF Same, Phase, Key, Current, Alive

(* However many sessions end, that is one step of the lifecycle. *)
LEMMA EndStep ==
  ASSUME Spent' = Spent, \A id \in Ids : Same(id) \/ Phase(id)' = "ended"
  PROVE  [Lifecycle!Next]_(Lifecycle!vars)
<1> DEFINE S == {id \in Ids : Phase(id) # "ended" /\ Phase(id)' = "ended"}
<1>1. \A id \in Ids : /\ Phase(id)' = IF id \in S THEN "ended" ELSE Phase(id)
                      /\ Key(id)' = IF id \in S THEN None ELSE Key(id)
                      /\ Current(id)' = IF id \in S THEN None ELSE Current(id)
  BY DEF Same, Key, Current, Alive, SessionState
<1>2. CASE S = {}
  BY <1>1, <1>2 DEF Lifecycle!vars
<1>3. CASE S # {}
  <2>1. \A id \in S : [i \in Ids |-> Phase(i)][id] # "ended"
    OBVIOUS
  <2>2. /\ [id \in Ids |-> Phase(id)']
           = [id \in Ids |-> IF id \in S THEN "ended" ELSE [i \in Ids |-> Phase(i)][id]]
        /\ [id \in Ids |-> Key(id)']
           = [id \in Ids |-> IF id \in S THEN None ELSE [i \in Ids |-> Key(i)][id]]
        /\ [id \in Ids |-> Current(id)']
           = [id \in Ids |-> IF id \in S THEN None ELSE [i \in Ids |-> Current(i)][id]]
    BY <1>1
  <2>3. Spent' = Spent \cup {}
    OBVIOUS
  <2>4. {} \in SUBSET ({[i \in Ids |-> Current(i)][id] : id \in S} \ {None})
    OBVIOUS
  <2> HIDE DEF S
  <2>5. Lifecycle!End(S)
    BY <2>1, <2>2, <2>3, <2>4 DEF Lifecycle!End
  <2>6. S \in (SUBSET Ids) \ {{}}
    BY <1>3 DEF S
  <2> QED
    BY <2>5, <2>6 DEF Lifecycle!Next
<1> QED
  BY <1>2, <1>3

-----------------------------------------------------------------------------
(* Where a call writes its clone back *)

LEMMA WriteImplements ==
  ASSUME TypeOK, IInv, SerialInv, BringsKey, Signed, NEW w \in Workers, call[w].pc = "write",
         NEW id \in Ids, call[w].id = id,
         ~Pending(w)', \A v \in Workers : v # w => call'[v] = call[v],
         sessions' = Written(w), accepted' = accepted \cup Acceptance(w),
         UNCHANGED <<now, minted>>
  PROVE  [Lifecycle!Next]_(Lifecycle!vars)
<1> DEFINE op == call[w].op
           s == call[w].session
           c == Pledged(w)
           used == call[w].proof.jti
           over == is_expired(s, now)
<1>1. /\ Pending(w) /\ id \in Ids /\ s \in Session /\ c \in Challenges
      /\ op \in Operations /\ c = s.challenge /\ s # None
      /\ id \in minted /\ id \in minted'
  BY NoSessionAssumption DEF Pending, TypeOK, CallsOK, Pledged, IInv, PendingChallengeSecret
<1>2. sessions'[id] = s /\ \A i \in Ids : i # id => sessions'[i] = sessions[i]
  BY <1>1, WriteType DEF TypeOK, Store
<1>3. \A i \in Ids : i # id => Same(i)
  BY <1>2, Elsewhere DEF HeldBy
<1>4. \A v \in Workers : HeldBy(v, id) <=> v = w
  BY <1>1 DEF SerialInv, Alone, HeldBy
<1>5. ~Held(id)' /\ ~Opening(id)' /\ Held(id)
  BY <1>4 DEF Held, HeldBy, Opening, Pending
<1>6. /\ Phase(id)' = IF over THEN "ended" ELSE s.state
      /\ Key(id)' = IF over THEN None ELSE s.public_key
      /\ Current(id)' = IF over THEN None ELSE c
  <2>1. Dead(id)' <=> over
    BY <1>1, <1>2, <1>5 DEF Dead, Gone
  <2>2. s.state \in SessionState
    BY <1>1 DEF Session
  <2> QED
    BY <1>1, <1>2, <1>5, <2>1, <2>2 DEF Phase, Key, Current, Alive, SessionState
<1>7. c \notin Spent /\ \A i \in Ids : Current(i) # c
  <2>1. c \notin Spent
    BY <1>1 DEF IInv, PendingChallengeSecret, AcceptedRevealed, Spent
  <2>2. \A i \in Ids : Phase(i) \in SessionState => sessions[i] # None
    BY NoSessionAssumption DEF Phase, Dead, Gone, Held, HeldBy, Opening, SessionState,
       SerialInv, SignsCurrent
  <2>3. c # None
    BY <1>1, NoneAssumption
  <2> QED
    BY <1>1, <2>1, <2>2, <2>3 DEF Current, Alive, IInv, PendingChallengeSecret
<1> HIDE DEF over, c, used
<1>8. CASE op = "initiate"
  <2>1. Opening(id)
    BY <1>1, <1>4, <1>8 DEF Opening
  <2>2. Phase(id) = "unborn" /\ Key(id) = None /\ Current(id) = None
    BY <2>1 DEF Phase, Key, Current, Alive, SessionState
  <2>3. s.state = "Active" /\ s.public_key = None
    BY <1>1, <1>8 DEF IInv, InitiatePrivate
  <2>4. Spent' = Spent
    BY <1>8 DEF Acceptance, Spent
  <2>5. CASE over
    BY <1>3, <1>6, <2>4, <2>5, EndStep
  <2>6. CASE ~over
    <3>1. /\ [i \in Ids |-> Phase(i)'] = [[i \in Ids |-> Phase(i)] EXCEPT ![id] = "Active"]
          /\ [i \in Ids |-> Key(i)'] = [i \in Ids |-> Key(i)]
          /\ [i \in Ids |-> Current(i)'] = [[i \in Ids |-> Current(i)] EXCEPT ![id] = c]
      BY <1>3, <1>6, <2>2, <2>3, <2>6 DEF Same
    <3>2. Lifecycle!Open(id, c)
      BY <1>1, <1>7, <2>2, <2>4, <3>1 DEF Lifecycle!Open, Lifecycle!Unused
    <3> QED
      BY <1>1, <3>2 DEF Lifecycle!Next
  <2> QED
    BY <2>5, <2>6
<1>9. CASE op \in {"register", "refresh"}
  <2>1. /\ sessions[id] # None /\ sessions[id].challenge = used
        /\ op = "register" => sessions[id].state = "Active"
        /\ op = "refresh" => sessions[id].public_key = s.public_key
    BY <1>1, <1>9 DEF SerialInv, SignsCurrent, used
  <2>2. s.state = "Bound" /\ (op = "refresh" => sessions[id].state = "Bound")
    <3>1. op = "refresh" => \E a \in accepted : a.id = id
      BY <1>1, <1>9 DEF IInv, PendingProofChecked, Registered
    <3> QED
      BY <1>1, <1>9, <2>1, <3>1 DEF IInv, PendingProofChecked, NeverUnbound
  <2>3. ~Opening(id) /\ ~Dead(id)
    BY <1>4, <1>5, <1>9 DEF Opening, Dead
  <2>4. /\ Phase(id) = sessions[id].state /\ Key(id) = sessions[id].public_key
        /\ Current(id) = used
    BY <1>1, <1>9, <2>1, <2>2, <2>3 DEF Phase, Key, Current, Alive, SessionState
  <2>5. used \in Challenges /\ used \notin Spent /\ used # None
    BY <1>1, <2>1, NoneAssumption DEF IInv, ChallengesOwned, StoredChallengeUnspent
  <2>6. Spent' = Spent \cup {used}
    <3> DEFINE a == [op |-> call[w].op, id |-> call[w].id, proof |-> call[w].proof,
                     next |-> call[w].session.challenge]
    <3>1. Acceptance(w) = {a} /\ a.proof.jti = used
      BY <1>9 DEF Acceptance, used
    <3> HIDE DEF a
    <3>2. accepted' = accepted \cup {a}
      BY <3>1
    <3>3. Spent' = {b.proof.jti : b \in accepted'}
      BY DEF Spent
    <3> QED
      BY <3>1, <3>2, <3>3 DEF Spent
  <2>7. CASE over
    <3>1. /\ [i \in Ids |-> Phase(i)']
             = [i \in Ids |-> IF i \in {id} THEN "ended" ELSE [j \in Ids |-> Phase(j)][i]]
          /\ [i \in Ids |-> Key(i)']
             = [i \in Ids |-> IF i \in {id} THEN None ELSE [j \in Ids |-> Key(j)][i]]
          /\ [i \in Ids |-> Current(i)']
             = [i \in Ids |-> IF i \in {id} THEN None ELSE [j \in Ids |-> Current(j)][i]]
      BY <1>3, <1>6, <2>7 DEF Same
    <3>2. \A i \in {id} : [j \in Ids |-> Phase(j)][i] # "ended"
      BY <1>1, <1>9, <2>1, <2>2, <2>4
    <3>3. {used} \in SUBSET ({[j \in Ids |-> Current(j)][i] : i \in {id}} \ {None})
      BY <1>1, <2>4, <2>5
    <3>4. Lifecycle!End({id})
      BY <2>6, <3>1, <3>2, <3>3 DEF Lifecycle!End
    <3>5. {id} \in (SUBSET Ids) \ {{}}
      BY <1>1
    <3> QED
      BY <3>4, <3>5 DEF Lifecycle!Next
  <2>8. CASE ~over
    <3>1. /\ [i \in Ids |-> Phase(i)'] = [[i \in Ids |-> Phase(i)] EXCEPT ![id] = "Bound"]
          /\ [i \in Ids |-> Key(i)'] = [[i \in Ids |-> Key(i)] EXCEPT ![id] = s.public_key]
          /\ [i \in Ids |-> Current(i)'] = [[i \in Ids |-> Current(i)] EXCEPT ![id] = c]
      BY <1>3, <1>6, <2>2, <2>8 DEF Same
    <3>2. Lifecycle!Advance(id, c)
      BY <1>1, <1>7, <2>4, <2>5, <2>6, <3>1 DEF Lifecycle!Advance, Lifecycle!Unused
    <3>3. CASE op = "register"
      <4>1. s.public_key \in Jwks
        BY <1>1, <3>3 DEF BringsKey, Signed, Session, Option
      <4>2. Lifecycle!Bind(id, s.public_key, c)
        BY <1>1, <2>1, <2>4, <3>1, <3>2, <3>3 DEF Lifecycle!Bind
      <4> QED
        BY <1>1, <4>1, <4>2 DEF Lifecycle!Next
    <3>4. CASE op = "refresh"
      <4>1. /\ [i \in Ids |-> Phase(i)'] = [i \in Ids |-> Phase(i)]
            /\ [i \in Ids |-> Key(i)'] = [i \in Ids |-> Key(i)]
        BY <1>3, <1>6, <2>1, <2>2, <2>4, <2>8, <3>4 DEF Same
      <4>2. Lifecycle!Renew(id, c)
        BY <1>1, <2>2, <2>4, <3>2, <3>4, <4>1 DEF Lifecycle!Renew
      <4> QED
        BY <1>1, <4>2 DEF Lifecycle!Next
    <3> QED
      BY <1>9, <3>3, <3>4
  <2> QED
    BY <2>7, <2>8
<1> QED
  BY <1>1, <1>8, <1>9 DEF Operations

-----------------------------------------------------------------------------
(* Every step is one of these *)

LEMMA LifecycleStep ==
  ASSUME ~Overlap, ~ClockStepsBack, Signed, TypeOK, IInv, SerialInv, BringsKey, [Next]_vars
  PROVE  [Lifecycle!Next]_(Lifecycle!vars)
<1>1. ASSUME NEW w \in Workers, NEW user \in Users, Initiate(w, user)
      PROVE  [Lifecycle!Next]_(Lifecycle!vars)
  <2>1. PICK i \in Ids \ minted, c \in Fresh :
          /\ Proceed(w, "initiate", i, Rotate(NewSession(user, now), c), None)
          /\ minted' = minted \cup {i}
    BY <1>1 DEF Initiate
  <2>2. /\ call[w].pc = "idle" /\ UNCHANGED <<sessions, now, accepted>>
        /\ call'[w].pc = "ttl" /\ call'[w].op = "initiate" /\ call'[w].id = i
        /\ \A v \in Workers : v # w => call'[v] = call[v]
    BY <1>1, <2>1 DEF Initiate, Proceed, TypeOK, CallsOK
  <2>3. Same(i)
    <3>1. Phase(i) = "unborn"
      BY <2>1 DEF Phase
    <3>2. Opening(i)'
      BY <2>2 DEF Opening, HeldBy, Pending
    <3>3. Phase(i)' = "unborn"
      BY <3>2 DEF Phase
    <3> QED
      BY <3>1, <3>3 DEF Same, Key, Current, Alive, SessionState
  <2>4. \A id \in Ids : id # i => Same(id)
    BY <2>1, <2>2, Elsewhere DEF HeldBy, Pending
  <2> QED
    BY <2>2, <2>3, <2>4, EndStep DEF Spent
<1>2. ASSUME NEW w \in Workers, NEW i \in Ids, Answers(w, i) \/ Return(w, Failed, None),
             call[w].pc = "idle", UNCHANGED <<sessions, now, minted, accepted>>
      PROVE  [Lifecycle!Next]_(Lifecycle!vars)
  <2>1. \A v \in Workers : /\ Pending(v)' = Pending(v)
                           /\ Pending(v) => call'[v].id = call[v].id /\ call'[v].op = call[v].op
    BY <1>2, ReturnCalls DEF Answers, TypeOK, Pending, Option
  <2> QED
    BY <1>2, <2>1, Quiet, EndStep DEF Spent
<1>3. ASSUME NEW w \in Workers, NEW i \in Ids, NEW op \in {"register", "refresh"},
             NEW s, NEW p, Proceed(w, op, i, s, p), call[w].pc = "idle", ~Held(i),
             get(sessions, i, now) # None, i \in minted,
             UNCHANGED <<sessions, now, minted, accepted>>
      PROVE  [Lifecycle!Next]_(Lifecycle!vars)
  <2>1. /\ call'[w].pc = "ttl" /\ call'[w].op = op /\ call'[w].id = i
        /\ \A v \in Workers : v # w => call'[v] = call[v]
    BY <1>3 DEF Proceed, TypeOK, CallsOK
  <2>2. Same(i)
    <3>1. ~Opening(i) /\ ~Opening(i)'
      BY <1>3, <2>1 DEF Opening, Held, HeldBy, Pending
    <3>2. ~Dead(i) /\ ~Dead(i)'
      BY <1>3 DEF Dead, Gone, get
    <3> QED
      BY <1>3, <3>1, <3>2 DEF Same, Phase, Key, Current, Alive
  <2>3. \A id \in Ids : id # i => Same(id)
    BY <1>3, <2>1, Elsewhere DEF HeldBy, Pending
  <2> QED
    BY <1>3, <2>2, <2>3, EndStep DEF Spent
<1>4. ASSUME NEW w \in Workers, NEW i \in Ids, NEW proof \in Headers,
             Register(w, i, proof) \/ Refresh(w, i, proof)
      PROVE  [Lifecycle!Next]_(Lifecycle!vars)
  <2>1. call[w].pc = "idle" /\ ~Held(i) /\ UNCHANGED <<sessions, now, minted, accepted>>
    BY <1>4 DEF Register, Refresh, Arrives
  <2>2. get(sessions, i, now) # None => i \in minted
    BY DEF get, IInv, ChallengesOwned
  <2>3. ASSUME NEW c \in Fresh, RegisterAccepts(w, i, proof, c) \/ RefreshAccepts(w, i, proof, c)
        PROVE  [Lifecycle!Next]_(Lifecycle!vars)
    BY <1>3, <2>1, <2>2, <2>3 DEF RegisterAccepts, RefreshAccepts
  <2> QED
    BY <1>2, <1>4, <2>1, <2>3, RegisterCases, RefreshCases
<1>5. ASSUME NEW w \in Workers, NEW i \in Ids, Close(w, i) \/ CloseFails(w, i)
      PROVE  [Lifecycle!Next]_(Lifecycle!vars)
  <2>1. /\ call[w].pc = "idle" /\ ~Held(i) /\ UNCHANGED <<now, minted, accepted>>
        /\ Return(w, 200, None) \/ Return(w, Failed, None)
        /\ sessions' = sessions \/ sessions' = delete(sessions, i)
    BY <1>5 DEF Close, CloseFails, Arrives
  <2>2. ~Pending(w) /\ ~Pending(w)' /\ \A v \in Workers : v # w => call'[v] = call[v]
    BY <2>1, ReturnCalls DEF TypeOK, Pending, Option
  <2>3. \A id \in Ids : sessions'[id] = sessions[id] => Same(id)
    BY <2>1, <2>2, Elsewhere DEF HeldBy
  <2>4. ~Held(i)'
    BY <2>1, <2>2 DEF Held, HeldBy, Pending
  <2>5. /\ \A id \in Ids : id # i => sessions'[id] = sessions[id]
        /\ sessions'[i] = sessions[i] \/ sessions'[i] = None
    BY <2>1 DEF delete, TypeOK, Store
  <2> QED
    BY <2>1, <2>3, <2>4, <2>5, Removed, EndStep DEF Spent
<1>6. ASSUME NEW w \in Workers, ApplyTtl(w) \/ Deliver(w) \/ Lose(w)
      PROVE  [Lifecycle!Next]_(Lifecycle!vars)
  <2>1. \A v \in Workers : /\ Pending(v)' = Pending(v)
                           /\ Pending(v) => call'[v].id = call[v].id /\ call'[v].op = call[v].op
    BY <1>6, TtlCalls, IdleCalls DEF TypeOK, Deliver, Lose, Pending
  <2> QED
    BY <1>6, <2>1, Quiet, EndStep DEF Spent, ApplyTtl, Deliver, Lose
<1>7. ASSUME NEW w \in Workers, ApplyTtlPanics(w) \/ Write(w) \/ WriteFails(w)
      PROVE  [Lifecycle!Next]_(Lifecycle!vars)
  <2>1. /\ Pending(w) /\ call[w].id \in Ids /\ UNCHANGED <<now, minted>>
        /\ \E status \in {Failed, 200}, c \in Option(Challenges) : Return(w, status, c)
    BY <1>7 DEF ApplyTtlPanics, Write, WriteFails, Pending, TypeOK, CallsOK, Option
  <2>2. ~Pending(w)' /\ \A v \in Workers : v # w => call'[v] = call[v]
    BY <2>1, ReturnCalls DEF TypeOK
  <2>3. CASE UNCHANGED <<sessions, accepted>>
    BY <2>1, <2>2, <2>3, Released, EndStep DEF Spent
  <2>4. CASE call[w].pc = "write" /\ sessions' = Written(w) /\ accepted' = accepted \cup Acceptance(w)
    BY <2>1, <2>2, <2>4, WriteImplements
  <2> QED
    BY <1>7, <2>3, <2>4 DEF ApplyTtlPanics, Write, WriteFails
<1>8. ASSUME NEW user \in Users, DropUser(user)
      PROVE  [Lifecycle!Next]_(Lifecycle!vars)
  <2>1. UNCHANGED <<now, minted, accepted, call>>
    BY <1>8 DEF DropUser
  <2>2. ASSUME NEW id \in OwnedBy(sessions, user)
        PROVE  Same(id) \/ Phase(id)' = "ended"
    <3>1. id \in Ids /\ ~Held(id) /\ sessions'[id] = None
      BY <1>8 DEF DropUser, OwnedBy, delete_by_user_id
    <3>2. ~Held(id)'
      BY <2>1, <3>1 DEF Held, HeldBy, Pending
    <3> QED
      BY <2>1, <3>1, <3>2, Removed
  <2>3. ASSUME NEW id \in Ids, id \notin OwnedBy(sessions, user)
        PROVE  Same(id)
    <3>1. sessions'[id] = sessions[id]
      BY <1>8, <2>3 DEF DropUser, delete_by_user_id
    <3>2. (Opening(id)' <=> Opening(id)) /\ (Dead(id)' <=> Dead(id))
      BY <2>1, <3>1 DEF Opening, Dead, Gone, Held, HeldBy, Pending
    <3> QED
      BY <2>1, <3>1, <3>2 DEF Same, Phase, Key, Current, Alive
  <2> QED
    BY <2>1, <2>2, <2>3, EndStep DEF Spent
<1>9. CASE Tick
  <2>1. now' \in Int /\ now < now' /\ UNCHANGED <<sessions, minted, call, accepted>>
    BY <1>9, ManagerAssumption DEF Tick
  <2> QED
    BY <2>1, Passes, EndStep DEF Spent
<1>10. CASE UNCHANGED vars
  BY <1>10, Quiet, EndStep DEF vars, Spent, Pending
<1>11. ASSUME NEW w \in Workers, NEW i \in Ids, GetFails(w, i)
       PROVE  [Lifecycle!Next]_(Lifecycle!vars)
  BY <1>2, <1>11 DEF GetFails, Arrives
<1> QED
  BY <1>1, <1>4, <1>5, <1>6, <1>7, <1>8, <1>9, <1>10, <1>11 DEF Next, Step

(***************************************************************************)
(* ImplementsLifecycle (all handlers of manager.rs with the store and the  *)
(* clock): where the calls on one session do not overlap, every step of    *)
(* the threads opens a session, binds it once to a device key, renews it   *)
(* with an unused challenge, ends some, or changes nothing.                *)
(***************************************************************************)
THEOREM ManagerImplements ==
  ASSUME ~Overlap, ~ClockStepsBack, Signed
  PROVE  Spec => ImplementsLifecycle
<1>1. Init => Lifecycle!Init
  BY DEF Init, Lifecycle!Init, Phase, Key, Current, Alive, SessionState, Spent
<1>2. TypeOK /\ IInv /\ SerialInv /\ BringsKey /\ [Next]_vars
        => [Lifecycle!Next]_(Lifecycle!vars)
  BY LifecycleStep
<1> QED
  BY <1>1, <1>2, TypeCorrect, InvariantHolds, SerialHolds, BringsKeyAlways, PTL
     DEF Spec, ImplementsLifecycle, Lifecycle!Spec

=============================================================================
