---------------------------- MODULE SessionsProofs ----------------------------
(***************************************************************************)
(* Proofs about Sessions, for any number of accounts, devices, tokens and  *)
(* concurrent requests.                                                    *)
(*                                                                         *)
(* The inductive invariant Inv is TypeOK, SessionsAreIssued, and           *)
(* TargetFound: a removal that is about to delete a key holds the session  *)
(* of the token it was asked to remove.                                    *)
(***************************************************************************)
EXTENDS SessionContract, TLAPS

TargetFound ==
    \A r \in Requests : pc[r] = "delete" => held[r].tokenId = target[r]

Inv == TypeOK /\ SessionsAreIssued /\ TargetFound

\* Names of tuples of variables.
USE DEF store, requests

-----------------------------------------------------------------------------
(* What the building blocks of the actions do to the types. *)

\* The key of a session is a key of the store.
LEMMA KeyOfSession ==
    ASSUME NEW s \in SessionData
    PROVE  onlineSessionKey(s) \in Keys
BY DEF SessionData, onlineSessionKey, Keys

\* A write keeps the store well-typed and its expiries armed.
LEMMA WriteKeepsStore ==
    ASSUME StoreTypeOK, NEW s \in SessionData, writeSession(s)
    PROVE  StoreTypeOK'
<1>1. onlineSessionKey(s) \in Keys
  BY KeyOfSession
<1>2. QED
  BY <1>1, NoSessionAssumption, ActiveTimeoutAssumption DEF StoreTypeOK, writeSession

\* So does a deletion.
LEMMA DeleteKeepsStore ==
    ASSUME StoreTypeOK, NEW k \in Keys, deleteKey(k)
    PROVE  StoreTypeOK'
BY ActiveTimeoutAssumption DEF StoreTypeOK, deleteKey

\* A request that moves on with the right kind of copy stays well-typed.
LEMMA GotoKeepsRequests ==
    ASSUME RequestTypeOK, NEW r \in Requests, NEW p \in Control,
           NEW s \in SessionData \cup {NoSession}, NEW t \in Tokens \cup {NoToken},
           s = NoSession <=> p \in {"idle", "login", "lookup"}, p # "login",
           goto(r, p, s, t)
    PROVE  RequestTypeOK'
BY DEF RequestTypeOK, goto

\* Ending a request keeps it well-typed.
LEMMA FinishKeepsRequests ==
    ASSUME RequestTypeOK, NEW r \in Requests, finish(r)
    PROVE  RequestTypeOK'
BY GotoKeepsRequests DEF finish, Control

\* Outside "idle", "login" and "lookup" a request holds a session.
LEMMA HoldsSession ==
    ASSUME RequestTypeOK, NEW r \in Requests, pc[r] \notin {"idle", "login", "lookup"}
    PROVE  held[r] \in SessionData /\ held[r] # NoSession
BY DEF RequestTypeOK

\* What sessionByToken finds is a session.
LEMMA FoundIsSession ==
    ASSUME StoreTypeOK, NEW t, NEW k \in sessionByToken(t)
    PROVE  k \in Keys /\ redis[k] \in SessionData /\ redis[k] # NoSession
BY DEF StoreTypeOK, sessionByToken

-----------------------------------------------------------------------------
(* Type correctness. *)

LEMMA TypeInit == Init => TypeOK
BY ActiveTimeoutAssumption, NoSessionAssumption, NoUserAssumption
   DEF Init, TypeOK, StoreTypeOK, RequestTypeOK, Control

LEMMA TypeNext == TypeOK /\ [Next]_vars => TypeOK'
<1> SUFFICES ASSUME TypeOK, [Next]_vars
             PROVE  TypeOK'
  OBVIOUS
<1> USE DEF TypeOK
<1>1. CASE Tick
  <2>1. StoreTypeOK'
    BY <1>1, ActiveTimeoutAssumption, NoSessionAssumption DEF Tick, StoreTypeOK
  <2>2. QED
    BY <1>1, <2>1 DEF Tick, RequestTypeOK
<1>2. ASSUME NEW r \in Requests, Step(r)
      PROVE  TypeOK'
  <2>0. ASSUME NEW u \in Users, LoginCheck(r, u)
        PROVE  TypeOK'
    <3>1. RequestTypeOK'
      BY <2>0, NoUserAssumption DEF LoginCheck, RequestTypeOK, Control
    <3>2. QED
      BY <2>0, <3>1 DEF LoginCheck,  StoreTypeOK
  <2>1. ASSUME NEW name \in DeviceNames, LoginIssue(r, name)
        PROVE  TypeOK'
    <3>1. PICK t \in Tokens :
            LET s == [tokenId |-> t, userId |-> account[r],
                      deviceType |-> normalizeDeviceType(name)]
            IN  issued' = issued \cup {s} /\ goto(r, "evict", s, NoToken)
      BY <2>1 DEF LoginIssue
    <3> DEFINE s == [tokenId |-> t, userId |-> account[r],
                     deviceType |-> normalizeDeviceType(name)]
    <3>2. s \in SessionData
      <4>1. account[r] \in Users
        BY <2>1 DEF LoginIssue, RequestTypeOK
      <4>2. QED
        BY <4>1 DEF SessionData, DeviceTypes
    <3>3. issued' \subseteq SessionData
      BY <3>1, <3>2
    <3>4. RequestTypeOK'
      BY <3>1, <3>2, GotoKeepsRequests, NoSessionAssumption DEF Control
    <3>5. QED
      BY <2>1, <3>3, <3>4 DEF LoginIssue,  StoreTypeOK
  <2>2. CASE LoginEvict(r)
    <3>1. held[r] \in SessionData /\ held[r] # NoSession
      BY <2>2, HoldsSession DEF LoginEvict
    <3>2. StoreTypeOK'
      BY <2>2, <3>1, KeyOfSession, DeleteKeepsStore DEF LoginEvict, StoreTypeOK
    <3>3. RequestTypeOK'
      BY <2>2, <3>1, GotoKeepsRequests DEF LoginEvict, Control
    <3>4. QED
      BY <2>2, <3>2, <3>3 DEF LoginEvict
  <2>3. CASE LoginWrite(r)
    <3>1. held[r] \in SessionData /\ held[r] # NoSession
      BY <2>3, HoldsSession DEF LoginWrite
    <3>2. QED
      BY <2>3, <3>1, WriteKeepsStore, FinishKeepsRequests DEF LoginWrite
  <2>4. ASSUME NEW t \in Tokens, AuthFind(r, t)
        PROVE  TypeOK'
    <3>1. PICK k \in sessionByToken(t) : goto(r, "touch", redis[k], NoToken)
      BY <2>4 DEF AuthFind
    <3>2. redis[k] \in SessionData /\ redis[k] # NoSession
      BY <3>1, FoundIsSession
    <3>3. RequestTypeOK'
      BY <3>1, <3>2, GotoKeepsRequests DEF Control
    <3>4. QED
      BY <2>4, <3>3 DEF AuthFind, StoreTypeOK
  <2>5. CASE Touch(r)
    <3>1. held[r] \in SessionData /\ held[r] # NoSession
      BY <2>5, HoldsSession DEF Touch
    <3>2. RequestTypeOK'
      BY <2>5, <3>1, GotoKeepsRequests DEF Touch, Control
    <3>3. QED
      BY <2>5, <3>1, <3>2, WriteKeepsStore DEF Touch
  <2>6. CASE Serve(r)
    BY <2>6, FinishKeepsRequests DEF Serve, StoreTypeOK
  <2>7. CASE Profile(r)
    <3>1. held[r] \in SessionData /\ held[r] # NoSession
      BY <2>7, HoldsSession DEF Profile
    <3>2. QED
      BY <2>7, <3>1, WriteKeepsStore, FinishKeepsRequests DEF Profile
  <2>8. CASE Logout(r)
    <3>1. held[r] \in SessionData
      BY <2>8, HoldsSession DEF Logout
    <3>2. held[r].tokenId \in Tokens
      BY <3>1 DEF SessionData
    <3>3. RequestTypeOK'
      BY <2>8, <3>2, GotoKeepsRequests DEF Logout, Control
    <3>4. QED
      BY <2>8, <3>3 DEF Logout, StoreTypeOK
  <2>9. ASSUME NEW t \in Tokens, KickoutOnlineUser(r, t)
        PROVE  TypeOK'
    <3>1. RequestTypeOK'
      BY <2>9, GotoKeepsRequests DEF KickoutOnlineUser, Control
    <3>2. QED
      BY <2>9, <3>1 DEF KickoutOnlineUser, StoreTypeOK
  <2>10. CASE RemoveFind(r)
    <3>1. target[r] \in Tokens \cup {NoToken}
      BY DEF RequestTypeOK
    <3>2. CASE finish(r)
      BY <2>10, <3>2, FinishKeepsRequests DEF RemoveFind, StoreTypeOK
    <3>3. ASSUME NEW k \in sessionByToken(target[r]), goto(r, "delete", redis[k], target[r])
          PROVE  TypeOK'
      <4>1. redis[k] \in SessionData /\ redis[k] # NoSession
        BY <3>3, FoundIsSession
      <4>2. RequestTypeOK'
        BY <3>1, <3>3, <4>1, GotoKeepsRequests DEF Control
      <4>3. QED
        BY <2>10, <4>2 DEF RemoveFind, StoreTypeOK
    <3>4. QED
      BY <2>10, <3>2, <3>3 DEF RemoveFind
  <2>11. CASE RemoveDelete(r)
    <3>1. held[r] \in SessionData
      BY <2>11, HoldsSession DEF RemoveDelete
    <3>2. QED
      BY <2>11, <3>1, KeyOfSession, DeleteKeepsStore, FinishKeepsRequests DEF RemoveDelete
  <2>12. CASE Fail(r)
    BY <2>12, FinishKeepsRequests DEF Fail, StoreTypeOK
  <2>13. QED
    BY <1>2, <2>0, <2>1, <2>2, <2>3, <2>4, <2>5, <2>6, <2>7, <2>8, <2>9, <2>10, <2>11, <2>12
       DEF Step
<1>3. ASSUME NEW u \in Users, NEW value \in BOOLEAN, SetEnabled(u, value)
      PROVE  TypeOK'
  BY <1>3 DEF SetEnabled, StoreTypeOK, RequestTypeOK
<1>4. CASE UNCHANGED vars
  BY <1>4 DEF vars, StoreTypeOK, RequestTypeOK
<1>5. QED
  BY <1>1, <1>2, <1>3, <1>4 DEF Next

\* The store and the requests keep their types, and every key that exists has
\* an armed expiry, in every reachable state.
THEOREM TypeCorrect == Spec => []TypeOK
<1>1. QED
  BY TypeInit, TypeNext, PTL DEF Spec

-----------------------------------------------------------------------------
(* Sessions are issued: the inductive invariant. *)

LEMMA InvInit == Init => Inv
BY TypeInit, NoSessionAssumption DEF Init, Inv, SessionsAreIssued, TargetFound

\* A write of an issued session leaves only issued sessions under their keys.
LEMMA WriteKeepsKeys ==
    ASSUME StoreTypeOK, NEW s \in issued, issued \subseteq SessionData, writeSession(s),
           \A k \in Keys : redis[k] # NoSession =>
              redis[k] \in issued /\ onlineSessionKey(redis[k]) = k
    PROVE  \A k \in Keys : redis'[k] # NoSession =>
              redis'[k] \in issued /\ onlineSessionKey(redis'[k]) = k
BY KeyOfSession DEF StoreTypeOK, writeSession

LEMMA InvNext == Inv /\ [Next]_vars => Inv'
<1> SUFFICES ASSUME Inv, [Next]_vars
             PROVE  Inv'
  OBVIOUS
<1> USE DEF Inv
<1>1. TypeOK'
  BY TypeNext
<1>2. SessionsAreIssued' /\ TargetFound'
  <2>1. CASE Tick
    BY <2>1, NoSessionAssumption DEF Tick, SessionsAreIssued, TargetFound, TypeOK, StoreTypeOK
  <2>2. ASSUME NEW r \in Requests, Step(r)
        PROVE  SessionsAreIssued' /\ TargetFound'
    <3>0. ASSUME NEW u \in Users, LoginCheck(r, u)
          PROVE  SessionsAreIssued' /\ TargetFound'
      BY <3>0 DEF LoginCheck,  SessionsAreIssued, TargetFound, TypeOK, RequestTypeOK
    <3>1. ASSUME NEW name \in DeviceNames, LoginIssue(r, name)
          PROVE  SessionsAreIssued' /\ TargetFound'
      <4>1. PICK t \in Tokens :
              LET s == [tokenId |-> t, userId |-> account[r],
                        deviceType |-> normalizeDeviceType(name)]
              IN  /\ \A old \in issued : old.tokenId # t
                  /\ issued' = issued \cup {s}
                  /\ goto(r, "evict", s, NoToken)
        BY <3>1 DEF LoginIssue
      <4> DEFINE s == [tokenId |-> t, userId |-> account[r],
                       deviceType |-> normalizeDeviceType(name)]
      <4>2. s.tokenId = t
        OBVIOUS
      <4> HIDE DEF s
      <4>3. \A s1, s2 \in issued' : s1.tokenId = s2.tokenId => s1 = s2
        BY <4>1, <4>2 DEF SessionsAreIssued, s
      <4>4. \A q \in Requests : held'[q] # NoSession => held'[q] \in issued'
        BY <4>1 DEF SessionsAreIssued, goto, s, TypeOK, RequestTypeOK
      <4>5. TargetFound'
        BY <4>1 DEF TargetFound, goto, s, TypeOK, RequestTypeOK
      <4>6. QED
        BY <3>1, <4>1, <4>3, <4>4, <4>5 DEF LoginIssue,  SessionsAreIssued
    <3>2. CASE LoginEvict(r)
      BY <3>2, NoSessionAssumption
         DEF LoginEvict, deleteKey, goto, SessionsAreIssued, TargetFound, TypeOK, StoreTypeOK, RequestTypeOK
    <3>3. CASE LoginWrite(r)
      <4>1. held[r] \in issued
        BY <3>3, HoldsSession DEF LoginWrite, SessionsAreIssued, TypeOK
      <4>2. \A k \in Keys : redis'[k] # NoSession =>
              redis'[k] \in issued /\ onlineSessionKey(redis'[k]) = k
        BY <3>3, <4>1, WriteKeepsKeys DEF LoginWrite, SessionsAreIssued, TypeOK
      <4>3. QED
        BY <3>3, <4>2 DEF LoginWrite, finish, goto, SessionsAreIssued, TargetFound, TypeOK, RequestTypeOK
    <3>4. ASSUME NEW t \in Tokens, AuthFind(r, t)
          PROVE  SessionsAreIssued' /\ TargetFound'
      BY <3>4 DEF AuthFind, sessionByToken, goto, SessionsAreIssued, TargetFound, TypeOK, RequestTypeOK
    <3>5. CASE Touch(r)
      <4>1. held[r] \in issued
        BY <3>5, HoldsSession DEF Touch, SessionsAreIssued, TypeOK
      <4>2. \A k \in Keys : redis'[k] # NoSession =>
              redis'[k] \in issued /\ onlineSessionKey(redis'[k]) = k
        BY <3>5, <4>1, WriteKeepsKeys DEF Touch, SessionsAreIssued, TypeOK
      <4>3. QED
        BY <3>5, <4>2 DEF Touch, goto, SessionsAreIssued, TargetFound, TypeOK, RequestTypeOK
    <3>6. CASE Serve(r)
      BY <3>6 DEF Serve, finish, goto, SessionsAreIssued, TargetFound, TypeOK, RequestTypeOK
    <3>7. CASE Profile(r)
      <4>1. held[r] \in issued
        BY <3>7, HoldsSession DEF Profile, SessionsAreIssued, TypeOK
      <4>2. \A k \in Keys : redis'[k] # NoSession =>
              redis'[k] \in issued /\ onlineSessionKey(redis'[k]) = k
        BY <3>7, <4>1, WriteKeepsKeys DEF Profile, SessionsAreIssued, TypeOK
      <4>3. QED
        BY <3>7, <4>2 DEF Profile, finish, goto, SessionsAreIssued, TargetFound, TypeOK, RequestTypeOK
    <3>8. CASE Logout(r)
      BY <3>8 DEF Logout, goto, SessionsAreIssued, TargetFound, TypeOK, RequestTypeOK
    <3>9. ASSUME NEW t \in Tokens, KickoutOnlineUser(r, t)
          PROVE  SessionsAreIssued' /\ TargetFound'
      BY <3>9 DEF KickoutOnlineUser, goto, SessionsAreIssued, TargetFound, TypeOK, RequestTypeOK
    <3>10. CASE RemoveFind(r)
      BY <3>10
         DEF RemoveFind, sessionByToken, finish, goto, SessionsAreIssued, TargetFound, TypeOK, RequestTypeOK
    <3>11. CASE RemoveDelete(r)
      BY <3>11
         DEF RemoveDelete, deleteKey, finish, goto, SessionsAreIssued, TargetFound, TypeOK, StoreTypeOK, RequestTypeOK
    <3>12. CASE Fail(r)
      BY <3>12 DEF Fail, finish, goto, SessionsAreIssued, TargetFound, TypeOK, RequestTypeOK
    <3>13. QED
      BY <2>2, <3>0, <3>1, <3>2, <3>3, <3>4, <3>5, <3>6, <3>7, <3>8, <3>9, <3>10, <3>11, <3>12
         DEF Step
  <2>3. ASSUME NEW u \in Users, NEW value \in BOOLEAN, SetEnabled(u, value)
        PROVE  SessionsAreIssued' /\ TargetFound'
    BY <2>3 DEF SetEnabled, SessionsAreIssued, TargetFound
  <2>4. CASE UNCHANGED vars
    BY <2>4 DEF vars, SessionsAreIssued, TargetFound
  <2>5. QED
    BY <2>1, <2>2, <2>3, <2>4 DEF Next
<1>3. QED
  BY <1>1, <1>2

LEMMA InvAlways == Spec => []Inv
<1>1. QED
  BY InvInit, InvNext, PTL DEF Spec

\* Whatever is in Redis or in a request was created by a login, is under its
\* own key, and no two sessions share a token, in every reachable state.
THEOREM OnlyIssuedSessions == Spec => []SessionsAreIssued
<1>1. Inv => SessionsAreIssued
  BY DEF Inv
<1>2. QED
  BY <1>1, InvAlways, PTL

-----------------------------------------------------------------------------
(* Dead sessions stay dead. *)

\* A session gets under its key only by a request that carried it.
LEMMA StoredByCarrier ==
    ASSUME Inv, Next, NEW s \in issued, ~Stored(s), Stored(s)'
    PROVE  \E r \in Requests : Carries(r, s)
<1> USE DEF Inv, TypeOK, Stored
<1>0. s \in SessionData /\ s # NoSession /\ onlineSessionKey(s) \in Keys
  BY KeyOfSession, NoSessionAssumption
<1>1. CASE Tick
  BY <1>0, <1>1 DEF Tick, StoreTypeOK
<1>2. ASSUME NEW r \in Requests, Step(r)
      PROVE  \E q \in Requests : Carries(q, s)
  <2>1. CASE redis' = redis
    BY <2>1
  <2>2. CASE LoginEvict(r)
    BY <1>0, <2>2 DEF LoginEvict, deleteKey, StoreTypeOK
  <2>3. CASE LoginWrite(r) \/ Touch(r) \/ Profile(r)
    BY <1>0, <2>3 DEF LoginWrite, Touch, Profile, writeSession, StoreTypeOK, Carries
  <2>4. CASE RemoveDelete(r)
    BY <1>0, <2>4 DEF RemoveDelete, deleteKey, StoreTypeOK
  <2>5. QED
    BY <1>2, <2>1, <2>2, <2>3, <2>4
       DEF Step, LoginCheck, LoginIssue, AuthFind, Serve, Logout, KickoutOnlineUser,
           RemoveFind, Fail
<1>3. ASSUME NEW u \in Users, NEW value \in BOOLEAN, SetEnabled(u, value)
      PROVE  FALSE
  BY <1>3 DEF SetEnabled
<1>4. QED
  BY <1>1, <1>2, <1>3 DEF Next

\* A request comes to carry an issued session only by finding it in Redis.
LEMMA CarriedWhenStored ==
    ASSUME Inv, Next, NEW s \in issued, NEW q \in Requests, ~Carries(q, s), Carries(q, s)'
    PROVE  Stored(s)
<1> USE DEF Inv, TypeOK, Carries
<1>1. CASE Tick
  BY <1>1 DEF Tick
<1>2. ASSUME NEW r \in Requests, Step(r)
      PROVE  Stored(s)
  <2>0. ASSUME NEW u \in Users, LoginCheck(r, u)
        PROVE  Stored(s)
    BY <2>0 DEF LoginCheck, RequestTypeOK
  <2>1. ASSUME NEW name \in DeviceNames, LoginIssue(r, name)
        PROVE  Stored(s)
    BY <2>1 DEF LoginIssue, goto, RequestTypeOK
  <2>2. ASSUME NEW t \in Tokens, AuthFind(r, t)
        PROVE  Stored(s)
    BY <2>2 DEF AuthFind, sessionByToken, goto, RequestTypeOK, SessionsAreIssued, Stored
  <2>3. CASE LoginEvict(r) \/ LoginWrite(r) \/ Touch(r) \/ Serve(r) \/ Profile(r)
    BY <2>3 DEF LoginEvict, LoginWrite, Touch, Serve, Profile, finish, goto, RequestTypeOK
  <2>4. ASSUME NEW t \in Tokens, KickoutOnlineUser(r, t)
        PROVE  Stored(s)
    BY <2>4 DEF KickoutOnlineUser, goto, RequestTypeOK
  <2>5. CASE Logout(r) \/ RemoveFind(r) \/ RemoveDelete(r) \/ Fail(r)
    BY <2>5 DEF Logout, RemoveFind, RemoveDelete, Fail, finish, goto, RequestTypeOK
  <2>6. QED
    BY <1>2, <2>0, <2>1, <2>2, <2>3, <2>4, <2>5 DEF Step
<1>3. ASSUME NEW u \in Users, NEW value \in BOOLEAN, SetEnabled(u, value)
      PROVE  Stored(s)
  BY <1>3 DEF SetEnabled
<1>4. QED
  BY <1>1, <1>2, <1>3 DEF Next

\* Sessions stay issued, and only a login issues one, for the account it was let in
\* for.
LEMMA IssuedGrows ==
    ASSUME Inv, Next
    PROVE  /\ issued \subseteq issued'
           /\ \A s \in issued' \ issued : \E r \in Requests : account[r] = s.userId
<1> USE DEF Inv, TypeOK
<1>1. ASSUME NEW r \in Requests, NEW name \in DeviceNames, LoginIssue(r, name)
      PROVE  /\ issued \subseteq issued'
             /\ \A s \in issued' \ issued : \E q \in Requests : account[q] = s.userId
  BY <1>1 DEF LoginIssue
<1>2. CASE issued' = issued
  BY <1>2
<1>3. QED
  BY <1>1, <1>2
     DEF Next, Tick, SetEnabled, Step, LoginCheck, LoginEvict, LoginWrite, AuthFind, Touch,
         Serve, Profile, Logout, KickoutOnlineUser, RemoveFind, RemoveDelete, Fail

\* A login is let in only for an account that is enabled.
LEMMA LetInWhenEnabled ==
    ASSUME Inv, Next, NEW r \in Requests, NEW u \in Users, account[r] # u, account'[r] = u
    PROVE  enabled[u]
<1> USE DEF Inv, TypeOK, RequestTypeOK
<1>1. ASSUME NEW q \in Requests, NEW v \in Users, LoginCheck(q, v)
      PROVE  enabled[u]
  BY <1>1 DEF LoginCheck
<1>2. CASE UNCHANGED account
  BY <1>2
<1>3. ASSUME NEW q \in Requests, account' = [account EXCEPT ![q] = NoUser]
      PROVE  enabled[u]
  BY <1>3, NoUserAssumption
<1>4. QED
  BY <1>1, <1>2, <1>3
     DEF Next, Tick, SetEnabled, Step, LoginIssue, LoginEvict, LoginWrite,
         AuthFind, Touch, Serve, Profile, Logout, KickoutOnlineUser, RemoveFind,
         RemoveDelete, Fail, finish, goto

LEMMA DeadNext == ASSUME Inv, [Next]_vars, NEW s \in issued, Dead(s) PROVE Dead(s)'
<1>1. CASE Next
  <2>1. s \in issued'
    BY <1>1, IssuedGrows
  <2>2. ~Stored(s)'
    BY <1>1, StoredByCarrier DEF Dead
  <2>3. \A r \in Requests : ~Carries(r, s)'
    BY <1>1, CarriedWhenStored DEF Dead
  <2>4. QED
    BY <2>1, <2>2, <2>3 DEF Dead
<1>2. CASE UNCHANGED vars
  BY <1>2 DEF vars, Dead, Stored, Carries
<1>3. QED
  BY <1>1, <1>2

\* Once a session has left Redis and every request that had read it is over,
\* no interleaving of requests puts it back: a logout, a kick-out or an expiry
\* is final from then on.
THEOREM DeadSessionsStayDead == Spec => DeadStaysDead
<1>1. Inv /\ [Next]_vars => [\A s \in issued : Dead(s) => Dead(s)']_vars
  BY DeadNext
<1>2. QED
  BY <1>1, InvAlways, PTL DEF Spec, DeadStaysDead

LEMMA LoggedOutNext ==
    ASSUME Inv, [Next]_vars, NEW u \in Users, LoggedOut(u), ~enabled[u]
    PROVE  LoggedOut(u)'
<1>1. CASE UNCHANGED vars
  BY <1>1 DEF vars, LoggedOut, Dead, Stored, Carries
<1>2. ASSUME Next, NEW s \in issued', s.userId = u
      PROVE  Dead(s)'
  BY <1>2, IssuedGrows, DeadNext DEF LoggedOut
<1>3. ASSUME Next, NEW r \in Requests
      PROVE  account'[r] # u
  BY <1>3, LetInWhenEnabled DEF LoggedOut
<1>4. QED
  BY <1>1, <1>2, <1>3 DEF LoggedOut

\* An account that is logged out everywhere, with no request of its own in progress
\* and no login let in for it, stays logged out for as long as it is disabled.
THEOREM DisabledAccountsStayOut == Spec => DisabledStaysOut
<1>1. Inv /\ [Next]_vars => [\A u \in Users : LoggedOut(u) /\ ~enabled[u] => LoggedOut(u)']_vars
  BY LoggedOutNext
<1>2. QED
  BY <1>1, InvAlways, PTL DEF Spec, DisabledStaysOut

-----------------------------------------------------------------------------
(* Removals hit the slot they were meant for. *)

LEMMA TargetedNext ==
    ASSUME Inv, Next, NEW k \in Keys, redis[k] # NoSession, redis'[k] # redis[k]
    PROVE  \/ ttl[k] = 1 /\ UNCHANGED pc
           \/ \E r \in Requests : LosesItFor(k, r)
<1> USE DEF Inv, TypeOK
<1>1. CASE Tick
  BY <1>1 DEF Tick, StoreTypeOK
<1>2. ASSUME NEW r \in Requests, Step(r)
      PROVE  LosesItFor(k, r)
  <2>1. CASE LoginEvict(r) \/ LoginWrite(r) \/ Touch(r) \/ Profile(r)
    BY <2>1
       DEF LoginEvict, LoginWrite, Touch, Profile, writeSession, deleteKey, finish, goto,
           LosesItFor, StoreTypeOK, RequestTypeOK
  <2>2. CASE RemoveDelete(r)
    <3>1. onlineSessionKey(held[r]) = k /\ pc'[r] # pc[r]
      BY <2>2 DEF RemoveDelete, deleteKey, finish, goto, StoreTypeOK, RequestTypeOK
    <3>2. held[r] \in issued /\ held[r].tokenId = target[r]
      BY <2>2, HoldsSession DEF RemoveDelete, SessionsAreIssued, TargetFound
    <3>3. QED
      BY <2>2, <3>1, <3>2 DEF RemoveDelete, LosesItFor
  <2>3. CASE redis' = redis
    BY <2>3
  <2>4. QED
    BY <1>2, <2>1, <2>2, <2>3
       DEF Step, LoginCheck, LoginIssue, AuthFind, Serve, Logout, KickoutOnlineUser,
           RemoveFind, Fail
<1>3. ASSUME NEW u \in Users, NEW value \in BOOLEAN, SetEnabled(u, value)
      PROVE  FALSE
  BY <1>3 DEF SetEnabled
<1>4. QED
  BY <1>1, <1>2, <1>3 DEF Next

\* No step takes a session away from an account or device class other than the
\* one the step is for: a session goes by its expiry, by a request of its own
\* slot, or by the removal of a token issued for its slot.
THEOREM RemovalsAreTargeted == Spec => RemovalIsTargeted
<1>1. Inv /\ [Next]_vars =>
        [\A k \in Keys : redis[k] # NoSession /\ redis'[k] # redis[k] =>
            \/ ttl[k] = 1 /\ UNCHANGED pc
            \/ \E r \in Requests : LosesItFor(k, r)]_vars
  BY TargetedNext
<1>2. QED
  BY <1>1, InvAlways, PTL DEF Spec, RemovalIsTargeted

-----------------------------------------------------------------------------
(* The store implements the registry. *)

LEMMA RegistryInit == Init => Registry!Init
BY DEF Init, Registry!Init, OpenSessions, ClosedSessions, Dead

\* A step that issues nothing closes the sessions that die by it.
LEMMA ClosesTheDying ==
    ASSUME Inv, Next, issued' = issued
    PROVE  Registry!Close
<1> DEFINE S == OpenSessions \ OpenSessions'
<1>1. ClosedSessions \subseteq ClosedSessions'
  BY DeadNext DEF ClosedSessions
<1>2. OpenSessions \cup ClosedSessions = OpenSessions' \cup ClosedSessions'
  BY DEF OpenSessions, ClosedSessions
<1>3. OpenSessions \cap ClosedSessions = {} /\ OpenSessions' \cap ClosedSessions' = {}
  BY DEF OpenSessions, ClosedSessions
<1>4. S \in SUBSET OpenSessions
  OBVIOUS
<1>5. OpenSessions' = OpenSessions \ S /\ ClosedSessions' = ClosedSessions \cup S
  BY <1>1, <1>2, <1>3
<1>6. \A s \in S : redis'[[x \in SessionData |-> onlineSessionKey(x)][s]] # s
  BY DEF OpenSessions, Dead, Stored, Inv, TypeOK, onlineSessionKey
<1>7. QED
  BY <1>4, <1>5, <1>6 DEF Registry!Close

LEMMA WriteEnters ==
    ASSUME Inv, Next, issued' = issued, NEW s \in OpenSessions, writeSession(s)
    PROVE  Registry!Next
<1>1. s \in SessionData
  BY DEF OpenSessions, Inv, TypeOK
<1>2. Registry!Enter(s)
  BY <1>1, ClosesTheDying DEF Registry!Enter, writeSession
<1>3. QED
  BY <1>1, <1>2 DEF Registry!Next

LEMMA DeletionLeaves ==
    ASSUME Inv, Next, issued' = issued, NEW K \in SUBSET Keys,
           redis' = [k \in Keys |-> IF k \in K THEN NoSession ELSE redis[k]]
    PROVE  Registry!Next
<1>1. Registry!Leave(K)
  BY ClosesTheDying DEF Registry!Leave
<1>2. QED
  BY <1>1 DEF Registry!Next

LEMMA RegistryNext == Inv /\ [Next]_vars => [Registry!Next]_(Registry!vars)
<1> SUFFICES ASSUME Inv, [Next]_vars
             PROVE  [Registry!Next]_(Registry!vars)
  OBVIOUS
<1> USE DEF Inv, TypeOK
<1>1. CASE UNCHANGED vars
  BY <1>1 DEF vars, Registry!vars, OpenSessions, ClosedSessions, Dead, Stored, Carries
<1>2. ASSUME Next, issued' = issued, redis' = redis
      PROVE  Registry!Next
  <2> DEFINE K == {}
  <2>1. redis' = [k \in Keys |-> IF k \in K THEN NoSession ELSE redis[k]]
    BY <1>2 DEF StoreTypeOK
  <2>2. K \in SUBSET Keys
    OBVIOUS
  <2> HIDE DEF K
  <2>3. QED
    BY <1>2, <2>1, <2>2, DeletionLeaves
<1>3. CASE Tick
  <2> DEFINE K == {k \in Keys : ttl[k] <= 1}
  <2>1. redis' = [k \in Keys |-> IF k \in K THEN NoSession ELSE redis[k]]
    BY <1>3 DEF Tick, StoreTypeOK
  <2>2. QED
    BY <1>3, <2>1, DeletionLeaves DEF Tick, Next
<1>4. ASSUME NEW r \in Requests, Step(r)
      PROVE  Registry!Next
  <2>0. Next
    BY <1>4 DEF Next
  <2>1. ASSUME NEW name \in DeviceNames, LoginIssue(r, name)
        PROVE  Registry!Next
    <3>0. account[r] \in Users
      BY <2>1 DEF LoginIssue, RequestTypeOK
    <3>1. PICK t \in Tokens :
            LET s == [tokenId |-> t, userId |-> account[r],
                      deviceType |-> normalizeDeviceType(name)]
            IN  /\ \A old \in issued : old.tokenId # t
                /\ issued' = issued \cup {s}
                /\ goto(r, "evict", s, NoToken)
      BY <2>1 DEF LoginIssue
    <3>2. PICK s \in SessionData :
            s \notin issued /\ issued' = issued \cup {s} /\ goto(r, "evict", s, NoToken)
      BY <3>0, <3>1 DEF SessionData, DeviceTypes
    <3>3. pc[r] = "login" /\ redis' = redis
      BY <2>1 DEF LoginIssue
    <3>4. ~Dead(s)'
      BY <3>2, <3>3 DEF Dead, Carries, goto, RequestTypeOK
    <3>5. \A x \in issued : Dead(x)' <=> Dead(x)
      <4>1. ASSUME NEW x \in issued
            PROVE  \A q \in Requests : Carries(q, x)' <=> Carries(q, x)
        BY <3>2, <3>3 DEF Carries, goto, RequestTypeOK
      <4>2. QED
        BY <3>2, <3>3, <4>1 DEF Dead, Stored
    <3>6. OpenSessions' = OpenSessions \cup {s} /\ ClosedSessions' = ClosedSessions
      BY <3>2, <3>3, <3>4, <3>5 DEF OpenSessions, ClosedSessions, Dead
    <3>7. Registry!Open(s)
      BY <3>2, <3>3, <3>6 DEF Registry!Open, OpenSessions, ClosedSessions
    <3>8. QED
      BY <3>2, <3>7 DEF Registry!Next
  <2>2. CASE LoginEvict(r)
    <3> DEFINE K == {onlineSessionKey(held[r])}
    <3>1. CASE redis' = redis
      BY <1>2, <2>0, <2>2, <3>1 DEF LoginEvict
    <3>2. CASE deleteKey(onlineSessionKey(held[r]))
      <4>1. K \in SUBSET Keys
        BY <2>2, HoldsSession, KeyOfSession DEF LoginEvict
      <4>2. redis' = [k \in Keys |-> IF k \in K THEN NoSession ELSE redis[k]]
        BY <3>2 DEF deleteKey, StoreTypeOK
      <4>3. QED
        BY <2>0, <2>2, <4>1, <4>2, DeletionLeaves DEF LoginEvict
    <3>3. QED
      BY <2>2, <3>1, <3>2 DEF LoginEvict
  <2>3. CASE LoginWrite(r) \/ Touch(r) \/ Profile(r)
    <3>1. held[r] \in issued
      BY <2>3, HoldsSession DEF LoginWrite, Touch, Profile, SessionsAreIssued
    <3>2. held[r] \in OpenSessions
      BY <2>3, <3>1 DEF LoginWrite, Touch, Profile, OpenSessions, Dead, Carries
    <3>3. QED
      BY <2>0, <2>3, <3>2, WriteEnters DEF LoginWrite, Touch, Profile
  <2>4. CASE RemoveDelete(r)
    <3> DEFINE K == {onlineSessionKey(held[r])}
    <3>1. K \in SUBSET Keys
      BY <2>4, HoldsSession, KeyOfSession DEF RemoveDelete
    <3>2. redis' = [k \in Keys |-> IF k \in K THEN NoSession ELSE redis[k]]
      BY <2>4 DEF RemoveDelete, deleteKey, StoreTypeOK
    <3>3. QED
      BY <2>0, <2>4, <3>1, <3>2, DeletionLeaves DEF RemoveDelete
  <2>5. QED
    BY <1>2, <1>4, <2>0, <2>1, <2>2, <2>3, <2>4
       DEF Step, LoginCheck, AuthFind, Serve, Logout, KickoutOnlineUser, RemoveFind,
           Fail
<1>5. ASSUME NEW u \in Users, NEW value \in BOOLEAN, SetEnabled(u, value)
      PROVE  Registry!Next
  BY <1>2, <1>5 DEF SetEnabled, Next
<1>6. QED
  BY <1>1, <1>3, <1>4, <1>5 DEF Next

\* The session store of the backend implements the registry: closing a session
\* is final, and a slot only ever takes a session that is open and for it.
THEOREM StoreImplementsRegistry == Spec => RegistryContract
<1>1. QED
  BY RegistryInit, RegistryNext, InvAlways, PTL DEF Spec, RegistryContract, Registry!Spec

=============================================================================
