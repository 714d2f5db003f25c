------------------------------ MODULE Sessions ------------------------------
(***************************************************************************)
(* The login sessions of the Go backend (backend-go/internal/modules/      *)
(* system/service: service.go, auth_service.go, online_user_service.go).   *)
(*                                                                         *)
(* A session lives in Redis under one key per user and device type and     *)
(* expires ActiveTimeout ticks after it was last written.  Requests run    *)
(* concurrently.  Every Redis command on a session is an action of its own *)
(* and so is the read of the account at the start of a login: a request    *)
(* acts by what it has read, writes the copy it has or deletes the key the *)
(* copy names, whatever other requests did in between.                     *)
(*                                                                         *)
(* Abstracted: the client's address, the user agent, the real name and the *)
(* dates of a session; the password and the lock-out (module LoginLimit);  *)
(* the permission check in front of a kick-out (module Access).  SCAN      *)
(* followed by GET is one read, because the key a token may be under never *)
(* changes and GET reads only that key's value.                            *)
(***************************************************************************)
EXTENDS Naturals

CONSTANTS
    Users,          \* ids of sys_user rows
    DeviceNames,    \* what clients send as deviceType
    Tokens,         \* the uuids newToken may return
    Requests,       \* the requests that can be in progress at one time
    ActiveTimeout,  \* token.active-timeout-seconds, in ticks
    NoSession,      \* a Redis key that does not exist
    NoToken,        \* no token to remove
    NoUser          \* no account a login has been let in for

\* The device classes: several names share the slot of one class.
normalizeDeviceType(name) ==
    CASE name \in {"web", "desktop", "windows", "mac", "linux", "pc"} -> "pc"
      [] name \in {"phone", "mobile"} -> "mobile"
      [] name \in {"pad", "ipad", "tablet"} -> "tablet"
      [] OTHER -> "unknown"

DeviceTypes == {normalizeDeviceType(name) : name \in DeviceNames}

\* What a session tells apart: who it is for, on which device, under which token.
SessionData == [tokenId : Tokens, userId : Users, deviceType : DeviceTypes]

Keys == Users \X DeviceTypes

onlineSessionKey(s) == <<s.userId, s.deviceType>>

ASSUME NoSessionAssumption == NoSession \notin SessionData
ASSUME NoTokenAssumption == NoToken \notin Tokens
ASSUME NoUserAssumption == NoUser \notin Users
ASSUME ActiveTimeoutAssumption == ActiveTimeout \in Nat \ {0}

VARIABLES
    redis,    \* the session under each key, or NoSession
    ttl,      \* ticks until Redis drops the key, 0 when it does not exist
    enabled,  \* sys_user.status = 1 and deleted = 0
    issued,   \* every session a login has created so far
    pc,       \* where each request is between two Redis commands
    held,     \* the request's own copy of a session
    target,   \* the token a logout or kick-out removes
    account   \* the account of a login that has no session yet

store == <<redis, ttl>>
requests == <<pc, held, target, account>>
vars == <<store, enabled, issued, requests>>

Control == {"idle", "login", "evict", "write", "touch", "handle", "lookup", "delete"}

StoreTypeOK ==
    /\ redis \in [Keys -> SessionData \cup {NoSession}]
    /\ ttl \in [Keys -> 0 .. ActiveTimeout]
    /\ \A k \in Keys : redis[k] = NoSession <=> ttl[k] = 0

RequestTypeOK ==
    /\ pc \in [Requests -> Control]
    /\ held \in [Requests -> SessionData \cup {NoSession}]
    /\ target \in [Requests -> Tokens \cup {NoToken}]
    /\ account \in [Requests -> Users \cup {NoUser}]
    /\ \A r \in Requests :
          /\ held[r] = NoSession <=> pc[r] \in {"idle", "login", "lookup"}
          /\ account[r] = NoUser <=> pc[r] # "login"

\* The types, and: a key exists exactly as long as its expiry is armed.
TypeOK ==
    /\ StoreTypeOK
    /\ RequestTypeOK
    /\ enabled \in [Users -> BOOLEAN]
    /\ issued \subseteq SessionData

Init ==
    /\ redis = [k \in Keys |-> NoSession]
    /\ ttl = [k \in Keys |-> 0]
    /\ enabled \in [Users -> BOOLEAN]
    /\ issued = {}
    /\ pc = [r \in Requests |-> "idle"]
    /\ held = [r \in Requests |-> NoSession]
    /\ target = [r \in Requests |-> NoToken]
    /\ account = [r \in Requests |-> NoUser]

-----------------------------------------------------------------------------
(* The store. *)

\* (Definitions whose names end in Bug are no part of the specification: each
\* is the definition after it with a mistake that a property has to notice.)

\* SET without an expiry.
writeSessionBug(s) ==
    /\ redis' = [redis EXCEPT ![onlineSessionKey(s)] = s]
    /\ ttl' = [ttl EXCEPT ![onlineSessionKey(s)] = 0]

\* SET key value EX ActiveTimeout: the whole session, and a fresh deadline.
writeSession(s) ==
    /\ redis' = [redis EXCEPT ![onlineSessionKey(s)] = s]
    /\ ttl' = [ttl EXCEPT ![onlineSessionKey(s)] = ActiveTimeout]

\* DEL key.
deleteKey(k) ==
    /\ redis' = [redis EXCEPT ![k] = NoSession]
    /\ ttl' = [ttl EXCEPT ![k] = 0]

\* The keys whose session carries the token.
sessionByToken(t) == {k \in Keys : redis[k] # NoSession /\ redis[k].tokenId = t}

\* A tick passes and Redis drops the keys whose time has come.
Tick ==
    /\ \E k \in Keys : ttl[k] > 0
    /\ ttl' = [k \in Keys |-> IF ttl[k] > 0 THEN ttl[k] - 1 ELSE 0]
    /\ redis' = [k \in Keys |-> IF ttl[k] > 1 THEN redis[k] ELSE NoSession]
    /\ UNCHANGED <<enabled, issued, requests>>

-----------------------------------------------------------------------------
(* The requests. *)

\* r goes on to control point p with copy s, and t as the token to remove.
goto(r, p, s, t) ==
    /\ pc' = [pc EXCEPT ![r] = p]
    /\ held' = [held EXCEPT ![r] = s]
    /\ target' = [target EXCEPT ![r] = t]
    /\ account' = [account EXCEPT ![r] = NoUser]

finish(r) == goto(r, "idle", NoSession, NoToken)

\* The account's status is not looked at.
LoginCheckBug(r, u) ==
    /\ pc[r] = "idle"
    /\ pc' = [pc EXCEPT ![r] = "login"]
    /\ account' = [account EXCEPT ![r] = u]
    /\ UNCHANGED <<store, enabled, issued, held, target>>

\* Login reads the row of the account and finds it enabled.  It does not look at the
\* row again while it checks the lock-out and the password.
LoginCheck(r, u) ==
    /\ pc[r] = "idle"
    /\ enabled[u]
    /\ pc' = [pc EXCEPT ![r] = "login"]
    /\ account' = [account EXCEPT ![r] = u]
    /\ UNCHANGED <<store, enabled, issued, held, target>>

\* The token of a session the account already has is shared with the new one.
LoginIssueBug(r, name) ==
    /\ pc[r] = "login"
    /\ \E t \in Tokens :
        LET s == [tokenId |-> t, userId |-> account[r],
                  deviceType |-> normalizeDeviceType(name)]
        IN  /\ \A old \in issued : old.tokenId # t \/ old.userId = account[r]
            /\ issued' = issued \cup {s}
            /\ goto(r, "evict", s, NoToken)
    /\ UNCHANGED <<store, enabled>>

\* The password matched, and newToken gives the session its token.  The device name
\* has come with the request and matters from here on.
LoginIssue(r, name) ==
    /\ pc[r] = "login"
    /\ \E t \in Tokens :
        LET s == [tokenId |-> t, userId |-> account[r],
                  deviceType |-> normalizeDeviceType(name)]
        IN  /\ \A old \in issued : old.tokenId # t
            /\ issued' = issued \cup {s}
            /\ goto(r, "evict", s, NoToken)
    /\ UNCHANGED <<store, enabled>>

\* removeExistingUserDeviceSession; its error is dropped and the login goes on.
LoginEvict(r) ==
    /\ pc[r] = "evict"
    /\ \/ deleteKey(onlineSessionKey(held[r]))
       \/ UNCHANGED store
    /\ goto(r, "write", held[r], NoToken)
    /\ UNCHANGED <<enabled, issued>>

LoginWrite(r) ==
    /\ pc[r] = "write"
    /\ writeSession(held[r])
    /\ finish(r)
    /\ UNCHANGED <<enabled, issued>>

\* The session is taken from a memory of issued sessions, not from Redis.
AuthFindBug(r, t) ==
    /\ pc[r] = "idle"
    /\ \E s \in issued : s.tokenId = t /\ goto(r, "touch", s, NoToken)
    /\ UNCHANGED <<store, enabled, issued>>

\* AuthMiddleware finds the session of the token the client sent; without one
\* the request ends with 401 and nothing has changed.
AuthFind(r, t) ==
    /\ pc[r] = "idle"
    /\ \E k \in sessionByToken(t) : goto(r, "touch", redis[k], NoToken)
    /\ UNCHANGED <<store, enabled, issued>>

\* Every device slot of the account is written.
TouchBug(r) ==
    /\ pc[r] = "touch"
    /\ redis' = [k \in Keys |-> IF k[1] = held[r].userId THEN held[r] ELSE redis[k]]
    /\ ttl' = [k \in Keys |-> IF k[1] = held[r].userId THEN ActiveTimeout ELSE ttl[k]]
    /\ goto(r, "handle", held[r], NoToken)
    /\ UNCHANGED <<enabled, issued>>

\* touchSession writes the copy that AuthFind read.
Touch(r) ==
    /\ pc[r] = "touch"
    /\ writeSession(held[r])
    /\ goto(r, "handle", held[r], NoToken)
    /\ UNCHANGED <<enabled, issued>>

\* A handler that leaves the session store alone.
Serve(r) ==
    /\ pc[r] = "handle"
    /\ finish(r)
    /\ UNCHANGED <<store, enabled, issued>>

\* Profile writes the request's copy a second time, after its database update.
Profile(r) ==
    /\ pc[r] = "handle"
    /\ writeSession(held[r])
    /\ finish(r)
    /\ UNCHANGED <<enabled, issued>>

Logout(r) ==
    /\ pc[r] = "handle"
    /\ goto(r, "lookup", NoSession, held[r].tokenId)
    /\ UNCHANGED <<store, enabled, issued>>

KickoutOnlineUser(r, t) ==
    /\ pc[r] = "handle"
    /\ t # held[r].tokenId
    /\ goto(r, "lookup", NoSession, t)
    /\ UNCHANGED <<store, enabled, issued>>

\* removeSession, first command: find the session of the token ...
RemoveFind(r) ==
    /\ pc[r] = "lookup"
    /\ \/ /\ sessionByToken(target[r]) = {}
          /\ finish(r)
       \/ \E k \in sessionByToken(target[r]) : goto(r, "delete", redis[k], target[r])
    /\ UNCHANGED <<store, enabled, issued>>

\* Every session of the account is deleted.
RemoveDeleteBug(r) ==
    /\ pc[r] = "delete"
    /\ redis' = [k \in Keys |-> IF k[1] = held[r].userId THEN NoSession ELSE redis[k]]
    /\ ttl' = [k \in Keys |-> IF k[1] = held[r].userId THEN 0 ELSE ttl[k]]
    /\ finish(r)
    /\ UNCHANGED <<enabled, issued>>

\* ... second command: delete the key that session was under.
RemoveDelete(r) ==
    /\ pc[r] = "delete"
    /\ deleteKey(onlineSessionKey(held[r]))
    /\ finish(r)
    /\ UNCHANGED <<enabled, issued>>

\* The request ends where it stands: a Redis error is returned to the client,
\* the client hung up, or the server stopped.
Fail(r) ==
    /\ pc[r] # "idle"
    /\ finish(r)
    /\ UNCHANGED <<store, enabled, issued>>

\* UserStatus, DeleteUser or UpdateUser: one UPDATE; sessions are not touched.
SetEnabled(u, value) ==
    /\ enabled' = [enabled EXCEPT ![u] = value]
    /\ UNCHANGED <<store, issued, requests>>

Step(r) ==
    \/ \E u \in Users : LoginCheck(r, u)
    \/ \E name \in DeviceNames : LoginIssue(r, name)
    \/ LoginEvict(r)
    \/ LoginWrite(r)
    \/ \E t \in Tokens : AuthFind(r, t)
    \/ Touch(r)
    \/ Serve(r)
    \/ Profile(r)
    \/ Logout(r)
    \/ \E t \in Tokens : KickoutOnlineUser(r, t)
    \/ RemoveFind(r)
    \/ RemoveDelete(r)
    \/ Fail(r)

Next ==
    \/ Tick
    \/ \E r \in Requests : Step(r)
    \/ \E u \in Users, value \in BOOLEAN : SetEnabled(u, value)

Spec == Init /\ [][Next]_vars

\* Time passes; nothing else is needed for a session to expire.
FairSpec == Spec /\ WF_vars(Tick)

-----------------------------------------------------------------------------
(* What must hold. *)

Stored(s) == redis[onlineSessionKey(s)] = s

\* A request that may still write its copy of s to Redis.
Carries(r, s) ==
    /\ pc[r] \in {"evict", "write", "touch", "handle"}
    /\ held[r] = s

\* Issued, in Redis no more, and in no request that could put it back.
Dead(s) == s \in issued /\ ~Stored(s) /\ \A r \in Requests : ~Carries(r, s)

\* Every session in Redis or in a request was created by a login, sits under
\* the key it names, and its token belongs to no other session: sessionByToken,
\* which stops at the first match, can never meet two.
SessionsAreIssued ==
    /\ \A k \in Keys : redis[k] # NoSession =>
          redis[k] \in issued /\ onlineSessionKey(redis[k]) = k
    /\ \A r \in Requests : held[r] # NoSession => held[r] \in issued
    /\ \A s1, s2 \in issued : s1.tokenId = s2.tokenId => s1 = s2

\* A session that has left Redis and is in no request never comes back: what a
\* late touchSession or Profile can revive after a logout, a kick-out, a newer
\* login or an expiry is only what it read before.
DeadStaysDead == [][\A s \in issued : Dead(s) => Dead(s)']_vars

\* An account without a session, with no request that carries one of its sessions
\* and no login that was let in for it before it was disabled, gets none while it
\* stays disabled.  (A disabled account that has a session keeps it, as
\* AuthMiddleware does not look at sys_user; and a login that has read the row
\* before it was disabled makes a session afterwards.)
LoggedOut(u) ==
    /\ \A s \in issued : s.userId = u => Dead(s)
    /\ \A r \in Requests : account[r] # u
DisabledStaysOut ==
    [][\A u \in Users : LoggedOut(u) /\ ~enabled[u] => LoggedOut(u)']_vars

\* A session leaves its key only when its time has come, when a request of the
\* same user and device class writes, or when a request removes a token
\* that was issued for that very user and device class.
LosesItFor(k, r) ==
    /\ pc'[r] # pc[r]
    /\ \/ pc[r] \in {"evict", "write", "touch", "handle"} /\ onlineSessionKey(held[r]) = k
       \/ /\ pc[r] = "delete"
          /\ \E s \in issued : s.tokenId = target[r] /\ onlineSessionKey(s) = k
RemovalIsTargeted ==
    [][\A k \in Keys : redis[k] # NoSession /\ redis'[k] # redis[k] =>
          \/ ttl[k] = 1 /\ UNCHANGED pc
          \/ \E r \in Requests : LosesItFor(k, r)]_vars

\* A session that requests stop using is out of Redis for good after a while.
IdleSessionExpires ==
    \A t \in Tokens, k \in Keys :
        LET s == [tokenId |-> t, userId |-> k[1], deviceType |-> k[2]]
        IN  <>[](\A r \in Requests : ~Carries(r, s)) => <>[](~Stored(s))

=============================================================================
