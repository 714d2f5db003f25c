----------------------------- MODULE LoginLimit -----------------------------
(***************************************************************************)
(* The limit on failed logins of the Go backend (auth_service.go Login,    *)
(* login_security_service.go, user_service.go UnlockUser).                 *)
(*                                                                         *)
(* Failures are counted in Redis under one key per username.  A login      *)
(* reads the count, compares the password, and on a mismatch increments    *)
(* the count and sets the key's expiry: separate commands, so several      *)
(* logins of one username may be between any two of them, and a login may  *)
(* end between any two of them.                                            *)
(*                                                                         *)
(* Abstracted: usernames are the ones of enabled accounts, already trimmed *)
(* and lower-cased as loginAttemptKey does; a password is right or wrong;  *)
(* what a successful login does to the session store is module Sessions.   *)
(***************************************************************************)
EXTENDS Integers, FiniteSets

CONSTANTS
    Names,         \* usernames of enabled accounts
    Requests,      \* the logins that can be in progress at one time
    MaxFailures,   \* login.maxFailures
    LockTicks,     \* login.lockSeconds, in ticks
    NoName         \* a request that is not a login

ASSUME RequestsAssumption == IsFiniteSet(Requests)
ASSUME MaxFailuresAssumption == MaxFailures \in Nat \ {0}
ASSUME LockTicksAssumption == LockTicks \in Nat \ {0}
ASSUME NoNameAssumption == NoName \notin Names

\* A key that exists and never expires.
NoExpiry == -1

VARIABLES
    count,    \* the failures counted under each username, 0 without a key
    ttl,      \* ticks until Redis drops the key, NoExpiry, or 0 without a key
    pc,       \* where each login is
    name,     \* the username of each login
    config,   \* whether login.lockSeconds can be read as a number
    cut       \* names with a key that a login created and left without an expiry

vars == <<count, ttl, pc, name, config, cut>>

MaxCount == MaxFailures - 1 + Cardinality(Requests)

TypeOK ==
    /\ count \in [Names -> Nat]
    /\ ttl \in [Names -> {NoExpiry} \cup 0 .. LockTicks]
    /\ \A n \in Names : count[n] = 0 <=> ttl[n] = 0
    /\ pc \in [Requests -> {"idle", "check", "compare", "incr", "expire", "clear"}]
    /\ name \in [Requests -> Names \cup {NoName}]
    /\ \A r \in Requests : pc[r] = "idle" <=> name[r] = NoName
    /\ config \in BOOLEAN
    /\ cut \subseteq Names

Init ==
    /\ count = [n \in Names |-> 0]
    /\ ttl = [n \in Names |-> 0]
    /\ pc = [r \in Requests |-> "idle"]
    /\ name = [r \in Requests |-> NoName]
    /\ config = TRUE
    /\ cut = {}

-----------------------------------------------------------------------------
(* The counter. *)

\* (Definitions whose names end in Bug are no part of the specification: each
\* is the definition after it with a mistake that a property has to notice.)

\* The count is set to zero under its old expiry instead of being deleted.
deleteCountBug(n) ==
    /\ count' = [count EXCEPT ![n] = 0]
    /\ cut' = cut \ {n}
    /\ UNCHANGED ttl

\* DEL key.
deleteCount(n) ==
    /\ count' = [count EXCEPT ![n] = 0]
    /\ ttl' = [ttl EXCEPT ![n] = 0]
    /\ cut' = cut \ {n}

\* A tick passes; Redis drops the keys whose time has come.
Tick ==
    /\ \E n \in Names : ttl[n] > 0
    /\ ttl' = [n \in Names |-> IF ttl[n] > 0 THEN ttl[n] - 1 ELSE ttl[n]]
    /\ count' = [n \in Names |-> IF ttl[n] = 1 THEN 0 ELSE count[n]]
    /\ UNCHANGED <<pc, name, config, cut>>

-----------------------------------------------------------------------------
(* A login, command by command. *)

\* The next control point of r, which stays a login of the same username.
goto(r, p) == pc' = [pc EXCEPT ![r] = p] /\ UNCHANGED name

finish(r) ==
    /\ pc' = [pc EXCEPT ![r] = "idle"]
    /\ name' = [name EXCEPT ![r] = NoName]

Begin(r, n) ==
    /\ pc[r] = "idle"
    /\ pc' = [pc EXCEPT ![r] = "check"]
    /\ name' = [name EXCEPT ![r] = n]
    /\ UNCHANGED <<count, ttl, config, cut>>

\* One failure too many is let through.
CheckBug(r) ==
    /\ pc[r] = "check"
    /\ \/ /\ count[name[r]] > MaxFailures
          /\ finish(r)
       \/ /\ count[name[r]] <= MaxFailures
          /\ goto(r, "compare")
    /\ UNCHANGED <<count, ttl, config, cut>>

\* A login that is turned away starts the lock anew.
CheckExtendsBug(r) ==
    /\ pc[r] = "check"
    /\ \/ /\ count[name[r]] >= MaxFailures
          /\ ttl' = [ttl EXCEPT ![name[r]] = LockTicks]
          /\ finish(r)
       \/ /\ count[name[r]] < MaxFailures
          /\ goto(r, "compare")
          /\ UNCHANGED ttl
    /\ UNCHANGED <<count, config, cut>>

\* assertLoginNotLocked: GET, compared with login.maxFailures.
Check(r) ==
    /\ pc[r] = "check"
    /\ \/ /\ count[name[r]] >= MaxFailures
          /\ finish(r)
       \/ /\ count[name[r]] < MaxFailures
          /\ goto(r, "compare")
    /\ UNCHANGED <<count, ttl, config, cut>>

\* The password is compared with the stored hash.
Compare(r) ==
    /\ pc[r] = "compare"
    /\ goto(r, "incr") \/ goto(r, "clear")
    /\ UNCHANGED <<count, ttl, config, cut>>

\* The expiry is forgotten after the increment.
IncrBug(r) ==
    /\ pc[r] = "incr"
    /\ count' = [count EXCEPT ![name[r]] = @ + 1]
    /\ ttl' = [ttl EXCEPT ![name[r]] = IF @ = 0 THEN NoExpiry ELSE @]
    /\ finish(r)
    /\ UNCHANGED <<config, cut>>

\* recordLoginFailure: INCR, which creates the key without an expiry ...
Incr(r) ==
    /\ pc[r] = "incr"
    /\ count' = [count EXCEPT ![name[r]] = @ + 1]
    /\ ttl' = [ttl EXCEPT ![name[r]] = IF @ = 0 THEN NoExpiry ELSE @]
    /\ goto(r, "expire")
    /\ UNCHANGED <<config, cut>>

\* ... login.lockSeconds is read and EXPIRE sets the expiry of the key, if it
\* still exists; without a readable setting the login ends there.
Expire(r) ==
    /\ pc[r] = "expire"
    /\ \/ /\ config
          /\ ttl' = [ttl EXCEPT ![name[r]] = IF @ = 0 THEN 0 ELSE LockTicks]
          /\ cut' = cut \ {name[r]}
       \/ /\ ~config
          /\ cut' = IF ttl[name[r]] = NoExpiry THEN cut \cup {name[r]} ELSE cut
          /\ UNCHANGED ttl
    /\ finish(r)
    /\ UNCHANGED <<count, config>>

\* The password matched: the count is deleted (its error is dropped) and the
\* login goes on to the session store.
Clear(r) ==
    /\ pc[r] = "clear"
    /\ \/ deleteCount(name[r])
       \/ UNCHANGED <<count, ttl, cut>>
    /\ finish(r)
    /\ UNCHANGED config

\* The login ends where it stands: a Redis error, a client that hung up (the
\* request's context is cancelled and its commands fail), a stopped server.
Fail(r) ==
    /\ pc[r] # "idle"
    /\ cut' = IF pc[r] = "expire" /\ ttl[name[r]] = NoExpiry
              THEN cut \cup {name[r]} ELSE cut
    /\ finish(r)
    /\ UNCHANGED <<count, ttl, config>>

UnlockUser(n) ==
    /\ deleteCount(n)
    /\ UNCHANGED <<pc, name, config>>

\* UpdateConfig may give login.lockSeconds another key or a value that is not an integer.
SetConfig(value) ==
    /\ config' = value
    /\ UNCHANGED <<count, ttl, pc, name, cut>>

Step(r) == Check(r) \/ Compare(r) \/ Incr(r) \/ Expire(r) \/ Clear(r)

Next ==
    \/ Tick
    \/ \E r \in Requests :
          \/ \E n \in Names : Begin(r, n)
          \/ Step(r)
          \/ Fail(r)
    \/ \E n \in Names : UnlockUser(n)
    \/ \E value \in BOOLEAN : SetConfig(value)

Spec == Init /\ [][Next]_vars

\* Time passes, and a login that was accepted by the server goes on.
FairSpec == Spec /\ WF_vars(Tick) /\ \A r \in Requests : WF_vars(Step(r))

-----------------------------------------------------------------------------
(* What must hold. *)

Locked(n) == count[n] >= MaxFailures

\* The logins of n that may still add to its count.
Attempts(n) == {r \in Requests : name[r] = n /\ pc[r] \in {"compare", "incr"}}

\* The check and the increment are separate commands, so concurrent logins may
\* exceed login.maxFailures, but by no more than those that were in progress:
\* counted failures and logins that may still fail never exceed
\* MaxFailures - 1 plus the number of concurrent requests.
OvershootIsBounded ==
    \A n \in Names : count[n] + Cardinality(Attempts(n)) <= MaxCount

\* A count without an expiry is one that a login is about to give an expiry,
\* or that a login which ended between INCR and EXPIRE left behind.
ExpiryPending ==
    \A n \in Names : ttl[n] = NoExpiry =>
        \/ n \in cut
        \/ \E r \in Requests : pc[r] = "expire" /\ name[r] = n

\* A locked username that was not left without an expiry is unlocked by time.
LockEnds == \A n \in Names : Locked(n) /\ n \notin cut ~> ~Locked(n) \/ n \in cut

\* Every lock ends: what the setting "lock duration, in seconds" and the
\* message "locked, try again after ..." say.
EveryLockEnds == \A n \in Names : Locked(n) ~> ~Locked(n)

=============================================================================
