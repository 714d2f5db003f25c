------------------------------ MODULE SessionAge ------------------------------
(* Sessions with the time since each login, to compare the life of a session  *)
(* with token.timeout-seconds (config.go, TimeoutSeconds).                    *)
EXTENDS Sessions

CONSTANT TokenTimeout   \* token.timeout-seconds, in ticks

VARIABLE age   \* ticks since the login that created each token, up to TokenTimeout

AgeInit == Init /\ age = [t \in Tokens |-> 0]

\* TokenTimeout bounds the count.
Older ==
    age' = [t \in Tokens |->
              IF (\E s \in issued : s.tokenId = t) /\ age[t] < TokenTimeout
              THEN age[t] + 1 ELSE age[t]]

AgeNext ==
    \/ Tick /\ Older
    \/ /\ UNCHANGED age
       /\ \/ \E r \in Requests : Step(r)
          \/ \E u \in Users, value \in BOOLEAN : SetEnabled(u, value)

AgeSpec == AgeInit /\ [][AgeNext]_<<vars, age>>

\* No session outlives the token timeout, however often it is used: the
\* development list says that both timeouts are implemented.
TokenTimeoutHonoured ==
    \A k \in Keys : redis[k] # NoSession => age[redis[k].tokenId] < TokenTimeout

=============================================================================
