-------------------------------- MODULE License --------------------------------
(***************************************************************************)
(* The license of one user on one device: admin_console, which keeps the   *)
(* refresh sessions and signs bundles, and the client, whose scheduler     *)
(* (licenseScheduler.js) renews the bundle while the user signs in and     *)
(* out, redeems activation codes and is locked out by the administrator.   *)
(*                                                                         *)
(* A refresh token can be used once: the server rotates it, and takes the  *)
(* use of a rotated one for a copy and revokes the whole family.  So a     *)
(* reply that is lost, or not saved, leaves the client with a token whose  *)
(* next use signs the user out.                                            *)
(***************************************************************************)
EXTENDS Naturals, FiniteSets

CONSTANTS Codes,         \* activation codes
          SnapshotTtl,   \* snapshotTtlMinutes
          MaxTokens,     \* bound: refresh tokens issued
          MaxCalls,      \* bound: requests of the client
          MaxClock       \* bound: clock ticks in a behaviour

ASSUME LicenseAssumption ==
    /\ IsFiniteSet(Codes)
    /\ SnapshotTtl \in Nat \ {0}
    /\ MaxTokens \in Nat /\ MaxCalls \in Nat /\ MaxClock \in Nat \ {0}

Tokens == 1 .. MaxTokens
CallIds == 1 .. MaxCalls
Times == 0 .. MaxClock

VARIABLES
    now,         \* Date.now() of both programs
    user,        \* client_user.status, and since when it is not "active"
    tokens,      \* refresh_session: token -> status, family, when it was revoked
    codes,       \* activation codes that have been redeemed
    calls,       \* the client's requests
    bundle,      \* what the LicenseStore has
    refreshing,  \* refreshPromise of the current generation, 0 if there is none
    left,        \* history: sign-ins the server has ended by logout or after a reuse
    disturbed    \* history: a reply was lost, or a redemption overlapped a refresh

serverVars == <<user, tokens, codes, left>>
clientVars == <<bundle, refreshing, disturbed>>
vars == <<now, serverVars, calls, clientVars>>

-----------------------------------------------------------------------------
NoBundle == [token |-> 0, issue |-> 0, exp |-> 0, granted |-> 0]

\* The snapshot of a bundle is known by the request that it answered (jti).
Bundles == [token : Tokens, issue : CallIds, exp : Nat, granted : 0 .. Cardinality(Codes)]

Kinds == {"none", "login", "refresh", "redeem", "logout"}

\* sent: the server has not had it; orphan: the same, but nobody waits any more;
\* answered: the reply is on its way.
Call == [kind : Kinds,
         state : {"unused", "sent", "orphan", "answered", "over"},
         token : {0} \cup Tokens,            \* the refresh credential it presents
         from : 0 .. MaxCalls,               \* issue of the bundle it was made with
         code : Codes \cup {"none"},
         reply : Bundles \cup {NoBundle}]

Unused == [kind |-> "none", state |-> "unused", token |-> 0, from |-> 0, code |-> "none",
           reply |-> NoBundle]

Over == [Unused EXCEPT !.state = "over"]

Init ==
    /\ now = 1
    /\ user = [active |-> TRUE, off |-> 0]
    /\ tokens = [t \in Tokens |-> [status |-> "none", family |-> 0, revoked |-> 0]]
    /\ codes = {}
    /\ calls = [c \in CallIds |-> Unused]
    /\ bundle = NoBundle
    /\ refreshing = 0
    /\ left = {}
    /\ disturbed = FALSE

-----------------------------------------------------------------------------
(* The tables of the server (controlPlaneStore.js).                          *)

Active(t) == tokens[t].status = "active"

Revoked(ts) ==
    [t \in Tokens |-> IF t \in ts THEN [tokens[t] EXCEPT !.status = "revoked", !.revoked = now]
                      ELSE tokens[t]]

\* Mutant of FamilyOf: only the token presented.
ItselfOnly(t) == {t}

\* revokeRefreshFamily: all that are not revoked yet.
FamilyOf(t) == {s \in Tokens : tokens[s].status \in {"active", "rotated"}
                               /\ tokens[s].family = tokens[t].family}

\* createRefreshSession: a token of this family, or the first of its own.
Fresh(t) ==
    /\ tokens[t].status = "none"
    /\ \A s \in 1 .. t - 1 : tokens[s].status # "none"

Rotated(t) == [tokens EXCEPT ![t].status = "rotated"]

Created(table, t, family) ==
    [table EXCEPT ![t] = [status |-> "active", family |-> family, revoked |-> 0]]

\* resolveRefreshSession: the device is the client's, the 30 days are an end of
\* their own (EndSession).
Usable(t) == t # 0 /\ Active(t) /\ user.active

\* Mutant of MayLogin: the password is enough.
AnyStatus == TRUE

\* authenticateClientUser
MayLogin == user.active

\* issueUserBundle: what the user is entitled to now, for SnapshotTtl.
Bundle(t, c, redeemed) ==
    [token |-> t, issue |-> c, exp |-> now + SnapshotTtl, granted |-> Cardinality(redeemed)]

\* A request is answered, unless nobody waits for the answer.
Answer(c, reply) ==
    calls' = [calls EXCEPT ![c] = IF @.state = "orphan" THEN Over
                                  ELSE [@ EXCEPT !.state = "answered", !.reply = reply]]

Refuse(c) == Answer(c, NoBundle)

\* POST /api/auth/login, and the last step of a registration; a wrong password
\* is refused as well.
HandleLogin(c) ==
    /\ \/ \E t \in Tokens :
             /\ MayLogin /\ Fresh(t)
             /\ tokens' = Created(tokens, t, t)
             /\ Answer(c, Bundle(t, c, codes))
       \/ Refuse(c) /\ UNCHANGED tokens
    /\ UNCHANGED <<user, codes, left>>

\* POST /api/auth/refresh: rotateRefreshSession.
HandleRefresh(c) ==
    LET t == calls[c].token
    IN  /\ \/ /\ tokens[t].status = "rotated"
              /\ tokens' = Revoked(FamilyOf(t))
              /\ left' = left \cup {tokens[t].family}
              /\ Refuse(c)
           \/ /\ tokens[t].status # "rotated" /\ ~Usable(t)
              /\ Refuse(c) /\ UNCHANGED <<tokens, left>>
           \/ \E s \in Tokens :
                 /\ tokens[t].status # "rotated" /\ Usable(t) /\ Fresh(s)
                 /\ tokens' = Created(Rotated(t), s, tokens[t].family)
                 /\ Answer(c, Bundle(s, c, codes))
                 /\ UNCHANGED left
        /\ UNCHANGED <<user, codes>>

\* POST /api/auth/membership/redeem: redeemActivationCode in its transaction.  The
\* bundle comes with the token that was presented.
HandleRedeem(c) ==
    LET t == calls[c].token
    IN  /\ \/ /\ Usable(t) /\ calls[c].code \notin codes
              /\ codes' = codes \cup {calls[c].code}
              /\ Answer(c, Bundle(t, c, codes'))
           \/ Refuse(c) /\ UNCHANGED codes
        /\ UNCHANGED <<user, tokens, left>>

\* POST /api/auth/logout: revokeRefreshSession, of an active token only.
HandleLogout(c) ==
    LET t == calls[c].token
    IN  /\ IF t # 0 /\ Active(t)
           THEN tokens' = Revoked({t}) /\ left' = left \cup {tokens[t].family}
           ELSE UNCHANGED <<tokens, left>>
        /\ Refuse(c)
        /\ UNCHANGED <<user, codes>>

Handle(c) ==
    /\ calls[c].state \in {"sent", "orphan"}
    /\ \/ calls[c].kind = "login" /\ HandleLogin(c)
       \/ calls[c].kind = "refresh" /\ HandleRefresh(c)
       \/ calls[c].kind = "redeem" /\ HandleRedeem(c)
       \/ calls[c].kind = "logout" /\ HandleLogout(c)
    /\ UNCHANGED <<now, clientVars>>

AllActive == {t \in Tokens : Active(t)}

\* The administrator disables or archives the user, or lets them in again.
SetStatus ==
    /\ user' = [active |-> ~user.active, off |-> IF user.active THEN now ELSE 0]
    /\ tokens' = IF user.active THEN Revoked(AllActive) ELSE tokens
    /\ UNCHANGED <<now, codes, left, calls, clientVars>>

\* The password is reset, by the user or the administrator; or one session is
\* revoked, or over after its 30 days.
EndSession ==
    /\ \E ts \in {AllActive} \cup {{t} : t \in AllActive} :
          ts # {} /\ tokens' = Revoked(ts)
    /\ UNCHANGED <<now, user, codes, left, calls, clientVars>>

-----------------------------------------------------------------------------
(* The client: scheduler, store and the routes of the UI server.             *)

LicenseOk == bundle.exp > now        \* evaluateBundle, getState

Open(c) == calls[c].state \in {"sent", "answered"}

OpenRefreshes == {c \in CallIds : calls[c].kind = "refresh" /\ Open(c)}

Send(c, kind, token, code) ==
    /\ calls[c].state = "unused"
    /\ \A d \in 1 .. c - 1 : calls[d].state # "unused"
    /\ calls' = [calls EXCEPT ![c] = [kind |-> kind, state |-> "sent", token |-> token,
                                      from |-> bundle.issue, code |-> code, reply |-> NoBundle]]

\* POST /api/client-auth/login, also when somebody is signed in.
Login(c) ==
    /\ Send(c, "login", 0, "none")
    /\ UNCHANGED <<now, serverVars, clientVars>>

\* Mutant of MayRefresh: the next refresh does not wait for the last.
MayAlways == bundle # NoBundle

MayRefresh == bundle # NoBundle /\ refreshing = 0

\* A tick of the scheduler: one refresh at a time, of the bundle's own generation.
\* How near its end the bundle is, is left open.
Tick(c) ==
    /\ MayRefresh
    /\ Send(c, "refresh", bundle.token, "none")
    /\ refreshing' = c
    /\ UNCHANGED <<now, serverVars, bundle, disturbed>>

\* POST /api/membership/redeem: the credential is read before the request.
Redeem(c, code) ==
    /\ LicenseOk
    /\ Send(c, "redeem", bundle.token, code)
    /\ UNCHANGED <<now, serverVars, clientVars>>

\* POST /api/client-auth/logout, also when nobody is signed in: the bundle is cleared when the server has answered.
Logout(c) ==
    /\ Send(c, "logout", bundle.token, "none")
    /\ UNCHANGED <<now, serverVars, clientVars>>

\* importBundle and clear begin a generation: a refresh that is under way is of an
\* earlier one from now on.
Stored(b) == bundle' = b /\ refreshing' = 0

\* POST /api/license/clear
Clear ==
    /\ bundle # NoBundle
    /\ Stored(NoBundle)
    /\ UNCHANGED <<now, serverVars, calls, disturbed>>

\* Mutant of Current: whatever comes is saved.
AnyAnswer(c) == TRUE

\* generation === startedGeneration and the version of the bundle is the same.
Current(c) == refreshing = c /\ bundle.issue = calls[c].from

\* The end of maybeRefresh, with a bundle or without (a refusal is logged and the
\* bundle kept).
Refreshed(c, b) ==
    /\ bundle' = IF b # NoBundle /\ Current(c) THEN b ELSE bundle
    /\ refreshing' = IF refreshing = c THEN 0 ELSE refreshing

\* The bundle that comes with this redemption has a credential that is not the
\* client's any more, or that a refresh under way takes away from it.
Overlapped(c) ==
    \/ bundle.token # calls[c].token
    \/ \E r \in OpenRefreshes : calls[r].token = calls[c].token

\* What the client does with the end of a request, b being the bundle in the reply.
Ended(c, b) ==
    \/ /\ calls[c].kind = "refresh"
       /\ Refreshed(c, b)
       /\ UNCHANGED disturbed
    \/ /\ calls[c].kind = "logout"
       /\ Stored(NoBundle)
       /\ UNCHANGED disturbed
    \/ /\ calls[c].kind \in {"login", "redeem"} /\ b # NoBundle
       /\ Stored(b)
       /\ disturbed' = (disturbed \/ (calls[c].kind = "redeem" /\ Overlapped(c)))
    \/ /\ calls[c].kind \in {"login", "redeem"} /\ b = NoBundle
       /\ UNCHANGED clientVars

Receive(c) ==
    /\ calls[c].state = "answered"
    /\ calls' = [calls EXCEPT ![c] = Over]
    /\ Ended(c, calls[c].reply)
    /\ UNCHANGED <<now, serverVars>>

\* Nobody waits for these any more, whether the server has had them or not.
Abandoned(cs) ==
    [c \in CallIds |-> IF c \notin cs THEN calls[c]
                       ELSE IF calls[c].state = "sent" THEN [calls[c] EXCEPT !.state = "orphan"]
                       ELSE Over]

\* 10 s without an answer, or the connection breaks.
GiveUp(c) ==
    /\ Open(c)
    /\ calls' = Abandoned({c})
    /\ IF calls[c].kind = "refresh"
       THEN Refreshed(c, NoBundle) /\ disturbed' = TRUE
       ELSE Ended(c, NoBundle)
    /\ UNCHANGED <<now, serverVars>>

\* The client is started again: the store remains, nothing else does.
Restart ==
    /\ \E c \in CallIds : Open(c)
    /\ calls' = Abandoned({c \in CallIds : Open(c)})
    /\ refreshing' = 0
    /\ disturbed' = (disturbed \/ OpenRefreshes # {})
    /\ UNCHANGED <<now, serverVars, bundle>>

PassTime ==
    /\ now < MaxClock
    /\ now' = now + 1
    /\ UNCHANGED <<serverVars, calls, clientVars>>

Next ==
    \/ \E c \in CallIds :
          \/ Login(c) \/ Tick(c) \/ Logout(c) \/ \E code \in Codes : Redeem(c, code)
          \/ Handle(c) \/ Receive(c) \/ GiveUp(c)
    \/ Clear
    \/ Restart
    \/ SetStatus
    \/ EndSession
    \/ PassTime

Spec == Init /\ [][Next]_vars

-----------------------------------------------------------------------------
TypeOK ==
    /\ now \in 1 .. MaxClock
    /\ user \in [active : BOOLEAN, off : Times]
    /\ tokens \in [Tokens -> [status : {"none", "active", "rotated", "revoked"},
                              family : {0} \cup Tokens, revoked : Times]]
    /\ codes \subseteq Codes
    /\ left \subseteq Tokens
    /\ calls \in [CallIds -> Call]
    /\ bundle \in Bundles \cup {NoBundle}
    /\ refreshing \in {0} \cup OpenRefreshes
    /\ disturbed \in BOOLEAN

\* A sign-in has one usable token at a time, and none once a logout of it has been
\* confirmed or a rotated token of it was used (rotateRefreshSession,
\* revokeRefreshFamily), whatever rotations were on their way then.
SessionsLinear ==
    /\ \A t, s \in AllActive : tokens[t].family = tokens[s].family => t = s
    /\ \A t \in AllActive : tokens[t].family \notin left

\* The credential the client has is not one that it has used up, so that its next
\* refresh is not taken for a theft: unless the reply to a refresh was lost or a
\* redemption overlapped a refresh.  The window is that of a refresh under way.
ClientTokenCurrent ==
    ~disturbed /\ bundle # NoBundle /\ (refreshing = 0 \/ calls[refreshing].state = "sent")
    => tokens[bundle.token].status # "rotated"

\* The license design (section 8.5) promises that a client whose user is disabled or
\* whose session is revoked is locked within the life of a snapshot, although nobody
\* tells it: also if bundles were on their way when that happened.
AccessEnds ==
    LicenseOk =>
        /\ ~user.active => now < user.off + SnapshotTtl
        /\ tokens[bundle.token].status = "revoked" =>
              now < tokens[bundle.token].revoked + SnapshotTtl

\* The answer to a refresh never undoes what has happened meanwhile: it does not
\* sign in again, changes to no other sign-in, nor takes back a redeemed membership.
RefreshNeverStale ==
    [][\A c \in CallIds :
          calls[c].kind = "refresh" /\ Open(c) /\ calls'[c] = Over /\ bundle' # bundle
          => /\ NoBundle \notin {bundle, bundle'}
             /\ tokens[bundle'.token].family = tokens[bundle.token].family
             /\ bundle'.granted >= bundle.granted]_vars

=============================================================================
