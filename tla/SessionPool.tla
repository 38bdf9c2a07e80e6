----------------------------- MODULE SessionPool -----------------------------
(***************************************************************************)
(* The Steam session of one account: services/sessionPool.js, the          *)
(* tokenRecoveryService.js its connects go through, and the refresh token  *)
(* in the token store, which they, cs2Session.js, refreshWorkflow.js and   *)
(* the web and login routes of uiServer.js read and write.  The pool has   *)
(* one entry per account, so one account is enough.                        *)
(*                                                                         *)
(* A flight is one connect started by acquire, with its session.  While it *)
(* goes on, the entry holds its promise but not its session: dropping the  *)
(* entry then does not stop the flight, which sets the entry again when it *)
(* is done.  The pool's handlers drop the entry by account name, whatever  *)
(* session raised the event.                                               *)
(*                                                                         *)
(* The names with Pool are those that AccountRuntime has too: one module   *)
(* proves the theorems about both.                                         *)
(***************************************************************************)
EXTENDS Naturals, FiniteSets

CONSTANTS Callers,      \* requests that acquire the session
          MaxFlights,   \* bound: connects in a behaviour
          MaxTokens     \* bound: refresh tokens Steam issues in a behaviour

ASSUME SessionPoolAssumption == MaxFlights \in Nat \ {0} /\ MaxTokens \in Nat \ {0}

VARIABLES
    entry,      \* entries.get(account): [kind, flight]
    flights,    \* flight -> [phase, token, recover, retried]
    callers,    \* caller -> [phase, flight]
    logins,     \* credential logins of performRecovery under way
    stored,     \* TokenStore: the refresh token, 0 when there is none
    issued,     \* refresh tokens issued so far
    guarded,    \* the account has a maFile: a login without the user is possible
    deleted     \* the account was deleted

poolVars == <<entry, flights, callers, logins, stored, issued, guarded, deleted>>

-----------------------------------------------------------------------------
FlightIds == 1 .. MaxFlights

Flying == {"connecting", "recovering"}

\* "leaving": disconnect() called, the last "disconnected" event may still come.
Phases == {"unused", "open", "leaving", "over"} \cup Flying

NoEntry == [kind |-> "none", flight |-> 0]

PoolInit ==
    /\ entry = NoEntry
    /\ flights = [f \in FlightIds |-> [phase |-> "unused", token |-> 0,
                                       recover |-> FALSE, retried |-> FALSE]]
    /\ callers = [c \in Callers |-> [phase |-> "idle", flight |-> 0]]
    /\ logins = 0
    /\ stored \in {0, 1}
    /\ issued = 1
    /\ guarded \in BOOLEAN
    /\ deleted = FALSE

\* Mutant of Tell: the promise is never settled.
TellNobody(fs, phase) == callers

\* Mutant of Tell: only the flight that the entry still names has callers to tell.
TellListed(fs, phase) ==
    [c \in Callers |-> IF callers[c].phase = "waiting" /\ callers[c].flight \in fs \cap {entry.flight}
                       THEN [callers[c] EXCEPT !.phase = phase] ELSE callers[c]]

\* Callers that wait for a flight of fs, when it ends.
Tell(fs, phase) ==
    [c \in Callers |-> IF callers[c].phase = "waiting" /\ callers[c].flight \in fs
                       THEN [callers[c] EXCEPT !.phase = phase] ELSE callers[c]]

\* disconnectEntry: the session the entry has, if it has one, is logged off.
Disconnected(fl) ==
    IF entry.kind = "ready" THEN [fl EXCEPT ![entry.flight].phase = "leaving"] ELSE fl

-----------------------------------------------------------------------------
(* recoverToken: one credential login serves everyone that needs it.         *)

\* Mutant of JoinsRecovery: the recoveries map is not looked at.
NeverJoins == FALSE

JoinsRecovery == logins > 0

\* The flight ends in an error; its catch drops the account's entry.
Fail(f) ==
    /\ flights' = Disconnected([flights EXCEPT ![f].phase = "over"])
    /\ entry' = NoEntry
    /\ callers' = Tell({f}, "failed")
    /\ UNCHANGED logins

\* performRecovery, up to its login: the account's sessions are invalidated and
\* the stored token removed, before any other callback runs.  A deleted account
\* fails before that; one without a maFile, a password or a code after it.
Recover(f) ==
    \/ /\ JoinsRecovery
       /\ flights' = [flights EXCEPT ![f].phase = "recovering"]
       /\ UNCHANGED <<entry, callers, logins, stored>>
    \/ /\ ~JoinsRecovery
       /\ deleted
       /\ Fail(f)
       /\ UNCHANGED stored
    \/ /\ ~JoinsRecovery
       /\ ~deleted
       /\ stored' = 0
       /\ Fail(f)
    \/ /\ ~JoinsRecovery
       /\ ~deleted
       /\ guarded
       /\ stored' = 0
       /\ flights' = Disconnected([flights EXCEPT ![f].phase = "recovering"])
       /\ entry' = NoEntry
       /\ logins' = logins + 1
       /\ UNCHANGED callers

LoginPending == logins > 0

\* The login answers: the token is stored and every waiting flight connects
\* again, once.
LoginOk ==
    /\ LoginPending
    /\ issued < MaxTokens
    /\ issued' = issued + 1
    /\ stored' = issued'
    /\ logins' = logins - 1
    /\ flights' = [f \in FlightIds |->
                      IF flights[f].phase = "recovering"
                      THEN [flights[f] EXCEPT !.phase = "connecting", !.token = issued',
                                              !.retried = TRUE]
                      ELSE flights[f]]
    /\ UNCHANGED <<entry, callers, deleted>>

LoginFails ==
    /\ LoginPending
    /\ logins' = logins - 1
    /\ LET ending == {f \in FlightIds : flights[f].phase = "recovering"}
       IN  \/ /\ ending = {}
              /\ UNCHANGED <<entry, flights, callers>>
           \/ /\ ending # {}
              /\ flights' = Disconnected([f \in FlightIds |->
                                IF f \in ending THEN [flights[f] EXCEPT !.phase = "over"]
                                                ELSE flights[f]])
              /\ entry' = NoEntry
              /\ callers' = Tell(ending, "failed")
    /\ UNCHANGED <<stored, issued, deleted>>

-----------------------------------------------------------------------------
(* acquire.                                                                  *)

Reusable == entry.kind = "ready"

Reuse(c) ==
    /\ callers[c].phase = "idle"
    /\ ~deleted
    /\ Reusable
    /\ callers' = [callers EXCEPT ![c] = [phase |-> "holding", flight |-> entry.flight]]
    /\ UNCHANGED <<entry, flights, logins, stored, issued, deleted>>

PoolJoinable == entry.kind = "connecting"

JoinFlight(c) ==
    /\ callers[c].phase = "idle"
    /\ ~deleted
    /\ PoolJoinable
    /\ callers' = [callers EXCEPT ![c] = [phase |-> "waiting", flight |-> entry.flight]]
    /\ UNCHANGED <<entry, flights, logins, stored, issued, deleted>>

\* A new flight; with no token stored it starts with a recovery, which drops
\* the flight's own placeholder from the entries.  A refresh of an account
\* without a maFile wants no recovery, and needs a stored token.
StartFlight(c, f, recover) ==
    /\ callers[c].phase = "idle"
    /\ ~deleted
    /\ ~Reusable /\ ~PoolJoinable
    /\ recover \/ ~guarded
    /\ flights[f].phase = "unused"
    /\ \A g \in FlightIds : g < f => flights[g].phase # "unused"
    /\ LET cs == [callers EXCEPT ![c] = [phase |-> "waiting", flight |-> f]]
           flight(phase) == [flights EXCEPT ![f] = [phase |-> phase, token |-> stored,
                                             recover |-> recover, retried |-> FALSE]]
           placeholder == [kind |-> "connecting", flight |-> f]
       IN  \/ /\ stored # 0
              /\ entry' = placeholder
              /\ flights' = flight("connecting")
              /\ callers' = cs
              /\ UNCHANGED <<logins, stored>>
           \/ /\ stored = 0 /\ recover /\ JoinsRecovery
              /\ entry' = placeholder
              /\ flights' = flight("recovering")
              /\ callers' = cs
              /\ UNCHANGED <<logins, stored>>
           \/ /\ stored = 0 /\ recover /\ ~JoinsRecovery
              /\ entry' = NoEntry
              /\ \/ /\ guarded
                    /\ flights' = flight("recovering")
                    /\ callers' = cs
                    /\ logins' = logins + 1
                 \/ /\ flights' = flight("over")
                    /\ callers' = [cs EXCEPT ![c].phase = "failed"]
                    /\ UNCHANGED logins
              /\ UNCHANGED stored
    /\ UNCHANGED <<issued, deleted>>

\* The connect is done: the entry is set, whatever it holds by now.
ConnectOk(f) ==
    /\ flights[f].phase = "connecting"
    /\ flights' = [flights EXCEPT ![f].phase = "open"]
    /\ entry' = [kind |-> "ready", flight |-> f]
    /\ callers' = Tell({f}, "holding")
    /\ UNCHANGED <<logins, stored, issued, deleted>>

\* Network error, timeout, or a license that is not there: no recovery.
ConnectFails(f) ==
    /\ flights[f].phase = "connecting"
    /\ Fail(f)
    /\ UNCHANGED <<stored, issued, deleted>>

\* Mutant of Replaced: the stored token is not read again.
NeverReplaced(f) == FALSE

Replaced(f) == stored # 0 /\ stored # flights[f].token

\* Steam rejects the token: once, the flight connects again with the token that
\* has replaced it, or else with a recovered one.  Without recovery the refresh
\* that started the flight clears the stored token, whichever that is by now.
TokenRejected(f) ==
    /\ flights[f].phase = "connecting"
    /\ \/ /\ ~flights[f].recover
          /\ Fail(f)
          /\ stored' = 0
       \/ /\ flights[f].retried
          /\ Fail(f)
          /\ UNCHANGED stored
       \/ /\ ~flights[f].retried /\ flights[f].recover
          /\ Replaced(f)
          /\ flights' = [flights EXCEPT ![f].token = stored, ![f].retried = TRUE]
          /\ UNCHANGED <<entry, callers, logins, stored>>
       \/ /\ ~flights[f].retried /\ flights[f].recover
          /\ ~Replaced(f)
          /\ Recover(f)
    /\ UNCHANGED <<issued, deleted>>

\* The work with the session is over (touch), or the error was reported.
Release(c) ==
    /\ callers[c].phase \in {"holding", "failed"}
    /\ callers' = [callers EXCEPT ![c] = [phase |-> "idle", flight |-> 0]]
    /\ UNCHANGED <<entry, flights, logins, stored, issued, deleted>>

-----------------------------------------------------------------------------
(* What ends a session.                                                      *)

DisconnectEntry(fl) ==
    /\ flights' = Disconnected(fl)
    /\ entry' = NoEntry

\* invalidate: the disconnect routes, a failed refresh, switching accounts.
Invalidate ==
    /\ entry # NoEntry
    /\ DisconnectEntry(flights)
    /\ UNCHANGED <<callers, logins, stored, issued, deleted>>

\* Mutant of OnSteamGone: the pool does not listen to the session.
NotHeard(f) ==
    /\ flights[f].phase \in {"open", "leaving"}
    /\ flights' = [flights EXCEPT ![f].phase = "over"]
    /\ UNCHANGED <<entry, callers, logins, stored, issued, deleted>>

\* "disconnected" or "error" of a session that was connected, also of one that
\* was logged off before: the entry of the account is dropped.
OnSteamGone(f) ==
    /\ flights[f].phase \in {"open", "leaving"}
    /\ LET fl == [flights EXCEPT ![f].phase = "over"]
       IN  /\ flights' = IF entry.kind = "ready" /\ entry.flight # f
                         THEN [fl EXCEPT ![entry.flight].phase = "leaving"] ELSE fl
           /\ entry' = NoEntry
    /\ UNCHANGED <<callers, logins, stored, issued, deleted>>

\* cs2Session: Steam renews the token of a session that is connecting or open.
RenewToken(f) ==
    /\ flights[f].phase \in {"connecting", "open"}
    /\ issued < MaxTokens
    /\ issued' = issued + 1
    /\ stored' = issued'
    /\ UNCHANGED <<entry, flights, callers, logins, deleted>>

\* invalidateStaleAuthentication.
Forget ==
    /\ DisconnectEntry(flights)
    /\ stored' = 0

\* POST /api/accounts/delete.
PoolDeleteAccount ==
    /\ ~deleted
    /\ deleted' = TRUE
    /\ Forget
    /\ UNCHANGED <<callers, logins, issued>>

\* A web operation that Steam rejects calls recoverToken without a look at the
\* token store (runAccountWebOperation, the reconnect route).
WebRecover ==
    /\ ~deleted
    /\ ~JoinsRecovery
    /\ Forget
    /\ (guarded /\ logins' = logins + 1) \/ UNCHANGED logins
    /\ UNCHANGED <<callers, issued, deleted>>

\* The login routes: the user signs in with a password and the token is stored;
\* or Steam refuses with code 15 and invalidateAuthentication is called.  (A sign-in
\* that creates a deleted account again is out of scope: deleted is final.)
SignIn ==
    /\ ~deleted
    /\ \/ /\ issued < MaxTokens
          /\ issued' = issued + 1
          /\ stored' = issued'
          /\ UNCHANGED <<entry, flights>>
       \/ Forget /\ UNCHANGED issued
    /\ UNCHANGED <<callers, logins, deleted>>

Connect(f) == ConnectOk(f) \/ ConnectFails(f) \/ TokenRejected(f)

Acquire(c) ==
    \/ Reuse(c)
    \/ JoinFlight(c)
    \/ \E f \in FlightIds, recover \in BOOLEAN : StartFlight(c, f, recover)

PoolNext ==
    /\ \/ \E c \in Callers : Acquire(c) \/ Release(c)
       \/ \E f \in FlightIds : Connect(f) \/ OnSteamGone(f) \/ RenewToken(f)
       \/ LoginOk
       \/ LoginFails
       \/ Invalidate
       \/ PoolDeleteAccount
       \/ WebRecover
       \/ SignIn
    /\ UNCHANGED guarded

\* connect() and the credential login have timeouts.
PoolFairness ==
    /\ \A f \in FlightIds : WF_poolVars(Connect(f) /\ UNCHANGED guarded)
    /\ WF_poolVars((LoginOk \/ LoginFails) /\ UNCHANGED guarded)

PoolSpec == PoolInit /\ [][PoolNext]_poolVars /\ PoolFairness

-----------------------------------------------------------------------------
PoolTypeOK ==
    /\ entry \in [kind : {"none", "connecting", "ready"}, flight : 0 .. MaxFlights]
    /\ flights \in [FlightIds -> [phase : Phases, token : 0 .. MaxTokens,
                                  recover : BOOLEAN, retried : BOOLEAN]]
    /\ callers \in [Callers -> [phase : {"idle", "waiting", "holding", "failed"},
                                flight : 0 .. MaxFlights]]
    /\ logins \in Nat
    /\ stored \in 0 .. MaxTokens
    /\ issued \in 1 .. MaxTokens
    /\ guarded \in BOOLEAN
    /\ deleted \in BOOLEAN

\* The pool never hands out a session that is gone, nor a promise that is
\* settled: a ready entry has an open session, a connecting one a flight.
EntryLive ==
    /\ entry.kind = "ready" => flights[entry.flight].phase = "open"
    /\ entry.kind = "connecting" => flights[entry.flight].phase \in Flying

\* docs/project-cognition-map.md:113: one recovery login per account at a time,
\* however many flights were rejected; each recovering flight has its login.
LoginSingleFlight ==
    /\ logins <= 1
    /\ (\E f \in FlightIds : flights[f].phase = "recovering") => logins = 1

\* Whoever waits for a connect waits for one that goes on, however often flights
\* fail, recover together or lose their entry: nobody is left with a promise that
\* has been settled for others or will not be (acquire, withTokenRecovery).
WaitersServed ==
    \A c \in Callers : callers[c].phase = "waiting" =>
        callers[c].flight \in FlightIds /\ flights[callers[c].flight].phase \in Flying

\* A rejected flight of an account with a maFile takes no newer token with it: the
\* token it has removed is the one Steam rejected, not one that a renewal, a login
\* or another flight has stored meanwhile (withTokenRecovery, performRecovery).
OnlyRejectedTokenRemoved ==
    [][\A f \in FlightIds :
          /\ guarded
          /\ flights[f].phase = "connecting" /\ flights'[f].phase # "connecting"
          /\ stored # 0 /\ stored' = 0
          => stored = flights[f].token]_poolVars

\* Every acquire is answered.
AcquireAnswered ==
    \A c \in Callers : callers[c].phase = "waiting" ~> callers[c].phase # "waiting"

\* uiServer.js says of deleting an account that its refresh token is cleared so
\* that nothing is left behind.
DeletedTokenStaysGone == deleted => stored = 0
=============================================================================
