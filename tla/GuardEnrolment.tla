---------------------------- MODULE GuardEnrolment ----------------------------
(***************************************************************************)
(* Binding a Steam Guard authenticator that the Steam App shares: the      *)
(* service of the HTTP routes (steamGuardCoexistService.js), the adapter   *)
(* that forks a process per flow and talks to it over IPC                  *)
(* (steamGuardCoexistProcessAdapter.js), and the process, which signs in,  *)
(* asks Steam for an authenticator and compares a code                     *)
(* (steamGuardCoexistWorker.js, steamGuardCoexistWorkerCore.js).  Each     *)
(* layer has its own idea of how far a flow is.  Codes, tokens and secrets *)
(* are left out: a code is the authenticator it was read from.  All flows  *)
(* are for one Steam account.  What Steam does is external.                *)
(***************************************************************************)
EXTENDS Integers

CONSTANT MaxFlows   \* bound: flows in a behaviour

ASSUME GuardEnrolmentAssumption == MaxFlows \in Nat \ {0}

VARIABLES
    flow,       \* the service's flows: [state, mode, code]
    cooldown,   \* alreadyHasAuthenticatorCooldowns has the account
    entry,      \* the adapter's flows: [open, request]
    worker,     \* the processes: [alive, state, asked]
    inbox,      \* flow -> the command on its way to the process
    outbox,     \* flow -> the result on its way to the adapter
    steam,      \* [bound, latest]: authenticator in use, authenticator last added
    account,    \* [exists, guard]: the account and its maFile, in the database
    cancelled,  \* history: flows the user has cancelled
    told        \* history: flows that were answered "verified"

vars == <<flow, cooldown, entry, worker, inbox, outbox, steam, account, cancelled, told>>

-----------------------------------------------------------------------------
\* A flow, and the authenticator Steam adds for it.
FlowIds == 1 .. MaxFlows

None == 0

\* An authenticator that was bound by other means.
Foreign == MaxFlows + 1

\* States in which the service waits for the user, and those in which it awaits the adapter.
Waiting == {"email_code_required", "steam_app_binding_required"}

Busy == {"starting", "submitting_email_code", "verifying_app_code"}

\* Results that come with a diagnostic, which is written before they are passed on.
Diagnosed == {"login_failed", "invalid_email_code"}

\* isRetryableVerification, isRetryableEmailCode and isTerminal: the flow goes on.
Retryable == {"invalid_email_code", "app_code_mismatch", "time_sync_failed"}

\* "failed" stands for each further reason that ends a flow.
Results == Waiting \cup Diagnosed \cup Retryable \cup
           {"verified", "already_has_authenticator", "failed", "invalid_flow_state"}

Init ==
    /\ flow = [f \in FlowIds |-> [state |-> "unused", mode |-> "new", code |-> None]]
    /\ cooldown = FALSE
    /\ entry = [f \in FlowIds |-> [open |-> FALSE, request |-> "none"]]
    /\ worker = [f \in FlowIds |-> [alive |-> FALSE, state |-> "idle", asked |-> "no"]]
    /\ inbox = [f \in FlowIds |-> "none"]
    /\ outbox = [f \in FlowIds |-> "none"]
    /\ steam \in [bound : {None, Foreign}, latest : {None}]
    /\ account \in [exists : BOOLEAN, guard : {None}]
    /\ cancelled = {}
    /\ told = {}

-----------------------------------------------------------------------------
(* The adapter: its entry of a flow is closed once, with or without a kill.  *)

\* Mutant of Closed: the requests are forgotten, their callers not told.
ClosedQuietly(e) == [e EXCEPT !.open = FALSE]

\* _closeEntry rejects what is pending; a result whose diagnostic is being written
\* is no longer pending.
Closed(e) == [open |-> FALSE,
              request |-> IF e.request = "pending" THEN "none" ELSE e.request]

\* What is sent to or by a process whose entry is closed is not heard.
CloseEntry(f, e) ==
    /\ entry' = [entry EXCEPT ![f] = Closed(e)]
    /\ worker' = [worker EXCEPT ![f].alive = FALSE]
    /\ inbox' = [inbox EXCEPT ![f] = "none"]
    /\ outbox' = [outbox EXCEPT ![f] = "none"]

\* _destroyFlow: the flow is deleted, and the adapter closes its entry if there is one.
Destroy(f, e) ==
    /\ flow' = [flow EXCEPT ![f].state = "gone"]
    /\ CloseEntry(f, e)

\* _request: the answer is awaited and a timer runs.
Request(f, command) ==
    /\ entry' = [entry EXCEPT ![f].request = "pending"]
    /\ inbox' = [inbox EXCEPT ![f] = command]

-----------------------------------------------------------------------------
(* The requests of the user.                                                 *)

\* The start route checks the account, start the cooldown; a flow does not exclude
\* another one of the same account.  The fork may fail.
Start(f, mode) ==
    /\ flow[f].state = "unused"
    /\ \A g \in 1 .. f - 1 : flow[g].state # "unused"
    /\ mode = IF account.exists THEN "existing" ELSE "new"
    /\ ~cooldown
    /\ \/ /\ flow' = [flow EXCEPT ![f].state = "starting", ![f].mode = mode]
          /\ entry' = [entry EXCEPT ![f] = [open |-> TRUE, request |-> "pending"]]
          /\ worker' = [worker EXCEPT ![f].alive = TRUE]
          /\ inbox' = [inbox EXCEPT ![f] = "start"]
       \/ flow' = [flow EXCEPT ![f].state = "gone"] /\ UNCHANGED <<entry, worker, inbox>>
    /\ UNCHANGED <<cooldown, outbox, steam, account, cancelled, told>>

\* submitEmailCode and verifyAppCode, with a code of the right form.  The service does
\* not hear of a process that ends while the flow waits: the adapter finds its entry
\* closed, or the channel, and the flow is destroyed.
Submit(f, from, busy, command, code) ==
    /\ flow[f].state = from
    /\ \/ /\ entry[f].open
          /\ Request(f, command)
          /\ flow' = [flow EXCEPT ![f].state = busy, ![f].code = code]
          /\ UNCHANGED <<worker, outbox>>
       \/ /\ ~worker[f].alive
          /\ Destroy(f, entry[f])
    /\ UNCHANGED <<cooldown, steam, account, cancelled, told>>

SubmitEmailCode(f) ==
    Submit(f, "email_code_required", "submitting_email_code", "email", None)

\* The code is wrong, or that of the authenticator that is bound at this moment.
VerifyAppCode(f) ==
    \E code \in {None, steam.bound} :
        Submit(f, "steam_app_binding_required", "verifying_app_code", "verify", code)

\* cancel, also while a request is awaited.
Cancel(f) ==
    /\ flow[f].state \in Waiting \cup Busy
    /\ Destroy(f, entry[f])
    /\ cancelled' = cancelled \cup {f}
    /\ UNCHANGED <<cooldown, steam, account, told>>

-----------------------------------------------------------------------------
(* What the adapter hears.                                                   *)

\* Mutant of MaySave: that the account is still there is taken for granted.
SavedAnyway(mode) == mode = "existing" \/ ~account.exists

\* completeBinding throws when the account to update is gone, or the one to create exists.
MaySave(mode) == account.exists = (mode = "existing")

\* completeBinding saves the maFile, and success is answered; for a new account the
\* selection in the UI state may still fail to be saved.
Save(f) ==
    /\ MaySave(flow[f].mode)
    /\ account' = [exists |-> account.exists \/ flow[f].mode = "new", guard |-> f]
    /\ \/ told' = told \cup {f}
       \/ flow[f].mode = "new" /\ UNCHANGED told

\* The state to which a request that may be repeated returns.
Back(f, r) == IF flow[f].state = "submitting_email_code" THEN "email_code_required"
                                                          ELSE "steam_app_binding_required"

\* The service after its await.  A flow that was destroyed meanwhile is not looked at;
\* what cannot be saved is a failure.
Settle(f, r) ==
    LET e == [entry[f] EXCEPT !.request = "none"]
    IN  \/ /\ flow[f].state \notin Busy
           /\ entry' = [entry EXCEPT ![f] = e]
           /\ outbox' = [outbox EXCEPT ![f] = "none"]
           /\ UNCHANGED <<flow, cooldown, worker, inbox, account, told>>
        \/ /\ flow[f].state \in Busy
           /\ r \in Waiting \cup Retryable
           /\ flow' = [flow EXCEPT ![f].state = IF r \in Waiting THEN r ELSE Back(f, r),
                                   ![f].code = None]
           /\ entry' = [entry EXCEPT ![f] = e]
           /\ outbox' = [outbox EXCEPT ![f] = "none"]
           /\ UNCHANGED <<cooldown, worker, inbox, account, told>>
        \/ /\ flow[f].state \in Busy
           /\ r \notin Waiting \cup Retryable
           /\ Destroy(f, e)
           /\ cooldown' = (cooldown \/ r = "already_has_authenticator")
           /\ \/ r = "verified" /\ Save(f)
              \/ UNCHANGED <<account, told>>

\* The message handler: the timer is cleared; a result with a diagnostic has to wait
\* for the log, during which the request can neither time out nor be rejected.
OnMessage(f) ==
    /\ outbox[f] # "none"
    /\ IF outbox[f] \in Diagnosed
       THEN /\ entry' = [entry EXCEPT ![f].request = outbox[f]]
            /\ outbox' = [outbox EXCEPT ![f] = "none"]
            /\ UNCHANGED <<flow, cooldown, worker, inbox, account, told>>
       ELSE Settle(f, outbox[f])
    /\ UNCHANGED <<steam, cancelled>>

\* _persistDiagnostic is done, well or badly.
DiagnosticWritten(f) ==
    /\ entry[f].request \in Diagnosed
    /\ Settle(f, entry[f].request)
    /\ UNCHANGED <<steam, cancelled>>

\* requestTimeoutMs have passed: the request is rejected, the process killed.
TimeOut(f) ==
    /\ entry[f].open
    /\ entry[f].request = "pending"
    /\ Destroy(f, entry[f])
    /\ UNCHANGED <<cooldown, steam, account, cancelled, told>>

\* The exit event, which may overtake the last message: a request is rejected, but a
\* flow that waits for the user stays as it is.
OnExit(f) ==
    /\ entry[f].open
    /\ ~worker[f].alive
    /\ IF entry[f].request = "pending" THEN Destroy(f, entry[f])
                                       ELSE CloseEntry(f, entry[f]) /\ UNCHANGED flow
    /\ UNCHANGED <<cooldown, steam, account, cancelled, told>>

-----------------------------------------------------------------------------
(* The process.                                                              *)

\* Mutant of Resumed: a failed time query leaves the flow in verification.
ResumedIfCompared(r) == CASE r \in Waiting -> r
                          [] r = "invalid_email_code" -> "email_code_required"
                          [] r = "app_code_mismatch" -> "steam_app_binding_required"
                          [] r = "time_sync_failed" -> "verifying_app_code"
                          [] OTHER -> "idle"

\* The state of the flow once it has a result: the core destroys it unless it goes on.
Resumed(r) == CASE r \in Waiting -> r
                [] r = "invalid_email_code" -> "email_code_required"
                [] r \in Retryable \ {"invalid_email_code"} -> "steam_app_binding_required"
                [] OTHER -> "idle"

\* The process exits after the reply to a request that ends the flow.
Reply(f, r) ==
    /\ outbox' = [outbox EXCEPT ![f] = r]
    /\ worker' = [worker EXCEPT ![f].state = Resumed(r),
                                ![f].alive = r \in Waiting \cup Retryable]

\* The state in which the core takes a command, and the one it then enters.
Expects == [start |-> "idle", email |-> "email_code_required",
            verify |-> "steam_app_binding_required"]

Enters == [start |-> "logging_in", email |-> "submitting_email_code",
           verify |-> "verifying_app_code"]

\* Commands are taken one at a time.
TakeCommand(f) ==
    /\ worker[f].alive
    /\ inbox[f] # "none"
    /\ inbox' = [inbox EXCEPT ![f] = "none"]
    /\ IF worker[f].state = Expects[inbox[f]]
       THEN worker' = [worker EXCEPT ![f].state = Enters[inbox[f]]] /\ UNCHANGED outbox
       ELSE Reply(f, "invalid_flow_state")
    /\ UNCHANGED <<flow, cooldown, entry, steam, account, cancelled, told>>

\* What the sign-in may come to: an account with an authenticator needs its code.
LoginResults(state) ==
    CASE state = "logging_in" /\ steam.bound = None -> {"email_code_required", "login_failed", "failed"}
      [] state = "logging_in" /\ steam.bound # None -> {"already_has_authenticator", "login_failed"}
      [] state = "submitting_email_code" -> {"invalid_email_code", "login_failed", "failed"}
      [] OTHER -> {}

LoginEnds(f) ==
    /\ worker[f].alive
    /\ \E r \in LoginResults(worker[f].state) : Reply(f, r)
    /\ UNCHANGED <<flow, cooldown, entry, inbox, steam, account, cancelled, told>>

\* _continueFromLogin when authenticated: AddAuthenticator is on its way.
AskAuthenticator(f) ==
    /\ worker[f].alive
    /\ worker[f].state \in {"logging_in", "submitting_email_code"}
    /\ worker[f].state = "logging_in" => steam.bound = None
    /\ worker' = [worker EXCEPT ![f].state = "adding", ![f].asked = "sent"]
    /\ UNCHANGED <<flow, cooldown, entry, inbox, outbox, steam, account, cancelled, told>>

\* The answer of AddAuthenticator; it may be lost, and late.
AddAnswered(f) ==
    /\ worker[f].alive
    /\ worker[f].state = "adding"
    /\ \/ worker[f].asked = "accepted" /\ Reply(f, "steam_app_binding_required")
       \/ worker[f].asked = "refused" /\ Reply(f, "already_has_authenticator")
       \/ Reply(f, "failed")
    /\ UNCHANGED <<flow, cooldown, entry, inbox, steam, account, cancelled, told>>

\* verifyAppCode: the code sent with the command is compared with the one of the
\* authenticator of this flow.
CompareCode(f) ==
    /\ worker[f].alive
    /\ worker[f].state = "verifying_app_code"
    /\ \/ Reply(f, "time_sync_failed")
       \/ Reply(f, "failed")
       \/ flow[f].code = f /\ Reply(f, "verified")
       \/ flow[f].code # f /\ Reply(f, "app_code_mismatch")
    /\ UNCHANGED <<flow, cooldown, entry, inbox, steam, account, cancelled, told>>

\* The process ends by itself; what it has sent may still arrive.
Crash(f) ==
    /\ worker[f].alive
    /\ worker' = [worker EXCEPT ![f].alive = FALSE]
    /\ UNCHANGED <<flow, cooldown, entry, inbox, outbox, steam, account, cancelled, told>>

-----------------------------------------------------------------------------
(* Steam, the user and the time.                                             *)

\* Steam handles AddAuthenticator, also after the process has ended.
SteamAdds(f) ==
    /\ worker[f].asked = "sent"
    /\ IF steam.bound = None
       THEN /\ worker' = [worker EXCEPT ![f].asked = "accepted"]
            /\ steam' = [steam EXCEPT !.latest = f]
       ELSE worker' = [worker EXCEPT ![f].asked = "refused"] /\ UNCHANGED steam
    /\ UNCHANGED <<flow, cooldown, entry, inbox, outbox, account, cancelled, told>>

\* The user binds the authenticator last added in the Steam App, or removes the bound one.
UserBinds ==
    /\ \/ steam.bound = None /\ steam.latest # None /\ steam' = [steam EXCEPT !.bound = steam.latest]
       \/ steam.bound # None /\ steam' = [bound |-> None, latest |-> None]
    /\ UNCHANGED <<flow, cooldown, entry, worker, inbox, outbox, account, cancelled, told>>

\* Other routes: a sign-in saves the account, a maFile is imported for an account that
\* has none, the account is deleted, or its maFile is.
SaveAccount ==
    /\ ~account.exists
    /\ account' = [exists |-> TRUE, guard |-> None]

ImportGuard ==
    /\ account.guard = None
    /\ account' = [exists |-> TRUE, guard |-> Foreign]

DeleteAccount ==
    /\ account.exists
    /\ account' = [exists |-> FALSE, guard |-> None]

ClearGuard ==
    /\ account.guard # None
    /\ account' = [account EXCEPT !.guard = None]

AccountChanges ==
    /\ SaveAccount \/ ImportGuard \/ DeleteAccount \/ ClearGuard
    /\ UNCHANGED <<flow, cooldown, entry, worker, inbox, outbox, steam, cancelled, told>>

CooldownEnds ==
    /\ cooldown
    /\ cooldown' = FALSE
    /\ UNCHANGED <<flow, entry, worker, inbox, outbox, steam, account, cancelled, told>>

\* The server ends, and with it every flow and process, and is started again.
Restart ==
    /\ flow' = [f \in FlowIds |-> IF flow[f].state = "unused" THEN flow[f]
                                  ELSE [flow[f] EXCEPT !.state = "gone"]]
    /\ cooldown' = FALSE
    /\ entry' = [f \in FlowIds |-> [open |-> FALSE, request |-> "none"]]
    /\ worker' = [f \in FlowIds |-> [worker[f] EXCEPT !.alive = FALSE]]
    /\ inbox' = [f \in FlowIds |-> "none"]
    /\ outbox' = [f \in FlowIds |-> "none"]
    /\ UNCHANGED <<steam, account, cancelled, told>>

Next ==
    \/ \E f \in FlowIds :
        \/ \E mode \in {"existing", "new"} : Start(f, mode)
        \/ SubmitEmailCode(f)
        \/ VerifyAppCode(f)
        \/ Cancel(f)
        \/ OnMessage(f)
        \/ DiagnosticWritten(f)
        \/ TimeOut(f)
        \/ OnExit(f)
        \/ TakeCommand(f)
        \/ LoginEnds(f)
        \/ AskAuthenticator(f)
        \/ AddAnswered(f)
        \/ CompareCode(f)
        \/ Crash(f)
        \/ SteamAdds(f)
    \/ UserBinds
    \/ AccountChanges
    \/ CooldownEnds
    \/ Restart

\* The timer of a request runs until it is cleared, and a write to the log ends; nothing
\* is assumed of the process, of Steam or of the user.
Fairness == \A f \in FlowIds : WF_vars(TimeOut(f)) /\ WF_vars(DiagnosticWritten(f))

Spec == Init /\ [][Next]_vars /\ Fairness

-----------------------------------------------------------------------------
(* Properties.                                                               *)

\* Every variable has its type.
TypeOK ==
    /\ flow \in [FlowIds -> [state : {"unused", "gone"} \cup Waiting \cup Busy,
                             mode : {"existing", "new"}, code : 0 .. Foreign]]
    /\ cooldown \in BOOLEAN
    /\ entry \in [FlowIds -> [open : BOOLEAN, request : {"none", "pending"} \cup Diagnosed]]
    /\ worker \in [FlowIds -> [alive : BOOLEAN,
                               state : {"idle", "logging_in", "adding"} \cup Waiting \cup Busy,
                               asked : {"no", "sent", "accepted", "refused"}]]
    /\ inbox \in [FlowIds -> {"none"} \cup DOMAIN Expects]
    /\ outbox \in [FlowIds -> {"none"} \cup Results]
    /\ steam \in [bound : 0 .. Foreign, latest : 0 .. MaxFlows]
    /\ account \in [exists : BOOLEAN, guard : 0 .. Foreign]
    /\ cancelled \subseteq FlowIds
    /\ told \subseteq FlowIds

\* The three layers agree on a flow whatever ends it and wherever: no process and no
\* entry is left to a flow that is gone, a request is awaited only by a flow that is
\* busy, a flow that waits for the user has a process in the same state or none, and
\* no command comes in a state in which the core refuses it.
LayersAgree ==
    \A f \in FlowIds :
        /\ worker[f].alive => entry[f].open
        /\ entry[f].open => flow[f].state \in Waiting \cup Busy
        /\ flow[f].state \in Busy => entry[f].request # "none"
        /\ entry[f].request = "pending" => entry[f].open /\ flow[f].state \in Busy
        /\ flow[f].state \in Waiting /\ worker[f].alive =>
               worker[f].state = flow[f].state /\ inbox[f] = "none" /\ outbox[f] = "none"
        /\ outbox[f] # "invalid_flow_state"

\* A maFile is saved for an account that exists, and only if Steam added its
\* authenticator for this flow, the code was read from it and the user has not cancelled
\* the flow.  "verified" is answered in the step that does so; it is left out only for a
\* new account, when its selection could not be saved.
SuccessIsSaved ==
    [][\A f \in FlowIds :
        /\ f \in told' \ told => account' = [exists |-> TRUE, guard |-> f]
        /\ account'.guard = f /\ account.guard # f =>
               /\ account'.exists
               /\ worker[f].asked = "accepted"
               /\ flow[f].code = f
               /\ f \notin cancelled
               /\ f \in told' \ told \/ flow[f].mode = "new"]_vars

\* A request is answered although the process may hang or end, whatever is sent or lost.
RequestsAnswered ==
    \A f \in FlowIds : entry[f].request # "none" ~> entry[f].request = "none"

=============================================================================
