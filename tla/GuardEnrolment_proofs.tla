------------------------- MODULE GuardEnrolment_proofs -------------------------
(***************************************************************************)
(* That service, adapter and process agree on each enrolment, and that     *)
(* success is answered when the maFile is saved, for every number of       *)
(* flows.                                                                  *)
(***************************************************************************)
EXTENDS GuardEnrolment, TLAPS

-----------------------------------------------------------------------------
(* The inductive invariant: what the three layers know of one flow.          *)

\* LayersAgree for one flow.
Agree(f) ==
    /\ worker[f].alive => entry[f].open
    /\ entry[f].open => flow[f].state \in Waiting \cup Busy
    /\ flow[f].state \in Busy => entry[f].request # "none"
    /\ entry[f].request = "pending" => entry[f].open /\ flow[f].state \in Busy
    /\ flow[f].state \in Waiting /\ worker[f].alive =>
           worker[f].state = flow[f].state /\ inbox[f] = "none" /\ outbox[f] = "none"
    /\ outbox[f] # "invalid_flow_state"

\* A request is one of a flow that is busy or gone, and a flow that is not used has none.
RequestOf(f) ==
    /\ entry[f].request # "none" => flow[f].state \in Busy \cup {"gone"}
    /\ flow[f].state = "unused" => worker[f].state = "idle"

\* A command on its way is that of the request, and the process waits for it.
CommandOf(f) ==
    /\ inbox[f] # "none" => entry[f].request = "pending" /\ outbox[f] = "none"
    /\ inbox[f] = "start" => flow[f].state = "starting" /\ worker[f].state = "idle"
    /\ inbox[f] = "email" =>
           /\ flow[f].state = "submitting_email_code"
           /\ worker[f].alive => worker[f].state = "email_code_required"
    /\ inbox[f] = "verify" =>
           /\ flow[f].state = "verifying_app_code"
           /\ worker[f].alive => worker[f].state = "steam_app_binding_required"

\* A process that has taken the command does what the request asks for.
WorkOf(f) ==
    worker[f].alive /\ entry[f].request = "pending" /\ inbox[f] = "none" /\ outbox[f] = "none" =>
        \/ flow[f].state = "starting" /\ worker[f].state \in {"logging_in", "adding"}
        \/ flow[f].state = "submitting_email_code"
           /\ worker[f].state \in {"submitting_email_code", "adding"}
        \/ flow[f].state = "verifying_app_code" /\ worker[f].state = "verifying_app_code"

\* A result on its way is one of the request; the process has entered the state that the
\* service is to enter, or ends.
ResultOf(f) ==
    /\ outbox[f] # "none" => entry[f].request = "pending"
    /\ outbox[f] \in Waiting \cup Retryable /\ worker[f].alive => worker[f].state = Resumed(outbox[f])
    /\ outbox[f] \notin Waiting \cup Retryable \cup {"none"} => ~worker[f].alive
    /\ outbox[f] = "email_code_required" => flow[f].state = "starting"
    /\ outbox[f] = "steam_app_binding_required" =>
           flow[f].state \in {"starting", "submitting_email_code"}
    /\ outbox[f] = "invalid_email_code" => flow[f].state = "submitting_email_code"
    /\ outbox[f] \in {"app_code_mismatch", "time_sync_failed", "verified"} =>
           flow[f].state = "verifying_app_code"

\* A result that waits for the log has left the process in the state to come, or ended it.
DiagnosticOf(f) ==
    /\ entry[f].request \in Diagnosed => inbox[f] = "none" /\ outbox[f] = "none"
    /\ entry[f].request = "invalid_email_code" =>
           /\ flow[f].state \in {"submitting_email_code", "gone"}
           /\ worker[f].alive => worker[f].state = "email_code_required"
    /\ entry[f].request = "login_failed" => ~worker[f].alive

\* The flows that were cancelled or answered.
Over == cancelled \cup told

\* Steam has added the authenticator whose code is asked for; the code found right was
\* read from it; a flow that was cancelled or answered is gone.
CodeOf(f) ==
    /\ worker[f].state \in {"steam_app_binding_required", "verifying_app_code"} =>
           worker[f].asked = "accepted"
    /\ outbox[f] = "verified" => flow[f].code = f /\ worker[f].asked = "accepted"
    /\ f \in Over => flow[f].state = "gone"

FlowInv(f) ==
    /\ Agree(f)
    /\ RequestOf(f)
    /\ CommandOf(f)
    /\ WorkOf(f)
    /\ ResultOf(f)
    /\ DiagnosticOf(f)
    /\ CodeOf(f)

IInv == TypeOK /\ \A f \in FlowIds : FlowInv(f)

-----------------------------------------------------------------------------
(* Types.                                                                    *)

FlowStates == {"unused", "gone"} \cup Waiting \cup Busy

FlowType == [state : FlowStates, mode : {"existing", "new"}, code : 0 .. Foreign]

EntryType == [open : BOOLEAN, request : {"none", "pending"} \cup Diagnosed]

WorkerStates == {"idle", "logging_in", "adding"} \cup Waiting \cup Busy

Askings == {"no", "sent", "accepted", "refused"}

WorkerType == [alive : BOOLEAN, state : WorkerStates, asked : Askings]

\* The variables of the three layers have their types.
LayersType ==
    /\ flow \in [FlowIds -> FlowType]
    /\ entry \in [FlowIds -> EntryType]
    /\ worker \in [FlowIds -> WorkerType]
    /\ inbox \in [FlowIds -> {"none", "start", "email", "verify"}]
    /\ outbox \in [FlowIds -> {"none"} \cup Results]

\* And so have the others.
RestType ==
    /\ cooldown \in BOOLEAN
    /\ steam \in [bound : 0 .. Foreign, latest : 0 .. MaxFlows]
    /\ account \in [exists : BOOLEAN, guard : 0 .. Foreign]
    /\ cancelled \subseteq FlowIds
    /\ told \subseteq FlowIds

LEMMA Types == TypeOK <=> LayersType /\ RestType
BY DEF TypeOK, LayersType, RestType, FlowType, FlowStates, EntryType, WorkerType, WorkerStates,
       Askings, Expects

\* The states that the steps set.
LEMMA StatesType ==
    /\ {"unused", "gone"} \subseteq FlowStates /\ Busy \subseteq FlowStates /\ Waiting \subseteq FlowStates
    /\ {"idle", "logging_in", "adding"} \subseteq WorkerStates
    /\ Busy \subseteq WorkerStates /\ Waiting \subseteq WorkerStates
    /\ {"no", "sent", "accepted", "refused"} \subseteq Askings
    /\ "starting" \in Busy
BY DEF FlowStates, WorkerStates, Askings, Busy

\* The steps that set two fields of a flow keep its type.
LEMMA FlowSetType ==
    ASSUME flow \in [FlowIds -> FlowType], NEW f \in FlowIds, NEW s \in FlowStates
    PROVE  /\ \A mode \in {"existing", "new"} :
                  [flow EXCEPT ![f].state = s, ![f].mode = mode] \in [FlowIds -> FlowType]
           /\ \A code \in 0 .. Foreign :
                  [flow EXCEPT ![f].state = s, ![f].code = code] \in [FlowIds -> FlowType]
<1>1. ASSUME NEW mode \in {"existing", "new"}
      PROVE  [flow EXCEPT ![f].state = s, ![f].mode = mode] \in [FlowIds -> FlowType]
  <2>1. [flow[f] EXCEPT !.state = s, !.mode = mode] \in FlowType
    BY DEF FlowType
  <2>2. [flow EXCEPT ![f].state = s, ![f].mode = mode]
            = [flow EXCEPT ![f] = [flow[f] EXCEPT !.state = s, !.mode = mode]]
    BY DEF FlowType
  <2> QED BY <2>1, <2>2
<1>2. ASSUME NEW code \in 0 .. Foreign
      PROVE  [flow EXCEPT ![f].state = s, ![f].code = code] \in [FlowIds -> FlowType]
  <2>1. [flow[f] EXCEPT !.state = s, !.code = code] \in FlowType
    BY DEF FlowType
  <2>2. [flow EXCEPT ![f].state = s, ![f].code = code]
            = [flow EXCEPT ![f] = [flow[f] EXCEPT !.state = s, !.code = code]]
    BY DEF FlowType
  <2> QED BY <2>1, <2>2
<1> QED BY <1>1, <1>2

LEMMA InitType == Init => TypeOK
<1> SUFFICES ASSUME Init PROVE LayersType /\ RestType
  BY Types
<1>1. MaxFlows \in Nat /\ 0 \in 0 .. Foreign /\ Foreign \in 0 .. Foreign /\ 0 \in 0 .. MaxFlows
  BY GuardEnrolmentAssumption DEF Foreign
<1>2. LayersType
  BY <1>1, StatesType DEF Init, LayersType, FlowType, EntryType, WorkerType, None
<1>3. RestType
  BY <1>1 DEF Init, RestType, None
<1> QED BY <1>2, <1>3

\* Closing an entry, and destroying a flow, keep the types.
LEMMA CloseType ==
    ASSUME LayersType, NEW f \in FlowIds, NEW e \in EntryType, CloseEntry(f, e)
    PROVE  /\ entry' \in [FlowIds -> EntryType]
           /\ worker' \in [FlowIds -> WorkerType]
           /\ inbox' \in [FlowIds -> {"none", "start", "email", "verify"}]
           /\ outbox' \in [FlowIds -> {"none"} \cup Results]
<1>1. Closed(e) \in EntryType
  BY DEF Closed, EntryType
<1>2. entry' \in [FlowIds -> EntryType]
  BY <1>1 DEF CloseEntry, LayersType
<1>3. worker' \in [FlowIds -> WorkerType]
  BY DEF CloseEntry, LayersType, WorkerType
<1> QED BY <1>2, <1>3 DEF CloseEntry, LayersType

LEMMA DestroyType ==
    ASSUME LayersType, NEW f \in FlowIds, NEW e \in EntryType, Destroy(f, e)
    PROVE  LayersType'
<1>1. flow' \in [FlowIds -> FlowType]
  BY StatesType DEF LayersType, Destroy, FlowType
<1> QED BY <1>1, CloseType DEF Destroy, LayersType

\* What the user's requests do.
LEMMA UserType ==
    ASSUME LayersType, RestType, NEW f \in FlowIds,
           \/ \E mode \in {"existing", "new"} : Start(f, mode)
           \/ SubmitEmailCode(f) \/ VerifyAppCode(f) \/ Cancel(f)
    PROVE  LayersType' /\ RestType'
<1>1. entry[f] \in EntryType
  BY DEF LayersType
<1>2. ASSUME NEW mode \in {"existing", "new"}, Start(f, mode)
      PROVE  LayersType' /\ RestType'
  <2>1. RestType'
    BY <1>2 DEF Start, RestType
  <2>2. CASE /\ flow' = [flow EXCEPT ![f].state = "starting", ![f].mode = mode]
             /\ entry' = [entry EXCEPT ![f] = [open |-> TRUE, request |-> "pending"]]
             /\ worker' = [worker EXCEPT ![f].alive = TRUE]
             /\ inbox' = [inbox EXCEPT ![f] = "start"]
    <3>1. flow' \in [FlowIds -> FlowType]
      BY <1>2, <2>2, StatesType, FlowSetType DEF LayersType
    <3>2. entry' \in [FlowIds -> EntryType]
      <4>1. [open |-> TRUE, request |-> "pending"] \in EntryType
        BY DEF EntryType
      <4> QED BY <2>2, <4>1 DEF LayersType
    <3>3. worker' \in [FlowIds -> WorkerType]
      BY <2>2 DEF LayersType, WorkerType
    <3> QED BY <1>2, <2>1, <2>2, <3>1, <3>2, <3>3 DEF Start, LayersType
  <2>3. CASE flow' = [flow EXCEPT ![f].state = "gone"] /\ UNCHANGED <<entry, worker, inbox>>
    BY <1>2, <2>1, <2>3, StatesType DEF Start, LayersType, FlowType
  <2> QED BY <1>2, <2>2, <2>3 DEF Start
<1>3. ASSUME NEW from, NEW busy \in Busy, NEW command \in {"start", "email", "verify"},
             NEW code \in 0 .. Foreign, Submit(f, from, busy, command, code)
      PROVE  LayersType' /\ RestType'
  <2>1. RestType'
    BY <1>3 DEF Submit, RestType
  <2>2. CASE Destroy(f, entry[f])
    BY <2>1, <2>2, <1>1, DestroyType
  <2>3. CASE /\ Request(f, command)
             /\ flow' = [flow EXCEPT ![f].state = busy, ![f].code = code]
             /\ UNCHANGED <<worker, outbox>>
    <3>1. flow' \in [FlowIds -> FlowType]
      BY <1>3, <2>3, StatesType, FlowSetType DEF LayersType
    <3>2. entry' \in [FlowIds -> EntryType]
      BY <2>3 DEF Request, LayersType, EntryType
    <3> QED BY <1>3, <2>1, <2>3, <3>1, <3>2 DEF Request, LayersType
  <2> QED BY <1>3, <2>2, <2>3 DEF Submit
<1>4. CASE SubmitEmailCode(f)
  <2>1. None \in 0 .. Foreign
    BY GuardEnrolmentAssumption DEF None, Foreign
  <2> QED BY <1>3, <1>4, <2>1 DEF SubmitEmailCode, Busy
<1>5. CASE VerifyAppCode(f)
  <2>1. None \in 0 .. Foreign /\ steam.bound \in 0 .. Foreign
    BY GuardEnrolmentAssumption DEF None, Foreign, RestType
  <2> QED BY <1>3, <1>5, <2>1 DEF VerifyAppCode, Busy
<1>6. CASE Cancel(f)
  BY <1>1, <1>6, DestroyType DEF Cancel, RestType
<1> QED BY <1>2, <1>4, <1>5, <1>6

\* What the adapter hears.
LEMMA SettleType ==
    ASSUME LayersType, RestType, NEW f \in FlowIds, NEW r \in Results, Settle(f, r),
           UNCHANGED <<steam, cancelled>>
    PROVE  LayersType' /\ RestType'
<1> DEFINE e == [entry[f] EXCEPT !.request = "none"]
<1>1. e \in EntryType
  BY DEF LayersType, EntryType
<1>2. Foreign \in Nat /\ f \in 0 .. Foreign /\ None \in 0 .. Foreign
  BY GuardEnrolmentAssumption DEF Foreign, FlowIds, None
<1>3. CASE UNCHANGED <<flow, cooldown, worker, inbox, account, told>> /\ entry' = [entry EXCEPT ![f] = e]
           /\ outbox' = [outbox EXCEPT ![f] = "none"]
  BY <1>1, <1>3 DEF LayersType, RestType
<1>4. CASE /\ r \in Waiting \cup Retryable
           /\ flow' = [flow EXCEPT ![f].state = IF r \in Waiting THEN r ELSE Back(f, r),
                                   ![f].code = None]
           /\ entry' = [entry EXCEPT ![f] = e]
           /\ outbox' = [outbox EXCEPT ![f] = "none"]
           /\ UNCHANGED <<cooldown, worker, inbox, account, told>>
  <2> DEFINE s == IF r \in Waiting THEN r ELSE Back(f, r)
  <2>1. s \in Waiting
    BY DEF Back, Waiting
  <2> HIDE DEF s
  <2>2. flow' = [flow EXCEPT ![f].state = s, ![f].code = None]
    BY <1>4 DEF s
  <2>3. flow' \in [FlowIds -> FlowType]
    BY <1>2, <2>1, <2>2, StatesType, FlowSetType DEF LayersType
  <2> QED BY <1>1, <1>4, <2>3 DEF LayersType, RestType
<1>5. CASE /\ Destroy(f, e)
           /\ cooldown' = (cooldown \/ r = "already_has_authenticator")
           /\ \/ r = "verified" /\ Save(f)
              \/ UNCHANGED <<account, told>>
  <2>1. LayersType'
    BY <1>1, <1>5, DestroyType
  <2>2. account' \in [exists : BOOLEAN, guard : 0 .. Foreign] /\ told' \subseteq FlowIds
    <3>1. CASE Save(f)
      <4> DEFINE ex == account.exists \/ flow[f].mode = "new"
      <4>1. ex \in BOOLEAN
        OBVIOUS
      <4>2. account' = [exists |-> ex, guard |-> f] /\ told' \subseteq told \cup {f}
        BY <3>1 DEF Save
      <4> HIDE DEF ex
      <4> QED BY <1>2, <4>1, <4>2 DEF RestType
    <3> QED BY <1>5, <3>1 DEF RestType
  <2>3. cooldown' \in BOOLEAN
    BY <1>5 DEF RestType
  <2> QED BY <2>1, <2>2, <2>3 DEF RestType
<1> QED BY <1>3, <1>4, <1>5 DEF Settle

LEMMA HeardType ==
    ASSUME LayersType, RestType, NEW f \in FlowIds,
           OnMessage(f) \/ DiagnosticWritten(f) \/ TimeOut(f) \/ OnExit(f)
    PROVE  LayersType' /\ RestType'
<1>1. entry[f] \in EntryType /\ outbox[f] \in {"none"} \cup Results
  BY DEF LayersType
<1>2. CASE OnMessage(f)
  <2>1. CASE outbox[f] \in Diagnosed
    <3>1. entry' = [entry EXCEPT ![f].request = outbox[f]] /\ outbox' = [outbox EXCEPT ![f] = "none"]
      BY <1>2, <2>1 DEF OnMessage
    <3>2. entry' \in [FlowIds -> EntryType]
      BY <2>1, <3>1 DEF LayersType, EntryType
    <3>3. UNCHANGED <<flow, worker, inbox, cooldown, steam, account, cancelled, told>>
      BY <1>2, <2>1 DEF OnMessage
    <3>4. LayersType'
      BY <3>1, <3>2, <3>3 DEF LayersType
    <3> QED BY <3>3, <3>4 DEF RestType
  <2>2. CASE outbox[f] \notin Diagnosed
    BY <1>1, <1>2, <2>2, SettleType DEF OnMessage
  <2> QED BY <2>1, <2>2
<1>3. CASE DiagnosticWritten(f)
  BY <1>3, SettleType DEF DiagnosticWritten, Results
<1>4. CASE TimeOut(f)
  BY <1>1, <1>4, DestroyType DEF TimeOut, RestType
<1>5. CASE OnExit(f)
  <2>1. CASE Destroy(f, entry[f])
    BY <1>1, <1>5, <2>1, DestroyType DEF OnExit, RestType
  <2>2. CASE CloseEntry(f, entry[f]) /\ UNCHANGED flow
    BY <1>1, <1>5, <2>2, CloseType DEF OnExit, RestType, LayersType
  <2> QED BY <1>5, <2>1, <2>2 DEF OnExit
<1> QED BY <1>2, <1>3, <1>4, <1>5

\* What the process does.
LEMMA ReplyType ==
    ASSUME LayersType, NEW f \in FlowIds, NEW r \in Results, Reply(f, r)
    PROVE  /\ worker' \in [FlowIds -> WorkerType]
           /\ outbox' \in [FlowIds -> {"none"} \cup Results]
<1>1. Resumed(r) \in {"idle"} \cup Waiting
  BY DEF Resumed, Waiting, Retryable
<1> DEFINE goesOn == r \in Waiting \cup Retryable
           next == Resumed(r)
<1>2. goesOn \in BOOLEAN /\ next \in {"idle"} \cup Waiting
  BY <1>1
<1>3. /\ worker' = [worker EXCEPT ![f].state = next, ![f].alive = goesOn]
      /\ outbox' = [outbox EXCEPT ![f] = r]
  BY DEF Reply
<1> HIDE DEF goesOn, next
<1>4. next \in WorkerStates
  BY <1>2, StatesType
<1>5. [worker[f] EXCEPT !.state = next, !.alive = goesOn] \in WorkerType
  BY <1>2, <1>4 DEF LayersType, WorkerType
<1>6. worker' = [worker EXCEPT ![f] = [worker[f] EXCEPT !.state = next, !.alive = goesOn]]
  BY <1>3 DEF LayersType, WorkerType
<1> QED BY <1>3, <1>5, <1>6 DEF LayersType

LEMMA ProcessType ==
    ASSUME LayersType, RestType, NEW f \in FlowIds,
           \/ TakeCommand(f) \/ LoginEnds(f) \/ AskAuthenticator(f) \/ AddAnswered(f)
           \/ CompareCode(f) \/ Crash(f) \/ SteamAdds(f)
    PROVE  LayersType' /\ RestType'
<1>1. ASSUME NEW r \in Results, Reply(f, r), UNCHANGED <<flow, entry>>,
             inbox' \in [FlowIds -> {"none", "start", "email", "verify"}]
      PROVE  LayersType'
  BY <1>1, ReplyType DEF LayersType
<1>2. CASE TakeCommand(f)
  <2>1. inbox' \in [FlowIds -> {"none", "start", "email", "verify"}] /\ inbox[f] \in {"start", "email", "verify"}
    BY <1>2 DEF TakeCommand, LayersType
  <2>2. RestType'
    BY <1>2 DEF TakeCommand, RestType
  <2>3. CASE worker' = [worker EXCEPT ![f].state = Enters[inbox[f]]] /\ UNCHANGED outbox
    <3>1. Enters[inbox[f]] \in {"logging_in"} \cup Busy
      BY <2>1 DEF Enters, Busy
    <3>2. worker' \in [FlowIds -> WorkerType]
      BY <2>3, <3>1, StatesType DEF LayersType, WorkerType
    <3> QED BY <1>2, <2>1, <2>2, <2>3, <3>2 DEF TakeCommand, LayersType
  <2>4. CASE Reply(f, "invalid_flow_state")
    <3>1. "invalid_flow_state" \in Results /\ UNCHANGED <<flow, entry>>
      BY <1>2 DEF TakeCommand, Results
    <3> QED BY <1>1, <2>1, <2>2, <2>4, <3>1
  <2> QED BY <1>2, <2>2, <2>3, <2>4 DEF TakeCommand
<1>3. CASE LoginEnds(f)
  <2>1. PICK r \in LoginResults(worker[f].state) : Reply(f, r)
    BY <1>3 DEF LoginEnds
  <2>2. r \in Results
    BY <2>1 DEF LoginResults, Results, Waiting, Diagnosed
  <2> QED BY <1>1, <1>3, <2>1, <2>2 DEF LoginEnds, RestType, LayersType
<1>4. CASE AskAuthenticator(f)
  <2>1. worker' \in [FlowIds -> WorkerType]
    <3>1. [worker[f] EXCEPT !.state = "adding", !.asked = "sent"] \in WorkerType
      BY StatesType DEF LayersType, WorkerType
    <3>2. worker' = [worker EXCEPT ![f] = [worker[f] EXCEPT !.state = "adding", !.asked = "sent"]]
      BY <1>4 DEF AskAuthenticator, LayersType, WorkerType
    <3> QED BY <3>1, <3>2 DEF LayersType
  <2> QED BY <1>4, <2>1 DEF AskAuthenticator, RestType, LayersType
<1>5. CASE AddAnswered(f)
  <2>1. PICK r \in {"steam_app_binding_required", "already_has_authenticator", "failed"} : Reply(f, r)
    BY <1>5 DEF AddAnswered
  <2>2. r \in Results
    BY DEF Results, Waiting
  <2> QED BY <1>1, <1>5, <2>1, <2>2 DEF AddAnswered, RestType, LayersType
<1>6. CASE CompareCode(f)
  <2>1. PICK r \in {"time_sync_failed", "failed", "verified", "app_code_mismatch"} : Reply(f, r)
    BY <1>6 DEF CompareCode
  <2>2. r \in Results
    BY DEF Results, Retryable
  <2> QED BY <1>1, <1>6, <2>1, <2>2 DEF CompareCode, RestType, LayersType
<1>7. CASE Crash(f)
  <2>1. worker' \in [FlowIds -> WorkerType]
    BY <1>7 DEF Crash, LayersType, WorkerType
  <2> QED BY <1>7, <2>1 DEF Crash, RestType, LayersType
<1>8. CASE SteamAdds(f)
  <2>1. worker' \in [FlowIds -> WorkerType]
    BY <1>8, StatesType DEF SteamAdds, LayersType, WorkerType
  <2>2. f \in 0 .. MaxFlows
    BY GuardEnrolmentAssumption DEF FlowIds
  <2> QED BY <1>8, <2>1, <2>2 DEF SteamAdds, RestType, LayersType
<1> QED BY <1>2, <1>3, <1>4, <1>5, <1>6, <1>7, <1>8

\* What else happens.
LEMMA OtherType ==
    ASSUME LayersType, RestType, UserBinds \/ AccountChanges \/ CooldownEnds \/ Restart
    PROVE  LayersType' /\ RestType'
<1>1. Foreign \in 0 .. Foreign /\ None \in 0 .. Foreign /\ None \in 0 .. MaxFlows /\ 0 .. MaxFlows \subseteq 0 .. Foreign
  BY GuardEnrolmentAssumption DEF Foreign, None
<1>2. CASE UserBinds
  <2>1. steam' \in [bound : 0 .. Foreign, latest : 0 .. MaxFlows]
    <3>1. CASE steam' = [steam EXCEPT !.bound = steam.latest]
      <4>1. steam.latest \in 0 .. Foreign
        BY <1>1 DEF RestType
      <4> QED BY <3>1, <4>1 DEF RestType
    <3>2. CASE steam' = [bound |-> None, latest |-> None]
      BY <1>1, <3>2
    <3> QED BY <1>2, <3>1, <3>2 DEF UserBinds
  <2> QED BY <1>2, <2>1 DEF UserBinds, LayersType, RestType
<1>3. CASE AccountChanges
  <2>1. account' \in [exists : BOOLEAN, guard : 0 .. Foreign]
    <3>1. ASSUME NEW ex \in BOOLEAN, NEW g \in 0 .. Foreign, account' = [exists |-> ex, guard |-> g]
          PROVE  account' \in [exists : BOOLEAN, guard : 0 .. Foreign]
      BY <3>1
    <3>2. CASE SaveAccount
      BY <1>1, <3>1, <3>2 DEF SaveAccount
    <3>3. CASE ImportGuard
      BY <1>1, <3>1, <3>3 DEF ImportGuard
    <3>4. CASE DeleteAccount
      BY <1>1, <3>1, <3>4 DEF DeleteAccount
    <3>5. CASE ClearGuard
      BY <1>1, <3>5 DEF ClearGuard, RestType
    <3> QED BY <1>3, <3>2, <3>3, <3>4, <3>5 DEF AccountChanges
  <2> QED BY <1>3, <2>1 DEF AccountChanges, LayersType, RestType
<1>4. CASE CooldownEnds
  BY <1>4 DEF CooldownEnds, LayersType, RestType
<1>5. CASE Restart
  <2>1. flow' \in [FlowIds -> FlowType]
    <3>1. \A f \in FlowIds : flow[f] \in FlowType /\ [flow[f] EXCEPT !.state = "gone"] \in FlowType
      BY StatesType DEF LayersType, FlowType
    <3> QED BY <1>5, <3>1 DEF Restart
  <2>2. entry' \in [FlowIds -> EntryType]
    BY <1>5 DEF Restart, EntryType
  <2>3. worker' \in [FlowIds -> WorkerType]
    <3>1. \A f \in FlowIds : [worker[f] EXCEPT !.alive = FALSE] \in WorkerType
      BY DEF LayersType, WorkerType
    <3> QED BY <1>5, <3>1 DEF Restart
  <2> QED BY <1>5, <2>1, <2>2, <2>3 DEF Restart, LayersType, RestType
<1> QED BY <1>2, <1>3, <1>4, <1>5

LEMMA NextType == TypeOK /\ [Next]_vars => TypeOK'
<1> SUFFICES ASSUME LayersType, RestType, [Next]_vars PROVE LayersType' /\ RestType'
  <2>1. LayersType' /\ RestType' => TypeOK'
    BY DEF TypeOK, LayersType, RestType, FlowType, FlowStates, EntryType, WorkerType, WorkerStates,
           Askings, Expects
  <2> QED BY Types, <2>1
<1>1. CASE UNCHANGED vars
  BY <1>1 DEF vars, LayersType, RestType
<1> QED BY <1>1, UserType, HeardType, ProcessType, OtherType DEF Next

-----------------------------------------------------------------------------
(* The invariant of a flow.                                                  *)

\* What the invariant says of a flow is as it was.
Same(g) ==
    /\ flow'[g] = flow[g]
    /\ entry'[g] = entry[g]
    /\ worker'[g] = worker[g]
    /\ inbox'[g] = inbox[g]
    /\ outbox'[g] = outbox[g]
    /\ g \in Over' => g \in Over

LEMMA SameInv == ASSUME NEW g \in FlowIds, FlowInv(g), Same(g) PROVE FlowInv(g)'
BY DEF Same, FlowInv, Agree, RequestOf, CommandOf, WorkOf, ResultOf, DiagnosticOf, CodeOf

LEMMA ResumedWaits == \A r \in Results : Resumed(r) \in {"idle"} \cup Waiting
BY DEF Resumed, Waiting, Retryable, Results, Diagnosed

LEMMA InitInv == Init => IInv
<1> SUFFICES ASSUME Init, NEW f \in FlowIds PROVE FlowInv(f)
  BY InitType DEF IInv
<1>1. /\ flow[f].state = "unused" /\ ~entry[f].open /\ entry[f].request = "none"
      /\ ~worker[f].alive /\ worker[f].state = "idle" /\ inbox[f] = "none" /\ outbox[f] = "none"
      /\ Over = {}
  BY DEF Init, Over
<1> QED BY <1>1 DEF FlowInv, Agree, RequestOf, CommandOf, WorkOf, ResultOf, DiagnosticOf,
                    CodeOf, Waiting, Busy, Diagnosed, Retryable

\* An entry that is closed, and the process with it, leaves the invariant of a flow in
\* which no request is pending any more.
LEMMA CloseInv ==
    ASSUME LayersType, NEW f \in FlowIds, FlowInv(f), NEW e \in EntryType, CloseEntry(f, e),
           e.request \in {entry[f].request, "none"},
           flow'[f].state \in {"gone", flow[f].state},
           flow'[f].state \in Busy => e.request \notin {"none", "pending"},
           f \in Over' => f \in Over \/ flow'[f].state = "gone"
    PROVE  FlowInv(f)'
<1>1. /\ ~entry'[f].open /\ entry'[f].request = Closed(e).request
      /\ ~worker'[f].alive /\ worker'[f].state = worker[f].state
      /\ worker'[f].asked = worker[f].asked
      /\ inbox'[f] = "none" /\ outbox'[f] = "none"
  BY DEF CloseEntry, Closed, LayersType, WorkerType, EntryType
<1>2. Closed(e).request = IF e.request = "pending" THEN "none" ELSE e.request
  BY DEF Closed
<1>3. Agree(f)' /\ RequestOf(f)'
  BY <1>1, <1>2 DEF FlowInv, Agree, RequestOf, Waiting, Busy
<1>4. CommandOf(f)' /\ WorkOf(f)' /\ ResultOf(f)'
  BY <1>1, <1>2 DEF CommandOf, WorkOf, ResultOf, Waiting, Retryable
<1>5. DiagnosticOf(f)' /\ CodeOf(f)'
  BY <1>1, <1>2 DEF FlowInv, DiagnosticOf, CodeOf
<1> QED BY <1>3, <1>4, <1>5 DEF FlowInv

LEMMA DestroyInv ==
    ASSUME LayersType, NEW f \in FlowIds, FlowInv(f), NEW e \in EntryType, Destroy(f, e),
           e.request \in {entry[f].request, "none"}
    PROVE  FlowInv(f)'
<1>1. flow'[f].state = "gone"
  BY DEF Destroy, LayersType, FlowType
<1> QED BY <1>1, CloseInv DEF Destroy, Busy

\* A process that works on a request: the command was taken, no result is sent yet.
LEMMA Working ==
    ASSUME LayersType, NEW f \in FlowIds, FlowInv(f), worker[f].alive,
           worker[f].state \notin {"idle"} \cup Waiting
    PROVE  /\ entry[f].open /\ entry[f].request = "pending"
           /\ inbox[f] = "none" /\ outbox[f] = "none"
           /\ \/ flow[f].state = "starting" /\ worker[f].state \in {"logging_in", "adding"}
              \/ flow[f].state = "submitting_email_code"
                 /\ worker[f].state \in {"submitting_email_code", "adding"}
              \/ flow[f].state = "verifying_app_code" /\ worker[f].state = "verifying_app_code"
<1>1. entry[f].open /\ flow[f].state \in Busy /\ entry[f].request # "none"
  BY DEF FlowInv, Agree
<1>2. entry[f].request = "pending"
  BY <1>1 DEF FlowInv, DiagnosticOf, LayersType, EntryType, Diagnosed, Waiting
<1>3. inbox[f] = "none"
  BY DEF FlowInv, CommandOf, LayersType, Waiting
<1>4. outbox[f] = "none"
  BY ResumedWaits DEF FlowInv, ResultOf, LayersType
<1> QED BY <1>1, <1>2, <1>3, <1>4 DEF FlowInv, WorkOf

\* What the user's requests leave of the invariant.
LEMMA StartInv ==
    ASSUME LayersType, NEW f \in FlowIds, FlowInv(f), NEW mode \in {"existing", "new"}, Start(f, mode)
    PROVE  FlowInv(f)'
<1>1. /\ flow[f].state = "unused" /\ f \notin Over /\ Over' = Over
      /\ worker[f].state = "idle" /\ ~worker[f].alive /\ ~entry[f].open
      /\ entry[f].request = "none" /\ inbox[f] = "none" /\ outbox[f] = "none" /\ outbox' = outbox
  BY DEF Start, Over, FlowInv, Agree, RequestOf, CommandOf, ResultOf, CodeOf, Waiting, Busy
<1>2. CASE /\ flow' = [flow EXCEPT ![f].state = "starting", ![f].mode = mode]
           /\ entry' = [entry EXCEPT ![f] = [open |-> TRUE, request |-> "pending"]]
           /\ worker' = [worker EXCEPT ![f].alive = TRUE]
           /\ inbox' = [inbox EXCEPT ![f] = "start"]
  <2>1. /\ flow'[f].state = "starting" /\ entry'[f].open /\ entry'[f].request = "pending"
        /\ worker'[f].state = "idle" /\ inbox'[f] = "start" /\ outbox'[f] = "none"
    BY <1>1, <1>2 DEF LayersType, FlowType, WorkerType
  <2> QED BY <1>1, <2>1 DEF FlowInv, Agree, RequestOf, CommandOf, WorkOf, ResultOf, DiagnosticOf,
                            CodeOf, Waiting, Busy, Diagnosed, Retryable
<1>3. CASE flow' = [flow EXCEPT ![f].state = "gone"] /\ UNCHANGED <<entry, worker, inbox>>
  <2>1. flow'[f].state = "gone"
    BY <1>3 DEF LayersType, FlowType
  <2> QED BY <1>1, <1>3, <2>1 DEF FlowInv, Agree, RequestOf, CommandOf, WorkOf, ResultOf, DiagnosticOf,
                                  CodeOf, Waiting, Busy, Diagnosed, Retryable
<1> QED BY <1>2, <1>3 DEF Start

LEMMA SubmitInv ==
    ASSUME LayersType, NEW f \in FlowIds, FlowInv(f), NEW from, NEW busy, NEW command, NEW code,
           \/ /\ from = "email_code_required" /\ busy = "submitting_email_code" /\ command = "email"
           \/ /\ from = "steam_app_binding_required" /\ busy = "verifying_app_code"
              /\ command = "verify",
           Submit(f, from, busy, command, code)
    PROVE  FlowInv(f)'
<1>1. CASE Destroy(f, entry[f])
  BY <1>1, DestroyInv DEF LayersType
<1>2. CASE /\ entry[f].open
           /\ Request(f, command)
           /\ flow' = [flow EXCEPT ![f].state = busy, ![f].code = code]
           /\ UNCHANGED <<worker, outbox>>
  <2>1. /\ flow[f].state = from /\ f \notin Over /\ Over' = Over
        /\ entry[f].request = "none" /\ outbox[f] = "none"
        /\ worker[f].alive => worker[f].state = from
    BY DEF Submit, Over, FlowInv, Agree, RequestOf, ResultOf, CodeOf, Waiting, Busy
  <2>2. /\ flow'[f].state = busy /\ entry'[f].open /\ entry'[f].request = "pending"
        /\ inbox'[f] = command /\ worker' = worker /\ outbox' = outbox
    BY <1>2 DEF Request, LayersType, FlowType, EntryType
  <2>3. Agree(f)' /\ RequestOf(f)' /\ CommandOf(f)' /\ WorkOf(f)'
    BY <2>1, <2>2 DEF FlowInv, Agree, RequestOf, CommandOf, WorkOf, Waiting, Busy
  <2>4. ResultOf(f)' /\ DiagnosticOf(f)' /\ CodeOf(f)'
    BY <2>1, <2>2 DEF FlowInv, ResultOf, DiagnosticOf, CodeOf, Waiting, Diagnosed, Retryable
  <2> QED BY <2>3, <2>4 DEF FlowInv
<1> QED BY <1>1, <1>2 DEF Submit

LEMMA UserInv ==
    ASSUME LayersType, NEW f \in FlowIds, FlowInv(f),
           \/ \E mode \in {"existing", "new"} : Start(f, mode)
           \/ SubmitEmailCode(f) \/ VerifyAppCode(f) \/ Cancel(f)
    PROVE  FlowInv(f)'
<1>1. CASE Cancel(f)
  BY <1>1, DestroyInv DEF Cancel, LayersType
<1>2. CASE SubmitEmailCode(f)
  BY <1>2, SubmitInv DEF SubmitEmailCode
<1>3. CASE VerifyAppCode(f)
  BY <1>3, SubmitInv DEF VerifyAppCode
<1> QED BY <1>1, <1>2, <1>3, StartInv

\* The result r of a request has come, with or without a diagnostic.
LEMMA SettleInv ==
    ASSUME LayersType, NEW f \in FlowIds, FlowInv(f), NEW r \in Results, Settle(f, r),
           cancelled' = cancelled,
           \/ outbox[f] = r /\ r \notin Diagnosed
           \/ entry[f].request = r /\ r \in Diagnosed
    PROVE  FlowInv(f)'
<1> DEFINE e == [entry[f] EXCEPT !.request = "none"]
<1>1. e \in EntryType /\ e.request = "none" /\ e.open = entry[f].open
  BY DEF LayersType, EntryType
<1>2. /\ inbox[f] = "none" /\ entry[f].request # "none"
      /\ flow[f].state \in Busy \cup {"gone"}
      /\ entry[f].open => flow[f].state \in Busy
      /\ worker[f].alive => entry[f].open
  BY DEF FlowInv, Agree, RequestOf, CommandOf, ResultOf, DiagnosticOf, Results, Waiting, Busy,
         Diagnosed, Retryable
<1>3. CASE /\ flow[f].state \notin Busy
           /\ entry' = [entry EXCEPT ![f] = e]
           /\ outbox' = [outbox EXCEPT ![f] = "none"]
           /\ UNCHANGED <<flow, cooldown, worker, inbox, account, told>>
  <2>1. /\ flow'[f].state = "gone" /\ ~entry'[f].open /\ entry'[f].request = "none"
        /\ worker' = worker /\ ~worker[f].alive /\ inbox'[f] = "none" /\ outbox'[f] = "none"
    BY <1>1, <1>2, <1>3 DEF LayersType, Waiting
  <2>2. Over' = Over
    BY <1>3 DEF Over
  <2> QED BY <2>1, <2>2 DEF FlowInv, Agree, RequestOf, CommandOf, WorkOf, ResultOf, DiagnosticOf,
                           CodeOf, Waiting, Busy, Diagnosed, Retryable
<1>4. CASE /\ flow[f].state \in Busy
           /\ r \in Waiting \cup Retryable
           /\ flow' = [flow EXCEPT ![f].state = IF r \in Waiting THEN r ELSE Back(f, r),
                                   ![f].code = None]
           /\ entry' = [entry EXCEPT ![f] = e]
           /\ outbox' = [outbox EXCEPT ![f] = "none"]
           /\ UNCHANGED <<cooldown, worker, inbox, account, told>>
  <2>1. (IF r \in Waiting THEN r ELSE Back(f, r)) = Resumed(r)
    BY <1>4 DEF FlowInv, ResultOf, DiagnosticOf, Back, Resumed, Waiting, Busy, Diagnosed, Retryable
  <2>2. Resumed(r) \in Waiting
    BY <1>4 DEF Resumed, Waiting, Retryable
  <2>3. worker[f].alive => worker[f].state = Resumed(r)
    BY <1>4 DEF FlowInv, ResultOf, DiagnosticOf, Resumed, Waiting, Diagnosed, Retryable
  <2>4. /\ flow'[f].state = Resumed(r) /\ entry'[f].open = entry[f].open /\ entry'[f].request = "none"
        /\ worker' = worker /\ inbox'[f] = "none" /\ outbox'[f] = "none"
    BY <1>1, <1>2, <1>4, <2>1 DEF LayersType, FlowType
  <2>5. flow[f].state # "gone" /\ Over' = Over
    BY <1>4 DEF Busy, Over
  <2> HIDE DEF e
  <2>6. Agree(f)' /\ RequestOf(f)'
    BY <1>2, <2>2, <2>3, <2>4, <2>5 DEF FlowInv, Agree, RequestOf, Waiting, Busy
  <2>7. CommandOf(f)' /\ WorkOf(f)' /\ ResultOf(f)' /\ DiagnosticOf(f)'
    BY <2>4 DEF CommandOf, WorkOf, ResultOf, DiagnosticOf, Waiting, Diagnosed, Retryable
  <2>8. CodeOf(f)'
    BY <2>4, <2>5 DEF FlowInv, CodeOf
  <2> QED BY <2>6, <2>7, <2>8 DEF FlowInv
<1>5. CASE Destroy(f, e)
  BY <1>1, <1>5, DestroyInv
<1> QED BY <1>3, <1>4, <1>5 DEF Settle

LEMMA HeardInv ==
    ASSUME LayersType, NEW f \in FlowIds, FlowInv(f),
           OnMessage(f) \/ DiagnosticWritten(f) \/ TimeOut(f) \/ OnExit(f)
    PROVE  FlowInv(f)'
<1>1. entry[f] \in EntryType /\ outbox[f] \in {"none"} \cup Results
  BY DEF LayersType
<1>2. CASE OnMessage(f) /\ outbox[f] \in Diagnosed
  <2>1. /\ entry' = [entry EXCEPT ![f].request = outbox[f]]
        /\ outbox' = [outbox EXCEPT ![f] = "none"]
        /\ flow' = flow /\ worker' = worker /\ inbox' = inbox /\ Over' = Over
    BY <1>2 DEF OnMessage, Over
  <2>2. /\ entry'[f].open = entry[f].open /\ entry'[f].request = outbox[f] /\ outbox'[f] = "none"
        /\ inbox[f] = "none" /\ flow[f].state \in Busy
        /\ outbox[f] = "login_failed" => ~worker[f].alive
        /\ outbox[f] = "invalid_email_code" =>
               /\ flow[f].state = "submitting_email_code"
               /\ worker[f].alive => worker[f].state = "email_code_required"
    BY <1>2, <2>1 DEF LayersType, EntryType, FlowInv, Agree, CommandOf, ResultOf, Resumed,
                      Waiting, Diagnosed, Retryable
  <2>3. Agree(f)' /\ RequestOf(f)' /\ CommandOf(f)'
    BY <1>2, <2>1, <2>2 DEF FlowInv, Agree, RequestOf, CommandOf, Waiting, Busy, Diagnosed
  <2>4. WorkOf(f)' /\ ResultOf(f)' /\ DiagnosticOf(f)' /\ CodeOf(f)'
    BY <1>2, <2>1, <2>2 DEF FlowInv, WorkOf, ResultOf, DiagnosticOf, CodeOf, Waiting, Diagnosed, Retryable
  <2> QED BY <2>3, <2>4 DEF FlowInv
<1>3. CASE OnMessage(f) /\ outbox[f] \notin Diagnosed
  BY <1>1, <1>3, SettleInv DEF OnMessage
<1>4. CASE DiagnosticWritten(f)
  BY <1>4, SettleInv DEF DiagnosticWritten, Results
<1>5. CASE TimeOut(f)
  BY <1>1, <1>5, DestroyInv DEF TimeOut
<1>6. CASE OnExit(f)
  <2>1. CASE Destroy(f, entry[f])
    BY <1>1, <2>1, DestroyInv
  <2>2. CASE CloseEntry(f, entry[f]) /\ UNCHANGED flow /\ entry[f].request # "pending"
    <3>1. flow[f].state \in Busy => entry[f].request \notin {"none", "pending"}
      BY <2>2 DEF FlowInv, Agree
    <3> QED BY <1>1, <1>6, <2>2, <3>1, CloseInv DEF OnExit, Over
  <2> QED BY <1>6, <2>1, <2>2 DEF OnExit
<1> QED BY <1>2, <1>3, <1>4, <1>5, <1>6

\* A result that fits what the process was doing.
LEMMA ReplyInv ==
    ASSUME LayersType, NEW f \in FlowIds, FlowInv(f), NEW r \in Results, Reply(f, r),
           worker[f].alive, worker[f].state \notin {"idle"} \cup Waiting,
           UNCHANGED <<flow, entry, inbox, Over>>,
           r # "invalid_flow_state",
           r = "email_code_required" => flow[f].state = "starting",
           r = "steam_app_binding_required" => flow[f].state \in {"starting", "submitting_email_code"},
           r = "invalid_email_code" => flow[f].state = "submitting_email_code",
           r \in {"app_code_mismatch", "time_sync_failed", "verified"} =>
               flow[f].state = "verifying_app_code",
           r = "steam_app_binding_required" \/ worker[f].state = "verifying_app_code" =>
               worker[f].asked = "accepted",
           r = "verified" => flow[f].code = f
    PROVE  FlowInv(f)'
<1>1. /\ entry[f].open /\ entry[f].request = "pending" /\ inbox[f] = "none"
      /\ flow[f].state = "verifying_app_code" => worker[f].state = "verifying_app_code"
      /\ flow[f].state \in Busy
  BY Working DEF Busy
<1> DEFINE goesOn == r \in Waiting \cup Retryable
           next == Resumed(r)
<1>2. /\ worker'[f].state = next /\ worker'[f].alive = goesOn
      /\ worker'[f].asked = worker[f].asked /\ outbox'[f] = r
  BY DEF Reply, LayersType, WorkerType
<1>3. Agree(f)' /\ RequestOf(f)' /\ CommandOf(f)' /\ WorkOf(f)'
  BY <1>1, <1>2 DEF FlowInv, Agree, RequestOf, CommandOf, WorkOf, Waiting, Busy, Results, Diagnosed, Retryable
<1>4. ResultOf(f)' /\ DiagnosticOf(f)'
  BY <1>1, <1>2 DEF ResultOf, DiagnosticOf, Waiting, Diagnosed, Retryable
<1>5. next \in {"steam_app_binding_required", "verifying_app_code"} => worker[f].asked = "accepted"
  BY <1>1 DEF Resumed, Waiting, Retryable
<1>6. CodeOf(f)'
  BY <1>1, <1>2, <1>5 DEF FlowInv, CodeOf
<1> QED BY <1>3, <1>4, <1>6 DEF FlowInv

LEMMA ProcessInv ==
    ASSUME LayersType, NEW f \in FlowIds, FlowInv(f),
           \/ TakeCommand(f) \/ LoginEnds(f) \/ AskAuthenticator(f) \/ AddAnswered(f)
           \/ CompareCode(f) \/ Crash(f) \/ SteamAdds(f)
    PROVE  FlowInv(f)'
<1>1. CASE TakeCommand(f)
  <2>1. /\ worker[f].alive /\ inbox[f] \in {"start", "email", "verify"}
        /\ entry[f].request = "pending" /\ outbox[f] = "none" /\ entry[f].open
        /\ flow[f].state \in Busy /\ inbox'[f] = "none"
        /\ UNCHANGED <<flow, entry, Over>>
    BY <1>1 DEF TakeCommand, Over, LayersType, FlowInv, Agree, CommandOf
  <2>2. /\ worker[f].state = Expects[inbox[f]]
        /\ inbox[f] = "start" => flow[f].state = "starting"
        /\ inbox[f] = "email" => flow[f].state = "submitting_email_code"
        /\ inbox[f] = "verify" =>
               flow[f].state = "verifying_app_code" /\ worker[f].asked = "accepted"
    BY <2>1 DEF FlowInv, CommandOf, CodeOf, Expects
  <2>3. /\ worker'[f].state = Enters[inbox[f]] /\ worker'[f].alive
        /\ worker'[f].asked = worker[f].asked /\ outbox'[f] = "none"
    BY <1>1, <2>1, <2>2 DEF TakeCommand, LayersType, WorkerType
  <2>4. Agree(f)' /\ RequestOf(f)' /\ CommandOf(f)' /\ ResultOf(f)' /\ DiagnosticOf(f)'
    BY <2>1, <2>3 DEF FlowInv, Agree, RequestOf, CommandOf, ResultOf, DiagnosticOf, Waiting, Busy,
                      Diagnosed, Retryable
  <2>5. WorkOf(f)' /\ CodeOf(f)'
    BY <2>1, <2>2, <2>3 DEF FlowInv, WorkOf, CodeOf, Enters
  <2> QED BY <2>4, <2>5 DEF FlowInv
<1>2. CASE LoginEnds(f)
  <2>1. PICK r \in LoginResults(worker[f].state) : Reply(f, r)
    BY <1>2 DEF LoginEnds
  <2>2. worker[f].state \in {"logging_in", "submitting_email_code"}
    BY <2>1 DEF LoginResults
  <2>3. worker[f].state \notin {"idle"} \cup Waiting /\ worker[f].alive
        /\ UNCHANGED <<flow, entry, inbox, Over>>
    BY <1>2, <2>2 DEF LoginEnds, Over, Waiting
  <2>4. r \in {"email_code_required", "login_failed", "failed", "already_has_authenticator",
               "invalid_email_code"}
        /\ (r = "email_code_required" => worker[f].state = "logging_in")
        /\ (r = "invalid_email_code" => worker[f].state = "submitting_email_code")
    BY <2>1 DEF LoginResults
  <2>5. /\ worker[f].state = "logging_in" => flow[f].state = "starting"
        /\ worker[f].state = "submitting_email_code" => flow[f].state = "submitting_email_code"
    BY <2>3, Working
  <2> QED BY <2>1, <2>2, <2>3, <2>4, <2>5, ReplyInv DEF Results, Waiting, Diagnosed
<1>3. CASE AskAuthenticator(f)
  <2>1. worker[f].alive /\ worker[f].state \in {"logging_in", "submitting_email_code"}
        /\ UNCHANGED <<flow, entry, inbox, outbox, Over>>
    BY <1>3 DEF AskAuthenticator, Over
  <2>2. /\ entry[f].open /\ entry[f].request = "pending" /\ inbox[f] = "none" /\ outbox[f] = "none"
        /\ flow[f].state \in {"starting", "submitting_email_code"}
    BY <2>1, Working DEF Waiting
  <2>3. worker'[f].state = "adding" /\ worker'[f].alive
    BY <1>3, <2>1 DEF AskAuthenticator, LayersType, WorkerType
  <2> QED BY <2>1, <2>2, <2>3 DEF FlowInv, Agree, RequestOf, CommandOf, WorkOf, ResultOf, DiagnosticOf,
                                  CodeOf, Waiting, Busy, Diagnosed, Retryable
<1>4. CASE AddAnswered(f)
  <2>1. /\ worker[f].alive /\ worker[f].state = "adding"
        /\ UNCHANGED <<flow, entry, inbox, Over>>
    BY <1>4 DEF AddAnswered, Over
  <2>2. flow[f].state \in {"starting", "submitting_email_code"}
    BY <2>1, Working DEF Waiting
  <2>3. CASE worker[f].asked = "accepted" /\ Reply(f, "steam_app_binding_required")
    BY <2>1, <2>2, <2>3, ReplyInv DEF Results, Waiting
  <2>4. ASSUME NEW r \in {"already_has_authenticator", "failed"}, Reply(f, r) PROVE FlowInv(f)'
    BY <2>1, <2>4, ReplyInv DEF Results, Waiting
  <2> QED BY <1>4, <2>3, <2>4 DEF AddAnswered
<1>5. CASE CompareCode(f)
  <2>1. /\ worker[f].alive /\ worker[f].state = "verifying_app_code"
        /\ UNCHANGED <<flow, entry, inbox, Over>>
    BY <1>5 DEF CompareCode, Over
  <2>2. flow[f].state = "verifying_app_code" /\ worker[f].asked = "accepted"
    BY <2>1, Working DEF Waiting, FlowInv, CodeOf
  <2>3. ASSUME NEW r \in {"time_sync_failed", "failed", "verified", "app_code_mismatch"}, Reply(f, r),
               r = "verified" => flow[f].code = f
        PROVE  FlowInv(f)'
    BY <2>1, <2>2, <2>3, ReplyInv DEF Results, Retryable, Waiting
  <2> QED BY <1>5, <2>3 DEF CompareCode
<1>6. CASE Crash(f)
  <2>1. /\ ~worker'[f].alive /\ worker'[f].state = worker[f].state
        /\ worker'[f].asked = worker[f].asked
        /\ UNCHANGED <<flow, entry, inbox, outbox, Over>>
    BY <1>6 DEF Crash, Over, LayersType, WorkerType
  <2> QED BY <2>1 DEF FlowInv, Agree, RequestOf, CommandOf, WorkOf, ResultOf, DiagnosticOf, CodeOf
<1>7. CASE SteamAdds(f)
  <2>1. /\ worker[f].asked = "sent" /\ worker'[f].alive = worker[f].alive
        /\ worker'[f].state = worker[f].state
        /\ UNCHANGED <<flow, entry, inbox, outbox, Over>>
    BY <1>7 DEF SteamAdds, Over, LayersType, WorkerType
  <2> QED BY <2>1 DEF FlowInv, Agree, RequestOf, CommandOf, WorkOf, ResultOf, DiagnosticOf, CodeOf
<1> QED BY <1>1, <1>2, <1>3, <1>4, <1>5, <1>6, <1>7

LEMMA RestartInv ==
    ASSUME LayersType, NEW f \in FlowIds, FlowInv(f), Restart
    PROVE  FlowInv(f)'
<1>1. /\ flow'[f].state \in {"unused", "gone"} /\ (flow[f].state # "unused" => flow'[f].state = "gone")
      /\ ~entry'[f].open /\ entry'[f].request = "none"
      /\ ~worker'[f].alive /\ worker'[f].state = worker[f].state
      /\ worker'[f].asked = worker[f].asked /\ inbox'[f] = "none" /\ outbox'[f] = "none"
      /\ Over' = Over
  BY DEF Restart, Over, LayersType, FlowType, WorkerType
<1> QED BY <1>1 DEF FlowInv, Agree, RequestOf, CommandOf, WorkOf, ResultOf, DiagnosticOf, CodeOf,
                    Waiting, Busy, Diagnosed, Retryable

\* A step of one flow leaves the others as they are.
LEMMA Elsewhere ==
    ASSUME LayersType, NEW f \in FlowIds, NEW g \in FlowIds \ {f},
           \/ \E mode \in {"existing", "new"} : Start(f, mode)
           \/ SubmitEmailCode(f) \/ VerifyAppCode(f) \/ Cancel(f)
           \/ OnMessage(f) \/ DiagnosticWritten(f) \/ TimeOut(f) \/ OnExit(f)
           \/ TakeCommand(f) \/ LoginEnds(f) \/ AskAuthenticator(f) \/ AddAnswered(f)
           \/ CompareCode(f) \/ Crash(f) \/ SteamAdds(f)
    PROVE  Same(g)
<1>1. \A e : CloseEntry(f, e) => /\ entry'[g] = entry[g] /\ worker'[g] = worker[g]
                                 /\ inbox'[g] = inbox[g] /\ outbox'[g] = outbox[g]
  BY DEF CloseEntry, LayersType
<1>2. \A e : Destroy(f, e) => /\ flow'[g] = flow[g]
                              /\ entry'[g] = entry[g] /\ worker'[g] = worker[g]
                              /\ inbox'[g] = inbox[g] /\ outbox'[g] = outbox[g]
  BY <1>1 DEF Destroy, LayersType
<1>3. \A r : Reply(f, r) => worker'[g] = worker[g] /\ outbox'[g] = outbox[g]
  BY DEF Reply, LayersType
<1>4. \A r : Settle(f, r) => /\ flow'[g] = flow[g]
                             /\ entry'[g] = entry[g] /\ worker'[g] = worker[g]
                             /\ inbox'[g] = inbox[g] /\ outbox'[g] = outbox[g]
                             /\ g \in told' => g \in told
  BY <1>2 DEF Settle, Save, LayersType
<1>5. ASSUME NEW from, NEW busy, NEW command, NEW code, Submit(f, from, busy, command, code)
      PROVE  Same(g)
  BY <1>2, <1>5 DEF Submit, Request, Same, Over, LayersType
<1>6. CASE \E mode \in {"existing", "new"} : Start(f, mode)
  BY <1>6 DEF Start, Same, Over, LayersType
<1>7. CASE SubmitEmailCode(f) \/ VerifyAppCode(f)
  BY <1>5, <1>7 DEF SubmitEmailCode, VerifyAppCode
<1>8. CASE Cancel(f) \/ TimeOut(f) \/ OnExit(f)
  BY <1>1, <1>2, <1>8 DEF Cancel, TimeOut, OnExit, Same, Over
<1>9. CASE OnMessage(f) \/ DiagnosticWritten(f)
  BY <1>4, <1>9 DEF OnMessage, DiagnosticWritten, Same, Over, LayersType
<1>10. CASE TakeCommand(f) \/ LoginEnds(f) \/ AddAnswered(f) \/ CompareCode(f)
  BY <1>3, <1>10 DEF TakeCommand, LoginEnds, AddAnswered, CompareCode, Same, Over, LayersType
<1>11. CASE AskAuthenticator(f) \/ Crash(f) \/ SteamAdds(f)
  BY <1>11 DEF AskAuthenticator, Crash, SteamAdds, Same, Over, LayersType
<1> QED BY <1>6, <1>7, <1>8, <1>9, <1>10, <1>11

LEMMA NextInv == IInv /\ [Next]_vars => IInv'
<1> SUFFICES ASSUME IInv, [Next]_vars, NEW g \in FlowIds PROVE FlowInv(g)'
  BY NextType DEF IInv
<1>1. LayersType /\ FlowInv(g)
  BY Types DEF IInv
<1>2. ASSUME NEW f \in FlowIds,
             \/ \E mode \in {"existing", "new"} : Start(f, mode)
             \/ SubmitEmailCode(f) \/ VerifyAppCode(f) \/ Cancel(f)
             \/ OnMessage(f) \/ DiagnosticWritten(f) \/ TimeOut(f) \/ OnExit(f)
             \/ TakeCommand(f) \/ LoginEnds(f) \/ AskAuthenticator(f) \/ AddAnswered(f)
             \/ CompareCode(f) \/ Crash(f) \/ SteamAdds(f)
      PROVE  FlowInv(g)'
  <2>1. CASE f = g
    BY <1>1, <1>2, <2>1, UserInv, HeardInv, ProcessInv
  <2>2. CASE f # g
    BY <1>1, <1>2, <2>2, Elsewhere, SameInv
  <2> QED BY <2>1, <2>2
<1>3. CASE UserBinds \/ AccountChanges \/ CooldownEnds \/ UNCHANGED vars
  BY <1>1, <1>3, SameInv DEF UserBinds, AccountChanges, CooldownEnds, vars, Same, Over
<1>4. CASE Restart
  BY <1>1, <1>4, RestartInv
<1> QED BY <1>2, <1>3, <1>4 DEF Next

-----------------------------------------------------------------------------
(* What follows.                                                             *)

\* Every variable keeps its type.
THEOREM TypeCorrect == Spec => []TypeOK
<1> QED BY InitType, NextType, PTL DEF Spec

\* The inductive invariant.
THEOREM Inductive == Spec => []IInv
<1> QED BY InitInv, NextInv, PTL DEF Spec

\* Service, adapter and process agree on every flow.
THEOREM LayersStayInStep == Spec => []LayersAgree
<1>1. IInv => LayersAgree
  BY DEF IInv, FlowInv, Agree, LayersAgree
<1> QED BY <1>1, Inductive, PTL

\* The step that saves a maFile.
LEMMA SaveInv ==
    ASSUME LayersType, RestType, NEW f \in FlowIds, FlowInv(f), Settle(f, "verified"), Save(f),
           outbox[f] = "verified", NEW g \in FlowIds
    PROVE  /\ g \in told' \ told => account' = [exists |-> TRUE, guard |-> g]
           /\ account'.guard = g /\ account.guard # g =>
                  /\ account'.exists
                  /\ worker[g].asked = "accepted"
                  /\ flow[g].code = g
                  /\ g \notin cancelled
                  /\ g \in told' \ told \/ flow[g].mode = "new"
<1>1. flow[f].mode \in {"existing", "new"} /\ account.exists \in BOOLEAN
  BY DEF LayersType, FlowType, RestType
<1>2. account.exists \/ flow[f].mode = "new"
  BY <1>1 DEF Save, MaySave
<1>3. account' = [exists |-> TRUE, guard |-> f]
  BY <1>2 DEF Save
<1>4. worker[f].asked = "accepted" /\ flow[f].code = f /\ f \notin Over
  BY DEF FlowInv, Agree, RequestOf, ResultOf, CodeOf
<1>5. /\ told' \ told \subseteq {f}
      /\ f \in told' \ told \/ flow[f].mode = "new"
  BY <1>4 DEF Save, Over
<1>6. account'.guard = f /\ account'.exists
  BY <1>3
<1> QED BY <1>3, <1>4, <1>5, <1>6 DEF Over

\* No other step saves a maFile of a flow, or answers success.
LEMMA SuccessStep ==
    ASSUME IInv, [Next]_vars, NEW g \in FlowIds
    PROVE  /\ g \in told' \ told => account' = [exists |-> TRUE, guard |-> g]
           /\ account'.guard = g /\ account.guard # g =>
                  /\ account'.exists
                  /\ worker[g].asked = "accepted"
                  /\ flow[g].code = g
                  /\ g \notin cancelled
                  /\ g \in told' \ told \/ flow[g].mode = "new"
<1>1. LayersType /\ RestType /\ \A f \in FlowIds : FlowInv(f)
  BY Types DEF IInv
<1>2. ASSUME account' = account, told' = told
      PROVE  ~(g \in told' \ told) /\ ~(account'.guard = g /\ account.guard # g)
  BY <1>2
<1>3. ASSUME NEW f \in FlowIds,
             \/ \E mode \in {"existing", "new"} : Start(f, mode)
             \/ SubmitEmailCode(f) \/ VerifyAppCode(f) \/ Cancel(f) \/ TimeOut(f) \/ OnExit(f)
             \/ TakeCommand(f) \/ LoginEnds(f) \/ AskAuthenticator(f) \/ AddAnswered(f)
             \/ CompareCode(f) \/ Crash(f) \/ SteamAdds(f)
      PROVE  account' = account /\ told' = told
  BY <1>3 DEF Start, SubmitEmailCode, VerifyAppCode, Submit, Cancel, TimeOut, OnExit, TakeCommand,
              LoginEnds, AskAuthenticator, AddAnswered, CompareCode, Crash, SteamAdds
<1>4. ASSUME NEW f \in FlowIds, NEW r \in Results, Settle(f, r)
      PROVE  \/ account' = account /\ told' = told
             \/ r = "verified" /\ Save(f)
  BY <1>4 DEF Settle
<1>5. CASE UserBinds \/ CooldownEnds \/ Restart \/ UNCHANGED vars
  BY <1>2, <1>5 DEF UserBinds, CooldownEnds, Restart, vars
<1>6. CASE AccountChanges
  <2>1. told' = told /\ account'.guard \in {None, Foreign, account.guard}
    BY <1>1, <1>6 DEF AccountChanges, SaveAccount, ImportGuard, DeleteAccount, ClearGuard, RestType
  <2>2. g # None /\ g # Foreign
    BY GuardEnrolmentAssumption DEF FlowIds, None, Foreign
  <2> QED BY <2>1, <2>2
<1>7. ASSUME NEW f \in FlowIds, OnMessage(f)
      PROVE  \/ account' = account /\ told' = told
             \/ outbox[f] = "verified" /\ Settle(f, "verified") /\ Save(f)
  <2>1. outbox[f] \in Results
    BY <1>1, <1>7 DEF OnMessage, LayersType
  <2> QED BY <1>4, <1>7, <2>1 DEF OnMessage
<1>8. ASSUME NEW f \in FlowIds, DiagnosticWritten(f)
      PROVE  account' = account /\ told' = told
  <2>1. entry[f].request \in Results /\ entry[f].request # "verified"
    BY <1>8 DEF DiagnosticWritten, Diagnosed, Results
  <2> QED BY <1>4, <1>8, <2>1 DEF DiagnosticWritten
<1>9. ASSUME NEW f \in FlowIds, outbox[f] = "verified", Settle(f, "verified"), Save(f)
      PROVE  /\ g \in told' \ told => account' = [exists |-> TRUE, guard |-> g]
             /\ account'.guard = g /\ account.guard # g =>
                    /\ account'.exists
                    /\ worker[g].asked = "accepted"
                    /\ flow[g].code = g
                    /\ g \notin cancelled
                    /\ g \in told' \ told \/ flow[g].mode = "new"
  BY <1>1, <1>9, SaveInv
<1> QED BY <1>2, <1>3, <1>5, <1>6, <1>7, <1>8, <1>9 DEF Next

\* A maFile is saved, and success answered, only for an authenticator that Steam added for
\* the flow and whose code was read, and never after a cancellation.
THEOREM SuccessMeansSaved == Spec => SuccessIsSaved
<1>1. IInv /\ [Next]_vars =>
        [\A f \in FlowIds :
           /\ f \in told' \ told => account' = [exists |-> TRUE, guard |-> f]
           /\ account'.guard = f /\ account.guard # f =>
                  /\ account'.exists
                  /\ worker[f].asked = "accepted"
                  /\ flow[f].code = f
                  /\ f \notin cancelled
                  /\ f \in told' \ told \/ flow[f].mode = "new"]_vars
  BY SuccessStep
<1> QED BY <1>1, Inductive, PTL DEF Spec, SuccessIsSaved

===============================================================================
