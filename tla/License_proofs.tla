----------------------------- MODULE License_proofs -----------------------------
(***************************************************************************)
(* Type correctness of License; that a sign-in has one usable token at a   *)
(* time and none after its end; and that a lock-out takes effect within    *)
(* the life of a snapshot: for every number of tokens, requests and codes. *)
(***************************************************************************)
EXTENDS License, TLAPS, FiniteSetTheorems

Token == [status : {"none", "active", "rotated", "revoked"},
          family : {0} \cup Tokens, revoked : Times]

TableType ==
    /\ tokens \in [Tokens -> Token]
    /\ left \subseteq Tokens

\* A token that was issued belongs to a sign-in whose first token was issued, and only
\* such sign-ins have ended: so a new sign-in has a name of its own.
FamiliesKnown ==
    /\ \A t \in Tokens : tokens[t].status # "none" =>
          /\ tokens[t].family \in Tokens
          /\ tokens[tokens[t].family].status # "none"
    /\ \A f \in left : tokens[f].status # "none"

TableInv == TableType /\ FamiliesKnown /\ SessionsLinear

-----------------------------------------------------------------------------
(* The table of refresh tokens.                                              *)

\* Revoking keeps the table in order, if the sign-in that is ended by it, if any, keeps
\* no active token.
LEMMA RevokedTable ==
    ASSUME TableInv, now \in Times,
           NEW ts \in SUBSET Tokens,
           NEW ended \in SUBSET Tokens,
           \A f \in ended : tokens[f].status # "none",
           \A t \in Tokens : tokens[t].status = "active" /\ tokens[t].family \in ended => t \in ts,
           \A t \in ts : tokens[t].status # "none",
           tokens' = Revoked(ts), left' = left \cup ended
    PROVE  TableInv'
<1>1. \A t \in Tokens :
        /\ tokens'[t].family = tokens[t].family
        /\ t \notin ts => tokens'[t] = tokens[t]
        /\ t \in ts => tokens'[t].status = "revoked"
        /\ tokens'[t].status # "none" <=> tokens[t].status # "none"
        /\ tokens'[t] \in Token
  <2> TAKE t \in Tokens
  <2>1. tokens[t] \in Token
    BY DEF TableInv, TableType
  <2>2. CASE t \in ts
    <3>1. tokens'[t] = [tokens[t] EXCEPT !.status = "revoked", !.revoked = now]
      BY <2>2 DEF Revoked
    <3> QED BY <2>1, <2>2, <3>1 DEF Token
  <2>3. CASE t \notin ts
    BY <2>1, <2>3 DEF Revoked
  <2> QED BY <2>2, <2>3
<1>2. TableType'
  <2>1. tokens' = [t \in Tokens |-> tokens'[t]]
    BY DEF Revoked
  <2> QED BY <1>1, <2>1 DEF TableInv, TableType
<1>3. FamiliesKnown'
  BY <1>1, <1>2 DEF FamiliesKnown, TableInv, TableType
<1>4. AllActive' = AllActive \ ts
  BY <1>1 DEF AllActive, Active
<1>5. SessionsLinear'
  <2>1. AllActive \subseteq Tokens
    BY DEF AllActive
  <2>2. \A t, s \in AllActive' : tokens'[t].family = tokens'[s].family => t = s
    BY <1>1, <1>4, <2>1 DEF TableInv, SessionsLinear
  <2>3. ASSUME NEW t \in AllActive' PROVE tokens'[t].family \notin left'
    <3>1. t \in AllActive /\ t \in Tokens /\ t \notin ts /\ tokens[t].status = "active"
      BY <1>4, <2>1 DEF AllActive, Active
    <3>2. tokens[t].family \notin left
      BY <3>1 DEF TableInv, SessionsLinear
    <3> QED BY <1>1, <3>1, <3>2
  <2> QED BY <2>2, <2>3 DEF SessionsLinear
<1> QED BY <1>2, <1>3, <1>5 DEF TableInv

\* A first token begins a family of its own.
LEMMA SignInTable ==
    ASSUME TableInv, NEW t \in Tokens, Fresh(t),
           tokens' = Created(tokens, t, t), UNCHANGED left
    PROVE  TableInv'
<1>1. /\ tokens[t].status = "none"
      /\ tokens'[t].status = "active" /\ tokens'[t].family = t
      /\ \A s \in Tokens : s # t => tokens'[s] = tokens[s]
  BY DEF Fresh, Created, TableInv, TableType, Token
<1>2. TableType'
  BY LicenseAssumption DEF Created, TableInv, TableType, Token, Times
<1>3. FamiliesKnown'
  BY <1>1, <1>2 DEF FamiliesKnown, TableInv, TableType
<1>4. AllActive' = AllActive \cup {t} /\ AllActive \subseteq Tokens
  BY <1>1 DEF AllActive, Active
<1>5. \A s \in AllActive : s # t /\ tokens[s].family # t
  BY <1>1 DEF AllActive, Active, TableInv, FamiliesKnown
<1>6. t \notin left
  BY <1>1 DEF TableInv, FamiliesKnown
<1>7. SessionsLinear'
  <2>1. \A s \in AllActive : tokens'[s] = tokens[s]
    BY <1>1, <1>4, <1>5
  <2> QED BY <1>1, <1>4, <1>5, <1>6, <2>1 DEF SessionsLinear, TableInv
<1> QED BY <1>2, <1>3, <1>7 DEF TableInv

\* A rotation replaces the one active token of its family.
LEMMA RotatedTable ==
    ASSUME TableInv, NEW t \in Tokens, Active(t), NEW s \in Tokens, Fresh(s),
           tokens' = Created(Rotated(t), s, tokens[t].family), UNCHANGED left
    PROVE  TableInv'
<1>1. /\ s # t /\ tokens[s].status = "none" /\ tokens[t].status = "active"
      /\ tokens'[s].status = "active" /\ tokens'[s].family = tokens[t].family
      /\ tokens'[t].status = "rotated" /\ tokens'[t].family = tokens[t].family
      /\ \A r \in Tokens \ {s, t} : tokens'[r] = tokens[r]
  BY DEF Fresh, Active, Created, Rotated, TableInv, TableType, Token
<1>2. TableType'
  BY LicenseAssumption DEF Created, Rotated, TableInv, TableType, Token, Times
<1>3. \A r \in Tokens : tokens[r].status # "none" => tokens'[r].status # "none"
  BY <1>1
<1>4. FamiliesKnown'
  BY SMTT(30), <1>1, <1>2, <1>3 DEF FamiliesKnown, TableInv, TableType
<1>5. AllActive' = (AllActive \ {t}) \cup {s} /\ AllActive \subseteq Tokens /\ t \in AllActive
  BY <1>1 DEF AllActive, Active
<1>6. SessionsLinear'
  <2>1. \A r \in AllActive \ {t} :
           r # s /\ tokens'[r] = tokens[r] /\ tokens[r].family # tokens[t].family
    BY <1>1, <1>5 DEF AllActive, Active, TableInv, SessionsLinear
  <2>2. tokens[t].family \notin left
    BY <1>5 DEF TableInv, SessionsLinear
  <2> QED BY <1>1, <1>5, <2>1, <2>2 DEF SessionsLinear, TableInv
<1> QED BY <1>2, <1>4, <1>6 DEF TableInv

-----------------------------------------------------------------------------
(* The requests of the client.                                               *)

\* A refresh presents a credential, a redemption a code.
CallsInv ==
    /\ calls \in [CallIds -> Call]
    /\ \A c \in CallIds : /\ calls[c].kind = "refresh" => calls[c].token \in Tokens
                          /\ calls[c].kind = "redeem" => calls[c].code \in Codes

\* A bundle that is issued is one, whatever was redeemed before.
LEMMA IssuedBundle ==
    ASSUME NEW t \in Tokens, NEW c \in CallIds, NEW redeemed \in SUBSET Codes, now \in Nat
    PROVE  Bundle(t, c, redeemed) \in Bundles
<1>1. Cardinality(redeemed) \in 0 .. Cardinality(Codes)
  BY FS_Subset, FS_CardinalityType, LicenseAssumption
<1>2. now + SnapshotTtl \in Nat
  BY LicenseAssumption
<1> QED BY <1>1, <1>2 DEF Bundle, Bundles

\* Updates of a request keep its type, and what it was made with.
SameCall(v, u) == v \in Call /\ v.kind = u.kind /\ v.token = u.token /\ v.code = u.code

WithReply(u, b) == [u EXCEPT !.state = "answered", !.reply = b]

LEMMA AnsweredCall ==
    ASSUME NEW u \in Call, NEW b \in Bundles \cup {NoBundle}
    PROVE  SameCall(WithReply(u, b), u) /\ WithReply(u, b).state = "answered"
  BY DEF Call, SameCall, WithReply

LEMMA OrphanedCall ==
    ASSUME NEW u \in Call, NEW v, v = [u EXCEPT !.state = "orphan"]
    PROVE  SameCall(v, u) /\ v.state = "orphan"
  BY DEF Call, SameCall

LEMMA OverCall == /\ Over \in Call /\ Over.kind = "none" /\ Over.state = "over"
<1>1. Over = [kind |-> "none", state |-> "over", token |-> 0, from |-> 0, code |-> "none",
              reply |-> NoBundle]
  BY DEF Over, Unused
<1>2. 0 \in 0 .. MaxCalls
  BY LicenseAssumption
<1> QED BY <1>1, <1>2 DEF Call, Kinds

\* The server's answer ends no request of the client.
LEMMA AnsweredCalls ==
    ASSUME CallsInv, NEW c \in CallIds, calls[c].state \in {"sent", "orphan"},
           NEW b \in Bundles \cup {NoBundle}, Answer(c, b)
    PROVE  CallsInv' /\ OpenRefreshes' = OpenRefreshes
<1>1. calls[c] \in Call /\ \A d \in CallIds \ {c} : calls'[d] = calls[d]
  BY DEF CallsInv, Answer
<1>2. CASE calls[c].state = "orphan"
  <2>1. calls'[c] = Over
    BY <1>2 DEF Answer, CallsInv
  <2>2. calls' \in [CallIds -> Call]
    BY <1>2, OverCall DEF Answer, CallsInv
  <2> QED BY <1>1, <1>2, <2>1, <2>2, OverCall DEF CallsInv, OpenRefreshes, Open
<1>3. CASE calls[c].state = "sent"
  <2>1. calls' = [calls EXCEPT ![c] = WithReply(calls[c], b)]
    BY <1>3 DEF Answer, CallsInv, WithReply
  <2>2. calls'[c] = WithReply(calls[c], b)
    BY <2>1 DEF CallsInv
  <2>3. SameCall(calls'[c], calls[c]) /\ calls'[c].state = "answered"
    BY <1>1, <2>2, AnsweredCall
  <2>4. calls' \in [CallIds -> Call]
    BY <1>1, <2>1, <2>2, <2>3 DEF CallsInv, SameCall
  <2> QED BY <1>1, <1>3, <2>3, <2>4 DEF CallsInv, SameCall, OpenRefreshes, Open
<1> QED BY <1>2, <1>3

\* A request that is sent is a new one.
LEMMA SentCalls ==
    ASSUME CallsInv, NEW c \in CallIds, bundle \in Bundles \cup {NoBundle},
           NEW kind \in Kinds, NEW token \in {0} \cup Tokens, NEW code \in Codes \cup {"none"},
           kind = "refresh" => token \in Tokens, kind = "redeem" => code \in Codes,
           Send(c, kind, token, code)
    PROVE  /\ CallsInv'
           /\ OpenRefreshes \subseteq OpenRefreshes'
           /\ kind = "refresh" => c \in OpenRefreshes'
<1>1. bundle.issue \in 0 .. MaxCalls
  BY LicenseAssumption DEF Bundles, NoBundle, CallIds
<1> DEFINE new == [kind |-> kind, state |-> "sent", token |-> token, from |-> bundle.issue,
                   code |-> code, reply |-> NoBundle]
<1>2. /\ calls' = [calls EXCEPT ![c] = new]
      /\ c \notin OpenRefreshes
  BY DEF Send, OpenRefreshes, Open
<1>3. new \in Call /\ new.kind = kind /\ new.token = token /\ new.code = code
      /\ new.state = "sent"
  BY <1>1 DEF Call
<1> HIDE DEF new
<1>4. calls' \in [CallIds -> Call]
  BY <1>2, <1>3 DEF CallsInv
<1>5. /\ calls'[c].kind = kind /\ calls'[c].token = token /\ calls'[c].code = code
      /\ calls'[c].state = "sent"
      /\ \A d \in CallIds \ {c} : calls'[d] = calls[d]
  BY <1>2, <1>3 DEF CallsInv
<1> QED BY <1>2, <1>4, <1>5 DEF CallsInv, OpenRefreshes, Open

\* Requests that nobody waits for any more are not open.
LEMMA AbandonedCalls ==
    ASSUME CallsInv, NEW cs \in SUBSET CallIds, calls' = Abandoned(cs)
    PROVE  CallsInv' /\ OpenRefreshes' = OpenRefreshes \ cs
<1>1. ASSUME NEW d \in CallIds
      PROVE  /\ calls'[d] \in Call
             /\ d \notin cs => calls'[d] = calls[d]
             /\ d \in cs => calls'[d].state \in {"orphan", "over"}
             /\ calls'[d].kind = "refresh" => calls'[d].token \in Tokens
             /\ calls'[d].kind = "redeem" => calls'[d].code \in Codes
  <2>1. calls[d] \in Call
    BY DEF CallsInv
  <2>2. CASE d \notin cs
    BY <2>1, <2>2 DEF Abandoned, CallsInv
  <2>3. CASE d \in cs /\ calls[d].state = "sent"
    <3>1. calls'[d] = [calls[d] EXCEPT !.state = "orphan"]
      BY <2>3 DEF Abandoned
    <3>2. SameCall(calls'[d], calls[d]) /\ calls'[d].state = "orphan"
      BY <2>1, <3>1, OrphanedCall
    <3> QED BY <2>3, <3>2 DEF CallsInv, SameCall
  <2>4. CASE d \in cs /\ calls[d].state # "sent"
    BY <2>4, OverCall DEF Abandoned
  <2> QED BY <2>2, <2>3, <2>4
<1>2. calls' = [d \in CallIds |-> calls'[d]]
  BY DEF Abandoned
<1> QED BY <1>1, <1>2 DEF CallsInv, OpenRefreshes, Open

\* A reply that is received ends its request.
LEMMA ReceivedCalls ==
    ASSUME CallsInv, NEW c \in CallIds, calls' = [calls EXCEPT ![c] = Over]
    PROVE  CallsInv' /\ OpenRefreshes' = OpenRefreshes \ {c}
<1>1. calls' \in [CallIds -> Call] /\ calls'[c] = Over
      /\ \A d \in CallIds \ {c} : calls'[d] = calls[d]
  BY OverCall DEF CallsInv
<1> QED BY <1>1, OverCall DEF CallsInv, OpenRefreshes, Open

-----------------------------------------------------------------------------
(* The inductive invariant.                                                  *)

IInv == TypeOK /\ TableInv /\ CallsInv

LEMMA InitIInv == Init => IInv
<1> SUFFICES ASSUME Init PROVE IInv
  OBVIOUS
<1>1. TableInv
  BY LicenseAssumption DEF Init, TableInv, TableType, Token, Times, FamiliesKnown, SessionsLinear,
     AllActive, Active
<1>2. CallsInv
  <2>1. 0 \in 0 .. MaxCalls
    BY LicenseAssumption
  <2>2. Unused \in Call /\ Unused.kind = "none"
    BY <2>1 DEF Unused, Call, Kinds
  <2> QED BY <2>2 DEF Init, CallsInv
<1>3. now \in 1 .. MaxClock /\ user \in [active : BOOLEAN, off : Times]
  BY LicenseAssumption DEF Init, Times
<1>4. TypeOK
  BY <1>1, <1>2, <1>3 DEF Init, TypeOK, TableInv, TableType, Token, CallsInv
<1> QED BY <1>1, <1>2, <1>4 DEF IInv

\* A step that leaves the client's state alone and ends no refresh.
LEMMA ServerStep ==
    ASSUME IInv, TableInv', CallsInv', OpenRefreshes' = OpenRefreshes, UNCHANGED <<now, clientVars>>,
           user' \in [active : BOOLEAN, off : Times], codes' \subseteq Codes
    PROVE  IInv'
<1> QED BY DEF IInv, TypeOK, TableInv, TableType, Token, CallsInv, clientVars

\* A request is handled by the server.
LEMMA HandleIInv ==
    ASSUME IInv, NEW c \in CallIds, Handle(c)
    PROVE  IInv'
<1>1. /\ TableInv /\ CallsInv /\ now \in Nat /\ now \in Times /\ codes \in SUBSET Codes
      /\ user \in [active : BOOLEAN, off : Times]
  BY LicenseAssumption DEF IInv, TypeOK, Times
<1>2. calls[c].state \in {"sent", "orphan"} /\ UNCHANGED <<now, clientVars>>
  BY DEF Handle
<1>3. ASSUME TableInv', UNCHANGED user, codes' \subseteq Codes,
             NEW b \in Bundles \cup {NoBundle}, Answer(c, b)
      PROVE  IInv'
  BY <1>1, <1>2, <1>3, AnsweredCalls, ServerStep
<1>4. NoBundle \in Bundles \cup {NoBundle}
  OBVIOUS
<1>5. UNCHANGED <<tokens, left>> => TableInv'
  BY <1>1 DEF TableInv, TableType, FamiliesKnown, SessionsLinear, AllActive, Active
<1>6. ASSUME calls[c].kind = "login", HandleLogin(c)
      PROVE  IInv'
  <2>1. ASSUME NEW t \in Tokens, Fresh(t), tokens' = Created(tokens, t, t),
               Answer(c, Bundle(t, c, codes))
        PROVE  IInv'
    <3>1. TableInv'
      BY <1>1, <1>6, <2>1, SignInTable DEF HandleLogin
    <3>2. Bundle(t, c, codes) \in Bundles
      BY <1>1, IssuedBundle
    <3> QED BY <1>1, <1>3, <1>6, <2>1, <3>1, <3>2 DEF HandleLogin
  <2>2. CASE Refuse(c) /\ UNCHANGED tokens
    BY <1>1, <1>3, <1>4, <1>5, <1>6, <2>2 DEF HandleLogin, Refuse
  <2> QED BY <1>6, <2>1, <2>2 DEF HandleLogin
<1>7. ASSUME calls[c].kind = "refresh", HandleRefresh(c)
      PROVE  IInv'
  <2> DEFINE t == calls[c].token
  <2>1. t \in Tokens /\ UNCHANGED <<user, codes>>
    BY <1>1, <1>7 DEF CallsInv, HandleRefresh
  <2>2. CASE /\ tokens[t].status = "rotated" /\ tokens' = Revoked(FamilyOf(t))
             /\ left' = left \cup {tokens[t].family} /\ Refuse(c)
    <3>1. tokens[t].family \in Tokens /\ tokens[tokens[t].family].status # "none"
      BY <1>1, <2>1, <2>2 DEF TableInv, FamiliesKnown
    <3> DEFINE ended == {tokens[t].family}
    <3>2. /\ FamilyOf(t) \in SUBSET Tokens
          /\ \A s \in FamilyOf(t) : tokens[s].status # "none"
          /\ \A s \in Tokens : tokens[s].status = "active" /\ tokens[s].family \in ended
                               => s \in FamilyOf(t)
      BY DEF FamilyOf
    <3>3. /\ ended \in SUBSET Tokens /\ left' = left \cup ended
          /\ \A f \in ended : tokens[f].status # "none"
          /\ tokens' = Revoked(FamilyOf(t))
      BY <2>2, <3>1
    <3> HIDE DEF ended
    <3>4. TableInv'
      BY <1>1, <3>2, <3>3, RevokedTable
    <3> QED BY <1>1, <1>3, <1>4, <2>1, <2>2, <3>4 DEF Refuse
  <2>3. CASE Refuse(c) /\ UNCHANGED <<tokens, left>>
    BY <1>1, <1>3, <1>4, <1>5, <2>1, <2>3 DEF Refuse
  <2>4. ASSUME NEW s \in Tokens, Usable(t), Fresh(s), UNCHANGED left,
               tokens' = Created(Rotated(t), s, tokens[t].family), Answer(c, Bundle(s, c, codes))
        PROVE  IInv'
    <3>1. TableInv'
      BY <1>1, <2>1, <2>4, RotatedTable DEF Usable
    <3>2. Bundle(s, c, codes) \in Bundles
      BY <1>1, IssuedBundle
    <3> QED BY <1>1, <1>3, <2>1, <2>4, <3>1, <3>2
  <2> QED BY <1>7, <2>2, <2>3, <2>4 DEF HandleRefresh
<1>8. ASSUME calls[c].kind = "redeem", HandleRedeem(c)
      PROVE  IInv'
  <2> DEFINE t == calls[c].token
  <2>1. UNCHANGED <<user, tokens, left>> /\ TableInv'
    BY <1>5, <1>8 DEF HandleRedeem
  <2>2. CASE /\ Usable(t) /\ codes' = codes \cup {calls[c].code} /\ calls[c].code \in Codes
             /\ Answer(c, Bundle(t, c, codes'))
    <3>1. t \in Tokens
      BY <1>1, <2>2 DEF Usable, CallsInv, Call
    <3>2. Bundle(t, c, codes') \in Bundles
      BY <1>1, <2>2, <3>1, IssuedBundle
    <3> QED BY <1>1, <1>3, <2>1, <2>2, <3>2
  <2>3. CASE Refuse(c) /\ UNCHANGED codes
    BY <1>1, <1>3, <1>4, <2>1, <2>3 DEF Refuse
  <2> QED BY <1>1, <1>8, <2>2, <2>3 DEF HandleRedeem, CallsInv
<1>9. ASSUME calls[c].kind = "logout", HandleLogout(c)
      PROVE  IInv'
  <2> DEFINE t == calls[c].token
  <2>1. Refuse(c) /\ UNCHANGED <<user, codes>>
    BY <1>9 DEF HandleLogout
  <2>2. TableInv'
    <3>1. CASE t # 0 /\ Active(t)
      <4>1. t \in Tokens /\ tokens[t].status = "active"
        BY <1>1, <3>1 DEF CallsInv, Call, Active
      <4>2. tokens' = Revoked({t}) /\ left' = left \cup {tokens[t].family}
        BY <1>9, <3>1 DEF HandleLogout
      <4>3. tokens[t].family \in Tokens /\ tokens[tokens[t].family].status # "none"
        BY <1>1, <4>1 DEF TableInv, FamiliesKnown
      <4> DEFINE ts == {t}
                 ended == {tokens[t].family}
      <4>4. /\ ts \in SUBSET Tokens /\ \A s \in ts : tokens[s].status # "none"
            /\ \A s \in Tokens : tokens[s].status = "active" /\ tokens[s].family \in ended
                                 => s \in ts
        BY <1>1, <4>1 DEF TableInv, SessionsLinear, AllActive, Active
      <4>5. /\ ended \in SUBSET Tokens /\ left' = left \cup ended
            /\ \A f \in ended : tokens[f].status # "none"
            /\ tokens' = Revoked(ts)
        BY <4>2, <4>3
      <4> HIDE DEF ts, ended
      <4> QED BY <1>1, <4>4, <4>5, RevokedTable
    <3>2. CASE ~(t # 0 /\ Active(t))
      BY <1>5, <1>9, <3>2 DEF HandleLogout
    <3> QED BY <3>1, <3>2
  <2> QED BY <1>1, <1>3, <1>4, <2>1, <2>2 DEF Refuse
<1> QED BY <1>6, <1>7, <1>8, <1>9 DEF Handle

\* A step that leaves the server and the clock alone.
ClientInv ==
    /\ bundle \in Bundles \cup {NoBundle}
    /\ refreshing \in {0} \cup OpenRefreshes
    /\ disturbed \in BOOLEAN

LEMMA ClientStep ==
    ASSUME IInv, CallsInv', ClientInv', UNCHANGED <<now, serverVars>>
    PROVE  IInv'
<1>1. TableInv'
  BY DEF IInv, serverVars, TableInv, TableType, Token, FamiliesKnown, SessionsLinear, AllActive,
     Active
<1> QED BY <1>1 DEF IInv, TypeOK, CallsInv, ClientInv, serverVars

\* A request is sent; a refresh becomes the one of the current generation.
LEMMA SendIInv ==
    ASSUME IInv, NEW c \in CallIds,
           Login(c) \/ Tick(c) \/ Logout(c) \/ \E code \in Codes : Redeem(c, code)
    PROVE  IInv'
<1>1. CallsInv /\ ClientInv
  BY DEF IInv, TypeOK, ClientInv
<1>2. bundle \in Bundles \cup {NoBundle} /\ bundle.token \in {0} \cup Tokens
  BY <1>1 DEF ClientInv, Bundles, NoBundle
<1>3. {"login", "refresh", "redeem", "logout"} \subseteq Kinds
  BY DEF Kinds
<1>4. CASE Login(c)
  <2>1. CallsInv' /\ OpenRefreshes \subseteq OpenRefreshes'
    BY <1>1, <1>2, <1>3, <1>4, SentCalls DEF Login
  <2> QED BY <1>1, <1>4, <2>1, ClientStep DEF Login, ClientInv, clientVars
<1>5. CASE Tick(c)
  <2>1. bundle.token \in Tokens
    BY <1>1, <1>5 DEF Tick, MayRefresh, ClientInv, Bundles
  <2>2. CallsInv' /\ c \in OpenRefreshes'
    BY <1>1, <1>2, <1>3, <1>5, <2>1, SentCalls DEF Tick
  <2> QED BY <1>1, <1>5, <2>2, ClientStep DEF Tick, ClientInv
<1>6. CASE Logout(c)
  <2>1. CallsInv' /\ OpenRefreshes \subseteq OpenRefreshes'
    BY <1>1, <1>2, <1>3, <1>6, SentCalls DEF Logout
  <2> QED BY <1>1, <1>6, <2>1, ClientStep DEF Logout, ClientInv, clientVars
<1>7. ASSUME NEW code \in Codes, Redeem(c, code)
      PROVE  IInv'
  <2>1. CallsInv' /\ OpenRefreshes \subseteq OpenRefreshes'
    BY <1>1, <1>2, <1>3, <1>7, SentCalls DEF Redeem
  <2> QED BY <1>1, <1>7, <2>1, ClientStep DEF Redeem, ClientInv, clientVars
<1> QED BY <1>4, <1>5, <1>6, <1>7

\* A request ends, with a bundle or without: if it is the refresh of the current
\* generation, there is none any more.
LEMMA EndedClient ==
    ASSUME ClientInv, CallsInv, NEW c \in CallIds, NEW b \in Bundles \cup {NoBundle},
           Ended(c, b) \/ (calls[c].kind = "refresh" /\ Refreshed(c, NoBundle)
                            /\ disturbed' = TRUE),
           OpenRefreshes' = OpenRefreshes \ {c}
    PROVE  ClientInv'
<1>1. ASSUME NEW d \in Bundles \cup {NoBundle}, Refreshed(c, d), disturbed' \in BOOLEAN
      PROVE  ClientInv'
  BY <1>1 DEF Refreshed, ClientInv
<1>2. NoBundle \in Bundles \cup {NoBundle}
  OBVIOUS
<1>3. CASE calls[c].kind = "refresh" /\ Refreshed(c, b) /\ UNCHANGED disturbed
  BY <1>1, <1>3 DEF ClientInv
<1>4. CASE calls[c].kind = "logout" /\ Stored(NoBundle) /\ UNCHANGED disturbed
  BY <1>4 DEF Stored, ClientInv
<1>5. CASE Stored(b) /\ disturbed' = (disturbed \/ (calls[c].kind = "redeem" /\ Overlapped(c)))
  <2>1. disturbed' \in BOOLEAN
    BY <1>5
  <2> QED BY <1>5, <2>1 DEF Stored, ClientInv
<1>6. CASE calls[c].kind \in {"login", "redeem"} /\ UNCHANGED clientVars
  <2>1. c \notin OpenRefreshes
    BY <1>6 DEF OpenRefreshes
  <2> QED BY <1>6, <2>1 DEF clientVars, ClientInv
<1>7. CASE Refreshed(c, NoBundle) /\ disturbed' = TRUE
  BY <1>1, <1>2, <1>7
<1> QED BY <1>3, <1>4, <1>5, <1>6, <1>7 DEF Ended

LEMMA EndIInv ==
    ASSUME IInv, NEW c \in CallIds, Receive(c) \/ GiveUp(c)
    PROVE  IInv'
<1>1. CallsInv /\ ClientInv
  BY DEF IInv, TypeOK, ClientInv
<1>2. CASE Receive(c)
  <2>1. CallsInv' /\ OpenRefreshes' = OpenRefreshes \ {c}
    BY <1>1, <1>2, ReceivedCalls DEF Receive
  <2>2. calls[c].reply \in Bundles \cup {NoBundle} /\ Ended(c, calls[c].reply)
    BY <1>1, <1>2 DEF CallsInv, Call, Receive
  <2>3. ClientInv'
    BY <1>1, <2>1, <2>2, EndedClient
  <2> QED BY <1>2, <2>1, <2>3, ClientStep DEF Receive
<1>3. CASE GiveUp(c)
  <2> DEFINE cs == {c}
  <2>1. calls' = Abandoned(cs) /\ cs \in SUBSET CallIds
    BY <1>3 DEF GiveUp
  <2> HIDE DEF cs
  <2>2. CallsInv' /\ OpenRefreshes' = OpenRefreshes \ cs
    BY <1>1, <2>1, AbandonedCalls
  <2>3. OpenRefreshes' = OpenRefreshes \ {c}
    BY <2>2 DEF cs
  <2>4. NoBundle \in Bundles \cup {NoBundle}
    OBVIOUS
  <2>5. ClientInv'
    BY <1>1, <1>3, <2>3, <2>4, EndedClient DEF GiveUp
  <2> QED BY <1>3, <2>2, <2>5, ClientStep DEF GiveUp
<1> QED BY <1>2, <1>3

\* The administrator's steps revoke active tokens only.
LEMMA AdminIInv ==
    ASSUME IInv, SetStatus \/ EndSession
    PROVE  IInv'
<1>1. TableInv /\ now \in Times /\ AllActive \in SUBSET Tokens
  BY LicenseAssumption DEF IInv, TypeOK, Times, AllActive
<1>2. /\ UNCHANGED <<now, codes, left, calls, clientVars>>
      /\ user' \in [active : BOOLEAN, off : Times]
  <2>1. CASE SetStatus
    <3>1. user' = [active |-> ~user.active, off |-> IF user.active THEN now ELSE 0] /\ 0 \in Times
      BY <2>1, LicenseAssumption DEF SetStatus, Times
    <3>2. user.active \in BOOLEAN
      BY DEF IInv, TypeOK
    <3> QED BY <1>1, <2>1, <3>1, <3>2 DEF SetStatus
  <2>2. CASE EndSession
    BY <2>2 DEF EndSession, IInv, TypeOK
  <2> QED BY <2>1, <2>2
<1>3. CallsInv' /\ OpenRefreshes' = OpenRefreshes /\ codes' \subseteq Codes
  BY <1>2 DEF IInv, TypeOK, CallsInv, OpenRefreshes, Open
<1>4. ASSUME NEW ts \in SUBSET AllActive, tokens' = Revoked(ts)
      PROVE  TableInv'
  <2> DEFINE ended == {}
  <2>1. /\ ts \in SUBSET Tokens /\ \A t \in ts : tokens[t].status # "none"
        /\ ended \in SUBSET Tokens /\ left' = left \cup ended
        /\ \A f \in ended : tokens[f].status # "none"
        /\ \A t \in Tokens : tokens[t].status = "active" /\ tokens[t].family \in ended => t \in ts
    BY <1>1, <1>2, <1>4 DEF AllActive, Active
  <2> HIDE DEF ended
  <2> QED BY <1>1, <1>4, <2>1, RevokedTable
<1>5. UNCHANGED tokens => TableInv'
  BY <1>1, <1>2 DEF TableInv, TableType, FamiliesKnown, SessionsLinear, AllActive, Active
<1>6. TableInv'
  <2>1. CASE SetStatus
    BY <1>4, <1>5, <2>1 DEF SetStatus
  <2>2. CASE EndSession
    <3>1. PICK ts \in {AllActive} \cup {{t} : t \in AllActive} : tokens' = Revoked(ts)
      BY <2>2 DEF EndSession
    <3>2. ts \in SUBSET AllActive
      OBVIOUS
    <3> QED BY <1>4, <3>1, <3>2
  <2> QED BY <2>1, <2>2
<1> QED BY <1>2, <1>3, <1>6, ServerStep

LEMMA NextIInv == IInv /\ [Next]_vars => IInv'
<1> SUFFICES ASSUME IInv, [Next]_vars PROVE IInv'
  OBVIOUS
<1>1. CallsInv /\ ClientInv
  BY DEF IInv, TypeOK, ClientInv
<1>2. ASSUME NEW c \in CallIds,
             Login(c) \/ Tick(c) \/ Logout(c) \/ \E code \in Codes : Redeem(c, code)
      PROVE  IInv'
  BY <1>2, SendIInv
<1>3. ASSUME NEW c \in CallIds, Handle(c) PROVE IInv'
  BY <1>3, HandleIInv
<1>4. ASSUME NEW c \in CallIds, Receive(c) \/ GiveUp(c) PROVE IInv'
  BY <1>4, EndIInv
<1>5. CASE Clear
  <2>1. CallsInv' /\ ClientInv'
    BY <1>1, <1>5 DEF Clear, Stored, CallsInv, ClientInv
  <2> QED BY <1>5, <2>1, ClientStep DEF Clear
<1>6. CASE Restart
  <2> DEFINE cs == {c \in CallIds : Open(c)}
  <2>1. calls' = Abandoned(cs) /\ cs \in SUBSET CallIds
    BY <1>6 DEF Restart
  <2> HIDE DEF cs
  <2>2. CallsInv'
    BY <1>1, <2>1, AbandonedCalls
  <2>3. disturbed' \in BOOLEAN
    BY <1>6 DEF Restart
  <2>4. ClientInv'
    BY <1>1, <1>6, <2>3 DEF Restart, ClientInv
  <2> QED BY <1>6, <2>2, <2>4, ClientStep DEF Restart
<1>7. CASE SetStatus \/ EndSession
  BY <1>7, AdminIInv
<1>8. CASE PassTime
  <2>1. now' \in 1 .. MaxClock
    BY <1>8, LicenseAssumption DEF PassTime, IInv, TypeOK
  <2>2. TableInv'
    BY <1>8 DEF PassTime, serverVars, IInv, TableInv, TableType, Token, FamiliesKnown,
       SessionsLinear, AllActive, Active
  <2>3. CallsInv' /\ ClientInv'
    BY <1>1, <1>8 DEF PassTime, clientVars, CallsInv, ClientInv, OpenRefreshes, Open
  <2> QED BY <1>8, <2>1, <2>2, <2>3 DEF PassTime, serverVars, IInv, TypeOK, CallsInv, ClientInv
<1>9. CASE UNCHANGED vars
  <2>1. CallsInv' /\ ClientInv'
    BY <1>1, <1>9 DEF vars, clientVars, CallsInv, ClientInv, OpenRefreshes, Open
  <2> QED BY <1>9, <2>1, ClientStep DEF vars
<1> QED BY <1>2, <1>3, <1>4, <1>5, <1>6, <1>7, <1>8, <1>9 DEF Next

-----------------------------------------------------------------------------
\* The inductive invariant holds in every reachable state.
THEOREM Inductive == Spec => []IInv
<1> QED BY InitIInv, NextIInv, PTL DEF Spec

\* Every variable keeps its type; a refresh of the current generation is one that is
\* under way (licenseScheduler.js, refreshPromise).
THEOREM TypeCorrect == Spec => []TypeOK
<1>1. IInv => TypeOK
  BY DEF IInv
<1> QED BY <1>1, Inductive, PTL

\* A sign-in never has two usable tokens, and none after a confirmed sign-out or a
\* reuse (controlPlaneStore.js, rotateRefreshSession, revokeRefreshFamily).
THEOREM SessionsAreLinear == Spec => []SessionsLinear
<1>1. IInv => SessionsLinear
  BY DEF IInv, TableInv
<1> QED BY <1>1, Inductive, PTL

-----------------------------------------------------------------------------
(* A lock-out takes effect within the life of a snapshot.                    *)

\* The bundles that the client has, or that are on their way to it.
InHand == {bundle} \cup {calls[c].reply : c \in CallIds}

\* A bundle in hand was issued before its user was locked out, and before its token was
\* revoked.
Timely(b) ==
    b # NoBundle =>
        /\ b.exp <= now + SnapshotTtl
        /\ tokens[b.token].status # "none"
        /\ tokens[b.token].status = "revoked" => b.exp <= tokens[b.token].revoked + SnapshotTtl
        /\ ~user.active => b.exp <= user.off + SnapshotTtl

AccessInv == \A b \in InHand : Timely(b)

\* How a step moves time, the user's status and the tokens: a token or a user that is
\* revoked or locked out now was so before, since then, or is so from now on.
Onward ==
    /\ now' \in Nat /\ now <= now'
    /\ ~user'.active => (~user.active /\ user'.off = user.off) \/ user'.off = now
    /\ \A t \in Tokens : tokens[t].status # "none" =>
          /\ tokens'[t].status # "none"
          /\ tokens'[t].status = "revoked" =>
                \/ tokens[t].status = "revoked" /\ tokens'[t].revoked = tokens[t].revoked
                \/ tokens'[t].revoked = now

\* A bundle that is issued in this step.
IssuedNow(b) ==
    /\ b \in Bundles /\ b.exp = now + SnapshotTtl
    /\ now' = now /\ user'.active /\ tokens'[b.token].status = "active"

LEMMA TimelyStays ==
    ASSUME IInv, IInv', Onward, NEW b \in Bundles \cup {NoBundle}, Timely(b) \/ IssuedNow(b)
    PROVE  Timely(b)'
<1> SUFFICES ASSUME b # NoBundle PROVE Timely(b)'
  BY DEF Timely
<1>1. b.exp \in Nat /\ b.token \in Tokens /\ now \in Nat /\ now' \in Nat /\ SnapshotTtl \in Nat
  BY LicenseAssumption DEF Bundles, IInv, TypeOK
<1>2. /\ tokens[b.token] \in Token /\ tokens'[b.token] \in Token
      /\ user.off \in Nat /\ user'.off \in Nat
  BY <1>1, LicenseAssumption DEF IInv, TypeOK, TableInv, TableType, Times
<1>3. CASE Timely(b)
  <2>1. /\ b.exp <= now + SnapshotTtl /\ tokens[b.token].status # "none"
        /\ tokens[b.token].status = "revoked" => b.exp <= tokens[b.token].revoked + SnapshotTtl
        /\ ~user.active => b.exp <= user.off + SnapshotTtl
    BY <1>3 DEF Timely
  <2>2. b.exp <= now' + SnapshotTtl
    BY <1>1, <2>1 DEF Onward
  <2>3. tokens'[b.token].status # "none"
    BY <1>1, <2>1 DEF Onward
  <2>4. tokens'[b.token].status = "revoked" => b.exp <= tokens'[b.token].revoked + SnapshotTtl
    BY <1>1, <2>1 DEF Onward
  <2>5. ~user'.active => b.exp <= user'.off + SnapshotTtl
    BY <1>1, <2>1 DEF Onward
  <2> QED BY <2>2, <2>3, <2>4, <2>5 DEF Timely
<1>4. CASE IssuedNow(b)
  BY <1>1, <1>4 DEF IssuedNow, Timely
<1> QED BY <1>3, <1>4

\* What Revoked, Created and Rotated do to a token that was issued.
LEMMA TokensOnward ==
    ASSUME TableInv,
           \/ UNCHANGED tokens
           \/ \E ts \in SUBSET Tokens :
                 /\ \A t \in ts : tokens[t].status # "revoked"
                 /\ tokens' = Revoked(ts)
           \/ \E t \in Tokens : Fresh(t) /\ tokens' = Created(tokens, t, t)
           \/ \E t, s \in Tokens :
                 Active(t) /\ Fresh(s) /\ tokens' = Created(Rotated(t), s, tokens[t].family),
           NEW r \in Tokens, tokens[r].status # "none"
    PROVE  /\ tokens'[r].status # "none"
           /\ tokens'[r].status = "revoked" =>
                \/ tokens[r].status = "revoked" /\ tokens'[r].revoked = tokens[r].revoked
                \/ tokens'[r].revoked = now
<1>1. tokens \in [Tokens -> Token] /\ tokens[r] \in Token
  BY DEF TableInv, TableType
<1>2. CASE UNCHANGED tokens
  BY <1>2
<1>3. ASSUME NEW ts \in SUBSET Tokens, \A t \in ts : tokens[t].status # "revoked",
             tokens' = Revoked(ts)
      PROVE  /\ tokens'[r].status # "none"
             /\ tokens'[r].status = "revoked" =>
                  \/ tokens[r].status = "revoked" /\ tokens'[r].revoked = tokens[r].revoked
                  \/ tokens'[r].revoked = now
  <2>1. CASE r \in ts
    <3>1. tokens'[r] = [tokens[r] EXCEPT !.status = "revoked", !.revoked = now]
      BY <1>3, <2>1 DEF Revoked
    <3>2. tokens'[r].status = "revoked" /\ tokens'[r].revoked = now
      BY <1>1, <3>1 DEF Token
    <3> QED BY <3>2
  <2>2. CASE r \notin ts
    <3>1. tokens'[r] = tokens[r]
      BY <1>3, <2>2 DEF Revoked
    <3> QED BY <3>1
  <2> QED BY <2>1, <2>2
<1>4. ASSUME NEW t \in Tokens, Fresh(t), tokens' = Created(tokens, t, t)
      PROVE  tokens'[r] = tokens[r]
  BY <1>1, <1>4 DEF Fresh, Created
<1>5. ASSUME NEW t \in Tokens, NEW s \in Tokens, Active(t), Fresh(s),
             tokens' = Created(Rotated(t), s, tokens[t].family)
      PROVE  tokens'[r] = tokens[r] \/ tokens'[r].status = "rotated"
  BY <1>1, <1>5 DEF Fresh, Active, Created, Rotated, Token
<1> QED BY <1>2, <1>3, <1>4, <1>5

LEMMA StepOnward ==
    ASSUME IInv, [Next]_vars
    PROVE  Onward
<1>1. TableInv /\ CallsInv /\ now \in Nat
  BY DEF IInv, TypeOK
<1>2. AllActive \in SUBSET Tokens /\ \A t \in AllActive : tokens[t].status # "revoked"
  BY DEF AllActive, Active
<1>3. ASSUME UNCHANGED <<now, user>>,
             \/ UNCHANGED tokens
             \/ \E ts \in SUBSET Tokens :
                   /\ \A t \in ts : tokens[t].status # "revoked"
                   /\ tokens' = Revoked(ts)
             \/ \E t \in Tokens : Fresh(t) /\ tokens' = Created(tokens, t, t)
             \/ \E t, s \in Tokens :
                   Active(t) /\ Fresh(s) /\ tokens' = Created(Rotated(t), s, tokens[t].family)
      PROVE  Onward
  <2>1. now' \in Nat /\ now <= now' /\ (~user'.active => ~user.active /\ user'.off = user.off)
    BY <1>1, <1>3
  <2>2. ASSUME NEW r \in Tokens, tokens[r].status # "none"
        PROVE  /\ tokens'[r].status # "none"
               /\ tokens'[r].status = "revoked" =>
                    \/ tokens[r].status = "revoked" /\ tokens'[r].revoked = tokens[r].revoked
                    \/ tokens'[r].revoked = now
    BY <1>1, <1>3, <2>2, TokensOnward
  <2> QED BY <2>1, <2>2 DEF Onward
<1>4. ASSUME NEW c \in CallIds, Handle(c) PROVE Onward
  <2>1. UNCHANGED now
    BY <1>4 DEF Handle
  <2>2. CASE HandleLogin(c)
    BY <1>3, <2>1, <2>2 DEF HandleLogin
  <2>3. CASE calls[c].kind = "refresh" /\ HandleRefresh(c)
    <3> DEFINE t == calls[c].token
    <3>1. t \in Tokens /\ UNCHANGED user
      BY <1>1, <2>3 DEF CallsInv, HandleRefresh
    <3>2. FamilyOf(t) \in SUBSET Tokens /\ \A s \in FamilyOf(t) : tokens[s].status # "revoked"
      BY DEF FamilyOf
    <3>3. \/ tokens' = Revoked(FamilyOf(t))
          \/ UNCHANGED tokens
          \/ \E s \in Tokens :
                Active(t) /\ Fresh(s) /\ tokens' = Created(Rotated(t), s, tokens[t].family)
      BY <2>3 DEF HandleRefresh, Usable
    <3> HIDE DEF t
    <3> QED BY <1>3, <2>1, <3>1, <3>2, <3>3
  <2>4. CASE HandleRedeem(c)
    BY <1>3, <2>1, <2>4 DEF HandleRedeem
  <2>5. CASE HandleLogout(c)
    <3> DEFINE t == calls[c].token
               ts == {t}
    <3>1. UNCHANGED user /\ (UNCHANGED tokens \/ (t # 0 /\ Active(t) /\ tokens' = Revoked(ts)))
      BY <2>5 DEF HandleLogout
    <3>2. t \in {0} \cup Tokens
      BY <1>1 DEF CallsInv, Call
    <3>3. CASE t # 0 /\ Active(t) /\ tokens' = Revoked(ts)
      <4>1. ts \in SUBSET Tokens /\ \A s \in ts : tokens[s].status # "revoked"
        BY <3>2, <3>3 DEF Active
      <4> HIDE DEF ts
      <4> QED BY <1>3, <2>1, <3>1, <3>3, <4>1
    <3> QED BY <1>3, <2>1, <3>1, <3>3
  <2> QED BY <1>4, <2>2, <2>3, <2>4, <2>5 DEF Handle
<1>5. CASE SetStatus
  <2>1. UNCHANGED now /\ (~user'.active => user'.off = now)
    BY <1>5 DEF SetStatus
  <2>2. UNCHANGED tokens \/ tokens' = Revoked(AllActive)
    BY <1>5 DEF SetStatus
  <2>3. ASSUME NEW r \in Tokens, tokens[r].status # "none"
        PROVE  /\ tokens'[r].status # "none"
               /\ tokens'[r].status = "revoked" =>
                    \/ tokens[r].status = "revoked" /\ tokens'[r].revoked = tokens[r].revoked
                    \/ tokens'[r].revoked = now
    BY <1>1, <1>2, <2>2, <2>3, TokensOnward
  <2> QED BY <1>1, <2>1, <2>3 DEF Onward
<1>6. CASE EndSession
  <2>1. PICK ts \in {AllActive} \cup {{t} : t \in AllActive} : tokens' = Revoked(ts)
    BY <1>6 DEF EndSession
  <2>2. ts \in SUBSET Tokens /\ \A t \in ts : tokens[t].status # "revoked"
    BY <1>2
  <2> QED BY <1>3, <1>6, <2>1, <2>2 DEF EndSession
<1>7. CASE PassTime
  BY <1>1, <1>7 DEF PassTime, serverVars, Onward
<1>8. CASE UNCHANGED <<now, serverVars>>
  BY <1>3, <1>8 DEF serverVars
<1>9. CASE UNCHANGED vars
  BY <1>8, <1>9 DEF vars
<1> QED BY <1>4, <1>5, <1>6, <1>7, <1>8, <1>9
       DEF Next, Login, Tick, Logout, Redeem, Receive, GiveUp, Clear, Restart

LEMMA InHandBundles == IInv => InHand \subseteq Bundles \cup {NoBundle}
  BY DEF IInv, TypeOK, CallsInv, Call, InHand

\* A step gives the client nothing but what was on its way to it, or is issued now.
LEMMA Hands ==
    ASSUME IInv, [Next]_vars, NEW b \in InHand'
    PROVE  b \in InHand \cup {NoBundle} \/ IssuedNow(b)
<1>1. TableInv /\ CallsInv /\ now \in Nat /\ codes \in SUBSET Codes
  BY DEF IInv, TypeOK
<1>2. Over.reply = NoBundle
  BY DEF Over, Unused
<1>3. ASSUME bundle' \in InHand \cup {NoBundle},
             \A d \in CallIds : calls'[d].reply \in {calls[d].reply, NoBundle}
      PROVE  b \in InHand \cup {NoBundle}
  BY <1>3 DEF InHand
<1>4. ASSUME NEW c \in CallIds, Handle(c)
      PROVE  b \in InHand \cup {NoBundle} \/ IssuedNow(b)
  <2>1. UNCHANGED <<now, bundle>>
    BY <1>4 DEF Handle, clientVars
  <2>2. ASSUME NEW r, Answer(c, r), r \in Bundles \cup {NoBundle}
        PROVE  b \in InHand \cup {NoBundle} \/ b = r
    <3>1. \A d \in CallIds \ {c} : calls'[d] = calls[d]
      BY <1>1, <2>2 DEF Answer, CallsInv
    <3>2. calls'[c] = Over \/ calls'[c] = WithReply(calls[c], r)
      BY <1>1, <2>2 DEF Answer, CallsInv, WithReply
    <3>3. WithReply(calls[c], r).reply = r
      BY <1>1 DEF CallsInv, Call, WithReply
    <3>4. calls'[c].reply \in {NoBundle, r}
      BY <1>2, <3>2, <3>3
    <3> QED BY <2>1, <3>1, <3>4 DEF InHand
  <2>3. CASE Refuse(c)
    BY <2>2, <2>3 DEF Refuse
  <2>4. ASSUME NEW t \in Tokens, NEW redeemed \in SUBSET Codes, user'.active,
               tokens'[t].status = "active", Answer(c, Bundle(t, c, redeemed))
        PROVE  b \in InHand \cup {NoBundle} \/ IssuedNow(b)
    <3>1. Bundle(t, c, redeemed) \in Bundles
      BY <1>1, IssuedBundle
    <3>2. IssuedNow(Bundle(t, c, redeemed))
      BY <2>1, <2>4, <3>1 DEF IssuedNow, Bundle
    <3> QED BY <2>2, <2>4, <3>1, <3>2
  <2>5. CASE HandleLogin(c) /\ ~Refuse(c)
    <3>1. PICK t \in Tokens : /\ MayLogin /\ tokens' = Created(tokens, t, t)
                              /\ Answer(c, Bundle(t, c, codes))
      BY <2>5 DEF HandleLogin
    <3>2. user'.active /\ tokens'[t].status = "active"
      BY <1>1, <2>5, <3>1 DEF HandleLogin, MayLogin, Created, TableInv, TableType
    <3> QED BY <1>1, <2>4, <3>1, <3>2
  <2>6. CASE HandleRefresh(c) /\ ~Refuse(c)
    <3> DEFINE t == calls[c].token
    <3>1. PICK s \in Tokens : /\ Usable(t) /\ tokens' = Created(Rotated(t), s, tokens[t].family)
                              /\ Answer(c, Bundle(s, c, codes))
      BY <2>6 DEF HandleRefresh
    <3>2. user'.active /\ tokens'[s].status = "active"
      BY <1>1, <2>6, <3>1 DEF HandleRefresh, Usable, Created, Rotated, TableInv, TableType
    <3> QED BY <1>1, <2>4, <3>1, <3>2
  <2>7. CASE calls[c].kind = "redeem" /\ HandleRedeem(c) /\ ~Refuse(c)
    <3> DEFINE t == calls[c].token
    <3>1. /\ Usable(t) /\ calls[c].code \in Codes \cup {"none"}
          /\ codes' = codes \cup {calls[c].code} /\ Answer(c, Bundle(t, c, codes'))
          /\ UNCHANGED <<user, tokens>>
      BY <1>1, <2>7 DEF HandleRedeem, CallsInv, Call
    <3>2. t \in Tokens /\ user'.active /\ tokens'[t].status = "active"
      BY <1>1, <3>1 DEF Usable, Active, CallsInv, Call
    <3>3. codes' \in SUBSET Codes
      BY <1>1, <2>7, <3>1 DEF CallsInv
    <3> QED BY <2>4, <3>1, <3>2, <3>3
  <2> QED BY <1>4, <2>3, <2>5, <2>6, <2>7 DEF Handle, HandleLogout
<1>5. ASSUME NEW c \in CallIds,
             Login(c) \/ Tick(c) \/ Logout(c) \/ \E code \in Codes : Redeem(c, code)
      PROVE  b \in InHand \cup {NoBundle}
  <2>1. PICK kind, token, code : Send(c, kind, token, code)
    BY <1>5 DEF Login, Tick, Logout, Redeem
  <2>2. \A d \in CallIds : calls'[d].reply \in {calls[d].reply, NoBundle}
    BY <1>1, <2>1 DEF Send, CallsInv
  <2> QED BY <1>3, <1>5, <2>2 DEF Login, Tick, Logout, Redeem, clientVars, InHand
<1>6. ASSUME NEW c \in CallIds, Receive(c)
      PROVE  b \in InHand \cup {NoBundle}
  <2>1. \A d \in CallIds : calls'[d].reply \in {calls[d].reply, NoBundle}
    BY <1>1, <1>2, <1>6 DEF Receive, CallsInv
  <2>2. bundle' \in {bundle, NoBundle, calls[c].reply}
    BY <1>6 DEF Receive, Ended, Refreshed, Stored, clientVars
  <2> QED BY <1>3, <2>1, <2>2 DEF InHand
<1>7. ASSUME NEW cs \in SUBSET CallIds, calls' = Abandoned(cs), bundle' \in {bundle, NoBundle}
      PROVE  b \in InHand \cup {NoBundle}
  <2>1. ASSUME NEW d \in CallIds PROVE calls'[d].reply \in {calls[d].reply, NoBundle}
    <3>1. \/ calls'[d] = calls[d] \/ calls'[d] = Over
          \/ calls'[d] = [calls[d] EXCEPT !.state = "orphan"]
      BY <1>7 DEF Abandoned
    <3>2. calls[d] \in Call
      BY <1>1 DEF CallsInv
    <3> QED BY <1>2, <3>1, <3>2 DEF Call
  <2> QED BY <1>3, <1>7, <2>1 DEF InHand
<1>8. ASSUME NEW c \in CallIds, GiveUp(c)
      PROVE  b \in InHand \cup {NoBundle}
  <2> DEFINE cs == {c}
  <2>1. cs \in SUBSET CallIds /\ calls' = Abandoned(cs)
    BY <1>8 DEF GiveUp
  <2>2. bundle' \in {bundle, NoBundle}
    BY <1>8 DEF GiveUp, Ended, Refreshed, Stored, clientVars
  <2> HIDE DEF cs
  <2> QED BY <1>7, <2>1, <2>2
<1>9. CASE Restart
  <2> DEFINE cs == {c \in CallIds : Open(c)}
  <2>1. cs \in SUBSET CallIds /\ calls' = Abandoned(cs)
    BY <1>9 DEF Restart
  <2> HIDE DEF cs
  <2> QED BY <1>7, <1>9, <2>1 DEF Restart
<1>10. CASE UNCHANGED calls /\ bundle' \in {bundle, NoBundle}
  BY <1>3, <1>10 DEF InHand
<1>11. CASE Clear \/ SetStatus \/ EndSession \/ PassTime \/ UNCHANGED vars
  BY <1>10, <1>11 DEF Clear, Stored, SetStatus, EndSession, PassTime, clientVars, vars
<1> QED BY <1>4, <1>5, <1>6, <1>8, <1>9, <1>11 DEF Next

LEMMA InitAccess == Init => AccessInv
<1> SUFFICES ASSUME Init, NEW b \in InHand PROVE b = NoBundle
  BY DEF AccessInv, Timely
<1> QED BY DEF Init, InHand, Unused

LEMMA NextAccess == IInv /\ IInv' /\ AccessInv /\ [Next]_vars => AccessInv'
<1> SUFFICES ASSUME IInv, IInv', AccessInv, [Next]_vars, NEW b \in InHand' PROVE Timely(b)'
  BY DEF AccessInv
<1>1. b \in InHand \cup {NoBundle} \/ IssuedNow(b)
  BY Hands
<1>2. b \in Bundles \cup {NoBundle}
  BY <1>1, InHandBundles DEF IssuedNow
<1>3. Timely(b) \/ IssuedNow(b)
  BY <1>1 DEF AccessInv, Timely
<1> QED BY <1>2, <1>3, StepOnward, TimelyStays

\* A client whose user is disabled, or whose session is revoked, is locked within the
\* life of a snapshot (controlPlaneStore.js, issueUserBundle; entitlementContract.js).
THEOREM LockOutTakesEffect == Spec => []AccessEnds
<1>1. IInv /\ AccessInv => AccessEnds
  <2> SUFFICES ASSUME IInv, AccessInv, LicenseOk
               PROVE  /\ ~user.active => now < user.off + SnapshotTtl
                      /\ tokens[bundle.token].status = "revoked" =>
                            now < tokens[bundle.token].revoked + SnapshotTtl
    BY DEF AccessEnds
  <2>1. bundle \in Bundles \cup {NoBundle} /\ now \in Nat /\ now > 0
    BY DEF IInv, TypeOK
  <2>2. bundle # NoBundle
    BY <2>1 DEF LicenseOk, NoBundle
  <2>3. bundle.exp \in Nat /\ bundle.token \in Tokens
    BY <2>1, <2>2 DEF Bundles
  <2>4. /\ user.off \in Nat /\ tokens[bundle.token].revoked \in Nat /\ SnapshotTtl \in Nat
    BY <2>3, LicenseAssumption DEF IInv, TypeOK, TableInv, TableType, Token, Times
  <2>5. Timely(bundle)
    BY DEF AccessInv, InHand
  <2> QED BY <2>1, <2>2, <2>3, <2>4, <2>5 DEF LicenseOk, Timely
<1> QED BY <1>1, Inductive, InitAccess, NextAccess, PTL DEF Spec

-----------------------------------------------------------------------------
(* What the client may do with a reply.                                      *)

\* The reply to a sign-in or a refresh has a credential that nobody else has; the
\* client has it when it receives the reply, and not before.
IsNew(c) == calls[c].kind \in {"login", "refresh"} /\ calls[c].reply # NoBundle

PrivateInv ==
    \A c \in CallIds : IsNew(c) =>
        /\ tokens[calls[c].reply.token].status # "rotated"
        /\ bundle.token # calls[c].reply.token
        /\ \A d \in CallIds : /\ calls[d].token # calls[c].reply.token
                              /\ d # c => calls[d].reply.token # calls[c].reply.token

\* Only an answered request has a reply; that of a redemption comes with the credential
\* it presented.  Credentials that are presented were issued.
ReplyInv ==
    /\ \A c \in CallIds :
          /\ calls[c].state # "answered" => calls[c].reply = NoBundle
          /\ calls[c].kind = "redeem" /\ calls[c].reply # NoBundle
             => calls[c].reply.token = calls[c].token
          /\ calls[c].token # 0 => tokens[calls[c].token].status # "none"
    /\ \A b \in InHand : b.granted <= Cardinality(codes)

\* The refresh of the current generation was made with the bundle the client has: its
\* reply is of the same sign-in and grants no less.
GenerationInv ==
    refreshing # 0 =>
        LET call == calls[refreshing]
        IN  /\ bundle # NoBundle
            /\ call.token = bundle.token /\ call.from = bundle.issue
            /\ call.reply # NoBundle =>
                  /\ tokens[call.reply.token].family = tokens[bundle.token].family
                  /\ call.reply.granted >= bundle.granted

\* While no reply was lost and no redemption overlapped a refresh, nobody presents the
\* client's credential to rotate it but the refresh of the current generation.
CurrentInv ==
    ~disturbed =>
        /\ \A c \in CallIds : calls[c].kind = "refresh" => calls[c].state \in {"sent", "answered"}
        /\ bundle # NoBundle =>
              /\ \A c \in OpenRefreshes : calls[c].token = bundle.token => c = refreshing
              /\ refreshing = 0 \/ calls[refreshing].reply = NoBundle
                 => tokens[bundle.token].status # "rotated"

HandInv == PrivateInv /\ ReplyInv /\ GenerationInv /\ CurrentInv

\* A token that was issued stays issued, and of its sign-in.
Kept ==
    \A r \in Tokens : tokens[r].status # "none" =>
        tokens'[r].status # "none" /\ tokens'[r].family = tokens[r].family

\* The step uses up no token but these.
RotatesOnly(ts) ==
    \A r \in Tokens \ ts : tokens[r].status \notin {"none", "rotated"} => tokens'[r].status # "rotated"

LEMMA RevokedKept ==
    ASSUME TableInv, NEW ts \in SUBSET Tokens, tokens' = Revoked(ts)
    PROVE  Kept /\ RotatesOnly({})
<1>1. ASSUME NEW r \in Tokens
      PROVE  /\ tokens'[r] = tokens[r] \/ tokens'[r].status = "revoked"
             /\ tokens'[r].family = tokens[r].family
  <2>1. CASE r \in ts
    <3>1. tokens'[r] = [tokens[r] EXCEPT !.status = "revoked", !.revoked = now]
      BY <2>1 DEF Revoked
    <3> QED BY <3>1 DEF TableInv, TableType, Token
  <2>2. CASE r \notin ts
    BY <2>2 DEF Revoked
  <2> QED BY <2>1, <2>2
<1> QED BY <1>1 DEF Kept, RotatesOnly

LEMMA CreatedKept ==
    ASSUME TableInv, NEW t \in Tokens, Fresh(t), tokens' = Created(tokens, t, t)
    PROVE  /\ Kept /\ RotatesOnly({})
           /\ tokens[t].status = "none" /\ tokens'[t].status = "active"
<1>1. /\ tokens[t].status = "none" /\ tokens'[t].status = "active"
      /\ \A r \in Tokens \ {t} : tokens'[r] = tokens[r]
  BY DEF Fresh, Created, TableInv, TableType
<1> QED BY <1>1 DEF Kept, RotatesOnly

LEMMA RotatedKept ==
    ASSUME TableInv, NEW t \in Tokens, NEW s \in Tokens, Active(t), Fresh(s),
           tokens' = Created(Rotated(t), s, tokens[t].family)
    PROVE  /\ Kept /\ RotatesOnly({t})
           /\ tokens[s].status = "none" /\ tokens'[s].status = "active"
           /\ tokens'[s].family = tokens[t].family
<1>1. /\ s # t /\ tokens[s].status = "none" /\ tokens[t].status = "active"
      /\ tokens'[s].status = "active" /\ tokens'[s].family = tokens[t].family
      /\ tokens'[t].status = "rotated" /\ tokens'[t].family = tokens[t].family
      /\ \A r \in Tokens \ {s, t} : tokens'[r] = tokens[r]
  BY DEF Fresh, Active, Created, Rotated, TableInv, TableType, Token
<1> QED BY <1>1 DEF Kept, RotatesOnly

LEMMA ABundle ==
    /\ \A b \in Bundles : b # NoBundle /\ b.token \in Tokens /\ b.granted \in Nat
    /\ NoBundle.token = 0 /\ NoBundle.granted = 0 /\ NoBundle.issue = 0
    /\ 0 \notin Tokens
<1>1. NoBundle.token = 0 /\ NoBundle.granted = 0 /\ NoBundle.issue = 0
  BY DEF NoBundle
<1>2. 0 \notin Tokens
  BY DEF Tokens
<1>3. \A b \in Bundles : b.token \in Tokens /\ b.granted \in Nat
  BY FS_CardinalityType, LicenseAssumption DEF Bundles
<1> QED BY <1>1, <1>2, <1>3

LEMMA CodesGrow ==
    ASSUME codes \subseteq codes', codes' \subseteq Codes
    PROVE  /\ Cardinality(codes) \in Nat /\ Cardinality(codes') \in Nat
           /\ Cardinality(codes) <= Cardinality(codes')
<1>1. IsFiniteSet(codes')
  BY FS_Subset, LicenseAssumption
<1> QED BY <1>1, FS_Subset, FS_CardinalityType

\* What the server may answer: nothing; a bundle with a new credential, which for a refresh
\* is of the sign-in of the one presented; or one with the credential presented.
Answers(c, b) ==
    /\ \A d \in CallIds \ {c} : calls'[d] = calls[d]
    /\ calls'[c] = Over \/ calls'[c] = WithReply(calls[c], b)
    /\ calls[c].state = "sent" => calls'[c] = WithReply(calls[c], b)
    /\ Kept
    /\ RotatesOnly(IF calls[c].kind = "refresh" /\ b # NoBundle THEN {calls[c].token} ELSE {})
    /\ b # NoBundle =>
          /\ b.granted = Cardinality(codes')
          /\ calls[c].kind = "redeem" => b.token = calls[c].token
          /\ calls[c].kind # "redeem" =>
                tokens[b.token].status = "none" /\ tokens'[b.token].status = "active"
          /\ calls[c].kind = "refresh" =>
                tokens'[b.token].family = tokens[calls[c].token].family

LEMMA HandleAnswers ==
    ASSUME IInv, NEW c \in CallIds, Handle(c)
    PROVE  /\ \E b \in Bundles \cup {NoBundle} : Answers(c, b)
           /\ codes \subseteq codes' /\ codes' \subseteq Codes
<1>1. TableInv /\ CallsInv /\ now \in Nat /\ codes \in SUBSET Codes /\ calls[c] \in Call
  BY DEF IInv, TypeOK, CallsInv
<1>2. calls[c].state \in {"sent", "orphan"}
  BY DEF Handle
<1>3. ASSUME NEW b, Answer(c, b)
      PROVE  /\ \A d \in CallIds \ {c} : calls'[d] = calls[d]
             /\ calls'[c] = Over \/ calls'[c] = WithReply(calls[c], b)
             /\ calls[c].state = "sent" => calls'[c] = WithReply(calls[c], b)
  BY <1>1, <1>3 DEF Answer, CallsInv, WithReply
<1>4. ASSUME Refuse(c), Kept, RotatesOnly({}) PROVE Answers(c, NoBundle)
  BY <1>3, <1>4 DEF Refuse, Answers
<1>5. UNCHANGED tokens => Kept /\ RotatesOnly({})
  BY DEF Kept, RotatesOnly
<1>6. ASSUME calls[c].kind = "login", HandleLogin(c)
      PROVE  \E b \in Bundles \cup {NoBundle} : Answers(c, b)
  <2>1. ASSUME NEW t \in Tokens, Fresh(t), tokens' = Created(tokens, t, t),
               Answer(c, Bundle(t, c, codes))
        PROVE  \E b \in Bundles \cup {NoBundle} : Answers(c, b)
    <3> DEFINE b == Bundle(t, c, codes)
    <3>1. b \in Bundles /\ b.token = t /\ b.granted = Cardinality(codes)
      BY <1>1, IssuedBundle DEF Bundle
    <3>2. UNCHANGED codes
      BY <1>6 DEF HandleLogin
    <3> HIDE DEF b
    <3>3. Answers(c, b)
      BY <1>1, <1>3, <1>6, <2>1, <3>1, <3>2, CreatedKept DEF Answers, b
    <3> QED BY <3>1, <3>3
  <2> QED BY <1>4, <1>5, <1>6, <2>1 DEF HandleLogin
<1>7. ASSUME calls[c].kind = "refresh", HandleRefresh(c)
      PROVE  \E b \in Bundles \cup {NoBundle} : Answers(c, b)
  <2> DEFINE t == calls[c].token
  <2>1. t \in Tokens /\ UNCHANGED codes
    BY <1>1, <1>7 DEF CallsInv, HandleRefresh
  <2>2. CASE tokens' = Revoked(FamilyOf(t)) /\ Refuse(c)
    <3>1. FamilyOf(t) \in SUBSET Tokens
      BY DEF FamilyOf
    <3> QED BY <1>1, <1>4, <2>2, <3>1, RevokedKept
  <2>3. CASE Refuse(c) /\ UNCHANGED tokens
    BY <1>4, <1>5, <2>3
  <2>4. ASSUME NEW s \in Tokens, Usable(t), Fresh(s),
               tokens' = Created(Rotated(t), s, tokens[t].family), Answer(c, Bundle(s, c, codes))
        PROVE  \E b \in Bundles \cup {NoBundle} : Answers(c, b)
    <3> DEFINE b == Bundle(s, c, codes)
    <3>1. b \in Bundles /\ b.token = s /\ b.granted = Cardinality(codes)
      BY <1>1, IssuedBundle DEF Bundle
    <3>4. b # NoBundle
      BY <3>1, ABundle
    <3>2. Active(t)
      BY <2>4 DEF Usable
    <3> HIDE DEF b
    <3>5. /\ Kept /\ RotatesOnly({t})
          /\ tokens[s].status = "none" /\ tokens'[s].status = "active"
          /\ tokens'[s].family = tokens[t].family
      BY <1>1, <2>1, <2>4, <3>2, RotatedKept
    <3>6. /\ \A d \in CallIds \ {c} : calls'[d] = calls[d]
          /\ calls'[c] = Over \/ calls'[c] = WithReply(calls[c], b)
          /\ calls[c].state = "sent" => calls'[c] = WithReply(calls[c], b)
      BY <1>3, <2>4 DEF b
    <3>3. Answers(c, b)
      BY <1>7, <2>1, <3>1, <3>4, <3>5, <3>6 DEF Answers
    <3> QED BY <3>1, <3>3
  <2> QED BY <1>7, <2>2, <2>3, <2>4 DEF HandleRefresh
<1>8. ASSUME calls[c].kind = "redeem", HandleRedeem(c)
      PROVE  \E b \in Bundles \cup {NoBundle} : Answers(c, b)
  <2> DEFINE t == calls[c].token
  <2>1. UNCHANGED tokens /\ calls[c].code \in Codes
    BY <1>1, <1>8 DEF HandleRedeem, CallsInv
  <2>2. CASE /\ Usable(t) /\ codes' = codes \cup {calls[c].code}
             /\ Answer(c, Bundle(t, c, codes'))
    <3> DEFINE b == Bundle(t, c, codes')
    <3>1. t \in Tokens /\ codes' \in SUBSET Codes
      BY <1>1, <2>1, <2>2 DEF Usable, Call
    <3>2. b \in Bundles /\ b.token = t /\ b.granted = Cardinality(codes')
      BY <1>1, <3>1, IssuedBundle DEF Bundle
    <3> HIDE DEF b
    <3>3. Answers(c, b)
      BY <1>3, <1>5, <1>8, <2>1, <2>2, <3>2 DEF Answers, b
    <3> QED BY <3>2, <3>3
  <2> QED BY <1>4, <1>5, <1>8, <2>1, <2>2 DEF HandleRedeem
<1>9. ASSUME calls[c].kind = "logout", HandleLogout(c)
      PROVE  \E b \in Bundles \cup {NoBundle} : Answers(c, b)
  <2> DEFINE t == calls[c].token
             ts == {t}
  <2>1. CASE t # 0 /\ Active(t)
    <3>1. ts \in SUBSET Tokens /\ tokens' = Revoked(ts) /\ Refuse(c)
      BY <1>1, <1>9, <2>1 DEF HandleLogout, Call
    <3> HIDE DEF ts
    <3> QED BY <1>1, <1>4, <3>1, RevokedKept
  <2>2. CASE ~(t # 0 /\ Active(t))
    BY <1>4, <1>5, <1>9, <2>2 DEF HandleLogout
  <2> QED BY <2>1, <2>2
<1>10. codes \subseteq codes' /\ codes' \subseteq Codes
  BY <1>1 DEF Handle, HandleLogin, HandleRefresh, HandleRedeem, HandleLogout, CallsInv
<1> QED BY <1>6, <1>7, <1>8, <1>9, <1>10 DEF Handle

\* The types the following lemmas use.
LEMMA HandTypes ==
    ASSUME IInv
    PROVE  /\ \A d \in CallIds : /\ calls[d] \in Call
                                 /\ calls[d].token \in {0} \cup Tokens
                                 /\ calls[d].reply \in Bundles \cup {NoBundle}
           /\ bundle \in Bundles \cup {NoBundle}
           /\ refreshing \in {0} \cup OpenRefreshes
           /\ 0 \notin CallIds
BY DEF IInv, TypeOK, CallsInv, Call, CallIds

\* The tokens that the client, its requests and the replies name were issued.
LEMMA NamedIssued ==
    ASSUME IInv, AccessInv, ReplyInv
    PROVE  /\ bundle # NoBundle => tokens[bundle.token].status # "none"
           /\ \A d \in CallIds :
                /\ calls[d].token # 0 => tokens[calls[d].token].status # "none"
                /\ calls[d].reply # NoBundle => tokens[calls[d].reply.token].status # "none"
BY DEF AccessInv, InHand, Timely, ReplyInv

\* The server answers: the credential of the answer is new, or the one presented.
LEMMA HandleHands ==
    ASSUME IInv, AccessInv, HandInv, NEW c \in CallIds, Handle(c)
    PROVE  HandInv'
<1>1. PICK b \in Bundles \cup {NoBundle} : Answers(c, b)
  BY HandleAnswers
<1>2. UNCHANGED <<bundle, refreshing, disturbed>> /\ calls[c].state \in {"sent", "orphan"}
      /\ calls[c].kind # "none"
  BY DEF Handle, clientVars
<1>3. /\ calls'[c].token \in {0, calls[c].token} /\ calls'[c].reply \in {NoBundle, b}
      /\ calls'[c].kind \in {"none", calls[c].kind}
      /\ calls'[c].state \in {"over", "answered"}
      /\ calls'[c].kind # "none" =>
            /\ calls'[c].token = calls[c].token /\ calls'[c].from = calls[c].from
            /\ calls'[c].state = "answered" /\ calls'[c].reply = b
      /\ calls[c].state = "sent" => calls'[c].kind # "none"
      /\ calls'[c].kind = "none" => calls'[c].reply = NoBundle /\ calls'[c].token = 0
  <2>1. /\ Over.token = 0 /\ Over.reply = NoBundle /\ Over.kind = "none" /\ Over.state = "over"
    BY DEF Over, Unused
  <2>2. LET w == WithReply(calls[c], b) IN
        /\ w.token = calls[c].token /\ w.reply = b /\ w.kind = calls[c].kind
        /\ w.state = "answered" /\ w.from = calls[c].from
    BY HandTypes DEF WithReply, Call
  <2> QED BY <1>1, <1>2, <2>1, <2>2 DEF Answers
<1>4. \A d \in CallIds \ {c} : calls'[d] = calls[d]
  BY <1>1 DEF Answers
<1>5. Kept /\ RotatesOnly(IF calls[c].kind = "refresh" /\ b # NoBundle THEN {calls[c].token} ELSE {})
  BY <1>1 DEF Answers
<1>6. b # NoBundle =>
          /\ b.granted = Cardinality(codes')
          /\ calls[c].kind = "redeem" => b.token = calls[c].token
          /\ calls[c].kind # "redeem" =>
                tokens[b.token].status = "none" /\ tokens'[b.token].status = "active"
          /\ calls[c].kind = "refresh" =>
                tokens'[b.token].family = tokens[calls[c].token].family
  BY <1>1 DEF Answers
<1>7. /\ Cardinality(codes) \in Nat /\ Cardinality(codes') \in Nat
      /\ Cardinality(codes) <= Cardinality(codes')
  BY HandleAnswers, CodesGrow
<1>8. PrivateInv /\ ReplyInv /\ GenerationInv /\ CurrentInv
  BY DEF HandInv
<1>9. \A d \in CallIds \ {c} : IsNew(d)' <=> IsNew(d)
  BY <1>4 DEF IsNew
<1>10. PrivateInv'
  <2>1. ASSUME NEW e \in CallIds, IsNew(e)', e # c
        PROVE  LET t == calls'[e].reply.token IN
               /\ tokens'[t].status # "rotated" /\ bundle'.token # t
               /\ \A d \in CallIds : calls'[d].token # t /\ (d # e => calls'[d].reply.token # t)
    <3> DEFINE t == calls[e].reply.token
    <3>1. /\ calls'[e] = calls[e] /\ IsNew(e) /\ t \in Tokens
          /\ tokens[t].status \notin {"none", "rotated"} /\ bundle.token # t
          /\ \A d \in CallIds : calls[d].token # t /\ (d # e => calls[d].reply.token # t)
      BY <1>4, <1>8, <1>9, <2>1, HandTypes, NamedIssued, ABundle DEF IsNew, PrivateInv
    <3>2. tokens'[t].status # "rotated"
      BY <1>5, <3>1 DEF RotatesOnly
    <3>3. calls'[c].token # t
      BY <1>3, <3>1, ABundle
    <3>4. b # NoBundle => b.token # t
      BY <1>6, <3>1
    <3>5. calls'[c].reply.token # t
      BY <1>3, <3>1, <3>4, ABundle
    <3> QED BY <1>2, <1>4, <3>1, <3>2, <3>3, <3>5
  <2>2. ASSUME IsNew(c)'
        PROVE  LET t == calls'[c].reply.token IN
               /\ tokens'[t].status # "rotated" /\ bundle'.token # t
               /\ \A d \in CallIds : calls'[d].token # t /\ (d # c => calls'[d].reply.token # t)
    <3>1. /\ calls'[c].reply = b /\ b # NoBundle /\ b.token \in Tokens
          /\ tokens[b.token].status = "none" /\ tokens'[b.token].status = "active"
      BY <1>3, <1>6, <2>2, ABundle DEF IsNew
    <3>2. bundle.token # b.token
      BY <1>8, <3>1, NamedIssued, HandTypes, ABundle
    <3>3. \A d \in CallIds : calls[d].token # b.token /\ calls[d].reply.token # b.token
      BY <1>8, <3>1, NamedIssued, HandTypes, ABundle
    <3> QED BY <1>2, <1>3, <1>4, <3>1, <3>2, <3>3, ABundle
  <2> QED BY <2>1, <2>2 DEF PrivateInv
<1>11. ReplyInv'
  <2>1. ASSUME NEW d \in CallIds
        PROVE  /\ calls'[d].state # "answered" => calls'[d].reply = NoBundle
               /\ calls'[d].kind = "redeem" /\ calls'[d].reply # NoBundle
                  => calls'[d].reply.token = calls'[d].token
               /\ calls'[d].token # 0 => tokens'[calls'[d].token].status # "none"
    <3>1. calls[d].token # 0 => tokens'[calls[d].token].status # "none"
      BY <1>5, <1>8, HandTypes, NamedIssued DEF Kept
    <3>2. CASE d # c
      BY <1>4, <1>8, <3>1, <3>2 DEF ReplyInv
    <3>3. CASE d = c
      BY <1>3, <1>6, <3>1, <3>3
    <3> QED BY <3>2, <3>3
  <2>2. ASSUME NEW a \in InHand' PROVE a.granted <= Cardinality(codes')
    <3>1. a \in InHand \cup {NoBundle, b}
      BY <1>2, <1>3, <1>4 DEF InHand
    <3>2. CASE a \in InHand
      <4>1. a \in Bundles \cup {NoBundle}
        BY <3>2, InHandBundles
      <4> QED BY <1>7, <1>8, <3>2, <4>1, ABundle DEF ReplyInv
    <3> QED BY <1>6, <1>7, <3>1, <3>2, ABundle
  <2> QED BY <2>1, <2>2 DEF ReplyInv
<1>12. GenerationInv'
  <2> SUFFICES ASSUME refreshing # 0
               PROVE  LET call == calls'[refreshing] IN
                      /\ bundle # NoBundle
                      /\ call.token = bundle.token /\ call.from = bundle.issue
                      /\ call.reply # NoBundle =>
                            /\ tokens'[call.reply.token].family = tokens'[bundle.token].family
                            /\ call.reply.granted >= bundle.granted
    BY <1>2 DEF GenerationInv
  <2> DEFINE call == calls[refreshing]
  <2>1. /\ refreshing \in CallIds /\ call.kind = "refresh" /\ call.state \in {"sent", "answered"}
        /\ bundle # NoBundle
        /\ call.token = bundle.token /\ call.from = bundle.issue
        /\ call.reply # NoBundle =>
              /\ tokens[call.reply.token].family = tokens[bundle.token].family
              /\ call.reply.granted >= bundle.granted
    BY <1>8, HandTypes DEF OpenRefreshes, Open, GenerationInv
  <2>2. tokens'[bundle.token].family = tokens[bundle.token].family
    BY <1>5, <1>8, <2>1, NamedIssued, HandTypes, ABundle DEF Kept
  <2>3. CASE refreshing # c
    <3>1. call.reply # NoBundle =>
             tokens'[call.reply.token].family = tokens[call.reply.token].family
      BY <1>5, <1>8, <2>1, NamedIssued, HandTypes, ABundle DEF Kept
    <3> QED BY <1>4, <2>1, <2>2, <2>3, <3>1
  <2>4. CASE refreshing = c
    <3>1. calls[c].state = "sent" /\ calls'[c].kind # "none"
      BY <1>2, <1>3, <2>1, <2>4
    <3>2. b # NoBundle =>
             /\ tokens'[b.token].family = tokens'[bundle.token].family
             /\ b.granted >= bundle.granted
      <4>1. bundle.granted <= Cardinality(codes) /\ bundle.granted \in Nat
        BY <1>8, HandTypes, ABundle DEF ReplyInv, InHand
      <4>2. b # NoBundle => tokens'[b.token].family = tokens[calls[c].token].family
        BY <1>6, <2>1, <2>4
      <4> QED BY <1>6, <1>7, <2>1, <2>2, <2>4, <4>1, <4>2
    <3> QED BY <1>3, <2>1, <2>4, <3>1, <3>2
  <2> QED BY <2>3, <2>4
<1>13. CurrentInv'
  <2> SUFFICES ASSUME ~disturbed
               PROVE  /\ \A d \in CallIds : calls'[d].kind = "refresh" => calls'[d].state \in {"sent", "answered"}
                      /\ bundle # NoBundle =>
                            /\ \A d \in OpenRefreshes' : calls'[d].token = bundle.token => d = refreshing
                            /\ refreshing = 0 \/ calls'[refreshing].reply = NoBundle
                               => tokens'[bundle.token].status # "rotated"
    BY <1>2 DEF CurrentInv
  <2>1. /\ \A d \in CallIds : calls[d].kind = "refresh" => calls[d].state \in {"sent", "answered"}
        /\ bundle # NoBundle =>
              /\ \A d \in OpenRefreshes : calls[d].token = bundle.token => d = refreshing
              /\ refreshing = 0 \/ calls[refreshing].reply = NoBundle
                 => tokens[bundle.token].status # "rotated"
    BY <1>8 DEF CurrentInv
  <2>2. \A d \in CallIds : calls'[d].kind = "refresh" => calls'[d].state \in {"sent", "answered"}
    BY <1>3, <1>4, <2>1
  <2>3. \A d \in OpenRefreshes' : d \in OpenRefreshes /\ calls'[d].token = calls[d].token
    BY <1>2, <1>3, <1>4, <2>1 DEF OpenRefreshes, Open
  <2>4. ASSUME bundle # NoBundle, refreshing = 0 \/ calls'[refreshing].reply = NoBundle,
               tokens'[bundle.token].status = "rotated"
        PROVE  FALSE
    <3>1. refreshing = 0 \/ calls[refreshing].reply = NoBundle
      <4>1. calls[c].state # "answered" /\ calls[c].reply = NoBundle
        BY <1>2, <1>8 DEF ReplyInv
      <4>2. refreshing \in {0} \cup CallIds
        BY HandTypes DEF OpenRefreshes
      <4> QED BY <1>4, <2>4, <4>1, <4>2
    <3>2. bundle.token \in Tokens /\ tokens[bundle.token].status \notin {"none", "rotated"}
      BY <1>8, <2>1, <2>4, <3>1, NamedIssued, HandTypes, ABundle
    <3>3. calls[c].kind = "refresh" /\ b # NoBundle /\ calls[c].token = bundle.token
      BY <1>5, <2>4, <3>2 DEF RotatesOnly
    <3>4. c \in OpenRefreshes /\ calls[c].state = "sent"
      BY <1>2, <2>1, <3>3 DEF OpenRefreshes, Open
    <3>5. c = refreshing
      BY <2>1, <2>4, <3>3, <3>4
    <3>6. calls'[c].reply = b
      BY <1>3, <3>4
    <3> QED BY <2>4, <3>3, <3>5, <3>6, HandTypes
  <2> QED BY <2>1, <2>2, <2>3, <2>4
<1> QED BY <1>10, <1>11, <1>12, <1>13 DEF HandInv

\* A request is sent, with no credential or with the client's.
LEMMA SendHands ==
    ASSUME IInv, AccessInv, HandInv, NEW c \in CallIds,
           Login(c) \/ Tick(c) \/ Logout(c) \/ \E code \in Codes : Redeem(c, code)
    PROVE  HandInv'
<1>1. PrivateInv /\ ReplyInv /\ GenerationInv /\ CurrentInv
  BY DEF HandInv
<1>2. PICK kind \in Kinds, token \in {0, bundle.token}, code \in Codes \cup {"none"} : Send(c, kind, token, code)
  BY DEF Login, Tick, Logout, Redeem, Kinds
<1> DEFINE new == [kind |-> kind, state |-> "sent", token |-> token, from |-> bundle.issue,
                   code |-> code, reply |-> NoBundle]
<1>3. /\ calls'[c] = new /\ calls[c].state = "unused"
      /\ \A d \in CallIds \ {c} : calls'[d] = calls[d]
  BY <1>2 DEF Send, IInv, TypeOK
<1>4. /\ calls'[c].reply = NoBundle /\ calls'[c].token \in {0, bundle.token}
      /\ calls'[c].from = bundle.issue /\ calls'[c].state = "sent"
  BY <1>2, <1>3
<1>5. \/ UNCHANGED refreshing /\ calls'[c].kind # "refresh"
      \/ /\ calls'[c].kind = "refresh" /\ calls'[c].token = bundle.token
         /\ bundle # NoBundle /\ refreshing = 0 /\ refreshing' = c
  <2>1. CASE Tick(c)
    <3>1. calls'[c].kind = "refresh" /\ calls'[c].token = bundle.token
      BY <2>1 DEF Tick, Send, IInv, TypeOK
    <3> QED BY <2>1, <3>1 DEF Tick, MayRefresh
  <2>2. CASE Login(c)
    BY <2>2 DEF Login, Send, IInv, TypeOK, clientVars
  <2>3. CASE Logout(c)
    BY <2>3 DEF Logout, Send, IInv, TypeOK, clientVars
  <2>4. CASE \E k \in Codes : Redeem(c, k)
    BY <2>4 DEF Redeem, Send, IInv, TypeOK, clientVars
  <2> QED BY <2>1, <2>2, <2>3, <2>4
<1>6. UNCHANGED <<tokens, codes, bundle, disturbed>>
  BY DEF Login, Tick, Logout, Redeem, serverVars, clientVars
<1> HIDE DEF new
<1>7. PrivateInv'
  <2> SUFFICES ASSUME NEW e \in CallIds, IsNew(e)'
               PROVE  LET t == calls'[e].reply.token IN
                      /\ tokens'[t].status # "rotated" /\ bundle'.token # t
                      /\ \A d \in CallIds : calls'[d].token # t /\ (d # e => calls'[d].reply.token # t)
    BY DEF PrivateInv
  <2>1. e # c /\ calls'[e] = calls[e] /\ IsNew(e)
    BY <1>3, <1>4 DEF IsNew
  <2>2. calls[e].reply.token \in Tokens
    BY <2>1, HandTypes, ABundle DEF IsNew
  <2> QED BY <1>1, <1>3, <1>4, <1>6, <2>1, <2>2, ABundle DEF PrivateInv
<1>8. ReplyInv'
  <2>1. calls'[c].token # 0 => tokens'[calls'[c].token].status # "none"
    BY <1>1, <1>4, <1>6, HandTypes, NamedIssued, ABundle
  <2>2. InHand' \subseteq InHand \cup {NoBundle}
    BY <1>3, <1>4, <1>6 DEF InHand
  <2>3. Cardinality(codes) \in Nat
    BY <1>6, CodesGrow DEF IInv, TypeOK
  <2> QED BY <1>1, <1>3, <1>4, <1>6, <2>1, <2>2, <2>3, ABundle DEF ReplyInv
<1>9. GenerationInv'
  BY <1>1, <1>3, <1>4, <1>5, <1>6, HandTypes DEF GenerationInv, OpenRefreshes, Open
<1>10. CurrentInv'
  <2> SUFFICES ASSUME ~disturbed
               PROVE  /\ \A d \in CallIds : calls'[d].kind = "refresh" => calls'[d].state \in {"sent", "answered"}
                      /\ bundle # NoBundle =>
                            /\ \A d \in OpenRefreshes' : calls'[d].token = bundle.token => d = refreshing'
                            /\ refreshing' = 0 \/ calls'[refreshing'].reply = NoBundle
                               => tokens[bundle.token].status # "rotated"
    BY <1>6 DEF CurrentInv
  <2>1. \A d \in CallIds : calls'[d].kind = "refresh" => calls'[d].state \in {"sent", "answered"}
    BY <1>1, <1>3, <1>4 DEF CurrentInv
  <2>2. ASSUME bundle # NoBundle, NEW d \in OpenRefreshes', calls'[d].token = bundle.token
        PROVE  d = refreshing'
    <3>1. d # c => d \in OpenRefreshes /\ calls[d].token = bundle.token
      BY <1>3, <2>2 DEF OpenRefreshes, Open
    <3>2. d # c => d = refreshing
      BY <1>1, <2>2, <3>1 DEF CurrentInv
    <3>3. d = c => calls'[c].kind = "refresh"
      BY <2>2 DEF OpenRefreshes
    <3>4. d \in CallIds
      BY <2>2 DEF OpenRefreshes
    <3> QED BY <1>5, <3>2, <3>3, <3>4, HandTypes
  <2>3. ASSUME bundle # NoBundle, refreshing' = 0 \/ calls'[refreshing'].reply = NoBundle
        PROVE  tokens[bundle.token].status # "rotated"
    <3>1. refreshing = 0 \/ calls[refreshing].reply = NoBundle
      BY <1>3, <1>5, <2>3, HandTypes DEF OpenRefreshes, Open
    <3> QED BY <1>1, <2>3, <3>1 DEF CurrentInv
  <2> QED BY <2>1, <2>2, <2>3
<1> QED BY <1>7, <1>8, <1>9, <1>10 DEF HandInv

\* These requests are over, or nobody waits for them any more; they have no reply.
Finished(cs) ==
    /\ \A d \in CallIds \ cs : calls'[d] = calls[d]
    /\ \A d \in cs :
          /\ calls'[d].kind \in {"none", calls[d].kind} /\ calls'[d].token \in {0, calls[d].token}
          /\ calls'[d].reply = NoBundle /\ calls'[d].state \in {"orphan", "over"}

LEMMA ReceivedFinished ==
    ASSUME IInv, NEW c \in CallIds, calls' = [calls EXCEPT ![c] = Over]
    PROVE  Finished({c}) /\ calls'[c].kind = "none"
<1>1. Over.token = 0 /\ Over.reply = NoBundle /\ Over.kind = "none" /\ Over.state = "over"
  BY DEF Over, Unused
<1>2. calls'[c] = Over /\ \A d \in CallIds \ {c} : calls'[d] = calls[d]
  BY DEF IInv, TypeOK
<1> QED BY <1>1, <1>2 DEF Finished

LEMMA AbandonedFinished ==
    ASSUME IInv, HandInv, NEW cs \in SUBSET CallIds, calls' = Abandoned(cs)
    PROVE  Finished(cs)
<1>1. Over.token = 0 /\ Over.reply = NoBundle /\ Over.kind = "none" /\ Over.state = "over"
  BY DEF Over, Unused
<1>2. ASSUME NEW d \in cs, calls[d].state = "sent"
      PROVE  /\ calls'[d].kind = calls[d].kind /\ calls'[d].token = calls[d].token
             /\ calls'[d].reply = NoBundle /\ calls'[d].state = "orphan"
  <2>1. calls'[d] = [calls[d] EXCEPT !.state = "orphan"]
    BY <1>2 DEF Abandoned
  <2>2. calls[d] \in Call /\ calls[d].reply = NoBundle
    BY <1>2, HandTypes DEF HandInv, ReplyInv
  <2> QED BY <2>1, <2>2 DEF Call
<1>3. ASSUME NEW d \in cs, calls[d].state # "sent" PROVE calls'[d] = Over
  BY <1>3 DEF Abandoned
<1>4. \A d \in CallIds \ cs : calls'[d] = calls[d]
  BY DEF Abandoned
<1> QED BY <1>1, <1>2, <1>3, <1>4 DEF Finished

\* The replies that remain are private, also if the client keeps one of the finished ones.
LEMMA FinishedReplies ==
    ASSUME IInv, AccessInv, HandInv, NEW cs \in SUBSET CallIds, Finished(cs),
           UNCHANGED <<tokens, codes>>,
           bundle' \in {bundle, NoBundle} \cup {calls[c].reply : c \in cs}
    PROVE  PrivateInv' /\ ReplyInv'
<1>1. PrivateInv /\ ReplyInv
  BY DEF HandInv
<1>2. PrivateInv'
  <2> SUFFICES ASSUME NEW e \in CallIds, IsNew(e)'
               PROVE  LET t == calls'[e].reply.token IN
                      /\ tokens'[t].status # "rotated" /\ bundle'.token # t
                      /\ \A d \in CallIds : calls'[d].token # t /\ (d # e => calls'[d].reply.token # t)
    BY DEF PrivateInv
  <2> DEFINE t == calls[e].reply.token
  <2>1. e \notin cs /\ calls'[e] = calls[e] /\ IsNew(e)
    BY DEF IsNew, Finished
  <2>2. t \in Tokens
    BY <2>1, HandTypes, ABundle DEF IsNew
  <2>3. /\ tokens[t].status # "rotated" /\ bundle.token # t
        /\ \A d \in CallIds : calls[d].token # t /\ (d # e => calls[d].reply.token # t)
    BY <1>1, <2>1 DEF PrivateInv
  <2>4. bundle'.token # t
    BY <2>1, <2>2, <2>3, ABundle
  <2>5. \A d \in CallIds : calls'[d].token # t /\ (d # e => calls'[d].reply.token # t)
    BY <2>2, <2>3, ABundle DEF Finished
  <2> QED BY <2>1, <2>3, <2>4, <2>5
<1>3. ReplyInv'
  <2>1. \A d \in CallIds : calls'[d].token # 0 => tokens'[calls'[d].token].status # "none"
    BY <1>1 DEF Finished, ReplyInv
  <2>2. InHand' \subseteq InHand \cup {NoBundle}
    BY DEF InHand, Finished
  <2>3. Cardinality(codes) \in Nat
    BY CodesGrow DEF IInv, TypeOK
  <2> QED BY <1>1, <2>1, <2>2, <2>3, ABundle DEF ReplyInv, Finished
<1> QED BY <1>2, <1>3

\* A request ends and the client keeps its bundle.  If that was the refresh under way, it
\* has rotated nothing, or its reply is lost and the client is disturbed.
LEMMA KeepsBundle ==
    ASSUME IInv, AccessInv, HandInv, NEW cs \in SUBSET CallIds, Finished(cs),
           UNCHANGED <<tokens, codes, bundle>>,
           refreshing' = IF refreshing \in cs THEN 0 ELSE refreshing,
           ~disturbed' => /\ ~disturbed
                          /\ \A d \in cs : calls'[d].kind # "refresh"
                          /\ refreshing \in cs => calls[refreshing].reply = NoBundle
    PROVE  HandInv'
<1>1. GenerationInv /\ CurrentInv
  BY DEF HandInv
<1>2. PrivateInv' /\ ReplyInv'
  BY FinishedReplies
<1>3. refreshing \in {0} \cup CallIds
  BY HandTypes DEF OpenRefreshes
<1>4. GenerationInv'
  BY <1>1, <1>3, HandTypes DEF GenerationInv, Finished
<1>5. CurrentInv'
  <2> SUFFICES ASSUME ~disturbed'
               PROVE  /\ \A d \in CallIds : calls'[d].kind = "refresh" => calls'[d].state \in {"sent", "answered"}
                      /\ bundle # NoBundle =>
                            /\ \A d \in OpenRefreshes' : calls'[d].token = bundle.token => d = refreshing'
                            /\ refreshing' = 0 \/ calls'[refreshing'].reply = NoBundle
                               => tokens[bundle.token].status # "rotated"
    BY DEF CurrentInv
  <2>1. /\ \A d \in CallIds : calls[d].kind = "refresh" => calls[d].state \in {"sent", "answered"}
        /\ bundle # NoBundle =>
              /\ \A d \in OpenRefreshes : calls[d].token = bundle.token => d = refreshing
              /\ refreshing = 0 \/ calls[refreshing].reply = NoBundle
                 => tokens[bundle.token].status # "rotated"
    BY <1>1 DEF CurrentInv
  <2>2. \A d \in CallIds : calls'[d].kind = "refresh" => calls'[d].state \in {"sent", "answered"}
    BY <2>1 DEF Finished
  <2>3. \A d \in OpenRefreshes' : d \in OpenRefreshes /\ d \notin cs /\ calls'[d] = calls[d]
    BY DEF OpenRefreshes, Open, Finished
  <2>4. refreshing' = 0 \/ calls'[refreshing'].reply = NoBundle
          => refreshing = 0 \/ calls[refreshing].reply = NoBundle
    BY <1>3 DEF Finished
  <2> QED BY <2>1, <2>2, <2>3, <2>4
<1> QED BY <1>2, <1>4, <1>5 DEF HandInv

\* The client has no bundle any more.
LEMMA LosesBundle ==
    ASSUME IInv, AccessInv, HandInv, NEW cs \in SUBSET CallIds, Finished(cs),
           UNCHANGED <<tokens, codes, disturbed>>, Stored(NoBundle),
           \A d \in cs : calls'[d].kind # "refresh"
    PROVE  HandInv'
<1>1. PrivateInv' /\ ReplyInv'
  BY FinishedReplies DEF Stored
<1>2. GenerationInv' /\ CurrentInv'
  BY DEF Stored, GenerationInv, CurrentInv, Finished, HandInv
<1> QED BY <1>1, <1>2 DEF HandInv

\* The client takes the bundle of a reply: its credential is a new one that nobody else
\* presents, or the one of a redemption that nobody uses up.
LEMMA TakesBundle ==
    ASSUME IInv, AccessInv, HandInv, NEW c \in CallIds, calls' = [calls EXCEPT ![c] = Over],
           calls[c].reply # NoBundle, Stored(calls[c].reply), UNCHANGED <<tokens, codes>>,
           ~disturbed' => /\ ~disturbed
                          /\ IsNew(c) \/ (calls[c].kind = "redeem" /\ ~Overlapped(c))
    PROVE  HandInv'
<1> DEFINE b == calls[c].reply
           cs == {c}
<1>1. PrivateInv /\ ReplyInv /\ CurrentInv
  BY DEF HandInv
<1>2. Finished(cs) /\ calls'[c].kind = "none"
  BY ReceivedFinished
<1>3. b \in Bundles /\ bundle' = b /\ refreshing' = 0
  BY HandTypes DEF Stored
<1>4. PrivateInv' /\ ReplyInv'
  BY <1>2, <1>3, FinishedReplies
<1>5. GenerationInv'
  BY <1>3 DEF GenerationInv
<1>6. CurrentInv'
  <2> SUFFICES ASSUME ~disturbed'
               PROVE  /\ \A d \in CallIds : calls'[d].kind = "refresh" => calls'[d].state \in {"sent", "answered"}
                      /\ \A d \in OpenRefreshes' : calls'[d].token # b.token
                      /\ tokens[b.token].status # "rotated"
    BY <1>3 DEF CurrentInv
  <2>1. \A d \in CallIds : calls'[d].kind = "refresh" => calls'[d].state \in {"sent", "answered"}
    BY <1>1, <1>2 DEF CurrentInv, Finished
  <2>2. \A d \in OpenRefreshes' : d \in OpenRefreshes /\ calls'[d] = calls[d]
    BY <1>2 DEF OpenRefreshes, Open, Finished
  <2>3. CASE IsNew(c)
    <3>1. tokens[b.token].status # "rotated" /\ \A d \in CallIds : calls[d].token # b.token
      BY <1>1, <2>3 DEF PrivateInv
    <3> QED BY <2>1, <2>2, <3>1 DEF OpenRefreshes
  <2>4. CASE calls[c].kind = "redeem" /\ ~Overlapped(c)
    <3>1. b.token = calls[c].token /\ bundle.token = b.token
          /\ \A d \in OpenRefreshes : calls[d].token # b.token
      BY <1>1, <2>4 DEF ReplyInv, Overlapped
    <3>2. bundle # NoBundle
      BY <1>3, <3>1, ABundle
    <3>3. refreshing = 0
      BY <3>1, <3>2, HandTypes DEF HandInv, GenerationInv
    <3>4. tokens[b.token].status # "rotated"
      BY <1>1, <3>1, <3>2, <3>3 DEF CurrentInv
    <3> QED BY <2>1, <2>2, <3>1, <3>4
  <2> QED BY <2>3, <2>4
<1> QED BY <1>4, <1>5, <1>6 DEF HandInv

\* The tokens are revoked, or time passes.
LEMMA TokensHands ==
    ASSUME IInv, AccessInv, HandInv, UNCHANGED <<codes, calls, clientVars>>,
           Kept, RotatesOnly({})
    PROVE  HandInv'
<1>1. PrivateInv /\ ReplyInv /\ GenerationInv /\ CurrentInv
  BY DEF HandInv
<1>2. UNCHANGED <<codes, calls, bundle, refreshing, disturbed>>
  BY DEF clientVars
<1>3. \A r \in Tokens : /\ tokens[r].status # "none" => tokens'[r].status # "none" /\ tokens'[r].family = tokens[r].family
                        /\ tokens[r].status \notin {"none", "rotated"} => tokens'[r].status # "rotated"
  BY DEF Kept, RotatesOnly
<1>4. \A d \in CallIds : calls[d].reply # NoBundle =>
          calls[d].reply.token \in Tokens /\ tokens[calls[d].reply.token].status # "none"
  BY <1>1, HandTypes, NamedIssued, ABundle
<1>5. bundle # NoBundle => bundle.token \in Tokens /\ tokens[bundle.token].status # "none"
  BY <1>1, HandTypes, NamedIssued, ABundle
<1>6. PrivateInv'
  BY <1>1, <1>2, <1>3, <1>4 DEF PrivateInv, IsNew
<1>7. ReplyInv'
  BY <1>1, <1>2, <1>3, HandTypes DEF ReplyInv, InHand
<1>8. GenerationInv'
  BY <1>1, <1>2, <1>3, <1>4, <1>5, HandTypes DEF GenerationInv, OpenRefreshes
<1>9. CurrentInv'
  BY <1>1, <1>2, <1>3, <1>5 DEF CurrentInv, OpenRefreshes, Open
<1> QED BY <1>6, <1>7, <1>8, <1>9 DEF HandInv

LEMMA InitHands == Init => HandInv
<1> SUFFICES ASSUME Init PROVE HandInv
  OBVIOUS
<1>1. \A c \in CallIds : /\ calls[c].kind = "none" /\ calls[c].token = 0
                         /\ calls[c].reply = NoBundle
  BY DEF Init, Unused
<1>2. bundle = NoBundle /\ refreshing = 0 /\ codes = {}
  BY DEF Init
<1>3. InHand \subseteq {NoBundle} /\ Cardinality(codes) = 0
  BY <1>1, <1>2, FS_EmptySet DEF InHand
<1> QED BY <1>1, <1>2, <1>3, ABundle
       DEF HandInv, PrivateInv, IsNew, ReplyInv, GenerationInv, CurrentInv

\* The end of a request.
LEMMA EndHands ==
    ASSUME IInv, AccessInv, HandInv, NEW c \in CallIds, Receive(c) \/ GiveUp(c)
    PROVE  HandInv'
<1> DEFINE cs == {c}
<1>1. UNCHANGED <<tokens, codes>>
  BY DEF Receive, GiveUp, serverVars
<1>2. refreshing \in {0} \cup OpenRefreshes /\ calls[c].reply \in Bundles \cup {NoBundle}
  BY HandTypes
<1>3. CASE Receive(c)
  <2> DEFINE b == calls[c].reply
  <2>1. calls' = [calls EXCEPT ![c] = Over] /\ Ended(c, b)
    BY <1>3 DEF Receive
  <2>2. Finished(cs) /\ \A d \in cs : calls'[d].kind # "refresh"
    BY <2>1, ReceivedFinished
  <2>3. CASE calls[c].kind = "refresh" /\ Refreshed(c, b) /\ UNCHANGED disturbed
    <3>1. CASE b # NoBundle /\ Current(c)
      <4>1. Stored(b) /\ IsNew(c)
        BY <2>3, <3>1 DEF Refreshed, Current, Stored, IsNew
      <4> QED BY <1>1, <2>1, <2>3, <3>1, <4>1, TakesBundle
    <3>2. CASE b = NoBundle \/ ~Current(c)
      <4>1. UNCHANGED bundle /\ refreshing' = IF refreshing \in cs THEN 0 ELSE refreshing
        BY <2>3, <3>2 DEF Refreshed
      <4>2. refreshing = c => b = NoBundle
        <5>1. refreshing = c => bundle.issue = calls[c].from
          BY HandTypes DEF HandInv, GenerationInv
        <5> QED BY <3>2, <5>1 DEF Current
      <4> QED BY <1>1, <2>2, <2>3, <4>1, <4>2, KeepsBundle
    <3> QED BY <3>1, <3>2
  <2>4. CASE calls[c].kind = "logout" /\ Stored(NoBundle) /\ UNCHANGED disturbed
    BY <1>1, <2>2, <2>4, LosesBundle
  <2>5. CASE /\ calls[c].kind \in {"login", "redeem"} /\ b # NoBundle /\ Stored(b)
             /\ disturbed' = (disturbed \/ (calls[c].kind = "redeem" /\ Overlapped(c)))
    <3>1. ~disturbed' => /\ ~disturbed
                         /\ IsNew(c) \/ (calls[c].kind = "redeem" /\ ~Overlapped(c))
      BY <2>5 DEF IsNew
    <3> QED BY <1>1, <2>1, <2>5, <3>1, TakesBundle
  <2>6. CASE calls[c].kind \in {"login", "redeem"} /\ UNCHANGED clientVars
    <3>1. refreshing \notin cs
      BY <1>2, <2>6, HandTypes DEF OpenRefreshes
    <3> QED BY <1>1, <2>2, <2>6, <3>1, KeepsBundle DEF clientVars
  <2> QED BY <2>1, <2>3, <2>4, <2>5, <2>6 DEF Ended
<1>4. CASE GiveUp(c)
  <2>1. calls' = Abandoned(cs)
    BY <1>4 DEF GiveUp
  <2>2. Finished(cs)
    BY <2>1, AbandonedFinished
  <2>3. CASE Refreshed(c, NoBundle) /\ disturbed' = TRUE
    <3>1. UNCHANGED bundle /\ refreshing' = IF refreshing \in cs THEN 0 ELSE refreshing
      BY <2>3 DEF Refreshed
    <3> QED BY <1>1, <2>2, <2>3, <3>1, KeepsBundle
  <2>4. CASE calls[c].kind # "refresh" /\ Ended(c, NoBundle)
    <3>1. \A d \in cs : calls'[d].kind # "refresh"
      BY <2>2, <2>4 DEF Finished
    <3>2. refreshing \notin cs
      BY <1>2, <2>4, HandTypes DEF OpenRefreshes
    <3>3. CASE Stored(NoBundle) /\ UNCHANGED disturbed
      BY <1>1, <2>2, <3>1, <3>3, LosesBundle
    <3>4. CASE UNCHANGED clientVars
      BY <1>1, <2>2, <3>1, <3>2, <3>4, KeepsBundle DEF clientVars
    <3> QED BY <2>4, <3>3, <3>4 DEF Ended
  <2> QED BY <1>4, <2>3, <2>4 DEF GiveUp
<1> QED BY <1>3, <1>4

LEMMA NextHands == IInv /\ AccessInv /\ HandInv /\ [Next]_vars => HandInv'
<1> SUFFICES ASSUME IInv, AccessInv, HandInv, [Next]_vars PROVE HandInv'
  OBVIOUS
<1>1. TableInv
  BY DEF IInv
<1>2. UNCHANGED tokens => Kept /\ RotatesOnly({})
  BY DEF Kept, RotatesOnly
<1>3. CASE UNCHANGED vars
  BY <1>2, <1>3, TokensHands DEF vars, serverVars
<1>4. ASSUME NEW c \in CallIds, Handle(c) PROVE HandInv'
  BY <1>4, HandleHands
<1>5. ASSUME NEW c \in CallIds,
             Login(c) \/ Tick(c) \/ Logout(c) \/ \E code \in Codes : Redeem(c, code)
      PROVE  HandInv'
  BY <1>5, SendHands
<1>6. ASSUME NEW c \in CallIds, Receive(c) \/ GiveUp(c) PROVE HandInv'
  BY <1>6, EndHands
<1>7. CASE Clear
  <2> DEFINE cs == {}
  <2>1. Finished(cs) /\ Stored(NoBundle) /\ UNCHANGED <<tokens, codes, disturbed>>
    BY <1>7 DEF Clear, serverVars, Finished
  <2> QED BY <2>1, LosesBundle
<1>8. CASE Restart
  <2> DEFINE cs == {c \in CallIds : Open(c)}
  <2>1. /\ cs \in SUBSET CallIds /\ calls' = Abandoned(cs) /\ refreshing' = 0
        /\ disturbed' = (disturbed \/ OpenRefreshes # {})
        /\ UNCHANGED <<tokens, codes, bundle>>
    BY <1>8 DEF Restart, serverVars
  <2>2. \A d \in cs : Open(d)
    OBVIOUS
  <2>3. OpenRefreshes \subseteq cs
    BY DEF OpenRefreshes
  <2> HIDE DEF cs
  <2>4. Finished(cs)
    BY <2>1, AbandonedFinished
  <2>5. refreshing' = IF refreshing \in cs THEN 0 ELSE refreshing
    BY <2>1, <2>3, HandTypes
  <2>6. ~disturbed' => ~disturbed /\ OpenRefreshes = {}
    BY <2>1
  <2>7. ~disturbed' => \A d \in cs : calls'[d].kind # "refresh"
    <3> SUFFICES ASSUME ~disturbed', NEW d \in cs, calls'[d].kind = "refresh" PROVE FALSE
      OBVIOUS
    <3>1. calls[d].kind = "refresh" /\ Open(d) /\ d \in CallIds
      BY <2>1, <2>2, <2>4 DEF Finished
    <3> QED BY <2>6, <3>1 DEF OpenRefreshes
  <2>8. ~disturbed' => (refreshing \in cs => calls[refreshing].reply = NoBundle)
    BY <2>1, <2>6, HandTypes
  <2> QED BY <2>1, <2>4, <2>5, <2>6, <2>7, <2>8, KeepsBundle
<1>9. CASE SetStatus
  <2>1. AllActive \in SUBSET Tokens
    BY DEF AllActive
  <2>2. Kept /\ RotatesOnly({})
    BY <1>1, <1>2, <1>9, <2>1, RevokedKept DEF SetStatus
  <2> QED BY <1>9, <2>2, TokensHands DEF SetStatus
<1>10. CASE EndSession
  <2>1. PICK ts \in {AllActive} \cup {{t} : t \in AllActive} : tokens' = Revoked(ts)
    BY <1>10 DEF EndSession
  <2>2. ts \in SUBSET Tokens
    BY DEF AllActive
  <2> QED BY <1>1, <1>10, <2>1, <2>2, RevokedKept, TokensHands DEF EndSession
<1>11. CASE PassTime
  BY <1>2, <1>11, TokensHands DEF PassTime, serverVars
<1> QED BY <1>3, <1>4, <1>5, <1>6, <1>7, <1>8, <1>9, <1>10, <1>11 DEF Next

LEMMA HandsInductive == Spec => [](IInv /\ AccessInv /\ HandInv)
BY Inductive, InitAccess, NextAccess, InitHands, NextHands, PTL DEF Spec

\* The client's credential is not one that it has used up (licenseScheduler.js,
\* rotateRefreshSession): unless a reply to a refresh was lost or a redemption overlapped
\* a refresh, its next refresh is not taken for a theft.
THEOREM CredentialIsCurrent == Spec => []ClientTokenCurrent
<1>1. IInv /\ AccessInv /\ HandInv => ClientTokenCurrent
  <2> SUFFICES ASSUME IInv, HandInv, ~disturbed, bundle # NoBundle,
                      refreshing = 0 \/ calls[refreshing].state = "sent"
               PROVE  tokens[bundle.token].status # "rotated"
    BY DEF ClientTokenCurrent
  <2>1. refreshing = 0 \/ calls[refreshing].reply = NoBundle
    BY HandTypes DEF HandInv, ReplyInv, OpenRefreshes
  <2> QED BY <2>1 DEF HandInv, CurrentInv
<1> QED BY <1>1, HandsInductive, PTL

\* A refresh that comes back late changes nothing that has happened meanwhile
\* (maybeRefresh's check of the generation and the version).
THEOREM RefreshesAreNeverStale == Spec => RefreshNeverStale
<1>1. ASSUME IInv, AccessInv, HandInv, Next, NEW c \in CallIds, calls[c].kind = "refresh",
             Open(c), calls'[c] = Over, bundle' # bundle
      PROVE  /\ NoBundle \notin {bundle, bundle'}
             /\ tokens[bundle'.token].family = tokens[bundle.token].family
             /\ bundle'.granted >= bundle.granted
  <2>1. calls'[c] # calls[c]
    BY <1>1 DEF Over, Unused
  <2>2. PICK d \in CallIds : Receive(d) \/ GiveUp(d)
    BY <1>1, <2>1 DEF Next, Login, Tick, Logout, Redeem, Handle, Clear, Restart, SetStatus,
       EndSession, PassTime, clientVars
  <2>3. d = c
    <3>1. CASE Receive(d)
      BY <2>1, <3>1 DEF Receive, IInv, TypeOK
    <3>2. CASE GiveUp(d)
      BY <2>1, <3>2 DEF GiveUp, Abandoned
    <3> QED BY <2>2, <3>1, <3>2
  <2>4. ~GiveUp(c)
    BY <1>1 DEF GiveUp, Refreshed
  <2>5. Refreshed(c, calls[c].reply)
    BY <1>1, <2>2, <2>3, <2>4 DEF Receive, Ended
  <2>6. bundle' = calls[c].reply /\ calls[c].reply # NoBundle /\ refreshing = c
    BY <1>1, <2>5 DEF Refreshed, Current
  <2> QED BY <1>1, <2>6, HandTypes DEF HandInv, GenerationInv
<1>2. IInv /\ AccessInv /\ HandInv /\ [Next]_vars =>
        [\A c \in CallIds :
          calls[c].kind = "refresh" /\ Open(c) /\ calls'[c] = Over /\ bundle' # bundle
          => /\ NoBundle \notin {bundle, bundle'}
             /\ tokens[bundle'.token].family = tokens[bundle.token].family
             /\ bundle'.granted >= bundle.granted]_vars
  BY <1>1
<1> QED BY <1>2, HandsInductive, PTL DEF Spec, RefreshNeverStale

===============================================================================
