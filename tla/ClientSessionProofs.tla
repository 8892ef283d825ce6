------------------------- MODULE ClientSessionProofs -------------------------
(***************************************************************************)
(* What holds of the mobile session for any businesses, any number of      *)
(* calls in flight, any number of tokens and any circumstances.            *)
(*                                                                         *)
(* A step is described field by field first (Shapes); the invariants are   *)
(* proved from the descriptions.  SafeInv holds whatever may go wrong, and *)
(* CalmInv as long as changes of the session meet no other call.           *)
(***************************************************************************)
EXTENDS ClientSession, TLAPS

\* Who switches or creates names a business.
TargetInv ==
  \A r \in Requests : req[r].kind \in Creations \cup {"switch"} => req[r].target \in Businesses

TypeInv == TypeOK /\ TargetInv

-----------------------------------------------------------------------------
LEMMA ZeroIsToken == 0 \in Tokens /\ NoBusiness \in Scopes
  BY SessionAssumption DEF Tokens, Scopes

LEMMA NoneIsTyped == NoRequest \in RequestType /\ NoRefresh \in RefreshType
  BY ZeroIsToken DEF NoRequest, RequestType, NoRefresh, RefreshType, Stages

LEMMA RequestUpdates ==
  ASSUME NEW q \in RequestType
  PROVE  /\ \A s \in Stages : [q EXCEPT !.st = s] \in RequestType
         /\ Rejected(q) \in RequestType
         /\ \A t \in Tokens : Resent(q, t) \in RequestType
         /\ \A s \in Stages, t \in Tokens, b \in Scopes :
              [q EXCEPT !.st = s, !.result = t, !.runs = q.runs + 1, !.ranIn = b] \in RequestType
  <1>1. "failed" \in Stages /\ "sent" \in Stages
    BY DEF Stages
  <1>2. \A s \in Stages : [q EXCEPT !.st = s] \in RequestType
    BY DEF RequestType
  <1>3. Rejected(q) \in RequestType
    BY <1>1, <1>2 DEF Rejected
  <1>4. \A t \in Tokens : Resent(q, t) \in RequestType
    BY <1>1 DEF RequestType, Resent
  <1>5. ASSUME NEW s \in Stages, NEW t \in Tokens, NEW b \in Scopes
        PROVE  [q EXCEPT !.st = s, !.result = t, !.runs = q.runs + 1, !.ranIn = b] \in RequestType
    <2>1. q.runs + 1 \in Nat
      BY DEF RequestType
    <2> QED BY <2>1 DEF RequestType
  <1> QED BY <1>2, <1>3, <1>4, <1>5

LEMMA StoreUpdates ==
  ASSUME NEW s \in StoreType
  PROVE  /\ [s EXCEPT !.status = "loading"] \in StoreType
         /\ [s EXCEPT !.unlocked = s.access] \in StoreType
         /\ \A on \in BOOLEAN : [s EXCEPT !.biometric = on, !.unlocked = 0] \in StoreType
         /\ [s EXCEPT !.status = "idle", !.profile = NoBusiness, !.checked = 0, !.unlocked = 0] \in StoreType
  BY ZeroIsToken DEF StoreType

LEMMA PairIsTyped ==
  ASSUME NEW s \in StoreType, NEW t \in Tokens, scope \in [Tokens -> Scopes],
         position \in [Businesses -> MemberRoles]
  PROVE  WithPair(s, t) \in StoreType
  <1>1. Role(scope[t]) \in Roles /\ scope[t] \in Scopes
    BY DEF Role, Roles, MemberRoles, Scopes
  <1> QED BY <1>1, ZeroIsToken DEF StoreType, WithPair

LEMMA AccessIsTyped ==
  ASSUME NEW s \in StoreType, NEW t \in Tokens, NEW b \in Scopes, NEW role \in Roles
  PROVE  WithAccess(s, t, b, role) \in StoreType
  BY ZeroIsToken DEF StoreType, WithAccess

LEMMA ProfileIsTyped ==
  ASSUME NEW s \in StoreType, NEW b \in Scopes
  PROVE  /\ WithProfile(s, b) \in StoreType
         /\ [WithProfile(s, b) EXCEPT !.checked = s.access] \in StoreType
  BY ZeroIsToken DEF StoreType, WithProfile

LEMMA ClearedIsTyped ==
  ASSUME NEW s \in StoreType
  PROVE  /\ Cleared(s) \in StoreType
         /\ \A on \in BOOLEAN : [Cleared(s) EXCEPT !.biometric = on] \in StoreType
  BY ZeroIsToken DEF StoreType, Cleared, Roles

\* What the types say of the fields.
LEMMA Fields ==
  ASSUME TypeInv
  PROVE  /\ store \in StoreType /\ refresh \in RefreshType
         /\ store.access \in Tokens /\ store.refresh \in Tokens
         /\ store.business \in Scopes /\ store.role \in Roles
         /\ refresh.with \in Tokens /\ refresh.pair \in Tokens
         /\ scope \in [Tokens -> Scopes] /\ presented \in [Tokens -> 0..2]
         /\ issued \in Tokens /\ primary \in Scopes
         /\ \A r \in Requests :
              /\ req[r] \in RequestType
              /\ req[r].st \in Stages /\ req[r].kind \in Kinds \cup {"none"}
              /\ req[r].token \in Tokens /\ req[r].held \in Tokens
              /\ req[r].asked \in Scopes /\ req[r].target \in Scopes
              /\ req[r].result \in Tokens /\ req[r].ranIn \in Scopes
              /\ req[r].retried \in BOOLEAN /\ req[r].runs \in Nat
  BY DEF TypeInv, TypeOK, StoreType, RefreshType, RequestType

LEMMA TypeInit == Init => TypeInv
  <1> SUFFICES ASSUME Init PROVE TypeInv
    OBVIOUS
  <1>1. store \in StoreType
    BY ZeroIsToken DEF Init, StoreType, Roles
  <1>2. req \in [Requests -> RequestType] /\ refresh \in RefreshType
    BY NoneIsTyped DEF Init
  <1>3. issued \in Tokens /\ scope \in [Tokens -> Scopes] /\ presented \in [Tokens -> 0..2]
    BY ZeroIsToken DEF Init
  <1>4. primary \in Scopes /\ members \subseteq Businesses /\ screen \in Screens
    BY SessionAssumption DEF Init, Scopes, Screens
  <1>0. position \in [Businesses -> MemberRoles]
    BY SessionAssumption DEF Init, MemberRoles
  <1>5. TypeOK
    BY <1>0, <1>1, <1>2, <1>3, <1>4 DEF Init, TypeOK
  <1>6. TargetInv
    BY DEF Init, TargetInv, NoRequest, Creations
  <1> QED BY <1>5, <1>6 DEF TypeInv

\* A request that is sent.
LEMMA SendTyped ==
  ASSUME TypeInv, NEW r \in Requests, NEW kind \in Kinds, NEW target \in Scopes,
         NEW held \in Tokens, kind \in Creations \cup {"switch"} => target \in Businesses,
         Send(r, kind, target, held)
  PROVE  req' \in [Requests -> RequestType] /\ TargetInv'
  <1> DEFINE q == [NoRequest EXCEPT !.st = "sent", !.kind = kind, !.token = store.access,
                         !.asked = store.business, !.target = target, !.held = held]
  <1>1. "sent" \in Stages /\ store.access \in Tokens /\ store.business \in Scopes
    BY Fields DEF Stages
  <1>2. q \in RequestType
    BY NoneIsTyped, <1>1 DEF RequestType, NoRequest
  <1>3. q.kind = kind /\ q.target = target
    BY DEF NoRequest
  <1>4. req' = [req EXCEPT ![r] = q]
    BY DEF Send
  <1> HIDE DEF q
  <1> QED BY <1>2, <1>3, <1>4 DEF TypeInv, TypeOK, TargetInv

LEMMA AsksTyped ==
  ASSUME TypeInv, NEW r \in Requests, Asks(r)
  PROVE  TypeInv'
  <1>1. /\ UNCHANGED <<refresh, serverVars, screen, world, wanted>>
        /\ store' \in {store, [store EXCEPT !.status = "loading"]}
        /\ \E kind \in Kinds, target \in Scopes, held \in Tokens :
             /\ kind \in Creations \cup {"switch"} => target \in Businesses
             /\ Send(r, kind, target, held)
    <2>1. CASE Work(r) \/ ValidateStoredSession(r) \/ RefreshOnForeground(r)
      BY <2>1, Fields, ZeroIsToken
         DEF Work, ValidateStoredSession, RefreshOnForeground, Kinds, Creations
    <2>2. CASE VerifyOtp(r) \/ Logout(r)
      BY <2>2, Fields, ZeroIsToken DEF VerifyOtp, Logout, Kinds, Creations
    <2>3. ASSUME NEW b \in Businesses, SwitchBusiness(r, b) \/ CreateBusiness(r, b) \/ AddBusiness(r, b)
          PROVE  /\ UNCHANGED <<store, refresh, serverVars, screen, world, wanted>>
                 /\ \E kind \in Kinds : Send(r, kind, b, 0)
      BY <2>3 DEF SwitchBusiness, CreateBusiness, AddBusiness, Kinds
    <2> QED BY <2>1, <2>2, <2>3, ZeroIsToken DEF Asks, Scopes
  <1>2. req' \in [Requests -> RequestType] /\ TargetInv'
    BY <1>1, SendTyped
  <1>3. store' \in StoreType
    <2>1. [store EXCEPT !.status = "loading"] \in StoreType
      BY Fields, StoreUpdates
    <2> QED BY <1>1, <2>1, Fields
  <1> QED BY <1>1, <1>2, <1>3 DEF TypeInv, TypeOK, serverVars

\* A request whose stage changes.
LEMMA MarkTyped ==
  ASSUME TypeInv, NEW r \in Requests, NEW s \in Stages, req' = [req EXCEPT ![r].st = s]
  PROVE  req' \in [Requests -> RequestType] /\ TargetInv'
  <1>1. [req[r] EXCEPT !.st = s] \in RequestType
    BY Fields, RequestUpdates
  <1>2. req' = [req EXCEPT ![r] = [req[r] EXCEPT !.st = s]]
    BY DEF TypeInv, TypeOK
  <1>3. [req[r] EXCEPT !.st = s].kind = req[r].kind /\ [req[r] EXCEPT !.st = s].target = req[r].target
    BY Fields DEF RequestType
  <1> QED BY <1>1, <1>2, <1>3 DEF TypeInv, TypeOK, TargetInv

LEMMA RejectQueueTyped ==
  ASSUME TypeInv, NEW S \in SUBSET Requests,
         req' = [q \in Requests |-> IF q \in S THEN Rejected(req[q]) ELSE req[q]]
  PROVE  req' \in [Requests -> RequestType] /\ TargetInv'
  <1>1. \A q \in Requests : Rejected(req[q]) \in RequestType
    BY Fields, RequestUpdates
  <1>2. \A q \in Requests : Rejected(req[q]).kind = req[q].kind /\ Rejected(req[q]).target = req[q].target
    BY Fields DEF RequestType, Rejected
  <1> QED BY <1>1, <1>2 DEF TypeInv, TypeOK, TargetInv

LEMMA ServeTyped ==
  ASSUME TypeInv, NEW r \in Requests, Serve(r)
  PROVE  TypeInv'
  <1>0. req[r].kind \in Creations \cup {"switch"} => req[r].target \in Businesses
    BY DEF TypeInv, TargetInv
  <1>1. issued' \in Tokens /\ scope' \in [Tokens -> Scopes]
    <2>1. CASE UNCHANGED <<issued, scope>>
      BY <2>1, Fields
    <2>2. ASSUME NEW b \in Scopes, Issue(b)
          PROVE  issued' \in Tokens /\ scope' \in [Tokens -> Scopes]
      <3>1. world \in Worlds
        BY DEF TypeInv, TypeOK
      <3>2. world.tokens \in Nat /\ world.tokens <= MaxTokens /\ MaxTokens \in Nat
        BY <3>1, SessionAssumption
      <3>3. issued + 1 \in Tokens
        BY <2>2, <3>2, Fields DEF Issue, Tokens
      <3> QED BY <2>2, <3>3, Fields DEF Issue
    <2> QED BY <2>1, <2>2, <1>0, Fields DEF Serve, Scopes
  <1>2. scope[req[r].token] \in Scopes /\ "ok" \in Stages
    BY Fields DEF Stages
  <1>3. [req[r] EXCEPT !.st = "ok", !.result = issued', !.runs = req[r].runs + 1, !.ranIn = scope[req[r].token]] \in RequestType
    BY <1>1, <1>2, Fields, RequestUpdates
  <1>4. req' = [req EXCEPT ![r] = [req[r] EXCEPT !.st = "ok", !.result = issued', !.runs = req[r].runs + 1, !.ranIn = scope[req[r].token]]]
    BY DEF TypeInv, TypeOK, Serve
  <1>5. req'[r].kind = req[r].kind /\ req'[r].target = req[r].target
    BY <1>4, Fields DEF RequestType
  <1>6. req' \in [Requests -> RequestType]
    BY <1>3, <1>4 DEF TypeInv, TypeOK
  <1>7. TargetInv'
    BY <1>4, <1>5 DEF TypeInv, TypeOK, TargetInv
  <1>8. members' \subseteq Businesses /\ primary' \in Scopes /\ revoked' \subseteq Tokens
    BY <1>0, Fields DEF Serve, TypeInv, TypeOK
  <1>9. position' \in [Businesses -> MemberRoles]
    BY <1>0 DEF Serve, TypeInv, TypeOK, MemberRoles
  <1> QED BY <1>1, <1>6, <1>7, <1>8, <1>9 DEF Serve, TypeInv, TypeOK

LEMMA AnswersTyped ==
  ASSUME TypeInv, NEW r \in Requests, Answers(r) \/ Lose(r) \/ Intercepts(r)
  PROVE  TypeInv'
  <1>1. {"unauthorized", "failed", "queued", "refreshing"} \subseteq Stages
    BY DEF Stages
  <1>2. CASE Refuse(r) \/ Decline(r) \/ Lose(r) \/ WaitForRefresh(r)
    <2>1. req' \in [Requests -> RequestType] /\ TargetInv'
      BY <1>1, <1>2, MarkTyped DEF Refuse, Decline, Lose, WaitForRefresh
    <2> QED BY <2>1, <1>2 DEF Refuse, Decline, Lose, WaitForRefresh, TypeInv, TypeOK, serverVars
  <1>3. CASE GiveUp(r)
    <2>1. req' = [q \in Requests |-> IF q \in {r} THEN Rejected(req[q]) ELSE req[q]]
      BY <1>3 DEF GiveUp, TypeInv, TypeOK
    <2>2. req' \in [Requests -> RequestType] /\ TargetInv'
      BY <2>1, RejectQueueTyped
    <2> QED BY <2>2, <1>3 DEF GiveUp, TypeInv, TypeOK, serverVars
  <1>4. CASE StartRefresh(r)
    <2>1. req' \in [Requests -> RequestType] /\ TargetInv'
      BY <1>1, <1>4, MarkTyped DEF StartRefresh
    <2>2. refresh' \in RefreshType
      BY <1>4, Fields, ZeroIsToken DEF StartRefresh, RefreshType
    <2> QED BY <2>1, <2>2, <1>4 DEF StartRefresh, TypeInv, TypeOK, serverVars
  <1>5. CASE NoRefreshToken(r)
    <2>1. req' = [q \in Requests |-> IF q \in {p \in Requests : p = r \/ req[p].st = "queued"}
                                    THEN Rejected(req[q]) ELSE req[q]]
      BY <1>5 DEF NoRefreshToken, RejectQueue
    <2>2. req' \in [Requests -> RequestType] /\ TargetInv'
      BY <2>1, RejectQueueTyped
    <2>3. store' \in StoreType /\ screen' \in Screens
      BY <1>5, Fields, ClearedIsTyped DEF NoRefreshToken, ClearExpiredSession, Screens
    <2> QED BY <2>2, <2>3, <1>5 DEF NoRefreshToken, TypeInv, TypeOK, serverVars
  <1>6. CASE Serve(r)
    BY <1>6, ServeTyped
  <1> QED BY <1>2, <1>3, <1>4, <1>5, <1>6 DEF Answers, Intercepts

LEMMA HandlesTyped ==
  ASSUME TypeInv, NEW r \in Requests, Handles(r)
  PROVE  TypeInv'
  <1>1. ASSUME Free(r)
        PROVE  req' \in [Requests -> RequestType] /\ TargetInv'
    BY <1>1, NoneIsTyped DEF Free, NoRequest, TypeInv, TypeOK, TargetInv, Creations
  <1>2. CASE EndWork(r) \/ TapFailed(r)
    <2>1. wanted' \subseteq Scopes
      BY <1>2, Fields DEF EndWork, TapFailed, TypeInv, TypeOK
    <2> QED BY <2>1, <1>1, <1>2 DEF EndWork, TapFailed, TypeInv, TypeOK, serverVars
  <1>3. CASE SessionValidated(r) \/ ForegroundRefreshed(r)
    <2>0. /\ WithProfile(store, Bootstrap(r)) \in StoreType
          /\ [WithProfile(store, Bootstrap(r)) EXCEPT !.checked = store.access] \in StoreType
      BY Fields, ProfileIsTyped DEF Bootstrap
    <2>1. store' \in StoreType
      BY <1>3, <2>0, Fields DEF SessionValidated, ForegroundRefreshed
    <2> QED BY <2>1, <1>1, <1>3
          DEF SessionValidated, ForegroundRefreshed, TypeInv, TypeOK, serverVars
  <1>4. CASE SessionInvalid(r)
    <2>1. store' \in StoreType /\ screen' \in Screens
      BY <1>4, Fields, ClearedIsTyped DEF SessionInvalid, ClearExpiredSession, Screens,
         TypeInv, TypeOK
    <2> QED BY <2>1, <1>1, <1>4 DEF SessionInvalid, TypeInv, TypeOK, serverVars
  <1>5. CASE OtpVerified(r)
    <2>1. store' \in StoreType /\ screen' \in Screens /\ wanted' \subseteq Scopes
      BY <1>5, Fields, PairIsTyped DEF OtpVerified, Screens, Wizard, TypeInv, TypeOK
    <2> QED BY <2>1, <1>1, <1>5 DEF OtpVerified, TypeInv, TypeOK, serverVars
  <1>6. CASE BusinessSwitched(r)
    <2>1. store' \in StoreType /\ wanted' \subseteq Scopes
      BY <1>6, Fields, PairIsTyped DEF BusinessSwitched, TypeInv, TypeOK
    <2> QED BY <2>1, <1>1, <1>6 DEF BusinessSwitched, TypeInv, TypeOK, serverVars
  <1>7. CASE BusinessCreated(r) \/ BusinessAdded(r)
    <2>1. "owner" \in Roles
      BY DEF Roles, MemberRoles
    <2>2. \A role \in Roles : WithAccess(store, req[r].result, req[r].target, role) \in StoreType
      BY Fields, AccessIsTyped
    <2>4. store' \in StoreType
      <3>1. store' = WithAccess(store, req[r].result, req[r].target, "owner")
            \/ store' = WithAccess(store, req[r].result, req[r].target, store.role)
        BY <1>7 DEF BusinessCreated, BusinessAdded
      <3> QED BY <2>1, <2>2, <3>1, Fields
    <2>3. wanted' \subseteq Scopes /\ screen' \in Screens
      BY <1>7, Fields DEF BusinessCreated, BusinessAdded, Screens, Wizard
    <2> QED BY <2>4, <2>3, <1>1, <1>7 DEF BusinessCreated, BusinessAdded, TypeInv, TypeOK,
       serverVars
  <1>8. CASE LoggedOut(r)
    <2>1. store' \in StoreType /\ screen' \in Screens /\ wanted' \subseteq Scopes
      BY <1>8, Fields, ClearedIsTyped DEF LoggedOut, Screens
    <2> QED BY <2>1, <1>1, <1>8 DEF LoggedOut, TypeInv, TypeOK, serverVars
  <1> QED BY <1>2, <1>3, <1>4, <1>5, <1>6, <1>7, <1>8 DEF Handles

LEMMA RefreshTyped ==
  ASSUME TypeInv, Refreshes \/ LoseRefresh
  PROVE  TypeInv'
  <1>1. CASE ServeRefresh
    <2>1. world \in Worlds
      BY DEF TypeInv, TypeOK
    <2>2. world.tokens \in Nat /\ world.tokens <= MaxTokens /\ MaxTokens \in Nat
      BY <2>1, SessionAssumption
    <2>3. ASSUME refresh.with \notin revoked
          PROVE  /\ issued' \in Tokens /\ scope' \in [Tokens -> Scopes]
                 /\ refresh' \in RefreshType
      <3>1. issued + 1 \in Tokens /\ issued' = issued + 1
        BY <1>1, <2>2, <2>3, Fields DEF ServeRefresh, Issue, Tokens
      <3>2. scope' \in [Tokens -> Scopes]
        BY <1>1, <2>3, Fields DEF ServeRefresh, Issue
      <3>3. refresh' = [refresh EXCEPT !.st = "granted", !.pair = issued + 1]
        BY <1>1, <2>3 DEF ServeRefresh
      <3>4. refresh' \in RefreshType
        BY <3>1, <3>3, Fields DEF RefreshType
      <3> QED BY <3>1, <3>2, <3>4
    <2>4. ASSUME refresh.with \in revoked
          PROVE  /\ issued' \in Tokens /\ scope' \in [Tokens -> Scopes]
                 /\ refresh' \in RefreshType
      BY <1>1, <2>4, Fields DEF ServeRefresh, RefreshType
    <2>5. presented' \in [Tokens -> 0..2] /\ revoked' \subseteq Tokens
      BY <1>1, Fields DEF ServeRefresh, TypeInv, TypeOK
    <2> QED BY <1>1, <2>3, <2>4, <2>5 DEF ServeRefresh, TypeInv, TypeOK, TargetInv
  <1>2. CASE LoseRefresh
    <2>1. refresh' \in RefreshType
      BY <1>2, Fields DEF LoseRefresh, RefreshType
    <2> QED BY <2>1, <1>2 DEF LoseRefresh, TypeInv, TypeOK, TargetInv, serverVars
  <1>3. CASE RefreshSucceeds
    <2>1. \A q \in Requests : Resent(req[q], refresh.pair) \in RequestType
      BY Fields, RequestUpdates
    <2>2. \A q \in Requests : /\ Resent(req[q], refresh.pair).kind = req[q].kind
                               /\ Resent(req[q], refresh.pair).target = req[q].target
      BY Fields DEF RequestType, Resent
    <2>3. req' \in [Requests -> RequestType] /\ TargetInv'
      BY <1>3, <2>1, <2>2 DEF RefreshSucceeds, TypeInv, TypeOK, TargetInv
    <2>4. store' \in StoreType /\ refresh' \in RefreshType
      BY <1>3, Fields, PairIsTyped, NoneIsTyped DEF RefreshSucceeds, TypeInv, TypeOK
    <2> QED BY <2>3, <2>4, <1>3 DEF RefreshSucceeds, TypeInv, TypeOK, serverVars
  <1>4. CASE RefreshFails
    <2>1. req' = [q \in Requests |-> IF q \in {p \in Requests : req[p].st \in {"queued", "refreshing"}}
                                    THEN Rejected(req[q]) ELSE req[q]]
      BY <1>4 DEF RefreshFails
    <2>2. req' \in [Requests -> RequestType] /\ TargetInv'
      BY <2>1, RejectQueueTyped
    <2>3. store' \in StoreType /\ screen' \in Screens /\ refresh' \in RefreshType
      BY <1>4, Fields, ClearedIsTyped, NoneIsTyped DEF RefreshFails, ClearExpiredSession,
         Screens
    <2> QED BY <2>2, <2>3, <1>4 DEF RefreshFails, TypeInv, TypeOK, serverVars
  <1> QED BY <1>1, <1>2, <1>3, <1>4 DEF Refreshes

\* A redirect, a step of the wizard or a way back.
Moves == BackToPhone \/ Redirects \/ LinkWallet \/ SubmitKyc \/ ChoosePlan \/ Back

LEMMA MovesShow ==
  ASSUME TypeInv, Moves
  PROVE  \E s \in Screens : ShowScreen(s)
  <1>1. AuthRedirect(screen) \in Screens /\ LayoutRedirect(screen) \in Screens
    BY DEF TypeInv, TypeOK, Screens, Wizard, AuthRedirect, LayoutRedirect, OwnerGuard,
       AgentGuard
  <1>2. {"login", "kyc", "plan", "owner", "business", "momo"} \subseteq Screens
    BY DEF Screens, Wizard
  <1> QED BY <1>1, <1>2 DEF Moves, BackToPhone, Redirects, RootRedirects, LayoutRedirects,
     LinkWallet,
       SubmitKyc, ChoosePlan, Back, Step

LEMMA TypeStep == TypeInv /\ [Next]_vars => TypeInv'
  <1> SUFFICES ASSUME TypeInv, [Next]_vars PROVE TypeInv'
    OBVIOUS
  <1>1. ASSUME NEW r \in Requests, Asks(r) \/ Answers(r) \/ Lose(r) \/ Intercepts(r) \/ Handles(r)
        PROVE  TypeInv'
    BY <1>1, AsksTyped, AnswersTyped, HandlesTyped
  <1>2. CASE Refreshes \/ LoseRefresh
    BY <1>2, RefreshTyped
  <1>3. CASE Moves
    BY <1>3, MovesShow DEF ShowScreen, TypeInv, TypeOK, TargetInv, serverVars
  <1>4. CASE RequestOtp
    BY <1>4 DEF RequestOtp, TypeInv, TypeOK, TargetInv, serverVars, Screens
  <1>5. CASE Expire
    BY <1>5, Fields DEF Expire, TypeInv, TypeOK, TargetInv
  <1>6. CASE SignOut
    <2>1. (Unlocked /\ store.biometric) \in BOOLEAN
      OBVIOUS
    <2>2. store' \in StoreType
      BY <1>6, <2>1, Fields, ClearedIsTyped DEF SignOut
    <2> QED BY <2>2, <1>6 DEF SignOut, TypeInv, TypeOK, TargetInv, serverVars, Screens
  <1>7. CASE Restart
    <2>1. req' \in [Requests -> RequestType] /\ TargetInv'
      BY <1>7, NoneIsTyped DEF Restart, TargetInv, NoRequest, Creations
    <2>2. wanted' \subseteq Scopes
      BY <1>7, Fields DEF Restart, TypeInv, TypeOK
    <2>3. store' \in StoreType /\ screen' \in Screens /\ refresh' \in RefreshType
      BY <1>7, Fields, StoreUpdates, NoneIsTyped DEF Restart, Screens
    <2> QED BY <1>7, <2>1, <2>2, <2>3 DEF Restart, TypeInv, TypeOK, serverVars
  <1>8. CASE Unlock \/ \E on \in BOOLEAN : SetBiometric(on)
    <2>0. /\ [store EXCEPT !.unlocked = store.access] \in StoreType
          /\ \A on \in BOOLEAN : [store EXCEPT !.biometric = on, !.unlocked = 0] \in StoreType
      BY Fields, StoreUpdates
    <2>1. store' \in StoreType
      BY <1>8, <2>0 DEF Unlock, SetBiometric
    <2> QED BY <1>8, <2>1 DEF Unlock, SetBiometric, TypeInv, TypeOK, TargetInv, serverVars
  <1>9. CASE UNCHANGED vars
    BY <1>9 DEF vars, serverVars, TypeInv, TypeOK, TargetInv
  <1> QED BY <1>1, <1>2, <1>3, <1>4, <1>5, <1>6, <1>7, <1>8, <1>9 DEF Next, Moves

\* The session's parts keep their types.
THEOREM SessionTypeCorrect == Spec => []TypeOK
  <1>1. TypeInv => TypeOK
    BY DEF TypeInv
  <1> QED BY TypeInit, TypeStep, <1>1, PTL DEF Spec

\* The redirects are a function of the store and of the screen.
LEMMA Settles == TypeOK => RedirectsSettle
  <1> SUFFICES ASSUME TypeOK PROVE RedirectsSettle
    OBVIOUS
  <1>1. store.role \in Roles /\ screen \in Screens
    BY DEF TypeOK, StoreType
  <1>2. AuthRedirect(screen) \in Screens
    BY <1>1 DEF AuthRedirect, Screens, Wizard
  <1>3. \A from \in Screens : LET there == AuthRedirect(LayoutRedirect(from))
      IN  AuthRedirect(there) = there /\ LayoutRedirect(there) = there
    BY <1>1 DEF Screens, Wizard, Roles, AuthRedirect, LayoutRedirect, OwnerGuard, AgentGuard,
       hasBusinessContext, isAuthenticated
  <1> QED BY <1>1, <1>2, <1>3 DEF RedirectsSettle

\* For any store and screen: the guards of the layouts agree on a screen to
\* which the user is sent and where he stays.
THEOREM RedirectsAgree == Spec => []RedirectsSettle
  BY SessionTypeCorrect, Settles, PTL

-----------------------------------------------------------------------------
(* What a step does, field by field.  The invariants below are proved from   *)
(* these descriptions and not from the actions.                              *)

Sessions == {"verify", "switch", "create", "add", "logout"}
Issuing == {"verify", "switch", "create", "add"}

OthersKept(r) == \A q \in Requests \ {r} : req'[q] = req[q]

\* All of a request but its stage.
Alike(q) ==
  /\ req'[q].kind = req[q].kind /\ req'[q].token = req[q].token
  /\ req'[q].asked = req[q].asked /\ req'[q].target = req[q].target
  /\ req'[q].held = req[q].held /\ req'[q].retried = req[q].retried
  /\ req'[q].result = req[q].result /\ req'[q].runs = req[q].runs
  /\ req'[q].ranIn = req[q].ranIn

Rejects(S) ==
  /\ \A q \in S : Alike(q) /\ req'[q].st = "failed"
  /\ \A q \in Requests \ S : req'[q] = req[q]

Frees(r) ==
  /\ OthersKept(r)
  /\ req'[r].st = "idle" /\ req'[r].kind = "none" /\ req'[r].token = 0 /\ req'[r].held = 0
  /\ req'[r].result = 0 /\ ~req'[r].retried /\ req'[r].runs = 0

SameTokens ==
  /\ store'.access = store.access /\ store'.refresh = store.refresh
  /\ store'.business = store.business

SameProfile ==
  /\ store'.status = store.status /\ store'.profile = store.profile
  /\ store'.checked = store.checked

Emptied ==
  /\ store'.access = 0 /\ store'.refresh = 0 /\ store'.business = NoBusiness
  /\ store'.checked = 0 /\ store'.status = "idle"

Rests ==
  /\ SameTokens /\ SameProfile
  /\ UNCHANGED <<req, refresh, serverVars, world, wanted>>

Sends(r) ==
  /\ OthersKept(r)
  /\ req[r].st = "idle" /\ req'[r].st = "sent" /\ req'[r].kind \in Kinds
  /\ req'[r].token = store.access /\ req'[r].asked = store.business
  /\ ~req'[r].retried /\ req'[r].result = 0 /\ req'[r].runs = 0
  /\ req'[r].held \in {0, store.access, store.refresh}
  /\ req'[r].kind = "work" => store.business # NoBusiness
  /\ req'[r].kind = "validate" =>
       isAuthenticated /\ ~Mounted /\ req'[r].held = store.access
  /\ req'[r].kind \in {"work", "foreground"} => isAuthenticated /\ MayCall
  /\ req'[r].kind \in Sessions => MayOverlap /\ Mounted
  /\ req'[r].kind = "create" => store.business = NoBusiness \/ May("second_business")
  /\ req'[r].kind = "add" => May("second_business")
  /\ req'[r].kind \in Creations \cup {"switch"} => req'[r].target \in Businesses
  /\ SameTokens
  /\ store'.status \in {store.status, "loading"}
  /\ store'.profile = store.profile /\ store'.checked = store.checked
  /\ UNCHANGED <<refresh, serverVars, world, wanted>>

Marks(r) ==
  /\ OthersKept(r) /\ Alike(r)
  /\ \/ /\ req[r].st = "sent" /\ req'[r].st = "unauthorized"
        /\ NeedsToken(req[r].kind) /\ (req[r].token = 0 \/ req[r].token \in expired)
     \/ req[r].st \in {"sent", "ok"} /\ req'[r].st = "failed"
     \/ req[r].st = "unauthorized" /\ req[r].retried /\ req'[r].st = "failed"
     \/ /\ req[r].st = "unauthorized" /\ ~req[r].retried /\ refresh.st # "none"
        /\ req'[r].st = "queued"
  /\ UNCHANGED <<store, refresh, serverVars, world, wanted>>

Serves(r) ==
  /\ OthersKept(r)
  /\ req[r].st = "sent" /\ req'[r].st = "ok"
  /\ req'[r].kind = req[r].kind /\ req'[r].token = req[r].token
  /\ req'[r].asked = req[r].asked /\ req'[r].target = req[r].target
  /\ req'[r].held = req[r].held /\ req'[r].retried = req[r].retried
  /\ req'[r].result = issued' /\ req'[r].runs = req[r].runs + 1
  /\ req'[r].ranIn = scope[req[r].token]
  /\ NeedsToken(req[r].kind) => req[r].token # 0 /\ req[r].token \notin expired
  /\ req[r].kind \in Issuing =>
       Issue(IF req[r].kind = "verify" THEN primary ELSE req[r].target)
  /\ req[r].kind \notin Issuing => UNCHANGED <<issued, scope>>
  /\ req[r].kind \in Creations =>
       /\ members = {} \/ May("second_business")
       /\ members' # {}
       /\ primary' = IF primary = NoBusiness THEN req[r].target ELSE primary
  /\ req[r].kind \notin Creations => UNCHANGED <<members, primary>>
  /\ UNCHANGED <<store, refresh, expired, presented, world, wanted>>

StartsRefresh(r) ==
  /\ OthersKept(r) /\ Alike(r)
  /\ req[r].st = "unauthorized" /\ ~req[r].retried /\ req'[r].st = "refreshing"
  /\ refresh.st = "none" /\ store.refresh # 0
  /\ refresh'.st = "sent" /\ refresh'.with = store.refresh /\ refresh'.pair = 0
  /\ UNCHANGED <<store, serverVars, world, wanted>>

Grants ==
  /\ refresh.st = "sent" /\ refresh'.st = "granted" /\ refresh'.with = refresh.with
  /\ refresh'.pair = issued + 1
  /\ Issue(IF scope[refresh.with] = NoBusiness THEN primary ELSE scope[refresh.with])
  /\ presented' = [presented EXCEPT ![refresh.with] = IF presented[refresh.with] = 0 THEN 1 ELSE 2]
  /\ UNCHANGED <<store, req, expired, primary, members, world, wanted>>

Refuses ==
  /\ refresh.st \in {"sent", "granted"} /\ refresh'.st = "refused"
  /\ refresh'.with = refresh.with /\ refresh'.pair = refresh.pair
  /\ \/ refresh.st = "sent" /\ presented' =
          [presented EXCEPT ![refresh.with] = IF presented[refresh.with] = 0 THEN 1 ELSE 2]
     \/ UNCHANGED presented
  /\ UNCHANGED <<store, req, issued, scope, expired, primary, members, world, wanted>>

Waits(q) == req[q].st \in {"queued", "refreshing"}

Resends ==
  /\ refresh.st = "granted" /\ refresh'.st = "none" /\ refresh'.with = 0 /\ refresh'.pair = 0
  /\ store'.access = refresh.pair /\ store'.refresh = refresh.pair
  /\ store'.business = scope[refresh.pair]
  /\ store'.checked = store.checked /\ store'.status = "idle"
  /\ \A q \in Requests : ~Waits(q) => req'[q] = req[q]
  /\ \A q \in Requests : Waits(q) =>
       /\ req'[q].st = "sent" /\ req'[q].token = refresh.pair /\ req'[q].retried
       /\ req'[q].kind = req[q].kind /\ req'[q].asked = req[q].asked
       /\ req'[q].target = req[q].target /\ req'[q].held = req[q].held
       /\ req'[q].result = req[q].result /\ req'[q].runs = req[q].runs
       /\ req'[q].ranIn = req[q].ranIn
  /\ UNCHANGED <<serverVars, world, wanted>>

\* The session is over: no refresh token, a refresh that failed, an error of
\* the bootstrap, or a log-out.
Clears ==
  /\ Emptied
  /\ \/ /\ refresh.st = "none" /\ UNCHANGED <<refresh, wanted>>
        /\ \E r \in Requests : req[r].st = "unauthorized"
             /\ Rejects({q \in Requests : q = r \/ req[q].st = "queued"})
     \/ /\ refresh.st = "refused" /\ refresh'.st = "none" /\ refresh'.with = 0
        /\ refresh'.pair = 0 /\ UNCHANGED wanted
        /\ Rejects({q \in Requests : Waits(q)})
     \/ /\ UNCHANGED <<refresh, wanted>>
        /\ \E r \in Requests : Frees(r) /\ req[r].kind = "validate" /\ req[r].st = "failed"
     \/ /\ UNCHANGED refresh /\ wanted' = {}
        /\ \E r \in Requests : Frees(r) /\ req[r].kind = "logout" /\ req[r].st \in {"ok", "failed"}
     \/ UNCHANGED <<refresh, req>> /\ wanted' = {} /\ MayOverlap
  /\ UNCHANGED <<serverVars, world>>

Ends(r) ==
  /\ Frees(r) /\ req[r].st \in {"ok", "failed"} /\ req[r].kind # "logout"
  /\ SameTokens
  /\ \/ SameProfile
     \/ /\ req[r].kind = "validate" /\ req[r].st = "ok" /\ req[r].held = store.access
        /\ store'.status = "ready" /\ store'.profile = req[r].ranIn
        /\ store'.checked = store.access
     \/ /\ req[r].kind = "foreground" /\ req[r].st = "ok"
        /\ store'.status = "ready" /\ store'.profile = req[r].ranIn
        /\ store'.checked = store.checked
  /\ wanted' = IF req[r].kind \in Creations THEN wanted \cup {req[r].target} ELSE wanted
  /\ UNCHANGED <<refresh, serverVars, world>>

SignsIn(r) ==
  /\ Frees(r) /\ req[r].st = "ok" /\ req[r].kind \in {"verify", "switch"}
  /\ store'.access = req[r].result /\ store'.refresh = req[r].result
  /\ store'.business = scope[req[r].result]
  /\ store'.checked = store.checked /\ store'.status = "idle"
  /\ wanted' = {IF req[r].kind = "verify" THEN scope[req[r].result] ELSE req[r].target}
  /\ UNCHANGED <<refresh, serverVars, world>>

Creates(r) ==
  /\ Frees(r) /\ req[r].st = "ok" /\ req[r].kind \in Creations
  /\ store'.access = req[r].result /\ store'.refresh = store.refresh
  /\ store'.business = req[r].target
  /\ store'.checked = store.checked /\ store'.status = "idle"
  /\ wanted' = {req[r].target}
  /\ UNCHANGED <<refresh, serverVars, world>>

Expires ==
  /\ store.access # 0 /\ expired' = expired \cup {store.access}
  /\ May("overlap") \/ \A r \in Requests : ~req[r].retried
  /\ UNCHANGED <<store, req, refresh, issued, scope, presented, primary, members,
                 world, wanted>>

Restarts ==
  /\ May("restart")
  /\ SameTokens /\ store'.status = "idle" /\ store'.checked = 0
  /\ \A r \in Requests :
       /\ req'[r].st = "idle" /\ req'[r].kind = "none" /\ req'[r].token = 0 /\ req'[r].held = 0
       /\ req'[r].result = 0 /\ ~req'[r].retried /\ req'[r].runs = 0
  /\ refresh'.st = "none" /\ refresh'.with = 0 /\ refresh'.pair = 0
  /\ wanted' = IF isAuthenticated
               THEN wanted \cup {req[r].target : r \in {q \in Requests : req[q].kind \in Creations}}
               ELSE wanted
  /\ UNCHANGED <<serverVars, world>>

AnyShape ==
  \/ Rests \/ Grants \/ Refuses \/ Resends \/ Clears \/ Expires \/ Restarts
  \/ \E r \in Requests :
       Sends(r) \/ Marks(r) \/ Serves(r) \/ StartsRefresh(r) \/ Ends(r) \/ SignsIn(r) \/ Creates(r)

LEMMA AskShape ==
  ASSUME TypeInv, NEW r \in Requests, Asks(r)
  PROVE  Sends(r)
  <1>1. ASSUME NEW kind, NEW target, NEW held, Send(r, kind, target, held)
        PROVE  /\ OthersKept(r)
               /\ req[r].st = "idle" /\ req'[r].st = "sent" /\ req'[r].kind = kind
               /\ req'[r].token = store.access /\ req'[r].asked = store.business
               /\ ~req'[r].retried /\ req'[r].result = 0 /\ req'[r].runs = 0
               /\ req'[r].held = held /\ req'[r].target = target
    BY <1>1 DEF Send, OthersKept, NoRequest, TypeInv, TypeOK
  <1>2. CASE Work(r) \/ RefreshOnForeground(r)
    BY <1>1, <1>2 DEF Work, RefreshOnForeground, Sends, Kinds, Sessions, Creations, SameTokens,
       SameProfile, hasBusinessContext
  <1>3. CASE ValidateStoredSession(r)
    <2>1. SameTokens /\ store'.status = "loading" /\ store'.profile = store.profile /\ store'.checked = store.checked
      BY <1>3, Fields DEF ValidateStoredSession, SameTokens, StoreType
    <2> QED BY <1>1, <1>3, <2>1 DEF ValidateStoredSession, Sends, Kinds, Sessions, Creations,
       Mounted
  <1>4. CASE VerifyOtp(r) \/ Logout(r)
    BY <1>1, <1>4 DEF VerifyOtp, Logout, Sends, Kinds, Sessions, Creations, SameTokens,
       SameProfile,
       Shown, Usable
  <1>5. ASSUME NEW b \in Businesses, SwitchBusiness(r, b) \/ CreateBusiness(r, b) \/ AddBusiness(r, b)
        PROVE  Sends(r)
    BY <1>1, <1>5 DEF SwitchBusiness, CreateBusiness, AddBusiness, Sends, Kinds, Sessions,
       Creations,
       SameTokens, SameProfile, Shown, Usable
  <1> QED BY <1>2, <1>3, <1>4, <1>5 DEF Asks

LEMMA MarkShape ==
  ASSUME TypeInv, NEW r \in Requests,
         Refuse(r) \/ Decline(r) \/ Lose(r) \/ GiveUp(r) \/ WaitForRefresh(r)
  PROVE  Marks(r)
  <1>1. ASSUME NEW s, req' = [req EXCEPT ![r].st = s]
        PROVE  OthersKept(r) /\ Alike(r) /\ req'[r].st = s
    BY <1>1, Fields DEF OthersKept, Alike, RequestType, TypeInv, TypeOK
  <1>2. CASE Refuse(r) \/ Decline(r) \/ Lose(r) \/ WaitForRefresh(r)
    BY <1>1, <1>2 DEF Refuse, Decline, Lose, WaitForRefresh, Marks
  <1>3. CASE GiveUp(r)
    <2>1. req' = [req EXCEPT ![r].st = "failed"]
      BY <1>3 DEF GiveUp, Rejected, TypeInv, TypeOK
    <2> QED BY <1>1, <1>3, <2>1 DEF GiveUp, Marks
  <1> QED BY <1>2, <1>3

LEMMA ServeShape ==
  ASSUME TypeInv, NEW r \in Requests, Serve(r)
  PROVE  Serves(r)
  <1>1. OthersKept(r)
    BY DEF Serve, OthersKept, TypeInv, TypeOK
  <1>2. /\ req[r].st = "sent" /\ req'[r].st = "ok"
        /\ req'[r].kind = req[r].kind /\ req'[r].token = req[r].token
        /\ req'[r].asked = req[r].asked /\ req'[r].target = req[r].target
        /\ req'[r].held = req[r].held /\ req'[r].retried = req[r].retried
        /\ req'[r].result = issued' /\ req'[r].runs = req[r].runs + 1
        /\ req'[r].ranIn = scope[req[r].token]
    BY Fields DEF Serve, RequestType, TypeInv, TypeOK
  <1>3. /\ req[r].kind \in Issuing =>
            Issue(IF req[r].kind = "verify" THEN primary ELSE req[r].target)
        /\ req[r].kind \notin Issuing => UNCHANGED <<issued, scope>>
    BY DEF Serve, Issuing, Creations
  <1> QED BY <1>1, <1>2, <1>3 DEF Serve, Serves, OverLimit

LEMMA RejectShape ==
  ASSUME TypeInv, NEW S \in SUBSET Requests,
         req' = [q \in Requests |-> IF q \in S THEN Rejected(req[q]) ELSE req[q]]
  PROVE  Rejects(S)
  BY Fields DEF Rejects, Rejected, Alike, RequestType

LEMMA EmptiedShape ==
  ASSUME TypeInv, NEW s, s = Cleared(store)
  PROVE  /\ s.access = 0 /\ s.refresh = 0 /\ s.business = NoBusiness
         /\ s.checked = 0 /\ s.status = "idle"
         /\ \A on : LET t == [s EXCEPT !.biometric = on] IN
              /\ t.access = 0 /\ t.refresh = 0 /\ t.business = NoBusiness
              /\ t.checked = 0 /\ t.status = "idle"
  BY Fields DEF Cleared, StoreType

LEMMA InterceptShape ==
  ASSUME TypeInv, NEW r \in Requests, Intercepts(r)
  PROVE  Marks(r) \/ StartsRefresh(r) \/ Clears
  <1>1. CASE GiveUp(r) \/ WaitForRefresh(r)
    BY <1>1, MarkShape
  <1>2. CASE NoRefreshToken(r)
    <2>1. Rejects({q \in Requests : q = r \/ req[q].st = "queued"})
      <3>1. req' = [q \in Requests |-> IF q \in {p \in Requests : p = r \/ req[p].st = "queued"}
                                    THEN Rejected(req[q]) ELSE req[q]]
        BY <1>2 DEF NoRefreshToken, RejectQueue
      <3> QED BY <3>1, RejectShape
    <2>2. Emptied
      BY <1>2, EmptiedShape DEF NoRefreshToken, ClearExpiredSession, Emptied
    <2> QED BY <1>2, <2>1, <2>2 DEF NoRefreshToken, Clears
  <1>3. CASE StartRefresh(r)
    <2>1. OthersKept(r) /\ Alike(r) /\ req'[r].st = "refreshing"
      BY <1>3, Fields DEF StartRefresh, OthersKept, Alike, RequestType, TypeInv, TypeOK
    <2> QED BY <1>3, <2>1 DEF StartRefresh, StartsRefresh
  <1> QED BY <1>1, <1>2, <1>3 DEF Intercepts

LEMMA FreeShape ==
  ASSUME TypeInv, NEW r \in Requests, Free(r)
  PROVE  Frees(r)
  BY DEF Free, Frees, OthersKept, NoRequest, TypeInv, TypeOK

LEMMA PairShape ==
  ASSUME TypeInv, NEW t \in Tokens, store' = WithPair(store, t)
  PROVE  /\ store'.access = t /\ store'.refresh = t /\ store'.business = scope[t]
         /\ store'.checked = store.checked /\ store'.status = "idle"
  BY Fields DEF WithPair, StoreType

LEMMA HandleShape ==
  ASSUME TypeInv, NEW r \in Requests, Handles(r)
  PROVE  Ends(r) \/ SignsIn(r) \/ Creates(r) \/ Clears
  <1>1. CASE EndWork(r) \/ TapFailed(r)
    BY <1>1, FreeShape DEF EndWork, TapFailed, Ends, Creations, SameTokens, SameProfile
  <1>2. CASE SessionValidated(r)
    <2>1. CASE Cancelled(r)
      BY <1>2, <2>1, FreeShape DEF SessionValidated, Ends, SameTokens, SameProfile, Creations
    <2>2. CASE ~Cancelled(r)
      <3>1. /\ SameTokens /\ store'.status = "ready" /\ store'.profile = req[r].ranIn
            /\ store'.checked = store.access
        BY <1>2, <2>2, Fields DEF SessionValidated, SameTokens, WithProfile, StoreType,
           Bootstrap
      <3> QED BY <1>2, <2>2, <3>1, FreeShape DEF SessionValidated, Ends, Cancelled, Creations
    <2> QED BY <2>1, <2>2
  <1>3. CASE SessionInvalid(r)
    <2>1. CASE Cancelled(r)
      BY <1>3, <2>1, FreeShape DEF SessionInvalid, Ends, SameTokens, SameProfile, Creations
    <2>2. CASE ~Cancelled(r)
      <3>1. Emptied
        BY <1>3, <2>2, EmptiedShape DEF SessionInvalid, ClearExpiredSession, Emptied
      <3> QED BY <1>3, <3>1, FreeShape DEF SessionInvalid, Clears
    <2> QED BY <2>1, <2>2
  <1>4. CASE ForegroundRefreshed(r)
    <2>1. CASE req[r].st = "ok"
      <3>1. /\ SameTokens /\ store'.status = "ready" /\ store'.profile = req[r].ranIn
            /\ store'.checked = store.checked
        BY <1>4, <2>1, Fields DEF ForegroundRefreshed, SameTokens, WithProfile, StoreType,
           Bootstrap
      <3> QED BY <1>4, <2>1, <3>1, FreeShape DEF ForegroundRefreshed, Ends, Creations
    <2>2. CASE req[r].st # "ok"
      BY <1>4, <2>2, FreeShape DEF ForegroundRefreshed, Ends, SameTokens, SameProfile, Creations
    <2> QED BY <2>1, <2>2
  <1>5. CASE OtpVerified(r)
    BY <1>5, FreeShape, PairShape, Fields DEF OtpVerified, SignsIn
  <1>6. CASE BusinessSwitched(r)
    BY <1>6, FreeShape, PairShape, Fields DEF BusinessSwitched, SignsIn
  <1>7. CASE BusinessCreated(r) \/ BusinessAdded(r)
    <2>1. /\ store'.access = req[r].result /\ store'.refresh = store.refresh
          /\ store'.business = req[r].target
          /\ store'.checked = store.checked /\ store'.status = "idle"
      BY <1>7, Fields DEF BusinessCreated, BusinessAdded, WithAccess, StoreType
    <2> QED BY <1>7, <2>1, FreeShape DEF BusinessCreated, BusinessAdded, Creates, Creations
  <1>8. CASE LoggedOut(r)
    <2>1. Emptied
      BY <1>8, EmptiedShape DEF LoggedOut, Emptied
    <2> QED BY <1>8, <2>1, FreeShape DEF LoggedOut, Clears
  <1> QED BY <1>1, <1>2, <1>3, <1>4, <1>5, <1>6, <1>7, <1>8 DEF Handles

LEMMA RefreshShape ==
  ASSUME TypeInv, Refreshes \/ LoseRefresh
  PROVE  Grants \/ Refuses \/ Resends \/ Clears
  <1>1. CASE ServeRefresh
    <2>1. CASE refresh.with \in revoked
      BY <1>1, <2>1, Fields DEF ServeRefresh, Refuses, RefreshType, TypeInv, TypeOK
    <2>2. CASE refresh.with \notin revoked
      <3>1. refresh'.st = "granted" /\ refresh'.with = refresh.with /\ refresh'.pair = issued + 1
        BY <1>1, <2>2, Fields DEF ServeRefresh, RefreshType
      <3> QED BY <1>1, <2>2, <3>1 DEF ServeRefresh, Grants
    <2> QED BY <2>1, <2>2
  <1>2. CASE LoseRefresh
    BY <1>2, Fields DEF LoseRefresh, Refuses, RefreshType, serverVars
  <1>3. CASE RefreshSucceeds
    <2>1. \A q \in Requests : ~Waits(q) => req'[q] = req[q]
      BY <1>3 DEF RefreshSucceeds, Waits
    <2>2. \A q \in Requests : Waits(q) =>
       /\ req'[q].st = "sent" /\ req'[q].token = refresh.pair /\ req'[q].retried
       /\ req'[q].kind = req[q].kind /\ req'[q].asked = req[q].asked
       /\ req'[q].target = req[q].target /\ req'[q].held = req[q].held
       /\ req'[q].result = req[q].result /\ req'[q].runs = req[q].runs
       /\ req'[q].ranIn = req[q].ranIn
      BY <1>3, Fields DEF RefreshSucceeds, Waits, Resent, RequestType
    <2> QED BY <1>3, <2>1, <2>2, PairShape, Fields DEF RefreshSucceeds, Resends, NoRefresh
  <1>4. CASE RefreshFails
    <2>1. Rejects({q \in Requests : Waits(q)})
      <3>1. req' = [q \in Requests |-> IF q \in {p \in Requests : Waits(p)}
                                    THEN Rejected(req[q]) ELSE req[q]]
        BY <1>4 DEF RefreshFails, Waits
      <3> QED BY <3>1, RejectShape
    <2>2. Emptied
      BY <1>4, EmptiedShape DEF RefreshFails, ClearExpiredSession, Emptied
    <2> QED BY <1>4, <2>1, <2>2 DEF RefreshFails, Clears, NoRefresh
  <1> QED BY <1>1, <1>2, <1>3, <1>4 DEF Refreshes

LEMMA Shapes ==
  ASSUME TypeInv, [Next]_vars
  PROVE  AnyShape
  <1>1. ASSUME NEW r \in Requests, Asks(r)
        PROVE  AnyShape
    BY <1>1, AskShape DEF AnyShape
  <1>2. ASSUME NEW r \in Requests, Answers(r) \/ Lose(r)
        PROVE  AnyShape
    BY <1>2, MarkShape, ServeShape DEF AnyShape, Answers
  <1>3. ASSUME NEW r \in Requests, Intercepts(r)
        PROVE  AnyShape
    BY <1>3, InterceptShape DEF AnyShape
  <1>4. ASSUME NEW r \in Requests, Handles(r)
        PROVE  AnyShape
    BY <1>4, HandleShape DEF AnyShape
  <1>5. CASE Refreshes \/ LoseRefresh
    BY <1>5, RefreshShape DEF AnyShape
  <1>6. CASE Moves
    BY <1>6, MovesShow DEF ShowScreen, AnyShape, Rests, SameTokens, SameProfile
  <1>7. CASE RequestOtp \/ UNCHANGED vars
    BY <1>7 DEF RequestOtp, vars, AnyShape, Rests, SameTokens, SameProfile
  <1>8. CASE Unlock \/ \E on \in BOOLEAN : SetBiometric(on)
    <2>1. SameTokens /\ SameProfile
      BY <1>8, Fields DEF Unlock, SetBiometric, SameTokens, SameProfile, StoreType
    <2> QED BY <1>8, <2>1 DEF Unlock, SetBiometric, AnyShape, Rests
  <1>9. CASE Expire
    BY <1>9 DEF Expire, Expires, AnyShape
  <1>10. CASE SignOut
    <2>1. Emptied
      BY <1>10, EmptiedShape DEF SignOut, Emptied
    <2> QED BY <1>10, <2>1 DEF SignOut, Clears, AnyShape
  <1>11. CASE Restart
    <2>1. SameTokens /\ store'.status = "idle" /\ store'.checked = 0
      BY <1>11, Fields DEF Restart, SameTokens, StoreType
    <2>2. \A r \in Requests : req'[r] = NoRequest
      BY <1>11 DEF Restart
    <2> QED BY <1>11, <2>1, <2>2 DEF Restart, Restarts, NoRequest, NoRefresh, AnyShape
  <1> QED BY <1>1, <1>2, <1>3, <1>4, <1>5, <1>6, <1>7, <1>8, <1>9, <1>10, <1>11 DEF Next, Moves

-----------------------------------------------------------------------------
(* Refreshes. *)

KindInv == \A r \in Requests : req[r].st = "idle" <=> req[r].kind = "none"

WaitInv ==
  /\ \A r \in Requests : Waits(r) => refresh.st # "none"
  /\ refresh.st # "none" =>
       \E r \in Requests : /\ req[r].st = "refreshing"
                           /\ \A q \in Requests : req[q].st = "refreshing" => q = r

LEMMA KindStep ==
  ASSUME TypeInv, KindInv, AnyShape
  PROVE  KindInv'
  <1>1. CASE Rests
    BY <1>1 DEF Rests, SameTokens, SameProfile, serverVars, KindInv, Kinds
  <1>2. CASE Grants
    BY <1>2 DEF Grants, Issue, KindInv, Kinds
  <1>3. CASE Refuses
    BY <1>3 DEF Refuses, KindInv, Kinds
  <1>4. CASE Resends
    BY <1>4 DEF Resends, Waits, serverVars, KindInv, Kinds
  <1>5. CASE Clears
    BY <1>5 DEF Clears, Emptied, Rejects, Alike, Frees, OthersKept, Waits, serverVars,
       KindInv, Kinds
  <1>6. CASE Expires
    BY <1>6 DEF Expires, KindInv, Kinds
  <1>7. CASE Restarts
    BY <1>7 DEF Restarts, SameTokens, serverVars, KindInv, Kinds
  <1>8. ASSUME NEW r \in Requests, Sends(r)
        PROVE  KindInv'
    BY <1>8 DEF Sends, OthersKept, SameTokens, serverVars, KindInv, Kinds
  <1>9. ASSUME NEW r \in Requests, Marks(r)
        PROVE  KindInv'
    BY <1>9 DEF Marks, OthersKept, Alike, serverVars, KindInv, Kinds
  <1>10. ASSUME NEW r \in Requests, Serves(r)
        PROVE  KindInv'
    BY <1>10 DEF Serves, OthersKept, Issue, KindInv, Kinds
  <1>11. ASSUME NEW r \in Requests, StartsRefresh(r)
        PROVE  KindInv'
    BY <1>11 DEF StartsRefresh, OthersKept, Alike, serverVars, KindInv, Kinds
  <1>12. ASSUME NEW r \in Requests, Ends(r)
        PROVE  KindInv'
    BY <1>12 DEF Ends, Frees, OthersKept, SameTokens, SameProfile, serverVars, KindInv, Kinds
  <1>13. ASSUME NEW r \in Requests, SignsIn(r)
        PROVE  KindInv'
    BY <1>13 DEF SignsIn, Frees, OthersKept, serverVars, KindInv, Kinds
  <1>14. ASSUME NEW r \in Requests, Creates(r)
        PROVE  KindInv'
    BY <1>14 DEF Creates, Frees, OthersKept, serverVars, KindInv, Kinds
  <1> QED BY <1>1, <1>2, <1>3, <1>4, <1>5, <1>6, <1>7, <1>8, <1>9, <1>10, <1>11, <1>12,
     <1>13, <1>14 DEF AnyShape

LEMMA WaitStep ==
  ASSUME TypeInv, WaitInv, AnyShape
  PROVE  WaitInv'
  <1>1. CASE Rests
    BY <1>1 DEF Rests, SameTokens, SameProfile, serverVars, WaitInv, Waits
  <1>2. CASE Grants
    BY <1>2 DEF Grants, Issue, WaitInv, Waits
  <1>3. CASE Refuses
    BY <1>3 DEF Refuses, WaitInv, Waits
  <1>4. CASE Resends
    BY <1>4 DEF Resends, Waits, serverVars, WaitInv, Waits
  <1>5. CASE Clears
    BY <1>5 DEF Clears, Emptied, Rejects, Alike, Frees, OthersKept, Waits, serverVars,
       WaitInv, Waits
  <1>6. CASE Expires
    BY <1>6 DEF Expires, WaitInv, Waits
  <1>7. CASE Restarts
    BY <1>7 DEF Restarts, SameTokens, serverVars, WaitInv, Waits
  <1>8. ASSUME NEW r \in Requests, Sends(r)
        PROVE  WaitInv'
    BY <1>8 DEF Sends, OthersKept, SameTokens, serverVars, WaitInv, Waits
  <1>9. ASSUME NEW r \in Requests, Marks(r)
        PROVE  WaitInv'
    BY <1>9 DEF Marks, OthersKept, Alike, serverVars, WaitInv, Waits
  <1>10. ASSUME NEW r \in Requests, Serves(r)
        PROVE  WaitInv'
    BY <1>10 DEF Serves, OthersKept, Issue, WaitInv, Waits
  <1>11. ASSUME NEW r \in Requests, StartsRefresh(r)
        PROVE  WaitInv'
    BY <1>11 DEF StartsRefresh, OthersKept, Alike, serverVars, WaitInv, Waits
  <1>12. ASSUME NEW r \in Requests, Ends(r)
        PROVE  WaitInv'
    BY <1>12 DEF Ends, Frees, OthersKept, SameTokens, SameProfile, serverVars, WaitInv, Waits
  <1>13. ASSUME NEW r \in Requests, SignsIn(r)
        PROVE  WaitInv'
    BY <1>13 DEF SignsIn, Frees, OthersKept, serverVars, WaitInv, Waits
  <1>14. ASSUME NEW r \in Requests, Creates(r)
        PROVE  WaitInv'
    BY <1>14 DEF Creates, Frees, OthersKept, serverVars, WaitInv, Waits
  <1> QED BY <1>1, <1>2, <1>3, <1>4, <1>5, <1>6, <1>7, <1>8, <1>9, <1>10, <1>11, <1>12,
     <1>13, <1>14 DEF AnyShape


\* A token that was issued has a number.
KnownInv ==
  /\ store.access <= issued /\ store.refresh <= issued
  /\ refresh.with <= issued /\ refresh.pair <= issued
  /\ \A r \in Requests : req[r].token <= issued /\ req[r].held <= issued /\ req[r].result <= issued
  /\ \A t \in expired : t # 0 /\ t <= issued
  /\ \A t \in Tokens : presented[t] # 0 => t <= issued
  /\ scope[0] = NoBusiness

LEMMA Numbers ==
  ASSUME TypeInv
  PROVE  /\ Tokens \subseteq Nat /\ 0 \in Tokens
         /\ store.access \in Tokens /\ store.refresh \in Tokens
         /\ refresh.with \in Tokens /\ refresh.pair \in Tokens
         /\ scope \in [Tokens -> Scopes] /\ presented \in [Tokens -> 0..2]
         /\ issued \in Tokens /\ expired \subseteq Tokens
         /\ \A r \in Requests :
              req[r].token \in Tokens /\ req[r].held \in Tokens /\ req[r].result \in Tokens
  BY Fields, ZeroIsToken DEF TypeInv, TypeOK, Tokens

LEMMA KnownStep ==
  ASSUME TypeInv, KnownInv, AnyShape
  PROVE  KnownInv'
  <1>1. CASE Rests
    BY <1>1, Numbers DEF Rests, SameTokens, SameProfile, serverVars, KnownInv
  <1>2. CASE Grants
    BY <1>2, Numbers DEF Grants, Issue, KnownInv
  <1>3. CASE Refuses
    BY <1>3, Numbers DEF Refuses, KnownInv
  <1>4. CASE Resends
    BY <1>4, Numbers DEF Resends, Waits, serverVars, KnownInv
  <1>5. CASE Clears
    BY <1>5, Numbers DEF Clears, Emptied, Rejects, Alike, Frees, OthersKept, Waits,
       serverVars, KnownInv
  <1>6. CASE Expires
    BY <1>6, Numbers DEF Expires, KnownInv
  <1>7. CASE Restarts
    BY <1>7, Numbers DEF Restarts, SameTokens, serverVars, KnownInv
  <1>8. ASSUME NEW r \in Requests, Sends(r)
        PROVE  KnownInv'
    BY <1>8, Numbers DEF Sends, OthersKept, SameTokens, serverVars, KnownInv
  <1>9. ASSUME NEW r \in Requests, Marks(r)
        PROVE  KnownInv'
    BY <1>9, Numbers DEF Marks, OthersKept, Alike, serverVars, KnownInv
  <1>10. ASSUME NEW r \in Requests, Serves(r)
        PROVE  KnownInv'
    BY <1>10, Numbers DEF Serves, OthersKept, Issue, KnownInv
  <1>11. ASSUME NEW r \in Requests, StartsRefresh(r)
        PROVE  KnownInv'
    BY <1>11, Numbers DEF StartsRefresh, OthersKept, Alike, serverVars, KnownInv
  <1>12. ASSUME NEW r \in Requests, Ends(r)
        PROVE  KnownInv'
    BY <1>12, Numbers DEF Ends, Frees, OthersKept, SameTokens, SameProfile, serverVars, KnownInv
  <1>13. ASSUME NEW r \in Requests, SignsIn(r)
        PROVE  KnownInv'
    BY <1>13, Numbers DEF SignsIn, Frees, OthersKept, serverVars, KnownInv
  <1>14. ASSUME NEW r \in Requests, Creates(r)
        PROVE  KnownInv'
    BY <1>14, Numbers DEF Creates, Frees, OthersKept, serverVars, KnownInv
  <1> QED BY <1>1, <1>2, <1>3, <1>4, <1>5, <1>6, <1>7, <1>8, <1>9, <1>10, <1>11, <1>12,
     <1>13, <1>14 DEF AnyShape


LEMMA TokenIssued ==
  ASSUME TypeInv, NEW b, Issue(b)
  PROVE  issued + 1 \in Tokens
  <1>1. world \in Worlds
    BY DEF TypeInv, TypeOK
  <1>2. world.tokens \in Nat /\ world.tokens <= MaxTokens /\ MaxTokens \in Nat
    BY <1>1, SessionAssumption
  <1> QED BY <1>2, Fields DEF Issue, Tokens

\* A token nobody has used: not the session's, never presented, never expired.
Fresh(t) ==
  /\ t # 0 /\ t # store.access /\ t # store.refresh /\ t # refresh.with
  /\ t \notin expired
  /\ presented[t] = 0
  /\ \A r \in Requests : req[r].kind = "validate" => req[r].held # t

\* An answer that carries a token is on its way.
InHand(r) == req[r].st = "ok" /\ req[r].kind \in Issuing

\* The tokens that are on their way are fresh, differ from each other, and are
\* of the business that was asked for.
HandInv ==
  /\ \A r \in Requests : InHand(r) =>
       /\ Fresh(req[r].result)
       /\ req[r].kind # "verify" => scope[req[r].result] = req[r].target
       /\ refresh.st = "granted" => req[r].result # refresh.pair
       /\ \A q \in Requests \ {r} : InHand(q) => req[q].result # req[r].result
  /\ refresh.st = "granted" => Fresh(refresh.pair)

LEMMA HandStep ==
  ASSUME TypeInv, KindInv, KnownInv, HandInv, AnyShape
  PROVE  HandInv'
  <1>1. CASE Rests
    BY <1>1, Numbers DEF Rests, SameTokens, SameProfile, serverVars, HandInv, KnownInv,
       KindInv, InHand, Fresh, Issuing, Creations
  <1>2. CASE Grants
    <2> PICK n \in Tokens : n = issued + 1
      BY <1>2, TokenIssued DEF Grants
    <2>1. n # 0 /\ issued' = n /\ \A t \in Tokens : t <= issued => t # n
      <3>1. issued' = issued + 1
        BY <1>2 DEF Grants, Issue
      <3>2. issued \in Nat /\ \A t \in Tokens : t \in Nat
        BY Numbers
      <3>3. n # 0 /\ \A t \in Tokens : t <= issued => t # n
        BY <3>2
      <3> QED BY <3>1, <3>3
    <2>2. Fresh(n)'
      BY <1>2, <2>1, Numbers DEF Grants, Fresh, KnownInv
    <2>3. \A t \in Tokens : Fresh(t) /\ t <= issued => scope'[t] = scope[t] /\ presented'[t] = 0
      BY <1>2, <2>1, Numbers DEF Grants, Issue, Fresh
    <2>4. refresh'.pair = n /\ refresh'.with = refresh.with
      BY <1>2 DEF Grants
    <2>5. \A r \in Requests : req[r].result \in Tokens /\ req[r].result <= issued
      BY <1>2, Numbers DEF KnownInv
    <2>6. UNCHANGED <<req, store, expired>>
      BY <1>2 DEF Grants
    <2> QED BY <2>1, <2>2, <2>3, <2>4, <2>5, <2>6 DEF HandInv, InHand, Fresh
  <1>3. CASE Refuses
    BY <1>3, Numbers DEF Refuses, HandInv, KnownInv, KindInv, InHand, Fresh, Issuing, Creations
  <1>4. CASE Resends
    BY <1>4, Numbers DEF Resends, Waits, serverVars, HandInv, KnownInv, KindInv, InHand,
       Fresh, Issuing, Creations
  <1>5. CASE Clears
    BY <1>5, Numbers DEF Clears, Emptied, Rejects, Alike, Frees, OthersKept, Waits,
       serverVars, HandInv, KnownInv, KindInv, InHand, Fresh, Issuing, Creations
  <1>6. CASE Expires
    BY <1>6, Numbers DEF Expires, HandInv, KnownInv, KindInv, InHand, Fresh, Issuing, Creations
  <1>7. CASE Restarts
    BY <1>7, Numbers DEF Restarts, SameTokens, serverVars, HandInv, KnownInv, KindInv,
       InHand, Fresh, Issuing, Creations
  <1>8. ASSUME NEW r \in Requests, Sends(r)
        PROVE  HandInv'
    BY <1>8, Numbers DEF Sends, OthersKept, SameTokens, serverVars, HandInv, KnownInv,
       KindInv, InHand, Fresh, Issuing, Creations
  <1>9. ASSUME NEW r \in Requests, Marks(r)
        PROVE  HandInv'
    BY <1>9, Numbers DEF Marks, OthersKept, Alike, serverVars, HandInv, KnownInv, KindInv,
       InHand, Fresh, Issuing, Creations
  <1>10. ASSUME NEW r \in Requests, Serves(r)
        PROVE  HandInv'
    <2>2. \A q \in Requests : req'[q].kind = req[q].kind /\ req'[q].held = req[q].held
      BY <1>10 DEF Serves, OthersKept
    <2>4. \A q \in Requests : /\ q # r => req'[q] = req[q]
                             /\ req[q].result \in Tokens /\ req[q].result <= issued
      BY <1>10, Numbers DEF Serves, OthersKept, KnownInv
    <2>5. UNCHANGED <<refresh, store, expired, presented>> /\ refresh.pair \in Tokens /\ refresh.pair <= issued
      BY <1>10, Numbers DEF Serves, KnownInv
    <2>6. CASE req[r].kind \notin Issuing
      <3>1. ~InHand(r)' /\ scope' = scope
        BY <1>10, <2>6 DEF Serves, InHand
      <3> QED BY <2>2, <2>4, <2>5, <3>1 DEF HandInv, InHand, Fresh
    <2>7. CASE req[r].kind \in Issuing
      <3> PICK n \in Tokens : n = issued + 1
        BY <1>10, <2>7, TokenIssued DEF Serves
      <3>1. n # 0 /\ issued' = n /\ \A t \in Tokens : t <= issued => t # n
        <4>1. issued' = issued + 1
          BY <1>10, <2>7 DEF Serves, Issue
        <4>2. issued \in Nat /\ \A t \in Tokens : t \in Nat
          BY Numbers
        <4>3. n # 0 /\ \A t \in Tokens : t <= issued => t # n
          BY <4>2
        <4> QED BY <4>1, <4>3
      <3>2. req'[r].result = n /\ req'[r].target = req[r].target
        BY <1>10, <3>1 DEF Serves
      <3>3. Fresh(n)'
        BY <2>2, <2>5, <3>1, Numbers DEF Fresh, KnownInv
      <3>4. /\ req[r].kind # "verify" => scope'[n] = req[r].target
            /\ \A t \in Tokens : t <= issued => scope'[t] = scope[t]
        BY <1>10, <2>7, <3>1, Numbers DEF Serves, Issue
      <3>5. \A t \in Tokens : Fresh(t) /\ t <= issued /\ t # n => Fresh(t)'
        BY <2>2, <2>5, <3>2, <2>4 DEF Fresh
      <3>6. \A q \in Requests : InHand(q)' => q = r \/ InHand(q)
        BY <2>4 DEF InHand
      <3>7. refresh.st = "granted" => Fresh(refresh.pair)' /\ refresh.pair # n
        BY <2>5, <3>1, <3>5 DEF HandInv
      <3>8. \A q \in Requests \ {r} : InHand(q) =>
              /\ Fresh(req[q].result)' /\ req[q].result # n
              /\ req[q].kind # "verify" => scope'[req[q].result] = req[q].target
        BY <2>4, <3>1, <3>4, <3>5 DEF HandInv
      <3>9. \A q \in Requests \ {r} : req'[q] = req[q]
        BY <2>4
      <3> QED BY <2>2, <2>5, <3>2, <3>3, <3>4, <3>6, <3>7, <3>8, <3>9 DEF HandInv
    <2> QED BY <2>6, <2>7
  <1>11. ASSUME NEW r \in Requests, StartsRefresh(r)
        PROVE  HandInv'
    BY <1>11, Numbers DEF StartsRefresh, OthersKept, Alike, serverVars, HandInv, KnownInv,
       KindInv, InHand, Fresh, Issuing, Creations
  <1>12. ASSUME NEW r \in Requests, Ends(r)
        PROVE  HandInv'
    BY <1>12, Numbers DEF Ends, Frees, OthersKept, SameTokens, SameProfile, serverVars,
       HandInv, KnownInv, KindInv, InHand, Fresh, Issuing, Creations
  <1>13. ASSUME NEW r \in Requests, SignsIn(r)
        PROVE  HandInv'
    BY <1>13, Numbers DEF SignsIn, Frees, OthersKept, serverVars, HandInv, KnownInv, KindInv,
       InHand, Fresh, Issuing, Creations
  <1>14. ASSUME NEW r \in Requests, Creates(r)
        PROVE  HandInv'
    BY <1>14, Numbers DEF Creates, Frees, OthersKept, serverVars, HandInv, KnownInv, KindInv,
       InHand, Fresh, Issuing, Creations
  <1> QED BY <1>1, <1>2, <1>3, <1>4, <1>5, <1>6, <1>7, <1>8, <1>9, <1>10, <1>11, <1>12,
     <1>13, <1>14 DEF AnyShape


\* The session's business is the one its token was issued for, and a session
\* without a business has a refresh token without one.
StoreInv ==
  /\ store.business = scope[store.access]
  /\ store.access = 0 => store.refresh = 0
  /\ store.business = NoBusiness => scope[store.refresh] = NoBusiness
  /\ refresh.st # "none" => refresh.with # 0

LEMMA StoreStep ==
  ASSUME TypeInv, KnownInv, HandInv, StoreInv, AnyShape
  PROVE  StoreInv'
  <1>1. CASE Rests
    BY <1>1, Numbers, SessionAssumption DEF Rests, SameTokens, SameProfile, serverVars,
       StoreInv, KnownInv, HandInv, InHand, Fresh, Issuing, TypeInv, TargetInv, Creations
  <1>2. CASE Grants
    BY <1>2, Numbers, SessionAssumption DEF Grants, Issue, StoreInv, KnownInv, HandInv,
       InHand, Fresh, Issuing, TypeInv, TargetInv, Creations
  <1>3. CASE Refuses
    BY <1>3, Numbers, SessionAssumption DEF Refuses, StoreInv, KnownInv, HandInv, InHand,
       Fresh, Issuing, TypeInv, TargetInv, Creations
  <1>4. CASE Resends
    BY <1>4, Numbers, SessionAssumption DEF Resends, Waits, serverVars, StoreInv, KnownInv,
       HandInv, InHand, Fresh, Issuing, TypeInv, TargetInv, Creations
  <1>5. CASE Clears
    BY <1>5, Numbers, SessionAssumption DEF Clears, Emptied, Rejects, Alike, Frees,
       OthersKept, Waits, serverVars, StoreInv, KnownInv, HandInv, InHand, Fresh, Issuing,
       TypeInv, TargetInv, Creations
  <1>6. CASE Expires
    BY <1>6, Numbers, SessionAssumption DEF Expires, StoreInv, KnownInv, HandInv, InHand,
       Fresh, Issuing, TypeInv, TargetInv, Creations
  <1>7. CASE Restarts
    BY <1>7, Numbers, SessionAssumption DEF Restarts, SameTokens, serverVars, StoreInv,
       KnownInv, HandInv, InHand, Fresh, Issuing, TypeInv, TargetInv, Creations
  <1>8. ASSUME NEW r \in Requests, Sends(r)
        PROVE  StoreInv'
    BY <1>8, Numbers, SessionAssumption DEF Sends, OthersKept, SameTokens, serverVars,
       StoreInv, KnownInv, HandInv, InHand, Fresh, Issuing, TypeInv, TargetInv, Creations
  <1>9. ASSUME NEW r \in Requests, Marks(r)
        PROVE  StoreInv'
    BY <1>9, Numbers, SessionAssumption DEF Marks, OthersKept, Alike, serverVars, StoreInv,
       KnownInv, HandInv, InHand, Fresh, Issuing, TypeInv, TargetInv, Creations
  <1>10. ASSUME NEW r \in Requests, Serves(r)
        PROVE  StoreInv'
    BY <1>10, Numbers, SessionAssumption DEF Serves, OthersKept, Issue, StoreInv, KnownInv,
       HandInv, InHand, Fresh, Issuing, TypeInv, TargetInv, Creations
  <1>11. ASSUME NEW r \in Requests, StartsRefresh(r)
        PROVE  StoreInv'
    BY <1>11, Numbers, SessionAssumption DEF StartsRefresh, OthersKept, Alike, serverVars,
       StoreInv, KnownInv, HandInv, InHand, Fresh, Issuing, TypeInv, TargetInv, Creations
  <1>12. ASSUME NEW r \in Requests, Ends(r)
        PROVE  StoreInv'
    BY <1>12, Numbers, SessionAssumption DEF Ends, Frees, OthersKept, SameTokens,
       SameProfile, serverVars, StoreInv, KnownInv, HandInv, InHand, Fresh, Issuing, TypeInv,
       TargetInv, Creations
  <1>13. ASSUME NEW r \in Requests, SignsIn(r)
        PROVE  StoreInv'
    BY <1>13, Numbers, SessionAssumption DEF SignsIn, Frees, OthersKept, serverVars,
       StoreInv, KnownInv, HandInv, InHand, Fresh, Issuing, TypeInv, TargetInv, Creations
  <1>14. ASSUME NEW r \in Requests, Creates(r)
        PROVE  StoreInv'
    BY <1>14, Numbers, SessionAssumption DEF Creates, Frees, OthersKept, serverVars,
       StoreInv, KnownInv, HandInv, InHand, Fresh, Issuing, TypeInv, TargetInv, Creations
  <1> QED BY <1>1, <1>2, <1>3, <1>4, <1>5, <1>6, <1>7, <1>8, <1>9, <1>10, <1>11, <1>12,
     <1>13, <1>14 DEF AnyShape


\* A refresh token is presented for the first time, and given up then.
OnceInv ==
  ~May("restart") =>
    /\ \A t \in Tokens : presented[t] <= 1
    /\ presented[store.refresh] # 0 =>
         refresh.st \in {"granted", "refused"} /\ refresh.with = store.refresh
    /\ refresh.st = "sent" => presented[refresh.with] = 0
    /\ presented[0] = 0

LEMMA OnceStep ==
  ASSUME TypeInv, KnownInv, HandInv, StoreInv, OnceInv, AnyShape
  PROVE  OnceInv'
  <1>1. CASE Rests
    BY <1>1, Numbers DEF Rests, SameTokens, SameProfile, serverVars, OnceInv, StoreInv,
       HandInv, InHand, Fresh, Issuing, May, Creations
  <1>2. CASE Grants
    BY <1>2, Numbers DEF Grants, Issue, OnceInv, StoreInv, HandInv, InHand, Fresh, Issuing,
       May, Creations
  <1>3. CASE Refuses
    BY <1>3, Numbers DEF Refuses, OnceInv, StoreInv, HandInv, InHand, Fresh, Issuing, May,
       Creations
  <1>4. CASE Resends
    BY <1>4, Numbers DEF Resends, Waits, serverVars, OnceInv, StoreInv, HandInv, InHand,
       Fresh, Issuing, May, Creations
  <1>5. CASE Clears
    BY <1>5, Numbers DEF Clears, Emptied, Rejects, Alike, Frees, OthersKept, Waits,
       serverVars, OnceInv, StoreInv, HandInv, InHand, Fresh, Issuing, May, Creations
  <1>6. CASE Expires
    BY <1>6, Numbers DEF Expires, OnceInv, StoreInv, HandInv, InHand, Fresh, Issuing, May,
       Creations
  <1>7. CASE Restarts
    BY <1>7, Numbers DEF Restarts, SameTokens, serverVars, OnceInv, StoreInv, HandInv,
       InHand, Fresh, Issuing, May, Creations
  <1>8. ASSUME NEW r \in Requests, Sends(r)
        PROVE  OnceInv'
    BY <1>8, Numbers DEF Sends, OthersKept, SameTokens, serverVars, OnceInv, StoreInv,
       HandInv, InHand, Fresh, Issuing, May, Creations
  <1>9. ASSUME NEW r \in Requests, Marks(r)
        PROVE  OnceInv'
    BY <1>9, Numbers DEF Marks, OthersKept, Alike, serverVars, OnceInv, StoreInv, HandInv,
       InHand, Fresh, Issuing, May, Creations
  <1>10. ASSUME NEW r \in Requests, Serves(r)
        PROVE  OnceInv'
    BY <1>10, Numbers DEF Serves, OthersKept, Issue, OnceInv, StoreInv, HandInv, InHand,
       Fresh, Issuing, May, Creations
  <1>11. ASSUME NEW r \in Requests, StartsRefresh(r)
        PROVE  OnceInv'
    BY <1>11, Numbers DEF StartsRefresh, OthersKept, Alike, serverVars, OnceInv, StoreInv,
       HandInv, InHand, Fresh, Issuing, May, Creations
  <1>12. ASSUME NEW r \in Requests, Ends(r)
        PROVE  OnceInv'
    BY <1>12, Numbers DEF Ends, Frees, OthersKept, SameTokens, SameProfile, serverVars,
       OnceInv, StoreInv, HandInv, InHand, Fresh, Issuing, May, Creations
  <1>13. ASSUME NEW r \in Requests, SignsIn(r)
        PROVE  OnceInv'
    BY <1>13, Numbers DEF SignsIn, Frees, OthersKept, serverVars, OnceInv, StoreInv, HandInv,
       InHand, Fresh, Issuing, May, Creations
  <1>14. ASSUME NEW r \in Requests, Creates(r)
        PROVE  OnceInv'
    BY <1>14, Numbers DEF Creates, Frees, OthersKept, serverVars, OnceInv, StoreInv, HandInv,
       InHand, Fresh, Issuing, May, Creations
  <1> QED BY <1>1, <1>2, <1>3, <1>4, <1>5, <1>6, <1>7, <1>8, <1>9, <1>10, <1>11, <1>12,
     <1>13, <1>14 DEF AnyShape


\* A call runs once; a profile is loaded for the token it was asked for, or the
\* session has another token meanwhile.
RunInv ==
  /\ \A r \in Requests :
       /\ req[r].runs <= 1
       /\ req[r].st \in {"idle", "sent", "unauthorized", "queued", "refreshing"} => req[r].runs = 0
  /\ \A r \in Requests : req[r].kind = "validate" =>
       /\ req[r].held # 0
       /\ ~req[r].retried => req[r].token = req[r].held
       /\ req[r].retried => req[r].held # store.access
       /\ req[r].st = "ok" /\ ~req[r].retried => req[r].ranIn = scope[req[r].held]

LEMMA RunStep ==
  ASSUME TypeInv, KnownInv, HandInv, RunInv, AnyShape
  PROVE  RunInv'
  <1>1. CASE Rests
    BY <1>1, Numbers, Fields DEF Rests, SameTokens, SameProfile, serverVars, RunInv,
       KnownInv, HandInv, InHand, Fresh, Issuing, Creations, isAuthenticated
  <1>2. CASE Grants
    BY <1>2, Numbers, Fields DEF Grants, Issue, RunInv, KnownInv, HandInv, InHand, Fresh,
       Issuing, Creations, isAuthenticated
  <1>3. CASE Refuses
    BY <1>3, Numbers, Fields DEF Refuses, RunInv, KnownInv, HandInv, InHand, Fresh, Issuing,
       Creations, isAuthenticated
  <1>4. CASE Resends
    BY <1>4, Numbers, Fields DEF Resends, Waits, serverVars, RunInv, KnownInv, HandInv,
       InHand, Fresh, Issuing, Creations, isAuthenticated
  <1>5. CASE Clears
    BY <1>5, Numbers, Fields DEF Clears, Emptied, Rejects, Alike, Frees, OthersKept, Waits,
       serverVars, RunInv, KnownInv, HandInv, InHand, Fresh, Issuing, Creations,
       isAuthenticated
  <1>6. CASE Expires
    BY <1>6, Numbers, Fields DEF Expires, RunInv, KnownInv, HandInv, InHand, Fresh, Issuing,
       Creations, isAuthenticated
  <1>7. CASE Restarts
    BY <1>7, Numbers, Fields DEF Restarts, SameTokens, serverVars, RunInv, KnownInv, HandInv,
       InHand, Fresh, Issuing, Creations, isAuthenticated
  <1>8. ASSUME NEW r \in Requests, Sends(r)
        PROVE  RunInv'
    BY <1>8, Numbers, Fields DEF Sends, OthersKept, SameTokens, serverVars, RunInv, KnownInv,
       HandInv, InHand, Fresh, Issuing, Creations, isAuthenticated
  <1>9. ASSUME NEW r \in Requests, Marks(r)
        PROVE  RunInv'
    BY <1>9, Numbers, Fields DEF Marks, OthersKept, Alike, serverVars, RunInv, KnownInv,
       HandInv, InHand, Fresh, Issuing, Creations, isAuthenticated
  <1>10. ASSUME NEW r \in Requests, Serves(r)
        PROVE  RunInv'
    BY <1>10, Numbers, Fields DEF Serves, OthersKept, Issue, RunInv, KnownInv, HandInv,
       InHand, Fresh, Issuing, Creations, isAuthenticated
  <1>11. ASSUME NEW r \in Requests, StartsRefresh(r)
        PROVE  RunInv'
    BY <1>11, Numbers, Fields DEF StartsRefresh, OthersKept, Alike, serverVars, RunInv,
       KnownInv, HandInv, InHand, Fresh, Issuing, Creations, isAuthenticated
  <1>12. ASSUME NEW r \in Requests, Ends(r)
        PROVE  RunInv'
    BY <1>12, Numbers, Fields DEF Ends, Frees, OthersKept, SameTokens, SameProfile,
       serverVars, RunInv, KnownInv, HandInv, InHand, Fresh, Issuing, Creations,
       isAuthenticated
  <1>13. ASSUME NEW r \in Requests, SignsIn(r)
        PROVE  RunInv'
    BY <1>13, Numbers, Fields DEF SignsIn, Frees, OthersKept, serverVars, RunInv, KnownInv,
       HandInv, InHand, Fresh, Issuing, Creations, isAuthenticated
  <1>14. ASSUME NEW r \in Requests, Creates(r)
        PROVE  RunInv'
    BY <1>14, Numbers, Fields DEF Creates, Frees, OthersKept, serverVars, RunInv, KnownInv,
       HandInv, InHand, Fresh, Issuing, Creations, isAuthenticated
  <1> QED BY <1>1, <1>2, <1>3, <1>4, <1>5, <1>6, <1>7, <1>8, <1>9, <1>10, <1>11, <1>12,
     <1>13, <1>14 DEF AnyShape


SafeInv ==
  /\ TypeInv /\ KindInv /\ WaitInv /\ KnownInv /\ HandInv /\ StoreInv /\ OnceInv /\ RunInv

LEMMA SafeInit == Init => SafeInv
  <1> SUFFICES ASSUME Init PROVE SafeInv
    OBVIOUS
  <1>1. TypeInv
    BY TypeInit
  <1>2. KindInv /\ WaitInv /\ RunInv
    BY DEF Init, NoRequest, NoRefresh, KindInv, WaitInv, Waits, RunInv
  <1>3. KnownInv /\ StoreInv
    BY <1>1, Numbers DEF Init, NoRequest, NoRefresh, KnownInv, StoreInv
  <1>4. HandInv
    BY DEF Init, NoRequest, NoRefresh, HandInv, InHand
  <1>5. OnceInv
    BY <1>1, Numbers DEF Init, NoRefresh, OnceInv
  <1> QED BY <1>1, <1>2, <1>3, <1>4, <1>5 DEF SafeInv

LEMMA SafeStep == SafeInv /\ [Next]_vars => SafeInv'
  <1> SUFFICES ASSUME SafeInv, [Next]_vars PROVE SafeInv'
    OBVIOUS
  <1>1. AnyShape /\ TypeInv'
    BY Shapes, TypeStep DEF SafeInv
  <1>2. KindInv' /\ WaitInv' /\ KnownInv'
    BY <1>1, KindStep, WaitStep, KnownStep DEF SafeInv
  <1>3. HandInv' /\ StoreInv'
    BY <1>1, HandStep, StoreStep DEF SafeInv
  <1>4. OnceInv' /\ RunInv'
    BY <1>1, OnceStep, RunStep DEF SafeInv
  <1> QED BY <1>1, <1>2, <1>3, <1>4 DEF SafeInv

LEMMA SafeAlways == Spec => []SafeInv
  BY SafeInit, SafeStep, PTL DEF Spec

LEMMA Shared == SafeInv => RefreshShared
  <1> SUFFICES ASSUME SafeInv PROVE RefreshShared
    OBVIOUS
  <1>1. RefreshTokensUsedOnce
    BY DEF SafeInv, OnceInv, RefreshTokensUsedOnce
  <1>2. WaitersAreServed
    BY DEF SafeInv, WaitInv, Waits, WaitersAreServed
  <1> QED BY <1>1, <1>2 DEF RefreshShared

\* A refresh token is presented once unless the app is killed meanwhile, and
\* whoever waits for a refresh waits for one that is under way.
THEOREM RefreshesShared == Spec => []RefreshShared
  BY SafeAlways, Shared, PTL

-----------------------------------------------------------------------------
(* Sessions, as long as a change of the session meets no other call. *)

LEMMA CalmMay ==
  ASSUME Calm
  PROVE  ~May("overlap") /\ ~May("second_business")
  BY DEF Calm, May

\* A change of the session is alone with the validations it gives rise to, and
\* once it was sent again nothing expires before it is done.
AloneInv ==
  \A r \in Requests : req[r].kind \in Sessions =>
    /\ req[r].kind # "add"
    /\ \A q \in Requests \ {r} : req[q].kind \in {"none", "validate"}
    /\ ~req[r].retried => Mounted /\ \A q \in Requests \ {r} : req[q].kind = "none"
    /\ req[r].retried =>
         /\ refresh.st = "none"
         /\ store.access \notin expired
         /\ \A q \in Requests :
              /\ req[q].st \in {"idle", "sent", "ok", "failed"}
              /\ req[q].st = "sent" => req[q].token # 0 /\ req[q].token \notin expired

LEMMA AloneStep ==
  ASSUME TypeInv, KindInv, WaitInv, KnownInv, HandInv, Calm, AloneInv, AnyShape
  PROVE  AloneInv'
  <1>1. CASE Rests
    BY <1>1, Numbers, CalmMay DEF Rests, SameTokens, SameProfile, serverVars, AloneInv,
       KindInv, WaitInv, KnownInv, Fresh, HandInv, Waits, Sessions, Mounted, isAuthenticated,
       MayOverlap, MayCall, SessionCall, Quiet, Live
  <1>2. CASE Grants
    BY <1>2, Numbers, CalmMay DEF Grants, Issue, AloneInv, KindInv, WaitInv, KnownInv, Fresh,
       HandInv, Waits, Sessions, Mounted, isAuthenticated, MayOverlap, MayCall, SessionCall,
       Quiet, Live
  <1>3. CASE Refuses
    BY <1>3, Numbers, CalmMay DEF Refuses, AloneInv, KindInv, WaitInv, KnownInv, Fresh,
       HandInv, Waits, Sessions, Mounted, isAuthenticated, MayOverlap, MayCall, SessionCall,
       Quiet, Live
  <1>4. CASE Resends
    BY <1>4, Numbers, CalmMay DEF Resends, Waits, serverVars, AloneInv, KindInv, WaitInv,
       KnownInv, Fresh, HandInv, Waits, Sessions, Mounted, isAuthenticated, MayOverlap,
       MayCall, SessionCall, Quiet, Live
  <1>5. CASE Clears
    BY <1>5, Numbers, CalmMay DEF Clears, Emptied, Rejects, Alike, Frees, OthersKept, Waits,
       serverVars, AloneInv, KindInv, WaitInv, KnownInv, Fresh, HandInv, Waits, Sessions,
       Mounted, isAuthenticated, MayOverlap, MayCall, SessionCall, Quiet, Live
  <1>6. CASE Expires
    BY <1>6, Numbers, CalmMay DEF Expires, AloneInv, KindInv, WaitInv, KnownInv, Fresh,
       HandInv, Waits, Sessions, Mounted, isAuthenticated, MayOverlap, MayCall, SessionCall,
       Quiet, Live
  <1>7. CASE Restarts
    BY <1>7, Numbers, CalmMay DEF Restarts, SameTokens, serverVars, AloneInv, KindInv,
       WaitInv, KnownInv, Fresh, HandInv, Waits, Sessions, Mounted, isAuthenticated,
       MayOverlap, MayCall, SessionCall, Quiet, Live
  <1>8. ASSUME NEW r \in Requests, Sends(r)
        PROVE  AloneInv'
    <2>1. \A q \in Requests \ {r} : req'[q] = req[q]
      BY <1>8 DEF Sends, OthersKept
    <2>2. /\ req'[r].st = "sent" /\ req'[r].kind \in Kinds /\ req'[r].token = store.access
          /\ ~req'[r].retried /\ req[r].kind = "none"
          /\ UNCHANGED <<refresh, serverVars>>
      BY <1>8 DEF Sends, KindInv
    <2>3. store'.access = store.access /\ Mounted' = Mounted
      BY <1>8 DEF Sends, SameTokens, Mounted, isAuthenticated
    <2>4. CASE req'[r].kind \in {"work", "foreground"}
      <3>1. \A q \in Requests : req[q].kind \notin Sessions
        BY <1>8, <2>4, CalmMay DEF Sends, MayCall, SessionCall, Sessions
      <3>2. \A q \in Requests : req'[q].kind \notin Sessions
        BY <2>1, <2>4, <3>1 DEF Sessions
      <3> QED BY <3>2 DEF AloneInv
    <2>5. CASE req'[r].kind = "validate"
      <3>1. ~Mounted /\ store.access # 0
        BY <1>8, <2>5 DEF Sends, isAuthenticated
      <3>2. req'[r].kind \notin Sessions
        BY <2>5 DEF Sessions
      <3> QED BY <2>1, <2>2, <2>3, <2>5, <3>1, <3>2 DEF AloneInv, serverVars
    <2>6. CASE req'[r].kind \in Sessions
      <3>1. /\ \A q \in Requests : req[q].kind = "none"
            /\ Mounted /\ req'[r].kind # "add"
        BY <1>8, <2>6, CalmMay DEF Sends, MayOverlap, Quiet, Live, KindInv
      <3>2. \A q \in Requests \ {r} : req'[q].kind = "none"
        BY <2>1, <3>1
      <3>3. "none" \notin Sessions
        BY DEF Sessions
      <3> QED BY <2>2, <2>3, <3>1, <3>2, <3>3 DEF AloneInv
    <2> QED BY <2>2, <2>4, <2>5, <2>6 DEF Kinds, Creations, Sessions
  <1>9. ASSUME NEW r \in Requests, Marks(r)
        PROVE  AloneInv'
    BY <1>9, Numbers, CalmMay DEF Marks, OthersKept, Alike, serverVars, AloneInv, KindInv,
       WaitInv, KnownInv, Fresh, HandInv, Waits, Sessions, Mounted, isAuthenticated,
       MayOverlap, MayCall, SessionCall, Quiet, Live
  <1>10. ASSUME NEW r \in Requests, Serves(r)
        PROVE  AloneInv'
    BY <1>10, Numbers, CalmMay DEF Serves, OthersKept, Issue, AloneInv, KindInv, WaitInv,
       KnownInv, Fresh, HandInv, Waits, Sessions, Mounted, isAuthenticated, MayOverlap,
       MayCall, SessionCall, Quiet, Live
  <1>11. ASSUME NEW r \in Requests, StartsRefresh(r)
        PROVE  AloneInv'
    BY <1>11, Numbers, CalmMay DEF StartsRefresh, OthersKept, Alike, serverVars, AloneInv,
       KindInv, WaitInv, KnownInv, Fresh, HandInv, Waits, Sessions, Mounted, isAuthenticated,
       MayOverlap, MayCall, SessionCall, Quiet, Live
  <1>12. ASSUME NEW r \in Requests, Ends(r)
        PROVE  AloneInv'
    BY <1>12, Numbers, CalmMay DEF Ends, Frees, OthersKept, SameTokens, SameProfile,
       serverVars, AloneInv, KindInv, WaitInv, KnownInv, Fresh, HandInv, Waits, Sessions,
       Mounted, isAuthenticated, MayOverlap, MayCall, SessionCall, Quiet, Live
  <1>13. ASSUME NEW r \in Requests, SignsIn(r)
        PROVE  AloneInv'
    BY <1>13, Numbers, CalmMay DEF SignsIn, Frees, OthersKept, serverVars, AloneInv, KindInv,
       WaitInv, KnownInv, Fresh, HandInv, Waits, Sessions, Mounted, isAuthenticated,
       MayOverlap, MayCall, SessionCall, Quiet, Live
  <1>14. ASSUME NEW r \in Requests, Creates(r)
        PROVE  AloneInv'
    BY <1>14 DEF Creates, Creations, Sessions, AloneInv, Frees, OthersKept, KindInv
  <1> QED BY <1>1, <1>2, <1>3, <1>4, <1>5, <1>6, <1>7, <1>8, <1>9, <1>10, <1>11, <1>12,
     <1>13, <1>14 DEF AnyShape


\* A change of the session that is answered finds no refresh under way.
LEMMA NoRefreshThen ==
  ASSUME KindInv, WaitInv, AloneInv, NEW r \in Requests, req[r].kind \in Sessions,
         req[r].st \in {"ok", "failed"}
  PROVE  refresh.st = "none"
  BY DEF KindInv, WaitInv, AloneInv

\* The first business is the one that is created, and whoever creates it has
\* a refresh token of no business, or of this one.
CreateInv ==
  /\ members = {} => primary = NoBusiness
  /\ \A r \in Requests : req[r].kind = "create" =>
       /\ scope[store.refresh] \in {NoBusiness, primary}
       /\ refresh.st = "sent" => scope[refresh.with] \in {NoBusiness, primary}
       /\ refresh.st = "granted" => scope[refresh.pair] \in {NoBusiness, primary}
       /\ req[r].st = "ok" => primary = req[r].target
  /\ \A r \in Requests : req[r].kind = "verify" /\ req[r].st = "ok" =>
       scope[req[r].result] = primary

\* A new token changes no other.
LEMMA ScopeKept ==
  ASSUME TypeInv, KnownInv, NEW b, Issue(b)
  PROVE  /\ \A t \in Tokens : t <= issued => scope'[t] = scope[t]
         /\ scope'[issued'] = b /\ issued' \in Tokens /\ issued' = issued + 1
  <1>1. issued' = issued + 1 /\ issued' \in Tokens
    BY TokenIssued DEF Issue
  <1>2. scope' = [scope EXCEPT ![issued'] = b]
    BY <1>1 DEF Issue
  <1>3. \A t \in Tokens : t <= issued => t # issued'
    <2>1. issued \in Nat /\ \A t \in Tokens : t \in Nat
      BY Numbers
    <2> QED BY <1>1, <2>1
  <1> QED BY <1>1, <1>2, <1>3, Numbers

LEMMA CreateStep ==
  ASSUME TypeInv, KindInv, KnownInv, HandInv, StoreInv, Calm, AloneInv, CreateInv, AnyShape
  PROVE  CreateInv'
  <1>1. CASE Rests
    BY <1>1, Numbers, CalmMay, ScopeKept DEF Rests, SameTokens, SameProfile, serverVars,
       CreateInv, AloneInv, KnownInv, StoreInv, Sessions, Creations, Issuing, MayOverlap,
       Quiet, Live
  <1>2. CASE Grants
    <2>1. /\ \A t \in Tokens : t <= issued => scope'[t] = scope[t]
          /\ scope'[issued'] = IF scope[refresh.with] = NoBusiness THEN primary ELSE scope[refresh.with]
          /\ refresh'.pair = issued'
      BY <1>2, ScopeKept DEF Grants
    <2>2. /\ UNCHANGED <<store, req, primary, members>>
          /\ refresh.st = "sent" /\ refresh'.st = "granted"
      BY <1>2 DEF Grants
    <2>3. \A r \in Requests : req[r].result \in Tokens /\ req[r].result <= issued
      BY Numbers DEF KnownInv
    <2>4. store.refresh \in Tokens /\ store.refresh <= issued
      BY Numbers DEF KnownInv
    <2> QED BY <2>1, <2>2, <2>3, <2>4 DEF CreateInv
  <1>3. CASE Refuses
    BY <1>3, Numbers, CalmMay, ScopeKept DEF Refuses, CreateInv, AloneInv, KnownInv,
       StoreInv, Sessions, Creations, Issuing, MayOverlap, Quiet, Live
  <1>4. CASE Resends
    BY <1>4, Numbers, CalmMay, ScopeKept DEF Resends, Waits, serverVars, CreateInv, AloneInv,
       KnownInv, StoreInv, Sessions, Creations, Issuing, MayOverlap, Quiet, Live
  <1>5. CASE Clears
    BY <1>5, Numbers, CalmMay, ScopeKept DEF Clears, Emptied, Rejects, Alike, Frees,
       OthersKept, Waits, serverVars, CreateInv, AloneInv, KnownInv, StoreInv, Sessions,
       Creations, Issuing, MayOverlap, Quiet, Live
  <1>6. CASE Expires
    BY <1>6, Numbers, CalmMay, ScopeKept DEF Expires, CreateInv, AloneInv, KnownInv,
       StoreInv, Sessions, Creations, Issuing, MayOverlap, Quiet, Live
  <1>7. CASE Restarts
    BY <1>7, Numbers, CalmMay, ScopeKept DEF Restarts, SameTokens, serverVars, CreateInv,
       AloneInv, KnownInv, StoreInv, Sessions, Creations, Issuing, MayOverlap, Quiet, Live
  <1>8. ASSUME NEW r \in Requests, Sends(r)
        PROVE  CreateInv'
    BY <1>8, Numbers, CalmMay, ScopeKept DEF Sends, OthersKept, SameTokens, serverVars,
       CreateInv, AloneInv, KnownInv, StoreInv, Sessions, Creations, Issuing, MayOverlap,
       Quiet, Live
  <1>9. ASSUME NEW r \in Requests, Marks(r)
        PROVE  CreateInv'
    BY <1>9, Numbers, CalmMay, ScopeKept DEF Marks, OthersKept, Alike, serverVars, CreateInv,
       AloneInv, KnownInv, StoreInv, Sessions, Creations, Issuing, MayOverlap, Quiet, Live
  <1>10. ASSUME NEW r \in Requests, Serves(r)
        PROVE  CreateInv'
    BY <1>10, Numbers, CalmMay, ScopeKept DEF Serves, OthersKept, Issue, CreateInv, AloneInv,
       KnownInv, StoreInv, Sessions, Creations, Issuing, MayOverlap, Quiet, Live
  <1>11. ASSUME NEW r \in Requests, StartsRefresh(r)
        PROVE  CreateInv'
    BY <1>11, Numbers, CalmMay, ScopeKept DEF StartsRefresh, OthersKept, Alike, serverVars,
       CreateInv, AloneInv, KnownInv, StoreInv, Sessions, Creations, Issuing, MayOverlap,
       Quiet, Live
  <1>12. ASSUME NEW r \in Requests, Ends(r)
        PROVE  CreateInv'
    BY <1>12, Numbers, CalmMay, ScopeKept DEF Ends, Frees, OthersKept, SameTokens,
       SameProfile, serverVars, CreateInv, AloneInv, KnownInv, StoreInv, Sessions, Creations,
       Issuing, MayOverlap, Quiet, Live
  <1>13. ASSUME NEW r \in Requests, SignsIn(r)
        PROVE  CreateInv'
    BY <1>13, Numbers, CalmMay, ScopeKept DEF SignsIn, Frees, OthersKept, serverVars,
       CreateInv, AloneInv, KnownInv, StoreInv, Sessions, Creations, Issuing, MayOverlap,
       Quiet, Live
  <1>14. ASSUME NEW r \in Requests, Creates(r)
        PROVE  CreateInv'
    BY <1>14, Numbers, CalmMay, ScopeKept DEF Creates, Frees, OthersKept, serverVars,
       CreateInv, AloneInv, KnownInv, StoreInv, Sessions, Creations, Issuing, MayOverlap,
       Quiet, Live
  <1> QED BY <1>1, <1>2, <1>3, <1>4, <1>5, <1>6, <1>7, <1>8, <1>9, <1>10, <1>11, <1>12,
     <1>13, <1>14 DEF AnyShape


\* What the user chose last, or is about to create.
IsChosen(b) == b \in wanted \/ \E r \in Requests : req[r].kind \in Creations /\ req[r].target = b

\* The business a session is of after a refresh with t.
After(t) == IF scope[t] = NoBusiness THEN primary ELSE scope[t]

\* The session, and what a refresh makes of it, are of a business that was chosen.
WantInv ==
  /\ isAuthenticated =>
       /\ store.business \in {NoBusiness, After(store.refresh)}
       /\ IsChosen(store.business) /\ IsChosen(After(store.refresh))
  /\ refresh.st = "sent" =>
       /\ IsChosen(After(refresh.with))
       /\ isAuthenticated => refresh.with = store.refresh
  /\ refresh.st = "granted" =>
       /\ IsChosen(scope[refresh.pair]) /\ IsChosen(After(refresh.pair))
       /\ isAuthenticated => store.business \in {NoBusiness, scope[refresh.pair]}

LEMMA WantStep ==
  ASSUME TypeInv, KindInv, WaitInv, KnownInv, HandInv, StoreInv, Calm, AloneInv, CreateInv, WantInv, AnyShape
  PROVE  WantInv'
  <1>1. CASE Rests
    BY <1>1, Numbers, SessionAssumption, CalmMay, ScopeKept, NoRefreshThen DEF Rests,
       SameTokens, SameProfile, serverVars, WantInv, IsChosen, After, CreateInv, AloneInv,
       KnownInv, StoreInv, HandInv, InHand, KindInv, TypeInv, TargetInv, Sessions, Creations,
       Issuing, MayOverlap, Quiet, Live, isAuthenticated
  <1>2. CASE Grants
    <2> DEFINE n == issued'
    <2>1. /\ \A t \in Tokens : t <= issued => scope'[t] = scope[t]
          /\ scope'[n] = After(refresh.with)
          /\ refresh'.pair = n
      BY <1>2, ScopeKept DEF Grants, After
    <2>2. /\ UNCHANGED <<store, req, primary, members, wanted>>
          /\ refresh.st = "sent" /\ refresh'.st = "granted" /\ refresh'.with = refresh.with
      BY <1>2 DEF Grants
    <2>3. /\ store.refresh \in Tokens /\ store.refresh <= issued
          /\ refresh.with \in Tokens /\ refresh.with <= issued
          /\ \A r \in Requests : req[r].token \in Tokens /\ req[r].token <= issued
      BY Numbers DEF KnownInv
    <2> HIDE DEF n
    <2> QED BY <2>1, <2>2, <2>3 DEF WantInv, IsChosen, After, isAuthenticated
  <1>3. CASE Refuses
    BY <1>3, Numbers, SessionAssumption, CalmMay, ScopeKept, NoRefreshThen DEF Refuses,
       WantInv, IsChosen, After, CreateInv, AloneInv, KnownInv, StoreInv, HandInv, InHand,
       KindInv, TypeInv, TargetInv, Sessions, Creations, Issuing, MayOverlap, Quiet, Live,
       isAuthenticated
  <1>4. CASE Resends
    BY <1>4, Numbers, SessionAssumption, CalmMay, ScopeKept, NoRefreshThen DEF Resends,
       Waits, serverVars, WantInv, IsChosen, After, CreateInv, AloneInv, KnownInv, StoreInv,
       HandInv, InHand, KindInv, TypeInv, TargetInv, Sessions, Creations, Issuing,
       MayOverlap, Quiet, Live, isAuthenticated
  <1>5. CASE Clears
    BY <1>5, Numbers, SessionAssumption, CalmMay, ScopeKept, NoRefreshThen DEF Clears,
       Emptied, Rejects, Alike, Frees, OthersKept, Waits, serverVars, WantInv, IsChosen,
       After, CreateInv, AloneInv, KnownInv, StoreInv, HandInv, InHand, KindInv, TypeInv,
       TargetInv, Sessions, Creations, Issuing, MayOverlap, Quiet, Live, isAuthenticated
  <1>6. CASE Expires
    BY <1>6, Numbers, SessionAssumption, CalmMay, ScopeKept, NoRefreshThen DEF Expires,
       WantInv, IsChosen, After, CreateInv, AloneInv, KnownInv, StoreInv, HandInv, InHand,
       KindInv, TypeInv, TargetInv, Sessions, Creations, Issuing, MayOverlap, Quiet, Live,
       isAuthenticated
  <1>7. CASE Restarts
    BY <1>7, Numbers, SessionAssumption, CalmMay, ScopeKept, NoRefreshThen DEF Restarts,
       SameTokens, serverVars, WantInv, IsChosen, After, CreateInv, AloneInv, KnownInv,
       StoreInv, HandInv, InHand, KindInv, TypeInv, TargetInv, Sessions, Creations, Issuing,
       MayOverlap, Quiet, Live, isAuthenticated
  <1>8. ASSUME NEW r \in Requests, Sends(r)
        PROVE  WantInv'
    BY <1>8, Numbers, SessionAssumption, CalmMay, ScopeKept, NoRefreshThen DEF Sends,
       OthersKept, SameTokens, serverVars, WantInv, IsChosen, After, CreateInv, AloneInv,
       KnownInv, StoreInv, HandInv, InHand, KindInv, TypeInv, TargetInv, Sessions, Creations,
       Issuing, MayOverlap, Quiet, Live, isAuthenticated
  <1>9. ASSUME NEW r \in Requests, Marks(r)
        PROVE  WantInv'
    BY <1>9, Numbers, SessionAssumption, CalmMay, ScopeKept, NoRefreshThen DEF Marks,
       OthersKept, Alike, serverVars, WantInv, IsChosen, After, CreateInv, AloneInv,
       KnownInv, StoreInv, HandInv, InHand, KindInv, TypeInv, TargetInv, Sessions, Creations,
       Issuing, MayOverlap, Quiet, Live, isAuthenticated
  <1>10. ASSUME NEW r \in Requests, Serves(r)
        PROVE  WantInv'
    BY <1>10, Numbers, SessionAssumption, CalmMay, ScopeKept, NoRefreshThen DEF Serves,
       OthersKept, Issue, WantInv, IsChosen, After, CreateInv, AloneInv, KnownInv, StoreInv,
       HandInv, InHand, KindInv, TypeInv, TargetInv, Sessions, Creations, Issuing,
       MayOverlap, Quiet, Live, isAuthenticated
  <1>11. ASSUME NEW r \in Requests, StartsRefresh(r)
        PROVE  WantInv'
    BY <1>11, Numbers, SessionAssumption, CalmMay, ScopeKept, NoRefreshThen DEF
       StartsRefresh, OthersKept, Alike, serverVars, WantInv, IsChosen, After, CreateInv,
       AloneInv, KnownInv, StoreInv, HandInv, InHand, KindInv, TypeInv, TargetInv, Sessions,
       Creations, Issuing, MayOverlap, Quiet, Live, isAuthenticated
  <1>12. ASSUME NEW r \in Requests, Ends(r)
        PROVE  WantInv'
    BY <1>12, Numbers, SessionAssumption, CalmMay, ScopeKept, NoRefreshThen DEF Ends, Frees,
       OthersKept, SameTokens, SameProfile, serverVars, WantInv, IsChosen, After, CreateInv,
       AloneInv, KnownInv, StoreInv, HandInv, InHand, KindInv, TypeInv, TargetInv, Sessions,
       Creations, Issuing, MayOverlap, Quiet, Live, isAuthenticated
  <1>13. ASSUME NEW r \in Requests, SignsIn(r)
        PROVE  WantInv'
    BY <1>13, Numbers, SessionAssumption, CalmMay, ScopeKept, NoRefreshThen DEF SignsIn,
       Frees, OthersKept, serverVars, WantInv, IsChosen, After, CreateInv, AloneInv,
       KnownInv, StoreInv, HandInv, InHand, KindInv, TypeInv, TargetInv, Sessions, Creations,
       Issuing, MayOverlap, Quiet, Live, isAuthenticated
  <1>14. ASSUME NEW r \in Requests, Creates(r)
        PROVE  WantInv'
    BY <1>14, Numbers, SessionAssumption, CalmMay, ScopeKept, NoRefreshThen DEF Creates,
       Frees, OthersKept, serverVars, WantInv, IsChosen, After, CreateInv, AloneInv,
       KnownInv, StoreInv, HandInv, InHand, KindInv, TypeInv, TargetInv, Sessions, Creations,
       Issuing, MayOverlap, Quiet, Live, isAuthenticated
  <1> QED BY <1>1, <1>2, <1>3, <1>4, <1>5, <1>6, <1>7, <1>8, <1>9, <1>10, <1>11, <1>12,
     <1>13, <1>14 DEF AnyShape


\* What was read for business x still counts for business y: they are the same,
\* or the user had none and waits to hear of one that is created.
Agrees(x, y) == x = y \/ (x = NoBusiness /\ NoBusiness \in wanted)

\* The business a call runs in, or ran in.
Of(r) == IF req[r].st = "ok" THEN req[r].ranIn ELSE scope[req[r].token]

\* The calls of screens are of the session's business, and of what a refresh
\* that is under way makes of it.
CallInv ==
  \A r \in Requests : req[r].kind \in {"work", "foreground"} =>
    /\ req[r].kind = "work" =>
         /\ req[r].asked # NoBusiness
         /\ req[r].st \in {"sent", "unauthorized", "queued", "refreshing"} =>
              scope[req[r].token] = req[r].asked
         /\ req[r].runs = 1 => req[r].ranIn = req[r].asked
    /\ req[r].st # "failed" =>
         /\ isAuthenticated => Agrees(Of(r), store.business)
         /\ refresh.st = "sent" => Agrees(Of(r), After(refresh.with))
         /\ refresh.st = "granted" => Agrees(Of(r), scope[refresh.pair])

LEMMA CallStep ==
  ASSUME TypeInv, KindInv, WaitInv, KnownInv, HandInv, StoreInv, Calm, AloneInv, CreateInv, WantInv, RunInv, CallInv, AnyShape
  PROVE  CallInv'
  <1>1. CASE Rests
    BY <1>1, Numbers, SessionAssumption, CalmMay, ScopeKept, Fields DEF Rests, SameTokens,
       SameProfile, serverVars, CallInv, Agrees, Of, RunInv, WantInv, IsChosen, After,
       AloneInv, KnownInv, StoreInv, KindInv, TypeInv, TargetInv, Sessions, Creations,
       Issuing, MayOverlap, Quiet, Live, isAuthenticated
  <1>2. CASE Grants
    <2> DEFINE n == issued'
    <2>1. /\ \A t \in Tokens : t <= issued => scope'[t] = scope[t]
          /\ scope'[n] = After(refresh.with)
          /\ refresh'.pair = n
      BY <1>2, ScopeKept DEF Grants, After
    <2>2. /\ UNCHANGED <<store, req, primary, members, wanted>>
          /\ refresh.st = "sent" /\ refresh'.st = "granted" /\ refresh'.with = refresh.with
      BY <1>2 DEF Grants
    <2>3. /\ store.refresh \in Tokens /\ store.refresh <= issued
          /\ refresh.with \in Tokens /\ refresh.with <= issued
          /\ \A r \in Requests : req[r].token \in Tokens /\ req[r].token <= issued
      BY Numbers DEF KnownInv
    <2> HIDE DEF n
    <2> QED BY <2>1, <2>2, <2>3 DEF CallInv, Agrees, Of, After, isAuthenticated
  <1>3. CASE Refuses
    BY <1>3, Numbers, SessionAssumption, CalmMay, ScopeKept, Fields DEF Refuses, CallInv,
       Agrees, Of, RunInv, WantInv, IsChosen, After, AloneInv, KnownInv, StoreInv, KindInv,
       TypeInv, TargetInv, Sessions, Creations, Issuing, MayOverlap, Quiet, Live,
       isAuthenticated
  <1>4. CASE Resends
    BY <1>4, Numbers, SessionAssumption, CalmMay, ScopeKept, Fields DEF Resends, Waits,
       serverVars, CallInv, Agrees, Of, RunInv, WantInv, IsChosen, After, AloneInv, KnownInv,
       StoreInv, KindInv, TypeInv, TargetInv, Sessions, Creations, Issuing, MayOverlap,
       Quiet, Live, isAuthenticated
  <1>5. CASE Clears
    BY <1>5, Numbers, SessionAssumption, CalmMay, ScopeKept, Fields DEF Clears, Emptied,
       Rejects, Alike, Frees, OthersKept, Waits, serverVars, CallInv, Agrees, Of, RunInv,
       WantInv, IsChosen, After, AloneInv, KnownInv, StoreInv, KindInv, TypeInv, TargetInv,
       Sessions, Creations, Issuing, MayOverlap, Quiet, Live, isAuthenticated
  <1>6. CASE Expires
    BY <1>6, Numbers, SessionAssumption, CalmMay, ScopeKept, Fields DEF Expires, CallInv,
       Agrees, Of, RunInv, WantInv, IsChosen, After, AloneInv, KnownInv, StoreInv, KindInv,
       TypeInv, TargetInv, Sessions, Creations, Issuing, MayOverlap, Quiet, Live,
       isAuthenticated
  <1>7. CASE Restarts
    BY <1>7, Numbers, SessionAssumption, CalmMay, ScopeKept, Fields DEF Restarts, SameTokens,
       serverVars, CallInv, Agrees, Of, RunInv, WantInv, IsChosen, After, AloneInv, KnownInv,
       StoreInv, KindInv, TypeInv, TargetInv, Sessions, Creations, Issuing, MayOverlap,
       Quiet, Live, isAuthenticated
  <1>8. ASSUME NEW r \in Requests, Sends(r)
        PROVE  CallInv'
    BY <1>8, Numbers, SessionAssumption, CalmMay, ScopeKept, Fields DEF Sends, OthersKept,
       SameTokens, serverVars, CallInv, Agrees, Of, RunInv, WantInv, IsChosen, After,
       AloneInv, KnownInv, StoreInv, KindInv, TypeInv, TargetInv, Sessions, Creations,
       Issuing, MayOverlap, Quiet, Live, isAuthenticated
  <1>9. ASSUME NEW r \in Requests, Marks(r)
        PROVE  CallInv'
    BY <1>9, Numbers, SessionAssumption, CalmMay, ScopeKept, Fields DEF Marks, OthersKept,
       Alike, serverVars, CallInv, Agrees, Of, RunInv, WantInv, IsChosen, After, AloneInv,
       KnownInv, StoreInv, KindInv, TypeInv, TargetInv, Sessions, Creations, Issuing,
       MayOverlap, Quiet, Live, isAuthenticated
  <1>10. ASSUME NEW r \in Requests, Serves(r)
        PROVE  CallInv'
    BY <1>10, Numbers, SessionAssumption, CalmMay, ScopeKept, Fields DEF Serves, OthersKept,
       Issue, CallInv, Agrees, Of, RunInv, WantInv, IsChosen, After, AloneInv, KnownInv,
       StoreInv, KindInv, TypeInv, TargetInv, Sessions, Creations, Issuing, MayOverlap,
       Quiet, Live, isAuthenticated
  <1>11. ASSUME NEW r \in Requests, StartsRefresh(r)
        PROVE  CallInv'
    BY <1>11, Numbers, SessionAssumption, CalmMay, ScopeKept, Fields DEF StartsRefresh,
       OthersKept, Alike, serverVars, CallInv, Agrees, Of, RunInv, WantInv, IsChosen, After,
       AloneInv, KnownInv, StoreInv, KindInv, TypeInv, TargetInv, Sessions, Creations,
       Issuing, MayOverlap, Quiet, Live, isAuthenticated
  <1>12. ASSUME NEW r \in Requests, Ends(r)
        PROVE  CallInv'
    BY <1>12, Numbers, SessionAssumption, CalmMay, ScopeKept, Fields DEF Ends, Frees,
       OthersKept, SameTokens, SameProfile, serverVars, CallInv, Agrees, Of, RunInv, WantInv,
       IsChosen, After, AloneInv, KnownInv, StoreInv, KindInv, TypeInv, TargetInv, Sessions,
       Creations, Issuing, MayOverlap, Quiet, Live, isAuthenticated
  <1>13. ASSUME NEW r \in Requests, SignsIn(r)
        PROVE  CallInv'
    BY <1>13, Numbers, SessionAssumption, CalmMay, ScopeKept, Fields DEF SignsIn, Frees,
       OthersKept, serverVars, CallInv, Agrees, Of, RunInv, WantInv, IsChosen, After,
       AloneInv, KnownInv, StoreInv, KindInv, TypeInv, TargetInv, Sessions, Creations,
       Issuing, MayOverlap, Quiet, Live, isAuthenticated
  <1>14. ASSUME NEW r \in Requests, Creates(r)
        PROVE  CallInv'
    BY <1>14, Numbers, SessionAssumption, CalmMay, ScopeKept, Fields DEF Creates, Frees,
       OthersKept, serverVars, CallInv, Agrees, Of, RunInv, WantInv, IsChosen, After,
       AloneInv, KnownInv, StoreInv, KindInv, TypeInv, TargetInv, Sessions, Creations,
       Issuing, MayOverlap, Quiet, Live, isAuthenticated
  <1> QED BY <1>1, <1>2, <1>3, <1>4, <1>5, <1>6, <1>7, <1>8, <1>9, <1>10, <1>11, <1>12,
     <1>13, <1>14 DEF AnyShape


\* The profile that was loaded is the session's.
ProfileInv ==
  store.status = "ready" /\ isAuthenticated => Agrees(store.profile, store.business)

LEMMA ProfileStep ==
  ASSUME TypeInv, StoreInv, Calm, RunInv, CallInv, ProfileInv, AnyShape
  PROVE  ProfileInv'
  <1>1. CASE Rests
    BY <1>1 DEF Rests, SameTokens, SameProfile, serverVars, ProfileInv, CallInv, Agrees, Of,
       RunInv, StoreInv, isAuthenticated
  <1>2. CASE Grants
    BY <1>2 DEF Grants, Issue, ProfileInv, CallInv, Agrees, Of, RunInv, StoreInv,
       isAuthenticated
  <1>3. CASE Refuses
    BY <1>3 DEF Refuses, ProfileInv, CallInv, Agrees, Of, RunInv, StoreInv, isAuthenticated
  <1>4. CASE Resends
    BY <1>4 DEF Resends, Waits, serverVars, ProfileInv, CallInv, Agrees, Of, RunInv,
       StoreInv, isAuthenticated
  <1>5. CASE Clears
    BY <1>5 DEF Clears, Emptied, Rejects, Alike, Frees, OthersKept, Waits, serverVars,
       ProfileInv, CallInv, Agrees, Of, RunInv, StoreInv, isAuthenticated
  <1>6. CASE Expires
    BY <1>6 DEF Expires, ProfileInv, CallInv, Agrees, Of, RunInv, StoreInv, isAuthenticated
  <1>7. CASE Restarts
    BY <1>7 DEF Restarts, SameTokens, serverVars, ProfileInv, CallInv, Agrees, Of, RunInv,
       StoreInv, isAuthenticated
  <1>8. ASSUME NEW r \in Requests, Sends(r)
        PROVE  ProfileInv'
    BY <1>8 DEF Sends, OthersKept, SameTokens, serverVars, ProfileInv, CallInv, Agrees, Of,
       RunInv, StoreInv, isAuthenticated
  <1>9. ASSUME NEW r \in Requests, Marks(r)
        PROVE  ProfileInv'
    BY <1>9 DEF Marks, OthersKept, Alike, serverVars, ProfileInv, CallInv, Agrees, Of,
       RunInv, StoreInv, isAuthenticated
  <1>10. ASSUME NEW r \in Requests, Serves(r)
        PROVE  ProfileInv'
    BY <1>10 DEF Serves, OthersKept, Issue, ProfileInv, CallInv, Agrees, Of, RunInv,
       StoreInv, isAuthenticated
  <1>11. ASSUME NEW r \in Requests, StartsRefresh(r)
        PROVE  ProfileInv'
    BY <1>11 DEF StartsRefresh, OthersKept, Alike, serverVars, ProfileInv, CallInv, Agrees,
       Of, RunInv, StoreInv, isAuthenticated
  <1>12. ASSUME NEW r \in Requests, Ends(r)
        PROVE  ProfileInv'
    BY <1>12 DEF Ends, Frees, OthersKept, SameTokens, SameProfile, serverVars, ProfileInv,
       CallInv, Agrees, Of, RunInv, StoreInv, isAuthenticated
  <1>13. ASSUME NEW r \in Requests, SignsIn(r)
        PROVE  ProfileInv'
    BY <1>13 DEF SignsIn, Frees, OthersKept, serverVars, ProfileInv, CallInv, Agrees, Of,
       RunInv, StoreInv, isAuthenticated
  <1>14. ASSUME NEW r \in Requests, Creates(r)
        PROVE  ProfileInv'
    BY <1>14 DEF Creates, Frees, OthersKept, serverVars, ProfileInv, CallInv, Agrees, Of,
       RunInv, StoreInv, isAuthenticated
  <1> QED BY <1>1, <1>2, <1>3, <1>4, <1>5, <1>6, <1>7, <1>8, <1>9, <1>10, <1>11, <1>12,
     <1>13, <1>14 DEF AnyShape

CalmInv == Calm => AloneInv /\ CreateInv /\ WantInv /\ CallInv /\ ProfileInv

IInv == SafeInv /\ CalmInv

LEMMA CalmInit == Init => CalmInv
  <1> SUFFICES ASSUME Init PROVE CalmInv
    OBVIOUS
  <1>1. AloneInv /\ CallInv
    BY DEF Init, NoRequest, AloneInv, CallInv, Sessions
  <1>2. CreateInv
    BY DEF Init, NoRequest, NoRefresh, CreateInv
  <1>3. WantInv /\ ProfileInv
    BY DEF Init, NoRefresh, WantInv, ProfileInv, isAuthenticated
  <1> QED BY <1>1, <1>2, <1>3 DEF CalmInv

LEMMA CalmStep == IInv /\ [Next]_vars => CalmInv'
  <1> SUFFICES ASSUME IInv, [Next]_vars PROVE CalmInv'
    OBVIOUS
  <1>1. AnyShape
    BY Shapes DEF IInv, SafeInv
  <1>2. world' = world
    BY <1>1 DEF AnyShape, Rests, Sends, Marks, Serves, StartsRefresh, Grants, Refuses,
       Resends, Clears, Ends,
       SignsIn, Creates, Expires, Restarts
  <1>3. CASE Calm
    <2>1. AloneInv' /\ CreateInv'
      BY <1>1, <1>3, AloneStep, CreateStep DEF IInv, SafeInv, CalmInv
    <2>2. WantInv' /\ CallInv' /\ ProfileInv'
      BY <1>1, <1>3, WantStep, CallStep, ProfileStep DEF IInv, SafeInv, CalmInv
    <2> QED BY <2>1, <2>2 DEF CalmInv
  <1>4. CASE ~Calm
    BY <1>2, <1>4 DEF CalmInv, Calm
  <1> QED BY <1>3, <1>4

LEMMA Agree == IInv => SessionAgrees
  <1> SUFFICES ASSUME IInv PROVE SessionAgrees
    OBVIOUS
  <1>1. SessionAsWanted
    BY DEF IInv, CalmInv, WantInv, IsChosen, SessionAsWanted, Chosen
  <1>2. RunsWhereAsked
    BY DEF IInv, SafeInv, RunInv, CalmInv, CallInv, RunsWhereAsked
  <1>3. ProfileMatchesBusiness
    BY DEF IInv, CalmInv, ProfileInv, Agrees, ProfileMatchesBusiness
  <1> QED BY <1>1, <1>2, <1>3 DEF SessionAgrees

\* The session, its calls and its profile are of the business the user chose,
\* for any number of refreshes, lost answers and restarts.
THEOREM SessionsAgree == Spec => []SessionAgrees
  <1>1. Init => IInv
    BY SafeInit, CalmInit DEF IInv
  <1>2. IInv /\ [Next]_vars => IInv'
    BY SafeStep, CalmStep DEF IInv
  <1> QED BY <1>1, <1>2, Agree, PTL DEF Spec
=============================================================================
