---------------------------- MODULE ClientSession ----------------------------
(***************************************************************************)
(* The session of the mobile app: the token pair in the auth store, the    *)
(* requests of the axios client and their retry after a 401, the sign-in,  *)
(* sign-out, business switch and business creation, the profile that is    *)
(* loaded for the session, and the redirects between the screen groups.    *)
(*                                                                         *)
(* Of the server this part has the endpoints of auth: it issues token      *)
(* pairs for a business with the role of the member, lets access tokens    *)
(* expire, and accepts a refresh token once.  The n-th token it issues is  *)
(* the number n; 0 is null.                                                *)
(***************************************************************************)
EXTENDS Naturals, FiniteSets

CONSTANTS
  Businesses,   \* businesses the user is, or can become, a member of
  NoBusiness,   \* null: a user without a business
  Primaries,    \* the business the user may have joined first, or none
  Requests,     \* slots for requests in flight
  MaxTokens,    \* bound: tokens the server issues
  Worlds        \* the circumstances under which the app may run

ASSUME SessionAssumption ==
  /\ NoBusiness \notin Businesses
  /\ Primaries \subseteq Businesses \cup {NoBusiness}
  /\ MaxTokens \in Nat
  /\ Worlds \subseteq [hazards: SUBSET {"network", "restart", "overlap", "second_business"},
                      tokens: 0..MaxTokens, agent: BOOLEAN,
                      joined: {"owner", "manager", "staff"}]

VARIABLES
  store,      \* the auth store and the root layout's memory of it
  req,        \* the requests in flight
  refresh,    \* the refresh call of the 401 interceptor
  issued,     \* number of tokens the server has issued
  scope,      \* the business a token was issued for
  expired,    \* access tokens the server no longer accepts
  presented,  \* how often a refresh token was presented: not, once, or again
  revoked,    \* refresh tokens the server has exchanged or logged out
  primary,    \* the business the user joined first
  members,    \* the businesses the user is a member of
  position,   \* the user's role in each of them
  screen,     \* the screen group that is shown
  world,      \* the circumstances: what may go wrong, how many tokens there are,
              \* whether the user is a field agent, and as what he has joined
  wanted      \* history: what the user last chose (more than one after a call
              \* of unknown outcome, nothing after a log-out)

serverVars == <<issued, scope, expired, presented, revoked, primary, members, position>>
vars == <<store, req, refresh, serverVars, screen, world, wanted>>

Scopes == Businesses \cup {NoBusiness}
Tokens == 0..MaxTokens
Wizard == {"business", "momo", "kyc", "plan"}
Screens == Wizard \cup {"login", "otp", "owner", "agent"}
MemberRoles == {"owner", "manager", "staff"}
Roles == MemberRoles \cup {"agent", "none"}

\* Who calls: a screen or the sync service, the root layout (twice), the sign-in,
\* the business switcher, the onboarding, add-business, an agent's log-out.
Kinds == {"work", "validate", "foreground", "verify", "switch", "create", "add",
          "logout"}
Creations == {"create", "add"}

\* What a request goes through: sent, then answered or refused by the server,
\* then parked while somebody refreshes the session, then sent once more.
Stages == {"idle", "sent", "ok", "unauthorized", "failed", "queued", "refreshing"}

RequestType ==
  [st: Stages, kind: Kinds \cup {"none"}, token: Tokens, asked: Scopes,
   target: Scopes, held: Tokens, retried: BOOLEAN, result: Tokens,
   runs: Nat, ranIn: Scopes]

NoRequest ==
  [st |-> "idle", kind |-> "none", token |-> 0, asked |-> NoBusiness,
   target |-> NoBusiness, held |-> 0, retried |-> FALSE, result |-> 0,
   runs |-> 0, ranIn |-> NoBusiness]

NoRefresh == [st |-> "none", with |-> 0, pair |-> 0]

StoreType ==
  [access: Tokens, refresh: Tokens, business: Scopes, role: Roles,
   status: {"idle", "loading", "ready"}, profile: Scopes,
   checked: Tokens, biometric: BOOLEAN, unlocked: Tokens]

RefreshType == [st: {"none", "sent", "granted", "refused"}, with: Tokens, pair: Tokens]

TypeOK ==
  /\ store \in StoreType
  /\ req \in [Requests -> RequestType]
  /\ refresh \in RefreshType
  /\ issued \in Tokens
  /\ scope \in [Tokens -> Scopes]
  /\ expired \subseteq Tokens
  /\ presented \in [Tokens -> 0..2]
  /\ revoked \subseteq Tokens
  /\ primary \in Scopes
  /\ members \subseteq Businesses
  /\ position \in [Businesses -> MemberRoles]
  /\ screen \in Screens
  /\ world \in Worlds
  /\ wanted \subseteq Scopes

Init ==
  /\ store = [access |-> 0, refresh |-> 0, business |-> NoBusiness,
              role |-> "none", status |-> "idle", profile |-> NoBusiness,
              checked |-> 0, biometric |-> FALSE, unlocked |-> 0]
  /\ req = [r \in Requests |-> NoRequest]
  /\ refresh = NoRefresh
  /\ issued = 0
  /\ scope = [t \in Tokens |-> NoBusiness]
  /\ expired = {}
  /\ presented = [t \in Tokens |-> 0]
  /\ revoked = {}
  /\ primary \in Primaries
  /\ members \in {m \in SUBSET Businesses : primary \in m \cup {NoBusiness}
                                            /\ (primary = NoBusiness => m = {})}
  /\ screen = "login"
  /\ world \in Worlds
  /\ position = [b \in Businesses |-> IF b \in members THEN world.joined ELSE "owner"]
  /\ wanted = {}

-----------------------------------------------------------------------------
(* The auth store. *)

isAuthenticated == store.access # 0

hasBusinessContext ==
  isAuthenticated /\ store.business # NoBusiness /\ store.role # "none"

\* Mutant: no role for a user who is neither a member nor an agent.
Role_unset(b) ==
  IF b # NoBusiness THEN position[b] ELSE IF world.agent THEN "agent" ELSE "unset"

\* The role the server gives with a token pair: the member's, or the agent's.
Role(b) ==
  IF b # NoBusiness THEN position[b] ELSE IF world.agent THEN "agent" ELSE "none"

\* setAuth, setRefreshedSession: a pair replaces the session and empties the
\* business context.
WithPair(s, pair) ==
  [s EXCEPT !.access = pair, !.refresh = pair, !.business = scope[pair],
            !.role = Role(scope[pair]), !.status = "idle", !.profile = NoBusiness]

\* setBusinessContext: an access token and a business; the refresh token stays.
WithAccess(s, token, b, role) ==
  [s EXCEPT !.access = token, !.business = b, !.role = role,
            !.status = "idle", !.profile = NoBusiness]

\* clearAuth, and the effects that forget which token was checked or unlocked.
Cleared(s) ==
  [s EXCEPT !.access = 0, !.refresh = 0, !.business = NoBusiness,
            !.role = "none", !.status = "idle", !.profile = NoBusiness, !.checked = 0,
            !.unlocked = 0]

\* setSessionContext with what a bootstrap loaded.
WithProfile(s, b) == [s EXCEPT !.status = "ready", !.profile = b]

\* fetchSessionBootstrap loads the profile of the business of the token.
Bootstrap(r) == req[r].ranIn

May(hazard) == hazard \in world.hazards

Live(r) == req[r].st # "idle"

Quiet == (\A r \in Requests : ~Live(r)) /\ refresh.st = "none"

\* The tree is shown: the session of this token was checked, and unlocked.
Mounted == ~isAuthenticated \/ store.checked = store.access
Unlocked == ~isAuthenticated \/ ~store.biometric \/ store.unlocked = store.access
Shown == Mounted /\ Unlocked
Usable == isAuthenticated /\ Shown

\* One tap at a time: loading flags and isPending keep a second one out.
NoneOf(kind) == \A r \in Requests : req[r].kind # kind

\* A call that changes the session is under way.
SessionCall == \E r \in Requests : req[r].kind \in {"verify", "switch", "create", "add", "logout"}

\* Nothing in the app keeps a tap that changes the session and the other calls
\* apart; without this hazard they happen not to meet.
MayOverlap == May("overlap") \/ Quiet
MayCall == May("overlap") \/ ~SessionCall

-----------------------------------------------------------------------------
(* Requests: the request interceptor puts the access token of the moment on
   each of them. *)

Send(r, kind, target, held) ==
  /\ req[r].st = "idle"
  /\ req' = [req EXCEPT ![r] =
       [NoRequest EXCEPT !.st = "sent", !.kind = kind, !.token = store.access,
                         !.asked = store.business, !.target = target,
                         !.held = held]]

\* A screen, or the sync service, calls an endpoint of the business.
Work(r) ==
  /\ hasBusinessContext
  /\ MayCall
  /\ Send(r, "work", NoBusiness, 0)
  /\ UNCHANGED <<store, refresh, serverVars, screen, world, wanted>>

\* The root layout validates the stored session once per access token.
ValidateStoredSession(r) ==
  /\ isAuthenticated
  /\ store.checked # store.access
  /\ \A q \in Requests : req[q].kind = "validate" => req[q].held # store.access
  /\ Send(r, "validate", NoBusiness, store.access)
  /\ store' = [store EXCEPT !.status = "loading"]
  /\ UNCHANGED <<refresh, serverVars, screen, world, wanted>>

\* Coming to the foreground refreshes the profile, once at a time per access
\* token, without a cancel check.
RefreshOnForeground(r) ==
  /\ isAuthenticated
  /\ \A q \in Requests : req[q].kind = "foreground" => req[q].held # store.access
  /\ MayCall
  /\ Send(r, "foreground", NoBusiness, store.access)
  /\ UNCHANGED <<store, refresh, serverVars, screen, world, wanted>>

\* The phone number is sent and the code asked for.
RequestOtp ==
  /\ screen = "login"
  /\ ~isAuthenticated
  /\ screen' = "otp"
  /\ UNCHANGED <<store, req, refresh, serverVars, world, wanted>>

VerifyOtp(r) ==
  /\ screen = "otp"
  /\ Shown
  /\ NoneOf("verify")
  /\ MayOverlap
  /\ Send(r, "verify", NoBusiness, 0)
  /\ UNCHANGED <<store, refresh, serverVars, screen, world, wanted>>

SwitchBusiness(r, b) ==
  /\ Usable
  /\ screen = "owner"
  /\ hasBusinessContext
  /\ b \in members \ {store.business}
  /\ NoneOf("switch")
  /\ MayOverlap
  /\ Send(r, "switch", b, 0)
  /\ UNCHANGED <<store, refresh, serverVars, screen, world, wanted>>

\* The business step of the onboarding, which a user may come back to.
CreateBusiness(r, b) ==
  /\ Usable
  /\ screen = "business"
  /\ store.business = NoBusiness \/ May("second_business")
  /\ b \notin members
  /\ NoneOf("create")
  /\ MayOverlap
  /\ Send(r, "create", b, 0)
  /\ UNCHANGED <<store, refresh, serverVars, screen, world, wanted>>

\* The owner's form for one more business.
AddBusiness(r, b) ==
  /\ May("second_business")
  /\ Usable
  /\ screen = "owner"
  /\ hasBusinessContext
  /\ b \notin members
  /\ NoneOf("add")
  /\ MayOverlap
  /\ Send(r, "add", b, 0)
  /\ UNCHANGED <<store, refresh, serverVars, screen, world, wanted>>

\* A field agent's log-out tells the server first.
Logout(r) ==
  /\ Usable
  /\ screen = "agent"
  /\ NoneOf("logout")
  /\ MayOverlap
  /\ Send(r, "logout", NoBusiness, store.refresh)
  /\ UNCHANGED <<store, refresh, serverVars, screen, world, wanted>>

\* An owner's log-out, and "use phone number instead", only clear the store.
SignOut ==
  /\ isAuthenticated
  /\ Mounted
  /\ ~Unlocked \/ screen = "owner"
  /\ MayOverlap
  /\ store' = [Cleared(store) EXCEPT !.biometric = Unlocked /\ store.biometric]
  /\ screen' = "login"
  /\ wanted' = {}
  /\ UNCHANGED <<req, refresh, serverVars, world>>

-----------------------------------------------------------------------------
(* The server. *)

\* An access token lives for fifteen minutes, longer than a call that is sent
\* again with it; with the hazard, a call may outlast it.
Expire ==
  /\ May("overlap") \/ \A r \in Requests : ~req[r].retried
  /\ store.access # 0
  /\ store.access \notin expired
  /\ issued < world.tokens
  /\ expired' = expired \cup {store.access}
  /\ UNCHANGED <<store, req, refresh, issued, scope, presented, revoked, primary,
                 members, position, screen, world, wanted>>

Issue(b) ==
  /\ issued < world.tokens
  /\ issued' = issued + 1
  /\ scope' = [scope EXCEPT ![issued + 1] = b]

NeedsToken(kind) == kind \notin {"verify", "logout"}

\* The server refuses an expired token, and otherwise does what is asked, in
\* the business of the token.
Refuse(r) ==
  /\ req[r].st = "sent"
  /\ NeedsToken(req[r].kind)
  /\ req[r].token = 0 \/ req[r].token \in expired
  /\ req' = [req EXCEPT ![r].st = "unauthorized"]
  /\ UNCHANGED <<store, refresh, serverVars, screen, world, wanted>>

\* The plan of the first business does not allow a second one. (The server counts
\* those the user owns; without the hazard, whoever asks for one has joined none.)
OverLimit(q) == q.kind \in Creations /\ members # {} /\ ~May("second_business")

Decline(r) ==
  /\ req[r].st = "sent"
  /\ req[r].token # 0 /\ req[r].token \notin expired
  /\ OverLimit(req[r])
  /\ req' = [req EXCEPT ![r].st = "failed"]
  /\ UNCHANGED <<store, refresh, serverVars, screen, world, wanted>>

Serve(r) ==
  LET q == req[r] IN
  /\ q.st = "sent"
  /\ NeedsToken(q.kind) => q.token # 0 /\ q.token \notin expired
  /\ ~OverLimit(q)
  /\ CASE q.kind = "verify" -> Issue(primary)
       [] q.kind \in Creations \cup {"switch"} -> Issue(q.target)
       [] OTHER -> UNCHANGED <<issued, scope>>
  /\ members' = IF q.kind \in Creations THEN members \cup {q.target} ELSE members
  /\ position' = IF q.kind \in Creations THEN [position EXCEPT ![q.target] = "owner"]
                 ELSE position
  /\ primary' = IF q.kind \in Creations /\ primary = NoBusiness THEN q.target ELSE primary
  /\ revoked' = IF q.kind = "logout" THEN revoked \cup {q.held} ELSE revoked
  /\ req' = [req EXCEPT ![r].st = "ok", ![r].result = issued',
                        ![r].runs = @ + 1, ![r].ranIn = scope[q.token]]
  /\ UNCHANGED <<store, refresh, expired, presented, screen, world, wanted>>

\* No network, a timeout, or an answer that is lost.
Lose(r) ==
  /\ May("network")
  /\ req[r].st \in {"sent", "ok"}
  /\ req' = [req EXCEPT ![r].st = "failed"]
  /\ UNCHANGED <<store, refresh, serverVars, screen, world, wanted>>

-----------------------------------------------------------------------------
(* The response interceptor. *)

Rejected(q) == [q EXCEPT !.st = "failed"]

\* Sent again with the token that is given, and not a third time.
Resent(q, token) == [q EXCEPT !.st = "sent", !.token = token, !.retried = TRUE]

\* clearExpiredSession: the store is cleared and the layout goes to the login.
ClearExpiredSession ==
  /\ store' = Cleared(store)
  /\ screen' = "login"

\* processQueue(error): everybody who waits is rejected, and so is r.
RejectQueue(r) ==
  req' = [q \in Requests |-> IF q = r \/ req[q].st = "queued"
                              THEN Rejected(req[q]) ELSE req[q]]

\* A second 401, or the 401 of a request that was sent again.
GiveUp(r) ==
  /\ req[r].st = "unauthorized"
  /\ req[r].retried
  /\ req' = [req EXCEPT ![r] = Rejected(@)]
  /\ UNCHANGED <<store, refresh, serverVars, screen, world, wanted>>

\* isRefreshing: wait in failedQueue.
WaitForRefresh(r) ==
  /\ req[r].st = "unauthorized"
  /\ ~req[r].retried
  /\ refresh.st # "none"
  /\ req' = [req EXCEPT ![r].st = "queued"]
  /\ UNCHANGED <<store, refresh, serverVars, screen, world, wanted>>

NoRefreshToken(r) ==
  /\ req[r].st = "unauthorized"
  /\ ~req[r].retried
  /\ refresh.st = "none"
  /\ store.refresh = 0
  /\ ClearExpiredSession
  /\ RejectQueue(r)
  /\ UNCHANGED <<refresh, serverVars, world, wanted>>

\* Mutant: nobody looks whether a refresh is under way.
StartRefresh_again(r) ==
  /\ req[r].st = "unauthorized"
  /\ ~req[r].retried
  /\ store.refresh # 0
  /\ refresh' = [st |-> "sent", with |-> store.refresh, pair |-> 0]
  /\ req' = [req EXCEPT ![r].st = "refreshing"]
  /\ UNCHANGED <<store, serverVars, screen, world, wanted>>

StartRefresh(r) ==
  /\ req[r].st = "unauthorized"
  /\ ~req[r].retried
  /\ refresh.st = "none"
  /\ store.refresh # 0
  /\ refresh' = [st |-> "sent", with |-> store.refresh, pair |-> 0]
  /\ req' = [req EXCEPT ![r].st = "refreshing"]
  /\ UNCHANGED <<store, serverVars, screen, world, wanted>>

\* The server rotates the refresh token, or refuses one it has seen before.
ServeRefresh ==
  /\ refresh.st = "sent"
  /\ presented' = [presented EXCEPT ![refresh.with] = IF @ = 0 THEN 1 ELSE 2]
  /\ IF refresh.with \in revoked
     THEN /\ refresh' = [refresh EXCEPT !.st = "refused"]
          /\ UNCHANGED <<issued, scope, revoked>>
     ELSE /\ Issue(IF scope[refresh.with] = NoBusiness THEN primary
                ELSE scope[refresh.with])
          /\ revoked' = revoked \cup {refresh.with}
          /\ refresh' = [refresh EXCEPT !.st = "granted", !.pair = issued + 1]
  /\ UNCHANGED <<store, req, expired, primary, members, position, screen, world, wanted>>

LoseRefresh ==
  /\ May("network")
  /\ refresh.st \in {"sent", "granted"}
  /\ refresh' = [refresh EXCEPT !.st = "refused"]
  /\ UNCHANGED <<store, req, serverVars, screen, world, wanted>>

\* setRefreshedSession; the queue and the first request are sent again.
RefreshSucceeds ==
  /\ refresh.st = "granted"
  /\ store' = WithPair(store, refresh.pair)
  /\ req' = [q \in Requests |-> IF req[q].st \in {"queued", "refreshing"}
                              THEN Resent(req[q], refresh.pair) ELSE req[q]]
  /\ refresh' = NoRefresh
  /\ UNCHANGED <<serverVars, screen, world, wanted>>

RefreshFails ==
  /\ refresh.st = "refused"
  /\ ClearExpiredSession
  /\ req' = [q \in Requests |-> IF req[q].st \in {"queued", "refreshing"}
                              THEN Rejected(req[q]) ELSE req[q]]
  /\ refresh' = NoRefresh
  /\ UNCHANGED <<serverVars, world, wanted>>

-----------------------------------------------------------------------------
(* What the callers do with the answer. *)

Free(r) == req' = [req EXCEPT ![r] = NoRequest]

\* A call of a screen or of the sync service is over.
EndWork(r) ==
  /\ req[r].kind = "work"
  /\ req[r].st \in {"ok", "failed"}
  /\ Free(r)
  /\ UNCHANGED <<store, refresh, serverVars, screen, world, wanted>>

\* The effect was cancelled when another access token replaced its own.
Cancelled(r) == req[r].held # store.access

SessionValidated(r) ==
  /\ req[r].kind = "validate"
  /\ req[r].st = "ok"
  /\ store' = IF Cancelled(r) THEN store
              ELSE [WithProfile(store, Bootstrap(r)) EXCEPT !.checked = store.access]
  /\ Free(r)
  /\ UNCHANGED <<refresh, serverVars, screen, world, wanted>>

\* Any error of the bootstrap ends the session, also one of the network.
SessionInvalid(r) ==
  /\ req[r].kind = "validate"
  /\ req[r].st = "failed"
  /\ IF Cancelled(r) THEN UNCHANGED <<store, screen>> ELSE ClearExpiredSession
  /\ Free(r)
  /\ UNCHANGED <<refresh, serverVars, world, wanted>>

ForegroundRefreshed(r) ==
  /\ req[r].kind = "foreground"
  /\ req[r].st \in {"ok", "failed"}
  /\ store' = IF req[r].st = "ok" THEN WithProfile(store, Bootstrap(r)) ELSE store
  /\ Free(r)
  /\ UNCHANGED <<refresh, serverVars, screen, world, wanted>>

OtpVerified(r) ==
  /\ req[r].kind = "verify"
  /\ req[r].st = "ok"
  /\ store' = WithPair(store, req[r].result)
  /\ wanted' = {scope[req[r].result]}
  /\ screen' = IF scope[req[r].result] = NoBusiness THEN "business" ELSE "owner"
  /\ Free(r)
  /\ UNCHANGED <<refresh, serverVars, world>>

\* Mutant: only the access token is replaced, as when a business is added.
BusinessSwitched_access(r) ==
  /\ req[r].kind = "switch"
  /\ req[r].st = "ok"
  /\ store' = WithAccess(store, req[r].result, req[r].target, "owner")
  /\ wanted' = {req[r].target}
  /\ Free(r)
  /\ UNCHANGED <<refresh, serverVars, screen, world>>

BusinessSwitched(r) ==
  /\ req[r].kind = "switch"
  /\ req[r].st = "ok"
  /\ store' = WithPair(store, req[r].result)
  /\ wanted' = {req[r].target}
  /\ Free(r)
  /\ UNCHANGED <<refresh, serverVars, screen, world>>

\* The new token counts for the new business; the refresh token stays the old
\* one. The onboarding keeps a role it has, "none" included.
BusinessCreated(r) ==
  /\ req[r].kind = "create"
  /\ req[r].st = "ok"
  /\ store' = WithAccess(store, req[r].result, req[r].target,
                         IF store.role = "agent" THEN "owner" ELSE store.role)
  /\ wanted' = {req[r].target}
  /\ screen' = "momo"
  /\ Free(r)
  /\ UNCHANGED <<refresh, serverVars, world>>

BusinessAdded(r) ==
  /\ req[r].kind = "add"
  /\ req[r].st = "ok"
  /\ store' = WithAccess(store, req[r].result, req[r].target, "owner")
  /\ wanted' = {req[r].target}
  /\ screen' = "owner"
  /\ Free(r)
  /\ UNCHANGED <<refresh, serverVars, world>>

\* onSettled: the session is cleared whatever the server said.
LoggedOut(r) ==
  /\ req[r].kind = "logout"
  /\ req[r].st \in {"ok", "failed"}
  /\ store' = Cleared(store)
  /\ wanted' = {}
  /\ screen' = "login"
  /\ Free(r)
  /\ UNCHANGED <<refresh, serverVars, world>>

\* A sign-in, a switch or a creation that failed says so and changes nothing,
\* although the server may have created the business.
TapFailed(r) ==
  /\ req[r].kind \in Creations \cup {"verify", "switch"}
  /\ req[r].st = "failed"
  /\ wanted' = IF req[r].kind \in Creations THEN wanted \cup {req[r].target} ELSE wanted
  /\ Free(r)
  /\ UNCHANGED <<store, refresh, serverVars, screen, world>>

-----------------------------------------------------------------------------
(* Screens. *)

ShowScreen(s) ==
  /\ screen' = s
  /\ UNCHANGED <<store, req, refresh, serverVars, world, wanted>>

\* Mutant: everybody without a business belongs to the agents.
AuthRedirect_agent(from) ==
  IF ~isAuthenticated
  THEN IF from \in {"login", "otp"} THEN from ELSE "login"
  ELSE IF ~hasBusinessContext THEN "agent"
  ELSE IF from \in {"login", "otp"} THEN "owner" ELSE from

\* getAuthRedirect: where the root layout sends the user from a screen.
AuthRedirect(from) ==
  IF ~isAuthenticated
  THEN IF from \in {"login", "otp"} THEN from ELSE "login"
  ELSE IF ~hasBusinessContext
  THEN IF store.role = "agent" THEN "agent"
       ELSE IF from \in Wizard THEN from ELSE "business"
  ELSE IF from \in {"login", "otp"} THEN "owner" ELSE from

\* The guards of the owner and of the agent layout.
OwnerGuard ==
  IF ~isAuthenticated THEN "login" ELSE IF ~hasBusinessContext THEN "business" ELSE "owner"

AgentGuard == IF isAuthenticated /\ store.role = "agent" THEN "agent" ELSE "login"

LayoutRedirect(from) ==
  CASE from = "owner" -> OwnerGuard [] from = "agent" -> AgentGuard [] OTHER -> from

RootRedirects ==
  Shown /\ AuthRedirect(screen) # screen /\ ShowScreen(AuthRedirect(screen))

LayoutRedirects ==
  Shown /\ LayoutRedirect(screen) # screen /\ ShowScreen(LayoutRedirect(screen))

BackToPhone == screen = "otp" /\ NoneOf("verify") /\ ShowScreen("login")

\* The rest of the wizard: the wallet may be left out, the identity goes from the
\* user to the business, and a plan that costs something is asked for. The calls
\* of these steps are among the work; each step can be left backwards.
Step(from, to) == Usable /\ screen = from /\ ShowScreen(to)

LinkWallet == Step("momo", "kyc")
SubmitKyc == Step("kyc", "plan")
ChoosePlan == Step("plan", "owner")
Back == Step("momo", "business") \/ Step("kyc", "momo") \/ Step("plan", "kyc")

SetBiometric(on) ==
  /\ Usable
  /\ on # store.biometric
  /\ store' = [store EXCEPT !.biometric = on, !.unlocked = 0]
  /\ UNCHANGED <<req, refresh, serverVars, screen, world, wanted>>

Unlock ==
  /\ Mounted
  /\ ~Unlocked
  /\ store' = [store EXCEPT !.unlocked = store.access]
  /\ UNCHANGED <<req, refresh, serverVars, screen, world, wanted>>

-----------------------------------------------------------------------------
\* The app is killed and started again: it finds the tokens, the business, the
\* role and the lock in the secure store. What was under way is gone, although
\* the server may have done it.
Restart ==
  /\ May("restart")
  /\ store' = [store EXCEPT !.status = "idle", !.profile = NoBusiness, !.checked = 0,
                            !.unlocked = 0]
  /\ req' = [r \in Requests |-> NoRequest]
  /\ refresh' = NoRefresh
  /\ screen' = "login"
  /\ wanted' = IF isAuthenticated
               THEN wanted \cup {req[r].target : r \in {q \in Requests : req[q].kind \in Creations}}
               ELSE wanted
  /\ UNCHANGED <<serverVars, world>>

-----------------------------------------------------------------------------
Asks(r) ==
  \/ Work(r) \/ ValidateStoredSession(r) \/ RefreshOnForeground(r)
  \/ VerifyOtp(r) \/ Logout(r)
  \/ \E b \in Businesses : SwitchBusiness(r, b) \/ CreateBusiness(r, b) \/ AddBusiness(r, b)

Answers(r) == Refuse(r) \/ Decline(r) \/ Serve(r)

Intercepts(r) ==
  GiveUp(r) \/ WaitForRefresh(r) \/ NoRefreshToken(r) \/ StartRefresh(r)

Handles(r) ==
  \/ EndWork(r) \/ SessionValidated(r) \/ SessionInvalid(r)
  \/ ForegroundRefreshed(r) \/ OtpVerified(r) \/ BusinessSwitched(r)
  \/ BusinessCreated(r) \/ BusinessAdded(r) \/ LoggedOut(r) \/ TapFailed(r)

Refreshes == ServeRefresh \/ RefreshSucceeds \/ RefreshFails

Redirects == RootRedirects \/ LayoutRedirects

Next ==
  \/ \E r \in Requests : Asks(r) \/ Answers(r) \/ Lose(r) \/ Intercepts(r) \/ Handles(r)
  \/ RequestOtp \/ BackToPhone \/ SignOut \/ Expire \/ Restart
  \/ Refreshes \/ LoseRefresh
  \/ Redirects \/ LinkWallet \/ SubmitKyc \/ ChoosePlan \/ Back
  \/ Unlock \/ \E on \in BOOLEAN : SetBiometric(on)

Spec == Init /\ [][Next]_vars

-----------------------------------------------------------------------------
(* Properties. *)

\* A change of the session meets no other call, and the user keeps to the
\* businesses he has; calls and tokens may fail, and the app may be killed.
Calm == world.hazards \subseteq {"network", "restart"}

\* A refresh token is exchanged once: the server refuses a second exchange and
\* the interceptor then signs the user out, so two 401s must share one refresh.
\* (An app killed while it refreshes comes back with the token it has used.)
RefreshTokensUsedOnce == ~May("restart") => \A t \in Tokens : presented[t] <= 1

\* What the user chose last, or is about to create.
Chosen == wanted \cup {req[r].target : r \in {q \in Requests : req[q].kind \in Creations}}

\* The session is the one the user asked for: of the business last signed in
\* to, switched to or created, and none after a log-out. (A refresh may make it
\* of a business that is being created, or whose creation was not confirmed.)
SessionAsWanted == Calm /\ isAuthenticated => store.business \in Chosen

\* A call runs at most once, and in the business its caller was looking at,
\* although it may be sent again with a token that came later.
RunsWhereAsked ==
  \A r \in Requests :
    /\ req[r].runs <= 1
    /\ Calm /\ req[r].kind = "work" /\ req[r].runs = 1 => req[r].ranIn = req[r].asked

\* The profile that is loaded is the profile of the session's business. (Except
\* for a user without a business whose creation of one was not confirmed: a
\* profile fetched on coming to the foreground is applied without asking whether
\* the session has been refreshed since.)
ProfileMatchesBusiness ==
  Calm /\ isAuthenticated /\ store.status = "ready" /\ store.profile # store.business
    => store.profile = NoBusiness /\ NoBusiness \in wanted

\* Whoever waits for a refresh waits for one that is under way: nobody is left
\* in the queue of the interceptor, and one request alone has started it.
WaitersAreServed ==
  LET Waiting == {r \in Requests : req[r].st \in {"queued", "refreshing"}}
      Starters == {r \in Requests : req[r].st = "refreshing"}
  IN  /\ Waiting # {} => refresh.st # "none"
      /\ refresh.st # "none" => \E r \in Starters : Starters = {r}

\* Two calls whose token has expired share one refresh, which answers both.
RefreshShared == RefreshTokensUsedOnce /\ WaitersAreServed

\* Store, profile and calls are of the business the user has chosen, and stay so
\* while answers are late, tokens expire and the app is killed.
SessionAgrees == SessionAsWanted /\ RunsWhereAsked /\ ProfileMatchesBusiness

\* The guards of the three layouts agree: whichever of them redirects first, the
\* user comes to a screen that no guard sends him away from.
RedirectsSettle ==
  Shown =>
    \A from \in {screen, AuthRedirect(screen)} :
      LET there == AuthRedirect(LayoutRedirect(from))
      IN  AuthRedirect(there) = there /\ LayoutRedirect(there) = there
=============================================================================
