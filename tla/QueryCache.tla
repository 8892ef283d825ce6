------------------------------- MODULE QueryCache -------------------------------
(***************************************************************************)
(* The queries and mutations of the mobile app and of the web portals: what *)
(* the screens show is a cache of the server's answers, and a mutation names *)
(* the queries it makes out of date.  The hooks are tables; the cache is    *)
(* that of TanStack Query, for one query and one mutation at a time, with   *)
(* answers that are late or lost, screens that come and go, and the         *)
(* business that is changed under them.                                     *)
(***************************************************************************)
EXTENDS Integers, TLC

CONSTANTS
  MaxVersion,   \* bound: changes of what the query shows
  MaxFetches,   \* bound: fetches of the query
  MaxSessions   \* bound: sign-ins and switches

ASSUME CacheAssumption == {MaxVersion, MaxFetches, MaxSessions} \subseteq Nat

-----------------------------------------------------------------------------
(* The hooks. A query reads things of the server; it is fetched when a screen *)
(* opens and what is cached is stale, or at every opening, or from time to    *)
(* time as well.  A mutation writes things, and drops queries.                *)

Q(reads) == [reads |-> reads, always |-> FALSE, polled |-> FALSE]
Always(reads) == [reads |-> reads, always |-> TRUE, polled |-> FALSE]
Polled(reads) == [reads |-> reads, always |-> FALSE, polled |-> TRUE]
M(writes, drops) == [writes |-> writes, drops |-> drops]
Part(app, queries, mutations) == [app |-> app, queries |-> queries, mutations |-> mutations]

\* Figures that are computed from sales are read anew from time to time, and no
\* mutation promises to refresh them.
Figures == {"figures"}

AnalyticsHooks == Part("owner",
  "analytics-summary" :> Always(Figures) @@ "analytics-pnl" :> Q(Figures) @@
  "analytics-cash-flow" :> Q(Figures) @@ "analytics-top-customers" :> Q(Figures) @@
  "analytics-top-items" :> Q(Figures) @@ "analytics-customers" :> Q(Figures) @@
  "predictive-restock" :> Q(Figures),
  "useExportAnalytics" :> M({}, {}))

SalesHooks == Part("owner",
  "sales-daily-summary" :> Always(Figures) @@ "dashboard-summary" :> Always(Figures) @@
  "sales-history" :> Always({"sales"}) @@ "sale" :> Q({"sale"}) @@
  "sales-customers" :> Q({"customers"}) @@ "sales-customer" :> Q({"customers"}),
  "useRecordCreditPayment" :>
    M({"sales", "sale", "customers", "invoices", "invoice"},
      {"invoices", "invoice", "sales-history", "sales-customers", "sales-customer",
       "sales-daily-summary", "customers"}) @@
  "useCreateCreditRepaymentIntent" :>
    M({"payments"}, {"invoices", "invoice", "sales-history"}))

ChatAndCreditHooks == Part("owner",
  "chat-history" :> Q({"messages"}) @@ "credit-score" :> Always({"score"}) @@
  "credit-history" :> Q({"score"}) @@ "credit-requests" :> Q({"loans"}),
  "useProcessChatMessage" :>
    M({"messages", "sales", "items", "item"},
      {"chat-history", "sales-history", "sales-daily-summary", "inventory-items",
       "analytics-summary"}) @@
  "useClearChatHistory" :> M({"messages"}, {"chat-history"}) @@
  "useRequestLoan" :> M({"loans"}, {"credit-requests"}))

InvoiceHooks == Part("owner",
  "invoices" :> Always({"invoices"}) @@ "invoice" :> Q({"invoice"}) @@
  "invoice-by-sale" :> Polled({"invoice"}),
  "useGenerateInvoice" :> M({"invoices"}, {"invoices"}) @@
  "useSendInvoice" :> M({}, {}) @@
  "useVoidInvoice" :> M({"invoices", "invoice"}, {"invoices"}) @@
  "useCreateDebitNote" :> M({"invoices"}, {"invoices"}))

WorkspaceHooks == Part("owner",
  "payroll" :> Q({"employees", "runs"}) @@ "tax-workspace" :> Always({"returns", "input VAT"}) @@
  "notifications-workspace" :> Q({"notifications"}) @@ "merchant-alerts" :> Q({"alerts"}) @@
  "customer-deliveries" :> Q({"deliveries"}) @@ "billing-workspace" :> Q({"subscription"}),
  "none" :> M({}, {}))

SettlementHooks == Part("owner",
  "payments-workspace" :> Q({"payments", "settlements"}) @@
  "settlements" :> Q({"settlements"}) @@ "reconciliation-inbox" :> Q({"reconciliation"}),
  "useRequestMerchantSettlement" :>
    M({"settlements"}, {"payments-workspace", "settlements"}) @@
  "useCancelMerchantSettlement" :>
    M({"settlements"}, {"payments-workspace", "settlements"}) @@
  "useIgnoreReconciliationItem" :>
    M({"reconciliation"}, {"reconciliation-inbox", "payments-workspace"}) @@
  "useUnignoreReconciliationItem" :>
    M({"reconciliation"}, {"reconciliation-inbox", "payments-workspace"}))

AgentHooks == Part("owner",
  "agent-workspace" :> Q({"traders"}) @@ "agent-wallet" :> Q({"wallet"}) @@
  "agent-payout-history" :> Q({"payouts"}) @@
  "agent-wallet-workspace" :> Q({"wallet", "commissions", "payouts"}) @@
  "agent-traders" :> Q({"traders"}) @@ "agent-commissions" :> Q({"commissions"}) @@
  "agent-trader-detail" :> Q({"trader"}) @@ "agent-commissions-filtered" :> Q({"commissions"}),
  "useWithdrawAgentWallet" :>
    M({"wallet", "payouts"}, {"agent-wallet-workspace", "agent-wallet"}) @@
  "useOnboardTrader" :> M({"traders"}, {"agent-workspace", "agent-traders"}))

AccountHooks == Part("owner",
  "referral-status" :> Q({"invites"}),
  "useSelectPlan" :> M({"subscription"}, {"billing-workspace"}) @@
  "useCancelSubscription" :> M({"subscription"}, {"billing-workspace"}) @@
  "useSendReferral" :> M({"invites"}, {"referral-status"}) @@
  "useRunPayroll" :> M({"runs"}, {"payroll"}) @@
  "useUpdateNotificationPreferences" :> M({"notifications"}, {"notifications-workspace"}) @@
  "useRetryNotificationEvent" :> M({"notifications"}, {"notifications-workspace"}) @@
  "useMarkMerchantAlertRead" :> M({"alerts"}, {"merchant-alerts"}) @@
  "useDismissMerchantAlert" :> M({"alerts"}, {"merchant-alerts"}) @@
  "useRetryCustomerDelivery" :> M({"deliveries"}, {"customer-deliveries"}))

TaxAndPayslipHooks == Part("owner",
  "input-vat-list" :> Q({"input VAT"}) @@ "payroll-run-payslips" :> Q({"payslips"}),
  "useGenerateTaxReturn" :> M({"returns"}, {"tax-workspace"}) @@
  "useFileTaxReturn" :> M({"returns"}, {"tax-workspace"}) @@
  "useRecordInputVAT" :> M({"input VAT"}, {"tax-workspace", "input-vat-list"}) @@
  "useCreateEmployee" :> M({"employees"}, {"payroll"}) @@
  "useUpdateEmployee" :> M({"employees"}, {"payroll"}) @@
  "usePayPayslip" :> M({"payslips", "runs"}, {"payroll-run-payslips", "payroll"}))

InventoryHooks == Part("owner",
  "inventory-items" :> Q({"items"}) @@ "inventory-item" :> Q({"item"}) @@
  "inventory-categories" :> Q({"categories"}),
  "useCreateItem" :> M({"items"}, {"inventory-items"}) @@
  "useUpdateItem" :> M({"items", "item"}, {"inventory-items", "inventory-item"}) @@
  "useDeleteItem" :> M({"items", "item"}, {"inventory-items"}) @@
  "useAdjustStock" :> M({"items", "item"}, {"inventory-items"}) @@
  "useCreateCategory" :> M({"categories"}, {"inventory-categories"}))

PurchaseHooks == Part("owner",
  "suppliers" :> Q({"suppliers"}) @@ "purchase-orders" :> Q({"orders"}),
  "useCreateSupplier" :> M({"suppliers"}, {"suppliers"}) @@
  "useUpdateSupplier" :> M({"suppliers"}, {"suppliers"}) @@
  "useDeleteSupplier" :> M({"suppliers"}, {"suppliers"}) @@
  "useCreatePurchaseOrder" :> M({"orders"}, {"purchase-orders"}) @@
  "useReceivePurchaseOrder" :> M({"orders", "items", "item"}, {"purchase-orders", "inventory-items"}))

SalesAndPaymentExtras == Part("owner",
  "sales-period-summary" :> Q(Figures) @@ "payment" :> Q({"payment"}),
  "useRetrySalePayment" :> M({"sales", "sale"}, {"sales-history", "sales-daily-summary"}) @@
  "useVoidSale" :>
    M({"sales", "sale", "items", "item", "customers"},
      {"sales-history", "sales-daily-summary", "inventory-items", "analytics-summary",
       "customers"}) @@
  "useRequestPayment" :> M({"payments"}, {"payments-workspace"}) @@
  "useDisbursePayment" :> M({"payments"}, {"payments-workspace"}))

LoanAndPayrollExtras == Part("owner",
  "credit-loan" :> Q({"loan"}) @@ "credit-loan-schedule" :> Q({"schedule"}) @@
  "customers" :> Q({"customers"}) @@ "customer" :> Q({"customers"}),
  "useConfirmLoan" :> M({"loans", "loan"}, {"credit-requests"}) @@
  "useDisbursePayroll" :> M({"runs", "payslips"}, {"payroll"}) @@
  "useApprovePayrollRun" :> M({"runs"}, {"payroll"}) @@
  "useRequestAgentPayout" :> M({"commissions", "wallet"}, {"agent-commissions"}))

SessionHooks == Part("owner",
  "session-bootstrap" :> Q({"profile", "members", "wallets", "KYC"}),
  "useUpdateBusinessProfile" :> M({"profile"}, {"session-bootstrap"}) @@
  "useProvisionDedicatedAccount" :>
    M({"profile", "payments"}, {"session-bootstrap", "payments-workspace"}) @@
  "useInviteBusinessMember" :> M({"members"}, {"session-bootstrap"}) @@
  "useUpdateBusinessMember" :> M({"members"}, {"session-bootstrap"}) @@
  "useDeactivateBusinessMember" :> M({"members"}, {"session-bootstrap"}))

WalletAndKycHooks == Part("owner",
  "session-bootstrap" :> Q({"profile", "members", "wallets", "KYC"}),
  "useAddMomoAccount" :> M({"wallets"}, {"session-bootstrap"}) @@
  "useVerifyMomoAccount" :> M({"wallets"}, {"session-bootstrap"}) @@
  "useUpdateMomoAccount" :> M({"wallets"}, {"session-bootstrap"}) @@
  "useDeleteMomoAccount" :> M({"wallets"}, {"session-bootstrap"}) @@
  "useSetPrimaryMomoAccount" :> M({"wallets"}, {"session-bootstrap"}) @@
  "useSubmitUserKyc" :> M({"KYC"}, {"session-bootstrap"}) @@
  "useSubmitBusinessKyc" :> M({"KYC"}, {"session-bootstrap"}))

LenderLoanHooks == Part("lender",
  "lender/analytics" :> Polled({"loans"}) @@ "lender/loans" :> Q({"loans"}) @@
  "lender/loan-installments" :> Q({"schedules"}) @@ "lender/businesses" :> Q({"consents"}),
  "useLenderLoanDecision" :> M({"loans", "loan"}, {"lender/loans"}))

LenderRevenueHooks == Part("lender",
  "lender/profile" :> Q({"lender"}) @@ "lender/revenue" :> Polled({"revenue"}),
  "useUpdateLenderSettings" :> M({"lender"}, {"lender/profile"}))

LenderProductHooks == Part("lender",
  "lender/products" :> Q({"products"}) @@ "lender/credit-profile" :> Q({"score"}),
  "useCreateProduct" :> M({"products"}, {"lender/products"}) @@
  "useUpdateProduct" :> M({"products"}, {"lender/products"}) @@
  "useDeleteProduct" :> M({"products"}, {"lender/products"}))

LenderKeyHooks == Part("lender",
  "lender/loan" :> Q({"loan"}),
  "useRotateLenderKey" :> M({"lender"}, {"lender/profile"}) @@
  "useChangeLenderPassword" :> M({}, {}))

AgentPortalHooks == Part("agent",
  "agent/traders" :> Q({"traders"}) @@ "agent/commission-summary" :> Q({"commissions"}) @@
  "agent/commissions" :> Q({"commissions"}),
  "completeOnboarding" :> M({"traders"}, {"agent/traders"}))

AgentPayoutHooks == Part("agent",
  "agent/wallet" :> Q({"wallet"}) @@ "agent/payout-history" :> Q({"payouts"}),
  "useBulkCommissionPayout" :>
    M({"commissions", "wallet", "payouts"},
      {"agent/commissions", "agent/wallet", "agent/payout-history",
       "agent/commission-summary"}))

AdminSettlementHooks == Part("admin",
  "admin/settlements" :> Polled({"settlements"}),
  LET drops == {"admin/settlements", "admin/merchant-settlement"} IN
  "useApproveSettlement" :> M({"settlements"}, drops) @@
  "useBulkApproveSettlements" :> M({"settlements"}, drops) @@
  "useCancelAdminSettlement" :> M({"settlements"}, drops) @@
  "useRetryMerchantSettlement" :> M({"settlements"}, drops) @@
  "useTriggerAutoSettlement" :> M({"settlements"}, drops))

AdminPayoutHooks == Part("admin",
  "admin/merchant-settlement" :> Q({"settlements"}) @@
  "admin/payouts" :> Polled({"payouts", "disbursements"}),
  LET drops == {"admin/settlements", "admin/merchant-settlement"} IN
  "useForceMerchantSettlement" :> M({"settlements"}, drops) @@
  "useUpdateMerchantSettlementConfig" :> M({"settlements"}, drops))

AdminRevenueHooks == Part("admin",
  "admin/lender-revenue" :> Polled({"revenue"}),
  "useTriggerAgentPayout" :> M({"payouts"}, {"admin/payouts"}) @@
  "useDisburseLoan" :> M({"disbursements", "loans"}, {"admin/payouts"}) @@
  "useRetryLoanDisbursement" :> M({"disbursements", "loans"}, {"admin/payouts"}) @@
  "useMarkLenderRevenuePaid" :> M({"revenue"}, {"admin/lender-revenue"}) @@
  "useSetupLenderSubaccount" :> M({"lenders"}, {"admin/lenders", "admin/lender-revenue"}))

AdminPeopleHooks == Part("admin",
  "admin/agents" :> Q({"agents"}) @@ "admin/lenders" :> Q({"lenders"}),
  "useCreateAgent" :> M({"agents"}, {"admin/agents"}) @@
  "useCreateLender" :> M({"lenders"}, {"admin/lenders"}) @@
  "useUpdateAgent" :> M({"agents"}, {"admin/agents"}))

AdminCommissionHooks == Part("admin",
  "admin/agent-commissions" :> Q({"commissions"}) @@ "admin/commission-rates" :> Q({"rates"}),
  "useSetAgentActive" :> M({"agents"}, {"admin/agents"}) @@
  "useDeleteAgent" :> M({"agents"}, {}) @@
  "useToggleLenderActive" :> M({"lenders"}, {"admin/lenders"}) @@
  "useMarkCommissionPaid" :> M({"commissions"}, {"admin/agent-commissions"}) @@
  "useUpdateCommissionRate" :> M({"rates"}, {"admin/commission-rates"}))

AdminQueueHooks == Part("admin",
  "admin/kyc-queue" :> Polled({"KYC"}) @@ "admin/audit-logs" :> Q({"audit"}) @@
  "admin/sync-queue" :> Polled({"sync"}) @@ "admin/fraud-queue" :> Polled({"signals"}),
  "useReviewKyc" :> M({"KYC"}, {"admin/kyc-queue", "admin/kpis"}))

AdminDataHooks == Part("admin",
  "admin/kpis" :> Polled({"KYC"}) @@ "admin/businesses" :> Q({"businesses"}) @@
  "admin/agent-health" :> Polled(Figures) @@ "admin/business" :> Q({"businesses"}) @@
  "admin/loans" :> Polled({"loans"}),
  "useUpdateBusinessSubscription" :> M({"businesses"}, {"admin/businesses"}) @@
  "useDisableBusiness" :> M({"businesses"}, {"admin/businesses", "admin/business"}) @@
  "useAdminLoanAction" :> M({"loans"}, {"admin/loans"}))

HookParts ==
  {AnalyticsHooks, SalesHooks, ChatAndCreditHooks, InvoiceHooks, WorkspaceHooks,
   SettlementHooks, AgentHooks, AccountHooks, TaxAndPayslipHooks, InventoryHooks,
   PurchaseHooks, SalesAndPaymentExtras, LoanAndPayrollExtras, SessionHooks,
   WalletAndKycHooks, LenderLoanHooks, LenderRevenueHooks, LenderProductHooks,
   LenderKeyHooks, AgentPortalHooks, AgentPayoutHooks, AdminSettlementHooks,
   AdminPayoutHooks, AdminRevenueHooks, AdminPeopleHooks, AdminCommissionHooks,
   AdminQueueHooks, AdminDataHooks}

HookQueries ==
  UNION {{[app |-> p.app, name |-> q, of |-> p.queries[q]] : q \in DOMAIN p.queries} :
         p \in HookParts}
HookMutations ==
  UNION {{[app |-> p.app, name |-> m, of |-> p.mutations[m]] : m \in DOMAIN p.mutations} :
         p \in HookParts}

\* A query, and a mutation that changes what it shows.
TopicOf(q, m) ==
  [app |-> q.app, query |-> q.name, mutation |-> m.name, always |-> q.of.always,
   polled |-> q.of.polled, drops |-> q.name \in m.of.drops]

CacheTopics ==
  UNION {{TopicOf(q, m) : m \in {n \in HookMutations :
            q.app = n.app /\ q.of.reads \cap n.of.writes # {}}} : q \in HookQueries}

\* The pairs of a mutation and a query whose hook forgets to drop the query.
Forgotten == UNION
  {{"useRecordCreditPayment"} \X {"sale", "invoice-by-sale", "customer"},
   {"useCreateCreditRepaymentIntent"} \X {"payments-workspace"},
   {"useVoidInvoice"} \X {"invoice", "invoice-by-sale"},
   {"useVoidSale"} \X {"sale", "inventory-item", "sales-customers", "sales-customer", "customer"},
   {"useRetrySalePayment"} \X {"sale"},
   {"useProcessChatMessage", "useDeleteItem", "useAdjustStock", "useReceivePurchaseOrder"}
     \X {"inventory-item"},
   {"useConfirmLoan"} \X {"credit-loan"},
   {"useDisbursePayroll"} \X {"payroll-run-payslips"},
   {"useWithdrawAgentWallet"} \X {"agent-payout-history"},
   {"useRequestAgentPayout"} \X
     {"agent-wallet", "agent-wallet-workspace", "agent-commissions-filtered"},
   {"useLenderLoanDecision"} \X {"lender/analytics", "lender/loan"},
   {"useDisburseLoan", "useRetryLoanDisbursement"} \X {"admin/loans"},
   {"useDeleteAgent"} \X {"admin/agents"},
   {"useUpdateBusinessSubscription"} \X {"admin/business"}}

\* Every other mutation drops what it changes.
ASSUME HooksAssumption ==
  \A t \in CacheTopics : t.drops \/ <<t.mutation, t.query>> \in Forgotten

-----------------------------------------------------------------------------
(* The cache of one query. *)

VARIABLES
  topic,    \* the query and the mutation
  backend,  \* what each business would be shown, as the number of its changes
  cache,    \* what is cached, and of which business
  fetch,    \* the fetch in flight
  page,     \* whether a screen shows the query, and who is signed in
  submitted, \* the mutation in flight, and the change that was acknowledged last
  spent     \* the fetches and sessions so far

cacheVars == <<topic, backend, cache, fetch, page, submitted, spent>>

Tenants == {1, 2}
Versions == 0..MaxVersion
NotCached == [version |-> -1, of |-> 0, invalid |-> FALSE, stale |-> FALSE, old |-> FALSE]
NoFetch == [st |-> "none", version |-> 0, of |-> 0, old |-> FALSE]
NoMutation == [st |-> "idle", of |-> 0, version |-> 0, acked |-> 0]

QueryCacheTypeOK ==
  /\ topic \in CacheTopics
  /\ backend \in [Tenants -> Versions]
  /\ cache \in [version: {-1} \cup Versions, of: {0} \cup Tenants, invalid: BOOLEAN,
                stale: BOOLEAN, old: BOOLEAN]
  /\ fetch \in [st: {"none", "sent", "read"}, version: Versions, of: {0} \cup Tenants,
                old: BOOLEAN]
  /\ page \in [open: BOOLEAN, shop: {0} \cup Tenants]
  /\ submitted \in [st: {"idle", "sent", "done"}, of: {0} \cup Tenants, version: Versions,
               acked: Versions]
  /\ spent \in [fetches: 0..MaxFetches, sessions: 0..MaxSessions]

QueryCacheInit ==
  /\ topic \in CacheTopics
  /\ backend = [b \in Tenants |-> 0]
  /\ cache = NotCached
  /\ fetch = NoFetch
  /\ page = [open |-> FALSE, shop |-> 1]
  /\ submitted = NoMutation
  /\ spent = [fetches |-> 0, sessions |-> 0]

Cached == cache.version >= 0
Mobile == topic.app = "owner"
SignedIn == page.shop # 0

\* A fetch is sent with the token of the moment.
StartFetch ==
  /\ spent.fetches < MaxFetches
  /\ fetch' = [NoFetch EXCEPT !.st = "sent", !.of = page.shop]
  /\ spent' = [spent EXCEPT !.fetches = @ + 1]

\* useQuery: a screen opens; what is missing or out of date is fetched, unless a
\* fetch is in flight already.
OpenScreen ==
  /\ SignedIn /\ ~page.open
  /\ page' = [page EXCEPT !.open = TRUE]
  /\ IF fetch = NoFetch /\ (~Cached \/ cache.stale \/ cache.invalid \/ topic.always)
     THEN StartFetch
     ELSE UNCHANGED <<fetch, spent>>
  /\ UNCHANGED <<topic, backend, cache, submitted>>

\* The fetch goes on.
CloseScreen ==
  /\ page.open
  /\ page' = [page EXCEPT !.open = FALSE]
  /\ UNCHANGED <<topic, backend, cache, fetch, submitted, spent>>

\* staleTime is over.
BecomesStale ==
  /\ Cached /\ ~cache.stale
  /\ cache' = [cache EXCEPT !.stale = TRUE]
  /\ UNCHANGED <<topic, backend, fetch, page, submitted, spent>>

\* The app comes to the foreground, or a query is polled.
RefetchQuery ==
  /\ page.open /\ fetch = NoFetch
  /\ ~Cached \/ cache.stale \/ cache.invalid \/ topic.polled
  /\ StartFetch
  /\ UNCHANGED <<topic, backend, cache, page, submitted>>

ServerReads ==
  /\ fetch.st = "sent"
  /\ fetch' = [fetch EXCEPT !.st = "read", !.version = backend[fetch.of]]
  /\ UNCHANGED <<topic, backend, cache, page, submitted, spent>>

\* The answer is cached; that a query was dropped meanwhile is forgotten.
Fetched ==
  /\ fetch.st = "read"
  /\ cache' = [version |-> fetch.version, of |-> fetch.of, invalid |-> FALSE,
               stale |-> FALSE, old |-> fetch.old]
  /\ fetch' = NoFetch
  /\ UNCHANGED <<topic, backend, page, submitted, spent>>

\* The same fetch once more, with the token of the moment.
AskAgain ==
  /\ SignedIn /\ fetch # NoFetch
  /\ fetch' = [NoFetch EXCEPT !.st = "sent", !.of = page.shop, !.old = fetch.old]

\* The answer is lost: it is asked for again, or given up.
FetchFailed ==
  /\ fetch # NoFetch
  /\ AskAgain \/ fetch' = NoFetch
  /\ UNCHANGED <<topic, backend, cache, page, submitted, spent>>

\* A call of the admin's portal is refused: the cookie is renewed, and the call
\* is made once more.
AdminRefreshed ==
  /\ topic.app = "admin" /\ AskAgain
  /\ UNCHANGED <<topic, backend, cache, page, submitted, spent>>

Mutate ==
  /\ SignedIn /\ submitted.st = "idle"
  /\ submitted' = [submitted EXCEPT !.st = "sent", !.of = page.shop]
  /\ UNCHANGED <<topic, backend, cache, fetch, page, spent>>

ServerChanges(b) ==
  /\ backend[b] < MaxVersion
  /\ backend' = [backend EXCEPT ![b] = @ + 1]

MutationDone ==
  /\ submitted.st = "sent"
  /\ ServerChanges(submitted.of)
  /\ submitted' = [submitted EXCEPT !.st = "done", !.version = backend'[submitted.of]]
  /\ UNCHANGED <<topic, cache, fetch, page, spent>>

\* invalidateQueries: a query on screen is fetched again, and a fetch of it that
\* is in flight is cancelled, unless it is the first one; no other fetch is.
Invalidate ==
  /\ cache' = IF Cached THEN [cache EXCEPT !.invalid = TRUE] ELSE cache
  /\ \/ /\ page.open /\ (Cached \/ fetch = NoFetch)
        /\ StartFetch
     \/ /\ ~page.open \/ (~Cached /\ fetch # NoFetch)
        /\ fetch' = IF fetch = NoFetch THEN fetch ELSE [fetch EXCEPT !.old = TRUE]
        /\ UNCHANGED spent

\* onSuccess.
MutationAnswered ==
  /\ submitted.st = "done"
  /\ IF topic.drops THEN Invalidate ELSE UNCHANGED <<cache, fetch, spent>>
  /\ submitted' = [NoMutation EXCEPT !.acked = IF submitted.of = page.shop THEN submitted.version
                                          ELSE submitted.acked]
  /\ UNCHANGED <<topic, backend, page>>

MutationLost ==
  /\ submitted.st # "idle"
  /\ submitted' = [NoMutation EXCEPT !.acked = submitted.acked]
  /\ UNCHANGED <<topic, backend, cache, fetch, page, spent>>

\* Another user of the business, or a task of the server.
OthersChange ==
  /\ SignedIn
  /\ ServerChanges(page.shop)
  /\ UNCHANGED <<topic, cache, fetch, page, submitted, spent>>

SessionOf(b) ==
  /\ spent.sessions < MaxSessions
  /\ spent' = [spent EXCEPT !.sessions = @ + 1]
  /\ page' = [open |-> FALSE, shop |-> b]
  /\ UNCHANGED <<topic, backend>>

Session(b) == SessionOf(b) /\ submitted' = [submitted EXCEPT !.acked = 0]

\* queryClient.clear(): a fetch in flight is forgotten, too.
Clear == cache' = NotCached /\ fetch' = NoFetch
KeepCache == UNCHANGED <<cache, fetch>>

\* Mutant: the cache is kept.
SwitchShop_keeping ==
  /\ Mobile /\ SignedIn
  /\ Session(3 - page.shop)
  /\ KeepCache

\* useSwitchBusiness.
SwitchShop ==
  /\ Mobile /\ SignedIn
  /\ Session(3 - page.shop)
  /\ Clear

\* useLogoutSession clears the cache; the owner's settings do not.
LogOut ==
  /\ Mobile /\ SignedIn
  /\ Session(0)
  /\ Clear \/ KeepCache

\* The screen of the code that is sent by SMS clears the cache.
LogIn ==
  /\ Mobile /\ ~SignedIn
  /\ \E b \in Tenants : Session(b)
  /\ Clear

\* The portals change pages without loading them anew, and keep the cache.
PortalSession(b) == ~Mobile /\ Session(b) /\ KeepCache

PortalLogOut == SignedIn /\ PortalSession(0)

PortalLogIn == ~SignedIn /\ \E b \in Tenants : PortalSession(b)
AdminLogIn == topic.app = "admin" /\ PortalLogIn
LenderLogIn == topic.app = "lender" /\ PortalLogIn
AgentLogIn == topic.app = "agent" /\ PortalLogIn

\* A call of a portal is refused: the page of the log-in is loaded, and nothing is
\* kept.
SentAway ==
  /\ ~Mobile /\ (fetch # NoFetch \/ submitted.st # "idle")
  /\ SessionOf(0)
  /\ submitted' = NoMutation /\ Clear

QueryCacheNext ==
  \/ OpenScreen \/ CloseScreen \/ BecomesStale \/ RefetchQuery
  \/ ServerReads \/ Fetched \/ FetchFailed \/ AdminRefreshed
  \/ Mutate \/ MutationDone \/ MutationAnswered \/ MutationLost \/ OthersChange
  \/ SwitchShop \/ LogOut \/ LogIn
  \/ PortalLogOut \/ AdminLogIn \/ LenderLogIn \/ AgentLogIn \/ SentAway

QueryCacheSpec == QueryCacheInit /\ [][QueryCacheNext]_cacheVars

-----------------------------------------------------------------------------
(* Properties. *)

\* A change that was acknowledged is shown: a screen does not show, as up to date,
\* what its query read before the change, unless the answer that brought it could
\* not be cancelled.
OwnChangesShown ==
  /\ page.open /\ fetch = NoFetch /\ Cached
  /\ cache.of = page.shop /\ ~cache.invalid /\ ~cache.old
  => \/ cache.version >= submitted.acked
     \/ <<topic.mutation, topic.query>> \in Forgotten

\* On the phone, what is cached is of the business that is signed in, whatever was
\* in flight when it changed.
CacheOfShop == Mobile /\ SignedIn /\ Cached => cache.of = page.shop

\* What a screen shows as up to date is: of the business that is signed in, and
\* not older than the user's own acknowledged changes.
CacheIsCurrent == OwnChangesShown /\ CacheOfShop
=============================================================================
