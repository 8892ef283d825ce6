\* One app of the phone, or one portal, at a time.
CONSTANTS
  i1 = i1
  i2 = i2
  b1 = b1
  b2 = b2
  a1 = a1
  ama = ama
  kofi = kofi
  Items = {i1, i2}
  Sales = {s1, s2}
  Adjustments = {t1}
  Category = c1
  Shops = {b1, b2}
  NoRow = NoRow
  PAGE_SIZE = 1
  MaxStock = 2
  MaxEdits = 1
  MaxLosses = 1
  SyncWorlds <- MCSyncWorlds
  MaxCustomers = 2
  MaxCarts = 2
  MaxSales = 2
  MaxLinks = 2
  MaxChecks = 2
  CheckoutWorlds <- MCCheckoutWorlds
  MaxVersion = 1
  MaxFetches = 3
  MaxSessions = 2
  MaxForms = 5
  MaxRows = 2
  MaxAsked = 2
  StockRooms <- MCStockRooms
  Staff = {ama, kofi}
  MaxMonths = 2
  MaxPays = 2
  MaxOrders = 2
  PayrollWorlds <- MCPayrollWorlds
  Numbers = {n1, n2}
  PayMin = 2
  PayCeiling = 2
  PayBalance = 4
  PayAmounts = {2, 3, 4}
  MaxVisits = 2
  MaxSent = 2
  WalletUses <- MCWalletUses
  Applications = {a1, a2, a3}
  PageOf <- MCPageOf
  Reviewers <- MCReviewers
  MonthDays = 2
  YearDays = 3
  GraceDays = 1
  WarningDays = 2
  LastDay = 3
  MaxCharges = 2
  MaxGiven = 1
  BillingWorlds <- MCBillingWorlds
  Traders = {"0244"}
  ShopNames = {"Esi", "Ama", "Akua", "Yaa"}
  MaxTries = 2
  SignedUp <- MCSignedUp
SPECIFICATION ClientsSpec
INVARIANTS ClientsTypeOK SalesArriveOnce AgreesAfterSync SoldAsShown CacheIsCurrent SavedOnceAsShown PaidAsAsked PaidOutAsTold DecidedOnItsOwn PlanPaidAndShown AddedWithinPlan
PROPERTIES ChargedWhenRunOut
CHECK_DEADLOCK FALSE
