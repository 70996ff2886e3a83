SPECIFICATION Spec
CONSTANTS
  s1 = s1
  s2 = s2
  k1 = k1
  g1 = g1
  g2 = g2
  g3 = g3
  Pieces = {g1, g2, g3}
  Bought <- BoughtDef
  BoughtTax = 27
  Buyer = buyer
  Claims = {r3, r4, r5}
  Setters = {w1, w2}
  SetupAdmins = {a1}
  TeamNames = {n1}
  Nothing = Nothing
  SetupChoices <- ChoicesDef
  Sellers = {s1}
  Commercial = {s1}
  ItemClasses = {k1}
  Platforms = {f1}
  General = General
  RuleIds = {r1, r2}
  Percents = {10}
  Goods <- GoodsDef
  NoRate = 0
  Prices = {100}
  InitialPrices <- PricesDef
  Orders <- OrdersDef
  Buyers = {b1}
  Sessions = {x1}
  MaxRuleEdits = 2
  MaxSales = 1
  Recorders = {q1, q2}
  ExternalOrders = {o1}
  Identities = {i1, i2}
  CustomerIds = {c1}
  MaxRecords = 2
  InvoiceIds = {v1, v2}
  DeskOrders = {d1}
  DeskCalls = {h1, h2}
  NoInvoice = NoInvoice
  MaxInvoiceCalls = 4
  CleanPayments = {p1, p2}
  CleanReports = {t1}
  Archives = {z1}
  Cleaners = {y1}
  Cutoffs = {2}
  Traffic = {"complete", "refund", "invoice", "digest"}
  Unset = Unset
  Keys = {1, 2}
  Entries = {e1}
  NoKey = 0
  Administrators = {m1}
  Directions = {"DECRYPTED"}
  BatchSize = 1
  MaxEntered = 3
INVARIANTS
  CompletedIsOwned
  TeamAgrees
  OneSalePerOrder
  QuoteIsRight
  OrderCountsInvoices
  
  RefundedExactly
  
SYMMETRY Symmetry
CHECK_DEADLOCK FALSE
