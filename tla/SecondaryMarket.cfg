SPECIFICATION Spec
CONSTANTS
  Users = {"ann", "bob"}
  Listings = {"l1", "l2", "l3"}
  Cancels = {"c1"}
  Verifiers = {"v"}
  Deliveries = {"e"}
  Seller <- MCSeller
  Quantity <- MCQuantity
  Target <- MCTarget
  Payer <- MCPayer
  Funded <- MCFunded
  MaxHalves <- MCMaxHalves
INVARIANTS
  TypeOK
  NeverOversold
  SoldWithinListing
PROPERTIES
  SharesAccounted
CHECK_DEADLOCK FALSE
