\* Two concurrent handlers of one order, two checkouts, one fault.
CONSTANTS
  NoReference = NoReference
  Handlers = {h1, h2}
  References = {x1, x2}
  Products = {p1}
  MinQuantity <- MCMinQuantity
  Quantities = {1}
  Prices = {5}
  Rates = {10}
  MaxQuantity = 2
  MaxFaults = 1
SPECIFICATION Spec
SYMMETRY Symmetry
INVARIANTS
  OrderTypeOK
  ReceivedIsRecorded
  SalesAreReal
  OneSalePerEvent
  SalesHaveTheirShare
PROPERTY PaidOnlyWithSale
CHECK_DEADLOCK FALSE
