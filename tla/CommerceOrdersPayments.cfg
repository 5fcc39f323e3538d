\* One item, one checkout, one fault; no symmetry, because a liveness property is checked.
CONSTANTS
  NoReference = NoReference
  Handlers = {h1, h2}
  References = {x1}
  Products = {p1}
  MinQuantity <- MCMinQuantity
  Quantities = {2}
  Prices = {5}
  Rates = {10}
  MaxQuantity = 1
  MaxFaults = 1
SPECIFICATION FairSpec
PROPERTY PaymentsAreRecorded
CHECK_DEADLOCK FALSE
