\* The claim PaidIsOneWay against two concurrent handlers and one checkout.
CONSTANTS
  NoReference = NoReference
  Handlers = {h1, h2}
  References = {x1}
  Products = {p1}
  MinQuantity <- MCMinQuantity
  Quantities = {2}
  Prices = {5}
  Rates = {10}
  MaxQuantity = 2
  MaxFaults = 0
SPECIFICATION Spec
PROPERTY PaidIsOneWay
CHECK_DEADLOCK FALSE
