\* No symmetry, because a liveness property is checked.
CONSTANTS
  MaxMessages = 2
  Agents = {ann, bob}
  MayBeAway = {bob}
  MaxDeliveries = 2
  MaxRequests = 2
  MaxMedia = 1
  MaxFaults = 1
SPECIFICATION FairSpec
INVARIANTS
  ConversationTypeOK
  OnlyCheckedIsLate
  OneTurnPerMessage
PROPERTIES
  AgentsKeepTheirConversation
  TurnsAreAnswered
CHECK_DEADLOCK FALSE
