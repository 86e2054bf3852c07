SPECIFICATION Spec
CONSTANTS
  Sources = {"s1", "s2"}
  Authorities = {"a1", "a2"}
  Choices = {"c1", "c2"}
  Contents <- MCContents
  RulesOf <- MCRulesOf
  Granting <- MCGranting
  Times = {1, 2}
  MaxShelf = 2
  None = None
INVARIANTS
  PublishedStaysValid
  AcceptedIsOneRound
  ApprovalCoversContent
CHECK_DEADLOCK FALSE
