\* Pages of two parents although three were asked for, members one at a time.
CONSTANTS
  p1 = p1
  p2 = p2
  p3 = p3
  p4 = p4
  c1 = c1
  c2 = c2
  distant = distant
  Parents = {p1, p2, p3, p4}
  Children = {c1, c2, distant}
  Distant = {distant}
  Accounts <- MCAccounts
  PageSize = 3
  MaxPage = 2
  MemberPage = 1
  MaxChanges = 3
SPECIFICATION Spec
INVARIANTS
  TypeOK
  EachRemovalHidesOne
  RepeatedOnlyAfterInsertion
PROPERTY DiscoveryEnds
