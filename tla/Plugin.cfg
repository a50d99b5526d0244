CONSTANTS
  account = account
  unparsable = unparsable
  Ops = {o1, o2}
  Requests <- MCRequests
  Targets = {account, unparsable}
  BadTargets = {unparsable}
  Tokens = {old, new}
  NoToken = NoToken
  NoOp = NoOp
  NoClient = NoClient
  MaxBuilt = 3
  MaxRestarts = 1
SPECIFICATION Spec
INVARIANTS
  TypeOK
  OneClientPerTarget
  RefusedOnlyWithoutToken
PROPERTY EveryOperationEnds
