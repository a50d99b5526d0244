CONSTANTS
  u1 = u1
  u2 = u2
  manager = manager
  responder = responder
  Users <- MCUsers
  Roles <- MCRoles
  Ops = {o1, o2}
  Requests <- MCRequests
  InitMembers <- MCInitMembers
  Primary = primary
  Replicas = {lagging}
  Polls = 2
  PageSize = 1
  MaxStrays = 0
SPECIFICATION Spec
PROPERTY EveryOperationEnds
