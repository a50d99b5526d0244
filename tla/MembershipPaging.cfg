\* One copy only, a page holds one member: what is left is the paging itself.
CONSTANTS
  u1 = u1
  u2 = u2
  manager = manager
  responder = responder
  Users <- MCUsers
  Roles <- MCRoles
  Ops = {o1, o2}
  Requests <- MCRequests
  InitMembers <- MCInitMembers
  Primary = primary
  Replicas = {}
  Polls = 1
  PageSize = 1
  MaxStrays = 0
SYMMETRY Symmetric
SPECIFICATION Spec
INVARIANT ReadNotFoundIsTrue
