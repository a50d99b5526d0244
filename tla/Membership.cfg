CONSTANTS
  u1 = u1
  u2 = u2
  manager = manager
  responder = responder
  Users <- MCUsers
  Roles <- MCRoles
  Ops = {o1, o2}
  Requests <- MCRequests
  InitMembers <- MCInitMembers
  Primary = primary
  Replicas = {lagging}
  Polls = 3
  PageSize = 2
  MaxStrays = 1
SYMMETRY Symmetric
SPECIFICATION Spec
INVARIANTS
  TypeOK
  SuccessReportsASighting
  StaleRoleOnlyAfterWindow
  NotFoundOnlyIfNeverSeen
  ReadNotFoundIsTrue
  DeletedMeansGone
