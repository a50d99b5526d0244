CONSTANTS
  email = email
  sms = sms
  Types = {email, sms}
  Ops = {o1, o2, o3}
  Requests <- MCRequests
  InitMethods <- MCInitMethods
  Primary = primary
  Replicas = {lagging}
  Polls = 4
  MaxId = 3
  MaxStrays = 1
SYMMETRY Symmetric
SPECIFICATION Spec
INVARIANTS
  TypeOK
  OrphanOnlyAfterUnknown
  ResolvedTypeWasShown
  NotVisibleAfterAllPolls
  DeletedStaysGone
