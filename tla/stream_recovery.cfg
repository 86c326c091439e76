CONSTANTS
  None = None
  r1 = r1  r2 = r2  r3 = r3
  c1 = c1  c2 = c2
  anon = anon  user = user
  Requests = {r1, r2}
  Chats = {c1}
  Anonymous = {}
  Users = {user}
  Slots = 1
  Faults = {"crash"}
SPECIFICATION FairSpec
CHECK_DEADLOCK FALSE
PROPERTIES Terminates LocksRecover ImplementsTurnLog
