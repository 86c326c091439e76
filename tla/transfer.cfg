CONSTANTS
  Chats = {c1, c2}
  Records = {k1, k2}
  Transfers = {t1, t2}
  Users = {u1, u2}
  Visitor = Visitor
SPECIFICATION Spec
CHECK_DEADLOCK FALSE
SYMMETRY Symmetry
INVARIANTS UsageFollowsChat LateReplyIsBilled
PROPERTIES TransfersOnce FoundChatsSurvive BilledUsageSurvives
