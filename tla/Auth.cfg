SPECIFICATION Spec
CONSTANTS
  Users = {u1}
  Emails = {e1, e2}
  Passwords = {p1, p2}
  Sessions = {s1}
  Tokens = {t1, t2}
  NoPassword = NoPassword
  None = None
  Unknown = Unknown
  Permissions = {p}
  Requests = {r1, r2}
  SessionTtl = 3
  AbsoluteTtl = 4
  RefreshWindow = 1
  TokenTtl = 1
  HasMailer = TRUE
  HasRollback = TRUE
  Replaced = {"password_reset"}
  Horizon = 4
SYMMETRY Symmetry
CONSTRAINT Focus
CHECK_DEADLOCK FALSE
INVARIANTS TypeOK SessionLifetimeBounded ResetRevokes TokenSingleUse UndisturbedEmailProven UndeliveredTokensVoid SupersededTokensDead NoHalfRegistered ValidCookieKept StateChangesProven
PROPERTIES RevokedForGood
