SPECIFICATION Spec
CONSTANTS
  u1 = u1  c1 = c1  s1 = s1
  h1 = h1  h2 = h2
  NoKey = NoKey  NoSession = NoSession
  Requests = {h1, h2}
  Users = {u1}
  Challenges = {c1}
  Sessions = {s1}
  CaptchaThreshold = 1
  LockoutThreshold = 2
  LockoutDuration = 1
  CaptchaTTL = 2
  Inactivity = 1
  MaxTime = 3
  MaxFailures = 2
  MaxUpdates = 1
  MaxFaults = 1
INVARIANTS
  TypeOK
  LockFollowsThreshold
  ChallengeUsesBounded
  EndedStaysEnded
PROPERTIES
  NoSessionForExcluded
CHECK_DEADLOCK FALSE
