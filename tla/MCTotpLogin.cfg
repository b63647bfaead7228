CONSTANTS
  s1 = s1  s2 = s2  w1 = w1  w2 = w2
  NULL = NULL
  Workers = {w1, w2}
  Secrets = {s1, s2}
  Codes <- FourCodes
  Guesses <- TwoGuesses
  CodeOf <- StepCode
  Period = 1
  MaxFailures = 2
  LockSecs = 1
  SessionTtl = 1
  MaxTime = 1
  MaxLogins = 2
  MaxFailed = 3
  MaxRestarts = 1
SYMMETRY WorkerSymmetry
SPECIFICATION Spec
INVARIANTS StepsIncrease SessionsBacked Throttled
PROPERTIES LoginCurrent
