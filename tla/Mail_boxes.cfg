\* Two requests at once of a warrior who sends, one who blocks, reads and
\* deletes, and whose first request this is for one of them.
SPECIFICATION Spec
CONSTANTS
  w1 = w1
  w2 = w2
  Warrior = {w1, w2}
  Newcomer = {w2}
  Worker = {k1, k2}
  Asked <- Requests
  MaxId = 3
  System = System
  Nobody = Nobody
  NoBlock = NoBlock
  NoFolder = NoFolder
  NoRequest = NoRequest
SYMMETRY Alike
INVARIANTS
  SentTogether
  HitsCounted
  GivenOnce
  WelcomedOnce
PROPERTY
  TwoStageDelete
