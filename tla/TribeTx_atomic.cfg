\* One worker, every operation, from an empty database.
SPECIFICATION Spec
CONSTANTS
  w1 = w1
  Warrior = {w1, w2}
  Tribe = {c1}
  NoTribe = NoTribe
  Worker = {k1}
  Unwritten = Unwritten
  NoRequest = NoRequest
  Ops <- AllOps
  Rosters <- Founding
PROPERTIES
  OneAtATime
