\* A warrior puts the tag on while a leader kicks them.
SPECIFICATION Spec
CONSTANTS
  w1 = w1
  Warrior = {w1, w2}
  Tribe = {c1}
  NoTribe = NoTribe
  Worker = {k1, k2}
  Unwritten = Unwritten
  NoRequest = NoRequest
  Ops = {"wear", "kick"}
  Rosters <- Recruited
INVARIANTS
  TagIsEarned
