\* Two workers, and the operations that lock more than one row or disband.
SPECIFICATION VoteSpec
CONSTANTS
  w3 = w3
  c1 = c1
  Warrior = {w1, w2, w3}
  Tribe = {c1, c2}
  NoTribe = NoTribe
  Worker = {k1, k2}
  Unwritten = Unwritten
  NoRequest = NoRequest
  Ops = {"create", "disband", "leave", "kick", "wear", "accept", "reject", "admit", "setRank", "withdraw"}
  Rosters <- Stories
SYMMETRY Alike
CONSTRAINT InStory
INVARIANTS
  DeadlockOnlyOverOneInvitation
PROPERTIES
  OneFounder
  AcceptConsumesInvitation
  DisbandIsUnanimous
