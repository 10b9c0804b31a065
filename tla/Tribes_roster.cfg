\* One tribe, three warriors: enough for a leader, a second leader and somebody outside.
SPECIFICATION Spec
CONSTANTS
  Warrior = {w1, w2, w3}
  Tribe = {c1}
  NoTribe = NoTribe
SYMMETRY Symmetry
INVARIANTS
  TagIsEarned
  InvitesAreOutsiders
PROPERTIES
  RankCeiling
  DisbandIsUnanimous
