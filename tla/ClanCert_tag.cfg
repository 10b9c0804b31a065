\* One player on two servers, one after the other: one with the mod, one stock.
SPECIFICATION FairSpec
CONSTANTS
  Connection = {c1, c2}
  Modded = {c1}
  LateTries = 3
  None = None
INVARIANTS
  OnlyToWhoAsked
  NeverExpired
  ConnectsOnce
  NameShowsTag
PROPERTIES
  NobodyHeld
  TaggedInTheEnd
  Reissued
