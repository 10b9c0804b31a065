\* Two requests at once, one warrior of two being staff at times; a topic, two replies and two boards.
SPECIFICATION Spec
CONSTANTS
  Warrior = {w1, w2}
  Staff = {w2}
  Board = {b1, b2}
  Topic = {t1}
  Post = {1, 2, 3}
  Worker = {k1, k2}
  MaxConns = 2
  NoRow = NoRow
  NoId = NoId
  NoRequest = NoRequest
SYMMETRY Alike
CONSTRAINTS
  OneChanged
  StaffWhileAPost
INVARIANTS
  TopicsBeginWithAPost
  StuckOnlyIfWedged
PROPERTY
  OnlyTheirOwn
  PanesMissNothing
