\* Two requests at once over two connections: both requests hold a connection and ask for one more.
SPECIFICATION FairSpec
CONSTANTS
  Warrior = {w1, w2}
  Staff = {w2}
  Board = {b1}
  Topic = {t1}
  Post = {1}
  Worker = {k1, k2}
  MaxConns = 2
  NoRow = NoRow
  NoId = NoId
  NoRequest = NoRequest
PROPERTY
  PoolQueues
