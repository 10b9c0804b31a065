\* Two machines that may log in to either of two accounts; one request given up may be served late.
SPECIFICATION Spec
CONSTANTS
  Account = {a1, a2}
  Client = {c1, c2}
  None = None
  Window = 0
  Ttl = 1
  MaxChallenges = 2
  MaxTokens = 2
  MaxLate = 1
  MaxRestarts = 1
  MaxLogIns = 1
SYMMETRY Alike
INVARIANTS
  SpentOnce
  ActiveStaysIn
  RecognisedAsProved
