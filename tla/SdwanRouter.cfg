SPECIFICATION Spec
CONSTANTS
  Sites = {s1, s2}
  Addrs = {x1, x2}
  Bits = 2
  SiteLists <- TwoLists
  Handshakes = {h1}
  Workers = {w1}
  MaxRegs = 3
  MaxUpdates = 2
  MaxSeals = 2
INVARIANTS TypeOK NonceUnique TablesAgree LongestPrefixWins
