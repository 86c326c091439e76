CONSTANTS
  Workers = {w1, w2}
  Places = {p1, p2}
  Requests = {w1, w2}
  TTLs = {2, 8}
  Second = 2
  Delay = 1
  Wait = 3
  Late = 1
  Horizon = 11
SPECIFICATION ComponentsSpec
CHECK_DEADLOCK FALSE
SYMMETRY Symmetry
INVARIANTS ComponentTypes Exclusive RegistrySound AdminSessionsSound SendsSound
INVARIANTS NoChatStranded ReadingSound UsageSound PagesFollow
