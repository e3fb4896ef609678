\* Four messages, two overlapping polls, three losses.
SPECIFICATION FairSpec
CONSTANTS
  Kinds = {"pg", "redis", "web"}
  Polls = {p1, p2}
  MaxMsg = 4
  MaxDrop = 3
INVARIANTS
  TypeOK
  NoneForgotten
PROPERTIES
  ChannelSpec
  Heard
