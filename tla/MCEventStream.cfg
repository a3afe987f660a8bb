SPECIFICATION FairSpec
CONSTANTS
  Stream = {"r", "s"}
  Topic = {"f", "g"}
  Follows <- TwoFollows
  Keep = 2
  Buffer = 1
  MaxEvents = 4
PROPERTIES
  ReadsInOrder
  Delivered
