SPECIFICATION Spec
CONSTANTS
  ReadBufferSize = 6
  Block = 2
  Lengths = {1, 2, 3}
  Kinds = {"read", "unread", "bad", "key", "unknown"}
  MaxPackets = 3
CHECK_DEADLOCK FALSE
INVARIANTS TypeOK RoomToRead HandledInOrder LooksAtNewBytes
PROPERTIES FindsBack
