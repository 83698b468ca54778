\* Two clients, queues and sockets of one place.
CONSTANTS
  Conns = {c1, c2}
  Messages = {1, 2, 3, 4}
  None = None
  SendCap = 1
  BroadcastCap = 1
  MaxMessages = 4
SPECIFICATION ServerSpec
INVARIANTS RegisteredIsOpen DropsAreCounted
PROPERTIES NobodyIsStuck
