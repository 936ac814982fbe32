SPECIFICATION Spec
CONSTANTS
  s1 = s1
  s2 = s2
  a = a
  b = b
  w1 = w1
  w2 = w2
  room1 = room1
  lobby = lobby
  pw1 = pw1
  none = none
  Sessions = {s1, s2}
  Names = {a, b}
  Workers = {w1, w2}
  Rooms = {room1}
  Lobby = lobby
  Passwords = {pw1}
  Admins = {}
  None = none
  MaxLogins = 1
  MaxRequests = 3
  Relogin = FALSE
  Moderation = TRUE
SYMMETRY Symmetry
INVARIANTS
  Placed
  OwnerIsMember
CHECK_DEADLOCK FALSE
