\* A server and two clients, with a few seeks, plays, stops and fits by any user.
CONSTANTS
  server = server
  c1 = c1
  c2 = c2
  Clients = {c1, c2}
  LastFrame = 2
  Sessions <- ShortSessions
SPECIFICATION FairSpec
INVARIANTS TypeOK ViewersAgree NobodySilenced
PROPERTIES MessagesEnd
\* The users need not go on.
CHECK_DEADLOCK FALSE
