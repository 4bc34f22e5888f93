\* One connection, with both threads delivering, errors and removal at any time.
CONSTANT MaxMessages = 4
SPECIFICATION FairSpec
INVARIANTS SentInOrder OneActor WritesSomething
PROPERTIES SleeperSends
\* A session that is closed stops.
CHECK_DEADLOCK FALSE
