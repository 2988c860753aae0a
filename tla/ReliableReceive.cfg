\* Requests of one or two fragments over a ring of two slots and three
\* sequence ids: the ring turns over and the ids wrap in both sessions.
CONSTANTS
  Sizes = {1, 2}
  Window = 2
  SeqSpace = 3
  MaxLag = 2
  SynMidMessage = FALSE
  MaxMessages = 3
  MaxSessions = 2
  MaxWire = 2
SPECIFICATION FairSpec
INVARIANTS TypeOK ExactlyOnceInOrder RepeatableStillKnown AckedWasReceived
PROPERTIES ImplementsDelivery EveryRequestDispatched
CHECK_DEADLOCK FALSE
