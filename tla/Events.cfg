SPECIFICATION EventsSpec
CONSTANTS
  Subs = {s1, s2, s3}
  EventValues = {e1, e2}
  Zero = Zero
  Offered <- MCOffered
  DefaultCapacity = 3
  MaxPublished = 4
SYMMETRY Symmetry
INVARIANTS ReleasedSlotsAreZero TopicListsOpen
PROPERTIES ImplementsBroadcast
CHECK_DEADLOCK FALSE
