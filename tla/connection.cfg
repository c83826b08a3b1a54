SPECIFICATION FairSpec
CONSTANTS
  Request = {1, 2}
  MaxBreaks = 2
INVARIANTS TypeOK ContextsAreApart NothingVanishes
PROPERTY JoinedAtLast
CHECK_DEADLOCK FALSE
