SPECIFICATION FairSpec
CONSTANT Loads <- All
\* The sender ends.
CHECK_DEADLOCK FALSE
INVARIANTS TypeOK CrcsAgree PacketsArrive
PROPERTY DecodeEnds
