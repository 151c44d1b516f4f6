SPECIFICATION Spec
INVARIANT ListingReassembles
INVARIANT SourcesAreListed
CHECK_DEADLOCK FALSE
