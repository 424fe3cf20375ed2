SPECIFICATION Spec
CONSTANTS
    Kinds <- MatchedKinds
    Requests <- SmallRequests
INVARIANTS TypeOK MatchesItself ReferenceAgrees UnchangedShowsNoChange EveryLinkResolves DependenciesAreLayered
CHECK_DEADLOCK FALSE
