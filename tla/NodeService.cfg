SPECIFICATION Spec
INVARIANT ConsensusNeedsNetwork
PROPERTIES EssentialEndsNode Unwinds
CHECK_DEADLOCK FALSE
