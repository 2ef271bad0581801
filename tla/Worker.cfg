INIT MCInit
NEXT MCNext
INVARIANTS OneProcessWatched  NothingForgotten  PassesEarned RigsHonest LaneOneWay CountedRight
PROPERTIES StallHonest
CHECK_DEADLOCK FALSE
