\* A request to cancel the run, one follower of either kind, one line of output.
CONSTANTS
    Thread = Thread
    Cancels = {c1}
    Followers = {f1}
    MaxLines = 1
SPECIFICATION FairSpec
INVARIANTS TypeOK GapFree TwinsDiffer NothingSkipped SuccessHasPackage
PROPERTIES FollowersEnd ImplementsFeed
CHECK_DEADLOCK FALSE
