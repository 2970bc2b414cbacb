SPECIFICATION PageSpec
CONSTANTS
    Phone = {p1, p2}
    OldName = n1
    Name = {n2}
    None = None
    Budget = 2
    MaxDiskErrors = 1
    MaxFetches = 2
    MaxPosts = 2
    MaxDrafts = 1
CHECK_DEADLOCK FALSE
INVARIANTS ViewShowsState PageCatchesUp UnreadIsHonest SentOnce NeverStuck
PROPERTIES ConversationIsKept
