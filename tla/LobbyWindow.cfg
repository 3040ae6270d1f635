SPECIFICATION Spec
CONSTANTS
    None = None
    Host = Host
    Finder = Finder
    Seekers = {q1}
    MaxRequests = 2
    Slots = {1, 2}
INVARIANTS TakenOnce NothingPassedOver
PROPERTY ApprovalIsTaken
CHECK_DEADLOCK FALSE
