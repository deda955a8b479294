CONSTANTS
    p1 = p1
    p2 = p2
    n1 = n1
    Ids = {p1, p2}
    Names = {n1}
    Registered = {}
    Commands <- MCCommands
    Msgs <- MCMsgs
    max_users = 2
    Unlimited = {}
    MaxPending = 1
    MaxChanges = 1
SPECIFICATION Spec
INVARIANT NothingForgotten
CHECK_DEADLOCK FALSE
