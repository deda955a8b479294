CONSTANTS
    p1 = p1
    p2 = p2
    n1 = n1
    Ids = {p1, p2}
    Names = {n1}
    Registered = {}
    Commands <- LoginCommands
    Msgs <- MCMsgs
    max_users = 1
    Unlimited = {n1}
    MaxPending = 1
    MaxChanges = 0
SPECIFICATION Spec
PROPERTY NoSecondAccount
CHECK_DEADLOCK FALSE
