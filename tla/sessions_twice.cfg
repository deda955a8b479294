CONSTANTS
    p1 = p1
    p2 = p2
    p3 = p3
    n1 = n1
    Ids = {p1, p2, p3}
    Names = {n1}
    Registered = {n1}
    Commands <- LoginCommands
    Msgs <- MCMsgs
    max_users = 3
    Unlimited = {}
    MaxPending = 1
    MaxChanges = 0
SPECIFICATION Spec
SYMMETRY IdSymmetry
INVARIANT OneSessionPerName
CHECK_DEADLOCK FALSE
