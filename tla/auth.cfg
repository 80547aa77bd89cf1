SPECIFICATION HSpec
CONSTANTS
    Clients = {c1, c2}
    MaxTokens = 3
    MaxPasswords = 1
    MaxFaults = 1
SYMMETRY Symmetry
INVARIANTS TypeOK OneSuccessor LogoutIsFinal ChangeEndsSessions
