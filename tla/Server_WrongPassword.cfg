SPECIFICATION FairSpec
CONSTANTS
    c1 = c1
    c2 = c2
    Calls <- OneCall
    Settings <- WrongPassword
    MaxLogouts = 0
PROPERTIES
    EveryCallSettles
