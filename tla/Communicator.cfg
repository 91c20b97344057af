SPECIFICATION FairSpec
CONSTANTS
    None = None
    SessCount = 2
    Fds = {7, 8, 9}
    ConnCount = 3
INVARIANTS TypeOK SessionsConserved ServesOwnSocket NetArmed WakeupComes
PROPERTIES ConnectionServed HaltEndsSessions
CHECK_DEADLOCK FALSE
