\* Three connections, two descriptors for them.
SPECIFICATION Spec

CONSTANTS
    c1 = c1
    c2 = c2
    c3 = c3
    Conn <- MCConn
    ListenFd = 4
    Fds <- MCFds
    None = None

CHECK_DEADLOCK FALSE

INVARIANTS
    TypeOK
    RegistrationAgrees
    ClientsOwnFds
    FiredCurrent

PROPERTIES
    Served
    TimersReached
