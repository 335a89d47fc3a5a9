SPECIFICATION FairSpec
CONSTANTS
    Paths = {home, menu}
    Boot = home
    None = None
    MaxRequests = 5
INVARIANTS BackFindsScreen
PROPERTIES RouteSettles
CHECK_DEADLOCK FALSE
