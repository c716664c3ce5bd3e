\* Three items and two processes, one of which may die.
SPECIFICATION FairSpec
CONSTANTS
    Items = {1, 2, 3}
    MaxProcess = 2
    Mortal = {2}
PROPERTIES
    ImplementsPool
    LaunchReturns
\* The call returns, or hangs on half a message.
CHECK_DEADLOCK FALSE
