SPECIFICATION DesktopSpec
 
PROPERTIES CopyIsCleared  
CONSTANTS
    a1 = a1
    a2 = a2
    o1 = o1
    o2 = o2
    p1 = p1
    p2 = p2
    Accounts = {a1}
    AppItems = {o1, o2}
    Projects = {p1, p2}
    ItemLists <- MCItemLists
    ProjectLists <- MCProjectLists
    Scenes <- AllScenes
    MaxInFlight = 2
    MaxGen = 2
    MaxCopies = 2
    NoAccount = NoAccount
CHECK_DEADLOCK FALSE
