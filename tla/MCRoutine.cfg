CONSTANTS
    Commits = {1, 2, 3, 4, 5, 6, 7}
    Parents <- MCParents
    Trees <- MCTrees
    Policies <- MCPolicies
    BaseTips = {1, 5, 7}
    HeadTips = {2, 3, 6}
    Bodies <- MCBodies
    BaseDeepenings <- MCBaseDeepenings
    ParentDeepenings <- MCParentDeepenings
    MaxEvents = 2
SPECIFICATION RoutineSpec
INVARIANTS RoutineTypeOK GreenIsBound GreenIsMeasured GreenIsLive
CHECK_DEADLOCK FALSE
