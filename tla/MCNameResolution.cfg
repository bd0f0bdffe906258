SPECIFICATION NamesSpec
CONSTANTS
  Modules <- MCModules
  Entry = "a"
  Graphs <- MCGraphs
  Interfaces <- MCInterfaces
  Workspaces <- MCWorkspaces
INVARIANTS
  GraphIsExact
  NamesAreExact
PROPERTY NamesSettle
CHECK_DEADLOCK FALSE
