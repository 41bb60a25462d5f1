\* Who executes a call, if the provider may have done so already.
SPECIFICATION RunSpec
CONSTANTS
  s = s
  create = create
  list = list
  search = search
  searchTools = searchTools
  callTool = callTool
  w = w
  p = p
  q = q
  Servers = {s}
  Plain = Plain
  Tools = {create, list, search, searchTools, callTool}
  Gateway = callTool
  Discovery = {searchTools}
  BeginsWith <- MCBeginsWith
  NoTarget = NoTarget
  Workspaces = {w}
  NoWorkspace = NoWorkspace
  Params = {p, q}
  Values = {1, 2}
  ChartTools = {create}
  Calls <- MCCalls
  Expected <- MCExpected
  Providers = {"collects", "local"}
  MaxCalls = 2
INVARIANTS
  EachCallRunsOnce
\* A test ends.
CHECK_DEADLOCK FALSE
