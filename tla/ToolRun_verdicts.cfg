\* Every trace of up to three calls, executed and answered in every way.
SPECIFICATION RunSpec
CONSTANTS
  s = s
  create = create
  list = list
  search = search
  searchTools = searchTools
  callTool = callTool
  w = w
  p = p
  q = q
  Servers = {s}
  Plain = Plain
  Tools = {create, list, search, searchTools, callTool}
  Gateway = callTool
  Discovery = {searchTools}
  BeginsWith <- MCBeginsWith
  NoTarget = NoTarget
  Workspaces = {w}
  NoWorkspace = NoWorkspace
  Params = {p, q}
  Values = {1, 2}
  ChartTools = {create}
  Calls <- MCCalls
  Expected <- MCExpected
  Providers = {"collects", "local", "sdk", "chatbot"}
  MaxCalls = 3
INVARIANTS
  ReportedCallsRunOnce
  ResultsMatchCalls
  SequenceIsSubsequence
  StricterImpliesLooser
PROPERTIES
  VerdictsStay
  ExpectedCallNeverHurts
\* A test ends.
CHECK_DEADLOCK FALSE
