----------------------------- MODULE ToolTrace -----------------------------
(***************************************************************************)
(* How evals/tool_trace.py and scoring.py read a recorded tool call.  A    *)
(* name is a tool with or without the prefix mcp__server__.  A call names  *)
(* the tool it runs, or the gateway call_tool and the tool it dispatches.  *)
(***************************************************************************)
EXTENDS Integers, Sequences, FiniteSets

CONSTANTS
  Servers,       (* prefixes of tool names                                 *)
  Plain,         (* stands for no prefix                                   *)
  Tools,         (* tool names without prefix                              *)
  Gateway,       (* GATEWAY_TOOL: "call_tool"                              *)
  Discovery,     (* DISCOVERY_TOOLS                                        *)
  BeginsWith,    (* <<t, u>>: the name t begins with u, another tool's name *)
  NoTarget,      (* a gateway call without a usable target                 *)
  Workspaces,    (* routing identities of gateway calls                    *)
  NoWorkspace,   (* a call, or an expectation, without one                 *)
  Params,        (* parameter names                                        *)
  Values         (* their values, no two of which print alike              *)

ASSUME ToolAssumption ==
  /\ Gateway \in Tools /\ Discovery \subseteq Tools \ {Gateway}
  /\ BeginsWith \subseteq Tools \X Tools
  /\ Plain \notin Servers /\ NoWorkspace \notin Workspaces
  /\ NoTarget \notin [server : Servers \union {Plain}, tool : Tools]

Names == [server : Servers \union {Plain}, tool : Tools]

Arguments == UNION {[P -> Values] : P \in SUBSET Params}

(* top: the tool's arguments at the top level; request: those inside of a  *)
(* {"request": {...}}, which is empty for a tool that has none.            *)
CallRecords ==
  [name : Names, target : Names \union {NoTarget}, workspace : Workspaces \union {NoWorkspace},
   readable : BOOLEAN, top : Arguments, request : Arguments]

-----------------------------------------------------------------------------
(* normalize_tool_call *)

ThroughGateway(call) == call.name.tool = Gateway

(* raw_name: the name as recorded, the inner one of a gateway call.        *)
RanName(call) ==
  IF ThroughGateway(call) /\ call.target # NoTarget THEN call.target ELSE call.name

(* real_tool_name: the tool that ran, without its prefix. *)
RanTool(call) == RanName(call).tool

Kind(call) ==
  IF ThroughGateway(call) /\ call.target = NoTarget THEN "malformed"
  ELSE IF RanTool(call) \in Discovery THEN "discovery" ELSE "execution"

(* Arguments that an assertion on the call can inspect. *)
Readable(call) == call.readable /\ Kind(call) # "malformed"

(* flatten_request: the request wins over the top level. *)
Flattened(call) ==
  [p \in DOMAIN call.top \union DOMAIN call.request |->
     IF p \in DOMAIN call.request THEN call.request[p] ELSE call.top[p]]

(* _lookup_parameter: the top level wins over the request. *)
Provides(call, p) == p \in DOMAIN Flattened(call)

Lookup(call, p) == IF p \in DOMAIN call.top THEN call.top[p] ELSE call.request[p]

-----------------------------------------------------------------------------
(* _match_tool_name and _call_match *)

(* Mutant of LooselyNamed: a prefix of the recorded name is not seen through. *)
LooselyNamedAsRecorded(actual, expected) == actual = expected

LooselyNamed(actual, expected) ==
  /\ expected.server \in {Plain, actual.server}
  /\ actual.tool = expected.tool \/ <<actual.tool, expected.tool>> \in BeginsWith

StrictlyNamed(actual, expected) ==
  /\ expected.server \in {Plain, actual.server}
  /\ actual.tool = expected.tool

(* The expectation names the gateway, and the call went through it. *)
OnGateway(call, expected) == ThroughGateway(call) /\ expected.tool = Gateway

LooseMatch(call, expected) ==
  \/ OnGateway(call, expected)
  \/ /\ Kind(call) # "malformed"
     /\ LooselyNamed(RanName(call), expected)

StrictMatch(call, expected) ==
  IF OnGateway(call, expected)
  THEN expected.server \in {Plain, call.name.server}
  ELSE /\ Kind(call) # "malformed"
       /\ StrictlyNamed(RanName(call), expected)

(* _call_arguments: an expectation that names the gateway inspects the     *)
(* envelope, which has none of Params.                                     *)
Inspects(call, expected, p) == ~OnGateway(call, expected) /\ Provides(call, p)

Inspected(call, expected) ==
  IF OnGateway(call, expected) THEN [p \in {} |-> 0] ELSE Flattened(call)

InWorkspace(call, workspace) ==
  \/ workspace = NoWorkspace
  \/ ThroughGateway(call) /\ call.workspace = workspace

(* _select_calls, as the positions of the calls it selects. *)
SelectCalls(trace, expected, workspace) ==
  {i \in DOMAIN trace : LooseMatch(trace[i], expected) /\ InWorkspace(trace[i], workspace)}

SelectStrictly(trace, expected) == {i \in DOMAIN trace : StrictMatch(trace[i], expected)}
=============================================================================
