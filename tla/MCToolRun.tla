----------------------------- MODULE MCToolRun -----------------------------
(* Instances of ToolRun for TLC. *)
EXTENDS ToolRun

CONSTANTS s, create, list, search, searchTools, callTool, w, p, q

Direct(name, top) ==
  [name |-> name, target |-> NoTarget, workspace |-> NoWorkspace, readable |-> TRUE,
   top |-> top, request |-> [x \in {} |-> 0]]

Prefixed(tool) == [server |-> s, tool |-> tool]

Bare(tool) == [server |-> Plain, tool |-> tool]

Through(target, request) ==
  [name |-> Prefixed(callTool), target |-> target, workspace |-> w, readable |-> TRUE,
   top |-> [x \in {p} |-> 1], request |-> request]

(* A tool by its own name, by its prefixed name and through the gateway; a *)
(* look-up whose name begins like a tool's, a gateway call without target, *)
(* and a tool that nobody expects.                                         *)
MCCalls ==
  { Direct(Bare(create), [x \in {p} |-> 1]),
    Direct(Prefixed(create), [x \in {p, q} |-> 1]),
    Through(Bare(create), [x \in {p} |-> 2]),
    Through(NoTarget, [x \in {} |-> 0]),
    Direct(Bare(searchTools), [x \in {q} |-> 2]),
    Direct(Prefixed(search), [x \in {} |-> 0]),
    Direct(Bare(list), [x \in {} |-> 0]) }

MCExpected == {Bare(create), Prefixed(create), Bare(search), Bare(callTool)}

MCBeginsWith == {<<searchTools, search>>}
=============================================================================
