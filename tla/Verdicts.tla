------------------------------ MODULE Verdicts ------------------------------
(***************************************************************************)
(* What the evaluators of evals/base_evaluators.py that look at tool calls *)
(* say of a trace, and what scoring.py makes of it.  Each verdict is a     *)
(* Boolean function of the trace (and of the results of its calls).        *)
(***************************************************************************)
EXTENDS ToolTrace

CONSTANT ChartTools  (* tools whose name says that they create a chart *)

First(S) == CHOOSE i \in S : \A j \in S : i <= j

-----------------------------------------------------------------------------
(* Which tools were called *)

WasCalled(trace, expected, workspace) == SelectCalls(trace, expected, workspace) # {}

AnyCalled(trace, workspace) ==
  \E i \in DOMAIN trace : Kind(trace[i]) = "execution" /\ InWorkspace(trace[i], workspace)

Count(trace, expected) == Cardinality(SelectStrictly(trace, expected))

(* unnecessary_tool_calls: how often a call that repeats another is over.  *)
Signature(call, checkArguments) == IF checkArguments THEN call ELSE call.name

Excess(trace, maxDuplicates, checkArguments) ==
  {i \in DOMAIN trace :
     Cardinality({j \in 1..i : Signature(trace[j], checkArguments) =
                               Signature(trace[i], checkArguments)}) > maxDuplicates}

-----------------------------------------------------------------------------
(* With which arguments *)

ReadableCalls(trace, expected, workspace) ==
  {i \in SelectCalls(trace, expected, workspace) : Readable(trace[i])}

CalledWith(trace, expected, p, values) ==
  \E i \in ReadableCalls(trace, expected, NoWorkspace) :
     Inspects(trace[i], expected, p) /\ Lookup(trace[i], p) \in values

(* tool_called_with_parameters: the calls that have all that is wanted,    *)
(* exactly, or (partially) under any name.                                 *)
Fitting(trace, expected, wanted, partial, workspace) ==
  {i \in ReadableCalls(trace, expected, workspace) :
     LET found == Inspected(trace[i], expected)
     IN  \A p \in DOMAIN wanted :
           \/ p \in DOMAIN found /\ found[p] = wanted[p]
           \/ partial /\ \E q \in DOMAIN found : found[q] = wanted[p]}

(* Mutant of CalledWithExactly: every fitting call must be without extras. *)
CalledWithExactlyAlways(trace, expected, wanted, workspace) ==
  LET fitting == Fitting(trace, expected, wanted, FALSE, workspace)
  IN  /\ fitting # {}
      /\ \A i \in fitting : DOMAIN Inspected(trace[i], expected) \subseteq DOMAIN wanted

(* The first fitting call decides: extra parameters in it fail the test.   *)
CalledWithExactly(trace, expected, wanted, workspace) ==
  LET fitting == Fitting(trace, expected, wanted, FALSE, workspace)
  IN  /\ fitting # {}
      /\ DOMAIN Inspected(trace[First(fitting)], expected) \subseteq DOMAIN wanted

CalledWithAtLeast(trace, expected, wanted, workspace) ==
  Fitting(trace, expected, wanted, TRUE, workspace) # {}

(* parameter_value_in_range: the first call with the parameter decides.    *)
Ranged(trace, expected, p) ==
  {i \in SelectStrictly(trace, expected) :
     Readable(trace[i]) /\ Inspects(trace[i], expected, p)}

InRange(trace, expected, p, range) ==
  /\ Ranged(trace, expected, p) # {}
  /\ Lookup(trace[First(Ranged(trace, expected, p))], p) \in range

-----------------------------------------------------------------------------
(* In which order: tool_call_sequence *)

(* Mutant of Reached: a call that does not match starts the sequence anew. *)
ReachedAnew(trace, steps) ==
  LET reached[n \in 0..Len(trace)] ==
        IF n = 0 THEN 0
        ELSE IF reached[n - 1] < Len(steps)
             THEN IF StrictMatch(trace[n], steps[reached[n - 1] + 1])
                  THEN reached[n - 1] + 1 ELSE 0
             ELSE reached[n - 1]
  IN  reached

(* sequence_idx after each call: a call that matches the next step takes it. *)
Reached(trace, steps) ==
  LET reached[n \in 0..Len(trace)] ==
        IF n = 0 THEN 0
        ELSE IF reached[n - 1] < Len(steps) /\ StrictMatch(trace[n], steps[reached[n - 1] + 1])
             THEN reached[n - 1] + 1
             ELSE reached[n - 1]
  IN  reached

ExactSequence(trace, steps) ==
  /\ Len(trace) = Len(steps)
  /\ \A i \in DOMAIN steps : StrictMatch(trace[i], steps[i])

(* allow_intermediate: any other tool may be called in between. *)
InOrder(trace, steps) == trace # <<>> /\ Reached(trace, steps)[Len(trace)] = Len(steps)

(* Without it, only tools of the sequence may. *)
InOrderAlone(trace, steps) ==
  /\ InOrder(trace, steps)
  /\ \A i \in DOMAIN trace : \E j \in DOMAIN steps : StrictMatch(trace[i], steps[j])

-----------------------------------------------------------------------------
(* With which results: records [of |-> the call, outcome |-> ...], where a *)
(* "rejected" one has no error flag but error text, and a "blocked" one is *)
(* the refusal of a tool that the harness does not allow.                  *)

Outcomes == {"ok", "rejected", "failed", "blocked"}

ExecutionSuccessful(results) ==
  results # <<>> /\ \A i \in DOMAIN results : results[i].outcome # "failed"

NoToolCallErrors(results) == \A i \in DOMAIN results : results[i].outcome = "ok"

(* was_chart_created looks for the result of a call at the call's position. *)
ChartCreated(trace, results) ==
  \E i \in DOMAIN trace \intersect DOMAIN results :
    /\ Kind(trace[i]) # "discovery" /\ RanTool(trace[i]) \in ChartTools
    /\ results[i].outcome \in {"ok", "rejected"}

-----------------------------------------------------------------------------
(* scoring.py, for a test whose evaluators are was_tool_called:e for each  *)
(* e of expected.  A score is a fraction <<numerator, denominator>>.       *)

(* Mutant of PrimaryTools: only the first expected tool is honoured. *)
PrimaryToolsFirst(expected) == {(CHOOSE e \in expected : TRUE).tool}

PrimaryTools(expected) == {e.tool : e \in expected}

PrimaryCalls(trace, expected) ==
  {i \in DOMAIN trace : RanTool(trace[i]) \in PrimaryTools(expected)}

(* max(PENALTY_FLOOR, 1 - false_positive_rate); without expectations, and  *)
(* without calls, nothing is unexpected.                                   *)
Multiplier(trace, expected) ==
  LET primary == Cardinality(PrimaryCalls(trace, expected))
  IN  IF expected = {} \/ trace = <<>> THEN <<1, 1>>
      ELSE IF 2 * primary < Len(trace) THEN <<1, 2>> ELSE <<primary, Len(trace)>>

PassedEvaluators(trace, expected) == {e \in expected : WasCalled(trace, e, NoWorkspace)}

FinalScore(trace, expected) ==
  LET multiplier == Multiplier(trace, expected)
  IN  IF expected = {} THEN <<0, 1>>
      ELSE <<Cardinality(PassedEvaluators(trace, expected)) * multiplier[1],
             Cardinality(expected) * multiplier[2]>>

AtMost(a, b) == a[1] * b[2] <= b[1] * a[2]
=============================================================================
