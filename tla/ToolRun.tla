------------------------------ MODULE ToolRun ------------------------------
(***************************************************************************)
(* The tool calls of one test: the model makes them, somebody executes     *)
(* them, and the evaluators judge the trace.  Who executes depends on the  *)
(* provider of src/llm_integration.py:                                     *)
(*   - one that collects returns the calls of the model's only answer;     *)
(*   - one that is local executes each call and drops its result;          *)
(*   - an sdk and a chatbot execute the calls while they stream them, and  *)
(*     report the results that arrived before the stream ended, an sdk in  *)
(*     the order of the calls, a chatbot in the order of the results.      *)
(* TestRunner.run_test executes the calls if no result was reported.       *)
(***************************************************************************)
EXTENDS Verdicts

CONSTANTS
  Providers,   (* a subset of {"collects", "local", "sdk", "chatbot"}      *)
  Calls,       (* the calls that the model may make                        *)
  Expected,    (* the names that evaluators expect                         *)
  MaxCalls     (* bound: calls of one test                                 *)

ASSUME RunAssumption ==
  /\ Providers \subseteq {"collects", "local", "sdk", "chatbot"}
  /\ Calls \subseteq CallRecords /\ MaxCalls \in Nat
  /\ Expected \subseteq Names /\ IsFiniteSet(Expected)

VARIABLES
  provider,  (* of the test                                                *)
  phase,     (* where run_test awaits, and "judging" or "failed" at its end *)
  trace,     (* LLMResult.tool_calls                                       *)
  answers,   (* what a stream answered, in the order of the answers        *)
  results,   (* tool_results that the evaluators get                       *)
  ran,       (* how often the MCP server executed each call                *)
  next       (* the call that the local or the runner's loop is at         *)

runVars == <<provider, phase, trace, answers, results, ran, next>>

Phases == {"asking", "local", "executing", "judging", "failed"}

Answers == [of : Nat \ {0}, outcome : Outcomes]

Streams == {"sdk", "chatbot"}

RunInit ==
  /\ provider \in Providers
  /\ phase = "asking" /\ trace = <<>> /\ answers = <<>> /\ results = <<>>
  /\ ran = <<>> /\ next = 1

-----------------------------------------------------------------------------
(* generate_with_tools *)

Answered == {answers[i].of : i \in DOMAIN answers}

(* The model makes a call. *)
MakeCall ==
  /\ phase = "asking" /\ Len(trace) < MaxCalls
  /\ \E call \in Calls : trace' = Append(trace, call)
  /\ ran' = Append(ran, 0)
  /\ UNCHANGED <<provider, phase, answers, results, next>>

(* A stream executed a call and sent its result. *)
StreamResult ==
  /\ phase = "asking" /\ provider \in Streams
  /\ \E i \in DOMAIN trace \ Answered, outcome \in Outcomes :
       /\ answers' = Append(answers, [of |-> i, outcome |-> outcome])
       /\ ran' = [ran EXCEPT ![i] = @ + 1]
  /\ UNCHANGED <<provider, phase, trace, results, next>>

(* Mutant of Reported: an sdk's results in the order in which they arrived. *)
ReportedAsTheyArrived == answers

(* mcp_tool_results: the answers in the order of the calls. *)
InCallOrder ==
  [k \in DOMAIN answers |->
     CHOOSE a \in {answers[i] : i \in DOMAIN answers} :
       Cardinality({n \in Answered : n <= a.of}) = k]

Reported == IF provider = "sdk" THEN InCallOrder ELSE answers

(* The stream ends.  Calls without an answer may have been executed all    *)
(* the same.                                                               *)
EndStream ==
  /\ phase = "asking"
  /\ \E silently \in SUBSET (DOMAIN trace \ Answered) :
       ran' = [i \in DOMAIN trace |-> IF i \in silently THEN ran[i] + 1 ELSE ran[i]]
  /\ results' = Reported
  /\ phase' = "executing"
  /\ UNCHANGED <<provider, trace, answers, next>>

(* With the sdk's last message, an error in the iteration, or the third    *)
(* repetition of a call that fails alike.                                  *)
SdkEnds == provider = "sdk" /\ EndStream

(* With a final or an error event, an idle or slow stream, a broken        *)
(* connection, or a turn in which nothing new came.                        *)
ChatbotEnds == provider = "chatbot" /\ EndStream

ModelAnswers ==
  /\ phase = "asking" /\ provider \notin Streams
  /\ phase' = IF provider = "local" THEN "local" ELSE "executing"
  /\ UNCHANGED <<provider, trace, answers, results, ran, next>>

(* ToolDiscoveryService.execute_tool_call; an MCPError is only logged.     *)
RunLocally ==
  /\ phase = "local" /\ next <= Len(trace)
  /\ \E done \in {0, 1} : ran' = [ran EXCEPT ![next] = @ + done]
  /\ next' = next + 1
  /\ UNCHANGED <<provider, phase, trace, answers, results>>

LocalsDone ==
  /\ phase = "local" /\ next > Len(trace)
  /\ phase' = "executing" /\ next' = 1
  /\ UNCHANGED <<provider, trace, answers, results, ran>>

(* A timeout or an error for which the provider reports no calls, although *)
(* an sdk may have executed some; a chatbot reports those of its stream.   *)
AskFailed ==
  /\ phase = "asking" /\ (provider = "chatbot" => trace = <<>>)
  /\ phase' = "executing" /\ trace' = <<>> /\ ran' = <<>> /\ answers' = <<>>
  /\ UNCHANGED <<provider, results, next>>

(* An error that the provider lets through to run_test. *)
AskRaised ==
  /\ phase = "asking" /\ provider \in Streams
  /\ phase' = "failed"
  /\ UNCHANGED <<provider, trace, answers, results, ran, next>>

-----------------------------------------------------------------------------
(* run_test *)

(* Mutant of LeftToRunner: results that the provider reported are no reason *)
(* not to execute the calls.                                               *)
LeftToRunnerAlways == next <= Len(trace)

(* No result was reported: whatever is in results comes from this loop.    *)
LeftToRunner == next <= Len(trace) /\ Len(results) = next - 1

RunCall ==
  /\ phase = "executing" /\ LeftToRunner
  /\ ran' = [ran EXCEPT ![next] = @ + 1]
  /\ \E outcome \in Outcomes \ {"blocked"} :
       results' = Append(results, [of |-> next, outcome |-> outcome])
  /\ next' = next + 1
  /\ UNCHANGED <<provider, phase, trace, answers>>

(* call_tool raises when the client has no session. *)
RunRaised ==
  /\ phase = "executing" /\ LeftToRunner
  /\ phase' = "failed"
  /\ UNCHANGED <<provider, trace, answers, results, ran, next>>

Judge ==
  /\ phase = "executing" /\ ~LeftToRunner
  /\ phase' = "judging"
  /\ UNCHANGED <<provider, trace, answers, results, ran, next>>

RunNext ==
  \/ MakeCall \/ StreamResult \/ SdkEnds \/ ChatbotEnds \/ ModelAnswers
  \/ RunLocally \/ LocalsDone \/ AskFailed \/ AskRaised
  \/ RunCall \/ RunRaised \/ Judge

RunSpec == RunInit /\ [][RunNext]_runVars

-----------------------------------------------------------------------------
(* Types; there is a count of executions for each call, and a result is of *)
(* a call of the trace.                                                    *)
ToolRunTypeOK ==
  /\ provider \in Providers /\ phase \in Phases
  /\ trace \in Seq(Calls) /\ ran \in [DOMAIN trace -> Nat]
  /\ answers \in Seq(Answers) /\ results \in Seq(Answers)
  /\ \A i \in DOMAIN results : results[i].of \in DOMAIN trace
  /\ next \in 1..Len(trace) + 1

(* A provider that reports a result, be it of one call only, keeps the     *)
(* runner from executing any call again; one that only collects calls      *)
(* leaves each to be executed exactly once before it is judged.            *)
ReportedCallsRunOnce ==
  /\ answers # <<>> => \A i \in DOMAIN ran : ran[i] <= 1
  /\ provider = "collects" /\ phase = "judging" => \A i \in DOMAIN ran : ran[i] = 1

(* The evaluators that pair the i-th call with the i-th result may do so,  *)
(* unless the stream of an sdk was cut between two results, or the results *)
(* are a chatbot's: a chart that counts as created was created by a call   *)
(* that did not fail.                                                      *)
ResultsMatchCalls ==
  phase = "judging" /\ provider # "chatbot" /\ Answered \in {{}, DOMAIN trace} =>
    /\ DOMAIN results = DOMAIN trace
    /\ \A i \in DOMAIN results : results[i].of = i
    /\ ChartCreated(trace, results) =>
         \E i \in DOMAIN results :
           RanTool(trace[results[i].of]) \in ChartTools /\ results[i].outcome \in {"ok", "rejected"}
    /\ results # <<>> /\ NoToolCallErrors(results) => ExecutionSuccessful(results)

(* The verdicts below depend on the trace alone: it is enough to look at   *)
(* each trace before anything of it is executed.                           *)
Fresh == phase = "asking" /\ answers = <<>>

Steps == [1..1 -> Expected] \union [1..2 -> Expected] \union [1..3 -> Expected]

Embeds(steps) ==
  \E at \in [DOMAIN steps -> DOMAIN trace] :
    /\ \A i, j \in DOMAIN steps : i < j => at[i] < at[j]
    /\ \A i \in DOMAIN steps : StrictMatch(trace[at[i]], steps[i])

(* tool_call_sequence, which takes the first call that matches each step,  *)
(* overlooks no way to find the steps in the trace, and its three modes    *)
(* are of decreasing strictness.                                           *)
SequenceIsSubsequence ==
  Fresh => \A steps \in Steps :
    /\ InOrder(trace, steps) <=> Embeds(steps)
    /\ ExactSequence(trace, steps) => InOrderAlone(trace, steps)

SomeWanted == {wanted \in Arguments : wanted # [p \in {} |-> 0]}

(* An evaluator that asks for more never passes where one that asks for    *)
(* less fails: the evaluators read names and arguments alike, though some  *)
(* match names loosely and some strictly.                                  *)
StricterImpliesLooser ==
  Fresh => \A e \in Expected :
    /\ Count(trace, e) > 0 => WasCalled(trace, e, NoWorkspace)
    /\ \A p \in Params : InRange(trace, e, p, Values) => CalledWith(trace, e, p, Values)
    /\ \A w \in Workspaces : WasCalled(trace, e, w) => WasCalled(trace, e, NoWorkspace)
    /\ \A wanted \in SomeWanted, w \in Workspaces \union {NoWorkspace} :
         /\ CalledWithExactly(trace, e, wanted, w) => CalledWithAtLeast(trace, e, wanted, w)
         /\ CalledWithAtLeast(trace, e, wanted, w) => WasCalled(trace, e, w)

(* A verdict that is reached stays when the model goes on to call tools.   *)
VerdictsStay ==
  [][Fresh /\ Len(trace') > Len(trace) =>
     \A e \in Expected :
       /\ \A w \in Workspaces \union {NoWorkspace} : WasCalled(trace, e, w) => WasCalled(trace', e, w)
       /\ \A wanted \in SomeWanted :
            CalledWithExactly(trace, e, wanted, NoWorkspace)
              => CalledWithExactly(trace', e, wanted, NoWorkspace)
       /\ \A p \in Params, v \in Values :
            Ranged(trace, e, p) # {} =>
              InRange(trace, e, p, {v}) = InRange(trace', e, p, {v})]_runVars

(* To call an expected tool, whatever the server's prefix, never lowers    *)
(* the score of the test.                                                  *)
ExpectedCallNeverHurts ==
  [][Fresh /\ Len(trace') > Len(trace) =>
     \A expected \in SUBSET Expected :
       (\E e \in expected : e.tool # Gateway /\ StrictMatch(trace'[Len(trace')], e))
         => AtMost(FinalScore(trace, expected), FinalScore(trace', expected))]_runVars

(* What the comment on the runner's loop says: it skips what the provider  *)
(* executed already.                                                       *)
EachCallRunsOnce == \A i \in DOMAIN ran : ran[i] <= 1
=============================================================================
