--------------------------- MODULE ToolRun_proofs ---------------------------
(***************************************************************************)
(* Proofs about ToolRun: who executes the calls of a test, and which of    *)
(* the evaluators' verdicts imply which.                                   *)
(***************************************************************************)
EXTENDS ToolRun, FiniteSetTheorems, SequenceTheorems, WellFoundedInduction, TLAPS

-----------------------------------------------------------------------------
(* A set of numbers that is not empty has a least element, which First     *)
(* chooses.                                                                *)

UpTo(S, i) == {j \in S : j <= i}

LEMMA FirstIsLeast ==
  ASSUME NEW S \in SUBSET Nat, S # {}
  PROVE  First(S) \in S /\ \A j \in S : First(S) <= j
<1>a. \A i, j \in S : i \in Nat /\ (j \in UpTo(S, i) <=> j <= i)
  BY DEF UpTo
<1>b. \A i : UpTo(S, i) \subseteq S
  BY DEF UpTo
<1> DEFINE T == {UpTo(S, i) : i \in S}
<1>1. T \subseteq FiniteSubsetsOf(Nat) /\ T # {}
  <2>1. ASSUME NEW i \in S PROVE UpTo(S, i) \subseteq 0..i /\ IsFiniteSet(0..i)
    <3>1. i \in Nat /\ 0 \in Int /\ i \in Int
      OBVIOUS
    <3>2. UpTo(S, i) \subseteq 0..i
      <4> SUFFICES ASSUME NEW j \in UpTo(S, i) PROVE j \in 0..i
        OBVIOUS
      <4>1. j \in Nat /\ j <= i
        BY <1>a, <1>b
      <4> QED BY <4>1, <3>1
    <3> QED BY <3>1, <3>2, FS_Interval
  <2>2. \A i \in S : IsFiniteSet(UpTo(S, i)) /\ UpTo(S, i) \subseteq Nat
    BY <2>1, FS_Subset DEF UpTo
  <2> QED BY <2>2 DEF FiniteSubsetsOf
<1>2. PICK t \in T : \A u \in T : ~(<<u, t>> \in StrictSubsetOrdering(Nat))
  BY <1>1, WFMin, FS_StrictSubsetOrderingWellFounded
<1>3. PICK i \in S : t = UpTo(S, i)
  OBVIOUS
<1>4. ASSUME NEW j \in S, j < i PROVE FALSE
  <2>1. UpTo(S, j) \subseteq t /\ t \subseteq Nat /\ i \in t /\ i \notin UpTo(S, j)
    <3>1. ~(i <= j) /\ i <= i
      BY <1>a, <1>4
    <3>2. \A k \in S : k <= j => k <= i
      BY <1>a, <1>4
    <3> QED BY <1>3, <3>1, <3>2, <1>a, <1>b
  <2>2. UpTo(S, j) # t /\ UpTo(S, j) \in SUBSET Nat /\ t \in SUBSET Nat
    BY <2>1
  <2>3. <<UpTo(S, j), t>> \in StrictSubsetOrdering(Nat)
    BY <2>1, <2>2 DEF StrictSubsetOrdering
  <2> QED BY <1>2, <2>3
<1>5. \A j \in S : i <= j
  BY <1>4
<1> QED BY <1>5 DEF First

-----------------------------------------------------------------------------
(* Who executes the calls: the inductive invariant.                        *)

RunTypes ==
  /\ trace \in Seq(Calls) /\ ran \in [DOMAIN trace -> Nat]
  /\ answers \in Seq(Answers) /\ next \in Nat \ {0}
  /\ Answered \subseteq DOMAIN trace

(* Nothing is executed while the model is asked, but by a stream, which    *)
(* executes what it answers once.                                          *)
AnsweredOnce ==
  /\ phase = "asking" =>
       /\ results = <<>> /\ next = 1
       /\ \A i \in DOMAIN trace : ran[i] = IF i \in Answered THEN 1 ELSE 0
  /\ provider \notin Streams => answers = <<>>
  /\ phase = "local" => provider = "local"

(* After a reported result there is nothing left to the runner's loop.     *)
ReportedIsDone ==
  answers # <<>> =>
    /\ \A i \in DOMAIN trace : ran[i] <= 1
    /\ phase = "executing" => ~LeftToRunner

(* The loop is at the call after the last one that was executed.           *)
LoopExecutes ==
  provider = "collects" =>
    /\ phase = "executing" =>
         /\ results \in Seq(Answers) /\ Len(results) = next - 1 /\ next <= Len(trace) + 1
         /\ \A i \in DOMAIN trace : ran[i] = IF i < next THEN 1 ELSE 0
    /\ phase = "judging" => \A i \in DOMAIN trace : ran[i] = 1

RunInv == RunTypes /\ AnsweredOnce /\ ReportedIsDone /\ LoopExecutes

LEMMA InitRun == RunInit => RunInv
<1> SUFFICES ASSUME RunInit PROVE RunInv
  OBVIOUS
<1>1. RunTypes
  BY DEF RunInit, RunTypes, Answered
<1>2. AnsweredOnce
  BY DEF RunInit, AnsweredOnce, Answered
<1>3. ReportedIsDone /\ LoopExecutes
  BY DEF RunInit, ReportedIsDone, LoopExecutes
<1> QED BY <1>1, <1>2, <1>3 DEF RunInv

LEMMA MakeCallStep == RunInv /\ MakeCall => RunInv'
<1> SUFFICES ASSUME RunInv, MakeCall PROVE RunInv'
  OBVIOUS
<1> USE DEF RunInv, RunTypes
<1>1. PICK call \in Calls : trace' = Append(trace, call)
  BY DEF MakeCall
<1>2. /\ trace' \in Seq(Calls) /\ Len(trace') = Len(trace) + 1 /\ Len(trace) \in Nat
      /\ DOMAIN trace = 1..Len(trace) /\ DOMAIN trace' = 1..Len(trace) + 1
  BY <1>1
<1>3. /\ ran \in Seq(Nat) /\ Len(ran) = Len(trace)
  BY <1>2
<1>4. /\ ran' \in [DOMAIN trace' -> Nat]
      /\ \A i \in DOMAIN trace : ran'[i] = ran[i]
      /\ ran'[Len(trace) + 1] = 0
  <2> DEFINE n == Len(trace)
  <2>1. ran' = Append(ran, 0)
    BY DEF MakeCall
  <2> HIDE DEF RunInv, RunTypes
  <2>2. n \in Nat /\ DOMAIN trace = 1..n /\ DOMAIN trace' = 1..n + 1 /\ ran \in Seq(Nat) /\ Len(ran) = n
    BY <1>2, <1>3
  <2>3. ran' \in Seq(Nat) /\ Len(ran') = n + 1
    BY <2>1, <2>2
  <2>4. /\ \A i \in 1..n : ran'[i] = ran[i]
        /\ ran'[n + 1] = 0
    BY <2>1, <2>2
  <2> QED BY <2>2, <2>3, <2>4
<1>5. Answered' = Answered /\ answers' = answers /\ next' = next
  BY DEF MakeCall, Answered
<1>6. RunTypes'
  BY <1>2, <1>4, <1>5
<1>7. /\ phase = "asking" /\ phase' = "asking" /\ provider' = provider /\ results' = results
  BY DEF MakeCall
<1>8. AnsweredOnce'
  <2>1. ASSUME NEW i \in DOMAIN trace' PROVE ran'[i] = IF i \in Answered THEN 1 ELSE 0
    <3>1. CASE i \in DOMAIN trace
      BY <3>1, <1>4, <1>7 DEF AnsweredOnce
    <3>2. CASE i = Len(trace) + 1
      <4>1. i \notin Answered
        BY <3>2, <1>2
      <4> QED BY <4>1, <3>2, <1>4
    <3> QED BY <3>1, <3>2, <1>2
  <2> QED BY <2>1, <1>5, <1>7 DEF AnsweredOnce
<1>9. \A i \in DOMAIN trace' : ran'[i] <= 1
  BY <1>8, <1>7, <1>5 DEF AnsweredOnce
<1> QED BY <1>6, <1>7, <1>8, <1>9 DEF ReportedIsDone, LoopExecutes

LEMMA StreamResultStep == RunInv /\ StreamResult => RunInv'
<1> SUFFICES ASSUME RunInv, StreamResult PROVE RunInv'
  OBVIOUS
<1> USE DEF RunInv, RunTypes
<1>1. PICK i \in DOMAIN trace \ Answered, outcome \in Outcomes :
        /\ answers' = Append(answers, [of |-> i, outcome |-> outcome])
        /\ ran' = [ran EXCEPT ![i] = @ + 1]
  BY DEF StreamResult
<1>2. /\ phase = "asking" /\ phase' = "asking" /\ provider' = provider /\ trace' = trace
      /\ provider \in Streams /\ results' = results /\ next' = next
  BY DEF StreamResult
<1>3. /\ i \in Nat \ {0} /\ [of |-> i, outcome |-> outcome] \in Answers
  BY DEF Answers
<1>4. answers' \in Seq(Answers) /\ Answered' = Answered \union {i}
  <2>1. /\ answers' \in Seq(Answers) /\ DOMAIN answers' = DOMAIN answers \union {Len(answers) + 1}
        /\ \A k \in DOMAIN answers : answers'[k] = answers[k]
        /\ answers'[Len(answers) + 1] = [of |-> i, outcome |-> outcome]
    BY <1>1, <1>3
  <2> QED BY <2>1 DEF Answered
<1>5. /\ ran' \in [DOMAIN trace -> Nat] /\ ran'[i] = ran[i] + 1
      /\ \A j \in DOMAIN trace \ {i} : ran'[j] = ran[j]
  BY <1>1
<1>6. ASSUME NEW j \in DOMAIN trace PROVE ran'[j] = IF j \in Answered' THEN 1 ELSE 0
  <2>1. ran[j] = IF j \in Answered THEN 1 ELSE 0
    BY <1>2 DEF AnsweredOnce
  <2>2. CASE j = i
    BY <2>1, <2>2, <1>4, <1>5
  <2>3. CASE j # i
    BY <2>1, <2>3, <1>4, <1>5
  <2> QED BY <2>2, <2>3
<1>7. \A j \in DOMAIN trace' : ran'[j] <= 1
  BY <1>6, <1>2
<1>8. RunTypes' /\ AnsweredOnce'
  BY <1>2, <1>4, <1>5, <1>6 DEF AnsweredOnce
<1> QED BY <1>2, <1>7, <1>8 DEF ReportedIsDone, LoopExecutes

(* What a stream reports is as long as what it answered. *)
LEMMA ReportedLength ==
  ASSUME answers \in Seq(Answers)
  PROVE  Len(Reported) = Len(answers)
<1>1. CASE provider # "sdk"
  BY <1>1 DEF Reported
<1>2. CASE provider = "sdk"
  <2> DEFINE S == {InCallOrder[k] : k \in DOMAIN answers}
  <2>1. DOMAIN answers = 1..Len(answers) /\ Len(answers) \in Nat
    OBVIOUS
  <2>2. InCallOrder \in [1..Len(answers) -> S]
    BY <2>1 DEF InCallOrder
  <2>3. Len(InCallOrder) = Len(answers)
    <3> HIDE DEF S
    <3> QED BY <2>1, <2>2
  <2> QED BY <2>3, <1>2 DEF Reported
<1> QED BY <1>1, <1>2

LEMMA EndStreamStep == RunInv /\ EndStream /\ provider \in Streams => RunInv'
<1> SUFFICES ASSUME RunInv, EndStream, provider \in Streams PROVE RunInv'
  OBVIOUS
<1> USE DEF RunInv, RunTypes
<1>1. PICK silently \in SUBSET (DOMAIN trace \ Answered) :
        ran' = [i \in DOMAIN trace |-> IF i \in silently THEN ran[i] + 1 ELSE ran[i]]
  BY DEF EndStream
<1>2. /\ phase = "asking" /\ phase' = "executing" /\ provider' = provider /\ trace' = trace
      /\ answers' = answers /\ Answered' = Answered /\ next' = next /\ results' = Reported
  BY DEF EndStream, Answered
<1>3. ASSUME NEW i \in DOMAIN trace PROVE ran'[i] \in Nat /\ ran'[i] <= 1
  <2>1. ran[i] = IF i \in Answered THEN 1 ELSE 0
    BY <1>2 DEF AnsweredOnce
  <2> QED BY <2>1, <1>1
<1>4. RunTypes'
  BY <1>1, <1>2, <1>3
<1>5. AnsweredOnce'
  BY <1>2 DEF AnsweredOnce
<1>6. ReportedIsDone'
  <2>1. ASSUME answers # <<>> PROVE ~LeftToRunner'
    <3>1. Len(results') = Len(answers) /\ Len(answers) > 0
      BY <2>1, <1>2, ReportedLength
    <3>2. next' = 1
      BY <1>2 DEF AnsweredOnce
    <3> QED BY <3>1, <3>2 DEF LeftToRunner
  <2> QED BY <2>1, <1>2, <1>3 DEF ReportedIsDone
<1>7. LoopExecutes'
  BY <1>2 DEF LoopExecutes, Streams
<1> QED BY <1>4, <1>5, <1>6, <1>7

LEMMA AskStep == RunInv /\ (ModelAnswers \/ AskFailed \/ AskRaised) => RunInv'
<1> SUFFICES ASSUME RunInv, ModelAnswers \/ AskFailed \/ AskRaised PROVE RunInv'
  OBVIOUS
<1> USE DEF RunInv, RunTypes
<1>0. phase = "asking" /\ results = <<>> /\ next = 1
  BY DEF ModelAnswers, AskFailed, AskRaised, AnsweredOnce
<1>1. CASE ModelAnswers
  <2>1. /\ Answered' = Answered /\ Answered = {} /\ answers = <<>> /\ provider \notin Streams
        /\ provider' = provider /\ trace' = trace /\ answers' = answers /\ results' = results
        /\ ran' = ran /\ next' = next /\ phase' = IF provider = "local" THEN "local" ELSE "executing"
    BY <1>1 DEF ModelAnswers, Answered, AnsweredOnce
  <2>2. \A i \in DOMAIN trace : i \in Nat \ {0} /\ ran[i] = 0
    BY <1>0, <2>1 DEF AnsweredOnce
  <2>3. LoopExecutes'
    BY <1>0, <2>1, <2>2 DEF LoopExecutes
  <2> QED BY <1>0, <2>1, <2>3 DEF AnsweredOnce, ReportedIsDone
<1>2. CASE AskFailed
  <2>1. /\ Answered' = {} /\ answers' = <<>> /\ trace' = <<>> /\ ran' = <<>>
        /\ provider' = provider /\ results' = results /\ next' = next /\ phase' = "executing"
    BY <1>2 DEF AskFailed, Answered
  <2>2. trace' \in Seq(Calls) /\ ran' \in [DOMAIN trace' -> Nat] /\ answers' \in Seq(Answers)
    BY <2>1
  <2>3. LoopExecutes'
    BY <1>0, <2>1 DEF LoopExecutes
  <2> QED BY <1>0, <2>1, <2>2, <2>3 DEF AnsweredOnce, ReportedIsDone
<1>3. CASE AskRaised
  <2>1. /\ Answered' = Answered /\ phase' = "failed" /\ provider \in Streams
        /\ provider' = provider /\ trace' = trace /\ answers' = answers /\ results' = results
        /\ ran' = ran /\ next' = next
    BY <1>3 DEF AskRaised, Answered
  <2>2. \A i \in DOMAIN trace : ran[i] <= 1
    BY <1>0 DEF AnsweredOnce
  <2> QED BY <1>0, <2>1, <2>2 DEF AnsweredOnce, ReportedIsDone, LoopExecutes, Streams
<1> QED BY <1>1, <1>2, <1>3

LEMMA LocalStep == RunInv /\ (RunLocally \/ LocalsDone) => RunInv'
<1> SUFFICES ASSUME RunInv, RunLocally \/ LocalsDone PROVE RunInv'
  OBVIOUS
<1> USE DEF RunInv, RunTypes
<1>1. phase = "local" /\ provider = "local" /\ answers = <<>>
  BY DEF RunLocally, LocalsDone, AnsweredOnce, Streams
<1>2. /\ provider' = provider /\ trace' = trace /\ answers' = answers /\ Answered' = Answered
      /\ phase' # "asking" /\ next' \in Nat \ {0}
  BY <1>1 DEF RunLocally, LocalsDone, Answered
<1>3. ran' \in [DOMAIN trace -> Nat]
  BY DEF RunLocally, LocalsDone
<1> QED BY <1>1, <1>2, <1>3 DEF AnsweredOnce, ReportedIsDone, LoopExecutes

LEMMA RunnerStep == RunInv /\ (RunCall \/ RunRaised \/ Judge) => RunInv'
<1> SUFFICES ASSUME RunInv, RunCall \/ RunRaised \/ Judge PROVE RunInv'
  OBVIOUS
<1> USE DEF RunInv, RunTypes
<1>1. /\ phase = "executing" /\ phase' \in {"executing", "failed", "judging"}
      /\ provider' = provider /\ trace' = trace /\ answers' = answers /\ Answered' = Answered
  BY DEF RunCall, RunRaised, Judge, Answered
<1>2. CASE RunCall
  <2>1. LeftToRunner /\ answers = <<>>
    BY <1>1, <1>2 DEF RunCall, ReportedIsDone
  <2>2. PICK outcome \in Outcomes : results' = Append(results, [of |-> next, outcome |-> outcome])
    BY <1>2 DEF RunCall
  <2>3. /\ ran' = [ran EXCEPT ![next] = @ + 1] /\ next' = next + 1 /\ phase' = "executing"
    BY <1>1, <1>2 DEF RunCall
  <2>4. next \in DOMAIN trace
    BY <2>1 DEF LeftToRunner
  <2>5. /\ ran' \in [DOMAIN trace -> Nat] /\ ran'[next] = ran[next] + 1
        /\ \A i \in DOMAIN trace \ {next} : ran'[i] = ran[i]
    BY <2>3, <2>4
  <2>6. ASSUME provider = "collects"
        PROVE  /\ results' \in Seq(Answers) /\ Len(results') = next' - 1 /\ next' <= Len(trace) + 1
               /\ \A i \in DOMAIN trace : ran'[i] = IF i < next' THEN 1 ELSE 0
    <3>1. /\ results \in Seq(Answers) /\ Len(results) = next - 1
          /\ \A i \in DOMAIN trace : ran[i] = IF i < next THEN 1 ELSE 0
      BY <2>6, <1>1 DEF LoopExecutes
    <3>2. [of |-> next, outcome |-> outcome] \in Answers
      BY DEF Answers
    <3>3. results' \in Seq(Answers) /\ Len(results') = next' - 1
      BY <3>1, <3>2, <2>2, <2>3
    <3>4. ASSUME NEW i \in DOMAIN trace PROVE ran'[i] = IF i < next' THEN 1 ELSE 0
      <4>1. CASE i = next
        BY <4>1, <3>1, <2>3, <2>5
      <4>2. CASE i # next
        BY <4>2, <3>1, <2>3, <2>5
      <4> QED BY <4>1, <4>2
    <3>5. next' <= Len(trace) + 1
      <4>1. DOMAIN trace = 1..Len(trace) /\ Len(trace) \in Nat /\ next \in Nat
        BY LenProperties
      <4> HIDE DEF RunInv, RunTypes
      <4> QED BY <4>1, <2>3, <2>4
    <3> QED BY <3>3, <3>4, <3>5
  <2> QED BY <1>1, <2>1, <2>3, <2>5, <2>6 DEF AnsweredOnce, ReportedIsDone, LoopExecutes
<1>3. CASE RunRaised
  <2>1. phase' = "failed" /\ ran' = ran /\ next' = next /\ results' = results
    BY <1>3 DEF RunRaised
  <2> QED BY <1>1, <2>1 DEF AnsweredOnce, ReportedIsDone, LoopExecutes
<1>4. CASE Judge
  <2>1. phase' = "judging" /\ ran' = ran /\ next' = next /\ results' = results /\ ~LeftToRunner
    BY <1>4 DEF Judge
  <2>2. ASSUME provider = "collects", NEW i \in DOMAIN trace PROVE ran[i] = 1
    <3>1. Len(results) = next - 1 /\ ran[i] = IF i < next THEN 1 ELSE 0
      BY <2>2, <1>1 DEF LoopExecutes
    <3>2. next > Len(trace)
      BY <2>1, <3>1 DEF LeftToRunner
    <3> QED BY <3>1, <3>2
  <2> QED BY <1>1, <2>1, <2>2 DEF AnsweredOnce, ReportedIsDone, LoopExecutes
<1> QED BY <1>2, <1>3, <1>4

LEMMA RunStutters == RunInv /\ UNCHANGED runVars => RunInv'
  BY DEF RunInv, RunTypes, AnsweredOnce, ReportedIsDone, LoopExecutes, LeftToRunner,
         Answered, runVars

THEOREM RunInvariant == RunSpec => []RunInv
<1>1. RunInv /\ [RunNext]_runVars => RunInv'
  <2> SUFFICES ASSUME RunInv, [RunNext]_runVars PROVE RunInv'
    OBVIOUS
  <2>1. CASE SdkEnds \/ ChatbotEnds
    BY <2>1, EndStreamStep DEF SdkEnds, ChatbotEnds, Streams
  <2> QED BY <2>1, MakeCallStep, StreamResultStep, AskStep, LocalStep, RunnerStep, RunStutters
         DEF RunNext
<1> QED BY InitRun, <1>1, PTL DEF RunSpec

(* A call of which a result was reported, and every other call of its      *)
(* test, is not executed a second time by TestRunner.run_test; the calls   *)
(* of a provider that only collects them are executed once each.           *)
THEOREM NoCallRunsTwice == RunSpec => []ReportedCallsRunOnce
<1>1. RunInv => ReportedCallsRunOnce
  BY DEF RunInv, RunTypes, ReportedIsDone, LoopExecutes, ReportedCallsRunOnce
<1> QED BY <1>1, RunInvariant, PTL

-----------------------------------------------------------------------------
(* Which verdicts imply which.                                             *)

LEMMA StrictIsLoose ==
  ASSUME NEW call, NEW e, StrictMatch(call, e)
  PROVE  LooseMatch(call, e)
  BY DEF StrictMatch, LooseMatch, StrictlyNamed, LooselyNamed

LEMMA StrictlySelected ==
  ASSUME NEW t, NEW e
  PROVE  SelectStrictly(t, e) \subseteq SelectCalls(t, e, NoWorkspace)
  BY StrictIsLoose DEF SelectStrictly, SelectCalls, InWorkspace

LEMMA CountedWasCalled ==
  ASSUME NEW t, NEW e, Count(t, e) > 0
  PROVE  WasCalled(t, e, NoWorkspace)
<1> SUFFICES ASSUME ~WasCalled(t, e, NoWorkspace) PROVE FALSE
  OBVIOUS
<1>1. SelectStrictly(t, e) = {}
  BY StrictlySelected DEF WasCalled
<1>2. Count(t, e) = 0
  BY <1>1, FS_EmptySet DEF Count
<1> QED BY <1>2

LEMMA RangedWasCalledWith ==
  ASSUME NEW t, DOMAIN t \subseteq Nat, NEW e, NEW p, NEW range, InRange(t, e, p, range)
  PROVE  CalledWith(t, e, p, range)
<1> DEFINE R == Ranged(t, e, p)
<1>1. R # {} /\ R \subseteq SelectStrictly(t, e) /\ R \subseteq Nat
  BY DEF InRange, Ranged, SelectStrictly
<1>2. First(R) \in R
  <2> HIDE DEF R
  <2> QED BY <1>1, FirstIsLeast
<1>3. First(R) \in ReadableCalls(t, e, NoWorkspace)
  BY <1>1, <1>2, StrictlySelected DEF ReadableCalls, Ranged
<1>4. Inspects(t[First(R)], e, p) /\ Lookup(t[First(R)], p) \in range
  BY <1>2 DEF Ranged, InRange
<1> QED BY <1>3, <1>4 DEF CalledWith

LEMMA WorkspaceWasCalled ==
  ASSUME NEW t, NEW e, NEW w, WasCalled(t, e, w)
  PROVE  WasCalled(t, e, NoWorkspace)
  BY DEF WasCalled, SelectCalls, InWorkspace

LEMMA ExactlyIsAtLeast ==
  ASSUME NEW t, NEW e, NEW wanted, NEW w, CalledWithExactly(t, e, wanted, w)
  PROVE  CalledWithAtLeast(t, e, wanted, w)
<1>1. Fitting(t, e, wanted, FALSE, w) \subseteq Fitting(t, e, wanted, TRUE, w)
  BY DEF Fitting
<1> QED BY <1>1 DEF CalledWithExactly, CalledWithAtLeast

LEMMA AtLeastWasCalled ==
  ASSUME NEW t, NEW e, NEW wanted, NEW w, CalledWithAtLeast(t, e, wanted, w)
  PROVE  WasCalled(t, e, w)
  BY DEF CalledWithAtLeast, Fitting, ReadableCalls, WasCalled

(* Whatever the model calls, an evaluator that asks for more passes only   *)
(* if the one that asks for less does: a strict name match is a loose one, *)
(* and the call that decides is among those that the other one looks at.   *)
THEOREM VerdictsAreOrdered == RunSpec => []StricterImpliesLooser
<1>1. RunInv => StricterImpliesLooser
  <2> SUFFICES ASSUME RunInv, NEW e \in Expected
               PROVE  /\ Count(trace, e) > 0 => WasCalled(trace, e, NoWorkspace)
                      /\ \A p \in Params :
                           InRange(trace, e, p, Values) => CalledWith(trace, e, p, Values)
                      /\ \A w \in Workspaces :
                           WasCalled(trace, e, w) => WasCalled(trace, e, NoWorkspace)
                      /\ \A wanted \in SomeWanted, w \in Workspaces \union {NoWorkspace} :
                           /\ CalledWithExactly(trace, e, wanted, w)
                                => CalledWithAtLeast(trace, e, wanted, w)
                           /\ CalledWithAtLeast(trace, e, wanted, w) => WasCalled(trace, e, w)
    BY DEF StricterImpliesLooser
  <2>1. DOMAIN trace \subseteq Nat
    <3>1. DOMAIN trace = 1..Len(trace) /\ Len(trace) \in Nat
      BY LenProperties DEF RunInv, RunTypes
    <3> QED BY <3>1
  <2>2. Count(trace, e) > 0 => WasCalled(trace, e, NoWorkspace)
    BY CountedWasCalled
  <2>3. \A p \in Params : InRange(trace, e, p, Values) => CalledWith(trace, e, p, Values)
    BY <2>1, RangedWasCalledWith
  <2>4. \A w \in Workspaces : WasCalled(trace, e, w) => WasCalled(trace, e, NoWorkspace)
    BY WorkspaceWasCalled
  <2>5. \A wanted \in SomeWanted, w \in Workspaces \union {NoWorkspace} :
          /\ CalledWithExactly(trace, e, wanted, w) => CalledWithAtLeast(trace, e, wanted, w)
          /\ CalledWithAtLeast(trace, e, wanted, w) => WasCalled(trace, e, w)
    BY ExactlyIsAtLeast, AtLeastWasCalled
  <2> QED BY <2>2, <2>3, <2>4, <2>5
<1> QED BY <1>1, RunInvariant, PTL

-----------------------------------------------------------------------------
(* The sequences that the loop of tool_call_sequence finds.                 *)

(* One turn of the loop, given what was reached before. *)
After(t, steps, f, n) ==
  IF n = 0 THEN 0
  ELSE IF f[n - 1] < Len(steps) /\ StrictMatch(t[n], steps[f[n - 1] + 1])
       THEN f[n - 1] + 1
       ELSE f[n - 1]

(* The loop has come to the end of every prefix: the first at which it had *)
(* not would be one turn after one at which it had.                        *)
LEMMA ReachedUpTo ==
  ASSUME NEW t, NEW steps, NEW m \in Nat
  PROVE  \E f : f = [n \in 0..m |-> After(t, steps, f, n)]
<1> DEFINE Bad == {k \in Nat : ~ \E f : f = [n \in 0..k |-> After(t, steps, f, n)]}
<1> SUFFICES ASSUME Bad # {} PROVE FALSE
  OBVIOUS
<1> DEFINE k == First(Bad)
<1>1. k \in Bad /\ \A j \in Bad : k <= j
  <2>1. Bad \in SUBSET Nat
    OBVIOUS
  <2> HIDE DEF Bad
  <2> QED BY <2>1, FirstIsLeast
<1>2. k \in Nat /\ ~ \E f : f = [n \in 0..k |-> After(t, steps, f, n)]
  BY <1>1
<1> HIDE DEF k
<1>3. k # 0
  <2> SUFFICES ASSUME k = 0 PROVE FALSE
    OBVIOUS
  <2> DEFINE g == [n \in 0..0 |-> 0]
  <2>1. g = [n \in 0..k |-> After(t, steps, g, n)]
    BY DEF After
  <2> QED BY <1>2, <2>1
<1>4. k - 1 \in Nat /\ k - 1 \notin Bad
  BY <1>1, <1>2, <1>3
<1>5. PICK f : f = [n \in 0..(k - 1) |-> After(t, steps, f, n)]
  BY <1>4
<1> DEFINE g == [n \in 0..k |-> IF n = k THEN After(t, steps, f, k) ELSE f[n]]
<1>6. ASSUME NEW n \in 0..k PROVE g[n] = After(t, steps, g, n)
  <2>1. n = 0 \/ (n - 1 \in 0..(k - 1) /\ n - 1 \in 0..k /\ n - 1 # k)
    BY <1>2
  <2>2. n # 0 => g[n - 1] = f[n - 1]
    BY <2>1
  <2>3. After(t, steps, g, n) = After(t, steps, f, n)
    BY <2>2 DEF After
  <2>4. n # k => f[n] = After(t, steps, f, n)
    <3>1. n # k => n \in 0..(k - 1)
      BY <1>2
    <3> HIDE DEF g
    <3> QED BY <1>5, <3>1
  <2> QED BY <2>3, <2>4
<1>7. g = [n \in 0..k |-> After(t, steps, g, n)]
  <2>1. g = [n \in 0..k |-> g[n]]
    OBVIOUS
  <2> HIDE DEF g
  <2> QED BY <1>6, <2>1
<1> QED BY <1>2, <1>7

(* So Reached is what its recursive definition says. *)
LEMMA ReachedIsAfter ==
  ASSUME NEW t, NEW steps, Len(t) \in Nat
  PROVE  \A n \in 0..Len(t) : Reached(t, steps)[n] = After(t, steps, Reached(t, steps), n)
<1> DEFINE L == Len(t)
           IsReached(f) == f = [n \in 0..L |-> After(t, steps, f, n)]
<1>1. \E f : IsReached(f)
  BY ReachedUpTo
<1>2. Reached(t, steps) = CHOOSE f : IsReached(f)
  BY DEF Reached, After
<1>3. IsReached(Reached(t, steps))
  BY <1>1, <1>2
<1> QED BY <1>3

(* The loop takes at most one step of the sequence with each call. *)
LEMMA ReachedSteps ==
  ASSUME NEW t, NEW steps, Len(t) \in Nat, Len(steps) \in Nat
  PROVE  LET R == Reached(t, steps) IN
         /\ R[0] = 0
         /\ \A n \in 0..Len(t) : R[n] \in 0..Len(steps)
         /\ \A n \in 1..Len(t) :
              R[n] = IF R[n - 1] < Len(steps) /\ StrictMatch(t[n], steps[R[n - 1] + 1])
                     THEN R[n - 1] + 1 ELSE R[n - 1]
<1> DEFINE R == Reached(t, steps)
           K == Len(steps)
           L == Len(t)
<1>1. \A n \in 0..L : R[n] = After(t, steps, R, n)
  BY ReachedIsAfter
<1> HIDE DEF R
<1>2. R[0] = 0
  <2>1. 0 \in 0..L
    OBVIOUS
  <2> QED BY <1>1, <2>1 DEF After
<1>3. \A n \in 1..L : R[n] = IF R[n - 1] < K /\ StrictMatch(t[n], steps[R[n - 1] + 1])
                             THEN R[n - 1] + 1 ELSE R[n - 1]
  <2> TAKE n \in 1..L
  <2>1. n \in 0..L /\ n # 0
    OBVIOUS
  <2> QED BY <1>1, <2>1 DEF After
<1>4. \A n \in 0..L : R[n] \in 0..K
  <2> DEFINE Bad == {n \in 0..L : R[n] \notin 0..K}
  <2> SUFFICES ASSUME Bad # {} PROVE FALSE
    OBVIOUS
  <2>1. Bad \in SUBSET Nat
    OBVIOUS
  <2> DEFINE n == First(Bad)
  <2>2. n \in Bad /\ \A j \in Bad : n <= j
    <3> HIDE DEF Bad
    <3> QED BY <2>1, FirstIsLeast
  <2> HIDE DEF n
  <2>3. n \in 0..L /\ R[n] \notin 0..K
    BY <2>2
  <2>4. n # 0
    BY <1>2, <2>3
  <2>5. n \in 1..L /\ n - 1 \in 0..L /\ ~(n <= n - 1)
    BY <2>3, <2>4
  <2>6. R[n - 1] \in 0..K
    BY <2>2, <2>5
  <2>7. R[n] \in {R[n - 1], R[n - 1] + 1} /\ (R[n] = R[n - 1] + 1 => R[n - 1] < K)
    BY <1>3, <2>5, <2>6
  <2> QED BY <2>3, <2>6, <2>7
<1> QED BY <1>2, <1>3, <1>4 DEF R

(* Taking the first call that matches finds the steps if the loop comes    *)
(* to their end: each step is found where the loop first got that far.     *)
LEMMA ReachedEmbeds ==
  ASSUME NEW t, NEW steps, Len(t) \in Nat, Len(steps) \in Nat,
         Reached(t, steps)[Len(t)] = Len(steps)
  PROVE  \E at \in [1..Len(steps) -> 1..Len(t)] :
           /\ \A i, j \in 1..Len(steps) : i < j => at[i] < at[j]
           /\ \A i \in 1..Len(steps) : StrictMatch(t[at[i]], steps[i])
<1> DEFINE R == Reached(t, steps)
           K == Len(steps)
           L == Len(t)
           Far(j) == {n \in 0..L : R[n] >= j}
           at == [j \in 1..K |-> First(Far(j))]
<1>1. /\ R[0] = 0
      /\ \A n \in 0..L : R[n] \in 0..K
      /\ \A n \in 1..L :
           R[n] = IF R[n - 1] < K /\ StrictMatch(t[n], steps[R[n - 1] + 1])
                  THEN R[n - 1] + 1 ELSE R[n - 1]
  BY ReachedSteps
<1>2. R[L] = K
  OBVIOUS
<1> HIDE DEF R
<1>3. ASSUME NEW j \in 1..K
      PROVE  /\ at[j] \in 1..L /\ R[at[j]] = j /\ StrictMatch(t[at[j]], steps[j])
             /\ \A n \in Far(j) : at[j] <= n
  <2> DEFINE n == at[j]
  <2>1. L \in Far(j) /\ Far(j) \in SUBSET Nat
    BY <1>2
  <2>2. n \in Far(j) /\ \A m \in Far(j) : n <= m
    <3>1. n = First(Far(j))
      OBVIOUS
    <3> HIDE DEF Far, at
    <3> QED BY <2>1, <3>1, FirstIsLeast
  <2> HIDE DEF at
  <2>3. n \in 0..L /\ R[n] >= j /\ R[n] \in 0..K
    BY <1>1, <2>2
  <2>4. n # 0
    BY <1>1, <2>3
  <2>5. n \in 1..L /\ n - 1 \in 0..L /\ ~(n <= n - 1)
    BY <2>3, <2>4
  <2>6. R[n - 1] \in 0..K /\ ~(R[n - 1] >= j)
    BY <1>1, <2>2, <2>5
  <2>7. /\ R[n - 1] < K /\ StrictMatch(t[n], steps[R[n - 1] + 1])
        /\ R[n] = R[n - 1] + 1
    BY <1>1, <2>3, <2>5, <2>6
  <2>8. R[n - 1] + 1 = j
    BY <2>3, <2>6, <2>7
  <2> QED BY <2>2, <2>5, <2>7, <2>8
<1>4. ASSUME NEW i \in 1..K, NEW j \in 1..K, i < j PROVE at[i] < at[j]
  <2>1. /\ at[i] \in 1..L /\ R[at[i]] = i /\ at[j] \in 1..L /\ R[at[j]] = j
        /\ \A n \in Far(i) : at[i] <= n
    BY <1>3
  <2> HIDE DEF at
  <2>2. at[j] \in Far(i)
    BY <1>4, <2>1
  <2>3. at[i] <= at[j] /\ at[i] # at[j]
    BY <1>4, <2>1, <2>2
  <2> QED BY <2>1, <2>3
<1>5. at \in [1..K -> 1..L]
  BY <1>3
<1> HIDE DEF at
<1> QED BY <1>3, <1>4, <1>5

(* Wherever the steps are, the loop is never behind them. *)
LEMMA EmbedsReached ==
  ASSUME NEW t, NEW steps, Len(t) \in Nat, Len(steps) \in Nat \ {0},
         NEW at \in [1..Len(steps) -> 1..Len(t)],
         \A i, j \in 1..Len(steps) : i < j => at[i] < at[j],
         \A i \in 1..Len(steps) : StrictMatch(t[at[i]], steps[i])
  PROVE  Reached(t, steps)[Len(t)] = Len(steps) /\ Len(t) > 0
<1> DEFINE R == Reached(t, steps)
           K == Len(steps)
           L == Len(t)
           Behind(n) == \E j \in 1..K : at[j] <= n /\ R[n] < j
           Bad == {n \in 0..L : Behind(n)}
<1>1. /\ R[0] = 0
      /\ \A n \in 0..L : R[n] \in 0..K
      /\ \A n \in 1..L :
           R[n] = IF R[n - 1] < K /\ StrictMatch(t[n], steps[R[n - 1] + 1])
                  THEN R[n - 1] + 1 ELSE R[n - 1]
  BY ReachedSteps
<1> HIDE DEF R
<1>2. K \in 1..K /\ at[K] \in 1..L
  OBVIOUS
<1>3. Bad = {}
  <2> SUFFICES ASSUME Bad # {} PROVE FALSE
    OBVIOUS
  <2> DEFINE n == First(Bad)
  <2>1. Bad \in SUBSET Nat
    OBVIOUS
  <2>2. n \in Bad /\ \A m \in Bad : n <= m
    <3> HIDE DEF Bad
    <3> QED BY <2>1, FirstIsLeast
  <2> HIDE DEF n
  <2>3. n \in 0..L
    BY <2>2
  <2>4. PICK j \in 1..K : at[j] <= n /\ R[n] < j
    BY <2>2
  <2>5. at[j] \in 1..L
    OBVIOUS
  <2>6. n \in 1..L /\ n - 1 \in 0..L /\ ~(n <= n - 1)
    BY <2>3, <2>4, <2>5
  <2>7. \A i \in 1..K : at[i] <= n - 1 => R[n - 1] >= i
    <3>1. n - 1 \notin Bad
      BY <2>2, <2>6
    <3>2. \A i \in 1..K : ~(at[i] <= n - 1 /\ R[n - 1] < i)
      BY <2>6, <3>1
    <3>3. R[n - 1] \in 0..K
      BY <1>1, <2>6
    <3> QED BY <3>2, <3>3
  <2>8. /\ R[n - 1] \in 0..K /\ R[n] \in 0..K
        /\ R[n] = IF R[n - 1] < K /\ StrictMatch(t[n], steps[R[n - 1] + 1])
                  THEN R[n - 1] + 1 ELSE R[n - 1]
    BY <1>1, <2>3, <2>6
  <2>9. R[n] >= R[n - 1]
    BY <2>8
  <2>10. at[j] = n
    <3>1. ~(at[j] <= n - 1)
      BY <2>4, <2>7, <2>8, <2>9
    <3> QED BY <2>4, <2>5, <2>6, <3>1
  <2>11. R[n - 1] >= j - 1
    <3>1. CASE j = 1
      BY <2>8, <3>1
    <3>2. CASE j # 1
      <4>1. j - 1 \in 1..K /\ j - 1 < j
        BY <3>2
      <4>2. at[j - 1] \in 1..L /\ at[j - 1] < at[j]
        BY <4>1
      <4>3. at[j - 1] <= n - 1
        BY <2>6, <2>10, <4>2
      <4> QED BY <2>7, <4>1, <4>3
    <3> QED BY <3>1, <3>2
  <2>12. R[n - 1] = j - 1
    BY <2>4, <2>8, <2>9, <2>11
  <2>13. R[n - 1] < K /\ StrictMatch(t[n], steps[R[n - 1] + 1])
    <3>1. R[n - 1] + 1 = j /\ StrictMatch(t[at[j]], steps[j])
      BY <2>12
    <3> QED BY <2>8, <2>10, <2>12, <3>1
  <2> QED BY <2>4, <2>8, <2>12, <2>13
<1>4. R[L] >= K
  <2>1. L \notin Bad /\ L \in 0..L
    BY <1>3
  <2>2. ~(at[K] <= L /\ R[L] < K)
    BY <1>2, <2>1
  <2> QED BY <1>1, <1>2, <2>1, <2>2
<1>5. R[L] = K /\ L > 0
  BY <1>1, <1>2, <1>4
<1> QED BY <1>5 DEF R

(* The loop of tool_call_sequence decides whether the steps are a          *)
(* subsequence of the calls.                                               *)
LEMMA InOrderIsEmbeds ==
  ASSUME NEW steps \in Seq(Expected), Len(steps) > 0, trace \in Seq(Calls)
  PROVE  InOrder(trace, steps) <=> Embeds(steps)
<1>1. /\ DOMAIN steps = 1..Len(steps) /\ Len(steps) \in Nat /\ Len(steps) \in Nat \ {0}
      /\ DOMAIN trace = 1..Len(trace) /\ Len(trace) \in Nat
      /\ trace # <<>> <=> Len(trace) > 0
  OBVIOUS
<1>2. ASSUME InOrder(trace, steps) PROVE Embeds(steps)
  <2>1. Reached(trace, steps)[Len(trace)] = Len(steps)
    BY <1>2 DEF InOrder
  <2>2. \E at \in [1..Len(steps) -> 1..Len(trace)] :
          /\ \A i, j \in 1..Len(steps) : i < j => at[i] < at[j]
          /\ \A i \in 1..Len(steps) : StrictMatch(trace[at[i]], steps[i])
    BY <1>1, <2>1, ReachedEmbeds
  <2> QED BY <1>1, <2>2 DEF Embeds
<1>3. ASSUME Embeds(steps) PROVE InOrder(trace, steps)
  <2>1. PICK at \in [1..Len(steps) -> 1..Len(trace)] :
          /\ \A i, j \in 1..Len(steps) : i < j => at[i] < at[j]
          /\ \A i \in 1..Len(steps) : StrictMatch(trace[at[i]], steps[i])
    BY <1>1, <1>3 DEF Embeds
  <2>2. Reached(trace, steps)[Len(trace)] = Len(steps) /\ Len(trace) > 0
    BY <1>1, <2>1, EmbedsReached
  <2> QED BY <1>1, <2>2 DEF InOrder
<1> QED BY <1>2, <1>3

(* The calls in the order of the steps and no other are a subsequence, and *)
(* none of them is alien to the steps.                                     *)
LEMMA ExactIsInOrderAlone ==
  ASSUME NEW steps \in Seq(Expected), Len(steps) > 0, trace \in Seq(Calls),
         ExactSequence(trace, steps)
  PROVE  InOrderAlone(trace, steps)
<1>1. /\ DOMAIN steps = 1..Len(steps) /\ Len(steps) \in Nat
      /\ DOMAIN trace = 1..Len(trace) /\ Len(trace) = Len(steps)
      /\ \A i \in DOMAIN steps : StrictMatch(trace[i], steps[i])
  BY DEF ExactSequence
<1> DEFINE at == [i \in DOMAIN steps |-> i]
<1>2. /\ at \in [DOMAIN steps -> DOMAIN trace]
      /\ \A i, j \in DOMAIN steps : i < j => at[i] < at[j]
      /\ \A i \in DOMAIN steps : StrictMatch(trace[at[i]], steps[i])
  BY <1>1
<1>3. Embeds(steps)
  BY <1>2 DEF Embeds
<1>4. \A i \in DOMAIN trace : \E j \in DOMAIN steps : StrictMatch(trace[i], steps[j])
  BY <1>1
<1> QED BY <1>3, <1>4, InOrderIsEmbeds DEF InOrderAlone

(* ToolCallSequence, which walks over the calls once and takes the first   *)
(* that matches each step, passes just when the steps are a subsequence of *)
(* the calls, and its strict mode only if the lenient ones do, for traces  *)
(* and sequences of any length.                                            *)
THEOREM SequencesAreFound == RunSpec => []SequenceIsSubsequence
<1>1. RunInv => SequenceIsSubsequence
  <2> SUFFICES ASSUME RunInv, NEW steps \in Steps
               PROVE  /\ InOrder(trace, steps) <=> Embeds(steps)
                      /\ ExactSequence(trace, steps) => InOrderAlone(trace, steps)
    BY DEF SequenceIsSubsequence
  <2>1. trace \in Seq(Calls)
    BY DEF RunInv, RunTypes
  <2>2. steps \in Seq(Expected) /\ Len(steps) > 0
    <3>1. PICK k \in {1, 2, 3} : steps \in [1..k -> Expected]
      BY DEF Steps
    <3>2. k \in Nat /\ k > 0
      OBVIOUS
    <3> QED BY <3>1, <3>2
  <2> QED BY <2>1, <2>2, InOrderIsEmbeds, ExactIsInOrderAlone
<1> QED BY <1>1, RunInvariant, PTL

-----------------------------------------------------------------------------
(* Whose the results are.                                                  *)

(* The ranks of the elements of a finite set of numbers. *)
Rank(S, i) == Cardinality(UpTo(S, i))

(* Each rank is taken, once, and a greater element has a greater one. *)
LEMMA RanksAreInOrder ==
  ASSUME NEW S \in SUBSET Nat, IsFiniteSet(S)
  PROVE  /\ \A i \in S : Rank(S, i) \in 1..Cardinality(S)
         /\ \A i, j \in S : i < j => Rank(S, i) < Rank(S, j)
         /\ \A k \in 1..Cardinality(S) : \E i \in S : Rank(S, i) = k
<1> DEFINE m == Cardinality(S)
<1>1. m \in Nat
  BY FS_CardinalityType
<1>2. ASSUME NEW i \in S
      PROVE  /\ i \in Nat /\ UpTo(S, i) \in SUBSET S /\ IsFiniteSet(UpTo(S, i))
             /\ i \in UpTo(S, i) /\ Rank(S, i) \in 1..m
  <2>1. UpTo(S, i) \in SUBSET S /\ i \in Nat /\ i \in UpTo(S, i)
    BY DEF UpTo
  <2>2. IsFiniteSet(UpTo(S, i)) /\ Rank(S, i) <= m
    BY <2>1, FS_Subset DEF Rank
  <2>3. Rank(S, i) \in Nat /\ (Rank(S, i) = 0 <=> UpTo(S, i) = {})
    BY <2>2, FS_CardinalityType, FS_EmptySet DEF Rank
  <2> QED BY <1>1, <2>1, <2>2, <2>3
<1>3. ASSUME NEW i \in S, NEW j \in S, i < j PROVE Rank(S, i) < Rank(S, j)
  <2>1. /\ i \in Nat /\ j \in Nat /\ IsFiniteSet(UpTo(S, i)) /\ IsFiniteSet(UpTo(S, j))
        /\ j \in UpTo(S, j) /\ Rank(S, i) \in Int /\ Rank(S, j) \in Int
    BY <1>2
  <2>2. UpTo(S, i) \in SUBSET UpTo(S, j) /\ j \notin UpTo(S, i)
    <3>1. \A x \in S : x \in Nat
      OBVIOUS
    <3>2. \A x \in S : x <= i => x <= j
      BY <1>3, <2>1, <3>1
    <3>3. ~(j <= i)
      BY <1>3, <2>1
    <3> QED BY <3>2, <3>3 DEF UpTo
  <2>3. Rank(S, i) <= Rank(S, j) /\ Rank(S, i) # Rank(S, j)
    BY <2>1, <2>2, FS_Subset DEF Rank
  <2> QED BY <2>1, <2>3
<1>4. ASSUME NEW k \in 1..m PROVE \E i \in S : Rank(S, i) = k
  <2> DEFINE rk == [i \in S |-> Rank(S, i)]
  <2>1. rk \in [S -> 1..m]
    BY <1>2
  <2>2. \A i, j \in S : i # j => rk[i] # rk[j]
    <3> SUFFICES ASSUME NEW i \in S, NEW j \in S, i # j PROVE Rank(S, i) # Rank(S, j)
      OBVIOUS
    <3>1. i < j \/ j < i
      OBVIOUS
    <3>2. Rank(S, i) \in Int /\ Rank(S, j) \in Int
      BY <1>2
    <3> QED BY <1>3, <3>1, <3>2
  <2>3. rk \in Injection(S, 1..m)
    BY <2>1, <2>2 DEF Injection, IsInjective
  <2>4. IsFiniteSet(1..m) /\ Cardinality(1..m) = m
    BY <1>1, FS_Interval
  <2>5. rk \in Surjection(S, 1..m)
    BY <2>3, <2>4, FS_Injection
  <2> QED BY <2>5 DEF Surjection
<1> QED BY <1>2, <1>3, <1>4

LEMMA FirstNumbers ==
  ASSUME NEW n \in Nat PROVE IsFiniteSet(1..n) /\ Cardinality(1..n) = n
BY FS_Interval

LEMMA RankOfInterval ==
  ASSUME NEW n \in Nat, NEW i \in 1..n PROVE Rank(1..n, i) = i
<1>1. UpTo(1..n, i) = 1..i
  BY DEF UpTo
<1> QED BY <1>1, FS_Interval DEF Rank

(* A stream answers a call once. *)
OncePerCall == \A i, j \in DOMAIN answers : answers[i].of = answers[j].of => i = j

LEMMA AnsweredHasAsMany ==
  ASSUME answers \in Seq(Answers), OncePerCall
  PROVE  /\ Answered \in SUBSET Nat /\ IsFiniteSet(Answered)
         /\ Cardinality(Answered) = Len(answers)
<1> DEFINE m == Len(answers)
           f == [i \in 1..m |-> answers[i].of]
<1>1. m \in Nat /\ DOMAIN answers = 1..m /\ \A i \in 1..m : answers[i] \in Answers
  OBVIOUS
<1>2. Answered \in SUBSET Nat
  BY <1>1 DEF Answered, Answers
<1>3. f \in Surjection(1..m, Answered)
  BY <1>1 DEF Answered, Surjection
<1>4. f \in Injection(1..m, Answered)
  BY <1>1, <1>3 DEF OncePerCall, Injection, IsInjective, Surjection
<1>5. IsFiniteSet(1..m) /\ Cardinality(1..m) = m
  BY <1>1, FirstNumbers
<1> QED BY <1>2, <1>3, <1>4, <1>5, FS_Surjection

(* An sdk's results are its answers, ordered by the calls they answer. *)
LEMMA CallOrder ==
  ASSUME answers \in Seq(Answers), OncePerCall
  PROVE  /\ InCallOrder \in Seq(Answers) /\ Len(InCallOrder) = Len(answers)
         /\ \A k \in DOMAIN answers :
              /\ InCallOrder[k] \in {answers[i] : i \in DOMAIN answers}
              /\ Rank(Answered, InCallOrder[k].of) = k
<1> DEFINE m == Len(answers)
           All == {answers[i] : i \in DOMAIN answers}
<1>1. /\ m \in Nat /\ DOMAIN answers = 1..m /\ All \subseteq Answers
  OBVIOUS
<1>2. /\ Answered \in SUBSET Nat /\ IsFiniteSet(Answered) /\ Cardinality(Answered) = m
  BY AnsweredHasAsMany
<1>3. ASSUME NEW k \in 1..m
      PROVE  InCallOrder[k] \in All /\ Rank(Answered, InCallOrder[k].of) = k
  <2>1. PICK n \in Answered : Rank(Answered, n) = k
    BY <1>2, RanksAreInOrder
  <2>2. \E a \in All : Rank(Answered, a.of) = k
    BY <1>1, <2>1 DEF Answered
  <2>3. InCallOrder[k] = CHOOSE a \in All : Rank(Answered, a.of) = k
    BY <1>1 DEF InCallOrder, Rank, UpTo
  <2> HIDE DEF All
  <2> QED BY <2>2, <2>3
<1>4. InCallOrder \in [1..m -> Answers]
  <2> DEFINE Kept == {InCallOrder[k] : k \in 1..m}
  <2>1. InCallOrder \in [1..m -> Kept]
    BY <1>1 DEF InCallOrder
  <2>2. Kept \subseteq Answers
    BY <1>1, <1>3
  <2> HIDE DEF Kept
  <2> QED BY <2>1, <2>2
<1>5. InCallOrder \in Seq(Answers) /\ Len(InCallOrder) = m
  BY <1>1, <1>4
<1> QED BY <1>1, <1>3, <1>5

(* What a stream reports are answers to its calls. *)
LEMMA ReportedAnswers ==
  ASSUME answers \in Seq(Answers), OncePerCall
  PROVE  /\ Reported \in Seq(Answers) /\ Len(Reported) = Len(answers)
         /\ \A k \in DOMAIN Reported : Reported[k].of \in Answered
<1>1. CASE provider # "sdk"
  BY <1>1 DEF Reported, Answered
<1>2. CASE provider = "sdk"
  <2>1. /\ Reported \in Seq(Answers) /\ Len(Reported) = Len(answers)
        /\ \A k \in DOMAIN answers : Reported[k] \in {answers[i] : i \in DOMAIN answers}
    BY <1>2, CallOrder DEF Reported
  <2>2. DOMAIN Reported = DOMAIN answers
    BY <2>1
  <2> QED BY <2>1, <2>2 DEF Answered
<1> QED BY <1>1, <1>2

(* When every call was answered, the k-th result is that of the k-th call. *)
LEMMA AllAnsweredInOrder ==
  ASSUME answers \in Seq(Answers), OncePerCall, trace \in Seq(Calls),
         Answered = DOMAIN trace, provider = "sdk"
  PROVE  DOMAIN Reported = DOMAIN trace /\ \A k \in DOMAIN trace : Reported[k].of = k
<1> DEFINE n == Len(trace)
<1>1. n \in Nat /\ DOMAIN trace = 1..n /\ DOMAIN answers = 1..Len(answers) /\ Len(answers) \in Nat
  OBVIOUS
<1>2. Len(answers) = n
  BY <1>1, AnsweredHasAsMany, FirstNumbers
<1>3. /\ Reported \in Seq(Answers) /\ Len(Reported) = Len(answers)
      /\ \A k \in DOMAIN answers :
           /\ Reported[k].of \in Answered
           /\ Rank(Answered, Reported[k].of) = k
  BY CallOrder DEF Reported, Answered
<1>4. DOMAIN Reported = 1..n
  BY <1>1, <1>2, <1>3
<1>5. ASSUME NEW k \in 1..n PROVE Reported[k].of = k
  <2>1. Reported[k].of \in 1..n /\ Rank(1..n, Reported[k].of) = k
    BY <1>1, <1>2, <1>3
  <2> QED BY <1>1, <2>1, RankOfInterval
<1> QED BY <1>1, <1>4, <1>5

(* Where the results come from: a stream's answers, once they are          *)
(* reported, or the runner's loop, which has come to the call next.        *)
FromStream ==
  answers # <<>> =>
    /\ results \in {<<>>, Reported}
    /\ phase \in {"executing", "judging"} => results = Reported

FromRunner ==
  answers = <<>> =>
    /\ results \in Seq(Answers)
    /\ \A i \in DOMAIN results : results[i].of = i
    /\ Len(results) = (IF phase = "local" THEN 0 ELSE next - 1)
    /\ phase = "judging" => next > Len(trace)

ResultsInv ==
  /\ provider \in Providers /\ phase \in Phases
  /\ next <= Len(trace) + 1
  /\ OncePerCall
  /\ FromStream
  /\ FromRunner

LEMMA ResultsInit == RunInit => ResultsInv
<1> SUFFICES ASSUME RunInit PROVE ResultsInv
  OBVIOUS
<1>1. /\ provider \in Providers /\ phase = "asking" /\ trace = <<>> /\ answers = <<>>
      /\ results = <<>> /\ next = 1
  BY DEF RunInit
<1> QED BY <1>1 DEF ResultsInv, Phases, OncePerCall, FromStream, FromRunner

LEMMA AskingResults ==
  ASSUME RunInv, ResultsInv, MakeCall \/ StreamResult PROVE ResultsInv'
<1> USE DEF RunInv, RunTypes
<1>1. /\ phase = "asking" /\ phase' = "asking" /\ provider' = provider
      /\ results' = <<>> /\ results = <<>> /\ next' = 1 /\ next = 1
      /\ provider \in Providers /\ Len(trace) \in Nat
  BY DEF MakeCall, StreamResult, AnsweredOnce, ResultsInv
<1>2. trace' \in Seq(Calls) /\ Len(trace') \in Nat
  <2>1. CASE MakeCall
    <3>1. PICK call \in Calls : trace' = Append(trace, call)
      BY <2>1 DEF MakeCall
    <3> QED BY <3>1
  <2>2. CASE StreamResult
    BY <2>2 DEF StreamResult
  <2> QED BY <2>1, <2>2
<1>3. OncePerCall'
  <2>1. CASE MakeCall
    BY <2>1 DEF MakeCall, ResultsInv, OncePerCall
  <2>2. CASE StreamResult
    <3>1. PICK i \in DOMAIN trace \ Answered, outcome \in Outcomes :
            answers' = Append(answers, [of |-> i, outcome |-> outcome])
      BY <2>2 DEF StreamResult
    <3>2. /\ DOMAIN answers' = DOMAIN answers \union {Len(answers) + 1}
          /\ \A k \in DOMAIN answers : answers'[k] = answers[k] /\ answers[k].of # i
          /\ answers'[Len(answers) + 1].of = i
      BY <3>1 DEF Answered
    <3> QED BY <3>2 DEF ResultsInv, OncePerCall
  <2> QED BY <2>1, <2>2
<1>4. FromStream' /\ FromRunner'
  BY <1>1 DEF FromStream, FromRunner
<1> QED BY <1>1, <1>2, <1>3, <1>4 DEF ResultsInv, Phases

LEMMA EndStreamResults ==
  ASSUME RunInv, ResultsInv, EndStream PROVE ResultsInv'
<1> USE DEF RunInv, RunTypes
<1>1. /\ phase = "asking" /\ phase' = "executing" /\ provider' = provider
      /\ results' = Reported /\ UNCHANGED <<provider, trace, answers, next>> /\ next = 1
  BY DEF EndStream, AnsweredOnce
<1>2. OncePerCall' /\ Reported' = Reported
  BY <1>1 DEF ResultsInv, OncePerCall, Reported, InCallOrder, Answered
<1>3. FromStream'
  BY <1>1, <1>2 DEF FromStream
<1>4. FromRunner'
  <2> SUFFICES ASSUME answers = <<>> PROVE FromRunner'
    BY <1>1 DEF FromRunner
  <2>1. Reported \in Seq(Answers) /\ Len(Reported) = 0
    BY ReportedAnswers DEF ResultsInv
  <2>2. results' = <<>>
    BY <1>1, <2>1
  <2> QED BY <1>1, <2>2 DEF FromRunner
<1> QED BY <1>1, <1>2, <1>3, <1>4 DEF ResultsInv, Phases

LEMMA AnsweredResults ==
  ASSUME RunInv, ResultsInv, ModelAnswers \/ AskFailed \/ AskRaised PROVE ResultsInv'
<1> USE DEF RunInv, RunTypes
<1>1. /\ phase = "asking" /\ results = <<>> /\ next = 1 /\ UNCHANGED <<provider, results, next>>
      /\ phase' \in {"local", "executing", "failed"}
  BY DEF ModelAnswers, AskFailed, AskRaised, AnsweredOnce
<1>2. \/ UNCHANGED <<trace, answers>> /\ (phase' = "failed" \/ answers = <<>>)
      \/ trace' = <<>> /\ answers' = <<>>
  BY DEF ModelAnswers, AskFailed, AskRaised, AnsweredOnce
<1>3. OncePerCall' /\ next' <= Len(trace') + 1
  BY <1>1, <1>2 DEF ResultsInv, OncePerCall
<1>4. FromStream' /\ FromRunner'
  BY <1>1, <1>2 DEF FromStream, FromRunner
<1> QED BY <1>1, <1>3, <1>4 DEF ResultsInv, Phases

LEMMA LocalResults ==
  ASSUME RunInv, ResultsInv, RunLocally \/ LocalsDone PROVE ResultsInv'
<1> USE DEF RunInv, RunTypes
<1>1. /\ phase = "local" /\ provider = "local" /\ answers = <<>>
      /\ UNCHANGED <<provider, trace, answers, results>>
      /\ phase' \in {"local", "executing"} /\ (phase' = "executing" => next' = 1)
      /\ next' \in Nat /\ next' <= Len(trace) + 1
  BY DEF RunLocally, LocalsDone, AnsweredOnce, Streams
<1>2. results = <<>>
  BY <1>1 DEF ResultsInv, FromRunner
<1> QED BY <1>1, <1>2 DEF ResultsInv, Phases, OncePerCall, FromStream, FromRunner

LEMMA RunnerResults ==
  ASSUME RunInv, ResultsInv, RunCall \/ RunRaised \/ Judge PROVE ResultsInv'
<1> USE DEF RunInv, RunTypes
<1>1. /\ phase = "executing" /\ phase' \in {"executing", "failed", "judging"}
      /\ UNCHANGED <<provider, trace, answers>> /\ Answered' = Answered
  BY DEF RunCall, RunRaised, Judge, Answered
<1>2. OncePerCall' /\ Reported' = Reported
  BY <1>1 DEF ResultsInv, OncePerCall, Reported, InCallOrder
<1>3. CASE RunCall
  <2>1. LeftToRunner /\ answers = <<>> /\ next \in Nat /\ phase' = "executing" /\ next' = next + 1
    BY <1>1, <1>3 DEF RunCall, ReportedIsDone
  <2>2. PICK outcome \in Outcomes : results' = Append(results, [of |-> next, outcome |-> outcome])
    BY <1>3 DEF RunCall
  <2>3. [of |-> next, outcome |-> outcome] \in Answers
    BY DEF Answers
  <2>4. /\ results \in Seq(Answers) /\ Len(results) = next - 1
        /\ \A i \in DOMAIN results : results[i].of = i
    BY <1>1, <2>1 DEF ResultsInv, FromRunner
  <2>5. /\ results' \in Seq(Answers) /\ Len(results') = next
        /\ DOMAIN results' = DOMAIN results \union {next}
        /\ \A i \in DOMAIN results : results'[i] = results[i]
        /\ results'[next].of = next
    BY <2>1, <2>2, <2>3, <2>4
  <2>6. FromRunner'
    BY <2>1, <2>4, <2>5 DEF FromRunner
  <2>7. FromStream'
    BY <1>1, <2>1 DEF FromStream
  <2>8. next' <= Len(trace) + 1
    <3>1. next <= Len(trace) /\ Len(trace) \in Nat
      BY <2>1 DEF LeftToRunner
    <3> QED BY <2>1, <3>1
  <2> QED BY <1>1, <1>2, <2>1, <2>6, <2>7, <2>8 DEF ResultsInv, Phases
<1>4. CASE RunRaised \/ Judge
  <2>1. UNCHANGED <<results, next>> /\ (phase' = "judging" => ~LeftToRunner)
    BY <1>4 DEF RunRaised, Judge
  <2>2. FromStream'
    BY <1>1, <1>2, <2>1 DEF ResultsInv, FromStream
  <2>3. FromRunner'
    <3> SUFFICES ASSUME answers = <<>> PROVE FromRunner'
      BY <1>1 DEF FromRunner
    <3>1. /\ results \in Seq(Answers) /\ Len(results) = next - 1
          /\ \A i \in DOMAIN results : results[i].of = i
      BY <1>1 DEF ResultsInv, FromRunner
    <3>2. phase' = "judging" => next > Len(trace)
      BY <2>1, <3>1 DEF LeftToRunner
    <3> QED BY <1>1, <2>1, <3>1, <3>2 DEF FromRunner
  <2> QED BY <1>1, <1>2, <2>1, <2>2, <2>3 DEF ResultsInv, Phases
<1> QED BY <1>3, <1>4

LEMMA ResultsStutter == ResultsInv /\ UNCHANGED runVars => ResultsInv'
<1> SUFFICES ASSUME ResultsInv, UNCHANGED runVars PROVE ResultsInv'
  OBVIOUS
<1>1. UNCHANGED <<provider, phase, trace, answers, results, next>>
  BY DEF runVars
<1>2. Reported' = Reported
  BY <1>1 DEF Reported, InCallOrder, Answered
<1>3. OncePerCall' /\ FromStream' /\ FromRunner'
  BY <1>1, <1>2 DEF ResultsInv, OncePerCall, FromStream, FromRunner
<1> QED BY <1>1, <1>3 DEF ResultsInv

(* The inductive invariant of the results. *)
THEOREM ResultsInvariant == RunSpec => []ResultsInv
<1>1. RunInv /\ ResultsInv /\ [RunNext]_runVars => ResultsInv'
  BY AskingResults, EndStreamResults, AnsweredResults, LocalResults, RunnerResults,
     ResultsStutter DEF RunNext, SdkEnds, ChatbotEnds
<1> QED BY ResultsInit, RunInvariant, <1>1, PTL DEF RunSpec

(* Whatever a provider reports, a result belongs to a call of the trace. *)
THEOREM RunTypesHold == RunSpec => []ToolRunTypeOK
<1>1. RunInv /\ ResultsInv => ToolRunTypeOK
  <2> SUFFICES ASSUME RunInv, ResultsInv PROVE ToolRunTypeOK
    OBVIOUS
  <2> USE DEF RunInv, RunTypes
  <2>1. /\ Answered \subseteq DOMAIN trace /\ answers \in Seq(Answers)
        /\ DOMAIN trace = 1..Len(trace) /\ Len(trace) \in Nat /\ next \in Nat \ {0}
    OBVIOUS
  <2>2. next \in 1..Len(trace) + 1
    BY <2>1 DEF ResultsInv
  <2>3. results \in Seq(Answers) /\ \A i \in DOMAIN results : results[i].of \in DOMAIN trace
    <3>1. CASE answers # <<>>
      <4>1. /\ Reported \in Seq(Answers)
            /\ \A k \in DOMAIN Reported : Reported[k].of \in Answered
        BY ReportedAnswers DEF ResultsInv
      <4>2. results \in {<<>>, Reported}
        BY <3>1 DEF ResultsInv, FromStream
      <4>3. CASE results = <<>>
        BY <4>3
      <4>4. CASE results = Reported
        BY <2>1, <4>1, <4>4
      <4> QED BY <4>2, <4>3, <4>4
    <3>2. CASE answers = <<>>
      <4>1. /\ results \in Seq(Answers) /\ \A i \in DOMAIN results : results[i].of = i
            /\ Len(results) <= next - 1 /\ DOMAIN results = 1..Len(results)
        BY <2>1, <3>2 DEF ResultsInv, FromRunner
      <4>2. Len(results) <= Len(trace)
        BY <2>1, <2>2, <4>1
      <4>3. 1..Len(results) \subseteq 1..Len(trace)
        BY <2>1, <4>1, <4>2
      <4> QED BY <2>1, <4>1, <4>3
    <3> QED BY <3>1, <3>2
  <2> QED BY <2>2, <2>3 DEF ToolRunTypeOK, ResultsInv
<1> QED BY <1>1, RunInvariant, ResultsInvariant, PTL

(* The i-th of the results that the evaluators get is the result of the    *)
(* i-th call, if an sdk answered every call of its stream or nobody        *)
(* reported results, for any number of calls: sorting by the calls and the *)
(* loop of TestRunner.run_test come to the same.                           *)
THEOREM ResultsBelongToCalls == RunSpec => []ResultsMatchCalls
<1>1. RunInv /\ ResultsInv => ResultsMatchCalls
  <2> SUFFICES ASSUME RunInv, ResultsInv, phase = "judging", provider # "chatbot",
                      Answered \in {{}, DOMAIN trace}
               PROVE  ResultsMatchCalls
    BY DEF ResultsMatchCalls
  <2> USE DEF RunInv, RunTypes
  <2>1. DOMAIN results = DOMAIN trace /\ \A i \in DOMAIN results : results[i].of = i
    <3>1. CASE answers = <<>>
      <4>1. /\ results \in Seq(Answers) /\ \A i \in DOMAIN results : results[i].of = i
            /\ Len(results) = next - 1 /\ next > Len(trace) /\ next <= Len(trace) + 1
            /\ next \in Nat /\ Len(trace) \in Nat
        BY <3>1 DEF ResultsInv, FromRunner
      <4>2. Len(results) = Len(trace)
        BY <4>1
      <4> QED BY <4>1, <4>2
    <3>2. CASE answers # <<>>
      <4>1. results = Reported
        BY <3>2 DEF ResultsInv, FromStream
      <4>2. 1 \in DOMAIN answers
        BY <3>2
      <4>3. Answered = DOMAIN trace
        BY <4>2 DEF Answered
      <4>4. provider = "sdk"
        BY <3>2 DEF AnsweredOnce, Streams
      <4> QED BY <4>1, <4>3, <4>4, AllAnsweredInOrder DEF ResultsInv
    <3> QED BY <3>1, <3>2
  <2>2. ChartCreated(trace, results) =>
          \E i \in DOMAIN results :
            RanTool(trace[results[i].of]) \in ChartTools /\ results[i].outcome \in {"ok", "rejected"}
    BY <2>1 DEF ChartCreated
  <2>3. results # <<>> /\ NoToolCallErrors(results) => ExecutionSuccessful(results)
    BY DEF NoToolCallErrors, ExecutionSuccessful
  <2> QED BY <2>1, <2>2, <2>3 DEF ResultsMatchCalls
<1> QED BY <1>1, RunInvariant, ResultsInvariant, PTL

-----------------------------------------------------------------------------
(* What one more call does to the verdicts and to the score.               *)

(* A trace and what it is after one more call. *)
Longer(t, u) ==
  /\ Len(t) \in Nat /\ Len(u) = Len(t) + 1
  /\ DOMAIN t = 1..Len(t) /\ DOMAIN u = 1..Len(u)
  /\ \A i \in DOMAIN t : u[i] = t[i]

LEMMA LongerTrace ==
  ASSUME RunInv, RunNext, Len(trace') > Len(trace)
  PROVE  Longer(trace, trace')
<1> USE DEF RunInv, RunTypes
<1>1. MakeCall
  <2>1. trace' = trace \/ trace' = <<>> \/ MakeCall
    BY DEF RunNext, StreamResult, SdkEnds, ChatbotEnds, EndStream, ModelAnswers, RunLocally,
       LocalsDone, AskFailed, AskRaised, RunCall, RunRaised, Judge
  <2>2. Len(trace) \in Nat /\ (trace' = <<>> => Len(trace') = 0)
    OBVIOUS
  <2> QED BY <2>1, <2>2
<1>2. PICK call \in Calls : trace' = Append(trace, call)
  BY <1>1 DEF MakeCall
<1>3. trace' \in Seq(Calls) /\ Len(trace') = Len(trace) + 1
      /\ \A i \in 1..Len(trace) : trace'[i] = trace[i]
  BY <1>2
<1>4. /\ DOMAIN trace = 1..Len(trace) /\ Len(trace) \in Nat
      /\ DOMAIN trace' = 1..Len(trace')
  BY <1>3
<1> HIDE DEF RunInv, RunTypes
<1> QED BY <1>3, <1>4 DEF Longer

LEMMA LastIsLater ==
  ASSUME NEW t, NEW u, Longer(t, u)
  PROVE  /\ DOMAIN t \in SUBSET Nat /\ DOMAIN u \in SUBSET Nat
         /\ DOMAIN u = DOMAIN t \union {Len(u)} /\ Len(u) \notin DOMAIN t
         /\ \A i \in DOMAIN t : i < Len(u)
BY DEF Longer

(* What comes later does not change which is the first. *)
LEMMA FirstStays ==
  ASSUME NEW S \in SUBSET Nat, S # {}, NEW T \in SUBSET Nat, S \subseteq T,
         \A i \in S, j \in T \ S : i < j
  PROVE  First(T) = First(S)
<1>1. First(S) \in S /\ \A j \in S : First(S) <= j
  BY FirstIsLeast
<1>2. First(T) \in T /\ \A j \in T : First(T) <= j
  BY FirstIsLeast
<1>3. First(T) <= First(S) /\ First(S) \in Nat /\ First(T) \in Nat
  BY <1>1, <1>2
<1>4. First(T) \in S
  BY <1>1, <1>2, <1>3
<1> QED BY <1>1, <1>3, <1>4

LEMMA SelectedStay ==
  ASSUME NEW t, NEW u, Longer(t, u), NEW e, NEW w
  PROVE  SelectCalls(t, e, w) \subseteq SelectCalls(u, e, w)
BY LastIsLater DEF Longer, SelectCalls

LEMMA FittingStay ==
  ASSUME NEW t, NEW u, Longer(t, u), NEW e, NEW wanted, NEW partial, NEW w
  PROVE  /\ Fitting(t, e, wanted, partial, w) \subseteq DOMAIN t
         /\ Fitting(t, e, wanted, partial, w) =
              Fitting(u, e, wanted, partial, w) \intersect DOMAIN t
         /\ Fitting(u, e, wanted, partial, w) \subseteq DOMAIN u
BY LastIsLater DEF Longer, Fitting, ReadableCalls, SelectCalls

LEMMA RangedStay ==
  ASSUME NEW t, NEW u, Longer(t, u), NEW e, NEW p
  PROVE  /\ Ranged(t, e, p) \subseteq DOMAIN t
         /\ Ranged(t, e, p) = Ranged(u, e, p) \intersect DOMAIN t
         /\ Ranged(u, e, p) \subseteq DOMAIN u
BY LastIsLater DEF Longer, Ranged, SelectStrictly

(* The first of the calls that pass is the same when one more is made. *)
LEMMA FirstOfLonger ==
  ASSUME NEW t, NEW u, Longer(t, u), NEW S, S # {}, NEW T \in SUBSET (DOMAIN u),
         S = T \intersect DOMAIN t
  PROVE  First(T) = First(S) /\ First(S) \in DOMAIN t
<1>1. /\ DOMAIN t \in SUBSET Nat /\ DOMAIN u \in SUBSET Nat
      /\ DOMAIN u = DOMAIN t \union {Len(u)} /\ Len(u) \notin DOMAIN t
      /\ \A i \in DOMAIN t : i < Len(u)
  BY LastIsLater
<1>2. S \in SUBSET Nat /\ T \in SUBSET Nat /\ S \subseteq T
  BY <1>1
<1>3. \A i \in S, j \in T \ S : i < j
  BY <1>1
<1>4. First(T) = First(S)
  BY <1>2, <1>3, FirstStays
<1>5. First(S) \in S
  BY <1>2, FirstIsLeast
<1> QED BY <1>4, <1>5

LEMMA ExactlyStays ==
  ASSUME NEW t, NEW u, Longer(t, u), NEW e, NEW wanted, NEW w,
         CalledWithExactly(t, e, wanted, w)
  PROVE  CalledWithExactly(u, e, wanted, w)
<1> DEFINE S == Fitting(t, e, wanted, FALSE, w)
           T == Fitting(u, e, wanted, FALSE, w)
<1>1. S # {} /\ DOMAIN Inspected(t[First(S)], e) \subseteq DOMAIN wanted
  BY DEF CalledWithExactly
<1>2. S = T \intersect DOMAIN t /\ T \subseteq DOMAIN u
  <2>1. \A partial : /\ Fitting(t, e, wanted, partial, w) =
                           Fitting(u, e, wanted, partial, w) \intersect DOMAIN t
                     /\ Fitting(u, e, wanted, partial, w) \subseteq DOMAIN u
    BY FittingStay
  <2> QED BY <2>1
<1> HIDE DEF S, T
<1>3. First(T) = First(S) /\ First(S) \in DOMAIN t
  BY <1>1, <1>2, FirstOfLonger
<1>4. T # {} /\ u[First(T)] = t[First(S)]
  BY <1>1, <1>2, <1>3 DEF Longer
<1> QED BY <1>1, <1>4 DEF CalledWithExactly, S, T

LEMMA RangeStays ==
  ASSUME NEW t, NEW u, Longer(t, u), NEW e, NEW p, NEW range, Ranged(t, e, p) # {}
  PROVE  InRange(t, e, p, range) = InRange(u, e, p, range)
<1> DEFINE S == Ranged(t, e, p)
           T == Ranged(u, e, p)
<1>1. S = T \intersect DOMAIN t /\ T \subseteq DOMAIN u
  BY RangedStay
<1> HIDE DEF S, T
<1>2. First(T) = First(S) /\ First(S) \in DOMAIN t
  BY <1>1, FirstOfLonger DEF S
<1>3. T # {} /\ u[First(T)] = t[First(S)]
  BY <1>1, <1>2 DEF Longer, S
<1> QED BY <1>3 DEF InRange, S, T

(* Tools that the model calls later take back no verdict of the evaluators *)
(* that judge by whether a call was made or by the first call that fits.   *)
THEOREM VerdictsAreFinal == RunSpec => VerdictsStay
<1>1. RunInv /\ [RunNext]_runVars =>
        [Fresh /\ Len(trace') > Len(trace) =>
         \A e \in Expected :
           /\ \A w \in Workspaces \union {NoWorkspace} :
                WasCalled(trace, e, w) => WasCalled(trace', e, w)
           /\ \A wanted \in SomeWanted :
                CalledWithExactly(trace, e, wanted, NoWorkspace)
                  => CalledWithExactly(trace', e, wanted, NoWorkspace)
           /\ \A p \in Params, v \in Values :
                Ranged(trace, e, p) # {} =>
                  InRange(trace, e, p, {v}) = InRange(trace', e, p, {v})]_runVars
  <2> SUFFICES ASSUME RunInv, RunNext, Len(trace') > Len(trace), NEW e \in Expected
               PROVE  /\ \A w \in Workspaces \union {NoWorkspace} :
                           WasCalled(trace, e, w) => WasCalled(trace', e, w)
                      /\ \A wanted \in SomeWanted :
                           CalledWithExactly(trace, e, wanted, NoWorkspace)
                             => CalledWithExactly(trace', e, wanted, NoWorkspace)
                      /\ \A p \in Params, v \in Values :
                           Ranged(trace, e, p) # {} =>
                             InRange(trace, e, p, {v}) = InRange(trace', e, p, {v})
    OBVIOUS
  <2>1. Longer(trace, trace')
    BY LongerTrace
  <2>2. ASSUME NEW w, WasCalled(trace, e, w) PROVE WasCalled(trace', e, w)
    BY <2>1, <2>2, SelectedStay DEF WasCalled
  <2>3. ASSUME NEW wanted, CalledWithExactly(trace, e, wanted, NoWorkspace)
        PROVE  CalledWithExactly(trace', e, wanted, NoWorkspace)
    BY <2>1, <2>3, ExactlyStays
  <2>4. ASSUME NEW p, NEW v, Ranged(trace, e, p) # {}
        PROVE  InRange(trace, e, p, {v}) = InRange(trace', e, p, {v})
    BY <2>1, <2>4, RangeStays
  <2> QED BY <2>2, <2>3, <2>4
<1> QED BY <1>1, RunInvariant, PTL DEF RunSpec, VerdictsStay

LEMMA ProductsGrow ==
  ASSUME NEW a \in Nat, NEW b \in Nat, NEW c \in Nat, NEW d \in Nat, a <= b, c <= d
  PROVE  a * c <= b * d
<1>1. PICK x \in Nat : b = a + x
  <2>1. b - a \in Nat /\ b = a + (b - a)
    OBVIOUS
  <2> QED BY <2>1
<1>2. PICK y \in Nat : d = c + y
  <2>1. d - c \in Nat /\ d = c + (d - c)
    OBVIOUS
  <2> QED BY <2>1
<1>3. b * d = a * c + (a * y + x * c + x * y)
  BY <1>1, <1>2
<1>4. a * c \in Nat /\ a * y \in Nat /\ x * c \in Nat /\ x * y \in Nat
  OBVIOUS
<1> QED BY <1>3, <1>4

(* Two fractions that grow have a product that grows. *)
LEMMA FractionsGrow ==
  ASSUME NEW P \in Nat, NEW Q \in Nat, NEW E \in Nat, P <= Q,
         NEW m1 \in Nat, NEW m2 \in Nat, NEW n1 \in Nat, NEW n2 \in Nat,
         m1 * n2 <= n1 * m2
  PROVE  (P * m1) * (E * n2) <= (Q * n1) * (E * m2)
<1>1. m1 * n2 \in Nat /\ n1 * m2 \in Nat /\ P * E \in Nat /\ Q * E \in Nat
  OBVIOUS
<1>2. P * E <= Q * E
  BY ProductsGrow
<1>3. (P * E) * (m1 * n2) <= (Q * E) * (n1 * m2)
  BY <1>1, <1>2, ProductsGrow
<1>4. (P * m1) * (E * n2) = (P * E) * (m1 * n2)
  OBVIOUS
<1>5. (Q * n1) * (E * m2) = (Q * E) * (n1 * m2)
  OBVIOUS
<1> QED BY <1>3, <1>4, <1>5

(* A call of an expected tool is one more that counts. *)
LEMMA PrimaryCallsGrow ==
  ASSUME NEW t, NEW u, Longer(t, u), NEW expected, NEW e \in expected,
         e.tool # Gateway, StrictMatch(u[Len(u)], e)
  PROVE  /\ Cardinality(PrimaryCalls(t, expected)) \in Nat
         /\ Cardinality(PrimaryCalls(t, expected)) <= Len(t)
         /\ Cardinality(PrimaryCalls(u, expected)) = Cardinality(PrimaryCalls(t, expected)) + 1
<1>1. /\ DOMAIN u = DOMAIN t \union {Len(u)} /\ Len(u) \notin DOMAIN t
      /\ \A i \in DOMAIN t : u[i] = t[i]
      /\ Len(t) \in Nat /\ DOMAIN t = 1..Len(t)
  BY LastIsLater DEF Longer
<1>2. RanTool(u[Len(u)]) \in PrimaryTools(expected)
  BY DEF StrictMatch, OnGateway, StrictlyNamed, RanTool, PrimaryTools
<1>3. PrimaryCalls(u, expected) = PrimaryCalls(t, expected) \union {Len(u)}
  BY <1>1, <1>2 DEF PrimaryCalls
<1>4. IsFiniteSet(DOMAIN t) /\ Cardinality(DOMAIN t) = Len(t)
  BY <1>1, FirstNumbers
<1>5. PrimaryCalls(t, expected) \in SUBSET (DOMAIN t) /\ Len(u) \notin PrimaryCalls(t, expected)
  BY <1>1 DEF PrimaryCalls
<1>6. /\ IsFiniteSet(PrimaryCalls(t, expected))
      /\ Cardinality(PrimaryCalls(t, expected)) <= Len(t)
  BY <1>4, <1>5, FS_Subset
<1>7. Cardinality(PrimaryCalls(t, expected)) \in Nat
  BY <1>6, FS_CardinalityType
<1> QED BY <1>3, <1>5, <1>6, <1>7, FS_AddElement

(* So the penalty for the others becomes no worse, at its floor or above   *)
(* it.                                                                     *)
LEMMA MultiplierGrows ==
  ASSUME NEW t \in Seq(Calls), NEW u \in Seq(Calls), Longer(t, u),
         NEW expected, NEW e \in expected,
         e.tool # Gateway, StrictMatch(u[Len(u)], e)
  PROVE  LET m == Multiplier(t, expected)
             n == Multiplier(u, expected)
         IN  /\ m[1] \in Nat /\ m[2] \in Nat /\ n[1] \in Nat /\ n[2] \in Nat
             /\ m[1] * n[2] <= n[1] * m[2]
<1> DEFINE a == Cardinality(PrimaryCalls(t, expected))
           l == Len(t)
           m == Multiplier(t, expected)
           n == Multiplier(u, expected)
<1>1. /\ a \in Nat /\ a <= l /\ Cardinality(PrimaryCalls(u, expected)) = a + 1
      /\ l \in Nat /\ Len(u) = l + 1
  BY PrimaryCallsGrow DEF Longer
<1>2. expected # {} /\ u # <<>> /\ (t = <<>> <=> l = 0)
  BY <1>1
<1>3. m = IF l = 0 THEN <<1, 1>> ELSE IF 2 * a < l THEN <<1, 2>> ELSE <<a, l>>
  BY <1>2 DEF Multiplier
<1>4. n = IF 2 * (a + 1) < l + 1 THEN <<1, 2>> ELSE <<a + 1, l + 1>>
  BY <1>1, <1>2 DEF Multiplier
<1> HIDE DEF a, l, m, n
<1>5. CASE l = 0
  <2>1. m = <<1, 1>> /\ n = <<1, 1>>
    <3>1. a = 0
      BY <1>1, <1>5
    <3> QED BY <1>3, <1>4, <1>5, <3>1
  <2> QED BY <2>1 DEF m, n
<1>6. CASE l # 0 /\ 2 * a < l /\ 2 * (a + 1) < l + 1
  <2>1. m = <<1, 2>> /\ n = <<1, 2>>
    BY <1>3, <1>4, <1>6
  <2> QED BY <2>1 DEF m, n
<1>7. CASE l # 0 /\ 2 * a < l /\ ~(2 * (a + 1) < l + 1)
  <2>1. m = <<1, 2>> /\ n = <<a + 1, l + 1>>
    BY <1>3, <1>4, <1>7
  <2>2. 1 * (l + 1) <= (a + 1) * 2
    BY <1>1, <1>7
  <2> QED BY <1>1, <2>1, <2>2 DEF m, n
<1>8. CASE l # 0 /\ ~(2 * a < l)
  <2>1. m = <<a, l>> /\ n = <<a + 1, l + 1>>
    BY <1>1, <1>3, <1>4, <1>8
  <2>2. a * (l + 1) = a * l + a /\ (a + 1) * l = a * l + l /\ a * l \in Nat
    BY <1>1
  <2>3. a * (l + 1) <= (a + 1) * l
    BY <1>1, <2>2
  <2> QED BY <1>1, <2>1, <2>3 DEF m, n
<1> QED BY <1>5, <1>6, <1>7, <1>8

LEMMA ScoreGrows ==
  ASSUME NEW t \in Seq(Calls), NEW u \in Seq(Calls), Longer(t, u),
         NEW expected, IsFiniteSet(expected), NEW e \in expected,
         e.tool # Gateway, StrictMatch(u[Len(u)], e)
  PROVE  AtMost(FinalScore(t, expected), FinalScore(u, expected))
<1> DEFINE m == Multiplier(t, expected)
           n == Multiplier(u, expected)
           P == Cardinality(PassedEvaluators(t, expected))
           Q == Cardinality(PassedEvaluators(u, expected))
           E == Cardinality(expected)
<1>1. /\ m[1] \in Nat /\ m[2] \in Nat /\ n[1] \in Nat /\ n[2] \in Nat
      /\ m[1] * n[2] <= n[1] * m[2]
  BY MultiplierGrows
<1>2. /\ PassedEvaluators(u, expected) \in SUBSET expected
      /\ PassedEvaluators(t, expected) \in SUBSET PassedEvaluators(u, expected)
  BY SelectedStay DEF PassedEvaluators, WasCalled
<1>3. IsFiniteSet(PassedEvaluators(u, expected))
  BY <1>2, FS_Subset
<1>4. IsFiniteSet(PassedEvaluators(t, expected)) /\ P <= Q
  BY <1>2, <1>3, FS_Subset
<1>5. P \in Nat /\ Q \in Nat /\ E \in Nat
  BY <1>3, <1>4, FS_CardinalityType
<1>6. /\ FinalScore(t, expected) = <<P * m[1], E * m[2]>>
      /\ FinalScore(u, expected) = <<Q * n[1], E * n[2]>>
  BY DEF FinalScore
<1> HIDE DEF m, n, P, Q, E
<1>7. (P * m[1]) * (E * n[2]) <= (Q * n[1]) * (E * m[2])
  BY <1>1, <1>4, <1>5, FractionsGrow
<1> QED BY <1>6, <1>7 DEF AtMost

(* One more call of a tool that an evaluator expects never lowers the      *)
(* final score of scoring.py: the share of evaluators that pass and the    *)
(* penalty for unexpected calls, with its floor, both do not fall.         *)
THEOREM ExpectedCallsHelp == RunSpec => ExpectedCallNeverHurts
<1> DEFINE Helps ==
      Fresh /\ Len(trace') > Len(trace) =>
        \A expected \in SUBSET Expected :
          (\E e \in expected : e.tool # Gateway /\ StrictMatch(trace'[Len(trace')], e))
            => AtMost(FinalScore(trace, expected), FinalScore(trace', expected))
<1>1. RunInv /\ RunInv' /\ [RunNext]_runVars => [Helps]_runVars
  <2> SUFFICES ASSUME RunInv, RunInv', RunNext, Len(trace') > Len(trace),
                      NEW expected \in SUBSET Expected, NEW e \in expected,
                      e.tool # Gateway, StrictMatch(trace'[Len(trace')], e)
               PROVE  AtMost(FinalScore(trace, expected), FinalScore(trace', expected))
    OBVIOUS
  <2>1. Longer(trace, trace') /\ trace \in Seq(Calls) /\ trace' \in Seq(Calls)
    BY LongerTrace DEF RunInv, RunTypes
  <2>2. IsFiniteSet(expected)
    BY RunAssumption, FS_Subset
  <2> QED BY <2>1, <2>2, ScoreGrows
<1> QED BY <1>1, RunInvariant, PTL DEF RunSpec, ExpectedCallNeverHurts
=============================================================================
