--------------------------- MODULE TestRun_proofs ---------------------------
(***************************************************************************)
(* Proofs about TestRun: the wall clock, the distances between requests    *)
(* and the clients of single tests, for any suite and any periods.         *)
(***************************************************************************)
EXTENDS TestRun, FiniteSetTheorems, SequenceTheorems, WellFoundedInduction, TLAPS

-----------------------------------------------------------------------------
(* A set of ages that is not empty has an oldest one.                      *)

Above(S, i) == {j \in S : i <= j}

LEMMA OldestExists ==
  ASSUME NEW n \in Nat, NEW S \in SUBSET (0..n), S # {}
  PROVE  \E x \in S : \A y \in S : y <= x
<1>a. \A i, j \in S : i \in Nat /\ (j \in Above(S, i) <=> i <= j)
  BY DEF Above
<1>b. \A i : Above(S, i) \subseteq S
  BY DEF Above
<1> DEFINE T == {Above(S, i) : i \in S}
<1>1. T \subseteq FiniteSubsetsOf(Nat) /\ T # {}
  <2>1. IsFiniteSet(S)
    <3>1. IsFiniteSet(0..n)
      BY FS_Interval
    <3> QED BY <3>1, FS_Subset
  <2>2. \A i \in S : IsFiniteSet(Above(S, i)) /\ Above(S, i) \subseteq Nat
    <3> SUFFICES ASSUME NEW i \in S
                 PROVE  IsFiniteSet(Above(S, i)) /\ Above(S, i) \subseteq Nat
      OBVIOUS
    <3>1. Above(S, i) \in SUBSET S
      BY <1>b
    <3>2. IsFiniteSet(Above(S, i))
      BY <3>1, <2>1, FS_Subset
    <3>3. Above(S, i) \subseteq Nat
      BY <3>1, <1>a
    <3> QED BY <3>2, <3>3
  <2> QED BY <2>2 DEF FiniteSubsetsOf
<1>2. PICK t \in T : \A u \in T : ~(<<u, t>> \in StrictSubsetOrdering(Nat))
  BY <1>1, WFMin, FS_StrictSubsetOrderingWellFounded
<1>3. PICK i \in S : t = Above(S, i)
  OBVIOUS
<1>4. ASSUME NEW j \in S, i < j PROVE FALSE
  <2>1. Above(S, j) \subseteq t /\ t \subseteq Nat /\ i \in t /\ i \notin Above(S, j)
    <3>1. ~(j <= i) /\ i <= i
      BY <1>a, <1>4
    <3>2. \A k \in S : j <= k => i <= k
      BY <1>a, <1>4
    <3> QED BY <1>3, <3>1, <3>2, <1>a, <1>b
  <2>2. Above(S, j) # t /\ Above(S, j) \in SUBSET Nat /\ t \in SUBSET Nat
    BY <2>1
  <2>3. <<Above(S, j), t>> \in StrictSubsetOrdering(Nat)
    BY <2>1, <2>2 DEF StrictSubsetOrdering
  <2> QED BY <1>2, <2>3
<1>5. \A j \in S : j <= i
  BY <1>4, <1>a
<1> QED BY <1>5

-----------------------------------------------------------------------------
(* The waits *)

LEMMA Products == \A a, b \in Nat : a * b \in Nat
OBVIOUS

LEMMA SumsGrow == \A a, b, m \in Nat : a >= m => a + b >= m
OBVIOUS

LEMMA HalfMinute == Minute \in Nat \ {0} /\ Minute \div 2 \in Nat
BY TestRunAssumption

LEMMA BackoffLength ==
  ASSUME NEW n \in Nat \ {0}
  PROVE  LlmRetryWait(n) \in Nat /\ LlmRetryWait(n) >= Minute
<1>1. n - 1 \in Nat
  OBVIOUS
<1>2. (n - 1) * (Minute \div 2) \in Nat
  BY <1>1, HalfMinute, Products
<1> DEFINE extra == (n - 1) * (Minute \div 2)
<1> HIDE DEF extra
<1>3. Minute + extra \in Nat /\ Minute + extra >= Minute
  BY <1>2, HalfMinute DEF extra
<1> QED BY <1>3 DEF LlmRetryWait, extra

LEMMA RetryLength ==
  ASSUME NEW n \in Nat \ {0}
  PROVE  TestRetryWait(n) \in Nat /\ TestRetryWait(n) >= Minute
<1>1. n - 1 \in Nat
  OBVIOUS
<1>2. (n - 1) * Minute \in Nat
  BY <1>1, HalfMinute, Products
<1> DEFINE extra == (n - 1) * Minute
<1> HIDE DEF extra
<1>3. 2 * Minute + extra \in Nat /\ 2 * Minute + extra >= Minute
  BY <1>2, HalfMinute DEF extra
<1> QED BY <1>3 DEF TestRetryWait, extra

LEMMA SuiteTyped ==
  ASSUME NEW i \in DOMAIN Suite
  PROVE  /\ Suite[i].timeout \in Nat /\ Suite[i].kind \in Kinds
         /\ Suite[i].timeout + Minute \in Nat
         /\ i \in Nat \ {0} /\ i <= Len(Suite) /\ Len(Suite) \in Nat
<1> DEFINE Tests == [kind : Kinds, auth : BOOLEAN, timeout : Nat]
<1>1. Suite \in Seq(Tests) /\ Minute \in Nat
  BY TestRunAssumption
<1>2. Len(Suite) \in Nat /\ DOMAIN Suite = 1..Len(Suite)
  BY <1>1
<1>3. Suite[i] \in Tests
  <2> HIDE DEF Tests
  <2> QED BY <1>1, <1>2, ElementOfSeq
<1>4. Suite[i].timeout \in Nat /\ Suite[i].kind \in Kinds
  BY <1>3
<1> QED BY <1>1, <1>2, <1>4

LEMMA SuiteBegins == 1 \in DOMAIN Suite
BY TestRunAssumption

LEMMA Bounds ==
  /\ Steps \in Nat \ {0} /\ Requests \in Nat \ {0} /\ Workers \in Nat \ {0}
  /\ LoadTimeout \in Nat \ {0} /\ Minute \in Nat \ {0} /\ Buffer \in Nat \ {0}
  /\ LlmTries \in Nat \ {0} /\ TestTries \in Nat \ {0} /\ Pause \in Nat /\ Grace \in Nat
  /\ 1 \in Callers
BY TestRunAssumption DEF Callers

LEMMA WaitTimeTyped ==
  ASSUME window \subseteq 0..Minute - 1, window # {}
  PROVE  WaitTime \in Nat /\ Oldest \in window /\ WaitTime = Minute + Buffer - Oldest
<1>1. Oldest \in window
  <2>1. Minute - 1 \in Nat
    BY Bounds
  <2>2. \E x \in window : \A y \in window : y <= x
    BY <2>1, OldestExists
  <2> QED BY <2>2 DEF Oldest
<1> HIDE DEF Oldest
<1>2. Oldest \in 0..Minute - 1
  BY <1>1
<1> QED BY <1>1, <1>2, Bounds DEF WaitTime

-----------------------------------------------------------------------------
(* The inductive invariant.                                                *)

(* Nobody is under way. *)
Resting == \A c \in Callers : at[c] \in {"idle", "done"}

(* Where the suite is, who takes part, and that a request that backs off   *)
(* has a try left.                                                         *)
Position ==
  /\ phase # "running" => Resting
  /\ phase \in {"retrying", "pausing"} => AllDone
  /\ phase = "pausing" => test < Len(Suite)
  /\ phase \in {"starting", "running", "retrying"} => results = test - 1
  /\ phase \in {"pausing", "cleaning", "ended"} => results = test
  /\ \A c \in Callers \ Taking : at[c] = "idle"
  /\ \A c \in Callers : at[c] = "backing" => attempt[c] < LlmTries

(* After the wall clock struck, whoever takes part is in the rest of its   *)
(* finally block.                                                          *)
Struck(c) ==
  \/ at[c] = "done"
  \/ at[c] = "tearing" /\ lasted + timer[c] <= Limit + Grace
  \/ at[c] = "closing" /\ lasted + timer[c] <= Limit + 2 * Grace

WallClock ==
  phase \in {"starting", "running"} =>
    /\ clock # Off => lasted + clock = Limit
    /\ clock = Off => lasted <= Limit + 2 * Grace /\ \A c \in Taking : Struck(c)

(* A client is open only on the way through run_test. *)
OpenClients ==
  \A c \in Callers :
    client[c] = "open" =>
      Current.kind # "multi" /\ at[c] \notin {"idle", "done"} /\ phase = "running"

(* Before the first load test, the window holds the last answer or nothing. *)
LastAnswer ==
  ~LoadSeen =>
    /\ sinceUse <= Minute
    /\ sinceUse < Minute => window = {sinceUse}
    /\ sinceUse = Minute => window = {}
    /\ at[1] = "waiting" => timer[1] + sinceUse >= Minute
    /\ at[1] \in {"calling", "backing"} => sinceUse = Minute

(* ... and the last refusal is not later than the last answer, or somebody *)
(* sleeps because of it.                                                   *)
LastRefusal ==
  ~LoadSeen =>
    /\ sinceRefusal <= Minute
    /\ phase \in {"starting", "running"} =>
         /\ at[1] \in {"idle", "connecting", "limiting", "waiting", "calling", "working"} =>
              sinceRefusal >= sinceUse
         /\ at[1] = "backing" => timer[1] + sinceRefusal >= Minute
    /\ phase = "retrying" => clock + sinceRefusal >= Minute

TestInv ==
  TestRunTypeOK /\ Position /\ WallClock /\ OpenClients /\ LastAnswer /\ LastRefusal

-----------------------------------------------------------------------------
LEMMA InitTest == TestRunInit => TestInv
<1> SUFFICES ASSUME TestRunInit PROVE TestInv
  OBVIOUS
<1>0. /\ Suite[1].timeout \in Nat /\ Suite[1].kind \in Kinds
      /\ Suite[1].timeout + Minute \in Nat /\ 1 <= Len(Suite)
  BY SuiteBegins, SuiteTyped
<1>1. TestRunTypeOK
  BY <1>0, SuiteBegins, SuiteTyped, Bounds
     DEF TestRunInit, TestRunTypeOK, SuiteTypes, Phases, CallerTypes, TimeTypes, Pcs, Off, Long
<1>2. Position
  BY <1>0 DEF TestRunInit, Position, Resting
<1>3. WallClock
  <2>1. clock # Off /\ lasted + clock = Limit
    BY <1>0, Bounds DEF TestRunInit, Off, Limit, Current
  <2> QED BY <2>1 DEF WallClock
<1>4. OpenClients
  BY DEF TestRunInit, OpenClients
<1>5. LastAnswer
  BY Bounds DEF TestRunInit, LastAnswer, Long
<1>6. LastRefusal
  BY Bounds DEF TestRunInit, LastRefusal, Long
<1> QED BY <1>1, <1>2, <1>3, <1>4, <1>5, <1>6 DEF TestInv

-----------------------------------------------------------------------------
(* A new attempt. *)

LEMMA FreshStep ==
  ASSUME TestInv, Fresh, phase' = "running", test' \in DOMAIN Suite, results' = test' - 1,
         tries' \in 1..TestTries, UNCHANGED <<window, sinceUse>>, sinceRefusal' \in Nat,
         ~LoadSeen' => ~LoadSeen /\ sinceRefusal' = Minute
  PROVE  TestInv'
<1>0. /\ Suite[test'].timeout \in Nat /\ Suite[test'].kind \in Kinds
      /\ Suite[test'].timeout + Minute \in Nat /\ test' \in Nat /\ test' <= Len(Suite)
      /\ Len(Suite) \in Nat
  BY SuiteTyped
<1>1. TestRunTypeOK'
  <2>1. SuiteTypes'
    BY <1>0, Bounds DEF TestInv, TestRunTypeOK, Fresh, SuiteTypes, Phases
  <2>2. CallerTypes'
    BY Bounds DEF Fresh, CallerTypes, Pcs
  <2>3. TimeTypes'
    BY <1>0, Bounds DEF TestInv, TestRunTypeOK, Fresh, TimeTypes, Off
  <2> QED BY <2>1, <2>2, <2>3 DEF TestRunTypeOK
<1>2. Position'
  BY <1>0 DEF Fresh, Position
<1>3. WallClock'
  <2>1. clock' # Off /\ lasted' + clock' = Limit'
    BY <1>0, Bounds DEF Fresh, Off, Limit, Current
  <2> QED BY <2>1 DEF WallClock
<1>4. OpenClients'
  BY DEF Fresh, OpenClients
<1>5. LastAnswer'
  BY Bounds DEF TestInv, Fresh, LastAnswer
<1>6. LastRefusal'
  BY Bounds DEF TestInv, Fresh, LastRefusal, LastAnswer
<1> QED BY <1>1, <1>2, <1>3, <1>4, <1>5, <1>6 DEF TestInv

-----------------------------------------------------------------------------
(* A step of a caller. *)

CallerNext(c) ==
  \/ Begin(c) \/ Connected(c) \/ SetupFailed(c) \/ LimitRequest(c) \/ Woken(c)
  \/ Answered(c) \/ Refused(c) \/ BackedOff(c) \/ Raised(c) \/ NextStep(c) \/ Judged(c)
  \/ TornDown(c) \/ Closed(c)

LEMMA CallerTakesPart ==
  ASSUME TestInv, NEW c \in Callers, CallerNext(c)
  PROVE  phase = "running" /\ c \in Taking /\ at[c] # "done"
<1>1. at[c] \notin {"idle", "done"} \/ Begin(c)
  BY DEF CallerNext, Connected, SetupFailed, LimitRequest, Woken, Answered, Refused, BackedOff,
         Raised, NextStep, Judged, TornDown, Closed
<1>2. CASE Begin(c)
  BY <1>2 DEF Begin, MayBegin
<1>3. CASE at[c] \notin {"idle", "done"}
  BY <1>3 DEF TestInv, Position, Resting
<1> QED BY <1>1, <1>2, <1>3

LEMMA SuiteStays ==
  ASSUME NEW c \in Callers, CallerNext(c)
  PROVE  /\ UNCHANGED <<suiteVars, expired, clock, loadClock, lasted>>
         /\ Taking' = Taking /\ Limit' = Limit /\ Current' = Current
         /\ LoadSeen' <=> LoadSeen
<1>1. UNCHANGED <<suiteVars, expired, clock, loadClock, lasted>>
  <2>1. CASE Begin(c)  BY <2>1 DEF Begin, timeVars, Leave
  <2>2. CASE Connected(c)  BY <2>2 DEF Connected, timeVars, Leave
  <2>3. CASE SetupFailed(c)  BY <2>3 DEF SetupFailed, timeVars, Leave
  <2>4. CASE LimitRequest(c)  BY <2>4 DEF LimitRequest, timeVars, Leave
  <2>5. CASE Woken(c)  BY <2>5 DEF Woken, timeVars, Leave
  <2>6. CASE Answered(c)  BY <2>6 DEF Answered, timeVars, Leave
  <2>7. CASE Refused(c)  BY <2>7 DEF Refused, timeVars, Leave
  <2>8. CASE BackedOff(c)  BY <2>8 DEF BackedOff, timeVars, Leave
  <2>9. CASE Raised(c)  BY <2>9 DEF Raised, timeVars, Leave
  <2>10. CASE NextStep(c)  BY <2>10 DEF NextStep, timeVars, Leave
  <2>11. CASE Judged(c)  BY <2>11 DEF Judged, timeVars, Leave
  <2>12. CASE TornDown(c)  BY <2>12 DEF TornDown, timeVars, Leave
  <2>13. CASE Closed(c)  BY <2>13 DEF Closed, timeVars, Leave
  <2> QED BY <2>1, <2>2, <2>3, <2>4, <2>5, <2>6, <2>7, <2>8, <2>9, <2>10, <2>11, <2>12, <2>13 DEF CallerNext
<1> QED BY <1>1 DEF suiteVars, Taking, Limit, Current, LoadSeen

(* Nobody else moves, and types are kept. *)
Alone(c) ==
  /\ CallerTypes' /\ timer' \in [Callers -> Nat] /\ step' \in 1..Steps
  /\ window' \subseteq 0..Minute - 1 /\ {sinceUse', sinceRefusal'} \subseteq Nat
  /\ \A d \in Callers \ {c} :
       /\ at'[d] = at[d] /\ timer'[d] = timer[d]
       /\ client'[d] = client[d] /\ attempt'[d] = attempt[d]

LEMMA CallerTyped ==
  ASSUME TestInv, NEW c \in Callers
  PROVE  /\ at \in [Callers -> Pcs] /\ attempt \in [Callers -> 1..LlmTries]
         /\ client \in [Callers -> {"none", "open", "closed", "cut off"}]
         /\ verdict \in [Callers -> {"none", "answered", "passed", "failed", "refused"}]
         /\ timer \in [Callers -> Nat] /\ step \in 1..Steps
         /\ window \subseteq 0..Minute - 1 /\ sinceUse \in Nat /\ sinceRefusal \in Nat
         /\ attempt[c] \in Nat \ {0} /\ attempt[c] <= LlmTries /\ timer[c] \in Nat
         /\ at[c] = "backing" => attempt[c] < LlmTries
         /\ Finally(c) \in {"tearing", "closing", "done"} /\ Grace \in Nat
<1>1. attempt \in [Callers -> 1..LlmTries] /\ timer \in [Callers -> Nat]
  BY DEF TestInv, TestRunTypeOK, CallerTypes, TimeTypes
<1>2. attempt[c] \in 1..LlmTries /\ timer[c] \in Nat
  BY <1>1
<1>3. attempt[c] \in Nat \ {0} /\ attempt[c] <= LlmTries
  BY <1>2, Bounds
<1>4. at[c] = "backing" => attempt[c] < LlmTries
  BY DEF TestInv, Position
<1>5. Finally(c) \in {"tearing", "closing", "done"} /\ Grace \in Nat
  BY Bounds DEF Finally
<1> QED BY <1>1, <1>2, <1>3, <1>4, <1>5 DEF TestInv, TestRunTypeOK, SuiteTypes, CallerTypes, TimeTypes

LEMMA CallerIsAlone ==
  ASSUME TestInv, NEW c \in Callers, CallerNext(c)
  PROVE  Alone(c)
<1>t. /\ at \in [Callers -> Pcs] /\ attempt \in [Callers -> 1..LlmTries]
      /\ client \in [Callers -> {"none", "open", "closed", "cut off"}]
      /\ verdict \in [Callers -> {"none", "answered", "passed", "failed", "refused"}]
      /\ timer \in [Callers -> Nat] /\ step \in 1..Steps
      /\ window \subseteq 0..Minute - 1 /\ sinceUse \in Nat /\ sinceRefusal \in Nat
      /\ Finally(c) \in {"tearing", "closing", "done"} /\ Grace \in Nat
  BY CallerTyped
<1>a. /\ attempt[c] \in Nat \ {0} /\ attempt[c] <= LlmTries
      /\ at[c] = "backing" => attempt[c] < LlmTries
  BY CallerTyped
<1>w. window \subseteq 0..Minute - 1 /\ sinceUse \in Nat /\ sinceRefusal \in Nat /\ step \in 1..Steps
  BY <1>t
<1> USE DEF Alone, CallerTypes, Pcs, Goto, Leave, timeVars
<1>1. CASE Begin(c)
  BY <1>t, <1>1 DEF Begin
<1>2. CASE Connected(c)
  BY <1>t, <1>2 DEF Connected
<1>3. CASE SetupFailed(c)
  BY <1>t, <1>3 DEF SetupFailed
<1>4. CASE LimitRequest(c)
  BY <1>t, <1>4, WaitTimeTyped DEF LimitRequest
<1>5. CASE Woken(c)
  BY <1>t, <1>5 DEF Woken
<1>6. CASE Answered(c)
  <2>1. PICK said \in {"answered", "refused"} :
          /\ verdict' = [verdict EXCEPT ![c] = said]
          /\ sinceRefusal' = IF said = "refused" THEN 0 ELSE sinceRefusal
    BY <1>6 DEF Answered
  <2>2. /\ at' = [at EXCEPT ![c] = "working"] /\ UNCHANGED <<timer, step, attempt, client>>
        /\ window' = window \union {0} /\ sinceUse' = 0
    BY <1>6 DEF Answered
  <2>7. sinceUse' \in Nat /\ sinceRefusal' \in Nat
    BY <2>1, <2>2, <1>w
  <2>8. 0 \in 0..Minute - 1
    BY Bounds
  <2>3. window' \subseteq 0..Minute - 1 /\ {sinceUse', sinceRefusal'} \subseteq Nat
    BY <2>2, <2>7, <2>8, <1>w
  <2>6. verdict' \in [Callers -> {"none", "answered", "passed", "failed", "refused"}]
    BY <2>1, <1>t
  <2>4. CallerTypes'
    BY <2>2, <2>6, <1>t
  <2>5. timer' \in [Callers -> Nat] /\ step' \in 1..Steps
    BY <2>2, <1>t
  <2> QED BY <2>2, <2>3, <2>4, <2>5, <1>t
<1>7. CASE Refused(c)
  <2>1. sinceRefusal' = 0 /\ UNCHANGED <<window, sinceUse, step, attempt, client>>
    BY <1>7 DEF Refused
  <2>4. step' \in 1..Steps /\ window' \subseteq 0..Minute - 1 /\ {sinceUse', sinceRefusal'} \subseteq Nat
    BY <1>w, <2>1
  <2>2. CASE attempt[c] < LlmTries
    <3>1. /\ at' = [at EXCEPT ![c] = "backing"] /\ UNCHANGED verdict
          /\ timer' = [timer EXCEPT ![c] = LlmRetryWait(attempt[c])]
      BY <1>7, <2>2 DEF Refused
    <3>2. LlmRetryWait(attempt[c]) \in Nat
      BY <1>a, BackoffLength
    <3>3. CallerTypes'
      BY <1>t, <2>1, <3>1
    <3>4. timer' \in [Callers -> Nat]
      BY <1>t, <3>1, <3>2
    <3>5. \A d \in Callers \ {c} : at'[d] = at[d] /\ timer'[d] = timer[d]
      BY <1>t, <3>1
    <3> QED BY <2>1, <2>4, <3>3, <3>4, <3>5
  <2>3. CASE ~(attempt[c] < LlmTries)
    <3>1. /\ at' = [at EXCEPT ![c] = Finally(c)] /\ timer' = [timer EXCEPT ![c] = Grace]
          /\ verdict' = [verdict EXCEPT ![c] = "refused"]
      BY <1>7, <2>3 DEF Refused
    <3>3. CallerTypes'
      BY <1>t, <2>1, <3>1
    <3>4. timer' \in [Callers -> Nat]
      BY <1>t, <3>1
    <3>5. \A d \in Callers \ {c} : at'[d] = at[d] /\ timer'[d] = timer[d]
      BY <1>t, <3>1
    <3> QED BY <2>1, <2>4, <3>3, <3>4, <3>5
  <2> QED BY <2>2, <2>3
<1>8. CASE BackedOff(c)
  <2>1. attempt[c] \in Nat /\ 1 <= attempt[c] /\ attempt[c] < LlmTries
    BY <1>a, <1>8 DEF BackedOff
  <2>2. attempt[c] + 1 \in 1..LlmTries
    BY <2>1, Bounds
  <2>3. /\ attempt' = [attempt EXCEPT ![c] = attempt[c] + 1]
        /\ at' = [at EXCEPT ![c] = "limiting"]
        /\ UNCHANGED <<timer, step, client, verdict, window, sinceUse, sinceRefusal>>
    BY <1>8 DEF BackedOff
  <2>4. attempt' \in [Callers -> 1..LlmTries]
    BY <1>t, <2>2, <2>3
  <2>5. CallerTypes'
    BY <1>t, <2>3, <2>4
  <2>6. step' \in 1..Steps /\ window' \subseteq 0..Minute - 1 /\ {sinceUse', sinceRefusal'} \subseteq Nat
    BY <1>w, <2>3
  <2>7. /\ timer' \in [Callers -> Nat]
        /\ \A d \in Callers \ {c} :
             /\ at'[d] = at[d] /\ timer'[d] = timer[d]
             /\ client'[d] = client[d] /\ attempt'[d] = attempt[d]
    BY <1>t, <2>3
  <2> QED BY <2>5, <2>6, <2>7
<1>9. CASE Raised(c)
  BY <1>t, <1>9 DEF Raised
<1>10. CASE NextStep(c)
  <2>3. step < Steps
    BY <1>10 DEF NextStep
  <2>1. step + 1 \in 1..Steps /\ 1 \in 1..LlmTries
    BY <2>3, <1>w, Bounds
  <2>2. /\ attempt' = [attempt EXCEPT ![c] = 1] /\ step' = step + 1
        /\ at' = [at EXCEPT ![c] = "limiting"]
        /\ UNCHANGED <<timer, client, verdict, window, sinceUse, sinceRefusal>>
    BY <1>10 DEF NextStep
  <2> QED BY <1>t, <2>1, <2>2
<1>11. CASE Judged(c)
  BY <1>t, <1>11 DEF Judged
<1>12. CASE TornDown(c)
  BY <1>t, <1>12 DEF TornDown
<1>13. CASE Closed(c)
  BY <1>t, <1>13 DEF Closed
<1> QED BY <1>1, <1>2, <1>3, <1>4, <1>5, <1>6, <1>7, <1>8, <1>9, <1>10, <1>11, <1>12, <1>13 DEF CallerNext

(* What the caller itself does to the clocks and to its client. *)
Moves(c) ==
  /\ at'[c] = "backing" => attempt'[c] < LlmTries
  /\ at[c] = "tearing" => at'[c] = "done" \/ (at'[c] = "closing" /\ timer'[c] = Grace)
  /\ at[c] = "closing" => at'[c] = "done"
  /\ client'[c] = "open" => Current.kind # "multi" /\ at'[c] \notin {"idle", "done"}
  /\ client[c] = "open" => client'[c] \in {"open", "closed"}

Asks == {"idle", "connecting", "limiting", "waiting", "calling", "working"}

GetsAnswer(c) ==
  /\ at[c] = "calling" /\ at'[c] = "working"
  /\ window' = window \union {0} /\ sinceUse' = 0 /\ sinceRefusal' \in {0, sinceRefusal}

GetsRefused(c) ==
  /\ at[c] = "calling" /\ UNCHANGED <<window, sinceUse>> /\ sinceRefusal' = 0
  /\ \/ at'[c] = "backing" /\ timer'[c] >= Minute
     \/ at'[c] \in {"tearing", "closing", "done"}

(* It neither gets an answer nor is refused. *)
GoesOn(c) ==
  /\ UNCHANGED <<window, sinceUse, sinceRefusal>>
  /\ at'[c] = "waiting" => at[c] = "limiting" /\ window # {} /\ timer'[c] = WaitTime
  /\ at'[c] = "calling" => \/ at[c] = "limiting" /\ window = {}
                           \/ at[c] = "waiting" /\ timer[c] = 0
  /\ at'[c] \in Asks => at[c] \in Asks \/ (at[c] = "backing" /\ timer[c] = 0)
  /\ at'[c] # "backing"

LEMMA CallerMoves ==
  ASSUME TestInv, NEW c \in Callers, CallerNext(c)
  PROVE  Moves(c) /\ (GetsAnswer(c) \/ GetsRefused(c) \/ GoesOn(c))
<1>t. /\ at \in [Callers -> Pcs] /\ attempt \in [Callers -> 1..LlmTries]
      /\ client \in [Callers -> {"none", "open", "closed", "cut off"}]
      /\ timer \in [Callers -> Nat]
      /\ Finally(c) \in {"tearing", "closing", "done"}
  BY CallerTyped
<1>o. client[c] = "open" => Current.kind # "multi" /\ at[c] \notin {"idle", "done"}
  BY DEF TestInv, OpenClients
<1>f. Finally(c) = "done" => Current.kind = "multi"
  BY DEF Finally
<1> USE DEF Moves, GoesOn, Asks, Goto, Leave, timeVars
<1>1. CASE Begin(c)
  BY <1>t, <1>o, <1>1 DEF Begin, MayBegin
<1>2. CASE Connected(c)
  BY <1>t, <1>o, <1>2 DEF Connected
<1>3. CASE SetupFailed(c)
  BY <1>t, <1>o, <1>f, <1>3 DEF SetupFailed
<1>4. CASE LimitRequest(c)
  BY <1>t, <1>o, <1>4 DEF LimitRequest
<1>5. CASE Woken(c)
  BY <1>t, <1>o, <1>5 DEF Woken
<1>6. CASE Answered(c)
  BY <1>t, <1>o, <1>6 DEF Answered, GetsAnswer
<1>7. CASE Refused(c)
  <2>1. LlmRetryWait(attempt[c]) >= Minute
    BY CallerTyped, BackoffLength
  <2>2. CASE attempt[c] < LlmTries
    BY <1>t, <1>o, <1>7, <2>1, <2>2 DEF Refused, GetsRefused
  <2>3. CASE ~(attempt[c] < LlmTries)
    BY <1>t, <1>o, <1>f, <1>7, <2>3 DEF Refused, GetsRefused
  <2> QED BY <2>2, <2>3
<1>8. CASE BackedOff(c)
  BY <1>t, <1>o, <1>8 DEF BackedOff
<1>9. CASE Raised(c)
  BY <1>t, <1>o, <1>f, <1>9 DEF Raised
<1>10. CASE NextStep(c)
  BY <1>t, <1>o, <1>10 DEF NextStep
<1>11. CASE Judged(c)
  BY <1>t, <1>o, <1>f, <1>11 DEF Judged
<1>12. CASE TornDown(c)
  BY <1>t, <1>o, <1>12 DEF TornDown
<1>13. CASE Closed(c)
  BY <1>t, <1>o, <1>13 DEF Closed
<1> QED BY <1>1, <1>2, <1>3, <1>4, <1>5, <1>6, <1>7, <1>8, <1>9, <1>10, <1>11, <1>12, <1>13 DEF CallerNext

LEMMA CallerKeepsInv ==
  ASSUME TestInv, NEW c \in Callers, CallerNext(c)
  PROVE  TestInv'
<1>1. phase = "running" /\ c \in Taking /\ at[c] # "done"
  BY CallerTakesPart
<1>2. /\ UNCHANGED <<suiteVars, expired, clock, loadClock, lasted>>
      /\ Taking' = Taking /\ Limit' = Limit /\ Current' = Current
      /\ LoadSeen' <=> LoadSeen
  BY SuiteStays
<1>3. UNCHANGED <<test, phase, tries, results, expired, clock, loadClock, lasted>>
  BY <1>2 DEF suiteVars
<1>4. Alone(c)
  BY CallerIsAlone
<1>5. Moves(c) /\ (GetsAnswer(c) \/ GetsRefused(c) \/ GoesOn(c))
  BY CallerMoves
<1>6. TestRunTypeOK'
  <2>1. SuiteTypes'
    BY <1>3, <1>4 DEF Alone, TestInv, TestRunTypeOK, SuiteTypes
  <2>2. TimeTypes'
    BY <1>3, <1>4 DEF Alone, TestInv, TestRunTypeOK, TimeTypes
  <2> QED BY <2>1, <2>2, <1>4 DEF Alone, TestRunTypeOK
<1>7. Position'
  <2>1. \A d \in Callers \ Taking : at'[d] = "idle"
    BY <1>1, <1>4 DEF Alone, TestInv, Position
  <2>2. \A d \in Callers : at'[d] = "backing" => attempt'[d] < LlmTries
    BY <1>4, <1>5 DEF Alone, Moves, TestInv, Position
  <2> QED BY <1>1, <1>2, <1>3, <2>1, <2>2 DEF TestInv, Position
<1>8. WallClock'
  <2>1. CASE clock # Off
    BY <1>1, <1>2, <1>3, <2>1 DEF TestInv, WallClock, Off
  <2>2. CASE clock = Off
    <3>1. lasted <= Limit + 2 * Grace /\ \A d \in Taking : Struck(d)
      BY <1>1, <2>2 DEF TestInv, WallClock
    <3>2. \A d \in Taking \ {c} : d \in Callers
      BY Bounds DEF Taking
    <3>3. \A d \in Taking \ {c} : Struck(d)'
      BY <1>2, <1>3, <1>4, <3>1, <3>2 DEF Alone, Struck
    <3>4. Struck(c)'
      <4>1. lasted \in Nat /\ Limit \in Nat /\ Grace \in Nat /\ timer[c] \in Nat
        BY CallerTyped, SuiteTyped
           DEF TestInv, TestRunTypeOK, SuiteTypes, TimeTypes, Limit, Current
      <4>2. (at[c] = "tearing" /\ lasted + timer[c] <= Limit + Grace) \/ at[c] = "closing"
        BY <1>1, <3>1 DEF Struck
      <4>3. at'[c] = "done" \/ (at'[c] = "closing" /\ timer'[c] = Grace /\ at[c] = "tearing")
        BY <1>5, <4>2 DEF Moves
      <4>4. lasted + timer[c] <= Limit + Grace => lasted' + Grace <= Limit' + 2 * Grace
        BY <1>2, <1>3, <4>1
      <4> QED BY <4>2, <4>3, <4>4 DEF Struck
    <3> QED BY <1>2, <1>3, <2>2, <3>1, <3>3, <3>4 DEF WallClock
  <2> QED BY <2>1, <2>2
<1>9. OpenClients'
  BY <1>1, <1>2, <1>3, <1>4, <1>5 DEF Alone, Moves, TestInv, OpenClients
<1>10. ~LoadSeen => c = 1
  <2>1. Current.kind = "load" => LoadSeen
    BY SuiteTyped DEF Current, LoadSeen, TestInv, TestRunTypeOK, SuiteTypes
  <2> QED BY <1>1, <2>1 DEF Taking
<1>11. LastAnswer' /\ LastRefusal'
  <2> SUFFICES ASSUME ~LoadSeen
               PROVE  LastAnswer' /\ LastRefusal'
    BY <1>2 DEF LastAnswer, LastRefusal
  <2>1. c = 1
    BY <1>10
  <2>2. /\ sinceUse <= Minute /\ sinceRefusal <= Minute
        /\ sinceUse < Minute => window = {sinceUse}
        /\ sinceUse = Minute => window = {}
        /\ at[1] = "waiting" => timer[1] + sinceUse >= Minute
        /\ at[1] \in {"calling", "backing"} => sinceUse = Minute
        /\ at[1] \in Asks => sinceRefusal >= sinceUse
        /\ at[1] = "backing" => timer[1] + sinceRefusal >= Minute
    BY <1>1 DEF TestInv, LastAnswer, LastRefusal, Asks
  <2>3. /\ sinceUse \in Nat /\ sinceRefusal \in Nat /\ timer[1] \in Nat
        /\ Minute \in Nat \ {0} /\ Buffer \in Nat \ {0}
    BY <2>1, CallerTyped, Bounds
  <2>4. CASE GetsAnswer(c)
    <3>1. /\ at'[1] = "working" /\ sinceUse' = 0 /\ window = {} /\ window' = {0}
          /\ sinceRefusal' \in {0, sinceRefusal}
      BY <2>1, <2>2, <2>4 DEF GetsAnswer
    <3>2. LastAnswer'
      BY <1>2, <2>3, <3>1 DEF LastAnswer
    <3>3. LastRefusal'
      BY <1>1, <1>3, <2>2, <2>3, <3>1 DEF LastRefusal
    <3> QED BY <3>2, <3>3
  <2>5. CASE GetsRefused(c)
    <3>1. /\ window' = window /\ sinceUse' = sinceUse /\ sinceRefusal' = 0 /\ sinceUse = Minute
          /\ \/ at'[1] = "backing" /\ timer'[1] >= Minute
             \/ at'[1] \in {"tearing", "closing", "done"}
      BY <2>1, <2>2, <2>5 DEF GetsRefused
    <3>2. LastAnswer'
      BY <2>2, <2>3, <3>1 DEF LastAnswer
    <3>4. at'[1] = "backing" => timer'[1] + 0 >= Minute
      <4>1. timer'[1] \in Nat
        BY <1>4, <2>1 DEF Alone
      <4> QED BY <2>3, <3>1, <4>1
    <3>3. LastRefusal'
      BY <1>1, <1>3, <2>2, <2>3, <3>1, <3>4 DEF LastRefusal
    <3> QED BY <3>2, <3>3
  <2>6. CASE GoesOn(c)
    <3>1. /\ window' = window /\ sinceUse' = sinceUse /\ sinceRefusal' = sinceRefusal
          /\ at'[1] = "waiting" => window # {} /\ timer'[1] = WaitTime
          /\ at'[1] = "calling" => window = {} \/ (at[1] = "waiting" /\ timer[1] = 0)
          /\ at'[1] \in Asks => at[1] \in Asks \/ (at[1] = "backing" /\ timer[1] = 0)
          /\ at'[1] # "backing"
      BY <2>1, <2>6 DEF GoesOn
    <3>2. window # {} => WaitTime + sinceUse >= Minute
      <4> SUFFICES ASSUME window # {} PROVE WaitTime + sinceUse >= Minute
        OBVIOUS
      <4>1. window = {sinceUse}
        BY <2>2, <2>3
      <4>2. WaitTime = Minute + Buffer - sinceUse
        BY <4>1, WaitTimeTyped DEF TestInv, TestRunTypeOK, TimeTypes
      <4> QED BY <2>3, <4>2
    <3>3. at'[1] = "calling" => sinceUse = Minute
      BY <2>2, <2>3, <3>1
    <3>4. at'[1] = "waiting" => timer'[1] + sinceUse' >= Minute
      BY <3>1, <3>2
    <3>5. LastAnswer'
      BY <2>2, <3>1, <3>3, <3>4 DEF LastAnswer
    <3>6. at'[1] \in Asks => sinceRefusal >= sinceUse
      BY <2>2, <2>3, <3>1
    <3>7. LastRefusal'
      BY <1>1, <1>3, <2>2, <3>1, <3>6 DEF LastRefusal, Asks
    <3> QED BY <3>5, <3>7
  <2> QED BY <1>5, <2>4, <2>5, <2>6
<1> QED BY <1>6, <1>7, <1>8, <1>9, <1>11 DEF TestInv

-----------------------------------------------------------------------------
(* A timeout. *)

LEMMA Participants == 1 \in Taking /\ Taking \subseteq Callers
BY Bounds DEF Taking

(* Where a cancellation leaves a caller that takes part. *)
LEMMA CancelledCaller ==
  ASSUME TestInv, CancelAll, NEW c \in Taking
  PROVE  /\ \/ at'[c] = "done" /\ timer'[c] = 0
            \/ at'[c] \in {"tearing", "closing"} /\ timer'[c] = Grace
         /\ at[c] \in {"tearing", "closing", "done"} => at'[c] = "done"
         /\ client'[c] = "open" => client[c] = "open" /\ at'[c] # "done"
         /\ client[c] = "open" /\ client'[c] = "cut off" => at[c] \in {"tearing", "closing"}
<1>1. c \in Callers
  BY Participants
<1>2. /\ at'[c] = AfterStrike(c)
      /\ timer'[c] = IF at'[c] = "done" THEN 0 ELSE IF at'[c] = at[c] THEN timer[c] ELSE Grace
      /\ client'[c] = IF at'[c] = "done" /\ client[c] = "open" THEN "cut off" ELSE client[c]
  BY <1>1 DEF CancelAll
<1>3. CASE at[c] \in {"idle", "tearing", "closing", "done"}
  <2>1. at'[c] = "done"
    BY <1>2, <1>3 DEF AfterStrike
  <2>2. client[c] = "open" => at[c] \in {"tearing", "closing"}
    BY <1>1, <1>3 DEF TestInv, OpenClients
  <2> QED BY <1>2, <2>1, <2>2
<1>4. CASE at[c] \notin {"idle", "tearing", "closing", "done"}
  <2>1. at'[c] = Finally(c) /\ Finally(c) \in {"tearing", "closing", "done"}
    BY <1>1, <1>2, <1>4, CallerTyped DEF AfterStrike
  <2>2. at'[c] # at[c]
    BY <1>4, <2>1
  <2>3. Finally(c) = "done" => client[c] # "open"
    BY <1>1 DEF Finally, TestInv, OpenClients
  <2> QED BY <1>2, <1>4, <2>1, <2>2, <2>3
<1> QED BY <1>3, <1>4

LEMMA CancelKeepsInv ==
  ASSUME TestInv, phase = "running", CancelAll, expired' \in {"nothing", "test", "load"},
         loadClock' \in {loadClock, Off},
         clock' = clock \/ (clock = 0 /\ clock' = Off)
  PROVE  TestInv'
<1>1. /\ UNCHANGED <<test, phase, tries, results, step, attempt, verdict, window, sinceUse,
                     sinceRefusal, lasted>>
      /\ Taking' = Taking /\ Limit' = Limit /\ Current' = Current /\ (LoadSeen' <=> LoadSeen)
  BY DEF CancelAll, suiteVars, Taking, Limit, Current, LoadSeen
<1>2. \A c \in Callers \ Taking : at'[c] = "idle" /\ client'[c] # "open" /\ timer'[c] \in Nat
  <2> SUFFICES ASSUME NEW c \in Callers \ Taking
               PROVE  at'[c] = "idle" /\ client'[c] # "open" /\ timer'[c] \in Nat
    OBVIOUS
  <2>1. at[c] = "idle" /\ timer[c] \in Nat /\ client[c] # "open"
    BY CallerTyped DEF TestInv, Position, OpenClients
  <2>2. at'[c] = "idle"
    BY <2>1 DEF CancelAll
  <2> QED BY <2>1, <2>2 DEF CancelAll
<1>3. \A c \in Taking :
        /\ \/ at'[c] = "done" /\ timer'[c] = 0
           \/ at'[c] \in {"tearing", "closing"} /\ timer'[c] = Grace
        /\ at[c] \in {"tearing", "closing", "done"} => at'[c] = "done"
        /\ client'[c] = "open" => client[c] = "open" /\ at'[c] # "done"
  BY CancelledCaller
<1>4. TestRunTypeOK'
  <2>1. SuiteTypes'
    BY <1>1 DEF TestInv, TestRunTypeOK, SuiteTypes
  <2>2. CallerTypes'
    <3>1. at' \in [Callers -> Pcs]
      <4>1. \A c \in Callers : at'[c] \in Pcs
        BY <1>2, <1>3 DEF Pcs
      <4>2. at' = [c \in Callers |-> at'[c]]
        BY DEF CancelAll
      <4> QED BY <4>1, <4>2
    <3>2. client' \in [Callers -> {"none", "open", "closed", "cut off"}]
      BY DEF CancelAll, TestInv, TestRunTypeOK, CallerTypes
    <3> QED BY <1>1, <3>1, <3>2 DEF TestInv, TestRunTypeOK, CallerTypes
  <2>3. TimeTypes'
    <3>1. \A c \in Callers : timer'[c] \in Nat
      BY <1>2, <1>3, Bounds
    <3>2. timer' = [c \in Callers |-> timer'[c]]
      BY DEF CancelAll
    <3>3. timer' \in [Callers -> Nat]
      BY <3>1, <3>2
    <3> QED BY <1>1, <3>3 DEF TestInv, TestRunTypeOK, TimeTypes
  <2> QED BY <2>1, <2>2, <2>3 DEF TestRunTypeOK
<1>5. Position'
  <2>1. \A c \in Callers : at'[c] # "backing"
    BY <1>2, <1>3
  <2> QED BY <1>1, <1>2, <2>1 DEF TestInv, Position
<1>6. WallClock'
  <2>1. lasted \in Nat /\ Limit \in Nat /\ Grace \in Nat
    BY SuiteTyped, Bounds DEF TestInv, TestRunTypeOK, SuiteTypes, TimeTypes, Limit, Current
  <2>2. CASE clock' # Off
    BY <1>1, <2>2 DEF TestInv, WallClock, Off
  <2>3. CASE clock' = Off /\ clock = 0
    <3>1. lasted = Limit
      BY <2>1, <2>3 DEF TestInv, WallClock, Off
    <3>2. lasted <= Limit + 2 * Grace /\ lasted + Grace <= Limit + Grace
          /\ lasted + Grace <= Limit + 2 * Grace
      BY <2>1, <3>1
    <3>3. \A c \in Taking : Struck(c)'
      BY <1>1, <1>3, <3>2 DEF Struck
    <3> QED BY <1>1, <2>3, <3>2, <3>3 DEF WallClock
  <2>4. CASE clock' = Off /\ clock = Off
    <3>1. lasted <= Limit + 2 * Grace /\ \A c \in Taking : Struck(c)
      BY <2>4 DEF TestInv, WallClock
    <3>2. \A c \in Taking : at'[c] = "done"
      BY <1>3, <3>1 DEF Struck
    <3>3. \A c \in Taking : Struck(c)'
      BY <3>2 DEF Struck
    <3> QED BY <1>1, <2>4, <3>1, <3>3 DEF WallClock
  <2> QED BY <2>2, <2>3, <2>4
<1>7. OpenClients'
  <2> SUFFICES ASSUME NEW c \in Callers, client'[c] = "open"
               PROVE  Current.kind # "multi" /\ at'[c] \notin {"idle", "done"}
    BY <1>1 DEF OpenClients
  <2>1. c \in Taking
    BY <1>2
  <2> QED BY <1>3, <2>1 DEF TestInv, OpenClients
<1>8. at'[1] \in {"tearing", "closing", "done"}
  BY <1>3, Participants
<1>9. LastAnswer' /\ LastRefusal'
  BY <1>1, <1>8 DEF TestInv, LastAnswer, LastRefusal
<1> QED BY <1>4, <1>5, <1>6, <1>7, <1>9 DEF TestInv

-----------------------------------------------------------------------------
(* The end of an attempt. *)

LEMMA NothingOpen ==
  ASSUME TestInv, AllDone
  PROVE  \A c \in Callers : client[c] # "open"
BY DEF TestInv, AllDone, Position, OpenClients

LEMMA AttemptEnds ==
  ASSUME TestInv, AllDone, UNCHANGED <<test, callVars, expired, timer, window, sinceUse,
                                       sinceRefusal, lasted>>,
         phase' \in {"retrying", "pausing", "cleaning"}, tries' \in 1..TestTries,
         results' \in 0..Len(Suite), clock' \in Nat \union {Off}, loadClock' = Off,
         phase' = "pausing" => test < Len(Suite),
         results' = (IF phase' = "retrying" THEN test - 1 ELSE test),
         phase' = "retrying" => clock' \in Nat /\ clock' >= Minute
  PROVE  TestInv'
<1>1. UNCHANGED <<test, step, at, attempt, client, verdict, expired, timer, window, sinceUse,
                  sinceRefusal, lasted>>
      /\ Taking' = Taking /\ Current' = Current /\ (LoadSeen' <=> LoadSeen)
  BY DEF callVars, Taking, Current, LoadSeen
<1>2. TestRunTypeOK'
  BY <1>1 DEF TestInv, TestRunTypeOK, SuiteTypes, Phases, CallerTypes, TimeTypes
<1>3. Position'
  BY <1>1 DEF TestInv, Position, AllDone, Resting
<1>4. WallClock'
  BY DEF WallClock
<1>5. OpenClients'
  BY <1>1, NothingOpen DEF OpenClients
<1>6. at[1] = "done"
  BY Participants DEF AllDone
<1>7. LastAnswer'
  BY <1>1, <1>6 DEF TestInv, LastAnswer
<1>8. LastRefusal'
  <2>1. sinceRefusal \in Nat /\ Minute \in Nat
    BY Bounds DEF TestInv, TestRunTypeOK, TimeTypes
  <2>2. phase' = "retrying" => clock' + sinceRefusal >= Minute
    BY <2>1, SumsGrow
  <2>3. ~LoadSeen' => sinceRefusal' <= Minute
    BY <1>1 DEF TestInv, LastRefusal
  <2>4. phase' \notin {"starting", "running"} /\ sinceRefusal' = sinceRefusal
    BY <1>1
  <2> QED BY <2>2, <2>3, <2>4 DEF LastRefusal
<1> QED BY <1>2, <1>3, <1>4, <1>5, <1>7, <1>8 DEF TestInv

LEMMA RetryKeepsInv == ASSUME TestInv, Retry PROVE TestInv'
<1>1. tries \in 1..TestTries /\ results = test - 1 /\ results \in 0..Len(Suite)
  BY DEF Retry, TestInv, TestRunTypeOK, SuiteTypes, Position
<1>2. tries \in Nat \ {0} /\ tries + 1 \in 1..TestTries
  BY <1>1, Bounds DEF Retry
<1>3. TestRetryWait(tries) \in Nat /\ TestRetryWait(tries) >= Minute
  BY <1>2, RetryLength
<1>4. /\ AllDone /\ phase' = "retrying" /\ tries' = tries + 1 /\ clock' = TestRetryWait(tries)
      /\ loadClock' = Off /\ results' = results
      /\ UNCHANGED <<test, callVars, expired, timer, window, sinceUse, sinceRefusal, lasted>>
  BY DEF Retry
<1> QED BY <1>1, <1>2, <1>3, <1>4, AttemptEnds

LEMMA SettleKeepsInv == ASSUME TestInv, Settle PROVE TestInv'
<1>1. /\ AllDone /\ phase = "running" /\ loadClock' = Off /\ results' = results + 1
      /\ tries' = tries
      /\ phase' = IF test = Len(Suite) THEN "cleaning" ELSE "pausing"
      /\ clock' = IF test = Len(Suite) THEN Off ELSE Pause
      /\ UNCHANGED <<test, callVars, expired, timer, window, sinceUse, sinceRefusal, lasted>>
  BY DEF Settle
<1>2. test \in Nat \ {0} /\ test <= Len(Suite) /\ Len(Suite) \in Nat /\ tries \in 1..TestTries
  BY SuiteTyped DEF TestInv, TestRunTypeOK, SuiteTypes
<1>3. results = test - 1
  BY <1>1 DEF TestInv, Position
<1>4. results' = test /\ test \in 0..Len(Suite)
  BY <1>1, <1>2, <1>3
<1>5. clock' \in Nat \union {Off}
  BY <1>1, Bounds
<1>6. phase' = "pausing" => test < Len(Suite)
  BY <1>1, <1>2
<1>7. phase' \in {"pausing", "cleaning"}
  BY <1>1
<1> QED BY <1>1, <1>2, <1>4, <1>5, <1>6, <1>7, AttemptEnds

LEMMA TryAgainKeepsInv == ASSUME TestInv, TryAgain PROVE TestInv'
<1>1. /\ Fresh /\ phase = "retrying" /\ clock = 0 /\ phase' = "running"
      /\ UNCHANGED <<test, tries, results, window, sinceUse, sinceRefusal>>
  BY DEF TryAgain
<1>2. test \in DOMAIN Suite /\ tries \in 1..TestTries /\ results = test - 1
  BY <1>1 DEF TestInv, TestRunTypeOK, SuiteTypes, Position
<1>3. sinceRefusal \in Nat /\ Minute \in Nat
  BY Bounds DEF TestInv, TestRunTypeOK, TimeTypes
<1>4. ~LoadSeen => sinceRefusal = Minute
  BY <1>1, <1>3 DEF TestInv, LastRefusal
<1>5. LoadSeen' <=> LoadSeen
  BY <1>1 DEF LoadSeen
<1> QED BY <1>1, <1>2, <1>3, <1>4, <1>5, FreshStep

LEMMA NextTestKeepsInv == ASSUME TestInv, NextTest PROVE TestInv'
<1>1. /\ Fresh /\ phase = "pausing" /\ clock = 0 /\ phase' = "running" /\ test' = test + 1
      /\ tries' = 1 /\ sinceRefusal' = Minute /\ UNCHANGED <<results, window, sinceUse>>
  BY DEF NextTest, Long
<1>2. test \in Nat \ {0} /\ Len(Suite) \in Nat /\ test < Len(Suite) /\ results = test
  BY <1>1, SuiteTyped DEF TestInv, TestRunTypeOK, SuiteTypes, Position
<1>3. test' \in Nat \ {0} /\ test' <= Len(Suite) /\ results' = test' - 1 /\ 1..test \subseteq 1..test'
  BY <1>1, <1>2
<1>4. test' \in DOMAIN Suite
  BY <1>2, <1>3, TestRunAssumption
<1>5. ~LoadSeen' => ~LoadSeen
  BY <1>3 DEF LoadSeen
<1>6. tries' \in 1..TestTries /\ sinceRefusal' \in Nat
  BY <1>1, Bounds
<1> QED BY <1>1, <1>3, <1>4, <1>5, <1>6, FreshStep

-----------------------------------------------------------------------------
(* The beginning of the suite, and what ends it. *)

LEMMA InitializedKeepsInv == ASSUME TestInv, Initialized PROVE TestInv'
<1>1. /\ phase = "starting" /\ phase' = "running"
      /\ UNCHANGED <<test, tries, results, step, at, attempt, client, verdict, expired, clock,
                     loadClock, timer, window, sinceUse, sinceRefusal, lasted>>
  BY DEF Initialized, timeVars, callVars
<1>2. /\ Taking' = Taking /\ Limit' = Limit /\ Current' = Current /\ (LoadSeen' <=> LoadSeen)
      /\ \A c \in Callers : Struck(c)' <=> Struck(c)
  BY <1>1 DEF Taking, Limit, Current, LoadSeen, Struck
<1>3. TestRunTypeOK'
  BY <1>1 DEF TestInv, TestRunTypeOK, SuiteTypes, Phases, CallerTypes, TimeTypes
<1>4. Position' /\ OpenClients'
  BY <1>1, <1>2 DEF TestInv, Position, OpenClients
<1>5. WallClock'
  BY <1>1, <1>2, Participants DEF TestInv, WallClock
<1>6. LastAnswer' /\ LastRefusal'
  BY <1>1, <1>2 DEF TestInv, LastAnswer, LastRefusal
<1> QED BY <1>3, <1>4, <1>5, <1>6 DEF TestInv

LEMMA EndKeepsInv ==
  ASSUME TestInv, Resting, UNCHANGED <<test, tries, results, callVars, expired, timer, window,
                                       sinceUse, sinceRefusal, lasted>>,
         phase' \in {"unwinding", "lost", "ended"}, phase' = "ended" => results = test,
         clock' \in Nat \union {Off}, loadClock' \in Nat \union {Off}
  PROVE  TestInv'
<1>1. UNCHANGED <<test, tries, results, step, at, attempt, client, verdict, expired, timer, window,
                  sinceUse, sinceRefusal, lasted>>
      /\ Taking' = Taking /\ Current' = Current /\ (LoadSeen' <=> LoadSeen)
  BY DEF callVars, Taking, Current, LoadSeen
<1>2. TestRunTypeOK'
  BY <1>1 DEF TestInv, TestRunTypeOK, SuiteTypes, Phases, CallerTypes, TimeTypes
<1>3. Position'
  BY <1>1 DEF TestInv, Position, Resting
<1>4. WallClock'
  BY DEF WallClock
<1>5. OpenClients'
  BY <1>1 DEF TestInv, OpenClients, Resting
<1>6. LastAnswer' /\ LastRefusal'
  BY <1>1 DEF TestInv, LastAnswer, LastRefusal
<1> QED BY <1>2, <1>3, <1>4, <1>5, <1>6 DEF TestInv

LEMMA EndStepKeepsInv ==
  ASSUME TestInv, InitializeFailed \/ LoadRaised \/ CleanedUp \/ CleanupFailed
  PROVE  TestInv'
<1>1. /\ UNCHANGED <<test, tries, results, callVars, expired, timer, window, sinceUse, sinceRefusal,
                     lasted>>
      /\ phase' \in {"unwinding", "lost", "ended"}
      /\ phase' = "ended" => phase = "cleaning"
  BY DEF InitializeFailed, LoadRaised, CleanedUp, CleanupFailed, timeVars
<1>2. clock' \in Nat \union {Off} /\ loadClock' \in Nat \union {Off}
  BY DEF InitializeFailed, LoadRaised, CleanedUp, CleanupFailed, timeVars, TestInv, TestRunTypeOK,
         TimeTypes
<1>3. Resting
  <2>1. CASE LoadRaised
    <3>1. AllDone \/ \A c \in Callers : at[c] = "idle"
      BY <2>1 DEF LoadRaised
    <3> QED BY <3>1 DEF Resting, AllDone, TestInv, Position
  <2>2. CASE phase # "running"
    BY <2>2 DEF TestInv, Position
  <2> QED BY <2>1, <2>2 DEF InitializeFailed, CleanedUp, CleanupFailed
<1>4. phase' = "ended" => results = test
  BY <1>1 DEF TestInv, Position
<1> QED BY <1>1, <1>2, <1>3, <1>4, EndKeepsInv

(* An entry of a teardown that raises in the finally block. *)
LEMMA HookRaisedFacts ==
  ASSUME TestInv, NEW c \in Callers, HookRaised(c)
  PROVE  /\ at[c] = "tearing" /\ phase = "running" /\ c \in Taking
         /\ UNCHANGED <<test, tries, results, step, attempt, verdict, expired, window, sinceUse,
                        sinceRefusal, lasted>>
         /\ at' = [at EXCEPT ![c] = "done"] /\ timer' = [timer EXCEPT ![c] = 0]
         /\ client' = [client EXCEPT ![c] = IF @ = "open" THEN "cut off" ELSE @]
         /\ \/ UNCHANGED <<phase, clock, loadClock>>
            \/ phase' = "unwinding" /\ Taking = {1} /\ clock' = Off /\ loadClock' = Off
         /\ Taking' = Taking /\ Limit' = Limit /\ Current' = Current /\ (LoadSeen' <=> LoadSeen)
<1>1. /\ at[c] = "tearing"
      /\ UNCHANGED <<test, tries, results, step, attempt, verdict, expired, window, sinceUse,
                     sinceRefusal, lasted>>
      /\ at' = [at EXCEPT ![c] = "done"] /\ timer' = [timer EXCEPT ![c] = 0]
      /\ client' = [client EXCEPT ![c] = IF @ = "open" THEN "cut off" ELSE @]
  BY DEF HookRaised, Goto
<1>2. phase = "running" /\ c \in Taking
  BY <1>1 DEF TestInv, Position, Resting
<1>3. \/ UNCHANGED <<phase, clock, loadClock>>
      \/ phase' = "unwinding" /\ Taking = {1} /\ clock' = Off /\ loadClock' = Off
  BY DEF HookRaised, Taking
<1> QED BY <1>1, <1>2, <1>3 DEF Taking, Limit, Current, LoadSeen

LEMMA HookKeepsInv == ASSUME TestInv, NEW c \in Callers, HookRaised(c) PROVE TestInv'
<1>1. /\ at[c] = "tearing" /\ phase = "running" /\ c \in Taking
      /\ UNCHANGED <<test, tries, results, step, attempt, verdict, expired, window, sinceUse,
                     sinceRefusal, lasted>>
      /\ at' = [at EXCEPT ![c] = "done"] /\ timer' = [timer EXCEPT ![c] = 0]
      /\ client' = [client EXCEPT ![c] = IF @ = "open" THEN "cut off" ELSE @]
      /\ Taking' = Taking /\ Limit' = Limit /\ Current' = Current /\ (LoadSeen' <=> LoadSeen)
  BY HookRaisedFacts
<1>2. \/ UNCHANGED <<phase, clock, loadClock>>
      \/ phase' = "unwinding" /\ Taking = {1} /\ clock' = Off /\ loadClock' = Off
  BY HookRaisedFacts
<1>u. phase' = "unwinding" => \A d \in Taking : d = c
  <2> SUFFICES ASSUME phase' = "unwinding" PROVE \A d \in Taking : d = c
    OBVIOUS
  <2>1. Taking = {1} /\ c \in Taking
    BY <1>1, <1>2
  <2> QED BY <2>1
<1>t. /\ at \in [Callers -> Pcs] /\ timer \in [Callers -> Nat]
      /\ client \in [Callers -> {"none", "open", "closed", "cut off"}]
  BY CallerTyped
<1>3. /\ at'[c] = "done" /\ client'[c] # "open"
      /\ \A d \in Callers \ {c} : at'[d] = at[d] /\ timer'[d] = timer[d] /\ client'[d] = client[d]
  BY <1>1, <1>t
<1>4. TestRunTypeOK'
  <2>1. SuiteTypes'
    BY <1>1, <1>2 DEF TestInv, TestRunTypeOK, SuiteTypes, Phases
  <2>2. CallerTypes'
    BY <1>1, <1>t DEF TestInv, TestRunTypeOK, CallerTypes, Pcs
  <2>3. TimeTypes'
    BY <1>1, <1>2, <1>t DEF TestInv, TestRunTypeOK, TimeTypes
  <2> QED BY <2>1, <2>2, <2>3 DEF TestRunTypeOK
<1>5. Position'
  <2>1. phase' = "unwinding" => Resting'
    <3> SUFFICES ASSUME phase' = "unwinding", NEW d \in Callers PROVE at'[d] \in {"idle", "done"}
      BY DEF Resting
    <3>1. d # c => d \notin Taking
      BY <1>u
    <3> QED BY <1>3, <3>1 DEF TestInv, Position
  <2>2. \A d \in Callers \ Taking : at'[d] = "idle"
    BY <1>1, <1>3 DEF TestInv, Position
  <2>3. \A d \in Callers : at'[d] = "backing" => attempt'[d] < LlmTries
    BY <1>1, <1>3 DEF TestInv, Position
  <2> QED BY <1>1, <1>2, <2>1, <2>2, <2>3 DEF TestInv, Position
<1>6. WallClock'
  <2>1. CASE phase' = "unwinding"
    BY <2>1 DEF WallClock
  <2>2. CASE UNCHANGED <<phase, clock, loadClock>>
    <3>1. \A d \in Taking : Struck(d) => Struck(d)'
      BY <1>1, <1>3, Participants DEF Struck
    <3> QED BY <1>1, <2>2, <3>1 DEF TestInv, WallClock
  <2> QED BY <1>2, <2>1, <2>2
<1>7. OpenClients'
  <2> SUFFICES ASSUME NEW d \in Callers, client'[d] = "open"
               PROVE  Current.kind # "multi" /\ at'[d] \notin {"idle", "done"} /\ phase' = "running"
    BY <1>1 DEF OpenClients
  <2>1. d # c /\ client[d] = "open" /\ at'[d] = at[d]
    BY <1>3
  <2>2. Current.kind # "multi" /\ at[d] \notin {"idle", "done"}
    BY <2>1 DEF TestInv, OpenClients
  <2>3. d \in Taking
    BY <2>2 DEF TestInv, Position
  <2>4. phase' = "running"
    BY <1>1, <1>2, <1>u, <2>1, <2>3
  <2> QED BY <1>1, <2>1, <2>2, <2>4
<1>8. \/ at'[1] = "done"
      \/ at'[1] = at[1] /\ timer'[1] = timer[1]
  BY <1>3, Bounds
<1>9. LastAnswer' /\ LastRefusal'
  BY <1>1, <1>2, <1>8 DEF TestInv, LastAnswer, LastRefusal
<1> QED BY <1>4, <1>5, <1>6, <1>7, <1>9 DEF TestInv

-----------------------------------------------------------------------------
(* Time passes. *)

LEMMA TickKeepsInv == ASSUME TestInv, Tick PROVE TestInv'
<1>1. /\ UNCHANGED <<test, phase, tries, results, step, at, attempt, client, verdict, expired>>
      /\ Taking' = Taking /\ Limit' = Limit /\ Current' = Current /\ (LoadSeen' <=> LoadSeen)
  BY DEF Tick, suiteVars, callVars, Taking, Limit, Current, LoadSeen
<1>2. /\ clock' = Down(clock) /\ loadClock' = Down(loadClock) /\ clock # 0
      /\ timer' = [c \in Callers |-> Down(timer[c])]
      /\ window' = {age + 1 : age \in window} \ {Minute}
      /\ sinceUse' = Up(sinceUse) /\ sinceRefusal' = Up(sinceRefusal) /\ lasted' = lasted + 1
  BY DEF Tick, Idle
<1>a. phase # "starting" /\ phase' # "starting"
  BY <1>1 DEF Tick, Idle
<1>3. phase = "running" =>
        ~AllDone /\ \A c \in Callers : Sleeping(c) => timer[c] > 0
  BY DEF Tick, Idle
<1>4. /\ clock \in Nat \union {Off} /\ loadClock \in Nat \union {Off}
      /\ timer \in [Callers -> Nat] /\ window \subseteq 0..Minute - 1
      /\ sinceUse \in Nat /\ sinceRefusal \in Nat /\ lasted \in Nat /\ Minute \in Nat \ {0}
  BY Bounds DEF TestInv, TestRunTypeOK, TimeTypes
<1>5. TestRunTypeOK'
  <2>1. SuiteTypes' /\ CallerTypes'
    BY <1>1 DEF TestInv, TestRunTypeOK, SuiteTypes, CallerTypes
  <2>2. clock' \in Nat \union {Off} /\ loadClock' \in Nat \union {Off}
    BY <1>2, <1>4 DEF Down, Off
  <2>3. timer' \in [Callers -> Nat]
    <3>1. \A c \in Callers : Down(timer[c]) \in Nat
      BY <1>4 DEF Down
    <3> QED BY <1>2, <3>1
  <2>4. window' \subseteq 0..Minute - 1
    <3> SUFFICES ASSUME NEW x \in window' PROVE x \in 0..Minute - 1
      OBVIOUS
    <3>1. PICK age \in window : x = age + 1 /\ x # Minute
      BY <1>2
    <3>2. age \in 0..Minute - 1
      BY <1>4
    <3> QED BY <1>4, <3>1, <3>2
  <2>5. sinceUse' \in Nat /\ sinceRefusal' \in Nat /\ lasted' \in Nat
    BY <1>2, <1>4 DEF Up, Long
  <2> QED BY <2>1, <2>2, <2>3, <2>4, <2>5 DEF TestRunTypeOK, TimeTypes
<1>6. Position'
  BY <1>1 DEF TestInv, Position, AllDone, Resting
<1>7. WallClock'
  <2> SUFFICES ASSUME phase = "running" PROVE WallClock'
    BY <1>1, <1>a DEF WallClock
  <2>1. lasted \in Nat /\ Limit \in Nat /\ Grace \in Nat
    BY SuiteTyped, Bounds DEF TestInv, TestRunTypeOK, SuiteTypes, TimeTypes, Limit, Current
  <2>2. CASE clock # Off
    <3>1. lasted + clock = Limit /\ clock \in Nat \ {0}
      BY <1>2, <1>4, <2>2 DEF TestInv, WallClock
    <3>2. clock' = clock - 1
      BY <1>2, <3>1 DEF Down
    <3>3. clock' # Off /\ lasted' + clock' = Limit
      BY <1>2, <2>1, <3>1, <3>2 DEF Off
    <3> QED BY <1>1, <3>3 DEF WallClock
  <2>3. CASE clock = Off
    <3>1. \A c \in Taking : Struck(c)
      BY <2>3 DEF TestInv, WallClock
    <3>2. clock' = Off
      BY <1>2, <2>3 DEF Down, Off
    <3>3. ASSUME NEW c \in Taking, at[c] # "done"
          PROVE  /\ timer[c] \in Nat \ {0} /\ timer'[c] = timer[c] - 1
                 /\ at[c] \in {"tearing", "closing"}
      <4>1. c \in Callers
        BY Participants
      <4>2. at[c] \in {"tearing", "closing"}
        BY <3>1, <3>3 DEF Struck
      <4>3. timer[c] > 0 /\ timer[c] \in Nat
        BY <1>3, <1>4, <4>1, <4>2 DEF Sleeping
      <4>4. timer'[c] = timer[c] - 1
        BY <1>2, <4>1, <4>3 DEF Down
      <4> QED BY <4>2, <4>3, <4>4
    <3>4. \A c \in Taking : Struck(c)'
      <4> SUFFICES ASSUME NEW c \in Taking PROVE Struck(c)'
        OBVIOUS
      <4>1. CASE at[c] = "done"
        BY <1>1, <4>1 DEF Struck
      <4>2. CASE at[c] # "done"
        <5>1. lasted' + timer'[c] = lasted + timer[c]
          <6>1. timer[c] \in Nat /\ timer'[c] = timer[c] - 1 /\ lasted' = lasted + 1
            BY <1>2, <3>3, <4>2
          <6> QED BY <2>1, <6>1
        <5>2. Struck(c) /\ at'[c] = at[c] /\ Limit' = Limit
          BY <1>1, <3>1
        <5> QED BY <4>2, <5>1, <5>2 DEF Struck
      <4> QED BY <4>1, <4>2
    <3>5. lasted' <= Limit + 2 * Grace
      <4>1. PICK c \in Taking : at[c] # "done"
        BY <1>3 DEF AllDone
      <4>2. lasted + timer[c] <= Limit + Grace \/ lasted + timer[c] <= Limit + 2 * Grace
        BY <3>1, <4>1 DEF Struck
      <4>3. timer[c] \in Nat \ {0}
        BY <3>3, <4>1
      <4> QED BY <1>2, <2>1, <4>2, <4>3
    <3> QED BY <1>1, <3>2, <3>4, <3>5 DEF WallClock
  <2> QED BY <2>2, <2>3
<1>8. OpenClients'
  BY <1>1 DEF TestInv, OpenClients
<1>9. LastAnswer' /\ LastRefusal'
  <2> SUFFICES ASSUME ~LoadSeen PROVE LastAnswer' /\ LastRefusal'
    BY <1>1 DEF LastAnswer, LastRefusal
  <2>1. sinceUse <= Minute /\ sinceRefusal <= Minute
    BY DEF TestInv, LastAnswer, LastRefusal
  <2>2. /\ sinceUse' <= Minute /\ sinceUse' >= sinceUse
        /\ sinceUse < Minute => sinceUse' = sinceUse + 1
        /\ sinceUse = Minute => sinceUse' = Minute
    BY <1>2, <1>4, <2>1 DEF Up, Long
  <2>3. /\ sinceRefusal' <= Minute /\ sinceRefusal' >= sinceRefusal
        /\ sinceRefusal < Minute => sinceRefusal' = sinceRefusal + 1
        /\ sinceRefusal = Minute => sinceRefusal' = Minute
    BY <1>2, <1>4, <2>1 DEF Up, Long
  <2>4. /\ sinceUse' < Minute => window' = {sinceUse'}
        /\ sinceUse' = Minute => window' = {}
    <3>1. CASE sinceUse < Minute
      <4>1. window = {sinceUse}
        BY <3>1 DEF TestInv, LastAnswer
      <4>2. window' = {sinceUse + 1} \ {Minute}
        BY <1>2, <4>1
      <4> QED BY <1>4, <2>2, <3>1, <4>2
    <3>2. CASE sinceUse = Minute
      <4>1. window = {}
        BY <3>2 DEF TestInv, LastAnswer
      <4>2. window' = {}
        BY <1>2, <4>1
      <4> QED BY <1>4, <2>2, <3>2, <4>2
    <3> QED BY <1>4, <2>1, <3>1, <3>2
  <2>5. at[1] \in {"waiting", "backing"} =>
          phase = "running" /\ timer[1] \in Nat \ {0} /\ timer'[1] = timer[1] - 1
    <3> SUFFICES ASSUME at[1] \in {"waiting", "backing"}
                 PROVE  phase = "running" /\ timer[1] \in Nat \ {0} /\ timer'[1] = timer[1] - 1
      OBVIOUS
    <3>1. phase = "running"
      BY Bounds DEF TestInv, Position, Resting
    <3>2. timer[1] > 0 /\ timer[1] \in Nat
      BY <1>3, <1>4, <3>1, Bounds DEF Sleeping
    <3> QED BY <1>2, <3>1, <3>2, Bounds DEF Down
  <2>6. at[1] = "waiting" => timer'[1] + sinceUse' >= Minute
    <3> SUFFICES ASSUME at[1] = "waiting" PROVE timer'[1] + sinceUse' >= Minute
      OBVIOUS
    <3>1. timer[1] + sinceUse >= Minute
      BY DEF TestInv, LastAnswer
    <3> QED BY <1>4, <2>1, <2>2, <2>5, <3>1
  <2>7. at[1] = "backing" => timer'[1] + sinceRefusal' >= Minute
    <3> SUFFICES ASSUME at[1] = "backing" PROVE timer'[1] + sinceRefusal' >= Minute
      OBVIOUS
    <3>1. timer[1] + sinceRefusal >= Minute
      BY <2>5 DEF TestInv, LastRefusal
    <3> QED BY <1>4, <2>1, <2>3, <2>5, <3>1
  <2>8. LastAnswer'
    <3>1. at[1] \in {"calling", "backing"} => sinceUse' = Minute
      BY <2>2 DEF TestInv, LastAnswer
    <3> QED BY <1>1, <2>2, <2>4, <2>6, <3>1 DEF LastAnswer
  <2>9. LastRefusal'
    <3>1. sinceRefusal >= sinceUse => sinceRefusal' >= sinceUse'
      BY <1>4, <2>1, <2>2, <2>3
    <3>2. phase = "retrying" => clock' + sinceRefusal' >= Minute
      <4> SUFFICES ASSUME phase = "retrying" PROVE clock' + sinceRefusal' >= Minute
        OBVIOUS
      <4>1. clock + sinceRefusal >= Minute
        BY DEF TestInv, LastRefusal
      <4> QED BY <1>2, <1>4, <2>1, <2>3, <4>1 DEF Down, Off
    <3>3. phase = "running" =>
            (at[1] \in {"idle", "connecting", "limiting", "waiting", "calling", "working"} =>
               sinceRefusal' >= sinceUse')
      BY <3>1 DEF TestInv, LastRefusal
    <3> QED BY <1>1, <1>a, <2>3, <2>7, <3>2, <3>3 DEF LastRefusal
  <2> QED BY <2>8, <2>9
<1> QED BY <1>5, <1>6, <1>7, <1>8, <1>9 DEF TestInv

-----------------------------------------------------------------------------
(* The theorems. *)

LEMMA CancelStep ==
  ASSUME TestInv, Strike \/ LoadExpires
  PROVE  /\ CancelAll /\ phase = "running" /\ expired' \in {"nothing", "test", "load"}
         /\ loadClock' \in {loadClock, Off}
         /\ clock' = clock \/ (clock = 0 /\ clock' = Off)
BY DEF Strike, LoadExpires

LEMMA TestStep == TestInv /\ [TestRunNext]_testVars => TestInv'
<1> SUFFICES ASSUME TestInv, [TestRunNext]_testVars PROVE TestInv'
  OBVIOUS
<1>1. ASSUME NEW c \in Callers, CallerNext(c) PROVE TestInv'
  BY <1>1, CallerKeepsInv
<1>2. CASE Strike \/ LoadExpires
  BY <1>2, CancelStep, CancelKeepsInv
<1>3. CASE Retry
  BY <1>3, RetryKeepsInv
<1>4. CASE Settle
  BY <1>4, SettleKeepsInv
<1>5. CASE TryAgain
  BY <1>5, TryAgainKeepsInv
<1>6. CASE NextTest
  BY <1>6, NextTestKeepsInv
<1>7. CASE Tick
  BY <1>7, TickKeepsInv
<1>8. CASE UNCHANGED testVars
  <2>1. UNCHANGED <<test, phase, tries, clock, loadClock, expired, step, at, timer, attempt, client,
                    verdict, window, results, sinceUse, sinceRefusal, lasted>>
    BY <1>8 DEF testVars, timeVars, suiteVars, callVars
  <2>2. TestRunTypeOK'
    BY <2>1 DEF TestInv, TestRunTypeOK, SuiteTypes, CallerTypes, TimeTypes
  <2>3. /\ Taking' = Taking /\ Limit' = Limit /\ Current' = Current /\ (AllDone' <=> AllDone)
        /\ (Resting' <=> Resting)
        /\ (LoadSeen' <=> LoadSeen) /\ \A c \in Callers : Struck(c)' <=> Struck(c)
    BY <2>1 DEF Taking, Limit, Current, AllDone, Resting, LoadSeen, Struck
  <2>4. Position' /\ OpenClients'
    BY <2>1, <2>3 DEF TestInv, Position, OpenClients
  <2>5. WallClock'
    BY <2>1, <2>3, Participants DEF TestInv, WallClock
  <2>6. LastAnswer' /\ LastRefusal'
    BY <2>1, <2>3 DEF TestInv, LastAnswer, LastRefusal
  <2> QED BY <2>2, <2>4, <2>5, <2>6 DEF TestInv
<1>9. ASSUME NEW c \in Callers, HookRaised(c) PROVE TestInv'
  BY <1>9, HookKeepsInv
<1>10. CASE Initialized
  BY <1>10, InitializedKeepsInv
<1>11. CASE InitializeFailed \/ LoadRaised \/ CleanedUp \/ CleanupFailed
  BY <1>11, EndStepKeepsInv
<1> QED BY <1>1, <1>2, <1>3, <1>4, <1>5, <1>6, <1>7, <1>8, <1>9, <1>10, <1>11
        DEF TestRunNext, CallerNext, Done

(* The invariant the other theorems follow from. *)
THEOREM TestInvariant == TestRunSpec => []TestInv
<1> QED BY InitTest, TestStep, PTL DEF TestRunSpec

(* No attempt outlives its wall clock by more than two clean-ups, however  *)
(* long the provider, the limiter or the back-off would have made it wait. *)
THEOREM WallClockHolds == TestRunSpec => []NoTestOverruns
<1>1. TestInv => NoTestOverruns
  <2> SUFFICES ASSUME TestInv, phase = "running" PROVE lasted <= Limit + 2 * Grace
    BY DEF NoTestOverruns
  <2>1. CASE clock = Off
    BY <2>1 DEF TestInv, WallClock
  <2>2. CASE clock # Off
    <3>1. lasted + clock = Limit
      BY <2>2 DEF TestInv, WallClock
    <3>2. lasted \in Nat /\ clock \in Nat /\ Grace \in Nat
      BY <2>2, Bounds DEF TestInv, TestRunTypeOK, TimeTypes
    <3> HIDE DEF Limit
    <3>3. lasted <= lasted + clock + 2 * Grace
      BY <3>2
    <3> QED BY <3>1, <3>3
  <2> QED BY <2>1, <2>2
<1> QED BY <1>1, TestInvariant, PTL

(* What a caller that is about to send has behind it. *)
LEMMA Sending ==
  ASSUME TestInv, [TestRunNext]_testVars, NEW c \in Callers, Sends(c), ~LoadSeen
  PROVE  sinceUse >= Minute /\ sinceRefusal >= Minute
<1>1. at'[c] = "calling" /\ at[c] # "calling"
  BY DEF Sends
<1>2. ASSUME NEW d \in Callers, CallerNext(d) PROVE sinceUse >= Minute /\ sinceRefusal >= Minute
  <2>1. c = d
    BY <1>1, <1>2, CallerIsAlone DEF Alone
  <2>2. GoesOn(c) /\ phase = "running" /\ c \in Taking
    BY <1>1, <1>2, <2>1, CallerMoves, CallerTakesPart DEF GetsAnswer, GetsRefused
  <2>3. c = 1
    <3>1. Current.kind = "load" => LoadSeen
      BY SuiteTyped DEF Current, LoadSeen, TestInv, TestRunTypeOK, SuiteTypes
    <3> QED BY <2>2, <3>1 DEF Taking
  <2>4. (at[1] = "limiting" /\ window = {}) \/ (at[1] = "waiting" /\ timer[1] = 0)
    BY <1>1, <2>2, <2>3 DEF GoesOn
  <2>5. sinceUse \in Nat /\ Minute \in Nat /\ sinceRefusal \in Nat
    BY CallerTyped, Bounds
  <2>6. sinceUse = Minute
    BY <2>4, <2>5 DEF TestInv, LastAnswer
  <2>7. sinceRefusal >= sinceUse
    BY <2>2, <2>4 DEF TestInv, LastRefusal
  <2> QED BY <2>5, <2>6, <2>7
<1>3. CASE Strike \/ LoadExpires
  <2>1. c \in Taking
    BY <1>1, <1>3, CancelStep DEF CancelAll
  <2> QED BY <1>1, <1>3, <2>1, CancelStep, CancelledCaller
<1>4. CASE TryAgain \/ NextTest
  BY <1>1, <1>4 DEF TryAgain, NextTest, Fresh
<1>5. CASE Retry \/ Settle \/ Tick \/ UNCHANGED testVars
  BY <1>1, <1>5 DEF Retry, Settle, Tick, testVars, callVars
<1>6. CASE Initialized \/ InitializeFailed \/ LoadRaised \/ CleanedUp \/ CleanupFailed
  BY <1>1, <1>6 DEF Initialized, InitializeFailed, LoadRaised, CleanedUp, CleanupFailed, callVars
<1>7. ~\E d \in Callers : HookRaised(d)
  <2> SUFFICES ASSUME NEW d \in Callers, HookRaised(d) PROVE FALSE
    OBVIOUS
  <2>1. at' = [at EXCEPT ![d] = "done"] /\ at \in [Callers -> Pcs]
    BY HookRaisedFacts, CallerTyped
  <2> QED BY <1>1, <2>1
<1> QED BY <1>2, <1>3, <1>4, <1>5, <1>6, <1>7 DEF TestRunNext, CallerNext, Done

(* Until a load test ran, requests are a minute away from the last answer. *)
THEOREM RequestsAreSpaced == TestRunSpec => RequestsSpaced
<1>1. TestInv /\ [TestRunNext]_testVars =>
        [\A c \in Callers : Sends(c) /\ ~LoadSeen => sinceUse >= Minute]_testVars
  BY Sending
<1> QED BY <1>1, TestInvariant, PTL DEF TestRunSpec, RequestsSpaced

(* ... and from the last refusal, whether the request or the test is       *)
(* repeated because of it.                                                 *)
THEOREM RefusalsAreRespected == TestRunSpec => RefusalsRespected
<1>1. TestInv /\ [TestRunNext]_testVars =>
        [\A c \in Callers : Sends(c) /\ ~LoadSeen => sinceRefusal >= Minute]_testVars
  BY Sending
<1> QED BY <1>1, TestInvariant, PTL DEF TestRunSpec, RefusalsRespected

(* A test's own client is closed before the next test or attempt, unless a *)
(* timeout struck its finally block or an entry of its hooks raised there. *)
THEOREM TestClientsAreClosed == TestRunSpec => TestClientsClosed
<1>1. ASSUME TestInv, TestInv', [TestRunNext]_testVars, NEW c \in Callers
      PROVE  /\ phase' # "running" => client'[c] # "open"
             /\ client[c] = "open" /\ client'[c] = "cut off" => at[c] \in {"tearing", "closing"}
  <2>1. phase' # "running" => client'[c] # "open"
    BY <1>1 DEF TestInv, OpenClients
  <2> SUFFICES ASSUME client[c] = "open", client'[c] = "cut off"
               PROVE  at[c] \in {"tearing", "closing"}
    BY <2>1
  <2>2. ASSUME NEW d \in Callers, CallerNext(d) PROVE FALSE
    BY <1>1, <2>2, CallerIsAlone, CallerMoves DEF Alone, Moves
  <2>3. CASE Strike \/ LoadExpires
    <3>1. CancelAll
      BY <1>1, <2>3, CancelStep
    <3>2. c \in Taking
      BY <1>1 DEF TestInv, Position, OpenClients
    <3> QED BY <1>1, <3>1, <3>2, CancelledCaller
  <2>4. CASE TryAgain \/ NextTest
    BY <2>4 DEF TryAgain, NextTest, Fresh
  <2>5. CASE Retry \/ Settle \/ Tick \/ UNCHANGED testVars
    BY <2>5 DEF Retry, Settle, Tick, testVars, callVars
  <2>6. CASE Initialized \/ InitializeFailed \/ LoadRaised \/ CleanedUp \/ CleanupFailed
    BY <2>6 DEF Initialized, InitializeFailed, LoadRaised, CleanedUp, CleanupFailed, callVars
  <2>7. ASSUME NEW d \in Callers, HookRaised(d) PROVE at[c] \in {"tearing", "closing"}
    <3>1. /\ at[d] = "tearing"
          /\ client' = [client EXCEPT ![d] = IF @ = "open" THEN "cut off" ELSE @]
          /\ client \in [Callers -> {"none", "open", "closed", "cut off"}]
      BY <1>1, <2>7, HookRaisedFacts, CallerTyped
    <3>2. c = d
      BY <3>1
    <3> QED BY <3>1, <3>2
  <2> QED BY <1>1, <2>2, <2>3, <2>4, <2>5, <2>6, <2>7 DEF TestRunNext, CallerNext, Done
<1>2. TestInv /\ TestInv' /\ [TestRunNext]_testVars =>
        [\A c \in Callers :
           /\ phase' # "running" => client'[c] # "open"
           /\ client[c] = "open" /\ client'[c] = "cut off" =>
                at[c] \in {"tearing", "closing"}]_testVars
  BY <1>1
<1> QED BY <1>2, TestInvariant, PTL DEF TestRunSpec, TestClientsClosed
=============================================================================
