------------------------ MODULE StreamHistory_proofs ------------------------
(***************************************************************************)
(* Theorems about the two ways to follow a run: live, over a socket        *)
(* (RunStream), and from its rows (RunHistory).  For any number of runs,   *)
(* clients, servers and rows, any buffer size, any bound on messages,      *)
(* attachments and requests, and all periods and cutoffs that satisfy      *)
(* CutoffAssumption.                                                       *)
(*                                                                         *)
(* The induction about the stream is over what is still on its way: the    *)
(* newest queue of a run holds its messages in the order of the stream and *)
(* behind everything the newest client was sent; only the newest           *)
(* attachment is ever detached, and only by the client that made it.       *)
(*                                                                         *)
(* The induction about the rows is over how long a live run can have gone  *)
(* without a heartbeat: its age and the time to its next beat add up to no *)
(* more than one period for every beat refused in a row, and one.          *)
(***************************************************************************)
EXTENDS RunStream, RunHistory, FiniteSetTheorems, SequenceTheorems,
        WellFoundedInduction, TLAPS

-----------------------------------------------------------------------------
(* The stream: the inductive invariant.                                    *)

StreamTypes ==
  /\ finished  \in [Runs -> {"absent", "no", "yes"}]
  /\ published \in [Runs -> Seq({"log", "event"})]
  /\ lastWords \in [Runs -> Nat]
  /\ attached  \in [Runs -> 0..MaxAttach]
  /\ newest    \in [Runs -> 0..MaxAttach]
  /\ queues    \in [Runs -> [Tokens -> Seq(Items)]]
  /\ mode      \in [Clients -> {"outer", "greet", "replay", "attach", "watch", "closed"}]
  /\ current   \in [Clients -> [run : Runs \union {NoRun}, token : 0..MaxAttach]]
  /\ target    \in [Clients -> Runs \union {NoRun}]
  /\ replay    \in [Clients -> Seq(Nat)]
  /\ drain     \in [Clients -> Drains]
  /\ inbox     \in [Clients -> Seq(Requests)]
  /\ received  \in [Clients -> Requests \union {Nothing}]
  /\ requests  \in [Clients -> Nat]
  /\ got       \in [Clients -> Seq(Sent)]

(* What is in a queue came after what left it. *)
Rising(q, n) ==
  \A i \in DOMAIN q : q[i] \in 1..n /\ \A j \in DOMAIN q : i < j => q[i] < q[j]

HandleInv(r) ==
  /\ finished[r] = "absent" <=> newest[r] = 0
  /\ finished[r] = "absent" => published[r] = <<>>
  /\ attached[r] \in {0, newest[r]}
  /\ lastWords[r] <= Len(published[r])
  /\ \A t \in Tokens : t > newest[r] => queues[r][t] = <<>>
  /\ newest[r] # 0 => Rising(queues[r][newest[r]], Len(published[r]))

(* A run and the token of an attachment to it. *)
AttachmentInv(c) ==
  LET a == current[c]
  IN  /\ a.run = NoRun => a.token = 0 /\ ~Watching(c)
      /\ a.run # NoRun => a.token \in 1..newest[a.run]
      /\ \A d \in Clients : d # c /\ current[d].run = a.run /\ a.run # NoRun
           => current[d].token # a.token

DrainInv(c) ==
  /\ drain[c].at = "none" <=> mode[c] # "watch"
  /\ drain[c].at \in {"get", "holds"} =>
       /\ drain[c].run = current[c].run
       /\ drain[c].token \in current[c].token..newest[current[c].run]
  /\ drain[c].at = "holds" /\ drain[c].token = newest[drain[c].run] =>
       LET q == queues[drain[c].run][drain[c].token]
       IN  /\ drain[c].held \in 1..Len(published[drain[c].run])
           /\ \A i \in DOMAIN q : drain[c].held < q[i]

ConnectedInv(c) ==
  Watching(c) /\ newest[current[c].run] = current[c].token
    => attached[current[c].run] = current[c].token

Replaying(c) == mode[c] \in {"replay", "attach"}
Draining(c)  == Watching(c) /\ drain[c].at # "done" /\ ~Superseded(c)

ReplayInv(c) ==
  Replaying(c) =>
    /\ target[c] \in Runs /\ finished[target[c]] # "absent"
    /\ \A i \in DOMAIN replay[c] : replay[c][i] \in 1..Len(published[target[c]])
    /\ \A i \in DOMAIN got[c] :
         got[c][i].via = "replay" /\ got[c][i].pos \in 1..Len(published[target[c]])

Ordered(s) ==
  \A i, j \in DOMAIN s :
    i < j /\ s[j].via = "live" => s[i].via \in {"live", "replay"} /\ s[i].pos < s[j].pos

(* Everything that will still be delivered live came after what c got. *)
GotInv(c) ==
  /\ Ordered(got[c])
  /\ Draining(c) =>
       LET r == current[c].run
           q == queues[r][current[c].token]
       IN  \A i \in DOMAIN got[c] :
             /\ got[c][i].via \in {"live", "replay"}
             /\ got[c][i].pos <= Len(published[r])
             /\ drain[c].at = "holds" => got[c][i].pos < drain[c].held
             /\ \A j \in DOMAIN q : got[c][i].pos < q[j]

(* The first client of a run, until somebody takes over. *)
Starter(c) ==
  Watching(c) /\ current[c].token = 1 /\ newest[current[c].run] = 1 /\ ~Gone(c)

(* How many messages are no longer in the queue of c. *)
Taken(c) == Len(got[c]) + (IF drain[c].at = "holds" THEN 1 ELSE 0)

StarterInv(c) ==
  LET r == current[c].run
      q == queues[r][1]
  IN  Starter(c) =>
        /\ \A i \in DOMAIN got[c] : got[c][i].pos = i
        /\ drain[c].at = "holds" => drain[c].held = Taken(c)
        /\ drain[c].at # "done" =>
             /\ Taken(c) + Len(q) = Len(published[r])
             /\ \A i \in DOMAIN q : q[i] = Taken(c) + i
        /\ drain[c].at = "done" => finished[r] = "yes" /\ Len(got[c]) >= lastWords[r]

ClientInv(c) ==
  /\ AttachmentInv(c) /\ DrainInv(c) /\ ConnectedInv(c)
  /\ ReplayInv(c) /\ GotInv(c) /\ StarterInv(c)

StreamInv ==
  /\ StreamTypes
  /\ \A r \in Runs : HandleInv(r)
  /\ \A c \in Clients : ClientInv(c)
-----------------------------------------------------------------------------
(* The positions of a buffer. *)

Below(S, i) == {j \in S : j <= i}

LEMMA LeastNumber ==
  ASSUME NEW S \in SUBSET Nat, S # {}
  PROVE  \E i \in S : \A j \in S : i <= j
<1>1. /\ \A i, j \in S : i \in Nat /\ j \in Nat /\ (j \in Below(S, i) <=> j <= i)
      /\ \A i : Below(S, i) \subseteq S
  BY DEF Below
<1>2. \A i \in S : Below(S, i) \in SUBSET Nat
  BY DEF Below
<1>3. ASSUME NEW i \in S PROVE IsFiniteSet(Below(S, i))
  <2>1. i \in Int /\ 0 \in Int
    OBVIOUS
  <2>2. Below(S, i) \subseteq 0..i
    <3> SUFFICES ASSUME NEW j \in Below(S, i) PROVE j \in 0..i
      OBVIOUS
    <3>1. j \in Nat /\ j <= i
      BY <1>1
    <3> QED BY <2>1, <3>1
  <2>3. IsFiniteSet(0..i)
    BY <2>1, FS_Interval
  <2> QED BY <2>2, <2>3, FS_Subset
<1> DEFINE T == {Below(S, i) : i \in S}
<1>4. T # {} /\ T \subseteq FiniteSubsetsOf(Nat)
  BY <1>2, <1>3 DEF FiniteSubsetsOf
<1>5. PICK B \in T : \A C \in T : ~(<<C, B>> \in StrictSubsetOrdering(Nat))
  <2> HIDE DEF T
  <2> QED BY <1>4, WFMin, FS_StrictSubsetOrderingWellFounded
<1>6. PICK i \in S : B = Below(S, i)
  OBVIOUS
<1>7. ASSUME NEW j \in S, j < i PROVE FALSE
  <2>1. i \in Nat /\ j \in Nat
    OBVIOUS
  <2>2. Below(S, j) \subseteq Below(S, i)
    <3>1. \A x \in S : x <= j => x <= i
      BY <1>1, <1>7
    <3> QED BY <3>1, <1>1
  <2>3. i \in Below(S, i) /\ i \notin Below(S, j)
    BY <2>1, <1>1, <1>7
  <2>4. <<Below(S, j), B>> \in StrictSubsetOrdering(Nat)
    BY <2>2, <2>3, <1>2, <1>6 DEF StrictSubsetOrdering
  <2> QED BY <1>5, <2>4
<1>8. \A j \in S : i <= j
  BY <1>7
<1> QED BY <1>8

(* The k-th element of a set of positions. *)
CountTo(S, i) == Cardinality(S \intersect 1..i)

LEMMA KthExists ==
  ASSUME NEW n \in Nat, NEW S \in SUBSET (1..n), NEW k \in 1..Cardinality(S)
  PROVE  \E i \in S : CountTo(S, i) = k
<1>1. IsFiniteSet(S) /\ Cardinality(S) \in Nat
  <2>1. IsFiniteSet(1..n)
    BY FS_Interval
  <2> QED BY <2>1, FS_Subset, FS_CardinalityType
<1>2. \A i \in Nat : IsFiniteSet(S \intersect 1..i)
  BY <1>1, FS_Subset
<1>n. (\A i \in Nat : CountTo(S, i) \in Nat) /\ k \in Nat /\ Cardinality(S) \in Nat
  <2>1. \A i \in Nat : CountTo(S, i) \in Nat
    BY <1>2, FS_CardinalityType DEF CountTo
  <2>2. k \in Nat
    BY <1>1
  <2> QED BY <2>1, <2>2, <1>1
<1>3. CountTo(S, 0) = 0
  <2>1. S \intersect 1..0 = {}
    OBVIOUS
  <2> QED BY <2>1, FS_EmptySet DEF CountTo
<1>4. CountTo(S, n) = Cardinality(S)
  <2>1. S \intersect 1..n = S
    OBVIOUS
  <2> QED BY <2>1 DEF CountTo
<1> DEFINE T == {i \in Nat : CountTo(S, i) >= k}
<1>5. T # {} /\ T \in SUBSET Nat
  <2>1. n \in T
    BY <1>n, <1>4
  <2> QED BY <2>1
<1>6. PICK i \in T : \A j \in T : i <= j
  <2> HIDE DEF T
  <2> QED BY <1>5, LeastNumber
<1>7. i \in Nat /\ CountTo(S, i) >= k /\ i # 0
  BY <1>n, <1>3
<1>8. CountTo(S, i - 1) < k /\ i - 1 \in Nat
  <2>1. i - 1 \in Nat /\ ~(i <= i - 1)
    BY <1>7
  <2>2. i - 1 \notin T
    BY <2>1, <1>6
  <2> QED BY <2>1, <2>2, <1>n
<1>9. i \in S /\ CountTo(S, i) = CountTo(S, i - 1) + 1
  <2>1. CASE i \in S
    <3>1. S \intersect 1..i = (S \intersect 1..(i - 1)) \union {i} /\ i \notin S \intersect 1..(i - 1)
      BY <2>1, <1>7, <1>8
    <3>2. Cardinality((S \intersect 1..(i - 1)) \union {i}) = CountTo(S, i - 1) + 1
      BY <3>1, <1>2, FS_AddElement DEF CountTo
    <3> QED BY <2>1, <3>1, <3>2 DEF CountTo
  <2>2. CASE i \notin S
    <3>1. S \intersect 1..i = S \intersect 1..(i - 1)
      BY <2>2, <1>7, <1>8
    <3>2. CountTo(S, i) = CountTo(S, i - 1)
      BY <3>1 DEF CountTo
    <3> QED BY <3>2, <1>n, <1>7, <1>8
  <2> QED BY <2>1, <2>2
<1>10. CountTo(S, i) = k
  <2>1. CountTo(S, i) \in Nat /\ CountTo(S, i - 1) \in Nat /\ k \in Nat
    BY <1>n, <1>7, <1>8
  <2> QED BY <2>1, <1>7, <1>8, <1>9
<1> QED BY <1>9, <1>10

LEMMA PositionsAreOfTheStream ==
  ASSUME StreamTypes, NEW r \in Runs, NEW kind
  PROVE  Positions(r, kind) \in Seq(1..Len(published[r]))
<1> DEFINE n == Len(published[r])
           S == {i \in DOMAIN published[r] : published[r][i] = kind}
           e(k) == CHOOSE i \in S : Cardinality(S \intersect 1..i) = k
<1>1. n \in Nat /\ S \in SUBSET (1..n)
  <2>1. published[r] \in Seq({"log", "event"})
    BY DEF StreamTypes
  <2> QED BY <2>1
<1>2. Cardinality(S) \in Nat
  <2> HIDE DEF S, n
  <2>1. IsFiniteSet(1..n)
    BY <1>1, FS_Interval
  <2> QED BY <2>1, <1>1, FS_Subset, FS_CardinalityType
<1>3. ASSUME NEW k \in 1..Cardinality(S) PROVE e(k) \in 1..n
  <2>1. \E i \in S : Cardinality(S \intersect 1..i) = k
    <3> HIDE DEF S, n
    <3> QED BY <1>1, KthExists DEF CountTo
  <2> HIDE DEF n
  <2> QED BY <2>1, <1>1
<1>4. [k \in 1..Cardinality(S) |-> e(k)] \in Seq(1..n)
  <2> DEFINE m == Cardinality(S)
  <2>1. m \in Nat /\ \A k \in 1..m : e(k) \in 1..n
    BY <1>2, <1>3
  <2> HIDE DEF S, n, e, m
  <2>2. [k \in 1..m |-> e(k)] \in [1..m -> 1..n]
    BY <2>1
  <2>3. [k \in 1..m |-> e(k)] \in Seq(1..n)
    BY <2>1, <2>2, SeqDef
  <2> QED BY <2>3 DEF m
<1> QED BY <1>4 DEF Positions

(* What is replayed has been published. *)
LEMMA ReplayIsPublished ==
  ASSUME StreamTypes, NEW r \in Runs
  PROVE  BufferedReplay(r) \in Seq(1..Len(published[r]))
<1> DEFINE n == Len(published[r])
           logs == Positions(r, "log")
           m == Len(logs)
           first == IF m > LogMax THEN m - LogMax + 1 ELSE 1
<1>1. logs \in Seq(1..n) /\ Positions(r, "event") \in Seq(1..n)
  BY PositionsAreOfTheStream
<1> HIDE DEF n, logs
<1>2. SubSeq(logs, first, m) \in Seq(1..n)
  <2>1. m \in Nat /\ first \in 1..m+1 /\ LogMax \in Nat \ {0}
    BY <1>1, StreamAssumption
  <2>2. \A i \in first..m : logs[i] \in 1..n
    <3> HIDE DEF first, m
    <3>1. ASSUME NEW i \in first..m PROVE i \in 1..m
      BY <2>1
    <3> QED BY <3>1, <1>1, ElementOfSeq DEF m
  <2> HIDE DEF first, m
  <2>3. first \in Int /\ m \in Int
    BY <2>1
  <2> QED BY <2>2, <2>3, SubSeqProperties
<1> QED BY <1>1, <1>2, ConcatProperties DEF BufferedReplay, n, logs
-----------------------------------------------------------------------------
(* The moves of a handle. *)

(* u is q with the messages from n + 1 to m behind it. *)
Extended(q, u, n, m) ==
  /\ m >= n /\ Len(u) = Len(q) + (m - n)
  /\ \A i \in 1..Len(q) : u[i] = q[i]
  /\ \A i \in (Len(q) + 1)..Len(u) : u[i] = n + (i - Len(q))

Shortened(q, u) ==
  Len(q) = Len(u) + 1 /\ \A i \in 1..Len(u) : u[i] = q[i + 1]

LEMMA PublishMoves ==
  ASSUME StreamTypes, NEW r \in Runs, NEW kinds \in Seq({"log", "event"}), PublishAll(r, kinds)
  PROVE  /\ published' \in [Runs -> Seq({"log", "event"})]
         /\ queues' \in [Runs -> [Tokens -> Seq(Items)]]
         /\ \A x \in Runs \ {r} : published'[x] = published[x] /\ queues'[x] = queues[x]
         /\ Len(published'[r]) = Len(published[r]) + Len(kinds)
         /\ \A t \in Tokens : t # attached[r] => queues'[r][t] = queues[r][t]
         /\ attached[r] # 0 =>
              Extended(queues[r][attached[r]], queues'[r][attached[r]],
                       Len(published[r]), Len(published'[r]))
<1> DEFINE n == Len(published[r])
           k == Len(kinds)
           t == attached[r]
           more == [i \in 1..k |-> n + 1 + i - 1]
<1>1. /\ published[r] \in Seq({"log", "event"}) /\ n \in Nat /\ k \in Nat
      /\ t \in 0..MaxAttach /\ queues \in [Runs -> [Tokens -> Seq(Items)]]
      /\ published \in [Runs -> Seq({"log", "event"})]
  BY DEF StreamTypes
<1>2. /\ published' = [published EXCEPT ![r] = @ \o kinds]
      /\ queues' = IF t = 0 THEN queues ELSE [queues EXCEPT ![r][t] = @ \o more]
  BY DEF PublishAll
<1>3. /\ published[r] \o kinds \in Seq({"log", "event"})
      /\ Len(published[r] \o kinds) = n + k
  BY <1>1, ConcatProperties
<1>4. /\ published' \in [Runs -> Seq({"log", "event"})]
      /\ \A x \in Runs \ {r} : published'[x] = published[x]
      /\ Len(published'[r]) = n + k
  BY <1>1, <1>2, <1>3
<1>5. CASE t = 0
  BY <1>1, <1>2, <1>4, <1>5
<1>6. CASE t # 0
  <2> DEFINE q == queues[r][t]
             u == q \o more
  <2>1. t \in Tokens /\ q \in Seq(Items) /\ Len(q) \in Nat
    <3>1. t \in Tokens
      BY <1>1, <1>6, StreamAssumption DEF Tokens
    <3> QED BY <3>1, <1>1
  <2>2. more \in Seq(Items) /\ Len(more) = k /\ \A i \in 1..k : more[i] = n + i
    <3>1. \A i \in 1..k : n + 1 + i - 1 \in Items /\ n + 1 + i - 1 = n + i
      BY <1>1 DEF Items
    <3> HIDE DEF n, k
    <3>2. more \in [1..k -> Items]
      BY <3>1
    <3>3. more \in Seq(Items)
      BY <3>2, <1>1, SeqDef DEF k
    <3>4. Len(more) = k
      BY <3>2, <1>1 DEF k
    <3> QED BY <3>1, <3>3, <3>4
  <2> HIDE DEF more, q, k, t
  <2>3. /\ u \in Seq(Items) /\ Len(u) = Len(q) + k
        /\ \A i \in 1..(Len(q) + k) : u[i] = IF i <= Len(q) THEN q[i] ELSE more[i - Len(q)]
    BY <2>1, <2>2, ConcatProperties
  <2>4. queues' = [queues EXCEPT ![r][t] = u]
    BY <1>2, <1>6 DEF q, k, t, more
  <2> HIDE DEF u
  <2>5. /\ queues' \in [Runs -> [Tokens -> Seq(Items)]]
        /\ queues'[r][t] = u
        /\ \A x \in Runs \ {r} : queues'[x] = queues[x]
        /\ \A y \in Tokens : y # t => queues'[r][y] = queues[r][y]
    BY <2>1, <2>3, <2>4, <1>1 DEF t
  <2>6. Extended(q, u, n, n + k)
    <3> HIDE DEF n
    <3>1. \A i \in (Len(q) + 1)..Len(u) : i - Len(q) \in 1..k /\ ~(i <= Len(q)) /\ i \in 1..(Len(q) + k)
      BY <1>1, <2>1, <2>3
    <3>2. \A i \in 1..Len(q) : i <= Len(q) /\ i \in 1..(Len(q) + k)
      BY <1>1, <2>1
    <3> QED BY <3>1, <3>2, <1>1, <2>1, <2>2, <2>3 DEF Extended
  <2> QED BY <1>4, <2>5, <2>6 DEF q, k, t
<1> QED BY <1>5, <1>6

LEMMA AttachMoves ==
  ASSUME StreamTypes, NEW r \in Runs, NEW c \in Clients, AttachTo(r, c)
  PROVE  /\ newest[r] + 1 \in Tokens
         /\ newest' = [newest EXCEPT ![r] = newest[r] + 1]
         /\ attached' = [attached EXCEPT ![r] = newest[r] + 1]
         /\ newest' \in [Runs -> 0..MaxAttach] /\ attached' \in [Runs -> 0..MaxAttach]
         /\ queues' \in [Runs -> [Tokens -> Seq(Items)]]
         /\ \A x \in Runs \ {r} : queues'[x] = queues[x]
         /\ \A t \in Tokens : t # attached[r] => queues'[r][t] = queues[r][t]
         /\ current' \in [Clients -> [run : Runs \union {NoRun}, token : 0..MaxAttach]]
         /\ current' = [current EXCEPT ![c] = [run |-> r, token |-> newest[r] + 1]]
<1>1. /\ newest \in [Runs -> 0..MaxAttach] /\ attached \in [Runs -> 0..MaxAttach]
      /\ queues \in [Runs -> [Tokens -> Seq(Items)]]
      /\ current \in [Clients -> [run : Runs \union {NoRun}, token : 0..MaxAttach]]
      /\ newest[r] \in Nat /\ MaxAttach \in Nat
  BY StreamAssumption DEF StreamTypes
<1>2. newest[r] + 1 \in Tokens /\ newest[r] + 1 \in 0..MaxAttach
  BY <1>1 DEF AttachTo, Tokens
<1>3. /\ newest' = [newest EXCEPT ![r] = newest[r] + 1]
      /\ attached' = [attached EXCEPT ![r] = newest[r] + 1]
      /\ current' = [current EXCEPT ![c] = [run |-> r, token |-> newest[r] + 1]]
  BY DEF AttachTo
<1>4. /\ queues' \in [Runs -> [Tokens -> Seq(Items)]]
      /\ \A x \in Runs \ {r} : queues'[x] = queues[x]
      /\ \A t \in Tokens : t # attached[r] => queues'[r][t] = queues[r][t]
  <2>1. CASE attached[r] = 0
    BY <2>1, <1>1 DEF AttachTo
  <2>2. CASE attached[r] # 0
    <3> DEFINE a == attached[r]
               u == Append(queues[r][a], Marker)
    <3>1. a \in Tokens /\ u \in Seq(Items)
      BY <2>2, <1>1 DEF Tokens, Items, Marker
    <3>2. queues' = [queues EXCEPT ![r][a] = u]
      BY <2>2 DEF AttachTo
    <3> HIDE DEF u, a
    <3> QED BY <3>1, <3>2, <1>1 DEF a
  <2> QED BY <2>1, <2>2
<1> QED BY <1>1, <1>2, <1>3, <1>4

LEMMA DrainMoves ==
  ASSUME StreamTypes, NEW c \in Clients, DrainGet(c),
         drain[c].run \in Runs, drain[c].token \in Tokens
  PROVE  LET r == drain[c].run
             t == drain[c].token
         IN  /\ queues' \in [Runs -> [Tokens -> Seq(Items)]]
             /\ \A x \in Runs \ {r} : queues'[x] = queues[x]
             /\ \A y \in Tokens : y # t => queues'[r][y] = queues[r][y]
             /\ Shortened(queues[r][t], queues'[r][t])
             /\ drain'[c] = [drain[c] EXCEPT !.at = "holds", !.held = queues[r][t][1]]
             /\ 1 \in DOMAIN queues[r][t]
             /\ \A d \in Clients \ {c} : drain'[d] = drain[d]
             /\ drain' \in [Clients -> Drains]
<1> DEFINE r == drain[c].run
           t == drain[c].token
           q == queues[r][t]
<1>1. /\ queues \in [Runs -> [Tokens -> Seq(Items)]] /\ drain \in [Clients -> Drains]
      /\ q \in Seq(Items) /\ q # <<>>
  BY DEF StreamTypes, DrainGet, DrainQueue
<1>2. /\ queues' = [queues EXCEPT ![r][t] = Tail(q)]
      /\ drain' = [drain EXCEPT ![c] = [drain[c] EXCEPT !.at = "holds", !.held = Head(q)]]
  BY DEF DrainGet, DrainQueue, SetDrain
<1> HIDE DEF q
<1>3. /\ Tail(q) \in Seq(Items) /\ Head(q) = q[1] /\ Head(q) \in Items
      /\ Shortened(q, Tail(q)) /\ 1 \in DOMAIN q
  BY <1>1 DEF Shortened
<1>4. [drain[c] EXCEPT !.at = "holds", !.held = Head(q)] \in Drains
  BY <1>1, <1>3 DEF Drains
<1>5. /\ queues' \in [Runs -> [Tokens -> Seq(Items)]] /\ queues'[r][t] = Tail(q)
      /\ \A x \in Runs \ {r} : queues'[x] = queues[x]
      /\ \A y \in Tokens : y # t => queues'[r][y] = queues[r][y]
  <2> HIDE DEF r, t
  <2> QED BY <1>1, <1>2, <1>3 DEF r, t
<1>6. /\ drain'[c] = [drain[c] EXCEPT !.at = "holds", !.held = q[1]]
      /\ \A d \in Clients \ {c} : drain'[d] = drain[d]
      /\ drain' \in [Clients -> Drains]
  BY <1>1, <1>2, <1>3, <1>4
<1> QED BY <1>3, <1>5, <1>6 DEF q
-----------------------------------------------------------------------------
(* What a step of others leaves a client. *)

(* No step takes these back. *)
Onward(r) ==
  /\ finished[r] # "absent" => finished'[r] # "absent"
  /\ finished[r] = "yes" => finished'[r] = "yes" /\ lastWords'[r] = lastWords[r]
  /\ newest'[r] \in {newest[r], newest[r] + 1}
  /\ Len(published'[r]) >= Len(published[r])

(* The newest queue is fed what is published, or emptied from its head. *)
QueueMoves(r) ==
  newest'[r] = newest[r] /\ newest[r] # 0 =>
    LET q == queues[r][newest[r]]
        u == queues'[r][newest[r]]
    IN  \/ Extended(q, u, Len(published[r]), Len(published'[r]))
        \/ attached[r] = 0 /\ u = q
        \/ Shortened(q, u) /\ Len(published'[r]) = Len(published[r])

Quiet(c) ==
  /\ mode'[c] = mode[c] /\ current'[c] = current[c] /\ target'[c] = target[c]
  /\ replay'[c] = replay[c] /\ drain'[c] = drain[c] /\ got'[c] = got[c]
  /\ Gone(c) => Gone(c)'

(* The newest watcher stays connected, and nobody else takes from the      *)
(* queue of the client that started the run.                               *)
Undisturbed(c) ==
  LET r == current[c].run
  IN  /\ Watching(c) /\ newest'[r] = current[c].token => attached'[r] = attached[r]
      /\ Starter(c) /\ newest'[r] = 1 =>
           Extended(queues[r][1], queues'[r][1], Len(published[r]), Len(published'[r]))

LEMMA HandleNumbers ==
  ASSUME StreamTypes, NEW r \in Runs
  PROVE  /\ newest[r] \in Nat /\ attached[r] \in Nat /\ lastWords[r] \in Nat
         /\ published[r] \in Seq({"log", "event"}) /\ Len(published[r]) \in Nat
         /\ \A t \in Tokens : queues[r][t] \in Seq(Nat)
BY StreamAssumption DEF StreamTypes, Items

LEMMA ClientNumbers ==
  ASSUME StreamTypes, NEW c \in Clients
  PROVE  /\ current[c] = [run |-> current[c].run, token |-> current[c].token]
         /\ current[c].run \in Runs \union {NoRun} /\ current[c].token \in Nat
         /\ drain[c].token \in Nat /\ drain[c].held \in Nat
         /\ got[c] \in Seq(Sent) /\ Len(got[c]) \in Nat /\ DOMAIN got[c] = 1..Len(got[c])
         /\ \A i \in DOMAIN got[c] : got[c][i] \in Sent /\ got[c][i].pos \in Nat
         /\ Taken(c) \in Nat
<1>1. /\ current[c] \in [run : Runs \union {NoRun}, token : 0..MaxAttach]
      /\ drain[c] \in Drains /\ got[c] \in Seq(Sent)
  BY DEF StreamTypes
<1>2. /\ Len(got[c]) \in Nat /\ DOMAIN got[c] = 1..Len(got[c])
      /\ \A i \in DOMAIN got[c] : got[c][i] \in Sent
  BY <1>1
<1>3. \A i \in DOMAIN got[c] : got[c][i].pos \in Nat
  BY <1>2 DEF Sent, Items
<1>4. /\ current[c] = [run |-> current[c].run, token |-> current[c].token]
      /\ current[c].run \in Runs \union {NoRun} /\ current[c].token \in Nat
  BY <1>1, StreamAssumption
<1>5. drain[c].token \in Nat /\ drain[c].held \in Nat
  BY <1>1 DEF Drains, Items
<1>6. Taken(c) \in Nat
  <2>1. Taken(c) \in {Len(got[c]) + 1, Len(got[c]) + 0}
    BY DEF Taken
  <2> HIDE DEF Taken
  <2> QED BY <1>2, <2>1
<1> QED BY <1>1, <1>2, <1>3, <1>4, <1>5, <1>6

(* Every element of the queue after the step is past n if those before are. *)
LEMMA StaysPast ==
  ASSUME NEW r \in Runs, StreamTypes, StreamTypes', QueueMoves(r), Onward(r),
         newest'[r] = newest[r], newest[r] # 0,
         NEW n \in Nat, n <= Len(published[r]),
         \A i \in DOMAIN queues[r][newest[r]] : n < queues[r][newest[r]][i]
  PROVE  \A i \in DOMAIN queues'[r][newest[r]] : n < queues'[r][newest[r]][i]
<1> DEFINE q == queues[r][newest[r]]
           u == queues'[r][newest[r]]
           m == Len(published[r])
           l == Len(published'[r])
<1>1. /\ q \in Seq(Nat) /\ u \in Seq(Nat) /\ m \in Nat /\ l \in Nat
      /\ newest[r] \in Tokens
  BY StreamAssumption DEF StreamTypes, Tokens, Items
<1>2. Extended(q, u, m, l) \/ u = q \/ Shortened(q, u)
  BY DEF QueueMoves
<1>3. /\ DOMAIN q = 1..Len(q) /\ DOMAIN u = 1..Len(u) /\ Len(q) \in Nat /\ Len(u) \in Nat
      /\ n <= m
      /\ \A i \in DOMAIN q : n < q[i] /\ q[i] \in Nat
  <2>1. n <= m /\ \A i \in DOMAIN q : n < q[i]
    OBVIOUS
  <2> HIDE DEF q, u, m, l
  <2> QED BY <1>1, <2>1, LenProperties, ElementOfSeq
<1> HIDE DEF q, u, m, l
<1>4. ASSUME NEW i \in DOMAIN u PROVE n < u[i]
  <2>1. CASE Extended(q, u, m, l)
    <3>1. CASE i \in 1..Len(q)
      BY <2>1, <3>1, <1>3 DEF Extended
    <3>2. CASE i \in (Len(q) + 1)..Len(u)
      <4>1. u[i] = m + (i - Len(q)) /\ i \in Nat /\ i > Len(q)
        BY <2>1, <3>2, <1>3 DEF Extended
      <4> QED BY <4>1, <1>1, <1>3
    <3> QED BY <3>1, <3>2, <1>3
  <2>2. CASE Shortened(q, u)
    <3>1. i + 1 \in DOMAIN q /\ u[i] = q[i + 1]
      BY <2>2, <1>3 DEF Shortened
    <3> QED BY <3>1, <1>3
  <2> QED BY <2>1, <2>2, <1>2, <1>3
<1> QED BY <1>4 DEF u

(* The newest queue holds the end of the stream in order. *)
LEMMA StaysRising ==
  ASSUME NEW r \in Runs, StreamTypes, StreamTypes', QueueMoves(r), Onward(r),
         newest'[r] = newest[r], newest[r] # 0,
         Rising(queues[r][newest[r]], Len(published[r]))
  PROVE  Rising(queues'[r][newest[r]], Len(published'[r]))
<1> DEFINE q == queues[r][newest[r]]
           u == queues'[r][newest[r]]
           m == Len(published[r])
           l == Len(published'[r])
<1>1. /\ q \in Seq(Nat) /\ u \in Seq(Nat) /\ m \in Nat /\ l \in Nat
      /\ newest[r] \in Tokens
  BY StreamAssumption DEF StreamTypes, Tokens, Items
<1>2. (Extended(q, u, m, l) \/ u = q \/ Shortened(q, u)) /\ l >= m
  BY DEF QueueMoves, Onward
<1>3. /\ DOMAIN q = 1..Len(q) /\ DOMAIN u = 1..Len(u) /\ Len(q) \in Nat /\ Len(u) \in Nat
      /\ \A i \in DOMAIN q : q[i] \in 1..m
      /\ \A i, j \in DOMAIN q : i < j => q[i] < q[j]
  <2>1. Rising(q, m)
    OBVIOUS
  <2> HIDE DEF q, u, m, l
  <2> QED BY <1>1, <2>1, LenProperties DEF Rising
<1> HIDE DEF q, u, m, l
<1>4. CASE Extended(q, u, m, l)
  <2>1. /\ Len(u) = Len(q) + (l - m)
        /\ \A i \in 1..Len(q) : u[i] = q[i]
        /\ \A i \in (Len(q) + 1)..Len(u) : u[i] = m + (i - Len(q))
    BY <1>4 DEF Extended
  <2>2. \A i \in DOMAIN u : i \in 1..Len(q) \/ i \in (Len(q) + 1)..Len(u)
    BY <1>3
  <2>3. ASSUME NEW i \in DOMAIN u PROVE u[i] \in 1..l
    <3>1. CASE i \in 1..Len(q)
      <4>1. u[i] \in 1..m
        BY <3>1, <2>1, <1>3
      <4> QED BY <4>1, <1>1, <1>2
    <3>2. CASE i \in (Len(q) + 1)..Len(u)
      <4>1. u[i] = m + (i - Len(q)) /\ i \in Nat /\ i > Len(q) /\ i <= Len(q) + (l - m)
        BY <3>2, <2>1, <1>3
      <4> QED BY <4>1, <1>1, <1>2, <1>3
    <3> QED BY <3>1, <3>2, <2>2
  <2>4. ASSUME NEW i \in DOMAIN u, NEW j \in DOMAIN u, i < j PROVE u[i] < u[j]
    <3>1. CASE j \in 1..Len(q)
      <4>1. i \in 1..Len(q)
        BY <3>1, <2>4, <1>3
      <4> QED BY <3>1, <4>1, <2>1, <2>4, <1>3
    <3>2. CASE i \in 1..Len(q) /\ j \in (Len(q) + 1)..Len(u)
      <4>1. u[i] \in 1..m /\ u[j] = m + (j - Len(q)) /\ j - Len(q) > 0
        BY <3>2, <2>1, <1>3
      <4> QED BY <4>1, <1>1, <3>2, <1>3
    <3>3. CASE i \in (Len(q) + 1)..Len(u)
      <4>1. j \in (Len(q) + 1)..Len(u)
        BY <3>3, <2>4, <1>3
      <4>2. /\ u[i] = m + (i - Len(q)) /\ u[j] = m + (j - Len(q))
            /\ i \in Nat /\ j \in Nat
        BY <3>3, <4>1, <2>1, <1>3
      <4> QED BY <4>2, <2>4, <1>1, <1>3
    <3> QED BY <3>1, <3>2, <3>3, <2>2
  <2> QED BY <2>3, <2>4 DEF Rising, u, l
<1>5. CASE u = q
  <2>1. \A i \in DOMAIN u : u[i] \in 1..l
    BY <1>5, <1>1, <1>2, <1>3
  <2> QED BY <2>1, <1>5, <1>3 DEF Rising, u, l
<1>6. CASE Shortened(q, u)
  <2>1. \A i \in DOMAIN u : i + 1 \in DOMAIN q /\ u[i] = q[i + 1]
    BY <1>6, <1>3 DEF Shortened
  <2>2. \A i \in DOMAIN u : u[i] \in 1..l
    BY <2>1, <1>1, <1>2, <1>3
  <2>3. \A i, j \in DOMAIN u : i < j => u[i] < u[j]
    BY <2>1, <1>3
  <2> QED BY <2>2, <2>3 DEF Rising, u, l
<1> QED BY <1>2, <1>4, <1>5, <1>6

(* A queue that holds what follows the first k messages keeps doing so. *)
LEMMA StaysCounting ==
  ASSUME NEW q \in Seq(Nat), NEW u \in Seq(Nat), NEW m \in Nat, NEW l \in Nat, NEW k \in Nat,
         Extended(q, u, m, l), k + Len(q) = m, \A i \in DOMAIN q : q[i] = k + i
  PROVE  k + Len(u) = l /\ \A i \in DOMAIN u : u[i] = k + i
<1>1. /\ DOMAIN q = 1..Len(q) /\ DOMAIN u = 1..Len(u) /\ Len(q) \in Nat /\ Len(u) \in Nat
  BY LenProperties
<1>2. /\ l >= m /\ Len(u) = Len(q) + (l - m)
      /\ \A i \in 1..Len(q) : u[i] = q[i]
      /\ \A i \in (Len(q) + 1)..Len(u) : u[i] = m + (i - Len(q))
  BY DEF Extended
<1>3. ASSUME NEW i \in DOMAIN u PROVE u[i] = k + i
  <2>1. CASE i \in 1..Len(q)
    BY <2>1, <1>1, <1>2
  <2>2. CASE i \in (Len(q) + 1)..Len(u)
    <3>1. u[i] = m + (i - Len(q))
      BY <2>2, <1>2
    <3>2. i \in Nat
      BY <2>2, <1>1
    <3> QED BY <3>1, <3>2, <1>1
  <2> QED BY <2>1, <2>2, <1>1
<1>4. k + Len(u) = l
  <2>1. Len(u) = Len(q) + (l - m) /\ k + Len(q) = m /\ Len(q) \in Nat /\ Len(u) \in Nat
    BY <1>1, <1>2
  <2> DEFINE a == Len(q)
             b == Len(u)
  <2> HIDE DEF a, b
  <2>2. b = a + (l - m) /\ k + a = m /\ a \in Nat /\ b \in Nat
    BY <2>1 DEF a, b
  <2>3. k + b = l
    BY <2>2
  <2> QED BY <2>3 DEF b
<1> QED BY <1>3, <1>4

LEMMA HandleKeeps ==
  ASSUME StreamInv, StreamTypes', NEW r \in Runs, Onward(r), QueueMoves(r),
         newest'[r] = newest[r],
         finished[r] = "absent" <=> finished'[r] = "absent",
         finished[r] = "absent" => published'[r] = published[r],
         attached'[r] \in {0, attached[r]},
         lastWords'[r] <= Len(published'[r]),
         \A t \in Tokens : t > newest[r] => queues'[r][t] = queues[r][t]
  PROVE  HandleInv(r)'
<1>1. HandleInv(r)
  BY DEF StreamInv
<1>2. newest'[r] # 0 => Rising(queues'[r][newest'[r]], Len(published'[r]))
  BY <1>1, StaysRising DEF HandleInv, StreamInv
<1> QED BY <1>1, <1>2 DEF HandleInv

LEMMA QuietKeeps ==
  ASSUME StreamInv, StreamTypes', NEW c \in Clients, Quiet(c),
         \A d \in Clients \ {c} :
            \/ current'[d] = current[d]
            \/ current[c].run # NoRun /\ current'[d].run = current[c].run
               => current'[d].token # current[c].token,
         \A r \in Runs : Onward(r) /\ QueueMoves(r), Undisturbed(c)
  PROVE  ClientInv(c)'
<1> DEFINE r == current[c].run
           t == current[c].token
<1>1. ClientInv(c) /\ \A x \in Runs : HandleInv(x)
  BY DEF StreamInv
<1>2. /\ StreamTypes /\ r \in Runs \union {NoRun} /\ t \in Nat
      /\ \A x \in Runs : newest[x] \in Nat /\ newest'[x] \in Nat /\ Len(published[x]) \in Nat
                         /\ Len(published'[x]) \in Nat
  <2>1. StreamTypes
    BY DEF StreamInv
  <2>2. ASSUME NEW x \in Runs PROVE newest'[x] \in Nat /\ Len(published'[x]) \in Nat
    BY StreamAssumption DEF StreamTypes
  <2> QED BY <2>1, <2>2, ClientNumbers, HandleNumbers
<1>3. /\ mode'[c] = mode[c] /\ current'[c] = current[c] /\ target'[c] = target[c]
      /\ replay'[c] = replay[c] /\ drain'[c] = drain[c] /\ got'[c] = got[c]
  BY DEF Quiet
<1>4. \A x \in Runs : newest'[x] >= newest[x] /\ Len(published'[x]) >= Len(published[x])
  BY <1>2 DEF Onward
<1>5. AttachmentInv(c)'
  <2>1. AttachmentInv(c)
    BY <1>1 DEF ClientInv
  <2>2. r # NoRun => t \in 1..newest'[r]
    BY <2>1, <1>2, <1>4 DEF AttachmentInv
  <2>3. ASSUME NEW d \in Clients \ {c}, r # NoRun, current'[d].run = r
        PROVE  current'[d].token # t
    BY <2>1, <2>3 DEF AttachmentInv
  <2>4. r = NoRun => t = 0 /\ ~Watching(c)'
    BY <2>1, <1>3 DEF AttachmentInv, Watching
  <2> QED BY <1>3, <2>2, <2>3, <2>4 DEF AttachmentInv
<1>6. Watching(c) => r \in Runs /\ t \in 1..newest[r]
  BY <1>1, <1>2 DEF ClientInv, AttachmentInv
<1>7. DrainInv(c)'
  <2>1. DrainInv(c)
    BY <1>1 DEF ClientInv
  <2>2. ASSUME drain[c].at \in {"get", "holds"}
        PROVE  /\ Watching(c) /\ r \in Runs /\ drain[c].run = r
               /\ drain[c].token \in Nat /\ drain[c].token \in t..newest'[r]
    <3>1. Watching(c) /\ drain[c].run = r /\ drain[c].token \in t..newest[r]
      BY <2>1, <2>2 DEF DrainInv, Watching
    <3> QED BY <3>1, <1>2, <1>4, <1>6
  <2>3. ASSUME drain[c].at = "holds", drain[c].token = newest'[drain[c].run]
        PROVE  LET q == queues'[drain[c].run][drain[c].token]
               IN  /\ drain[c].held \in 1..Len(published'[drain[c].run])
                   /\ \A i \in DOMAIN q : drain[c].held < q[i]
    <3>1. r \in Runs /\ drain[c].run = r /\ drain[c].token \in t..newest[r]
      BY <2>1, <2>2, <2>3 DEF DrainInv
    <3>2. newest'[r] = newest[r] /\ newest[r] # 0
      BY <2>2, <2>3, <3>1, <1>2, <1>4, <1>6
    <3>3. /\ drain[c].held \in 1..Len(published[r])
          /\ \A i \in DOMAIN queues[r][newest[r]] : drain[c].held < queues[r][newest[r]][i]
      BY <2>1, <2>3, <3>1, <3>2 DEF DrainInv
    <3>4. \A i \in DOMAIN queues'[r][newest[r]] : drain[c].held < queues'[r][newest[r]][i]
      <4>1. drain[c].held \in Nat /\ drain[c].held <= Len(published[r])
        BY <3>3, <1>2, <3>1
      <4> QED BY <4>1, <3>1, <3>2, <3>3, <1>2, StaysPast
    <3> QED BY <2>3, <3>1, <3>2, <3>3, <3>4, <1>2, <1>4
  <2> QED BY <2>1, <2>2, <2>3, <1>3 DEF DrainInv
<1>8. ConnectedInv(c)'
  <2>1. ConnectedInv(c)
    BY <1>1 DEF ClientInv
  <2>2. ASSUME Watching(c), newest'[r] = t PROVE attached'[r] = t
    <3>1. newest[r] = t
      BY <2>2, <1>2, <1>4, <1>6
    <3> QED BY <2>1, <2>2, <3>1 DEF ConnectedInv, Undisturbed
  <2> QED BY <2>2, <1>3 DEF ConnectedInv, Watching
<1>9. ReplayInv(c)'
  <2>1. ReplayInv(c)
    BY <1>1 DEF ClientInv
  <2>2. ASSUME Replaying(c)
        PROVE  /\ target[c] \in Runs /\ finished'[target[c]] # "absent"
               /\ \A i \in DOMAIN replay[c] : replay[c][i] \in 1..Len(published'[target[c]])
               /\ \A i \in DOMAIN got[c] :
                    got[c][i].via = "replay" /\ got[c][i].pos \in 1..Len(published'[target[c]])
    <3>1. target[c] \in Runs /\ finished'[target[c]] # "absent"
      BY <2>1, <2>2 DEF ReplayInv, Onward
    <3>2. \A n \in 1..Len(published[target[c]]) : n \in 1..Len(published'[target[c]])
      BY <3>1, <1>2, <1>4
    <3> QED BY <2>1, <2>2, <3>1, <3>2 DEF ReplayInv
  <2> QED BY <2>2, <1>3 DEF ReplayInv, Replaying
<1>10. GotInv(c)'
  <2>1. GotInv(c)
    BY <1>1 DEF ClientInv
  <2>2. ASSUME Watching(c), drain[c].at # "done", newest'[r] = t, NEW i \in DOMAIN got[c]
        PROVE  /\ got[c][i].via \in {"live", "replay"}
               /\ got[c][i].pos <= Len(published'[r])
               /\ drain[c].at = "holds" => got[c][i].pos < drain[c].held
               /\ \A j \in DOMAIN queues'[r][t] : got[c][i].pos < queues'[r][t][j]
    <3>1. newest[r] = t /\ r \in Runs /\ t # 0
      BY <2>2, <1>2, <1>4, <1>6
    <3>2. Draining(c)
      BY <2>2, <3>1 DEF Draining, Superseded
    <3>3. /\ got[c][i].via \in {"live", "replay"}
          /\ got[c][i].pos <= Len(published[r])
          /\ drain[c].at = "holds" => got[c][i].pos < drain[c].held
          /\ \A j \in DOMAIN queues[r][t] : got[c][i].pos < queues[r][t][j]
      BY <2>1, <3>2 DEF GotInv
    <3>4. got[c][i].pos \in Nat
      BY <1>2, ClientNumbers
    <3>5. \A j \in DOMAIN queues'[r][t] : got[c][i].pos < queues'[r][t][j]
      BY <2>2, <3>1, <3>3, <3>4, <1>2, StaysPast
    <3>6. got[c][i].pos <= Len(published'[r])
      BY <3>1, <3>3, <3>4, <1>2, <1>4
    <3> QED BY <3>3, <3>5, <3>6
  <2> QED BY <2>1, <2>2, <1>3 DEF GotInv, Draining, Watching, Superseded
<1>11. StarterInv(c)'
  <2> SUFFICES ASSUME Starter(c)' PROVE StarterInv(c)'
    BY DEF StarterInv
  <2>1. StarterInv(c)
    BY <1>1 DEF ClientInv
  <2>2. newest'[r] = 1 /\ newest[r] = 1 /\ t = 1 /\ r \in Runs /\ Watching(c)
    BY <1>2, <1>3, <1>4, <1>6 DEF Starter, Watching
  <2>3. Starter(c)
    BY <2>2, <1>3 DEF Starter, Quiet
  <2> DEFINE q == queues[r][1]
             u == queues'[r][1]
             n == Taken(c)
  <2>4. Extended(q, u, Len(published[r]), Len(published'[r]))
    BY <2>2, <2>3 DEF Undisturbed
  <2>5. /\ \A i \in DOMAIN got[c] : got[c][i].pos = i
        /\ drain[c].at = "holds" => drain[c].held = n
        /\ drain[c].at # "done" => n + Len(q) = Len(published[r]) /\ \A i \in DOMAIN q : q[i] = n + i
        /\ drain[c].at = "done" => finished[r] = "yes" /\ Len(got[c]) >= lastWords[r]
    BY <2>1, <2>3 DEF StarterInv
  <2>6. Taken(c)' = n /\ n \in Nat
    BY <1>2, <1>3, ClientNumbers DEF Taken
  <2>7. ASSUME drain[c].at # "done"
        PROVE  n + Len(u) = Len(published'[r]) /\ \A i \in DOMAIN u : u[i] = n + i
    <3>1. /\ 1 \in Tokens /\ q \in Seq(Nat) /\ u \in Seq(Nat)
      <4>1. newest[r] \in 0..MaxAttach /\ newest[r] = 1
        BY <1>2, <2>2 DEF StreamTypes
      <4>2. 1 \in Tokens
        BY <4>1, StreamAssumption DEF Tokens
      <4> QED BY <4>2, <2>2, <1>2 DEF StreamTypes, Items
    <3> HIDE DEF q, u, n
    <3>2. Len(published[r]) \in Nat /\ Len(published'[r]) \in Nat /\ n \in Nat
      BY <2>2, <2>6, <1>2
    <3>3. n + Len(q) = Len(published[r]) /\ \A i \in DOMAIN q : q[i] = n + i
      BY <2>5, <2>7
    <3> QED BY <2>4, <3>1, <3>2, <3>3, StaysCounting
  <2>8. drain[c].at = "done" => finished'[r] = "yes" /\ Len(got[c]) >= lastWords'[r]
    BY <2>2, <2>5 DEF Onward
  <2> HIDE DEF n
  <2> QED BY <2>5, <2>6, <2>7, <2>8, <1>3 DEF StarterInv
<1> QED BY <1>5, <1>7, <1>8, <1>9, <1>10, <1>11 DEF ClientInv
-----------------------------------------------------------------------------
(* What each kind of step does to the handles.                             *)

LEMMA StarterToken ==
  ASSUME StreamInv, NEW c \in Clients, Starter(c)
  PROVE  /\ current[c].run \in Runs /\ 1 \in Tokens
         /\ newest[current[c].run] = 1 /\ attached[current[c].run] = 1
<1>1. AttachmentInv(c) /\ ConnectedInv(c) /\ current[c].run \in Runs \union {NoRun}
  BY ClientNumbers DEF StreamInv, ClientInv
<1>2. current[c].run \in Runs /\ newest[current[c].run] = 1 /\ attached[current[c].run] = 1
  BY <1>1 DEF Starter, AttachmentInv, ConnectedInv
<1>3. 1 \in Tokens
  BY <1>2, StreamAssumption DEF StreamInv, StreamTypes, Tokens
<1> QED BY <1>2, <1>3

Moved == \A r \in Runs : Onward(r) /\ QueueMoves(r) /\ HandleInv(r)'

LEMMA NothingAdded ==
  ASSUME NEW q, Len(q) \in Nat, NEW n \in Nat
  PROVE  Extended(q, q, n, n)
BY DEF Extended

LEMMA HandlesStay ==
  ASSUME StreamInv, StreamTypes', UNCHANGED handleVars
  PROVE  Moved /\ \A c \in Clients : Undisturbed(c)
<1>1. /\ finished' = finished /\ published' = published /\ lastWords' = lastWords
      /\ attached' = attached /\ newest' = newest /\ queues' = queues
  BY DEF handleVars
<1>2. ASSUME NEW r \in Runs, NEW t \in Tokens
      PROVE  Extended(queues[r][t], queues'[r][t], Len(published[r]), Len(published'[r]))
  <2>1. Len(queues[r][t]) \in Nat /\ Len(published[r]) \in Nat
    BY HandleNumbers, LenProperties DEF StreamInv
  <2> QED BY <2>1, <1>1, NothingAdded
<1>3. ASSUME NEW r \in Runs PROVE Onward(r) /\ QueueMoves(r) /\ HandleInv(r)'
  <2>1. HandleInv(r) /\ HandleInv(r)'
    BY <1>1 DEF StreamInv, HandleInv, Rising
  <2>2. Onward(r)
    <3>1. Len(published[r]) \in Nat /\ newest[r] \in Nat
      BY HandleNumbers DEF StreamInv
    <3> QED BY <3>1, <1>1 DEF Onward
  <2>3. newest[r] # 0 => newest[r] \in Tokens
    BY StreamAssumption DEF StreamInv, StreamTypes, Tokens
  <2> QED BY <2>1, <2>2, <2>3, <1>1, <1>2 DEF QueueMoves
<1>4. ASSUME NEW c \in Clients PROVE Undisturbed(c)
  <2>1. Starter(c) => current[c].run \in Runs /\ 1 \in Tokens
    BY StarterToken
  <2> QED BY <2>1, <1>1, <1>2 DEF Undisturbed
<1> QED BY <1>3, <1>4 DEF Moved

LEMMA PublishStep ==
  ASSUME StreamInv, StreamTypes', NEW r \in Runs, NEW kinds \in Seq({"log", "event"}),
         PublishAll(r, kinds), finished[r] # "absent",
         UNCHANGED <<finished, lastWords, attached, newest>>
  PROVE  Moved /\ \A c \in Clients : Undisturbed(c)
<1>1. /\ finished' = finished /\ lastWords' = lastWords /\ attached' = attached /\ newest' = newest
      /\ StreamTypes
  BY DEF StreamInv
<1>2. /\ \A x \in Runs \ {r} : published'[x] = published[x] /\ queues'[x] = queues[x]
      /\ Len(published'[r]) = Len(published[r]) + Len(kinds)
      /\ \A t \in Tokens : t # attached[r] => queues'[r][t] = queues[r][t]
      /\ attached[r] # 0 =>
           Extended(queues[r][attached[r]], queues'[r][attached[r]],
                    Len(published[r]), Len(published'[r]))
  BY <1>1, PublishMoves
<1>3. Len(kinds) \in Nat /\ \A x \in Runs : newest[x] \in Nat /\ attached[x] \in Nat
        /\ Len(published[x]) \in Nat /\ lastWords[x] \in Nat
  BY <1>1, HandleNumbers
<1>4. ASSUME NEW x \in Runs, x # r, NEW t \in Tokens
      PROVE  Extended(queues[x][t], queues'[x][t], Len(published[x]), Len(published'[x]))
  <2>1. Len(queues[x][t]) \in Nat /\ Len(published[x]) \in Nat
    BY <1>1, HandleNumbers, LenProperties
  <2> QED BY <2>1, <1>2, <1>4, NothingAdded
<1>5. ASSUME NEW x \in Runs PROVE Onward(x) /\ QueueMoves(x) /\ HandleInv(x)'
  <2>1. HandleInv(x)
    BY DEF StreamInv
  <2>2. Onward(x)
    BY <1>1, <1>2, <1>3 DEF Onward
  <2>3. newest[x] # 0 => newest[x] \in Tokens
    BY <1>1, StreamAssumption DEF StreamTypes, Tokens
  <2>4. QueueMoves(x)
    <3>1. CASE x # r
      BY <3>1, <2>3, <1>4 DEF QueueMoves
    <3>2. CASE x = r
      BY <3>2, <2>1, <2>3, <1>1, <1>2 DEF QueueMoves, HandleInv
    <3> QED BY <3>1, <3>2
  <2>5. lastWords'[x] <= Len(published'[x])
    BY <2>1, <1>1, <1>2, <1>3 DEF HandleInv
  <2>6. finished[x] = "absent" => published'[x] = published[x]
    BY <1>2
  <2>7. ASSUME NEW t \in Tokens, t > newest[x] PROVE queues'[x][t] = queues[x][t]
    <3>1. t # attached[x]
      BY <2>1, <2>7, <1>3 DEF HandleInv, Tokens
    <3> QED BY <3>1, <1>2
  <2> QED BY <2>2, <2>4, <2>5, <2>6, <2>7, <1>1, HandleKeeps
<1>6. ASSUME NEW c \in Clients PROVE Undisturbed(c)
  <2>1. Starter(c) => current[c].run \in Runs /\ 1 \in Tokens /\ attached[current[c].run] = 1
    BY StarterToken
  <2> QED BY <2>1, <1>1, <1>2, <1>4 DEF Undisturbed
<1> QED BY <1>5, <1>6 DEF Moved

LEMMA FinalizeStep ==
  ASSUME StreamInv, StreamTypes', NEW r \in Runs, FinalizeRun(r)
  PROVE  Moved /\ \A c \in Clients : Undisturbed(c)
<1>1. /\ published' = published /\ attached' = attached /\ newest' = newest /\ queues' = queues
      /\ finished[r] = "no" /\ finished' = [finished EXCEPT ![r] = "yes"]
      /\ lastWords' = [lastWords EXCEPT ![r] = Len(published[r])]
      /\ StreamTypes
  BY DEF FinalizeRun, StreamInv
<1>2. ASSUME NEW x \in Runs, NEW t \in Tokens
      PROVE  Extended(queues[x][t], queues'[x][t], Len(published[x]), Len(published'[x]))
  <2>1. Len(queues[x][t]) \in Nat /\ Len(published[x]) \in Nat
    BY <1>1, HandleNumbers, LenProperties
  <2> QED BY <2>1, <1>1, NothingAdded
<1>3. ASSUME NEW x \in Runs
      PROVE  /\ finished'[x] = IF x = r THEN "yes" ELSE finished[x]
             /\ lastWords'[x] = IF x = r THEN Len(published[r]) ELSE lastWords[x]
  BY <1>1 DEF StreamTypes
<1>4. ASSUME NEW x \in Runs PROVE Onward(x) /\ QueueMoves(x) /\ HandleInv(x)'
  <2>1. HandleInv(x) /\ Len(published[x]) \in Nat /\ newest[x] \in Nat
    BY <1>1, HandleNumbers DEF StreamInv
  <2>2. Onward(x)
    BY <2>1, <1>1, <1>3 DEF Onward
  <2>3. newest[x] # 0 => newest[x] \in Tokens
    BY <1>1, StreamAssumption DEF StreamTypes, Tokens
  <2>4. QueueMoves(x)
    BY <2>3, <1>2 DEF QueueMoves
  <2>5. lastWords'[x] <= Len(published'[x])
    BY <2>1, <1>1, <1>3 DEF HandleInv
  <2>6. finished[x] = "absent" <=> finished'[x] = "absent"
    BY <1>1, <1>3
  <2>7. attached'[x] \in {0, attached[x]} /\ newest'[x] = newest[x]
    BY <1>1
  <2> QED BY <2>2, <2>4, <2>5, <2>6, <2>7, <1>1, HandleKeeps
<1>5. ASSUME NEW c \in Clients PROVE Undisturbed(c)
  <2>1. Starter(c) => current[c].run \in Runs /\ 1 \in Tokens
    BY StarterToken
  <2> QED BY <2>1, <1>1, <1>2 DEF Undisturbed
<1> QED BY <1>4, <1>5 DEF Moved

LEMMA DetachStep ==
  ASSUME StreamInv, StreamTypes', NEW c \in Clients, Detach(current[c]),
         UNCHANGED <<finished, published, lastWords, newest, queues>>
  PROVE  Moved /\ \A d \in Clients \ {c} : Undisturbed(d)
<1> DEFINE a == current[c]
<1>1. /\ finished' = finished /\ published' = published /\ lastWords' = lastWords
      /\ newest' = newest /\ queues' = queues /\ StreamTypes
  BY DEF StreamInv
<1>2. ASSUME NEW r \in Runs
      PROVE  attached'[r] = IF r = a.run /\ newest[r] = a.token THEN 0 ELSE attached[r]
  <2>1. a.run \in Runs \union {NoRun} /\ attached \in [Runs -> 0..MaxAttach]
    BY <1>1, ClientNumbers DEF StreamTypes
  <2> QED BY <2>1, StreamAssumption DEF Detach
<1>3. ASSUME NEW x \in Runs, NEW t \in Tokens
      PROVE  Extended(queues[x][t], queues'[x][t], Len(published[x]), Len(published'[x]))
  <2>1. Len(queues[x][t]) \in Nat /\ Len(published[x]) \in Nat
    BY <1>1, HandleNumbers, LenProperties
  <2> QED BY <2>1, <1>1, NothingAdded
<1>4. ASSUME NEW x \in Runs PROVE Onward(x) /\ QueueMoves(x) /\ HandleInv(x)'
  <2>1. HandleInv(x) /\ Len(published[x]) \in Nat /\ newest[x] \in Nat
    BY <1>1, HandleNumbers DEF StreamInv
  <2>2. Onward(x)
    BY <2>1, <1>1 DEF Onward
  <2>3. newest[x] # 0 => newest[x] \in Tokens
    BY <1>1, StreamAssumption DEF StreamTypes, Tokens
  <2>4. QueueMoves(x)
    BY <2>3, <1>3 DEF QueueMoves
  <2>5. attached'[x] \in {0, attached[x]} /\ lastWords'[x] <= Len(published'[x])
    BY <2>1, <1>1, <1>2 DEF HandleInv
  <2> QED BY <2>2, <2>4, <2>5, <1>1, HandleKeeps
<1>5. ASSUME NEW d \in Clients \ {c} PROVE Undisturbed(d)
  <2>1. Starter(d) => current[d].run \in Runs /\ 1 \in Tokens
    BY StarterToken
  <2>2. ASSUME Watching(d), newest'[current[d].run] = current[d].token
        PROVE  attached'[current[d].run] = attached[current[d].run]
    <3>1. AttachmentInv(d) /\ current[d].run \in Runs \union {NoRun}
      BY <1>1, ClientNumbers DEF StreamInv, ClientInv
    <3>2. current[d].run \in Runs
      BY <3>1, <2>2 DEF AttachmentInv
    <3>3. current[c].run = current[d].run => current[c].token # current[d].token
      BY <3>1, <3>2, StreamAssumption DEF AttachmentInv
    <3> QED BY <3>2, <3>3, <2>2, <1>1, <1>2
  <2> QED BY <2>1, <2>2, <1>3 DEF Undisturbed
<1> QED BY <1>4, <1>5 DEF Moved

LEMMA AttachStep ==
  ASSUME StreamInv, StreamTypes', NEW c \in Clients, NEW r \in Runs, AttachTo(r, c),
         published' = published, lastWords' = lastWords,
         finished'[r] # "absent", finished[r] = "yes" => finished'[r] = "yes",
         \A x \in Runs \ {r} : finished'[x] = finished[x]
  PROVE  /\ Moved
         /\ \A d \in Clients \ {c} :
              /\ Undisturbed(d)
              /\ current'[d] = current[d]
              /\ current'[d].run = r => current'[d].token \in Nat /\ current'[d].token <= newest[r]
         /\ current'[c] = [run |-> r, token |-> newest[r] + 1]
         /\ newest'[r] = newest[r] + 1 /\ attached'[r] = newest[r] + 1
         /\ newest[r] \in Nat /\ newest[r] + 1 \in Tokens
         /\ queues'[r][newest[r] + 1] = <<>>
<1> DEFINE n == newest[r] + 1
<1>1. /\ n \in Tokens
      /\ newest' = [newest EXCEPT ![r] = n]
      /\ attached' = [attached EXCEPT ![r] = n]
      /\ \A x \in Runs \ {r} : queues'[x] = queues[x]
      /\ \A t \in Tokens : t # attached[r] => queues'[r][t] = queues[r][t]
      /\ current' = [current EXCEPT ![c] = [run |-> r, token |-> n]]
      /\ StreamTypes
  BY AttachMoves DEF StreamInv
<1>2. /\ \A x \in Runs : newest'[x] = IF x = r THEN n ELSE newest[x]
      /\ \A x \in Runs : attached'[x] = IF x = r THEN n ELSE attached[x]
      /\ current'[c] = [run |-> r, token |-> n]
      /\ \A d \in Clients \ {c} : current'[d] = current[d]
  <2> HIDE DEF n
  <2> QED BY <1>1 DEF StreamTypes
<1>3. \A x \in Runs : /\ newest[x] \in Nat /\ attached[x] \in Nat /\ Len(published[x]) \in Nat
                      /\ HandleInv(x)
  BY <1>1, HandleNumbers DEF StreamInv
<1>4. ASSUME NEW t \in Tokens, t >= n PROVE queues'[r][t] = <<>>
  <2>1. t # attached[r] /\ t > newest[r]
    BY <1>3, <1>4 DEF HandleInv, Tokens
  <2> QED BY <2>1, <1>1, <1>3 DEF HandleInv
<1>5. ASSUME NEW x \in Runs PROVE Onward(x) /\ QueueMoves(x) /\ HandleInv(x)'
  <2>1. CASE x = r
    <3>1. Onward(r) /\ QueueMoves(r)
      BY <1>2, <1>3 DEF Onward, QueueMoves
    <3>2. Rising(queues'[r][n], Len(published[r]))
      <4>1. queues'[r][n] = <<>>
        BY <1>1, <1>3, <1>4
      <4> QED BY <4>1 DEF Rising
    <3>3. /\ newest'[r] = n /\ attached'[r] = n /\ n # 0
          /\ \A t \in Tokens : t > n => queues'[r][t] = <<>>
          /\ lastWords[r] <= Len(published[r])
      BY <1>2, <1>3, <1>4 DEF Tokens, HandleInv
    <3>4. HandleInv(r)'
      <4> HIDE DEF n
      <4> QED BY <3>2, <3>3 DEF HandleInv
    <3> QED BY <2>1, <3>1, <3>4
  <2>2. CASE x # r
    <3>1. /\ newest'[x] = newest[x] /\ attached'[x] = attached[x] /\ finished'[x] = finished[x]
          /\ queues'[x] = queues[x]
      BY <2>2, <1>1, <1>2
    <3>2. Onward(x)
      BY <3>1, <1>3 DEF Onward
    <3>3. newest[x] # 0 => newest[x] \in Tokens
      BY <1>1, StreamAssumption DEF StreamTypes, Tokens
    <3>4. QueueMoves(x)
      <4>1. \A t \in Tokens : Len(queues[x][t]) \in Nat
        BY <1>1, HandleNumbers, LenProperties
      <4> QED BY <4>1, <3>1, <3>3, <1>3, NothingAdded DEF QueueMoves
    <3>5. HandleInv(x)'
      BY <3>1, <1>3 DEF HandleInv, Rising
    <3> QED BY <3>2, <3>4, <3>5
  <2> QED BY <2>1, <2>2
<1>6. ASSUME NEW d \in Clients \ {c}
      PROVE  /\ Undisturbed(d)
             /\ current'[d].run = r => current'[d].token \in Nat /\ current'[d].token <= newest[r]
  <2>1. /\ AttachmentInv(d) /\ current[d].run \in Runs \union {NoRun} /\ current[d].token \in Nat
    BY <1>1, ClientNumbers DEF StreamInv, ClientInv
  <2>2. current[d].run = r => current[d].token <= newest[r]
    BY <2>1, <1>3, StreamAssumption DEF AttachmentInv
  <2>3. Watching(d) => current[d].run \in Runs
    BY <2>1 DEF AttachmentInv
  <2>4. ASSUME Watching(d), newest'[current[d].run] = current[d].token
        PROVE  current[d].run \in Runs \ {r}
    BY <2>2, <2>3, <2>4, <2>1, <1>2, <1>3
  <2>5. ASSUME Starter(d), newest'[current[d].run] = 1
        PROVE  Extended(queues[current[d].run][1], queues'[current[d].run][1],
                        Len(published[current[d].run]), Len(published'[current[d].run]))
    <3>1. current[d].run \in Runs \ {r} /\ 1 \in Tokens
      BY <2>4, <2>5, StarterToken DEF Starter
    <3>2. Len(queues[current[d].run][1]) \in Nat
      BY <3>1, <1>1, HandleNumbers, LenProperties
    <3> QED BY <3>1, <3>2, <1>1, <1>3, NothingAdded
  <2>6. Watching(d) /\ newest'[current[d].run] = current[d].token
          => attached'[current[d].run] = attached[current[d].run]
    BY <2>4, <1>2
  <2>7. Undisturbed(d)
    <3> HIDE DEF n
    <3> QED BY <2>5, <2>6 DEF Undisturbed
  <2> QED BY <2>1, <2>2, <2>7, <1>2
<1> QED BY <1>1, <1>2, <1>3, <1>4, <1>5, <1>6 DEF Moved

LEMMA DrainGetStep ==
  ASSUME StreamInv, StreamTypes', NEW c \in Clients, DrainGet(c)
  PROVE  Moved /\ \A d \in Clients \ {c} : Undisturbed(d)
<1> DEFINE r == drain[c].run
           t == drain[c].token
<1>1. /\ finished' = finished /\ published' = published /\ lastWords' = lastWords
      /\ attached' = attached /\ newest' = newest /\ StreamTypes
  BY DEF DrainGet, StreamInv
<1>2. /\ AttachmentInv(c) /\ current[c].run \in Runs \union {NoRun} /\ r = current[c].run
      /\ t \in current[c].token..newest[r] /\ Watching(c)
  <2>1. DrainInv(c) /\ AttachmentInv(c) /\ drain[c].at = "get" /\ Watching(c)
    BY DEF StreamInv, ClientInv, DrainGet, DrainAt, Watching
  <2> QED BY <2>1, <1>1, ClientNumbers DEF DrainInv
<1>3. /\ r \in Runs /\ newest[r] \in 0..MaxAttach /\ current[c].token \in 1..newest[r]
      /\ t \in Tokens
  <2>1. r \in Runs /\ current[c].token \in 1..newest[r]
    BY <1>2 DEF AttachmentInv
  <2>2. newest[r] \in 0..MaxAttach
    BY <2>1, <1>1 DEF StreamTypes
  <2> QED BY <2>1, <2>2, <1>2, StreamAssumption DEF Tokens
<1>4. /\ Shortened(queues[r][t], queues'[r][t])
      /\ \A x \in Runs \ {r} : queues'[x] = queues[x]
      /\ \A y \in Tokens : y # t => queues'[r][y] = queues[r][y]
  BY <1>1, <1>3, DrainMoves
<1>5. ASSUME NEW x \in Runs, NEW y \in Tokens, ~(x = r /\ y = t)
      PROVE  Extended(queues[x][y], queues'[x][y], Len(published[x]), Len(published'[x]))
  <2>1. Len(queues[x][y]) \in Nat /\ Len(published[x]) \in Nat
    BY <1>1, HandleNumbers, LenProperties
  <2>2. queues'[x][y] = queues[x][y]
    BY <1>4, <1>5
  <2> QED BY <2>1, <2>2, <1>1, NothingAdded
<1>6. ASSUME NEW x \in Runs PROVE Onward(x) /\ QueueMoves(x) /\ HandleInv(x)'
  <2>1. HandleInv(x) /\ Len(published[x]) \in Nat /\ newest[x] \in Nat
    BY <1>1, HandleNumbers DEF StreamInv
  <2>2. Onward(x)
    BY <2>1, <1>1 DEF Onward
  <2>3. newest[x] # 0 => newest[x] \in Tokens
    BY <1>1, StreamAssumption DEF StreamTypes, Tokens
  <2>4. QueueMoves(x)
    BY <2>3, <1>1, <1>4, <1>5 DEF QueueMoves
  <2>5. lastWords'[x] <= Len(published'[x])
    BY <2>1, <1>1 DEF HandleInv
  <2>6. ASSUME NEW y \in Tokens, y > newest[x] PROVE queues'[x][y] = queues[x][y]
    <3>1. ~(x = r /\ y = t)
      BY <2>6, <1>2, <1>3, <2>1 DEF Tokens
    <3> QED BY <3>1, <1>4
  <2> QED BY <2>2, <2>4, <2>5, <2>6, <1>1, HandleKeeps
<1>7. ASSUME NEW d \in Clients \ {c} PROVE Undisturbed(d)
  <2>1. ASSUME Starter(d)
        PROVE  /\ current[d].run \in Runs /\ 1 \in Tokens
               /\ ~(current[d].run = r /\ 1 = t)
    <3>1. current[d].run \in Runs /\ 1 \in Tokens
      BY <2>1, StarterToken
    <3>2. current[c].token = current[d].token => current[d].run # r
      BY <1>2, <1>3, StreamAssumption DEF AttachmentInv
    <3>3. t = 1 => current[c].token = 1
      BY <1>2, <1>3
    <3> QED BY <3>1, <3>2, <3>3, <2>1 DEF Starter
  <2> QED BY <2>1, <1>1, <1>5 DEF Undisturbed
<1> QED BY <1>6, <1>7 DEF Moved
-----------------------------------------------------------------------------
(* The others of a step of c, and a client that is not watching.           *)

Others(c) == \A d \in Clients \ {c} : Quiet(d) /\ Undisturbed(d)

LEMMA OthersKeep ==
  ASSUME StreamInv, StreamTypes', NEW c \in Clients, Moved, Others(c), ClientInv(c)',
         \/ current'[c] = current[c]
         \/ current[c].run \in Runs \union {NoRun}
            /\ current'[c].run \in Runs
            /\ current'[c].token = newest[current'[c].run] + 1
  PROVE  StreamInv'
<1>1. ASSUME NEW d \in Clients \ {c} PROVE ClientInv(d)'
  <2>1. Quiet(d) /\ Undisturbed(d) /\ \A r \in Runs : Onward(r) /\ QueueMoves(r)
    BY DEF Others, Moved
  <2>2. ASSUME NEW e \in Clients \ {d}
        PROVE  \/ current'[e] = current[e]
               \/ current[d].run # NoRun /\ current'[e].run = current[d].run
                  => current'[e].token # current[d].token
    <3>1. CASE e # c
      BY <3>1 DEF Others, Quiet
    <3>2. CASE e = c /\ current'[c] # current[c]
      <4>1. AttachmentInv(d) /\ current[d].token \in Nat /\ current[d].run \in Runs \union {NoRun}
        BY ClientNumbers DEF StreamInv, ClientInv
      <4>2. \A r \in Runs : newest[r] \in Nat
        BY HandleNumbers DEF StreamInv
      <4> QED BY <3>2, <4>1, <4>2 DEF AttachmentInv
    <3> QED BY <3>1, <3>2
  <2> QED BY <2>1, <2>2, QuietKeeps
<1> QED BY <1>1 DEF StreamInv, Moved

(* A step that no client notices. *)
LEMMA AllQuiet ==
  ASSUME StreamInv, StreamTypes', Moved, \A d \in Clients : Quiet(d) /\ Undisturbed(d)
  PROVE  StreamInv'
<1>1. ASSUME NEW d \in Clients PROVE ClientInv(d)'
  <2>1. Quiet(d) /\ Undisturbed(d) /\ \A r \in Runs : Onward(r) /\ QueueMoves(r)
    BY DEF Moved
  <2>2. \A e \in Clients : current'[e] = current[e]
    BY DEF Quiet
  <2> QED BY <2>1, <2>2, QuietKeeps
<1> QED BY <1>1 DEF StreamInv, Moved

(* A client that is not watching after the step. *)
LEMMA AwayKeeps ==
  ASSUME StreamInv, StreamTypes', NEW c \in Clients, Moved, Others(c),
         current'[c] = current[c],
         mode'[c] \in {"outer", "closed", "replay", "attach"}, drain'[c].at = "none",
         ReplayInv(c)', Ordered(got'[c])
  PROVE  StreamInv'
<1>1. ~Watching(c)'
  BY DEF Watching
<1>2. AttachmentInv(c)'
  <2>1. AttachmentInv(c) /\ current[c].run \in Runs \union {NoRun} /\ current[c].token \in Nat
    BY ClientNumbers DEF StreamInv, ClientInv
  <2>2. \A r \in Runs : newest[r] \in Nat /\ newest'[r] \in Nat /\ newest'[r] >= newest[r]
    <3>1. \A r \in Runs : newest[r] \in Nat
      BY HandleNumbers DEF StreamInv
    <3> QED BY <3>1 DEF Moved, Onward
  <2>3. \A d \in Clients \ {c} : current'[d] = current[d]
    BY DEF Others, Quiet
  <2>4. current[c].run # NoRun => current[c].token \in 1..newest'[current[c].run]
    BY <2>1, <2>2 DEF AttachmentInv
  <2>5. current[c].run = NoRun => current[c].token = 0
    BY <2>1 DEF AttachmentInv
  <2>6. \A d \in Clients : d # c /\ current'[d].run = current[c].run /\ current[c].run # NoRun
           => current'[d].token # current[c].token
    BY <2>1, <2>3 DEF AttachmentInv
  <2> QED BY <1>1, <2>4, <2>5, <2>6 DEF AttachmentInv
<1>3. DrainInv(c)'
  BY DEF DrainInv
<1>4. ConnectedInv(c)'
  BY <1>1 DEF ConnectedInv
<1>5. GotInv(c)'
  BY <1>1 DEF GotInv, Draining
<1>6. StarterInv(c)'
  BY <1>1 DEF StarterInv, Starter
<1> QED BY <1>2, <1>3, <1>4, <1>5, <1>6, OthersKeep DEF ClientInv

(* Who is quiet in a step of c. *)
LEMMA QuietOthers ==
  ASSUME StreamTypes, NEW c \in Clients,
         \A d \in Clients \ {c} :
           /\ mode'[d] = mode[d] /\ current'[d] = current[d] /\ target'[d] = target[d]
           /\ replay'[d] = replay[d] /\ drain'[d] = drain[d] /\ got'[d] = got[d]
           /\ inbox'[d] = inbox[d] /\ received'[d] = received[d],
         \A d \in Clients \ {c} : Undisturbed(d)
  PROVE  Others(c)
BY DEF Others, Quiet, Gone

(* Taking a message that is no disconnect leaves the disconnect behind it. *)
LEMMA GoneStays ==
  ASSUME StreamTypes, NEW c \in Clients, inbox[c] # <<>>,
         inbox'[c] = Tail(inbox[c]),
         \/ Head(inbox[c]).type # "bye" /\ received'[c] = received[c]
         \/ received[c] = Nothing /\ received'[c] = Head(inbox[c])
  PROVE  Gone(c) => Gone(c)'
<1> DEFINE s == inbox[c]
<1>1. s \in Seq(Requests) /\ s # <<>>
  BY DEF StreamTypes
<1> HIDE DEF s
<1>2. /\ Head(s) = s[1] /\ DOMAIN s = 1..Len(s) /\ Len(s) \in Nat
      /\ DOMAIN Tail(s) = 1..(Len(s) - 1)
      /\ \A i \in 1..(Len(s) - 1) : Tail(s)[i] = s[i + 1]
  BY <1>1
<1>3. ASSUME NEW i \in DOMAIN s, i # 1 PROVE i - 1 \in DOMAIN Tail(s) /\ Tail(s)[i - 1] = s[i]
  BY <1>2, <1>3
<1>4. CASE received[c].type = "bye"
  BY <1>4 DEF Gone, Nothing, s
<1>5. CASE \E i \in DOMAIN s : s[i].type = "bye"
  <2>1. PICK i \in DOMAIN s : s[i].type = "bye"
    BY <1>5
  <2>2. CASE i = 1
    BY <2>1, <2>2, <1>2 DEF Gone, s
  <2>3. CASE i # 1
    BY <2>1, <2>3, <1>3 DEF Gone, s
  <2> QED BY <2>2, <2>3
<1> QED BY <1>4, <1>5 DEF Gone, s
-----------------------------------------------------------------------------
(* Types.                                                                  *)

LEMMA InboxKinds ==
  ASSUME StreamTypes, NEW c \in Clients
  PROVE  /\ inbox[c] \in Seq(Requests)
         /\ inbox[c] # <<>> => Tail(inbox[c]) \in Seq(Requests) /\ Head(inbox[c]) \in Requests
         /\ \A m \in Requests : Append(inbox[c], m) \in Seq(Requests)
         /\ received[c].type # "none" => received[c] \in Requests
         /\ received[c] \in Requests =>
              /\ <<received[c]>> \in Seq(Requests)
              /\ <<received[c]>> \o inbox[c] \in Seq(Requests)
<1>1. inbox[c] \in Seq(Requests) /\ received[c] \in Requests \union {Nothing}
  BY DEF StreamTypes
<1>2. received[c].type # "none" => received[c] \in Requests
  BY <1>1 DEF Nothing
<1> HIDE DEF Requests
<1>3. received[c] \in Requests => <<received[c]>> \in Seq(Requests)
  OBVIOUS
<1>4. received[c] \in Requests => <<received[c]>> \o inbox[c] \in Seq(Requests)
  BY <1>1, <1>3, ConcatProperties
<1> QED BY <1>1, <1>2, <1>3, <1>4

LEMMA DeliverTypes ==
  ASSUME StreamTypes, NEW c \in Clients, NEW via \in {"replay", "live", "marker"},
         NEW r \in Runs, NEW pos \in Nat, Deliver(c, via, r, pos)
  PROVE  /\ got' \in [Clients -> Seq(Sent)]
         /\ got'[c] = Append(got[c], [via |-> via, run |-> r, pos |-> pos])
         /\ Len(got'[c]) = Len(got[c]) + 1
         /\ \A i \in DOMAIN got[c] : i \in DOMAIN got'[c] /\ got'[c][i] = got[c][i]
         /\ got'[c][Len(got[c]) + 1] = [via |-> via, run |-> r, pos |-> pos]
         /\ DOMAIN got'[c] = 1..(Len(got[c]) + 1)
         /\ \A d \in Clients \ {c} : got'[d] = got[d]
<1> DEFINE m == [via |-> via, run |-> r, pos |-> pos]
           g == got[c]
<1>1. m \in Sent /\ g \in Seq(Sent) /\ got \in [Clients -> Seq(Sent)]
  BY DEF Sent, Items, StreamTypes
<1>2. got' = [got EXCEPT ![c] = Append(g, m)]
  BY DEF Deliver
<1> HIDE DEF m
<1>3. /\ Append(g, m) \in Seq(Sent) /\ Len(Append(g, m)) = Len(g) + 1 /\ Len(g) \in Nat
      /\ \A i \in 1..Len(g) : Append(g, m)[i] = g[i]
      /\ Append(g, m)[Len(g) + 1] = m
      /\ DOMAIN g = 1..Len(g) /\ DOMAIN Append(g, m) = 1..(Len(g) + 1)
  BY <1>1, AppendProperties
<1>4. got'[c] = Append(g, m) /\ got' \in [Clients -> Seq(Sent)]
      /\ \A d \in Clients \ {c} : got'[d] = got[d]
  BY <1>1, <1>2, <1>3
<1> QED BY <1>3, <1>4 DEF m

LEMMA IdleTypes ==
  ASSUME StreamTypes, NEW c \in Clients, NEW at \in {"none", "new", "done"},
         drain' = [drain EXCEPT ![c] = [Idle EXCEPT !.at = at]] \/ EndDrain(c)
         \/ drain' = [drain EXCEPT ![c] = Idle]
  PROVE  /\ drain' \in [Clients -> Drains]
         /\ EndDrain(c) => drain'[c].at = "done"
         /\ drain' = [drain EXCEPT ![c] = [Idle EXCEPT !.at = at]] => drain'[c].at = at
         /\ drain' = [drain EXCEPT ![c] = Idle] => drain'[c].at = "none"
         /\ \A d \in Clients \ {c} : drain'[d] = drain[d]
<1>1. \A x \in {"none", "new", "done"} : [Idle EXCEPT !.at = x] \in Drains
                                        /\ [Idle EXCEPT !.at = x].at = x
  BY DEF Idle, Drains, Marker, Items
<1>2. Idle \in Drains /\ Idle.at = "none"
  BY DEF Idle, Drains, Marker, Items
<1>3. drain \in [Clients -> Drains]
  BY DEF StreamTypes
<1> QED BY <1>1, <1>2, <1>3 DEF EndDrain, SetDrain

LEMMA RunTypes ==
  ASSUME StreamInv, NEW r \in Runs, Publish(r) \/ FinalizeRun(r)
  PROVE  StreamTypes'
<1>1. StreamTypes
  BY DEF StreamInv
<1>2. CASE Publish(r)
  <2>1. PICK kind \in {"log", "event"} : PublishAll(r, <<kind>>)
    BY <1>2 DEF Publish
  <2>2. <<kind>> \in Seq({"log", "event"})
    OBVIOUS
  <2> QED BY <1>1, <1>2, <2>1, <2>2, PublishMoves DEF Publish, socketVars, StreamTypes
<1>3. CASE FinalizeRun(r)
  <2>1. Len(published[r]) \in Nat
    BY <1>1, HandleNumbers
  <2> QED BY <1>1, <1>3, <2>1 DEF FinalizeRun, socketVars, StreamTypes
<1> QED BY <1>2, <1>3

LEMMA DrainTypes ==
  ASSUME StreamInv, NEW c \in Clients, DrainStep(c)
  PROVE  StreamTypes'
<1>1. StreamTypes /\ ClientInv(c)
  BY DEF StreamInv
<1>2. mode[c] = "watch" /\ current[c].run \in Runs
  <2>1. mode[c] = "watch"
    BY DEF DrainStep, DrainStart, DrainGet, DrainTimeout, DrainForward, DrainAt
  <2>2. AttachmentInv(c) /\ current[c].run \in Runs \union {NoRun}
    BY <1>1, ClientNumbers DEF ClientInv
  <2> QED BY <2>1, <2>2 DEF AttachmentInv, Watching
<1>3. EndDrain(c) => drain' \in [Clients -> Drains]
  BY <1>1, IdleTypes
<1>4. CASE DrainStart(c)
  <2>1. drain' \in [Clients -> Drains]
    <3>1. CASE attached[current[c].run] = 0
      BY <1>3, <1>4, <3>1 DEF DrainStart
    <3>2. CASE attached[current[c].run] # 0
      <4>1. [at |-> "get", run |-> current[c].run, token |-> attached[current[c].run],
             held |-> Marker] \in Drains
        BY <1>1, <1>2, HandleNumbers DEF Drains, Marker, Items
      <4> QED BY <1>1, <1>4, <3>2, <4>1 DEF DrainStart, SetDrain, StreamTypes
    <3> QED BY <3>1, <3>2
  <2> QED BY <1>1, <1>4, <2>1 DEF DrainStart, handleVars, StreamTypes
<1>5. CASE DrainGet(c)
  <2>1. DrainInv(c) /\ AttachmentInv(c) /\ drain[c].at = "get" /\ current[c].token \in Nat
    BY <1>1, <1>5, ClientNumbers DEF ClientInv, DrainGet, DrainAt
  <2>2. newest[current[c].run] \in 0..MaxAttach
    BY <1>1, <1>2 DEF StreamTypes
  <2>3. drain[c].run \in Runs /\ drain[c].token \in Tokens
    BY <2>1, <2>2, <1>2, StreamAssumption DEF DrainInv, AttachmentInv, Tokens
  <2> QED BY <1>1, <1>5, <2>3, DrainMoves DEF DrainGet, StreamTypes
<1>6. CASE DrainTimeout(c)
  BY <1>1, <1>3, <1>6 DEF DrainTimeout, handleVars, StreamTypes
<1>7. CASE DrainForward(c)
  <2>1. drain' \in [Clients -> Drains] /\ got' \in [Clients -> Seq(Sent)]
    <3>1. CASE EndDrain(c) /\ Deliver(c, "marker", current[c].run, Marker)
      BY <1>1, <1>2, <1>3, <3>1, DeliverTypes DEF Marker
    <3>2. CASE /\ SetDrain(c, [drain[c] EXCEPT !.at = "get", !.held = Marker])
               /\ Deliver(c, "live", current[c].run, drain[c].held)
      <4>1. [drain[c] EXCEPT !.at = "get", !.held = Marker] \in Drains
        BY <1>1 DEF Drains, Marker, Items, StreamTypes
      <4>2. got' \in [Clients -> Seq(Sent)]
        BY <1>1, <1>2, <3>2, DeliverTypes, ClientNumbers
      <4> QED BY <1>1, <3>2, <4>1, <4>2 DEF SetDrain, StreamTypes
    <3>3. CASE EndDrain(c) /\ UNCHANGED got
      BY <1>1, <1>3, <3>3 DEF StreamTypes
    <3> QED BY <1>7, <3>1, <3>2, <3>3 DEF DrainForward
  <2> QED BY <1>1, <1>7, <2>1 DEF DrainForward, handleVars, StreamTypes
<1> QED BY <1>4, <1>5, <1>6, <1>7 DEF DrainStep

LEMMA DetachTypes ==
  ASSUME StreamTypes, NEW c \in Clients, Detach(current[c])
  PROVE  attached' \in [Runs -> 0..MaxAttach]
BY StreamAssumption DEF Detach, StreamTypes

LEMMA StopTypes ==
  ASSUME StreamTypes, NEW c \in Clients, StopCurrent(c)
  PROVE  published' \in [Runs -> Seq({"log", "event"})]
         /\ queues' \in [Runs -> [Tokens -> Seq(Items)]]
<1>1. CASE current[c].run = NoRun
  BY <1>1 DEF StopCurrent, StreamTypes
<1>2. CASE current[c].run # NoRun
  <2>1. current[c].run \in Runs
    BY <1>2, ClientNumbers
  <2>2. <<"event", "log">> \in Seq({"log", "event"})
    OBVIOUS
  <2> QED BY <2>1, <2>2, <1>2, PublishMoves DEF StopCurrent
<1> QED BY <1>1, <1>2

LEMMA InboxTypes ==
  ASSUME StreamTypes, NEW c \in Clients, NEW s \in Seq(Requests),
         inbox' = [inbox EXCEPT ![c] = s]
  PROVE  inbox' \in [Clients -> Seq(Requests)] /\ inbox'[c] = s
         /\ \A d \in Clients \ {c} : inbox'[d] = inbox[d]
BY DEF StreamTypes

LEMMA DispatchTypes ==
  ASSUME StreamTypes, NEW c \in Clients, NEW type, Dispatching(c, type)
  PROVE  /\ inbox' \in [Clients -> Seq(Requests)]
         /\ mode[c] = "outer" /\ inbox[c] # <<>> /\ inbox'[c] = Tail(inbox[c])
         /\ Head(inbox[c]) \in Requests /\ Head(inbox[c]).type = type
         /\ \A d \in Clients \ {c} : inbox'[d] = inbox[d]
<1>1. inbox[c] # <<>> /\ inbox' = [inbox EXCEPT ![c] = Tail(inbox[c])]
  BY DEF Dispatching
<1>2. Tail(inbox[c]) \in Seq(Requests) /\ Head(inbox[c]) \in Requests
  BY <1>1, InboxKinds
<1> QED BY <1>1, <1>2, InboxTypes DEF Dispatching

LEMMA NothingSent ==
  ASSUME StreamTypes, NEW c \in Clients, got' = [got EXCEPT ![c] = <<>>]
  PROVE  got' \in [Clients -> Seq(Sent)]
BY DEF StreamTypes

LEMMA OuterTypes ==
  ASSUME StreamInv, NEW c \in Clients,
         \/ StartNewRun(c) \/ AttachExisting(c) \/ AttachUnknown(c)
         \/ StopOutside(c) \/ DisconnectOutside(c)
  PROVE  StreamTypes'
<1>1. StreamTypes
  BY DEF StreamInv
<1>2. CASE StartNewRun(c)
  <2>1. PICK r \in Runs : finished' = [finished EXCEPT ![r] = "no"] /\ AttachTo(r, c)
    BY <1>2 DEF StartNewRun
  <2>2. inbox' \in [Clients -> Seq(Requests)]
    BY <1>1, <1>2, DispatchTypes DEF StartNewRun
  <2>3. /\ finished' \in [Runs -> {"absent", "no", "yes"}]
        /\ got' \in [Clients -> Seq(Sent)]
        /\ mode' \in [Clients -> {"outer", "greet", "replay", "attach", "watch", "closed"}]
    BY <1>1, <1>2, <2>1, NothingSent DEF StartNewRun, StreamTypes
  <2>4. UNCHANGED <<published, lastWords, target, replay, drain, received, requests>>
    BY <1>2 DEF StartNewRun
  <2> QED BY <1>1, <2>1, <2>2, <2>3, <2>4, AttachMoves DEF StreamTypes
<1>3. CASE AttachExisting(c)
  <2> DEFINE r == Head(inbox[c]).run
  <2>1. /\ inbox' \in [Clients -> Seq(Requests)] /\ Head(inbox[c]) \in Requests
        /\ Head(inbox[c]).type = "attach"
    BY <1>1, <1>3, DispatchTypes DEF AttachExisting
  <2>2. r \in Runs
    BY <2>1 DEF Requests
  <2>3. BufferedReplay(r) \in Seq(Nat)
    <3>1. BufferedReplay(r) \in Seq(1..Len(published[r])) /\ Len(published[r]) \in Nat
      BY <1>1, <2>2, ReplayIsPublished, HandleNumbers
    <3>2. \A i \in 1..Len(published[r]) : i \in Nat
      BY <3>1
    <3> HIDE DEF r
    <3>3. 1..Len(published[r]) \subseteq Nat
      BY <3>2
    <3> QED BY <3>1, <3>3, SeqDef
  <2>4. target' = [target EXCEPT ![c] = r] /\ replay' = [replay EXCEPT ![c] = BufferedReplay(r)]
    BY <1>3 DEF AttachExisting
  <2> HIDE DEF r
  <2>5. target' \in [Clients -> Runs \union {NoRun}] /\ replay' \in [Clients -> Seq(Nat)]
    BY <1>1, <2>2, <2>3, <2>4 DEF StreamTypes
  <2>6. /\ got' \in [Clients -> Seq(Sent)]
        /\ mode' \in [Clients -> {"outer", "greet", "replay", "attach", "watch", "closed"}]
    BY <1>1, <1>3, NothingSent DEF AttachExisting, StreamTypes
  <2>7. UNCHANGED <<handleVars, current, drain, received, requests>>
    BY <1>3 DEF AttachExisting
  <2> QED BY <1>1, <2>1, <2>5, <2>6, <2>7 DEF handleVars, StreamTypes
<1>4. CASE AttachUnknown(c)
  <2>1. inbox' \in [Clients -> Seq(Requests)]
    BY <1>1, <1>4, DispatchTypes DEF AttachUnknown
  <2>2. attached' \in [Runs -> 0..MaxAttach]
        /\ mode' \in [Clients -> {"outer", "greet", "replay", "attach", "watch", "closed"}]
    BY <1>1, <1>4, DetachTypes DEF AttachUnknown, StreamTypes
  <2> QED BY <1>1, <1>4, <2>1, <2>2 DEF AttachUnknown, StreamTypes
<1>5. CASE StopOutside(c)
  <2>1. inbox' \in [Clients -> Seq(Requests)]
    BY <1>1, <1>5, DispatchTypes DEF StopOutside
  <2> QED BY <1>1, <1>5, <2>1, StopTypes DEF StopOutside, StreamTypes
<1>6. CASE DisconnectOutside(c)
  <2>1. inbox' \in [Clients -> Seq(Requests)]
    BY <1>1, <1>6, DispatchTypes DEF DisconnectOutside
  <2> QED BY <1>1, <1>6, <2>1, DetachTypes DEF DisconnectOutside, StreamTypes
<1> QED BY <1>2, <1>3, <1>4, <1>5, <1>6

LEMMA ReplayTypes ==
  ASSUME StreamInv, NEW c \in Clients,
         Greeted(c) \/ ReplayOne(c) \/ Replayed(c) \/ AttachAndWatch(c) \/ AttachFailed(c)
  PROVE  StreamTypes'
<1>1. StreamTypes
  BY DEF StreamInv
<1>2. CASE Greeted(c)
  <2>1. drain' \in [Clients -> Drains]
    BY <1>1, <1>2, IdleTypes DEF Greeted
  <2> QED BY <1>1, <1>2, <2>1 DEF Greeted, handleVars, StreamTypes
<1>3. CASE ReplayOne(c)
  <2>1. target[c] \in Runs /\ replay[c] \in Seq(Nat) /\ replay[c] # <<>>
    <3>1. Replaying(c) /\ ReplayInv(c)
      BY <1>3 DEF ReplayOne, Replaying, StreamInv, ClientInv
    <3> QED BY <3>1, <1>1, <1>3 DEF ReplayInv, ReplayOne, StreamTypes
  <2>2. Head(replay[c]) \in Nat /\ Tail(replay[c]) \in Seq(Nat) /\ <<>> \in Seq(Nat)
    BY <2>1
  <2>3. got' \in [Clients -> Seq(Sent)]
    <3>1. CASE Deliver(c, "replay", target[c], Head(replay[c]))
      BY <1>1, <2>1, <2>2, <3>1, DeliverTypes
    <3>2. CASE UNCHANGED got
      BY <1>1, <3>2 DEF StreamTypes
    <3> QED BY <1>3, <3>1, <3>2 DEF ReplayOne
  <2>4. replay' \in [Clients -> Seq(Nat)]
    BY <1>1, <1>3, <2>2 DEF ReplayOne, StreamTypes
  <2> QED BY <1>1, <1>3, <2>3, <2>4 DEF ReplayOne, handleVars, StreamTypes
<1>4. CASE Replayed(c)
  BY <1>1, <1>4 DEF Replayed, handleVars, StreamTypes
<1>5. CASE AttachAndWatch(c)
  <2>1. drain' \in [Clients -> Drains]
    BY <1>1, <1>5, IdleTypes DEF AttachAndWatch
  <2>2. target[c] \in Runs
    BY <1>5 DEF AttachAndWatch, Replaying, StreamInv, ClientInv, ReplayInv
  <2> QED BY <1>1, <1>5, <2>1, <2>2, AttachMoves DEF AttachAndWatch, StreamTypes
<1>6. CASE AttachFailed(c)
  BY <1>1, <1>6, DetachTypes DEF AttachFailed, StreamTypes
<1> QED BY <1>2, <1>3, <1>4, <1>5, <1>6

LEMMA WatchTypes ==
  ASSUME StreamInv, NEW c \in Clients,
         Receive(c) \/ WatchEnds(c) \/ StopWatched(c) \/ DisconnectWatched(c) \/ Reattach(c)
  PROVE  StreamTypes'
<1>1. StreamTypes
  BY DEF StreamInv
<1>2. CASE Receive(c)
  <2>1. Tail(inbox[c]) \in Seq(Requests) /\ Head(inbox[c]) \in Requests
    BY <1>1, <1>2, InboxKinds DEF Receive
  <2>2. inbox' \in [Clients -> Seq(Requests)]
    BY <1>1, <1>2, <2>1, InboxTypes DEF Receive
  <2>3. received' \in [Clients -> Requests \union {Nothing}]
    BY <1>1, <1>2, <2>1 DEF Receive, StreamTypes
  <2> QED BY <1>1, <1>2, <2>2, <2>3 DEF Receive, handleVars, StreamTypes
<1>3. CASE WatchEnds(c)
  <2>1. drain' \in [Clients -> Drains] /\ attached' \in [Runs -> 0..MaxAttach]
    BY <1>1, <1>3, IdleTypes, DetachTypes DEF WatchEnds
  <2>2. inbox' \in [Clients -> Seq(Requests)]
    <3>1. CASE received[c].type = "bye"
      <4>1. <<received[c]>> \in Seq(Requests)
        BY <1>1, <3>1, InboxKinds
      <4> QED BY <1>1, <1>3, <3>1, <4>1, InboxTypes DEF WatchEnds
    <3>2. CASE received[c].type # "bye"
      BY <1>1, <1>3, <3>2 DEF WatchEnds, StreamTypes
    <3> QED BY <3>1, <3>2
  <2> QED BY <1>1, <1>3, <2>1, <2>2 DEF WatchEnds, StreamTypes
<1>4. CASE StopWatched(c)
  BY <1>1, <1>4, StopTypes DEF StopWatched, WatchReceived, StreamTypes
<1>5. CASE DisconnectWatched(c)
  <2>1. drain' \in [Clients -> Drains] /\ attached' \in [Runs -> 0..MaxAttach]
    BY <1>1, <1>5, IdleTypes, DetachTypes DEF DisconnectWatched
  <2> QED BY <1>1, <1>5, <2>1 DEF DisconnectWatched, WatchReceived, StreamTypes
<1>6. CASE Reattach(c)
  <2>1. drain' \in [Clients -> Drains]
    BY <1>1, <1>6, IdleTypes DEF Reattach
  <2>2. <<received[c]>> \o inbox[c] \in Seq(Requests)
    BY <1>1, <1>6, InboxKinds DEF Reattach, WatchReceived
  <2>3. inbox' \in [Clients -> Seq(Requests)]
    BY <1>1, <1>6, <2>2, InboxTypes DEF Reattach
  <2> QED BY <1>1, <1>6, <2>1, <2>3 DEF Reattach, WatchReceived, handleVars, StreamTypes
<1> QED BY <1>2, <1>3, <1>4, <1>5, <1>6

LEMMA SendTypes ==
  ASSUME StreamInv, NEW c \in Clients, NEW m \in Requests, SendRequest(c, m)
  PROVE  StreamTypes'
<1>1. StreamTypes
  BY DEF StreamInv
<1>2. inbox' \in [Clients -> Seq(Requests)]
  BY <1>1, InboxKinds, InboxTypes DEF SendRequest
<1>3. requests' \in [Clients -> Nat]
  <2>1. requests' = [requests EXCEPT ![c] = @ + 1]
    BY DEF SendRequest
  <2>2. requests \in [Clients -> Nat]
    BY <1>1 DEF StreamTypes
  <2> QED BY <2>1, <2>2
<1> QED BY <1>1, <1>2, <1>3 DEF SendRequest, handleVars, StreamTypes
-----------------------------------------------------------------------------
(* Steps no client notices.                                                *)

LEMMA RunSteps ==
  ASSUME StreamInv, NEW r \in Runs, Publish(r) \/ FinalizeRun(r)
  PROVE  StreamInv'
<1>1. StreamTypes'
  BY RunTypes
<1>2. \A d \in Clients : Quiet(d)
  <2>1. UNCHANGED socketVars
    BY DEF Publish, FinalizeRun
  <2> QED BY <2>1 DEF socketVars, Quiet, Gone
<1>3. Moved /\ \A d \in Clients : Undisturbed(d)
  <2>1. CASE Publish(r)
    <3>1. PICK kind \in {"log", "event"} : PublishAll(r, <<kind>>)
      BY <2>1 DEF Publish
    <3>2. <<kind>> \in Seq({"log", "event"})
      OBVIOUS
    <3>3. UNCHANGED <<finished, lastWords, attached, newest>> /\ finished[r] # "absent"
      BY <2>1 DEF Publish
    <3> QED BY <1>1, <3>1, <3>2, <3>3, PublishStep
  <2>2. CASE FinalizeRun(r)
    BY <1>1, <2>2, FinalizeStep
  <2> QED BY <2>1, <2>2
<1> QED BY <1>1, <1>2, <1>3, AllQuiet

LEMMA SendStep ==
  ASSUME StreamInv, NEW c \in Clients, NEW m \in Requests, SendRequest(c, m)
  PROVE  StreamInv'
<1>1. StreamTypes' /\ StreamTypes
  BY SendTypes DEF StreamInv
<1>2. /\ UNCHANGED <<handleVars, mode, current, target, replay, drain, received, got>>
      /\ inbox' = [inbox EXCEPT ![c] = Append(@, m)]
  BY DEF SendRequest
<1>3. ASSUME NEW d \in Clients PROVE Gone(d) => Gone(d)'
  <2>1. CASE d = c
    <3>1. inbox[c] \in Seq(Requests) /\ inbox'[c] = Append(inbox[c], m)
      BY <1>1, <1>2 DEF StreamTypes
    <3>2. \A i \in DOMAIN inbox[c] : i \in DOMAIN inbox'[c] /\ inbox'[c][i] = inbox[c][i]
      BY <3>1, AppendProperties
    <3> QED BY <2>1, <3>2, <1>2 DEF Gone
  <2>2. CASE d # c
    BY <2>2, <1>1, <1>2 DEF Gone, StreamTypes
  <2> QED BY <2>1, <2>2
<1>4. \A d \in Clients : Quiet(d)
  BY <1>2, <1>3 DEF Quiet
<1> QED BY <1>1, <1>2, <1>4, HandlesStay, AllQuiet

(* A stop is published by whichever run the client has, if any. *)
LEMMA StopMoves ==
  ASSUME StreamInv, StreamTypes', NEW c \in Clients, StopCurrent(c),
         UNCHANGED <<finished, lastWords, attached, newest>>
  PROVE  Moved /\ \A d \in Clients : Undisturbed(d)
<1>1. CASE current[c].run = NoRun
  BY <1>1, HandlesStay DEF StopCurrent, handleVars
<1>2. CASE current[c].run # NoRun
  <2>1. AttachmentInv(c) /\ current[c].run \in Runs
    BY <1>2, ClientNumbers DEF StreamInv, ClientInv
  <2>2. finished[current[c].run] # "absent"
    <3>1. newest[current[c].run] # 0
      BY <1>2, <2>1, HandleNumbers DEF AttachmentInv, StreamInv
    <3> QED BY <2>1, <3>1 DEF StreamInv, HandleInv
  <2>3. <<"event", "log">> \in Seq({"log", "event"})
    OBVIOUS
  <2> QED BY <1>2, <2>1, <2>2, <2>3, PublishStep DEF StopCurrent
<1> QED BY <1>1, <1>2

LEMMA QuietSteps ==
  ASSUME StreamInv, NEW c \in Clients,
         \/ StopOutside(c) \/ Receive(c) \/ StopWatched(c)
         \/ AttachUnknown(c) /\ UNCHANGED <<attached, mode>>
  PROVE  StreamInv'
<1>1. StreamTypes /\ StreamTypes'
  BY OuterTypes, WatchTypes DEF StreamInv
<1>2. UNCHANGED <<mode, current, target, replay, drain, got>>
  BY DEF StopOutside, Receive, StopWatched, AttachUnknown
<1>3. Moved /\ \A d \in Clients : Undisturbed(d)
  <2>1. CASE StopOutside(c) \/ StopWatched(c)
    BY <1>1, <2>1, StopMoves DEF StopOutside, StopWatched
  <2>2. CASE UNCHANGED handleVars
    BY <1>1, <2>2, HandlesStay
  <2>3. CASE AttachUnknown(c) /\ UNCHANGED <<attached, mode>>
    BY <1>1, <2>3, HandlesStay DEF AttachUnknown, handleVars
  <2> QED BY <2>1, <2>2, <2>3 DEF Receive
<1>4. ASSUME NEW d \in Clients \ {c} PROVE inbox'[d] = inbox[d] /\ received'[d] = received[d]
  BY <1>1 DEF StopOutside, Receive, StopWatched, AttachUnknown, Dispatching, WatchReceived,
              StreamTypes
<1>5. Gone(c) => Gone(c)'
  <2>1. CASE StopOutside(c) \/ AttachUnknown(c)
    <3>1. /\ inbox[c] # <<>> /\ inbox'[c] = Tail(inbox[c]) /\ Head(inbox[c]).type # "bye"
          /\ received'[c] = received[c]
      BY <1>1, <2>1, DispatchTypes DEF StopOutside, AttachUnknown
    <3> QED BY <1>1, <3>1, GoneStays
  <2>2. CASE Receive(c)
    <3>1. /\ inbox[c] # <<>> /\ inbox'[c] = Tail(inbox[c])
          /\ received[c] = Nothing /\ received'[c] = Head(inbox[c])
      BY <1>1, <2>2 DEF Receive, StreamTypes
    <3> QED BY <1>1, <3>1, GoneStays
  <2>3. CASE StopWatched(c)
    BY <2>3 DEF StopWatched, WatchReceived, Gone
  <2> QED BY <2>1, <2>2, <2>3
<1>6. \A d \in Clients : Quiet(d)
  BY <1>2, <1>4, <1>5 DEF Quiet, Gone
<1> QED BY <1>1, <1>3, <1>6, AllQuiet
-----------------------------------------------------------------------------
(* Steps after which the client is not watching.                           *)

LEMMA AwaySteps ==
  ASSUME StreamInv, NEW c \in Clients,
         \/ AttachUnknown(c) /\ ~UNCHANGED <<attached, mode>>
         \/ AttachFailed(c) \/ DisconnectOutside(c) \/ WatchEnds(c)
         \/ DisconnectWatched(c) \/ Reattach(c)
  PROVE  StreamInv'
<1>1. StreamTypes /\ StreamTypes'
  BY OuterTypes, ReplayTypes, WatchTypes DEF StreamInv
<1>2. UNCHANGED <<finished, published, lastWords, newest, queues, current, target, replay, got>>
  BY DEF AttachUnknown, AttachFailed, DisconnectOutside, WatchEnds, DisconnectWatched, Reattach,
         handleVars
<1>3. Moved /\ \A d \in Clients \ {c} : Undisturbed(d)
  <2>1. CASE Detach(current[c])
    BY <1>1, <1>2, <2>1, DetachStep
  <2>2. CASE Reattach(c)
    BY <1>1, <2>2, HandlesStay DEF Reattach
  <2> QED BY <2>1, <2>2 DEF AttachUnknown, AttachFailed, DisconnectOutside, WatchEnds,
                            DisconnectWatched
<1>4. /\ mode'[c] \in {"outer", "closed"}
      /\ \A d \in Clients \ {c} : mode'[d] = mode[d]
  BY <1>1 DEF AttachUnknown, AttachFailed, DisconnectOutside, WatchEnds, DisconnectWatched,
              Reattach, StreamTypes
<1>5. drain'[c].at = "none" /\ \A d \in Clients \ {c} : drain'[d] = drain[d]
  <2>1. CASE WatchEnds(c) \/ DisconnectWatched(c) \/ Reattach(c)
    BY <1>1, <2>1, IdleTypes DEF WatchEnds, DisconnectWatched, Reattach
  <2>2. CASE mode[c] \in {"outer", "attach"} /\ drain' = drain
    BY <2>2 DEF StreamInv, ClientInv, DrainInv
  <2> QED BY <2>1, <2>2 DEF AttachUnknown, AttachFailed, DisconnectOutside, Dispatching
<1>6. ASSUME NEW d \in Clients \ {c} PROVE inbox'[d] = inbox[d] /\ received'[d] = received[d]
  <2>1. received' = received \/ received' = [received EXCEPT ![c] = Nothing]
    BY DEF AttachUnknown, AttachFailed, DisconnectOutside, WatchEnds, DisconnectWatched,
           Reattach, WatchReceived
  <2>2. inbox' = inbox \/ \E s : inbox' = [inbox EXCEPT ![c] = s]
    <3>1. CASE WatchEnds(c)
      BY <3>1 DEF WatchEnds
    <3>2. CASE ~WatchEnds(c)
      BY <3>2 DEF AttachUnknown, AttachFailed, DisconnectOutside, DisconnectWatched, Reattach,
                  Dispatching
    <3> QED BY <3>1, <3>2
  <2> QED BY <1>1, <2>1, <2>2 DEF StreamTypes
<1>7. Others(c)
  BY <1>1, <1>2, <1>3, <1>4, <1>5, <1>6, QuietOthers
<1>8. Ordered(got'[c])
  BY <1>2 DEF StreamInv, ClientInv, GotInv
<1>9. ReplayInv(c)'
  BY <1>4 DEF ReplayInv, Replaying
<1> QED BY <1>1, <1>2, <1>3, <1>4, <1>5, <1>7, <1>8, <1>9, AwayKeeps

LEMMA AttachExistingStep ==
  ASSUME StreamInv, NEW c \in Clients, AttachExisting(c)
  PROVE  StreamInv'
<1> DEFINE r == Head(inbox[c]).run
<1>1. StreamTypes /\ StreamTypes'
  BY OuterTypes DEF StreamInv
<1>2. UNCHANGED <<handleVars, current, drain, received, requests>>
  BY DEF AttachExisting
<1>3. Moved /\ \A d \in Clients : Undisturbed(d)
  BY <1>1, <1>2, HandlesStay
<1>4. /\ mode[c] = "outer" /\ Head(inbox[c]) \in Requests /\ Head(inbox[c]).type = "attach"
      /\ \A d \in Clients \ {c} : inbox'[d] = inbox[d]
  BY <1>1, DispatchTypes DEF AttachExisting
<1>5. r \in Runs
  BY <1>4 DEF Requests
<1>6. /\ mode'[c] = "replay" /\ got'[c] = <<>> /\ target'[c] = r /\ finished[r] # "absent"
      /\ replay'[c] = BufferedReplay(r)
      /\ \A d \in Clients \ {c} :
           /\ mode'[d] = mode[d] /\ got'[d] = got[d]
           /\ target'[d] = target[d] /\ replay'[d] = replay[d]
  <2>1. /\ mode' = [mode EXCEPT ![c] = "replay"] /\ got' = [got EXCEPT ![c] = <<>>]
        /\ target' = [target EXCEPT ![c] = r] /\ finished[r] # "absent"
        /\ replay' = [replay EXCEPT ![c] = BufferedReplay(r)]
    BY DEF AttachExisting
  <2> HIDE DEF r
  <2> QED BY <1>1, <2>1 DEF StreamTypes
<1>7. drain'[c].at = "none"
  BY <1>2, <1>4 DEF StreamInv, ClientInv, DrainInv
<1>8. Others(c)
  BY <1>1, <1>2, <1>3, <1>4, <1>6, QuietOthers
<1>9. Ordered(got'[c])
  BY <1>6 DEF Ordered
<1>10. ReplayInv(c)'
  <2>1. BufferedReplay(r) \in Seq(1..Len(published[r]))
    BY <1>1, <1>5, ReplayIsPublished
  <2> HIDE DEF r
  <2>2. \A i \in DOMAIN BufferedReplay(r) : BufferedReplay(r)[i] \in 1..Len(published[r])
    BY <2>1, ElementOfSeq, LenProperties
  <2> QED BY <2>2, <1>2, <1>5, <1>6 DEF ReplayInv, handleVars
<1> QED BY <1>1, <1>2, <1>3, <1>6, <1>7, <1>8, <1>9, <1>10, AwayKeeps

LEMMA ReplayOneStep ==
  ASSUME StreamInv, NEW c \in Clients, ReplayOne(c)
  PROVE  StreamInv'
<1> DEFINE r == target[c]
<1>1. StreamTypes /\ StreamTypes' /\ mode[c] = "replay"
  BY ReplayTypes DEF StreamInv, ReplayOne
<1>2. UNCHANGED <<handleVars, mode, current, target, drain, inbox, received, requests>>
  BY DEF ReplayOne
<1>3. Moved /\ \A d \in Clients : Undisturbed(d)
  BY <1>1, <1>2, HandlesStay
<1>4. /\ r \in Runs /\ finished[r] # "absent"
      /\ \A i \in DOMAIN replay[c] : replay[c][i] \in 1..Len(published[r])
      /\ \A i \in DOMAIN got[c] : got[c][i].via = "replay" /\ got[c][i].pos \in 1..Len(published[r])
      /\ drain[c].at = "none"
  BY <1>1 DEF StreamInv, ClientInv, ReplayInv, Replaying, DrainInv
<1>5. /\ replay[c] \in Seq(Nat) /\ replay[c] # <<>>
      /\ replay' = [replay EXCEPT ![c] = Tail(replay[c])] \/ replay' = [replay EXCEPT ![c] = <<>>]
      /\ UNCHANGED got \/ Deliver(c, "replay", r, Head(replay[c]))
  BY <1>1 DEF ReplayOne, StreamTypes
<1>6. /\ \A i \in DOMAIN replay'[c] : replay'[c][i] \in 1..Len(published[r])
      /\ \A d \in Clients \ {c} : replay'[d] = replay[d]
  <2>1. replay'[c] = Tail(replay[c]) \/ replay'[c] = <<>>
    BY <1>1, <1>5 DEF StreamTypes
  <2>2. \A i \in DOMAIN Tail(replay[c]) :
           i + 1 \in DOMAIN replay[c] /\ Tail(replay[c])[i] = replay[c][i + 1]
    BY <1>5
  <2>3. \A d \in Clients \ {c} : replay'[d] = replay[d]
    BY <1>1, <1>5 DEF StreamTypes
  <2>4. \A i \in DOMAIN replay'[c] : replay'[c][i] \in 1..Len(published[r])
    <3>1. CASE replay'[c] = Tail(replay[c])
      BY <3>1, <2>2, <1>4
    <3>2. CASE replay'[c] = <<>>
      BY <3>2
    <3> QED BY <2>1, <3>1, <3>2
  <2> QED BY <2>3, <2>4
<1>7. /\ \A i \in DOMAIN got'[c] :
           got'[c][i].via = "replay" /\ got'[c][i].pos \in 1..Len(published[r])
      /\ \A d \in Clients \ {c} : got'[d] = got[d]
  <2>1. CASE UNCHANGED got
    BY <2>1, <1>4
  <2>2. CASE Deliver(c, "replay", r, Head(replay[c]))
    <3>1. Head(replay[c]) \in 1..Len(published[r]) /\ Head(replay[c]) \in Nat
      BY <1>4, <1>5
    <3> HIDE DEF r
    <3>2. /\ Len(got[c]) \in Nat /\ DOMAIN got[c] = 1..Len(got[c])
          /\ DOMAIN got'[c] = 1..(Len(got[c]) + 1)
          /\ \A i \in DOMAIN got[c] : got'[c][i] = got[c][i]
          /\ got'[c][Len(got[c]) + 1] = [via |-> "replay", run |-> r, pos |-> Head(replay[c])]
          /\ \A d \in Clients \ {c} : got'[d] = got[d]
      BY <2>2, <3>1, <1>1, <1>4, DeliverTypes, ClientNumbers
    <3>3. \A i \in DOMAIN got'[c] : i \in DOMAIN got[c] \/ i = Len(got[c]) + 1
      BY <3>2
    <3> QED BY <3>1, <3>2, <3>3, <1>4
  <2> QED BY <1>5, <2>1, <2>2
<1>8. Others(c)
  BY <1>1, <1>2, <1>3, <1>6, <1>7, QuietOthers
<1>9. Ordered(got'[c])
  BY <1>7 DEF Ordered
<1>10. ReplayInv(c)'
  BY <1>2, <1>4, <1>6, <1>7 DEF ReplayInv, handleVars
<1>11. current'[c] = current[c] /\ mode'[c] = "replay" /\ drain'[c].at = "none"
  BY <1>1, <1>2, <1>4
<1> QED BY <1>1, <1>3, <1>8, <1>9, <1>10, <1>11, AwayKeeps

LEMMA ReplayedStep ==
  ASSUME StreamInv, NEW c \in Clients, Replayed(c)
  PROVE  StreamInv'
<1>1. StreamTypes /\ StreamTypes' /\ mode[c] = "replay"
  BY ReplayTypes DEF StreamInv, Replayed
<1>2. UNCHANGED <<handleVars, current, target, replay, drain, inbox, received, requests, got>>
  BY DEF Replayed
<1>3. Moved /\ \A d \in Clients : Undisturbed(d)
  BY <1>1, <1>2, HandlesStay
<1>4. mode'[c] = "attach" /\ \A d \in Clients \ {c} : mode'[d] = mode[d]
  BY <1>1 DEF Replayed, StreamTypes
<1>5. drain'[c].at = "none"
  BY <1>1, <1>2 DEF StreamInv, ClientInv, DrainInv
<1>6. Others(c)
  BY <1>1, <1>2, <1>3, <1>4, QuietOthers
<1>7. Ordered(got'[c])
  BY <1>2 DEF StreamInv, ClientInv, GotInv
<1>8. ReplayInv(c)'
  BY <1>1, <1>2 DEF StreamInv, ClientInv, ReplayInv, Replaying, handleVars
<1> QED BY <1>1, <1>2, <1>3, <1>4, <1>5, <1>6, <1>7, <1>8, AwayKeeps
-----------------------------------------------------------------------------
(* Steps after which the client watches.                                   *)

(* An arrival: c has a new attachment and an empty queue. *)
LEMMA ArrivalKeeps ==
  ASSUME StreamInv, StreamTypes', NEW c \in Clients, NEW r \in Runs, AttachTo(r, c),
         published' = published, lastWords' = lastWords,
         finished'[r] # "absent", finished[r] = "yes" => finished'[r] = "yes",
         \A x \in Runs \ {r} : finished'[x] = finished[x],
         mode'[c] \in {"greet", "watch"}, drain'[c].at \in {"none", "new"},
         mode'[c] = "greet" <=> drain'[c].at = "none",
         \A i \in DOMAIN got'[c] :
           got'[c][i].via = "replay" /\ got'[c][i].pos \in 1..Len(published[r]),
         newest[r] = 0 => got'[c] = <<>> /\ published[r] = <<>>,
         \A d \in Clients \ {c} :
           /\ mode'[d] = mode[d] /\ target'[d] = target[d]
           /\ replay'[d] = replay[d] /\ drain'[d] = drain[d] /\ got'[d] = got[d]
           /\ inbox'[d] = inbox[d] /\ received'[d] = received[d]
  PROVE  StreamInv'
<1> DEFINE n == newest[r] + 1
<1>1. /\ Moved
      /\ \A d \in Clients \ {c} :
           /\ Undisturbed(d)
           /\ current'[d] = current[d]
           /\ current'[d].run = r => current'[d].token \in Nat /\ current'[d].token <= newest[r]
      /\ current'[c] = [run |-> r, token |-> n]
      /\ newest'[r] = n /\ attached'[r] = n
      /\ newest[r] \in Nat /\ n \in Tokens
      /\ queues'[r][n] = <<>>
  BY AttachStep
<1>2. Others(c)
  BY <1>1, QuietOthers DEF StreamInv
<1>3. current'[c].run = r /\ current'[c].token = n /\ n \in 1..n /\ n # 0 /\ ~(n <= newest[r])
  BY <1>1
<1>4. Len(published[r]) \in Nat /\ StreamTypes
  BY HandleNumbers DEF StreamInv
<1> HIDE DEF n
<1>5. AttachmentInv(c)'
  <2>1. \A d \in Clients : d # c /\ current'[d].run = r => current'[d].token # n
    BY <1>1, <1>3
  <2> QED BY <1>1, <1>3, <2>1, StreamAssumption DEF AttachmentInv
<1>6. DrainInv(c)'
  BY DEF DrainInv
<1>7. ConnectedInv(c)'
  BY <1>1, <1>3 DEF ConnectedInv
<1>8. ReplayInv(c)'
  BY DEF ReplayInv, Replaying
<1>9. GotInv(c)'
  <2>1. Ordered(got'[c])
    BY DEF Ordered
  <2>2. ASSUME NEW i \in DOMAIN got'[c]
        PROVE  /\ got'[c][i].via \in {"live", "replay"}
               /\ got'[c][i].pos <= Len(published'[r])
               /\ drain'[c].at # "holds"
               /\ \A j \in DOMAIN queues'[r][n] : got'[c][i].pos < queues'[r][n][j]
    BY <1>1, <1>4
  <2> QED BY <1>3, <2>1, <2>2 DEF GotInv
<1>10. StarterInv(c)'
  <2>0. drain'[c].at # "holds" /\ drain'[c].at # "done"
    OBVIOUS
  <2>1. ASSUME n = 1
        PROVE  got'[c] = <<>> /\ published'[r] = <<>> /\ queues'[r][1] = <<>>
    BY <2>1, <1>1 DEF n
  <2>2. Starter(c)' => n = 1
    BY <1>3 DEF Starter
  <2>3. n = 1 => Taken(c)' = 0
    <3>1. Taken(c)' = Len(got'[c]) + 0
      BY <2>0 DEF Taken
    <3> QED BY <2>1, <3>1
  <2>4. n = 1 => Taken(c)' + Len(queues'[r][1]) = Len(published'[r])
    BY <2>1, <2>3
  <2>6. n = 1 => DOMAIN got'[c] = {} /\ DOMAIN queues'[r][1] = {}
    BY <2>1
  <2> QED BY <1>3, <2>0, <2>2, <2>4, <2>6 DEF StarterInv
<1> QED BY <1>1, <1>2, <1>3, <1>5, <1>6, <1>7, <1>8, <1>9, <1>10, ClientNumbers, OthersKeep
        DEF ClientInv, n, StreamInv

LEMMA StartNewRunStep ==
  ASSUME StreamInv, NEW c \in Clients, StartNewRun(c)
  PROVE  StreamInv'
<1>1. StreamTypes /\ StreamTypes'
  BY OuterTypes DEF StreamInv
<1>2. PICK r \in Runs : /\ finished[r] = "absent"
                        /\ finished' = [finished EXCEPT ![r] = "no"]
                        /\ AttachTo(r, c)
  BY DEF StartNewRun
<1>3. /\ mode' = [mode EXCEPT ![c] = "greet"] /\ got' = [got EXCEPT ![c] = <<>>]
      /\ UNCHANGED <<published, lastWords, target, replay, drain, received, requests>>
  BY DEF StartNewRun
<1>4. mode[c] = "outer" /\ \A d \in Clients \ {c} : inbox'[d] = inbox[d]
  BY <1>1, DispatchTypes DEF StartNewRun
<1>5. published[r] = <<>>
  BY <1>2 DEF StreamInv, HandleInv
<1>6. /\ mode'[c] = "greet" /\ got'[c] = <<>>
      /\ \A d \in Clients \ {c} : mode'[d] = mode[d] /\ got'[d] = got[d]
      /\ finished'[r] = "no" /\ \A x \in Runs \ {r} : finished'[x] = finished[x]
  BY <1>1, <1>2, <1>3 DEF StreamTypes
<1>7. drain'[c].at = "none"
  BY <1>3, <1>4 DEF StreamInv, ClientInv, DrainInv
<1>8. \A i \in DOMAIN got'[c] :
        got'[c][i].via = "replay" /\ got'[c][i].pos \in 1..Len(published[r])
  <2>1. DOMAIN got'[c] = {}
    BY <1>6
  <2> QED BY <2>1
<1>9. /\ finished'[r] # "absent" /\ (finished[r] = "yes" => finished'[r] = "yes")
      /\ newest[r] = 0 => got'[c] = <<>> /\ published[r] = <<>>
      /\ published' = published /\ lastWords' = lastWords
  BY <1>2, <1>3, <1>5, <1>6
<1>10. \A d \in Clients \ {c} :
         /\ mode'[d] = mode[d] /\ target'[d] = target[d]
         /\ replay'[d] = replay[d] /\ drain'[d] = drain[d] /\ got'[d] = got[d]
         /\ inbox'[d] = inbox[d] /\ received'[d] = received[d]
  BY <1>3, <1>4, <1>6
<1>11. AttachTo(r, c) /\ \A x \in Runs \ {r} : finished'[x] = finished[x]
  BY <1>2, <1>6
<1> QED BY <1>1, <1>6, <1>7, <1>8, <1>9, <1>10, <1>11, ArrivalKeeps

LEMMA AttachAndWatchStep ==
  ASSUME StreamInv, NEW c \in Clients, AttachAndWatch(c)
  PROVE  StreamInv'
<1> DEFINE r == target[c]
<1>1. StreamTypes /\ StreamTypes' /\ mode[c] = "attach"
  BY ReplayTypes DEF StreamInv, AttachAndWatch
<1>2. /\ r \in Runs /\ finished[r] # "absent"
      /\ \A i \in DOMAIN got[c] : got[c][i].via = "replay" /\ got[c][i].pos \in 1..Len(published[r])
  BY <1>1 DEF StreamInv, ClientInv, ReplayInv, Replaying
<1>3. newest[r] # 0
  BY <1>2 DEF StreamInv, HandleInv
<1>4. /\ AttachTo(r, c) /\ mode' = [mode EXCEPT ![c] = "watch"]
      /\ target' = [target EXCEPT ![c] = NoRun]
      /\ drain' = [drain EXCEPT ![c] = [Idle EXCEPT !.at = "new"]]
      /\ UNCHANGED <<finished, published, lastWords, replay, inbox, received, requests, got>>
  BY DEF AttachAndWatch
<1> HIDE DEF r
<1>5. drain'[c].at = "new" /\ \A d \in Clients \ {c} : drain'[d] = drain[d]
  BY <1>1, <1>4, IdleTypes
<1>6. mode'[c] = "watch" /\ \A d \in Clients \ {c} : mode'[d] = mode[d] /\ target'[d] = target[d]
  BY <1>1, <1>4 DEF StreamTypes
<1> QED BY <1>1, <1>2, <1>3, <1>4, <1>5, <1>6, ArrivalKeeps

(* A watching client before and after a step of its own drain. *)
LEMMA WatchingFacts ==
  ASSUME StreamInv, NEW c \in Clients, Watching(c)
  PROVE  LET r == current[c].run
             t == current[c].token
         IN  /\ r \in Runs /\ t \in Nat /\ t # 0 /\ t <= newest[r] /\ t \in Tokens
             /\ newest[r] \in Nat /\ newest[r] \in Tokens /\ attached[r] \in {0, newest[r]}
             /\ Len(published[r]) \in Nat
             /\ HandleInv(r) /\ ClientInv(c) /\ StreamTypes
<1> DEFINE r == current[c].run
           t == current[c].token
<1>1. HandleInv(r) \/ r = NoRun
  BY ClientNumbers DEF StreamInv
<1>2. ClientInv(c) /\ StreamTypes /\ r \in Runs \union {NoRun} /\ t \in Nat
  BY ClientNumbers DEF StreamInv
<1>3. r # NoRun /\ t \in 1..newest[r]
  BY <1>2 DEF ClientInv, AttachmentInv
<1>4. r \in Runs /\ HandleInv(r) /\ newest[r] \in 0..MaxAttach
  BY <1>1, <1>2, <1>3 DEF StreamTypes
<1>5. newest[r] \in Nat /\ Len(published[r]) \in Nat /\ attached[r] \in {0, newest[r]}
  BY <1>2, <1>4, HandleNumbers DEF HandleInv
<1>6. t # 0 /\ t <= newest[r] /\ t \in Tokens /\ newest[r] \in Tokens
  BY <1>2, <1>3, <1>4, <1>5, StreamAssumption DEF Tokens
<1> QED BY <1>2, <1>4, <1>5, <1>6

(* A client that goes on watching keeps its attachment and its connection. *)
LEMMA WatchingKeeps ==
  ASSUME StreamInv, StreamTypes', NEW c \in Clients, Moved, Others(c),
         Watching(c), Watching(c)', current'[c] = current[c],
         newest' = newest, attached' = attached,
         DrainInv(c)', GotInv(c)', StarterInv(c)'
  PROVE  StreamInv'
<1>1. AttachmentInv(c) /\ ConnectedInv(c)
  BY DEF StreamInv, ClientInv
<1>2. AttachmentInv(c)'
  <2>1. \A d \in Clients : current'[d] = current[d]
    BY DEF Others, Quiet
  <2> QED BY <1>1, <2>1 DEF AttachmentInv
<1>3. ConnectedInv(c)'
  BY <1>1 DEF ConnectedInv
<1>4. ReplayInv(c)'
  BY DEF ReplayInv, Replaying, Watching
<1> QED BY <1>2, <1>3, <1>4, OthersKeep DEF ClientInv

LEMMA GreetedStep ==
  ASSUME StreamInv, NEW c \in Clients, Greeted(c)
  PROVE  StreamInv'
<1>1. StreamTypes /\ StreamTypes' /\ mode[c] = "greet"
  BY ReplayTypes DEF StreamInv, Greeted
<1>2. UNCHANGED <<handleVars, current, target, replay, inbox, received, requests, got>>
  BY DEF Greeted
<1>3. Moved /\ \A d \in Clients : Undisturbed(d)
  BY <1>1, <1>2, HandlesStay
<1>4. /\ mode'[c] = "watch" /\ drain'[c].at = "new" /\ drain[c].at = "none"
      /\ \A d \in Clients \ {c} : mode'[d] = mode[d] /\ drain'[d] = drain[d]
  <2>1. mode'[c] = "watch" /\ \A d \in Clients \ {c} : mode'[d] = mode[d]
    BY <1>1 DEF Greeted, StreamTypes
  <2>2. drain'[c].at = "new" /\ \A d \in Clients \ {c} : drain'[d] = drain[d]
    BY <1>1, IdleTypes DEF Greeted
  <2> QED BY <2>1, <2>2, <1>1 DEF StreamInv, ClientInv, DrainInv
<1>5. Others(c)
  BY <1>1, <1>2, <1>3, <1>4, QuietOthers
<1>6. DrainInv(c)'
  BY <1>4 DEF DrainInv
<1>7. GotInv(c)'
  <2>1. GotInv(c)
    BY DEF StreamInv, ClientInv
  <2> QED BY <2>1, <1>1, <1>2, <1>4 DEF GotInv, Draining, Watching, Superseded, handleVars
<1>8. StarterInv(c)'
  <2>1. StarterInv(c) /\ Taken(c)' = Taken(c) /\ (Starter(c)' => Starter(c))
    BY <1>1, <1>2, <1>4
       DEF StreamInv, ClientInv, Taken, Starter, Watching, Gone, handleVars
  <2> QED BY <2>1, <1>2, <1>4 DEF StarterInv, handleVars
<1>9. Watching(c) /\ Watching(c)' /\ current'[c] = current[c]
      /\ newest' = newest /\ attached' = attached
  BY <1>1, <1>2, <1>4 DEF Watching, handleVars
<1> QED BY <1>1, <1>3, <1>5, <1>6, <1>7, <1>8, <1>9, WatchingKeeps

LEMMA DrainStartStep ==
  ASSUME StreamInv, NEW c \in Clients, DrainStart(c)
  PROVE  StreamInv'
<1> DEFINE r == current[c].run
           t == current[c].token
<1>1. /\ StreamTypes /\ StreamTypes' /\ mode[c] = "watch" /\ drain[c].at = "new"
      /\ Watching(c)
  BY DrainTypes DEF StreamInv, DrainStep, DrainStart, DrainAt, Watching
<1>2. UNCHANGED <<handleVars, mode, current, target, replay, inbox, received, requests, got>>
  BY DEF DrainStart
<1>3. Moved /\ \A d \in Clients : Undisturbed(d)
  BY <1>1, <1>2, HandlesStay
<1>4. /\ r \in Runs /\ t \in Nat /\ t # 0 /\ t <= newest[r] /\ newest[r] \in Nat
      /\ attached[r] \in {0, newest[r]} /\ ClientInv(c)
  BY <1>1, WatchingFacts
<1>5. \A d \in Clients \ {c} : drain'[d] = drain[d]
  BY <1>1 DEF DrainStart, EndDrain, SetDrain, StreamTypes
<1>6. Others(c)
  BY <1>1, <1>2, <1>3, <1>5, QuietOthers
<1>7. CASE attached[r] = 0
  <2>1. drain'[c].at = "done"
    BY <1>1, <1>7, IdleTypes DEF DrainStart
  <2>2. newest[r] # t
    BY <1>1, <1>4, <1>7 DEF ClientInv, ConnectedInv
  <2>3. DrainInv(c)'
    BY <2>1, <1>1, <1>2 DEF DrainInv
  <2>4. GotInv(c)'
    BY <2>1, <1>2, <1>4 DEF GotInv, Draining, ClientInv
  <2>5. StarterInv(c)'
    BY <2>2, <1>2 DEF StarterInv, Starter, handleVars
  <2> QED BY <2>3, <2>4, <2>5, <1>1, <1>2, <1>3, <1>6, WatchingKeeps DEF Watching, handleVars
<1>8. CASE attached[r] # 0
  <2>1. drain'[c] = [at |-> "get", run |-> r, token |-> newest[r], held |-> Marker]
    BY <1>1, <1>4, <1>8 DEF DrainStart, SetDrain, StreamTypes
  <2>2. drain'[c].at = "get" /\ drain'[c].run = r /\ drain'[c].token = newest[r]
    BY <2>1
  <2>3. DrainInv(c)'
    BY <2>2, <1>1, <1>2, <1>4 DEF DrainInv, handleVars
  <2>4. GotInv(c)'
    <3>1. GotInv(c)
      BY <1>4 DEF ClientInv
    <3> QED BY <3>1, <2>2, <1>1, <1>2 DEF GotInv, Draining, Watching, Superseded, handleVars
  <2>5. StarterInv(c)'
    <3>1. StarterInv(c) /\ Taken(c)' = Taken(c) /\ (Starter(c)' => Starter(c))
      BY <1>1, <1>2, <1>4, <2>2 DEF ClientInv, Taken, Starter, Watching, Gone, handleVars
    <3> QED BY <3>1, <1>1, <1>2, <2>2 DEF StarterInv, handleVars
  <2> QED BY <2>3, <2>4, <2>5, <1>1, <1>2, <1>3, <1>6, WatchingKeeps DEF Watching, handleVars
<1> QED BY <1>7, <1>8

LEMMA DrainTimeoutStep ==
  ASSUME StreamInv, NEW c \in Clients, DrainTimeout(c)
  PROVE  StreamInv'
<1> DEFINE r == current[c].run
           t == current[c].token
<1>1. /\ StreamTypes /\ StreamTypes' /\ mode[c] = "watch" /\ drain[c].at = "get"
      /\ Watching(c) /\ finished[r] = "yes"
      /\ queues[drain[c].run][drain[c].token] = <<>>
  BY DrainTypes DEF StreamInv, DrainStep, DrainTimeout, DrainAt, Watching, DrainQueue
<1>2. UNCHANGED <<handleVars, mode, current, target, replay, inbox, received, requests, got>>
  BY DEF DrainTimeout
<1>3. Moved /\ \A d \in Clients : Undisturbed(d)
  BY <1>1, <1>2, HandlesStay
<1>4. /\ r \in Runs /\ t \in Nat /\ t # 0 /\ t <= newest[r] /\ newest[r] \in Nat
      /\ ClientInv(c) /\ HandleInv(r)
  BY <1>1, WatchingFacts
<1>5. drain'[c].at = "done" /\ \A d \in Clients \ {c} : drain'[d] = drain[d]
  BY <1>1, IdleTypes DEF DrainTimeout
<1>6. Others(c)
  BY <1>1, <1>2, <1>3, <1>5, QuietOthers
<1>7. DrainInv(c)'
  BY <1>5, <1>1, <1>2 DEF DrainInv
<1>8. GotInv(c)'
  BY <1>5, <1>2, <1>4 DEF GotInv, Draining, ClientInv
<1>9. StarterInv(c)'
  <2>1. ASSUME Starter(c)
        PROVE  Len(got[c]) >= lastWords[r] /\ \A i \in DOMAIN got[c] : got[c][i].pos = i
    <3>1. drain[c].run = r /\ drain[c].token = 1
      BY <2>1, <1>1, <1>4, HandleNumbers DEF ClientInv, DrainInv, Starter
    <3>2. queues[r][1] = <<>>
      BY <3>1, <1>1
    <3>3. Taken(c) + Len(queues[r][1]) = Len(published[r])
          /\ \A i \in DOMAIN got[c] : got[c][i].pos = i
      BY <2>1, <1>1, <1>4 DEF ClientInv, StarterInv
    <3>4. Taken(c) = Len(got[c]) /\ Len(got[c]) \in Nat
      <4>1. Taken(c) = Len(got[c]) + 0
        BY <1>1 DEF Taken
      <4> QED BY <4>1, <1>1, ClientNumbers
    <3>5. lastWords[r] <= Len(published[r]) /\ Len(queues[r][1]) = 0
      BY <3>2, <1>4 DEF HandleInv
    <3> QED BY <3>3, <3>4, <3>5
  <2>2. Starter(c)' => Starter(c)
    BY <1>2 DEF Starter, Watching, Gone, handleVars
  <2> QED BY <2>1, <2>2, <1>1, <1>2, <1>5 DEF StarterInv, handleVars
<1> QED BY <1>1, <1>2, <1>3, <1>6, <1>7, <1>8, <1>9, WatchingKeeps DEF Watching, handleVars

LEMMA DrainTakesStep ==
  ASSUME StreamInv, NEW c \in Clients, DrainGet(c)
  PROVE  StreamInv'
<1> DEFINE r == current[c].run
           t == current[c].token
           y == drain[c].token
           q == queues[r][y]
           u == queues'[r][y]
<1>1. /\ StreamTypes /\ StreamTypes' /\ mode[c] = "watch" /\ drain[c].at = "get"
      /\ Watching(c)
  BY DrainTypes DEF StreamInv, DrainStep, DrainGet, DrainAt, Watching
<1>2. UNCHANGED <<finished, published, lastWords, attached, newest, mode, current, target,
                  replay, inbox, received, requests, got>>
  BY DEF DrainGet
<1>3. Moved /\ \A d \in Clients \ {c} : Undisturbed(d)
  BY <1>1, DrainGetStep
<1>4. /\ r \in Runs /\ t \in Nat /\ t # 0 /\ t <= newest[r] /\ newest[r] \in Nat
      /\ newest[r] \in Tokens /\ ClientInv(c) /\ HandleInv(r) /\ Len(published[r]) \in Nat
  BY <1>1, WatchingFacts
<1>5. drain[c].run = r /\ y \in t..newest[r] /\ y \in Tokens
  <2>1. drain[c].run = r /\ y \in t..newest[r]
    BY <1>1, <1>4 DEF ClientInv, DrainInv
  <2> QED BY <2>1, <1>4, StreamAssumption DEF Tokens
<1>6. /\ Shortened(q, u) /\ 1 \in DOMAIN q
      /\ drain'[c] = [drain[c] EXCEPT !.at = "holds", !.held = q[1]]
      /\ \A d \in Clients \ {c} : drain'[d] = drain[d]
  BY <1>1, <1>4, <1>5, DrainMoves
<1>7. /\ q \in Seq(Nat) /\ u \in Seq(Nat) /\ Len(q) \in Nat /\ Len(u) \in Nat
      /\ DOMAIN q = 1..Len(q) /\ DOMAIN u = 1..Len(u)
  <2>1. q \in Seq(Nat) /\ u \in Seq(Nat)
    BY <1>1, <1>4, <1>5 DEF StreamTypes, Items
  <2> HIDE DEF q, u
  <2> QED BY <2>1, LenProperties
<1>8. /\ drain'[c].at = "holds" /\ drain'[c].run = r /\ drain'[c].token = y
      /\ drain'[c].held = q[1]
  <2>1. drain[c] \in Drains
    BY <1>1 DEF StreamTypes
  <2> QED BY <2>1, <1>5, <1>6 DEF Drains
<1>9. \A i \in DOMAIN u : i + 1 \in DOMAIN q /\ u[i] = q[i + 1] /\ 1 < i + 1
  BY <1>6, <1>7 DEF Shortened
<1>10. Others(c)
  BY <1>1, <1>2, <1>3, <1>6, QuietOthers
<1>11. DrainInv(c)'
  <2>1. ASSUME y = newest[r]
        PROVE  q[1] \in 1..Len(published[r]) /\ \A i \in DOMAIN u : q[1] < u[i]
    <3>1. Rising(q, Len(published[r]))
      BY <2>1, <1>4 DEF HandleInv
    <3> HIDE DEF q, u
    <3> QED BY <3>1, <1>6, <1>9 DEF Rising
  <2> HIDE DEF q
  <2> QED BY <2>1, <1>1, <1>2, <1>5, <1>8 DEF DrainInv
<1>12. GotInv(c)'
  <2>1. GotInv(c)
    BY <1>4 DEF ClientInv
  <2>2. Ordered(got'[c])
    BY <2>1, <1>2 DEF GotInv
  <2>3. ASSUME newest[r] = t, NEW i \in DOMAIN got[c]
        PROVE  /\ got[c][i].via \in {"live", "replay"}
               /\ got[c][i].pos <= Len(published[r])
               /\ got[c][i].pos < q[1]
               /\ \A j \in DOMAIN queues'[r][t] : got[c][i].pos < queues'[r][t][j]
    <3>1. y = t
      BY <2>3, <1>4, <1>5
    <3>2. Draining(c)
      BY <2>3, <1>1 DEF Draining, Superseded
    <3>3. /\ got[c][i].via \in {"live", "replay"}
          /\ got[c][i].pos <= Len(published[r])
          /\ \A j \in DOMAIN q : got[c][i].pos < q[j]
      BY <3>1, <3>2, <2>1 DEF GotInv
    <3> QED BY <3>1, <3>3, <1>6, <1>9
  <2> HIDE DEF q
  <2> QED BY <2>2, <2>3, <1>2, <1>8 DEF GotInv, Draining, Superseded
<1>13. StarterInv(c)'
  <2>1. ASSUME Starter(c)
        PROVE  /\ \A i \in DOMAIN got[c] : got[c][i].pos = i
               /\ q[1] = Len(got[c]) + 1 /\ y = 1
               /\ Len(got[c]) + 1 + Len(u) = Len(published[r])
               /\ \A i \in DOMAIN u : u[i] = Len(got[c]) + 1 + i
    <3>1. y = 1
      BY <2>1, <1>4, <1>5 DEF Starter
    <3>2. Taken(c) = Len(got[c]) /\ Len(got[c]) \in Nat
      <4>1. Taken(c) = Len(got[c]) + 0
        BY <1>1 DEF Taken
      <4> QED BY <4>1, <1>1, ClientNumbers
    <3>3. /\ \A i \in DOMAIN got[c] : got[c][i].pos = i
          /\ Len(got[c]) + Len(q) = Len(published[r])
          /\ \A i \in DOMAIN q : q[i] = Len(got[c]) + i
      BY <2>1, <3>1, <3>2, <1>1, <1>4 DEF ClientInv, StarterInv
    <3> DEFINE k == Len(got[c])
               a == Len(q)
               b == Len(u)
    <3>4. a = b + 1 /\ a \in Nat /\ b \in Nat /\ k \in Nat
      BY <1>6, <1>7, <3>2 DEF Shortened
    <3>5. k + a = Len(published[r]) /\ Len(published[r]) \in Nat
      BY <3>3, <1>4
    <3>6. ASSUME NEW i \in DOMAIN u PROVE u[i] = k + (i + 1) /\ i \in Nat
      <4>1. i + 1 \in DOMAIN q /\ u[i] = q[i + 1] /\ i \in 1..Len(u)
        BY <1>7, <1>9
      <4> HIDE DEF q, u
      <4> QED BY <4>1, <3>3
    <3>7. q[1] = k + 1
      BY <3>3, <1>6
    <3> HIDE DEF k, a, b, q, u
    <3>8. k + 1 + b = Len(published[r])
      BY <3>4, <3>5
    <3>9. \A i \in DOMAIN u : u[i] = k + 1 + i
      BY <3>4, <3>6
    <3> QED BY <3>1, <3>3, <3>7, <3>8, <3>9 DEF k, b
  <2>2. Starter(c)' => Starter(c)
    BY <1>2 DEF Starter, Watching, Gone
  <2>3. Taken(c)' = Len(got[c]) + 1
    BY <1>2, <1>8 DEF Taken
  <2> HIDE DEF q
  <2> QED BY <2>1, <2>2, <2>3, <1>2, <1>8 DEF StarterInv
<1> QED BY <1>1, <1>2, <1>3, <1>10, <1>11, <1>12, <1>13, WatchingKeeps DEF Watching

(* The message held is forwarded live. *)
LEMMA ForwardLive ==
  ASSUME StreamInv, NEW c \in Clients, DrainForward(c), ~Superseded(c),
         SetDrain(c, [drain[c] EXCEPT !.at = "get", !.held = Marker]),
         Deliver(c, "live", current[c].run, drain[c].held)
  PROVE  StreamInv'
<1> DEFINE r == current[c].run
           t == current[c].token
           h == drain[c].held
           q == queues[r][t]
           k == Len(got[c])
<1>1. /\ StreamTypes /\ StreamTypes' /\ mode[c] = "watch" /\ drain[c].at = "holds"
      /\ Watching(c) /\ newest[r] = t
  BY DrainTypes DEF StreamInv, DrainStep, DrainForward, DrainAt, Watching, Superseded
<1>2. UNCHANGED <<handleVars, mode, current, target, replay, inbox, received, requests>>
  BY DEF DrainForward
<1>3. Moved /\ \A d \in Clients : Undisturbed(d)
  BY <1>1, <1>2, HandlesStay
<1>4. /\ r \in Runs /\ t \in Nat /\ t # 0 /\ ClientInv(c) /\ HandleInv(r)
      /\ Len(published[r]) \in Nat /\ h \in Nat
  BY <1>1, WatchingFacts, ClientNumbers
<1>5. drain[c].run = r /\ drain[c].token = t
  BY <1>1, <1>4 DEF ClientInv, DrainInv
<1>6. h \in 1..Len(published[r]) /\ \A i \in DOMAIN q : h < q[i]
  BY <1>1, <1>4, <1>5 DEF ClientInv, DrainInv
<1>7. /\ drain'[c].at = "get" /\ drain'[c].run = r /\ drain'[c].token = t
      /\ \A d \in Clients \ {c} : drain'[d] = drain[d]
  <2>1. drain[c] \in Drains /\ drain \in [Clients -> Drains]
    BY <1>1 DEF StreamTypes
  <2>2. drain'[c] = [drain[c] EXCEPT !.at = "get", !.held = Marker]
        /\ \A d \in Clients \ {c} : drain'[d] = drain[d]
    BY <2>1 DEF SetDrain
  <2> QED BY <2>1, <2>2, <1>5 DEF Drains
<1>8. /\ k \in Nat /\ DOMAIN got[c] = 1..k /\ DOMAIN got'[c] = 1..(k + 1)
      /\ \A i \in 1..k : got'[c][i] = got[c][i] /\ got[c][i].pos \in Nat
      /\ got'[c][k + 1].via = "live" /\ got'[c][k + 1].pos = h
      /\ Len(got'[c]) = k + 1
      /\ \A d \in Clients \ {c} : got'[d] = got[d]
  <2>1. /\ Len(got'[c]) = k + 1 /\ DOMAIN got'[c] = 1..(k + 1)
        /\ \A i \in DOMAIN got[c] : got'[c][i] = got[c][i]
        /\ got'[c][k + 1] = [via |-> "live", run |-> r, pos |-> h]
        /\ \A d \in Clients \ {c} : got'[d] = got[d]
    BY <1>1, <1>4, DeliverTypes
  <2>2. k \in Nat /\ DOMAIN got[c] = 1..k /\ \A i \in DOMAIN got[c] : got[c][i].pos \in Nat
    BY <1>1, ClientNumbers
  <2> QED BY <2>1, <2>2
<1>9. Others(c)
  BY <1>1, <1>2, <1>3, <1>7, <1>8, QuietOthers
<1>10. DrainInv(c)'
  BY <1>1, <1>2, <1>5, <1>7, <1>4 DEF DrainInv, ClientInv, handleVars
<1>11. /\ Ordered(got[c])
       /\ \A i \in 1..k : /\ got[c][i].via \in {"live", "replay"}
                          /\ got[c][i].pos <= Len(published[r])
                          /\ got[c][i].pos < h
                          /\ \A j \in DOMAIN q : got[c][i].pos < q[j]
  <2>1. Draining(c) /\ GotInv(c)
    BY <1>1, <1>4 DEF Draining, ClientInv
  <2> QED BY <2>1, <1>1, <1>8 DEF GotInv
<1> HIDE DEF h, q, k
<1>12. GotInv(c)'
  <2>1. \A i \in 1..(k + 1) : i \in 1..k \/ i = k + 1
    BY <1>8
  <2>2. Ordered(got'[c])
    <3>1. \A i, j \in 1..k : i < j /\ got[c][j].via = "live" =>
             got[c][i].via \in {"live", "replay"} /\ got[c][i].pos < got[c][j].pos
      BY <1>8, <1>11 DEF Ordered
    <3>2. ~(k + 1 < k + 1) /\ \A j \in 1..k : ~(k + 1 < j)
      BY <1>8
    <3> QED BY <2>1, <3>1, <3>2, <1>8, <1>11 DEF Ordered
  <2>3. ASSUME NEW i \in 1..(k + 1)
        PROVE  /\ got'[c][i].via \in {"live", "replay"}
               /\ got'[c][i].pos <= Len(published[r])
               /\ \A j \in DOMAIN q : got'[c][i].pos < q[j]
    <3>1. CASE i \in 1..k
      BY <3>1, <1>8, <1>11
    <3>2. CASE i = k + 1
      BY <3>2, <1>4, <1>6, <1>8
    <3> QED BY <2>1, <3>1, <3>2
  <2> QED BY <2>2, <2>3, <1>2, <1>7, <1>8 DEF GotInv, handleVars, q
<1>13. StarterInv(c)'
  <2>1. ASSUME Starter(c)
        PROVE  /\ h = k + 1
               /\ \A i \in 1..k : got[c][i].pos = i
               /\ k + 1 + Len(queues[r][1]) = Len(published[r])
               /\ \A i \in DOMAIN queues[r][1] : queues[r][1][i] = k + 1 + i
    <3>1. Taken(c) = k + 1
      BY <1>1 DEF Taken, k
    <3> QED BY <2>1, <3>1, <1>1, <1>4, <1>8 DEF ClientInv, StarterInv, h
  <2>2. Starter(c)' => Starter(c)
    BY <1>2 DEF Starter, Watching, Gone, handleVars
  <2>3. Taken(c)' = k + 1
    <3>1. Taken(c)' = Len(got'[c]) + 0
      BY <1>7 DEF Taken
    <3> QED BY <3>1, <1>8
  <2>4. Starter(c) => \A i \in DOMAIN got'[c] : got'[c][i].pos = i
    BY <2>1, <1>8
  <2> QED BY <2>1, <2>2, <2>3, <2>4, <1>2, <1>7 DEF StarterInv, handleVars
<1> QED BY <1>1, <1>2, <1>3, <1>9, <1>10, <1>12, <1>13, WatchingKeeps DEF Watching, handleVars

(* The drain ends with the message it holds. *)
LEMMA ForwardEnds ==
  ASSUME StreamInv, NEW c \in Clients, DrainForward(c), EndDrain(c),
         \/ drain[c].held = Marker /\ Deliver(c, "marker", current[c].run, Marker)
         \/ UNCHANGED got /\ (Superseded(c) \/ Gone(c))
  PROVE  StreamInv'
<1> DEFINE r == current[c].run
           t == current[c].token
           k == Len(got[c])
<1>1. /\ StreamTypes /\ StreamTypes' /\ mode[c] = "watch" /\ drain[c].at = "holds"
      /\ Watching(c)
  BY DrainTypes DEF StreamInv, DrainStep, DrainForward, DrainAt, Watching
<1>2. UNCHANGED <<handleVars, mode, current, target, replay, inbox, received, requests>>
  BY DEF DrainForward
<1>3. Moved /\ \A d \in Clients : Undisturbed(d)
  BY <1>1, <1>2, HandlesStay
<1>4. r \in Runs /\ t \in Nat /\ ClientInv(c) /\ Ordered(got[c])
  BY <1>1, WatchingFacts DEF ClientInv, GotInv
<1>5. drain'[c].at = "done" /\ \A d \in Clients \ {c} : drain'[d] = drain[d]
  BY <1>1, IdleTypes
<1>6. /\ Ordered(got'[c]) /\ \A d \in Clients \ {c} : got'[d] = got[d]
  <2>1. CASE UNCHANGED got
    BY <2>1, <1>4
  <2>2. CASE Deliver(c, "marker", r, Marker)
    <3>1. /\ k \in Nat /\ DOMAIN got[c] = 1..k /\ DOMAIN got'[c] = 1..(k + 1)
          /\ \A i \in 1..k : got'[c][i] = got[c][i]
          /\ got'[c][k + 1].via = "marker"
          /\ \A d \in Clients \ {c} : got'[d] = got[d]
      <4>1. Marker \in Nat
        BY DEF Marker
      <4>2. /\ DOMAIN got'[c] = 1..(k + 1)
            /\ \A i \in DOMAIN got[c] : got'[c][i] = got[c][i]
            /\ got'[c][k + 1] = [via |-> "marker", run |-> r, pos |-> Marker]
            /\ \A d \in Clients \ {c} : got'[d] = got[d]
        BY <2>2, <4>1, <1>1, <1>4, DeliverTypes
      <4>3. k \in Nat /\ DOMAIN got[c] = 1..k
        BY <1>1, ClientNumbers
      <4> QED BY <4>2, <4>3
    <3> HIDE DEF k
    <3>2. \A i \in 1..(k + 1) : i \in 1..k \/ i = k + 1
      BY <3>1
    <3>3. \A j \in 1..k : ~(k + 1 < j)
      BY <3>1
    <3> QED BY <3>1, <3>2, <3>3, <1>4 DEF Ordered
  <2> QED BY <2>1, <2>2
<1>7. Others(c)
  BY <1>1, <1>2, <1>3, <1>5, <1>6, QuietOthers
<1>8. DrainInv(c)'
  BY <1>5, <1>1, <1>2 DEF DrainInv
<1>9. GotInv(c)'
  BY <1>5, <1>6 DEF GotInv, Draining
<1>10. ~Starter(c)'
  <2>1. ASSUME Starter(c) PROVE drain[c].held # Marker /\ ~Superseded(c) /\ ~Gone(c)
    <3>1. drain[c].held = k + 1
      BY <2>1, <1>1, <1>4 DEF ClientInv, StarterInv, Taken
    <3>2. drain[c].held # Marker
      BY <3>1, <1>1, ClientNumbers DEF Marker
    <3> QED BY <3>2, <2>1 DEF Starter, Superseded
  <2>2. Starter(c)' => Starter(c)
    BY <1>2 DEF Starter, Watching, Gone, handleVars
  <2> QED BY <2>1, <2>2
<1>11. StarterInv(c)'
  BY <1>10 DEF StarterInv
<1> QED BY <1>1, <1>2, <1>3, <1>7, <1>8, <1>9, <1>11, WatchingKeeps DEF Watching, handleVars

LEMMA ClientSteps ==
  ASSUME StreamInv, NEW c \in Clients, DrainStep(c) \/ DispatcherStep(c)
  PROVE  StreamInv'
<1>1. CASE DrainStart(c)
  BY <1>1, DrainStartStep
<1>2. CASE DrainGet(c)
  BY <1>2, DrainTakesStep
<1>3. CASE DrainTimeout(c)
  BY <1>3, DrainTimeoutStep
<1>4. CASE DrainForward(c)
  BY <1>4, ForwardLive, ForwardEnds DEF DrainForward
<1>5. CASE StartNewRun(c) \/ AttachAndWatch(c) \/ Greeted(c)
  BY <1>5, StartNewRunStep, AttachAndWatchStep, GreetedStep
<1>6. CASE AttachExisting(c) \/ ReplayOne(c) \/ Replayed(c)
  BY <1>6, AttachExistingStep, ReplayOneStep, ReplayedStep
<1>7. CASE \/ AttachUnknown(c) \/ AttachFailed(c) \/ DisconnectOutside(c)
           \/ WatchEnds(c) \/ DisconnectWatched(c) \/ Reattach(c)
  BY <1>7, QuietSteps, AwaySteps
<1>8. CASE StopOutside(c) \/ Receive(c) \/ StopWatched(c)
  BY <1>8, QuietSteps
<1> QED BY <1>1, <1>2, <1>3, <1>4, <1>5, <1>6, <1>7, <1>8 DEF DrainStep, DispatcherStep
-----------------------------------------------------------------------------
(* The theorems.                                                           *)

LEMMA StreamInitially ==
  ASSUME StreamInit
  PROVE  StreamInv
<1>1. StreamTypes
  <2>1. Idle \in Drains
    BY DEF Idle, Drains, Marker, Items
  <2>2. <<>> \in Seq(Items) /\ <<>> \in Seq({"log", "event"}) /\ <<>> \in Seq(Nat)
        /\ <<>> \in Seq(Requests) /\ <<>> \in Seq(Sent)
    OBVIOUS
  <2> QED BY <2>1, <2>2, StreamAssumption DEF StreamInit, StreamTypes
<1>2. \A r \in Runs : HandleInv(r)
  BY DEF StreamInit, HandleInv
<1>3. ASSUME NEW c \in Clients PROVE ClientInv(c)
  <2>1. /\ mode[c] = "outer" /\ current[c].run = NoRun /\ current[c].token = 0
        /\ drain[c].at = "none" /\ got[c] = <<>>
    BY DEF StreamInit, Idle
  <2>2. ~Watching(c) /\ Ordered(got[c])
    BY <2>1 DEF Watching, Ordered
  <2> QED BY <2>1, <2>2 DEF ClientInv, AttachmentInv, DrainInv, ConnectedInv, ReplayInv,
          Replaying, GotInv, Draining, StarterInv, Starter
<1> QED BY <1>1, <1>2, <1>3 DEF StreamInv

(* The handles and the sockets agree: what a queue holds, what a drain     *)
(* holds and what a client was sent are consecutive parts of the run's     *)
(* stream as long as the client is the newest to attach.                   *)
THEOREM StreamInvariant == StreamSpec => []StreamInv
<1>1. StreamInit => StreamInv
  BY StreamInitially
<1>2. StreamInv /\ [StreamNext]_streamVars => StreamInv'
  <2> SUFFICES ASSUME StreamInv, [StreamNext]_streamVars PROVE StreamInv'
    OBVIOUS
  <2>1. CASE StreamNext
    BY <2>1, RunSteps, SendStep, ClientSteps DEF StreamNext
  <2>2. CASE UNCHANGED streamVars
    <3>1. StreamTypes'
      BY <2>2 DEF streamVars, handleVars, socketVars, StreamInv, StreamTypes
    <3>2. \A d \in Clients : Quiet(d)
      BY <2>2 DEF streamVars, socketVars, Quiet, Gone
    <3> QED BY <2>2, <3>1, <3>2, HandlesStay, AllQuiet DEF streamVars
  <2> QED BY <2>1, <2>2
<1> QED BY <1>1, <1>2, PTL DEF StreamSpec

(* Every variable of the stream keeps its type. *)
THEOREM StreamTypesHold == StreamSpec => []StreamTypeOK
<1>1. StreamInv => StreamTypeOK
  <2> SUFFICES ASSUME StreamTypes PROVE StreamTypeOK
    BY DEF StreamInv
  <2>1. 0..MaxAttach \subseteq Nat
    BY StreamAssumption
  <2>2. attached \in [Runs -> Nat] /\ newest \in [Runs -> Nat]
    BY <2>1 DEF StreamTypes
  <2>3. current \in [Clients -> [run : Runs \union {NoRun}, token : Nat]]
    <3>1. \A c \in Clients : current[c] \in [run : Runs \union {NoRun}, token : Nat]
      BY <2>1 DEF StreamTypes
    <3> QED BY <3>1 DEF StreamTypes
  <2> QED BY <2>2, <2>3 DEF StreamTypes, StreamTypeOK
<1> QED BY <1>1, StreamInvariant, PTL

(* The newest attachment of a run is connected while its client watches:   *)
(* detach() by a client that was superseded leaves it alone.               *)
THEOREM WatchersStayConnected == StreamSpec => []WatcherStaysConnected
<1>1. StreamInv => WatcherStaysConnected
  BY DEF StreamInv, ClientInv, ConnectedInv, WatcherStaysConnected
<1> QED BY <1>1, StreamInvariant, PTL

(* No client is sent a message twice or out of order after it attached:    *)
(* live messages are behind the replay and in the order of the stream.     *)
THEOREM LiveIsBehindReplay == StreamSpec => []LiveFollowsReplay
<1>1. StreamInv => LiveFollowsReplay
  BY DEF StreamInv, ClientInv, GotInv, Ordered, LiveFollowsReplay
<1> QED BY <1>1, StreamInvariant, PTL

(* The client that started a run gets the whole stream: until somebody     *)
(* takes over, what it was sent, what its drain holds and what is queued   *)
(* are the messages published so far, each once and in order, and its      *)
(* watch does not end before the last words of the finished run.           *)
LEMMA StarterGetsItAll ==
  ASSUME StreamInv
  PROVE  StarterMissesNothing
<1> SUFFICES ASSUME NEW c \in Clients,
                    Watching(c), current[c].token = 1, newest[current[c].run] = 1, ~Gone(c)
             PROVE  LET r == current[c].run
                    IN  /\ drain[c].at # "done" =>
                             Forwarded(c) \o OnTheWay(c) = UpTo(Len(published[r]))
                        /\ drain[c].at = "done" =>
                             /\ finished[r] = "yes" /\ Len(got[c]) >= lastWords[r]
                             /\ Forwarded(c) = UpTo(Len(got[c]))
  BY DEF StarterMissesNothing
<1> DEFINE r == current[c].run
           q == queues[r][1]
           k == Len(got[c])
           f == Forwarded(c)
           held == IF drain[c].at = "holds" THEN <<drain[c].held>> ELSE <<>>
<1>1. /\ r \in Runs /\ 1 \in Tokens /\ Starter(c) /\ StarterInv(c) /\ StreamTypes
      /\ Len(published[r]) \in Nat
  BY WatchingFacts, StarterToken DEF Starter, ClientInv
<1>2. k \in Nat /\ DOMAIN got[c] = 1..k /\ drain[c].held \in Nat
  BY <1>1, ClientNumbers
<1>3. \A i \in 1..k : got[c][i].pos = i
  BY <1>1, <1>2 DEF StarterInv
<1>4. f = UpTo(k) /\ f \in Seq(Nat) /\ Len(f) = k /\ \A i \in 1..k : f[i] = i
  <2>1. f = UpTo(k)
    BY <1>2, <1>3 DEF Forwarded, UpTo
  <2> HIDE DEF f, k
  <2> QED BY <2>1, <1>2 DEF UpTo
<1>5. CASE drain[c].at = "done"
  BY <1>1, <1>4, <1>5 DEF StarterInv
<1>6. CASE drain[c].at # "done"
  <2>1. q \in Seq(Nat) /\ Len(q) \in Nat /\ DOMAIN q = 1..Len(q)
    BY <1>1 DEF StreamTypes, Items
  <2>2. /\ Taken(c) + Len(q) = Len(published[r])
        /\ \A i \in DOMAIN q : q[i] = Taken(c) + i
        /\ drain[c].at = "holds" => drain[c].held = Taken(c)
    BY <1>1, <1>6 DEF StarterInv
  <2>3. held \in Seq(Nat) /\ Taken(c) = k + Len(held) /\ Len(held) \in Nat
        /\ DOMAIN held = 1..Len(held) /\ \A i \in 1..Len(held) : held[i] = k + i
    <3>1. CASE drain[c].at = "holds"
      <4>1. held = <<k + 1>> /\ Taken(c) = k + 1
        BY <2>2, <3>1 DEF Taken
      <4> HIDE DEF held, k
      <4> QED BY <4>1, <1>2
    <3>2. CASE drain[c].at # "holds"
      <4>1. held = <<>> /\ Taken(c) = k + 0
        BY <3>2 DEF Taken
      <4> HIDE DEF held, k
      <4> QED BY <4>1, <1>2
    <3> QED BY <3>1, <3>2
  <2>4. OnTheWay(c) = held \o q
    BY DEF OnTheWay
  <2> DEFINE w == held \o q
             all == f \o w
             n == Len(published[r])
             a == Len(held)
             b == Len(q)
  <2> HIDE DEF f, k, q, held
  <2>5. /\ w \in Seq(Nat) /\ Len(w) = a + b
        /\ \A i \in 1..(a + b) : w[i] = IF i <= a THEN held[i] ELSE q[i - a]
    BY <2>1, <2>3, ConcatProperties
  <2>6. \A i \in 1..Len(w) : w[i] = k + i
    <3> SUFFICES ASSUME NEW i \in 1..(a + b) PROVE w[i] = k + i
      BY <2>5
    <3>1. CASE i <= a
      BY <3>1, <2>1, <2>3, <2>5
    <3>2. CASE ~(i <= a)
      <4>1. w[i] = q[i - a] /\ i - a \in DOMAIN q
        BY <3>2, <2>1, <2>3, <2>5
      <4>2. q[i - a] = k + a + (i - a)
        BY <4>1, <2>2, <2>3
      <4> QED BY <4>1, <4>2, <2>3, <1>2
    <3> QED BY <3>1, <3>2
  <2>7. k + Len(w) = n /\ Len(w) \in Nat
    BY <2>1, <2>2, <2>3, <2>5, <1>2
  <2> HIDE DEF w
  <2>8. /\ all \in Seq(Nat) /\ Len(all) = k + Len(w)
        /\ \A i \in 1..(k + Len(w)) : all[i] = IF i <= k THEN f[i] ELSE w[i - k]
    <3>1. f \in Seq(Nat) /\ w \in Seq(Nat) /\ Len(f) = k
      BY <1>4, <2>5
    <3>2. /\ all \in Seq(Nat) /\ Len(all) = Len(f) + Len(w)
          /\ \A i \in 1..(Len(f) + Len(w)) : all[i] = IF i <= Len(f) THEN f[i] ELSE w[i - Len(f)]
      BY <3>1, ConcatProperties
    <3> HIDE DEF all
    <3> QED BY <3>1, <3>2
  <2>9. ASSUME NEW i \in 1..n PROVE all[i] = i
    <3>1. CASE i <= k
      BY <3>1, <1>2, <1>4, <2>7, <2>8
    <3>2. CASE ~(i <= k)
      <4>1. all[i] = w[i - k] /\ i - k \in 1..Len(w) /\ i \in Nat
        BY <3>2, <1>2, <2>7, <2>8
      <4>2. w[i - k] = k + (i - k)
        BY <4>1, <2>6
      <4> QED BY <4>1, <4>2, <1>2
    <3> QED BY <3>1, <3>2
  <2>10. all = UpTo(n)
    <3> HIDE DEF all, n
    <3>1. Len(all) = n /\ n \in Nat
      BY <2>7, <2>8, <1>1 DEF n
    <3>2. all = [i \in 1..n |-> all[i]]
      BY <2>8, <3>1
    <3> QED BY <2>9, <3>2 DEF UpTo
  <2> QED BY <1>6, <2>4, <2>10 DEF f, w, n
<1> QED BY <1>5, <1>6

THEOREM TheStarterMissesNothing == StreamSpec => []StarterMissesNothing
<1> QED BY StarterGetsItAll, StreamInvariant, PTL
-----------------------------------------------------------------------------
(* The rows of a run. *)

Budget(r) == (missed[r] + 1) * BeatTicks

(* The run's own flags and its row agree. *)
RowInv ==
  \A r \in Rows :
    /\ record[r].began => record[r].row # "none"
    /\ record[r].row = "running" => fate[r] # "unborn"
    /\ fate[r] = "unborn" => record[r].row = "none" /\ ~beaten[r] /\ age[r] = 0
    /\ Live(r) => record[r].row \in {"none", "running"}

(* A live run's row is younger, or was stamped more recently, than the     *)
(* refused beats can explain.                                              *)
FreshInv ==
  \A r \in Rows : Live(r) =>
    /\ beaten[r] => beatAge[r] + beatTimer[r] <= Budget(r)
    /\ ~beaten[r] /\ record[r].row = "running" => age[r] + beatTimer[r] <= Budget(r)

HistoryInv == HistoryTypeOK /\ RowInv /\ FreshInv

LEMMA BudgetLemma ==
  ASSUME NEW m \in Nat, m <= MaxMissed
  PROVE  /\ (m + 1) * BeatTicks \in Nat
         /\ (m + 1) * BeatTicks <= (MaxMissed + 1) * BeatTicks
         /\ ((m + 1) + 1) * BeatTicks = (m + 1) * BeatTicks + BeatTicks
BY HistoryAssumption

(* The sweeper's condition never holds of the row of a live run. *)
LEMMA LiveRowsAreFresh ==
  ASSUME HistoryInv, NEW r \in Rows, Live(r), record[r].row = "running", NEW legacy \in BOOLEAN
  PROVE  ~Stale(r, legacy)
<1>1. /\ missed[r] \in Nat /\ missed[r] <= MaxMissed
      /\ beatTimer[r] \in Nat /\ beatAge[r] \in Nat /\ age[r] \in Nat
  BY HistoryAssumption DEF HistoryInv, HistoryTypeOK
<1>2. Budget(r) \in Nat /\ Budget(r) <= (MaxMissed + 1) * BeatTicks
  BY <1>1, BudgetLemma DEF Budget
<1>3. CASE beaten[r]
  <2>1. beatAge[r] + beatTimer[r] <= Budget(r)  BY <1>3 DEF HistoryInv, FreshInv
  <2>2. (MaxMissed + 1) * BeatTicks \in Nat  BY HistoryAssumption
  <2>3. beatAge[r] <= StaleTicks
    BY <1>1, <1>2, <2>1, <2>2, CutoffAssumption, HistoryAssumption
  <2> QED  BY <1>1, <1>3, <2>3, HistoryAssumption DEF Stale
<1>4. CASE ~beaten[r]
  <2>1. age[r] + beatTimer[r] <= Budget(r)  BY <1>4 DEF HistoryInv, FreshInv
  <2>2. (MaxMissed + 1) * BeatTicks \in Nat  BY HistoryAssumption
  <2>3. age[r] <= LegacyTicks
    BY <1>1, <1>2, <2>1, <2>2, CutoffAssumption, HistoryAssumption
  <2> QED  BY <1>1, <1>4, <2>3, HistoryAssumption DEF Stale
<1> QED  BY <1>3, <1>4

-----------------------------------------------------------------------------
(* What RunRecord's operators do to a record. *)
LEMMA BeginLemma ==
  ASSUME NEW ok \in BOOLEAN
  PROVE  /\ Begin(NewRecord, ok) \in Records
         /\ Begin(NewRecord, ok).row \in {"none", "running"}
         /\ Begin(NewRecord, ok).began => Begin(NewRecord, ok).row # "none"
BY DEF Begin, NewRecord, Broken, Records, RowStatuses

LEMMA AppendLemma ==
  ASSUME NEW rec \in Records, NEW ok \in BOOLEAN
  PROVE  /\ AppendResult(rec, ok) \in Records
         /\ AppendResult(rec, ok).row = rec.row
         /\ AppendResult(rec, ok).began = rec.began
<1>1. rec.saved + 1 \in Nat  BY DEF Records
<1>2. CASE ~Writable(rec)  BY <1>2 DEF AppendResult
<1>3. CASE Writable(rec) /\ ok  BY <1>1, <1>3 DEF AppendResult, Records
<1>4. CASE Writable(rec) /\ ~ok  BY <1>4 DEF AppendResult, Broken, Records
<1> QED  BY <1>2, <1>3, <1>4

LEMMA FinishLemma ==
  ASSUME NEW rec \in Records, NEW ok \in BOOLEAN, NEW s \in {"completed", "stopped", "error"}
  PROVE  /\ Finish(rec, s, ok) \in Records
         /\ Finish(rec, s, ok).began = rec.began
         /\ \/ Finish(rec, s, ok).row = rec.row
            \/ rec.began /\ Finish(rec, s, ok).row = s
BY DEF Finish, Writable, Broken, Records, RowStatuses

LEMMA OutcomesLemma == DbOutcomes \subseteq BOOLEAN
BY HistoryAssumption

LEMMA OlderLemma ==
  ASSUME NEW cutoff \in Nat, NEW n \in 0..(cutoff + 1)
  PROVE  Older(n, cutoff) \in 0..(cutoff + 1) /\ Older(n, cutoff) <= n + 1
BY DEF Older

LEMMA InitLemma == HistoryInit => HistoryInv
<1> SUFFICES ASSUME HistoryInit PROVE HistoryInv
  OBVIOUS
<1>1. NewRecord \in Records  BY DEF NewRecord, Records, RowStatuses
<1>2. HistoryTypeOK  BY <1>1, HistoryAssumption DEF HistoryInit, HistoryTypeOK
<1>3. RowInv  BY DEF HistoryInit, RowInv, NewRecord, Live
<1>4. FreshInv  BY DEF HistoryInit, FreshInv, Live
<1> QED  BY <1>2, <1>3, <1>4 DEF HistoryInv

LEMMA BeginRowLemma ==
  ASSUME HistoryInv, NEW s \in Servers, NEW r \in Rows, BeginRow(s, r)
  PROVE  HistoryInv'
<1> PICK ok \in DbOutcomes : record' = [record EXCEPT ![r] = Begin(NewRecord, ok)]
  BY DEF BeginRow
<1> PICK t \in 1..BeatTicks : beatTimer' = [beatTimer EXCEPT ![r] = t]
  BY DEF BeginRow
<1>1. ok \in BOOLEAN  BY OutcomesLemma
<1>2. HistoryTypeOK'
  BY <1>1, BeginLemma, HistoryAssumption DEF HistoryInv, HistoryTypeOK, BeginRow
<1>3. RowInv'
  BY <1>1, BeginLemma DEF HistoryInv, HistoryTypeOK, RowInv, BeginRow, Live
<1>4. FreshInv'
  <2> SUFFICES ASSUME NEW q \in Rows, Live(q)'
               PROVE  /\ beaten[q]' => (beatAge[q] + beatTimer[q])' <= Budget(q)'
                      /\ ~beaten[q]' /\ record[q].row' = "running"
                         => (age[q] + beatTimer[q])' <= Budget(q)'
    BY DEF FreshInv
  <2>1. CASE q = r
    <3>1. ~beaten'[r] /\ age'[r] = 0 /\ beatTimer'[r] = t
      BY DEF HistoryInv, HistoryTypeOK, RowInv, BeginRow
    <3>2. missed'[r] \in Nat /\ BeatTicks \in Nat
      BY HistoryAssumption DEF HistoryInv, HistoryTypeOK, BeginRow
    <3>3. BeatTicks <= (missed'[r] + 1) * BeatTicks
      BY <3>2
    <3> QED  BY <2>1, <3>1, <3>2, <3>3 DEF Budget
  <2>2. CASE q # r
    BY <2>2 DEF HistoryInv, HistoryTypeOK, FreshInv, BeginRow, Live, Budget
  <2> QED  BY <2>1, <2>2
<1> QED  BY <1>2, <1>3, <1>4 DEF HistoryInv

LEMMA AppendRowLemma ==
  ASSUME HistoryInv, NEW r \in Rows, AppendToRow(r)
  PROVE  HistoryInv' /\ \A q \in Rows : record'[q].row = record[q].row
<1> PICK ok \in DbOutcomes : record' = [record EXCEPT ![r] = AppendResult(@, ok)]
  BY DEF AppendToRow
<1>1. ok \in BOOLEAN  BY OutcomesLemma
<1>2. record[r] \in Records  BY DEF HistoryInv, HistoryTypeOK
<1>3. HistoryTypeOK'
  BY <1>1, <1>2, AppendLemma DEF HistoryInv, HistoryTypeOK, AppendToRow
<1>4. \A q \in Rows : record'[q].row = record[q].row /\ record'[q].began = record[q].began
  BY <1>1, <1>2, AppendLemma DEF HistoryInv, HistoryTypeOK
<1>5. RowInv'
  BY <1>4 DEF HistoryInv, RowInv, AppendToRow, Live
<1>6. FreshInv'
  BY <1>4 DEF HistoryInv, FreshInv, AppendToRow, Live, Budget
<1> QED  BY <1>3, <1>4, <1>5, <1>6 DEF HistoryInv

LEMMA FinishRowLemma ==
  ASSUME HistoryInv, NEW r \in Rows, FinishRow(r)
  PROVE  HistoryInv'
<1> PICK s \in {"completed", "stopped", "error"}, ok \in DbOutcomes :
         record' = [record EXCEPT ![r] = Finish(@, s, ok)]
  BY DEF FinishRow
<1>1. ok \in BOOLEAN  BY OutcomesLemma
<1>2. record[r] \in Records  BY DEF HistoryInv, HistoryTypeOK
<1>3. HistoryTypeOK'
  BY <1>1, <1>2, FinishLemma DEF HistoryInv, HistoryTypeOK, FinishRow
<1>4. \A q \in Rows : q # r => record'[q] = record[q] /\ fate'[q] = fate[q]
  BY DEF HistoryInv, HistoryTypeOK, FinishRow
<1>5. /\ record'[r].began = record[r].began
      /\ record'[r].row = record[r].row \/ (record[r].began /\ record'[r].row = s)
      /\ fate'[r] = "over"
  <2>1. record'[r] = Finish(record[r], s, ok) /\ fate'[r] = "over"
    BY DEF HistoryInv, HistoryTypeOK, FinishRow
  <2>2. /\ Finish(record[r], s, ok).began = record[r].began
        /\ \/ Finish(record[r], s, ok).row = record[r].row
           \/ record[r].began /\ Finish(record[r], s, ok).row = s
    BY <1>1, <1>2, FinishLemma
  <2> QED  BY <2>1, <2>2, Zenon
<1>6. RowInv'
  <2>1. s # "none" /\ UNCHANGED <<beaten, age>>  BY DEF FinishRow
  <2> SUFFICES ASSUME NEW q \in Rows
               PROVE  /\ record'[q].began => record'[q].row # "none"
                      /\ record'[q].row = "running" => fate'[q] # "unborn"
                      /\ fate'[q] = "unborn" =>
                           record'[q].row = "none" /\ ~beaten'[q] /\ age'[q] = 0
                      /\ Live(q)' => record'[q].row \in {"none", "running"}
    BY DEF RowInv
  <2>2. CASE q = r   BY <1>5, <2>1, <2>2 DEF HistoryInv, RowInv, Live
  <2>3. CASE q # r   BY <1>4, <2>1, <2>3 DEF HistoryInv, RowInv, Live
  <2> QED  BY <2>2, <2>3
<1>7. FreshInv'
  BY <1>4, <1>5 DEF HistoryInv, FreshInv, FinishRow, Live, Budget
<1> QED  BY <1>3, <1>6, <1>7 DEF HistoryInv

LEMMA HeartbeatLemma ==
  ASSUME HistoryInv, NEW r \in Rows, Heartbeat(r)
  PROVE  HistoryInv'
<1>1. HistoryTypeOK'
  BY HistoryAssumption DEF HistoryInv, HistoryTypeOK, Heartbeat
<1>2. RowInv'
  BY DEF HistoryInv, HistoryTypeOK, RowInv, Heartbeat, Live
<1>3. FreshInv'
  <2> SUFFICES ASSUME NEW q \in Rows, Live(q)'
               PROVE  /\ beaten[q]' => (beatAge[q] + beatTimer[q])' <= Budget(q)'
                      /\ ~beaten[q]' /\ record[q].row' = "running"
                         => (age[q] + beatTimer[q])' <= Budget(q)'
    BY DEF FreshInv
  <2>1. CASE q = r
    <3>1. beatAge'[r] = 0 /\ beatTimer'[r] = BeatTicks /\ missed'[r] = 0
      BY DEF HistoryInv, HistoryTypeOK, Heartbeat
    <3>2. beaten'[r] \/ record'[r].row = "none"
      BY DEF HistoryInv, HistoryTypeOK, Heartbeat
    <3> QED  BY <2>1, <3>1, <3>2, HistoryAssumption DEF Budget
  <2>2. CASE q # r
    BY <2>2 DEF HistoryInv, HistoryTypeOK, FreshInv, Heartbeat, Live, Budget
  <2> QED  BY <2>1, <2>2
<1> QED  BY <1>1, <1>2, <1>3 DEF HistoryInv

LEMMA MissLemma ==
  ASSUME HistoryInv, NEW r \in Rows, MissHeartbeat(r)
  PROVE  HistoryInv'
<1>1. HistoryTypeOK'
  BY HistoryAssumption DEF HistoryInv, HistoryTypeOK, MissHeartbeat
<1>2. RowInv'
  BY DEF HistoryInv, HistoryTypeOK, RowInv, MissHeartbeat, Live
<1>3. FreshInv'
  <2> SUFFICES ASSUME NEW q \in Rows, Live(q)'
               PROVE  /\ beaten[q]' => (beatAge[q] + beatTimer[q])' <= Budget(q)'
                      /\ ~beaten[q]' /\ record[q].row' = "running"
                         => (age[q] + beatTimer[q])' <= Budget(q)'
    BY DEF FreshInv
  <2>1. CASE q = r
    <3>1. /\ beatTimer[r] = 0 /\ beatTimer'[r] = BeatTicks
          /\ missed'[r] = missed[r] + 1
          /\ beatAge'[r] = beatAge[r] /\ age'[r] = age[r] /\ beaten'[r] = beaten[r]
          /\ record' = record /\ Live(r)
      BY DEF HistoryInv, HistoryTypeOK, MissHeartbeat
    <3>2. /\ missed[r] \in Nat /\ missed[r] <= MaxMissed
          /\ beatAge[r] \in Nat /\ age[r] \in Nat
      BY HistoryAssumption DEF HistoryInv, HistoryTypeOK
    <3>3. Budget(r) \in Nat /\ Budget(r)' = Budget(r) + BeatTicks
      BY <3>1, <3>2, BudgetLemma DEF Budget
    <3>4. /\ beaten[r] => beatAge[r] + beatTimer[r] <= Budget(r)
          /\ ~beaten[r] /\ record[r].row = "running" => age[r] + beatTimer[r] <= Budget(r)
      BY <3>1 DEF HistoryInv, FreshInv
    <3>5. beaten[r] => beatAge[r] + BeatTicks <= Budget(r) + BeatTicks
      BY <3>1, <3>2, <3>3, <3>4, HistoryAssumption
    <3>6. ~beaten[r] /\ record[r].row = "running" => age[r] + BeatTicks <= Budget(r) + BeatTicks
      BY <3>1, <3>2, <3>3, <3>4, HistoryAssumption
    <3> QED  BY <2>1, <3>1, <3>3, <3>5, <3>6
  <2>2. CASE q # r
    BY <2>2 DEF HistoryInv, HistoryTypeOK, FreshInv, MissHeartbeat, Live, Budget
  <2> QED  BY <2>1, <2>2
<1> QED  BY <1>1, <1>2, <1>3 DEF HistoryInv

(* The rows that mark_stale_runs_interrupted() changes are those of dead   *)
(* runs, and nothing but their status changes.                             *)
LEMMA MarkStaleLemma ==
  ASSUME HistoryInv, NEW legacy \in BOOLEAN, MarkStale(legacy)
  PROVE  /\ record' \in [Rows -> Records]
         /\ \A r \in Rows : \/ record'[r] = record[r]
                            \/ /\ record[r].row = "running" /\ ~Live(r)
                               /\ record'[r].row = "interrupted"
                               /\ record'[r].began = record[r].began
<1>1. \A r \in Rows : record[r] \in Records  BY DEF HistoryInv, HistoryTypeOK
<1>2. ASSUME NEW r \in Rows
      PROVE  /\ record'[r] \in Records
             /\ \/ record'[r] = record[r]
                \/ /\ record[r].row = "running" /\ ~Live(r)
                   /\ record'[r].row = "interrupted"
                   /\ record'[r].began = record[r].began
  <2>1. CASE record[r].row = "running" /\ Stale(r, legacy)
    <3>1. record'[r] = [record[r] EXCEPT !.row = "interrupted"]
      BY <2>1 DEF MarkStale
    <3>2. ~Live(r)  BY <2>1, LiveRowsAreFresh
    <3> QED  BY <1>1, <2>1, <3>1, <3>2 DEF Records, RowStatuses
  <2>2. CASE ~(record[r].row = "running" /\ Stale(r, legacy))
    <3>1. record'[r] = record[r]  BY <2>2 DEF MarkStale
    <3> QED  BY <1>1, <3>1
  <2> QED  BY <2>1, <2>2
<1> QED  BY <1>2 DEF MarkStale

(* A step that only marks stale rows, as sweeps and restarts do. *)
LEMMA MarkingKeepsInv ==
  ASSUME HistoryInv, NEW legacy \in BOOLEAN, MarkStale(legacy), HistoryTypeOK',
         UNCHANGED <<fate, age, beaten, beatAge, beatTimer, missed>>
  PROVE  HistoryInv'
<1>1. RowInv'
  BY MarkStaleLemma DEF HistoryInv, RowInv, Live
<1>2. FreshInv'
  BY MarkStaleLemma DEF HistoryInv, FreshInv, Live, Budget
<1> QED  BY <1>1, <1>2 DEF HistoryInv

LEMMA SweepLemma ==
  ASSUME HistoryInv, NEW s \in Servers, Sweep(s)
  PROVE  HistoryInv'
<1>1. MarkStale(FALSE) /\ FALSE \in BOOLEAN  BY DEF Sweep
<1>2. record' \in [Rows -> Records]  BY <1>1, MarkStaleLemma
<1>3. HistoryTypeOK'
  BY <1>2, HistoryAssumption DEF HistoryInv, HistoryTypeOK, Sweep
<1>4. UNCHANGED <<fate, age, beaten, beatAge, beatTimer, missed>>  BY DEF Sweep
<1> QED  BY <1>1, <1>3, <1>4, MarkingKeepsInv

LEMMA UnmarkedKeepsInv ==
  ASSUME HistoryInv, HistoryTypeOK', UNCHANGED rowVars
  PROVE  HistoryInv'
BY DEF HistoryInv, RowInv, FreshInv, rowVars, Live, Budget

LEMMA SweepFailsLemma ==
  ASSUME HistoryInv, NEW s \in Servers, SweepFails(s)
  PROVE  HistoryInv'
<1>1. HistoryTypeOK'
  BY HistoryAssumption DEF HistoryInv, HistoryTypeOK, SweepFails, rowVars
<1> QED  BY <1>1, UnmarkedKeepsInv DEF SweepFails

LEMMA RestartLemma ==
  ASSUME HistoryInv, NEW s \in Servers, Restart(s)
  PROVE  HistoryInv'
<1>1. CASE MarkStale(TRUE)
  <2>1. TRUE \in BOOLEAN  OBVIOUS
  <2>2. record' \in [Rows -> Records]  BY <1>1, <2>1, MarkStaleLemma
  <2>3. HistoryTypeOK'
    BY <2>2, HistoryAssumption DEF HistoryInv, HistoryTypeOK, Restart
  <2>4. UNCHANGED <<fate, age, beaten, beatAge, beatTimer, missed>>  BY DEF Restart
  <2> QED  BY <1>1, <2>1, <2>3, <2>4, MarkingKeepsInv
<1>2. CASE UNCHANGED record
  <2>1. HistoryTypeOK'
    BY <1>2, HistoryAssumption DEF HistoryInv, HistoryTypeOK, Restart
  <2> QED  BY <1>2, <2>1, UnmarkedKeepsInv DEF Restart, rowVars
<1> QED  BY <1>1, <1>2 DEF Restart

LEMMA CrashLemma ==
  ASSUME HistoryInv, NEW s \in Servers, Crash(s)
  PROVE  HistoryInv'
<1>1. HistoryTypeOK'
  BY HistoryAssumption DEF HistoryInv, HistoryTypeOK, Crash
<1>2. \A r \in Rows : \/ fate'[r] = fate[r]
                      \/ Live(r) /\ fate'[r] = "died"
  BY DEF Crash
<1>3. RowInv'
  BY <1>2 DEF HistoryInv, RowInv, Crash, Live
<1>4. FreshInv'
  BY <1>2 DEF HistoryInv, FreshInv, Crash, Live, Budget
<1> QED  BY <1>1, <1>3, <1>4 DEF HistoryInv

(* Time: every live run's beat timer is running, so what its row ages by   *)
(* the timer loses.                                                        *)
LEMMA TickLemma ==
  ASSUME HistoryInv, Tick
  PROVE  HistoryInv'
<1>1. \A r \in Rows : /\ Live(r) => beatTimer[r] # 0
                      /\ beatTimer[r] \in 0..BeatTicks
                      /\ age[r] \in 0..(LegacyTicks + 1)
                      /\ beatAge[r] \in 0..(StaleTicks + 1)
  BY DEF HistoryInv, HistoryTypeOK, Tick, TimerDue
<1>2. \A r \in Rows :
        /\ age'[r] = IF fate[r] = "unborn" THEN 0 ELSE Older(age[r], LegacyTicks)
        /\ beatAge'[r] = IF beaten[r] THEN Older(beatAge[r], StaleTicks) ELSE 0
        /\ beatTimer'[r] = IF Live(r) THEN beatTimer[r] - 1 ELSE beatTimer[r]
  BY DEF Tick
<1>3. \A r \in Rows : /\ Older(age[r], LegacyTicks) \in 0..(LegacyTicks + 1)
                      /\ Older(age[r], LegacyTicks) <= age[r] + 1
                      /\ Older(beatAge[r], StaleTicks) \in 0..(StaleTicks + 1)
                      /\ Older(beatAge[r], StaleTicks) <= beatAge[r] + 1
  BY <1>1, OlderLemma, HistoryAssumption
<1>4. HistoryTypeOK'
  <2>1. age' \in [Rows -> 0..(LegacyTicks + 1)]
    BY <1>3, HistoryAssumption DEF Tick
  <2>2. beatAge' \in [Rows -> 0..(StaleTicks + 1)]
    BY <1>3, HistoryAssumption DEF Tick
  <2>3. beatTimer' \in [Rows -> 0..BeatTicks]
    BY <1>1, HistoryAssumption DEF Tick
  <2>4. sweepTimer' \in [Servers -> 0..SweepTicks]
    BY HistoryAssumption DEF HistoryInv, HistoryTypeOK, Tick, TimerDue
  <2> QED  BY <2>1, <2>2, <2>3, <2>4 DEF HistoryInv, HistoryTypeOK, Tick
<1>5. RowInv'
  BY <1>2 DEF HistoryInv, RowInv, Tick, Live
<1>6. FreshInv'
  <2> SUFFICES ASSUME NEW r \in Rows, Live(r)'
               PROVE  /\ beaten[r]' => (beatAge[r] + beatTimer[r])' <= Budget(r)'
                      /\ ~beaten[r]' /\ record[r].row' = "running"
                         => (age[r] + beatTimer[r])' <= Budget(r)'
    BY DEF FreshInv
  <2>1. Live(r) /\ Budget(r)' = Budget(r) /\ beaten' = beaten /\ record' = record
    BY DEF Tick, Live, Budget
  <2>2. /\ beaten[r] => beatAge[r] + beatTimer[r] <= Budget(r)
        /\ ~beaten[r] /\ record[r].row = "running" => age[r] + beatTimer[r] <= Budget(r)
    BY <2>1 DEF HistoryInv, FreshInv
  <2>3. beatTimer'[r] = beatTimer[r] - 1 /\ beatTimer[r] \in 1..BeatTicks
    BY <1>1, <1>2, <2>1, HistoryAssumption
  <2>4. fate[r] # "unborn"  BY <2>1 DEF Live
  <2>5. beaten[r] => beatAge'[r] <= beatAge[r] + 1 /\ beatAge'[r] \in Nat
    BY <1>2, <1>3, HistoryAssumption
  <2>6. age'[r] <= age[r] + 1 /\ age'[r] \in Nat
    BY <1>2, <1>3, <2>4, HistoryAssumption
  <2>7. age[r] \in Nat /\ beatAge[r] \in Nat /\ BeatTicks \in Nat /\ Budget(r) \in Nat
    BY <1>1, BudgetLemma, HistoryAssumption DEF Budget, HistoryInv, HistoryTypeOK
  <2>8. CASE beaten[r]
    BY <2>1, <2>2, <2>3, <2>5, <2>7, <2>8
  <2>9. CASE ~beaten[r]
    BY <2>1, <2>2, <2>3, <2>6, <2>7, <2>9
  <2> QED  BY <2>8, <2>9
<1> QED  BY <1>4, <1>5, <1>6 DEF HistoryInv

LEMMA StepLemma == HistoryInv /\ [HistoryNext]_historyVars => HistoryInv'
<1> SUFFICES ASSUME HistoryInv, [HistoryNext]_historyVars PROVE HistoryInv'
  OBVIOUS
<1>1. ASSUME NEW r \in Rows, NEW s \in Servers, BeginRow(s, r) PROVE HistoryInv'
  BY <1>1, BeginRowLemma
<1>2. ASSUME NEW r \in Rows, AppendToRow(r) PROVE HistoryInv'    BY <1>2, AppendRowLemma
<1>3. ASSUME NEW r \in Rows, FinishRow(r) PROVE HistoryInv'      BY <1>3, FinishRowLemma
<1>4. ASSUME NEW r \in Rows, Heartbeat(r) PROVE HistoryInv'      BY <1>4, HeartbeatLemma
<1>5. ASSUME NEW r \in Rows, MissHeartbeat(r) PROVE HistoryInv'  BY <1>5, MissLemma
<1>6. ASSUME NEW s \in Servers, Sweep(s) PROVE HistoryInv'       BY <1>6, SweepLemma
<1>7. ASSUME NEW s \in Servers, SweepFails(s) PROVE HistoryInv'  BY <1>7, SweepFailsLemma
<1>8. ASSUME NEW s \in Servers, Crash(s) PROVE HistoryInv'       BY <1>8, CrashLemma
<1>9. ASSUME NEW s \in Servers, Restart(s) PROVE HistoryInv'     BY <1>9, RestartLemma
<1>10. ASSUME Tick PROVE HistoryInv'                             BY <1>10, TickLemma
<1>11. ASSUME UNCHANGED historyVars PROVE HistoryInv'
  BY <1>11 DEF historyVars, rowVars, HistoryInv, HistoryTypeOK, RowInv, FreshInv, Live, Budget
<1> QED
  BY <1>1, <1>2, <1>3, <1>4, <1>5, <1>6, <1>7, <1>8, <1>9, <1>10, <1>11 DEF HistoryNext

(* The inductive invariant, which contains the type invariant. *)
THEOREM HistoryInvariant == HistorySpec => []HistoryInv
BY InitLemma, StepLemma, PTL DEF HistorySpec

(* Ages, timers and records keep their types, the cut-off counters of time *)
(* included: no timer runs past its wake-up.                               *)
THEOREM HistoryTypesHold == HistorySpec => []HistoryTypeOK
<1>1. HistoryInv => HistoryTypeOK
  BY DEF HistoryInv
<1> QED  BY <1>1, HistoryInvariant, PTL

(* Whatever the number of servers that sweep the table, and as long as the *)
(* database refuses no more than MaxMissed heartbeats in a row, the row of *)
(* a live run is never interrupted.                                        *)
THEOREM LiveRunsAreSafe == HistorySpec => []LiveRunsNotInterrupted
<1>1. HistoryInv => LiveRunsNotInterrupted
  BY DEF HistoryInv, RowInv, LiveRunsNotInterrupted
<1> QED  BY <1>1, HistoryInvariant, PTL

-----------------------------------------------------------------------------
(* The refinement of RowLifecycle, step by step. *)
LEMMA OpenStep ==
  ASSUME HistoryInv, NEW s \in Servers, NEW r \in Rows, BeginRow(s, r)
  PROVE  Lifecycle!Open(r)
<1> PICK ok \in DbOutcomes : record' = [record EXCEPT ![r] = Begin(NewRecord, ok)]
  BY DEF BeginRow
<1> DEFINE new == Begin(NewRecord, ok)
<1>1. record[r].row = "none" /\ ~Live(r)
  BY DEF BeginRow, HistoryInv, RowInv, Live
<1>2. new.row \in {"none", "running"}
  BY OutcomesLemma, BeginLemma
<1>3. record \in [Rows -> Records] /\ fate \in [Rows -> {"unborn", "live", "over", "died"}]
  BY DEF HistoryInv, HistoryTypeOK
<1> HIDE DEF new
<1>4. record' = [record EXCEPT ![r] = new]  BY DEF new
<1>5. rowStatus' = [rowStatus EXCEPT ![r] = new.row]  BY <1>3, <1>4 DEF rowStatus
<1>6. alive' = [alive EXCEPT ![r] = TRUE]  BY <1>3 DEF alive, Live, BeginRow
<1>7. rowStatus[r] = "none" /\ ~alive[r]  BY <1>1 DEF rowStatus, alive
<1> QED  BY <1>2, <1>5, <1>6, <1>7 DEF Lifecycle!Open

LEMMA CloseStep ==
  ASSUME HistoryInv, NEW r \in Rows, FinishRow(r)
  PROVE  Lifecycle!Close(r)
<1> PICK s \in {"completed", "stopped", "error"}, ok \in DbOutcomes :
         record' = [record EXCEPT ![r] = Finish(@, s, ok)]
  BY DEF FinishRow
<1> DEFINE new == Finish(record[r], s, ok)
<1>1. record[r] \in Records /\ ok \in BOOLEAN
  BY OutcomesLemma DEF HistoryInv, HistoryTypeOK
<1>2. Live(r) /\ (record[r].began => record[r].row = "running")
  BY DEF FinishRow, HistoryInv, RowInv
<1>3. new.row = record[r].row \/ (record[r].row = "running" /\ new.row = s)
  BY <1>1, <1>2 DEF Finish, Writable, Broken, Records
<1>4. record \in [Rows -> Records] /\ fate \in [Rows -> {"unborn", "live", "over", "died"}]
  BY DEF HistoryInv, HistoryTypeOK
<1> HIDE DEF new
<1>5. record' = [record EXCEPT ![r] = new]  BY DEF new
<1>6. rowStatus' = [rowStatus EXCEPT ![r] = new.row]  BY <1>4, <1>5 DEF rowStatus
<1>7. alive[r] /\ alive' = [alive EXCEPT ![r] = FALSE]
  BY <1>2, <1>4 DEF alive, Live, FinishRow
<1>8. rowStatus[r] = record[r].row  BY DEF rowStatus
<1>9. CASE new.row = record[r].row
  <2>1. rowStatus' = rowStatus  BY <1>6, <1>8, <1>9 DEF rowStatus
  <2> QED  BY <1>7, <2>1 DEF Lifecycle!Close
<1>10. CASE record[r].row = "running" /\ new.row = s
  BY <1>6, <1>7, <1>8, <1>10 DEF Lifecycle!Close
<1> QED  BY <1>3, <1>9, <1>10

LEMMA InterruptStep ==
  ASSUME HistoryInv, NEW legacy \in BOOLEAN, MarkStale(legacy), UNCHANGED fate
  PROVE  Lifecycle!LifecycleNext
<1> PICK stale \in SUBSET Rows :
         stale = {r \in Rows : record[r].row = "running" /\ Stale(r, legacy)}
  OBVIOUS
<1>1. \A r \in stale : record'[r] = [record[r] EXCEPT !.row = "interrupted"]
  BY DEF MarkStale
<1>2. \A r \in Rows \ stale : record'[r] = record[r]
  BY DEF MarkStale
<1>3. \A r \in Rows : record[r] \in Records
  BY DEF HistoryInv, HistoryTypeOK
<1>4. \A r \in stale : record'[r].row = "interrupted"
  BY <1>1, <1>3 DEF Records
<1>5. rowStatus' = [r \in Rows |-> IF r \in stale THEN "interrupted" ELSE rowStatus[r]]
  BY <1>2, <1>4 DEF rowStatus
<1>6. \A r \in stale : record[r].row = "running" /\ ~Live(r)
  BY <1>4, MarkStaleLemma
<1>7. alive' = alive  BY DEF alive, Live
<1>8. \A r \in stale : rowStatus[r] = "running" /\ ~alive[r]
  BY <1>6 DEF rowStatus, alive
<1>9. Lifecycle!Interrupt(stale)
  BY <1>5, <1>7, <1>8 DEF Lifecycle!Interrupt
<1> QED  BY <1>9 DEF Lifecycle!LifecycleNext

LEMMA DieStep ==
  ASSUME HistoryInv, NEW s \in Servers, Crash(s)
  PROVE  Lifecycle!LifecycleNext
<1> PICK dead \in SUBSET Rows : dead = {r \in Rows : Live(r) /\ owner[r] = s}
  OBVIOUS
<1>1. \A r \in Rows : fate'[r] = IF r \in dead THEN "died" ELSE fate[r]
  BY DEF Crash
<1>2. alive' = [r \in Rows |-> alive[r] /\ r \notin dead]
  BY <1>1 DEF alive, Live
<1>3. \A r \in dead : alive[r]  BY DEF alive
<1>4. rowStatus' = rowStatus  BY DEF rowStatus, Crash
<1>5. Lifecycle!Die(dead)  BY <1>2, <1>3, <1>4 DEF Lifecycle!Die
<1> QED  BY <1>5 DEF Lifecycle!LifecycleNext

LEMMA LifecycleStep ==
  HistoryInv /\ [HistoryNext]_historyVars => [Lifecycle!LifecycleNext]_Lifecycle!lifecycleVars
<1> SUFFICES ASSUME HistoryInv, [HistoryNext]_historyVars
             PROVE  Lifecycle!LifecycleNext \/ UNCHANGED Lifecycle!lifecycleVars
  OBVIOUS
<1>1. ASSUME UNCHANGED fate, \A r \in Rows : record'[r].row = record[r].row
      PROVE  UNCHANGED Lifecycle!lifecycleVars
  BY <1>1 DEF Lifecycle!lifecycleVars, rowStatus, alive, Live
<1>2. ASSUME NEW r \in Rows, NEW s \in Servers, BeginRow(s, r) PROVE Lifecycle!LifecycleNext
  BY <1>2, OpenStep DEF Lifecycle!LifecycleNext
<1>3. ASSUME NEW r \in Rows, AppendToRow(r) PROVE UNCHANGED Lifecycle!lifecycleVars
  <2> PICK ok \in DbOutcomes : record' = [record EXCEPT ![r] = AppendResult(@, ok)]
    BY <1>3 DEF AppendToRow
  <2>1. record[r] \in Records /\ record \in [Rows -> Records]
    BY DEF HistoryInv, HistoryTypeOK
  <2>2. AppendResult(record[r], ok).row = record[r].row
    BY <2>1 DEF AppendResult, Broken, Records
  <2>3. \A q \in Rows : record'[q].row = record[q].row  BY <2>1, <2>2
  <2> QED  BY <1>1, <1>3, <2>3 DEF AppendToRow
<1>4. ASSUME NEW r \in Rows, FinishRow(r) PROVE Lifecycle!LifecycleNext
  BY <1>4, CloseStep DEF Lifecycle!LifecycleNext
<1>5. ASSUME NEW r \in Rows, Heartbeat(r) \/ MissHeartbeat(r)
      PROVE  UNCHANGED Lifecycle!lifecycleVars
  BY <1>1, <1>5 DEF Heartbeat, MissHeartbeat
<1>6. ASSUME NEW s \in Servers, Sweep(s) PROVE Lifecycle!LifecycleNext
  BY <1>6, InterruptStep DEF Sweep
<1>7. ASSUME NEW s \in Servers, SweepFails(s) PROVE UNCHANGED Lifecycle!lifecycleVars
  BY <1>1, <1>7 DEF SweepFails, rowVars
<1>8. ASSUME NEW s \in Servers, Crash(s) PROVE Lifecycle!LifecycleNext
  BY <1>8, DieStep
<1>9. ASSUME NEW s \in Servers, Restart(s)
      PROVE  Lifecycle!LifecycleNext \/ UNCHANGED Lifecycle!lifecycleVars
  <2>1. CASE MarkStale(TRUE)  BY <1>9, <2>1, InterruptStep DEF Restart
  <2>2. CASE UNCHANGED record  BY <1>1, <1>9, <2>2 DEF Restart
  <2> QED  BY <1>9, <2>1, <2>2 DEF Restart
<1>10. ASSUME Tick PROVE UNCHANGED Lifecycle!lifecycleVars
  BY <1>1, <1>10 DEF Tick
<1>11. ASSUME UNCHANGED historyVars PROVE UNCHANGED Lifecycle!lifecycleVars
  BY <1>1, <1>11 DEF historyVars, rowVars
<1> QED
  BY <1>2, <1>3, <1>4, <1>5, <1>6, <1>7, <1>8, <1>9, <1>10, <1>11 DEF HistoryNext

(* Heartbeats, sweepers, crashes and restarts implement the promise of the *)
(* status column: final statuses stay, and only rows nobody writes any     *)
(* more are called interrupted.                                            *)
THEOREM HistoryKeepsPromise == HistorySpec => ImplementsLifecycle
<1>1. HistoryInit => Lifecycle!LifecycleInit
  <2> SUFFICES ASSUME HistoryInit PROVE Lifecycle!LifecycleInit
    OBVIOUS
  <2>1. \A r \in Rows : record[r].row = "none" /\ fate[r] = "unborn"
    BY DEF HistoryInit, NewRecord
  <2>2. rowStatus = [r \in Rows |-> "none"]  BY <2>1 DEF rowStatus
  <2>3. alive = [r \in Rows |-> FALSE]       BY <2>1 DEF alive, Live
  <2> QED  BY <2>2, <2>3 DEF Lifecycle!LifecycleInit
<1> QED
  BY <1>1, LifecycleStep, HistoryInvariant, PTL
  DEF HistorySpec, ImplementsLifecycle, Lifecycle!LifecycleSpec
=============================================================================
