-------------------------- MODULE RunCommand_proofs --------------------------
(***************************************************************************)
(* Theorems about RunSlots and RunCommand.  The first part shows SlotInv   *)
(* inductive, for every finite set of runs and every limit.  The second    *)
(* part shows that every step of a command coroutine is a step of RunSlots *)
(* or leaves its state alone, so what the first part shows of the slots    *)
(* holds of whole runs, whatever their files, tests, failures and stops.   *)
(* The third part shows CommandInv inductive, one lemma per action: it     *)
(* ties a run's place in its command to its rows, its slices of the        *)
(* results and the messages it published, and the invariants of            *)
(* RunCommand follow from it.  The fourth part counts: the rows of a run's *)
(* files together hold what the run streamed, and each row lives as         *)
(* RowLifecycle says.                                                      *)
(***************************************************************************)
EXTENDS RunCommand, FiniteSetTheorems, SequenceTheorems, TLAPS

(* What ties a handle's status, its task's place and its registry entry    *)
(* together between two steps.                                             *)
StatusInv ==
  \A r \in Runs :
    /\ status[r] = "none" <=> slot[r] = "none"
    /\ status[r] = "queued" <=> slot[r] \in {"spawned", "waiting", "granted"}
    /\ status[r] = "running" <=> slot[r] = "holding"
    /\ status[r] \in {"queued", "running"} => r \in registry
    /\ status[r] = "none" => r \notin registry

(* Every task that waits for a permit is in the semaphore's queue. *)
QueueInv ==
  \A r \in Runs :
    slot[r] \in {"waiting", "granted"} => \E i \in DOMAIN waiters : waiters[i] = r

SlotInv ==
  /\ SlotTypeOK
  /\ StatusInv
  /\ QueueInv
  /\ PermitsConserved
  /\ NoLostWakeup

-----------------------------------------------------------------------------
(* Removing one entry of the queue keeps it a queue of runs and loses no   *)
(* other entry.                                                            *)
LEMMA RemoveAtKeepsOthers ==
  ASSUME NEW S, NEW s \in Seq(S), NEW i \in DOMAIN s
  PROVE  /\ RemoveAt(s, i) \in Seq(S)
         /\ \A j \in DOMAIN s : j # i =>
              \E k \in DOMAIN RemoveAt(s, i) : RemoveAt(s, i)[k] = s[j]
<1> DEFINE a == SubSeq(s, 1, i-1)
           b == SubSeq(s, i+1, Len(s))
<1>1. /\ i \in 1..Len(s)
      /\ Len(s) \in Nat
      /\ DOMAIN s = 1..Len(s)
  OBVIOUS
<1>2. /\ a \in Seq(S)
      /\ Len(a) = i - 1
      /\ \A k \in 1..(i-1) : a[k] = s[k]
  BY <1>1
<1>3. /\ b \in Seq(S)
      /\ Len(b) = Len(s) - i
      /\ \A k \in 1..(Len(s) - i) : b[k] = s[i + k]
  BY <1>1
<1> HIDE DEF a, b
<1>4. /\ a \o b \in Seq(S)
      /\ Len(a \o b) = Len(a) + Len(b)
      /\ \A k \in 1..(Len(a) + Len(b)) :
           (a \o b)[k] = IF k <= Len(a) THEN a[k] ELSE b[k - Len(a)]
  BY <1>2, <1>3, ConcatProperties, Zenon
<1>5. /\ DOMAIN (a \o b) = 1..(Len(a) + Len(b))
      /\ Len(a) + Len(b) = Len(s) - 1
  <2>1. DOMAIN (a \o b) = 1..Len(a \o b)
    BY <1>4, LenProperties, Zenon
  <2> QED BY <2>1, <1>1, <1>2, <1>3, <1>4
<1>6. ASSUME NEW j \in DOMAIN s, j # i
      PROVE  \E k \in DOMAIN (a \o b) : (a \o b)[k] = s[j]
  <2>1. CASE j < i
    <3>1. /\ j \in 1..(Len(a) + Len(b))
          /\ j <= Len(a)
          /\ j \in 1..(i - 1)
      BY <2>1, <1>1, <1>2, <1>5
    <3>2. (a \o b)[j] = a[j]
      BY <3>1, <1>4, Zenon
    <3> QED BY <3>1, <3>2, <1>2, <1>5, Zenon
  <2>2. CASE j > i
    <3>1. /\ j - 1 \in 1..(Len(a) + Len(b))
          /\ ~(j - 1 <= Len(a))
          /\ (j - 1) - Len(a) = j - i
          /\ j - i \in 1..(Len(s) - i)
          /\ i + (j - i) = j
      <4>1. Len(a) = i - 1 /\ Len(a) + Len(b) = Len(s) - 1 /\ j \in 1..Len(s)
        BY <1>1, <1>2, <1>5
      <4> QED BY <4>1, <1>1, <2>2
    <3>2. (a \o b)[j - 1] = b[j - i]
      BY <3>1, <1>4, <1>5
    <3>3. b[j - i] = s[j]
      BY <3>1, <1>3
    <3> QED BY <3>1, <3>2, <3>3, <1>5
  <2> QED BY <2>1, <2>2, <1>1, <1>6
<1> QED BY <1>4, <1>6 DEF RemoveAt, a, b

-----------------------------------------------------------------------------
(* The runs that have a permit, promised or in use. *)
Taken(s) == {r \in Runs : s[r] \in {"granted", "holding"}}

LEMMA TakenFinite ==
  ASSUME NEW s PROVE IsFiniteSet(Taken(s)) /\ Cardinality(Taken(s)) \in Nat
BY RunsAssumption, FS_Subset, FS_CardinalityType DEF Taken

LEMMA TakenIsGrantedOrHolding == Granted \union Holding = Taken(slot)
BY DEF Granted, Holding, Taken

(* Moving one run in or out of the set that has a permit. *)
LEMMA TakenMoves ==
  ASSUME NEW s \in [Runs -> Slots], NEW r \in Runs, NEW p \in Slots
  PROVE  LET t == [s EXCEPT ![r] = p] IN
         /\ t \in [Runs -> Slots]
         /\ (s[r] \in {"granted", "holding"} <=> p \in {"granted", "holding"})
              => Taken(t) = Taken(s)
         /\ s[r] \notin {"granted", "holding"} /\ p \in {"granted", "holding"}
              => Cardinality(Taken(t)) = Cardinality(Taken(s)) + 1
         /\ s[r] \in {"granted", "holding"} /\ p \notin {"granted", "holding"}
              => Cardinality(Taken(t)) = Cardinality(Taken(s)) - 1
<1> DEFINE t == [s EXCEPT ![r] = p]
<1>1. t \in [Runs -> Slots]
  OBVIOUS
<1>2. ASSUME s[r] \in {"granted", "holding"} <=> p \in {"granted", "holding"}
      PROVE  Taken(t) = Taken(s)
  BY <1>2 DEF Taken
<1>3. ASSUME s[r] \notin {"granted", "holding"}, p \in {"granted", "holding"}
      PROVE  Cardinality(Taken(t)) = Cardinality(Taken(s)) + 1
  <2>1. Taken(t) = Taken(s) \union {r} /\ r \notin Taken(s)
    BY <1>3 DEF Taken
  <2> QED BY <2>1, TakenFinite, FS_AddElement
<1>4. ASSUME s[r] \in {"granted", "holding"}, p \notin {"granted", "holding"}
      PROVE  Cardinality(Taken(t)) = Cardinality(Taken(s)) - 1
  <2>1. Taken(t) = Taken(s) \ {r} /\ r \in Taken(s)
    BY <1>4 DEF Taken
  <2> QED BY <2>1, TakenFinite, FS_RemoveElement
<1> QED BY <1>1, <1>2, <1>3, <1>4

(* _wake_up_next hands over at most the permit it has, and leaves nobody   *)
(* pending unless it granted one.                                          *)
LEMMA WakeUpConserves ==
  ASSUME SlotTypeOK,
         NEW free \in Nat \ {0}, NEW base \in [Runs -> Slots],
         \A w \in Pending : base[w] = "waiting",
         free + Cardinality(Taken(base)) = Limit,
         WakeUpNext(free, base)
  PROVE  /\ slot' \in [Runs -> Slots]
         /\ permits' \in Nat
         /\ permits' + Cardinality(Taken(slot')) = Limit
         /\ \A r \in Runs :
              \/ slot'[r] = base[r]
              \/ r \in Pending /\ slot'[r] = "granted"
         /\ Pending = {} \/ \E w \in Runs : slot'[w] = "granted"
<1>1. CASE Pending = {} /\ slot' = base /\ permits' = free
  BY <1>1
<1>2. ASSUME NEW w \in Runs, IsNextWaiter(w),
             slot' = [base EXCEPT ![w] = "granted"], permits' = free - 1
      PROVE  /\ slot' \in [Runs -> Slots]
             /\ permits' \in Nat
             /\ permits' + Cardinality(Taken(slot')) = Limit
             /\ \A r \in Runs :
                  \/ slot'[r] = base[r]
                  \/ r \in Pending /\ slot'[r] = "granted"
             /\ \E v \in Runs : slot'[v] = "granted"
  <2>1. w \in Pending /\ base[w] = "waiting"
    BY <1>2 DEF IsNextWaiter
  <2>2. "granted" \in Slots
    BY DEF Slots
  <2>3. /\ slot' \in [Runs -> Slots]
        /\ Cardinality(Taken(slot')) = Cardinality(Taken(base)) + 1
    BY <1>2, <2>1, <2>2, TakenMoves
  <2>4. permits' \in Nat /\ permits' + Cardinality(Taken(slot')) = Limit
    BY <1>2, <2>3, TakenFinite, LimitAssumption
  <2> QED BY <1>2, <2>1, <2>3, <2>4
<1> QED BY <1>1, <1>2 DEF WakeUpNext

(* Leaving the queue keeps everybody else queued. *)
LEMMA LeaveQueueKeepsOthers ==
  ASSUME SlotTypeOK, NEW r \in Runs, LeaveQueue(r)
  PROVE  /\ waiters' \in Seq(Runs)
         /\ \A q \in Runs \ {r} :
              (\E i \in DOMAIN waiters : waiters[i] = q)
                => \E i \in DOMAIN waiters' : waiters'[i] = q
<1>1. PICK i \in DOMAIN waiters : waiters[i] = r /\ waiters' = RemoveAt(waiters, i)
  BY DEF LeaveQueue
<1>2. waiters \in Seq(Runs)
  BY DEF SlotTypeOK
<1>3. /\ waiters' \in Seq(Runs)
      /\ \A j \in DOMAIN waiters : j # i =>
           \E k \in DOMAIN waiters' : waiters'[k] = waiters[j]
  BY <1>1, <1>2, RemoveAtKeepsOthers
<1> QED BY <1>1, <1>3

-----------------------------------------------------------------------------
LEMMA SlotInvInit == SlotInit => SlotInv
<1> SUFFICES ASSUME SlotInit PROVE SlotInv
  OBVIOUS
<1>1. SlotTypeOK
  BY LimitAssumption DEF SlotInit, SlotTypeOK, Statuses, Slots, Cancels
<1>2. StatusInv
  BY DEF SlotInit, StatusInv
<1>3. QueueInv
  BY DEF SlotInit, QueueInv
<1>4. PermitsConserved
  <2>1. Granted \union Holding = {}
    BY DEF SlotInit, Granted, Holding
  <2>2. Cardinality(Granted \union Holding) = 0
    BY <2>1, FS_EmptySet, Zenon
  <2> QED BY <2>2, LimitAssumption DEF SlotInit, PermitsConserved
<1>5. NoLostWakeup
  BY DEF SlotInit, NoLostWakeup, Pending
<1> QED BY <1>1, <1>2, <1>3, <1>4, <1>5 DEF SlotInv

LEMMA CreateRunKeepsInv ==
  ASSUME SlotInv, NEW r \in Runs, CreateRun(r) PROVE SlotInv'
<1> USE DEF SlotInv
<1>1. /\ slot[r] = "none"
      /\ slot' = [slot EXCEPT ![r] = "spawned"]
      /\ slot' \in [Runs -> Slots]
      /\ Taken(slot') = Taken(slot)
  <2>1. slot[r] = "none" /\ slot \in [Runs -> Slots] /\ "spawned" \in Slots
    BY DEF CreateRun, StatusInv, SlotTypeOK, Slots
  <2> QED BY <2>1, TakenMoves DEF CreateRun
<1>2. SlotTypeOK'
  BY <1>1 DEF CreateRun, SlotTypeOK, Statuses
<1>3. StatusInv'
  BY <1>1 DEF CreateRun, StatusInv, SlotTypeOK, Slots, Finished, FinalStatuses
<1>4. QueueInv'
  BY <1>1 DEF CreateRun, QueueInv, SlotTypeOK
<1>5. PermitsConserved'
  BY <1>1, TakenIsGrantedOrHolding DEF CreateRun, PermitsConserved, Granted, Holding, Taken
<1>6. NoLostWakeup'
  BY <1>1 DEF CreateRun, NoLostWakeup, SlotTypeOK, Pending, Granted
<1> QED BY <1>2, <1>3, <1>4, <1>5, <1>6

LEMMA AcquireFreeKeepsInv ==
  ASSUME SlotInv, NEW r \in Runs, AcquireFree(r) PROVE SlotInv'
<1> USE DEF SlotInv
<1>1. /\ slot' \in [Runs -> Slots]
      /\ Cardinality(Taken(slot')) = Cardinality(Taken(slot)) + 1
  <2>1. slot[r] = "spawned" /\ slot \in [Runs -> Slots] /\ "holding" \in Slots
    BY DEF AcquireFree, SlotTypeOK, Slots
  <2> QED BY <2>1, TakenMoves DEF AcquireFree
<1>2. permits \in Nat \ {0}
  BY DEF AcquireFree, Locked, SlotTypeOK
<1>3. SlotTypeOK'
  BY <1>1, <1>2 DEF AcquireFree, SlotTypeOK, Statuses
<1>4. StatusInv'
  BY DEF AcquireFree, StatusInv, SlotTypeOK, Slots
<1>5. QueueInv'
  BY DEF AcquireFree, QueueInv, SlotTypeOK
<1>6. PermitsConserved'
  <2>1. permits + Cardinality(Taken(slot)) = Limit
    BY TakenIsGrantedOrHolding DEF PermitsConserved
  <2>2. permits' + Cardinality(Taken(slot')) = Limit
    BY <2>1, <1>1, <1>2, TakenFinite DEF AcquireFree
  <2> QED BY <2>2, TakenIsGrantedOrHolding DEF PermitsConserved, Granted, Holding, Taken
<1>7. NoLostWakeup'
  <2>1. Pending = {}
    BY DEF AcquireFree, Locked, QueueInv, Pending
  <2>2. Pending' = {}
    BY <2>1 DEF AcquireFree, Pending, SlotTypeOK
  <2> QED BY <2>2 DEF NoLostWakeup
<1> QED BY <1>3, <1>4, <1>5, <1>6, <1>7

LEMMA ParkKeepsInv ==
  ASSUME SlotInv, NEW r \in Runs, Park(r) PROVE SlotInv'
<1> USE DEF SlotInv
<1>1. slot' \in [Runs -> Slots] /\ Taken(slot') = Taken(slot)
  <2>1. slot[r] = "spawned" /\ slot \in [Runs -> Slots] /\ "waiting" \in Slots
    BY DEF Park, SlotTypeOK, Slots
  <2> QED BY <2>1, TakenMoves DEF Park
<1>2. /\ waiters' \in Seq(Runs)
      /\ DOMAIN waiters' = 1..(Len(waiters) + 1)
      /\ \A i \in DOMAIN waiters : i \in DOMAIN waiters' /\ waiters'[i] = waiters[i]
      /\ waiters'[Len(waiters) + 1] = r
  BY DEF Park, SlotTypeOK
<1>3. SlotTypeOK'
  BY <1>1, <1>2 DEF Park, SlotTypeOK
<1>4. StatusInv'
  BY DEF Park, StatusInv, SlotTypeOK, Slots
<1>5. QueueInv'
  <2>1. Len(waiters) \in Nat
    BY DEF SlotTypeOK
  <2>2. \E i \in DOMAIN waiters' : waiters'[i] = r
    BY <1>2, <2>1
  <2>3. ASSUME NEW q \in Runs, q # r, slot'[q] \in {"waiting", "granted"}
        PROVE  \E i \in DOMAIN waiters' : waiters'[i] = q
    <3>1. slot[q] \in {"waiting", "granted"}
      BY <2>3 DEF Park, SlotTypeOK
    <3>2. PICK i \in DOMAIN waiters : waiters[i] = q
      BY <3>1 DEF QueueInv
    <3> QED BY <3>2, <1>2
  <2> QED BY <2>2, <2>3 DEF QueueInv
<1>6. PermitsConserved'
  BY <1>1, TakenIsGrantedOrHolding DEF Park, PermitsConserved, Granted, Holding, Taken
<1>7. NoLostWakeup'
  <2>1. permits > 0 => Granted # {}
    BY DEF Park, Locked, NoLostWakeup, SlotTypeOK
  <2>2. Granted' = Granted /\ permits' = permits
    BY DEF Park, Granted, SlotTypeOK
  <2> QED BY <2>1, <2>2 DEF NoLostWakeup
<1> QED BY <1>3, <1>4, <1>5, <1>6, <1>7

LEMMA ResumeKeepsInv ==
  ASSUME SlotInv, NEW r \in Runs, Resume(r) PROVE SlotInv'
<1> USE DEF SlotInv
<1> DEFINE base == [slot EXCEPT ![r] = "holding"]
<1>1. /\ base \in [Runs -> Slots]
      /\ Taken(base) = Taken(slot)
      /\ \A w \in Pending : base[w] = "waiting"
  <2>1. slot[r] = "granted" /\ slot \in [Runs -> Slots] /\ "holding" \in Slots
    BY DEF Resume, SlotTypeOK, Slots
  <2>2. base \in [Runs -> Slots] /\ Taken(base) = Taken(slot)
    BY <2>1, TakenMoves
  <2> QED BY <2>1, <2>2 DEF Pending
<1>2. permits \in Nat /\ permits + Cardinality(Taken(slot)) = Limit
  BY TakenIsGrantedOrHolding DEF SlotTypeOK, PermitsConserved
<1>3. /\ slot' \in [Runs -> Slots]
      /\ permits' \in Nat
      /\ permits' + Cardinality(Taken(slot')) = Limit
      /\ \A q \in Runs :
           \/ slot'[q] = base[q]
           \/ q \in Pending /\ slot'[q] = "granted"
      /\ permits' = 0 \/ Pending = {} \/ \E w \in Runs : slot'[w] = "granted"
  <2>1. CASE permits > 0
    <3>1. permits \in Nat \ {0} /\ permits + Cardinality(Taken(base)) = Limit
      BY <2>1, <1>1, <1>2
    <3>2. WakeUpNext(permits, base)
      BY <2>1 DEF Resume
    <3> HIDE DEF base
    <3> QED BY <3>1, <3>2, <1>1, WakeUpConserves
  <2>2. CASE ~(permits > 0)
    <3>1. slot' = base /\ permits' = permits
      BY <2>2 DEF Resume
    <3> QED BY <3>1, <2>2, <1>1, <1>2
  <2> QED BY <2>1, <2>2
<1>4. /\ slot'[r] = "holding"
      /\ \A q \in Runs \ {r} :
           \/ slot'[q] = slot[q]
           \/ slot[q] = "waiting" /\ slot'[q] = "granted"
  BY <1>3 DEF Resume, SlotTypeOK, Pending
<1>5. /\ waiters' \in Seq(Runs)
      /\ \A q \in Runs \ {r} :
           (\E i \in DOMAIN waiters : waiters[i] = q)
             => \E i \in DOMAIN waiters' : waiters'[i] = q
  BY LeaveQueueKeepsOthers DEF Resume
<1>6. SlotTypeOK'
  BY <1>3, <1>5 DEF Resume, SlotTypeOK, Statuses
<1>7. StatusInv'
  <2>1. slot[r] = "granted" /\ status' = [status EXCEPT ![r] = "running"] /\ registry' = registry
    BY DEF Resume
  <2> QED BY <1>4, <2>1 DEF StatusInv, SlotTypeOK
<1>8. QueueInv'
  BY <1>4, <1>5 DEF QueueInv
<1>9. PermitsConserved'
  BY <1>3, TakenIsGrantedOrHolding DEF PermitsConserved, Granted, Holding, Taken
<1>10. NoLostWakeup'
  <2>1. Pending' \subseteq Pending
    BY <1>4 DEF Resume, Pending
  <2> QED BY <2>1, <1>3 DEF NoLostWakeup, Granted
<1> QED BY <1>6, <1>7, <1>8, <1>9, <1>10

LEMMA AbandonKeepsInv ==
  ASSUME SlotInv, NEW r \in Runs, Abandon(r) PROVE SlotInv'
<1> USE DEF SlotInv
<1> DEFINE base == [slot EXCEPT ![r] = "reaping"]
<1>1. /\ slot[r] \in {"waiting", "granted"}
      /\ r \notin Pending
      /\ status[r] = "queued"
      /\ status' = [status EXCEPT ![r] = "stopped"]
  BY DEF Abandon, Pending, StatusInv, Finalize, Finished, FinalStatuses
<1>2. /\ base \in [Runs -> Slots]
      /\ slot[r] = "waiting" => Taken(base) = Taken(slot)
      /\ slot[r] = "granted" => Cardinality(Taken(base)) = Cardinality(Taken(slot)) - 1
      /\ \A w \in Pending : base[w] = "waiting"
  <2>1. slot \in [Runs -> Slots] /\ "reaping" \in Slots
    BY DEF SlotTypeOK, Slots
  <2>2. /\ base \in [Runs -> Slots]
        /\ slot[r] = "waiting" => Taken(base) = Taken(slot)
        /\ slot[r] = "granted" => Cardinality(Taken(base)) = Cardinality(Taken(slot)) - 1
    BY <2>1, TakenMoves
  <2> QED BY <1>1, <2>1, <2>2 DEF Pending
<1>3. permits \in Nat /\ permits + Cardinality(Taken(slot)) = Limit
  BY TakenIsGrantedOrHolding DEF SlotTypeOK, PermitsConserved
<1>4. /\ slot' \in [Runs -> Slots]
      /\ permits' \in Nat
      /\ permits' + Cardinality(Taken(slot')) = Limit
      /\ \A q \in Runs :
           \/ slot'[q] = base[q]
           \/ q \in Pending /\ slot'[q] = "granted"
      /\ \/ permits' = permits /\ Granted' = Granted
         \/ Pending = {}
         \/ \E w \in Runs : slot'[w] = "granted"
  <2>1. CASE slot[r] = "granted"
    <3>1. permits + 1 \in Nat \ {0} /\ permits + 1 + Cardinality(Taken(base)) = Limit
      BY <2>1, <1>2, <1>3, TakenFinite
    <3>2. WakeUpNext(permits + 1, base)
      BY <2>1 DEF Abandon
    <3> HIDE DEF base
    <3> QED BY <3>1, <3>2, <1>2, WakeUpConserves
  <2>2. CASE slot[r] = "waiting"
    <3>1. slot' = base /\ permits' = permits
      BY <2>2 DEF Abandon
    <3>2. Granted' = Granted
      BY <3>1, <2>2 DEF Granted, SlotTypeOK
    <3> QED BY <3>1, <3>2, <2>2, <1>2, <1>3
  <2> QED BY <2>1, <2>2, <1>1
<1>5. /\ slot'[r] = "reaping"
      /\ \A q \in Runs \ {r} :
           \/ slot'[q] = slot[q]
           \/ slot[q] = "waiting" /\ slot'[q] = "granted"
  BY <1>1, <1>4 DEF SlotTypeOK, Pending
<1>6. /\ waiters' \in Seq(Runs)
      /\ \A q \in Runs \ {r} :
           (\E i \in DOMAIN waiters : waiters[i] = q)
             => \E i \in DOMAIN waiters' : waiters'[i] = q
  BY LeaveQueueKeepsOthers DEF Abandon
<1>7. SlotTypeOK'
  BY <1>1, <1>4, <1>6 DEF Abandon, SlotTypeOK, Statuses, FinalStatuses, Cancels
<1>8. StatusInv'
  <2>1. registry' = registry
    BY DEF Abandon
  <2> QED BY <1>1, <1>5, <2>1 DEF StatusInv, SlotTypeOK
<1>9. QueueInv'
  BY <1>5, <1>6 DEF QueueInv
<1>10. PermitsConserved'
  BY <1>4, TakenIsGrantedOrHolding DEF PermitsConserved, Granted, Holding, Taken
<1>11. NoLostWakeup'
  <2>1. Pending' \subseteq Pending
    BY <1>5 DEF Abandon, Pending, SlotTypeOK
  <2> QED BY <2>1, <1>4 DEF NoLostWakeup, Granted
<1> QED BY <1>7, <1>8, <1>9, <1>10, <1>11

LEMMA LeaveKeepsInv ==
  ASSUME SlotInv, NEW r \in Runs, NEW s \in FinalStatuses, Leave(r, s) PROVE SlotInv'
<1> USE DEF SlotInv
<1> DEFINE base == [slot EXCEPT ![r] = "reaping"]
<1>1. /\ slot[r] = "holding"
      /\ status[r] = "running"
      /\ status' = [status EXCEPT ![r] = s]
      /\ registry' = registry /\ waiters' = waiters
  BY DEF Leave, StatusInv, Finalize, Finished, FinalStatuses
<1>2. /\ base \in [Runs -> Slots]
      /\ Cardinality(Taken(base)) = Cardinality(Taken(slot)) - 1
      /\ \A w \in Pending : base[w] = "waiting"
  <2>1. slot \in [Runs -> Slots] /\ "reaping" \in Slots
    BY DEF SlotTypeOK, Slots
  <2>2. /\ base \in [Runs -> Slots]
        /\ Cardinality(Taken(base)) = Cardinality(Taken(slot)) - 1
    BY <1>1, <2>1, TakenMoves
  <2> QED BY <1>1, <2>1, <2>2 DEF Pending
<1>3. permits \in Nat /\ permits + Cardinality(Taken(slot)) = Limit
  BY TakenIsGrantedOrHolding DEF SlotTypeOK, PermitsConserved
<1>4. /\ slot' \in [Runs -> Slots]
      /\ permits' \in Nat
      /\ permits' + Cardinality(Taken(slot')) = Limit
      /\ \A q \in Runs :
           \/ slot'[q] = base[q]
           \/ q \in Pending /\ slot'[q] = "granted"
      /\ Pending = {} \/ \E w \in Runs : slot'[w] = "granted"
  <2>1. permits + 1 \in Nat \ {0} /\ permits + 1 + Cardinality(Taken(base)) = Limit
    BY <1>2, <1>3, TakenFinite
  <2>2. WakeUpNext(permits + 1, base)
    BY DEF Leave
  <2> HIDE DEF base
  <2> QED BY <2>1, <2>2, <1>2, WakeUpConserves
<1>5. /\ slot'[r] = "reaping"
      /\ \A q \in Runs \ {r} :
           \/ slot'[q] = slot[q]
           \/ slot[q] = "waiting" /\ slot'[q] = "granted"
  BY <1>1, <1>4 DEF SlotTypeOK, Pending
<1>6. SlotTypeOK'
  BY <1>1, <1>4 DEF Leave, SlotTypeOK, Statuses, Cancels
<1>7. StatusInv'
  BY <1>1, <1>5 DEF StatusInv, SlotTypeOK, FinalStatuses
<1>8. QueueInv'
  BY <1>1, <1>5 DEF QueueInv
<1>9. PermitsConserved'
  BY <1>4, TakenIsGrantedOrHolding DEF PermitsConserved, Granted, Holding, Taken
<1>10. NoLostWakeup'
  <2>1. Pending' \subseteq Pending
    BY <1>5, <1>1 DEF Leave, Pending, SlotTypeOK
  <2> QED BY <2>1, <1>4 DEF NoLostWakeup, Granted
<1> QED BY <1>6, <1>7, <1>8, <1>9, <1>10

LEMMA ReapKeepsInv ==
  ASSUME SlotInv, NEW r \in Runs, Reap(r) PROVE SlotInv'
<1> USE DEF SlotInv
<1>1. slot' \in [Runs -> Slots] /\ Taken(slot') = Taken(slot)
  <2>1. slot[r] = "reaping" /\ slot \in [Runs -> Slots] /\ "done" \in Slots
    BY DEF Reap, SlotTypeOK, Slots
  <2> QED BY <2>1, TakenMoves DEF Reap
<1>2. SlotTypeOK'
  BY <1>1 DEF Reap, SlotTypeOK
<1>3. StatusInv'
  BY DEF Reap, StatusInv, SlotTypeOK
<1>4. QueueInv'
  BY DEF Reap, QueueInv, SlotTypeOK
<1>5. PermitsConserved'
  BY <1>1, TakenIsGrantedOrHolding DEF Reap, PermitsConserved, Granted, Holding, Taken
<1>6. NoLostWakeup'
  BY DEF Reap, NoLostWakeup, Pending, Granted, SlotTypeOK
<1> QED BY <1>2, <1>3, <1>4, <1>5, <1>6

(* Cancelling a task, and the delivery of the cancellation, move no permit.*)
LEMMA CancelKeepsInv ==
  ASSUME SlotInv, NEW r \in Runs, CancelTask(r) \/ DeliverCancel(r) PROVE SlotInv'
<1> USE DEF SlotInv
<1>1. UNCHANGED <<registry, status, slot, permits, waiters>>
  BY DEF CancelTask, DeliverCancel
<1>2. /\ cancel' \in [Runs -> Cancels]
      /\ \A q \in Runs : slot[q] = "waiting" /\ cancel[q] = "pending" => cancel'[q] = "pending"
  BY DEF CancelTask, DeliverCancel, SlotTypeOK, Cancels
<1>3. SlotTypeOK'
  BY <1>1, <1>2 DEF SlotTypeOK
<1>4. StatusInv' /\ QueueInv'
  BY <1>1 DEF StatusInv, QueueInv
<1>5. PermitsConserved'
  BY <1>1 DEF PermitsConserved, Granted, Holding
<1>6. NoLostWakeup'
  <2>1. Pending' \subseteq Pending
    BY <1>1, <1>2 DEF Pending
  <2> QED BY <1>1, <2>1 DEF NoLostWakeup, Granted
<1> QED BY <1>3, <1>4, <1>5, <1>6

-----------------------------------------------------------------------------
LEMMA SlotNextKeepsInv == SlotInv /\ [SlotNext]_slotVars => SlotInv'
<1> SUFFICES ASSUME SlotInv, [SlotNext]_slotVars PROVE SlotInv'
  OBVIOUS
<1>1. ASSUME NEW r \in Runs, CreateRun(r) PROVE SlotInv'
  BY <1>1, CreateRunKeepsInv
<1>2. ASSUME NEW r \in Runs, TaskStep(r) PROVE SlotInv'
  BY <1>2, AcquireFreeKeepsInv, ParkKeepsInv, ResumeKeepsInv, AbandonKeepsInv,
     LeaveKeepsInv, ReapKeepsInv DEF TaskStep
<1>3. ASSUME NEW r \in Runs, DeliverCancel(r) \/ CancelTask(r) PROVE SlotInv'
  BY <1>3, CancelKeepsInv
<1>4. CASE UNCHANGED slotVars
  BY <1>4 DEF slotVars, SlotInv, SlotTypeOK, StatusInv, QueueInv, PermitsConserved,
     NoLostWakeup, Pending, Granted, Holding
<1> QED BY <1>1, <1>2, <1>3, <1>4 DEF SlotNext

(* The inductive invariant of the slot protocol. *)
THEOREM SlotInvariant == SlotSpec => []SlotInv
BY SlotInvInit, SlotNextKeepsInv, PTL DEF SlotSpec

(* The variables keep their types: a release or a wake-up never takes the  *)
(* permits below zero.                                                     *)
THEOREM SlotTypesHold == SlotSpec => []SlotTypeOK
<1>1. SlotInv => SlotTypeOK
  BY DEF SlotInv
<1> QED BY <1>1, SlotInvariant, PTL

(* No permit is ever lost or made up. *)
THEOREM PermitsAreSafe == SlotSpec => []PermitsConserved
<1>1. SlotInv => PermitsConserved
  BY DEF SlotInv
<1> QED BY <1>1, SlotInvariant, PTL

(* No permit lies idle in front of a parked run that nobody is about to    *)
(* wake, whoever was cancelled at which point of its wait.                 *)
THEOREM NoWakeupIsLost == SlotSpec => []NoLostWakeup
<1>1. SlotInv => NoLostWakeup
  BY DEF SlotInv
<1> QED BY <1>1, SlotInvariant, PTL

(* Whatever the number of runs and the limit, at most Limit handles are in *)
(* status "running".                                                       *)
THEOREM AtMostLimitRunning == SlotSpec => []SlotCap
<1>1. SlotInv => SlotCap
  <2> SUFFICES ASSUME SlotInv PROVE SlotCap
    OBVIOUS
  <2>1. {r \in Runs : status[r] = "running"} \in SUBSET Taken(slot)
    BY DEF SlotInv, StatusInv, Taken
  <2>2. /\ IsFiniteSet(Taken(slot))
        /\ Cardinality(Taken(slot)) \in Nat
    BY TakenFinite
  <2>3. Cardinality({r \in Runs : status[r] = "running"}) <= Cardinality(Taken(slot))
    BY <2>1, <2>2, FS_Subset
  <2>4. Cardinality({r \in Runs : status[r] = "running"}) \in Nat
    BY <2>1, <2>2, FS_Subset, FS_CardinalityType
  <2>5. permits \in Nat /\ permits + Cardinality(Taken(slot)) = Limit
    BY TakenIsGrantedOrHolding DEF SlotInv, SlotTypeOK, PermitsConserved
  <2> QED BY <2>2, <2>3, <2>4, <2>5, LimitAssumption DEF SlotCap
<1> QED BY <1>1, SlotInvariant, PTL

(* A final status is never overwritten: the only writers of status are     *)
(* create_run, acquire_slot and finalize, and none of them reaches a       *)
(* finished handle.                                                        *)
THEOREM FinalStatusIsFinal == SlotSpec => FinalStatusStays
<1>1. ASSUME SlotInv, [SlotNext]_slotVars
      PROVE  [\A r \in Runs : Finished(r) => status'[r] = status[r]]_slotVars
  <2> SUFFICES ASSUME NEW q \in Runs, Finished(q), SlotNext
               PROVE  status'[q] = status[q]
    BY <1>1
  <2>1. /\ slot[q] \in {"reaping", "done"}
        /\ status[q] \in FinalStatuses
        /\ status \in [Runs -> Statuses]
    BY <1>1 DEF SlotInv, StatusInv, SlotTypeOK, Finished, FinalStatuses, Slots
  <2>2. ASSUME NEW r \in Runs, CreateRun(r) PROVE status'[q] = status[q]
    BY <2>1, <2>2 DEF CreateRun, FinalStatuses
  <2>3. ASSUME NEW r \in Runs, AcquireFree(r) \/ Resume(r) PROVE status'[q] = status[q]
    BY <2>1, <2>3 DEF AcquireFree, Resume
  <2>4. ASSUME NEW r \in Runs, NEW s \in FinalStatuses, Leave(r, s) \/ Abandon(r)
        PROVE  status'[q] = status[q]
    BY <2>1, <2>4 DEF Leave, Abandon, Finalize
  <2>5. ASSUME NEW r \in Runs, Park(r) \/ Reap(r) \/ DeliverCancel(r) \/ CancelTask(r)
        PROVE  status'[q] = status[q]
    BY <2>5 DEF Park, Reap, DeliverCancel, CancelTask
  <2>6. "stopped" \in FinalStatuses
    BY DEF FinalStatuses
  <2> QED BY <2>2, <2>3, <2>4, <2>5, <2>6 DEF SlotNext, TaskStep
<1> QED BY <1>1, SlotInvariant, PTL DEF SlotSpec, FinalStatusStays

(* create_run's garbage collection never drops a queued or running handle. *)
THEOREM ActiveRunsStayRegistered == SlotSpec => OnlyFinishedCollected
<1>1. ASSUME SlotInv, [SlotNext]_slotVars
      PROVE  [\A r \in registry \ registry' : Finished(r)]_slotVars
  <2>1. ASSUME NEW r \in Runs, CreateRun(r)
        PROVE  \A h \in registry \ registry' : Finished(h)
    BY <2>1 DEF CreateRun
  <2>2. ASSUME NEW r \in Runs, TaskStep(r) \/ DeliverCancel(r) \/ CancelTask(r)
        PROVE  registry' = registry
    BY <2>2 DEF TaskStep, AcquireFree, Park, Resume, Abandon, Leave, Reap,
       DeliverCancel, CancelTask
  <2> QED BY <1>1, <2>1, <2>2 DEF SlotNext
<1> QED BY <1>1, SlotInvariant, PTL DEF SlotSpec, OnlyFinishedCollected

(* A permit goes to the run that waits longest: nobody who was parked      *)
(* before and still waits is overtaken, neither by a newcomer nor by the   *)
(* passing on of a permit that a stopped run gives back.                   *)
THEOREM SlotsGoInOrder == SlotSpec => FifoHandover
<1> DEFINE InOrder == \A w, x \in Runs :
             (/\ slot[w] \in {"spawned", "waiting"}
              /\ slot'[w] \in {"granted", "holding"}
              /\ x \in Pending /\ x # w)
             => \E i, j \in DOMAIN waiters : waiters[i] = w /\ waiters[j] = x /\ i < j
<1>1. ASSUME SlotInv, [SlotNext]_slotVars PROVE [InOrder]_slotVars
  <2> SUFFICES ASSUME SlotNext, NEW w \in Runs, NEW x \in Runs,
                      slot[w] \in {"spawned", "waiting"},
                      slot'[w] \in {"granted", "holding"}, x \in Pending, x # w
               PROVE  \E i, j \in DOMAIN waiters : waiters[i] = w /\ waiters[j] = x /\ i < j
    BY <1>1
  <2>1. slot \in [Runs -> Slots] /\ waiters \in Seq(Runs)
    BY <1>1 DEF SlotInv, SlotTypeOK
  <2>2. \E j \in DOMAIN waiters : waiters[j] = x
    BY <1>1 DEF SlotInv, QueueInv, Pending
  <2>3. ASSUME IsNextWaiter(w)
        PROVE  \E i, j \in DOMAIN waiters : waiters[i] = w /\ waiters[j] = x /\ i < j
    <3>1. PICK i \in DOMAIN waiters :
            waiters[i] = w /\ \A j \in DOMAIN waiters : waiters[j] \in Pending => i <= j
      BY <2>3 DEF IsNextWaiter
    <3>2. PICK j \in DOMAIN waiters : waiters[j] = x
      BY <2>2
    <3>3. i <= j /\ i # j /\ i \in Nat /\ j \in Nat
      BY <2>1, <3>1, <3>2
    <3> QED BY <3>1, <3>2, <3>3
  <2>4. ASSUME NEW r \in Runs, NEW p \in {"holding", "reaping"}, NEW free,
               slot[r] \notin {"spawned", "waiting"} \/ p = "reaping",
               WakeUpNext(free, [slot EXCEPT ![r] = p])
        PROVE  IsNextWaiter(w)
    <3>1. CASE slot' = [slot EXCEPT ![r] = p]
      BY <2>1, <2>4, <3>1
    <3>2. ASSUME NEW v \in Runs, IsNextWaiter(v),
                 slot' = [[slot EXCEPT ![r] = p] EXCEPT ![v] = "granted"]
          PROVE  IsNextWaiter(w)
      <4>1. v = w
        BY <2>1, <2>4, <3>2
      <4> QED BY <3>2, <4>1
    <3> QED BY <2>4, <3>1, <3>2 DEF WakeUpNext
  <2>5. PICK r \in Runs : CreateRun(r) \/ TaskStep(r) \/ DeliverCancel(r) \/ CancelTask(r)
    BY DEF SlotNext
  <2>6. ~CreateRun(r) /\ ~DeliverCancel(r) /\ ~CancelTask(r) /\ ~Park(r) /\ ~Reap(r)
    BY <2>1 DEF CreateRun, DeliverCancel, CancelTask, Park, Reap
  <2>7. ~AcquireFree(r)
    BY <2>1, <2>2 DEF AcquireFree, Locked
  <2>8. CASE Resume(r)
    <3>1. slot[r] = "granted"
      BY <2>8 DEF Resume
    <3>2. slot' # [slot EXCEPT ![r] = "holding"]
      BY <2>1, <3>1
    <3>3. WakeUpNext(permits, [slot EXCEPT ![r] = "holding"])
      BY <2>8, <3>2 DEF Resume
    <3> QED BY <2>3, <2>4, <3>1, <3>3
  <2>9. CASE Abandon(r)
    <3>1. slot' # [slot EXCEPT ![r] = "reaping"]
      BY <2>1
    <3>2. WakeUpNext(permits + 1, [slot EXCEPT ![r] = "reaping"])
      BY <2>9, <3>1 DEF Abandon
    <3> QED BY <2>3, <2>4, <3>2
  <2>10. ASSUME NEW s \in FinalStatuses, Leave(r, s)
         PROVE  \E i, j \in DOMAIN waiters : waiters[i] = w /\ waiters[j] = x /\ i < j
    BY <2>3, <2>4, <2>10 DEF Leave
  <2> QED BY <2>5, <2>6, <2>7, <2>8, <2>9, <2>10 DEF TaskStep
<1> QED BY <1>1, SlotInvariant, PTL DEF SlotSpec, FifoHandover

-----------------------------------------------------------------------------
(* The commands implement the slots. *)
LEMMA UnwindIsSlotStep ==
  ASSUME NEW r \in Runs, Unwind(r)
  PROVE  SlotNext
<1>1. "stopped" \in FinalStatuses  BY DEF FinalStatuses
<1> QED  BY <1>1 DEF Unwind, SlotNext, TaskStep

LEMMA LeaveIsSlotStep ==
  ASSUME NEW r \in Runs, NEW s \in FinalStatuses, Leave(r, s)
  PROVE  SlotNext
BY DEF SlotNext, TaskStep

LEMMA ReturnIsSlotStep ==
  ASSUME NEW r \in Runs, NEW msgs, ReturnFromFile(r, msgs)
  PROVE  SlotNext \/ UNCHANGED slotVars
<1>1. "completed" \in FinalStatuses  BY DEF FinalStatuses
<1>2. CASE kind[r] = "single"
  <2>1. Leave(r, "completed")  BY <1>2 DEF ReturnFromFile
  <2> QED  BY <1>1, <2>1, LeaveIsSlotStep
<1>3. CASE kind[r] # "single"
  BY <1>3 DEF ReturnFromFile
<1> QED  BY <1>2, <1>3

LEMMA EndFileIsSlotStep ==
  ASSUME NEW r \in Runs, EndFile(r)
  PROVE  SlotNext \/ UNCHANGED slotVars
<1>1. CASE cancel[r] = "delivered"
  BY <1>1, UnwindIsSlotStep DEF EndFile
<1>2. CASE cancel[r] # "delivered"
  <2>1. ReturnFromFile(r, <<>>)  BY <1>2 DEF EndFile
  <2> QED  BY <2>1, ReturnIsSlotStep
<1> QED  BY <1>1, <1>2

LEMMA RunStepIsSlotStep ==
  ASSUME NEW r \in Runs, RunStep(r)
  PROVE  SlotNext \/ UNCHANGED slotVars
<1> "completed" \in FinalStatuses /\ "error" \in FinalStatuses
  BY DEF FinalStatuses
<1>1. CASE StartTask(r)          BY <1>1 DEF StartTask, SlotNext, TaskStep
<1>2. CASE ResumeTask(r)         BY <1>2 DEF ResumeTask, SlotNext, TaskStep
<1>3. CASE StopQueued(r)         BY <1>3 DEF StopQueued, SlotNext, TaskStep
<1>4. CASE CommandRaised(r)      BY <1>4, LeaveIsSlotStep DEF CommandRaised
<1>5. CASE BatchFailed(r)        BY <1>5, LeaveIsSlotStep DEF BatchFailed
<1>6. CASE OpenFile(r)           BY <1>6 DEF OpenFile
<1>7. CASE UnusableFile(r)
  <2>1. \/ ReturnFromFile(r, FileStart(r) \o <<RunError(r)>>)
        \/ ReturnFromFile(r, FileStart(r) \o <<Msg("log")>>)
    BY <1>7 DEF UnusableFile
  <2> QED  BY <2>1, ReturnIsSlotStep
<1>8. CASE FinishBatch(r)        BY <1>8, LeaveIsSlotStep DEF FinishBatch
<1>9. CASE Connected(r)          BY <1>9 DEF Connected
<1>10. CASE ConnectFailed(r)
  <2>1. ReturnFromFile(r, <<RunError(r)>>)  BY <1>10 DEF ConnectFailed
  <2> QED  BY <2>1, ReturnIsSlotStep
<1>11. CASE ConnectCancelled(r)  BY <1>11, UnwindIsSlotStep DEF ConnectCancelled
<1>12. CASE Initialized(r)       BY <1>12 DEF Initialized
<1>13. CASE InitFailed(r)        BY <1>13 DEF InitFailed
<1>14. CASE InitCancelled(r)     BY <1>14 DEF InitCancelled, SlotNext
<1>15. CASE NextTest(r)          BY <1>15 DEF NextTest
<1>16. CASE LastTest(r)          BY <1>16 DEF LastTest
<1>17. CASE TestRaised(r)        BY <1>17 DEF TestRaised
<1>18. CASE TestCancelled(r)     BY <1>18 DEF TestCancelled, SlotNext
<1>19. CASE CleanedUp(r)
  <2>1. EndFile(r) \/ UNCHANGED slotVars  BY <1>19 DEF CleanedUp
  <2> QED  BY <2>1, EndFileIsSlotStep
<1>20. CASE Closed(r)            BY <1>20, EndFileIsSlotStep DEF Closed
<1>21. CASE FinallyCancelled(r)  BY <1>21, UnwindIsSlotStep DEF FinallyCancelled
<1>22. CASE EndTask(r)           BY <1>22 DEF EndTask, SlotNext, TaskStep
<1> QED
  BY <1>1, <1>2, <1>3, <1>4, <1>5, <1>6, <1>7, <1>8, <1>9, <1>10, <1>11, <1>12,
     <1>13, <1>14, <1>15, <1>16, <1>17, <1>18, <1>19, <1>20, <1>21, <1>22
  DEF RunStep

(* The command coroutines, with every failure and cancellation at every    *)
(* await, implement the slots of the registry: none of them acquires,      *)
(* releases or finalizes but as acquire_slot and _run do.                  *)
THEOREM CommandsImplementSlots == CommandSpec => ImplementsSlots
<1>1. CommandInit => SlotInit  BY DEF CommandInit
<1>2. [CommandNext]_runVars => [SlotNext]_slotVars
  <2> SUFFICES ASSUME [CommandNext]_runVars
               PROVE  SlotNext \/ UNCHANGED slotVars
    OBVIOUS
  <2>1. CASE CommandNext
    <3>1. PICK r \in Runs : \/ \E k \in {"single", "batch"} : Submit(r, k)
                            \/ RunStep(r)
                            \/ Stop(r)
      BY <2>1 DEF CommandNext
    <3>2. CASE \E k \in {"single", "batch"} : Submit(r, k)
      BY <3>2 DEF Submit, SlotNext
    <3>3. CASE RunStep(r)  BY <3>3, RunStepIsSlotStep
    <3>4. CASE Stop(r)     BY <3>4 DEF Stop, SlotNext
    <3> QED  BY <3>1, <3>2, <3>3, <3>4
  <2>2. CASE UNCHANGED runVars
    BY <2>2 DEF runVars, slotVars
  <2> QED  BY <2>1, <2>2
<1> QED  BY <1>1, <1>2, PTL DEF CommandSpec, ImplementsSlots, SlotSpec

(* However the commands of concurrent runs fail, finish or are stopped, no *)
(* more than Limit of them execute at a time.                              *)
THEOREM CommandsRespectCap == CommandSpec => []SlotCap
BY CommandsImplementSlots, AtMostLimitRunning, PTL DEF ImplementsSlots

(* ... and no permit of the semaphore leaks or idles in front of a queued  *)
(* run.                                                                    *)
THEOREM CommandsKeepPermits == CommandSpec => [](PermitsConserved /\ NoLostWakeup)
BY CommandsImplementSlots, PermitsAreSafe, NoWakeupIsLost, PTL DEF ImplementsSlots

-----------------------------------------------------------------------------
(* What is proved below of a run's messages is said first of a sequence of *)
(* messages, so that it can be followed one message at a time.             *)
Ends(m) == m.type \in {"error", "all_complete"}

(* How many messages of type t are among the first i, and among all.       *)
Sent(s, t, i) == Cardinality({j \in 1..i : s[j].type = t})
Total(s, t)   == Sent(s, t, Len(s))

Carried(s) ==
  \A i \in DOMAIN s : s[i].type = "all_complete" => s[i].n = Sent(s, "test_complete", i)

Nested(s) ==
  \A i \in DOMAIN s :
    /\ Sent(s, "file_complete", i) <= Sent(s, "file_start", i)
    /\ Sent(s, "file_start", i) <= Sent(s, "file_complete", i) + 1
    /\ s[i].type = "all_complete" /\ s[i].status = "completed"
       => /\ Sent(s, "file_start", i) = NumFiles
          /\ Sent(s, "file_complete", i) = NumFiles

Open(s)   == \A i \in DOMAIN s : ~Ends(s[i])
Ended(s)  == \E i \in DOMAIN s : Ends(s[i])
AcksAfterEnd(s) ==
  \A i, j \in DOMAIN s : Ends(s[i]) /\ i < j => s[j].type \in {"stopping", "log"}

NeverStopped(s) == \A i \in DOMAIN s : s[i].status # "stopped"
StoppedOnce(s)  == \E i \in DOMAIN s : \A j \in DOMAIN s : s[j].status = "stopped" <=> j = i

(* The run's own control state: it is somewhere in its command exactly     *)
(* while it holds its slot, and at the top of a file nobody cancelled it.  *)
ControlInv(r) ==
  /\ pc[r] # "idle" <=> slot[r] = "holding"
  /\ slot[r] \in {"none", "spawned"} \/ pc[r] = "enter" => cancel[r] = "no"
  /\ pc[r] \notin {"idle", "enter"} => file[r] \in Files
  /\ pc[r] \in {"connect", "init"} => test[r] = 1
  /\ adhoc[r] = "open" => \/ pc[r] \in {"init", "test", "cleanup", "close"}
                          \/ pc[r] = "idle" /\ status[r] = "stopped"

(* The row of a file is open exactly while its tests run, and then it has  *)
(* the results of the tests before the current one.                        *)
RowInv(r) ==
  /\ \A f \in Files :
       /\ record[r][f].row = "running" /\ ~record[r][f].broken
          => pc[r] = "test" /\ file[r] = f
       /\ record[r][f].row = "completed" => record[r][f].saved = NumTests
  /\ pc[r] = "test" =>
       /\ CurrentRecord(r).broken \/ Writable(CurrentRecord(r))
       /\ CurrentRecord(r).row # "completed"
       /\ Writable(CurrentRecord(r)) => CurrentRecord(r).saved = test[r] - 1

(* The slices that a batch takes of handle.results leave no gap. *)
SliceInv(r) ==
  /\ aggregated[r] = preResults[r]
  /\ preResults[r] <= results[r]
  /\ pc[r] = "enter" \/ status[r] \in {"none", "queued"} => preResults[r] = results[r]

(* The messages published so far, against the run's state. *)
StreamInv(r) ==
  /\ results[r] = Total(emitted[r], "test_complete")
  /\ Carried(emitted[r])
  /\ status[r] = "none" => emitted[r] = <<>>
  /\ kind[r] = "batch" => /\ AcksAfterEnd(emitted[r])
                          /\ Finished(r) \/ Open(emitted[r])
  /\ IF status[r] = "stopped" THEN StoppedOnce(emitted[r]) ELSE NeverStopped(emitted[r])
  /\ status[r] = "completed" => Ended(emitted[r])
  /\ kind[r] = "single" /\ pc[r] \in {"cleanup", "close"}
     => cancel[r] # "no" \/ Ended(emitted[r])

(* The files of a batch that is not over, in its messages. *)
FilesInv(r) ==
  /\ status[r] \in {"none", "queued"} => file[r] = 1
  /\ kind[r] = "batch" =>
       /\ Nested(emitted[r])
       /\ Finished(r) \/
            /\ Total(emitted[r], "file_complete") = file[r] - 1
            /\ Total(emitted[r], "file_start") =
                 IF pc[r] \in {"idle", "enter"} THEN file[r] - 1 ELSE file[r]

RunInv(r) == ControlInv(r) /\ RowInv(r) /\ SliceInv(r) /\ StreamInv(r) /\ FilesInv(r)

CommandInv ==
  /\ SlotInv
  /\ CommandTypeOK
  /\ \A r \in Runs : RunInv(r)

-----------------------------------------------------------------------------
(* Messages and how a sequence of them grows. *)
Plain(a) == a \in Messages /\ ~Ends(a) /\ a.status = ""

One(b) == IF b THEN 1 ELSE 0

(* u is s with plain messages after it: k results, b files started and c   *)
(* files completed.                                                        *)
Grown(s, u, k, b, c) ==
  /\ u \in Seq(Messages)
  /\ Total(u, "test_complete") = Total(s, "test_complete") + k
  /\ Total(u, "file_start")    = Total(s, "file_start") + b
  /\ Total(u, "file_complete") = Total(s, "file_complete") + c
  /\ Carried(s) => Carried(u)
  /\ Open(s) => Open(u)
  /\ Ended(s) => Ended(u)
  /\ NeverStopped(s) => NeverStopped(u)
  /\ StoppedOnce(s) => StoppedOnce(u)
  /\ b = 0 /\ c = 0 /\ Nested(s) => Nested(u)

LEMMA SentIsNat ==
  ASSUME NEW s, NEW t, NEW i \in Nat
  PROVE  Sent(s, t, i) \in Nat
<1>1. IsFiniteSet(1..i)  BY FS_Interval
<1>2. {j \in 1..i : s[j].type = t} \subseteq 1..i  OBVIOUS
<1>3. IsFiniteSet({j \in 1..i : s[j].type = t})  BY <1>1, <1>2, FS_Subset
<1> QED  BY <1>3, FS_CardinalityType DEF Sent

LEMMA NothingSent ==
  /\ \A t : Total(<<>>, t) = 0
  /\ Carried(<<>>) /\ Open(<<>>) /\ NeverStopped(<<>>) /\ Nested(<<>>)
  /\ AcksAfterEnd(<<>>)
<1>1. ASSUME NEW t PROVE Total(<<>>, t) = 0
  <2>1. {j \in 1..Len(<<>>) : <<>>[j].type = t} = {}  OBVIOUS
  <2> QED  BY <2>1, FS_EmptySet DEF Total, Sent
<1>2. DOMAIN <<>> = {}  OBVIOUS
<1> QED  BY <1>1, <1>2 DEF Carried, Open, NeverStopped, Nested, AcksAfterEnd

(* One more message counts itself and changes nothing before it. *)
LEMMA SentAppend ==
  ASSUME NEW s \in Seq(Messages), NEW a \in Messages
  PROVE  LET u == Append(s, a) IN
         /\ u \in Seq(Messages) /\ Len(u) = Len(s) + 1
         /\ DOMAIN s = 1..Len(s) /\ DOMAIN u = 1..(Len(s) + 1) /\ Len(s) \in Nat
         /\ \A i \in 1..Len(s) : u[i] = s[i]
         /\ u[Len(s) + 1] = a
         /\ \A t : \A i \in 1..Len(s) : Sent(u, t, i) = Sent(s, t, i)
         /\ \A t : Total(u, t) = Total(s, t) + One(a.type = t)
         /\ \A t : Total(s, t) \in Nat
<1> DEFINE u == Append(s, a)
<1>1. /\ u \in Seq(Messages) /\ Len(u) = Len(s) + 1
      /\ DOMAIN s = 1..Len(s) /\ DOMAIN u = 1..(Len(s) + 1) /\ Len(s) \in Nat
      /\ \A i \in 1..Len(s) : u[i] = s[i]
      /\ u[Len(s) + 1] = a
  OBVIOUS
<1> HIDE DEF u
<1>2. ASSUME NEW t, NEW i \in 1..Len(s) PROVE Sent(u, t, i) = Sent(s, t, i)
  <2>1. \A j \in 1..i : u[j] = s[j]  BY <1>1
  <2>2. {j \in 1..i : u[j].type = t} = {j \in 1..i : s[j].type = t}  BY <2>1
  <2> QED  BY <2>2 DEF Sent
<1>3. ASSUME NEW t PROVE Total(u, t) = Total(s, t) + One(a.type = t) /\ Total(s, t) \in Nat
  <2> DEFINE S == {j \in 1..Len(s) : s[j].type = t}
             U == {j \in 1..(Len(s) + 1) : u[j].type = t}
  <2>1. IsFiniteSet(S)
    <3>1. IsFiniteSet(1..Len(s))  BY <1>1, FS_Interval
    <3>2. S \subseteq 1..Len(s)  OBVIOUS
    <3> QED  BY <3>1, <3>2, FS_Subset
  <2>2. Cardinality(S) \in Nat  BY <2>1, FS_CardinalityType
  <2>3. CASE a.type = t
    <3>1. U = S \union {Len(s) + 1} /\ Len(s) + 1 \notin S  BY <1>1, <2>3
    <3>2. Cardinality(U) = Cardinality(S) + 1  BY <2>1, <3>1, FS_AddElement
    <3>3. Total(u, t) = Cardinality(U) /\ Total(s, t) = Cardinality(S)
      BY <1>1 DEF Total, Sent
    <3> QED  BY <3>2, <3>3, <2>2, <2>3 DEF One
  <2>4. CASE a.type # t
    <3>1. U = S  BY <1>1, <2>4
    <3>2. Total(u, t) = Cardinality(U) /\ Total(s, t) = Cardinality(S)
      BY <1>1 DEF Total, Sent
    <3>3. Total(u, t) = Total(s, t) /\ Total(s, t) \in Nat
      BY <3>1, <3>2, <2>2, Zenon
    <3>4. One(a.type = t) = 0  BY <2>4 DEF One
    <3> QED  BY <3>3, <3>4
  <2> QED  BY <2>3, <2>4
<1> QED  BY <1>1, <1>2, <1>3 DEF u

LEMMA NestedTotals ==
  ASSUME NEW s \in Seq(Messages), Nested(s)
  PROVE  /\ Total(s, "file_complete") <= Total(s, "file_start")
         /\ Total(s, "file_start") <= Total(s, "file_complete") + 1
<1>1. CASE s = <<>>
  BY <1>1, NothingSent
<1>2. CASE s # <<>>
  <2>1. Len(s) \in DOMAIN s  BY <1>2
  <2> QED  BY <2>1 DEF Nested, Total
<1> QED  BY <1>1, <1>2

(* The file messages of one more message. *)
LEMMA NestedAppend ==
  ASSUME NEW s \in Seq(Messages), NEW a \in Messages, Nested(s),
         LET u == Append(s, a) IN
         /\ Total(u, "file_complete") <= Total(u, "file_start")
         /\ Total(u, "file_start") <= Total(u, "file_complete") + 1
         /\ a.type = "all_complete" /\ a.status = "completed"
            => Total(u, "file_start") = NumFiles /\ Total(u, "file_complete") = NumFiles
  PROVE  Nested(Append(s, a))
<1> DEFINE u == Append(s, a)
<1>1. /\ Len(u) = Len(s) + 1 /\ DOMAIN s = 1..Len(s) /\ DOMAIN u = 1..(Len(s) + 1)
      /\ \A i \in 1..Len(s) : u[i] = s[i]
      /\ u[Len(s) + 1] = a
      /\ \A t : \A i \in 1..Len(s) : Sent(u, t, i) = Sent(s, t, i)
      /\ Len(s) \in Nat
  BY SentAppend
<1>2. /\ Total(u, "file_complete") <= Total(u, "file_start")
      /\ Total(u, "file_start") <= Total(u, "file_complete") + 1
      /\ a.type = "all_complete" /\ a.status = "completed"
         => Total(u, "file_start") = NumFiles /\ Total(u, "file_complete") = NumFiles
  OBVIOUS
<1> HIDE DEF u
<1> SUFFICES ASSUME NEW i \in DOMAIN u
    PROVE  /\ Sent(u, "file_complete", i) <= Sent(u, "file_start", i)
           /\ Sent(u, "file_start", i) <= Sent(u, "file_complete", i) + 1
           /\ u[i].type = "all_complete" /\ u[i].status = "completed"
              => /\ Sent(u, "file_start", i) = NumFiles
                 /\ Sent(u, "file_complete", i) = NumFiles
  BY DEF Nested, u
<1>3. CASE i \in 1..Len(s)
  BY <1>3, <1>1 DEF Nested
<1>4. CASE i = Len(s) + 1
  BY <1>4, <1>1, <1>2 DEF Total
<1> QED  BY <1>1, <1>3, <1>4

LEMMA GrownOne ==
  ASSUME NEW s \in Seq(Messages), NEW a, Plain(a)
  PROVE  Grown(s, Append(s, a), One(a.type = "test_complete"),
               One(a.type = "file_start"), One(a.type = "file_complete"))
<1> DEFINE u == Append(s, a)
<1>0. a \in Messages  BY DEF Plain
<1>1. /\ u \in Seq(Messages) /\ Len(u) = Len(s) + 1
      /\ DOMAIN s = 1..Len(s) /\ DOMAIN u = 1..(Len(s) + 1) /\ Len(s) \in Nat
      /\ \A i \in 1..Len(s) : u[i] = s[i]
      /\ u[Len(s) + 1] = a
      /\ \A t : \A i \in 1..Len(s) : Sent(u, t, i) = Sent(s, t, i)
      /\ \A t : Total(u, t) = Total(s, t) + One(a.type = t)
      /\ \A t : Total(s, t) \in Nat
  BY <1>0, SentAppend
<1>2. ASSUME One(a.type = "file_start") = 0, One(a.type = "file_complete") = 0, Nested(s)
      PROVE  Nested(u)
  <2>1. /\ Total(u, "file_start") = Total(s, "file_start")
        /\ Total(u, "file_complete") = Total(s, "file_complete")
    BY <1>1, <1>2
  <2>2. a.status # "completed"  BY DEF Plain
  <2> QED  BY <1>0, <1>2, <2>1, <2>2, NestedTotals, NestedAppend
<1> HIDE DEF u
<1>3. a.type \notin {"error", "all_complete"} /\ a.status # "stopped"
  BY DEF Plain, Ends
<1>4. Carried(s) => Carried(u)
  BY <1>1, <1>3 DEF Carried
<1>5. Open(s) => Open(u)
  BY <1>1, <1>3 DEF Open, Ends
<1>6. Ended(s) => Ended(u)
  BY <1>1 DEF Ended
<1>7. NeverStopped(s) => NeverStopped(u)
  BY <1>1, <1>3 DEF NeverStopped
<1>8. StoppedOnce(s) => StoppedOnce(u)
  <2> SUFFICES ASSUME StoppedOnce(s) PROVE StoppedOnce(u)
    OBVIOUS
  <2>1. PICK i \in DOMAIN s : \A j \in DOMAIN s : s[j].status = "stopped" <=> j = i
    BY DEF StoppedOnce
  <2>2. \A j \in DOMAIN u : u[j].status = "stopped" <=> j = i
    BY <2>1, <1>1, <1>3
  <2> QED  BY <2>1, <2>2, <1>1 DEF StoppedOnce
<1> QED  BY <1>1, <1>2, <1>4, <1>5, <1>6, <1>7, <1>8 DEF Grown, u

LEMMA GrownMore ==
  ASSUME NEW s \in Seq(Messages), NEW u, NEW a, Plain(a),
         NEW k \in Nat, NEW b \in Nat, NEW c \in Nat, Grown(s, u, k, b, c)
  PROVE  Grown(s, Append(u, a), k + One(a.type = "test_complete"),
               b + One(a.type = "file_start"), c + One(a.type = "file_complete"))
<1>1. u \in Seq(Messages)  BY DEF Grown
<1>2. Grown(u, Append(u, a), One(a.type = "test_complete"),
            One(a.type = "file_start"), One(a.type = "file_complete"))
  BY <1>1, GrownOne
<1>3. \A p : One(p) \in {0, 1}  BY DEF One
<1>4. \A t : Total(s, t) \in Nat  BY SentIsNat DEF Total
<1> QED  BY <1>2, <1>3, <1>4 DEF Grown

(* Only acknowledgements come after the end. *)
LEMMA AckAfterEnd ==
  ASSUME NEW s \in Seq(Messages), NEW a \in Messages, a.type \in {"stopping", "log"},
         AcksAfterEnd(s)
  PROVE  AcksAfterEnd(Append(s, a))
<1> DEFINE u == Append(s, a)
<1>1. /\ Len(u) = Len(s) + 1 /\ DOMAIN s = 1..Len(s) /\ DOMAIN u = 1..(Len(s) + 1)
      /\ \A i \in 1..Len(s) : u[i] = s[i]
      /\ u[Len(s) + 1] = a /\ Len(s) \in Nat
  BY SentAppend
<1> HIDE DEF u
<1> QED  BY <1>1 DEF AcksAfterEnd, Ends, u

LEMMA OpenHasNoAcks ==
  ASSUME NEW s, Open(s) PROVE AcksAfterEnd(s)
BY DEF Open, AcksAfterEnd

(* The message that ends the stream. *)
LEMMA EndAppend ==
  ASSUME NEW s \in Seq(Messages), NEW a \in Messages, Ends(a)
  PROVE  LET u == Append(s, a) IN
         /\ u \in Seq(Messages)
         /\ \A t \in {"test_complete", "file_start", "file_complete"} :
              Total(u, t) = Total(s, t)
         /\ Carried(s) /\ (a.type = "all_complete" => a.n = Total(s, "test_complete"))
            => Carried(u)
         /\ Open(s) => AcksAfterEnd(u)
         /\ Ended(u)
         /\ NeverStopped(s) /\ a.status # "stopped" => NeverStopped(u)
         /\ NeverStopped(s) /\ a.status = "stopped" => StoppedOnce(u)
         /\ /\ Nested(s)
            /\ a.type = "all_complete" /\ a.status = "completed"
               => Total(s, "file_start") = NumFiles /\ Total(s, "file_complete") = NumFiles
            => Nested(u)
<1> DEFINE u == Append(s, a)
<1>1. /\ u \in Seq(Messages) /\ Len(u) = Len(s) + 1
      /\ DOMAIN s = 1..Len(s) /\ DOMAIN u = 1..(Len(s) + 1) /\ Len(s) \in Nat
      /\ \A i \in 1..Len(s) : u[i] = s[i]
      /\ u[Len(s) + 1] = a
      /\ \A t : \A i \in 1..Len(s) : Sent(u, t, i) = Sent(s, t, i)
      /\ \A t : Total(u, t) = Total(s, t) + One(a.type = t)
      /\ \A t : Total(s, t) \in Nat
  BY SentAppend
<1>2. a.type \in {"error", "all_complete"}  BY DEF Ends
<1>3. /\ Total(u, "test_complete") = Total(s, "test_complete")
      /\ Total(u, "file_start") = Total(s, "file_start")
      /\ Total(u, "file_complete") = Total(s, "file_complete")
  BY <1>1, <1>2 DEF One
<1>4. ASSUME Nested(s),
             a.type = "all_complete" /\ a.status = "completed"
               => Total(s, "file_start") = NumFiles /\ Total(s, "file_complete") = NumFiles
      PROVE  Nested(u)
  BY <1>3, <1>4, NestedTotals, NestedAppend
<1> HIDE DEF u
<1>5. ASSUME Carried(s), a.type = "all_complete" => a.n = Total(s, "test_complete")
      PROVE  Carried(u)
  <2> SUFFICES ASSUME NEW i \in DOMAIN u, u[i].type = "all_complete"
               PROVE  u[i].n = Sent(u, "test_complete", i)
    BY DEF Carried
  <2>1. CASE i \in 1..Len(s)  BY <2>1, <1>1, <1>5 DEF Carried
  <2>2. CASE i = Len(s) + 1
    BY <2>2, <1>1, <1>3, <1>5 DEF Total
  <2> QED  BY <2>1, <2>2, <1>1
<1>6. Open(s) => AcksAfterEnd(u)
  <2> SUFFICES ASSUME Open(s), NEW i \in DOMAIN u, NEW j \in DOMAIN u, Ends(u[i]), i < j
               PROVE  FALSE
    BY DEF AcksAfterEnd
  <2>1. i \in 1..Len(s)  BY <1>1
  <2> QED  BY <2>1, <1>1 DEF Open
<1>7. Ended(u)  BY <1>1 DEF Ended
<1>8. NeverStopped(s) /\ a.status # "stopped" => NeverStopped(u)
  BY <1>1 DEF NeverStopped
<1>9. ASSUME NeverStopped(s), a.status = "stopped" PROVE StoppedOnce(u)
  <2>1. Len(s) + 1 \in DOMAIN u  BY <1>1
  <2>2. \A j \in DOMAIN u : u[j].status = "stopped" <=> j = Len(s) + 1
    BY <1>1, <1>9 DEF NeverStopped
  <2> QED  BY <2>1, <2>2 DEF StoppedOnce
<1> QED  BY <1>1, <1>3, <1>4, <1>5, <1>6, <1>7, <1>8, <1>9 DEF u

LEMMA ShortConcat ==
  ASSUME NEW s \in Seq(Messages), NEW a \in Messages, NEW b \in Messages, NEW c \in Messages
  PROVE  /\ s \o <<>> = s
         /\ s \o <<a>> = Append(s, a)
         /\ s \o <<a, b>> = Append(Append(s, a), b)
         /\ s \o <<a, b, c>> = Append(Append(Append(s, a), b), c)
<1>1. s \o <<>> = s  BY ConcatEmptySeq
<1>2. s \o <<a>> = Append(s, a)  BY AppendIsConcat
<1>3. s \o <<a, b>> = Append(Append(s, a), b)  OBVIOUS
<1>4. s \o <<a, b, c>> = Append(Append(Append(s, a), b), c)  OBVIOUS
<1> QED  BY <1>1, <1>2, <1>3, <1>4

(* Msg and its kin are messages. *)
LEMMA MessageFields ==
  /\ \A t \in EventTypes : /\ Msg(t) \in Messages
                           /\ Msg(t).type = t /\ Msg(t).status = "" /\ Msg(t).n = 0
                           /\ t \notin {"error", "all_complete"} => Plain(Msg(t))
  /\ \A n \in Nat : /\ Plain(FileComplete(n)) /\ FileComplete(n).type = "file_complete"
                    /\ FileComplete(n) \in Messages
  /\ \A st \in {"completed", "stopped"}, n \in Nat :
       /\ AllComplete(st, n) \in Messages /\ Ends(AllComplete(st, n))
       /\ AllComplete(st, n).type = "all_complete"
       /\ AllComplete(st, n).status = st /\ AllComplete(st, n).n = n
  /\ Ends(Msg("error"))
BY DEF Msg, FileComplete, AllComplete, Messages, EventTypes, Plain, Ends

-----------------------------------------------------------------------------
(* What one run does leaves the others alone, but that a run that waits    *)
(* for a slot may be granted one.                                          *)
Elsewhere(r) ==
  \A q \in Runs \ {r} :
    /\ \/ slot'[q] = slot[q]
       \/ slot[q] = "waiting" /\ slot'[q] = "granted"
    /\ status'[q] = status[q] /\ cancel'[q] = cancel[q]

ElsewhereInCommands(r) ==
  \A q \in Runs \ {r} :
    /\ kind'[q] = kind[q] /\ pc'[q] = pc[q] /\ file'[q] = file[q] /\ test'[q] = test[q]
    /\ record'[q] = record[q] /\ adhoc'[q] = adhoc[q] /\ results'[q] = results[q]
    /\ preResults'[q] = preResults[q] /\ aggregated'[q] = aggregated[q]
    /\ emitted'[q] = emitted[q]

LEMMA OthersKeepInv ==
  ASSUME NEW r \in Runs, NEW q \in Runs \ {r}, RunInv(q),
         Elsewhere(r), ElsewhereInCommands(r)
  PROVE  RunInv(q)'
<1> /\ \/ slot'[q] = slot[q]
       \/ slot[q] = "waiting" /\ slot'[q] = "granted"
    /\ status'[q] = status[q] /\ cancel'[q] = cancel[q]
    /\ kind'[q] = kind[q] /\ pc'[q] = pc[q] /\ file'[q] = file[q] /\ test'[q] = test[q]
    /\ record'[q] = record[q] /\ adhoc'[q] = adhoc[q] /\ results'[q] = results[q]
    /\ preResults'[q] = preResults[q] /\ aggregated'[q] = aggregated[q]
    /\ emitted'[q] = emitted[q]
  BY DEF Elsewhere, ElsewhereInCommands
<1>1. ControlInv(q)'  BY DEF RunInv, ControlInv
<1>2. RowInv(q)'      BY DEF RunInv, RowInv, CurrentRecord
<1>3. SliceInv(q)'    BY DEF RunInv, SliceInv
<1>4. StreamInv(q)'   BY DEF RunInv, StreamInv, Finished
<1>5. FilesInv(q)'    BY DEF RunInv, FilesInv, Finished
<1> QED  BY <1>1, <1>2, <1>3, <1>4, <1>5 DEF RunInv

LEMMA WakeUpMoves ==
  ASSUME SlotTypeOK, NEW r \in Runs, NEW p \in Slots, NEW free,
         r \notin Pending, WakeUpNext(free, [slot EXCEPT ![r] = p])
  PROVE  /\ slot'[r] = p
         /\ \A q \in Runs \ {r} : \/ slot'[q] = slot[q]
                                  \/ slot[q] = "waiting" /\ slot'[q] = "granted"
<1>1. slot \in [Runs -> Slots]  BY DEF SlotTypeOK
<1>2. CASE Pending = {} /\ slot' = [slot EXCEPT ![r] = p]
  BY <1>1, <1>2
<1>3. ASSUME NEW w \in Runs, IsNextWaiter(w),
             slot' = [[slot EXCEPT ![r] = p] EXCEPT ![w] = "granted"]
      PROVE  /\ slot'[r] = p
             /\ \A q \in Runs \ {r} : \/ slot'[q] = slot[q]
                                      \/ slot[q] = "waiting" /\ slot'[q] = "granted"
  <2>1. w \in Pending /\ slot[w] = "waiting" /\ w # r
    BY <1>3 DEF IsNextWaiter, Pending
  <2> QED  BY <1>1, <1>3, <2>1
<1> QED  BY <1>2, <1>3 DEF WakeUpNext

LEMMA LeaveMoves ==
  ASSUME SlotInv, NEW r \in Runs, NEW s \in FinalStatuses, Leave(r, s)
  PROVE  /\ Elsewhere(r)
         /\ slot[r] = "holding" /\ slot'[r] = "reaping"
         /\ status[r] = "running" /\ status'[r] = s
         /\ cancel'[r] = IF s = "stopped" THEN "delivered" ELSE cancel[r]
         /\ s = "stopped" <=> cancel[r] \in {"pending", "delivered"}
<1>1. SlotTypeOK /\ StatusInv  BY DEF SlotInv
<1>2. slot[r] = "holding" /\ status[r] = "running" /\ r \in registry
  BY <1>1 DEF Leave, StatusInv
<1>3. r \notin Pending /\ "reaping" \in Slots  BY <1>2 DEF Pending, Slots
<1>4. /\ slot'[r] = "reaping"
      /\ \A q \in Runs \ {r} : \/ slot'[q] = slot[q]
                               \/ slot[q] = "waiting" /\ slot'[q] = "granted"
  BY <1>1, <1>3, WakeUpMoves DEF Leave
<1>5. status' = [status EXCEPT ![r] = s]
  BY <1>2 DEF Leave, Finalize, Finished, FinalStatuses
<1> QED  BY <1>1, <1>2, <1>4, <1>5 DEF Elsewhere, Leave, SlotTypeOK

LEMMA ResumeMoves ==
  ASSUME SlotInv, NEW r \in Runs, Resume(r)
  PROVE  /\ Elsewhere(r)
         /\ slot'[r] = "holding" /\ status[r] = "queued" /\ status'[r] = "running"
         /\ cancel'[r] = "no"
<1>1. SlotTypeOK /\ StatusInv  BY DEF SlotInv
<1>2. slot[r] = "granted" /\ status[r] = "queued"  BY <1>1 DEF Resume, StatusInv
<1>3. r \notin Pending /\ "holding" \in Slots  BY <1>2 DEF Pending, Slots
<1>4. /\ slot'[r] = "holding"
      /\ \A q \in Runs \ {r} : \/ slot'[q] = slot[q]
                               \/ slot[q] = "waiting" /\ slot'[q] = "granted"
  <2>1. CASE permits > 0   BY <2>1, <1>1, <1>3, WakeUpMoves DEF Resume
  <2>2. CASE ~(permits > 0)  BY <2>2, <1>1 DEF Resume, SlotTypeOK
  <2> QED  BY <2>1, <2>2
<1> QED  BY <1>1, <1>2, <1>4 DEF Elsewhere, Resume, SlotTypeOK

LEMMA AbandonMoves ==
  ASSUME SlotInv, NEW r \in Runs, Abandon(r)
  PROVE  /\ Elsewhere(r)
         /\ slot'[r] = "reaping" /\ status[r] = "queued" /\ status'[r] = "stopped"
         /\ cancel'[r] = "delivered"
         /\ slot[r] \in {"waiting", "granted"}
<1>1. SlotTypeOK /\ StatusInv  BY DEF SlotInv
<1>2. slot[r] \in {"waiting", "granted"} /\ status[r] = "queued" /\ r \in registry
  BY <1>1 DEF Abandon, StatusInv
<1>3. r \notin Pending /\ "reaping" \in Slots  BY <1>2 DEF Pending, Slots, Abandon
<1>4. /\ slot'[r] = "reaping"
      /\ \A q \in Runs \ {r} : \/ slot'[q] = slot[q]
                               \/ slot[q] = "waiting" /\ slot'[q] = "granted"
  <2>1. CASE slot[r] = "granted"   BY <2>1, <1>1, <1>3, WakeUpMoves DEF Abandon
  <2>2. CASE slot[r] # "granted"  BY <2>2, <1>1 DEF Abandon, SlotTypeOK
  <2> QED  BY <2>1, <2>2
<1>5. status' = [status EXCEPT ![r] = "stopped"]
  BY <1>2 DEF Abandon, Finalize, Finished, FinalStatuses
<1> QED  BY <1>1, <1>2, <1>4, <1>5 DEF Elsewhere, Abandon, SlotTypeOK

(* The steps that do not touch the semaphore's queue of others. *)
LEMMA OwnSlotMoves ==
  ASSUME SlotTypeOK, NEW r \in Runs,
         \/ CreateRun(r) \/ AcquireFree(r) \/ Park(r) \/ DeliverCancel(r)
         \/ Reap(r) \/ CancelTask(r) \/ UNCHANGED slotVars
  PROVE  Elsewhere(r)
BY DEF SlotTypeOK, Elsewhere, CreateRun, AcquireFree, Park, DeliverCancel, Reap, CancelTask,
       slotVars

-----------------------------------------------------------------------------
(* The stream of a run that goes on. *)
LEMMA StreamGoesOn ==
  ASSUME CommandTypeOK, NEW r \in Runs, StreamInv(r), status[r] \in {"queued", "running"},
         status'[r] \in {"queued", "running"}, kind'[r] = kind[r],
         NEW k, NEW b, NEW c, Grown(emitted[r], emitted'[r], k, b, c),
         results'[r] = results[r] + k,
         kind[r] = "single" /\ pc'[r] \in {"cleanup", "close"}
           => cancel'[r] # "no" \/ Ended(emitted'[r])
  PROVE  StreamInv(r)'
<1>1. /\ status[r] \notin FinalStatuses /\ ~Finished(r)
      /\ status'[r] \notin FinalStatuses \union {"none"}
  BY DEF Finished, FinalStatuses
<1>2. NeverStopped(emitted[r])  BY <1>1 DEF StreamInv, FinalStatuses
<1>3. /\ results'[r] = Total(emitted'[r], "test_complete")
      /\ Carried(emitted'[r])
      /\ NeverStopped(emitted'[r])
  BY <1>2 DEF StreamInv, Grown
<1>4. kind[r] = "batch" => Open(emitted'[r]) /\ AcksAfterEnd(emitted'[r])
  BY <1>1, OpenHasNoAcks DEF StreamInv, Grown
<1> QED  BY <1>1, <1>3, <1>4 DEF StreamInv, FinalStatuses

(* The stream gets its last message, from a batch only at its very end. *)
LEMMA StreamEnds ==
  ASSUME CommandTypeOK, NEW r \in Runs, StreamInv(r), status[r] \in {"queued", "running"},
         status'[r] \in Statuses \ {"none"}, kind'[r] = kind[r],
         NEW u, NEW k, NEW b, NEW c, Grown(emitted[r], u, k, b, c),
         results'[r] = results[r] + k,
         NEW a \in Messages, Ends(a), emitted'[r] = Append(u, a),
         a.type = "all_complete" => a.n = results'[r],
         a.status = "stopped" <=> status'[r] = "stopped",
         kind[r] = "batch" => status'[r] \in FinalStatuses
  PROVE  StreamInv(r)'
<1>1. status[r] \notin FinalStatuses /\ ~Finished(r)  BY DEF Finished, FinalStatuses
<1>2. NeverStopped(emitted[r])  BY <1>1 DEF StreamInv, FinalStatuses
<1>3. /\ u \in Seq(Messages)
      /\ results'[r] = Total(u, "test_complete") /\ Carried(u) /\ NeverStopped(u)
      /\ kind[r] = "batch" => Open(u)
  BY <1>1, <1>2 DEF StreamInv, Grown
<1>4. /\ Total(emitted'[r], "test_complete") = Total(u, "test_complete")
      /\ Carried(emitted'[r]) /\ Ended(emitted'[r])
      /\ kind[r] = "batch" => AcksAfterEnd(emitted'[r])
      /\ IF status'[r] = "stopped" THEN StoppedOnce(emitted'[r]) ELSE NeverStopped(emitted'[r])
  BY <1>3, EndAppend
<1> QED  BY <1>3, <1>4 DEF StreamInv, Statuses, Finished

(* The run ends without another message. *)
LEMMA StreamIsLeft ==
  ASSUME CommandTypeOK, NEW r \in Runs, StreamInv(r), status[r] \in {"queued", "running"},
         status'[r] \in {"completed", "error"}, kind'[r] = kind[r], pc'[r] = "idle",
         emitted'[r] = emitted[r], results'[r] = results[r],
         status'[r] = "completed" => Ended(emitted[r])
  PROVE  StreamInv(r)'
<1>2. kind[r] = "batch" => AcksAfterEnd(emitted[r])  BY DEF StreamInv
<1> QED  BY <1>2 DEF StreamInv, Finished, FinalStatuses

(* The files of a run that goes on between two file messages, and of one   *)
(* that ends.                                                              *)
LEMMA FilesGoOn ==
  ASSUME NEW r \in Runs, FilesInv(r), status[r] \in {"queued", "running"},
         status'[r] = status[r], kind'[r] = kind[r], file'[r] = file[r],
         pc'[r] \in {"idle", "enter"} <=> pc[r] \in {"idle", "enter"},
         emitted[r] \in Seq(Messages),
         NEW k, Grown(emitted[r], emitted'[r], k, 0, 0)
  PROVE  FilesInv(r)'
<1>1. /\ Total(emitted[r], "file_start") \in Nat
      /\ Total(emitted[r], "file_complete") \in Nat
  BY SentIsNat DEF Total
<1>2. /\ Total(emitted'[r], "file_start") = Total(emitted[r], "file_start")
      /\ Total(emitted'[r], "file_complete") = Total(emitted[r], "file_complete")
      /\ Nested(emitted[r]) => Nested(emitted'[r])
  BY <1>1 DEF Grown
<1> QED  BY <1>2 DEF FilesInv, Finished, FinalStatuses

LEMMA FilesEnd ==
  ASSUME NEW r \in Runs, status'[r] \in FinalStatuses,
         kind'[r] = "batch" => Nested(emitted'[r])
  PROVE  FilesInv(r)'
BY DEF FilesInv, Finished, FinalStatuses

LEMMA GrownByNothing ==
  ASSUME NEW s \in Seq(Messages) PROVE Grown(s, s, 0, 0, 0)
<1>1. \A t : Total(s, t) \in Nat  BY SentIsNat DEF Total
<1> QED  BY <1>1 DEF Grown

LEMMA GrownByOne ==
  ASSUME NEW s \in Seq(Messages), NEW t \in EventTypes \ {"error", "all_complete"}
  PROVE  Grown(s, s \o <<Msg(t)>>, One(t = "test_complete"), One(t = "file_start"),
               One(t = "file_complete"))
<1>1. /\ Msg(t) \in Messages /\ Plain(Msg(t)) /\ Msg(t).type = t
  BY MessageFields
<1>2. s \o <<Msg(t)>> = Append(s, Msg(t))  BY <1>1, ShortConcat
<1> HIDE DEF Msg
<1> QED  BY <1>1, <1>2, GrownOne

LEMMA RunErrorIs ==
  ASSUME NEW r \in Runs
  PROVE  /\ kind[r] = "batch" => RunError(r) = Msg("file_error")
         /\ kind[r] # "batch" => RunError(r) = Msg("error")
BY DEF RunError

-----------------------------------------------------------------------------
(* Types.  The messages first, then everything that [v EXCEPT ![r] = ...]  *)
(* keeps in its type.                                                      *)
LEMMA EmitTypes ==
  ASSUME CommandTypeOK, NEW r \in Runs, NEW m \in Seq(Messages), Emit(r, m)
  PROVE  /\ emitted' \in [Runs -> Seq(Messages)]
         /\ emitted'[r] = emitted[r] \o m
         /\ \A q \in Runs \ {r} : emitted'[q] = emitted[q]
<1>1. emitted \in [Runs -> Seq(Messages)]  BY DEF CommandTypeOK
<1>2. emitted[r] \o m \in Seq(Messages)  BY <1>1, ConcatProperties
<1> QED  BY <1>1, <1>2 DEF Emit

(* What a step of r does to the commands, variable by variable. *)
CommandsKept(r) ==
  /\ kind' \in [Runs -> {"single", "batch"}]
  /\ pc' \in [Runs -> Pcs]
  /\ file' \in [Runs -> 1..(NumFiles + 1)]
  /\ test' \in [Runs -> 1..NumTests]
  /\ record' \in [Runs -> [Files -> Records]]
  /\ adhoc' \in [Runs -> {"none", "open", "closed"}]
  /\ results' \in [Runs -> Nat]
  /\ preResults' \in [Runs -> Nat]
  /\ aggregated' \in [Runs -> Nat]
  /\ emitted' \in [Runs -> Seq(Messages)]
  /\ stops' \in [Runs -> 0..MaxStops]
  /\ ElsewhereInCommands(r)

LEMMA OutcomesAreBoolean == DbOutcomes \subseteq BOOLEAN
BY CommandAssumption

(* What the operators of RunRecord leave behind. *)
LEMMA BegunRecord ==
  ASSUME NEW ok \in BOOLEAN
  PROVE  /\ Begin(NewRecord, ok) \in Records
         /\ Begin(NewRecord, ok).row \in {"none", "running"}
         /\ Begin(NewRecord, ok).broken \/ Writable(Begin(NewRecord, ok))
         /\ Begin(NewRecord, ok).saved = 0
BY DEF Records, RowStatuses, Begin, NewRecord, Broken, Writable


LEMMA AppendedRecord ==
  ASSUME NEW rec \in Records, NEW ok \in BOOLEAN
  PROVE  LET app == AppendResult(rec, ok) IN
         /\ app \in Records /\ app.row = rec.row
         /\ rec.broken \/ Writable(rec) => app.broken \/ Writable(app)
         /\ Writable(app) => Writable(rec) /\ app.saved = rec.saved + 1
<1>1. rec.saved + 1 \in Nat  BY DEF Records
<1>2. CASE ~Writable(rec)  BY <1>2 DEF AppendResult, Writable
<1>3. CASE Writable(rec) /\ ok
  BY <1>1, <1>3 DEF AppendResult, Writable, Records
<1>4. CASE Writable(rec) /\ ~ok
  BY <1>4 DEF AppendResult, Broken, Writable, Records
<1> QED  BY <1>2, <1>3, <1>4

LEMMA FinishedRecord ==
  ASSUME NEW rec \in Records, NEW ok \in BOOLEAN, NEW s \in {"completed", "error", "stopped"}
  PROVE  LET fin == Finish(rec, s, ok) IN
         /\ fin \in Records
         /\ rec.broken \/ Writable(rec) => fin.broken \/ fin.row = s
         /\ fin.row \in {rec.row, s}
         /\ fin.saved = rec.saved
         /\ fin.row # rec.row => Writable(rec)
<1>1. CASE ~Writable(rec)  BY <1>1 DEF Finish
<1>2. CASE Writable(rec) /\ ok
  BY <1>2 DEF Finish, Writable, Records, RowStatuses
<1>3. CASE Writable(rec) /\ ~ok
  BY <1>3 DEF Finish, Broken, Writable, Records
<1> QED  BY <1>1, <1>2, <1>3

LEMMA PairIsAppend ==
  ASSUME NEW S, NEW x \in S, NEW y \in S
  PROVE  Append(<<x>>, y) = <<x, y>>
<1> DEFINE s == Append(<<x>>, y)
           t == <<x, y>>
<1>1. t \in Seq(S) /\ Len(t) = 2 /\ t[1] = x /\ t[2] = y  OBVIOUS
<1>2. s \in Seq(S) /\ Len(s) = 2 /\ s[1] = x /\ s[2] = y  OBVIOUS
<1> HIDE DEF s, t
<1>3. \A i \in 1..Len(s) : s[i] = t[i]  BY <1>1, <1>2
<1>4. s = t  BY <1>1, <1>2, <1>3, SeqEqual
<1> QED BY <1>4 DEF s, t

LEMMA TripleIsAppend ==
  ASSUME NEW S, NEW x \in S, NEW y \in S, NEW z \in S
  PROVE  Append(<<x, y>>, z) = <<x, y, z>>
<1> DEFINE s == Append(<<x, y>>, z)
           t == <<x, y, z>>
<1>1. t \in Seq(S) /\ Len(t) = 3 /\ t[1] = x /\ t[2] = y /\ t[3] = z  OBVIOUS
<1>2. s \in Seq(S) /\ Len(s) = 3 /\ s[1] = x /\ s[2] = y /\ s[3] = z  OBVIOUS
<1> HIDE DEF s, t
<1>3. \A i \in 1..Len(s) : s[i] = t[i]  BY <1>1, <1>2
<1>4. s = t  BY <1>1, <1>2, <1>3, SeqEqual
<1> QED BY <1>4 DEF s, t

LEMMA MessageSequences ==
  /\ <<>> \in Seq(Messages)
  /\ \A x \in Messages : <<x>> \in Seq(Messages)
  /\ \A x, y \in Messages : <<x, y>> \in Seq(Messages) /\ <<x>> \o <<y>> = <<x, y>>
                            /\ Append(<<x>>, y) = <<x, y>>
  /\ \A x, y, z \in Messages : <<x, y, z>> \in Seq(Messages)
                               /\ <<x, y>> \o <<z>> = <<x, y, z>>
                               /\ Append(<<x, y>>, z) = <<x, y, z>>
  /\ \A x \in Messages : <<>> \o <<x>> = <<x>> /\ Append(<<>>, x) = <<x>>
  /\ \A x, y \in Messages : <<x, y>> \o <<>> = <<x, y>>
<1>1. <<>> \in Seq(Messages)  OBVIOUS
<1>2. \A x \in Messages : /\ <<x>> \in Seq(Messages)
                          /\ <<>> \o <<x>> = <<x>> /\ Append(<<>>, x) = <<x>>
  OBVIOUS
<1>3. \A x, y \in Messages : <<x, y>> \in Seq(Messages)  OBVIOUS
<1>4. \A x, y \in Messages : /\ <<x>> \o <<y>> = <<x, y>>
                             /\ Append(<<x>>, y) = <<x, y>>
  BY <1>2, PairIsAppend, AppendIsConcat
<1>5. \A x, y \in Messages : <<x, y>> \o <<>> = <<x, y>>  BY <1>3, ConcatEmptySeq
<1>6. \A x, y, z \in Messages : <<x, y, z>> \in Seq(Messages)  OBVIOUS
<1>7. \A x, y, z \in Messages : <<x, y>> \o <<z>> = <<x, y, z>>
  BY <1>3, TripleIsAppend, AppendIsConcat
<1>8. \A x, y, z \in Messages : Append(<<x, y>>, z) = <<x, y, z>>
  BY TripleIsAppend
<1> QED  BY <1>1, <1>2, <1>3, <1>4, <1>5, <1>6, <1>7, <1>8, Zenon

(* The messages of a file's first step. *)
LEMMA FileStartIs ==
  ASSUME NEW r \in Runs, NEW x \in Messages
  PROVE  /\ kind[r] = "batch" => FileStart(r) \o <<x>> = <<Msg("file_start"), x>>
         /\ kind[r] # "batch" => FileStart(r) \o <<x>> = <<x>>
         /\ FileStart(r) \o <<x>> \in Seq(Messages)
<1>1. Msg("file_start") \in Messages  BY MessageFields DEF EventTypes
<1> HIDE DEF Msg
<1> QED  BY <1>1, MessageSequences DEF FileStart

LEMMA RunErrorIsMessage ==
  ASSUME NEW r \in Runs PROVE RunError(r) \in Messages
BY RunErrorIs, MessageFields DEF EventTypes

LEMMA ReturnKeepsTypes ==
  ASSUME CommandTypeOK, NEW r \in Runs, SliceInv(r), file[r] \in Files,
         NEW m \in Seq(Messages), ReturnFromFile(r, m)
  PROVE  /\ pc' \in [Runs -> Pcs]
         /\ file' \in [Runs -> 1..(NumFiles + 1)]
         /\ preResults' \in [Runs -> Nat]
         /\ aggregated' \in [Runs -> Nat]
         /\ emitted' \in [Runs -> Seq(Messages)]
         /\ \A q \in Runs \ {r} :
              /\ pc'[q] = pc[q] /\ file'[q] = file[q] /\ preResults'[q] = preResults[q]
              /\ aggregated'[q] = aggregated[q] /\ emitted'[q] = emitted[q]
<1>1. CASE kind[r] = "single"
  <2>1. Emit(r, m)  BY <1>1 DEF ReturnFromFile
  <2> QED  BY <1>1, <2>1, EmitTypes DEF ReturnFromFile, CommandTypeOK, Goto, Pcs
<1>2. CASE kind[r] # "single"
  <2> DEFINE n == results[r] - preResults[r]
  <2>1. n \in Nat /\ aggregated[r] + n \in Nat
    BY DEF SliceInv, CommandTypeOK
  <2>2. Append(m, FileComplete(n)) \in Seq(Messages)
    BY <2>1, MessageFields, AppendProperties
  <2>3. Emit(r, Append(m, FileComplete(n)))
    BY <1>2 DEF ReturnFromFile
  <2>4. /\ emitted' \in [Runs -> Seq(Messages)]
        /\ \A q \in Runs \ {r} : emitted'[q] = emitted[q]
    <3> HIDE DEF n
    <3> QED  BY <2>2, <2>3, EmitTypes
  <2>5. /\ aggregated' = [aggregated EXCEPT ![r] = @ + n]
        /\ preResults' = [preResults EXCEPT ![r] = results[r]]
        /\ file' = [file EXCEPT ![r] = @ + 1]
        /\ Goto(r, "enter")
    BY <1>2 DEF ReturnFromFile
  <2>6. file[r] + 1 \in 1..(NumFiles + 1)
    BY CommandAssumption DEF Files
  <2> HIDE DEF n
  <2> QED  BY <2>1, <2>4, <2>5, <2>6 DEF CommandTypeOK, Goto, Pcs
<1> QED  BY <1>1, <1>2

LEMMA UnwindKeepsTypes ==
  ASSUME CommandTypeOK, NEW r \in Runs, Unwind(r)
  PROVE  /\ pc' \in [Runs -> Pcs] /\ emitted' \in [Runs -> Seq(Messages)]
         /\ UNCHANGED <<file, preResults, aggregated>>
         /\ \A q \in Runs \ {r} : pc'[q] = pc[q] /\ emitted'[q] = emitted[q]
<1>1. AllComplete("stopped", results[r]) \in Messages
  BY MessageFields DEF CommandTypeOK
<1>2. <<AllComplete("stopped", results[r])>> \in Seq(Messages)
  BY <1>1, MessageSequences
<1>3. /\ emitted' \in [Runs -> Seq(Messages)]
      /\ \A q \in Runs \ {r} : emitted'[q] = emitted[q]
  BY <1>2, EmitTypes DEF Unwind
<1> QED  BY <1>3 DEF Unwind, CommandTypeOK, Goto, Pcs

LEMMA EndFileKeepsTypes ==
  ASSUME CommandTypeOK, NEW r \in Runs, SliceInv(r), file[r] \in Files, EndFile(r)
  PROVE  /\ pc' \in [Runs -> Pcs]
         /\ file' \in [Runs -> 1..(NumFiles + 1)]
         /\ preResults' \in [Runs -> Nat]
         /\ aggregated' \in [Runs -> Nat]
         /\ emitted' \in [Runs -> Seq(Messages)]
         /\ \A q \in Runs \ {r} :
              /\ pc'[q] = pc[q] /\ file'[q] = file[q] /\ preResults'[q] = preResults[q]
              /\ aggregated'[q] = aggregated[q] /\ emitted'[q] = emitted[q]
<1>1. CASE cancel[r] = "delivered"
  <2>1. Unwind(r)  BY <1>1 DEF EndFile
  <2> QED  BY <2>1, UnwindKeepsTypes DEF CommandTypeOK
<1>2. CASE cancel[r] # "delivered"
  <2>1. ReturnFromFile(r, <<>>)  BY <1>2 DEF EndFile
  <2> QED  BY <2>1, ReturnKeepsTypes, MessageSequences
<1> QED  BY <1>1, <1>2

(* The record of the current file is written, the others are left alone. *)
LEMMA SetRecordTypes ==
  ASSUME CommandTypeOK, NEW r \in Runs, file[r] \in Files, NEW rec \in Records,
         SetRecord(r, rec)
  PROVE  /\ record' \in [Runs -> [Files -> Records]]
         /\ record'[r][file[r]] = rec
         /\ \A f \in Files \ {file[r]} : record'[r][f] = record[r][f]
         /\ \A q \in Runs \ {r} : record'[q] = record[q]
BY DEF SetRecord, CommandTypeOK

-----------------------------------------------------------------------------
(* One lemma per action: before it (Here) and after it (There). *)
Here(r)  == SlotInv /\ CommandTypeOK /\ RunInv(r)
There(r) == CommandsKept(r) /\ Elsewhere(r) /\ RunInv(r)'

LEMMA SubmitStep ==
  ASSUME NEW r \in Runs, NEW k \in {"single", "batch"}, Here(r), Submit(r, k)
  PROVE  There(r)
<1> USE DEF Here, Submit
<1>1. /\ status[r] = "none" /\ slot[r] = "none" /\ pc[r] = "idle" /\ emitted[r] = <<>>
      /\ file[r] = 1 /\ cancel[r] = "no"
  BY DEF CreateRun, SlotInv, StatusInv, RunInv, ControlInv, StreamInv, FilesInv
<1>2. status'[r] = "queued" /\ slot'[r] = "spawned" /\ kind'[r] = k
  BY DEF CreateRun, SlotInv, SlotTypeOK, CommandTypeOK
<1>3. CommandsKept(r)
  BY DEF CommandTypeOK, CommandsKept, ElsewhereInCommands
<1>4. Elsewhere(r)  BY OwnSlotMoves DEF SlotInv
<1>5. ControlInv(r)'  BY <1>1, <1>2 DEF RunInv, ControlInv, CreateRun
<1>6. RowInv(r)'  BY <1>1 DEF RunInv, RowInv, CurrentRecord
<1>7. SliceInv(r)'  BY <1>1, <1>2 DEF RunInv, SliceInv
<1>8. StreamInv(r)'
  BY <1>1, <1>2, NothingSent DEF RunInv, StreamInv, Finished, FinalStatuses
<1>9. FilesInv(r)'
  BY <1>1, <1>2, NothingSent DEF FilesInv
<1> QED  BY <1>3, <1>4, <1>5, <1>6, <1>7, <1>8, <1>9 DEF There, RunInv

LEMMA StartStep ==
  ASSUME NEW r \in Runs, Here(r), StartTask(r)
  PROVE  There(r)
<1> USE DEF Here, StartTask
<1>1. slot[r] = "spawned" /\ status[r] = "queued" /\ pc[r] = "idle" /\ cancel[r] = "no"
  BY DEF AcquireFree, Park, SlotInv, StatusInv, RunInv, ControlInv
<1>2. emitted[r] \in Seq(Messages)  BY DEF CommandTypeOK
<1>3. CASE AcquireFree(r) /\ Goto(r, "enter") /\ UNCHANGED emitted
  <2>1. status'[r] = "running" /\ slot'[r] = "holding" /\ pc'[r] = "enter"
    BY <1>3 DEF AcquireFree, Goto, SlotInv, SlotTypeOK, CommandTypeOK
  <2>2. CommandsKept(r)
    BY <1>3 DEF CommandTypeOK, CommandsKept, ElsewhereInCommands, Goto, Pcs
  <2>3. Elsewhere(r)  BY <1>3, OwnSlotMoves DEF SlotInv
  <2>4. ControlInv(r)'  BY <1>1, <1>3, <2>1 DEF RunInv, ControlInv, AcquireFree
  <2>5. RowInv(r)'  BY <1>1, <2>1 DEF RunInv, RowInv, CurrentRecord
  <2>6. SliceInv(r)'  BY <1>1, <2>1 DEF RunInv, SliceInv
  <2>7. StreamInv(r)'
    <3>1. Grown(emitted[r], emitted'[r], 0, 0, 0)  BY <1>2, <1>3, GrownByNothing
    <3>2. results'[r] = results[r] + 0  BY DEF CommandTypeOK
    <3> QED  BY <1>1, <2>1, <3>1, <3>2, StreamGoesOn DEF RunInv
  <2>8. FilesInv(r)'
    BY <1>1, <1>3, <2>1 DEF RunInv, FilesInv, Finished, FinalStatuses
  <2> QED  BY <2>2, <2>3, <2>4, <2>5, <2>6, <2>7, <2>8 DEF There, RunInv
<1>4. CASE Park(r) /\ Emit(r, <<Msg("log")>>) /\ UNCHANGED pc
  <2>1. status'[r] = "queued" /\ slot'[r] = "waiting" /\ cancel' = cancel
    BY <1>1, <1>4 DEF Park, SlotInv, SlotTypeOK
  <2>2. /\ emitted' \in [Runs -> Seq(Messages)]
        /\ emitted'[r] = emitted[r] \o <<Msg("log")>>
        /\ \A q \in Runs \ {r} : emitted'[q] = emitted[q]
    BY <1>4, MessageFields, MessageSequences, EmitTypes DEF EventTypes
  <2>3. CommandsKept(r)
    BY <1>4, <2>2 DEF CommandTypeOK, CommandsKept, ElsewhereInCommands
  <2>4. Elsewhere(r)  BY <1>4, OwnSlotMoves DEF SlotInv
  <2>5. ControlInv(r)'  BY <1>1, <1>4, <2>1 DEF RunInv, ControlInv
  <2>6. RowInv(r)'  BY <1>1, <1>4 DEF RunInv, RowInv, CurrentRecord
  <2>7. SliceInv(r)'  BY <1>1, <1>4, <2>1 DEF RunInv, SliceInv
  <2>8. Grown(emitted[r], emitted'[r], 0, 0, 0)
    BY <1>2, <2>2, GrownByOne DEF One, EventTypes
  <2>9. StreamInv(r)'
    <3>1. results'[r] = results[r] + 0  BY DEF CommandTypeOK
    <3> QED  BY <1>1, <1>4, <2>1, <2>8, <3>1, StreamGoesOn DEF RunInv
  <2>10. FilesInv(r)'
    BY <1>1, <1>2, <1>4, <2>1, <2>8, FilesGoOn DEF RunInv
  <2> QED  BY <2>3, <2>4, <2>5, <2>6, <2>7, <2>9, <2>10 DEF There, RunInv
<1> QED  BY <1>3, <1>4

LEMMA ResumeStep ==
  ASSUME NEW r \in Runs, Here(r), ResumeTask(r)
  PROVE  There(r)
<1> USE DEF Here, ResumeTask
<1>1. /\ Elsewhere(r) /\ slot'[r] = "holding" /\ cancel'[r] = "no"
      /\ status[r] = "queued" /\ status'[r] = "running"
  BY ResumeMoves
<1>2. pc[r] = "idle" /\ pc'[r] = "enter" /\ emitted[r] \in Seq(Messages)
  BY <1>1 DEF Resume, RunInv, ControlInv, CommandTypeOK, Goto
<1>3. CommandsKept(r)
  BY DEF CommandTypeOK, CommandsKept, ElsewhereInCommands, Goto, Pcs
<1>4. ControlInv(r)'  BY <1>1, <1>2 DEF RunInv, ControlInv
<1>5. RowInv(r)'  BY <1>2 DEF RunInv, RowInv, CurrentRecord
<1>6. SliceInv(r)'  BY <1>1, <1>2 DEF RunInv, SliceInv
<1>7. StreamInv(r)'
  <2>1. Grown(emitted[r], emitted'[r], 0, 0, 0)  BY <1>2, GrownByNothing
  <2>2. results'[r] = results[r] + 0  BY DEF CommandTypeOK
  <2> QED  BY <1>1, <1>2, <2>1, <2>2, StreamGoesOn DEF RunInv
<1>8. FilesInv(r)'
  BY <1>1, <1>2 DEF RunInv, FilesInv, Finished, FinalStatuses
<1> QED  BY <1>1, <1>3, <1>4, <1>5, <1>6, <1>7, <1>8 DEF There, RunInv

(* A command that ends, however it does. *)
LEMMA EndStep ==
  ASSUME NEW r \in Runs, Here(r), NEW s \in FinalStatuses, Leave(r, s), Goto(r, "idle"),
         CommandsKept(r), pc[r] # "test", record'[r] = record[r], kind'[r] = kind[r],
         adhoc'[r] = "open" => s = "stopped",
         aggregated'[r] = preResults'[r], preResults'[r] <= results'[r],
         StreamInv(r)', kind[r] = "batch" => Nested(emitted'[r])
  PROVE  There(r)
<1> USE DEF Here
<1>1. /\ Elsewhere(r) /\ slot'[r] = "reaping" /\ status'[r] = s
  BY LeaveMoves
<1>2. pc'[r] = "idle"  BY DEF Goto, CommandTypeOK
<1>3. ControlInv(r)'  BY <1>1, <1>2 DEF ControlInv
<1>4. RowInv(r)'  BY <1>2 DEF RunInv, RowInv, CurrentRecord
<1>5. SliceInv(r)'  BY <1>1, <1>2 DEF SliceInv, FinalStatuses
<1>6. FilesInv(r)'  BY <1>1, FilesEnd
<1> QED  BY <1>1, <1>3, <1>4, <1>5, <1>6 DEF There, RunInv

(* The sequence with the terminal event is the one that a run may end with.*)
LEMMA UnwindStep ==
  ASSUME NEW r \in Runs, Here(r), Unwind(r), pc[r] # "test",
         UNCHANGED <<kind, test, record, results, stops>>,
         adhoc' \in [Runs -> {"none", "open", "closed"}],
         \A q \in Runs \ {r} : adhoc'[q] = adhoc[q]
  PROVE  There(r)
<1> USE DEF Here
<1> DEFINE a == AllComplete("stopped", results[r])
<1>1. "stopped" \in FinalStatuses /\ Leave(r, "stopped") /\ Goto(r, "idle")
  BY DEF Unwind, FinalStatuses
<1>2. CommandsKept(r)
  BY UnwindKeepsTypes DEF CommandTypeOK, CommandsKept, ElsewhereInCommands
<1>3. /\ a \in Messages /\ Ends(a) /\ a.type = "all_complete" /\ a.status = "stopped"
      /\ a.n = results[r]
  BY MessageFields DEF CommandTypeOK
<1>4. emitted[r] \in Seq(Messages) /\ results[r] \in Nat  BY DEF CommandTypeOK
<1> HIDE DEF a
<1>5. emitted'[r] = Append(emitted[r], a)
  <2>1. Emit(r, <<a>>)  BY DEF Unwind, a
  <2>2. emitted'[r] = emitted[r] \o <<a>>  BY <1>3, <2>1, MessageSequences, EmitTypes
  <2> QED  BY <1>3, <1>4, <2>2, ShortConcat
<1>6. status[r] = "running" /\ status'[r] = "stopped"  BY <1>1, LeaveMoves
<1>7. StreamInv(r)'
  <2>1. Grown(emitted[r], emitted[r], 0, 0, 0)  BY <1>4, GrownByNothing
  <2>2. results'[r] = results[r] + 0  BY <1>4
  <2>3. "stopped" \in Statuses \ {"none"}  BY DEF Statuses, FinalStatuses
  <2> QED  BY <1>1, <1>3, <1>5, <1>6, <2>1, <2>2, <2>3, StreamEnds DEF RunInv
<1>8. kind[r] = "batch" => Nested(emitted'[r])
  BY <1>3, <1>4, <1>5, EndAppend DEF RunInv, FilesInv
<1>9. aggregated'[r] = preResults'[r] /\ preResults'[r] <= results'[r]
  BY DEF Unwind, RunInv, SliceInv
<1> QED  BY <1>1, <1>2, <1>7, <1>8, <1>9, EndStep

LEMMA ConcatAppend ==
  ASSUME NEW s \in Seq(Messages), NEW m \in Seq(Messages), NEW a \in Messages
  PROVE  s \o Append(m, a) = Append(s \o m, a)
<1>1. Append(m, a) = m \o <<a>>  BY AppendIsConcat
<1>2. <<a>> \in Seq(Messages)  OBVIOUS
<1>3. s \o (m \o <<a>>) = (s \o m) \o <<a>>  BY <1>2, ConcatAssociative
<1>4. s \o m \in Seq(Messages)  BY ConcatProperties
<1> QED  BY <1>1, <1>3, <1>4, AppendIsConcat

(* A batch closes its file: b says whether the file was opened just now.   *)
LEMMA ReturnInBatch ==
  ASSUME NEW r \in Runs, Here(r), kind[r] = "batch", pc[r] \notin {"idle", "test"},
         file[r] \in Files, cancel[r] = "no",
         NEW m \in Seq(Messages), ReturnFromFile(r, m),
         NEW b \in {0, 1}, Grown(emitted[r], emitted[r] \o m, 0, b, 0),
         Nested(emitted[r] \o m),
         b = 1 <=> pc[r] = "enter",
         UNCHANGED <<kind, test, record, results, stops>>,
         adhoc' \in [Runs -> {"none", "open", "closed"}], adhoc'[r] # "open",
         \A q \in Runs \ {r} : adhoc'[q] = adhoc[q]
  PROVE  There(r)
<1> USE DEF Here
<1> DEFINE n == results[r] - preResults[r]
           u == emitted[r] \o m
           a == FileComplete(n)
<1>1. /\ emitted[r] \in Seq(Messages) /\ results[r] \in Nat
      /\ preResults[r] \in Nat /\ aggregated[r] = preResults[r] /\ preResults[r] <= results[r]
      /\ n \in Nat
  BY DEF CommandTypeOK, RunInv, SliceInv
<1>2. a \in Messages /\ Plain(a) /\ a.type = "file_complete"
  BY <1>1, MessageFields
<1>3. UNCHANGED slotVars /\ status[r] = "running" /\ slot[r] = "holding"
  BY DEF ReturnFromFile, RunInv, ControlInv, SlotInv, StatusInv
<1>4. status' = status /\ slot' = slot /\ cancel' = cancel
  BY <1>3 DEF slotVars
<1>5. /\ file'[r] = file[r] + 1 /\ pc'[r] = "enter"
      /\ aggregated'[r] = results[r] /\ preResults'[r] = results[r]
  BY <1>1 DEF ReturnFromFile, Goto, CommandTypeOK
<1>6. CommandsKept(r)
  BY ReturnKeepsTypes DEF RunInv, CommandTypeOK, CommandsKept, ElsewhereInCommands
<1>7. Elsewhere(r)  BY <1>3, OwnSlotMoves DEF SlotInv
<1> HIDE DEF n
<1>8. Emit(r, Append(m, a))  BY DEF ReturnFromFile, n
<1> HIDE DEF a
<1>9. emitted'[r] = Append(u, a)
  <2>1. Append(m, a) \in Seq(Messages)  BY <1>2, AppendProperties
  <2>2. emitted'[r] = emitted[r] \o Append(m, a)  BY <2>1, <1>8, EmitTypes
  <2> QED  BY <1>1, <1>2, <2>2, ConcatAppend
<1> HIDE DEF u
<1>10. /\ u \in Seq(Messages) /\ Nested(u)
       /\ Grown(emitted[r], u, 0, b, 0)
  BY DEF Grown, u
<1>11. Grown(emitted[r], emitted'[r], 0, b, 1)
  BY <1>1, <1>2, <1>9, <1>10, GrownMore DEF One
<1>12. /\ Total(u, "file_start") = file[r] /\ Total(u, "file_complete") = file[r] - 1
       /\ Total(emitted'[r], "file_start") = file[r]
       /\ Total(emitted'[r], "file_complete") = file[r]
  <2>1. /\ Total(emitted[r], "file_complete") = file[r] - 1
        /\ Total(emitted[r], "file_start") = IF b = 1 THEN file[r] - 1 ELSE file[r]
    BY <1>3 DEF RunInv, FilesInv, Finished, FinalStatuses
  <2>2. file[r] \in Nat  BY CommandAssumption DEF Files
  <2>3. CASE b = 1  BY <2>1, <2>2, <2>3, <1>10, <1>11 DEF Grown
  <2>4. CASE b = 0  BY <2>1, <2>2, <2>4, <1>10, <1>11 DEF Grown
  <2> QED  BY <2>3, <2>4
<1>13. Nested(emitted'[r])
  <2>1. file[r] \in Nat  BY CommandAssumption DEF Files
  <2> QED  BY <2>1, <1>2, <1>9, <1>10, <1>12, NestedAppend
<1>14. ControlInv(r)'  BY <1>3, <1>4, <1>5 DEF ControlInv
<1>15. RowInv(r)'  BY <1>5 DEF RunInv, RowInv, CurrentRecord
<1>16. SliceInv(r)'  BY <1>1, <1>5 DEF SliceInv
<1>17. StreamInv(r)'
  <2>1. results'[r] = results[r] + 0  BY <1>1
  <2> QED  BY <1>3, <1>4, <1>5, <1>11, <2>1, StreamGoesOn DEF RunInv
<1>18. FilesInv(r)'
  <2>1. file'[r] - 1 = file[r]  BY <1>5, CommandAssumption DEF Files
  <2> QED  BY <1>3, <1>4, <1>5, <1>12, <1>13, <2>1 DEF FilesInv
<1> QED  BY <1>6, <1>7, <1>14, <1>15, <1>16, <1>17, <1>18 DEF There, RunInv

(* A single run returns from its only file: it reports an error, or has    *)
(* reported its end before.                                                *)
LEMMA ReturnFromSingle ==
  ASSUME NEW r \in Runs, Here(r), kind[r] # "batch", pc[r] \notin {"idle", "test"},
         file[r] \in Files, NEW m, ReturnFromFile(r, m),
         \/ m = <<RunError(r)>>
         \/ m = <<>> /\ Ended(emitted[r]),
         UNCHANGED <<kind, test, record, results, stops>>,
         adhoc' \in [Runs -> {"none", "open", "closed"}], adhoc'[r] # "open",
         \A q \in Runs \ {r} : adhoc'[q] = adhoc[q]
  PROVE  There(r)
<1> USE DEF Here
<1>1. kind[r] = "single"  BY DEF CommandTypeOK
<1>2. /\ Emit(r, m) /\ Goto(r, "idle") /\ Leave(r, "completed")
      /\ UNCHANGED <<file, preResults, aggregated>>
  BY <1>1 DEF ReturnFromFile
<1>3. "completed" \in FinalStatuses  BY DEF FinalStatuses
<1>4. status[r] = "running" /\ status'[r] = "completed"
  BY <1>2, <1>3, LeaveMoves
<1>5. RunError(r) = Msg("error") /\ Msg("error") \in Messages
      /\ Ends(Msg("error")) /\ Msg("error").type = "error" /\ Msg("error").status = ""
  BY RunErrorIs, MessageFields DEF EventTypes
<1>6. m \in Seq(Messages)  BY <1>5, MessageSequences
<1>7. emitted'[r] = emitted[r] \o m  BY <1>2, <1>6, EmitTypes
<1>8. CommandsKept(r)
  BY <1>6, ReturnKeepsTypes DEF RunInv, CommandTypeOK, CommandsKept, ElsewhereInCommands
<1>9. emitted[r] \in Seq(Messages) /\ results[r] \in Nat  BY DEF CommandTypeOK
<1>10. StreamInv(r)'
  <2>1. CASE m = <<RunError(r)>>
    <3>1. emitted'[r] = Append(emitted[r], Msg("error"))
      <4>1. emitted'[r] = emitted[r] \o <<Msg("error")>>  BY <1>5, <1>7, <2>1
      <4> HIDE DEF Msg
      <4> QED  BY <1>5, <1>9, <4>1, ShortConcat
    <3>2. Grown(emitted[r], emitted[r], 0, 0, 0)  BY <1>9, GrownByNothing
    <3>3. results'[r] = results[r] + 0  BY <1>9
    <3>4. status'[r] \in Statuses \ {"none"}  BY <1>4 DEF Statuses, FinalStatuses
    <3> HIDE DEF Msg
    <3> QED  BY <1>1, <1>4, <1>5, <3>1, <3>2, <3>3, <3>4, StreamEnds DEF RunInv
  <2>2. CASE m = <<>> /\ Ended(emitted[r])
    <3>1. emitted'[r] = emitted[r]  BY <1>7, <1>9, <2>2, ConcatEmptySeq
    <3>2. pc'[r] = "idle"  BY <1>2 DEF Goto, CommandTypeOK
    <3>3. results'[r] = results[r] /\ kind'[r] = kind[r]  OBVIOUS
    <3>4. StreamInv(r)  BY DEF RunInv
    <3> QED  BY <1>4, <2>2, <3>1, <3>2, <3>3, <3>4, StreamIsLeft
  <2> QED  BY <2>1, <2>2
<1>11. aggregated'[r] = preResults'[r] /\ preResults'[r] <= results'[r]
  BY <1>2 DEF RunInv, SliceInv
<1> QED  BY <1>1, <1>2, <1>3, <1>8, <1>10, <1>11, EndStep

LEMMA StopQueuedStep ==
  ASSUME NEW r \in Runs, Here(r), StopQueued(r)
  PROVE  There(r)
<1> USE DEF Here, StopQueued
<1> DEFINE a == AllComplete("stopped", results[r])
<1>1. /\ Elsewhere(r) /\ slot'[r] = "reaping" /\ cancel'[r] = "delivered"
      /\ status[r] = "queued" /\ status'[r] = "stopped" /\ slot[r] # "holding"
  BY AbandonMoves
<1>2. /\ a \in Messages /\ Ends(a) /\ a.type = "all_complete" /\ a.status = "stopped"
      /\ a.n = results[r]
  BY MessageFields DEF CommandTypeOK
<1>3. emitted[r] \in Seq(Messages) /\ results[r] \in Nat  BY DEF CommandTypeOK
<1> HIDE DEF a
<1>4. /\ emitted' \in [Runs -> Seq(Messages)]
      /\ emitted'[r] = Append(emitted[r], a)
      /\ \A q \in Runs \ {r} : emitted'[q] = emitted[q]
  <2>1. Emit(r, <<a>>)  BY DEF a
  <2>2. <<a>> \in Seq(Messages)  BY <1>2, MessageSequences
  <2> QED  BY <1>2, <1>3, <2>1, <2>2, EmitTypes, ShortConcat
<1>5. CommandsKept(r)
  BY <1>4 DEF CommandTypeOK, CommandsKept, ElsewhereInCommands
<1>6. pc[r] = "idle"  BY <1>1 DEF RunInv, ControlInv
<1>7. ControlInv(r)'  BY <1>1, <1>6 DEF RunInv, ControlInv
<1>8. RowInv(r)'  BY <1>6 DEF RunInv, RowInv, CurrentRecord
<1>9. SliceInv(r)'  BY <1>1, <1>6 DEF RunInv, SliceInv
<1>10. StreamInv(r)'
  <2>1. Grown(emitted[r], emitted[r], 0, 0, 0)  BY <1>3, GrownByNothing
  <2>2. results'[r] = results[r] + 0  BY <1>3
  <2>3. "stopped" \in Statuses \ {"none"} /\ "stopped" \in FinalStatuses
    BY DEF Statuses, FinalStatuses
  <2> QED  BY <1>1, <1>2, <1>4, <2>1, <2>2, <2>3, StreamEnds DEF RunInv
<1>11. FilesInv(r)'
  <2>1. kind[r] = "batch" => Nested(emitted'[r])
    BY <1>2, <1>3, <1>4, EndAppend DEF RunInv, FilesInv
  <2> QED  BY <1>1, <2>1, FilesEnd DEF FinalStatuses
<1> QED  BY <1>1, <1>5, <1>7, <1>8, <1>9, <1>10, <1>11 DEF There, RunInv

LEMMA CommandRaisedStep ==
  ASSUME NEW r \in Runs, Here(r), CommandRaised(r)
  PROVE  There(r)
<1> USE DEF Here, CommandRaised
<1>1. "error" \in FinalStatuses  BY DEF FinalStatuses
<1>2. status[r] = "running" /\ status'[r] = "error"  BY <1>1, LeaveMoves
<1>3. CommandsKept(r)
  BY DEF CommandTypeOK, CommandsKept, ElsewhereInCommands, Goto, Pcs
<1>4. pc'[r] = "idle"  BY DEF Goto, CommandTypeOK
<1>5. StreamInv(r)'  BY <1>2, <1>4, StreamIsLeft DEF RunInv
<1>6. adhoc[r] # "open"  BY DEF RunInv, ControlInv
<1>7. aggregated'[r] = preResults'[r] /\ preResults'[r] <= results'[r]
  BY DEF RunInv, SliceInv
<1>8. kind[r] = "batch" => Nested(emitted'[r])  BY DEF RunInv, FilesInv
<1> QED  BY <1>1, <1>3, <1>5, <1>6, <1>7, <1>8, EndStep

LEMMA BatchFailedStep ==
  ASSUME NEW r \in Runs, Here(r), BatchFailed(r)
  PROVE  There(r)
<1> USE DEF Here, BatchFailed
<1>1. "completed" \in FinalStatuses  BY DEF FinalStatuses
<1>2. status[r] = "running" /\ status'[r] = "completed"  BY <1>1, LeaveMoves
<1>3. /\ emitted[r] \in Seq(Messages) /\ results[r] \in Nat
      /\ results'[r] = results[r] + 0
  BY DEF CommandTypeOK
<1>4. /\ Msg("error") \in Messages /\ Ends(Msg("error")) /\ Msg("error").type = "error"
      /\ Msg("error").status = ""
      /\ Msg("file_start") \in Messages /\ Plain(Msg("file_start"))
      /\ Msg("file_start").type = "file_start"
  BY MessageFields DEF EventTypes
<1> HIDE DEF Msg
<1>5. PICK m \in {<<Msg("error")>>, <<Msg("file_start"), Msg("error")>>} : Emit(r, m)
  BY <1>4, MessageSequences
<1>6. m \in Seq(Messages)  BY <1>4, <1>5, MessageSequences
<1>7. /\ emitted' \in [Runs -> Seq(Messages)]
      /\ emitted'[r] = emitted[r] \o m
      /\ \A q \in Runs \ {r} : emitted'[q] = emitted[q]
  BY <1>5, <1>6, EmitTypes
<1>8. CommandsKept(r)
  BY <1>7 DEF CommandTypeOK, CommandsKept, ElsewhereInCommands, Goto, Pcs
<1>9. \E u \in Seq(Messages) : /\ emitted'[r] = Append(u, Msg("error"))
                               /\ \E b \in Nat : Grown(emitted[r], u, 0, b, 0)
                               /\ Nested(u)
  <2>1. CASE m = <<Msg("error")>>
    <3>1. emitted'[r] = Append(emitted[r], Msg("error"))
      BY <1>3, <1>4, <1>7, <2>1, ShortConcat
    <3>2. Grown(emitted[r], emitted[r], 0, 0, 0) /\ Nested(emitted[r])
      BY <1>3, GrownByNothing DEF RunInv, FilesInv
    <3> QED  BY <1>3, <3>1, <3>2
  <2>2. CASE m = <<Msg("file_start"), Msg("error")>>
    <3> DEFINE u == Append(emitted[r], Msg("file_start"))
    <3>1. emitted'[r] = Append(u, Msg("error"))
      BY <1>3, <1>4, <1>7, <2>2, ShortConcat
    <3>2. u \in Seq(Messages) /\ Grown(emitted[r], u, 0, 1, 0)
      BY <1>3, <1>4, GrownOne DEF One, Grown
    <3>3. Nested(u)
      <4>1. /\ Total(emitted[r], "file_complete") = file[r] - 1
            /\ Total(emitted[r], "file_start") = file[r] - 1
            /\ Nested(emitted[r])
        BY <1>2 DEF RunInv, FilesInv, Finished, FinalStatuses
      <4>2. file[r] \in Nat  BY CommandAssumption DEF CommandTypeOK
      <4>3. /\ Total(u, "file_complete") = Total(emitted[r], "file_complete") + 0
            /\ Total(u, "file_start") = Total(emitted[r], "file_start") + 1
        BY <3>2 DEF Grown
      <4>4. /\ Total(u, "file_complete") <= Total(u, "file_start")
            /\ Total(u, "file_start") <= Total(u, "file_complete") + 1
        BY <4>1, <4>2, <4>3
      <4> QED  BY <1>3, <1>4, <4>1, <4>4, NestedAppend
    <3> HIDE DEF u
    <3>4. \E b \in Nat : Grown(emitted[r], u, 0, b, 0)  BY <3>2
    <3> QED  BY <3>1, <3>2, <3>3, <3>4
  <2> QED  BY <1>5, <2>1, <2>2
<1>10. PICK u \in Seq(Messages), b \in Nat :
         /\ emitted'[r] = Append(u, Msg("error"))
         /\ Grown(emitted[r], u, 0, b, 0)
         /\ Nested(u)
  BY <1>9
<1>11. StreamInv(r)'
  <2>1. "completed" \in Statuses \ {"none"}  BY DEF Statuses, FinalStatuses
  <2> QED  BY <1>1, <1>2, <1>3, <1>4, <1>10, <2>1, StreamEnds DEF RunInv
<1>12. Nested(emitted'[r])  BY <1>4, <1>10, EndAppend
<1>13. adhoc[r] # "open"  BY DEF RunInv, ControlInv
<1>14. aggregated'[r] = preResults'[r] /\ preResults'[r] <= results'[r]
  BY DEF RunInv, SliceInv
<1> QED  BY <1>1, <1>8, <1>11, <1>12, <1>13, <1>14, EndStep

LEMMA FinishBatchStep ==
  ASSUME NEW r \in Runs, Here(r), FinishBatch(r)
  PROVE  There(r)
<1> USE DEF Here, FinishBatch
<1> DEFINE a == AllComplete("completed", aggregated[r])
<1>1. "completed" \in FinalStatuses  BY DEF FinalStatuses
<1>2. status[r] = "running" /\ status'[r] = "completed"  BY <1>1, LeaveMoves
<1>3. /\ emitted[r] \in Seq(Messages) /\ results[r] \in Nat /\ aggregated[r] \in Nat
      /\ results'[r] = results[r] + 0
  BY DEF CommandTypeOK
<1>4. aggregated[r] = results[r] /\ aggregated[r] = preResults[r]
  BY DEF RunInv, SliceInv
<1>5. /\ a \in Messages /\ Ends(a) /\ a.type = "all_complete" /\ a.status = "completed"
      /\ a.n = results[r]
  BY <1>3, <1>4, MessageFields
<1> HIDE DEF a
<1>6. /\ emitted' \in [Runs -> Seq(Messages)]
      /\ emitted'[r] = Append(emitted[r], a)
      /\ \A q \in Runs \ {r} : emitted'[q] = emitted[q]
  <2>1. Emit(r, <<a>>)  BY DEF a
  <2>2. <<a>> \in Seq(Messages)  BY <1>5, MessageSequences
  <2> QED  BY <1>3, <1>5, <2>1, <2>2, EmitTypes, ShortConcat
<1>7. CommandsKept(r)
  BY <1>6 DEF CommandTypeOK, CommandsKept, ElsewhereInCommands, Goto, Pcs
<1>8. StreamInv(r)'
  <2>1. "completed" \in Statuses \ {"none"}  BY DEF Statuses, FinalStatuses
  <2>2. Grown(emitted[r], emitted[r], 0, 0, 0)  BY <1>3, GrownByNothing
  <2>3. a.n = results'[r]  BY <1>5
  <2> QED  BY <1>1, <1>2, <1>3, <1>5, <1>6, <2>1, <2>2, <2>3, StreamEnds DEF RunInv
<1>9. kind[r] = "batch" => Nested(emitted'[r])
  <2>1. kind[r] = "batch" => /\ Nested(emitted[r])
                             /\ Total(emitted[r], "file_complete") = NumFiles
                             /\ Total(emitted[r], "file_start") = NumFiles
    <3>1. file[r] - 1 = NumFiles  BY CommandAssumption
    <3> QED  BY <1>2, <3>1 DEF RunInv, FilesInv, Finished, FinalStatuses
  <2> QED  BY <1>3, <1>5, <1>6, <2>1, EndAppend
<1>10. adhoc[r] # "open"  BY DEF RunInv, ControlInv
<1>11. aggregated'[r] = preResults'[r] /\ preResults'[r] <= results'[r]
  BY DEF RunInv, SliceInv
<1> QED  BY <1>1, <1>7, <1>8, <1>9, <1>10, <1>11, EndStep

(* A command that goes on inside its file. *)
LEMMA MidStep ==
  ASSUME NEW r \in Runs, Here(r), pc[r] # "idle", pc'[r] \notin {"idle", "enter"},
         UNCHANGED <<status, slot>>, Elsewhere(r), CommandsKept(r),
         file[r] \in Files, UNCHANGED <<kind, file, preResults, aggregated>>,
         results[r] <= results'[r],
         adhoc'[r] = "open" => pc'[r] \in {"init", "test", "cleanup", "close"},
         pc'[r] \in {"connect", "init"} => test'[r] = 1,
         StreamInv(r)', RowInv(r)', FilesInv(r)'
  PROVE  There(r)
<1> USE DEF Here
<1>1. slot[r] = "holding" /\ status[r] = "running"
  BY DEF RunInv, ControlInv, SlotInv, StatusInv
<1>2. ControlInv(r)'  BY <1>1 DEF ControlInv
<1>3. SliceInv(r)'
  <2>1. /\ preResults[r] \in Nat /\ results[r] \in Nat /\ results'[r] \in Nat
        /\ preResults[r] <= results[r] /\ aggregated[r] = preResults[r]
    BY DEF RunInv, SliceInv, CommandTypeOK, CommandsKept
  <2>2. preResults'[r] <= results'[r]  BY <2>1
  <2> QED  BY <1>1, <2>1, <2>2 DEF SliceInv
<1> QED  BY <1>2, <1>3 DEF There, RunInv

(* A batch opens its next file. *)
LEMMA FileOpens ==
  ASSUME NEW r \in Runs, Here(r), kind[r] = "batch", status[r] = "running", pc[r] = "enter",
         file[r] \in Files, UNCHANGED <<kind, file>>, status' = status,
         pc'[r] \notin {"idle", "enter"},
         Grown(emitted[r], emitted'[r], 0, 1, 0), Nested(emitted'[r])
  PROVE  FilesInv(r)'
<1>1. /\ Total(emitted[r], "file_complete") = file[r] - 1
      /\ Total(emitted[r], "file_start") = file[r] - 1
  BY DEF Here, RunInv, FilesInv, Finished, FinalStatuses
<1>2. file[r] \in Nat  BY CommandAssumption DEF Files
<1>3. /\ Total(emitted'[r], "file_complete") = Total(emitted[r], "file_complete") + 0
      /\ Total(emitted'[r], "file_start") = Total(emitted[r], "file_start") + 1
  BY DEF Grown
<1>4. /\ Total(emitted'[r], "file_complete") = file[r] - 1
      /\ Total(emitted'[r], "file_start") = file[r]
  BY <1>1, <1>2, <1>3
<1> QED  BY <1>4 DEF FilesInv

LEMMA FilesOfSingle ==
  ASSUME NEW r \in Runs, kind'[r] # "batch", status'[r] \notin {"none", "queued"}
  PROVE  FilesInv(r)'
BY DEF FilesInv

(* What the top of a file publishes: the file's start, in a batch, and a   *)
(* line or an error of it.                                                 *)
LEMMA FirstMessages ==
  ASSUME NEW r \in Runs, Here(r), pc[r] = "enter", file[r] \in Files,
         NEW t \in {"log", "file_error"}, NEW u,
         u = emitted[r] \o (FileStart(r) \o <<Msg(t)>>)
  PROVE  /\ u \in Seq(Messages)
         /\ kind[r] = "batch" => Grown(emitted[r], u, 0, 1, 0) /\ Nested(u)
         /\ kind[r] # "batch" => Grown(emitted[r], u, 0, 0, 0)
<1> USE DEF Here
<1>1. emitted[r] \in Seq(Messages)  BY DEF CommandTypeOK
<1>2. /\ Msg(t) \in Messages /\ Plain(Msg(t)) /\ Msg(t).type = t
      /\ Msg("file_start") \in Messages /\ Plain(Msg("file_start"))
      /\ Msg("file_start").type = "file_start"
  <2>1. /\ t \in EventTypes /\ t \notin {"error", "all_complete"}
        /\ "file_start" \in EventTypes /\ "file_start" \notin {"error", "all_complete"}
    BY DEF EventTypes
  <2> QED  BY <2>1, MessageFields
<1>3. CASE kind[r] = "batch"
  <2> HIDE DEF Msg
  <2> DEFINE v == Append(emitted[r], Msg("file_start"))
  <2>1. u = Append(v, Msg(t))
    <3>1. u = emitted[r] \o <<Msg("file_start"), Msg(t)>>  BY <1>2, <1>3, FileStartIs
    <3> QED  BY <1>1, <1>2, <3>1, ShortConcat
  <2>2. v \in Seq(Messages) /\ Grown(emitted[r], v, 0, 1, 0)
    BY <1>1, <1>2, GrownOne DEF One, Grown
  <2>3. /\ Total(v, "file_complete") = Total(emitted[r], "file_complete") + 0
        /\ Total(v, "file_start") = Total(emitted[r], "file_start") + 1
    BY <2>2 DEF Grown
  <2>4. Nested(v)
    <3>1. /\ Total(emitted[r], "file_complete") = file[r] - 1
          /\ Total(emitted[r], "file_start") = file[r] - 1
          /\ Nested(emitted[r])
      BY <1>3 DEF RunInv, ControlInv, FilesInv, Finished, FinalStatuses, SlotInv, StatusInv
    <3>2. file[r] \in Nat  BY CommandAssumption DEF Files
    <3>3. /\ Total(v, "file_complete") <= Total(v, "file_start")
          /\ Total(v, "file_start") <= Total(v, "file_complete") + 1
      BY <2>3, <3>1, <3>2
    <3> QED  BY <1>1, <1>2, <3>1, <3>3, NestedAppend
  <2> HIDE DEF v
  <2>5. Grown(emitted[r], u, 0, 1, 0) /\ Grown(v, u, 0, 0, 0)
    <3>1. /\ One(Msg(t).type = "test_complete") = 0 /\ One(Msg(t).type = "file_start") = 0
          /\ One(Msg(t).type = "file_complete") = 0
      BY <1>2 DEF One
    <3>2. Grown(emitted[r], u, 0 + 0, 1 + 0, 0 + 0)
      BY <1>1, <1>2, <2>1, <2>2, <3>1, GrownMore
    <3>3. Grown(v, u, 0, 0, 0)  BY <1>2, <2>1, <2>2, <3>1, GrownOne
    <3> QED  BY <3>2, <3>3
  <2> QED  BY <1>3, <2>4, <2>5 DEF Grown
<1>4. CASE kind[r] # "batch"
  <2>1. u = emitted[r] \o <<Msg(t)>>  BY <1>2, <1>4, FileStartIs
  <2>2. Grown(emitted[r], u, 0, 0, 0)
    BY <1>1, <2>1, GrownByOne DEF One, EventTypes
  <2> QED  BY <1>4, <2>2 DEF Grown
<1> QED  BY <1>3, <1>4

LEMMA OpenFileStep ==
  ASSUME NEW r \in Runs, Here(r), OpenFile(r)
  PROVE  There(r)
<1> USE DEF Here, OpenFile
<1> DEFINE m == FileStart(r) \o <<Msg("log")>>
           u == emitted[r] \o m
<1>1. file[r] \in Files  BY CommandAssumption DEF CommandTypeOK, Files
<1>2. m \in Seq(Messages)  BY FileStartIs, MessageFields DEF EventTypes
<1>3. /\ emitted' \in [Runs -> Seq(Messages)]
      /\ emitted'[r] = u
      /\ \A q \in Runs \ {r} : emitted'[q] = emitted[q]
  <2> HIDE DEF m
  <2> QED  BY <1>2, EmitTypes DEF m
<1>4. /\ u \in Seq(Messages)
      /\ kind[r] = "batch" => Grown(emitted[r], u, 0, 1, 0) /\ Nested(u)
      /\ kind[r] # "batch" => Grown(emitted[r], u, 0, 0, 0)
  <2>1. u = emitted[r] \o (FileStart(r) \o <<Msg("log")>>)  OBVIOUS
  <2> HIDE DEF u
  <2> QED  BY <1>1, <2>1, FirstMessages
<1> HIDE DEF m, u
<1>5. pc'[r] \in {"connect", "init"} /\ adhoc'[r] = "none" /\ test'[r] = 1
  BY DEF Goto, CommandTypeOK
<1>6. CommandsKept(r)
  <2>1. 1 \in 1..NumTests  BY CommandAssumption
  <2>2. /\ pc' \in [Runs -> Pcs] /\ \A q \in Runs \ {r} : pc'[q] = pc[q]
    BY DEF CommandTypeOK, Goto, Pcs
  <2> QED  BY <1>3, <2>1, <2>2 DEF CommandTypeOK, CommandsKept, ElsewhereInCommands
<1>7. Elsewhere(r)  BY OwnSlotMoves DEF SlotInv
<1>8. /\ status[r] = "running" /\ status' = status /\ slot' = slot
      /\ results'[r] = results[r] + 0 /\ results[r] <= results'[r]
  BY DEF slotVars, RunInv, ControlInv, SlotInv, StatusInv, CommandTypeOK
<1>9. RowInv(r)'  BY <1>5 DEF RunInv, RowInv, CurrentRecord
<1>10. CASE kind[r] = "batch"
  <2>1. Grown(emitted[r], emitted'[r], 0, 1, 0) /\ Nested(emitted'[r])
    BY <1>3, <1>4, <1>10
  <2>2. StreamInv(r)'  BY <1>5, <1>8, <2>1, StreamGoesOn DEF RunInv
  <2>3. FilesInv(r)'  BY <1>1, <1>5, <1>8, <1>10, <2>1, FileOpens
  <2> QED  BY <1>1, <1>5, <1>6, <1>7, <1>8, <1>9, <2>2, <2>3, MidStep
<1>11. CASE kind[r] # "batch"
  <2>1. Grown(emitted[r], emitted'[r], 0, 0, 0)  BY <1>3, <1>4, <1>11
  <2>2. StreamInv(r)'  BY <1>5, <1>8, <2>1, StreamGoesOn DEF RunInv
  <2>3. FilesInv(r)'  BY <1>8, <1>11, FilesOfSingle
  <2> QED  BY <1>1, <1>5, <1>6, <1>7, <1>8, <1>9, <2>2, <2>3, MidStep
<1> QED  BY <1>10, <1>11

LEMMA UnusableFileStep ==
  ASSUME NEW r \in Runs, Here(r), UnusableFile(r)
  PROVE  There(r)
<1> USE DEF Here, UnusableFile
<1>1. file[r] \in Files  BY CommandAssumption DEF CommandTypeOK, Files
<1>2. cancel[r] = "no" /\ adhoc'[r] # "open" /\ adhoc' \in [Runs -> {"none", "open", "closed"}]
  BY DEF RunInv, ControlInv, CommandTypeOK
<1>3. CASE kind[r] = "batch"
  <2>1. PICK t \in {"log", "file_error"} : ReturnFromFile(r, FileStart(r) \o <<Msg(t)>>)
    BY <1>3, RunErrorIs
  <2> DEFINE m == FileStart(r) \o <<Msg(t)>>
             u == emitted[r] \o m
  <2>2. m \in Seq(Messages)  BY FileStartIs, MessageFields DEF EventTypes
  <2>3. Grown(emitted[r], u, 0, 1, 0) /\ Nested(u)
    <3>1. u = emitted[r] \o (FileStart(r) \o <<Msg(t)>>)  OBVIOUS
    <3> HIDE DEF u
    <3> QED  BY <1>1, <1>3, <3>1, FirstMessages
  <2>4. ReturnFromFile(r, m)  BY <2>1
  <2> HIDE DEF m
  <2> QED  BY <1>1, <1>2, <1>3, <2>2, <2>3, <2>4, ReturnInBatch
<1>4. CASE kind[r] # "batch"
  <2>1. FileStart(r) \o <<RunError(r)>> = <<RunError(r)>>
    BY <1>4, RunErrorIsMessage, FileStartIs
  <2>2. ReturnFromFile(r, <<RunError(r)>>)  BY <1>4, <2>1
  <2> QED  BY <1>1, <1>2, <1>4, <2>2, ReturnFromSingle
<1> QED  BY <1>3, <1>4

(* Between the awaits of a file: where the run is, and what its stream and *)
(* its files say when nothing, a plain message or an error is published.   *)
LEMMA InFile ==
  ASSUME NEW r \in Runs, Here(r), pc[r] \notin {"idle", "enter"}
  PROVE  /\ slot[r] = "holding" /\ status[r] = "running" /\ file[r] \in Files
         /\ emitted[r] \in Seq(Messages) /\ results[r] \in Nat
         /\ kind[r] \in {"single", "batch"}
BY DEF Here, RunInv, ControlInv, SlotInv, StatusInv, CommandTypeOK

LEMMA NothingInFile ==
  ASSUME NEW r \in Runs, Here(r), pc[r] \notin {"idle", "enter"}, pc'[r] \notin {"idle", "enter"},
         UNCHANGED <<status, kind, file, results, emitted>>,
         kind[r] = "single" /\ pc'[r] \in {"cleanup", "close"}
           => cancel'[r] # "no" \/ Ended(emitted[r])
  PROVE  StreamInv(r)' /\ FilesInv(r)'
<1>1. /\ status[r] = "running" /\ emitted[r] \in Seq(Messages) /\ results'[r] = results[r] + 0
      /\ CommandTypeOK /\ StreamInv(r) /\ FilesInv(r)
  BY InFile DEF Here, RunInv
<1>2. Grown(emitted[r], emitted'[r], 0, 0, 0)  BY <1>1, GrownByNothing
<1> QED  BY <1>1, <1>2, StreamGoesOn, FilesGoOn

LEMMA ErrorInFile ==
  ASSUME NEW r \in Runs, Here(r), pc[r] \notin {"idle", "enter"}, pc'[r] = "cleanup",
         Emit(r, <<RunError(r)>>), UNCHANGED <<status, kind, file, results>>
  PROVE  /\ StreamInv(r)' /\ FilesInv(r)'
         /\ emitted' \in [Runs -> Seq(Messages)]
         /\ \A q \in Runs \ {r} : emitted'[q] = emitted[q]
<1>1. /\ status[r] = "running" /\ emitted[r] \in Seq(Messages) /\ results'[r] = results[r] + 0
      /\ CommandTypeOK /\ StreamInv(r) /\ FilesInv(r)
      /\ status'[r] \in Statuses \ {"none"}
  BY InFile DEF Here, RunInv, Statuses
<1>2. /\ emitted' \in [Runs -> Seq(Messages)]
      /\ emitted'[r] = emitted[r] \o <<RunError(r)>>
      /\ \A q \in Runs \ {r} : emitted'[q] = emitted[q]
  BY <1>1, RunErrorIsMessage, MessageSequences, EmitTypes
<1>3. CASE kind[r] = "batch"
  <2>1. Grown(emitted[r], emitted'[r], 0, 0, 0)
    BY <1>1, <1>2, <1>3, RunErrorIs, GrownByOne DEF One, EventTypes
  <2> QED  BY <1>1, <1>2, <1>3, <2>1, StreamGoesOn, FilesGoOn
<1>4. CASE kind[r] # "batch"
  <2>1. /\ Msg("error") \in Messages /\ Ends(Msg("error")) /\ Msg("error").type = "error"
        /\ Msg("error").status = ""
    BY MessageFields DEF EventTypes
  <2>2. emitted'[r] = emitted[r] \o <<Msg("error")>>  BY <1>2, <1>4, RunErrorIs
  <2> HIDE DEF Msg
  <2>3. emitted'[r] = Append(emitted[r], Msg("error"))  BY <1>1, <2>1, <2>2, ShortConcat
  <2>4. Grown(emitted[r], emitted[r], 0, 0, 0)  BY <1>1, GrownByNothing
  <2>5. StreamInv(r)'  BY <1>1, <1>4, <2>1, <2>3, <2>4, StreamEnds
  <2> QED  BY <1>1, <1>2, <1>4, <2>5, FilesOfSingle
<1> QED  BY <1>3, <1>4

(* The row of the current file while its tests run, and once they do not.  *)
LEMMA RowOpen ==
  ASSUME NEW r \in Runs, Here(r), file[r] \in Files, NEW rec,
         record'[r][file[r]] = rec, \A f \in Files \ {file[r]} : record'[r][f] = record[r][f],
         pc'[r] = "test", file'[r] = file[r],
         rec.broken \/ Writable(rec), rec.row # "completed",
         Writable(rec) => rec.saved = test'[r] - 1
  PROVE  RowInv(r)'
BY DEF Here, RunInv, RowInv, CurrentRecord

LEMMA RowClosed ==
  ASSUME NEW r \in Runs, Here(r), file[r] \in Files, NEW rec,
         record'[r][file[r]] = rec, \A f \in Files \ {file[r]} : record'[r][f] = record[r][f],
         pc'[r] # "test", rec.broken \/ rec.row # "running",
         rec.row = "completed" => rec.saved = NumTests
  PROVE  RowInv(r)'
BY DEF Here, RunInv, RowInv

LEMMA RowUntouched ==
  ASSUME NEW r \in Runs, Here(r), record'[r] = record[r], pc[r] # "test", pc'[r] # "test"
  PROVE  RowInv(r)'
BY DEF Here, RunInv, RowInv

LEMMA ConnectedStep ==
  ASSUME NEW r \in Runs, Here(r), Connected(r)
  PROVE  There(r)
<1> USE DEF Here, Connected
<1>1. pc[r] = "connect" /\ pc'[r] = "init" /\ UNCHANGED <<status, slot>>
  BY DEF Goto, CommandTypeOK, slotVars
<1>2. CommandsKept(r)
  BY DEF CommandTypeOK, CommandsKept, ElsewhereInCommands, Goto, Pcs
<1>3. Elsewhere(r)  BY OwnSlotMoves DEF SlotInv
<1>4. StreamInv(r)' /\ FilesInv(r)'  BY <1>1, NothingInFile
<1>5. RowInv(r)'  BY <1>1, RowUntouched
<1>6. results[r] <= results'[r] /\ test'[r] = 1  BY DEF CommandTypeOK, RunInv, ControlInv
<1> QED  BY <1>1, <1>2, <1>3, <1>4, <1>5, <1>6, InFile, MidStep

LEMMA ConnectFailedStep ==
  ASSUME NEW r \in Runs, Here(r), ConnectFailed(r)
  PROVE  There(r)
<1> USE DEF Here, ConnectFailed
<1>1. /\ pc[r] = "connect" /\ file[r] \in Files /\ emitted[r] \in Seq(Messages)
      /\ adhoc'[r] # "open" /\ adhoc' \in [Runs -> {"none", "open", "closed"}]
  BY InFile DEF RunInv, ControlInv, CommandTypeOK
<1>2. CASE kind[r] = "batch"
  <2> DEFINE m == <<Msg("file_error")>>
             u == emitted[r] \o m
  <2>1. ReturnFromFile(r, m)  BY <1>2, RunErrorIs
  <2>2. m \in Seq(Messages)  BY MessageFields, MessageSequences DEF EventTypes
  <2>3. Grown(emitted[r], u, 0, 0, 0)  BY <1>1, GrownByOne DEF One, EventTypes
  <2> HIDE DEF m
  <2>4. Nested(u)  BY <1>2, <2>3 DEF Grown, RunInv, FilesInv
  <2> QED  BY <1>1, <1>2, <2>1, <2>2, <2>3, <2>4, ReturnInBatch
<1>3. CASE kind[r] # "batch"
  BY <1>1, <1>3, ReturnFromSingle
<1> QED  BY <1>2, <1>3

LEMMA ConnectCancelledStep ==
  ASSUME NEW r \in Runs, Here(r), ConnectCancelled(r)
  PROVE  There(r)
BY UnwindStep DEF Here, ConnectCancelled, CommandTypeOK

LEMMA InitializedStep ==
  ASSUME NEW r \in Runs, Here(r), Initialized(r)
  PROVE  There(r)
<1> USE DEF Here, Initialized
<1>1. PICK ok \in DbOutcomes : SetRecord(r, Begin(NewRecord, ok))
  OBVIOUS
<1> DEFINE rec == Begin(NewRecord, ok)
<1>2. ok \in BOOLEAN  BY OutcomesAreBoolean
<1>3. /\ rec \in Records /\ rec.row \in {"none", "running"}
      /\ rec.broken \/ Writable(rec)
      /\ rec.saved = 0
  BY <1>2, BegunRecord
<1> HIDE DEF rec
<1>4. /\ pc[r] = "init" /\ pc'[r] = "test" /\ UNCHANGED <<status, slot>>
      /\ file[r] \in Files /\ emitted[r] \in Seq(Messages) /\ status[r] = "running"
      /\ results'[r] = results[r] + 0 /\ results[r] <= results'[r]
  <2>1. /\ file[r] \in Files /\ emitted[r] \in Seq(Messages) /\ status[r] = "running"
        /\ results[r] \in Nat
    BY InFile
  <2>2. pc[r] = "init" /\ pc'[r] = "test" /\ UNCHANGED <<status, slot, results>>
    BY DEF Goto, CommandTypeOK, slotVars
  <2> QED  BY <2>1, <2>2
<1>5. /\ record' \in [Runs -> [Files -> Records]]
      /\ record'[r][file[r]] = rec
      /\ \A f \in Files \ {file[r]} : record'[r][f] = record[r][f]
      /\ \A q \in Runs \ {r} : record'[q] = record[q]
  BY <1>1, <1>3, <1>4, SetRecordTypes DEF rec
<1>6. /\ emitted' \in [Runs -> Seq(Messages)]
      /\ emitted'[r] = emitted[r] \o <<Msg("test_start")>>
      /\ \A q \in Runs \ {r} : emitted'[q] = emitted[q]
  BY MessageFields, MessageSequences, EmitTypes DEF EventTypes
<1>7. CommandsKept(r)
  BY <1>5, <1>6 DEF CommandTypeOK, CommandsKept, ElsewhereInCommands, Goto, Pcs
<1>8. Elsewhere(r)  BY OwnSlotMoves DEF SlotInv
<1>9. Grown(emitted[r], emitted'[r], 0, 0, 0)
  BY <1>4, <1>6, GrownByOne DEF One, EventTypes
<1>10. StreamInv(r)' /\ FilesInv(r)'
  BY <1>4, <1>9, StreamGoesOn, FilesGoOn DEF RunInv
<1>11. test'[r] = 1  BY DEF RunInv, ControlInv
<1>12. RowInv(r)'
  BY <1>3, <1>4, <1>5, <1>11, RowOpen
<1> QED  BY <1>4, <1>7, <1>8, <1>10, <1>12, MidStep

LEMMA InitFailedStep ==
  ASSUME NEW r \in Runs, Here(r), InitFailed(r)
  PROVE  There(r)
<1> USE DEF Here, InitFailed
<1>1. /\ file[r] \in Files /\ results[r] \in Nat  BY InFile
<1>2. pc[r] = "init" /\ pc'[r] = "cleanup" /\ UNCHANGED <<status, slot>>
  BY DEF Goto, CommandTypeOK, slotVars
<1>3. /\ StreamInv(r)' /\ FilesInv(r)'
      /\ emitted' \in [Runs -> Seq(Messages)]
      /\ \A q \in Runs \ {r} : emitted'[q] = emitted[q]
  BY <1>2, ErrorInFile
<1>4. CommandsKept(r)
  BY <1>3 DEF CommandTypeOK, CommandsKept, ElsewhereInCommands, Goto, Pcs
<1>5. Elsewhere(r)  BY OwnSlotMoves DEF SlotInv
<1>6. RowInv(r)'  BY <1>2, RowUntouched
<1>7. results[r] <= results'[r]  BY <1>1
<1> QED  BY <1>1, <1>2, <1>3, <1>4, <1>5, <1>6, <1>7, MidStep

LEMMA InitCancelledStep ==
  ASSUME NEW r \in Runs, Here(r), InitCancelled(r)
  PROVE  There(r)
<1> USE DEF Here, InitCancelled
<1>1. /\ file[r] \in Files /\ results[r] \in Nat  BY InFile
<1>2. /\ pc[r] = "init" /\ pc'[r] = "cleanup" /\ UNCHANGED <<status, slot>>
      /\ cancel'[r] = "delivered"
  BY DEF Goto, CommandTypeOK, SlotInv, SlotTypeOK, DeliverCancel
<1>3. /\ StreamInv(r)' /\ FilesInv(r)'  BY <1>2, NothingInFile
<1>4. CommandsKept(r)
  BY DEF CommandTypeOK, CommandsKept, ElsewhereInCommands, Goto, Pcs
<1>5. Elsewhere(r)  BY OwnSlotMoves DEF SlotInv
<1>6. RowInv(r)'  BY <1>2, RowUntouched
<1>7. results[r] <= results'[r]  BY <1>1
<1> QED  BY <1>1, <1>2, <1>3, <1>4, <1>5, <1>6, <1>7, MidStep

(* The result of a test, streamed. *)
LEMMA TestCompletes ==
  ASSUME NEW s \in Seq(Messages)
  PROVE  LET u == Append(Append(s, Msg("log")), Msg("test_complete"))
         IN  /\ Grown(s, u, 1, 0, 0)
             /\ Grown(s, Append(u, Msg("test_start")), 1, 0, 0)
             /\ s \o <<Msg("log"), Msg("test_complete")>> = u
             /\ s \o <<Msg("log"), Msg("test_complete"), Msg("test_start")>>
                  = Append(u, Msg("test_start"))
<1>1. /\ Msg("log") \in Messages /\ Plain(Msg("log")) /\ Msg("log").type = "log"
      /\ Msg("test_complete") \in Messages /\ Plain(Msg("test_complete"))
      /\ Msg("test_complete").type = "test_complete"
      /\ Msg("test_start") \in Messages /\ Plain(Msg("test_start"))
      /\ Msg("test_start").type = "test_start"
  BY MessageFields DEF EventTypes
<1> HIDE DEF Msg
<1>2. Grown(s, Append(s, Msg("log")), 0, 0, 0)
  BY <1>1, GrownOne DEF One
<1>3. Grown(s, Append(Append(s, Msg("log")), Msg("test_complete")), 0 + 1, 0 + 0, 0 + 0)
  <2> DEFINE a == Msg("test_complete")
  <2>1. /\ One(a.type = "test_complete") = 1 /\ One(a.type = "file_start") = 0
        /\ One(a.type = "file_complete") = 0
    BY <1>1 DEF One
  <2>2. Plain(a)  BY <1>1
  <2> HIDE DEF a
  <2>3. Grown(s, Append(Append(s, Msg("log")), a), 0 + 1, 0 + 0, 0 + 0)
    BY <1>2, <2>1, <2>2, GrownMore
  <2> QED  BY <2>3 DEF a
<1> DEFINE u == Append(Append(s, Msg("log")), Msg("test_complete"))
<1>4. Grown(s, u, 1, 0, 0)  BY <1>3
<1> HIDE DEF u
<1>5. Grown(s, Append(u, Msg("test_start")), 1 + 0, 0 + 0, 0 + 0)
  <2> DEFINE a == Msg("test_start")
  <2>1. /\ One(a.type = "test_complete") = 0 /\ One(a.type = "file_start") = 0
        /\ One(a.type = "file_complete") = 0
    BY <1>1 DEF One
  <2>2. Plain(a)  BY <1>1
  <2> HIDE DEF a
  <2>3. Grown(s, Append(u, a), 1 + 0, 0 + 0, 0 + 0)
    BY <1>4, <2>1, <2>2, GrownMore
  <2> QED  BY <2>3 DEF a
<1>6. /\ s \o <<Msg("log"), Msg("test_complete")>> = u
      /\ s \o <<Msg("log"), Msg("test_complete"), Msg("test_start")>>
           = Append(u, Msg("test_start"))
  BY <1>1, ShortConcat DEF u
<1> QED  BY <1>4, <1>5, <1>6 DEF u

LEMMA NextTestStep ==
  ASSUME NEW r \in Runs, Here(r), NextTest(r)
  PROVE  There(r)
<1> USE DEF Here, NextTest
<1>1. PICK ok \in DbOutcomes : SetRecord(r, AppendResult(CurrentRecord(r), ok))
  OBVIOUS
<1> DEFINE cur == CurrentRecord(r)
           rec == AppendResult(cur, ok)
<1>2. /\ file[r] \in Files /\ emitted[r] \in Seq(Messages) /\ status[r] = "running"
      /\ results[r] \in Nat
  BY InFile
<1>3. /\ pc[r] = "test" /\ pc'[r] = "test" /\ UNCHANGED <<status, slot>>
      /\ results'[r] = results[r] + 1 /\ test'[r] = test[r] + 1
      /\ test[r] \in Nat /\ test[r] + 1 \in 1..NumTests
  BY CommandAssumption DEF CommandTypeOK, slotVars
<1>4. /\ cur \in Records /\ (cur.broken \/ Writable(cur)) /\ cur.row # "completed"
      /\ Writable(cur) => cur.saved = test[r] - 1
  BY <1>2, <1>3 DEF CommandTypeOK, CurrentRecord, RunInv, RowInv
<1>5. ok \in BOOLEAN  BY OutcomesAreBoolean
<1> HIDE DEF cur
<1>6. /\ rec \in Records /\ (rec.broken \/ Writable(rec))
      /\ rec.row # "completed"
      /\ Writable(rec) => rec.saved = test[r]
  <2>1. /\ rec \in Records /\ rec.row = cur.row /\ (rec.broken \/ Writable(rec))
        /\ Writable(rec) => Writable(cur) /\ rec.saved = cur.saved + 1
    BY <1>4, <1>5, AppendedRecord
  <2> HIDE DEF rec
  <2> QED  BY <1>3, <1>4, <2>1
<1>7. /\ record' \in [Runs -> [Files -> Records]]
      /\ record'[r][file[r]] = rec
      /\ \A f \in Files \ {file[r]} : record'[r][f] = record[r][f]
      /\ \A q \in Runs \ {r} : record'[q] = record[q]
  BY <1>1, <1>2, <1>6, SetRecordTypes DEF cur
<1> HIDE DEF rec
<1>8. /\ emitted' \in [Runs -> Seq(Messages)]
      /\ emitted'[r] = emitted[r] \o <<Msg("log"), Msg("test_complete"), Msg("test_start")>>
      /\ \A q \in Runs \ {r} : emitted'[q] = emitted[q]
  BY MessageFields, MessageSequences, EmitTypes DEF EventTypes
<1>9. Grown(emitted[r], emitted'[r], 1, 0, 0)  BY <1>2, <1>8, TestCompletes
<1>10. CommandsKept(r)
  <2>1. /\ results' \in [Runs -> Nat] /\ test' \in [Runs -> 1..NumTests]
        /\ \A q \in Runs \ {r} : results'[q] = results[q] /\ test'[q] = test[q]
    BY <1>3 DEF CommandTypeOK
  <2> QED  BY <1>7, <1>8, <2>1 DEF CommandTypeOK, CommandsKept, ElsewhereInCommands
<1>11. Elsewhere(r)  BY OwnSlotMoves DEF SlotInv
<1>12. StreamInv(r)' /\ FilesInv(r)'
  BY <1>2, <1>3, <1>9, StreamGoesOn, FilesGoOn DEF RunInv
<1>13. RowInv(r)'
  <2>1. test'[r] - 1 = test[r]  BY <1>3
  <2> QED  BY <1>2, <1>3, <1>6, <1>7, <2>1, RowOpen
<1>14. results[r] <= results'[r]  BY <1>2, <1>3
<1> QED  BY <1>2, <1>3, <1>10, <1>11, <1>12, <1>13, <1>14, MidStep

LEMMA LastTestStep ==
  ASSUME NEW r \in Runs, Here(r), LastTest(r)
  PROVE  There(r)
<1> USE DEF Here, LastTest
<1> DEFINE cur == CurrentRecord(r)
<1>1. PICK ok1 \in DbOutcomes, ok2 \in DbOutcomes :
        SetRecord(r, Finish(AppendResult(cur, ok1), "completed", ok2))
  OBVIOUS
<1> DEFINE rec1 == AppendResult(cur, ok1)
           rec2 == Finish(rec1, "completed", ok2)
<1>2. /\ file[r] \in Files /\ emitted[r] \in Seq(Messages) /\ status[r] = "running"
      /\ results[r] \in Nat
  BY InFile
<1>3. /\ pc[r] = "test" /\ pc'[r] = "cleanup" /\ UNCHANGED <<status, slot>>
      /\ results'[r] = results[r] + 1 /\ test[r] = NumTests
  BY DEF CommandTypeOK, slotVars, Goto
<1>4. /\ cur \in Records /\ (cur.broken \/ Writable(cur)) /\ cur.row # "completed"
      /\ Writable(cur) => cur.saved = NumTests - 1
  BY <1>2, <1>3 DEF CommandTypeOK, CurrentRecord, RunInv, RowInv
<1>5. ok1 \in BOOLEAN /\ ok2 \in BOOLEAN  BY OutcomesAreBoolean
<1> HIDE DEF cur
<1>6. /\ rec1 \in Records /\ (rec1.broken \/ Writable(rec1))
      /\ rec1.row # "completed"
      /\ Writable(rec1) => rec1.saved = NumTests
  <2>1. /\ rec1 \in Records /\ rec1.row = cur.row /\ (rec1.broken \/ Writable(rec1))
        /\ Writable(rec1) => Writable(cur) /\ rec1.saved = cur.saved + 1
    BY <1>4, <1>5, AppendedRecord
  <2> HIDE DEF rec1
  <2> QED  BY <1>4, <2>1, CommandAssumption
<1> HIDE DEF rec1
<1>7. /\ rec2 \in Records /\ (rec2.broken \/ rec2.row = "completed")
      /\ rec2.row = "completed" => rec2.saved = NumTests
  <2>1. /\ rec2 \in Records /\ (rec2.broken \/ rec2.row = "completed")
        /\ rec2.saved = rec1.saved
        /\ rec2.row # rec1.row => Writable(rec1)
    BY <1>5, <1>6, FinishedRecord
  <2> HIDE DEF rec2
  <2> QED  BY <1>6, <2>1
<1>8. /\ record' \in [Runs -> [Files -> Records]]
      /\ record'[r][file[r]] = rec2
      /\ \A f \in Files \ {file[r]} : record'[r][f] = record[r][f]
      /\ \A q \in Runs \ {r} : record'[q] = record[q]
  BY <1>1, <1>2, <1>7, SetRecordTypes DEF rec1
<1> HIDE DEF rec2
<1> DEFINE a == AllComplete("completed", results[r] + 1)
           u == Append(Append(emitted[r], Msg("log")), Msg("test_complete"))
<1>9. /\ a \in Messages /\ Ends(a) /\ a.type = "all_complete" /\ a.status = "completed"
      /\ a.n = results'[r]
  <2>1. results[r] + 1 \in Nat  BY <1>2
  <2> QED  BY <1>3, <2>1, MessageFields
<1> HIDE DEF a
<1>10. Grown(emitted[r], u, 1, 0, 0)  BY <1>2, TestCompletes
<1>11. emitted[r] \o <<Msg("log"), Msg("test_complete")>> = u
  BY <1>2, TestCompletes
<1>12. /\ emitted' \in [Runs -> Seq(Messages)]
       /\ \A q \in Runs \ {r} : emitted'[q] = emitted[q]
       /\ kind[r] = "single" => emitted'[r] = Append(u, a)
       /\ kind[r] # "single" => emitted'[r] = u
  <2>1. Msg("log") \in Messages /\ Msg("test_complete") \in Messages
    BY MessageFields DEF EventTypes
  <2> HIDE DEF Msg
  <2>2. CASE kind[r] = "single"
    <3>1. <<Msg("log"), Msg("test_complete")>> \o <<a>> = <<Msg("log"), Msg("test_complete"), a>>
      BY <1>9, <2>1, MessageSequences
    <3>2. Emit(r, <<Msg("log"), Msg("test_complete"), a>>)  BY <2>2, <3>1 DEF a
    <3>3. <<Msg("log"), Msg("test_complete"), a>> \in Seq(Messages)
      BY <1>9, <2>1, MessageSequences
    <3>4. emitted[r] \o <<Msg("log"), Msg("test_complete"), a>> = Append(u, a)
      BY <1>2, <1>9, <2>1, ShortConcat
    <3> QED  BY <2>2, <3>2, <3>3, <3>4, EmitTypes
  <2>3. CASE kind[r] # "single"
    <3>1. <<Msg("log"), Msg("test_complete")>> \o <<>> = <<Msg("log"), Msg("test_complete")>>
      BY <2>1, MessageSequences
    <3>2. Emit(r, <<Msg("log"), Msg("test_complete")>>)  BY <2>3, <3>1
    <3>3. <<Msg("log"), Msg("test_complete")>> \in Seq(Messages)
      BY <2>1, MessageSequences
    <3> QED  BY <1>11, <2>3, <3>2, <3>3, EmitTypes
  <2> QED  BY <2>2, <2>3
<1> HIDE DEF u
<1>13. CommandsKept(r)
  <2>1. /\ results' \in [Runs -> Nat] /\ pc' \in [Runs -> Pcs]
        /\ \A q \in Runs \ {r} : results'[q] = results[q] /\ pc'[q] = pc[q]
    BY DEF CommandTypeOK, Goto, Pcs
  <2> QED  BY <1>8, <1>12, <2>1 DEF CommandTypeOK, CommandsKept, ElsewhereInCommands
<1>14. Elsewhere(r)  BY OwnSlotMoves DEF SlotInv
<1>15. RowInv(r)'  BY <1>2, <1>3, <1>7, <1>8, RowClosed
<1>16. results[r] <= results'[r] /\ status'[r] \in Statuses \ {"none"}
  BY <1>2, <1>3 DEF Statuses
<1>17. CASE kind[r] = "single"
  <2>1. StreamInv(r)'
    BY <1>2, <1>3, <1>9, <1>10, <1>12, <1>16, <1>17, StreamEnds DEF RunInv
  <2>2. FilesInv(r)'  BY <1>2, <1>3, <1>17, FilesOfSingle
  <2> QED  BY <1>2, <1>3, <1>13, <1>14, <1>15, <1>16, <2>1, <2>2, MidStep
<1>18. CASE kind[r] # "single"
  <2>1. Grown(emitted[r], emitted'[r], 1, 0, 0)  BY <1>10, <1>12, <1>18
  <2>2. StreamInv(r)' /\ FilesInv(r)'
    BY <1>2, <1>3, <1>18, <2>1, StreamGoesOn, FilesGoOn DEF RunInv
  <2> QED  BY <1>2, <1>3, <1>13, <1>14, <1>15, <1>16, <2>2, MidStep
<1> QED  BY <1>17, <1>18

(* The tests of a file are over, by an exception or by a stop: the row is  *)
(* finished with status s.                                                 *)
LEMMA FinishRow ==
  ASSUME NEW r \in Runs, Here(r), pc[r] = "test", pc'[r] # "test",
         NEW s \in {"error", "stopped"},
         \E ok \in DbOutcomes : SetRecord(r, Finish(CurrentRecord(r), s, ok))
  PROVE  /\ RowInv(r)'
         /\ record' \in [Runs -> [Files -> Records]]
         /\ \A q \in Runs \ {r} : record'[q] = record[q]
<1> USE DEF Here
<1> DEFINE cur == CurrentRecord(r)
<1>1. PICK ok \in DbOutcomes : SetRecord(r, Finish(cur, s, ok))
  OBVIOUS
<1> DEFINE rec == Finish(cur, s, ok)
<1>2. file[r] \in Files  BY InFile
<1>3. cur \in Records /\ (cur.broken \/ Writable(cur)) /\ cur.row # "completed"
  BY <1>2 DEF CommandTypeOK, CurrentRecord, RunInv, RowInv
<1>4. ok \in BOOLEAN  BY OutcomesAreBoolean
<1> HIDE DEF cur
<1>5. /\ rec \in Records /\ (rec.broken \/ rec.row = s) /\ rec.row \in {cur.row, s}
  BY <1>3, <1>4, FinishedRecord
<1>6. /\ record' \in [Runs -> [Files -> Records]]
      /\ record'[r][file[r]] = rec
      /\ \A f \in Files \ {file[r]} : record'[r][f] = record[r][f]
      /\ \A q \in Runs \ {r} : record'[q] = record[q]
  BY <1>1, <1>2, <1>5, SetRecordTypes
<1> HIDE DEF rec
<1>7. rec.row # "completed" /\ (rec.broken \/ rec.row # "running")
  BY <1>3, <1>5
<1> QED  BY <1>2, <1>6, <1>7, RowClosed

LEMMA TestRaisedStep ==
  ASSUME NEW r \in Runs, Here(r), TestRaised(r)
  PROVE  There(r)
<1> USE DEF Here, TestRaised
<1>1. /\ file[r] \in Files /\ results[r] \in Nat  BY InFile
<1>2. pc[r] = "test" /\ pc'[r] = "cleanup" /\ UNCHANGED <<status, slot>>
  BY DEF Goto, CommandTypeOK, slotVars
<1>3. /\ StreamInv(r)' /\ FilesInv(r)'
      /\ emitted' \in [Runs -> Seq(Messages)]
      /\ \A q \in Runs \ {r} : emitted'[q] = emitted[q]
  BY <1>2, ErrorInFile
<1>4. /\ RowInv(r)'
      /\ record' \in [Runs -> [Files -> Records]]
      /\ \A q \in Runs \ {r} : record'[q] = record[q]
  BY <1>2, FinishRow
<1>5. CommandsKept(r)
  BY <1>3, <1>4 DEF CommandTypeOK, CommandsKept, ElsewhereInCommands, Goto, Pcs
<1>6. Elsewhere(r)  BY OwnSlotMoves DEF SlotInv
<1>7. results[r] <= results'[r]  BY <1>1
<1> QED  BY <1>1, <1>2, <1>3, <1>4, <1>5, <1>6, <1>7, MidStep

LEMMA TestCancelledStep ==
  ASSUME NEW r \in Runs, Here(r), TestCancelled(r)
  PROVE  There(r)
<1> USE DEF Here, TestCancelled
<1>1. /\ file[r] \in Files /\ results[r] \in Nat  BY InFile
<1>2. /\ pc[r] = "test" /\ pc'[r] = "cleanup" /\ UNCHANGED <<status, slot>>
      /\ cancel'[r] = "delivered"
  BY DEF Goto, CommandTypeOK, SlotInv, SlotTypeOK, DeliverCancel
<1>3. /\ StreamInv(r)' /\ FilesInv(r)'  BY <1>2, NothingInFile
<1>4. /\ RowInv(r)'
      /\ record' \in [Runs -> [Files -> Records]]
      /\ \A q \in Runs \ {r} : record'[q] = record[q]
  BY <1>2, FinishRow
<1>5. CommandsKept(r)
  BY <1>4 DEF CommandTypeOK, CommandsKept, ElsewhereInCommands, Goto, Pcs
<1>6. Elsewhere(r)  BY OwnSlotMoves DEF SlotInv
<1>7. results[r] <= results'[r]  BY <1>1
<1> QED  BY <1>1, <1>2, <1>3, <1>4, <1>5, <1>6, <1>7, MidStep

(* The end of the finally block. *)
LEMMA EndFileStep ==
  ASSUME NEW r \in Runs, Here(r), EndFile(r), pc[r] \in {"cleanup", "close"},
         cancel[r] # "pending",
         UNCHANGED <<kind, test, record, results, stops>>,
         adhoc' \in [Runs -> {"none", "open", "closed"}], adhoc'[r] # "open",
         \A q \in Runs \ {r} : adhoc'[q] = adhoc[q]
  PROVE  There(r)
<1>1. CASE cancel[r] = "delivered"
  <2>1. Unwind(r)  BY <1>1 DEF EndFile
  <2> QED  BY <2>1, UnwindStep
<1>2. CASE cancel[r] # "delivered"
  <2>1. ReturnFromFile(r, <<>>)  BY <1>2 DEF EndFile
  <2>2. cancel[r] = "no"  BY <1>2 DEF Here, SlotInv, SlotTypeOK, Cancels
  <2>3. file[r] \in Files /\ emitted[r] \in Seq(Messages)  BY InFile DEF Here
  <2>4. CASE kind[r] = "batch"
    <3> DEFINE m == <<>>
    <3>1. m \in Seq(Messages) /\ emitted[r] \o m = emitted[r]
      BY <2>3, ConcatEmptySeq, MessageSequences
    <3>2. ReturnFromFile(r, m)  BY <2>1
    <3> HIDE DEF m
    <3>3. Grown(emitted[r], emitted[r] \o m, 0, 0, 0)  BY <2>3, <3>1, GrownByNothing
    <3>4. Nested(emitted[r] \o m)  BY <2>4, <3>1 DEF Here, RunInv, FilesInv
    <3>5. pc[r] \notin {"idle", "test"} /\ pc[r] # "enter"  OBVIOUS
    <3>6. 0 \in {0, 1} /\ (0 = 1 <=> pc[r] = "enter")  BY <3>5
    <3> QED
      BY <2>2, <2>3, <2>4, <3>1, <3>2, <3>3, <3>4, <3>5, <3>6, ReturnInBatch, Zenon
  <2>5. CASE kind[r] # "batch"
    <3>1. Ended(emitted[r])  BY <2>2, <2>5 DEF Here, RunInv, StreamInv, CommandTypeOK
    <3> QED  BY <2>1, <2>3, <2>5, <3>1, ReturnFromSingle
  <2> QED  BY <2>4, <2>5
<1> QED  BY <1>1, <1>2

LEMMA CleanedUpStep ==
  ASSUME NEW r \in Runs, Here(r), CleanedUp(r)
  PROVE  There(r)
<1> USE DEF Here, CleanedUp
<1>1. adhoc' \in [Runs -> {"none", "open", "closed"}]  BY DEF CommandTypeOK
<1>2. CASE adhoc[r] = "open"
  <2>1. Goto(r, "close") /\ UNCHANGED <<slotVars, file, preResults, aggregated, emitted>>
    BY <1>2
  <2>2. /\ file[r] \in Files /\ results[r] \in Nat  BY InFile
  <2>3. /\ pc[r] = "cleanup" /\ pc'[r] = "close" /\ UNCHANGED <<status, slot, cancel>>
    BY <2>1 DEF Goto, CommandTypeOK, slotVars
  <2>4. kind[r] = "single" => cancel'[r] # "no" \/ Ended(emitted[r])
    BY <2>3 DEF RunInv, StreamInv
  <2>5. /\ StreamInv(r)' /\ FilesInv(r)'  BY <2>1, <2>3, <2>4, NothingInFile
  <2>6. CommandsKept(r)
    BY <2>1 DEF CommandTypeOK, CommandsKept, ElsewhereInCommands, Goto, Pcs
  <2>7. Elsewhere(r)  BY <2>1, OwnSlotMoves DEF SlotInv
  <2>8. RowInv(r)'  BY <2>3, RowUntouched
  <2>9. results[r] <= results'[r]  BY <2>2
  <2> QED  BY <2>1, <2>2, <2>3, <2>5, <2>6, <2>7, <2>8, <2>9, MidStep
<1>3. CASE adhoc[r] # "open"
  BY <1>1, <1>3, EndFileStep
<1> QED  BY <1>2, <1>3

LEMMA ClosedStep ==
  ASSUME NEW r \in Runs, Here(r), Closed(r)
  PROVE  There(r)
<1> USE DEF Here, Closed
<1>1. /\ adhoc' \in [Runs -> {"none", "open", "closed"}] /\ adhoc'[r] # "open"
      /\ \A q \in Runs \ {r} : adhoc'[q] = adhoc[q]
  BY DEF CommandTypeOK
<1> QED  BY <1>1, EndFileStep

LEMMA FinallyCancelledStep ==
  ASSUME NEW r \in Runs, Here(r), FinallyCancelled(r)
  PROVE  There(r)
<1> USE DEF Here, FinallyCancelled
<1>1. /\ adhoc' \in [Runs -> {"none", "open", "closed"}]
      /\ \A q \in Runs \ {r} : adhoc'[q] = adhoc[q]
  BY DEF CommandTypeOK
<1> QED  BY <1>1, UnwindStep

LEMMA EndTaskStep ==
  ASSUME NEW r \in Runs, Here(r), EndTask(r)
  PROVE  There(r)
<1> USE DEF Here, EndTask
<1>1. /\ slot[r] = "reaping" /\ slot'[r] = "done" /\ status' = status /\ cancel' = cancel
  BY DEF Reap, SlotInv, SlotTypeOK
<1>2. UNCHANGED commandVars  OBVIOUS
<1>3. CommandsKept(r)
  BY <1>2 DEF CommandTypeOK, CommandsKept, ElsewhereInCommands, commandVars
<1>4. Elsewhere(r)  BY OwnSlotMoves DEF SlotInv
<1>5. pc[r] = "idle"  BY <1>1 DEF RunInv, ControlInv
<1>6. ControlInv(r)'  BY <1>1, <1>2, <1>5 DEF RunInv, ControlInv, commandVars
<1>7. RowInv(r)' /\ SliceInv(r)' /\ FilesInv(r)'
  BY <1>1, <1>2 DEF RunInv, RowInv, CurrentRecord, SliceInv, FilesInv, Finished, commandVars
<1>8. StreamInv(r)'
  BY <1>1, <1>2 DEF RunInv, StreamInv, Finished, commandVars
<1> QED  BY <1>3, <1>4, <1>6, <1>7, <1>8 DEF There, RunInv

LEMMA StopStep ==
  ASSUME NEW r \in Runs, Here(r), Stop(r)
  PROVE  There(r)
<1> USE DEF Here, Stop
<1>1. /\ slot[r] \notin {"none", "spawned"} /\ slot' = slot /\ status' = status
      /\ cancel'[r] = cancel[r] \/ cancel'[r] = "pending"
      /\ pc[r] # "enter" /\ status[r] # "none"
  BY DEF CancelTask, SlotInv, SlotTypeOK, StatusInv, Quiet
<1>2. /\ emitted[r] \in Seq(Messages) /\ results[r] \in Nat /\ results'[r] = results[r] + 0
      /\ stops' \in [Runs -> 0..MaxStops]
  BY CommandAssumption DEF CommandTypeOK
<1>3. /\ Msg("stopping") \in Messages /\ Plain(Msg("stopping"))
      /\ Msg("stopping").type = "stopping"
      /\ Msg("log") \in Messages /\ Plain(Msg("log")) /\ Msg("log").type = "log"
  BY MessageFields DEF EventTypes
<1> HIDE DEF Msg
<1> DEFINE u == Append(emitted[r], Msg("stopping"))
<1>4. /\ emitted' \in [Runs -> Seq(Messages)]
      /\ emitted'[r] = Append(u, Msg("log"))
      /\ \A q \in Runs \ {r} : emitted'[q] = emitted[q]
  <2>1. <<Msg("stopping"), Msg("log")>> \in Seq(Messages)  BY <1>3, MessageSequences
  <2>2. /\ emitted' \in [Runs -> Seq(Messages)]
        /\ emitted'[r] = emitted[r] \o <<Msg("stopping"), Msg("log")>>
        /\ \A q \in Runs \ {r} : emitted'[q] = emitted[q]
    BY <2>1, EmitTypes
  <2>3. emitted[r] \o <<Msg("stopping"), Msg("log")>> = Append(u, Msg("log"))
    BY <1>2, <1>3, ShortConcat
  <2> QED  BY <2>2, <2>3
<1>5. u \in Seq(Messages) /\ Grown(emitted[r], u, 0, 0, 0)
  BY <1>2, <1>3, GrownOne DEF One, Grown
<1>6. AcksAfterEnd(emitted[r]) => AcksAfterEnd(emitted'[r])
  BY <1>2, <1>3, <1>4, <1>5, AckAfterEnd
<1> HIDE DEF u
<1>7. Grown(emitted[r], emitted'[r], 0, 0, 0)
  <2>1. Grown(u, emitted'[r], 0, 0, 0)
    BY <1>3, <1>4, <1>5, GrownOne DEF One
  <2>2. \A t : Total(emitted[r], t) \in Nat  BY <1>2, SentIsNat DEF Total
  <2> QED  BY <1>5, <2>1, <2>2 DEF Grown
<1>8. CommandsKept(r)
  BY <1>2, <1>4 DEF CommandTypeOK, CommandsKept, ElsewhereInCommands
<1>9. Elsewhere(r)  BY OwnSlotMoves DEF SlotInv
<1>10. ControlInv(r)'  BY <1>1 DEF RunInv, ControlInv
<1>11. RowInv(r)' /\ SliceInv(r)'
  BY <1>1 DEF RunInv, RowInv, CurrentRecord, SliceInv
<1>12. \A t \in {"test_complete", "file_start", "file_complete"} :
         Total(emitted'[r], t) = Total(emitted[r], t)
  <2>1. \A t : Total(emitted[r], t) \in Nat  BY <1>2, SentIsNat DEF Total
  <2> QED  BY <1>7, <2>1 DEF Grown
<1>13. StreamInv(r)'
  BY <1>1, <1>2, <1>6, <1>7, <1>12 DEF RunInv, StreamInv, Finished, Grown
<1>14. FilesInv(r)'
  BY <1>1, <1>7, <1>12 DEF RunInv, FilesInv, Finished, Grown
<1> QED  BY <1>8, <1>9, <1>10, <1>11, <1>13, <1>14 DEF There, RunInv

-----------------------------------------------------------------------------
LEMMA CommandInitInv == CommandInit => CommandInv
<1> SUFFICES ASSUME CommandInit PROVE CommandInv
  OBVIOUS
<1> USE DEF CommandInit
<1>1. SlotInv  BY SlotInvInit
<1>2. NumFiles \in Nat /\ 1 \in 1..(NumFiles + 1) /\ 1 \in 1..NumTests /\ 0 \in 0..MaxStops
  BY CommandAssumption
<1>3. NewRecord \in Records /\ NewRecord.row = "none" /\ ~NewRecord.broken
  BY DEF NewRecord, Records, RowStatuses
<1>4. <<>> \in Seq(Messages)  BY MessageSequences
<1>5. CommandTypeOK
  BY <1>1, <1>2, <1>3, <1>4 DEF CommandTypeOK, SlotInv, Pcs
<1>6. ASSUME NEW r \in Runs PROVE RunInv(r)
  <2>1. slot[r] = "none" /\ status[r] = "none" /\ cancel[r] = "no"  BY DEF SlotInit
  <2>2. ControlInv(r)  BY <2>1 DEF ControlInv
  <2>3. RowInv(r)  BY <1>3 DEF RowInv
  <2>4. SliceInv(r)  BY DEF SliceInv
  <2>5. StreamInv(r)  BY <2>1, NothingSent DEF StreamInv
  <2>6. FilesInv(r)
    <3>1. Total(<<>>, "file_complete") = 0 /\ Total(<<>>, "file_start") = 0  BY NothingSent
    <3> QED  BY <3>1, NothingSent DEF FilesInv
  <2> QED  BY <2>2, <2>3, <2>4, <2>5, <2>6 DEF RunInv
<1> QED  BY <1>1, <1>5, <1>6 DEF CommandInv

(* Whatever run r does next. *)
LEMMA RunStepKeepsInv ==
  ASSUME NEW r \in Runs, Here(r), RunStep(r)
  PROVE  There(r)
BY StartStep, ResumeStep, StopQueuedStep, CommandRaisedStep, BatchFailedStep,
   OpenFileStep, UnusableFileStep, FinishBatchStep, ConnectedStep, ConnectFailedStep,
   ConnectCancelledStep, InitializedStep, InitFailedStep, InitCancelledStep,
   NextTestStep, LastTestStep, TestRaisedStep, TestCancelledStep, CleanedUpStep,
   ClosedStep, FinallyCancelledStep, EndTaskStep, Zenon
DEF RunStep

LEMMA CommandStepInv == CommandInv /\ [CommandNext]_runVars => CommandInv'
<1>1. ASSUME CommandInv, CommandNext PROVE CommandInv'
  <2>1. PICK r \in Runs : \/ \E k \in {"single", "batch"} : Submit(r, k)
                          \/ RunStep(r)
                          \/ Stop(r)
    BY <1>1 DEF CommandNext
  <2>2. Here(r)  BY <1>1 DEF CommandInv, Here
  <2>3. There(r)  BY <2>1, <2>2, SubmitStep, RunStepKeepsInv, StopStep
  <2>4. SlotNext \/ UNCHANGED slotVars
    <3>1. CASE \E k \in {"single", "batch"} : Submit(r, k)
      BY <3>1 DEF Submit, SlotNext
    <3>2. CASE RunStep(r)  BY <3>2, RunStepIsSlotStep
    <3>3. CASE Stop(r)     BY <3>3 DEF Stop, SlotNext
    <3> QED  BY <2>1, <3>1, <3>2, <3>3
  <2>5. SlotInv'  BY <1>1, <2>4, SlotNextKeepsInv DEF CommandInv
  <2>6. CommandTypeOK'
    BY <2>3, <2>5 DEF There, CommandsKept, CommandTypeOK, SlotInv
  <2>7. ASSUME NEW q \in Runs PROVE RunInv(q)'
    <3>1. CASE q = r  BY <2>3, <3>1 DEF There
    <3>2. CASE q # r
      BY <1>1, <2>3, <3>2, OthersKeepInv DEF There, CommandsKept, CommandInv
    <3> QED  BY <3>1, <3>2
  <2> QED  BY <2>5, <2>6, <2>7 DEF CommandInv
<1>2. ASSUME CommandInv, UNCHANGED runVars PROVE CommandInv'
  <2>1. UNCHANGED slotVars /\ UNCHANGED commandVars  BY <1>2 DEF runVars
  <2>2. SlotInv'  BY <1>2, <2>1, SlotNextKeepsInv DEF CommandInv
  <2>3. CommandTypeOK'
    BY <1>2, <2>1, <2>2 DEF CommandInv, CommandTypeOK, SlotInv, commandVars
  <2>4. ASSUME NEW q \in Runs PROVE RunInv(q)'
    <3>1. RunInv(q)  BY <1>2 DEF CommandInv
    <3>2. UNCHANGED <<registry, status, slot, permits, waiters, cancel>>
      BY <2>1 DEF slotVars
    <3>3. UNCHANGED <<kind, pc, file, test, record, adhoc, results, preResults,
                      aggregated, emitted, stops>>
      BY <2>1 DEF commandVars
    <3>4. ControlInv(q)' /\ RowInv(q)' /\ SliceInv(q)'
      BY <3>1, <3>2, <3>3 DEF RunInv, ControlInv, RowInv, CurrentRecord, SliceInv
    <3>5. StreamInv(q)' /\ FilesInv(q)'
      BY <3>1, <3>2, <3>3 DEF RunInv, StreamInv, FilesInv, Finished
    <3> QED  BY <3>4, <3>5 DEF RunInv
  <2> QED  BY <2>2, <2>3, <2>4 DEF CommandInv
<1> QED  BY <1>1, <1>2

(* The inductive invariant of the runs: where a run is in its command, its *)
(* rows, its slices of the results and its messages fit together.          *)
THEOREM CommandInvariant == CommandSpec => []CommandInv
BY CommandInitInv, CommandStepInv, PTL DEF CommandSpec

(* Every variable of the command coroutines keeps its type: no file or     *)
(* test index runs past its end, no message is malformed.                  *)
THEOREM CommandTypesHold == CommandSpec => []CommandTypeOK
<1>1. CommandInv => CommandTypeOK  BY DEF CommandInv
<1> QED  BY <1>1, CommandInvariant, PTL

(* A batch ends its stream once, whatever fails inside its files and       *)
(* whenever it is stopped: the client does not close the socket half-way.  *)
THEOREM BatchesEndOnce == CommandSpec => []BatchEndsOnce
<1>1. CommandInv => BatchEndsOnce
  <2> SUFFICES ASSUME CommandInv, NEW r \in Runs, kind[r] = "batch"
               PROVE  /\ Cardinality(Terminals(r)) <= 1
                      /\ \A i \in Terminals(r), j \in DOMAIN emitted[r] :
                           i < j => emitted[r][j].type \in {"stopping", "log"}
    BY DEF BatchEndsOnce
  <2>1. AcksAfterEnd(emitted[r]) /\ emitted[r] \in Seq(Messages)
    BY DEF CommandInv, RunInv, StreamInv, CommandTypeOK
  <2>2. DOMAIN emitted[r] \subseteq Nat  BY <2>1
  <2>3. ASSUME NEW i \in Terminals(r), NEW j \in Terminals(r) PROVE i = j
    <3>1. ~(i < j) /\ ~(j < i)  BY <2>1 DEF AcksAfterEnd, Ends, Terminals
    <3>2. i \in Nat /\ j \in Nat  BY <2>2 DEF Terminals
    <3> QED  BY <3>1, <3>2
  <2>4. Cardinality(Terminals(r)) <= 1
    <3>1. CASE Terminals(r) = {}  BY <3>1, FS_EmptySet
    <3>2. CASE Terminals(r) # {}
      <4>1. PICK i \in Terminals(r) : TRUE  BY <3>2
      <4>2. Terminals(r) = {i}  BY <2>3
      <4>3. Cardinality(Terminals(r)) = 1  BY <4>2, FS_Singleton
      <4> QED  BY <4>3
    <3> QED  BY <3>1, <3>2
  <2> QED  BY <2>1, <2>4 DEF AcksAfterEnd, Ends, Terminals
<1> QED  BY <1>1, CommandInvariant, PTL

(* The all_complete of a run carries exactly the results streamed before   *)
(* it, for every number of files and tests and every stop.                 *)
THEOREM ResultsAreCarried == CommandSpec => []AllCompleteCarriesResults
<1>1. CommandInv => AllCompleteCarriesResults
  BY DEF CommandInv, RunInv, StreamInv, Carried, AllCompleteCarriesResults, SentUpTo, Sent
<1> QED  BY <1>1, CommandInvariant, PTL

(* The final status of the registry and the stream agree. *)
THEOREM FinalStatusIsAnnounced == CommandSpec => []FinalStatusAnnounced
<1>1. CommandInv => FinalStatusAnnounced
  <2> SUFFICES ASSUME CommandInv, NEW r \in Runs
      PROVE  LET stopped == {i \in DOMAIN emitted[r] : emitted[r][i].status = "stopped"}
             IN  /\ Cardinality(stopped) = IF status[r] = "stopped" THEN 1 ELSE 0
                 /\ status[r] = "completed" => Terminals(r) # {}
    BY DEF FinalStatusAnnounced
  <2> DEFINE stopped == {i \in DOMAIN emitted[r] : emitted[r][i].status = "stopped"}
  <2>1. StreamInv(r)  BY DEF CommandInv, RunInv
  <2>2. status[r] = "completed" => Terminals(r) # {}
    BY <2>1 DEF StreamInv, Ended, Ends, Terminals
  <2>3. CASE status[r] = "stopped"
    <3>1. PICK i \in DOMAIN emitted[r] :
            \A j \in DOMAIN emitted[r] : emitted[r][j].status = "stopped" <=> j = i
      BY <2>1, <2>3 DEF StreamInv, StoppedOnce
    <3>2. stopped = {i}  BY <3>1
    <3>3. Cardinality(stopped) = 1  BY <3>2, FS_Singleton
    <3> QED  BY <2>2, <2>3, <3>3
  <2>4. CASE status[r] # "stopped"
    <3>1. stopped = {}  BY <2>1, <2>4 DEF StreamInv, NeverStopped
    <3>2. Cardinality(stopped) = 0  BY <3>1, FS_EmptySet
    <3> QED  BY <2>2, <2>4, <3>2
  <2> QED  BY <2>3, <2>4
<1> QED  BY <1>1, CommandInvariant, PTL

(* Only a stop can leave the run's own MCP client open. *)
THEOREM AdhocClientsAreClosed == CommandSpec => []AdhocLeftOpenOnlyByStop
<1>1. CommandInv => AdhocLeftOpenOnlyByStop
  BY DEF CommandInv, RunInv, ControlInv, AdhocLeftOpenOnlyByStop
<1> QED  BY <1>1, CommandInvariant, PTL

(* The files of a batch open and close in turn, and completion means all   *)
(* of them were run.                                                       *)
THEOREM FilesAreNested == CommandSpec => []FilesNest
<1>1. CommandInv => FilesNest
  BY DEF CommandInv, RunInv, FilesInv, Nested, FilesNest, SentUpTo, Sent
<1> QED  BY <1>1, CommandInvariant, PTL

(* A history row is open only while the tests of its file run, and a       *)
(* completed one has all their results.                                    *)
THEOREM RowsRunOnlyInTests ==
  CommandSpec => [](/\ RowRunningOnlyInTests
                    /\ \A r \in Runs, f \in Files :
                         record[r][f].row = "completed" => record[r][f].saved = NumTests)
<1>1. CommandInv =>
        /\ RowRunningOnlyInTests
        /\ \A r \in Runs, f \in Files :
             record[r][f].row = "completed" => record[r][f].saved = NumTests
  BY DEF CommandInv, RunInv, RowInv, RowRunningOnlyInTests
<1> QED  BY <1>1, CommandInvariant, PTL

(* A finished run is at none of its awaits: only its task is left to end.  *)
LEMMA FinishedRunIsSilent ==
  ASSUME NEW r \in Runs, SlotInv, ControlInv(r), Finished(r), RunStep(r)
  PROVE  emitted' = emitted
<1>1. /\ pc[r] = "idle"
      /\ slot[r] \notin {"holding", "spawned", "waiting", "granted"}
  BY DEF SlotInv, StatusInv, ControlInv, Finished, FinalStatuses
<1>2. ~StartTask(r) /\ ~ResumeTask(r) /\ ~StopQueued(r)
  BY <1>1 DEF StartTask, AcquireFree, Park, ResumeTask, Resume, StopQueued, Abandon
<1>3. /\ ~CommandRaised(r) /\ ~BatchFailed(r) /\ ~OpenFile(r) /\ ~UnusableFile(r)
      /\ ~FinishBatch(r)
  BY <1>1 DEF CommandRaised, BatchFailed, OpenFile, UnusableFile, FinishBatch
<1>4. ~Connected(r) /\ ~ConnectFailed(r) /\ ~ConnectCancelled(r)
  BY <1>1 DEF Connected, ConnectFailed, ConnectCancelled
<1>5. /\ ~Initialized(r) /\ ~InitFailed(r) /\ ~InitCancelled(r)
      /\ ~NextTest(r) /\ ~LastTest(r) /\ ~TestRaised(r) /\ ~TestCancelled(r)
  BY <1>1 DEF Initialized, InitFailed, InitCancelled, NextTest, LastTest, TestRaised,
              TestCancelled
<1>6. ~CleanedUp(r) /\ ~Closed(r) /\ ~FinallyCancelled(r)
  BY <1>1 DEF CleanedUp, Closed, FinallyCancelled
<1>7. EndTask(r)  BY <1>2, <1>3, <1>4, <1>5, <1>6 DEF RunStep
<1> QED  BY <1>7 DEF EndTask, commandVars

(* After the end of a run its stream gets nothing but the acknowledgements *)
(* of late stops, for good.                                                *)
THEOREM FinishedRunsStayQuiet == CommandSpec => FinishedRunsAreQuiet
<1> DEFINE Quietly == \A r \in Runs : Finished(r) =>
             \A i \in DOMAIN emitted'[r] :
               i > Len(emitted[r]) => emitted'[r][i].type \in {"stopping", "log"}
<1>1. CommandInv /\ [CommandNext]_runVars => [Quietly]_runVars
  <2> SUFFICES ASSUME CommandInv, CommandNext, NEW r \in Runs, Finished(r),
                      NEW i \in DOMAIN emitted'[r], i > Len(emitted[r])
               PROVE  emitted'[r][i].type \in {"stopping", "log"}
    OBVIOUS
  <2>1. /\ SlotInv /\ ControlInv(r) /\ status[r] # "none"
        /\ emitted[r] \in Seq(Messages) /\ CommandTypeOK
    BY DEF CommandInv, RunInv, CommandTypeOK, Finished, FinalStatuses
  <2>2. emitted'[r] # emitted[r]  BY <2>1
  <2>3. PICK q \in Runs : \/ \E k \in {"single", "batch"} : Submit(q, k)
                          \/ RunStep(q)
                          \/ Stop(q)
    BY DEF CommandNext
  <2>4. q = r
    <3>1. Here(q)  BY DEF CommandInv, Here
    <3>2. There(q)  BY <2>3, <3>1, SubmitStep, RunStepKeepsInv, StopStep
    <3> QED  BY <2>2, <3>2 DEF There, CommandsKept, ElsewhereInCommands
  <2>5. CASE \E k \in {"single", "batch"} : Submit(r, k)
    BY <2>2, <2>5 DEF Submit
  <2>6. CASE RunStep(r)
    BY <2>1, <2>2, <2>6, FinishedRunIsSilent
  <2>7. CASE Stop(r)
    <3>1. /\ Msg("stopping") \in Messages /\ Msg("stopping").type = "stopping"
          /\ Msg("log") \in Messages /\ Msg("log").type = "log"
      BY MessageFields DEF EventTypes
    <3>2. Emit(r, <<Msg("stopping"), Msg("log")>>)  BY <2>7 DEF Stop
    <3> HIDE DEF Msg
    <3>3. <<Msg("stopping"), Msg("log")>> \in Seq(Messages)  BY <3>1, MessageSequences
    <3>4. emitted'[r] = emitted[r] \o <<Msg("stopping"), Msg("log")>>
      BY <2>1, <3>2, <3>3, EmitTypes
    <3>5. emitted'[r][i] \in {Msg("stopping"), Msg("log")}
      BY <2>1, <3>1, <3>4
    <3> QED  BY <3>1, <3>5
  <2> QED  BY <2>3, <2>4, <2>5, <2>6, <2>7
<1> QED  BY <1>1, CommandInvariant, PTL DEF CommandSpec, FinishedRunsAreQuiet

-----------------------------------------------------------------------------
(* How a sum over a function grows.  The fold of the community modules is  *)
(* a recursive function on the subsets of its domain; that one exists, and *)
(* what it adds up to, follows from looking at a smallest counterexample.  *)
Below(S, i) == {j \in S : j <= i}

(* Numbers have a least one.                                               *)
LEMMA LeastNumber ==
  ASSUME NEW S \in SUBSET Nat, S # {}
  PROVE  \E i \in S : \A j \in S : i <= j
<1>1. /\ \A i, j \in S : i \in Nat /\ j \in Nat /\ (j \in Below(S, i) <=> j <= i)
      /\ \A i : Below(S, i) \subseteq S
  BY DEF Below
<1>2. \A i \in S : Below(S, i) \in SUBSET Nat
  BY DEF Below
<1>3. ASSUME NEW i \in S PROVE IsFiniteSet(Below(S, i))
  <2>1. i \in Int /\ 0 \in Int
    OBVIOUS
  <2>2. Below(S, i) \subseteq 0..i
    <3> SUFFICES ASSUME NEW j \in Below(S, i) PROVE j \in 0..i
      OBVIOUS
    <3>1. j \in Nat /\ j <= i
      BY <1>1
    <3> QED BY <2>1, <3>1
  <2>3. IsFiniteSet(0..i)
    BY <2>1, FS_Interval
  <2> QED BY <2>2, <2>3, FS_Subset
<1> DEFINE T == {Below(S, i) : i \in S}
<1>4. T # {} /\ T \subseteq FiniteSubsetsOf(Nat)
  BY <1>2, <1>3 DEF FiniteSubsetsOf
<1>5. PICK B \in T : \A C \in T : ~(<<C, B>> \in StrictSubsetOrdering(Nat))
  <2> HIDE DEF T
  <2> QED BY <1>4, WFMin, FS_StrictSubsetOrderingWellFounded
<1>6. PICK i \in S : B = Below(S, i)
  OBVIOUS
<1>7. ASSUME NEW j \in S, j < i PROVE FALSE
  <2>1. i \in Nat /\ j \in Nat
    OBVIOUS
  <2>2. Below(S, j) \subseteq Below(S, i)
    <3>1. \A x \in S : x <= j => x <= i
      BY <1>1, <1>7
    <3> QED BY <3>1, <1>1
  <2>3. i \in Below(S, i) /\ i \notin Below(S, j)
    BY <2>1, <1>1, <1>7
  <2>4. <<Below(S, j), B>> \in StrictSubsetOrdering(Nat)
    BY <2>2, <2>3, <1>2, <1>6 DEF StrictSubsetOrdering
  <2> QED BY <1>5, <2>4
<1>8. \A j \in S : i <= j
  BY <1>7
<1> QED BY <1>8

(* A set of subsets of a finite set has a smallest member.                 *)
LEMMA SmallestSet ==
  ASSUME NEW S, IsFiniteSet(S), NEW B, B \subseteq SUBSET S, B # {}
  PROVE  \E s \in B : \A t \in B : t \subseteq s => t = s
<1>1. \A s \in B : IsFiniteSet(s) /\ s \in SUBSET S
  BY FS_Subset
<1>2. B \subseteq FiniteSubsetsOf(S)
  BY <1>1 DEF FiniteSubsetsOf
<1>3. PICK s \in B : \A t \in B : ~(<<t, s>> \in StrictSubsetOrdering(S))
  BY <1>2, WFMin, FS_StrictSubsetOrderingWellFounded
<1>4. ASSUME NEW t \in B, t \subseteq s, t # s PROVE FALSE
  BY <1>1, <1>3, <1>4 DEF StrictSubsetOrdering
<1> QED BY <1>4

(* The element that the fold takes first, and what it does with it.        *)
Pick(s) == CHOOSE x \in s : TRUE
PlusRest(fun, h, s) == IF s = {} THEN 0 ELSE fun[Pick(s)] + h[s \ {Pick(s)}]
Sum(fun) == FoldFunction(+, 0, fun)

(* The recursion is shown to have a solution on small subsets first.       *)
SmallOnes(S, n) == {s \in SUBSET S : Cardinality(s) <= n}

LEMMA OneRemoved ==
  ASSUME NEW S, IsFiniteSet(S), NEW s \in SUBSET S, s # {}
  PROVE  /\ Pick(s) \in s /\ s \ {Pick(s)} \in SUBSET S
         /\ Cardinality(s) \in Nat \ {0}
         /\ Cardinality(s \ {Pick(s)}) = Cardinality(s) - 1
<1>1. Pick(s) \in s
  BY DEF Pick
<1>2. IsFiniteSet(s)
  BY FS_Subset
<1>3. Cardinality(s) \in Nat /\ Cardinality(s) # 0
  BY <1>2, FS_CardinalityType, FS_EmptySet
<1>4. Cardinality(s \ {Pick(s)}) = Cardinality(s) - 1
  BY <1>1, <1>2, FS_RemoveElement
<1> QED BY <1>1, <1>3, <1>4

LEMMA SumUpTo ==
  ASSUME NEW fun, NEW S, IsFiniteSet(S), NEW n \in Nat
  PROVE  \E h : h = [s \in SmallOnes(S, n) |-> PlusRest(fun, h, s)]
<1> DEFINE Bad == {k \in Nat : ~ \E h : h = [s \in SmallOnes(S, k) |-> PlusRest(fun, h, s)]}
<1> SUFFICES ASSUME Bad # {} PROVE FALSE
  OBVIOUS
<1>1. PICK k \in Bad : \A j \in Bad : k <= j
  <2>1. Bad \in SUBSET Nat
    OBVIOUS
  <2> HIDE DEF Bad
  <2> QED BY <2>1, LeastNumber
<1>2. k \in Nat /\ ~ \E h : h = [s \in SmallOnes(S, k) |-> PlusRest(fun, h, s)]
  OBVIOUS
<1>3. k # 0
  <2> SUFFICES ASSUME k = 0 PROVE FALSE
    OBVIOUS
  <2> DEFINE g == [s \in SmallOnes(S, 0) |-> 0]
  <2>1. ASSUME NEW s \in SmallOnes(S, 0) PROVE s = {}
    <3>1. s \in SUBSET S /\ Cardinality(s) <= 0
      BY DEF SmallOnes
    <3>2. s # {} => Cardinality(s) \in Nat \ {0}
      BY <3>1, OneRemoved
    <3> QED BY <3>1, <3>2
  <2>2. g = [s \in SmallOnes(S, 0) |-> PlusRest(fun, g, s)]
    BY <2>1 DEF PlusRest
  <2> QED BY <1>2, <2>2
<1>4. k - 1 \in Nat /\ k - 1 \notin Bad
  BY <1>1, <1>2, <1>3
<1>5. PICK f : f = [s \in SmallOnes(S, k - 1) |-> PlusRest(fun, f, s)]
  BY <1>4
<1> DEFINE g == [s \in SmallOnes(S, k) |-> PlusRest(fun, f, s)]
<1>6. ASSUME NEW s \in SmallOnes(S, k - 1)
      PROVE  s \in SmallOnes(S, k) /\ f[s] = PlusRest(fun, f, s) /\ g[s] = f[s]
  <2>1. s \in SUBSET S /\ Cardinality(s) <= k - 1 /\ Cardinality(s) \in Nat
    BY FS_Subset, FS_CardinalityType DEF SmallOnes
  <2>2. s \in SmallOnes(S, k)
    BY <2>1, <1>2 DEF SmallOnes
  <2>3. f[s] = PlusRest(fun, f, s)
    BY <1>5
  <2> QED BY <2>2, <2>3
<1>7. ASSUME NEW s \in SmallOnes(S, k) PROVE PlusRest(fun, f, s) = PlusRest(fun, g, s)
  <2>1. s \in SUBSET S /\ Cardinality(s) <= k
    BY DEF SmallOnes
  <2>2. s # {} => s \ {Pick(s)} \in SmallOnes(S, k - 1)
    BY <2>1, <1>2, OneRemoved DEF SmallOnes
  <2>3. s # {} => g[s \ {Pick(s)}] = f[s \ {Pick(s)}]
    BY <2>2, <1>6
  <2> QED BY <2>3 DEF PlusRest
<1>8. g = [s \in SmallOnes(S, k) |-> PlusRest(fun, g, s)]
  BY <1>7
<1> QED BY <1>2, <1>8

(* So the fold of the community modules adds what it picks to the rest.    *)
LEMMA SumAdds ==
  ASSUME NEW fun, IsFiniteSet(DOMAIN fun)
  PROVE  \E h : /\ Sum(fun) = h[DOMAIN fun]
                /\ \A s \in SUBSET DOMAIN fun : h[s] = PlusRest(fun, h, s)
<1> DEFINE S == DOMAIN fun
           IsSum(h) == h = [s \in SUBSET S |-> PlusRest(fun, h, s)]
<1>1. SmallOnes(S, Cardinality(S)) = SUBSET S /\ Cardinality(S) \in Nat
  BY FS_Subset, FS_CardinalityType DEF SmallOnes
<1>2. \E h : IsSum(h)
  <2>1. \E h : h = [s \in SmallOnes(S, Cardinality(S)) |-> PlusRest(fun, h, s)]
    BY <1>1, SumUpTo
  <2> QED BY <2>1, <1>1
<1>3. Sum(fun) = (CHOOSE h : IsSum(h))[DOMAIN fun]
  BY DEF Sum, FoldFunction, FoldFunctionOnSet, MapThenFoldSet, PlusRest, Pick
<1>4. IsSum(CHOOSE h : IsSum(h))
  BY <1>2
<1> HIDE DEF IsSum
<1> DEFINE h == CHOOSE h : IsSum(h)
<1>5. Sum(fun) = h[DOMAIN fun] /\ IsSum(h)
  BY <1>3, <1>4
<1> HIDE DEF h
<1>6. \A s \in SUBSET DOMAIN fun : h[s] = PlusRest(fun, h, s)
  BY <1>5 DEF IsSum
<1> QED BY <1>5, <1>6

(* Zeroes add up to zero, and one more in one place is one more in all.    *)
LEMMA SumOfNothing ==
  ASSUME NEW fun, IsFiniteSet(DOMAIN fun), \A x \in DOMAIN fun : fun[x] = 0
  PROVE  Sum(fun) = 0
<1> DEFINE S == DOMAIN fun
<1>1. PICK h : /\ Sum(fun) = h[S]
               /\ \A s \in SUBSET S : h[s] = PlusRest(fun, h, s)
  BY SumAdds
<1> DEFINE Bad == {s \in SUBSET S : h[s] # 0}
<1> SUFFICES ASSUME Bad # {} PROVE FALSE
  BY <1>1
<1>2. PICK s \in Bad : \A t \in Bad : t \subseteq s => t = s
  <2>1. Bad \subseteq SUBSET S
    OBVIOUS
  <2> HIDE DEF Bad
  <2> QED BY <2>1, SmallestSet
<1>3. s \in SUBSET S /\ h[s] # 0 /\ s # {}
  BY <1>1 DEF PlusRest
<1>4. Pick(s) \in s /\ s \ {Pick(s)} \in SUBSET S
  BY <1>3, OneRemoved
<1>5. h[s \ {Pick(s)}] = 0
  BY <1>2, <1>4
<1>6. h[s] = fun[Pick(s)] + h[s \ {Pick(s)}]
  BY <1>1, <1>3 DEF PlusRest
<1> QED BY <1>3, <1>4, <1>5, <1>6

LEMMA SumGrows ==
  ASSUME NEW S, IsFiniteSet(S), NEW f \in [S -> Nat], NEW g \in [S -> Nat], NEW x \in S,
         g[x] = f[x] + 1, \A y \in S \ {x} : g[y] = f[y]
  PROVE  Sum(g) = Sum(f) + 1
<1> DEFINE Counts(s) == IF x \in s THEN 1 ELSE 0
<1>1. DOMAIN f = S /\ DOMAIN g = S
  OBVIOUS
<1>2. PICK h : Sum(f) = h[S] /\ \A s \in SUBSET S : h[s] = PlusRest(f, h, s)
  BY <1>1, SumAdds
<1>3. PICK k : Sum(g) = k[S] /\ \A s \in SUBSET S : k[s] = PlusRest(g, k, s)
  BY <1>1, SumAdds
<1> DEFINE Good(s) == h[s] \in Nat /\ k[s] = h[s] + Counts(s)
           Bad == {s \in SUBSET S : ~Good(s)}
<1> SUFFICES ASSUME Bad # {} PROVE FALSE
  <2>1. S \in SUBSET S /\ x \in S
    OBVIOUS
  <2> QED BY <2>1, <1>2, <1>3
<1>4. PICK s \in Bad : \A t \in Bad : t \subseteq s => t = s
  <2>1. Bad \subseteq SUBSET S
    OBVIOUS
  <2> HIDE DEF Bad
  <2> QED BY <2>1, SmallestSet
<1>5. s \in SUBSET S /\ ~Good(s)
  OBVIOUS
<1>6. s # {}
  <2>1. {} \in SUBSET S
    OBVIOUS
  <2>2. h[{}] = 0 /\ k[{}] = 0
    BY <1>2, <1>3, <2>1 DEF PlusRest
  <2>3. Good({})
    <3>1. Counts({}) = 0 /\ 0 = 0 + 0 /\ 0 \in Nat
      OBVIOUS
    <3> HIDE DEF Counts
    <3> QED BY <2>2, <3>1
  <2> HIDE DEF Good
  <2>4. ~Good(s)
    BY <1>5
  <2> QED BY <2>3, <2>4
<1> DEFINE p == Pick(s)
           t == s \ {p}
<1>7. p \in s /\ t \in SUBSET S
  BY <1>5, <1>6, OneRemoved
<1>8. h[s] = f[p] + h[t] /\ k[s] = g[p] + k[t]
  BY <1>2, <1>3, <1>5, <1>6 DEF PlusRest
<1>9. Good(t)
  <2>1. t \subseteq s /\ t # s
    BY <1>7
  <2> HIDE DEF t, Good
  <2> QED BY <1>4, <1>7, <2>1
<1>10. Counts(s) = Counts(t) + (IF p = x THEN 1 ELSE 0)
  BY <1>7
<1>11. f[p] \in Nat /\ g[p] = f[p] + (IF p = x THEN 1 ELSE 0)
  BY <1>5, <1>7
<1>12. Counts(t) \in Nat
  OBVIOUS
<1> HIDE DEF p, t, Counts
<1> QED BY <1>5, <1>8, <1>9, <1>10, <1>11, <1>12

-----------------------------------------------------------------------------
(* The row of file f of run r was not written yet.                         *)
Unopened(r, f) ==
  \/ f > file[r]
  \/ /\ f = file[r]
     /\ pc[r] \in {"enter", "connect", "init"} \/ status[r] \in {"none", "queued"}

Unbroken(r) == \A f \in Files : ~record[r][f].broken
SavedOf(r)  == [f \in Files |-> record[r][f].saved]

(* The files that are still to come have no row, one that can be written   *)
(* is open, and while the database works the rows of the files hold as     *)
(* many results as the run has.                                            *)
SavedInv(r) ==
  /\ \A f \in Files : Unopened(r, f) => record[r][f] = NewRecord
  /\ \A f \in Files : Writable(record[r][f]) => record[r][f].row = "running"
  /\ Unbroken(r) => Sum(SavedOf(r)) = results[r]

LEMMA FilesAreFinite == IsFiniteSet(Files) /\ NumFiles \in Nat
BY CommandAssumption, FS_Interval DEF Files

LEMMA SavedOfIs ==
  ASSUME NEW r \in Runs, record[r] \in [Files -> Records]
  PROVE  SavedOf(r) \in [Files -> Nat] /\ \A f \in Files : SavedOf(r)[f] = record[r][f].saved
BY DEF SavedOf, Records

(* A step that writes no row and adds no result.                           *)
LEMMA NothingSaved ==
  ASSUME NEW r \in Runs, Here(r), SavedInv(r),
         record'[r] = record[r], results'[r] = results[r],
         \/ file'[r] = file[r] + 1
         \/ /\ file'[r] = file[r]
            /\ pc'[r] \in {"enter", "connect", "init"}
               => pc[r] \in {"enter", "connect", "init"} \/ status[r] \in {"none", "queued"}
            /\ status'[r] \in {"none", "queued"} => status[r] \in {"none", "queued"}
  PROVE  SavedInv(r)'
<1>1. file[r] \in Nat /\ \A f \in Files : f \in Nat
  BY FilesAreFinite DEF Here, CommandTypeOK, Files
<1>2. ASSUME NEW f \in Files, Unopened(r, f)' PROVE Unopened(r, f)
  BY <1>1, <1>2 DEF Unopened
<1>3. \A f \in Files : Unopened(r, f)' => record'[r][f] = NewRecord
  BY <1>2 DEF SavedInv
<1>4. Unbroken(r)' = Unbroken(r) /\ SavedOf(r)' = SavedOf(r)
  BY DEF Unbroken, SavedOf
<1>5. Unbroken(r)' => Sum(SavedOf(r)') = results'[r]
  BY <1>4 DEF SavedInv
<1>6. \A f \in Files : Writable(record'[r][f]) => record'[r][f].row = "running"
  BY DEF SavedInv
<1> QED BY <1>3, <1>5, <1>6 DEF SavedInv

(* A step that writes the row of the current file and adds k results.      *)
LEMMA RowSaved ==
  ASSUME NEW r \in Runs, Here(r), SavedInv(r),
         pc[r] \in {"init", "test"}, pc'[r] \in {"test", "cleanup"},
         status'[r] = status[r], file'[r] = file[r],
         NEW rec \in Records, SetRecord(r, rec),
         NEW k \in {0, 1}, results'[r] = results[r] + k,
         ~rec.broken => ~CurrentRecord(r).broken /\ rec.saved = CurrentRecord(r).saved + k,
         Writable(rec) => rec.row = "running"
  PROVE  SavedInv(r)'
<1>1. /\ status[r] = "running" /\ file[r] \in Files /\ results[r] \in Nat
      /\ record[r] \in [Files -> Records] /\ CommandTypeOK
  BY InFile DEF Here, CommandTypeOK
<1>2. /\ record' \in [Runs -> [Files -> Records]] /\ record'[r][file[r]] = rec
      /\ \A f \in Files \ {file[r]} : record'[r][f] = record[r][f]
  BY <1>1, SetRecordTypes
<1>3. ASSUME NEW f \in Files, Unopened(r, f)' PROVE record'[r][f] = NewRecord
  <2>1. f > file[r]
    BY <1>1, <1>3 DEF Unopened
  <2>2. f # file[r]
    BY <2>1, FilesAreFinite DEF Files
  <2> QED BY <1>2, <2>1, <2>2 DEF SavedInv, Unopened
<1>4. ASSUME Unbroken(r)' PROVE Sum(SavedOf(r))' = results'[r]
  <2>1. ~rec.broken
    BY <1>1, <1>2, <1>4 DEF Unbroken
  <2>2. ~CurrentRecord(r).broken /\ rec.saved = CurrentRecord(r).saved + k
    BY <2>1
  <2>3. Unbroken(r)
    <3> SUFFICES ASSUME NEW f \in Files PROVE ~record[r][f].broken
      BY DEF Unbroken
    <3>1. CASE f = file[r]
      BY <2>2, <3>1 DEF CurrentRecord
    <3>2. CASE f # file[r]
      BY <1>2, <1>4, <3>2 DEF Unbroken
    <3> QED BY <3>1, <3>2
  <2>4. Sum(SavedOf(r)) = results[r]
    BY <2>3 DEF SavedInv
  <2>5. /\ SavedOf(r) \in [Files -> Nat]
        /\ \A f \in Files : SavedOf(r)[f] = record[r][f].saved
    BY <1>1, SavedOfIs
  <2>6. /\ SavedOf(r)' \in [Files -> Nat]
        /\ \A f \in Files : SavedOf(r)'[f] = record'[r][f].saved
    BY <1>2 DEF SavedOf, Records
  <2>7. /\ SavedOf(r)'[file[r]] = SavedOf(r)[file[r]] + k
        /\ \A f \in Files \ {file[r]} : SavedOf(r)'[f] = SavedOf(r)[f]
    BY <1>1, <1>2, <2>2, <2>5, <2>6 DEF CurrentRecord
  <2> DEFINE old == SavedOf(r)
             new == SavedOf(r)'
  <2>8. /\ old \in [Files -> Nat] /\ new \in [Files -> Nat] /\ file[r] \in Files
        /\ new[file[r]] = old[file[r]] + k
        /\ \A f \in Files \ {file[r]} : new[f] = old[f]
    BY <1>1, <2>5, <2>6, <2>7
  <2>9. Sum(old) = results[r]
    BY <2>4
  <2>10. Sum(SavedOf(r))' = Sum(new)
    OBVIOUS
  <2> HIDE DEF old, new
  <2>11. Sum(new) = Sum(old) + k
    <3>1. CASE k = 1
      BY <2>8, <3>1, FilesAreFinite, SumGrows
    <3>2. CASE k = 0
      <4>1. \A f \in Files : new[f] = old[f]
        BY <2>8, <3>2
      <4>2. new = old
        BY <2>8, <4>1
      <4>3. results[r] + 0 = results[r]
        BY <1>1
      <4> QED BY <2>9, <3>2, <4>2, <4>3
    <3> QED BY <3>1, <3>2
  <2> QED BY <2>9, <2>10, <2>11
<1>5. \A f \in Files : Writable(record'[r][f]) => record'[r][f].row = "running"
  BY <1>2 DEF SavedInv
<1> QED BY <1>3, <1>4, <1>5 DEF SavedInv

(* A write that the database took adds its result, and an earlier refusal  *)
(* is not forgotten.                                                       *)
LEMMA AppendKeepsCount ==
  ASSUME NEW rec \in Records, NEW ok \in BOOLEAN, rec.broken \/ Writable(rec)
  PROVE  LET app == AppendResult(rec, ok) IN
         /\ app \in Records
         /\ ~app.broken => ~rec.broken /\ app.saved = rec.saved + 1
         /\ Writable(app) => Writable(rec) /\ app.row = rec.row
<1> DEFINE app == AppendResult(rec, ok)
<1>1. app \in Records /\ app.row = rec.row /\ (app.broken \/ Writable(app))
      /\ (Writable(app) => Writable(rec) /\ app.saved = rec.saved + 1)
  BY AppendedRecord
<1> HIDE DEF app
<1>2. ~app.broken => ~rec.broken /\ app.saved = rec.saved + 1
  BY <1>1 DEF Writable
<1> QED BY <1>1, <1>2 DEF app

LEMMA FinishKeepsCount ==
  ASSUME NEW rec \in Records, NEW ok \in BOOLEAN, NEW s \in {"completed", "error", "stopped"}
  PROVE  LET fin == Finish(rec, s, ok) IN
         /\ fin \in Records /\ fin.saved = rec.saved /\ ~Writable(fin)
         /\ ~fin.broken => ~rec.broken
<1>1. Finish(rec, s, ok) \in Records /\ Finish(rec, s, ok).saved = rec.saved
  BY FinishedRecord
<1>2. ~Finish(rec, s, ok).broken => ~rec.broken
  BY DEF Finish, Broken, Records
<1>3. ~Writable(Finish(rec, s, ok))
  BY DEF Finish, Broken, Writable, Records
<1> QED BY <1>1, <1>2, <1>3

(* A run that got its slot once never waits again.                         *)
LEMMA StatusGoesOn ==
  ASSUME SlotInv, SlotNext \/ UNCHANGED slotVars, NEW q \in Runs,
         status[q] \notin {"none", "queued"}
  PROVE  status'[q] \notin {"none", "queued"}
<1>1. status \in [Runs -> Statuses]
  BY DEF SlotInv, SlotTypeOK
<1>2. ASSUME NEW r \in Runs, CreateRun(r) PROVE status'[q] \notin {"none", "queued"}
  BY <1>1, <1>2 DEF CreateRun
<1>3. ASSUME NEW r \in Runs, AcquireFree(r) \/ Resume(r)
      PROVE  status'[q] \notin {"none", "queued"}
  BY <1>1, <1>3 DEF AcquireFree, Resume
<1>4. ASSUME NEW r \in Runs, NEW s \in FinalStatuses, Leave(r, s) \/ Abandon(r)
      PROVE  status'[q] \notin {"none", "queued"}
  BY <1>1, <1>4 DEF Leave, Abandon, Finalize, FinalStatuses
<1>5. ASSUME NEW r \in Runs, Park(r) \/ Reap(r) \/ DeliverCancel(r) \/ CancelTask(r)
      PROVE  status'[q] \notin {"none", "queued"}
  BY <1>5 DEF Park, Reap, DeliverCancel, CancelTask
<1>6. CASE UNCHANGED slotVars
  BY <1>6 DEF slotVars
<1>7. "stopped" \in FinalStatuses
  BY DEF FinalStatuses
<1> QED BY <1>2, <1>3, <1>4, <1>5, <1>6, <1>7 DEF SlotNext, TaskStep

(* The steps before a run has its slot.                                    *)
LEMMA WaitingSaves ==
  ASSUME NEW r \in Runs, Here(r), SavedInv(r),
         \/ \E k \in {"single", "batch"} : Submit(r, k)
         \/ StartTask(r) \/ ResumeTask(r) \/ StopQueued(r)
  PROVE  SavedInv(r)'
<1>1. status[r] \in {"none", "queued"}
  BY DEF Here, SlotInv, StatusInv, Submit, CreateRun, StartTask, AcquireFree, Park,
         ResumeTask, Resume, StopQueued, Abandon
<1>2. record' = record /\ results' = results /\ file' = file
  BY DEF Submit, StartTask, ResumeTask, StopQueued
<1> QED BY <1>1, <1>2, NothingSaved

(* A way out of a file leads to the next one or out of the command.        *)
LEMMA ReturnMoves ==
  ASSUME NEW r \in Runs, CommandTypeOK, NEW msgs,
         ReturnFromFile(r, msgs) \/ Unwind(r) \/ EndFile(r)
  PROVE  file'[r] = file[r] + 1 \/ (file'[r] = file[r] /\ pc'[r] = "idle")
<1>1. CASE ReturnFromFile(r, msgs) \/ ReturnFromFile(r, <<>>)
  <2>1. \/ file' = [file EXCEPT ![r] = @ + 1]
        \/ file' = file /\ pc' = [pc EXCEPT ![r] = "idle"]
    <3>1. CASE kind[r] = "single"
      BY <1>1, <3>1 DEF ReturnFromFile, Goto
    <3>2. CASE kind[r] # "single"
      BY <1>1, <3>2 DEF ReturnFromFile, Goto
    <3> QED BY <3>1, <3>2
  <2>2. file \in [Runs -> 1..(NumFiles + 1)] /\ pc \in [Runs -> Pcs]
    BY DEF CommandTypeOK
  <2>3. CASE file' = [file EXCEPT ![r] = @ + 1]
    BY <2>2, <2>3, FilesAreFinite
  <2>4. CASE file' = file /\ pc' = [pc EXCEPT ![r] = "idle"]
    BY <2>2, <2>4
  <2> QED BY <2>1, <2>3, <2>4
<1>2. CASE Unwind(r)
  BY <1>2 DEF Unwind, Goto, CommandTypeOK
<1> QED BY <1>1, <1>2 DEF EndFile

(* The steps of a command that write no row.                               *)
LEMMA OtherStepsSave ==
  ASSUME NEW r \in Runs, Here(r), SavedInv(r), SlotNext \/ UNCHANGED slotVars,
         \/ CommandRaised(r) \/ BatchFailed(r) \/ OpenFile(r) \/ UnusableFile(r)
         \/ FinishBatch(r) \/ Connected(r) \/ ConnectFailed(r) \/ ConnectCancelled(r)
         \/ InitFailed(r) \/ InitCancelled(r) \/ CleanedUp(r) \/ Closed(r)
         \/ FinallyCancelled(r) \/ EndTask(r) \/ Stop(r)
  PROVE  SavedInv(r)'
<1> DEFINE Ahead == {"enter", "connect", "init"}
           Stays == /\ file'[r] = file[r]
                    /\ pc'[r] \in Ahead => pc[r] \in Ahead
           Moves == file'[r] = file[r] + 1 \/ Stays
<1>1. record' = record /\ results' = results
  BY DEF CommandRaised, BatchFailed, OpenFile, UnusableFile, FinishBatch, Connected,
         ConnectFailed, ConnectCancelled, InitFailed, InitCancelled, CleanedUp, Closed,
         FinallyCancelled, EndTask, Stop, commandVars
<1>2. CommandTypeOK /\ SlotInv
  BY DEF Here
<1>3. ASSUME CommandRaised(r) \/ BatchFailed(r) \/ FinishBatch(r) PROVE Moves
  BY <1>2, <1>3 DEF CommandRaised, BatchFailed, FinishBatch, Goto, CommandTypeOK
<1>4. ASSUME OpenFile(r) \/ Connected(r) PROVE Moves
  BY <1>4 DEF OpenFile, Connected
<1>5. ASSUME InitFailed(r) \/ InitCancelled(r) \/ EndTask(r) \/ Stop(r) PROVE Moves
  BY <1>5 DEF InitFailed, InitCancelled, EndTask, Stop, commandVars
<1>6. ASSUME UnusableFile(r) \/ ConnectFailed(r) \/ ConnectCancelled(r) \/ FinallyCancelled(r)
      PROVE  Moves
  <2>1. (\E msgs : ReturnFromFile(r, msgs)) \/ Unwind(r)
    BY <1>6 DEF UnusableFile, ConnectFailed, ConnectCancelled, FinallyCancelled
  <2> QED BY <1>2, <2>1, ReturnMoves
<1>7. ASSUME CleanedUp(r) \/ Closed(r) PROVE Moves
  <2>1. EndFile(r) \/ (Goto(r, "close") /\ file' = file)
    BY <1>7 DEF CleanedUp, Closed
  <2>2. CASE EndFile(r)
    BY <1>2, <2>2, ReturnMoves
  <2>3. CASE Goto(r, "close") /\ file' = file
    BY <1>2, <2>3 DEF Goto, CommandTypeOK
  <2> QED BY <2>1, <2>2, <2>3
<1>8. Moves
  BY <1>3, <1>4, <1>5, <1>6, <1>7
<1>9. status'[r] \in {"none", "queued"} => status[r] \in {"none", "queued"}
  BY <1>2, StatusGoesOn
<1> QED BY <1>1, <1>8, <1>9, NothingSaved

(* The steps that write a row.                                             *)
LEMMA RowStepsSave ==
  ASSUME NEW r \in Runs, Here(r), SavedInv(r),
         \/ Initialized(r) \/ NextTest(r) \/ LastTest(r) \/ TestRaised(r)
         \/ TestCancelled(r)
  PROVE  SavedInv(r)'
<1> DEFINE cur == CurrentRecord(r)
           new == record'[r][file[r]]
<1>1. /\ pc[r] \in {"init", "test"}
      /\ CommandTypeOK /\ DbOutcomes \subseteq BOOLEAN
  BY OutcomesAreBoolean DEF Here, Initialized, NextTest, LastTest, TestRaised, TestCancelled
<1>2. cur \in Records /\ results[r] \in Nat /\ file[r] \in Files
  BY <1>1, InFile DEF CurrentRecord, CommandTypeOK
<1>3. status'[r] = status[r] /\ file'[r] = file[r] /\ pc'[r] \in {"test", "cleanup"}
  BY <1>1 DEF Initialized, NextTest, LastTest, TestRaised, TestCancelled, DeliverCancel,
              slotVars, Goto, CommandTypeOK
<1>4. CASE Initialized(r)
  <2>1. PICK ok \in BOOLEAN : SetRecord(r, Begin(NewRecord, ok))
    BY <1>1, <1>4 DEF Initialized
  <2>2. cur = NewRecord /\ results'[r] = results[r] + 0
    BY <1>2, <1>4 DEF Initialized, SavedInv, Unopened, CurrentRecord
  <2>3. /\ Begin(NewRecord, ok) \in Records
        /\ Begin(NewRecord, ok).saved = NewRecord.saved + 0 /\ ~NewRecord.broken
        /\ Writable(Begin(NewRecord, ok)) => Begin(NewRecord, ok).row = "running"
    <3>1. Begin(NewRecord, ok) \in Records /\ Begin(NewRecord, ok).saved = 0
      BY BegunRecord
    <3>2. NewRecord.saved + 0 = 0 /\ ~NewRecord.broken
      BY DEF NewRecord
    <3>3. Writable(Begin(NewRecord, ok)) => Begin(NewRecord, ok).row = "running"
      BY DEF Begin, NewRecord, Broken, Writable
    <3> QED BY <3>1, <3>2, <3>3
  <2> QED BY <1>1, <1>3, <2>1, <2>2, <2>3, RowSaved
<1>5. CASE NextTest(r)
  <2>1. PICK ok \in BOOLEAN : SetRecord(r, AppendResult(cur, ok))
    BY <1>1, <1>5 DEF NextTest
  <2>2. results'[r] = results[r] + 1 /\ pc[r] = "test"
    BY <1>1, <1>5 DEF NextTest, CommandTypeOK
  <2>3. /\ AppendResult(cur, ok) \in Records 
        /\ (~AppendResult(cur, ok).broken
            => ~cur.broken /\ AppendResult(cur, ok).saved = cur.saved + 1)
        /\ (Writable(AppendResult(cur, ok)) => AppendResult(cur, ok).row = "running")
    <3>1. cur.broken \/ Writable(cur)
      BY <2>2 DEF Here, RunInv, RowInv
    <3>2. Writable(cur) => cur.row = "running"
      BY <1>2 DEF SavedInv, CurrentRecord
    <3> HIDE DEF cur
    <3> QED BY <1>2, <3>1, <3>2, AppendKeepsCount
  <2> QED BY <1>1, <1>3, <2>1, <2>2, <2>3, RowSaved
<1>6. CASE LastTest(r)
  <2>1. PICK ok1 \in BOOLEAN, ok2 \in BOOLEAN :
          SetRecord(r, Finish(AppendResult(cur, ok1), "completed", ok2))
    BY <1>1, <1>6 DEF LastTest
  <2>2. results'[r] = results[r] + 1 /\ pc[r] = "test"
    BY <1>1, <1>6 DEF LastTest, CommandTypeOK
  <2> DEFINE app == AppendResult(cur, ok1)
             fin == Finish(app, "completed", ok2)
  <2>3. /\ app \in Records
        /\ ~app.broken => ~cur.broken /\ app.saved = cur.saved + 1
    BY <1>2, <2>2, AppendKeepsCount DEF Here, RunInv, RowInv
  <2> HIDE DEF app
  <2>4. /\ fin \in Records /\ fin.saved = app.saved /\ ~Writable(fin)
        /\ ~fin.broken => ~app.broken
    BY <2>3, FinishKeepsCount
  <2>5. ~fin.broken => ~cur.broken /\ fin.saved = cur.saved + 1
    BY <2>3, <2>4
  <2>6. SetRecord(r, fin)
    BY <2>1 DEF app
  <2> HIDE DEF fin
  <2> QED BY <1>1, <1>3, <2>2, <2>4, <2>5, <2>6, RowSaved
<1>7. CASE TestRaised(r) \/ TestCancelled(r)
  <2>1. PICK ok \in BOOLEAN, s \in {"error", "stopped"} : SetRecord(r, Finish(cur, s, ok))
    BY <1>1, <1>7 DEF TestRaised, TestCancelled
  <2>2. results'[r] = results[r] + 0
    BY <1>2, <1>7 DEF TestRaised, TestCancelled
  <2> DEFINE fin == Finish(cur, s, ok)
  <2>3. /\ fin \in Records /\ fin.saved = cur.saved /\ ~Writable(fin)
        /\ ~fin.broken => ~cur.broken
    BY <1>2, FinishKeepsCount
  <2>4. cur.saved + 0 = cur.saved
    BY <1>2 DEF Records
  <2>5. SetRecord(r, fin)
    BY <2>1
  <2> HIDE DEF fin
  <2> QED BY <1>1, <1>3, <2>2, <2>3, <2>4, <2>5, RowSaved
<1> QED BY <1>4, <1>5, <1>6, <1>7

(* Whichever run steps, every run keeps its count.                         *)
LEMMA SavedStep ==
  ASSUME CommandInv, \A r \in Runs : SavedInv(r), [CommandNext]_runVars
  PROVE  \A r \in Runs : SavedInv(r)'
<1> SUFFICES ASSUME NEW q \in Runs PROVE SavedInv(q)'
  OBVIOUS
<1>1. SlotInv /\ SavedInv(q) /\ Here(q)
  BY DEF CommandInv, Here
<1>2. ASSUME record'[q] = record[q], results'[q] = results[q], file'[q] = file[q],
             pc'[q] = pc[q], status'[q] = status[q]
      PROVE  SavedInv(q)'
  BY <1>1, <1>2, NothingSaved
<1>3. CASE UNCHANGED runVars
  BY <1>2, <1>3 DEF runVars, slotVars, commandVars
<1>4. ASSUME NEW r \in Runs,
             (\E k \in {"single", "batch"} : Submit(r, k)) \/ RunStep(r) \/ Stop(r)
      PROVE  SavedInv(q)'
  <2>1. Here(r) /\ SavedInv(r)
    BY DEF CommandInv, Here
  <2>2. CASE q # r
    <3>1. There(r)
      BY <1>4, <2>1, SubmitStep, RunStepKeepsInv, StopStep
    <3> QED BY <1>2, <2>2, <3>1 DEF There, CommandsKept, Elsewhere, ElsewhereInCommands
  <2>3. SlotNext \/ UNCHANGED slotVars
    <3>1. CASE \E k \in {"single", "batch"} : Submit(r, k)
      BY <3>1 DEF Submit, SlotNext
    <3>2. CASE RunStep(r)
      BY <3>2, RunStepIsSlotStep
    <3>3. CASE Stop(r)
      BY <3>3 DEF Stop, SlotNext
    <3> QED BY <1>4, <3>1, <3>2, <3>3
  <2>4. SavedInv(r)'
    BY <1>4, <2>1, <2>3, WaitingSaves, OtherStepsSave, RowStepsSave, Zenon DEF RunStep
  <2> QED BY <2>2, <2>4
<1> QED BY <1>3, <1>4 DEF CommandNext

LEMMA SavedInit ==
  ASSUME CommandInit
  PROVE  \A r \in Runs : SavedInv(r)
<1> SUFFICES ASSUME NEW r \in Runs PROVE SavedInv(r)
  OBVIOUS
<1>1. record[r] = [f \in Files |-> NewRecord] /\ results[r] = 0
  BY DEF CommandInit
<1>2. SavedOf(r) = [f \in Files |-> 0]
  BY <1>1 DEF SavedOf, NewRecord
<1>3. Sum([f \in Files |-> 0]) = 0
  <2> DEFINE none == [f \in Files |-> 0]
  <2>1. DOMAIN none = Files /\ \A f \in Files : none[f] = 0
    OBVIOUS
  <2> HIDE DEF none
  <2>2. Sum(none) = 0
    BY <2>1, FilesAreFinite, SumOfNothing
  <2> QED BY <2>2 DEF none
<1>4. Sum(SavedOf(r)) = 0
  BY <1>2, <1>3
<1>5. \A f \in Files : record[r][f] = NewRecord /\ ~Writable(record[r][f])
  BY <1>1 DEF NewRecord, Writable
<1> QED BY <1>1, <1>4, <1>5 DEF SavedInv

(* The inductive invariant of the history.                                 *)
LEMMA SavedInvariant == CommandSpec => [](\A r \in Runs : SavedInv(r))
<1> DEFINE Saved == \A r \in Runs : SavedInv(r)
<1>1. CommandInit => Saved
  BY SavedInit
<1>2. CommandInv /\ Saved /\ [CommandNext]_runVars => Saved'
  BY SavedStep
<1> QED BY <1>1, <1>2, CommandInvariant, PTL DEF CommandSpec

(* Nothing that was streamed is missing in the history, whenever and       *)
(* however the run ends, as long as the database took every write of its   *)
(* rows; and a row that says "completed" has all the results of its file.  *)
THEOREM HistoryIsComplete == CommandSpec => []HistoryKeepsResults
<1> DEFINE Saved == \A r \in Runs : SavedInv(r)
<1>3. CommandInv /\ Saved => HistoryKeepsResults
  <2> SUFFICES ASSUME CommandInv, Saved, NEW r \in Runs
      PROVE  /\ (\A f \in Files : ~record[r][f].broken)
                => FoldFunction(+, 0, [f \in Files |-> record[r][f].saved])
                     = SentUpTo(r, "test_complete", Len(emitted[r]))
             /\ \A f \in Files :
                  record[r][f].row = "completed" => record[r][f].saved = NumTests
    BY Zenon DEF HistoryKeepsResults
  <2>1. \A f \in Files : record[r][f].row = "completed" => record[r][f].saved = NumTests
    BY DEF CommandInv, RunInv, RowInv
  <2>2. results[r] = SentUpTo(r, "test_complete", Len(emitted[r]))
    BY DEF CommandInv, RunInv, StreamInv, Total, Sent, SentUpTo
  <2>3. (\A f \in Files : ~record[r][f].broken) => Sum(SavedOf(r)) = results[r]
    BY DEF SavedInv, Unbroken
  <2>4. FoldFunction(+, 0, [f \in Files |-> record[r][f].saved]) = Sum(SavedOf(r))
    BY Zenon DEF Sum, SavedOf
  <2> QED BY <2>1, <2>2, <2>3, <2>4, Zenon
<1> QED BY <1>3, SavedInvariant, CommandInvariant, PTL

-----------------------------------------------------------------------------
(* The life of a row.  Only the run that works on it writes it.            *)
LEMMA RowsOfOthers ==
  ASSUME CommandInv, NEW r \in Runs,
         (\E k \in {"single", "batch"} : Submit(r, k)) \/ RunStep(r) \/ Stop(r),
         record'[r] = record[r] /\ (pc[r] = "test" <=> pc'[r] = "test"),
         pc[r] = "test" => file'[r] = file[r]
  PROVE  RowOf' = RowOf /\ Working' = Working
<1>1. \A q \in Runs \ {r} : record'[q] = record[q] /\ pc'[q] = pc[q] /\ file'[q] = file[q]
  BY SubmitStep, RunStepKeepsInv, StopStep
     DEF CommandInv, Here, There, CommandsKept, ElsewhereInCommands
<1>2. ASSUME NEW p \in Runs \X Files
      PROVE  /\ record'[p[1]][p[2]].row = record[p[1]][p[2]].row
             /\ (pc'[p[1]] = "test" /\ file'[p[1]] = p[2]) = (pc[p[1]] = "test" /\ file[p[1]] = p[2])
  BY <1>1
<1> QED BY <1>2 DEF RowOf, Working

(* A step that takes the row of one file from one state to another.        *)
LEMMA RowMoves ==
  ASSUME CommandInv, NEW r \in Runs, RunStep(r), file[r] \in Files,
         file'[r] = file[r], pc[r] = "test" \/ pc'[r] = "test",
         \A f \in Files \ {file[r]} : record'[r][f] = record[r][f]
  PROVE  LET p == <<r, file[r]>> IN
         /\ p \in Runs \X Files
         /\ RowOf[p] = CurrentRecord(r).row
         /\ Working[p] = (pc[r] = "test")
         /\ RowOf' = [RowOf EXCEPT ![p] = record'[r][file[r]].row]
         /\ Working' = [Working EXCEPT ![p] = (pc'[r] = "test")]
<1> DEFINE p == <<r, file[r]>>
           row == record'[r][file[r]].row
           at == (pc'[r] = "test")
<1>1. \A q \in Runs \ {r} : record'[q] = record[q] /\ pc'[q] = pc[q] /\ file'[q] = file[q]
  BY RunStepKeepsInv DEF CommandInv, Here, There, CommandsKept, ElsewhereInCommands
<1>2. /\ p \in Runs \X Files /\ RowOf[p] = CurrentRecord(r).row
      /\ Working[p] = (pc[r] = "test")
  BY DEF RowOf, Working, CurrentRecord
<1>3. ASSUME NEW o \in Runs \X Files, o # p
      PROVE  /\ record'[o[1]][o[2]].row = record[o[1]][o[2]].row
             /\ (pc'[o[1]] = "test" /\ file'[o[1]] = o[2]) = (pc[o[1]] = "test" /\ file[o[1]] = o[2])
  <2>1. o[1] \in Runs /\ o[2] \in Files /\ (o[1] # r \/ o[2] # file[r])
    BY <1>3
  <2>2. CASE o[1] # r
    BY <1>1, <2>1, <2>2
  <2>3. CASE o[1] = r
    BY <2>1, <2>3
  <2> QED BY <2>2, <2>3
<1>4. ASSUME NEW o \in Runs \X Files
      PROVE  RowOf'[o] = [RowOf EXCEPT ![p] = row][o]
  BY <1>2, <1>3 DEF RowOf
<1>5. ASSUME NEW o \in Runs \X Files
      PROVE  Working'[o] = [Working EXCEPT ![p] = at][o]
  BY <1>2, <1>3 DEF Working
<1>6. RowOf' = [RowOf EXCEPT ![p] = row]
  <2>1. /\ RowOf' = [o \in Runs \X Files |-> RowOf'[o]]
        /\ [RowOf EXCEPT ![p] = row] = [o \in Runs \X Files |-> [RowOf EXCEPT ![p] = row][o]]
    BY DEF RowOf
  <2> QED BY <1>4, <2>1
<1>7. Working' = [Working EXCEPT ![p] = at]
  <2>1. /\ Working' = [o \in Runs \X Files |-> Working'[o]]
        /\ [Working EXCEPT ![p] = at] = [o \in Runs \X Files |-> [Working EXCEPT ![p] = at][o]]
    BY DEF Working
  <2> QED BY <1>5, <2>1
<1> QED BY <1>2, <1>6, <1>7

(* The runner is ready: the row of its file is opened, or refused.         *)
LEMMA InitializedOpens ==
  ASSUME CommandInv, NEW r \in Runs, SavedInv(r), Initialized(r)
  PROVE  Lifecycle!Open(<<r, file[r]>>)
<1> DEFINE p == <<r, file[r]>>
<1>1. Here(r) /\ pc[r] = "init" /\ RunStep(r)
  BY DEF CommandInv, Here, Initialized, RunStep
<1>2. file[r] \in Files /\ CommandTypeOK /\ file'[r] = file[r] /\ pc'[r] = "test"
  BY <1>1, InFile DEF Here, Initialized, Goto, CommandTypeOK
<1>3. PICK ok \in BOOLEAN : SetRecord(r, Begin(NewRecord, ok))
  BY OutcomesAreBoolean DEF Initialized
<1>4. /\ Begin(NewRecord, ok) \in Records
      /\ Begin(NewRecord, ok).row \in {"none", "running"}
  BY BegunRecord
<1>5. /\ record'[r][file[r]].row \in {"none", "running"}
      /\ \A f \in Files \ {file[r]} : record'[r][f] = record[r][f]
  BY <1>2, <1>3, <1>4, SetRecordTypes
<1>6. CurrentRecord(r).row = "none"
  BY <1>1, <1>2 DEF SavedInv, Unopened, CurrentRecord, NewRecord
<1>7. /\ RowOf[p] = "none" /\ ~Working[p]
      /\ RowOf' = [RowOf EXCEPT ![p] = record'[r][file[r]].row]
      /\ Working' = [Working EXCEPT ![p] = TRUE]
  BY <1>1, <1>2, <1>5, <1>6, RowMoves
<1> QED BY <1>5, <1>7 DEF Lifecycle!Open

(* The tests end, whichever way: the row gets its final status, or none.   *)
LEMMA TestsClose ==
  ASSUME CommandInv, NEW r \in Runs, SavedInv(r),
         LastTest(r) \/ TestRaised(r) \/ TestCancelled(r)
  PROVE  Lifecycle!Close(<<r, file[r]>>)
<1> DEFINE p == <<r, file[r]>>
           cur == CurrentRecord(r)
           row == record'[r][file[r]].row
<1>1. Here(r) /\ pc[r] = "test" /\ RunStep(r)
  BY DEF CommandInv, Here, LastTest, TestRaised, TestCancelled, RunStep
<1>2. /\ file[r] \in Files /\ CommandTypeOK /\ file'[r] = file[r] /\ pc'[r] = "cleanup"
      /\ cur \in Records
  BY <1>1, InFile DEF Here, LastTest, TestRaised, TestCancelled, Goto, CommandTypeOK,
                      CurrentRecord
<1>3. Writable(cur) => cur.row = "running"
  BY <1>2 DEF SavedInv, CurrentRecord
<1>4. \E rec \in Records :
        /\ SetRecord(r, rec)
        /\ \/ rec.row = cur.row
           \/ cur.row = "running" /\ rec.row \in {"completed", "stopped", "error"}
  <2>1. CASE LastTest(r)
    <3>1. PICK ok1 \in BOOLEAN, ok2 \in BOOLEAN :
            SetRecord(r, Finish(AppendResult(cur, ok1), "completed", ok2))
      BY <2>1, OutcomesAreBoolean DEF LastTest
    <3> DEFINE app == AppendResult(cur, ok1)
               fin == Finish(app, "completed", ok2)
    <3>2. app \in Records /\ app.row = cur.row /\ (Writable(app) => Writable(cur))
      BY <1>2, AppendedRecord
    <3> HIDE DEF app, cur
    <3>3. /\ fin \in Records /\ fin.row \in {app.row, "completed"}
          /\ fin.row # app.row => Writable(app)
      BY <3>2, FinishedRecord
    <3>4. SetRecord(r, fin)
      BY <3>1 DEF app
    <3> HIDE DEF fin
    <3> QED BY <1>3, <3>2, <3>3, <3>4
  <2>2. CASE TestRaised(r) \/ TestCancelled(r)
    <3>1. PICK ok \in BOOLEAN, s \in {"error", "stopped"} : SetRecord(r, Finish(cur, s, ok))
      BY <2>2, OutcomesAreBoolean DEF TestRaised, TestCancelled
    <3> DEFINE fin == Finish(cur, s, ok)
    <3> HIDE DEF cur
    <3>2. fin \in Records /\ fin.row \in {cur.row, s} /\ (fin.row # cur.row => Writable(cur))
      BY <1>2, FinishedRecord
    <3>3. SetRecord(r, fin)
      BY <3>1
    <3> HIDE DEF fin
    <3> QED BY <1>3, <3>2, <3>3
  <2> QED BY <2>1, <2>2
<1>5. /\ row = cur.row \/ (cur.row = "running" /\ row \in {"completed", "stopped", "error"})
      /\ \A f \in Files \ {file[r]} : record'[r][f] = record[r][f]
  BY <1>2, <1>4, SetRecordTypes
<1>6. /\ p \in Runs \X Files /\ RowOf[p] = cur.row /\ Working[p]
      /\ RowOf' = [RowOf EXCEPT ![p] = row] /\ Working' = [Working EXCEPT ![p] = FALSE]
  BY <1>1, <1>2, <1>5, RowMoves
<1>7. CASE row = cur.row
  <2>1. RowOf' = RowOf
    <3>1. RowOf = [o \in Runs \X Files |-> RowOf[o]]
      BY DEF RowOf
    <3>2. RowOf[p] = row /\ RowOf' = [RowOf EXCEPT ![p] = row]
      BY <1>6, <1>7
    <3> HIDE DEF p, row
    <3> QED BY <3>1, <3>2
  <2> QED BY <1>6, <2>1 DEF Lifecycle!Close
<1>8. CASE cur.row = "running" /\ row \in {"completed", "stopped", "error"}
  BY <1>6, <1>8 DEF Lifecycle!Close
<1> QED BY <1>5, <1>7, <1>8

(* Between two tests of a file the row keeps its status.                   *)
LEMMA NextTestKeepsRow ==
  ASSUME CommandInv, NEW r \in Runs, NextTest(r)
  PROVE  RowOf' = RowOf /\ Working' = Working
<1> DEFINE p == <<r, file[r]>>
           cur == CurrentRecord(r)
<1>1. Here(r) /\ pc[r] = "test" /\ pc'[r] = "test" /\ RunStep(r) /\ file'[r] = file[r]
  BY DEF CommandInv, Here, NextTest, RunStep
<1>2. file[r] \in Files /\ CommandTypeOK /\ cur \in Records
  BY <1>1, InFile DEF Here, CommandTypeOK, CurrentRecord
<1>3. PICK ok \in BOOLEAN : SetRecord(r, AppendResult(cur, ok))
  BY OutcomesAreBoolean DEF NextTest
<1>4. AppendResult(cur, ok) \in Records /\ AppendResult(cur, ok).row = cur.row
  BY <1>2, AppendedRecord
<1>5. /\ record'[r][file[r]].row = cur.row
      /\ \A f \in Files \ {file[r]} : record'[r][f] = record[r][f]
  BY <1>2, <1>3, <1>4, SetRecordTypes
<1>6. /\ RowOf[p] = cur.row /\ Working[p] = TRUE
      /\ RowOf' = [RowOf EXCEPT ![p] = cur.row] /\ Working' = [Working EXCEPT ![p] = TRUE]
  BY <1>1, <1>2, <1>5, RowMoves
<1> QED BY <1>6 DEF RowOf, Working

(* Nothing else touches a row or the tests of its file.                    *)
LEMMA OtherStepsKeepRows ==
  ASSUME CommandInv, NEW r \in Runs,
         (\E k \in {"single", "batch"} : Submit(r, k)) \/ RunStep(r) \/ Stop(r),
         ~Initialized(r), ~NextTest(r), ~LastTest(r), ~TestRaised(r), ~TestCancelled(r)
  PROVE  RowOf' = RowOf /\ Working' = Working
<1>1. CommandTypeOK /\ SlotInv /\ ControlInv(r)
  BY DEF CommandInv, RunInv
<1> DEFINE Keeps == /\ record' = record
                    /\ \/ pc[r] # "test" /\ pc'[r] # "test"
                       \/ pc' = pc /\ file' = file
<1>2. ASSUME \/ \E k \in {"single", "batch"} : Submit(r, k)
             \/ Stop(r) \/ EndTask(r) \/ StopQueued(r)
      PROVE  Keeps
  BY <1>2 DEF Submit, Stop, EndTask, StopQueued, commandVars
<1>3. ASSUME StartTask(r) \/ ResumeTask(r) PROVE Keeps
  <2>1. slot[r] # "holding"
    BY <1>3 DEF StartTask, AcquireFree, Park, ResumeTask, Resume
  <2>2. pc[r] = "idle"
    BY <1>1, <2>1 DEF ControlInv
  <2> QED BY <1>1, <1>3, <2>2 DEF StartTask, ResumeTask, Goto, CommandTypeOK
<1>4. ASSUME \/ CommandRaised(r) \/ BatchFailed(r) \/ OpenFile(r) \/ FinishBatch(r)
             \/ Connected(r) \/ InitFailed(r) \/ InitCancelled(r)
      PROVE  Keeps
  BY <1>1, <1>4 DEF CommandRaised, BatchFailed, OpenFile, FinishBatch, Connected,
                    InitFailed, InitCancelled, Goto, CommandTypeOK
<1>5. ASSUME NEW msgs, ReturnFromFile(r, msgs) PROVE pc'[r] # "test"
  <2>1. CASE kind[r] = "single"
    BY <1>1, <1>5, <2>1 DEF ReturnFromFile, Goto, CommandTypeOK
  <2>2. CASE kind[r] # "single"
    BY <1>1, <1>5, <2>2 DEF ReturnFromFile, Goto, CommandTypeOK
  <2> QED BY <2>1, <2>2
<1>6. ASSUME Unwind(r) PROVE pc'[r] # "test"
  BY <1>1, <1>6 DEF Unwind, Goto, CommandTypeOK
<1>7. ASSUME UnusableFile(r) \/ ConnectFailed(r) \/ ConnectCancelled(r)
      PROVE  Keeps
  <2>1. record' = record /\ pc[r] # "test"
    BY <1>7 DEF UnusableFile, ConnectFailed, ConnectCancelled
  <2>2. (\E msgs : ReturnFromFile(r, msgs)) \/ Unwind(r)
    BY <1>7 DEF UnusableFile, ConnectFailed, ConnectCancelled
  <2> QED BY <1>5, <1>6, <2>1, <2>2
<1>8. ASSUME CleanedUp(r) \/ Closed(r) \/ FinallyCancelled(r)
      PROVE  Keeps
  <2>1. record' = record /\ pc[r] # "test"
    BY <1>8 DEF CleanedUp, Closed, FinallyCancelled
  <2>2. Goto(r, "close") \/ ReturnFromFile(r, <<>>) \/ Unwind(r)
    BY <1>8 DEF CleanedUp, Closed, FinallyCancelled, EndFile
  <2>3. Goto(r, "close") => pc'[r] # "test"
    BY <1>1 DEF Goto, CommandTypeOK
  <2> QED BY <1>5, <1>6, <2>1, <2>2, <2>3
<1>9. Keeps
  BY <1>2, <1>3, <1>4, <1>7, <1>8, Zenon DEF RunStep
<1>10. /\ record'[r] = record[r] /\ (pc[r] = "test" <=> pc'[r] = "test")
       /\ pc[r] = "test" => file'[r] = file[r]
  BY <1>9
<1> QED BY <1>10, RowsOfOthers

(* What RunHistory takes for granted of a run is what the commands do: the *)
(* row of a file is opened once, by the run that works on it, is nobody    *)
(* else's to write, and gets one final status, when its tests end.         *)
THEOREM CommandsKeepPromise == CommandSpec => ImplementsLifecycle
<1> DEFINE Saved == \A r \in Runs : SavedInv(r)
<1>1. CommandInit => Lifecycle!LifecycleInit
  <2> SUFFICES ASSUME CommandInit PROVE Lifecycle!LifecycleInit
    OBVIOUS
  <2>1. \A p \in Runs \X Files : record[p[1]][p[2]].row = "none" /\ pc[p[1]] # "test"
    BY DEF CommandInit, NewRecord
  <2> QED BY <2>1 DEF Lifecycle!LifecycleInit, RowOf, Working
<1>2. CommandInv /\ Saved /\ [CommandNext]_runVars
      => [Lifecycle!LifecycleNext]_(Lifecycle!lifecycleVars)
  <2> SUFFICES ASSUME CommandInv, Saved, [CommandNext]_runVars
      PROVE  Lifecycle!LifecycleNext \/ (RowOf' = RowOf /\ Working' = Working)
    BY DEF Lifecycle!lifecycleVars
  <2>1. CASE UNCHANGED runVars
    BY <2>1 DEF runVars, commandVars, RowOf, Working
  <2>2. ASSUME NEW r \in Runs,
               (\E k \in {"single", "batch"} : Submit(r, k)) \/ RunStep(r) \/ Stop(r)
        PROVE  Lifecycle!LifecycleNext \/ (RowOf' = RowOf /\ Working' = Working)
    <3>1. ASSUME \/ Initialized(r) \/ LastTest(r) \/ TestRaised(r) \/ TestCancelled(r)
          PROVE  Lifecycle!LifecycleNext
      <4>1. file[r] \in Files
        BY <3>1, InFile DEF CommandInv, Here, Initialized, LastTest, TestRaised, TestCancelled
      <4>2. <<r, file[r]>> \in Runs \X Files
        BY <4>1
      <4>3. Lifecycle!Open(<<r, file[r]>>) \/ Lifecycle!Close(<<r, file[r]>>)
        BY <3>1, InitializedOpens, TestsClose
      <4> QED BY <4>2, <4>3 DEF Lifecycle!LifecycleNext
    <3>2. CASE NextTest(r)
      BY <3>2, NextTestKeepsRow
    <3>3. CASE /\ ~Initialized(r) /\ ~NextTest(r) /\ ~LastTest(r)
               /\ ~TestRaised(r) /\ ~TestCancelled(r)
      BY <2>2, <3>3, OtherStepsKeepRows
    <3> QED BY <3>1, <3>2, <3>3
  <2> QED BY <2>1, <2>2 DEF CommandNext
<1> QED BY <1>1, <1>2, CommandInvariant, SavedInvariant, PTL
        DEF CommandSpec, ImplementsLifecycle, Lifecycle!LifecycleSpec

=============================================================================
