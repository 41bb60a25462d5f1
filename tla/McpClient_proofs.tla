-------------------------- MODULE McpClient_proofs --------------------------
(***************************************************************************)
(* Proofs about McpClient, for every finite set of callers and any number  *)
(* of operations.                                                          *)
(***************************************************************************)
EXTENDS McpClient, FiniteSetTheorems, TLAPS

Readers == {c \in Callers : pc[c] \in ReaderPcs}

Writers == {c \in Callers : pc[c] \in WriterPcs}

QueuedWriters == {c \in parked : pc[c] = "enterExclusive"}

(* Whoever sleeps at the guard could not go on if it looked again. *)
Sleeping ==
  \A c \in parked \ notified : IF pc[c] = "enterShared" THEN ~MayRead ELSE ~MayWrite

(* The guard's counters are what their names say, what they count excludes *)
(* each other, and nobody sleeps who could go on.                          *)
Guarded ==
  /\ GuardTypes /\ pc \in [Callers -> Pcs]
  /\ activeReaders  = Cardinality(Readers)
  /\ waitingWriters = Cardinality(QueuedWriters)
  /\ writerActive <=> Writers # {}
  /\ \A c, d \in Writers : c = d
  /\ Writers # {} => Readers = {}
  /\ \A c \in parked : pc[c] \in {"enterShared", "enterExclusive"}
  /\ Sleeping

-----------------------------------------------------------------------------
(* Cardinalities of two sets that differ in one element at most. *)
LEMMA OneApart ==
  ASSUME NEW S, NEW T, NEW x, IsFiniteSet(S), S \ {x} = T \ {x}
  PROVE  /\ IsFiniteSet(T) /\ Cardinality(S) \in Int /\ Cardinality(T) \in Int
         /\ x \in S /\ x \notin T => Cardinality(T) = Cardinality(S) - 1
         /\ x \notin S /\ x \in T => Cardinality(T) = Cardinality(S) + 1
         /\ (x \in S <=> x \in T) => Cardinality(T) = Cardinality(S)
<1>1. /\ IsFiniteSet(S \ {x})
      /\ Cardinality(S \ {x}) = IF x \in S THEN Cardinality(S) - 1 ELSE Cardinality(S)
  BY FS_RemoveElement
<1>2. /\ IsFiniteSet((S \ {x}) \union {x})
      /\ Cardinality((S \ {x}) \union {x}) = Cardinality(S \ {x}) + 1
  BY <1>1, FS_AddElement
<1>3. T = IF x \in T THEN (S \ {x}) \union {x} ELSE S \ {x}
  OBVIOUS
<1>4. IsFiniteSet(T)
  BY <1>1, <1>2, <1>3
<1>5. Cardinality(S) \in Int /\ Cardinality(T) \in Int
  BY <1>4, FS_CardinalityType
<1> QED BY <1>1, <1>2, <1>3, <1>4, <1>5

LEMMA SameElsewhere ==
  ASSUME NEW S, NEW T, NEW x, x \notin S, x \notin T, S \ {x} = T \ {x}
  PROVE  S = T
<1>1. \A y : y \in S <=> y \in T
  OBVIOUS
<1> QED BY <1>1

(* A caller goes from one place to another: what becomes of the counts.    *)
Move(c, x) ==
  /\ pc' \in [Callers -> Pcs]
  /\ \A d \in Callers : pc'[d] = IF d = c THEN x ELSE pc[d]
  /\ Readers' \ {c} = Readers \ {c} /\ (c \in Readers' <=> x \in ReaderPcs)
  /\ Writers' \ {c} = Writers \ {c} /\ (c \in Writers' <=> x \in WriterPcs)
  /\ c \in Readers <=> pc[c] \in ReaderPcs
  /\ c \in Writers <=> pc[c] \in WriterPcs
  /\ Cardinality(Readers) \in Int /\ Cardinality(Readers') \in Int
  /\ Cardinality(QueuedWriters) \in Int /\ Cardinality(QueuedWriters') \in Int
  /\ c \in Readers /\ c \notin Readers' => Cardinality(Readers') = Cardinality(Readers) - 1
  /\ c \notin Readers /\ c \in Readers' => Cardinality(Readers') = Cardinality(Readers) + 1
  /\ (c \in Readers <=> c \in Readers') => Cardinality(Readers') = Cardinality(Readers)
  /\ c \in QueuedWriters /\ c \notin QueuedWriters' =>
       Cardinality(QueuedWriters') = Cardinality(QueuedWriters) - 1
  /\ c \notin QueuedWriters /\ c \in QueuedWriters' =>
       Cardinality(QueuedWriters') = Cardinality(QueuedWriters) + 1
  /\ (c \in QueuedWriters <=> c \in QueuedWriters') =>
       Cardinality(QueuedWriters') = Cardinality(QueuedWriters)

LEMMA Moved ==
  ASSUME Guarded, NEW c \in Callers, NEW x \in Pcs, pc' = [pc EXCEPT ![c] = x],
         parked' \ {c} = parked \ {c}, parked' \subseteq Callers
  PROVE  Move(c, x)
<1>1. /\ pc' \in [Callers -> Pcs]
      /\ \A d \in Callers : pc'[d] = IF d = c THEN x ELSE pc[d]
  BY DEF Guarded
<1>2. parked \subseteq Callers
  BY DEF Guarded, GuardTypes
<1>3. /\ Readers' \ {c} = Readers \ {c} /\ (c \in Readers' <=> x \in ReaderPcs)
      /\ c \in Readers <=> pc[c] \in ReaderPcs
  BY <1>1 DEF Readers
<1>4. /\ Writers' \ {c} = Writers \ {c} /\ (c \in Writers' <=> x \in WriterPcs)
      /\ c \in Writers <=> pc[c] \in WriterPcs
  BY <1>1 DEF Writers
<1>5. QueuedWriters' \ {c} = QueuedWriters \ {c}
  BY <1>1, <1>2 DEF QueuedWriters
<1>6. IsFiniteSet(Readers) /\ IsFiniteSet(QueuedWriters)
  <2>1. Readers \subseteq Callers /\ QueuedWriters \subseteq Callers
    BY <1>2 DEF Readers, QueuedWriters
  <2> QED BY <2>1, McpAssumption, FS_Subset
<1>7. /\ Cardinality(Readers) \in Int /\ Cardinality(Readers') \in Int
      /\ c \in Readers /\ c \notin Readers' => Cardinality(Readers') = Cardinality(Readers) - 1
      /\ c \notin Readers /\ c \in Readers' => Cardinality(Readers') = Cardinality(Readers) + 1
      /\ (c \in Readers <=> c \in Readers') => Cardinality(Readers') = Cardinality(Readers)
  BY <1>3, <1>6, OneApart, Zenon
<1>8. /\ Cardinality(QueuedWriters) \in Int /\ Cardinality(QueuedWriters') \in Int
      /\ c \in QueuedWriters /\ c \notin QueuedWriters' =>
           Cardinality(QueuedWriters') = Cardinality(QueuedWriters) - 1
      /\ c \notin QueuedWriters /\ c \in QueuedWriters' =>
           Cardinality(QueuedWriters') = Cardinality(QueuedWriters) + 1
      /\ (c \in QueuedWriters <=> c \in QueuedWriters') =>
           Cardinality(QueuedWriters') = Cardinality(QueuedWriters)
  BY <1>5, <1>6, OneApart, Zenon
<1> QED BY <1>1, <1>3, <1>4, <1>7, <1>8, Zenon DEF Move

-----------------------------------------------------------------------------
(* The guard, operation by operation *)

LEMMA PcSets ==
  /\ ReaderPcs \subseteq Pcs /\ WriterPcs \subseteq Pcs
  /\ {"idle", "enterShared", "enterExclusive"} \subseteq Pcs
  /\ ReaderPcs \intersect WriterPcs = {}
  /\ \A x \in {"idle", "enterShared", "enterExclusive"} : x \notin ReaderPcs /\ x \notin WriterPcs
BY DEF Pcs, ReaderPcs, WriterPcs

Count(b) == IF b THEN 1 ELSE 0

(* A step of the guard that counts what it does. *)
Counted(c, x) ==
  /\ GuardTypes' /\ parked' \ {c} = parked \ {c}
  /\ c \in parked' => x \in {"enterShared", "enterExclusive"}
  /\ activeReaders' = activeReaders + Count(x \in ReaderPcs) - Count(pc[c] \in ReaderPcs)
  /\ waitingWriters' = waitingWriters + Count(c \in parked' /\ x = "enterExclusive")
                          - Count(c \in parked /\ pc[c] = "enterExclusive")
  /\ writerActive' <=> x \in WriterPcs \/ (writerActive /\ pc[c] \notin WriterPcs)
  /\ x \in ReaderPcs => ~writerActive
  /\ x \in WriterPcs /\ pc[c] \notin WriterPcs => ~writerActive /\ activeReaders = 0
  /\ \A d \in parked' \ notified' :
       IF (IF d = c THEN x ELSE pc[d]) = "enterShared" THEN ~MayRead' ELSE ~MayWrite'

LEMMA CountsAreNatural ==
  ASSUME Guarded
  PROVE  activeReaders \in Nat /\ waitingWriters \in Nat
<1>1. Readers \subseteq Callers /\ QueuedWriters \subseteq Callers
  BY DEF Guarded, GuardTypes, Readers, QueuedWriters
<1>2. IsFiniteSet(Readers) /\ IsFiniteSet(QueuedWriters)
  BY <1>1, McpAssumption, FS_Subset
<1> QED BY <1>2, FS_CardinalityType DEF Guarded

LEMMA GuardKept ==
  ASSUME Guarded, NEW c \in Callers, NEW x \in Pcs, pc' = [pc EXCEPT ![c] = x], Counted(c, x)
  PROVE  Guarded'
<1> USE DEF Counted
<1>1. Move(c, x)
  BY Moved DEF GuardTypes
<1>2. /\ c \in QueuedWriters <=> c \in parked /\ pc[c] = "enterExclusive"
      /\ c \in QueuedWriters' <=> c \in parked' /\ x = "enterExclusive"
  BY <1>1 DEF Move, QueuedWriters
<1>3. activeReaders' = Cardinality(Readers')
  BY <1>1 DEF Move, Guarded, Count
<1>4. waitingWriters' = Cardinality(QueuedWriters')
  BY <1>1, <1>2 DEF Move, Guarded, Count
<1>5. writerActive' <=> Writers' # {}
  <2>1. CASE x \in WriterPcs
    BY <2>1, <1>1, Zenon DEF Move
  <2>2. CASE x \notin WriterPcs /\ pc[c] \in WriterPcs
    <3>1. Writers = {c}
      BY <2>2, <1>1 DEF Move, Guarded
    <3> QED BY <2>2, <3>1, <1>1 DEF Move
  <2>3. CASE x \notin WriterPcs /\ pc[c] \notin WriterPcs
    <3>1. c \notin Writers /\ c \notin Writers' /\ Writers' \ {c} = Writers \ {c}
      BY <2>3, <1>1 DEF Move
    <3>2. Writers' = Writers
      BY <3>1, SameElsewhere, Zenon
    <3> QED BY <2>3, <3>2, Zenon DEF Guarded
  <2> QED BY <2>1, <2>2, <2>3
<1>6. (\A d, e \in Writers' : d = e) /\ (Writers' # {} => Readers' = {})
  <2>1. CASE x \in WriterPcs
    <3>1. Writers \subseteq {c} /\ Readers = {}
      <4>1. CASE pc[c] \in WriterPcs
        BY <4>1, <1>1 DEF Move, Guarded
      <4>2. CASE pc[c] \notin WriterPcs
        <5>1. Writers = {} /\ Cardinality(Readers) = 0
          BY <4>2, <2>1 DEF Guarded
        <5>2. IsFiniteSet(Readers)
          BY McpAssumption, FS_Subset DEF Readers
        <5> QED BY <5>1, <5>2, FS_EmptySet
      <4> QED BY <4>1, <4>2
    <3>2. x \notin ReaderPcs
      BY <2>1, PcSets
    <3> QED BY <3>1, <3>2, <2>1, <1>1 DEF Move
  <2>2. CASE x \in ReaderPcs
    <3>1. Writers = {} /\ x \notin WriterPcs
      BY <2>2, PcSets DEF Guarded
    <3> QED BY <3>1, <1>1 DEF Move
  <2>3. CASE x \notin WriterPcs /\ x \notin ReaderPcs
    <3>1. Writers' \subseteq Writers /\ Readers' \subseteq Readers
      BY <2>3, <1>1 DEF Move
    <3> QED BY <3>1 DEF Guarded
  <2> QED BY <2>1, <2>2, <2>3
<1>7. \A d \in parked' : pc'[d] \in {"enterShared", "enterExclusive"}
  BY <1>1 DEF Move, Guarded, GuardTypes
<1>8. Sleeping'
  <2>1. \A d \in parked' \ notified' : pc'[d] = IF d = c THEN x ELSE pc[d]
    BY <1>1 DEF Move, GuardTypes
  <2> QED BY <2>1 DEF Sleeping
<1> QED BY <1>1, <1>3, <1>4, <1>5, <1>6, <1>7, <1>8 DEF Guarded, Move

LEMMA SharedSteps ==
  ASSUME Guarded, NEW c \in Callers, NEW x \in Pcs, pc' = [pc EXCEPT ![c] = x],
         \/ AcquireShared(c) /\ pc[c] = "enterShared" /\ x \in ReaderPcs
         \/ ParkShared(c) /\ pc[c] = "enterShared" /\ x = "enterShared"
         \/ (PassShared(c) \/ LeaveShared(c)) /\ pc[c] = "enterShared" /\ x = "idle"
         \/ ReleaseShared /\ pc[c] \in ReaderPcs /\ x \in {"idle", "enterExclusive"}
  PROVE  Guarded'
<1> USE PcSets, CountsAreNatural DEF Guarded, GuardTypes, Counted, Count, Sleeping, MayRead, MayWrite
<1>1. CASE AcquireShared(c) /\ pc[c] = "enterShared" /\ x \in ReaderPcs
  <2>1. Counted(c, x)
    BY <1>1 DEF AcquireShared, MayRead
  <2> QED BY <2>1, GuardKept
<1>2. CASE ParkShared(c) /\ pc[c] = "enterShared" /\ x = "enterShared"
  <2>1. Counted(c, x)
    BY <1>2 DEF ParkShared
  <2> QED BY <2>1, GuardKept
<1>3. CASE (PassShared(c) \/ LeaveShared(c)) /\ pc[c] = "enterShared" /\ x = "idle"
  <2>1. Counted(c, x)
    BY <1>3 DEF PassShared, LeaveShared
  <2> QED BY <2>1, GuardKept
<1>4. CASE ReleaseShared /\ pc[c] \in ReaderPcs /\ x \in {"idle", "enterExclusive"}
  <2>1. c \notin parked /\ pc[c] \notin WriterPcs /\ x \notin ReaderPcs /\ x \notin WriterPcs
    BY <1>4
  <2>2. GuardTypes' /\ parked' = parked
    BY <1>4 DEF ReleaseShared
  <2>3. /\ activeReaders' = activeReaders + Count(x \in ReaderPcs) - Count(pc[c] \in ReaderPcs)
        /\ waitingWriters' = waitingWriters + Count(c \in parked' /\ x = "enterExclusive")
                                - Count(c \in parked /\ pc[c] = "enterExclusive")
    BY <1>4, <2>1 DEF ReleaseShared
  <2>4. writerActive' = writerActive
    BY <1>4 DEF ReleaseShared
  <2>5. \A d \in parked' \ notified' :
          IF (IF d = c THEN x ELSE pc[d]) = "enterShared" THEN ~MayRead' ELSE ~MayWrite'
    BY <1>4, <2>1 DEF ReleaseShared
  <2>6. Counted(c, x)
    BY <2>1, <2>2, <2>3, <2>4, <2>5, Zenon DEF Counted
  <2> QED BY <2>6, GuardKept
<1> QED BY <1>1, <1>2, <1>3, <1>4

LEMMA ExclusiveSteps ==
  ASSUME Guarded, NEW c \in Callers, NEW x \in Pcs, pc' = [pc EXCEPT ![c] = x],
         \/ AcquireExclusive(c) /\ pc[c] = "enterExclusive" /\ x \in WriterPcs
         \/ ParkExclusive(c) /\ pc[c] = "enterExclusive" /\ x = "enterExclusive"
         \/ PassExclusive(c) /\ pc[c] = "enterExclusive" /\ x \in {"idle", "enterShared"}
         \/ LeaveExclusive(c) /\ pc[c] = "enterExclusive" /\ x = "idle"
         \/ ReleaseExclusive /\ pc[c] \in WriterPcs /\ x \in {"idle", "enterShared"}
  PROVE  Guarded'
<1> USE PcSets, CountsAreNatural DEF Guarded, GuardTypes, Counted, Count, Sleeping, MayRead, MayWrite
<1>1. CASE AcquireExclusive(c) /\ pc[c] = "enterExclusive" /\ x \in WriterPcs
  <2>1. Counted(c, x)
    BY <1>1 DEF AcquireExclusive, MayWrite, OthersWaiting
  <2> QED BY <2>1, GuardKept
<1>2. CASE ParkExclusive(c) /\ pc[c] = "enterExclusive" /\ x = "enterExclusive"
  <2>1. Counted(c, x)
    BY <1>2 DEF ParkExclusive, OthersWaiting
  <2> QED BY <2>1, GuardKept
<1>3. CASE PassExclusive(c) /\ pc[c] = "enterExclusive" /\ x \in {"idle", "enterShared"}
  <2>1. Counted(c, x)
    BY <1>3 DEF PassExclusive, OthersWaiting
  <2> QED BY <2>1, GuardKept
<1>4. CASE LeaveExclusive(c) /\ pc[c] = "enterExclusive" /\ x = "idle"
  <2>1. Counted(c, x)
    BY <1>4 DEF LeaveExclusive, OthersWaiting
  <2> QED BY <2>1, GuardKept
<1>5. CASE ReleaseExclusive /\ pc[c] \in WriterPcs /\ x \in {"idle", "enterShared"}
  <2>1. c \notin parked /\ pc[c] \notin ReaderPcs /\ x \notin ReaderPcs /\ x \notin WriterPcs
    BY <1>5
  <2>2. GuardTypes' /\ parked' = parked
    BY <1>5 DEF ReleaseExclusive
  <2>3. /\ activeReaders' = activeReaders + Count(x \in ReaderPcs) - Count(pc[c] \in ReaderPcs)
        /\ waitingWriters' = waitingWriters + Count(c \in parked' /\ x = "enterExclusive")
                                - Count(c \in parked /\ pc[c] = "enterExclusive")
    BY <1>5, <2>1 DEF ReleaseExclusive
  <2>4. ~writerActive'
    BY <1>5 DEF ReleaseExclusive
  <2>5. parked' \ notified' = {}
    BY <1>5 DEF ReleaseExclusive
  <2>6. Counted(c, x)
    BY <1>5, <2>1, <2>2, <2>3, <2>4, <2>5, Zenon DEF Counted
  <2> QED BY <2>6, GuardKept
<1> QED BY <1>1, <1>2, <1>3, <1>4, <1>5

LEMMA UnguardedSteps ==
  ASSUME Guarded, NEW c \in Callers, NEW x \in Pcs, pc' = [pc EXCEPT ![c] = x],
         UNCHANGED guardVars,
         \/ pc[c] \in WriterPcs /\ x \in WriterPcs
         \/ pc[c] = "idle" /\ x \in {"enterShared", "enterExclusive"}
         \/ pc[c] = "enterExclusive" /\ c \notin parked /\ x = "idle"
  PROVE  Guarded'
<1> USE PcSets, CountsAreNatural DEF Guarded, GuardTypes, Counted, Count, Sleeping, MayRead, MayWrite
<1>1. pc[c] \in WriterPcs \/ pc[c] = "idle" => c \notin parked
  OBVIOUS
<1>2. pc[c] \in WriterPcs => writerActive
  BY DEF Writers
<1>3. Counted(c, x)
  BY <1>1, <1>2 DEF guardVars
<1> QED BY <1>3, GuardKept

-----------------------------------------------------------------------------
(* initialize() runs before anybody else gets the client. *)
Initializing ==
  /\ todo = MaxOps => client = 0 /\ \A c \in Callers : pc[c] = "idle"
  /\ \A c \in Callers :
       /\ op[c] = "init" =>
            /\ \A d \in Callers : d # c => pc[d] = "idle"
            /\ pc[c] \in {"enterExclusive", "authenticating", "opening", "pinging", "dropping"}
            /\ pc[c] \in {"enterExclusive", "authenticating", "opening"} => client = 0
       /\ pc[c] \in {"authenticating", "opening"} => op[c] = "init"
       /\ pc[c] = "opening" => manager \in {0, 1}

(* What a call observed is never ahead of the client, and as long as the   *)
(* generation is the one it observed, so is the token; a refresh that      *)
(* succeeded since has moved the generation on.                            *)
Observations ==
  /\ generation = 0 => client = 0
  /\ epoch # 0 /\ failure # epoch => generation # 0
  /\ \A c \in Callers :
       /\ seen[c].generation <= generation
       /\ retry[c] => seen[c].generation < generation
       /\ generation = seen[c].generation => client = seen[c].token
       /\ epoch # seen[c].epoch /\ failure # epoch => generation # seen[c].generation

McpInv ==
  /\ McpTypes
  /\ Guarded
  /\ Initializing
  /\ Observations
  /\ SessionHasNewestToken
  /\ RefreshesRejectedToken

LEMMA SessionDropped ==
  ASSUME DropSession, generation \in Nat, manager \in Nat
  PROVE  client' \in Nat /\ generation' \in Nat /\ cache' \in BOOLEAN /\ manager' \in Nat
<1>1. client' \in Nat /\ generation' \in Nat /\ manager' \in Nat
  BY DEF DropSession
<1>2. cache' \in BOOLEAN
  BY Zenon DEF DropSession
<1> QED BY <1>1, <1>2

LEMMA TypesKept ==
  ASSUME McpTypes, NEW c \in Callers, Begin(c) \/ Proceed(c) \/ AnswerRead(c) \/ Cancel(c)
  PROVE  McpTypes'
<1> USE DEF McpTypes, Pcs, ReaderPcs, WriterPcs, Seen, NothingSeen, Goto, Finish, clientState, refreshVars,
            callerVars
<1>1. CASE Begin(c)
  <2>1. PICK o \in {"init", "call", "list", "read", "close"} :
          /\ op' = [op EXCEPT ![c] = o]
          /\ pc' = [pc EXCEPT ![c] = IF o \in {"init", "close"} THEN "enterExclusive" ELSE "enterShared"]
    BY <1>1 DEF Begin
  <2>2. todo' \in 0..MaxOps
    BY <1>1, McpAssumption DEF Begin
  <2> QED BY <1>1, <2>1, <2>2 DEF Begin
<1>2. CASE Park(c)
  BY <1>2 DEF Park
<1>3. CASE ServeAtOnce(c)
  BY <1>3 DEF ServeAtOnce
<1>4. CASE StartCall(c)
  BY <1>4 DEF StartCall
<1>5. CASE StartList(c)
  BY <1>5 DEF StartList
<1>6. CASE AnswerCall(c)
  BY <1>6 DEF AnswerCall
<1>7. CASE AnswerList(c)
  BY <1>7 DEF AnswerList
<1>8. CASE Reject(c)
  BY <1>8 DEF Reject
<1>9. CASE StartRefresh(c)
  BY <1>9 DEF StartRefresh
<1>10. CASE GiveUpRefresh(c)
  BY <1>10 DEF GiveUpRefresh
<1>11. CASE ReuseRefresh(c)
  BY <1>11 DEF ReuseRefresh
<1>12. CASE TokenIssued(c)
  BY <1>12 DEF TokenIssued
<1>13. CASE OldSessionClosed(c)
  <2>1. client' \in Nat /\ generation' \in Nat /\ cache' \in BOOLEAN /\ manager' \in Nat
    BY <1>13, SessionDropped, Zenon DEF OldSessionClosed, McpTypes, clientState
  <2> QED BY <1>13, <2>1 DEF OldSessionClosed
<1>14. CASE Reconnected(c)
  BY <1>14 DEF Reconnected
<1>15. CASE RefreshFailed(c)
  BY <1>15 DEF RefreshFailed
<1>16. CASE StartInit(c)
  BY <1>16 DEF StartInit
<1>17. CASE Authenticated(c)
  BY <1>17 DEF Authenticated
<1>18. CASE Opened(c)
  BY <1>18 DEF Opened
<1>19. CASE Pinged(c)
  BY <1>19 DEF Pinged
<1>20. CASE InitFailed(c)
  <2>1. CASE Finish(c)
    BY <1>20, <2>1 DEF InitFailed
  <2>2. CASE Goto(c, "dropping") /\ UNCHANGED <<guardVars, seen>>
    BY <1>20, <2>2 DEF InitFailed
  <2> QED BY <1>20, <2>1, <2>2, Zenon DEF InitFailed
<1>21. CASE StartClose(c)
  <2>1. CASE Finish(c)
    BY <1>21, <2>1 DEF StartClose
  <2>2. CASE Goto(c, "dropping") /\ UNCHANGED seen
    BY <1>21, <2>2 DEF StartClose
  <2> QED BY <1>21, <2>1, <2>2, Zenon DEF StartClose
<1>22. CASE Dropped(c)
  <2>1. client' \in Nat /\ generation' \in Nat /\ cache' \in BOOLEAN /\ manager' \in Nat
    BY <1>22, SessionDropped, Zenon DEF Dropped, McpTypes, clientState
  <2> QED BY <1>22, <2>1 DEF Dropped
<1>23. CASE Cancel(c)
  <2>1. client' \in Nat /\ generation' \in Nat /\ cache' \in BOOLEAN /\ manager' \in Nat
    BY <1>23, SessionDropped, Zenon DEF Cancel, McpTypes, clientState
  <2>2. Finish(c) /\ UNCHANGED refreshVars
    BY <1>23, Zenon DEF Cancel
  <2> QED BY <2>1, <2>2
<1>24. CASE StartRead(c)
  BY <1>24 DEF StartRead
<1>25. CASE AnswerRead(c)
  BY <1>25 DEF AnswerRead
<1> QED BY <1>1, <1>2, <1>3, <1>4, <1>5, <1>6, <1>7, <1>8, <1>9, <1>10, <1>11, <1>12, <1>13,
           <1>14, <1>15, <1>16, <1>17, <1>18, <1>19, <1>20, <1>21, <1>22, <1>23, <1>24, <1>25 DEF Proceed

LEMMA GuardStaysExact ==
  ASSUME McpTypes, Guarded, NEW c \in Callers, Begin(c) \/ Proceed(c) \/ AnswerRead(c) \/ Cancel(c)
  PROVE  Guarded'
<1> USE PcSets DEF McpTypes, ReaderPcs, WriterPcs, Goto, Finish
<1>1. CASE Begin(c)
  <2>1. PICK x \in {"enterShared", "enterExclusive"} : pc' = [pc EXCEPT ![c] = x]
    BY <1>1 DEF Begin
  <2> QED BY <1>1, <2>1, UnguardedSteps DEF Begin
<1>2. CASE Park(c)
  <2>1. pc' = [pc EXCEPT ![c] = pc[c]]
    BY <1>2 DEF Park, callerVars
  <2> QED BY <1>2, <2>1, SharedSteps, ExclusiveSteps DEF Park
<1>3. CASE ServeAtOnce(c)
  <2>1. pc' = [pc EXCEPT ![c] = "idle"]
    BY <1>3 DEF ServeAtOnce
  <2> QED BY <1>3, <2>1, SharedSteps DEF ServeAtOnce
<1>4. CASE StartCall(c)
  <2>1. pc' = [pc EXCEPT ![c] = "calling"]
    BY <1>4 DEF StartCall
  <2> QED BY <1>4, <2>1, SharedSteps DEF StartCall
<1>5. CASE StartList(c)
  <2>1. pc' = [pc EXCEPT ![c] = "listing"]
    BY <1>5 DEF StartList
  <2> QED BY <1>5, <2>1, SharedSteps DEF StartList
<1>6. CASE AnswerCall(c)
  <2>1. pc' = [pc EXCEPT ![c] = "idle"]
    BY <1>6 DEF AnswerCall
  <2> QED BY <1>6, <2>1, SharedSteps DEF AnswerCall
<1>7. CASE AnswerList(c)
  <2>1. pc' = [pc EXCEPT ![c] = "idle"]
    BY <1>7 DEF AnswerList
  <2> QED BY <1>7, <2>1, SharedSteps DEF AnswerList
<1>8. CASE Reject(c)
  <2>1. pc' = [pc EXCEPT ![c] = "enterExclusive"]
    BY <1>8 DEF Reject
  <2> QED BY <1>8, <2>1, SharedSteps DEF Reject
<1>9. CASE StartRefresh(c)
  <2>1. pc' = [pc EXCEPT ![c] = "refreshing"]
    BY <1>9 DEF StartRefresh
  <2> QED BY <1>9, <2>1, ExclusiveSteps DEF StartRefresh, Rejected
<1>10. CASE GiveUpRefresh(c)
  <2>1. pc' = [pc EXCEPT ![c] = "idle"]
    BY <1>10 DEF GiveUpRefresh
  <2> QED BY <1>10, <2>1, ExclusiveSteps DEF GiveUpRefresh, Rejected
<1>11. CASE ReuseRefresh(c)
  <2>1. pc' = [pc EXCEPT ![c] = "enterShared"]
    BY <1>11 DEF ReuseRefresh
  <2> QED BY <1>11, <2>1, ExclusiveSteps DEF ReuseRefresh, Rejected
<1>12. CASE TokenIssued(c)
  <2>1. pc' = [pc EXCEPT ![c] = "closing"]
    BY <1>12 DEF TokenIssued
  <2> QED BY <1>12, <2>1, UnguardedSteps DEF TokenIssued
<1>13. CASE OldSessionClosed(c)
  <2>1. pc' = [pc EXCEPT ![c] = "connecting"]
    BY <1>13 DEF OldSessionClosed
  <2> QED BY <1>13, <2>1, UnguardedSteps DEF OldSessionClosed
<1>14. CASE Reconnected(c)
  <2>1. pc' = [pc EXCEPT ![c] = "enterShared"]
    BY <1>14 DEF Reconnected
  <2> QED BY <1>14, <2>1, ExclusiveSteps DEF Reconnected
<1>15. CASE RefreshFailed(c)
  <2>1. pc' = [pc EXCEPT ![c] = "idle"]
    BY <1>15 DEF RefreshFailed
  <2> QED BY <1>15, <2>1, ExclusiveSteps DEF RefreshFailed
<1>16. CASE StartInit(c)
  <2>1. pc' = [pc EXCEPT ![c] = "authenticating"]
    BY <1>16 DEF StartInit
  <2> QED BY <1>16, <2>1, ExclusiveSteps DEF StartInit
<1>17. CASE Authenticated(c)
  <2>1. pc' = [pc EXCEPT ![c] = "opening"]
    BY <1>17 DEF Authenticated
  <2> QED BY <1>17, <2>1, UnguardedSteps DEF Authenticated
<1>18. CASE Opened(c)
  <2>1. pc' = [pc EXCEPT ![c] = "pinging"]
    BY <1>18 DEF Opened
  <2> QED BY <1>18, <2>1, UnguardedSteps DEF Opened
<1>19. CASE Pinged(c)
  <2>1. pc' = [pc EXCEPT ![c] = "idle"]
    BY <1>19 DEF Pinged
  <2> QED BY <1>19, <2>1, ExclusiveSteps DEF Pinged
<1>20. CASE InitFailed(c)
  <2>1. CASE pc[c] \in {"authenticating", "opening"} /\ ReleaseExclusive /\ Finish(c)
    <3>1. pc' = [pc EXCEPT ![c] = "idle"]
      BY <2>1
    <3> QED BY <2>1, <3>1, ExclusiveSteps
  <2>2. CASE pc[c] = "pinging" /\ Goto(c, "dropping") /\ UNCHANGED <<guardVars, seen>>
    <3>1. pc' = [pc EXCEPT ![c] = "dropping"] /\ UNCHANGED guardVars
      BY <2>2
    <3> QED BY <2>2, <3>1, UnguardedSteps
  <2> QED BY <1>20, <2>1, <2>2, Zenon DEF InitFailed
<1>21. CASE StartClose(c)
  <2>1. CASE AcquireExclusive(c) /\ Goto(c, "dropping")
    <3>1. pc' = [pc EXCEPT ![c] = "dropping"] /\ pc[c] = "enterExclusive"
      BY <1>21, <2>1 DEF StartClose
    <3> QED BY <2>1, <3>1, ExclusiveSteps
  <2>2. CASE PassExclusive(c) /\ Finish(c)
    <3>1. pc' = [pc EXCEPT ![c] = "idle"] /\ pc[c] = "enterExclusive"
      BY <1>21, <2>2 DEF StartClose
    <3> QED BY <2>2, <3>1, ExclusiveSteps
  <2> QED BY <1>21, <2>1, <2>2, Zenon DEF StartClose
<1>22. CASE Dropped(c)
  <2>1. pc' = [pc EXCEPT ![c] = "idle"]
    BY <1>22 DEF Dropped
  <2> QED BY <1>22, <2>1, ExclusiveSteps DEF Dropped
<1>23. CASE Cancel(c)
  <2>1. pc' = [pc EXCEPT ![c] = "idle"]
    BY <1>23 DEF Cancel
  <2>2. CASE pc[c] = "enterShared" /\ LeaveShared(c)
    BY <2>1, <2>2, SharedSteps
  <2>3. CASE pc[c] = "enterExclusive" /\ c \in parked /\ LeaveExclusive(c)
    BY <2>1, <2>3, ExclusiveSteps
  <2>4. CASE pc[c] = "enterExclusive" /\ c \notin parked /\ UNCHANGED guardVars
    BY <2>1, <2>4, UnguardedSteps
  <2>5. CASE pc[c] \in ReaderPcs /\ ReleaseShared
    BY <2>1, <2>5, SharedSteps
  <2>6. CASE pc[c] \in WriterPcs /\ ReleaseExclusive
    BY <2>1, <2>6, ExclusiveSteps
  <2> QED BY <1>23, <2>2, <2>3, <2>4, <2>5, <2>6, Zenon DEF Cancel
<1>24. CASE StartRead(c)
  <2>1. pc' = [pc EXCEPT ![c] = "reading"]
    BY <1>24 DEF StartRead
  <2> QED BY <1>24, <2>1, SharedSteps DEF StartRead
<1>25. CASE AnswerRead(c)
  <2>1. pc' = [pc EXCEPT ![c] = "idle"]
    BY <1>25 DEF AnswerRead
  <2> QED BY <1>25, <2>1, SharedSteps DEF AnswerRead
<1> QED BY <1>1, <1>2, <1>3, <1>4, <1>5, <1>6, <1>7, <1>8, <1>9, <1>10, <1>11, <1>12, <1>13,
           <1>14, <1>15, <1>16, <1>17, <1>18, <1>19, <1>20, <1>21, <1>22, <1>23, <1>24, <1>25 DEF Proceed

LEMMA InitializingKept ==
  ASSUME McpTypes, Initializing, NEW c \in Callers, Begin(c) \/ Proceed(c) \/ AnswerRead(c) \/ Cancel(c)
  PROVE  Initializing'
<1> USE McpAssumption DEF McpTypes, Initializing, ReaderPcs, WriterPcs, Goto, Finish, clientState, callerVars
<1>1. CASE Begin(c)
  BY <1>1 DEF Begin
<1>2. CASE Park(c)
  BY <1>2 DEF Park
<1>3. CASE ServeAtOnce(c)
  BY <1>3 DEF ServeAtOnce
<1>4. CASE StartCall(c)
  BY <1>4 DEF StartCall
<1>5. CASE StartList(c)
  BY <1>5 DEF StartList
<1>6. CASE AnswerCall(c)
  BY <1>6 DEF AnswerCall
<1>7. CASE AnswerList(c)
  BY <1>7 DEF AnswerList
<1>8. CASE Reject(c)
  BY <1>8 DEF Reject
<1>9. CASE StartRefresh(c)
  BY <1>9 DEF StartRefresh, Rejected
<1>10. CASE GiveUpRefresh(c)
  BY <1>10 DEF GiveUpRefresh, Rejected
<1>11. CASE ReuseRefresh(c)
  BY <1>11 DEF ReuseRefresh, Rejected
<1>12. CASE TokenIssued(c)
  BY <1>12 DEF TokenIssued
<1>13. CASE OldSessionClosed(c)
  BY <1>13 DEF OldSessionClosed, DropSession
<1>14. CASE Reconnected(c)
  BY <1>14 DEF Reconnected
<1>15. CASE RefreshFailed(c)
  BY <1>15 DEF RefreshFailed
<1>16. CASE StartInit(c)
  BY <1>16 DEF StartInit
<1>17. CASE Authenticated(c)
  BY <1>17 DEF Authenticated
<1>18. CASE Opened(c)
  BY <1>18 DEF Opened
<1>19. CASE Pinged(c)
  BY <1>19 DEF Pinged
<1>20. CASE InitFailed(c)
  BY <1>20 DEF InitFailed
<1>21. CASE StartClose(c)
  BY <1>21 DEF StartClose
<1>22. CASE Dropped(c)
  BY <1>22 DEF Dropped, DropSession
<1>23. CASE Cancel(c)
  BY <1>23 DEF Cancel, DropSession
<1>24. CASE StartRead(c)
  BY <1>24 DEF StartRead
<1>25. CASE AnswerRead(c)
  BY <1>25 DEF AnswerRead
<1> QED BY <1>1, <1>2, <1>3, <1>4, <1>5, <1>6, <1>7, <1>8, <1>9, <1>10, <1>11, <1>12, <1>13,
           <1>14, <1>15, <1>16, <1>17, <1>18, <1>19, <1>20, <1>21, <1>22, <1>23, <1>24, <1>25 DEF Proceed

LEMMA ObservationsKept ==
  ASSUME McpTypes, Observations, NEW c \in Callers, Begin(c) \/ Proceed(c) \/ AnswerRead(c) \/ Cancel(c)
  PROVE  Observations'
<1> USE DEF McpTypes, Observations, Seen, NothingSeen, Goto, Finish, clientState, refreshVars, callerVars
<1>1. CASE Begin(c)
  BY <1>1 DEF Begin
<1>2. CASE Park(c)
  BY <1>2 DEF Park
<1>3. CASE ServeAtOnce(c)
  BY <1>3 DEF ServeAtOnce
<1>4. CASE StartCall(c)
  BY <1>4 DEF StartCall
<1>5. CASE StartList(c)
  BY <1>5 DEF StartList
<1>6. CASE AnswerCall(c)
  BY <1>6 DEF AnswerCall
<1>7. CASE AnswerList(c)
  BY <1>7 DEF AnswerList
<1>8. CASE Reject(c)
  BY <1>8 DEF Reject
<1>9. CASE StartRefresh(c)
  BY <1>9 DEF StartRefresh
<1>10. CASE GiveUpRefresh(c)
  BY <1>10 DEF GiveUpRefresh
<1>11. CASE ReuseRefresh(c)
  <2>1. generation # seen[c].generation
    BY <1>11 DEF ReuseRefresh, Observed, MustRefresh, RefreshLost
  <2>2. /\ seen[c].generation <= generation
        /\ seen[c].generation \in Nat /\ generation \in Nat
    OBVIOUS
  <2>3. seen[c].generation < generation
    <3> HIDE DEF McpTypes, Observations, Seen, NothingSeen, Goto, Finish, clientState, refreshVars,
                 callerVars
    <3> QED BY <2>1, <2>2
  <2> QED BY <1>11, <2>3 DEF ReuseRefresh
<1>12. CASE TokenIssued(c)
  BY <1>12 DEF TokenIssued
<1>13. CASE OldSessionClosed(c)
  BY <1>13 DEF OldSessionClosed, DropSession
<1>14. CASE Reconnected(c)
  BY <1>14 DEF Reconnected
<1>15. CASE RefreshFailed(c)
  BY <1>15 DEF RefreshFailed
<1>16. CASE StartInit(c)
  BY <1>16 DEF StartInit
<1>17. CASE Authenticated(c)
  BY <1>17 DEF Authenticated
<1>18. CASE Opened(c)
  BY <1>18 DEF Opened
<1>19. CASE Pinged(c)
  BY <1>19 DEF Pinged
<1>20. CASE InitFailed(c)
  BY <1>20 DEF InitFailed
<1>21. CASE StartClose(c)
  BY <1>21 DEF StartClose
<1>22. CASE Dropped(c)
  BY <1>22 DEF Dropped, DropSession
<1>23. CASE Cancel(c)
  BY <1>23 DEF Cancel, DropSession
<1>24. CASE StartRead(c)
  BY <1>24 DEF StartRead
<1>25. CASE AnswerRead(c)
  BY <1>25 DEF AnswerRead
<1> QED BY <1>1, <1>2, <1>3, <1>4, <1>5, <1>6, <1>7, <1>8, <1>9, <1>10, <1>11, <1>12, <1>13,
           <1>14, <1>15, <1>16, <1>17, <1>18, <1>19, <1>20, <1>21, <1>22, <1>23, <1>24, <1>25 DEF Proceed

LEMMA TokensKept ==
  ASSUME McpInv, NEW c \in Callers, Begin(c) \/ Proceed(c) \/ AnswerRead(c) \/ Cancel(c)
  PROVE  SessionHasNewestToken' /\ RefreshesRejectedToken'
<1> USE DEF McpInv, McpTypes, Seen, SessionHasNewestToken, RefreshesRejectedToken, WriterPcs, ReaderPcs,
            NothingSeen, Goto, Finish, clientState, refreshVars, callerVars
<1>a. /\ ~writerActive => \A d \in Callers : pc[d] \notin WriterPcs
      /\ pc[c] \in WriterPcs => \A d \in Callers : d # c => pc[d] \notin WriterPcs
  BY DEF Guarded, Writers
<1>1. CASE Begin(c)
  BY <1>1, <1>a DEF Begin
<1>2. CASE Park(c)
  BY <1>2, <1>a DEF Park
<1>3. CASE ServeAtOnce(c)
  BY <1>3, <1>a DEF ServeAtOnce
<1>4. CASE StartCall(c)
  BY <1>4, <1>a DEF StartCall
<1>5. CASE StartList(c)
  BY <1>5, <1>a DEF StartList
<1>6. CASE AnswerCall(c)
  BY <1>6, <1>a DEF AnswerCall
<1>7. CASE AnswerList(c)
  BY <1>7, <1>a DEF AnswerList
<1>8. CASE Reject(c)
  BY <1>8, <1>a DEF Reject
<1>9. CASE StartRefresh(c)
  <2>1. \A d \in Callers : pc[d] \notin WriterPcs
    BY <1>9, <1>a DEF StartRefresh, AcquireExclusive, MayWrite
  <2>2. seen[c].token = manager
    BY <1>9, <2>1 DEF StartRefresh, MustRefresh, Observations
  <2> QED BY <1>9, <2>1, <2>2 DEF StartRefresh
<1>10. CASE GiveUpRefresh(c)
  BY <1>10, <1>a DEF GiveUpRefresh, Rejected
<1>11. CASE ReuseRefresh(c)
  BY <1>11, <1>a DEF ReuseRefresh, Rejected
<1>12. CASE TokenIssued(c)
  BY <1>12, <1>a DEF TokenIssued
<1>13. CASE OldSessionClosed(c)
  BY <1>13, <1>a DEF OldSessionClosed, DropSession
<1>14. CASE Reconnected(c)
  BY <1>14, <1>a DEF Reconnected
<1>15. CASE RefreshFailed(c)
  BY <1>15, <1>a DEF RefreshFailed
<1>16. CASE StartInit(c)
  BY <1>16, <1>a DEF StartInit
<1>17. CASE Authenticated(c)
  <2>1. client = 0 /\ \A d \in Callers : d # c => pc[d] = "idle"
    BY <1>17 DEF Authenticated, Initializing
  <2> QED BY <1>17, <2>1 DEF Authenticated
<1>18. CASE Opened(c)
  <2>1. manager \in {0, 1}
    BY <1>18 DEF Opened, Initializing
  <2> QED BY <1>18, <2>1 DEF Opened
<1>19. CASE Pinged(c)
  BY <1>19, <1>a DEF Pinged
<1>20. CASE InitFailed(c)
  BY <1>20, <1>a DEF InitFailed
<1>21. CASE StartClose(c)
  BY <1>21, <1>a DEF StartClose
<1>22. CASE Dropped(c)
  BY <1>22, <1>a DEF Dropped, DropSession
<1>23. CASE Cancel(c)
  BY <1>23, <1>a DEF Cancel, DropSession
<1>24. CASE StartRead(c)
  BY <1>24, <1>a DEF StartRead
<1>25. CASE AnswerRead(c)
  BY <1>25, <1>a DEF AnswerRead
<1> QED BY <1>1, <1>2, <1>3, <1>4, <1>5, <1>6, <1>7, <1>8, <1>9, <1>10, <1>11, <1>12, <1>13,
           <1>14, <1>15, <1>16, <1>17, <1>18, <1>19, <1>20, <1>21, <1>22, <1>23, <1>24, <1>25 DEF Proceed

-----------------------------------------------------------------------------
(* The refinement of SharedSession, step by step *)

LEMMA Shifted ==
  ASSUME McpTypes, NEW c \in Callers, NEW x, pc' = [pc EXCEPT ![c] = x]
  PROVE  /\ Readers' = IF x \in ReaderPcs THEN Readers \union {c} ELSE Readers \ {c}
         /\ Writers' = IF x \in WriterPcs THEN Writers \union {c} ELSE Writers \ {c}
         /\ c \in Readers <=> pc[c] \in ReaderPcs
         /\ c \in Writers <=> pc[c] \in WriterPcs
BY DEF McpTypes, Readers, Writers

LEMMA SessionUsed ==
  ASSUME McpTypes, Guarded, NEW c \in Callers, NEW x \in ReaderPcs, pc' = [pc EXCEPT ![c] = x],
         pc[c] = "enterShared", MayRead, generation' = generation
  PROVE  Session!Use(c)
<1>1. Writers = {} /\ Writers' = {} /\ c \notin Readers /\ Readers' = Readers \union {c}
  BY Shifted, PcSets DEF Guarded, MayRead
<1> QED BY <1>1 DEF Session!Use, Readers, Writers

LEMMA SessionReleased ==
  ASSUME McpTypes, Guarded, NEW c \in Callers, NEW x \in {"idle", "enterExclusive"},
         pc' = [pc EXCEPT ![c] = x], pc[c] \in ReaderPcs, generation' = generation
  PROVE  Session!Release(c)
<1>1. c \in Readers /\ c \notin Writers /\ Readers' = Readers \ {c} /\ Writers' = Writers \ {c}
  BY Shifted, PcSets
<1> QED BY <1>1 DEF Session!Release, Readers, Writers

LEMMA SessionOwned ==
  ASSUME McpTypes, Guarded, NEW c \in Callers, NEW x \in WriterPcs, pc' = [pc EXCEPT ![c] = x],
         pc[c] = "enterExclusive", MayWrite, generation' = generation
  PROVE  Session!Own(c)
<1>1. Writers = {} /\ Cardinality(Readers) = 0
  BY DEF Guarded, MayWrite
<1>2. IsFiniteSet(Readers)
  BY McpAssumption, FS_Subset DEF Readers
<1>3. Readers = {}
  BY <1>1, <1>2, FS_EmptySet
<1>4. Writers' = {c} /\ Readers' = {}
  BY <1>1, <1>3, Shifted, PcSets
<1> QED BY <1>1, <1>3, <1>4 DEF Session!Own, Readers, Writers

LEMMA SessionChanged ==
  ASSUME McpTypes, Guarded, NEW c \in Callers, NEW x \in WriterPcs \union {"idle", "enterShared"},
         pc' = [pc EXCEPT ![c] = x], pc[c] \in WriterPcs,
         generation' \in {generation, generation + 1}
  PROVE  Session!Change(c)
<1>1. /\ c \in Writers /\ c \notin Readers
      /\ Writers' = Writers \union {c} \/ Writers' = Writers \ {c}
      /\ Readers' = Readers \ {c}
  BY Shifted, PcSets
<1>2. Readers' = Readers
  BY <1>1, Zenon
<1>3. Writers' \in {Writers, Writers \ {c}}
  BY <1>1
<1> QED BY <1>1, <1>2, <1>3 DEF Session!Change, Readers, Writers

LEMMA SessionUntouched ==
  ASSUME McpTypes, NEW c \in Callers, NEW x \in {"idle", "enterShared", "enterExclusive"},
         pc' = [pc EXCEPT ![c] = x], pc[c] \in {"idle", "enterShared", "enterExclusive"},
         generation' = generation
  PROVE  UNCHANGED Session!sessionVars
<1>1. c \notin Readers /\ c \notin Writers /\ Readers' = Readers \ {c} /\ Writers' = Writers \ {c}
  BY Shifted, PcSets
<1>2. Readers' = Readers /\ Writers' = Writers
  BY <1>1, Zenon
<1> QED BY <1>2 DEF Session!sessionVars, Readers, Writers

LEMMA SessionStep ==
  ASSUME McpTypes, Guarded, NEW c \in Callers, Begin(c) \/ Proceed(c) \/ AnswerRead(c) \/ Cancel(c)
  PROVE  [Session!SessionNext]_(Session!sessionVars)
<1> USE PcSets DEF McpTypes, ReaderPcs, WriterPcs, Goto, Finish, clientState, callerVars
<1> SUFFICES \/ Session!Use(c) \/ Session!Release(c) \/ Session!Own(c) \/ Session!Change(c)
             \/ UNCHANGED Session!sessionVars
  BY Zenon DEF Session!SessionNext
<1>1. CASE Begin(c)
  <2>1. PICK x \in {"enterShared", "enterExclusive"} : pc' = [pc EXCEPT ![c] = x]
    BY <1>1 DEF Begin
  <2> QED BY <1>1, <2>1, SessionUntouched DEF Begin
<1>2. CASE Park(c)
  <2>1. pc' = [pc EXCEPT ![c] = pc[c]]
    BY <1>2 DEF Park
  <2> QED BY <1>2, <2>1, SessionUntouched DEF Park
<1>3. CASE ServeAtOnce(c)
  <2>1. pc' = [pc EXCEPT ![c] = "idle"] /\ generation' \in {generation, generation + 1}
    BY <1>3 DEF ServeAtOnce
  <2> QED BY <1>3, <2>1, SessionUntouched DEF ServeAtOnce
<1>4. CASE StartCall(c)
  <2>1. pc' = [pc EXCEPT ![c] = "calling"] /\ generation' \in {generation, generation + 1}
    BY <1>4 DEF StartCall
  <2> QED BY <1>4, <2>1, SessionUsed DEF StartCall, AcquireShared
<1>5. CASE StartList(c)
  <2>1. pc' = [pc EXCEPT ![c] = "listing"] /\ generation' \in {generation, generation + 1}
    BY <1>5 DEF StartList
  <2> QED BY <1>5, <2>1, SessionUsed DEF StartList, AcquireShared
<1>6. CASE AnswerCall(c)
  <2>1. pc' = [pc EXCEPT ![c] = "idle"] /\ generation' \in {generation, generation + 1}
    BY <1>6 DEF AnswerCall
  <2> QED BY <1>6, <2>1, SessionReleased DEF AnswerCall
<1>7. CASE AnswerList(c)
  <2>1. pc' = [pc EXCEPT ![c] = "idle"] /\ generation' \in {generation, generation + 1}
    BY <1>7 DEF AnswerList
  <2> QED BY <1>7, <2>1, SessionReleased DEF AnswerList
<1>8. CASE Reject(c)
  <2>1. pc' = [pc EXCEPT ![c] = "enterExclusive"] /\ generation' \in {generation, generation + 1}
    BY <1>8 DEF Reject
  <2> QED BY <1>8, <2>1, SessionReleased DEF Reject
<1>9. CASE StartRefresh(c)
  <2>1. pc' = [pc EXCEPT ![c] = "refreshing"] /\ generation' \in {generation, generation + 1}
    BY <1>9 DEF StartRefresh
  <2> QED BY <1>9, <2>1, SessionOwned DEF StartRefresh, Rejected, AcquireExclusive
<1>10. CASE GiveUpRefresh(c)
  <2>1. pc' = [pc EXCEPT ![c] = "idle"] /\ generation' \in {generation, generation + 1}
    BY <1>10 DEF GiveUpRefresh
  <2> QED BY <1>10, <2>1, SessionUntouched DEF GiveUpRefresh, Rejected
<1>11. CASE ReuseRefresh(c)
  <2>1. pc' = [pc EXCEPT ![c] = "enterShared"] /\ generation' \in {generation, generation + 1}
    BY <1>11 DEF ReuseRefresh
  <2> QED BY <1>11, <2>1, SessionUntouched DEF ReuseRefresh, Rejected
<1>12. CASE TokenIssued(c)
  <2>1. pc' = [pc EXCEPT ![c] = "closing"] /\ generation' \in {generation, generation + 1}
    BY <1>12 DEF TokenIssued
  <2> QED BY <1>12, <2>1, SessionChanged DEF TokenIssued
<1>13. CASE OldSessionClosed(c)
  <2>1. pc' = [pc EXCEPT ![c] = "connecting"] /\ generation' \in {generation, generation + 1}
    BY <1>13 DEF OldSessionClosed, DropSession
  <2> QED BY <1>13, <2>1, SessionChanged DEF OldSessionClosed, DropSession
<1>14. CASE Reconnected(c)
  <2>1. pc' = [pc EXCEPT ![c] = "enterShared"] /\ generation' \in {generation, generation + 1}
    BY <1>14 DEF Reconnected
  <2> QED BY <1>14, <2>1, SessionChanged DEF Reconnected
<1>15. CASE RefreshFailed(c)
  <2>1. pc' = [pc EXCEPT ![c] = "idle"] /\ generation' \in {generation, generation + 1}
    BY <1>15 DEF RefreshFailed
  <2> QED BY <1>15, <2>1, SessionChanged DEF RefreshFailed
<1>16. CASE StartInit(c)
  <2>1. pc' = [pc EXCEPT ![c] = "authenticating"] /\ generation' \in {generation, generation + 1}
    BY <1>16 DEF StartInit
  <2> QED BY <1>16, <2>1, SessionOwned DEF StartInit, AcquireExclusive
<1>17. CASE Authenticated(c)
  <2>1. pc' = [pc EXCEPT ![c] = "opening"] /\ generation' \in {generation, generation + 1}
    BY <1>17 DEF Authenticated
  <2> QED BY <1>17, <2>1, SessionChanged DEF Authenticated
<1>18. CASE Opened(c)
  <2>1. pc' = [pc EXCEPT ![c] = "pinging"] /\ generation' \in {generation, generation + 1}
    BY <1>18 DEF Opened
  <2> QED BY <1>18, <2>1, SessionChanged DEF Opened
<1>19. CASE Pinged(c)
  <2>1. pc' = [pc EXCEPT ![c] = "idle"] /\ generation' \in {generation, generation + 1}
    BY <1>19 DEF Pinged
  <2> QED BY <1>19, <2>1, SessionChanged DEF Pinged
<1>20. CASE InitFailed(c)
  <2>1. PICK x \in {"idle", "dropping"} : pc' = [pc EXCEPT ![c] = x]
    BY <1>20 DEF InitFailed
  <2> QED BY <1>20, <2>1, SessionChanged DEF InitFailed
<1>21. CASE StartClose(c)
  <2>1. CASE AcquireExclusive(c) /\ Goto(c, "dropping")
    BY <1>21, <2>1, SessionOwned DEF StartClose, AcquireExclusive
  <2>2. CASE PassExclusive(c) /\ Finish(c)
    BY <1>21, <2>2, SessionUntouched DEF StartClose
  <2> QED BY <1>21, <2>1, <2>2, Zenon DEF StartClose
<1>22. CASE Dropped(c)
  <2>1. pc' = [pc EXCEPT ![c] = "idle"] /\ generation' \in {generation, generation + 1}
    BY <1>22 DEF Dropped, DropSession
  <2> QED BY <1>22, <2>1, SessionChanged DEF Dropped, DropSession
<1>23. CASE Cancel(c)
  <2>1. pc' = [pc EXCEPT ![c] = "idle"] /\ pc[c] \in Pcs /\ pc[c] # "idle"
    BY <1>23 DEF Cancel
  <2>2. CASE pc[c] \in ReaderPcs
    <3>1. generation' = generation
      BY <1>23, <2>2 DEF Cancel
    <3> QED BY <2>1, <2>2, <3>1, SessionReleased
  <2>3. CASE pc[c] \in WriterPcs
    <3>1. generation' \in {generation, generation + 1}
      BY <1>23 DEF Cancel, DropSession
    <3> QED BY <2>1, <2>3, <3>1, SessionChanged
  <2>4. CASE pc[c] \in {"enterShared", "enterExclusive"}
    <3>1. generation' = generation
      BY <1>23, <2>4 DEF Cancel
    <3> QED BY <2>1, <2>4, <3>1, SessionUntouched
  <2> QED BY <2>1, <2>2, <2>3, <2>4 DEF Pcs
<1>24. CASE StartRead(c)
  <2>1. pc' = [pc EXCEPT ![c] = "reading"] /\ generation' \in {generation, generation + 1}
    BY <1>24 DEF StartRead
  <2> QED BY <1>24, <2>1, SessionUsed DEF StartRead, AcquireShared
<1>25. CASE AnswerRead(c)
  <2>1. pc' = [pc EXCEPT ![c] = "idle"] /\ generation' \in {generation, generation + 1}
    BY <1>25 DEF AnswerRead
  <2> QED BY <1>25, <2>1, SessionReleased DEF AnswerRead
<1> QED BY <1>1, <1>2, <1>3, <1>4, <1>5, <1>6, <1>7, <1>8, <1>9, <1>10, <1>11, <1>12, <1>13,
           <1>14, <1>15, <1>16, <1>17, <1>18, <1>19, <1>20, <1>21, <1>22, <1>23, <1>24, <1>25 DEF Proceed

-----------------------------------------------------------------------------
LEMMA InvInitially == McpInit => McpInv
<1> SUFFICES ASSUME McpInit PROVE McpInv
  OBVIOUS
<1> USE McpAssumption DEF McpInit, GuardInit
<1>1. McpTypes
  <2>1. retry \in [Callers -> BOOLEAN] /\ cache \in BOOLEAN
    BY Zenon
  <2>2. seen \in [Callers -> Seen]
    <3>1. NothingSeen \in Seen
      BY DEF Seen, NothingSeen
    <3> QED BY <3>1
  <2> QED BY <2>1, <2>2 DEF McpTypes, Pcs
<1>2. Guarded
  <2>1. Readers = {} /\ Writers = {} /\ QueuedWriters = {}
    BY DEF Readers, Writers, QueuedWriters, ReaderPcs, WriterPcs
  <2>2. Cardinality({}) = 0
    BY FS_EmptySet
  <2>3. GuardTypes /\ pc \in [Callers -> Pcs]
    <3>1. writerActive \in BOOLEAN
      BY Zenon
    <3> QED BY <3>1 DEF GuardTypes, Pcs
  <2>4. activeReaders = Cardinality(Readers) /\ waitingWriters = Cardinality(QueuedWriters)
    BY <2>1, <2>2
  <2>5. writerActive <=> Writers # {}
    BY <2>1
  <2> QED BY <2>1, <2>3, <2>4, <2>5 DEF Guarded, Sleeping
<1>3. Initializing
  BY DEF Initializing
<1>4. Observations
  BY DEF Observations, NothingSeen
<1>5. SessionHasNewestToken /\ RefreshesRejectedToken
  BY DEF SessionHasNewestToken, RefreshesRejectedToken
<1> QED BY <1>1, <1>2, <1>3, <1>4, <1>5 DEF McpInv

LEMMA InvKept == McpInv /\ [McpNext]_mcpVars => McpInv'
<1> SUFFICES ASSUME McpInv, [McpNext]_mcpVars PROVE McpInv'
  OBVIOUS
<1>1. CASE McpNext
  <2> PICK c \in Callers : Begin(c) \/ Proceed(c) \/ AnswerRead(c) \/ Cancel(c)
    BY <1>1 DEF McpNext
  <2>1. McpTypes' /\ Guarded' /\ Initializing' /\ Observations'
    BY TypesKept, GuardStaysExact, InitializingKept, ObservationsKept DEF McpInv
  <2>2. SessionHasNewestToken' /\ RefreshesRejectedToken'
    BY TokensKept
  <2> QED BY <2>1, <2>2 DEF McpInv
<1>2. CASE UNCHANGED mcpVars
  BY <1>2 DEF mcpVars, guardVars, clientState, refreshVars, callerVars, McpInv, McpTypes, Guarded, GuardTypes,
     Sleeping, MayRead, MayWrite, Readers, Writers, QueuedWriters, Initializing, Observations,
     SessionHasNewestToken, RefreshesRejectedToken
<1> QED BY <1>1, <1>2

(* The guard's counters are exact, initialization is alone, and what calls *)
(* observed of the session relates to what it is now.                      *)
THEOREM McpInvariant == McpSpec => []McpInv
BY InvInitially, InvKept, PTL DEF McpSpec

(* The variables have their types and the guard counts who is in and who   *)
(* waits: cancelled tasks leave no count behind.                           *)
THEOREM McpTypesHold == McpSpec => []McpTypeOK
<1>1. McpInv => McpTypeOK
  BY DEF McpInv, McpTypeOK, Guarded, Readers, Writers, QueuedWriters
<1> QED BY <1>1, McpInvariant, PTL

(* However many calls are rejected at once and whichever are cancelled, an *)
(* open session has the newest token.                                      *)
THEOREM SessionKeepsNewestToken == McpSpec => []SessionHasNewestToken
<1>1. McpInv => SessionHasNewestToken
  BY DEF McpInv
<1> QED BY <1>1, McpInvariant, PTL

(* Nobody is parked for ever: somebody who was woken or holds a side of    *)
(* the guard is still to wake the others.                                  *)
THEOREM WaitersAreAwaited == McpSpec => []NobodyWaitsInVain
<1>1. McpInv => NobodyWaitsInVain
  <2> SUFFICES ASSUME Guarded, NEW c \in parked
      PROVE  \E d \in Callers : d \in notified \/ pc[d] \in ReaderPcs \union WriterPcs
    BY DEF McpInv, NobodyWaitsInVain
  <2>1. parked \subseteq Callers /\ c \in Callers
    BY DEF Guarded, GuardTypes
  <2>2. writerActive => Writers # {}
    BY DEF Guarded
  <2>3. activeReaders # 0 => Readers # {}
    BY FS_EmptySet DEF Guarded
  <2>4. waitingWriters # 0 => QueuedWriters # {}
    BY FS_EmptySet DEF Guarded
  <2>5. ASSUME NEW d \in parked \ notified, ~MayWrite
        PROVE  Writers # {} \/ Readers # {}
    BY <2>2, <2>3, <2>5 DEF MayWrite
  <2>6. CASE Writers # {} \/ Readers # {}
    BY <2>6 DEF Writers, Readers
  <2>7. CASE Writers = {} /\ Readers = {}
    <3>1. \A d \in parked \ notified : pc[d] = "enterShared" /\ ~MayRead
      BY <2>5, <2>7 DEF Guarded, Sleeping
    <3>2. CASE c \in notified
      BY <3>2, <2>1
    <3>3. CASE c \notin notified
      <4>1. QueuedWriters # {}
        BY <3>1, <3>3, <2>2, <2>4, <2>7 DEF MayRead
      <4>2. PICK d \in parked : pc[d] = "enterExclusive"
        BY <4>1 DEF QueuedWriters
      <4>3. d \in notified
        BY <3>1, <4>2
      <4> QED BY <4>3, <2>1
    <3> QED BY <3>2, <3>3
  <2> QED BY <2>6, <2>7
<1> QED BY <1>1, McpInvariant, PTL

(* A refresh is spent on the token that was rejected. *)
THEOREM NoRefreshIsWasted == McpSpec => []RefreshesRejectedToken
<1>1. McpInv => RefreshesRejectedToken
  BY DEF McpInv
<1> QED BY <1>1, McpInvariant, PTL

(* A second attempt never runs on the session that rejected the first.     *)
THEOREM RetriesUseNewSession == McpSpec => []RetryOnNewSession
<1>1. McpInv => RetryOnNewSession
  BY DEF McpInv, Observations, McpTypes, Seen, RetryOnNewSession
<1> QED BY <1>1, McpInvariant, PTL

(* No session is closed or replaced under a call: the client implements    *)
(* SharedSession.                                                          *)
THEOREM ClientKeepsSessions == McpSpec => ImplementsSession
<1>1. McpInit => Session!SessionInit
  BY DEF McpInit, Session!SessionInit, ReaderPcs, WriterPcs
<1>2. McpInv /\ [McpNext]_mcpVars => [Session!SessionNext]_(Session!sessionVars)
  <2> SUFFICES ASSUME McpInv, [McpNext]_mcpVars PROVE [Session!SessionNext]_(Session!sessionVars)
    OBVIOUS
  <2>1. CASE McpNext
    BY <2>1, SessionStep DEF McpNext, McpInv
  <2>2. CASE UNCHANGED mcpVars
    BY <2>2 DEF mcpVars, clientState, callerVars, Session!sessionVars
  <2> QED BY <2>1, <2>2
<1> QED BY <1>1, <1>2, McpInvariant, PTL DEF McpSpec, ImplementsSession, Session!SessionSpec
=============================================================================
