-------------------------- MODULE BrowserTab_proofs --------------------------
(* Theorems about BrowserTab: a tab never loses sight of its run without   *)
(* saying so, and does not fight over it, for any number of tabs and runs, *)
(* and however often users click and connections break.                    *)
EXTENDS BrowserTab, SequenceTheorems, TLAPS

-----------------------------------------------------------------------------
(* What has to be known of a tab *)

(* The socket that is alive is the current one. *)
OneAlive(t) == ~overlap[t] => \A s \in Own(t) : Alive(s) => tab[t].ws = s

(* A run that is shown as running has had no terminal event. *)
NotOver(t) == tab[t].running => ~tab[t].terminal

(* The current socket is one of the tab's, and in use. *)
WsUsed(t) == tab[t].ws # NoSocket => tab[t].ws \in Own(t) /\ sock[tab[t].ws].pipe # "free"

(* A tab that waits to reconnect has no current socket. *)
TimerAlone(t) == tab[t].timer # NoRun => tab[t].ws = NoSocket

(* SupersededStaysAway, with the reason. *)
Away(t) == displaced[t] /\ ~overlap[t] => tab[t].timer = NoRun /\ tab[t].terminal

(* NeverBlind, for one tab. *)
Sighted(t) ==
  tab[t].running /\ ~overlap[t] =>
    \/ tab[t].ws # NoSocket /\ sock[tab[t].ws].pipe # "free" /\ ~tab[t].terminal
    \/ tab[t].timer # NoRun
    \/ tab[t].connection = "disconnected"

TabInv(t) ==
  OneAlive(t) /\ NotOver(t) /\ WsUsed(t) /\ TimerAlone(t) /\ Away(t) /\ Sighted(t)

(* What the server serves on a socket is a run. *)
Served(s) == sock[s].serving \in {"replayed", "run"} => sock[s].ask \in Runs

BrowserInv ==
  BrowserTypeOK /\ (\A t \in Tabs : TabInv(t)) /\ (\A s \in Sockets : Served(s))

(* Socket s is not freed, nor brought to life. *)
Fades(s) ==
  /\ sock'[s].pipe = "free" => sock[s].pipe = "free"
  /\ Alive(s)' => Alive(s)

(* A step in which tab t takes no part. *)
Bystander(t) ==
  /\ tab'[t] = tab[t] /\ overlap'[t] = overlap[t] /\ displaced'[t] = displaced[t]
  /\ \A s \in Own(t) : Fades(s)

-----------------------------------------------------------------------------
(* Sockets are pairs, so none of them is the absent one. *)
LEMMA SocketsExist == \A s \in Sockets : s # NoSocket
BY DEF Sockets, NoSocket

(* A tab that takes no part in a step keeps what is known of it. *)
LEMMA BystanderKeeps ==
  ASSUME NEW t \in Tabs, TabInv(t), Bystander(t)
  PROVE  TabInv(t)'
<1>1. OneAlive(t)'
  BY DEF TabInv, OneAlive, Bystander, Fades, Own
<1>2. NotOver(t)' /\ TimerAlone(t)' /\ Away(t)'
  BY DEF TabInv, NotOver, TimerAlone, Away, Bystander
<1>3. WsUsed(t)' /\ Sighted(t)'
  <2>1. tab'[t] = tab[t] /\ overlap'[t] = overlap[t]
    BY DEF Bystander
  <2>2. WsUsed(t)'
    BY <2>1 DEF TabInv, WsUsed, Bystander, Fades, Own
  <2>3. tab[t].ws # NoSocket => sock'[tab[t].ws].pipe # "free"
    BY <2>1, <2>2 DEF WsUsed
  <2>4. Sighted(t)'
    BY <2>1, <2>3 DEF TabInv, Sighted
  <2>. QED BY <2>2, <2>4
<1>. QED BY <1>1, <1>2, <1>3 DEF TabInv

(* What the server and the network do: no tab takes part. *)
LEMMA ServerKeeps ==
  ASSUME \A t \in Tabs : TabInv(t), UNCHANGED <<tab, historyVars>>,
         \A s \in Sockets : Fades(s)
  PROVE  \A t \in Tabs : TabInv(t)'
BY BystanderKeeps DEF Bystander, historyVars, Own

(* An event of tab t: what is left to know is how t comes out of it. *)
LEMMA EventKeeps ==
  ASSUME NEW t \in Tabs, \A u \in Tabs : TabInv(u), BrowserTypeOK,
         \A u \in Tabs \ {t} : /\ tab'[u] = tab[u] /\ overlap'[u] = overlap[u]
                               /\ displaced'[u] = displaced[u]
                               /\ \A s \in Own(u) : Fades(s),
         TabInv(t)'
  PROVE  \A u \in Tabs : TabInv(u)'
BY BystanderKeeps DEF Bystander

-----------------------------------------------------------------------------
(* Types *)

USE BrowserAssumption DEF RunIds

LEMMA SocketType == ASSUME BrowserTypeOK, NEW s \in Sockets PROVE sock[s] \in SocketStates
BY DEF BrowserTypeOK

(* What is replayed are messages. *)
LEMMA ReplayType == ASSUME BrowserTypeOK, NEW r \in Runs PROVE Replay(r) \in Seq(Messages)
<1>1. <<Msg("stopping", r)>> \in Seq(Messages) /\ <<Msg("run_started", r)>> \in Seq(Messages)
      /\ <<>> \in Seq(Messages)
  BY DEF Msg, Messages
<1>2. run[r] \in {"all_complete", "error"} => <<Msg(run[r], r)>> \in Seq(Messages)
  BY DEF Msg, Messages
<1>. QED BY <1>1, <1>2 DEF Replay

(* Two states of a socket that differ in what is on its way. *)
SameEnds(v, w) == v.pipe = w.pipe /\ v.serving = w.serving /\ v.ask = w.ask

(* Publishing is a message more for one socket, or none. *)
LEMMA PublishType ==
  ASSUME BrowserTypeOK, NEW r \in Runs, NEW m \in Messages
  PROVE  /\ Publish(r, m) \in [Sockets -> SocketStates]
         /\ \A s \in Sockets : SameEnds(Publish(r, m)[s], sock[s])
<1>1. CASE attached[r] = NoSocket
  BY <1>1 DEF Publish, BrowserTypeOK, SameEnds
<1>2. CASE attached[r] # NoSocket
  <2>1. attached[r] \in Sockets
    BY <1>2 DEF BrowserTypeOK
  <2>2. Append(sock[attached[r]].inbox, m) \in Seq(Messages)
    BY <2>1 DEF BrowserTypeOK, SocketStates
  <2>3. sock \in [Sockets -> SocketStates] /\ sock[attached[r]] \in SocketStates
    BY <2>1 DEF BrowserTypeOK
  <2>4. [sock[attached[r]] EXCEPT !.inbox = Append(@, m)] \in SocketStates
    BY <2>2, <2>3 DEF SocketStates
  <2>5. SameEnds([sock[attached[r]] EXCEPT !.inbox = Append(@, m)], sock[attached[r]])
    BY <2>3 DEF SocketStates, SameEnds
  <2>0. \A v \in SocketStates : SameEnds(v, v)
    BY DEF SameEnds
  <2>6. Publish(r, m) = [sock EXCEPT ![attached[r]] = [sock[attached[r]] EXCEPT !.inbox = Append(@, m)]]
    BY <1>2 DEF Publish
  <2>. QED BY <2>0, <2>1, <2>3, <2>4, <2>5, <2>6
<1>. QED BY <1>1, <1>2

(* Of the sockets of which the server forgets nothing new is known. *)
LEMMA DetachType ==
  ASSUME BrowserTypeOK, NEW S, DetachAll(S)
  PROVE  attached' \in [Runs -> Sockets \union {NoSocket}]
BY DEF DetachAll, BrowserTypeOK

(* Breaking closes what is alive. *)
LEMMA BreakType ==
  ASSUME BrowserTypeOK, NEW S, sock' = Break(S)
  PROVE  /\ sock' \in [Sockets -> SocketStates]
         /\ \A s \in Sockets : Fades(s)
         /\ (\A s \in Sockets : Served(s)) => (\A s \in Sockets : Served(s)')
<1>0. <<>> \in Seq(Messages)
  OBVIOUS
<1>1. [Free EXCEPT !.pipe = "closed"] \in SocketStates
  BY <1>0 DEF Free, SocketStates
<1>2. sock' \in [Sockets -> SocketStates]
  BY <1>1 DEF Break, BrowserTypeOK
<1>3. ASSUME NEW s \in Sockets PROVE Fades(s)
  BY DEF Break, Free, Fades, Alive, BrowserTypeOK
<1>4. ASSUME NEW s \in Sockets, Served(s) PROVE Served(s)'
  BY <1>4 DEF Break, Free, Served, BrowserTypeOK
<1>. QED BY <1>2, <1>3, <1>4

(* Socket s is in state v now; the others, in f, may have got a message. *)
LEMMA SocketStep ==
  ASSUME BrowserInv, NEW s \in Sockets, NEW v \in SocketStates,
         NEW f \in [Sockets -> SocketStates], \A u \in Sockets : SameEnds(f[u], sock[u]),
         sock' = [f EXCEPT ![s] = v],
         v.serving \in {"replayed", "run"} => v.ask \in Runs,
         v.pipe = "free" => sock[s].pipe = "free",
         v.pipe \in {"connecting", "open"} => sock[s].pipe \in {"connecting", "open"}
  PROVE  /\ sock' \in [Sockets -> SocketStates]
         /\ \A u \in Sockets : Fades(u) /\ Served(u)'
<1>1. sock' \in [Sockets -> SocketStates]
  OBVIOUS
<1>2. sock'[s] = v /\ \A u \in Sockets \ {s} : sock'[u] = f[u]
  OBVIOUS
<1>3. Fades(s) /\ Served(s)'
  BY <1>2 DEF Fades, Alive, Served
<1>4. ASSUME NEW u \in Sockets \ {s} PROVE Fades(u) /\ Served(u)'
  <2>1. SameEnds(sock'[u], sock[u])
    BY <1>2
  <2>. QED BY <2>1 DEF Fades, Alive, Served, BrowserInv, SameEnds
<1>. QED BY <1>1, <1>3, <1>4

(* The others got nothing. *)
LEMMA OwnStep ==
  ASSUME BrowserInv, NEW s \in Sockets, NEW v \in SocketStates,
         sock' = [sock EXCEPT ![s] = v],
         v.serving \in {"replayed", "run"} => v.ask \in Runs,
         v.pipe = "free" => sock[s].pipe = "free",
         v.pipe \in {"connecting", "open"} => sock[s].pipe \in {"connecting", "open"}
  PROVE  /\ sock' \in [Sockets -> SocketStates]
         /\ \A u \in Sockets : Fades(u) /\ Served(u)'
<1>1. sock \in [Sockets -> SocketStates] /\ \A u \in Sockets : SameEnds(sock[u], sock[u])
  BY DEF BrowserInv, BrowserTypeOK, SameEnds
<1>. QED BY <1>1, SocketStep

-----------------------------------------------------------------------------
(* The server and the network *)

LEMMA LoseKeeps ==
  ASSUME BrowserInv, NEW s \in Sockets, Lose(s) PROVE BrowserInv'
<1>1. /\ sock' \in [Sockets -> SocketStates]
      /\ \A u \in Sockets : Fades(u) /\ Served(u)'
  BY BreakType DEF Lose, BrowserInv
<1>2. attached' \in [Runs -> Sockets \union {NoSocket}]
  BY DetachType DEF Lose, BrowserInv
<1>3. clicks' \in 0..MaxClicks /\ losses' \in 0..MaxLosses
  BY DEF Lose, BrowserInv, BrowserTypeOK
<1>4. BrowserTypeOK'
  BY <1>1, <1>2, <1>3 DEF Lose, BrowserInv, BrowserTypeOK, historyVars
<1>. QED BY <1>1, <1>4, ServerKeeps DEF Lose, BrowserInv

LEMMA RestartKeeps == ASSUME BrowserInv, Restart PROVE BrowserInv'
<1>1. /\ sock' \in [Sockets -> SocketStates]
      /\ \A u \in Sockets : Fades(u) /\ Served(u)'
  BY BreakType DEF Restart, BrowserInv
<1>2. run' \in [Runs -> Ended \union {"absent", "live", "history", "unknown"}]
  BY DEF Restart, BrowserInv, BrowserTypeOK
<1>3. BrowserTypeOK'
  BY <1>1, <1>2 DEF Restart, BrowserInv, BrowserTypeOK, historyVars
<1>. QED BY <1>1, <1>3, ServerKeeps DEF Restart, BrowserInv

LEMMA OpenedKeeps ==
  ASSUME BrowserInv, NEW s \in Sockets, Opened(s) PROVE BrowserInv'
<1>. DEFINE v == [sock[s] EXCEPT !.pipe = "open", !.serving = "request"]
<1>1. v \in SocketStates /\ v.serving = "request" /\ v.pipe = "open"
  <2>1. sock[s] \in SocketStates
    BY SocketType DEF BrowserInv
  <2>. QED BY <2>1 DEF SocketStates
<1>2. /\ sock' \in [Sockets -> SocketStates]
      /\ \A u \in Sockets : Fades(u) /\ Served(u)'
  <2>1. sock' = [sock EXCEPT ![s] = v] /\ sock[s].pipe = "connecting"
    BY DEF Opened
  <2>. HIDE DEF v
  <2>. QED BY <1>1, <2>1, OwnStep
<1>3. saved' \in [running : BOOLEAN, run : RunIds]
  BY DEF Opened, Persist, BrowserInv, BrowserTypeOK, Sockets, TabStates
<1>4. BrowserTypeOK'
  BY <1>2, <1>3 DEF Opened, BrowserInv, BrowserTypeOK, serverVars, historyVars
<1>. QED BY <1>2, <1>4, ServerKeeps DEF Opened, BrowserInv

LEMMA ServeStartKeeps ==
  ASSUME BrowserInv, NEW s \in Sockets, ServeStart(s) PROVE BrowserInv'
<1>1. PICK r \in Runs :
        /\ run' = [run EXCEPT ![r] = "live"] /\ attached' = [attached EXCEPT ![r] = s]
        /\ sock' = [sock EXCEPT ![s] = [@ EXCEPT
              !.serving = "run", !.ask = r, !.inbox = <<Msg("run_started", r)>>]]
  BY DEF ServeStart
<1>. DEFINE v == [sock[s] EXCEPT
       !.serving = "run", !.ask = r, !.inbox = <<Msg("run_started", r)>>]
<1>2. <<Msg("run_started", r)>> \in Seq(Messages)
  BY DEF Msg, Messages
<1>3. v \in SocketStates /\ v.ask = r /\ v.pipe = sock[s].pipe
  <2>1. sock[s] \in SocketStates
    BY SocketType DEF BrowserInv
  <2>. QED BY <1>2, <2>1 DEF SocketStates
<1>4. /\ sock' \in [Sockets -> SocketStates]
      /\ \A u \in Sockets : Fades(u) /\ Served(u)'
  <2>1. sock' = [sock EXCEPT ![s] = v]
    BY <1>1
  <2>. HIDE DEF v
  <2>. QED BY <1>3, <2>1, OwnStep
<1>5. BrowserTypeOK'
  BY <1>1, <1>4 DEF ServeStart, BrowserInv, BrowserTypeOK, historyVars
<1>. QED BY <1>4, <1>5, ServerKeeps DEF ServeStart, BrowserInv

(* An answer from the buffers or from the database. *)
LEMMA AnswerKeeps ==
  ASSUME BrowserInv, NEW s \in Sockets, NEW serving \in {"replayed", "nothing"},
         NEW inbox \in Seq(Messages), sock[s].ask \in Runs,
         sock' = [sock EXCEPT ![s] = [@ EXCEPT !.serving = serving, !.inbox = inbox]],
         UNCHANGED <<tab, saved, serverVars, clicks, losses, historyVars>>
  PROVE  BrowserInv'
<1>. DEFINE v == [sock[s] EXCEPT !.serving = serving, !.inbox = inbox]
<1>1. v \in SocketStates /\ v.ask = sock[s].ask /\ v.pipe = sock[s].pipe
  <2>1. sock[s] \in SocketStates
    BY SocketType DEF BrowserInv
  <2>. QED BY <2>1 DEF SocketStates
<1>2. /\ sock' \in [Sockets -> SocketStates]
      /\ \A u \in Sockets : Fades(u) /\ Served(u)'
  <2>1. sock' = [sock EXCEPT ![s] = v]
    OBVIOUS
  <2>. HIDE DEF v
  <2>. QED BY <1>1, <2>1, OwnStep
<1>3. BrowserTypeOK'
  BY <1>2 DEF BrowserInv, BrowserTypeOK, serverVars, historyVars
<1>. QED BY <1>2, <1>3, ServerKeeps DEF BrowserInv

LEMMA ServeAttachKeeps ==
  ASSUME BrowserInv, NEW s \in Sockets, ServeAttach(s) PROVE BrowserInv'
<1>1. sock[s].ask \in Runs
  BY DEF ServeAttach, BrowserInv, BrowserTypeOK, SocketStates
<1>2. Replay(sock[s].ask) \in Seq(Messages)
  BY <1>1, ReplayType DEF BrowserInv
<1>. QED BY <1>1, <1>2, AnswerKeeps DEF ServeAttach

LEMMA ServeHistoryKeeps ==
  ASSUME BrowserInv, NEW s \in Sockets, ServeHistory(s) PROVE BrowserInv'
<1>. DEFINE r == sock[s].ask
            inbox == IF run[r] = "unknown" THEN <<Msg("error", r)>>
                     ELSE <<Msg("run_started", r), Msg("all_complete", r)>>
<1>1. r \in Runs
  BY DEF ServeHistory, BrowserInv, BrowserTypeOK, SocketStates
<1>2. inbox \in Seq(Messages)
  <2>1. Msg("error", r) \in Messages /\ Msg("run_started", r) \in Messages
        /\ Msg("all_complete", r) \in Messages
    BY <1>1 DEF Msg, Messages
  <2>. QED BY <2>1
<1>3. sock' = [sock EXCEPT ![s] = [@ EXCEPT !.serving = "nothing", !.inbox = inbox]]
      /\ UNCHANGED <<tab, saved, serverVars, clicks, losses, historyVars>>
  BY DEF ServeHistory
<1>. HIDE DEF inbox
<1>. QED BY <1>1, <1>2, <1>3, AnswerKeeps

(* A message to whoever is attached, and a change of the socket itself. *)
LEMMA PublishKeeps ==
  ASSUME BrowserInv, NEW s \in Sockets, NEW m \in Messages, sock[s].ask \in Runs,
         NEW v \in SocketStates, v.pipe = sock[s].pipe, v.ask = sock[s].ask,
         sock' = [Publish(sock[s].ask, m) EXCEPT ![s] = v]
  PROVE  /\ sock' \in [Sockets -> SocketStates]
         /\ \A u \in Sockets : Fades(u) /\ Served(u)'
<1>. DEFINE f == Publish(sock[s].ask, m)
<1>1. f \in [Sockets -> SocketStates] /\ \A u \in Sockets : SameEnds(f[u], sock[u])
  BY PublishType DEF BrowserInv
<1>2. sock' = [f EXCEPT ![s] = v]
  OBVIOUS
<1>. HIDE DEF f
<1>. QED BY <1>1, <1>2, SocketStep

LEMMA AttachServedKeeps ==
  ASSUME BrowserInv, NEW s \in Sockets, AttachServed(s) PROVE BrowserInv'
<1>. DEFINE r == sock[s].ask
            m == Msg("superseded", r)
            f == Publish(r, m)
            v == [f[s] EXCEPT !.serving = "run"]
<1>1. r \in Runs /\ m \in Messages
  BY DEF AttachServed, BrowserInv, Served, Msg, Messages
<1>2. f \in [Sockets -> SocketStates] /\ SameEnds(f[s], sock[s])
  BY <1>1, PublishType DEF BrowserInv
<1>3. v \in SocketStates /\ v.pipe = sock[s].pipe /\ v.ask = sock[s].ask
  BY <1>2 DEF SocketStates, SameEnds
<1>4. sock' = [f EXCEPT ![s] = v] /\ attached' = [attached EXCEPT ![r] = s]
  BY <1>2 DEF AttachServed
<1>5. /\ sock' \in [Sockets -> SocketStates]
      /\ \A u \in Sockets : Fades(u) /\ Served(u)'
  <2>. HIDE DEF v, m
  <2>. QED BY <1>1, <1>3, <1>4, PublishKeeps
<1>6. BrowserTypeOK'
  BY <1>1, <1>4, <1>5 DEF AttachServed, BrowserInv, BrowserTypeOK, historyVars
<1>. QED BY <1>5, <1>6, ServerKeeps DEF AttachServed, BrowserInv

LEMMA ServeStopKeeps ==
  ASSUME BrowserInv, NEW s \in Sockets, ServeStop(s) PROVE BrowserInv'
<1>. DEFINE r == sock[s].ask
            m == Msg("stopping", r)
            f == Publish(r, m)
            v == [f[s] EXCEPT !.stop = FALSE]
<1>1. r \in Runs /\ m \in Messages
  BY DEF ServeStop, BrowserInv, Served, Msg, Messages
<1>2. f \in [Sockets -> SocketStates] /\ SameEnds(f[s], sock[s])
  BY <1>1, PublishType DEF BrowserInv
<1>3. v \in SocketStates /\ v.pipe = sock[s].pipe /\ v.ask = sock[s].ask
  BY <1>2 DEF SocketStates, SameEnds
<1>4. sock' = [f EXCEPT ![s] = v] /\ halted' \subseteq Runs
  BY <1>1, <1>2 DEF ServeStop, BrowserInv, BrowserTypeOK
<1>5. /\ sock' \in [Sockets -> SocketStates]
      /\ \A u \in Sockets : Fades(u) /\ Served(u)'
  <2>. HIDE DEF v, m
  <2>. QED BY <1>1, <1>3, <1>4, PublishKeeps
<1>6. BrowserTypeOK'
  BY <1>4, <1>5 DEF ServeStop, BrowserInv, BrowserTypeOK, historyVars
<1>. QED BY <1>5, <1>6, ServerKeeps DEF ServeStop, BrowserInv

LEMMA RunEndsKeeps == ASSUME BrowserInv, NEW r \in Runs, RunEnds(r) PROVE BrowserInv'
<1>1. PICK end \in Ended :
        /\ run' = [run EXCEPT ![r] = end]
        /\ sock' = IF end = "silent" THEN sock ELSE Publish(r, Msg(end, r))
  BY DEF RunEnds
<1>2. end # "silent" => Msg(end, r) \in Messages
  BY DEF Ended, Msg, Messages
<1>3. sock' \in [Sockets -> SocketStates] /\ \A u \in Sockets : SameEnds(sock'[u], sock[u])
  <2>1. sock \in [Sockets -> SocketStates] /\ \A u \in Sockets : SameEnds(sock[u], sock[u])
    BY DEF BrowserInv, BrowserTypeOK, SameEnds
  <2>. QED BY <1>1, <1>2, <2>1, PublishType DEF BrowserInv
<1>4. \A u \in Sockets : Fades(u) /\ Served(u)'
  BY <1>3 DEF SameEnds, Fades, Alive, Served, BrowserInv
<1>5. BrowserTypeOK'
  BY <1>1, <1>3 DEF RunEnds, BrowserInv, BrowserTypeOK, historyVars
<1>. QED BY <1>4, <1>5, ServerKeeps DEF RunEnds, BrowserInv

LEMMA CollectKeeps == ASSUME BrowserInv, NEW r \in Runs, Collect(r) PROVE BrowserInv'
<1>1. \A u \in Sockets : Fades(u) /\ Served(u)'
  BY DEF Collect, Fades, Alive, Served, BrowserInv
<1>2. BrowserTypeOK'
  BY DEF Collect, BrowserInv, BrowserTypeOK, historyVars
<1>. QED BY <1>1, <1>2, ServerKeeps DEF Collect, BrowserInv

-----------------------------------------------------------------------------
(* The tabs *)

LEMMA TabType == ASSUME BrowserTypeOK, NEW t \in Tabs PROVE tab[t] \in TabStates
BY DEF BrowserTypeOK

(* What is persisted is what is shown. *)
LEMMA PersistType ==
  ASSUME BrowserTypeOK, NEW t \in Tabs, tab' \in [Tabs -> TabStates],
         Persist(t) \/ PersistRunning(t) \/ UNCHANGED saved
  PROVE  saved' \in [running : BOOLEAN, run : RunIds]
<1>1. tab'[t].running \in BOOLEAN /\ tab'[t].currentRunId \in RunIds
  BY DEF TabStates
<1>2. CASE Persist(t)
  BY <1>1, <1>2 DEF Persist
<1>3. CASE UNCHANGED saved
  BY <1>3 DEF BrowserTypeOK
<1>. QED BY <1>2, <1>3 DEF PersistRunning

(* A new socket is the only change among the sockets. *)
LEMMA OpenStep ==
  ASSUME BrowserInv, NEW t \in Tabs, NEW s, NEW r \in RunIds, Open(t, s, r)
  PROVE  /\ s \in Own(t) /\ s \in Sockets
         /\ sock' \in [Sockets -> SocketStates]
         /\ sock'[s].pipe = "connecting" /\ \A u \in Sockets \ {s} : sock'[u] = sock[u]
         /\ \A u \in Sockets : Served(u)'
         /\ overlap' \in [Tabs -> BOOLEAN] /\ \A u \in Tabs \ {t} : overlap'[u] = overlap[u]
         /\ ~overlap'[t] => ~overlap[t] /\ \A u \in Own(t) : ~Alive(u)
<1>. DEFINE v == [Free EXCEPT !.pipe = "connecting", !.ask = r]
<1>1. s \in Own(t) /\ s \in Sockets /\ sock' = [sock EXCEPT ![s] = v]
  BY DEF Open, Own
<1>2. v \in SocketStates /\ v.pipe = "connecting" /\ v.serving = "nothing"
  <2>1. <<>> \in Seq(Messages)
    OBVIOUS
  <2>. QED BY <2>1 DEF Free, SocketStates
<1>. HIDE DEF v
<1>3. sock' \in [Sockets -> SocketStates] /\ sock'[s] = v
      /\ \A u \in Sockets \ {s} : sock'[u] = sock[u]
  BY <1>1, <1>2 DEF BrowserInv, BrowserTypeOK
<1>4. \A u \in Sockets : Served(u)'
  BY <1>2, <1>3 DEF Served, BrowserInv
<1>5. overlap' = [overlap EXCEPT ![t] = overlap[t] \/ \E other \in Own(t) : Alive(other)]
      /\ overlap \in [Tabs -> BOOLEAN]
  BY DEF Open, BrowserInv, BrowserTypeOK
<1>6. /\ overlap' \in [Tabs -> BOOLEAN] /\ \A u \in Tabs \ {t} : overlap'[u] = overlap[u]
      /\ overlap'[t] = (overlap[t] \/ \E other \in Own(t) : Alive(other))
  BY <1>5, Zenon
<1>. QED BY <1>1, <1>2, <1>3, <1>4, <1>6

(* A tab with a new socket, and nothing else to hope for. *)
LEMMA FreshSocketKeeps ==
  ASSUME BrowserInv, NEW t \in Tabs, NEW s, NEW r \in RunIds, Open(t, s, r),
         NEW v \in TabStates, tab' = [tab EXCEPT ![t] = v],
         v.ws = s, v.timer = NoRun, v.terminal = FALSE,
         displaced'[t] => overlap'[t], \A u \in Tabs \ {t} : displaced'[u] = displaced[u]
  PROVE  /\ \A u \in Tabs : TabInv(u)'
         /\ tab' \in [Tabs -> TabStates]
<1>1. /\ tab' \in [Tabs -> TabStates] /\ tab'[t] = v /\ \A u \in Tabs \ {t} : tab'[u] = tab[u]
  BY DEF BrowserInv, BrowserTypeOK
<1>2. s # NoSocket
  BY OpenStep, SocketsExist
<1>3. OneAlive(t)'
  BY <1>1, OpenStep DEF OneAlive, Alive, Own
<1>4. NotOver(t)' /\ TimerAlone(t)' /\ Away(t)'
  BY <1>1 DEF NotOver, TimerAlone, Away
<1>5. WsUsed(t)' /\ Sighted(t)'
  BY <1>1, <1>2, OpenStep DEF WsUsed, Sighted, Own
<1>6. ASSUME NEW u \in Tabs \ {t}, NEW x \in Own(u) PROVE Fades(x)
  <2>1. x \in Sockets \ {s}
    BY OpenStep DEF Own
  <2>. QED BY <2>1, OpenStep DEF Fades, Alive
<1>. QED BY <1>1, <1>3, <1>4, <1>5, <1>6, OpenStep, EventKeeps DEF BrowserInv, TabInv

LEMMA StartKeeps == ASSUME BrowserInv, NEW t \in Tabs, Start(t) PROVE BrowserInv'
<1>1. PICK s \in Own(t) :
        /\ Open(t, s, NoRun)
        /\ tab' = [tab EXCEPT ![t] = [@ EXCEPT
             !.timer = NoRun, !.terminal = FALSE, !.attempts = 0, !.runIdRef = NoRun,
             !.running = TRUE, !.ws = s]]
  BY DEF Start
<1>. DEFINE v == [tab[t] EXCEPT
             !.timer = NoRun, !.terminal = FALSE, !.attempts = 0, !.runIdRef = NoRun,
             !.running = TRUE, !.ws = s]
<1>2. v \in TabStates /\ v.ws = s /\ v.timer = NoRun /\ v.terminal = FALSE
  <2>1. tab[t] \in TabStates /\ s \in Sockets /\ 0 \in 0..MaxReconnects
    BY TabType DEF BrowserInv, Own
  <2>. QED BY <2>1 DEF TabStates
<1>3. tab' = [tab EXCEPT ![t] = v]
  BY <1>1
<1>4. displaced' \in [Tabs -> BOOLEAN] /\ ~displaced'[t]
      /\ \A u \in Tabs \ {t} : displaced'[u] = displaced[u]
  BY DEF Start, BrowserInv, BrowserTypeOK
<1>. HIDE DEF v
<1>5. (\A u \in Tabs : TabInv(u)') /\ tab' \in [Tabs -> TabStates]
  BY <1>1, <1>2, <1>3, <1>4, FreshSocketKeeps
<1>6. saved' \in [running : BOOLEAN, run : RunIds]
  BY <1>5, PersistType DEF Start, BrowserInv
<1>7. clicks' \in 0..MaxClicks
  BY DEF Start, Click, BrowserInv, BrowserTypeOK
<1>8. BrowserTypeOK'
  BY <1>1, <1>4, <1>5, <1>6, <1>7, OpenStep DEF Start, BrowserInv, BrowserTypeOK, serverVars
<1>. QED BY <1>1, <1>5, <1>8, OpenStep DEF BrowserInv

(* Attaching, by a tab that was not superseded or opens a second socket. *)
LEMMA AttachKeeps ==
  ASSUME BrowserInv, NEW t \in Tabs, NEW r \in Runs, NEW from \in TabStates,
         AttachToRun(t, from, r), displaced' \in [Tabs -> BOOLEAN],
         displaced'[t] => overlap'[t], \A u \in Tabs \ {t} : displaced'[u] = displaced[u],
         clicks' \in 0..MaxClicks, UNCHANGED <<serverVars, losses>>
  PROVE  BrowserInv'
<1>1. PICK s \in Own(t) :
        /\ Open(t, s, r)
        /\ tab' = [tab EXCEPT ![t] = [from EXCEPT
             !.timer = NoRun, !.terminal = FALSE, !.runIdRef = r, !.ws = s]]
        /\ PersistRunning(t)
  BY DEF AttachToRun
<1>. DEFINE v == [from EXCEPT !.timer = NoRun, !.terminal = FALSE, !.runIdRef = r, !.ws = s]
<1>2. v \in TabStates /\ v.ws = s /\ v.timer = NoRun /\ v.terminal = FALSE
  BY DEF TabStates, Own
<1>3. tab' = [tab EXCEPT ![t] = v]
  BY <1>1
<1>. HIDE DEF v
<1>4. (\A u \in Tabs : TabInv(u)') /\ tab' \in [Tabs -> TabStates]
  BY <1>1, <1>2, <1>3, FreshSocketKeeps
<1>5. saved' \in [running : BOOLEAN, run : RunIds]
  BY <1>1, <1>4, PersistType DEF BrowserInv
<1>6. BrowserTypeOK'
  BY <1>1, <1>4, <1>5, OpenStep DEF BrowserInv, BrowserTypeOK, serverVars
<1>. QED BY <1>1, <1>4, <1>6, OpenStep DEF BrowserInv

LEMMA ReattachKeeps == ASSUME BrowserInv, NEW t \in Tabs, Reattach(t) PROVE BrowserInv'
<1>1. tab[t] \in TabStates /\ tab[t].currentRunId \in Runs
  BY TabType DEF Reattach, BrowserInv, TabStates
<1>2. displaced' \in [Tabs -> BOOLEAN] /\ ~displaced'[t]
      /\ \A u \in Tabs \ {t} : displaced'[u] = displaced[u]
  BY DEF Reattach, BrowserInv, BrowserTypeOK
<1>3. clicks' \in 0..MaxClicks
  BY DEF Reattach, Click, BrowserInv, BrowserTypeOK
<1>. QED BY <1>1, <1>2, <1>3, AttachKeeps DEF Reattach

LEMMA TimerFiresKeeps == ASSUME BrowserInv, NEW t \in Tabs, TimerFires(t) PROVE BrowserInv'
<1>1. tab[t] \in TabStates /\ tab[t].timer \in Runs
  BY TabType DEF TimerFires, BrowserInv, TabStates
<1>2. PICK s \in Own(t) : Open(t, s, tab[t].timer)
  BY DEF TimerFires, AttachToRun
<1>3. displaced'[t] => overlap'[t]
  BY <1>1, <1>2, OpenStep DEF TimerFires, BrowserInv, TabInv, Away
<1>4. displaced' \in [Tabs -> BOOLEAN] /\ clicks' \in 0..MaxClicks
      /\ \A u \in Tabs \ {t} : displaced'[u] = displaced[u]
  BY DEF TimerFires, BrowserInv, BrowserTypeOK
<1>. QED BY <1>1, <1>3, <1>4, AttachKeeps DEF TimerFires

LEMMA ResumeKeeps == ASSUME BrowserInv, NEW t \in Tabs, Resume(t) PROVE BrowserInv'
<1>. DEFINE from == [tab[t] EXCEPT !.running = @ \/ tab[t].resume.live, !.resume = NoResume]
<1>0. tab[t] \in TabStates
  BY TabType DEF BrowserInv
<1>1. tab[t].resume.run \in Runs /\ tab[t].resume.live \in BOOLEAN
  BY <1>0 DEF Resume, TabStates
<1>2. from \in TabStates
  BY <1>0, <1>1 DEF TabStates
<1>3. displaced' \in [Tabs -> BOOLEAN] /\ ~displaced'[t] /\ clicks' \in 0..MaxClicks
      /\ \A u \in Tabs \ {t} : displaced'[u] = displaced[u]
  BY DEF Resume, BrowserInv, BrowserTypeOK
<1>. QED BY <1>1, <1>2, <1>3, AttachKeeps DEF Resume

LEMMA LoadKeeps == ASSUME BrowserInv, NEW t \in Tabs, Load(t) PROVE BrowserInv'
<1>1. saved.run \in RunIds
  BY DEF BrowserInv, BrowserTypeOK
<1>2. PICK v : /\ tab' = [tab EXCEPT ![t] = v]
               /\ \/ v = Page(saved.run)
                  \/ \E live \in BOOLEAN : saved.run # NoRun
                       /\ v = [Page(saved.run) EXCEPT !.resume = [run |-> saved.run, live |-> live]]
  BY DEF Load
<1>3. /\ v \in TabStates /\ v.running = FALSE /\ v.ws = NoSocket /\ v.timer = NoRun
  <2>1. 0 \in 0..MaxReconnects
    OBVIOUS
  <2>2. Page(saved.run) \in TabStates
    BY <1>1, <2>1 DEF Page, TabStates
  <2>3. ASSUME NEW live \in BOOLEAN, saved.run # NoRun,
               v = [Page(saved.run) EXCEPT !.resume = [run |-> saved.run, live |-> live]]
        PROVE  v \in TabStates /\ v.running = FALSE /\ v.ws = NoSocket /\ v.timer = NoRun
    <3>1. [run |-> saved.run, live |-> live] \in [run : Runs, live : BOOLEAN]
      BY <1>1, <2>3
    <3>2. v \in TabStates
      BY <2>2, <2>3, <3>1 DEF TabStates
    <3>. QED BY <2>3, <3>2 DEF Page
  <2>4. CASE v = Page(saved.run)
    BY <2>2, <2>4 DEF Page
  <2>. QED BY <1>2, <2>3, <2>4
<1>4. /\ tab' \in [Tabs -> TabStates] /\ tab'[t] = v /\ \A u \in Tabs \ {t} : tab'[u] = tab[u]
  BY <1>2, <1>3 DEF BrowserInv, BrowserTypeOK
<1>5. /\ sock' \in [Sockets -> SocketStates]
      /\ \A u \in Own(t) : sock'[u] = Free
      /\ \A u \in Sockets \ Own(t) : sock'[u] = sock[u]
  <2>1. <<>> \in Seq(Messages)
    OBVIOUS
  <2>2. Free \in SocketStates
    BY <2>1 DEF Free, SocketStates
  <2>. QED BY <2>2 DEF Load, Own, BrowserInv, BrowserTypeOK
<1>6. \A u \in Sockets : Served(u)'
  BY <1>5 DEF Served, BrowserInv, Free
<1>7. /\ displaced' \in [Tabs -> BOOLEAN] /\ overlap' \in [Tabs -> BOOLEAN] /\ ~displaced'[t]
      /\ \A u \in Tabs \ {t} : displaced'[u] = displaced[u] /\ overlap'[u] = overlap[u]
  BY DEF Load, BrowserInv, BrowserTypeOK
<1>8. TabInv(t)'
  <2>1. OneAlive(t)'
    BY <1>5 DEF OneAlive, Alive, Free, Own
  <2>. QED BY <1>3, <1>4, <1>7, <2>1 DEF TabInv, NotOver, WsUsed, TimerAlone, Away, Sighted
<1>9. \A u \in Tabs : TabInv(u)'
  <2>1. ASSUME NEW u \in Tabs \ {t}, NEW x \in Own(u) PROVE Fades(x)
    BY <1>5 DEF Own, Fades, Alive
  <2>. QED BY <1>4, <1>7, <1>8, <2>1, EventKeeps DEF BrowserInv
<1>10. BrowserTypeOK'
  <2>1. saved' \in [running : BOOLEAN, run : RunIds]
    BY <1>4, PersistType DEF Load, BrowserInv
  <2>2. attached' \in [Runs -> Sockets \union {NoSocket}]
    BY DetachType DEF Load, BrowserInv
  <2>3. clicks' \in 0..MaxClicks
    BY DEF Load, Click, BrowserInv, BrowserTypeOK
  <2>. QED BY <1>4, <1>5, <1>7, <2>1, <2>2, <2>3 DEF Load, BrowserInv, BrowserTypeOK
<1>. QED BY <1>6, <1>9, <1>10 DEF BrowserInv

(* An event after which t has the same socket and the same timer, and shows *)
(* no more runs as running than before.                                     *)
LEMMA QuietKeeps ==
  ASSUME BrowserInv, NEW t \in Tabs, NEW v \in TabStates, tab' = [tab EXCEPT ![t] = v],
         v.ws = tab[t].ws, v.timer = tab[t].timer, v.running => tab[t].running,
         v.running /\ v.terminal => tab[t].terminal, tab[t].terminal => v.terminal,
         v.running => v.connection = tab[t].connection \/ (~overlap[t] => tab[t].ws # NoSocket),
         \A u \in Sockets : Fades(u), UNCHANGED overlap,
         \A u \in Tabs \ {t} : displaced'[u] = displaced[u],
         displaced'[t] => displaced[t] \/ (v.terminal /\ (~overlap[t] => tab[t].ws # NoSocket))
  PROVE  (\A u \in Tabs : TabInv(u)') /\ tab' \in [Tabs -> TabStates]
<1>1. /\ tab' \in [Tabs -> TabStates] /\ tab'[t] = v /\ \A u \in Tabs \ {t} : tab'[u] = tab[u]
  BY DEF BrowserInv, BrowserTypeOK
<1>2. TabInv(t)
  BY DEF BrowserInv
<1>3. OneAlive(t)'
  BY <1>1, <1>2 DEF TabInv, OneAlive, Fades, Own
<1>4. NotOver(t)'
  BY <1>1, <1>2 DEF TabInv, NotOver
<1>5. WsUsed(t)'
  BY <1>1, <1>2 DEF TabInv, WsUsed, Fades, Own
<1>6. TimerAlone(t)'
  BY <1>1, <1>2 DEF TabInv, TimerAlone
<1>7. Away(t)'
  BY <1>1, <1>2 DEF TabInv, Away, TimerAlone
<1>8. Sighted(t)'
  BY <1>1, <1>2, <1>4, <1>5 DEF TabInv, Sighted, WsUsed, NotOver
<1>9. TabInv(t)'
  BY <1>3, <1>4, <1>5, <1>6, <1>7, <1>8 DEF TabInv
<1>. QED BY <1>1, <1>9, EventKeeps DEF BrowserInv, Own

LEMMA StopKeeps == ASSUME BrowserInv, NEW t \in Tabs, Stop(t) PROVE BrowserInv'
<1>. DEFINE r == tab[t].currentRunId
<1>0. sock \in [Sockets -> SocketStates] /\ tab[t] \in TabStates
      /\ \A u \in Sockets : SameEnds(sock[u], sock[u])
  BY TabType DEF BrowserInv, BrowserTypeOK, SameEnds
<1>1. PICK v : /\ tab' = [tab EXCEPT ![t] = v]
               /\ \/ v = [tab[t] EXCEPT !.stopping = TRUE]
                  \/ v = [tab[t] EXCEPT !.running = FALSE]
  <2>1. tab \in [Tabs -> TabStates]
    BY DEF BrowserInv, BrowserTypeOK
  <2>2. \/ tab' = [tab EXCEPT ![t].stopping = TRUE]
        \/ tab' = [tab EXCEPT ![t].running = FALSE]
    BY DEF Stop
  <2>. QED BY <2>1, <2>2
<1>2. /\ v \in TabStates /\ v.ws = tab[t].ws /\ v.timer = tab[t].timer
      /\ v.terminal = tab[t].terminal /\ v.connection = tab[t].connection
      /\ v.running => tab[t].running
  BY <1>0, <1>1 DEF TabStates
<1>3. /\ sock' \in [Sockets -> SocketStates] /\ halted' \subseteq Runs
      /\ \A u \in Sockets : SameEnds(sock'[u], sock[u])
  <2>1. CASE Connected(t) /\ sock' = [sock EXCEPT ![tab[t].ws].stop = TRUE] /\ UNCHANGED halted
    <3>1. tab[t].ws \in Sockets
      BY <1>0, <2>1 DEF Connected, TabStates
    <3>. DEFINE w == [sock[tab[t].ws] EXCEPT !.stop = TRUE]
    <3>2. sock[tab[t].ws] \in SocketStates
      BY <1>0, <3>1
    <3>3. w \in SocketStates /\ SameEnds(w, sock[tab[t].ws])
      BY <3>2 DEF SocketStates, SameEnds
    <3>4. sock' = [sock EXCEPT ![tab[t].ws] = w]
      BY <2>1
    <3>. HIDE DEF w
    <3>. QED BY <1>0, <2>1, <3>1, <3>3, <3>4 DEF BrowserInv, BrowserTypeOK
  <2>2. CASE r # NoRun /\ HaltRun(r)
    <3>1. r \in Runs /\ Msg("stopping", r) \in Messages
      BY <1>0, <2>2 DEF TabStates, Msg, Messages
    <3>. QED BY <2>2, <3>1, PublishType DEF HaltRun, BrowserInv, BrowserTypeOK
  <2>3. CASE UNCHANGED <<halted, sock>>
    BY <1>0, <2>3 DEF BrowserInv, BrowserTypeOK
  <2>. QED BY <2>1, <2>2, <2>3 DEF Stop
<1>4. \A u \in Sockets : Fades(u) /\ Served(u)'
  BY <1>3 DEF SameEnds, Fades, Alive, Served, BrowserInv
<1>5. UNCHANGED <<overlap, displaced>>
  BY DEF Stop, historyVars
<1>6. (\A u \in Tabs : TabInv(u)') /\ tab' \in [Tabs -> TabStates]
  BY <1>1, <1>2, <1>4, <1>5, QuietKeeps
<1>7. saved' \in [running : BOOLEAN, run : RunIds] /\ clicks' \in 0..MaxClicks
  <2>1. Persist(t) /\ clicks' = clicks + 1 /\ clicks < MaxClicks
    BY DEF Stop, Click
  <2>. QED BY <1>6, <2>1, PersistType DEF BrowserInv, BrowserTypeOK
<1>8. BrowserTypeOK'
  BY <1>3, <1>5, <1>6, <1>7 DEF Stop, BrowserInv, BrowserTypeOK
<1>. QED BY <1>4, <1>6, <1>8 DEF BrowserInv

LEMMA ReceiveKeeps ==
  ASSUME BrowserInv, NEW t \in Tabs, NEW s \in Own(t), Receive(t, s) PROVE BrowserInv'
<1>. DEFINE m == Head(sock[s].inbox)
            w == [sock[s] EXCEPT !.inbox = Tail(@)]
            gone == [Free EXCEPT !.pipe = "closed"]
<1>0. s \in Sockets /\ sock[s] \in SocketStates /\ tab[t] \in TabStates
  BY SocketType, TabType DEF BrowserInv, Own
<1>1. m \in Messages /\ Tail(sock[s].inbox) \in Seq(Messages)
  <2>1. sock[s].inbox \in Seq(Messages) /\ sock[s].inbox # <<>>
    BY <1>0 DEF Receive, SocketStates
  <2>. QED BY <2>1
<1>2. w \in SocketStates /\ SameEnds(w, sock[s])
  BY <1>0, <1>1 DEF SocketStates, SameEnds
<1>3. gone \in SocketStates /\ gone.serving = "nothing" /\ gone.pipe = "closed"
  <2>1. <<>> \in Seq(Messages)
    OBVIOUS
  <2>. QED BY <2>1 DEF Free, SocketStates
<1>4. /\ sock' \in [Sockets -> SocketStates]
      /\ \A u \in Sockets : Fades(u) /\ Served(u)'
  <2>1. sock' = [sock EXCEPT ![s] = w] \/ sock' = [sock EXCEPT ![s] = gone]
    BY DEF Receive, HangUp
  <2>2. w.serving \in {"replayed", "run"} => w.ask \in Runs
    BY <1>0, <1>2 DEF SameEnds, Served, BrowserInv
  <2>. HIDE DEF w, gone
  <2>3. CASE sock' = [sock EXCEPT ![s] = w]
    BY <1>0, <1>2, <2>2, <2>3, OwnStep DEF SameEnds
  <2>4. CASE sock' = [sock EXCEPT ![s] = gone]
    BY <1>0, <1>3, <2>4, OwnStep
  <2>. QED BY <2>1, <2>3, <2>4
<1>5. attached' \in [Runs -> Sockets \union {NoSocket}]
  <2>1. UNCHANGED attached \/ DetachAll({s})
    BY DEF Receive
  <2>. QED BY <2>1, DetachType DEF BrowserInv, BrowserTypeOK
<1>6. /\ displaced' \in [Tabs -> BOOLEAN]
      /\ \A u \in Tabs \ {t} : displaced'[u] = displaced[u]
  BY DEF Receive, BrowserInv, BrowserTypeOK
<1>7. ~overlap[t] => tab[t].ws # NoSocket
  BY <1>0, SocketsExist DEF Receive, BrowserInv, TabInv, OneAlive, Alive
<1>8. PICK v \in TabStates :
        /\ tab' = [tab EXCEPT ![t] = v]
        /\ v.ws = tab[t].ws /\ v.timer = tab[t].timer /\ (v.running => tab[t].running)
        /\ v.running /\ v.terminal => tab[t].terminal
        /\ tab[t].terminal => v.terminal
        /\ displaced'[t] => displaced[t] \/ v.terminal
  <2>1. CASE OnStarted(t, m.run) /\ UNCHANGED displaced
    <3>. DEFINE v == [tab[t] EXCEPT
           !.currentRunId = m.run, !.runIdRef = m.run, !.attempts = 0, !.connection = "live"]
    <3>1. m.run \in Runs /\ 0 \in 0..MaxReconnects
      BY <1>1 DEF Messages
    <3>2. /\ v \in TabStates /\ v.ws = tab[t].ws /\ v.timer = tab[t].timer
          /\ v.running = tab[t].running /\ v.terminal = tab[t].terminal
      BY <1>0, <3>1 DEF TabStates
    <3>3. tab' = [tab EXCEPT ![t] = v]
      BY <2>1 DEF OnStarted
    <3>. HIDE DEF v
    <3>. QED BY <2>1, <3>2, <3>3
  <2>2. CASE OnStopping(t) /\ UNCHANGED displaced
    <3>. DEFINE v == [tab[t] EXCEPT !.stopping = TRUE]
    <3>1. /\ v \in TabStates /\ v.ws = tab[t].ws /\ v.timer = tab[t].timer
          /\ v.running = tab[t].running /\ v.terminal = tab[t].terminal
      BY <1>0 DEF TabStates
    <3>2. tab' = [tab EXCEPT ![t] = v]
      BY <2>2 DEF OnStopping, BrowserInv, BrowserTypeOK
    <3>. HIDE DEF v
    <3>. QED BY <2>2, <3>1, <3>2
  <2>3. CASE OnAllComplete(t)
    <3>. DEFINE v == [tab[t] EXCEPT
           !.terminal = TRUE, !.connection = "idle", !.running = FALSE, !.stopping = FALSE]
    <3>1. /\ v \in TabStates /\ v.ws = tab[t].ws /\ v.timer = tab[t].timer
          /\ v.running = FALSE /\ v.terminal = TRUE
      BY <1>0 DEF TabStates
    <3>2. tab' = [tab EXCEPT ![t] = v]
      BY <2>3 DEF OnAllComplete
    <3>. HIDE DEF v
    <3>. QED BY <3>1, <3>2
  <2>4. CASE OnError(t) \/ OnSuperseded(t)
    <3>. DEFINE v == [tab[t] EXCEPT !.terminal = TRUE, !.connection = "idle", !.running = FALSE]
    <3>1. /\ v \in TabStates /\ v.ws = tab[t].ws /\ v.timer = tab[t].timer
          /\ v.running = FALSE /\ v.terminal = TRUE
      BY <1>0 DEF TabStates
    <3>2. tab' = [tab EXCEPT ![t] = v]
      BY <2>4 DEF OnError, OnSuperseded
    <3>. HIDE DEF v
    <3>. QED BY <3>1, <3>2
  <2>. QED BY <2>1, <2>2, <2>3, <2>4 DEF Receive
<1>9. (\A u \in Tabs : TabInv(u)') /\ tab' \in [Tabs -> TabStates]
  <2>1. UNCHANGED overlap
    BY DEF Receive
  <2>2. v.running => v.connection = tab[t].connection \/ (~overlap[t] => tab[t].ws # NoSocket)
    BY <1>7
  <2>3. displaced'[t] => displaced[t] \/ (v.terminal /\ (~overlap[t] => tab[t].ws # NoSocket))
    BY <1>7, <1>8
  <2>. QED BY <1>4, <1>6, <1>8, <2>1, <2>2, <2>3, QuietKeeps
<1>10. saved' \in [running : BOOLEAN, run : RunIds]
  BY <1>9, PersistType DEF Receive, BrowserInv
<1>11. BrowserTypeOK'
  BY <1>4, <1>5, <1>6, <1>9, <1>10 DEF Receive, BrowserInv, BrowserTypeOK
<1>. QED BY <1>4, <1>9, <1>11 DEF BrowserInv

(* If the tab opened one socket at a time, it has none that is alive now:  *)
(* it schedules a new attempt, gives up, or does not show a run any more.  *)
LEMMA OnCloseKeeps ==
  ASSUME BrowserInv, NEW t \in Tabs, NEW s \in Own(t), OnClose(t, s) PROVE BrowserInv'
<1>0. s \in Sockets /\ tab[t] \in TabStates /\ TabInv(t) /\ sock[s].pipe = "closed"
  BY TabType DEF BrowserInv, Own, OnClose
<1>1. /\ sock' \in [Sockets -> SocketStates] /\ sock'[s] = Free
      /\ \A u \in Sockets \ {s} : sock'[u] = sock[u]
  <2>1. <<>> \in Seq(Messages)
    OBVIOUS
  <2>2. Free \in SocketStates
    BY <2>1 DEF Free, SocketStates
  <2>. QED BY <1>0, <2>2 DEF OnClose, BrowserInv, BrowserTypeOK
<1>2. /\ \A u \in Sockets : Served(u)' /\ (Alive(u)' => Alive(u))
      /\ \A u \in Sockets \ {s} : Fades(u)
  BY <1>1 DEF Served, Alive, Fades, Free, BrowserInv
<1>3. UNCHANGED historyVars /\ UNCHANGED <<overlap, displaced>>
  BY DEF OnClose, historyVars
<1>4. OneAlive(t)' \/ tab'[t].ws # tab[t].ws
  BY <1>0, <1>2, <1>3 DEF TabInv, OneAlive, Own
<1>5. tab' \in [Tabs -> TabStates] /\ (\A u \in Tabs \ {t} : tab'[u] = tab[u]) /\ TabInv(t)'
  <2>0. tab \in [Tabs -> TabStates]
    BY DEF BrowserInv, BrowserTypeOK
  <2>1. CASE tab[t].ws # s /\ UNCHANGED tab
    <3>1. WsUsed(t)'
      BY <1>0, <1>1, <2>1 DEF TabInv, WsUsed, Own
    <3>2. OneAlive(t)' /\ NotOver(t)' /\ TimerAlone(t)' /\ Away(t)'
      BY <1>0, <1>3, <1>4, <2>1 DEF TabInv, NotOver, TimerAlone, Away
    <3>3. Sighted(t)'
      BY <1>0, <1>3, <2>1, <3>1 DEF TabInv, Sighted, WsUsed
    <3>. QED BY <2>0, <2>1, <3>1, <3>2, <3>3 DEF TabInv
  <2>2. ASSUME NEW v \in TabStates, tab[t].ws = s, tab' = [tab EXCEPT ![t] = v],
               v.ws = NoSocket, v.terminal = tab[t].terminal,
               v.running => ~v.terminal /\ (v.timer # NoRun \/ v.connection = "disconnected"),
               v.terminal => v.timer = NoRun, ~displaced[t] \/ overlap[t] \/ v.terminal
        PROVE  tab' \in [Tabs -> TabStates] /\ (\A u \in Tabs \ {t} : tab'[u] = tab[u])
               /\ TabInv(t)'
    <3>1. tab' \in [Tabs -> TabStates] /\ tab'[t] = v /\ \A u \in Tabs \ {t} : tab'[u] = tab[u]
      BY <2>0, <2>2
    <3>2. OneAlive(t)'
      BY <1>0, <1>1, <1>2, <1>3, <2>2 DEF TabInv, OneAlive, Alive, Free, Own
    <3>3. NotOver(t)' /\ WsUsed(t)' /\ TimerAlone(t)' /\ Away(t)' /\ Sighted(t)'
      BY <1>3, <2>2, <3>1 DEF NotOver, WsUsed, TimerAlone, Away, Sighted
    <3>. QED BY <3>1, <3>2, <3>3 DEF TabInv
  <2>3. tab[t].ws = s => tab[t].timer = NoRun /\ (displaced[t] /\ ~overlap[t] => tab[t].terminal)
                         /\ (tab[t].running => ~tab[t].terminal)
    BY <1>0, SocketsExist DEF TabInv, TimerAlone, Away, NotOver
  <2>4. CASE tab[t].ws = s /\ tab[t].terminal
             /\ tab' = [tab EXCEPT ![t] = [@ EXCEPT !.ws = NoSocket, !.connection = "idle"]]
    <3>. DEFINE v == [tab[t] EXCEPT !.ws = NoSocket, !.connection = "idle"]
    <3>1. v \in TabStates /\ v.ws = NoSocket /\ v.terminal = TRUE /\ v.timer = tab[t].timer
          /\ v.running = tab[t].running
      BY <1>0, <2>4 DEF TabStates
    <3>2. tab' = [tab EXCEPT ![t] = v]
      BY <2>4
    <3>. HIDE DEF v
    <3>. QED BY <2>2, <2>3, <2>4, <3>1, <3>2
  <2>5. CASE tab[t].ws = s /\ ~tab[t].terminal /\ tab[t].runIdRef # NoRun
             /\ tab' = [tab EXCEPT ![t] = ScheduleReconnect(t)]
    <3>. DEFINE v == ScheduleReconnect(t)
    <3>1. v \in TabStates /\ v.ws = NoSocket /\ v.terminal = tab[t].terminal
      <4>1. CASE tab[t].attempts >= MaxReconnects
        <5>1. v = [tab[t] EXCEPT !.ws = NoSocket, !.connection = "disconnected"]
          BY <4>1 DEF ScheduleReconnect
        <5>. QED BY <1>0, <5>1 DEF TabStates
      <4>2. CASE ~(tab[t].attempts >= MaxReconnects)
        <5>1. tab[t].attempts + 1 \in 0..MaxReconnects
          BY <1>0, <4>2 DEF TabStates
        <5>2. v = [tab[t] EXCEPT !.ws = NoSocket, !.attempts = tab[t].attempts + 1,
                                 !.connection = "reconnecting", !.timer = tab[t].runIdRef]
          BY <4>2 DEF ScheduleReconnect
        <5>. HIDE DEF v
        <5>. QED BY <1>0, <5>1, <5>2 DEF TabStates
      <4>. QED BY <4>1, <4>2
    <3>2. v.timer # NoRun \/ v.connection = "disconnected"
      BY <1>0, <2>5 DEF ScheduleReconnect, TabStates
    <3>3. tab' = [tab EXCEPT ![t] = v]
      BY <2>5
    <3>. HIDE DEF v
    <3>. QED BY <2>2, <2>3, <2>5, <3>1, <3>2, <3>3
  <2>6. CASE tab[t].ws = s /\ ~tab[t].terminal
             /\ tab' = [tab EXCEPT ![t] =
                  [@ EXCEPT !.ws = NoSocket, !.running = FALSE, !.connection = "idle"]]
    <3>. DEFINE v == [tab[t] EXCEPT !.ws = NoSocket, !.running = FALSE, !.connection = "idle"]
    <3>1. v \in TabStates /\ v.ws = NoSocket /\ v.terminal = tab[t].terminal /\ v.running = FALSE
      BY <1>0 DEF TabStates
    <3>2. tab' = [tab EXCEPT ![t] = v]
      BY <2>6
    <3>. HIDE DEF v
    <3>. QED BY <2>2, <2>3, <2>6, <3>1, <3>2
  <2>. QED BY <2>1, <2>4, <2>5, <2>6 DEF OnClose
<1>6. \A u \in Tabs : TabInv(u)'
  <2>1. \A u \in Tabs \ {t} : Own(u) \subseteq Sockets \ {s}
    BY DEF Own
  <2>. QED BY <1>2, <1>3, <1>5, <2>1, EventKeeps DEF BrowserInv
<1>7. saved' \in [running : BOOLEAN, run : RunIds]
  BY <1>5, PersistType DEF OnClose, BrowserInv
<1>8. BrowserTypeOK'
  BY <1>1, <1>3, <1>5, <1>7 DEF OnClose, BrowserInv, BrowserTypeOK, serverVars
<1>. QED BY <1>2, <1>6, <1>8 DEF BrowserInv

-----------------------------------------------------------------------------
(* Theorems *)

LEMMA BrowserInvInit == BrowserInit => BrowserInv
<1>. SUFFICES ASSUME BrowserInit PROVE BrowserInv
  OBVIOUS
<1>1. <<>> \in Seq(Messages) /\ 0 \in 0..MaxReconnects
  OBVIOUS
<1>2. tab \in [Tabs -> TabStates] /\ sock \in [Sockets -> SocketStates]
  <2>1. Page(NoRun) \in TabStates
    BY <1>1 DEF Page, TabStates
  <2>2. Free \in SocketStates
    BY <1>1 DEF Free, SocketStates
  <2>. QED BY <2>1, <2>2 DEF BrowserInit
<1>3. BrowserTypeOK
  BY <1>2 DEF BrowserInit, BrowserTypeOK
<1>4. ASSUME NEW t \in Tabs PROVE TabInv(t)
  <2>1. tab[t] = Page(NoRun) /\ ~displaced[t] /\ \A s \in Own(t) : sock[s] = Free
    BY DEF BrowserInit, Own
  <2>2. OneAlive(t)
    BY <2>1 DEF OneAlive, Alive, Free
  <2>. QED BY <2>1, <2>2 DEF TabInv, NotOver, WsUsed, TimerAlone, Away, Sighted, Page
<1>5. \A s \in Sockets : Served(s)
  BY DEF BrowserInit, Served, Free
<1>. QED BY <1>3, <1>4, <1>5 DEF BrowserInv

LEMMA StutterKeeps == ASSUME BrowserInv, UNCHANGED browserVars PROVE BrowserInv'
<1>1. UNCHANGED <<tab, saved, sock, run, attached, halted, clicks, losses, displaced, overlap>>
  BY DEF browserVars, serverVars, historyVars
<1>2. BrowserTypeOK'
  BY <1>1 DEF BrowserInv, BrowserTypeOK
<1>3. \A s \in Sockets : Fades(s) /\ Served(s)'
  BY <1>1 DEF Fades, Alive, Served, BrowserInv
<1>. QED BY <1>1, <1>2, <1>3, ServerKeeps DEF BrowserInv, historyVars

(* What is known of the tabs and of their sockets is known always, for any *)
(* number of tabs, runs, clicks, losses and attempts to reconnect.         *)
THEOREM BrowserInvariant == BrowserSpec => []BrowserInv
<1>1. BrowserInit => BrowserInv
  BY BrowserInvInit
<1>2. BrowserInv /\ [BrowserNext]_browserVars => BrowserInv'
  <2>. SUFFICES ASSUME BrowserInv, [BrowserNext]_browserVars PROVE BrowserInv'
    OBVIOUS
  <2>1. ASSUME NEW t \in Tabs, Start(t) \/ Reattach(t) \/ Load(t) \/ Stop(t) PROVE BrowserInv'
    BY <2>1, StartKeeps, ReattachKeeps, LoadKeeps, StopKeeps
  <2>2. ASSUME NEW t \in Tabs, Events(t) PROVE BrowserInv'
    BY <2>2, TimerFiresKeeps, ResumeKeeps, ReceiveKeeps, OnCloseKeeps DEF Events
  <2>3. ASSUME NEW s \in Sockets, Lose(s) PROVE BrowserInv'
    BY <2>3, LoseKeeps
  <2>4. ASSUME NEW s \in Sockets, Serve(s) PROVE BrowserInv'
    BY <2>4, OpenedKeeps, ServeStartKeeps, ServeAttachKeeps, ServeHistoryKeeps,
       AttachServedKeeps, ServeStopKeeps DEF Serve
  <2>5. ASSUME NEW r \in Runs, RunEnds(r) \/ Collect(r) PROVE BrowserInv'
    BY <2>5, RunEndsKeeps, CollectKeeps
  <2>6. CASE Restart
    BY <2>6, RestartKeeps
  <2>7. CASE UNCHANGED browserVars
    BY <2>7, StutterKeeps
  <2>. QED BY <2>1, <2>2, <2>3, <2>4, <2>5, <2>6, <2>7 DEF BrowserNext
<1>. QED BY <1>1, <1>2, PTL DEF BrowserSpec

(* Every variable keeps its type; with it, the attempts of a tab stay      *)
(* within MAX_RECONNECT_ATTEMPTS.                                          *)
THEOREM BrowserTypesHold == BrowserSpec => []BrowserTypeOK
<1>1. BrowserInv => BrowserTypeOK
  BY DEF BrowserInv
<1>. QED BY <1>1, BrowserInvariant, PTL

(* A tab that shows a run as running has a socket, waits to reconnect, or  *)
(* says that it is disconnected (handleSocketClose, scheduleReconnect).    *)
THEOREM TabsAreNeverBlind == BrowserSpec => []NeverBlind
<1>1. BrowserInv => NeverBlind
  BY DEF BrowserInv, TabInv, Sighted, NeverBlind
<1>. QED BY <1>1, BrowserInvariant, PTL

(* A tab that another one took a run from does not take it back when it    *)
(* loses a socket (terminalRef, and the branch of handleSocketClose).      *)
THEOREM SupersededTabsStayAway == BrowserSpec => []SupersededStaysAway
<1>1. BrowserInv => SupersededStaysAway
  BY DEF BrowserInv, TabInv, Away, SupersededStaysAway
<1>. QED BY <1>1, BrowserInvariant, PTL

-----------------------------------------------------------------------------
(* A tab that reconnects has something to wait for *)

(* The server once had run r, if it is one. *)
KnownIn(runs, r) == r = NoRun \/ (r \in Runs /\ runs[r] # "absent")

(* All runs that a socket, or a tab, is about are known. *)
SocketKnown(runs, v) ==
  KnownIn(runs, v.ask) /\ \A i \in 1..Len(v.inbox) : KnownIn(runs, v.inbox[i].run)

TabKnown(runs, v) ==
  /\ KnownIn(runs, v.timer) /\ KnownIn(runs, v.runIdRef)
  /\ KnownIn(runs, v.currentRunId) /\ KnownIn(runs, v.resume.run)

(* Answering, of a socket whose run is known. *)
Coming(v) ==
  \/ v.pipe \in {"connecting", "closed"}
  \/ v.pipe = "open" /\ v.serving = "request"
  \/ v.pipe = "open" /\ \E i \in 1..Len(v.inbox) : v.inbox[i].type # "stopping"

(* ReconnectionIsUnderWay, for one tab. *)
Waits(v, sockets) ==
  v.connection = "reconnecting" =>
    v.timer # NoRun \/ (v.ws # NoSocket /\ Coming(sockets[v.ws]))

WaitInv ==
  /\ KnownIn(run, saved.run)
  /\ \A s \in Sockets : SocketKnown(run, sock[s])
  /\ \A t \in Tabs : TabKnown(run, tab[t]) /\ Waits(tab[t], sock)

(* The server forgets no run altogether. *)
Remembers == \A r \in Runs : run[r] # "absent" => run'[r] # "absent"

LEMMA StaysKnown ==
  ASSUME Remembers
  PROVE  /\ \A r : KnownIn(run, r) => KnownIn(run', r)
         /\ \A v : SocketKnown(run, v) => SocketKnown(run', v)
         /\ \A v : TabKnown(run, v) => TabKnown(run', v)
<1>1. \A r : KnownIn(run, r) => KnownIn(run', r)
  BY DEF Remembers, KnownIn
<1>. HIDE DEF KnownIn
<1>. QED BY <1>1 DEF SocketKnown, TabKnown

(* Socket s has what it had, and is about known runs. *)
GoesOn(s) == SocketKnown(run', sock'[s]) /\ (Coming(sock[s]) => Coming(sock'[s]))

(* A step in which the tabs in A take part. *)
LEMMA WaitKept ==
  ASSUME BrowserInv, WaitInv, Remembers, NEW A \in SUBSET Tabs, KnownIn(run', saved'.run),
         \A s \in Sockets : SocketKnown(run', sock'[s]),
         \A t \in A : TabKnown(run', tab'[t]) /\ Waits(tab'[t], sock'),
         \A u \in Tabs \ A : tab'[u] = tab[u] /\ \A s \in Own(u) : GoesOn(s)
  PROVE  WaitInv'
<1>1. ASSUME NEW u \in Tabs \ A PROVE TabKnown(run', tab'[u]) /\ Waits(tab'[u], sock')
  <2>1. TabKnown(run', tab[u]) /\ Waits(tab[u], sock)
    BY StaysKnown DEF WaitInv
  <2>2. tab[u].ws # NoSocket => tab[u].ws \in Own(u)
    BY DEF BrowserInv, TabInv, WsUsed
  <2>. QED BY <2>1, <2>2 DEF Waits, GoesOn
<1>. QED BY <1>1 DEF WaitInv

(* What happens away from the tabs. *)
LEMMA ServerWaitKept ==
  ASSUME BrowserInv, WaitInv, Remembers, \A s \in Sockets : GoesOn(s), UNCHANGED tab,
         UNCHANGED saved \/ \E t \in Tabs : Persist(t)
  PROVE  WaitInv'
<1>1. KnownIn(run', saved.run) /\ \A t \in Tabs : KnownIn(run', tab'[t].currentRunId)
  BY StaysKnown DEF WaitInv, TabKnown
<1>2. KnownIn(run', saved'.run)
  BY <1>1 DEF Persist
<1>3. \A u \in Tabs \ {} : tab'[u] = tab[u] /\ \A s \in Own(u) : GoesOn(s)
  BY DEF Own
<1>4. \A s \in Sockets : SocketKnown(run', sock'[s])
  BY DEF GoesOn
<1>5. {} \in SUBSET Tabs
  OBVIOUS
<1>. QED BY <1>2, <1>3, <1>4, <1>5, WaitKept

LEMMA Appended ==
  ASSUME NEW S, NEW q \in Seq(S), NEW m \in S
  PROVE  /\ Len(Append(q, m)) = Len(q) + 1 /\ Len(q) \in Nat
         /\ \A i \in 1..Len(q) : Append(q, m)[i] = q[i]
         /\ Append(q, m)[Len(q) + 1] = m
OBVIOUS

(* A message more, about a known run, takes nothing away. *)
LEMMA PublishGoesOn ==
  ASSUME BrowserInv, NEW r \in Runs, NEW m \in Messages, KnownIn(run, m.run),
         NEW s \in Sockets, SocketKnown(run, sock[s])
  PROVE  /\ SocketKnown(run, Publish(r, m)[s])
         /\ Coming(sock[s]) => Coming(Publish(r, m)[s])
<1>1. CASE attached[r] = NoSocket \/ attached[r] # s
  <2>1. Publish(r, m)[s] = sock[s]
    BY <1>1 DEF Publish, BrowserInv, BrowserTypeOK
  <2>. QED BY <2>1
<1>2. CASE attached[r] # NoSocket /\ attached[r] = s
  <2>1. sock[s] \in SocketStates /\ sock[s].inbox \in Seq(Messages)
    BY SocketType DEF BrowserInv, SocketStates
  <2>. DEFINE q == sock[s].inbox
              w == [sock[s] EXCEPT !.inbox = Append(q, m)]
  <2>2. Publish(r, m)[s] = w
    BY <1>2 DEF Publish, BrowserInv, BrowserTypeOK
  <2>3. w.pipe = sock[s].pipe /\ w.ask = sock[s].ask /\ w.serving = sock[s].serving
        /\ w.inbox = Append(q, m)
    BY <2>1 DEF SocketStates
  <2>4. /\ Len(Append(q, m)) = Len(q) + 1 /\ Len(q) \in Nat
        /\ \A i \in 1..Len(q) : Append(q, m)[i] = q[i]
        /\ Append(q, m)[Len(q) + 1] = m
    BY <2>1, Appended
  <2>. HIDE DEF w, q
  <2>5. SocketKnown(run, w)
    <3>1. KnownIn(run, w.ask) /\ \A i \in 1..Len(q) : KnownIn(run, q[i].run)
      BY <2>3 DEF SocketKnown, q
    <3>2. \A i \in 1..Len(w.inbox) : i \in 1..Len(q) \/ i = Len(q) + 1
      BY <2>3, <2>4
    <3>. QED BY <2>3, <2>4, <3>1, <3>2 DEF SocketKnown
  <2>6. Coming(sock[s]) => Coming(w)
    <3>1. 1..Len(q) \subseteq 1..Len(w.inbox)
      BY <2>3, <2>4
    <3>. QED BY <2>3, <2>4, <3>1 DEF Coming, q
  <2>. QED BY <2>2, <2>5, <2>6
<1>. QED BY <1>1, <1>2

(* One socket is in state w now, the others, in f, may have got a message. *)
LEMMA SocketsGoOn ==
  ASSUME BrowserInv, WaitInv, Remembers, NEW s \in Sockets, NEW w,
         NEW f \in [Sockets -> SocketStates], sock' = [f EXCEPT ![s] = w],
         \A u \in Sockets : SocketKnown(run, f[u]) /\ (Coming(sock[u]) => Coming(f[u])),
         SocketKnown(run', w), Coming(sock[s]) => Coming(w)
  PROVE  \A u \in Sockets : GoesOn(u)
<1>1. sock'[s] = w /\ \A u \in Sockets \ {s} : sock'[u] = f[u]
  OBVIOUS
<1>2. GoesOn(s)
  BY <1>1 DEF GoesOn
<1>3. ASSUME NEW u \in Sockets \ {s} PROVE GoesOn(u)
  BY <1>1, StaysKnown DEF GoesOn
<1>. QED BY <1>2, <1>3

LEMMA SocketGoesOn ==
  ASSUME BrowserInv, WaitInv, Remembers, NEW s \in Sockets, NEW w,
         sock' = [sock EXCEPT ![s] = w],
         SocketKnown(run', w), Coming(sock[s]) => Coming(w)
  PROVE  \A u \in Sockets : GoesOn(u)
<1>1. sock \in [Sockets -> SocketStates]
  BY DEF BrowserInv, BrowserTypeOK
<1>2. \A u \in Sockets : SocketKnown(run, sock[u])
  BY DEF WaitInv
<1>. QED BY <1>1, <1>2, SocketsGoOn

LEMMA SameRuns == ASSUME UNCHANGED run PROVE Remembers
BY DEF Remembers

(* A broken socket is one whose end is to be noticed. *)
LEMMA BreakGoesOn ==
  ASSUME BrowserInv, WaitInv, Remembers, NEW S, sock' = Break(S)
  PROVE  \A u \in Sockets : GoesOn(u)
<1>. DEFINE gone == [Free EXCEPT !.pipe = "closed"]
<1>1. SocketKnown(run', gone) /\ Coming(gone)
  BY DEF Free, SocketKnown, KnownIn, Coming
<1>2. ASSUME NEW u \in Sockets PROVE sock'[u] = gone \/ sock'[u] = sock[u]
  BY DEF Break
<1>3. \A u \in Sockets : SocketKnown(run', sock[u])
  BY StaysKnown DEF WaitInv
<1>. HIDE DEF gone
<1>. QED BY <1>1, <1>2, <1>3 DEF GoesOn

LEMMA LoseWaits == ASSUME BrowserInv, WaitInv, NEW s \in Sockets, Lose(s) PROVE WaitInv'
<1>1. Remembers /\ sock' = Break({s}) /\ UNCHANGED <<tab, saved>>
  BY SameRuns DEF Lose
<1>. QED BY <1>1, BreakGoesOn, ServerWaitKept

LEMMA RestartWaits == ASSUME BrowserInv, WaitInv, Restart PROVE WaitInv'
<1>1. Remembers
  BY DEF Restart, Remembers
<1>2. sock' = Break(Sockets) /\ UNCHANGED <<tab, saved>>
  BY DEF Restart
<1>. QED BY <1>1, <1>2, BreakGoesOn, ServerWaitKept

LEMMA OpenedWaits == ASSUME BrowserInv, WaitInv, NEW s \in Sockets, Opened(s) PROVE WaitInv'
<1>. DEFINE w == [sock[s] EXCEPT !.pipe = "open", !.serving = "request"]
<1>1. /\ w.pipe = "open" /\ w.serving = "request"
      /\ w.ask = sock[s].ask /\ w.inbox = sock[s].inbox
  <2>1. sock[s] \in SocketStates
    BY SocketType DEF BrowserInv
  <2>. QED BY <2>1 DEF SocketStates
<1>2. sock' = [sock EXCEPT ![s] = w] /\ UNCHANGED <<tab, run>>
  BY DEF Opened, serverVars
<1>. HIDE DEF w
<1>3. SocketKnown(run', w) /\ Coming(w)
  BY <1>1, <1>2 DEF SocketKnown, Coming, WaitInv
<1>4. \A u \in Sockets : GoesOn(u)
  BY <1>2, <1>3, SocketGoesOn, SameRuns
<1>5. \E t \in Tabs : Persist(t)
  BY DEF Opened, Sockets
<1>. QED BY <1>2, <1>4, <1>5, ServerWaitKept, SameRuns

(* The server answers with a greeting, or with the end of the run. *)
LEMMA AnswerGoesOn ==
  ASSUME BrowserInv, WaitInv, Remembers, NEW s \in Sockets, NEW w, NEW r \in Runs,
         KnownIn(run', r), sock' = [sock EXCEPT ![s] = w],
         w.pipe = sock[s].pipe, w.ask = r,
         \A i \in 1..Len(w.inbox) : w.inbox[i].run = r,
         \E i \in 1..Len(w.inbox) : w.inbox[i].type # "stopping",
         sock[s].serving = "request"
  PROVE  \A u \in Sockets : GoesOn(u)
<1>1. SocketKnown(run', w)
  BY DEF SocketKnown
<1>2. Coming(sock[s]) => Coming(w)
  BY DEF Coming
<1>. QED BY <1>1, <1>2, SocketGoesOn

LEMMA ServeStartWaits ==
  ASSUME BrowserInv, WaitInv, NEW s \in Sockets, ServeStart(s) PROVE WaitInv'
<1>1. PICK r \in Runs :
        /\ run[r] = "absent" /\ run' = [run EXCEPT ![r] = "live"]
        /\ attached' = [attached EXCEPT ![r] = s]
        /\ sock' = [sock EXCEPT ![s] = [@ EXCEPT
              !.serving = "run", !.ask = r, !.inbox = <<Msg("run_started", r)>>]]
  BY Zenon DEF ServeStart
<1>2. Remembers /\ KnownIn(run', r)
  BY <1>1 DEF Remembers, KnownIn, BrowserInv, BrowserTypeOK
<1>. DEFINE q == <<Msg("run_started", r)>>
            w == [sock[s] EXCEPT !.serving = "run", !.ask = r, !.inbox = q]
<1>3. 1 \in 1..Len(q) /\ \A i \in 1..Len(q) : q[i].run = r /\ q[i].type # "stopping"
  BY DEF Msg
<1>4. sock[s].serving = "request" /\ UNCHANGED <<tab, saved>>
  BY DEF ServeStart
<1>5. sock' = [sock EXCEPT ![s] = w]
  BY <1>1
<1>6. w.pipe = sock[s].pipe /\ w.ask = r /\ w.inbox = q
  <2>1. sock[s] \in SocketStates
    BY SocketType DEF BrowserInv
  <2>. QED BY <2>1 DEF SocketStates
<1>. HIDE DEF q, w
<1>7. \A u \in Sockets : GoesOn(u)
  BY <1>2, <1>3, <1>4, <1>5, <1>6, AnswerGoesOn
<1>. QED BY <1>2, <1>4, <1>7, ServerWaitKept

LEMMA Concatenated ==
  ASSUME NEW S, NEW p \in Seq(S), NEW q \in Seq(S), Len(q) = 1
  PROVE  /\ p \o q \in Seq(S) /\ Len(p) \in Nat /\ Len(p \o q) = Len(p) + 1
         /\ (p \o q)[Len(p) + 1] = q[1]
<1>1. /\ p \o q \in Seq(S) /\ Len(p \o q) = Len(p) + Len(q)
      /\ \A i \in 1..Len(p) + Len(q) :
           (p \o q)[i] = IF i <= Len(p) THEN p[i] ELSE q[i - Len(p)]
  BY ConcatProperties, Zenon
<1>2. Len(p) \in Nat
  OBVIOUS
<1>3. Len(p) + 1 \in 1..Len(p) + Len(q) /\ ~(Len(p) + 1 <= Len(p)) /\ Len(p) + 1 - Len(p) = 1
  BY <1>2
<1>. QED BY <1>1, <1>2, <1>3

(* What is replayed is about the run, and has the greeting. *)
LEMMA ReplaySpeaks ==
  ASSUME NEW r \in Runs
  PROVE  /\ \A i \in 1..Len(Replay(r)) : Replay(r)[i].run = r
         /\ \E i \in 1..Len(Replay(r)) : Replay(r)[i].type # "stopping"
<1>. DEFINE a == IF r \in halted THEN <<Msg("stopping", r)>> ELSE <<>>
            b == IF run[r] \in {"all_complete", "error"} THEN <<Msg(run[r], r)>> ELSE <<>>
            c == <<Msg("run_started", r)>>
            M == {Msg("stopping", r), Msg("run_started", r), Msg(run[r], r)}
<1>0. <<Msg("stopping", r)>> \in Seq(M) /\ <<Msg(run[r], r)>> \in Seq(M) /\ <<>> \in Seq(M)
      /\ c \in Seq(M)
  OBVIOUS
<1>1. a \in Seq(M) /\ b \in Seq(M) /\ c \in Seq(M)
  BY <1>0
<1>2. Len(c) = 1 /\ c[1] = Msg("run_started", r)
  OBVIOUS
<1>3. (\A m \in M : m.run = r) /\ Msg("run_started", r).type = "run_started"
  BY DEF Msg
<1>4. Replay(r) = (a \o b) \o c
  <2>1. Replay(r) = a \o b \o c
    BY DEF Replay
  <2>. QED BY <2>1
<1>. HIDE DEF a, b, c, M
<1>5. a \o b \in Seq(M)
  BY <1>1, ConcatProperties, Zenon
<1>6. /\ Replay(r) \in Seq(M) /\ Len(a \o b) \in Nat /\ Len(Replay(r)) = Len(a \o b) + 1
      /\ Replay(r)[Len(a \o b) + 1] = c[1]
  <2>. DEFINE p == a \o b
  <2>1. p \in Seq(M)
    BY <1>5
  <2>. HIDE DEF p
  <2>2. /\ p \o c \in Seq(M) /\ Len(p) \in Nat /\ Len(p \o c) = Len(p) + 1
        /\ (p \o c)[Len(p) + 1] = c[1]
    BY <1>1, <1>2, <2>1, Concatenated, Zenon
  <2>3. Replay(r) = p \o c
    BY <1>4 DEF p
  <2>. QED BY <2>2, <2>3, Zenon DEF p
<1>7. \A i \in 1..Len(Replay(r)) : Replay(r)[i] \in M
  BY <1>6
<1>8. Len(a \o b) + 1 \in 1..Len(Replay(r))
  BY <1>6
<1>. QED BY <1>2, <1>3, <1>6, <1>7, <1>8

LEMMA ServeAttachWaits ==
  ASSUME BrowserInv, WaitInv, NEW s \in Sockets, ServeAttach(s) PROVE WaitInv'
<1>. DEFINE r == sock[s].ask
            w == [sock[s] EXCEPT !.serving = "replayed", !.inbox = Replay(r)]
<1>1. sock[s] \in SocketStates /\ sock[s].serving = "request" /\ r # NoRun
  BY SocketType DEF ServeAttach, BrowserInv
<1>2. r \in Runs /\ KnownIn(run', r) /\ UNCHANGED <<tab, saved, run>>
  BY <1>1 DEF ServeAttach, SocketStates, WaitInv, SocketKnown, serverVars
<1>3. sock' = [sock EXCEPT ![s] = w]
  BY DEF ServeAttach
<1>4. w.pipe = sock[s].pipe /\ w.ask = r /\ w.inbox = Replay(r)
  BY <1>1 DEF SocketStates
<1>5. /\ \A i \in 1..Len(w.inbox) : w.inbox[i].run = r
      /\ \E i \in 1..Len(w.inbox) : w.inbox[i].type # "stopping"
  BY <1>2, <1>4, ReplaySpeaks
<1>. HIDE DEF w, r
<1>6. \A u \in Sockets : GoesOn(u)
  BY <1>1, <1>2, <1>3, <1>4, <1>5, AnswerGoesOn, SameRuns
<1>. QED BY <1>2, <1>6, ServerWaitKept, SameRuns

LEMMA ServeHistoryWaits ==
  ASSUME BrowserInv, WaitInv, NEW s \in Sockets, ServeHistory(s) PROVE WaitInv'
<1>. DEFINE r == sock[s].ask
            q == IF run[r] = "unknown" THEN <<Msg("error", r)>>
                 ELSE <<Msg("run_started", r), Msg("all_complete", r)>>
            w == [sock[s] EXCEPT !.serving = "nothing", !.inbox = q]
<1>1. sock[s] \in SocketStates /\ sock[s].serving = "request" /\ r # NoRun
  BY SocketType DEF ServeHistory, BrowserInv
<1>2. r \in Runs /\ KnownIn(run', r) /\ UNCHANGED <<tab, saved, run>>
  BY <1>1 DEF ServeHistory, SocketStates, WaitInv, SocketKnown, serverVars
<1>3. sock' = [sock EXCEPT ![s] = w]
  BY DEF ServeHistory
<1>4. w.pipe = sock[s].pipe /\ w.ask = r /\ w.inbox = q
  BY <1>1 DEF SocketStates
<1>5. 1 \in 1..Len(q) /\ \A i \in 1..Len(q) : q[i].run = r /\ q[i].type # "stopping"
  BY DEF Msg
<1>. HIDE DEF w, q, r
<1>6. \A u \in Sockets : GoesOn(u)
  BY <1>1, <1>2, <1>3, <1>4, <1>5, AnswerGoesOn, SameRuns
<1>. QED BY <1>2, <1>6, ServerWaitKept, SameRuns

LEMMA AttachServedWaits ==
  ASSUME BrowserInv, WaitInv, NEW s \in Sockets, AttachServed(s) PROVE WaitInv'
<1>. DEFINE r == sock[s].ask
            m == Msg("superseded", r)
            f == Publish(r, m)
            w == [f[s] EXCEPT !.serving = "run"]
<1>1. r \in Runs /\ m \in Messages /\ m.run = r /\ sock[s].serving = "replayed"
  BY DEF AttachServed, BrowserInv, Served, Msg, Messages
<1>2. /\ KnownIn(run, m.run) /\ UNCHANGED <<tab, saved, run>>
  BY <1>1 DEF AttachServed, WaitInv, SocketKnown
<1>3. /\ f \in [Sockets -> SocketStates] /\ SameEnds(f[s], sock[s])
      /\ \A u \in Sockets : SocketKnown(run, f[u]) /\ (Coming(sock[u]) => Coming(f[u]))
  BY <1>1, <1>2, PublishType, PublishGoesOn DEF BrowserInv, WaitInv
<1>4. /\ w.pipe = f[s].pipe /\ w.ask = f[s].ask /\ w.inbox = f[s].inbox
  BY <1>3 DEF SocketStates
<1>5. sock' = [f EXCEPT ![s] = w]
  BY <1>3 DEF AttachServed
<1>. HIDE DEF w, f, r, m
<1>6. SocketKnown(run', w)
  BY <1>2, <1>3, <1>4 DEF SocketKnown
<1>7. Coming(sock[s]) => Coming(w)
  <2>1. f[s].serving # "request"
    BY <1>1, <1>3 DEF SameEnds
  <2>. QED BY <1>3, <1>4, <2>1 DEF Coming
<1>8. \A u \in Sockets : GoesOn(u)
  BY <1>2, <1>3, <1>5, <1>6, <1>7, SocketsGoOn, SameRuns
<1>. QED BY <1>2, <1>8, ServerWaitKept, SameRuns

LEMMA ServeStopWaits ==
  ASSUME BrowserInv, WaitInv, NEW s \in Sockets, ServeStop(s) PROVE WaitInv'
<1>. DEFINE r == sock[s].ask
            m == Msg("stopping", r)
            f == Publish(r, m)
            w == [f[s] EXCEPT !.stop = FALSE]
<1>1. r \in Runs /\ m \in Messages /\ m.run = r
  BY DEF ServeStop, BrowserInv, Served, Msg, Messages
<1>2. KnownIn(run, m.run) /\ UNCHANGED <<tab, saved, run>>
  BY <1>1 DEF ServeStop, WaitInv, SocketKnown
<1>3. /\ f \in [Sockets -> SocketStates]
      /\ \A u \in Sockets : SocketKnown(run, f[u]) /\ (Coming(sock[u]) => Coming(f[u]))
  BY <1>1, <1>2, PublishType, PublishGoesOn DEF BrowserInv, WaitInv
<1>4. w.pipe = f[s].pipe /\ w.ask = f[s].ask /\ w.inbox = f[s].inbox /\ w.serving = f[s].serving
  BY <1>3 DEF SocketStates
<1>5. sock' = [f EXCEPT ![s] = w]
  BY <1>3 DEF ServeStop
<1>. HIDE DEF w, f, r, m
<1>6. SocketKnown(run', w) /\ (Coming(sock[s]) => Coming(w))
  BY <1>2, <1>3, <1>4 DEF SocketKnown, Coming
<1>7. \A u \in Sockets : GoesOn(u)
  BY <1>2, <1>3, <1>5, <1>6, SocketsGoOn, SameRuns
<1>. QED BY <1>2, <1>7, ServerWaitKept, SameRuns

LEMMA RunEndsWaits == ASSUME BrowserInv, WaitInv, NEW r \in Runs, RunEnds(r) PROVE WaitInv'
<1>1. PICK end \in Ended :
        /\ run[r] = "live" /\ run' = [run EXCEPT ![r] = end]
        /\ sock' = IF end = "silent" THEN sock ELSE Publish(r, Msg(end, r))
  BY DEF RunEnds
<1>2. Remembers /\ KnownIn(run, r)
  BY <1>1 DEF Remembers, KnownIn, Ended, BrowserInv, BrowserTypeOK
<1>3. end # "silent" => Msg(end, r) \in Messages
  BY DEF Ended, Msg, Messages
<1>4. Msg(end, r).run = r
  BY DEF Msg
<1>5. \A u \in Sockets : SocketKnown(run, sock'[u]) /\ (Coming(sock[u]) => Coming(sock'[u]))
  BY <1>1, <1>2, <1>3, <1>4, PublishGoesOn DEF WaitInv
<1>6. \A u \in Sockets : GoesOn(u)
  BY <1>2, <1>5, StaysKnown DEF GoesOn
<1>. QED BY <1>2, <1>6, ServerWaitKept DEF RunEnds

LEMMA CollectWaits == ASSUME BrowserInv, WaitInv, NEW r \in Runs, Collect(r) PROVE WaitInv'
<1>1. Remembers /\ UNCHANGED <<tab, saved, sock>>
  BY DEF Collect, Remembers, BrowserInv, BrowserTypeOK
<1>2. \A u \in Sockets : GoesOn(u)
  BY <1>1, StaysKnown DEF GoesOn, WaitInv
<1>. QED BY <1>1, <1>2, ServerWaitKept

(* An event of tab t: what is left to know is how t comes out of it. *)
LEMMA TabWaitKept ==
  ASSUME BrowserInv, WaitInv, UNCHANGED run, NEW t \in Tabs,
         \A u \in Tabs \ {t} : tab'[u] = tab[u] /\ \A s \in Own(u) : GoesOn(s),
         \A s \in Sockets : SocketKnown(run', sock'[s]),
         TabKnown(run', tab'[t]), Waits(tab'[t], sock'),
         UNCHANGED saved \/ Persist(t)
  PROVE  WaitInv'
<1>1. KnownIn(run', saved'.run)
  BY DEF Persist, TabKnown, WaitInv
<1>2. {t} \in SUBSET Tabs
  OBVIOUS
<1>. QED BY <1>1, <1>2, WaitKept, SameRuns

(* A new socket: the tab waits for it. *)
LEMMA FreshSocketWaits ==
  ASSUME BrowserInv, WaitInv, UNCHANGED run, NEW t \in Tabs, NEW s \in Own(t),
         NEW r \in RunIds, Open(t, s, r), KnownIn(run, r),
         NEW v \in TabStates, tab' = [tab EXCEPT ![t] = v], v.ws = s, TabKnown(run, v),
         Persist(t) \/ PersistRunning(t)
  PROVE  WaitInv'
<1>. DEFINE w == [Free EXCEPT !.pipe = "connecting", !.ask = r]
<1>1. s \in Sockets /\ s # NoSocket
  BY SocketsExist DEF Own
<1>2. tab'[t] = v /\ \A u \in Tabs \ {t} : tab'[u] = tab[u]
  BY DEF BrowserInv, BrowserTypeOK
<1>3. sock' = [sock EXCEPT ![s] = w]
  BY DEF Open
<1>4. SocketKnown(run', w) /\ Coming(w)
  BY DEF Free, SocketKnown, KnownIn, Coming
<1>. HIDE DEF w
<1>5. sock'[s] = w
  BY <1>1, <1>3 DEF BrowserInv, BrowserTypeOK
<1>6. \A u \in Sockets : GoesOn(u)
  BY <1>1, <1>3, <1>4, SocketGoesOn, SameRuns
<1>7. Waits(tab'[t], sock')
  BY <1>1, <1>2, <1>4, <1>5 DEF Waits
<1>8. TabKnown(run', tab'[t])
  BY <1>2
<1>9. UNCHANGED saved \/ Persist(t)
  BY DEF PersistRunning
<1>10. /\ \A u \in Tabs \ {t} : tab'[u] = tab[u] /\ \A x \in Own(u) : GoesOn(x)
       /\ \A x \in Sockets : SocketKnown(run', sock'[x])
  BY <1>2, <1>6 DEF Own, GoesOn
<1>. QED BY <1>7, <1>8, <1>9, <1>10, TabWaitKept

LEMMA StartWaits == ASSUME BrowserInv, WaitInv, NEW t \in Tabs, Start(t) PROVE WaitInv'
<1>1. PICK s \in Own(t) :
        /\ Open(t, s, NoRun)
        /\ tab' = [tab EXCEPT ![t] = [@ EXCEPT
             !.timer = NoRun, !.terminal = FALSE, !.attempts = 0, !.runIdRef = NoRun,
             !.running = TRUE, !.ws = s]]
  BY Zenon DEF Start
<1>. DEFINE v == [tab[t] EXCEPT
             !.timer = NoRun, !.terminal = FALSE, !.attempts = 0, !.runIdRef = NoRun,
             !.running = TRUE, !.ws = s]
<1>2. /\ v \in TabStates /\ v.ws = s /\ v.timer = NoRun /\ v.runIdRef = NoRun
      /\ v.currentRunId = tab[t].currentRunId /\ v.resume = tab[t].resume
  <2>1. tab[t] \in TabStates /\ s \in Sockets /\ 0 \in 0..MaxReconnects
    BY TabType DEF BrowserInv, Own
  <2>. QED BY <2>1 DEF TabStates
<1>3. tab' = [tab EXCEPT ![t] = v] /\ UNCHANGED run /\ Persist(t)
  BY <1>1 DEF Start, serverVars
<1>. HIDE DEF v
<1>4. TabKnown(run, v)
  BY <1>2 DEF TabKnown, KnownIn, WaitInv
<1>5. NoRun \in RunIds /\ KnownIn(run, NoRun)
  BY DEF KnownIn
<1>. QED BY <1>1, <1>2, <1>3, <1>4, <1>5, FreshSocketWaits

LEMMA AttachWaits ==
  ASSUME BrowserInv, WaitInv, UNCHANGED run, NEW t \in Tabs, NEW r \in Runs,
         KnownIn(run, r), NEW from \in TabStates, TabKnown(run, from),
         AttachToRun(t, from, r)
  PROVE  WaitInv'
<1>1. PICK s \in Own(t) :
        /\ Open(t, s, r)
        /\ tab' = [tab EXCEPT ![t] = [from EXCEPT
             !.timer = NoRun, !.terminal = FALSE, !.runIdRef = r, !.ws = s]]
        /\ PersistRunning(t)
  BY Zenon DEF AttachToRun
<1>. DEFINE v == [from EXCEPT !.timer = NoRun, !.terminal = FALSE, !.runIdRef = r, !.ws = s]
<1>2. /\ v \in TabStates /\ v.ws = s /\ v.timer = NoRun /\ v.runIdRef = r
      /\ v.currentRunId = from.currentRunId /\ v.resume = from.resume
  BY DEF TabStates, Own
<1>3. tab' = [tab EXCEPT ![t] = v]
  BY <1>1
<1>. HIDE DEF v
<1>4. TabKnown(run, v)
  BY <1>2 DEF TabKnown, KnownIn
<1>. QED BY <1>1, <1>2, <1>3, <1>4, FreshSocketWaits

LEMMA ReattachWaits == ASSUME BrowserInv, WaitInv, NEW t \in Tabs, Reattach(t) PROVE WaitInv'
<1>1. tab[t] \in TabStates /\ tab[t].currentRunId \in Runs
  BY TabType DEF Reattach, BrowserInv, TabStates
<1>2. TabKnown(run, tab[t]) /\ KnownIn(run, tab[t].currentRunId) /\ UNCHANGED run
  BY DEF WaitInv, TabKnown, Reattach, serverVars
<1>. QED BY <1>1, <1>2, AttachWaits DEF Reattach

LEMMA TimerFiresWaits == ASSUME BrowserInv, WaitInv, NEW t \in Tabs, TimerFires(t) PROVE WaitInv'
<1>1. tab[t] \in TabStates /\ tab[t].timer \in Runs
  BY TabType DEF TimerFires, BrowserInv, TabStates
<1>2. TabKnown(run, tab[t]) /\ KnownIn(run, tab[t].timer) /\ UNCHANGED run
  BY DEF WaitInv, TabKnown, TimerFires, serverVars
<1>. QED BY <1>1, <1>2, AttachWaits DEF TimerFires

LEMMA ResumeWaits == ASSUME BrowserInv, WaitInv, NEW t \in Tabs, Resume(t) PROVE WaitInv'
<1>. DEFINE from == [tab[t] EXCEPT !.running = @ \/ tab[t].resume.live, !.resume = NoResume]
<1>0. tab[t] \in TabStates
  BY TabType DEF BrowserInv
<1>1. tab[t].resume.run \in Runs /\ tab[t].resume.live \in BOOLEAN
  BY <1>0 DEF Resume, TabStates
<1>2. /\ from \in TabStates /\ from.timer = tab[t].timer /\ from.runIdRef = tab[t].runIdRef
      /\ from.currentRunId = tab[t].currentRunId /\ from.resume = NoResume
  BY <1>0, <1>1 DEF TabStates
<1>3. TabKnown(run, tab[t]) /\ KnownIn(run, tab[t].resume.run) /\ UNCHANGED run
  BY DEF WaitInv, TabKnown, Resume, serverVars
<1>4. AttachToRun(t, from, tab[t].resume.run)
  BY DEF Resume
<1>. HIDE DEF from
<1>5. TabKnown(run, from)
  BY <1>2, <1>3 DEF TabKnown, KnownIn, NoResume
<1>. QED BY <1>1, <1>2, <1>3, <1>4, <1>5, AttachWaits

LEMMA LoadWaits == ASSUME BrowserInv, WaitInv, NEW t \in Tabs, Load(t) PROVE WaitInv'
<1>1. PICK v : /\ tab' = [tab EXCEPT ![t] = v]
               /\ \/ v = Page(saved.run)
                  \/ \E live \in BOOLEAN :
                       v = [Page(saved.run) EXCEPT !.resume = [run |-> saved.run, live |-> live]]
  BY DEF Load
<1>2. /\ v.connection = "idle" /\ v.timer = NoRun /\ v.runIdRef = saved.run
      /\ v.currentRunId = saved.run /\ v.resume.run \in {saved.run, NoRun}
  BY <1>1 DEF Page, NoResume
<1>3. tab'[t] = v /\ \A u \in Tabs \ {t} : tab'[u] = tab[u]
  BY <1>1 DEF BrowserInv, BrowserTypeOK
<1>4. UNCHANGED run /\ Persist(t)
  BY DEF Load
<1>5. TabKnown(run', tab'[t]) /\ Waits(tab'[t], sock')
  BY <1>2, <1>3, <1>4 DEF TabKnown, KnownIn, Waits, WaitInv
<1>6. /\ \A s \in Own(t) : sock'[s] = Free
      /\ \A s \in Sockets \ Own(t) : sock'[s] = sock[s]
  BY DEF Load, Own
<1>7. SocketKnown(run', Free)
  BY DEF SocketKnown, KnownIn, Free
<1>8. \A s \in Sockets : SocketKnown(run', sock'[s])
  BY <1>4, <1>6, <1>7 DEF WaitInv
<1>9. \A u \in Tabs \ {t} : tab'[u] = tab[u] /\ \A s \in Own(u) : GoesOn(s)
  <2>1. \A u \in Tabs \ {t} : \A s \in Own(u) : s \in Sockets /\ sock'[s] = sock[s]
    BY <1>6 DEF Own
  <2>. QED BY <1>3, <1>8, <2>1 DEF GoesOn
<1>. QED BY <1>4, <1>5, <1>8, <1>9, TabWaitKept

LEMMA StopWaits == ASSUME BrowserInv, WaitInv, NEW t \in Tabs, Stop(t) PROVE WaitInv'
<1>0. /\ sock \in [Sockets -> SocketStates] /\ tab \in [Tabs -> TabStates] /\ tab[t] \in TabStates
      /\ UNCHANGED run /\ Persist(t)
  BY TabType DEF BrowserInv, BrowserTypeOK, Stop
<1>1. PICK v : /\ tab' = [tab EXCEPT ![t] = v]
               /\ \/ v = [tab[t] EXCEPT !.stopping = TRUE]
                  \/ v = [tab[t] EXCEPT !.running = FALSE]
  <2>1. \/ tab' = [tab EXCEPT ![t].stopping = TRUE]
        \/ tab' = [tab EXCEPT ![t].running = FALSE]
    BY DEF Stop
  <2>. QED BY <1>0, <2>1
<1>2. /\ v.ws = tab[t].ws /\ v.timer = tab[t].timer /\ v.connection = tab[t].connection
      /\ v.runIdRef = tab[t].runIdRef /\ v.currentRunId = tab[t].currentRunId
      /\ v.resume = tab[t].resume
  BY <1>0, <1>1 DEF TabStates
<1>3. \A s \in Sockets : GoesOn(s)
  <2>1. CASE Connected(t) /\ sock' = [sock EXCEPT ![tab[t].ws].stop = TRUE]
    <3>1. tab[t].ws \in Sockets
      BY <1>0, <2>1 DEF Connected, TabStates
    <3>. DEFINE w == [sock[tab[t].ws] EXCEPT !.stop = TRUE]
    <3>2. LET old == sock[tab[t].ws]
          IN  w.pipe = old.pipe /\ w.ask = old.ask /\ w.serving = old.serving /\ w.inbox = old.inbox
      BY <1>0, <3>1 DEF SocketStates
    <3>3. sock' = [sock EXCEPT ![tab[t].ws] = w]
      BY <2>1
    <3>. HIDE DEF w
    <3>4. SocketKnown(run', w) /\ (Coming(sock[tab[t].ws]) => Coming(w))
      BY <1>0, <3>1, <3>2 DEF WaitInv, SocketKnown, Coming
    <3>. QED BY <1>0, <3>1, <3>3, <3>4, SocketGoesOn, SameRuns
  <2>2. CASE tab[t].currentRunId # NoRun /\ HaltRun(tab[t].currentRunId)
    <3>. DEFINE r == tab[t].currentRunId
                m == Msg("stopping", r)
    <3>1. r \in Runs /\ m \in Messages /\ m.run = r
      BY <1>0, <2>2 DEF TabStates, Msg, Messages
    <3>2. KnownIn(run, m.run)
      BY <3>1 DEF WaitInv, TabKnown
    <3>3. sock' = Publish(r, m)
      BY <2>2 DEF HaltRun
    <3>. HIDE DEF m, r
    <3>. QED BY <1>0, <3>1, <3>2, <3>3, PublishGoesOn DEF GoesOn, WaitInv
  <2>3. CASE UNCHANGED sock
    BY <1>0, <2>3 DEF GoesOn, WaitInv
  <2>. QED BY <2>1, <2>2, <2>3 DEF Stop
<1>4. tab'[t] = v /\ \A u \in Tabs \ {t} : tab'[u] = tab[u]
  BY <1>0, <1>1
<1>5. TabKnown(run', tab'[t])
  BY <1>0, <1>2, <1>4 DEF TabKnown, WaitInv
<1>6. Waits(tab'[t], sock')
  <2>1. tab[t].ws # NoSocket => tab[t].ws \in Sockets
    BY <1>0 DEF TabStates
  <2>. QED BY <1>2, <1>3, <1>4, <2>1 DEF Waits, WaitInv, GoesOn
<1>7. /\ \A u \in Tabs \ {t} : tab'[u] = tab[u] /\ \A x \in Own(u) : GoesOn(x)
      /\ \A x \in Sockets : SocketKnown(run', sock'[x])
  BY <1>3, <1>4 DEF Own, GoesOn
<1>. QED BY <1>0, <1>5, <1>6, <1>7, TabWaitKept

LEMMA Dequeued ==
  ASSUME NEW S, NEW q \in Seq(S), q # <<>>
  PROVE  /\ Head(q) = q[1] /\ Len(q) \in Nat /\ Len(q) >= 1
         /\ Len(Tail(q)) = Len(q) - 1
         /\ \A i \in 1..(Len(q) - 1) : Tail(q)[i] = q[i + 1]
OBVIOUS

(* A message about a stop does not end the wait, the others do. *)
LEMMA ReceiveWaits ==
  ASSUME BrowserInv, WaitInv, NEW t \in Tabs, NEW s \in Own(t), Receive(t, s) PROVE WaitInv'
<1>. DEFINE q == sock[s].inbox
            m == Head(q)
            w == [sock[s] EXCEPT !.inbox = Tail(q)]
            gone == [Free EXCEPT !.pipe = "closed"]
<1>0. /\ s \in Sockets /\ sock[s] \in SocketStates /\ tab[t] \in TabStates
      /\ sock \in [Sockets -> SocketStates] /\ tab \in [Tabs -> TabStates]
      /\ UNCHANGED run /\ Persist(t) /\ sock[s].pipe = "open" /\ q # <<>>
  BY SocketType, TabType DEF BrowserInv, BrowserTypeOK, Own, Receive
<1>1. /\ m = q[1] /\ Len(q) \in Nat /\ Len(q) >= 1 /\ Len(Tail(q)) = Len(q) - 1
      /\ \A i \in 1..(Len(q) - 1) : Tail(q)[i] = q[i + 1]
  <2>1. q \in Seq(Messages)
    BY <1>0 DEF SocketStates
  <2>. QED BY <1>0, <2>1, Dequeued, Zenon
<1>2. /\ w.pipe = sock[s].pipe /\ w.ask = sock[s].ask /\ w.serving = sock[s].serving
      /\ w.inbox = Tail(q)
  BY <1>0 DEF SocketStates
<1>3. sock' = [sock EXCEPT ![s] = w] \/ sock' = [sock EXCEPT ![s] = gone]
  BY DEF Receive, HangUp
<1>4. SocketKnown(run', gone)
  BY DEF SocketKnown, KnownIn, Free
<1>. HIDE DEF w, gone
<1>5. KnownIn(run', m.run) /\ SocketKnown(run', w)
  <2>1. KnownIn(run, sock[s].ask) /\ \A i \in 1..Len(q) : KnownIn(run, q[i].run)
    BY <1>0 DEF WaitInv, SocketKnown
  <2>2. 1 \in 1..Len(q) /\ \A i \in 1..(Len(q) - 1) : i + 1 \in 1..Len(q)
    BY <1>1
  <2>. HIDE DEF q, m
  <2>. QED BY <1>0, <1>1, <1>2, <2>1, <2>2 DEF SocketKnown
<1>6. m.type = "stopping" /\ Coming(sock[s]) => Coming(w)
  <2>. SUFFICES ASSUME m.type = "stopping", Coming(sock[s]) PROVE Coming(w)
    OBVIOUS
  <2>1. CASE sock[s].serving = "request"
    BY <1>0, <1>2, <2>1 DEF Coming
  <2>2. CASE sock[s].serving # "request"
    <3>1. PICK i \in 1..Len(q) : q[i].type # "stopping"
      BY <1>0, <2>2 DEF Coming
    <3>. HIDE DEF m, q
    <3>2. i # 1
      BY <1>1, <3>1
    <3>3. i - 1 \in 1..(Len(q) - 1) /\ (i - 1) + 1 = i
      BY <1>1, <3>2
    <3>4. i - 1 \in 1..Len(w.inbox) /\ w.inbox[i - 1] = q[i]
      BY <1>1, <1>2, <3>3
    <3>. QED BY <1>0, <1>2, <3>1, <3>4 DEF Coming
  <2>. QED BY <2>1, <2>2
<1>7. PICK v : /\ tab' = [tab EXCEPT ![t] = v]
               /\ \/ /\ v = [tab[t] EXCEPT !.currentRunId = m.run, !.runIdRef = m.run,
                                           !.attempts = 0, !.connection = "live"]
                  \/ /\ v = [tab[t] EXCEPT !.stopping = TRUE]
                     /\ m.type = "stopping" /\ sock' = [sock EXCEPT ![s] = w]
                  \/ v = [tab[t] EXCEPT !.terminal = TRUE, !.connection = "idle",
                                        !.running = FALSE, !.stopping = FALSE]
                  \/ v = [tab[t] EXCEPT !.terminal = TRUE, !.connection = "idle",
                                        !.running = FALSE]
  <2>1. CASE OnStarted(t, m.run)
    BY <2>1 DEF OnStarted
  <2>2. CASE OnStopping(t) /\ m.type = "stopping" /\ sock' = [sock EXCEPT ![s] = w]
    <3>1. tab' = [tab EXCEPT ![t] = [tab[t] EXCEPT !.stopping = TRUE]]
      BY <1>0, <2>2 DEF OnStopping
    <3>. QED BY <2>2, <3>1
  <2>3. CASE OnAllComplete(t)
    BY <2>3 DEF OnAllComplete
  <2>4. CASE OnError(t) \/ OnSuperseded(t)
    BY <2>4 DEF OnError, OnSuperseded
  <2>. QED BY <2>1, <2>2, <2>3, <2>4 DEF Receive, w
<1>8. /\ v.ws = tab[t].ws /\ v.timer = tab[t].timer /\ v.resume = tab[t].resume
      /\ v.runIdRef \in {tab[t].runIdRef, m.run}
      /\ v.currentRunId \in {tab[t].currentRunId, m.run}
      /\ \/ v.connection # "reconnecting"
         \/ /\ v.connection = tab[t].connection
            /\ m.type = "stopping" /\ sock' = [sock EXCEPT ![s] = w]
  <2>. HIDE DEF m
  <2>. QED BY <1>0, <1>7 DEF TabStates
<1>. HIDE DEF m, q
<1>9. /\ tab'[t] = v /\ \A u \in Tabs \ {t} : tab'[u] = tab[u]
      /\ sock'[s] \in {w, gone} /\ \A x \in Sockets \ {s} : sock'[x] = sock[x]
  BY <1>0, <1>3, <1>7
<1>10. TabKnown(run', tab'[t])
  BY <1>0, <1>5, <1>8, <1>9 DEF TabKnown, WaitInv
<1>11. \A x \in Sockets : SocketKnown(run', sock'[x])
  BY <1>0, <1>4, <1>5, <1>9 DEF WaitInv
<1>12. Waits(tab'[t], sock')
  <2>1. CASE v.connection # "reconnecting"
    BY <1>9, <2>1 DEF Waits
  <2>2. CASE v.connection = tab[t].connection /\ m.type = "stopping"
             /\ sock' = [sock EXCEPT ![s] = w]
    <3>1. tab[t].ws # NoSocket => tab[t].ws \in Sockets
      BY <1>0 DEF TabStates
    <3>2. sock'[s] = w
      BY <1>0, <2>2
    <3>3. \A x \in Sockets : Coming(sock[x]) => Coming(sock'[x])
      BY <1>6, <1>9, <2>2, <3>2
    <3>. QED BY <1>8, <1>9, <3>1, <3>3 DEF Waits, WaitInv
  <2>. QED BY <1>8, <2>1, <2>2
<1>13. \A u \in Tabs \ {t} : tab'[u] = tab[u] /\ \A x \in Own(u) : GoesOn(x)
  <2>1. \A u \in Tabs \ {t} : \A x \in Own(u) : x \in Sockets \ {s}
    BY DEF Own
  <2>. QED BY <1>9, <1>11, <2>1 DEF GoesOn
<1>. QED BY <1>0, <1>10, <1>11, <1>12, <1>13, TabWaitKept

(* The end of the current socket is answered with a timer, or ends the wait. *)
LEMMA OnCloseWaits ==
  ASSUME BrowserInv, WaitInv, NEW t \in Tabs, NEW s \in Own(t), OnClose(t, s) PROVE WaitInv'
<1>0. /\ s \in Sockets /\ tab[t] \in TabStates /\ tab \in [Tabs -> TabStates]
      /\ sock \in [Sockets -> SocketStates] /\ UNCHANGED run
      /\ TabKnown(run, tab[t]) /\ Waits(tab[t], sock)
  BY TabType DEF BrowserInv, BrowserTypeOK, Own, OnClose, serverVars, WaitInv
<1>1. sock'[s] = Free /\ \A u \in Sockets \ {s} : sock'[u] = sock[u]
  BY <1>0 DEF OnClose
<1>2. SocketKnown(run', Free)
  BY DEF SocketKnown, KnownIn, Free
<1>3. \A x \in Sockets : SocketKnown(run', sock'[x])
  BY <1>0, <1>1, <1>2 DEF WaitInv
<1>4. UNCHANGED saved \/ Persist(t)
  BY DEF OnClose, PersistRunning
<1>5. (\A u \in Tabs \ {t} : tab'[u] = tab[u]) /\ TabKnown(run', tab'[t]) /\ Waits(tab'[t], sock')
  <2>1. CASE tab[t].ws # s /\ UNCHANGED tab
    <3>1. tab[t].ws # NoSocket => tab[t].ws \in Sockets \ {s}
      BY <1>0, <2>1 DEF TabStates
    <3>. QED BY <1>0, <1>1, <2>1, <3>1 DEF Waits
  <2>2. ASSUME NEW v, tab' = [tab EXCEPT ![t] = v],
               v.timer \in {tab[t].timer, tab[t].runIdRef}, v.runIdRef = tab[t].runIdRef,
               v.currentRunId = tab[t].currentRunId, v.resume = tab[t].resume,
               v.connection = "reconnecting" => v.timer # NoRun
        PROVE  (\A u \in Tabs \ {t} : tab'[u] = tab[u]) /\ TabKnown(run', tab'[t])
               /\ Waits(tab'[t], sock')
    <3>1. tab'[t] = v /\ \A u \in Tabs \ {t} : tab'[u] = tab[u]
      BY <1>0, <2>2
    <3>. QED BY <1>0, <2>2, <3>1 DEF TabKnown, Waits
  <2>3. CASE tab' = [tab EXCEPT ![t] = [@ EXCEPT !.ws = NoSocket, !.connection = "idle"]]
    <3>. DEFINE v == [tab[t] EXCEPT !.ws = NoSocket, !.connection = "idle"]
    <3>1. /\ v.timer = tab[t].timer /\ v.runIdRef = tab[t].runIdRef
          /\ v.currentRunId = tab[t].currentRunId /\ v.resume = tab[t].resume
          /\ v.connection = "idle"
      BY <1>0 DEF TabStates
    <3>2. tab' = [tab EXCEPT ![t] = v]
      BY <2>3
    <3>. HIDE DEF v
    <3>. QED BY <2>2, <3>1, <3>2
  <2>4. CASE tab' = [tab EXCEPT ![t] =
               [@ EXCEPT !.ws = NoSocket, !.running = FALSE, !.connection = "idle"]]
    <3>. DEFINE v == [tab[t] EXCEPT !.ws = NoSocket, !.running = FALSE, !.connection = "idle"]
    <3>1. /\ v.timer = tab[t].timer /\ v.runIdRef = tab[t].runIdRef
          /\ v.currentRunId = tab[t].currentRunId /\ v.resume = tab[t].resume
          /\ v.connection = "idle"
      BY <1>0 DEF TabStates
    <3>2. tab' = [tab EXCEPT ![t] = v]
      BY <2>4
    <3>. HIDE DEF v
    <3>. QED BY <2>2, <3>1, <3>2
  <2>5. CASE tab[t].runIdRef # NoRun /\ tab' = [tab EXCEPT ![t] = ScheduleReconnect(t)]
    <3>. DEFINE v == ScheduleReconnect(t)
    <3>1. CASE tab[t].attempts >= MaxReconnects
      <4>1. v = [tab[t] EXCEPT !.ws = NoSocket, !.connection = "disconnected"]
        BY <3>1 DEF ScheduleReconnect
      <4>2. /\ v.timer = tab[t].timer /\ v.runIdRef = tab[t].runIdRef
            /\ v.currentRunId = tab[t].currentRunId /\ v.resume = tab[t].resume
            /\ v.connection = "disconnected"
        BY <1>0, <4>1 DEF TabStates
      <4>3. tab' = [tab EXCEPT ![t] = v]
        BY <2>5
      <4>. HIDE DEF v
      <4>. QED BY <2>2, <4>2, <4>3
    <3>2. CASE ~(tab[t].attempts >= MaxReconnects)
      <4>1. v = [tab[t] EXCEPT !.ws = NoSocket, !.attempts = @ + 1,
                               !.connection = "reconnecting", !.timer = tab[t].runIdRef]
        BY <3>2 DEF ScheduleReconnect
      <4>2. /\ v.timer = tab[t].runIdRef /\ v.runIdRef = tab[t].runIdRef
            /\ v.currentRunId = tab[t].currentRunId /\ v.resume = tab[t].resume
        BY <1>0, <4>1 DEF TabStates
      <4>3. tab' = [tab EXCEPT ![t] = v]
        BY <2>5
      <4>. HIDE DEF v
      <4>. QED BY <2>2, <2>5, <4>2, <4>3
    <3>. QED BY <3>1, <3>2
  <2>. QED BY <2>1, <2>3, <2>4, <2>5 DEF OnClose
<1>6. \A u \in Tabs \ {t} : tab'[u] = tab[u] /\ \A x \in Own(u) : GoesOn(x)
  <2>1. \A u \in Tabs \ {t} : \A x \in Own(u) : x \in Sockets \ {s}
    BY DEF Own
  <2>. QED BY <1>1, <1>3, <1>5, <2>1 DEF GoesOn
<1>. QED BY <1>0, <1>3, <1>4, <1>5, <1>6, TabWaitKept

(* A tab that says it is reconnecting has a timer, or a socket on which    *)
(* something is going to happen: the server never owes it an answer that   *)
(* nobody will give, however many tabs, runs, losses and restarts there    *)
(* are.                                                                    *)
THEOREM ReconnectionNeverHangs == BrowserSpec => []ReconnectionIsUnderWay
<1>1. BrowserInit => WaitInv
  <2>. SUFFICES ASSUME BrowserInit PROVE WaitInv
    OBVIOUS
  <2>1. \A s \in Sockets : SocketKnown(run, sock[s])
    BY DEF BrowserInit, SocketKnown, KnownIn, Free
  <2>2. \A t \in Tabs : TabKnown(run, tab[t]) /\ Waits(tab[t], sock)
    BY DEF BrowserInit, TabKnown, KnownIn, Waits, Page, NoResume
  <2>. QED BY <2>1, <2>2 DEF BrowserInit, WaitInv, KnownIn
<1>2. BrowserInv /\ WaitInv /\ [BrowserNext]_browserVars => WaitInv'
  <2>. SUFFICES ASSUME BrowserInv, WaitInv, [BrowserNext]_browserVars PROVE WaitInv'
    OBVIOUS
  <2>1. ASSUME NEW t \in Tabs, Start(t) \/ Reattach(t) \/ Load(t) \/ Stop(t) PROVE WaitInv'
    BY <2>1, StartWaits, ReattachWaits, LoadWaits, StopWaits
  <2>2. ASSUME NEW t \in Tabs, Events(t) PROVE WaitInv'
    BY <2>2, TimerFiresWaits, ResumeWaits, ReceiveWaits, OnCloseWaits DEF Events
  <2>3. ASSUME NEW s \in Sockets, Lose(s) PROVE WaitInv'
    BY <2>3, LoseWaits
  <2>4. ASSUME NEW s \in Sockets, Serve(s) PROVE WaitInv'
    BY <2>4, OpenedWaits, ServeStartWaits, ServeAttachWaits, ServeHistoryWaits,
       AttachServedWaits, ServeStopWaits DEF Serve
  <2>5. ASSUME NEW r \in Runs, RunEnds(r) \/ Collect(r) PROVE WaitInv'
    BY <2>5, RunEndsWaits, CollectWaits
  <2>6. CASE Restart
    BY <2>6, RestartWaits
  <2>7. CASE UNCHANGED browserVars
    <3>1. UNCHANGED <<tab, saved, sock, run>>
      BY <2>7 DEF browserVars, serverVars
    <3>. QED BY <3>1 DEF WaitInv
  <2>. QED BY <2>1, <2>2, <2>3, <2>4, <2>5, <2>6, <2>7 DEF BrowserNext
<1>3. BrowserInv /\ WaitInv => ReconnectionIsUnderWay
  <2>. SUFFICES ASSUME BrowserInv, WaitInv, NEW t \in Tabs,
                       tab[t].connection = "reconnecting", tab[t].timer = NoRun
       PROVE  tab[t].ws # NoSocket /\ Answering(tab[t].ws)
    BY DEF ReconnectionIsUnderWay
  <2>1. tab[t].ws # NoSocket /\ Coming(sock[tab[t].ws])
    BY DEF WaitInv, Waits
  <2>2. KnownIn(run, sock[tab[t].ws].ask)
    BY <2>1, TabType DEF BrowserInv, TabStates, WaitInv, SocketKnown
  <2>. QED BY <2>1, <2>2 DEF Coming, Answering, KnownIn
<1>. QED BY <1>1, <1>2, <1>3, BrowserInvariant, PTL DEF BrowserSpec
=============================================================================
