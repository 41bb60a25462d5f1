----------------------------- MODULE BrowserTab -----------------------------
(***************************************************************************)
(* The browser's side of a run (TestRunProvider of TestRunContext.jsx):    *)
(* several tabs that start runs, stop them, lose their socket, reconnect   *)
(* with back-off, are reloaded, and take runs from each other.  An action  *)
(* is one event handler, up to its next await.                             *)
(*                                                                         *)
(* The server is as a tab sees it: which messages about the state of a run *)
(* it sends over which socket (RunStream has the streams, RunCommand the   *)
(* ways in which a run ends).  Progress and logs are left out.             *)
(***************************************************************************)
EXTENDS Naturals, Sequences, FiniteSets

CONSTANTS
  Tabs, Runs, NoRun,
  MaxReconnects,  (* MAX_RECONNECT_ATTEMPTS                                *)
  MaxSockets,     (* bound on the sockets a tab has at a time              *)
  MaxClicks,      (* bound on what the users do                            *)
  MaxLosses       (* bound on connections lost, server restarts included   *)

ASSUME BrowserAssumption ==
  /\ NoRun \notin Runs
  /\ {MaxReconnects, MaxSockets, MaxClicks, MaxLosses} \subseteq Nat

VARIABLES
  tab,       (* the state and the refs of the provider of each tab         *)
  saved,     (* the snapshot in localStorage, which the tabs share         *)
  sock,      (* each WebSocket, both ends                                  *)
  run,       (* what the server knows of a run                             *)
  attached,  (* the socket attached to a run                               *)
  halted,    (* the runs with a "stopping" event in their buffer           *)
  clicks, losses,
  displaced, (* history: the tab was superseded since its user last        *)
             (* started or attached to a run, or it was loaded and resumed *)
  overlap    (* history: since it was loaded, the tab opened a socket      *)
             (* beside an open one                                         *)

serverVars == <<run, attached, halted>>
historyVars == <<displaced, overlap>>
browserVars == <<tab, saved, sock, serverVars, clicks, losses, historyVars>>

Sockets == Tabs \X (1..MaxSockets)
NoSocket == <<>>
Free == [pipe |-> "free", ask |-> NoRun, stop |-> FALSE, serving |-> "nothing", inbox |-> <<>>]
NoResume == [run |-> NoRun, live |-> FALSE]

(* A page that was just loaded, and remembers run r. *)
Page(r) ==
  [running |-> FALSE, stopping |-> FALSE, terminal |-> FALSE, attempts |-> 0,
   timer |-> NoRun, ws |-> NoSocket, connection |-> "idle",
   runIdRef |-> r, currentRunId |-> r, resume |-> NoResume]

BrowserInit ==
  /\ tab = [t \in Tabs |-> Page(NoRun)]
  /\ saved = [running |-> FALSE, run |-> NoRun]
  /\ sock = [s \in Sockets |-> Free]
  /\ run = [r \in Runs |-> "absent"]
  /\ attached = [r \in Runs |-> NoSocket] /\ halted = {}
  /\ clicks = 0 /\ losses = 0
  /\ displaced = [t \in Tabs |-> FALSE] /\ overlap = [t \in Tabs |-> FALSE]

Msg(type, r) == [type |-> type, run |-> r]

(* How a run whose handle is still there may have ended. *)
Ended == {"all_complete", "error", "silent"}

Alive(s) == sock[s].pipe \in {"connecting", "open"}

Own(t) == {s \in Sockets : s[1] = t}

(* persistState, after every event that changes what t shows. *)
Persist(t) == saved' = [running |-> tab'[t].running, run |-> tab'[t].currentRunId]

(* The event changes nothing to be persisted but, maybe, running. *)
PersistRunning(t) ==
  IF tab'[t].running = tab[t].running THEN UNCHANGED saved ELSE Persist(t)

Click == clicks < MaxClicks /\ clicks' = clicks + 1

(* The server stops writing to the sockets in S. *)
DetachAll(S) ==
  attached' = [r \in Runs |-> IF attached[r] \in S THEN NoSocket ELSE attached[r]]

-----------------------------------------------------------------------------
(* A new WebSocket, that will ask for run r, or for a new one. *)
Open(t, s, r) ==
  /\ s \in Own(t) /\ sock[s] = Free /\ \A other \in Own(t) : sock[other] = Free => s[2] <= other[2]
  /\ sock' = [sock EXCEPT ![s] = [Free EXCEPT !.pipe = "connecting", !.ask = r]]
  /\ overlap' = [overlap EXCEPT ![t] = @ \/ \E other \in Own(t) : Alive(other)]

(* Bound: Runs has an id for each new run that was asked for. *)
IdLeft ==
  Cardinality({s \in Sockets : Alive(s) /\ sock[s].ask = NoRun})
    < Cardinality({r \in Runs : run[r] = "absent"})

(* runTests, runSingleTest, runDirectory, runBenchmark.  The state that    *)
(* shows which run it is, and how the connection is, stays for now.        *)
Start(t) ==
  /\ ~tab[t].running /\ IdLeft /\ Click
  /\ \E s \in Own(t) :
       /\ Open(t, s, NoRun)
       /\ tab' = [tab EXCEPT ![t] = [@ EXCEPT
            !.timer = NoRun, !.terminal = FALSE, !.attempts = 0, !.runIdRef = NoRun,
            !.running = TRUE, !.ws = s]]
  /\ Persist(t)
  /\ displaced' = [displaced EXCEPT ![t] = FALSE]
  /\ UNCHANGED <<serverVars, losses>>

(* attachToRun, called by a tab in state from. *)
AttachToRun(t, from, r) ==
  \E s \in Own(t) :
    /\ Open(t, s, r)
    /\ tab' = [tab EXCEPT ![t] = [from EXCEPT
         !.timer = NoRun, !.terminal = FALSE, !.runIdRef = r, !.ws = s]]
    /\ PersistRunning(t)

(* The button in the banner that says "Disconnected". *)
Reattach(t) ==
  /\ tab[t].connection = "disconnected" /\ tab[t].currentRunId # NoRun /\ Click
  /\ AttachToRun(t, tab[t], tab[t].currentRunId)
  /\ displaced' = [displaced EXCEPT ![t] = FALSE]
  /\ UNCHANGED <<serverVars, losses>>

TimerFires(t) ==
  /\ tab[t].timer # NoRun
  /\ AttachToRun(t, tab[t], tab[t].timer)
  /\ UNCHANGED <<serverVars, clicks, losses, displaced>>

(* The page is loaded, again or in another tab, and restores what was      *)
(* persisted, whichever tab did that.  If that showed a running run, it    *)
(* asks the server whether the run is alive: a question that may fail, and *)
(* whose answer may be out of date when it arrives.                        *)
Load(t) ==
  /\ Click
  /\ IF saved.run # NoRun /\ saved.running
     THEN \E live \in {run[saved.run] = "live", FALSE} :
            tab' = [tab EXCEPT ![t] =
                      [Page(saved.run) EXCEPT !.resume = [run |-> saved.run, live |-> live]]]
     ELSE tab' = [tab EXCEPT ![t] = Page(saved.run)]
  /\ Persist(t)
  /\ sock' = [s \in Sockets |-> IF s \in Own(t) THEN Free ELSE sock[s]]
  /\ DetachAll(Own(t))
  /\ displaced' = [displaced EXCEPT ![t] = FALSE]
  /\ overlap' = [overlap EXCEPT ![t] = FALSE]
  /\ UNCHANGED <<run, halted, losses>>

(* Whatever the answer is, the page attaches. *)
Resume(t) ==
  /\ tab[t].resume # NoResume
  /\ AttachToRun(t, [tab[t] EXCEPT !.running = @ \/ tab[t].resume.live, !.resume = NoResume],
                 tab[t].resume.run)
  /\ displaced' = [displaced EXCEPT ![t] = FALSE]
  /\ UNCHANGED <<serverVars, clicks, losses>>

(* A message for whoever is attached to r. *)
Publish(r, m) ==
  IF attached[r] = NoSocket THEN sock
  ELSE [sock EXCEPT ![attached[r]].inbox = Append(@, m)]

(* The task is cancelled; how and when the run ends is up to it.           *)
HaltRun(r) == halted' = halted \union {r} /\ sock' = Publish(r, Msg("stopping", r))

Connected(t) == tab[t].ws # NoSocket /\ sock[tab[t].ws].pipe = "open"

(* stopTests: over the socket; or over REST, which may not be reached and  *)
(* leaves a run that is over alone; or there is nothing to stop.           *)
Stop(t) ==
  /\ tab[t].running /\ ~tab[t].stopping /\ Click
  /\ LET r == tab[t].currentRunId
     IN  \/ /\ Connected(t)
            /\ tab' = [tab EXCEPT ![t].stopping = TRUE]
            /\ sock' = [sock EXCEPT ![tab[t].ws].stop = TRUE] /\ UNCHANGED halted
         \/ /\ ~Connected(t) /\ r # NoRun
            /\ tab' = [tab EXCEPT ![t].stopping = TRUE]
            /\ (run[r] = "live" /\ HaltRun(r)) \/ UNCHANGED <<halted, sock>>
         \/ /\ ~Connected(t) /\ r = NoRun
            /\ tab' = [tab EXCEPT ![t].running = FALSE]
            /\ UNCHANGED <<halted, sock>>
  /\ Persist(t)
  /\ UNCHANGED <<run, attached, losses, historyVars>>

-----------------------------------------------------------------------------
(* Messages, as _handleServerMessage takes them from any socket of the tab *)

(* The browser hangs up; what is still on its way is not delivered. *)
HangUp(s) == sock' = [sock EXCEPT ![s] = [Free EXCEPT !.pipe = "closed"]]

OnStarted(t, r) ==
  tab' = [tab EXCEPT ![t] = [@ EXCEPT
    !.currentRunId = r, !.runIdRef = r, !.attempts = 0, !.connection = "live"]]

OnAllComplete(t) ==
  tab' = [tab EXCEPT ![t] = [@ EXCEPT
    !.terminal = TRUE, !.connection = "idle", !.running = FALSE, !.stopping = FALSE]]

OnSuperseded(t) ==
  tab' = [tab EXCEPT ![t] = [@ EXCEPT
    !.terminal = TRUE, !.connection = "idle", !.running = FALSE]]

OnError(t) ==
  tab' = [tab EXCEPT ![t] = [@ EXCEPT
    !.terminal = TRUE, !.connection = "idle", !.running = FALSE]]

OnStopping(t) == tab' = [tab EXCEPT ![t].stopping = TRUE]

Receive(t, s) ==
  /\ s \in Own(t) /\ sock[s].pipe = "open" /\ sock[s].inbox # <<>>
  /\ LET m == Head(sock[s].inbox)
         rest == sock' = [sock EXCEPT ![s].inbox = Tail(@)]
     IN  \/ /\ m.type = "run_started" /\ OnStarted(t, m.run)
            /\ rest /\ UNCHANGED <<attached, displaced>>
         \/ /\ m.type = "stopping" /\ OnStopping(t)
            /\ rest /\ UNCHANGED <<attached, displaced>>
         \/ /\ m.type = "all_complete" /\ OnAllComplete(t)
            /\ HangUp(s) /\ DetachAll({s}) /\ UNCHANGED displaced
         \/ /\ m.type = "error" /\ OnError(t)
            /\ HangUp(s) /\ DetachAll({s}) /\ UNCHANGED displaced
         \/ /\ m.type = "superseded" /\ OnSuperseded(t)
            /\ HangUp(s) /\ DetachAll({s})
            /\ displaced' = [displaced EXCEPT ![t] = TRUE]
  /\ Persist(t)
  /\ UNCHANGED <<run, halted, clicks, losses, overlap>>

-----------------------------------------------------------------------------
(* The end of a socket *)

(* Mutant of ScheduleReconnect: out of attempts, nobody is told. *)
ScheduleReconnectSilently(t) ==
  IF tab[t].attempts >= MaxReconnects
  THEN [tab[t] EXCEPT !.ws = NoSocket]
  ELSE [tab[t] EXCEPT !.ws = NoSocket, !.attempts = @ + 1, !.connection = "reconnecting",
                      !.timer = tab[t].runIdRef]

ScheduleReconnect(t) ==
  IF tab[t].attempts >= MaxReconnects
  THEN [tab[t] EXCEPT !.ws = NoSocket, !.connection = "disconnected"]
  ELSE [tab[t] EXCEPT !.ws = NoSocket, !.attempts = @ + 1, !.connection = "reconnecting",
                      !.timer = tab[t].runIdRef]

(* handleSocketClose: only of the tab's current socket. *)
OnClose(t, s) ==
  /\ s \in Own(t) /\ sock[s].pipe = "closed"
  /\ sock' = [sock EXCEPT ![s] = Free]
  /\ \/ tab[t].ws # s /\ UNCHANGED <<tab, saved>>
     \/ /\ tab[t].ws = s /\ tab[t].terminal
        /\ tab' = [tab EXCEPT ![t] = [@ EXCEPT !.ws = NoSocket, !.connection = "idle"]]
        /\ UNCHANGED saved
     \/ /\ tab[t].ws = s /\ ~tab[t].terminal /\ tab[t].runIdRef # NoRun
        /\ tab' = [tab EXCEPT ![t] = ScheduleReconnect(t)]
        /\ Persist(t)
     \/ /\ tab[t].ws = s /\ ~tab[t].terminal /\ tab[t].runIdRef = NoRun
        /\ tab' = [tab EXCEPT ![t] =
             [@ EXCEPT !.ws = NoSocket, !.running = FALSE, !.connection = "idle"]]
        /\ PersistRunning(t)
  /\ UNCHANGED <<serverVars, clicks, losses, historyVars>>

Break(S) == [s \in Sockets |->
               IF s \in S /\ Alive(s) THEN [Free EXCEPT !.pipe = "closed"] ELSE sock[s]]

(* The pipe dies, or is never made.                                        *)
Lose(s) ==
  /\ Alive(s) /\ losses < MaxLosses /\ losses' = losses + 1
  /\ sock' = Break({s}) /\ DetachAll({s})
  /\ UNCHANGED <<tab, saved, run, halted, clicks, historyVars>>

-----------------------------------------------------------------------------
(* The server *)

(* The socket is there, and its request arrives. *)
Opened(s) ==
  /\ sock[s].pipe = "connecting"
  /\ sock' = [sock EXCEPT ![s] = [@ EXCEPT !.pipe = "open", !.serving = "request"]]
  /\ UNCHANGED tab /\ Persist(s[1])
  /\ UNCHANGED <<serverVars, clicks, losses, historyVars>>

(* _start_new_run *)
ServeStart(s) ==
  /\ sock[s].serving = "request" /\ sock[s].ask = NoRun
  /\ \E r \in Runs :
       /\ run[r] = "absent" /\ run' = [run EXCEPT ![r] = "live"]
       /\ attached' = [attached EXCEPT ![r] = s]
       /\ sock' = [sock EXCEPT ![s] = [@ EXCEPT
            !.serving = "run", !.ask = r, !.inbox = <<Msg("run_started", r)>>]]
  /\ UNCHANGED <<tab, saved, halted, clicks, losses, historyVars>>

(* Mutant of Replay: the messages of a handle are not replayed. *)
ReplayNothing(r) == <<Msg("run_started", r)>>

(* _attach_existing_run until it attaches: the buffered events, then the   *)
(* greeting.                                                               *)
Replay(r) ==
  (IF r \in halted THEN <<Msg("stopping", r)>> ELSE <<>>)
    \o (IF run[r] \in {"all_complete", "error"} THEN <<Msg(run[r], r)>> ELSE <<>>)
    \o <<Msg("run_started", r)>>

ServeAttach(s) ==
  /\ sock[s].serving = "request" /\ sock[s].ask # NoRun
  /\ run[sock[s].ask] \in Ended \union {"live"}
  /\ sock' = [sock EXCEPT ![s] =
                [@ EXCEPT !.serving = "replayed", !.inbox = Replay(sock[s].ask)]]
  /\ UNCHANGED <<tab, saved, serverVars, clicks, losses, historyVars>>

(* Mutant of ServeHistory: an unknown run is not answered. *)
ServeHistoryOnly(s) ==
  /\ sock[s].serving = "request" /\ sock[s].ask # NoRun
  /\ run[sock[s].ask] = "history"
  /\ sock' = [sock EXCEPT ![s] = [@ EXCEPT !.serving = "nothing",
                !.inbox = <<Msg("run_started", sock[s].ask), Msg("all_complete", sock[s].ask)>>]]
  /\ UNCHANGED <<tab, saved, serverVars, clicks, losses, historyVars>>

(* _attach_history_run: the saved run, or that there is none.              *)
ServeHistory(s) ==
  /\ sock[s].serving = "request" /\ sock[s].ask # NoRun
  /\ LET r == sock[s].ask
     IN  /\ run[r] \in {"history", "unknown"}
         /\ sock' = [sock EXCEPT ![s] = [@ EXCEPT !.serving = "nothing",
                       !.inbox = IF run[r] = "unknown" THEN <<Msg("error", r)>>
                                 ELSE <<Msg("run_started", r), Msg("all_complete", r)>>]]
  /\ UNCHANGED <<tab, saved, serverVars, clicks, losses, historyVars>>

(* attach(): whoever was attached before is told. *)
AttachServed(s) ==
  /\ sock[s].serving = "replayed"
  /\ LET r == sock[s].ask
     IN  /\ sock' = [Publish(r, Msg("superseded", r)) EXCEPT ![s].serving = "run"]
         /\ attached' = [attached EXCEPT ![r] = s]
  /\ UNCHANGED <<tab, saved, run, halted, clicks, losses, historyVars>>

(* A stop reaches the dispatcher when it watches its run, over or not.     *)
(* After a terminal event nobody reads what is in the buffer.              *)
ServeStop(s) ==
  /\ sock[s].stop /\ sock[s].serving = "run" /\ run[sock[s].ask] \in Ended \union {"live"}
  /\ LET r == sock[s].ask
     IN  /\ halted' = IF run[r] \in {"all_complete", "error"} THEN halted ELSE halted \union {r}
         /\ sock' = [Publish(r, Msg("stopping", r)) EXCEPT ![s].stop = FALSE]
  /\ UNCHANGED <<tab, saved, run, attached, clicks, losses, historyVars>>

(* The run publishes its end, or ends without (RunCommand!CommandRaised).  *)
RunEnds(r) ==
  /\ run[r] = "live"
  /\ \E end \in Ended :
       /\ run' = [run EXCEPT ![r] = end]
       /\ sock' = IF end = "silent" THEN sock ELSE Publish(r, Msg(end, r))
  /\ UNCHANGED <<tab, saved, attached, halted, clicks, losses, historyVars>>

(* The handle is dropped; the database has a row of a single run. *)
Collect(r) ==
  /\ run[r] \in Ended
  /\ \E kept \in {"history", "unknown"} : run' = [run EXCEPT ![r] = kept]
  /\ attached' = [attached EXCEPT ![r] = NoSocket]
  /\ UNCHANGED <<tab, saved, sock, halted, clicks, losses, historyVars>>

(* The server dies and is started again. *)
Restart ==
  /\ losses < MaxLosses /\ losses' = losses + 1
  /\ \E kept \in {"history", "unknown"} :
       run' = [r \in Runs |-> IF run[r] \in Ended \union {"live"} THEN kept ELSE run[r]]
  /\ attached' = [r \in Runs |-> NoSocket]
  /\ sock' = Break(Sockets)
  /\ UNCHANGED <<tab, saved, halted, clicks, historyVars>>

Serve(s) ==
  \/ Opened(s) \/ ServeStart(s) \/ ServeAttach(s) \/ ServeHistory(s) \/ AttachServed(s)
  \/ ServeStop(s)

Events(t) ==
  \/ TimerFires(t) \/ Resume(t)
  \/ \E s \in Own(t) : Receive(t, s) \/ OnClose(t, s)

BrowserNext ==
  \/ \E t \in Tabs : Start(t) \/ Reattach(t) \/ Load(t) \/ Stop(t) \/ Events(t)
  \/ \E s \in Sockets : Lose(s) \/ Serve(s)
  \/ \E r \in Runs : RunEnds(r) \/ Collect(r)
  \/ Restart

BrowserSpec == BrowserInit /\ [][BrowserNext]_browserVars

Due == (\E t \in Tabs : Events(t)) \/ (\E s \in Sockets : Serve(s))

(* The event loops of the tabs and of the server get on with what there is *)
(* to do, in whatever order.  Users, runs and the network owe nothing.     *)
FairBrowserSpec == BrowserSpec /\ WF_browserVars(Due)

-----------------------------------------------------------------------------
RunIds == Runs \union {NoRun}

TabStates ==
  [running : BOOLEAN, stopping : BOOLEAN, terminal : BOOLEAN, attempts : 0..MaxReconnects,
   timer : RunIds, ws : Sockets \union {NoSocket},
   connection : {"idle", "live", "reconnecting", "disconnected"},
   runIdRef : RunIds, currentRunId : RunIds,
   resume : {NoResume} \union [run : Runs, live : BOOLEAN]]

Messages ==
  [type : {"run_started", "all_complete", "superseded", "error", "stopping"}, run : Runs]

SocketStates ==
  [pipe : {"free", "connecting", "open", "closed"}, ask : RunIds, stop : BOOLEAN,
   serving : {"nothing", "request", "replayed", "run"},
   inbox : Seq(Messages)]

BrowserTypeOK ==
  /\ tab \in [Tabs -> TabStates] /\ sock \in [Sockets -> SocketStates]
  /\ saved \in [running : BOOLEAN, run : RunIds]
  /\ run \in [Runs -> Ended \union {"absent", "live", "history", "unknown"}]
  /\ attached \in [Runs -> Sockets \union {NoSocket}] /\ halted \subseteq Runs
  /\ clicks \in 0..MaxClicks /\ losses \in 0..MaxLosses
  /\ displaced \in [Tabs -> BOOLEAN] /\ overlap \in [Tabs -> BOOLEAN]

(* "The run is still going": as long as a tab shows a run as running, it   *)
(* has a socket, is about to get one, or has told its user that it has     *)
(* none and how to get one.  Not so once it opened two at a time.          *)
NeverBlind ==
  \A t \in Tabs : tab[t].running /\ ~overlap[t] =>
    \/ tab[t].ws # NoSocket /\ sock[tab[t].ws].pipe # "free" /\ ~tab[t].terminal
    \/ tab[t].timer # NoRun
    \/ tab[t].connection = "disconnected"

(* "don't try to reconnect and steal the run back": a tab another client   *)
(* took a run from does not schedule to attach again, whatever is lost.    *)
SupersededStaysAway ==
  \A t \in Tabs : displaced[t] /\ ~overlap[t] => tab[t].timer = NoRun

(* What will end the wait of a tab for socket s: the socket is still to be  *)
(* made or its end to be noticed, the server has a question it can answer, *)
(* or a message is on its way that is not only about a stop.               *)
Answering(s) ==
  \/ sock[s].pipe \in {"connecting", "closed"}
  \/ /\ sock[s].pipe = "open" /\ sock[s].serving = "request"
     /\ sock[s].ask = NoRun \/ run[sock[s].ask] # "absent"
  \/ /\ sock[s].pipe = "open"
     /\ \E i \in 1..Len(sock[s].inbox) : sock[s].inbox[i].type # "stopping"

(* The wheel never turns for nothing: a tab that says it is reconnecting   *)
(* has a timer, or a socket that something is going to happen on.          *)
ReconnectionIsUnderWay ==
  \A t \in Tabs : tab[t].connection = "reconnecting" =>
    tab[t].timer # NoRun \/ (tab[t].ws # NoSocket /\ Answering(tab[t].ws))

(* Every tab that lost its connection gets it back, learns how its run     *)
(* ended, or gives up and says so.                                         *)
ReconnectionEnds ==
  \A t \in Tabs : tab[t].connection = "reconnecting" ~>
                    tab[t].connection # "reconnecting" \/ overlap[t]

(* The tab shows a run as running, and opens a socket for a run that is    *)
(* over by now.                                                            *)
ReturnsLate(t) ==
  /\ tab[t].running
  /\ \E s \in Own(t) :
       /\ tab[t].ws = s /\ sock[s].pipe = "connecting"
       /\ \E r \in Runs : sock[s].ask = r /\ run[r] \in {"all_complete", "error", "history", "unknown"}

(* "settles the UI instead of leaving a zombie spinner": a tab that comes  *)
(* back when its run is over stops to show it as running, or gives up.     *)
LateAttachSettles ==
  \A t \in Tabs :
    ReturnsLate(t) ~> ~tab[t].running \/ tab[t].connection = "disconnected" \/ overlap[t]
=============================================================================
