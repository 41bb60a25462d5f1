------------------------------ MODULE RunStream ------------------------------
(***************************************************************************)
(* How the messages of a run reach the browsers: the buffers and the       *)
(* attachment queue of a RunHandle (testmcpy/server/run_registry.py) and   *)
(* the per-socket dispatcher with its drain task (handle_test_websocket,   *)
(* _watch_attached_run and _drain_to_websocket in server/websocket.py).    *)
(*                                                                         *)
(* What a run publishes is abstract here: a message is the position it has *)
(* in the run's stream.  An action is what one task does between two       *)
(* awaits.  asyncio.wait_for reads the queue in a task of its own, so      *)
(* taking a message and forwarding it are two steps.                       *)
(***************************************************************************)
EXTENDS Naturals, FiniteSets, SequencesExt

CONSTANTS
  Runs,        (* runs that may be started                                 *)
  Clients,     (* WebSocket connections                                    *)
  NoRun,       (* current_handle is None                                   *)
  LogMax,      (* LOG_BUFFER_MAX                                           *)
  MaxMessages, (* bound on the messages of a run                           *)
  MaxAttach,   (* bound on the attachments to a run                        *)
  MaxRequests  (* bound on the messages of all clients                     *)

ASSUME StreamAssumption ==
  /\ NoRun \notin Runs
  /\ LogMax \in Nat \ {0}
  /\ MaxMessages \in Nat /\ MaxAttach \in Nat /\ MaxRequests \in Nat

VARIABLES
  finished,   (* the runs that are finalized, and whether they exist       *)
  published,  (* the kinds of the messages of a run, in order              *)
  lastWords,  (* how many of them there were when the run was finalized    *)
  attached,   (* token of attached_queue, 0 for None                       *)
  newest,     (* attachment_token                                          *)
  queues,     (* the queue of each attachment                              *)
  mode,       (* the await at which a dispatcher is suspended              *)
  current,    (* current_handle and current_token                          *)
  target,     (* the run being replayed before it is attached              *)
  replay,     (* what is left of the replayed snapshot                     *)
  drain,      (* the drain task, its queue and the message it holds        *)
  inbox,      (* what the client sent and nobody received yet              *)
  received,   (* the result of the watching dispatcher's recv_task         *)
  requests,   (* how many messages the client sent                         *)
  got         (* what the client was sent since its last run or attach     *)

handleVars == <<finished, published, lastWords, attached, newest, queues>>
socketVars == <<mode, current, target, replay, drain, inbox, received, requests, got>>
streamVars == <<handleVars, socketVars>>

Tokens   == 1..MaxAttach
Marker   == 0                      (* {"type": "superseded"}               *)
Items    == Nat                    (* a position, or Marker                *)
Nothing  == [type |-> "none", run |-> NoRun]
Requests == [type : {"run", "stop", "bye"}, run : {NoRun}]
              \union [type : {"attach"}, run : Runs]
Idle     == [at |-> "none", run |-> NoRun, token |-> 0, held |-> Marker]
Drains   == [at : {"none", "new", "get", "holds", "done"}, run : Runs \union {NoRun},
             token : Nat, held : Items]
Sent     == [via : {"replay", "live", "marker"}, run : Runs, pos : Items]

StreamTypeOK ==
  /\ finished  \in [Runs -> {"absent", "no", "yes"}]
  /\ published \in [Runs -> Seq({"log", "event"})]
  /\ lastWords \in [Runs -> Nat]
  /\ attached  \in [Runs -> Nat]
  /\ newest    \in [Runs -> Nat]
  /\ queues    \in [Runs -> [Tokens -> Seq(Items)]]
  /\ mode      \in [Clients -> {"outer", "greet", "replay", "attach", "watch", "closed"}]
  /\ current   \in [Clients -> [run : Runs \union {NoRun}, token : Nat]]
  /\ target    \in [Clients -> Runs \union {NoRun}]
  /\ replay    \in [Clients -> Seq(Nat)]
  /\ drain     \in [Clients -> Drains]
  /\ inbox     \in [Clients -> Seq(Requests)]
  /\ received  \in [Clients -> Requests \union {Nothing}]
  /\ requests  \in [Clients -> Nat]
  /\ got       \in [Clients -> Seq(Sent)]

-----------------------------------------------------------------------------
(* The handle *)

(* _publish() for each of kinds: buffered, and queued for the attachment. *)
PublishAll(r, kinds) ==
  LET first == Len(published[r]) + 1
      last  == Len(published[r]) + Len(kinds)
      t     == attached[r]
  IN  /\ last <= MaxMessages
      /\ published' = [published EXCEPT ![r] = @ \o kinds]
      /\ queues' = IF t = 0 THEN queues
                   ELSE [queues EXCEPT ![r][t] = @ \o [i \in 1..Len(kinds) |-> first + i - 1]]

(* The positions of the messages of a kind, in order. *)
Positions(r, kind) ==
  LET S == {i \in DOMAIN published[r] : published[r][i] = kind}
  IN  [k \in 1..Cardinality(S) |-> CHOOSE i \in S : Cardinality(S \intersect 1..i) = k]

(* buffered_replay(): the tail of the log, then every structured event. *)
BufferedReplay(r) ==
  LET logs == Positions(r, "log")
      n    == Len(logs)
  IN  SubSeq(logs, IF n > LogMax THEN n - LogMax + 1 ELSE 1, n) \o Positions(r, "event")

(* Mutant of AttachTo: the newcomer inherits what the old queue holds. *)
AttachToInheritsQueue(r, c) ==
  LET t == newest[r] + 1
  IN  /\ t <= MaxAttach
      /\ newest'   = [newest EXCEPT ![r] = t]
      /\ attached' = [attached EXCEPT ![r] = t]
      /\ queues'   = IF attached[r] = 0 THEN queues
                     ELSE [queues EXCEPT ![r][t] = queues[r][attached[r]]]
      /\ current'  = [current EXCEPT ![c] = [run |-> r, token |-> t]]

(* attach(): a fresh queue, and a marker for whoever reads the old one. *)
AttachTo(r, c) ==
  LET t == newest[r] + 1
  IN  /\ t <= MaxAttach
      /\ newest'   = [newest EXCEPT ![r] = t]
      /\ attached' = [attached EXCEPT ![r] = t]
      /\ queues'   = IF attached[r] = 0 THEN queues
                     ELSE [queues EXCEPT ![r][attached[r]] = Append(@, Marker)]
      /\ current'  = [current EXCEPT ![c] = [run |-> r, token |-> t]]

(* Mutant of Detach: the token is not compared. *)
DetachAnyToken(a) ==
  attached' = IF a.run # NoRun THEN [attached EXCEPT ![a.run] = 0] ELSE attached

(* detach(): unless a newer attachment took over. *)
Detach(a) ==
  attached' = IF a.run # NoRun /\ newest[a.run] = a.token
              THEN [attached EXCEPT ![a.run] = 0]
              ELSE attached

(* Messages of the run's task, and of a stop over REST. *)
Publish(r) ==
  /\ finished[r] = "no"
  /\ \E kind \in {"log", "event"} : PublishAll(r, <<kind>>)
  /\ UNCHANGED <<finished, lastWords, attached, newest, socketVars>>

FinalizeRun(r) ==
  /\ finished[r] = "no"
  /\ finished'  = [finished EXCEPT ![r] = "yes"]
  /\ lastWords' = [lastWords EXCEPT ![r] = Len(published[r])]
  /\ UNCHANGED <<published, attached, newest, queues, socketVars>>

-----------------------------------------------------------------------------
(* The client *)

SendRequest(c, m) ==
  /\ FoldFunction(+, 0, requests) < MaxRequests
  /\ \A i \in DOMAIN inbox[c] : inbox[c][i].type # "bye"
  /\ received[c].type # "bye"
  /\ mode[c] # "closed"
  /\ inbox'    = [inbox EXCEPT ![c] = Append(@, m)]
  /\ requests' = [requests EXCEPT ![c] = @ + 1]
  /\ UNCHANGED <<handleVars, mode, current, target, replay, drain, received, got>>

(* The socket is closed at the other end: a send may raise from now on. *)
Gone(c) ==
  received[c].type = "bye" \/ \E i \in DOMAIN inbox[c] : inbox[c][i].type = "bye"

Deliver(c, via, r, pos) ==
  got' = [got EXCEPT ![c] = Append(@, [via |-> via, run |-> r, pos |-> pos])]

-----------------------------------------------------------------------------
(* The dispatcher *)

Dispatching(c, type) ==
  /\ mode[c] = "outer" /\ inbox[c] # <<>>
  /\ Head(inbox[c]).type = type
  /\ inbox' = [inbox EXCEPT ![c] = Tail(@)]

(* _start_new_run(): up to the await of the run_started message.  The task *)
(* of the run exists, and has not had its first step.                      *)
StartNewRun(c) ==
  /\ Dispatching(c, "run")
  /\ \E r \in Runs :
       /\ finished[r] = "absent"
       /\ finished' = [finished EXCEPT ![r] = "no"]
       /\ AttachTo(r, c)
  /\ mode' = [mode EXCEPT ![c] = "greet"]
  /\ got'  = [got EXCEPT ![c] = <<>>]
  /\ UNCHANGED <<published, lastWords, target, replay, drain, received, requests>>

(* The run_started message is out, or failed: watch. *)
Greeted(c) ==
  /\ mode[c] = "greet"
  /\ mode'  = [mode EXCEPT ![c] = "watch"]
  /\ drain' = [drain EXCEPT ![c] = [Idle EXCEPT !.at = "new"]]
  /\ UNCHANGED <<handleVars, current, target, replay, inbox, received, requests, got>>

(* _attach_existing_run(): the snapshot is taken, and sent message by      *)
(* message, before the dispatcher attaches.                                *)
AttachExisting(c) ==
  /\ Dispatching(c, "attach")
  /\ LET r == Head(inbox[c]).run
     IN  /\ finished[r] # "absent"
         /\ target' = [target EXCEPT ![c] = r]
         /\ replay' = [replay EXCEPT ![c] = BufferedReplay(r)]
  /\ mode' = [mode EXCEPT ![c] = "replay"]
  /\ got'  = [got EXCEPT ![c] = <<>>]
  /\ UNCHANGED <<handleVars, current, drain, received, requests>>

(* A run id that no handle has: history, or an error message whose send is *)
(* not guarded.                                                            *)
AttachUnknown(c) ==
  /\ Dispatching(c, "attach")
  /\ finished[Head(inbox[c]).run] = "absent"
  /\ \/ UNCHANGED <<attached, mode>>
     \/ Gone(c) /\ Detach(current[c]) /\ mode' = [mode EXCEPT ![c] = "closed"]
  /\ UNCHANGED <<finished, published, lastWords, newest, queues, current, target, replay,
                 drain, received, requests, got>>

ReplayOne(c) ==
  /\ mode[c] = "replay" /\ replay[c] # <<>>
  /\ \/ /\ Deliver(c, "replay", target[c], Head(replay[c]))
        /\ replay' = [replay EXCEPT ![c] = Tail(@)]
     \/ /\ Gone(c)
        /\ replay' = [replay EXCEPT ![c] = <<>>]
        /\ UNCHANGED got
  /\ UNCHANGED <<handleVars, mode, current, target, drain, inbox, received, requests>>

(* All is replayed; the run_started message is being sent. *)
Replayed(c) ==
  /\ mode[c] = "replay" /\ replay[c] = <<>>
  /\ mode' = [mode EXCEPT ![c] = "attach"]
  /\ UNCHANGED <<handleVars, current, target, replay, drain, inbox, received, requests, got>>

AttachAndWatch(c) ==
  /\ mode[c] = "attach"
  /\ AttachTo(target[c], c)
  /\ mode'   = [mode EXCEPT ![c] = "watch"]
  /\ drain'  = [drain EXCEPT ![c] = [Idle EXCEPT !.at = "new"]]
  /\ target' = [target EXCEPT ![c] = NoRun]
  /\ UNCHANGED <<finished, published, lastWords, replay, inbox, received, requests, got>>

(* The run_started message of a reattachment is not guarded: a failing     *)
(* send ends the dispatcher.                                               *)
AttachFailed(c) ==
  /\ mode[c] = "attach" /\ Gone(c)
  /\ Detach(current[c])
  /\ mode' = [mode EXCEPT ![c] = "closed"]
  /\ UNCHANGED <<finished, published, lastWords, newest, queues, current, target, replay,
                 drain, inbox, received, requests, got>>

StopCurrent(c) ==
  IF current[c].run = NoRun
  THEN UNCHANGED <<published, queues>>
  ELSE PublishAll(current[c].run, <<"event", "log">>)

StopOutside(c) ==
  /\ Dispatching(c, "stop")
  /\ StopCurrent(c)
  /\ UNCHANGED <<finished, lastWords, attached, newest, mode, current, target, replay, drain,
                 received, requests, got>>

DisconnectOutside(c) ==
  /\ Dispatching(c, "bye")
  /\ Detach(current[c])
  /\ mode' = [mode EXCEPT ![c] = "closed"]
  /\ UNCHANGED <<finished, published, lastWords, newest, queues, current, target, replay,
                 drain, received, requests, got>>

-----------------------------------------------------------------------------
(* The drain task of a watching dispatcher *)

DrainAt(c, at) == mode[c] = "watch" /\ drain[c].at = at

SetDrain(c, d) == drain' = [drain EXCEPT ![c] = d]
EndDrain(c)    == SetDrain(c, [Idle EXCEPT !.at = "done"])

(* The drain reads the queue that is attached when it starts, which need   *)
(* not be the one its dispatcher got from attach().                        *)
DrainStart(c) ==
  /\ DrainAt(c, "new")
  /\ LET r == current[c].run
     IN  IF attached[r] = 0
         THEN EndDrain(c)
         ELSE SetDrain(c, [at |-> "get", run |-> r, token |-> attached[r], held |-> Marker])
  /\ UNCHANGED <<handleVars, mode, current, target, replay, inbox, received, requests, got>>

DrainQueue(c) == queues[drain[c].run][drain[c].token]

DrainGet(c) ==
  /\ DrainAt(c, "get") /\ DrainQueue(c) # <<>>
  /\ SetDrain(c, [drain[c] EXCEPT !.at = "holds", !.held = Head(DrainQueue(c))])
  /\ queues' = [queues EXCEPT ![drain[c].run][drain[c].token] = Tail(@)]
  /\ UNCHANGED <<finished, published, lastWords, attached, newest, mode, current, target,
                 replay, inbox, received, requests, got>>

(* Mutant of DrainTimeout: the drain of a finished run ends at once. *)
DrainTimeoutDropsQueue(c) ==
  /\ DrainAt(c, "get")
  /\ finished[current[c].run] = "yes"
  /\ EndDrain(c)
  /\ UNCHANGED <<handleVars, mode, current, target, replay, inbox, received, requests, got>>

(* Mutant of DrainTimeout: only a detached run ends the drain. *)
DrainTimeoutIfDetached(c) ==
  /\ DrainAt(c, "get") /\ DrainQueue(c) = <<>>
  /\ attached[current[c].run] = 0
  /\ EndDrain(c)
  /\ UNCHANGED <<handleVars, mode, current, target, replay, inbox, received, requests, got>>

(* Nothing for a second, and the run is finished. *)
DrainTimeout(c) ==
  /\ DrainAt(c, "get") /\ DrainQueue(c) = <<>>
  /\ finished[current[c].run] = "yes"
  /\ EndDrain(c)
  /\ UNCHANGED <<handleVars, mode, current, target, replay, inbox, received, requests, got>>

Superseded(c) == newest[current[c].run] # current[c].token

(* Forward the message; a marker or a newer attachment ends the drain, the *)
(* latter without forwarding.                                              *)
DrainForward(c) ==
  /\ DrainAt(c, "holds")
  /\ LET r    == current[c].run
         item == drain[c].held
     IN  \/ /\ item = Marker
            /\ EndDrain(c)
            /\ Deliver(c, "marker", r, Marker)
         \/ /\ item # Marker /\ ~Superseded(c)
            /\ SetDrain(c, [drain[c] EXCEPT !.at = "get", !.held = Marker])
            /\ Deliver(c, "live", r, item)
         \/ /\ Superseded(c) \/ Gone(c)
            /\ item # Marker \/ Gone(c)
            /\ EndDrain(c)
            /\ UNCHANGED got
  /\ UNCHANGED <<handleVars, mode, current, target, replay, inbox, received, requests>>

-----------------------------------------------------------------------------
(* The watching dispatcher *)

Receive(c) ==
  /\ mode[c] = "watch" /\ received[c] = Nothing /\ inbox[c] # <<>>
  /\ received' = [received EXCEPT ![c] = Head(inbox[c])]
  /\ inbox'    = [inbox EXCEPT ![c] = Tail(@)]
  /\ UNCHANGED <<handleVars, mode, current, target, replay, drain, requests, got>>

(* The drain is done: whatever recv_task has received by then goes with    *)
(* it, except that a closed socket raises again in the outer loop.         *)
WatchEnds(c) ==
  /\ DrainAt(c, "done")
  /\ Detach(current[c])
  /\ mode'     = [mode EXCEPT ![c] = "outer"]
  /\ drain'    = [drain EXCEPT ![c] = Idle]
  /\ received' = [received EXCEPT ![c] = Nothing]
  /\ inbox'    = IF received[c].type = "bye"
                 THEN [inbox EXCEPT ![c] = <<received[c]>>] ELSE inbox
  /\ UNCHANGED <<finished, published, lastWords, newest, queues, current, target, replay,
                 requests, got>>

WatchReceived(c, types) ==
  /\ mode[c] = "watch" /\ drain[c].at # "done"
  /\ received[c].type \in types
  /\ received' = [received EXCEPT ![c] = Nothing]

StopWatched(c) ==
  /\ WatchReceived(c, {"stop"})
  /\ StopCurrent(c)
  /\ UNCHANGED <<finished, lastWords, attached, newest, mode, current, target, replay, drain,
                 inbox, requests, got>>

DisconnectWatched(c) ==
  /\ WatchReceived(c, {"bye"})
  /\ Detach(current[c])
  /\ mode'  = [mode EXCEPT ![c] = "closed"]
  /\ drain' = [drain EXCEPT ![c] = Idle]
  /\ UNCHANGED <<finished, published, lastWords, newest, queues, current, target, replay,
                 inbox, requests, got>>

(* _Reattach: the drain is cancelled and the outer loop takes the message  *)
(* next.  Nothing is detached.                                             *)
Reattach(c) ==
  /\ WatchReceived(c, {"run", "attach"})
  /\ inbox' = [inbox EXCEPT ![c] = <<received[c]>> \o @]
  /\ mode'  = [mode EXCEPT ![c] = "outer"]
  /\ drain' = [drain EXCEPT ![c] = Idle]
  /\ UNCHANGED <<handleVars, current, target, replay, requests, got>>

-----------------------------------------------------------------------------
StreamInit ==
  /\ finished  = [r \in Runs |-> "absent"]
  /\ published = [r \in Runs |-> <<>>]
  /\ lastWords = [r \in Runs |-> 0]
  /\ attached  = [r \in Runs |-> 0]
  /\ newest    = [r \in Runs |-> 0]
  /\ queues    = [r \in Runs |-> [t \in Tokens |-> <<>>]]
  /\ mode      = [c \in Clients |-> "outer"]
  /\ current   = [c \in Clients |-> [run |-> NoRun, token |-> 0]]
  /\ target    = [c \in Clients |-> NoRun]
  /\ replay    = [c \in Clients |-> <<>>]
  /\ drain     = [c \in Clients |-> Idle]
  /\ inbox     = [c \in Clients |-> <<>>]
  /\ received  = [c \in Clients |-> Nothing]
  /\ requests  = [c \in Clients |-> 0]
  /\ got       = [c \in Clients |-> <<>>]

DrainStep(c) == DrainStart(c) \/ DrainGet(c) \/ DrainTimeout(c) \/ DrainForward(c)

DispatcherStep(c) ==
  \/ StartNewRun(c) \/ Greeted(c)
  \/ AttachExisting(c) \/ AttachUnknown(c) \/ ReplayOne(c) \/ Replayed(c)
  \/ AttachAndWatch(c) \/ AttachFailed(c)
  \/ StopOutside(c) \/ DisconnectOutside(c)
  \/ Receive(c) \/ WatchEnds(c)
  \/ StopWatched(c) \/ DisconnectWatched(c) \/ Reattach(c)

StreamNext ==
  \/ \E r \in Runs : Publish(r) \/ FinalizeRun(r)
  \/ \E c \in Clients :
       \/ \E m \in Requests : SendRequest(c, m)
       \/ DrainStep(c)
       \/ DispatcherStep(c)

StreamSpec == StreamInit /\ [][StreamNext]_streamVars

(* The event loop schedules the tasks of a socket.  Nothing is assumed of  *)
(* the clients, and of a run no more than each property says.              *)
FairStreamSpec ==
  StreamSpec /\ \A c \in Clients : WF_streamVars(DrainStep(c)) /\ WF_streamVars(DispatcherStep(c))

-----------------------------------------------------------------------------
Watching(c) == mode[c] \in {"greet", "watch"}

(* The positions that c was sent since its last run or attach. *)
Forwarded(c) == [i \in DOMAIN got[c] |-> got[c][i].pos]

(* What is on its way to c: held by its drain, or in its queue. *)
OnTheWay(c) ==
  LET a == current[c]
  IN  (IF drain[c].at = "holds" THEN <<drain[c].held>> ELSE <<>>) \o queues[a.run][a.token]

UpTo(n) == [i \in 1..n |-> i]

(* The client that started a run misses nothing of it: until somebody      *)
(* takes over, what it was sent and what is on its way are the stream from *)
(* its first message on, and its watch does not end before the last words. *)
StarterMissesNothing ==
  \A c \in Clients :
    LET r == current[c].run
    IN  Watching(c) /\ current[c].token = 1 /\ newest[r] = 1 /\ ~Gone(c) =>
          /\ drain[c].at # "done" =>
               Forwarded(c) \o OnTheWay(c) = UpTo(Len(published[r]))
          /\ drain[c].at = "done" =>
               /\ finished[r] = "yes" /\ Len(got[c]) >= lastWords[r]
               /\ Forwarded(c) = UpTo(Len(got[c]))

(* Nobody is sent a message twice: the live messages come in the order of  *)
(* the stream and behind everything that was replayed.                     *)
LiveFollowsReplay ==
  \A c \in Clients : \A i, j \in DOMAIN got[c] :
    i < j /\ got[c][j].via = "live" =>
      got[c][i].via \in {"live", "replay"} /\ got[c][i].pos < got[c][j].pos

(* The newest attachment is connected as long as its client watches: the   *)
(* detach of a client that was superseded, or lags behind, leaves it alone *)
(* ("skips the no-op case where a newer attachment has replaced us").      *)
WatcherStaysConnected ==
  \A c \in Clients :
    Watching(c) /\ newest[current[c].run] = current[c].token
      => attached[current[c].run] = current[c].token

(* A client that watches a finished run gets back to its outer loop, where *)
(* its next command is read.                                               *)
WatchOfFinishedRunEnds ==
  \A c \in Clients :
    mode[c] = "watch" /\ finished[current[c].run] = "yes" ~> mode[c] # "watch"

(* What the attach test expects: "together replay + live cover every       *)
(* emitted step".                                                          *)
ReplayAndLiveCoverAll ==
  \A c \in Clients :
    LET r == current[c].run
    IN  mode[c] = "watch" /\ drain[c].at \in {"new", "get"} /\ ~Superseded(c) =>
          \A p \in 1..Len(published[r]) :
            \/ \E i \in DOMAIN got[c] : got[c][i].pos = p
            \/ \E i \in DOMAIN OnTheWay(c) : OnTheWay(c)[i] = p

(* What the comment on attached_queue says: None when nobody watches. *)
QueueOnlyWhileWatched ==
  \A r \in Runs : attached[r] # 0 =>
    \E c \in Clients : Watching(c) /\ current[c] = [run |-> r, token |-> attached[r]]
=============================================================================
