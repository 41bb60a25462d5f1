---------------------------- MODULE SharedSession ----------------------------
(***************************************************************************)
(* What a guarded MCP client promises the tasks that share it: the session *)
(* an operation started on is neither closed nor replaced before the       *)
(* operation is over.  Only an owner changes it, and there is an owner     *)
(* only while nobody uses it.                                              *)
(***************************************************************************)
EXTENDS Naturals

CONSTANT Procs

VARIABLES
  users,    (* operations in flight on the session                         *)
  owners,   (* the task that connects, refreshes or closes it              *)
  session   (* counts the sessions, and the times there was none           *)

sessionVars == <<users, owners, session>>

SessionInit == users = {} /\ owners = {} /\ session = 0

Use(p) ==
  /\ owners = {} /\ p \notin users
  /\ users' = users \union {p}
  /\ UNCHANGED <<owners, session>>

Release(p) ==
  /\ p \in users
  /\ users' = users \ {p}
  /\ UNCHANGED <<owners, session>>

Own(p) ==
  /\ owners = {} /\ users = {}
  /\ owners' = {p}
  /\ UNCHANGED <<users, session>>

(* The owner closes or connects a session, and may leave with that. *)
Change(p) ==
  /\ p \in owners
  /\ session' \in {session, session + 1}
  /\ owners' \in {owners, owners \ {p}}
  /\ UNCHANGED users

SessionNext == \E p \in Procs : Use(p) \/ Release(p) \/ Own(p) \/ Change(p)

SessionSpec == SessionInit /\ [][SessionNext]_sessionVars
=============================================================================
