------------------------------ MODULE DnsServer -------------------------------
(***************************************************************************)
(* main/dns_server.c: the captive-portal DNS server.  The main task starts  *)
(* and stops it (wifi_manager.c:288, 310); each successful start creates a  *)
(* dns_task that answers queries until s_running is false.  The file keeps  *)
(* one socket in s_fd and shares it with every task, unlocked.              *)
(*                                                                         *)
(* lwIP is external: socket numbers are the lowest free ones, port 53 has   *)
(* one owner at a time (the code sets no SO_REUSEADDR), and closing a       *)
(* socket wakes a blocked recvfrom with an error.  A packet is its arrival  *)
(* only; all queries are valid ones.  s_gateway never changes.              *)
(***************************************************************************)
EXTENDS Integers, FiniteSets

CONSTANTS
  Tasks,        (* identities for dns_task instances                       *)
  Sockets,      (* socket numbers                                          *)
  Environments, (* what the server may have around it, see below           *)
  MaxCalls,     (* bound: starts and stops                                 *)
  MaxQueue      (* bound: queries waiting at port 53                       *)

ASSUME DnsAssumption ==
  /\ Sockets \subseteq Nat /\ Sockets # {} /\ IsFiniteSet(Sockets)
  /\ Environments \subseteq
       [disciplined : BOOLEAN, timely : BOOLEAN, lowMemory : BOOLEAN]
  /\ MaxCalls \in Nat /\ MaxQueue \in Nat

VARIABLES
  env,        (* the environment, which stays what it is                   *)
  fd,         (* s_fd: a socket, or -1                                     *)
  running,    (* s_running                                                 *)
  open,       (* the sockets that are open                                 *)
  owner,      (* the socket bound to port 53, or -1                        *)
  queue,      (* queries waiting at port 53                                *)
  mpc,        (* main: "idle", "bind", "create", "close", "settle"         *)
  tpc,        (* each task: "none", "check", "recv", "error", "reply"      *)
  on,         (* the socket a task's recvfrom is called on, or -1          *)
  up,         (* history: the last call was a start                        *)
  unanswered, (* history: a query was taken and its answer did not leave   *)
              (* port 53 although the server was not being stopped         *)
  calls

vars == <<env, fd, running, open, owner, queue, mpc, tpc, on, up, unanswered, calls>>

(* The STM32 alternates START_AP and STOP_AP; 100 ms suffice for a dns_task
   that is told to end; socket and xTaskCreate may fail, the second of which
   the code does not notice. *)
Disciplined == env.disciplined
Timely      == env.timely
LowMemory   == env.lowMemory

MainPcs == {"idle", "bind", "create", "close", "settle"}
TaskPcs == {"none", "check", "recv", "error", "reply"}
NoFd    == -1

TypeOK ==
  /\ env \in Environments
  /\ fd \in Sockets \cup {NoFd}
  /\ running \in BOOLEAN
  /\ open \subseteq Sockets
  /\ owner \in open \cup {NoFd}
  /\ queue \in 0..MaxQueue
  /\ mpc \in MainPcs
  /\ tpc \in [Tasks -> TaskPcs]
  /\ on \in [Tasks -> Sockets \cup {NoFd}]
  /\ up \in BOOLEAN
  /\ unanswered \in BOOLEAN
  /\ calls \in 0..MaxCalls

Init ==
  /\ env \in Environments
  /\ fd = NoFd /\ running = FALSE /\ open = {} /\ owner = NoFd /\ queue = 0
  /\ mpc = "idle" /\ tpc = [t \in Tasks |-> "none"] /\ on = [t \in Tasks |-> NoFd]
  /\ up = FALSE /\ unanswered = FALSE /\ calls = 0

MainGoto(from, to) == mpc = from /\ mpc' = to
TaskGoto(t, from, to) == tpc[t] = from /\ tpc' = [tpc EXCEPT ![t] = to]

Alive(t) == tpc[t] # "none"

-------------------------------------------------------------------------------
(* main: dns_server_start.  socket() takes the lowest free number. *)

Free == Sockets \ open

StartSocket ==
  /\ mpc = "idle"
  /\ calls < MaxCalls
  /\ Disciplined => ~up
  /\ calls' = calls + 1
  /\ up' = TRUE
  /\ \/ /\ LowMemory \/ Free = {}
        /\ fd' = NoFd
        /\ UNCHANGED <<open, mpc>>
     \/ /\ fd' \in Free
        /\ \A r \in Free : fd' <= r
        /\ open' = open \cup {fd'}
        /\ mpc' = "bind"
  /\ UNCHANGED <<running, owner, queue, tpc, on, unanswered>>

(* Mutant: a socket that cannot be bound is not closed. *)
StartBindLeaks ==
  /\ mpc = "bind"
  /\ mpc' = IF owner = NoFd THEN "create" ELSE "idle"
  /\ owner' = IF owner = NoFd THEN fd ELSE owner
  /\ UNCHANGED <<fd, running, open, queue, tpc, on, up, unanswered, calls>>

(* bind fails while another socket owns the port: the new socket is closed
   and s_fd forgets the old one. *)
StartBind ==
  /\ IF owner = NoFd
     THEN /\ MainGoto("bind", "create")
          /\ owner' = fd
          /\ UNCHANGED <<fd, open>>
     ELSE /\ MainGoto("bind", "idle")
          /\ open' = open \ {fd}
          /\ fd' = NoFd
          /\ UNCHANGED owner
  /\ UNCHANGED <<running, queue, tpc, on, up, unanswered, calls>>

(* Mutant: s_running is not set. *)
StartCreateNotRunning ==
  /\ MainGoto("create", "idle")
  /\ \E t \in Tasks : TaskGoto(t, "none", "check")
  /\ UNCHANGED <<fd, running, open, owner, queue, on, up, unanswered, calls>>

(* s_running is set before the task that reads it exists. *)
StartCreate ==
  /\ MainGoto("create", "idle")
  /\ running' = TRUE
  /\ \/ \E t \in Tasks : TaskGoto(t, "none", "check")
     \/ LowMemory /\ UNCHANGED tpc
  /\ UNCHANGED <<fd, open, owner, queue, on, up, unanswered, calls>>

-------------------------------------------------------------------------------
(* main: dns_server_stop. *)

(* Mutant: s_running stays set. *)
StopFlagForgets ==
  /\ MainGoto("idle", "close")
  /\ calls < MaxCalls
  /\ Disciplined => up
  /\ calls' = calls + 1
  /\ up' = FALSE
  /\ UNCHANGED <<fd, running, open, owner, queue, tpc, on, unanswered>>

StopFlag ==
  /\ MainGoto("idle", "close")
  /\ calls < MaxCalls
  /\ Disciplined => up
  /\ calls' = calls + 1
  /\ up' = FALSE
  /\ running' = FALSE
  /\ UNCHANGED <<fd, open, owner, queue, tpc, on, unanswered>>

(* Mutant: s_fd is reset and the socket stays open. *)
StopNoClose ==
  /\ MainGoto("close", "settle")
  /\ fd' = NoFd
  /\ UNCHANGED <<running, open, owner, queue, tpc, on, up, unanswered, calls>>

(* Queries queued at the closed socket are lost with it. *)
StopClose ==
  /\ MainGoto("close", "settle")
  /\ open' = open \ {fd}
  /\ fd' = NoFd
  /\ on' = [t \in Tasks |-> IF fd # NoFd /\ on[t] = fd THEN NoFd ELSE on[t]]
  /\ IF fd # NoFd /\ owner = fd THEN owner' = NoFd /\ queue' = 0
                                ELSE UNCHANGED <<owner, queue>>
  /\ UNCHANGED <<running, tpc, up, unanswered, calls>>

(* Mutant: stop returns without the 100 ms. *)
StopNoWait ==
  /\ MainGoto("settle", "idle")
  /\ UNCHANGED <<fd, running, open, owner, queue, tpc, on, up, unanswered, calls>>

(* The 100 ms, meant to let the task end; a task blocked on a socket that
   stays open cannot. *)
StopSettle ==
  /\ MainGoto("settle", "idle")
  /\ Timely => \A t \in Tasks : Alive(t) => tpc[t] = "recv" /\ on[t] # NoFd
  /\ UNCHANGED <<fd, running, open, owner, queue, tpc, on, up, unanswered, calls>>

(* main is at its command loop. *)
PollNothing == mpc = "idle" /\ UNCHANGED vars

-------------------------------------------------------------------------------
(* dns_task. *)

(* The loop test, and the call of recvfrom on whatever s_fd holds. *)
TaskCheck(t) ==
  /\ IF running
     THEN TaskGoto(t, "check", "recv") /\ on' = [on EXCEPT ![t] = fd]
     ELSE TaskGoto(t, "check", "none") /\ UNCHANGED on
  /\ UNCHANGED <<fd, running, open, owner, queue, mpc, up, unanswered, calls>>

TaskReceive(t) ==
  /\ TaskGoto(t, "recv", "reply")
  /\ on[t] # NoFd /\ on[t] = owner
  /\ queue > 0
  /\ queue' = queue - 1
  /\ UNCHANGED <<fd, running, open, owner, mpc, on, up, unanswered, calls>>

(* recvfrom fails: the socket is not open any more. *)
TaskError(t) ==
  /\ on[t] = NoFd
  /\ TaskGoto(t, "recv", IF running THEN "error" ELSE "none")
  /\ UNCHANGED <<fd, running, open, owner, queue, mpc, on, up, unanswered, calls>>

(* After 10 ms. *)
TaskRetry(t) ==
  /\ TaskGoto(t, "error", "check")
  /\ UNCHANGED <<fd, running, open, owner, queue, mpc, on, up, unanswered, calls>>

(* sendto on s_fd, which need not be the socket the query came from. *)
TaskReply(t) ==
  /\ TaskGoto(t, "reply", "check")
  /\ on' = [on EXCEPT ![t] = NoFd]
  /\ unanswered' = (unanswered \/ (running /\ (fd = NoFd \/ fd # owner)))
  /\ UNCHANGED <<fd, running, open, owner, queue, mpc, up, calls>>

(* A phone asks. *)
Query ==
  /\ owner # NoFd
  /\ queue < MaxQueue
  /\ queue' = queue + 1
  /\ UNCHANGED <<fd, running, open, owner, mpc, tpc, on, up, unanswered, calls>>

-------------------------------------------------------------------------------
Commands == StartSocket \/ StopFlag \/ PollNothing

MainStep == (StartBind \/ StartCreate \/ StopClose \/ StopSettle) /\ UNCHANGED env

TaskStep(t) ==
  /\ TaskCheck(t) \/ TaskReceive(t) \/ TaskError(t) \/ TaskRetry(t) \/ TaskReply(t)
  /\ UNCHANGED env

Next ==
  \/ (Commands \/ Query) /\ UNCHANGED env
  \/ MainStep
  \/ \E t \in Tasks : TaskStep(t)

Spec == Init /\ [][Next]_vars

(* FreeRTOS runs every ready task. *)
Fairness == WF_vars(MainStep) /\ \A t \in Tasks : WF_vars(TaskStep(t))

FairSpec == Spec /\ Fairness

-------------------------------------------------------------------------------
(* Properties in every environment. *)

(* However starts and stops follow each other, at most one socket is lost:
   lwIP's descriptors never run out (dns_server.c:76-80). *)
SocketsBounded == Cardinality(open) <= 2 /\ (mpc = "idle" => Cardinality(open) <= 1)

-------------------------------------------------------------------------------
(* Properties under alternating calls. *)

(* A stopped server holds no socket and not the port: the next start can
   bind (dns_server.c:94-98). *)
StopReleases ==
  Disciplined /\ mpc = "idle" /\ ~up => open = {} /\ owner = NoFd /\ fd = NoFd

(* At most one task serves at a time, so no answer can go out on a socket
   another task is about to replace.  Needs a timely end. *)
OneTask == Disciplined /\ Timely => Cardinality({t \in Tasks : Alive(t)}) <= 1

(* Every query taken while the server runs is answered from port 53. *)
AllAnswered == Disciplined => ~unanswered

(* A full queue of queries is always worked off, or thrown away by a stop:
   the task comes back to recvfrom after every query.  Needs a task. *)
QueriesTaken == Disciplined /\ ~LowMemory /\ queue = MaxQueue ~> queue < MaxQueue

(* A stopped server's task ends (dns_server.c:99-100). *)
TaskEnds ==
  Disciplined /\ ~running /\ mpc = "idle" ~> running \/ \A t \in Tasks : ~Alive(t)
===============================================================================
