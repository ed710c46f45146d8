--------------------------- MODULE DnsServerProofs ----------------------------
(***************************************************************************)
(* Proofs about DnsServer for every number of tasks, sockets and calls.    *)
(***************************************************************************)
EXTENDS DnsServer, FiniteSetTheorems, TLAPS

(* Which sockets are open.  While main is between socket() and bind() there
   may be two, the new one and the one that owns the port. *)
SocketInv ==
  /\ NoFd \notin open
  /\ owner \in open \cup {NoFd}
  /\ mpc = "bind"  => fd \in open /\ fd # owner /\ open \subseteq {fd, owner}
  /\ mpc # "bind"  => fd \in {owner, NoFd} /\ open \subseteq {owner}

LEMMA SocketsAreNumbers == NoFd \notin Sockets /\ Sockets \subseteq Nat
  BY DnsAssumption DEF NoFd

LEMMA SocketInvHolds == Spec => []SocketInv
<1>1. Init => SocketInv
  BY DEF Init, SocketInv, NoFd
<1>2. SocketInv /\ [Next]_vars => SocketInv'
  <2> SUFFICES ASSUME SocketInv, [Next]_vars PROVE SocketInv'
    OBVIOUS
  <2> USE DEF SocketInv, MainGoto
  <2>1. CASE StartSocket
    BY <2>1, SocketsAreNumbers DEF StartSocket, Free
  <2>2. CASE StartBind
    BY <2>2 DEF StartBind
  <2>3. CASE StartCreate
    BY <2>3 DEF StartCreate
  <2>4. CASE StopFlag
    BY <2>4 DEF StopFlag
  <2>5. CASE StopClose
    BY <2>5 DEF StopClose
  <2>6. CASE StopSettle \/ PollNothing
    BY <2>6 DEF StopSettle, PollNothing, vars
  <2>7. CASE Query
    BY <2>7 DEF Query
  <2>8. ASSUME NEW t \in Tasks, TaskStep(t) PROVE SocketInv'
    BY <2>8 DEF TaskStep, TaskCheck, TaskReceive, TaskError, TaskRetry, TaskReply
  <2>9. CASE UNCHANGED vars
    BY <2>9 DEF vars
  <2> QED
    BY <2>1, <2>2, <2>3, <2>4, <2>5, <2>6, <2>7, <2>8, <2>9 DEF Next, Commands, MainStep
<1> QED
  BY <1>1, <1>2, PTL DEF Spec

LEMMA AtMost ==
  /\ \A S, a : S \subseteq {a} => IsFiniteSet(S) /\ Cardinality(S) <= 1
  /\ \A S, a, b : S \subseteq {a, b} => IsFiniteSet(S) /\ Cardinality(S) <= 2
<1>1. \A a : IsFiniteSet({a}) /\ Cardinality({a}) = 1
  BY FS_Singleton
<1>2. ASSUME NEW a, NEW b PROVE IsFiniteSet({a, b}) /\ Cardinality({a, b}) <= 2
  <2>1. /\ IsFiniteSet({a} \cup {b})
        /\ Cardinality({a} \cup {b}) = IF b \in {a} THEN Cardinality({a})
                                                    ELSE Cardinality({a}) + 1
    BY <1>1, FS_AddElement, Zenon
  <2>2. {a} \cup {b} = {a, b}
    OBVIOUS
  <2> QED
    BY <1>1, <2>1, <2>2
<1>3. ASSUME NEW S, NEW T, IsFiniteSet(T), S \subseteq T
      PROVE  /\ IsFiniteSet(S) /\ Cardinality(S) <= Cardinality(T)
             /\ Cardinality(S) \in Nat /\ Cardinality(T) \in Nat
  BY <1>3, FS_Subset, FS_CardinalityType
<1>4. ASSUME NEW S, NEW a, S \subseteq {a} PROVE IsFiniteSet(S) /\ Cardinality(S) <= 1
  BY <1>1, <1>3, <1>4
<1>5. ASSUME NEW S, NEW a, NEW b, S \subseteq {a, b}
      PROVE  IsFiniteSet(S) /\ Cardinality(S) <= 2
  <2>1. /\ IsFiniteSet(S) /\ Cardinality(S) <= Cardinality({a, b})
        /\ Cardinality(S) \in Nat /\ Cardinality({a, b}) \in Nat
    BY <1>2, <1>3, <1>5
  <2> QED
    BY <1>2, <2>1
<1> QED
  BY <1>4, <1>5

(* Whatever the order of starts and stops, and whichever calls fail, no more
   than one socket is ever lost: a second start closes the socket it could
   not bind, and every later one fails the same way. *)
THEOREM SocketsStayBounded == Spec => []SocketsBounded
<1>1. SocketInv => SocketsBounded
  <2> SUFFICES ASSUME SocketInv PROVE SocketsBounded
    OBVIOUS
  <2>1. CASE mpc = "bind"
    BY <2>1, AtMost DEF SocketInv, SocketsBounded
  <2>2. CASE mpc # "bind"
    <3>1. Cardinality(open) <= 1 /\ Cardinality(open) \in Nat
      BY <2>2, AtMost, FS_CardinalityType DEF SocketInv
    <3> QED
      BY <2>2, <3>1 DEF SocketsBounded
  <2> QED
    BY <2>1, <2>2
<1> QED
  BY <1>1, SocketInvHolds, PTL

-------------------------------------------------------------------------------
(* Alternating starts and stops. *)

(* No step changes the environment. *)
LEMMA EnvironmentStays ==
  ASSUME [Next]_vars
  PROVE  /\ (Disciplined' <=> Disciplined) /\ (Timely' <=> Timely)
         /\ (LowMemory' <=> LowMemory)
<1>1. env' = env
  BY DEF Next, MainStep, TaskStep, vars
<1> QED
  BY <1>1, Zenon DEF Disciplined, Timely, LowMemory

(* Where main is tells which sockets exist and whether a server runs. *)
PairedInv ==
  /\ mpc \in MainPcs
  /\ mpc \in {"bind", "settle"} => owner = NoFd
  /\ mpc \in {"idle", "create", "close"} => fd = owner
  /\ mpc = "settle" => fd = NoFd
  /\ mpc \in {"bind", "create"} => fd # NoFd
  /\ mpc = "idle" /\ ~up => owner = NoFd
  /\ mpc \in {"bind", "create"} => up
  /\ mpc \in {"close", "settle"} => ~up
  /\ running => mpc = "idle" /\ up /\ fd # NoFd
  /\ ~unanswered

LEMMA PairedInvHolds == Spec => [](Disciplined => PairedInv)
<1>1. Init => PairedInv
  BY DEF Init, PairedInv, MainPcs
<1>2. SocketInv /\ (Disciplined => PairedInv) /\ [Next]_vars => (Disciplined => PairedInv)'
  <2> SUFFICES ASSUME SocketInv, Disciplined, PairedInv, [Next]_vars PROVE PairedInv'
    BY EnvironmentStays
  <2> USE DEF PairedInv, MainGoto, MainPcs
  <2>1. CASE StartSocket
    BY <2>1, SocketsAreNumbers DEF StartSocket, Free
  <2>2. CASE StartBind
    BY <2>2 DEF StartBind
  <2>3. CASE StartCreate
    BY <2>3 DEF StartCreate
  <2>4. CASE StopFlag
    BY <2>4 DEF StopFlag
  <2>5. CASE StopClose
    BY <2>5 DEF StopClose
  <2>6. CASE StopSettle \/ PollNothing
    BY <2>6 DEF StopSettle, PollNothing, vars
  <2>7. CASE Query
    BY <2>7 DEF Query
  <2>8. ASSUME NEW t \in Tasks, TaskStep(t) PROVE PairedInv'
    <3>1. CASE TaskReply(t)
      <4>1. ~(running /\ (fd = NoFd \/ fd # owner))
        OBVIOUS
      <4>2. ~unanswered'
        BY <3>1, <4>1, Zenon DEF TaskReply
      <4> QED
        BY <3>1, <4>2 DEF TaskReply
    <3> QED
      BY <2>8, <3>1 DEF TaskStep, TaskCheck, TaskReceive, TaskError, TaskRetry
  <2>9. CASE UNCHANGED vars
    BY <2>9 DEF vars
  <2> QED
    BY <2>1, <2>2, <2>3, <2>4, <2>5, <2>6, <2>7, <2>8, <2>9 DEF Next, Commands, MainStep
<1> QED
  BY <1>1, <1>2, SocketInvHolds, PTL DEF Spec

(* If starts and stops alternate, a stop leaves no socket open and the port
   free, whichever of socket() and xTaskCreate fails. *)
THEOREM StopReleasesAll == Spec => []StopReleases
<1>1. SocketInv /\ (Disciplined => PairedInv) => StopReleases
  BY DEF SocketInv, PairedInv, StopReleases
<1> QED
  BY <1>1, SocketInvHolds, PairedInvHolds, PTL

(* If starts and stops alternate, every query taken while the server runs is
   answered from port 53, also when a task of an earlier start takes it. *)
THEOREM EveryQueryAnswered == Spec => []AllAnswered
<1>1. (Disciplined => PairedInv) => AllAnswered
  BY DEF PairedInv, AllAnswered
<1> QED
  BY <1>1, PairedInvHolds, PTL

-------------------------------------------------------------------------------
(* One task at a time. *)

(* A task uses the present socket or none, none when it is not in a call, and
   no task is alive from the end of a stop to the next one that is created. *)
TaskInv ==
  /\ tpc \in [Tasks -> TaskPcs]
  /\ on \in [Tasks -> Sockets \cup {NoFd}]
  /\ \A t \in Tasks : on[t] \in {NoFd, fd}
  /\ \A t \in Tasks : tpc[t] \notin {"recv", "reply"} => on[t] = NoFd
  /\ mpc \in {"bind", "create"} \/ (mpc = "idle" /\ ~up) => \A t \in Tasks : ~Alive(t)
  /\ \A s, t \in Tasks : Alive(s) /\ Alive(t) => s = t

LEMMA TaskStepKeeps ==
  ASSUME PairedInv, TaskInv, fd \in Sockets \cup {NoFd}, NEW u \in Tasks, TaskStep(u)
  PROVE  TaskInv'
<1> USE DEF TaskInv, PairedInv, Alive, TaskGoto, TaskPcs
<1>1. UNCHANGED <<fd, mpc, up>>
  BY DEF TaskStep, TaskCheck, TaskReceive, TaskError, TaskRetry, TaskReply
<1>2. tpc[u] # "none" /\ tpc' \in [Tasks -> TaskPcs] /\ on' \in [Tasks -> Sockets \cup {NoFd}]
  BY DEF TaskStep, TaskCheck, TaskReceive, TaskError, TaskRetry, TaskReply
<1>3. \A t \in Tasks : t # u => tpc'[t] = tpc[t] /\ on'[t] = on[t]
  BY DEF TaskStep, TaskCheck, TaskReceive, TaskError, TaskRetry, TaskReply
<1>4. on'[u] \in {NoFd, fd} /\ (tpc'[u] \notin {"recv", "reply"} => on'[u] = NoFd)
  <2>1. CASE TaskCheck(u)
    BY <2>1 DEF TaskCheck
  <2>2. CASE TaskReceive(u)
    BY <2>2 DEF TaskReceive
  <2>3. CASE TaskError(u)
    BY <2>3 DEF TaskError
  <2>4. CASE TaskRetry(u)
    BY <2>4 DEF TaskRetry
  <2>5. CASE TaskReply(u)
    BY <2>5 DEF TaskReply
  <2> QED BY <2>1, <2>2, <2>3, <2>4, <2>5 DEF TaskStep
<1>5. \A t \in Tasks : tpc'[t] # "none" => tpc[t] # "none"
  BY <1>2, <1>3
<1> QED BY <1>1, <1>2, <1>3, <1>4, <1>5

LEMMA TaskInvHolds == Spec => [](Disciplined /\ Timely => TaskInv)
<1>1. Init => TaskInv
  BY DEF Init, TaskInv, TaskPcs, Alive
<1>2. /\ SocketInv /\ (Disciplined => PairedInv) /\ fd \in Sockets \cup {NoFd}
      /\ (Disciplined /\ Timely => TaskInv) /\ [Next]_vars
      => (Disciplined /\ Timely => TaskInv)'
  <2> SUFFICES ASSUME Disciplined, Timely, SocketInv, PairedInv, TaskInv,
                      fd \in Sockets \cup {NoFd}, [Next]_vars
               PROVE  TaskInv'
    BY EnvironmentStays
  <2> USE DEF TaskInv, PairedInv, MainGoto, Alive
  <2>1. CASE StartSocket
    <3>1. \A t \in Tasks : tpc[t] = "none" /\ on[t] = NoFd
      BY <2>1 DEF StartSocket
    <3> QED BY <2>1, <3>1 DEF StartSocket
  <2>2. CASE StartBind
    <3>1. UNCHANGED <<fd, tpc, on, up>> /\ mpc = "bind" /\ mpc' = "create"
      BY <2>2 DEF StartBind
    <3> QED BY <3>1
  <2>3. CASE StartCreate
    <3>1. mpc = "create" /\ mpc' = "idle" /\ up /\ UNCHANGED <<fd, on, up>>
      BY <2>3 DEF StartCreate
    <3>2. \A t \in Tasks : tpc[t] = "none" /\ on[t] = NoFd
      BY <3>1
    <3>3. CASE UNCHANGED tpc
      BY <3>1, <3>2, <3>3
    <3>4. ASSUME NEW u \in Tasks, TaskGoto(u, "none", "check")
          PROVE  TaskInv'
      <4>1. tpc' \in [Tasks -> TaskPcs] /\ \A t \in Tasks : t # u => tpc'[t] = "none"
        BY <3>2, <3>4 DEF TaskGoto, TaskPcs
      <4> QED BY <3>1, <3>2, <4>1
    <3> QED BY <2>3, <3>3, <3>4 DEF StartCreate
  <2>4. CASE StopFlag
    BY <2>4 DEF StopFlag
  <2>5. CASE StopClose
    <3>1. /\ mpc = "close" /\ mpc' = "settle" /\ fd' = NoFd /\ UNCHANGED <<tpc, up>>
          /\ on' = [t \in Tasks |-> IF fd # NoFd /\ on[t] = fd THEN NoFd ELSE on[t]]
      BY <2>5 DEF StopClose
    <3>2. \A t \in Tasks : on'[t] = NoFd
      BY <3>1
    <3>3. on' \in [Tasks -> Sockets \cup {NoFd}]
      BY <3>1
    <3> QED BY <3>1, <3>2, <3>3
  <2>6. CASE StopSettle
    BY <2>6 DEF StopSettle
  <2>7. CASE Query
    BY <2>7 DEF Query
  <2>8. CASE \E t \in Tasks : TaskStep(t)
    BY <2>8, TaskStepKeeps
  <2>9. CASE UNCHANGED vars
    BY <2>9 DEF vars
  <2> QED
    BY <2>1, <2>2, <2>3, <2>4, <2>5, <2>6, <2>7, <2>8, <2>9 DEF Next, Commands, MainStep, PollNothing
<1>3. Init => fd \in Sockets \cup {NoFd}
  BY DEF Init
<1>4. fd \in Sockets \cup {NoFd} /\ [Next]_vars => (fd \in Sockets \cup {NoFd})'
  BY DEF Next, Commands, MainStep, StartSocket, StartBind, StartCreate, StopFlag, StopClose,
         StopSettle, PollNothing, Query, TaskStep, TaskCheck, TaskReceive, TaskError,
         TaskRetry, TaskReply, vars, Free
<1> QED
  BY <1>1, <1>2, <1>3, <1>4, SocketInvHolds, PairedInvHolds, PTL DEF Spec

(* If starts and stops alternate and 100 ms suffice for a task that can end, at
   most one dns_task is alive, for any number of them that could be. *)
THEOREM OneTaskServes == Spec => []OneTask
<1>1. (Disciplined /\ Timely => TaskInv) => OneTask
  <2> SUFFICES ASSUME TaskInv PROVE Cardinality({t \in Tasks : Alive(t)}) <= 1
    BY DEF OneTask
  <2>1. PICK a : {t \in Tasks : Alive(t)} \subseteq {a}
    BY DEF TaskInv
  <2>2. Cardinality({t \in Tasks : Alive(t)}) <= 1
    BY <2>1, AtMost
  <2> QED BY <2>2
<1> QED
  BY <1>1, TaskInvHolds, PTL

(* Every variable stays in its set: port 53 belongs to an open socket or to
   nobody, and recvfrom is called on a socket number or on -1. *)
THEOREM TypeCorrect == Spec => []TypeOK
<1>1. Init => TypeOK
  <2> SUFFICES ASSUME Init PROVE TypeOK
    OBVIOUS
  <2>1. tpc \in [Tasks -> TaskPcs] /\ on \in [Tasks -> Sockets \cup {NoFd}]
    BY DEF Init, TaskPcs
  <2>2. queue \in 0..MaxQueue /\ calls \in 0..MaxCalls
    BY DnsAssumption DEF Init
  <2> QED
    BY <2>1, <2>2 DEF Init, TypeOK, MainPcs
<1>2. TypeOK /\ SocketInv /\ SocketInv' /\ [Next]_vars => TypeOK'
  <2> SUFFICES ASSUME TypeOK, SocketInv, SocketInv', [Next]_vars PROVE TypeOK'
    OBVIOUS
  <2> USE DnsAssumption DEF TypeOK, MainGoto, TaskGoto, MainPcs, TaskPcs
  <2>1. CASE StartSocket /\ UNCHANGED env
    <3>1. calls' \in 0..MaxCalls /\ mpc' \in MainPcs
      BY <2>1 DEF StartSocket
    <3>2. fd' \in Sockets \cup {NoFd} /\ open' \subseteq Sockets
      BY <2>1 DEF StartSocket, Free
    <3>3. owner' \in open' \cup {NoFd}
      BY <2>1 DEF StartSocket
    <3>4. up' \in BOOLEAN
      BY <2>1, Zenon DEF StartSocket
    <3> QED
      BY <2>1, <3>1, <3>2, <3>3, <3>4 DEF StartSocket
  <2>2. CASE StartBind /\ UNCHANGED env
    BY <2>2 DEF StartBind, SocketInv
  <2>3. CASE StartCreate /\ UNCHANGED env
    <3>1. tpc' \in [Tasks -> TaskPcs]
      BY <2>3 DEF StartCreate
    <3> QED
      BY <2>3, <3>1 DEF StartCreate
  <2>4. CASE StopFlag /\ UNCHANGED env
    <3>1. calls' \in 0..MaxCalls /\ mpc' \in MainPcs
      BY <2>4 DEF StopFlag
    <3>2. running' \in BOOLEAN /\ up' \in BOOLEAN
      BY <2>4, Zenon DEF StopFlag
    <3> QED
      BY <2>4, <3>1, <3>2 DEF StopFlag
  <2>5. CASE StopClose /\ UNCHANGED env
    <3>1. on' \in [Tasks -> Sockets \cup {NoFd}]
      BY <2>5 DEF StopClose
    <3>2. owner' \in open' \cup {NoFd} /\ queue' \in 0..MaxQueue
      BY <2>5 DEF StopClose, SocketInv
    <3> QED
      BY <2>5, <3>1, <3>2 DEF StopClose
  <2>6. CASE (StopSettle \/ PollNothing) /\ UNCHANGED env
    BY <2>6 DEF StopSettle, PollNothing, vars
  <2>7. CASE Query /\ UNCHANGED env
    BY <2>7 DEF Query
  <2>8. ASSUME NEW t \in Tasks, TaskStep(t) PROVE TypeOK'
    <3>1. CASE TaskCheck(t)
      BY <2>8, <3>1 DEF TaskStep, TaskCheck
    <3>2. CASE TaskReceive(t)
      BY <2>8, <3>2 DEF TaskStep, TaskReceive
    <3>3. CASE TaskError(t) \/ TaskRetry(t)
      BY <2>8, <3>3 DEF TaskStep, TaskError, TaskRetry
    <3>4. CASE TaskReply(t)
      BY <2>8, <3>4 DEF TaskStep, TaskReply
    <3> QED
      BY <2>8, <3>1, <3>2, <3>3, <3>4 DEF TaskStep
  <2>9. CASE UNCHANGED vars
    BY <2>9 DEF vars
  <2> QED
    BY <2>1, <2>2, <2>3, <2>4, <2>5, <2>6, <2>7, <2>8, <2>9 DEF Next, Commands, MainStep
<1> QED
  BY <1>1, <1>2, SocketInvHolds, PTL DEF Spec
===============================================================================
