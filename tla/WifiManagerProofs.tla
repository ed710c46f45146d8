-------------------------- MODULE WifiManagerProofs ---------------------------
(***************************************************************************)
(* Proofs about WifiManager for every value of its constants.              *)
(***************************************************************************)
EXTENDS WifiManager, SequenceTheorems, TLAPS

(* The constant links and events are well typed. *)
LEMMA ValuesTyped ==
  /\ NoCred \in CredPair
  /\ Idle \in Link
  /\ StaStart \in Event
  /\ Disconnected \in Event
  /\ \A c \in CredPair : GotIp(c) \in Event
  BY DEF NoCred, CredPair, Idle, Link, StaStart, Disconnected, GotIp, Event

(* Posting events keeps the queue a sequence of events. *)
LEMMA QueueTyped ==
  /\ LinkDown \in Seq(Event)
  /\ <<StaStart>> \in Seq(Event)
  /\ <<>> \in Seq(Event)
  /\ \A q, r \in Seq(Event) : q \o r \in Seq(Event)
  /\ \A q \in Seq(Event), e \in Event : Append(q, e) \in Seq(Event)
  /\ \A q \in Seq(Event) : q # <<>> => Head(q) \in Event /\ Tail(q) \in Seq(Event)
<1>1. \A e \in Event : <<e>> \in Seq(Event)
  OBVIOUS
<1>2. LinkDown \in Seq(Event) /\ <<StaStart>> \in Seq(Event)
  BY <1>1, ValuesTyped DEF LinkDown
<1> QED
  BY <1>2, HeadTailProperties, AppendProperties, ConcatProperties

(* The driver calls keep the driver's variables in their sets. *)
LEMMA StopTyped == DriverTypeOK /\ EspWifiStop => DriverTypeOK'
  BY ValuesTyped, QueueTyped DEF DriverTypeOK, EspWifiStop, StaOn, HasSta

LEMMA SetModeTyped ==
  ASSUME NEW m \in Modes, DriverTypeOK, EspWifiSetMode(m)
  PROVE  DriverTypeOK'
  BY ValuesTyped, QueueTyped DEF DriverTypeOK, EspWifiSetMode, StaOn, HasSta

LEMMA StartTyped == DriverTypeOK /\ EspWifiStart => DriverTypeOK'
  BY QueueTyped DEF DriverTypeOK, EspWifiStart

LEMMA ConnectTyped ==
  ASSUME NEW q \in Seq(Event), DriverTypeOK, EspWifiConnect(q)
  PROVE  DriverTypeOK'
<1>1. [phase |-> "joining", cred |-> staCfg] \in Link
  BY DEF DriverTypeOK, Link
<1> QED
  BY <1>1, ValuesTyped, QueueTyped DEF DriverTypeOK, EspWifiConnect

LEMMA SmallCallsTyped ==
  /\ DriverTypeOK /\ SetPromiscuousCb => DriverTypeOK'
  /\ DriverTypeOK /\ DhcpcStop => DriverTypeOK'
  /\ DriverTypeOK /\ DhcpcStart => DriverTypeOK'
  /\ DriverTypeOK /\ UNCHANGED drv => DriverTypeOK'
  BY DEF DriverTypeOK, SetPromiscuousCb, DhcpcStop, DhcpcStart, drv

LEMMA SetConfigTyped ==
  ASSUME NEW c \in CredPair, DriverTypeOK, EspWifiSetConfigSta(c)
  PROVE  DriverTypeOK'
  BY DEF DriverTypeOK, EspWifiSetConfigSta

LEMMA AirTyped ==
  /\ DriverTypeOK /\ Associate => DriverTypeOK'
  /\ DriverTypeOK /\ Lease => DriverTypeOK'
  /\ \A P : DriverTypeOK /\ Lose(P) => DriverTypeOK'
<1>1. DriverTypeOK => /\ sta.cred \in CredPair
                      /\ [sta EXCEPT !.phase = "linked"] \in Link
                      /\ [sta EXCEPT !.phase = "up"] \in Link
  BY DEF DriverTypeOK, Link
<1> QED
  BY <1>1, ValuesTyped, QueueTyped DEF DriverTypeOK, Associate, Lease, Lose

-------------------------------------------------------------------------------
(* Type correctness of the manager's own variables. *)

LEMMA CredsTyped ==
  /\ NoCred \in CredPair
  /\ Submissions \subseteq CredPair
  /\ \A c \in CredPair : c[1] \in Networks \cup {Nil} /\ c[2] \in Passwords \cup {Nil}
  /\ \A s \in Networks \cup {Nil}, p \in Passwords \cup {Nil} : <<s, p>> \in CredPair
  BY ManagerAssumption DEF NoCred, CredPair

LEMMA VerdictsTyped == 0 \in 0..2 /\ 1 \in 0..2 /\ 2 \in 0..2
  OBVIOUS

LEMMA InitTyped == Init => TypeOK
<1> SUFFICES ASSUME Init PROVE TypeOK
  OBVIOUS
<1>1. DriverTypeOK
  BY ValuesTyped, QueueTyped DEF Init, DriverTypeOK, Modes
<1>2. nvsSsid \in Networks \cup {Nil} /\ nvsPwd \in Passwords \cup {Nil}
  BY CredsTyped DEF Init
<1>3. 0 \in 0..MaxCmds /\ 0 \in 0..MaxPosts /\ 0 \in 0..MaxFaults /\ 0 \in 0..MaxBoots
  BY ManagerAssumption
<1>4. ManagerTypeOK
  BY <1>2, <1>3, CredsTyped, VerdictsTyped DEF Init, ManagerTypeOK, MainPcs, TaskPcs
<1> QED
  BY <1>1, <1>4 DEF TypeOK

(* Sizes of the bounded counters after a step. *)
LEMMA FaultTyped == ManagerTypeOK /\ Fault => faults' \in 0..MaxFaults
  BY ManagerAssumption DEF ManagerTypeOK, Fault

LEMMA CommandTyped == ManagerTypeOK /\ Command => ManagerTypeOK'
<1> SUFFICES ASSUME ManagerTypeOK, Command PROVE ManagerTypeOK'
  OBVIOUS
<1> USE DEF Receive, Main, ManagerTypeOK, MainPcs, nvs, att, hist
<1>1. ASSUME NEW c, NEW to, Receive(c, to) PROVE cmds' \in 0..MaxCmds
  BY <1>1, ManagerAssumption
<1>2. CASE StartAp
  BY <1>1, <1>2 DEF StartAp
<1>3. CASE StopAp
  BY <1>1, <1>3 DEF StopAp
<1>4. CASE Clear
  BY <1>1, <1>4 DEF Clear, shared
<1>5. CASE AutoConnect
  BY <1>1, <1>5, CredsTyped DEF AutoConnect, shared
<1>6. CASE Reset
  BY <1>1, <1>6 DEF Reset, shared
<1>7. CASE Report
  BY <1>1, <1>7 DEF Report, shared
<1> QED
  BY <1>2, <1>3, <1>4, <1>5, <1>6, <1>7 DEF Command

LEMMA MainTyped == ManagerTypeOK /\ MainStep => ManagerTypeOK'
<1> SUFFICES ASSUME ManagerTypeOK, MainStep PROVE ManagerTypeOK'
  OBVIOUS
<1> USE DEF Main, ManagerTypeOK, MainPcs, nvs, att, hist, used
<1>1. ASSUME NEW from, NEW to \in MainPcs, Call(from, to) PROVE ManagerTypeOK'
  BY <1>1 DEF Call, shared
<1>2. CASE Ack
  BY <1>2, CredsTyped DEF Ack, shared
<1>3. CASE ApPreStop \/ ApScanMode \/ ApScanStart \/ ApScanArm \/ ApScan \/ ApNet
           \/ ApMode \/ ApArm \/ StopWifi
  BY <1>1, <1>3 DEF ApPreStop, ApScanMode, ApScanStart, ApScanArm, ApScan, ApNet,
                    ApMode, ApArm, StopWifi
<1>4. CASE AutoMode \/ AutoCfg \/ AutoArm \/ AutoTimeout \/ AutoOk \/ AutoFail
           \/ NoCredReply
  BY <1>1, <1>4 DEF AutoMode, AutoCfg, AutoArm, AutoTimeout, AutoOk, AutoFail, NoCredReply
<1>5. CASE ApStart \/ AutoStart
  BY <1>5 DEF ApStart, AutoStart
<1>6. CASE ApServe
  BY <1>6, FaultTyped DEF ApServe, shared, Fault
<1>7. CASE StopHttp
  BY <1>7 DEF StopHttp, shared
<1>8. CASE AutoPwd
  BY <1>8, CredsTyped DEF AutoPwd, shared
<1>9. CASE AutoClear
  BY <1>9 DEF AutoClear
<1>10. CASE Erase
  BY <1>10, FaultTyped DEF Erase, shared, Fault
<1> QED
  BY <1>2, <1>3, <1>4, <1>5, <1>6, <1>7, <1>8, <1>9, <1>10 DEF MainStep

LEMMA TaskTyped == ManagerTypeOK /\ TaskStep => ManagerTypeOK'
<1> SUFFICES ASSUME ManagerTypeOK, TaskStep PROVE ManagerTypeOK'
  OBVIOUS
<1> USE DEF Task, ManagerTypeOK, TaskPcs, nvs, att, hist, used
<1>1. ASSUME NEW from, NEW to \in TaskPcs, TaskCall(from, to) PROVE ManagerTypeOK'
  BY <1>1 DEF TaskCall, shared
<1>2. CASE TaskMode \/ TaskConfig \/ TaskDhcp \/ TaskTimeout \/ TaskExit
  BY <1>1, <1>2 DEF TaskMode, TaskConfig, TaskDhcp, TaskTimeout, TaskExit
<1>3. CASE TaskBegin \/ TaskPublish \/ TaskFail
  BY <1>3, CredsTyped, VerdictsTyped DEF TaskBegin, TaskPublish, TaskFail, shared
<1>4. CASE TaskFlags \/ TaskClear \/ TaskConnect
  <2>1. NoLinkTold \in BOOLEAN
    BY DEF NoLinkTold
  <2> QED BY <1>4, <2>1 DEF TaskFlags, TaskClear, TaskConnect
<1>5. CASE TaskEnter
  BY <1>5 DEF TaskEnter, Outcome
<1>6. CASE TaskSaveSsid
  BY <1>6, CredsTyped, FaultTyped DEF TaskSaveSsid, shared, Fault
<1>7. CASE TaskSavePwd
  BY <1>7, CredsTyped, FaultTyped DEF TaskSavePwd, shared, Fault
<1> QED
  BY <1>2, <1>3, <1>4, <1>5, <1>6, <1>7 DEF TaskStep

(* Setting an event bit moves the two waiters along their code. *)
LEMMA SetBitTyped ==
  ASSUME ManagerTypeOK, NEW b \in {"CONNECTED", "FAILED"}, SetBit(b)
  PROVE  bits' \subseteq {"CONNECTED", "FAILED"} /\ mpc' \in MainPcs /\ tpc' \in TaskPcs
  BY DEF ManagerTypeOK, SetBit, Outcome, MainPcs, TaskPcs

LEMMA EventTyped == TypeOK /\ EventStep => ManagerTypeOK'
<1> SUFFICES ASSUME TypeOK, EventStep PROVE ManagerTypeOK'
  OBVIOUS
<1>1. evq # <<>> => Head(evq).cred \in CredPair
  BY QueueTyped DEF TypeOK, DriverTypeOK, Event
<1> USE DEF TypeOK, ManagerTypeOK, nvs, att, hist, used
<1>2. CASE OnStaStart
  BY <1>2 DEF OnStaStart, shared
<1>3. CASE OnGotIp
  BY <1>1, <1>3, SetBitTyped DEF OnGotIp, Handling
<1>4. CASE OnDisconnected
  BY <1>4, SetBitTyped DEF OnDisconnected
<1> QED
  BY <1>2, <1>3, <1>4 DEF EventStep

LEMMA HttpTyped == ManagerTypeOK /\ HttpStep => ManagerTypeOK'
<1> SUFFICES ASSUME ManagerTypeOK, NEW c \in Submissions,
                    SubmitStart(c) \/ SubmitIgnored(c) \/ SubmitNoTask(c)
             PROVE  ManagerTypeOK'
  BY DEF HttpStep
<1>1. c \in CredPair
  BY CredsTyped
<1>2. MaySubmit => posts + 1 \in 0..MaxPosts
  BY ManagerAssumption DEF MaySubmit, ManagerTypeOK
<1>3. "delay" \in TaskPcs
  BY DEF TaskPcs
<1> QED
  BY <1>1, <1>2, <1>3, FaultTyped
     DEF SubmitStart, SubmitIgnored, SubmitNoTask, Fault, ManagerTypeOK, shared, nvs, hist

LEMMA OutsideTyped ==
  ManagerTypeOK /\ (AirStep \/ AirLoss \/ Reboot \/ UNCHANGED vars) => ManagerTypeOK'
<1> SUFFICES ASSUME ManagerTypeOK, AirStep \/ AirLoss \/ Reboot \/ UNCHANGED vars
             PROVE  ManagerTypeOK'
  OBVIOUS
<1> USE DEF ManagerTypeOK, shared, nvs, att, hist, used, firmware
<1>1. CASE AirStep
  BY <1>1 DEF AirStep, AirJoin, AirReject
<1>2. CASE AirLoss
  BY <1>2, FaultTyped DEF AirLoss, Fault
<1>3. CASE Reboot
  <2>1. boots' \in 0..MaxBoots
    BY <1>3, ManagerAssumption DEF Reboot
  <2> QED
    BY <1>3, <2>1, CredsTyped, VerdictsTyped DEF Reboot, MainPcs, TaskPcs
<1>4. CASE UNCHANGED vars
  BY <1>4 DEF vars
<1> QED
  BY <1>1, <1>2, <1>3, <1>4

-------------------------------------------------------------------------------
(* Type correctness of the driver's variables. *)

LEMMA DriverTyped == TypeOK /\ [Next]_vars => DriverTypeOK'
<1> SUFFICES ASSUME TypeOK, [Next]_vars PROVE DriverTypeOK'
  OBVIOUS
<1> DriverTypeOK /\ ManagerTypeOK
  BY DEF TypeOK
<1>1. ASSUME UNCHANGED drv PROVE DriverTypeOK'
  BY <1>1, SmallCallsTyped
<1>2. CASE Command
  BY <1>1, <1>2 DEF Command, StartAp, StopAp, Clear, AutoConnect, Reset, Report
<1>3. CASE MainStep
  <2>1. CASE Ack \/ Erase \/ ApServe \/ StopHttp \/ AutoPwd \/ AutoClear \/ AutoTimeout \/ AutoOk
             \/ NoCredReply
    BY <1>1, <2>1
       DEF Ack, Erase, ApServe, StopHttp, AutoPwd, AutoClear, AutoTimeout, AutoOk, NoCredReply
  <2>2. CASE ApPreStop \/ ApScan \/ StopWifi \/ AutoFail
    BY <2>2, StopTyped DEF ApPreStop, ApScan, StopWifi, AutoFail
  <2>3. CASE ApScanMode \/ ApMode \/ AutoMode
    <3>1. "STA" \in Modes /\ "AP" \in Modes
      BY DEF Modes
    <3> QED
      BY <2>3, <3>1, SetModeTyped DEF ApScanMode, ApMode, AutoMode
  <2>4. CASE ApScanStart \/ ApStart \/ AutoStart
    BY <2>4, StartTyped DEF ApScanStart, ApStart, AutoStart
  <2>5. CASE ApScanArm \/ ApArm \/ AutoArm \/ ApNet
    BY <2>5, SmallCallsTyped DEF ApScanArm, ApArm, AutoArm, ApNet
  <2>6. CASE AutoCfg
    BY <2>6, SetConfigTyped DEF AutoCfg, ManagerTypeOK
  <2> QED
    BY <1>3, <2>1, <2>2, <2>3, <2>4, <2>5, <2>6 DEF MainStep
<1>4. CASE TaskStep
  <2>1. CASE TaskBegin \/ TaskFlags \/ TaskClear \/ TaskTimeout \/ TaskSaveSsid
             \/ TaskSavePwd \/ TaskPublish \/ TaskFail \/ TaskExit
    BY <1>1, <2>1 DEF TaskBegin, TaskFlags, TaskClear, TaskTimeout, TaskSaveSsid,
                      TaskSavePwd, TaskPublish, TaskFail, TaskExit
  <2>2. CASE TaskMode
    BY <2>2, SetModeTyped DEF TaskMode, Modes
  <2>3. CASE TaskConfig
    BY <2>3, SetConfigTyped DEF TaskConfig, ManagerTypeOK
  <2>4. CASE TaskConnect
    BY <2>4, ConnectTyped DEF TaskConnect, DriverTypeOK
  <2>5. CASE TaskDhcp \/ TaskEnter
    BY <2>5, SmallCallsTyped DEF TaskDhcp, TaskEnter
  <2> QED
    BY <1>4, <2>1, <2>2, <2>3, <2>4, <2>5 DEF TaskStep
<1>5. CASE EventStep
  <2>1. evq # <<>> => Tail(evq) \in Seq(Event)
    BY QueueTyped DEF DriverTypeOK
  <2>2. ASSUME evq # <<>>, evq' = Tail(evq),
               UNCHANGED <<mode, started, rxcb, sta, staCfg, dhcpc>>
        PROVE  DriverTypeOK'
    BY <2>1, <2>2 DEF DriverTypeOK
  <2> QED
    BY <1>5, <2>1, <2>2, ConnectTyped
       DEF EventStep, OnStaStart, OnGotIp, OnDisconnected, Handling
<1>6. CASE HttpStep
  BY <1>1, <1>6 DEF HttpStep, SubmitStart, SubmitIgnored, SubmitNoTask
<1>7. CASE AirStep \/ AirLoss
  BY <1>7, AirTyped DEF AirStep, AirJoin, AirReject, AirLoss
<1>8. CASE Reboot
  BY <1>8, ValuesTyped, QueueTyped DEF Reboot, DriverTypeOK, Modes
<1>9. CASE UNCHANGED vars
  BY <1>1, <1>9 DEF vars
<1> QED
  BY <1>2, <1>3, <1>4, <1>5, <1>6, <1>7, <1>8, <1>9 DEF Next, PollNothing

LEMMA StepTyped == TypeOK /\ [Next]_vars => TypeOK'
<1> SUFFICES ASSUME TypeOK, [Next]_vars PROVE ManagerTypeOK'
  BY DriverTyped DEF TypeOK
<1>1. ManagerTypeOK
  BY DEF TypeOK
<1> QED
  BY <1>1, CommandTyped, MainTyped, TaskTyped, EventTyped, HttpTyped, OutsideTyped
     DEF Next, PollNothing

(* Every variable of the manager and of the driver stays in its set. *)
THEOREM TypeCorrect == Spec => []TypeOK
  BY InitTyped, StepTyped, PTL DEF Spec

-------------------------------------------------------------------------------
(* The callback.  Only esp_wifi_start drops it, and only main calls that. *)

(* The steps other than main's leave main where it is, unless it waits. *)
LEMMA MainStays ==
  TaskStep \/ EventStep \/ HttpStep \/ AirStep \/ AirLoss => mpc' = mpc \/ mpc = "autoWait"
<1>1. TaskStep => mpc' = mpc
  BY DEF TaskStep, Task, TaskCall, TaskBegin, TaskFlags, TaskClear, TaskMode, TaskConfig,
         TaskDhcp, TaskConnect, TaskEnter, TaskTimeout, TaskSaveSsid, TaskSavePwd,
         TaskPublish, TaskFail, TaskExit
<1>2. EventStep => mpc' = mpc \/ mpc = "autoWait"
  BY DEF EventStep, OnStaStart, OnGotIp, OnDisconnected, SetBit
<1>3. HttpStep \/ AirStep \/ AirLoss => mpc' = mpc
  BY DEF HttpStep, SubmitStart, SubmitIgnored, SubmitNoTask, AirStep, AirJoin, AirReject,
         AirLoss, firmware
<1> QED
  BY <1>1, <1>2, <1>3

LEMMA OthersKeepCallback ==
  TaskStep \/ EventStep \/ HttpStep \/ AirStep \/ AirLoss => rxcb' \in {rxcb, TRUE}
<1>1. TaskStep => rxcb' \in {rxcb, TRUE}
  BY DEF TaskStep, TaskCall, TaskBegin, TaskFlags, TaskClear, TaskMode, TaskConfig,
         TaskDhcp, TaskConnect, TaskEnter, TaskTimeout, TaskSaveSsid, TaskSavePwd,
         TaskPublish, TaskFail, TaskExit, EspWifiSetMode, EspWifiSetConfigSta, DhcpcStart,
         EspWifiConnect, SetPromiscuousCb, drv
<1>2. EventStep => rxcb' \in {rxcb, TRUE}
  BY DEF EventStep, OnStaStart, OnGotIp, OnDisconnected, EspWifiConnect
<1>3. HttpStep \/ AirStep \/ AirLoss => rxcb' \in {rxcb, TRUE}
  BY DEF HttpStep, SubmitStart, SubmitIgnored, SubmitNoTask, AirStep, AirJoin, AirReject,
         AirLoss, Associate, Lease, Lose, drv
<1> QED
  BY <1>1, <1>2, <1>3

LEMMA CommandKeepsCallback == Command => rxcb' = rxcb /\ mpc = "idle"
  BY DEF Command, StartAp, StopAp, Clear, AutoConnect, Reset, Report, Receive, Main, drv

LEMMA MainArms == CallbackArmed /\ MainStep => CallbackArmed'
<1> SUFFICES ASSUME CallbackArmed, MainStep PROVE CallbackArmed'
  OBVIOUS
<1> USE DEF CallbackArmed, Main, Call
<1>1. CASE ApScanArm \/ ApArm \/ AutoArm
  BY <1>1 DEF ApScanArm, ApArm, AutoArm, SetPromiscuousCb
<1>2. CASE ApScanStart \/ ApStart \/ AutoStart
  BY <1>2 DEF ApScanStart, ApStart, AutoStart
<1>3. CASE Ack \/ Erase \/ ApServe \/ StopHttp \/ AutoPwd \/ AutoClear \/ AutoTimeout \/ AutoOk
           \/ NoCredReply
  BY <1>3 DEF Ack, Erase, ApServe, StopHttp, AutoPwd, AutoClear, AutoTimeout, AutoOk,
              NoCredReply, drv
<1>4. CASE ApPreStop \/ ApScan \/ StopWifi \/ AutoFail
  BY <1>4 DEF ApPreStop, ApScan, StopWifi, AutoFail, EspWifiStop
<1>5. CASE ApScanMode \/ ApMode \/ AutoMode \/ ApNet \/ AutoCfg
  BY <1>5 DEF ApScanMode, ApMode, AutoMode, ApNet, AutoCfg, EspWifiSetMode, DhcpcStop,
              EspWifiSetConfigSta
<1> QED
  BY <1>1, <1>2, <1>3, <1>4, <1>5 DEF MainStep

(* In every reachable state the promiscuous callback is registered, but for
   the instant between esp_wifi_start and the call that follows it. *)
THEOREM CallbackAlwaysArmed == Spec => []CallbackArmed
<1>1. Init => CallbackArmed
  BY DEF Init, CallbackArmed
<1>2. CallbackArmed /\ [Next]_vars => CallbackArmed'
  <2> SUFFICES ASSUME CallbackArmed, [Next]_vars PROVE CallbackArmed'
    OBVIOUS
  <2>1. CASE MainStep
    BY <2>1, MainArms
  <2>2. CASE Command
    BY <2>2, CommandKeepsCallback DEF CallbackArmed
  <2>3. CASE TaskStep \/ EventStep \/ HttpStep \/ AirStep \/ AirLoss
    BY <2>3, MainStays, OthersKeepCallback DEF CallbackArmed
  <2>4. CASE Reboot
    BY <2>4 DEF CallbackArmed, Reboot
  <2>5. CASE UNCHANGED vars
    BY <2>5 DEF CallbackArmed, vars, drv
  <2> QED
    BY <2>1, <2>2, <2>3, <2>4, <2>5 DEF Next, PollNothing
<1> QED
  BY <1>1, <1>2, PTL DEF Spec

-------------------------------------------------------------------------------
(* The attempt.  What the task can rely on while main and the event loop move
   the shared bits. *)

(* What the bits mean to an attempt that has cleared them, and where the
   address it will publish comes from. *)
AttemptInv ==
  /\ tpc \in {"mode", "config", "dhcp", "settle", "enter", "wait"} /\ "CONNECTED" \in bits
       => gotIp
  /\ FreshSuccess
  /\ ResultPending
  /\ gotIp => ip \in online
  /\ ShowsAddress

LEMMA TaskKeepsAttemptInv == AttemptInv /\ TaskStep => AttemptInv'
<1> SUFFICES ASSUME AttemptInv, TaskStep PROVE AttemptInv'
  OBVIOUS
<1> USE DEF AttemptInv, FreshSuccess, ResultPending, ShowsAddress, Task
<1>1. CASE TaskMode \/ TaskConfig \/ TaskDhcp \/ TaskTimeout \/ TaskExit
  BY <1>1 DEF TaskMode, TaskConfig, TaskDhcp, TaskTimeout, TaskExit, TaskCall, shared, att,
              hist
<1>2. CASE TaskBegin \/ TaskFlags \/ TaskClear \/ TaskConnect
  BY <1>2 DEF TaskBegin, TaskFlags, TaskClear, TaskConnect, shared, att, hist
<1>3. CASE TaskEnter
  BY <1>3 DEF TaskEnter, Outcome, att, hist
<1>4. CASE TaskSaveSsid \/ TaskSavePwd
  BY <1>4 DEF TaskSaveSsid, TaskSavePwd, shared, att, hist
<1>5. CASE TaskPublish \/ TaskFail
  BY <1>5 DEF TaskPublish, TaskFail, shared, hist
<1> QED
  BY <1>1, <1>2, <1>3, <1>4, <1>5 DEF TaskStep

LEMMA EventKeepsAttemptInv == AttemptInv /\ EventStep => AttemptInv'
<1> SUFFICES ASSUME AttemptInv, EventStep PROVE AttemptInv'
  OBVIOUS
<1> USE DEF AttemptInv, FreshSuccess, ResultPending, ShowsAddress
<1>1. CASE OnStaStart
  BY <1>1 DEF OnStaStart, shared, att, hist
<1>2. CASE OnGotIp
  BY <1>2 DEF OnGotIp, SetBit, Outcome, att
<1>3. CASE OnDisconnected
  BY <1>3 DEF OnDisconnected, SetBit, Outcome, att, hist
<1> QED
  BY <1>1, <1>2, <1>3 DEF EventStep

LEMMA MainKeepsAttemptInv == AttemptInv /\ (MainStep \/ Command) => AttemptInv'
<1> SUFFICES ASSUME AttemptInv, MainStep \/ Command PROVE AttemptInv'
  OBVIOUS
<1>1. UNCHANGED <<tpc, ip, att, hist>> /\ bits' \in {bits, {}}
  <2>1. CASE Command
    BY <2>1 DEF Command, StartAp, StopAp, Clear, AutoConnect, Reset, Report, Receive, Main,
                shared
  <2>2. ASSUME NEW from, NEW to, Call(from, to)
        PROVE  UNCHANGED <<tpc, ip, att, hist, bits>>
    BY <2>2 DEF Call, Main, shared
  <2>3. CASE MainStep
    BY <2>2, <2>3
       DEF MainStep, Main, Ack, Erase, ApPreStop, ApScanMode, ApScanStart, ApScanArm, ApScan, ApNet,
           ApMode, ApStart, ApArm, ApServe, StopHttp, StopWifi, AutoPwd, AutoMode, AutoCfg,
           AutoStart, AutoArm, AutoClear, AutoTimeout, AutoOk, AutoFail, NoCredReply, shared
  <2> QED
    BY <2>1, <2>3
<1> QED
  BY <1>1 DEF AttemptInv, FreshSuccess, ResultPending, ShowsAddress, att, hist

LEMMA OutsideKeepsAttemptInv ==
  AttemptInv /\ (HttpStep \/ AirStep \/ AirLoss \/ Reboot \/ UNCHANGED vars) => AttemptInv'
<1> SUFFICES ASSUME AttemptInv,
                    HttpStep \/ AirStep \/ AirLoss \/ Reboot \/ UNCHANGED vars
             PROVE  AttemptInv'
  OBVIOUS
<1> USE DEF AttemptInv, FreshSuccess, ResultPending, ShowsAddress, shared, att, hist
<1>1. CASE HttpStep
  BY <1>1 DEF HttpStep, SubmitStart, SubmitIgnored, SubmitNoTask
<1>2. CASE AirStep \/ AirLoss
  BY <1>2 DEF AirStep, AirJoin, AirReject, AirLoss, firmware
<1>3. CASE Reboot
  BY <1>3 DEF Reboot
<1>4. CASE UNCHANGED vars
  BY <1>4 DEF vars
<1> QED
  BY <1>1, <1>2, <1>3, <1>4

LEMMA AttemptInvariant == Spec => []AttemptInv
<1>1. Init => AttemptInv
  BY DEF Init, AttemptInv, FreshSuccess, ResultPending, ShowsAddress
<1>2. AttemptInv /\ [Next]_vars => AttemptInv'
  BY TaskKeepsAttemptInv, EventKeepsAttemptInv, MainKeepsAttemptInv, OutsideKeepsAttemptInv
     DEF Next, PollNothing
<1> QED
  BY <1>1, <1>2, PTL DEF Spec

(* An attempt is never counted as a success on an event bit set before it
   cleared them. *)
THEOREM SuccessIsFresh == Spec => []FreshSuccess
  BY AttemptInvariant, PTL DEF AttemptInv

(* While an attempt runs, GET /result never shows the verdict of another. *)
THEOREM ResultStaysPending == Spec => []ResultPending
  BY AttemptInvariant, PTL DEF AttemptInv

(* A success is always shown with an address the station has had. *)
THEOREM AddressShown == Spec => []ShowsAddress
  BY AttemptInvariant, PTL DEF AttemptInv

-------------------------------------------------------------------------------
(* The stored pair.  While an attempt is between its two writes, the SSID is
   its own, or was erased by a CLEAR that came in between. *)

PairInv ==
  /\ tpc # "none" => pending \in Submissions
  /\ ~halfSaved /\ tpc = "savePwd" => nvsSsid \in {pending[1], Nil}
  /\ PairNotTorn

LEMMA PairsSubmitted ==
  ASSUME NEW c \in Submissions
  PROVE  c = <<c[1], c[2]>>
BY ManagerAssumption

LEMMA TaskKeepsPair == PairInv /\ TaskStep => PairInv'
<1> SUFFICES ASSUME PairInv, TaskStep PROVE PairInv'
  OBVIOUS
<1> USE DEF PairInv, PairNotTorn, Task, nvs
<1>1. CASE TaskMode \/ TaskConfig \/ TaskDhcp \/ TaskTimeout \/ TaskExit
  BY <1>1 DEF TaskMode, TaskConfig, TaskDhcp, TaskTimeout, TaskExit, TaskCall, att, hist
<1>2. CASE TaskBegin \/ TaskFlags \/ TaskClear \/ TaskConnect \/ TaskPublish \/ TaskFail
  BY <1>2 DEF TaskBegin, TaskFlags, TaskClear, TaskConnect, TaskPublish, TaskFail, att, hist
<1>3. CASE TaskEnter
  BY <1>3 DEF TaskEnter, Outcome, att, hist
<1>4. CASE TaskSaveSsid
  BY <1>4 DEF TaskSaveSsid, att
<1>5. CASE TaskSavePwd
  BY <1>5, PairsSubmitted DEF TaskSavePwd, att
<1> QED
  BY <1>1, <1>2, <1>3, <1>4, <1>5 DEF TaskStep

(* main writes the pair only to erase it. *)
LEMMA MainKeepsPair == PairInv /\ (MainStep \/ Command) => PairInv'
<1> SUFFICES ASSUME PairInv, MainStep \/ Command PROVE PairInv'
  OBVIOUS
<1>1. UNCHANGED <<tpc, pending, halfSaved>> /\ (UNCHANGED nvs \/ nvs' = NoCred)
  <2>1. CASE Command
    BY <2>1 DEF Command, StartAp, StopAp, Clear, AutoConnect, Reset, Report, Receive, Main,
                att, hist
  <2>2. ASSUME NEW from, NEW to, Call(from, to)
        PROVE  UNCHANGED <<tpc, pending, halfSaved, nvs>>
    BY <2>2 DEF Call, Main, att, hist
  <2>3. CASE MainStep
    BY <2>2, <2>3
       DEF MainStep, Main, Ack, Erase, ApPreStop, ApScanMode, ApScanStart, ApScanArm, ApScan, ApNet,
           ApMode, ApStart, ApArm, ApServe, StopHttp, StopWifi, AutoPwd, AutoMode, AutoCfg,
           AutoStart, AutoArm, AutoClear, AutoTimeout, AutoOk, AutoFail, NoCredReply, att,
           hist, nvs, NoCred
  <2> QED
    BY <2>1, <2>3
<1> QED
  BY <1>1 DEF PairInv, PairNotTorn, nvs, NoCred

LEMMA OutsideKeepsPair ==
  PairInv /\ (EventStep \/ HttpStep \/ AirStep \/ AirLoss \/ Reboot \/ UNCHANGED vars) => PairInv'
<1> SUFFICES ASSUME PairInv,
                    EventStep \/ HttpStep \/ AirStep \/ AirLoss \/ Reboot \/ UNCHANGED vars
             PROVE  PairInv'
  OBVIOUS
<1> USE DEF PairInv, PairNotTorn, att, hist, nvs
<1>1. CASE EventStep
  BY <1>1 DEF EventStep, OnStaStart, OnGotIp, OnDisconnected, SetBit, Outcome
<1>2. CASE HttpStep
  BY <1>2 DEF HttpStep, SubmitStart, SubmitIgnored, SubmitNoTask
<1>3. CASE AirStep \/ AirLoss
  BY <1>3 DEF AirStep, AirJoin, AirReject, AirLoss, firmware
<1>4. CASE Reboot
  BY <1>4 DEF Reboot
<1>5. CASE UNCHANGED vars
  BY <1>5 DEF vars
<1> QED
  BY <1>1, <1>2, <1>3, <1>4, <1>5

(* Whatever commands, posts, resets and power losses come, and whichever tasks
   run, the stored SSID and password were submitted together, unless a write of
   the last pair failed or the module restarted between the two. *)
THEOREM PairStaysWhole == Spec => []PairNotTorn
<1>1. Init => PairInv
  BY PairsSubmitted DEF Init, PairInv, PairNotTorn, nvs, NoCred
<1>2. PairInv /\ [Next]_vars => PairInv'
  BY TaskKeepsPair, MainKeepsPair, OutsideKeepsPair DEF Next, PollNothing
<1>3. PairInv => PairNotTorn
  BY DEF PairInv
<1> QED
  BY <1>1, <1>2, <1>3, PTL DEF Spec

-------------------------------------------------------------------------------
(* The AP.  main alone starts and stops the driver. *)

(* start_ap_mode enters its prescan with the driver stopped. *)
PreStopped == mpc = "apScanMode" => ~started

LEMMA OthersKeepAp ==
  TaskStep \/ EventStep \/ HttpStep \/ AirStep \/ AirLoss
    => started' = started /\ (HasAp(mode) => HasAp(mode'))
<1>1. TaskStep => started' = started /\ (HasAp(mode) => HasAp(mode'))
  BY DEF TaskStep, TaskCall, TaskBegin, TaskFlags, TaskClear, TaskMode, TaskConfig,
         TaskDhcp, TaskConnect, TaskEnter, TaskTimeout, TaskSaveSsid, TaskSavePwd,
         TaskPublish, TaskFail, TaskExit, EspWifiSetMode, EspWifiSetConfigSta, DhcpcStart,
         EspWifiConnect, SetPromiscuousCb, drv, HasAp
<1>2. EventStep => started' = started /\ mode' = mode
  BY DEF EventStep, OnStaStart, OnGotIp, OnDisconnected, EspWifiConnect
<1>3. HttpStep \/ AirStep \/ AirLoss => started' = started /\ mode' = mode
  BY DEF HttpStep, SubmitStart, SubmitIgnored, SubmitNoTask, AirStep, AirJoin, AirReject,
         AirLoss, Associate, Lease, Lose, drv
<1> QED
  BY <1>1, <1>2, <1>3

LEMMA CommandKeepsAp == Command => UNCHANGED <<mode, started>> /\ mpc' # "apScanMode"
  BY DEF Command, StartAp, StopAp, Clear, AutoConnect, Reset, Report, Receive, Main, drv

LEMMA MainKeepsAp ==
  PreStopped /\ MainStep
    => /\ PreStopped'
       /\ ApUp /\ ~ApUp' => mpc \in {"apStop", "apScan", "stopWifi", "autoMode", "autoFail"}
<1> SUFFICES ASSUME PreStopped, MainStep
             PROVE  /\ PreStopped'
                    /\ ApUp /\ ~ApUp'
                         => mpc \in {"apStop", "apScan", "stopWifi", "autoMode", "autoFail"}
  OBVIOUS
<1> USE DEF PreStopped, ApUp, Main, Call
<1>1. CASE ApPreStop \/ ApScan \/ StopWifi \/ AutoFail
  BY <1>1 DEF ApPreStop, ApScan, StopWifi, AutoFail, EspWifiStop
<1>2. CASE ApScanMode \/ ApMode \/ AutoMode
  BY <1>2 DEF ApScanMode, ApMode, AutoMode, EspWifiSetMode, HasAp
<1>3. CASE ApScanStart \/ ApStart \/ AutoStart
  BY <1>3 DEF ApScanStart, ApStart, AutoStart, EspWifiStart
<1>4. CASE ApScanArm \/ ApArm \/ AutoArm \/ ApNet \/ AutoCfg
  BY <1>4 DEF ApScanArm, ApArm, AutoArm, ApNet, AutoCfg, SetPromiscuousCb, DhcpcStop,
              EspWifiSetConfigSta
<1>5. CASE Ack \/ Erase \/ ApServe \/ StopHttp \/ AutoPwd \/ AutoClear \/ AutoTimeout \/ AutoOk
           \/ NoCredReply
  BY <1>5 DEF Ack, Erase, ApServe, StopHttp, AutoPwd, AutoClear, AutoTimeout, AutoOk,
              NoCredReply, drv
<1> QED
  BY <1>1, <1>2, <1>3, <1>4, <1>5 DEF MainStep

(* Nothing but a command, the end of a failed AUTO_CONNECT or a restart takes
   the AP down. *)
THEOREM ApSurvives == Spec => ApSurvivesAttempt
<1>1. Init => PreStopped
  BY DEF Init, PreStopped
<1>2. TypeOK /\ PreStopped /\ [Next]_vars
        => /\ PreStopped'
           /\ ApUp /\ ~ApUp' =>
                \/ mpc \in {"apStop", "apScan", "stopWifi", "autoMode", "autoFail", "restart"}
                \/ boots' # boots
  <2> SUFFICES ASSUME TypeOK, PreStopped, [Next]_vars
               PROVE  /\ PreStopped'
                      /\ ApUp /\ ~ApUp' =>
                           \/ mpc \in {"apStop", "apScan", "stopWifi", "autoMode", "autoFail",
                                       "restart"}
                           \/ boots' # boots
    OBVIOUS
  <2>1. CASE MainStep
    BY <2>1, MainKeepsAp
  <2>2. CASE Command
    BY <2>2, CommandKeepsAp DEF PreStopped, ApUp
  <2>3. CASE TaskStep \/ EventStep \/ HttpStep \/ AirStep \/ AirLoss
    <3>1. mpc = "autoWait" => mpc' # "apScanMode"
      BY <2>3 DEF TaskStep, Task, TaskCall, TaskBegin, TaskFlags, TaskClear, TaskMode,
           TaskConfig, TaskDhcp, TaskConnect, TaskEnter, TaskTimeout, TaskSaveSsid,
           TaskSavePwd, TaskPublish, TaskFail, TaskExit, EventStep, OnStaStart, OnGotIp,
           OnDisconnected, SetBit, HttpStep, SubmitStart, SubmitIgnored, SubmitNoTask,
           AirStep, AirJoin, AirReject, AirLoss, firmware
    <3> QED
      BY <2>3, <3>1, MainStays, OthersKeepAp DEF PreStopped, ApUp
  <2>4. CASE Reboot
    <3>1. boots + 1 # boots
      BY DEF TypeOK, ManagerTypeOK
    <3> QED
      BY <2>4, <3>1 DEF Reboot, PreStopped
  <2>5. CASE UNCHANGED vars
    BY <2>5 DEF PreStopped, ApUp, vars, drv
  <2> QED
    BY <2>1, <2>2, <2>3, <2>4, <2>5 DEF Next, PollNothing
<1> QED
  BY <1>1, <1>2, TypeCorrect, PTL DEF Spec, ApSurvivesAttempt

-------------------------------------------------------------------------------
(* The manager implements module Attempt. *)

LEMMA InitAttempt == Init => A!Init
<1> SUFFICES ASSUME Init PROVE A!Init
  OBVIOUS
<1>1. nvs \in Submissions \cup {NoCred}
  BY ManagerAssumption DEF Init, NoCred, nvs
<1> QED
  BY <1>1 DEF Init, A!Init, A!Fresh, Stage

(* Steps that move the task. *)
LEMMA TaskAttempt == AttemptInv /\ TaskStep => A!Next \/ UNCHANGED A!vars
<1> SUFFICES ASSUME AttemptInv, TaskStep PROVE A!Next \/ UNCHANGED A!vars
  OBVIOUS
<1> USE DEF Task, TaskCall, Stage, A!Goto, A!vars
<1>1. CASE TaskBegin
  BY <1>1 DEF TaskBegin, A!Begin, A!Next, hist, nvs
<1>2. CASE TaskClear
  BY <1>2 DEF TaskClear, A!Try, A!Next, att, nvs
<1>3. CASE TaskEnter
  <2>1. UNCHANGED <<pending, result, gotIp, nvs>> /\ tpc = "enter"
    BY <1>3 DEF TaskEnter, att, hist
  <2>2. CASE tpc' = "wait"
    BY <2>1, <2>2
  <2>3. CASE tpc' = "saveSsid"
    <3>1. gotIp
      BY <1>3, <2>3 DEF TaskEnter, Outcome, AttemptInv
    <3> QED
      BY <2>1, <2>3, <3>1 DEF A!Win, A!Next
  <2>4. CASE tpc' = "fail"
    BY <2>1, <2>4 DEF A!Lose, A!Next
  <2> QED
    BY <1>3, <2>2, <2>3, <2>4 DEF TaskEnter, Outcome
<1>4. CASE TaskTimeout
  BY <1>4 DEF TaskTimeout, A!Lose, A!Next, att, hist, nvs
<1>5. CASE TaskFlags \/ TaskMode \/ TaskConfig \/ TaskDhcp \/ TaskConnect
  BY <1>5 DEF TaskFlags, TaskMode, TaskConfig, TaskDhcp, TaskConnect, att, hist, nvs
<1>6. CASE TaskSaveSsid \/ TaskSavePwd
  BY <1>6 DEF TaskSaveSsid, TaskSavePwd, A!Keep, A!Next, att, hist, nvs
<1>7. CASE TaskPublish
  BY <1>7 DEF TaskPublish, A!Tell, A!Next, hist, nvs
<1>8. CASE TaskFail
  BY <1>8 DEF TaskFail, A!Tell, A!Next, hist, nvs
<1>9. CASE TaskExit
  BY <1>9 DEF TaskExit, A!End, A!Next, att, hist, nvs
<1> QED
  BY <1>1, <1>2, <1>3, <1>4, <1>5, <1>6, <1>7, <1>8, <1>9 DEF TaskStep

(* Steps of the event loop: the attempt hears of an address, is decided, or
   is not concerned. *)
LEMMA EventAttempt == AttemptInv /\ EventStep => A!Next \/ UNCHANGED A!vars
<1> SUFFICES ASSUME AttemptInv, EventStep PROVE A!Next \/ UNCHANGED A!vars
  OBVIOUS
<1> USE DEF Stage, A!Goto, A!vars
<1>1. CASE OnStaStart
  BY <1>1 DEF OnStaStart, att, hist
<1>2. CASE OnGotIp
  <2>1. UNCHANGED <<pending, result, nvs>> /\ gotIp' = TRUE
    BY <1>2 DEF OnGotIp, att
  <2>2. tpc' = IF tpc = "wait" THEN "saveSsid" ELSE tpc
    BY <1>2 DEF OnGotIp, SetBit, Outcome
  <2> QED
    BY <2>1, <2>2 DEF A!Hear, A!Win, A!Next
<1>3. CASE OnDisconnected
  <2>1. UNCHANGED <<pending, result, nvs, gotIp>>
    BY <1>3 DEF OnDisconnected, att, hist
  <2>2. CASE tpc # "wait"
    BY <1>3, <2>1, <2>2 DEF OnDisconnected, SetBit
  <2>3. CASE tpc = "wait"
    <3>1. \/ tpc' = "saveSsid" /\ gotIp
          \/ tpc' = "fail"
      BY <1>3, <2>3 DEF OnDisconnected, SetBit, Outcome, AttemptInv
    <3> QED
      BY <2>1, <2>3, <3>1 DEF A!Win, A!Lose, A!Next
  <2> QED
    BY <2>2, <2>3
<1> QED
  BY <1>1, <1>2, <1>3 DEF EventStep

(* Steps of main leave the attempt alone; that of CLEAR empties the flash. *)
LEMMA MainAttempt == MainStep \/ Command => A!Next \/ UNCHANGED A!vars
<1> SUFFICES ASSUME MainStep \/ Command PROVE A!Next \/ UNCHANGED A!vars
  OBVIOUS
<1> USE DEF Stage, A!vars, Receive, Main, att, hist
<1>1. CASE Erase
  BY <1>1 DEF Erase, A!Forget, A!Next, nvs, NoCred
<1>2. CASE Command
  BY <1>2 DEF Command, StartAp, StopAp, Clear, AutoConnect, Reset, Report
<1>3. ASSUME NEW from, NEW to, Call(from, to) PROVE UNCHANGED A!vars
  BY <1>3 DEF Call
<1>4. CASE MainStep
  BY <1>1, <1>3, <1>4
     DEF MainStep, Ack, ApPreStop, ApScanMode, ApScanStart, ApScanArm, ApScan, ApNet,
         ApMode, ApStart, ApArm, ApServe, StopHttp, StopWifi, AutoPwd, AutoMode, AutoCfg,
         AutoStart, AutoArm, AutoClear, AutoTimeout, AutoOk, AutoFail, NoCredReply
<1> QED
  BY <1>2, <1>4

LEMMA OutsideAttempt ==
  HttpStep \/ AirStep \/ AirLoss \/ Reboot \/ UNCHANGED vars => A!Next \/ UNCHANGED A!vars
<1> SUFFICES ASSUME HttpStep \/ AirStep \/ AirLoss \/ Reboot \/ UNCHANGED vars
             PROVE  A!Next \/ UNCHANGED A!vars
  OBVIOUS
<1> USE DEF Stage, A!vars
<1>1. CASE HttpStep
  BY <1>1 DEF HttpStep, SubmitStart, SubmitIgnored, SubmitNoTask, A!Accept, A!Next, hist
<1>2. CASE AirStep \/ AirLoss
  BY <1>2 DEF AirStep, AirJoin, AirReject, AirLoss, firmware, att, hist
<1>3. CASE Reboot
  BY <1>3 DEF Reboot, A!PowerLoss, A!Fresh, A!Next
<1>4. CASE UNCHANGED vars
  BY <1>4 DEF vars, att, hist
<1> QED
  BY <1>1, <1>2, <1>3, <1>4

(* Every behaviour of the manager is one of module Attempt: one attempt at a
   time, decided and answered once, won only by a new address, and alone in
   writing credentials to the flash. *)
THEOREM ImplementsAttempt == Spec => AttemptSpec
<1>1. AttemptInv /\ [Next]_vars => [A!Next]_(A!vars)
  BY TaskAttempt, EventAttempt, MainAttempt, OutsideAttempt DEF Next, PollNothing
<1> QED
  BY <1>1, InitAttempt, AttemptInvariant, PTL DEF Spec, AttemptSpec, A!Spec
-------------------------------------------------------------------------------
(* s_connected and s_ip follow the link of the station.  Between a change of
   the link and the handling of its event the two differ, so the invariant is
   about the queue in between. *)

(* A view c, a of the link l is right once the events of q are handled: the
   last one that speaks of the link, or the view itself when none does. *)
Quiet(q, m) == \A i \in m..Len(q) : q[i].type = "STA_START"

Tells(q, c, a, l) ==
  /\ Quiet(q, 1) => (c <=> l.phase = "up") /\ (c => a = l.cred)
  /\ \A i \in 1..Len(q) :
       q[i].type # "STA_START" /\ Quiet(q, i + 1)
         => /\ q[i].type = "GOT_IP" <=> l.phase = "up"
            /\ q[i].type = "GOT_IP" => q[i].cred = l.cred

LinkInv == Tells(evq, connected, ip, sta)

-------------------------------------------------------------------------------
(* What happens to Tells when an event is posted or handled. *)

LEMMA TellsStaStart ==
  ASSUME NEW q \in Seq(Event), NEW c \in BOOLEAN, NEW a, NEW l \in Link, Tells(q, c, a, l)
  PROVE  Tells(Append(q, StaStart), c, a, l)
<1> DEFINE r == Append(q, StaStart)
<1>1. Len(r) = Len(q) + 1 /\ r[Len(q) + 1].type = "STA_START" /\ Len(q) \in Nat
  BY DEF StaStart
<1>2. \A i \in 1..Len(q) : r[i] = q[i]
  OBVIOUS
<1>3. \A m \in 1..(Len(q) + 1) : Quiet(r, m) => Quiet(q, m)
  BY <1>1, <1>2 DEF Quiet
<1> HIDE DEF r
<1>4. Quiet(r, 1) => (c <=> l.phase = "up") /\ (c => a = l.cred)
  BY <1>1, <1>3 DEF Tells
<1>5. ASSUME NEW i \in 1..Len(r), r[i].type # "STA_START", Quiet(r, i + 1)
      PROVE  /\ r[i].type = "GOT_IP" <=> l.phase = "up"
             /\ r[i].type = "GOT_IP" => r[i].cred = l.cred
  <2>1. i \in 1..Len(q) /\ i + 1 \in 1..(Len(q) + 1)
    BY <1>1, <1>5
  <2> QED BY <2>1, <1>2, <1>3, <1>5 DEF Tells
<1>6. Tells(r, c, a, l)
  BY <1>4, <1>5 DEF Tells
<1> QED BY <1>6 DEF r

(* An event that speaks of the link outdoes those before it. *)
LEMMA TellsNews ==
  ASSUME NEW q \in Seq(Event), NEW c, NEW a, NEW l \in Link, NEW e \in Event,
         e.type # "STA_START",
         e.type = "GOT_IP" <=> l.phase = "up",
         e.type = "GOT_IP" => e.cred = l.cred
  PROVE  Tells(Append(q, e), c, a, l)
<1> DEFINE r == Append(q, e)
<1>1. Len(r) = Len(q) + 1 /\ r[Len(q) + 1] = e /\ Len(q) \in Nat
  OBVIOUS
<1> HIDE DEF r
<1>2. \A m \in 1..(Len(q) + 1) : ~Quiet(r, m)
  BY <1>1 DEF Quiet
<1>3. ASSUME NEW i \in 1..Len(r), Quiet(r, i + 1)
      PROVE  i = Len(q) + 1
  BY <1>1, <1>2, <1>3
<1>4. ~Quiet(r, 1)
  BY <1>1, <1>2
<1>5. Tells(r, c, a, l)
  BY <1>1, <1>3, <1>4 DEF Tells
<1> QED BY <1>5 DEF r

(* While the station has no address, what it does is not told. *)
LEMMA TellsNothing ==
  ASSUME NEW q \in Seq(Event), NEW c \in BOOLEAN, NEW a, NEW l, NEW k, Tells(q, c, a, l),
         l.phase # "up", k.phase # "up"
  PROVE  Tells(q, c, a, k)
BY DEF Tells

(* Handling the first event. *)
LEMMA TailTells ==
  ASSUME NEW q \in Seq(Event), q # <<>>,
         NEW c \in BOOLEAN, NEW a, NEW d \in BOOLEAN, NEW b, NEW l \in Link,
         Tells(q, c, a, l),
         Head(q).type = "STA_START" => d = c /\ b = a,
         Head(q).type = "GOT_IP" => d = TRUE /\ b = Head(q).cred,
         Head(q).type = "DISCONNECTED" => d = FALSE
  PROVE  Tells(Tail(q), d, b, l)
<1> DEFINE t == Tail(q)
<1>1. Len(q) \in Nat /\ Len(q) >= 1 /\ Len(t) = Len(q) - 1 /\ Head(q) = q[1]
  OBVIOUS
<1>2. \A i \in 1..Len(t) : t[i] = q[i + 1]
  OBVIOUS
<1>3. q[1].type \in {"STA_START", "GOT_IP", "DISCONNECTED"}
  <2>1. Head(q) \in Event
    BY QueueTyped
  <2> QED BY <1>1, <2>1 DEF Event
<1> HIDE DEF t
<1>4. ASSUME NEW m \in 1..Len(q), Quiet(t, m)
      PROVE  Quiet(q, m + 1)
  <2>1. ASSUME NEW i \in (m + 1)..Len(q)
        PROVE  q[i].type = "STA_START"
    <3>1. i - 1 \in m..Len(t) /\ i - 1 \in 1..Len(t) /\ (i - 1) + 1 = i
      BY <1>1, <2>1
    <3> QED BY <3>1, <1>2, <1>4 DEF Quiet
  <2> QED BY <2>1 DEF Quiet
<1>5. ASSUME Quiet(t, 1)
      PROVE  (d <=> l.phase = "up") /\ (d => b = l.cred)
  <2>1. Quiet(q, 2)
    BY <1>1, <1>4, <1>5
  <2>2. CASE q[1].type = "STA_START"
    <3>1. Quiet(q, 1)
      BY <1>1, <2>1, <2>2 DEF Quiet
    <3> QED BY <3>1, <2>2, <1>1 DEF Tells
  <2>3. CASE q[1].type # "STA_START"
    <3>1. /\ q[1].type = "GOT_IP" <=> l.phase = "up"
          /\ q[1].type = "GOT_IP" => q[1].cred = l.cred
      BY <1>1, <2>1, <2>3 DEF Tells
    <3> QED BY <3>1, <2>3, <1>1, <1>3
  <2> QED BY <2>2, <2>3
<1>6. ASSUME NEW i \in 1..Len(t), t[i].type # "STA_START", Quiet(t, i + 1)
      PROVE  /\ t[i].type = "GOT_IP" <=> l.phase = "up"
             /\ t[i].type = "GOT_IP" => t[i].cred = l.cred
  <2>1. i + 1 \in 1..Len(q) /\ t[i] = q[i + 1]
    BY <1>1, <1>2
  <2>2. Quiet(q, (i + 1) + 1)
    BY <2>1, <1>4, <1>6
  <2> QED BY <2>1, <2>2, <1>6 DEF Tells
<1>7. Tells(t, d, b, l)
  BY <1>5, <1>6 DEF Tells
<1> QED BY <1>7 DEF t

-------------------------------------------------------------------------------
(* The driver's calls: what each posts is what it does to the link. *)

LinkTyped == evq \in Seq(Event) /\ connected \in BOOLEAN /\ sta \in Link /\ sta' \in Link

LEMMA EventsTyped ==
  /\ StaStart \in Event /\ Disconnected \in Event
  /\ StaStart.type = "STA_START" /\ Disconnected.type = "DISCONNECTED"
  /\ Idle \in Link /\ Idle.phase = "idle"
BY ValuesTyped DEF StaStart, Disconnected, Idle

LEMMA QueueExtended ==
  ASSUME NEW q \in Seq(Event), NEW e \in Event
  PROVE  q \o <<>> = q /\ q \o <<e>> = Append(q, e)
OBVIOUS

(* The link goes down, and says so unless it was down. *)
LEMMA DownTells ==
  ASSUME LinkTyped, LinkInv, sta' = Idle, evq' = evq \o LinkDown,
         UNCHANGED <<connected, ip>>
  PROVE  LinkInv'
<1>1. CASE sta.phase = "idle"
  <2>1. evq' = evq
    BY <1>1, QueueExtended, EventsTyped DEF LinkDown, LinkTyped
  <2> QED BY <1>1, <2>1, TellsNothing, EventsTyped DEF LinkInv, LinkTyped
<1>2. CASE sta.phase # "idle"
  <2>1. evq' = Append(evq, Disconnected)
    BY <1>2, QueueExtended, EventsTyped DEF LinkDown, LinkTyped
  <2> QED BY <2>1, TellsNews, EventsTyped DEF LinkInv, LinkTyped
<1> QED BY <1>1, <1>2

LEMMA StartsTell ==
  ASSUME LinkTyped, LinkInv, UNCHANGED <<connected, ip, sta>>,
         evq' \in {evq \o <<>>, evq \o <<StaStart>>}
  PROVE  LinkInv'
<1>1. evq' = evq \/ evq' = Append(evq, StaStart)
  BY QueueExtended, EventsTyped DEF LinkTyped
<1> QED BY <1>1, TellsStaStart DEF LinkInv, LinkTyped

LEMMA CallTells ==
  ASSUME LinkTyped, LinkInv, UNCHANGED <<connected, ip>>,
         \/ EspWifiStop
         \/ \E m \in Modes : EspWifiSetMode(m)
         \/ EspWifiStart
         \/ SetPromiscuousCb
         \/ \E c \in CredPair : EspWifiSetConfigSta(c)
         \/ DhcpcStop \/ DhcpcStart
         \/ UNCHANGED drv
  PROVE  LinkInv'
<1>1. CASE EspWifiStop
  BY <1>1, DownTells DEF EspWifiStop
<1>2. ASSUME NEW m \in Modes, EspWifiSetMode(m)
      PROVE  LinkInv'
  <2>1. CASE StaOn /\ ~HasSta(m)
    BY <1>2, <2>1, DownTells DEF EspWifiSetMode, StaOn
  <2>2. CASE ~(StaOn /\ ~HasSta(m))
    BY <1>2, <2>2, StartsTell DEF EspWifiSetMode
  <2> QED BY <2>1, <2>2
<1>3. CASE EspWifiStart
  BY <1>3, StartsTell DEF EspWifiStart
<1>4. CASE SetPromiscuousCb \/ DhcpcStop \/ DhcpcStart \/ UNCHANGED drv
           \/ \E c \in CredPair : EspWifiSetConfigSta(c)
  <2>1. UNCHANGED <<evq, sta>>
    BY <1>4 DEF SetPromiscuousCb, DhcpcStop, DhcpcStart, drv, EspWifiSetConfigSta
  <2> QED BY <2>1 DEF LinkInv
<1> QED BY <1>1, <1>2, <1>3, <1>4

(* A join leaves the present link; q is the queue the call finds. *)
LEMMA ConnectTells ==
  ASSUME LinkTyped, NEW q \in Seq(Event), EspWifiConnect(q),
         Tells(q, connected, ip, sta), UNCHANGED <<connected, ip>>
  PROVE  LinkInv'
<1>1. CASE ~StaOn
  BY <1>1 DEF EspWifiConnect, LinkInv
<1>2. CASE StaOn /\ sta.phase \in {"linked", "up"}
  <2>1. sta'.phase = "joining" /\ evq' = Append(q, Disconnected)
    BY <1>2 DEF EspWifiConnect
  <2> QED BY <2>1, TellsNews, EventsTyped DEF LinkInv, LinkTyped
<1>3. CASE StaOn /\ sta.phase \notin {"linked", "up"}
  <2>1. sta'.phase = "joining" /\ evq' = q
    BY <1>3 DEF EspWifiConnect
  <2> QED BY <1>3, <2>1, TellsNothing DEF LinkInv, LinkTyped
<1> QED BY <1>1, <1>2, <1>3

-------------------------------------------------------------------------------
(* The steps. *)

LEMMA FirmwareTells ==
  ASSUME TypeOK, LinkTyped, LinkInv, Command \/ MainStep \/ TaskStep \/ HttpStep
  PROVE  LinkInv'
<1> ManagerTypeOK /\ DriverTypeOK
  BY DEF TypeOK
<1>1. CASE Command \/ HttpStep
  <2>1. UNCHANGED <<drv, connected, ip>>
    BY <1>1 DEF Command, StartAp, StopAp, Clear, AutoConnect, Reset, Report, HttpStep,
                SubmitStart, SubmitIgnored, SubmitNoTask, shared
  <2> QED BY <2>1, CallTells
<1>2. CASE MainStep
  <2>1. UNCHANGED <<connected, ip>>
    BY <1>2 DEF MainStep, Call, shared, Ack, Erase, ApPreStop, ApScanMode, ApScanStart,
                ApScanArm, ApScan, ApNet, ApMode, ApStart, ApArm, ApServe, StopHttp,
                StopWifi, AutoPwd, AutoMode, AutoCfg, AutoStart, AutoArm, AutoClear,
                AutoTimeout, AutoOk, AutoFail, NoCredReply
  <2>2. CASE Ack \/ Erase \/ ApServe \/ StopHttp \/ AutoPwd \/ AutoClear \/ AutoTimeout
             \/ AutoOk \/ NoCredReply
    BY <2>1, <2>2, CallTells
       DEF Ack, Erase, ApServe, StopHttp, AutoPwd, AutoClear, AutoTimeout, AutoOk, NoCredReply
  <2>3. CASE ApPreStop \/ ApScan \/ StopWifi \/ AutoFail
    BY <2>1, <2>3, CallTells DEF ApPreStop, ApScan, StopWifi, AutoFail
  <2>4. CASE ApScanMode \/ ApMode \/ AutoMode
    BY <2>1, <2>4, CallTells DEF ApScanMode, ApMode, AutoMode, Modes
  <2>5. CASE ApScanStart \/ ApStart \/ AutoStart
    BY <2>1, <2>5, CallTells DEF ApScanStart, ApStart, AutoStart
  <2>6. CASE ApScanArm \/ ApArm \/ AutoArm \/ ApNet
    BY <2>1, <2>6, CallTells DEF ApScanArm, ApArm, AutoArm, ApNet
  <2>7. CASE AutoCfg
    BY <2>1, <2>7, CallTells DEF AutoCfg, ManagerTypeOK
  <2> QED
    BY <1>2, <2>2, <2>3, <2>4, <2>5, <2>6, <2>7 DEF MainStep
<1>3. CASE TaskStep
  <2>1. UNCHANGED <<connected, ip>>
    BY <1>3 DEF TaskStep, TaskCall, shared, TaskBegin, TaskFlags, TaskClear, TaskMode,
                TaskConfig, TaskDhcp, TaskConnect, TaskEnter, TaskTimeout, TaskSaveSsid,
                TaskSavePwd, TaskPublish, TaskFail, TaskExit
  <2>2. CASE TaskBegin \/ TaskFlags \/ TaskClear \/ TaskTimeout \/ TaskSaveSsid
             \/ TaskSavePwd \/ TaskPublish \/ TaskFail \/ TaskExit
    BY <2>1, <2>2, CallTells DEF TaskBegin, TaskFlags, TaskClear, TaskTimeout,
       TaskSaveSsid, TaskSavePwd, TaskPublish, TaskFail, TaskExit
  <2>3. CASE TaskMode
    BY <2>1, <2>3, CallTells DEF TaskMode, Modes
  <2>4. CASE TaskConfig
    BY <2>1, <2>4, CallTells DEF TaskConfig, ManagerTypeOK
  <2>5. CASE TaskDhcp \/ TaskEnter
    BY <2>1, <2>5, CallTells DEF TaskDhcp, TaskEnter
  <2>6. CASE TaskConnect
    BY <2>1, <2>6, ConnectTells DEF TaskConnect, LinkInv, LinkTyped
  <2> QED
    BY <1>3, <2>2, <2>3, <2>4, <2>5, <2>6 DEF TaskStep
<1> QED
  BY <1>1, <1>2, <1>3

LEMMA EventTells ==
  ASSUME LinkTyped, ip \in CredPair, LinkInv, EventStep
  PROVE  LinkInv'
<1>1. evq # <<>> /\ Tail(evq) \in Seq(Event)
  BY QueueTyped DEF EventStep, OnStaStart, OnGotIp, OnDisconnected, Handling, LinkTyped
<1>2. CASE OnStaStart
  <2>1. Head(evq).type = "STA_START" /\ UNCHANGED <<connected, ip>>
    BY <1>2 DEF OnStaStart, Handling, shared
  <2>2. Tells(Tail(evq), connected, ip, sta)
    BY <1>1, <2>1, TailTells DEF LinkInv, LinkTyped
  <2>3. CASE inApMode
    BY <1>2, <2>1, <2>2, <2>3 DEF OnStaStart, LinkInv
  <2>4. CASE ~inApMode
    BY <1>1, <1>2, <2>1, <2>2, <2>4, ConnectTells DEF OnStaStart
  <2> QED BY <2>3, <2>4
<1>3. CASE OnGotIp
  <2>1. /\ Head(evq).type = "GOT_IP" /\ evq' = Tail(evq) /\ sta' = sta
        /\ connected' = TRUE /\ ip' = Head(evq).cred
    BY <1>3 DEF OnGotIp, Handling
  <2>2. Tells(Tail(evq), TRUE, Head(evq).cred, sta)
    BY <1>1, <2>1, TailTells DEF LinkInv, LinkTyped
  <2> QED BY <2>1, <2>2 DEF LinkInv
<1>4. CASE OnDisconnected
  <2>1. /\ Head(evq).type = "DISCONNECTED" /\ evq' = Tail(evq) /\ sta' = sta
        /\ connected' = FALSE /\ ip' = ip
    BY <1>4 DEF OnDisconnected, Handling
  <2>2. Tells(Tail(evq), FALSE, ip, sta)
    BY <1>1, <2>1, TailTells DEF LinkInv, LinkTyped
  <2> QED BY <2>1, <2>2 DEF LinkInv
<1> QED BY <1>2, <1>3, <1>4 DEF EventStep

LEMMA OutsideTells ==
  ASSUME TypeOK, LinkTyped, LinkInv, AirStep \/ AirLoss \/ Reboot
  PROVE  LinkInv'
<1>1. AirStep \/ AirLoss => UNCHANGED <<connected, ip>>
  BY DEF AirStep, AirJoin, AirReject, AirLoss, firmware, shared
<1>2. AirStep \/ AirLoss => Associate \/ Lease \/ \E P : Lose(P)
  BY DEF AirStep, AirJoin, AirReject, AirLoss
<1>3. CASE (AirStep \/ AirLoss) /\ Associate
  <2>1. sta.phase # "up" /\ sta'.phase # "up" /\ evq' = evq
    BY <1>3 DEF Associate, LinkTyped, Link
  <2> QED BY <1>1, <1>3, <2>1, TellsNothing DEF LinkInv, LinkTyped
<1>4. CASE (AirStep \/ AirLoss) /\ Lease
  <2>1. sta'.phase = "up" /\ sta'.cred = sta.cred /\ evq' = Append(evq, GotIp(sta.cred))
    BY <1>4 DEF Lease, LinkTyped, Link
  <2>2. GotIp(sta.cred) \in Event /\ GotIp(sta.cred).type = "GOT_IP"
        /\ GotIp(sta.cred).cred = sta.cred
    BY DEF GotIp, Event, LinkTyped, Link
  <2> QED BY <1>1, <1>4, <2>1, <2>2, TellsNews DEF LinkInv, LinkTyped
<1>5. CASE (AirStep \/ AirLoss) /\ \E P : Lose(P)
  <2>1. sta' = Idle /\ evq' = Append(evq, Disconnected)
    BY <1>5 DEF Lose
  <2> QED BY <1>1, <1>5, <2>1, TellsNews, EventsTyped DEF LinkInv, LinkTyped
<1>6. CASE Reboot
  BY <1>6, EventsTyped DEF Reboot, LinkInv, Tells, Quiet
<1> QED BY <1>2, <1>3, <1>4, <1>5, <1>6

LEMMA LinkInvHolds == Spec => []LinkInv
<1>1. Init => LinkInv
  BY EventsTyped DEF Init, LinkInv, Tells, Quiet
<1>2. TypeOK /\ TypeOK' /\ LinkInv /\ [Next]_vars => LinkInv'
  <2> SUFFICES ASSUME TypeOK, TypeOK', LinkInv, [Next]_vars PROVE LinkInv'
    OBVIOUS
  <2>1. LinkTyped /\ ip \in CredPair
    BY DEF TypeOK, DriverTypeOK, ManagerTypeOK, LinkTyped
  <2>2. CASE UNCHANGED vars
    BY <2>2 DEF vars, drv, shared, LinkInv
  <2> QED
    BY <2>1, <2>2, FirmwareTells, EventTells, OutsideTells DEF Next, PollNothing
<1> QED
  BY <1>1, <1>2, TypeCorrect, PTL DEF Spec

(* Once the event loop has caught up, s_connected tells whether the station has
   an address and s_ip is that of the present link: no order of commands,
   attempts, losses and restarts leaves the manager with a wrong view. *)
THEOREM ViewFollowsLink == Spec => []ConnectedTracksLink
<1>1. LinkInv => ConnectedTracksLink
  BY DEF LinkInv, Tells, Quiet, ConnectedTracksLink
<1> QED
  BY <1>1, LinkInvHolds, PTL
===============================================================================
