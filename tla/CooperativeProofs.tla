-------------------------- MODULE CooperativeProofs ---------------------------
(***************************************************************************)
(* What WifiManager guarantees an STM32 that starts nothing over a running *)
(* attempt, AP or station, for every other constant, with faults and       *)
(* restarts: first whatever the interleaving of the tasks, then what rests *)
(* on their priorities as well (Prompt).                                   *)
(***************************************************************************)
EXTENDS WifiManagerProofs

ApPcs == {"apStop", "apScanMode", "apScanStart", "apScanArm", "apScan", "apNet",
          "apMode", "apStart", "apArm", "apServe"}

AutoPcs == {"autoPwd", "autoMode", "autoCfg", "autoStart", "autoArm", "autoClear",
            "autoWait", "autoOk", "autoFail"}

(* start_ap_mode runs alone: in AP mode, without an attempt, and without the
   server that could begin one. *)
ApAlone ==
  /\ mpc \in ApPcs => inApMode /\ tpc = "none" /\ ~http
  /\ mpc \in {"apScanMode", "apScanStart", "apScanArm", "apScan"} => sta.phase = "idle"
  /\ mpc = "apStart" => HasAp(mode)
  /\ mpc \in {"apArm", "apServe"} => ApUp

(* A server has its AP, and no command is under way that would take it down. *)
ServerHasAp == http => ApUp /\ mpc \notin AutoPcs \cup {"stopWifi"}

(* From dhcpc_start to its verdict an attempt has a DHCP client. *)
AttemptDhcp == tpc \in {"settle", "enter", "wait"} => dhcpc

CoopInv == ApAlone /\ ServerHasAp /\ AttemptDhcp

(* What a cooperative STM32 waits for. *)
LEMMA HostWaits ==
  ASSUME Cooperative
  PROVE  /\ StartAp => ~http /\ tpc = "none" /\ mpc' = "apStop"
         /\ StopAp => tpc = "none" /\ mpc' = "stopHttp"
         /\ AutoConnect => ~started /\ tpc = "none" /\ mpc' \in {"noCred", "autoPwd"}
         /\ Clear \/ Reset \/ Report => mpc' \in {"erase", "restart", "ack"}
         /\ Command => mpc = "idle" /\ tpc' = tpc
BY DEF Command, StartAp, StopAp, Clear, AutoConnect, Reset, Report, Receive, HostMay, Main

LEMMA CommandKeepsCoop ==
  ASSUME Cooperative, CoopInv, Command
  PROVE  CoopInv'
<1>1. UNCHANGED <<drv, http>> /\ mpc = "idle" /\ tpc' = tpc
  BY HostWaits DEF Command, StartAp, StopAp, Clear, AutoConnect, Reset, Report
<1>2. CASE StartAp
  BY <1>1, <1>2, HostWaits
     DEF CoopInv, ApAlone, ServerHasAp, AttemptDhcp, AutoPcs, StartAp, ApUp, drv
<1>3. CASE AutoConnect
  BY <1>1, <1>3, HostWaits
     DEF CoopInv, ApAlone, ServerHasAp, AttemptDhcp, ApPcs, ApUp, drv
<1>4. CASE StopAp \/ Clear \/ Reset \/ Report
  BY <1>1, <1>4, HostWaits
     DEF CoopInv, ApAlone, ServerHasAp, AttemptDhcp, ApPcs, AutoPcs, ApUp, drv
<1> QED BY <1>2, <1>3, <1>4 DEF Command

LEMMA MainKeepsCoop ==
  ASSUME CoopInv, MainStep
  PROVE  CoopInv'
<1> USE DEF CoopInv, ApAlone, ServerHasAp, AttemptDhcp, ApPcs, AutoPcs, Call, Main, ApUp,
            shared
<1>1. CASE Ack \/ Erase \/ AutoPwd \/ AutoClear \/ AutoTimeout \/ AutoOk \/ NoCredReply
  BY <1>1 DEF Ack, Erase, AutoPwd, AutoClear, AutoTimeout, AutoOk, NoCredReply, drv
<1>2. CASE ApPreStop
  BY <1>2 DEF ApPreStop, EspWifiStop, Idle
<1>3. CASE ApScanMode
  BY <1>3 DEF ApScanMode, EspWifiSetMode, Idle
<1>4. CASE ApScanStart
  BY <1>4 DEF ApScanStart, EspWifiStart
<1>5. CASE ApScanArm
  BY <1>5 DEF ApScanArm, SetPromiscuousCb
<1>6. CASE ApScan
  BY <1>6 DEF ApScan, EspWifiStop
<1>7. CASE ApNet
  BY <1>7 DEF ApNet, DhcpcStop
<1>8. CASE ApMode
  BY <1>8 DEF ApMode, EspWifiSetMode, HasAp
<1>9. CASE ApStart
  BY <1>9 DEF ApStart, EspWifiStart
<1>10. CASE ApArm
  BY <1>10 DEF ApArm, SetPromiscuousCb
<1>11. CASE ApServe
  BY <1>11 DEF ApServe, drv
<1>12. CASE StopHttp
  BY <1>12 DEF StopHttp, drv
<1>13. CASE StopWifi
  BY <1>13 DEF StopWifi, EspWifiStop
<1>14. CASE AutoMode
  BY <1>14 DEF AutoMode, EspWifiSetMode
<1>15. CASE AutoCfg
  BY <1>15 DEF AutoCfg, EspWifiSetConfigSta
<1>16. CASE AutoStart
  BY <1>16 DEF AutoStart, EspWifiStart
<1>17. CASE AutoArm
  BY <1>17 DEF AutoArm, SetPromiscuousCb
<1>18. CASE AutoFail
  BY <1>18 DEF AutoFail, EspWifiStop
<1> QED
  BY <1>1, <1>2, <1>3, <1>4, <1>5, <1>6, <1>7, <1>8, <1>9, <1>10, <1>11, <1>12, <1>13,
     <1>14, <1>15, <1>16, <1>17, <1>18 DEF MainStep

(* An attempt runs only while start_ap_mode does not, and adds a station to
   the AP's mode. *)
LEMMA TaskKeepsCoop ==
  ASSUME CoopInv, TaskStep
  PROVE  CoopInv'
<1>1. mpc' = mpc /\ tpc # "none" /\ mpc \notin ApPcs
  BY DEF TaskStep, Task, TaskCall, TaskBegin, TaskFlags, TaskClear, TaskMode, TaskConfig,
         TaskDhcp, TaskConnect, TaskEnter, TaskTimeout, TaskSaveSsid, TaskSavePwd,
         TaskPublish, TaskFail, TaskExit, CoopInv, ApAlone
<1>2. http' = http /\ started' = started /\ (HasAp(mode) => HasAp(mode'))
  BY DEF TaskStep, TaskCall, TaskBegin, TaskFlags, TaskClear, TaskMode, TaskConfig,
         TaskDhcp, TaskConnect, TaskEnter, TaskTimeout, TaskSaveSsid, TaskSavePwd,
         TaskPublish, TaskFail, TaskExit, EspWifiSetMode, EspWifiSetConfigSta, DhcpcStart,
         EspWifiConnect, SetPromiscuousCb, drv, HasAp
<1>3. AttemptDhcp'
  BY DEF TaskStep, Task, TaskCall, TaskBegin, TaskFlags, TaskClear, TaskMode, TaskConfig,
         TaskDhcp, TaskConnect, TaskEnter, TaskTimeout, TaskSaveSsid, TaskSavePwd,
         TaskPublish, TaskFail, TaskExit, EspWifiConnect, SetPromiscuousCb, DhcpcStart, drv,
         Outcome, CoopInv, AttemptDhcp
<1> QED
  BY <1>1, <1>2, <1>3 DEF CoopInv, ApAlone, ServerHasAp, ApPcs, ApUp

(* In AP mode a STA_START does not join. *)
LEMMA EventKeepsCoop ==
  ASSUME CoopInv, EventStep
  PROVE  CoopInv'
<1>1. UNCHANGED <<mode, started, dhcpc, inApMode, http>>
  BY DEF EventStep, OnStaStart, OnGotIp, OnDisconnected, EspWifiConnect, shared
<1>2. inApMode => sta' = sta
  BY DEF EventStep, OnStaStart, OnGotIp, OnDisconnected
<1>3. /\ mpc' = mpc \/ (mpc' \in {"autoOk", "autoFail"} /\ mpc = "autoWait")
      /\ tpc' = tpc \/ (tpc' \in {"saveSsid", "fail"} /\ tpc = "wait")
  BY DEF EventStep, OnStaStart, OnGotIp, OnDisconnected, SetBit, Outcome
<1> QED
  BY <1>1, <1>2, <1>3 DEF CoopInv, ApAlone, ServerHasAp, AttemptDhcp, ApPcs, AutoPcs, ApUp

(* A phone needs the server, the air needs a link, and a restart stops all. *)
LEMMA OutsideKeepsCoop ==
  ASSUME CoopInv, HttpStep \/ AirStep \/ AirLoss \/ Reboot
  PROVE  CoopInv'
<1>1. CASE HttpStep
  <2>1. http /\ UNCHANGED <<drv, http, inApMode, mpc>>
        /\ (tpc' = tpc \/ tpc' = "delay")
    BY <1>1 DEF HttpStep, SubmitStart, SubmitIgnored, SubmitNoTask, MaySubmit, shared
  <2> QED
    BY <2>1 DEF CoopInv, ApAlone, ServerHasAp, AttemptDhcp, drv, ApUp
<1>2. CASE AirStep \/ AirLoss
  <2>1. UNCHANGED <<mode, started, dhcpc, http, inApMode, mpc, tpc>>
        /\ (sta.phase = "idle" => sta' = sta)
    BY <1>2 DEF AirStep, AirJoin, AirReject, AirLoss, firmware, shared, Associate, Lease, Lose
  <2> QED
    BY <2>1 DEF CoopInv, ApAlone, ServerHasAp, AttemptDhcp, ApUp
<1>3. CASE Reboot
  BY <1>3 DEF Reboot, CoopInv, ApAlone, ServerHasAp, AttemptDhcp, ApPcs
<1> QED BY <1>1, <1>2, <1>3

LEMMA CoopInvHolds == ASSUME Cooperative PROVE Spec => []CoopInv
<1>1. Init => CoopInv
  BY DEF Init, CoopInv, ApAlone, ServerHasAp, AttemptDhcp, ApPcs
<1>2. CoopInv /\ [Next]_vars => CoopInv'
  <2> SUFFICES ASSUME CoopInv, [Next]_vars PROVE CoopInv'
    OBVIOUS
  <2>1. CASE UNCHANGED vars
    BY <2>1 DEF vars, drv, shared, CoopInv, ApAlone, ServerHasAp, AttemptDhcp, ApUp
  <2> QED
    BY <2>1, CommandKeepsCoop, MainKeepsCoop, TaskKeepsCoop, EventKeepsCoop,
       OutsideKeepsCoop DEF Next, PollNothing
<1> QED
  BY <1>1, <1>2, PTL DEF Spec

(* With a cooperative STM32 the station never joins while the prescan uses it,
   however late the STA_START of the prescan is handled. *)
THEOREM PrescanIsAlone == ASSUME Cooperative PROVE Spec => []NoJoinDuringPrescan
<1>1. CoopInv => NoJoinDuringPrescan
  BY DEF CoopInv, ApAlone, NoJoinDuringPrescan
<1> QED
  BY <1>1, CoopInvHolds, PTL

(* With a cooperative STM32 a running web server has its AP. *)
THEOREM ServerKeepsAp == ASSUME Cooperative PROVE Spec => []HttpNeedsAp
<1>1. CoopInv => HttpNeedsAp
  BY DEF CoopInv, ServerHasAp, HttpNeedsAp
<1> QED
  BY <1>1, CoopInvHolds, PTL

(* With a cooperative STM32 an attempt waits with a DHCP client. *)
THEOREM AttemptKeepsDhcp == ASSUME Cooperative PROVE Spec => []AttemptHasDhcp
<1>1. CoopInv => AttemptHasDhcp
  BY DEF CoopInv, AttemptDhcp, AttemptHasDhcp
<1> QED
  BY <1>1, CoopInvHolds, PTL

-------------------------------------------------------------------------------
(* What an attempt owns: the mode, the AP flag and the station's credentials.
   The AP flag outlives neither the AP nor the part of an attempt that sets
   it, so that AUTO_CONNECT, which needs a stopped driver, finds it off. *)

Preparing == {"mode", "config", "dhcp", "settle"}
Joining   == {"enter", "wait"}

AttemptOwns ==
  /\ mpc \in AutoPcs => tpc = "none"
  /\ tpc \in {"config", "dhcp", "settle", "enter", "wait"} => mode = "APSTA"
  /\ tpc \in Preparing => inApMode
  /\ tpc \in {"dhcp", "settle", "enter", "wait"} => staCfg = pending

ApFlag ==
  /\ inApMode => ApUp \/ mpc \in ApPcs \/ tpc \in Preparing
  /\ inApMode /\ mpc \in {"stopHttp", "stopWifi"} => tpc \in Preparing
  /\ mpc \in AutoPcs => ~inApMode
  /\ ~started \/ mpc \in ApPcs \ {"apStop"} => sta.phase = "idle"
  /\ mpc \in {"autoPwd", "autoMode", "autoCfg", "autoStart"} => ~started

OwnInv == CoopInv /\ AttemptOwns /\ ApFlag

LEMMA CommandKeepsOwn ==
  ASSUME Cooperative, OwnInv, Command
  PROVE  AttemptOwns' /\ ApFlag'
<1>1. UNCHANGED <<drv, pending>> /\ mpc = "idle" /\ tpc' = tpc
  BY HostWaits DEF Command, StartAp, StopAp, Clear, AutoConnect, Reset, Report, att
<1> USE DEF OwnInv, CoopInv, AttemptOwns, ApFlag, ApAlone, Preparing, ApPcs, AutoPcs, ApUp, drv
<1>2. CASE StartAp
  BY <1>1, <1>2, HostWaits DEF StartAp
<1>3. CASE StopAp
  <2>1. tpc = "none" /\ mpc' = "stopHttp" /\ inApMode' = FALSE
    BY <1>3, HostWaits DEF StopAp
  <2> QED BY <1>1, <2>1
<1>4. CASE AutoConnect
  BY <1>1, <1>4, HostWaits DEF AutoConnect, shared
<1>5. CASE Clear \/ Reset \/ Report
  BY <1>1, <1>5, HostWaits DEF Clear, Reset, Report, shared
<1> QED BY <1>2, <1>3, <1>4, <1>5 DEF Command

LEMMA MainKeepsOwn ==
  ASSUME OwnInv, MainStep
  PROVE  AttemptOwns' /\ ApFlag'
<1> USE DEF OwnInv, CoopInv, AttemptOwns, ApFlag, ApAlone, Preparing, ApPcs, AutoPcs, ApUp, Call,
            Main, shared, att, Idle
<1>1. CASE Ack \/ Erase \/ AutoPwd \/ AutoClear \/ AutoTimeout \/ AutoOk \/ NoCredReply
           \/ ApServe \/ StopHttp
  BY <1>1 DEF Ack, Erase, AutoPwd, AutoClear, AutoTimeout, AutoOk, NoCredReply, ApServe,
              StopHttp, drv
<1>2. CASE ApPreStop \/ ApScan \/ StopWifi \/ AutoFail
  BY <1>2 DEF ApPreStop, ApScan, StopWifi, AutoFail, EspWifiStop
<1>3. CASE ApScanMode \/ ApMode \/ AutoMode
  BY <1>3 DEF ApScanMode, ApMode, AutoMode, EspWifiSetMode
<1>4. CASE ApScanStart \/ ApStart \/ AutoStart
  BY <1>4 DEF ApScanStart, ApStart, AutoStart, EspWifiStart
<1>5. CASE ApScanArm \/ ApArm \/ AutoArm
  BY <1>5 DEF ApScanArm, ApArm, AutoArm, SetPromiscuousCb
<1>6. CASE ApNet
  BY <1>6 DEF ApNet, DhcpcStop
<1>7. CASE AutoCfg
  BY <1>7 DEF AutoCfg, EspWifiSetConfigSta
<1> QED
  BY <1>1, <1>2, <1>3, <1>4, <1>5, <1>6, <1>7 DEF MainStep

LEMMA TaskKeepsOwn ==
  ASSUME OwnInv, TaskStep
  PROVE  AttemptOwns' /\ ApFlag'
<1>0. mpc' = mpc /\ mpc \notin ApPcs \cup AutoPcs
  BY DEF TaskStep, Task, TaskCall, TaskBegin, TaskFlags, TaskClear, TaskMode, TaskConfig,
         TaskDhcp, TaskConnect, TaskEnter, TaskTimeout, TaskSaveSsid, TaskSavePwd,
         TaskPublish, TaskFail, TaskExit, OwnInv, CoopInv, AttemptOwns, ApAlone
<1> USE <1>0 DEF OwnInv, AttemptOwns, ApFlag, Preparing, AutoPcs, ApUp, Task, TaskCall, shared, att
<1>1. CASE TaskBegin \/ TaskFlags \/ TaskClear \/ TaskTimeout \/ TaskSaveSsid
           \/ TaskSavePwd \/ TaskPublish \/ TaskFail \/ TaskExit
  BY <1>1 DEF TaskBegin, TaskFlags, TaskClear, TaskTimeout, TaskSaveSsid, TaskSavePwd,
              TaskPublish, TaskFail, TaskExit, drv
<1>2. CASE TaskMode
  BY <1>2 DEF TaskMode, EspWifiSetMode, HasAp, HasSta, StaOn
<1>3. CASE TaskConfig
  BY <1>3 DEF TaskConfig, EspWifiSetConfigSta, HasSta
<1>4. CASE TaskDhcp
  BY <1>4 DEF TaskDhcp, DhcpcStart
<1>5. CASE TaskConnect
  BY <1>5 DEF TaskConnect, EspWifiConnect, StaOn
<1>6. CASE TaskEnter
  BY <1>6 DEF TaskEnter, SetPromiscuousCb, Outcome
<1> QED
  BY <1>1, <1>2, <1>3, <1>4, <1>5, <1>6 DEF TaskStep

LEMMA EventKeepsOwn ==
  ASSUME OwnInv, EventStep
  PROVE  AttemptOwns' /\ ApFlag'
<1>1. UNCHANGED <<mode, started, staCfg, inApMode, http, pending>>
  BY DEF EventStep, OnStaStart, OnGotIp, OnDisconnected, EspWifiConnect, shared, att
<1>2. inApMode \/ ~started => sta' = sta
  BY DEF EventStep, OnStaStart, OnGotIp, OnDisconnected, EspWifiConnect, StaOn
<1>3. /\ mpc' = mpc \/ (mpc' \in {"autoOk", "autoFail"} /\ mpc = "autoWait")
      /\ tpc' = tpc \/ (tpc' \in {"saveSsid", "fail"} /\ tpc = "wait")
  BY DEF EventStep, OnStaStart, OnGotIp, OnDisconnected, SetBit, Outcome
<1> QED
  BY <1>1, <1>2, <1>3 DEF OwnInv, CoopInv, ApAlone, AttemptOwns, ApFlag, Preparing, ApPcs,
     AutoPcs, ApUp

LEMMA OutsideKeepsOwn ==
  ASSUME OwnInv, HttpStep \/ AirStep \/ AirLoss \/ Reboot
  PROVE  AttemptOwns' /\ ApFlag'
<1> USE DEF OwnInv, AttemptOwns, ApFlag, Preparing, ApUp
<1>1. CASE HttpStep
  <2>1. /\ http /\ UNCHANGED <<drv, inApMode, mpc>>
        /\ \/ tpc' = tpc /\ (tpc # "none" => pending' = pending)
           \/ tpc = "none" /\ tpc' = "delay"
    BY <1>1 DEF HttpStep, SubmitStart, SubmitIgnored, SubmitNoTask, MaySubmit, shared
  <2> QED
    BY <2>1 DEF CoopInv, ServerHasAp, drv
<1>2. CASE AirStep \/ AirLoss
  <2>1. UNCHANGED <<mode, started, staCfg, inApMode, pending, mpc, tpc>>
        /\ (sta.phase = "idle" => sta' = sta)
    BY <1>2 DEF AirStep, AirJoin, AirReject, AirLoss, firmware, shared, att, Associate, Lease,
                Lose
  <2> QED
    BY <2>1
<1>3. CASE Reboot
  BY <1>3 DEF Reboot, ApPcs, AutoPcs, Idle
<1> QED BY <1>1, <1>2, <1>3

LEMMA OwnInvHolds == ASSUME Cooperative PROVE Spec => []OwnInv
<1>1. Init => AttemptOwns /\ ApFlag
  BY DEF Init, AttemptOwns, ApFlag, Preparing, ApPcs, AutoPcs, Idle
<1>2. CoopInv /\ AttemptOwns /\ ApFlag /\ [Next]_vars => AttemptOwns' /\ ApFlag'
  <2> SUFFICES ASSUME OwnInv, [Next]_vars PROVE AttemptOwns' /\ ApFlag'
    BY DEF OwnInv
  <2>1. CASE UNCHANGED vars
    BY <2>1 DEF vars, drv, shared, att, OwnInv, AttemptOwns, ApFlag, ApUp
  <2> QED
    BY <2>1, CommandKeepsOwn, MainKeepsOwn, TaskKeepsOwn, EventKeepsOwn, OutsideKeepsOwn
       DEF Next, PollNothing
<1> QED
  BY <1>1, <1>2, CoopInvHolds, PTL DEF Spec, OwnInv

-------------------------------------------------------------------------------
(* The events in the queue.  The calls of the firmware announce the station or
   the end of a link; only a lease of the present link announces an address. *)

Posted(q) == {q[i] : i \in 1..Len(q)}

LEMMA PostedFacts ==
  ASSUME NEW q \in Seq(Event)
  PROVE  /\ Posted(<<>>) = {} /\ q \o <<>> = q
         /\ \A e \in Event : /\ Posted(Append(q, e)) = Posted(q) \cup {e}
                             /\ q \o <<e>> = Append(q, e)
                             /\ Posted(<<e>>) = {e}
         /\ q # <<>> => Head(q) \in Posted(q) /\ Posted(Tail(q)) \subseteq Posted(q)
<1>1. Len(q) \in Nat
  OBVIOUS
<1>2. ASSUME NEW e \in Event
      PROVE  /\ Posted(Append(q, e)) = Posted(q) \cup {e} /\ q \o <<e>> = Append(q, e)
             /\ Posted(<<e>>) = {e}
  <2> DEFINE r == Append(q, e)
  <2>1. Len(r) = Len(q) + 1 /\ r[Len(q) + 1] = e /\ \A i \in 1..Len(q) : r[i] = q[i]
    OBVIOUS
  <2>2. 1..(Len(q) + 1) = 1..Len(q) \cup {Len(q) + 1}
    BY <1>1
  <2> HIDE DEF r
  <2>3. Posted(r) = Posted(q) \cup {e}
    BY <2>1, <2>2, Zenon DEF Posted
  <2>4. Posted(<<e>>) = {e}
    BY DEF Posted
  <2> QED BY <2>3, <2>4 DEF r
<1>3. ASSUME q # <<>>
      PROVE  Head(q) \in Posted(q) /\ Posted(Tail(q)) \subseteq Posted(q)
  <2> DEFINE t == Tail(q)
  <2>1. 1 \in 1..Len(q) /\ Head(q) = q[1] /\ Len(t) = Len(q) - 1
    BY <1>1, <1>3
  <2>2. \A i \in 1..Len(t) : i + 1 \in 1..Len(q) /\ t[i] = q[i + 1]
    BY <1>1, <1>3
  <2> HIDE DEF t
  <2>3. Posted(t) \subseteq Posted(q)
    BY <2>2, Zenon DEF Posted
  <2>4. Head(q) \in Posted(q)
    BY <2>1, Zenon DEF Posted
  <2> QED BY <2>3, <2>4 DEF t
<1>4. Posted(<<>>) = {} /\ q \o <<>> = q
  BY DEF Posted
<1> QED BY <1>2, <1>3, <1>4

LEMMA PostedNews ==
  ASSUME NEW q \in Seq(Event), NEW e \in Event
  PROVE  Posted(Append(q, e)) = Posted(q) \cup {e}
BY PostedFacts

(* What the calls of main and the task, other than a connect, do to the link. *)
NoJoin ==
  /\ sta' = sta \/ sta' = Idle
  /\ \A e \in Posted(evq') : e.type = "GOT_IP" => e \in Posted(evq)

LEMMA CallsDoNotJoin ==
  ASSUME DriverTypeOK,
         \/ EspWifiStop
         \/ \E m \in Modes : EspWifiSetMode(m)
         \/ EspWifiStart
         \/ SetPromiscuousCb
         \/ \E c \in CredPair : EspWifiSetConfigSta(c)
         \/ DhcpcStop \/ DhcpcStart
         \/ UNCHANGED drv
  PROVE  NoJoin
<1>1. sta' = sta \/ sta' = Idle
  BY DEF EspWifiStop, EspWifiSetMode, EspWifiStart, SetPromiscuousCb, EspWifiSetConfigSta,
         DhcpcStop, DhcpcStart, drv
<1>2. evq' = evq \/ evq' = evq \o <<>> \/ evq' = evq \o <<StaStart>> \/ evq' = evq \o <<Disconnected>>
  BY DEF EspWifiStop, EspWifiSetMode, EspWifiStart, SetPromiscuousCb, EspWifiSetConfigSta,
         DhcpcStop, DhcpcStart, drv, LinkDown
<1>3. Posted(evq') \subseteq Posted(evq) \cup {StaStart, Disconnected}
  <2>1. StaStart \in Event /\ Disconnected \in Event /\ evq \in Seq(Event)
    BY EventsTyped DEF DriverTypeOK
  <2>2. evq \o <<>> = evq
    BY <2>1, PostedFacts
  <2>3. \A e \in Event : Posted(evq \o <<e>>) = Posted(evq) \cup {e}
    <3>1. \A e \in Event : evq \o <<e>> = Append(evq, e) /\ Posted(Append(evq, e)) = Posted(evq) \cup {e}
      BY <2>1, PostedFacts
    <3> QED BY <3>1, Zenon
  <2> QED BY <1>2, <2>1, <2>2, <2>3, Zenon
<1>4. StaStart.type # "GOT_IP" /\ Disconnected.type # "GOT_IP"
  BY EventsTyped
<1> QED BY <1>1, <1>3, <1>4 DEF NoJoin

LEMMA MainDoesNotJoin ==
  ASSUME TypeOK, MainStep \/ Command
  PROVE  NoJoin /\ UNCHANGED <<tpc, pending, alone, online>> /\ (bits' = bits \/ bits' = {})
<1> ManagerTypeOK /\ DriverTypeOK
  BY DEF TypeOK
<1>0. UNCHANGED <<tpc, pending, alone, online>> /\ (bits' = bits \/ bits' = {})
  <2>1. CASE Command
    BY <2>1 DEF Command, StartAp, StopAp, Clear, AutoConnect, Reset, Report, Receive, Main,
                shared, att, hist
  <2>2. CASE MainStep
    BY <2>2 DEF MainStep, Call, Main, shared, att, hist, Ack, Erase, ApPreStop, ApScanMode,
                ApScanStart, ApScanArm, ApScan, ApNet, ApMode, ApStart, ApArm, ApServe, StopHttp,
                StopWifi, AutoPwd, AutoMode, AutoCfg, AutoStart, AutoArm, AutoClear,
                AutoTimeout, AutoOk, AutoFail, NoCredReply
  <2> QED BY <2>1, <2>2
<1>1. CASE Command \/ Ack \/ Erase \/ ApServe \/ StopHttp \/ AutoPwd \/ AutoClear \/ AutoTimeout
           \/ AutoOk \/ NoCredReply
  <2>1. UNCHANGED drv
    BY <1>1 DEF Command, StartAp, StopAp, Clear, AutoConnect, Reset, Report, Ack, Erase, ApServe,
                StopHttp, AutoPwd, AutoClear, AutoTimeout, AutoOk, NoCredReply
  <2> QED BY <1>0, <2>1, CallsDoNotJoin
<1>2. CASE ApPreStop \/ ApScan \/ StopWifi \/ AutoFail
  BY <1>0, <1>2, CallsDoNotJoin DEF ApPreStop, ApScan, StopWifi, AutoFail
<1>3. CASE ApScanMode \/ ApMode \/ AutoMode
  BY <1>0, <1>3, CallsDoNotJoin DEF ApScanMode, ApMode, AutoMode, Modes
<1>4. CASE ApScanStart \/ ApStart \/ AutoStart
  BY <1>0, <1>4, CallsDoNotJoin DEF ApScanStart, ApStart, AutoStart
<1>5. CASE ApScanArm \/ ApArm \/ AutoArm \/ ApNet
  BY <1>0, <1>5, CallsDoNotJoin DEF ApScanArm, ApArm, AutoArm, ApNet
<1>6. CASE AutoCfg
  BY <1>0, <1>6, CallsDoNotJoin DEF AutoCfg, ManagerTypeOK
<1> QED
  BY <1>1, <1>2, <1>3, <1>4, <1>5, <1>6 DEF MainStep

-------------------------------------------------------------------------------
(* An attempt that was alone hears only of its own link. *)

OwnNews ==
  /\ alone /\ tpc \in Preparing =>
       /\ sta.phase = "idle"
       /\ \A e \in Posted(evq) : e.type # "GOT_IP"
       /\ "CONNECTED" \notin bits
  /\ alone /\ tpc \in Joining =>
       /\ sta.phase # "idle" => sta.cred = pending
       /\ \A e \in Posted(evq) : e.type = "GOT_IP" => e.cred = pending
       /\ "CONNECTED" \in bits => pending \in online
  /\ AloneSavesVerified

(* Steps that neither join nor move the attempt. *)
LEMMA NoJoinKeepsOwnNews ==
  ASSUME OwnNews, NoJoin, UNCHANGED <<tpc, pending, alone, online>>, bits' = bits \/ bits' = {}
  PROVE  OwnNews'
BY EventsTyped DEF OwnNews, NoJoin, AloneSavesVerified, SavesVerified

LEMMA TaskKeepsOwnNews ==
  ASSUME TypeOK, OwnInv, OwnNews, TaskStep
  PROVE  OwnNews'
<1> ManagerTypeOK /\ DriverTypeOK
  BY DEF TypeOK
<1> USE DEF OwnNews, Preparing, Joining, AloneSavesVerified, SavesVerified, Task, TaskCall, shared,
            att, hist
<1>1. CASE TaskBegin \/ TaskFlags \/ TaskPublish \/ TaskFail \/ TaskExit
  BY <1>1 DEF TaskBegin, TaskFlags, TaskPublish, TaskFail, TaskExit
<1>2. CASE TaskTimeout \/ TaskSaveSsid \/ TaskSavePwd
  BY <1>2 DEF TaskTimeout, TaskSaveSsid, TaskSavePwd
<1>3. CASE TaskClear
  <2>1. alone' = NoLinkTold /\ tpc' = "mode" /\ bits' = {} /\ UNCHANGED <<sta, evq>>
    BY <1>3 DEF TaskClear, drv
  <2>2. NoLinkTold => sta.phase = "idle" /\ \A e \in Posted(evq) : e.type # "GOT_IP"
    BY DEF NoLinkTold, Posted
  <2> QED BY <2>1, <2>2
<1>4. CASE TaskMode \/ TaskConfig \/ TaskDhcp
  <2>1. NoJoin
    BY <1>4, CallsDoNotJoin DEF TaskMode, TaskConfig, TaskDhcp, Modes, ManagerTypeOK
  <2>2. UNCHANGED <<pending, alone, online, bits>> /\ tpc \in Preparing /\ tpc' \in Preparing
    BY <1>4 DEF TaskMode, TaskConfig, TaskDhcp
  <2> QED BY <2>1, <2>2, EventsTyped DEF NoJoin
<1>5. CASE TaskConnect
  <2>1. /\ tpc = "settle" /\ tpc' = "enter" /\ EspWifiConnect(evq) /\ staCfg = pending
        /\ UNCHANGED <<pending, alone, online, bits>>
    BY <1>5 DEF TaskConnect, OwnInv, AttemptOwns
  <2>2. sta.phase = "idle" => evq' = evq /\ (sta'.phase # "idle" => sta'.cred = staCfg)
    BY <2>1 DEF EspWifiConnect
  <2> QED BY <2>1, <2>2
<1>6. CASE TaskEnter
  <2>1. /\ tpc = "enter" /\ tpc' = (IF bits = {} THEN "wait" ELSE Outcome(bits)) /\ bits' = {}
        /\ UNCHANGED <<sta, evq, pending, alone, online>>
    BY <1>6 DEF TaskEnter, SetPromiscuousCb
  <2>2. alone /\ Outcome(bits) = "saveSsid" => pending \in online
    BY <2>1 DEF Outcome
  <2>3. Outcome(bits) \in {"saveSsid", "fail"}
    BY DEF Outcome
  <2> QED BY <2>1, <2>2, <2>3
<1> QED
  BY <1>1, <1>2, <1>3, <1>4, <1>5, <1>6 DEF TaskStep

LEMMA EventKeepsOwnNews ==
  ASSUME TypeOK, OwnInv, OwnNews, EventStep
  PROVE  OwnNews'
<1> USE DEF OwnNews, Preparing, Joining, AloneSavesVerified, SavesVerified
<1>1. /\ Head(evq) \in Posted(evq) /\ Posted(Tail(evq)) \subseteq Posted(evq)
      /\ Tail(evq) \in Seq(Event)
  BY PostedFacts, QueueTyped
     DEF EventStep, OnStaStart, OnGotIp, OnDisconnected, Handling, TypeOK, DriverTypeOK
<1>2. CASE OnStaStart
  <2>1. UNCHANGED <<tpc, pending, alone, online, bits>>
    BY <1>2 DEF OnStaStart, shared, att, hist
  <2>2. CASE inApMode
    <3>1. evq' = Tail(evq) /\ sta' = sta
      BY <1>2, <2>2 DEF OnStaStart
    <3> QED BY <1>1, <2>1, <3>1
  <2>3. CASE ~inApMode
    <3>1. tpc \notin Preparing
      BY <2>3 DEF OwnInv, AttemptOwns
    <3>2. tpc \in Joining => staCfg = pending
      BY DEF OwnInv, AttemptOwns
    <3>3. /\ sta' = sta \/ sta'.cred = staCfg
          /\ evq' = Tail(evq) \/ evq' = Append(Tail(evq), Disconnected)
      BY <1>2, <2>3 DEF OnStaStart, EspWifiConnect
    <3>4. Posted(evq') \subseteq Posted(evq) \cup {Disconnected}
      <4>1. Posted(Append(Tail(evq), Disconnected)) = Posted(Tail(evq)) \cup {Disconnected}
        BY <1>1, PostedNews, EventsTyped
      <4> QED BY <1>1, <3>3, <4>1, Zenon
    <3>5. \A e \in Posted(evq') : e.type = "GOT_IP" => e \in Posted(evq)
      BY <3>4, EventsTyped
    <3> QED BY <2>1, <3>1, <3>2, <3>3, <3>5
  <2> QED BY <2>2, <2>3
<1>3. CASE OnGotIp
  <2>1. /\ Head(evq).type = "GOT_IP" /\ evq' = Tail(evq)
        /\ online' = online \cup {Head(evq).cred}
        /\ UNCHANGED <<sta, pending, alone>>
        /\ bits' \in {{}, bits \cup {"CONNECTED"}}
        /\ \/ tpc' = tpc
           \/ tpc = "wait" /\ tpc' \in {"saveSsid", "fail"}
    BY <1>3 DEF OnGotIp, Handling, SetBit, Outcome, att, hist
  <2>2. alone => tpc \notin Preparing
    BY <1>1, <2>1
  <2>3. alone /\ tpc \in Joining => pending \in online'
    BY <1>1, <2>1
  <2> QED BY <1>1, <2>1, <2>2, <2>3
<1>4. CASE OnDisconnected
  <2>1. /\ evq' = Tail(evq) /\ UNCHANGED <<sta, pending, alone, online>>
        /\ bits' \in {{}, bits \cup {"FAILED"}}
        /\ \/ tpc' = tpc
           \/ tpc = "wait" /\ tpc' = Outcome(bits \cup {"FAILED"})
    BY <1>4 DEF OnDisconnected, SetBit, att, hist
  <2>2. "CONNECTED" \in bits' => "CONNECTED" \in bits
    BY <2>1
  <2>3. /\ Outcome(bits \cup {"FAILED"}) \in {"saveSsid", "fail"}
        /\ Outcome(bits \cup {"FAILED"}) = "saveSsid" => "CONNECTED" \in bits
    BY DEF Outcome
  <2> QED BY <1>1, <2>1, <2>2, <2>3
<1> QED BY <1>2, <1>3, <1>4 DEF EventStep

LEMMA OutsideKeepsOwnNews ==
  ASSUME TypeOK, OwnInv, OwnNews, HttpStep \/ AirStep \/ AirLoss \/ Reboot
  PROVE  OwnNews'
<1> USE DEF OwnNews, Preparing, Joining, AloneSavesVerified, SavesVerified
<1>1. CASE HttpStep
  <2>1. /\ UNCHANGED <<sta, evq, alone, online, bits>>
        /\ \/ tpc' = tpc /\ (tpc # "none" => pending' = pending)
           \/ tpc' = "delay"
    BY <1>1 DEF HttpStep, SubmitStart, SubmitIgnored, SubmitNoTask, shared, hist, drv
  <2> QED BY <2>1
<1>2. CASE AirStep \/ AirLoss
  <2>1. UNCHANGED <<tpc, pending, alone, online, bits>>
    BY <1>2 DEF AirStep, AirJoin, AirReject, AirLoss, firmware, shared, att, hist
  <2>2. Associate \/ Lease \/ \E P : Lose(P)
    BY <1>2 DEF AirStep, AirJoin, AirReject, AirLoss
  <2>3. sta \in Link /\ evq \in Seq(Event)
    BY DEF TypeOK, DriverTypeOK
  <2>4. CASE Associate
    <3>1. evq' = evq /\ sta.phase # "idle" /\ sta'.cred = sta.cred
      BY <2>3, <2>4 DEF Associate, Link
    <3> QED BY <2>1, <3>1
  <2>5. CASE Lease
    <3>1. /\ evq' = Append(evq, GotIp(sta.cred)) /\ sta.phase # "idle" /\ sta'.cred = sta.cred
          /\ GotIp(sta.cred) \in Event /\ GotIp(sta.cred).cred = sta.cred
      BY <2>3, <2>5 DEF Lease, Link, GotIp, Event
    <3>2. Posted(evq') = Posted(evq) \cup {GotIp(sta.cred)}
      BY <2>3, <3>1, PostedFacts
    <3> QED BY <2>1, <3>1, <3>2
  <2>6. CASE \E P : Lose(P)
    <3>1. evq' = Append(evq, Disconnected) /\ sta' = Idle
      BY <2>6 DEF Lose
    <3>2. Posted(evq') = Posted(evq) \cup {Disconnected}
      BY <2>3, <3>1, PostedFacts, EventsTyped
    <3> QED BY <2>1, <3>1, <3>2, EventsTyped
  <2> QED BY <2>2, <2>4, <2>5, <2>6
<1>3. CASE Reboot
  BY <1>3 DEF Reboot
<1> QED BY <1>1, <1>2, <1>3

LEMMA OwnNewsHolds == ASSUME Cooperative PROVE Spec => []OwnNews
<1>1. Init => OwnNews
  BY DEF Init, OwnNews, Preparing, Joining, AloneSavesVerified, SavesVerified
<1>2. TypeOK /\ OwnInv /\ OwnNews /\ [Next]_vars => OwnNews'
  <2> SUFFICES ASSUME TypeOK, OwnInv, OwnNews, [Next]_vars PROVE OwnNews'
    OBVIOUS
  <2>1. CASE UNCHANGED vars
    BY <2>1 DEF vars, drv, shared, att, hist, OwnNews, AloneSavesVerified, SavesVerified
  <2>2. CASE MainStep \/ Command
    BY <2>2, MainDoesNotJoin, NoJoinKeepsOwnNews
  <2> QED
    BY <2>1, <2>2, TaskKeepsOwnNews, EventKeepsOwnNews, OutsideKeepsOwnNews
       DEF Next, PollNothing
<1> QED
  BY <1>1, <1>2, TypeCorrect, OwnInvHolds, PTL DEF Spec

(* With a cooperative STM32, an attempt that found no link and no news of one
   when it cleared the event bits saves only credentials that obtained an
   address: whatever the timeouts, the air and the tasks do after that. *)
THEOREM AloneIsVerified == ASSUME Cooperative PROVE Spec => []AloneSavesVerified
<1>1. OwnNews => AloneSavesVerified
  BY DEF OwnNews
<1> QED
  BY <1>1, OwnNewsHolds, PTL

-------------------------------------------------------------------------------
(* PBKDF2.  With the priorities of the tasks (Prompt) an event is handled
   before main or the task moves on, so a STA_START never finds the flags of a
   later step, and an attempt that was alone has its address or has lost its
   link by the time it restores the short cut. *)

StartPosted   == \E e \in Posted(evq) : e.type = "STA_START"
AddressPosted == \E e \in Posted(evq) : e.type = "GOT_IP"

SkipInv ==
  /\ tpc \in {"clear"} \cup Preparing \cup Joining => ~skip
  /\ StartPosted => (inApMode \/ ~skip) /\ tpc \in {"none", "delay", "config"}
  /\ alone /\ tpc \in Joining /\ ("CONNECTED" \in bits \/ AddressPosted)
       => sta.phase \in {"up", "idle"}
  /\ alone /\ tpc \in {"saveSsid", "savePwd", "publish"} => sta.phase \in {"up", "idle"}
  /\ SkipOffForJoin

LEMMA NothingPosted == evq = <<>> => ~StartPosted /\ ~AddressPosted
BY DEF StartPosted, AddressPosted, Posted

LEMMA OnePosted ==
  /\ evq' = <<>> => ~StartPosted' /\ ~AddressPosted'
  /\ evq' = <<StaStart>> => ~AddressPosted'
  /\ evq' = <<Disconnected>> => ~StartPosted' /\ ~AddressPosted'
<1>1. Posted(<<>>) = {} /\ Posted(<<StaStart>>) = {StaStart}
      /\ Posted(<<Disconnected>>) = {Disconnected}
  BY PostedFacts, QueueTyped, EventsTyped
<1>2. StaStart.type # "GOT_IP" /\ Disconnected.type \notin {"STA_START", "GOT_IP"}
  BY EventsTyped
<1>3. ASSUME evq' = <<>>
      PROVE  ~StartPosted' /\ ~AddressPosted'
  BY <1>1, <1>3 DEF StartPosted, AddressPosted
<1>4. ASSUME evq' = <<StaStart>>
      PROVE  ~AddressPosted'
  BY <1>1, <1>2, <1>4 DEF AddressPosted
<1>5. ASSUME evq' = <<Disconnected>>
      PROVE  ~StartPosted' /\ ~AddressPosted'
  BY <1>1, <1>2, <1>5 DEF StartPosted, AddressPosted
<1> QED BY <1>3, <1>4, <1>5

(* What main and the task post when they find the queue empty. *)
LEMMA FirstPosts ==
  ASSUME evq = <<>>
  PROVE  /\ EspWifiStop => evq' \in {<<>>, <<Disconnected>>}
         /\ EspWifiStart => evq' \in {<<>>, <<StaStart>>}
         /\ \A m : EspWifiSetMode(m) => /\ evq' \in {<<>>, <<StaStart>>, <<Disconnected>>}
                                        /\ ~started => evq' = <<>>
         /\ EspWifiConnect(evq) => evq' \in {<<>>, <<Disconnected>>}
<1>1. /\ <<>> \o <<>> = <<>> /\ <<>> \o <<StaStart>> = <<StaStart>>
      /\ <<>> \o <<Disconnected>> = <<Disconnected>>
      /\ Append(<<>>, Disconnected) = <<Disconnected>>
  OBVIOUS
<1> QED
  BY <1>1 DEF EspWifiStop, EspWifiStart, EspWifiSetMode, EspWifiConnect, LinkDown, StaOn

(* With Prompt, main and the task move only when the queue is empty. *)
LEMMA MainFindsEmpty ==
  ASSUME Prompt, MainStep \/ Command
  PROVE  evq = <<>>
<1> USE DEF Turn, Main, Call
<1>1. CASE Command
  BY <1>1 DEF Command, Receive, StartAp, StopAp, Clear, AutoConnect, Reset, Report
<1>2. CASE MainStep
  BY <1>2 DEF MainStep, Ack, Erase, ApPreStop, ApScanMode, ApScanStart, ApScanArm, ApScan, ApNet,
              ApMode, ApStart, ApArm, ApServe, StopHttp, StopWifi, AutoPwd, AutoMode, AutoCfg,
              AutoStart, AutoArm, AutoClear, AutoTimeout, AutoOk, AutoFail, NoCredReply
<1> QED BY <1>1, <1>2

LEMMA TaskFindsEmpty ==
  ASSUME Prompt, TaskStep
  PROVE  evq = <<>>
BY DEF TaskStep, Turn, Task, TaskCall, TaskBegin, TaskFlags, TaskClear, TaskMode, TaskConfig,
       TaskDhcp, TaskConnect, TaskEnter, TaskTimeout, TaskSaveSsid, TaskSavePwd, TaskPublish,
       TaskFail, TaskExit

(* A STA_START is posted by start_ap_mode, in AP mode, or by connect_from_nvs,
   which turns the short cut off; neither runs beside an attempt. *)
LEMMA MainStarts ==
  ASSUME Prompt, OwnInv, MainStep \/ Command
  PROVE  /\ StartPosted' => (inApMode' \/ ~skip') /\ tpc' = "none"
         /\ skip' = skip \/ ~skip' \/ sta'.phase = "idle"
<1>1. evq = <<>>
  BY MainFindsEmpty
<1> USE DEF OwnInv, CoopInv, ApAlone, AttemptOwns, ApFlag, ApPcs, AutoPcs, Call, Main, shared
<1>2. CASE Command
  <2>1. evq' = evq /\ (skip' = skip \/ ~skip')
    BY <1>2 DEF Command, StartAp, StopAp, Clear, AutoConnect, Reset, Report, drv
  <2> QED BY <1>1, <2>1, OnePosted
<1>3. CASE Ack \/ Erase \/ ApServe \/ StopHttp \/ AutoPwd \/ AutoClear \/ AutoTimeout \/ AutoOk
           \/ NoCredReply \/ ApScanArm \/ ApArm \/ AutoArm \/ ApNet \/ AutoCfg
  <2>1. evq' = evq /\ skip' = skip
    BY <1>3 DEF Ack, Erase, ApServe, StopHttp, AutoPwd, AutoClear, AutoTimeout, AutoOk,
                NoCredReply, ApScanArm, ApArm, AutoArm, ApNet, AutoCfg, drv,
                SetPromiscuousCb, DhcpcStop, EspWifiSetConfigSta
  <2> QED BY <1>1, <2>1, OnePosted
<1>4. CASE ApPreStop \/ ApScan \/ StopWifi \/ AutoFail
  <2>1. EspWifiStop /\ skip' = skip
    BY <1>4 DEF ApPreStop, ApScan, StopWifi, AutoFail
  <2> QED BY <1>1, <2>1, FirstPosts, OnePosted
<1>5. CASE AutoMode
  <2>1. EspWifiSetMode("STA") /\ ~started /\ skip' = skip
    BY <1>5 DEF AutoMode
  <2> QED BY <1>1, <2>1, FirstPosts, OnePosted
<1>6. CASE ApScanMode \/ ApScanStart \/ ApMode \/ ApStart
  <2>1. mpc \in ApPcs /\ inApMode' = inApMode /\ tpc' = tpc
    BY <1>6 DEF ApScanMode, ApScanStart, ApMode, ApStart
  <2>2. skip' = skip \/ (sta' = sta /\ mpc = "apStart")
    BY <1>6 DEF ApScanMode, ApScanStart, ApMode, ApStart, EspWifiStart
  <2> QED BY <2>1, <2>2
<1>7. CASE AutoStart
  BY <1>7 DEF AutoStart
<1> QED
  BY <1>2, <1>3, <1>4, <1>5, <1>6, <1>7 DEF MainStep

LEMMA MainKeepsSkip ==
  ASSUME Prompt, TypeOK, OwnInv, SkipInv, MainStep \/ Command
  PROVE  SkipInv'
<1>1. /\ StartPosted' => (inApMode' \/ ~skip') /\ tpc' = "none"
      /\ skip' = skip \/ ~skip' \/ sta'.phase = "idle"
  BY MainStarts
<1>2. /\ sta' = sta \/ sta' = Idle
      /\ UNCHANGED <<tpc, alone>> /\ (bits' = bits \/ bits' = {})
      /\ AddressPosted' => AddressPosted
  BY MainDoesNotJoin DEF NoJoin, AddressPosted
<1>3. tpc # "none" => skip' = skip \/ ~skip'
  <2>1. CASE Command
    BY <2>1 DEF Command, StartAp, StopAp, Clear, AutoConnect, Reset, Report, shared
  <2>2. CASE MainStep /\ tpc # "none"
    BY <2>2 DEF MainStep, Call, Main, shared, Ack, Erase, ApPreStop, ApScanMode, ApScanStart,
                ApScanArm, ApScan, ApNet, ApMode, ApStart, ApArm, ApServe, StopHttp, StopWifi,
                AutoPwd, AutoMode, AutoCfg, AutoStart, AutoArm, AutoClear, AutoTimeout, AutoOk,
                AutoFail, NoCredReply, OwnInv, CoopInv, ApAlone, ApPcs
  <2> QED BY <2>1, <2>2
<1>4. sta'.phase = sta.phase \/ sta'.phase = "idle"
  BY <1>2, EventsTyped
<1> QED
  BY <1>1, <1>2, <1>3, <1>4 DEF SkipInv, SkipOffForJoin, Preparing, Joining

LEMMA TaskKeepsSkip ==
  ASSUME Prompt, TypeOK, OwnInv, OwnNews, SkipInv, TaskStep
  PROVE  SkipInv'
<1>1. evq = <<>> /\ ~StartPosted /\ ~AddressPosted
  BY TaskFindsEmpty, NothingPosted
<1>2. evq' = evq => ~StartPosted' /\ ~AddressPosted'
  BY <1>1, OnePosted
<1> USE DEF SkipInv, SkipOffForJoin, Preparing, Joining, Task, TaskCall, shared, att, hist
<1>3. CASE TaskBegin \/ TaskFlags \/ TaskFail \/ TaskExit \/ TaskTimeout
  <2>1. evq' = evq /\ sta' = sta
    BY <1>3 DEF TaskBegin, TaskFlags, TaskFail, TaskExit, TaskTimeout, drv
  <2> QED BY <1>2, <1>3, <2>1 DEF TaskBegin, TaskFlags, TaskFail, TaskExit, TaskTimeout
<1>4. CASE TaskSaveSsid \/ TaskSavePwd \/ TaskPublish
  <2>1. evq' = evq /\ sta' = sta
    BY <1>4 DEF TaskSaveSsid, TaskSavePwd, TaskPublish, drv
  <2> QED BY <1>2, <1>4, <2>1 DEF TaskSaveSsid, TaskSavePwd, TaskPublish
<1>5. CASE TaskClear
  <2>1. /\ evq' = evq /\ sta' = sta /\ skip' = skip /\ tpc' = "mode" /\ tpc = "clear"
        /\ alone' = NoLinkTold
    BY <1>5 DEF TaskClear, drv
  <2> QED BY <1>2, <2>1 DEF NoLinkTold
<1>6. CASE TaskMode
  <2>1. /\ tpc = "mode" /\ tpc' = "config" /\ UNCHANGED <<skip, inApMode, alone>> /\ inApMode
        /\ EspWifiSetMode("APSTA")
    BY <1>6 DEF TaskMode, OwnInv, AttemptOwns
  <2>2. sta' = sta
    BY <2>1 DEF EspWifiSetMode, HasSta
  <2> QED BY <2>1, <2>2
<1>7. CASE TaskConfig \/ TaskDhcp
  <2>1. evq' = evq /\ sta' = sta
    BY <1>7 DEF TaskConfig, TaskDhcp, EspWifiSetConfigSta, DhcpcStart
  <2> QED BY <1>2, <1>7, <2>1 DEF TaskConfig, TaskDhcp
<1>8. CASE TaskConnect
  <2>1. /\ tpc = "settle" /\ tpc' = "enter" /\ UNCHANGED <<skip, alone, bits>> /\ ~skip
        /\ EspWifiConnect(evq)
    BY <1>8 DEF TaskConnect
  <2>2. ~StartPosted' /\ ~AddressPosted'
    BY <1>1, <2>1, FirstPosts, OnePosted
  <2>3. alone => "CONNECTED" \notin bits
    BY <2>1 DEF OwnNews
  <2> QED BY <2>1, <2>2, <2>3
<1>9. CASE TaskEnter
  <2>1. /\ evq' = evq /\ sta' = sta /\ UNCHANGED <<skip, alone>> /\ tpc = "enter" /\ bits' = {}
        /\ tpc' = (IF bits = {} THEN "wait" ELSE Outcome(bits))
    BY <1>9 DEF TaskEnter, SetPromiscuousCb
  <2>2. /\ Outcome(bits) \in {"saveSsid", "fail"}
        /\ Outcome(bits) = "saveSsid" => "CONNECTED" \in bits
    BY DEF Outcome
  <2> QED BY <1>2, <2>1, <2>2
<1> QED
  BY <1>3, <1>4, <1>5, <1>6, <1>7, <1>8, <1>9 DEF TaskStep

LEMMA EventKeepsSkip ==
  ASSUME TypeOK, OwnInv, SkipInv, EventStep
  PROVE  SkipInv'
<1> USE DEF SkipInv, SkipOffForJoin, Preparing, Joining
<1>1. /\ Head(evq) \in Posted(evq) /\ Posted(Tail(evq)) \subseteq Posted(evq)
      /\ Tail(evq) \in Seq(Event)
  BY PostedFacts, QueueTyped
     DEF EventStep, OnStaStart, OnGotIp, OnDisconnected, Handling, TypeOK, DriverTypeOK
<1>2. evq' = Tail(evq) => (StartPosted' => StartPosted) /\ (AddressPosted' => AddressPosted)
  BY <1>1 DEF StartPosted, AddressPosted
<1>3. UNCHANGED <<skip, inApMode, alone>>
  BY DEF EventStep, OnStaStart, OnGotIp, OnDisconnected, shared, hist
<1>4. CASE OnStaStart
  <2>1. StartPosted /\ UNCHANGED <<tpc, bits>>
    BY <1>1, <1>4 DEF OnStaStart, Handling, StartPosted, shared
  <2>2. tpc \in {"none", "delay", "config"} /\ (inApMode \/ ~skip)
    BY <2>1
  <2>3. CASE inApMode
    BY <1>2, <1>3, <1>4, <2>1, <2>2, <2>3 DEF OnStaStart
  <2>4. CASE ~inApMode
    <3>1. tpc # "config" /\ ~skip
      BY <2>2, <2>4 DEF OwnInv, AttemptOwns
    <3> QED BY <1>3, <2>1, <2>2, <3>1
  <2> QED BY <2>3, <2>4
<1>5. CASE OnGotIp
  <2>1. /\ AddressPosted /\ evq' = Tail(evq) /\ sta' = sta
        /\ \/ tpc' = tpc
           \/ tpc = "wait" /\ tpc' \in {"saveSsid", "fail"}
    BY <1>1, <1>5 DEF OnGotIp, Handling, SetBit, Outcome, AddressPosted
  <2> QED BY <1>2, <1>3, <2>1
<1>6. CASE OnDisconnected
  <2>1. /\ evq' = Tail(evq) /\ sta' = sta
        /\ bits' \in {{}, bits \cup {"FAILED"}}
        /\ \/ tpc' = tpc
           \/ tpc = "wait" /\ tpc' = Outcome(bits \cup {"FAILED"})
    BY <1>6 DEF OnDisconnected, SetBit
  <2>2. "CONNECTED" \in bits' => "CONNECTED" \in bits
    BY <2>1
  <2>3. /\ Outcome(bits \cup {"FAILED"}) \in {"saveSsid", "fail"}
        /\ Outcome(bits \cup {"FAILED"}) = "saveSsid" => "CONNECTED" \in bits
    BY DEF Outcome
  <2> QED BY <1>2, <1>3, <2>1, <2>2, <2>3
<1> QED BY <1>4, <1>5, <1>6 DEF EventStep

LEMMA OutsideKeepsSkip ==
  ASSUME TypeOK, SkipInv, HttpStep \/ AirStep \/ AirLoss \/ Reboot
  PROVE  SkipInv'
<1> USE DEF SkipInv, SkipOffForJoin, Preparing, Joining
<1>1. evq' = evq => StartPosted' = StartPosted /\ AddressPosted' = AddressPosted
  BY DEF StartPosted, AddressPosted
<1>2. CASE HttpStep
  <2>1. /\ UNCHANGED <<sta, evq, alone, bits, skip, inApMode>>
        /\ tpc' = tpc \/ (tpc = "none" /\ tpc' = "delay")
    BY <1>2 DEF HttpStep, SubmitStart, SubmitIgnored, SubmitNoTask, shared, hist, drv
  <2> QED BY <1>1, <2>1
<1>3. CASE AirStep \/ AirLoss
  <2>1. UNCHANGED <<tpc, alone, bits, skip, inApMode>>
    BY <1>3 DEF AirStep, AirJoin, AirReject, AirLoss, firmware, shared, hist
  <2>2. Associate \/ Lease \/ \E P : Lose(P)
    BY <1>3 DEF AirStep, AirJoin, AirReject, AirLoss
  <2>3. sta \in Link /\ evq \in Seq(Event)
    BY DEF TypeOK, DriverTypeOK
  <2>4. CASE Associate
    <3>1. evq' = evq /\ sta.phase = "joining" /\ sta'.phase = "linked"
      BY <2>3, <2>4 DEF Associate, Link
    <3> QED BY <1>1, <2>1, <3>1
  <2>5. CASE Lease
    <3>1. /\ evq' = Append(evq, GotIp(sta.cred)) /\ sta'.phase = "up"
          /\ GotIp(sta.cred) \in Event /\ GotIp(sta.cred).type = "GOT_IP"
      BY <2>3, <2>5 DEF Lease, Link, GotIp, Event
    <3>2. Posted(evq') = Posted(evq) \cup {GotIp(sta.cred)}
      BY <2>3, <3>1, PostedNews
    <3>3. StartPosted' => StartPosted
      BY <3>1, <3>2 DEF StartPosted
    <3> QED BY <2>1, <3>1, <3>3
  <2>6. CASE \E P : Lose(P)
    <3>1. evq' = Append(evq, Disconnected) /\ sta' = Idle
      BY <2>6 DEF Lose
    <3>2. Posted(evq') = Posted(evq) \cup {Disconnected}
      BY <2>3, <3>1, PostedNews, EventsTyped
    <3>3. StartPosted' => StartPosted
      BY <3>2, EventsTyped DEF StartPosted
    <3> QED BY <2>1, <3>1, <3>3, EventsTyped
  <2> QED BY <2>2, <2>4, <2>5, <2>6
<1>4. CASE Reboot
  <2>1. evq' = <<>> /\ sta' = Idle /\ tpc' = "none"
    BY <1>4 DEF Reboot
  <2> QED BY <2>1, OnePosted, EventsTyped
<1> QED BY <1>2, <1>3, <1>4

LEMMA SkipInvHolds == ASSUME Cooperative, Prompt PROVE Spec => []SkipInv
<1>1. Init => SkipInv
  BY NothingPosted, EventsTyped DEF Init, SkipInv, SkipOffForJoin, Preparing, Joining
<1>2. TypeOK /\ OwnInv /\ OwnNews /\ SkipInv /\ [Next]_vars => SkipInv'
  <2> SUFFICES ASSUME TypeOK, OwnInv, OwnNews, SkipInv, [Next]_vars PROVE SkipInv'
    OBVIOUS
  <2>1. CASE UNCHANGED vars
    BY <2>1 DEF vars, drv, shared, hist, SkipInv, SkipOffForJoin, StartPosted, AddressPosted
  <2> QED
    BY <2>1, MainKeepsSkip, TaskKeepsSkip, EventKeepsSkip, OutsideKeepsSkip
       DEF Next, PollNothing
<1> QED
  BY <1>1, <1>2, TypeCorrect, OwnInvHolds, OwnNewsHolds, PTL DEF Spec

(* With a cooperative STM32 and the priorities of the tasks, a join computes
   PBKDF2 in full, unless it is the unfinished join of an attempt that was not
   alone, and an attempt waits with a DHCP client.  Nothing is said of the DHCP
   client of AUTO_CONNECT, which it may lack. *)
THEOREM AttemptsCanSucceed == ASSUME Cooperative, Prompt PROVE Spec => []AttemptCanSucceed
<1>1. SkipInv /\ AttemptHasDhcp => AttemptCanSucceed
  BY DEF SkipInv, AttemptCanSucceed
<1> QED
  BY <1>1, SkipInvHolds, AttemptKeepsDhcp, PTL

-------------------------------------------------------------------------------
(* The short cut in the open AP.  Only STOP_AP and an attempt switch it off under
   a running AP: start_ap_mode and connect_from_nvs start the driver in a mode
   that they have set while it was stopped. *)

Undecided == tpc \notin {"none", "delay", "exit"}

ApSkips ==
  /\ ApUp /\ ~skip => mpc \in {"stopHttp", "stopWifi"} \/ result = 2 \/ Undecided
  /\ mpc \in {"autoCfg", "autoStart", "apScanStart"} => mode = "STA"
  /\ mpc \in {"apScanMode", "apNet", "apMode", "apStart"} => ~started

LEMMA MainKeepsApSkips ==
  ASSUME Cooperative, OwnInv, ApSkips, Command \/ MainStep
  PROVE  ApSkips'
<1> USE DEF ApSkips, Undecided, ApUp, HasAp, OwnInv, ApFlag, CoopInv, ApAlone, ApPcs, AutoPcs, Call, Main,
            shared, att
<1>1. CASE Command
  <2>1. UNCHANGED <<drv, att, tpc>> /\ mpc = "idle"
    BY <1>1, HostWaits DEF Command, StartAp, StopAp, Clear, AutoConnect, Reset, Report
  <2>2. mpc' = "stopHttp" \/ skip' = skip
    BY <1>1, HostWaits DEF Command, StartAp, StopAp, Clear, AutoConnect, Reset, Report
  <2>3. mpc' \in {"apStop", "stopHttp", "noCred", "autoPwd", "erase", "restart", "ack"}
    BY <1>1, HostWaits DEF Command
  <2> QED
    BY <2>1, <2>2, <2>3 DEF drv
<1>2. CASE Ack \/ Erase \/ AutoPwd \/ AutoClear \/ AutoTimeout \/ AutoOk \/ NoCredReply
           \/ ApServe \/ StopHttp
  BY <1>2 DEF Ack, Erase, AutoPwd, AutoClear, AutoTimeout, AutoOk, NoCredReply, ApServe,
              StopHttp, drv
<1>3. CASE ApPreStop \/ ApScan \/ StopWifi \/ AutoFail
  BY <1>3 DEF ApPreStop, ApScan, StopWifi, AutoFail, EspWifiStop
<1>4. CASE ApScanMode \/ ApMode \/ AutoMode
  BY <1>4 DEF ApScanMode, ApMode, AutoMode, EspWifiSetMode
<1>5. CASE ApScanStart \/ ApStart \/ AutoStart
  BY <1>5 DEF ApScanStart, ApStart, AutoStart, EspWifiStart
<1>6. CASE ApScanArm \/ ApArm \/ AutoArm
  BY <1>6 DEF ApScanArm, ApArm, AutoArm, SetPromiscuousCb
<1>7. CASE ApNet \/ AutoCfg
  BY <1>7 DEF ApNet, DhcpcStop, AutoCfg, EspWifiSetConfigSta
<1> QED
  BY <1>1, <1>2, <1>3, <1>4, <1>5, <1>6, <1>7 DEF MainStep

LEMMA TaskKeepsApSkips ==
  ASSUME OwnInv, ApSkips, TaskStep
  PROVE  ApSkips'
<1>1. mpc' = mpc /\ mpc \notin ApPcs \cup AutoPcs
  BY DEF TaskStep, Task, TaskCall, TaskBegin, TaskFlags, TaskClear, TaskMode, TaskConfig,
         TaskDhcp, TaskConnect, TaskEnter, TaskTimeout, TaskSaveSsid, TaskSavePwd,
         TaskPublish, TaskFail, TaskExit, OwnInv, CoopInv, AttemptOwns, ApAlone
<1>2. CASE TaskPublish \/ TaskFail \/ TaskExit
  BY <1>1, <1>2 DEF TaskPublish, TaskFail, TaskExit, Task, TaskCall, shared, att, drv, ApSkips,
     Undecided, ApUp, ApPcs, AutoPcs
<1>3. CASE ~(TaskPublish \/ TaskFail \/ TaskExit)
  <2>1. tpc' \notin {"none", "delay", "exit"}
    BY <1>3 DEF TaskStep, Task, TaskCall, TaskBegin, TaskFlags, TaskClear, TaskMode, TaskConfig,
         TaskDhcp, TaskConnect, TaskEnter, TaskTimeout, TaskSaveSsid, TaskSavePwd, Outcome
  <2> QED
    BY <1>1, <2>1 DEF ApSkips, Undecided, ApPcs, AutoPcs
<1> QED BY <1>2, <1>3

LEMMA RestKeepsApSkips ==
  ASSUME ApSkips, EventStep \/ HttpStep \/ AirStep \/ AirLoss \/ Reboot
  PROVE  ApSkips'
<1> USE DEF ApSkips, Undecided, ApUp
<1>1. CASE EventStep
  <2>1. UNCHANGED <<mode, started, skip, result>>
    BY <1>1 DEF EventStep, OnStaStart, OnGotIp, OnDisconnected, EspWifiConnect, shared, att
  <2>2. /\ mpc' = mpc \/ (mpc' \in {"autoOk", "autoFail"} /\ mpc = "autoWait")
        /\ tpc' = tpc \/ (tpc' \in {"saveSsid", "fail"} /\ tpc = "wait")
    BY <1>1 DEF EventStep, OnStaStart, OnGotIp, OnDisconnected, SetBit, Outcome
  <2> QED BY <2>1, <2>2
<1>2. CASE HttpStep
  <2>1. UNCHANGED <<drv, skip, result, mpc>> /\ (tpc' = tpc \/ (tpc = "none" /\ tpc' = "delay"))
    BY <1>2 DEF HttpStep, SubmitStart, SubmitIgnored, SubmitNoTask, MaySubmit, shared
  <2> QED BY <2>1 DEF drv
<1>3. CASE AirStep \/ AirLoss
  BY <1>3 DEF AirStep, AirJoin, AirReject, AirLoss, firmware, shared, att, Associate, Lease, Lose
<1>4. CASE Reboot
  BY <1>4 DEF Reboot
<1> QED BY <1>1, <1>2, <1>3, <1>4

(* With a cooperative STM32 an open AP with nothing under way has the short cut of
   PBKDF2, unless its last attempt has failed. *)
THEOREM OpenApsSkip == ASSUME Cooperative PROVE Spec => []OpenApSkips
<1>1. Init => ApSkips
  BY DEF Init, ApSkips, ApUp
<1>2. OwnInv /\ ApSkips /\ [Next]_vars => ApSkips'
  <2> SUFFICES ASSUME OwnInv, ApSkips, [Next]_vars PROVE ApSkips'
    OBVIOUS
  <2>1. CASE UNCHANGED vars
    BY <2>1 DEF vars, drv, shared, att, ApSkips, Undecided, ApUp
  <2> QED
    BY <2>1, MainKeepsApSkips, TaskKeepsApSkips, RestKeepsApSkips DEF Next, PollNothing
<1>3. ApSkips => OpenApSkips
  BY DEF ApSkips, Undecided, OpenApSkips
<1> QED
  BY <1>1, <1>2, <1>3, OwnInvHolds, PTL DEF Spec

-------------------------------------------------------------------------------
(* AUTO_CONNECT.  With Prompt and a cooperative STM32 connect_from_nvs starts
   on a stopped driver with nothing queued, so what it hears while it waits is
   about the join it started: the queue is known to the event. *)

AutoJoining == sta = [phase |-> "joining", cred |-> rd]

AutoHears ==
  \/ evq = <<>> /\ sta.phase \in {"joining", "linked"} /\ sta.cred = rd
  \/ evq = <<GotIp(rd)>> /\ sta.phase = "up"
  \/ evq = <<GotIp(rd), Disconnected>> /\ sta.phase = "idle"
  \/ evq = <<Disconnected>> /\ sta.phase = "idle" /\ (faults > 0 \/ rd \notin GoodCreds)

AutoLost ==
  \/ evq = <<>> /\ sta.phase = "linked" /\ ~dhcpc
  \/ evq \in {<<>>, <<Disconnected>>} /\ sta.phase = "idle"

AutoInv ==
  /\ mpc \in {"autoPwd", "autoMode", "autoCfg", "autoStart"} => evq = <<>>
  /\ mpc \in {"autoCfg", "autoStart", "autoArm", "autoClear", "autoWait"} => mode = "STA"
  /\ mpc \in {"autoStart", "autoArm", "autoClear", "autoWait"} => staCfg = rd
  /\ mpc \in {"autoArm", "autoClear", "autoWait"} => started
  /\ mpc = "autoArm" => (evq = <<StaStart>> /\ sta.phase = "idle") \/ (evq = <<>> /\ AutoJoining)
  /\ mpc = "autoClear" => evq = <<>> /\ AutoJoining
  /\ mpc = "autoWait" => AutoHears
  /\ mpc = "autoFail" => AutoLost /\ AutoFailIsReal

(* Nothing but main, the event loop and the air acts while main runs
   connect_from_nvs. *)
LEMMA MainKeepsAuto ==
  ASSUME Cooperative, Prompt, TypeOK, LinkInv, OwnInv, AutoInv, MainStep \/ Command
  PROVE  AutoInv'
<1>0. evq = <<>>
  BY MainFindsEmpty
<1>1. connected <=> sta.phase = "up"
  BY <1>0 DEF LinkInv, Tells, Quiet
<1> USE DEF AutoInv, AutoFailIsReal, Call, Main
<1>2. CASE Command
  <2>1. evq' = <<>> /\ mpc' \in {"idle", "ack", "erase", "restart", "apStop", "stopHttp", "noCred", "autoPwd"}
    BY <1>0, <1>2 DEF Command, StartAp, StopAp, Clear, AutoConnect, Reset, Report, Receive, drv
  <2> QED BY <2>1
<1>3. CASE AutoPwd
  <2>1. evq' = <<>> /\ mpc' = "autoMode"
    BY <1>0, <1>3 DEF AutoPwd, drv
  <2> QED BY <2>1
<1>4. CASE AutoMode
  <2>1. evq' = <<>> /\ mpc' = "autoCfg" /\ mode' = "STA"
    <3>1. ~started
      BY <1>4 DEF AutoMode, OwnInv, ApFlag
    <3> QED BY <1>0, <1>4, <3>1, FirstPosts DEF AutoMode, EspWifiSetMode
  <2> QED BY <2>1
<1>5. CASE AutoCfg
  <2>1. /\ evq' = <<>> /\ mpc' = "autoStart" /\ mode' = "STA" /\ rd' = rd /\ staCfg' = rd
    BY <1>0, <1>5 DEF AutoCfg, EspWifiSetConfigSta, HasSta
  <2> QED BY <2>1
<1>6. CASE AutoStart
  <2>1. ~started /\ sta.phase = "idle"
    BY <1>6 DEF AutoStart, OwnInv, ApFlag
  <2>2. evq' = <<>> \o <<StaStart>> /\ sta' = sta /\ mode' = "STA" /\ staCfg' = rd /\ rd' = rd
        /\ started' /\ mpc' = "autoArm"
    BY <1>0, <1>6, <2>1 DEF AutoStart, EspWifiStart, HasSta
  <2>3. evq' = <<StaStart>>
    BY <2>2
  <2> QED BY <2>1, <2>2, <2>3
<1>7. CASE AutoArm
  <2>1. UNCHANGED <<evq, sta, mode, staCfg, started, rd>> /\ mpc = "autoArm" /\ mpc' = "autoClear"
    BY <1>7 DEF AutoArm, SetPromiscuousCb
  <2>2. <<StaStart>> # <<>>
    OBVIOUS
  <2> QED BY <1>0, <2>1, <2>2 DEF AutoJoining
<1>8. CASE AutoClear
  <2>1. UNCHANGED <<evq, sta, mode, staCfg, started, rd, faults>> /\ mpc = "autoClear"
        /\ mpc' = "autoWait"
    BY <1>8 DEF AutoClear, drv, used
  <2> QED BY <2>1 DEF AutoJoining, AutoHears
<1>9. CASE AutoTimeout
  <2>1. /\ UNCHANGED <<evq, sta, dhcpc, rd, connected, faults>> /\ Settled /\ mpc = "autoWait"
        /\ mpc' = "autoFail"
    BY <1>9 DEF AutoTimeout, drv, shared, used
  <2>2. sta.phase = "linked" /\ ~dhcpc
    BY <1>0, <2>1 DEF AutoHears, Settled
  <2> QED BY <1>0, <1>1, <2>1, <2>2 DEF AutoLost
<1>10. CASE \/ Ack \/ Erase \/ ApPreStop \/ ApScanMode \/ ApScanStart \/ ApScanArm \/ ApScan \/ ApNet
            \/ ApMode \/ ApStart \/ ApArm \/ ApServe \/ StopHttp \/ StopWifi \/ AutoOk
            \/ AutoFail \/ NoCredReply
  <2>1. mpc' \notin AutoPcs
    BY <1>10 DEF Ack, Erase, ApPreStop, ApScanMode, ApScanStart, ApScanArm, ApScan, ApNet, ApMode,
                 ApStart, ApArm, ApServe, StopHttp, StopWifi, AutoOk, AutoFail, NoCredReply,
                 AutoPcs
  <2> QED BY <2>1 DEF AutoPcs
<1> QED
  BY <1>2, <1>3, <1>4, <1>5, <1>6, <1>7, <1>8, <1>9, <1>10 DEF MainStep

LEMMA EventKeepsAuto ==
  ASSUME TypeOK, OwnInv, AutoInv, EventStep
  PROVE  AutoInv'
<1>1. UNCHANGED <<mode, started, staCfg, dhcpc, rd, faults>>
  BY DEF EventStep, OnStaStart, OnGotIp, OnDisconnected, EspWifiConnect, used
<1>2. evq # <<>>
  BY DEF EventStep, OnStaStart, OnGotIp, OnDisconnected, Handling
<1>3. mpc \in AutoPcs => ~inApMode
  BY DEF OwnInv, ApFlag
<1>4. /\ Tail(<<StaStart>>) = <<>> /\ Head(<<StaStart>>).type = "STA_START"
      /\ \A c : /\ Head(<<GotIp(c)>>).type = "GOT_IP"
                /\ Head(<<GotIp(c), Disconnected>>).type = "GOT_IP"
      /\ Head(<<Disconnected>>).type = "DISCONNECTED" /\ Tail(<<Disconnected>>) = <<>>
  BY DEF StaStart, GotIp, Disconnected
<1> USE DEF AutoInv, AutoFailIsReal
<1>5. CASE OnStaStart
  <2>1. mpc' = mpc /\ Head(evq).type = "STA_START" /\ connected' = connected
    BY <1>5 DEF OnStaStart, Handling, shared
  <2>2. mpc \notin {"autoPwd", "autoMode", "autoCfg", "autoStart", "autoClear", "autoWait", "autoFail"}
    BY <1>2, <1>4, <2>1 DEF AutoHears, AutoLost
  <2>3. CASE mpc = "autoArm"
    <3>1. evq = <<StaStart>> /\ sta.phase = "idle" /\ started /\ mode = "STA" /\ staCfg = rd
      BY <1>2, <2>3
    <3>2. EspWifiConnect(Tail(evq))
      BY <1>3, <1>5, <2>3 DEF OnStaStart, AutoPcs
    <3>3. evq' = <<>> /\ sta' = [phase |-> "joining", cred |-> rd]
      BY <1>4, <3>1, <3>2 DEF EspWifiConnect, StaOn, HasSta
    <3> QED BY <1>1, <2>1, <2>3, <3>1, <3>3 DEF AutoJoining
  <2> QED BY <2>1, <2>2, <2>3
<1>6. CASE OnGotIp
  <2>1. /\ Head(evq).type = "GOT_IP"
        /\ mpc' = IF mpc # "autoWait" THEN mpc ELSE "autoOk"
    BY <1>6 DEF OnGotIp, Handling, SetBit
  <2>2. mpc \notin {"autoPwd", "autoMode", "autoCfg", "autoStart", "autoArm", "autoClear", "autoFail"}
    BY <1>2, <1>4, <2>1 DEF AutoLost
  <2> QED BY <2>1, <2>2
<1>7. CASE OnDisconnected
  <2>1. /\ Head(evq).type = "DISCONNECTED" /\ evq' = Tail(evq) /\ sta' = sta /\ connected' = FALSE
        /\ mpc' = mpc \/ (mpc = "autoWait" /\ mpc' \in {"autoOk", "autoFail"})
    BY <1>7 DEF OnDisconnected, Handling, SetBit
  <2>2. mpc \notin {"autoPwd", "autoMode", "autoCfg", "autoStart", "autoArm", "autoClear"}
    BY <1>2, <1>4, <2>1
  <2>3. CASE mpc = "autoWait"
    <3>1. evq = <<Disconnected>> /\ sta.phase = "idle" /\ (faults > 0 \/ rd \notin GoodCreds)
      BY <1>2, <1>4, <2>1, <2>3 DEF AutoHears
    <3>2. faults \in Nat
      BY ManagerAssumption DEF TypeOK, ManagerTypeOK
    <3>3. mpc' = "autoFail" => AutoLost' /\ AutoFailIsReal'
      BY <1>1, <1>4, <2>1, <3>1, <3>2 DEF AutoLost
    <3>4. mpc' \in {"autoOk", "autoFail"}
      BY <1>7, <2>3 DEF OnDisconnected, SetBit
    <3> QED BY <3>3, <3>4
  <2>4. CASE mpc = "autoFail"
    <3>1. evq = <<Disconnected>> /\ sta.phase = "idle"
      BY <1>2, <2>4 DEF AutoLost
    <3>2. mpc' = "autoFail" /\ evq' = <<>>
      BY <1>4, <2>1, <2>4, <3>1
    <3> QED BY <1>1, <2>1, <2>4, <3>1, <3>2 DEF AutoLost
  <2> QED BY <2>1, <2>2, <2>3, <2>4
<1> QED BY <1>5, <1>6, <1>7 DEF EventStep

(* The queue as news reaches it: empty, then one event, then two. *)
LEMMA FirstAndSecondNews ==
  ASSUME NEW S, NEW a \in S, NEW b \in S
  PROVE  Append(<<>>, a) = <<a>> /\ Append(<<a>>, b) = <<a, b>>
<1>1. Append(<<>>, a) = <<a>>
  OBVIOUS
<1> DEFINE l == Append(<<a>>, b)
           r == <<a, b>>
<1>2. l \in Seq(S) /\ r \in Seq(S) /\ Len(l) = 2 /\ Len(r) = 2
  OBVIOUS
<1>3. \A i \in 1..Len(l) : l[i] = r[i]
  BY <1>2
<1>4. l = r
  <2> HIDE DEF l, r
  <2> QED BY <1>2, <1>3, SeqEqual
<1> QED BY <1>1, <1>4

LEMMA OutsideKeepsAuto ==
  ASSUME Prompt, TypeOK, OwnInv, AutoInv, HttpStep \/ AirStep \/ AirLoss \/ Reboot
  PROVE  AutoInv'
<1> USE DEF AutoInv, AutoFailIsReal
<1>1. CASE HttpStep
  <2>1. mpc \notin AutoPcs /\ mpc' = mpc
    BY <1>1 DEF HttpStep, SubmitStart, SubmitIgnored, SubmitNoTask, MaySubmit, OwnInv, CoopInv,
                ServerHasAp
  <2> QED BY <2>1 DEF AutoPcs
<1>2. CASE AirStep \/ AirLoss
  <2>1. UNCHANGED <<mode, started, staCfg, dhcpc, rd, mpc, connected>>
    BY <1>2 DEF AirStep, AirJoin, AirReject, AirLoss, firmware, shared, Associate, Lease, Lose
  <2>2. mpc \notin {"autoArm", "autoClear"}
    BY <1>2 DEF AirStep, AirJoin, AirReject, AirLoss, Slow
  <2>3. sta.phase # "idle"
    BY <1>2 DEF AirStep, AirJoin, AirReject, AirLoss, Associate, Lease, Lose
  <2>4. mpc \notin {"autoPwd", "autoMode", "autoCfg", "autoStart"}
    BY <2>3 DEF OwnInv, ApFlag
  <2>5. faults \in Nat /\ faults' >= faults /\ sta \in Link
    BY <1>2, ManagerAssumption
       DEF TypeOK, ManagerTypeOK, DriverTypeOK, AirStep, AirJoin, AirReject, AirLoss, Fault, used
  <2>6. /\ \A e \in Event : Append(<<>>, e) = <<e>>
        /\ Append(<<GotIp(rd)>>, Disconnected) = <<GotIp(rd), Disconnected>>
        /\ GotIp(sta.cred) \in Event
    <3>1. GotIp(rd) \in Event /\ GotIp(sta.cred) \in Event /\ Disconnected \in Event
      BY <2>5, EventsTyped DEF Link, GotIp, Event, TypeOK, ManagerTypeOK
    <3> QED BY <3>1, FirstAndSecondNews
  <2>7. CASE mpc = "autoWait"
    <3>1. CASE Associate
      <4>1. evq' = evq /\ sta.phase = "joining" /\ sta'.phase = "linked" /\ sta'.cred = sta.cred
        BY <2>5, <3>1 DEF Associate, Link
      <4> QED BY <2>1, <2>7, <4>1 DEF AutoHears
    <3>2. CASE Lease
      <4>1. evq' = Append(evq, GotIp(sta.cred)) /\ sta.phase = "linked" /\ sta'.phase = "up"
        BY <2>5, <3>2 DEF Lease, Link
      <4> QED BY <2>1, <2>6, <2>7, <4>1 DEF AutoHears
    <3>3. CASE \E P : Lose(P)
      <4>1. evq' = Append(evq, Disconnected) /\ sta'.phase = "idle"
        BY <3>3, EventsTyped DEF Lose
      <4>2. CASE evq = <<>>
        <5>1. sta.cred \notin GoodCreds \/ faults' > 0 \/ Associate \/ Lease
          BY <1>2, <2>5 DEF AirStep, AirJoin, AirReject, AirLoss, Fault
        <5>2. (Associate \/ Lease) => sta'.phase # "idle"
          BY <2>5 DEF Associate, Lease, Link
        <5> QED BY <2>1, <2>6, <2>7, <2>3, <4>1, <4>2, <5>1, <5>2 DEF AutoHears
      <4>3. CASE evq # <<>>
        BY <2>1, <2>3, <2>6, <2>7, <4>1, <4>3 DEF AutoHears
      <4> QED BY <4>2, <4>3
    <3> QED
      BY <1>2, <3>1, <3>2, <3>3 DEF AirStep, AirJoin, AirReject, AirLoss
  <2>8. CASE mpc = "autoFail"
    <3>1. evq = <<>> /\ sta.phase = "linked" /\ ~dhcpc
      BY <2>3, <2>8 DEF AutoLost
    <3>2. evq' = <<Disconnected>> /\ sta'.phase = "idle"
      BY <1>2, <2>6, <3>1, EventsTyped
         DEF AirStep, AirJoin, AirReject, AirLoss, Associate, Lease, Lose
    <3> QED BY <2>1, <2>8, <3>1, <3>2 DEF AutoLost
  <2> QED BY <2>1, <2>2, <2>4, <2>7, <2>8
<1>3. CASE Reboot
  BY <1>3 DEF Reboot
<1> QED BY <1>1, <1>2, <1>3

LEMMA TaskKeepsAuto ==
  ASSUME OwnInv, AutoInv, TaskStep
  PROVE  AutoInv'
<1>1. mpc' = mpc /\ tpc # "none"
  BY DEF TaskStep, Task, TaskCall, TaskBegin, TaskFlags, TaskClear, TaskMode, TaskConfig,
         TaskDhcp, TaskConnect, TaskEnter, TaskTimeout, TaskSaveSsid, TaskSavePwd,
         TaskPublish, TaskFail, TaskExit
<1>2. mpc \notin AutoPcs
  BY <1>1 DEF OwnInv, AttemptOwns
<1> QED BY <1>1, <1>2 DEF AutoInv, AutoPcs

LEMMA AutoInvHolds == ASSUME Cooperative, Prompt PROVE Spec => []AutoInv
<1>1. Init => AutoInv
  BY DEF Init, AutoInv
<1>2. TypeOK /\ LinkInv /\ OwnInv /\ AutoInv /\ [Next]_vars => AutoInv'
  <2> SUFFICES ASSUME TypeOK, LinkInv, OwnInv, AutoInv, [Next]_vars PROVE AutoInv'
    OBVIOUS
  <2>1. CASE UNCHANGED vars
    BY <2>1 DEF vars, drv, shared, used, AutoInv, AutoJoining, AutoHears, AutoLost, AutoFailIsReal
  <2> QED
    BY <2>1, MainKeepsAuto, TaskKeepsAuto, EventKeepsAuto, OutsideKeepsAuto
       DEF Next, PollNothing
<1> QED
  BY <1>1, <1>2, TypeCorrect, LinkInvHolds, OwnInvHolds, PTL DEF Spec

(* With a cooperative STM32 and the priorities of the tasks, AUTO_CONNECT fails
   only when the station has no address, and with an intact network and a DHCP
   client only on credentials no router accepts. *)
THEOREM AutoFailsForAReason == ASSUME Cooperative, Prompt PROVE Spec => []AutoFailIsReal
<1>1. AutoInv => AutoFailIsReal
  BY DEF AutoInv, AutoFailIsReal
<1> QED
  BY <1>1, AutoInvHolds, PTL
===============================================================================
