----------------------------- MODULE WifiManager -----------------------------
(***************************************************************************)
(* main/wifi_manager.c: the provisioning state shared by four tasks.       *)
(*                                                                         *)
(*   main          app_main reads a command and runs it to its ACK         *)
(*   delayed_conn  delayed_connect_task, one attempt to join a network     *)
(*   httpd         wifi_manager_try_connect, called by POST /connect       *)
(*   event loop    wifi_event_handler                                      *)
(*                                                                         *)
(* mpc and tpc say where main and delayed_conn are.  A step ends where the *)
(* code can lose the processor: at an esp_wifi_* call, a delay, a UART     *)
(* write, a flash access or a wait.  Boot is app_main up to its loop, so   *)
(* Init is the state in which the loop starts.                             *)
(*                                                                         *)
(* An IP address is named by the credentials that obtained it.  Left out:  *)
(* the scan records, s_ap_clients, the DNS server, and s_is_connecting,    *)
(* s_ap_ssid and s_saved_ap_cfg, which no code in the file decides on.     *)
(***************************************************************************)
EXTENDS WifiDriver, Integers

CONSTANTS
  Commands,     (* the commands the STM32 uses                             *)
  Submissions,  (* the credential pairs the phone may POST to /connect     *)
  Cooperative,  (* the STM32 starts nothing over a running attempt or AP   *)
  Prompt,       (* tasks pre-empt by priority, straight-line code is faster *)
                (* than the air, and 15 s outlast the air                  *)
  MaxCmds, MaxPosts, MaxFaults, MaxBoots    (* bounds of the environment   *)

CommandNames ==
  {"START_AP", "STOP_AP", "CLEAR", "STATUS", "RESET", "AUTO_CONNECT", "UNKNOWN"}

ASSUME ManagerAssumption ==
  /\ Commands \subseteq CommandNames
  /\ Submissions \subseteq Networks \X Passwords
  /\ Cooperative \in BOOLEAN
  /\ Prompt \in BOOLEAN
  /\ {MaxCmds, MaxPosts, MaxFaults, MaxBoots} \subseteq Nat

VARIABLES
  connected, ip,       (* s_connected, s_ip                                *)
  inApMode,            (* s_in_ap_mode                                     *)
  skip,                (* g_esp_open_auth_skip_pbkdf2                      *)
  bits,                (* the event group s_eg                             *)
  pending,             (* s_pending_ssid, s_pending_pwd                    *)
  result, resultIp,    (* s_connect_result_state, s_connect_result_ip      *)
  nvsSsid, nvsPwd,     (* the wifi_cred namespace in flash                 *)
  http,                (* the HTTP server runs                             *)
  mpc, tpc, rd,        (* program counters; ssid/pwd of connect_from_nvs   *)
  gotIp,               (* history: a GOT_IP came since the attempt cleared *)
  online,              (* history: the credentials that ever got an IP     *)
  alone,               (* history: the attempt cleared the bits with no    *)
                       (* link up or coming up, and no address to be told  *)
  halfSaved,           (* history: half of the last pair written is        *)
                       (* missing, as its write failed or a restart came   *)
                       (* between the two                                  *)
  cmds, posts, faults, boots

shared == <<connected, ip, inApMode, skip, bits>>
nvs    == <<nvsSsid, nvsPwd>>
att    == <<pending, result, resultIp>>
hist   == <<gotIp, online, alone, halfSaved>>
used   == <<cmds, posts, faults, boots>>
vars   == <<drv, shared, nvs, att, hist, used, http, mpc, tpc, rd>>

MainPcs ==
  {"idle", "ack", "restart", "erase",
   "apStop", "apScanMode", "apScanStart", "apScanArm", "apScan", "apNet",
   "apMode", "apStart", "apArm", "apServe",
   "stopHttp", "stopWifi",
   "autoPwd", "autoMode", "autoCfg", "autoStart", "autoArm", "autoClear",
   "autoWait", "autoOk", "autoFail", "noCred"}

TaskPcs ==
  {"none", "delay", "flags", "clear", "mode", "config", "dhcp", "settle",
   "enter", "wait", "saveSsid", "savePwd", "publish", "fail", "exit"}

ManagerTypeOK ==
  /\ connected \in BOOLEAN
  /\ ip \in CredPair
  /\ inApMode \in BOOLEAN
  /\ skip \in BOOLEAN
  /\ bits \subseteq {"CONNECTED", "FAILED"}
  /\ pending \in CredPair
  /\ result \in 0..2
  /\ resultIp \in CredPair
  /\ nvsSsid \in Networks \cup {Nil}
  /\ nvsPwd \in Passwords \cup {Nil}
  /\ http \in BOOLEAN
  /\ mpc \in MainPcs
  /\ tpc \in TaskPcs
  /\ rd \in CredPair
  /\ gotIp \in BOOLEAN
  /\ online \subseteq CredPair
  /\ alone \in BOOLEAN
  /\ halfSaved \in BOOLEAN
  /\ cmds \in 0..MaxCmds
  /\ posts \in 0..MaxPosts
  /\ faults \in 0..MaxFaults
  /\ boots \in 0..MaxBoots

TypeOK == DriverTypeOK /\ ManagerTypeOK

Init ==
  /\ mode = "NULL" /\ started = FALSE /\ rxcb = TRUE
  /\ sta = Idle /\ staCfg = NoCred /\ dhcpc = TRUE /\ evq = <<>>
  /\ connected = FALSE /\ ip = NoCred
  /\ inApMode = FALSE /\ skip = TRUE /\ bits = {}
  /\ pending = NoCred /\ result = 0 /\ resultIp = NoCred
  /\ \E c \in Submissions \cup {NoCred} : nvsSsid = c[1] /\ nvsPwd = c[2]
  /\ http = FALSE /\ mpc = "idle" /\ tpc = "none" /\ rd = NoCred
  /\ gotIp = FALSE /\ online = {} /\ alone = TRUE /\ halfSaved = FALSE
  /\ cmds = 0 /\ posts = 0 /\ faults = 0 /\ boots = 0

(* Something outside the firmware goes wrong once more. *)
Fault == faults < MaxFaults /\ faults' = faults + 1 /\ UNCHANGED <<cmds, posts, boots>>

(* The priorities: event loop above delayed_conn above main. *)
Turn     == Prompt => evq = <<>>
MainTurn ==
  Prompt => tpc \in {"none", "delay", "settle", "wait", "saveSsid", "savePwd"}

Main(from, to) == Turn /\ MainTurn /\ mpc = from /\ mpc' = to /\ UNCHANGED tpc
Task(from, to) == Turn /\ tpc = from /\ tpc' = to /\ UNCHANGED mpc

-------------------------------------------------------------------------------
(* main: a command arrives.  The STM32 of the README sends the next command
   after the ACK; a cooperative one also keeps out of the way of an attempt,
   of a running AP and of a running station. *)

HostMay(c) ==
  CASE c = "START_AP"     -> ~http /\ tpc = "none"
    [] c = "STOP_AP"      -> tpc = "none"
    [] c = "AUTO_CONNECT" -> ~started /\ tpc = "none"
    [] OTHER              -> TRUE

Receive(c, to) ==
  /\ c \in Commands
  /\ Cooperative => HostMay(c)
  /\ cmds < MaxCmds
  /\ cmds' = cmds + 1
  /\ Main("idle", to)
  /\ UNCHANGED <<posts, faults, boots>>

(* start_ap_mode takes the AP flag before it touches the driver. *)
StartAp ==
  /\ Receive("START_AP", "apStop")
  /\ inApMode' = TRUE
  /\ UNCHANGED <<drv, connected, ip, skip, bits, nvs, att, hist, http, rd>>

StopAp ==
  /\ Receive("STOP_AP", "stopHttp")
  /\ inApMode' = FALSE
  /\ skip' = FALSE
  /\ UNCHANGED <<drv, connected, ip, bits, nvs, att, hist, http, rd>>

Clear ==
  /\ Receive("CLEAR", "erase")
  /\ UNCHANGED <<drv, shared, nvs, att, hist, http, rd>>

(* nvs_open may fail, and then nothing is erased and the answer is the same. *)
Erase ==
  /\ Main("erase", "ack")
  /\ \/ nvsSsid' = Nil /\ nvsPwd' = Nil /\ UNCHANGED used
     \/ Fault /\ UNCHANGED nvs
  /\ UNCHANGED <<drv, shared, att, hist, http, rd>>

(* connect_from_nvs reads the SSID and gives up without one. *)
AutoConnect ==
  /\ Receive("AUTO_CONNECT", IF nvsSsid = Nil THEN "noCred" ELSE "autoPwd")
  /\ rd' = <<nvsSsid, Nil>>
  /\ UNCHANGED <<drv, shared, nvs, att, hist, http>>

Reset ==
  /\ Receive("RESET", "restart")
  /\ UNCHANGED <<drv, shared, nvs, att, hist, http, rd>>

(* STATUS and an unknown command answer and change nothing else. *)
Report ==
  /\ Receive("STATUS", "ack") \/ Receive("UNKNOWN", "ack")
  /\ UNCHANGED <<drv, shared, nvs, att, hist, http, rd>>

Ack ==
  /\ Main("ack", "idle")
  /\ rd' = NoCred
  /\ UNCHANGED <<drv, shared, nvs, att, hist, used, http>>

(* No command within 50 ms: app_main goes round its loop. *)
PollNothing == mpc = "idle" /\ UNCHANGED vars

-------------------------------------------------------------------------------
(* main: start_ap_mode after its flags.  A step that only calls the driver. *)
Call(from, to) ==
  /\ Main(from, to)
  /\ UNCHANGED <<shared, nvs, att, hist, used, http, rd>>

ApPreStop   == Call("apStop", "apScanMode") /\ EspWifiStop
ApScanMode  == Call("apScanMode", "apScanStart") /\ EspWifiSetMode("STA")
ApScanStart == Call("apScanStart", "apScanArm") /\ EspWifiStart
ApScanArm   == Call("apScanArm", "apScan") /\ SetPromiscuousCb
(* The blocking scan of all channels, and the stop after it. *)
ApScan      == Call("apScan", "apNet") /\ EspWifiStop
ApNet       == Call("apNet", "apMode") /\ DhcpcStop
ApMode      == Call("apMode", "apStart") /\ EspWifiSetMode("AP")

ApStart ==
  /\ Main("apStart", "apArm")
  /\ EspWifiStart
  /\ skip' = TRUE
  /\ UNCHANGED <<connected, ip, inApMode, bits, nvs, att, hist, used, http, rd>>

(* Mutant: the callback is not registered again after the AP starts. *)
ApArmNoCallback == Call("apArm", "apServe") /\ UNCHANGED drv

ApArm == Call("apArm", "apServe") /\ SetPromiscuousCb

(* http_server_start; a server that already runs stays, and a failure to
   start is logged and otherwise ignored. *)
ApServe ==
  /\ Main("apServe", "ack")
  /\ \/ http' = TRUE /\ UNCHANGED used
     \/ Fault /\ UNCHANGED http
  /\ UNCHANGED <<drv, shared, nvs, att, hist, rd>>

StopHttp ==
  /\ Main("stopHttp", "stopWifi")
  /\ http' = FALSE
  /\ UNCHANGED <<drv, shared, nvs, att, hist, used, rd>>

StopWifi == Call("stopWifi", "ack") /\ EspWifiStop

-------------------------------------------------------------------------------
(* main: connect_from_nvs after the SSID. *)

AutoPwd ==
  /\ Main("autoPwd", "autoMode")
  /\ rd' = <<rd[1], nvsPwd>>
  /\ UNCHANGED <<drv, shared, nvs, att, hist, used, http>>

AutoMode == Call("autoMode", "autoCfg") /\ EspWifiSetMode("STA")
AutoCfg  == Call("autoCfg", "autoStart") /\ EspWifiSetConfigSta(rd)

AutoStart ==
  /\ Main("autoStart", "autoArm")
  /\ EspWifiStart
  /\ skip' = FALSE
  /\ UNCHANGED <<connected, ip, inApMode, bits, nvs, att, hist, used, http, rd>>

AutoArm == Call("autoArm", "autoClear") /\ SetPromiscuousCb

(* Mutant: main waits on the bits of earlier events. *)
AutoClearKeepsBits ==
  /\ Main("autoClear", IF bits = {} THEN "autoWait"
                       ELSE IF "CONNECTED" \in bits THEN "autoOk" ELSE "autoFail")
  /\ UNCHANGED <<drv, shared, nvs, att, hist, used, http, rd>>

(* Clears both bits and blocks on them. *)
AutoClear ==
  /\ Main("autoClear", "autoWait")
  /\ bits' = {}
  /\ UNCHANGED <<drv, connected, ip, inApMode, skip, nvs, att, hist, used, http, rd>>

(* Mutant: main waits for the bits without a timeout. *)
AutoTimeoutNever == FALSE

AutoTimeout ==
  /\ Prompt => Settled
  /\ Call("autoWait", "autoFail")
  /\ UNCHANGED drv

AutoOk   == Call("autoOk", "ack") /\ UNCHANGED drv
AutoFail == Call("autoFail", "noCred") /\ EspWifiStop
NoCredReply == Call("noCred", "ack") /\ UNCHANGED drv

-------------------------------------------------------------------------------
(* httpd: wifi_manager_try_connect for a POST with a non-empty SSID (an empty
   one is refused and changes nothing).  The phone reaches the server through
   the AP or through the network the station has joined. *)

MaySubmit ==
  /\ http
  /\ ApUp \/ sta.phase = "up"
  /\ posts < MaxPosts

SubmitStart(c) ==
  /\ MaySubmit
  /\ tpc = "none"
  /\ pending' = c
  /\ tpc' = "delay"
  /\ posts' = posts + 1
  /\ UNCHANGED <<drv, shared, nvs, hist, result, resultIp, http, mpc, rd,
                 cmds, faults, boots>>

(* Mutant: the credentials are copied before the check for a running task. *)
SubmitOverwrites(c) ==
  /\ MaySubmit
  /\ tpc # "none"
  /\ pending' = c
  /\ posts' = posts + 1
  /\ UNCHANGED <<drv, shared, nvs, hist, result, resultIp, http, mpc,
                 tpc, rd, cmds, faults, boots>>

(* A task runs: the request is dropped and answered with success. *)
SubmitIgnored(c) ==
  /\ MaySubmit
  /\ tpc # "none"
  /\ posts' = posts + 1
  /\ UNCHANGED <<drv, shared, nvs, hist, pending, result, resultIp, http, mpc,
                 tpc, rd, cmds, faults, boots>>

(* xTaskCreate fails: the credentials are already overwritten. *)
SubmitNoTask(c) ==
  /\ MaySubmit
  /\ tpc = "none"
  /\ pending' = c
  /\ Fault
  /\ UNCHANGED <<drv, shared, nvs, hist, result, resultIp, http, mpc,
                 tpc, rd>>

-------------------------------------------------------------------------------
(* delayed_conn. *)

TaskCall(from, to) ==
  /\ Task(from, to)
  /\ UNCHANGED <<shared, nvs, att, hist, used, http, rd>>

(* After 2 s: forget the previous result and report CONNECTING. *)
TaskBegin ==
  /\ Task("delay", "flags")
  /\ result' = 0
  /\ resultIp' = NoCred
  /\ UNCHANGED <<drv, shared, nvs, pending, hist, used, http, rd>>

(* Mutant: PBKDF2 stays short-circuited for the join. *)
TaskFlagsSkip ==
  /\ Task("flags", "clear")
  /\ inApMode' = FALSE
  /\ UNCHANGED <<drv, connected, ip, skip, bits, nvs, att, hist, used, http, rd>>

TaskFlags ==
  /\ Task("flags", "clear")
  /\ inApMode' = FALSE
  /\ skip' = FALSE
  /\ UNCHANGED <<drv, connected, ip, bits, nvs, att, hist, used, http, rd>>

NoLinkTold ==
  sta.phase = "idle" /\ \A i \in 1..Len(evq) : evq[i].type # "GOT_IP"

(* Mutant: the event bits of earlier events are kept. *)
TaskClearKeepsBits ==
  /\ Task("clear", "mode")
  /\ inApMode' = TRUE
  /\ gotIp' = FALSE
  /\ alone' = NoLinkTold
  /\ UNCHANGED <<drv, connected, ip, skip, bits, nvs, att, online, halfSaved, used, http,
                 rd>>

TaskClear ==
  /\ Task("clear", "mode")
  /\ bits' = {}
  /\ inApMode' = TRUE
  /\ gotIp' = FALSE
  /\ alone' = NoLinkTold
  /\ UNCHANGED <<drv, connected, ip, skip, nvs, att, online, halfSaved, used, http,
                 rd>>

(* Mutant: the task leaves AP mode, as an earlier firmware did. *)
TaskModeSta == TaskCall("mode", "config") /\ EspWifiSetMode("STA")

TaskMode == TaskCall("mode", "config") /\ EspWifiSetMode("APSTA")

TaskConfig == TaskCall("config", "dhcp") /\ EspWifiSetConfigSta(pending)
TaskDhcp == TaskCall("dhcp", "settle") /\ DhcpcStart

(* After 300 ms. *)
TaskConnect ==
  /\ Task("settle", "enter")
  /\ inApMode' = FALSE
  /\ EspWifiConnect(evq)
  /\ UNCHANGED <<connected, ip, skip, bits, nvs, att, hist, used, http, rd>>

(* What the bits mean to the task; success has precedence. *)
Outcome(b) == IF "CONNECTED" \in b THEN "saveSsid" ELSE "fail"

(* Registers the callback and enters the wait, which returns at once when a
   bit is already set and then clears both. *)
TaskEnter ==
  /\ Task("enter", IF bits = {} THEN "wait" ELSE Outcome(bits))
  /\ SetPromiscuousCb
  /\ bits' = {}
  /\ UNCHANGED <<connected, ip, inApMode, skip, nvs, att, hist, used, http, rd>>

(* Mutant: the task waits for the bits without a timeout. *)
TaskTimeoutNever == FALSE

TaskTimeout ==
  /\ Prompt => Settled
  /\ TaskCall("wait", "fail")
  /\ UNCHANGED drv

(* nvs_open may fail, and then nothing is saved; so may each write, and the
   code goes on. *)
TaskSaveSsid ==
  /\ \/ Task("saveSsid", "savePwd") /\ nvsSsid' = pending[1] /\ halfSaved' = FALSE
        /\ UNCHANGED used
     \/ Task("saveSsid", "savePwd") /\ Fault /\ halfSaved' = TRUE /\ UNCHANGED nvsSsid
     \/ Task("saveSsid", "publish") /\ Fault /\ UNCHANGED <<nvsSsid, halfSaved>>
  /\ UNCHANGED <<drv, shared, nvsPwd, att, gotIp, online, alone, http, rd>>

TaskSavePwd ==
  /\ Task("savePwd", "publish")
  /\ \/ nvsPwd' = pending[2] /\ UNCHANGED <<halfSaved, used>>
     \/ Fault /\ halfSaved' = TRUE /\ UNCHANGED nvsPwd
  /\ UNCHANGED <<drv, shared, nvsSsid, att, gotIp, online, alone, http, rd>>

(* Mutant: the short cut of the open AP is not restored. *)
TaskPublishKeepsFull ==
  /\ Task("publish", "exit")
  /\ resultIp' = ip
  /\ result' = 1
  /\ UNCHANGED <<drv, connected, ip, inApMode, skip, bits, nvs, pending,
                 hist, used, http, rd>>

TaskPublish ==
  /\ Task("publish", "exit")
  /\ resultIp' = ip
  /\ result' = 1
  /\ skip' = TRUE
  /\ UNCHANGED <<drv, connected, ip, inApMode, bits, nvs, pending,
                 hist, used, http, rd>>

TaskFail ==
  /\ Task("fail", "exit")
  /\ result' = 2
  /\ UNCHANGED <<drv, shared, nvs, pending, resultIp, hist, used,
                 http, rd>>

TaskExit == TaskCall("exit", "none") /\ UNCHANGED drv

-------------------------------------------------------------------------------
(* The event loop: wifi_event_handler on the oldest event. *)

(* xEventGroupSetBits wakes every waiter; the task's wait clears both bits,
   main's wait leaves them. *)
SetBit(b) ==
  LET all == bits \cup {b}
  IN  /\ bits' = IF tpc = "wait" THEN {} ELSE all
      /\ tpc' = IF tpc = "wait" THEN Outcome(all) ELSE tpc
      /\ mpc' = IF mpc # "autoWait" THEN mpc
                ELSE IF "CONNECTED" \in all THEN "autoOk" ELSE "autoFail"

Handling(type) == evq # <<>> /\ Head(evq).type = type

(* Mutant: the station joins whatever mode the manager is in. *)
OnStaStartAlways ==
  /\ Handling("STA_START")
  /\ EspWifiConnect(Tail(evq))
  /\ UNCHANGED <<shared, nvs, att, hist, used, http, mpc, tpc, rd>>

OnStaStart ==
  /\ Handling("STA_START")
  /\ IF inApMode
     THEN evq' = Tail(evq) /\ UNCHANGED <<mode, started, rxcb, sta, staCfg, dhcpc>>
     ELSE EspWifiConnect(Tail(evq))
  /\ UNCHANGED <<shared, nvs, att, hist, used, http, mpc, tpc, rd>>

OnGotIp ==
  /\ Handling("GOT_IP")
  /\ evq' = Tail(evq)
  /\ connected' = TRUE
  /\ ip' = Head(evq).cred
  /\ SetBit("CONNECTED")
  /\ gotIp' = TRUE
  /\ online' = online \cup {Head(evq).cred}
  /\ UNCHANGED <<mode, started, rxcb, sta, staCfg, dhcpc, inApMode, skip, nvs,
                 att, alone, halfSaved, used, http, rd>>

(* Mutants: a disconnect leaves s_connected alone, or also empties s_ip. *)
OnDisconnectedKeepsFlag ==
  /\ Handling("DISCONNECTED")
  /\ evq' = Tail(evq)
  /\ SetBit("FAILED")
  /\ UNCHANGED <<mode, started, rxcb, sta, staCfg, dhcpc, connected, ip, inApMode,
                 skip, nvs, att, hist, used, http, rd>>

OnDisconnectedClearsIp ==
  /\ Handling("DISCONNECTED")
  /\ evq' = Tail(evq)
  /\ connected' = FALSE
  /\ ip' = NoCred
  /\ SetBit("FAILED")
  /\ UNCHANGED <<mode, started, rxcb, sta, staCfg, dhcpc, inApMode, skip,
                 nvs, att, hist, used, http, rd>>

OnDisconnected ==
  /\ Handling("DISCONNECTED")
  /\ evq' = Tail(evq)
  /\ connected' = FALSE
  /\ SetBit("FAILED")
  /\ UNCHANGED <<mode, started, rxcb, sta, staCfg, dhcpc, ip, inApMode, skip,
                 nvs, att, hist, used, http, rd>>

-------------------------------------------------------------------------------
(* The air and the power supply. *)

(* With Prompt the air is slower than the code between two blocking calls. *)
Slow == Prompt => mpc \notin {"autoArm", "autoClear"}

firmware == <<shared, nvs, att, hist, http, mpc, tpc, rd>>

AirJoin == Slow /\ (Associate \/ Lease) /\ UNCHANGED <<firmware, used>>

AirReject ==
  /\ Slow
  /\ sta.cred \notin GoodCreds
  /\ Lose({"joining"})
  /\ UNCHANGED <<firmware, used>>

AirLoss == Slow /\ Lose({"joining", "linked", "up"}) /\ Fault /\ UNCHANGED firmware

(* esp_restart, or power lost at any point: only the flash survives. *)
Reboot ==
  /\ \/ mpc = "restart" /\ UNCHANGED boots
     \/ boots < MaxBoots /\ boots' = boots + 1
  /\ mode' = "NULL" /\ started' = FALSE /\ rxcb' = TRUE
  /\ sta' = Idle /\ staCfg' = NoCred /\ dhcpc' = TRUE /\ evq' = <<>>
  /\ connected' = FALSE /\ ip' = NoCred
  /\ inApMode' = FALSE /\ skip' = TRUE /\ bits' = {}
  /\ pending' = NoCred /\ result' = 0 /\ resultIp' = NoCred
  /\ http' = FALSE /\ mpc' = "idle" /\ tpc' = "none" /\ rd' = NoCred
  /\ gotIp' = FALSE /\ alone' = TRUE
  /\ halfSaved' = (halfSaved \/ tpc = "savePwd")
  /\ UNCHANGED <<nvs, online, cmds, posts, faults>>

-------------------------------------------------------------------------------
Command == StartAp \/ StopAp \/ Clear \/ AutoConnect \/ Reset \/ Report

MainStep ==
  \/ Ack \/ Erase
  \/ ApPreStop \/ ApScanMode \/ ApScanStart \/ ApScanArm \/ ApScan \/ ApNet
  \/ ApMode \/ ApStart \/ ApArm \/ ApServe
  \/ StopHttp \/ StopWifi
  \/ AutoPwd \/ AutoMode \/ AutoCfg \/ AutoStart \/ AutoArm \/ AutoClear
  \/ AutoTimeout \/ AutoOk \/ AutoFail \/ NoCredReply

TaskStep ==
  \/ TaskBegin \/ TaskFlags \/ TaskClear \/ TaskMode \/ TaskConfig \/ TaskDhcp
  \/ TaskConnect \/ TaskEnter \/ TaskTimeout \/ TaskSaveSsid \/ TaskSavePwd
  \/ TaskPublish \/ TaskFail \/ TaskExit

EventStep == OnStaStart \/ OnGotIp \/ OnDisconnected

HttpStep == \E c \in Submissions : SubmitStart(c) \/ SubmitIgnored(c) \/ SubmitNoTask(c)

AirStep == AirJoin \/ AirReject

Next ==
  \/ Command \/ PollNothing \/ MainStep \/ TaskStep \/ EventStep \/ HttpStep
  \/ AirStep \/ AirLoss \/ Reboot

Spec == Init /\ [][Next]_vars

(* FreeRTOS runs every ready task, the driver delivers what it posted, and an
   armed timeout expires; commands, requests, faults and anything on the air
   are not promised. *)
Fairness ==
  /\ WF_vars(MainStep)
  /\ WF_vars(TaskStep)
  /\ WF_vars(EventStep)
  /\ WF_vars(mpc = "restart" /\ Reboot)

FairSpec == Spec /\ Fairness

-------------------------------------------------------------------------------
(* Properties that hold in every environment. *)

(* The promiscuous callback is missing only between an esp_wifi_start and the
   registration that follows it: a callback left NULL crashes the driver some
   12 s later (wifi_manager.c:130-137). *)
CallbackArmed == rxcb \/ mpc \in {"apScanArm", "apArm", "autoArm"}

(* An attempt is counted as a success, saved and published only after a
   GOT_IP that came since it cleared the event bits: the bits of an earlier
   attempt or of an AUTO_CONNECT never decide it. *)
FreshSuccess == tpc \in {"saveSsid", "savePwd", "publish"} => gotIp

(* While an attempt runs, from its CONNECTING event to its verdict, GET
   /result says pending: the verdict of an earlier attempt is never shown. *)
ResultPending == tpc \notin {"none", "delay", "exit"} => result = 0

(* The address shown with a success is never empty, whatever disconnects
   between the success and its publication. *)
ShowsAddress == result = 1 => resultIp \in online

(* Once the event loop has caught up, s_connected tells whether the station
   has an address, and s_ip is that of the present link. *)
ConnectedTracksLink ==
  evq = <<>> => /\ connected <=> sta.phase = "up"
                /\ connected => ip = sta.cred

(* Only a command, or the end of one, takes the AP down: nothing the attempt,
   the phone, the driver's events or the air do cuts the phone off
   (wifi_manager.c:346-350, 393-404). *)
ApSurvivesAttempt ==
  [][ApUp /\ ~ApUp' =>
       \/ mpc \in {"apStop", "apScan", "stopWifi", "autoMode", "autoFail", "restart"}
       \/ boots' # boots]_vars

(* The manager implements what module Attempt promises. *)
Stage ==
  CASE tpc = "delay"                            -> "accepted"
    [] tpc \in {"flags", "clear"}               -> "begun"
    [] tpc \in {"saveSsid", "savePwd", "publish"} -> "won"
    [] tpc = "fail"                             -> "lost"
    [] tpc = "exit"                             -> "over"
    [] tpc = "none"                             -> "none"
    [] OTHER                                    -> "trying"

A == INSTANCE Attempt WITH
       Jobs <- Submissions, NoJob <- NoCred, stage <- Stage, job <- pending,
       answer <- result, heard <- gotIp, kept <- nvs

(* The four promises of module Attempt, step by step: one attempt at a time,
   answered once, won only by a new address, and alone in writing the flash. *)
AttemptSpec == A!Spec

(* Outside the two writes of a success, the stored SSID and password were
   submitted together ("NVS ... survives power loss", README.md:22): posts,
   CLEAR, a reset or power loss at any point but between the two, and a flash
   that cannot be opened, leave the pair whole; a pair that was cut in half is
   made whole by the next success. *)
PairNotTorn ==
  ~halfSaved /\ tpc # "savePwd" /\ Nil \notin {nvsSsid, nvsPwd}
    => nvs \in Submissions

-------------------------------------------------------------------------------
(* Properties that need a cooperative STM32. *)

(* The station never joins while the prescan uses it: a connect during AP
   provisioning hits the 15 s watchdog (wifi_manager.c:87-93). *)
NoJoinDuringPrescan ==
  mpc \in {"apScanStart", "apScanArm", "apScan"} => sta.phase = "idle"

(* PBKDF2 computes in full while a join is under way: with the short cut of
   the open AP a WPA2 join cannot succeed (wifi_manager.c:336-337, 481-482).
   The join of an attempt that was not alone may outlive its verdict. *)
SkipOffForJoin == sta.phase = "joining" /\ alone => ~skip

(* An attempt waits for its address with a DHCP client, the one START_AP stopped
   (wifi_manager.c:246, 358-359): without it an association never ends in a
   GOT_IP. *)
AttemptHasDhcp == tpc = "wait" => dhcpc

(* What an attempt needs to succeed, whatever main does at the time.  The join of
   AUTO_CONNECT may lack the DHCP client: see JoinHasDhcp. *)
AttemptCanSucceed == SkipOffForJoin /\ AttemptHasDhcp

(* The client is started again before every join (README.md:229-231).  The code
   does so for attempts only: AUTO_CONNECT after START_AP and STOP_AP joins
   without one (wifi_manager.c:246, 474-483). *)
JoinHasDhcp == sta.phase = "joining" => dhcpc

(* An open AP with nothing under way has the short cut, without which a phone that
   associates costs the driver's task its watchdog (wifi_manager.c:19-22, 267-270,
   391), but for one whose last attempt has failed: the verdict does not restore
   what the attempt switched off (337, 398-405). *)
OpenApSkips == mpc = "idle" /\ tpc = "none" /\ ApUp /\ result # 2 => skip

(* What is written to the flash has been verified: the credentials of a
   success have had an address of their own (http_server.h:10).  The bits do
   not say which network they are about, and nobody waits for the previous
   link to end, so the code does not keep this. *)
SavesVerified == tpc \in {"saveSsid", "savePwd"} => pending \in online

(* It does for an attempt that found no link and no news of one, however the
   tasks, the air and the timeouts interleave after that. *)
AloneSavesVerified == alone => SavesVerified

(* Between commands, a running HTTP server has its AP (http_server.h:19). *)
HttpNeedsAp == mpc = "idle" /\ http => ApUp

(* AUTO_CONNECT reports a failure only when the station has no address; and,
   with an intact network and a DHCP client, only on bad credentials: no event
   left from before makes it fail.  Needs a prompt event loop. *)
AutoFailIsReal ==
  mpc = "autoFail" => /\ ~connected
                      /\ dhcpc /\ faults = 0 => rd \notin GoodCreds

-------------------------------------------------------------------------------
(* Liveness, under FairSpec and in any environment. *)

(* Every command is answered and main listens again, whatever bits are lost
   to the other waiter or stay unset (wifi_manager.c:488-491). *)
CommandAnswered == mpc # "idle" ~> mpc = "idle"

(* Every accepted attempt ends with a verdict for GET /result, also when its
   station is stopped under it (wifi_manager.c:370-405), unless the module
   restarts first, which nothing else than mode = "NULL" shows. *)
AttemptResolves == tpc # "none" ~> (tpc = "exit" /\ result # 0) \/ mode = "NULL"

===============================================================================
