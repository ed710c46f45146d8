------------------------------ MODULE WifiDriver ------------------------------
(***************************************************************************)
(* The Wi-Fi driver of the ESP8266 RTOS SDK as main/wifi_manager.c uses    *)
(* it: the esp_wifi_* calls, the DHCP client of the station interface, the *)
(* FIFO of system events, and what happens on the air.  The driver is not  *)
(* part of the repository, so every definition here is external.           *)
(*                                                                         *)
(* A link carries the credentials it was asked for.  An address is granted *)
(* in two steps, association and then a DHCP lease, and the second needs a *)
(* DHCP client that was not stopped.                                       *)
(***************************************************************************)
EXTENDS Sequences

CONSTANTS
  Networks,    (* SSIDs                                                    *)
  Passwords,   (* Wi-Fi passwords                                          *)
  GoodCreds,   (* the pairs some router in range accepts                   *)
  Nil          (* an empty SSID, password or pair component                *)

ASSUME CredsAssumption ==
  /\ Nil \notin Networks
  /\ Nil \notin Passwords
  /\ GoodCreds \subseteq Networks \X Passwords

VARIABLES
  mode,      (* esp_wifi_set_mode: "NULL", "STA", "AP" or "APSTA"          *)
  started,   (* between esp_wifi_start and esp_wifi_stop                   *)
  rxcb,      (* a promiscuous receive callback is registered               *)
  sta,       (* the station link: [phase, cred]                            *)
  staCfg,    (* the credentials of the last accepted STA esp_wifi_set_config *)
  dhcpc,     (* the DHCP client of the station runs once associated        *)
  evq        (* posted system events the event loop has not handled        *)

drv == <<mode, started, rxcb, sta, staCfg, dhcpc, evq>>

NoCred   == <<Nil, Nil>>
CredPair == (Networks \cup {Nil}) \X (Passwords \cup {Nil})

Modes == {"NULL", "STA", "AP", "APSTA"}
Link  == [phase : {"idle", "joining", "linked", "up"}, cred : CredPair]
Event == [type : {"STA_START", "GOT_IP", "DISCONNECTED"}, cred : CredPair]

Idle         == [phase |-> "idle", cred |-> NoCred]
StaStart     == [type |-> "STA_START", cred |-> NoCred]
Disconnected == [type |-> "DISCONNECTED", cred |-> NoCred]
GotIp(c)     == [type |-> "GOT_IP", cred |-> c]

HasSta(m) == m \in {"STA", "APSTA"}
HasAp(m)  == m \in {"AP", "APSTA"}
StaOn     == started /\ HasSta(mode)
ApUp      == started /\ HasAp(mode)

DriverTypeOK ==
  /\ mode \in Modes
  /\ started \in BOOLEAN
  /\ rxcb \in BOOLEAN
  /\ sta \in Link
  /\ staCfg \in CredPair
  /\ dhcpc \in BOOLEAN
  /\ evq \in Seq(Event)

(* Events the driver posts when it tears the present link down. *)
LinkDown == IF sta.phase = "idle" THEN <<>> ELSE <<Disconnected>>

-------------------------------------------------------------------------------
(* The calls of the firmware. *)

(* Stopping the station resets its DHCP client to the state in which an
   association starts it; stopping a pure AP leaves it alone. *)
EspWifiStop ==
  /\ started' = FALSE
  /\ sta' = Idle
  /\ evq' = evq \o LinkDown
  /\ dhcpc' = (dhcpc \/ StaOn)
  /\ UNCHANGED <<mode, rxcb, staCfg>>

(* Adding or removing the station interface while started is immediate. *)
EspWifiSetMode(m) ==
  LET staOpens  == started /\ HasSta(m) /\ ~HasSta(mode)
      staCloses == StaOn /\ ~HasSta(m)
  IN  /\ mode' = m
      /\ sta' = IF staCloses THEN Idle ELSE sta
      /\ evq' = evq \o (IF staOpens THEN <<StaStart>>
                        ELSE IF staCloses THEN LinkDown ELSE <<>>)
      /\ dhcpc' = (dhcpc \/ staCloses)
      /\ UNCHANGED <<started, rxcb, staCfg>>

(* Every call drops the promiscuous callback; only a stopped driver
   announces the station. *)
EspWifiStart ==
  /\ started' = TRUE
  /\ rxcb' = FALSE
  /\ evq' = evq \o (IF ~started /\ HasSta(mode) THEN <<StaStart>> ELSE <<>>)
  /\ UNCHANGED <<mode, sta, staCfg, dhcpc>>

SetPromiscuousCb ==
  /\ rxcb' = TRUE
  /\ UNCHANGED <<mode, started, sta, staCfg, dhcpc, evq>>

(* Refused when the station interface is not enabled. *)
EspWifiSetConfigSta(c) ==
  /\ staCfg' = IF HasSta(mode) THEN c ELSE staCfg
  /\ UNCHANGED <<mode, started, rxcb, sta, dhcpc, evq>>

(* Leaves an established link first; refused when the station is off.  q is
   the event queue the call finds. *)
EspWifiConnect(q) ==
  /\ sta' = IF StaOn THEN [phase |-> "joining", cred |-> staCfg] ELSE sta
  /\ evq' = IF StaOn /\ sta.phase \in {"linked", "up"}
            THEN Append(q, Disconnected) ELSE q
  /\ UNCHANGED <<mode, started, rxcb, staCfg, dhcpc>>

DhcpcStop  == dhcpc' = FALSE /\ UNCHANGED <<mode, started, rxcb, sta, staCfg, evq>>
DhcpcStart == dhcpc' = TRUE  /\ UNCHANGED <<mode, started, rxcb, sta, staCfg, evq>>

-------------------------------------------------------------------------------
(* The air.  Lost links and rejections of good credentials are faults, which
   the module that extends this one bounds. *)

Associate ==
  /\ sta.phase = "joining"
  /\ sta.cred \in GoodCreds
  /\ sta' = [sta EXCEPT !.phase = "linked"]
  /\ UNCHANGED <<mode, started, rxcb, staCfg, dhcpc, evq>>

Lease ==
  /\ sta.phase = "linked"
  /\ dhcpc
  /\ sta' = [sta EXCEPT !.phase = "up"]
  /\ evq' = Append(evq, GotIp(sta.cred))
  /\ UNCHANGED <<mode, started, rxcb, staCfg, dhcpc>>

Lose(phases) ==
  /\ sta.phase \in phases
  /\ sta' = Idle
  /\ evq' = Append(evq, Disconnected)
  /\ UNCHANGED <<mode, started, rxcb, staCfg, dhcpc>>

(* Nothing on the air will change the link by itself. *)
Settled == sta.phase # "joining" /\ ~(sta.phase = "linked" /\ dhcpc)
===============================================================================
