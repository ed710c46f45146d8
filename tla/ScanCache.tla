------------------------------- MODULE ScanCache -------------------------------
(***************************************************************************)
(* The list of networks of the configuration page, and whether phones are   *)
(* still sent there.  START_AP scans before the AP opens and keeps the       *)
(* records (main/wifi_manager.c, s_ap_records); GET /scan turns them into a  *)
(* list once and answers from that list until STOP_AP or /rescan             *)
(* (main/http_server.c, s_scan_cache).  The probes of phones are redirected  *)
(* to the page until it has been loaded (s_portal_done).  main, httpd and    *)
(* the event loop share all of it, unlocked.                                *)
(*                                                                         *)
(* Records and lists are named by the number of the prescan they are from, *)
(* 0 for none.  A GET /scan that finds a list answers it and changes       *)
(* nothing.  The driver is external: it posts SCAN_DONE when a scan ends    *)
(* and keeps its records until they are fetched or another scan is asked.  *)
(***************************************************************************)
EXTENDS Naturals

CONSTANTS
  Paired,      (* the STM32 alternates START_AP and STOP_AP                *)
  MaxScans,    (* bound: START_APs                                         *)
  MaxFaults    (* bound: failed scans and fetches                          *)

ASSUME ScanAssumption ==
  /\ Paired \in BOOLEAN
  /\ MaxScans \in Nat /\ MaxFaults \in Nat

VARIABLES
  ready,       (* s_scan_ready                                             *)
  got,         (* s_records_ready                                          *)
  some,        (* s_ap_num > 0                                             *)
  records,     (* s_ap_records, which outlive s_ap_num                     *)
  cached, list,  (* s_scan_cached, s_scan_cache                            *)
  portal,      (* s_portal_done: probes get 204, no redirect                *)
  loaded,      (* history: the prescan during which the page was loaded    *)
  server,      (* the HTTP server runs                                     *)
  found,       (* the driver's records, not fetched yet                    *)
  done,        (* SCAN_DONE events posted and not handled                  *)
  mpc,         (* main: "idle", "scan", "read", "serve", "join"            *)
  handler,     (* httpd in GET /scan: "none", "full" or "empty"            *)
  scans,       (* the number of the current or last prescan                *)
  faults

vars == <<ready, got, some, records, cached, list, portal, loaded, server, found,
          done, mpc, handler, scans, faults>>

Store  == <<ready, got, some, records>>
List   == <<cached, list>>
Portal == <<portal, loaded>>
Page   == <<List, Portal>>
NoList == cached' = FALSE /\ list' = 0

TypeOK ==
  /\ {ready, got, some, cached, portal, server} \subseteq BOOLEAN
  /\ {records, list, loaded, found, scans} \subseteq 0..MaxScans
  /\ done \in 0..MaxScans
  /\ mpc \in {"idle", "scan", "read", "serve", "join"}
  /\ handler \in {"none", "full", "empty"}
  /\ faults \in 0..MaxFaults

Init ==
  /\ ready = FALSE /\ got = FALSE /\ some = FALSE /\ records = 0
  /\ cached = FALSE /\ list = 0 /\ server = FALSE
  /\ portal = FALSE /\ loaded = 0
  /\ found = 0 /\ done = 0 /\ mpc = "idle" /\ handler = "none"
  /\ scans = 0 /\ faults = 0

Goto(from, to) == mpc = from /\ mpc' = to

(* esp_wifi_scan_get_ap_records, which empties the driver's list, and what
   its callers do with a success; and its failure. *)
Fetch ==
  /\ found' = 0
  /\ some' = (found # 0)
  /\ records' = IF found # 0 THEN found ELSE records
  /\ got' = TRUE
  /\ UNCHANGED faults

Fault == faults < MaxFaults /\ faults' = faults + 1

FetchFails == Fault /\ UNCHANGED <<found, some, records, got>>

-------------------------------------------------------------------------------
(* main: start_ap_mode as far as the scan goes. *)

(* The previous prescan is forgotten. *)
StartAp ==
  /\ Goto("idle", "scan")
  /\ Paired => ~server
  /\ scans < MaxScans
  /\ scans' = scans + 1
  /\ ready' = FALSE /\ got' = FALSE /\ some' = FALSE
  /\ UNCHANGED <<records, Page, server, found, done, handler, faults>>

(* The blocking scan finds networks or none, or fails. *)
Scan ==
  /\ \/ Goto("scan", "read") /\ found' \in {scans, 0} /\ done' = done + 1
        /\ UNCHANGED faults
     \/ Goto("scan", "serve") /\ found' = 0 /\ Fault /\ UNCHANGED done
  /\ UNCHANGED <<Store, Page, server, handler, scans>>

ReadRecords ==
  /\ Goto("read", "serve")
  /\ \/ Fetch /\ ready' = TRUE
     \/ FetchFails /\ UNCHANGED ready
  /\ UNCHANGED <<Page, server, done, handler, scans>>

(* http_server_start leaves the list alone, and may fail. *)
Serve ==
  /\ Goto("serve", "idle")
  /\ \/ server' = TRUE /\ UNCHANGED faults
     \/ Fault /\ UNCHANGED server
  /\ UNCHANGED <<Store, Page, found, done, handler, scans>>

(* main: http_server_stop.  httpd_stop returns when the running handler has
   ended; only then are the list and the page's visit forgotten. *)
StopAp ==
  /\ Goto("idle", "join")
  /\ server
  /\ UNCHANGED <<Store, Page, server, found, done, handler, scans, faults>>

(* Mutants: nothing waits for the handler; the next phones get no redirect. *)
StoppedEarly ==
  /\ Goto("join", "idle")
  /\ server' = FALSE
  /\ NoList /\ portal' = FALSE
  /\ UNCHANGED <<Store, loaded, found, done, handler, scans, faults>>

StoppedKeepsPortal ==
  /\ Goto("join", "idle")
  /\ handler = "none"
  /\ server' = FALSE
  /\ NoList
  /\ UNCHANGED <<Store, Portal, found, done, handler, scans, faults>>

Stopped ==
  /\ Goto("join", "idle")
  /\ handler = "none"
  /\ server' = FALSE
  /\ NoList /\ portal' = FALSE
  /\ UNCHANGED <<Store, loaded, found, done, handler, scans, faults>>

(* No command. *)
PollNothing == mpc = "idle" /\ UNCHANGED vars

-------------------------------------------------------------------------------
(* The event loop. *)

OnScanDone ==
  /\ done > 0
  /\ done' = done - 1
  /\ ready' = TRUE
  /\ UNCHANGED <<got, some, records, Page, server, found, mpc, handler, scans, faults>>

-------------------------------------------------------------------------------
(* httpd. *)

(* Mutant: records that were fetched are fetched again. *)
ScanRequestRefetches ==
  /\ server /\ handler = "none" /\ ~cached
  /\ IF ready
     THEN (Fetch \/ FetchFails) /\ ready' = FALSE
     ELSE UNCHANGED <<Store, found, faults>>
  /\ handler' = IF got' /\ some' THEN "full" ELSE "empty"
  /\ UNCHANGED <<Page, server, done, mpc, scans>>

(* GET /scan without a list: wifi_manager_get_scan_results, which fetches the
   records itself when start_ap_mode could not.  The answer is built after a
   line was sent over the UART. *)
ScanRequest ==
  /\ server /\ handler = "none" /\ ~cached
  /\ IF ready /\ ~got
     THEN (Fetch \/ FetchFails) /\ ready' = FALSE
     ELSE UNCHANGED <<Store, found, faults>>
  /\ handler' = IF got' /\ some' THEN "full" ELSE "empty"
  /\ UNCHANGED <<Page, server, done, mpc, scans>>

(* Mutant: an answer without records is not told from one with records. *)
ScanAnswerEmpty ==
  /\ handler # "none"
  /\ handler' = "none"
  /\ list' = 0
  /\ cached' = TRUE
  /\ UNCHANGED <<Store, Portal, server, found, done, mpc, scans, faults>>

ScanAnswer ==
  /\ handler # "none"
  /\ handler' = "none"
  /\ list' = IF handler = "full" THEN records ELSE 0
  /\ cached' = TRUE
  /\ UNCHANGED <<Store, Portal, server, found, done, mpc, scans, faults>>

(* GET /rescan forgets the list and scans nothing. *)
Rescan ==
  /\ server /\ handler = "none"
  /\ NoList
  /\ UNCHANGED <<Store, Portal, server, found, done, mpc, handler, scans, faults>>

(* What handler_redirect answers to a phone's probe. *)
Redirected == ~portal

(* GET /captive-done, which the page sends when it has loaded. *)
CaptiveDone ==
  /\ server /\ handler = "none"
  /\ portal' = TRUE /\ loaded' = scans
  /\ UNCHANGED <<Store, List, server, found, done, mpc, handler, scans, faults>>

-------------------------------------------------------------------------------
Next ==
  \/ StartAp \/ Scan \/ ReadRecords \/ Serve \/ StopAp \/ Stopped \/ PollNothing
  \/ OnScanDone
  \/ ScanRequest \/ ScanAnswer \/ Rescan \/ CaptiveDone

Spec == Init /\ [][Next]_vars

-------------------------------------------------------------------------------
(* Properties under alternating commands. *)

(* The page never shows the networks of an earlier provisioning: a request
   that is answered while the server stops cannot leave its list behind for
   the next AP (http_server.c:585-592), and records that an earlier prescan
   left are not used when the present one fails (wifi_manager.c:191-193). *)
ListIsCurrent == list # 0 => list = scans

(* A late SCAN_DONE never makes the manager offer records of another prescan
   as ready (wifi_manager.c:82, 563-577). *)
RecordsAreCurrent == got /\ some => records = scans

(* Phones are sent to the page until somebody has loaded it since the AP was
   opened; a visit during an earlier provisioning hides it from nobody
   (http_server.c:516-521, 590). *)
PortalIsCurrent == ~Redirected => loaded = scans

(* The page does not show an empty list while the manager has networks to
   offer (http_server.c:254-300). *)
NoFalseEmpty == cached /\ mpc = "idle" /\ got /\ some => list # 0
===============================================================================
