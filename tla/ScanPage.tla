------------------------------- MODULE ScanPage -------------------------------
(***************************************************************************)
(* The list of networks on the configuration page: window.onload and        *)
(* loadScan, which ask for it up to eleven times while it is empty, and the  *)
(* button of doRescan (main/http_server.c, INDEX_HTML), over module          *)
(* ScanCache.  One page is open; other phones ask as well.                   *)
(*                                                                         *)
(* A request and its answer may take any time; a lost one is answered to     *)
(* nobody.  The pauses of 2 s and 3.5 s are steps without a length.          *)
(***************************************************************************)
EXTENDS ScanCache

CONSTANTS
  MaxLoads,    (* bound: loads of the page                                 *)
  MaxRescans,  (* bound: clicks on "refresh"                               *)
  MaxRetries   (* the retries of loadScan, 10                              *)

ASSUME ScanPageAssumption ==
  MaxLoads \in Nat /\ MaxRescans \in Nat /\ MaxRetries \in Nat

VARIABLES
  pc,       (* what each of "load" and "rescan" is at: "off", "clear" (the  *)
            (* request to /rescan), "pause", "ask", "back"; or "stuck"      *)
  retries,  (* of loadScan                                                 *)
  reply,    (* the list each of them was answered                          *)
  asker,    (* which of them the handler of GET /scan works for, or "other" *)
  shown,    (* the list on the page: "scanning", "failed", "none", "some"  *)
  seen,     (* history: the last prescan whose networks httpd has sent     *)
  loads, rescans

browser  == <<pc, retries, reply, asker, shown, seen, loads, rescans>>
pageVars == <<vars, browser>>

Chains == {"load", "rescan"}

PageTypeOK ==
  /\ TypeOK
  /\ pc \in [Chains -> {"off", "clear", "pause", "ask", "back", "stuck"}]
  /\ retries \in 0..MaxRetries
  /\ reply \in [Chains -> 0..MaxScans]
  /\ asker \in Chains \cup {"other"}
  /\ shown \in {"scanning", "failed", "none", "some"}
  /\ seen \in 0..MaxScans
  /\ loads \in 0..MaxLoads /\ rescans \in 0..MaxRescans

PageInit ==
  /\ Init
  /\ pc = [c \in Chains |-> "off"] /\ retries = 0
  /\ reply = [c \in Chains |-> 0] /\ asker = "other"
  /\ shown = "scanning" /\ seen = 0 /\ loads = 0 /\ rescans = 0

ChainGoto(c, from, to) == pc[c] = from /\ pc' = [pc EXCEPT ![c] = to]
Shown(l) == IF l = 0 THEN "none" ELSE "some"
Sent(l)  == seen' = IF l = 0 THEN seen ELSE l

-------------------------------------------------------------------------------
(* The user. *)

(* The page is loaded: its timers and requests of before are forgotten. *)
Load ==
  /\ server /\ handler = "none"
  /\ loads < MaxLoads /\ loads' = loads + 1
  /\ pc' = [c \in Chains |-> IF c = "load" THEN "ask" ELSE "off"]
  /\ retries' = 0 /\ reply' = [c \in Chains |-> 0]
  /\ shown' = "scanning"
  /\ UNCHANGED <<vars, asker, seen, rescans>>

(* doRescan: the button is disabled until the list is there. *)
ClickRescan ==
  /\ loads > 0
  /\ ChainGoto("rescan", "off", "clear")
  /\ rescans < MaxRescans /\ rescans' = rescans + 1
  /\ shown' = "scanning"
  /\ UNCHANGED <<vars, retries, reply, asker, seen, loads>>

-------------------------------------------------------------------------------
(* httpd and the chains. *)

Rescanned ==
  /\ ChainGoto("rescan", "clear", "pause")
  /\ Rescan
  /\ UNCHANGED <<retries, reply, asker, shown, seen, loads, rescans>>

Wake(c) ==
  /\ ChainGoto(c, "pause", "ask")
  /\ UNCHANGED <<vars, retries, reply, asker, shown, seen, loads, rescans>>

(* GET /scan of a chain, answered from the list or, once it is made, with it. *)
AskCached(c) ==
  /\ ChainGoto(c, "ask", "back")
  /\ server /\ handler = "none" /\ cached
  /\ reply' = [reply EXCEPT ![c] = list] /\ Sent(list)
  /\ UNCHANGED <<vars, retries, asker, shown, loads, rescans>>

Ask(c) ==
  /\ pc[c] = "ask"
  /\ ScanRequest
  /\ asker' = c
  /\ UNCHANGED <<pc, retries, reply, shown, seen, loads, rescans>>

AskOther ==
  /\ ScanRequest
  /\ asker' = "other"
  /\ UNCHANGED <<pc, retries, reply, shown, seen, loads, rescans>>

(* A page that was loaded anew, or has given the request up, hears nothing. *)
Answered ==
  /\ ScanAnswer
  /\ Sent(list')
  /\ asker' = "other"
  /\ IF asker \in Chains /\ pc[asker] = "ask"
     THEN /\ reply' = [reply EXCEPT ![asker] = list']
          /\ pc' = [pc EXCEPT ![asker] = "back"]
     ELSE UNCHANGED <<reply, pc>>
  /\ UNCHANGED <<retries, shown, loads, rescans>>

-------------------------------------------------------------------------------
(* The page with an answer, or without. *)

(* Mutant: the retries are not counted. *)
RetryForever ==
  /\ ChainGoto("load", "back", "pause")
  /\ reply["load"] = 0
  /\ shown' = "scanning"
  /\ UNCHANGED <<vars, retries, reply, asker, seen, loads, rescans>>

(* loadScan(retries + 1), in 2 s. *)
Retry ==
  /\ ChainGoto("load", "back", "pause")
  /\ reply["load"] = 0
  /\ retries < MaxRetries /\ retries' = retries + 1
  /\ shown' = "scanning"
  /\ UNCHANGED <<vars, reply, asker, seen, loads, rescans>>

(* renderAps. *)
Render(c) ==
  /\ ChainGoto(c, "back", "off")
  /\ c = "load" /\ reply[c] = 0 => retries = MaxRetries
  /\ shown' = Shown(reply[c])
  /\ UNCHANGED <<vars, retries, reply, asker, seen, loads, rescans>>

(* A request or its answer is lost: loadScan says so, doRescan catches
   nothing and leaves its button disabled. *)
Lost(c) ==
  /\ pc[c] \in {"clear", "ask", "back"}
  /\ pc' = [pc EXCEPT ![c] = IF c = "load" THEN "off" ELSE "stuck"]
  /\ shown' = IF c = "load" THEN "failed" ELSE shown
  /\ UNCHANGED <<vars, retries, reply, asker, seen, loads, rescans>>

-------------------------------------------------------------------------------
ChainStep(c) == Wake(c) \/ AskCached(c) \/ Ask(c) \/ Render(c) \/ Lost(c)
PageStep     == Rescanned \/ Answered \/ Retry \/ \E c \in Chains : ChainStep(c)

Other ==
  /\ \/ StartAp \/ Scan \/ ReadRecords \/ Serve \/ StopAp \/ Stopped \/ PollNothing
     \/ OnScanDone \/ Rescan \/ CaptiveDone
  /\ UNCHANGED browser

PageNext == Load \/ ClickRescan \/ PageStep \/ AskOther \/ Other

PageSpec == PageInit /\ [][PageNext]_pageVars

(* httpd runs, timers fire, and every request ends: with an answer, or lost. *)
PageFairSpec ==
  /\ PageSpec
  /\ WF_pageVars(Answered) /\ WF_pageVars(Retry)
  /\ \A c \in Chains : WF_pageVars(Wake(c)) /\ WF_pageVars(Render(c))
  /\ \A c \in Chains : WF_pageVars(AskCached(c) \/ Ask(c) \/ Lost(c))

-------------------------------------------------------------------------------
(* Networks that were sent to a page are there for the next one: neither the
   refresh button, which scans nothing, nor a late SCAN_DONE, after which the
   driver has no records left, turns the list of this prescan into an empty
   one (wifi_manager.c:573-586, http_server.c:340-344).  Alternating commands. *)
NetworksStay == cached /\ seen = scans => list = scans

(* A page that loads its list comes to an end, and a click on "refresh" does; the
   page does not stay at "scanning", but for a refresh whose request was lost,
   which nothing catches: the button stays disabled and, unless the list was
   still being loaded, the page says "scanning" for good (http_server.c:144-157,
   171-185). *)
PageSettles ==
  /\ \A c \in Chains : pc[c] \notin {"off", "stuck"} ~> pc[c] \in {"off", "stuck"}
  /\ loads > 0 /\ shown = "scanning" ~> shown # "scanning" \/ pc["rescan"] = "stuck"
===============================================================================
