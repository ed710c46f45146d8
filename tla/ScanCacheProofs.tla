--------------------------- MODULE ScanCacheProofs ----------------------------
(***************************************************************************)
(* Proofs about ScanCache and ScanPage for every number of prescans, faults, *)
(* loads, clicks and retries; unless said otherwise, when the STM32          *)
(* alternates START_AP and STOP_AP.                                         *)
(***************************************************************************)
EXTENDS ScanPage, TLAPS

(* Without a server there is no list and no request in progress, a prescan
   runs without a server, and what the driver or the manager holds is of the
   present prescan once it has begun. *)
CacheInv ==
  /\ mpc \in {"scan", "read", "serve"} => ~server
  /\ ~server => list = 0 /\ ~cached /\ ~portal /\ handler = "none"
  /\ found # 0 /\ mpc # "scan" => found = scans
  /\ handler = "full" => records = scans
  /\ RecordsAreCurrent
  /\ ListIsCurrent
  /\ PortalIsCurrent

(* What a fetch of current records brings in is current. *)
LEMMA FetchedIsCurrent ==
  ASSUME Fetch, found # 0 => found = scans
  PROVE  /\ got' /\ some' => records' = scans
         /\ found' = 0
<1>1. CASE found # 0
  BY <1>1 DEF Fetch
<1>2. CASE ~(found # 0)
  BY <1>2, Zenon DEF Fetch
<1> QED BY <1>1, <1>2

LEMMA CacheInvHolds == ASSUME Paired PROVE Spec => []CacheInv
<1>1. Init => CacheInv
  BY DEF Init, CacheInv, RecordsAreCurrent, ListIsCurrent, PortalIsCurrent, Redirected
<1>2. CacheInv /\ [Next]_vars => CacheInv'
  <2> SUFFICES ASSUME CacheInv, [Next]_vars PROVE CacheInv'
    OBVIOUS
  <2> USE DEF CacheInv, RecordsAreCurrent, ListIsCurrent, PortalIsCurrent, Redirected, Store, List, Portal, Page, Goto, Fault
  <2>1. CASE StartAp
    <3>1. ~server
      BY <2>1, Paired DEF StartAp
    <3> QED BY <2>1, <3>1 DEF StartAp
  <2>2. CASE Scan
    BY <2>2 DEF Scan
  <2>3. CASE ReadRecords
    <3>1. mpc = "read" /\ mpc' = "serve" /\ UNCHANGED <<cached, list, portal, loaded, server, handler, scans>>
      BY <2>3, Zenon DEF ReadRecords
    <3>2. CASE Fetch
      <4>1. (got' /\ some' => records' = scans) /\ found' = 0
        BY <3>1, <3>2, FetchedIsCurrent
      <4> QED BY <3>1, <4>1
    <3>3. CASE FetchFails
      BY <3>1, <3>3 DEF FetchFails
    <3> QED BY <2>3, <3>2, <3>3 DEF ReadRecords
  <2>4. CASE Serve
    BY <2>4 DEF Serve
  <2>5. CASE StopAp
    BY <2>5 DEF StopAp
  <2>6. CASE Stopped
    BY <2>6 DEF Stopped, NoList
  <2>7. CASE OnScanDone
    BY <2>7 DEF OnScanDone
  <2>8. CASE ScanRequest
    <3>1. server /\ UNCHANGED <<cached, list, portal, loaded, server, mpc, scans>>
      BY <2>8, Zenon DEF ScanRequest
    <3>2. handler' = "full" => got' /\ some'
      BY <2>8, Zenon DEF ScanRequest
    <3>3. CASE UNCHANGED <<Store, found>>
      BY <3>1, <3>2, <3>3
    <3>4. CASE Fetch
      <4>1. (got' /\ some' => records' = scans) /\ found' = 0
        BY <3>1, <3>4, FetchedIsCurrent
      <4> QED BY <3>1, <3>2, <4>1
    <3>5. CASE FetchFails
      BY <3>1, <3>2, <3>5 DEF FetchFails
    <3> QED BY <2>8, <3>3, <3>4, <3>5 DEF ScanRequest
  <2>9. CASE ScanAnswer
    BY <2>9 DEF ScanAnswer
  <2>10. CASE Rescan
    BY <2>10 DEF Rescan, NoList
  <2>11. CASE CaptiveDone
    BY <2>11 DEF CaptiveDone
  <2>12. CASE UNCHANGED vars
    BY <2>12 DEF vars
  <2> QED
    BY <2>1, <2>2, <2>3, <2>4, <2>5, <2>6, <2>7, <2>8, <2>9, <2>10, <2>11, <2>12
    DEF Next, PollNothing
<1> QED
  BY <1>1, <1>2, PTL DEF Spec

(* With alternating commands the page never shows the networks of an earlier
   provisioning. *)
THEOREM ListStaysCurrent == ASSUME Paired PROVE Spec => []ListIsCurrent
<1>1. CacheInv => ListIsCurrent
  BY DEF CacheInv
<1> QED
  BY <1>1, CacheInvHolds, PTL

(* With alternating commands the records offered are of the last prescan,
   whichever of main, httpd and a late SCAN_DONE brought them in. *)
THEOREM RecordsStayCurrent == ASSUME Paired PROVE Spec => []RecordsAreCurrent
<1>1. CacheInv => RecordsAreCurrent
  BY DEF CacheInv
<1> QED
  BY <1>1, CacheInvHolds, PTL

(* With alternating commands a visit of the page counts for the provisioning
   it was made in. *)
THEOREM PortalStaysCurrent == ASSUME Paired PROVE Spec => []PortalIsCurrent
<1>1. CacheInv => PortalIsCurrent
  BY DEF CacheInv
<1> QED
  BY <1>1, CacheInvHolds, PTL

-------------------------------------------------------------------------------
(* What a request in progress and the list say of the records. *)
EmptyInv ==
  /\ mpc \in {"scan", "read", "serve", "idle", "join"}
  /\ got /\ some => records # 0
  /\ handler \in {"none", "full", "empty"}
  /\ handler = "full"  => got /\ some
  /\ handler = "empty" => ~(got /\ some)
  /\ cached /\ got /\ some => list # 0

LEMMA FetchGivesRecords == ASSUME Fetch PROVE got' /\ some' => records' # 0
<1>1. CASE found # 0
  BY <1>1 DEF Fetch
<1>2. CASE found = 0
  BY <1>2, Zenon DEF Fetch
<1> QED BY <1>1, <1>2

LEMMA EmptyInvHolds == ASSUME Paired PROVE Spec => []EmptyInv
<1>1. Init => EmptyInv
  BY DEF Init, EmptyInv
<1>2. CacheInv /\ EmptyInv /\ [Next]_vars => EmptyInv'
  <2> SUFFICES ASSUME CacheInv, EmptyInv, [Next]_vars PROVE EmptyInv'
    OBVIOUS
  <2>0. /\ mpc \in {"scan", "read", "serve"} => ~server
        /\ ~server => ~cached /\ handler = "none"
    BY DEF CacheInv
  <2> USE DEF EmptyInv, Store, List, Portal, Page, Goto
  <2>1. CASE StartAp
    <3>1. ~cached /\ handler = "none"
      BY <2>0, <2>1, Paired DEF StartAp
    <3> QED BY <2>1, <3>1 DEF StartAp
  <2>2. CASE Scan
    BY <2>2 DEF Scan
  <2>3. CASE ReadRecords
    <3>1. ~cached /\ handler = "none" /\ mpc' = "serve" /\ UNCHANGED <<cached, handler>>
      BY <2>0, <2>3 DEF ReadRecords
    <3>2. got' /\ some' => records' # 0
      BY <2>3, FetchGivesRecords DEF ReadRecords, FetchFails
    <3> QED BY <3>1, <3>2
  <2>4. CASE Serve
    BY <2>4 DEF Serve
  <2>5. CASE StopAp
    BY <2>5 DEF StopAp
  <2>6. CASE Stopped
    BY <2>6 DEF Stopped, NoList
  <2>7. CASE OnScanDone
    BY <2>7 DEF OnScanDone
  <2>8. CASE ScanRequest
    <3>1. ~cached' /\ mpc' = mpc
      BY <2>8 DEF ScanRequest
    <3>2. got' /\ some' => records' # 0
      BY <2>8, FetchGivesRecords DEF ScanRequest, FetchFails
    <3>3. \/ handler' = "full" /\ got' /\ some'
          \/ handler' = "empty" /\ ~(got' /\ some')
      BY <2>8, Zenon DEF ScanRequest
    <3> QED BY <3>1, <3>2, <3>3
  <2>9. CASE ScanAnswer
    BY <2>9 DEF ScanAnswer
  <2>10. CASE Rescan
    BY <2>10 DEF Rescan, NoList
  <2>11. CASE CaptiveDone
    BY <2>11 DEF CaptiveDone
  <2>12. CASE UNCHANGED vars
    BY <2>12 DEF vars
  <2> QED
    BY <2>1, <2>2, <2>3, <2>4, <2>5, <2>6, <2>7, <2>8, <2>9, <2>10, <2>11, <2>12
    DEF Next, PollNothing
<1> QED
  BY <1>1, <1>2, CacheInvHolds, PTL DEF Spec

(* With alternating commands an empty list is never kept while the manager has
   networks to offer. *)
THEOREM EmptyListsAreTrue == ASSUME Paired PROVE Spec => []NoFalseEmpty
<1>1. EmptyInv => NoFalseEmpty
  BY DEF EmptyInv, NoFalseEmpty
<1> QED
  BY <1>1, EmptyInvHolds, PTL

-------------------------------------------------------------------------------
(* Types; an event is posted for each prescan that has ended. *)

BoolsOK ==
  /\ ready \in BOOLEAN /\ got \in BOOLEAN /\ some \in BOOLEAN
  /\ cached \in BOOLEAN /\ portal \in BOOLEAN /\ server \in BOOLEAN

CountInv ==
  /\ scans \in 0..MaxScans /\ records \in 0..MaxScans /\ list \in 0..MaxScans
  /\ loaded \in 0..MaxScans /\ found \in 0..MaxScans
  /\ done \in 0..scans /\ (mpc = "scan" => done < scans)
  /\ faults \in 0..MaxFaults
  /\ mpc \in {"idle", "scan", "read", "serve", "join"}
  /\ handler \in {"none", "full", "empty"}

LEMMA BoolsOKHolds == Spec => []BoolsOK
<1>1. Init => BoolsOK
  BY DEF Init, BoolsOK
<1>2. BoolsOK /\ [Next]_vars => BoolsOK'
  <2> SUFFICES ASSUME BoolsOK, [Next]_vars PROVE BoolsOK'
    OBVIOUS
  <2> USE DEF BoolsOK, Store, List, Portal, Page, NoList
  <2>1. CASE StartAp \/ Scan \/ Serve \/ StopAp \/ Stopped
    BY <2>1, Zenon DEF StartAp, Scan, Serve, StopAp, Stopped
  <2>2. CASE ReadRecords
    BY <2>2, Zenon DEF ReadRecords, Fetch, FetchFails
  <2>3. CASE ScanRequest
    BY <2>3, Zenon DEF ScanRequest, Fetch, FetchFails
  <2>4. CASE OnScanDone \/ ScanAnswer \/ Rescan \/ CaptiveDone
    BY <2>4, Zenon DEF OnScanDone, ScanAnswer, Rescan, CaptiveDone
  <2>5. CASE UNCHANGED vars
    BY <2>5, Zenon DEF vars
  <2> QED BY <2>1, <2>2, <2>3, <2>4, <2>5 DEF Next, PollNothing
<1> QED BY <1>1, <1>2, PTL DEF Spec

(* A fetch and its failure keep the numbers within their bounds. *)
LEMMA FetchCounts ==
  ASSUME CountInv, Fetch \/ FetchFails \/ UNCHANGED <<Store, found, faults>>
  PROVE  found' \in 0..MaxScans /\ records' \in 0..MaxScans /\ faults' \in 0..MaxFaults
<1>1. CASE Fetch
  BY <1>1, ScanAssumption DEF Fetch, CountInv
<1>2. CASE FetchFails
  BY <1>2, ScanAssumption DEF FetchFails, Fault, CountInv
<1> QED BY <1>1, <1>2 DEF CountInv, Store

LEMMA CountInvHolds == Spec => []CountInv
<1>1. Init => CountInv
  BY ScanAssumption DEF Init, CountInv
<1>2. CountInv /\ [Next]_vars => CountInv'
  <2> SUFFICES ASSUME CountInv, [Next]_vars PROVE CountInv'
    OBVIOUS
  <2> USE ScanAssumption DEF CountInv, Store, List, Portal, Page, NoList, Goto, Fault
  <2>1. CASE StartAp
    BY <2>1 DEF StartAp
  <2>2. CASE Scan
    BY <2>2 DEF Scan
  <2>3. CASE ReadRecords
    <3>1. Fetch \/ FetchFails
      BY <2>3, Zenon DEF ReadRecords
    <3> QED BY <2>3, <3>1, FetchCounts DEF ReadRecords
  <2>4. CASE Serve \/ StopAp \/ Stopped
    BY <2>4 DEF Serve, StopAp, Stopped
  <2>5. CASE OnScanDone
    BY <2>5 DEF OnScanDone
  <2>6. CASE ScanRequest
    <3>1. Fetch \/ FetchFails \/ UNCHANGED <<Store, found, faults>>
      BY <2>6, Zenon DEF ScanRequest
    <3>2. handler' \in {"full", "empty"} /\ UNCHANGED <<Page, done, mpc, scans>>
      BY <2>6 DEF ScanRequest
    <3> QED BY <3>1, <3>2, FetchCounts
  <2>7. CASE ScanAnswer \/ Rescan \/ CaptiveDone
    BY <2>7 DEF ScanAnswer, Rescan, CaptiveDone
  <2>8. CASE UNCHANGED vars
    BY <2>8 DEF vars
  <2> QED
    BY <2>1, <2>2, <2>3, <2>4, <2>5, <2>6, <2>7, <2>8 DEF Next, PollNothing
<1> QED BY <1>1, <1>2, PTL DEF Spec

(* Every variable stays in its set; in particular no more SCAN_DONE events wait
   than prescans were made. *)
THEOREM TypeCorrect == Spec => []TypeOK
<1>1. BoolsOK /\ CountInv => TypeOK
  <2> SUFFICES ASSUME BoolsOK, CountInv PROVE TypeOK
    OBVIOUS
  <2>1. {ready, got, some, cached, portal, server} \subseteq BOOLEAN
    BY Zenon DEF BoolsOK
  <2>2. done \in 0..MaxScans
    BY ScanAssumption DEF CountInv
  <2> QED BY <2>1, <2>2 DEF CountInv, TypeOK
<1> QED BY <1>1, BoolsOKHolds, CountInvHolds, PTL

-------------------------------------------------------------------------------
(* The page. *)

(* Whatever the page and the other phones do, the cache and the manager see
   the requests of ScanCache only, so all of the above holds beside the page. *)
LEMMA PageStepIsCacheStep == ASSUME [PageNext]_pageVars PROVE [Next]_vars
<1>1. CASE Load \/ ClickRescan \/ Retry \/ UNCHANGED pageVars
  BY <1>1 DEF Load, ClickRescan, Retry, pageVars
<1>2. CASE Rescanned \/ Answered \/ AskOther
  BY <1>2 DEF Rescanned, Answered, AskOther, Next
<1>3. ASSUME NEW c \in Chains, ChainStep(c) PROVE [Next]_vars
  BY <1>3 DEF ChainStep, Wake, AskCached, Ask, Render, Lost, Next
<1>4. CASE Other
  BY <1>4 DEF Other, Next
<1> QED
  BY <1>1, <1>2, <1>3, <1>4 DEF PageNext, PageStep

LEMMA PageIsCache == PageSpec => Spec
<1>1. PageInit => Init
  BY DEF PageInit
<1> QED
  BY <1>1, PageStepIsCacheStep, PTL DEF PageSpec, Spec

(* Networks that are listed, or were sent in this prescan, are of the records
   the manager still offers. *)
SeenInv ==
  /\ seen \in 0..scans
  /\ list # 0 => got /\ some
  /\ seen # 0 /\ seen = scans =>
       /\ got /\ some
       /\ mpc \notin {"scan", "read", "serve"}

(* Whoever answers, sends the list of the present prescan or an empty one. *)
LEMMA SentIsOffered ==
  ASSUME CacheInv, EmptyInv, CountInv, SeenInv,
         \/ server /\ handler = "none" /\ cached /\ Sent(list) /\ UNCHANGED vars
         \/ ScanAnswer /\ Sent(list')
  PROVE  SeenInv'
<1>1. CASE server /\ handler = "none" /\ cached /\ Sent(list) /\ UNCHANGED vars
  <2>1. CASE list = 0
    BY <1>1, <2>1 DEF SeenInv, Sent, vars, Store, List, Page
  <2>2. CASE list # 0
    <3>1. list = scans /\ got /\ some /\ mpc \notin {"scan", "read", "serve"}
      BY <1>1, <2>2 DEF CacheInv, ListIsCurrent, SeenInv
    <3> QED BY <1>1, <2>2, <3>1 DEF SeenInv, Sent, vars, Store, List, Page, CountInv
  <2> QED BY <2>1, <2>2
<1>2. CASE ScanAnswer /\ Sent(list')
  <2>1. UNCHANGED <<got, some, mpc, scans>>
    BY <1>2 DEF ScanAnswer, Store
  <2>2. CASE list' = 0
    BY <1>2, <2>1, <2>2 DEF SeenInv, Sent
  <2>3. CASE list' # 0
    <3>1. handler = "full" /\ list' = records
      <4>1. list' = IF handler = "full" THEN records ELSE 0
        BY <1>2 DEF ScanAnswer
      <4>2. CASE handler = "full"
        BY <4>1, <4>2, Zenon
      <4>3. CASE handler # "full"
        <5>1. list' = 0
          BY <4>1, <4>3, Zenon
        <5> QED BY <2>3, <5>1
      <4> QED BY <4>2, <4>3
    <3>2. records = scans /\ got /\ some /\ mpc \notin {"scan", "read", "serve"}
      BY <3>1 DEF CacheInv, EmptyInv
    <3> QED BY <1>2, <2>1, <2>3, <3>1, <3>2 DEF SeenInv, Sent, CountInv
  <2> QED BY <2>2, <2>3
<1> QED BY <1>1, <1>2

LEMMA SeenInvHolds == ASSUME Paired PROVE PageSpec => []SeenInv
<1>1. PageInit => SeenInv
  BY DEF PageInit, Init, SeenInv
<1>2. CacheInv /\ EmptyInv /\ CountInv /\ SeenInv /\ [PageNext]_pageVars => SeenInv'
  <2> SUFFICES ASSUME CacheInv, EmptyInv, CountInv, SeenInv, [PageNext]_pageVars
               PROVE  SeenInv'
    OBVIOUS
  <2>1. CASE UNCHANGED <<got, some, list, mpc, scans, seen>>
    BY <2>1 DEF SeenInv
  <2>2. CASE Answered
    BY <2>2, SentIsOffered DEF Answered
  <2>3. ASSUME NEW c \in Chains, AskCached(c) PROVE SeenInv'
    BY <2>3, SentIsOffered DEF AskCached
  <2>4. CASE ScanRequest /\ UNCHANGED seen
    <3>1. CASE ready /\ ~got
      BY <2>4, <3>1 DEF ScanRequest, SeenInv, Page, List
    <3>2. CASE ~(ready /\ ~got)
      BY <2>4, <3>2 DEF ScanRequest, SeenInv, Page, List, Store
    <3> QED BY <3>1, <3>2
  <2>5. CASE StartAp /\ UNCHANGED seen
    <3>1. list' = 0 /\ scans' = scans + 1 /\ seen' = seen
      BY <2>5, Paired DEF StartAp, CacheInv, Page, List
    <3> QED BY <3>1 DEF SeenInv, CountInv
  <2>6. CASE (Scan \/ ReadRecords) /\ UNCHANGED seen
    <3>1. list' = 0 /\ mpc \in {"scan", "read", "serve"} /\ UNCHANGED <<scans, seen>>
      BY <2>6 DEF Scan, ReadRecords, CacheInv, Page, List, Goto
    <3> QED BY <3>1 DEF SeenInv
  <2>7. CASE (Serve \/ StopAp) /\ UNCHANGED seen
    BY <2>7 DEF Serve, StopAp, SeenInv, Store, List, Page, Goto, CacheInv
  <2>8. CASE (Stopped \/ OnScanDone \/ Rescan \/ CaptiveDone \/ PollNothing) /\ UNCHANGED seen
    BY <2>8 DEF Stopped, OnScanDone, Rescan, CaptiveDone, PollNothing, SeenInv, Store, List, Page, NoList, Goto, vars
  <2>9. CASE Load \/ ClickRescan \/ Retry \/ UNCHANGED pageVars
    BY <2>9, <2>1 DEF Load, ClickRescan, Retry, pageVars, browser, vars, Store, List, Page
  <2>10. CASE Rescanned \/ AskOther
    BY <2>10, <2>4, <2>8 DEF Rescanned, AskOther
  <2>11. ASSUME NEW c \in Chains, ChainStep(c) PROVE SeenInv'
    BY <2>11, <2>1, <2>3, <2>4 DEF ChainStep, Wake, Ask, Render, Lost, vars, Store, List, Page
  <2>12. CASE Other
    BY <2>12, <2>5, <2>6, <2>7, <2>8 DEF Other, browser
  <2> QED
    BY <2>2, <2>9, <2>10, <2>11, <2>12 DEF PageNext, PageStep
<1> QED
  BY <1>1, <1>2, PageIsCache, CacheInvHolds, EmptyInvHolds, CountInvHolds, PTL DEF PageSpec

(* With alternating commands networks that were sent to a page once are sent
   to every later page of the same provisioning, whatever is refreshed. *)
THEOREM NetworksAlwaysStay == ASSUME Paired PROVE PageSpec => []NetworksStay
<1>1. CacheInv /\ EmptyInv /\ SeenInv => NetworksStay
  <2> SUFFICES ASSUME CacheInv, EmptyInv, SeenInv, cached, seen = scans
               PROVE  list = scans
    BY DEF NetworksStay
  <2>1. CASE seen = 0
    BY <2>1 DEF CacheInv, ListIsCurrent
  <2>2. CASE seen # 0
    BY <2>2 DEF CacheInv, ListIsCurrent, EmptyInv, SeenInv
  <2> QED BY <2>1, <2>2
<1> QED
  BY <1>1, PageIsCache, CacheInvHolds, EmptyInvHolds, SeenInvHolds, PTL

BrowserOK ==
  /\ pc \in [Chains -> {"off", "clear", "pause", "ask", "back", "stuck"}]
  /\ retries \in 0..MaxRetries
  /\ reply \in [Chains -> 0..MaxScans]
  /\ asker \in Chains \cup {"other"}
  /\ shown \in {"scanning", "failed", "none", "some"}
  /\ seen \in 0..MaxScans
  /\ loads \in 0..MaxLoads /\ rescans \in 0..MaxRescans

(* Every variable of the page and of the cache stays in its set: loadScan
   retries no more than MaxRetries times, whatever is clicked meanwhile. *)
THEOREM PageTypeCorrect == PageSpec => []PageTypeOK
<1>1. PageInit => BrowserOK
  BY ScanAssumption, ScanPageAssumption DEF PageInit, BrowserOK, Chains
<1>2. TypeOK /\ TypeOK' /\ BrowserOK /\ [PageNext]_pageVars => BrowserOK'
  <2> SUFFICES ASSUME TypeOK, TypeOK', BrowserOK, [PageNext]_pageVars PROVE BrowserOK'
    OBVIOUS
  <2>0. list \in 0..MaxScans /\ list' \in 0..MaxScans
    BY DEF TypeOK
  <2> USE ScanAssumption, ScanPageAssumption DEF BrowserOK
  <2>1. CASE UNCHANGED browser
    BY <2>1 DEF browser
  <2>2. CASE Load
    <3>1. pc' \in [Chains -> {"off", "clear", "pause", "ask", "back", "stuck"}]
      BY <2>2 DEF Load
    <3>2. reply' \in [Chains -> 0..MaxScans]
      BY <2>2 DEF Load
    <3> QED BY <2>2, <3>1, <3>2 DEF Load
  <2>3. CASE ClickRescan
    <3>1. pc' \in [Chains -> {"off", "clear", "pause", "ask", "back", "stuck"}]
      BY <2>3 DEF ClickRescan, ChainGoto
    <3>2. rescans' \in 0..MaxRescans
      BY <2>3 DEF ClickRescan
    <3> QED BY <2>3, <3>1, <3>2 DEF ClickRescan
  <2>4. CASE Rescanned
    BY <2>4 DEF Rescanned, ChainGoto
  <2>5. CASE Answered
    <3>1. seen' \in 0..MaxScans
      BY <2>0, <2>5 DEF Answered, Sent
    <3>2. reply' \in [Chains -> 0..MaxScans]
      BY <2>0, <2>5 DEF Answered
    <3>3. pc' \in [Chains -> {"off", "clear", "pause", "ask", "back", "stuck"}]
      BY <2>5 DEF Answered
    <3> QED BY <2>5, <3>1, <3>2, <3>3 DEF Answered
  <2>6. CASE Retry
    <3>1. pc' \in [Chains -> {"off", "clear", "pause", "ask", "back", "stuck"}]
      BY <2>6 DEF Retry, ChainGoto
    <3>2. retries' \in 0..MaxRetries
      BY <2>6 DEF Retry
    <3> QED BY <2>6, <3>1, <3>2 DEF Retry
  <2>7. CASE AskOther
    BY <2>7 DEF AskOther
  <2>8. ASSUME NEW c \in Chains, ChainStep(c) PROVE BrowserOK'
    <3>1. CASE Wake(c)
      BY <3>1 DEF Wake, ChainGoto
    <3>2. CASE AskCached(c)
      <4>1. seen' \in 0..MaxScans /\ reply' \in [Chains -> 0..MaxScans]
        BY <2>0, <3>2 DEF AskCached, Sent
      <4> QED BY <3>2, <4>1 DEF AskCached, ChainGoto
    <3>3. CASE Ask(c)
      BY <3>3 DEF Ask
    <3>4. CASE Render(c)
      BY <3>4 DEF Render, ChainGoto, Shown
    <3>5. CASE Lost(c)
      BY <3>5 DEF Lost
    <3> QED BY <2>8, <3>1, <3>2, <3>3, <3>4, <3>5 DEF ChainStep
  <2> QED
    BY <2>1, <2>2, <2>3, <2>4, <2>5, <2>6, <2>7, <2>8
    DEF PageNext, PageStep, Other, pageVars
<1>3. TypeOK /\ BrowserOK => PageTypeOK
  BY DEF BrowserOK, PageTypeOK
<1> QED
  BY <1>1, <1>2, <1>3, PageIsCache, TypeCorrect, PTL DEF PageSpec
===============================================================================
