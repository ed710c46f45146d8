------------------------------ MODULE MqttConfig ------------------------------
(***************************************************************************)
(* The MQTT configuration: the form of the configuration page, its two      *)
(* requests, and the seven keys that POST /mqtt-config writes one by one    *)
(* (main/http_server.c), on a module that boots and loses power as AppMain   *)
(* says.                                                                    *)
(*                                                                         *)
(* A value is the number of the edit that typed it; 0 is a field that is     *)
(* absent or blank.  The ports 1883 and 0 are values of their own.  One page *)
(* is open at a time, and any number of its saves can be under way.          *)
(* External: the browser, the radio link, and the flash, in which each      *)
(* nvs_set is one write that is there or not after a power loss.            *)
(***************************************************************************)
EXTENDS AppMain

CONSTANTS
  MaxEdits,    (* bound: edits of the user                                 *)
  MaxPages,    (* bound: loads of the page                                 *)
  MaxSaves,    (* bound: clicks on save                                    *)
  MaxFaults,   (* bound: failed calls of the flash and power losses        *)
  FailAt,      (* bound: the keys whose write may fail                     *)
  LongIds,     (* edits whose client_id has more than 127 characters       *)
  WildPorts,   (* edits whose port does not fit 16 bits                    *)
  CastPorts,   (* bound: the ports that converting such a port can give    *)
  BlankPorts   (* edits whose port is blank or 0                           *)

ASSUME MqttAssumption ==
  /\ MaxEdits \in Nat /\ MaxPages \in Nat /\ MaxSaves \in Nat /\ MaxFaults \in Nat
  /\ FailAt \subseteq 1..7
  /\ {LongIds, WildPorts, BlankPorts} \subseteq SUBSET (1..MaxEdits)
  /\ CastPorts \subseteq (1..MaxEdits + 2) \ WildPorts   (* MaxEdits + 2: Port0 *)

VARIABLES
  flash,     (* the keys of namespace mqtt                                 *)
  hpc,       (* httpd: "idle", "write", "tell" or "answer"                 *)
  posted,    (* the handler's values, also after it has ended              *)
  written,   (* the keys it is done with                                   *)
  opened,    (* err == ESP_OK                                              *)
  told,      (* the MQTT_CFG the STM32 received last                       *)
  last,      (* the save httpd took last                                   *)
  before,    (* history: flash when it was taken                           *)
  spoilt,    (* history: since then a write failed or a full flash was erased *)
  get,       (* page: its GET is "none", "asked", "answered" or "filled"   *)
  read,      (* what the answer to it says                                 *)
  form,      (* page: its fields                                           *)
  typed,     (* history: the fields that hold what the user typed          *)
  edits, pages,
  waiting,   (* saves that httpd has not taken                             *)
  heard,     (* page: the saves whose answer it waits for                  *)
  answers,   (* what is on its way to the page: <<save, verdict>>          *)
  reply,     (* page: "none", "waiting", "ok", "failed" or "lost"          *)
  shown,     (* history: the save that "ok" is about                       *)
  crossed,   (* history: another save was under way when the newest was sent *)
  sent, faults

request == <<hpc, posted, written, opened, told, last, before>>
page    == <<get, read, form, typed, edits, pages>>
link    == <<heard, answers, reply, shown>>
sends   == <<waiting, crossed, sent>>
vars    == <<appVars, flash, spoilt, request, page, link, sends, faults>>

(* host, port, client_id, username, password, sub_topic, pub_topic: the order
   of the writes. *)
Fields   == 1..7
Host     == 1
Port     == 2
ClientId == 3
Password == 5

Port1883 == MaxEdits + 1
Port0    == MaxEdits + 2
Values   == 0..Port0
Config   == [Fields -> Values]
Blank    == [f \in Fields |-> 0]
Empty    == [Blank EXCEPT ![Port] = Port1883]   (* the form of a new page *)

(* A save: its body, the fields of it that were typed, and what the page had
   been filled from. *)
Saves    == [n: 0..MaxSaves, body: Config, typed: SUBSET Fields, basis: SUBSET Config]
Verdicts == {"ok", "failed", "lost"}

IsLong(f, v) == f = ClientId /\ v \in LongIds

TypeOK ==
  /\ AppTypeOK
  /\ {flash, posted, told, before, read, form} \subseteq Config
  /\ hpc \in {"idle", "write", "tell", "answer"}
  /\ written \in 0..7
  /\ {opened, spoilt, crossed} \subseteq BOOLEAN
  /\ last \in Saves /\ waiting \subseteq Saves
  /\ get \in {"none", "asked", "answered", "filled"}
  /\ typed \subseteq Fields /\ edits \in 0..MaxEdits /\ pages \in 0..MaxPages
  /\ heard \subseteq 1..MaxSaves /\ answers \subseteq heard \X Verdicts
  /\ reply \in Verdicts \cup {"none", "waiting"}
  /\ {shown, sent} \subseteq 0..MaxSaves /\ faults \in 0..MaxFaults

Init ==
  /\ AppInit
  /\ flash = Blank /\ spoilt = FALSE
  /\ hpc = "idle" /\ posted = Blank /\ written = 0 /\ opened = FALSE
  /\ told = Blank /\ before = Blank
  /\ last = [n |-> 0, body |-> Blank, typed |-> {}, basis |-> {}]
  /\ get = "none" /\ read = Blank /\ form = Blank /\ typed = {}
  /\ edits = 0 /\ pages = 0
  /\ waiting = {} /\ crossed = FALSE /\ sent = 0
  /\ heard = {} /\ answers = {} /\ reply = "none" /\ shown = 0
  /\ faults = 0

-------------------------------------------------------------------------------
(* The module under the handler: it boots and loses power. *)

Fault == faults < MaxFaults /\ faults' = faults + 1

Booting == BootStep \/ NvsInit
Quiet   == UNCHANGED <<flash, spoilt, request, page, link, sends, faults>>
Erase   == NvsErase /\ flash' = Blank /\ spoilt' = (spoilt \/ full)

(* Every request that is not answered breaks. *)
Dies ==
  /\ Restart /\ Fault
  /\ hpc' = "idle" /\ waiting' = {}
  /\ answers' = answers \cup {<<n, "lost">> : n \in {m \in heard : \A v \in Verdicts : <<m, v>> \notin answers}}
  /\ get' = IF get = "asked" THEN "none" ELSE get
  /\ UNCHANGED <<flash, spoilt, posted, written, opened, told, last, before,
                 read, form, typed, edits, pages, heard, reply, shown, crossed, sent>>

-------------------------------------------------------------------------------
(* The page. *)

LoadPage ==
  /\ boot = "ready" /\ pages < MaxPages /\ pages' = pages + 1
  /\ get' = "asked" /\ read' = Blank /\ form' = Empty /\ typed' = {}
  /\ heard' = {} /\ answers' = {} /\ reply' = "none" /\ shown' = 0
  /\ UNCHANGED <<appVars, flash, spoilt, request, edits, sends, faults>>

(* What the answer gives: strings are read into 128 bytes, longer ones are left
   out like absent ones, and the password is never asked for; a blank string and
   port 0 are given, but the page does not take them. *)
Given(f) == f # Password /\ read[f] # 0 /\ ~(f = Port /\ read[f] = Port0) /\ ~IsLong(f, read[f])

(* Mutant: the page is filled from the client_id on. *)
FillSkips ==
  /\ get = "answered" /\ get' = "filled"
  /\ form' = [f \in Fields |-> IF Given(f) /\ f > Port THEN read[f] ELSE form[f]]
  /\ typed' = {f \in typed : ~Given(f)}
  /\ UNCHANGED <<appVars, flash, spoilt, request, read, edits, pages, link, sends, faults>>

(* The answer comes, whenever that is, and takes the place of what was typed. *)
Fill ==
  /\ get = "answered" /\ get' = "filled"
  /\ form' = [f \in Fields |-> IF Given(f) THEN read[f] ELSE form[f]]
  /\ typed' = {f \in typed : ~Given(f)}
  /\ UNCHANGED <<appVars, flash, spoilt, request, read, edits, pages, link, sends, faults>>

(* It never comes, which the page does not show. *)
LoseGet ==
  /\ get \in {"asked", "answered"} /\ get' = "none" /\ read' = Blank
  /\ UNCHANGED <<appVars, flash, spoilt, request, form, typed, edits, pages, link, sends, faults>>

(* The user corrects the host, or fills in everything. *)
Type ==
  /\ pages > 0 /\ edits < MaxEdits /\ edits' = edits + 1
  /\ \E F \in {Fields, {Host}} :
       /\ form' = [f \in Fields |-> IF f \notin F THEN form[f]
                                    ELSE IF f = Port /\ edits' \in BlankPorts THEN 0 ELSE edits']
       /\ typed' = typed \cup F
  /\ UNCHANGED <<appVars, flash, spoilt, request, get, read, pages, link, sends, faults>>

(* saveMqtt: each click sends what the form shows, whatever is under way. *)
Submit ==
  /\ boot = "ready" /\ pages > 0 /\ sent < MaxSaves
  /\ sent' = sent + 1
  /\ waiting' = waiting \cup
       {[n |-> sent', body |-> IF form[Port] = 0 THEN [form EXCEPT ![Port] = Port1883] ELSE form,
         typed |-> typed, basis |-> IF get = "filled" THEN {read} ELSE {}]}
  /\ crossed' = (heard # {} \/ waiting # {} \/ hpc # "idle")
  /\ heard' = heard \cup {sent'} /\ reply' = "waiting" /\ shown' = 0
  /\ UNCHANGED <<appVars, flash, spoilt, request, page, answers, faults>>

(* The answer to a save is shown over what was shown before. *)
Show(n) ==
  /\ n \in heard
  /\ \E v \in Verdicts :
       /\ <<n, v>> \in answers
       /\ reply' = v /\ shown' = IF v = "ok" THEN n ELSE 0
  /\ heard' = heard \ {n}
  /\ answers' = {a \in answers : a[1] # n}
  /\ UNCHANGED <<appVars, flash, spoilt, request, page, sends, faults>>

(* The page loses its link: the save may still arrive. *)
Lose(n) ==
  /\ n \in heard
  /\ reply' = "lost" /\ shown' = 0 /\ heard' = heard \ {n}
  /\ answers' = {a \in answers : a[1] # n}
  /\ UNCHANGED <<appVars, flash, spoilt, request, page, sends, faults>>

-------------------------------------------------------------------------------
(* httpd: one task for both requests. *)

Goto(from, to) == hpc = from /\ hpc' = to

Respond(n, v) ==
  /\ answers' = answers \cup (IF n \in heard THEN {<<n, v>>} ELSE {})
  /\ UNCHANGED <<heard, reply, shown>>

(* handler_mqtt_get; a namespace that cannot be opened reads as empty. *)
AnswerGet ==
  /\ hpc = "idle" /\ boot = "ready"
  /\ get = "asked" /\ get' = "answered"
  /\ \/ read' = flash /\ UNCHANGED faults
     \/ read' = Blank /\ Fault
  /\ UNCHANGED <<appVars, flash, spoilt, request, form, typed, edits, pages, link, sends>>

(* handler_mqtt_post: the task takes a save of any connection, not the oldest. *)
Receive(s) ==
  /\ hpc = "idle" /\ boot = "ready"
  /\ s \in waiting /\ waiting' = waiting \ {s}
  /\ UNCHANGED <<crossed, sent>>

(* A body that is cut at 383 bytes or arrives in pieces is refused, with an
   answer the page cannot parse; one that never arrives is lost. *)
Refuse(s) ==
  /\ Receive(s)
  /\ Respond(s.n, "lost")
  /\ UNCHANGED <<appVars, flash, spoilt, request, page, faults>>

RefuseHost(s) ==
  /\ Receive(s) /\ s.body[Host] = 0
  /\ Respond(s.n, "failed")
  /\ UNCHANGED <<appVars, flash, spoilt, request, page, faults>>

(* What (uint16_t)valuedouble makes of a port: undefined when it does not fit,
   and possibly 0. *)
Converted(v) == IF v \in WildPorts THEN CastPorts ELSE {v}

Parse(s) ==
  /\ Receive(s) /\ s.body[Host] # 0
  /\ \E p \in Converted(s.body[Port]) : posted' = [s.body EXCEPT ![Port] = p]
  /\ last' = s /\ before' = flash /\ spoilt' = FALSE
  /\ written' = 0
  /\ UNCHANGED <<appVars, flash, told, page, link>>

(* Mutant: a failed nvs_open returns without an answer. *)
TakeSilent(s) ==
  /\ Parse(s)
  /\ \/ hpc' = "write" /\ opened' = TRUE /\ UNCHANGED faults
     \/ hpc' = "idle" /\ opened' = FALSE /\ Fault

(* The body is parsed and nvs_open is called. *)
Take(s) ==
  /\ Parse(s)
  /\ \/ hpc' = "write" /\ opened' = TRUE /\ UNCHANGED faults
     \/ hpc' = "tell" /\ opened' = FALSE /\ Fault

Stays == UNCHANGED <<appVars, posted, opened, told, last, before, page, link, sends>>

(* Mutant: a blank field keeps what was stored. *)
WriteKeepsOld ==
  /\ hpc = "write"
  /\ written' = written + 1
  /\ hpc' = IF written' = 7 THEN "tell" ELSE "write"
  /\ flash' = IF posted[written'] = 0 THEN flash ELSE [flash EXCEPT ![written'] = posted[written']]
  /\ UNCHANGED <<spoilt, faults>>
  /\ Stays

(* Mutant: the keys are written from the last to the first. *)
WriteBackwards ==
  /\ hpc = "write"
  /\ written' = written + 1
  /\ hpc' = IF written' = 7 THEN "tell" ELSE "write"
  /\ flash' = [flash EXCEPT ![8 - written'] = posted[8 - written']]
  /\ UNCHANGED <<spoilt, faults>>
  /\ Stays

(* One nvs_set, whose result nobody looks at. *)
Write ==
  /\ hpc = "write"
  /\ written' = written + 1
  /\ hpc' = IF written' = 7 THEN "tell" ELSE "write"
  /\ \/ flash' = [flash EXCEPT ![written'] = posted[written']] /\ UNCHANGED <<spoilt, faults>>
     \/ written' \in FailAt /\ UNCHANGED flash /\ spoilt' = TRUE /\ Fault
  /\ Stays

(* Mutant: the event carries the port as it was. *)
TellOldPort ==
  /\ Goto("tell", "answer")
  /\ told' = [posted EXCEPT ![Port] = before[Port], ![Password] = 0]
  /\ UNCHANGED <<appVars, flash, spoilt, posted, written, opened, last, before, page, link, sends, faults>>

(* MQTT_CFG without the password, as far as it fits its 127 characters. *)
Event(c) == [f \in Fields |->
  IF f = Password \/ (f >= ClientId /\ IsLong(ClientId, c[ClientId])) THEN 0 ELSE c[f]]

(* The event goes out also when nothing was saved. *)
Tell ==
  /\ Goto("tell", "answer")
  /\ told' = Event(posted)
  /\ UNCHANGED <<appVars, flash, spoilt, posted, written, opened, last, before, page, link, sends, faults>>

Answer ==
  /\ Goto("answer", "idle")
  /\ Respond(last.n, IF opened THEN "ok" ELSE "failed")
  /\ UNCHANGED <<appVars, flash, spoilt, posted, written, opened, told, last, before, page, sends, faults>>

-------------------------------------------------------------------------------
Handler   == (\E s \in waiting : RefuseHost(s) \/ Take(s)) \/ Write \/ Tell \/ Answer
Delivered == \E n \in heard : Show(n)
User      == LoadPage \/ Type \/ Submit
Radio     == Fill \/ LoseGet \/ Delivered \/ \E n \in heard : Lose(n)

(* No command on the UART: app_main goes round its loop. *)
PollNothing == boot = "ready" /\ UNCHANGED vars

Next ==
  \/ PollNothing
  \/ Booting /\ Quiet
  \/ Erase /\ UNCHANGED <<request, page, link, sends, faults>>
  \/ Dies
  \/ User
  \/ Radio
  \/ AnswerGet
  \/ Handler
  \/ \E s \in waiting : Refuse(s)

Spec == Init /\ [][Next]_vars

(* httpd gets the processor, and what it answers reaches the page or is lost. *)
FairSpec == Spec /\ WF_vars(Handler) /\ WF_vars(Delivered)

-------------------------------------------------------------------------------
(* The save that the page shows a verdict on is not the one httpd took last:
   they were under way together, and httpd takes them in either order. *)
Overtaken == crossed /\ shown # last.n

(* "保存成功" on the page means that the flash holds what the form showed at the
   click, the fields left blank included (a blank port or 0 as 1883), whatever
   earlier saves left half done.
   Not so when several saves were under way and an older one was taken last
   (Overtaken), when a write failed, which the handler does not notice, or when
   the partition was erased since; a port out of range becomes any other
   (http_server.c:217-235, 479-514). *)
SuccessIsSaved ==
  reply = "ok" /\ ~spoilt =>
    \/ Overtaken
    \/ /\ shown = last.n /\ hpc = "idle"
       /\ \A f \in Fields :
            flash[f] = last.body[f] \/ (f = Port /\ last.body[f] \in WildPorts)

(* After a save that the page knows of, the STM32 and the flash agree on every
   field the event carries, also on a port whose conversion is undefined; with
   the exceptions of SuccessIsSaved (http_server.c:479-514). *)
SuccessIsTold ==
  reply = "ok" /\ ~spoilt =>
    \/ Overtaken
    \/ /\ shown = last.n /\ hpc = "idle"
       /\ \A f \in Fields \ {Password} :
            told[f] = flash[f] \/ (f >= ClientId /\ IsLong(ClientId, flash[ClientId]))

(* Power losses, boots and failed opens leave the beginning of the save taken
   last over what was stored when it was taken: the host is never older than what
   follows it (http_server.c:489-495), and only a partition without a free
   page is erased at boot (app_main.c:47-52). *)
CrashLeavesPrefix ==
  ~spoilt => \E k \in 0..7 :
    flash = [f \in Fields |-> IF f <= k THEN posted[f] ELSE before[f]]

(* A save from a page that was filled with what is stored when the save is taken
   changes no field but those typed after the page was filled, however late that
   was, and the password; a client_id too long to be read back is lost, and a
   stored port 0 and one never stored become 1883.  A page whose GET failed or
   was not answered yet promises nothing: its blanks are saved
   (http_server.c:129-140, 425-433). *)
OnlyTypedChanges ==
  ~spoilt /\ last.basis = {before} =>
    \A f \in Fields \ (last.typed \cup {Password}) :
      \/ flash[f] = before[f]
      \/ IsLong(f, before[f])
      \/ f = Port /\ before[f] \in {0, Port0} /\ flash[f] = Port1883

(* Stored keys go all at once only when the partition has no free page, never
   on another error at boot (app_main.c:47-52). *)
ErasedOnlyWhenFull ==
  [][\A f, g \in Fields : flash'[f] # flash[f] /\ flash'[g] # flash[g] /\ f # g => full]_vars

(* Every save that the page waits for is answered or its link is lost: after the
   user's last click it comes to wait for none (http_server.c:230-234, 465-514). *)
SaveAnswered == heard # {} ~> heard = {}
===============================================================================
