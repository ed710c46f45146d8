--------------------------- MODULE MqttConfigProofs ---------------------------
(***************************************************************************)
(* Proofs about AppMain and MqttConfig for every number of edits, pages,    *)
(* saves, failed calls and power losses, every long client_id and every port *)
(* that is blank or out of range.                                           *)
(***************************************************************************)
EXTENDS MqttConfig, TLAPS

(* A step of the page, the link or httpd leaves app_main alone. *)
Idle == UNCHANGED appVars

(* Erase and what MqttConfig leaves alone with it. *)
Erases == Erase /\ UNCHANGED <<request, page, link, sends, faults>>

LEMMA PageIsIdle ==
  ASSUME User \/ Radio \/ AnswerGet \/ UNCHANGED vars PROVE Idle
<1>1. CASE User
  BY <1>1, Zenon DEF User, LoadPage, Type, Submit, Idle
<1>2. CASE Radio
  BY <1>2, Zenon DEF Radio, Delivered, Fill, LoseGet, Show, Lose, Idle
<1>3. CASE AnswerGet
  BY <1>3, Zenon DEF AnswerGet, Idle
<1>4. CASE UNCHANGED vars
  BY <1>4 DEF vars, Idle
<1> QED BY <1>1, <1>2, <1>3, <1>4

LEMMA HandlerIsIdle ==
  ASSUME Handler \/ \E s \in waiting : Refuse(s) PROVE Idle
<1>1. ASSUME NEW s \in waiting, Refuse(s) \/ RefuseHost(s) \/ Take(s) PROVE Idle
  BY <1>1, Zenon DEF Refuse, RefuseHost, Take, Parse, Idle
<1>2. CASE Write
  BY <1>2, Zenon DEF Write, Stays, Idle
<1>3. CASE Tell \/ Answer
  BY <1>3, Zenon DEF Tell, Answer, Idle
<1> QED BY <1>1, <1>2, <1>3, Zenon DEF Handler

(* The module's own state: its types, and that only a full partition comes to be
   erased. *)
BootInv == AppTypeOK /\ (boot = "erase" => full)

LEMMA BootInvHolds == Spec => []BootInv
<1>1. Init => BootInv
  BY DEF Init, AppInit, BootInv, AppTypeOK, BootStages
<1>2. BootInv /\ [Next]_vars => BootInv'
  <2> SUFFICES ASSUME BootInv, [Next]_vars PROVE BootInv'
    OBVIOUS
  <2>1. CASE Idle
    BY <2>1 DEF Idle, appVars, BootInv, AppTypeOK
  <2>2. CASE Booting \/ NvsErase
    BY <2>2 DEF Booting, BootStep, NvsInit, NvsErase, BootGoto, BootInv, AppTypeOK, BootStages
  <2>3. CASE Restart
    <3>1. full' \in BOOLEAN
      BY <2>3, Zenon DEF Restart, BootInv, AppTypeOK
    <3> QED BY <2>3, <3>1 DEF Restart, BootInv, AppTypeOK, BootStages
  <2>4. CASE PollNothing
    BY <2>4, PageIsIdle, <2>1 DEF PollNothing
  <2> QED BY <2>1, <2>2, <2>3, <2>4, PageIsIdle, HandlerIsIdle DEF Next, Erase, Dies
<1> QED BY <1>1, <1>2, PTL DEF Spec

-------------------------------------------------------------------------------
(* Types, and that the handler writes while keys are left. *)

RestTypeOK ==
  /\ flash \in Config /\ posted \in Config /\ told \in Config
  /\ before \in Config /\ read \in Config /\ form \in Config
  /\ hpc \in {"idle", "write", "tell", "answer"}
  /\ written \in 0..7 /\ (hpc = "write" => written < 7)
  /\ opened \in BOOLEAN /\ spoilt \in BOOLEAN /\ crossed \in BOOLEAN
  /\ last \in Saves /\ waiting \subseteq Saves
  /\ get \in {"none", "asked", "answered", "filled"}
  /\ typed \subseteq Fields /\ edits \in 0..MaxEdits /\ pages \in 0..MaxPages
  /\ heard \subseteq 1..MaxSaves /\ answers \subseteq heard \X Verdicts
  /\ reply \in Verdicts \cup {"none", "waiting"}
  /\ shown \in 0..MaxSaves /\ sent \in 0..MaxSaves /\ faults \in 0..MaxFaults

LEMMA BlankIsConfig == Blank \in Config /\ Empty \in Config
<1>1. 0 \in Values /\ Port1883 \in Values
  BY MqttAssumption DEF Values, Port1883, Port0
<1>2. Blank \in Config
  BY <1>1 DEF Blank, Config
<1> QED BY <1>1, <1>2 DEF Empty, Config

(* What a port in or out of range becomes is a value in range. *)
LEMMA ConvertedInRange ==
  ASSUME NEW v \in Values, NEW p \in Converted(v)
  PROVE  p \in Values /\ p \notin WildPorts
  BY MqttAssumption DEF Converted, Values, Port0

LEMMA EventIsConfig == ASSUME NEW c \in Config PROVE Event(c) \in Config
  BY MqttAssumption DEF Event, Config, Values, Fields, Port0

LEMMA FaultIsCounted ==
  ASSUME RestTypeOK, Fault \/ UNCHANGED faults PROVE faults' \in 0..MaxFaults
  BY MqttAssumption DEF RestTypeOK, Fault

LEMMA TypeInit == Init => RestTypeOK
<1> SUFFICES ASSUME Init PROVE RestTypeOK
  OBVIOUS
<1>1. opened \in BOOLEAN /\ spoilt \in BOOLEAN /\ crossed \in BOOLEAN
  BY Zenon DEF Init
<1>2. /\ edits \in 0..MaxEdits /\ pages \in 0..MaxPages /\ faults \in 0..MaxFaults
      /\ shown \in 0..MaxSaves /\ sent \in 0..MaxSaves
  BY MqttAssumption DEF Init
<1>3. /\ flash \in Config /\ posted \in Config /\ told \in Config
      /\ before \in Config /\ read \in Config /\ form \in Config
  BY BlankIsConfig, Zenon DEF Init
<1>4. last \in Saves
  BY BlankIsConfig, MqttAssumption DEF Init, Saves
<1> QED BY <1>1, <1>2, <1>3, <1>4 DEF Init, RestTypeOK

LEMMA TypeUser == ASSUME RestTypeOK, User PROVE RestTypeOK'
<1> USE DEF RestTypeOK
<1>1. CASE LoadPage
  <2>1. pages' \in 0..MaxPages
    BY <1>1, MqttAssumption DEF LoadPage
  <2>2. UNCHANGED <<flash, posted, told, before, hpc, written, opened, spoilt, crossed,
                    last, waiting, edits, sent, faults>>
    BY <1>1, Zenon DEF LoadPage, request, sends
  <2>3. /\ get' = "asked" /\ read' = Blank /\ form' = Empty /\ typed' = {}
        /\ heard' = {} /\ answers' = {} /\ reply' = "none" /\ shown' = 0
    BY <1>1, Zenon DEF LoadPage
  <2> QED BY <2>1, <2>2, <2>3, BlankIsConfig, MqttAssumption
<1>2. CASE Type
  <2>1. edits' = edits + 1 /\ edits' \in Values /\ edits' \in 0..MaxEdits
    BY <1>2, MqttAssumption DEF Type, Values, Port0
  <2>2. PICK F \in {Fields, {Host}} :
          /\ form' = [f \in Fields |-> IF f \notin F THEN form[f]
                                       ELSE IF f = Port /\ edits' \in BlankPorts THEN 0 ELSE edits']
          /\ typed' = typed \cup F
    BY <1>2 DEF Type
  <2>3. 0 \in Values
    BY MqttAssumption DEF Values, Port0
  <2>4. form' \in Config /\ typed' \subseteq Fields
    BY <2>1, <2>2, <2>3 DEF Config, Fields, Host
  <2>5. UNCHANGED <<flash, spoilt, request, get, read, pages, link, sends, faults>>
    BY <1>2, Zenon DEF Type
  <2> QED BY <2>1, <2>4, <2>5 DEF request, link, sends
<1>3. CASE Submit
  <2> DEFINE Body == IF form[Port] = 0 THEN [form EXCEPT ![Port] = Port1883] ELSE form
             Save == [n |-> sent', body |-> Body, typed |-> typed,
                      basis |-> IF get = "filled" THEN {read} ELSE {}]
  <2>1. sent' = sent + 1 /\ sent' \in 1..MaxSaves
    BY <1>3, MqttAssumption DEF Submit
  <2>2. Body \in Config
    BY MqttAssumption DEF Config, Fields, Values, Port, Port1883, Port0
  <2>3. Save \in Saves
    BY <2>1, <2>2 DEF Saves
  <2>4. /\ waiting' = waiting \cup {Save} /\ heard' = heard \cup {sent'}
        /\ reply' = "waiting" /\ shown' = 0 /\ crossed' \in BOOLEAN
    BY <1>3, Zenon DEF Submit
  <2>5. UNCHANGED <<flash, spoilt, request, page, answers, faults>>
    BY <1>3, Zenon DEF Submit
  <2> HIDE DEF Save
  <2>6. waiting' \subseteq Saves /\ heard' \subseteq 1..MaxSaves /\ answers' \subseteq heard' \X Verdicts
    BY <2>1, <2>3, <2>4, <2>5
  <2>7. shown' \in 0..MaxSaves
    BY <2>4, MqttAssumption
  <2> QED BY <2>1, <2>4, <2>5, <2>6, <2>7 DEF request, page
<1> QED BY <1>1, <1>2, <1>3 DEF User

LEMMA TypeRadio == ASSUME RestTypeOK, Radio \/ AnswerGet PROVE RestTypeOK'
<1> USE DEF RestTypeOK
<1>1. CASE Fill
  <2>1. form' \in Config /\ typed' \subseteq Fields /\ get' = "filled"
    BY <1>1 DEF Fill, Config
  <2> QED BY <1>1, <2>1 DEF Fill, request, link, sends
<1>2. CASE LoseGet
  BY <1>2, BlankIsConfig DEF LoseGet, request, link, sends
<1>3. ASSUME NEW n \in heard, Show(n) \/ Lose(n) PROVE RestTypeOK'
  <2>1. /\ heard' = heard \ {n} /\ answers' = {a \in answers : a[1] # n}
        /\ UNCHANGED <<flash, spoilt, request, page, sends, faults>>
    BY <1>3, Zenon DEF Show, Lose
  <2>2. reply' \in Verdicts /\ shown' \in 0..MaxSaves
    BY <1>3, MqttAssumption DEF Show, Lose, Verdicts
  <2>3. answers' \subseteq heard' \X Verdicts
    BY <2>1
  <2> QED BY <2>1, <2>2, <2>3 DEF request, page, sends
<1>4. CASE AnswerGet
  <2>1. faults' \in 0..MaxFaults
    BY <1>4, FaultIsCounted DEF AnswerGet
  <2>2. read' \in Config
    BY <1>4, BlankIsConfig DEF AnswerGet
  <2> QED BY <1>4, <2>1, <2>2 DEF AnswerGet, request, link, sends
<1> QED BY <1>1, <1>2, <1>3, <1>4 DEF Radio, Delivered

(* What an answer puts on its way to the page. *)
LEMMA TypeRespond ==
  ASSUME RestTypeOK, NEW n, NEW v \in Verdicts, Respond(n, v)
  PROVE  /\ answers' \subseteq heard' \X Verdicts /\ heard' = heard
         /\ reply' = reply /\ shown' = shown
  BY DEF RestTypeOK, Respond

LEMMA TypeHandler ==
  ASSUME RestTypeOK, Handler \/ \E s \in waiting : Refuse(s) PROVE RestTypeOK'
<1>1. ASSUME NEW s \in waiting, Refuse(s) \/ RefuseHost(s) PROVE RestTypeOK'
  <2>1. \E v \in Verdicts : Respond(s.n, v)
    BY <1>1 DEF Refuse, RefuseHost, Verdicts
  <2>2. /\ answers' \subseteq heard' \X Verdicts /\ heard' = heard
        /\ reply' = reply /\ shown' = shown
    BY <2>1, TypeRespond
  <2>3. /\ waiting' \subseteq waiting /\ UNCHANGED <<crossed, sent>>
        /\ UNCHANGED <<flash, spoilt, request, page, faults>>
    BY <1>1 DEF Refuse, RefuseHost, Receive
  <2> QED BY <2>2, <2>3 DEF RestTypeOK, request, page
<1>2. ASSUME NEW s \in waiting, Take(s) PROVE RestTypeOK'
  <2>1. s \in Saves /\ s.body \in Config /\ s.body[Port] \in Values
    BY DEF RestTypeOK, Saves, Config, Fields, Port
  <2>2. PICK p \in Converted(s.body[Port]) : posted' = [s.body EXCEPT ![Port] = p]
    BY <1>2 DEF Take, Parse
  <2>3. posted' \in Config
    BY <2>1, <2>2, ConvertedInRange DEF Config
  <2>4. /\ last' = s /\ before' = flash /\ spoilt' = FALSE /\ written' = 0
        /\ waiting' \subseteq waiting /\ UNCHANGED <<crossed, sent>>
        /\ UNCHANGED <<flash, told, page, link>>
    BY <1>2 DEF Take, Parse, Receive
  <2>5. hpc' \in {"write", "tell"} /\ opened' \in BOOLEAN /\ spoilt' \in BOOLEAN
    BY <1>2, Zenon DEF Take, Parse
  <2>8. (hpc' = "write" => written' < 7) /\ written' \in 0..7
    BY <2>4
  <2>6. faults' \in 0..MaxFaults
    BY <1>2, FaultIsCounted DEF Take
  <2>7. UNCHANGED <<get, read, form, typed, edits, pages, heard, answers, reply, shown>>
    BY <2>4 DEF page, link
  <2> QED BY <2>1, <2>3, <2>4, <2>5, <2>6, <2>7, <2>8 DEF RestTypeOK
<1>3. CASE Write
  <2>1. written' = written + 1 /\ hpc' = IF written' = 7 THEN "tell" ELSE "write"
    BY <1>3 DEF Write
  <2>2. written' \in Fields
    BY <1>3, <2>1 DEF RestTypeOK, Fields, Write
  <2>3. flash' = [flash EXCEPT ![written'] = posted[written']] \/ flash' = flash
    BY <1>3, Zenon DEF Write
  <2>4. flash' \in Config
    BY <2>2, <2>3 DEF RestTypeOK, Config
  <2>5. spoilt' \in BOOLEAN
    BY <1>3, Zenon DEF RestTypeOK, Write
  <2>6. faults' \in 0..MaxFaults
    BY <1>3, FaultIsCounted DEF Write
  <2>7. UNCHANGED <<posted, opened, told, last, before, page, link, sends>>
    BY <1>3, Zenon DEF Write, Stays
  <2>8. written' \in 0..7 /\ (hpc' = "write" => written' < 7) /\ hpc' \in {"write", "tell"}
    BY <2>1, <2>2 DEF Fields
  <2> QED BY <2>4, <2>5, <2>6, <2>7, <2>8 DEF RestTypeOK, page, link, sends
<1>4. CASE Tell
  BY <1>4, EventIsConfig DEF RestTypeOK, Tell, Goto, page, link, sends
<1>5. CASE Answer
  <2>1. /\ answers' \subseteq heard' \X Verdicts /\ heard' = heard
        /\ reply' = reply /\ shown' = shown
    BY <1>5, TypeRespond DEF Answer, Verdicts
  <2> QED BY <1>5, <2>1 DEF RestTypeOK, Answer, Goto, page, sends
<1> QED BY <1>1, <1>2, <1>3, <1>4, <1>5 DEF Handler

LEMMA TypeModule ==
  ASSUME RestTypeOK, Quiet \/ Erases \/ Dies \/ UNCHANGED vars PROVE RestTypeOK'
<1>1. CASE Quiet \/ UNCHANGED vars
  BY <1>1 DEF RestTypeOK, Quiet, vars, request, page, link, sends
<1>2. CASE Erases
  <2>1. flash' = Blank /\ spoilt' \in BOOLEAN
    BY <1>2, Zenon DEF Erases, Erase
  <2>2. UNCHANGED <<posted, told, before, read, form, hpc, written, opened, crossed, last, waiting>>
        /\ UNCHANGED <<get, typed, edits, pages, heard, answers, reply, shown, sent, faults>>
    BY <1>2 DEF Erases, request, page, link, sends
  <2> QED BY <2>1, <2>2, BlankIsConfig DEF RestTypeOK
<1>3. CASE Dies
  <2>1. answers' \subseteq heard' \X Verdicts
    <3> DEFINE Open == {m \in heard : \A v \in Verdicts : <<m, v>> \notin answers}
    <3>1. answers' = answers \cup {<<n, "lost">> : n \in Open} /\ Open \subseteq heard /\ heard' = heard
      BY <1>3, Zenon DEF Dies
    <3> HIDE DEF Open
    <3>2. \A n \in Open : <<n, "lost">> \in heard \X Verdicts
      BY <3>1 DEF Verdicts
    <3>3. answers \subseteq heard \X Verdicts
      BY DEF RestTypeOK
    <3> QED BY ONLY <3>1, <3>2, <3>3
  <2>2. faults' \in 0..MaxFaults
    BY <1>3, FaultIsCounted DEF Dies
  <2>3. get' \in {"none", "asked", "answered", "filled"}
    BY <1>3 DEF RestTypeOK, Dies
  <2> QED BY <1>3, <2>1, <2>2, <2>3 DEF RestTypeOK, Dies
<1> QED BY <1>1, <1>2, <1>3

LEMMA RestTypeOKHolds == Spec => []RestTypeOK
<1>1. RestTypeOK /\ [Next]_vars => RestTypeOK'
  BY TypeUser, TypeRadio, TypeHandler, TypeModule DEF Next, Erases, PollNothing
<1> QED BY <1>1, TypeInit, PTL DEF Spec

(* Every variable of the module, the handler and the page stays in its set. *)
THEOREM TypeCorrect == Spec => []TypeOK
<1>1. BootInv /\ RestTypeOK => TypeOK
  BY DEF BootInv, RestTypeOK, TypeOK
<1> QED BY <1>1, BootInvHolds, RestTypeOKHolds, PTL

-------------------------------------------------------------------------------
(* What the handler has done of the save it took last. *)

(* The first k keys are of the save taken last, the others as it found them. *)
Over(k) == [f \in Fields |-> IF f <= k THEN posted[f] ELSE before[f]]

(* The handler works on the body of that save. *)
OnBody ==
  /\ \A f \in Fields \ {Port} : posted[f] = last.body[f]
  /\ posted[Port] \in Converted(last.body[Port])

InRange == \A c \in {flash, before, posted} : c[Port] \notin WildPorts

(* How far it is. *)
Progress ==
  /\ ~spoilt => flash = Over(written)
  /\ hpc = "write" => opened
  /\ hpc \in {"tell", "answer"} /\ opened => written = 7
  /\ hpc = "answer" => told = Event(posted)

HandlerInv == OnBody /\ InRange /\ Progress

LEMMA OthersLeaveRequest ==
  ASSUME \/ User \/ Radio \/ AnswerGet \/ Quiet \/ UNCHANGED vars
         \/ \E s \in waiting : RefuseHost(s) \/ Refuse(s)
  PROVE  UNCHANGED <<flash, spoilt, request>>
<1>1. CASE User
  BY <1>1, Zenon DEF User, LoadPage, Type, Submit
<1>2. CASE Radio
  BY <1>2, Zenon DEF Radio, Delivered, Fill, LoseGet, Show, Lose
<1>3. CASE AnswerGet \/ Quiet
  BY <1>3, Zenon DEF AnswerGet, Quiet
<1>4. CASE \E s \in waiting : RefuseHost(s) \/ Refuse(s)
  BY <1>4, Zenon DEF RefuseHost, Refuse
<1>5. CASE UNCHANGED vars
  BY <1>5 DEF vars
<1> QED BY <1>1, <1>2, <1>3, <1>4, <1>5

LEMMA HandlerInit == Init => HandlerInv
<1> SUFFICES ASSUME Init PROVE HandlerInv
  OBVIOUS
<1>1. \A f \in Fields : Blank[f] = 0
  BY DEF Blank
<1>2. 0 \notin WildPorts /\ Port \in Fields
  BY MqttAssumption DEF Fields, Port
<1>3. flash = Blank /\ before = Blank /\ posted = Blank /\ last.body = Blank
  BY DEF Init
<1>4. OnBody /\ InRange
  BY <1>1, <1>2, <1>3 DEF OnBody, InRange, Converted
<1>5. Blank = [f \in Fields |-> IF f <= 0 THEN Blank[f] ELSE Blank[f]]
  BY DEF Blank
<1>6. Progress
  BY <1>3, <1>5 DEF Init, Progress, Over
<1> QED BY <1>4, <1>6 DEF HandlerInv

LEMMA HandlerTake ==
  ASSUME RestTypeOK, HandlerInv, NEW s \in waiting, Take(s) PROVE HandlerInv'
<1>1. s.body \in Config /\ s.body[Port] \in Values /\ Port \in Fields
  BY DEF RestTypeOK, Saves, Config, Fields, Port
<1>2. PICK p \in Converted(s.body[Port]) : posted' = [s.body EXCEPT ![Port] = p]
  BY DEF Take, Parse
<1>3. p \in Values /\ p \notin WildPorts
  BY <1>1, <1>2, ConvertedInRange
<1>4. posted'[Port] = p /\ \A f \in Fields \ {Port} : posted'[f] = s.body[f]
  BY <1>1, <1>2 DEF Config
<1>5. last' = s /\ before' = flash /\ written' = 0 /\ flash' = flash
  BY DEF Take, Parse
<1>6. OnBody'
  BY <1>2, <1>4, <1>5 DEF OnBody
<1>7. InRange'
  BY <1>3, <1>4, <1>5 DEF HandlerInv, InRange
<1>8. flash' = (Over(written))'
  <2>1. flash = [f \in Fields |-> IF f <= 0 THEN posted'[f] ELSE flash[f]]
    BY DEF RestTypeOK, Config, Fields
  <2> QED BY <1>5, <2>1 DEF Over
<1>9. (hpc' = "write" /\ opened') \/ (hpc' = "tell" /\ ~opened')
  BY Zenon DEF Take
<1> QED BY <1>6, <1>7, <1>8, <1>9 DEF HandlerInv, Progress

LEMMA HandlerWrite == ASSUME RestTypeOK, HandlerInv, Write PROVE HandlerInv'
<1>1. /\ written' = written + 1 /\ hpc = "write"
      /\ UNCHANGED <<posted, opened, told, last, before>>
  BY Zenon DEF Write, Stays
<1>2. written' \in Fields /\ written \in 0..6
  BY <1>1 DEF RestTypeOK, Fields
<1>3. \/ flash' = [flash EXCEPT ![written'] = posted[written']] /\ spoilt' = spoilt
      \/ flash' = flash /\ spoilt'
  BY Zenon DEF Write
<1>4. OnBody'
  BY <1>1 DEF HandlerInv, OnBody
<1>5. InRange'
  <2>1. flash'[Port] = posted[Port] \/ flash'[Port] = flash[Port]
    BY <1>2, <1>3 DEF RestTypeOK, Config, Fields, Port
  <2> QED BY <1>1, <2>1 DEF HandlerInv, InRange
<1>6. ~spoilt' => flash' = (Over(written))'
  <2>1. SUFFICES ASSUME ~spoilt' PROVE flash' = (Over(written))'
    OBVIOUS
  <2>2. flash = Over(written) /\ flash' = [flash EXCEPT ![written'] = posted[written']]
    BY <1>3, <2>1 DEF HandlerInv, Progress
  <2>3. (Over(written))' = [f \in Fields |-> IF f <= written + 1 THEN posted[f] ELSE before[f]]
    BY <1>1 DEF Over
  <2>4. flash' = [f \in Fields |-> IF f = written + 1 THEN posted[f] ELSE Over(written)[f]]
    BY <1>1, <2>2 DEF Over
  <2>5. \A f \in Fields : (f <= written + 1) <=> (f = written + 1 \/ f <= written)
    BY <1>2 DEF Fields
  <2> QED BY <2>3, <2>4, <2>5 DEF Over
<1>7. hpc' \in {"write", "tell"} /\ (hpc' = "tell" => written' = 7)
  BY DEF Write
<1>8. opened'
  BY <1>1, Zenon DEF HandlerInv, Progress
<1> QED BY <1>4, <1>5, <1>6, <1>7, <1>8 DEF HandlerInv, Progress

LEMMA HandlerErases == ASSUME BootInv, HandlerInv, Erases PROVE HandlerInv'
<1>1. flash' = Blank /\ UNCHANGED <<hpc, posted, written, opened, told, last, before>>
  BY DEF Erases, Erase, request
<1>2. flash'[Port] \notin WildPorts
  BY <1>1, MqttAssumption DEF Blank, Fields, Port
<1>3. InRange' /\ OnBody'
  BY <1>1, <1>2 DEF HandlerInv, InRange, OnBody
<1>4. spoilt'
  BY Zenon DEF BootInv, Erases, Erase, NvsErase, BootGoto
<1> QED BY <1>1, <1>3, <1>4 DEF HandlerInv, Progress

LEMMA HandlerInvHolds == Spec => []HandlerInv
<1>1. RestTypeOK /\ BootInv /\ HandlerInv /\ [Next]_vars => HandlerInv'
  <2> SUFFICES ASSUME RestTypeOK, BootInv, HandlerInv, [Next]_vars PROVE HandlerInv'
    OBVIOUS
  <2>1. CASE UNCHANGED <<flash, spoilt, request>>
    BY <2>1 DEF HandlerInv, OnBody, InRange, Progress, Over, request
  <2>2. CASE Dies
    BY <2>2 DEF Dies, HandlerInv, OnBody, InRange, Progress, Over
  <2>3. CASE Tell
    BY <2>3 DEF Tell, Goto, HandlerInv, OnBody, InRange, Progress, Over
  <2>4. CASE Answer
    BY <2>4 DEF Answer, Goto, HandlerInv, OnBody, InRange, Progress, Over
  <2> QED
    BY <2>1, <2>2, <2>3, <2>4, OthersLeaveRequest, HandlerErases, HandlerTake, HandlerWrite
    DEF Next, Handler, Erases, PollNothing
<1> QED BY <1>1, HandlerInit, RestTypeOKHolds, BootInvHolds, PTL DEF Spec

(* Whatever the power, the flash and the page's link do, and whichever saves are
   under way, the flash holds the beginning of the save taken last over what it
   found. *)
THEOREM CrashesLeavePrefix == Spec => []CrashLeavesPrefix
<1>1. RestTypeOK /\ HandlerInv => CrashLeavesPrefix
  BY DEF RestTypeOK, HandlerInv, Progress, Over, CrashLeavesPrefix
<1> QED BY <1>1, RestTypeOKHolds, HandlerInvHolds, PTL

-------------------------------------------------------------------------------
(* Which saves are under way, and what "ok" says of which. *)

(* Without a crossing the newest save is the only one under way. *)
NumberInv ==
  /\ \A s \in waiting : s.n \in 1..sent /\ s.n # last.n
  /\ \A s, t \in waiting : s.n = t.n => s = t
  /\ last.n \in 0..sent
  /\ heard \subseteq 1..sent
  /\ ~crossed => /\ \A s \in waiting : s.n = sent
                 /\ heard \subseteq {sent}
                 /\ hpc # "idle" => last.n = sent

(* "ok" is on its way for save n, or shown for it. *)
Claimed(n) == <<n, "ok">> \in answers \/ (reply = "ok" /\ shown = n)

(* It was carried out and none was taken since, or others were under way with it. *)
Done(n) ==
  \/ n = last.n /\ hpc = "idle" /\ opened /\ written = 7 /\ told = Event(posted)
  \/ n # last.n /\ crossed

ClaimInv ==
  \A n \in 0..MaxSaves : Claimed(n) =>
    /\ n \in 1..sent /\ (~crossed => n = sent)
    /\ \A s \in waiting : s.n # n
    /\ Done(n)

LinkInv == NumberInv /\ ClaimInv

LEMMA LinkInit == Init => LinkInv
<1> SUFFICES ASSUME Init PROVE LinkInv
  OBVIOUS
<1>1. NumberInv
  BY DEF Init, NumberInv
<1>2. ClaimInv
  BY DEF Init, ClaimInv, Claimed
<1> QED BY <1>1, <1>2 DEF LinkInv

LEMMA LinkStays ==
  ASSUME LinkInv, UNCHANGED <<request, link, sends>> PROVE LinkInv'
<1>1. UNCHANGED <<hpc, posted, written, opened, told, last, waiting, crossed, sent>>
      /\ UNCHANGED <<heard, answers, reply, shown>>
  BY DEF request, link, sends
<1>2. NumberInv'
  BY <1>1 DEF LinkInv, NumberInv
<1>3. ClaimInv'
  BY <1>1 DEF LinkInv, ClaimInv, Claimed, Done
<1> QED BY <1>2, <1>3 DEF LinkInv

LEMMA LinkLoad == ASSUME LinkInv, LoadPage PROVE LinkInv'
<1>1. /\ heard' = {} /\ answers' = {} /\ reply' = "none"
      /\ UNCHANGED <<hpc, last, waiting, crossed, sent>>
  BY DEF LoadPage, request, sends
<1>2. NumberInv'
  BY <1>1 DEF LinkInv, NumberInv
<1>3. ClaimInv'
  BY <1>1 DEF ClaimInv, Claimed
<1> QED BY <1>2, <1>3 DEF LinkInv

LEMMA LinkSubmit == ASSUME RestTypeOK, LinkInv, Submit PROVE LinkInv'
<1>1. PICK new : /\ new.n = sent + 1 /\ waiting' = waiting \cup {new}
  <2> DEFINE Save ==
        [n |-> sent', body |-> IF form[Port] = 0 THEN [form EXCEPT ![Port] = Port1883] ELSE form,
         typed |-> typed, basis |-> IF get = "filled" THEN {read} ELSE {}]
  <2>1. waiting' = waiting \cup {Save} /\ sent' = sent + 1
    BY Zenon DEF Submit
  <2>2. Save.n = sent'
    OBVIOUS
  <2> QED BY <2>1, <2>2
<1>2. /\ sent' = sent + 1 /\ heard' = heard \cup {sent'} /\ reply' = "waiting"
      /\ UNCHANGED <<hpc, posted, written, opened, told, last, answers>>
  BY DEF Submit, request
<1>3. sent \in Nat /\ MaxSaves \in Nat
  BY MqttAssumption DEF RestTypeOK
<1>4. crossed' <=> (heard # {} \/ waiting # {} \/ hpc # "idle")
  BY DEF Submit
<1>5. NumberInv'
  <2>1. \A s \in waiting' : s.n \in 1..sent' /\ s.n # last'.n
    BY <1>1, <1>2, <1>3 DEF LinkInv, NumberInv
  <2>2. (\A s, t \in waiting : s.n = t.n => s = t)'
    <3>1. \A s \in waiting : s.n # new.n
      BY <1>1, <1>3 DEF LinkInv, NumberInv
    <3> QED BY <1>1, <3>1 DEF LinkInv, NumberInv
  <2>3. last'.n \in 0..sent' /\ heard' \subseteq 1..sent'
    BY <1>2, <1>3 DEF LinkInv, NumberInv
  <2>4. ~crossed' => /\ \A s \in waiting' : s.n = sent'
                     /\ heard' \subseteq {sent'}
                     /\ hpc' # "idle" => last'.n = sent'
    BY <1>1, <1>2, <1>4
  <2> QED BY <2>1, <2>2, <2>3, <2>4 DEF NumberInv
<1>6. ClaimInv'
  <2> SUFFICES ASSUME NEW n \in 0..MaxSaves, (Claimed(n))'
               PROVE  (/\ n \in 1..sent /\ (~crossed => n = sent)
                       /\ \A s \in waiting : s.n # n
                       /\ Done(n))'
    BY DEF ClaimInv
  <2>1. <<n, "ok">> \in answers
    BY <1>2 DEF Claimed
  <2>2. n \in heard /\ crossed'
    BY <1>4, <2>1 DEF RestTypeOK
  <2>3. n \in 1..sent /\ (\A s \in waiting : s.n # n) /\ Done(n)
    BY <2>1 DEF LinkInv, ClaimInv, Claimed
  <2>4. n \in 1..sent' /\ \A s \in waiting' : s.n # n
    BY <1>1, <1>2, <1>3, <2>3
  <2>5. (Done(n))'
    BY <1>2, <2>2, <2>3 DEF Done
  <2> QED BY <2>2, <2>4, <2>5
<1> QED BY <1>5, <1>6 DEF LinkInv

(* The page shows an answer, or gives up waiting for it. *)
LEMMA LinkHears ==
  ASSUME RestTypeOK, LinkInv, NEW m \in heard, Show(m) \/ Lose(m) PROVE LinkInv'
<1>1. /\ heard' = heard \ {m} /\ answers' \subseteq answers
      /\ UNCHANGED <<hpc, posted, written, opened, told, last, waiting, crossed, sent>>
  BY DEF Show, Lose, request, sends
<1>2. reply' = "ok" => <<m, "ok">> \in answers /\ shown' = m
  BY DEF Show, Lose
<1>3. NumberInv'
  BY <1>1 DEF LinkInv, NumberInv
<1>4. ASSUME NEW n \in 0..MaxSaves, (Claimed(n))' PROVE Claimed(n)
  BY <1>1, <1>2, <1>4 DEF Claimed
<1>5. ClaimInv'
  BY <1>1, <1>4 DEF LinkInv, ClaimInv, Done
<1> QED BY <1>3, <1>5 DEF LinkInv

LEMMA LinkRefuse ==
  ASSUME LinkInv, NEW s \in waiting, Refuse(s) \/ RefuseHost(s) PROVE LinkInv'
<1>1. /\ waiting' \subseteq waiting /\ UNCHANGED <<heard, reply, shown, crossed, sent>>
      /\ UNCHANGED <<hpc, posted, written, opened, told, last>>
  BY DEF Refuse, RefuseHost, Receive, Respond, request
<1>2. \A n : <<n, "ok">> \in answers' => <<n, "ok">> \in answers
  <2>1. CASE Refuse(s)
    BY <2>1 DEF Refuse, Respond
  <2>2. CASE RefuseHost(s)
    BY <2>2 DEF RefuseHost, Respond
  <2> QED BY <2>1, <2>2
<1>3. NumberInv'
  BY <1>1 DEF LinkInv, NumberInv
<1>4. ASSUME NEW n \in 0..MaxSaves, (Claimed(n))' PROVE Claimed(n)
  BY <1>1, <1>2, <1>4 DEF Claimed
<1>5. ClaimInv'
  BY <1>1, <1>4 DEF LinkInv, ClaimInv, Done
<1> QED BY <1>3, <1>5 DEF LinkInv

LEMMA LinkTake ==
  ASSUME RestTypeOK, LinkInv, NEW s \in waiting, Take(s) PROVE LinkInv'
<1>1. /\ waiting' = waiting \ {s} /\ last' = s
      /\ UNCHANGED <<crossed, sent, heard, answers, reply, shown>>
  BY DEF Take, Parse, Receive, link
<1>2. NumberInv'
  BY <1>1 DEF LinkInv, NumberInv
<1>3. ClaimInv'
  <2> SUFFICES ASSUME NEW n \in 0..MaxSaves, (Claimed(n))'
               PROVE  (/\ n \in 1..sent /\ (~crossed => n = sent)
                       /\ \A t \in waiting : t.n # n
                       /\ Done(n))'
    BY DEF ClaimInv
  <2>1. Claimed(n)
    BY <1>1 DEF Claimed
  <2>2. n \in 1..sent /\ (~crossed => n = sent) /\ \A t \in waiting : t.n # n
    BY <2>1 DEF LinkInv, ClaimInv
  <2>3. crossed
    BY <2>2 DEF LinkInv, NumberInv
  <2>4. n # last'.n
    BY <1>1, <2>2
  <2> QED BY <1>1, <2>2, <2>3, <2>4 DEF Done
<1> QED BY <1>2, <1>3 DEF LinkInv

(* While the handler runs, every "ok" is about a save it is not working on. *)
LEMMA LinkWorks == ASSUME LinkInv, Write \/ Tell PROVE LinkInv'
<1>1. /\ hpc # "idle" /\ UNCHANGED <<last, waiting, crossed, sent, heard, answers, reply, shown>>
  BY DEF Write, Stays, Tell, Goto, link, sends
<1>2. NumberInv'
  BY <1>1 DEF LinkInv, NumberInv
<1>3. ClaimInv'
  BY <1>1 DEF LinkInv, ClaimInv, Claimed, Done
<1> QED BY <1>2, <1>3 DEF LinkInv

LEMMA LinkAnswer == ASSUME RestTypeOK, HandlerInv, LinkInv, Answer PROVE LinkInv'
<1>1. /\ hpc = "answer" /\ hpc' = "idle"
      /\ UNCHANGED <<posted, written, opened, told, last, waiting, crossed, sent>>
      /\ UNCHANGED <<heard, reply, shown>>
  BY DEF Answer, Goto, Respond, sends
<1>2. \A n : <<n, "ok">> \in answers' => <<n, "ok">> \in answers \/ (n = last.n /\ n \in heard /\ opened)
  BY DEF Answer, Respond
<1>3. NumberInv'
  BY <1>1 DEF LinkInv, NumberInv
<1>4. ClaimInv'
  <2> SUFFICES ASSUME NEW n \in 0..MaxSaves, (Claimed(n))'
               PROVE  (/\ n \in 1..sent /\ (~crossed => n = sent)
                       /\ \A s \in waiting : s.n # n
                       /\ Done(n))'
    BY DEF ClaimInv
  <2>1. CASE Claimed(n)
    BY <1>1, <2>1 DEF LinkInv, ClaimInv, Done
  <2>2. CASE n = last.n /\ n \in heard /\ opened
    <3>1. written = 7 /\ told = Event(posted)
      BY <1>1, <2>2 DEF HandlerInv, Progress
    <3>2. n \in 1..sent /\ (~crossed => n = sent) /\ \A s \in waiting : s.n # n
      BY <1>1, <2>2 DEF LinkInv, NumberInv
    <3> QED BY <1>1, <2>2, <3>1, <3>2 DEF Done
  <2> QED BY <1>1, <1>2, <2>1, <2>2 DEF Claimed
<1> QED BY <1>3, <1>4 DEF LinkInv

LEMMA LinkDies == ASSUME LinkInv, Dies PROVE LinkInv'
<1>1. /\ hpc' = "idle" /\ waiting' = {}
      /\ UNCHANGED <<posted, written, opened, told, last, crossed, sent, heard, reply, shown>>
  BY DEF Dies
<1>2. \A n : <<n, "ok">> \in answers' => <<n, "ok">> \in answers
  BY DEF Dies
<1>3. NumberInv'
  BY <1>1 DEF LinkInv, NumberInv
<1>4. ClaimInv'
  BY <1>1, <1>2 DEF LinkInv, ClaimInv, Claimed, Done
<1> QED BY <1>3, <1>4 DEF LinkInv

LEMMA LinkInvHolds == Spec => []LinkInv
<1>1. RestTypeOK /\ HandlerInv /\ LinkInv /\ [Next]_vars => LinkInv'
  <2> SUFFICES ASSUME RestTypeOK, HandlerInv, LinkInv, [Next]_vars PROVE LinkInv'
    OBVIOUS
  <2>1. CASE Type \/ Fill \/ LoseGet \/ AnswerGet \/ Quiet \/ Erases \/ UNCHANGED vars
    <3>1. UNCHANGED <<request, link, sends>>
      BY <2>1 DEF Type, Fill, LoseGet, AnswerGet, Quiet, Erases, vars
    <3> QED BY <3>1, LinkStays
  <2> QED
    BY <2>1, LinkLoad, LinkSubmit, LinkHears, LinkRefuse, LinkTake, LinkWorks, LinkAnswer, LinkDies
    DEF Next, User, Radio, Delivered, Handler, Erases, PollNothing
<1> QED BY <1>1, LinkInit, RestTypeOKHolds, HandlerInvHolds, PTL DEF Spec

(* A success that is shown is of the save taken last, which has ended, or saves
   have overtaken each other. *)
LEMMA ShownIsSaved ==
  ASSUME RestTypeOK, HandlerInv, LinkInv, reply = "ok", ~spoilt, ~Overtaken
  PROVE  shown = last.n /\ hpc = "idle" /\ flash = posted /\ told = Event(posted) /\ OnBody
<1>1. Done(shown)
  BY DEF RestTypeOK, LinkInv, ClaimInv, Claimed
<1>2. shown = last.n /\ hpc = "idle" /\ written = 7 /\ told = Event(posted)
  BY <1>1 DEF Done, Overtaken
<1>3. flash = Over(7) /\ OnBody
  BY <1>2 DEF HandlerInv, Progress
<1>4. Over(7) = posted
  BY DEF RestTypeOK, Config, Fields, Over
<1> QED BY <1>2, <1>3, <1>4

(* A shown success means that the flash holds what was sent at the click, for
   every number of saves under way of which none overtook another. *)
THEOREM SuccessesAreSaved == Spec => []SuccessIsSaved
<1>1. RestTypeOK /\ HandlerInv /\ LinkInv => SuccessIsSaved
  BY ShownIsSaved DEF SuccessIsSaved, OnBody, Converted
<1> QED BY <1>1, RestTypeOKHolds, HandlerInvHolds, LinkInvHolds, PTL

(* After a shown success the STM32 and the flash agree, as far as the event
   goes. *)
THEOREM SuccessesAreTold == Spec => []SuccessIsTold
<1>1. RestTypeOK /\ HandlerInv /\ LinkInv => SuccessIsTold
  BY ShownIsSaved DEF SuccessIsTold, Event, Fields, ClientId, Password
<1> QED BY <1>1, RestTypeOKHolds, HandlerInvHolds, LinkInvHolds, PTL

-------------------------------------------------------------------------------
(* What the user has not typed. *)

(* Field f is v where the flash says r: read back, or one of the exceptions. *)
Kept(f, v, r) == v = r \/ IsLong(f, r) \/ (f = Port /\ r \in {0, Port0} /\ v = Port1883)

PageInv ==
  /\ get \in {"asked", "answered"} => \A f \in Fields \ typed : form[f] = Empty[f]
  /\ get = "filled" => \A f \in Fields \ (typed \cup {Password}) : Kept(f, form[f], read[f])
  /\ \A s \in waiting \cup {last} : \A b \in s.basis :
       \A f \in Fields \ (s.typed \cup {Password}) : Kept(f, s.body[f], b[f])

LEMMA PageInit == Init => PageInv
  BY DEF Init, PageInv

LEMMA PageStays ==
  ASSUME PageInv, UNCHANGED <<read, form, typed>>, get' = get \/ get' = "none",
         waiting' \cup {last'} \subseteq waiting \cup {last}
  PROVE  PageInv'
  BY DEF PageInv, Kept

LEMMA PageLoad == ASSUME PageInv, LoadPage PROVE PageInv'
<1>1. get' = "asked" /\ form' = Empty /\ waiting' = waiting /\ last' = last
  BY DEF LoadPage, request, sends
<1> QED BY <1>1 DEF PageInv, Kept

LEMMA PageTypes == ASSUME PageInv, Type PROVE PageInv'
<1>1. PICK F \in {Fields, {Host}} :
        /\ form' = [f \in Fields |-> IF f \notin F THEN form[f]
                                     ELSE IF f = Port /\ edits' \in BlankPorts THEN 0 ELSE edits']
        /\ typed' = typed \cup F
  BY DEF Type
<1>2. \A f \in Fields \ typed' : f \notin typed /\ form'[f] = form[f]
  BY <1>1
<1>3. UNCHANGED <<get, read, waiting, last>>
  BY DEF Type, request, sends
<1> QED BY <1>2, <1>3 DEF PageInv, Kept

(* The answer to GET fills what it gives; what it does not give is as on a new
   page where it was not typed. *)
LEMMA PageFill == ASSUME PageInv, Fill PROVE PageInv'
<1>1. /\ form' = [f \in Fields |-> IF Given(f) THEN read[f] ELSE form[f]]
      /\ typed' = {f \in typed : ~Given(f)} /\ get = "answered" /\ get' = "filled"
      /\ UNCHANGED <<read, waiting, last>>
  BY DEF Fill, request, sends
<1>2. ASSUME NEW f \in Fields \ (typed' \cup {Password}) PROVE Kept(f, form'[f], read[f])
  <2>1. CASE Given(f)
    BY <1>1, <2>1 DEF Kept
  <2>2. CASE ~Given(f)
    <3>1. form'[f] = Empty[f]
      BY <1>1, <1>2, <2>2 DEF PageInv
    <3>2. read[f] = 0 \/ (f = Port /\ read[f] = Port0) \/ IsLong(f, read[f])
      BY <1>2, <2>2 DEF Given
    <3>3. Empty[f] = IF f = Port THEN Port1883 ELSE 0
      BY <1>2 DEF Empty, Blank
    <3> QED BY <3>1, <3>2, <3>3 DEF Kept
  <2> QED BY <2>1, <2>2
<1> QED BY <1>1, <1>2 DEF PageInv, Kept

LEMMA PageSubmit == ASSUME RestTypeOK, PageInv, Submit PROVE PageInv'
<1> DEFINE Body == IF form[Port] = 0 THEN [form EXCEPT ![Port] = Port1883] ELSE form
           Save == [n |-> sent', body |-> Body, typed |-> typed,
                    basis |-> IF get = "filled" THEN {read} ELSE {}]
<1>1. waiting' = waiting \cup {Save} /\ UNCHANGED <<get, read, form, typed, last>>
  BY DEF Submit, request, page
<1>2. ASSUME NEW b \in Save.basis, NEW f \in Fields \ (Save.typed \cup {Password})
      PROVE  Kept(f, Save.body[f], b[f])
  <2>1. get = "filled" /\ b = read /\ f \notin typed
    BY <1>2
  <2>2. Kept(f, form[f], read[f])
    BY <2>1 DEF PageInv
  <2>3. Body[f] = form[f] \/ (f = Port /\ form[f] = 0 /\ Body[f] = Port1883)
    BY DEF RestTypeOK, Config
  <2> QED BY <2>1, <2>2, <2>3 DEF Kept, IsLong, Port, ClientId
<1> HIDE DEF Save
<1> QED BY <1>1, <1>2 DEF PageInv, Kept

LEMMA PageInvHolds == Spec => []PageInv
<1>1. RestTypeOK /\ PageInv /\ [Next]_vars => PageInv'
  <2> SUFFICES ASSUME RestTypeOK, PageInv, [Next]_vars PROVE PageInv'
    OBVIOUS
  <2>1. CASE Delivered \/ (\E n \in heard : Lose(n)) \/ Write \/ Tell \/ Answer \/ Quiet \/ Erases
             \/ UNCHANGED vars
    <3>1. UNCHANGED <<get, read, form, typed, last, waiting>>
      BY <2>1 DEF Delivered, Show, Lose, Write, Stays, Tell, Answer, Quiet, Erases, vars,
        request, page, sends
    <3> QED BY <3>1, PageStays
  <2>2. CASE \E s \in waiting : Refuse(s) \/ RefuseHost(s) \/ Take(s)
    <3>1. /\ UNCHANGED <<get, read, form, typed>>
          /\ waiting' \cup {last'} \subseteq waiting \cup {last}
      BY <2>2 DEF Refuse, RefuseHost, Take, Parse, Receive, request, page
    <3> QED BY <3>1, PageStays
  <2>3. CASE Dies
    BY <2>3, PageStays DEF Dies
  <2>4. CASE LoseGet
    BY <2>4 DEF LoseGet, PageInv, Kept, request, sends
  <2>5. CASE AnswerGet
    BY <2>5 DEF AnswerGet, PageInv, Kept, request, sends
  <2> QED
    BY <2>1, <2>2, <2>3, <2>4, <2>5, PageLoad, PageTypes, PageFill, PageSubmit
    DEF Next, User, Radio, Handler, Erases, PollNothing
<1> QED BY <1>1, PageInit, RestTypeOKHolds, PTL DEF Spec

(* Correcting one field of a page that shows what is stored changes no other,
   however late the page was filled and whichever saves are under way. *)
THEOREM CorrectionsKeepTheRest == Spec => []OnlyTypedChanges
<1>1. RestTypeOK /\ HandlerInv /\ PageInv => OnlyTypedChanges
  <2> SUFFICES ASSUME RestTypeOK, HandlerInv, PageInv, ~spoilt, last.basis = {before},
                      NEW f \in Fields \ (last.typed \cup {Password})
               PROVE  \/ flash[f] = before[f]
                      \/ IsLong(f, before[f])
                      \/ f = Port /\ before[f] \in {0, Port0} /\ flash[f] = Port1883
    BY DEF OnlyTypedChanges
  <2>1. flash[f] = before[f] \/ flash[f] = posted[f]
    BY DEF HandlerInv, Progress, Over
  <2>2. Kept(f, last.body[f], before[f])
    BY DEF PageInv
  <2>3. CASE f = Port
    <3>1. before[f] \notin WildPorts /\ Port1883 \notin WildPorts
      BY <2>3, MqttAssumption DEF HandlerInv, InRange, Port1883
    <3>2. posted[f] \in Converted(last.body[f])
      BY <2>3 DEF HandlerInv, OnBody
    <3>3. posted[f] = last.body[f]
      BY <2>2, <2>3, <3>1, <3>2 DEF Kept, Converted, IsLong, Port, ClientId
    <3> QED BY <2>1, <2>2, <3>3 DEF Kept
  <2>4. CASE f # Port
    BY <2>1, <2>2, <2>4 DEF Kept, HandlerInv, OnBody
  <2> QED BY <2>3, <2>4
<1> QED BY <1>1, RestTypeOKHolds, HandlerInvHolds, PageInvHolds, PTL

-------------------------------------------------------------------------------
(* Stored keys go all at once only when the partition is full. *)
THEOREM ErasuresNeedFull == Spec => ErasedOnlyWhenFull
<1> DEFINE OneKey == \A f, g \in Fields :
                       flash'[f] # flash[f] /\ flash'[g] # flash[g] /\ f # g => full
<1>1. RestTypeOK /\ BootInv /\ [Next]_vars => [OneKey]_vars
  <2> SUFFICES ASSUME RestTypeOK, BootInv, [Next]_vars PROVE OneKey
    OBVIOUS
  <2>1. CASE Write
    <3>1. flash' = [flash EXCEPT ![written'] = posted[written']] \/ flash' = flash
      BY <2>1, Zenon DEF Write
    <3> QED BY <3>1 DEF RestTypeOK, Config
  <2>2. CASE Erases
    BY <2>2 DEF Erases, Erase, NvsErase, BootGoto, BootInv
  <2>3. CASE flash' = flash
    BY <2>3
  <2>4. CASE Dies \/ Tell \/ Answer \/ \E s \in waiting : Take(s)
    <3>1. flash' = flash
      BY <2>4, Zenon DEF Dies, Tell, Answer, Take, Parse
    <3> QED BY <3>1
  <2> QED BY <2>1, <2>2, <2>3, <2>4, OthersLeaveRequest DEF Next, Handler, Erases, PollNothing
<1> QED BY <1>1, RestTypeOKHolds, BootInvHolds, PTL DEF Spec, ErasedOnlyWhenFull
===============================================================================
