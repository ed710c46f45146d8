------------------------------ MODULE ResultPage -------------------------------
(***************************************************************************)
(* The configuration page against time: the JavaScript of main/             *)
(* http_server.c that submits credentials (doConn) and polls GET /result    *)
(* once a second (pollResult), and the attempt it asks about.  The manager   *)
(* is what module Attempt promises of it, with the times of                 *)
(* delayed_connect_task; `Manager' below is checked.  Times are seconds.     *)
(*                                                                         *)
(* The button stays enabled, so every click starts a chain of its own; a    *)
(* chain is named by the credentials it submits.  Attempts are numbered in  *)
(* the order they are accepted.  Requests and answers may take any time and  *)
(* may get lost; httpd runs one handler at a time.                          *)
(***************************************************************************)
EXTENDS Integers

CONSTANTS
  MaxClicks,  (* bound: clicks on "connect"                                *)
  Delay,      (* seconds from acceptance to the start of an attempt        *)
  Limit,      (* seconds from acceptance within which it is decided: Delay, *)
              (* 300 ms, CONNECT_TIMEOUT_MS and two flash writes            *)
  LastPoll    (* the number of the last poll, the first being 0            *)

ASSUME PageAssumption ==
  /\ MaxClicks \in Nat /\ Delay \in Nat /\ Limit \in Nat /\ LastPoll \in Nat
  /\ Delay <= Limit /\ Limit <= LastPoll

VARIABLES
  stage, job, (* as in Attempt; a job is the click it is for, 0 at first    *)
  answer,     (* s_connect_result_state                                    *)
  age,        (* seconds since the attempt was accepted                    *)
  number,     (* attempts accepted so far                                  *)
  answerOf,   (* history: the attempt the answer is about, 0 when pending   *)
  ended,      (* history: how each attempt ended: 0 not yet, 1 won, 2 lost *)
  pc,         (* each chain: "off", "post", "posted", "wait", "ask",       *)
              (* "back", "end"                                             *)
  n,          (* the argument of its pollResult                            *)
  since,      (* history: the attempt that ran when its POST was handled   *)
  reply, replyOf,  (* the answer its last poll got, and history: of which  *)
  told        (* the message it has put on the page                        *)

attempt == <<stage, job, answer, age, number, answerOf, ended>>
page    == <<pc, n, since, reply, replyOf, told>>
vars    == <<attempt, page>>

Clicks   == 1..MaxClicks
Stages   == {"none", "accepted", "begun", "trying", "won", "lost", "over"}
Verdicts == {"ok", "failed"}
Messages == Verdicts \cup {"nothing", "submitted", "refused", "timeout"}

TypeOK ==
  /\ stage \in Stages /\ job \in 0..MaxClicks /\ answer \in 0..2
  /\ age \in 0..Limit /\ number \in 0..MaxClicks /\ answerOf \in 0..MaxClicks
  /\ ended \in [Clicks -> 0..2]
  /\ pc \in [Clicks -> {"off", "post", "posted", "wait", "ask", "back", "end"}]
  /\ n \in [Clicks -> 0..LastPoll]
  /\ since \in [Clicks -> 0..MaxClicks]
  /\ reply \in [Clicks -> 0..2] /\ replyOf \in [Clicks -> 0..MaxClicks]
  /\ told \in [Clicks -> Messages]

Init ==
  /\ stage = "none" /\ job = 0 /\ answer = 0 /\ age = 0 /\ number = 0
  /\ answerOf = 0 /\ ended = [c \in Clicks |-> 0]
  /\ pc = [c \in Clicks |-> "off"] /\ n = [c \in Clicks |-> 0]
  /\ since = [c \in Clicks |-> 0]
  /\ reply = [c \in Clicks |-> 0] /\ replyOf = [c \in Clicks |-> 0]
  /\ told = [c \in Clicks |-> "nothing"]

Goto(from, to)     == stage = from /\ stage' = to
PageGoto(c, from, to) == pc[c] = from /\ pc' = [pc EXCEPT ![c] = to]
Tell(c, message)   == told' = [told EXCEPT ![c] = message]

-------------------------------------------------------------------------------
(* delayed_connect_task. *)

(* Mutant: the old verdict is not reset. *)
BeginNoReset ==
  /\ Goto("accepted", "begun") /\ age = Delay
  /\ UNCHANGED <<job, answer, age, number, answerOf, ended, page>>

Begin ==
  /\ Goto("accepted", "begun") /\ age = Delay
  /\ answer' = 0 /\ answerOf' = 0
  /\ UNCHANGED <<job, age, number, ended, page>>

Try == Goto("begun", "trying") /\ UNCHANGED <<job, answer, age, number, answerOf, ended, page>>

Decide ==
  /\ \/ Goto("trying", "won") /\ ended' = [ended EXCEPT ![number] = 1]
     \/ Goto("trying", "lost") /\ ended' = [ended EXCEPT ![number] = 2]
  /\ UNCHANGED <<job, answer, age, number, answerOf, page>>

Publish ==
  /\ \/ Goto("won", "over") /\ answer' = 1
     \/ Goto("lost", "over") /\ answer' = 2
  /\ answerOf' = number
  /\ UNCHANGED <<job, age, number, ended, page>>

End ==
  /\ Goto("over", "none")
  /\ age' = 0
  /\ UNCHANGED <<job, answer, number, answerOf, ended, page>>

-------------------------------------------------------------------------------
(* doConn. *)

Click(c) ==
  /\ PageGoto(c, "off", "post")
  /\ c > 1 => pc[c - 1] # "off"
  /\ UNCHANGED <<attempt, n, since, reply, replyOf, told>>

(* handler_connect while no attempt runs. *)
PostAccepted(c) ==
  /\ PageGoto(c, "post", "posted")
  /\ Goto("none", "accepted")
  /\ number < MaxClicks
  /\ number' = number + 1 /\ job' = c /\ age' = 0
  /\ since' = [since EXCEPT ![c] = number']
  /\ UNCHANGED <<answer, answerOf, ended, n, reply, replyOf, told>>

(* Mutant: the dropped request replaces the credentials. *)
PostIgnoredOverwrites(c) ==
  /\ PageGoto(c, "post", "posted")
  /\ stage # "none"
  /\ job' = c
  /\ since' = [since EXCEPT ![c] = number]
  /\ UNCHANGED <<stage, answer, age, number, answerOf, ended, n, reply, replyOf, told>>

(* While one runs, a request is answered like an accepted one and dropped. *)
PostIgnored(c) ==
  /\ PageGoto(c, "post", "posted")
  /\ stage # "none"
  /\ since' = [since EXCEPT ![c] = number]
  /\ UNCHANGED <<attempt, n, reply, replyOf, told>>

(* No SSID; or no memory for the task, which comes after the credentials were
   taken over. *)
PostRefused(c) ==
  /\ PageGoto(c, "post", "end")
  /\ Tell(c, "refused")
  /\ job' = job \/ (stage = "none" /\ job' = c)
  /\ UNCHANGED <<stage, answer, age, number, answerOf, ended, n, since, reply, replyOf>>

(* The request, or its answer, is lost. *)
PostLost(c) ==
  /\ \/ PageGoto(c, "post", "end")
     \/ PageGoto(c, "posted", "end")
  /\ Tell(c, "timeout")
  /\ UNCHANGED <<attempt, n, since, reply, replyOf>>

(* pollResult(0). *)
StartPolling(c) ==
  /\ PageGoto(c, "posted", "wait")
  /\ UNCHANGED <<attempt, n, since, reply, replyOf, told>>

-------------------------------------------------------------------------------
(* pollResult. *)

(* handler_result. *)
Ask(c) ==
  /\ PageGoto(c, "ask", "back")
  /\ reply'   = [reply EXCEPT ![c] = answer]
  /\ replyOf' = [replyOf EXCEPT ![c] = answerOf]
  /\ UNCHANGED <<attempt, n, since, told>>

ShowVerdict(c) ==
  /\ PageGoto(c, "back", "end")
  /\ reply[c] # 0
  /\ Tell(c, IF reply[c] = 1 THEN "ok" ELSE "failed")
  /\ n' = [n EXCEPT ![c] = 0] /\ reply' = [reply EXCEPT ![c] = 0]
  /\ UNCHANGED <<attempt, since, replyOf>>

(* Mutants: half the polls; the last one is repeated. *)
NextPollHalf(c) ==
  /\ pc[c] = "ask" \/ (pc[c] = "back" /\ reply[c] = 0)
  /\ IF n[c] < LastPoll \div 2
     THEN n' = [n EXCEPT ![c] = @ + 1] /\ pc' = [pc EXCEPT ![c] = "wait"] /\ UNCHANGED told
     ELSE n' = [n EXCEPT ![c] = 0] /\ pc' = [pc EXCEPT ![c] = "end"] /\ Tell(c, "submitted")
  /\ UNCHANGED <<attempt, since, reply, replyOf>>

NextPollRepeats(c) ==
  /\ pc[c] = "ask" \/ (pc[c] = "back" /\ reply[c] = 0)
  /\ n' = [n EXCEPT ![c] = IF n[c] < LastPoll THEN @ + 1 ELSE @]
  /\ pc' = [pc EXCEPT ![c] = "wait"]
  /\ UNCHANGED <<attempt, since, reply, replyOf, told>>

(* Pending, or the poll is lost: pollResult(n + 1), which gives up after the
   last poll. *)
NextPoll(c) ==
  /\ pc[c] = "ask" \/ (pc[c] = "back" /\ reply[c] = 0)
  /\ IF n[c] < LastPoll
     THEN n' = [n EXCEPT ![c] = @ + 1] /\ pc' = [pc EXCEPT ![c] = "wait"] /\ UNCHANGED told
     ELSE n' = [n EXCEPT ![c] = 0] /\ pc' = [pc EXCEPT ![c] = "end"] /\ Tell(c, "submitted")
  /\ UNCHANGED <<attempt, since, reply, replyOf>>

-------------------------------------------------------------------------------
(* A second passes: the timers of the page fire.  The task of an attempt is
   woken after Delay, tries 300 ms later, and has published its verdict by Limit. *)

Undecided == stage \in {"accepted", "begun", "trying", "won", "lost"}

Tick ==
  /\ stage # "begun"
  /\ stage = "accepted" => age < Delay
  /\ Undecided => age < Limit
  /\ age' = IF Undecided THEN age + 1 ELSE age
  /\ pc' = [c \in Clicks |-> IF pc[c] = "wait" THEN "ask" ELSE pc[c]]
  /\ UNCHANGED <<stage, job, answer, number, answerOf, ended, n, since, reply, replyOf, told>>

TaskStep == Begin \/ Try \/ Decide \/ Publish \/ End

ChainStep(c) ==
  \/ PostAccepted(c) \/ PostIgnored(c) \/ PostRefused(c) \/ PostLost(c)
  \/ StartPolling(c) \/ Ask(c) \/ ShowVerdict(c) \/ NextPoll(c)

Next == TaskStep \/ Tick \/ \E c \in Clicks : Click(c) \/ ChainStep(c)

Spec == Init /\ [][Next]_vars

(* Time passes, tasks run, and a request ends: with an answer, or with the
   time-out of the browser. *)
Fairness == WF_vars(Tick) /\ WF_vars(TaskStep) /\ \A c \in Clicks : WF_vars(ChainStep(c))

FairSpec == Spec /\ Fairness

-------------------------------------------------------------------------------
(* The attempt half is an Attempt: its credentials are the click's, it has
   heard an address when the last attempt that began to try has won, and what
   it keeps in flash is left open. *)

LastTried == IF stage \in {"accepted", "begun"} THEN number - 1 ELSE number

Manager == INSTANCE Attempt WITH
  Jobs  <- {<<c, c>> : c \in Clicks},
  NoJob <- <<0, 0>>,
  job   <- <<job, job>>,
  heard <- LastTried > 0 /\ ended[LastTried] = 1,
  kept  <- <<0, 0>>

ManagerSpec == Manager!Spec

-------------------------------------------------------------------------------
(* The page gives up ("submitted", http_server.c:205) only when the attempt
   that ran as its request was answered is decided: 21 polls outlast the 2.3 s,
   the 15 s and the flash writes of an attempt, however many polls get lost. *)
GivesUpLate ==
  \A c \in Clicks : told[c] = "submitted" /\ Undecided => number > since[c]

(* An older verdict is shown for a new attempt in the 2 s before that one
   begins and never after (wifi_manager.c:322-328): only the first Delay polls
   can bring it. *)
OldVerdictOnlyEarly ==
  \A c \in Clicks : pc[c] = "back" /\ reply[c] # 0 /\ replyOf[c] < since[c] => n[c] < Delay

(* Whatever the page shows as the end of an attempt is how one has ended. *)
VerdictIsTrue ==
  \A c \in Clicks : told[c] \in Verdicts =>
    /\ replyOf[c] > 0
    /\ told[c] = IF ended[replyOf[c]] = 1 THEN "ok" ELSE "failed"

(* Every click is answered by a message in the end, whatever gets lost. *)
UserTold == \A c \in Clicks : pc[c] = "post" ~> told[c] # "nothing"

(* POST /connect answers "pending" (http_server.c:403), so no verdict shown
   for it is older than the request. *)
VerdictNotOlder ==
  \A c \in Clicks : told[c] \in Verdicts => replyOf[c] >= since[c]
===============================================================================
