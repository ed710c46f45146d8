--------------------------- MODULE ResultPageProofs ---------------------------
(***************************************************************************)
(* Proofs about ResultPage for every number of clicks and all times with    *)
(* Delay <= Limit <= LastPoll, the code's 2 s, 18 s and 20 among them.       *)
(***************************************************************************)
EXTENDS ResultPage, TLAPS

(* Which attempt the answer is about, and that it is how that one ended. *)
AnswerInv ==
  /\ stage # "none" => number > 0
  /\ stage \in {"none", "over"} => answerOf = number
  /\ stage = "accepted" => answerOf = number - 1 /\ age <= Delay
  /\ stage \in {"begun", "trying", "won", "lost"} => answerOf = 0
  /\ answer = 0 <=> answerOf = 0
  /\ answerOf <= number
  /\ answerOf > 0 => ended[answerOf] = answer
  /\ stage \in {"accepted", "begun", "trying"} => ended[number] = 0
  /\ stage = "won" => ended[number] = 1
  /\ stage = "lost" => ended[number] = 2
  /\ \A a \in Clicks : a > number => ended[a] = 0

(* A chain polls no faster than time passes. *)
PaceInv(c) ==
  /\ pc[c] # "end" => told[c] = "nothing"
  /\ pc[c] \in {"off", "post", "posted"} => n[c] = 0
  /\ since[c] <= number
  /\ Undecided /\ since[c] = number =>
       /\ pc[c] = "wait" => n[c] <= age
       /\ pc[c] \in {"ask", "back"} => n[c] + 1 <= age
       /\ told[c] # "submitted"

(* What a chain was told, and an old verdict among it. *)
ReplyInv(c) ==
  /\ replyOf[c] <= number
  /\ pc[c] = "back" /\ reply[c] # 0 => replyOf[c] > 0 /\ ended[replyOf[c]] = reply[c]
  /\ pc[c] = "back" /\ reply[c] # 0 /\ replyOf[c] < since[c] => n[c] + 1 <= Delay
  /\ told[c] \in Verdicts =>
       replyOf[c] > 0 /\ ended[replyOf[c]] = IF told[c] = "ok" THEN 1 ELSE 2

PageInv == AnswerInv /\ \A c \in Clicks : PaceInv(c) /\ ReplyInv(c)

(* Every variable of the page and of the attempt stays in its set: in particular
   no chain polls more often than LastPoll + 1 times. *)
THEOREM TypeCorrect == Spec => []TypeOK
<1>1. Init => TypeOK
  BY PageAssumption DEF Init, TypeOK, Stages, Clicks, Messages
<1>2. TypeOK /\ [Next]_vars => TypeOK'
  <2> SUFFICES ASSUME TypeOK, [Next]_vars PROVE TypeOK'
    OBVIOUS
  <2> USE PageAssumption DEF TypeOK, page, attempt, Goto
  <2>1. CASE Decide
    <3>1. ended' \in [Clicks -> 0..2]
      BY <2>1 DEF Decide
    <3>2. stage' \in Stages
      BY <2>1 DEF Decide, Stages
    <3> QED BY <2>1, <3>1, <3>2 DEF Decide
  <2>2. CASE Begin \/ Try \/ Publish \/ End
    <3>1. stage' \in Stages /\ answer' \in 0..2 /\ age' \in 0..Limit /\ answerOf' \in 0..MaxClicks
      BY <2>2 DEF Begin, Try, Publish, End, Stages
    <3> QED BY <2>2, <3>1 DEF Begin, Try, Publish, End
  <2>3. CASE Tick
    <3>1. age' \in 0..Limit
      BY <2>3 DEF Tick
    <3>2. pc' \in [Clicks -> {"off", "post", "posted", "wait", "ask", "back", "end"}]
      BY <2>3 DEF Tick
    <3> QED BY <2>3, <3>1, <3>2 DEF Tick
  <2>4. ASSUME NEW c \in Clicks, Click(c) \/ ChainStep(c) PROVE TypeOK'
    <3> USE DEF PageGoto, Tell, Messages, Verdicts
    <3>1. CASE Click(c) \/ StartPolling(c)
      BY <3>1 DEF Click, StartPolling
    <3>2. CASE PostAccepted(c)
      <4>1. /\ stage' \in Stages /\ number' \in 0..MaxClicks /\ age' \in 0..Limit
            /\ job' \in 0..MaxClicks
        BY <3>2 DEF PostAccepted, Stages, Clicks
      <4>2. since' \in [Clicks -> 0..MaxClicks]
        BY <3>2, <4>1 DEF PostAccepted
      <4> QED BY <3>2, <4>1, <4>2 DEF PostAccepted
    <3>3. CASE PostIgnored(c)
      BY <3>3 DEF PostIgnored
    <3>4. CASE PostRefused(c)
      <4>1. job' \in 0..MaxClicks
        BY <3>4 DEF PostRefused, Clicks
      <4> QED BY <3>4, <4>1 DEF PostRefused
    <3>5. CASE PostLost(c)
      BY <3>5 DEF PostLost
    <3>6. CASE Ask(c)
      BY <3>6 DEF Ask
    <3>7. CASE ShowVerdict(c)
      <4>1. n' \in [Clicks -> 0..LastPoll] /\ reply' \in [Clicks -> 0..2]
        BY <3>7 DEF ShowVerdict
      <4>2. told' \in [Clicks -> Messages]
        BY <3>7 DEF ShowVerdict
      <4> QED BY <3>7, <4>1, <4>2 DEF ShowVerdict
    <3>8. CASE NextPoll(c)
      <4>1. n' \in [Clicks -> 0..LastPoll]
        BY <3>8 DEF NextPoll
      <4>2. told' \in [Clicks -> Messages]
        BY <3>8 DEF NextPoll
      <4>3. pc' \in [Clicks -> {"off", "post", "posted", "wait", "ask", "back", "end"}]
        BY <3>8 DEF NextPoll
      <4> QED BY <3>8, <4>1, <4>2, <4>3 DEF NextPoll
    <3> QED BY <2>4, <3>1, <3>2, <3>3, <3>4, <3>5, <3>6, <3>7, <3>8 DEF ChainStep
  <2>5. CASE UNCHANGED vars
    BY <2>5 DEF vars
  <2> QED BY <2>1, <2>2, <2>3, <2>4, <2>5 DEF Next, TaskStep
<1> QED BY <1>1, <1>2, PTL DEF Spec

(* A step of the page leaves the attempt alone, but for an accepted POST. *)
LEMMA PageLeavesAttempt ==
  ASSUME NEW c \in Clicks, Click(c) \/ ChainStep(c), ~PostAccepted(c)
  PROVE  UNCHANGED <<stage, answer, age, number, answerOf, ended>>
BY DEF Click, ChainStep, PostIgnored, PostRefused, PostLost, StartPolling, Ask, ShowVerdict,
       NextPoll, attempt

LEMMA AnswerInvHolds == Spec => []AnswerInv
<1>1. Init => AnswerInv
  BY DEF Init, AnswerInv
<1>2. TypeOK /\ TypeOK' /\ AnswerInv /\ [Next]_vars => AnswerInv'
  <2> SUFFICES ASSUME TypeOK, TypeOK', AnswerInv, [Next]_vars PROVE AnswerInv'
    OBVIOUS
  <2> USE PageAssumption DEF TypeOK, AnswerInv, Goto, Stages, Clicks
  <2>1. CASE Begin \/ Try \/ End
    <3>1. CASE Begin
      BY <3>1 DEF Begin
    <3>2. CASE Try
      BY <3>2 DEF Try
    <3>3. CASE End
      BY <3>3 DEF End
    <3> QED BY <2>1, <3>1, <3>2, <3>3
  <2>2. CASE Decide
    <3>1. /\ stage = "trying" /\ answerOf = 0 /\ answer = 0 /\ number \in Clicks
          /\ UNCHANGED <<answer, number, answerOf, age>>
      BY <2>2 DEF Decide
    <3>2. \A a \in Clicks : a # number => ended'[a] = ended[a]
      BY <2>2 DEF Decide
    <3>3. \/ stage' = "won" /\ ended'[number] = 1
          \/ stage' = "lost" /\ ended'[number] = 2
      BY <2>2, <3>1 DEF Decide
    <3>4. CASE stage' = "won"
      BY <3>1, <3>2, <3>3, <3>4
    <3>5. CASE stage' = "lost"
      BY <3>1, <3>2, <3>3, <3>5
    <3> QED BY <3>3, <3>4, <3>5
  <2>3. CASE Publish
    BY <2>3 DEF Publish
  <2>4. CASE Tick
    <3>1. UNCHANGED <<stage, answer, number, answerOf, ended>>
      BY <2>4 DEF Tick
    <3>2. stage = "accepted" => age' <= Delay
      BY <2>4 DEF Tick, Undecided
    <3> QED BY <3>1, <3>2
  <2>5. ASSUME NEW c \in Clicks, PostAccepted(c) PROVE AnswerInv'
    <3>1. /\ stage = "none" /\ stage' = "accepted" /\ number' = number + 1 /\ age' = 0
          /\ number < MaxClicks /\ UNCHANGED <<answer, answerOf, ended>>
      BY <2>5 DEF PostAccepted
    <3> QED BY <3>1
  <2>6. ASSUME NEW c \in Clicks, Click(c) \/ ChainStep(c), ~PostAccepted(c) PROVE AnswerInv'
    BY <2>6, PageLeavesAttempt
  <2>7. CASE UNCHANGED vars
    BY <2>7 DEF vars, attempt
  <2> QED BY <2>1, <2>2, <2>3, <2>4, <2>5, <2>6, <2>7 DEF Next, TaskStep, ChainStep
<1> QED BY <1>1, <1>2, TypeCorrect, PTL DEF Spec

(* What a step of the task, or of another chain, may do to a chain. *)
LEMMA OthersKeepPace ==
  ASSUME TypeOK, AnswerInv, NEW c \in Clicks, PaceInv(c),
         UNCHANGED <<pc[c], n[c], since[c], told[c]>>,
         \/ number' = number /\ age' = age /\ (Undecided' => Undecided)
         \/ number' = number + 1
  PROVE  PaceInv(c)'
BY DEF TypeOK, PaceInv

LEMMA OthersKeepReply ==
  ASSUME TypeOK, TypeOK', AnswerInv, NEW c \in Clicks, ReplyInv(c),
         UNCHANGED <<n[c], since[c], reply[c], replyOf[c], told[c]>>,
         pc'[c] = "back" => pc[c] = "back",
         number' >= number,
         replyOf[c] > 0 /\ ended[replyOf[c]] # 0 => ended'[replyOf[c]] = ended[replyOf[c]]
  PROVE  ReplyInv(c)'
BY DEF TypeOK, ReplyInv

LEMMA TaskKeeps ==
  ASSUME TypeOK, TypeOK', AnswerInv, TaskStep, NEW c \in Clicks, PaceInv(c), ReplyInv(c)
  PROVE  PaceInv(c)' /\ ReplyInv(c)'
<1> USE DEF TaskStep, Begin, Try, Decide, Publish, End, Goto, page
<1>1. UNCHANGED <<pc, n, since, reply, replyOf, told, number>>
  OBVIOUS
<1>2. PaceInv(c)'
  <2>1. CASE End
    BY <1>1, <2>1 DEF PaceInv, Undecided
  <2>2. CASE ~End
    <3>1. age' = age /\ (Undecided' => Undecided)
      BY <2>2 DEF Undecided
    <3> QED BY <1>1, <3>1, OthersKeepPace
  <2> QED BY <2>1, <2>2
<1>3. replyOf[c] > 0 /\ ended[replyOf[c]] # 0 => ended'[replyOf[c]] = ended[replyOf[c]]
  <2>1. CASE Decide
    <3>1. ended[number] = 0 /\ \A a \in Clicks : a # number => ended'[a] = ended[a]
      BY <2>1 DEF AnswerInv, TypeOK
    <3> QED BY <3>1 DEF TypeOK, Clicks
  <2>2. CASE ~Decide
    <3>1. ended' = ended
      BY <2>2
    <3> QED BY <3>1
  <2> QED BY <2>1, <2>2
<1> QED BY <1>1, <1>2, <1>3, OthersKeepReply DEF TypeOK

LEMMA TickKeeps ==
  ASSUME TypeOK, TypeOK', AnswerInv, Tick, NEW c \in Clicks, PaceInv(c), ReplyInv(c)
  PROVE  PaceInv(c)' /\ ReplyInv(c)'
<1>1. /\ UNCHANGED <<stage, n, since, reply, replyOf, told, number, ended>>
      /\ Undecided' = Undecided /\ (Undecided => age' = age + 1)
      /\ pc'[c] = IF pc[c] = "wait" THEN "ask" ELSE pc[c]
  BY DEF Tick, Undecided
<1>2. PaceInv(c)'
  BY <1>1 DEF PaceInv, TypeOK
<1> QED BY <1>1, <1>2, OthersKeepReply DEF TypeOK

LEMMA ClickKeeps ==
  ASSUME TypeOK, TypeOK', AnswerInv, NEW d \in Clicks, Click(d) \/ ChainStep(d),
         NEW c \in Clicks, c # d, PaceInv(c), ReplyInv(c)
  PROVE  PaceInv(c)' /\ ReplyInv(c)'
<1> USE DEF Click, ChainStep, PostAccepted, PostIgnored, PostRefused, PostLost, StartPolling, Ask,
            ShowVerdict, NextPoll, PageGoto, Tell, attempt
<1>1. UNCHANGED <<pc[c], n[c], since[c], reply[c], replyOf[c], told[c]>>
  BY DEF TypeOK
<1>2. ended' = ended
  OBVIOUS
<1>3. number' = number + 1 \/ UNCHANGED <<stage, number, age>>
  OBVIOUS
<1>4. PaceInv(c)'
  BY <1>1, <1>3, OthersKeepPace DEF Undecided
<1> QED BY <1>1, <1>2, <1>3, <1>4, OthersKeepReply DEF TypeOK

LEMMA OwnKeeps ==
  ASSUME TypeOK, TypeOK', AnswerInv, NEW c \in Clicks, Click(c) \/ ChainStep(c),
         PaceInv(c), ReplyInv(c)
  PROVE  PaceInv(c)' /\ ReplyInv(c)'
<1> USE PageAssumption DEF TypeOK, PageGoto, Tell, Clicks
<1>1. CASE Click(c) \/ PostLost(c) \/ StartPolling(c)
  <2>1. UNCHANGED <<stage, age, number, ended, n[c], since[c], reply[c], replyOf[c]>>
    BY <1>1 DEF Click, PostLost, StartPolling, attempt
  <2>2. \/ pc[c] = "off" /\ pc'[c] = "post" /\ told'[c] = told[c]
        \/ pc[c] \in {"post", "posted"} /\ pc'[c] = "end" /\ told'[c] = "timeout"
        \/ pc[c] = "posted" /\ pc'[c] = "wait" /\ told'[c] = told[c]
    BY <1>1 DEF Click, PostLost, StartPolling
  <2>3. Undecided' = Undecided
    BY <2>1 DEF Undecided
  <2>4. PaceInv(c)'
    <3>1. CASE pc'[c] = "wait"
      BY <2>1, <2>2, <2>3, <3>1 DEF PaceInv
    <3>2. CASE pc'[c] = "post"
      BY <2>1, <2>2, <2>3, <3>2 DEF PaceInv
    <3>3. CASE pc'[c] = "end"
      BY <2>1, <2>2, <2>3, <3>3 DEF PaceInv
    <3> QED BY <2>2, <3>1, <3>2, <3>3
  <2>5. ReplyInv(c)'
    <3>1. pc'[c] # "back" /\ (told'[c] \in Verdicts => told'[c] = told[c])
      BY <2>2 DEF Verdicts
    <3> QED BY <2>1, <3>1 DEF ReplyInv
  <2> QED BY <2>4, <2>5
<1>2. CASE PostAccepted(c)
  <2>1. /\ pc[c] = "post" /\ pc'[c] = "posted" /\ number' = number + 1
        /\ since'[c] = number' /\ UNCHANGED <<n[c], reply[c], replyOf[c], told[c], ended>>
    BY <1>2 DEF PostAccepted
  <2> QED BY <2>1 DEF PaceInv, ReplyInv, Verdicts
<1>3. CASE PostIgnored(c)
  <2>1. /\ pc[c] = "post" /\ pc'[c] = "posted" /\ since'[c] = number
        /\ UNCHANGED <<stage, age, number, ended, n[c], reply[c], replyOf[c], told[c]>>
    BY <1>3 DEF PostIgnored, attempt
  <2> QED BY <2>1 DEF PaceInv, ReplyInv, Verdicts
<1>4. CASE PostRefused(c)
  <2>1. /\ pc'[c] = "end" /\ told'[c] = "refused" /\ pc[c] = "post"
        /\ UNCHANGED <<stage, age, number, ended, n[c], since[c], reply[c], replyOf[c]>>
    BY <1>4 DEF PostRefused
  <2> QED BY <2>1 DEF PaceInv, ReplyInv, Verdicts
<1>5. CASE Ask(c)
  <2>1. /\ pc[c] = "ask" /\ pc'[c] = "back" /\ reply'[c] = answer /\ replyOf'[c] = answerOf
        /\ UNCHANGED <<stage, age, number, ended, n[c], since[c], told[c]>>
    BY <1>5 DEF Ask, attempt
  <2>2. PaceInv(c)'
    BY <2>1 DEF PaceInv, Undecided
  <2>3. answer # 0 /\ answerOf < since[c] => n[c] + 1 <= Delay
    <3>1. SUFFICES ASSUME answer # 0, answerOf < since[c] PROVE n[c] + 1 <= Delay
      OBVIOUS
    <3>2. stage = "accepted" /\ age <= Delay /\ since[c] = number
      <4>1. since[c] <= number /\ answerOf # 0
        BY <3>1 DEF AnswerInv, PaceInv
      <4>2. stage \notin {"none", "over", "begun", "trying", "won", "lost"}
        BY <3>1, <4>1 DEF AnswerInv
      <4>3. stage \in Stages
        BY Zenon DEF TypeOK
      <4>4. stage = "accepted"
        BY <4>2, <4>3, Zenon DEF Stages
      <4>5. answerOf = number - 1 /\ age <= Delay
        BY <4>4 DEF AnswerInv
      <4>6. since[c] \in Int /\ number \in Int
        OBVIOUS
      <4> QED BY <3>1, <4>1, <4>4, <4>5, <4>6
    <3>3. n[c] + 1 <= age
      BY <2>1, <3>2 DEF PaceInv, Undecided
    <3> QED BY <3>2, <3>3
  <2>4. told[c] \notin Verdicts
    BY <2>1 DEF PaceInv, Verdicts
  <2> QED BY <2>1, <2>2, <2>3, <2>4 DEF ReplyInv, AnswerInv, Verdicts
<1>6. CASE ShowVerdict(c)
  <2>1. /\ pc[c] = "back" /\ pc'[c] = "end" /\ reply[c] # 0
        /\ told'[c] = IF reply[c] = 1 THEN "ok" ELSE "failed"
        /\ UNCHANGED <<stage, age, number, ended, since[c], replyOf[c]>>
    BY <1>6 DEF ShowVerdict, attempt
  <2>2. reply[c] \in {1, 2}
    BY <2>1
  <2>3. ended[replyOf[c]] = reply[c] /\ replyOf[c] > 0
    BY <2>1 DEF ReplyInv
  <2>4. PaceInv(c)'
    BY <2>1 DEF PaceInv, Undecided
  <2> QED BY <2>1, <2>2, <2>3, <2>4 DEF ReplyInv, Verdicts
<1>7. CASE NextPoll(c)
  <2>1. /\ pc[c] \in {"ask", "back"} /\ told[c] = "nothing"
        /\ UNCHANGED <<stage, age, number, ended, since[c], reply[c], replyOf[c]>>
    BY <1>7 DEF NextPoll, attempt, PaceInv
  <2>2. Undecided' = Undecided
    BY <2>1 DEF Undecided
  <2>3. CASE n[c] < LastPoll
    <3>1. pc'[c] = "wait" /\ n'[c] = n[c] + 1 /\ told'[c] = "nothing"
      BY <1>7, <2>1, <2>3 DEF NextPoll
    <3>2. PaceInv(c)'
      <4>1. Undecided /\ since[c] = number => n[c] + 1 <= age
        BY <2>1 DEF PaceInv
      <4> QED BY <2>1, <2>2, <3>1, <4>1 DEF PaceInv
    <3> QED BY <2>1, <3>1, <3>2 DEF ReplyInv, Verdicts
  <2>4. CASE ~(n[c] < LastPoll)
    <3>1. pc'[c] = "end" /\ told'[c] = "submitted"
      BY <1>7, <2>4 DEF NextPoll
    <3>2. ~(Undecided /\ since[c] = number)
      BY <2>1, <2>4 DEF PaceInv
    <3> QED BY <2>1, <2>2, <3>1, <3>2 DEF PaceInv, ReplyInv, Verdicts
  <2> QED BY <2>3, <2>4
<1> QED BY <1>1, <1>2, <1>3, <1>4, <1>5, <1>6, <1>7 DEF ChainStep

LEMMA PageInvHolds == Spec => []PageInv
<1>1. Init => \A c \in Clicks : PaceInv(c) /\ ReplyInv(c)
  BY DEF Init, PaceInv, ReplyInv, Undecided, Verdicts
<1>2. /\ TypeOK /\ TypeOK' /\ AnswerInv /\ [Next]_vars
      /\ (\A c \in Clicks : PaceInv(c) /\ ReplyInv(c))
      => (\A c \in Clicks : PaceInv(c) /\ ReplyInv(c))'
  <2> SUFFICES ASSUME TypeOK, TypeOK', AnswerInv, [Next]_vars, NEW c \in Clicks,
                      PaceInv(c), ReplyInv(c)
               PROVE  PaceInv(c)' /\ ReplyInv(c)'
    BY DEF Clicks
  <2>1. CASE TaskStep
    BY <2>1, TaskKeeps
  <2>2. CASE Tick
    BY <2>2, TickKeeps
  <2>3. ASSUME NEW d \in Clicks, Click(d) \/ ChainStep(d) PROVE PaceInv(c)' /\ ReplyInv(c)'
    BY <2>3, OwnKeeps, ClickKeeps
  <2>4. CASE UNCHANGED vars
    BY <2>4 DEF vars, attempt, page, PaceInv, ReplyInv, Undecided
  <2> QED BY <2>1, <2>2, <2>3, <2>4 DEF Next
<1> QED BY <1>1, <1>2, TypeCorrect, AnswerInvHolds, PTL DEF Spec, PageInv

(* The page gives up only on a decided attempt, whatever polls get lost and
   however the clicks follow each other: each poll takes a second. *)
THEOREM GivingUpIsLate == Spec => []GivesUpLate
<1>1. TypeOK /\ PageInv => GivesUpLate
  BY DEF TypeOK, PageInv, PaceInv, GivesUpLate
<1> QED BY <1>1, TypeCorrect, PageInvHolds, PTL

(* Only the first Delay polls of a chain can bring the verdict of an attempt
   before its own. *)
THEOREM OldVerdictsComeEarly == Spec => []OldVerdictOnlyEarly
<1>1. TypeOK /\ PageInv => OldVerdictOnlyEarly
  BY PageAssumption DEF TypeOK, PageInv, ReplyInv, OldVerdictOnlyEarly
<1> QED BY <1>1, TypeCorrect, PageInvHolds, PTL

(* A verdict on the page is how some attempt ended. *)
THEOREM VerdictsAreTrue == Spec => []VerdictIsTrue
<1>1. TypeOK /\ PageInv => VerdictIsTrue
  BY DEF TypeOK, PageInv, ReplyInv, VerdictIsTrue, Verdicts
<1> QED BY <1>1, TypeCorrect, PageInvHolds, PTL

-------------------------------------------------------------------------------
(* The attempt of this module is one of module Attempt: what is shown here of
   the page holds over every manager that implements it. *)

Heard == LastTried > 0 /\ ended[LastTried] = 1

LEMMA StepImplements ==
  ASSUME TypeOK, TypeOK', AnswerInv, [Next]_vars
  PROVE  [Manager!Next]_(Manager!vars)
<1> USE DEF Manager!vars
<1>1. ASSUME UNCHANGED <<stage, job, answer, number, ended>> PROVE UNCHANGED Manager!vars
  BY <1>1 DEF LastTried
<1>2. CASE Begin
  <2>1. UNCHANGED <<job, number, ended>> /\ stage = "accepted" /\ stage' = "begun" /\ answer' = 0
    BY <1>2 DEF Begin, Goto
  <2>2. Heard' = Heard
    BY <2>1 DEF LastTried, Heard
  <2>3. Manager!Begin
    BY <2>1, <2>2 DEF Manager!Begin, Manager!Goto, Heard
  <2> QED BY <2>3 DEF Manager!Next
<1>3. CASE Try
  <2>1. UNCHANGED <<job, answer, number, ended>> /\ stage = "begun" /\ stage' = "trying"
    BY <1>3 DEF Try, Goto
  <2>2. Heard' = FALSE
    BY <2>1 DEF LastTried, Heard, AnswerInv
  <2>3. Manager!Try
    BY <2>1, <2>2 DEF Manager!Try, Manager!Goto, Heard
  <2> QED BY <2>3 DEF Manager!Next
<1>4. CASE Decide
  <2>1. UNCHANGED <<job, answer, number>> /\ stage = "trying" /\ number \in Clicks
    BY <1>4 DEF Decide, Goto, AnswerInv, TypeOK, Clicks
  <2>2. \/ stage' = "won" /\ ended'[number] = 1
        \/ stage' = "lost" /\ ended'[number] = 2
    BY <1>4, <2>1 DEF Decide, Goto, TypeOK
  <2>3. LastTried = number /\ LastTried' = number /\ number > 0
    BY <2>1, <2>2 DEF LastTried, Clicks, TypeOK
  <2>4. CASE stage' = "won"
    <3>1. Heard' = TRUE
      BY <2>1, <2>2, <2>3, <2>4 DEF Heard
    <3>2. Manager!Win
      BY <2>1, <2>4, <3>1 DEF Manager!Win, Manager!Goto, Heard
    <3> QED BY <3>2 DEF Manager!Next
  <2>5. CASE stage' = "lost"
    <3>1. Heard' = FALSE /\ Heard = FALSE
      BY <2>1, <2>2, <2>3, <2>5 DEF Heard, AnswerInv
    <3>2. Manager!Lose
      BY <2>1, <2>5, <3>1 DEF Manager!Lose, Manager!Goto, Heard
    <3> QED BY <3>2 DEF Manager!Next
  <2> QED BY <2>2, <2>4, <2>5
<1>5. CASE Publish
  <2>1. UNCHANGED <<job, number, ended>>
    BY <1>5 DEF Publish
  <2>2. \/ stage = "won" /\ stage' = "over" /\ answer' = 1
        \/ stage = "lost" /\ stage' = "over" /\ answer' = 2
    BY <1>5 DEF Publish, Goto
  <2>3. Heard' = Heard
    BY <2>1, <2>2 DEF LastTried, Heard
  <2>4. Manager!Tell
    BY <2>1, <2>2, <2>3 DEF Manager!Tell, Manager!Goto, Heard
  <2> QED BY <2>4 DEF Manager!Next
<1>6. CASE End
  <2>1. UNCHANGED <<job, answer, number, ended>> /\ stage = "over" /\ stage' = "none"
    BY <1>6 DEF End, Goto
  <2>2. Heard' = Heard
    BY <2>1 DEF LastTried, Heard
  <2>3. Manager!End
    BY <2>1, <2>2 DEF Manager!End, Manager!Goto, Heard
  <2> QED BY <2>3 DEF Manager!Next
<1>7. CASE Tick
  BY <1>1, <1>7 DEF Tick
<1>8. ASSUME NEW c \in Clicks, PostAccepted(c) PROVE Manager!Next
  <2>1. /\ UNCHANGED <<answer, ended>> /\ stage = "none" /\ stage' = "accepted"
        /\ number' = number + 1 /\ job' = c
    BY <1>8 DEF PostAccepted, Goto
  <2>2. Heard' = Heard
    BY <2>1 DEF LastTried, Heard, TypeOK
  <2>3. Manager!Accept
    BY <2>1, <2>2 DEF Manager!Accept, Heard
  <2> QED BY <2>3 DEF Manager!Next
<1>9. ASSUME NEW c \in Clicks, PostRefused(c) PROVE [Manager!Next]_(Manager!vars)
  <2>1. CASE job' = job
    BY <1>1, <1>9, <2>1 DEF PostRefused
  <2>2. CASE stage = "none" /\ job' = c
    <3>1. UNCHANGED <<stage, answer, number, ended>>
      BY <1>9 DEF PostRefused
    <3>2. Heard' = Heard
      BY <3>1 DEF LastTried, Heard
    <3>3. Manager!Accept
      BY <2>2, <3>1, <3>2 DEF Manager!Accept, Heard
    <3> QED BY <3>3 DEF Manager!Next
  <2> QED BY <1>9, <2>1, <2>2 DEF PostRefused
<1>10. ASSUME NEW c \in Clicks,
              \/ Click(c) \/ PostIgnored(c) \/ PostLost(c) \/ StartPolling(c)
              \/ Ask(c) \/ ShowVerdict(c) \/ NextPoll(c)
       PROVE  UNCHANGED Manager!vars
  BY <1>1, <1>10 DEF Click, PostIgnored, PostLost, StartPolling, Ask, ShowVerdict, NextPoll, attempt
<1>11. CASE UNCHANGED vars
  BY <1>1, <1>11 DEF vars, attempt
<1> QED
  BY <1>2, <1>3, <1>4, <1>5, <1>6, <1>7, <1>8, <1>9, <1>10, <1>11 DEF Next, TaskStep, ChainStep

(* The attempts the page is checked against are those of module Attempt, which
   the Wi-Fi manager implements (WifiManagerProofs). *)
THEOREM ImplementsAttempt == Spec => ManagerSpec
<1>1. Init => Manager!Init
  BY DEF Init, Manager!Init, Manager!Fresh, LastTried
<1>2. TypeOK /\ TypeOK' /\ AnswerInv /\ [Next]_vars => [Manager!Next]_(Manager!vars)
  BY StepImplements
<1> QED BY <1>1, <1>2, TypeCorrect, AnswerInvHolds, PTL DEF Spec, ManagerSpec, Manager!Spec
===============================================================================
