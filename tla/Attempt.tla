------------------------------- MODULE Attempt --------------------------------
(***************************************************************************)
(* What a provisioning attempt promises the phone, the STM32 and the flash *)
(* (main/wifi_manager.h and README.md, POST /connect and GET /result), with *)
(* no driver, no event group and no tasks:                                 *)
(*                                                                         *)
(*   - one attempt runs at a time and keeps its credentials to its end;    *)
(*   - once it has begun, the answer is "pending" until it is decided, and *)
(*     it is decided once;                                                 *)
(*   - it succeeds only if an address was obtained after it began;         *)
(*   - only a successful attempt stores credentials, and they are its own. *)
(***************************************************************************)
EXTENDS Naturals

CONSTANTS Jobs,     (* the credentials an attempt may be for               *)
          NoJob     (* the pair of two empty components                    *)

VARIABLES
  stage,    (* "none", "accepted", "begun", "trying", "won", "lost", "over" *)
  job,      (* the credentials of the attempt                              *)
  answer,   (* what GET /result says: 0 pending, 1 success, 2 failure      *)
  heard,    (* an address was obtained since the attempt began to try      *)
  kept      (* the stored SSID and password                                *)

vars == <<stage, job, answer, heard, kept>>

Fresh == stage = "none" /\ job = NoJob /\ answer = 0 /\ heard = FALSE
Init  == Fresh /\ kept \in Jobs \cup {NoJob}

Goto(from, to) == stage = from /\ stage' = to

(* A submission while none runs; it may fail for want of a task. *)
Accept ==
  /\ stage = "none"
  /\ stage' \in {"none", "accepted"}
  /\ job' \in Jobs
  /\ UNCHANGED <<answer, heard, kept>>

Begin == Goto("accepted", "begun") /\ answer' = 0 /\ UNCHANGED <<job, heard, kept>>
Try   == Goto("begun", "trying") /\ heard' = FALSE /\ UNCHANGED <<job, answer, kept>>
Hear  == heard' = TRUE /\ UNCHANGED <<stage, job, answer, kept>>
Win   == Goto("trying", "won") /\ heard' = TRUE /\ UNCHANGED <<job, answer, kept>>
Lose  == Goto("trying", "lost") /\ UNCHANGED <<job, answer, heard, kept>>

(* The two halves of a pair reach the flash one after the other. *)
Keep ==
  /\ stage = "won"
  /\ kept' \in {<<job[1], kept[2]>>, <<kept[1], job[2]>>}
  /\ UNCHANGED <<stage, job, answer, heard>>

Forget == kept' = NoJob /\ UNCHANGED <<stage, job, answer, heard>>

Tell ==
  /\ \/ Goto("won", "over") /\ answer' = 1
     \/ Goto("lost", "over") /\ answer' = 2
  /\ UNCHANGED <<job, heard, kept>>

End   == Goto("over", "none") /\ UNCHANGED <<job, answer, heard, kept>>

(* Everything but the flash is lost. *)
PowerLoss == Fresh' /\ UNCHANGED kept

Next == Accept \/ Begin \/ Try \/ Hear \/ Win \/ Lose \/ Keep \/ Forget \/ Tell
        \/ End \/ PowerLoss

Spec == Init /\ [][Next]_vars
===============================================================================
