----------------------------- MODULE LineChannel ------------------------------
(***************************************************************************)
(* What the STM32 may expect of the module's UART (main/uart_protocol.h,    *)
(* "text lines that end in \r\n"): the lines arrive whole and in the order   *)
(* they were sent.  A restart forgets what is under way, and when it cuts    *)
(* a line short, that costs the next line as well.                          *)
(***************************************************************************)
EXTENDS Sequences

CONSTANTS Lines, Noise   (* Noise: a line that is none of the protocol     *)

VARIABLES queue,  (* lines sent and not yet received                       *)
          got,    (* the lines the STM32 has received                      *)
          torn    (* the STM32 holds the head of a line nobody completes   *)

vars == <<queue, got, torn>>

Init == queue = <<>> /\ got = <<>> /\ torn = FALSE

Send == \E l \in Lines : queue' = Append(queue, l) /\ UNCHANGED <<got, torn>>

Receive ==
  /\ queue # <<>>
  /\ queue' = Tail(queue)
  /\ got' = Append(got, IF torn THEN Noise ELSE Head(queue))
  /\ torn' = FALSE

Restart == queue' = <<>> /\ torn' \in {torn, TRUE} /\ UNCHANGED got

(* Text of the boot loader, or of the log before it has a UART of its own,
   only ever ahead of the first line; it ends a torn one. *)
BootText ==
  /\ queue = <<>>
  /\ torn' = FALSE
  /\ got' \in {got, Append(got, Noise)}
  /\ UNCHANGED queue

Next == Send \/ Receive \/ Restart \/ BootText

Spec == Init /\ [][Next]_vars
===============================================================================
