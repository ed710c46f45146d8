------------------------------ MODULE MCDnsServer -----------------------------
EXTENDS DnsServer
CONSTANTS t1, t2, t3

(* An orderly STM32, on a module that ends tasks in time or does not, with
   memory or without; and one that gives commands in any order on a module
   that fails in every way. *)
Around(d, t, l) == [disciplined |-> d, timely |-> t, lowMemory |-> l]
Orderly         == {Around(TRUE, t, l) : t \in BOOLEAN, l \in BOOLEAN}
Wild            == Around(FALSE, FALSE, TRUE)
AllFive         == Orderly \cup {Wild}
===============================================================================
