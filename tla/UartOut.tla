-------------------------------- MODULE UartOut --------------------------------
(***************************************************************************)
(* The sending half of main/uart_protocol.c: main, delayed_conn, httpd and   *)
(* the event loop write lines to the STM32, unlocked; each event is put      *)
(* together in a buffer of the caller's stack and handed to one              *)
(* uart_write_bytes.  Before uart_protocol_init the log shares the UART.     *)
(*                                                                         *)
(* The UART driver is external: uart_write_bytes holds a mutex while it      *)
(* copies the bytes it was given into the transmit ring, waiting for room;   *)
(* the hardware empties the ring.  A line is named by its writer and its     *)
(* number, a byte by its line and place.                                    *)
(***************************************************************************)
EXTENDS Integers, Sequences

CONSTANTS
  Writers,      (* the tasks that send                                     *)
  Main,         (* the one that runs app_main and acknowledges             *)
  MaxLen,       (* UART_CMD_MAX_LEN                                        *)
  RingSize,     (* UART_BUF_SIZE * 2                                       *)
  Texts,        (* lengths of the formatted event texts                    *)
  MaxLines,     (* bound: lines of a writer                                *)
  MaxRestarts   (* bound: restarts                                         *)

ASSUME OutAssumption ==
  /\ Main \in Writers
  /\ MaxLen \in Nat \ {0} /\ RingSize \in Nat \ {0}
  /\ Texts \subseteq Nat
  /\ MaxLines \in Nat /\ MaxRestarts \in Nat

VARIABLES
  redirected,   (* the log has gone to UART1                               *)
  holder,       (* the writer that has the driver's mutex; {} or {w}       *)
  wpc,          (* each writer: "idle", "lock" or "copy"                   *)
  count,        (* lines a writer has begun                                *)
  size,         (* bytes of its line                                       *)
  copied,       (* bytes of it that are in the ring                        *)
  ring,         (* the transmit ring                                       *)
  seen,         (* STM32: bytes since the last line feed                   *)
  got,          (* STM32: lines received                                   *)
  due,          (* history: lines whose writer has had the mutex and whose *)
                (* last byte has not been sent                             *)
  restarts

vars == <<redirected, holder, wpc, count, size, copied, ring, seen, got, due, restarts>>

Noise     == <<"noise", 0>>
Lines     == Writers \X (1..MaxLines)
Line(w)   == <<w, count[w]>>
IsLast(b) == b.place = b.of

(* Sizes of "EVT:<text>\r\n" and of the two acknowledgements. *)
EventBuf  == MaxLen + 8
AckSizes  == {8, 9}

Min2(a, b) == IF a <= b THEN a ELSE b

(* Mutant: the text is not cut. *)
EventSizeUncut(text) == 4 + text + 2

(* vsnprintf into MaxLen bytes cuts the text; snprintf returns the length of
   the whole line, which is what is written. *)
EventSize(text) == 4 + Min2(text, MaxLen - 1) + 2

Byte == {b \in [line : Lines, place : Nat, of : Nat] : b.place \in 1..b.of}

(* Types; no more bytes are handed to the driver than the buffer of the caller
   has, whatever the length of the text (uart_protocol.c:63-65, 70-73), and the
   ring is never overrun. *)
TypeOK ==
  /\ redirected \in BOOLEAN
  /\ holder \in SUBSET Writers
  /\ wpc \in [Writers -> {"idle", "lock", "copy"}]
  /\ count \in [Writers -> 0..MaxLines]
  /\ size \in [Writers -> 0..EventBuf \cup AckSizes] /\ copied \in [Writers -> Nat]
  /\ \A w \in Writers : size[w] <= EventBuf \/ w = Main
  /\ \A w \in Writers : copied[w] <= size[w]
  /\ ring \in Seq(Byte) /\ Len(ring) <= RingSize
  /\ seen \in Seq(Byte)
  /\ got \in Seq(Lines \cup {Noise}) /\ due \in Seq(Lines)
  /\ restarts \in 0..MaxRestarts

Init ==
  /\ redirected = FALSE /\ holder = {}
  /\ wpc = [w \in Writers |-> "idle"] /\ count = [w \in Writers |-> 0]
  /\ size = [w \in Writers |-> 0] /\ copied = [w \in Writers |-> 0]
  /\ ring = <<>> /\ seen = <<>> /\ got = <<>> /\ due = <<>> /\ restarts = 0

-------------------------------------------------------------------------------
(* app_main and uart_protocol_init. *)

(* Log and boot text: to the STM32 until the log is redirected, counted once
   however long.  Later lines go to the other UART and touch nothing here. *)
BootLog ==
  /\ ~redirected
  /\ seen' = <<>>
  /\ got' = IF got # <<>> /\ got[Len(got)] = Noise THEN got ELSE Append(got, Noise)
  /\ UNCHANGED <<redirected, holder, wpc, count, size, copied, ring, due, restarts>>

ProtocolInit ==
  /\ ~redirected
  /\ redirected' = TRUE
  /\ UNCHANGED <<holder, wpc, count, size, copied, ring, seen, got, due, restarts>>

-------------------------------------------------------------------------------
(* uart_send_event, uart_send_eventf and uart_send_ack up to the driver. *)

Hand(w, bytes) ==
  /\ redirected
  /\ wpc[w] = "idle" /\ count[w] < MaxLines
  /\ wpc' = [wpc EXCEPT ![w] = "lock"]
  /\ count' = [count EXCEPT ![w] = @ + 1]
  /\ size' = [size EXCEPT ![w] = bytes]
  /\ UNCHANGED <<redirected, holder, copied, ring, seen, got, due, restarts>>

SendEvent(w) == \E text \in Texts : Hand(w, EventSize(text))
SendAck      == \E bytes \in AckSizes : Hand(Main, bytes)

-------------------------------------------------------------------------------
(* uart_write_bytes, and the wire. *)

Lock(w) ==
  /\ wpc[w] = "lock"
  /\ holder = {}
  /\ holder' = {w}
  /\ wpc' = [wpc EXCEPT ![w] = "copy"]
  /\ due' = Append(due, Line(w))
  /\ UNCHANGED <<redirected, count, size, copied, ring, seen, got, restarts>>

Copy(w) ==
  /\ wpc[w] = "copy"
  /\ copied[w] < size[w] /\ Len(ring) < RingSize
  /\ copied' = [copied EXCEPT ![w] = @ + 1]
  /\ ring' = Append(ring, [line |-> Line(w), place |-> copied'[w], of |-> size[w]])
  /\ UNCHANGED <<redirected, holder, wpc, count, size, seen, got, due, restarts>>

(* Mutant: "EVT:" and the rest are written by two calls. *)
UnlockTwice(w) ==
  /\ wpc[w] = "copy" /\ copied[w] \in {4, size[w]}
  /\ holder' = holder \ {w}
  /\ wpc' = [wpc EXCEPT ![w] = IF copied[w] = size[w] THEN "idle" ELSE "lock"]
  /\ UNCHANGED <<redirected, count, size, copied, ring, seen, got, due, restarts>>

Unlock(w) ==
  /\ wpc[w] = "copy" /\ copied[w] = size[w]
  /\ holder' = holder \ {w}
  /\ wpc' = [wpc EXCEPT ![w] = "idle"]
  /\ size' = [size EXCEPT ![w] = 0] /\ copied' = [copied EXCEPT ![w] = 0]
  /\ UNCHANGED <<redirected, count, ring, seen, got, due, restarts>>

(* The line of the bytes b, if they are one. *)
Assembled(b) ==
  IF /\ Len(b) = b[1].of
     /\ \A i \in 1..Len(b) : b[i].line = b[1].line /\ b[i].place = i
  THEN b[1].line ELSE Noise

Transmit ==
  /\ ring # <<>>
  /\ ring' = Tail(ring)
  /\ LET bytes == Append(seen, Head(ring)) IN
       IF IsLast(Head(ring))
       THEN seen' = <<>> /\ got' = Append(got, Assembled(bytes)) /\ due' = Tail(due)
       ELSE seen' = bytes /\ UNCHANGED <<got, due>>
  /\ UNCHANGED <<redirected, holder, wpc, count, size, copied, restarts>>

(* The module restarts; the STM32 keeps what it has read of a line. *)
Restart ==
  /\ restarts < MaxRestarts
  /\ restarts' = restarts + 1
  /\ redirected' = FALSE /\ holder' = {} /\ ring' = <<>> /\ due' = <<>>
  /\ wpc' = [w \in Writers |-> "idle"]
  /\ size' = [w \in Writers |-> 0] /\ copied' = [w \in Writers |-> 0]
  /\ UNCHANGED <<count, seen, got>>

(* No command: main polls. *)
PollNothing == redirected /\ wpc[Main] = "idle" /\ UNCHANGED vars

-------------------------------------------------------------------------------
Write(w) == Lock(w) \/ Copy(w) \/ Unlock(w)

Next ==
  \/ BootLog \/ ProtocolInit \/ Transmit \/ Restart
  \/ SendAck \/ PollNothing
  \/ \E w \in Writers : SendEvent(w) \/ Write(w)

Spec == Init /\ [][Next]_vars

-------------------------------------------------------------------------------
(* The UART as a channel of lines: a line enters it when its writer gets the
   mutex and leaves it with its last byte. *)
Torn == seen # <<>> /\ (due = <<>> \/ seen[1].line # due[1])

Channel == INSTANCE LineChannel WITH queue <- due, torn <- Torn

(* Lines reach the STM32 whole, in one order, and none is made up, whichever
   tasks write at once and however small the ring; a restart costs what was
   under way and at most one line after it (uart_protocol.c:61-66). *)
ChannelSpec == Channel!Spec

(* No line reaches the STM32 twice, and those of one task come in the order in
   which it sent them, over restarts. *)
LinesInOrder ==
  \A i, j \in 1..Len(got) :
    i < j /\ Noise \notin {got[i], got[j]} /\ got[i][1] = got[j][1] => got[i][2] < got[j][2]
===============================================================================
