------------------------------- MODULE UartLine -------------------------------
(***************************************************************************)
(* main/uart_protocol.c, uart_read_command: the bytes of the STM32 become   *)
(* command lines.  The UART driver queues received bytes in a ring buffer,  *)
(* drops what does not fit, and is external; main takes one byte at a time  *)
(* while it listens and none while it runs a command (app_main.c:66-73).    *)
(* The 50 ms limit of a call changes nothing: the partial line is static.   *)
(***************************************************************************)
EXTENDS Integers, Sequences, SequencesExt

CONSTANTS
  Chars,      (* bytes other than the two line characters                  *)
  CR, LF,     (* '\r' and '\n'                                             *)
  MaxLen,     (* UART_CMD_MAX_LEN                                          *)
  RingSize,   (* size of the driver's receive buffer                       *)
  MaxBytes    (* bound: bytes the STM32 sends                              *)

Bytes == Chars \cup {CR, LF}

ASSUME UartAssumption ==
  /\ CR # LF /\ CR \notin Chars /\ LF \notin Chars
  /\ MaxLen \in Nat /\ MaxLen >= 2
  /\ RingSize \in Nat /\ RingSize >= 1
  /\ MaxBytes \in Nat

VARIABLES
  ring,       (* bytes the driver has received and main has not taken      *)
  rx,         (* rx_buf up to rx_len                                       *)
  cmd,        (* what main runs: a command line, or <<>> while it listens  *)
  sent,       (* history: all bytes of the STM32                           *)
  taken,      (* history: the bytes main has taken                         *)
  delivered,  (* history: the commands main has run or runs                *)
  dropped     (* history: the ring was full when a byte came               *)

vars == <<ring, rx, cmd, sent, taken, delivered, dropped>>

(* The partial line never holds a line feed. *)
TypeOK ==
  /\ ring \in Seq(Bytes)
  /\ rx \in Seq(Bytes \ {LF})
  /\ cmd \in Seq(Bytes \ {LF})
  /\ sent \in Seq(Bytes)
  /\ taken \in Seq(Bytes)
  /\ delivered \in Seq(Seq(Bytes \ {LF}))
  /\ dropped \in BOOLEAN

Init ==
  /\ ring = <<>> /\ rx = <<>> /\ cmd = <<>>
  /\ sent = <<>> /\ taken = <<>> /\ delivered = <<>> /\ dropped = FALSE

(* A byte arrives. *)
Arrive(byte) ==
  /\ Len(sent) < MaxBytes
  /\ sent' = Append(sent, byte)
  /\ IF Len(ring) < RingSize
     THEN ring' = Append(ring, byte) /\ UNCHANGED dropped
     ELSE dropped' = TRUE /\ UNCHANGED ring
  /\ UNCHANGED <<rx, cmd, taken, delivered>>

(* main takes the oldest byte. *)
Take ==
  /\ cmd = <<>>
  /\ ring # <<>>
  /\ ring' = Tail(ring)
  /\ taken' = Append(taken, Head(ring))
  /\ UNCHANGED <<sent, dropped>>

(* The line without a carriage return at its end. *)
Stripped(line) == IF line # <<>> /\ Last(line) = CR THEN Front(line) ELSE line

(* Mutant: the carriage return stays. *)
EndLineKeepsCr ==
  /\ Take
  /\ Head(ring) = LF
  /\ rx' = <<>>
  /\ cmd' = rx
  /\ delivered' = IF rx = <<>> THEN delivered ELSE Append(delivered, rx)

(* End of line; an empty one is skipped. *)
EndLine ==
  /\ Take
  /\ Head(ring) = LF
  /\ rx' = <<>>
  /\ cmd' = Stripped(rx)
  /\ delivered' = IF Stripped(rx) = <<>> THEN delivered ELSE Append(delivered, Stripped(rx))

(* Mutant: no room is left for the terminator. *)
StoreTooFar ==
  /\ Take
  /\ Head(ring) # LF
  /\ Len(rx) < MaxLen
  /\ rx' = Append(rx, Head(ring))
  /\ UNCHANGED <<cmd, delivered>>

Store ==
  /\ Take
  /\ Head(ring) # LF
  /\ Len(rx) < MaxLen - 1
  /\ rx' = Append(rx, Head(ring))
  /\ UNCHANGED <<cmd, delivered>>

(* Mutant: the excess byte is dropped and the line kept. *)
OverflowKeepsLine ==
  /\ Take
  /\ Head(ring) # LF
  /\ Len(rx) >= MaxLen - 1
  /\ UNCHANGED <<rx, cmd, delivered>>

(* Buffer full: what was read so far, and this byte, are discarded. *)
Overflow ==
  /\ Take
  /\ Head(ring) # LF
  /\ Len(rx) >= MaxLen - 1
  /\ rx' = <<>>
  /\ UNCHANGED <<cmd, delivered>>

(* main has answered the command and listens again. *)
Listen ==
  /\ cmd # <<>>
  /\ cmd' = <<>>
  /\ UNCHANGED <<ring, rx, sent, taken, delivered, dropped>>

(* No byte within the time limit. *)
PollNothing == cmd = <<>> /\ ring = <<>> /\ UNCHANGED vars

Read == EndLine \/ Store \/ Overflow

Next ==
  \/ \E byte \in Bytes : Arrive(byte)
  \/ Read \/ Listen \/ PollNothing

Spec == Init /\ [][Next]_vars

(* The loop of app_main polls the UART for ever, and every command ends
   (CommandAnswered of WifiManager). *)
FairSpec == Spec /\ WF_vars(Read) /\ WF_vars(Listen)

-------------------------------------------------------------------------------
(* Reference: the commands of a byte string as a whole, however it is read. *)

EndsOfLine(s) == {i \in 1..Len(s) : s[i] = LF}

(* The line that ends at position i, without its line feed. *)
LineAt(s, i) == SubSeq(s, Max({j \in EndsOfLine(s) : j < i} \cup {0}) + 1, i - 1)

(* What the code keeps of a line: each time the buffer is full, MaxLen bytes
   are discarded.  A line that fits is kept as it is. *)
Kept(line) == SubSeq(line, Len(line) - (Len(line) % MaxLen) + 1, Len(line))

(* The command of the line that ends at i: what is kept of it, stripped. *)
CommandAt(s, i) == Stripped(Kept(LineAt(s, i)))

CommandEnds(s) == {i \in EndsOfLine(s) : CommandAt(s, i) # <<>>}

(* list is the commands in s: those of its lines, in order, without the empty
   ones; command n is the one that ends at at[n]. *)
AreCommandsOf(list, s) ==
  \E at \in [1..Len(list) -> CommandEnds(s)] :
    /\ \A m, n \in 1..Len(list) : m < n => at[m] < at[n]
    /\ \A i \in CommandEnds(s) : \E n \in 1..Len(list) : at[n] = i
    /\ \A n \in 1..Len(list) : list[n] = CommandAt(s, at[n])

-------------------------------------------------------------------------------
(* rx_buf[rx_len] = 0 stays inside rx_buf (uart_protocol.c:109, 117-118). *)
BufferInBounds == Len(rx) < MaxLen

(* The commands main runs are those of the bytes it took, in order, none lost
   and none made up, however arrivals, timeouts and commands cut the stream:
   every line that fits is run as sent, an overlong one as Kept says, and the
   line after an overlong one is read afresh. *)
CommandsExact == AreCommandsOf(delivered, taken)

(* Once the STM32 stops sending, every command it ever sent has been run, also
   those sent while main was busy, unless they did not fit into the ring. *)
AllRun == <>[](dropped \/ AreCommandsOf(delivered, sent))
===============================================================================
