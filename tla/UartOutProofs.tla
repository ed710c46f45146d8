---------------------------- MODULE UartOutProofs -----------------------------
(***************************************************************************)
(* Proofs about UartOut: for any tasks, sizes of the ring and of a line,    *)
(* texts and bounds, the UART is the channel of lines of LineChannel.       *)
(***************************************************************************)
EXTENDS UartOut, SequenceTheorems, TLAPS

(* A writer holds the mutex exactly while it copies, and one at a time; it has
   handed over a line since it was idle.  Until the log is redirected nothing
   is under way. *)
WriterInv ==
  /\ \A w \in Writers : wpc[w] = "copy" <=> w \in holder
  /\ \A u, w \in holder : u = w
  /\ \A w \in Writers : wpc[w] = "idle" => size[w] = 0
  /\ \A w \in Writers : wpc[w] # "copy" => copied[w] = 0
  /\ \A w \in Writers : wpc[w] # "idle" => size[w] > 0 /\ count[w] > 0
  /\ ~redirected => (\A w \in Writers : wpc[w] = "idle") /\ ring = <<>> /\ due = <<>>

(* A line is known once its writer has begun it.  The torn one is no longer any
   writer's: the restart that tore it left every writer idle. *)
Known(line) == line[2] <= count[line[1]]

LinesKnown ==
  /\ \A k \in 1..Len(due) : Known(due[k])
  /\ seen # <<>> => Known(seen[1].line)
  /\ Torn => \A w \in Writers : wpc[w] # "idle" => seen[1].line # Line(w)

(* The byte at place p of the line of b, and the last byte that w has copied. *)
At(b, p) == [line |-> b.line, place |-> p, of |-> b.of]
Part(w)  == [line |-> Line(w), place |-> copied[w], of |-> size[w]]
Busy(w)  == wpc[w] = "copy" /\ copied[w] < size[w]

(* Byte i of the ring belongs to line at[i] of the channel: the lines follow one
   another and the bytes of each are consecutive. *)
Spells(at) ==
  /\ \A i \in 1..Len(ring) : ring[i].line = due[at[i]]
  /\ ring # <<>> => at[1] = 1
  /\ \A i, j \in 1..Len(ring) :
       i < j => at[i] <= at[j] /\ (IsLast(ring[i]) => at[i] < at[j])
  /\ \A i \in 1..Len(ring) : i < Len(ring) =>
       IF IsLast(ring[i])
       THEN at[i + 1] = at[i] + 1 /\ ring[i + 1].place = 1
       ELSE at[i + 1] = at[i] /\ ring[i + 1] = At(ring[i], ring[i].place + 1)

(* Where the ring ends: with a last byte, the channel's last or, if its writer
   has copied nothing yet, the one before it; or with the writer's last byte. *)
EndsRight(at) ==
  /\ (\A w \in Writers : ~Busy(w)) /\ due # <<>> =>
       ring # <<>> /\ IsLast(ring[Len(ring)]) /\ at[Len(ring)] = Len(due)
  /\ \A w \in Writers : Busy(w) =>
       /\ due # <<>> /\ due[Len(due)] = Line(w)
       /\ ring = <<>> => Len(due) = 1
       /\ ring # <<>> /\ copied[w] = 0 =>
            IsLast(ring[Len(ring)]) /\ at[Len(ring)] = Len(due) - 1
       /\ ring # <<>> /\ copied[w] > 0 =>
            ring[Len(ring)] = Part(w) /\ at[Len(ring)] = Len(due)

RingSpelt == \E at \in [1..Len(ring) -> 1..Len(due)] : Spells(at) /\ EndsRight(at)

(* Unless it is torn, what the STM32 has read of a line is the head of the
   channel's first, up to where the ring, or its writer, continues it. *)
IsHead(bytes, b) == Len(bytes) = b.place - 1 /\ \A i \in 1..Len(bytes) : bytes[i] = At(b, i)

SeenIsHead ==
  ~Torn =>
    /\ ring # <<>> => IsHead(seen, ring[1])
    /\ ring = <<>> => \A w \in Writers : Busy(w) => IsHead(seen, At(Part(w), copied[w] + 1))

ChannelInv == WriterInv /\ LinesKnown /\ RingSpelt /\ SeenIsHead

-------------------------------------------------------------------------------
(* Types, and who holds the mutex. *)

(* A line fits the buffer it is put together in. *)
LEMMA SizesFit ==
  /\ \A text \in Texts : EventSize(text) \in 0..EventBuf /\ EventSize(text) > 0
  /\ \A bytes \in AckSizes : bytes > 0
BY OutAssumption DEF EventSize, EventBuf, AckSizes, Min2

LEMMA LinesTyped ==
  ASSUME TypeOK, WriterInv, NEW w \in Writers, wpc[w] # "idle"
  PROVE  Line(w) \in Lines /\ size[w] \in Nat /\ copied[w] \in Nat
<1>1. count[w] \in 1..MaxLines
  BY OutAssumption DEF TypeOK, WriterInv
<1>2. size[w] \in Nat /\ copied[w] \in Nat
  <2>1. size[w] \in 0..EventBuf \cup AckSizes /\ copied[w] \in Nat
    BY DEF TypeOK
  <2>2. \A n \in 0..EventBuf \cup AckSizes : n \in Nat
    BY OutAssumption DEF EventBuf, AckSizes
  <2> QED BY <2>1, <2>2
<1> QED BY <1>1, <1>2 DEF Line, Lines

LEMMA InitTypes == Init => TypeOK /\ WriterInv
<1> SUFFICES ASSUME Init PROVE TypeOK /\ WriterInv
  OBVIOUS
<1>1. \A S : <<>> \in Seq(S) /\ Len(<<>>) = 0
  BY EmptySeq
<1>2. 0 \in 0..EventBuf /\ 0 \in 0..MaxLines /\ 0 \in 0..MaxRestarts /\ 0 <= RingSize /\ 0 <= EventBuf
  BY OutAssumption DEF EventBuf
<1>3. TypeOK
  <2>1. /\ holder = {} /\ redirected = FALSE /\ restarts = 0
        /\ ring = <<>> /\ seen = <<>> /\ got = <<>> /\ due = <<>>
    BY DEF Init
  <2>2. /\ wpc \in [Writers -> {"idle", "lock", "copy"}] /\ count \in [Writers -> 0..MaxLines]
        /\ size \in [Writers -> 0..EventBuf \cup AckSizes] /\ copied \in [Writers -> Nat]
        /\ \A w \in Writers : size[w] <= EventBuf /\ copied[w] <= size[w]
    BY <1>2 DEF Init
  <2> QED BY <1>1, <1>2, <2>1, <2>2 DEF TypeOK
<1>4. WriterInv
  BY DEF Init, WriterInv
<1> QED BY <1>3, <1>4

LEMMA HandTypes ==
  ASSUME TypeOK, WriterInv, NEW w \in Writers, NEW bytes, Hand(w, bytes),
         bytes > 0, bytes \in 0..EventBuf \/ (w = Main /\ bytes \in AckSizes)
  PROVE  TypeOK' /\ WriterInv'
<1>1. bytes \in 0..EventBuf \cup AckSizes /\ count[w] + 1 \in 0..MaxLines /\ count[w] + 1 > 0
  <2>1. count[w] \in 0..MaxLines /\ count[w] < MaxLines /\ MaxLines \in Nat
    BY OutAssumption DEF Hand, TypeOK
  <2> QED BY <2>1
<1>2. wpc' \in [Writers -> {"idle", "lock", "copy"}] /\ count' \in [Writers -> 0..MaxLines]
      /\ size' \in [Writers -> 0..EventBuf \cup AckSizes]
  BY <1>1 DEF Hand, TypeOK
<1>3. \A u \in Writers : size'[u] <= EventBuf \/ u = Main
  BY <1>1 DEF Hand, TypeOK
<1>4. copied[w] = 0 /\ bytes \in Nat
  BY <1>1, OutAssumption DEF Hand, TypeOK, WriterInv, EventBuf, AckSizes
<1>5. \A u \in Writers : copied'[u] <= size'[u]
  BY <1>4 DEF Hand, TypeOK
<1>6. TypeOK'
  BY <1>2, <1>3, <1>5 DEF Hand, TypeOK
<1>7. /\ \A u \in Writers : u # w => wpc'[u] = wpc[u] /\ size'[u] = size[u] /\ count'[u] = count[u]
      /\ wpc'[w] = "lock" /\ size'[w] = bytes /\ count'[w] = count[w] + 1
      /\ UNCHANGED <<redirected, holder, copied, ring, due>>
      /\ redirected /\ wpc[w] = "idle"
  BY DEF Hand, TypeOK
<1>8. WriterInv'
  BY <1>1, <1>4, <1>7 DEF WriterInv
<1> QED BY <1>6, <1>8

LEMMA LockTypes ==
  ASSUME TypeOK, WriterInv, NEW w \in Writers, Lock(w)
  PROVE  TypeOK' /\ WriterInv'
<1>1. Line(w) \in Lines /\ wpc' \in [Writers -> {"idle", "lock", "copy"}]
  BY LinesTyped DEF Lock, TypeOK
<1>2. due' \in Seq(Lines)
  BY <1>1, AppendProperties DEF Lock, TypeOK
<1>3. TypeOK'
  BY <1>1, <1>2 DEF Lock, TypeOK
<1>4. /\ \A u \in Writers : u # w => wpc'[u] = wpc[u]
      /\ wpc'[w] = "copy" /\ wpc[w] = "lock" /\ holder = {} /\ holder' = {w}
      /\ UNCHANGED <<redirected, count, size, copied, ring>>
  BY DEF Lock, TypeOK
<1>5. WriterInv'
  BY <1>4 DEF WriterInv
<1> QED BY <1>3, <1>5

LEMMA CopyTypes ==
  ASSUME TypeOK, WriterInv, NEW w \in Writers, Copy(w)
  PROVE  TypeOK' /\ WriterInv'
<1>1. Line(w) \in Lines /\ size[w] \in Nat /\ copied[w] \in Nat /\ copied[w] < size[w]
  BY LinesTyped DEF Copy
<1>2. copied' = [copied EXCEPT ![w] = copied[w] + 1] /\ copied'[w] = copied[w] + 1
      /\ copied' \in [Writers -> Nat]
  BY <1>1 DEF Copy, TypeOK
<1>3. [line |-> Line(w), place |-> copied'[w], of |-> size[w]] \in Byte
  BY <1>1, <1>2 DEF Byte
<1>4. ring' \in Seq(Byte) /\ Len(ring') <= RingSize
  <2>1. Len(ring) \in Nat /\ Len(ring) < RingSize /\ RingSize \in Nat
    BY OutAssumption DEF Copy, TypeOK
  <2> QED BY <1>3, <2>1, AppendProperties DEF Copy, TypeOK
<1>5. \A u \in Writers : copied'[u] <= size'[u]
  BY <1>1, <1>2 DEF Copy, TypeOK
<1>6. TypeOK'
  BY <1>2, <1>4, <1>5 DEF Copy, TypeOK
<1>7. redirected /\ wpc[w] = "copy" /\ \A u \in Writers : u # w => copied'[u] = copied[u]
  BY <1>2 DEF Copy, TypeOK, WriterInv
<1>8. WriterInv'
  BY <1>7 DEF Copy, WriterInv
<1> QED BY <1>6, <1>8

LEMMA UnlockTypes ==
  ASSUME TypeOK, WriterInv, NEW w \in Writers, Unlock(w)
  PROVE  TypeOK' /\ WriterInv'
<1>1. /\ \A u \in Writers : u # w => /\ wpc'[u] = wpc[u] /\ size'[u] = size[u]
                                      /\ copied'[u] = copied[u]
      /\ wpc'[w] = "idle" /\ size'[w] = 0 /\ copied'[w] = 0
      /\ wpc[w] = "copy" /\ holder' = holder \ {w}
      /\ UNCHANGED <<redirected, count, ring, seen, got, due, restarts>>
  BY DEF Unlock, TypeOK
<1>2. 0 \in 0..EventBuf /\ 0 <= EventBuf
  BY OutAssumption DEF EventBuf
<1>3. wpc' \in [Writers -> {"idle", "lock", "copy"}] /\ copied' \in [Writers -> Nat]
      /\ size' \in [Writers -> 0..EventBuf \cup AckSizes]
  BY <1>2 DEF Unlock, TypeOK
<1>4. TypeOK'
  <2>1. holder' \in SUBSET Writers
    BY <1>1 DEF TypeOK
  <2>2. \A u \in Writers : (size'[u] <= EventBuf \/ u = Main) /\ copied'[u] <= size'[u]
    BY <1>1, <1>2 DEF TypeOK
  <2> QED BY <1>1, <1>3, <2>1, <2>2 DEF TypeOK
<1>5. WriterInv'
  BY <1>1 DEF WriterInv
<1> QED BY <1>4, <1>5

(* A byte in the ring belongs to a line of the channel. *)
LEMMA RingHasLine ==
  ASSUME TypeOK, RingSpelt, ring # <<>>
  PROVE  /\ due # <<>> /\ due \in Seq(Lines) /\ Len(due) \in Nat \ {0}
         /\ Len(ring) \in Nat \ {0} /\ 1 \in 1..Len(ring) /\ Head(ring) = ring[1]
         /\ Head(ring) \in Byte /\ Tail(ring) \in Seq(Byte) /\ Len(Tail(ring)) = Len(ring) - 1
         /\ \A i \in 1..Len(Tail(ring)) : Tail(ring)[i] = ring[i + 1]
<1>1. /\ Len(ring) \in Nat \ {0} /\ 1 \in 1..Len(ring) /\ Head(ring) = ring[1]
      /\ Head(ring) \in Byte /\ Tail(ring) \in Seq(Byte) /\ Len(Tail(ring)) = Len(ring) - 1
      /\ \A i \in 1..Len(Tail(ring)) : Tail(ring)[i] = ring[i + 1]
  BY HeadTailProperties DEF TypeOK
<1>2. PICK at \in [1..Len(ring) -> 1..Len(due)] : TRUE
  BY DEF RingSpelt
<1>3. at[1] \in 1..Len(due) /\ due \in Seq(Lines)
  BY <1>1, <1>2 DEF TypeOK
<1>4. due # <<>> /\ Len(due) \in Nat \ {0}
  BY <1>3
<1> QED BY <1>1, <1>3, <1>4

(* The STM32 has one more byte, or one more line. *)
LEMMA TransmitTypes ==
  ASSUME TypeOK, WriterInv, RingSpelt, Transmit
  PROVE  TypeOK' /\ WriterInv'
<1> DEFINE b == Head(ring)
           bytes == Append(seen, b)
<1>1. /\ ring # <<>> /\ ring' = Tail(ring) /\ Tail(ring) \in Seq(Byte) /\ b \in Byte
      /\ Len(ring') <= RingSize /\ due # <<>> /\ due \in Seq(Lines)
  <2>1. ring # <<>> /\ ring' = Tail(ring)
    BY DEF Transmit
  <2>2. Len(ring) <= RingSize /\ RingSize \in Nat
    BY OutAssumption DEF TypeOK
  <2> QED BY <2>1, <2>2, RingHasLine
<1>2. bytes \in Seq(Byte) /\ Len(bytes) = Len(seen) + 1 /\ Len(seen) \in Nat
  BY <1>1, AppendProperties DEF TypeOK
<1>3. bytes[1] \in Byte
  BY <1>2
<1>4. Assembled(bytes) \in Lines \cup {Noise}
  BY <1>3 DEF Assembled, Byte
<1>5. got' \in Seq(Lines \cup {Noise}) /\ due' \in Seq(Lines) /\ seen' \in Seq(Byte)
  <2>1. Append(got, Assembled(bytes)) \in Seq(Lines \cup {Noise}) /\ got \in Seq(Lines \cup {Noise})
    BY <1>4, AppendProperties DEF TypeOK
  <2>2. Tail(due) \in Seq(Lines) /\ <<>> \in Seq(Byte)
    BY <1>1, HeadTailProperties, EmptySeq
  <2>3. CASE IsLast(b)
    BY <1>1, <2>1, <2>2, <2>3, Zenon DEF Transmit
  <2>4. CASE ~IsLast(b)
    <3>1. seen' = bytes /\ got' = got /\ due' = due
      BY <2>4 DEF Transmit
    <3> QED BY <1>1, <1>2, <2>1, <3>1
  <2> QED BY <2>3, <2>4
<1>6. UNCHANGED <<redirected, holder, wpc, count, size, copied, restarts>>
  BY DEF Transmit
<1> HIDE DEF b, bytes
<1>7. TypeOK'
  BY <1>1, <1>5, <1>6 DEF TypeOK
<1>8. WriterInv'
  BY <1>1, <1>6 DEF WriterInv
<1> QED BY <1>7, <1>8

LEMMA BootTypes ==
  ASSUME TypeOK, WriterInv, BootLog \/ ProtocolInit \/ Restart
  PROVE  TypeOK' /\ WriterInv'
<1>1. CASE BootLog
  <2>1. Append(got, Noise) \in Seq(Lines \cup {Noise}) /\ <<>> \in Seq(Byte)
    BY AppendProperties, EmptySeq DEF TypeOK
  <2>2. got' \in Seq(Lines \cup {Noise}) /\ seen' = <<>>
    BY <1>1, <2>1 DEF BootLog, TypeOK
  <2>3. UNCHANGED <<redirected, holder, wpc, count, size, copied, ring, due, restarts>>
    BY <1>1 DEF BootLog
  <2> QED BY <2>1, <2>2, <2>3 DEF TypeOK, WriterInv
<1>2. CASE ProtocolInit
  BY <1>2 DEF ProtocolInit, TypeOK, WriterInv
<1>3. CASE Restart
  <2>1. <<>> \in Seq(Byte) /\ <<>> \in Seq(Lines) /\ Len(<<>>) = 0 /\ 0 <= RingSize
    BY EmptySeq, OutAssumption
  <2>2. restarts' \in 0..MaxRestarts
    BY <1>3, OutAssumption DEF Restart, TypeOK
  <2>3. /\ redirected' = FALSE /\ holder' = {} /\ ring' = <<>> /\ due' = <<>>
        /\ UNCHANGED <<count, seen, got>>
    BY <1>3 DEF Restart
  <2>4. 0 \in 0..EventBuf /\ 0 <= EventBuf
    BY OutAssumption DEF EventBuf
  <2>5. /\ wpc' \in [Writers -> {"idle", "lock", "copy"}]
        /\ size' \in [Writers -> 0..EventBuf \cup AckSizes] /\ copied' \in [Writers -> Nat]
        /\ \A w \in Writers : wpc'[w] = "idle" /\ size'[w] = 0 /\ copied'[w] = 0
    BY <1>3, <2>4 DEF Restart
  <2>6. TypeOK'
    <3>1. /\ redirected' \in BOOLEAN /\ holder' \in SUBSET Writers
          /\ count' \in [Writers -> 0..MaxLines]
          /\ ring' \in Seq(Byte) /\ Len(ring') <= RingSize /\ due' \in Seq(Lines)
          /\ seen' \in Seq(Byte) /\ got' \in Seq(Lines \cup {Noise})
      BY <2>1, <2>3 DEF TypeOK
    <3>2. \A w \in Writers : size'[w] <= EventBuf /\ copied'[w] <= size'[w]
      BY <2>4, <2>5
    <3> QED BY <2>2, <2>5, <3>1, <3>2 DEF TypeOK
  <2>7. WriterInv'
    BY <2>3, <2>5 DEF WriterInv
  <2> QED BY <2>6, <2>7
<1> QED BY <1>1, <1>2, <1>3

(* A writer begins a line, an event or an acknowledgement. *)
LEMMA HandsOver ==
  ASSUME TypeOK, WriterInv, NEW w \in Writers, SendEvent(w) \/ (w = Main /\ SendAck)
  PROVE  \E bytes \in Nat \ {0} : /\ Hand(w, bytes)
                                  /\ bytes \in 0..EventBuf \/ (w = Main /\ bytes \in AckSizes)
<1>1. /\ \A text \in Texts : EventSize(text) \in 0..EventBuf /\ EventSize(text) \in Nat \ {0}
      /\ AckSizes \subseteq Nat \ {0}
  <2>1. EventBuf \in Nat
    BY OutAssumption DEF EventBuf
  <2> QED BY <2>1, SizesFit DEF AckSizes
<1>2. CASE SendEvent(w)
  BY <1>1, <1>2 DEF SendEvent
<1>3. CASE w = Main /\ SendAck
  BY <1>1, <1>3 DEF SendAck
<1> QED BY <1>2, <1>3

-------------------------------------------------------------------------------
(* The ring, what has been read of it, and the lines of the channel. *)

(* One writer at most is in the middle of a line, and it holds the mutex. *)
LEMMA OneBusy ==
  ASSUME WriterInv, NEW w \in Writers, wpc[w] = "copy", NEW u \in Writers, Busy(u)
  PROVE  u = w
BY DEF WriterInv, Busy

(* What the invariant of the channel depends on stays: the ring, the channel,
   and the writer in the middle of a line. *)
LEMMA ChannelStays ==
  ASSUME RingSpelt, SeenIsHead, UNCHANGED <<ring, due, seen>>,
         \A w \in Writers : Busy(w)' <=> Busy(w),
         \A w \in Writers : Busy(w) => Line(w)' = Line(w) /\ UNCHANGED <<copied[w], size[w]>>
  PROVE  RingSpelt' /\ SeenIsHead'
<1>1. PICK at \in [1..Len(ring) -> 1..Len(due)] : Spells(at) /\ EndsRight(at)
  BY DEF RingSpelt
<1>2. Spells(at)' /\ at \in [1..Len(ring') -> 1..Len(due')]
  BY <1>1 DEF Spells, At
<1>3. \A w \in Writers : Busy(w) => Part(w)' = Part(w)
  BY DEF Part
<1>4. EndsRight(at)'
  BY <1>1, <1>3 DEF EndsRight
<1>5. RingSpelt'
  BY <1>2, <1>4 DEF RingSpelt
<1>6. Torn' = Torn
  BY DEF Torn
<1>7. SeenIsHead'
  BY <1>3, <1>6 DEF SeenIsHead, IsHead, At
<1> QED BY <1>5, <1>7

LEMMA LineParts ==
  ASSUME NEW line \in Lines
  PROVE  line[1] \in Writers /\ line[2] \in Nat /\ line[2] > 0
BY OutAssumption DEF Lines

LEMMA ChannelTyped ==
  ASSUME TypeOK
  PROVE  /\ \A k \in 1..Len(due) : due[k] \in Lines
         /\ seen # <<>> => seen[1] \in Byte /\ seen[1].line \in Lines
         /\ Len(due) \in Nat /\ Len(seen) \in Nat
BY DEF TypeOK, Byte

LEMMA HandKeepsChannel ==
  ASSUME TypeOK, ChannelInv, NEW w \in Writers, NEW bytes, Hand(w, bytes)
  PROVE  LinesKnown' /\ RingSpelt' /\ SeenIsHead'
<1>1. /\ \A u \in Writers : u # w => wpc'[u] = wpc[u] /\ size'[u] = size[u] /\ count'[u] = count[u]
      /\ wpc'[w] = "lock" /\ count'[w] = count[w] + 1 /\ wpc[w] = "idle"
      /\ UNCHANGED <<copied, ring, seen, due>>
  BY DEF Hand, TypeOK
<1>2. \A u \in Writers : count[u] \in Nat
  BY OutAssumption DEF TypeOK
<1>3. \A line \in Lines : Known(line) => Known(line)' /\ line # Line(w)'
  BY <1>1, <1>2, LineParts DEF Known, Line
<1>4. LinesKnown'
  <2>1. Torn' = Torn
    BY <1>1 DEF Torn
  <2>2. (\A k \in 1..Len(due') : Known(due[k])') /\ (seen # <<>> => Known(seen[1].line)')
    BY <1>1, <1>3, ChannelTyped DEF ChannelInv, LinesKnown
  <2>3. ASSUME Torn, NEW u \in Writers, wpc'[u] # "idle" PROVE seen[1].line # Line(u)'
    <3>1. CASE u = w
      BY <1>3, <2>3, <3>1, ChannelTyped DEF ChannelInv, LinesKnown, Torn
    <3>2. CASE u # w
      BY <1>1, <2>3, <3>2 DEF ChannelInv, LinesKnown, Line
    <3> QED BY <3>1, <3>2
  <2> QED BY <1>1, <2>1, <2>2, <2>3 DEF LinesKnown
<1>5. \A u \in Writers : Busy(u)' <=> Busy(u)
  BY <1>1 DEF Busy
<1>6. \A u \in Writers : Busy(u) => Line(u)' = Line(u) /\ UNCHANGED <<copied[u], size[u]>>
  BY <1>1 DEF Busy, Line
<1>7. RingSpelt' /\ SeenIsHead'
  BY <1>1, <1>5, <1>6, ChannelStays DEF ChannelInv
<1> QED BY <1>4, <1>7

LEMMA UnlockKeepsChannel ==
  ASSUME TypeOK, ChannelInv, NEW w \in Writers, Unlock(w)
  PROVE  LinesKnown' /\ RingSpelt' /\ SeenIsHead'
<1>1. /\ \A u \in Writers : u # w => /\ wpc'[u] = wpc[u] /\ size'[u] = size[u]
                                      /\ copied'[u] = copied[u]
      /\ wpc'[w] = "idle" /\ ~(copied[w] < size[w])
      /\ UNCHANGED <<count, ring, seen, due>>
  <2>1. copied[w] = size[w] /\ copied[w] \in Nat
    BY DEF Unlock, TypeOK
  <2> QED BY <2>1 DEF Unlock, TypeOK
<1>2. LinesKnown'
  BY <1>1 DEF ChannelInv, LinesKnown, Known, Torn, Line
<1>3. \A u \in Writers : Busy(u)' <=> Busy(u)
  BY <1>1 DEF Busy
<1>4. \A u \in Writers : Busy(u) => Line(u)' = Line(u) /\ UNCHANGED <<copied[u], size[u]>>
  BY <1>1 DEF Busy, Line
<1> QED BY <1>1, <1>2, <1>3, <1>4, ChannelStays DEF ChannelInv

(* A line that enters an empty channel is none that is torn. *)
LEMMA LockTears ==
  ASSUME TypeOK, ChannelInv, NEW w \in Writers, Lock(w)
  PROVE  Torn' = Torn
<1> DEFINE n == Len(due)
<1>1. wpc[w] = "lock" /\ due' = Append(due, Line(w)) /\ UNCHANGED seen
  BY DEF Lock
<1>2. /\ n \in Nat /\ Len(due') = n + 1 /\ due'[n + 1] = Line(w) /\ due' # <<>>
      /\ \A k \in 1..n : due'[k] = due[k]
      /\ due = <<>> <=> n = 0
  <2>1. Line(w) \in Lines /\ due \in Seq(Lines)
    BY <1>1, LinesTyped DEF TypeOK, ChannelInv
  <2> QED BY <1>1, <2>1, AppendProperties, EmptySeq
<1>3. CASE due = <<>>
  <2>1. seen # <<>> => seen[1].line # Line(w)
    BY <1>1, <1>3 DEF ChannelInv, LinesKnown, Torn
  <2>2. due'[1] = Line(w)
    BY <1>2, <1>3
  <2> QED BY <1>1, <1>2, <1>3, <2>1, <2>2 DEF Torn
<1>4. CASE due # <<>>
  <2>1. 1 \in 1..n
    BY <1>2, <1>4
  <2> QED BY <1>1, <1>2, <1>4, <2>1 DEF Torn
<1> QED BY <1>3, <1>4

(* The line of the writer that gets the mutex enters the channel. *)
LEMMA LockKeepsChannel ==
  ASSUME TypeOK, ChannelInv, NEW w \in Writers, Lock(w)
  PROVE  LinesKnown' /\ RingSpelt' /\ SeenIsHead'
<1> USE DEF ChannelInv
<1> DEFINE n == Len(due)
<1>1. /\ \A u \in Writers : u # w => wpc'[u] = wpc[u]
      /\ wpc'[w] = "copy" /\ wpc[w] = "lock" /\ holder = {}
      /\ due' = Append(due, Line(w)) /\ UNCHANGED <<count, size, copied, ring, seen>>
  BY DEF Lock, TypeOK
<1>2. /\ n \in Nat /\ Len(due') = n + 1 /\ due'[n + 1] = Line(w) /\ Line(w) \in Lines
      /\ \A k \in 1..n : due'[k] = due[k]
      /\ due' # <<>>
  <2>1. Line(w) \in Lines /\ due \in Seq(Lines)
    BY <1>1, LinesTyped DEF TypeOK
  <2> QED BY <1>1, <2>1, AppendProperties
<1>3. \A u \in Writers : ~Busy(u)
  BY <1>1 DEF WriterInv, Busy
<1>4. copied[w] = 0 /\ size[w] > 0 /\ \A u \in Writers : Busy(u)' <=> u = w
  <2>1. copied[w] = 0 /\ size[w] > 0 /\ size[w] \in Nat
    BY <1>1, LinesTyped DEF WriterInv
  <2>2. \A u \in Writers : u # w => wpc'[u] # "copy"
    BY <1>1 DEF WriterInv
  <2> QED BY <1>1, <2>1, <2>2 DEF Busy
<1>5. Torn' = Torn
  BY LockTears
<1>6. LinesKnown'
  <2>1. Known(Line(w))
    BY OutAssumption DEF Known, Line, TypeOK
  <2>2. \A line : Known(line)' <=> Known(line)
    BY <1>1 DEF Known
  <2>3. \A k \in 1..Len(due') : Known(due'[k])
    BY <1>2, <2>1 DEF LinesKnown
  <2>4. \A u \in Writers : Line(u)' = Line(u)
    BY <1>1 DEF Line
  <2>5. \A u \in Writers : wpc'[u] # "idle" => wpc[u] # "idle"
    BY <1>1
  <2> QED BY <1>1, <1>5, <2>2, <2>3, <2>4, <2>5 DEF LinesKnown
<1>7. PICK at \in [1..Len(ring) -> 1..n] : Spells(at) /\ EndsRight(at)
  BY DEF RingSpelt
<1>8. at \in [1..Len(ring') -> 1..Len(due')]
  BY <1>1, <1>2, <1>7
<1>9. Spells(at)'
  <2>1. \A i \in 1..Len(ring) : at[i] \in 1..n /\ due'[at[i]] = due[at[i]]
    BY <1>2, <1>7
  <2> QED BY <1>1, <1>7, <2>1 DEF Spells, At
<1>10. EndsRight(at)'
  <2>1. (ring = <<>> => n = 0) /\ (ring # <<>> => IsLast(ring[Len(ring)]) /\ at[Len(ring)] = n)
    <3>1. due # <<>> => ring # <<>> /\ IsLast(ring[Len(ring)]) /\ at[Len(ring)] = n
      BY <1>3, <1>7 DEF EndsRight
    <3>2. ring # <<>> => due # <<>>
      BY RingHasLine
    <3>3. due = <<>> => n = 0
      BY EmptySeq
    <3> QED BY <3>1, <3>2, <3>3
  <2>2. \A u \in Writers : Line(u)' = Line(u)
    BY <1>1 DEF Line
  <2>3. ring = <<>> => Len(due') = 1
    BY <1>2, <2>1
  <2>4. ring # <<>> => at[Len(ring)] = Len(due') - 1
    BY <1>2, <2>1
  <2>5. ~(copied[w] > 0)
    BY <1>4
  <2> QED BY <1>1, <1>2, <1>4, <2>1, <2>2, <2>3, <2>4, <2>5 DEF EndsRight, IsLast
<1>11. SeenIsHead'
  <2>1. SUFFICES ASSUME ~Torn
                 PROVE  /\ ring # <<>> => IsHead(seen, ring[1])
                        /\ ring = <<>> => IsHead(seen, At(Part(w), copied[w] + 1))
    <3>1. Part(w)' = Part(w) /\ ring' = ring /\ seen' = seen
      BY <1>1 DEF Part, Line
    <3>2. copied' = copied
      BY <1>1
    <3> QED BY <1>4, <1>5, <3>1, <3>2 DEF SeenIsHead, IsHead, At
  <2>2. ring # <<>> => IsHead(seen, ring[1])
    BY <2>1 DEF SeenIsHead
  <2>3. ASSUME ring = <<>> PROVE IsHead(seen, At(Part(w), copied[w] + 1))
    <3>1. due = <<>>
      BY <1>3, <1>7, <2>3 DEF EndsRight
    <3>2. seen = <<>> /\ Len(seen) = 0
      BY <2>1, <3>1, EmptySeq DEF Torn
    <3> QED BY <1>4, <3>2 DEF IsHead, At
  <2> QED BY <2>2, <2>3
<1> QED BY <1>6, <1>7, <1>8, <1>9, <1>10, <1>11 DEF RingSpelt

(* The next byte of the writer continues what the ring spells. *)
LEMMA CopyKeepsChannel ==
  ASSUME TypeOK, ChannelInv, NEW w \in Writers, Copy(w)
  PROVE  LinesKnown' /\ RingSpelt' /\ SeenIsHead'
<1> USE DEF ChannelInv
<1> DEFINE n == Len(ring)
           d == Len(due)
           b == [line |-> Line(w), place |-> copied[w] + 1, of |-> size[w]]
<1>1. /\ Busy(w) /\ wpc[w] = "copy" /\ copied[w] \in Nat /\ size[w] \in Nat /\ copied[w] < size[w]
      /\ copied' = [copied EXCEPT ![w] = copied[w] + 1] /\ copied'[w] = copied[w] + 1
      /\ UNCHANGED <<wpc, count, size, seen, due>>
      /\ ring' = Append(ring, b)
  <2>1. wpc[w] = "copy" /\ copied[w] < size[w] /\ copied' = [copied EXCEPT ![w] = copied[w] + 1]
        /\ UNCHANGED <<wpc, count, size, seen, due>>
        /\ ring' = Append(ring, [line |-> Line(w), place |-> copied'[w], of |-> size[w]])
    BY DEF Copy
  <2>2. copied[w] \in Nat /\ size[w] \in Nat
    BY <2>1, LinesTyped
  <2>3. copied'[w] = copied[w] + 1
    BY <2>1 DEF TypeOK
  <2> QED BY <2>1, <2>2, <2>3 DEF Busy
<1>2. /\ n \in Nat /\ Len(ring') = n + 1 /\ ring'[n + 1] = b
      /\ \A i \in 1..n : ring'[i] = ring[i]
      /\ 1..(n + 1) = 1..n \cup {n + 1} /\ ring' # <<>> /\ (ring = <<>> <=> n = 0)
  <2>1. b \in Byte /\ ring \in Seq(Byte)
    BY <1>1, LinesTyped DEF Byte, TypeOK
  <2> HIDE DEF b
  <2> QED BY <1>1, <2>1, AppendProperties, EmptySeq
<1>3. \A u \in Writers : Busy(u) => u = w
  BY <1>1, OneBusy
<1>4. \A u \in Writers : Busy(u)' => u = w
  BY <1>1, <1>3 DEF Busy, WriterInv
<1>5. Torn' = Torn /\ \A u \in Writers : Line(u)' = Line(u)
  BY <1>1 DEF Torn, Line
<1>6. LinesKnown'
  BY <1>1, <1>5 DEF LinesKnown, Known
<1>7. PICK at \in [1..n -> 1..d] : Spells(at) /\ EndsRight(at)
  BY DEF RingSpelt
<1>8. /\ due # <<>> /\ d \in Nat /\ d > 0 /\ due[d] = Line(w)
      /\ ring = <<>> => d = 1
      /\ ring # <<>> /\ copied[w] = 0 => IsLast(ring[n]) /\ at[n] = d - 1
      /\ ring # <<>> /\ copied[w] > 0 => ring[n] = Part(w) /\ at[n] = d
  <2>1. d \in Nat /\ (due # <<>> => d > 0)
    BY DEF TypeOK
  <2> QED BY <1>1, <1>7, <2>1 DEF EndsRight
<1>9. PICK at2 \in [1..(n + 1) -> 1..d] :
        at2[n + 1] = d /\ \A i \in 1..n : at2[i] = at[i] /\ at[i] \in 1..d
  <2> DEFINE f == [i \in 1..(n + 1) |-> IF i = n + 1 THEN d ELSE at[i]]
  <2>1. f[n + 1] = d /\ \A i \in 1..n : f[i] = at[i] /\ at[i] \in 1..d
    BY <1>2, <1>7
  <2>2. f \in [1..(n + 1) -> 1..d]
    BY <1>2, <1>8, <2>1
  <2> HIDE DEF f
  <2> QED BY <2>1, <2>2
<1>10. at2 \in [1..Len(ring') -> 1..Len(due')]
  BY <1>1, <1>2, <1>9
<1>11. ASSUME ring # <<>>
       PROVE  IF IsLast(ring[n]) THEN d = at[n] + 1 /\ b.place = 1
              ELSE d = at[n] /\ b = At(ring[n], ring[n].place + 1)
  <2>1. CASE copied[w] = 0
    BY <1>2, <1>8, <1>9, <1>11, <2>1
  <2>2. CASE copied[w] > 0
    <3>1. ring[n] = Part(w) /\ at[n] = d /\ ~IsLast(ring[n])
      BY <1>1, <1>8, <1>11, <2>2 DEF IsLast, Part
    <3> QED BY <3>1 DEF At, Part
  <2> QED BY <1>1, <2>1, <2>2
<1>12. ASSUME NEW i \in 1..n PROVE at[i] <= d /\ (IsLast(ring[i]) => at[i] < d)
  <2>1. n \in 1..n /\ ring # <<>> /\ at[n] \in 1..d /\ at[i] \in 1..d
    BY <1>2, <1>7, <1>12
  <2>2. CASE i = n
    BY <1>11, <2>1, <2>2
  <2>3. CASE i < n
    <3>1. at[i] <= at[n] /\ (IsLast(ring[i]) => at[i] < at[n])
      BY <1>7, <2>1, <2>3 DEF Spells
    <3> QED BY <2>1, <3>1
  <2> QED BY <1>2, <2>2, <2>3
<1>13. Spells(at2)'
  <2>1. \A i \in 1..(n + 1) : ring'[i].line = due[at2[i]]
    BY <1>2, <1>7, <1>8, <1>9 DEF Spells
  <2>2. at2[1] = 1
    <3>1. CASE n = 0
      BY <1>2, <1>8, <1>9, <3>1
    <3>2. CASE n # 0
      BY <1>2, <1>7, <1>9, <3>2 DEF Spells
    <3> QED BY <3>1, <3>2
  <2>3. ASSUME NEW i \in 1..(n + 1), NEW j \in 1..(n + 1), i < j
        PROVE  at2[i] <= at2[j] /\ (IsLast(ring'[i]) => at2[i] < at2[j])
    <3>1. i \in 1..n
      BY <1>2, <2>3
    <3>2. CASE j \in 1..n
      BY <1>2, <1>7, <1>9, <2>3, <3>1, <3>2 DEF Spells
    <3>3. CASE j = n + 1
      BY <1>2, <1>9, <1>12, <3>1, <3>3
    <3> QED BY <1>2, <3>2, <3>3
  <2>4. ASSUME NEW i \in 1..(n + 1), i < n + 1
        PROVE  IF IsLast(ring'[i])
               THEN at2[i + 1] = at2[i] + 1 /\ ring'[i + 1].place = 1
               ELSE at2[i + 1] = at2[i] /\ ring'[i + 1] = At(ring'[i], ring'[i].place + 1)
    <3>1. i \in 1..n
      BY <1>2, <2>4
    <3>2. CASE i < n
      <4>1. i + 1 \in 1..n
        BY <1>2, <3>1, <3>2
      <4> QED BY <1>2, <1>7, <1>9, <3>1, <3>2, <4>1 DEF Spells
    <3>3. CASE i = n
      BY <1>2, <1>9, <1>11, <3>1, <3>3
    <3> QED BY <1>2, <3>1, <3>2, <3>3
  <2> HIDE DEF b
  <2> QED BY <1>1, <1>2, <2>1, <2>2, <2>3, <2>4 DEF Spells, IsLast, At
<1>14. EndsRight(at2)'
  <2>1. ring'[Len(ring')] = b /\ at2[Len(ring')] = d
    BY <1>2, <1>9
  <2>2. CASE copied[w] + 1 < size[w]
    <3>1. Busy(w)'
      BY <1>1, <2>2 DEF Busy
    <3>2. Part(w)' = b /\ copied'[w] > 0
      BY <1>1, <1>5 DEF Part
    <3> QED BY <1>1, <1>2, <1>4, <1>5, <1>8, <2>1, <3>1, <3>2 DEF EndsRight
  <2>3. CASE copied[w] + 1 = size[w]
    <3>1. \A u \in Writers : ~Busy(u)'
      BY <1>1, <1>4, <2>3 DEF Busy
    <3>2. IsLast(b)
      BY <2>3 DEF IsLast
    <3> QED BY <1>1, <1>2, <2>1, <3>1, <3>2 DEF EndsRight, IsLast
  <2> QED BY <1>1, <2>2, <2>3
<1>15. SeenIsHead'
  <2>1. SUFFICES ASSUME ~Torn PROVE IsHead(seen, ring'[1])
    BY <1>1, <1>2, <1>5 DEF SeenIsHead, IsHead, At
  <2>2. CASE n = 0
    <3>1. ring'[1] = b /\ b = At(Part(w), copied[w] + 1)
      BY <1>2, <2>2 DEF At, Part
    <3> QED BY <1>1, <1>2, <2>1, <2>2, <3>1 DEF SeenIsHead
  <2>3. CASE n # 0
    <3>1. 1 \in 1..n
      BY <1>2, <2>3
    <3> QED BY <1>2, <2>1, <2>3, <3>1 DEF SeenIsHead
  <2> QED BY <2>2, <2>3
<1> QED BY <1>6, <1>10, <1>13, <1>14, <1>15 DEF RingSpelt

(* A restart empties the channel; before it, nothing was in it. *)
LEMMA BootKeepsChannel ==
  ASSUME TypeOK, ChannelInv, BootLog \/ ProtocolInit \/ Restart
  PROVE  LinesKnown' /\ RingSpelt' /\ SeenIsHead'
<1> USE DEF ChannelInv
<1>1. CASE ProtocolInit
  <2>1. /\ UNCHANGED <<ring, due, seen>>
        /\ UNCHANGED <<wpc, count, size, copied>>
    BY <1>1 DEF ProtocolInit
  <2>2. \A u \in Writers : (Busy(u)' <=> Busy(u)) /\ Line(u)' = Line(u)
    BY <2>1 DEF Busy, Line
  <2>3. LinesKnown'
    BY <2>1 DEF LinesKnown, Known, Torn, Line
  <2> QED BY <2>1, <2>2, <2>3, ChannelStays
<1>2. CASE BootLog \/ Restart
  <2>1. /\ ring' = <<>> /\ due' = <<>> /\ (seen' = <<>> \/ seen' = seen)
        /\ \A u \in Writers : wpc'[u] = "idle"
        /\ count' = count
    BY <1>2 DEF BootLog, Restart, WriterInv
  <2>2. \A u \in Writers : ~Busy(u)'
    BY <2>1 DEF Busy
  <2>3. Len(<<>>) = 0 /\ 1..0 = {}
    BY EmptySeq
  <2>4. LinesKnown'
    BY <2>1, <2>3 DEF LinesKnown, Known
  <2>5. RingSpelt'
    <3> DEFINE at == [i \in 1..0 |-> 0]
    <3>1. at \in [1..Len(ring') -> 1..Len(due')]
      BY <2>1, <2>3
    <3> HIDE DEF at
    <3>2. Spells(at)' /\ EndsRight(at)'
      BY <2>1, <2>2, <2>3 DEF Spells, EndsRight
    <3> QED BY <3>1, <3>2 DEF RingSpelt
  <2>6. SeenIsHead'
    BY <2>1, <2>2 DEF SeenIsHead
  <2> QED BY <2>4, <2>5, <2>6
<1> QED BY <1>1, <1>2

(* What follows the first byte of the ring: the next of its line, the first of
   the line after it, or, with nothing in the ring, its writer's next byte. *)
LEMMA AfterFirst ==
  ASSUME TypeOK, WriterInv, ring # <<>>,
         NEW at \in [1..Len(ring) -> 1..Len(due)], Spells(at), EndsRight(at)
  PROVE  /\ ring[1] \in Byte /\ ring[1].line = due[1] /\ ring[1].place \in Nat
         /\ Len(ring) > 1 /\ IsLast(ring[1]) => ring[2].place = 1
         /\ Len(ring) > 1 /\ ~IsLast(ring[1]) => ring[2] = At(ring[1], ring[1].place + 1)
         /\ Len(ring) = 1 => \A w \in Writers : Busy(w) =>
              IF IsLast(ring[1]) THEN copied[w] = 0 /\ Len(due) = 2
              ELSE copied[w] > 0 /\ ring[1] = Part(w) /\ Len(due) = 1
         /\ Len(ring) = 1 /\ (\A w \in Writers : ~Busy(w)) => IsLast(ring[1]) /\ Len(due) = 1
<1>1. Len(ring) \in Nat \ {0} /\ 1 \in 1..Len(ring) /\ ring[1] \in Byte /\ at[1] = 1
      /\ Len(due) \in Nat /\ Len(due) > 0 /\ due # <<>>
  <2>1. RingSpelt
    BY DEF RingSpelt
  <2> QED BY <2>1, RingHasLine DEF Spells
<1>2. ring[1].line = due[1] /\ ring[1].place \in Nat
  BY <1>1 DEF Spells, Byte
<1>3. Len(ring) > 1 =>
        IF IsLast(ring[1]) THEN ring[2].place = 1
        ELSE ring[2] = At(ring[1], ring[1].place + 1)
  <2>1. 1 + 1 = 2
    OBVIOUS
  <2> QED BY <1>1, <2>1 DEF Spells
<1>4. ASSUME Len(ring) = 1, NEW w \in Writers, Busy(w)
      PROVE  IF IsLast(ring[1]) THEN copied[w] = 0 /\ Len(due) = 2
             ELSE copied[w] > 0 /\ ring[1] = Part(w) /\ Len(due) = 1
  <2>1. copied[w] \in Nat /\ size[w] \in Nat /\ copied[w] < size[w]
    BY <1>4, LinesTyped DEF Busy
  <2>2. CASE copied[w] = 0
    <3>1. IsLast(ring[1]) /\ at[1] = Len(due) - 1
      <4>1. IsLast(ring[Len(ring)]) /\ at[Len(ring)] = Len(due) - 1
        BY <1>4, <2>2, Zenon DEF EndsRight
      <4> QED BY <1>4, <4>1
    <3>2. Len(due) = 2
      <4>1. 1 = Len(due) - 1 /\ Len(due) \in Nat
        BY <1>1, <3>1
      <4> QED BY <4>1
    <3> QED BY <2>2, <3>1, <3>2
  <2>3. CASE copied[w] > 0
    <3>1. ring[1] = Part(w) /\ Len(due) = 1
      BY <1>1, <1>4, <2>3 DEF EndsRight
    <3>2. ~IsLast(ring[1])
      BY <2>1, <3>1 DEF IsLast, Part
    <3> QED BY <2>3, <3>1, <3>2
  <2> QED BY <2>1, <2>2, <2>3
<1>5. Len(ring) = 1 /\ (\A w \in Writers : ~Busy(w)) => IsLast(ring[1]) /\ Len(due) = 1
  BY <1>1 DEF EndsRight
<1> QED BY <1>1, <1>2, <1>3, <1>4, <1>5

(* The wire takes the first byte of the ring, and with a last byte its line. *)
LEMMA TransmitKeepsRing ==
  ASSUME TypeOK, ChannelInv, Transmit
  PROVE  RingSpelt'
<1> USE DEF ChannelInv
<1> DEFINE n == Len(ring)
           d == Len(due)
           k == IF IsLast(ring[1]) THEN 1 ELSE 0
<1>1. /\ n \in Nat \ {0} /\ ring # <<>> /\ Len(ring') = n - 1
      /\ \A i \in 1..(n - 1) : ring'[i] = ring[i + 1]
      /\ d \in Nat \ {0} /\ due \in Seq(Lines) /\ due # <<>> /\ Head(ring) = ring[1]
  BY RingHasLine DEF Transmit
<1>2. /\ due' = IF k = 1 THEN Tail(due) ELSE due
      /\ k \in {0, 1} /\ (k = 1 <=> IsLast(ring[1]))
      /\ UNCHANGED <<wpc, count, size, copied>>
  BY <1>1 DEF Transmit
<1> HIDE DEF k
<1>3. k \in {0, 1} /\ Len(due') = d - k /\ \A i \in 1..(d - k) : due'[i] = due[i + k]
  <2>1. CASE k = 1
    <3>1. due' = Tail(due)
      BY <1>2, <2>1
    <3>2. Len(Tail(due)) = d - 1 /\ \A i \in 1..(d - 1) : Tail(due)[i] = due[i + 1]
      BY <1>1, HeadTailProperties
    <3> QED BY <2>1, <3>1, <3>2
  <2>2. CASE k = 0
    BY <1>1, <1>2, <2>2
  <2> QED BY <1>2, <2>1, <2>2
<1>4. PICK at \in [1..n -> 1..d] : Spells(at) /\ EndsRight(at)
  BY DEF RingSpelt
<1>5. at[1] = 1 /\ \A i \in 1..n : at[i] \in 1..d
  BY <1>1, <1>4 DEF Spells
<1>6. ASSUME NEW i \in 1..(n - 1) PROVE at[i + 1] - k \in 1..(d - k)
  <2>1. i + 1 \in 1..n /\ 1 < i + 1 /\ 1 \in 1..n
    BY <1>1
  <2>2. at[1] <= at[i + 1] /\ (IsLast(ring[1]) => at[1] < at[i + 1])
    BY <1>4, <2>1 DEF Spells
  <2>3. at[i + 1] \in 1..d /\ (k = 1 => 1 < at[i + 1])
    BY <1>2, <1>5, <2>1, <2>2
  <2> QED BY <1>1, <1>2, <2>3
<1>7. PICK at2 \in [1..(n - 1) -> 1..(d - k)] : \A i \in 1..(n - 1) : at2[i] = at[i + 1] - k
  <2> DEFINE f == [i \in 1..(n - 1) |-> at[i + 1] - k]
  <2>1. f \in [1..(n - 1) -> 1..(d - k)]
    BY <1>6
  <2> QED BY <2>1
<1>8. at2 \in [1..Len(ring') -> 1..Len(due')]
  BY <1>1, <1>3, <1>7
<1>9. Spells(at2)'
  <2>1. ASSUME NEW i \in 1..(n - 1) PROVE ring'[i].line = due'[at2[i]]
    <3>1. at2[i] \in 1..(d - k) /\ at2[i] + k = at[i + 1] /\ i + 1 \in 1..n
      <4>1. i + 1 \in 1..n
        BY <1>1, <2>1
      <4>2. at2[i] \in 1..(d - k) /\ at2[i] = at[i + 1] - k /\ at[i + 1] \in 1..d
        BY <1>5, <1>7, <2>1, <4>1
      <4> QED BY <1>1, <1>2, <4>1, <4>2
    <3>2. due'[at2[i]] = due[at[i + 1]]
      BY <1>3, <3>1
    <3> QED BY <1>1, <1>4, <2>1, <3>1, <3>2 DEF Spells
  <2>2. n - 1 > 0 => at2[1] = 1
    <3>1. ASSUME n > 1
          PROVE  IF IsLast(ring[1]) THEN at[2] = at[1] + 1 ELSE at[2] = at[1]
      <4>1. 1 \in 1..n /\ 1 < n /\ 1 + 1 = 2
        BY <1>1, <3>1
      <4> QED BY <1>4, <4>1 DEF Spells
    <3>2. n > 1 => 1 \in 1..(n - 1) /\ 1 + 1 = 2
      BY <1>1
    <3> QED BY <1>1, <1>2, <1>5, <1>7, <3>1, <3>2
  <2>3. ASSUME NEW i \in 1..(n - 1), NEW j \in 1..(n - 1), i < j
        PROVE  at2[i] <= at2[j] /\ (IsLast(ring'[i]) => at2[i] < at2[j])
    <3>1. i + 1 \in 1..n /\ j + 1 \in 1..n /\ i + 1 < j + 1
      BY <1>1, <2>3
    <3>2. at[i + 1] <= at[j + 1] /\ (IsLast(ring[i + 1]) => at[i + 1] < at[j + 1])
      BY <1>4, <3>1 DEF Spells
    <3> QED BY <1>1, <1>3, <1>5, <1>7, <2>3, <3>1, <3>2
  <2>4. ASSUME NEW i \in 1..(n - 1), i < n - 1
        PROVE  IF IsLast(ring'[i])
               THEN at2[i + 1] = at2[i] + 1 /\ ring'[i + 1].place = 1
               ELSE at2[i + 1] = at2[i] /\ ring'[i + 1] = At(ring'[i], ring'[i].place + 1)
    <3>1. i + 1 \in 1..(n - 1) /\ i + 1 \in 1..n /\ i + 1 < n /\ (i + 1) + 1 \in 1..n
      BY <1>1, <2>4
    <3>2. ring'[i] = ring[i + 1] /\ ring'[i + 1] = ring[(i + 1) + 1]
          /\ at2[i] = at[i + 1] - k /\ at2[i + 1] = at[(i + 1) + 1] - k
      BY <1>1, <1>7, <2>4, <3>1
    <3>3. IF IsLast(ring[i + 1])
          THEN at[(i + 1) + 1] = at[i + 1] + 1 /\ ring[(i + 1) + 1].place = 1
          ELSE at[(i + 1) + 1] = at[i + 1]
               /\ ring[(i + 1) + 1] = At(ring[i + 1], ring[i + 1].place + 1)
      BY <1>4, <3>1 DEF Spells
    <3>4. at[i + 1] \in Nat /\ k \in Nat
      BY <1>3, <1>5, <3>1
    <3> QED BY <3>2, <3>3, <3>4
  <2>5. ring' # <<>> => n - 1 > 0
    BY <1>1, EmptySeq, RingHasLine DEF Transmit
  <2> QED BY <1>1, <2>1, <2>2, <2>3, <2>4, <2>5 DEF Spells, IsLast, At
<1>10. EndsRight(at2)'
  <2>1. \A u \in Writers : Line(u)' = Line(u) /\ Part(u)' = Part(u) /\ (Busy(u)' <=> Busy(u))
                           /\ copied'[u] = copied[u]
    BY <1>2 DEF Line, Part, Busy
  <2>2. (ring' = <<>> <=> n = 1) /\ (due' = <<>> <=> d - k = 0)
    <3>1. ring' \in Seq(Byte) /\ due' \in Seq(Lines)
      BY TransmitTypes DEF TypeOK
    <3>2. (ring' = <<>> <=> Len(ring') = 0) /\ (due' = <<>> <=> Len(due') = 0)
      BY <3>1, EmptySeq
    <3> QED BY <1>1, <1>3, <3>2
  <2>3. n > 1 => ring'[n - 1] = ring[n] /\ at2[n - 1] = at[n] - k /\ at[n] \in 1..d
    <3>1. n > 1 => n - 1 \in 1..(n - 1) /\ (n - 1) + 1 = n /\ n \in 1..n
      BY <1>1
    <3> QED BY <1>1, <1>5, <1>7, <3>1
  <2>4. ASSUME \A w \in Writers : ~Busy(w), due' # <<>>
        PROVE  ring' # <<>> /\ IsLast(ring'[n - 1]) /\ at2[n - 1] = d - k
    <3>1. IsLast(ring[n]) /\ at[n] = d
      BY <1>1, <1>4, <2>4 DEF EndsRight
    <3>2. n # 1
      <4>1. n = 1 => k = 1 /\ d = 1
        BY <1>1, <1>2, <1>5, <3>1
      <4> QED BY <2>2, <2>4, <4>1
    <3> QED BY <1>1, <2>2, <2>3, <3>1, <3>2
  <2>5. ASSUME NEW w \in Writers, Busy(w)
        PROVE  /\ due' # <<>> /\ due'[d - k] = Line(w)
               /\ ring' = <<>> => d - k = 1
               /\ ring' # <<>> /\ copied[w] = 0 =>
                    IsLast(ring'[n - 1]) /\ at2[n - 1] = (d - k) - 1
               /\ ring' # <<>> /\ copied[w] > 0 => ring'[n - 1] = Part(w) /\ at2[n - 1] = d - k
    <3>1. /\ due[d] = Line(w)
          /\ copied[w] = 0 => IsLast(ring[n]) /\ at[n] = d - 1
          /\ copied[w] > 0 => ring[n] = Part(w) /\ at[n] = d
      BY <1>1, <1>4, <2>5 DEF EndsRight
    <3>2. n = 1 => d - k = 1
      <4>1. (n = 1 /\ k = 1 => d = 2) /\ (n = 1 /\ k # 1 => d = 1)
        <5>1. n = 1 => IF IsLast(ring[1]) THEN copied[w] = 0 /\ d = 2
                       ELSE copied[w] > 0 /\ ring[1] = Part(w) /\ d = 1
          BY <1>1, <1>4, <2>5, AfterFirst, Zenon
        <5> QED BY <1>2, <5>1
      <4>2. k \in {0, 1} /\ d \in Nat
        BY <1>1, <1>2
      <4>3. CASE k = 1
        BY <4>1, <4>2, <4>3
      <4>4. CASE k = 0
        BY <4>1, <4>2, <4>4
      <4> QED BY <4>2, <4>3, <4>4
    <3>3. n > 1 => d - k \in 1..(d - k)
      <4>1. n > 1 => at2[n - 1] \in 1..(d - k)
        BY <1>1, <1>7
      <4> QED BY <1>1, <1>3, <4>1
    <3>4. d - k \in 1..(d - k) /\ (d - k) + k = d
      BY <1>1, <1>3, <3>2, <3>3
    <3>5. due'[d - k] = due[d]
      BY <1>3, <3>4
    <3>6. due' # <<>>
      BY <2>2, <3>4
    <3>7. ring' # <<>> => n > 1
      BY <1>1, <2>2
    <3>8. copied[w] \in Nat
      BY <2>5, LinesTyped DEF Busy
    <3> QED BY <1>1, <1>3, <2>2, <2>3, <3>1, <3>2, <3>5, <3>6, <3>7, <3>8
  <2> QED BY <1>1, <1>3, <2>1, <2>4, <2>5 DEF EndsRight, IsLast
<1> QED BY <1>8, <1>9, <1>10 DEF RingSpelt

(* The byte the STM32 receives is its line's next: of the line it has begun, of
   the channel's first, or the first of one it will take for the torn one. *)
LEMMA ByteReceived ==
  ASSUME TypeOK, ChannelInv, Transmit
  PROVE  LET b == ring[1] IN
         /\ ring # <<>> /\ due # <<>> /\ b \in Byte /\ b.line = due[1] /\ ring' = Tail(ring)
         /\ UNCHANGED <<wpc, count, size, copied>>
         /\ Append(seen, b) \in Seq(Byte) /\ Len(Append(seen, b)) = Len(seen) + 1
         /\ \A i \in 1..Len(seen) : Append(seen, b)[i] = seen[i]
         /\ Append(seen, b)[Len(seen) + 1] = b
         /\ Len(seen) \in Nat /\ (seen = <<>> <=> Len(seen) = 0)
         /\ IF IsLast(b)
            THEN seen' = <<>> /\ due' = Tail(due) /\ got' = Append(got, Assembled(Append(seen, b)))
            ELSE seen' = Append(seen, b) /\ due' = due /\ got' = got
         /\ ~Torn => IsHead(seen, b)
<1> DEFINE b == ring[1]
<1>1. /\ ring # <<>> /\ due # <<>> /\ b \in Byte /\ b = Head(ring) /\ ring' = Tail(ring)
  BY RingHasLine DEF Transmit, ChannelInv
<1>2. b.line = due[1]
  BY <1>1, AfterFirst DEF ChannelInv, RingSpelt
<1>3. /\ Append(seen, b) \in Seq(Byte) /\ Len(Append(seen, b)) = Len(seen) + 1
      /\ \A i \in 1..Len(seen) : Append(seen, b)[i] = seen[i]
      /\ Append(seen, b)[Len(seen) + 1] = b
      /\ Len(seen) \in Nat /\ (seen = <<>> <=> Len(seen) = 0)
  <2>1. seen \in Seq(Byte)
    BY DEF TypeOK
  <2> HIDE DEF b
  <2> QED BY <1>1, <2>1, AppendProperties, EmptySeq
<1>4. /\ UNCHANGED <<wpc, count, size, copied>>
      /\ IF IsLast(b)
         THEN seen' = <<>> /\ due' = Tail(due) /\ got' = Append(got, Assembled(Append(seen, b)))
         ELSE seen' = Append(seen, b) /\ due' = due /\ got' = got
  BY <1>1 DEF Transmit
<1>5. ~Torn => IsHead(seen, b)
  BY <1>1 DEF ChannelInv, SeenIsHead
<1> QED BY <1>1, <1>2, <1>3, <1>4, <1>5

(* A line nothing was lost of is assembled; a torn one makes the next Noise. *)
LEMMA LineReceived ==
  ASSUME TypeOK, ChannelInv, Transmit, IsLast(ring[1])
  PROVE  Assembled(Append(seen, ring[1])) = IF Torn THEN Noise ELSE due[1]
<1> DEFINE bytes == Append(seen, ring[1])
           k == Len(seen) + 1
<1>1. /\ ring[1] \in Byte /\ ring[1].line = due[1] /\ ring[1].place = ring[1].of
      /\ Len(bytes) = k /\ k \in Nat /\ k >= 1 /\ bytes[k] = ring[1]
      /\ \A i \in 1..k : i # k => i \in 1..Len(seen) /\ bytes[i] = seen[i]
      /\ (seen # <<>> => 1 \in 1..Len(seen))
      /\ ~Torn => IsHead(seen, ring[1])
  BY ByteReceived DEF IsLast
<1> HIDE DEF bytes, k
<1>2. CASE Torn
  <2>1. bytes[1] = seen[1] /\ seen[1].line # bytes[k].line
    BY <1>1, <1>2, ByteReceived DEF Torn, k, bytes
  <2>2. k \in 1..Len(bytes)
    BY <1>1
  <2> QED BY <1>2, <2>1, <2>2 DEF Assembled, bytes
<1>3. CASE ~Torn
  <2>1. ring[1].place \in Nat /\ Len(seen) = ring[1].place - 1
        /\ \A i \in 1..Len(seen) : seen[i] = At(ring[1], i)
    BY <1>1, <1>3 DEF IsHead, Byte
  <2>2. k = ring[1].place
    BY <2>1 DEF k
  <2>3. At(ring[1], ring[1].place) = ring[1]
    BY <1>1 DEF At, Byte
  <2>4. \A i \in 1..k : bytes[i] = At(ring[1], i)
    BY <1>1, <2>1, <2>2, <2>3
  <2>5. \A i \in 1..k : bytes[i].line = ring[1].line /\ bytes[i].place = i
                        /\ bytes[i].of = ring[1].of
    <3>1. \A i : /\ At(ring[1], i).line = ring[1].line /\ At(ring[1], i).place = i
                 /\ At(ring[1], i).of = ring[1].of
      BY DEF At
    <3> QED BY <2>4, <3>1, Zenon
  <2>6. 1 \in 1..k
    BY <1>1
  <2>7. Assembled(bytes) = ring[1].line
    BY <1>1, <2>2, <2>5, <2>6 DEF Assembled
  <2> QED BY <1>1, <1>3, <2>7 DEF bytes
<1> QED BY <1>2, <1>3

(* Receiving leaves the torn line torn until the end of the next. *)
LEMMA TornUntilLast ==
  ASSUME TypeOK, ChannelInv, Transmit
  PROVE  /\ IsLast(ring[1]) => ~Torn'
         /\ ~IsLast(ring[1]) => Torn' = Torn /\ seen' # <<>>
              /\ IF seen = <<>> THEN seen'[1] = ring[1] ELSE seen'[1] = seen[1]
<1>1. IsLast(ring[1]) => ~Torn'
  BY ByteReceived DEF Torn
<1>2. ASSUME ~IsLast(ring[1])
      PROVE  Torn' = Torn /\ seen' # <<>>
             /\ IF seen = <<>> THEN seen'[1] = ring[1] ELSE seen'[1] = seen[1]
  <2>1. /\ seen' = Append(seen, ring[1]) /\ due' = due /\ due # <<>> /\ ring[1].line = due[1]
        /\ Len(seen') = Len(seen) + 1 /\ Len(seen) \in Nat /\ (seen = <<>> <=> Len(seen) = 0)
        /\ \A i \in 1..Len(seen) : seen'[i] = seen[i]
        /\ seen'[Len(seen) + 1] = ring[1]
    BY <1>2, ByteReceived
  <2>2. seen' # <<>>
    BY <2>1, EmptySeq
  <2>3. CASE seen = <<>>
    BY <2>1, <2>2, <2>3 DEF Torn
  <2>4. CASE seen # <<>>
    <3>1. 1 \in 1..Len(seen)
      BY <2>1, <2>4
    <3>2. seen'[1] = seen[1]
      BY <2>1, <3>1
    <3> QED BY <2>1, <2>2, <2>4, <3>2 DEF Torn
  <2> QED BY <2>3, <2>4
<1> QED BY <1>1, <1>2

LEMMA TransmitKeepsKnown ==
  ASSUME TypeOK, ChannelInv, Transmit
  PROVE  LinesKnown'
<1>1. /\ UNCHANGED <<wpc, count>> /\ due # <<>> /\ ring[1].line = due[1]
      /\ IF IsLast(ring[1]) THEN seen' = <<>> /\ due' = Tail(due) ELSE due' = due
  BY ByteReceived
<1>2. /\ \A line : Known(line)' <=> Known(line)
      /\ \A u \in Writers : Line(u)' = Line(u)
  BY <1>1 DEF Known, Line
<1>3. CASE IsLast(ring[1])
  <2>1. \A k \in 1..Len(due') : Known(due'[k])
    <3>1. due \in Seq(Lines) /\ due # <<>>
      BY <1>1 DEF TypeOK
    <3>2. \A k \in 1..Len(Tail(due)) : k + 1 \in 1..Len(due) /\ Tail(due)[k] = due[k + 1]
      BY <3>1, HeadTailProperties
    <3> QED BY <1>1, <1>3, <3>2 DEF ChannelInv, LinesKnown
  <2> QED BY <1>1, <1>2, <1>3, <2>1, TornUntilLast DEF LinesKnown
<1>4. CASE ~IsLast(ring[1])
  <2>1. Known(due[1])
    <3>1. 1 \in 1..Len(due)
      BY <1>1, EmptySeq DEF TypeOK
    <3> QED BY <3>1 DEF ChannelInv, LinesKnown
  <2>2. Known(seen'[1].line)
    BY <1>1, <1>4, <2>1, TornUntilLast DEF ChannelInv, LinesKnown
  <2>3. Torn' => Torn /\ seen'[1] = seen[1]
    BY <1>4, TornUntilLast DEF Torn
  <2> QED BY <1>1, <1>2, <1>4, <2>2, <2>3 DEF ChannelInv, LinesKnown
<1> QED BY <1>3, <1>4

LEMMA TransmitKeepsSeen ==
  ASSUME TypeOK, ChannelInv, Transmit
  PROVE  SeenIsHead'
<1> DEFINE b == ring[1]
<1>1. /\ ring # <<>> /\ ring' = Tail(ring) /\ b \in Byte
      /\ UNCHANGED <<wpc, count, size, copied>>
      /\ IF IsLast(b) THEN seen' = <<>> ELSE seen' = Append(seen, b)
      /\ Len(Append(seen, b)) = Len(seen) + 1 /\ Append(seen, b)[Len(seen) + 1] = b
      /\ \A i \in 1..Len(seen) : Append(seen, b)[i] = seen[i]
      /\ Len(seen) \in Nat
      /\ ~Torn => IsHead(seen, b)
  BY ByteReceived
<1>2. \A u \in Writers : (Busy(u)' <=> Busy(u)) /\ Part(u)' = Part(u) /\ copied'[u] = copied[u]
  BY <1>1 DEF Busy, Part, Line
<1>3. PICK at \in [1..Len(ring) -> 1..Len(due)] : Spells(at) /\ EndsRight(at)
  BY DEF ChannelInv, RingSpelt
<1>4. /\ Len(ring) > 1 => IF IsLast(b) THEN ring[2].place = 1 ELSE ring[2] = At(b, b.place + 1)
      /\ Len(ring) = 1 => \A u \in Writers : Busy(u) =>
           IF IsLast(b) THEN copied[u] = 0 ELSE b = Part(u)
      /\ b.place \in Nat
  BY <1>1, <1>3, AfterFirst DEF ChannelInv
<1>5. (ring' # <<>> => Len(ring) > 1 /\ ring'[1] = ring[2]) /\ (ring' = <<>> => Len(ring) = 1)
  <2>1. /\ Len(ring) \in Nat \ {0} /\ ring' \in Seq(Byte) /\ Len(ring') = Len(ring) - 1
        /\ \A i \in 1..Len(ring') : ring'[i] = ring[i + 1]
    BY <1>1, RingHasLine DEF ChannelInv
  <2>2. ring' = <<>> <=> Len(ring') = 0
    BY <2>1, EmptySeq
  <2> QED BY <2>1, <2>2
<1>6. \A c, i, j : At(At(c, i), j) = At(c, j) /\ At(c, i).place = i
  BY DEF At
<1>7. SUFFICES ASSUME ~Torn'
               PROVE  /\ Len(ring) > 1 => IsHead(seen', ring[2])
                      /\ Len(ring) = 1 => \A u \in Writers : Busy(u) =>
                           IsHead(seen', At(Part(u), copied[u] + 1))
  BY <1>2, <1>5 DEF SeenIsHead
<1>8. CASE IsLast(b)
  <2>1. seen' = <<>> /\ Len(seen') = 0
    BY <1>1, <1>8, EmptySeq
  <2>2. Len(ring) > 1 => ring[2].place = 1
    BY <1>4, <1>8
  <2>3. Len(ring) = 1 => \A u \in Writers : Busy(u) => At(Part(u), copied[u] + 1).place = 1
    BY <1>4, <1>6, <1>8
  <2> QED BY <2>1, <2>2, <2>3 DEF IsHead
<1>9. CASE ~IsLast(b)
  <2>0. ~Torn
    BY <1>7, <1>9, TornUntilLast
  <2>1. Len(seen) = b.place - 1 /\ \A i \in 1..Len(seen) : seen[i] = At(b, i)
    <3>1. IsHead(seen, b)
      BY <1>1, <2>0
    <3> HIDE DEF b
    <3> QED BY <3>1 DEF IsHead
  <2>2. At(b, b.place) = b
    BY <1>1 DEF At, Byte
  <2>3. Len(seen') = (b.place + 1) - 1 /\ \A i \in 1..Len(seen') : seen'[i] = At(b, i)
    <3> HIDE DEF b
    <3>1. /\ Len(seen') = Len(seen) + 1 /\ seen'[Len(seen) + 1] = b
          /\ \A i \in 1..Len(seen) : seen'[i] = seen[i]
      BY <1>1, <1>9
    <3>2. Len(seen) + 1 = b.place
      BY <1>4, <2>1
    <3>3. \A i \in 1..Len(seen') : i \in 1..Len(seen) \/ i = b.place
      BY <1>1, <3>1, <3>2
    <3>4. \A i \in 1..Len(seen') : seen'[i] = At(b, i)
      BY <2>1, <2>2, <3>1, <3>2, <3>3
    <3> QED BY <1>4, <3>1, <3>2, <3>4
  <2>4. IsHead(seen', At(b, b.place + 1))
    BY <1>6, <2>3 DEF IsHead
  <2>5. Len(ring) = 1 => \A u \in Writers : Busy(u) => b = Part(u) /\ b.place = copied[u]
    BY <1>4, <1>9 DEF Part
  <2>6. Len(ring) > 1 => IsHead(seen', ring[2])
    BY <1>4, <1>9, <2>4
  <2> QED BY <2>4, <2>5, <2>6
<1> QED BY <1>8, <1>9

-------------------------------------------------------------------------------
LEMMA InitChannel == Init => ChannelInv
<1> SUFFICES ASSUME Init PROVE ChannelInv
  OBVIOUS
<1>1. /\ ring = <<>> /\ seen = <<>> /\ due = <<>> /\ \A w \in Writers : wpc[w] = "idle"
      /\ Len(<<>>) = 0 /\ 1..0 = {}
  BY EmptySeq DEF Init
<1>2. WriterInv
  BY InitTypes
<1>3. \A w \in Writers : ~Busy(w)
  BY <1>1 DEF Busy
<1>4. LinesKnown /\ SeenIsHead
  BY <1>1, <1>3 DEF LinesKnown, SeenIsHead, Torn
<1>5. RingSpelt
  <2> DEFINE at == [i \in 1..0 |-> 0]
  <2>1. at \in [1..Len(ring) -> 1..Len(due)]
    BY <1>1
  <2> HIDE DEF at
  <2>2. Spells(at) /\ EndsRight(at)
    BY <1>1, <1>3 DEF Spells, EndsRight
  <2> QED BY <2>1, <2>2 DEF RingSpelt
<1> QED BY <1>2, <1>4, <1>5 DEF ChannelInv

LEMMA StepChannel ==
  ASSUME TypeOK, ChannelInv, [Next]_vars
  PROVE  TypeOK' /\ ChannelInv'
<1> WriterInv /\ RingSpelt
  BY DEF ChannelInv
<1>1. CASE PollNothing \/ UNCHANGED vars
  <2>1. UNCHANGED vars
    BY <1>1 DEF PollNothing
  <2>2. TypeOK' /\ WriterInv'
    BY <2>1 DEF vars, TypeOK, WriterInv
  <2>3. \A w \in Writers : (Busy(w)' <=> Busy(w)) /\ Line(w)' = Line(w)
    BY <2>1 DEF vars, Busy, Line
  <2>4. LinesKnown'
    BY <2>1 DEF vars, ChannelInv, LinesKnown, Known, Torn, Line
  <2>5. RingSpelt' /\ SeenIsHead'
    BY <2>1, <2>3, ChannelStays DEF vars, ChannelInv
  <2> QED BY <2>2, <2>4, <2>5 DEF ChannelInv
<1>2. CASE BootLog \/ ProtocolInit \/ Restart
  BY <1>2, BootTypes, BootKeepsChannel DEF ChannelInv
<1>3. CASE Transmit
  BY <1>3, TransmitTypes, TransmitKeepsRing, TransmitKeepsKnown, TransmitKeepsSeen DEF ChannelInv
<1>4. ASSUME NEW w \in Writers, SendEvent(w) \/ (w = Main /\ SendAck) PROVE TypeOK' /\ ChannelInv'
  BY <1>4, HandsOver, HandTypes, HandKeepsChannel DEF ChannelInv
<1>5. ASSUME NEW w \in Writers, Write(w) PROVE TypeOK' /\ ChannelInv'
  BY <1>5, LockTypes, CopyTypes, UnlockTypes, LockKeepsChannel, CopyKeepsChannel, UnlockKeepsChannel
     DEF Write, ChannelInv
<1> QED
  BY <1>1, <1>2, <1>3, <1>4, <1>5, OutAssumption DEF Next

(* The numbers stay in their ranges: no more bytes are handed to the driver than
   the caller's buffer has, however long the text, and the ring is not overrun. *)
THEOREM TypeCorrect == Spec => []TypeOK
<1>1. Init => TypeOK /\ ChannelInv
  BY InitTypes, InitChannel
<1>2. TypeOK /\ ChannelInv /\ [Next]_vars => TypeOK' /\ ChannelInv'
  BY StepChannel
<1> QED
  BY <1>1, <1>2, PTL DEF Spec

LEMMA ChannelInvHolds == Spec => []ChannelInv
<1>1. Init => TypeOK /\ ChannelInv
  BY InitTypes, InitChannel
<1>2. TypeOK /\ ChannelInv /\ [Next]_vars => TypeOK' /\ ChannelInv'
  BY StepChannel
<1> QED
  BY <1>1, <1>2, PTL DEF Spec

(* Every step of the tasks, the driver and the wire is one of the channel. *)
LEMMA StepIsChannels ==
  ASSUME TypeOK, ChannelInv, TypeOK', ChannelInv', [Next]_vars
  PROVE  [Channel!Next]_Channel!vars
<1> WriterInv /\ RingSpelt
  BY DEF ChannelInv
<1>1. CASE PollNothing \/ UNCHANGED vars
  BY <1>1 DEF PollNothing, vars, Channel!vars, Torn
<1>2. CASE ProtocolInit \/ \E w \in Writers : Copy(w) \/ Unlock(w)
  BY <1>2 DEF ProtocolInit, Copy, Unlock, Channel!vars, Torn
<1>3. CASE (\E w \in Writers : SendEvent(w)) \/ SendAck
  BY <1>3 DEF SendEvent, SendAck, Hand, Channel!vars, Torn
<1>4. CASE BootLog
  <2>1. due = <<>> /\ due' = due /\ ~Torn' /\ got' \in {got, Append(got, Noise)}
    BY <1>4 DEF BootLog, WriterInv, Torn
  <2> QED BY <2>1 DEF Channel!Next, Channel!BootText
<1>5. CASE Restart
  <2>1. due' = <<>> /\ seen' = seen /\ got' = got
    BY <1>5 DEF Restart
  <2>2. Torn' = (seen # <<>>)
    BY <2>1 DEF Torn
  <2>3. Torn' \in {Torn, TRUE}
    BY <2>2 DEF Torn
  <2> QED BY <2>1, <2>3 DEF Channel!Next, Channel!Restart
<1>6. ASSUME NEW w \in Writers, Lock(w) PROVE Channel!Send
  <2>1. Line(w) \in Lines /\ due' = Append(due, Line(w)) /\ UNCHANGED <<got, seen>>
    BY <1>6, LinesTyped DEF Lock
  <2>2. Torn' = Torn
    BY <1>6, LockTears
  <2> QED BY <2>1, <2>2 DEF Channel!Send
<1>7. CASE Transmit
  <2>1. CASE IsLast(ring[1])
    <3>1. due # <<>> /\ due' = Tail(due)
          /\ got' = Append(got, Assembled(Append(seen, ring[1])))
      BY <1>7, <2>1, ByteReceived
    <3>2. Head(due) = due[1]
      BY <3>1, HeadTailProperties DEF TypeOK
    <3>3. Assembled(Append(seen, ring[1])) = IF Torn THEN Noise ELSE due[1]
      BY <1>7, <2>1, LineReceived
    <3>4. Torn' = FALSE
      BY <1>7, <2>1, TornUntilLast DEF Torn
    <3>5. got' = Append(got, IF Torn THEN Noise ELSE Head(due))
      BY <3>1, <3>2, <3>3
    <3> QED BY <3>1, <3>4, <3>5 DEF Channel!Next, Channel!Receive
  <2>2. CASE ~IsLast(ring[1])
    <3>1. due' = due /\ got' = got /\ Torn' = Torn
      BY <1>7, <2>2, ByteReceived, TornUntilLast
    <3> QED BY <3>1 DEF Channel!vars
  <2> QED BY <2>1, <2>2
<1> QED
  BY <1>1, <1>2, <1>3, <1>4, <1>5, <1>6, <1>7 DEF Next, Write, Channel!Next

(* Whichever tasks write at once and whatever the sizes, the UART is the channel
   of lines: each arrives whole, in the order of the mutex, and none is made up,
   but for what a restart tears. *)
THEOREM ImplementsChannel == Spec => ChannelSpec
<1>1. Init => Channel!Init
  BY DEF Init, Channel!Init, Torn
<1> QED
  BY <1>1, StepIsChannels, TypeCorrect, ChannelInvHolds, PTL DEF Spec, ChannelSpec, Channel!Spec

-------------------------------------------------------------------------------
(* Lines do not overtake one another. *)

(* Line a comes before line b if they are of one writer; a line behind which its
   writer has come, as it has begun another or holds the mutex for this one. *)
Before(a, b) == a # Noise /\ b # Noise /\ a[1] = b[1] => a[2] < b[2]
Past(a) ==
  a # Noise => a[2] <= count[a[1]] /\ (wpc[a[1]] = "lock" => a[2] < count[a[1]])

StillPast(a) ==
  a # Noise => a[2] <= count'[a[1]] /\ (wpc'[a[1]] = "lock" => a[2] < count'[a[1]])

Ordered(g, d) ==
  /\ \A i, j \in 1..Len(g) : i < j => Before(g[i], g[j])
  /\ \A i, j \in 1..Len(d) : i < j => Before(d[i], d[j])
  /\ \A i \in 1..Len(g), j \in 1..Len(d) : Before(g[i], d[j])

OrderInv ==
  /\ Ordered(got, due)
  /\ \A i \in 1..Len(got) : Past(got[i])
  /\ \A i \in 1..Len(due) : Past(due[i])

LEMMA PastStays ==
  ASSUME TypeOK, TypeOK', [Next]_vars, NEW a \in Lines \cup {Noise}, Past(a)
  PROVE  StillPast(a)
<1> SUFFICES ASSUME a # Noise
             PROVE  a[2] <= count'[a[1]] /\ (wpc'[a[1]] = "lock" => a[2] < count'[a[1]])
  BY DEF StillPast
<1> DEFINE w == a[1]
<1>1. w \in Writers /\ a[2] \in Int /\ a[2] <= count[w] /\ (wpc[w] = "lock" => a[2] < count[w])
  BY DEF Lines, Past
<1>2. count[w] \in Int /\ count'[w] \in Int
  BY <1>1 DEF TypeOK
<1> HIDE DEF w
<1>3. ASSUME NEW u \in Writers, NEW bytes, Hand(u, bytes)
      PROVE  a[2] <= count'[w] /\ (wpc'[w] = "lock" => a[2] < count'[w])
  <2>1. CASE u = w
    <3>1. count'[w] = count[w] + 1
      BY <1>1, <1>3, <2>1 DEF Hand, TypeOK
    <3> QED BY <1>1, <1>2, <3>1
  <2>2. CASE u # w
    BY <1>1, <1>3, <2>2 DEF Hand, TypeOK
  <2> QED BY <2>1, <2>2
<1>4. CASE (\E u \in Writers : SendEvent(u)) \/ SendAck
  BY <1>3, <1>4, OutAssumption DEF SendEvent, SendAck, w
<1>5. CASE ~((\E u \in Writers : SendEvent(u)) \/ SendAck)
  <2>1. count' = count /\ (wpc'[w] = "lock" => wpc[w] = "lock")
    BY <1>1, <1>5
       DEF Next, BootLog, ProtocolInit, Transmit, Restart, PollNothing, Write, Lock, Copy, Unlock,
           vars, TypeOK
  <2> QED BY <1>1, <2>1 DEF w
<1> QED BY <1>4, <1>5

(* What a step may do to the two sequences. *)
LEMMA StepsOrdered ==
  ASSUME TypeOK, ChannelInv, TypeOK', ChannelInv', [Next]_vars
  PROVE  \/ due' = <<>> /\ got' \in {got, Append(got, Noise)}
         \/ due' = due /\ got' = got
         \/ \E w \in Writers : /\ wpc[w] = "lock" /\ wpc'[w] # "lock" /\ count' = count
                               /\ due' = Append(due, Line(w)) /\ got' = got /\ Line(w) \in Lines
         \/ /\ due # <<>> /\ due' = Tail(due)
            /\ got' \in {Append(got, Noise), Append(got, Head(due))}
<1>1. CASE \E w \in Writers : Lock(w)
  <2>1. PICK w \in Writers : Lock(w)
    BY <1>1
  <2>2. WriterInv /\ wpc[w] = "lock" /\ wpc'[w] = "copy" /\ count' = count
    BY <2>1 DEF Lock, TypeOK, ChannelInv
  <2> QED BY <2>1, <2>2, LinesTyped DEF Lock
<1>2. CASE BootLog
  <2>1. due = <<>> /\ due' = due /\ got' \in {got, Append(got, Noise)}
    BY <1>2 DEF BootLog, ChannelInv, WriterInv
  <2> QED BY <2>1
<1>3. CASE Transmit
  <2>1. CASE IsLast(ring[1])
    <3>1. due # <<>> /\ due' = Tail(due)
          /\ got' = Append(got, Assembled(Append(seen, ring[1])))
      BY <1>3, <2>1, ByteReceived
    <3>2. Head(due) = due[1]
      BY <3>1, HeadTailProperties DEF TypeOK
    <3>3. Assembled(Append(seen, ring[1])) = IF Torn THEN Noise ELSE due[1]
      BY <1>3, <2>1, LineReceived
    <3> QED BY <3>1, <3>2, <3>3
  <2>2. CASE ~IsLast(ring[1])
    BY <1>3, <2>2, ByteReceived
  <2> QED BY <2>1, <2>2
<1>4. CASE Restart
  BY <1>4 DEF Restart
<1>5. CASE ~(BootLog \/ Transmit \/ Restart \/ \E w \in Writers : Lock(w))
  BY <1>5 DEF Next, ProtocolInit, SendAck, SendEvent, Hand, PollNothing, Write, Copy, Unlock, vars
<1> QED BY <1>1, <1>2, <1>3, <1>4, <1>5

(* A line that comes after all others keeps the order. *)
LEMMA AppendParts ==
  ASSUME NEW S, NEW s \in Seq(S), NEW e \in S
  PROVE  \A i \in 1..Len(Append(s, e)) :
           \/ i \in 1..Len(s) /\ Append(s, e)[i] = s[i]
           \/ i = Len(s) + 1 /\ Append(s, e)[i] = e
<1>1. /\ Len(Append(s, e)) = Len(s) + 1 /\ Len(s) \in Nat /\ Append(s, e)[Len(s) + 1] = e
      /\ \A i \in 1..Len(s) : Append(s, e)[i] = s[i]
  BY AppendProperties
<1>2. \A i \in 1..(Len(s) + 1) : i \in 1..Len(s) \/ i = Len(s) + 1
  BY <1>1
<1> QED BY <1>1, <1>2

LEMMA AppendOrdered ==
  ASSUME NEW S, NEW s \in Seq(S), NEW e \in S,
         \A i, j \in 1..Len(s) : i < j => Before(s[i], s[j]),
         \A i \in 1..Len(s) : Before(s[i], e)
  PROVE  \A i, j \in 1..Len(Append(s, e)) :
           i < j => Before(Append(s, e)[i], Append(s, e)[j])
<1> DEFINE t == Append(s, e)
<1>1. \A i \in 1..Len(t) : \/ i \in 1..Len(s) /\ t[i] = s[i]
                           \/ i = Len(s) + 1 /\ t[i] = e
  BY AppendParts, Zenon
<1> HIDE DEF t
<1>2. ASSUME NEW i \in 1..Len(t), NEW j \in 1..Len(t), i < j PROVE Before(t[i], t[j])
  <2>1. i \in 1..Len(s) /\ t[i] = s[i]
    <3>1. i # Len(s) + 1
      BY <1>1, <1>2
    <3> QED BY <1>1, <1>2, <3>1
  <2>2. CASE j \in 1..Len(s) /\ t[j] = s[j]
    BY <1>2, <2>1, <2>2
  <2>3. CASE t[j] = e
    BY <2>1, <2>3
  <2> QED BY <1>1, <2>2, <2>3
<1> QED BY <1>2 DEF t

LEMMA ForgetOrdered ==
  ASSUME NEW S, NEW g, NEW d \in Seq(S), Ordered(g, d)
  PROVE  Ordered(g, <<>>) /\ (d # <<>> => Ordered(g, Tail(d)))
<1>1. Len(<<>>) = 0 /\ 1..0 = {}
  BY EmptySeq
<1>2. Ordered(g, <<>>)
  BY <1>1 DEF Ordered
<1>3. ASSUME d # <<>> PROVE Ordered(g, Tail(d))
  <2>1. /\ Len(d) \in Nat /\ \A i \in 1..Len(Tail(d)) : Tail(d)[i] = d[i + 1] /\ i + 1 \in 1..Len(d)
    BY <1>3, HeadTailProperties
  <2>2. ASSUME NEW i \in 1..Len(Tail(d)), NEW j \in 1..Len(Tail(d)), i < j
        PROVE  Before(Tail(d)[i], Tail(d)[j])
    <3>1. i + 1 < j + 1
      BY <2>2
    <3> QED BY <2>1, <2>2, <3>1 DEF Ordered
  <2>3. \A i \in 1..Len(g), j \in 1..Len(Tail(d)) : Before(g[i], Tail(d)[j])
    BY <2>1 DEF Ordered
  <2> QED BY <2>2, <2>3 DEF Ordered
<1> QED BY <1>2, <1>3

LEMMA NoiseOrdered ==
  ASSUME NEW S, NEW g \in Seq(S), Noise \in S, NEW d, Ordered(g, d)
  PROVE  Ordered(Append(g, Noise), d)
<1>1. \A a : Before(a, Noise) /\ Before(Noise, a)
  BY DEF Before
<1>2. \A i, j \in 1..Len(Append(g, Noise)) :
        i < j => Before(Append(g, Noise)[i], Append(g, Noise)[j])
  BY <1>1, AppendOrdered DEF Ordered
<1>3. ASSUME NEW i \in 1..Len(Append(g, Noise)), NEW j \in 1..Len(d)
      PROVE  Before(Append(g, Noise)[i], d[j])
  <2>1. (i \in 1..Len(g) /\ Append(g, Noise)[i] = g[i]) \/ Append(g, Noise)[i] = Noise
    BY AppendParts
  <2> QED BY <1>1, <1>3, <2>1 DEF Ordered
<1> QED BY <1>2, <1>3 DEF Ordered

(* The channel's first line is received. *)
LEMMA ReceiveOrdered ==
  ASSUME NEW S, NEW g \in Seq(S), NEW d \in Seq(S), d # <<>>, Ordered(g, d)
  PROVE  Ordered(Append(g, Head(d)), Tail(d))
<1> DEFINE e == Head(d)
<1>1. /\ Len(d) \in Nat /\ e = d[1] /\ 1 \in 1..Len(d) /\ e \in S
      /\ \A i \in 1..Len(Tail(d)) : Tail(d)[i] = d[i + 1] /\ i + 1 \in 1..Len(d) /\ 1 < i + 1
  BY HeadTailProperties, EmptySeq
<1>2. Ordered(g, Tail(d))
  BY ForgetOrdered
<1> HIDE DEF e
<1>3. \A i, j \in 1..Len(Append(g, e)) : i < j => Before(Append(g, e)[i], Append(g, e)[j])
  BY <1>1, AppendOrdered DEF Ordered
<1>4. ASSUME NEW i \in 1..Len(Append(g, e)), NEW j \in 1..Len(Tail(d))
      PROVE  Before(Append(g, e)[i], Tail(d)[j])
  <2>1. (i \in 1..Len(g) /\ Append(g, e)[i] = g[i]) \/ Append(g, e)[i] = e
    BY <1>1, AppendParts
  <2>2. Before(e, Tail(d)[j])
    BY <1>1, <1>4 DEF Ordered
  <2> QED BY <1>2, <1>4, <2>1, <2>2 DEF Ordered
<1> QED BY <1>2, <1>3, <1>4 DEF Ordered, e

(* Whose lines are among the old ones, and those added, are past. *)
LEMMA AppendPast ==
  ASSUME NEW S, NEW s \in Seq(S), NEW e \in S, StillPast(e), \A i \in 1..Len(s) : StillPast(s[i])
  PROVE  \A i \in 1..Len(Append(s, e)) : StillPast(Append(s, e)[i])
<1> TAKE i \in 1..Len(Append(s, e))
<1>1. (i \in 1..Len(s) /\ Append(s, e)[i] = s[i]) \/ Append(s, e)[i] = e
  BY AppendParts
<1> QED BY <1>1, Zenon

LEMMA StepOrdered ==
  ASSUME TypeOK, ChannelInv, TypeOK', ChannelInv', [Next]_vars, OrderInv
  PROVE  OrderInv'
<1> DEFINE K == Lines \cup {Noise}
<1>1. /\ got \in Seq(K) /\ due \in Seq(Lines) /\ due \in Seq(K) /\ Noise \in K
      /\ Lines \subseteq K
  BY DEF TypeOK
<1>2. \A a \in K : Past(a) => StillPast(a)
  BY PastStays
<1>3. /\ \A i \in 1..Len(got) : StillPast(got[i])
      /\ \A i \in 1..Len(due) : StillPast(due[i])
  <2>1. /\ \A i \in 1..Len(got) : got[i] \in K
        /\ \A i \in 1..Len(due) : due[i] \in K
    BY <1>1, ElementOfSeq
  <2> QED BY <1>2, <2>1 DEF OrderInv
<1>4. Ordered(got, due) /\ StillPast(Noise) /\ Len(<<>>) = 0 /\ 1..0 = {}
  BY EmptySeq DEF OrderInv, StillPast
<1> HIDE DEF K
<1> SUFFICES /\ Ordered(got', due')
             /\ \A i \in 1..Len(got') : StillPast(got'[i])
             /\ \A i \in 1..Len(due') : StillPast(due'[i])
  BY DEF OrderInv, Ordered, Before, Past, StillPast
<1>5. CASE due' = <<>> /\ got' \in {got, Append(got, Noise)}
  <2>1. Ordered(got, <<>>)
    BY <1>1, <1>4, ForgetOrdered
  <2>2. Ordered(Append(got, Noise), <<>>)
    BY <1>1, <2>1, NoiseOrdered
  <2>3. \A i \in 1..Len(Append(got, Noise)) : StillPast(Append(got, Noise)[i])
    BY <1>1, <1>3, <1>4, AppendPast
  <2>4. CASE got' = got
    BY <1>3, <1>4, <1>5, <2>1, <2>4
  <2>5. CASE got' = Append(got, Noise)
    BY <1>4, <1>5, <2>2, <2>3, <2>5
  <2> QED BY <1>5, <2>4, <2>5
<1>6. CASE due' = due /\ got' = got
  BY <1>3, <1>4, <1>6
<1>7. ASSUME NEW w \in Writers, wpc[w] = "lock", wpc'[w] # "lock", count' = count,
             due' = Append(due, Line(w)), got' = got, Line(w) \in Lines
      PROVE  /\ Ordered(got', due')
             /\ \A i \in 1..Len(got') : StillPast(got'[i])
             /\ \A i \in 1..Len(due') : StillPast(due'[i])
  <2> DEFINE e == Line(w)
  <2>1. e[1] = w /\ e[2] = count[w] /\ e \in K
    BY <1>1, <1>7 DEF Line
  <2>2. ASSUME NEW a, Past(a) PROVE Before(a, e)
    BY <1>7, <2>1, <2>2 DEF Past, Before
  <2>3. StillPast(e)
    <3>1. count[w] \in Int
      BY DEF TypeOK
    <3> QED BY <1>7, <2>1, <3>1 DEF StillPast
  <2> HIDE DEF e
  <2>4. /\ \A i \in 1..Len(got) : Before(got[i], e)
        /\ \A i \in 1..Len(due) : Before(due[i], e)
    BY <2>2 DEF OrderInv
  <2>5. \A i, j \in 1..Len(Append(due, e)) :
          i < j => Before(Append(due, e)[i], Append(due, e)[j])
    BY <1>1, <1>4, <2>1, <2>4, AppendOrdered DEF Ordered
  <2>6. ASSUME NEW i \in 1..Len(got), NEW j \in 1..Len(Append(due, e))
        PROVE  Before(got[i], Append(due, e)[j])
    <3>1. (j \in 1..Len(due) /\ Append(due, e)[j] = due[j]) \/ Append(due, e)[j] = e
      BY <1>1, <2>1, AppendParts
    <3> QED BY <1>4, <2>4, <2>6, <3>1 DEF Ordered
  <2>7. Ordered(got, Append(due, e))
    BY <1>4, <2>5, <2>6 DEF Ordered
  <2>8. \A i \in 1..Len(Append(due, e)) : StillPast(Append(due, e)[i])
    BY <1>1, <1>3, <2>1, <2>3, AppendPast
  <2> QED BY <1>3, <1>7, <2>7, <2>8 DEF e
<1>8. CASE /\ due # <<>> /\ due' = Tail(due)
           /\ got' \in {Append(got, Noise), Append(got, Head(due))}
  <2>1. /\ Head(due) = due[1] /\ Head(due) \in K /\ 1 \in 1..Len(due)
        /\ \A i \in 1..Len(Tail(due)) : Tail(due)[i] = due[i + 1] /\ i + 1 \in 1..Len(due)
    <3>1. /\ Head(due) = due[1] /\ Head(due) \in K /\ Len(due) \in Nat
          /\ Tail(due) \in Seq(K) /\ Len(Tail(due)) = Len(due) - 1
          /\ \A i \in 1..Len(Tail(due)) : Tail(due)[i] = due[i + 1]
      BY <1>1, <1>8, HeadTailProperties
    <3>2. Len(due) # 0
      BY <1>1, <1>8, EmptySeq
    <3> QED BY <3>1, <3>2
  <2>2. Ordered(got, Tail(due)) /\ Ordered(Append(got, Head(due)), Tail(due))
    BY <1>1, <1>4, <1>8, ForgetOrdered, ReceiveOrdered
  <2>3. Ordered(Append(got, Noise), Tail(due))
    BY <1>1, <2>2, NoiseOrdered
  <2>4. \A i \in 1..Len(Tail(due)) : StillPast(Tail(due)[i])
    BY <1>3, <2>1
  <2>5. /\ \A i \in 1..Len(Append(got, Noise)) : StillPast(Append(got, Noise)[i])
        /\ StillPast(Head(due))
    BY <1>1, <1>3, <1>4, <2>1, AppendPast
  <2>6. \A i \in 1..Len(Append(got, Head(due))) : StillPast(Append(got, Head(due))[i])
    BY <1>1, <1>3, <2>1, <2>5, AppendPast
  <2>7. CASE got' = Append(got, Noise)
    BY <1>8, <2>3, <2>4, <2>5, <2>7
  <2>8. CASE got' = Append(got, Head(due))
    BY <1>8, <2>2, <2>4, <2>6, <2>8
  <2> QED BY <1>8, <2>7, <2>8
<1> QED
  BY <1>5, <1>6, <1>7, <1>8, StepsOrdered

(* The STM32 gets no line twice, and those of a task in the order in which it
   sent them, whatever was torn or lost by restarts. *)
THEOREM LinesComeInOrder == Spec => []LinesInOrder
<1>1. Init => OrderInv
  <2> SUFFICES ASSUME Init PROVE OrderInv
    OBVIOUS
  <2>1. got = <<>> /\ due = <<>> /\ Len(<<>>) = 0 /\ 1..0 = {}
    BY EmptySeq DEF Init
  <2> QED BY <2>1 DEF OrderInv, Ordered
<1>2. TypeOK /\ ChannelInv /\ TypeOK' /\ ChannelInv' /\ OrderInv /\ [Next]_vars => OrderInv'
  BY StepOrdered
<1>3. OrderInv => LinesInOrder
  BY DEF OrderInv, Ordered, Before, LinesInOrder
<1> QED
  BY <1>1, <1>2, <1>3, TypeCorrect, ChannelInvHolds, PTL DEF Spec
===============================================================================
