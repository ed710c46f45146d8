---------------------------- MODULE UartLineProofs ----------------------------
(***************************************************************************)
(* Proofs about UartLine for every buffer size and byte alphabet.          *)
(***************************************************************************)
EXTENDS UartLine, SequenceTheorems, WellFoundedInduction, TLAPS

(* Removing the carriage return keeps the rest of the line. *)
LEMMA StrippedTyped ==
  ASSUME NEW S, NEW line \in Seq(S)
  PROVE  Stripped(line) \in Seq(S)
<1>1. CASE line = <<>>
  BY <1>1 DEF Stripped
<1>2. CASE line # <<>>
  <2>1. Front(line) \in Seq(S)
    BY <1>2, SubSeqProperties, EmptySeq DEF Front
  <2> QED
    BY <2>1 DEF Stripped
<1> QED
  BY <1>1, <1>2

(* What a step that takes a byte does to the ring and the history. *)
LEMMA TakeTyped ==
  ASSUME TypeOK, Take
  PROVE  /\ ring' \in Seq(Bytes) /\ taken' \in Seq(Bytes)
         /\ Head(ring) \in Bytes
         /\ UNCHANGED <<sent, dropped>>
<1>1. Head(ring) \in Bytes /\ Tail(ring) \in Seq(Bytes)
  BY HeadTailProperties DEF TypeOK, Take
<1> QED
  BY <1>1, AppendProperties DEF TypeOK, Take

IInv == TypeOK /\ BufferInBounds

LEMMA InitIInv == Init => IInv
<1> SUFFICES ASSUME Init PROVE IInv
  OBVIOUS
<1>1. \A S : <<>> \in Seq(S)
  BY EmptySeq
<1>2. TypeOK
  BY <1>1 DEF Init, TypeOK
<1>3. Len(<<>>) = 0
  BY EmptySeq
<1>4. BufferInBounds
  BY <1>3, UartAssumption DEF Init, BufferInBounds
<1> QED
  BY <1>2, <1>4 DEF IInv

LEMMA StepIInv == IInv /\ [Next]_vars => IInv'
<1> SUFFICES ASSUME IInv, [Next]_vars PROVE IInv'
  OBVIOUS
<1> TypeOK /\ BufferInBounds
  BY DEF IInv
<1>1. ASSUME NEW byte \in Bytes, Arrive(byte) PROVE IInv'
  <2>1. sent' \in Seq(Bytes)
    BY <1>1, AppendProperties DEF Arrive, TypeOK
  <2>2. ring' = Append(ring, byte) \/ ring' = ring
    BY <1>1, Zenon DEF Arrive
  <2>3. ring' \in Seq(Bytes)
    <3>1. ring \in Seq(Bytes) /\ Append(ring, byte) \in Seq(Bytes)
      BY AppendProperties DEF TypeOK
    <3> QED
      BY <2>2, <3>1, Zenon
  <2>4. dropped' = TRUE \/ dropped' = dropped
    BY <1>1, Zenon DEF Arrive
  <2>5. dropped' \in BOOLEAN
    BY <2>4, Zenon DEF TypeOK
  <2>6. UNCHANGED <<rx, cmd, taken, delivered>>
    BY <1>1 DEF Arrive
  <2> QED
    BY <2>1, <2>3, <2>5, <2>6 DEF IInv, TypeOK, BufferInBounds
<1>2. CASE EndLine
  <2>1. Stripped(rx) \in Seq(Bytes \ {LF})
    BY StrippedTyped DEF TypeOK
  <2>2. Append(delivered, Stripped(rx)) \in Seq(Seq(Bytes \ {LF}))
    BY <2>1, AppendProperties DEF TypeOK
  <2>3. <<>> \in Seq(Bytes \ {LF}) /\ Len(<<>>) < MaxLen
    BY EmptySeq, UartAssumption
  <2> QED
    BY <1>2, <2>1, <2>2, <2>3, TakeTyped DEF EndLine, IInv, TypeOK, BufferInBounds
<1>3. CASE Store
  <2>1. Take /\ Head(ring) # LF /\ rx' = Append(rx, Head(ring)) /\ Len(rx) < MaxLen - 1
    BY <1>3 DEF Store
  <2>2. Head(ring) \in Bytes \ {LF}
    BY <2>1, TakeTyped
  <2>3. rx' \in Seq(Bytes \ {LF}) /\ Len(rx') = Len(rx) + 1 /\ Len(rx) \in Nat
    BY <2>1, <2>2, AppendProperties, LenProperties DEF TypeOK
  <2>4. Len(rx') < MaxLen
    BY <2>1, <2>3, UartAssumption
  <2> QED
    BY <1>3, <2>1, <2>3, <2>4, TakeTyped DEF Store, IInv, TypeOK, BufferInBounds
<1>4. CASE Overflow
  <2>1. <<>> \in Seq(Bytes \ {LF}) /\ Len(<<>>) < MaxLen
    BY EmptySeq, UartAssumption
  <2> QED
    BY <1>4, <2>1, TakeTyped DEF Overflow, IInv, TypeOK, BufferInBounds
<1>5. CASE Listen
  <2>1. <<>> \in Seq(Bytes \ {LF})
    BY EmptySeq
  <2> QED
    BY <1>5, <2>1 DEF Listen, IInv, TypeOK, BufferInBounds
<1>6. CASE PollNothing \/ UNCHANGED vars
  BY <1>6 DEF PollNothing, vars, IInv, TypeOK, BufferInBounds
<1> QED
  BY <1>1, <1>2, <1>3, <1>4, <1>5, <1>6 DEF Next, Read

(* rx_buf is never written outside its MaxLen bytes, terminator included, for
   every size of it and every sequence of bytes. *)
THEOREM BufferStaysInBounds == Spec => []BufferInBounds
<1>1. IInv => BufferInBounds
  BY DEF IInv
<1> QED
  BY <1>1, InitIInv, StepIInv, PTL DEF Spec

(* The ring, the buffer and the command stay strings of the right bytes: in
   particular no line feed is ever part of a command. *)
THEOREM TypeCorrect == Spec => []TypeOK
<1>1. IInv => TypeOK
  BY DEF IInv
<1> QED
  BY <1>1, InitIInv, StepIInv, PTL DEF Spec

-------------------------------------------------------------------------------
(* What is left of a count after each full buffer. *)
LEMMA Remainder ==
  ASSUME NEW n \in Nat, NEW q \in Nat, NEW r \in Nat, NEW d \in Nat, r < d, n = d * q + r
  PROVE  n % d = r
OBVIOUS

LEMMA Division ==
  ASSUME NEW n \in Nat, NEW d \in Nat, d >= 1
  PROVE  n \div d \in Nat /\ n % d \in Nat /\ n % d < d /\ n % d <= n
         /\ n = d * (n \div d) + (n % d)
OBVIOUS

(* One more byte: one more is left, or the buffer is full and none is. *)
LEMMA RemainderGrows ==
  ASSUME NEW n \in Nat, NEW d \in Nat, d >= 1
  PROVE  (n + 1) % d = IF (n % d) + 1 < d THEN (n % d) + 1 ELSE 0
<1> DEFINE q == n \div d
           r == n % d
<1>1. q \in Nat /\ r \in Nat /\ r < d /\ n = d * q + r
  BY Division
<1> HIDE DEF q, r
<1>2. CASE r + 1 < d
  <2>1. n + 1 = d * q + (r + 1)
    BY <1>1
  <2>2. (n + 1) % d = r + 1
    BY <1>1, <1>2, <2>1, Remainder
  <2> QED BY <1>2, <2>2 DEF r
<1>3. CASE r + 1 = d
  <2>1. n + 1 = d * (q + 1) + 0
    BY <1>1, <1>3
  <2>2. (n + 1) % d = 0
    BY <1>1, <2>1, Remainder
  <2> QED BY <1>3, <2>2 DEF r
<1> QED BY <1>1, <1>2, <1>3

(* The end of a string that grows, and the beginning. *)
LEMMA SuffixGrows ==
  ASSUME NEW S, NEW s \in Seq(S), NEW e \in S, NEW p \in 0..Len(s)
  PROVE  SubSeq(Append(s, e), p + 1, Len(s) + 1) = Append(SubSeq(s, p + 1, Len(s)), e)
<1> DEFINE l == SubSeq(Append(s, e), p + 1, Len(s) + 1)
           r == Append(SubSeq(s, p + 1, Len(s)), e)
<1>1. SubSeq(s, p + 1, Len(s)) \in Seq(S) /\ Len(SubSeq(s, p + 1, Len(s))) = Len(s) - p
  BY SubSeqProperties
<1>2. r \in Seq(S) /\ Len(r) = Len(s) - p + 1
  BY <1>1, AppendProperties
<1>3. Append(s, e) \in Seq(S) /\ Len(Append(s, e)) = Len(s) + 1
  BY AppendProperties
<1>4. l \in Seq(S) /\ Len(l) = Len(s) - p + 1
  BY <1>3, SubSeqProperties
<1>5. ASSUME NEW i \in 1..Len(l) PROVE l[i] = r[i]
  <2>1. l[i] = Append(s, e)[p + i]
    BY <1>3, <1>4, <1>5
  <2>2. CASE i <= Len(s) - p
    <3>1. r[i] = SubSeq(s, p + 1, Len(s))[i]
      BY <1>1, <1>4, <2>2
    <3>2. SubSeq(s, p + 1, Len(s))[i] = s[p + i]
      BY <1>1, <1>4, <2>2
    <3>3. Append(s, e)[p + i] = s[p + i]
      BY <1>4, <2>2
    <3> QED BY <2>1, <3>1, <3>2, <3>3
  <2>3. CASE i = Len(s) - p + 1
    BY <1>1, <1>3, <2>1, <2>3
  <2> QED BY <1>4, <2>2, <2>3
<1> QED
  <2> HIDE DEF l, r
  <2>1. l = r
    BY <1>2, <1>4, <1>5, SeqEqual
  <2> QED BY <2>1 DEF l, r

LEMMA PrefixStays ==
  ASSUME NEW S, NEW s \in Seq(S), NEW e \in S,
         NEW i \in 1..(Len(s) + 1), NEW p \in 0..(i - 1)
  PROVE  SubSeq(Append(s, e), p + 1, i - 1) = SubSeq(s, p + 1, i - 1)
<1> DEFINE l == SubSeq(Append(s, e), p + 1, i - 1)
           r == SubSeq(s, p + 1, i - 1)
<1>1. Append(s, e) \in Seq(S) /\ Len(Append(s, e)) = Len(s) + 1
  BY AppendProperties
<1>2. l \in Seq(S) /\ r \in Seq(S) /\ Len(l) = i - 1 - p /\ Len(r) = i - 1 - p
  BY <1>1, SubSeqProperties
<1>3. ASSUME NEW k \in 1..Len(l) PROVE l[k] = r[k]
  <2>1. l[k] = Append(s, e)[p + k] /\ r[k] = s[p + k]
    BY <1>1, <1>2, <1>3
  <2> QED BY <1>2, <2>1
<1> QED
  <2> HIDE DEF l, r
  <2>1. l = r
    BY <1>2, <1>3, SeqEqual
  <2> QED BY <2>1 DEF l, r

(* A set of numbers has a least one, and a bounded one a greatest. *)
LEMMA LeastNumber ==
  ASSUME NEW T, T \subseteq Nat, T # {}
  PROVE  \E x \in T : \A y \in T : x <= y
<1>1. PICK x \in T : \A y \in T : <<y, x>> \notin OpToRel(<, Nat)
  BY WFMin, NatLessThanWellFounded, Zenon
<1>2. \A y \in T : y \in Nat /\ x \in Nat /\ ~(y < x)
  BY <1>1 DEF OpToRel
<1>3. \A y \in T : x <= y
  BY <1>2
<1> QED BY <1>3

LEMMA GreatestNumber ==
  ASSUME NEW n \in Nat, NEW T, T \subseteq 0..n, T # {}
  PROVE  Max(T) \in T /\ \A y \in T : Max(T) >= y
<1> DEFINE U == {x \in 0..n : n - x \in T}
<1>1. PICK t \in T : t \in 0..n
  OBVIOUS
<1>2. n - t \in 0..n /\ n - (n - t) = t
  BY <1>1
<1>3. U \subseteq Nat /\ U # {}
  BY <1>1, <1>2
<1>4. PICK u \in U : \A v \in U : u <= v
  BY <1>3, LeastNumber
<1>5. \A y \in T : y \in 0..n /\ n - y \in U
  BY <1>4
<1>6. n - u \in T /\ \A y \in T : n - u >= y
  BY <1>4, <1>5
<1> QED BY <1>6 DEF Max

(* A line that fits is kept as it is; at most MaxLen - 1 bytes of any are. *)
LEMMA KeptFits ==
  ASSUME NEW S, NEW line \in Seq(S)
  PROVE  /\ Kept(line) \in Seq(S) /\ Len(Kept(line)) = Len(line) % MaxLen
         /\ Len(line) < MaxLen => Kept(line) = line
<1> DEFINE n == Len(line)
           r == n % MaxLen
<1>1. n \in Nat /\ r \in Nat /\ r <= n /\ MaxLen \in Nat /\ MaxLen >= 1
  BY Division, UartAssumption
<1>2. Kept(line) = SubSeq(line, n - r + 1, n)
  BY DEF Kept
<1>3. Kept(line) \in Seq(S) /\ Len(Kept(line)) = r
  <2> HIDE DEF r
  <2> QED BY <1>1, <1>2, SubSeqProperties
<1>4. ASSUME n < MaxLen PROVE Kept(line) = line
  <2>1. n = MaxLen * 0 + n
    BY <1>1
  <2>2. r = n
    BY <1>1, <1>4, <2>1, Remainder
  <2>3. Kept(line) = SubSeq(line, 1, n)
    BY <1>1, <1>2, <2>2
  <2> QED
    BY <1>3, <2>2, <2>3, SeqEqual
<1> QED BY <1>3, <1>4

(* One more byte: it is kept, or the buffer is full and nothing is. *)
LEMMA KeptGrows ==
  ASSUME NEW S, NEW line \in Seq(S), NEW e \in S
  PROVE  Kept(Append(line, e)) = IF Len(Kept(line)) < MaxLen - 1
                                 THEN Append(Kept(line), e) ELSE <<>>
<1> DEFINE n == Len(line)
           r == n % MaxLen
<1>1. n \in Nat /\ r \in Nat /\ r <= n /\ r < MaxLen /\ MaxLen \in Nat
  BY Division, UartAssumption
<1>2. Len(Kept(line)) = r /\ Kept(line) = SubSeq(line, n - r + 1, n)
  BY KeptFits DEF Kept
<1>3. Append(line, e) \in Seq(S) /\ Len(Append(line, e)) = n + 1
  BY AppendProperties
<1> DEFINE r2 == (n + 1) % MaxLen
<1>4. r2 = IF r + 1 < MaxLen THEN r + 1 ELSE 0
  <2>1. MaxLen \in Nat /\ MaxLen >= 1
    BY UartAssumption
  <2> QED BY <1>1, <2>1, RemainderGrows, Zenon
<1>5. Kept(Append(line, e)) = SubSeq(Append(line, e), (n + 1) - r2 + 1, n + 1)
  BY <1>3, Zenon DEF Kept
<1> HIDE DEF r, r2
<1>6. CASE r + 1 < MaxLen
  <2> DEFINE p == n - r
  <2>1. (n + 1) - r2 + 1 = p + 1 /\ p \in 0..Len(line) /\ n - r + 1 = p + 1
    BY <1>1, <1>4, <1>6
  <2>2. Kept(Append(line, e)) = SubSeq(Append(line, e), p + 1, n + 1)
    BY <1>5, <2>1, Zenon
  <2>3. Kept(line) = SubSeq(line, p + 1, n)
    BY <1>2, <2>1, Zenon
  <2> HIDE DEF p
  <2>4. SubSeq(Append(line, e), p + 1, n + 1) = Append(SubSeq(line, p + 1, n), e)
    BY <2>1, SuffixGrows, Zenon
  <2>5. Len(Kept(line)) < MaxLen - 1
    BY <1>1, <1>2, <1>6
  <2> QED BY <2>2, <2>3, <2>4, <2>5
<1>7. CASE r + 1 = MaxLen
  <2>1. (n + 1) - r2 + 1 = n + 2
    BY <1>1, <1>4, <1>7
  <2>2. Kept(Append(line, e)) = SubSeq(Append(line, e), n + 2, n + 1)
    BY <1>5, <2>1, Zenon
  <2>3. SubSeq(Append(line, e), n + 2, n + 1) = <<>>
    BY <1>1, <1>3, SubSeqProperties, EmptySeq
  <2>4. ~(Len(Kept(line)) < MaxLen - 1)
    BY <1>1, <1>2, <1>7
  <2> QED BY <2>2, <2>3, <2>4
<1> QED BY <1>1, <1>6, <1>7

(* The last line feed before position i, or 0. *)
LastFeed(s, i) == Max({j \in EndsOfLine(s) : j < i} \cup {0})

LEMMA LastFeedIs ==
  ASSUME NEW S, NEW s \in Seq(S), NEW i \in 1..(Len(s) + 1)
  PROVE  /\ LastFeed(s, i) \in 0..(i - 1)
         /\ LastFeed(s, i) = 0 \/ s[LastFeed(s, i)] = LF
         /\ \A j \in 1..(i - 1) : s[j] = LF => j <= LastFeed(s, i)
<1> DEFINE before == {j \in EndsOfLine(s) : j < i} \cup {0}
<1>1. i - 1 \in Nat /\ before \subseteq 0..(i - 1) /\ before # {}
  BY DEF EndsOfLine
<1>2. Max(before) \in before /\ \A y \in before : Max(before) >= y
  <2> HIDE DEF before
  <2> QED BY <1>1, GreatestNumber
<1>3. LastFeed(s, i) = Max(before)
  BY DEF LastFeed
<1>4. \A j \in 1..(i - 1) : s[j] = LF => j \in before
  BY DEF EndsOfLine
<1>5. \A j \in before : j = 0 \/ s[j] = LF
  BY DEF EndsOfLine
<1> HIDE DEF before
<1> QED
  <2>1. LastFeed(s, i) \in 0..(i - 1)
    BY <1>1, <1>2, <1>3
  <2>2. \A j \in 1..(i - 1) : s[j] = LF => j <= LastFeed(s, i)
    BY <1>1, <1>2, <1>3, <1>4
  <2> QED BY <1>2, <1>3, <1>5, <2>1, <2>2

(* A byte more leaves the lines there were as they are. *)
LEMMA OldLinesStay ==
  ASSUME NEW S, NEW s \in Seq(S), NEW e \in S
  PROVE  /\ EndsOfLine(Append(s, e))
              = EndsOfLine(s) \cup (IF e = LF THEN {Len(s) + 1} ELSE {})
         /\ \A i \in 1..(Len(s) + 1) : LastFeed(Append(s, e), i) = LastFeed(s, i)
         /\ \A i \in 1..(Len(s) + 1) : LineAt(Append(s, e), i) = LineAt(s, i)
<1>1. /\ Append(s, e) \in Seq(S) /\ Len(Append(s, e)) = Len(s) + 1 /\ Len(s) \in Nat
      /\ \A i \in 1..Len(s) : Append(s, e)[i] = s[i]
      /\ Append(s, e)[Len(s) + 1] = e
  BY AppendProperties
<1>2. EndsOfLine(Append(s, e)) = EndsOfLine(s) \cup (IF e = LF THEN {Len(s) + 1} ELSE {})
  BY <1>1 DEF EndsOfLine
<1>3. ASSUME NEW i \in 1..(Len(s) + 1) PROVE LastFeed(Append(s, e), i) = LastFeed(s, i)
  <2>1. {j \in EndsOfLine(Append(s, e)) : j < i} = {j \in EndsOfLine(s) : j < i}
    BY <1>1, <1>2, <1>3
  <2> QED BY <2>1 DEF LastFeed
<1>4. ASSUME NEW i \in 1..(Len(s) + 1) PROVE LineAt(Append(s, e), i) = LineAt(s, i)
  <2>1. LastFeed(Append(s, e), i) = LastFeed(s, i) /\ LastFeed(s, i) \in 0..(i - 1)
    BY <1>1, <1>3, LastFeedIs
  <2>2. LineAt(Append(s, e), i) = SubSeq(Append(s, e), LastFeed(s, i) + 1, i - 1)
    BY <2>1 DEF LineAt, LastFeed
  <2>3. LineAt(s, i) = SubSeq(s, LastFeed(s, i) + 1, i - 1)
    BY DEF LineAt, LastFeed
  <2> QED BY <2>1, <2>2, <2>3, PrefixStays
<1> QED BY <1>2, <1>3, <1>4

(* The line being read: a line feed ends it, any other byte continues it. *)
LineBegun(s) == LineAt(s, Len(s) + 1)

CommandBegun(s) == Stripped(Kept(LineBegun(s)))

LEMMA LineBegunGrows ==
  ASSUME NEW S, NEW s \in Seq(S), NEW e \in S
  PROVE  /\ LineBegun(s) \in Seq(S)
         /\ LineBegun(Append(s, e)) = IF e = LF THEN <<>> ELSE Append(LineBegun(s), e)
<1> DEFINE n == Len(s)
           t == Append(s, e)
           p == LastFeed(s, n + 1)
           p2 == LastFeed(t, n + 2)
<1>1. /\ t \in Seq(S) /\ Len(t) = n + 1 /\ n \in Nat
      /\ \A i \in 1..n : t[i] = s[i]
      /\ t[n + 1] = e
  BY AppendProperties
<1>2. /\ p \in 0..n
      /\ p = 0 \/ s[p] = LF
      /\ \A j \in 1..n : s[j] = LF => j <= p
  <2>1. n + 1 \in 1..(Len(s) + 1) /\ (n + 1) - 1 = n
    BY <1>1
  <2> QED BY <2>1, LastFeedIs
<1>3. /\ p2 \in 0..(n + 1)
      /\ p2 = 0 \/ t[p2] = LF
      /\ \A j \in 1..(n + 1) : t[j] = LF => j <= p2
  <2>1. n + 2 \in 1..(Len(t) + 1) /\ (n + 2) - 1 = n + 1
    BY <1>1
  <2> QED BY <1>1, <2>1, LastFeedIs
<1>4. LineBegun(s) = SubSeq(s, p + 1, n) /\ LineBegun(t) = SubSeq(t, p2 + 1, n + 1)
  BY <1>1 DEF LineBegun, LineAt, LastFeed
<1> HIDE DEF p, p2
<1>5. LineBegun(s) \in Seq(S)
  BY <1>1, <1>2, <1>4, SubSeqProperties
<1>6. CASE e = LF
  <2>1. p2 = n + 1
    BY <1>1, <1>3, <1>6
  <2>2. SubSeq(t, (n + 1) + 1, n + 1) = <<>>
    BY <1>1, SubSeqProperties, EmptySeq
  <2> QED BY <1>4, <1>5, <1>6, <2>1, <2>2
<1>7. CASE e # LF
  <2>1. p2 = p
    BY <1>1, <1>2, <1>3, <1>7
  <2>2. SubSeq(t, p + 1, n + 1) = Append(SubSeq(s, p + 1, n), e)
    BY <1>2, SuffixGrows
  <2> QED BY <1>4, <1>5, <1>7, <2>1, <2>2
<1> QED BY <1>6, <1>7

(* Every command of s but the last byte's is one of the longer string. *)
LEMMA CommandEndsGrow ==
  ASSUME NEW S, NEW s \in Seq(S), NEW e \in S
  PROVE  /\ CommandEnds(s) \subseteq 1..Len(s)
         /\ CommandEnds(Append(s, e))
              = CommandEnds(s) \cup (IF e = LF /\ CommandBegun(s) # <<>> THEN {Len(s) + 1} ELSE {})
         /\ \A i \in CommandEnds(s) : CommandAt(Append(s, e), i) = CommandAt(s, i)
         /\ CommandAt(Append(s, e), Len(s) + 1) = CommandBegun(s)
<1>1. CommandEnds(s) \subseteq 1..Len(s) /\ Len(s) \in Nat
  BY DEF CommandEnds, EndsOfLine
<1>2. \A i \in 1..(Len(s) + 1) : CommandAt(Append(s, e), i) = CommandAt(s, i)
  BY OldLinesStay DEF CommandAt
<1>3. CommandAt(s, Len(s) + 1) = CommandBegun(s)
  BY DEF CommandAt, LineBegun, CommandBegun
<1>4. EndsOfLine(Append(s, e)) = EndsOfLine(s) \cup (IF e = LF THEN {Len(s) + 1} ELSE {})
  BY OldLinesStay
<1>5. EndsOfLine(s) \subseteq 1..Len(s)
  BY DEF EndsOfLine
<1> QED BY <1>1, <1>2, <1>3, <1>4, <1>5 DEF CommandEnds

(* A byte that ends no command adds none; a line feed adds its command. *)
LEMMA CommandsStay ==
  ASSUME NEW S, NEW s \in Seq(S), NEW e \in S, NEW list, AreCommandsOf(list, s),
         e # LF \/ CommandBegun(s) = <<>>
  PROVE  AreCommandsOf(list, Append(s, e))
<1>1. CommandEnds(Append(s, e)) = CommandEnds(s)
  <2>1. CommandEnds(Append(s, e))
          = CommandEnds(s) \cup (IF e = LF /\ CommandBegun(s) # <<>> THEN {Len(s) + 1} ELSE {})
    BY CommandEndsGrow
  <2>2. ~(e = LF /\ CommandBegun(s) # <<>>)
    OBVIOUS
  <2> QED BY <2>1, <2>2
<1>2. \A i \in CommandEnds(s) : CommandAt(Append(s, e), i) = CommandAt(s, i)
  BY CommandEndsGrow
<1>3. PICK at \in [1..Len(list) -> CommandEnds(s)] :
        /\ \A m, n \in 1..Len(list) : m < n => at[m] < at[n]
        /\ \A i \in CommandEnds(s) : \E n \in 1..Len(list) : at[n] = i
        /\ \A n \in 1..Len(list) : list[n] = CommandAt(s, at[n])
  BY DEF AreCommandsOf
<1>4. at \in [1..Len(list) -> CommandEnds(Append(s, e))]
  BY <1>1
<1>5. \A n \in 1..Len(list) : list[n] = CommandAt(Append(s, e), at[n])
  <2>1. \A n \in 1..Len(list) : at[n] \in CommandEnds(s)
    OBVIOUS
  <2> QED BY <1>2, <1>3, <2>1
<1> QED BY <1>1, <1>3, <1>4, <1>5, Zenon DEF AreCommandsOf

LEMMA CommandAdded ==
  ASSUME NEW S, NEW s \in Seq(S), NEW T, NEW list \in Seq(T), AreCommandsOf(list, s),
         LF \in S, CommandBegun(s) \in T, CommandBegun(s) # <<>>
  PROVE  AreCommandsOf(Append(list, CommandBegun(s)), Append(s, LF))
<1> DEFINE c == CommandBegun(s)
           l == Append(list, c)
           t == Append(s, LF)
           k == Len(list)
           end == Len(s) + 1
<1>1. /\ CommandEnds(s) \subseteq 1..Len(s) /\ CommandEnds(t) = CommandEnds(s) \cup {end}
      /\ \A i \in CommandEnds(s) : CommandAt(t, i) = CommandAt(s, i)
      /\ CommandAt(t, end) = c
  BY CommandEndsGrow
<1>2. /\ k \in Nat /\ Len(l) = k + 1 /\ l[k + 1] = c
      /\ \A n \in 1..k : l[n] = list[n]
  BY AppendProperties
<1>3. PICK at \in [1..k -> CommandEnds(s)] :
        /\ \A m, n \in 1..k : m < n => at[m] < at[n]
        /\ \A i \in CommandEnds(s) : \E n \in 1..k : at[n] = i
        /\ \A n \in 1..k : list[n] = CommandAt(s, at[n])
  BY DEF AreCommandsOf
<1> DEFINE at2 == [n \in 1..(k + 1) |-> IF n = k + 1 THEN end ELSE at[n]]
<1>4. Len(s) \in Nat /\ 1..(k + 1) = 1..k \cup {k + 1} /\ k + 1 \notin 1..k
  BY <1>2
<1>5. at2[k + 1] = end /\ \A n \in 1..k : at2[n] = at[n] /\ at[n] \in CommandEnds(s)
  BY <1>3, <1>4
<1>6. at2 \in [1..(k + 1) -> CommandEnds(t)]
  BY <1>1, <1>4, <1>5
<1> HIDE DEF c, l, t, end, at2
<1>7. ASSUME NEW m \in 1..(k + 1), NEW n \in 1..(k + 1), m < n PROVE at2[m] < at2[n]
  <2>1. m \in 1..k
    BY <1>2, <1>7
  <2>2. CASE n \in 1..k
    BY <1>3, <1>5, <1>7, <2>1, <2>2
  <2>3. CASE n = k + 1
    BY <1>1, <1>4, <1>5, <2>1, <2>3 DEF end
  <2> QED BY <1>4, <2>2, <2>3
<1>8. \A i \in CommandEnds(t) : \E n \in 1..(k + 1) : at2[n] = i
  BY <1>1, <1>3, <1>4, <1>5, Zenon
<1>9. \A n \in 1..(k + 1) : l[n] = CommandAt(t, at2[n])
  BY <1>1, <1>2, <1>3, <1>4, <1>5, Zenon
<1>10. AreCommandsOf(l, t)
  BY <1>2, <1>6, <1>7, <1>8, <1>9, Zenon DEF AreCommandsOf
<1> QED BY <1>10 DEF l, t, c

(* rx_buf holds what is kept of the line being read. *)
CommandInv == rx = Kept(LineBegun(taken)) /\ CommandsExact

LEMMA NothingKept == Kept(<<>>) = <<>>
<1>1. <<>> \in Seq(Bytes) /\ Len(<<>>) = 0 /\ 0 < MaxLen
  BY EmptySeq, UartAssumption
<1> QED BY <1>1, KeptFits

LEMMA NothingBegun ==
  ASSUME NEW S, NEW s \in Seq(S), Len(s) = 0
  PROVE  LineBegun(s) = <<>>
<1>1. 1 \in 1..(Len(s) + 1) /\ 1 - 1 = 0 /\ Len(s) + 1 = 1
  OBVIOUS
<1>2. LastFeed(s, 1) \in 0..(1 - 1)
  BY <1>1, LastFeedIs, Zenon
<1>3. LastFeed(s, 1) = 0
  BY <1>2
<1>4. LineBegun(s) = SubSeq(s, LastFeed(s, 1) + 1, 1 - 1)
  BY <1>1, Zenon DEF LineBegun, LineAt, LastFeed
<1> QED BY <1>3, <1>4, SubSeqProperties, EmptySeq

LEMMA InitCommandInv == Init => CommandInv
<1> SUFFICES ASSUME Init PROVE CommandInv
  OBVIOUS
<1>1. taken = <<>> /\ rx = <<>> /\ delivered = <<>> /\ Len(<<>>) = 0 /\ 1..0 = {}
  BY EmptySeq DEF Init
<1>2. <<>> \in Seq(Bytes) /\ 0 + 1 = 1
  BY EmptySeq
<1>3. LineBegun(<<>>) = <<>>
  BY <1>1, <1>2, NothingBegun
<1>4. CommandEnds(<<>>) = {}
  BY <1>1 DEF CommandEnds, EndsOfLine
<1>5. AreCommandsOf(<<>>, <<>>)
  <2> DEFINE at == [n \in {} |-> 0]
  <2>1. at \in [1..Len(<<>>) -> CommandEnds(<<>>)]
    BY <1>1
  <2> HIDE DEF at
  <2> QED BY <1>1, <1>4, <2>1, Zenon DEF AreCommandsOf
<1> QED BY <1>1, <1>3, <1>5, NothingKept DEF CommandInv, CommandsExact

(* Taking a byte. *)
LEMMA ReadCommandInv ==
  ASSUME TypeOK, CommandInv, Read
  PROVE  CommandInv'
<1> DEFINE e == Head(ring)
<1>1. /\ Take /\ taken' = Append(taken, e) /\ e \in Bytes
      /\ taken \in Seq(Bytes) /\ rx = Kept(LineBegun(taken))
      /\ AreCommandsOf(delivered, taken)
  BY TakeTyped DEF Read, EndLine, Store, Overflow, Take, TypeOK, CommandInv, CommandsExact
<1>2. /\ LineBegun(taken) \in Seq(Bytes)
      /\ LineBegun(taken') = IF e = LF THEN <<>> ELSE Append(LineBegun(taken), e)
  BY <1>1, LineBegunGrows
<1>3. CASE EndLine
  <2>1. /\ e = LF /\ rx' = <<>>
        /\ delivered' = IF CommandBegun(taken) = <<>>
                        THEN delivered ELSE Append(delivered, CommandBegun(taken))
    BY <1>1, <1>3 DEF EndLine, CommandBegun
  <2>2. rx' = Kept(LineBegun(taken'))
    BY <1>2, <2>1, NothingKept
  <2>3. CASE CommandBegun(taken) = <<>>
    <3>1. AreCommandsOf(delivered, Append(taken, e))
      BY <1>1, <2>3, CommandsStay
    <3> QED BY <1>1, <2>1, <2>2, <2>3, <3>1 DEF CommandInv, CommandsExact
  <2>4. CASE CommandBegun(taken) # <<>>
    <3>1. delivered \in Seq(Seq(Bytes \ {LF})) /\ CommandBegun(taken) \in Seq(Bytes \ {LF})
      BY <1>1, StrippedTyped DEF TypeOK, CommandBegun
    <3>2. LF \in Bytes
      BY DEF Bytes
    <3>3. AreCommandsOf(Append(delivered, CommandBegun(taken)), Append(taken, LF))
      BY <1>1, <2>4, <3>1, <3>2, CommandAdded
    <3> QED BY <1>1, <2>1, <2>2, <2>4, <3>3 DEF CommandInv, CommandsExact
  <2> QED BY <2>3, <2>4
<1>4. CASE Store \/ Overflow
  <2>1. e # LF /\ delivered' = delivered
    BY <1>4 DEF Store, Overflow
  <2>2. LineBegun(taken') = Append(LineBegun(taken), e)
    BY <1>2, <2>1
  <2>3. Kept(LineBegun(taken')) = IF Len(rx) < MaxLen - 1 THEN Append(rx, e) ELSE <<>>
    <3> DEFINE l == LineBegun(taken)
    <3>1. Kept(Append(l, e)) = IF Len(Kept(l)) < MaxLen - 1 THEN Append(Kept(l), e) ELSE <<>>
      BY <1>1, <1>2, KeptGrows, Zenon
    <3> QED BY <1>1, <2>2, <3>1
  <2>4. rx' = IF Len(rx) < MaxLen - 1 THEN Append(rx, e) ELSE <<>>
    <3>1. Len(rx) \in Nat /\ MaxLen \in Nat
      BY UartAssumption DEF TypeOK
    <3> QED BY <1>4, <3>1 DEF Store, Overflow
  <2>5. AreCommandsOf(delivered, Append(taken, e))
    BY <1>1, <2>1, CommandsStay
  <2> QED BY <1>1, <2>1, <2>3, <2>4, <2>5 DEF CommandInv, CommandsExact
<1> QED BY <1>3, <1>4 DEF Read

(* For every buffer size and whatever the stream: main runs the commands of the
   bytes it has taken, each once, in order, and no others. *)
THEOREM CommandsAreExact == Spec => []CommandsExact
<1>1. TypeOK /\ CommandInv /\ [Next]_vars => CommandInv'
  <2> SUFFICES ASSUME TypeOK, CommandInv, [Next]_vars PROVE CommandInv'
    OBVIOUS
  <2>1. CASE Read
    BY <2>1, ReadCommandInv
  <2>2. CASE (\E byte \in Bytes : Arrive(byte)) \/ Listen \/ PollNothing \/ UNCHANGED vars
    <3>1. UNCHANGED <<rx, taken, delivered>>
      BY <2>2 DEF Arrive, Listen, PollNothing, vars
    <3> QED BY <3>1 DEF CommandInv, CommandsExact
  <2> QED BY <2>1, <2>2 DEF Next
<1>2. CommandInv => CommandsExact
  BY DEF CommandInv
<1> QED
  BY <1>1, <1>2, InitCommandInv, TypeCorrect, PTL DEF Spec

-------------------------------------------------------------------------------
(* The reference determines the list. *)

(* at lists the numbers of T in order. *)
Lists(at, k, T) ==
  /\ at \in [1..k -> T]
  /\ \A i, j \in 1..k : i < j => at[i] < at[j]
  /\ \A x \in T : \E i \in 1..k : at[i] = x

(* One listing is a beginning of any other. *)
LEMMA ListingsAgree ==
  ASSUME NEW T, T \subseteq Nat, NEW k \in Nat, NEW m \in Nat, NEW at, NEW bt,
         Lists(at, k, T), Lists(bt, m, T)
  PROVE  \A n \in 1..k : n \in 1..m /\ at[n] = bt[n]
<1> USE DEF Lists
<1> DEFINE D == {n \in 1..k : ~(n \in 1..m /\ at[n] = bt[n])}
<1>1. SUFFICES ASSUME D # {} PROVE FALSE
  OBVIOUS
<1>2. PICK n \in D : \A j \in D : n <= j
  <2>1. D \subseteq Nat
    OBVIOUS
  <2> HIDE DEF D
  <2> QED BY <1>1, <2>1, LeastNumber
<1>3. n \in 1..k /\ ~(n \in 1..m /\ at[n] = bt[n]) /\ at[n] \in Nat
  BY <1>2
<1>4. ASSUME NEW j \in 1..k, j < n PROVE j \in 1..m /\ at[j] = bt[j]
  <2>1. j \notin D
    BY <1>2, <1>3, <1>4
  <2> QED BY <2>1
<1> HIDE DEF D
<1>5. PICK j \in 1..m : bt[j] = at[n]
  BY <1>3
<1>6. n <= j
  <2>1. ASSUME j < n PROVE FALSE
    <3>1. j \in 1..k
      BY <1>3, <2>1
    <3>2. at[j] = bt[j] /\ at[j] < at[n]
      BY <1>3, <1>4, <2>1, <3>1
    <3> QED BY <1>3, <1>5, <3>2
  <2> QED BY <1>3, <2>1
<1>7. n \in 1..m /\ bt[n] \in T /\ bt[n] <= bt[j] /\ bt[n] \in Nat
  <2>1. n \in 1..m
    BY <1>3, <1>6
  <2>2. bt[n] \in T /\ bt[j] \in T
    BY <1>5, <2>1
  <2>3. n < j => bt[n] < bt[j]
    BY <1>5, <2>1
  <2>4. n = j \/ n < j
    <3>1. n \in Nat /\ j \in Nat
      BY <1>3, <1>5
    <3> QED BY <1>6, <3>1
  <2>5. bt[n] \in Nat /\ bt[j] \in Nat
    BY <2>2
  <2>6. CASE n = j
    BY <2>1, <2>2, <2>5, <2>6
  <2>7. CASE n < j
    BY <2>1, <2>2, <2>3, <2>5, <2>7
  <2> QED BY <2>4, <2>6, <2>7
<1>8. PICK i \in 1..k : at[i] = bt[n]
  BY <1>7
<1>9. n <= i
  <2>1. ASSUME i < n PROVE FALSE
    <3>1. i \in 1..m /\ at[i] = bt[i]
      BY <1>4, <1>8, <2>1
    <3>2. bt[i] < bt[n]
      BY <1>7, <2>1, <3>1
    <3> QED BY <1>7, <1>8, <3>1, <3>2
  <2> QED BY <1>3, <1>8, <2>1
<1>10. at[n] <= at[i]
  <2>1. at[i] \in Nat
    BY <1>7, <1>8
  <2>2. n < i => at[n] < at[i]
    BY <1>3, <1>8
  <2>3. n = i \/ n < i
    BY <1>3, <1>8, <1>9
  <2> QED BY <1>3, <2>1, <2>2, <2>3
<1> QED BY <1>3, <1>5, <1>7, <1>8, <1>10

(* No two lists of commands fit the same bytes: that main runs those of the
   reference leaves it no choice. *)
THEOREM OneListOfCommands ==
  ASSUME NEW S, NEW a \in Seq(S), NEW b \in Seq(S), NEW s \in Seq(Bytes),
         AreCommandsOf(a, s), AreCommandsOf(b, s)
  PROVE  a = b
<1> DEFINE T == CommandEnds(s)
           k == Len(a)
           m == Len(b)
<1>1. PICK at : Lists(at, k, T) /\ \A i \in 1..k : a[i] = CommandAt(s, at[i])
  BY DEF AreCommandsOf, Lists
<1>2. PICK bt : Lists(bt, m, T) /\ \A i \in 1..m : b[i] = CommandAt(s, bt[i])
  BY DEF AreCommandsOf, Lists
<1>3. T \subseteq Nat /\ k \in Nat /\ m \in Nat
  BY DEF CommandEnds, EndsOfLine
<1> HIDE DEF T, k, m
<1>4. Lists(at, k, T) /\ Lists(bt, m, T)
  BY <1>1, <1>2
<1>5. \A n \in 1..k : n \in 1..m /\ at[n] = bt[n]
  BY ONLY <1>3, <1>4, ListingsAgree
<1>6. \A n \in 1..m : n \in 1..k /\ bt[n] = at[n]
  BY ONLY <1>3, <1>4, ListingsAgree
<1>7. k = m
  BY <1>3, <1>5, <1>6
<1>8. \A n \in 1..k : a[n] = b[n]
  BY <1>1, <1>2, <1>5
<1> QED BY <1>7, <1>8, SeqEqual DEF k, m
===============================================================================
