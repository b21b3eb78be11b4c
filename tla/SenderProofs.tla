------------------------------ MODULE SenderProofs -----------------------------
(***************************************************************************)
(* SentWithinWindow for every capacity, payload size, timeout, window and  *)
(* ISN, with acknowledgments that are lost, repeated and reordered.        *)
(***************************************************************************)
EXTENDS SenderSystem, WrappingProofs, SequenceTheorems

Fields == {"isn", "segments_out", "initial_RTO", "stream", "next_seqno", "outstandings",
           "in_flights", "timePassed", "RTO", "recount", "window", "window_right",
           "fin_sent", "probing"}

\* The outbound stream: a bounded queue with exact counters.
StreamOK(b) ==
  /\ b \in BS!Streams(Nat)
  /\ b.capacity = Capacity
  /\ b.total_read \in Nat
  /\ b.written = b.total_read + Len(b.buffer)
  /\ b.written <= MaxBytes
  /\ Len(b.buffer) <= Capacity

\* next_seqno counts the SYN, the bytes read from the stream and the FIN, which is
\* sent once and after the last byte.
Numbered(s) ==
  IF s.next_seqno = 0 THEN s.stream.total_read = 0
  ELSE \/ s.next_seqno = s.stream.total_read + 1
       \/ /\ s.next_seqno = s.stream.total_read + 2
          /\ s.stream.end /\ s.stream.buffer = << >>

\* The sender keeps to the window it believes in, but for the byte of a probe.
Obeys(s) == s.next_seqno <= s.window_right + 1 + One(s.probing)

SenderOK(s) ==
  /\ DOMAIN s = Fields
  /\ s.isn = ISN
  /\ StreamOK(s.stream)
  /\ s.next_seqno \in Nat /\ s.window_right \in Nat /\ s.window \in Nat
  /\ s.probing \in BOOLEAN
  /\ s.next_seqno = 0 => s.window # 0
  /\ Numbered(s)
  /\ Obeys(s)

\* The smaller of two numbers.
LEMMA MinOfTwo ==
  ASSUME NEW a \in Int, NEW b \in Int
  PROVE  /\ Min({a, b}) \in {a, b}
         /\ Min({a, b}) <= a /\ Min({a, b}) <= b
<1>1. \E x \in {a, b} : \A y \in {a, b} : x <= y
  BY a <= b \/ b <= a
<1> QED
  BY <1>1 DEF Min

\* The larger of two numbers.
LEMMA MaxOfTwo ==
  ASSUME NEW a \in Int, NEW b \in Int
  PROVE  /\ Max({a, b}) \in {a, b}
         /\ Max({a, b}) >= a /\ Max({a, b}) >= b
<1>1. \E x \in {a, b} : \A y \in {a, b} : x >= y
  BY a <= b \/ b <= a
<1> QED
  BY <1>1 DEF Max

\* The counters of the stream report what they count.
LEMMA Counters ==
  ASSUME NEW b, StreamOK(b)
  PROVE  /\ BS!bytes_written(b) = b.written /\ BS!bytes_read(b) = b.total_read
         /\ b.written \in Nat /\ b.buffer \in Seq(Nat) /\ Len(b.buffer) \in Nat
         /\ b.end \in BOOLEAN
         /\ BS!buffer_size(b) = Len(b.buffer)
         /\ BS!buffer_empty(b) <=> Len(b.buffer) = 0
         /\ BS!eof(b) <=> b.end /\ Len(b.buffer) = 0
<1>1. /\ b.buffer \in Seq(Nat) /\ Len(b.buffer) \in Nat /\ b.end \in BOOLEAN
      /\ b.total_read \in Nat /\ b.written = b.total_read + Len(b.buffer) /\ b.written <= MaxBytes
  BY LenProperties DEF StreamOK, BS!Streams
<1>2. /\ MaxBytes \in Nat /\ MaxBytes < Half32 /\ Half32 \in Nat
      /\ Pow32 \in Nat \ {0} /\ Pow32 % 2 = 0
  BY SenderAssumption, TwoHalves
<1>3. /\ b.written \in Nat /\ b.written < Half32
      /\ b.total_read < Half32
  BY <1>1, <1>2
<1>4. Size(b.written) = b.written /\ Size(b.total_read) = b.total_read
  BY <1>1, <1>2, <1>3, SmallConversions
<1>5. BS!bytes_written(b) = b.written /\ BS!bytes_read(b) = b.total_read
  BY <1>4 DEF BS!bytes_written, BS!bytes_read, BS!Size, Size
<1> QED
  BY <1>1, <1>3, <1>5
  DEF BS!buffer_size, BS!buffer_empty, BS!eof, BS!input_ended

\* Storing a count of at most MaxBytes in an int keeps it.
LEMMA SmallCount ==
  ASSUME NEW x \in Nat, x <= MaxBytes
  PROVE  BS!Int32(x) = x
<1>1. /\ MaxBytes \in Nat /\ MaxBytes < Half32 /\ Half32 \in Nat
      /\ Pow32 \in Nat \ {0} /\ Pow32 % 2 = 0
  BY SenderAssumption, TwoHalves
<1>2. Int32(x) = x
  BY <1>1, SmallConversions
<1> QED
  BY <1>2 DEF BS!Int32, Int32, BS!Half32, Half32

\* write keeps the stream in order, and reads nothing.
LEMMA StreamWrite ==
  ASSUME NEW b, StreamOK(b), NEW data \in Seq(Nat), b.written + Len(data) <= MaxBytes
  PROVE  /\ StreamOK(BS!write(b, data))
         /\ BS!write(b, data).total_read = b.total_read
<1> DEFINE n == BS!accepted(b, data)
           add == SubSeq(data, 1, n)
           w == b.written + n
           c == BS!write(b, data)
<1>1. /\ b.written \in Nat /\ b.buffer \in Seq(Nat) /\ Len(b.buffer) \in Nat
      /\ b.total_read \in Nat /\ Len(data) \in Nat /\ Capacity \in Nat /\ MaxBytes \in Nat
      /\ b.capacity = Capacity /\ Len(b.buffer) <= Capacity
      /\ b.written = b.total_read + Len(b.buffer) /\ b \in BS!Streams(Nat)
  BY Counters, LenProperties, SenderAssumption DEF StreamOK
<1>2. n \in 0 .. Len(data) /\ n <= Capacity - Len(b.buffer)
  <2> DEFINE room == Capacity - Len(b.buffer)
  <2>1. BS!remaining_capacity(b) = room
    BY <1>1 DEF BS!remaining_capacity, BS!buffer_size
  <2>2. room \in Nat /\ Len(data) \in Nat
    BY <1>1
  <2>3. n = IF Len(data) <= room THEN Len(data) ELSE room
    BY <2>1, Zenon DEF BS!accepted
  <2> HIDE DEF room, n
  <2>4. n \in 0 .. Len(data) /\ n <= room
    BY <2>2, <2>3
  <2> QED
    BY <2>4 DEF room
<1> HIDE DEF n
<1>3. add \in Seq(Nat) /\ Len(add) = n
  <2>1. \A i \in 1 .. Len(data) : data[i] \in Nat
    BY ElementOfSeq
  <2>2. \A i \in 1 .. n : data[i] \in Nat
    BY <1>1, <1>2, <2>1
  <2> QED
    BY <1>2, <2>2, SubSeqProperties
<1>4. w \in Nat /\ w <= MaxBytes
  BY <1>1, <1>2
<1>5. BS!Int32(w) = w
  BY <1>4, SmallCount
<1> HIDE DEF add
<1>6. b.buffer \o add \in Seq(Nat) /\ Len(b.buffer \o add) = Len(b.buffer) + n
  BY <1>1, <1>3, ConcatProperties
<1>7. c = [b EXCEPT !.buffer = b.buffer \o add, !.written = w]
  BY <1>5 DEF BS!write, n, add
<1> DEFINE nb == b.buffer \o add
<1> HIDE DEF nb, w, c
<1>8. c \in BS!Streams(Nat)
  <2>1. nb \in Seq(Nat) /\ w \in Int
    BY <1>4, <1>6 DEF nb
  <2>2. [b EXCEPT !.buffer = nb, !.written = w] \in BS!Streams(Nat)
    BY <1>1, <2>1, Zenon DEF BS!Streams
  <2> QED
    BY <1>7, <2>2 DEF nb
<1>9. /\ c.buffer = nb /\ c.written = w /\ c.total_read = b.total_read
      /\ c.capacity = b.capacity
  BY <1>1, <1>7 DEF BS!Streams, nb
<1>10. /\ w = b.total_read + Len(nb) /\ Len(nb) <= Capacity
  <2> DEFINE l == Len(b.buffer)
  <2>1. /\ Len(nb) = l + n /\ w = b.written + n /\ b.written = b.total_read + l
        /\ l \in Nat /\ n \in Nat /\ b.total_read \in Nat /\ Capacity \in Nat /\ n <= Capacity - l
    BY <1>1, <1>2, <1>6 DEF nb, w
  <2> HIDE DEF l
  <2> QED
    BY ONLY <2>1
<1> QED
  BY <1>1, <1>4, <1>8, <1>9, <1>10 DEF StreamOK, c

\* Reading n buffered bytes keeps the stream in order and counts them.
LEMMA StreamReadBytes ==
  ASSUME NEW b, StreamOK(b), NEW n \in 0 .. Len(b.buffer)
  PROVE  LET c == BS!read(b, n)
         IN  /\ StreamOK(c)
             /\ c.total_read = b.total_read + n
             /\ c.end = b.end
             /\ Len(c.buffer) = Len(b.buffer) - n
<1> DEFINE rest == SubSeq(b.buffer, n + 1, Len(b.buffer))
           t == b.total_read + n
           c == BS!read(b, n)
<1>1. /\ b.written \in Nat /\ b.buffer \in Seq(Nat) /\ Len(b.buffer) \in Nat
      /\ b.total_read \in Nat /\ Capacity \in Nat /\ MaxBytes \in Nat
      /\ b.capacity = Capacity /\ Len(b.buffer) <= Capacity /\ b.written <= MaxBytes
      /\ b.written = b.total_read + Len(b.buffer) /\ b \in BS!Streams(Nat)
  BY Counters, SenderAssumption DEF StreamOK
<1>2. rest \in Seq(Nat) /\ Len(rest) = Len(b.buffer) - n
  <2>1. \A i \in n + 1 .. Len(b.buffer) : b.buffer[i] \in Nat
    <3>1. \A i \in n + 1 .. Len(b.buffer) : i \in 1 .. Len(b.buffer)
      BY <1>1
    <3> QED
      BY <1>1, <3>1, ElementOfSeq, Zenon
  <2> QED
    BY <1>1, <2>1, SubSeqProperties
<1>3. t \in Nat /\ t <= MaxBytes
  BY <1>1
<1>4. BS!Int32(t) = t
  BY <1>3, SmallCount
<1>5. c = [b EXCEPT !.buffer = rest, !.total_read = t]
  <2>1. ~(n > BS!buffer_size(b))
    BY <1>1 DEF BS!buffer_size
  <2> QED
    BY <1>4, <2>1 DEF BS!read, BS!pop_output
<1> HIDE DEF rest, t, c
<1>6. c \in BS!Streams(Nat)
  <2>1. b \in BS!Streams(Nat) /\ rest \in Seq(Nat) /\ t \in Int
    BY <1>1, <1>2, <1>3
  <2>2. [b EXCEPT !.buffer = rest, !.total_read = t] \in BS!Streams(Nat)
    BY <2>1, Zenon DEF BS!Streams
  <2> QED
    BY <1>5, <2>2
<1>7. /\ c.buffer = rest /\ c.total_read = t /\ c.written = b.written
      /\ c.capacity = b.capacity /\ c.end = b.end
  BY <1>1, <1>5 DEF BS!Streams
<1>8. b.written = t + Len(rest) /\ Len(rest) <= Capacity
  <2> DEFINE l == Len(b.buffer)
  <2>1. /\ Len(rest) = l - n /\ t = b.total_read + n /\ b.written = b.total_read + l
        /\ l \in Nat /\ n \in 0 .. l /\ b.total_read \in Nat /\ Capacity \in Nat /\ l <= Capacity
    BY <1>1, <1>2 DEF t
  <2> HIDE DEF l
  <2> QED
    BY ONLY <2>1
<1>9. StreamOK(c)
  BY <1>1, <1>3, <1>6, <1>7, <1>8 DEF StreamOK
<1> QED
  BY <1>2, <1>7, <1>9 DEF c, t

--------------------------------------------------------------------------------

\* The members that matter here are the same in both.
Same(s, t) ==
  /\ DOMAIN t = DOMAIN s
  /\ t.isn = s.isn /\ t.stream = s.stream /\ t.next_seqno = s.next_seqno
  /\ t.window = s.window /\ t.window_right = s.window_right /\ t.probing = s.probing

\* The other members do not matter.
LEMMA SameOK ==
  ASSUME NEW s, NEW t, SenderOK(s), Same(s, t)
  PROVE  SenderOK(t)
  BY Zenon DEF SenderOK, Same, Numbered, Obeys

\* The members of the timer are such members.
LEMMA TimerSame ==
  ASSUME NEW s, DOMAIN s = Fields, NEW k
  PROVE  Same(s, Timer(s, k))
  BY DEF Same, Timer, Fields

\* tick changes only the timer's members and the queue of segments to send.
LEMMA TickSame ==
  ASSUME NEW s, DOMAIN s = Fields, NEW ms
  PROVE  Same(s, tick(s, ms))
  BY DEF Same, tick, Expire, Fields

\* A segment without sequence numbers only joins that queue.
LEMMA EmptySegmentSame ==
  ASSUME NEW s, DOMAIN s = Fields
  PROVE  Same(s, send_empty_segment(s)) /\ Same(s, send_empty_segment_RST(s))
  BY DEF Same, send_empty_segment, send_empty_segment_RST, Fields

\* What fill_window's loop sends fits into the window.
LEMMA PayloadFits ==
  ASSUME NEW s, SenderOK(s), s.next_seqno <= s.window_right
  PROVE  /\ Payload(s) \in 0 .. Len(s.stream.buffer)
         /\ s.next_seqno + One(s.next_seqno = 0) + Payload(s) <= s.window_right + 1
<1> DEFINE b == Len(s.stream.buffer)
           room == s.window_right - s.next_seqno - One(s.next_seqno = 0) + 1
<1>1. BS!buffer_size(s.stream) = b /\ b \in Nat
  BY Counters DEF SenderOK
<1>2. room \in Nat /\ s.next_seqno + One(s.next_seqno = 0) + room = s.window_right + 1
  BY DEF SenderOK, One
<1>3. Payload(s) = Min({b, room})
  BY <1>1 DEF Payload
<1> HIDE DEF b
<1>4. Min({b, room}) \in {b, room} /\ Min({b, room}) <= b /\ Min({b, room}) <= room
  <2> HIDE DEF room
  <2>1. b \in Int /\ room \in Int
    BY <1>1, <1>2
  <2> QED
    BY <2>1, MinOfTwo
<1>5. One(s.next_seqno = 0) \in Nat /\ s.next_seqno \in Nat /\ s.window_right \in Nat
  BY DEF SenderOK, One
<1> HIDE DEF room
<1> QED
  BY <1>1, <1>2, <1>3, <1>4, <1>5 DEF b

\* What a step of the sender may do to next_seqno and the window's edge.
Advances(s, t) == t.next_seqno >= s.next_seqno /\ t.window_right = s.window_right

\* The loop of fill_window keeps the sender in order.
LEMMA FillLoopOK ==
  ASSUME NEW s, SenderOK(s)
  PROVE  SenderOK(FillLoop(s)) /\ Advances(s, FillLoop(s))
<1> DEFINE segs == [i \in 1 .. SegmentCount(s) |-> NewSegment(s, i)]
           p == Payload(s)
           f == FinFits(s)
           size == One(s.next_seqno = 0) + p + One(f)
           sent == [s EXCEPT !.stream = BS!read(@, p), !.fin_sent = @ \/ f]
           t == Launch(sent, segs, size)
<1>1. CASE s.next_seqno > s.window_right \/ SegmentCount(s) = 0
  <2>1. FillLoop(s) = s
    BY <1>1 DEF FillLoop
  <2> QED
    BY <2>1 DEF Advances, SenderOK
<1>2. CASE ~(s.next_seqno > s.window_right \/ SegmentCount(s) = 0)
  <2>1. FillLoop(s) = t
    BY <1>2 DEF FillLoop
  <2>2. /\ DOMAIN s = Fields /\ s.next_seqno \in Nat /\ s.window_right \in Nat
        /\ s.next_seqno <= s.window_right /\ StreamOK(s.stream) /\ f \in BOOLEAN
    BY <1>2 DEF SenderOK, FinFits
  <2>3. /\ p \in 0 .. Len(s.stream.buffer)
        /\ s.next_seqno + One(s.next_seqno = 0) + p <= s.window_right + 1
    BY <2>2, PayloadFits
  <2>4. f => /\ s.stream.end /\ p = Len(s.stream.buffer)
             /\ s.next_seqno + One(s.next_seqno = 0) + p <= s.window_right
    BY <2>2, Counters DEF FinFits, BS!input_ended
  <2>5. p > 0 \/ s.next_seqno = 0 \/ ReadyToFin(s)
    BY <1>2, <2>2, <2>3, Counters DEF SegmentCount, One
  <2> DEFINE c == BS!read(s.stream, p)
  <2>6. /\ StreamOK(c) /\ c.total_read = s.stream.total_read + p /\ c.end = s.stream.end
        /\ Len(c.buffer) = Len(s.stream.buffer) - p
    BY <2>2, <2>3, StreamReadBytes
  <2> HIDE DEF segs, p, f, size
  <2>7. /\ DOMAIN t = Fields /\ t.isn = s.isn /\ t.stream = c
        /\ t.next_seqno = s.next_seqno + size
        /\ t.window = s.window /\ t.window_right = s.window_right /\ t.probing = s.probing
    BY <2>2 DEF Launch, Fields
  <2> HIDE DEF t, c
  <2>8. One(s.next_seqno = 0) \in {0, 1} /\ One(f) \in {0, 1} /\ size \in Nat
    BY <2>3 DEF One, size
  <2>9. s.next_seqno + size <= s.window_right + 1
    BY <2>2, <2>3, <2>4, <2>8 DEF size, One
  <2>10. Obeys(t)
    BY <2>2, <2>7, <2>8, <2>9 DEF Obeys, One
  <2>11. /\ s.stream.buffer \in Seq(Nat) /\ Len(s.stream.buffer) \in Nat
         /\ s.stream.total_read \in Nat /\ s.stream.written = s.stream.total_read + Len(s.stream.buffer)
         /\ c.buffer \in Seq(Nat)
    BY <2>2, <2>6, Counters DEF StreamOK
  <2>12. s.next_seqno = 0 \/ s.next_seqno = s.stream.total_read + 1
    <3>1. SUFFICES ASSUME s.next_seqno # 0, s.next_seqno = s.stream.total_read + 2,
                          s.stream.buffer = << >>
                   PROVE  FALSE
      BY DEF SenderOK, Numbered
    <3>2. Len(s.stream.buffer) = 0
      BY <3>1
    <3>3. ReadyToFin(s)
      BY <2>3, <2>5, <3>1, <3>2
    <3>4. s.next_seqno < s.stream.written + 2
      BY <2>2, <3>3, Counters DEF ReadyToFin
    <3> QED
      BY <2>11, <3>1, <3>2, <3>4
  <2>13. t.next_seqno = c.total_read + 1 + One(f)
    <3>1. CASE s.next_seqno = 0
      <4>1. s.stream.total_read = 0
        BY <3>1 DEF SenderOK, Numbered
      <4> QED
        BY <2>3, <2>6, <2>7, <2>8, <2>11, <3>1, <4>1 DEF size, One
    <3>2. CASE s.next_seqno = s.stream.total_read + 1
      <4>1. s.next_seqno # 0
        BY <2>11, <3>2
      <4>2. size = p + One(f)
        BY <2>3, <2>8, <4>1 DEF size, One
      <4>3. p \in Nat /\ One(f) \in Nat /\ s.stream.total_read \in Nat
        BY <2>3, <2>8, <2>11
      <4>4. t.next_seqno = (s.stream.total_read + 1) + (p + One(f))
        BY <2>7, <3>2, <4>2
      <4>5. c.total_read = s.stream.total_read + p
        BY <2>6
      <4> QED
        BY <4>3, <4>4, <4>5
    <3> QED
      BY <2>12, <3>1, <3>2
  <2>14. f => c.end /\ c.buffer = << >>
    <3>1. f => Len(c.buffer) = 0
      BY <2>3, <2>4, <2>6, <2>11
    <3>2. Len(c.buffer) = 0 => c.buffer = << >>
      BY <2>11, EmptySeq
    <3> QED
      BY <2>4, <2>6, <3>1, <3>2
  <2>15. Numbered(t)
    BY <2>2, <2>6, <2>7, <2>11, <2>13, <2>14 DEF Numbered, One, StreamOK
  <2>16. t.next_seqno \in Nat /\ t.next_seqno >= s.next_seqno /\ t.next_seqno # 0
    <3>1. /\ s.next_seqno \in Nat /\ size \in Nat /\ t.next_seqno = s.next_seqno + size
          /\ c.total_read \in Nat /\ One(f) \in Nat
      BY <2>2, <2>6, <2>7, <2>8, <2>11 DEF StreamOK
    <3> DEFINE k == t.next_seqno
               j == s.next_seqno
               d == c.total_read
               o == One(f)
    <3>2. /\ j \in Nat /\ size \in Nat /\ k = j + size /\ d \in Nat /\ o \in Nat /\ k = d + 1 + o
      BY <2>13, <3>1, Zenon
    <3> HIDE DEF k, j, d, o
    <3>3. k \in Nat /\ k >= j /\ k # 0
      BY ONLY <3>2
    <3> QED
      BY ONLY <3>3 DEF k, j
  <2>17. SenderOK(t)
    BY <2>2, <2>6, <2>7, <2>10, <2>15, <2>16 DEF SenderOK
  <2> QED
    BY <2>1, <2>7, <2>16, <2>17 DEF Advances
<1> QED
  BY <1>1, <1>2

\* So does the probe of a closed window, which the FIN can be: it is one number beyond
\* the window, and only one is sent until the window has moved.
LEMMA ProbeOK ==
  ASSUME NEW s, SenderOK(s), s.window = 0, ~s.probing,
         ~BS!buffer_empty(s.stream) \/ ReadyToFin(s)
  PROVE  LET t == send_one_byte_segment([s EXCEPT !.probing = TRUE], BS!buffer_empty(s.stream))
         IN  SenderOK(t) /\ Advances(s, t)
<1> DEFINE b == s.stream
           f == BS!buffer_empty(b)
           t == send_one_byte_segment([s EXCEPT !.probing = TRUE], f)
<1>1. /\ DOMAIN s = Fields /\ StreamOK(b) /\ s.next_seqno \in Nat /\ s.window_right \in Nat
      /\ s.next_seqno # 0
  BY DEF SenderOK
<1>2. /\ b.total_read \in Nat /\ b.written = b.total_read + Len(b.buffer)
      /\ b.buffer \in Seq(Nat) /\ Len(b.buffer) \in Nat /\ (f <=> Len(b.buffer) = 0)
      /\ BS!bytes_written(b) = b.written
  BY <1>1, Counters DEF StreamOK
<1>3. /\ DOMAIN t = Fields /\ t.isn = s.isn /\ t.next_seqno = s.next_seqno + 1
      /\ t.window = s.window /\ t.window_right = s.window_right /\ t.probing = TRUE
      /\ t.stream = IF f THEN b ELSE BS!read(b, 1)
  BY <1>1 DEF send_one_byte_segment, Launch, Fields
<1>4. Obeys(t)
  BY <1>1, <1>3 DEF SenderOK, Obeys, One
<1> HIDE DEF t
<1>5. CASE f
  <2>1. /\ Len(b.buffer) = 0 /\ b.end /\ s.next_seqno < b.total_read + 2
    BY <1>2, <1>5 DEF ReadyToFin, BS!eof, BS!input_ended
  <2>2. b.buffer = << >>
    BY <1>2, <2>1, EmptySeq
  <2>3. s.next_seqno = b.total_read + 1
    BY <1>1, <1>2, <2>1 DEF SenderOK, Numbered
  <2>4. t.next_seqno = t.stream.total_read + 2 /\ t.stream.end /\ t.stream.buffer = << >>
    BY <1>2, <1>3, <1>5, <2>1, <2>2, <2>3
  <2>5. Numbered(t) /\ StreamOK(t.stream)
    BY <1>1, <1>3, <1>5, <2>4 DEF Numbered
  <2>6. SenderOK(t)
    <3>1. s.window = 0 /\ s.isn = ISN /\ t.next_seqno \in Nat /\ t.next_seqno # 0
      BY <1>1, <1>3 DEF SenderOK
    <3> QED
      BY <1>1, <1>3, <1>4, <2>5, <3>1, Zenon DEF SenderOK
  <2>7. Advances(s, t)
    BY <1>1, <1>3 DEF Advances
  <2> QED
    BY <2>6, <2>7 DEF t
<1>6. CASE ~f
  <2>1. 1 \in 0 .. Len(b.buffer)
    BY <1>2, <1>6
  <2>2. StreamOK(BS!read(b, 1)) /\ BS!read(b, 1).total_read = b.total_read + 1
    BY <1>1, <2>1, StreamReadBytes
  <2>3. s.next_seqno = b.total_read + 1
    <3>1. b.buffer # << >>
      BY <1>2, <1>6
    <3> QED
      BY <1>1, <3>1 DEF SenderOK, Numbered
  <2>4. t.next_seqno = t.stream.total_read + 1
    BY <1>2, <1>3, <1>6, <2>2, <2>3
  <2>5. Numbered(t) /\ StreamOK(t.stream)
    BY <1>1, <1>3, <1>6, <2>2, <2>4 DEF Numbered
  <2>6. SenderOK(t)
    <3>1. s.window = 0 /\ s.isn = ISN /\ t.next_seqno \in Nat /\ t.next_seqno # 0
      BY <1>1, <1>3 DEF SenderOK
    <3> QED
      BY <1>1, <1>3, <1>4, <2>5, <3>1, Zenon DEF SenderOK
  <2>7. Advances(s, t)
    BY <1>1, <1>3 DEF Advances
  <2> QED
    BY <2>6, <2>7 DEF t
<1> QED
  BY <1>5, <1>6

\* fill_window keeps the sender in order, whichever way it goes.
LEMMA FillWindowOK ==
  ASSUME NEW s, SenderOK(s)
  PROVE  SenderOK(fill_window(s)) /\ Advances(s, fill_window(s))
  BY FillLoopOK, ProbeOK DEF fill_window

\* So does an acknowledgment of something that was sent, new or old, with whatever
\* window: it moves the edge to the end of that window, or not at all.
LEMMA AckOK ==
  ASSUME NEW s, SenderOK(s), NEW a \in 1 .. s.next_seqno, NEW w \in 0 .. MaxWindow
  PROVE  LET t == ack_received(s, wrap(a, ISN), w)
         IN  /\ SenderOK(t) /\ t.next_seqno = s.next_seqno
             /\ t.window_right \in {s.window_right, a + w - 1}
<1> DEFINE t == ack_received(s, wrap(a, ISN), w)
           r == s.stream.total_read
<1>1. /\ MaxBytes \in Nat /\ MaxWindow \in Nat /\ Half32 \in Nat
      /\ MaxBytes + MaxWindow + 2 < Half32 /\ ISN \in WrappingInt32
      /\ Pow32 \in Nat \ {0} /\ Pow32 % 2 = 0
  BY SenderAssumption, TwoHalves
<1>2. /\ DOMAIN s = Fields /\ s.isn = ISN /\ StreamOK(s.stream)
      /\ s.next_seqno \in Nat /\ s.window_right \in Nat /\ s.probing \in BOOLEAN
      /\ a \in Nat /\ a >= 1 /\ a <= s.next_seqno /\ s.next_seqno # 0 /\ w \in Nat /\ w <= MaxWindow
  BY <1>1 DEF SenderOK
<1>3. r \in Nat /\ r <= MaxBytes /\ BS!bytes_read(s.stream) = r
  BY <1>1, <1>2, Counters DEF StreamOK
<1>4. s.next_seqno <= r + 2
  BY <1>2, <1>3 DEF SenderOK, Numbered
<1>5. unwrap(wrap(a, ISN), s.isn, BS!bytes_read(s.stream)) = a
  <2>1. Distance(a, r) < Half32
    BY <1>1, <1>2, <1>3, <1>4 DEF Distance
  <2> QED
    BY <1>1, <1>2, <1>3, <2>1, UnwrapOfWrap
<1> DEFINE right == a + w - 1
<1>6. right \in Nat /\ Size(right) = right
  <2>1. right \in Nat /\ right < Half32
    BY <1>1, <1>2, <1>3, <1>4
  <2> QED
    BY <1>1, <2>1, SmallConversions
<1> DEFINE moved == right > s.window_right
           k == Acked(s, a)
           popped == [s EXCEPT !.window       = w,
                               !.window_right = IF moved THEN right ELSE @,
                               !.probing      = Probing(s, moved),
                               !.outstandings = SubSeq(@, k + 1, Len(@)),
                               !.in_flights   = @ - TotalLength(SubSeq(s.outstandings, 1, k))]
<1>7. t = Timer(popped, k)
  <2>1. ~(a > s.next_seqno)
    BY <1>2
  <2> QED
    BY <1>5, <1>6, <2>1, Zenon DEF ack_received
<1> HIDE DEF k, right, t
<1>8. /\ DOMAIN popped = Fields /\ popped.isn = ISN /\ popped.stream = s.stream
      /\ popped.next_seqno = s.next_seqno /\ popped.window = w
      /\ popped.window_right = (IF moved THEN right ELSE s.window_right)
      /\ popped.probing = (s.probing /\ ~moved)
  BY <1>2 DEF Fields, Probing
<1> HIDE DEF popped
<1>9. Obeys(popped)
  <2>1. s.next_seqno <= s.window_right + 1 + One(s.probing)
    BY DEF SenderOK, Obeys
  <2>2. CASE moved
    BY <1>2, <1>6, <1>8, <2>1, <2>2 DEF Obeys, One
  <2>3. CASE ~moved
    BY <1>2, <1>6, <1>8, <2>1, <2>3 DEF Obeys, One
  <2> QED
    BY <2>2, <2>3
<1>10. Numbered(popped)
  BY <1>8 DEF SenderOK, Numbered
<1>11. SenderOK(popped)
  BY <1>2, <1>6, <1>8, <1>9, <1>10 DEF SenderOK
<1>12. Same(popped, t)
  BY <1>7, <1>8, TimerSame
<1>13. SenderOK(t)
  BY <1>11, <1>12, SameOK
<1>14. t.next_seqno = s.next_seqno /\ t.window_right \in {s.window_right, right}
  BY <1>8, <1>12 DEF Same
<1> QED
  BY <1>13, <1>14 DEF t, right

--------------------------------------------------------------------------------

\* The edge the sender believes in is one the peer has offered.
Offered == snd.window_right = 0 \/ snd.window_right < peer.edge

\* Every acknowledgment in the network acknowledges something that was sent, and its
\* window ends where the peer's window ends or ended before.
AcksOK ==
  \A ack \in acks :
    /\ ack.win \in 0 .. MaxWindow
    /\ \E a \in 1 .. snd.next_seqno : ack.ackno = wrap(a, ISN) /\ a + ack.win <= peer.edge

\* The inductive invariant.
Inv ==
  /\ SenderOK(snd)
  /\ peer \in [ack : Nat, edge : Nat]
  /\ Offered
  /\ AcksOK

\* It says what is to be shown: the sender obeys an edge that the peer offered.
LEMMA InvImplies == Inv => SentWithinWindow
<1> SUFFICES ASSUME Inv PROVE SentWithinWindow
  OBVIOUS
<1>1. /\ snd.next_seqno \in Nat /\ snd.window_right \in Nat
      /\ snd.next_seqno <= snd.window_right + 1 + One(snd.probing)
  BY DEF Inv, SenderOK, Obeys
<1>2. One(snd.probing) \in Nat /\ peer.edge \in Nat
  BY DEF One, Inv
<1> DEFINE m == Max({1, peer.edge})
<1>3. m \in Nat /\ m >= 1 /\ m >= peer.edge
  <2>1. 1 \in Int /\ peer.edge \in Int
    BY <1>2
  <2>2. m \in {1, peer.edge} /\ m >= 1 /\ m >= peer.edge
    BY <2>1, MaxOfTwo
  <2> HIDE DEF m
  <2> QED
    BY <1>2, <2>2
<1> HIDE DEF m
<1>4. snd.window_right + 1 <= m
  BY <1>1, <1>2, <1>3 DEF Inv, Offered
<1>5. snd.next_seqno <= m + One(snd.probing)
  BY <1>1, <1>2, <1>3, <1>4
<1> QED
  BY <1>5 DEF SentWithinWindow, m

\* Emptying segments_out is nothing the invariant sees.
LEMMA DrainedOK ==
  ASSUME NEW s, SenderOK(s)
  PROVE  Same(s, Drained(s)) /\ SenderOK(Drained(s))
<1>1. DOMAIN s = Fields
  BY DEF SenderOK
<1>2. Same(s, Drained(s))
  BY <1>1 DEF Same, Drained, Fields
<1> QED
  BY <1>2, SameOK

\* A step that leaves the peer, the network and the edge alone and does not take back
\* what was sent preserves the invariant if it keeps the sender in order.
LEMMA InvSender ==
  ASSUME Inv, SenderOK(snd'), UNCHANGED <<peer, acks>>,
         snd'.next_seqno >= snd.next_seqno, Offered'
  PROVE  Inv'
<1>1. snd.next_seqno \in Nat /\ snd'.next_seqno \in Nat
  BY DEF Inv, SenderOK
<1>2. \A a \in 1 .. snd.next_seqno : a \in 1 .. snd'.next_seqno
  BY <1>1
<1>3. AcksOK'
  BY <1>2 DEF Inv, AcksOK
<1> QED
  BY <1>3 DEF Inv

\* The owner writes: nothing is sent by that.
LEMMA InvWrite ==
  ASSUME Inv, NEW n \in 1 .. Capacity, Write(n)
  PROVE  Inv'
<1> DEFINE b == snd.stream
           data == [i \in 1 .. n |-> BS!bytes_written(b) + i]
           c == BS!write(b, data)
<1>1. SenderOK(snd) /\ DOMAIN snd = Fields
  BY DEF Inv, SenderOK
<1>2. /\ StreamOK(b) /\ BS!bytes_written(b) = b.written /\ b.written \in Nat
      /\ n \in Nat /\ ~b.end /\ b.written + n <= MaxBytes
  <2>1. StreamOK(b)
    BY <1>1 DEF SenderOK
  <2>2. BS!bytes_written(b) = b.written /\ b.written \in Nat
    BY <2>1, Counters
  <2>3. ~b.end /\ BS!bytes_written(b) + n <= MaxBytes
    BY DEF Write, BS!input_ended
  <2>4. Capacity \in Nat
    BY SenderAssumption
  <2> QED
    BY <2>1, <2>2, <2>3, <2>4
<1>3. data \in Seq(Nat) /\ Len(data) = n
  BY <1>2
<1> HIDE DEF data
<1>4. StreamOK(c) /\ c.total_read = b.total_read
  BY <1>2, <1>3, StreamWrite
<1>5. snd' = Drained([snd EXCEPT !.stream = c])
  BY <1>1 DEF Write, Becomes, data, Fields
<1> HIDE DEF c
<1>6. /\ DOMAIN snd' = Fields /\ snd'.isn = snd.isn /\ snd'.stream = c
      /\ snd'.next_seqno = snd.next_seqno /\ snd'.window = snd.window
      /\ snd'.window_right = snd.window_right /\ snd'.probing = snd.probing
  BY <1>1, <1>5 DEF Drained, Fields
<1>7. SenderOK(snd')
  <2>1. Numbered(snd')
    BY <1>1, <1>2, <1>4, <1>6 DEF SenderOK, Numbered
  <2>2. Obeys(snd')
    BY <1>1, <1>6 DEF SenderOK, Obeys
  <2> QED
    BY <1>1, <1>4, <1>6, <2>1, <2>2 DEF SenderOK
<1>8. snd'.next_seqno >= snd.next_seqno /\ Offered' /\ UNCHANGED <<peer, acks>>
  BY <1>1, <1>6 DEF SenderOK, Inv, Offered, Write
<1> QED
  BY <1>7, <1>8, InvSender

\* The owner ends its stream: neither.
LEMMA InvEndInput ==
  ASSUME Inv, EndInput
  PROVE  Inv'
<1> DEFINE b == snd.stream
           c == BS!end_input(b)
<1>1. SenderOK(snd) /\ DOMAIN snd = Fields
  BY DEF Inv, SenderOK
<1>2. StreamOK(b)
  BY <1>1 DEF SenderOK
<1>3. /\ StreamOK(c) /\ c.total_read = b.total_read /\ c.buffer = b.buffer /\ c.end = TRUE
  BY <1>2 DEF StreamOK, BS!end_input, BS!Streams
<1>4. snd' = Drained([snd EXCEPT !.stream = c])
  BY <1>1 DEF EndInput, Becomes, Fields
<1> HIDE DEF c
<1>5. /\ DOMAIN snd' = Fields /\ snd'.isn = snd.isn /\ snd'.stream = c
      /\ snd'.next_seqno = snd.next_seqno /\ snd'.window = snd.window
      /\ snd'.window_right = snd.window_right /\ snd'.probing = snd.probing
  BY <1>1, <1>4 DEF Drained, Fields
<1>6. SenderOK(snd')
  <2>1. Numbered(snd')
    BY <1>1, <1>3, <1>5 DEF SenderOK, Numbered
  <2>2. Obeys(snd')
    BY <1>1, <1>5 DEF SenderOK, Obeys
  <2> QED
    BY <1>1, <1>3, <1>5, <2>1, <2>2 DEF SenderOK
<1>7. snd'.next_seqno >= snd.next_seqno /\ Offered' /\ UNCHANGED <<peer, acks>>
  BY <1>1, <1>5 DEF SenderOK, Inv, Offered, EndInput
<1> QED
  BY <1>6, <1>7, InvSender

\* A call of the sender that changes none of the members that matter.
LEMMA InvSame ==
  ASSUME Inv, NEW t, Same(snd, t), snd' = Drained(t), UNCHANGED <<peer, acks>>
  PROVE  Inv'
<1>1. SenderOK(snd) /\ SenderOK(t)
  BY SameOK DEF Inv
<1>2. SenderOK(snd') /\ Same(t, snd')
  BY <1>1, DrainedOK
<1>3. snd'.next_seqno >= snd.next_seqno /\ Offered'
  BY <1>1, <1>2 DEF Same, SenderOK, Inv, Offered
<1> QED
  BY <1>2, <1>3, InvSender

\* fill_window stays within an edge that does not move.
LEMMA InvFillWindow ==
  ASSUME Inv, FillWindow
  PROVE  Inv'
<1> DEFINE t == fill_window(snd)
<1>1. SenderOK(snd) /\ snd' = Drained(t) /\ UNCHANGED <<peer, acks>>
  BY DEF Inv, FillWindow, Becomes
<1>2. SenderOK(t) /\ Advances(snd, t)
  BY <1>1, FillWindowOK
<1> HIDE DEF t
<1>3. SenderOK(snd') /\ Same(t, snd')
  BY <1>1, <1>2, DrainedOK
<1>4. snd'.next_seqno >= snd.next_seqno /\ Offered'
  BY <1>1, <1>2, <1>3 DEF Advances, Same, Inv, Offered
<1> QED
  BY <1>1, <1>3, <1>4, InvSender

\* An acknowledgment, however old, moves the edge to one the peer has offered.
LEMMA InvAckReceived ==
  ASSUME Inv, NEW ack \in acks, AckReceived(ack)
  PROVE  Inv'
<1> DEFINE t == ack_received(snd, ack.ackno, ack.win)
<1>1. SenderOK(snd) /\ snd' = Drained(t) /\ UNCHANGED <<peer, acks>>
  BY DEF Inv, AckReceived, Becomes
<1>2. PICK a \in 1 .. snd.next_seqno : ack.ackno = wrap(a, ISN) /\ a + ack.win <= peer.edge
  BY DEF Inv, AcksOK
<1>3. ack.win \in 0 .. MaxWindow
  BY DEF Inv, AcksOK
<1>4. /\ SenderOK(t) /\ t.next_seqno = snd.next_seqno
      /\ t.window_right \in {snd.window_right, a + ack.win - 1}
  BY <1>1, <1>2, <1>3, AckOK
<1> HIDE DEF t
<1>5. SenderOK(snd') /\ Same(t, snd')
  BY <1>1, <1>4, DrainedOK
<1>6. /\ snd.next_seqno \in Nat /\ snd.window_right \in Nat /\ peer.edge \in Nat
      /\ MaxWindow \in Nat
  BY <1>1, SenderAssumption DEF SenderOK, Inv
<1>7. /\ snd'.next_seqno >= snd.next_seqno
      /\ snd'.window_right \in {snd.window_right, a + ack.win - 1}
  BY <1>4, <1>5, <1>6 DEF Same
<1>8. Offered'
  <2>1. CASE snd'.window_right = snd.window_right
    BY <1>1, <2>1 DEF Inv, Offered
  <2>2. CASE snd'.window_right = a + ack.win - 1
    <3>1. a \in Nat /\ ack.win \in Nat
      BY <1>2, <1>3, <1>6
    <3> QED
      BY <1>1, <1>2, <1>6, <2>2, <3>1 DEF Offered
  <2> QED
    BY <1>7, <2>1, <2>2
<1> QED
  BY <1>1, <1>5, <1>7, <1>8, InvSender

\* The peer only acknowledges what was sent and never takes back its edge, so what the
\* sender and the acknowledgments in the network rely on stays true.
LEMMA InvPeerAcks ==
  ASSUME Inv, NEW a \in 1 .. snd.next_seqno, NEW edge \in a .. a + MaxWindow, PeerAcks(a, edge)
  PROVE  Inv'
<1> DEFINE new == [ackno |-> wrap(a, ISN), win |-> edge - a]
<1>1. /\ snd.next_seqno \in Nat /\ snd.window_right \in Nat /\ peer.edge \in Nat
      /\ MaxWindow \in Nat /\ a \in Nat /\ edge \in Nat
  BY SenderAssumption DEF Inv, SenderOK
<1>2. /\ snd' = snd /\ peer' = [ack |-> a, edge |-> edge] /\ edge >= peer.edge /\ a <= edge
      /\ edge - a <= MaxWindow /\ acks' \subseteq acks \cup {new}
  BY DEF PeerAcks
<1>3. peer' \in [ack : Nat, edge : Nat] /\ peer'.edge = edge
  BY <1>1, <1>2
<1>4. Offered'
  BY <1>1, <1>2, <1>3 DEF Inv, Offered
<1>5. AcksOK'
  <2> SUFFICES ASSUME NEW ack \in acks'
               PROVE  /\ ack.win \in 0 .. MaxWindow
                      /\ \E x \in 1 .. snd.next_seqno : ack.ackno = wrap(x, ISN) /\ x + ack.win <= edge
    BY <1>2, <1>3 DEF AcksOK
  <2>1. CASE ack \in acks
    <3>1. PICK x \in 1 .. snd.next_seqno : ack.ackno = wrap(x, ISN) /\ x + ack.win <= peer.edge
      BY <2>1 DEF Inv, AcksOK
    <3>2. ack.win \in 0 .. MaxWindow
      BY <2>1 DEF Inv, AcksOK
    <3>3. x + ack.win <= edge
      BY <1>1, <1>2, <3>1, <3>2
    <3> QED
      BY <3>1, <3>2, <3>3
  <2>2. CASE ack = new
    <3>1. ack.win = edge - a /\ ack.ackno = wrap(a, ISN)
      BY <2>2
    <3>2. ack.win \in 0 .. MaxWindow /\ a + ack.win <= edge
      BY <1>1, <1>2, <3>1
    <3> QED
      BY <3>1, <3>2
  <2> QED
    BY <1>2, <2>1, <2>2
<1> QED
  BY <1>2, <1>3, <1>4, <1>5 DEF Inv

\* The constructor establishes the invariant.
LEMMA InvInit == Init => Inv
<1> SUFFICES ASSUME Init PROVE Inv
  OBVIOUS
<1>1. Capacity \in Nat /\ MaxBytes \in Nat /\ BS!Int32(Capacity) = Capacity
  <2>1. /\ Capacity \in Nat /\ Capacity < Half32 /\ MaxBytes \in Nat
        /\ Pow32 \in Nat \ {0} /\ Pow32 % 2 = 0
    BY SenderAssumption
  <2>2. Int32(Capacity) = Capacity
    BY <2>1, SmallConversions
  <2> QED
    BY <2>1, <2>2 DEF BS!Int32, Int32, BS!Half32, Half32
<1>2. << >> \in Seq(Nat) /\ Len(<< >>) = 0
  BY EmptySeq
<1>3. /\ DOMAIN snd = Fields /\ snd.isn = ISN /\ snd.next_seqno = 0 /\ snd.window_right = 0
      /\ snd.window = 1 /\ snd.probing = FALSE /\ snd.stream = BS!New(Capacity)
  BY DEF Init, New, Fields
<1>4. /\ BS!New(Capacity).capacity = Capacity /\ BS!New(Capacity).total_read = 0
      /\ BS!New(Capacity).written = 0 /\ BS!New(Capacity).buffer = << >>
      /\ BS!New(Capacity) \in BS!Streams(Nat)
  BY <1>1, <1>2 DEF BS!New, BS!Streams
<1>5. StreamOK(BS!New(Capacity))
  BY <1>1, <1>2, <1>4 DEF StreamOK
<1>6. SenderOK(snd)
  <2>1. Numbered(snd) /\ Obeys(snd)
    BY <1>3, <1>4 DEF Numbered, Obeys, One
  <2>2. /\ snd.next_seqno \in Nat /\ snd.window_right \in Nat /\ snd.window \in Nat
        /\ snd.window # 0
    BY <1>3
  <2>3. snd.probing \in BOOLEAN
    BY <1>3, Zenon
  <2> QED
    BY <1>3, <1>5, <2>1, <2>2, <2>3, Zenon DEF SenderOK
<1> QED
  BY <1>3, <1>6 DEF Inv, Init, Offered, AcksOK

\* Every step preserves it.
LEMMA InvNext == Inv /\ [Next]_vars => Inv'
<1> SUFFICES ASSUME Inv, [Next]_vars PROVE Inv'
  OBVIOUS
<1>1. DOMAIN snd = Fields
  BY DEF Inv, SenderOK
<1>2. CASE \E n \in 1 .. Capacity : Write(n)
  BY <1>2, InvWrite
<1>3. CASE EndInput
  BY <1>3, InvEndInput
<1>4. CASE FillWindow
  BY <1>4, InvFillWindow
<1>5. CASE SendEmptySegment
  BY <1>1, <1>5, EmptySegmentSame, InvSame DEF SendEmptySegment, Becomes
<1>6. CASE SendEmptySegmentRST
  BY <1>1, <1>6, EmptySegmentSame, InvSame DEF SendEmptySegmentRST, Becomes
<1>7. CASE \E ms \in 1 .. MaxTick : Tick(ms)
  BY <1>1, <1>7, TickSame, InvSame DEF Tick, Becomes
<1>8. ASSUME NEW ack \in acks, AckReceived(ack) PROVE Inv'
  BY <1>8, InvAckReceived
<1>9. ASSUME NEW ack \in acks, LoseAck(ack) PROVE Inv'
  BY <1>9 DEF LoseAck, Inv, Offered, AcksOK
<1>10. ASSUME NEW a \in 1 .. snd.next_seqno, NEW edge \in a .. a + MaxWindow, PeerAcks(a, edge)
       PROVE  Inv'
  BY <1>10, InvPeerAcks
<1>11. CASE UNCHANGED vars
  BY <1>11 DEF vars, Inv, Offered, AcksOK
<1> QED
  BY <1>2, <1>3, <1>4, <1>5, <1>6, <1>7, <1>8, <1>9, <1>10, <1>11 DEF Next

\* However acknowledgments are lost, repeated and reordered, TCPSender never goes beyond
\* the window its peer has offered, but for the one byte of a probe.
THEOREM KeepsToTheWindow == Spec => []SentWithinWindow
<1>1. Init => Inv
  BY InvInit
<1>2. Inv /\ [Next]_vars => Inv'
  BY InvNext
<1>3. Inv => SentWithinWindow
  BY InvImplies
<1> QED
  BY <1>1, <1>2, <1>3, PTL DEF Spec

================================================================================
