-------------------------- MODULE TimerQueueProofs --------------------------
(***************************************************************************)
(* Theorems about timer_queue.js, for any number of timers, any delays and *)
(* any clock: its array stays sorted and first come, first served, loses   *)
(* no timer, and implements a set of timers that refuses one only for a    *)
(* delay that is NaN.                                                      *)
(***************************************************************************)
EXTENDS TimerQueue, TLAPS, SequenceTheorems

\* A timer whose fire time is NaN is alone in the array: push() takes it only
\* when the array is empty and after it add() can only throw.
NaNAlone == Len(queue) > 1 => \A i \in DOMAIN queue : queue[i].at # NaN

\* Identifiers are given in the order of the calls of add().
IdsMade == \A i \in DOMAIN queue : queue[i].id <= made

\* No timer is in the array twice.
Distinct == \A i, j \in DOMAIN queue : i # j => queue[i].id # queue[j].id

IInv == TypeOK /\ SortedFifo /\ NaNAlone /\ IdsMade /\ Distinct

\* What splice() does to an array: one timer more, the ones before it in
\* place, the others one place further.
LEMMA InsertAtProperties ==
    ASSUME NEW S, NEW s \in Seq(S), NEW i \in 1 .. Len(s), NEW e \in S
    PROVE  /\ InsertAt(s, i, e) \in Seq(S)
           /\ Len(InsertAt(s, i, e)) = Len(s) + 1
           /\ InsertAt(s, i, e)[i] = e
           /\ \A j \in 1 .. i - 1 : InsertAt(s, i, e)[j] = s[j]
           /\ \A j \in i + 1 .. Len(s) + 1 : InsertAt(s, i, e)[j] = s[j - 1]
<1> DEFINE a == SubSeq(s, 1, i - 1)
           b == SubSeq(s, i, Len(s))
           c == a \o <<e>>
<1>1. /\ a \in Seq(S)
      /\ Len(a) = i - 1
      /\ \A j \in 1 .. i - 1 : a[j] = s[j]
  BY LenProperties, ElementOfSeq, SubSeqProperties
<1>2. /\ b \in Seq(S)
      /\ Len(b) = Len(s) - i + 1
      /\ \A j \in 1 .. Len(s) - i + 1 : b[j] = s[i + j - 1]
  BY LenProperties, ElementOfSeq, SubSeqProperties
<1>3. <<e>> \in Seq(S) /\ Len(<<e>>) = 1 /\ <<e>>[1] = e
  OBVIOUS
<1>4. /\ c \in Seq(S)
      /\ Len(c) = i
      /\ \A j \in 1 .. i - 1 : c[j] = s[j]
      /\ c[i] = e
  <2> HIDE DEF a
  <2> QED BY <1>1, <1>3, ConcatProperties
<1>5. InsertAt(s, i, e) = c \o b
  BY DEF InsertAt
<1> HIDE DEF a, b, c
<1>6. /\ c \o b \in Seq(S)
      /\ Len(c \o b) = Len(s) + 1
      /\ \A j \in 1 .. i : (c \o b)[j] = c[j]
      /\ \A j \in i + 1 .. Len(s) + 1 : (c \o b)[j] = b[j - i]
  <2>1. Len(s) \in Nat
    BY LenProperties
  <2>2. /\ c \o b \in Seq(S)
        /\ Len(c \o b) = Len(c) + Len(b)
        /\ \A j \in 1 .. Len(c) + Len(b) :
              (c \o b)[j] = IF j <= Len(c) THEN c[j] ELSE b[j - Len(c)]
    BY <1>2, <1>4, ConcatProperties
  <2> QED BY <1>2, <1>4, <2>1, <2>2
<1>7. \A j \in i + 1 .. Len(s) + 1 : (c \o b)[j] = s[j - 1]
  BY <1>2, <1>6, LenProperties, SMTT(30)
<1> QED BY <1>4, <1>5, <1>6, <1>7

-----------------------------------------------------------------------------
NewTimer(ms) == [id |-> made + 1, at |-> FireTime(ms)]

\* The array after add() put timer t at place i, whichever branch did it.
PlacedAt(i, t) ==
    /\ queue' \in Seq(Timer)
    /\ Len(queue') = Len(queue) + 1
    /\ queue'[i] = t
    /\ \A j \in 1 .. i - 1 : queue'[j] = queue[j]
    /\ \A j \in i + 1 .. Len(queue) + 1 : queue'[j] = queue[j - 1]
    /\ \A j \in 1 .. i - 1 : TimeLeq(queue[j].at, t.at)
    /\ \A j \in i .. Len(queue) : TimeGt(queue[j].at, t.at)

\* The array holds timers with a fire time, a number or NaN.
LEMMA QueueTyped ==
    ASSUME TypeOK
    PROVE  /\ queue \in Seq(Timer)
           /\ Len(queue) \in Nat
           /\ DOMAIN queue = 1 .. Len(queue)
           /\ \A j \in 1 .. Len(queue) : queue[j] \in Timer /\ queue[j].at \in Nat \cup {NaN}
<1>1. queue \in Seq(Timer)
  BY DEF TypeOK
<1>2. Len(queue) \in Nat /\ DOMAIN queue = 1 .. Len(queue)
  BY <1>1, LenProperties
<1>3. \A j \in 1 .. Len(queue) : queue[j] \in Timer
  BY <1>1, ElementOfSeq
<1>4. \A u \in Timer : u.at \in Nat \cup {NaN}
  BY DEF Timer
<1> QED BY <1>1, <1>2, <1>3, <1>4

\* add() puts the timer at its place in the order, or throws.
LEMMA AddPlaces ==
    ASSUME IInv, NEW ms \in Delays, Add(ms)
    PROVE  /\ NewTimer(ms) \in Timer
           /\ \/ thrown' = thrown /\ \E i \in 1 .. Len(queue) + 1 : PlacedAt(i, NewTimer(ms))
              \/ thrown' = TRUE /\ queue' = queue
<1>0. PICK t : t = NewTimer(ms)
  OBVIOUS
<1>1. t \in Timer /\ t.at \in Nat \cup {NaN} /\ t.id = made + 1
  BY <1>0, DelaysAssumption, NaNAssumption, BoundsAssumption
     DEF IInv, TypeOK, Add, NewTimer, FireTime, Timer
<1>2. /\ queue \in Seq(Timer)
      /\ Len(queue) \in Nat
      /\ DOMAIN queue = 1 .. Len(queue)
      /\ \A j \in 1 .. Len(queue) : queue[j] \in Timer /\ queue[j].at \in Nat \cup {NaN}
  BY QueueTyped DEF IInv
<1>3. Push(t) \/ Splice(t) \/ Throw(t)
  BY <1>0 DEF Add, NewTimer
<1>4. CASE Push(t)
  <2>1. /\ queue' = Append(queue, t)
        /\ thrown' = thrown
        /\ queue # <<>> => TimeLeq(queue[Len(queue)].at, t.at)
    BY <1>4 DEF Push, Pushable
  <2>2. /\ queue' \in Seq(Timer)
        /\ Len(queue') = Len(queue) + 1
        /\ queue'[Len(queue) + 1] = t
        /\ \A j \in 1 .. Len(queue) : queue'[j] = queue[j]
    BY <1>1, <1>2, <2>1, AppendProperties
  <2>3. \A j \in 1 .. Len(queue) : TimeLeq(queue[j].at, t.at)
    <3> SUFFICES ASSUME NEW j \in 1 .. Len(queue)
                 PROVE  TimeLeq(queue[j].at, t.at)
      OBVIOUS
    <3>1. TimeLeq(queue[Len(queue)].at, t.at)
      BY <1>2, <2>1
    <3>2. j < Len(queue) => TimeGt(queue[Len(queue)].at, queue[j].at)
                            \/ queue[j].at = queue[Len(queue)].at
      BY <1>2 DEF IInv, SortedFifo
    <3> QED BY <1>1, <1>2, <3>1, <3>2, NaNAssumption DEF TimeLeq, TimeGt
  <2>4. PlacedAt(Len(queue) + 1, t)
    BY <1>2, <2>2, <2>3 DEF PlacedAt
  <2>5. Len(queue) + 1 \in 1 .. Len(queue) + 1
    BY <1>2
  <2> QED BY <1>0, <1>1, <2>1, <2>4, <2>5
<1>5. CASE Splice(t)
  <2>1. PICK i \in DOMAIN queue :
              /\ TimeGt(queue[i].at, t.at)
              /\ \A j \in 1 .. i - 1 : ~TimeGt(queue[j].at, t.at)
              /\ queue' = InsertAt(queue, i, t)
    BY <1>5 DEF Splice
  <2>2. /\ queue' \in Seq(Timer)
        /\ Len(queue') = Len(queue) + 1
        /\ queue'[i] = t
        /\ \A j \in 1 .. i - 1 : queue'[j] = queue[j]
        /\ \A j \in i + 1 .. Len(queue) + 1 : queue'[j] = queue[j - 1]
    <3>1. i \in 1 .. Len(queue)
      BY <1>2
    <3>2. /\ InsertAt(queue, i, t) \in Seq(Timer)
          /\ Len(InsertAt(queue, i, t)) = Len(queue) + 1
          /\ InsertAt(queue, i, t)[i] = t
          /\ \A j \in 1 .. i - 1 : InsertAt(queue, i, t)[j] = queue[j]
          /\ \A j \in i + 1 .. Len(queue) + 1 : InsertAt(queue, i, t)[j] = queue[j - 1]
      <4>1. queue \in Seq(Timer) /\ t \in Timer
        BY <1>1, <1>2
      <4> QED BY <3>1, <4>1, InsertAtProperties, SMTT(30)
    <3> QED BY <2>1, <3>2
  <2>3. \A j \in 1 .. i - 1 : TimeLeq(queue[j].at, t.at)
    <3> SUFFICES ASSUME NEW j \in 1 .. i - 1
                 PROVE  TimeLeq(queue[j].at, t.at)
      OBVIOUS
    <3>1. Len(queue) > 1 /\ queue[j].at # NaN
      BY <1>2 DEF IInv, NaNAlone
    <3> QED BY <1>1, <1>2, <2>1, <3>1, NaNAssumption DEF TimeLeq, TimeGt
  <2>4. \A j \in i .. Len(queue) : TimeGt(queue[j].at, t.at)
    <3> SUFFICES ASSUME NEW j \in i .. Len(queue)
                 PROVE  TimeGt(queue[j].at, t.at)
      OBVIOUS
    <3>1. i < j => TimeGt(queue[j].at, queue[i].at) \/ queue[i].at = queue[j].at
      BY <1>2 DEF IInv, SortedFifo
    <3> QED BY <1>1, <1>2, <2>1, <3>1, NaNAssumption DEF TimeGt
  <2>5. PlacedAt(i, t)
    BY <1>2, <2>2, <2>3, <2>4 DEF PlacedAt
  <2>6. i \in 1 .. Len(queue) + 1
    BY <1>2
  <2> QED BY <1>0, <1>1, <1>5, <2>5, <2>6 DEF Splice
<1>6. CASE Throw(t)
  BY <1>0, <1>1, <1>6 DEF Throw
<1> QED BY <1>3, <1>4, <1>5, <1>6

\* What shift() n times leaves: the array without its first n timers.
LEMMA ShiftProperties ==
    ASSUME TypeOK, NEW n \in DOMAIN queue, Shift(n)
    PROVE  /\ queue' \in Seq(Timer)
           /\ Len(queue') = Len(queue) - n
           /\ n \in 1 .. Len(queue)
           /\ \A j \in 1 .. Len(queue) - n : queue'[j] = queue[j + n]
<1>1. /\ queue \in Seq(Timer)
      /\ Len(queue) \in Nat
      /\ n \in 1 .. Len(queue)
      /\ \A j \in 1 .. Len(queue) : queue[j] \in Timer
  BY QueueTyped
<1>2. queue' = SubSeq(queue, n + 1, Len(queue))
  BY DEF Shift
<1>3. /\ queue' \in Seq(Timer)
      /\ Len(queue') = IF n + 1 <= Len(queue) THEN Len(queue) - (n + 1) + 1 ELSE 0
      /\ \A j \in 1 .. Len(queue) - (n + 1) + 1 : queue'[j] = queue[(n + 1) + j - 1]
  BY <1>1, <1>2, SubSeqProperties
<1>4. Len(queue') = Len(queue) - n
  BY <1>1, <1>3
<1>5. ASSUME NEW j \in 1 .. Len(queue) - n
      PROVE  queue'[j] = queue[j + n]
  <2>1. j \in 1 .. Len(queue) - (n + 1) + 1 /\ (n + 1) + j - 1 = j + n
    BY <1>1
  <2> QED BY <1>3, <2>1
<1> QED BY <1>1, <1>3, <1>4, <1>5

-----------------------------------------------------------------------------
\* The invariant holds at the start.
LEMMA InitIInv == Init => IInv
<1> SUFFICES ASSUME Init PROVE IInv
  OBVIOUS
<1>1. queue = <<>> /\ Len(queue) = 0 /\ DOMAIN queue = {} /\ queue \in Seq(Timer)
  BY DEF Init
<1>2. 0 \in 0 .. MaxTime /\ 0 \in 0 .. MaxBacks /\ 0 \in 0 .. MaxTimers
  BY BoundsAssumption
<1>3. TypeOK
  BY <1>1, <1>2 DEF Init, TypeOK
<1> QED BY <1>1, <1>3 DEF IInv, SortedFifo, NaNAlone, IdsMade, Distinct

\* A timer put at its place keeps the array sorted, first come, first served.
LEMMA AddIInv ==
    ASSUME IInv, NEW ms \in Delays, Add(ms)
    PROVE  IInv'
<1>1. /\ Len(queue) \in Nat
      /\ DOMAIN queue = 1 .. Len(queue)
      /\ \A j \in 1 .. Len(queue) : queue[j] \in Timer /\ queue[j].at \in Nat \cup {NaN}
  BY QueueTyped DEF IInv
<1>2. made \in Nat /\ made' = made + 1 /\ made + 1 \in 1 .. MaxTimers
  BY BoundsAssumption DEF Add, IInv, TypeOK
<1>3. CASE thrown' = TRUE /\ queue' = queue
  <2>1. TypeOK'
    BY <1>2, <1>3 DEF IInv, TypeOK, Add
  <2>2. IdsMade'
    <3>1. \A j \in 1 .. Len(queue) : queue[j].id \in Nat
      BY <1>1, BoundsAssumption DEF Timer
    <3> QED BY <1>1, <1>2, <1>3, <3>1 DEF IInv, IdsMade
  <2> QED BY <1>3, <2>1, <2>2 DEF IInv, SortedFifo, NaNAlone, Distinct
<1>4. ASSUME NEW i \in 1 .. Len(queue) + 1, NEW t, t = NewTimer(ms), PlacedAt(i, t),
             t \in Timer, thrown' = thrown
      PROVE  IInv'
  <2>1. /\ queue' \in Seq(Timer)
        /\ Len(queue') = Len(queue) + 1
        /\ DOMAIN queue' = 1 .. Len(queue) + 1
    BY <1>1, <1>4, LenProperties DEF PlacedAt
  <2>2. TypeOK'
    BY <1>2, <1>4, <2>1 DEF IInv, TypeOK, Add
  <2>3. t.id = made + 1 /\ t.at \in Nat \cup {NaN}
    BY <1>4 DEF NewTimer, Timer
  <2>4. \A j \in 1 .. Len(queue) : queue[j].id \in Nat /\ queue[j].id <= made
    BY <1>1, BoundsAssumption DEF IInv, IdsMade, Timer
  <2>5. IdsMade'
    <3> SUFFICES ASSUME NEW j \in 1 .. Len(queue) + 1
                 PROVE  queue'[j].id <= made'
      BY <2>1 DEF IdsMade
    <3>1. CASE j < i
      BY <1>1, <1>2, <1>4, <2>4, <3>1 DEF PlacedAt
    <3>2. CASE j = i
      BY <1>2, <1>4, <2>3, <3>2 DEF PlacedAt
    <3>3. CASE j > i
      <4>1. queue'[j] = queue[j - 1] /\ j - 1 \in 1 .. Len(queue)
        BY <1>1, <1>4, <3>3 DEF PlacedAt
      <4> QED BY <1>2, <2>4, <4>1
    <3> QED BY <1>1, <3>1, <3>2, <3>3
  <2>6. SortedFifo'
    <3> SUFFICES ASSUME NEW j \in 1 .. Len(queue) + 1, NEW k \in 1 .. Len(queue) + 1, j < k
                 PROVE  \/ TimeGt(queue'[k].at, queue'[j].at)
                        \/ queue'[j].at = queue'[k].at /\ queue'[j].id < queue'[k].id
      BY <2>1 DEF SortedFifo
    <3>1. CASE k < i
      <4>1. queue'[j] = queue[j] /\ queue'[k] = queue[k] /\ j \in DOMAIN queue /\ k \in DOMAIN queue
        BY <1>1, <1>4, <3>1 DEF PlacedAt
      <4> QED BY <4>1 DEF IInv, SortedFifo
    <3>2. CASE k = i
      <4>1. queue'[j] = queue[j] /\ queue'[k] = t /\ j \in 1 .. Len(queue)
            /\ TimeLeq(queue[j].at, t.at)
        <5>1. j \in 1 .. i - 1 /\ j \in 1 .. Len(queue)
          BY <1>1, <3>2
        <5> QED BY <1>4, <3>2, <5>1 DEF PlacedAt
      <4>2. queue[j].id < t.id
        BY <1>2, <2>3, <2>4, <4>1
      <4> QED BY <1>1, <2>3, <4>1, <4>2, NaNAssumption DEF TimeLeq, TimeGt
    <3>3. CASE j < i /\ i < k
      <4>1. queue'[j] = queue[j] /\ queue'[k] = queue[k - 1]
            /\ j \in DOMAIN queue /\ k - 1 \in DOMAIN queue /\ j < k - 1
        BY <1>1, <1>4, <3>3 DEF PlacedAt
      <4> QED BY <4>1 DEF IInv, SortedFifo
    <3>4. CASE j = i
      <4>1. queue'[j] = t /\ queue'[k] = queue[k - 1] /\ k - 1 \in i .. Len(queue)
            /\ TimeGt(queue[k - 1].at, t.at)
        BY <1>1, <1>4, <3>4 DEF PlacedAt
      <4> QED BY <4>1
    <3>5. CASE i < j
      <4>1. queue'[j] = queue[j - 1] /\ queue'[k] = queue[k - 1]
            /\ j - 1 \in DOMAIN queue /\ k - 1 \in DOMAIN queue /\ j - 1 < k - 1
        BY <1>1, <1>4, <3>5 DEF PlacedAt
      <4> QED BY <4>1 DEF IInv, SortedFifo
    <3> QED BY <1>1, <3>1, <3>2, <3>3, <3>4, <3>5
  <2>7. NaNAlone'
    <3>1. \A j \in 1 .. i - 1 : queue'[j].at # NaN
      BY <1>4 DEF PlacedAt, TimeLeq
    <3>2. \A j \in i + 1 .. Len(queue) + 1 : queue'[j].at # NaN
      <4> SUFFICES ASSUME NEW j \in i + 1 .. Len(queue) + 1
                   PROVE  queue'[j].at # NaN
        OBVIOUS
      <4>1. queue'[j] = queue[j - 1] /\ j - 1 \in i .. Len(queue)
        BY <1>1, <1>4 DEF PlacedAt
      <4> QED BY <1>4, <4>1 DEF PlacedAt, TimeGt
    <3>3. Len(queue) + 1 > 1 => t.at # NaN
      <4>1. \A j \in 1 .. i - 1 : TimeLeq(queue[j].at, t.at)
        BY <1>4 DEF PlacedAt
      <4>2. \A j \in i .. Len(queue) : TimeGt(queue[j].at, t.at)
        BY <1>4 DEF PlacedAt
      <4>3. Len(queue) + 1 > 1 => 1 \in 1 .. i - 1 \/ 1 \in i .. Len(queue)
        BY <1>1
      <4> QED BY <4>1, <4>2, <4>3 DEF TimeLeq, TimeGt
    <3>4. queue'[i] = t
      BY <1>4 DEF PlacedAt
    <3> SUFFICES ASSUME Len(queue) + 1 > 1, NEW j \in 1 .. Len(queue) + 1
                 PROVE  queue'[j].at # NaN
      BY <2>1 DEF NaNAlone
    <3>5. j \in 1 .. i - 1 \/ j = i \/ j \in i + 1 .. Len(queue) + 1
      BY <1>1
    <3> QED BY <3>1, <3>2, <3>3, <3>4, <3>5
  <2>8. Distinct'
    <3> SUFFICES ASSUME NEW j \in 1 .. Len(queue) + 1, NEW k \in 1 .. Len(queue) + 1, j < k
                 PROVE  queue'[j].id # queue'[k].id
      BY <1>1, <2>1 DEF Distinct
    <3>1. \A l \in 1 .. i - 1 : queue'[l] = queue[l] /\ l \in DOMAIN queue
      BY <1>1 , <1>4 DEF PlacedAt
    <3>2. \A l \in i + 1 .. Len(queue) + 1 : queue'[l] = queue[l - 1] /\ l - 1 \in DOMAIN queue
      BY <1>1 , <1>4 DEF PlacedAt
    <3>3. queue'[i] = t
      BY <1>4 DEF PlacedAt
    <3>4. CASE k < i
      BY <1>1, <3>1, <3>4 DEF IInv, Distinct
    <3>5. CASE k = i
      BY <1>1, <1>2, <2>3, <2>4, <3>1, <3>3, <3>5
    <3>6. CASE j < i /\ i < k
      <4>1. queue'[j] = queue[j] /\ queue'[k] = queue[k - 1]
            /\ j \in DOMAIN queue /\ k - 1 \in DOMAIN queue /\ j # k - 1
        BY <1>1, <3>1, <3>2, <3>6
      <4> QED BY <4>1 DEF IInv, Distinct
    <3>7. CASE j = i
      BY <1>1, <1>2, <2>3, <2>4, <3>2, <3>3, <3>7
    <3>8. CASE i < j
      <4>1. queue'[j] = queue[j - 1] /\ queue'[k] = queue[k - 1]
            /\ j - 1 \in DOMAIN queue /\ k - 1 \in DOMAIN queue /\ j - 1 # k - 1
        BY <1>1, <3>2, <3>8
      <4> QED BY <4>1 DEF IInv, Distinct
    <3> QED BY <1>1, <3>4, <3>5, <3>6, <3>7, <3>8
  <2> QED BY <2>2, <2>5, <2>6, <2>7, <2>8 DEF IInv
<1> QED BY <1>3, <1>4, AddPlaces

\* Popping a prefix keeps the order of the rest.
LEMMA ShiftIInv ==
    ASSUME IInv, NEW n \in DOMAIN queue, Shift(n)
    PROVE  IInv'
<1>1. /\ queue' \in Seq(Timer)
      /\ Len(queue') = Len(queue) - n
      /\ n \in 1 .. Len(queue)
      /\ \A j \in 1 .. Len(queue) - n : queue'[j] = queue[j + n]
  BY ShiftProperties DEF IInv
<1>2. /\ Len(queue) \in Nat
      /\ DOMAIN queue = 1 .. Len(queue)
      /\ \A j \in 1 .. Len(queue) : queue[j] \in Timer
  BY QueueTyped DEF IInv
<1>3. DOMAIN queue' = 1 .. Len(queue) - n
  BY <1>1, <1>2, LenProperties
<1>4. \A j \in DOMAIN queue' : queue'[j] = queue[j + n] /\ j + n \in DOMAIN queue
  BY <1>1, <1>2, <1>3
<1>5. TypeOK'
  <2>1. {queue[j].id : j \in 1 .. n} \subseteq 1 .. MaxTimers
    BY <1>1, <1>2 DEF Timer
  <2> QED BY <1>1, <2>1 DEF IInv, TypeOK, Shift
<1>6. SortedFifo'
  <2> SUFFICES ASSUME NEW j \in DOMAIN queue', NEW k \in DOMAIN queue', j < k
               PROVE  \/ TimeGt(queue'[k].at, queue'[j].at)
                      \/ queue'[j].at = queue'[k].at /\ queue'[j].id < queue'[k].id
    BY DEF SortedFifo
  <2>1. j + n < k + n
    BY <1>1, <1>2, <1>3
  <2> QED BY <1>4, <2>1 DEF IInv, SortedFifo
<1>7. NaNAlone'
  BY <1>1, <1>2, <1>4 DEF IInv, NaNAlone
<1>8. IdsMade'
  BY <1>4 DEF IInv, IdsMade, Shift
<1>9. Distinct'
  <2> SUFFICES ASSUME NEW j \in DOMAIN queue', NEW k \in DOMAIN queue', j # k
               PROVE  queue'[j].id # queue'[k].id
    BY DEF Distinct
  <2>1. j + n # k + n
    BY <1>1, <1>2, <1>3
  <2> QED BY <1>4, <2>1 DEF IInv, Distinct
<1> QED BY <1>5, <1>6, <1>7, <1>8, <1>9 DEF IInv

\* Every step keeps the invariant.
LEMMA NextIInv == IInv /\ [Next]_vars => IInv'
<1> SUFFICES ASSUME IInv, [Next]_vars PROVE IInv'
  OBVIOUS
<1>1. ASSUME NEW ms \in Delays, Add(ms) PROVE IInv'
  BY <1>1, AddIInv
<1>2. CASE Fire
  BY <1>2, ShiftIInv DEF Fire
<1>3. CASE Drain
  <2>1. Len(queue) \in DOMAIN queue
    BY <1>3, EmptySeq, QueueTyped DEF Drain, IInv
  <2> QED BY <1>3, <2>1, ShiftIInv DEF Drain
<1>4. ASSUME NEW id \in 1 .. made, Cancel(id) PROVE IInv'
  <2>1. id \in 1 .. MaxTimers
    BY BoundsAssumption DEF IInv, TypeOK
  <2> QED BY <1>4, <2>1 DEF Cancel, IInv, TypeOK, SortedFifo, NaNAlone, IdsMade, Distinct
<1>5. CASE Shutdown
  BY <1>5 DEF Shutdown, IInv, TypeOK, SortedFifo, NaNAlone, IdsMade, Distinct
<1>6. CASE Tick
  BY <1>6, BoundsAssumption DEF Tick, IInv, TypeOK, SortedFifo, NaNAlone, IdsMade, Distinct
<1>7. CASE SetBack
  BY <1>7, BoundsAssumption DEF SetBack, IInv, TypeOK, SortedFifo, NaNAlone, IdsMade, Distinct
<1>8. CASE UNCHANGED vars
  BY <1>8 DEF vars, IInv, TypeOK, SortedFifo, NaNAlone, IdsMade, Distinct
<1> QED BY <1>1, <1>2, <1>3, <1>4, <1>5, <1>6, <1>7, <1>8 DEF Next

\* The invariant holds in every behaviour, NaN delays included.
THEOREM Invariance == Spec => []IInv
<1> QED BY InitIInv, NextIInv, PTL DEF Spec

\* timer_queue.js keeps its array ordered by fire time and, within one
\* instant, by the order of the calls of add(), whatever the delays.
THEOREM AlwaysSorted == Spec => []SortedFifo
<1>1. IInv => SortedFifo
  BY DEF IInv
<1> QED BY <1>1, Invariance, PTL

-----------------------------------------------------------------------------
\* What add() does to the set of timers: one more, the others as they were.
LEMMA PlacedRange ==
    ASSUME TypeOK, NEW i \in 1 .. Len(queue) + 1, NEW t, PlacedAt(i, t)
    PROVE  /\ {queue'[j] : j \in DOMAIN queue'} = {queue[j] : j \in DOMAIN queue} \cup {t}
           /\ Ids(queue)' = Ids(queue) \cup {t.id}
<1>1. Len(queue) \in Nat /\ DOMAIN queue = 1 .. Len(queue)
  BY QueueTyped
<1>2. DOMAIN queue' = 1 .. Len(queue) + 1
  BY <1>1, LenProperties DEF PlacedAt
<1>3. \A j \in DOMAIN queue' : queue'[j] = t \/ \E k \in DOMAIN queue : queue'[j] = queue[k]
  <2> SUFFICES ASSUME NEW j \in 1 .. Len(queue) + 1, j # i
               PROVE  \E k \in DOMAIN queue : queue'[j] = queue[k]
    BY <1>2 DEF PlacedAt
  <2>1. CASE j < i
    BY <1>1, <2>1 DEF PlacedAt
  <2>2. CASE j > i
    <3>1. queue'[j] = queue[j - 1] /\ j - 1 \in DOMAIN queue
      BY <1>1, <2>2 DEF PlacedAt
    <3> QED BY <3>1
  <2> QED BY <1>1, <2>1, <2>2
<1>4. \A k \in DOMAIN queue : \E j \in DOMAIN queue' : queue'[j] = queue[k]
  <2> SUFFICES ASSUME NEW k \in 1 .. Len(queue)
               PROVE  \E j \in 1 .. Len(queue) + 1 : queue'[j] = queue[k]
    BY <1>1, <1>2
  <2>1. CASE k < i
    BY <1>1, <2>1 DEF PlacedAt
  <2>2. CASE k >= i
    <3>1. k + 1 \in i + 1 .. Len(queue) + 1 /\ k + 1 \in 1 .. Len(queue) + 1 /\ (k + 1) - 1 = k
      BY <1>1, <2>2
    <3>2. queue'[k + 1] = queue[k]
      BY <3>1 DEF PlacedAt
    <3> QED BY <3>1, <3>2
  <2> QED BY <1>1, <2>1, <2>2
<1>5. i \in DOMAIN queue' /\ queue'[i] = t
  BY <1>2 DEF PlacedAt
<1> QED BY <1>3, <1>4, <1>5 DEF Ids

\* What shift() does: the popped prefix and the rest make up the array.
LEMMA ShiftRange ==
    ASSUME TypeOK, NEW n \in DOMAIN queue, Shift(n)
    PROVE  /\ {queue'[j] : j \in DOMAIN queue'} = {queue[j] : j \in n + 1 .. Len(queue)}
           /\ Ids(queue)' = {queue[j].id : j \in n + 1 .. Len(queue)}
<1>1. /\ queue' \in Seq(Timer)
      /\ Len(queue') = Len(queue) - n
      /\ n \in 1 .. Len(queue)
      /\ \A j \in 1 .. Len(queue) - n : queue'[j] = queue[j + n]
  BY ShiftProperties
<1>2. Len(queue) \in Nat /\ DOMAIN queue = 1 .. Len(queue)
  BY QueueTyped
<1>3. DOMAIN queue' = 1 .. Len(queue) - n
  BY <1>1, <1>2, LenProperties
<1>4. \A j \in 1 .. Len(queue) - n : j + n \in n + 1 .. Len(queue)
  BY <1>1, <1>2
<1>5. \A j \in n + 1 .. Len(queue) : j - n \in 1 .. Len(queue) - n /\ (j - n) + n = j
  BY <1>1, <1>2
<1>6. \A j \in n + 1 .. Len(queue) : queue'[j - n] = queue[j]
  BY <1>1, <1>5
<1>7. \A j \in DOMAIN queue' : \E k \in n + 1 .. Len(queue) : queue'[j] = queue[k]
  BY <1>1, <1>3, <1>4
<1>8. \A k \in n + 1 .. Len(queue) : \E j \in DOMAIN queue' : queue'[j] = queue[k]
  BY <1>3, <1>5, <1>6
<1> QED BY <1>7, <1>8 DEF Ids

\* Every timer that was made is in the array, has run or was cancelled.
LEMMA NextNoneLost == IInv /\ NoneLost /\ [Next]_vars => NoneLost'
<1> SUFFICES ASSUME IInv, NoneLost, [Next]_vars PROVE NoneLost'
  OBVIOUS
<1> USE DEF NoneLost
<1>1. ASSUME NEW ms \in Delays, Add(ms) PROVE NoneLost'
  <2>1. /\ made \in Nat /\ made' = made + 1 /\ ran' = ran /\ cancelled' = cancelled
        /\ ~thrown /\ NewTimer(ms).id = made + 1
        /\ ran \subseteq 1 .. MaxTimers
    BY <1>1, BoundsAssumption DEF Add, NewTimer, IInv, TypeOK
  <2>2. CASE thrown' = TRUE
    BY <2>2
  <2>3. ASSUME NEW i \in 1 .. Len(queue) + 1, PlacedAt(i, NewTimer(ms))
        PROVE  NoneLost'
    <3>1. Ids(queue)' = Ids(queue) \cup {made + 1}
      BY <2>1, <2>3, PlacedRange DEF IInv
    <3>2. ran \subseteq 1 .. made
      BY <2>1
    <3>3. 1 .. made' = 1 .. made \cup {made + 1} /\ made + 1 \notin 1 .. made
      BY <2>1
    <3>4. 1 .. made' = Ids(queue)' \cup ran' \cup (cancelled' \cap 1 .. made')
      BY <2>1, <3>1, <3>3
    <3>5. Ids(queue)' \cap ran' = {}
      BY <2>1, <3>1, <3>2, <3>3
    <3> QED BY <3>4, <3>5
  <2> QED BY <1>1, <2>2, <2>3, AddPlaces
<1>2. ASSUME NEW n \in DOMAIN queue, Shift(n), ~thrown PROVE NoneLost'
  <2>1. Len(queue) \in Nat /\ DOMAIN queue = 1 .. Len(queue)
    BY QueueTyped DEF IInv
  <2>2. n \in 1 .. Len(queue)
    BY <2>1
  <2> DEFINE popped == {queue[j].id : j \in 1 .. n}
             rest == {queue[j].id : j \in n + 1 .. Len(queue)}
  <2>3. Ids(queue)' = rest
    BY <1>2, ShiftRange DEF IInv
  <2>4. Ids(queue) = popped \cup rest
    <3>1. \A j \in 1 .. Len(queue) : j \in 1 .. n \/ j \in n + 1 .. Len(queue)
      BY <2>1, <2>2
    <3>2. 1 .. n \subseteq 1 .. Len(queue) /\ n + 1 .. Len(queue) \subseteq 1 .. Len(queue)
      BY <2>1, <2>2
    <3> QED BY <2>1, <3>1, <3>2 DEF Ids
  <2>5. popped \cap rest = {}
    <3> SUFFICES ASSUME NEW j \in 1 .. n, NEW k \in n + 1 .. Len(queue),
                        queue[j].id = queue[k].id
                 PROVE  FALSE
      OBVIOUS
    <3>1. j \in DOMAIN queue /\ k \in DOMAIN queue /\ j # k
      BY <2>1, <2>2
    <3> QED BY <3>1 DEF IInv, Distinct
  <2>6. ran' = ran \cup (popped \ cancelled) /\ made' = made /\ cancelled' = cancelled
    BY <1>2 DEF Shift
  <2>7. popped \subseteq 1 .. made
    BY <1>2, <2>4
  <2> HIDE DEF popped, rest
  <2>8. 1 .. made = (rest \cup (ran \cup (popped \ cancelled))) \cup (cancelled \cap 1 .. made)
    BY <1>2, <2>4, <2>7
  <2>9. rest \cap (ran \cup (popped \ cancelled)) = {}
    BY <1>2, <2>4, <2>5
  <2> QED BY <2>3, <2>6, <2>8, <2>9
<1>3. CASE Fire
  BY <1>2, <1>3 DEF Fire
<1>4. CASE Drain
  <2>1. Len(queue) \in DOMAIN queue
    BY <1>4, EmptySeq, QueueTyped DEF Drain, IInv
  <2> QED BY <1>2, <1>4, <2>1 DEF Drain
<1>5. ASSUME NEW id \in 1 .. made, Cancel(id) PROVE NoneLost'
  BY <1>5 DEF Cancel, Ids
<1>6. CASE Shutdown
  BY <1>6 DEF Shutdown, Ids
<1>7. CASE Tick
  BY <1>7 DEF Tick, Ids
<1>8. CASE SetBack
  BY <1>8 DEF SetBack, Ids
<1>9. CASE UNCHANGED vars
  BY <1>9 DEF vars, Ids
<1> QED BY <1>1, <1>3, <1>4, <1>5, <1>6, <1>7, <1>8, <1>9 DEF Next

\* No deferred mail is forgotten by the timer queue, or retried by it twice.
THEOREM NoTimerLost == Spec => []NoneLost
<1>1. Init => NoneLost
  BY DEF Init, NoneLost, Ids
<1> QED BY <1>1, Invariance, NextNoneLost, PTL DEF Spec

-----------------------------------------------------------------------------
\* In a sorted array the due timers are a prefix, so popping the due prefix
\* ends all the timers that are due.
LEMMA PrefixIsDue ==
    ASSUME IInv, NEW n \in DOMAIN queue,
           \A i \in 1 .. n : TimeLeq(queue[i].at, now),
           n < Len(queue) => ~TimeLeq(queue[n + 1].at, now)
    PROVE  {t \in {queue[i] : i \in DOMAIN queue} : t.at # NaN /\ t.at <= now} = {queue[i] : i \in 1 .. n}
<1>0. Len(queue) \in Nat /\ DOMAIN queue = 1 .. Len(queue) /\ n \in 1 .. Len(queue)
      /\ \A j \in 1 .. Len(queue) : queue[j].at \in Nat \cup {NaN}
  BY QueueTyped DEF IInv
<1>1. \A j \in 1 .. Len(queue) : queue[j].at \in Nat
  <2>1. CASE Len(queue) > 1
    BY <1>0, <2>1 DEF IInv, NaNAlone
  <2>2. CASE Len(queue) = 1
    BY <1>0, <2>2 DEF TimeLeq
  <2> QED BY <1>0, <2>1, <2>2
<1>2. \A i \in 1 .. n : queue[i].at # NaN /\ queue[i].at <= now /\ i \in DOMAIN queue
  BY <1>0 DEF TimeLeq
<1>3. ASSUME NEW j \in n + 1 .. Len(queue)
      PROVE  ~(queue[j].at <= now)
  <2>1. ~(queue[n + 1].at <= now) /\ n + 1 \in DOMAIN queue /\ j \in DOMAIN queue
    BY <1>0, <1>1, NaNAssumption DEF TimeLeq, IInv, TypeOK
  <2>2. n + 1 = j \/ queue[n + 1].at = queue[j].at \/ TimeGt(queue[j].at, queue[n + 1].at)
    BY <1>0, <2>1 DEF IInv, SortedFifo
  <2>3. now \in Int
    BY BoundsAssumption DEF IInv, TypeOK
  <2> QED BY <1>0, <1>1, <2>1, <2>2, <2>3 DEF TimeGt
<1>4. \A j \in DOMAIN queue : j \in 1 .. n \/ j \in n + 1 .. Len(queue)
  BY <1>0
<1> QED BY <1>2, <1>3, <1>4

\* Popping n timers takes exactly them from the set of timers.
LEMMA ShiftEnds ==
    ASSUME IInv, NEW n \in DOMAIN queue, Shift(n)
    PROVE  Service!End({queue[i] : i \in 1 .. n})
<1> DEFINE popped == {queue[i] : i \in 1 .. n}
           rest == {queue[i] : i \in n + 1 .. Len(queue)}
           all == {queue[i] : i \in DOMAIN queue}
<1>1. Len(queue) \in Nat /\ DOMAIN queue = 1 .. Len(queue) /\ n \in 1 .. Len(queue)
  BY QueueTyped DEF IInv
<1>2. {queue'[j] : j \in DOMAIN queue'} = rest
  BY ShiftRange DEF IInv
<1>3. \A j \in DOMAIN queue : j \in 1 .. n \/ j \in n + 1 .. Len(queue)
  BY <1>1
<1>4. 1 .. n \subseteq DOMAIN queue /\ n + 1 .. Len(queue) \subseteq DOMAIN queue
  BY <1>1
<1>5. all = popped \cup rest
  BY <1>3, <1>4
<1>6. \A i \in 1 .. n, j \in n + 1 .. Len(queue) : queue[i] # queue[j]
  <2> SUFFICES ASSUME NEW i \in 1 .. n, NEW j \in n + 1 .. Len(queue)
               PROVE  queue[i].id # queue[j].id
    OBVIOUS
  <2> QED BY <1>1, <1>4 DEF IInv, Distinct
<1>7. rest = all \ popped
  BY <1>5, <1>6
<1>8. Service!Ids(popped) = {queue[i].id : i \in 1 .. n}
  BY DEF Service!Ids
<1> QED BY <1>2, <1>7, <1>8 DEF Service!End, Shift

\* When neither of add()'s two places is found, the timers cannot be compared:
\* numbers always can, so one of the two has no time.
LEMMA ThrowRefuses ==
    ASSUME IInv, NEW ms \in Delays, Add(ms), Throw(NewTimer(ms))
    PROVE  Service!Refuse(ms)
<1> DEFINE last == Len(queue)
<1>1. last \in Nat /\ DOMAIN queue = 1 .. last
      /\ \A j \in 1 .. last : queue[j].at \in Nat \cup {NaN}
  BY QueueTyped DEF IInv
<1>2. queue # <<>> /\ last \in DOMAIN queue
  BY <1>1, EmptySeq DEF Throw, Pushable, IInv, TypeOK
<1>3. ~TimeLeq(queue[last].at, FireTime(ms)) /\ ~TimeGt(queue[last].at, FireTime(ms))
  BY <1>2 DEF Throw, Pushable, NewTimer
<1>4. ms # NaN => FireTime(ms) \in Nat /\ FireTime(ms) # NaN
  BY DelaysAssumption, NaNAssumption, BoundsAssumption DEF FireTime, IInv, TypeOK
<1>5. ms # NaN => queue[last].at = NaN
  BY <1>1, <1>2, <1>3, <1>4, NaNAssumption DEF TimeLeq, TimeGt
<1>6. {queue'[i] : i \in DOMAIN queue'} = {queue[i] : i \in DOMAIN queue}
  BY DEF Throw
<1> QED BY <1>2, <1>5, <1>6 DEF Add, Service!Refuse

\* Every step of the array is a step of the set of timers.
LEMMA NextService ==
    ASSUME IInv, [Next]_vars
    PROVE  [Service!Next]_Service!vars
<1> USE DEF Service!vars
<1>1. ASSUME NEW ms \in Delays, Add(ms) PROVE Service!Schedule(ms) \/ Service!Refuse(ms)
  <2>1. CASE Throw(NewTimer(ms))
    BY <1>1, <2>1, ThrowRefuses
  <2>2. CASE ~Throw(NewTimer(ms))
    <3>1. thrown' = thrown /\ ~thrown
      BY <1>1, <2>2 DEF Add, Push, Splice, NewTimer
    <3>2. PICK i \in 1 .. Len(queue) + 1 : PlacedAt(i, NewTimer(ms))
      BY <1>1, <3>1, AddPlaces
    <3>3. {queue'[j] : j \in DOMAIN queue'} = {queue[j] : j \in DOMAIN queue} \cup {NewTimer(ms)}
      BY <3>2, PlacedRange DEF IInv
    <3>4. NewTimer(ms) = [id |-> made + 1, at |-> IF ms = NaN THEN NaN ELSE now + ms]
      BY DEF NewTimer, FireTime
    <3> QED BY <1>1, <3>3, <3>4 DEF Add, Service!Schedule
  <2> QED BY <2>1, <2>2
<1>2. CASE Fire
  <2>1. PICK n \in DOMAIN queue :
              /\ \A i \in 1 .. n : TimeLeq(queue[i].at, now)
              /\ n < Len(queue) => ~TimeLeq(queue[n + 1].at, now)
              /\ Shift(n)
    BY <1>2 DEF Fire
  <2>2. {t \in {queue[i] : i \in DOMAIN queue} : t.at # NaN /\ t.at <= now} = {queue[i] : i \in 1 .. n}
    BY <2>1, PrefixIsDue
  <2>3. Service!End({queue[i] : i \in 1 .. n})
    BY <2>1, ShiftEnds
  <2>4. Service!End({t \in {queue[i] : i \in DOMAIN queue} : t.at # NaN /\ t.at <= now})
    BY <2>2, <2>3 DEF Service!End
  <2>5. Service!Sweep
    BY <1>2, <2>4 DEF Service!Sweep, Fire
  <2> QED BY <2>5 DEF Service!Next
<1>3. CASE Drain
  <2>1. Len(queue) \in DOMAIN queue /\ DOMAIN queue = 1 .. Len(queue)
    BY <1>3, EmptySeq, QueueTyped DEF Drain, IInv
  <2>2. PICK n \in DOMAIN queue : n = Len(queue) /\ Shift(n)
    BY <1>3, <2>1 DEF Drain
  <2>3. Service!End({queue[i] : i \in 1 .. n})
    BY <2>2, ShiftEnds
  <2>4. {queue[i] : i \in 1 .. n} = {queue[i] : i \in DOMAIN queue}
    BY <2>1, <2>2
  <2>5. Service!Flush
    BY <2>3, <2>4 DEF Service!Flush, Service!End
  <2> QED BY <2>5 DEF Service!Next
<1>4. ASSUME NEW id \in 1 .. made, Cancel(id) PROVE Service!Cancel(id)
  BY <1>4 DEF Cancel, Service!Cancel
<1>5. CASE Shutdown
  BY <1>5 DEF Shutdown, Service!Stop, Service!Next
<1>6. CASE Tick
  <2>1. now' \in 0 .. MaxTime
    BY <1>6, BoundsAssumption DEF Tick, IInv, TypeOK
  <2> QED BY <1>6, <2>1 DEF Tick, Service!Clock, Service!Next
<1>7. CASE SetBack
  <2>1. now' \in 0 .. MaxTime
    BY <1>7, BoundsAssumption DEF SetBack, IInv, TypeOK
  <2> QED BY <1>7, <2>1 DEF SetBack, Service!Clock, Service!Next
<1>8. CASE UNCHANGED vars
  BY <1>8 DEF vars
<1> QED BY <1>1, <1>2, <1>3, <1>4, <1>5, <1>6, <1>7, <1>8 DEF Next, Service!Next

\* The array of timer_queue.js implements the set of timers that outbound.js
\* counts on, whatever the delays: each sweep ends every timer that is due and
\* no other one, and a timer is refused only for a delay that is NaN.
THEOREM ArrayImplementsService == Spec => ImplementsService
<1>1. Init => Service!Init
  BY DEF Init, Service!Init
<1>2. IInv /\ [Next]_vars => [Service!Next]_Service!vars
  BY NextService
<1> QED BY <1>1, <1>2, Invariance, PTL DEF Spec, ImplementsService, Service!Spec

=============================================================================
