--------------------------- MODULE SendQueue_proofs ---------------------------
(***************************************************************************)
(* Proofs about the send queue, for any number of senders and messages:    *)
(* the order and the conservation of what each sender sends, and that the  *)
(* consumer waits only where a send wakes it or an empty message holds it. *)
(***************************************************************************)
EXTENDS SendQueue, SequenceTheorems, TLAPS

\* SenderOrder of a line l of messages, when snt[i] messages of i were sent.
InOrder(l, snt) ==
  /\ \A j, k \in DOMAIN l : j < k /\ l[j].from = l[k].from => l[j].n < l[k].n
  /\ \A i \in Sender : \A n \in 1 .. MaxSend :
       n <= snt[i] <=> \E k \in DOMAIN l : l[k].from = i /\ l[k].n = n

\* The head of one sequence moves to the end of the one before it: nothing changes.
LEMMA Shift ==
  ASSUME NEW S, NEW a \in Seq(S), NEW b \in Seq(S), b # <<>>
  PROVE  /\ Append(a, Head(b)) \o Tail(b) = a \o b
         /\ Append(a, Head(b)) \in Seq(S)
         /\ Tail(b) \in Seq(S)
<1>1. /\ Head(b) \in S /\ Tail(b) \in Seq(S) /\ Len(Tail(b)) = Len(b) - 1
      /\ \A i \in 1 .. Len(Tail(b)) : Tail(b)[i] = b[i + 1]
      /\ Head(b) = b[1] /\ Len(b) \in Nat \ {0} /\ Len(a) \in Nat
  BY HeadTailProperties, EmptySeq, LenProperties
<1> DEFINE x == Append(a, Head(b))
           l == x \o Tail(b)
           r == a \o b
<1>2. /\ x \in Seq(S) /\ Len(x) = Len(a) + 1
      /\ \A i \in 1 .. Len(a) : x[i] = a[i]
      /\ x[Len(a) + 1] = Head(b)
  BY <1>1, AppendProperties
<1>3. /\ l \in Seq(S) /\ Len(l) = Len(x) + Len(Tail(b))
      /\ \A i \in 1 .. Len(x) + Len(Tail(b)) :
           l[i] = IF i <= Len(x) THEN x[i] ELSE Tail(b)[i - Len(x)]
  BY <1>1, <1>2, ConcatProperties
<1>4. /\ r \in Seq(S) /\ Len(r) = Len(a) + Len(b)
      /\ \A i \in 1 .. Len(a) + Len(b) : r[i] = IF i <= Len(a) THEN a[i] ELSE b[i - Len(a)]
  BY ConcatProperties
<1>5. Len(l) = Len(r)
  BY <1>1, <1>2, <1>3, <1>4
<1>6. ASSUME NEW i \in 1 .. Len(l) PROVE l[i] = r[i]
  <2> HIDE DEF x, l, r
  <2>1. CASE i <= Len(a)
    <3>1. i \in 1 .. Len(a) /\ i \in 1 .. Len(a) + Len(b) /\ i <= Len(x)
            /\ i \in 1 .. Len(x) + Len(Tail(b))
      BY <1>1, <1>2, <1>3, <2>1
    <3>2. l[i] = x[i] /\ r[i] = a[i]
      BY <1>3, <1>4, <2>1, <3>1
    <3>3. QED
      BY <1>2, <3>1, <3>2
  <2>2. CASE i = Len(a) + 1
    BY <1>1, <1>2, <1>3, <1>4, <2>2
  <2>3. CASE i > Len(a) + 1
    <3>1. l[i] = Tail(b)[i - (Len(a) + 1)] /\ i - (Len(a) + 1) \in 1 .. Len(Tail(b))
      BY <1>1, <1>2, <1>3, <2>3
    <3>2. Tail(b)[i - (Len(a) + 1)] = b[(i - (Len(a) + 1)) + 1]
      BY <1>1, <3>1
    <3>3. r[i] = b[i - Len(a)]
      BY <1>1, <1>2, <1>3, <1>4, <2>3
    <3>4. (i - (Len(a) + 1)) + 1 = i - Len(a)
      BY <1>1, <1>3
    <3>5. QED
      BY <3>1, <3>2, <3>3, <3>4
  <2>4. QED
    BY <1>1, <1>2, <1>3, <2>1, <2>2, <2>3
<1>7. l = r
  <2> HIDE DEF l, r
  <2> QED BY <1>3, <1>4, <1>5, <1>6, SeqEqual
<1>8. QED
  BY <1>1, <1>2, <1>7

\* The next message of a sender enters the line where no message of his follows.
LEMMA Grow ==
  ASSUME NEW a \in Seq(Message), NEW b \in Seq(Message), NEW m \in Message,
         NEW snt \in [Sender -> 0 .. MaxSend],
         InOrder(a \o b, snt),
         m.n = snt[m.from] + 1,
         \A k \in DOMAIN b : b[k].from # m.from
  PROVE  InOrder(Append(a, m) \o b, [snt EXCEPT ![m.from] = @ + 1])
<1> DEFINE l == a \o b
           x == Append(a, m)
           r == x \o b
           new == [snt EXCEPT ![m.from] = @ + 1]
           f(k) == IF k <= Len(a) THEN k ELSE k - 1
           g(k) == IF k <= Len(a) THEN k ELSE k + 1
<1>0. Len(a) \in Nat /\ Len(b) \in Nat /\ DOMAIN b = 1 .. Len(b) /\ MaxSend \in Nat
  BY LenProperties, QueueAssumption
<1>1. /\ l \in Seq(Message) /\ DOMAIN l = 1 .. Len(a) + Len(b)
      /\ \A i \in DOMAIN l : l[i] = IF i <= Len(a) THEN a[i] ELSE b[i - Len(a)]
  BY ConcatProperties, LenProperties
<1>2. /\ x \in Seq(Message) /\ Len(x) = Len(a) + 1
      /\ \A i \in 1 .. Len(a) : x[i] = a[i]
      /\ x[Len(a) + 1] = m
  BY AppendProperties
<1>3. /\ r \in Seq(Message) /\ DOMAIN r = 1 .. Len(a) + 1 + Len(b)
      /\ \A i \in DOMAIN r : r[i] = IF i <= Len(x) THEN x[i] ELSE b[i - Len(x)]
  BY <1>2, ConcatProperties, LenProperties
<1>4. InOrder(l, snt)
  OBVIOUS
<1> HIDE DEF l, x, r
<1>5. r[Len(a) + 1] = m /\ Len(a) + 1 \in DOMAIN r
  <2>1. Len(a) + 1 \in DOMAIN r /\ Len(a) + 1 <= Len(x)
    BY <1>0, <1>2, <1>3
  <2>2. r[Len(a) + 1] = x[Len(a) + 1]
    BY <1>3, <2>1
  <2>3. QED
    BY <1>2, <2>1, <2>2
<1>6. ASSUME NEW k \in DOMAIN r, k # Len(a) + 1
      PROVE  f(k) \in DOMAIN l /\ r[k] = l[f(k)]
  <2>1. CASE k <= Len(a)
    <3>1. k \in 1 .. Len(a) /\ k \in DOMAIN l /\ k <= Len(x)
      BY <1>0, <1>1, <1>2, <1>3, <2>1
    <3>2. r[k] = x[k]
      BY <1>3, <3>1
    <3>3. x[k] = a[k] /\ l[k] = a[k]
      BY <1>1, <1>2, <2>1, <3>1
    <3>4. QED
      BY <2>1, <3>1, <3>2, <3>3
  <2>2. CASE k > Len(a) + 1
    <3>1. r[k] = b[k - (Len(a) + 1)]
      BY <1>0, <1>2, <1>3, <2>2
    <3>2. f(k) = k - 1 /\ f(k) \in DOMAIN l /\ l[k - 1] = b[(k - 1) - Len(a)]
      BY <1>0, <1>1, <1>3, <2>2
    <3>3. (k - 1) - Len(a) = k - (Len(a) + 1)
      BY <1>0, <1>3
    <3>4. QED
      BY <3>1, <3>2, <3>3
  <2>3. QED
    BY <1>0, <1>3, <1>6, <2>1, <2>2
<1>7. ASSUME NEW k \in DOMAIN l
      PROVE  g(k) \in DOMAIN r /\ g(k) # Len(a) + 1 /\ f(g(k)) = k
  BY <1>0, <1>1, <1>3
<1>8. \A k \in DOMAIN l : l[k] \in Message
  BY <1>1, ElementOfSeq, LenProperties
<1>9. \A k \in DOMAIN l : l[k].from = m.from => l[k].n <= snt[m.from]
  <2>1. m.from \in Sender
    BY DEF Message
  <2>2. \A k \in DOMAIN l : l[k].n \in 1 .. MaxSend
    BY <1>8 DEF Message
  <2>3. QED
    BY <1>4, <2>1, <2>2 DEF InOrder
<1>10. ASSUME NEW j \in DOMAIN r, NEW k \in DOMAIN r, j < k, r[j].from = r[k].from
       PROVE  r[j].n < r[k].n
  <2>1. CASE j = Len(a) + 1
    <3>1. k > Len(a) + 1 /\ k - (Len(a) + 1) \in DOMAIN b
      BY <1>0, <1>3, <1>10, <2>1
    <3>2. r[k] = b[k - (Len(a) + 1)]
      BY <1>0, <1>2, <1>3, <3>1
    <3>3. QED
      BY <1>5, <1>10, <2>1, <3>1, <3>2
  <2>2. CASE k = Len(a) + 1
    <3>1. f(j) \in DOMAIN l /\ r[j] = l[f(j)]
      BY <1>0, <1>3, <1>6, <1>10, <2>2
    <3>2. l[f(j)].n <= snt[m.from] /\ l[f(j)].n \in 1 .. MaxSend
      BY <1>5, <1>8, <1>9, <1>10, <2>2, <3>1 DEF Message
    <3>3. snt[m.from] \in 0 .. MaxSend
      BY DEF Message
    <3>4. QED
      BY <1>0, <1>5, <2>2, <3>1, <3>2, <3>3
  <2>3. CASE j # Len(a) + 1 /\ k # Len(a) + 1
    <3>1. f(j) \in DOMAIN l /\ r[j] = l[f(j)] /\ f(k) \in DOMAIN l /\ r[k] = l[f(k)]
      BY <1>6, <2>3
    <3>2. f(j) < f(k)
      BY <1>0, <1>3, <1>10, <2>3
    <3>3. QED
      BY <1>4, <1>10, <3>1, <3>2 DEF InOrder
  <2>4. QED
    BY <2>1, <2>2, <2>3
<1>11. ASSUME NEW i \in Sender, NEW n \in 1 .. MaxSend
       PROVE  n <= new[i] <=> \E k \in DOMAIN r : r[k].from = i /\ r[k].n = n
  <2>1. n <= snt[i] <=> \E k \in DOMAIN l : l[k].from = i /\ l[k].n = n
    BY <1>4 DEF InOrder
  <2>2. n <= new[i] <=> n <= snt[i] \/ (i = m.from /\ n = m.n)
    <3>1. snt[i] \in Int /\ m.from \in Sender
      BY <1>0 DEF Message
    <3>2. CASE i = m.from
      BY <1>0, <3>1, <3>2
    <3>3. CASE i # m.from
      BY <1>0, <3>1, <3>3
    <3>4. QED
      BY <3>2, <3>3
  <2>3. (\E k \in DOMAIN l : l[k].from = i /\ l[k].n = n)
          => \E k \in DOMAIN r : r[k].from = i /\ r[k].n = n
    <3>1. SUFFICES ASSUME NEW k \in DOMAIN l, l[k].from = i, l[k].n = n
                   PROVE  \E q \in DOMAIN r : r[q].from = i /\ r[q].n = n
      OBVIOUS
    <3>2. g(k) \in DOMAIN r /\ g(k) # Len(a) + 1 /\ f(g(k)) = k
      BY <1>7
    <3>3. r[g(k)] = l[k]
      BY <1>6, <3>2
    <3>4. QED
      BY <3>1, <3>2, <3>3
  <2>4. ASSUME NEW k \in DOMAIN r, r[k].from = i, r[k].n = n
        PROVE  (i = m.from /\ n = m.n) \/ \E q \in DOMAIN l : l[q].from = i /\ l[q].n = n
    <3>1. CASE k = Len(a) + 1
      BY <1>5, <2>4, <3>1
    <3>2. CASE k # Len(a) + 1
      BY <1>6, <2>4, <3>2
    <3>3. QED
      BY <3>1, <3>2
  <2>5. QED
    BY <1>5, <2>1, <2>2, <2>3, <2>4
<1>12. InOrder(r, new)
  BY <1>10, <1>11 DEF InOrder
<1>13. QED
  BY <1>12 DEF r, x

-----------------------------------------------------------------------------
LEMMA OrderIs == SenderOrder <=> InOrder(Line, sent)
BY DEF SenderOrder, InOrder

\* The types are inductive with the fact that send_t writes from a queue that is
\* not empty.
LEMMA QueueTypeNext ==
  ASSUME QueueTypeOK, send_t \in {"writing", "writeOver"} => queue # <<>>,
         [QueueNext]_queueVars
  PROVE  QueueTypeOK'
<1> USE DEF QueueTypeOK
<1>0. posted \in Seq(Message) /\ queue \in Seq(Message) /\ wire \in Seq(Message)
  OBVIOUS
<1>1. ASSUME NEW i \in Sender, NEW empty \in BOOLEAN, Send(i, empty)
      PROVE  QueueTypeOK'
  <2> DEFINE m == [from |-> i, n |-> sent[i] + 1, empty |-> empty]
  <2>1. m \in Message /\ sent[i] + 1 \in 0 .. MaxSend
    BY <1>1, QueueAssumption DEF Send, Message
  <2>2. sent' \in [Sender -> 0 .. MaxSend] /\ UNCHANGED <<started, is_canceled, wire>>
    BY <1>1, <2>1 DEF Send
  <2>3. \/ queue' = Append(queue, m) /\ UNCHANGED posted /\ send_t' \in Loc
        \/ posted' = Append(posted, m) /\ UNCHANGED <<queue, send_t>>
    BY <1>1 DEF Send, Push, Loc
  <2> HIDE DEF m
  <2>6. Append(queue, m) \in Seq(Message) /\ Append(posted, m) \in Seq(Message)
    BY <1>0, <2>1, AppendProperties
  <2>4. queue' \in Seq(Message) /\ posted' \in Seq(Message)
    BY <1>0, <2>3, <2>6
  <2>5. QED
    BY <1>0, <2>2, <2>3, <2>4
<1>2. CASE RunPosted
  <2>1. Head(posted) \in Message /\ Tail(posted) \in Seq(Message)
    BY <1>0, <1>2, HeadTailProperties DEF RunPosted
  <2>2. Append(queue, Head(posted)) \in Seq(Message)
    BY <1>0, <2>1, AppendProperties
  <2>3. send_t' \in Loc
    BY <1>2 DEF RunPosted, Push, Loc
  <2>4. QED
    BY <1>0, <1>2, <2>1, <2>2, <2>3 DEF RunPosted, Push
<1>3. CASE Loop
  BY <1>3 DEF Loop, Dequeue, Loc
<1>4. CASE Written
  <2>1. Head(queue) \in Message /\ Tail(queue) \in Seq(Message)
    BY <1>0, <1>4, HeadTailProperties DEF Written
  <2>2. Append(wire, Head(queue)) \in Seq(Message)
    BY <1>0, <2>1, AppendProperties
  <2>3. send_t' \in Loc
    BY <1>4 DEF Written, Dequeue, Loc
  <2>4. QED
    BY <1>0, <1>4, <2>1, <2>2, <2>3 DEF Written
<1>5. CASE WriteFails
  BY <1>5 DEF WriteFails, Loc
<1>6. CASE Stop
  BY <1>6 DEF Stop, Teardown, Loc
<1>7. CASE UNCHANGED queueVars
  BY <1>7 DEF queueVars
<1>8. QED
  BY <1>1, <1>2, <1>3, <1>4, <1>5, <1>6, <1>7 DEF QueueNext

\* What send_t, the flag and the strand say of each other.
ControlInv ==
  /\ WaitsForASend
  /\ is_canceled = ~ started
  /\ \A k \in DOMAIN posted : posted[k].from # Owner
  /\ send_t \in {"writing", "writeOver"} => queue # <<>>

LEMMA ControlNext ==
  ASSUME QueueTypeOK, ControlInv, [QueueNext]_queueVars
  PROVE  ControlInv'
<1> USE DEF QueueTypeOK, ControlInv, WaitsForASend
<1>0. posted \in Seq(Message) /\ queue \in Seq(Message) /\ wire \in Seq(Message)
  OBVIOUS
<1>1. ASSUME NEW i \in Sender, NEW empty \in BOOLEAN, Send(i, empty)
      PROVE  ControlInv'
  <2> DEFINE m == [from |-> i, n |-> sent[i] + 1, empty |-> empty]
  <2>1. m \in Message
    BY <1>1, QueueAssumption DEF Send, Message
  <2>2. m.from = i
    OBVIOUS
  <2>3. UNCHANGED <<started, is_canceled>>
    BY <1>1 DEF Send
  <2>4. CASE i = Owner
    <3>1. queue' = Append(queue, m) /\ UNCHANGED posted
            /\ send_t' = IF send_t = "timer" THEN "woken" ELSE send_t
      BY <1>1, <2>4 DEF Send, Push
    <3> HIDE DEF m
    <3>2. queue' # <<>>
      BY <1>0, <2>1, <3>1, AppendProperties
    <3>3. send_t' # "timer"
      BY <3>1
    <3>4. QED
      BY <2>3, <3>1, <3>2, <3>3
  <2>5. CASE i # Owner
    <3>1. posted' = Append(posted, m) /\ UNCHANGED <<queue, send_t>>
      BY <1>1, <2>5 DEF Send
    <3> HIDE DEF m
    <3>2. \A k \in DOMAIN posted' : posted'[k].from # Owner
      BY <1>0, <2>1, <2>2, <2>5, <3>1, AppendProperties, LenProperties
    <3>3. QED
      BY <2>3, <3>1, <3>2
  <2>6. QED
    BY <2>4, <2>5
<1>2. CASE RunPosted
  <2>1. Head(posted) \in Message /\ posted # <<>>
    BY <1>0, <1>2, HeadTailProperties DEF RunPosted
  <2>2. queue' # <<>> /\ send_t' # "timer" /\ UNCHANGED <<started, is_canceled>>
    BY <1>0, <1>2, <2>1, AppendProperties DEF RunPosted, Push
  <2>3. \A k \in DOMAIN posted' : posted'[k].from # Owner
    <3>1. posted' = Tail(posted)
      BY <1>2 DEF RunPosted
    <3>2. \A k \in DOMAIN Tail(posted) :
            k + 1 \in DOMAIN posted /\ Tail(posted)[k] = posted[k + 1]
      BY <1>0, <2>1, HeadTailProperties, LenProperties
    <3>3. QED
      BY <3>1, <3>2
  <2>4. QED
    BY <2>2, <2>3
<1>3. CASE Loop
  BY <1>3 DEF Loop, Dequeue
<1>4. CASE Written
  <2>1. CASE Head(queue).empty
    BY <1>4, <2>1 DEF Written
  <2>2. CASE ~ Head(queue).empty
    BY <1>4, <2>2 DEF Written, Dequeue
  <2>3. QED
    BY <2>1, <2>2
<1>5. CASE WriteFails
  BY <1>5 DEF WriteFails
<1>6. CASE Stop
  BY <1>6 DEF Stop, Teardown
<1>7. CASE UNCHANGED queueVars
  BY <1>7 DEF queueVars
<1>8. QED
  BY <1>1, <1>2, <1>3, <1>4, <1>5, <1>6, <1>7 DEF QueueNext

\* Sending lengthens the line, the strand and the writes only move along it.
LEMMA OrderNext ==
  ASSUME QueueTypeOK, ControlInv, InOrder(Line, sent), [QueueNext]_queueVars
  PROVE  InOrder(Line', sent')
<1>0. /\ posted \in Seq(Message) /\ queue \in Seq(Message) /\ wire \in Seq(Message)
      /\ sent \in [Sender -> 0 .. MaxSend]
      /\ wire \o queue \in Seq(Message)
  BY ConcatProperties DEF QueueTypeOK
<1>a. ASSUME UNCHANGED <<wire, queue, posted, sent>>
      PROVE  InOrder(Line', sent')
  BY <1>a DEF Line
<1>1. ASSUME NEW i \in Sender, NEW empty \in BOOLEAN, Send(i, empty)
      PROVE  InOrder(Line', sent')
  <2> DEFINE m == [from |-> i, n |-> sent[i] + 1, empty |-> empty]
  <2>1. m \in Message
    BY <1>0, <1>1, QueueAssumption DEF Send, Message
  <2>2. m.from = i /\ m.n = sent[m.from] + 1
    OBVIOUS
  <2>3. wire' = wire /\ sent' = [sent EXCEPT ![m.from] = @ + 1]
    BY <1>1, <2>2 DEF Send
  <2>4. CASE i = Owner
    <3>1. queue' = Append(queue, m) /\ posted' = posted
      BY <1>1, <2>4 DEF Send, Push
    <3>2. \A k \in DOMAIN posted : posted[k].from # m.from
      BY <2>2, <2>4 DEF ControlInv
    <3> HIDE DEF m
    <3>3. InOrder(Append(wire \o queue, m) \o posted, sent')
      BY <1>0, <2>1, <2>2, <2>3, <3>2, Grow DEF Line
    <3>4. wire \o Append(queue, m) = Append(wire \o queue, m)
      <4>1. <<m>> \in Seq(Message)
        BY <2>1
      <4>2. (wire \o queue) \o <<m>> = wire \o (queue \o <<m>>)
        BY <1>0, <4>1, ConcatAssociative
      <4>3. QED
        BY <1>0, <2>1, <4>2, AppendIsConcat
    <3>5. QED
      BY <2>3, <3>1, <3>3, <3>4 DEF Line
  <2>5. CASE i # Owner
    <3>1. posted' = Append(posted, m) /\ queue' = queue
      BY <1>1, <2>5 DEF Send
    <3> HIDE DEF m
    <3>2. Line \in Seq(Message) /\ <<m>> \in Seq(Message)
      BY <1>0, <2>1, ConcatProperties DEF Line
    <3>3. Line \o <<>> = Line /\ Append(Line, m) \o <<>> = Append(Line, m)
      BY <2>1, <3>2, AppendProperties, ConcatEmptySeq
    <3>4. InOrder(Append(Line, m), sent')
      <4>1. <<>> \in Seq(Message) /\ DOMAIN <<>> = {}
        BY EmptySeq
      <4>2. InOrder(Line \o <<>>, sent)
        BY <3>3
      <4>3. InOrder(Append(Line, m) \o <<>>, sent')
        BY <1>0, <2>1, <2>2, <2>3, <3>2, <4>1, <4>2, Grow
      <4>4. QED
        BY <3>3, <4>3
    <3>5. (wire \o queue) \o Append(posted, m) = Append(Line, m)
      <4> DEFINE wq == wire \o queue
      <4>3. wq \in Seq(Message)
        BY <1>0
      <4> HIDE DEF wq
      <4>4. (wq \o posted) \o <<m>> = wq \o (posted \o <<m>>)
        BY <1>0, <3>2, <4>3, ConcatAssociative
      <4>1. ((wire \o queue) \o posted) \o <<m>> = (wire \o queue) \o (posted \o <<m>>)
        BY <4>4 DEF wq
      <4>2. QED
        BY <1>0, <2>1, <3>2, <4>1, AppendIsConcat DEF Line
    <3>6. QED
      BY <2>3, <3>1, <3>4, <3>5 DEF Line
  <2>6. QED
    BY <2>4, <2>5
<1>2. CASE RunPosted
  <2>1. posted # <<>> /\ queue' = Append(queue, Head(posted)) /\ posted' = Tail(posted)
          /\ UNCHANGED <<wire, sent>>
    BY <1>2 DEF RunPosted, Push
  <2>2. Append(queue, Head(posted)) \o Tail(posted) = queue \o posted
          /\ Append(queue, Head(posted)) \in Seq(Message) /\ Tail(posted) \in Seq(Message)
    BY <1>0, <2>1, Shift
  <2>3. (wire \o Append(queue, Head(posted))) \o Tail(posted) = (wire \o queue) \o posted
    <3> DEFINE qh == Append(queue, Head(posted))
               pt == Tail(posted)
    <3>1. qh \in Seq(Message) /\ pt \in Seq(Message)
      BY <2>2
    <3>6. qh \o pt = queue \o posted
      BY <2>2
    <3> HIDE DEF qh, pt
    <3>2. (wire \o qh) \o pt = wire \o (qh \o pt)
      BY <1>0, <3>1, ConcatAssociative
    <3>3. (wire \o queue) \o posted = wire \o (queue \o posted)
      BY <1>0, ConcatAssociative
    <3>4. (wire \o qh) \o pt = (wire \o queue) \o posted
      BY <3>2, <3>3, <3>6
    <3>5. QED
      BY <3>4 DEF qh, pt
  <2>4. QED
    BY <2>1, <2>3 DEF Line
<1>3. CASE Loop
  BY <1>3, <1>a DEF Loop
<1>4. CASE Written
  <2>1. CASE Head(queue).empty
    BY <1>4, <2>1, <1>a DEF Written
  <2>2. CASE ~ Head(queue).empty
    <3>1. queue # <<>> /\ queue' = Tail(queue) /\ wire' = Append(wire, Head(queue))
            /\ UNCHANGED <<posted, sent>>
      BY <1>4, <2>2 DEF Written, ControlInv
    <3>2. Append(wire, Head(queue)) \o Tail(queue) = wire \o queue
      BY <1>0, <3>1, Shift
    <3>3. QED
      BY <3>1, <3>2 DEF Line
  <2>3. QED
    BY <2>1, <2>2
<1>5. CASE WriteFails
  BY <1>5, <1>a DEF WriteFails
<1>6. CASE Stop
  BY <1>6, <1>a DEF Stop
<1>7. CASE UNCHANGED queueVars
  BY <1>7, <1>a DEF queueVars
<1>8. QED
  BY <1>1, <1>2, <1>3, <1>4, <1>5, <1>6, <1>7 DEF QueueNext

LEMMA QueueInvIs == QueueIInv <=> QueueTypeOK /\ ControlInv /\ InOrder(Line, sent)
BY OrderIs DEF QueueIInv, ControlInv

\* The inductive invariant of the send queue (queue.hpp, enqueue and dequeue).
THEOREM QueueInvariantHolds == QueueSpec => []QueueIInv
<1>1. QueueInit => QueueIInv
  <2> SUFFICES ASSUME QueueInit PROVE QueueIInv
    OBVIOUS
  <2>1. posted = <<>> /\ queue = <<>> /\ wire = <<>> /\ send_t = "posted"
    BY DEF QueueInit
  <2>2. sent \in [Sender -> 0 .. MaxSend] /\ \A i \in Sender : sent[i] = 0
    BY QueueAssumption DEF QueueInit
  <2>3. started = TRUE /\ is_canceled = FALSE
    BY DEF QueueInit
  <2>4. QueueTypeOK
    BY <2>1, <2>2, <2>3, EmptySeq DEF QueueTypeOK, Loc
  <2>5. ControlInv
    <3>1. is_canceled = ~ started
      BY <2>3, Zenon
    <3>2. \A k \in DOMAIN posted : posted[k].from # Owner
      BY <2>1
    <3>3. QED
      BY <2>1, <3>1, <3>2 DEF ControlInv, WaitsForASend
  <2>6. InOrder(Line, sent)
    <3>1. Line = <<>>
      BY <2>1, EmptySeq, ConcatEmptySeq DEF Line
    <3>2. DOMAIN <<>> = {}
      OBVIOUS
    <3>3. QED
      BY <2>2, <3>1, <3>2, QueueAssumption DEF InOrder
  <2>7. QED
    BY <2>4, <2>5, <2>6, QueueInvIs
<1>2. QueueIInv /\ [QueueNext]_queueVars => QueueIInv'
  <2> SUFFICES ASSUME QueueIInv, [QueueNext]_queueVars PROVE QueueIInv'
    OBVIOUS
  <2>1. QueueTypeOK /\ ControlInv /\ InOrder(Line, sent)
    BY QueueInvIs
  <2>2. QueueTypeOK'
    BY <2>1, QueueTypeNext DEF ControlInv
  <2>3. ControlInv'
    BY <2>1, ControlNext
  <2>4. InOrder(Line, sent)'
    BY <2>1, OrderNext DEF InOrder
  <2>5. QED
    BY <2>2, <2>3, <2>4 DEF QueueIInv, ControlInv, SenderOrder, InOrder
<1>3. QED
  BY <1>1, <1>2, PTL DEF QueueSpec

\* Whatever thread a sender uses, its messages stay in order and none is lost or
\* written twice (queue.hpp, enqueue through the strand; dequeue pops what was written).
THEOREM SenderOrderHolds == QueueSpec => []SenderOrder
<1>1. QueueIInv => SenderOrder
  BY DEF QueueIInv
<1>2. QED
  BY <1>1, QueueInvariantHolds, PTL

\* send_t sleeps on an empty queue or behind an empty message, never on a cancelled
\* queue: no wake-up is lost (queue.hpp, the flag tested before the wait).
THEOREM WaitsForASendHolds == QueueSpec => []WaitsForASend
<1>1. QueueIInv => WaitsForASend
  BY DEF QueueIInv
<1>2. QED
  BY <1>1, QueueInvariantHolds, PTL
=============================================================================
