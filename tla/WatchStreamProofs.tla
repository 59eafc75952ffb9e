-------------------------- MODULE WatchStreamProofs --------------------------
(***************************************************************************)
(* Theorems about WatchStream, for any number of watches and changes and   *)
(* any capacity of the channels: what a client is sent is a subsequence of *)
(* the committed changes, with data that is not older than they are.       *)
(***************************************************************************)
EXTENDS WatchStream, SequenceTheorems, TLAPS

(***************************************************************************)
(* The places an event passes on its way to the client of w, the last of   *)
(* them first, and what holds of the events in them: an event in an        *)
(* earlier place, or before another in the same, was committed before it,  *)
(* and if the other was read back its data is not older.                   *)
(***************************************************************************)
Places == 1 .. 6
Pipe(w) == <<sent[w], result[w], sending[w], checking[w], receiver[w], current>>

Precedes(l, d, e) ==
  /\ d.change < e.change
  /\ (l[d.change].uid = l[e.change].uid /\ l[e.change].truncated
        /\ d.data # NoData /\ e.data # NoData) => d.data <= e.data

Ordered(l, p) ==
  \A k, m \in Places : \A i \in 1 .. Len(p[k]), j \in 1 .. Len(p[m]) :
    k < m \/ (k = m /\ i < j) => Precedes(l, p[k][i], p[m][j])

EventOk(l, e) ==
  /\ e.change <= Len(l)
  /\ ~l[e.change].truncated => e.data = e.change
  /\ e.data # NoData =>
       /\ e.change <= e.data /\ e.data <= Len(l)
       /\ l[e.data].uid = l[e.change].uid
       /\ e.data # e.change => l[e.data].operation # "DELETE"

\* What was refused for want of data gets no further than the check.
EventsOk(l, p) ==
  \A k \in Places : \A i \in 1 .. Len(p[k]) :
    EventOk(l, p[k][i]) /\ (k <= 3 => p[k][i].data # NoData)

\* What is notified was committed after all that is on its way.
Behind(q, p) ==
  \A k \in Places : \A i \in 1 .. Len(p[k]), j \in 1 .. Len(q) : p[k][i].change < q[j]

PipeOk(l, q, p) == Ordered(l, p) /\ EventsOk(l, p) /\ Behind(q, p)

\* What is notified or being forwarded is committed.
QueueOk ==
  /\ \A i, j \in 1 .. Len(queue) : i < j => queue[i] < queue[j]
  /\ \A i \in 1 .. Len(queue) : queue[i] <= Len(log)
  /\ \A i \in 1 .. Len(current) : current[i].change <= Len(log)

\* The row of a resource is that of its last change, unless that deleted it.
RowOk ==
  \A u \in Uids : row[u] # 0 =>
    /\ row[u] <= Len(log) /\ log[row[u]].uid = u /\ log[row[u]].operation # "DELETE"
    /\ \A n \in 1 .. Len(log) : n > row[u] => log[n].uid # u

BusyOk == \A w \in Watches : checking[w] = <<>> \/ sending[w] = <<>>

StreamInv ==
  TypeOK /\ QueueOk /\ RowOk /\ BusyOk /\ \A w \in Watches : PipeOk(log, queue, Pipe(w))

Pipes == [Places -> Seq(Events)]

-----------------------------------------------------------------------------
\* The first event of a place goes to the end of the next.
LEMMA MoveOn ==
  ASSUME NEW l, NEW q, NEW p \in Pipes, NEW r \in Pipes, PipeOk(l, q, p),
         NEW k \in 1 .. 5, p[k + 1] # <<>>,
         k = 3 => p[4][1].data # NoData,
         r[k] = Append(p[k], Head(p[k + 1])), r[k + 1] = Tail(p[k + 1]),
         \A m \in Places \ {k, k + 1} : r[m] = p[m]
  PROVE  PipeOk(l, q, r)
<1> DEFINE place(m, i) == IF m = k /\ i = Len(p[k]) + 1 THEN k + 1 ELSE m
           index(m, i) == IF m = k /\ i = Len(p[k]) + 1 THEN 1 ELSE IF m = k + 1 THEN i + 1 ELSE i
<1>0. /\ k \in Places /\ k + 1 \in Places /\ k + 1 # k
      /\ \A m \in Places : p[m] \in Seq(Events) /\ r[m] \in Seq(Events)
  <2>1. k \in 1 .. 6 /\ k + 1 \in 1 .. 6 /\ k + 1 # k
    OBVIOUS
  <2> QED BY <2>1 DEF Places, Pipes
<1>t. /\ \A m \in Places : Len(p[m]) \in Nat /\ Len(r[m]) \in Nat
      /\ Len(p[k + 1]) > 0
  BY <1>0
<1>k. /\ Len(r[k]) = Len(p[k]) + 1 /\ r[k][Len(p[k]) + 1] = p[k + 1][1]
      /\ \A j \in 1 .. Len(p[k]) : r[k][j] = p[k][j]
  <2>1. p[k] \in Seq(Events) /\ Head(p[k + 1]) = p[k + 1][1] /\ p[k + 1][1] \in Events
    BY <1>0, <1>t, ElementOfSeq
  <2> QED BY <2>1, AppendProperties
<1>n. Len(r[k + 1]) = Len(p[k + 1]) - 1 /\ \A j \in 1 .. Len(r[k + 1]) : r[k + 1][j] = p[k + 1][j + 1]
  BY <1>0, HeadTailProperties
<1>p. ASSUME NEW m \in Places, NEW i \in 1 .. Len(r[m])
      PROVE  /\ i \in Nat \ {0} /\ m \in Int /\ k \in Int
             /\ m = k => i <= Len(p[k]) + 1
             /\ m = k + 1 => i + 1 <= Len(p[k + 1])
             /\ m # k /\ m # k + 1 => i <= Len(p[m])
  <2>1. m = k => Len(r[m]) = Len(p[k]) + 1
    BY <1>k
  <2>2. m = k + 1 => Len(r[m]) = Len(p[k + 1]) - 1
    BY <1>n
  <2>3. m # k /\ m # k + 1 => Len(r[m]) = Len(p[m])
    OBVIOUS
  <2>4. Len(r[m]) \in Nat /\ Len(p[k]) \in Nat /\ Len(p[k + 1]) \in Nat
    BY <1>0, <1>t
  <2> QED BY <2>1, <2>2, <2>3, <2>4 DEF Places
<1>1. ASSUME NEW m \in Places, NEW i \in 1 .. Len(r[m])
      PROVE  /\ place(m, i) \in Places /\ index(m, i) \in 1 .. Len(p[place(m, i)])
             /\ r[m][i] = p[place(m, i)][index(m, i)]
  <2>1. CASE m = k /\ i = Len(p[k]) + 1
    BY <1>0, <1>t, <1>k, <2>1
  <2>2. CASE m = k /\ i # Len(p[k]) + 1
    <3>1. i \in 1 .. Len(p[k])
      BY <1>0, <1>t, <1>p, <2>2
    <3> QED BY <1>k, <2>2, <3>1
  <2>3. CASE m = k + 1
    <3>1. /\ place(m, i) = k + 1 /\ index(m, i) = i + 1
          /\ i + 1 \in 1 .. Len(p[k + 1])
      BY <1>0, <1>t, <1>p, <2>3
    <3>2. i \in 1 .. Len(r[k + 1])
      BY <2>3
    <3> QED BY <1>0, <1>n, <2>3, <3>1, <3>2
  <2>4. CASE m # k /\ m # k + 1
    BY <2>4
  <2> QED BY <2>1, <2>2, <2>3, <2>4
<1>2. ASSUME NEW m \in Places, NEW i \in 1 .. Len(r[m]), NEW n \in Places, NEW j \in 1 .. Len(r[n]),
             m < n \/ (m = n /\ i < j)
      PROVE  \/ place(m, i) < place(n, j)
             \/ place(m, i) = place(n, j) /\ index(m, i) < index(n, j)
  <2>1. /\ m = k => i <= Len(p[k]) + 1
        /\ n = k => j <= Len(p[k]) + 1
        /\ {i, j} \subseteq Nat \ {0} /\ {k, m, n} \subseteq Int
    BY <1>p
  <2>2. Len(p[k]) \in Nat
    BY <1>0, <1>t
  <2>3. CASE m = n
    <3>1. i \in Int /\ j \in Int /\ i < j /\ k \in Int
      BY <1>2, <2>1, <2>3
    <3>2. CASE m = k
      <4>1. i # Len(p[k]) + 1
        BY <2>1, <2>2, <2>3, <3>1, <3>2
      <4>2. place(m, i) = k /\ index(m, i) = i
        BY <3>2, <4>1
      <4>3. CASE j = Len(p[k]) + 1
        BY <2>3, <3>1, <3>2, <4>2, <4>3
      <4>4. CASE j # Len(p[k]) + 1
        BY <2>3, <3>1, <3>2, <4>2, <4>4
      <4> QED BY <4>3, <4>4
    <3>3. CASE m # k
      BY <2>3, <3>1, <3>3
    <3> QED BY <3>2, <3>3
  <2>4. CASE m < n /\ m # k
    <3>1. place(m, i) = m /\ place(n, j) \in {n, n + 1}
      BY <2>4
    <3>2. m \in Int /\ n \in Int
      BY <2>1
    <3> HIDE DEF place, index
    <3> QED BY <2>4, <3>1, <3>2
  <2>5. CASE m < n /\ m = k
    <3>1. place(n, j) = n /\ n > k /\ n \in Int /\ k \in Int
      BY <2>1, <2>5
    <3>2. CASE i # Len(p[k]) + 1
      BY <2>5, <3>1, <3>2
    <3>3. CASE i = Len(p[k]) + 1
      <4>1. place(m, i) = k + 1 /\ index(m, i) = 1
        BY <2>5, <3>3
      <4>2. n = k + 1 => index(n, j) = j + 1 /\ j \in Nat /\ j > 0
        BY <2>1, <2>5
      <4> HIDE DEF place, index
      <4> QED BY <3>1, <4>1, <4>2
    <3> QED BY <3>2, <3>3
  <2> QED BY <1>2, <2>3, <2>4, <2>5
<1>3. ASSUME NEW m \in Places, NEW i \in 1 .. Len(r[m]), m <= 3
      PROVE  r[m][i].data # NoData
  <2>1. place(m, i) <= 3 \/ (k = 3 /\ place(m, i) = 4 /\ index(m, i) = 1)
    BY <1>3 DEF Places
  <2> HIDE DEF place, index
  <2> QED BY <1>1, <2>1 DEF PipeOk, EventsOk
<1> HIDE DEF place, index
<1>4. Ordered(l, r)
  <2> SUFFICES ASSUME NEW m \in Places, NEW i \in 1 .. Len(r[m]), NEW n \in Places, NEW j \in 1 .. Len(r[n]),
                      m < n \/ (m = n /\ i < j)
               PROVE  Precedes(l, r[m][i], r[n][j])
    BY DEF Ordered
  <2>1. Precedes(l, p[place(m, i)][index(m, i)], p[place(n, j)][index(n, j)])
    BY <1>1, <1>2 DEF PipeOk, Ordered
  <2> QED BY <1>1, <2>1
<1>5. EventsOk(l, r)
  BY <1>1, <1>3 DEF PipeOk, EventsOk
<1>6. Behind(q, r)
  BY <1>1 DEF PipeOk, Behind
<1> QED BY <1>4, <1>5, <1>6 DEF PipeOk

\* The events of some places are lost.
LEMMA Drop ==
  ASSUME NEW l, NEW q, NEW p, NEW r, PipeOk(l, q, p), \A m \in Places : r[m] = p[m] \/ r[m] = <<>>
  PROVE  PipeOk(l, q, r)
<1>1. \A m \in Places : \A i \in 1 .. Len(r[m]) : r[m] = p[m]
  <2>1. Len(<<>>) = 0
    OBVIOUS
  <2> QED BY <2>1
<1> QED BY <1>1 DEF PipeOk, Ordered, EventsOk, Behind

\* The next notification is read.
LEMMA Arrive ==
  ASSUME NEW l, NEW q \in Seq(1 .. MaxChanges), NEW p \in Pipes, NEW r \in Pipes, PipeOk(l, q, p),
         q # <<>>, Head(q) <= Len(l), \A i, j \in 1 .. Len(q) : i < j => q[i] < q[j],
         r[6] = <<EventOf(Head(q), IF l[Head(q)].truncated THEN NoData ELSE Head(q))>>,
         \A m \in Places \ {6} : r[m] = p[m]
  PROVE  PipeOk(l, Tail(q), r)
<1> DEFINE e == r[6][1]
<1>1. /\ q[1] = Head(q) /\ q[1] \in 1 .. MaxChanges /\ 1 \in 1 .. Len(q)
      /\ \A j \in 1 .. Len(Tail(q)) : Tail(q)[j] = q[j + 1] /\ j + 1 \in 1 .. Len(q) /\ 1 < j + 1
  <2>1. Len(q) \in Nat /\ Len(q) # 0
    BY LenProperties, EmptySeq
  <2>2. 1 \in 1 .. Len(q)
    BY <2>1
  <2>3. Head(q) = q[1] /\ q[1] \in 1 .. MaxChanges
    <3>1. q[1] \in 1 .. MaxChanges
      BY <2>2, ElementOfSeq
    <3>2. Head(q) = q[1]
      OBVIOUS
    <3> QED BY <3>1, <3>2
  <2>4. Len(Tail(q)) = Len(q) - 1 /\ \A j \in 1 .. Len(Tail(q)) : Tail(q)[j] = q[j + 1]
    BY HeadTailProperties
  <2> QED BY <2>1, <2>2, <2>3, <2>4
<1>2. /\ Len(r[6]) = 1 /\ r[6][1] = e /\ e.change = q[1]
      /\ e.data = IF l[q[1]].truncated THEN NoData ELSE q[1]
  BY <1>1 DEF EventOf
<1>3. 6 \in Places /\ \A m \in Places : m < 6 \/ m = 6
  BY DEF Places
<1> HIDE DEF e
<1>4. ASSUME NEW m \in Places, m # 6, NEW i \in 1 .. Len(r[m])
      PROVE  Precedes(l, r[m][i], e)
  <2>1. r[m][i].change < q[1]
    BY <1>1, <1>4 DEF PipeOk, Behind
  <2> QED BY <1>2, <2>1 DEF Precedes
<1>5. Ordered(l, r)
  <2> SUFFICES ASSUME NEW k \in Places, NEW m \in Places, NEW i \in 1 .. Len(r[k]), NEW j \in 1 .. Len(r[m]),
                      k < m \/ (k = m /\ i < j)
               PROVE  Precedes(l, r[k][i], r[m][j])
    BY DEF Ordered
  <2>1. CASE m = 6
    <3>0. Len(r[m]) = 1
      BY <1>2, <2>1
    <3>1. k # 6 /\ j = 1
      <4>1. j = 1
        BY <3>0
      <4>2. ASSUME k = 6 PROVE i = 1
        <5>1. Len(r[k]) = 1
          BY <2>1, <3>0, <4>2
        <5> QED BY <5>1
      <4> QED BY <2>1, <4>1, <4>2 DEF Places
    <3> QED BY <1>2, <1>4, <2>1, <3>1
  <2>2. CASE m # 6
    <3>1. k # 6
      BY <1>3, <2>2 DEF Places
    <3>2. r[k] = p[k] /\ r[m] = p[m]
      BY <2>2, <3>1
    <3> QED BY <3>2 DEF PipeOk, Ordered
  <2> QED BY <2>1, <2>2
<1>6. EventOk(l, e)
  BY <1>1, <1>2, StreamAssumption DEF EventOk
<1>7. EventsOk(l, r)
  <2> SUFFICES ASSUME NEW k \in Places, NEW i \in 1 .. Len(r[k])
               PROVE  EventOk(l, r[k][i]) /\ (k <= 3 => r[k][i].data # NoData)
    BY DEF EventsOk
  <2>1. CASE k = 6
    BY <1>2, <1>6, <2>1
  <2>2. CASE k # 6
    BY <2>2 DEF PipeOk, EventsOk
  <2> QED BY <2>1, <2>2
<1>8. Behind(Tail(q), r)
  <2> SUFFICES ASSUME NEW k \in Places, NEW i \in 1 .. Len(r[k]), NEW j \in 1 .. Len(Tail(q))
               PROVE  r[k][i].change < Tail(q)[j]
    BY DEF Behind
  <2>1. CASE k = 6
    <3>0. Len(r[k]) = 1
      BY <1>2, <2>1
    <3>1. i = 1
      BY <3>0
    <3>2. j + 1 \in 1 .. Len(q) /\ Tail(q)[j] = q[j + 1] /\ 1 < j + 1
      BY <1>1
    <3>3. q[1] < q[j + 1]
      BY <1>1, <3>2
    <3> QED BY <1>2, <2>1, <3>1, <3>2, <3>3
  <2>2. CASE k # 6
    BY <1>1, <2>2 DEF PipeOk, Behind
  <2> QED BY <2>1, <2>2
<1> QED BY <1>5, <1>7, <1>8 DEF PipeOk

\* The data of the event that is being forwarded is read back: d is the last
\* change of its resource.
LEMMA ReadBack ==
  ASSUME NEW l, NEW q, NEW p \in Pipes, NEW r \in Pipes, PipeOk(l, q, p), Len(p[6]) = 1,
         NEW d \in 1 .. MaxChanges, l[p[6][1].change].truncated,
         p[6][1].change <= d, d <= Len(l), Len(l) \in Nat,
         l[d].uid = l[p[6][1].change].uid, l[d].operation # "DELETE",
         \A n \in 1 .. Len(l) : n > d => l[n].uid # l[d].uid,
         r[6] = <<EventOf(p[6][1].change, d)>>,
         \A m \in Places \ {6} : r[m] = p[m]
  PROVE  PipeOk(l, q, r)
<1> DEFINE e == p[6][1]
           f == r[6][1]
<1>1. /\ Len(r[6]) = 1 /\ f.change = e.change /\ f.data = d
      /\ 6 \in Places /\ 1 \in 1 .. Len(p[6])
  BY DEF EventOf, Places
<1>2. ASSUME NEW m \in Places, m # 6, NEW i \in 1 .. Len(r[m])
      PROVE  Precedes(l, r[m][i], f)
  <2>1. r[m] = p[m] /\ m < 6 /\ i \in 1 .. Len(p[m])
    BY <1>2 DEF Places
  <2>2. Precedes(l, r[m][i], e)
    BY <1>1, <2>1 DEF PipeOk, Ordered
  <2>3. EventOk(l, r[m][i]) /\ r[m][i] \in Events
    <3>1. p[m] \in Seq(Events)
      BY DEF Pipes
    <3>2. p[m][i] \in Events
      BY <2>1, <3>1, ElementOfSeq
    <3> QED BY <2>1, <3>2 DEF PipeOk, EventsOk
  <2>4. ASSUME r[m][i].data # NoData, l[r[m][i].change].uid = l[e.change].uid
        PROVE  r[m][i].data <= d
    <3> DEFINE x == r[m][i].data
    <3>1. x \in 1 .. MaxChanges /\ x <= Len(l) /\ l[x].uid = l[d].uid
      BY <2>3, <2>4 DEF EventOk, Events
    <3> HIDE DEF x
    <3>2. ~(x > d)
      BY <3>1
    <3> QED BY <3>1, <3>2 DEF x
  <2> HIDE DEF e, f
  <2> QED BY <1>1, <2>2, <2>4 DEF Precedes
<1>3. Ordered(l, r)
  <2> SUFFICES ASSUME NEW k \in Places, NEW m \in Places, NEW i \in 1 .. Len(r[k]), NEW j \in 1 .. Len(r[m]),
                      k < m \/ (k = m /\ i < j)
               PROVE  Precedes(l, r[k][i], r[m][j])
    BY DEF Ordered
  <2>1. CASE m = 6
    <3>0. Len(r[m]) = 1
      BY <1>1, <2>1
    <3>1. k # 6 /\ j = 1
      <4>1. j = 1
        BY <3>0
      <4>2. ASSUME k = 6 PROVE i = 1
        <5>1. Len(r[k]) = 1
          BY <2>1, <3>0, <4>2
        <5> QED BY <5>1
      <4> QED BY <2>1, <4>1, <4>2 DEF Places
    <3> QED BY <1>1, <1>2, <2>1, <3>1
  <2>2. CASE m # 6
    <3>1. k # 6
      BY <2>2 DEF Places
    <3>2. r[k] = p[k] /\ r[m] = p[m]
      BY <2>2, <3>1
    <3> QED BY <3>2 DEF PipeOk, Ordered
  <2> QED BY <2>1, <2>2
<1>4. EventOk(l, f)
  <2> HIDE DEF e, f
  <2>1. l[e.change].truncated /\ e.change <= d /\ l[d].uid = l[e.change].uid
    BY DEF e
  <2>2. EventOk(l, e)
    BY <1>1 DEF PipeOk, EventsOk, e
  <2> QED BY <1>1, <2>1, <2>2 DEF EventOk
<1>5. EventsOk(l, r)
  <2> SUFFICES ASSUME NEW k \in Places, NEW i \in 1 .. Len(r[k])
               PROVE  EventOk(l, r[k][i]) /\ (k <= 3 => r[k][i].data # NoData)
    BY DEF EventsOk
  <2>1. CASE k = 6
    BY <1>1, <1>4, <2>1
  <2>2. CASE k # 6
    BY <2>2 DEF PipeOk, EventsOk
  <2> QED BY <2>1, <2>2
<1>6. Behind(q, r)
  <2> SUFFICES ASSUME NEW k \in Places, NEW i \in 1 .. Len(r[k]), NEW j \in 1 .. Len(q)
               PROVE  r[k][i].change < q[j]
    BY DEF Behind
  <2>1. CASE k = 6
    BY <1>1, <2>1 DEF PipeOk, Behind
  <2>2. CASE k # 6
    BY <2>2 DEF PipeOk, Behind
  <2> QED BY <2>1, <2>2
<1> QED BY <1>3, <1>5, <1>6 DEF PipeOk

\* Another change is committed, and notified or not.
LEMMA Grow ==
  ASSUME NEW l \in Seq(Changes), NEW c \in Changes, NEW q \in Seq(1 .. MaxChanges), NEW s, NEW p \in Pipes,
         PipeOk(l, q, p), Len(l) < MaxChanges, s = q \/ s = Append(q, Len(l) + 1)
  PROVE  PipeOk(Append(l, c), s, p)
<1> DEFINE g == Append(l, c)
<1>1. Len(g) = Len(l) + 1 /\ Len(l) \in Nat /\ \A n \in 1 .. Len(l) : g[n] = l[n]
  BY AppendProperties
<1> HIDE DEF g
<1>2. ASSUME NEW k \in Places, NEW i \in 1 .. Len(p[k])
      PROVE  /\ p[k][i].change \in 1 .. Len(l)
             /\ p[k][i].data # NoData => p[k][i].data \in 1 .. Len(l)
             /\ EventOk(l, p[k][i])
  <2>1. p[k] \in Seq(Events)
    BY DEF Pipes
  <2>2. p[k][i] \in Events
    BY <2>1, ElementOfSeq
  <2>3. EventOk(l, p[k][i])
    BY DEF PipeOk, EventsOk
  <2> QED BY <1>1, <2>2, <2>3, StreamAssumption DEF Events, EventOk
<1>3. Ordered(g, p)
  <2> SUFFICES ASSUME NEW k \in Places, NEW m \in Places, NEW i \in 1 .. Len(p[k]), NEW j \in 1 .. Len(p[m]),
                      k < m \/ (k = m /\ i < j)
               PROVE  Precedes(g, p[k][i], p[m][j])
    BY DEF Ordered
  <2>1. Precedes(l, p[k][i], p[m][j])
    BY DEF PipeOk, Ordered
  <2>2. g[p[k][i].change] = l[p[k][i].change] /\ g[p[m][j].change] = l[p[m][j].change]
    BY <1>1, <1>2
  <2> QED BY <2>1, <2>2 DEF Precedes
<1>4. EventsOk(g, p)
  <2> SUFFICES ASSUME NEW k \in Places, NEW i \in 1 .. Len(p[k])
               PROVE  EventOk(g, p[k][i]) /\ (k <= 3 => p[k][i].data # NoData)
    BY DEF EventsOk
  <2>1. g[p[k][i].change] = l[p[k][i].change]
    BY <1>1, <1>2
  <2>2. p[k][i].data # NoData => g[p[k][i].data] = l[p[k][i].data] /\ p[k][i].data <= Len(g)
    BY <1>1, <1>2
  <2>3. p[k][i].change <= Len(g)
    BY <1>1, <1>2
  <2>4. EventOk(g, p[k][i])
    BY <1>2, <2>1, <2>2, <2>3 DEF EventOk
  <2> QED BY <2>4 DEF PipeOk, EventsOk
<1>5. Behind(s, p)
  <2>1. CASE s = q
    BY <2>1 DEF PipeOk
  <2>2. CASE s = Append(q, Len(l) + 1)
    <3>1. /\ Len(s) = Len(q) + 1 /\ Len(q) \in Nat /\ s[Len(q) + 1] = Len(l) + 1
          /\ \A j \in 1 .. Len(q) : s[j] = q[j]
      BY <1>1, <2>2, StreamAssumption, AppendProperties
    <3> SUFFICES ASSUME NEW k \in Places, NEW i \in 1 .. Len(p[k]), NEW j \in 1 .. Len(s)
                 PROVE  p[k][i].change < s[j]
      BY DEF Behind
    <3>2. CASE j = Len(q) + 1
      BY <1>1, <1>2, <3>1, <3>2
    <3>3. CASE j # Len(q) + 1
      <4>1. j \in 1 .. Len(q)
        BY <3>1, <3>3
      <4> QED BY <3>1, <4>1 DEF PipeOk, Behind
    <3> QED BY <3>2, <3>3
  <2> QED BY <2>1, <2>2
<1> QED BY <1>3, <1>4, <1>5 DEF PipeOk, g

-----------------------------------------------------------------------------
\* The first event of a channel and the rest of it.
LEMMA First ==
  ASSUME NEW s \in Seq(Events), s # <<>>
  PROVE  /\ Head(s) = s[1] /\ s[1] \in Events
         /\ Tail(s) \in Seq(Events) /\ Len(Tail(s)) <= Len(s)
         /\ <<Head(s)>> \in Seq(Events) /\ Len(<<Head(s)>>) = 1
         /\ <<Head(s)>> = Append(<<>>, Head(s))
<1>1. Len(s) \in Nat /\ Len(s) # 0
  BY LenProperties, EmptySeq
<1>2. 1 \in 1 .. Len(s)
  BY <1>1
<1>3. s[1] \in Events
  BY <1>2, ElementOfSeq
<1>4. Head(s) = s[1]
  OBVIOUS
<1>5. Tail(s) \in Seq(Events) /\ Len(Tail(s)) = Len(s) - 1
  BY HeadTailProperties
<1>6. \A e : Len(<<e>>) = 1 /\ <<e>> = Append(<<>>, e)
  OBVIOUS
<1>7. \A e \in Events : <<e>> \in Seq(Events)
  OBVIOUS
<1> QED BY <1>1, <1>3, <1>4, <1>5, <1>6, <1>7

\* A place that holds at most one event is emptied by taking its first.
LEMMA OnlyOne ==
  ASSUME NEW s \in Seq(Events), AtMostOne(s), s # <<>>
  PROVE  /\ Len(s) = 1 /\ Tail(s) = <<>>
         /\ s = Append(<<>>, s[1]) /\ Head(s) = s[1] /\ s[1] \in Events
<1>1. Len(s) = 1
  <2>1. Len(s) \in Nat /\ Len(s) # 0
    BY LenProperties, EmptySeq
  <2>2. Len(s) <= 1
    BY DEF AtMostOne
  <2>3. \A n \in Nat : n # 0 /\ n <= 1 => n = 1
    OBVIOUS
  <2> QED BY <2>1, <2>2, <2>3
<1>2. Tail(s) \in Seq(Events) /\ Len(Tail(s)) = 0
  BY <1>1, HeadTailProperties
<1>3. Tail(s) = <<>>
  BY <1>2, EmptySeq
<1>4. Head(s) = s[1] /\ s[1] \in Events
  BY First
<1>5. s = Append(<<>>, s[1])
  <2> DEFINE t == Append(<<>>, s[1])
  <2>1. <<>> \in Seq(Events) /\ Len(<<>>) = 0
    OBVIOUS
  <2>2. t \in Seq(Events) /\ Len(t) = 1 /\ t[1] = s[1]
    BY <1>4, <2>1, AppendProperties
  <2> HIDE DEF t
  <2>3. s = t
    BY <1>1, <2>2, SeqEqual
  <2> QED BY <2>3 DEF t
<1> QED BY <1>1, <1>3, <1>4, <1>5

\* A send on a channel appends the event or, on a full channel, drops it.
LEMMA Enqueued ==
  ASSUME NEW s \in Seq(Events), Len(s) <= BufferSize, NEW e \in Events
  PROVE  /\ Enqueue(s, e) = s \/ Enqueue(s, e) = Append(s, e)
         /\ Enqueue(s, e) \in Seq(Events) /\ Len(Enqueue(s, e)) <= BufferSize
<1>1. Append(s, e) \in Seq(Events) /\ Len(Append(s, e)) = Len(s) + 1 /\ Len(s) \in Nat
  BY AppendProperties, LenProperties
<1> QED BY <1>1, StreamAssumption DEF Enqueue

\* The places of a watch are typed.
LEMMA SixPlaces ==
  ASSUME NEW a \in Seq(Events), NEW b \in Seq(Events), NEW c \in Seq(Events),
         NEW d \in Seq(Events), NEW e \in Seq(Events), NEW f \in Seq(Events)
  PROVE  <<a, b, c, d, e, f>> \in Pipes
BY DEF Pipes, Places

-----------------------------------------------------------------------------
\* The event the listener forwards is that of a committed change.
LEMMA Current ==
  ASSUME TypeOK, QueueOk, current # <<>>
  PROVE  /\ Len(current) = 1 /\ current[1] \in Events
         /\ current[1].change \in 1 .. Len(log) /\ Len(log) \in Nat
         /\ log[current[1].change] \in Changes
<1>1. /\ current \in Seq(Events) /\ AtMostOne(current) /\ log \in Seq(Changes)
  BY DEF TypeOK
<1>2. Len(current) = 1 /\ current[1] \in Events
  BY <1>1, OnlyOne
<1>3. 1 \in 1 .. Len(current)
  BY <1>2
<1>4. Len(log) \in Nat
  BY <1>1, LenProperties
<1>5. current[1].change <= Len(log)
  BY <1>3 DEF QueueOk
<1>6. current[1].change \in 1 .. Len(log)
  BY <1>2, <1>4, <1>5 DEF Events
<1>7. log[current[1].change] \in Changes
  BY <1>1, <1>6, ElementOfSeq
<1> QED BY <1>2, <1>4, <1>6, <1>7

\* Every step keeps the variables typed.
LEMMA TypeStep ==
  ASSUME TypeOK, QueueOk, [Next]_vars
  PROVE  TypeOK'
<1> USE DEF TypeOK
<1>0. <<>> \in Seq(Events) /\ Len(<<>>) = 0 /\ AtMostOne(<<>>) /\ <<>> \in Seq(1 .. MaxChanges)
  BY DEF AtMostOne
<1>1. ASSUME NEW u \in Uids, Commit(u) PROVE TypeOK'
  <2>1. PICK op \in Possible(u), long \in BOOLEAN :
          /\ log' = Append(log, [uid |-> u, operation |-> op, truncated |-> long])
          /\ row' = [row EXCEPT ![u] = IF op = "DELETE" THEN 0 ELSE Len(log')]
    BY <1>1 DEF Commit
  <2>2. [uid |-> u, operation |-> op, truncated |-> long] \in Changes
    BY DEF Changes, Possible, Operations
  <2>3. /\ log' \in Seq(Changes) /\ Len(log') = Len(log) + 1 /\ Len(log) \in Nat
    BY <2>1, <2>2, AppendProperties, LenProperties
  <2>4. Len(log') \in 1 .. MaxChanges
    BY <1>1, <2>3, StreamAssumption DEF Commit
  <2>5. row' \in [Uids -> 0 .. MaxChanges]
    <3> DEFINE d == IF op = "DELETE" THEN 0 ELSE Len(log')
    <3>1. d \in 0 .. MaxChanges
      BY <2>4, StreamAssumption
    <3>2. row' = [row EXCEPT ![u] = d]
      BY <2>1
    <3> HIDE DEF d
    <3> QED BY <3>1, <3>2
  <2>6. queue' \in Seq(1 .. MaxChanges)
    BY <1>1, <2>4, AppendProperties DEF Commit
  <2>7. Len(log') <= MaxChanges
    BY <2>4
  <2> QED BY <1>1, <2>3, <2>5, <2>6, <2>7 DEF Commit, watchVars
<1>2. CASE ConnectionLost
  BY <1>0, <1>2 DEF ConnectionLost, watchVars
<1>3. CASE Reconnected
  BY <1>3 DEF Reconnected, watchVars
<1>4. CASE Notified
  <2> DEFINE n == Head(queue)
             e == EventOf(n, IF Truncated(n) THEN NoData ELSE n)
  <2>1. n \in 1 .. MaxChanges /\ Tail(queue) \in Seq(1 .. MaxChanges)
    BY <1>4, HeadTailProperties DEF Notified
  <2>2. e \in Events
    BY <2>1 DEF Events, EventOf
  <2>3. current' = <<e>> /\ queue' = Tail(queue)
    BY <1>4 DEF Notified
  <2> HIDE DEF e, n
  <2>4. current' \in Seq(Events) /\ AtMostOne(current')
    BY <2>2, <2>3 DEF AtMostOne
  <2> QED BY <1>4, <2>1, <2>3, <2>4 DEF Notified, watchVars
<1>5. CASE Backfill
  <2>1. CASE current' = <<>>
    BY <1>0, <1>5, <2>1 DEF Backfill, watchVars
  <2>2. CASE current' # <<>>
    <3> DEFINE n == current[1].change
               e == EventOf(n, Backfilled(n))
    <3>1. current' = <<e>> /\ row[log[n].uid] # 0 /\ current # <<>>
      BY <1>5, <2>2 DEF Backfill
    <3>2. n \in 1 .. MaxChanges /\ log[n].uid \in Uids
      BY <3>1, Current DEF Changes, Events
    <3>3. e \in Events
      BY <3>1, <3>2 DEF Events, EventOf, Backfilled
    <3> HIDE DEF e, n
    <3>4. current' \in Seq(Events) /\ AtMostOne(current')
      BY <3>1, <3>3 DEF AtMostOne
    <3> QED BY <1>5, <3>4 DEF Backfill, watchVars
  <2> QED BY <2>1, <2>2
<1>6. CASE FanOut
  <2> DEFINE e == current[1]
  <2>1. e \in Events
    BY <1>6, Current DEF FanOut
  <2>2. \A w \in Watches : Enqueue(receiver[w], e) \in Seq(Events) /\ Len(Enqueue(receiver[w], e)) <= BufferSize
    BY <2>1, Enqueued
  <2> HIDE DEF e
  <2>3. /\ receiver' = [w \in Watches |-> IF state[w] = "open" /\ ~done[w]
                                            THEN Enqueue(receiver[w], e) ELSE receiver[w]]
        /\ current' = <<>>
    BY <1>6 DEF FanOut, e
  <2>4. receiver' \in [Watches -> Seq(Events)] /\ \A w \in Watches : Len(receiver'[w]) <= BufferSize
    BY <2>2, <2>3
  <2> QED BY <1>0, <1>6, <2>3, <2>4 DEF FanOut
<1>7. ASSUME NEW w \in Watches, Register(w) \/ Cancel(w) PROVE TypeOK'
  BY <1>7 DEF Register, Cancel, listenerVars
<1>8. ASSUME NEW w \in Watches, Take(w) PROVE TypeOK'
  <2> DEFINE s == receiver[w]
  <2>1. /\ s \in Seq(Events) /\ s # <<>> /\ Len(s) <= BufferSize /\ Len(s) \in Nat
        /\ checking' = [checking EXCEPT ![w] = <<Head(s)>>]
        /\ receiver' = [receiver EXCEPT ![w] = Tail(s)]
    BY <1>8, LenProperties DEF Take
  <2> HIDE DEF s
  <2>2. /\ <<Head(s)>> \in Seq(Events) /\ Len(<<Head(s)>>) = 1
        /\ Tail(s) \in Seq(Events) /\ Len(Tail(s)) = Len(s) - 1
    BY <2>1, First, HeadTailProperties
  <2>3. /\ checking' \in [Watches -> Seq(Events)] /\ receiver' \in [Watches -> Seq(Events)]
        /\ \A v \in Watches : Len(checking'[v]) <= 1 /\ Len(receiver'[v]) <= BufferSize
    <3>1. Len(Tail(s)) <= BufferSize
      BY <2>1, <2>2, StreamAssumption
    <3>2. ASSUME NEW v \in Watches PROVE Len(checking'[v]) <= 1 /\ Len(receiver'[v]) <= BufferSize
      <4>1. CASE v = w
        BY <2>1, <2>2, <3>1, <4>1
      <4>2. CASE v # w
        BY <2>1, <4>2 DEF AtMostOne
      <4> QED BY <4>1, <4>2
    <3> QED BY <2>1, <2>2, <3>2
  <2> QED BY <1>8, <2>3 DEF Take, listenerVars, AtMostOne
<1>9. ASSUME NEW w \in Watches, Check(w) PROVE TypeOK'
  <2>1. /\ checking' \in [Watches -> Seq(Events)] /\ sending' \in [Watches -> Seq(Events)]
        /\ \A v \in Watches : AtMostOne(checking'[v]) /\ AtMostOne(sending'[v])
    BY <1>0, <1>9 DEF Check
  <2> QED BY <1>9, <2>1 DEF Check, listenerVars
<1>10. ASSUME NEW w \in Watches, Send(w) PROVE TypeOK'
  <2> DEFINE s == Enqueue(result[w], sending[w][1])
  <2>1. s \in Seq(Events) /\ Len(s) <= BufferSize
    BY <1>10, OnlyOne, Enqueued DEF Send
  <2>2. result' = [result EXCEPT ![w] = s] /\ sending' = [sending EXCEPT ![w] = <<>>]
    BY <1>10 DEF Send
  <2> HIDE DEF s
  <2>3. /\ result' \in [Watches -> Seq(Events)] /\ sending' \in [Watches -> Seq(Events)]
        /\ \A v \in Watches : AtMostOne(sending'[v]) /\ Len(result'[v]) <= BufferSize
    BY <1>0, <2>1, <2>2
  <2> QED BY <1>10, <2>3 DEF Send, listenerVars
<1>11. ASSUME NEW w \in Watches, End(w) PROVE TypeOK'
  <2>1. /\ receiver' \in [Watches -> Seq(Events)] /\ sending' \in [Watches -> Seq(Events)]
        /\ \A v \in Watches : AtMostOne(sending'[v]) /\ Len(receiver'[v]) <= BufferSize
    BY <1>0, <1>11, StreamAssumption DEF End
  <2> QED BY <1>11, <2>1 DEF End, listenerVars
<1>12. ASSUME NEW w \in Watches, Receive(w) PROVE TypeOK'
  <2> DEFINE s == result[w]
             t == Append(sent[w], Head(s))
  <2>1. /\ s \in Seq(Events) /\ s # <<>> /\ Len(s) <= BufferSize /\ Len(s) \in Nat
        /\ sent[w] \in Seq(Events)
        /\ sent' = [sent EXCEPT ![w] = t]
        /\ result' = [result EXCEPT ![w] = Tail(s)]
    BY <1>12, LenProperties DEF Receive
  <2>2. /\ t \in Seq(Events) /\ Tail(s) \in Seq(Events) /\ Len(Tail(s)) = Len(s) - 1
    BY <2>1, First, HeadTailProperties, AppendProperties
  <2> HIDE DEF s, t
  <2>3. Len(Tail(s)) <= BufferSize
    BY <2>1, <2>2, StreamAssumption
  <2>4. /\ sent' \in [Watches -> Seq(Events)] /\ result' \in [Watches -> Seq(Events)]
        /\ \A v \in Watches : Len(result'[v]) <= BufferSize
    BY <2>1, <2>2, <2>3
  <2> QED BY <1>12, <2>4 DEF Receive, listenerVars
<1>13. CASE UNCHANGED vars
  BY <1>13 DEF vars, listenerVars, watchVars
<1> QED
  BY <1>1, <1>2, <1>3, <1>4, <1>5, <1>6, <1>7, <1>8, <1>9, <1>10, <1>11, <1>12, <1>13 DEF Next

\* Notifications stay in commit order, and what is forwarded is committed.
LEMMA QueueStep ==
  ASSUME TypeOK, QueueOk, TypeOK', [Next]_vars
  PROVE  QueueOk'
<1>0. Len(<<>>) = 0 /\ Len(log) \in Nat /\ Len(queue) \in Nat
  BY LenProperties DEF TypeOK
<1>1. ASSUME NEW u \in Uids, Commit(u) PROVE QueueOk'
  <2>1. PICK c \in Changes : log' = Append(log, c)
    BY <1>1 DEF Commit, Changes, Possible, Operations
  <2>2. Len(log') = Len(log) + 1 /\ Len(log') \in 1 .. MaxChanges
    BY <1>0, <1>1, <2>1, AppendProperties, StreamAssumption DEF TypeOK, Commit
  <2>3. /\ \A i, j \in 1 .. Len(queue') : i < j => queue'[i] < queue'[j]
        /\ \A i \in 1 .. Len(queue') : queue'[i] <= Len(log')
    <3>0. \A i \in 1 .. Len(queue) : queue[i] \in 1 .. MaxChanges /\ queue[i] <= Len(log)
      BY ElementOfSeq DEF TypeOK, QueueOk
    <3>1. CASE queue' = queue
      BY <1>0, <2>2, <3>0, <3>1 DEF QueueOk
    <3>2. CASE queue' = Append(queue, Len(log'))
      <4>1. /\ Len(queue') = Len(queue) + 1 /\ queue'[Len(queue) + 1] = Len(log')
            /\ \A i \in 1 .. Len(queue) : queue'[i] = queue[i]
        BY <2>2, <3>2, AppendProperties DEF TypeOK
      <4>2. ASSUME NEW i \in 1 .. Len(queue')
            PROVE  \/ i = Len(queue) + 1 /\ queue'[i] = Len(log') /\ i \in Nat
                   \/ i \in 1 .. Len(queue) /\ queue'[i] = queue[i] /\ queue'[i] <= Len(log) /\ queue'[i] \in Nat
        BY <1>0, <3>0, <4>1
      <4>3. ASSUME NEW i \in 1 .. Len(queue'), NEW j \in 1 .. Len(queue'), i < j
            PROVE  queue'[i] < queue'[j]
        <5>1. CASE j = Len(queue) + 1
          BY <1>0, <2>2, <4>1, <4>2, <4>3, <5>1
        <5>2. CASE j # Len(queue) + 1
          BY <1>0, <4>2, <4>3, <5>2 DEF QueueOk
        <5> QED BY <5>1, <5>2
      <4>4. \A i \in 1 .. Len(queue') : queue'[i] <= Len(log')
        BY <1>0, <2>2, <4>2
      <4> QED BY <4>3, <4>4
    <3> QED BY <1>1, <3>1, <3>2 DEF Commit
  <2>4. \A i \in 1 .. Len(current') : current'[i].change <= Len(log')
    <3>1. current' = current
      BY <1>1 DEF Commit
    <3>2. ASSUME NEW i \in 1 .. Len(current) PROVE current[i].change <= Len(log')
      <4>1. current[i] \in Events
        BY ElementOfSeq DEF TypeOK
      <4> QED BY <1>0, <2>2, <4>1 DEF QueueOk, Events
    <3> QED BY <3>1, <3>2
  <2> QED BY <2>3, <2>4 DEF QueueOk
<1>2. CASE ConnectionLost
  BY <1>0, <1>2 DEF ConnectionLost, QueueOk
<1>3. CASE Reconnected
  BY <1>3 DEF Reconnected, QueueOk
<1>4. CASE Notified
  <2>1. /\ queue # <<>> /\ queue' = Tail(queue) /\ log' = log
        /\ Len(current') = 1 /\ current'[1].change = Head(queue)
    BY <1>4 DEF Notified, EventOf
  <2>2. /\ Len(queue') = Len(queue) - 1
        /\ \A i \in 1 .. Len(queue') : queue'[i] = queue[i + 1] /\ i + 1 \in 1 .. Len(queue)
    BY <1>0, <2>1, HeadTailProperties DEF TypeOK
  <2>3. Head(queue) = queue[1] /\ 1 \in 1 .. Len(queue)
    BY <1>0, <2>1, EmptySeq DEF TypeOK
  <2>4. \A i \in 1 .. Len(current') : current'[i].change <= Len(log')
    <3>1. ASSUME NEW i \in 1 .. Len(current') PROVE i = 1
      BY <2>1
    <3>2. queue[1] <= Len(log)
      BY <2>3 DEF QueueOk
    <3> QED BY <2>1, <2>3, <3>1, <3>2
  <2>5. ASSUME NEW i \in 1 .. Len(queue'), NEW j \in 1 .. Len(queue'), i < j
        PROVE  queue'[i] < queue'[j]
    <3>1. i + 1 < j + 1
      BY <1>0, <2>2, <2>5
    <3> QED BY <2>2, <3>1 DEF QueueOk
  <2> QED BY <2>1, <2>2, <2>4, <2>5 DEF QueueOk
<1>5. CASE Backfill
  <2>1. /\ queue' = queue /\ log' = log /\ current # <<>>
        /\ current' = <<>> \/ (Len(current') = 1 /\ current'[1].change = current[1].change)
    BY <1>5 DEF Backfill, EventOf
  <2>2. current[1].change <= Len(log)
    BY <1>0, <2>1, Current
  <2>3. ASSUME NEW i \in 1 .. Len(current') PROVE current'[i].change <= Len(log')
    <3>1. CASE current' = <<>>
      BY <1>0, <3>1
    <3>2. CASE Len(current') = 1 /\ current'[1].change = current[1].change
      <4>1. i = 1
        BY <3>2
      <4> QED BY <2>1, <2>2, <3>2, <4>1
    <3> QED BY <2>1, <3>1, <3>2
  <2> QED BY <2>1, <2>3 DEF QueueOk
<1>6. CASE FanOut
  BY <1>0, <1>6 DEF FanOut, QueueOk
<1>7. ASSUME NEW w \in Watches,
             Register(w) \/ Cancel(w) \/ Take(w) \/ Check(w) \/ Send(w) \/ End(w) \/ Receive(w)
      PROVE  QueueOk'
  BY <1>7 DEF Register, Cancel, Take, Check, Send, End, Receive, listenerVars, QueueOk
<1>8. CASE UNCHANGED vars
  BY <1>8 DEF vars, listenerVars, QueueOk
<1> QED
  BY <1>1, <1>2, <1>3, <1>4, <1>5, <1>6, <1>7, <1>8 DEF Next

\* The row of a resource stays that of its last change.
LEMMA RowStep ==
  ASSUME TypeOK, RowOk, [Next]_vars
  PROVE  RowOk'
<1>1. ASSUME NEW u \in Uids, Commit(u) PROVE RowOk'
  <2>1. PICK op \in Possible(u), long \in BOOLEAN :
          /\ log' = Append(log, [uid |-> u, operation |-> op, truncated |-> long])
          /\ row' = [row EXCEPT ![u] = IF op = "DELETE" THEN 0 ELSE Len(log')]
    BY <1>1 DEF Commit
  <2> DEFINE c == [uid |-> u, operation |-> op, truncated |-> long]
  <2>2. c \in Changes /\ c.uid = u /\ c.operation = op
    BY DEF Changes, Possible, Operations
  <2>3. log' = Append(log, c)
    BY <2>1
  <2> HIDE DEF c
  <2>4. /\ Len(log') = Len(log) + 1 /\ Len(log) \in Nat /\ log'[Len(log) + 1] = c
        /\ \A n \in 1 .. Len(log) : log'[n] = log[n]
    BY <2>2, <2>3, AppendProperties, LenProperties DEF TypeOK
  <2>5. ASSUME NEW v \in Uids, row'[v] # 0
        PROVE  /\ row'[v] <= Len(log') /\ log'[row'[v]].uid = v /\ log'[row'[v]].operation # "DELETE"
               /\ \A n \in 1 .. Len(log') : n > row'[v] => log'[n].uid # v
    <3>1. CASE v = u
      <4>1. row'[u] = Len(log) + 1 /\ op # "DELETE"
        BY <2>1, <2>4, <2>5, <3>1 DEF TypeOK
      <4> QED BY <2>2, <2>4, <3>1, <4>1
    <3>2. CASE v # u
      <4>1. row'[v] = row[v]
        BY <2>1, <3>2 DEF TypeOK
      <4>2. /\ row[v] \in 1 .. Len(log) /\ log[row[v]].uid = v /\ log[row[v]].operation # "DELETE"
            /\ \A n \in 1 .. Len(log) : n > row[v] => log[n].uid # v
        BY <2>4, <2>5, <4>1 DEF RowOk, TypeOK
      <4>3. ASSUME NEW n \in 1 .. Len(log'), n > row[v] PROVE log'[n].uid # v
        <5>1. CASE n = Len(log) + 1
          BY <2>2, <2>4, <3>2, <5>1
        <5>2. CASE n # Len(log) + 1
          <6>1. n \in 1 .. Len(log)
            BY <2>4, <5>2
          <6> QED BY <2>4, <4>2, <4>3, <6>1
        <5> QED BY <5>1, <5>2
      <4> QED BY <2>4, <4>1, <4>2, <4>3
    <3> QED BY <3>1, <3>2
  <2> QED BY <2>5 DEF RowOk
<1>2. CASE UNCHANGED <<log, row>>
  BY <1>2 DEF RowOk
<1> QED
  BY <1>1, <1>2 DEF Next, ConnectionLost, Reconnected, Notified, Backfill, FanOut, Register, Cancel,
                    Take, Check, Send, End, Receive, vars

\* The goroutine of a watch checks an event or sends one, not both.
LEMMA BusyStep ==
  ASSUME TypeOK, BusyOk, [Next]_vars
  PROVE  BusyOk'
<1>1. ASSUME NEW w \in Watches, Take(w) \/ Check(w) \/ Send(w) \/ End(w)
      PROVE  BusyOk'
  BY <1>1 DEF Take, AtSelect, Check, Send, End, BusyOk, TypeOK
<1>2. CASE UNCHANGED <<checking, sending>>
  BY <1>2 DEF BusyOk
<1> QED
  BY <1>1, <1>2 DEF Next, Commit, ConnectionLost, Reconnected, Notified, Backfill, FanOut, Register,
                    Cancel, Receive, vars, watchVars

-----------------------------------------------------------------------------
\* The places an event passes on its way, as the cases of a proof list them.
LEMMA PlacesListed == Places = {1, 2, 3, 4, 5, 6}
BY DEF Places

\* Each step moves an event on, drops some, or adds one that is newer.
LEMMA PipeStep ==
  ASSUME StreamInv, TypeOK', [Next]_vars, NEW w \in Watches
  PROVE  PipeOk(log', queue', Pipe(w)')
<1> DEFINE p == Pipe(w)
           r == Pipe(w)'
<1>1. /\ p \in Pipes /\ r \in Pipes /\ PipeOk(log, queue, p)
      /\ TypeOK /\ QueueOk /\ RowOk /\ BusyOk
  BY SixPlaces DEF StreamInv, TypeOK, Pipe
<1>2. /\ p[1] = sent[w] /\ p[2] = result[w] /\ p[3] = sending[w]
      /\ p[4] = checking[w] /\ p[5] = receiver[w] /\ p[6] = current
      /\ r[1] = sent'[w] /\ r[2] = result'[w] /\ r[3] = sending'[w]
      /\ r[4] = checking'[w] /\ r[5] = receiver'[w] /\ r[6] = current'
  BY DEF Pipe
<1> SUFFICES PipeOk(log', queue', r)
  OBVIOUS
<1> HIDE DEF p, r
<1>s. ASSUME UNCHANGED <<log, queue>>, r = p PROVE PipeOk(log', queue', r)
  BY <1>1, <1>s
<1>3. ASSUME NEW u \in Uids, Commit(u) PROVE PipeOk(log', queue', r)
  <2>1. PICK c \in Changes : log' = Append(log, c)
    BY <1>3 DEF Commit, Changes, Possible, Operations
  <2>2. Len(log') = Len(log) + 1 /\ log \in Seq(Changes) /\ queue \in Seq(1 .. MaxChanges)
    BY <1>1, <2>1, AppendProperties DEF TypeOK
  <2>3. queue' = queue \/ queue' = Append(queue, Len(log) + 1)
    BY <1>3, <2>2 DEF Commit
  <2>4. r = p /\ Len(log) < MaxChanges
    BY <1>3 DEF Commit, watchVars, p, r, Pipe
  <2> QED BY <1>1, <2>1, <2>2, <2>3, <2>4, Grow
<1>4. CASE ConnectionLost
  <2>1. r = p /\ queue' = <<>> /\ log' = log
    BY <1>4 DEF ConnectionLost, watchVars, p, r, Pipe
  <2>2. Behind(<<>>, p)
    BY DEF Behind
  <2> QED BY <1>1, <2>1, <2>2 DEF PipeOk
<1>5. CASE Reconnected
  <2>1. r = p /\ UNCHANGED <<log, queue>>
    BY <1>5 DEF Reconnected, watchVars, p, r, Pipe
  <2> QED BY <1>s, <2>1
<1>6. CASE Notified
  <2>1. /\ queue # <<>> /\ queue' = Tail(queue) /\ log' = log
        /\ r[6] = <<EventOf(Head(queue), IF log[Head(queue)].truncated THEN NoData ELSE Head(queue))>>
        /\ UNCHANGED watchVars
    BY <1>2, <1>6 DEF Notified, Truncated
  <2>2. \A m \in Places \ {6} : r[m] = p[m]
    BY <1>2, <2>1, PlacesListed DEF watchVars
  <2>3. queue \in Seq(1 .. MaxChanges)
    BY <1>1 DEF TypeOK
  <2>4. Head(queue) <= Len(log)
    <3>1. Head(queue) = queue[1] /\ 1 \in 1 .. Len(queue)
      BY <2>1, <2>3, EmptySeq, LenProperties
    <3> QED BY <1>1, <3>1 DEF QueueOk
  <2>5. \A i, j \in 1 .. Len(queue) : i < j => queue[i] < queue[j]
    BY <1>1 DEF QueueOk
  <2> QED BY <1>1, <2>1, <2>2, <2>3, <2>4, <2>5, Arrive
<1>7. CASE Backfill
  <2>1. UNCHANGED <<log, queue>> /\ \A m \in Places \ {6} : r[m] = p[m]
    BY <1>2, <1>7, PlacesListed DEF Backfill, watchVars
  <2>2. CASE current' = <<>>
    <3>1. \A m \in Places : r[m] = p[m] \/ r[m] = <<>>
      BY <1>2, <2>1, <2>2, PlacesListed
    <3> QED BY <1>1, <2>1, <3>1, Drop
  <2>3. CASE current' # <<>>
    <3> DEFINE n == current[1].change
               d == row[log[n].uid]
    <3>1. /\ current' = <<EventOf(n, d)>> /\ d # 0 /\ log[n].truncated
          /\ current # <<>>
      BY <1>7, <2>3 DEF Backfill, Backfilled, Incomplete, NeedsBackfill, Truncated
    <3>2. Len(current) = 1 /\ n \in 1 .. Len(log) /\ log[n].uid \in Uids /\ Len(log) \in Nat
      BY <1>1, <3>1, Current DEF Changes
    <3>3. /\ d <= Len(log) /\ log[d].uid = log[n].uid /\ log[d].operation # "DELETE"
          /\ \A i \in 1 .. Len(log) : i > d => log[i].uid # log[n].uid
      BY <1>1, <3>1, <3>2 DEF RowOk
    <3>4. d \in 1 .. MaxChanges
      <4>1. row \in [Uids -> 0 .. MaxChanges]
        BY <1>1 DEF TypeOK
      <4>2. d \in 0 .. MaxChanges
        BY <3>2, <4>1
      <4> HIDE DEF d, n
      <4> QED BY <3>1, <4>2, StreamAssumption
    <3>5. n = p[6][1].change /\ Len(p[6]) = 1
      BY <1>2, <3>2
    <3> HIDE DEF n, d
    <3>6. n <= d
      BY <3>2, <3>3, <3>4
    <3>7. r[6] = <<EventOf(n, d)>>
      BY <1>2, <3>1
    <3>8. PipeOk(log, queue, r)
      BY <1>1, <2>1, <3>1, <3>2, <3>3, <3>4, <3>5, <3>6, <3>7, ReadBack
    <3> QED BY <2>1, <3>8
  <2> QED BY <2>2, <2>3
<1>8. CASE FanOut
  <2>1. /\ UNCHANGED <<log, queue, sent, result, sending, checking>>
        /\ current # <<>> /\ current' = <<>>
        /\ receiver'[w] = receiver[w] \/ receiver'[w] = Enqueue(receiver[w], current[1])
    BY <1>8 DEF FanOut
  <2>2. /\ current \in Seq(Events) /\ AtMostOne(current)
        /\ receiver[w] \in Seq(Events) /\ Len(receiver[w]) <= BufferSize
    BY <1>1 DEF TypeOK
  <2>3. Tail(current) = <<>> /\ Head(current) = current[1] /\ current[1] \in Events
    BY <2>1, <2>2, OnlyOne
  <2>4. receiver'[w] = receiver[w] \/ receiver'[w] = Append(receiver[w], Head(current))
    BY <2>1, <2>2, <2>3, Enqueued
  <2>5. CASE receiver'[w] = receiver[w]
    <3>1. \A m \in Places : r[m] = p[m] \/ r[m] = <<>>
      BY <1>2, <2>1, <2>5, PlacesListed
    <3> QED BY <1>1, <2>1, <3>1, Drop
  <2>6. CASE receiver'[w] = Append(receiver[w], Head(current))
    <3>1. /\ r[5] = Append(p[5], Head(p[5 + 1])) /\ r[5 + 1] = Tail(p[5 + 1]) /\ p[5 + 1] # <<>>
          /\ \A m \in Places \ {5, 5 + 1} : r[m] = p[m]
      <4>1. r[6] = Tail(p[6]) /\ p[6] # <<>>
        BY <1>2, <2>1, <2>3
      <4>2. r[5] = Append(p[5], Head(p[6]))
        BY <1>2, <2>6
      <4>3. \A m \in {1, 2, 3, 4} : r[m] = p[m]
        BY <1>2, <2>1
      <4> QED BY <4>1, <4>2, <4>3, PlacesListed
    <3>2. PipeOk(log, queue, r)
      BY <1>1, <3>1, MoveOn
    <3> QED BY <2>1, <3>2
  <2> QED BY <2>4, <2>5, <2>6
<1>9. ASSUME NEW v \in Watches,
             Register(v) \/ Cancel(v) \/ Take(v) \/ Check(v) \/ Send(v) \/ End(v) \/ Receive(v),
             v # w
      PROVE  PipeOk(log', queue', r)
  <2>1. r = p /\ UNCHANGED <<log, queue>>
    BY <1>1, <1>9 DEF Register, Cancel, Take, Check, Send, End, Receive, listenerVars, TypeOK, p, r, Pipe
  <2> QED BY <1>s, <2>1
<1>10. CASE Register(w) \/ Cancel(w)
  <2>1. r = p /\ UNCHANGED <<log, queue>>
    BY <1>10 DEF Register, Cancel, listenerVars, p, r, Pipe
  <2> QED BY <1>s, <2>1
<1>11. CASE Take(w)
  <2>1. /\ UNCHANGED <<log, queue, current, sending, result, sent>>
        /\ receiver[w] # <<>> /\ receiver[w] \in Seq(Events) /\ checking[w] = <<>>
        /\ checking'[w] = <<Head(receiver[w])>> /\ receiver'[w] = Tail(receiver[w])
    BY <1>1, <1>11 DEF Take, AtSelect, listenerVars, TypeOK
  <2>2. <<Head(receiver[w])>> = Append(<<>>, Head(receiver[w]))
    BY <2>1, First
  <2>3. /\ r[4] = Append(p[4], Head(p[4 + 1])) /\ r[4 + 1] = Tail(p[4 + 1]) /\ p[4 + 1] # <<>>
        /\ \A m \in Places \ {4, 4 + 1} : r[m] = p[m]
    BY <1>2, <2>1, <2>2, PlacesListed
  <2>4. PipeOk(log, queue, r)
    BY <1>1, <2>3, MoveOn
  <2> QED BY <2>1, <2>4
<1>12. CASE Check(w)
  <2>1. /\ UNCHANGED <<log, queue, current, receiver, result, sent>>
        /\ checking[w] # <<>> /\ checking[w] \in Seq(Events) /\ AtMostOne(checking[w])
        /\ sending[w] = <<>> /\ checking'[w] = <<>>
        /\ sending'[w] = IF Passes(w, checking[w][1]) THEN checking[w] ELSE <<>>
    BY <1>1, <1>12 DEF Check, listenerVars, TypeOK, BusyOk
  <2>2. CASE sending'[w] = <<>>
    <3>1. \A m \in Places : r[m] = p[m] \/ r[m] = <<>>
      BY <1>2, <2>1, <2>2, PlacesListed
    <3> QED BY <1>1, <2>1, <3>1, Drop
  <2>3. CASE sending'[w] # <<>>
    <3>1. sending'[w] = checking[w] /\ checking[w][1].data # NoData
      BY <2>1, <2>3 DEF Passes
    <3>2. Tail(checking[w]) = <<>> /\ checking[w] = Append(<<>>, Head(checking[w]))
      BY <2>1, OnlyOne
    <3>3. /\ r[3] = Append(p[3], Head(p[3 + 1])) /\ r[3 + 1] = Tail(p[3 + 1]) /\ p[3 + 1] # <<>>
          /\ p[4][1].data # NoData
          /\ \A m \in Places \ {3, 3 + 1} : r[m] = p[m]
      <4>1. r[4] = Tail(p[4]) /\ p[4] # <<>> /\ p[4][1].data # NoData
        BY <1>2, <2>1, <3>1, <3>2
      <4>2. r[3] = Append(p[3], Head(p[4]))
        BY <1>2, <2>1, <3>1, <3>2
      <4>3. \A m \in {1, 2, 5, 6} : r[m] = p[m]
        BY <1>2, <2>1
      <4> QED BY <4>1, <4>2, <4>3, PlacesListed
    <3>4. PipeOk(log, queue, r)
      BY <1>1, <3>3, MoveOn
    <3> QED BY <2>1, <3>4
  <2> QED BY <2>2, <2>3
<1>13. CASE Send(w)
  <2>1. /\ UNCHANGED <<log, queue, current, receiver, checking, sent>>
        /\ sending[w] # <<>> /\ sending[w] \in Seq(Events) /\ AtMostOne(sending[w])
        /\ result[w] \in Seq(Events) /\ Len(result[w]) <= BufferSize
        /\ sending'[w] = <<>>
        /\ result'[w] = Enqueue(result[w], sending[w][1])
    BY <1>1, <1>13 DEF Send, listenerVars, TypeOK
  <2>2. Tail(sending[w]) = <<>> /\ Head(sending[w]) = sending[w][1] /\ sending[w][1] \in Events
    BY <2>1, OnlyOne
  <2>3. CASE result'[w] = result[w]
    <3>1. \A m \in Places : r[m] = p[m] \/ r[m] = <<>>
      BY <1>2, <2>1, <2>3, PlacesListed
    <3> QED BY <1>1, <2>1, <3>1, Drop
  <2>4. CASE result'[w] = Append(result[w], sending[w][1])
    <3>1. /\ r[2] = Append(p[2], Head(p[2 + 1])) /\ r[2 + 1] = Tail(p[2 + 1]) /\ p[2 + 1] # <<>>
          /\ \A m \in Places \ {2, 2 + 1} : r[m] = p[m]
      <4>1. r[3] = Tail(p[3]) /\ p[3] # <<>>
        BY <1>2, <2>1, <2>2
      <4>2. r[2] = Append(p[2], Head(p[3]))
        BY <1>2, <2>2, <2>4
      <4>3. \A m \in {1, 4, 5, 6} : r[m] = p[m]
        BY <1>2, <2>1
      <4> QED BY <4>1, <4>2, <4>3, PlacesListed
    <3>2. PipeOk(log, queue, r)
      BY <1>1, <3>1, MoveOn
    <3> QED BY <2>1, <3>2
  <2> QED BY <2>1, <2>2, <2>3, <2>4, Enqueued
<1>14. CASE End(w)
  <2>1. /\ UNCHANGED <<log, queue, current, checking, result, sent>>
        /\ sending'[w] = <<>> /\ receiver'[w] = <<>>
    BY <1>1, <1>14 DEF End, listenerVars, TypeOK
  <2>2. \A m \in Places : r[m] = p[m] \/ r[m] = <<>>
    BY <1>2, <2>1, PlacesListed
  <2> QED BY <1>1, <2>1, <2>2, Drop
<1>15. CASE Receive(w)
  <2>1. /\ UNCHANGED <<log, queue, current, receiver, checking, sending>>
        /\ result[w] # <<>> /\ result'[w] = Tail(result[w])
        /\ sent'[w] = Append(sent[w], Head(result[w]))
    BY <1>1, <1>15 DEF Receive, listenerVars, TypeOK
  <2>2. /\ r[1] = Append(p[1], Head(p[1 + 1])) /\ r[1 + 1] = Tail(p[1 + 1]) /\ p[1 + 1] # <<>>
        /\ \A m \in Places \ {1, 1 + 1} : r[m] = p[m]
    BY <1>2, <2>1, PlacesListed
  <2>3. PipeOk(log, queue, r)
    BY <1>1, <2>2, MoveOn
  <2> QED BY <2>1, <2>3
<1>16. CASE UNCHANGED vars
  <2>1. r = p /\ UNCHANGED <<log, queue>>
    BY <1>16 DEF vars, listenerVars, watchVars, p, r, Pipe
  <2> QED BY <1>s, <2>1
<1> QED
  BY <1>3, <1>4, <1>5, <1>6, <1>7, <1>8, <1>9, <1>10, <1>11, <1>12, <1>13, <1>14, <1>15, <1>16
     DEF Next

-----------------------------------------------------------------------------
\* The invariant holds before the first subscription.
LEMMA StreamInit == Init => StreamInv
<1> SUFFICES ASSUME Init PROVE StreamInv
  OBVIOUS
<1> USE DEF Init
<1>0. <<>> \in Seq(Events) /\ Len(<<>>) = 0 /\ AtMostOne(<<>>)
      /\ <<>> \in Seq(Changes) /\ <<>> \in Seq(1 .. MaxChanges)
  BY DEF AtMostOne
<1>1. TypeOK
  BY <1>0, StreamAssumption DEF TypeOK
<1>2. QueueOk /\ RowOk /\ BusyOk
  BY <1>0 DEF QueueOk, RowOk, BusyOk
<1>3. ASSUME NEW w \in Watches PROVE PipeOk(log, queue, Pipe(w))
  <2>1. \A k \in Places : Pipe(w)[k] = <<>>
    BY PlacesListed DEF Pipe
  <2>2. \A k \in Places : Len(Pipe(w)[k]) = 0
    BY <1>0, <2>1
  <2> QED BY <2>2 DEF PipeOk, Ordered, EventsOk, Behind
<1> QED BY <1>1, <1>2, <1>3 DEF StreamInv

\* Every step keeps it.
LEMMA StreamStep == StreamInv /\ [Next]_vars => StreamInv'
<1> SUFFICES ASSUME StreamInv, [Next]_vars PROVE StreamInv'
  OBVIOUS
<1>1. TypeOK'
  BY TypeStep DEF StreamInv
<1>2. QueueOk' /\ RowOk' /\ BusyOk'
  BY <1>1, QueueStep, RowStep, BusyStep DEF StreamInv
<1>3. \A w \in Watches : PipeOk(log', queue', Pipe(w)')
  BY <1>1, PipeStep
<1> QED BY <1>1, <1>2, <1>3 DEF StreamInv

\* So it is an invariant.
LEMMA StreamInductive == Spec => []StreamInv
BY StreamInit, StreamStep, PTL DEF Spec

\* What a client was sent: the data of every event is known, and the events
\* precede one another.
LEMMA SentEvents ==
  ASSUME StreamInv, NEW w \in Watches
  PROVE  /\ \A i \in 1 .. Len(sent[w]) :
              /\ sent[w][i] \in Events /\ EventOk(log, sent[w][i]) /\ sent[w][i].data # NoData
         /\ \A i, j \in 1 .. Len(sent[w]) : i < j => Precedes(log, sent[w][i], sent[w][j])
<1>1. /\ PipeOk(log, queue, Pipe(w)) /\ Pipe(w)[1] = sent[w] /\ 1 \in Places
      /\ sent[w] \in Seq(Events)
  BY PlacesListed DEF StreamInv, Pipe, TypeOK
<1>2. ASSUME NEW i \in 1 .. Len(sent[w])
      PROVE  sent[w][i] \in Events /\ EventOk(log, sent[w][i]) /\ sent[w][i].data # NoData
  <2>1. sent[w][i] \in Events
    BY <1>1, ElementOfSeq
  <2>2. i \in 1 .. Len(Pipe(w)[1])
    BY <1>1
  <2>3. EventOk(log, Pipe(w)[1][i]) /\ Pipe(w)[1][i].data # NoData
    BY <1>1, <2>2 DEF PipeOk, EventsOk
  <2> QED BY <1>1, <2>1, <2>3
<1>3. ASSUME NEW i \in 1 .. Len(sent[w]), NEW j \in 1 .. Len(sent[w]), i < j
      PROVE  Precedes(log, sent[w][i], sent[w][j])
  <2>1. i \in 1 .. Len(Pipe(w)[1]) /\ j \in 1 .. Len(Pipe(w)[1])
    BY <1>1
  <2>2. Precedes(log, Pipe(w)[1][i], Pipe(w)[1][j])
    BY <1>1, <1>3, <2>1 DEF PipeOk, Ordered
  <2> QED BY <1>1, <2>2
<1> QED BY <1>2, <1>3

\* The data of what a client is sent is never older than its change, and is
\* that of the same resource, whatever is lost, dropped or read back.
THEOREM NotOlder == Spec => []DataNotOlder
<1>1. StreamInv => DataNotOlder
  <2> SUFFICES ASSUME StreamInv, NEW w \in Watches, NEW k \in 1 .. Len(sent[w])
               PROVE  LET e == sent[w][k] IN
                        /\ e.data >= e.change
                        /\ log[e.data].uid = log[e.change].uid
                        /\ e.data # e.change => log[e.data].operation # "DELETE"
    BY DEF DataNotOlder
  <2>1. sent[w][k] \in Events /\ EventOk(log, sent[w][k]) /\ sent[w][k].data # NoData
    BY SentEvents
  <2> QED BY <2>1 DEF EventOk, Events
<1> QED BY <1>1, StreamInductive, PTL

\* The data of a resource goes back for a client only from an event that was
\* read back to one that was complete.
THEOREM GoesForward == Spec => []DataGoesForward
<1>1. StreamInv => DataGoesForward
  <2> SUFFICES ASSUME StreamInv, NEW w \in Watches, NEW j \in 1 .. Len(sent[w]), NEW i \in 1 .. (j - 1),
                      log[sent[w][i].change].uid = log[sent[w][j].change].uid
               PROVE  \/ sent[w][i].data <= sent[w][j].data
                      \/ Truncated(sent[w][i].change) /\ ~Truncated(sent[w][j].change)
    BY DEF DataGoesForward
  <2>0. Len(sent[w]) \in Nat
    BY LenProperties DEF StreamInv, TypeOK
  <2>1. i \in 1 .. Len(sent[w]) /\ i < j
    BY <2>0
  <2> DEFINE d == sent[w][i]
             e == sent[w][j]
  <2>2. /\ d \in Events /\ EventOk(log, d) /\ d.data # NoData
        /\ e \in Events /\ EventOk(log, e) /\ e.data # NoData
        /\ Precedes(log, d, e)
    BY <2>1, SentEvents
  <2>3. log[d.change].uid = log[e.change].uid
    OBVIOUS
  <2> HIDE DEF d, e
  <2>4. CASE log[e.change].truncated
    BY <2>2, <2>3, <2>4 DEF Precedes, d, e
  <2>5. CASE ~log[d.change].truncated /\ ~log[e.change].truncated
    <3>1. d.data = d.change /\ e.data = e.change /\ d.change < e.change
      BY <2>2, <2>5 DEF EventOk, Precedes
    <3>2. d.data <= e.data
      BY <2>2, <3>1 DEF Events
    <3> QED BY <3>2 DEF d, e
  <2>6. CASE log[d.change].truncated /\ ~log[e.change].truncated
    BY <2>6 DEF Truncated, d, e
  <2> QED BY <2>4, <2>5, <2>6
<1> QED BY <1>1, StreamInductive, PTL

\* The variables keep their types.
THEOREM StreamTypes == Spec => []TypeOK
<1>1. StreamInv => TypeOK
  BY DEF StreamInv
<1> QED BY <1>1, StreamInductive, PTL

-----------------------------------------------------------------------------
\* The changes a client was sent, as LossyStream sees them.
LEMMA SentIsSeq ==
  ASSUME StreamInv, NEW w \in Watches
  PROVE  /\ SentChanges(w) \in Seq(1 .. MaxChanges) /\ Len(SentChanges(w)) = Len(sent[w])
         /\ \A i \in 1 .. Len(sent[w]) : SentChanges(w)[i] = sent[w][i].change
<1>1. Len(sent[w]) \in Nat /\ sent[w] \in Seq(Events)
  BY LenProperties DEF StreamInv, TypeOK
<1>2. \A i \in 1 .. Len(sent[w]) : sent[w][i].change \in 1 .. MaxChanges
  BY SentEvents DEF Events
<1> QED BY <1>1, <1>2 DEF SentChanges

\* A step of the stream is a step of LossyStream or none.
LEMMA LossyStep ==
  ASSUME StreamInv, StreamInv', [Next]_vars
  PROVE  [Lossy!Next]_<<Len(log), [w \in Watches |-> SentChanges(w)]>>
<1> DEFINE received == [w \in Watches |-> SentChanges(w)]
<1>0. log \in Seq(Changes) /\ Len(log) \in Nat
  BY LenProperties DEF StreamInv, TypeOK
<1>1. ASSUME NEW u \in Uids, Commit(u) PROVE Lossy!Commit
  <2>1. PICK c \in Changes : log' = Append(log, c)
    BY <1>1 DEF Commit, Changes, Possible, Operations
  <2>2. Len(log') = Len(log) + 1
    BY <1>0, <2>1, AppendProperties
  <2>3. sent' = sent /\ Len(log) < MaxChanges
    BY <1>1 DEF Commit, watchVars
  <2> QED BY <2>2, <2>3 DEF Lossy!Commit, SentChanges
<1>2. ASSUME NEW w \in Watches, Receive(w) PROVE Lossy!Deliver(w)
  <2> DEFINE n == Head(result[w]).change
             s == SentChanges(w)
  <2>1. /\ sent' = [sent EXCEPT ![w] = Append(sent[w], Head(result[w]))]
        /\ result[w] # <<>> /\ result[w] \in Seq(Events) /\ sent[w] \in Seq(Events) /\ log' = log
        /\ sent \in [Watches -> Seq(Events)]
    BY <1>2 DEF Receive, StreamInv, TypeOK
  <2>2. /\ PipeOk(log, queue, Pipe(w)) /\ Pipe(w)[1] = sent[w] /\ Pipe(w)[2] = result[w]
        /\ 1 \in Places /\ 2 \in Places
    BY PlacesListed DEF StreamInv, Pipe
  <2>3. /\ Head(result[w]) = result[w][1] /\ result[w][1] \in Events /\ 1 \in 1 .. Len(Pipe(w)[2])
    <3>1. Len(result[w]) \in Nat /\ Len(result[w]) # 0
      BY <2>1, LenProperties, EmptySeq
    <3>2. 1 \in 1 .. Len(Pipe(w)[2])
      BY <2>2, <3>1
    <3> QED BY <2>1, <3>2, First
  <2>4. n \in 1 .. Len(log)
    <3>1. EventOk(log, Pipe(w)[2][1])
      BY <2>2, <2>3 DEF PipeOk, EventsOk
    <3> QED BY <1>0, <2>2, <2>3, <3>1 DEF EventOk, Events
  <2>5. Lossy!Newer(n, s)
    <3>1. /\ s \in Seq(1 .. MaxChanges) /\ Len(s) = Len(sent[w]) /\ Len(s) \in Nat
          /\ \A i \in 1 .. Len(s) : s[i] = sent[w][i].change
      BY SentIsSeq, LenProperties
    <3> HIDE DEF s
    <3>2. CASE Len(s) = 0
      <4>1. s = <<>>
        BY <3>1, <3>2, EmptySeq
      <4> QED BY <4>1 DEF Lossy!Newer
    <3>3. CASE Len(s) # 0
      <4>1. Len(s) \in 1 .. Len(s) /\ Len(s) \in 1 .. Len(Pipe(w)[1])
        BY <2>2, <3>1, <3>3
      <4>2. Precedes(log, Pipe(w)[1][Len(s)], Pipe(w)[2][1])
        BY <2>2, <2>3, <4>1 DEF PipeOk, Ordered
      <4>3. s[Len(s)] < n /\ s[Len(s)] \in 1 .. MaxChanges
        BY <2>2, <2>3, <3>1, <4>1, <4>2, ElementOfSeq DEF Precedes
      <4> HIDE DEF n
      <4>4. n > s[Len(s)]
        BY <2>4, <4>3
      <4> QED BY <4>4 DEF Lossy!Newer
    <3> QED BY <3>2, <3>3
  <2>6. SentChanges(w)' = Append(s, n)
    <3> DEFINE t == sent'[w]
               x == [k \in 1 .. Len(t) |-> t[k].change]
    <3>1. t = Append(sent[w], Head(result[w]))
      BY <2>1
    <3>2. /\ Len(t) = Len(sent[w]) + 1 /\ Len(sent[w]) \in Nat
          /\ t[Len(sent[w]) + 1].change = n
          /\ \A i \in 1 .. Len(sent[w]) : t[i] = sent[w][i]
      BY <2>1, <2>3, <3>1, AppendProperties, LenProperties
    <3>3. /\ s \in Seq(1 .. MaxChanges) /\ Len(s) = Len(sent[w])
          /\ \A i \in 1 .. Len(s) : s[i] = sent[w][i].change
      BY SentIsSeq
    <3>4. SentChanges(w)' \in Seq(1 .. MaxChanges) /\ Len(SentChanges(w)') = Len(t)
          /\ \A i \in 1 .. Len(t) : SentChanges(w)'[i] = t[i].change
      <4>1. Len(t) \in Nat /\ t \in Seq(Events)
        BY LenProperties DEF StreamInv, TypeOK
      <4>2. ASSUME NEW i \in 1 .. Len(t) PROVE t[i].change \in 1 .. MaxChanges
        <5>1. t[i] \in Events
          BY <4>1, ElementOfSeq
        <5> QED BY <5>1 DEF Events
      <4>3. SentChanges(w)' = x
        BY DEF SentChanges
      <4> HIDE DEF t
      <4> QED BY <4>1, <4>2, <4>3
    <3>5. Len(log) <= MaxChanges /\ MaxChanges \in Nat
      BY StreamAssumption DEF StreamInv, TypeOK
    <3> DEFINE y == Append(s, n)
    <3>6. /\ y \in Seq(1 .. MaxChanges) /\ Len(y) = Len(s) + 1 /\ y[Len(s) + 1] = n
          /\ \A i \in 1 .. Len(s) : y[i] = s[i]
      <4> HIDE DEF n, s
      <4>1. n \in 1 .. MaxChanges
        BY <1>0, <2>4, <3>5
      <4> QED BY <3>3, <4>1, AppendProperties
    <3> DEFINE z == SentChanges(w)'
    <3>7. z = y
      <4> HIDE DEF y, z, t, n, s
      <4>1. z \in Seq(1 .. MaxChanges) /\ Len(z) = Len(y) /\ Len(z) = Len(s) + 1 /\ Len(s) \in Nat
        BY <3>2, <3>3, <3>4, <3>6 DEF z
      <4>2. ASSUME NEW i \in 1 .. Len(z) PROVE z[i] = y[i]
        <5>1. i \in 1 .. Len(s) \/ i = Len(s) + 1
          BY <4>1
        <5>2. z[i] = t[i].change
          BY <3>2, <3>3, <3>4, <4>1 DEF z
        <5>3. CASE i = Len(s) + 1
          BY <3>2, <3>3, <3>6, <5>2, <5>3
        <5>4. CASE i \in 1 .. Len(s)
          <6>1. t[i] = sent[w][i] /\ s[i] = sent[w][i].change
            BY <3>2, <3>3, <5>4
          <6> QED BY <3>6, <5>2, <5>4, <6>1
        <5> QED BY <5>1, <5>3, <5>4
      <4> QED BY <3>6, <4>1, <4>2, SeqEqual
    <3> QED BY <3>7 DEF y, z
  <2>7. \A v \in Watches : v # w => SentChanges(v)' = SentChanges(v)
    BY <2>1 DEF SentChanges
  <2>8. received' = [received EXCEPT ![w] = Append(received[w], n)]
    <3>1. received' = [v \in Watches |-> SentChanges(v)']
      OBVIOUS
    <3>2. received[w] = s
      OBVIOUS
    <3> HIDE DEF n, s
    <3> QED BY <2>6, <2>7, <3>1, <3>2
  <2>9. Len(log') = Len(log) /\ received[w] = s
    BY <2>1
  <2> HIDE DEF n, s
  <2> QED BY <2>4, <2>5, <2>8, <2>9 DEF Lossy!Deliver
<1>3. CASE UNCHANGED <<log, sent>>
  BY <1>3 DEF SentChanges
<1>4. \/ \E u \in Uids : Commit(u)
      \/ \E w \in Watches : Receive(w)
      \/ UNCHANGED <<log, sent>>
  BY DEF Next, ConnectionLost, Reconnected, Notified, Backfill, FanOut, Register, Cancel,
         Take, Check, Send, End, vars, watchVars
<1> QED BY <1>1, <1>2, <1>3, <1>4 DEF Lossy!Next

\* Whatever is lost, dropped, read back or refused on the way, the listener
\* and the goroutines of the watches implement LossyStream.
THEOREM InOrder == Spec => InOrderStream
<1>1. Init => Lossy!Init
  <2> SUFFICES ASSUME Init PROVE Lossy!Init
    OBVIOUS
  <2>1. Len(log) = 0
    BY DEF Init
  <2>2. ASSUME NEW w \in Watches PROVE SentChanges(w) = <<>>
    <3>1. sent[w] = <<>> /\ Len(<<>>) = 0
      BY DEF Init
    <3>2. SentChanges(w) \in Seq(1 .. MaxChanges) /\ Len(SentChanges(w)) = Len(sent[w])
      BY StreamInit, SentIsSeq
    <3> QED BY <3>1, <3>2, EmptySeq
  <2> QED BY <2>1, <2>2 DEF Lossy!Init
<1>2. StreamInv /\ StreamInv' /\ [Next]_vars => [Lossy!Next]_<<Len(log), [w \in Watches |-> SentChanges(w)]>>
  BY LossyStep
<1> QED BY <1>1, <1>2, StreamInductive, PTL DEF Spec, InOrderStream, Lossy!Spec
=============================================================================
