---------------------------- MODULE SessionProofs ---------------------------
(***************************************************************************)
(* What SenderSession and ReceiverSession agree on, for any number of      *)
(* requests: each request gets its one reply and its one callback, and     *)
(* both ends have the streams of the same offer.  And what the task runner *)
(* that both ends run on promises.                                         *)
(***************************************************************************)
EXTENDS SessionNegotiation, TaskRunner, TLAPS

-----------------------------------------------------------------------------
(* The task runner: tasks posted without a delay run once and in order, *)
(* all of them before RunUntilStopped() returns, and delayed tasks run  *)
(* in turn, for any tasks, any delays and any number of threads that    *)
(* post.                                                                *)

\* The tasks in p are in the line, in the same order, and none is there twice.
InOrder(line, p) ==
    /\ \A i, j \in DOMAIN line : line[i] = line[j] => i = j
    /\ Range(p) \subseteq Range(line)
    /\ \A k, l \in DOMAIN p : k < l =>
          \E i, j \in DOMAIN line : i < j /\ line[i] = p[k] /\ line[j] = p[l]

\* The delayed tasks d are in the order of their times, no task is there twice,
\* and none is in the line.
Apart(line, d) ==
    /\ \A i, j \in DOMAIN d : i < j => d[i].due <= d[j].due
    /\ \A i, j \in DOMAIN d : d[i].task = d[j].task => i = j
    /\ \A i \in DOMAIN d : d[i].task \notin Range(line)

\* GrabMoreRunnableTasks() insists on an empty batch.
BatchInHand == running_tasks # <<>> <=> loop \in {"run", "flush_run"}

RunnerInv == RunnerTypeOK /\ InOrder(Line, posted) /\ Apart(Line, delayed_tasks) /\ BatchInHand

-----------------------------------------------------------------------------
(* Sequences *)

\* What \o returns, element by element.
LEMMA ConcatFacts ==
    ASSUME NEW S, NEW s \in Seq(S), NEW t \in Seq(S)
    PROVE  /\ s \o t \in Seq(S)
           /\ Len(s \o t) = Len(s) + Len(t)
           /\ DOMAIN (s \o t) = 1 .. (Len(s) + Len(t))
           /\ \A i \in 1 .. Len(s) : (s \o t)[i] = s[i]
           /\ \A i \in 1 .. Len(t) : (s \o t)[Len(s) + i] = t[i]
OBVIOUS

\* The elements of s \o t are those of s and those of t.
LEMMA ConcatSet ==
    ASSUME NEW S, NEW s \in Seq(S), NEW t \in Seq(S)
    PROVE  Range(s \o t) = Range(s) \cup Range(t)
<1>1. ASSUME NEW x \in Range(s \o t) PROVE x \in Range(s) \cup Range(t)
  <2>1. PICK i \in 1 .. (Len(s) + Len(t)) : x = (s \o t)[i]
    BY ConcatFacts DEF Range
  <2>2. CASE i <= Len(s)
    BY <2>1, <2>2, ConcatFacts DEF Range
  <2>3. CASE i > Len(s)
    <3>1. i - Len(s) \in 1 .. Len(t) /\ Len(s) + (i - Len(s)) = i
      BY <2>3
    <3>2. x = t[i - Len(s)]
      BY <2>1, <3>1, ConcatFacts
    <3> QED
      BY <3>1, <3>2 DEF Range
  <2> QED
    BY <2>2, <2>3
<1>2. ASSUME NEW x \in Range(s) PROVE x \in Range(s \o t)
  <2>1. PICK i \in 1 .. Len(s) : x = s[i]
    BY DEF Range
  <2>2. i \in DOMAIN (s \o t) /\ (s \o t)[i] = x
    BY <2>1, ConcatFacts
  <2> QED
    BY <2>2 DEF Range
<1>3. ASSUME NEW x \in Range(t) PROVE x \in Range(s \o t)
  <2>1. PICK i \in 1 .. Len(t) : x = t[i]
    BY DEF Range
  <2>2. Len(s) + i \in 1 .. (Len(s) + Len(t))
    OBVIOUS
  <2>3. Len(s) + i \in DOMAIN (s \o t) /\ (s \o t)[Len(s) + i] = x
    BY <2>1, <2>2, ConcatFacts
  <2> QED
    BY <2>3, Zenon DEF Range
<1> QED
  BY <1>1, <1>2, <1>3

\* \o is associative, <<>> its unit, and Append one of its uses.
LEMMA ConcatLaws ==
    ASSUME NEW S
    PROVE  /\ \A s, t, u \in Seq(S) : (s \o t) \o u = s \o (t \o u)
           /\ \A s \in Seq(S) : s \o <<>> = s /\ <<>> \o s = s
           /\ \A s \in Seq(S), e \in S : Append(s, e) = s \o <<e>>
           /\ \A s, t \in Seq(S) : t # <<>> => Append(s, Head(t)) \o Tail(t) = s \o t
<1>1. \A s, t, u \in Seq(S) : (s \o t) \o u = s \o (t \o u)
  OBVIOUS
<1>2. \A s \in Seq(S) : s \o <<>> = s
  OBVIOUS
<1>3. \A s \in Seq(S) : <<>> \o s = s
  OBVIOUS
<1>4. \A s \in Seq(S), e \in S : Append(s, e) = s \o <<e>>
  OBVIOUS
<1>5. \A s, t \in Seq(S) : t # <<>> => Append(s, Head(t)) \o Tail(t) = s \o t
  OBVIOUS
<1> QED
  BY <1>1, <1>2, <1>3, <1>4, <1>5, Zenon

\* The line keeps the order of the tasks posted when others join it at its end.
LEMMA LineGrows ==
    ASSUME NEW S, NEW line \in Seq(S), NEW p \in Seq(S), NEW more \in Seq(S),
           InOrder(line, p),
           \A i, j \in DOMAIN more : more[i] = more[j] => i = j,
           \A i \in DOMAIN more : more[i] \notin Range(line)
    PROVE  InOrder(line \o more, p)
<1> DEFINE new == line \o more
<1>1. ASSUME NEW i \in DOMAIN new, NEW j \in DOMAIN new, new[i] = new[j] PROVE i = j
  <2>1. \A n \in DOMAIN new : n > Len(line) =>
           /\ n - Len(line) \in DOMAIN more
           /\ new[n] = more[n - Len(line)]
    <3>1. TAKE n \in DOMAIN new
    <3>2. HAVE n > Len(line)
    <3>3. n \in Int /\ n - Len(line) \in 1 .. Len(more) /\ Len(line) + (n - Len(line)) = n
      BY <3>2, ConcatFacts
    <3> QED
      BY <3>3, ConcatFacts
  <2>2. \A n \in DOMAIN new : n <= Len(line) => n \in DOMAIN line /\ new[n] = line[n]
    BY ConcatFacts
  <2>3. i \in Int /\ j \in Int /\ Len(line) \in Int
    BY ConcatFacts
  <2>4. CASE i <= Len(line) /\ j <= Len(line)
    BY <1>1, <2>2, <2>4 DEF InOrder
  <2>5. CASE i <= Len(line) /\ j > Len(line)
    BY <1>1, <2>1, <2>2, <2>5 DEF Range
  <2>6. CASE i > Len(line) /\ j <= Len(line)
    BY <1>1, <2>1, <2>2, <2>6 DEF Range
  <2>7. CASE i > Len(line) /\ j > Len(line)
    <3>1. i - Len(line) = j - Len(line)
      BY <1>1, <2>1, <2>7
    <3> QED
      BY <2>3, <3>1
  <2> QED
    BY <2>3, <2>4, <2>5, <2>6, <2>7
<1>2. Range(p) \subseteq Range(new)
  BY ConcatSet DEF InOrder
<1>3. \A i \in DOMAIN line : i \in DOMAIN new /\ new[i] = line[i]
  BY ConcatFacts
<1>4. ASSUME NEW k \in DOMAIN p, NEW l \in DOMAIN p, k < l
      PROVE  \E i, j \in DOMAIN new : i < j /\ new[i] = p[k] /\ new[j] = p[l]
  <2>1. PICK i \in DOMAIN line, j \in DOMAIN line : i < j /\ line[i] = p[k] /\ line[j] = p[l]
    BY <1>4 DEF InOrder
  <2> QED
    BY <1>3, <2>1
<1> QED
  BY <1>1, <1>2, <1>4, Zenon DEF InOrder

\* A task that is posted takes the last place in both.
LEMMA LineGrowsByPost ==
    ASSUME NEW S, NEW line \in Seq(S), NEW p \in Seq(S), NEW t \in S,
           InOrder(line, p), t \notin Range(line)
    PROVE  InOrder(line \o <<t>>, p \o <<t>>)
<1> DEFINE new == line \o <<t>>
           q == p \o <<t>>
<1>1. <<t>> \in Seq(S) /\ Len(<<t>>) = 1 /\ DOMAIN <<t>> = {1} /\ <<t>>[1] = t
  OBVIOUS
<1>2. InOrder(new, p)
  BY <1>1, LineGrows, Zenon
<1>3. Range(q) \subseteq Range(new)
  <2>1. \A s, u \in Seq(S) : Range(s \o u) = Range(s) \cup Range(u)
    BY ConcatSet
  <2>2. Range(q) = Range(p) \cup Range(<<t>>) /\ Range(new) = Range(line) \cup Range(<<t>>)
    BY <1>1, <2>1, Zenon
  <2>3. Range(p) \subseteq Range(line)
    BY DEF InOrder
  <2> QED
    BY <2>2, <2>3, Zenon
<1>4. /\ Len(line) + 1 \in DOMAIN new /\ new[Len(line) + 1] = t
      /\ \A i \in DOMAIN line : i \in DOMAIN new /\ new[i] = line[i] /\ i < Len(line) + 1
  BY <1>1, ConcatFacts
<1>5. /\ DOMAIN q = 1 .. Len(p) + 1 /\ q[Len(p) + 1] = t
      /\ \A k \in DOMAIN p : q[k] = p[k]
      /\ DOMAIN p = 1 .. Len(p) /\ Len(p) \in Nat
  BY <1>1, ConcatFacts
<1>6. ASSUME NEW k \in DOMAIN q, NEW l \in DOMAIN q, k < l
      PROVE  \E i, j \in DOMAIN new : i < j /\ new[i] = q[k] /\ new[j] = q[l]
  <2>1. k \in DOMAIN p
    BY <1>5, <1>6
  <2>2. CASE l \in DOMAIN p
    <3>1. \A m, o \in DOMAIN p : m < o =>
             \E i, j \in DOMAIN new : i < j /\ new[i] = p[m] /\ new[j] = p[o]
      BY <1>2, Zenon DEF InOrder
    <3>2. \E i, j \in DOMAIN new : i < j /\ new[i] = p[k] /\ new[j] = p[l]
      BY <1>6, <2>1, <2>2, <3>1, Zenon
    <3> QED
      BY <1>5, <2>1, <2>2, <3>2, Zenon
  <2>3. CASE l = Len(p) + 1
    <3>1. PICK i \in DOMAIN line : line[i] = p[k]
      <4>1. p[k] \in Range(p) /\ Range(p) \subseteq Range(line)
        BY <2>1, Zenon DEF InOrder, Range
      <4> QED
        BY <4>1, Zenon DEF Range
    <3> QED
      BY <1>4, <1>5, <2>1, <2>3, <3>1
  <2>4. l \in DOMAIN p \/ l = Len(p) + 1
    BY <1>5
  <2> QED
    BY <2>2, <2>3, <2>4, Zenon
<1> QED
  BY <1>2, <1>3, <1>6, Zenon DEF InOrder

-----------------------------------------------------------------------------
(* The multimap of delayed tasks *)

\* new is d with e after its first n elements.
Inserted(new, d, n, e) ==
    /\ DOMAIN new = 1 .. Len(d) + 1
    /\ \A i \in 1 .. n : new[i] = d[i]
    /\ new[n + 1] = e
    /\ \A i \in n + 1 .. Len(d) : new[i + 1] = d[i]

\* What an insertion yields, element by element.
LEMMA InsertFacts ==
    ASSUME NEW S, NEW d \in Seq(S), NEW n \in 0 .. Len(d), NEW e \in S
    PROVE  /\ SubSeq(d, 1, n) \o <<e>> \o SubSeq(d, n + 1, Len(d)) \in Seq(S)
           /\ Inserted(SubSeq(d, 1, n) \o <<e>> \o SubSeq(d, n + 1, Len(d)), d, n, e)
<1> DEFINE low == SubSeq(d, 1, n)
           high == SubSeq(d, n + 1, Len(d))
           front == low \o <<e>>
<1>1. /\ low \in Seq(S) /\ Len(low) = n
      /\ \A i \in 1 .. n : low[i] = d[i]
  OBVIOUS
<1>2. /\ high \in Seq(S) /\ Len(high) = Len(d) - n
      /\ \A i \in 1 .. Len(d) - n : high[i] = d[n + i]
  OBVIOUS
<1>3. /\ front \in Seq(S) /\ Len(front) = n + 1
      /\ \A i \in 1 .. n : front[i] = d[i]
      /\ front[n + 1] = e
  <2>1. <<e>> \in Seq(S) /\ Len(<<e>>) = 1 /\ <<e>>[1] = e
    OBVIOUS
  <2> HIDE DEF low
  <2> QED
    BY <1>1, <2>1, ConcatFacts
<1>4. SubSeq(d, 1, n) \o <<e>> \o SubSeq(d, n + 1, Len(d)) = front \o high
  BY Zenon
<1> HIDE DEF front, high
<1>5. /\ front \o high \in Seq(S)
      /\ DOMAIN (front \o high) = 1 .. Len(d) + 1
      /\ \A i \in 1 .. n + 1 : (front \o high)[i] = front[i]
      /\ \A i \in 1 .. Len(d) - n : (front \o high)[n + 1 + i] = d[n + i]
  <2>1. /\ front \o high \in Seq(S)
        /\ DOMAIN (front \o high) = 1 .. (Len(front) + Len(high))
        /\ \A i \in 1 .. Len(front) : (front \o high)[i] = front[i]
        /\ \A i \in 1 .. Len(high) : (front \o high)[Len(front) + i] = high[i]
    <3>1. front \in Seq(S) /\ high \in Seq(S)
      BY <1>2, <1>3, Zenon
    <3> QED
      BY <3>1, ConcatFacts
  <2>2. (n + 1) + (Len(d) - n) = Len(d) + 1
    OBVIOUS
  <2>3. \A i \in 1 .. Len(d) - n : (front \o high)[n + 1 + i] = d[n + i]
    BY <1>2, <1>3, <2>1, Zenon
  <2> QED
    BY <1>2, <1>3, <2>1, <2>2, <2>3, Zenon
<1>6. ASSUME NEW i \in n + 1 .. Len(d) PROVE (front \o high)[i + 1] = d[i]
  <2>1. i - n \in 1 .. Len(d) - n /\ n + 1 + (i - n) = i + 1 /\ n + (i - n) = i
    OBVIOUS
  <2> QED
    BY <1>5, <2>1, Zenon
<1>7. \A i \in 1 .. n : (front \o high)[i] = d[i]
  BY <1>3, <1>5
<1>8. (front \o high)[n + 1] = e
  BY <1>3, <1>5
<1> QED
  BY <1>4, <1>5, <1>6, <1>7, <1>8, Zenon DEF Inserted

\* Delayed tasks, as the multimap holds them.
DelayedTask == [due : 0 .. MaxTime, task : AllTasks]

\* A delayed task that is inserted at the upper bound of its time leaves the others
\* in the order of theirs.
LEMMA DelayedGrow ==
    ASSUME NEW line, NEW d \in Seq(DelayedTask), NEW n \in 0 .. Len(d),
           NEW e \in DelayedTask, NEW new, Inserted(new, d, n, e),
           Apart(line, d), e.task \notin Range(line),
           \A i \in DOMAIN d : d[i].task # e.task,
           \A i \in 1 .. n : d[i].due <= e.due,
           \A i \in n + 1 .. Len(d) : d[i].due > e.due
    PROVE  Apart(line, new)
<1>2. /\ DOMAIN new = 1 .. Len(d) + 1
      /\ \A i \in 1 .. n : new[i] = d[i]
      /\ new[n + 1] = e
      /\ \A i \in n + 1 .. Len(d) : new[i + 1] = d[i]
  BY Zenon DEF Inserted
<1>3. /\ DOMAIN d = 1 .. Len(d) /\ Len(d) \in Nat /\ e.due \in Int
      /\ \A i \in DOMAIN d : d[i].due \in Int
  <2>1. DOMAIN d = 1 .. Len(d) /\ Len(d) \in Nat
    OBVIOUS
  <2>2. e.due \in Int
    BY DEF DelayedTask
  <2>3. \A i \in DOMAIN d : d[i] \in DelayedTask
    OBVIOUS
  <2>4. \A x \in DelayedTask : x.due \in Int
    BY DEF DelayedTask
  <2> QED
    BY <2>1, <2>2, <2>3, <2>4, Zenon
<1>4. \A i \in DOMAIN new :
         \/ i \in 1 .. n /\ i \in DOMAIN d /\ new[i] = d[i]
         \/ i = n + 1 /\ new[i] = e
         \/ i - 1 \in n + 1 .. Len(d) /\ i - 1 \in DOMAIN d /\ new[i] = d[i - 1]
  <2>1. TAKE i \in DOMAIN new
  <2>2. i \in 1 .. n \/ i = n + 1 \/ (i - 1 \in n + 1 .. Len(d) /\ (i - 1) + 1 = i)
    BY <1>2, <1>3
  <2> QED
    BY <1>2, <1>3, <2>2
<1>5. \A i, j \in DOMAIN new : i < j => new[i].due <= new[j].due
  <2>1. TAKE i, j \in DOMAIN new
  <2>2. HAVE i < j
  <2>3. i \in Int /\ j \in Int
    BY <1>2
  <2>4. CASE i \in 1 .. n
    BY <1>3, <1>4, <2>2, <2>3, <2>4 DEF Apart
  <2>5. CASE i = n + 1
    BY <1>3, <1>4, <2>2, <2>3, <2>5 DEF Apart
  <2>6. CASE i - 1 \in n + 1 .. Len(d)
    <3>1. /\ i - 1 \in DOMAIN d /\ j - 1 \in DOMAIN d /\ i - 1 < j - 1
          /\ new[i] = d[i - 1] /\ new[j] = d[j - 1]
      BY <1>3, <1>4, <2>2, <2>3, <2>6
    <3>2. \A k, l \in DOMAIN d : k < l => d[k].due <= d[l].due
      BY DEF Apart
    <3> QED
      BY <3>1, <3>2, Zenon
  <2> QED
    BY <1>4, <2>4, <2>5, <2>6
<1>6. \A i, j \in DOMAIN new : new[i].task = new[j].task => i = j
  <2>1. TAKE i, j \in DOMAIN new
  <2>2. HAVE new[i].task = new[j].task
  <2>3. i \in Int /\ j \in Int
    BY <1>2
  <2>4. CASE i \in 1 .. n
    BY <1>3, <1>4, <2>2, <2>3, <2>4 DEF Apart
  <2>5. CASE i = n + 1
    BY <1>3, <1>4, <2>2, <2>3, <2>5 DEF Apart
  <2>6. CASE i - 1 \in n + 1 .. Len(d)
    BY <1>3, <1>4, <2>2, <2>3, <2>6 DEF Apart
  <2> QED
    BY <1>4, <2>4, <2>5, <2>6
<1>7. \A i \in DOMAIN new : new[i].task \notin Range(line)
  BY <1>4 DEF Apart
<1> QED
  BY <1>5, <1>6, <1>7 DEF Apart

\* When the first n delayed tasks move to the line, the others stay apart from it.
LEMMA DelayedShrink ==
    ASSUME NEW line \in Seq(AllTasks), NEW d \in Seq(DelayedTask), NEW n \in 0 .. Len(d),
           NEW more \in Seq(AllTasks), Len(more) = n,
           \A i \in 1 .. n : more[i] = d[i].task,
           Apart(line, d)
    PROVE  Apart(line \o more, SubSeq(d, n + 1, Len(d)))
<1>1. PICK rest : rest = SubSeq(d, n + 1, Len(d))
  BY Zenon
<1>2. DOMAIN d = 1 .. Len(d) /\ Len(d) \in Nat /\ DOMAIN rest = 1 .. Len(d) - n
  BY <1>1
<1>3. \A i \in DOMAIN rest : n + i \in DOMAIN d /\ rest[i] = d[n + i] /\ i \in Int /\ i > 0
  BY <1>1
<1>4. \A i, j \in DOMAIN rest : i < j => rest[i].due <= rest[j].due
  <2>1. TAKE i, j \in DOMAIN rest
  <2>2. HAVE i < j
  <2>3. n + i < n + j
    BY <1>3, <2>2
  <2>4. \A k, l \in DOMAIN d : k < l => d[k].due <= d[l].due
    BY DEF Apart
  <2>5. d[n + i].due <= d[n + j].due
    BY <1>3, <2>3, <2>4, Zenon
  <2> QED
    BY <1>3, <2>5, Zenon
<1>5. \A i, j \in DOMAIN rest : rest[i].task = rest[j].task => i = j
  <2>1. TAKE i, j \in DOMAIN rest
  <2>2. HAVE rest[i].task = rest[j].task
  <2>3. n + i = n + j
    <3>1. \A k, l \in DOMAIN d : d[k].task = d[l].task => k = l
      BY DEF Apart
    <3>2. d[n + i].task = d[n + j].task
      BY <1>3, <2>2, Zenon
    <3> QED
      BY <1>3, <3>1, <3>2, Zenon
  <2> QED
    BY <1>3, <2>3
<1>6. ASSUME NEW i \in DOMAIN rest PROVE rest[i].task \notin Range(line \o more)
  <2>1. rest[i].task \notin Range(line)
    BY <1>3, Zenon DEF Apart
  <2>2. rest[i].task \notin Range(more)
    <3>1. SUFFICES ASSUME NEW k \in 1 .. n, rest[i].task = more[k] PROVE FALSE
      BY DEF Range
    <3>2. k \in DOMAIN d /\ k # n + i
      BY <1>2, <1>3
    <3>3. d[k].task = d[n + i].task
      BY <1>3, <3>1
    <3> QED
      BY <1>3, <3>2, <3>3, Zenon DEF Apart
  <2>3. Range(line \o more) = Range(line) \cup Range(more)
    BY ConcatSet
  <2> QED
    BY <2>1, <2>2, <2>3, Zenon
<1> QED
  BY <1>1, <1>4, <1>5, <1>6, Zenon DEF Apart

-----------------------------------------------------------------------------
(* Steps *)

\* The types of the queues, one by one, and what is in the line.
LEMMA LineFacts ==
    ASSUME RunnerTypeOK
    PROVE  /\ tasks \in Seq(AllTasks) /\ running_tasks \in Seq(AllTasks)
           /\ ran \in Seq(AllTasks) /\ posted \in Seq(AllTasks)
           /\ delayed_tasks \in Seq(DelayedTask)
           /\ ran \o running_tasks \in Seq(AllTasks)
           /\ Line \in Seq(AllTasks)
           /\ Range(Line) = Range(ran) \cup Range(running_tasks) \cup Range(tasks)
<1>1. /\ tasks \in Seq(AllTasks) /\ running_tasks \in Seq(AllTasks)
      /\ ran \in Seq(AllTasks) /\ posted \in Seq(AllTasks)
      /\ delayed_tasks \in Seq(DelayedTask)
  BY Zenon DEF RunnerTypeOK, DelayedTask
<1>2. \A s, t \in Seq(AllTasks) :
         s \o t \in Seq(AllTasks) /\ Range(s \o t) = Range(s) \cup Range(t)
  BY ConcatFacts, ConcatSet
<1>3. /\ ran \o running_tasks \in Seq(AllTasks)
      /\ Range(ran \o running_tasks) = Range(ran) \cup Range(running_tasks)
  BY <1>1, <1>2, Zenon
<1>4. /\ Line \in Seq(AllTasks)
      /\ Range(Line) = Range(ran \o running_tasks) \cup Range(tasks)
  BY <1>1, <1>2, <1>3, Zenon DEF Line
<1> QED
  BY <1>1, <1>3, <1>4, Zenon

\* What joins tasks_ joins the line at its end.
LEMMA LineGrowsAtEnd ==
    ASSUME RunnerTypeOK, NEW more \in Seq(AllTasks),
           tasks' = tasks \o more, running_tasks' = running_tasks, ran' = ran
    PROVE  Line' = Line \o more
<1>1. \A s, t, u \in Seq(AllTasks) : (s \o t) \o u = s \o (t \o u)
  BY ConcatLaws, Zenon
<1>2. Line' = (ran \o running_tasks) \o (tasks \o more)
  BY Zenon DEF Line
<1>3. ran \o running_tasks \in Seq(AllTasks) /\ tasks \in Seq(AllTasks)
  BY LineFacts, Zenon
<1> QED
  BY <1>1, <1>2, <1>3, Zenon DEF Line

\* A task that is not known yet is neither in the line nor delayed.
LEMMA UnknownFacts ==
    ASSUME RunnerTypeOK, NEW t, t \notin Known
    PROVE  t \notin Range(Line) /\ \A i \in DOMAIN delayed_tasks : delayed_tasks[i].task # t
<1>1. t \notin Range(Line)
  BY LineFacts, Zenon DEF Known
<1>2. \A i \in DOMAIN delayed_tasks : delayed_tasks[i].task # t
  BY Zenon DEF Known, Range
<1> QED
  BY <1>1, <1>2

\* PostPackagedTask(): a task that is posted joins the line at its end.
LEMMA PostTaskStep ==
    ASSUME RunnerInv, NEW t \in AllTasks, PostTask(t)
    PROVE  RunnerInv'
<1>1. RunnerTypeOK /\ InOrder(Line, posted) /\ Apart(Line, delayed_tasks) /\ BatchInHand
  BY Zenon DEF RunnerInv
<1>2. /\ tasks' = Append(tasks, t) /\ posted' = Append(posted, t)
      /\ delayed_tasks' = delayed_tasks /\ running_tasks' = running_tasks /\ ran' = ran
      /\ loop' = loop /\ notified' \in BOOLEAN
      /\ is_running' = is_running /\ g_signal_state' = g_signal_state
      /\ wake_time' = wake_time /\ now' = now
      /\ t \notin Known
  BY DEF PostTask, Notify
<1>3. <<t>> \in Seq(AllTasks) /\ Range(<<t>>) = {t}
  BY DEF Range
<1>4. tasks' = tasks \o <<t>> /\ posted' = posted \o <<t>> /\ Line' = Line \o <<t>>
  <2>1. tasks' = tasks \o <<t>> /\ posted' = posted \o <<t>>
    <3>1. \A s \in Seq(AllTasks), x \in AllTasks : Append(s, x) = s \o <<x>>
      BY ConcatLaws, Zenon
    <3> QED
      BY <1>1, <1>2, <3>1, LineFacts, Zenon
  <2> QED
    BY <1>1, <1>2, <1>3, <2>1, LineGrowsAtEnd, Zenon
<1>5. RunnerTypeOK'
  <2>1. tasks' \in Seq(AllTasks) /\ posted' \in Seq(AllTasks)
    BY <1>1, <1>2, LineFacts
  <2> QED
    BY <1>1, <1>2, <2>1, Zenon DEF RunnerTypeOK
<1>6. InOrder(Line', posted')
  <2>1. t \notin Range(Line)
    BY <1>1, <1>2, UnknownFacts, Zenon
  <2>2. Line \in Seq(AllTasks) /\ posted \in Seq(AllTasks)
    BY <1>1, LineFacts, Zenon
  <2>3. InOrder(Line \o <<t>>, posted \o <<t>>)
    BY <1>1, <2>1, <2>2, LineGrowsByPost, Zenon
  <2> QED
    BY <1>4, <2>3, Zenon
<1>7. Apart(Line', delayed_tasks')
  <2>1. Range(Line') = Range(Line) \cup {t}
    <3>1. Line \in Seq(AllTasks)
      BY <1>1, LineFacts, Zenon
    <3>2. \A s, u \in Seq(AllTasks) : Range(s \o u) = Range(s) \cup Range(u)
      BY ConcatSet
    <3> QED
      BY <1>3, <1>4, <3>1, <3>2, Zenon
  <2>2. \A i \in DOMAIN delayed_tasks : delayed_tasks[i].task # t
    BY <1>1, <1>2, UnknownFacts, Zenon
  <2> QED
    BY <1>1, <1>2, <2>1, <2>2, Zenon DEF Apart
<1>8. BatchInHand'
  BY <1>1, <1>2, Zenon DEF BatchInHand
<1> QED
  BY <1>5, <1>6, <1>7, <1>8, Zenon DEF RunnerInv

\* A delayed task is put where its time belongs.
LEMMA PostTaskWithDelayStep ==
    ASSUME RunnerInv, NEW t \in Tasks, NEW delay \in Delays, PostTaskWithDelay(t, delay)
    PROVE  RunnerInv'
<1>1. RunnerTypeOK /\ InOrder(Line, posted) /\ Apart(Line, delayed_tasks) /\ BatchInHand
  BY Zenon DEF RunnerInv
<1>2. /\ tasks' = tasks /\ posted' = posted
      /\ running_tasks' = running_tasks /\ ran' = ran
      /\ loop' = loop /\ notified' \in BOOLEAN
      /\ is_running' = is_running /\ g_signal_state' = g_signal_state
      /\ wake_time' = wake_time /\ now' = now
      /\ t \notin Known
  BY DEF PostTaskWithDelay, Notify
<1>3. PICK e : e = [due |-> now + delay, task |-> t]
  BY Zenon
<1>4. e \in DelayedTask /\ e.due = now + delay /\ e.task = t
  <2>1. now + delay \in 0 .. MaxTime
    BY <1>1, TaskRunnerAssumption DEF PostTaskWithDelay, RunnerTypeOK
  <2>2. t \in AllTasks
    BY DEF AllTasks
  <2> QED
    BY <1>3, <2>1, <2>2 DEF DelayedTask
<1>5. PICK n \in 0 .. Len(delayed_tasks) :
         UpperBound(n, now + delay) /\ delayed_tasks' = Insert(n, e)
  BY <1>3, Zenon DEF PostTaskWithDelay
<1>6. Line' = Line
  BY <1>2, Zenon DEF Line
<1>7. RunnerTypeOK'
  <2>1. delayed_tasks' \in Seq(DelayedTask)
    BY <1>1, <1>4, <1>5, LineFacts, InsertFacts, Zenon DEF Insert
  <2> QED
    BY <1>1, <1>2, <2>1, Zenon DEF RunnerTypeOK, DelayedTask
<1>8. Apart(Line', delayed_tasks')
  <2>1. /\ \A i \in 1 .. n : delayed_tasks[i].due <= e.due
        /\ \A i \in n + 1 .. Len(delayed_tasks) : delayed_tasks[i].due > e.due
    BY <1>4, <1>5, Zenon DEF UpperBound
  <2>2. e.task \notin Range(Line) /\ \A i \in DOMAIN delayed_tasks : delayed_tasks[i].task # e.task
    BY <1>1, <1>2, <1>4, UnknownFacts, Zenon
  <2> QED
    <3>1. delayed_tasks \in Seq(DelayedTask)
      BY <1>1, LineFacts, Zenon
    <3>2. Inserted(delayed_tasks', delayed_tasks, n, e)
      BY <1>4, <1>5, <3>1, InsertFacts, Zenon DEF Insert
    <3> QED
      BY <1>1, <1>4, <1>6, <2>1, <2>2, <3>1, <3>2, DelayedGrow, Zenon
<1> QED
  BY <1>1, <1>2, <1>6, <1>7, <1>8, Zenon DEF RunnerInv, BatchInHand

\* ScheduleDelayedTasks(): the delayed tasks that are due join the line, in the order
\* of their times.
LEMMA ScheduleDelayedTasksStep ==
    ASSUME RunnerInv, ScheduleDelayedTasks
    PROVE  RunnerInv'
<1>1. RunnerTypeOK /\ InOrder(Line, posted) /\ Apart(Line, delayed_tasks) /\ BatchInHand
  BY Zenon DEF RunnerInv
<1>2. /\ posted' = posted /\ running_tasks' = running_tasks /\ ran' = ran
      /\ loop = "schedule" /\ loop' = "grab" /\ notified' = notified
      /\ is_running' = is_running /\ g_signal_state' = g_signal_state
      /\ wake_time' = wake_time /\ now' = now
  BY Zenon DEF ScheduleDelayedTasks
<1>3. PICK n \in 0 .. Len(delayed_tasks) :
         /\ tasks' = tasks \o [i \in 1 .. n |-> delayed_tasks[i].task]
         /\ delayed_tasks' = SubSeq(delayed_tasks, n + 1, Len(delayed_tasks))
  BY Zenon DEF ScheduleDelayedTasks
<1>4. PICK more : more = [i \in 1 .. n |-> delayed_tasks[i].task]
  BY Zenon
<1>5. /\ delayed_tasks \in Seq(DelayedTask) /\ Line \in Seq(AllTasks)
      /\ tasks \in Seq(AllTasks) /\ posted \in Seq(AllTasks)
  BY <1>1, LineFacts, Zenon
<1>6. /\ more \in Seq(AllTasks) /\ Len(more) = n /\ DOMAIN more = 1 .. n
      /\ \A i \in 1 .. n : more[i] = delayed_tasks[i].task
  <2>1. \A x \in DelayedTask : x.task \in AllTasks
    BY DEF DelayedTask
  <2>2. \A i \in 1 .. n : delayed_tasks[i] \in DelayedTask
    BY <1>5
  <2>3. \A i \in 1 .. n : delayed_tasks[i].task \in AllTasks
    BY <2>1, <2>2, Zenon
  <2> QED
    BY <1>4, <2>3
<1>7. Line' = Line \o more
  BY <1>1, <1>2, <1>3, <1>4, <1>6, LineGrowsAtEnd, Zenon
<1>8. RunnerTypeOK'
  <2>1. tasks' \in Seq(AllTasks)
    BY <1>3, <1>4, <1>5, <1>6, ConcatFacts, Zenon
  <2>2. delayed_tasks' \in Seq(DelayedTask)
    BY <1>3, <1>5
  <2> QED
    BY <1>1, <1>2, <2>1, <2>2, Zenon DEF RunnerTypeOK, DelayedTask
<1>9. InOrder(Line', posted')
  <2>1. \A i \in DOMAIN more : i \in DOMAIN delayed_tasks
    BY <1>5, <1>6
  <2>2. /\ \A i, j \in DOMAIN more : more[i] = more[j] => i = j
        /\ \A i \in DOMAIN more : more[i] \notin Range(Line)
    BY <1>1, <1>6, <2>1, Zenon DEF Apart
  <2>3. InOrder(Line \o more, posted)
    BY <1>1, <1>5, <1>6, <2>2, LineGrows, Zenon
  <2> QED
    BY <1>2, <1>7, <2>3, Zenon
<1>10. Apart(Line', delayed_tasks')
  BY <1>1, <1>3, <1>5, <1>6, <1>7, DelayedShrink, Zenon
<1>11. BatchInHand'
  BY <1>1, <1>2 DEF BatchInHand
<1> QED
  BY <1>8, <1>9, <1>10, <1>11, Zenon DEF RunnerInv

\* GrabMoreRunnableTasks(): the batch is empty when it is swapped with tasks_, so that
\* the line stays as it is.
LEMMA GrabTasksStep ==
    ASSUME RunnerInv, GrabTasks
    PROVE  RunnerInv'
<1>1. RunnerTypeOK /\ InOrder(Line, posted) /\ Apart(Line, delayed_tasks) /\ BatchInHand
  BY Zenon DEF RunnerInv
<1>2. /\ posted' = posted /\ delayed_tasks' = delayed_tasks /\ ran' = ran
      /\ notified' = notified
      /\ is_running' = is_running /\ g_signal_state' = g_signal_state
      /\ wake_time' = wake_time /\ now' = now
      /\ running_tasks' = tasks /\ tasks # <<>> /\ tasks' = running_tasks
      /\ loop' = IF loop = "grab" THEN "run" ELSE "flush_run"
  BY Zenon DEF GrabTasks, TasksLeft
<1>3. running_tasks = <<>>
  BY <1>1 DEF GrabTasks, BatchInHand
<1>4. Line' = Line
  <2>1. ran \in Seq(AllTasks) /\ tasks \in Seq(AllTasks) /\ ran \o tasks \in Seq(AllTasks)
    <3>1. ran \in Seq(AllTasks) /\ tasks \in Seq(AllTasks)
      BY <1>1, LineFacts, Zenon
    <3> QED
      BY <3>1, ConcatFacts, Zenon
  <2>2. \A s \in Seq(AllTasks) : s \o <<>> = s
    BY ConcatLaws, Zenon
  <2>3. Line' = (ran \o tasks) \o <<>> /\ Line = (ran \o <<>>) \o tasks
    BY <1>2, <1>3, Zenon DEF Line
  <2> QED
    BY <2>1, <2>2, <2>3, Zenon
<1>5. RunnerTypeOK'
  <2>1. loop' \in {"run", "flush_run"}
    BY <1>2
  <2> QED
    BY <1>1, <1>2, <2>1 DEF RunnerTypeOK
<1>6. BatchInHand'
  BY <1>2 DEF BatchInHand
<1> QED
  BY <1>1, <1>2, <1>4, <1>5, <1>6, Zenon DEF RunnerInv

\* RunRunnableTasks(): the next task of the batch runs, and what it posts joins the
\* line at its end.
LEMMA RunTaskStep ==
    ASSUME RunnerInv, NEW posts \in {<<>>} \cup {<<c>> : c \in Children}, RunTask(posts)
    PROVE  RunnerInv'
<1>1. RunnerTypeOK /\ InOrder(Line, posted) /\ Apart(Line, delayed_tasks) /\ BatchInHand
  BY Zenon DEF RunnerInv
<1>2. /\ loop \in {"run", "flush_run"}
      /\ Range(posts) \cap Known = {}
      /\ ran' = Append(ran, Head(running_tasks))
      /\ running_tasks' = Tail(running_tasks)
      /\ tasks' = tasks \o posts /\ posted' = posted \o posts
      /\ is_running' \in BOOLEAN
      /\ loop' = IF Len(running_tasks) > 1 THEN loop
                 ELSE IF loop = "run" THEN "check" ELSE "flush"
      /\ delayed_tasks' = delayed_tasks /\ g_signal_state' = g_signal_state
      /\ wake_time' = wake_time /\ notified' = notified /\ now' = now
  BY DEF RunTask
<1>3. /\ ran \in Seq(AllTasks) /\ running_tasks \in Seq(AllTasks) /\ running_tasks # <<>>
      /\ tasks \in Seq(AllTasks) /\ posted \in Seq(AllTasks) /\ Line \in Seq(AllTasks)
  BY <1>1, <1>2, LineFacts, Zenon DEF BatchInHand
<1>4. posts \in Seq(AllTasks)
  <2>1. \A c \in Children : <<c>> \in Seq(AllTasks)
    BY DEF AllTasks
  <2>2. <<>> \in Seq(AllTasks)
    OBVIOUS
  <2> QED
    BY <2>1, <2>2, Zenon
<1>5. Line' = Line \o posts
  <2>1. Append(ran, Head(running_tasks)) \o Tail(running_tasks) = ran \o running_tasks
    BY <1>3, ConcatLaws, Zenon
  <2>2. \A s, t, u \in Seq(AllTasks) : (s \o t) \o u = s \o (t \o u)
    BY ConcatLaws, Zenon
  <2>3. ran \o running_tasks \in Seq(AllTasks)
    BY <1>1, LineFacts, Zenon
  <2>4. Line' = (ran \o running_tasks) \o (tasks \o posts)
    BY <1>2, <2>1, Zenon DEF Line
  <2> QED
    BY <1>3, <1>4, <2>2, <2>3, <2>4, Zenon DEF Line
<1>6. RunnerTypeOK'
  <2>1. tasks' \in Seq(AllTasks) /\ posted' \in Seq(AllTasks)
    BY <1>2, <1>3, <1>4, ConcatFacts, Zenon
  <2>2. ran' \in Seq(AllTasks) /\ running_tasks' \in Seq(AllTasks)
    BY <1>2, <1>3
  <2>3. loop' \in {"run", "flush_run", "check", "flush"}
    BY <1>2
  <2> QED
    BY <1>1, <1>2, <2>1, <2>2, <2>3 DEF RunnerTypeOK
<1>7. InOrder(Line', posted') /\ Apart(Line', delayed_tasks')
  <2>1. CASE posts = <<>>
    <3>1. \A s \in Seq(AllTasks) : s \o <<>> = s
      BY ConcatLaws, Zenon
    <3>2. Line' = Line /\ posted' = posted
      BY <1>2, <1>3, <1>5, <2>1, <3>1, Zenon
    <3> QED
      BY <1>1, <1>2, <3>2, Zenon
  <2>2. CASE posts # <<>>
    <3>1. PICK c \in Children : posts = <<c>>
      BY <2>2, Zenon
    <3>2. Range(posts) = {c} /\ c \in AllTasks
      BY <3>1 DEF Range, AllTasks
    <3>3. c \notin Range(Line) /\ \A i \in DOMAIN delayed_tasks : delayed_tasks[i].task # c
      <4>1. c \notin Known
        BY <1>2, <3>2, Zenon
      <4> QED
        BY <1>1, <4>1, UnknownFacts, Zenon
    <3>4. InOrder(Line \o <<c>>, posted \o <<c>>)
      BY <1>1, <1>3, <3>2, <3>3, LineGrowsByPost, Zenon
    <3>5. Range(Line') = Range(Line) \cup {c}
      <4>1. \A s, u \in Seq(AllTasks) : Range(s \o u) = Range(s) \cup Range(u)
        BY ConcatSet
      <4> QED
        <5>1. Range(Line \o posts) = Range(Line) \cup Range(posts)
          BY <1>3, <1>4, <4>1, Zenon
        <5> QED
          BY <1>5, <3>2, <5>1, Zenon
    <3>6. Apart(Line', delayed_tasks')
      BY <1>1, <1>2, <3>3, <3>5, Zenon DEF Apart
    <3> QED
      BY <1>2, <1>5, <3>1, <3>4, <3>6, Zenon
  <2> QED
    BY <2>1, <2>2, Zenon
<1>8. BatchInHand'
  <2>1. Tail(running_tasks) # <<>> <=> Len(running_tasks) > 1
    <3>1. Len(Tail(running_tasks)) = Len(running_tasks) - 1 /\ Len(running_tasks) \in Nat
          /\ Tail(running_tasks) \in Seq(AllTasks)
      BY <1>3
    <3>2. \A s \in Seq(AllTasks) : s = <<>> <=> Len(s) = 0
      OBVIOUS
    <3>3. Tail(running_tasks) = <<>> <=> Len(running_tasks) - 1 = 0
      BY <3>1, <3>2, Zenon
    <3>4. Len(running_tasks) # 0
      BY <1>3, <3>2, Zenon
    <3>5. \A k \in Nat : k # 0 => (k > 1 <=> k - 1 # 0)
      OBVIOUS
    <3> QED
      BY <3>1, <3>3, <3>4, <3>5, Zenon
  <2>2. CASE Len(running_tasks) > 1
    BY <1>2, <2>1, <2>2, Zenon DEF BatchInHand
  <2>3. CASE ~(Len(running_tasks) > 1)
    BY <1>2, <2>1, <2>3 DEF BatchInHand
  <2> QED
    BY <2>2, <2>3, Zenon
<1> QED
  BY <1>6, <1>7, <1>8, Zenon DEF RunnerInv

\* The other steps of the loop, a signal and the clock leave the queues alone.
LEMMA QuietStep ==
    ASSUME RunnerInv,
           UNCHANGED <<tasks, delayed_tasks, running_tasks, ran, posted>>,
           RunnerTypeOK', BatchInHand'
    PROVE  RunnerInv'
BY Zenon DEF RunnerInv, Line

\* Every step keeps the invariant.
LEMMA RunnerStep ==
    ASSUME RunnerInv, [RunnerNext]_runner_vars
    PROVE  RunnerInv'
<1>1. RunnerTypeOK /\ BatchInHand
  BY Zenon DEF RunnerInv
<1>2. ASSUME NEW t \in Tasks, PostTask(t) PROVE RunnerInv'
  <2>1. t \in AllTasks
    BY DEF AllTasks
  <2> QED
    BY <1>2, <2>1, PostTaskStep, Zenon
<1>3. ASSUME NEW t \in Tasks, NEW delay \in Delays, PostTaskWithDelay(t, delay) PROVE RunnerInv'
  BY <1>3, PostTaskWithDelayStep, Zenon
<1>4. CASE RequestStopSoon
  <2>1. Quit \in AllTasks
    BY DEF AllTasks
  <2> QED
    BY <1>4, <2>1, PostTaskStep, Zenon DEF RequestStopSoon
<1>5. CASE Signal
  <2>1. RunnerTypeOK' /\ BatchInHand'
    BY <1>1, <1>5 DEF Signal, RunnerTypeOK, BatchInHand
  <2> QED
    BY <1>5, <2>1, QuietStep, Zenon DEF Signal
<1>6. CASE Start
  <2>1. RunnerTypeOK' /\ BatchInHand'
    BY <1>1, <1>6 DEF Start, RunnerTypeOK, BatchInHand
  <2> QED
    BY <1>6, <2>1, QuietStep, Zenon DEF Start
<1>7. CASE Sleep
  <2>1. WakeTime \in 0 .. kNever
    <3>1. CASE delayed_tasks = <<>>
      BY <3>1, TaskRunnerAssumption DEF WakeTime, kNever
    <3>2. CASE delayed_tasks # <<>>
      <4>1. delayed_tasks[1] \in DelayedTask
        BY <1>1, <3>2, LineFacts
      <4>2. delayed_tasks[1].due \in 0 .. MaxTime
        BY <4>1 DEF DelayedTask
      <4> QED
        BY <3>2, <4>2, TaskRunnerAssumption DEF WakeTime, kNever
    <3> QED
      BY <3>1, <3>2
  <2>2. RunnerTypeOK' /\ BatchInHand'
    BY <1>1, <1>7, <2>1, Zenon DEF Sleep, RunnerTypeOK, BatchInHand
  <2> QED
    BY <1>7, <2>2, QuietStep, Zenon DEF Sleep
<1>8. CASE WakeUp
  <2>1. kNever \in 0 .. kNever
    BY TaskRunnerAssumption DEF kNever
  <2>2. RunnerTypeOK' /\ BatchInHand'
    BY <1>1, <1>8, <2>1, Zenon DEF WakeUp, RunnerTypeOK, BatchInHand
  <2> QED
    BY <1>8, <2>2, QuietStep, Zenon DEF WakeUp
<1>9. CASE CheckSignal
  <2>1. is_running' \in BOOLEAN /\ loop' \in {"schedule", "flush"}
    BY <1>9 DEF CheckSignal, StaysRunning
  <2>2. RunnerTypeOK' /\ BatchInHand'
    BY <1>1, <1>9, <2>1 DEF CheckSignal, RunnerTypeOK, BatchInHand
  <2> QED
    BY <1>9, <2>2, QuietStep, Zenon DEF CheckSignal
<1>10. CASE Finish
  <2>1. RunnerTypeOK' /\ BatchInHand'
    BY <1>1, <1>10 DEF Finish, Flushed, RunnerTypeOK, BatchInHand
  <2> QED
    BY <1>10, <2>1, QuietStep, Zenon DEF Finish
<1>11. CASE Tick
  <2>1. now' \in 0 .. MaxTime
    BY <1>1, <1>11, TaskRunnerAssumption DEF Tick, RunnerTypeOK
  <2>2. RunnerTypeOK' /\ BatchInHand'
    BY <1>1, <1>11, <2>1 DEF Tick, RunnerTypeOK, BatchInHand
  <2> QED
    BY <1>11, <2>2, QuietStep, Zenon DEF Tick
<1>12. CASE UNCHANGED runner_vars
  <2>1. RunnerTypeOK' /\ BatchInHand'
    BY <1>1, <1>12, Zenon DEF runner_vars, RunnerTypeOK, BatchInHand
  <2> QED
    BY <1>12, <2>1, QuietStep, Zenon DEF runner_vars
<1>13. CASE RunLoop
  BY <1>6, <1>7, <1>8, <1>9, <1>10, <1>13,
     ScheduleDelayedTasksStep, GrabTasksStep, RunTaskStep, Zenon DEF RunLoop
<1> QED
  BY <1>2, <1>3, <1>4, <1>5, <1>8, <1>11, <1>12, <1>13, Zenon DEF RunnerNext

-----------------------------------------------------------------------------
(* The theorems *)

\* Both queues, the batch and the tasks that ran fit together in every state.
THEOREM RunnerInvariant == RunnerSpec => []RunnerInv
<1>1. RunnerInit => RunnerInv
  <2> SUFFICES ASSUME RunnerInit PROVE RunnerInv
    OBVIOUS
  <2>1. RunnerTypeOK
    <3>1. <<>> \in Seq(AllTasks) /\ <<>> \in Seq([due : 0 .. MaxTime, task : AllTasks])
      OBVIOUS
    <3>2. kNever \in 0 .. kNever /\ 0 \in 0 .. MaxTime
      BY TaskRunnerAssumption DEF kNever
    <3>3. {tasks, running_tasks, ran, posted} \subseteq Seq(AllTasks)
      BY <3>1, Zenon DEF RunnerInit
    <3> QED
      BY <3>1, <3>2, <3>3, Zenon DEF RunnerInit, RunnerTypeOK
  <2>2. DOMAIN Line = {} /\ DOMAIN posted = {} /\ DOMAIN delayed_tasks = {}
    BY DEF RunnerInit, Line
  <2>3. InOrder(Line, posted) /\ Apart(Line, delayed_tasks)
    BY <2>2, Zenon DEF InOrder, Apart, Range
  <2>4. BatchInHand
    BY DEF RunnerInit, BatchInHand
  <2> QED
    BY <2>1, <2>3, <2>4, Zenon DEF RunnerInv
<1>2. RunnerInv /\ [RunnerNext]_runner_vars => RunnerInv'
  BY RunnerStep
<1> QED
  BY <1>1, <1>2, PTL DEF RunnerSpec

\* Tasks posted without a delay run in the order in which they were posted, and none
\* is lost or run twice: whichever threads post, and whatever else runs in between.
THEOREM TasksRunInOrder == RunnerSpec => []RunInOrder
<1>1. RunnerInv => RunInOrder
  BY Zenon DEF RunnerInv, InOrder, RunInOrder
<1> QED
  BY <1>1, RunnerInvariant, PTL

\* Every task posted without a delay has run when RunUntilStopped() returns, also the
\* ones that the last tasks posted.
THEOREM NoTaskLeftBehind == RunnerSpec => NothingLeftBehind
<1> DEFINE Ends == loop' = "stopped" /\ loop # "stopped"
           AllRan == Range(posted) \subseteq Range(ran)
<1>1. RunnerInv /\ [RunnerNext]_runner_vars /\ Ends => AllRan
  <2> SUFFICES ASSUME RunnerInv, [RunnerNext]_runner_vars, Ends PROVE AllRan
    OBVIOUS
  <2>1. Finish
    BY Zenon DEF RunnerNext, runner_vars, PostTask, PostTaskWithDelay, RequestStopSoon, Signal,
           RunLoop, Start, ScheduleDelayedTasks, GrabTasks, Sleep, WakeUp, RunTask, CheckSignal,
           Tick
  <2>2. tasks = <<>> /\ running_tasks = <<>>
    BY <2>1 DEF Finish, Flushed, RunnerInv, BatchInHand
  <2>3. Range(Line) = Range(ran)
    <3>1. Range(Line) = Range(ran) \cup Range(running_tasks) \cup Range(tasks)
      BY LineFacts, Zenon DEF RunnerInv
    <3>2. Range(<<>>) = {}
      BY DEF Range
    <3> QED
      BY <2>2, <3>1, <3>2, Zenon
  <2> QED
    BY <2>3, Zenon DEF RunnerInv, InOrder
<1>2. RunnerInv /\ [RunnerNext]_runner_vars => [Ends => AllRan]_runner_vars
  BY <1>1, Zenon
<1> QED
  BY <1>2, RunnerInvariant, PTL DEF RunnerSpec, NothingLeftBehind

\* What a step may do to the delayed tasks.
InTurn ==
    \A i \in DOMAIN delayed_tasks :
       (\/ delayed_tasks[i].due > now
        \/ \E j \in 1 .. (i - 1) : delayed_tasks[j] \in Range(delayed_tasks'))
          => delayed_tasks[i] \in Range(delayed_tasks')

\* ScheduleDelayedTasks() takes the tasks that are due, and those are the first ones.
LEMMA ScheduleInTurn ==
    ASSUME RunnerInv, ScheduleDelayedTasks
    PROVE  InTurn
<1>1. Apart(Line, delayed_tasks) /\ delayed_tasks \in Seq(DelayedTask) /\ now \in Int
  <2>1. RunnerTypeOK /\ Apart(Line, delayed_tasks)
    BY Zenon DEF RunnerInv
  <2>2. now \in Int
    BY <2>1 DEF RunnerTypeOK
  <2> QED
    BY <2>1, <2>2, LineFacts, Zenon
<1>2. PICK n \in 0 .. Len(delayed_tasks) :
         /\ UpperBound(n, now)
         /\ delayed_tasks' = SubSeq(delayed_tasks, n + 1, Len(delayed_tasks))
  BY Zenon DEF ScheduleDelayedTasks
<1>3. PICK d, rest : d = delayed_tasks /\ rest = delayed_tasks'
  OBVIOUS
<1>4. /\ DOMAIN d = 1 .. Len(d) /\ Len(d) \in Nat /\ DOMAIN rest = 1 .. Len(d) - n
      /\ \A k \in 1 .. Len(d) - n : rest[k] = d[n + k]
  BY <1>1, <1>2, <1>3
<1>5. \A i \in n + 1 .. Len(d) : d[i] \in Range(rest)
  <2>1. TAKE i \in n + 1 .. Len(d)
  <2>2. i - n \in DOMAIN rest /\ n + (i - n) = i
    BY <1>4
  <2>3. rest[i - n] = d[i]
    BY <1>4, <2>2
  <2> QED
    BY <2>2, <2>3, Zenon DEF Range
<1>6. \A j \in DOMAIN d : d[j] \in Range(rest) => j > n
  <2>1. TAKE j \in DOMAIN d
  <2>2. HAVE d[j] \in Range(rest)
  <2>3. PICK k \in 1 .. Len(d) - n : d[j] = rest[k]
    BY <1>4, <2>2, Zenon DEF Range
  <2>4. n + k \in DOMAIN d /\ d[j] = d[n + k] /\ n + k > n
    BY <1>4, <2>3
  <2>5. j = n + k
    BY <1>1, <1>3, <2>4, Zenon DEF Apart
  <2> QED
    BY <2>4, <2>5, Zenon
<1>7. \A i \in DOMAIN d : d[i].due > now => i > n
  <2>1. TAKE i \in DOMAIN d
  <2>2. HAVE d[i].due > now
  <2>3. \A k \in 1 .. n : d[k].due <= now
    BY <1>2, <1>3, Zenon DEF UpperBound
  <2>4. d[i].due \in Int
    <3>1. d[i] \in DelayedTask
      BY <1>1, <1>3
    <3> QED
      BY <3>1 DEF DelayedTask
  <2> QED
    BY <1>1, <1>4, <2>2, <2>3, <2>4
<1>8. ASSUME NEW i \in DOMAIN d,
             d[i].due > now \/ \E j \in 1 .. (i - 1) : d[j] \in Range(rest)
      PROVE  d[i] \in Range(rest)
  <2>1. \A j \in 1 .. (i - 1) : j \in DOMAIN d /\ (j > n => i > n)
    BY <1>4
  <2>2. i > n
    BY <1>6, <1>7, <1>8, <2>1, Zenon
  <2>3. i \in n + 1 .. Len(d)
    BY <1>4, <2>2
  <2> QED
    BY <1>5, <2>3, Zenon
<1> QED
  BY <1>3, <1>8, Zenon DEF InTurn

\* A delayed task that is inserted displaces none.
LEMMA InsertInTurn ==
    ASSUME RunnerInv, NEW t \in Tasks, NEW delay \in Delays, PostTaskWithDelay(t, delay)
    PROVE  InTurn
<1>1. RunnerTypeOK
  BY Zenon DEF RunnerInv
<1>2. PICK e : e = [due |-> now + delay, task |-> t]
  BY Zenon
<1>3. e \in DelayedTask
  <2>1. now + delay \in 0 .. MaxTime
    BY <1>1, TaskRunnerAssumption DEF PostTaskWithDelay, RunnerTypeOK
  <2>2. t \in AllTasks
    BY DEF AllTasks
  <2> QED
    BY <1>2, <2>1, <2>2 DEF DelayedTask
<1>4. PICK n \in 0 .. Len(delayed_tasks) : delayed_tasks' = Insert(n, e)
  BY <1>2, Zenon DEF PostTaskWithDelay
<1>5. delayed_tasks \in Seq(DelayedTask)
  BY <1>1, LineFacts, Zenon
<1>6. Inserted(delayed_tasks', delayed_tasks, n, e)
  BY <1>3, <1>4, <1>5, InsertFacts, Zenon DEF Insert
<1>7. PICK d, new : d = delayed_tasks /\ new = delayed_tasks'
  OBVIOUS
<1>8. ASSUME NEW i \in DOMAIN d PROVE d[i] \in Range(new)
  <2>1. \/ i \in DOMAIN new /\ new[i] = d[i]
        \/ i + 1 \in DOMAIN new /\ new[i + 1] = d[i]
    BY <1>5, <1>6, <1>7 DEF Inserted
  <2> QED
    BY <2>1, Zenon DEF Range
<1> QED
  BY <1>7, <1>8, Zenon DEF InTurn

\* A delayed task stays delayed until it is due and all that are due before it have
\* left, whatever is posted meanwhile.
THEOREM DelayedTasksInTurn == RunnerSpec => DelayedInTurn
<1>1. RunnerInv /\ [RunnerNext]_runner_vars => [InTurn]_runner_vars
  <2> SUFFICES ASSUME RunnerInv, RunnerNext PROVE InTurn
    BY Zenon
  <2>1. CASE UNCHANGED delayed_tasks
    BY <2>1, Zenon DEF InTurn, Range
  <2>2. \/ UNCHANGED delayed_tasks
        \/ ScheduleDelayedTasks
        \/ \E t \in Tasks, delay \in Delays : PostTaskWithDelay(t, delay)
    BY Zenon DEF RunnerNext, PostTask, RequestStopSoon, Signal, RunLoop, Start,
           GrabTasks, Sleep, WakeUp, RunTask, CheckSignal, Finish, Tick
  <2> QED
    BY <2>1, <2>2, ScheduleInTurn, InsertInTurn, Zenon
<1> QED
  BY <1>1, RunnerInvariant, PTL DEF RunnerSpec, DelayedInTurn, InTurn

-----------------------------------------------------------------------------
(* The inductive invariant *)

Replies == [seq : Requests, valid : BOOLEAN, streams : SUBSET {0, 1}]

SenderTypes ==
    /\ kind \in Seq(Kinds) /\ Len(kind) <= MaxRequests
    /\ current_negotiation \in 0 .. Len(kind) /\ awaiting_replies \subseteq 1 .. Len(kind)
    /\ timers \in Seq(Requests) /\ \A i \in 1 .. Len(timers) : timers[i] <= Len(kind)
    /\ state \in {"idle", "streaming", "remoting"}
    /\ senders \in [offer : 0 .. MaxRequests, answer : 0 .. MaxRequests, streams : SUBSET {0, 1}]
    /\ result \in [Requests -> {"none"} \union Outcomes]
    /\ overlapped \in BOOLEAN
ReceiverTypes ==
    /\ supports \subseteq {"audio", "video", "remoting"}
    /\ socket_state \in {"starting", "ready", "invalid"}
    /\ pending_offer \in 0 .. MaxRequests /\ receivers \in 0 .. MaxRequests
    /\ to_sender \in Seq(Replies) /\ replies \in [Requests -> Nat]
    /\ to_receiver \in Seq(Requests)

\* current_negotiation is the last offer.
LastOffer ==
    /\ current_negotiation # None => kind[current_negotiation] \in Offers
    /\ \A i \in 1 .. Len(kind) : kind[i] \in Offers => i <= current_negotiation

\* The requests that have reached the receiver are the first ones.
Received == Len(kind) - Len(to_receiver)
RequestsInOrder ==
    /\ Received >= 0
    /\ \A j \in 1 .. Len(to_receiver) : to_receiver[j] = Received + j

\* Those that have reached it have their reply, but for an offer that waits.
Replied ==
    /\ \A i \in Requests : replies[i] = IF i > Received \/ i = pending_offer THEN 0 ELSE 1
    /\ pending_offer <= Received /\ receivers <= Received
    /\ socket_state = "starting" => receivers = None
    /\ pending_offer # None => kind[pending_offer] \in Offers /\ socket_state = "starting"
    /\ receivers # None => kind[receivers] \in Offers
    /\ \A p \in 1 .. Len(to_sender) : to_sender[p].seq <= Received

\* No callback has run that is awaited, and while offers are made one after the other the
\* one that is awaited is the last.
CallbacksPending ==
    /\ \A i \in Requests : i \in awaiting_replies \/ i > Len(kind) => result[i] = "none"
    /\ ~overlapped => /\ \A i \in awaiting_replies : kind[i] \in Offers => i = current_negotiation
                      /\ senders.offer = senders.answer

\* Offers are accepted in order, so that the last one of which the sender knows is the
\* one that the receiver has.
IsAnswer(m) == m.valid /\ kind[m.seq] \in Offers
Succeeded(i) == kind[i] \in Offers /\ result[i] = "done"
AnswersInOrder ==
    /\ \A i \in 1 .. Len(kind) : Succeeded(i) => i <= receivers
    /\ \A p \in 1 .. Len(to_sender) : IsAnswer(to_sender[p]) =>
          /\ to_sender[p].seq <= receivers
          /\ \A q \in 1 .. Len(to_sender) :
                q < p /\ IsAnswer(to_sender[q]) => to_sender[q].seq < to_sender[p].seq
          /\ \A i \in 1 .. Len(kind) : Succeeded(i) => i < to_sender[p].seq

\* Whatever comes after the answer to the last offer, its streams stay.
LastOfferKept ==
    current_negotiation # None /\ result[current_negotiation] = "done" =>
        /\ senders.offer = current_negotiation /\ senders.answer = current_negotiation
        /\ state = IF kind[current_negotiation] = "remoting" THEN "remoting" ELSE "streaming"

SessionInv ==
    /\ SenderTypes /\ ReceiverTypes /\ LastOffer /\ RequestsInOrder /\ Replied
    /\ CallbacksPending /\ AnswersInOrder /\ LastOfferKept

-----------------------------------------------------------------------------
(* Lemmas about sequences and about what is posted *)

\* The elements of a sequence.
LEMMA SeqFacts ==
    ASSUME NEW S, NEW s \in Seq(S)
    PROVE  Len(s) \in Nat /\ \A i \in 1 .. Len(s) : s[i] \in S
  OBVIOUS

\* The numbers of the requests, and the replies to them.
LEMMA RequestFacts ==
    /\ MaxRequests \in Nat /\ Requests \subseteq Nat /\ Requests \subseteq 0 .. MaxRequests
    /\ \A n \in Nat : \A c \in 0 .. n : c # None => c \in 1 .. n /\ c > 0
    /\ \A m \in Replies : m.seq \in Nat /\ m.seq \in Requests /\ m.streams \in SUBSET {0, 1}
  BY RequestsAssumption DEF Requests, None, Replies

\* The first element of a sequence, and the others.
LEMMA HeadTailFacts ==
    ASSUME NEW S, NEW s \in Seq(S), s # <<>>
    PROVE  /\ Head(s) = s[1] /\ s[1] \in S /\ Len(s) >= 1 /\ 1 \in 1 .. Len(s)
           /\ Tail(s) \in Seq(S) /\ Len(Tail(s)) = Len(s) - 1
           /\ \A i \in 1 .. Len(Tail(s)) :
                 Tail(s)[i] = s[i + 1] /\ i + 1 \in 1 .. Len(s) /\ 1 < i + 1
  <1>1. /\ Head(s) = s[1] /\ s[1] \in S /\ Len(s) \in Nat /\ Len(s) >= 1
        /\ Tail(s) \in Seq(S) /\ Len(Tail(s)) = Len(s) - 1
        /\ \A i \in 1 .. Len(Tail(s)) : Tail(s)[i] = s[i + 1]
    OBVIOUS
  <1> QED
    BY <1>1

\* A sequence with one more element.
LEMMA AppendFacts ==
    ASSUME NEW S, NEW s \in Seq(S), NEW x \in S
    PROVE  /\ Append(s, x) \in Seq(S) /\ Len(Append(s, x)) = Len(s) + 1
           /\ \A i \in 1 .. Len(s) : Append(s, x)[i] = s[i]
           /\ Append(s, x)[Len(s) + 1] = x
  OBVIOUS

\* The number of elements is defined by recursion.  No element:
LEMMA NoElement == Cardinality({}) = 0
  <1> DEFINE Counts(f) ==
               f = [T \in SUBSET {} |-> IF T = {} THEN 0 ELSE 1 + f[T \ {CHOOSE x : x \in T}]]
  <1>1. Counts([T \in SUBSET {} |-> 0])
    OBVIOUS
  <1>2. Counts(CHOOSE f : Counts(f))
    BY <1>1, Zenon
  <1>3. (CHOOSE f : Counts(f))[{}] = 0
    BY <1>2, Zenon
  <1>4. Cardinality({}) = (CHOOSE f : Counts(f))[{}]
    BY Zenon DEF Cardinality
  <1> QED
    BY <1>3, <1>4, Zenon

\* And one element.
LEMMA OneElement == ASSUME NEW a PROVE Cardinality({a}) = 1
  <1> DEFINE Counts(f) ==
               f = [T \in SUBSET {a} |-> IF T = {} THEN 0 ELSE 1 + f[T \ {CHOOSE x : x \in T}]]
             C == CHOOSE f : Counts(f)
  <1>1. \A T \in SUBSET {a} : T # {} => T = {a} /\ T \ {CHOOSE x : x \in T} = {}
    <2> SUFFICES ASSUME NEW T \in SUBSET {a}, T # {}
                 PROVE  T = {a} /\ T \ {CHOOSE x : x \in T} = {}
      OBVIOUS
    <2>1. T = {a}
      OBVIOUS
    <2>2. (CHOOSE x : x \in T) \in T
      BY <2>1
    <2> QED
      BY <2>1, <2>2
  <1>2. Counts([T \in SUBSET {a} |-> IF T = {} THEN 0 ELSE 1])
    BY <1>1
  <1>3. Counts(C)
    BY <1>2, Zenon
  <1>4. {a} \in SUBSET {a} /\ {} \in SUBSET {a} /\ {a} # {}
    OBVIOUS
  <1>5. C[{}] = 0
    BY <1>3, <1>4, Zenon
  <1>6. C[{a}] = 1 + C[{a} \ {CHOOSE x : x \in {a}}]
    BY <1>3, <1>4, Zenon
  <1>7. {a} \ {CHOOSE x : x \in {a}} = {}
    BY <1>1, <1>4, Zenon
  <1>8. Cardinality({a}) = C[{a}]
    BY Zenon DEF Cardinality
  <1> HIDE DEF C
  <1> QED
    BY <1>5, <1>6, <1>7, <1>8

\* How many of the messages reply to request i.
Count(ms, i) == Cardinality({j \in DOMAIN ms : ms[j].seq = i})
LEMMA CountFacts ==
    /\ \A i : Count(<<>>, i) = 0
    /\ \A m, i : Count(<<m>>, i) = IF m.seq = i THEN 1 ELSE 0
  <1>1. ASSUME NEW i PROVE Count(<<>>, i) = 0
    <2>1. {j \in DOMAIN <<>> : <<>>[j].seq = i} = {}
      OBVIOUS
    <2> QED
      BY <2>1, NoElement, Zenon DEF Count
  <1>2. ASSUME NEW m, NEW i PROVE Count(<<m>>, i) = IF m.seq = i THEN 1 ELSE 0
    <2>1. DOMAIN <<m>> = {1} /\ <<m>>[1] = m
      OBVIOUS
    <2>2. CASE m.seq = i
      <3>1. {j \in DOMAIN <<m>> : <<m>>[j].seq = i} = {1}
        BY <2>1, <2>2
      <3> QED
        BY <2>2, <3>1, OneElement, Zenon DEF Count
    <2>3. CASE m.seq # i
      <3>1. {j \in DOMAIN <<m>> : <<m>>[j].seq = i} = {}
        BY <2>1, <2>3
      <3> QED
        BY <2>3, <3>1, NoElement, Zenon DEF Count
    <2> QED
      BY <2>2, <2>3
  <1> QED
    BY <1>1, <1>2

\* A request is open if it is under way or waits for the socket.
Open(i, received, pending) == i > received \/ i = pending

\* A step of the receiver: it replies to each request that is not open any more, and to no
\* other; an answer is to the offer of its new receivers, which comes after the last one.
ReceiverMoves(ms) ==
    /\ UNCHANGED <<sender_vars, overlapped, supports>> /\ Post(ms)
    /\ ms = <<>> \/ \E m \in Replies : ms = <<m>>
    /\ socket_state' \in {"starting", "ready", "invalid"}
    /\ \/ to_receiver' = to_receiver
       \/ to_receiver # <<>> /\ to_receiver' = Tail(to_receiver)
    /\ pending_offer' \in 0 .. Received' /\ receivers' \in 0 .. Received'
    /\ \A i \in Requests : Open(i, Received', pending_offer') => Open(i, Received, pending_offer)
    /\ \A i \in Requests :
          Count(ms, i) = IF Open(i, Received, pending_offer) /\ ~Open(i, Received', pending_offer')
                         THEN 1 ELSE 0
    /\ socket_state' = "starting" => receivers' = None
    /\ pending_offer' # None => kind[pending_offer'] \in Offers /\ socket_state' = "starting"
    /\ receivers' # None => kind[receivers'] \in Offers
    /\ receivers <= receivers'
    /\ \A j \in 1 .. Len(ms) :
          /\ ms[j].seq <= Received'
          /\ IsAnswer(ms[j]) => ms[j].seq = receivers' /\ receivers < receivers'
LEMMA ReceiverMovesInvariant ==
    ASSUME SessionInv, NEW ms, ReceiverMoves(ms)
    PROVE  SessionInv'
  <1>1. /\ SenderTypes /\ ReceiverTypes /\ LastOffer /\ RequestsInOrder /\ Replied
        /\ CallbacksPending /\ AnswersInOrder /\ LastOfferKept
    BY DEF SessionInv
  <1>2. UNCHANGED <<kind, current_negotiation, awaiting_replies, timers, state, senders, result,
                    overlapped, supports>>
    BY DEF ReceiverMoves, sender_vars
  <1>3. /\ SenderTypes' /\ LastOffer' /\ CallbacksPending' /\ LastOfferKept'
    BY <1>1, <1>2 DEF SenderTypes, LastOffer, CallbacksPending, LastOfferKept
  <1>4. PICK n, old, new, s, t, r, r2 :
           /\ n = Len(kind) /\ old = Received /\ new = Received' /\ s = to_sender
           /\ t = to_receiver /\ r = receivers /\ r2 = receivers'
    BY Zenon
  <1>5. /\ MaxRequests \in Nat /\ n \in Nat /\ n <= MaxRequests /\ s \in Seq(Replies)
        /\ t \in Seq(Requests) /\ r \in Nat /\ old \in Nat /\ old = n - Len(t)
    <2>1. MaxRequests \in Nat /\ n \in Nat /\ n <= MaxRequests
      <3>1. kind \in Seq(Kinds) /\ Len(kind) <= MaxRequests
        BY <1>1 DEF SenderTypes
      <3>2. Len(kind) \in Nat
        BY <3>1
      <3> QED
        BY <1>4, <3>1, <3>2, RequestsAssumption
    <2>2. s \in Seq(Replies) /\ t \in Seq(Requests) /\ r \in Nat
      BY <1>1, <1>4, RequestsAssumption DEF ReceiverTypes
    <2>3. old = n - Len(t) /\ old >= 0
      BY <1>1, <1>4 DEF RequestsInOrder, Received
    <2> QED
      BY <2>1, <2>2, <2>3
  <1>6. /\ to_receiver' \in Seq(Requests) /\ new \in old .. n
        /\ \A j \in 1 .. Len(to_receiver') : to_receiver'[j] = new + j
    <2>1. new = n - Len(to_receiver')
      BY <1>2, <1>4 DEF Received
    <2>2. \A j \in 1 .. Len(t) : t[j] = old + j
      BY <1>1, <1>4 DEF RequestsInOrder
    <2>3. CASE to_receiver' = to_receiver
      BY <1>4, <1>5, <2>1, <2>2, <2>3
    <2>4. CASE to_receiver # <<>> /\ to_receiver' = Tail(to_receiver)
      <3>1. PICK u : u = Tail(t)
        BY Zenon
      <3>2. /\ u \in Seq(Requests) /\ Len(u) = Len(t) - 1 /\ Len(t) >= 1
            /\ \A i \in 1 .. Len(u) : u[i] = t[i + 1] /\ i + 1 \in 1 .. Len(t)
        BY <1>4, <1>5, <2>4, <3>1, HeadTailFacts
      <3>3. new = old + 1
        BY <1>4, <1>5, <2>1, <2>4, <3>1, <3>2
      <3>4. \A j \in 1 .. Len(u) : u[j] = new + j
        BY <1>5, <2>2, <3>2, <3>3
      <3> QED
        BY <1>4, <1>5, <2>1, <2>4, <3>1, <3>2, <3>3, <3>4
    <2> QED
      BY <2>3, <2>4 DEF ReceiverMoves
  <1>7. RequestsInOrder'
    BY <1>4, <1>5, <1>6 DEF RequestsInOrder
  <1>8. to_sender' = s \o ms /\ replies' = [i \in Requests |-> replies[i] + Count(ms, i)]
    BY <1>4 DEF ReceiverMoves, Post, Count
  <1>9. /\ \/ ms = <<>> /\ to_sender' = s
           \/ \E m \in Replies : ms = <<m>> /\ to_sender' = Append(s, m)
        /\ to_sender' \in Seq(Replies)
    <2>1. CASE ms = <<>>
      BY <1>5, <1>8, <2>1
    <2>2. ASSUME NEW m \in Replies, ms = <<m>>
          PROVE  to_sender' = Append(s, m) /\ to_sender' \in Seq(Replies)
      BY <1>5, <1>8, <2>2
    <2> QED
      BY <2>1, <2>2 DEF ReceiverMoves
  <1>10. ReceiverTypes'
    <2>1. replies \in [Requests -> Nat]
      BY <1>1 DEF ReceiverTypes
    <2>2. \A i \in Requests : Count(ms, i) \in Nat
      BY DEF ReceiverMoves
    <2>3. replies' \in [Requests -> Nat]
      BY <1>8, <2>1, <2>2
    <2>4. pending_offer' \in 0 .. MaxRequests /\ receivers' \in 0 .. MaxRequests
      <3>1. 0 .. new \subseteq 0 .. MaxRequests
        BY <1>5, <1>6
      <3> QED
        BY <1>4, <3>1 DEF ReceiverMoves
    <2> QED
      BY <1>1, <1>2, <1>6, <1>9, <2>3, <2>4, Zenon DEF ReceiverTypes, ReceiverMoves
  <1>11. Replied'
    <2>1. PICK pending, pending2 : pending = pending_offer /\ pending2 = pending_offer'
      OBVIOUS
    <2>2. ASSUME NEW i \in Requests
          PROVE  replies'[i] = IF i > new \/ i = pending2 THEN 0 ELSE 1
      <3>1. replies[i] = IF Open(i, old, pending) THEN 0 ELSE 1
        BY <1>1, <1>4, <2>1, Zenon DEF Replied, Open
      <3>2. /\ Open(i, new, pending2) => Open(i, old, pending)
            /\ Count(ms, i) = IF Open(i, old, pending) /\ ~Open(i, new, pending2) THEN 1 ELSE 0
        BY <1>4, <2>1 DEF ReceiverMoves
      <3>3. replies'[i] = replies[i] + Count(ms, i)
        BY <1>8, Zenon
      <3>4. replies'[i] = IF Open(i, new, pending2) THEN 0 ELSE 1
        BY <3>1, <3>2, <3>3
      <3> QED
        BY <3>4, Zenon DEF Open
    <2>3. pending2 <= new /\ r2 <= new
      BY <1>4, <1>6, <2>1 DEF ReceiverMoves
    <2>4. ASSUME NEW p \in 1 .. Len(to_sender') PROVE to_sender'[p].seq <= new
      <3>1. \A q \in 1 .. Len(s) : s[q] \in Replies /\ s[q].seq <= old
        BY <1>1, <1>4, <1>5 DEF Replied
      <3>2. \A q \in 1 .. Len(s) : s[q].seq <= new
        <4>1. \A x \in Nat : x <= old => x <= new
          BY <1>5, <1>6
        <4> QED
          BY <3>1, <4>1, RequestFacts, Zenon
      <3>3. CASE ms = <<>> /\ to_sender' = s
        BY <2>4, <3>2, <3>3
      <3>4. ASSUME NEW m \in Replies, ms = <<m>>, to_sender' = Append(s, m)
            PROVE  to_sender'[p].seq <= new
        <4>1. m.seq <= new
          <5>1. Len(ms) = 1 /\ ms[1] = m
            BY <3>4
          <5> QED
            BY <1>4, <5>1 DEF ReceiverMoves
        <4>2. PICK u : u = Append(s, m)
          BY Zenon
        <4>3. /\ Len(u) = Len(s) + 1 /\ u[Len(s) + 1] = m
              /\ \A q \in 1 .. Len(s) : u[q] = s[q]
          BY <1>5, <4>2, AppendFacts
        <4>4. p \in 1 .. Len(s) \/ p = Len(s) + 1
          BY <1>5, <2>4, <3>4, <4>2, <4>3
        <4> QED
          BY <3>2, <3>4, <4>1, <4>2, <4>3, <4>4
      <3> QED
        BY <1>9, <3>3, <3>4
    <2>5. /\ socket_state' = "starting" => receivers' = None
          /\ pending2 # None => kind[pending2] \in Offers /\ socket_state' = "starting"
          /\ r2 # None => kind[r2] \in Offers
      BY <1>4, <2>1 DEF ReceiverMoves
    <2> QED
      BY <1>2, <1>4, <2>1, <2>2, <2>3, <2>4, <2>5 DEF Replied
  <1>12. AnswersInOrder'
    <2>1. r \in Nat /\ r2 \in Nat /\ r <= r2
      BY <1>4, <1>5, <1>6 DEF ReceiverMoves
    <2>2. \A m : IsAnswer(m)' <=> IsAnswer(m)
      BY <1>2 DEF IsAnswer
    <2>3. \A i : Succeeded(i)' <=> Succeeded(i)
      BY <1>2 DEF Succeeded
    <2>4. ASSUME NEW i \in 1 .. n, Succeeded(i) PROVE i <= r
      BY <1>1, <1>4, <2>4 DEF AnswersInOrder
    <2>5. \A p \in 1 .. Len(s) : IsAnswer(s[p]) =>
             /\ s[p].seq \in Nat /\ s[p].seq <= r
             /\ \A q \in 1 .. Len(s) : q < p /\ IsAnswer(s[q]) => s[q].seq < s[p].seq
             /\ \A i \in 1 .. n : Succeeded(i) => i < s[p].seq
      <3>1. \A p \in 1 .. Len(s) : s[p] \in Replies
        BY <1>5, SeqFacts, Zenon
      <3>2. \A p \in 1 .. Len(s) : s[p].seq \in Nat
        BY <3>1, RequestFacts, Zenon
      <3> QED
        BY <1>1, <1>4, <3>2, Zenon DEF AnswersInOrder
    <2>6. CASE ms = <<>> /\ to_sender' = s
      <3>1. \A i \in 1 .. n : Succeeded(i) => i <= r2
        BY <1>5, <2>1, <2>4
      <3>2. \A p \in 1 .. Len(s) : IsAnswer(s[p]) => s[p].seq <= r2
        <4>1. \A x \in Nat : x <= r => x <= r2
          BY <2>1
        <4> QED
          BY <2>5, <4>1, Zenon
      <3> QED
        BY <1>2, <1>4, <2>2, <2>3, <2>5, <2>6, <3>1, <3>2, Zenon DEF AnswersInOrder
    <2>7. ASSUME NEW m \in Replies, ms = <<m>>, to_sender' = Append(s, m)
          PROVE  AnswersInOrder'
      <3>1. IsAnswer(m) => m.seq = r2 /\ r < r2
        <4>1. Len(ms) = 1 /\ ms[1] = m
          BY <2>7
        <4> QED
          BY <1>4, <4>1 DEF ReceiverMoves
      <3>2. PICK u : u = Append(s, m)
        BY Zenon
      <3>3. /\ Len(u) = Len(s) + 1 /\ u[Len(s) + 1] = m /\ Len(s) \in Nat
            /\ \A q \in 1 .. Len(s) : u[q] = s[q]
        BY <1>5, <3>2, AppendFacts
      <3>4. ASSUME NEW p \in 1 .. Len(u), IsAnswer(u[p])
            PROVE  /\ u[p].seq <= r2
                   /\ \A q \in 1 .. Len(u) : q < p /\ IsAnswer(u[q]) => u[q].seq < u[p].seq
                   /\ \A i \in 1 .. n : Succeeded(i) => i < u[p].seq
        <4>1. CASE p \in 1 .. Len(s)
          <5>1. u[p] = s[p] /\ s[p].seq \in Nat /\ s[p].seq <= r /\ IsAnswer(s[p])
            BY <2>5, <3>3, <3>4, <4>1, Zenon
          <5>2. ASSUME NEW q \in 1 .. Len(u), q < p, IsAnswer(u[q]) PROVE u[q].seq < u[p].seq
            <6>1. q \in 1 .. Len(s)
              BY <3>3, <4>1, <5>2
            <6> QED
              BY <2>5, <3>3, <4>1, <5>1, <5>2, <6>1
          <5>3. \A i \in 1 .. n : Succeeded(i) => i < u[p].seq
            BY <2>5, <4>1, <5>1
          <5>4. u[p].seq <= r2
            BY <2>1, <5>1
          <5> QED
            BY <5>2, <5>3, <5>4, Zenon
        <4>2. CASE p = Len(s) + 1
          <5>1. u[p] = m /\ IsAnswer(m)
            BY <3>3, <3>4, <4>2, Zenon
          <5>2. m.seq = r2 /\ r < r2 /\ r \in Nat
            BY <1>5, <3>1, <5>1
          <5>3. ASSUME NEW q \in 1 .. Len(u), q < p, IsAnswer(u[q]) PROVE u[q].seq < u[p].seq
            <6>1. q \in 1 .. Len(s) /\ u[q] = s[q]
              BY <3>3, <4>2, <5>3
            <6>2. s[q].seq \in Nat /\ s[q].seq <= r
              BY <2>5, <5>3, <6>1, Zenon
            <6> QED
              BY <2>1, <5>1, <5>2, <6>1, <6>2
          <5>4. ASSUME NEW i \in 1 .. n, Succeeded(i) PROVE i < u[p].seq
            <6>1. i <= r
              BY <2>4, <5>4, Zenon
            <6> QED
              BY <2>1, <5>1, <5>2, <6>1
          <5>5. u[p].seq <= r2
            BY <2>1, <5>1, <5>2
          <5> QED
            BY <5>3, <5>4, <5>5, Zenon
        <4>3. p \in 1 .. Len(s) \/ p = Len(s) + 1
          BY <3>3
        <4> QED
          BY <4>1, <4>2, <4>3, Zenon
      <3>5. \A i \in 1 .. n : Succeeded(i) => i <= r2
        BY <1>5, <2>1, <2>4
      <3> QED
        BY <1>2, <1>4, <2>2, <2>3, <2>7, <3>2, <3>4, <3>5, Zenon DEF AnswersInOrder
    <2> QED
      BY <1>9, <2>6, <2>7
  <1> QED
    BY <1>3, <1>7, <1>10, <1>11, <1>12 DEF SessionInv

-----------------------------------------------------------------------------
(* Each step preserves the invariant *)

\* What the invariant says of the next request, which has not got a reply.
LEMMA NextRequest ==
    ASSUME SessionInv, to_receiver # <<>>, to_receiver' = Tail(to_receiver), kind' = kind
    PROVE  /\ Head(to_receiver) = Received + 1 /\ Received' = Received + 1
           /\ Head(to_receiver) \in Requests /\ Received \in Nat
           /\ Head(to_receiver) \in 1 .. Len(kind)
  <1>1. PICK t, n, u : t = to_receiver /\ n = Len(kind) /\ u = Tail(to_receiver)
    BY Zenon
  <1>2. t \in Seq(Requests) /\ t # <<>> /\ kind \in Seq(Kinds)
    BY <1>1 DEF SessionInv, ReceiverTypes, SenderTypes
  <1>3. /\ Head(t) = t[1] /\ t[1] \in Requests /\ Len(t) >= 1 /\ Len(t) \in Nat
        /\ Len(u) = Len(t) - 1
    BY <1>1, <1>2, HeadTailFacts
  <1>4. n \in Nat /\ Received = n - Len(t) /\ Received >= 0 /\ Received' = n - Len(u)
    BY <1>1, <1>2 DEF SessionInv, RequestsInOrder, Received
  <1>5. t[1] = Received + 1
    BY <1>1, <1>3 DEF SessionInv, RequestsInOrder
  <1> QED
    BY <1>1, <1>3, <1>4, <1>5

\* OnMessage() of the receiver: a request for capabilities or an offer is replied to, or
\* the offer waits.
LEMMA ReceiverReadsInvariant == SessionInv /\ ReceiverReads => SessionInv'
  <1> SUFFICES ASSUME SessionInv, ReceiverReads PROVE SessionInv'
    OBVIOUS
  <1>1. PICK i, k : i = Head(to_receiver) /\ k = kind[i]
    OBVIOUS
  <1>2. /\ to_receiver # <<>> /\ to_receiver' = Tail(to_receiver)
        /\ UNCHANGED <<sender_vars, overlapped>> /\ kind' = kind
        /\ IF k = "capabilities" THEN OnCapabilitiesRequest(i) ELSE OnOffer(i, k)
    BY <1>1 DEF ReceiverReads, sender_vars
  <1>3. PICK old, pending, r : old = Received /\ pending = pending_offer /\ r = receivers
    OBVIOUS
  <1>4. /\ i = old + 1 /\ Received' = old + 1 /\ i \in Requests /\ old \in Nat
        /\ i \in 1 .. Len(kind)
    BY <1>1, <1>2, <1>3, NextRequest
  <1>5. /\ socket_state \in {"starting", "ready", "invalid"} /\ pending \in Nat /\ r \in Nat
        /\ pending <= old /\ r <= old /\ k \in Kinds /\ kind \in Seq(Kinds)
        /\ socket_state = "starting" => r = None
        /\ pending # None => kind[pending] \in Offers /\ socket_state = "starting"
        /\ r # None => kind[r] \in Offers
    <2>1. ReceiverTypes /\ Replied /\ SenderTypes
      BY DEF SessionInv
    <2>2. pending \in Nat /\ r \in Nat
      BY <1>3, <2>1, RequestsAssumption DEF ReceiverTypes
    <2>3. k \in Kinds /\ kind \in Seq(Kinds)
      <3>1. kind \in Seq(Kinds)
        BY <2>1 DEF SenderTypes
      <3>2. \A j \in 1 .. Len(kind) : kind[j] \in Kinds
        BY <3>1
      <3> QED
        BY <1>1, <1>4, <3>1, <3>2
    <2> QED
      BY <1>3, <2>1, <2>2, <2>3 DEF ReceiverTypes, Replied
  <1>6. /\ r \in 0 .. old + 1 /\ pending \in 0 .. old + 1 /\ i \in 0 .. old + 1
        /\ None = 0 /\ i # None /\ i # pending /\ r < i /\ r <= r
    BY <1>4, <1>5 DEF None
  <1>7. ASSUME NEW m \in Replies, m.seq = i, ~IsAnswer(m), Post(<<m>>),
               UNCHANGED <<supports, socket_state, pending_offer, receivers>>
        PROVE  SessionInv'
    <2>1. ASSUME NEW x \in Requests
          PROVE  /\ Open(x, old + 1, pending) => Open(x, old, pending)
                 /\ Count(<<m>>, x) = IF Open(x, old, pending) /\ ~Open(x, old + 1, pending)
                                      THEN 1 ELSE 0
      <3>1. Count(<<m>>, x) = IF m.seq = x THEN 1 ELSE 0
        BY CountFacts
      <3>2. x \in Int
        BY DEF Requests
      <3> QED
        BY <1>4, <1>6, <1>7, <3>1, <3>2 DEF Open
    <2>2. \A j \in 1 .. Len(<<m>>) : <<m>>[j] = m
      OBVIOUS
    <2>3. ReceiverMoves(<<m>>)
      BY <1>2, <1>3, <1>4, <1>5, <1>6, <1>7, <2>1, <2>2 DEF ReceiverMoves
    <2> QED
      BY <2>3, ReceiverMovesInvariant
  <1>8. CASE k = "capabilities"
    <2>4. ("remoting" \in supports) \in BOOLEAN
      OBVIOUS
    <2>0. PICK b \in BOOLEAN : b = ("remoting" \in supports)
      BY <2>4, Zenon
    <2>1. PICK m : m = [seq |-> i, valid |-> b, streams |-> {}]
      BY Zenon
    <2>2. m \in Replies /\ m.seq = i /\ kind[m.seq] = "capabilities"
      BY <1>1, <1>4, <1>8, <2>1, Zenon DEF Replies
    <2>3. ~IsAnswer(m)
      BY <2>2 DEF IsAnswer, Offers
    <2> QED
      BY <1>2, <1>7, <1>8, <2>0, <2>1, <2>2, <2>3, Zenon DEF OnCapabilitiesRequest
  <1>9. CASE k # "capabilities" /\ ~Acceptable(k)
    <2>1. PICK m : m = ErrorAnswer(i)
      BY Zenon
    <2>2. m \in Replies /\ m.seq = i /\ ~IsAnswer(m)
      BY <1>4, <2>1 DEF ErrorAnswer, Replies, IsAnswer
    <2> QED
      BY <1>2, <1>7, <1>9, <2>1, <2>2 DEF OnOffer
  <1>10. CASE k # "capabilities" /\ Acceptable(k)
    <2>1. /\ AcceptOffer(i, k) /\ UNCHANGED <<supports, socket_state>> /\ k \in Offers
      BY <1>2, <1>5, <1>10 DEF OnOffer, Kinds
    <2>2. CASE socket_state = "invalid"
      <3>1. PICK m : m = ErrorAnswer(i)
        BY Zenon
      <3>2. m \in Replies /\ m.seq = i /\ ~IsAnswer(m)
        BY <1>4, <3>1 DEF ErrorAnswer, Replies, IsAnswer
      <3>3. pending_offer = None /\ pending_offer' = None /\ receivers' = receivers
        BY <1>3, <1>5, <2>1, <2>2 DEF AcceptOffer
      <3>4. Interrupted = <<>> /\ <<>> \o <<m>> = <<m>>
        BY <3>3 DEF Interrupted
      <3>5. Post(<<m>>)
        BY <2>1, <2>2, <3>1, <3>4 DEF AcceptOffer
      <3> QED
        BY <1>7, <2>1, <3>2, <3>3, <3>5
    <2>3. CASE socket_state = "ready"
      <3>1. PICK m : m = Answer(i, k)
        OBVIOUS
      <3>2. m \in Replies /\ m.seq = i
        BY <1>4, <3>1 DEF Answer, SelectStreams, Streams, Replies
      <3>3. pending_offer = None /\ pending_offer' = None /\ receivers' = i
        BY <1>3, <1>5, <2>1, <2>3 DEF AcceptOffer
      <3>4. Interrupted = <<>> /\ <<>> \o <<m>> = <<m>>
        BY <3>3 DEF Interrupted
      <3>5. Post(<<m>>)
        BY <2>1, <2>3, <3>1, <3>4 DEF AcceptOffer
      <3>6. ASSUME NEW x \in Requests
            PROVE  /\ Open(x, old + 1, None) => Open(x, old, None)
                   /\ Count(<<m>>, x) = IF Open(x, old, None) /\ ~Open(x, old + 1, None)
                                        THEN 1 ELSE 0
        <4>1. Count(<<m>>, x) = IF m.seq = x THEN 1 ELSE 0
          BY CountFacts
        <4>2. x \in Int
          BY DEF Requests
        <4> QED
          BY <1>4, <1>6, <3>2, <4>1, <4>2 DEF Open
      <3>7. \A j \in 1 .. Len(<<m>>) : <<m>>[j] = m
        OBVIOUS
      <3>8. ReceiverMoves(<<m>>)
        BY <1>1, <1>2, <1>3, <1>4, <1>5, <1>6, <2>1, <2>3, <3>2, <3>3, <3>5, <3>6, <3>7
        DEF ReceiverMoves
      <3> QED
        BY <3>8, ReceiverMovesInvariant
    <2>4. CASE socket_state = "starting"
      <3>1. pending_offer' = i /\ receivers' = receivers /\ Post(Interrupted \o <<>>)
        BY <2>1, <2>4 DEF AcceptOffer
      <3>2. PICK ms : ms = Interrupted
        OBVIOUS
      <3>3. \/ pending = None /\ ms = <<>>
            \/ pending # None /\ ms = <<ErrorAnswer(pending)>>
        BY <1>3, <3>2, Zenon DEF Interrupted
      <3>4. /\ Post(ms)
            /\ ms = <<>> \/ \E m \in Replies : ms = <<m>>
            /\ \A j \in 1 .. Len(ms) : ms[j].seq <= old + 1 /\ ~IsAnswer(ms[j])
            /\ \A x : Count(ms, x) = IF pending # None /\ x = pending THEN 1 ELSE 0
        <4>1. CASE pending = None /\ ms = <<>>
          BY <3>1, <3>2, <4>1, CountFacts
        <4>2. CASE pending # None /\ ms = <<ErrorAnswer(pending)>>
          <5>1. PICK m : m = ErrorAnswer(pending)
            OBVIOUS
          <5>2. m.seq = pending /\ ~IsAnswer(m) /\ m \in Replies
            <6>1. pending \in Requests
              <7>1. old + 1 <= MaxRequests /\ MaxRequests \in Nat
                BY <1>4, RequestsAssumption DEF Requests
              <7>2. pending > 0 /\ pending <= MaxRequests
                BY <1>4, <1>5, <4>2, <7>1 DEF None
              <7> QED
                BY <1>5, <7>1, <7>2 DEF Requests
            <6> QED
              BY <5>1, <6>1 DEF ErrorAnswer, IsAnswer, Replies
          <5>3. ms = <<m>> /\ ms \o <<>> = ms /\ \A j \in 1 .. Len(<<m>>) : <<m>>[j] = m
            BY <4>2, <5>1
          <5>4. pending <= old + 1
            BY <1>4, <1>5
          <5> QED
            BY <3>1, <3>2, <4>2, <5>2, <5>3, <5>4, CountFacts, Zenon
        <4> QED
          BY <3>3, <4>1, <4>2
      <3>5. ASSUME NEW x \in Requests
            PROVE  /\ Open(x, old + 1, i) => Open(x, old, pending)
                   /\ Count(ms, x) = IF Open(x, old, pending) /\ ~Open(x, old + 1, i)
                                     THEN 1 ELSE 0
        <4>1. x \in Int /\ x # None
          BY DEF Requests, None
        <4> QED
          BY <1>4, <1>5, <1>6, <3>4, <4>1 DEF Open
      <3>6. receivers' = None /\ receivers = None /\ kind[i] \in Offers
        BY <1>1, <1>3, <1>5, <2>1, <2>4, <3>1, Zenon
      <3>7. ReceiverMoves(ms)
        BY <1>2, <1>3, <1>4, <1>6, <2>1, <2>4, <3>1, <3>4, <3>5, <3>6 DEF ReceiverMoves
      <3> QED
        BY <3>7, ReceiverMovesInvariant
    <2> QED
      BY <1>5, <2>2, <2>3, <2>4
  <1> QED
    BY <1>8, <1>9, <1>10

\* The socket is bound or fails: an offer that waits is answered.
LEMMA SocketChangesInvariant == SessionInv /\ SocketChanges => SessionInv'
  <1> SUFFICES ASSUME SessionInv, SocketChanges PROVE SessionInv'
    OBVIOUS
  <1>1. PICK old, pending, r : old = Received /\ pending = pending_offer /\ r = receivers
    OBVIOUS
  <1>2. /\ UNCHANGED <<sender_vars, overlapped, supports>> /\ to_receiver' = to_receiver
        /\ kind' = kind /\ pending_offer' = None
        /\ socket_state' \in {"ready", "invalid"}
    BY DEF SocketChanges, OnSocketReady, OnSocketInvalid, sender_vars
  <1>3. /\ old \in Nat /\ Received' = old /\ old <= MaxRequests /\ MaxRequests \in Nat
    <2>1. SenderTypes /\ ReceiverTypes /\ RequestsInOrder
      BY DEF SessionInv
    <2>2. kind \in Seq(Kinds) /\ to_receiver \in Seq(Requests) /\ Len(kind) <= MaxRequests
      BY <2>1 DEF SenderTypes, ReceiverTypes
    <2>3. Len(kind) \in Nat /\ Len(to_receiver) \in Nat
      BY <2>2
    <2> QED
      BY <1>1, <1>2, <2>1, <2>2, <2>3, RequestsAssumption DEF RequestsInOrder, Received
  <1>4. /\ pending \in Nat /\ r \in Nat /\ pending <= old /\ r <= old
        /\ socket_state = "starting" => r = None
        /\ pending # None => kind[pending] \in Offers /\ socket_state = "starting"
        /\ r # None => kind[r] \in Offers
    <2>1. ReceiverTypes /\ Replied
      BY DEF SessionInv
    <2>2. pending \in Nat /\ r \in Nat
      BY <1>1, <1>3, <2>1 DEF ReceiverTypes
    <2> QED
      BY <1>1, <2>1, <2>2 DEF Replied
  <1>5. pending # None => pending \in Requests
    BY <1>3, <1>4 DEF Requests, None
  <1>6. ASSUME NEW m, m = ErrorAnswer(pending) \/ m = Answer(pending, kind[pending]), pending # None
        PROVE  /\ m \in Replies /\ m.seq = pending
               /\ \A j \in 1 .. Len(<<m>>) : <<m>>[j] = m
    <2>1. pending \in Requests
      BY <1>5, <1>6
    <2>2. SelectStreams(kind[pending]) \subseteq {0, 1}
      BY DEF SelectStreams, Streams
    <2>3. m \in Replies /\ m.seq = pending
      <3>1. \A b \in BOOLEAN, ss \in SUBSET {0, 1} :
               /\ [seq |-> pending, valid |-> b, streams |-> ss] \in Replies
               /\ [seq |-> pending, valid |-> b, streams |-> ss].seq = pending
        BY <2>1 DEF Replies
      <3>2. CASE m = ErrorAnswer(pending)
        BY <3>1, <3>2, Zenon DEF ErrorAnswer
      <3>3. CASE m = Answer(pending, kind[pending])
        <4>1. PICK ss \in SUBSET {0, 1} : ss = SelectStreams(kind[pending])
          BY <2>2, Zenon
        <4> QED
          BY <3>1, <3>3, <4>1, Zenon DEF Answer
      <3> QED
        BY <1>6, <3>2, <3>3
    <2>4. \A j \in 1 .. Len(<<m>>) : <<m>>[j] = m
      OBVIOUS
    <2> QED
      BY <2>3, <2>4
  <1>7. ASSUME NEW ms,
               \/ pending = None /\ ms = <<>>
               \/ pending # None /\ \E m : ms = <<m>> /\ m.seq = pending,
               NEW x \in Requests
        PROVE  /\ Open(x, old, None) => Open(x, old, pending)
               /\ Count(ms, x) = IF Open(x, old, pending) /\ ~Open(x, old, None) THEN 1 ELSE 0
    <2>1. x \in Int /\ x # None
      BY DEF Requests, None
    <2>2. CASE pending = None /\ ms = <<>>
      BY <2>1, <2>2, CountFacts DEF Open
    <2>3. ASSUME NEW m, ms = <<m>>, m.seq = pending, pending # None
          PROVE  /\ Open(x, old, None) => Open(x, old, pending)
                 /\ Count(ms, x) = IF Open(x, old, pending) /\ ~Open(x, old, None) THEN 1 ELSE 0
      <3>1. Count(ms, x) = IF pending = x THEN 1 ELSE 0
        BY <2>3, CountFacts
      <3> QED
        BY <1>3, <1>4, <2>1, <2>3, <3>1 DEF Open
    <2> QED
      BY <1>7, <2>2, <2>3
  <1>8. CASE pending = None
    <2>1. Post(<<>>) /\ receivers' = receivers
      BY <1>1, <1>8, Zenon DEF SocketChanges, OnSocketReady, OnSocketInvalid, Interrupted
    <2>2. ReceiverMoves(<<>>)
      BY <1>1, <1>2, <1>3, <1>4, <1>7, <1>8, <2>1 DEF ReceiverMoves, None
    <2> QED
      BY <2>2, ReceiverMovesInvariant
  <1>9. CASE pending # None /\ OnSocketReady
    <2>1. PICK m : m = Answer(pending, kind[pending])
      OBVIOUS
    <2>2. Post(<<m>>) /\ receivers' = pending
      BY <1>1, <1>9, <2>1 DEF OnSocketReady
    <2>3. r = None /\ pending > 0
      BY <1>4, <1>9 DEF None
    <2>4. ReceiverMoves(<<m>>)
      BY <1>1, <1>2, <1>3, <1>4, <1>6, <1>7, <1>9, <2>1, <2>2, <2>3 DEF ReceiverMoves, None
    <2> QED
      BY <2>4, ReceiverMovesInvariant
  <1>10. CASE pending # None /\ OnSocketInvalid
    <2>1. PICK m : m = ErrorAnswer(pending)
      OBVIOUS
    <2>2. Post(<<m>>) /\ receivers' = receivers
      BY <1>1, <1>10, <2>1 DEF OnSocketInvalid, Interrupted
    <2>3. ~IsAnswer(m)
      BY <2>1, Zenon DEF ErrorAnswer, IsAnswer
    <2>4. ReceiverMoves(<<m>>)
      BY <1>1, <1>2, <1>3, <1>4, <1>6, <1>7, <1>10, <2>1, <2>2, <2>3 DEF ReceiverMoves, None
    <2> QED
      BY <2>4, ReceiverMovesInvariant
  <1> QED
    BY <1>8, <1>9, <1>10, Zenon DEF SocketChanges

\* A request is sent after the others, and its number is new.
LEMMA AsksInvariant == ASSUME SessionInv, NEW k \in Kinds, Asks(k) PROVE SessionInv'
  <1>1. PICK n, old, t, w, cn, kd : /\ n = Len(kind) /\ old = Received /\ t = to_receiver
                                    /\ w = timers /\ cn = current_negotiation /\ kd = kind
    BY Zenon
  <1>2. /\ n + 1 \in Requests /\ kind' = Append(kd, k)
        /\ current_negotiation' = (IF k \in Offers THEN n + 1 ELSE cn)
        /\ awaiting_replies' = awaiting_replies \union {n + 1} /\ timers' = Append(w, n + 1)
        /\ UNCHANGED <<state, senders, result>> /\ to_receiver' = Append(t, n + 1)
        /\ overlapped' = (overlapped \/ (k \in Offers /\ AwaitedOffers # {}))
        /\ UNCHANGED <<supports, socket_state, pending_offer, receivers, to_sender, replies>>
    BY <1>1 DEF Asks, SendRequest, current_sequence_number, receiver_vars
  <1>3. /\ SenderTypes /\ ReceiverTypes /\ LastOffer /\ RequestsInOrder /\ Replied
        /\ CallbacksPending /\ AnswersInOrder /\ LastOfferKept
    BY DEF SessionInv
  <1>4. /\ MaxRequests \in Nat /\ n \in Nat /\ kd \in Seq(Kinds) /\ t \in Seq(Requests)
        /\ w \in Seq(Requests) /\ cn \in 0 .. n /\ n = Len(kd)
    <2>1. kd \in Seq(Kinds) /\ w \in Seq(Requests) /\ cn \in 0 .. n /\ t \in Seq(Requests)
      BY <1>1, <1>3, Zenon DEF SenderTypes, ReceiverTypes
    <2> QED
      BY <1>1, <2>1, RequestsAssumption
  <1>5. /\ kind' \in Seq(Kinds) /\ Len(kind') = n + 1 /\ kind'[n + 1] = k
        /\ \A i \in 1 .. n : kind'[i] = kind[i]
    BY <1>1, <1>2, <1>4, AppendFacts
  <1>6. /\ timers' \in Seq(Requests) /\ Len(timers') = Len(w) + 1 /\ timers'[Len(w) + 1] = n + 1
        /\ \A i \in 1 .. Len(w) : timers'[i] = w[i]
    BY <1>2, <1>4, AppendFacts
  <1>7. /\ to_receiver' \in Seq(Requests) /\ Len(to_receiver') = Len(t) + 1
        /\ to_receiver'[Len(t) + 1] = n + 1
        /\ \A i \in 1 .. Len(t) : to_receiver'[i] = t[i]
    BY <1>2, <1>4, AppendFacts
  <1>8. Received' = old /\ old = n - Len(t) /\ old >= 0 /\ old \in Nat /\ old <= n
    BY <1>1, <1>3, <1>4, <1>5, <1>7 DEF Received, RequestsInOrder
  <1>9. SenderTypes'
    <2>1. \A i \in 1 .. Len(timers') : timers'[i] <= n + 1
      <3>1. \A i \in 1 .. Len(w) : w[i] \in Requests /\ w[i] <= n
        <4>1. \A i \in 1 .. Len(w) : w[i] \in Requests
          BY <1>4
        <4> QED
          BY <1>1, <1>3, <4>1, Zenon DEF SenderTypes
      <3>2. \A i \in 1 .. Len(w) : w[i] <= n + 1
        BY <1>4, <3>1 DEF Requests
      <3> QED
        BY <1>4, <1>6, <3>2
    <2>2. n + 1 <= MaxRequests
      BY <1>2, <1>4 DEF Requests
    <2>3. awaiting_replies' \subseteq 1 .. n + 1
      <3>1. awaiting_replies \subseteq 1 .. n
        BY <1>1, <1>3, Zenon DEF SenderTypes
      <3>2. 1 .. n \subseteq 1 .. n + 1 /\ n + 1 \in 1 .. n + 1
        BY <1>4
      <3> QED
        BY <1>2, <3>1, <3>2, Zenon
    <2>4. current_negotiation' \in 0 .. n + 1
      BY <1>2, <1>4
    <2>5. overlapped' \in BOOLEAN
      BY <1>2, Zenon
    <2> QED
      BY <1>2, <1>3, <1>5, <1>6, <2>1, <2>2, <2>3, <2>4, <2>5, Zenon DEF SenderTypes
  <1>10. ReceiverTypes'
    BY <1>2, <1>3, <1>7, Zenon DEF ReceiverTypes
  <1>11. LastOffer'
    <2>1. cn # None => kind[cn] \in Offers /\ cn \in 1 .. n
      BY <1>1, <1>3, <1>4 DEF LastOffer, None
    <2>2. \A i \in 1 .. n : kind[i] \in Offers => i <= cn
      BY <1>1, <1>3 DEF LastOffer
    <2>3. ASSUME NEW i \in 1 .. n + 1, kind'[i] \in Offers PROVE i <= current_negotiation'
      <3>1. CASE i \in 1 .. n
        <4>1. i <= cn
          BY <1>5, <2>2, <2>3, <3>1
        <4>2. cn <= n + 1 /\ i <= n + 1
          BY <1>4
        <4> QED
          BY <1>2, <1>4, <4>1, <4>2
      <3>2. CASE i = n + 1
        BY <1>2, <1>4, <1>5, <2>3, <3>2
      <3> QED
        BY <1>4, <3>1, <3>2
    <2>4. current_negotiation' # None => kind'[current_negotiation'] \in Offers
      BY <1>2, <1>5, <2>1, Zenon
    <2> QED
      BY <1>5, <2>3, <2>4 DEF LastOffer
  <1>12. RequestsInOrder'
    <2>1. \A j \in 1 .. Len(t) : t[j] = old + j
      BY <1>1, <1>3 DEF RequestsInOrder
    <2>2. ASSUME NEW j \in 1 .. Len(t) + 1 PROVE to_receiver'[j] = old + j
      <3>1. Len(t) \in Nat
        BY <1>4
      <3>2. CASE j \in 1 .. Len(t)
        BY <1>7, <2>1, <3>2
      <3>3. CASE j = Len(t) + 1
        <4>1. old + j = n + 1
          BY <1>4, <1>8, <3>1, <3>3
        <4> QED
          BY <1>7, <3>3, <4>1
      <3> QED
        BY <3>1, <3>2, <3>3
    <2> QED
      BY <1>7, <1>8, <2>2 DEF RequestsInOrder
  <1>13. Replied'
    <2>1. pending_offer <= old /\ receivers <= old /\ pending_offer \in Nat /\ receivers \in Nat
      BY <1>1, <1>3, <1>4 DEF Replied, ReceiverTypes
    <2>2. /\ pending_offer # None => kind'[pending_offer] = kind[pending_offer]
          /\ receivers # None => kind'[receivers] = kind[receivers]
      <3>1. \A i \in 1 .. n : kind'[i] = kind[i]
        BY <1>5, Zenon
      <3>2. \A i \in Nat : i # None /\ i <= old => i \in 1 .. n
        BY <1>4, <1>8 DEF None
      <3> QED
        BY <2>1, <3>1, <3>2, Zenon
    <2> QED
      BY <1>1, <1>2, <1>3, <1>8, <2>1, <2>2, Zenon DEF Replied
  <1>14. CallbacksPending'
    <2>1. \A i \in Requests : i \in awaiting_replies \/ i > n => result[i] = "none"
      BY <1>1, <1>3, Zenon DEF CallbacksPending
    <2>2. ASSUME NEW i \in Requests, i \in awaiting_replies' \/ i > n + 1
          PROVE  result'[i] = "none"
      BY <1>2, <1>4, <2>1, <2>2 DEF Requests
    <2>3. ASSUME ~overlapped'
          PROVE  /\ \A i \in awaiting_replies' : kind'[i] \in Offers => i = current_negotiation'
                 /\ senders'.offer = senders'.answer
      <3>1. /\ \A i \in awaiting_replies : kind[i] \in Offers => i = cn
            /\ senders.offer = senders.answer
        BY <1>1, <1>2, <1>3, <2>3, Zenon DEF CallbacksPending
      <3>2. k \in Offers => \A i \in awaiting_replies : kind[i] \notin Offers
        BY <1>2, <2>3, Zenon DEF AwaitedOffers
      <3>3. \A i \in awaiting_replies : kind'[i] = kind[i]
        BY <1>1, <1>3, <1>5, Zenon DEF SenderTypes
      <3> QED
        BY <1>2, <1>5, <3>1, <3>2, <3>3, Zenon
    <2> QED
      BY <1>5, <2>2, <2>3, Zenon DEF CallbacksPending
  <1>15. \A i \in 1 .. n + 1 : Succeeded(i)' <=> i \in 1 .. n /\ Succeeded(i)
    <2>1. result'[n + 1] = "none" /\ result' = result
      <3>1. n + 1 > n
        BY <1>4
      <3> QED
        BY <1>1, <1>2, <1>3, <3>1 DEF CallbacksPending
    <2>2. \A i \in 1 .. n + 1 : i \in 1 .. n \/ i = n + 1
      BY <1>4
    <2> QED
      BY <1>5, <2>1, <2>2, Zenon DEF Succeeded
  <1>16. AnswersInOrder'
    <2>1. PICK s : s = to_sender
      BY Zenon
    <2>2. \A p \in 1 .. Len(s) : s[p].seq \in 1 .. n
      <3>1. s \in Seq(Replies) /\ \A p \in 1 .. Len(s) : s[p].seq <= old
        BY <1>1, <1>3, <2>1 DEF ReceiverTypes, Replied
      <3>2. \A p \in 1 .. Len(s) : s[p] \in Replies
        BY <3>1, SeqFacts, Zenon
      <3> QED
        BY <1>4, <1>8, <3>1, <3>2 DEF Replies, Requests
    <2>3. \A p \in 1 .. Len(s) : IsAnswer(s[p])' <=> IsAnswer(s[p])
      BY <1>5, <2>2 DEF IsAnswer
    <2> QED
      BY <1>1, <1>2, <1>3, <1>5, <1>15, <2>1, <2>3, Zenon DEF AnswersInOrder
  <1>17. LastOfferKept'
    <2>1. CASE k \in Offers
      <3>1. ~Succeeded(n + 1)'
        BY <1>4, <1>15
      <3> QED
        BY <1>2, <1>5, <2>1, <3>1 DEF LastOfferKept, Succeeded
    <2>2. CASE k \notin Offers
      <3>1. cn # None => cn \in 1 .. n
        BY <1>4 DEF None
      <3>2. cn # None => kind'[cn] = kind[cn]
        BY <1>5, <3>1
      <3> QED
        BY <1>1, <1>2, <1>3, <2>2, <3>2, Zenon DEF LastOfferKept
    <2> QED
      BY <2>1, <2>2, Zenon
  <1> QED
    BY <1>9, <1>10, <1>11, <1>12, <1>13, <1>14, <1>16, <1>17 DEF SessionInv

\* A step of the sender, in which an offer succeeds only by the answer that it reads.
SenderMoves ==
    /\ UNCHANGED <<kind, current_negotiation, overlapped, supports, socket_state, pending_offer,
                   receivers, replies, to_receiver>>
    /\ to_sender' = to_sender \/ (to_sender # <<>> /\ to_sender' = Tail(to_sender))
    /\ \A j \in 1 .. Len(kind) : Succeeded(j)' =>
          \/ Succeeded(j)
          \/ /\ to_sender # <<>> /\ to_sender' = Tail(to_sender)
             /\ IsAnswer(Head(to_sender)) /\ j = Head(to_sender).seq
LEMMA SenderMovesInvariant ==
    ASSUME SessionInv, SenderMoves, SenderTypes', CallbacksPending', LastOfferKept'
    PROVE  SessionInv'
  <1>1. PICK n, s, s2, r : n = Len(kind) /\ s = to_sender /\ s2 = to_sender' /\ r = receivers
    BY Zenon
  <1>2. /\ SenderTypes /\ ReceiverTypes /\ LastOffer /\ RequestsInOrder /\ Replied
        /\ AnswersInOrder
    BY DEF SessionInv
  <1>3. UNCHANGED <<kind, current_negotiation, overlapped, supports, socket_state, pending_offer,
                    receivers, replies, to_receiver>>
    BY DEF SenderMoves
  <1>4. s \in Seq(Replies) /\ r \in Nat
    BY <1>1, <1>2, RequestsAssumption DEF ReceiverTypes
  <1>5. \/ s2 = s
        \/ /\ s # <<>> /\ s2 = Tail(s) /\ Head(s) = s[1] /\ Len(s) >= 1
           /\ s2 \in Seq(Replies) /\ Len(s2) = Len(s) - 1
           /\ \A p \in 1 .. Len(s2) : s2[p] = s[p + 1] /\ p + 1 \in 1 .. Len(s)
    <2>1. s2 = s \/ (s # <<>> /\ s2 = Tail(s))
      BY <1>1, Zenon DEF SenderMoves
    <2> QED
      BY <1>4, <2>1, HeadTailFacts
  <1>6. ReceiverTypes'
    BY <1>1, <1>2, <1>3, <1>4, <1>5 DEF ReceiverTypes
  <1>7. LastOffer' /\ RequestsInOrder' /\ Received' = Received
    BY <1>2, <1>3, Zenon DEF LastOffer, RequestsInOrder, Received
  <1>8. Replied'
    <2>1. \A p \in 1 .. Len(s2) : s2[p].seq <= Received
      BY <1>1, <1>2, <1>4, <1>5, Zenon DEF Replied
    <2> QED
      BY <1>1, <1>2, <1>3, <1>7, <2>1, Zenon DEF Replied
  <1>9. AnswersInOrder'
    <2>1. \A m : IsAnswer(m)' <=> IsAnswer(m)
      BY <1>3 DEF IsAnswer
    <2>2. /\ \A i \in 1 .. n : Succeeded(i) => i <= r
          /\ \A p \in 1 .. Len(s) : IsAnswer(s[p]) =>
                /\ s[p].seq <= r
                /\ \A q \in 1 .. Len(s) : q < p /\ IsAnswer(s[q]) => s[q].seq < s[p].seq
                /\ \A i \in 1 .. n : Succeeded(i) => i < s[p].seq
      BY <1>1, <1>2, Zenon DEF AnswersInOrder
    <2>3. \A j \in 1 .. n : Succeeded(j)' =>
             Succeeded(j) \/ (s # <<>> /\ s2 = Tail(s) /\ IsAnswer(s[1]) /\ j = s[1].seq)
      BY <1>1, <1>4, HeadTailFacts, Zenon DEF SenderMoves
    <2>4. \A i \in 1 .. n : Succeeded(i)' => i <= r
      <3>1. s # <<>> => 1 \in 1 .. Len(s)
        BY <1>4
      <3> QED
        BY <2>2, <2>3, <3>1, Zenon
    <2>5. CASE s2 = s
      <3>1. ASSUME s # <<>> PROVE s2 # Tail(s)
        <4>1. Len(s) \in Nat /\ Len(Tail(s)) = Len(s) - 1
          BY <1>4, <3>1, HeadTailFacts
        <4> QED
          BY <2>5, <4>1
      <3>2. \A j \in 1 .. n : Succeeded(j)' => Succeeded(j)
        BY <2>3, <3>1
      <3> QED
        BY <1>1, <1>3, <2>1, <2>2, <2>5, <3>2, Zenon DEF AnswersInOrder
    <2>6. CASE s # <<>> /\ s2 = Tail(s)
      <3>1. ASSUME NEW p \in 1 .. Len(s2), IsAnswer(s2[p])
            PROVE  /\ s2[p].seq <= r
                   /\ \A q \in 1 .. Len(s2) : q < p /\ IsAnswer(s2[q]) => s2[q].seq < s2[p].seq
                   /\ \A i \in 1 .. n : Succeeded(i)' => i < s2[p].seq
        <4>1. /\ Len(s2) = Len(s) - 1 /\ Len(s) \in Nat /\ Len(s) >= 1
              /\ \A x \in 1 .. Len(s2) : s2[x] = s[x + 1] /\ x + 1 \in 1 .. Len(s)
          BY <1>4, <2>6, HeadTailFacts
        <4>2. p + 1 \in 1 .. Len(s) /\ s2[p] = s[p + 1] /\ 1 < p + 1 /\ 1 \in 1 .. Len(s)
          BY <1>4, <2>6, HeadTailFacts, Zenon
        <4>3. /\ s[p + 1].seq <= r
              /\ \A q \in 1 .. Len(s) : q < p + 1 /\ IsAnswer(s[q]) => s[q].seq < s[p + 1].seq
              /\ \A i \in 1 .. n : Succeeded(i) => i < s[p + 1].seq
          BY <2>2, <3>1, <4>2
        <4>4. ASSUME NEW q \in 1 .. Len(s2), q < p, IsAnswer(s2[q]) PROVE s2[q].seq < s2[p].seq
          <5>1. q + 1 \in 1 .. Len(s) /\ s2[q] = s[q + 1] /\ q + 1 < p + 1
            BY <4>1, <4>4
          <5> QED
            BY <4>2, <4>3, <4>4, <5>1, Zenon
        <4>5. ASSUME NEW i \in 1 .. n, Succeeded(i)' PROVE i < s2[p].seq
          BY <2>3, <4>2, <4>3, <4>5, Zenon
        <4> QED
          BY <4>2, <4>3, <4>4, <4>5
      <3> QED
        BY <1>1, <1>3, <2>1, <2>4, <3>1, Zenon DEF AnswersInOrder
    <2> QED
      BY <1>5, <2>5, <2>6, Zenon
  <1> QED
    BY <1>6, <1>7, <1>8, <1>9 DEF SessionInv

\* What it means that the callback of an awaited request runs.
LEMMA CompleteFacts ==
    ASSUME SessionInv, NEW i \in awaiting_replies, NEW outcome \in Outcomes,
           Complete(i, outcome), kind' = kind
    PROVE  /\ awaiting_replies' \subseteq awaiting_replies /\ i \in Requests /\ i \in 1 .. Len(kind)
           /\ result' \in [Requests -> {"none"} \union Outcomes]
           /\ result'[i] = outcome /\ \A j \in Requests : j # i => result'[j] = result[j]
           /\ \A j \in Requests : j \in awaiting_replies' \/ j > Len(kind) => result'[j] = "none"
  <1>1. /\ result \in [Requests -> {"none"} \union Outcomes]
        /\ awaiting_replies \subseteq 1 .. Len(kind) /\ Len(kind) <= MaxRequests
    BY Zenon DEF SessionInv, SenderTypes
  <1>0. kind \in Seq(Kinds)
    BY DEF SessionInv, SenderTypes
  <1>2. PICK n \in Nat : n = Len(kind)
    BY <1>0
  <1>3. i \in Requests /\ i \in 1 .. Len(kind) /\ ~(i > Len(kind))
    BY <1>1, <1>2, RequestsAssumption DEF Requests
  <1>4. awaiting_replies' = awaiting_replies \ {i} /\ result' = [result EXCEPT ![i] = outcome]
    BY DEF Complete
  <1>5. /\ result' \in [Requests -> {"none"} \union Outcomes]
        /\ result'[i] = outcome /\ \A j \in Requests : j # i => result'[j] = result[j]
    BY <1>1, <1>3, <1>4, Zenon
  <1>6. \A j \in Requests : j \in awaiting_replies \/ j > Len(kind) => result[j] = "none"
    BY DEF SessionInv, CallbacksPending
  <1> QED
    BY <1>3, <1>4, <1>5, <1>6

\* A callback that runs while nothing is agreed on: only its own result changes.
LEMMA CompleteInvariant ==
    ASSUME SessionInv, NEW i \in awaiting_replies, NEW outcome \in Outcomes,
           Complete(i, outcome), outcome = "done" => kind[i] \notin Offers,
           UNCHANGED <<kind, current_negotiation, overlapped, supports, socket_state,
                       pending_offer, receivers, replies, to_receiver, state, senders>>,
           timers' \in Seq(Requests), \A j \in 1 .. Len(timers') : timers'[j] <= Len(kind),
           to_sender' = to_sender \/ (to_sender # <<>> /\ to_sender' = Tail(to_sender))
    PROVE  SessionInv'
  <1>1. /\ SenderTypes /\ LastOffer /\ CallbacksPending /\ LastOfferKept
    BY DEF SessionInv
  <1>2. /\ awaiting_replies' \subseteq awaiting_replies /\ i \in Requests /\ i \in 1 .. Len(kind)
        /\ result' \in [Requests -> {"none"} \union Outcomes]
        /\ result'[i] = outcome /\ \A j \in Requests : j # i => result'[j] = result[j]
        /\ \A j \in Requests : j \in awaiting_replies' \/ j > Len(kind) => result'[j] = "none"
    BY CompleteFacts, Zenon
  <1>3. SenderTypes'
    BY <1>1, <1>2, Zenon DEF SenderTypes
  <1>4. CallbacksPending'
    BY <1>1, <1>2 DEF CallbacksPending
  <1>5. kind \in Seq(Kinds) /\ Len(kind) <= MaxRequests
    BY <1>1 DEF SenderTypes
  <1>6. PICK n \in Nat : n = Len(kind)
    BY <1>5
  <1>7. \A j \in 1 .. Len(kind) : j \in Requests
    BY <1>5, <1>6, RequestsAssumption DEF Requests
  <1>8. \A j \in 1 .. Len(kind) : Succeeded(j)' => Succeeded(j)
    BY <1>2, <1>7 DEF Succeeded
  <1>9. LastOfferKept'
    <2>1. CASE current_negotiation = None
      BY <2>1, Zenon DEF LastOfferKept
    <2>2. CASE current_negotiation # None
      <3>1. kind[current_negotiation] \in Offers /\ current_negotiation \in 0 .. Len(kind)
        BY <1>1, <2>2 DEF LastOffer, SenderTypes
      <3>2. current_negotiation \in 1 .. Len(kind)
        BY <1>6, <2>2, <3>1 DEF None
      <3>3. result'[current_negotiation] = "done" => result[current_negotiation] = "done"
        BY <1>2, <1>7, <3>1, <3>2
      <3> QED
        BY <1>1, <2>2, <3>3, Zenon DEF LastOfferKept
    <2> QED
      BY <2>1, <2>2
  <1>10. SenderMoves
    BY <1>8 DEF SenderMoves
  <1> QED
    BY <1>3, <1>4, <1>9, <1>10, SenderMovesInvariant

\* ReplyIfTimedOut().
LEMMA TimesOutInvariant ==
    ASSUME SessionInv, TimesOut
    PROVE  SessionInv'
  <1>1. /\ timers # <<>> /\ timers' = Tail(timers)
        /\ UNCHANGED <<kind, current_negotiation, overlapped, supports, socket_state,
                       pending_offer, receivers, replies, to_receiver, to_sender, state, senders>>
    BY Zenon DEF TimesOut, ReplyIfTimedOut, receiver_vars
  <1>2. timers \in Seq(Requests) /\ \A i \in 1 .. Len(timers) : timers[i] <= Len(kind)
    BY DEF SessionInv, SenderTypes
  <1>3. timers' \in Seq(Requests) /\ \A j \in 1 .. Len(timers') : timers'[j] <= Len(kind)
    BY <1>1, <1>2, HeadTailFacts
  <1>4. CASE Head(timers) \in awaiting_replies
    <2>1. PICK i \in awaiting_replies : i = Head(timers)
      BY <1>4
    <2>2. Complete(i, "timed out") /\ "timed out" \in Outcomes /\ "timed out" # "done"
      BY <1>4, <2>1, Zenon DEF TimesOut, ReplyIfTimedOut, Outcomes
    <2>3. PICK outcome \in Outcomes : Complete(i, outcome) /\ outcome # "done"
      BY <2>2, Zenon
    <2> QED
      BY <1>1, <1>3, <2>3, CompleteInvariant
  <1>5. CASE Head(timers) \notin awaiting_replies
    <2>1. awaiting_replies' = awaiting_replies /\ result' = result
      BY <1>5, Zenon DEF TimesOut, ReplyIfTimedOut
    <2>2. SenderTypes' /\ CallbacksPending' /\ LastOfferKept'
      BY <1>1, <1>3, <2>1 DEF SessionInv, SenderTypes, CallbacksPending, LastOfferKept
    <2>3. SenderMoves
      BY <1>1, <2>1, Zenon DEF SenderMoves, Succeeded
    <2> QED
      BY <2>2, <2>3, SenderMovesInvariant
  <1> QED
    BY <1>4, <1>5

\* OnAnswer() for an awaited offer: the answer is to the last offer, or the last offer has
\* not succeeded, since answers come in the order of their offers.
LEMMA OnAnswerInvariant ==
    ASSUME SessionInv, to_sender # <<>>, to_sender' = Tail(to_sender),
           NEW m \in Replies, m = Head(to_sender), m.seq \in awaiting_replies,
           m.valid, kind[m.seq] \in Offers, SelectSenders(m) # {}, OnAnswer(m),
           UNCHANGED <<kind, current_negotiation, overlapped, supports, socket_state,
                       pending_offer, receivers, replies, to_receiver, timers>>
    PROVE  SessionInv'
  <1>1. /\ SenderTypes /\ LastOffer /\ CallbacksPending /\ LastOfferKept /\ AnswersInOrder
        /\ to_sender \in Seq(Replies)
    BY Zenon DEF SessionInv, ReceiverTypes
  <1>2. PICK i \in awaiting_replies : i = m.seq
    OBVIOUS
  <1>3. PICK done \in Outcomes : done = "done" /\ Complete(i, done)
    <2>1. Complete(i, "done") /\ "done" \in Outcomes
      BY <1>2, Zenon DEF OnAnswer, Outcomes
    <2> QED
      BY <2>1, Zenon
  <1>4. /\ awaiting_replies' \subseteq awaiting_replies /\ i \in Requests /\ i \in 1 .. Len(kind)
        /\ result' \in [Requests -> {"none"} \union Outcomes]
        /\ result'[i] = "done" /\ \A j \in Requests : j # i => result'[j] = result[j]
        /\ \A j \in Requests : j \in awaiting_replies' \/ j > Len(kind) => result'[j] = "none"
    BY <1>3, CompleteFacts, Zenon
  <1>5. /\ state' = IF kind[current_negotiation] = "remoting" THEN "remoting" ELSE "streaming"
        /\ senders' = [offer |-> current_negotiation, answer |-> i, streams |-> SelectSenders(m)]
    BY <1>2 DEF OnAnswer
  <1>6. kind \in Seq(Kinds) /\ Len(kind) <= MaxRequests /\ current_negotiation \in 0 .. Len(kind)
    BY <1>1, Zenon DEF SenderTypes
  <1>7. PICK n \in Nat : n = Len(kind)
    BY <1>6, SeqFacts, Zenon
  <1>8. \A j \in 1 .. Len(kind) : j \in Requests
    BY <1>6, <1>7, RequestsAssumption DEF Requests
  <1>9. i <= current_negotiation
    BY <1>1, <1>2, <1>4, Zenon DEF LastOffer
  <1>10. current_negotiation \in 1 .. Len(kind) /\ current_negotiation \in 0 .. MaxRequests
    BY <1>4, <1>6, <1>7, <1>9, RequestsAssumption
  <1>11. kind[current_negotiation] \in Offers
    BY <1>1, <1>10 DEF LastOffer, None
  <1>12. SenderTypes'
    <2>1. state' \in {"idle", "streaming", "remoting"}
      BY <1>5, Zenon
    <2>2. m.streams \in SUBSET {0, 1} /\ i \in 0 .. MaxRequests
      BY <1>4, RequestFacts, Zenon
    <2>3. SelectSenders(m) \in SUBSET {0, 1}
      BY <2>2 DEF SelectSenders
    <2>4. PICK ss \in SUBSET {0, 1}, c \in 0 .. MaxRequests :
             senders' = [offer |-> c, answer |-> i, streams |-> ss]
      BY <1>5, <1>10, <2>3, Zenon
    <2>5. senders' \in
             [offer : 0 .. MaxRequests, answer : 0 .. MaxRequests, streams : SUBSET {0, 1}]
      BY <2>2, <2>4, Zenon
    <2> QED
      BY <1>1, <1>4, <2>1, <2>5, Zenon DEF SenderTypes
  <1>13. CallbacksPending'
    <2>1. senders'.offer = current_negotiation /\ senders'.answer = i
      BY <1>5
    <2>2. ~overlapped => i = current_negotiation
      BY <1>1, <1>2, Zenon DEF CallbacksPending
    <2> QED
      BY <1>1, <1>4, <2>1, <2>2, Zenon DEF CallbacksPending
  <1>14. Head(to_sender) = to_sender[1] /\ 1 \in 1 .. Len(to_sender)
    <2>1. Head(to_sender) = to_sender[1] /\ Len(to_sender) >= 1
      BY <1>1, HeadTailFacts, Zenon
    <2>2. Len(to_sender) \in Nat
      BY <1>1
    <2> QED
      BY <2>1, <2>2
  <1>15. IsAnswer(m)
    BY Zenon DEF IsAnswer
  <1>16. LastOfferKept'
    <2>1. CASE i = current_negotiation
      BY <1>5, <2>1 DEF LastOfferKept
    <2>2. CASE i # current_negotiation
      <3>1. current_negotiation \in Requests
        BY <1>8, <1>10, Zenon
      <3>2. result'[current_negotiation] = result[current_negotiation]
        BY <1>4, <2>2, <3>1, Zenon
      <3>3. ASSUME result[current_negotiation] = "done" PROVE FALSE
        <4>1. Succeeded(current_negotiation)
          BY <1>11, <3>3, Zenon DEF Succeeded
        <4>2. current_negotiation < i
          BY <1>1, <1>2, <1>10, <1>14, <1>15, <4>1, Zenon DEF AnswersInOrder
        <4>3. PICK c \in Nat, d \in Nat : c = current_negotiation /\ d = i
          BY <1>4, <1>7, <1>10
        <4> QED
          BY <1>9, <4>2, <4>3
      <3> QED
        BY <3>2, <3>3, Zenon DEF LastOfferKept
    <2> QED
      BY <2>1, <2>2, Zenon
  <1>17. SenderMoves
    <2>1. \A j \in 1 .. Len(kind) : Succeeded(j)' => Succeeded(j) \/ j = i
      BY <1>4, <1>8, Zenon DEF Succeeded
    <2>2. IsAnswer(Head(to_sender)) /\ i = Head(to_sender).seq
      BY <1>2, <1>15
    <2> QED
      BY <2>1, <2>2, Zenon DEF SenderMoves
  <1> QED
    BY <1>12, <1>13, <1>16, <1>17, SenderMovesInvariant, Zenon

\* OnMessage() of the sender.
LEMMA SenderReadsInvariant ==
    ASSUME SessionInv, SenderReads
    PROVE  SessionInv'
  <1>1. /\ to_sender # <<>> /\ to_sender' = Tail(to_sender)
        /\ UNCHANGED <<kind, current_negotiation, overlapped, supports, socket_state,
                       pending_offer, receivers, replies, to_receiver, timers>>
    BY DEF SenderReads, OnReply
  <1>2. to_sender \in Seq(Replies)
    BY DEF SessionInv, ReceiverTypes
  <1>3. PICK m \in Replies : m = Head(to_sender)
    BY <1>1, <1>2, HeadTailFacts
  <1>4. OnReply(m)
    BY <1>3 DEF SenderReads
  <1>5. timers' \in Seq(Requests) /\ \A j \in 1 .. Len(timers') : timers'[j] <= Len(kind)
    BY <1>1 DEF SessionInv, SenderTypes
  <1>6. CASE m.seq \notin awaiting_replies
    <2>1. UNCHANGED <<awaiting_replies, result, state, senders>>
      BY <1>4, <1>6, Zenon DEF OnReply, IsAwaited
    <2>2. SenderTypes' /\ CallbacksPending' /\ LastOfferKept'
      BY <1>1, <2>1, Zenon DEF SessionInv, SenderTypes, CallbacksPending, LastOfferKept
    <2>3. SenderMoves
      BY <1>1, <2>1, Zenon DEF SenderMoves, Succeeded
    <2> QED
      BY <2>2, <2>3, SenderMovesInvariant, Zenon
  <1>7. ASSUME NEW i \in awaiting_replies, NEW outcome \in Outcomes, Complete(i, outcome),
               outcome = "done" => kind[i] \notin Offers, UNCHANGED <<state, senders>>
        PROVE  SessionInv'
    BY <1>1, <1>5, <1>7, CompleteInvariant
  <1>8. "done" \in Outcomes /\ "error" \in Outcomes /\ "error" # "done"
    BY Zenon DEF Outcomes
  <1>9. CASE m.seq \in awaiting_replies /\ (~m.valid \/ kind[m.seq] = "capabilities")
    <2>1. Complete(m.seq, IF m.valid THEN "done" ELSE "error") /\ UNCHANGED <<state, senders>>
      BY <1>4, <1>9, Zenon DEF OnReply, IsAwaited
    <2>2. CASE m.valid
      <3>1. kind[m.seq] \notin Offers
        BY <1>9, <2>2, Zenon DEF Offers
      <3> QED
        BY <1>7, <1>8, <1>9, <2>1, <2>2, <3>1, Zenon
    <2>3. CASE ~m.valid
      BY <1>7, <1>8, <1>9, <2>1, <2>3
    <2> QED
      BY <2>2, <2>3, Zenon
  <1>10. CASE m.seq \in awaiting_replies /\ m.valid /\ kind[m.seq] # "capabilities"
    <2>1. OnAnswer(m)
      BY <1>4, <1>10 DEF OnReply, IsAwaited
    <2>2. CASE SelectSenders(m) = {}
      <3>1. Complete(m.seq, "error") /\ UNCHANGED <<state, senders>>
        BY <2>1, <2>2, Zenon DEF OnAnswer
      <3> QED
        BY <1>7, <1>8, <1>10, <3>1
    <2>3. CASE SelectSenders(m) # {}
      <3>1. kind[m.seq] \in Offers
        <4>1. PICK i \in awaiting_replies : i = m.seq
          BY <1>10
        <4>2. i \in 1 .. Len(kind) /\ kind \in Seq(Kinds)
          BY DEF SessionInv, SenderTypes
        <4>3. kind[i] \in Kinds
          BY <4>2
        <4> QED
          BY <1>10, <4>1, <4>3 DEF Kinds
      <3> QED
        BY <1>1, <1>3, <1>10, <2>1, <2>3, <3>1, OnAnswerInvariant, Zenon
    <2> QED
      BY <2>2, <2>3, Zenon
  <1> QED
    BY <1>6, <1>9, <1>10, Zenon

-----------------------------------------------------------------------------
(* The theorems *)

\* Both ends as they are made.
LEMMA InitInvariant == Init => SessionInv
  <1> SUFFICES ASSUME Init PROVE SessionInv
    OBVIOUS
  <1>1. /\ kind = <<>> /\ current_negotiation = 0 /\ awaiting_replies = {} /\ timers = <<>>
        /\ state = "idle" /\ senders = [offer |-> 0, answer |-> 0, streams |-> {}]
        /\ result = [i \in Requests |-> "none"] /\ overlapped = FALSE
    BY DEF Init, SenderInit, None
  <1>2. /\ supports \in SUBSET {"audio", "video", "remoting"} /\ socket_state = "starting"
        /\ pending_offer = 0 /\ receivers = 0 /\ to_sender = <<>> /\ to_receiver = <<>>
        /\ replies = [i \in Requests |-> 0]
    BY DEF Init, ReceiverInit, None
  <1>3. MaxRequests \in Nat /\ 0 \in 0 .. MaxRequests /\ Len(<<>>) = 0
    BY RequestsAssumption
  <1>4. Len(kind) = 0 /\ Len(to_receiver) = 0 /\ Len(to_sender) = 0 /\ Received = 0
    BY <1>1, <1>2 DEF Received
  <1>5. SenderTypes
    <2>1. result \in [Requests -> {"none"} \union Outcomes]
      BY <1>1, Zenon
    <2>2. /\ kind \in Seq(Kinds) /\ Len(kind) <= MaxRequests /\ timers \in Seq(Requests)
          /\ \A i \in 1 .. Len(timers) : timers[i] <= Len(kind)
      BY <1>1, <1>3
    <2>3. senders \in
             [offer : 0 .. MaxRequests, answer : 0 .. MaxRequests, streams : SUBSET {0, 1}]
      BY <1>1, <1>3, Zenon
    <2>4. current_negotiation \in 0 .. Len(kind)
      BY <1>1, <1>4
    <2>5. /\ awaiting_replies \subseteq 1 .. Len(kind) /\ overlapped \in BOOLEAN
          /\ state \in {"idle", "streaming", "remoting"}
      BY <1>1, Zenon
    <2> QED
      BY <2>1, <2>2, <2>3, <2>4, <2>5, Zenon DEF SenderTypes
  <1>6. ReceiverTypes
    <2>1. to_sender \in Seq(Replies) /\ to_receiver \in Seq(Requests)
      BY <1>2
    <2>2. replies \in [Requests -> Nat]
      BY <1>2
    <2> QED
      BY <1>2, <1>3, <2>1, <2>2, Zenon DEF ReceiverTypes
  <1>7. LastOffer /\ RequestsInOrder /\ AnswersInOrder
    BY <1>1, <1>2, <1>4 DEF LastOffer, RequestsInOrder, AnswersInOrder, None
  <1>8. Replied
    BY <1>2, <1>4, RequestsAssumption DEF Replied, Requests, None
  <1>9. CallbacksPending /\ LastOfferKept
    BY <1>1 DEF CallbacksPending, LastOfferKept, None
  <1> QED
    BY <1>5, <1>6, <1>7, <1>8, <1>9, Zenon DEF SessionInv

\* Each step keeps the invariant.
LEMMA StepInvariant == SessionInv /\ [Next]_vars => SessionInv'
  <1> SUFFICES ASSUME SessionInv, [Next]_vars PROVE SessionInv'
    OBVIOUS
  <1>1. CASE \E k \in Kinds : Asks(k)
    BY <1>1, AsksInvariant
  <1>2. CASE TimesOut
    BY <1>2, TimesOutInvariant
  <1>3. CASE SenderReads
    BY <1>3, SenderReadsInvariant
  <1>4. CASE ReceiverReads
    BY <1>4, ReceiverReadsInvariant
  <1>5. CASE SocketChanges
    BY <1>5, SocketChangesInvariant
  <1>6. CASE UNCHANGED vars
    BY <1>6, Zenon DEF SessionInv, vars, sender_vars, receiver_vars, SenderTypes, ReceiverTypes,
                LastOffer, RequestsInOrder, Received, Replied, CallbacksPending, IsAnswer,
                Succeeded, AnswersInOrder, LastOfferKept
  <1> QED
    BY <1>1, <1>2, <1>3, <1>4, <1>5, <1>6 DEF Next

\* Whatever the client asks for, whenever requests time out and whatever becomes of the
\* socket, the sessions keep the invariant.
THEOREM SessionInvariant == Spec => []SessionInv
  BY InitInvariant, StepInvariant, PTL DEF Spec

\* NoMismatchInTurn: a client that makes one offer at a time is given streams that were
\* answered for the same offer.
THEOREM OffersInTurnMatch == Spec => []NoMismatchInTurn
  <1>1. SessionInv => NoMismatchInTurn
    BY DEF SessionInv, CallbacksPending, NoMismatchInTurn
  <1> QED
    BY <1>1, SessionInvariant, PTL

\* LastOfferAgreed: once the callback of the last offer has run with success, both ends
\* have its streams.
THEOREM BothHaveLastOffer == Spec => []LastOfferAgreed
  <1>1. ASSUME SessionInv PROVE LastOfferAgreed
    <2>1. PICK c : c = current_negotiation
      OBVIOUS
    <2>2. SUFFICES ASSUME c # None, result[c] = "done"
                   PROVE  /\ receivers = c /\ senders.offer = c /\ senders.answer = c
                          /\ state = IF kind[c] = "remoting" THEN "remoting" ELSE "streaming"
      BY <2>1, Zenon DEF LastOfferAgreed
    <2>3. /\ senders.offer = c /\ senders.answer = c
          /\ state = IF kind[c] = "remoting" THEN "remoting" ELSE "streaming"
      BY <1>1, <2>1, <2>2 DEF SessionInv, LastOfferKept
    <2>4. kind \in Seq(Kinds) /\ c \in 0 .. Len(kind)
      BY <1>1, <2>1 DEF SessionInv, SenderTypes
    <2>5. PICK n \in Nat : n = Len(kind)
      BY <2>4, SeqFacts, Zenon
    <2>6. c \in 1 .. n
      BY <2>2, <2>4, <2>5, RequestFacts, Zenon
    <2>7. c <= receivers
      BY <1>1, <2>1, <2>2, <2>5, <2>6 DEF SessionInv, LastOffer, AnswersInOrder, Succeeded
    <2>8. receivers \in Nat
      BY <1>1, RequestsAssumption DEF SessionInv, ReceiverTypes
    <2>9. receivers <= n
      <3>1. to_receiver \in Seq(Requests) /\ receivers <= Received
        BY <1>1 DEF SessionInv, ReceiverTypes, Replied
      <3>2. PICK t \in Nat : t = Len(to_receiver)
        BY <3>1
      <3> QED
        BY <2>5, <2>8, <3>1, <3>2 DEF Received
    <2>10. receivers \in 1 .. n /\ receivers # None
      BY <2>6, <2>7, <2>8, <2>9 DEF None
    <2>11. receivers <= c
      BY <1>1, <2>1, <2>5, <2>10 DEF SessionInv, Replied, LastOffer
    <2>12. receivers = c
      BY <2>6, <2>7, <2>8, <2>11
    <2> QED
      BY <2>3, <2>12
  <1> QED
    BY <1>1, SessionInvariant, PTL

\* OneReplyEach: each request that has reached the receiver has its one reply, but for an
\* offer that waits for the socket.
THEOREM RequestsHaveOneReply == Spec => []OneReplyEach
  <1>1. ASSUME SessionInv PROVE OneReplyEach
    <2>1. /\ SenderTypes /\ ReceiverTypes /\ RequestsInOrder /\ Replied
      BY <1>1 DEF SessionInv
    <2>2. kind \in Seq(Kinds) /\ Len(kind) <= MaxRequests /\ timers \in Seq(Requests)
      BY <2>1 DEF SenderTypes
    <2>3. to_receiver \in Seq(Requests)
      BY <2>1 DEF ReceiverTypes
    <2>4. PICK n \in Nat, t \in Nat : n = Len(kind) /\ t = Len(to_receiver)
      BY <2>2, <2>3
    <2>5. /\ Received = n - t /\ t <= n /\ MaxRequests \in Nat
          /\ \A j \in 1 .. t : to_receiver[j] = n - t + j
      BY <2>1, <2>4, RequestsAssumption DEF Received, RequestsInOrder
    <2>6. Range(to_receiver) = {to_receiver[j] : j \in 1 .. t}
      BY <2>3, <2>4 DEF Range
    <2>7. \A i \in 1 .. n : i \in Range(to_receiver) <=> i > n - t
      <3>1. ASSUME NEW i \in 1 .. n, i > n - t PROVE i \in Range(to_receiver)
        <4>1. i - (n - t) \in 1 .. t /\ n - t + (i - (n - t)) = i
          BY <2>5, <3>1
        <4>2. to_receiver[i - (n - t)] = i
          BY <2>5, <4>1
        <4> QED
          BY <2>6, <4>1, <4>2
      <3>2. ASSUME NEW i \in 1 .. n, i \in Range(to_receiver) PROVE i > n - t
        <4>1. PICK j \in 1 .. t : i = to_receiver[j]
          BY <2>6, <3>2
        <4> QED
          BY <2>5, <4>1
      <3> QED
        BY <3>1, <3>2
    <2>8. \A i \in 1 .. n : i \in Requests
      BY <2>2, <2>4, <2>5 DEF Requests
    <2>9. \A i \in Requests : replies[i] = IF i > n - t \/ i = pending_offer THEN 0 ELSE 1
      BY <2>1, <2>5 DEF Replied
    <2>10. ASSUME NEW i \in 1 .. n
           PROVE  replies[i] = IF i \in Range(to_receiver) \/ i = pending_offer THEN 0 ELSE 1
      BY <2>7, <2>8, <2>9, Zenon
    <2>11. pending_offer # None => socket_state = "starting" /\ receivers = None
      BY <2>1, Zenon DEF Replied
    <2>12. TypeOK
      <3>1. Range(kind) \subseteq Kinds
        BY <2>2 DEF Range
      <3>2. Range(timers) \subseteq 1 .. Len(kind)
        <4>1. Range(timers) = {timers[i] : i \in 1 .. Len(timers)}
          BY <2>2 DEF Range
        <4>2. \A i \in 1 .. Len(timers) : timers[i] \in Requests /\ timers[i] <= Len(kind)
          BY <2>1, <2>2 DEF SenderTypes
        <4> QED
          BY <2>4, <4>1, <4>2 DEF Requests
      <3>3. senders.streams \subseteq {0, 1}
        <4>1. senders \in
                 [offer : 0 .. MaxRequests, answer : 0 .. MaxRequests, streams : SUBSET {0, 1}]
          BY <2>1 DEF SenderTypes
        <4> QED
          BY <4>1
      <3>4. Len(kind) \in 0 .. MaxRequests
        BY <2>2, <2>4, <2>5
      <3>5. pending_offer \in 0 .. Len(kind) /\ receivers \in 0 .. Len(kind)
        <4>1. pending_offer \in 0 .. MaxRequests /\ receivers \in 0 .. MaxRequests
          BY <2>1, Zenon DEF ReceiverTypes
        <4>2. pending_offer <= n - t /\ receivers <= n - t
          BY <2>1, <2>5 DEF Replied
        <4> QED
          BY <2>4, <2>5, <4>1, <4>2
      <3>6. /\ current_negotiation \in 0 .. Len(kind) /\ awaiting_replies \subseteq 1 .. Len(kind)
            /\ state \in {"idle", "streaming", "remoting"}
        BY <2>1 DEF SenderTypes
      <3>7. socket_state \in {"starting", "ready", "invalid"}
        BY <2>1 DEF ReceiverTypes
      <3> QED
        BY <3>1, <3>2, <3>3, <3>4, <3>5, <3>6, <3>7, Zenon DEF TypeOK
    <2> QED
      BY <2>4, <2>10, <2>11, <2>12 DEF OneReplyEach
  <1> QED
    BY <1>1, SessionInvariant, PTL

-----------------------------------------------------------------------------
(* The promise of the messenger *)

\* A request that is sent has been unsent, and is awaited.
LEMMA AsksIsAsk ==
    ASSUME SessionInv, NEW k \in Kinds, Asks(k)
    PROVE  \E i \in Requests : Promise!Ask(i)
  <1>1. PICK n, c, a, r : n = Len(kind) /\ c = kind /\ a = awaiting_replies /\ r = result
    BY Zenon
  <1>2. c \in Seq(Kinds) /\ a \subseteq 1 .. n
    BY <1>1 DEF SessionInv, SenderTypes
  <1>3. n \in Nat
    BY <1>1, <1>2
  <1>4. /\ n + 1 \in Requests /\ kind' = Append(c, k) /\ awaiting_replies' = a \union {n + 1}
        /\ result' = r
    BY <1>1, Zenon DEF Asks, SendRequest, current_sequence_number
  <1>5. Len(kind') = n + 1
    BY <1>1, <1>2, <1>4, AppendFacts, Zenon
  <1>6. Status[n + 1] = "unsent"
    BY <1>1, <1>3, <1>4 DEF Status
  <1>7. Status' = [Status EXCEPT ![n + 1] = "awaited"]
    <2>1. \A i \in Requests : Status'[i] = IF i = n + 1 THEN "awaited" ELSE Status[i]
      <3>1. SUFFICES ASSUME NEW i \in Requests
                     PROVE  Status'[i] = IF i = n + 1 THEN "awaited" ELSE Status[i]
        OBVIOUS
      <3>2. Status'[i] = IF i > n + 1 THEN "unsent"
                         ELSE IF i \in a \union {n + 1} THEN "awaited" ELSE r[i]
        BY <1>4, <1>5 DEF Status
      <3>3. Status[i] = IF i > n THEN "unsent" ELSE IF i \in a THEN "awaited" ELSE r[i]
        BY <1>1 DEF Status
      <3>4. i \in Nat
        BY DEF Requests
      <3> QED
        BY <1>3, <3>2, <3>3, <3>4
    <2>2. /\ Status = [i \in Requests |-> Status[i]] /\ Status' = [i \in Requests |-> Status'[i]]
      BY DEF Status
    <2> QED
      BY <2>1, <2>2
  <1> QED
    BY <1>4, <1>6, <1>7, Zenon DEF Promise!Ask

\* A callback that runs was awaited, and is told one outcome.
LEMMA CompleteIsComplete ==
    ASSUME SessionInv, NEW i \in awaiting_replies, NEW outcome \in Outcomes, Complete(i, outcome),
           kind' = kind
    PROVE  \E j \in Requests : Promise!Complete(j)
  <1>1. PICK n, a, r : n = Len(kind) /\ a = awaiting_replies /\ r = result
    BY Zenon
  <1>2. i \in Requests /\ i \in 1 .. n
    BY <1>1, CompleteFacts, Zenon
  <1>3. r \in [Requests -> {"none"} \union Outcomes] /\ kind \in Seq(Kinds)
    BY <1>1 DEF SessionInv, SenderTypes
  <1>4. n \in Nat /\ ~(i > n)
    <2>1. n \in Nat
      BY <1>1, <1>3
    <2> QED
      BY <1>2, <2>1
  <1>5. awaiting_replies' = a \ {i} /\ result' = [r EXCEPT ![i] = outcome]
    BY <1>1, Zenon DEF Complete
  <1>6. Status[i] = "awaited"
    BY <1>1, <1>2, <1>4 DEF Status
  <1>7. Status' = [Status EXCEPT ![i] = outcome]
    <2>1. \A j \in Requests : Status'[j] = IF j = i THEN outcome ELSE Status[j]
      <3>1. SUFFICES ASSUME NEW j \in Requests
                     PROVE  Status'[j] = IF j = i THEN outcome ELSE Status[j]
        BY Zenon
      <3>2. Status'[j] = IF j > n THEN "unsent"
                         ELSE IF j \in a \ {i} THEN "awaited" ELSE [r EXCEPT ![i] = outcome][j]
        BY <1>1, <1>5 DEF Status
      <3>3. Status[j] = IF j > n THEN "unsent" ELSE IF j \in a THEN "awaited" ELSE r[j]
        BY <1>1 DEF Status
      <3>4. [r EXCEPT ![i] = outcome][j] = IF j = i THEN outcome ELSE r[j]
        BY <1>2, <1>3
      <3> QED
        BY <1>4, <3>2, <3>3, <3>4, Zenon
    <2>2. /\ Status = [j \in Requests |-> Status[j]] /\ Status' = [j \in Requests |-> Status'[j]]
      BY DEF Status
    <2> QED
      BY <2>1, <2>2
  <1> QED
    BY <1>2, <1>6, <1>7, Zenon DEF Promise!Complete

\* The safety part of KeepsPromise: each step asks, completes one awaited request with one
\* outcome, or changes nothing of what the callbacks see; no callback runs twice.
THEOREM KeepsPromiseSafely == Spec => Promise!Init /\ [][Promise!Next]_(Promise!vars)
  <1>1. Init => Promise!Init
    <2>1. SUFFICES ASSUME Init PROVE Status = [i \in Requests |-> "unsent"]
      BY Zenon DEF Promise!Init
    <2>2. kind = <<>>
      BY <2>1 DEF Init, SenderInit
    <2>3. Len(kind) = 0
      BY <2>2, Len(<<>>) = 0
    <2> QED
      BY <2>3 DEF Status, Requests
  <1>2. SessionInv /\ [Next]_vars => [Promise!Next]_(Promise!vars)
    <2> SUFFICES ASSUME SessionInv, [Next]_vars PROVE Promise!Next \/ Status' = Status
      BY DEF Promise!vars
    <2>1. CASE \E k \in Kinds : Asks(k)
      BY <2>1, AsksIsAsk DEF Promise!Next
    <2>2. ASSUME NEW i \in awaiting_replies, NEW outcome \in Outcomes, Complete(i, outcome),
                 kind' = kind
          PROVE  Promise!Next
      BY <2>2, CompleteIsComplete DEF Promise!Next
    <2>3. ASSUME UNCHANGED <<kind, awaiting_replies, result>> PROVE Status' = Status
      BY <2>3 DEF Status
    <2>4. "done" \in Outcomes /\ "error" \in Outcomes /\ "timed out" \in Outcomes
      BY Zenon DEF Outcomes
    <2>5. CASE TimesOut
      <3>1. kind' = kind
        BY <2>5, Zenon DEF TimesOut, ReplyIfTimedOut
      <3>2. CASE Head(timers) \in awaiting_replies
        BY <2>2, <2>4, <2>5, <3>1, <3>2, Zenon DEF TimesOut, ReplyIfTimedOut
      <3>3. CASE Head(timers) \notin awaiting_replies
        BY <2>3, <2>5, <3>3 DEF TimesOut, ReplyIfTimedOut
      <3> QED
        BY <3>2, <3>3
    <2>6. CASE SenderReads
      <3>1. PICK m : m = Head(to_sender) /\ OnReply(m) /\ kind' = kind
        BY <2>6 DEF SenderReads, OnReply
      <3>2. CASE m.seq \notin awaiting_replies
        BY <2>3, <3>1, <3>2 DEF OnReply, IsAwaited
      <3>3. CASE m.seq \in awaiting_replies
        <4>1. \E o \in Outcomes : Complete(m.seq, o)
          BY <2>4, <3>1, <3>3, Zenon DEF OnReply, OnAnswer, IsAwaited
        <4> QED
          BY <2>2, <3>1, <3>3, <4>1, Zenon
      <3> QED
        BY <3>2, <3>3, Zenon
    <2>7. CASE ReceiverReads \/ SocketChanges \/ UNCHANGED vars
      BY <2>3, <2>7 DEF ReceiverReads, SocketChanges, vars, sender_vars
    <2> QED
      BY <2>1, <2>5, <2>6, <2>7 DEF Next
  <1> QED
    BY <1>1, <1>2, SessionInvariant, PTL DEF Spec
=============================================================================
