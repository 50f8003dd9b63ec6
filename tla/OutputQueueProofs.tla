-------------------------- MODULE OutputQueueProofs --------------------------
(***************************************************************************)
(* For every queue and batch size, drain ratio, back-off threshold and     *)
(* number of messages: the queues keep their types and bounds, no message  *)
(* is published twice, the counts that join() awaits cover every open      *)
(* message, and every message put is published in the order of its queue,  *)
(* or known to be failed, open or lost to a cancellation.                  *)
(***************************************************************************)
EXTENDS OutputQueue, SequenceTheorems, TLAPS

-----------------------------------------------------------------------------
(* Sequences without repetition                                            *)

LEMMA EmptyRange == Range(<<>>) = {} /\ IsInjective(<<>>)
BY DEF Range, IsInjective

LEMMA RangeTyped ==
  ASSUME NEW T, NEW s \in Seq(T)
  PROVE  Range(s) \subseteq T
BY DEF Range

LEMMA AppendDistinct ==
  ASSUME NEW T, NEW s \in Seq(T), NEW x \in T
  PROVE  /\ Append(s, x) \in Seq(T) /\ Len(Append(s, x)) = Len(s) + 1
         /\ Range(Append(s, x)) = Range(s) \cup {x}
         /\ IsInjective(s) /\ x \notin Range(s) => IsInjective(Append(s, x))
<1> DEFINE a == Append(s, x)
<1>1. /\ a \in Seq(T) /\ Len(a) = Len(s) + 1 /\ DOMAIN a = 1..(Len(s) + 1)
      /\ \A i \in 1..Len(s) : a[i] = s[i]
      /\ a[Len(s) + 1] = x /\ DOMAIN s = 1..Len(s) /\ Len(s) \in Nat
  OBVIOUS
<1> HIDE DEF a
<1>2. Range(a) = Range(s) \cup {x}
  <2>1. Range(a) \subseteq Range(s) \cup {x}
    BY <1>1 DEF Range
  <2>2. \A i \in 1..Len(s) : s[i] \in Range(a)
    BY <1>1 DEF Range
  <2>3. x \in Range(a)
    BY <1>1 DEF Range
  <2> QED BY <1>1, <2>1, <2>2, <2>3 DEF Range
<1>3. ASSUME IsInjective(s), x \notin Range(s) PROVE IsInjective(a)
  <2> SUFFICES ASSUME NEW i \in DOMAIN a, NEW j \in DOMAIN a, a[i] = a[j] PROVE i = j
    BY DEF IsInjective
  <2>1. \A k \in 1..Len(s) : s[k] # x
    BY <1>1, <1>3 DEF Range
  <2>2. \A k \in 1..Len(s), n \in 1..Len(s) : s[k] = s[n] => k = n
    BY <1>1, <1>3 DEF IsInjective
  <2> QED BY <1>1, <2>1, <2>2
<1> QED BY <1>1, <1>2, <1>3 DEF a

LEMMA TailDistinct ==
  ASSUME NEW T, NEW s \in Seq(T), s # <<>>, IsInjective(s)
  PROVE  /\ Head(s) \in Range(s) /\ Head(s) \in T
         /\ Tail(s) \in Seq(T) /\ Len(Tail(s)) = Len(s) - 1 /\ Len(s) >= 1
         /\ Range(Tail(s)) = Range(s) \ {Head(s)}
         /\ IsInjective(Tail(s))
<1> DEFINE t == Tail(s)
<1>1. /\ t \in Seq(T) /\ Len(t) = Len(s) - 1 /\ Len(s) \in Nat \ {0}
      /\ DOMAIN t = 1..(Len(s) - 1) /\ \A i \in 1..(Len(s) - 1) : t[i] = s[i + 1]
      /\ Head(s) = s[1] /\ DOMAIN s = 1..Len(s) /\ Head(s) \in T
  BY HeadTailProperties
<1> HIDE DEF t
<1>2. \A i \in 1..Len(s), j \in 1..Len(s) : s[i] = s[j] => i = j
  BY <1>1 DEF IsInjective
<1>3. Head(s) \in Range(s)
  BY <1>1 DEF Range
<1>4. Range(t) \subseteq Range(s) \ {Head(s)}
  <2> SUFFICES ASSUME NEW i \in 1..(Len(s) - 1) PROVE t[i] \in Range(s) \ {Head(s)}
    BY <1>1 DEF Range
  <2>1. i + 1 \in 1..Len(s) /\ i + 1 # 1 /\ 1 \in 1..Len(s)
    BY <1>1
  <2> QED BY <1>1, <1>2, <2>1 DEF Range
<1>5. Range(s) \ {Head(s)} \subseteq Range(t)
  <2> SUFFICES ASSUME NEW i \in 1..Len(s), s[i] # Head(s) PROVE s[i] \in Range(t)
    BY <1>1 DEF Range
  <2>1. i - 1 \in 1..(Len(s) - 1) /\ (i - 1) + 1 = i
    BY <1>1
  <2>2. t[i - 1] = s[i]
    BY <1>1, <2>1
  <2> QED BY <1>1, <2>1, <2>2 DEF Range
<1>6. IsInjective(t)
  <2> SUFFICES ASSUME NEW i \in 1..(Len(s) - 1), NEW j \in 1..(Len(s) - 1), t[i] = t[j]
               PROVE  i = j
    BY <1>1 DEF IsInjective
  <2>1. i + 1 \in 1..Len(s) /\ j + 1 \in 1..Len(s) /\ s[i + 1] = s[j + 1]
    BY <1>1
  <2>2. i + 1 = j + 1
    BY <1>2, <2>1
  <2> QED BY <2>2
<1> QED BY <1>1, <1>3, <1>4, <1>5, <1>6 DEF t

\* A sequence cut in two.
LEMMA CutSeq ==
  ASSUME NEW T, NEW s \in Seq(T), NEW n \in 0..Len(s)
  PROVE  /\ SubSeq(s, 1, n) \in Seq(T) /\ Len(SubSeq(s, 1, n)) = n
         /\ \A i \in 1..n : SubSeq(s, 1, n)[i] = s[i]
         /\ SubSeq(s, n + 1, Len(s)) \in Seq(T)
         /\ Len(SubSeq(s, n + 1, Len(s))) = Len(s) - n
         /\ \A i \in 1..(Len(s) - n) : SubSeq(s, n + 1, Len(s))[i] = s[i + n]
<1> DEFINE a == SubSeq(s, 1, n)
           b == SubSeq(s, n + 1, Len(s))
<1>1. /\ Len(s) \in Nat /\ n \in Nat /\ n <= Len(s) /\ DOMAIN s = 1..Len(s)
      /\ \A i \in 1..Len(s) : s[i] \in T
  OBVIOUS
<1>2. a \in Seq(T) /\ Len(a) = n /\ DOMAIN a = 1..n /\ \A i \in 1..n : a[i] = s[i]
  BY <1>1
<1>3. b \in Seq(T) /\ Len(b) = Len(s) - n /\ DOMAIN b = 1..(Len(s) - n)
      /\ \A i \in 1..(Len(s) - n) : b[i] = s[i + n]
  <2>1. n + 1 \in Int /\ Len(s) \in Int /\ \A i \in (n + 1)..Len(s) : s[i] \in T
    BY <1>1
  <2>2. /\ b \in Seq(T)
        /\ Len(b) = IF n + 1 <= Len(s) THEN Len(s) - (n + 1) + 1 ELSE 0
        /\ \A i \in 1..(Len(s) - (n + 1) + 1) : b[i] = s[n + 1 + i - 1]
    BY <1>1, <2>1, SubSeqProperties
  <2> HIDE DEF b
  <2>3. Len(b) = Len(s) - n
    <3>1. CASE n = Len(s)
      <4>1. ~(n + 1 <= Len(s)) /\ Len(s) - n = 0
        BY <1>1, <3>1
      <4> QED BY <2>2, <4>1
    <3>2. CASE n < Len(s)
      <4>1. n + 1 <= Len(s) /\ Len(s) - (n + 1) + 1 = Len(s) - n
        BY <1>1, <3>2
      <4>2. Len(b) = Len(s) - (n + 1) + 1
        BY <2>2, <4>1, Zenon
      <4> QED BY <4>1, <4>2, Zenon
    <3>3. \A i \in Nat, j \in Nat : i <= j => i = j \/ i < j
      OBVIOUS
    <3>4. n = Len(s) \/ n < Len(s)
      BY <1>1, <3>3, Zenon
    <3> QED BY <3>1, <3>2, <3>4
  <2>4. DOMAIN b = 1..Len(b)
    BY <2>2
  <2>5. \A i \in 1..(Len(s) - n) : b[i] = s[i + n]
    <3> SUFFICES ASSUME NEW i \in 1..(Len(s) - n) PROVE b[i] = s[i + n]
      OBVIOUS
    <3>1. i \in 1..(Len(s) - (n + 1) + 1) /\ n + 1 + i - 1 = i + n
      BY <1>1
    <3> QED BY <2>2, <3>1
  <2> QED BY <2>2, <2>3, <2>4, <2>5
<1> HIDE DEF a, b
<1> QED BY <1>2, <1>3 DEF a, b

\* ... keeps its messages apart.
LEMMA CutDistinct ==
  ASSUME NEW T, NEW s \in Seq(T), NEW n \in 0..Len(s), IsInjective(s)
  PROVE  /\ SubSeq(s, 1, n) \in Seq(T) /\ Len(SubSeq(s, 1, n)) = n
         /\ SubSeq(s, n + 1, Len(s)) \in Seq(T)
         /\ Len(SubSeq(s, n + 1, Len(s))) = Len(s) - n
         /\ IsInjective(SubSeq(s, 1, n)) /\ IsInjective(SubSeq(s, n + 1, Len(s)))
         /\ Range(SubSeq(s, 1, n)) \subseteq Range(s)
         /\ Range(SubSeq(s, n + 1, Len(s))) \subseteq Range(s)
         /\ Range(SubSeq(s, 1, n)) \cap Range(SubSeq(s, n + 1, Len(s))) = {}
<1> DEFINE a == SubSeq(s, 1, n)
           b == SubSeq(s, n + 1, Len(s))
<1>1. /\ Len(s) \in Nat /\ n \in Nat /\ n <= Len(s) /\ DOMAIN s = 1..Len(s)
      /\ \A i \in 1..Len(s) : s[i] \in T
  OBVIOUS
<1>2. a \in Seq(T) /\ Len(a) = n /\ DOMAIN a = 1..n /\ \A i \in 1..n : a[i] = s[i]
  BY <1>1
<1>3. b \in Seq(T) /\ Len(b) = Len(s) - n /\ DOMAIN b = 1..(Len(s) - n)
      /\ \A i \in 1..(Len(s) - n) : b[i] = s[i + n]
  <2>1. b \in Seq(T) /\ Len(b) = Len(s) - n /\ \A i \in 1..(Len(s) - n) : b[i] = s[i + n]
    BY CutSeq
  <2> HIDE DEF b
  <2>2. DOMAIN b = 1..Len(b)
    BY <2>1
  <2> QED BY <2>1, <2>2
<1> HIDE DEF a, b
<1>4. \A i \in 1..Len(s), j \in 1..Len(s) : s[i] = s[j] => i = j
  BY <1>1 DEF IsInjective
<1>5. \A i \in 1..n : i \in 1..Len(s)
  BY <1>1
<1>6. \A i \in 1..(Len(s) - n) : i + n \in 1..Len(s) /\ i + n > n
  BY <1>1
<1>7. IsInjective(a) /\ Range(a) \subseteq Range(s)
  BY <1>1, <1>2, <1>4, <1>5 DEF IsInjective, Range
<1>8. IsInjective(b)
  <2> SUFFICES ASSUME NEW i \in 1..(Len(s) - n), NEW j \in 1..(Len(s) - n), b[i] = b[j]
               PROVE  i = j
    BY <1>3 DEF IsInjective
  <2>1. i + n = j + n
    BY <1>3, <1>4, <1>6
  <2> QED BY <1>1, <2>1
<1>9. Range(b) \subseteq Range(s)
  BY <1>1, <1>3, <1>6 DEF Range
<1>10. Range(a) \cap Range(b) = {}
  <2> SUFFICES ASSUME NEW i \in 1..n, NEW j \in 1..(Len(s) - n), a[i] = b[j] PROVE FALSE
    BY <1>2, <1>3 DEF Range
  <2>1. i = j + n
    BY <1>2, <1>3, <1>4, <1>5, <1>6
  <2> QED BY <1>1, <1>6, <2>1
<1> QED BY <1>2, <1>3, <1>7, <1>8, <1>9, <1>10 DEF a, b

LEMMA ConcatDistinct ==
  ASSUME NEW T, NEW s \in Seq(T), NEW t \in Seq(T)
  PROVE  /\ s \o t \in Seq(T) /\ Len(s \o t) = Len(s) + Len(t)
         /\ Range(s \o t) = Range(s) \cup Range(t)
         /\ IsInjective(s) /\ IsInjective(t) /\ Range(s) \cap Range(t) = {}
              => IsInjective(s \o t)
<1> DEFINE c == s \o t
<1>1. /\ c \in Seq(T) /\ Len(c) = Len(s) + Len(t) /\ Len(s) \in Nat /\ Len(t) \in Nat
      /\ DOMAIN c = 1..(Len(s) + Len(t)) /\ DOMAIN s = 1..Len(s) /\ DOMAIN t = 1..Len(t)
      /\ \A i \in 1..(Len(s) + Len(t)) :
           c[i] = IF i <= Len(s) THEN s[i] ELSE t[i - Len(s)]
  BY ConcatProperties
<1> HIDE DEF c
<1>2. \A i \in 1..Len(s) : i \in 1..(Len(s) + Len(t)) /\ c[i] = s[i]
  BY <1>1
<1>3. \A i \in 1..Len(t) : i + Len(s) \in 1..(Len(s) + Len(t)) /\ c[i + Len(s)] = t[i]
  BY <1>1
<1>4. \A i \in 1..(Len(s) + Len(t)) : i \in 1..Len(s) \/ i - Len(s) \in 1..Len(t)
  BY <1>1
<1>5. Range(c) = Range(s) \cup Range(t)
  <2>1. \A i \in 1..(Len(s) + Len(t)) : c[i] \in Range(s) \cup Range(t)
    <3> SUFFICES ASSUME NEW i \in 1..(Len(s) + Len(t)) PROVE c[i] \in Range(s) \cup Range(t)
      OBVIOUS
    <3>1. CASE i \in 1..Len(s)
      BY <1>1, <1>2, <3>1 DEF Range
    <3>2. CASE i - Len(s) \in 1..Len(t)
      <4>1. c[i] = t[i - Len(s)]
        BY <1>1, <3>2
      <4> QED BY <1>1, <3>2, <4>1 DEF Range
    <3> QED BY <1>4, <3>1, <3>2
  <2>2. \A i \in 1..Len(s) : s[i] \in Range(c)
    BY <1>1, <1>2 DEF Range
  <2>3. \A i \in 1..Len(t) : t[i] \in Range(c)
    BY <1>1, <1>3 DEF Range
  <2> QED BY <1>1, <2>1, <2>2, <2>3 DEF Range
<1>6. ASSUME IsInjective(s), IsInjective(t), Range(s) \cap Range(t) = {}
      PROVE  IsInjective(c)
  <2> SUFFICES ASSUME NEW i \in DOMAIN c, NEW j \in DOMAIN c, c[i] = c[j] PROVE i = j
    BY DEF IsInjective
  <2>1. \A k \in 1..Len(s), n \in 1..Len(t) : s[k] # t[n]
    BY <1>1, <1>6 DEF Range
  <2>2. \A k \in 1..Len(s), n \in 1..Len(s) : s[k] = s[n] => k = n
    BY <1>1, <1>6 DEF IsInjective
  <2>3. \A k \in 1..Len(t), n \in 1..Len(t) : t[k] = t[n] => k = n
    BY <1>1, <1>6 DEF IsInjective
  <2>4. i \in 1..(Len(s) + Len(t)) /\ j \in 1..(Len(s) + Len(t))
    BY <1>1
  <2>5. \A k \in 1..(Len(s) + Len(t)) :
          k - Len(s) \in 1..Len(t) => c[k] = t[k - Len(s)]
    BY <1>1
  <2>6. CASE i \in 1..Len(s) /\ j \in 1..Len(s)
    BY <1>2, <2>2, <2>6
  <2>7. CASE i \in 1..Len(s) /\ j - Len(s) \in 1..Len(t)
    BY <1>2, <2>1, <2>4, <2>5, <2>7
  <2>8. CASE i - Len(s) \in 1..Len(t) /\ j \in 1..Len(s)
    BY <1>2, <2>1, <2>4, <2>5, <2>8
  <2>9. CASE i - Len(s) \in 1..Len(t) /\ j - Len(s) \in 1..Len(t)
    <3>1. i - Len(s) = j - Len(s)
      BY <2>3, <2>4, <2>5, <2>9
    <3> QED BY <1>1, <2>4, <3>1
  <2> QED BY <1>4, <2>4, <2>6, <2>7, <2>8, <2>9
<1> QED BY <1>1, <1>5, <1>6 DEF c

\* A waiting put given up.
LEMMA RemoveDistinct ==
  ASSUME NEW T, NEW s \in Seq(T), NEW n \in 1..Len(s), IsInjective(s)
  PROVE  /\ RemoveAt(s, n) \in Seq(T) /\ IsInjective(RemoveAt(s, n))
         /\ Range(RemoveAt(s, n)) \subseteq Range(s)
<1> DEFINE a == SubSeq(s, 1, n - 1)
           b == SubSeq(s, 1, n)
           c == SubSeq(s, n + 1, Len(s))
<1>1. n - 1 \in 0..Len(s) /\ n \in 0..Len(s)
  OBVIOUS
<1>2. a \in Seq(T) /\ IsInjective(a) /\ Range(a) \subseteq Range(s) /\ Len(a) = n - 1
  BY <1>1, CutDistinct
<1>3. /\ b \in Seq(T) /\ Len(b) = n
      /\ c \in Seq(T) /\ IsInjective(c) /\ Range(c) \subseteq Range(s)
      /\ Range(b) \cap Range(c) = {}
  BY <1>1, CutDistinct
<1>4. Range(a) \subseteq Range(b)
  <2>1. \A i \in 1..(n - 1) : i \in 1..n /\ a[i] = s[i] /\ b[i] = s[i]
    OBVIOUS
  <2> HIDE DEF a, b
  <2>2. DOMAIN a = 1..(n - 1) /\ DOMAIN b = 1..n
    BY <1>2, <1>3
  <2> QED BY <2>1, <2>2 DEF Range
<1> HIDE DEF a, b, c
<1>5. /\ a \o c \in Seq(T) /\ Range(a \o c) = Range(a) \cup Range(c)
      /\ IsInjective(a \o c)
  BY <1>2, <1>3, <1>4, ConcatDistinct
<1>6. RemoveAt(s, n) = a \o c
  BY DEF RemoveAt, a, c
<1> QED BY <1>2, <1>3, <1>5, <1>6

-----------------------------------------------------------------------------
(* The inductive invariant                                                 *)

\* Every message of one priority that may still be published.
Own(p) == Range(queue[p]) \cup Range(batch[p]) \cup Range(waiting[p])

\* A message offered is at one place at most: in a queue, in the batch, in the
\* hands of a waiting caller or on the topic.
Apart ==
  /\ \A p \in Priorities :
       /\ IsInjective(queue[p]) /\ IsInjective(batch[p]) /\ IsInjective(waiting[p])
       /\ Range(queue[p]) \cap Range(batch[p]) = {}
       /\ Range(queue[p]) \cap Range(waiting[p]) = {}
       /\ Range(batch[p]) \cap Range(waiting[p]) = {}
       /\ Own(p) \subseteq 1..offered
       /\ Own(p) \cap Range(published) = {}
  /\ Own("high") \cap Own("low") = {}
  /\ IsInjective(published) /\ Range(published) \subseteq 1..offered

\* A loop that ended by itself leaves only messages put after its end.
LateOnly == loop = "off" => \A p \in Priorities : Range(queue[p]) \subseteq late

QueueInv == TypeOK /\ Apart /\ JoinCounts /\ LateOnly

\* What the invariant says of one priority.
LEMMA OnePriority ==
  ASSUME QueueInv, NEW p \in Priorities
  PROVE  /\ queue[p] \in Seq(Items) /\ batch[p] \in Seq(Items) /\ waiting[p] \in Seq(Items)
         /\ Len(queue[p]) \in Nat /\ Len(batch[p]) \in Nat /\ Len(queue[p]) <= MaxSize
         /\ unfinished[p] \in Nat /\ unfinished[p] >= Len(queue[p]) + Len(batch[p])
         /\ loop # "dead" => unfinished[p] = Len(queue[p]) + Len(batch[p])
BY DEF QueueInv, TypeOK, JoinCounts

\* asyncio.Queue.put_nowait of a message the queue does not hold.
LEMMA PutStep ==
  ASSUME QueueInv, NEW p \in Priorities, NEW i \in Items, i \notin Range(queue[p]),
         ~Full(p), Put(p, i)
  PROVE  /\ queue' \in [Priorities -> Seq(Items)]
         /\ unfinished' \in [Priorities -> Nat]
         /\ \A q \in Priorities :
              /\ Len(queue'[q]) <= MaxSize
              /\ unfinished'[q] >= Len(queue'[q]) + Len(batch[q])
              /\ loop # "dead" => unfinished'[q] = Len(queue'[q]) + Len(batch[q])
              /\ IsInjective(queue'[q])
              /\ Range(queue'[q]) = Range(queue[q]) \cup (IF q = p THEN {i} ELSE {})
              /\ loop = "off" => Range(queue'[q]) \subseteq late'
         /\ late \subseteq late' /\ late' \subseteq Items
<1>1. /\ queue[p] \in Seq(Items) /\ Len(queue[p]) \in Nat /\ unfinished[p] \in Nat
      /\ IsInjective(queue[p]) /\ Len(queue[p]) < MaxSize
  <2>1. queue[p] \in Seq(Items) /\ Len(queue[p]) \in Nat /\ unfinished[p] \in Nat
    BY OnePriority
  <2>2. IsInjective(queue[p])
    BY DEF QueueInv, Apart
  <2>3. Len(queue[p]) < MaxSize
    BY <2>1, OutputAssumption DEF Full
  <2> QED BY <2>1, <2>2, <2>3
<1> DEFINE a == Append(queue[p], i)
<1>2. /\ a \in Seq(Items) /\ Len(a) = Len(queue[p]) + 1
      /\ Range(a) = Range(queue[p]) \cup {i} /\ IsInjective(a)
  BY <1>1, AppendDistinct
<1>3. /\ queue' = [queue EXCEPT ![p] = a]
      /\ unfinished' = [unfinished EXCEPT ![p] = unfinished[p] + 1]
      /\ late' = IF loop \in {"off", "dead"} THEN late \cup {i} ELSE late
  BY DEF Put
<1> HIDE DEF a
<1>4. queue \in [Priorities -> Seq(Items)] /\ unfinished \in [Priorities -> Nat]
  BY DEF QueueInv, TypeOK
<1>5. queue' \in [Priorities -> Seq(Items)] /\ unfinished' \in [Priorities -> Nat]
  BY <1>1, <1>2, <1>3, <1>4
<1>6. late \subseteq late' /\ late' \subseteq Items
  BY <1>3 DEF QueueInv, TypeOK
<1>7. \A q \in Priorities :
        /\ Len(queue[q]) \in Nat /\ Len(batch[q]) \in Nat
        /\ unfinished[q] >= Len(queue[q]) + Len(batch[q])
        /\ loop # "dead" => unfinished[q] = Len(queue[q]) + Len(batch[q])
  BY OnePriority
<1>8. ASSUME NEW q \in Priorities
      PROVE  /\ Len(queue'[q]) <= MaxSize
             /\ unfinished'[q] >= Len(queue'[q]) + Len(batch[q])
             /\ loop # "dead" => unfinished'[q] = Len(queue'[q]) + Len(batch[q])
             /\ IsInjective(queue'[q])
             /\ Range(queue'[q]) = Range(queue[q]) \cup (IF q = p THEN {i} ELSE {})
             /\ loop = "off" => Range(queue'[q]) \subseteq late'
  <2>1. CASE q = p
    <3>1. queue'[q] = a /\ unfinished'[q] = unfinished[p] + 1
      BY <1>3, <1>4, <2>1
    <3>2. Len(queue'[q]) <= MaxSize
      BY <1>1, <1>2, <3>1, OutputAssumption
    <3>3. /\ unfinished'[q] >= Len(queue'[q]) + Len(batch[q])
          /\ loop # "dead" => unfinished'[q] = Len(queue'[q]) + Len(batch[q])
      <4>1. /\ Len(queue'[q]) = Len(queue[p]) + 1 /\ unfinished'[q] = unfinished[p] + 1
            /\ batch[q] = batch[p]
        BY <1>2, <2>1, <3>1
      <4>2. Len(batch[p]) \in Nat
        BY <1>7
      <4>3. unfinished[p] >= Len(queue[p]) + Len(batch[p])
        BY <1>7
      <4>4. loop # "dead" => unfinished[p] = Len(queue[p]) + Len(batch[p])
        BY <1>7
      <4>5. \A u \in Nat, k \in Nat, b \in Nat :
              /\ u >= k + b => u + 1 >= (k + 1) + b
              /\ u = k + b => u + 1 = (k + 1) + b
        OBVIOUS
      <4>6. /\ unfinished[p] + 1 >= (Len(queue[p]) + 1) + Len(batch[p])
            /\ loop # "dead" => unfinished[p] + 1 = (Len(queue[p]) + 1) + Len(batch[p])
        BY <1>1, <4>2, <4>3, <4>4, <4>5
      <4> QED BY <4>1, <4>6
    <3>4. Range(queue'[q]) = Range(queue[q]) \cup {i} /\ IsInjective(queue'[q])
      BY <1>2, <2>1, <3>1
    <3>5. loop = "off" => Range(queue'[q]) \subseteq late'
      BY <1>3, <3>4 DEF QueueInv, LateOnly
    <3> QED BY <2>1, <3>2, <3>3, <3>4, <3>5
  <2>2. CASE q # p
    <3>1. queue'[q] = queue[q] /\ unfinished'[q] = unfinished[q]
      BY <1>3, <1>4, <2>2
    <3>2. IsInjective(queue[q]) /\ Len(queue[q]) <= MaxSize
      BY DEF QueueInv, Apart, TypeOK
    <3>3. loop = "off" => Range(queue'[q]) \subseteq late'
      BY <1>6, <3>1 DEF QueueInv, LateOnly
    <3> QED BY <1>7, <2>2, <3>1, <3>2, <3>3
  <2> QED BY <2>1, <2>2
<1> QED BY <1>5, <1>6, <1>8

\* A message offered now is at no place yet.
LEMMA OfferedNew ==
  ASSUME QueueInv, NEW i, Offer(i)
  PROVE  /\ i \in Items /\ offered' = i /\ offered' \in 0..MaxItems
         /\ 1..offered \subseteq 1..offered' /\ i \in 1..offered'
         /\ i \notin Range(published)
         /\ \A q \in Priorities : i \notin Own(q)
<1>1. /\ offered \in Nat /\ i = offered + 1 /\ offered' = i /\ offered < MaxItems
      /\ i \notin 1..offered
  BY OutputAssumption DEF Offer, QueueInv, TypeOK
<1>2. i \in Items /\ offered' \in 0..MaxItems /\ i \in 1..offered' /\ 1..offered \subseteq 1..offered'
  BY <1>1, OutputAssumption DEF Items
<1> QED BY <1>1, <1>2 DEF QueueInv, Apart

\* A put into the queue keeps the invariant when the message is nowhere else
\* and no caller waits with it any more.
LEMMA PutKeeps ==
  ASSUME QueueInv, NEW p \in Priorities, NEW i \in Items, ~Full(p), Put(p, i),
         UNCHANGED <<drain, running, join, failed, published>>,
         offered' \in 0..MaxItems, 1..offered \subseteq 1..offered', i \in 1..offered',
         i \notin Range(published),
         waiting' \in [Priorities -> Seq(Items)],
         \A q \in Priorities :
           /\ IsInjective(waiting'[q]) /\ Range(waiting'[q]) \subseteq Range(waiting[q])
           /\ i \notin Range(queue[q]) \cup Range(batch[q]) \cup Range(waiting'[q])
           /\ q # p => i \notin Own(q)
  PROVE  QueueInv'
<1>1. /\ queue' \in [Priorities -> Seq(Items)]
      /\ unfinished' \in [Priorities -> Nat]
      /\ \A q \in Priorities :
           /\ Len(queue'[q]) <= MaxSize
           /\ unfinished'[q] >= Len(queue'[q]) + Len(batch[q])
           /\ loop # "dead" => unfinished'[q] = Len(queue'[q]) + Len(batch[q])
           /\ IsInjective(queue'[q])
           /\ Range(queue'[q]) = Range(queue[q]) \cup (IF q = p THEN {i} ELSE {})
           /\ loop = "off" => Range(queue'[q]) \subseteq late'
      /\ late \subseteq late' /\ late' \subseteq Items
  BY PutStep
<1>2. /\ batch' = batch /\ noneSent' = noneSent /\ loop' = loop /\ highSince' = highSince
      /\ allFail' = allFail /\ running' = running /\ join' = join /\ published' = published
      /\ failed' = failed
  BY DEF drain
<1>10. put' \in [Priorities -> Seq(Items)]
  <2>1. put \in [Priorities -> Seq(Items)] /\ Append(put[p], i) \in Seq(Items)
    BY AppendDistinct DEF QueueInv, TypeOK
  <2> QED BY <2>1 DEF Put
<1>3. TypeOK'
  BY <1>1, <1>2, <1>10 DEF QueueInv, TypeOK
<1>4. \A q \in Priorities :
        /\ IsInjective(queue[q]) /\ IsInjective(batch[q]) /\ IsInjective(waiting[q])
        /\ Range(queue[q]) \cap Range(batch[q]) = {}
        /\ Range(queue[q]) \cap Range(waiting[q]) = {}
        /\ Range(batch[q]) \cap Range(waiting[q]) = {}
        /\ Own(q) \subseteq 1..offered
        /\ Own(q) \cap Range(published) = {}
  BY DEF QueueInv, Apart
<1>5. /\ Own("high") \cap Own("low") = {} /\ IsInjective(published)
      /\ Range(published) \subseteq 1..offered
  BY DEF QueueInv, Apart
<1>6. \A q \in Priorities :
        Own(q)' = Range(queue'[q]) \cup Range(batch[q]) \cup Range(waiting'[q])
  BY <1>2 DEF Own
<1>7. Apart'
  <2>1. ASSUME NEW q \in Priorities
        PROVE  /\ IsInjective(queue'[q]) /\ IsInjective(batch[q]) /\ IsInjective(waiting'[q])
               /\ Range(queue'[q]) \cap Range(batch[q]) = {}
               /\ Range(queue'[q]) \cap Range(waiting'[q]) = {}
               /\ Range(batch[q]) \cap Range(waiting'[q]) = {}
    <3>1. /\ IsInjective(queue'[q])
          /\ Range(queue'[q]) \subseteq Range(queue[q]) \cup {i}
      BY <1>1
    <3>2. /\ IsInjective(batch[q]) /\ Range(queue[q]) \cap Range(batch[q]) = {}
          /\ Range(queue[q]) \cap Range(waiting[q]) = {}
          /\ Range(batch[q]) \cap Range(waiting[q]) = {}
      BY <1>4
    <3>3. /\ IsInjective(waiting'[q]) /\ Range(waiting'[q]) \subseteq Range(waiting[q])
          /\ i \notin Range(batch[q]) /\ i \notin Range(waiting'[q])
      OBVIOUS
    <3> QED BY <3>1, <3>2, <3>3
  <2>2. \A q \in Priorities :
          Own(q)' \subseteq Own(q) \cup (IF q = p THEN {i} ELSE {})
    <3> SUFFICES ASSUME NEW q \in Priorities
                 PROVE  Own(q)' \subseteq Own(q) \cup (IF q = p THEN {i} ELSE {})
      OBVIOUS
    <3>1. Own(q)' = Range(queue'[q]) \cup Range(batch[q]) \cup Range(waiting'[q])
      BY <1>6
    <3>2. Range(queue'[q]) = Range(queue[q]) \cup (IF q = p THEN {i} ELSE {})
      BY <1>1
    <3>3. Range(waiting'[q]) \subseteq Range(waiting[q])
      OBVIOUS
    <3>4. Own(q) = Range(queue[q]) \cup Range(batch[q]) \cup Range(waiting[q])
      BY DEF Own
    <3> QED BY <3>1, <3>2, <3>3, <3>4
  <2>3. \A q \in Priorities : Own(q)' \subseteq 1..offered' /\ Own(q)' \cap Range(published) = {}
    BY <1>4, <2>2
  <2>4. Own("high")' \cap Own("low")' = {}
    <3>1. "high" \in Priorities /\ "low" \in Priorities /\ "high" # "low"
      BY DEF Priorities
    <3> QED BY <1>5, <2>2, <3>1
  <2> QED BY <1>2, <1>5, <2>1, <2>3, <2>4 DEF Apart
<1>8. JoinCounts'
  BY <1>1, <1>2 DEF JoinCounts
<1>9. LateOnly'
  BY <1>1, <1>2 DEF LateOnly
<1> QED BY <1>3, <1>7, <1>8, <1>9 DEF QueueInv

\* A change of the waiting callers alone keeps the invariant, when a message
\* they hold now and did not hold before is a new one.
LEMMA WaitKeeps ==
  ASSUME QueueInv, NEW p \in Priorities, NEW N,
         UNCHANGED <<queue, unfinished, drain, running, join, history>>,
         offered' \in 0..MaxItems, 1..offered \subseteq 1..offered', N \subseteq 1..offered',
         N \cap Range(published) = {}, \A q \in Priorities : N \cap Own(q) = {},
         waiting' \in [Priorities -> Seq(Items)],
         \A q \in Priorities :
           /\ IsInjective(waiting'[q])
           /\ Range(waiting'[q]) \subseteq Range(waiting[q]) \cup (IF q = p THEN N ELSE {})
  PROVE  QueueInv'
<1>1. /\ queue' = queue /\ unfinished' = unfinished /\ batch' = batch /\ noneSent' = noneSent
      /\ loop' = loop /\ highSince' = highSince /\ allFail' = allFail /\ running' = running
      /\ join' = join /\ published' = published /\ late' = late /\ put' = put
      /\ failed' = failed
  BY DEF drain, history
<1>2. TypeOK'
  BY <1>1 DEF QueueInv, TypeOK
<1>3. JoinCounts'
  BY <1>1 DEF QueueInv, JoinCounts
<1>4. LateOnly'
  BY <1>1 DEF QueueInv, LateOnly
<1>5. ASSUME NEW q \in Priorities
      PROVE  /\ IsInjective(queue[q]) /\ IsInjective(batch[q]) /\ IsInjective(waiting'[q])
             /\ Range(queue[q]) \cap Range(batch[q]) = {}
             /\ Range(queue[q]) \cap Range(waiting'[q]) = {}
             /\ Range(batch[q]) \cap Range(waiting'[q]) = {}
             /\ Own(q)' \subseteq Own(q) \cup (IF q = p THEN N ELSE {})
             /\ Own(q)' \subseteq 1..offered' /\ Own(q)' \cap Range(published) = {}
  <2>1. /\ IsInjective(queue[q]) /\ IsInjective(batch[q])
        /\ Range(queue[q]) \cap Range(batch[q]) = {}
        /\ Range(queue[q]) \cap Range(waiting[q]) = {}
        /\ Range(batch[q]) \cap Range(waiting[q]) = {}
        /\ Own(q) \subseteq 1..offered /\ Own(q) \cap Range(published) = {}
    BY DEF QueueInv, Apart
  <2>2. /\ IsInjective(waiting'[q])
        /\ Range(waiting'[q]) \subseteq Range(waiting[q]) \cup (IF q = p THEN N ELSE {})
        /\ N \cap Own(q) = {}
    OBVIOUS
  <2>3. /\ Own(q)' = Range(queue[q]) \cup Range(batch[q]) \cup Range(waiting'[q])
        /\ Own(q) = Range(queue[q]) \cup Range(batch[q]) \cup Range(waiting[q])
    BY <1>1 DEF Own
  <2>4. /\ Range(queue[q]) \cap Range(waiting'[q]) = {}
        /\ Range(batch[q]) \cap Range(waiting'[q]) = {}
    BY <2>1, <2>2, <2>3
  <2>5. Own(q)' \subseteq Own(q) \cup (IF q = p THEN N ELSE {})
    BY <2>2, <2>3
  <2> QED BY <2>1, <2>2, <2>4, <2>5
<1>6. Own("high")' \cap Own("low")' = {}
  <2>1. "high" \in Priorities /\ "low" \in Priorities /\ "high" # "low"
    BY DEF Priorities
  <2>2. Own("high") \cap Own("low") = {}
    BY DEF QueueInv, Apart
  <2> QED BY <1>5, <2>1, <2>2
<1>7. IsInjective(published) /\ Range(published) \subseteq 1..offered
  BY DEF QueueInv, Apart
<1>8. Apart'
  BY <1>1, <1>5, <1>6, <1>7 DEF Apart
<1> QED BY <1>2, <1>3, <1>4, <1>8 DEF QueueInv

\* What the invariant says of the callers that wait.
LEMMA WaitingFacts ==
  ASSUME QueueInv
  PROVE  /\ waiting \in [Priorities -> Seq(Items)] /\ offered \in 0..MaxItems
         /\ \A q \in Priorities : IsInjective(waiting[q])
BY DEF QueueInv, TypeOK, Apart

LEMMA EnqueueKeeps ==
  ASSUME QueueInv, NEW p \in Priorities, NEW i, Enqueue(p, i)
  PROVE  QueueInv'
<1>1. /\ i \in Items /\ offered' \in 0..MaxItems
      /\ 1..offered \subseteq 1..offered' /\ i \in 1..offered' /\ i \notin Range(published)
      /\ \A q \in Priorities : i \notin Own(q)
  BY OfferedNew DEF Enqueue
<1>2. waiting' = waiting /\ UNCHANGED <<drain, running, join, failed, published>>
  BY DEF Enqueue
<1>3. /\ waiting \in [Priorities -> Seq(Items)]
      /\ \A q \in Priorities : IsInjective(waiting[q])
  BY WaitingFacts
<1>4. CASE Full(p)
  <2>1. UNCHANGED <<queue, unfinished, drain, running, join, history>>
    BY <1>2, <1>4 DEF Enqueue, history
  <2>2. /\ {} \subseteq 1..offered' /\ {} \cap Range(published) = {}
        /\ \A q \in Priorities : {} \cap Own(q) = {}
    OBVIOUS
  <2>3. \A q \in Priorities :
           /\ IsInjective(waiting'[q])
           /\ Range(waiting'[q]) \subseteq Range(waiting[q]) \cup (IF q = p THEN {} ELSE {})
    BY <1>2, <1>3
  <2>4. waiting' \in [Priorities -> Seq(Items)]
    BY <1>2, <1>3
  <2> QED BY <1>1, <2>1, <2>2, <2>3, <2>4, WaitKeeps
<1>5. CASE ~Full(p)
  <2>1. Put(p, i)
    BY <1>5 DEF Enqueue
  <2>2. \A q \in Priorities :
           /\ IsInjective(waiting'[q]) /\ Range(waiting'[q]) \subseteq Range(waiting[q])
           /\ i \notin Range(queue[q]) \cup Range(batch[q]) \cup Range(waiting'[q])
           /\ q # p => i \notin Own(q)
    BY <1>1, <1>2, <1>3 DEF Own
  <2>3. waiting' \in [Priorities -> Seq(Items)]
    BY <1>2, <1>3
  <2> QED BY <1>1, <1>2, <1>5, <2>1, <2>2, <2>3, PutKeeps
<1> QED BY <1>4, <1>5

LEMMA EnqueueBlockingKeeps ==
  ASSUME QueueInv, NEW p \in Priorities, NEW i, EnqueueBlocking(p, i)
  PROVE  QueueInv'
<1>1. /\ i \in Items /\ offered' \in 0..MaxItems
      /\ 1..offered \subseteq 1..offered' /\ i \in 1..offered' /\ i \notin Range(published)
      /\ \A q \in Priorities : i \notin Own(q)
  BY OfferedNew DEF EnqueueBlocking
<1>2. UNCHANGED <<drain, running, join, failed, published>>
  BY DEF EnqueueBlocking
<1>3. /\ waiting \in [Priorities -> Seq(Items)]
      /\ \A q \in Priorities : IsInjective(waiting[q])
  BY WaitingFacts
<1>4. CASE Full(p)
  <2>1. /\ UNCHANGED <<queue, unfinished, drain, running, join, history>>
        /\ waiting' = [waiting EXCEPT ![p] = Append(waiting[p], i)]
    BY <1>2, <1>4 DEF EnqueueBlocking, history
  <2>2. /\ Append(waiting[p], i) \in Seq(Items) /\ IsInjective(Append(waiting[p], i))
        /\ Range(Append(waiting[p], i)) = Range(waiting[p]) \cup {i}
    BY <1>1, <1>3, AppendDistinct DEF Own
  <2>3. waiting' \in [Priorities -> Seq(Items)]
    BY <1>3, <2>1, <2>2
  <2>4. \A q \in Priorities :
           /\ IsInjective(waiting'[q])
           /\ Range(waiting'[q]) \subseteq Range(waiting[q]) \cup (IF q = p THEN {i} ELSE {})
    <3> SUFFICES ASSUME NEW q \in Priorities
                 PROVE  /\ IsInjective(waiting'[q])
                        /\ Range(waiting'[q])
                             \subseteq Range(waiting[q]) \cup (IF q = p THEN {i} ELSE {})
      OBVIOUS
    <3>1. CASE q = p
      BY <1>3, <2>1, <2>2, <3>1
    <3>2. CASE q # p
      BY <1>3, <2>1, <3>2
    <3> QED BY <3>1, <3>2
  <2>5. {i} \subseteq 1..offered' /\ {i} \cap Range(published) = {}
    BY <1>1
  <2>6. \A q \in Priorities : {i} \cap Own(q) = {}
    BY <1>1
  <2> QED BY <1>1, <2>1, <2>3, <2>4, <2>5, <2>6, WaitKeeps
<1>5. CASE ~Full(p)
  <2>1. Put(p, i) /\ waiting' = waiting
    BY <1>5 DEF EnqueueBlocking
  <2>2. \A q \in Priorities :
           /\ IsInjective(waiting'[q]) /\ Range(waiting'[q]) \subseteq Range(waiting[q])
           /\ i \notin Range(queue[q]) \cup Range(batch[q]) \cup Range(waiting'[q])
           /\ q # p => i \notin Own(q)
    BY <1>1, <1>3, <2>1 DEF Own
  <2>3. waiting' \in [Priorities -> Seq(Items)]
    BY <1>3, <2>1
  <2> QED BY <1>1, <1>2, <1>5, <2>1, <2>2, <2>3, PutKeeps
<1> QED BY <1>4, <1>5

LEMMA PutWakesKeeps ==
  ASSUME QueueInv, NEW p \in Priorities, PutWakes(p)
  PROVE  QueueInv'
<1> DEFINE i == Head(waiting[p])
           t == Tail(waiting[p])
<1>1. /\ waiting \in [Priorities -> Seq(Items)] /\ offered \in 0..MaxItems
      /\ \A q \in Priorities : IsInjective(waiting[q])
  BY WaitingFacts
<1>2. /\ i \in Range(waiting[p]) /\ i \in Items /\ t \in Seq(Items)
      /\ Range(t) = Range(waiting[p]) \ {i} /\ IsInjective(t)
  BY <1>1, TailDistinct DEF PutWakes
<1>3. /\ ~Full(p) /\ Put(p, i) /\ waiting' = [waiting EXCEPT ![p] = t]
      /\ UNCHANGED <<drain, running, join, failed, published>> /\ offered' = offered
  BY DEF PutWakes
<1> HIDE DEF i, t
<1>4. i \in Own(p)
  BY <1>2 DEF Own
<1>5. /\ i \notin Range(queue[p]) /\ i \notin Range(batch[p])
      /\ i \notin Range(published) /\ i \in 1..offered
  BY <1>2, <1>4 DEF QueueInv, Apart
<1>6. \A q \in Priorities : q # p => i \notin Own(q)
  BY <1>4 DEF QueueInv, Apart, Priorities
<1>7. waiting' \in [Priorities -> Seq(Items)]
  BY <1>1, <1>2, <1>3
<1>8. ASSUME NEW q \in Priorities
      PROVE  /\ IsInjective(waiting'[q]) /\ Range(waiting'[q]) \subseteq Range(waiting[q])
             /\ i \notin Range(queue[q]) \cup Range(batch[q]) \cup Range(waiting'[q])
             /\ q # p => i \notin Own(q)
  <2>1. CASE q = p
    <3>1. waiting'[q] = t
      BY <1>1, <1>3, <2>1
    <3> QED BY <1>2, <1>5, <2>1, <3>1
  <2>2. CASE q # p
    <3>1. waiting'[q] = waiting[q]
      BY <1>1, <1>3, <2>2
    <3>2. i \notin Own(q)
      BY <1>6, <2>2
    <3> QED BY <1>1, <2>2, <3>1, <3>2 DEF Own
  <2> QED BY <2>1, <2>2
<1>9. offered' \in 0..MaxItems /\ 1..offered \subseteq 1..offered' /\ i \in 1..offered'
  BY <1>1, <1>3, <1>5
<1> QED BY <1>2, <1>3, <1>5, <1>7, <1>8, <1>9, PutKeeps

LEMMA PutTimeoutKeeps ==
  ASSUME QueueInv, NEW p \in Priorities, NEW n, PutTimeout(p, n)
  PROVE  QueueInv'
<1> DEFINE r == RemoveAt(waiting[p], n)
<1>1. /\ waiting \in [Priorities -> Seq(Items)] /\ offered \in 0..MaxItems
      /\ \A q \in Priorities : IsInjective(waiting[q])
  BY WaitingFacts
<1>2. n \in 1..Len(waiting[p])
  BY <1>1 DEF PutTimeout
<1>3. r \in Seq(Items) /\ IsInjective(r) /\ Range(r) \subseteq Range(waiting[p])
  BY <1>1, <1>2, RemoveDistinct
<1>4. /\ waiting' = [waiting EXCEPT ![p] = r] /\ offered' = offered
      /\ UNCHANGED <<queue, unfinished, drain, running, join, history>>
  BY DEF PutTimeout
<1> HIDE DEF r
<1>5. waiting' \in [Priorities -> Seq(Items)]
  BY <1>1, <1>3, <1>4
<1>6. ASSUME NEW q \in Priorities
      PROVE  /\ IsInjective(waiting'[q])
             /\ Range(waiting'[q]) \subseteq Range(waiting[q]) \cup (IF q = p THEN {} ELSE {})
  <2>1. waiting'[q] = IF q = p THEN r ELSE waiting[q]
    BY <1>1, <1>4
  <2> QED BY <1>1, <1>3, <2>1
<1>7. /\ {} \subseteq 1..offered' /\ {} \cap Range(published) = {}
      /\ \A q \in Priorities : {} \cap Own(q) = {}
  OBVIOUS
<1>8. offered' \in 0..MaxItems /\ 1..offered \subseteq 1..offered'
  BY <1>1, <1>4
<1>9. \A q \in Priorities :
        /\ IsInjective(waiting'[q])
        /\ Range(waiting'[q]) \subseteq Range(waiting[q]) \cup (IF q = p THEN {} ELSE {})
  BY <1>6
<1>10. UNCHANGED <<queue, unfinished, drain, running, join, history>>
  BY <1>4
<1> QED BY <1>5, <1>7, <1>8, <1>9, <1>10, WaitKeeps

-----------------------------------------------------------------------------
(* The drain loop                                                          *)

\* What one pass takes of each queue is there.
LEMMA TakenFits ==
  ASSUME QueueInv, NEW p \in Priorities
  PROVE  /\ Taken(p) \in 0..Len(queue[p])
         /\ HighTaken \in Nat /\ LowTaken \in Nat /\ LowTaken <= 1
         /\ HighTaken + LowTaken <= BatchSize
         /\ SinceLow \in 0..DrainRatio
<1>1. "high" \in Priorities /\ "low" \in Priorities /\ (p = "high" \/ p = "low")
  BY DEF Priorities
<1>2. /\ queue["high"] \in Seq(Items) /\ Len(queue["high"]) \in Nat
      /\ queue["low"] \in Seq(Items) /\ Len(queue["low"]) \in Nat
  BY <1>1, OnePriority
<1>3. HighTaken \in 0..Len(queue["high"]) /\ HighTaken <= BatchSize
  BY <1>2, OutputAssumption DEF HighTaken, Min2
<1>4. /\ LowTaken = 0 \/ LowTaken = 1
      /\ LowTaken = 1 => HighTaken < BatchSize
      /\ LowTaken = 1 => queue["low"] # <<>>
  BY DEF LowTaken
<1>5. LowTaken \in 0..Len(queue["low"])
  <2>1. queue["low"] # <<>> => 1 <= Len(queue["low"])
    BY <1>2
  <2>2. CASE LowTaken = 0
    BY <1>2, <2>2
  <2>3. CASE LowTaken = 1
    BY <1>2, <1>4, <2>1, <2>3
  <2> QED BY <1>4, <2>2, <2>3
<1>6. HighTaken \in Nat /\ LowTaken \in Nat /\ LowTaken <= 1 /\ HighTaken + LowTaken <= BatchSize
  <2>1. \A k \in Nat, b \in Nat : \A h \in 0..k :
          h \in Nat /\ (h <= b => h + 0 <= b) /\ (h < b => h + 1 <= b)
    OBVIOUS
  <2>2. HighTaken \in Nat /\ HighTaken + 0 <= BatchSize
        /\ (HighTaken < BatchSize => HighTaken + 1 <= BatchSize)
    BY <1>2, <1>3, <2>1, OutputAssumption
  <2>3. LowTaken = 0 \/ LowTaken = 1
    BY <1>4
  <2>4. CASE LowTaken = 0
    BY <2>2, <2>4
  <2>5. CASE LowTaken = 1
    BY <1>4, <2>2, <2>5
  <2> QED BY <2>3, <2>4, <2>5
<1>7. SinceLow \in 0..DrainRatio
  <2>1. highSince \in 0..DrainRatio /\ DrainRatio \in Nat /\ HighTaken \in Nat
    BY <1>2, <1>3, OutputAssumption DEF QueueInv, TypeOK
  <2> QED BY <2>1 DEF SinceLow, Min2
<1>8. Taken(p) \in 0..Len(queue[p])
  BY <1>1, <1>3, <1>5 DEF Taken
<1> QED BY <1>6, <1>7, <1>8

\* A step that moves messages between a queue, the batch and the topic.
LEMMA MoveKeepsApart ==
  ASSUME QueueInv, waiting' = waiting, offered' = offered,
         NEW r \in Priorities, NEW X, X \subseteq Pending(r),
         \A q \in Priorities :
           /\ IsInjective(queue'[q]) /\ IsInjective(batch'[q])
           /\ Range(queue'[q]) \cap Range(batch'[q]) = {}
           /\ Range(queue'[q]) \cup Range(batch'[q]) \subseteq Pending(q) \ X,
         IsInjective(published'), Range(published') \subseteq Range(published) \cup X
  PROVE  Apart'
<1>1. \A q \in Priorities :
        /\ IsInjective(waiting[q])
        /\ Range(queue[q]) \cap Range(waiting[q]) = {}
        /\ Range(batch[q]) \cap Range(waiting[q]) = {}
        /\ Own(q) \subseteq 1..offered
        /\ Own(q) \cap Range(published) = {}
  BY DEF QueueInv, Apart
<1>2. /\ Own("high") \cap Own("low") = {} /\ IsInjective(published)
      /\ Range(published) \subseteq 1..offered
  BY DEF QueueInv, Apart
<1>3. \A q \in Priorities :
        /\ Own(q) = Pending(q) \cup Range(waiting[q])
        /\ Pending(q) \cap Range(waiting[q]) = {}
  BY <1>1 DEF Own, Pending
<1>4. "high" \in Priorities /\ "low" \in Priorities /\ (r = "high" \/ r = "low")
  BY DEF Priorities
<1>5. X \subseteq Own(r) /\ X \cap Range(waiting[r]) = {}
  BY <1>3
<1>6. \A q \in Priorities : q # r => X \cap Own(q) = {}
  BY <1>2, <1>5 DEF Priorities
<1>7. \A q \in Priorities : X \cap Range(waiting[q]) = {}
  BY <1>3, <1>5, <1>6
<1>8. ASSUME NEW q \in Priorities
      PROVE  /\ Range(queue'[q]) \cap Range(waiting[q]) = {}
             /\ Range(batch'[q]) \cap Range(waiting[q]) = {}
             /\ Own(q)' \subseteq Own(q)
             /\ Own(q)' \subseteq 1..offered
             /\ Own(q)' \cap Range(published') = {}
  <2>1. /\ Range(queue'[q]) \subseteq Pending(q) \ X
        /\ Range(batch'[q]) \subseteq Pending(q) \ X
    OBVIOUS
  <2>2. Own(q)' = Range(queue'[q]) \cup Range(batch'[q]) \cup Range(waiting[q])
    BY DEF Own
  <2>3. /\ Own(q) = Pending(q) \cup Range(waiting[q])
        /\ Pending(q) \cap Range(waiting[q]) = {} /\ X \cap Range(waiting[q]) = {}
    BY <1>3, <1>7
  <2>4. Own(q)' \subseteq Own(q) /\ Own(q)' \cap X = {}
    BY <2>1, <2>2, <2>3
  <2>5. Own(q)' \subseteq 1..offered /\ Own(q)' \cap Range(published') = {}
    BY <1>1, <2>4
  <2> QED BY <2>1, <2>3, <2>4, <2>5
<1>9. Own("high")' \cap Own("low")' = {}
  BY <1>2, <1>4, <1>8
<1>10. Range(published') \subseteq 1..offered
  BY <1>1, <1>2, <1>5
<1> QED BY <1>1, <1>8, <1>9, <1>10 DEF Apart

LEMMA TakeBatchKeeps ==
  ASSUME QueueInv, TakeBatch
  PROVE  QueueInv'
<1> DEFINE head(p) == SubSeq(queue[p], 1, Taken(p))
           rest(p) == SubSeq(queue[p], Taken(p) + 1, Len(queue[p]))
<1>1. /\ loop = "idle" /\ loop' = "publish" /\ HighTaken + LowTaken > 0
      /\ batch' = [p \in Priorities |-> head(p)]
      /\ queue' = [p \in Priorities |-> rest(p)]
      /\ highSince' = IF LowTaken > 0 THEN 0 ELSE SinceLow
      /\ UNCHANGED <<unfinished, waiting, noneSent, allFail, running, join, offered>>
      /\ late' = late /\ published' = published /\ put' = put /\ failed' = failed
  BY DEF TakeBatch, history
<1>2. batch = NoBatch
  BY <1>1 DEF QueueInv, TypeOK
<1>3. ASSUME NEW q \in Priorities
      PROVE  /\ head(q) \in Seq(Items) /\ Len(head(q)) = Taken(q)
             /\ rest(q) \in Seq(Items) /\ Len(rest(q)) = Len(queue[q]) - Taken(q)
             /\ IsInjective(head(q)) /\ IsInjective(rest(q))
             /\ Range(head(q)) \subseteq Range(queue[q]) /\ Range(rest(q)) \subseteq Range(queue[q])
             /\ Range(rest(q)) \cap Range(head(q)) = {}
             /\ Len(queue[q]) \in Nat /\ Len(queue[q]) <= MaxSize
             /\ Taken(q) \in 0..Len(queue[q]) /\ unfinished[q] = Len(queue[q])
  <2>1. /\ queue[q] \in Seq(Items) /\ Len(queue[q]) \in Nat /\ Len(queue[q]) <= MaxSize
        /\ unfinished[q] = Len(queue[q]) + Len(batch[q])
    BY <1>1, OnePriority
  <2>2. Len(batch[q]) = 0
    BY <1>2 DEF NoBatch
  <2>3. unfinished[q] = Len(queue[q])
    BY <2>1, <2>2
  <2>4. IsInjective(queue[q])
    BY DEF QueueInv, Apart
  <2>5. Taken(q) \in 0..Len(queue[q])
    BY TakenFits
  <2> DEFINE n == Taken(q)
  <2>6. n \in 0..Len(queue[q])
    BY <2>5
  <2> HIDE DEF n
  <2>7. /\ SubSeq(queue[q], 1, n) \in Seq(Items) /\ Len(SubSeq(queue[q], 1, n)) = n
        /\ SubSeq(queue[q], n + 1, Len(queue[q])) \in Seq(Items)
        /\ Len(SubSeq(queue[q], n + 1, Len(queue[q]))) = Len(queue[q]) - n
        /\ IsInjective(SubSeq(queue[q], 1, n))
        /\ IsInjective(SubSeq(queue[q], n + 1, Len(queue[q])))
        /\ Range(SubSeq(queue[q], 1, n)) \subseteq Range(queue[q])
        /\ Range(SubSeq(queue[q], n + 1, Len(queue[q]))) \subseteq Range(queue[q])
        /\ Range(SubSeq(queue[q], 1, n)) \cap Range(SubSeq(queue[q], n + 1, Len(queue[q]))) = {}
    BY <2>1, <2>4, <2>6, CutDistinct
  <2>8. head(q) = SubSeq(queue[q], 1, n) /\ rest(q) = SubSeq(queue[q], n + 1, Len(queue[q]))
    BY DEF n
  <2>9. Range(rest(q)) \cap Range(head(q)) = {}
    BY <2>7, <2>8
  <2> QED BY <2>1, <2>3, <2>5, <2>7, <2>8, <2>9 DEF n
<1>4. \A q \in Priorities : batch'[q] = head(q) /\ queue'[q] = rest(q)
  BY <1>1
<1> HIDE DEF head, rest
<1>5. Apart'
  <2>1. ASSUME NEW q \in Priorities
        PROVE  /\ IsInjective(queue'[q]) /\ IsInjective(batch'[q])
               /\ Range(queue'[q]) \cap Range(batch'[q]) = {}
               /\ Range(queue'[q]) \cup Range(batch'[q]) \subseteq Pending(q) \ {}
    BY <1>3, <1>4 DEF Pending
  <2>2. {} \subseteq Pending("high") /\ "high" \in Priorities
    BY DEF Priorities
  <2>3. IsInjective(published') /\ Range(published') \subseteq Range(published) \cup {}
    BY <1>1 DEF QueueInv, Apart
  <2>4. waiting' = waiting /\ offered' = offered
    BY <1>1
  <2>5. \A q \in Priorities :
          /\ IsInjective(queue'[q]) /\ IsInjective(batch'[q])
          /\ Range(queue'[q]) \cap Range(batch'[q]) = {}
          /\ Range(queue'[q]) \cup Range(batch'[q]) \subseteq Pending(q) \ {}
    BY <2>1
  <2> QED BY <2>2, <2>3, <2>4, <2>5, MoveKeepsApart
<1>6. JoinCounts'
  <2> SUFFICES ASSUME NEW q \in Priorities
               PROVE  unfinished'[q] = Len(queue'[q]) + Len(batch'[q])
                      /\ unfinished'[q] >= Len(queue'[q]) + Len(batch'[q])
    BY DEF JoinCounts
  <2>1. /\ unfinished'[q] = Len(queue[q]) /\ Len(batch'[q]) = Taken(q)
        /\ Len(queue'[q]) = Len(queue[q]) - Taken(q)
    BY <1>1, <1>3, <1>4
  <2>2. Len(queue[q]) \in Nat /\ Taken(q) \in 0..Len(queue[q])
    BY <1>3
  <2> QED BY <2>1, <2>2
<1>7. LateOnly'
  BY <1>1 DEF LateOnly
<1>8. TypeOK'
  <2>1. batch' \in [Priorities -> Seq(Items)] /\ queue' \in [Priorities -> Seq(Items)]
    BY <1>1, <1>3
  <2>2. \A q \in Priorities : Len(queue'[q]) <= MaxSize
    <3> SUFFICES ASSUME NEW q \in Priorities PROVE Len(queue'[q]) <= MaxSize
      OBVIOUS
    <3>1. Len(queue'[q]) = Len(queue[q]) - Taken(q)
      BY <1>3, <1>4
    <3>2. /\ Len(queue[q]) \in Nat /\ Len(queue[q]) <= MaxSize
          /\ Taken(q) \in 0..Len(queue[q])
      BY <1>3
    <3> QED BY <3>1, <3>2, OutputAssumption
  <2>3. "high" \in Priorities /\ "low" \in Priorities /\ "low" # "high"
    BY DEF Priorities
  <2>4. Len(batch'["high"]) = HighTaken /\ Len(batch'["low"]) = LowTaken
    BY <1>3, <1>4, <2>3 DEF Taken
  <2>5. /\ HighTaken \in Nat /\ LowTaken \in Nat /\ LowTaken <= 1
        /\ HighTaken + LowTaken <= BatchSize /\ SinceLow \in 0..DrainRatio
    BY <2>3, TakenFits
  <2>6. batch' # NoBatch
    <3> SUFFICES ASSUME batch' = NoBatch PROVE FALSE
      OBVIOUS
    <3>1. Len(batch'["high"]) = 0 /\ Len(batch'["low"]) = 0
      BY <2>3 DEF NoBatch
    <3> QED BY <1>1, <2>4, <3>1
  <2>7. highSince' \in 0..DrainRatio
    BY <1>1, <2>5, OutputAssumption
  <2>8. /\ unfinished' \in [Priorities -> Nat] /\ waiting' \in [Priorities -> Seq(Items)]
        /\ noneSent' \in BOOLEAN /\ allFail' \in 0..Threshold /\ running' \in BOOLEAN
        /\ join' \in {"none", "high", "low", "done"} /\ offered' \in 0..MaxItems
        /\ late' \subseteq Items /\ published' \in Seq(Items)
        /\ failed' \subseteq Items /\ put' \in [Priorities -> Seq(Items)]
    BY <1>1 DEF QueueInv, TypeOK
  <2> QED BY <1>1, <2>1, <2>2, <2>4, <2>5, <2>6, <2>7, <2>8 DEF TypeOK
<1> QED BY <1>5, <1>6, <1>7, <1>8 DEF QueueInv

\* The message in flight, and what is behind it.
LEMMA PublishFacts ==
  ASSUME QueueInv, loop = "publish"
  PROVE  /\ InFlight \in Priorities /\ Current \in Items /\ Current \in Pending(InFlight)
         /\ \A q \in Priorities :
              /\ Behind(q) \in Seq(Items) /\ IsInjective(Behind(q))
              /\ Range(Behind(q)) \subseteq Range(batch[q]) \ {Current}
              /\ Current \notin Range(queue[q])
              /\ Len(batch[q]) = Len(Behind(q)) + (IF q = InFlight THEN 1 ELSE 0)
<1>1. batch \in [Priorities -> Seq(Items)] /\ batch # NoBatch
  BY DEF QueueInv, TypeOK
<1>2. "high" \in Priorities /\ "low" \in Priorities /\ InFlight \in Priorities
  BY DEF Priorities, InFlight
<1>3. batch[InFlight] # <<>>
  <2>1. CASE batch["high"] # <<>>
    BY <2>1 DEF InFlight
  <2>2. CASE batch["high"] = <<>>
    <3>1. InFlight = "low"
      BY <2>2 DEF InFlight
    <3>2. batch["low"] # <<>>
      <4> SUFFICES ASSUME batch["low"] = <<>> PROVE FALSE
        OBVIOUS
      <4>1. \A q \in Priorities : batch[q] = <<>>
        BY <2>2 DEF Priorities
      <4>2. batch = [q \in Priorities |-> <<>>]
        BY <1>1, <4>1
      <4> QED BY <1>1, <4>2 DEF NoBatch
    <3> QED BY <3>1, <3>2
  <2> QED BY <2>1, <2>2
<1>4. \A q \in Priorities :
        /\ batch[q] \in Seq(Items) /\ IsInjective(batch[q])
        /\ Range(queue[q]) \cap Range(batch[q]) = {}
  BY <1>1 DEF QueueInv, Apart
<1> DEFINE b == batch[InFlight]
<1>5. b \in Seq(Items) /\ b # <<>> /\ IsInjective(b)
  BY <1>2, <1>3, <1>4
<1>6. /\ Head(b) \in Range(b) /\ Head(b) \in Items /\ Tail(b) \in Seq(Items)
      /\ Len(Tail(b)) = Len(b) - 1 /\ Len(b) >= 1
      /\ Range(Tail(b)) = Range(b) \ {Head(b)} /\ IsInjective(Tail(b))
  <2> HIDE DEF b
  <2> QED BY <1>5, TailDistinct
<1>7. Current = Head(b)
  BY DEF Current
<1>8. Current \in Own(InFlight) /\ Current \in Pending(InFlight)
  BY <1>6, <1>7 DEF Own, Pending
<1>9. \A q \in Priorities : q # InFlight => Current \notin Own(q)
  BY <1>2, <1>8 DEF QueueInv, Apart, Priorities
<1>10. ASSUME NEW q \in Priorities
       PROVE  /\ Behind(q) \in Seq(Items) /\ IsInjective(Behind(q))
              /\ Range(Behind(q)) \subseteq Range(batch[q]) \ {Current}
              /\ Current \notin Range(queue[q])
              /\ Len(batch[q]) = Len(Behind(q)) + (IF q = InFlight THEN 1 ELSE 0)
  <2>1. CASE q = InFlight
    <3>1. Behind(q) = Tail(b) /\ batch[q] = b
      BY <2>1 DEF Behind
    <3> HIDE DEF b
    <3>2. Len(b) = Len(Tail(b)) + 1
      BY <1>5, <1>6
    <3>3. Current \notin Range(queue[q])
      BY <1>4, <1>6, <1>7, <3>1
    <3> QED BY <1>6, <1>7, <2>1, <3>1, <3>2, <3>3
  <2>2. CASE q # InFlight
    <3>1. Behind(q) = batch[q]
      BY <2>2 DEF Behind
    <3>2. Current \notin Range(queue[q]) /\ Current \notin Range(batch[q])
      BY <1>9, <2>2 DEF Own
    <3>3. Len(batch[q]) = Len(batch[q]) + 0
      BY <1>4
    <3> QED BY <1>4, <2>2, <3>1, <3>2, <3>3
  <2> QED BY <2>1, <2>2
<1> QED BY <1>2, <1>6, <1>7, <1>8, <1>10

\* The topic with or without the message in flight.
LEMMA TopicFacts ==
  ASSUME QueueInv, loop = "publish", published' \in {published, Append(published, Current)}
  PROVE  /\ published' \in Seq(Items) /\ IsInjective(published')
         /\ Range(published') \subseteq Range(published) \cup {Current}
<1>1. published \in Seq(Items) /\ IsInjective(published)
  BY DEF QueueInv, TypeOK, Apart
<1>2. Current \in Items /\ Current \in Pending(InFlight) /\ InFlight \in Priorities
  BY PublishFacts
<1>3. Current \notin Range(published)
  BY <1>2 DEF QueueInv, Apart, Own, Pending
<1>4. /\ Append(published, Current) \in Seq(Items) /\ IsInjective(Append(published, Current))
      /\ Range(Append(published, Current)) = Range(published) \cup {Current}
  BY <1>1, <1>2, <1>3, AppendDistinct
<1> QED BY <1>1, <1>4

\* One publish has ended, well or not.
LEMMA HandledKeeps ==
  ASSUME QueueInv, loop = "publish", NEW raised \in BOOLEAN, Handle, Advance(raised),
         published' \in {published, Append(published, Current)},
         failed' \in {failed, failed \cup {Current}},
         UNCHANGED <<queue, waiting, highSince, running, join, offered, late, put>>
  PROVE  QueueInv'
<1>1. /\ InFlight \in Priorities /\ Current \in Items /\ Current \in Pending(InFlight)
      /\ \A q \in Priorities :
           /\ Behind(q) \in Seq(Items) /\ IsInjective(Behind(q))
           /\ Range(Behind(q)) \subseteq Range(batch[q]) \ {Current}
           /\ Current \notin Range(queue[q])
           /\ Len(batch[q]) = Len(Behind(q)) + (IF q = InFlight THEN 1 ELSE 0)
  BY PublishFacts
<1>2. /\ published' \in Seq(Items) /\ IsInjective(published')
      /\ Range(published') \subseteq Range(published) \cup {Current}
  BY TopicFacts
<1>3. batch' = [q \in Priorities |-> Behind(q)]
  BY DEF Advance
<1>4. \A q \in Priorities : batch'[q] = Behind(q) /\ queue'[q] = queue[q]
  BY <1>3
<1>5. Apart'
  <2>1. \A q \in Priorities :
          /\ IsInjective(queue'[q]) /\ IsInjective(batch'[q])
          /\ Range(queue'[q]) \cap Range(batch'[q]) = {}
          /\ Range(queue'[q]) \cup Range(batch'[q]) \subseteq Pending(q) \ {Current}
    <3> SUFFICES ASSUME NEW q \in Priorities
                 PROVE  /\ IsInjective(queue'[q]) /\ IsInjective(batch'[q])
                        /\ Range(queue'[q]) \cap Range(batch'[q]) = {}
                        /\ Range(queue'[q]) \cup Range(batch'[q]) \subseteq Pending(q) \ {Current}
      OBVIOUS
    <3>1. batch'[q] = Behind(q) /\ queue'[q] = queue[q]
      BY <1>4
    <3>2. IsInjective(queue[q]) /\ Range(queue[q]) \cap Range(batch[q]) = {}
      BY DEF QueueInv, Apart
    <3>3. /\ IsInjective(Behind(q)) /\ Range(Behind(q)) \subseteq Range(batch[q]) \ {Current}
          /\ Current \notin Range(queue[q])
      BY <1>1
    <3> QED BY <3>1, <3>2, <3>3 DEF Pending
  <2>2. {Current} \subseteq Pending(InFlight) /\ waiting' = waiting /\ offered' = offered
    BY <1>1
  <2> QED BY <1>1, <1>2, <2>1, <2>2, MoveKeepsApart
<1>6. unfinished' \in [Priorities -> Nat] /\ JoinCounts'
  <2>1. ASSUME NEW q \in Priorities
        PROVE  /\ unfinished'[q] = Len(queue'[q]) + Len(batch'[q])
               /\ Len(queue'[q]) \in Nat /\ Len(batch'[q]) \in Nat
    <3>1. /\ unfinished[q] = Len(queue[q]) + Len(batch[q]) /\ unfinished[q] \in Nat
          /\ Len(queue[q]) \in Nat /\ Len(batch[q]) \in Nat
      BY OnePriority
    <3>2. unfinished'[q] = IF q = InFlight THEN unfinished[q] - 1 ELSE unfinished[q]
      BY DEF Handle, QueueInv, TypeOK
    <3>3. batch'[q] \in Seq(Items) /\ queue'[q] = queue[q]
      BY <1>1, <1>4
    <3>4. Len(batch'[q]) \in Nat
      BY <3>3
    <3>5. Len(batch[q]) = Len(batch'[q]) + (IF q = InFlight THEN 1 ELSE 0)
      BY <1>1, <1>4
    <3>6. \A u \in Nat, k \in Nat, n \in Nat : u = k + (n + 1) => u - 1 = k + n
      OBVIOUS
    <3>7. CASE q = InFlight
      <4>1. unfinished'[q] = unfinished[q] - 1 /\ Len(batch[q]) = Len(batch'[q]) + 1
        BY <3>2, <3>5, <3>7
      <4>2. unfinished[q] = Len(queue[q]) + (Len(batch'[q]) + 1)
        BY <3>1, <4>1
      <4>3. unfinished[q] - 1 = Len(queue[q]) + Len(batch'[q])
        BY <3>1, <3>4, <3>6, <4>2
      <4>4. Len(queue'[q]) = Len(queue[q])
        BY <3>3
      <4> QED BY <3>1, <3>4, <4>1, <4>3, <4>4
    <3>8. CASE q # InFlight
      <4>1. unfinished'[q] = unfinished[q] /\ Len(batch[q]) = Len(batch'[q]) + 0
        BY <3>2, <3>5, <3>8
      <4>2. Len(batch[q]) = Len(batch'[q])
        BY <3>4, <4>1
      <4> QED BY <3>1, <3>3, <3>4, <4>1, <4>2
    <3> QED BY <3>7, <3>8
  <2>2. ASSUME NEW q \in Priorities
        PROVE  unfinished'[q] \in Nat /\ unfinished'[q] >= Len(queue'[q]) + Len(batch'[q])
    <3>1. \A u : \A k \in Nat, n \in Nat : u = k + n => u \in Nat /\ u >= k + n
      OBVIOUS
    <3> QED BY <2>1, <3>1
  <2>3. DOMAIN unfinished' = Priorities /\ unfinished' = [q \in Priorities |-> unfinished'[q]]
    BY DEF Handle, QueueInv, TypeOK
  <2>4. unfinished' \in [Priorities -> Nat]
    BY <2>2, <2>3
  <2>5. JoinCounts'
    BY <2>1, <2>2 DEF JoinCounts
  <2> QED BY <2>4, <2>5
<1>7. /\ loop' \in {"idle", "publish", "backoff"} /\ noneSent' \in BOOLEAN
      /\ allFail' \in 0..Threshold /\ (batch' = NoBatch <=> loop' # "publish")
  <2>1. noneSent \in BOOLEAN /\ allFail \in 0..Threshold
    BY DEF QueueInv, TypeOK
  <2>2. CASE \E p \in Priorities : Behind(p) # <<>>
    <3>1. noneSent' = (noneSent /\ raised) /\ loop' = loop /\ allFail' = allFail
      BY <2>2 DEF Advance
    <3>2. batch' # NoBatch
      BY <1>4, <2>2 DEF NoBatch
    <3>3. noneSent' \in BOOLEAN
      BY <2>1, <3>1
    <3> QED BY <2>1, <3>1, <3>2, <3>3
  <2>3. CASE ~ \E p \in Priorities : Behind(p) # <<>>
    <3>1. /\ noneSent' = TRUE
          /\ allFail' = IF noneSent /\ raised THEN Min2(allFail + 1, Threshold) ELSE 0
          /\ loop' = IF allFail' >= Threshold THEN "backoff" ELSE "idle"
      BY <2>3 DEF Advance
    <3>2. Min2(allFail + 1, Threshold) \in 0..Threshold /\ 0 \in 0..Threshold
      BY <2>1, OutputAssumption DEF Min2
    <3>3. allFail' \in 0..Threshold
      BY <3>1, <3>2
    <3>4. \A q \in Priorities : Behind(q) = <<>>
      BY <2>3
    <3>5. batch' = NoBatch
      BY <1>3, <3>4 DEF NoBatch
    <3>6. loop' \in {"idle", "backoff"} /\ noneSent' \in BOOLEAN
      BY <3>1
    <3> QED BY <3>3, <3>5, <3>6
  <2> QED BY <2>2, <2>3
<1>8. /\ batch' \in [Priorities -> Seq(Items)] /\ Len(batch'["low"]) <= 1
      /\ Len(batch'["high"]) + Len(batch'["low"]) <= BatchSize
  <2>1. /\ Len(batch["low"]) <= 1
        /\ Len(batch["high"]) + Len(batch["low"]) <= BatchSize
    BY DEF QueueInv, TypeOK
  <2>2. "high" \in Priorities /\ "low" \in Priorities
    BY DEF Priorities
  <2>3. ASSUME NEW q \in Priorities
        PROVE  Len(batch[q]) \in Nat /\ Len(batch'[q]) \in Nat /\ Len(batch'[q]) <= Len(batch[q])
    <3>1. Len(batch[q]) = Len(Behind(q)) + (IF q = InFlight THEN 1 ELSE 0)
      BY <1>1
    <3>2. batch'[q] = Behind(q) /\ Behind(q) \in Seq(Items) /\ Len(batch[q]) \in Nat
      BY <1>1, <1>4, OnePriority
    <3>3. Len(Behind(q)) \in Nat
      BY <3>2
    <3> QED BY <3>1, <3>2, <3>3
  <2>4. \A a \in Nat, b \in Nat, c \in Nat, d \in Nat :
          c <= a /\ d <= b /\ b <= 1 /\ a + b <= BatchSize => d <= 1 /\ c + d <= BatchSize
    BY OutputAssumption
  <2>5. Len(batch'["low"]) <= 1 /\ Len(batch'["high"]) + Len(batch'["low"]) <= BatchSize
    BY <2>1, <2>2, <2>3, <2>4
  <2>6. batch' \in [Priorities -> Seq(Items)]
    BY <1>1, <1>3
  <2> QED BY <2>5, <2>6
<1>9. TypeOK'
  <2>1. /\ queue' \in [Priorities -> Seq(Items)] /\ waiting' \in [Priorities -> Seq(Items)]
        /\ \A q \in Priorities : Len(queue'[q]) <= MaxSize
        /\ highSince' \in 0..DrainRatio /\ running' \in BOOLEAN
        /\ join' \in {"none", "high", "low", "done"} /\ offered' \in 0..MaxItems
        /\ late' \subseteq Items /\ put' \in [Priorities -> Seq(Items)]
    BY DEF QueueInv, TypeOK
  <2>2. failed' \subseteq Items
    BY <1>1 DEF QueueInv, TypeOK
  <2> QED BY <1>2, <1>6, <1>7, <1>8, <2>1, <2>2 DEF TypeOK
<1>10. LateOnly'
  BY <1>7 DEF LateOnly
<1> QED BY <1>5, <1>6, <1>9, <1>10 DEF QueueInv

\* What a cancellation puts back.
LEMMA RequeuedFacts ==
  ASSUME QueueInv, loop = "publish", NEW q \in Priorities
  PROVE  /\ Requeued(q) \in Seq(Items) /\ IsInjective(Requeued(q))
         /\ Range(Requeued(q)) \subseteq Range(batch[q]) \ {Current}
         /\ Len(Requeued(q)) \in Nat /\ Len(Requeued(q)) <= Len(Behind(q))
         /\ Len(queue[q]) + Len(Requeued(q)) <= MaxSize
<1> DEFINE n == Min2(Len(Behind(q)), MaxSize - Len(queue[q]))
<1>1. /\ Behind(q) \in Seq(Items) /\ IsInjective(Behind(q))
      /\ Range(Behind(q)) \subseteq Range(batch[q]) \ {Current}
  BY PublishFacts
<1>2. Len(Behind(q)) \in Nat /\ Len(queue[q]) \in Nat /\ Len(queue[q]) <= MaxSize
  <2>1. Len(Behind(q)) \in Nat
    BY <1>1
  <2> QED BY <2>1, OnePriority
<1>3. n \in 0..Len(Behind(q)) /\ n \in Nat /\ Len(queue[q]) + n <= MaxSize /\ n <= Len(Behind(q))
  <2>1. \A b \in Nat, k \in Nat, m \in Nat : k <= m =>
          /\ Min2(b, m - k) \in 0..b /\ Min2(b, m - k) \in Nat
          /\ k + Min2(b, m - k) <= m /\ Min2(b, m - k) <= b
    BY DEF Min2
  <2> QED BY <1>2, <2>1, OutputAssumption
<1>4. Requeued(q) = SubSeq(Behind(q), 1, n)
  BY DEF Requeued
<1> HIDE DEF n
<1>5. /\ SubSeq(Behind(q), 1, n) \in Seq(Items) /\ Len(SubSeq(Behind(q), 1, n)) = n
      /\ IsInjective(SubSeq(Behind(q), 1, n))
      /\ Range(SubSeq(Behind(q), 1, n)) \subseteq Range(Behind(q))
  BY <1>1, <1>3, CutDistinct
<1> QED BY <1>1, <1>3, <1>4, <1>5

LEMMA CancelKeeps ==
  ASSUME QueueInv, Cancel
  PROVE  QueueInv'
<1>1. /\ loop = "publish" /\ loop' = "dead" /\ batch' = NoBatch /\ noneSent' = TRUE
      /\ published' \in {published, Append(published, Current)}
      /\ queue' = [q \in Priorities |-> queue[q] \o Requeued(q)]
      /\ unfinished' = [q \in Priorities |->
           unfinished[q] + Len(Requeued(q)) - (IF q = InFlight THEN 1 ELSE 0)]
      /\ UNCHANGED <<waiting, highSince, allFail, running, join, offered, late, put, failed>>
  BY DEF Cancel
<1>2. InFlight \in Priorities /\ Current \in Items /\ Current \in Pending(InFlight)
  BY <1>1, PublishFacts
<1>3. /\ published' \in Seq(Items) /\ IsInjective(published')
      /\ Range(published') \subseteq Range(published) \cup {Current}
  BY <1>1, TopicFacts
<1>4. ASSUME NEW q \in Priorities
      PROVE  /\ queue'[q] \in Seq(Items) /\ IsInjective(queue'[q])
             /\ Len(queue'[q]) = Len(queue[q]) + Len(Requeued(q))
             /\ Len(queue'[q]) <= MaxSize
             /\ Range(queue'[q]) \subseteq Pending(q) \ {Current}
  <2>1. /\ Requeued(q) \in Seq(Items) /\ IsInjective(Requeued(q))
        /\ Range(Requeued(q)) \subseteq Range(batch[q]) \ {Current}
        /\ Len(queue[q]) + Len(Requeued(q)) <= MaxSize
    BY <1>1, RequeuedFacts
  <2>2. queue[q] \in Seq(Items) /\ IsInjective(queue[q]) /\ Range(queue[q]) \cap Range(batch[q]) = {}
    BY OnePriority DEF QueueInv, Apart
  <2>3. Current \notin Range(queue[q])
    BY <1>1, PublishFacts
  <2>4. queue'[q] = queue[q] \o Requeued(q)
    BY <1>1
  <2>5. Range(queue[q]) \cap Range(Requeued(q)) = {}
    BY <2>1, <2>2
  <2>6. /\ queue'[q] \in Seq(Items) /\ IsInjective(queue'[q])
        /\ Len(queue'[q]) = Len(queue[q]) + Len(Requeued(q))
        /\ Range(queue'[q]) = Range(queue[q]) \cup Range(Requeued(q))
    BY <2>1, <2>2, <2>4, <2>5, ConcatDistinct
  <2>7. Len(queue'[q]) <= MaxSize
    BY <2>1, <2>6
  <2>8. Range(queue'[q]) \subseteq Pending(q) \ {Current}
    BY <2>1, <2>3, <2>6 DEF Pending
  <2> QED BY <2>6, <2>7, <2>8
<1>5. \A q \in Priorities : batch'[q] = <<>> /\ batch'[q] \in Seq(Items) /\ Len(batch'[q]) = 0
  BY <1>1 DEF NoBatch
<1>6. Apart'
  <2>1. \A q \in Priorities :
          /\ IsInjective(queue'[q]) /\ IsInjective(batch'[q])
          /\ Range(queue'[q]) \cap Range(batch'[q]) = {}
          /\ Range(queue'[q]) \cup Range(batch'[q]) \subseteq Pending(q) \ {Current}
    BY <1>4, <1>5, EmptyRange
  <2>2. {Current} \subseteq Pending(InFlight) /\ waiting' = waiting /\ offered' = offered
    BY <1>1, <1>2
  <2> QED BY <1>2, <1>3, <2>1, <2>2, MoveKeepsApart
<1>7. ASSUME NEW q \in Priorities
      PROVE  unfinished'[q] \in Nat /\ unfinished'[q] >= Len(queue'[q]) + Len(batch'[q])
  <2>1. /\ unfinished[q] \in Nat /\ Len(queue[q]) \in Nat /\ Len(batch[q]) \in Nat
        /\ unfinished[q] = Len(queue[q]) + Len(batch[q])
    BY <1>1, OnePriority
  <2>2. Len(Requeued(q)) \in Nat
    BY <1>1, RequeuedFacts
  <2>3. Behind(q) \in Seq(Items)
    BY <1>1, PublishFacts
  <2>4. Len(batch[q]) = Len(Behind(q)) + (IF q = InFlight THEN 1 ELSE 0)
    BY <1>1, PublishFacts
  <2>5. Len(Behind(q)) \in Nat
    BY <2>3
  <2>6. Len(queue'[q]) = Len(queue[q]) + Len(Requeued(q)) /\ Len(batch'[q]) = 0
    BY <1>4, <1>5
  <2>7. unfinished'[q] = unfinished[q] + Len(Requeued(q)) - (IF q = InFlight THEN 1 ELSE 0)
    BY <1>1
  <2>8. \A k \in Nat, b \in Nat, m \in Nat :
          /\ (k + (b + 1)) + m - 1 \in Nat /\ (k + (b + 1)) + m - 1 >= (k + m) + 0
          /\ (k + (b + 0)) + m - 0 \in Nat /\ (k + (b + 0)) + m - 0 >= (k + m) + 0
    OBVIOUS
  <2>9. CASE q = InFlight
    <3>1. unfinished'[q] = (Len(queue[q]) + (Len(Behind(q)) + 1)) + Len(Requeued(q)) - 1
      BY <2>1, <2>4, <2>7, <2>9
    <3>2. /\ (Len(queue[q]) + (Len(Behind(q)) + 1)) + Len(Requeued(q)) - 1 \in Nat
          /\ (Len(queue[q]) + (Len(Behind(q)) + 1)) + Len(Requeued(q)) - 1
               >= (Len(queue[q]) + Len(Requeued(q))) + 0
      BY <2>1, <2>2, <2>5, <2>8
    <3> QED BY <2>6, <3>1, <3>2
  <2>10. CASE q # InFlight
    <3>1. unfinished'[q] = (Len(queue[q]) + (Len(Behind(q)) + 0)) + Len(Requeued(q)) - 0
      BY <2>1, <2>4, <2>7, <2>10
    <3>2. /\ (Len(queue[q]) + (Len(Behind(q)) + 0)) + Len(Requeued(q)) - 0 \in Nat
          /\ (Len(queue[q]) + (Len(Behind(q)) + 0)) + Len(Requeued(q)) - 0
               >= (Len(queue[q]) + Len(Requeued(q))) + 0
      BY <2>1, <2>2, <2>5, <2>8
    <3> QED BY <2>6, <3>1, <3>2
  <2> QED BY <2>9, <2>10
<1>8. JoinCounts'
  BY <1>1, <1>7 DEF JoinCounts
<1>9. LateOnly'
  BY <1>1 DEF LateOnly
<1>10. TypeOK'
  <2>1. queue' \in [Priorities -> Seq(Items)] /\ \A q \in Priorities : Len(queue'[q]) <= MaxSize
    BY <1>1, <1>4
  <2>2. unfinished' \in [Priorities -> Nat]
    <3>1. unfinished' = [q \in Priorities |-> unfinished'[q]]
      BY <1>1
    <3> QED BY <1>7, <3>1
  <2>3. batch' \in [Priorities -> Seq(Items)]
    BY <1>1 DEF NoBatch
  <2>4. Len(batch'["low"]) <= 1 /\ Len(batch'["high"]) + Len(batch'["low"]) <= BatchSize
    <3>1. Len(batch'["low"]) = 0 /\ Len(batch'["high"]) = 0
      BY <1>5 DEF Priorities
    <3>2. 0 + 0 <= BatchSize /\ 0 <= 1
      BY OutputAssumption
    <3> QED BY <3>1, <3>2
  <2>5. /\ waiting' \in [Priorities -> Seq(Items)] /\ highSince' \in 0..DrainRatio
        /\ allFail' \in 0..Threshold /\ running' \in BOOLEAN
        /\ join' \in {"none", "high", "low", "done"} /\ offered' \in 0..MaxItems
        /\ late' \subseteq Items /\ failed' \subseteq Items
        /\ put' \in [Priorities -> Seq(Items)]
    BY <1>1 DEF QueueInv, TypeOK
  <2>6. noneSent' \in BOOLEAN
    BY <1>1
  <2> QED BY <1>1, <1>3, <2>1, <2>2, <2>3, <2>4, <2>5, <2>6 DEF TypeOK
<1> QED BY <1>6, <1>8, <1>9, <1>10 DEF QueueInv

\* A step of the loop that handles no message, and ends the loop only with both
\* queues empty.
LEMMA LoopToKeeps ==
  ASSUME QueueInv, NEW l \in {"idle", "off", "dead"}, loop # "publish", loop # "dead",
         LoopTo(l), l = "off" => \A q \in Priorities : queue[q] = <<>>
  PROVE  QueueInv'
<1>1. /\ loop' = l
      /\ UNCHANGED <<queue, unfinished, waiting, batch, noneSent, highSince, allFail,
                     running, join, offered, late, put, failed, published>>
  BY DEF LoopTo, queues, history
<1>2. TypeOK'
  BY <1>1 DEF QueueInv, TypeOK
<1>3. Apart'
  BY <1>1 DEF QueueInv, Apart, Own
<1>4. JoinCounts'
  BY <1>1 DEF QueueInv, JoinCounts
<1>5. LateOnly'
  BY <1>1, EmptyRange DEF LateOnly
<1> QED BY <1>2, <1>3, <1>4, <1>5 DEF QueueInv

\* A step of the service or of a joining teardown.
LEMMA OutsideKeeps ==
  ASSUME QueueInv, UNCHANGED <<queues, drain, offered, history>>,
         running' \in BOOLEAN, join' \in {"none", "high", "low", "done"}
  PROVE  QueueInv'
<1>1. UNCHANGED <<queue, unfinished, waiting, batch, noneSent, loop, highSince, allFail,
                  offered, late, put, failed, published>>
  BY DEF queues, drain, history
<1>2. TypeOK'
  BY <1>1 DEF QueueInv, TypeOK
<1>3. Apart'
  BY <1>1 DEF QueueInv, Apart, Own
<1>4. JoinCounts'
  BY <1>1 DEF QueueInv, JoinCounts
<1>5. LateOnly'
  BY <1>1 DEF QueueInv, LateOnly
<1> QED BY <1>2, <1>3, <1>4, <1>5 DEF QueueInv

LEMMA DrainKeeps ==
  ASSUME QueueInv, Drain
  PROVE  QueueInv'
<1>1. CASE TakeBatch
  BY <1>1, TakeBatchKeeps
<1>2. CASE PublishOk
  <2>1. /\ loop = "publish" /\ Handle /\ Advance(FALSE) /\ FALSE \in BOOLEAN
        /\ published' \in {published, Append(published, Current)}
        /\ failed' \in {failed, failed \cup {Current}}
        /\ UNCHANGED <<queue, waiting, highSince, running, join, offered, late, put>>
    BY <1>2 DEF PublishOk
  <2> QED BY <2>1, HandledKeeps
<1>3. CASE PublishFail
  <2>1. /\ loop = "publish" /\ Handle /\ Advance(TRUE) /\ TRUE \in BOOLEAN
        /\ published' \in {published, Append(published, Current)}
        /\ failed' \in {failed, failed \cup {Current}}
        /\ UNCHANGED <<queue, waiting, highSince, running, join, offered, late, put>>
    BY <1>3 DEF PublishFail
  <2> QED BY <2>1, HandledKeeps
<1>4. CASE BackoffOver
  BY <1>4, LoopToKeeps DEF BackoffOver
<1>5. CASE LoopEnds
  BY <1>5, LoopToKeeps DEF LoopEnds
<1> QED BY <1>1, <1>2, <1>3, <1>4, <1>5 DEF Drain

-----------------------------------------------------------------------------
LEMMA QueueStart == Init => QueueInv
<1> SUFFICES ASSUME Init PROVE QueueInv
  OBVIOUS
<1>1. /\ queue = NoBatch /\ waiting = NoBatch /\ batch = NoBatch /\ loop = "idle"
      /\ unfinished = [q \in Priorities |-> 0] /\ noneSent = TRUE /\ highSince = 0
      /\ allFail = 0 /\ running = TRUE /\ join = "none" /\ offered = 0
      /\ late = {} /\ put = NoBatch /\ failed = {} /\ published = <<>>
  BY DEF Init
<1>2. /\ NoBatch \in [Priorities -> Seq(Items)]
      /\ \A q \in Priorities : NoBatch[q] = <<>> /\ Len(NoBatch[q]) = 0
  BY DEF NoBatch
<1>3. "high" \in Priorities /\ "low" \in Priorities
  BY DEF Priorities
<1>4. noneSent \in BOOLEAN /\ running \in BOOLEAN
  BY <1>1
<1>5. TypeOK
  BY <1>1, <1>2, <1>3, <1>4, OutputAssumption DEF TypeOK
<1>6. \A q \in Priorities : Own(q) = {} /\ queue[q] = <<>> /\ batch[q] = <<>> /\ waiting[q] = <<>>
  BY <1>1, <1>2, EmptyRange DEF Own
<1>7. Apart
  BY <1>1, <1>3, <1>6, EmptyRange DEF Apart
<1>8. JoinCounts
  BY <1>1, <1>2 DEF JoinCounts
<1>9. LateOnly
  BY <1>1 DEF LateOnly
<1> QED BY <1>5, <1>7, <1>8, <1>9 DEF QueueInv

LEMMA QueueStep == QueueInv /\ [Next]_vars => QueueInv'
<1> SUFFICES ASSUME QueueInv, [Next]_vars PROVE QueueInv'
  OBVIOUS
<1>1. running \in BOOLEAN /\ join \in {"none", "high", "low", "done"}
  BY DEF QueueInv, TypeOK
<1>2. ASSUME NEW p \in Priorities, Enqueue(p, offered + 1) PROVE QueueInv'
  BY <1>2, EnqueueKeeps
<1>3. ASSUME NEW p \in Priorities, EnqueueBlocking(p, offered + 1) PROVE QueueInv'
  BY <1>3, EnqueueBlockingKeeps
<1>4. ASSUME NEW p \in Priorities, PutWakes(p) PROVE QueueInv'
  BY <1>4, PutWakesKeeps
<1>5. ASSUME NEW p \in Priorities, JoinQueue(p) PROVE QueueInv'
  <2>1. /\ UNCHANGED <<queues, drain, offered, history>>
        /\ running' = running /\ join' \in {"none", "high", "low", "done"}
    BY <1>5 DEF JoinQueue
  <2>2. running' \in BOOLEAN
    BY <1>1, <2>1
  <2> QED BY <2>1, <2>2, OutsideKeeps
<1>6. ASSUME NEW p \in Priorities, NEW n \in 1..MaxItems, PutTimeout(p, n) PROVE QueueInv'
  BY <1>6, PutTimeoutKeeps
<1>7. CASE Drain
  BY <1>7, DrainKeeps
<1>8. CASE Cancel
  BY <1>8, CancelKeeps
<1>9. CASE CancelIdle
  BY <1>9, LoopToKeeps DEF CancelIdle
<1>10. CASE StopRunning
  <2>1. UNCHANGED <<queues, drain, offered, history>> /\ running' = FALSE /\ join' = join
    BY <1>10 DEF StopRunning
  <2>2. running' \in BOOLEAN
    BY <2>1
  <2>3. join' \in {"none", "high", "low", "done"}
    BY <1>1, <2>1
  <2> QED BY <2>1, <2>2, <2>3, OutsideKeeps
<1>11. CASE JoinBegin
  <2>1. UNCHANGED <<queues, drain, offered, history>> /\ running' = running /\ join' = "high"
    BY <1>11 DEF JoinBegin
  <2>2. running' \in BOOLEAN
    BY <1>1, <2>1
  <2> QED BY <2>1, <2>2, OutsideKeeps
<1>12. CASE UNCHANGED vars
  <2>1. UNCHANGED <<queues, drain, offered, history>> /\ running' = running /\ join' = join
    BY <1>12 DEF vars
  <2>2. running' \in BOOLEAN
    BY <1>1, <2>1
  <2>3. join' \in {"none", "high", "low", "done"}
    BY <1>1, <2>1
  <2> QED BY <2>1, <2>2, <2>3, OutsideKeeps
<1> QED BY <1>2, <1>3, <1>4, <1>5, <1>6, <1>7, <1>8, <1>9, <1>10, <1>11, <1>12 DEF Next

(* The invariant that carries the theorems below: every message is at one      *)
(* place at most (Apart), on top of the types, join()'s counts and what a      *)
(* finished loop leaves.                                                       *)
THEOREM QueueInvariant == Spec => []QueueInv
<1>1. Init => QueueInv
  BY QueueStart
<1>2. QueueInv /\ [Next]_vars => QueueInv'
  BY QueueStep
<1> QED BY <1>1, <1>2, PTL DEF Spec

(* The queues of output_queue.py never exceed maxsize, a batch never exceeds   *)
(* drain_batch_size and holds one low message at most, whatever is offered,    *)
(* times out, fails or is cancelled.                                           *)
THEOREM QueueTypeCorrect == Spec => []TypeOK
<1>1. QueueInv => TypeOK
  BY DEF QueueInv
<1> QED BY <1>1, QueueInvariant, PTL

(* No message of output_queue.py reaches the topic twice, and none that may    *)
(* have reached it is still to be published.                                   *)
THEOREM QueueAtMostOnce == Spec => []AtMostOnce
<1>1. QueueInv => AtMostOnce
  BY DEF QueueInv, Apart, Own, Pending, AtMostOnce
<1> QED BY <1>1, QueueInvariant, PTL

(* The unfinished counts that join() awaits cover every open message, and are  *)
(* exact until the drain task is cancelled.                                    *)
THEOREM QueueJoinCounts == Spec => []JoinCounts
<1>1. QueueInv => JoinCounts
  BY DEF QueueInv
<1> QED BY <1>1, QueueInvariant, PTL

-----------------------------------------------------------------------------
(* What was put, in its order                                              *)

\* Accounted, for any sequences: pt was put, b is the batch, q the queue, and
\* the messages before them are in S.
Acc(pt, b, q, S) ==
  LET k == Len(pt) - Len(b) - Len(q)
  IN  /\ k >= 0
      /\ \A n \in 1..k : pt[n] \in S
      /\ \A n \in 1..Len(b) : b[n] = pt[k + n]
      /\ \A n \in 1..Len(q) : q[n] = pt[k + Len(b) + n]

LEMMA AccountedIsAcc ==
  ASSUME NEW p \in Priorities
  PROVE  /\ Accounted(p) <=> Acc(put[p], batch[p], queue[p], Range(published) \cup failed)
         /\ Accounted(p)' <=>
              Acc(put'[p], batch'[p], queue'[p], Range(published') \cup failed')
<1>1. Accounted(p) <=> Acc(put[p], batch[p], queue[p], Range(published) \cup failed)
  BY DEF Accounted, Acc, Settled
<1>2. Accounted(p)' <=> Acc(put'[p], batch'[p], queue'[p], Range(published') \cup failed')
  BY DEF Accounted, Acc, Settled
<1> QED BY <1>1, <1>2

LEMMA AccPut ==
  ASSUME NEW T, NEW pt \in Seq(T), NEW b \in Seq(T), NEW q \in Seq(T), NEW i \in T,
         NEW S, Acc(pt, b, q, S)
  PROVE  Acc(Append(pt, i), b, Append(q, i), S)
<1> DEFINE np == Append(pt, i)
           nq == Append(q, i)
           k == Len(pt) - Len(b) - Len(q)
<1>1. /\ Len(np) = Len(pt) + 1 /\ np[Len(pt) + 1] = i
      /\ \A n \in 1..Len(pt) : np[n] = pt[n]
      /\ Len(nq) = Len(q) + 1 /\ nq[Len(q) + 1] = i
      /\ \A n \in 1..Len(q) : nq[n] = q[n]
      /\ Len(pt) \in Nat /\ Len(b) \in Nat /\ Len(q) \in Nat
  OBVIOUS
<1> HIDE DEF np, nq
<1>2. Len(np) - Len(b) - Len(nq) = k /\ k \in Nat /\ Len(pt) = k + Len(b) + Len(q)
  BY <1>1 DEF Acc
<1>3. /\ \A n \in 1..k : pt[n] \in S
      /\ \A n \in 1..Len(b) : b[n] = pt[k + n]
      /\ \A n \in 1..Len(q) : q[n] = pt[k + Len(b) + n]
  BY DEF Acc
<1> HIDE DEF k
<1>4. \A n \in 1..k : np[n] \in S
  BY <1>1, <1>2, <1>3
<1>5. \A n \in 1..Len(b) : b[n] = np[k + n]
  BY <1>1, <1>2, <1>3
<1>6. \A n \in 1..Len(nq) : nq[n] = np[k + Len(b) + n]
  <2> SUFFICES ASSUME NEW n \in 1..Len(nq) PROVE nq[n] = np[k + Len(b) + n]
    OBVIOUS
  <2>1. CASE n = Len(q) + 1
    <3>1. k + Len(b) + n = Len(pt) + 1
      BY <1>1, <1>2, <2>1
    <3> QED BY <1>1, <2>1, <3>1
  <2>2. CASE n # Len(q) + 1
    <3>1. n \in 1..Len(q) /\ k + Len(b) + n \in 1..Len(pt)
      BY <1>1, <1>2, <2>2
    <3> QED BY <1>1, <1>3, <3>1
  <2> QED BY <2>1, <2>2
<1>7. Len(np) - Len(b) - Len(nq) >= 0
  BY <1>2
<1> QED BY <1>2, <1>4, <1>5, <1>6, <1>7 DEF Acc, np, nq

LEMMA AccTake ==
  ASSUME NEW T, NEW pt \in Seq(T), NEW q \in Seq(T), NEW n \in 0..Len(q), NEW S,
         Acc(pt, <<>>, q, S)
  PROVE  Acc(pt, SubSeq(q, 1, n), SubSeq(q, n + 1, Len(q)), S)
<1> DEFINE b == SubSeq(q, 1, n)
           r == SubSeq(q, n + 1, Len(q))
           k == Len(pt) - 0 - Len(q)
<1>1. /\ Len(b) = n /\ \A m \in 1..n : b[m] = q[m]
      /\ Len(r) = Len(q) - n /\ \A m \in 1..(Len(q) - n) : r[m] = q[m + n]
  BY CutSeq
<1>2. Len(pt) \in Nat /\ Len(q) \in Nat /\ n \in Nat /\ n <= Len(q) /\ Len(<<>>) = 0
  OBVIOUS
<1>3. /\ k >= 0 /\ \A m \in 1..k : pt[m] \in S
      /\ \A m \in 1..Len(q) : q[m] = pt[k + 0 + m]
  BY <1>2, Zenon DEF Acc
<1> HIDE DEF b, r
<1>4. k \in Nat /\ Len(pt) - Len(b) - Len(r) = k
  BY <1>1, <1>2, <1>3
<1>5. \A m \in 1..Len(b) : b[m] = pt[k + m]
  <2> SUFFICES ASSUME NEW m \in 1..Len(b) PROVE b[m] = pt[k + m]
    OBVIOUS
  <2>1. m \in 1..n /\ m \in 1..Len(q) /\ k + 0 + m = k + m
    BY <1>1, <1>2, <1>4
  <2> QED BY <1>1, <1>3, <2>1
<1>6. \A m \in 1..Len(r) : r[m] = pt[k + Len(b) + m]
  <2> SUFFICES ASSUME NEW m \in 1..Len(r) PROVE r[m] = pt[k + Len(b) + m]
    OBVIOUS
  <2>1. m \in 1..(Len(q) - n) /\ m + n \in 1..Len(q) /\ k + 0 + (m + n) = k + Len(b) + m
    BY <1>1, <1>2, <1>4
  <2> QED BY <1>1, <1>3, <2>1
<1> HIDE DEF k
<1> QED BY <1>3, <1>4, <1>5, <1>6 DEF Acc, b, r

LEMMA AccHandle ==
  ASSUME NEW T, NEW pt \in Seq(T), NEW b \in Seq(T), NEW q \in Seq(T), b # <<>>,
         NEW S, NEW R, S \subseteq R, Head(b) \in R, Acc(pt, b, q, S)
  PROVE  Acc(pt, Tail(b), q, R)
<1> DEFINE t == Tail(b)
           k == Len(pt) - Len(b) - Len(q)
<1>1. /\ Len(t) = Len(b) - 1 /\ Len(b) \in Nat \ {0}
      /\ \A m \in 1..(Len(b) - 1) : t[m] = b[m + 1] /\ Head(b) = b[1]
      /\ Head(b) = b[1] /\ Len(pt) \in Nat /\ Len(q) \in Nat
  BY HeadTailProperties
<1>2. /\ k >= 0 /\ \A m \in 1..k : pt[m] \in S
      /\ \A m \in 1..Len(b) : b[m] = pt[k + m]
      /\ \A m \in 1..Len(q) : q[m] = pt[k + Len(b) + m]
  BY DEF Acc
<1> HIDE DEF t
<1>3. k \in Nat /\ Len(pt) - Len(t) - Len(q) = k + 1
  BY <1>1, <1>2
<1> HIDE DEF k
<1>4. \A m \in 1..(k + 1) : pt[m] \in R
  <2> SUFFICES ASSUME NEW m \in 1..(k + 1) PROVE pt[m] \in R
    OBVIOUS
  <2>1. CASE m = k + 1
    <3>1. 1 \in 1..Len(b)
      BY <1>1
    <3>2. Head(b) = pt[k + 1]
      BY <1>1, <1>2, <3>1
    <3> QED BY <2>1, <3>2
  <2>2. CASE m # k + 1
    <3>1. m \in 1..k
      BY <1>3, <2>2
    <3> QED BY <1>2, <3>1
  <2> QED BY <2>1, <2>2
<1>5. \A m \in 1..Len(t) : t[m] = pt[(k + 1) + m]
  <2> SUFFICES ASSUME NEW m \in 1..Len(t) PROVE t[m] = pt[(k + 1) + m]
    OBVIOUS
  <2>1. m \in 1..(Len(b) - 1) /\ m + 1 \in 1..Len(b) /\ k + (m + 1) = (k + 1) + m
    BY <1>1, <1>3
  <2> QED BY <1>1, <1>2, <2>1
<1>6. \A m \in 1..Len(q) : q[m] = pt[(k + 1) + Len(t) + m]
  <2> SUFFICES ASSUME NEW m \in 1..Len(q) PROVE q[m] = pt[(k + 1) + Len(t) + m]
    OBVIOUS
  <2>1. k + Len(b) + m = (k + 1) + Len(t) + m
    BY <1>1, <1>3
  <2> QED BY <1>2, <2>1
<1>7. k + 1 >= 0
  BY <1>3
<1> QED BY <1>3, <1>4, <1>5, <1>6, <1>7 DEF Acc, t

\* What was put behind the message in flight is still open.
LEMMA AccBehind ==
  ASSUME NEW T, NEW pt \in Seq(T), NEW b \in Seq(T), NEW q \in Seq(T), b # <<>>,
         NEW S, Acc(pt, b, q, S), IsInjective(pt),
         NEW m \in DOMAIN pt, NEW n \in DOMAIN pt, m < n, pt[m] = Head(b)
  PROVE  pt[n] \in Range(b) \cup Range(q)
<1> DEFINE k == Len(pt) - Len(b) - Len(q)
<1>1. /\ Len(b) \in Nat \ {0} /\ Head(b) = b[1] /\ Len(pt) \in Nat /\ Len(q) \in Nat
      /\ DOMAIN pt = 1..Len(pt) /\ DOMAIN b = 1..Len(b) /\ DOMAIN q = 1..Len(q)
  BY HeadTailProperties
<1>2. /\ k >= 0
      /\ \A j \in 1..Len(b) : b[j] = pt[k + j]
      /\ \A j \in 1..Len(q) : q[j] = pt[k + Len(b) + j]
  BY DEF Acc
<1>3. k \in Nat /\ Len(pt) = k + Len(b) + Len(q)
  BY <1>1, <1>2
<1> HIDE DEF k
<1>4. 1 \in 1..Len(b) /\ k + 1 \in DOMAIN pt
  BY <1>1, <1>3
<1>5. pt[k + 1] = Head(b)
  BY <1>1, <1>2, <1>4
<1>6. m = k + 1
  BY <1>4, <1>5 DEF IsInjective
<1>7. n \in Nat /\ n > k + 1 /\ n <= Len(pt)
  BY <1>1, <1>3, <1>6
<1>8. CASE n <= k + Len(b)
  <2>1. n - k \in 1..Len(b) /\ k + (n - k) = n
    BY <1>1, <1>3, <1>7, <1>8
  <2>2. b[n - k] = pt[n]
    BY <1>2, <2>1
  <2> QED BY <1>1, <2>1, <2>2 DEF Range
<1>9. CASE n > k + Len(b)
  <2>1. n - (k + Len(b)) \in 1..Len(q) /\ k + Len(b) + (n - (k + Len(b))) = n
    BY <1>1, <1>3, <1>7, <1>9
  <2>2. q[n - (k + Len(b))] = pt[n]
    BY <1>2, <2>1
  <2> QED BY <1>1, <2>1, <2>2 DEF Range
<1> QED BY <1>1, <1>3, <1>7, <1>8, <1>9

\* Callers put a message once, under one priority, and none that still waits.
PutApart ==
  /\ \A p \in Priorities :
       /\ IsInjective(put[p]) /\ Range(put[p]) \subseteq 1..offered
       /\ \A q \in Priorities : Range(put[p]) \cap Range(waiting[q]) = {}
  /\ Range(put["high"]) \cap Range(put["low"]) = {}

\* The part of DeliversInOrder that needs an induction of its own.
InOrder ==
  /\ loop # "dead" => \A p \in Priorities : Accounted(p)
  /\ \A p \in Priorities : TopicInOrder(p)

OrderInv == PutApart /\ InOrder

\* What the invariants say of one priority.
LEMMA OrderFacts ==
  ASSUME QueueInv, OrderInv, NEW p \in Priorities
  PROVE  /\ put[p] \in Seq(Items) /\ queue[p] \in Seq(Items) /\ batch[p] \in Seq(Items)
         /\ IsInjective(put[p]) /\ Range(put[p]) \subseteq 1..offered
         /\ \A q \in Priorities : Range(put[p]) \cap Range(waiting[q]) = {}
         /\ loop # "dead" =>
              Acc(put[p], batch[p], queue[p], Range(published) \cup failed)
         /\ TopicInOrder(p)
BY AccountedIsAcc DEF QueueInv, TypeOK, OrderInv, PutApart, InOrder

\* A step that puts nothing keeps PutApart when a message that waits now and
\* did not before was not put.
LEMMA WaitApart ==
  ASSUME PutApart, put' = put, NEW N, 1..offered \subseteq 1..offered',
         \A p \in Priorities : Range(put[p]) \cap N = {},
         \A q \in Priorities : Range(waiting'[q]) \subseteq Range(waiting[q]) \cup N
  PROVE  PutApart'
<1>1. \A p \in Priorities :
        /\ IsInjective(put[p]) /\ Range(put[p]) \subseteq 1..offered
        /\ \A q \in Priorities : Range(put[p]) \cap Range(waiting[q]) = {}
  BY DEF PutApart
<1>2. ASSUME NEW p \in Priorities, NEW q \in Priorities
      PROVE  Range(put[p]) \cap Range(waiting'[q]) = {}
  BY <1>1
<1>3. \A p \in Priorities : Range(put[p]) \subseteq 1..offered'
  BY <1>1
<1>4. Range(put["high"]) \cap Range(put["low"]) = {}
  BY DEF PutApart
<1> QED BY <1>1, <1>2, <1>3, <1>4 DEF PutApart

\* A step that leaves the queues, the batch and the topic alone.
LEMMA SameOrder ==
  ASSUME InOrder, UNCHANGED <<put, queue, batch, published, failed>>,
         loop' # "dead" => loop # "dead"
  PROVE  InOrder'
<1>1. \A p \in Priorities : Accounted(p)' <=> Accounted(p)
  BY DEF Accounted, Settled
<1>2. \A p \in Priorities : TopicInOrder(p)' <=> TopicInOrder(p)
  BY DEF TopicInOrder
<1> QED BY <1>1, <1>2 DEF InOrder

\* A put of a message that was not put before and waits no more.
LEMMA PutOrder ==
  ASSUME QueueInv, OrderInv, NEW p \in Priorities, NEW i \in Items, Put(p, i),
         UNCHANGED <<batch, loop, published, failed>>,
         1..offered \subseteq 1..offered', i \in 1..offered', i \notin Range(published),
         \A q \in Priorities :
           /\ i \notin Range(put[q]) /\ i \notin Range(waiting'[q])
           /\ Range(waiting'[q]) \subseteq Range(waiting[q])
  PROVE  OrderInv'
<1> DEFINE a == Append(put[p], i)
<1>1. /\ put' = [put EXCEPT ![p] = a] /\ queue' = [queue EXCEPT ![p] = Append(queue[p], i)]
      /\ put \in [Priorities -> Seq(Items)] /\ queue \in [Priorities -> Seq(Items)]
  BY DEF Put, QueueInv, TypeOK
<1>2. /\ a \in Seq(Items) /\ Len(a) = Len(put[p]) + 1
      /\ Range(a) = Range(put[p]) \cup {i} /\ IsInjective(a)
  BY OrderFacts, AppendDistinct
<1>3. /\ put'[p] = a /\ queue'[p] = Append(queue[p], i)
      /\ \A q \in Priorities : q # p => put'[q] = put[q] /\ queue'[q] = queue[q]
  BY <1>1
<1> HIDE DEF a
<1>4. \A q \in Priorities :
        /\ Range(put'[q]) \subseteq Range(put[q]) \cup (IF q = p THEN {i} ELSE {})
        /\ IsInjective(put'[q])
  BY <1>2, <1>3, OrderFacts
<1>5. PutApart'
  <2>1. ASSUME NEW q \in Priorities
        PROVE  /\ Range(put'[q]) \subseteq 1..offered'
               /\ \A r \in Priorities : Range(put'[q]) \cap Range(waiting'[r]) = {}
    <3>1. /\ Range(put[q]) \subseteq 1..offered
          /\ \A r \in Priorities : Range(put[q]) \cap Range(waiting[r]) = {}
      BY OrderFacts
    <3>2. Range(put'[q]) \subseteq Range(put[q]) \cup {i}
      BY <1>4
    <3> QED BY <3>1, <3>2
  <2>2. Range(put'["high"]) \cap Range(put'["low"]) = {}
    <3>1. "high" \in Priorities /\ "low" \in Priorities /\ "high" # "low"
      BY DEF Priorities
    <3>2. Range(put["high"]) \cap Range(put["low"]) = {}
      BY DEF OrderInv, PutApart
    <3>3. i \notin Range(put["high"]) /\ i \notin Range(put["low"])
      BY <3>1
    <3> QED BY <1>4, <3>1, <3>2, <3>3
  <2> QED BY <1>4, <2>1, <2>2 DEF PutApart
<1>6. ASSUME NEW q \in Priorities, loop' # "dead" PROVE Accounted(q)'
  <2>1. Acc(put[q], batch[q], queue[q], Range(published) \cup failed)
    BY <1>6, OrderFacts
  <2>2. CASE q = p
    <3>1. /\ put[q] \in Seq(Items) /\ batch[q] \in Seq(Items) /\ queue[q] \in Seq(Items)
      BY OrderFacts
    <3>2. Acc(Append(put[q], i), batch[q], Append(queue[q], i), Range(published) \cup failed)
      BY <2>1, <3>1, AccPut
    <3> QED BY <1>3, <2>2, <3>2, AccountedIsAcc DEF a
  <2>3. CASE q # p
    BY <1>3, <2>1, <2>3, AccountedIsAcc
  <2> QED BY <2>2, <2>3
<1>7. ASSUME NEW q \in Priorities PROVE TopicInOrder(q)'
  <2>1. TopicInOrder(q) /\ put[q] \in Seq(Items)
    BY OrderFacts
  <2>2. CASE q = p
    <3> SUFFICES ASSUME NEW m \in DOMAIN put'[q], NEW n \in DOMAIN put'[q],
                        NEW c \in DOMAIN published, NEW d \in DOMAIN published,
                        m < n, put'[q][m] = published[c], put'[q][n] = published[d]
                 PROVE  c < d
      BY DEF TopicInOrder
    <3>1. /\ DOMAIN put'[q] = 1..(Len(put[q]) + 1) /\ Len(put[q]) \in Nat
          /\ DOMAIN put[q] = 1..Len(put[q])
          /\ \A j \in 1..Len(put[q]) : put'[q][j] = put[q][j]
          /\ put'[q][Len(put[q]) + 1] = i
      <4>1. \A s \in Seq(Items) :
              /\ DOMAIN Append(s, i) = 1..(Len(s) + 1) /\ Len(s) \in Nat
              /\ DOMAIN s = 1..Len(s)
              /\ \A j \in 1..Len(s) : Append(s, i)[j] = s[j]
              /\ Append(s, i)[Len(s) + 1] = i
        OBVIOUS
      <4>2. put'[q] = Append(put[q], i)
        BY <1>3, <2>2 DEF a
      <4> QED BY <2>1, <4>1, <4>2
    <3>2. n # Len(put[q]) + 1
      BY <3>1 DEF Range
    <3>3. m \in 1..Len(put[q]) /\ n \in 1..Len(put[q])
      BY <3>1, <3>2
    <3> QED BY <2>1, <3>1, <3>3 DEF TopicInOrder
  <2>3. CASE q # p
    BY <1>3, <2>1, <2>3 DEF TopicInOrder
  <2> QED BY <2>2, <2>3
<1> QED BY <1>5, <1>6, <1>7 DEF OrderInv, InOrder

\* The message in flight was put under its own priority alone.
LEMMA CurrentWasPut ==
  ASSUME QueueInv, OrderInv, loop = "publish"
  PROVE  /\ InFlight \in Priorities /\ batch[InFlight] # <<>>
         /\ \A q \in Priorities : Current \in Range(put[q]) => q = InFlight
<1> DEFINE f == InFlight
           k == Len(put[f]) - Len(batch[f]) - Len(queue[f])
<1>1. f \in Priorities /\ Current \in Pending(f) /\ Current \in Items
  BY PublishFacts
<1>2. /\ Len(batch[f]) = Len(Behind(f)) + 1 /\ Behind(f) \in Seq(Items)
  BY <1>1, PublishFacts
<1>3. Len(batch[f]) > 0 /\ batch[f] # <<>>
  BY <1>2
<1>4. /\ put[f] \in Seq(Items) /\ batch[f] \in Seq(Items) /\ queue[f] \in Seq(Items)
      /\ Acc(put[f], batch[f], queue[f], Range(published) \cup failed)
  BY <1>1, OrderFacts
<1>5. Current = batch[f][1] /\ 1 \in 1..Len(batch[f])
  BY <1>3, <1>4 DEF Current
<1>6. k >= 0 /\ batch[f][1] = put[f][k + 1]
  BY <1>4, <1>5 DEF Acc
<1>7. k + 1 \in DOMAIN put[f]
  <2>1. Len(put[f]) \in Nat /\ Len(batch[f]) \in Nat /\ Len(queue[f]) \in Nat
        /\ DOMAIN put[f] = 1..Len(put[f])
    BY <1>4
  <2>2. \A x \in Nat, y \in Nat, z \in Nat :
          x - y - z >= 0 /\ y > 0 => (x - y - z) + 1 \in 1..x
    OBVIOUS
  <2> QED BY <1>3, <1>6, <2>1, <2>2
<1>8. Current \in Range(put[f])
  BY <1>5, <1>6, <1>7 DEF Range
<1> HIDE DEF f, k
<1>9. Range(put["high"]) \cap Range(put["low"]) = {}
  BY DEF OrderInv, PutApart
<1>10. \A q \in Priorities : Current \in Range(put[q]) => q = f
  BY <1>1, <1>8, <1>9 DEF Priorities
<1> QED BY <1>1, <1>3, <1>10 DEF f

\* The topic with or without the message in flight.
LEMMA PublishOrder ==
  ASSUME QueueInv, OrderInv, loop = "publish", put' = put,
         published' \in {published, Append(published, Current)},
         NEW q \in Priorities
  PROVE  TopicInOrder(q)'
<1>1. /\ TopicInOrder(q) /\ put[q] \in Seq(Items) /\ batch[q] \in Seq(Items)
      /\ queue[q] \in Seq(Items) /\ IsInjective(put[q])
      /\ Acc(put[q], batch[q], queue[q], Range(published) \cup failed)
  BY OrderFacts
<1>2. CASE published' = published
  BY <1>1, <1>2 DEF TopicInOrder
<1>3. CASE published' = Append(published, Current)
  <2> SUFFICES ASSUME NEW m \in DOMAIN put[q], NEW n \in DOMAIN put[q],
                      NEW c \in DOMAIN published', NEW d \in DOMAIN published',
                      m < n, put[q][m] = published'[c], put[q][n] = published'[d]
               PROVE  c < d
    BY DEF TopicInOrder
  <2>1. published \in Seq(Items) /\ Current \in Items
    BY PublishFacts DEF QueueInv, TypeOK
  <2>2. /\ DOMAIN published' = 1..(Len(published) + 1) /\ Len(published) \in Nat
        /\ DOMAIN published = 1..Len(published)
        /\ \A j \in 1..Len(published) : published'[j] = published[j]
        /\ published'[Len(published) + 1] = Current
    BY <1>3, <2>1
  <2>3. CASE c = Len(published) + 1 /\ d = Len(published) + 1
    <3>1. put[q][m] = put[q][n]
      BY <2>3
    <3>2. m = n
      BY <1>1, <3>1 DEF IsInjective
    <3>3. m \in Nat
      BY <1>1
    <3> QED BY <3>2, <3>3
  <2>4. CASE c = Len(published) + 1 /\ d \in 1..Len(published)
    <3>1. put[q][m] = Current /\ put[q][n] \in Range(published)
      BY <2>2, <2>4 DEF Range
    <3>2. q = InFlight
      <4>1. Current \in Range(put[q])
        BY <3>1 DEF Range
      <4> QED BY <4>1, CurrentWasPut
    <3>3. batch[q] # <<>> /\ put[q][m] = Head(batch[q])
      BY <3>1, <3>2, CurrentWasPut DEF Current
    <3>4. put[q][n] \in Range(batch[q]) \cup Range(queue[q])
      BY <1>1, <3>3, AccBehind
    <3>5. (Range(batch[q]) \cup Range(queue[q])) \cap Range(published) = {}
      BY DEF QueueInv, Apart, Own
    <3> QED BY <3>1, <3>4, <3>5
  <2>5. CASE c \in 1..Len(published) /\ d = Len(published) + 1
    BY <2>2, <2>5
  <2>6. CASE c \in 1..Len(published) /\ d \in 1..Len(published)
    BY <1>1, <2>2, <2>6 DEF TopicInOrder
  <2> QED BY <2>2, <2>3, <2>4, <2>5, <2>6
<1> QED BY <1>2, <1>3

\* A caller offers a message: it is new, and put, dropped or made to wait.
LEMMA OfferOrder ==
  ASSUME QueueInv, OrderInv, NEW p \in Priorities,
         Enqueue(p, offered + 1) \/ EnqueueBlocking(p, offered + 1)
  PROVE  OrderInv'
<1> DEFINE i == offered + 1
<1>1. /\ i \in Items /\ 1..offered \subseteq 1..offered' /\ i \in 1..offered'
      /\ i \notin Range(published) /\ \A q \in Priorities : i \notin Own(q)
  BY OfferedNew DEF Enqueue, EnqueueBlocking
<1>2. i \notin 1..offered
  BY DEF QueueInv, TypeOK
<1>3. UNCHANGED <<batch, loop, published, failed>>
  BY DEF Enqueue, EnqueueBlocking, drain
<1>4. \A q \in Priorities : i \notin Range(put[q])
  BY <1>2, OrderFacts
<1>5. CASE Full(p)
  <2>1. UNCHANGED <<queue, put>>
    BY <1>5 DEF Enqueue, EnqueueBlocking
  <2>2. \A q \in Priorities : Range(waiting'[q]) \subseteq Range(waiting[q]) \cup {i}
    <3>1. waiting' = waiting \/ waiting' = [waiting EXCEPT ![p] = Append(waiting[p], i)]
      BY <1>5 DEF Enqueue, EnqueueBlocking
    <3>2. waiting \in [Priorities -> Seq(Items)]
      BY DEF QueueInv, TypeOK
    <3>3. Range(Append(waiting[p], i)) = Range(waiting[p]) \cup {i}
      BY <1>1, <3>2, AppendDistinct
    <3> HIDE DEF i
    <3> QED BY <3>1, <3>2, <3>3
  <2>3. PutApart /\ InOrder
    BY DEF OrderInv
  <2>4. \A q \in Priorities : Range(put[q]) \cap {i} = {}
    BY <1>4
  <2>5. PutApart'
    BY <1>1, <2>1, <2>2, <2>3, <2>4, WaitApart
  <2>6. InOrder'
    BY <1>3, <2>1, <2>3, SameOrder
  <2> QED BY <2>5, <2>6 DEF OrderInv
<1>6. CASE ~Full(p)
  <2>1. Put(p, i) /\ waiting' = waiting
    BY <1>6 DEF Enqueue, EnqueueBlocking
  <2>2. \A q \in Priorities :
          /\ i \notin Range(put[q]) /\ i \notin Range(waiting'[q])
          /\ Range(waiting'[q]) \subseteq Range(waiting[q])
    BY <1>1, <1>4, <2>1 DEF Own
  <2> HIDE DEF i
  <2> QED BY <1>1, <1>3, <2>1, <2>2, PutOrder
<1> QED BY <1>5, <1>6

LEMMA WakeOrder ==
  ASSUME QueueInv, OrderInv, NEW p \in Priorities, PutWakes(p)
  PROVE  OrderInv'
<1> DEFINE i == Head(waiting[p])
           t == Tail(waiting[p])
<1>1. waiting \in [Priorities -> Seq(Items)] /\ IsInjective(waiting[p])
  BY WaitingFacts
<1>2. /\ i \in Range(waiting[p]) /\ i \in Items
      /\ Range(t) = Range(waiting[p]) \ {i}
  BY <1>1, TailDistinct DEF PutWakes
<1>3. /\ Put(p, i) /\ waiting' = [waiting EXCEPT ![p] = t]
      /\ UNCHANGED <<batch, loop, published, failed>> /\ offered' = offered
  BY DEF PutWakes, drain
<1> HIDE DEF i, t
<1>4. i \in Own(p)
  BY <1>2 DEF Own
<1>5. i \notin Range(published) /\ i \in 1..offered
  BY <1>4 DEF QueueInv, Apart
<1>6. \A q \in Priorities : q # p => i \notin Own(q)
  BY <1>4 DEF QueueInv, Apart, Priorities
<1>7. ASSUME NEW q \in Priorities
      PROVE  /\ i \notin Range(put[q]) /\ i \notin Range(waiting'[q])
             /\ Range(waiting'[q]) \subseteq Range(waiting[q])
  <2>1. i \notin Range(put[q])
    BY <1>2, OrderFacts
  <2>2. waiting'[q] = IF q = p THEN t ELSE waiting[q]
    BY <1>1, <1>3
  <2>3. q # p => i \notin Range(waiting[q])
    BY <1>6 DEF Own
  <2> QED BY <1>2, <2>1, <2>2, <2>3
<1>8. 1..offered \subseteq 1..offered' /\ i \in 1..offered'
  BY <1>3, <1>5
<1> QED BY <1>2, <1>3, <1>5, <1>7, <1>8, PutOrder

LEMMA TimeoutOrder ==
  ASSUME QueueInv, OrderInv, NEW p \in Priorities, NEW n, PutTimeout(p, n)
  PROVE  OrderInv'
<1>1. waiting \in [Priorities -> Seq(Items)] /\ IsInjective(waiting[p])
  BY WaitingFacts
<1>2. n \in 1..Len(waiting[p])
  BY <1>1 DEF PutTimeout
<1>3. Range(RemoveAt(waiting[p], n)) \subseteq Range(waiting[p])
  BY <1>1, <1>2, RemoveDistinct
<1>4. /\ waiting' = [waiting EXCEPT ![p] = RemoveAt(waiting[p], n)] /\ offered' = offered
      /\ UNCHANGED <<put, queue, batch, published, failed, loop>>
  BY DEF PutTimeout, drain, history
<1>5. \A q \in Priorities : Range(waiting'[q]) \subseteq Range(waiting[q]) \cup {}
  BY <1>1, <1>3, <1>4
<1>6. PutApart /\ InOrder
  BY DEF OrderInv
<1>7. PutApart'
  <2>1. 1..offered \subseteq 1..offered' /\ \A q \in Priorities : Range(put[q]) \cap {} = {}
    BY <1>4
  <2> QED BY <1>4, <1>5, <1>6, <2>1, WaitApart
<1>8. InOrder'
  BY <1>4, <1>6, SameOrder
<1> QED BY <1>7, <1>8 DEF OrderInv

\* A step that neither puts a message nor makes a caller wait.
LEMMA SamePut ==
  ASSUME OrderInv, put' = put, offered' = offered, waiting' = waiting
  PROVE  PutApart'
BY DEF OrderInv, PutApart

LEMMA TakeOrder ==
  ASSUME QueueInv, OrderInv, TakeBatch
  PROVE  OrderInv'
<1>1. /\ loop = "idle"
      /\ batch' = [p \in Priorities |-> SubSeq(queue[p], 1, Taken(p))]
      /\ queue' = [p \in Priorities |-> SubSeq(queue[p], Taken(p) + 1, Len(queue[p]))]
      /\ UNCHANGED <<waiting, offered, put, failed, published>>
  BY DEF TakeBatch, history
<1>2. batch = NoBatch
  BY <1>1 DEF QueueInv, TypeOK
<1>3. PutApart'
  BY <1>1, SamePut
<1>4. ASSUME NEW q \in Priorities PROVE Accounted(q)' /\ TopicInOrder(q)'
  <2> DEFINE n == Taken(q)
             S == Range(published) \cup failed
  <2>1. /\ put[q] \in Seq(Items) /\ queue[q] \in Seq(Items) /\ TopicInOrder(q)
        /\ Acc(put[q], batch[q], queue[q], S)
    BY <1>1, OrderFacts
  <2>2. batch[q] = <<>>
    BY <1>2 DEF NoBatch
  <2>3. n \in 0..Len(queue[q])
    BY TakenFits
  <2>4. batch'[q] = SubSeq(queue[q], 1, n) /\ queue'[q] = SubSeq(queue[q], n + 1, Len(queue[q]))
    BY <1>1
  <2>5. Range(published') \cup failed' = S /\ put'[q] = put[q]
    BY <1>1
  <2> HIDE DEF n, S
  <2>6. Acc(put[q], SubSeq(queue[q], 1, n), SubSeq(queue[q], n + 1, Len(queue[q])), S)
    BY <2>1, <2>2, <2>3, AccTake
  <2>7. Accounted(q)'
    BY <2>4, <2>5, <2>6, AccountedIsAcc
  <2>8. TopicInOrder(q)'
    BY <1>1, <2>1 DEF TopicInOrder
  <2> QED BY <2>7, <2>8
<1> QED BY <1>3, <1>4 DEF OrderInv, InOrder

LEMMA HandledOrder ==
  ASSUME QueueInv, OrderInv, PublishOk \/ PublishFail
  PROVE  OrderInv'
<1>1. /\ loop = "publish" /\ UNCHANGED <<queue, waiting, offered, put>>
      /\ batch' = [p \in Priorities |-> Behind(p)]
      /\ published' \in {published, Append(published, Current)}
  BY DEF PublishOk, PublishFail, Advance
<1>2. published \in Seq(Items) /\ Current \in Items
  BY <1>1, PublishFacts DEF QueueInv, TypeOK
<1>3. /\ Range(published) \cup failed \subseteq Range(published') \cup failed'
      /\ Current \in Range(published') \cup failed'
  <2>1. Range(Append(published, Current)) = Range(published) \cup {Current}
    BY <1>2, AppendDistinct
  <2>2. CASE PublishOk
    BY <2>1, <2>2 DEF PublishOk
  <2>3. CASE PublishFail
    <3>1. failed' = failed \cup {Current} /\ Range(published) \subseteq Range(published')
      BY <1>1, <2>1, <2>3 DEF PublishFail
    <3> QED BY <3>1
  <2> QED BY <2>2, <2>3
<1>4. PutApart'
  BY <1>1, SamePut
<1>5. ASSUME NEW q \in Priorities PROVE Accounted(q)'
  <2> DEFINE S == Range(published) \cup failed
             R == Range(published') \cup failed'
  <2>1. /\ put[q] \in Seq(Items) /\ queue[q] \in Seq(Items) /\ batch[q] \in Seq(Items)
        /\ Acc(put[q], batch[q], queue[q], S)
    BY <1>1, OrderFacts
  <2>2. S \subseteq R /\ Current \in R
    BY <1>3
  <2> HIDE DEF S, R
  <2>3. put'[q] = put[q] /\ queue'[q] = queue[q] /\ batch'[q] = Behind(q)
    BY <1>1
  <2>4. Acc(put[q], Behind(q), queue[q], R)
    <3>1. CASE q = InFlight
      <4>1. batch[q] # <<>> /\ Head(batch[q]) \in R /\ Behind(q) = Tail(batch[q])
        BY <1>1, <2>2, <3>1, CurrentWasPut DEF Current, Behind
      <4> QED BY <2>1, <2>2, <4>1, AccHandle
    <3>2. CASE q # InFlight
      <4>1. Behind(q) = batch[q]
        BY <3>2 DEF Behind
      <4> QED BY <2>1, <2>2, <4>1 DEF Acc
    <3> QED BY <3>1, <3>2
  <2> QED BY <2>3, <2>4, AccountedIsAcc DEF R
<1>6. \A q \in Priorities : TopicInOrder(q)'
  BY <1>1, PublishOrder
<1> QED BY <1>4, <1>5, <1>6 DEF OrderInv, InOrder

LEMMA OrderStep == QueueInv /\ OrderInv /\ [Next]_vars => OrderInv'
<1> SUFFICES ASSUME QueueInv, OrderInv, [Next]_vars PROVE OrderInv'
  OBVIOUS
<1>1. ASSUME NEW p \in Priorities,
             Enqueue(p, offered + 1) \/ EnqueueBlocking(p, offered + 1)
      PROVE  OrderInv'
  BY <1>1, OfferOrder
<1>2. ASSUME NEW p \in Priorities, PutWakes(p) PROVE OrderInv'
  BY <1>2, WakeOrder
<1>3. ASSUME NEW p \in Priorities, NEW n \in 1..MaxItems, PutTimeout(p, n) PROVE OrderInv'
  BY <1>3, TimeoutOrder
<1>4. CASE TakeBatch
  BY <1>4, TakeOrder
<1>5. CASE PublishOk \/ PublishFail
  BY <1>5, HandledOrder
<1>6. CASE Cancel
  <2>1. /\ loop = "publish" /\ loop' = "dead" /\ UNCHANGED <<waiting, offered, put>>
        /\ published' \in {published, Append(published, Current)}
    BY <1>6 DEF Cancel
  <2>2. PutApart'
    BY <2>1, SamePut
  <2>3. \A q \in Priorities : TopicInOrder(q)'
    BY <2>1, PublishOrder
  <2> QED BY <2>1, <2>2, <2>3 DEF OrderInv, InOrder
<1>7. ASSUME UNCHANGED <<queues, batch, offered, history>>, loop = "dead" => loop' = "dead"
      PROVE  OrderInv'
  <2>1. UNCHANGED <<queue, waiting, batch, offered, put, failed, published>>
    BY <1>7 DEF queues, history
  <2>2. PutApart'
    BY <2>1, SamePut
  <2>3. InOrder'
    BY <1>7, <2>1, SameOrder DEF OrderInv
  <2> QED BY <2>2, <2>3 DEF OrderInv
<1>8. CASE BackoffOver \/ LoopEnds \/ CancelIdle
  BY <1>7, <1>8 DEF BackoffOver, LoopEnds, CancelIdle, LoopTo
<1>9. CASE StopRunning \/ JoinBegin \/ \E p \in Priorities : JoinQueue(p)
  BY <1>7, <1>9 DEF StopRunning, JoinBegin, JoinQueue, drain
<1>10. CASE UNCHANGED vars
  BY <1>7, <1>10 DEF vars, drain
<1> QED BY <1>1, <1>2, <1>3, <1>4, <1>5, <1>6, <1>8, <1>9, <1>10 DEF Next, Drain

(* For any queue sizes, batches, failures and cancellations of output_queue.py *)
(* no message that was put goes missing before a cancellation, other than by   *)
(* a publish that raised, the topic keeps the order of the puts, and a loop    *)
(* that ends by itself leaves only what was put after its end.                 *)
THEOREM QueueDeliversInOrder == Spec => []DeliversInOrder
<1>1. Init => OrderInv
  <2> SUFFICES ASSUME Init PROVE OrderInv
    OBVIOUS
  <2>1. \A q \in Priorities :
          /\ put[q] = <<>> /\ waiting[q] = <<>> /\ queue[q] = <<>> /\ batch[q] = <<>>
    BY DEF Init, NoBatch
  <2>2. "high" \in Priorities /\ "low" \in Priorities
    BY DEF Priorities
  <2>3. PutApart
    BY <2>1, <2>2, EmptyRange DEF PutApart
  <2>4. \A q \in Priorities : Accounted(q)
    <3>1. Len(<<>>) = 0 /\ 0 - 0 - 0 = 0 /\ \A n \in 1..0 : FALSE
      OBVIOUS
    <3>2. \A q \in Priorities :
            Settled(q) = 0 /\ Len(batch[q]) = 0 /\ Len(queue[q]) = 0
      BY <2>1, <3>1 DEF Settled
    <3> QED BY <3>1, <3>2 DEF Accounted
  <2>5. \A q \in Priorities : TopicInOrder(q)
    BY <2>1 DEF TopicInOrder
  <2> QED BY <2>3, <2>4, <2>5 DEF OrderInv, InOrder
<1>2. QueueInv /\ OrderInv => DeliversInOrder
  BY DEF QueueInv, LateOnly, OrderInv, InOrder, DeliversInOrder
<1> QED BY <1>1, <1>2, OrderStep, QueueInvariant, PTL DEF Spec
=============================================================================
