--------------------------- MODULE SmsSendProof ---------------------------
(***************************************************************************)
(* Proofs about sending and deleting SMS, for any set of requests, tokens, *)
(* contents and messaging proxies, any capacity of the dedupe queue and    *)
(* any number of messaging epochs.                                         *)
(*                                                                         *)
(* That a token is sent at most once rests on three facts that hold        *)
(* together: whatever was dispatched in the present epoch is still in the  *)
(* queue, or the reason why it is not is on record (Remembered); an entry  *)
(* is evicted only after as many other tokens as the queue holds           *)
(* (Evictions); and only the last request accepted can be in flight        *)
(* (History).                                                              *)
(***************************************************************************)
EXTENDS SmsSend, FiniteSetTheorems, SequenceTheorems, TLAPS

\* What each phase implies of a request.
Shape(r) ==
    /\ r.phase \in {"create", "send"} => r.token # NoToken
    /\ r.phase \in {"unused", "delete"} => r.token = NoToken
    /\ r.phase \in {"unused", "create", "delete"} => ~r.dispatched
    /\ r.phase = "send" => r.dispatched
    /\ r.phase # "done" => r.code = "none"
    /\ r.code = "ok" /\ r.token # NoToken => r.dispatched
    /\ r.phase # "done" /\ (r.timedOut \/ r.lost) => r.cancelled

\* A request belongs to an epoch that has begun, and one in flight to the
\* messaging interface of its epoch.
Epochs ==
    \A o \in Op : op[o].phase # "unused"
        => /\ op[o].mgen <= mgen
           /\ InFlight(o) /\ op[o].mgen = mgen => messaging \in {op[o].messaging, NoProxy}

\* Requests are accepted once, and while the last one is in flight no
\* other is accepted.
History ==
    /\ \A i \in 1..Len(started) : op[started[i]].phase # "unused"
    /\ \A i, j \in 1..Len(started) : started[i] = started[j] => i = j
    /\ \A o \in Op : InFlight(o) => Len(started) > 0 /\ started[Len(started)] = o

\* An entry records what became of the request that stored it.
Recorded ==
    \A i \in 1..Len(dedupe) :
        LET e == dedupe[i]
            r == op[e.by]
        IN  /\ e.token = r.token /\ e.content = r.content
            /\ \E k \in 1..Len(started) : started[k] = e.by
            /\ e.ok => r.code = "ok" /\ r.dispatched
            /\ \A o \in Op : InFlight(o) /\ op[o].token = e.token => e.by = o

\* The other tokens accepted after the i-th request.
LaterTokens(i) ==
    {op[started[k]].token : k \in (i + 1)..Len(started)} \ {NoToken, op[started[i]].token}

Evictions ==
    /\ \A o \in evicted : op[o].phase # "unused"
    /\ \A i \in 1..Len(started) :
         started[i] \in evicted => Cardinality(LaterTokens(i)) >= Capacity

Forgotten(o) == o \in expired \/ op[o].code \in {"refused", "busy"}

\* While requests can be accepted, nothing dispatched in this epoch is
\* missing from the queue without a reason.
Remembered ==
    live /\ messaging # NoProxy
        => \A i \in 1..Len(started) :
             LET o == started[i]
             IN  op[o].token # NoToken /\ op[o].dispatched /\ op[o].mgen = mgen /\ ~InFlight(o)
                   => \/ Forgotten(o) \/ o \in evicted
                      \/ \E n \in 1..Len(dedupe) : dedupe[n].by = o

\* A token is accepted again only when its earlier dispatch is forgotten.
NoSecondStart ==
    \A i, j \in 1..Len(started) :
        LET o == started[i]
            p == started[j]
        IN  i < j /\ op[o].token # NoToken /\ op[o].token = op[p].token
            /\ op[o].mgen = op[p].mgen /\ op[o].dispatched
              => \/ Forgotten(o)
                 \/ /\ o \in evicted
                    /\ Cardinality({op[started[k]].token : k \in (i + 1)..(j - 1)}
                                     \ {NoToken, op[o].token}) >= Capacity

Inv ==
    /\ TypeOK /\ \A o \in Op : Shape(op[o])
    /\ SmsLockOwned /\ Epochs /\ History
    /\ Recorded /\ QueueIsCurrent /\ DeduplicatedIsTrue
    /\ Evictions /\ Remembered /\ NoSecondStart


-----------------------------------------------------------------------------
(* The operators on the queue.                                             *)

\* The queue as an operation leaves it comes from the queue it found: its
\* n-th entry is the one that was at f[n], in the same order.
Thinned(r, q, f) ==
    /\ f \in [1..Len(r) -> 1..Len(q)]
    /\ \A m, n \in 1..Len(r) : m < n => f[m] < f[n]
    /\ \A n \in 1..Len(r) : r[n] = q[f[n]]

\* Of a token that is stored once, Without keeps every other entry.
LEMMA WithoutThins ==
    ASSUME NEW q \in Seq(Entry), NEW t,
           \A i, j \in 1..Len(q) : q[i].token = q[j].token => i = j
    PROVE  /\ Without(q, t) \in Seq(Entry)
           /\ Len(Without(q, t)) <= Len(q)
           /\ \E f : Thinned(Without(q, t), q, f)
           /\ \A n \in 1..Len(q) :
                \/ q[n].token = t
                \/ \E m \in 1..Len(Without(q, t)) : Without(q, t)[m] = q[n]
           /\ \A n \in 1..Len(Without(q, t)) : Without(q, t)[n].token # t
<1>1. CASE Find(q, t) = {}
  <2>1. Without(q, t) = q
    BY <1>1 DEF Without
  <2>2. Len(q) \in Nat
    BY LenProperties
  <2> DEFINE f == [n \in 1..Len(q) |-> n]
  <2>3. Thinned(q, q, f)
    BY <2>2 DEF Thinned
  <2> HIDE DEF f
  <2>4. \A n \in 1..Len(q) : q[n].token # t
    BY <1>1 DEF Find
  <2> QED
    BY <2>1, <2>2, <2>3, <2>4
<1>2. CASE Find(q, t) # {}
  <2>1. PICK i \in Find(q, t) : TRUE
    BY <1>2
  <2>2. i \in 1..Len(q) /\ q[i].token = t /\ Len(q) \in Nat /\ Find(q, t) = {i}
    BY <2>1, LenProperties DEF Find
  <2> DEFINE L == Len(q) - 1
             r == [k \in 1..L |-> IF k < i THEN q[k] ELSE q[k + 1]]
             f == [k \in 1..L |-> IF k < i THEN k ELSE k + 1]
  <2>3. (CHOOSE j \in Find(q, t) : \A k \in Find(q, t) : j <= k) = i
    BY <2>2
  <2>4. Without(q, t) = r
    BY <1>2, <2>3 DEF Without
  <2>5. L \in Nat
    BY <2>2
  <2>6. \A k \in 1..Len(q) : q[k] \in Entry
    BY ElementOfSeq
  <2>7. r \in [1..L -> Entry]
    BY <2>2, <2>5, <2>6
  <2>8. r \in Seq(Entry) /\ Len(r) = L
    BY <2>5, <2>7, SeqDef, LenProperties
  <2>9. f \in [1..L -> 1..Len(q)]
    BY <2>2, <2>5
  <2>10. \A m, n \in 1..L : m < n => f[m] < f[n]
    BY <2>2, <2>5
  <2>11. \A n \in 1..L : r[n] = q[f[n]]
    BY <2>2, <2>5
  <2>12. ASSUME NEW n \in 1..Len(q), q[n].token # t
         PROVE  \E m \in 1..L : r[m] = q[n]
    <3>1. n # i
      BY <2>2, <2>12
    <3>2. CASE n < i
      <4>1. n \in 1..L /\ r[n] = q[n]
        BY <2>2, <2>5, <3>2
      <4> QED BY <4>1
    <3>3. CASE n > i
      <4>1. n - 1 \in 1..L /\ r[n - 1] = q[n]
        BY <2>2, <2>5, <3>3
      <4> QED BY <4>1
    <3> QED BY <2>2, <3>1, <3>2, <3>3
  <2>15. \A n \in 1..L : f[n] \in 1..Len(q) /\ f[n] # i
    BY <2>2, <2>5
  <2> HIDE DEF r, f
  <2>13. Thinned(r, q, f)
    BY <2>8, <2>9, <2>10, <2>11 DEF Thinned
  <2>16. ASSUME NEW n \in 1..L PROVE r[n].token # t
    <3>1. PICK j \in 1..Len(q) : r[n] = q[j] /\ j # i
      BY <2>11, <2>15, <2>16
    <3> QED BY <2>2, <3>1
  <2> HIDE DEF L
  <2>14. L <= Len(q)
    BY <2>2 DEF L
  <2>17. \A n \in 1..Len(Without(q, t)) : Without(q, t)[n].token # t
    BY <2>4, <2>8, <2>16
  <2>18. /\ Without(q, t) \in Seq(Entry) /\ Len(Without(q, t)) <= Len(q)
         /\ \E g : Thinned(Without(q, t), q, g)
    BY <2>4, <2>8, <2>13, <2>14
  <2>19. \A n \in 1..Len(q) :
            q[n].token = t \/ \E m \in 1..Len(Without(q, t)) : Without(q, t)[m] = q[n]
    BY <2>4, <2>8, <2>12
  <2> QED
    BY <2>17, <2>18, <2>19
<1> QED
  BY <1>1, <1>2

\* Evict makes room for one entry, by dropping the oldest one if need be.
LEMMA EvictThins ==
    ASSUME NEW q \in Seq(Entry), Len(q) <= Capacity
    PROVE  /\ Evict(q) \in Seq(Entry)
           /\ Len(Evict(q)) < Capacity /\ Len(Evict(q)) <= Len(q)
           /\ \E f : Thinned(Evict(q), q, f)
           /\ \A n \in 1..Len(q) :
                \/ q[n].by \in EvictedBy(q)
                \/ \E m \in 1..Len(Evict(q)) : Evict(q)[m] = q[n]
           /\ \A o \in EvictedBy(q) : Len(q) = Capacity /\ o = q[1].by
<1>1. Len(q) \in Nat /\ Capacity \in Nat \ {0}
  BY LenProperties, ConstantsAssumption
<1>2. CASE Len(q) < Capacity
  <2>1. Evict(q) = q
    BY <1>2 DEF Evict
  <2>2. EvictedBy(q) = {}
    BY <1>1, <2>1 DEF EvictedBy
  <2> DEFINE f == [n \in 1..Len(q) |-> n]
  <2>3. Thinned(q, q, f)
    BY <1>1 DEF Thinned
  <2> HIDE DEF f
  <2> QED
    BY <1>1, <1>2, <2>1, <2>2, <2>3
<1>3. CASE Len(q) = Capacity
  <2> DEFINE r == SubSeq(q, 2, Len(q))
             L == Len(q) - 1
             f == [k \in 1..L |-> k + 1]
  <2>1. \A k \in 2..Len(q) : q[k] \in Entry
    BY <1>1, ElementOfSeq
  <2>2. Evict(q) = r
    BY <1>1, <1>3 DEF Evict
  <2>3. r \in Seq(Entry) /\ Len(r) = L
    <3> HIDE DEF r
    <3>1. 2 \in Int /\ Len(q) \in Int
      BY <1>1
    <3>2. r \in Seq(Entry) /\ Len(r) = IF 2 <= Len(q) THEN Len(q) - 2 + 1 ELSE 0
      BY <2>1, <3>1, SubSeqProperties DEF r
    <3> QED BY <1>1, <1>3, <3>2
  <2>4. \A k \in 1..L : r[k] = q[k + 1]
    <3> HIDE DEF r
    <3>1. 2 \in Int /\ Len(q) \in Int
      BY <1>1
    <3>2. \A k \in 1..(Len(q) - 2 + 1) : r[k] = q[2 + k - 1]
      BY <2>1, <3>1, SubSeqProperties DEF r
    <3>3. \A k \in 1..L : k \in 1..(Len(q) - 2 + 1) /\ 2 + k - 1 = k + 1
      BY <1>1
    <3> QED BY <3>2, <3>3
  <2>5. EvictedBy(q) = {q[1].by}
    <3>1. 1..(Len(q) - Len(Evict(q))) = {1}
      BY <1>1, <2>2, <2>3
    <3> QED BY <3>1 DEF EvictedBy
  <2>6. f \in [1..L -> 1..Len(q)] /\ \A m, n \in 1..L : m < n => f[m] < f[n]
    BY <1>1
  <2>7. \A n \in 1..L : r[n] = q[f[n]]
    BY <2>4
  <2> HIDE DEF r, f
  <2>8. Thinned(r, q, f)
    BY <2>3, <2>6, <2>7 DEF Thinned
  <2>9. ASSUME NEW n \in 1..Len(q), n # 1
        PROVE  \E m \in 1..L : r[m] = q[n]
    <3>1. n - 1 \in 1..L /\ r[n - 1] = q[n]
      BY <1>1, <2>4, <2>9
    <3> QED BY <3>1
  <2>10. L < Capacity /\ L <= Len(q)
    BY <1>1, <1>3
  <2> HIDE DEF L
  <2> QED
    BY <1>3, <2>2, <2>3, <2>5, <2>8, <2>9, <2>10
<1> QED
  BY <1>1, <1>2, <1>3

\* A set of tokens named by an interval is finite.
LEMMA TokensFinite ==
    ASSUME NEW a \in Int, NEW b \in Int, NEW f
    PROVE  IsFiniteSet({f[k] : k \in a..b})
<1> DEFINE T == {f[k] : k \in a..b}
           g == [k \in a..b |-> f[k]]
<1>1. g \in Surjection(a..b, T)
  BY DEF Surjection
<1>2. IsFiniteSet(a..b)
  BY FS_Interval
<1> HIDE DEF T, g
<1>3. IsFiniteSet(T)
  BY <1>1, <1>2, FS_Surjection
<1> QED
  BY <1>3 DEF T

\* A full queue and one more token: as many other tokens as the queue
\* holds, seen from its oldest entry.
LEMMA Crowded ==
    ASSUME NEW q \in Seq(Entry), Len(q) = Capacity,
           \A i, j \in 1..Len(q) : q[i].token = q[j].token => i = j,
           NEW T, IsFiniteSet(T), \A n \in 2..Len(q) : q[n].token \in T,
           NEW t \in T, \A n \in 1..Len(q) : q[n].token # t
    PROVE  Cardinality(T) >= Capacity
<1>1. Capacity \in Nat \ {0}
  BY ConstantsAssumption
<1> DEFINE f == [n \in 1..Capacity |-> IF n < Capacity THEN q[n + 1].token ELSE t]
<1>2. f \in [1..Capacity -> T]
  BY <1>1
<1>3. ASSUME NEW m \in 1..Capacity, NEW n \in 1..Capacity, f[m] = f[n]
      PROVE  m = n
  <2>1. CASE m < Capacity /\ n < Capacity
    <3>1. m + 1 \in 1..Len(q) /\ n + 1 \in 1..Len(q) /\ q[m + 1].token = q[n + 1].token
      BY <1>1, <1>3, <2>1
    <3>2. m + 1 = n + 1
      BY <3>1
    <3> QED BY <3>2
  <2>2. CASE ~(m < Capacity) /\ n < Capacity
    <3>1. n + 1 \in 1..Len(q) /\ t = q[n + 1].token
      BY <1>1, <1>3, <2>2
    <3> QED BY <3>1
  <2>3. CASE m < Capacity /\ ~(n < Capacity)
    <3>1. m + 1 \in 1..Len(q) /\ t = q[m + 1].token
      BY <1>1, <1>3, <2>3
    <3> QED BY <3>1
  <2> QED
    BY <1>1, <2>1, <2>2, <2>3
<1> HIDE DEF f
<1>4. f \in Injection(1..Capacity, T)
  BY <1>2, <1>3 DEF Injection, IsInjective
<1>5. Cardinality(1..Capacity) <= Cardinality(T)
  BY <1>4, FS_Injection
<1>6. Cardinality(1..Capacity) = Capacity
  BY <1>1, FS_Interval
<1>7. Cardinality(T) \in Nat
  BY FS_CardinalityType
<1> QED
  BY <1>1, <1>5, <1>6, <1>7


-----------------------------------------------------------------------------
(* What the steps do to the history and the queue.                         *)

\* What no step undoes.
Monotone ==
    /\ \A q \in Op : op[q].phase # "unused"
         => /\ op'[q].phase # "unused"
            /\ op'[q].token = op[q].token /\ op'[q].content = op[q].content
            /\ op'[q].mgen = op[q].mgen
            /\ op[q].dispatched => op'[q].dispatched
            /\ op[q].code # "none" => op'[q].code = op[q].code
    /\ expired \subseteq expired' /\ evicted \subseteq evicted'

\* A request with a token the queue does not hold, or a delete request, is
\* accepted.
Accepts(o) ==
    /\ Admissible(o) /\ MayMutate
    /\ \A q \in Op \ {o} : op'[q] = op[q]
    /\ op'[o].phase # "unused" /\ op'[o].mgen = mgen /\ ~op'[o].dispatched
    /\ Find(dedupe, op'[o].token) = {}
    /\ started' = Append(started, o)
    /\ UNCHANGED <<live, mgen, messaging, connected>>

\* No request is accepted.
Rests ==
    /\ started' = started
    /\ \A q \in Op : InFlight(q)' => InFlight(q)
    /\ \A q \in Op : op'[q].dispatched => op[q].dispatched \/ InFlight(q)

Steps == Monotone /\ (Rests \/ \E o \in Op : Accepts(o))

\* The request accepted last.
Latest(o) == Len(started') > 0 /\ started'[Len(started')] = o

\* An entry made by the request accepted last.
Stored(o, e) ==
    /\ Latest(o) /\ e.by = o
    /\ e.token = op'[o].token /\ e.content = op'[o].content
    /\ op'[o].mgen = mgen'
    /\ e.ok => op'[o].code = "ok" /\ op'[o].dispatched

\* The n-th entry was at f[n]; the request o may have replaced its own or
\* appended one for a token that was not there.
QueueFrom(f, o) ==
    /\ f \in [1..Len(dedupe') -> 1..(Len(dedupe) + 1)]
    /\ \A m, n \in 1..Len(dedupe') : m < n => f[m] < f[n]
    /\ \A n \in 1..Len(dedupe') :
         \/ f[n] <= Len(dedupe) /\ dedupe'[n] = dedupe[f[n]]
         \/ /\ Stored(o, dedupe'[n])
            /\ IF f[n] <= Len(dedupe)
                 THEN dedupe'[n].token = dedupe[f[n]].token /\ dedupe'[n].by = dedupe[f[n]].by
                 ELSE Find(dedupe, dedupe'[n].token) = {}

\* Entries are evicted only when a request with a token the queue does not
\* hold has been accepted last.
Evicts ==
    \/ evicted' = evicted
    \/ /\ evicted' = evicted \cup EvictedBy(dedupe)
       /\ \E o \in Op : /\ Latest(o) /\ op'[o].token \in Token
                        /\ Find(dedupe, op'[o].token) = {}

\* An entry disappears for a reason: expiry, eviction, or its request ends.
Loses ==
    \A n \in 1..Len(dedupe) :
        \/ \E m \in 1..Len(dedupe') : dedupe'[m].by = dedupe[n].by
        \/ dedupe[n].by \in expired' \cup evicted' \/ InFlight(dedupe[n].by)

\* A dispatched request that ends in its epoch is refused or remembered.
Settles ==
    \A q \in Op :
        /\ InFlight(q) /\ ~InFlight(q)' /\ live /\ messaging # NoProxy
        /\ op[q].token # NoToken /\ op'[q].dispatched /\ op[q].mgen = mgen
        => Forgotten(q)' \/ \E m \in 1..Len(dedupe') : dedupe'[m].by = q

\* Facts about the sequence of accepted requests.
LEMMA StartedIs ==
    ASSUME TypeOK
    PROVE  /\ Len(started) \in Nat
           /\ \A i \in 1..Len(started) : started[i] \in Op
           /\ \A o \in Op : /\ Len(Append(started, o)) = Len(started) + 1
                            /\ \A i \in 1..Len(started) : Append(started, o)[i] = started[i]
                            /\ Append(started, o)[Len(started) + 1] = o
                            /\ Append(started, o) \in Seq(Op)
<1>1. started \in Seq(Op)
  BY DEF TypeOK
<1>2. Len(started) \in Nat /\ \A i \in 1..Len(started) : started[i] \in Op
  BY <1>1, LenProperties, ElementOfSeq
<1>3. ASSUME NEW o \in Op
      PROVE  /\ Len(Append(started, o)) = Len(started) + 1
             /\ \A i \in 1..Len(started) : Append(started, o)[i] = started[i]
             /\ Append(started, o)[Len(started) + 1] = o
             /\ Append(started, o) \in Seq(Op)
  BY <1>1, AppendProperties
<1> QED
  BY <1>2, <1>3

\* The history grows at its end only.
LEMMA HistoryGrows ==
    ASSUME Inv, Steps
    PROVE  /\ Len(started') \in Nat /\ Len(started) \in Nat /\ Len(started) <= Len(started')
           /\ \A i \in 1..Len(started) : started'[i] = started[i] /\ started[i] \in Op
           /\ \A i \in (Len(started) + 1)..Len(started') :
                i = Len(started) + 1 /\ started' = Append(started, started'[i])
                /\ started'[i] \in Op /\ Accepts(started'[i])
<1>0. TypeOK
  BY DEF Inv
<1>1. CASE Rests
  BY <1>0, <1>1, StartedIs DEF Rests
<1>2. CASE \E o \in Op : Accepts(o)
  <2>1. PICK o \in Op : Accepts(o)
    BY <1>2
  <2>2. started' = Append(started, o)
    BY <2>1 DEF Accepts
  <2>3. /\ Len(started') = Len(started) + 1 /\ Len(started) \in Nat
        /\ \A i \in 1..Len(started) : started'[i] = started[i] /\ started[i] \in Op
        /\ started'[Len(started) + 1] = o
    BY <1>0, <2>2, StartedIs
  <2>4. ASSUME NEW i \in (Len(started) + 1)..Len(started')
        PROVE  i = Len(started) + 1
    BY <2>3
  <2> QED
    BY <2>1, <2>2, <2>3, <2>4
<1> QED
  BY <1>1, <1>2 DEF Steps

\* Nobody is in flight when a request is accepted.
LEMMA AcceptsAlone ==
    ASSUME Inv, NEW o \in Op, Accepts(o)
    PROVE  /\ \A q \in Op : ~InFlight(q)
           /\ \A q \in Op : InFlight(q)' => q = o
           /\ \A i \in 1..Len(started) : started[i] # o
<1>1. \A q \in Op : ~InFlight(q)
  BY DEF Inv, SmsLockOwned, Accepts, MayMutate
<1>2. \A q \in Op : InFlight(q)' => q = o
  BY <1>1 DEF Accepts, InFlight
<1>3. \A i \in 1..Len(started) : started[i] # o
  BY DEF Accepts, Admissible, Inv, History
<1> QED
  BY <1>1, <1>2, <1>3

\* Every step keeps the history of accepted requests.
LEMMA HistoryKept ==
    ASSUME Inv, Steps
    PROVE  History'
<1>1. ASSUME NEW i \in 1..Len(started')
      PROVE  op'[started'[i]].phase # "unused"
  <2>1. CASE i \in 1..Len(started)
    BY <2>1, HistoryGrows DEF Inv, History, Steps, Monotone
  <2>2. CASE i \notin 1..Len(started)
    <3>1. i \in (Len(started) + 1)..Len(started')
      BY <2>2, HistoryGrows
    <3>2. Accepts(started'[i])
      BY <3>1, HistoryGrows
    <3> QED BY <3>2 DEF Accepts
  <2> QED BY <2>1, <2>2
<1>2. ASSUME NEW i \in 1..Len(started'), NEW j \in 1..Len(started'), started'[i] = started'[j],
             i < j
      PROVE  FALSE
  <2>1. CASE j \in 1..Len(started)
    <3>1. i \in 1..Len(started)
      BY <2>1, <1>2, HistoryGrows
    <3>2. started[i] = started[j]
      BY <1>2, <2>1, <3>1, HistoryGrows
    <3>3. i = j
      BY <2>1, <3>1, <3>2 DEF Inv, History
    <3> QED BY <1>2, <2>1, <3>3, HistoryGrows
  <2>2. CASE j \notin 1..Len(started)
    <3>1. j \in (Len(started) + 1)..Len(started')
      BY <2>2, HistoryGrows
    <3>2. Accepts(started'[j]) /\ started'[j] \in Op /\ i \in 1..Len(started)
      BY <1>2, <3>1, HistoryGrows
    <3>3. started[i] # started'[j]
      BY <3>2, AcceptsAlone
    <3> QED BY <1>2, <3>2, <3>3, HistoryGrows
  <2> QED BY <2>1, <2>2
<1>3. \A i, j \in 1..Len(started') : started'[i] = started'[j] => i = j
  <2>1. \A i, j \in 1..Len(started') : i < j \/ j < i \/ i = j
    BY HistoryGrows
  <2> QED BY <1>2, <2>1
<1>4. ASSUME NEW o \in Op, InFlight(o)'
      PROVE  Len(started') > 0 /\ started'[Len(started')] = o
  <2>1. CASE Rests
    BY <1>4, <2>1 DEF Rests, Inv, History
  <2>2. CASE \E p \in Op : Accepts(p)
    <3>1. PICK p \in Op : Accepts(p)
      BY <2>2
    <3>2. o = p
      BY <1>4, <3>1, AcceptsAlone
    <3>3. started' = Append(started, o)
      BY <3>1, <3>2 DEF Accepts
    <3> QED BY <3>3, StartedIs DEF Inv
  <2> QED BY <2>1, <2>2 DEF Steps
<1> QED
  BY <1>1, <1>3, <1>4 DEF History


\* The token of an accepted request never changes.
LEMMA TokensKept ==
    ASSUME Inv, Steps, NEW i \in 1..Len(started)
    PROVE  /\ started'[i] = started[i] /\ started[i] \in Op
           /\ op[started[i]].phase # "unused" /\ op'[started'[i]].token = op[started[i]].token
           /\ op'[started'[i]].mgen = op[started[i]].mgen
<1>1. started'[i] = started[i] /\ started[i] \in Op
  BY HistoryGrows
<1>2. op[started[i]].phase # "unused"
  BY DEF Inv, History
<1> QED
  BY <1>1, <1>2 DEF Steps, Monotone

\* The other tokens accepted after a request only become more.
LEMMA LaterTokensGrow ==
    ASSUME Inv, Steps, NEW i \in 1..Len(started)
    PROVE  /\ LaterTokens(i) \subseteq LaterTokens(i)'
           /\ IsFiniteSet(LaterTokens(i)')
           /\ Cardinality(LaterTokens(i)) <= Cardinality(LaterTokens(i)')
           /\ Cardinality(LaterTokens(i)) \in Nat /\ Cardinality(LaterTokens(i)') \in Nat
<1>1. Len(started) \in Nat /\ Len(started') \in Nat /\ Len(started) <= Len(started')
  BY HistoryGrows
<1> DEFINE A == {op[started[k]].token : k \in (i + 1)..Len(started)}
           B == {op'[started'[k]].token : k \in (i + 1)..Len(started')}
           t == op[started[i]].token
<1>2. A \subseteq B
  <2>1. ASSUME NEW k \in (i + 1)..Len(started)
        PROVE  op'[started'[k]].token = op[started[k]].token
    <3>1. k \in 1..Len(started)
      BY <1>1
    <3> QED BY <3>1, TokensKept
  <2>2. (i + 1)..Len(started) \subseteq (i + 1)..Len(started')
    BY <1>1
  <2> QED BY <2>1, <2>2
<1>3. IsFiniteSet(B)
  <2> DEFINE f == [k \in (i + 1)..Len(started') |-> op'[started'[k]].token]
  <2>1. B = {f[k] : k \in (i + 1)..Len(started')}
    OBVIOUS
  <2>2. i + 1 \in Int /\ Len(started') \in Int
    BY <1>1
  <2> HIDE DEF f, B
  <2>3. IsFiniteSet({f[k] : k \in (i + 1)..Len(started')})
    BY <2>2, TokensFinite
  <2> QED BY <2>1, <2>3
<1>4. op'[started'[i]].token = t
  BY TokensKept
<1>5. LaterTokens(i) = A \ {NoToken, t} /\ LaterTokens(i)' = B \ {NoToken, t}
  BY <1>4 DEF LaterTokens
<1> HIDE DEF A, B, t
<1>6. LaterTokens(i) \subseteq LaterTokens(i)' /\ LaterTokens(i)' \subseteq B
  BY <1>2, <1>5
<1>7. IsFiniteSet(LaterTokens(i)')
  BY <1>3, <1>6, FS_Subset
<1>8. /\ IsFiniteSet(LaterTokens(i))
      /\ Cardinality(LaterTokens(i)) <= Cardinality(LaterTokens(i)')
  BY <1>6, <1>7, FS_Subset
<1> QED
  BY <1>6, <1>7, <1>8, FS_CardinalityType

\* The history of every entry of the queue: its request was accepted, and
\* entries of different places belong to different tokens.
LEMMA QueueIs ==
    ASSUME Inv
    PROVE  /\ Len(dedupe) \in Nat /\ Len(dedupe) <= Capacity /\ dedupe \in Seq(Entry)
           /\ \A n \in 1..Len(dedupe) :
                /\ dedupe[n] \in Entry /\ dedupe[n].by \in Op /\ dedupe[n].token \in Token
                /\ op[dedupe[n].by].token = dedupe[n].token
                /\ op[dedupe[n].by].mgen = mgen /\ op[dedupe[n].by].phase # "unused"
                /\ \E k \in 1..Len(started) : started[k] = dedupe[n].by
           /\ \A m, n \in 1..Len(dedupe) : dedupe[m].token = dedupe[n].token => m = n
<1>1. dedupe \in Seq(Entry) /\ Len(dedupe) \in Nat /\ Len(dedupe) <= Capacity
  BY LenProperties DEF Inv, TypeOK
<1>2. \A n \in 1..Len(dedupe) : dedupe[n] \in Entry
  BY <1>1, ElementOfSeq
<1>3. \A n \in 1..Len(dedupe) : dedupe[n].by \in Op /\ dedupe[n].token \in Token
  BY <1>2 DEF Entry
<1>4. \A n \in 1..Len(dedupe) :
         /\ op[dedupe[n].by].token = dedupe[n].token
         /\ \E k \in 1..Len(started) : started[k] = dedupe[n].by
  BY DEF Inv, Recorded
<1>5. \A n \in 1..Len(dedupe) : op[dedupe[n].by].mgen = mgen
  BY DEF Inv, QueueIsCurrent
<1>6. \A n \in 1..Len(dedupe) : op[dedupe[n].by].phase # "unused"
  BY <1>4 DEF Inv, History
<1>7. \A m, n \in 1..Len(dedupe) : m < n => dedupe[m].token # dedupe[n].token
  BY DEF Inv, QueueIsCurrent
<1>8. \A m, n \in 1..Len(dedupe) : m < n \/ n < m \/ m = n
  BY <1>1
<1>9. \A m, n \in 1..Len(dedupe) : dedupe[m].token = dedupe[n].token => m = n
  BY <1>7, <1>8
<1> QED
  BY <1>1, <1>2, <1>3, <1>4, <1>5, <1>6, <1>9

\* The queue without a token, and the queue that a store leaves room in.
LEMMA QueueWithout ==
    ASSUME Inv, NEW t, dedupe' = Without(dedupe, t)
    PROVE  /\ dedupe' \in Seq(Entry) /\ Len(dedupe') <= Len(dedupe)
           /\ \E g : Thinned(dedupe', dedupe, g)
           /\ \A n \in 1..Len(dedupe) :
                dedupe[n].token = t \/ \E m \in 1..Len(dedupe') : dedupe'[m] = dedupe[n]
           /\ \A n \in 1..Len(dedupe') : dedupe'[n].token # t
<1>1. /\ dedupe \in Seq(Entry)
      /\ \A i, j \in 1..Len(dedupe) : dedupe[i].token = dedupe[j].token => i = j
  BY QueueIs
<1> DEFINE d == Without(dedupe, t)
<1>2. /\ d \in Seq(Entry) /\ Len(d) <= Len(dedupe)
      /\ \E g : Thinned(d, dedupe, g)
      /\ \A n \in 1..Len(dedupe) :
           dedupe[n].token = t \/ \E m \in 1..Len(d) : d[m] = dedupe[n]
      /\ \A n \in 1..Len(d) : d[n].token # t
  BY <1>1, WithoutThins
<1>3. dedupe' = d
  OBVIOUS
<1> HIDE DEF d
<1> QED BY <1>2, <1>3

\* An entry is evicted only after enough other tokens.
LEMMA EvictionsKept ==
    ASSUME Inv, Steps, Evicts
    PROVE  Evictions'
<1> SUFFICES ASSUME NEW i \in 1..Len(started'), started'[i] \in evicted'
             PROVE  Cardinality(LaterTokens(i)') >= Capacity
  <2>1. ASSUME NEW o \in evicted'
        PROVE  op'[o].phase # "unused"
    <3>1. CASE o \in evicted
      BY <3>1 DEF Inv, TypeOK, Evictions, Steps, Monotone
    <3>2. CASE o \in EvictedBy(dedupe)
      <4>1. Len(dedupe) = Capacity /\ o = dedupe[1].by
        BY <3>2, QueueIs, EvictThins
      <4>2. 1 \in 1..Len(dedupe)
        BY <4>1, ConstantsAssumption
      <4>3. o \in Op /\ op[o].phase # "unused"
        BY <4>1, <4>2, QueueIs
      <4> QED BY <4>3 DEF Steps, Monotone
    <3> QED BY <2>1, <3>1, <3>2 DEF Evicts
  <2> QED BY <2>1 DEF Evictions
<1>0. Capacity \in Nat
  BY ConstantsAssumption
<1>1. CASE i \in 1..Len(started) /\ started[i] \in evicted
  <2>1. Cardinality(LaterTokens(i)) >= Capacity
    BY <1>1 DEF Inv, Evictions
  <2> QED
    BY <1>0, <1>1, <2>1, LaterTokensGrow
<1>2. CASE started'[i] \in EvictedBy(dedupe) /\ started'[i] \notin evicted
  <2>1. PICK o \in Op : /\ Latest(o) /\ op'[o].token \in Token
                        /\ Find(dedupe, op'[o].token) = {}
    BY <1>2 DEF Evicts
  <2>2. Len(dedupe) = Capacity /\ started'[i] = dedupe[1].by
    BY <1>2, QueueIs, EvictThins
  <2>3. 1 \in 1..Len(dedupe)
    BY <2>2, ConstantsAssumption
  <2> DEFINE t == op'[o].token
             L == Len(started')
             T == LaterTokens(i)'
  <2>4. \A n \in 1..Len(dedupe) : dedupe[n].token # t
    BY <2>1 DEF Find
  <2>5. PICK k \in 1..Len(started) : started[k] = dedupe[1].by
    BY <2>3, QueueIs
  <2>6. i = k
    <3>1. k \in 1..Len(started') /\ started'[k] = started[k]
      BY HistoryGrows
    <3> QED BY <2>2, <2>5, <3>1, HistoryKept DEF History
  <2>7. i \in 1..Len(started)
    BY <2>6
  <2>8. op'[started'[i]].token = dedupe[1].token
    BY <2>2, <2>3, <2>7, TokensKept, QueueIs
  <2>9. L \in Nat /\ i < L
    <3>1. L \in Nat /\ i <= L
      BY HistoryGrows
    <3>2. i # L
      BY <2>1, <2>3, <2>4, <2>8 DEF Latest
    <3> QED BY <3>1, <3>2
  <2>10. t \in T
    <3>1. L \in (i + 1)..L /\ op'[started'[L]].token = t
      BY <2>1, <2>9 DEF Latest
    <3>2. t \notin {NoToken, op'[started'[i]].token}
      BY <2>1, <2>3, <2>4, <2>8, ConstantsAssumption
    <3> QED BY <3>1, <3>2 DEF LaterTokens
  <2>11. ASSUME NEW n \in 2..Len(dedupe)
         PROVE  dedupe[n].token \in T
    <3>1. n \in 1..Len(dedupe) /\ 1 < n
      BY QueueIs
    <3>2. PICK a, b \in 1..Len(started) :
             a < b /\ started[a] = dedupe[1].by /\ started[b] = dedupe[n].by
      BY <2>3, <3>1 DEF Inv, QueueIsCurrent
    <3>3. a = i
      BY <2>5, <2>6, <3>2 DEF Inv, History
    <3>4. b \in (i + 1)..L
      BY <3>2, <3>3, HistoryGrows
    <3>5. op'[started'[b]].token = dedupe[n].token
      <4>1. op'[started'[b]].token = op[started[b]].token
        BY TokensKept
      <4>2. op[dedupe[n].by].token = dedupe[n].token
        BY <3>1, QueueIs
      <4> QED BY <3>2, <4>1, <4>2
    <3>6. dedupe[n].token \notin {NoToken, op'[started'[i]].token}
      <4>1. dedupe[n].token # NoToken
        BY <3>1, QueueIs, ConstantsAssumption
      <4>2. dedupe[n].token # dedupe[1].token
        BY <2>3, <3>1, QueueIs
      <4> QED BY <2>8, <4>1, <4>2
    <3> QED BY <3>4, <3>5, <3>6 DEF LaterTokens
  <2>12. IsFiniteSet(T)
    BY <2>7, LaterTokensGrow
  <2> HIDE DEF T, t, L
  <2>13. Cardinality(T) >= Capacity
    BY <2>2, <2>4, <2>10, <2>11, <2>12, QueueIs, Crowded
  <2> QED
    BY <2>13 DEF T
<1>3. CASE i \notin 1..Len(started) /\ started'[i] \in evicted
  <2>1. i \in (Len(started) + 1)..Len(started')
    BY <1>3, HistoryGrows
  <2>2. Accepts(started'[i]) /\ started'[i] \in Op
    BY <2>1, HistoryGrows
  <2>3. op[started'[i]].phase = "unused"
    BY <2>2 DEF Accepts, Admissible
  <2> QED
    BY <1>3, <2>2, <2>3 DEF Inv, Evictions
<1> QED
  BY <1>1, <1>2, <1>3, HistoryGrows DEF Evicts


\* A token is accepted again only when its earlier dispatch is forgotten:
\* otherwise the queue would still hold it and answer the request.
LEMMA NoSecondStartKept ==
    ASSUME Inv, Steps
    PROVE  NoSecondStart'
<1> SUFFICES ASSUME NEW i \in 1..Len(started'), NEW j \in 1..Len(started'), i < j,
                    NEW o, o = started'[i], NEW p, p = started'[j],
                    op'[o].token # NoToken, op'[o].token = op'[p].token,
                    op'[o].mgen = op'[p].mgen, op'[o].dispatched
             PROVE  \/ Forgotten(o)'
                    \/ /\ o \in evicted'
                       /\ Cardinality({op'[started'[k]].token : k \in (i + 1)..(j - 1)}
                                        \ {NoToken, op'[o].token}) >= Capacity
  BY DEF NoSecondStart
<1>1. i \in 1..Len(started) /\ j \in Nat /\ Len(started) \in Nat
  BY HistoryGrows
<1>2. /\ o = started[i] /\ o \in Op /\ op[o].phase # "unused"
      /\ op'[o].token = op[o].token /\ op'[o].mgen = op[o].mgen
  BY <1>1, TokensKept
<1>3. Forgotten(o) => Forgotten(o)'
  BY <1>2 DEF Forgotten, Steps, Monotone
<1>4. o \in evicted => o \in evicted'
  BY DEF Steps, Monotone
<1>5. {op'[started'[k]].token : k \in (i + 1)..(j - 1)}
        = {op[started[k]].token : k \in (i + 1)..(j - 1)}
  <2>1. \A k \in (i + 1)..(j - 1) : k \in 1..Len(started)
    BY <1>1, HistoryGrows
  <2>2. \A k \in (i + 1)..(j - 1) : op'[started'[k]].token = op[started[k]].token
    BY <2>1, TokensKept
  <2> QED BY <2>2
<1>6. CASE j \in 1..Len(started)
  <2>1. p = started[j] /\ op'[p].token = op[p].token /\ op'[p].mgen = op[p].mgen
    BY <1>6, TokensKept
  <2>2. ~InFlight(o)
    <3>1. SUFFICES ASSUME InFlight(o) PROVE FALSE
      OBVIOUS
    <3>2. started[Len(started)] = o
      BY <1>2, <3>1 DEF Inv, History
    <3>3. i = Len(started)
      BY <1>1, <1>2, <3>2 DEF Inv, History
    <3> QED BY <1>1, <1>6, <3>3
  <2>3. op[o].dispatched
    <3>1. CASE Rests
      BY <1>2, <2>2, <3>1 DEF Rests
    <3>2. CASE \E q \in Op : Accepts(q)
      <4>1. PICK q \in Op : Accepts(q)
        BY <3>2
      <4>2. o # q
        BY <1>1, <1>2, <4>1, AcceptsAlone
      <4> QED BY <1>2, <4>1, <4>2 DEF Accepts
    <3> QED BY <3>1, <3>2 DEF Steps
  <2>4. \/ Forgotten(o)
        \/ /\ o \in evicted
           /\ Cardinality({op[started[k]].token : k \in (i + 1)..(j - 1)}
                            \ {NoToken, op[o].token}) >= Capacity
    BY ZenonT(60), <1>1, <1>2, <1>6, <2>1, <2>3 DEF Inv, NoSecondStart
  <2> QED
    BY <1>2, <1>3, <1>4, <1>5, <2>4
<1>7. CASE j \notin 1..Len(started)
  <2>1. j \in (Len(started) + 1)..Len(started')
    BY <1>7, HistoryGrows
  <2>2. j = Len(started) + 1 /\ p \in Op /\ Accepts(p)
    BY <2>1, HistoryGrows
  <2>3. /\ live /\ messaging # NoProxy /\ op'[p].mgen = mgen
        /\ Find(dedupe, op'[p].token) = {} /\ o # p
    BY <1>1, <1>2, <2>2, AcceptsAlone DEF Accepts, Admissible
  <2>4. ~InFlight(o) /\ op[o].dispatched
    BY <1>2, <2>2, <2>3, AcceptsAlone DEF Accepts
  <2>5. Forgotten(o) \/ o \in evicted \/ \E n \in 1..Len(dedupe) : dedupe[n].by = o
    BY <1>1, <1>2, <2>3, <2>4 DEF Inv, Remembered
  <2>6. \A n \in 1..Len(dedupe) : dedupe[n].by # o
    <3>1. \A n \in 1..Len(dedupe) : dedupe[n].token # op[o].token
      BY <1>2, <2>3 DEF Find
    <3> QED BY <3>1, QueueIs
  <2>7. o \in evicted => Cardinality(LaterTokens(i)) >= Capacity
    BY <1>1, <1>2 DEF Inv, Evictions
  <2>8. j - 1 = Len(started)
    BY <1>1, <2>2
  <2>9. LaterTokens(i) = {op[started[k]].token : k \in (i + 1)..(j - 1)} \ {NoToken, op[o].token}
    BY <1>2, <2>8 DEF LaterTokens
  <2> QED
    BY <1>2, <1>3, <1>4, <1>5, <2>5, <2>6, <2>7, <2>9
<1> QED
  BY <1>6, <1>7

\* The entries go on saying what became of their requests.
LEMMA RecordedKept ==
    ASSUME Inv, Steps, NEW f, NEW o \in Op, QueueFrom(f, o)
    PROVE  Recorded'
<1> SUFFICES ASSUME NEW n \in 1..Len(dedupe'), NEW e, e = dedupe'[n]
             PROVE  /\ e.token = op'[e.by].token /\ e.content = op'[e.by].content
                    /\ \E k \in 1..Len(started') : started'[k] = e.by
                    /\ e.ok => op'[e.by].code = "ok" /\ op'[e.by].dispatched
                    /\ \A q \in Op : InFlight(q)' /\ op'[q].token = e.token => e.by = q
  BY DEF Recorded
<1>1. /\ f[n] \in 1..(Len(dedupe) + 1) /\ Len(dedupe) \in Nat
      /\ f[n] <= Len(dedupe) => f[n] \in 1..Len(dedupe)
  BY QueueIs DEF QueueFrom
<1>2. CASE f[n] <= Len(dedupe) /\ e = dedupe[f[n]]
  <2>1. /\ e.by \in Op /\ op[e.by].phase # "unused"
        /\ e.token = op[e.by].token /\ e.content = op[e.by].content
        /\ e.ok => op[e.by].code = "ok" /\ op[e.by].dispatched
        /\ \A q \in Op : InFlight(q) /\ op[q].token = e.token => e.by = q
    BY SMTT(60), <1>1, <1>2, QueueIs DEF Inv, Recorded
  <2>2. /\ e.token = op'[e.by].token /\ e.content = op'[e.by].content
        /\ e.ok => op'[e.by].code = "ok" /\ op'[e.by].dispatched
    BY <2>1 DEF Steps, Monotone
  <2>3. \E k \in 1..Len(started') : started'[k] = e.by
    <3>1. PICK k \in 1..Len(started) : started[k] = e.by
      BY SMTT(30), <1>1, <1>2, QueueIs
    <3>2. k \in 1..Len(started') /\ started'[k] = e.by
      BY <3>1, HistoryGrows
    <3> QED BY <3>2
  <2>4. ASSUME NEW q \in Op, InFlight(q)', op'[q].token = e.token
        PROVE  e.by = q
    <3>1. CASE Rests
      <4>1. InFlight(q) /\ op[q].token = op'[q].token
        BY <2>4, <3>1 DEF Rests, InFlight, Steps, Monotone
      <4> QED BY <2>1, <2>4, <4>1
    <3>2. CASE \E p \in Op : Accepts(p)
      <4>1. PICK p \in Op : Accepts(p)
        BY <3>2
      <4>2. q = p
        BY <2>4, <4>1, AcceptsAlone
      <4>3. e.token # op'[p].token
        BY <1>1, <1>2, <4>1 DEF Accepts, Find
      <4> QED BY <2>4, <4>2, <4>3
    <3> QED BY <3>1, <3>2 DEF Steps
  <2> QED
    BY <2>2, <2>3, <2>4
<1>3. CASE Stored(o, e)
  <2>1. /\ e.by = o /\ e.token = op'[o].token /\ e.content = op'[o].content
        /\ e.ok => op'[o].code = "ok" /\ op'[o].dispatched
        /\ Len(started') > 0 /\ started'[Len(started')] = o
    BY <1>3 DEF Stored, Latest
  <2>2. \E k \in 1..Len(started') : started'[k] = e.by
    <3>1. Len(started') \in 1..Len(started')
      BY <2>1, HistoryGrows
    <3> QED BY <2>1, <3>1
  <2>3. \A q \in Op : InFlight(q)' => q = o
    BY <2>1, HistoryKept DEF History
  <2> QED
    BY <2>1, <2>2, <2>3
<1> QED
  BY <1>2, <1>3 DEF QueueFrom


\* The queue stays ordered, without repetition and of one epoch.
LEMMA QueueKept ==
    ASSUME Inv, Steps, NEW f, NEW o \in Op, QueueFrom(f, o), mgen' = mgen
    PROVE  QueueIsCurrent'
<1>1. \A n \in 1..Len(dedupe') :
        /\ f[n] \in 1..(Len(dedupe) + 1) /\ Len(dedupe) \in Nat
        /\ f[n] <= Len(dedupe) => f[n] \in 1..Len(dedupe)
  BY QueueIs DEF QueueFrom
<1>2. ASSUME NEW n \in 1..Len(dedupe')
      PROVE  op'[dedupe'[n].by].mgen = mgen'
  <2>1. CASE f[n] <= Len(dedupe) /\ dedupe'[n] = dedupe[f[n]]
    <3>1. /\ dedupe'[n].by \in Op /\ op[dedupe'[n].by].phase # "unused"
          /\ op[dedupe'[n].by].mgen = mgen
      BY <1>1, <2>1, QueueIs
    <3> QED BY <3>1 DEF Steps, Monotone
  <2>2. CASE Stored(o, dedupe'[n])
    BY <2>2 DEF Stored
  <2> QED BY <2>1, <2>2 DEF QueueFrom
\* An old place still has its token and its request.
<1>3. ASSUME NEW n \in 1..Len(dedupe'), f[n] <= Len(dedupe)
      PROVE  /\ f[n] \in 1..Len(dedupe)
             /\ dedupe'[n].token = dedupe[f[n]].token /\ dedupe'[n].by = dedupe[f[n]].by
  BY <1>1, <1>3 DEF QueueFrom
<1>4. ASSUME NEW m \in 1..Len(dedupe'), NEW n \in 1..Len(dedupe'), m < n
      PROVE  /\ dedupe'[m].token # dedupe'[n].token
             /\ \E k, l \in 1..Len(started') :
                  k < l /\ started'[k] = dedupe'[m].by /\ started'[l] = dedupe'[n].by
  <2>1. f[m] < f[n] /\ f[m] <= Len(dedupe)
    BY <1>1, <1>4 DEF QueueFrom
  <2>2. CASE f[n] <= Len(dedupe)
    <3>1. f[m] \in 1..Len(dedupe) /\ f[n] \in 1..Len(dedupe)
      BY <1>1, <2>1, <2>2
    <3>2. dedupe[f[m]].token # dedupe[f[n]].token
      BY SMTT(30), <2>1, <3>1 DEF Inv, QueueIsCurrent
    <3>0. \A i, j \in 1..Len(dedupe) : i < j
            => \E k, l \in 1..Len(started) :
                 k < l /\ started[k] = dedupe[i].by /\ started[l] = dedupe[j].by
      BY DEF Inv, QueueIsCurrent
    <3>3. PICK k, l \in 1..Len(started) :
             k < l /\ started[k] = dedupe[f[m]].by /\ started[l] = dedupe[f[n]].by
      BY <2>1, <3>0, <3>1
    <3>4. /\ k \in 1..Len(started') /\ l \in 1..Len(started')
          /\ started'[k] = started[k] /\ started'[l] = started[l]
      BY HistoryGrows
    <3> QED BY <1>3, <2>1, <2>2, <3>2, <3>3, <3>4
  <2>3. CASE ~(f[n] <= Len(dedupe))
    <3>1. Stored(o, dedupe'[n]) /\ Find(dedupe, dedupe'[n].token) = {}
      BY <2>3 DEF QueueFrom
    <3>2. /\ dedupe'[n].by = o /\ dedupe'[n].token = op'[o].token
          /\ Len(started') > 0 /\ started'[Len(started')] = o
      BY <3>1 DEF Stored, Latest
    <3>3. /\ f[m] \in 1..Len(dedupe) /\ dedupe'[m].token = dedupe[f[m]].token
          /\ dedupe'[m].by = dedupe[f[m]].by
      BY <1>3, <2>1
    <3>4. dedupe[f[m]].token # op'[o].token
      BY <3>1, <3>2, <3>3 DEF Find
    <3>5. PICK k \in 1..Len(started) : started[k] = dedupe[f[m]].by
      BY <3>3, QueueIs
    <3>6. k \in 1..Len(started') /\ started'[k] = dedupe[f[m]].by
      BY <3>5, HistoryGrows
    <3>7. k # Len(started')
      <4>1. op'[started'[k]].token = op[started[k]].token
        BY TokensKept
      <4>2. op[started[k]].token = dedupe[f[m]].token
        BY <3>3, <3>5, QueueIs
      <4> QED BY <3>2, <3>4, <4>1, <4>2
    <3>8. k < Len(started') /\ Len(started') \in 1..Len(started')
      BY <3>6, <3>7, HistoryGrows
    <3> QED BY <3>2, <3>3, <3>4, <3>6, <3>8
  <2> QED BY <2>2, <2>3
<1> QED
  BY <1>2, <1>4 DEF QueueIsCurrent

\* Nothing dispatched disappears from the queue without a reason.
LEMMA RememberedKept ==
    ASSUME Inv, Steps, Loses, Settles, live' => live, UNCHANGED <<mgen, messaging>>
    PROVE  Remembered'
<1> SUFFICES ASSUME live', messaging' # NoProxy, NEW i \in 1..Len(started'),
                    NEW o, o = started'[i], op'[o].token # NoToken, op'[o].dispatched,
                    op'[o].mgen = mgen', ~InFlight(o)'
             PROVE  \/ Forgotten(o)' \/ o \in evicted'
                    \/ \E n \in 1..Len(dedupe') : dedupe'[n].by = o
  BY DEF Remembered
<1>1. i \in 1..Len(started)
  <2>1. SUFFICES ASSUME i \notin 1..Len(started) PROVE FALSE
    OBVIOUS
  <2>2. i \in (Len(started) + 1)..Len(started')
    BY <2>1, HistoryGrows
  <2>3. Accepts(o)
    BY <2>2, HistoryGrows
  <2> QED BY <2>3 DEF Accepts
<1>2. /\ o = started[i] /\ o \in Op /\ op[o].phase # "unused"
      /\ op'[o].token = op[o].token /\ op'[o].mgen = op[o].mgen
  BY <1>1, TokensKept
<1>3. CASE InFlight(o)
  BY <1>2, <1>3 DEF Settles
<1>4. CASE ~InFlight(o)
  <2>1. op[o].dispatched
    <3>1. CASE Rests
      BY <1>2, <1>4, <3>1 DEF Rests
    <3>2. CASE \E q \in Op : Accepts(q)
      <4>1. PICK q \in Op : Accepts(q)
        BY <3>2
      <4>2. o # q
        BY <1>1, <1>2, <4>1, AcceptsAlone
      <4> QED BY <1>2, <4>1, <4>2 DEF Accepts
    <3> QED BY <3>1, <3>2 DEF Steps
  <2>2. Forgotten(o) \/ o \in evicted \/ \E n \in 1..Len(dedupe) : dedupe[n].by = o
    BY <1>1, <1>2, <1>4, <2>1 DEF Inv, Remembered
  <2>3. Forgotten(o) => Forgotten(o)'
    BY <1>2 DEF Forgotten, Steps, Monotone
  <2>4. o \in evicted => o \in evicted'
    BY DEF Steps, Monotone
  <2>5. ASSUME NEW n \in 1..Len(dedupe), dedupe[n].by = o
        PROVE  \/ Forgotten(o)' \/ o \in evicted'
               \/ \E m \in 1..Len(dedupe') : dedupe'[m].by = o
    BY <1>4, <2>5 DEF Loses, Forgotten
  <2> QED BY <2>2, <2>3, <2>4, <2>5
<1> QED
  BY <1>3, <1>4


\* The invariant from its parts.
LEMMA InvFromParts ==
    ASSUME Inv, Steps, TypeOK', \A q \in Op : Shape(op'[q]), SmsLockOwned', Epochs',
           Recorded', QueueIsCurrent', DeduplicatedIsTrue', Evicts, Remembered'
    PROVE  Inv'
BY HistoryKept, EvictionsKept, NoSecondStartKept DEF Inv

\* A reply "deduplicated" stays true as long as no new one is made.
LEMMA DeduplicatedKept ==
    ASSUME Inv, Monotone, \A q \in Op : op'[q].code = "deduplicated" => op[q].code = op'[q].code
    PROVE  DeduplicatedIsTrue'
<1> SUFFICES ASSUME NEW o \in Op, op'[o].code = "deduplicated"
             PROVE  \E p \in Op : /\ op'[p].code = "ok" /\ op'[p].dispatched
                                  /\ op'[p].token = op'[o].token
                                  /\ op'[p].content = op'[o].content
                                  /\ op'[p].mgen = op'[o].mgen
  BY DEF DeduplicatedIsTrue
<1>1. op[o].code = "deduplicated"
  OBVIOUS
<1>2. PICK p \in Op : /\ op[p].code = "ok" /\ op[p].dispatched
                      /\ op[p].token = op[o].token /\ op[p].content = op[o].content
                      /\ op[p].mgen = op[o].mgen
  BY <1>1 DEF Inv, DeduplicatedIsTrue
<1>3. op[o].phase = "done" /\ op[p].phase = "done"
  BY <1>1, <1>2 DEF Inv, Shape
<1>4. /\ op'[p].code = "ok" /\ op'[p].dispatched
      /\ op'[p].token = op'[o].token /\ op'[p].content = op'[o].content
      /\ op'[p].mgen = op'[o].mgen
  BY <1>2, <1>3 DEF Monotone
<1> QED
  BY <1>4

\* A queue that is left alone comes from itself.
LEMMA QueueAlone ==
    ASSUME Inv, dedupe' = dedupe, NEW o
    PROVE  Loses /\ \E f : QueueFrom(f, o)
<1> DEFINE f == [n \in 1..Len(dedupe) |-> n]
<1>1. Len(dedupe) \in Nat
  BY QueueIs
<1>2. QueueFrom(f, o)
  BY <1>1 DEF QueueFrom
<1>3. Loses
  BY DEF Loses
<1> HIDE DEF f
<1> QED
  BY <1>2, <1>3

\* So does a thinned one.
LEMMA QueueThinned ==
    ASSUME Inv, NEW g, Thinned(dedupe', dedupe, g), NEW o
    PROVE  \E f : QueueFrom(f, o)
<1>1. Len(dedupe) \in Nat
  BY QueueIs
<1>2. QueueFrom(g, o)
  BY <1>1 DEF QueueFrom, Thinned
<1> QED
  BY <1>2

\* sms_dedupe_store, for the request accepted last.
LEMMA StoreKeeps ==
    ASSUME Inv, NEW o \in Op, NEW ok \in BOOLEAN, NEW c \in {"none", "busy", "outcome_unknown"},
           Store(o, ok, c), op'[o].token \in Token, op'[o].content \in Content,
           Latest(o), op'[o].mgen = mgen', ok => op'[o].code = "ok" /\ op'[o].dispatched,
           \A n \in 1..Len(dedupe) : dedupe[n].token = op'[o].token => dedupe[n].by = o
    PROVE  /\ dedupe' \in Seq(Entry) /\ Len(dedupe') <= Capacity
           /\ expired' = expired /\ evicted \subseteq evicted' /\ evicted' \subseteq Op
           /\ Evicts /\ Loses
           /\ \E f : QueueFrom(f, o)
           /\ \E m \in 1..Len(dedupe') : dedupe'[m].by = o
<1>1. PICK e : e = [token |-> op'[o].token, content |-> op'[o].content, ok |-> ok,
                    code |-> c, by |-> o]
  OBVIOUS
<1>2. e \in Entry
  BY <1>1 DEF Entry
<1>3. e.token = op'[o].token /\ e.by = o
  BY <1>1
<1>4. Stored(o, e)
  BY <1>1 DEF Stored
<1>5. evicted \subseteq Op /\ Len(dedupe) \in Nat /\ Capacity \in Nat
  BY QueueIs, ConstantsAssumption DEF Inv, TypeOK
<1>6. CASE Find(dedupe, e.token) # {}
  <2> DEFINE L == Len(dedupe)
             r == [i \in 1..L |-> IF i \in Find(dedupe, e.token) THEN e ELSE dedupe[i]]
             f == [n \in 1..L |-> n]
  <2>1. dedupe' = r /\ UNCHANGED <<expired, evicted>>
    BY <1>1, <1>6 DEF Store
  <2>2. r \in [1..L -> Entry]
    BY <1>2, QueueIs
  <2>3. r \in Seq(Entry) /\ Len(r) = L
    <3> HIDE DEF r
    <3> QED BY <1>5, <2>2, SeqDef, LenProperties
  <2>4. \A n \in 1..L : \/ r[n] = dedupe[n]
                        \/ r[n] = e /\ dedupe[n].token = e.token
    BY DEF Find
  <2>5. \A n \in 1..L : dedupe[n].token = e.token => dedupe[n].by = o
    BY <1>3
  <2>6. f \in [1..L -> 1..(L + 1)] /\ (\A n \in 1..L : f[n] = n)
    BY <1>5
  <2>7. \E m \in 1..L : r[m].by = o
    BY <1>3, <1>6 DEF Find
  <2> HIDE DEF r, f
  <2>8. dedupe' \in Seq(Entry) /\ Len(dedupe') = L
    BY <2>1, <2>3
  <2>9. QueueFrom(f, o)
    <3>1. \A n \in 1..L : n <= Len(dedupe)
      BY <1>5
    <3> QED
      BY <1>3, <1>4, <2>1, <2>4, <2>5, <2>6, <2>8, <3>1 DEF QueueFrom
  <2>10. Loses
    BY <1>3, <2>1, <2>4, <2>5, <2>8 DEF Loses
  <2>11. Evicts
    BY <2>1 DEF Evicts
  <2> QED
    BY <1>5, <2>1, <2>7, <2>8, <2>9, <2>10, <2>11, QueueIs
<1>7. CASE Find(dedupe, e.token) = {}
  <2> DEFINE q == Evict(dedupe)
             K == Len(q)
             r == Append(q, e)
  <2>1. /\ dedupe' = r /\ expired' = expired /\ evicted' = evicted \cup EvictedBy(dedupe)
    BY <1>1, <1>7 DEF Store, Push
  <2>2. /\ q \in Seq(Entry) /\ K < Capacity /\ K <= Len(dedupe)
        /\ \A n \in 1..Len(dedupe) :
             dedupe[n].by \in EvictedBy(dedupe) \/ \E m \in 1..K : q[m] = dedupe[n]
        /\ \A p \in EvictedBy(dedupe) : Len(dedupe) = Capacity /\ p = dedupe[1].by
    BY QueueIs, EvictThins
  <2>3. PICK g : Thinned(q, dedupe, g)
    BY QueueIs, EvictThins
  <2> HIDE DEF q
  <2>4. K \in Nat
    BY <2>2, LenProperties
  <2>5. /\ r \in Seq(Entry) /\ Len(r) = K + 1 /\ (\A n \in 1..K : r[n] = q[n]) /\ r[K + 1] = e
    BY <1>2, <2>2, AppendProperties
  <2> HIDE DEF r, K
  <2>6. EvictedBy(dedupe) \subseteq Op
    <3>1. 1 \in 1..Capacity
      BY ConstantsAssumption
    <3> QED BY <2>2, <3>1, QueueIs
  <2> DEFINE f == [n \in 1..(K + 1) |-> IF n = K + 1 THEN Len(dedupe) + 1 ELSE g[n]]
  <2>7. /\ g \in [1..K -> 1..Len(dedupe)]
        /\ \A m, n \in 1..K : m < n => g[m] < g[n]
        /\ \A n \in 1..K : q[n] = dedupe[g[n]]
    BY <2>3 DEF Thinned, K
  <2>8. \A n \in 1..(K + 1) : n # K + 1 => n \in 1..K
    BY <2>4
  <2>9. f \in [1..(K + 1) -> 1..(Len(dedupe) + 1)]
    BY <1>5, <2>7, <2>8
  <2>10. \A m, n \in 1..(K + 1) : m < n => f[m] < f[n]
    <3> SUFFICES ASSUME NEW m \in 1..(K + 1), NEW n \in 1..(K + 1), m < n
                 PROVE  f[m] < f[n]
      OBVIOUS
    <3>1. m \in 1..K /\ f[m] = g[m] /\ g[m] \in 1..Len(dedupe)
      BY <2>4, <2>7
    <3>2. CASE n = K + 1
      BY <1>5, <3>1, <3>2
    <3>3. CASE n # K + 1
      BY <2>7, <2>8, <3>1, <3>3
    <3> QED BY <3>2, <3>3
  <2>11. ASSUME NEW n \in 1..(K + 1)
         PROVE  \/ f[n] <= Len(dedupe) /\ r[n] = dedupe[f[n]]
                \/ ~(f[n] <= Len(dedupe)) /\ r[n] = e
    <3>1. CASE n = K + 1
      BY <1>5, <2>5, <3>1
    <3>2. CASE n # K + 1
      BY <1>5, <2>5, <2>7, <2>8, <3>2
    <3> QED BY <3>1, <3>2
  <2> HIDE DEF f
  <2>12. dedupe' \in Seq(Entry) /\ Len(dedupe') = K + 1 /\ K + 1 <= Capacity
    BY <1>5, <2>1, <2>2, <2>4, <2>5
  <2>13. QueueFrom(f, o)
    BY <1>3, <1>4, <1>7, <2>1, <2>9, <2>10, <2>11, <2>12 DEF QueueFrom
  <2>14. Loses
    <3> SUFFICES ASSUME NEW n \in 1..Len(dedupe), dedupe[n].by \notin evicted'
                 PROVE  \E m \in 1..Len(dedupe') : dedupe'[m].by = dedupe[n].by
      BY DEF Loses
    <3>1. PICK m \in 1..K : q[m] = dedupe[n]
      BY <2>1, <2>2 DEF K
    <3>2. m \in 1..Len(dedupe') /\ dedupe'[m] = dedupe[n]
      BY <2>1, <2>4, <2>5, <2>12, <3>1
    <3> QED BY <3>2
  <2>15. Evicts
    BY <1>3, <1>7, <2>1 DEF Evicts
  <2>16. K + 1 \in 1..Len(dedupe') /\ dedupe'[K + 1].by = o
    BY <1>3, <2>1, <2>4, <2>5, <2>12
  <2> QED
    BY <1>5, <2>1, <2>6, <2>12, <2>13, <2>14, <2>15, <2>16
<1> QED
  BY <1>6, <1>7


-----------------------------------------------------------------------------
(* The operations.                                                         *)

\* A completed request keeps what it asked for and what it did.
LEMMA CompletedIs ==
    ASSUME NEW r \in OpRecord, NEW c \in Codes, NEW b \in BOOLEAN
    PROVE  /\ Completed(r, c, b) \in OpRecord
           /\ Completed(r, c, b).phase = "done" /\ Completed(r, c, b).code = c
           /\ Completed(r, c, b).token = r.token /\ Completed(r, c, b).content = r.content
           /\ Completed(r, c, b).mgen = r.mgen
           /\ Completed(r, c, b).dispatched = r.dispatched
<1>1. Completed(r, c, b) \in OpRecord
  BY DEF Completed, OpRecord
<1>2. /\ Completed(r, c, b).phase = "done" /\ Completed(r, c, b).code = c
      /\ Completed(r, c, b).token = r.token /\ Completed(r, c, b).content = r.content
      /\ Completed(r, c, b).mgen = r.mgen
      /\ Completed(r, c, b).dispatched = r.dispatched
  BY DEF Completed, OpRecord
<1> QED BY <1>1, <1>2

\* A new request belongs to the present epoch and has done nothing yet.
LEMMA NewOpIs ==
    ASSUME TypeOK, NEW p \in {"unused", "create", "send", "delete", "done"},
           NEW t \in Token \cup {NoToken}, NEW c \in Content
    PROVE  /\ NewOp(p, t, c) \in OpRecord
           /\ NewOp(p, t, c).phase = p /\ NewOp(p, t, c).token = t
           /\ NewOp(p, t, c).content = c /\ NewOp(p, t, c).mgen = mgen
           /\ NewOp(p, t, c).messaging = messaging /\ NewOp(p, t, c).code = "none"
           /\ ~NewOp(p, t, c).timedOut /\ ~NewOp(p, t, c).lost
           /\ ~NewOp(p, t, c).dispatched
<1>1. NewOp(p, t, c) \in OpRecord
  BY DEF NewOp, OpRecord, TypeOK, Codes
<1>2. /\ NewOp(p, t, c).phase = p /\ NewOp(p, t, c).token = t
      /\ NewOp(p, t, c).content = c /\ NewOp(p, t, c).mgen = mgen
      /\ NewOp(p, t, c).messaging = messaging /\ NewOp(p, t, c).code = "none"
      /\ ~NewOp(p, t, c).timedOut /\ ~NewOp(p, t, c).lost
      /\ ~NewOp(p, t, c).dispatched
  BY DEF NewOp
<1> QED BY <1>1, <1>2

\* An entry with this result says what has become of the request r.
Tells(r, ok, c) ==
    /\ c # "busy"
    /\ ok <=> r.code = "ok"
    /\ c = "outcome_unknown" <=> r.code = "outcome_unknown"

\* A request ends, and what becomes of its token.
Finishes(o) ==
    /\ InFlight(o)
    /\ \E r \in OpRecord :
         /\ op' = [op EXCEPT ![o] = r]
         /\ r.phase = "done" /\ r.token = op[o].token /\ r.content = op[o].content
         /\ r.mgen = op[o].mgen /\ r.dispatched = op[o].dispatched
         /\ r.code \notin {"none", "deduplicated"}
         /\ r.code = "ok" /\ r.token # NoToken => r.dispatched
         /\ \/ UNCHANGED <<dedupe, expired, evicted>> /\ (op[o].token = NoToken \/ Stale(o))
            \/ /\ op[o].token # NoToken /\ ~Stale(o)
               /\ \E ok \in BOOLEAN, c \in {"none", "busy", "outcome_unknown"} :
                    Store(o, ok, c) /\ Tells(r, ok, c)
            \/ /\ op[o].token # NoToken /\ Remove(op[o].token)
               /\ op[o].dispatched /\ ~Stale(o) => r.code \in {"refused", "busy"}
    /\ Free(o)
    /\ UNCHANGED <<live, mgen, messaging, connected, started>>

\* The messaging interface is only ever replaced by none within an epoch, so
\* a request that is stale on a usable modem belongs to an earlier one.
LEMMA StaleIsEarlier ==
    ASSUME Inv, NEW o \in Op, InFlight(o), Stale(o), live, messaging # NoProxy
    PROVE  op[o].mgen # mgen
BY DEF Inv, Stale, Epochs, InFlight

\* The end of a request keeps the invariant.
LEMMA FinishKeeps ==
    ASSUME Inv, NEW o \in Op, Finishes(o)
    PROVE  Inv'
<1>1. PICK r \in OpRecord :
         /\ op' = [op EXCEPT ![o] = r]
         /\ r.phase = "done" /\ r.token = op[o].token /\ r.content = op[o].content
         /\ r.mgen = op[o].mgen /\ r.dispatched = op[o].dispatched
         /\ r.code \notin {"none", "deduplicated"}
         /\ r.code = "ok" /\ r.token # NoToken => r.dispatched
         /\ \/ UNCHANGED <<dedupe, expired, evicted>> /\ (op[o].token = NoToken \/ Stale(o))
            \/ /\ op[o].token # NoToken /\ ~Stale(o)
               /\ \E ok \in BOOLEAN, c \in {"none", "busy", "outcome_unknown"} :
                    Store(o, ok, c) /\ Tells(r, ok, c)
            \/ /\ op[o].token # NoToken /\ Remove(op[o].token)
               /\ op[o].dispatched /\ ~Stale(o) => r.code \in {"refused", "busy"}
  BY DEF Finishes
<1>2. /\ InFlight(o) /\ Free(o) /\ UNCHANGED <<live, mgen, messaging, connected, started>>
      /\ op[o].phase # "unused" /\ op[o].code = "none"
  BY DEF Finishes, InFlight, Inv, Shape
<1>3. op'[o] = r /\ \A q \in Op \ {o} : op'[q] = op[q]
  BY <1>1 DEF Inv, TypeOK
<1>4. kind = "sms" /\ holder = o /\ kind' = "none" /\ holder' = NoOp
  BY <1>2 DEF Inv, SmsLockOwned, Free
<1>5. \A q \in Op \ {o} : ~InFlight(q)
  BY <1>4 DEF Inv, SmsLockOwned
<1>6. \A q \in Op : ~InFlight(q)'
  BY <1>1, <1>3, <1>5 DEF InFlight
<1>7. Len(started) > 0 /\ started[Len(started)] = o /\ Latest(o)
  BY <1>2 DEF Inv, History, Latest
<1>8. op[o].token # NoToken => op'[o].token \in Token
  BY <1>1, <1>3 DEF OpRecord
<1>9. \A n \in 1..Len(dedupe) : dedupe[n].token = op[o].token => dedupe[n].by = o
  BY <1>2 DEF Inv, Recorded
\* The queue.
<1>10. /\ dedupe' \in Seq(Entry) /\ Len(dedupe') <= Capacity
       /\ expired' = expired /\ evicted \subseteq evicted' /\ evicted' \subseteq Op
       /\ Evicts /\ Loses /\ (\E f : QueueFrom(f, o)) /\ Settles
  <2>1. CASE UNCHANGED <<dedupe, expired, evicted>> /\ (op[o].token = NoToken \/ Stale(o))
    <3>1. Settles
      BY <1>2, <1>5, <2>1, StaleIsEarlier DEF Settles
    <3> QED
      BY <2>1, <3>1, QueueIs, QueueAlone DEF Evicts, Inv, TypeOK
  <2>2. CASE /\ op[o].token # NoToken /\ ~Stale(o)
             /\ \E ok \in BOOLEAN, c \in {"none", "busy", "outcome_unknown"} :
                  Store(o, ok, c) /\ Tells(r, ok, c)
    <3>1. PICK ok \in BOOLEAN, c \in {"none", "busy", "outcome_unknown"} :
             Store(o, ok, c) /\ Tells(r, ok, c)
      BY <2>2
    <3>2. op'[o].token \in Token /\ op'[o].content \in Content /\ op'[o].mgen = mgen'
      BY <1>1, <1>2, <1>3, <1>8, <2>2 DEF OpRecord, Stale
    <3>3. ok => op'[o].code = "ok" /\ op'[o].dispatched
      BY <1>1, <1>3, <2>2, <3>1 DEF Tells
    <3>4. \A n \in 1..Len(dedupe) : dedupe[n].token = op'[o].token => dedupe[n].by = o
      BY <1>1, <1>3, <1>9
    <3>5. /\ dedupe' \in Seq(Entry) /\ Len(dedupe') <= Capacity
          /\ expired' = expired /\ evicted \subseteq evicted' /\ evicted' \subseteq Op
          /\ Evicts /\ Loses /\ (\E f : QueueFrom(f, o))
          /\ \E m \in 1..Len(dedupe') : dedupe'[m].by = o
      BY <1>7, <3>1, <3>2, <3>3, <3>4, StoreKeeps
    <3>6. Settles
      BY <1>5, <3>5 DEF Settles
    <3> QED BY <3>5, <3>6
  <2>3. CASE /\ op[o].token # NoToken /\ Remove(op[o].token)
             /\ op[o].dispatched /\ ~Stale(o) => r.code \in {"refused", "busy"}
    <3>0. PICK t : t = op[o].token
      OBVIOUS
    <3>1. dedupe' = Without(dedupe, t) /\ UNCHANGED <<expired, evicted>>
      BY <2>3, <3>0 DEF Remove
    <3>2. /\ dedupe' \in Seq(Entry) /\ Len(dedupe') <= Len(dedupe)
          /\ \A n \in 1..Len(dedupe) :
               dedupe[n].token = t \/ \E m \in 1..Len(dedupe') : dedupe'[m] = dedupe[n]
      BY <3>1, QueueWithout
    <3>3. PICK g : Thinned(dedupe', dedupe, g)
      BY <3>1, QueueWithout
    <3>4. \E f : QueueFrom(f, o)
      BY <3>3, QueueThinned
    <3>5. Loses
      BY <1>2, <1>9, <3>0, <3>2 DEF Loses
    <3>6. Settles
      BY <1>1, <1>2, <1>3, <1>5, <2>3, StaleIsEarlier DEF Settles, Forgotten
    <3>7. Len(dedupe') <= Capacity
      <4>1. Len(dedupe') \in Nat /\ Capacity \in Nat
        BY <3>2, LenProperties, ConstantsAssumption
      <4> QED BY <3>2, <4>1, QueueIs
    <3> QED
      BY <3>1, <3>2, <3>4, <3>5, <3>6, <3>7 DEF Evicts, Inv, TypeOK
  <2> QED BY <1>1, <2>1, <2>2, <2>3
\* The rest.
<1>11. Monotone
  BY <1>1, <1>2, <1>3, <1>10 DEF Monotone
<1>12. Steps
  <2>1. \A q \in Op : op'[q].dispatched => op[q].dispatched
    BY <1>1, <1>3
  <2> QED BY <1>2, <1>6, <1>11, <2>1 DEF Steps, Rests
<1>13. TypeOK'
  <2>1. op' \in [Op -> OpRecord]
    BY <1>1 DEF Inv, TypeOK
  <2> QED
    BY <1>2, <1>4, <1>10, <2>1 DEF Inv, TypeOK
<1>14. \A q \in Op : Shape(op'[q])
  <2>1. Shape(r)
    BY <1>1 DEF Shape
  <2> QED BY <1>3, <2>1 DEF Inv
<1>15. SmsLockOwned'
  BY <1>4, <1>6 DEF SmsLockOwned
<1>16. Epochs'
  BY <1>1, <1>2, <1>3, <1>6 DEF Inv, Epochs
<1>17. DeduplicatedIsTrue'
  BY <1>1, <1>3, <1>11, DeduplicatedKept
<1>18. PICK f : QueueFrom(f, o)
  BY <1>10
<1>19. Recorded' /\ QueueIsCurrent'
  BY <1>2, <1>12, <1>18, RecordedKept, QueueKept
<1>20. Remembered'
  BY <1>2, <1>10, <1>12, RememberedKept
<1> QED
  BY <1>10, <1>12, <1>13, <1>14, <1>15, <1>16, <1>17, <1>19, <1>20, InvFromParts


Failures == Codes \ {"none", "ok", "deduplicated"}

\* What normalize_sms_error says of a dispatched send is unknown or definite.
LEMMA NormalizeIs ==
    ASSUME NEW o, NEW a
    PROVE  /\ Normalize(o, a)[1] \in Failures /\ Normalize(o, a)[2] \in BOOLEAN
           /\ op[o].dispatched /\ ~Stale(o) /\ Normalize(o, a)[1] # "outcome_unknown"
                => Normalize(o, a)[1] \in {"refused", "busy"}
<1>1. StaleCode \in Failures
  BY DEF StaleCode, Failures, Codes
<1>2. Normalize(o, a)[1] \in Failures /\ Normalize(o, a)[2] \in BOOLEAN
  BY <1>1 DEF Normalize, Failures, Codes
<1>3. op[o].dispatched /\ ~Stale(o) /\ Normalize(o, a)[1] # "outcome_unknown"
         => Normalize(o, a)[1] \in {"refused", "busy"}
  BY DEF Normalize
<1> QED BY <1>2, <1>3

\* sms_operation_complete_error ends a request.
LEMMA CompleteErrorFinishes ==
    ASSUME Inv, NEW o \in Op, InFlight(o), NEW c \in Failures, NEW b \in BOOLEAN,
           op[o].dispatched /\ ~Stale(o) /\ c # "outcome_unknown" => c \in {"refused", "busy"},
           CompleteError(o, c, b), UNCHANGED <<live, mgen, messaging, connected, started>>
    PROVE  Finishes(o)
<1> DEFINE r == Completed(op[o], c, b)
<1>1. op[o] \in OpRecord
  BY DEF Inv, TypeOK
<1>2. /\ r \in OpRecord /\ r.phase = "done" /\ r.code = c /\ r.token = op[o].token
      /\ r.content = op[o].content /\ r.mgen = op[o].mgen /\ r.dispatched = op[o].dispatched
  BY <1>1, CompletedIs DEF Failures
<1>3. op' = [op EXCEPT ![o] = r] /\ Free(o)
  BY DEF CompleteError
<1>4. r.code \notin {"none", "deduplicated", "ok"}
  BY <1>2 DEF Failures
<1> HIDE DEF r
<1>5. CASE op[o].token = NoToken
  BY <1>2, <1>3, <1>4, <1>5 DEF CompleteError, Finishes
<1>6. CASE op[o].token # NoToken /\ Remembers(o, c)
  <2>1. Store(o, FALSE, "outcome_unknown") /\ ~Stale(o) /\ c = "outcome_unknown"
    BY <1>6 DEF CompleteError, Remembers
  <2>2. Tells(r, FALSE, "outcome_unknown")
    BY <1>2, <2>1 DEF Tells
  <2> QED
    BY <1>2, <1>3, <1>4, <1>6, <2>1, <2>2 DEF Finishes
<1>7. CASE op[o].token # NoToken /\ ~Remembers(o, c)
  <2>1. Remove(op[o].token)
    BY <1>7 DEF CompleteError
  <2>2. op[o].dispatched /\ ~Stale(o) => r.code \in {"refused", "busy"}
    BY <1>2, <1>7 DEF Remembers
  <2> QED
    BY <1>2, <1>3, <1>4, <1>7, <2>1, <2>2 DEF Finishes
<1> QED
  BY <1>5, <1>6, <1>7

\* So it does with a code of normalize_sms_error.
LEMMA CompleteNormalizedFinishes ==
    ASSUME Inv, NEW o \in Op, InFlight(o), NEW a, CompleteNormalized(o, a),
           UNCHANGED <<live, mgen, messaging, connected, started>>
    PROVE  Finishes(o)
BY NormalizeIs, CompleteErrorFinishes DEF CompleteNormalized

\* Sms.Send is called.
Sends(o) ==
    /\ op[o].phase = "create" /\ ~Stale(o) /\ ~op[o].cancelled
    /\ op' = [op EXCEPT ![o].phase = "send", ![o].dispatched = TRUE, ![o].timedOut = FALSE]
    /\ UNCHANGED <<live, mgen, messaging, kind, holder, dedupe, connected, started, expired,
                   evicted>>

\* sms_create_ready ends the request or calls Sms.Send.
LEMMA CreateReadyEnds ==
    ASSUME Inv, NEW o \in Op, NEW a, NEW admitted \in BOOLEAN, NEW attested \in BOOLEAN,
           CreateReady(o, a, admitted, attested)
    PROVE  Finishes(o) \/ Sends(o)
<1>1. /\ InFlight(o) /\ op[o].phase = "create" /\ ~op[o].dispatched /\ a \in Answers(o)
      /\ UNCHANGED <<live, mgen, messaging, connected, started>>
  BY DEF CreateReady, InFlight, Inv, Shape
<1>2. CASE a # "ok" /\ CompleteNormalized(o, a)
  BY <1>1, <1>2, CompleteNormalizedFinishes
<1>3. CASE \E c \in {StaleCode, "internal_error", "unsupported"} : CompleteError(o, c, FALSE)
  <2>1. {StaleCode, "internal_error", "unsupported"} \subseteq Failures
    BY DEF StaleCode, Failures, Codes
  <2> QED
    BY <1>1, <1>3, <2>1, CompleteErrorFinishes
<1>4. CASE /\ a = "ok" /\ ~Stale(o)
           /\ op' = [op EXCEPT ![o].phase = "send", ![o].dispatched = TRUE,
                               ![o].timedOut = FALSE]
           /\ UNCHANGED <<kind, holder, dedupe, expired, evicted>>
  <2>1. ~op[o].cancelled
    BY <1>1, <1>4 DEF Answers
  <2> QED
    BY <1>1, <1>4, <2>1 DEF Sends
<1> QED
  BY <1>2, <1>3, <1>4 DEF CreateReady

\* sms_send_ready ends the request.
LEMMA SendReadyEnds ==
    ASSUME Inv, NEW o \in Op, NEW a, SendReady(o, a)
    PROVE  Finishes(o)
<1>1. /\ InFlight(o) /\ op[o].phase = "send" /\ op[o].dispatched /\ op[o].token # NoToken
      /\ UNCHANGED <<live, mgen, messaging, connected, started>>
  BY DEF SendReady, InFlight, Inv, Shape
<1>2. CASE a # "ok" /\ CompleteNormalized(o, a)
  BY <1>1, <1>2, CompleteNormalizedFinishes
<1>3. CASE /\ op' = [op EXCEPT ![o] = Completed(@, "ok", FALSE)]
           /\ Free(o)
           /\ IF Stale(o) THEN UNCHANGED <<dedupe, expired, evicted>> ELSE Store(o, TRUE, "none")
  <2> DEFINE r == Completed(op[o], "ok", FALSE)
  <2>1. op[o] \in OpRecord /\ "ok" \in Codes
    BY DEF Inv, TypeOK, Codes
  <2>2. /\ r \in OpRecord /\ r.phase = "done" /\ r.code = "ok" /\ r.token = op[o].token
        /\ r.content = op[o].content /\ r.mgen = op[o].mgen /\ r.dispatched = op[o].dispatched
    BY <2>1, CompletedIs
  <2>3. op' = [op EXCEPT ![o] = r] /\ Free(o)
    BY <1>3
  <2> HIDE DEF r
  <2>4. CASE Stale(o)
    BY <1>1, <1>3, <2>2, <2>3, <2>4 DEF Finishes
  <2>5. CASE ~Stale(o)
    <3>1. Tells(r, TRUE, "none")
      BY <2>2 DEF Tells
    <3> QED BY <1>1, <1>3, <2>2, <2>3, <2>5, <3>1 DEF Finishes
  <2> QED BY <2>4, <2>5
<1> QED
  BY <1>2, <1>3 DEF SendReady

\* sms_delete_ready ends the request.
LEMMA DeleteReadyEnds ==
    ASSUME Inv, NEW o \in Op, NEW a, DeleteReady(o, a)
    PROVE  Finishes(o)
<1>1. /\ InFlight(o) /\ op[o].phase = "delete" /\ op[o].token = NoToken
      /\ UNCHANGED <<live, mgen, messaging, connected, started>>
  BY DEF DeleteReady, InFlight, Inv, Shape
<1>2. CASE a # "ok" /\ CompleteNormalized(o, a)
  BY <1>1, <1>2, CompleteNormalizedFinishes
<1>3. CASE /\ op' = [op EXCEPT ![o] = Completed(@, "ok", FALSE)]
           /\ Free(o)
           /\ UNCHANGED <<dedupe, expired, evicted>>
  <2> DEFINE r == Completed(op[o], "ok", FALSE)
  <2>1. op[o] \in OpRecord /\ "ok" \in Codes
    BY DEF Inv, TypeOK, Codes
  <2>2. /\ r \in OpRecord /\ r.phase = "done" /\ r.code = "ok" /\ r.token = op[o].token
        /\ r.content = op[o].content /\ r.mgen = op[o].mgen /\ r.dispatched = op[o].dispatched
    BY <2>1, CompletedIs
  <2>3. op' = [op EXCEPT ![o] = r] /\ Free(o)
    BY <1>3
  <2> HIDE DEF r
  <2> QED
    BY <1>1, <1>3, <2>2, <2>3 DEF Finishes
<1> QED
  BY <1>2, <1>3 DEF DeleteReady


\* A step that leaves the queue, the history and the epoch alone and ends
\* no request.
LEMMA QuietKeeps ==
    ASSUME Inv, TypeOK', \A q \in Op : Shape(op'[q]), SmsLockOwned', Epochs',
           DeduplicatedIsTrue', Monotone, Rests, \A q \in Op : InFlight(q) => InFlight(q)',
           UNCHANGED <<mgen, messaging, dedupe, expired, evicted>>, live' => live
    PROVE  Inv'
<1>1. Steps /\ Evicts
  BY DEF Steps, Evicts
<1>2. Settles
  BY DEF Settles
<1>3. Recorded' /\ QueueIsCurrent'
  <2>1. CASE Op = {}
    <3>1. Len(dedupe) \in Nat /\ \A n \in 1..Len(dedupe) : FALSE
      BY <2>1, QueueIs
    <3> QED BY <3>1 DEF Recorded, QueueIsCurrent
  <2>2. ASSUME NEW o \in Op
        PROVE  Recorded' /\ QueueIsCurrent'
    <3>1. PICK f : QueueFrom(f, o)
      BY QueueAlone
    <3> QED BY <1>1, <3>1, RecordedKept, QueueKept
  <2> QED BY <2>1, <2>2
<1>4. Remembered'
  BY <1>1, <1>2, QueueAlone, RememberedKept
<1> QED
  BY <1>1, <1>3, <1>4, InvFromParts

\* The call of Sms.Send keeps the invariant.
LEMMA SendKeeps ==
    ASSUME Inv, NEW o \in Op, Sends(o)
    PROVE  Inv'
<1>1. /\ op[o] \in OpRecord /\ InFlight(o) /\ op[o].token # NoToken /\ op[o].code = "none"
      /\ ~op[o].timedOut /\ ~op[o].lost
  BY DEF Sends, Inv, TypeOK, InFlight, Shape
<1> DEFINE r == [op[o] EXCEPT !.phase = "send", !.dispatched = TRUE, !.timedOut = FALSE]
<1>2. op' = [op EXCEPT ![o] = r]
  BY DEF Sends
<1>3. r \in OpRecord
  BY <1>1 DEF OpRecord
<1>4. /\ r.phase = "send" /\ r.token = op[o].token /\ r.content = op[o].content
      /\ r.mgen = op[o].mgen /\ r.messaging = op[o].messaging /\ r.code = op[o].code
      /\ r.dispatched /\ ~r.timedOut /\ r.lost = op[o].lost /\ r.cancelled = op[o].cancelled
  BY <1>1 DEF OpRecord
<1> HIDE DEF r
<1>5. op'[o] = r /\ \A q \in Op \ {o} : op'[q] = op[q]
  BY <1>2 DEF Inv, TypeOK
<1>6. \A q \in Op : InFlight(q)' <=> InFlight(q)
  BY <1>1, <1>4, <1>5 DEF InFlight
<1>7. UNCHANGED <<live, mgen, messaging, kind, holder, dedupe, connected, started, expired,
                  evicted>>
  BY DEF Sends
<1>8. Monotone
  BY <1>4, <1>5, <1>7 DEF Monotone
<1>9. Rests
  BY <1>1, <1>5, <1>6, <1>7 DEF Rests
<1>10. TypeOK'
  <2>1. op' \in [Op -> OpRecord]
    BY <1>2, <1>3 DEF Inv, TypeOK
  <2> QED BY <1>7, <2>1 DEF Inv, TypeOK
<1>11. \A q \in Op : Shape(op'[q])
  <2>1. Shape(r)
    BY <1>1, <1>4 DEF Shape
  <2> QED BY <1>5, <2>1 DEF Inv
<1>12. SmsLockOwned'
  BY <1>6, <1>7 DEF Inv, SmsLockOwned
<1>13. Epochs'
  <2>1. \A q \in Op : /\ op'[q].phase # "unused" => op[q].phase # "unused"
                      /\ op'[q].mgen = op[q].mgen /\ op'[q].messaging = op[q].messaging
    BY <1>1, <1>4, <1>5 DEF InFlight
  <2> QED BY <1>6, <1>7, <2>1 DEF Inv, Epochs
<1>14. DeduplicatedIsTrue'
  BY <1>4, <1>5, <1>8, DeduplicatedKept
<1> QED
  BY <1>6, <1>7, <1>8, <1>9, <1>10, <1>11, <1>12, <1>13, <1>14, QuietKeeps

\* A request is told to stop: its flags change, nothing else.
Flagged ==
    /\ op' \in [Op -> OpRecord]
    /\ \A q \in Op :
         /\ op'[q].phase = op[q].phase /\ op'[q].token = op[q].token
         /\ op'[q].content = op[q].content /\ op'[q].mgen = op[q].mgen
         /\ op'[q].messaging = op[q].messaging /\ op'[q].dispatched = op[q].dispatched
         /\ op'[q].code = op[q].code
         /\ Shape(op'[q])
    /\ started' = started /\ expired \subseteq expired' /\ evicted' = evicted

\* A step that only raises flags accepts, ends and evicts nothing.
LEMMA FlaggedIs ==
    ASSUME Inv, Flagged
    PROVE  /\ Steps /\ Monotone /\ Rests /\ Evicts /\ Settles /\ DeduplicatedIsTrue'
           /\ \A q \in Op : InFlight(q)' <=> InFlight(q)
<1>1. \A q \in Op : InFlight(q)' <=> InFlight(q)
  BY DEF Flagged, InFlight
<1>2. Monotone
  BY DEF Flagged, Monotone
<1>3. Rests
  BY <1>1 DEF Flagged, Rests
<1>4. Evicts /\ Settles
  BY <1>1 DEF Flagged, Evicts, Settles
<1>5. DeduplicatedIsTrue'
  BY <1>2, DeduplicatedKept DEF Flagged
<1> QED
  BY <1>1, <1>2, <1>3, <1>4, <1>5 DEF Steps

\* Such a step keeps the invariant if it leaves the queue alone.
LEMMA FlaggedKeeps ==
    ASSUME Inv, Flagged, UNCHANGED <<mgen, messaging, dedupe, expired>>,
           live' \in BOOLEAN, live' => live, connected' \in BOOLEAN,
           kind' \in {"none", "sms", "other"}, holder' = holder,
           kind' = "sms" <=> kind = "sms"
    PROVE  Inv'
<1>1. TypeOK'
  BY DEF Inv, TypeOK, Flagged
<1>2. SmsLockOwned'
  BY FlaggedIs DEF Inv, SmsLockOwned
<1>3. Epochs'
  BY FlaggedIs DEF Inv, Epochs, Flagged
<1>4. \A q \in Op : Shape(op'[q])
  BY DEF Flagged
<1> QED
  BY <1>1, <1>2, <1>3, <1>4, FlaggedIs, QuietKeeps DEF Flagged

\* A flag that is raised with the cancellable leaves a request in shape.
LEMMA CancelledShape ==
    ASSUME NEW r \in OpRecord, Shape(r), NEW s \in OpRecord, s.cancelled,
           s.phase = r.phase, s.token = r.token, s.dispatched = r.dispatched, s.code = r.code
    PROVE  Shape(s)
BY DEF Shape

\* Cancelling the modem's cancellable only raises a flag.
LEMMA HolderCancelledFlags ==
    ASSUME Inv, op' = HolderCancelled, UNCHANGED <<started, expired, evicted>>
    PROVE  Flagged
<1>1. ASSUME NEW q \in Op
      PROVE  /\ op'[q] \in OpRecord
             /\ op'[q].phase = op[q].phase /\ op'[q].token = op[q].token
             /\ op'[q].content = op[q].content /\ op'[q].mgen = op[q].mgen
             /\ op'[q].messaging = op[q].messaging /\ op'[q].dispatched = op[q].dispatched
             /\ op'[q].code = op[q].code
             /\ Shape(op'[q])
  <2>1. op[q] \in OpRecord /\ Shape(op[q])
    BY DEF Inv, TypeOK
  <2> DEFINE s == [op[q] EXCEPT !.cancelled = TRUE]
  <2>2. /\ s \in OpRecord /\ s.cancelled
        /\ s.phase = op[q].phase /\ s.token = op[q].token
        /\ s.content = op[q].content /\ s.mgen = op[q].mgen
        /\ s.messaging = op[q].messaging /\ s.dispatched = op[q].dispatched
        /\ s.code = op[q].code
    BY <2>1 DEF OpRecord
  <2>3. op'[q] = s \/ op'[q] = op[q]
    BY DEF HolderCancelled
  <2> HIDE DEF s
  <2>4. Shape(s)
    BY <2>1, <2>2, CancelledShape
  <2> QED BY <2>1, <2>2, <2>3, <2>4
<1>2. op' \in [Op -> OpRecord]
  <2>1. op' = [q \in Op |-> op'[q]]
    BY DEF HolderCancelled
  <2> QED BY <1>1, <2>1
<1> QED
  BY <1>1, <1>2 DEF Flagged

\* The timer of an operation keeps the invariant.
LEMMA TimeoutKeeps ==
    ASSUME Inv, NEW o \in Op, OperationTimeout(o)
    PROVE  Inv'
<1>1. op[o] \in OpRecord /\ Shape(op[o])
  BY DEF Inv, TypeOK
<1> DEFINE s == [op[o] EXCEPT !.timedOut = TRUE, !.cancelled = TRUE]
<1>2. /\ s \in OpRecord /\ s.cancelled
      /\ s.phase = op[o].phase /\ s.token = op[o].token
      /\ s.content = op[o].content /\ s.mgen = op[o].mgen
      /\ s.messaging = op[o].messaging /\ s.dispatched = op[o].dispatched
      /\ s.code = op[o].code
  BY <1>1 DEF OpRecord
<1>3. op' = [op EXCEPT ![o] = s]
  BY DEF OperationTimeout
<1> HIDE DEF s
<1>4. Shape(s)
  BY <1>1, <1>2, CancelledShape
<1>5. op' \in [Op -> OpRecord] /\ op'[o] = s /\ \A q \in Op \ {o} : op'[q] = op[q]
  BY <1>2, <1>3 DEF Inv, TypeOK
<1>6. Flagged
  BY <1>2, <1>4, <1>5 DEF Flagged, OperationTimeout, Inv
<1> QED
  BY <1>6, FlaggedKeeps DEF OperationTimeout, Inv, TypeOK

\* So does the loss of the ubus connection,
LEMMA ConnectionLostKeeps ==
    ASSUME Inv, ConnectionLost
    PROVE  Inv'
<1>1. ASSUME NEW q \in Op
      PROVE  /\ op'[q] \in OpRecord
             /\ op'[q].phase = op[q].phase /\ op'[q].token = op[q].token
             /\ op'[q].content = op[q].content /\ op'[q].mgen = op[q].mgen
             /\ op'[q].messaging = op[q].messaging /\ op'[q].dispatched = op[q].dispatched
             /\ op'[q].code = op[q].code
             /\ Shape(op'[q])
  <2>1. op[q] \in OpRecord /\ Shape(op[q])
    BY DEF Inv, TypeOK
  <2> DEFINE s == [op[q] EXCEPT !.lost = TRUE, !.cancelled = TRUE]
  <2>2. /\ s \in OpRecord /\ s.cancelled
        /\ s.phase = op[q].phase /\ s.token = op[q].token
        /\ s.content = op[q].content /\ s.mgen = op[q].mgen
        /\ s.messaging = op[q].messaging /\ s.dispatched = op[q].dispatched
        /\ s.code = op[q].code
    BY <2>1 DEF OpRecord
  <2>3. op'[q] = s \/ op'[q] = op[q]
    BY DEF ConnectionLost
  <2> HIDE DEF s
  <2>4. Shape(s)
    BY <2>1, <2>2, CancelledShape
  <2> QED BY <2>1, <2>2, <2>3, <2>4
<1>2. op' \in [Op -> OpRecord]
  <2>1. op' = [q \in Op |-> op'[q]]
    BY DEF ConnectionLost
  <2> QED BY <1>1, <2>1
<1>3. Flagged
  BY <1>1, <1>2 DEF Flagged, ConnectionLost
<1> QED
  BY <1>3, FlaggedKeeps DEF ConnectionLost, Inv, TypeOK

\* the removal of the modem,
LEMMA RemovedKeeps ==
    ASSUME Inv, ModemRemoved
    PROVE  Inv'
<1>1. Flagged
  BY HolderCancelledFlags DEF ModemRemoved
<1> QED
  BY <1>1, FlaggedKeeps DEF ModemRemoved, Inv, TypeOK

\* and what does not concern SMS.
LEMMA OthersKeep ==
    ASSUME Inv, Reconnect \/ OtherMutation
    PROVE  Inv'
<1>1. UNCHANGED <<live, mgen, messaging, holder, dedupe, op, started, expired, evicted>>
  BY DEF Reconnect, OtherMutation
<1>2. Flagged
  BY <1>1 DEF Flagged, Inv, TypeOK
<1>3. kind' \in {"none", "sms", "other"} /\ (kind' = "sms" <=> kind = "sms")
  BY DEF Reconnect, OtherMutation, Inv, TypeOK
<1>4. connected' \in BOOLEAN
  BY DEF Reconnect, OtherMutation, Inv, TypeOK
<1> QED
  BY <1>1, <1>2, <1>3, <1>4, FlaggedKeeps DEF Inv, TypeOK


\* A new epoch starts with an empty queue.
LEMMA EpochKeeps ==
    ASSUME Inv, NEW p \in Proxy \cup {NoProxy}, NEW force \in BOOLEAN, MessagingChanged(p, force)
    PROVE  Inv'
<1>1. Flagged
  BY HolderCancelledFlags DEF MessagingChanged
<1>2. /\ dedupe' = <<>> /\ UNCHANGED <<live, kind, holder, connected, started, expired, evicted>>
      /\ mgen \in 0..MaxEpoch /\ MaxEpoch \in Nat
      /\ \/ mgen' = mgen /\ messaging' = NoProxy
         \/ mgen # MaxEpoch /\ mgen' = mgen + 1 /\ messaging' = p
  BY ConstantsAssumption DEF MessagingChanged, Inv, TypeOK
<1>3. Len(dedupe') = 0 /\ dedupe' \in Seq(Entry)
  BY <1>2, EmptySeq
<1>4. TypeOK'
  <2>1. mgen' \in 0..MaxEpoch
    BY <1>2
  <2>2. messaging' \in Proxy \cup {NoProxy}
    BY <1>2
  <2>3. Len(dedupe') <= Capacity
    BY <1>3, ConstantsAssumption
  <2> QED
    BY <1>1, <1>2, <1>3, <2>1, <2>2, <2>3 DEF Inv, TypeOK, Flagged
<1>5. SmsLockOwned'
  BY <1>1, <1>2, FlaggedIs DEF Inv, SmsLockOwned
<1>6. Epochs'
  <2> SUFFICES ASSUME NEW o \in Op, op'[o].phase # "unused"
               PROVE  /\ op'[o].mgen <= mgen'
                      /\ InFlight(o)' /\ op'[o].mgen = mgen'
                           => messaging' \in {op'[o].messaging, NoProxy}
    BY DEF Epochs
  <2>1. op'[o].mgen = op[o].mgen /\ op[o].mgen <= mgen /\ op[o].mgen \in 0..MaxEpoch
    BY <1>1 DEF Flagged, Inv, Epochs, TypeOK, OpRecord
  <2> QED
    BY <1>2, <2>1
<1>7. Recorded' /\ QueueIsCurrent'
  BY <1>3 DEF Recorded, QueueIsCurrent
<1>8. Remembered'
  <2>1. CASE messaging' = NoProxy
    BY <2>1 DEF Remembered
  <2>2. CASE mgen' = mgen + 1
    <3>1. \A i \in 1..Len(started) : op'[started[i]].mgen # mgen'
      <4> SUFFICES ASSUME NEW i \in 1..Len(started)
                   PROVE  op'[started[i]].mgen # mgen'
        OBVIOUS
      <4>1. started[i] \in Op /\ op[started[i]].phase # "unused"
        BY StartedIs DEF Inv, History
      <4>2. /\ op'[started[i]].mgen = op[started[i]].mgen
            /\ op[started[i]].mgen <= mgen /\ op[started[i]].mgen \in 0..MaxEpoch
        BY <1>1, <4>1 DEF Flagged, Inv, Epochs, TypeOK, OpRecord
      <4> QED BY <1>2, <2>2, <4>2
    <3> QED BY <1>2, <3>1 DEF Remembered
  <2> QED BY <1>2, <2>1, <2>2
<1>9. \A q \in Op : Shape(op'[q])
  BY <1>1 DEF Flagged
<1> QED
  BY <1>1, <1>4, <1>5, <1>6, <1>7, <1>8, <1>9, FlaggedIs, InvFromParts

\* An entry that expires is forgotten on record.
LEMMA ExpiryKeeps ==
    ASSUME Inv, NEW t \in Token, EntryExpires(t)
    PROVE  Inv'
<1>1. /\ UNCHANGED <<live, mgen, messaging, kind, holder, op, connected, started, evicted>>
      /\ dedupe' = Without(dedupe, t) /\ Find(dedupe, t) # {}
      /\ expired' = expired \cup {dedupe[i].by : i \in Find(dedupe, t)}
  BY DEF EntryExpires
<1>2. PICK k \in 1..Len(dedupe) : dedupe[k].token = t
  BY <1>1 DEF Find
<1>3. dedupe[k].by \in Op
  BY QueueIs
<1>4. expired' \subseteq Op
  BY <1>1, QueueIs DEF Find, Inv, TypeOK
<1>5. Flagged
  BY <1>1 DEF Flagged, Inv, TypeOK
<1>0. dedupe' = Without(dedupe, t)
  BY DEF EntryExpires
<1>6. /\ dedupe' \in Seq(Entry) /\ Len(dedupe') <= Len(dedupe)
      /\ \A n \in 1..Len(dedupe) :
           dedupe[n].token = t \/ \E m \in 1..Len(dedupe') : dedupe'[m] = dedupe[n]
  BY <1>0, QueueWithout
<1>7. PICK g : Thinned(dedupe', dedupe, g)
  BY <1>1, QueueWithout
<1>8. PICK f : QueueFrom(f, dedupe[k].by)
  BY <1>7, QueueThinned
<1>9. Recorded' /\ QueueIsCurrent'
  BY <1>1, <1>3, <1>5, <1>8, FlaggedIs, RecordedKept, QueueKept
<1>10. Loses
  BY <1>1, <1>6 DEF Loses, Find
<1>11. Remembered'
  BY <1>1, <1>5, <1>10, FlaggedIs, RememberedKept
<1>12. TypeOK'
  <2>1. Len(dedupe') <= Capacity
    <3>1. Len(dedupe') \in Nat /\ Capacity \in Nat
      BY <1>6, LenProperties, ConstantsAssumption
    <3> QED BY <1>6, <3>1, QueueIs
  <2> QED BY <1>1, <1>4, <1>6, <2>1 DEF Inv, TypeOK
<1>13. SmsLockOwned' /\ Epochs' /\ \A q \in Op : Shape(op'[q])
  BY <1>1 DEF Inv, SmsLockOwned, Epochs, InFlight
<1> QED
  BY <1>5, <1>9, <1>11, <1>12, <1>13, FlaggedIs, InvFromParts

\* An answer from the queue.
LEMMA CachedKeeps ==
    ASSUME Inv, NEW o \in Op, NEW t \in Token, NEW c \in Content, SendCached(o, t, c)
    PROVE  Inv'
<1>1. /\ Admissible(o) /\ op[o].phase = "unused"
      /\ UNCHANGED <<live, mgen, messaging, kind, holder, dedupe, connected, started, expired,
                     evicted>>
  BY DEF SendCached, Admissible
<1> DEFINE n == NewOp("unused", t, c)
<1>2. PICK i \in Find(dedupe, t) :
         \/ dedupe[i].content = c /\ dedupe[i].ok
            /\ op' = [op EXCEPT ![o] = Completed(n, "deduplicated", FALSE)]
         \/ op' = [op EXCEPT ![o] = Completed(n, "invalid_argument", FALSE)]
         \/ op' = [op EXCEPT ![o] = Completed(n, "cached", dedupe[i].code = "busy")]
  BY DEF SendCached
<1>3. i \in 1..Len(dedupe) /\ dedupe[i].token = t
  BY DEF Find
<1>4. /\ n \in OpRecord /\ n.token = t /\ n.content = c /\ n.mgen = mgen /\ ~n.dispatched
  BY NewOpIs DEF Inv
<1> HIDE DEF n
<1>5. PICK r \in OpRecord :
         /\ op' = [op EXCEPT ![o] = r] /\ r.phase = "done" /\ r.token = t /\ r.content = c
         /\ r.mgen = mgen /\ ~r.dispatched /\ r.code # "ok"
         /\ r.code = "deduplicated" => dedupe[i].content = c /\ dedupe[i].ok
  <2>1. {"deduplicated", "invalid_argument", "cached"} \subseteq Codes
    BY DEF Codes
  <2>2. \A d \in {"deduplicated", "invalid_argument", "cached"}, b \in BOOLEAN :
           /\ Completed(n, d, b) \in OpRecord
           /\ Completed(n, d, b).phase = "done" /\ Completed(n, d, b).code = d
           /\ Completed(n, d, b).token = t /\ Completed(n, d, b).content = c
           /\ Completed(n, d, b).mgen = mgen
           /\ ~Completed(n, d, b).dispatched
    BY <1>4, <2>1, CompletedIs
  <2>3. (dedupe[i].code = "busy") \in BOOLEAN
    OBVIOUS
  <2> QED BY <1>2, <2>2, <2>3
<1>6. op'[o] = r /\ \A q \in Op \ {o} : op'[q] = op[q]
  BY <1>5 DEF Inv, TypeOK
<1>7. \A q \in Op : InFlight(q)' <=> InFlight(q)
  BY <1>1, <1>5, <1>6 DEF InFlight
<1>8. Monotone
  BY <1>1, <1>6 DEF Monotone
<1>9. Rests
  BY <1>1, <1>5, <1>6, <1>7 DEF Rests
<1>10. TypeOK'
  <2>1. op' \in [Op -> OpRecord]
    BY <1>5 DEF Inv, TypeOK
  <2> QED BY <1>1, <2>1 DEF Inv, TypeOK
<1>11. \A q \in Op : Shape(op'[q])
  <2>1. Shape(r)
    BY <1>5 DEF Shape
  <2> QED BY <1>6, <2>1 DEF Inv
<1>12. SmsLockOwned'
  BY <1>1, <1>7 DEF Inv, SmsLockOwned
<1>13. Epochs'
  <2>1. mgen \in Nat
    BY ConstantsAssumption DEF Inv, TypeOK
  <2>2. ~InFlight(o)'
    BY <1>5, <1>6 DEF InFlight
  <2> QED BY <1>1, <1>5, <1>6, <1>7, <2>1, <2>2 DEF Inv, Epochs
<1>14. DeduplicatedIsTrue'
  <2> SUFFICES ASSUME NEW q \in Op, op'[q].code = "deduplicated"
               PROVE  \E p \in Op : /\ op'[p].code = "ok" /\ op'[p].dispatched
                                    /\ op'[p].token = op'[q].token
                                    /\ op'[p].content = op'[q].content
                                    /\ op'[p].mgen = op'[q].mgen
    BY DEF DeduplicatedIsTrue
  <2>1. CASE q = o
    <3>1. PICK p \in Op : p = dedupe[i].by
      BY <1>3, QueueIs
    <3>2. /\ op[p].code = "ok" /\ op[p].dispatched /\ op[p].token = t /\ op[p].content = c
      BY <1>3, <1>5, <1>6, <2>1, <3>1 DEF Inv, Recorded
    <3>3. op[p].mgen = mgen /\ p # o
      BY <1>1, <1>3, <3>1, QueueIs
    <3> QED BY <1>5, <1>6, <2>1, <3>2, <3>3
  <2>2. CASE q # o
    <3>1. PICK p \in Op : /\ op[p].code = "ok" /\ op[p].dispatched
                          /\ op[p].token = op[q].token /\ op[p].content = op[q].content
                          /\ op[p].mgen = op[q].mgen
      BY <1>6, <2>2 DEF Inv, DeduplicatedIsTrue
    <3>2. p # o
      BY <1>1, <3>1 DEF Inv, Shape
    <3> QED BY <1>6, <2>2, <3>1, <3>2
  <2> QED BY <2>1, <2>2
<1> QED
  BY <1>1, <1>7, <1>8, <1>9, <1>10, <1>11, <1>12, <1>13, <1>14, QuietKeeps


\* A request is accepted, whatever becomes of the queue.
LEMMA AcceptKeeps ==
    ASSUME Inv, NEW o \in Op, Accepts(o), NEW r \in OpRecord, op' = [op EXCEPT ![o] = r],
           Shape(r), r.code \notin {"ok", "deduplicated"},
           \/ r.phase \in {"create", "delete"} /\ kind' = "sms" /\ holder' = o
           \/ r.phase = "done" /\ UNCHANGED <<kind, holder>>,
           r.phase # "done" => r.messaging = messaging,
           dedupe' \in Seq(Entry), Len(dedupe') <= Capacity, expired' = expired,
           evicted \subseteq evicted', evicted' \subseteq Op,
           Evicts, Loses, \E f : QueueFrom(f, o)
    PROVE  Inv'
<1>1. /\ op[o].phase = "unused" /\ kind = "none" /\ r.mgen = mgen
      /\ started' = Append(started, o) /\ UNCHANGED <<live, mgen, messaging, connected>>
  BY DEF Accepts, Admissible, MayMutate, Inv, TypeOK
<1>2. op'[o] = r /\ \A q \in Op \ {o} : op'[q] = op[q]
  BY DEF Inv, TypeOK
<1>3. \A q \in Op : ~InFlight(q)
  BY AcceptsAlone
<1>4. \A q \in Op : InFlight(q)' => q = o
  BY AcceptsAlone
<1>5. Monotone
  BY <1>1, <1>2 DEF Monotone
<1>6. Steps
  BY <1>5 DEF Steps
<1>7. TypeOK'
  <2>1. op' \in [Op -> OpRecord]
    BY DEF Inv, TypeOK
  <2>2. started' \in Seq(Op)
    BY <1>1, StartedIs DEF Inv
  <2> QED BY <1>1, <2>1, <2>2 DEF Inv, TypeOK
<1>8. \A q \in Op : Shape(op'[q])
  BY <1>2 DEF Inv
<1>9. SmsLockOwned'
  <2>1. InFlight(o)' <=> r.phase # "done"
    BY <1>2 DEF InFlight
  <2> QED BY <1>1, <1>4, <2>1 DEF SmsLockOwned
<1>10. Epochs'
  <2>1. mgen \in Nat
    BY ConstantsAssumption DEF Inv, TypeOK
  <2>2. InFlight(o)' => r.messaging = messaging
    BY <1>2 DEF InFlight
  <2> QED BY <1>1, <1>2, <1>4, <2>1, <2>2 DEF Inv, Epochs
<1>11. DeduplicatedIsTrue'
  BY <1>2, <1>5, DeduplicatedKept
<1>12. PICK f : QueueFrom(f, o)
  OBVIOUS
<1>13. Recorded' /\ QueueIsCurrent'
  BY <1>1, <1>6, <1>12, RecordedKept, QueueKept
<1>14. Settles
  BY <1>3 DEF Settles
<1>15. Remembered'
  BY <1>1, <1>6, <1>14, RememberedKept
<1> QED
  BY <1>6, <1>7, <1>8, <1>9, <1>10, <1>11, <1>13, <1>15, InvFromParts

\* The request accepted is the last one.
LEMMA AcceptedIsLatest ==
    ASSUME Inv, NEW o \in Op, started' = Append(started, o)
    PROVE  Latest(o)
<1>1. Len(started) \in Nat /\ Len(started') = Len(started) + 1 /\ started'[Len(started) + 1] = o
  BY StartedIs DEF Inv
<1> QED
  BY <1>1 DEF Latest

\* A new token is stored as busy while its request is in flight.
LEMMA StartKeeps ==
    ASSUME Inv, NEW o \in Op, NEW t \in Token, NEW c \in Content, SendStarts(o, t, c)
    PROVE  Inv'
<1> DEFINE r == NewOp("create", t, c)
<1>1. /\ r \in OpRecord /\ r.phase = "create" /\ r.token = t /\ r.content = c /\ r.mgen = mgen
      /\ r.messaging = messaging /\ r.code = "none" /\ ~r.timedOut /\ ~r.lost
      /\ ~r.dispatched
  BY NewOpIs DEF Inv
<1>2. /\ Admissible(o) /\ MayMutate /\ Find(dedupe, t) = {}
      /\ op' = [op EXCEPT ![o] = r]
      /\ kind' = "sms" /\ holder' = o /\ Store(o, FALSE, "busy")
      /\ started' = Append(started, o) /\ UNCHANGED <<live, mgen, messaging, connected>>
  BY DEF SendStarts
<1> HIDE DEF r
<1>3. op'[o] = r /\ \A q \in Op \ {o} : op'[q] = op[q]
  BY <1>2 DEF Inv, TypeOK
<1>4. Accepts(o)
  BY <1>1, <1>2, <1>3 DEF Accepts
<1>5. Latest(o)
  BY <1>2, AcceptedIsLatest
<1>6. \A n \in 1..Len(dedupe) : dedupe[n].token # op'[o].token
  BY <1>1, <1>2, <1>3 DEF Find
<1>7. op'[o].token \in Token /\ op'[o].content \in Content /\ op'[o].mgen = mgen'
  BY <1>1, <1>2, <1>3
<1>8. /\ dedupe' \in Seq(Entry) /\ Len(dedupe') <= Capacity
      /\ expired' = expired /\ evicted \subseteq evicted' /\ evicted' \subseteq Op
      /\ Evicts /\ Loses /\ \E f : QueueFrom(f, o)
  BY <1>2, <1>5, <1>6, <1>7, StoreKeeps
<1>9. Shape(r)
  BY <1>1, ConstantsAssumption DEF Shape
<1>10. /\ r.phase \in {"create", "delete"} /\ kind' = "sms" /\ holder' = o
       /\ op' = [op EXCEPT ![o] = r] /\ r.messaging = messaging
       /\ r.code \notin {"ok", "deduplicated"}
  BY <1>1, <1>2
<1> QED
  BY <1>1, <1>4, <1>8, <1>9, <1>10, AcceptKeeps

\* A request that fails its attestation has evicted an entry for nothing.
LEMMA UnattestedKeeps ==
    ASSUME Inv, NEW o \in Op, NEW t \in Token, NEW c \in Content, SendUnattested(o, t, c)
    PROVE  Inv'
<1> DEFINE s == NewOp("create", t, c)
           r == Completed(s, "unsupported", FALSE)
<1>1. s \in OpRecord /\ s.token = t /\ s.content = c /\ s.mgen = mgen /\ ~s.dispatched
  BY NewOpIs DEF Inv
<1>2. /\ Admissible(o) /\ MayMutate /\ Find(dedupe, t) = {}
      /\ op' = [op EXCEPT ![o] = r]
      /\ dedupe' = Evict(dedupe) /\ evicted' = evicted \cup EvictedBy(dedupe)
      /\ started' = Append(started, o)
      /\ UNCHANGED <<live, mgen, messaging, kind, holder, connected, expired>>
  BY DEF SendUnattested
<1> HIDE DEF s
<1>3. "unsupported" \in Codes
  BY DEF Codes
<1>4. /\ r \in OpRecord /\ r.phase = "done" /\ r.token = t /\ r.content = c /\ r.mgen = mgen
      /\ r.code = "unsupported" /\ ~r.dispatched
  BY ZenonT(120), <1>1, <1>3, CompletedIs
<1> HIDE DEF r
<1>5. op'[o] = r /\ \A q \in Op \ {o} : op'[q] = op[q]
  BY <1>2 DEF Inv, TypeOK
<1>6. Accepts(o)
  BY <1>2, <1>4, <1>5 DEF Accepts
<1>7. Latest(o)
  BY <1>2, AcceptedIsLatest
<1>8. /\ dedupe' \in Seq(Entry) /\ Len(dedupe') < Capacity
      /\ \A n \in 1..Len(dedupe) :
           \/ dedupe[n].by \in EvictedBy(dedupe)
           \/ \E m \in 1..Len(dedupe') : dedupe'[m] = dedupe[n]
      /\ \A p \in EvictedBy(dedupe) : Len(dedupe) = Capacity /\ p = dedupe[1].by
  BY <1>2, QueueIs, EvictThins
<1>9. Len(dedupe') <= Capacity
  <2>1. Len(dedupe') \in Nat /\ Capacity \in Nat
    BY <1>8, LenProperties, ConstantsAssumption
  <2> QED BY <1>8, <2>1
<1>10. PICK g : Thinned(dedupe', dedupe, g)
  BY <1>2, QueueIs, EvictThins
<1>11. \E f : QueueFrom(f, o)
  BY <1>10, QueueThinned
<1>12. evicted' \subseteq Op
  <2>1. 1 \in 1..Capacity
    BY ConstantsAssumption
  <2>2. \A p \in EvictedBy(dedupe) : p \in Op
    BY <1>8, <2>1, QueueIs
  <2>3. evicted \subseteq Op
    BY DEF Inv, TypeOK
  <2> QED BY <1>2, <2>2, <2>3
<1>13. Evicts
  BY <1>2, <1>4, <1>5, <1>7 DEF Evicts
<1>14. Loses
  BY <1>2, <1>8 DEF Loses
<1>15. Shape(r)
  BY <1>4 DEF Shape
<1> QED
  BY <1>2, <1>4, <1>6, <1>8, <1>9, <1>11, <1>12, <1>13, <1>14, <1>15, AcceptKeeps

\* A delete request does not touch the queue.
LEMMA DeleteKeeps ==
    ASSUME Inv, NEW o \in Op, NEW attested \in BOOLEAN, DeleteSms(o, attested)
    PROVE  Inv'
<1> DEFINE s == NewOp("delete", NoToken, op[o].content)
           d == Completed(s, "unsupported", FALSE)
<1>1. op[o].content \in Content
  BY DEF Inv, TypeOK, OpRecord
<1>2. /\ s \in OpRecord /\ s.phase = "delete" /\ s.token = NoToken /\ s.mgen = mgen
      /\ s.messaging = messaging /\ s.code = "none" /\ ~s.timedOut /\ ~s.lost
      /\ ~s.dispatched
  BY <1>1, NewOpIs DEF Inv
<1>3. /\ Admissible(o) /\ MayMutate
      /\ \/ op' = [op EXCEPT ![o] = s] /\ kind' = "sms" /\ holder' = o
         \/ op' = [op EXCEPT ![o] = d] /\ UNCHANGED <<kind, holder>>
      /\ started' = Append(started, o)
      /\ UNCHANGED <<live, mgen, messaging, dedupe, connected, expired, evicted>>
  BY DEF DeleteSms
<1> HIDE DEF s
<1>4. "unsupported" \in Codes
  BY DEF Codes
<1>5. /\ d \in OpRecord /\ d.phase = "done" /\ d.token = NoToken /\ d.mgen = mgen
      /\ d.code = "unsupported" /\ ~d.dispatched
  <2>1. /\ d \in OpRecord /\ d.phase = "done" /\ d.code = "unsupported"
        /\ d.token = s.token /\ d.mgen = s.mgen /\ d.dispatched = s.dispatched
    BY <1>2, <1>4, CompletedIs
  <2> QED BY <1>2, <2>1
<1> HIDE DEF d
<1>6. PICK r \in OpRecord :
         /\ op' = [op EXCEPT ![o] = r] /\ r.token = NoToken /\ r.mgen = mgen
         /\ r.code \in {"none", "unsupported"} /\ ~r.dispatched /\ Shape(r)
         /\ \/ r.phase \in {"create", "delete"} /\ kind' = "sms" /\ holder' = o
            \/ r.phase = "done" /\ UNCHANGED <<kind, holder>>
         /\ r.phase # "done" => r.messaging = messaging
  <2>1. Shape(s)
    BY <1>2 DEF Shape
  <2>2. Shape(d)
    BY <1>5 DEF Shape
  <2> QED BY <1>2, <1>3, <1>5, <2>1, <2>2
<1>7. op'[o] = r /\ \A q \in Op \ {o} : op'[q] = op[q]
  BY <1>6 DEF Inv, TypeOK
<1>8. Find(dedupe, NoToken) = {}
  BY QueueIs, ConstantsAssumption DEF Find
<1>9. Accepts(o)
  BY <1>3, <1>6, <1>7, <1>8 DEF Accepts
<1>10. /\ dedupe' \in Seq(Entry) /\ Len(dedupe') <= Capacity
       /\ expired' = expired /\ evicted \subseteq evicted' /\ evicted' \subseteq Op
       /\ Evicts /\ Loses /\ \E f : QueueFrom(f, o)
  BY <1>3, QueueIs, QueueAlone DEF Evicts, Inv, TypeOK
<1>11. r.code \notin {"ok", "deduplicated"}
  BY <1>6
<1> QED
  BY <1>6, <1>9, <1>10, <1>11, AcceptKeeps

-----------------------------------------------------------------------------
(* What the entries of the queue say of their requests.                    *)

\* Without a messaging interface the queue is empty, and no request in
\* flight was accepted without one.
Served ==
    /\ messaging = NoProxy => Len(dedupe) = 0
    /\ \A o \in Op : InFlight(o) => op[o].messaging # NoProxy

Fits(e) ==
    /\ e.code = "busy" <=> InFlight(e.by)
    /\ e.ok <=> op[e.by].code = "ok"
    /\ e.code = "outcome_unknown" <=> op[e.by].code = "outcome_unknown"

\* The entry was there, and its request is as far as it was.
Stays(e) ==
    /\ \E n \in 1..Len(dedupe) : e = dedupe[n]
    /\ InFlight(e.by)' <=> InFlight(e.by)
    /\ op'[e.by].code = op[e.by].code

\* Entries fit that stay or are new and fit.
LEMMA FitsKept ==
    ASSUME TokensSettled, live' => live,
           live' => \A m \in 1..Len(dedupe') : \A e : e = dedupe'[m] => Stays(e) \/ Fits(e)'
    PROVE  TokensSettled'
<1> SUFFICES ASSUME live', NEW m \in 1..Len(dedupe'), NEW e, e = dedupe'[m]
             PROVE  Fits(e)'
  BY DEF TokensSettled, Fits
<1>1. CASE Stays(e)
  <2>1. Fits(e)
    BY <1>1 DEF TokensSettled, Fits, Stays
  <2> QED BY <1>1, <2>1 DEF Fits, Stays
<1> QED BY <1>1

\* What a new queue holds after sms_dedupe_store.
LEMMA StoreTells ==
    ASSUME Inv, NEW o \in Op, NEW ok \in BOOLEAN, NEW c \in {"none", "busy", "outcome_unknown"},
           Store(o, ok, c), op'[o].token \in Token, op'[o].content \in Content,
           NEW m \in 1..Len(dedupe'), NEW e, e = dedupe'[m]
    PROVE  \/ e.by = o /\ e.ok = ok /\ e.code = c
           \/ (\E n \in 1..Len(dedupe) : e = dedupe[n]) /\ e.token # op'[o].token
<1>1. PICK s : s = [token |-> op'[o].token, content |-> op'[o].content, ok |-> ok,
                    code |-> c, by |-> o]
  OBVIOUS
<1>2. s \in Entry
  BY <1>1 DEF Entry
<1>3. s.token = op'[o].token /\ s.by = o /\ s.ok = ok /\ s.code = c
  BY <1>1
<1>4. CASE Find(dedupe, s.token) # {}
  <2> DEFINE L == Len(dedupe)
             r == [i \in 1..L |-> IF i \in Find(dedupe, s.token) THEN s ELSE dedupe[i]]
  <2>1. dedupe' = r
    BY <1>1, <1>4 DEF Store
  <2>2. r \in [1..L -> Entry] /\ L \in Nat
    BY <1>2, QueueIs
  <2>3. Len(r) = L
    <3> HIDE DEF r
    <3> QED BY <2>2, SeqDef, LenProperties
  <2>4. m \in 1..L
    BY <2>1, <2>3
  <2>5. e = s \/ (e = dedupe[m] /\ m \notin Find(dedupe, s.token))
    BY <2>1, <2>4
  <2> QED BY <1>3, <2>4, <2>5 DEF Find
<1>5. CASE Find(dedupe, s.token) = {}
  <2> DEFINE q == Evict(dedupe)
             K == Len(q)
             r == Append(q, s)
  <2>1. dedupe' = r
    BY <1>1, <1>5 DEF Store, Push
  <2>2. q \in Seq(Entry)
    BY QueueIs, EvictThins
  <2>3. PICK g : Thinned(q, dedupe, g)
    BY QueueIs, EvictThins
  <2> HIDE DEF q
  <2>4. K \in Nat
    BY <2>2, LenProperties
  <2>5. Len(r) = K + 1 /\ (\A n \in 1..K : r[n] = q[n]) /\ r[K + 1] = s
    BY <1>2, <2>2, AppendProperties
  <2> HIDE DEF r
  <2>6. CASE m \in 1..K
    <3>1. g[m] \in 1..Len(dedupe) /\ e = dedupe[g[m]]
      BY <2>1, <2>3, <2>5, <2>6 DEF Thinned
    <3> QED BY <1>3, <1>5, <3>1 DEF Find
  <2>7. CASE m = K + 1
    BY <1>3, <2>1, <2>5, <2>7
  <2> QED BY <2>1, <2>4, <2>5, <2>6, <2>7
<1> QED BY <1>4, <1>5

\* A step that neither accepts nor ends a request and stores no entry.
LEMMA AsideFits ==
    ASSUME Inv, TokensSettled, live' => live,
           \A q \in Op : op'[q].phase = op[q].phase /\ op'[q].code = op[q].code,
           \A m \in 1..Len(dedupe') : \E n \in 1..Len(dedupe) : dedupe'[m] = dedupe[n]
    PROVE  TokensSettled'
<1>1. ASSUME NEW m \in 1..Len(dedupe'), NEW e, e = dedupe'[m] PROVE Stays(e)
  <2>1. PICK n \in 1..Len(dedupe) : e = dedupe[n]
    BY <1>1
  <2>2. e.by \in Op
    BY <2>1, QueueIs
  <2> QED BY <2>1, <2>2 DEF Stays, InFlight
<1> QED BY <1>1, FitsKept

\* A step of a request that was not accepted before.
LEMMA FirstFits ==
    ASSUME Inv, TokensSettled, NEW o \in Op, op[o].phase = "unused", live' = live,
           \A q \in Op \ {o} : op'[q] = op[q],
           \A m \in 1..Len(dedupe') : \A e : e = dedupe'[m] =>
              Fits(e)' \/ \E n \in 1..Len(dedupe) : e = dedupe[n]
    PROVE  TokensSettled'
<1>1. ASSUME NEW m \in 1..Len(dedupe'), NEW e, e = dedupe'[m], ~Fits(e)' PROVE Stays(e)
  <2>1. PICK n \in 1..Len(dedupe) : e = dedupe[n]
    BY <1>1
  <2>2. e.by \in Op /\ op[e.by].phase # "unused"
    BY <2>1, QueueIs
  <2> QED BY <2>1, <2>2 DEF Stays, InFlight
<1> QED BY <1>1, FitsKept

\* The end of a request.
LEMMA FinishFits ==
    ASSUME Inv, Served, TokensSettled, NEW o \in Op, Finishes(o)
    PROVE  TokensSettled'
<1>1. PICK r \in OpRecord :
         /\ op' = [op EXCEPT ![o] = r]
         /\ r.phase = "done" /\ r.token = op[o].token /\ r.content = op[o].content
         /\ \/ UNCHANGED <<dedupe, expired, evicted>> /\ (op[o].token = NoToken \/ Stale(o))
            \/ /\ op[o].token # NoToken /\ ~Stale(o)
               /\ \E ok \in BOOLEAN, c \in {"none", "busy", "outcome_unknown"} :
                    Store(o, ok, c) /\ Tells(r, ok, c)
            \/ op[o].token # NoToken /\ Remove(op[o].token)
  BY DEF Finishes
<1>2. InFlight(o) /\ UNCHANGED <<live, mgen, messaging>>
  BY DEF Finishes
<1>3. op'[o] = r /\ \A q \in Op \ {o} : op'[q] = op[q]
  BY <1>1 DEF Inv, TypeOK
<1>4. ASSUME NEW e, \E n \in 1..Len(dedupe) : e = dedupe[n], e.by # o PROVE Stays(e)
  <2>1. e.by \in Op
    BY <1>4, QueueIs
  <2> QED BY <1>3, <1>4, <2>1 DEF Stays, InFlight
<1>5. \A n \in 1..Len(dedupe) : dedupe[n].by = o => dedupe[n].token = op[o].token
  BY QueueIs
<1>6. CASE UNCHANGED <<dedupe, expired, evicted>> /\ (op[o].token = NoToken \/ Stale(o))
  <2>1. ASSUME live, NEW n \in 1..Len(dedupe), dedupe[n].by = o PROVE FALSE
    <3>1. op[o].token # NoToken /\ op[o].mgen = mgen
      BY <1>5, <2>1, QueueIs, ConstantsAssumption
    <3>2. messaging # NoProxy
      BY <2>1 DEF Served
    <3> QED BY <1>2, <1>6, <2>1, <3>1, <3>2, StaleIsEarlier
  <2> QED BY <1>2, <1>4, <1>6, <2>1, FitsKept
<1>7. CASE \E ok \in BOOLEAN, c \in {"none", "busy", "outcome_unknown"} :
              /\ op[o].token # NoToken
              /\ Store(o, ok, c) /\ Tells(r, ok, c)
  <2>1. PICK ok \in BOOLEAN, c \in {"none", "busy", "outcome_unknown"} :
           Store(o, ok, c) /\ Tells(r, ok, c)
    BY <1>7
  <2>2. op'[o].token \in Token /\ op'[o].content \in Content /\ op'[o].token = op[o].token
    BY <1>1, <1>3, <1>7 DEF OpRecord
  <2>3. ASSUME NEW m \in 1..Len(dedupe'), NEW e, e = dedupe'[m] PROVE Stays(e) \/ Fits(e)'
    <3>1. CASE e.by = o /\ e.ok = ok /\ e.code = c
      BY <1>1, <1>3, <2>1, <3>1 DEF Fits, Tells, InFlight
    <3>2. CASE (\E n \in 1..Len(dedupe) : e = dedupe[n]) /\ e.token # op'[o].token
      BY <1>4, <1>5, <2>2, <3>2
    <3> QED BY <2>1, <2>2, <2>3, <3>1, <3>2, StoreTells
  <2> QED BY <1>2, <2>3, FitsKept
<1>8. CASE op[o].token # NoToken /\ Remove(op[o].token)
  <2>0. PICK t : t = op[o].token
    OBVIOUS
  <2>1. dedupe' = Without(dedupe, t)
    BY <1>8, <2>0 DEF Remove
  <2>2. \A n \in 1..Len(dedupe') : dedupe'[n].token # t
    BY <2>1, QueueWithout
  <2>3. PICK g : Thinned(dedupe', dedupe, g)
    BY <2>1, QueueWithout
  <2>4. ASSUME NEW m \in 1..Len(dedupe'), NEW e, e = dedupe'[m] PROVE Stays(e)
    <3>1. g[m] \in 1..Len(dedupe) /\ e = dedupe[g[m]] /\ e.token # t
      BY <2>2, <2>3, <2>4 DEF Thinned
    <3> QED BY <1>4, <1>5, <2>0, <3>1
  <2> QED BY <1>2, <2>4, FitsKept
<1> QED BY <1>1, <1>6, <1>7, <1>8

\* Phases, codes and interfaces of the requests as an interruption finds them.
LEMMA InterruptedAre ==
    ASSUME Inv,
           \/ \E o \in Op : OperationTimeout(o)
           \/ op' = HolderCancelled
           \/ ConnectionLost
           \/ op' = op
    PROVE  \A q \in Op : /\ op'[q].phase = op[q].phase /\ op'[q].code = op[q].code
                         /\ op'[q].messaging = op[q].messaging
<1> SUFFICES ASSUME NEW q \in Op
             PROVE  /\ op'[q].phase = op[q].phase /\ op'[q].code = op[q].code
                    /\ op'[q].messaging = op[q].messaging
  OBVIOUS
<1>1. op \in [Op -> OpRecord] /\ op[q] \in OpRecord
  BY DEF Inv, TypeOK
<1>2. \/ op'[q] = op[q]
      \/ op'[q] = [op[q] EXCEPT !.timedOut = TRUE, !.cancelled = TRUE]
      \/ op'[q] = [op[q] EXCEPT !.cancelled = TRUE]
      \/ op'[q] = [op[q] EXCEPT !.lost = TRUE, !.cancelled = TRUE]
  <2>1. CASE \E o \in Op : OperationTimeout(o)
    BY <1>1, <2>1 DEF OperationTimeout
  <2>2. CASE op' = HolderCancelled
    BY <2>2 DEF HolderCancelled
  <2>3. CASE ConnectionLost
    BY <2>3 DEF ConnectionLost
  <2> QED BY <2>1, <2>2, <2>3
<1> QED BY <1>1, <1>2 DEF OpRecord

\* What becomes of the queue in an interruption.
LEMMA ExpiryFits ==
    ASSUME Inv, TokensSettled, NEW t \in Token, EntryExpires(t)
    PROVE  TokensSettled'
<1>1. dedupe' = Without(dedupe, t) /\ op' = op /\ live' = live
  BY DEF EntryExpires
<1>2. PICK g : Thinned(dedupe', dedupe, g)
  BY <1>1, QueueWithout
<1>3. \A m \in 1..Len(dedupe') : \E n \in 1..Len(dedupe) : dedupe'[m] = dedupe[n]
  BY <1>2 DEF Thinned
<1> QED BY <1>1, <1>3, AsideFits

\* A request that starts is the only one stored as busy.
LEMMA StartFits ==
    ASSUME Inv, TokensSettled, NEW o \in Op, NEW t \in Token, NEW c \in Content,
           SendStarts(o, t, c)
    PROVE  TokensSettled'
<1> DEFINE r == NewOp("create", t, c)
<1>1. r.phase = "create" /\ r.token = t /\ r.content = c /\ r.code = "none"
  BY NewOpIs DEF Inv
<1>2. /\ op[o].phase = "unused" /\ op' = [op EXCEPT ![o] = r] /\ Store(o, FALSE, "busy")
      /\ live' = live
  BY DEF SendStarts, Admissible
<1> HIDE DEF r
<1>3. op'[o] = r /\ \A q \in Op \ {o} : op'[q] = op[q]
  BY <1>2 DEF Inv, TypeOK
<1>4. op'[o].token \in Token /\ op'[o].content \in Content
  BY <1>1, <1>3
<1>5. ASSUME NEW m \in 1..Len(dedupe'), NEW e, e = dedupe'[m]
      PROVE  Fits(e)' \/ \E n \in 1..Len(dedupe) : e = dedupe[n]
  <2>1. CASE e.by = o /\ e.ok = FALSE /\ e.code = "busy"
    BY <1>1, <1>3, <2>1 DEF Fits, InFlight
  <2>2. PICK ok \in BOOLEAN, b \in {"none", "busy", "outcome_unknown"} :
           Store(o, ok, b) /\ ok = FALSE /\ b = "busy"
    BY <1>2
  <2>3. \/ e.by = o /\ e.ok = FALSE /\ e.code = "busy"
        \/ (\E n \in 1..Len(dedupe) : e = dedupe[n]) /\ e.token # op'[o].token
    BY <1>4, <1>5, <2>2, StoreTells
  <2> QED BY <2>1, <2>3
<1> QED BY <1>2, <1>3, <1>5, FirstFits

\* A request that ends at once leaves no entry behind.
LEMMA UnattestedFits ==
    ASSUME Inv, TokensSettled, NEW o \in Op, NEW t \in Token, NEW c \in Content,
           SendUnattested(o, t, c)
    PROVE  TokensSettled'
<1>1. op[o].phase = "unused" /\ dedupe' = Evict(dedupe) /\ live' = live
  BY DEF SendUnattested, Admissible
<1>2. \A q \in Op \ {o} : op'[q] = op[q]
  BY DEF SendUnattested, Inv, TypeOK
<1>3. PICK g : Thinned(dedupe', dedupe, g)
  BY <1>1, QueueIs, EvictThins
<1>4. \A m \in 1..Len(dedupe') : \E n \in 1..Len(dedupe) : dedupe'[m] = dedupe[n]
  BY <1>3 DEF Thinned
<1> QED BY <1>1, <1>2, <1>4, FirstFits

\* A delete request and an answer from the queue leave the queue alone.
LEMMA QueueAloneFits ==
    ASSUME Inv, TokensSettled, NEW o \in Op,
           \/ \E t \in Token, c \in Content : SendCached(o, t, c)
           \/ \E attested \in BOOLEAN : DeleteSms(o, attested)
    PROVE  TokensSettled'
<1>1. op[o].phase = "unused" /\ dedupe' = dedupe /\ live' = live
  BY DEF SendCached, DeleteSms, Admissible
<1>2. \A q \in Op \ {o} : op'[q] = op[q]
  BY DEF SendCached, DeleteSms, Inv, TypeOK
<1>3. \A m \in 1..Len(dedupe') : \E n \in 1..Len(dedupe) : dedupe'[m] = dedupe[n]
  BY <1>1
<1> QED BY <1>1, <1>2, <1>3, FirstFits

\* Sms.Send is called for a request in flight.
LEMMA SendFits ==
    ASSUME Inv, TokensSettled, NEW o \in Op, Sends(o)
    PROVE  TokensSettled'
<1>1. op[o] \in OpRecord /\ op[o].phase = "create"
  BY DEF Sends, Inv, TypeOK
<1> DEFINE r == [op[o] EXCEPT !.phase = "send", !.dispatched = TRUE, !.timedOut = FALSE]
<1>2. op' = [op EXCEPT ![o] = r] /\ dedupe' = dedupe /\ live' = live
  BY DEF Sends
<1>3. r.phase = "send" /\ r.code = op[o].code
  BY <1>1 DEF OpRecord
<1> HIDE DEF r
<1>4. \A q \in Op : (InFlight(q)' <=> InFlight(q)) /\ op'[q].code = op[q].code
  BY <1>1, <1>2, <1>3 DEF InFlight, Inv, TypeOK
<1>5. ASSUME NEW m \in 1..Len(dedupe'), NEW e, e = dedupe'[m] PROVE Stays(e)
  <2>1. m \in 1..Len(dedupe) /\ e = dedupe[m] /\ e.by \in Op
    BY <1>2, <1>5, QueueIs
  <2> QED BY <1>4, <2>1 DEF Stays
<1> QED BY <1>2, <1>5, FitsKept

\* Requests are accepted with a messaging interface only, and the queue is
\* emptied when the interface goes.
LEMMA ServedKept == ASSUME Inv, Served, Next PROVE Served'
<1>1. op \in [Op -> OpRecord] /\ Len(dedupe) \in Nat
  BY QueueIs DEF Inv, TypeOK
<1>2. ASSUME NEW o \in Op, Request(o) PROVE Served'
  <2>1. /\ messaging # NoProxy /\ messaging' = messaging
        /\ \A q \in Op \ {o} : op'[q] = op[q]
    <3>1. messaging # NoProxy /\ messaging' = messaging
      BY <1>2
      DEF Request, SendCached, SendStarts, SendUnattested, DeleteSms, Admissible
    <3>2. \E r : op' = [op EXCEPT ![o] = r]
      BY <1>2 DEF Request, SendCached, SendStarts, SendUnattested, DeleteSms
    <3> QED BY <1>1, <3>1, <3>2
  <2>2. InFlight(o)' => op'[o].messaging = messaging
    <3>0. \A r, code, retryable : Completed(r, code, retryable).phase = "done"
      BY DEF Completed
    <3>1. ASSUME NEW t \in Token, NEW c \in Content, SendStarts(o, t, c)
          PROVE  op'[o].messaging = messaging
      <4>1. NewOp("create", t, c).messaging = messaging
        BY NewOpIs DEF Inv
      <4> QED BY <1>1, <3>1, <4>1 DEF SendStarts
    <3>2. ASSUME NEW t \in Token, NEW c \in Content,
                 SendCached(o, t, c) \/ SendUnattested(o, t, c)
          PROVE  op'[o].phase = "done"
      <4>1. CASE SendUnattested(o, t, c)
        <5>1. op' = [op EXCEPT ![o] = Completed(NewOp("create", t, c), "unsupported", FALSE)]
          BY <4>1 DEF SendUnattested
        <5> QED BY <1>1, <3>0, <5>1
      <4>2. CASE SendCached(o, t, c)
        <5> DEFINE n == NewOp("unused", t, c)
        <5>1. PICK i \in Find(dedupe, t) :
                 \/ op' = [op EXCEPT ![o] = Completed(n, "deduplicated", FALSE)]
                 \/ op' = [op EXCEPT ![o] = Completed(n, "invalid_argument", FALSE)]
                 \/ op' = [op EXCEPT ![o] = Completed(n, "cached", dedupe[i].code = "busy")]
          BY <4>2 DEF SendCached
        <5> DEFINE d == Completed(n, "deduplicated", FALSE)
                   a == Completed(n, "invalid_argument", FALSE)
                   k == Completed(n, "cached", dedupe[i].code = "busy")
        <5>2. d.phase = "done" /\ a.phase = "done" /\ k.phase = "done"
          BY DEF Completed
        <5>3. \E r \in {d, a, k} : op' = [op EXCEPT ![o] = r]
          BY <5>1
        <5> HIDE DEF d, a, k
        <5>4. PICK r : r.phase = "done" /\ op' = [op EXCEPT ![o] = r]
          BY <5>2, <5>3
        <5> QED BY <1>1, <5>4
      <4> QED BY <3>2, <4>1, <4>2
    <3>3. ASSUME NEW attested \in BOOLEAN, DeleteSms(o, attested)
          PROVE  op'[o].phase = "done" \/ op'[o].messaging = messaging
      <4>1. NewOp("delete", NoToken, op[o].content).messaging = messaging
        BY DEF NewOp
      <4>2. \/ op' = [op EXCEPT ![o] = NewOp("delete", NoToken, op[o].content)]
            \/ \E r, code, retryable : op' = [op EXCEPT ![o] = Completed(r, code, retryable)]
        BY <3>3 DEF DeleteSms
      <4> QED BY <1>1, <3>0, <4>1, <4>2
    <3> QED BY <1>2, <3>1, <3>2, <3>3 DEF Request, InFlight
  <2> QED BY <2>1, <2>2 DEF Served, InFlight
<1>3. ASSUME NEW o \in Op, Ready(o) PROVE Served'
  <2>1. CASE Sends(o)
    <3>1. \A q \in Op : op'[q].messaging = op[q].messaging /\ (InFlight(q)' => InFlight(q))
      BY <1>1, <2>1 DEF Sends, InFlight, OpRecord
    <3> QED BY <2>1, <3>1 DEF Served, Sends
  <2>2. CASE Finishes(o)
    <3>1. PICK r \in OpRecord :
             /\ op' = [op EXCEPT ![o] = r] /\ r.phase = "done"
             /\ \/ UNCHANGED dedupe \/ ~Stale(o) \/ Remove(op[o].token)
      BY <2>2 DEF Finishes
    <3>2. InFlight(o) /\ UNCHANGED <<live, mgen, messaging>>
      BY <2>2 DEF Finishes
    <3>3. \A q \in Op : InFlight(q)' => InFlight(q) /\ op'[q] = op[q]
      BY <1>1, <3>1 DEF InFlight
    <3>4. messaging = NoProxy => Stale(o)
      BY <3>2 DEF Served, Stale
    <3>5. ASSUME Len(dedupe) = 0, Remove(op[o].token) PROVE Len(dedupe') = 0
      <4>1. PICK t : t = op[o].token
        OBVIOUS
      <4>2. dedupe' = Without(dedupe, t)
        BY <3>5, <4>1 DEF Remove
      <4>3. Find(dedupe, t) = {}
        BY <3>5 DEF Find
      <4> QED BY <3>5, <4>2, <4>3 DEF Without
    <3> QED BY <3>1, <3>2, <3>3, <3>4, <3>5 DEF Served
  <2> QED
    BY <1>3, <2>1, <2>2, CreateReadyEnds, SendReadyEnds, DeleteReadyEnds DEF Ready
<1>4. ASSUME UNCHANGED <<messaging, dedupe>>,
             \A q \in Op : /\ op'[q].phase = op[q].phase
                           /\ op'[q].messaging = op[q].messaging
      PROVE  Served'
  BY <1>4 DEF Served, InFlight
<1>5. ASSUME NEW p \in Proxy \cup {NoProxy}, NEW force \in BOOLEAN, MessagingChanged(p, force)
      PROVE  Served'
  <2>1. op' = HolderCancelled /\ Len(dedupe') = 0
    BY <1>5, EmptySeq DEF MessagingChanged
  <2> QED BY <2>1, InterruptedAre DEF Served, InFlight
<1>6. ASSUME NEW t \in Token, EntryExpires(t) PROVE Served'
  <2>1. Find(dedupe, t) # {} /\ op' = op /\ messaging' = messaging
    BY <1>6 DEF EntryExpires
  <2>2. Len(dedupe) # 0
    BY <2>1 DEF Find
  <2> QED BY <2>1, <2>2 DEF Served, InFlight
<1>7. ASSUME NEW o \in Op, OperationTimeout(o) PROVE Served'
  BY <1>4, <1>7, InterruptedAre DEF OperationTimeout
<1>8. CASE ModemRemoved \/ ConnectionLost
  BY <1>4, <1>8, InterruptedAre DEF ModemRemoved, ConnectionLost
<1>9. CASE Reconnect \/ OtherMutation
  BY <1>4, <1>9 DEF Reconnect, OtherMutation
<1> QED BY <1>2, <1>3, <1>5, <1>6, <1>7, <1>8, <1>9 DEF Next

\* Every step.
LEMMA NextFits == ASSUME Inv, Served, TokensSettled, Next PROVE TokensSettled'
<1>1. ASSUME NEW o \in Op, Request(o) PROVE TokensSettled'
  BY <1>1, StartFits, UnattestedFits, QueueAloneFits DEF Request
<1>2. ASSUME NEW o \in Op, Ready(o) PROVE TokensSettled'
  <2>1. Finishes(o) \/ Sends(o)
    BY <1>2, CreateReadyEnds, SendReadyEnds, DeleteReadyEnds DEF Ready
  <2> QED BY <2>1, FinishFits, SendFits
<1>3. ASSUME dedupe' = dedupe, live' => live,
             \A q \in Op : op'[q].phase = op[q].phase /\ op'[q].code = op[q].code
      PROVE  TokensSettled'
  BY <1>3, AsideFits
<1>4. ASSUME NEW o \in Op, OperationTimeout(o) PROVE TokensSettled'
  BY <1>3, <1>4, InterruptedAre DEF OperationTimeout
<1>5. ASSUME NEW p \in Proxy \cup {NoProxy}, NEW force \in BOOLEAN, MessagingChanged(p, force)
      PROVE  TokensSettled'
  <2>1. Len(dedupe') = 0
    BY <1>5, EmptySeq DEF MessagingChanged
  <2> QED BY <2>1 DEF TokensSettled
<1>6. ASSUME NEW t \in Token, EntryExpires(t) PROVE TokensSettled'
  BY <1>6, ExpiryFits
<1>7. CASE ModemRemoved \/ ConnectionLost
  BY <1>3, <1>7, InterruptedAre DEF ModemRemoved, ConnectionLost
<1>8. CASE Reconnect \/ OtherMutation
  BY <1>3, <1>8 DEF Reconnect, OtherMutation
<1> QED BY <1>1, <1>2, <1>4, <1>5, <1>6, <1>7, <1>8 DEF Next

-----------------------------------------------------------------------------
(* The theorems.                                                           *)

\* The invariant holds when the modem appears.
LEMMA InitInv == Init => Inv
<1> SUFFICES ASSUME Init PROVE Inv
  OBVIOUS
<1>1. PICK c \in Content : c = CHOOSE d \in Content : TRUE
  BY ConstantsAssumption
<1> DEFINE n == [phase |-> "unused", token |-> NoToken, content |-> c, mgen |-> 0,
                 messaging |-> NoProxy, timedOut |-> FALSE, lost |-> FALSE,
                 cancelled |-> FALSE, dispatched |-> FALSE, code |-> "none",
                 retryable |-> FALSE]
<1>2. op = [o \in Op |-> n]
  BY <1>1 DEF Init, NewOp
<1>3. n \in OpRecord
  BY ConstantsAssumption DEF OpRecord, Codes
<1>4. n.phase = "unused" /\ n.token = NoToken /\ n.code = "none" /\ ~n.dispatched
  OBVIOUS
<1> HIDE DEF n
<1>5. \A o \in Op : op[o] = n /\ op[o].phase = "unused" /\ op[o].code = "none"
  BY <1>2, <1>4
<1>6. Len(dedupe) = 0 /\ dedupe \in Seq(Entry) /\ Len(started) = 0 /\ started \in Seq(Op)
  BY EmptySeq DEF Init
<1>7. TypeOK
  <2>1. op \in [Op -> OpRecord]
    BY <1>2, <1>3
  <2>2. Len(dedupe) <= Capacity /\ 0 \in 0..MaxEpoch
    BY <1>6, ConstantsAssumption
  <2> QED BY <1>6, <2>1, <2>2 DEF Init, TypeOK
<1>8. \A o \in Op : Shape(op[o])
  <2>1. ~n.timedOut /\ ~n.lost
    BY DEF n
  <2> QED BY <1>4, <1>5, <2>1 DEF Shape
<1>9. SmsLockOwned /\ Epochs /\ DeduplicatedIsTrue
  BY <1>5 DEF SmsLockOwned, Epochs, DeduplicatedIsTrue, InFlight, Init
<1>10. History
  BY <1>5, <1>6 DEF History, InFlight
<1>11. Recorded /\ QueueIsCurrent
  BY <1>6 DEF Recorded, QueueIsCurrent
<1>12. Evictions /\ Remembered
  BY <1>6 DEF Evictions, Remembered, Init
<1>13. NoSecondStart
  <2>1. \A i \in 1..Len(started) : FALSE
    BY <1>6
  <2> QED BY <2>1 DEF NoSecondStart
<1> QED
  BY <1>7, <1>8, <1>9, <1>10, <1>11, <1>12, <1>13 DEF Inv

\* Every step keeps the invariant.
LEMMA NextInv == Inv /\ [Next]_vars => Inv'
<1> SUFFICES ASSUME Inv, [Next]_vars PROVE Inv'
  OBVIOUS
<1>1. ASSUME NEW o \in Op, Request(o) PROVE Inv'
  BY <1>1, CachedKeeps, StartKeeps, UnattestedKeeps, DeleteKeeps DEF Request
<1>2. ASSUME NEW o \in Op, Ready(o) PROVE Inv'
  <2>1. Finishes(o) \/ Sends(o)
    BY <1>2, CreateReadyEnds, SendReadyEnds, DeleteReadyEnds DEF Ready
  <2> QED BY <2>1, FinishKeeps, SendKeeps
<1>3. ASSUME NEW o \in Op, OperationTimeout(o) PROVE Inv'
  BY <1>3, TimeoutKeeps
<1>4. ASSUME NEW p \in Proxy \cup {NoProxy}, NEW force \in BOOLEAN, MessagingChanged(p, force)
      PROVE  Inv'
  BY <1>4, EpochKeeps
<1>5. ASSUME NEW t \in Token, EntryExpires(t) PROVE Inv'
  BY <1>5, ExpiryKeeps
<1>6. CASE ModemRemoved
  BY <1>6, RemovedKeeps
<1>7. CASE ConnectionLost
  BY <1>7, ConnectionLostKeeps
<1>8. CASE Reconnect \/ OtherMutation
  BY <1>8, OthersKeep
<1>9. CASE UNCHANGED vars
  <2>1. Flagged
    BY <1>9 DEF vars, Flagged, Inv, TypeOK
  <2> QED BY <1>9, <2>1, FlaggedKeeps DEF vars, Inv, TypeOK
<1> QED
  BY <1>1, <1>2, <1>3, <1>4, <1>5, <1>6, <1>7, <1>8, <1>9 DEF Next

\* The invariant behind the theorems below.
THEOREM Invariance == Spec => []Inv
BY InitInv, NextInv, PTL DEF Spec


(***************************************************************************)
(* The mutation lock: the modem is busy with SMS exactly while one SMS     *)
(* operation is in flight, and that one holds the modem's cancellable, so  *)
(* that a removal or a new epoch cancels it.  sms_operation_free releases  *)
(* the lock only for its holder.                                           *)
(***************************************************************************)
THEOREM LockOwned == Spec => []SmsLockOwned
<1>1. Inv => SmsLockOwned
  BY DEF Inv
<1> QED
  BY <1>1, Invariance, PTL

(***************************************************************************)
(* The queue is current: every entry was stored by a request of the        *)
(* present messaging epoch, tokens are unique and the entries are in the   *)
(* order in which their requests were accepted, so that                    *)
(* l850gl_sms_dedupe_evictions_required drops the least recent one.        *)
(***************************************************************************)
THEOREM QueueCurrent == Spec => []QueueIsCurrent
<1>1. Inv => QueueIsCurrent
  BY DEF Inv
<1> QED
  BY <1>1, Invariance, PTL

(***************************************************************************)
(* A reply marked "deduplicated" is true: a send of the same content under *)
(* the same token did succeed in this epoch.                               *)
(***************************************************************************)
THEOREM DeduplicatedTrue == Spec => []DeduplicatedIsTrue
<1>1. Inv => DeduplicatedIsTrue
  BY DEF Inv
<1> QED
  BY <1>1, Invariance, PTL

(***************************************************************************)
(* At most one send per token and epoch, for every capacity of the queue:  *)
(* a token is dispatched again only after a definite refusal, the expiry   *)
(* of its entry, or its eviction by as many other tokens as the queue      *)
(* holds.                                                                  *)
(***************************************************************************)
THEOREM NoDuplicates == Spec => []NoDuplicateSend
<1>1. Inv => NoDuplicateSend
  BY DEF Inv, NoSecondStart, NoDuplicateSend, Forgotten
<1> QED
  BY <1>1, Invariance, PTL

(***************************************************************************)
(* An entry of the queue says what has become of its request; a send that  *)
(* failed for certain has none, whatever call it failed at                 *)
(* (sms_operation_complete_error and sms_dedupe_remove).                   *)
(***************************************************************************)
THEOREM TokensTell == Spec => []TokensSettled
<1>1. Init => Served /\ TokensSettled
  <2> SUFFICES ASSUME Init PROVE Served /\ TokensSettled
    OBVIOUS
  <2>1. Len(dedupe) = 0
    BY EmptySeq DEF Init
  <2>2. \A o \in Op : ~InFlight(o)
    BY DEF Init, NewOp, InFlight
  <2> QED BY <2>1, <2>2 DEF Served, TokensSettled
<1>2. Inv /\ Served /\ TokensSettled /\ [Next]_vars => (Served /\ TokensSettled)'
  <2> SUFFICES ASSUME Inv, Served, TokensSettled, [Next]_vars
               PROVE  (Served /\ TokensSettled)'
    OBVIOUS
  <2>1. CASE UNCHANGED vars
    BY <2>1 DEF vars, Served, TokensSettled, InFlight
  <2> QED BY <2>1, ServedKept, NextFits
<1> QED BY <1>1, <1>2, Invariance, PTL DEF Spec


\* Only sms_create_ready dispatches, and only for the holder of the lock in
\* the epoch of the request.
LEMMA DispatchStep ==
    ASSUME Inv, [Next]_vars, NEW o \in Op, op'[o].dispatched, ~op[o].dispatched
    PROVE  /\ live /\ op[o].mgen = mgen /\ op[o].messaging = messaging
           /\ ~op[o].timedOut /\ ~op[o].lost /\ holder = o
<1>1. ASSUME NEW q \in Op, Sends(q)
      PROVE  /\ live /\ op[o].mgen = mgen /\ op[o].messaging = messaging
             /\ ~op[o].timedOut /\ ~op[o].lost /\ holder = o
  <2>1. q = o
    BY <1>1 DEF Sends, Inv, TypeOK
  <2>2. InFlight(o) /\ ~Stale(o) /\ op[o].phase = "create" /\ ~op[o].cancelled
    BY <1>1, <2>1 DEF Sends, InFlight
  <2>3. ~op[o].timedOut /\ ~op[o].lost
    BY <2>2 DEF Inv, TypeOK, OpRecord, Shape
  <2>4. holder = o
    BY <2>2 DEF Inv, SmsLockOwned
  <2> QED BY <2>2, <2>3, <2>4 DEF Stale
<1>2. ASSUME NEW q \in Op, Finishes(q) PROVE FALSE
  <2>1. PICK r \in OpRecord : op' = [op EXCEPT ![q] = r] /\ r.dispatched = op[q].dispatched
    BY <1>2 DEF Finishes
  <2> QED BY <2>1 DEF Inv, TypeOK
<1>3. ASSUME NEW q \in Op, Request(q) PROVE FALSE
  <2>1. \A d \in Codes, b \in BOOLEAN, p \in {"unused", "create", "delete"},
           t \in Token \cup {NoToken}, c \in Content :
             ~NewOp(p, t, c).dispatched /\ ~Completed(NewOp(p, t, c), d, b).dispatched
    BY NewOpIs, CompletedIs DEF Inv
  <2>2. op[q].content \in Content
    BY DEF Inv, TypeOK, OpRecord
  <2>3. PICK r : op' = [op EXCEPT ![q] = r] /\ ~r.dispatched
    <3>1. {"invalid_argument", "deduplicated", "cached", "unsupported"} \subseteq Codes
      BY DEF Codes
    <3>2. CASE \E t \in Token, c \in Content : SendCached(q, t, c)
      <4>1. PICK t \in Token, c \in Content : SendCached(q, t, c)
        BY <3>2
      <4> DEFINE n == NewOp("unused", t, c)
      <4>2. \E d \in Codes, b \in BOOLEAN : op' = [op EXCEPT ![q] = Completed(n, d, b)]
        BY <3>1, <4>1 DEF SendCached
      <4>3. \A d \in Codes, b \in BOOLEAN : ~Completed(n, d, b).dispatched
        BY <2>1
      <4> HIDE DEF n
      <4> QED BY <4>2, <4>3
    <3>3. CASE \E t \in Token, c \in Content : SendStarts(q, t, c)
      <4>1. PICK t \in Token, c \in Content : SendStarts(q, t, c)
        BY <3>3
      <4>2. op' = [op EXCEPT ![q] = NewOp("create", t, c)]
        BY <4>1 DEF SendStarts
      <4>3. ~NewOp("create", t, c).dispatched
        BY NewOpIs DEF Inv
      <4> QED BY <4>2, <4>3
    <3>4. CASE \E t \in Token, c \in Content : SendUnattested(q, t, c)
      <4>1. PICK t \in Token, c \in Content : SendUnattested(q, t, c)
        BY <3>4
      <4> DEFINE n == NewOp("create", t, c)
      <4>2. op' = [op EXCEPT ![q] = Completed(n, "unsupported", FALSE)]
        BY <4>1 DEF SendUnattested
      <4>3. \A d \in Codes : ~Completed(n, d, FALSE).dispatched
        BY <2>1
      <4> HIDE DEF n
      <4>4. "unsupported" \in Codes
        BY DEF Codes
      <4> QED BY <4>2, <4>3, <4>4
    <3>5. CASE \E attested \in BOOLEAN : DeleteSms(q, attested)
      BY <2>1, <2>2, <3>1, <3>5 DEF DeleteSms
    <3> QED BY <1>3, <3>2, <3>3, <3>4, <3>5 DEF Request
  <2> QED BY <2>3 DEF Inv, TypeOK
<1>4. ASSUME NEW q \in Op, OperationTimeout(q) PROVE FALSE
  BY <1>4 DEF OperationTimeout, Inv, TypeOK, OpRecord
<1>5. CASE op' = HolderCancelled
  BY <1>5, HolderCancelledFlags DEF HolderCancelled, Inv, TypeOK, OpRecord
<1>6. CASE ConnectionLost
  BY ZenonT(60), <1>6 DEF ConnectionLost, Inv, TypeOK, OpRecord
<1>7. CASE op' = op
  BY <1>7
<1>8. ASSUME NEW q \in Op, Ready(q) PROVE Finishes(q) \/ Sends(q)
  BY <1>8, CreateReadyEnds, SendReadyEnds, DeleteReadyEnds DEF Ready
<1> QED
  BY <1>1, <1>2, <1>3, <1>4, <1>5, <1>6, <1>7, <1>8
     DEF Next, vars, MessagingChanged, ModemRemoved, EntryExpires, Reconnect, OtherMutation

(***************************************************************************)
(* An operation settles the mutation lock and its token, however it ends   *)
(* (sms_operation_free and the completions that call it).                  *)
(***************************************************************************)
THEOREM OperationsSettle == Spec => []OperationSettled
<1>1. SmsLockOwned /\ TokensSettled => OperationSettled
  BY DEF OperationSettled
<1> QED BY <1>1, LockOwned, TokensTell, PTL

(***************************************************************************)
(* Sms.Send is dispatched only in the epoch of the request, on a live      *)
(* modem, by the operation that holds it and has not been interrupted: the *)
(* answer to Create() that comes after a change of SIM, a removal, a       *)
(* timeout or the loss of the connection is not followed by a send.        *)
(***************************************************************************)
THEOREM DispatchInEpoch == Spec => DispatchedInItsEpoch
<1>1. Inv /\ [Next]_vars
        => [\A o \in Op : op'[o].dispatched /\ ~op[o].dispatched
              => /\ live /\ op[o].mgen = mgen /\ op[o].messaging = messaging
                 /\ ~op[o].timedOut /\ ~op[o].lost /\ holder = o]_vars
  BY DispatchStep
<1> QED
  BY <1>1, InitInv, NextInv, PTL DEF Spec, DispatchedInItsEpoch
=============================================================================
