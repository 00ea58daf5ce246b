---------------------------- MODULE AnswersProof ----------------------------
(***************************************************************************)
(* Proofs about the pure parts of the bridge, for answers of any length    *)
(* and any limits, every channel and any bands a modem may support.        *)
(*                                                                         *)
(* An answer is read by a loop over its lines; what the loop knows after n *)
(* lines is described by a predicate on those lines, by induction over n   *)
(* (Induction).  The lock and the band policy need no induction: only the  *)
(* shape of the tables, and what a loop that copies entries returns.       *)
(***************************************************************************)
EXTENDS Answers, FiniteSetTheorems, FunctionTheorems, SequenceTheorems,
        WellFoundedInduction, TLAPS

-----------------------------------------------------------------------------
(* Induction and loops.                                                    *)

\* A non-empty set of numbers has a least element.
LEMMA LeastOf ==
    ASSUME NEW T, T \subseteq Nat, T # {}
    PROVE  \E n \in T : \A m \in T : ~(m < n)
<1> DEFINE R == OpToRel(<, Nat)
<1>1. IsWellFoundedOn(R, Nat)
  BY NatLessThanWellFounded
<1>2. \E x \in T : \A y \in T : ~ (<<y, x>> \in R)
  <2> HIDE DEF R
  <2> QED BY <1>1, WFMin
<1> QED BY <1>2 DEF OpToRel

\* What holds before the first round of a loop and is kept by each of its
\* rounds holds after every round.
LEMMA Induction ==
    ASSUME NEW N \in Nat, NEW T, 0 \in T,
           \A n \in 1..N : n - 1 \in T => n \in T
    PROVE  \A n \in 0..N : n \in T
<1> DEFINE U == {n \in 0..N : n \notin T}
<1>1. ASSUME U # {} PROVE FALSE
  <2>1. PICK n \in U : \A m \in U : ~(m < n)
    <3>1. U \subseteq Nat
      OBVIOUS
    <3> HIDE DEF U
    <3> QED BY <1>1, <3>1, LeastOf
  <2>2. n \in 1..N /\ n - 1 \in 0..N /\ n - 1 < n
    BY <2>1
  <2> QED BY <2>1, <2>2
<1> QED BY <1>1

\* The states of a walk over N lines.
IsWalk(h, kind, lines, N) ==
    h = [n \in 0..N |-> IF n = 0 THEN Start[kind] ELSE Step(kind, h[n - 1], lines[n])]

\* The recursive function of WalkAfter exists.
LEMMA WalkExists ==
    ASSUME NEW kind, NEW lines, NEW N \in Nat
    PROVE  \E h : IsWalk(h, kind, lines, N)
<1> DEFINE F(h, n) == IF n = 0 THEN Start[kind] ELSE Step(kind, h[n - 1], lines[n])
           Has(k) == \E h : h = [n \in 0..k |-> F(h, n)]
           T == {k \in 0..N : Has(k)}
<1>1. Has(0)
  <2> DEFINE h == [n \in 0..0 |-> Start[kind]]
  <2>1. h = [n \in 0..0 |-> F(h, n)]
    OBVIOUS
  <2> QED BY <2>1
<1>2. ASSUME NEW k \in 1..N, Has(k - 1) PROVE Has(k)
  <2>1. PICK h : h = [n \in 0..(k - 1) |-> F(h, n)]
    BY <1>2
  <2> DEFINE g == [n \in 0..k |-> IF n = k THEN F(h, k) ELSE h[n]]
  <2>2. ASSUME NEW n \in 0..k PROVE g[n] = F(g, n)
    <3>1. CASE n = k
      BY <3>1
    <3>2. CASE n # k
      <4>1. h[n] = F(h, n)
        <5> HIDE DEF F
        <5>1. n \in 0..(k-1) BY <3>2
        <5> QED BY <5>1, <2>1
      <4>2. n # 0 => g[n - 1] = h[n - 1]
        BY <3>2
      <4> QED BY <4>1, <4>2, <3>2
    <3> QED BY <3>1, <3>2
  <2>3. g = [n \in 0..k |-> F(g, n)]
    <3> HIDE DEF F
    <3> QED BY <2>2
  <2> HIDE DEF F, g
  <2> QED BY <2>3
<1>3. \A k \in 0..N : k \in T
  <2>1. 0 \in T
    BY <1>1
  <2>2. ASSUME NEW n \in 1..N, n - 1 \in T PROVE n \in T
    <3> HIDE DEF Has
    <3> QED BY <1>2, <2>2
  <2> HIDE DEF T
  <2> QED BY <2>1, <2>2, Induction
<1>4. Has(N)
  <2> HIDE DEF Has
  <2> QED BY <1>3
<1> QED BY <1>4 DEF IsWalk

\* The walk of a parser: where it begins and what each line does.
LEMMA WalkSteps ==
    ASSUME NEW kind, NEW lines, Len(lines) \in Nat
    PROVE  /\ WalkAfter(kind, lines)[0] = Start[kind]
           /\ \A n \in 1..Len(lines) : WalkAfter(kind, lines)[n]
                 = Step(kind, WalkAfter(kind, lines)[n - 1], lines[n])
<1> DEFINE N == Len(lines)
           F(h, n) == IF n = 0 THEN Start[kind] ELSE Step(kind, h[n - 1], lines[n])
           h == CHOOSE h : h = [n \in 0..N |-> F(h, n)]
<1>1. N \in Nat
  OBVIOUS
<1>2. WalkAfter(kind, lines) = h
  BY DEF WalkAfter
<1> HIDE DEF N
<1>3. \E g : g = [n \in 0..N |-> F(g, n)]
  <2>1. \E g : IsWalk(g, kind, lines, N)
    BY <1>1, WalkExists
  <2> QED BY <2>1 DEF IsWalk
<1>4. h = [n \in 0..N |-> F(h, n)]
  <2> HIDE DEF F
  <2> QED BY <1>3
<1>5. ASSUME NEW n \in 0..N PROVE h[n] = F(h, n)
  <2> HIDE DEF F, h
  <2> QED BY <1>4
<1> HIDE DEF h
<1> QED BY <1>1, <1>2, <1>5 DEF N

\* The entries copied after each round of a loop over N of them.
IsSelection(h, s, P, N) ==
    h = [n \in 0..N |-> IF n = 0 THEN <<>>
                        ELSE IF n \in P THEN Append(h[n - 1], s[n]) ELSE h[n - 1]]

\* The recursive function of SelectedAfter exists.
LEMMA SelectionExists ==
    ASSUME NEW s, NEW P, NEW N \in Nat
    PROVE  \E h : IsSelection(h, s, P, N)
<1> DEFINE F(h, n) == IF n = 0 THEN <<>>
                      ELSE IF n \in P THEN Append(h[n - 1], s[n]) ELSE h[n - 1]
           Has(k) == \E h : h = [n \in 0..k |-> F(h, n)]
           T == {k \in 0..N : Has(k)}
<1>1. Has(0)
  <2> DEFINE h == [n \in 0..0 |-> <<>>]
  <2>1. h = [n \in 0..0 |-> F(h, n)]
    OBVIOUS
  <2> QED BY <2>1
<1>2. ASSUME NEW k \in 1..N, Has(k - 1) PROVE Has(k)
  <2>1. PICK h : h = [n \in 0..(k - 1) |-> F(h, n)]
    BY <1>2
  <2> DEFINE g == [n \in 0..k |-> IF n = k THEN F(h, k) ELSE h[n]]
  <2>2. ASSUME NEW n \in 0..k PROVE g[n] = F(g, n)
    <3>1. CASE n = k
      BY <3>1
    <3>2. CASE n # k
      <4>1. h[n] = F(h, n)
        <5> HIDE DEF F
        <5>1. n \in 0..(k-1) BY <3>2
        <5> QED BY <5>1, <2>1
      <4>2. n # 0 => g[n - 1] = h[n - 1]
        BY <3>2
      <4> QED BY <4>1, <4>2, <3>2
    <3> QED BY <3>1, <3>2
  <2>3. g = [n \in 0..k |-> F(g, n)]
    <3> HIDE DEF F
    <3> QED BY <2>2
  <2> HIDE DEF F, g
  <2> QED BY <2>3
<1>3. \A k \in 0..N : k \in T
  <2>1. 0 \in T
    BY <1>1
  <2>2. ASSUME NEW n \in 1..N, n - 1 \in T PROVE n \in T
    <3> HIDE DEF Has
    <3> QED BY <1>2, <2>2
  <2> HIDE DEF T
  <2> QED BY <2>1, <2>2, Induction
<1>4. Has(N)
  <2> HIDE DEF Has
  <2> QED BY <1>3
<1> QED BY <1>4 DEF IsSelection

\* A loop that copies entries: where it begins and what each round does.
LEMMA SelectedSteps ==
    ASSUME NEW s, NEW P, Len(s) \in Nat
    PROVE  /\ SelectedAfter(s, P)[0] = <<>>
           /\ \A n \in 1..Len(s) : SelectedAfter(s, P)[n]
                 = IF n \in P THEN Append(SelectedAfter(s, P)[n - 1], s[n])
                   ELSE SelectedAfter(s, P)[n - 1]
<1> DEFINE N == Len(s)
           F(h, n) == IF n = 0 THEN <<>>
                      ELSE IF n \in P THEN Append(h[n - 1], s[n]) ELSE h[n - 1]
           h == CHOOSE h : h = [n \in 0..N |-> F(h, n)]
<1>1. N \in Nat
  OBVIOUS
<1>2. SelectedAfter(s, P) = h
  BY DEF SelectedAfter
<1> HIDE DEF N
<1>3. \E g : g = [n \in 0..N |-> F(g, n)]
  <2>1. \E g : IsSelection(g, s, P, N)
    BY <1>1, SelectionExists
  <2> QED BY <2>1 DEF IsSelection
<1>4. h = [n \in 0..N |-> F(h, n)]
  <2> HIDE DEF F
  <2> QED BY <1>3
<1>5. ASSUME NEW n \in 0..N PROVE h[n] = F(h, n)
  <2> HIDE DEF F, h
  <2> QED BY <1>4
<1> HIDE DEF h
<1> QED BY <1>1, <1>2, <1>5 DEF N

\* k lists the entries of s at the positions of P up to n, in order.
Lists(k, s, P, n) ==
    \E m \in Nat : \E f \in [1..m -> P \cap (1..n)] :
        /\ k = [i \in 1..m |-> s[f[i]]]
        /\ \A i, j \in 1..m : i < j => f[i] < f[j]
        /\ \A p \in P \cap (1..n) : \E i \in 1..m : f[i] = p

LEMMA ListsStep ==
    ASSUME NEW s, NEW P, NEW n \in Nat \ {0}, NEW k, Lists(k, s, P, n - 1)
    PROVE  Lists(IF n \in P THEN Append(k, s[n]) ELSE k, s, P, n)
<1>0. PICK m \in Nat : \E f \in [1..m -> P \cap (1..(n - 1))] :
        /\ k = [i \in 1..m |-> s[f[i]]]
        /\ \A i, j \in 1..m : i < j => f[i] < f[j]
        /\ \A p \in P \cap (1..(n - 1)) : \E i \in 1..m : f[i] = p
  BY DEF Lists
<1>1. PICK f \in [1..m -> P \cap (1..(n - 1))] :
        /\ k = [i \in 1..m |-> s[f[i]]]
        /\ \A i, j \in 1..m : i < j => f[i] < f[j]
        /\ \A p \in P \cap (1..(n - 1)) : \E i \in 1..m : f[i] = p
  BY <1>0
<1>2. CASE n \notin P
  <2>1. P \cap (1..n) = P \cap (1..(n - 1))
    BY <1>2
  <2>2. f \in [1..m -> P \cap (1..n)]
    BY <2>1
  <2>3. Lists(k, s, P, n)
    BY <1>1, <2>1, <2>2, ZenonT(60) DEF Lists
  <2> QED BY <1>2, <2>3
<1>3. CASE n \in P
  <2> DEFINE g == [i \in 1..(m + 1) |-> IF i = m + 1 THEN n ELSE f[i]]
  <2>1. \A i \in 1..m : f[i] \in P /\ f[i] \in 1..(n - 1) /\ g[i] = f[i]
    BY <1>1
  <2>2. g[m + 1] = n /\ m + 1 \in Nat
    BY <1>1
  <2>3. g \in [1..(m + 1) -> P \cap (1..n)]
    BY <1>1, <1>3
  <2>4. \A i, j \in 1..(m + 1) : i < j => g[i] < g[j]
    <3> SUFFICES ASSUME NEW i \in 1..(m + 1), NEW j \in 1..(m + 1), i < j
                 PROVE  g[i] < g[j]
      OBVIOUS
    <3>1. i \in 1..m
      BY <1>1
    <3>2. CASE j = m + 1
      <4> HIDE DEF g
      <4> QED BY <2>1, <2>2, <3>1, <3>2
    <3>3. CASE j \in 1..m
      <4> HIDE DEF g
      <4> QED BY <1>1, <2>1, <3>1, <3>3
    <3> QED BY <1>1, <3>2, <3>3
  <2>5. ASSUME NEW p \in P \cap (1..n) PROVE \E i \in 1..(m + 1) : g[i] = p
    <3>1. CASE p = n
      BY <1>1, <2>2, <3>1
    <3>2. CASE p # n
      <4>1. p \in P \cap (1..(n - 1))
        BY <3>2
      <4> QED BY <1>1, <2>1, <4>1
    <3> QED BY <3>1, <3>2
  <2>6. Append(k, s[n]) = [i \in 1..(m + 1) |-> s[g[i]]]
    <3> DEFINE S == {s[i] : i \in 1..n}
    <3>1. k \in [1..m -> S]
      BY <1>1, <2>1
    <3>2. k \in Seq(S) /\ Len(k) = m
      BY <1>1, <3>1
    <3>3. Append(k, s[n]) = [i \in 1..(m + 1) |-> IF i <= m THEN k[i] ELSE s[n]]
      <4> HIDE DEF S
      <4>1. s[n] \in S
        BY DEF S
      <4> QED BY <3>2, <4>1
    <3>4. \A i \in 1..(m + 1) : (IF i <= m THEN k[i] ELSE s[n]) = s[g[i]]
      BY <1>1, <2>1, <2>2
    <3> HIDE DEF g
    <3> QED BY <3>3, <3>4
  <2> HIDE DEF g
  <2>7. Lists(Append(k, s[n]), s, P, n)
    <3> DEFINE M == m + 1
               a == Append(k, s[n])
    <3>1. /\ M \in Nat /\ g \in [1..M -> P \cap (1..n)]
          /\ a = [i \in 1..M |-> s[g[i]]]
          /\ \A i, j \in 1..M : i < j => g[i] < g[j]
          /\ \A p \in P \cap (1..n) : \E i \in 1..M : g[i] = p
      BY <2>2, <2>3, <2>4, <2>5, <2>6
    <3> HIDE DEF M, a
    <3>2. Lists(a, s, P, n)
      BY <3>1 DEF Lists
    <3> QED BY <3>2 DEF a
  <2> QED BY <1>3, <2>7
<1> QED BY <1>2, <1>3

\* A loop that copies the entries at some positions lists them.
LEMMA SelectedLists ==
    ASSUME NEW s, NEW P, Len(s) \in Nat
    PROVE  \A n \in 0..Len(s) : Lists(SelectedAfter(s, P)[n], s, P, n)
<1> DEFINE T == {n \in 0..Len(s) : Lists(SelectedAfter(s, P)[n], s, P, n)}
<1>1. 0 \in T
  <2> DEFINE f == [i \in 1..0 |-> 0]
  <2>1. 1..0 = {}
    OBVIOUS
  <2>2. f \in [1..0 -> P \cap (1..0)]
    BY <2>1
  <2>3. <<>> = [i \in 1..0 |-> s[f[i]]]
    BY <2>1
  <2> HIDE DEF f
  <2>4. Lists(<<>>, s, P, 0)
    BY <2>1, <2>2, <2>3 DEF Lists
  <2> QED BY <2>4, SelectedSteps
<1>2. ASSUME NEW n \in 1..Len(s), n - 1 \in T PROVE n \in T
  <2>1. SelectedAfter(s, P)[n] = IF n \in P THEN Append(SelectedAfter(s, P)[n - 1], s[n])
                                 ELSE SelectedAfter(s, P)[n - 1]
    BY SelectedSteps
  <2>2. Lists(SelectedAfter(s, P)[n - 1], s, P, n - 1)
    BY <1>2
  <2>3. Lists(SelectedAfter(s, P)[n], s, P, n)
    <3> DEFINE k == SelectedAfter(s, P)[n - 1]
    <3>1. Lists(k, s, P, n - 1) /\ n \in Nat \ {0}
      BY <2>2
    <3> HIDE DEF k
    <3>2. Lists(IF n \in P THEN Append(k, s[n]) ELSE k, s, P, n)
      BY <3>1, ListsStep
    <3> QED BY <2>1, <3>2 DEF k
  <2> QED BY <2>3
<1> HIDE DEF T
<1>3. \A n \in 0..Len(s) : n \in T
  BY <1>1, <1>2, Induction
<1> QED BY <1>3 DEF T

-----------------------------------------------------------------------------
(* The NVM answer.                                                         *)

\* The first n lines are fields with different keys.
NvmSoFar(lines, n) ==
    LET fields == {i \in 1..n : lines[i] # Blank}
    IN  /\ \A i \in fields : lines[i].kind = "field" /\ lines[i].key \in NvmKeys
        /\ \A i, j \in fields : lines[i].key = lines[j].key => i = j

\* What the walk knows after n lines.
NvmKnows(s, lines, n) ==
    /\ s = [result |-> s.result, seen |-> s.seen]
    /\ s.result = "ok" <=> NvmSoFar(lines, n)
    /\ s.result = "ok" => s.seen = {lines[i].key : i \in {j \in 1..n : lines[j] # Blank}}

LEMMA NvmStepKnows ==
    ASSUME NEW s, NEW lines, NEW n \in Nat \ {0}, NvmKnows(s, lines, n - 1)
    PROVE  NvmKnows(NvmStep(s, lines[n]), lines, n)
<1> DEFINE before == {i \in 1..(n - 1) : lines[i] # Blank}
           fields == {i \in 1..n : lines[i] # Blank}
           line == lines[n]
           t == NvmStep(s, line)
           seen == s.seen
           result == s.result
<1>1. s = [result |-> result, seen |-> seen]
  BY DEF NvmKnows
<1>2. result = "ok" <=> NvmSoFar(lines, n - 1)
  BY DEF NvmKnows
<1>3. result = "ok" => seen = {lines[i].key : i \in before}
  BY DEF NvmKnows
<1> HIDE DEF seen, result
<1>4. NvmSoFar(lines, n) => NvmSoFar(lines, n - 1)
  BY DEF NvmSoFar
<1>5. CASE result # "ok"
  <2>1. t = s
    BY <1>1, <1>5 DEF NvmStep
  <2> QED BY <1>1, <1>2, <1>4, <1>5, <2>1 DEF NvmKnows
<1>6. CASE result = "ok" /\ line = Blank
  <2>1. t = s
    BY <1>1, <1>6 DEF NvmStep
  <2>2. fields = before
    BY <1>6
  <2>3. NvmSoFar(lines, n)
    BY <1>2, <1>6, <2>2 DEF NvmSoFar
  <2> QED BY <1>1, <1>2, <1>3, <1>6, <2>1, <2>2, <2>3 DEF NvmKnows
<1>7. CASE result = "ok" /\ line # Blank
  <2>1. fields = before \cup {n}
    BY <1>7
  <2>2. n \in fields /\ n \notin before /\ before \subseteq fields
    BY <1>7
  <2>3. CASE line.kind # "field" \/ line.key \notin NvmKeys \ seen
    <3>1. t = [result |-> "malformed", seen |-> seen]
      BY <1>1, <1>7, <2>3 DEF NvmStep, Stops
    <3>2. ~NvmSoFar(lines, n)
      <4>1. CASE line.kind # "field" \/ line.key \notin NvmKeys
        BY <2>2, <4>1 DEF NvmSoFar
      <4>2. CASE line.key \in seen
        <5>1. PICK i \in before : lines[i].key = line.key
          BY <1>3, <1>7, <4>2
        <5> QED BY <2>2, <5>1 DEF NvmSoFar
      <4> QED BY <2>3, <4>1, <4>2
    <3> QED BY <3>1, <3>2 DEF NvmKnows
  <2>4. CASE line.kind = "field" /\ line.key \in NvmKeys /\ line.key \notin seen
    <3>1. t = [result |-> "ok", seen |-> seen \cup {line.key}]
      BY <1>1, <1>7, <2>4 DEF NvmStep
    <3>2. NvmSoFar(lines, n)
      <4>1. \A i \in before : lines[i].key # line.key
        BY <1>3, <1>7, <2>4
      <4>2. NvmSoFar(lines, n - 1)
        BY <1>2, <1>7
      <4> QED BY <2>1, <2>4, <4>1, <4>2 DEF NvmSoFar
    <3>3. seen \cup {line.key} = {lines[i].key : i \in fields}
      BY <1>3, <1>7, <2>1
    <3> QED BY <3>1, <3>2, <3>3 DEF NvmKnows
  <2> QED BY <2>3, <2>4
<1> QED BY <1>5, <1>6, <1>7

\* The NVM answer is accepted exactly if each key is there once, and nothing
\* else (l850gl_l850_nvm_parse).
LEMMA NvmExact ==
    ASSUME NEW S, NEW lines \in Seq(S)
    PROVE  NvmParse(lines) = "ok" <=> NvmIsGood(lines)
<1> DEFINE W(n) == WalkAfter("nvm", lines)[n]
           T == {n \in 0..Len(lines) : NvmKnows(W(n), lines, n)}
           N == Len(lines)
<1>1. Len(lines) \in Nat /\ DOMAIN lines = 1..Len(lines)
  OBVIOUS
<1>2. 0 \in T
  <2>1. W(0) = [result |-> "ok", seen |-> {}]
    BY <1>1, WalkSteps DEF Start
  <2>2. NvmKnows([result |-> "ok", seen |-> {}], lines, 0)
    BY DEF NvmKnows, NvmSoFar
  <2> QED BY <1>1, <2>1, <2>2
<1>3. ASSUME NEW n \in 1..Len(lines), n - 1 \in T PROVE n \in T
  <2>1. W(n) = NvmStep(W(n - 1), lines[n])
    BY <1>1, WalkSteps DEF Step
  <2>2. NvmKnows(W(n - 1), lines, n - 1) /\ n \in Nat \ {0}
    BY <1>1, <1>3
  <2> HIDE DEF W
  <2>3. NvmKnows(W(n), lines, n)
    BY <2>1, <2>2, NvmStepKnows
  <2> QED BY <2>3
<1>4. NvmKnows(W(N), lines, N)
  <2> HIDE DEF T
  <2>1. \A n \in 0..Len(lines) : n \in T
    BY <1>1, <1>2, <1>3, Induction
  <2> QED BY <1>1, <2>1 DEF T
<1>5. Walk("nvm", lines) = W(N)
  BY DEF Walk
<1> HIDE DEF W
<1>6. NvmParse(lines) = "ok" <=> W(N).result = "ok" /\ W(N).seen = NvmKeys
  BY <1>5 DEF NvmParse, NvmKeys
<1>7. NvmIsGood(lines) <=> /\ NvmSoFar(lines, N)
                           /\ {lines[i].key : i \in {j \in 1..N : lines[j] # Blank}} = NvmKeys
  BY <1>1 DEF NvmIsGood, NvmSoFar
<1> QED BY <1>4, <1>6, <1>7 DEF NvmKnows

-----------------------------------------------------------------------------
(* The voltage.                                                            *)

\* What the walk knows after n lines: whether there was more than one that is
\* not blank, and the one.
VoltageKnows(s, lines, n) ==
    LET contents == {i \in 1..n : lines[i] # Blank}
    IN  /\ s = [result |-> s.result, record |-> s.record]
        /\ s.result = "ok" <=> \A i, j \in contents : i = j
        /\ s.result = "ok" /\ contents = {} => s.record = Blank
        /\ s.result = "ok" => \A i \in contents : s.record = lines[i]

LEMMA VoltageStepKnows ==
    ASSUME NEW s, NEW lines, NEW n \in Nat \ {0}, VoltageKnows(s, lines, n - 1)
    PROVE  VoltageKnows(VoltageStep(s, lines[n]), lines, n)
<1> DEFINE before == {i \in 1..(n - 1) : lines[i] # Blank}
           contents == {i \in 1..n : lines[i] # Blank}
           line == lines[n]
           t == VoltageStep(s, line)
           record == s.record
           result == s.result
<1>1. s = [result |-> result, record |-> record]
  BY DEF VoltageKnows
<1>2. result = "ok" <=> \A i, j \in before : i = j
  BY DEF VoltageKnows
<1>3. result = "ok" => /\ before = {} => record = Blank
                       /\ \A i \in before : record = lines[i]
  BY DEF VoltageKnows
<1> HIDE DEF record, result
<1>4. before \subseteq contents /\ \A i \in before : i # n
  OBVIOUS
<1>5. CASE result # "ok"
  <2>1. t = s
    BY <1>1, <1>5 DEF VoltageStep
  <2> QED BY <1>1, <1>2, <1>4, <1>5, <2>1 DEF VoltageKnows
<1>6. CASE result = "ok" /\ line = Blank
  <2>1. t = s
    BY <1>1, <1>6 DEF VoltageStep
  <2>2. contents = before
    BY <1>6
  <2> QED BY <1>1, <1>2, <1>3, <1>6, <2>1, <2>2 DEF VoltageKnows
<1>7. CASE result = "ok" /\ line # Blank
  <2>1. contents = before \cup {n}
    BY <1>7
  <2>2. CASE record # Blank
    <3>1. t = [result |-> "malformed", record |-> record]
      BY <1>1, <1>7, <2>2 DEF VoltageStep, Stops
    <3>2. PICK i \in before : TRUE
      BY <1>3, <1>7, <2>2
    <3> QED BY <1>4, <2>1, <3>1, <3>2 DEF VoltageKnows
  <2>3. CASE record = Blank
    <3>1. t = [result |-> "ok", record |-> line]
      BY <1>1, <1>7, <2>3 DEF VoltageStep
    <3>2. contents = {n}
      BY <1>3, <1>7, <2>1, <2>3
    <3> QED BY <3>1, <3>2 DEF VoltageKnows
  <2> QED BY <2>2, <2>3
<1> QED BY <1>5, <1>6, <1>7

\* A voltage is accepted exactly if the answer is one good reading
\* (l850gl_l850_voltage_parse).
LEMMA VoltageExact ==
    ASSUME NEW S, NEW lines \in Seq(S)
    PROVE  VoltageParse(lines) = "ok" <=> VoltageIsGood(lines)
<1> DEFINE W(n) == WalkAfter("voltage", lines)[n]
           T == {n \in 0..Len(lines) : VoltageKnows(W(n), lines, n)}
           N == Len(lines)
<1>1. Len(lines) \in Nat /\ DOMAIN lines = 1..Len(lines)
  OBVIOUS
<1>2. 0 \in T
  <2>1. W(0) = [result |-> "ok", record |-> Blank]
    BY <1>1, WalkSteps DEF Start
  <2>2. VoltageKnows([result |-> "ok", record |-> Blank], lines, 0)
    BY DEF VoltageKnows
  <2> QED BY <1>1, <2>1, <2>2
<1>3. ASSUME NEW n \in 1..Len(lines), n - 1 \in T PROVE n \in T
  <2>1. W(n) = VoltageStep(W(n - 1), lines[n])
    BY <1>1, WalkSteps DEF Step
  <2>2. VoltageKnows(W(n - 1), lines, n - 1) /\ n \in Nat \ {0}
    BY <1>1, <1>3
  <2> HIDE DEF W
  <2>3. VoltageKnows(W(n), lines, n)
    BY <2>1, <2>2, VoltageStepKnows
  <2> QED BY <2>3
<1>4. VoltageKnows(W(N), lines, N)
  <2> HIDE DEF T
  <2>1. \A n \in 0..Len(lines) : n \in T
    BY <1>1, <1>2, <1>3, Induction
  <2> QED BY <1>1, <2>1 DEF T
<1>5. Walk("voltage", lines) = W(N)
  BY DEF Walk
<1> HIDE DEF W
<1>6. VoltageParse(lines) = "ok" <=>
        W(N).result = "ok" /\ W(N).record.kind = "reading" /\ W(N).record.verdict = "ok"
  BY <1>5 DEF VoltageParse, Blank
<1>7. ASSUME VoltageIsGood(lines)
      PROVE  W(N).result = "ok" /\ W(N).record.kind = "reading" /\ W(N).record.verdict = "ok"
  <2>1. PICK i \in 1..N : /\ lines[i].kind = "reading" /\ lines[i].verdict = "ok"
                          /\ \A j \in (1..N) \ {i} : lines[j] = Blank
    BY <1>1, <1>7 DEF VoltageIsGood
  <2>2. lines[i] # Blank
    BY <2>1 DEF Blank
  <2> QED BY <1>4, <2>1, <2>2 DEF VoltageKnows
<1>8. ASSUME W(N).result = "ok", W(N).record.kind = "reading", W(N).record.verdict = "ok"
      PROVE  VoltageIsGood(lines)
  <2>1. W(N).record # Blank
    BY <1>8 DEF Blank
  <2>2. PICK i \in 1..N : lines[i] # Blank /\ W(N).record = lines[i]
    BY <1>4, <1>8, <2>1 DEF VoltageKnows
  <2>3. \A j \in (1..N) \ {i} : lines[j] = Blank
    BY <1>4, <1>8, <2>2 DEF VoltageKnows
  <2> QED BY <1>1, <1>8, <2>2, <2>3 DEF VoltageIsGood
<1> QED BY <1>6, <1>7, <1>8

-----------------------------------------------------------------------------
(* Cells.                                                                  *)

CellPositions(lines) == {i \in DOMAIN lines : lines[i] \notin {Blank, Ok}}

\* The first n lines are good cells, not too many, maybe with OK at the end.
CellsSoFar(lines, n) ==
    LET cells == {i \in 1..n : lines[i] \notin {Blank, Ok}}
    IN  /\ Len(SelectedAfter(lines, CellPositions(lines))[n]) <= MaxResults
        /\ \A i \in cells : lines[i].kind = "cell" /\ lines[i].verdict = "ok"
        /\ \A i, j \in cells : lines[i].serving /\ lines[j].serving => i = j
        /\ \A i, j \in 1..n : lines[i] = Ok /\ lines[j] # Blank => j <= i

\* What the walk knows after n lines.
CellsKnow(s, lines, n) ==
    /\ s = [result |-> s.result, ended |-> s.ended, cells |-> s.cells]
    /\ s.result = "ok" <=> CellsSoFar(lines, n)
    /\ s.result = "ok" =>
         /\ s.cells = SelectedAfter(lines, CellPositions(lines))[n]
         /\ s.ended = (\E i \in 1..n : lines[i] = Ok)

\* The cells copied from the first n lines are those of some of the lines.
LEMMA CellsCopied ==
    ASSUME NEW S, NEW lines \in Seq(S), NEW n \in 0..Len(lines)
    PROVE  LET k == SelectedAfter(lines, CellPositions(lines))[n]
           IN  /\ Len(k) \in Nat /\ DOMAIN k = 1..Len(k)
               /\ k \in Seq(S)
               /\ \A i \in DOMAIN k : \E p \in 1..n : p \in CellPositions(lines) /\ k[i] = lines[p]
               /\ \A p \in 1..n : p \in CellPositions(lines) => \E i \in DOMAIN k : k[i] = lines[p]
<1> DEFINE P == CellPositions(lines)
           k == SelectedAfter(lines, P)[n]
<1>1. Lists(k, lines, P, n)
  BY SelectedLists
<1> HIDE DEF k
<1>2. PICK m \in Nat : \E f \in [1..m -> P \cap (1..n)] :
        /\ k = [i \in 1..m |-> lines[f[i]]]
        /\ \A p \in P \cap (1..n) : \E i \in 1..m : f[i] = p
  BY <1>1 DEF Lists
<1>3. PICK f \in [1..m -> P \cap (1..n)] :
        /\ k = [i \in 1..m |-> lines[f[i]]]
        /\ \A p \in P \cap (1..n) : \E i \in 1..m : f[i] = p
  BY <1>2
<1>4. \A i \in 1..m : f[i] \in P /\ f[i] \in 1..n /\ k[i] = lines[f[i]] /\ k[i] \in S
  BY <1>3
<1>5. k \in [1..m -> S] /\ DOMAIN k = 1..m
  BY <1>3, <1>4
<1>6. k \in Seq(S) /\ Len(k) = m
  BY <1>5
<1> HIDE DEF P
<1>7. \A i \in DOMAIN k : \E p \in 1..n : p \in P /\ k[i] = lines[p]
  BY <1>4, <1>5
<1>8. \A p \in 1..n : p \in P => \E i \in DOMAIN k : k[i] = lines[p]
  BY <1>3, <1>5
<1> QED BY <1>5, <1>6, <1>7, <1>8 DEF k, P

LEMMA CellStepKnows ==
    ASSUME NEW S, NEW lines \in Seq(S), NEW n \in 1..Len(lines), NEW s,
           CellsKnow(s, lines, n - 1)
    PROVE  CellsKnow(CellStep(s, lines[n]), lines, n)
<1> DEFINE P == CellPositions(lines)
           before == {i \in 1..(n - 1) : lines[i] \notin {Blank, Ok}}
           after == {i \in 1..n : lines[i] \notin {Blank, Ok}}
           line == lines[n]
           t == CellStep(s, line)
           result == s.result
           ended == s.ended
           cells == s.cells
           K(m) == SelectedAfter(lines, P)[m]
<1>1. s = [result |-> result, ended |-> ended, cells |-> cells]
  BY DEF CellsKnow
<1>2. result = "ok" <=> CellsSoFar(lines, n - 1)
  BY DEF CellsKnow
<1>3. result = "ok" => cells = K(n - 1) /\ ended = (\E i \in 1..(n - 1) : lines[i] = Ok)
  BY DEF CellsKnow
<1> HIDE DEF result, ended, cells
<1>4. /\ n \in Nat \ {0} /\ n - 1 \in 0..Len(lines) /\ DOMAIN lines = 1..Len(lines)
      /\ line \in S
  OBVIOUS
<1>5. K(n) = IF n \in P THEN Append(K(n - 1), line) ELSE K(n - 1)
  BY SelectedSteps
<1>6. /\ K(n - 1) \in Seq(S) /\ Len(K(n - 1)) \in Nat
      /\ \A i \in DOMAIN K(n - 1) : \E p \in 1..(n - 1) : p \in P /\ K(n - 1)[i] = lines[p]
      /\ \A p \in 1..(n - 1) : p \in P => \E i \in DOMAIN K(n - 1) : K(n - 1)[i] = lines[p]
  BY <1>4, CellsCopied, ZenonT(60)
<1> HIDE DEF K
<1>7. n \in P => Len(K(n)) = Len(K(n - 1)) + 1
  BY <1>4, <1>5, <1>6
<1>8. n \notin P => K(n) = K(n - 1)
  BY <1>5
<1>9. \A m : CellsSoFar(lines, m) <=>
        /\ Len(K(m)) <= MaxResults
        /\ \A i \in {j \in 1..m : lines[j] \notin {Blank, Ok}} :
              lines[i].kind = "cell" /\ lines[i].verdict = "ok"
        /\ \A i, j \in {k \in 1..m : lines[k] \notin {Blank, Ok}} :
              lines[i].serving /\ lines[j].serving => i = j
        /\ \A i, j \in 1..m : lines[i] = Ok /\ lines[j] # Blank => j <= i
  BY DEF CellsSoFar, K
<1>10. CellsSoFar(lines, n) => CellsSoFar(lines, n - 1)
  <2> SUFFICES ASSUME CellsSoFar(lines, n) PROVE CellsSoFar(lines, n - 1)
    OBVIOUS
  <2>1. Len(K(n - 1)) <= MaxResults
    BY <1>6, <1>7, <1>8, <1>9, LimitsAssumption
  <2>2. \A i \in 1..(n - 1) : i \in 1..n
    BY <1>4
  <2> QED BY <1>9, <2>1, <2>2
<1>11. P \cap {n} = {} <=> line \in {Blank, Ok}
  BY <1>4 DEF CellPositions
<1>12. CASE result # "ok"
  <2>1. t = s
    BY <1>1, <1>12 DEF CellStep
  <2> QED BY <1>1, <1>2, <1>10, <1>12, <2>1 DEF CellsKnow
<1>13. CASE result = "ok" /\ line = Blank
  <2>1. t = s
    BY <1>1, <1>13 DEF CellStep
  <2>2. n \notin P /\ K(n) = K(n - 1)
    BY <1>8, <1>11, <1>13
  <2>3. \A i \in 1..n : i \in 1..(n - 1) \/ lines[i] = Blank
    BY <1>4, <1>13
  <2>4. CellsSoFar(lines, n)
    <3>1. CellsSoFar(lines, n - 1)
      BY <1>2, <1>13
    <3>2. \A i, j \in 1..n : lines[i] = Ok /\ lines[j] # Blank => j <= i
      BY <1>9, <2>3, <3>1 DEF Ok, Blank
    <3> QED BY <1>9, <2>2, <2>3, <3>1, <3>2
  <2>5. (\E i \in 1..n : lines[i] = Ok) <=> (\E i \in 1..(n - 1) : lines[i] = Ok)
    BY <1>4, <2>3 DEF Ok, Blank
  <2> QED BY <1>1, <1>3, <1>13, <2>1, <2>2, <2>4, <2>5 DEF CellsKnow, K
<1>14. CASE result = "ok" /\ line = Ok
  <2>1. n \notin P /\ K(n) = K(n - 1) /\ line # Blank
    BY <1>8, <1>11, <1>14 DEF Ok, Blank
  <2>2. CASE ended
    <3>1. t = [result |-> "malformed", ended |-> ended, cells |-> cells]
      BY <1>1, <1>14, <2>1, <2>2 DEF CellStep, Stops
    <3>2. ~CellsSoFar(lines, n)
      <4>1. PICK i \in 1..(n - 1) : lines[i] = Ok
        BY <1>3, <1>14, <2>2
      <4>2. i \in 1..n /\ n \in 1..n /\ ~(n <= i)
        BY <1>4
      <4> QED BY <1>9, <2>1, <4>1, <4>2
    <3> QED BY <3>1, <3>2 DEF CellsKnow
  <2>3. CASE ~ended
    <3>1. t = [result |-> "ok", ended |-> TRUE, cells |-> cells]
      BY <1>1, <1>14, <2>1, <2>3 DEF CellStep
    <3>2. CellsSoFar(lines, n)
      <4>1. CellsSoFar(lines, n - 1) /\ \A i \in 1..(n - 1) : lines[i] # Ok
        BY <1>2, <1>3, <1>14, <2>3
      <4>2. \A i \in 1..n : i \in 1..(n - 1) \/ i = n
        BY <1>4
      <4>3. \A i, j \in 1..n : lines[i] = Ok /\ lines[j] # Blank => j <= i
        BY <4>1, <4>2
      <4> QED BY <1>9, <1>14, <2>1, <4>1, <4>2, <4>3
    <3>3. \E i \in 1..n : lines[i] = Ok
      BY <1>4, <1>14
    <3> QED BY <1>3, <1>14, <2>1, <3>1, <3>2, <3>3 DEF CellsKnow, K
  <2> QED BY <2>2, <2>3
<1>15. CASE result = "ok" /\ line \notin {Blank, Ok}
  <2>1. n \in P /\ Len(K(n)) = Len(K(n - 1)) + 1
    BY <1>7, <1>11, <1>15
  <2>2. cells = K(n - 1) /\ ended = (\E i \in 1..(n - 1) : lines[i] = Ok)
    BY <1>3, <1>15
  <2>3. n \in after /\ \A i \in before : i \in after /\ i # n
    BY <1>4, <1>15
  <2>4. CellsSoFar(lines, n - 1)
    BY <1>2, <1>15
  <2>5. (\E i \in DOMAIN cells : cells[i].serving) <=> \E p \in before : lines[p].serving
    BY <1>4, <1>6, <2>2 DEF CellPositions
  <2> DEFINE fine == /\ Len(cells) < MaxResults /\ ~ended
                     /\ line.kind = "cell" /\ line.verdict = "ok"
                     /\ ~(line.serving /\ \E i \in DOMAIN cells : cells[i].serving)
  <2>8. Len(cells) < MaxResults <=> ~(Len(cells) >= MaxResults)
    BY <1>6, <2>2, LimitsAssumption
  <2>9. /\ s.result = "ok" /\ s.cells = cells /\ s.ended = ended
        /\ \A r : Stops(s, r) = [result |-> r, ended |-> ended, cells |-> cells]
    BY <1>1, <1>15 DEF Stops
  <2>6. CASE ~fine
    <3>1. PICK r : r # "ok" /\ t = [result |-> r, ended |-> ended, cells |-> cells]
      <4>1. CASE Len(cells) >= MaxResults
        <5>1. t = Stops(s, "too_many")
          BY <1>15, <2>9, <4>1 DEF CellStep
        <5> QED BY <2>9, <5>1
      <4>2. CASE ~(Len(cells) >= MaxResults) /\ (ended \/ line.kind # "cell")
        <5>1. t = Stops(s, "malformed")
          BY <1>15, <2>9, <4>2 DEF CellStep
        <5> QED BY <2>9, <5>1
      <4>3. CASE ~(Len(cells) >= MaxResults) /\ ~ended /\ line.kind = "cell" /\ line.verdict # "ok"
        BY <1>15, <2>9, <4>3 DEF CellStep
      <4>4. CASE /\ ~(Len(cells) >= MaxResults) /\ ~ended /\ line.kind = "cell"
                 /\ line.verdict = "ok"
                 /\ line.serving /\ \E i \in DOMAIN cells : cells[i].serving
        BY <1>15, <2>9, <4>4 DEF CellStep
      <4> QED BY <2>8, <2>6, <4>1, <4>2, <4>3, <4>4
    <3>2. ~CellsSoFar(lines, n)
      <4> SUFFICES ASSUME CellsSoFar(lines, n) PROVE fine
        BY <2>6
      <4>1. Len(cells) < MaxResults
        BY <1>6, <1>9, <2>1, <2>2, LimitsAssumption
      <4>2. ~ended
        BY <1>4, <1>9, <1>15, <2>2
      <4>3. line.kind = "cell" /\ line.verdict = "ok"
        BY <1>9, <2>3
      <4>4. ~(line.serving /\ \E p \in before : lines[p].serving)
        BY <1>9, <2>3
      <4> QED BY <4>1, <4>2, <4>3, <4>4, <2>5
    <3>3. /\ t.result # "ok"
          /\ t = [result |-> t.result, ended |-> t.ended, cells |-> t.cells]
      <4> HIDE DEF t
      <4> QED BY <3>1
    <3> QED BY <3>2, <3>3 DEF CellsKnow
  <2>7. CASE fine
    <3>1. t = [result |-> "ok", ended |-> ended, cells |-> Append(cells, line)]
      <4>1. t = [s EXCEPT !.cells = Append(@, line)]
        BY <1>15, <2>8, <2>9, <2>7 DEF CellStep
      <4> QED BY <1>1, <1>15, <4>1
    <3>2. \A i \in 1..n : i \in 1..(n - 1) \/ i = n
      BY <1>4
    <3>3. CellsSoFar(lines, n)
      <4>1. Len(K(n)) <= MaxResults
        BY <1>6, <2>1, <2>2, <2>7, LimitsAssumption
      <4>2. \A i \in after : lines[i].kind = "cell" /\ lines[i].verdict = "ok"
        BY <1>9, <2>4, <2>7, <3>2
      <4>3. \A i, j \in after : lines[i].serving /\ lines[j].serving => i = j
        BY <1>9, <2>4, <2>5, <2>7, <3>2
      <4>4. \A i, j \in 1..n : lines[i] = Ok /\ lines[j] # Blank => j <= i
        BY <1>15, <2>2, <2>7, <3>2
      <4> QED BY <1>9, <4>1, <4>2, <4>3, <4>4
    <3>4. (\E i \in 1..n : lines[i] = Ok) <=> (\E i \in 1..(n - 1) : lines[i] = Ok)
      BY <1>4, <1>15, <3>2
    <3>5. Append(cells, line) = K(n)
      BY <1>5, <2>1, <2>2
    <3> QED BY <2>2, <3>1, <3>3, <3>4, <3>5 DEF CellsKnow, K
  <2> QED BY <2>6, <2>7
<1> QED BY <1>12, <1>13, <1>14, <1>15

\* The cells are accepted exactly if they are good, and then all of them are
\* returned in order (l850gl_l850_cell_parse).
LEMMA CellsAreExact ==
    ASSUME NEW S, NEW lines \in Seq(S)
    PROVE  CellsExact(lines)
<1> DEFINE W(n) == WalkAfter("cells", lines)[n]
           T == {n \in 0..Len(lines) : CellsKnow(W(n), lines, n)}
           N == Len(lines)
           P == CellPositions(lines)
           k == Selected(lines, P)
           s == W(N)
<1>1. Len(lines) \in Nat /\ DOMAIN lines = 1..Len(lines)
  OBVIOUS
<1>2. 0 \in T
  <2>1. W(0) = [result |-> "ok", ended |-> FALSE, cells |-> <<>>]
    BY <1>1, WalkSteps DEF Start
  <2>2. SelectedAfter(lines, P)[0] = <<>> /\ Len(<<>>) = 0
    BY <1>1, SelectedSteps
  <2>3. CellsSoFar(lines, 0)
    BY <2>2, LimitsAssumption DEF CellsSoFar
  <2>4. CellsKnow([result |-> "ok", ended |-> FALSE, cells |-> <<>>], lines, 0)
    BY <2>2, <2>3 DEF CellsKnow
  <2> QED BY <1>1, <2>1, <2>4
<1>3. ASSUME NEW n \in 1..Len(lines), n - 1 \in T PROVE n \in T
  <2>1. W(n) = CellStep(W(n - 1), lines[n])
    BY <1>1, WalkSteps DEF Step
  <2>2. CellsKnow(W(n - 1), lines, n - 1)
    BY <1>1, <1>3
  <2> HIDE DEF W
  <2>3. CellsKnow(W(n), lines, n)
    BY <2>1, <2>2, CellStepKnows
  <2> QED BY <2>3
<1>4. CellsKnow(s, lines, N)
  <2> HIDE DEF T
  <2>1. \A n \in 0..Len(lines) : n \in T
    BY <1>1, <1>2, <1>3, Induction
  <2> QED BY <1>1, <2>1 DEF T
<1>5. Walk("cells", lines) = s
  BY DEF Walk
<1>6. Len(k) \in Nat /\ k \in Seq(S) /\ k = SelectedAfter(lines, P)[N]
  BY <1>1, CellsCopied DEF Selected
<1> HIDE DEF s, k
<1>7. s.result = "ok" <=> CellsSoFar(lines, N)
  BY <1>4 DEF CellsKnow
<1>8. s.result = "ok" => s.cells = k
  BY <1>4, <1>6 DEF CellsKnow
<1>9. CellParse(lines).result = "ok" <=> s.result = "ok" /\ s.cells # <<>>
  BY <1>5 DEF CellParse
<1>10. CellParse(lines).result = "ok" => CellParse(lines).cells = s.cells
  BY <1>5 DEF CellParse
<1>11. CellsAreGood(lines) <=> CellsSoFar(lines, N) /\ Len(k) >= 1
  <2>1. CellPositions(lines) = {i \in 1..N : lines[i] \notin {Blank, Ok}}
    BY <1>1 DEF CellPositions
  <2>2. Len(k) \in 1..MaxResults <=> Len(k) <= MaxResults /\ Len(k) >= 1
    BY <1>6, LimitsAssumption
  <2> QED BY <1>1, <1>6, <2>1, <2>2 DEF CellsAreGood, CellsSoFar, k, CellPositions
<1>12. k # <<>> <=> Len(k) >= 1
  BY <1>6
<1>13. CellParse(lines).result = "ok" <=> CellsAreGood(lines)
  BY <1>7, <1>8, <1>9, <1>11, <1>12
<1>14. ASSUME CellsAreGood(lines)
       PROVE  P = {i \in DOMAIN lines : lines[i].kind = "cell"}
  BY <1>14 DEF CellPositions, CellsAreGood, Ok, Blank
<1> QED BY <1>8, <1>9, <1>10, <1>13, <1>14 DEF CellsExact, k

-----------------------------------------------------------------------------
(* Carriers.                                                               *)

\* A line as AnswersAssumption describes it.
CarrierLine(l) ==
    \/ l \in {Blank, Other}
    \/ l.kind = "header" /\ l.slots \in Nat
    \/ l.kind = "primary" /\ l.index = 1 /\ l.active = TRUE
    \/ l.kind = "secondary" /\ l.index \in Nat /\ l.active \in BOOLEAN

RecordsOf(lines, n) == {i \in 1..n : IsRecord(lines[i])}

NothingYet(lines, n) == \A i \in 1..n : lines[i] = Blank

\* The first n lines are a header at h and records for different slots of it.
HeadedBy(lines, n, h) ==
    /\ h \in 1..n /\ lines[h].kind = "header" /\ lines[h].slots \in 1..MaxSlots
    /\ \A i \in (1..n) \ {h} : lines[i] = Blank \/ (IsRecord(lines[i]) /\ i > h)
    /\ \A i \in RecordsOf(lines, n) : /\ lines[i].verdict = "ok"
                                      /\ lines[i].index \in 1..lines[h].slots
                                      /\ lines[i].kind = "primary" <=> lines[i].index = 1
    /\ \A i, j \in RecordsOf(lines, n) : lines[i].index = lines[j].index => i = j

CarriersSoFar(lines, n) == NothingYet(lines, n) \/ \E h \in 1..n : HeadedBy(lines, n, h)

\* The slots hold the records of the first n lines.
SlotsHold(slots, lines, n) ==
    /\ DOMAIN slots = {lines[i].index : i \in RecordsOf(lines, n)}
    /\ \A i \in RecordsOf(lines, n) : slots[lines[i].index] = lines[i]
    /\ slots = [i \in DOMAIN slots |-> slots[i]]

\* What the walk knows after n lines.
CarriersKnow(s, lines, n) ==
    /\ s = [result |-> s.result, declared |-> s.declared, count |-> s.count, slots |-> s.slots]
    /\ s.result = "ok" <=> CarriersSoFar(lines, n)
    /\ s.result = "ok" =>
         /\ NothingYet(lines, n) => s.declared = 0
         /\ \A h \in 1..n : HeadedBy(lines, n, h) => s.declared = lines[h].slots
         /\ SlotsHold(s.slots, lines, n)
         /\ IsFiniteSet(DOMAIN s.slots) /\ s.count = Cardinality(DOMAIN s.slots)

\* A blank, another text, a header and a record are told apart.
LEMMA LinesApart ==
    ASSUME NEW l, CarrierLine(l)
    PROVE  /\ l.kind \in {"blank", "other", "header", "primary", "secondary"}
           /\ l = Blank <=> l.kind = "blank"
           /\ l = Other <=> l.kind = "other"
           /\ IsRecord(l) <=> l.kind \in {"primary", "secondary"}
           /\ IsRecord(l) => l.index \in Nat
           /\ l.kind = "primary" => l.index = 1 /\ l.active = TRUE
           /\ l.kind = "header" => l.slots \in Nat
<1>1. Blank.kind = "blank" /\ Other.kind = "other"
  BY DEF Blank, Other
<1>2. CASE l = Blank
  BY <1>1, <1>2 DEF IsRecord
<1>3. CASE l = Other
  BY <1>1, <1>3 DEF IsRecord
<1>4. CASE l.kind = "header" /\ l.slots \in Nat
  BY <1>1, <1>4 DEF IsRecord
<1>5. CASE l.kind = "primary" /\ l.index = 1 /\ l.active = TRUE
  BY <1>1, <1>5 DEF IsRecord
<1>6. CASE l.kind = "secondary" /\ l.index \in Nat /\ l.active \in BOOLEAN
  BY <1>1, <1>6 DEF IsRecord
<1> QED BY <1>2, <1>3, <1>4, <1>5, <1>6 DEF CarrierLine

\* A prefix of good lines is good, and has the same header.
LEMMA CarriersPrefix ==
    ASSUME NEW lines, NEW n \in Nat \ {0}, \A i \in 1..n : CarrierLine(lines[i])
    PROVE  /\ CarriersSoFar(lines, n) => CarriersSoFar(lines, n - 1)
           /\ \A h \in 1..(n - 1) : HeadedBy(lines, n, h) => HeadedBy(lines, n - 1, h)
           /\ NothingYet(lines, n) => NothingYet(lines, n - 1)
           /\ HeadedBy(lines, n, n) => NothingYet(lines, n - 1)
<1>1. \A i \in 1..(n - 1) : i \in 1..n /\ i # n /\ ~(i > n)
  OBVIOUS
<1>2. RecordsOf(lines, n - 1) \subseteq RecordsOf(lines, n)
  BY <1>1 DEF RecordsOf
<1>3. ASSUME NEW h \in 1..(n - 1), HeadedBy(lines, n, h) PROVE HeadedBy(lines, n - 1, h)
  BY <1>1, <1>2, <1>3 DEF HeadedBy
<1>4. NothingYet(lines, n) => NothingYet(lines, n - 1)
  BY <1>1 DEF NothingYet
<1>5. HeadedBy(lines, n, n) => NothingYet(lines, n - 1)
  BY <1>1 DEF HeadedBy, NothingYet
<1>6. ASSUME NEW h \in 1..n PROVE h \in 1..(n - 1) \/ h = n
  OBVIOUS
<1>7. CarriersSoFar(lines, n) => CarriersSoFar(lines, n - 1)
  BY <1>3, <1>4, <1>5, <1>6 DEF CarriersSoFar
<1> QED BY <1>3, <1>4, <1>5, <1>7

LEMMA CaStepKnows ==
    ASSUME NEW lines, NEW n \in Nat \ {0}, \A i \in 1..n : CarrierLine(lines[i]),
           NEW s, CarriersKnow(s, lines, n - 1)
    PROVE  CarriersKnow(CaStep(s, lines[n]), lines, n)
<1> DEFINE line == lines[n]
           t == CaStep(s, line)
           result == s.result
           declared == s.declared
           count == s.count
           slots == s.slots
<1>1. s = [result |-> result, declared |-> declared, count |-> count, slots |-> slots]
  BY DEF CarriersKnow
<1>2. result = "ok" <=> CarriersSoFar(lines, n - 1)
  BY DEF CarriersKnow
<1>3. result = "ok" =>
        /\ NothingYet(lines, n - 1) => declared = 0
        /\ \A h \in 1..(n - 1) : HeadedBy(lines, n - 1, h) => declared = lines[h].slots
        /\ SlotsHold(slots, lines, n - 1)
        /\ IsFiniteSet(DOMAIN slots) /\ count = Cardinality(DOMAIN slots)
  BY DEF CarriersKnow
<1>4. \A r : Stops(s, r) = [result |-> r, declared |-> declared, count |-> count, slots |-> slots]
  BY <1>1 DEF Stops
<1>5. /\ s.result = result /\ s.declared = declared /\ s.count = count /\ s.slots = slots
      /\ CarrierLine(line)
  OBVIOUS
<1> HIDE DEF result, declared, count, slots
<1>6. /\ \A i \in 1..n : i \in 1..(n - 1) \/ i = n
      /\ \A i \in 1..(n - 1) : i \in 1..n /\ i # n /\ ~(i > n) /\ n > i
      /\ n \in 1..n
  OBVIOUS
<1>7. ASSUME \E r : r # "ok" /\ t = Stops(s, r), ~CarriersSoFar(lines, n)
      PROVE  CarriersKnow(t, lines, n)
  <2>1. PICK r : r # "ok" /\ t = [result |-> r, declared |-> declared, count |-> count,
                                  slots |-> slots]
    BY <1>4, <1>7
  <2> HIDE DEF t
  <2>2. /\ t.result # "ok"
        /\ t = [result |-> t.result, declared |-> t.declared, count |-> t.count,
                slots |-> t.slots]
    BY <2>1
  <2> QED BY <1>7, <2>2 DEF CarriersKnow
<1>8. CASE result # "ok"
  <2>1. t = s
    BY <1>5, <1>8 DEF CaStep
  <2>2. ~CarriersSoFar(lines, n)
    BY <1>2, <1>8, CarriersPrefix
  <2> QED BY <1>1, <1>5, <1>8, <2>1, <2>2 DEF CarriersKnow
<1>9. CASE result = "ok" /\ line = Blank
  <2>1. t = s
    BY <1>5, <1>9 DEF CaStep
  <2>2. RecordsOf(lines, n) = RecordsOf(lines, n - 1)
    BY <1>5, <1>6, <1>9, LinesApart DEF RecordsOf
  <2>3. NothingYet(lines, n - 1) <=> NothingYet(lines, n)
    BY <1>6, <1>9 DEF NothingYet
  <2>4. \A h \in 1..(n - 1) : HeadedBy(lines, n - 1, h) => HeadedBy(lines, n, h)
    BY <1>6, <1>9, <2>2 DEF HeadedBy
  <2>5. ~HeadedBy(lines, n, n)
    BY <1>5, <1>9, LinesApart DEF HeadedBy
  <2>6. CarriersSoFar(lines, n)
    BY <1>2, <1>6, <1>9, <2>3, <2>4 DEF CarriersSoFar
  <2>7. \A h \in 1..n : HeadedBy(lines, n, h) => declared = lines[h].slots
    BY <1>3, <1>6, <1>9, <2>5, CarriersPrefix
  <2>8. SlotsHold(slots, lines, n)
    BY <1>3, <1>9, <2>2 DEF SlotsHold
  <2> QED BY <1>1, <1>3, <1>5, <1>9, <2>1, <2>3, <2>6, <2>7, <2>8 DEF CarriersKnow
<1>10. CASE result = "ok" /\ line = Other
  <2>1. t = Stops(s, "malformed") /\ line # Blank
    BY <1>5, <1>10, LinesApart DEF CaStep
  <2>2. ~CarriersSoFar(lines, n)
    BY <1>5, <1>6, <1>10, LinesApart DEF CarriersSoFar, HeadedBy, NothingYet
  <2> QED BY <1>7, <2>1, <2>2
<1>11. CASE result = "ok" /\ line.kind = "header"
  <2>1. /\ line # Blank /\ line # Other /\ ~IsRecord(line) /\ line.slots \in Nat
    BY <1>5, <1>11, LinesApart
  <2>2. ASSUME NEW h \in 1..n, HeadedBy(lines, n, h) PROVE h = n
    BY <1>6, <2>1, <2>2 DEF HeadedBy
  <2>3. ~NothingYet(lines, n)
    BY <1>6, <2>1 DEF NothingYet
  <2>4. CASE declared # 0
    <3>1. t = Stops(s, "malformed")
      BY <1>5, <1>11, <2>1, <2>4 DEF CaStep
    <3>2. ~CarriersSoFar(lines, n)
      BY <1>3, <1>11, <2>2, <2>3, <2>4, CarriersPrefix DEF CarriersSoFar
    <3> QED BY <1>7, <3>1, <3>2
  <2>5. CASE declared = 0 /\ line.slots \notin 1..MaxSlots
    <3>1. t = Stops(s, "range") \/ t = Stops(s, "too_many")
      BY <1>5, <1>11, <2>1, <2>5, LimitsAssumption DEF CaStep
    <3>2. ~CarriersSoFar(lines, n)
      BY <2>2, <2>3, <2>5 DEF CarriersSoFar, HeadedBy
    <3> QED BY <1>7, <3>1, <3>2
  <2>6. CASE declared = 0 /\ line.slots \in 1..MaxSlots
    <3>1. t = [result |-> "ok", declared |-> line.slots, count |-> count, slots |-> slots]
      <4>1. t = [s EXCEPT !.declared = line.slots]
        BY <1>5, <1>11, <2>1, <2>6, LimitsAssumption DEF CaStep
      <4> QED BY <1>1, <1>11, <4>1
    <3>2. NothingYet(lines, n - 1)
      <4> SUFFICES ASSUME ~NothingYet(lines, n - 1) PROVE FALSE
        OBVIOUS
      <4>1. PICK h \in 1..(n - 1) : HeadedBy(lines, n - 1, h)
        BY <1>2, <1>11 DEF CarriersSoFar
      <4> QED BY <1>3, <1>11, <2>6, <4>1, LimitsAssumption DEF HeadedBy
    <3>3. RecordsOf(lines, n - 1) = {} /\ RecordsOf(lines, n) = {}
      BY <1>6, <2>1, <3>2 DEF RecordsOf, NothingYet, IsRecord, Blank
    <3>4. HeadedBy(lines, n, n)
      BY <1>6, <1>11, <2>6, <3>2, <3>3 DEF HeadedBy, NothingYet
    <3>5. CarriersSoFar(lines, n)
      BY <1>6, <3>4 DEF CarriersSoFar
    <3>6. SlotsHold(slots, lines, n)
      BY <1>3, <1>11, <3>3 DEF SlotsHold
    <3> QED BY <1>3, <1>11, <2>2, <2>3, <3>1, <3>5, <3>6 DEF CarriersKnow
  <2> QED BY <2>4, <2>5, <2>6
<1>12. CASE result = "ok" /\ IsRecord(line)
  <2>1. /\ line # Blank /\ line # Other /\ line.kind # "header" /\ line.index \in Nat
        /\ line.kind \in {"primary", "secondary"}
        /\ line.kind = "primary" => line.index = 1
    BY <1>5, <1>12, LinesApart
  <2>2. ASSUME NEW h \in 1..n, HeadedBy(lines, n, h)
        PROVE  h \in 1..(n - 1) /\ HeadedBy(lines, n - 1, h) /\ declared = lines[h].slots
    <3>1. h # n
      BY <2>1, <2>2 DEF HeadedBy
    <3> QED BY <1>3, <1>6, <1>12, <2>2, <3>1, CarriersPrefix
  <2>3. ~NothingYet(lines, n)
    BY <1>6, <2>1 DEF NothingYet
  <2>4. CASE declared = 0
    <3>1. t = Stops(s, "malformed")
      BY <1>5, <1>12, <2>1, <2>4 DEF CaStep
    <3>2. ~CarriersSoFar(lines, n)
      BY <2>2, <2>3, <2>4, LimitsAssumption DEF CarriersSoFar, HeadedBy
    <3> QED BY <1>7, <3>1, <3>2
  <2>5. CASE declared # 0
    <3>1. PICK h \in 1..(n - 1) : HeadedBy(lines, n - 1, h)
      BY <1>2, <1>3, <1>12, <2>5 DEF CarriersSoFar
    <3>2. /\ declared = lines[h].slots /\ declared \in 1..MaxSlots
          /\ SlotsHold(slots, lines, n - 1)
          /\ IsFiniteSet(DOMAIN slots) /\ count = Cardinality(DOMAIN slots)
      BY <1>3, <1>12, <3>1 DEF HeadedBy
    <3>3. RecordsOf(lines, n) = RecordsOf(lines, n - 1) \cup {n} /\ n \notin RecordsOf(lines, n - 1)
      BY <1>6, <1>12 DEF RecordsOf
    <3>4. DOMAIN slots \subseteq 1..declared
      BY <3>1, <3>2 DEF SlotsHold, HeadedBy
    <3> DEFINE fits == /\ line.verdict = "ok" /\ line.index \in 1..declared
                       /\ line.kind = "primary" <=> line.index = 1
                       /\ line.index \notin DOMAIN slots
               outside == /\ line.verdict # "malformed" /\ line.kind = "secondary"
                          /\ line.index \notin 2..MaxSlots
    <3>5. CarriersSoFar(lines, n) => fits
      <4> SUFFICES ASSUME CarriersSoFar(lines, n) PROVE fits
        OBVIOUS
      <4>1. PICK g \in 1..n : HeadedBy(lines, n, g)
        BY <2>3 DEF CarriersSoFar
      <4>2. declared = lines[g].slots
        BY <2>2, <4>1
      <4>3. line.index \notin DOMAIN slots
        <5> SUFFICES ASSUME line.index \in DOMAIN slots PROVE FALSE
          OBVIOUS
        <5>1. PICK i \in RecordsOf(lines, n - 1) : lines[i].index = line.index
          BY <3>2 DEF SlotsHold
        <5> QED BY <3>3, <4>1, <5>1 DEF HeadedBy
      <4> QED BY <3>3, <4>1, <4>2, <4>3 DEF HeadedBy
    <3>6. fits => HeadedBy(lines, n, h)
      <4> SUFFICES ASSUME fits PROVE HeadedBy(lines, n, h)
        OBVIOUS
      <4>1. \A i \in RecordsOf(lines, n - 1) : lines[i].index # line.index
        BY <3>2 DEF SlotsHold
      <4>2. h \in 1..n /\ n > h
        BY <1>6
      <4>3. \A i \in (1..n) \ {h} : lines[i] = Blank \/ (IsRecord(lines[i]) /\ i > h)
        BY <1>6, <1>12, <3>1, <4>2 DEF HeadedBy
      <4>4. \A i \in RecordsOf(lines, n) : /\ lines[i].verdict = "ok"
                                           /\ lines[i].index \in 1..lines[h].slots
                                           /\ lines[i].kind = "primary" <=> lines[i].index = 1
        BY <3>1, <3>2, <3>3 DEF HeadedBy
      <4>5. \A i, j \in RecordsOf(lines, n) : lines[i].index = lines[j].index => i = j
        BY <3>1, <3>3, <4>1 DEF HeadedBy
      <4> QED BY <3>1, <4>2, <4>3, <4>4, <4>5 DEF HeadedBy
    <3>7. /\ count \in Nat
          /\ fits => count < declared
      <4>1. count \in Nat
        BY <3>2, FS_CardinalityType
      <4> SUFFICES ASSUME fits PROVE count < declared
        BY <4>1
      <4>2. IsFiniteSet(1..declared) /\ Cardinality(1..declared) = declared /\ declared \in Nat
        <5>1. declared \in Nat /\ declared \in Int /\ 1 \in Int /\ ~(1 > declared)
          BY <3>2, LimitsAssumption
        <5>2. IsFiniteSet(1..declared) /\ Cardinality(1..declared) = declared - 1 + 1
          BY <5>1, FS_Interval
        <5> QED BY <5>1, <5>2
      <4>3. IsFiniteSet(DOMAIN slots \cup {line.index})
            /\ Cardinality(DOMAIN slots \cup {line.index}) = count + 1
        BY <3>2, FS_AddElement
      <4>4. DOMAIN slots \cup {line.index} \in SUBSET (1..declared)
        BY <3>4
      <4>5. Cardinality(DOMAIN slots \cup {line.index}) <= Cardinality(1..declared)
        BY <4>2, <4>4, FS_Subset
      <4> QED BY <4>1, <4>2, <4>3, <4>5
    <3>8. CASE ~fits
      <4>1. ~CarriersSoFar(lines, n)
        BY <3>5, <3>8
      <4>2. \E r : r # "ok" /\ t = Stops(s, r)
        <5>1. CASE count >= declared
          <6>1. t = Stops(s, "count_mismatch")
            BY <1>5, <1>12, <2>1, <2>5, <5>1 DEF CaStep
          <6> QED BY <6>1
        <5>2. CASE ~(count >= declared) /\ outside
          <6>1. t = Stops(s, "range")
            BY <1>5, <1>12, <2>1, <2>5, <5>2 DEF CaStep
          <6> QED BY <6>1
        <5>3. CASE ~(count >= declared) /\ ~outside /\ line.verdict # "ok"
          <6>1. t = Stops(s, line.verdict)
            BY <1>5, <1>12, <2>1, <2>5, <5>3 DEF CaStep
          <6> QED BY <5>3, <6>1
        <5>4. CASE /\ ~(count >= declared) /\ ~outside /\ line.verdict = "ok"
                   /\ line.index > declared
          <6>1. t = Stops(s, "count_mismatch")
            BY <1>5, <1>12, <2>1, <2>5, <5>4 DEF CaStep
          <6> QED BY <6>1
        <5>5. CASE /\ ~(count >= declared) /\ ~outside /\ line.verdict = "ok"
                   /\ ~(line.index > declared) /\ line.index \in DOMAIN slots
          <6>1. t = Stops(s, "duplicate")
            BY <1>5, <1>12, <2>1, <2>5, <5>5 DEF CaStep
          <6> QED BY <6>1
        <5>6. CASE /\ ~outside /\ line.verdict = "ok" /\ ~(line.index > declared)
                   /\ line.index \notin DOMAIN slots
          BY <2>1, <3>2, <3>8, <5>6, LimitsAssumption
        <5> QED BY <5>1, <5>2, <5>3, <5>4, <5>5, <5>6
      <4> QED BY <1>7, <4>1, <4>2
    <3>9. CASE fits
      <4>1. t = [result |-> "ok", declared |-> declared, count |-> count + 1,
                 slots |-> Put(slots, line.index, line)]
        <5>1. ~(count >= declared) /\ ~outside /\ ~(line.index > declared)
          BY <2>1, <3>2, <3>7, <3>9, LimitsAssumption
        <5>2. t = [s EXCEPT !.slots = Put(@, line.index, line), !.count = @ + 1]
          BY <1>5, <1>12, <2>1, <2>5, <3>9, <5>1 DEF CaStep
        <5> QED BY <1>1, <1>12, <5>2
      <4> DEFINE new == Put(slots, line.index, line)
      <4>2. /\ DOMAIN new = DOMAIN slots \cup {line.index}
            /\ new[line.index] = line
            /\ \A i \in DOMAIN slots : new[i] = slots[i]
            /\ new = [i \in DOMAIN new |-> new[i]]
        <5> DEFINE x == line.index
                   l == line
        <5>1. x \notin DOMAIN slots
          BY <3>9
        <5> HIDE DEF x, l
        <5>2. LET put == Put(slots, x, l)
              IN  /\ DOMAIN put = DOMAIN slots \cup {x} /\ put[x] = l
                  /\ \A i \in DOMAIN slots : put[i] = slots[i]
                  /\ put = [i \in DOMAIN put |-> put[i]]
          BY <5>1 DEF Put
        <5> QED BY <5>2 DEF x, l
      <4> HIDE DEF new
      <4>3. SlotsHold(new, lines, n)
        BY <3>2, <3>3, <4>2 DEF SlotsHold
      <4>4. IsFiniteSet(DOMAIN new) /\ count + 1 = Cardinality(DOMAIN new)
        BY <3>2, <3>9, <4>2, FS_AddElement
      <4>5. CarriersSoFar(lines, n)
        BY <1>6, <3>6, <3>9 DEF CarriersSoFar
      <4> QED BY <2>2, <2>3, <4>1, <4>3, <4>4, <4>5 DEF CarriersKnow, new
    <3> QED BY <3>8, <3>9
  <2> QED BY <2>4, <2>5
<1> QED BY <1>5, <1>8, <1>9, <1>10, <1>11, <1>12, LinesApart

\* The slots hold one record each, the first the primary.
SlotsAreFull(slots, declared, lines, n) ==
    /\ declared \in Nat \ {0} /\ DOMAIN slots = 1..declared
    /\ SlotsHold(slots, lines, n)
    /\ \A i \in 1..declared : \E j \in RecordsOf(lines, n) :
         lines[j].index = i /\ slots[i] = lines[j]
    /\ \A j \in RecordsOf(lines, n) : lines[j].kind = "primary" <=> lines[j].index = 1

\* After the loop: the slots are full and consistent exactly if the records
\* are one for each declared slot and consistent.
LEMMA CaVerdictExact ==
    ASSUME NEW lines, NEW N \in Nat, DOMAIN lines = 1..N,
           \A i \in 1..N : CarrierLine(lines[i]),
           NEW s, CarriersKnow(s, lines, N)
    PROVE  /\ CaVerdict(s) = "ok" <=> CarriersAreGood(lines)
           /\ CaVerdict(s) = "ok" => SlotsAreFull(s.slots, s.declared, lines, N)
<1> DEFINE records == RecordsOf(lines, N)
           slots == s.slots
           declared == s.declared
           active == {i \in DOMAIN slots : slots[i].active}
<1>1. records = {i \in DOMAIN lines : IsRecord(lines[i])}
  BY DEF RecordsOf
<1>2. \A i \in records : CarrierLine(lines[i]) /\ IsRecord(lines[i])
  BY DEF RecordsOf
<1>3. \A i \in records : lines[i].kind = "primary" => lines[i].active = TRUE
  BY <1>2, LinesApart
<1>4. ASSUME s.result = "ok", NEW h \in 1..N, HeadedBy(lines, N, h)
      PROVE  /\ declared = lines[h].slots /\ declared \in Nat \ {0} /\ declared \in 1..MaxSlots
             /\ SlotsHold(slots, lines, N)
             /\ DOMAIN slots \subseteq 1..declared
             /\ s.count = declared <=> DOMAIN slots = 1..declared
  <2>1. /\ declared = lines[h].slots /\ declared \in 1..MaxSlots /\ SlotsHold(slots, lines, N)
        /\ IsFiniteSet(DOMAIN slots) /\ s.count = Cardinality(DOMAIN slots)
    BY <1>4 DEF CarriersKnow, HeadedBy
  <2> HIDE DEF slots, declared
  <2>2. declared \in Nat \ {0} /\ declared \in Int /\ 1 \in Int /\ ~(1 > declared)
    BY <2>1, LimitsAssumption
  <2>3. DOMAIN slots \subseteq 1..declared
    BY <1>4, <2>1 DEF SlotsHold, HeadedBy
  <2>4. IsFiniteSet(1..declared) /\ Cardinality(1..declared) = declared - 1 + 1
    BY <2>2, FS_Interval
  <2>5. Cardinality(1..declared) = Cardinality(DOMAIN slots) => 1..declared = DOMAIN slots
    BY <2>3, <2>4, FS_Subset
  <2> QED BY <2>1, <2>2, <2>3, <2>4, <2>5
<1>5. s.result = "ok" => \/ declared = 0 /\ NothingYet(lines, N)
                         \/ \E h \in 1..N : HeadedBy(lines, N, h)
  BY DEF CarriersKnow, CarriersSoFar
<1>6. CaVerdict(s) = "ok" <=>
        /\ s.result = "ok" /\ declared # 0 /\ 1 \in active /\ s.count = declared
        /\ \A i \in 2..declared : slots[i].ul = slots[1].ul
        /\ \A i, j \in active : i = j \/ slots[i].at # slots[j].at
  BY DEF CaVerdict
<1> HIDE DEF slots, declared, active
<1>7. ASSUME CaVerdict(s) = "ok"
      PROVE  CarriersAreGood(lines) /\ SlotsAreFull(slots, declared, lines, N)
  <2>1. PICK h \in 1..N : HeadedBy(lines, N, h)
    BY <1>5, <1>6, <1>7
  <2>2. /\ declared = lines[h].slots /\ declared \in Nat \ {0}
        /\ SlotsHold(slots, lines, N) /\ DOMAIN slots = 1..declared
    BY <1>4, <1>6, <1>7, <2>1
  <2>3. \A j \in records : lines[j].index \in 1..declared /\ slots[lines[j].index] = lines[j]
    BY <2>2 DEF SlotsHold
  <2>4. \A i \in 1..declared : \E j \in records : lines[j].index = i /\ slots[i] = lines[j]
    BY <2>2, <2>3 DEF SlotsHold
  <2>5. {lines[i].index : i \in records} = 1..lines[h].slots
    BY <2>2 DEF SlotsHold
  <2>6. \A j \in records : lines[j].kind = "primary" <=> lines[j].index = 1
    BY <2>1 DEF HeadedBy
  <2>7. \A i, j \in records : lines[i].index = lines[j].index => i = j
    BY <2>1 DEF HeadedBy
  <2>8. ASSUME NEW i \in records PROVE lines[i].ul = slots[1].ul
    <3>1. lines[i].index = 1 \/ lines[i].index \in 2..declared
      BY <2>2, <2>3
    <3> QED BY <1>6, <1>7, <2>3, <3>1
  <2>9. ASSUME NEW i \in records, NEW j \in records, lines[i].active, lines[j].active,
               lines[i].at = lines[j].at
        PROVE  i = j
    <3>1. lines[i].index \in active /\ lines[j].index \in active
      BY <2>2, <2>3, <2>9 DEF active
    <3>2. lines[i].index = lines[j].index
      BY <1>6, <1>7, <2>3, <2>9, <3>1
    <3> QED BY <2>7, <3>2
  <2>10. \A i \in DOMAIN lines \ {h} : lines[i] = Blank \/ (i \in records /\ i > h)
    BY <1>1, <2>1 DEF HeadedBy
  <2>11. h \in DOMAIN lines /\ lines[h].kind = "header" /\ lines[h].slots \in 1..MaxSlots
    BY <2>1 DEF HeadedBy
  <2>12. \A i \in records : lines[i].verdict = "ok"
    BY <2>1 DEF HeadedBy
  <2>13. \A i, j \in records : lines[i].ul = lines[j].ul
    BY <2>8
  <2>14. CarriersAreGood(lines)
    <3> HIDE DEF records
    <3> QED BY <1>1, <2>5, <2>6, <2>7, <2>9, <2>10, <2>11, <2>12, <2>13 DEF CarriersAreGood
  <2> QED BY <2>2, <2>4, <2>6, <2>14 DEF SlotsAreFull
<1>8. ASSUME CarriersAreGood(lines) PROVE CaVerdict(s) = "ok"
  <2> HIDE DEF records
  <2>1. PICK h \in DOMAIN lines :
          /\ lines[h].kind = "header" /\ lines[h].slots \in 1..MaxSlots
          /\ \A i \in DOMAIN lines \ {h} : lines[i] = Blank \/ (i \in records /\ i > h)
          /\ \A i \in records : lines[i].verdict = "ok"
          /\ {lines[i].index : i \in records} = 1..lines[h].slots
          /\ \A i, j \in records : lines[i].index = lines[j].index => i = j
          /\ \A i \in records : lines[i].kind = "primary" <=> lines[i].index = 1
          /\ \A i, j \in records : lines[i].ul = lines[j].ul
          /\ \A i, j \in records : lines[i].active /\ lines[j].active
                                     /\ lines[i].at = lines[j].at => i = j
    BY <1>1, <1>8 DEF CarriersAreGood
  <2>2. \A i \in records : lines[i].index \in 1..lines[h].slots
    BY <2>1
  <2>3. HeadedBy(lines, N, h)
    BY <1>1, <2>1, <2>2 DEF HeadedBy, records
  <2>4. h \in 1..N /\ s.result = "ok"
    BY <2>3 DEF CarriersKnow, CarriersSoFar, HeadedBy
  <2>5. /\ declared = lines[h].slots /\ declared \in Nat \ {0} /\ SlotsHold(slots, lines, N)
        /\ s.count = declared <=> DOMAIN slots = 1..declared
    BY <1>4, <2>3, <2>4
  <2>6. DOMAIN slots = 1..declared /\ s.count = declared
    BY <2>1, <2>5 DEF SlotsHold, records
  <2>7. \A i \in 1..declared : \E j \in records : lines[j].index = i /\ slots[i] = lines[j]
    BY <2>5, <2>6 DEF SlotsHold, records
  <2>8. 1 \in active
    <3>1. PICK j \in records : lines[j].index = 1 /\ slots[1] = lines[j]
      BY <2>5, <2>7
    <3>2. slots[1].active = TRUE
      BY <1>3, <2>1, <3>1
    <3> QED BY <2>5, <2>6, <3>2 DEF active
  <2>9. ASSUME NEW i \in 2..declared PROVE slots[i].ul = slots[1].ul
    <3>1. i \in 1..declared /\ 1 \in 1..declared
      BY <2>5
    <3> QED BY <2>1, <2>7, <3>1
  <2>10. ASSUME NEW i \in active, NEW j \in active, slots[i].at = slots[j].at PROVE i = j
    <3>1. i \in 1..declared /\ j \in 1..declared /\ slots[i].active /\ slots[j].active
      BY <2>6 DEF active
    <3>2. PICK a \in records : lines[a].index = i /\ slots[i] = lines[a]
      BY <2>7, <3>1
    <3>3. PICK b \in records : lines[b].index = j /\ slots[j] = lines[b]
      BY <2>7, <3>1
    <3> QED BY <2>1, <2>10, <3>1, <3>2, <3>3
  <2> QED BY <1>6, <2>4, <2>5, <2>6, <2>8, <2>9, <2>10
<1> QED BY <1>7, <1>8 DEF slots, declared

\* k holds the active records of the first n lines, the primary in front.
AreActive(k, lines, n) ==
    /\ {k[i] : i \in DOMAIN k}
         = {lines[i] : i \in {j \in RecordsOf(lines, n) : lines[j].active}}
    /\ \A i \in DOMAIN k : k[i].kind = "primary" <=> i = 1
    /\ k # <<>>

\* The active slots are copied with the first, the primary, in front.
LEMMA ActiveCarriers ==
    ASSUME NEW lines, NEW N \in Nat, \A i \in 1..N : CarrierLine(lines[i]),
           NEW slots, NEW d, SlotsAreFull(slots, d, lines, N)
    PROVE  AreActive(Selected(slots, {i \in DOMAIN slots : slots[i].active}), lines, N)
<1> DEFINE active == {i \in DOMAIN slots : slots[i].active}
           k == Selected(slots, active)
           actives == {j \in RecordsOf(lines, N) : lines[j].active}
<1>0. /\ d \in Nat \ {0} /\ DOMAIN slots = 1..d /\ SlotsHold(slots, lines, N)
      /\ \A i \in 1..d : \E j \in RecordsOf(lines, N) :
           lines[j].index = i /\ slots[i] = lines[j]
      /\ \A j \in RecordsOf(lines, N) : lines[j].kind = "primary" <=> lines[j].index = 1
  BY DEF SlotsAreFull
<1>1. slots \in [1..d -> {slots[i] : i \in 1..d}]
  BY <1>0 DEF SlotsHold
<1>2. slots \in Seq({slots[i] : i \in 1..d}) /\ Len(slots) = d
  BY <1>0, <1>1
<1>3. Lists(k, slots, active, d)
  BY <1>0, <1>2, SelectedLists DEF Selected
<1>4. active \cap (1..d) = active
  BY <1>0
<1> HIDE DEF k, active
<1>5. PICK m \in Nat : \E f \in [1..m -> active \cap (1..d)] :
        /\ k = [i \in 1..m |-> slots[f[i]]]
        /\ \A i, j \in 1..m : i < j => f[i] < f[j]
        /\ \A p \in active \cap (1..d) : \E i \in 1..m : f[i] = p
  BY <1>3 DEF Lists
<1>6. PICK f \in [1..m -> active \cap (1..d)] :
        /\ k = [i \in 1..m |-> slots[f[i]]]
        /\ \A i, j \in 1..m : i < j => f[i] < f[j]
        /\ \A p \in active \cap (1..d) : \E i \in 1..m : f[i] = p
  BY <1>5
<1>7. \A i \in 1..d : slots[i].kind = "primary" <=> i = 1
  BY <1>0
<1>8. 1 \in active
  <2>1. PICK j \in RecordsOf(lines, N) : lines[j].index = 1 /\ slots[1] = lines[j]
    BY <1>0
  <2>2. CarrierLine(lines[j]) /\ lines[j].kind = "primary"
    BY <1>0, <2>1 DEF RecordsOf
  <2>3. slots[1].active = TRUE
    BY <2>1, <2>2, LinesApart
  <2> QED BY <1>0, <2>3 DEF active
<1>9. \A i \in 1..m : f[i] \in active /\ f[i] \in 1..d /\ k[i] = slots[f[i]]
  BY <1>6
<1>10. 1 \in 1..m /\ f[1] = 1
  <2>1. PICK i \in 1..m : f[i] = 1
    BY <1>4, <1>6, <1>8
  <2>2. 1 \in 1..m
    BY <1>5, <2>1
  <2>3. ~(1 < i)
    <3>1. 1 < i => f[1] < f[i]
      BY <1>6, <2>1, <2>2
    <3> QED BY <1>9, <2>1, <2>2, <3>1
  <2> QED BY <2>1, <2>2, <2>3
<1>11. \A i \in 1..m : f[i] = 1 <=> i = 1
  <2> SUFFICES ASSUME NEW i \in 1..m, i # 1 PROVE f[i] # 1
    BY <1>10
  <2>1. 1 < i
    OBVIOUS
  <2>2. f[1] < f[i]
    BY <1>6, <1>10, <2>1
  <2> QED BY <1>9, <1>10, <2>2
<1>12. DOMAIN k = 1..m
  BY <1>6
<1>13. \A i \in DOMAIN k : k[i].kind = "primary" <=> i = 1
  BY <1>7, <1>9, <1>11, <1>12
<1>14. k # <<>>
  BY <1>10, <1>12
<1>15. ASSUME NEW i \in DOMAIN k PROVE \E j \in actives : k[i] = lines[j]
  <2>1. f[i] \in 1..d /\ k[i] = slots[f[i]] /\ slots[f[i]].active
    BY <1>9, <1>12 DEF active
  <2>2. PICK j \in RecordsOf(lines, N) : lines[j].index = f[i] /\ slots[f[i]] = lines[j]
    BY <1>0, <2>1
  <2> QED BY <2>1, <2>2
<1>16. ASSUME NEW j \in actives PROVE \E i \in DOMAIN k : k[i] = lines[j]
  <2>1. lines[j].index \in DOMAIN slots /\ slots[lines[j].index] = lines[j]
    BY <1>0 DEF SlotsHold
  <2>2. lines[j].index \in active
    BY <2>1 DEF active
  <2>3. PICK i \in 1..m : f[i] = lines[j].index
    BY <1>4, <1>6, <2>2
  <2> QED BY <1>9, <1>12, <2>1, <2>3
<1>17. {k[i] : i \in DOMAIN k} = {lines[i] : i \in actives}
  <2> HIDE DEF actives
  <2> QED BY <1>15, <1>16
<1>18. AreActive(k, lines, N)
  BY <1>13, <1>14, <1>17 DEF AreActive
<1> QED BY <1>18 DEF k, active

\* The carriers are accepted exactly if they are good, and then the active
\* ones are returned, the primary first (l850gl_l850_ca_parse).
LEMMA CarriersAreExact ==
    ASSUME NEW S, NEW lines \in Seq(S), \A l \in S : CarrierLine(l)
    PROVE  CarriersExact(lines)
<1> DEFINE W(n) == WalkAfter("carriers", lines)[n]
           T == {n \in 0..Len(lines) : CarriersKnow(W(n), lines, n)}
           N == Len(lines)
           s == W(N)
           p == CaParse(lines)
<1>1. /\ Len(lines) \in Nat /\ DOMAIN lines = 1..Len(lines)
      /\ \A i \in 1..Len(lines) : CarrierLine(lines[i])
  OBVIOUS
<1>2. 0 \in T
  <2> DEFINE z == [result |-> "ok", declared |-> 0, count |-> 0, slots |-> NoSlots]
  <2>1. W(0) = z
    BY <1>1, WalkSteps DEF Start
  <2>2. RecordsOf(lines, 0) = {} /\ NothingYet(lines, 0) /\ CarriersSoFar(lines, 0)
    BY DEF RecordsOf, NothingYet, CarriersSoFar
  <2>3. DOMAIN NoSlots = {} /\ SlotsHold(NoSlots, lines, 0)
    BY <2>2 DEF SlotsHold, NoSlots
  <2>4. CarriersKnow(z, lines, 0)
    BY <2>2, <2>3, FS_EmptySet DEF CarriersKnow
  <2> QED BY <1>1, <2>1, <2>4
<1>3. ASSUME NEW n \in 1..Len(lines), n - 1 \in T PROVE n \in T
  <2>1. W(n) = CaStep(W(n - 1), lines[n])
    BY <1>1, WalkSteps DEF Step
  <2>2. CarriersKnow(W(n - 1), lines, n - 1)
    BY <1>1, <1>3
  <2>3. n \in Nat \ {0} /\ \A i \in 1..n : CarrierLine(lines[i])
    BY <1>1
  <2> HIDE DEF W
  <2>4. CarriersKnow(W(n), lines, n)
    BY <2>1, <2>2, <2>3, CaStepKnows
  <2> QED BY <2>4
<1>4. CarriersKnow(s, lines, N)
  <2> HIDE DEF T
  <2>1. \A n \in 0..Len(lines) : n \in T
    BY <1>1, <1>2, <1>3, Induction
  <2> QED BY <1>1, <2>1 DEF T
<1>5. Walk("carriers", lines) = s
  BY DEF Walk
<1>6. N \in Nat /\ DOMAIN lines = 1..N /\ \A i \in 1..N : CarrierLine(lines[i])
  BY <1>1
<1> HIDE DEF s, N
<1>7. p.result = CaVerdict(s)
  BY <1>5 DEF CaParse
<1>8. p.result = "ok" => p.carriers = Selected(s.slots, {i \in DOMAIN s.slots : s.slots[i].active})
  BY <1>5, <1>7 DEF CaParse
<1>9. RecordsOf(lines, N) = {i \in DOMAIN lines : IsRecord(lines[i])}
  BY <1>6 DEF RecordsOf
<1>10. p.result = "ok" <=> CarriersAreGood(lines)
  BY <1>6, <1>4, <1>7, CaVerdictExact
<1> HIDE DEF p
<1>11. ASSUME p.result = "ok"
       PROVE  AreActive(p.carriers, lines, N)
  <2> DEFINE slots == s.slots
             d == s.declared
  <2>1. SlotsAreFull(slots, d, lines, N)
    BY <1>4, <1>6, <1>7, <1>11, CaVerdictExact
  <2>2. p.carriers = Selected(slots, {i \in DOMAIN slots : slots[i].active})
    BY <1>8, <1>11
  <2> HIDE DEF slots, d
  <2> QED BY <1>6, <2>1, <2>2, ActiveCarriers
<1>12. {j \in RecordsOf(lines, N) : lines[j].active}
         = {j \in DOMAIN lines : IsRecord(lines[j]) /\ lines[j].active}
  BY <1>9
<1> QED BY <1>10, <1>11, <1>12 DEF CarriersExact, AreActive, p
-----------------------------------------------------------------------------
(* The channel tables and the lock.                                        *)

\* The ranges of earfcn_ranges are disjoint and in order, none holds the
\* frequency that stands for no lock, and none has the band 0.
LEMMA RangesApart ==
    /\ DOMAIN EarfcnRanges = 1..59
    /\ \A i \in 1..59 : EarfcnRanges[i][1] \in Nat /\ EarfcnRanges[i][2] \in Nat
    /\ \A i, j \in 1..59 : i < j => EarfcnRanges[i][2] < EarfcnRanges[j][1]
    /\ \A i \in 1..59 : EarfcnRanges[i][2] < ClearFrequency \/ EarfcnRanges[i][1] > ClearFrequency
    /\ \A i \in 1..59 : EarfcnRanges[i][3] # NoBand
<1>1. DOMAIN EarfcnRanges = 1..59
  BY DEF EarfcnRanges
<1>2. \A i \in 1..59 : EarfcnRanges[i][1] \in Nat /\ EarfcnRanges[i][2] \in Nat
  BY DEF EarfcnRanges
<1>3. \A i, j \in 1..59 : i < j => EarfcnRanges[i][2] < EarfcnRanges[j][1]
  BY SMTT(90) DEF EarfcnRanges
<1>4. \A i \in 1..59 : EarfcnRanges[i][2] < ClearFrequency \/ EarfcnRanges[i][1] > ClearFrequency
  BY SMTT(60) DEF EarfcnRanges, ClearFrequency
<1>5. \A i \in 1..59 : EarfcnRanges[i][3] # NoBand
  BY SMTT(60) DEF EarfcnRanges, NoBand
<1> QED BY <1>1, <1>2, <1>3, <1>4, <1>5

\* Each range of ca_band_ranges lies in the range of earfcn_ranges that has
\* the same band.
LEMMA CarrierRangesWithin ==
    /\ DOMAIN CaBandRanges = 1..23
    /\ \A i \in 1..23 : CaBandRanges[i][2] \in Nat /\ CaBandRanges[i][3] \in Nat
    /\ \A i \in 1..23 : \E j \in 1..59 :
         /\ EarfcnRanges[j][3] = CaBandRanges[i][1]
         /\ EarfcnRanges[j][1] <= CaBandRanges[i][2]
         /\ CaBandRanges[i][3] <= EarfcnRanges[j][2]
<1>1. DOMAIN CaBandRanges = 1..23
  BY DEF CaBandRanges
<1>2. \A i \in 1..23 : CaBandRanges[i][2] \in Nat /\ CaBandRanges[i][3] \in Nat
  BY DEF CaBandRanges
<1>3. \A i \in 1..23 : \E j \in 1..59 :
        /\ EarfcnRanges[j][3] = CaBandRanges[i][1]
        /\ EarfcnRanges[j][1] <= CaBandRanges[i][2]
        /\ CaBandRanges[i][3] <= EarfcnRanges[j][2]
  <2> DEFINE home == <<1, 2, 3, 4, 5, 7, 8, 11, 12, 13, 15, 16, 17, 18, 19,
                     24, 26, 28, 36, 37, 38, 39, 48>>
  <2>1. \A i \in 1..23 : home[i] \in 1..59
    OBVIOUS
  <2>2. \A i \in 1..23 : EarfcnRanges[home[i]][3] = CaBandRanges[i][1]
    BY SMTT(60) DEF CaBandRanges, EarfcnRanges
  <2>3. \A i \in 1..23 : EarfcnRanges[home[i]][1] <= CaBandRanges[i][2]
    BY SMTT(60) DEF CaBandRanges, EarfcnRanges
  <2>4. \A i \in 1..23 : CaBandRanges[i][3] <= EarfcnRanges[home[i]][2]
    BY SMTT(60) DEF CaBandRanges, EarfcnRanges
  <2> HIDE DEF home
  <2> QED BY <2>1, <2>2, <2>3, <2>4
<1> QED BY <1>1, <1>2, <1>3

Holds(i, earfcn) == EarfcnRanges[i][1] <= earfcn /\ earfcn <= EarfcnRanges[i][2]

\* A channel has the band of the range that holds it, if there is one.
LEMMA BandOfChannel ==
    ASSUME NEW e \in Nat
    PROVE  /\ \A i \in 1..59 : Holds(i, e) => EarfcnRanges[i][3] = EarfcnToBand(e)
           /\ EarfcnToBand(e) # NoBand => \E i \in 1..59 : Holds(i, e)
<1> DEFINE hits == {i \in 1..59 : Holds(i, e)}
<1>1. EarfcnToBand(e) = IF hits = {} THEN NoBand ELSE EarfcnRanges[Min(hits)][3]
  BY RangesApart DEF EarfcnToBand, Holds
<1>2. \A i, j \in hits : i = j
  <2> SUFFICES ASSUME NEW i \in hits, NEW j \in hits, i < j PROVE FALSE
    OBVIOUS
  <2>1. EarfcnRanges[i][2] < EarfcnRanges[j][1]
    BY RangesApart
  <2>2. EarfcnRanges[j][1] <= e /\ e <= EarfcnRanges[i][2]
    BY DEF Holds
  <2>3. EarfcnRanges[i][2] \in Nat /\ EarfcnRanges[j][1] \in Nat
    BY RangesApart
  <2> QED BY <2>1, <2>2, <2>3
<1>3. ASSUME NEW i \in hits PROVE Min(hits) = i
  <2>1. \A j \in hits : i <= j
    BY <1>2
  <2>2. hits = {i}
    BY <1>2
  <2> HIDE DEF hits
  <2>3. Min(hits) = CHOOSE x \in hits : \A y \in hits : x <= y
    BY DEF Min
  <2> QED BY <2>1, <2>2, <2>3
<1>4. ASSUME NEW i \in 1..59, Holds(i, e) PROVE EarfcnRanges[i][3] = EarfcnToBand(e)
  <2>1. i \in hits
    BY <1>4
  <2> HIDE DEF hits
  <2> QED BY <2>1, <1>1, <1>3
<1> QED BY <1>1, <1>4

\* The frequency that stands for no lock is no channel.
LEMMA ClearIsNoChannel == EarfcnToBand(ClearFrequency) = NoBand
<1>1. ClearFrequency \in Nat
  BY DEF ClearFrequency
<1>2. ASSUME NEW i \in 1..59, Holds(i, ClearFrequency) PROVE FALSE
  <2>1. EarfcnRanges[i][2] < ClearFrequency \/ EarfcnRanges[i][1] > ClearFrequency
    BY RangesApart
  <2>2. EarfcnRanges[i][1] \in Nat /\ EarfcnRanges[i][2] \in Nat
    BY RangesApart
  <2> QED BY <1>1, <1>2, <2>1, <2>2 DEF Holds
<1> QED BY <1>1, <1>2, BandOfChannel

\* The channel of a lock has one band, the one a carrier is reported with.
LEMMA OneBand ==
    ASSUME NEW e \in Nat
    PROVE  /\ \A i \in DOMAIN EarfcnRanges :
                EarfcnRanges[i][1] <= e /\ e <= EarfcnRanges[i][2]
                   => EarfcnRanges[i][3] = EarfcnToBand(e)
           /\ \A i \in DOMAIN CaBandRanges :
                DownlinkIsValid(CaBandRanges[i][1], e) => CaBandRanges[i][1] = EarfcnToBand(e)
<1>1. \A i \in DOMAIN EarfcnRanges :
         EarfcnRanges[i][1] <= e /\ e <= EarfcnRanges[i][2]
            => EarfcnRanges[i][3] = EarfcnToBand(e)
  BY RangesApart, BandOfChannel DEF Holds
<1>2. ASSUME NEW i \in DOMAIN CaBandRanges, DownlinkIsValid(CaBandRanges[i][1], e)
      PROVE  CaBandRanges[i][1] = EarfcnToBand(e)
  <2>1. PICK k \in DOMAIN CaBandRanges :
          /\ CaBandRanges[k][1] = CaBandRanges[i][1]
          /\ CaBandRanges[k][2] <= e /\ e <= CaBandRanges[k][3]
    BY <1>2 DEF DownlinkIsValid
  <2>2. k \in 1..23 /\ CaBandRanges[k][2] \in Nat /\ CaBandRanges[k][3] \in Nat
    BY CarrierRangesWithin
  <2>3. PICK j \in 1..59 :
          /\ EarfcnRanges[j][3] = CaBandRanges[k][1]
          /\ EarfcnRanges[j][1] <= CaBandRanges[k][2]
          /\ CaBandRanges[k][3] <= EarfcnRanges[j][2]
    BY <2>2, CarrierRangesWithin
  <2>4. EarfcnRanges[j][1] \in Nat /\ EarfcnRanges[j][2] \in Nat
    BY RangesApart
  <2>5. Holds(j, e)
    BY <2>1, <2>2, <2>3, <2>4 DEF Holds
  <2> QED BY <2>1, <2>3, <2>5, BandOfChannel
<1> QED BY <1>1, <1>2

\* The lock names channel e and maybe the cell p.
Names(lock, e, h, p) ==
    /\ lock = SetLock(e, h, p)
    /\ h \in BOOLEAN /\ p \in Nat /\ p < Wildcard
    /\ h = FALSE => p = 0

\* What set_cell_lock asks of such a lock.
Lockable(e, h, p) == EarfcnToBand(e) # NoBand /\ (h = TRUE => p <= MaxPci)

\* What a lock is, and when set_cell_lock accepts it.
LEMMA LockForms ==
    ASSUME NEW e \in Nat, NEW lock \in {ClearLock} \cup Locks(e), lock # ClearLock
    PROVE  \E h, p : /\ Names(lock, e, h, p)
                     /\ RequestIsValid(lock) <=> Lockable(e, h, p)
<1>1. CASE lock = SetLock(e, FALSE, 0)
  <2>1. Names(lock, e, FALSE, 0)
    BY <1>1 DEF Names, Wildcard
  <2>2. RequestIsValid(lock) <=> Lockable(e, FALSE, 0)
    BY <1>1 DEF SetLock, RequestIsValid, Lockable
  <2> QED BY <2>1, <2>2
<1>2. ASSUME NEW p \in {0, 1, MaxPci, MaxPci + 1}, lock = SetLock(e, TRUE, p)
      PROVE  Names(lock, e, TRUE, p) /\ (RequestIsValid(lock) <=> Lockable(e, TRUE, p))
  <2>1. Names(lock, e, TRUE, p)
    BY <1>2 DEF Names, Wildcard, MaxPci
  <2>2. RequestIsValid(lock) <=> Lockable(e, TRUE, p)
    BY <1>2 DEF SetLock, RequestIsValid, Lockable
  <2> QED BY <2>1, <2>2
<1> QED BY <1>1, <1>2 DEF Locks

\* It is not the request to clear the lock, which is always accepted.
LEMMA NamesIsNoClear ==
    ASSUME NEW lock, NEW e, NEW h, NEW p, Names(lock, e, h, p)
    PROVE  lock # ClearLock /\ lock.clear = FALSE /\ lock.earfcn = e
BY DEF Names, SetLock, ClearLock

\* A lock that is accepted, stored in any form, is read back.
LEMMA SetReadBack ==
    ASSUME NEW e \in Nat, NEW hasPci \in BOOLEAN, NEW pci \in Nat,
           Lockable(e, hasPci, pci),
           NEW v \in Stored(Command(SetLock(e, hasPci, pci)))
    PROVE  NvmDecode(v) = [result |-> "ok", enabled |-> TRUE, earfcn |-> e, hasPci |-> hasPci,
                           pci |-> IF hasPci THEN pci ELSE Wildcard]
<1> DEFINE q == IF hasPci THEN pci ELSE Wildcard
           b == EarfcnToBand(e)
<1>1. q \in Nat /\ (hasPci => q <= MaxPci) /\ (~hasPci => q = Wildcard)
  BY DEF Wildcard, Lockable
<1>2. Command(SetLock(e, hasPci, pci))
        = [rat |-> 3, band |-> b, enable |-> 1, frequency |-> e, pci |-> q]
  BY DEF Command, SetLock
<1> HIDE DEF q, b
<1>3. PICK x \in {0, 255, b} : v = [frequency |-> e, rat |-> 3, pci |-> q,
                                    bandInfo |-> x, enabled |-> 1]
  BY <1>2 DEF Stored
<1>4. ~(q > Wildcard) /\ ~(q > MaxPci /\ q # Wildcard) /\ (q # Wildcard <=> hasPci)
  BY <1>1 DEF Wildcard, MaxPci
<1>5. NvmDecode(v) = [result |-> "ok", enabled |-> TRUE, earfcn |-> e, hasPci |-> q # Wildcard, pci |-> q]
  BY <1>3, <1>4 DEF NvmDecode, b, Lockable
<1>6. (q # Wildcard) = hasPci
  BY <1>4
<1> QED BY <1>5, <1>6 DEF q

\* No lock, stored in any form, is read back.
LEMMA ClearReadBack ==
    ASSUME NEW v \in Stored(Command(ClearLock))
    PROVE  NvmDecode(v) = [result |-> "ok", enabled |-> FALSE, earfcn |-> ClearFrequency,
                           hasPci |-> FALSE, pci |-> Wildcard]
<1>1. Command(ClearLock) = [rat |-> 3, band |-> 255, enable |-> 0,
                            frequency |-> ClearFrequency, pci |-> Wildcard]
  BY DEF Command, ClearLock
<1>2. PICK r \in {3, 255}, x \in {0, 255} :
        v = [frequency |-> ClearFrequency, rat |-> r, pci |-> Wildcard,
             bandInfo |-> x, enabled |-> 0]
  BY <1>1 DEF Stored
<1> QED BY <1>2 DEF NvmDecode, Wildcard, ClearFrequency

\* A lock that is refused would not be read back.
LEMMA RefusedReadBack ==
    ASSUME NEW e \in Nat, NEW hasPci \in BOOLEAN, NEW pci \in Nat, pci < Wildcard,
           ~Lockable(e, hasPci, pci),
           NEW v \in Stored([Command(SetLock(e, hasPci, pci)) EXCEPT !.enable = 1])
    PROVE  NvmDecode(v).result # "ok"
<1> DEFINE q == IF hasPci THEN pci ELSE Wildcard
           b == EarfcnToBand(e)
<1>1. [Command(SetLock(e, hasPci, pci)) EXCEPT !.enable = 1]
        = [rat |-> 3, band |-> b, enable |-> 1, frequency |-> e, pci |-> q]
  BY DEF Command, SetLock
<1>2. q \in Nat /\ ~(q > Wildcard)
  BY DEF Wildcard
<1>3. b = NoBand \/ (q > MaxPci /\ q # Wildcard)
  BY DEF Wildcard, MaxPci, Lockable
<1> HIDE DEF q, b
<1>4. PICK x \in {0, 255, b} : v = [frequency |-> e, rat |-> 3, pci |-> q,
                                    bandInfo |-> x, enabled |-> 1]
  BY <1>1 DEF Stored
<1>5. NvmDecode(v) = Bad(IF e = ClearFrequency THEN "sentinel" ELSE "range")
  BY <1>2, <1>3, <1>4 DEF NvmDecode, b
<1> QED BY <1>5 DEF Bad

\* A state that was read back is the one requested, and no other that
\* set_cell_lock accepts for the channel.
LEMMA ReadBackMatches ==
    ASSUME NEW e \in Nat, NEW lock \in {ClearLock} \cup Locks(e),
           NEW other \in {ClearLock} \cup Locks(e),
           RequestIsValid(lock), RequestIsValid(other), NEW v \in Stored(Command(lock))
    PROVE  /\ NvmDecode(v).result = "ok"
           /\ LockStateMatches(NvmDecode(v), other) <=> other = lock
<1>1. CASE lock = ClearLock
  <2>1. NvmDecode(v) = [result |-> "ok", enabled |-> FALSE, earfcn |-> ClearFrequency,
                        hasPci |-> FALSE, pci |-> Wildcard]
    BY <1>1, ClearReadBack
  <2>2. CASE other = ClearLock
    BY <1>1, <2>1, <2>2 DEF LockStateMatches, ClearLock
  <2>3. CASE other # ClearLock
    <3>1. other.clear = FALSE
      BY <2>3, LockForms, NamesIsNoClear
    <3> QED BY <1>1, <2>1, <2>3, <3>1 DEF LockStateMatches
  <2> QED BY <2>2, <2>3
<1>2. CASE lock # ClearLock
  <2>1. PICK h, p : Names(lock, e, h, p) /\ Lockable(e, h, p)
    BY <1>2, LockForms
  <2>2. NvmDecode(v) = [result |-> "ok", enabled |-> TRUE, earfcn |-> e, hasPci |-> h,
                        pci |-> IF h THEN p ELSE Wildcard]
    <3>1. h \in BOOLEAN /\ p \in Nat /\ v \in Stored(Command(SetLock(e, h, p)))
      BY <2>1 DEF Names
    <3> QED BY <2>1, <3>1, SetReadBack
  <2>3. CASE other = ClearLock
    BY <1>2, <2>2, <2>3 DEF LockStateMatches, ClearLock
  <2>4. CASE other # ClearLock
    <3>1. PICK g, r : Names(other, e, g, r)
      BY <2>4, LockForms
    <3>2. LockStateMatches(NvmDecode(v), other)
            <=> h = g /\ (IF h THEN p ELSE Wildcard) = (IF g THEN r ELSE Wildcard)
      BY <2>2, <3>1 DEF LockStateMatches, SetLock, Names
    <3>3. other = lock <=> h = g /\ p = r
      BY <2>1, <3>1 DEF SetLock, Names
    <3>4. h = g => ((IF h THEN p ELSE Wildcard) = (IF g THEN r ELSE Wildcard) <=> p = r)
      BY <2>1, <3>1 DEF Names
    <3> QED BY <2>2, <3>2, <3>3, <3>4
  <2> QED BY <2>3, <2>4
<1> QED BY <1>1, <1>2

\* LockRoundTrip for one lock.
LEMMA LockExact ==
    ASSUME NEW e \in Nat, NEW lock \in {ClearLock} \cup Locks(e), lock = input.lock
    PROVE  LockRoundTrip
<1> DEFINE f == lock.earfcn
<1>1. (lock = ClearLock /\ f = ClearFrequency) \/ (lock # ClearLock /\ f = e)
  <2>1. CASE lock = ClearLock
    <3>1. ClearLock.earfcn = ClearFrequency
      BY DEF ClearLock
    <3> QED BY <2>1, <3>1
  <2>2. CASE lock # ClearLock
    BY <2>2, LockForms, NamesIsNoClear
  <2> QED BY <2>1, <2>2
<1>2. f \in Nat /\ lock \in {ClearLock} \cup Locks(f)
  BY <1>1 DEF ClearFrequency
<1>3. ASSUME RequestIsValid(lock), NEW v \in Stored(Command(lock))
      PROVE  /\ NvmDecode(v).result = "ok"
             /\ \A other \in {lock, ClearLock} \cup Locks(f) : RequestIsValid(other) =>
                   (LockStateMatches(NvmDecode(v), other) <=> other = lock)
  <2> HIDE DEF f
  <2>1. NvmDecode(v).result = "ok"
    BY <1>2, <1>3, ReadBackMatches
  <2>2. ASSUME NEW other \in {lock, ClearLock} \cup Locks(f), RequestIsValid(other)
        PROVE  LockStateMatches(NvmDecode(v), other) <=> other = lock
    <3>1. other \in {ClearLock} \cup Locks(f)
      BY <1>2
    <3> QED BY <1>2, <1>3, <2>2, <3>1, ReadBackMatches
  <2> QED BY <2>1, <2>2
<1>4. ASSUME ~RequestIsValid(lock), NEW v \in Stored([Command(lock) EXCEPT !.enable = 1])
      PROVE  NvmDecode(v).result # "ok"
  <2> HIDE DEF f
  <2>1. lock # ClearLock
    BY <1>4 DEF RequestIsValid, ClearLock
  <2>2. PICK h, p : Names(lock, f, h, p) /\ ~Lockable(f, h, p)
    BY <1>2, <1>4, <2>1, LockForms
  <2>3. /\ h \in BOOLEAN /\ p \in Nat /\ p < Wildcard
        /\ v \in Stored([Command(SetLock(f, h, p)) EXCEPT !.enable = 1])
    BY <1>4, <2>2 DEF Names
  <2> QED BY <1>2, <2>2, <2>3, RefusedReadBack
<1>5. /\ \A i \in DOMAIN EarfcnRanges :
           EarfcnRanges[i][1] <= f /\ f <= EarfcnRanges[i][2]
              => EarfcnRanges[i][3] = EarfcnToBand(f)
      /\ \A i \in DOMAIN CaBandRanges :
           DownlinkIsValid(CaBandRanges[i][1], f) => CaBandRanges[i][1] = EarfcnToBand(f)
  <2> HIDE DEF f
  <2> QED BY <1>2, OneBand
<1>6. /\ RequestIsValid(lock) =>
           \A v \in Stored(Command(lock)) :
              /\ NvmDecode(v).result = "ok"
              /\ \A other \in {lock, ClearLock} \cup Locks(f) :
                   RequestIsValid(other) =>
                      (LockStateMatches(NvmDecode(v), other) <=> other = lock)
      /\ ~RequestIsValid(lock) =>
           \A v \in Stored([Command(lock) EXCEPT !.enable = 1]) :
              NvmDecode(v).result # "ok"
  BY <1>3, <1>4
<1> QED BY <1>5, <1>6, Zenon DEF LockRoundTrip

\* The channels are numbers.
LEMMA ChannelsAreNumbers == Channels \subseteq Nat
<1> DEFINE first == {EarfcnRanges[i][j] : i \in DOMAIN EarfcnRanges, j \in {1, 2}}
           second == {CaBandRanges[i][j] : i \in DOMAIN CaBandRanges, j \in {2, 3}}
           ends == first \cup second
<1>1. first \subseteq Nat
  <2>1. \A i \in DOMAIN EarfcnRanges : EarfcnRanges[i][1] \in Nat /\ EarfcnRanges[i][2] \in Nat
    BY RangesApart
  <2> QED BY <2>1
<1>2. second \subseteq Nat
  <2>1. \A i \in DOMAIN CaBandRanges : CaBandRanges[i][2] \in Nat /\ CaBandRanges[i][3] \in Nat
    BY CarrierRangesWithin
  <2> QED BY <2>1
<1>3. Channels = ends \cup {e + 1 : e \in ends} \cup {e - 1 : e \in ends \ {0}}
                   \cup {ClearFrequency}
  BY DEF Channels
<1> HIDE DEF first, second
<1>4. ends \subseteq Nat
  BY <1>1, <1>2
<1> HIDE DEF ends
<1>5. {e + 1 : e \in ends} \subseteq Nat /\ {e - 1 : e \in ends \ {0}} \subseteq Nat
  BY <1>4
<1>6. {ClearFrequency} \subseteq Nat
  BY DEF ClearFrequency
<1> DEFINE above == {e + 1 : e \in ends}
           below == {e - 1 : e \in ends \ {0}}
<1>7. Channels = ends \cup above \cup below \cup {ClearFrequency}
  BY <1>3
<1>8. above \subseteq Nat /\ below \subseteq Nat
  BY <1>5
<1> HIDE DEF above, below
<1> QED BY <1>4, <1>6, <1>7, <1>8

-----------------------------------------------------------------------------
(* The band policy.                                                        *)

Differ(s, n) == \A i, j \in 1..n : s[i] = s[j] => i = j

\* A list names as many things as it is long exactly if they all differ.
LEMMA CountDiffers ==
    ASSUME NEW n \in Nat, NEW s, NEW T, s \in [1..n -> T], \A t \in T : \E i \in 1..n : s[i] = t
    PROVE  Cardinality(T) = n <=> Differ(s, n)
<1>1. IsFiniteSet(1..n) /\ Cardinality(1..n) = n
  <2>1. 1 \in Int /\ n \in Int /\ (1 > n => n = 0)
    OBVIOUS
  <2>2. IsFiniteSet(1..n) /\ Cardinality(1..n) = IF 1 > n THEN 0 ELSE n - 1 + 1
    BY <2>1, FS_Interval
  <2> QED BY <2>1, <2>2
<1>2. s \in Surjection(1..n, T)
  BY DEF Surjection
<1>3. Cardinality(T) = n <=> s \in Injection(1..n, T)
  BY <1>1, <1>2, FS_Surjection
<1>4. s \in Injection(1..n, T) <=> Differ(s, n)
  BY DEF Injection, IsInjective, Differ
<1> QED BY <1>3, <1>4

\* What a loop over the supported bands keeps: as many as there are positions
\* that it keeps, each of them.
LEMMA RetainedIs ==
    ASSUME NEW A
    PROVE  LET keep == A \ {"4g", "none"}
               r == Retained(A)
           IN  \E m \in Nat :
                 /\ r \in [1..m -> Band] /\ Len(r) = m
                 /\ {r[i] : i \in 1..m} = {b \in SupportedSet : Family[b] \in keep}
                 /\ Differ(r, m) <=> \A i, j \in DOMAIN Supported :
                                        /\ Supported[i] = Supported[j]
                                        /\ Family[Supported[i]] \in keep
                                        => i = j
<1> DEFINE keep == A \ {"4g", "none"}
           P == {i \in DOMAIN Supported : FamilyOf(Supported[i]) \in keep}
           N == Len(Supported)
           r == Retained(A)
<1>1. /\ N \in Nat /\ DOMAIN Supported = 1..N
      /\ \A i \in 1..N : Supported[i] \in Band /\ FamilyOf(Supported[i]) = Family[Supported[i]]
  BY RadioAssumption DEF FamilyOf
<1>2. Lists(r, Supported, P, N)
  <2>1. r = SelectedAfter(Supported, P)[N]
    BY DEF Retained, Selected
  <2> HIDE DEF P, r
  <2>2. \A n \in 0..Len(Supported) : Lists(SelectedAfter(Supported, P)[n], Supported, P, n)
    BY <1>1, SelectedLists
  <2> QED BY <1>1, <2>1, <2>2
<1>3. P = {i \in 1..N : Family[Supported[i]] \in keep} /\ P \cap (1..N) = P
  BY <1>1
<1> HIDE DEF P, N, r, keep
<1>4. PICK m \in Nat : \E f \in [1..m -> P] :
        /\ r = [i \in 1..m |-> Supported[f[i]]]
        /\ \A i, j \in 1..m : i < j => f[i] < f[j]
        /\ \A p \in P : \E i \in 1..m : f[i] = p
  BY <1>2, <1>3, SMTT(60) DEF Lists
<1>5. PICK f \in [1..m -> P] :
        /\ r = [i \in 1..m |-> Supported[f[i]]]
        /\ \A i, j \in 1..m : i < j => f[i] < f[j]
        /\ \A p \in P : \E i \in 1..m : f[i] = p
  BY <1>4
<1>6. \A i \in 1..m : f[i] \in 1..N /\ Family[Supported[f[i]]] \in keep /\ r[i] = Supported[f[i]]
  BY <1>3, <1>5
<1>7. r \in [1..m -> Band] /\ Len(r) = m
  <2>1. r \in [1..m -> Band]
    BY <1>1, <1>5, <1>6
  <2>2. r \in Seq(Band) /\ DOMAIN r = 1..m
    BY <2>1
  <2> QED BY <2>1, <2>2
<1>8. {r[i] : i \in 1..m} = {b \in SupportedSet : Family[b] \in keep}
  <2>1. ASSUME NEW i \in 1..m PROVE r[i] \in SupportedSet /\ Family[r[i]] \in keep
    BY <1>1, <1>6 DEF SupportedSet
  <2>2. ASSUME NEW b \in SupportedSet, Family[b] \in keep PROVE \E i \in 1..m : r[i] = b
    <3>1. PICK p \in 1..N : b = Supported[p]
      BY <1>1 DEF SupportedSet
    <3>2. p \in P
      BY <1>3, <2>2, <3>1
    <3> QED BY <1>5, <1>6, <3>1, <3>2
  <2> QED BY <2>1, <2>2
<1>9. ASSUME Differ(r, m),
             NEW i \in 1..N, NEW j \in 1..N,
             Supported[i] = Supported[j], Family[Supported[i]] \in keep
      PROVE  i = j
  <2>1. i \in P /\ j \in P
    BY <1>3, <1>9
  <2>2. PICK x \in 1..m : f[x] = i
    BY <1>5, <2>1
  <2>3. PICK y \in 1..m : f[y] = j
    BY <1>5, <2>1
  <2>4. r[x] = r[y]
    BY <1>6, <1>9, <2>2, <2>3
  <2> QED BY <1>9, <2>2, <2>3, <2>4 DEF Differ
<1>10. ASSUME \A i, j \in 1..N : Supported[i] = Supported[j] /\ Family[Supported[i]] \in keep => i = j
       PROVE  Differ(r, m)
  <2> SUFFICES ASSUME NEW x \in 1..m, NEW y \in 1..m, r[x] = r[y] PROVE x = y
    BY DEF Differ
  <2>1. f[x] = f[y]
    BY <1>6, <1>10
  <2>2. f[x] \in Nat /\ f[y] \in Nat
    BY <1>1, <1>6
  <2> QED BY <1>5, <2>1, <2>2
<1>11. Differ(r, m) <=> \A i, j \in DOMAIN Supported :
                           /\ Supported[i] = Supported[j]
                           /\ Family[Supported[i]] \in keep
                           => i = j
  BY <1>1, <1>9, <1>10
<1> QED BY <1>7, <1>8, <1>11 DEF r, keep

\* What l850gl_radio_resolve_bands accepts, without the order of its tests.
Resolved(e, n, A) ==
    /\ \A i \in 1..n : e[i] # AnyBand /\ e[i] \in SupportedSet
    /\ Differ(e, n)
    /\ {FamilyOf(e[i]) : i \in 1..n} = A

LEMMA ResolveExact ==
    ASSUME NEW A, A # {}, Supported # <<>>,
           NEW n \in Nat, NEW e, DOMAIN e = 1..n, e # <<AnyBand>>
    PROVE  Resolve(e, A) = "ok" <=> Resolved(e, n, A)
<1> DEFINE good(i) == Verdict(e, A, i) = "ok"
           bad == {i \in 1..n : ~good(i)}
<1>1. ASSUME NEW i \in 1..n
      PROVE  good(i) <=> /\ e[i] # AnyBand /\ e[i] \in SupportedSet /\ FamilyOf(e[i]) \in A
                         /\ \A j \in 1..(i - 1) : e[j] # e[i]
  BY DEF Verdict
<1>2. ASSUME bad # {} PROVE Verdict(e, A, Min(bad)) # "ok"
  <2>1. bad \subseteq Nat
    OBVIOUS
  <2> DEFINE least(x) == \A y \in bad : x <= y
  <2>2. \E x \in bad : least(x)
    <3> HIDE DEF bad
    <3>1. PICK x \in bad : \A y \in bad : ~(y < x)
      BY <1>2, <2>1, LeastOf
    <3>2. least(x)
      BY <2>1, <3>1
    <3> QED BY <3>2
  <2>3. Min(bad) = CHOOSE x \in bad : least(x)
    BY DEF Min
  <2>4. Min(bad) \in bad
    <3> HIDE DEF bad, least
    <3> QED BY <2>2, <2>3
  <2> QED BY <2>4
<1>3. Resolve(e, A) = "ok" <=> bad = {} /\ {FamilyOf(e[i]) : i \in 1..n} = A
  <2>1. bad = {i \in DOMAIN e : Verdict(e, A, i) # "ok"}
    OBVIOUS
  <2> HIDE DEF bad
  <2>2. Resolve(e, A) = IF bad # {} THEN Verdict(e, A, Min(bad))
                        ELSE IF {FamilyOf(e[i]) : i \in 1..n} # A THEN "family_mismatch"
                        ELSE "ok"
    BY <2>1 DEF Resolve
  <2> QED BY <1>2, <2>2
<1>4. bad = {} <=> \A i \in 1..n : good(i)
  OBVIOUS
<1>5. Differ(e, n) <=> \A i \in 1..n : \A j \in 1..(i - 1) : e[j] # e[i]
  <2>1. ASSUME Differ(e, n), NEW i \in 1..n, NEW j \in 1..(i - 1) PROVE e[j] # e[i]
    <3>1. j \in 1..n /\ j # i
      OBVIOUS
    <3> QED BY <2>1, <3>1 DEF Differ
  <2>2. ASSUME \A i \in 1..n : \A j \in 1..(i - 1) : e[j] # e[i] PROVE Differ(e, n)
    <3> SUFFICES ASSUME NEW i \in 1..n, NEW j \in 1..n, e[i] = e[j], i < j PROVE FALSE
      BY DEF Differ
    <3>1. i \in 1..(j - 1)
      OBVIOUS
    <3> QED BY <2>2, <3>1
  <2> QED BY <2>1, <2>2
<1> HIDE DEF good, bad
<1> QED BY <1>1, <1>3, <1>4, <1>5 DEF Resolved

\* The request q and the bands r that are added to it, one after the other.
LEMMA Joined ==
    ASSUME NEW n \in Nat, NEW m \in Nat, NEW B, NEW q \in [1..n -> B], NEW r \in [1..m -> B]
    PROVE  /\ q \o r \in [1..(n + m) -> B]
           /\ \A i \in 1..n : (q \o r)[i] = q[i]
           /\ \A i \in 1..m : (q \o r)[n + i] = r[i]
           /\ \A i \in 1..(n + m) : i \in 1..n \/ \E j \in 1..m : i = n + j
<1>1. q \in Seq(B) /\ r \in Seq(B) /\ Len(q) = n /\ Len(r) = m
  OBVIOUS
<1>2. q \o r \in Seq(B) /\ Len(q \o r) = n + m
  BY <1>1
<1>3. \A i \in 1..n : (q \o r)[i] = q[i]
  BY <1>1
<1>4. ASSUME NEW i \in 1..m PROVE (q \o r)[n + i] = r[i]
  <2>1. n + i \in 1..(n + m) /\ n + i > n /\ (n + i) - n = i
    OBVIOUS
  <2> QED BY <1>1, <2>1
<1>5. ASSUME NEW i \in 1..(n + m), i \notin 1..n PROVE \E j \in 1..m : i = n + j
  <2>1. i - n \in 1..m /\ i = n + (i - n)
    BY <1>5
  <2> QED BY <2>1
<1>6. q \o r \in [1..(n + m) -> B]
  <2> DEFINE e == q \o r
             k == n + m
  <2>1. e \in Seq(B) /\ Len(e) = k
    BY <1>2
  <2> HIDE DEF e, k
  <2>2. e \in [1..k -> B]
    BY <2>1
  <2> QED BY <2>2 DEF e, k
<1> QED BY <1>3, <1>4, <1>5, <1>6

\* They differ exactly if those requested do, those added do, and none is both.
LEMMA JoinedDiffer ==
    ASSUME NEW n \in Nat, NEW m \in Nat, NEW B, NEW q \in [1..n -> B], NEW r \in [1..m -> B],
           \A i \in 1..n : \A j \in 1..m : q[i] # r[j]
    PROVE  Differ(q \o r, n + m) <=> Differ(q, n) /\ Differ(r, m)
<1> DEFINE e == q \o r
<1>1. /\ \A i \in 1..n : e[i] = q[i]
      /\ \A i \in 1..m : e[n + i] = r[i]
      /\ \A i \in 1..(n + m) : i \in 1..n \/ \E j \in 1..m : i = n + j
  BY Joined
<1> HIDE DEF e
<1>2. ASSUME Differ(e, n + m) PROVE Differ(q, n) /\ Differ(r, m)
  <2>1. ASSUME NEW i \in 1..n, NEW j \in 1..n, q[i] = q[j] PROVE i = j
    <3>1. i \in 1..(n + m) /\ j \in 1..(n + m)
      OBVIOUS
    <3> QED BY <1>1, <1>2, <2>1, <3>1 DEF Differ
  <2>2. ASSUME NEW i \in 1..m, NEW j \in 1..m, r[i] = r[j] PROVE i = j
    <3>1. n + i \in 1..(n + m) /\ n + j \in 1..(n + m)
      OBVIOUS
    <3>2. e[n + i] = e[n + j]
      BY <1>1, <2>2
    <3>3. n + i = n + j
      BY <1>2, <3>1, <3>2 DEF Differ
    <3> QED BY <3>3
  <2> QED BY <2>1, <2>2 DEF Differ
<1>3. ASSUME Differ(q, n), Differ(r, m) PROVE Differ(e, n + m)
  <2> SUFFICES ASSUME NEW i \in 1..(n + m), NEW j \in 1..(n + m), e[i] = e[j] PROVE i = j
    BY DEF Differ
  <2>1. CASE i \in 1..n /\ j \in 1..n
    BY <1>1, <1>3, <2>1 DEF Differ
  <2>2. CASE i \in 1..n /\ j \notin 1..n
    <3>1. PICK y \in 1..m : j = n + y
      BY <1>1, <2>2
    <3>2. e[i] = q[i] /\ e[j] = r[y]
      BY <1>1, <2>2, <3>1
    <3> QED BY <2>2, <3>2
  <2>3. CASE i \notin 1..n /\ j \in 1..n
    <3>1. PICK x \in 1..m : i = n + x
      BY <1>1, <2>3
    <3>2. e[j] = q[j] /\ e[i] = r[x]
      BY <1>1, <2>3, <3>1
    <3> QED BY <2>3, <3>2
  <2>4. CASE i \notin 1..n /\ j \notin 1..n
    <3>1. PICK x \in 1..m : i = n + x
      BY <1>1, <2>4
    <3>2. PICK y \in 1..m : j = n + y
      BY <1>1, <2>4
    <3>3. r[x] = r[y]
      BY <1>1, <3>1, <3>2
    <3> QED BY <1>3, <3>1, <3>2, <3>3 DEF Differ
  <2> QED BY <2>1, <2>2, <2>3, <2>4
<1> QED BY <1>2, <1>3 DEF e

\* All that is requested is LTE.
AllLte(q, n) == \A i \in 1..n : FamilyOf(q[i]) = "4g"

\* The bands that are added are listed once.
ListedOnce(A) ==
    \A i, j \in DOMAIN Supported :
        /\ Supported[i] = Supported[j]
        /\ Family[Supported[i]] \in A \ {"4g", "none"}
        => i = j

\* The n bands requested, completed with m others: they are the bands that the
\* documentation names, each once under the documented conditions.
Completes(r, m, q, n, A) ==
    LET e == q \o r
    IN  /\ Len(r) = m
        /\ e \in [1..(n + m) -> Band] /\ e # <<AnyBand>>
        /\ \A i \in 1..n : e[i] = q[i]
        /\ {e[i] : i \in 1..(n + m)} = Complete(q, A)
        /\ Differ(e, n + m) <=> Differ(q, n) /\ ListedOnce(A)
        /\ \A i \in (n + 1)..(n + m) : e[i] \in SupportedSet

LEMMA CompletedIs ==
    ASSUME NEW A, NEW n \in Nat \ {0}, NEW q \in [1..n -> Band \cup {AnyBand}], AllLte(q, n)
    PROVE  \E m \in Nat : Completes(Retained(A), m, q, n, A)
<1> DEFINE r == Retained(A)
           keep == A \ {"4g", "none"}
           e == q \o r
<1>1. PICK m \in Nat :
        /\ r \in [1..m -> Band] /\ Len(r) = m
        /\ {r[i] : i \in 1..m} = {b \in SupportedSet : Family[b] \in keep}
        /\ Differ(r, m) <=> ListedOnce(A)
  <2> HIDE DEF r
  <2>1. \E m \in Nat :
          /\ r \in [1..m -> Band] /\ Len(r) = m
          /\ {r[i] : i \in 1..m} = {b \in SupportedSet : Family[b] \in keep}
          /\ Differ(r, m) <=> \A i, j \in DOMAIN Supported :
                                /\ Supported[i] = Supported[j]
                                /\ Family[Supported[i]] \in keep
                                => i = j
    BY RetainedIs DEF r
  <2> QED BY <2>1 DEF ListedOnce
<1> HIDE DEF r
<1>2. ASSUME NEW i \in 1..n PROVE q[i] \in Band /\ Family[q[i]] = "4g"
  <2>1. q[i] \in Band \cup {AnyBand} /\ FamilyOf(q[i]) = "4g"
    BY DEF AllLte
  <2> QED BY <2>1 DEF FamilyOf
<1>3. q \in [1..n -> Band]
  BY <1>2
<1>4. \A i \in 1..m : r[i] \in SupportedSet /\ Family[r[i]] \in keep
  BY <1>1
<1>5. \A i \in 1..n : \A j \in 1..m : q[i] # r[j]
  BY <1>2, <1>4
<1>6. /\ e \in [1..(n + m) -> Band]
      /\ \A i \in 1..n : e[i] = q[i]
      /\ \A i \in 1..m : e[n + i] = r[i]
      /\ \A i \in 1..(n + m) : i \in 1..n \/ \E j \in 1..m : i = n + j
  BY <1>1, <1>3, Joined, ZenonT(60)
<1>7. Differ(e, n + m) <=> Differ(q, n) /\ ListedOnce(A)
  BY <1>1, <1>3, <1>5, JoinedDiffer
<1> HIDE DEF e
<1>8. e # <<AnyBand>>
  <2>1. 1 \in 1..n /\ e[1] = q[1] /\ q[1] \in Band
    BY <1>2, <1>6
  <2>2. e[1] # AnyBand
    BY <2>1, RadioAssumption
  <2> QED BY <2>2
<1>9. {e[i] : i \in 1..(n + m)} = Complete(q, A)
  <2>1. Complete(q, A) = {q[i] : i \in 1..n} \cup {r[i] : i \in 1..m}
    BY <1>1 DEF Complete
  <2>2. ASSUME NEW i \in 1..(n + m) PROVE e[i] \in {q[j] : j \in 1..n} \cup {r[j] : j \in 1..m}
    BY <1>6
  <2>3. ASSUME NEW i \in 1..n PROVE \E k \in 1..(n + m) : e[k] = q[i]
    <3>1. i \in 1..(n + m)
      OBVIOUS
    <3> QED BY <1>6, <3>1
  <2>4. ASSUME NEW i \in 1..m PROVE \E k \in 1..(n + m) : e[k] = r[i]
    <3>1. n + i \in 1..(n + m)
      OBVIOUS
    <3> QED BY <1>6, <3>1
  <2> DEFINE k == n + m
             C == Complete(q, A)
             L == {q[i] : i \in 1..n}
             M == {r[i] : i \in 1..m}
  <2>5. \A x \in L \cup M : \E i \in 1..k : e[i] = x
    BY <2>3, <2>4
  <2>6. \A i \in 1..k : e[i] \in L \cup M
    BY <2>2
  <2>7. C = L \cup M
    BY <2>1
  <2> HIDE DEF k, C, L, M
  <2>8. {e[i] : i \in 1..k} = C
    BY <2>5, <2>6, <2>7
  <2> QED BY <2>8 DEF k, C
<1>10. ASSUME NEW i \in (n + 1)..(n + m) PROVE e[i] \in SupportedSet
  <2>1. i \in 1..(n + m) /\ i \notin 1..n
    OBVIOUS
  <2>2. PICK j \in 1..m : i = n + j
    BY <1>6, <2>1
  <2> QED BY <1>4, <1>6, <2>2
<1>11. Completes(r, m, q, n, A)
  <2> DEFINE k == n + m
  <2>1. /\ e \in [1..k -> Band] /\ {e[i] : i \in 1..k} = Complete(q, A)
        /\ Differ(e, k) <=> Differ(q, n) /\ ListedOnce(A)
        /\ \A i \in (n + 1)..k : e[i] \in SupportedSet
    BY <1>6, <1>7, <1>9, <1>10
  <2> QED BY <1>1, <1>6, <1>8, <2>1, Zenon DEF Completes, e
<1> QED BY <1>11 DEF r

\* What the documentation asks of explicit bands.
Documented(q, A) ==
    LET chosen == {q[i] : i \in DOMAIN q}
    IN  /\ chosen \subseteq {b \in SupportedSet : Family[b] = "4g"}
        /\ Cardinality(chosen) = Len(q)
        /\ ListedOnce(A)
        /\ {Family[b] : b \in Complete(q, A)} = A
        /\ Cardinality(Complete(q, A)) <= RequestBandsMax

\* Explicit bands are accepted exactly if the documentation calls them valid,
\* and are then completed.
LEMMA ExplicitExact ==
    ASSUME NEW A, A # {}, Supported # <<>>,
           NEW n \in Nat \ {0}, NEW q \in [1..n -> Band \cup {AnyBand}], q # <<AnyBand>>
    PROVE  LET e == q \o Retained(A)
               accepted == Expand(q, A) = "ok" /\ Resolve(e, A) = "ok"
           IN  /\ accepted <=> Documented(q, A)
               /\ accepted => {e[i] : i \in DOMAIN e} = Complete(q, A)
<1> DEFINE e == q \o Retained(A)
           chosen == {q[i] : i \in DOMAIN q}
<1>1. DOMAIN q = 1..n /\ Len(q) = n
  OBVIOUS
<1>2. Expand(q, A) = "ok" <=> /\ "4g" \in A /\ AllLte(q, n)
                              /\ ~(n + Len(Retained(A)) > RequestBandsMax)
  BY <1>1 DEF Expand, AllLte
<1>3. SupportedSet \subseteq Band /\ AnyBand \notin Band
  BY RadioAssumption DEF SupportedSet
<1>4. Documented(q, A) => AllLte(q, n)
  <2> SUFFICES ASSUME Documented(q, A), NEW i \in 1..n PROVE FamilyOf(q[i]) = "4g"
    BY DEF AllLte
  <2>1. q[i] \in SupportedSet /\ Family[q[i]] = "4g"
    BY <1>1 DEF Documented
  <2> QED BY <1>3, <2>1 DEF FamilyOf
<1>5. ASSUME AllLte(q, n)
      PROVE  /\ Expand(q, A) = "ok" /\ Resolve(e, A) = "ok" <=> Documented(q, A)
             /\ {e[i] : i \in DOMAIN e} = Complete(q, A)
  <2>1. PICK m \in Nat :
          /\ Len(Retained(A)) = m
          /\ e \in [1..(n + m) -> Band] /\ e # <<AnyBand>>
          /\ \A i \in 1..n : e[i] = q[i]
          /\ {e[i] : i \in 1..(n + m)} = Complete(q, A)
          /\ Differ(e, n + m) <=> Differ(q, n) /\ ListedOnce(A)
          /\ \A i \in (n + 1)..(n + m) : e[i] \in SupportedSet
    <3>1. PICK m \in Nat : Completes(Retained(A), m, q, n, A)
      BY <1>5, CompletedIs
    <3> QED BY <3>1, Zenon DEF Completes
  <2> DEFINE k == n + m
  <2>2. k \in Nat /\ DOMAIN e = 1..k
    BY <2>1
  <2> HIDE DEF e
  <2>3. Resolve(e, A) = "ok" <=> Resolved(e, k, A)
    <3> HIDE DEF k
    <3> QED BY <2>1, <2>2, ResolveExact
  <2>4. \A i \in 1..k : e[i] \in Band /\ e[i] # AnyBand /\ FamilyOf(e[i]) = Family[e[i]]
    BY <1>3, <2>1 DEF FamilyOf
  <2>5. (\A i \in 1..k : e[i] \in SupportedSet) <=> \A i \in 1..n : q[i] \in SupportedSet
    <3>1. \A i \in 1..k : i \in 1..n \/ i \in (n + 1)..(n + m)
      OBVIOUS
    <3>2. \A i \in 1..n : i \in 1..k
      OBVIOUS
    <3> QED BY <2>1, <3>1, <3>2
  <2>6. \A i \in 1..n : q[i] \in Band /\ Family[q[i]] = "4g"
    <3>1. \A i \in 1..n : q[i] \in Band \cup {AnyBand} /\ FamilyOf(q[i]) = "4g"
      BY <1>5 DEF AllLte
    <3> QED BY <3>1 DEF FamilyOf
  <2>7. chosen \subseteq {b \in SupportedSet : Family[b] = "4g"}
          <=> \A i \in 1..n : q[i] \in SupportedSet
    BY <1>1, <2>6
  <2>8. Cardinality(chosen) = n <=> Differ(q, n)
    <3>1. q \in [1..n -> chosen] /\ \A t \in chosen : \E i \in 1..n : q[i] = t
      BY <1>1
    <3> HIDE DEF chosen
    <3> QED BY <3>1, CountDiffers
  <2>9. Cardinality(Complete(q, A)) = k <=> Differ(e, k)
    <3> DEFINE C == Complete(q, A)
    <3>1. e \in [1..k -> C] /\ \A t \in C : \E i \in 1..k : e[i] = t
      BY <2>1, <2>2
    <3> HIDE DEF C, k
    <3>2. Cardinality(C) = k <=> Differ(e, k)
      BY <2>2, <3>1, CountDiffers
    <3> QED BY <3>2 DEF C
  <2>10. {FamilyOf(e[i]) : i \in 1..k} = {Family[b] : b \in Complete(q, A)}
    <3> DEFINE C == Complete(q, A)
    <3>1. C = {e[i] : i \in 1..k}
      BY <2>1
    <3> HIDE DEF C, k
    <3>2. {FamilyOf(e[i]) : i \in 1..k} = {Family[b] : b \in C}
      BY <2>4, <3>1
    <3> QED BY <3>2 DEF C
  <2>11. {Family[b] : b \in Complete(q, A)} = A => "4g" \in A
    <3>1. q[1] \in Complete(q, A) /\ Family[q[1]] = "4g"
      BY <1>1, <2>6 DEF Complete
    <3> QED BY <3>1
  <2>12. Expand(q, A) = "ok" <=> "4g" \in A /\ k <= RequestBandsMax
    BY <1>2, <1>5, <2>1, RadioAssumption
  <2>13. Resolved(e, k, A) <=> /\ \A i \in 1..n : q[i] \in SupportedSet
                               /\ Differ(q, n) /\ ListedOnce(A)
                               /\ {Family[b] : b \in Complete(q, A)} = A
    BY <2>1, <2>4, <2>5, <2>10 DEF Resolved
  <2>14. Documented(q, A) <=> /\ \A i \in 1..n : q[i] \in SupportedSet
                              /\ Differ(q, n) /\ ListedOnce(A)
                              /\ {Family[b] : b \in Complete(q, A)} = A
                              /\ Cardinality(Complete(q, A)) <= RequestBandsMax
    BY <1>1, <2>7, <2>8 DEF Documented
  <2>15. Differ(q, n) /\ ListedOnce(A) => Cardinality(Complete(q, A)) = k
    BY <2>1, <2>9
  <2>16. {e[i] : i \in DOMAIN e} = Complete(q, A)
    BY <2>1, <2>2
  <2> HIDE DEF k
  <2> QED BY <2>3, <2>11, <2>12, <2>13, <2>14, <2>15, <2>16
<1> HIDE DEF e
<1>6. /\ Expand(q, A) = "ok" /\ Resolve(e, A) = "ok" <=> Documented(q, A)
      /\ Expand(q, A) = "ok" => {e[i] : i \in DOMAIN e} = Complete(q, A)
  BY <1>2, <1>4, <1>5
<1> QED BY <1>6 DEF e

\* The policy is exact for every request under any modes.
LEMMA PolicyIsExact ==
    ASSUME NEW modes
    PROVE  PolicyExact(modes)
<1> SUFFICES ASSUME NEW q \in Requests
             PROVE  /\ SelectionCode(q, modes) = "ok" <=> ValidSelection(q, modes)
                    /\ SelectionCode(q, modes) = "ok" /\ q # <<AnyBand>>
                         => LET e == Effective(q, CurrentFamilies(modes))
                            IN  {e[i] : i \in DOMAIN e} = Complete(q, CurrentFamilies(modes))
  BY DEF PolicyExact
<1> DEFINE A == CurrentFamilies(modes)
<1>1. PICK n \in Nat \ {0} : q \in [1..n -> Band \cup {AnyBand}]
  BY RadioAssumption DEF Requests
<1>2. CASE A = {} \/ Supported = <<>>
  BY <1>2 DEF SelectionCode, ValidSelection
<1>3. CASE A # {} /\ Supported # <<>> /\ q = <<AnyBand>>
  <2>1. Expand(q, A) = "ok" /\ Effective(q, A) = q /\ Resolve(q, A) = "ok"
    BY <1>3 DEF Expand, Effective, Resolve
  <2>2. SelectionCode(q, modes) = "ok"
    BY <1>3, <2>1 DEF SelectionCode
  <2>3. ValidSelection(q, modes)
    BY <1>3 DEF ValidSelection
  <2> QED BY <1>3, <2>2, <2>3
<1>4. CASE A # {} /\ Supported # <<>> /\ q # <<AnyBand>>
  <2> DEFINE e == q \o Retained(A)
  <2>1. Effective(q, A) = e
    BY <1>4 DEF Effective
  <2>2. SelectionCode(q, modes) = "ok" <=> Expand(q, A) = "ok" /\ Resolve(e, A) = "ok"
    BY <1>4, <2>1 DEF SelectionCode
  <2>3. ValidSelection(q, modes) <=> Documented(q, A)
    BY <1>4 DEF ValidSelection, Documented, ListedOnce
  <2> HIDE DEF A
  <2>4. /\ Expand(q, A) = "ok" /\ Resolve(e, A) = "ok" <=> Documented(q, A)
        /\ Expand(q, A) = "ok" /\ Resolve(e, A) = "ok" => {e[i] : i \in DOMAIN e} = Complete(q, A)
    BY <1>1, <1>4, ExplicitExact
  <2> QED BY <2>1, <2>2, <2>3, <2>4 DEF A
<1> QED BY <1>2, <1>3, <1>4

-----------------------------------------------------------------------------
(* The theorems.                                                           *)

\* What the input is, after any number of lines.
InputIs ==
    \/ \E k \in Kinds : \E ls \in Seq(Lines[k]) : input = [kind |-> k, lines |-> ls]
    \/ \E e \in Nat : \E l \in {ClearLock} \cup Locks(e) : input = [kind |-> "lock", lock |-> l]
    \/ \E m \in Modes : input = [kind |-> "modes", modes |-> m]

\* The input never becomes anything else.
LEMMA InputStays == Spec => []InputIs
<1>1. Init => InputIs
  <2> SUFFICES ASSUME Init PROVE InputIs
    OBVIOUS
  <2>1. CASE \E k \in DOMAIN Lines : input = [kind |-> k, lines |-> <<>>]
    <3>1. \A k \in Kinds : <<>> \in Seq(Lines[k])
      OBVIOUS
    <3> QED BY <2>1, <3>1, AnswersAssumption DEF InputIs
  <2>2. CASE input = [kind |-> "lock", lock |-> ClearLock]
    <3>1. 0 \in Nat /\ ClearLock \in {ClearLock} \cup Locks(0)
      OBVIOUS
    <3> QED BY <2>2, <3>1 DEF InputIs
  <2>3. CASE \E e \in Channels : \E l \in Locks(e) : input = [kind |-> "lock", lock |-> l]
    BY <2>3, ChannelsAreNumbers DEF InputIs
  <2>4. CASE \E m \in Modes : input = [kind |-> "modes", modes |-> m]
    BY <2>4 DEF InputIs
  <2> QED BY <2>1, <2>2, <2>3, <2>4 DEF Init
<1>2. ASSUME InputIs, [Line]_input PROVE InputIs'
  <2>1. CASE UNCHANGED input
    BY <1>2, <2>1 DEF InputIs
  <2>2. CASE Line
    <3>1. input.kind \in Kinds
      BY <2>2, AnswersAssumption DEF Line
    <3>2. PICK k \in Kinds : \E ls \in Seq(Lines[k]) : input = [kind |-> k, lines |-> ls]
      BY <1>2, <3>1 DEF InputIs, Kinds
    <3>3. PICK ls \in Seq(Lines[k]) : input = [kind |-> k, lines |-> ls]
      BY <3>2
    <3>4. PICK l \in Lines[k] : input' = [input EXCEPT !.lines = Append(@, l)]
      BY <2>2, <3>3 DEF Line
    <3>5. Append(ls, l) \in Seq(Lines[k])
      BY <3>3, <3>4
    <3>6. input' = [kind |-> k, lines |-> Append(ls, l)]
      BY <3>3, <3>4
    <3> QED BY <3>5, <3>6 DEF InputIs
  <2> QED BY <1>2, <2>1, <2>2
<1> QED BY <1>1, <1>2, PTL DEF Spec

(***************************************************************************)
(* Whatever the lines of an answer, their number and their order, and      *)
(* whatever the limits, the parsers of l850_cell.c, l850_ca.c and          *)
(* l850_voltage.c accept the answer exactly if it is good and then lose    *)
(* nothing of it.                                                          *)
(***************************************************************************)
THEOREM AnswersAreExact == Spec => []AnswersExact
<1>1. ASSUME InputIs PROVE AnswersExact
  <2>1. ASSUME input.kind \in Kinds PROVE input.lines \in Seq(Lines[input.kind])
    <3>1. PICK k \in Kinds : \E ls \in Seq(Lines[k]) : input = [kind |-> k, lines |-> ls]
      BY <1>1, <2>1 DEF InputIs, Kinds
    <3> QED BY <3>1
  <2>2. CASE input.kind = "cells"
    <3> DEFINE S == Lines["cells"]
               lines == input.lines
    <3>1. lines \in Seq(S)
      BY <2>1, <2>2 DEF Kinds
    <3> HIDE DEF S, lines
    <3>2. CellsExact(lines)
      BY <3>1, LimitsAssumption, CellsAreExact
    <3> QED BY <2>2, <3>2 DEF AnswersExact, lines
  <2>3. CASE input.kind = "carriers"
    <3> DEFINE S == Lines["carriers"]
               lines == input.lines
    <3>1. lines \in Seq(S)
      BY <2>1, <2>3 DEF Kinds
    <3>2. \A l \in S : CarrierLine(l)
      BY AnswersAssumption DEF CarrierLine
    <3> HIDE DEF S, lines
    <3>3. CarriersExact(lines)
      BY <3>1, <3>2, CarriersAreExact
    <3> QED BY <2>3, <3>3 DEF AnswersExact, lines
  <2>4. CASE input.kind = "nvm"
    <3> DEFINE S == Lines["nvm"]
               lines == input.lines
    <3>1. lines \in Seq(S)
      BY <2>1, <2>4 DEF Kinds
    <3> HIDE DEF S, lines
    <3>2. NvmParse(lines) = "ok" <=> NvmIsGood(lines)
      BY <3>1, NvmExact
    <3> QED BY <2>4, <3>2 DEF AnswersExact, lines
  <2>5. CASE input.kind = "voltage"
    <3> DEFINE S == Lines["voltage"]
               lines == input.lines
    <3>1. lines \in Seq(S)
      BY <2>1, <2>5 DEF Kinds
    <3> HIDE DEF S, lines
    <3>2. VoltageParse(lines) = "ok" <=> VoltageIsGood(lines)
      BY <3>1, VoltageExact
    <3> QED BY <2>5, <3>2 DEF AnswersExact, lines
  <2>6. CASE input.kind \notin Kinds
    BY <2>6 DEF AnswersExact, Kinds
  <2> QED BY <2>2, <2>3, <2>4, <2>5, <2>6 DEF Kinds
<1> QED BY <1>1, InputStays, PTL

(***************************************************************************)
(* A lock that set_cell_lock accepts is read back as itself and as no      *)
(* other, one that it refuses is not; on every channel of both tables and  *)
(* beside them.                                                            *)
(***************************************************************************)
THEOREM LocksRoundTrip == Spec => []LockRoundTrip
<1>1. ASSUME InputIs PROVE LockRoundTrip
  <2>1. CASE input.kind # "lock"
    BY <2>1 DEF LockRoundTrip
  <2>2. CASE input.kind = "lock"
    <3>1. PICK e \in Nat : \E l \in {ClearLock} \cup Locks(e) :
                              input = [kind |-> "lock", lock |-> l]
      BY <1>1, <2>2 DEF InputIs, Kinds
    <3>2. PICK l \in {ClearLock} \cup Locks(e) : input = [kind |-> "lock", lock |-> l]
      BY <3>1
    <3>3. l = input.lock
      BY <3>2
    <3> QED BY <3>2, <3>3, LockExact
  <2> QED BY <2>1, <2>2
<1> QED BY <1>1, InputStays, PTL

(***************************************************************************)
(* Whatever bands a modem supports, in whatever order and however often it *)
(* lists them, whatever the limit and the modes: set_bands accepts exactly *)
(* the requests that the documentation calls valid, and completes them.    *)
(***************************************************************************)
THEOREM BandPolicyIsExact == Spec => []BandPolicyExact
<1>1. BandPolicyExact
  BY PolicyIsExact DEF BandPolicyExact
<1> QED BY <1>1, PTL
=============================================================================
