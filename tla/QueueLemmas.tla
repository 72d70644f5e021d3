----------------------------- MODULE QueueLemmas -----------------------------
(***************************************************************************)
(* What the queues of the code (std::list behind ExynosQueue and the task  *)
(* list of a pool) do to their elements: appending, taking the first and   *)
(* erasing in the middle, for any elements.  The proofs about the pool and *)
(* the component cite these lemmas.                                        *)
(***************************************************************************)
EXTENDS Integers, Sequences, FiniteSets, SequencesExt, TLAPS, SequenceTheorems, FiniteSetTheorems

\* No element occurs twice in s.
Injective(s) == \A j, k \in DOMAIN s : s[j] = s[k] => j = k

\* Where the elements of P stand in s.
Positions(s, P) == {i \in DOMAIN s : s[i] \in P}

\* RemoveAt (std::list::erase) moves the later elements up by one.
LEMMA RemoveAtProperties ==
  ASSUME NEW T, NEW s \in Seq(T), NEW i \in 1..Len(s)
  PROVE  /\ RemoveAt(s, i) \in Seq(T)
         /\ Len(RemoveAt(s, i)) = Len(s) - 1
         /\ \A k \in 1..(Len(s) - 1) :
              RemoveAt(s, i)[k] = s[IF k < i THEN k ELSE k + 1]
<1> DEFINE before == SubSeq(s, 1, i - 1)
           behind == SubSeq(s, i + 1, Len(s))
<1>1. /\ before \in Seq(T)
      /\ Len(before) = i - 1
      /\ \A k \in 1..(i - 1) : before[k] = s[k]
  BY SubSeqProperties
<1>2. /\ behind \in Seq(T)
      /\ Len(behind) = Len(s) - i
      /\ \A k \in 1..(Len(s) - i) : behind[k] = s[k + i]
  BY SubSeqProperties
<1>3. RemoveAt(s, i) = before \o behind
  BY DEF RemoveAt
<1> HIDE DEF before, behind
<1>4. /\ before \o behind \in Seq(T)
      /\ Len(before \o behind) = Len(s) - 1
  <2>1. Len(before \o behind) = Len(before) + Len(behind)
    BY <1>1, <1>2, ConcatProperties
  <2>2. before \o behind \in Seq(T)
    BY <1>1, <1>2, ConcatProperties
  <2> QED
    BY <1>1, <1>2, <2>1, <2>2
<1>5. ASSUME NEW k \in 1..(Len(s) - 1)
      PROVE  (before \o behind)[k] = s[IF k < i THEN k ELSE k + 1]
  <2>1. (before \o behind)[k] = IF k <= i - 1 THEN before[k] ELSE behind[k - (i - 1)]
    BY <1>1, <1>2, ConcatProperties
  <2>2. CASE k < i
    BY <1>1, <2>1, <2>2, LenProperties
  <2>3. CASE ~(k < i)
    <3>1. k - (i - 1) \in 1..(Len(s) - i) /\ k - (i - 1) + i = k + 1
      BY <2>3
    <3> QED
      BY <1>2, <2>1, <2>3, <3>1
  <2> QED
    BY <2>2, <2>3
<1> QED
  BY <1>3, <1>4, <1>5

\* Taking the i-th element out of a list without repetitions leaves the others.
LEMMA RemoveAtInjective ==
  ASSUME NEW T, NEW s \in Seq(T), NEW i \in 1..Len(s), Injective(s)
  PROVE  /\ Injective(RemoveAt(s, i))
         /\ ToSet(RemoveAt(s, i)) = ToSet(s) \ {s[i]}
<1> DEFINE r == RemoveAt(s, i)
           old(k) == IF k < i THEN k ELSE k + 1
<1>1. /\ r \in Seq(T) /\ Len(r) = Len(s) - 1
      /\ \A k \in 1..(Len(s) - 1) : r[k] = s[old(k)]
  BY RemoveAtProperties
<1>2. /\ DOMAIN r = 1..(Len(s) - 1) /\ DOMAIN s = 1..Len(s) /\ Len(s) \in Nat
  BY <1>1
<1>3. \A k \in DOMAIN r : old(k) \in DOMAIN s \ {i} /\ r[k] = s[old(k)]
  BY <1>1, <1>2
<1>4. \A j, k \in DOMAIN r : old(j) = old(k) => j = k
  BY <1>2
<1>5. Injective(r)
  BY <1>3, <1>4 DEF Injective
<1>6. \A m \in DOMAIN s \ {i} : \E k \in DOMAIN r : old(k) = m
  <2> TAKE m \in DOMAIN s \ {i}
  <2>1. CASE m < i
    <3>1. m \in DOMAIN r /\ old(m) = m
      BY <1>2, <2>1
    <3> QED
      BY <3>1
  <2>2. CASE ~(m < i)
    <3>1. m - 1 \in DOMAIN r /\ old(m - 1) = m
      BY <1>2, <2>2
    <3> QED
      BY <3>1
  <2> QED
    BY <2>1, <2>2
<1> HIDE DEF r, old
<1>7. ToSet(r) = {s[m] : m \in DOMAIN s \ {i}}
  BY <1>3, <1>6 DEF ToSet
<1>8. {s[m] : m \in DOMAIN s \ {i}} = ToSet(s) \ {s[i]}
  BY <1>2 DEF ToSet, Injective
<1> QED
  BY <1>5, <1>7, <1>8 DEF r

\* Appending adds one element, and no repetition if it was not there.
LEMMA AppendKeepsInjective ==
  ASSUME NEW T, NEW s \in Seq(T), NEW x \in T
  PROVE  /\ ToSet(Append(s, x)) = ToSet(s) \union {x}
         /\ Injective(s) /\ x \notin ToSet(s) => Injective(Append(s, x))
<1> DEFINE a == Append(s, x)
<1>1. /\ a \in Seq(T) /\ Len(a) = Len(s) + 1 /\ a[Len(s) + 1] = x
      /\ \A k \in 1..Len(s) : a[k] = s[k]
  BY AppendProperties
<1>2. DOMAIN s = 1..Len(s) /\ Len(s) \in Nat /\ DOMAIN a = DOMAIN s \union {Len(s) + 1}
  BY <1>1, LenProperties
<1> HIDE DEF a
<1>3. ToSet(a) = ToSet(s) \union {x}
  BY <1>1, <1>2 DEF ToSet
<1>4. ASSUME Injective(s), x \notin ToSet(s)
      PROVE  Injective(a)
  BY <1>1, <1>2, <1>4 DEF ToSet, Injective
<1> QED
  BY <1>3, <1>4 DEF a

\* Erasing anywhere loses at most the erased element.
LEMMA RemoveAtKeeps ==
  ASSUME NEW T, NEW s \in Seq(T), NEW i \in 1..Len(s)
  PROVE  /\ ToSet(RemoveAt(s, i)) \subseteq ToSet(s)
         /\ ToSet(s) = ToSet(RemoveAt(s, i)) \union {s[i]}
<1> DEFINE r == RemoveAt(s, i)
<1>1. /\ r \in Seq(T) /\ Len(r) = Len(s) - 1
      /\ \A k \in 1..(Len(s) - 1) : r[k] = s[IF k < i THEN k ELSE k + 1]
  BY RemoveAtProperties
<1>2. DOMAIN r = 1..(Len(s) - 1) /\ DOMAIN s = 1..Len(s) /\ Len(s) \in Nat
  BY <1>1
<1> HIDE DEF r
<1>3. \A k \in DOMAIN r : \E m \in DOMAIN s : r[k] = s[m]
  <2> TAKE k \in DOMAIN r
  <2>1. (IF k < i THEN k ELSE k + 1) \in DOMAIN s
    BY <1>2
  <2> QED
    BY <1>1, <1>2, <2>1
<1>4. \A m \in DOMAIN s \ {i} : \E k \in DOMAIN r : r[k] = s[m]
  <2> TAKE m \in DOMAIN s \ {i}
  <2>1. CASE m < i
    <3>1. m \in DOMAIN r
      BY <1>2, <2>1
    <3> QED
      BY <1>1, <1>2, <2>1, <3>1
  <2>2. CASE ~(m < i)
    <3>1. m - 1 \in DOMAIN r /\ ~(m - 1 < i) /\ (m - 1) + 1 = m
      BY <1>2, <2>2
    <3> QED
      BY <1>1, <1>2, <3>1
  <2> QED
    BY <2>1, <2>2
<1> QED
  BY <1>2, <1>3, <1>4 DEF ToSet, r

\* Taking the first element.
LEMMA TailProperties ==
  ASSUME NEW T, NEW s \in Seq(T), s # <<>>
  PROVE  /\ Head(s) \in T /\ Tail(s) \in Seq(T)
         /\ ToSet(s) = ToSet(Tail(s)) \union {Head(s)}
         /\ Injective(s) => Injective(Tail(s)) /\ Head(s) \notin ToSet(Tail(s))
<1> DEFINE t == Tail(s)
<1>1. /\ t \in Seq(T) /\ Len(t) = Len(s) - 1 /\ Head(s) = s[1] /\ Head(s) \in T
      /\ \A k \in 1..Len(t) : t[k] = s[k + 1]
  BY HeadTailProperties
<1>2. DOMAIN t = 1..Len(t) /\ DOMAIN s = 1..Len(s) /\ Len(s) \in Nat /\ Len(t) \in Nat
      /\ 1 \in DOMAIN s
  BY <1>1, LenProperties
<1> HIDE DEF t
<1>3. \A k \in DOMAIN t : k + 1 \in DOMAIN s /\ k + 1 # 1 /\ t[k] = s[k + 1]
  BY <1>1, <1>2
<1>4. \A m \in DOMAIN s : m = 1 \/ (m - 1 \in DOMAIN t /\ t[m - 1] = s[m])
  BY <1>1, <1>2
<1>5. ToSet(s) = ToSet(t) \union {Head(s)}
  <2>1. \A k \in DOMAIN t : t[k] \in ToSet(s)
    BY <1>3 DEF ToSet
  <2>2. \A m \in DOMAIN s : s[m] = Head(s) \/ s[m] \in ToSet(t)
    BY <1>1, <1>4 DEF ToSet
  <2>3. Head(s) \in ToSet(s)
    BY <1>1, <1>2 DEF ToSet
  <2> QED
    BY <2>1, <2>2, <2>3 DEF ToSet
<1>6. ASSUME Injective(s) PROVE Injective(t) /\ Head(s) \notin ToSet(t)
  <2>1. \A j, k \in DOMAIN t : t[j] = t[k] => j + 1 = k + 1
    BY <1>3, <1>6 DEF Injective
  <2>2. \A k \in DOMAIN t : t[k] # s[1]
    BY <1>2, <1>3, <1>6 DEF Injective
  <2> QED
    BY <1>1, <1>2, <2>1, <2>2 DEF Injective, ToSet
<1> QED
  BY <1>1, <1>5, <1>6 DEF t

\* Appending a whole sequence.
LEMMA ConcatKeepsInjective ==
  ASSUME NEW T, NEW s \in Seq(T), NEW u \in Seq(T)
  PROVE  /\ ToSet(s \o u) = ToSet(s) \union ToSet(u)
         /\ Injective(s) /\ Injective(u) /\ ToSet(s) \cap ToSet(u) = {} => Injective(s \o u)
<1> DEFINE c == s \o u
<1>1. /\ c \in Seq(T) /\ Len(c) = Len(s) + Len(u)
      /\ \A i \in 1..(Len(s) + Len(u)) : c[i] = IF i <= Len(s) THEN s[i] ELSE u[i - Len(s)]
  BY ConcatProperties
<1>2. /\ DOMAIN s = 1..Len(s) /\ Len(s) \in Nat /\ DOMAIN u = 1..Len(u) /\ Len(u) \in Nat
      /\ DOMAIN c = 1..(Len(s) + Len(u))
  BY <1>1, LenProperties
<1> HIDE DEF c
<1>3. \A i \in DOMAIN c : \/ i \in DOMAIN s /\ c[i] = s[i]
                          \/ i \notin DOMAIN s /\ i - Len(s) \in DOMAIN u /\ c[i] = u[i - Len(s)]
  BY <1>1, <1>2
<1>4. \A i \in DOMAIN s : i \in DOMAIN c /\ c[i] = s[i]
  BY <1>1, <1>2
<1>5. \A i \in DOMAIN u : i + Len(s) \in DOMAIN c /\ c[i + Len(s)] = u[i]
  <2> TAKE i \in DOMAIN u
  <2>1. i + Len(s) \in DOMAIN c /\ ~(i + Len(s) <= Len(s)) /\ (i + Len(s)) - Len(s) = i
    BY <1>2
  <2> QED
    BY <1>1, <1>2, <2>1
<1>6. ToSet(c) = ToSet(s) \union ToSet(u)
  BY <1>3, <1>4, <1>5 DEF ToSet
<1>7. ASSUME Injective(s), Injective(u), ToSet(s) \cap ToSet(u) = {}
      PROVE  Injective(c)
  <2>1. \A i \in DOMAIN s, j \in DOMAIN u : s[i] # u[j]
    BY <1>7 DEF ToSet
  <2> SUFFICES ASSUME NEW j \in DOMAIN c, NEW k \in DOMAIN c, c[j] = c[k] PROVE j = k
    BY DEF Injective
  <2>2. CASE j \in DOMAIN s /\ k \in DOMAIN s
    BY <1>4, <1>7, <2>2 DEF Injective
  <2>3. CASE j \notin DOMAIN s /\ k \notin DOMAIN s
    <3>1. j - Len(s) = k - Len(s)
      BY <1>3, <1>7, <2>3 DEF Injective
    <3> QED
      BY <1>2, <3>1
  <2> QED
    BY <1>3, <2>1, <2>2, <2>3
<1> QED
  BY <1>6, <1>7 DEF c

\* In a queue without repetitions an element stands in one place.
LEMMA PlacesOfOne ==
  ASSUME NEW T, NEW s \in Seq(T), Injective(s), NEW x
  PROVE  Cardinality({i \in DOMAIN s : s[i] = x}) = IF x \in ToSet(s) THEN 1 ELSE 0
<1>1. CASE x \in ToSet(s)
  <2>1. PICK i \in DOMAIN s : s[i] = x
    BY <1>1 DEF ToSet
  <2>2. {k \in DOMAIN s : s[k] = x} = {i}
    BY <2>1 DEF Injective
  <2> QED
    BY <1>1, <2>2, FS_Singleton
<1>2. CASE x \notin ToSet(s)
  <2>1. {k \in DOMAIN s : s[k] = x} = {}
    BY <1>2 DEF ToSet
  <2> QED
    BY <1>2, <2>1, FS_EmptySet
<1> QED
  BY <1>1, <1>2

\* The positions of some elements are finitely many.
LEMMA PositionsFinite ==
  ASSUME NEW T, NEW s \in Seq(T), NEW P
  PROVE  /\ IsFiniteSet(Positions(s, P))
         /\ Cardinality(Positions(s, P)) \in Nat
         /\ Cardinality(Positions(s, P)) = 0 <=> Positions(s, P) = {}
<1>1. IsFiniteSet(DOMAIN s)
  <2>1. DOMAIN s = 1..Len(s) /\ Len(s) \in Nat
    BY LenProperties
  <2> QED
    BY <2>1, FS_Interval
<1>2. IsFiniteSet(Positions(s, P))
  BY <1>1, FS_Subset DEF Positions
<1> QED
  BY <1>2, FS_CardinalityType, FS_EmptySet

\* Appending adds the new position if its element counts.
LEMMA PositionsAppend ==
  ASSUME NEW T, NEW s \in Seq(T), NEW x \in T, NEW P
  PROVE  Cardinality(Positions(Append(s, x), P))
           = Cardinality(Positions(s, P)) + (IF x \in P THEN 1 ELSE 0)
<1> DEFINE a == Append(s, x)
           n == Len(s) + 1
<1>1. /\ a \in Seq(T) /\ Len(a) = n /\ a[n] = x
      /\ \A k \in 1..Len(s) : a[k] = s[k]
  BY AppendProperties
<1>2. DOMAIN s = 1..Len(s) /\ Len(s) \in Nat /\ DOMAIN a = DOMAIN s \union {n} /\ n \notin DOMAIN s
  BY <1>1, LenProperties
<1> HIDE DEF a, n
<1>3. Positions(a, P) = IF x \in P THEN Positions(s, P) \union {n} ELSE Positions(s, P)
  BY <1>1, <1>2 DEF Positions
<1>4. n \notin Positions(s, P)
  BY <1>2 DEF Positions
<1>5. IsFiniteSet(Positions(s, P)) /\ Cardinality(Positions(s, P)) \in Nat
  BY PositionsFinite
<1>6. Cardinality(Positions(s, P) \union {n}) = Cardinality(Positions(s, P)) + 1
  BY <1>4, <1>5, FS_AddElement
<1> QED
  BY <1>3, <1>5, <1>6 DEF a

\* Erasing takes one position away if its element counts.
LEMMA PositionsRemoveAt ==
  ASSUME NEW T, NEW s \in Seq(T), NEW i \in 1..Len(s), NEW P
  PROVE  Cardinality(Positions(RemoveAt(s, i), P))
           = Cardinality(Positions(s, P)) - (IF s[i] \in P THEN 1 ELSE 0)
<1> DEFINE r == RemoveAt(s, i)
           S == Positions(r, P)
           D == Positions(s, P) \ {i}
           old == [k \in S |-> IF k < i THEN k ELSE k + 1]
<1>1. /\ r \in Seq(T) /\ Len(r) = Len(s) - 1
      /\ \A k \in 1..(Len(s) - 1) : r[k] = s[IF k < i THEN k ELSE k + 1]
  BY RemoveAtProperties
<1>2. DOMAIN r = 1..(Len(s) - 1) /\ DOMAIN s = 1..Len(s) /\ Len(s) \in Nat
  BY <1>1
<1>3. IsFiniteSet(S) /\ IsFiniteSet(Positions(s, P)) /\ Cardinality(Positions(s, P)) \in Nat
  BY <1>1, PositionsFinite
<1> HIDE DEF r
<1>4. \A k \in S : k \in 1..(Len(s) - 1) /\ old[k] \in D
  <2> TAKE k \in S
  <2>1. k \in 1..(Len(s) - 1) /\ r[k] \in P
    BY <1>2 DEF Positions
  <2>2. old[k] \in DOMAIN s /\ old[k] # i /\ r[k] = s[old[k]]
    BY <1>1, <1>2, <2>1
  <2> QED
    BY <2>1, <2>2 DEF Positions
<1>5. \A j, k \in S : old[j] = old[k] => j = k
  BY <1>4
<1>6. \A m \in D : \E k \in S : old[k] = m
  <2> TAKE m \in D
  <2>1. m \in 1..Len(s) /\ m # i /\ s[m] \in P
    BY <1>2 DEF Positions
  <2>2. CASE m < i
    <3>1. m \in 1..(Len(s) - 1) /\ r[m] = s[m]
      BY <1>1, <2>1, <2>2
    <3>2. m \in S /\ old[m] = m
      BY <1>2, <2>1, <2>2, <3>1 DEF Positions
    <3> QED
      BY <3>2
  <2>3. CASE ~(m < i)
    <3>1. m - 1 \in 1..(Len(s) - 1) /\ ~(m - 1 < i) /\ (m - 1) + 1 = m
      BY <2>1, <2>3
    <3>2. r[m - 1] = s[m]
      BY <1>1, <3>1
    <3>3. m - 1 \in S
      BY <1>2, <2>1, <3>1, <3>2 DEF Positions
    <3>4. old[m - 1] = m
      BY <3>1, <3>3
    <3> QED
      BY <3>3, <3>4
  <2> QED
    BY <2>2, <2>3
<1>7. old \in Bijection(S, D)
  <2>1. old \in [S -> D]
    BY <1>4
  <2> QED
    BY <1>5, <1>6, <2>1 DEF Bijection, Injection, Surjection, IsInjective
<1>8. Cardinality(D) = Cardinality(S)
  BY <1>3, <1>7, FS_Bijection DEF ExistsBijection
<1>9. i \in Positions(s, P) <=> s[i] \in P
  BY <1>2 DEF Positions
<1>10. Cardinality(D) = Cardinality(Positions(s, P)) - (IF s[i] \in P THEN 1 ELSE 0)
  <2>1. Cardinality(D) = IF i \in Positions(s, P) THEN Cardinality(Positions(s, P)) - 1
                                                 ELSE Cardinality(Positions(s, P))
    BY <1>3, FS_RemoveElement
  <2> HIDE DEF D
  <2> QED
    BY <1>3, <1>9, <2>1
<1> QED
  BY <1>8, <1>10 DEF r

\* Taking the first element takes one position away if it counts.
LEMMA PositionsTail ==
  ASSUME NEW T, NEW s \in Seq(T), s # <<>>, NEW P
  PROVE  Cardinality(Positions(Tail(s), P))
           = Cardinality(Positions(s, P)) - (IF Head(s) \in P THEN 1 ELSE 0)
<1>1. /\ Tail(s) \in Seq(T) /\ Len(Tail(s)) = Len(s) - 1 /\ Head(s) = s[1] /\ 1 \in 1..Len(s)
      /\ \A k \in 1..Len(Tail(s)) : Tail(s)[k] = s[k + 1]
  <2>1. Len(s) \in Nat /\ Len(s) # 0
    BY LenProperties, EmptySeq
  <2> QED
    BY <2>1, HeadTailProperties
<1>2. /\ RemoveAt(s, 1) \in Seq(T) /\ Len(RemoveAt(s, 1)) = Len(s) - 1
      /\ \A k \in 1..(Len(s) - 1) : RemoveAt(s, 1)[k] = s[IF k < 1 THEN k ELSE k + 1]
  BY <1>1, RemoveAtProperties
<1>3. RemoveAt(s, 1) = Tail(s)
  <2>1. \A k \in 1..Len(RemoveAt(s, 1)) : RemoveAt(s, 1)[k] = Tail(s)[k]
    BY <1>1, <1>2, LenProperties
  <2> DEFINE r == RemoveAt(s, 1)
             t == Tail(s)
  <2>2. t \in Seq(T) /\ r \in Seq(T) /\ Len(r) = Len(t) /\ \A k \in 1..Len(r) : r[k] = t[k]
    BY <1>1, <1>2, <2>1
  <2> HIDE DEF r, t
  <2>3. r = t
    BY <2>2, SeqEqual
  <2> QED
    BY <2>3 DEF r, t
<1>4. Cardinality(Positions(RemoveAt(s, 1), P))
        = Cardinality(Positions(s, P)) - (IF s[1] \in P THEN 1 ELSE 0)
  BY <1>1, PositionsRemoveAt
<1> QED
  BY <1>1, <1>3, <1>4

\* Elements behind s that do not count leave the positions as they are.
LEMMA PositionsConcat ==
  ASSUME NEW T, NEW s \in Seq(T), NEW u \in Seq(T), NEW P, \A k \in DOMAIN u : u[k] \notin P
  PROVE  Positions(s \o u, P) = Positions(s, P)
<1>1. /\ s \o u \in Seq(T) /\ Len(s \o u) = Len(s) + Len(u)
      /\ \A i \in 1..(Len(s) + Len(u)) :
           (s \o u)[i] = IF i <= Len(s) THEN s[i] ELSE u[i - Len(s)]
  BY ConcatProperties
<1>2. /\ DOMAIN s = 1..Len(s) /\ Len(s) \in Nat /\ DOMAIN u = 1..Len(u) /\ Len(u) \in Nat
      /\ DOMAIN (s \o u) = 1..(Len(s) + Len(u))
  BY <1>1, LenProperties
<1> DEFINE c == s \o u
<1> HIDE DEF c
<1>3. \A i \in DOMAIN c : \/ i \in DOMAIN s /\ c[i] = s[i]
                          \/ i \notin DOMAIN s /\ c[i] \notin P
  <2> TAKE i \in DOMAIN c
  <2>1. i \in DOMAIN s => c[i] = s[i]
    BY <1>1, <1>2 DEF c
  <2>2. i \notin DOMAIN s => i - Len(s) \in DOMAIN u /\ c[i] = u[i - Len(s)]
    BY <1>1, <1>2 DEF c
  <2> QED
    BY <2>1, <2>2
<1>4. \A i \in DOMAIN s : i \in DOMAIN c /\ c[i] = s[i]
  BY <1>1, <1>2 DEF c
<1>5. Positions(c, P) = Positions(s, P)
  BY <1>3, <1>4 DEF Positions
<1> QED
  BY <1>5 DEF c

\* The elements of s are those of S.
LEMMA ElementsAre ==
  ASSUME NEW s, NEW S, \A i \in DOMAIN s : s[i] \in S, \A x \in S : \E i \in DOMAIN s : s[i] = x
  PROVE  ToSet(s) = S
  BY DEF ToSet

=============================================================================
