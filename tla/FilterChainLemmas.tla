------------------------- MODULE FilterChainLemmas -------------------------
(***************************************************************************)
(* Lemmas about the chain of filters (FilterChain), for any number of      *)
(* filters, any place of the codec among them and any bounds: the          *)
(* inductive invariant of the chain, and how the steps of a filter keep    *)
(* it.                                                                     *)
(*                                                                         *)
(* What the runs check of the chain is about single works, and nothing of  *)
(* it is inductive.  ChainInv says of all works at once where they are:    *)
(*   ChainWorks     which buffers a work has where it waits and in a loop, *)
(*                  and what was made of each, so that a filter finds the  *)
(*                  newest version of each frame;                          *)
(*   ChainCalls     how far the client's flush, stop or synchronisation    *)
(*                  has come, and which filters it has emptied;            *)
(*   ChainGone      that only the filters that it has still to reach hold  *)
(*                  works of before it;                                    *)
(*   ChainOrder     that no work overtakes another on its way from the     *)
(*                  first filter to the component: when the codec answers  *)
(*                  two in the other order they change their numbers;      *)
(*   ChainSettings  that a setting which a filter has not applied yet is   *)
(*                  with a work on its way that comes before each frame    *)
(*                  that needs it, or with the codec for its next output,  *)
(*                  and that this holds too of the works before any input  *)
(*                  that the codec may still answer later or sooner.       *)
(* The last is about the works as a filter sees them, each with its place  *)
(* and the setting it carries (View), and is proved of such views first: a *)
(* work that goes on, one that comes, one that is dropped with no frame    *)
(* after, and two that change places.                                      *)
(***************************************************************************)
EXTENDS MCFilters, QueueLemmas, WellFoundedInduction

-----------------------------------------------------------------------------
(***************************************************************************)
(* What the filters ahead of a work have to know of it.  A view is the set *)
(* of the works on their way, each with its place: 4f waiting at filter f, *)
(* 4f+1 in its loop, 4f+2 and 4f+3 in the codec and behind it.             *)
(***************************************************************************)

\* A work: its place, its number, the setting it carries, and whether it still has
\* buffers that a filter will handle.
ViewType == [st : Nat, id : Nat, params : Nat, on : BOOLEAN]

\* No work is overtaken by a later one.
Ordered(V) == \A r, q \in V : r.st < q.st => r.id > q.id

\* Works that are handled, not further than top.
Within(x, top) == x.on /\ x.st <= top

\* Work c carries setting v, or a newer one, and no work with a frame comes before it
\* that the setting was given with or before.
Carries(V, c, v, top) ==
  /\ Within(c, top) /\ c.params >= v
  /\ \A x \in V : Within(x, top) => ~(v <= x.id /\ x.id < c.id)
Kept(V, v, top) == \E c \in V : Carries(V, c, v, top)

\* The codec at cd holds the setting for its next output: all that it has answered
\* and that are not through filter f are older.
PastCodec(x, cd, top) == x.on /\ x.st >= 4 * cd + 3 /\ x.st <= top
Ahead(V, v, cd, top) == \A x \in V : PastCodec(x, cd, top) => x.id < v

\* The settings S that were given to filter f, which has setting a, while the codec
\* holds p: each is there, on its way, or waits for the codec's next output, and no
\* older one comes later.
Agrees(V, S, a, p, cd, f) ==
  \A v \in S :
    /\ \A r \in V : Within(r, 4 * f + 1) /\ r.id >= v /\ r.params # 0 => r.params >= v
    /\ v <= a \/ Kept(V, v, 4 * f + 1) \/ (f > cd /\ p >= v /\ Ahead(V, v, cd, 4 * f + 1))
    /\ f > cd /\ p # 0 => v <= p \/ Kept(V, v, 4 * cd + 2)

\* The same for the works before each number in M and the settings that came before it.
Before(V, m) == {x \in V : x.id < m}
Older(S, m) == {v \in S : v < m}
Settled(V, S, a, p, cd, f, M) == \A m \in M : Agrees(Before(V, m), Older(S, m), a, p, cd, f)

\* A work goes from one place to another, or a new one comes.
Is(x, s, n, q, o) == x.st = s /\ x.id = n /\ x.params = q /\ x.on = o
MovesTo(V, V2, n, s, q, o) ==
  /\ \A x \in V2 : (x \in V /\ x.id # n) \/ Is(x, s, n, q, o)
  /\ \A x \in V : x.id # n => x \in V2
  /\ \E x \in V2 : Is(x, s, n, q, o)

\* The work is at place s, the first there.
First(V, n, s, q) ==
  /\ \A x \in V : x.id = n => x.st = s /\ x.params = q
  /\ \A x \in V : x.st = s => x.id >= n
  /\ \E x \in V : x.st = s /\ x.id = n

\* A work that goes on overtakes none when there is nobody between.
LEMMA MoveOrder ==
  ASSUME NEW V \in SUBSET ViewType, NEW V2 \in SUBSET ViewType, Ordered(V),
         NEW n \in Nat, NEW s \in Nat, NEW s2 \in Nat, NEW q, NEW q2, NEW o, First(V, n, s, q),
         MovesTo(V, V2, n, s2, q2, o), s <= s2, \A x \in V : ~(s < x.st /\ x.st < s2)
  PROVE  /\ Ordered(V2)
         /\ \A x \in V : x.st < s2 /\ x.id # n => x.id > n
         /\ \A x \in V : x.st > s => x.id < n
<1>1. \A x \in V : x.st \in Nat /\ x.id \in Nat
  BY DEF ViewType
<1>2. \A x \in V2 : x.st \in Nat /\ x.id \in Nat
  BY DEF ViewType
<1>3. PICK z \in V : z.st = s /\ z.id = n
  BY DEF First
<1>4. ASSUME NEW x \in V, x.st > s PROVE x.id < n
  BY <1>1, <1>3, <1>4 DEF Ordered
<1>5. ASSUME NEW x \in V, x.st < s2, x.id # n PROVE x.id > n
  <2>1. CASE x.st < s
    BY <1>1, <1>3, <2>1 DEF Ordered
  <2>2. CASE x.st = s
    BY <1>1, <1>5, <2>2 DEF First
  <2> QED BY <1>1, <1>5, <2>1, <2>2
<1>6. ASSUME NEW x \in V2, NEW y \in V2, x.st < y.st PROVE x.id > y.id
  <2>1. CASE Is(x, s2, n, q2, o) /\ y \in V
    BY <1>1, <1>4, <1>6, <2>1 DEF Is
  <2>2. CASE x \in V /\ x.id # n /\ Is(y, s2, n, q2, o)
    BY <1>1, <1>5, <1>6, <2>2 DEF Is
  <2>3. CASE x \in V /\ y \in V
    BY <1>6, <2>3 DEF Ordered
  <2>4. ~(Is(x, s2, n, q2, o) /\ Is(y, s2, n, q2, o))
    BY <1>2, <1>6 DEF Is
  <2> QED BY <2>1, <2>2, <2>3, <2>4 DEF MovesTo
<1> QED BY <1>4, <1>5, <1>6 DEF Ordered

\* What reaches a filter later goes on to reach it.
LEMMA KeptIs ==
  ASSUME NEW V \in SUBSET ViewType, NEW V2 \in SUBSET ViewType, NEW v \in Nat, NEW top, NEW top2,
         Kept(V, v, top),
         \A y \in V2 : Within(y, top2) => \E x \in V : Within(x, top) /\ x.id = y.id,
         \A x \in V : Within(x, top) /\ x.params >= v =>
           \E y \in V2 : Within(y, top2) /\ y.id = x.id /\ y.params >= v
  PROVE  Kept(V2, v, top2)
<1>1. PICK c \in V : Carries(V, c, v, top)
  BY DEF Kept
<1>2. PICK y \in V2 : Within(y, top2) /\ y.id = c.id /\ y.params >= v
  BY <1>1 DEF Carries
<1>3. Carries(V2, y, v, top2)
  BY <1>1, <1>2 DEF Carries
<1> QED BY <1>3 DEF Kept

\* Works that stay, with their settings, keep a filter's settings on their way.
LEMMA AgreesKept ==
  ASSUME NEW V \in SUBSET ViewType, NEW V2 \in SUBSET ViewType, NEW S \in SUBSET (Nat \ {0}),
         NEW S2 \in SUBSET S,
         NEW a \in Nat, NEW a2 \in Nat, NEW p \in Nat, NEW p2 \in Nat, NEW cd \in Nat,
         NEW f \in Nat,
         Agrees(V, S, a, p, cd, f),
         \A y \in V2 : Within(y, 4 * f + 1) => \E x \in V :
           /\ Within(x, 4 * f + 1) /\ x.id = y.id /\ x.params = y.params
           /\ f > cd /\ p2 # 0 /\ y.st <= 4 * cd + 2 => x.st <= 4 * cd + 2
           /\ f > cd /\ p # 0 /\ y.st >= 4 * cd + 3 => x.st >= 4 * cd + 3,
         \A v \in S2 : \A x \in V : Within(x, 4 * f + 1) /\ x.params >= v =>
           v <= a2 \/ \E y \in V2 : Within(y, 4 * f + 1) /\ y.id = x.id /\ y.params = x.params,
         f > cd /\ p2 # 0 => \A v \in S2 : \A x \in V : Within(x, 4 * cd + 2) /\ x.params >= v =>
           \E y \in V2 : Within(y, 4 * cd + 2) /\ y.id = x.id /\ y.params = x.params,
         \A v \in S2 : v <= a => v <= a2,
         f > cd => p2 = p \/ (p2 = 0 /\ \A v \in S2 : v > p)
  PROVE  Agrees(V2, S2, a2, p2, cd, f)
<1>1. \A x \in V : x.st \in Nat /\ x.id \in Nat /\ x.params \in Nat
  BY DEF ViewType
<1>2. \A x \in V2 : x.st \in Nat /\ x.id \in Nat /\ x.params \in Nat
  BY DEF ViewType
<1> SUFFICES ASSUME NEW v \in S2
             PROVE  /\ \A r \in V2 : Within(r, 4 * f + 1) /\ r.id >= v /\ r.params # 0
                       => r.params >= v
                    /\ \/ v <= a2 \/ Kept(V2, v, 4 * f + 1)
                       \/ (f > cd /\ p2 >= v /\ Ahead(V2, v, cd, 4 * f + 1))
                    /\ f > cd /\ p2 # 0 => v <= p2 \/ Kept(V2, v, 4 * cd + 2)
  BY DEF Agrees
<1>3. v \in S /\ v \in Nat /\ v # 0
  OBVIOUS
<1>4. ASSUME NEW r \in V2, Within(r, 4 * f + 1), r.id >= v, r.params # 0 PROVE r.params >= v
  <2>1. PICK x \in V : Within(x, 4 * f + 1) /\ x.id = r.id /\ x.params = r.params
    BY <1>4
  <2> QED BY <1>3, <1>4, <2>1 DEF Agrees
<1>5. \/ v <= a2 \/ Kept(V2, v, 4 * f + 1)
      \/ (f > cd /\ p2 >= v /\ Ahead(V2, v, cd, 4 * f + 1))
  <2>1. v <= a \/ Kept(V, v, 4 * f + 1) \/ (f > cd /\ p >= v /\ Ahead(V, v, cd, 4 * f + 1))
    BY <1>3 DEF Agrees
  <2>2. CASE v <= a
    BY <2>2
  <2>3. CASE Kept(V, v, 4 * f + 1) /\ ~(v <= a2)
    <3>1. \A y \in V2 : Within(y, 4 * f + 1) => \E x \in V : Within(x, 4 * f + 1) /\ x.id = y.id
      OBVIOUS
    <3>2. \A x \in V : Within(x, 4 * f + 1) /\ x.params >= v =>
            \E y \in V2 : Within(y, 4 * f + 1) /\ y.id = x.id /\ y.params >= v
      BY <2>3
    <3>3. Kept(V2, v, 4 * f + 1)
      BY ONLY <1>3, <2>3, <3>1, <3>2, KeptIs, V \in SUBSET ViewType, V2 \in SUBSET ViewType
    <3> QED BY <3>3
  <2>4. CASE f > cd /\ p >= v /\ Ahead(V, v, cd, 4 * f + 1)
    <3>1. p2 = p /\ p # 0
      BY <1>3, <2>4
    <3>2. ASSUME NEW y \in V2, PastCodec(y, cd, 4 * f + 1) PROVE y.id < v
      <4>1. Within(y, 4 * f + 1) /\ y.st >= 4 * cd + 3
        BY <3>2 DEF PastCodec, Within
      <4>2. PICK x \in V : Within(x, 4 * f + 1) /\ x.id = y.id /\ x.st >= 4 * cd + 3
        BY <2>4, <3>1, <4>1
      <4>3. PastCodec(x, cd, 4 * f + 1)
        BY <4>2 DEF PastCodec, Within
      <4> QED BY <2>4, <4>2, <4>3 DEF Ahead
    <3> QED BY <2>4, <3>1, <3>2 DEF Ahead
  <2> QED BY <2>1, <2>2, <2>3, <2>4
<1>6. ASSUME f > cd, p2 # 0 PROVE v <= p2 \/ Kept(V2, v, 4 * cd + 2)
  <2>1. p2 = p
    BY <1>6
  <2>2. v <= p \/ Kept(V, v, 4 * cd + 2)
    BY <1>3, <1>6, <2>1 DEF Agrees
  <2>3. CASE Kept(V, v, 4 * cd + 2)
    <3>1. \A y \in V2 : Within(y, 4 * cd + 2) => \E x \in V : Within(x, 4 * cd + 2) /\ x.id = y.id
      <4> SUFFICES ASSUME NEW y \in V2, Within(y, 4 * cd + 2)
                   PROVE  \E x \in V : Within(x, 4 * cd + 2) /\ x.id = y.id
        OBVIOUS
      <4>1. y.st <= 4 * cd + 2 /\ y.st <= 4 * f + 1 /\ y.on
        BY <1>2, <1>6 DEF Within
      <4>2. Within(y, 4 * f + 1)
        BY <4>1 DEF Within
      <4>3. PICK x \in V : Within(x, 4 * f + 1) /\ x.id = y.id /\ x.st <= 4 * cd + 2
        BY <1>6, <4>1, <4>2
      <4> QED BY <4>3 DEF Within
    <3>2. \A x \in V : Within(x, 4 * cd + 2) /\ x.params >= v =>
            \E y \in V2 : Within(y, 4 * cd + 2) /\ y.id = x.id /\ y.params >= v
      BY <1>6
    <3> QED BY ONLY <1>3, <2>3, <3>1, <3>2, KeptIs, V \in SUBSET ViewType, V2 \in SUBSET ViewType
  <2> QED BY <2>1, <2>2, <2>3
<1> QED BY <1>4, <1>5, <1>6

\* A work that is queued, perhaps with a setting.
LEMMA AgreesQueued ==
  ASSUME NEW V \in SUBSET ViewType, NEW V2 \in SUBSET ViewType, NEW S \in SUBSET (Nat \ {0}),
         NEW n \in Nat, n >= 1,
         NEW a \in Nat, NEW p \in Nat, NEW cd \in Nat, cd >= 1, NEW f \in Nat, f >= 1,
         NEW q \in Nat, q = 0 \/ q = n,
         NEW S2 \in SUBSET (Nat \ {0}), S2 \subseteq S \cup {q}, \A v \in S : v < n,
         \A x \in V : x.id < n,
         NEW o \in BOOLEAN, o = TRUE, Agrees(V, S, a, p, cd, f), MovesTo(V, V2, n, 4, q, o)
  PROVE  Agrees(V2, S2, a, p, cd, f)
<1>1. \A x \in V : x.st \in Nat /\ x.id \in Nat /\ x.params \in Nat
  BY DEF ViewType
<1>2. \A x \in V : x \in V2
  BY <1>1 DEF MovesTo
<1>3. PICK y \in V2 : Is(y, 4, n, q, TRUE)
  BY DEF MovesTo
<1>4. \A x \in V2 : x \in V \/ Is(x, 4, n, q, TRUE)
  BY DEF MovesTo
<1> SUFFICES ASSUME NEW v \in S2
             PROVE  /\ \A r \in V2 : Within(r, 4 * f + 1) /\ r.id >= v /\ r.params # 0
                       => r.params >= v
                    /\ \/ v <= a \/ Kept(V2, v, 4 * f + 1)
                       \/ (f > cd /\ p >= v /\ Ahead(V2, v, cd, 4 * f + 1))
                    /\ f > cd /\ p # 0 => v <= p \/ Kept(V2, v, 4 * cd + 2)
  BY DEF Agrees
<1>5. v \in Nat /\ v # 0 /\ (v \in S \/ (v = q /\ v = n))
  OBVIOUS
<1>6. ASSUME v \in S, NEW top, Kept(V, v, top) PROVE Kept(V2, v, top)
  <2>1. PICK c \in V : Carries(V, c, v, top)
    BY <1>6 DEF Kept
  <2>2. c \in V2 /\ c.id < n /\ c.id \in Nat
    BY <1>1, <1>2
  <2>3. ASSUME NEW x \in V2, Within(x, top) PROVE ~(v <= x.id /\ x.id < c.id)
    <3>1. CASE x \in V
      BY <2>1, <2>3, <3>1 DEF Carries
    <3>2. CASE Is(x, 4, n, q, TRUE)
      BY <2>2, <3>2 DEF Is
    <3> QED BY <1>4, <3>1, <3>2
  <2> QED BY <2>1, <2>2, <2>3 DEF Carries, Kept
<1>7. ASSUME v = q, v = n, NEW top \in Nat, top >= 4 PROVE Kept(V2, v, top)
  <2>1. Within(y, top) /\ y.params >= v /\ y.id = v
    BY <1>3, <1>5, <1>7 DEF Is, Within
  <2>2. \A x \in V2 : x.id \in Nat
    BY DEF ViewType
  <2> QED BY <2>1, <2>2 DEF Kept, Carries
<1>8. CASE v \in S
  <2>1. ASSUME NEW r \in V2, Within(r, 4 * f + 1), r.id >= v, r.params # 0 PROVE r.params >= v
    <3>1. CASE r \in V
      BY <1>8, <2>1, <3>1 DEF Agrees
    <3>2. CASE Is(r, 4, n, q, TRUE)
      BY <1>5, <1>8, <2>1, <3>2 DEF Is
    <3> QED BY <1>4, <3>1, <3>2
  <2>2. v <= a \/ Kept(V, v, 4 * f + 1) \/ (f > cd /\ p >= v /\ Ahead(V, v, cd, 4 * f + 1))
    BY <1>8 DEF Agrees
  <2>3. Kept(V, v, 4 * f + 1) => Kept(V2, v, 4 * f + 1)
    BY <1>6, <1>8
  <2>4. Ahead(V, v, cd, 4 * f + 1) => Ahead(V2, v, cd, 4 * f + 1)
    <3>1. \A x : Is(x, 4, n, q, TRUE) => ~PastCodec(x, cd, 4 * f + 1)
      BY DEF Is, PastCodec
    <3> QED BY <1>4, <3>1 DEF Ahead
  <2>5. f > cd /\ p # 0 => v <= p \/ Kept(V2, v, 4 * cd + 2)
    BY <1>6, <1>8 DEF Agrees
  <2> QED BY <2>1, <2>2, <2>3, <2>4, <2>5
<1>9. CASE v = q /\ v = n
  <2>1. ASSUME NEW r \in V2, Within(r, 4 * f + 1), r.id >= v, r.params # 0 PROVE r.params >= v
    <3>1. CASE r \in V
      BY <1>1, <1>9, <2>1, <3>1
    <3>2. CASE Is(r, 4, n, q, TRUE)
      BY <1>5, <1>9, <2>1, <3>2 DEF Is
    <3> QED BY <1>4, <3>1, <3>2
  <2>2. Kept(V2, v, 4 * f + 1) /\ Kept(V2, v, 4 * cd + 2)
    <3>1. 4 * f + 1 \in Nat /\ 4 * f + 1 >= 4 /\ 4 * cd + 2 \in Nat /\ 4 * cd + 2 >= 4
      OBVIOUS
    <3> QED BY <1>7, <1>9, <3>1
  <2> QED BY <2>1, <2>2
<1> QED BY <1>5, <1>8, <1>9

\* The codec's next output takes the pending setting, or has a newer one.
LEMMA AgreesAnswered ==
  ASSUME NEW V \in SUBSET ViewType, NEW V2 \in SUBSET ViewType, NEW S \in SUBSET (Nat \ {0}),
         NEW n \in Nat,
         NEW a \in Nat, NEW p \in Nat, NEW cd \in Nat, NEW f \in Nat, f > cd, NEW q \in Nat,
         NEW q2 \in Nat,
         q # 0 => q2 = q, q = 0 => q2 = p, p < n, NEW o \in BOOLEAN, o = TRUE,
         NEW s2 \in Nat, s2 = 4 * cd + 2 \/ s2 = 4 * cd + 3, First(V, n, 4 * cd + 2, q),
         \A x \in V : x.id = n => x.on,
         \A x \in V : x.st <= 4 * cd + 2 => x.id >= n, \A x \in V : x.st >= 4 * cd + 3 => x.id < n,
         Agrees(V, S, a, p, cd, f), MovesTo(V, V2, n, s2, q2, o)
  PROVE  Agrees(V2, S, a, 0, cd, f)
<1>1. \A x \in V : x.st \in Nat /\ x.id \in Nat /\ x.params \in Nat
  BY DEF ViewType
<1>2. \A x \in V2 : x.st \in Nat /\ x.id \in Nat /\ x.params \in Nat
  BY DEF ViewType
<1> DEFINE top == 4 * f + 1
<1>3. top \in Nat /\ 4 * cd + 3 <= top /\ s2 <= top /\ s2 \in Nat
  OBVIOUS
<1>4. PICK z \in V : z.st = 4 * cd + 2 /\ z.id = n /\ z.params = q /\ z.on /\ Within(z, top)
  <2>1. PICK z \in V : z.st = 4 * cd + 2 /\ z.id = n
    BY DEF First
  <2>2. z.params = q /\ z.on
    BY <2>1 DEF First
  <2> QED BY <1>3, <2>1, <2>2 DEF Within
<1>5. PICK y \in V2 : Is(y, s2, n, q2, TRUE)
  BY DEF MovesTo
<1>6. Within(y, top) /\ y.id = n /\ y.params = q2
  BY <1>3, <1>5 DEF Is, Within
<1> SUFFICES ASSUME NEW v \in S
             PROVE  /\ \A r \in V2 : Within(r, top) /\ r.id >= v /\ r.params # 0 => r.params >= v
                    /\ v <= a \/ Kept(V2, v, top)
  BY <1>3 DEF Agrees
<1>7. v \in Nat /\ v # 0
  OBVIOUS
<1>8. /\ \A r \in V : Within(r, top) /\ r.id >= v /\ r.params # 0 => r.params >= v
      /\ v <= a \/ Kept(V, v, top) \/ (p >= v /\ Ahead(V, v, cd, top))
      /\ p # 0 => v <= p \/ Kept(V, v, 4 * cd + 2)
  BY DEF Agrees
<1> HIDE DEF top
<1>9. ASSUME v <= n, q2 # 0 PROVE q2 >= v
  <2>1. CASE q # 0
    BY <1>4, <1>8, <1>9, <2>1
  <2>2. CASE q = 0
    <3>1. q2 = p /\ p # 0
      BY <1>9, <2>2
    <3>2. ASSUME Kept(V, v, 4 * cd + 2) PROVE FALSE
      <4>1. PICK c \in V : Carries(V, c, v, 4 * cd + 2)
        BY <3>2 DEF Kept
      <4>2. c.st <= 4 * cd + 2 /\ c.params >= v /\ Within(z, 4 * cd + 2)
        BY <1>4, <4>1 DEF Carries, Within
      <4>3. ~(v <= n /\ n < c.id)
        BY <1>4, <4>1, <4>2 DEF Carries
      <4>4. c.id >= n
        BY <4>2
      <4>5. c.id = n
        BY <1>1, <1>9, <4>3, <4>4
      <4>6. c.params = q
        BY <4>5 DEF First
      <4> QED BY <1>7, <2>2, <4>2, <4>6
    <3> QED BY <1>8, <3>1, <3>2
  <2> QED BY <2>1, <2>2
<1>10. ASSUME NEW r \in V2, Within(r, top), r.id >= v, r.params # 0 PROVE r.params >= v
  <2>1. CASE r \in V
    BY <1>8, <1>10, <2>1
  <2>2. CASE Is(r, s2, n, q2, TRUE)
    BY <1>9, <1>10, <2>2 DEF Is
  <2> QED BY <2>1, <2>2 DEF MovesTo
<1>11. ASSUME Kept(V, v, top) PROVE Kept(V2, v, top)
  <2>1. PICK c \in V : Carries(V, c, v, top)
    BY <1>11 DEF Kept
  <2>2. ~(v <= n /\ n < c.id)
    BY <1>4, <2>1 DEF Carries
  <2>3. ASSUME NEW x \in V2, Within(x, top) PROVE ~(v <= x.id /\ x.id < c.id)
    <3>1. CASE x \in V
      BY <2>1, <2>3, <3>1 DEF Carries
    <3>2. CASE Is(x, s2, n, q2, TRUE)
      BY <2>2, <3>2 DEF Is
    <3> QED BY <3>1, <3>2 DEF MovesTo
  <2>4. CASE c.id # n
    <3>1. c \in V2
      BY <2>4 DEF MovesTo
    <3> QED BY <2>1, <2>3, <3>1 DEF Carries, Kept
  <2>5. CASE c.id = n
    <3>1. c.params = q /\ c.params >= v
      BY <2>1, <2>5 DEF First, Carries
    <3>2. y.params >= v
      BY <1>6, <1>7, <3>1
    <3> QED BY <1>6, <2>3, <2>5, <3>2 DEF Carries, Kept
  <2> QED BY <2>4, <2>5
<1>12. ASSUME p >= v, Ahead(V, v, cd, top) PROVE Kept(V2, v, top)
  <2>1. q2 >= v
    BY <1>7, <1>9, <1>12
  <2>2. ASSUME NEW x \in V2, Within(x, top) PROVE ~(v <= x.id /\ x.id < n)
    <3>1. CASE x \in V /\ x.st <= 4 * cd + 2
      BY <1>1, <3>1
    <3>2. CASE x \in V /\ x.st >= 4 * cd + 3
      <4>1. PastCodec(x, cd, top)
        BY <2>2, <3>2 DEF PastCodec, Within
      <4> QED BY <1>1, <1>7, <1>12, <3>2, <4>1 DEF Ahead
    <3>3. CASE Is(x, s2, n, q2, TRUE)
      BY <3>3 DEF Is
    <3>4. x \in V => x.st <= 4 * cd + 2 \/ x.st >= 4 * cd + 3
      BY <1>1
    <3> QED BY <3>1, <3>2, <3>3, <3>4 DEF MovesTo
  <2> QED BY <1>6, <2>1, <2>2 DEF Carries, Kept
<1> QED BY <1>8, <1>10, <1>11, <1>12

\* An input without an output leaves its setting behind for the next one.
LEMMA AgreesHeld ==
  ASSUME NEW V \in SUBSET ViewType, NEW V2 \in SUBSET ViewType, NEW S \in SUBSET (Nat \ {0}),
         NEW n \in Nat,
         NEW a \in Nat, NEW p \in Nat, NEW cd \in Nat, NEW f \in Nat, f > cd, NEW q \in Nat,
         NEW p2 \in Nat,
         q # 0 => p2 = q, q = 0 => p2 = p, p < n, q <= n, a < n, NEW o \in BOOLEAN, o => p = 0,
         First(V, n, 4 * cd + 2, q), \A x \in V : x.id = n => x.on,
         \A x \in V : x.st <= 4 * cd + 2 => x.id >= n, \A x \in V : x.st >= 4 * cd + 3 => x.id < n,
         \A x \in V : x.params <= x.id,
         Agrees(V, S, a, p, cd, f), MovesTo(V, V2, n, 4 * cd + 3, q, o)
  PROVE  Agrees(V2, S, a, p2, cd, f)
<1>1. \A x \in V : x.st \in Nat /\ x.id \in Nat /\ x.params \in Nat
  BY DEF ViewType
<1>2. \A x \in V2 : x.st \in Nat /\ x.id \in Nat /\ x.params \in Nat
  BY DEF ViewType
<1> DEFINE top == 4 * f + 1
<1>3. top \in Nat /\ 4 * cd + 3 <= top
  OBVIOUS
<1>4. PICK z \in V : z.st = 4 * cd + 2 /\ z.id = n /\ z.params = q /\ z.on /\ Within(z, top)
  <2>1. PICK z \in V : z.st = 4 * cd + 2 /\ z.id = n
    BY DEF First
  <2>2. z.params = q /\ z.on
    BY <2>1 DEF First
  <2> QED BY <1>3, <2>1, <2>2 DEF Within
<1>5. PICK y \in V2 : Is(y, 4 * cd + 3, n, q, o)
  BY DEF MovesTo
<1>6. (o => Within(y, top)) /\ y.id = n /\ y.params = q
  BY <1>3, <1>5 DEF Is, Within
<1> SUFFICES ASSUME NEW v \in S
             PROVE  /\ \A r \in V2 : Within(r, top) /\ r.id >= v /\ r.params # 0 => r.params >= v
                    /\ v <= a \/ Kept(V2, v, top) \/ (p2 >= v /\ Ahead(V2, v, cd, top))
                    /\ p2 # 0 => v <= p2 \/ Kept(V2, v, 4 * cd + 2)
  BY <1>3 DEF Agrees
<1>7. v \in Nat /\ v # 0
  OBVIOUS
<1>8. /\ \A r \in V : Within(r, top) /\ r.id >= v /\ r.params # 0 => r.params >= v
      /\ v <= a \/ Kept(V, v, top) \/ (p >= v /\ Ahead(V, v, cd, top))
      /\ p # 0 => v <= p \/ Kept(V, v, 4 * cd + 2)
  BY DEF Agrees
<1> HIDE DEF top
<1>9. ASSUME NEW r \in V2, Within(r, top), r.id >= v, r.params # 0 PROVE r.params >= v
  <2>1. CASE r \in V
    BY <1>8, <1>9, <2>1
  <2>2. CASE Is(r, 4 * cd + 3, n, q, o)
    <3>1. z.id >= v /\ z.params # 0
      BY <1>4, <1>9, <2>2 DEF Is
    <3>2. z.params >= v
      BY <1>4, <1>8, <3>1
    <3> QED BY <1>4, <2>2, <3>2 DEF Is
  <2> QED BY <2>1, <2>2 DEF MovesTo
<1>10. ASSUME NEW t, NEW c \in V, Carries(V, c, v, t), Within(z, t), c.id # n
       PROVE  Kept(V2, v, t)
  <2>1. ~(v <= n /\ n < c.id) /\ c \in V2
    BY <1>4, <1>10 DEF Carries, MovesTo
  <2>2. ASSUME NEW x \in V2, Within(x, t) PROVE ~(v <= x.id /\ x.id < c.id)
    <3>1. CASE x \in V
      BY <1>10, <2>2, <3>1 DEF Carries
    <3>2. CASE Is(x, 4 * cd + 3, n, q, o)
      BY <2>1, <3>2 DEF Is
    <3> QED BY <3>1, <3>2 DEF MovesTo
  <2> QED BY <1>10, <2>1, <2>2 DEF Carries, Kept
<1>11. ASSUME Kept(V, v, top) PROVE Kept(V2, v, top) \/ (p2 >= v /\ Ahead(V2, v, cd, top))
  <2>1. PICK c \in V : Carries(V, c, v, top)
    BY <1>11 DEF Kept
  <2>2. CASE c.id # n
    BY <1>4, <1>10, <2>1, <2>2
  <2>3. CASE c.id = n
    <3>1. q >= v /\ q # 0 /\ p2 = q
      BY <1>7, <2>1, <2>3 DEF First, Carries
    <3>2. ASSUME NEW x \in V2, Within(x, top) PROVE ~(v <= x.id /\ x.id < n)
      <4>1. CASE x \in V
        BY <2>1, <2>3, <3>2, <4>1 DEF Carries
      <4>2. CASE Is(x, 4 * cd + 3, n, q, o)
        BY <4>2 DEF Is
      <4> QED BY <4>1, <4>2 DEF MovesTo
    <3>3. CASE o
      BY <1>6, <3>1, <3>2, <3>3 DEF Carries, Kept
    <3>4. CASE ~o
      <4>1. ASSUME NEW x \in V2, PastCodec(x, cd, top) PROVE x.id < v
        <5>1. Within(x, top) /\ x.on /\ x.st >= 4 * cd + 3
          BY <4>1 DEF PastCodec, Within
        <5>2. x \in V
          BY <3>4, <5>1 DEF MovesTo, Is
        <5> QED BY <1>1, <1>7, <3>2, <5>1, <5>2
      <4> QED BY <3>1, <4>1 DEF Ahead
    <3> QED BY <3>3, <3>4
  <2> QED BY <2>2, <2>3
<1>12. ASSUME p >= v, Ahead(V, v, cd, top) PROVE p2 >= v /\ Ahead(V2, v, cd, top)
  <2>1. ~o
    BY <1>7, <1>12
  <2>2. p2 >= v
    <3>1. CASE q # 0
      BY <1>4, <1>7, <1>8, <1>12, <3>1
    <3>2. CASE q = 0
      BY <1>12, <3>2
    <3> QED BY <3>1, <3>2
  <2>3. ASSUME NEW x \in V2, PastCodec(x, cd, top) PROVE x.id < v
    <3>1. x \in V
      BY <2>1, <2>3 DEF MovesTo, Is, PastCodec
    <3> QED BY <1>12, <2>3, <3>1 DEF Ahead
  <2> QED BY <2>2, <2>3 DEF Ahead
<1>13. ASSUME p2 # 0, ~(v <= p2) PROVE Kept(V2, v, 4 * cd + 2)
  <2>1. Within(z, 4 * cd + 2)
    BY <1>4 DEF Within
  <2>2. CASE q # 0
    <3>1. p2 = q /\ n < v
      BY <1>4, <1>7, <1>8, <1>13, <2>2
    <3>2. ~(v <= a) /\ ~(p >= v)
      BY <1>7, <3>1
    <3>3. PICK c \in V : Carries(V, c, v, top)
      BY <1>8, <3>2 DEF Kept
    <3>4. c.params >= v /\ c.params <= c.id /\ Within(c, top)
      BY <3>3 DEF Carries
    <3>5. c.id > n
      BY <1>1, <1>7, <3>1, <3>4
    <3>6. c.st <= 4 * cd + 2
      BY <1>1, <3>5
    <3>7. Carries(V, c, v, 4 * cd + 2)
      <4>1. \A x \in V : Within(x, 4 * cd + 2) => Within(x, top)
        <5>1. 4 * cd + 2 <= top /\ top \in Nat
          BY <1>3
        <5> QED BY <1>1, <5>1 DEF Within
      <4>2. Within(c, 4 * cd + 2)
        BY <3>4, <3>6 DEF Within
      <4> QED BY <3>3, <3>4, <4>1, <4>2 DEF Carries
    <3> QED BY <1>1, <1>10, <2>1, <3>5, <3>7
  <2>3. CASE q = 0
    <3>1. PICK c \in V : Carries(V, c, v, 4 * cd + 2)
      BY <1>8, <1>13, <2>3 DEF Kept
    <3>2. c.id # n
      BY <1>7, <2>3, <3>1 DEF Carries, First
    <3> QED BY <1>10, <2>1, <3>1, <3>2
  <2> QED BY <2>2, <2>3
<1> QED BY <1>8, <1>9, <1>11, <1>12, <1>13

\* A filter has the newest setting that was given with the work it handles, or before.
LEMMA Reaches ==
  ASSUME NEW V \in SUBSET ViewType, NEW S \in SUBSET (Nat \ {0}), NEW n \in Nat, NEW a \in Nat,
         NEW p \in Nat,
         NEW cd \in Nat, NEW f \in Nat, NEW q \in Nat, Agrees(V, S, a, p, cd, f), Ordered(V),
         First(V, n, 4 * f + 1, q),
         \A x \in V : x.st = 4 * f + 1 => x.id = n /\ x.on, NEW v \in S, v <= n
  PROVE  v <= IF q # 0 THEN q ELSE a
<1>1. \A x \in V : x.st \in Nat /\ x.id \in Nat /\ x.params \in Nat
  BY DEF ViewType
<1>2. PICK z \in V : z.st = 4 * f + 1 /\ z.id = n
  BY DEF First
<1>3. z.params = q /\ z.on /\ Within(z, 4 * f + 1)
  BY <1>2 DEF First, Within
<1>4. CASE q # 0
  BY <1>2, <1>3, <1>4 DEF Agrees
<1>5. CASE q = 0 /\ ~(v <= a)
  <2>1. CASE Kept(V, v, 4 * f + 1)
    <3>1. PICK c \in V : Carries(V, c, v, 4 * f + 1)
      BY <2>1 DEF Kept
    <3>2. c.st <= 4 * f + 1 /\ c.params >= v /\ ~(n < c.id)
      BY <1>2, <1>3, <3>1 DEF Carries, Within
    <3>3. c.st = 4 * f + 1
      BY <1>1, <1>2, <3>2 DEF Ordered
    <3>4. c.params = q
      BY <3>3 DEF First
    <3> QED BY <1>5, <3>2, <3>4
  <2>2. CASE f > cd /\ p >= v /\ Ahead(V, v, cd, 4 * f + 1)
    <3>1. PastCodec(z, cd, 4 * f + 1)
      BY <1>2, <1>3, <2>2 DEF PastCodec
    <3> QED BY <1>2, <2>2, <3>1 DEF Ahead
  <2> QED BY <1>5, <2>1, <2>2 DEF Agrees
<1> QED BY <1>4, <1>5

\* A set of numbers has a least one, ...
LEMMA LeastNumber ==
  ASSUME NEW T \in SUBSET Nat, T # {}
  PROVE  \E x \in T : \A y \in T : x <= y
<1> DEFINE R == {ss \in Nat \X Nat : ss[1] < ss[2]}
<1>1. IsWellFoundedOn(R, Nat)
  BY NatLessThanWellFounded DEF OpToRel
<1>2. T \subseteq Nat
  OBVIOUS
<1> HIDE DEF R
<1>3. PICK x \in T : \A y \in T : ~ (<<y, x>> \in R)
  BY <1>1, <1>2, WFMin
<1>4. ASSUME NEW y \in T PROVE x <= y
  <2>1. ~(y < x)
    BY <1>3 DEF R
  <2> QED BY <2>1
<1> QED BY <1>4

\* ... and Max is the greatest one of a set that is bounded.
LEMMA GreatestNumber ==
  ASSUME NEW S \in SUBSET Nat, S # {}, NEW b \in Nat, \A v \in S : v <= b
  PROVE  Max(S) \in S /\ \A v \in S : v <= Max(S)
<1> DEFINE T == {n \in Nat : \E v \in S : n = b - v}
<1>1. T \in SUBSET Nat /\ T # {}
  <2>1. PICK v \in S : v \in Nat
    OBVIOUS
  <2>2. b - v \in T
    BY <2>1
  <2> QED BY <2>2
<1> HIDE DEF T
<1>2. PICK x \in T : \A y \in T : x <= y
  BY <1>1, LeastNumber
<1>3. PICK m \in S : x = b - m
  BY DEF T
<1>4. ASSUME NEW v \in S PROVE m >= v
  <2>1. b - v \in T
    BY DEF T
  <2> QED BY <1>2, <1>3, <2>1
<1>5. \E z \in S : \A y \in S : z >= y
  BY <1>4
<1> QED BY <1>5 DEF Max

\* Works that are dropped take the settings along that came with them.
LEMMA AgreesDropped ==
  ASSUME NEW V \in SUBSET ViewType, NEW V2 \in SUBSET V, NEW S \in SUBSET (Nat \ {0}),
         NEW S2 \in SUBSET S,
         NEW a \in Nat, NEW a2 \in Nat, NEW p \in Nat, NEW p2 \in Nat, NEW cd \in Nat,
         NEW f \in Nat,
         Agrees(V, S, a, p, cd, f),
         \A v \in S2 : \A x \in V : Within(x, 4 * f + 1) /\ x.params >= v
         => x \in V2 \/ (v <= a2 /\ x.st = 4 * f + 1),
         \A v \in S2 : v <= a => v <= a2,
         f > cd => p2 = p \/ (p2 = 0 /\ \A v \in S2 : v > p)
  PROVE  Agrees(V2, S2, a2, p2, cd, f)
<1>1. \A x \in V : x.st \in Nat
  BY DEF ViewType
<1>2. V2 \in SUBSET ViewType
  OBVIOUS
<1>3. \A y \in V2 : Within(y, 4 * f + 1) => \E x \in V :
        /\ Within(x, 4 * f + 1) /\ x.id = y.id /\ x.params = y.params
        /\ f > cd /\ p2 # 0 /\ y.st <= 4 * cd + 2 => x.st <= 4 * cd + 2
        /\ f > cd /\ p # 0 /\ y.st >= 4 * cd + 3 => x.st >= 4 * cd + 3
  OBVIOUS
<1>4. \A v \in S2 : \A x \in V : Within(x, 4 * f + 1) /\ x.params >= v =>
        v <= a2 \/ \E y \in V2 : Within(y, 4 * f + 1) /\ y.id = x.id /\ y.params = x.params
  OBVIOUS
<1>5. f > cd /\ p2 # 0 => \A v \in S2 : \A x \in V : Within(x, 4 * cd + 2) /\ x.params >= v =>
        \E y \in V2 : Within(y, 4 * cd + 2) /\ y.id = x.id /\ y.params = x.params
  <2> SUFFICES ASSUME f > cd, NEW v \in S2, NEW x \in V, Within(x, 4 * cd + 2), x.params >= v
               PROVE x \in V2
    OBVIOUS
  <2>1. Within(x, 4 * f + 1) /\ x.st # 4 * f + 1
    BY <1>1 DEF Within
  <2> QED BY <2>1
<1> QED BY <1>2, <1>3, <1>4, <1>5, AgreesKept

\* A work goes on with its setting, or the setting is where it goes.
LEMMA AgreesMoved ==
  ASSUME NEW V \in SUBSET ViewType, NEW V2 \in SUBSET ViewType, NEW S \in SUBSET (Nat \ {0}),
         NEW S2 \in SUBSET S,
         NEW a \in Nat, NEW a2 \in Nat, NEW p \in Nat, NEW cd \in Nat, NEW f \in Nat,
         NEW n \in Nat, NEW s0 \in Nat, NEW s \in Nat, NEW q, NEW o0 \in BOOLEAN, NEW o \in BOOLEAN,
         First(V, n, s0, q), \A x \in V : x.id = n => (x.on <=> o0), o
         => o0, MovesTo(V, V2, n, s, q, o), s0 <= s,
         Agrees(V, S, a, p, cd, f),
         f > cd /\ p # 0 /\ o /\ s >= 4 * cd + 3 => s0 >= 4 * cd + 3,
         o0 /\ s0 <= 4 * f + 1 /\ (s > 4 * f + 1 \/ ~o) => \A v \in S2 : q >= v => v <= a2,
         f > cd /\ p # 0 /\ o0 /\ s0 <= 4 * cd + 2 => o /\ s <= 4 * cd + 2,
         \A v \in S2 : v <= a => v <= a2
  PROVE  Agrees(V2, S2, a2, p, cd, f)
<1>1. \A x \in V : x.st \in Nat /\ x.on \in BOOLEAN
  BY DEF ViewType
<1>2. PICK z \in V : z.st = s0 /\ z.id = n /\ z.params = q /\ (z.on <=> o0)
  <2>1. PICK z \in V : z.st = s0 /\ z.id = n
    BY DEF First
  <2>2. z.params = q /\ (z.on <=> o0)
    BY <2>1 DEF First
  <2> QED BY <2>1, <2>2
<1>3. PICK w \in V2 : Is(w, s, n, q, o)
  BY DEF MovesTo
<1>4. ASSUME NEW y \in V2, Within(y, 4 * f + 1)
      PROVE  \E x \in V :
               /\ Within(x, 4 * f + 1) /\ x.id = y.id /\ x.params = y.params
               /\ f > cd /\ p # 0 /\ y.st <= 4 * cd + 2 => x.st <= 4 * cd + 2
               /\ f > cd /\ p # 0 /\ y.st >= 4 * cd + 3 => x.st >= 4 * cd + 3
  <2>1. CASE y \in V
    BY <1>4, <2>1
  <2>2. CASE Is(y, s, n, q, o)
    <3>1. o /\ o0 /\ s <= 4 * f + 1 /\ s0 <= 4 * f + 1 /\ y.st = s /\ y.id = n /\ y.params = q
      BY <1>4, <2>2 DEF Is, Within
    <3>2. Within(z, 4 * f + 1) /\ z.id = y.id /\ z.params = y.params
      BY <1>2, <3>1 DEF Within
    <3> QED BY <1>2, <3>1, <3>2
  <2> QED BY <2>1, <2>2 DEF MovesTo
<1>5. ASSUME NEW v \in S2, NEW x \in V, Within(x, 4 * f + 1), x.params >= v
      PROVE  v <= a2 \/ \E y \in V2 : Within(y, 4 * f + 1) /\ y.id = x.id /\ y.params = x.params
  <2>1. CASE x.id # n
    BY <1>5, <2>1 DEF MovesTo
  <2>2. CASE x.id = n
    <3>1. o0 /\ s0 <= 4 * f + 1 /\ q >= v /\ x.params = q
      BY <1>5, <2>2 DEF First, Within
    <3>2. CASE s > 4 * f + 1 \/ ~o
      BY <3>1, <3>2
    <3>3. CASE s <= 4 * f + 1 /\ o
      BY <1>3, <2>2, <3>1, <3>3 DEF Is, Within
    <3> QED BY <3>2, <3>3
  <2> QED BY <2>1, <2>2
<1>6. ASSUME f > cd, p # 0, NEW v \in S2, NEW x \in V, Within(x, 4 * cd + 2), x.params >= v
      PROVE  \E y \in V2 : Within(y, 4 * cd + 2) /\ y.id = x.id /\ y.params = x.params
  <2>1. CASE x.id # n
    BY <1>6, <2>1 DEF MovesTo
  <2>2. CASE x.id = n
    <3>1. o0 /\ s0 <= 4 * cd + 2 /\ x.params = q
      BY <1>6, <2>2 DEF First, Within
    <3>2. o /\ s <= 4 * cd + 2
      BY <1>6, <3>1
    <3>3. Within(w, 4 * cd + 2) /\ w.id = n /\ w.params = q
      BY <1>3, <3>2 DEF Is, Within
    <3> QED BY <2>2, <3>1, <3>3
  <2> QED BY <2>1, <2>2
<1> QED BY <1>4, <1>5, <1>6, AgreesKept

\* The filters before the codec do not know of its answers.
LEMMA AgreesBefore ==
  ASSUME NEW V \in SUBSET ViewType, NEW V2 \in SUBSET ViewType, NEW S \in SUBSET (Nat \ {0}),
         NEW a \in Nat, NEW p \in Nat, NEW p2 \in Nat, NEW cd \in Nat, NEW f \in Nat, f <= cd,
         NEW n, NEW s0 \in Nat, NEW s \in Nat, NEW q, NEW q2, NEW o, s0 > 4 * cd + 1,
         s > 4 * cd + 1,
         First(V, n, s0, q), MovesTo(V, V2, n, s, q2, o), Agrees(V, S, a, p, cd, f)
  PROVE  Agrees(V2, S, a, p2, cd, f)
<1>1. ASSUME NEW y \in V2, Within(y, 4 * f + 1) PROVE y \in V
  <2>1. y.st <= 4 * f + 1
    BY <1>1 DEF Within
  <2>2. ~Is(y, s, n, q2, o)
    <3>1. ~(s <= 4 * f + 1)
      OBVIOUS
    <3> QED BY <2>1, <3>1 DEF Is
  <2> QED BY <2>2 DEF MovesTo
<1>2. ASSUME NEW x \in V, Within(x, 4 * f + 1) PROVE x \in V2
  <2>1. x.id # n
    BY <1>2 DEF First, Within
  <2> QED BY <2>1 DEF MovesTo
<1> QED BY <1>1, <1>2, AgreesKept

\* Among the works before number m one moves, or they are as they were.
LEMMA BeforeMoves ==
  ASSUME NEW V \in SUBSET ViewType, NEW V2 \in SUBSET ViewType, NEW m \in Nat,
         NEW n \in Nat, NEW s, NEW q2, NEW o, MovesTo(V, V2, n, s, q2, o)
  PROVE  /\ Before(V, m) \in SUBSET ViewType /\ Before(V2, m) \in SUBSET ViewType
         /\ n < m => MovesTo(Before(V, m), Before(V2, m), n, s, q2, o)
         /\ n < m => \A s0, q : First(V, n, s0, q) => First(Before(V, m), n, s0, q)
         /\ ~(n < m) => Before(V2, m) = Before(V, m)
<1>1. \A x \in V2 : (x \in V /\ x.id # n) \/ (Is(x, s, n, q2, o) /\ x.id = n)
  BY DEF MovesTo, Is
<1>2. /\ \A x \in V : x.id # n => x \in V2
      /\ \E x \in V2 : Is(x, s, n, q2, o) /\ x.id = n
  BY DEF MovesTo, Is
<1>3. n < m => MovesTo(Before(V, m), Before(V2, m), n, s, q2, o)
  BY <1>1, <1>2 DEF MovesTo, Before
<1>4. ASSUME n < m, NEW s0, NEW q, First(V, n, s0, q) PROVE First(Before(V, m), n, s0, q)
  BY <1>4 DEF First, Before
<1>5. ~(n < m) => Before(V2, m) = Before(V, m)
  <2> SUFFICES ASSUME ~(n < m) PROVE Before(V2, m) = Before(V, m)
    OBVIOUS
  <2>1. \A x : x \in Before(V2, m) <=> x \in V2 /\ x.id < m
    BY DEF Before
  <2>2. \A x : x \in Before(V, m) <=> x \in V /\ x.id < m
    BY DEF Before
  <2>3. \A x : x.id < m => x.id # n
    OBVIOUS
  <2> QED BY <1>1, <1>2, <2>1, <2>2, <2>3
<1>6. Before(V, m) \in SUBSET ViewType /\ Before(V2, m) \in SUBSET ViewType
  BY DEF Before
<1> QED BY <1>3, <1>4, <1>5, <1>6

\* Where the works do not change, fewer settings do as they did.
LEMMA AgreesFewer ==
  ASSUME NEW V \in SUBSET ViewType, NEW S \in SUBSET (Nat \ {0}), NEW S2 \in SUBSET S,
         NEW a \in Nat, NEW a2 \in Nat, NEW p \in Nat, NEW p2 \in Nat, NEW cd \in Nat,
         NEW f \in Nat, Agrees(V, S, a, p, cd, f), \A v \in S2 : v <= a => v <= a2,
         f > cd => p2 = p
  PROVE  Agrees(V, S2, a2, p2, cd, f)
BY AgreesKept

\* The lemmas about Agrees, for the works before each of the numbers.
LEMMA SettledMoved ==
  ASSUME NEW V \in SUBSET ViewType, NEW V2 \in SUBSET ViewType, NEW S \in SUBSET (Nat \ {0}),
         NEW S2 \in SUBSET S, NEW M \in SUBSET Nat, NEW M2 \in SUBSET M,
         NEW a \in Nat, NEW a2 \in Nat, NEW p \in Nat, NEW cd \in Nat, NEW f \in Nat,
         NEW n \in Nat, NEW s0 \in Nat, NEW s \in Nat, NEW q, NEW o0 \in BOOLEAN, NEW o \in BOOLEAN,
         First(V, n, s0, q), \A x \in V : x.id = n => (x.on <=> o0), o
         => o0, MovesTo(V, V2, n, s, q, o), s0 <= s,
         Settled(V, S, a, p, cd, f, M),
         f > cd /\ p # 0 /\ o /\ s >= 4 * cd + 3 => s0 >= 4 * cd + 3,
         o0 /\ s0 <= 4 * f + 1 /\ (s > 4 * f + 1 \/ ~o) => \A v \in S2 : q >= v => v <= a2,
         f > cd /\ p # 0 /\ o0 /\ s0 <= 4 * cd + 2 => o /\ s <= 4 * cd + 2,
         \A v \in S2 : v <= a => v <= a2
  PROVE  Settled(V2, S2, a2, p, cd, f, M2)
<1> SUFFICES ASSUME NEW m \in M2 PROVE Agrees(Before(V2, m), Older(S2, m), a2, p, cd, f)
  BY DEF Settled
<1> DEFINE W == Before(V, m)
           W2 == Before(V2, m)
           T == Older(S, m)
           T2 == Older(S2, m)
<1>1. m \in Nat /\ Agrees(W, T, a, p, cd, f)
  BY DEF Settled
<1>2. /\ W \in SUBSET ViewType /\ W2 \in SUBSET ViewType
      /\ n < m => First(W, n, s0, q) /\ MovesTo(W, W2, n, s, q, o)
      /\ ~(n < m) => W2 = W
  BY <1>1, BeforeMoves
<1>3. /\ T \in SUBSET (Nat \ {0}) /\ T2 \in SUBSET T /\ T2 \subseteq S2
      /\ \A x \in W : x.id = n => (x.on <=> o0)
  BY DEF Older, Before
<1>4. /\ \A v \in T2 : v <= a => v <= a2
      /\ o0 /\ s0 <= 4 * f + 1 /\ (s > 4 * f + 1 \/ ~o) => \A v \in T2 : q >= v => v <= a2
  BY <1>3
<1> HIDE DEF W, W2, T, T2
<1>5. CASE n < m
  <2>1. First(W, n, s0, q) /\ MovesTo(W, W2, n, s, q, o)
    BY <1>2, <1>5
  <2>2. Agrees(W2, T2, a2, p, cd, f)
    BY <1>1, <1>2, <1>3, <1>4, <2>1, AgreesMoved
  <2> QED BY <2>2 DEF W2, T2
<1>6. CASE ~(n < m)
  <2>1. Agrees(W, T2, a2, p, cd, f)
    BY <1>1, <1>2, <1>3, <1>4, AgreesFewer
  <2> QED BY <1>2, <1>6, <2>1 DEF W2, T2
<1> QED BY <1>5, <1>6

LEMMA SettledBefore ==
  ASSUME NEW V \in SUBSET ViewType, NEW V2 \in SUBSET ViewType, NEW S \in SUBSET (Nat \ {0}),
         NEW M \in SUBSET Nat, NEW M2 \in SUBSET M,
         NEW a \in Nat, NEW p \in Nat, NEW p2 \in Nat, NEW cd \in Nat, NEW f \in Nat, f <= cd,
         NEW n \in Nat, NEW s0 \in Nat, NEW s \in Nat, NEW q, NEW q2, NEW o, s0 > 4 * cd + 1,
         s > 4 * cd + 1,
         First(V, n, s0, q), MovesTo(V, V2, n, s, q2, o), Settled(V, S, a, p, cd, f, M)
  PROVE  Settled(V2, S, a, p2, cd, f, M2)
<1> SUFFICES ASSUME NEW m \in M2 PROVE Agrees(Before(V2, m), Older(S, m), a, p2, cd, f)
  BY DEF Settled
<1> DEFINE W == Before(V, m)
           W2 == Before(V2, m)
           T == Older(S, m)
<1>1. m \in Nat /\ Agrees(W, T, a, p, cd, f)
  BY DEF Settled
<1>2. /\ W \in SUBSET ViewType /\ W2 \in SUBSET ViewType
      /\ n < m => First(W, n, s0, q) /\ MovesTo(W, W2, n, s, q2, o)
      /\ ~(n < m) => W2 = W
  BY <1>1, BeforeMoves
<1>3. T \in SUBSET (Nat \ {0}) /\ T \in SUBSET T
  BY DEF Older
<1> HIDE DEF W, W2, T
<1>4. CASE n < m
  <2>1. First(W, n, s0, q) /\ MovesTo(W, W2, n, s, q2, o)
    BY <1>2, <1>4
  <2>2. Agrees(W2, T, a, p2, cd, f)
    BY <1>1, <1>2, <1>3, <2>1, AgreesBefore
  <2> QED BY <2>2 DEF W2, T
<1>5. CASE ~(n < m)
  <2>1. Agrees(W, T, a, p2, cd, f)
    BY <1>1, <1>2, <1>3, AgreesFewer
  <2> QED BY <1>2, <1>5, <2>1 DEF W2, T
<1> QED BY <1>4, <1>5

LEMMA SettledDropped ==
  ASSUME NEW V \in SUBSET ViewType, NEW V2 \in SUBSET V, NEW S \in SUBSET (Nat \ {0}),
         NEW S2 \in SUBSET S, NEW M \in SUBSET Nat, NEW M2 \in SUBSET M,
         NEW a \in Nat, NEW a2 \in Nat, NEW p \in Nat, NEW p2 \in Nat, NEW cd \in Nat,
         NEW f \in Nat,
         Settled(V, S, a, p, cd, f, M),
         \A v \in S2 : \A x \in V : Within(x, 4 * f + 1) /\ x.params >= v
         => x \in V2 \/ (v <= a2 /\ x.st = 4 * f + 1),
         \A v \in S2 : v <= a => v <= a2,
         f > cd => p2 = p \/ (p2 = 0 /\ \A v \in S2 : v > p)
  PROVE  Settled(V2, S2, a2, p2, cd, f, M2)
<1> SUFFICES ASSUME NEW m \in M2 PROVE Agrees(Before(V2, m), Older(S2, m), a2, p2, cd, f)
  BY DEF Settled
<1> DEFINE W == Before(V, m)
           W2 == Before(V2, m)
           T == Older(S, m)
           T2 == Older(S2, m)
<1>1. m \in Nat /\ Agrees(W, T, a, p, cd, f)
  BY DEF Settled
<1>2. W \in SUBSET ViewType /\ W2 \in SUBSET W /\ T \in SUBSET (Nat \ {0}) /\ T2 \in SUBSET T
  BY DEF Before, Older
<1>3. /\ \A v \in T2 : \A x \in W : Within(x, 4 * f + 1) /\ x.params >= v
         => x \in W2 \/ (v <= a2 /\ x.st = 4 * f + 1)
      /\ \A v \in T2 : v <= a => v <= a2
      /\ f > cd => p2 = p \/ (p2 = 0 /\ \A v \in T2 : v > p)
  BY DEF Before, Older
<1> HIDE DEF W, W2, T, T2
<1>4. Agrees(W2, T2, a2, p2, cd, f)
  BY <1>1, <1>2, <1>3, AgreesDropped
<1> QED BY <1>4 DEF W2, T2

LEMMA SettledAnswered ==
  ASSUME NEW V \in SUBSET ViewType, NEW V2 \in SUBSET ViewType, NEW S \in SUBSET (Nat \ {0}),
         NEW M \in SUBSET Nat, NEW M2 \in SUBSET M, NEW n \in Nat, \A m \in M2 : n < m,
         NEW a \in Nat, NEW p \in Nat, NEW cd \in Nat, NEW f \in Nat, f > cd, NEW q \in Nat,
         NEW q2 \in Nat,
         q # 0 => q2 = q, q = 0 => q2 = p, p < n, NEW o \in BOOLEAN, o = TRUE,
         NEW s2 \in Nat, s2 = 4 * cd + 2 \/ s2 = 4 * cd + 3, First(V, n, 4 * cd + 2, q),
         \A x \in V : x.id = n => x.on,
         \A x \in V : x.st <= 4 * cd + 2 => x.id >= n, \A x \in V : x.st >= 4 * cd + 3 => x.id < n,
         Settled(V, S, a, p, cd, f, M), MovesTo(V, V2, n, s2, q2, o)
  PROVE  Settled(V2, S, a, 0, cd, f, M2)
<1> SUFFICES ASSUME NEW m \in M2 PROVE Agrees(Before(V2, m), Older(S, m), a, 0, cd, f)
  BY DEF Settled
<1> DEFINE W == Before(V, m)
           W2 == Before(V2, m)
           T == Older(S, m)
<1>1. m \in Nat /\ Agrees(W, T, a, p, cd, f) /\ n < m
  BY DEF Settled
<1>2. /\ W \in SUBSET ViewType /\ W2 \in SUBSET ViewType
      /\ First(W, n, 4 * cd + 2, q) /\ MovesTo(W, W2, n, s2, q2, o)
  <2> DEFINE s0 == 4 * cd + 2
  <2>1. First(V, n, s0, q) /\ m \in Nat /\ n < m
    BY <1>1
  <2> HIDE DEF s0
  <2>2. /\ W \in SUBSET ViewType /\ W2 \in SUBSET ViewType
        /\ First(W, n, s0, q) /\ MovesTo(W, W2, n, s2, q2, o)
    BY <2>1, BeforeMoves
  <2> QED BY <2>2 DEF s0
<1>3. /\ \A x \in W : x.id = n => x.on
      /\ \A x \in W : x.st <= 4 * cd + 2 => x.id >= n
      /\ \A x \in W : x.st >= 4 * cd + 3 => x.id < n
      /\ T \in SUBSET (Nat \ {0})
  BY DEF Before, Older
<1> HIDE DEF W, W2, T
<1>4. Agrees(W2, T, a, 0, cd, f)
  BY <1>1, <1>2, <1>3, AgreesAnswered
<1> QED BY <1>4 DEF W2, T

LEMMA SettledHeld ==
  ASSUME NEW V \in SUBSET ViewType, NEW V2 \in SUBSET ViewType, NEW S \in SUBSET (Nat \ {0}),
         NEW M \in SUBSET Nat, NEW M2 \in SUBSET M, NEW n \in Nat, \A m \in M2 : n < m,
         NEW a \in Nat, NEW p \in Nat, NEW cd \in Nat, NEW f \in Nat, f > cd, NEW q \in Nat,
         NEW p2 \in Nat,
         q # 0 => p2 = q, q = 0 => p2 = p, p < n, q <= n, a < n, NEW o \in BOOLEAN, o => p = 0,
         First(V, n, 4 * cd + 2, q), \A x \in V : x.id = n => x.on,
         \A x \in V : x.st <= 4 * cd + 2 => x.id >= n, \A x \in V : x.st >= 4 * cd + 3 => x.id < n,
         \A x \in V : x.params <= x.id,
         Settled(V, S, a, p, cd, f, M), MovesTo(V, V2, n, 4 * cd + 3, q, o)
  PROVE  Settled(V2, S, a, p2, cd, f, M2)
<1> SUFFICES ASSUME NEW m \in M2 PROVE Agrees(Before(V2, m), Older(S, m), a, p2, cd, f)
  BY DEF Settled
<1> DEFINE W == Before(V, m)
           W2 == Before(V2, m)
           T == Older(S, m)
<1>1. m \in Nat /\ Agrees(W, T, a, p, cd, f) /\ n < m
  BY DEF Settled
<1>2. /\ W \in SUBSET ViewType /\ W2 \in SUBSET ViewType
      /\ First(W, n, 4 * cd + 2, q) /\ MovesTo(W, W2, n, 4 * cd + 3, q, o)
  <2> DEFINE s0 == 4 * cd + 2
             s == 4 * cd + 3
  <2>1. First(V, n, s0, q) /\ MovesTo(V, V2, n, s, q, o) /\ m \in Nat /\ n < m
    BY <1>1
  <2> HIDE DEF s0, s
  <2>2. /\ W \in SUBSET ViewType /\ W2 \in SUBSET ViewType
        /\ First(W, n, s0, q) /\ MovesTo(W, W2, n, s, q, o)
    BY <2>1, BeforeMoves
  <2> QED BY <2>2 DEF s0, s
<1>3. /\ \A x \in W : x.id = n => x.on
      /\ \A x \in W : x.st <= 4 * cd + 2 => x.id >= n
      /\ \A x \in W : x.st >= 4 * cd + 3 => x.id < n
      /\ \A x \in W : x.params <= x.id
      /\ T \in SUBSET (Nat \ {0})
  BY DEF Before, Older
<1> HIDE DEF W, W2, T
<1>4. Agrees(W2, T, a, p2, cd, f)
  BY <1>1, <1>2, <1>3, AgreesHeld
<1> QED BY <1>4 DEF W2, T

LEMMA SettledQueued ==
  ASSUME NEW V \in SUBSET ViewType, NEW V2 \in SUBSET ViewType, NEW S \in SUBSET (Nat \ {0}),
         NEW n \in Nat, n >= 1, NEW M \in SUBSET Nat, NEW M2 \in SUBSET M, n \in M,
         NEW a \in Nat, NEW p \in Nat, NEW cd \in Nat, cd >= 1, NEW f \in Nat, f >= 1,
         NEW q \in Nat, q = 0 \/ q = n,
         NEW S2 \in SUBSET (Nat \ {0}), S2 \subseteq S \cup {q}, \A v \in S : v < n,
         \A x \in V : x.id < n,
         NEW o \in BOOLEAN, o = TRUE, Settled(V, S, a, p, cd, f, M), MovesTo(V, V2, n, 4, q, o)
  PROVE  Settled(V2, S2, a, p, cd, f, M2)
<1> SUFFICES ASSUME NEW m \in M2 PROVE Agrees(Before(V2, m), Older(S2, m), a, p, cd, f)
  BY DEF Settled
<1> DEFINE W == Before(V, m)
           W2 == Before(V2, m)
           T == Older(S, m)
           T2 == Older(S2, m)
<1>1. m \in Nat /\ Agrees(W, T, a, p, cd, f)
  BY DEF Settled
<1>2. /\ W \in SUBSET ViewType /\ W2 \in SUBSET ViewType
      /\ n < m => MovesTo(W, W2, n, 4, q, o)
      /\ ~(n < m) => W2 = W
  <2> DEFINE s == 4
  <2>1. MovesTo(V, V2, n, s, q, o) /\ m \in Nat
    BY <1>1
  <2> HIDE DEF s
  <2>2. /\ W \in SUBSET ViewType /\ W2 \in SUBSET ViewType
        /\ n < m => MovesTo(W, W2, n, s, q, o)
        /\ ~(n < m) => W2 = W
    BY <2>1, BeforeMoves
  <2> QED BY <2>2 DEF s
<1>3. /\ T \in SUBSET (Nat \ {0}) /\ T2 \in SUBSET (Nat \ {0}) /\ T2 \subseteq T \cup {q}
      /\ ~(n < m) => T2 \in SUBSET T
      /\ \A v \in T : v < n
      /\ \A x \in W : x.id < n
  BY <1>1 DEF Before, Older
<1> HIDE DEF W, W2, T, T2
<1>4. CASE n < m
  <2>1. MovesTo(W, W2, n, 4, q, o)
    BY <1>2, <1>4
  <2>2. Agrees(W2, T2, a, p, cd, f)
    BY <1>1, <1>2, <1>3, <2>1, AgreesQueued
  <2> QED BY <2>2 DEF W2, T2
<1>5. CASE ~(n < m)
  <2>1. T2 \in SUBSET T
    BY <1>3, <1>5
  <2>2. Agrees(W, T2, a, p, cd, f)
    BY <1>1, <1>2, <2>1, <1>3, AgreesFewer
  <2> QED BY <1>2, <1>5, <2>2 DEF W2, T2
<1> QED BY <1>4, <1>5

\* Two works change places at place s: each takes the other's setting, as its own.
Turned(V, V2, a, b, s) ==
  /\ a < b /\ \A x \in V : ~(a < x.id /\ x.id < b)
  /\ \A x \in V : x.id \notin {a, b} => x \in V2
  /\ \A x \in V2 : x.id \notin {a, b} => x \in V
  /\ \A x \in V \cup V2 : x.id \in {a, b} => x.st = s /\ x.on
  /\ \E x \in V : x.id = b
  /\ \E y \in V2 : y.id = a
  /\ \E y \in V2 : y.id = b
  /\ \A x \in V : \A y \in V2 : x.id = b /\ y.id = a /\ x.params # 0 => y.params = a
  /\ \A x \in V : \A y \in V2 : x.id = a /\ y.id = b /\ x.params # 0 => y.params = b
  /\ \A y \in V2 : y.id \in {a, b} => y.params \in {0, y.id}

\* When the codec answers two inputs in the other order, the settings that came with
\* them are on their way to the filters behind it as they were,
LEMMA SettledTurned ==
  ASSUME NEW V \in SUBSET ViewType, NEW V2 \in SUBSET ViewType, NEW S \in SUBSET (Nat \ {0}),
         NEW M \in SUBSET Nat, NEW a \in Nat, NEW b \in Nat, NEW S2 \in SUBSET (Nat \ {0}),
         \A v \in S2 : v # a /\ v # b => v \in S, a \in S2 => b \in S, b \in S2 => a \in S,
         NEW ap \in Nat, NEW p \in Nat, NEW cd \in Nat, NEW f \in Nat, f > cd, ap < a, p < a,
         NEW s \in Nat, s = 4 * cd + 2, Turned(V, V2, a, b, s),
         \A x \in V : x.params <= x.id, \A x \in V : x.id >= a => x.params \in {0, x.id},
         \A x \in V : x.st >= 4 * cd + 3 => x.id < a,
         a \in M, b \in M, \A m \in M : m <= a \/ m >= b,
         Settled(V, S, ap, p, cd, f, M), Agrees(V, S, ap, p, cd, f)
  PROVE  Settled(V2, S2, ap, p, cd, f, M)
<1> SUFFICES ASSUME NEW m \in M PROVE Agrees(Before(V2, m), Older(S2, m), ap, p, cd, f)
  BY DEF Settled
<1> DEFINE W == Before(V, m)
           W2 == Before(V2, m)
           T == Older(S, m)
           T2 == Older(S2, m)
           top == 4 * f + 1
           low == 4 * cd + 2
<1>1. m \in Nat /\ (m <= a \/ m >= b) /\ a < b
  BY DEF Turned
<1>2. \A x \in V \cup V2 : x.st \in Nat /\ x.id \in Nat /\ x.params \in Nat
  BY DEF ViewType
<1>3. \A x : (x \in W <=> x \in V /\ x.id < m) /\ (x \in W2 <=> x \in V2 /\ x.id < m)
  BY DEF Before
<1>4. \A v : (v \in T <=> v \in S /\ v < m) /\ (v \in T2 <=> v \in S2 /\ v < m)
  BY DEF Older
<1>5. top \in Nat /\ low \in Nat /\ s <= top /\ s <= low /\ 4 * cd + 3 <= top
  OBVIOUS
<1>6. Agrees(W, T, ap, p, cd, f)
  BY DEF Settled
<1>7. Agrees(Before(V, a), Older(S, a), ap, p, cd, f) /\ Agrees(Before(V, b), Older(S, b), ap, p, cd, f)
  BY DEF Settled
<1>8. \A x \in V2 : x.id # a /\ x.id # b => x \in V
  BY DEF Turned
<1>9. \A x \in V : x.id # a /\ x.id # b => x \in V2
  BY DEF Turned
<1>10. \A x \in V \cup V2 : x.id = a \/ x.id = b => x.st = s /\ Within(x, top) /\ Within(x, low)
  BY <1>5 DEF Turned, Within
<1> HIDE DEF W, W2, T, T2, top, low
<1>11. CASE m <= a
  <2>1. W2 = W
    <3>1. \A x : x \in W2 <=> x \in W
      <4> SUFFICES ASSUME NEW x PROVE x \in W2 <=> x \in W
        OBVIOUS
      <4>1. x \in V \cup V2 /\ x.id < m => x.id # a /\ x.id # b
        BY <1>1, <1>2, <1>11
      <4> QED BY <1>3, <1>8, <1>9, <4>1
    <3> QED BY <3>1
  <2>2. T2 \in SUBSET T /\ T \in SUBSET (Nat \ {0}) /\ W \in SUBSET ViewType
    <3>1. \A v \in T2 : v \in T
      <4> SUFFICES ASSUME NEW v \in T2 PROVE v \in T
        OBVIOUS
      <4>1. v \in S2 /\ v < m /\ v \in Nat
        BY <1>4
      <4>2. v # a /\ v # b
        BY <1>1, <1>11, <4>1
      <4> QED BY <1>4, <4>1, <4>2
    <3> QED BY <1>3, <1>4, <3>1
  <2>3. Agrees(W, T2, ap, p, cd, f)
    BY <1>6, <2>2, AgreesFewer
  <2> QED BY <2>1, <2>3 DEF W2, T2
<1>12. CASE m >= b
  <2> SUFFICES ASSUME NEW v \in T2
               PROVE  /\ \A r \in W2 : Within(r, top) /\ r.id >= v /\ r.params # 0 => r.params >= v
                      /\ v <= ap \/ Kept(W2, v, top) \/ (f > cd /\ p >= v /\ Ahead(W2, v, cd, top))
                      /\ f > cd /\ p # 0 => v <= p \/ Kept(W2, v, low)
    BY DEF Agrees, T2, W2, top, low
  <2>1. v \in S2 /\ v < m /\ v \in Nat /\ v # 0
    BY <1>4
  \* No setting has a number between the two.
  <2>2. ASSUME NEW u \in S, u < b, a <= u PROVE u = a /\ \E x \in V : x.id = a /\ x.params = a
    <3>1. u \in Older(S, b) /\ u \in Nat /\ u # 0
      BY <2>2 DEF Older
    <3>2. u <= ap \/ Kept(Before(V, b), u, top) \/ (f > cd /\ p >= u /\ Ahead(Before(V, b), u, cd, top))
      BY <1>7, <3>1 DEF Agrees, top
    <3>3. Kept(Before(V, b), u, top)
      BY <2>2, <3>1, <3>2
    <3>4. PICK c \in Before(V, b) : c.params >= u
      BY <3>3 DEF Kept, Carries
    <3>5. c \in V /\ c.id < b /\ c.params <= c.id
      BY <3>4 DEF Before
    <3>6. ~(a < c.id /\ c.id < b)
      BY <3>5 DEF Turned
    <3>7. c.id = a /\ c.params = a /\ u = a
      BY <1>2, <2>2, <3>1, <3>4, <3>5, <3>6
    <3> QED BY <3>5, <3>7
  <2>3. ASSUME b \in S PROVE \E x \in V : x.id = b /\ x.params = b
    <3>1. b <= ap \/ Kept(V, b, top) \/ (f > cd /\ p >= b /\ Ahead(V, b, cd, top))
      BY <2>3 DEF Agrees, top
    <3>2. Kept(V, b, top)
      BY <1>1, <3>1
    <3>3. PICK c \in V : Carries(V, c, b, top)
      BY <3>2 DEF Kept
    <3>4. c.params >= b /\ c.params <= c.id
      BY <3>3 DEF Carries
    <3>5. PICK z \in V : z.id = b
      BY DEF Turned
    <3>6. Within(z, top)
      BY <1>10, <3>5
    <3>7. ~(b <= b /\ b < c.id)
      BY <3>3, <3>5, <3>6 DEF Carries
    <3>8. c.id = b /\ c.params = b
      BY <1>2, <3>4, <3>7
    <3> QED BY <3>8
  <2>4. ASSUME v < a
        PROVE  /\ \A r \in W2 : Within(r, top) /\ r.id >= v /\ r.params # 0 => r.params >= v
               /\ v <= ap \/ Kept(W2, v, top) \/ (f > cd /\ p >= v /\ Ahead(W2, v, cd, top))
               /\ f > cd /\ p # 0 => v <= p \/ Kept(W2, v, low)
    <3>1. v \in S /\ v \in T /\ v \in Older(S, a)
      BY <1>1, <1>4, <2>1, <2>4 DEF Older
    <3>2. ASSUME NEW r \in W2, Within(r, top), r.id >= v, r.params # 0 PROVE r.params >= v
      <4>1. r \in V2 /\ r.id < m
        BY <1>3
      <4>2. CASE r.id = a \/ r.id = b
        <5>1. r.params = r.id
          BY <3>2, <4>1, <4>2 DEF Turned
        <5> QED BY <1>1, <2>1, <2>4, <4>2, <5>1
      <4>3. CASE r.id # a /\ r.id # b
        <5>1. r \in W
          BY <1>3, <1>8, <4>1, <4>3
        <5> QED BY <1>6, <3>1, <3>2, <5>1 DEF Agrees, top
      <4> QED BY <4>2, <4>3
    <3>3. ASSUME NEW t, Kept(Before(V, a), v, t) PROVE Kept(W2, v, t)
      <4>1. PICK c \in Before(V, a) : Carries(Before(V, a), c, v, t)
        BY <3>3 DEF Kept
      <4>2. c \in V /\ c.id < a
        BY <4>1 DEF Before
      <4>3. c \in W2
        BY <1>1, <1>2, <1>3, <1>9, <1>12, <4>2
      <4>4. ASSUME NEW x \in W2, Within(x, t) PROVE ~(v <= x.id /\ x.id < c.id)
        <5> SUFFICES ASSUME v <= x.id, x.id < c.id PROVE FALSE
          OBVIOUS
        <5>1. x \in V2 /\ x.id < a /\ x.id # b
          BY <1>1, <1>2, <1>3, <4>2
        <5>2. x \in V /\ x.id # a
          BY <1>2, <1>8, <5>1
        <5>3. x \in Before(V, a)
          BY <5>1, <5>2 DEF Before
        <5> QED BY <4>1, <4>4, <5>3 DEF Carries
      <4> QED BY <4>1, <4>3, <4>4 DEF Kept, Carries
    <3>4. ASSUME Ahead(Before(V, a), v, cd, top) PROVE Ahead(W2, v, cd, top)
      <4> SUFFICES ASSUME NEW x \in W2, PastCodec(x, cd, top) PROVE x.id < v
        BY DEF Ahead
      <4>1. x \in V2 /\ x.st >= 4 * cd + 3 /\ x.st \in Nat
        BY <1>2, <1>3 DEF PastCodec
      <4>2. x.id # a /\ x.id # b
        BY <1>10, <4>1
      <4>3. x \in V /\ x.id < a
        BY <1>8, <4>1, <4>2
      <4>4. x \in Before(V, a)
        BY <4>3 DEF Before
      <4> QED BY <3>4, <4>4 DEF Ahead
    <3>5. /\ v <= ap \/ Kept(Before(V, a), v, top) \/ (f > cd /\ p >= v /\ Ahead(Before(V, a), v, cd, top))
          /\ f > cd /\ p # 0 => v <= p \/ Kept(Before(V, a), v, low)
      BY <1>7, <3>1 DEF Agrees, top, low
    <3> QED BY <3>2, <3>3, <3>4, <3>5
  <2>5. ASSUME v = a
        PROVE  /\ \A r \in W2 : Within(r, top) /\ r.id >= v /\ r.params # 0 => r.params >= v
               /\ Kept(W2, v, top) /\ Kept(W2, v, low)
    <3>1. b \in S /\ a \in S2
      BY <2>1, <2>5
    <3>2. PICK x \in V : x.id = b /\ x.params = b
      BY <2>3, <3>1
    <3>3. PICK y \in V2 : y.id = a
      BY DEF Turned
    <3>4. y.params = a /\ y \in W2 /\ Within(y, top) /\ Within(y, low)
      <4>1. x.params # 0
        BY <1>1, <3>2
      <4>2. y.params = a
        BY <3>2, <3>3, <4>1 DEF Turned
      <4>3. y \in W2
        BY <1>3, <2>1, <2>5, <3>3
      <4> QED BY <1>10, <3>3, <4>2, <4>3
    <3>5. ASSUME NEW t, Within(y, t) PROVE Kept(W2, v, t)
      <4>1. \A z \in W2 : ~(v <= z.id /\ z.id < y.id)
        BY <1>2, <1>3, <2>5, <3>3
      <4>2. y.params >= v
        BY <2>1, <2>5, <3>4
      <4> QED BY <3>4, <3>5, <4>1, <4>2 DEF Kept, Carries
    <3>6. ASSUME NEW r \in W2, Within(r, top), r.id >= v, r.params # 0 PROVE r.params >= v
      <4>1. r \in V2 /\ r.id < m
        BY <1>3
      <4>2. CASE r.id = a \/ r.id = b
        <5>1. r.params = r.id
          BY <3>6, <4>1, <4>2 DEF Turned
        <5> QED BY <1>1, <2>1, <2>5, <4>2, <5>1
      <4>3. CASE r.id # a /\ r.id # b
        <5>1. r \in V
          BY <1>8, <4>1, <4>3
        <5>2. r.params = r.id
          BY <2>5, <3>6, <5>1
        <5> QED BY <3>6, <5>2
      <4> QED BY <4>2, <4>3
    <3> QED BY <3>4, <3>5, <3>6
  <2>6. ASSUME v = b
        PROVE  /\ \A r \in W2 : Within(r, top) /\ r.id >= v /\ r.params # 0 => r.params >= v
               /\ Kept(W2, v, top) /\ Kept(W2, v, low)
    <3>1. a \in S /\ b \in S2
      BY <2>1, <2>6
    <3>2. PICK x \in V : x.id = a /\ x.params = a
      BY <1>1, <2>2, <3>1
    <3>3. PICK y \in V2 : y.id = b
      BY DEF Turned
    <3>4. y.params = b /\ y \in W2 /\ Within(y, top) /\ Within(y, low)
      <4>1. a # 0
        BY <3>1
      <4>2. y.params = b
        BY <3>2, <3>3, <4>1 DEF Turned
      <4>3. y \in W2
        BY <1>3, <2>1, <2>6, <3>3
      <4> QED BY <1>10, <3>3, <4>2, <4>3
    <3>5. ASSUME NEW t, Within(y, t) PROVE Kept(W2, v, t)
      <4>1. \A z \in W2 : ~(v <= z.id /\ z.id < y.id)
        BY <1>2, <1>3, <2>6, <3>3
      <4>2. y.params >= v
        BY <2>1, <2>6, <3>4
      <4> QED BY <3>4, <3>5, <4>1, <4>2 DEF Kept, Carries
    <3>6. ASSUME NEW r \in W2, Within(r, top), r.id >= v, r.params # 0 PROVE r.params >= v
      <4>1. r \in V2 /\ r.id < m /\ r.id # a
        BY <1>1, <1>2, <1>3, <2>6, <3>6
      <4>2. CASE r.id = b
        <5>1. r.params = r.id
          BY <3>6, <4>1, <4>2 DEF Turned
        <5> QED BY <3>6, <5>1
      <4>3. CASE r.id # b
        <5>1. r \in V
          BY <1>8, <4>1, <4>3
        <5>2. r.params = r.id
          BY <1>1, <1>2, <2>6, <3>6, <5>1
        <5> QED BY <3>6, <5>2
      <4> QED BY <4>2, <4>3
    <3> QED BY <3>4, <3>5, <3>6
  <2>7. ASSUME v > b
        PROVE  /\ \A r \in W2 : Within(r, top) /\ r.id >= v /\ r.params # 0 => r.params >= v
               /\ v <= ap \/ Kept(W2, v, top) \/ (f > cd /\ p >= v /\ Ahead(W2, v, cd, top))
               /\ f > cd /\ p # 0 => v <= p \/ Kept(W2, v, low)
    <3>1. v \in T /\ v > a /\ v > ap /\ v > p
      BY <1>1, <1>4, <2>1, <2>7
    <3>2. \A x \in W2 : x.id >= v => x \in W
      BY <1>1, <1>2, <1>3, <1>8, <2>1, <2>7
    <3>3. \A x \in W : x.id >= v => x \in W2
      BY <1>1, <1>2, <1>3, <1>9, <2>1, <2>7
    <3>4. ASSUME NEW r \in W2, Within(r, top), r.id >= v, r.params # 0 PROVE r.params >= v
      BY <1>6, <3>1, <3>2, <3>4 DEF Agrees, top
    <3>5. ASSUME NEW t, Kept(W, v, t) PROVE Kept(W2, v, t)
      <4>1. PICK c \in W : Carries(W, c, v, t)
        BY <3>5 DEF Kept
      <4>2. c.params >= v /\ c.params <= c.id /\ c \in V
        BY <1>3, <4>1 DEF Carries
      <4>3. c.id >= v
        BY <1>2, <2>1, <4>2
      <4>4. c \in W2
        BY <3>3, <4>3
      <4> QED BY <3>2, <4>1, <4>4 DEF Kept, Carries
    <3>6. /\ v <= ap \/ Kept(W, v, top) \/ (f > cd /\ p >= v /\ Ahead(W, v, cd, top))
          /\ f > cd /\ p # 0 => v <= p \/ Kept(W, v, low)
      BY <1>6, <3>1 DEF Agrees, top, low
    <3> QED BY <2>1, <3>1, <3>4, <3>5, <3>6
  <2>8. ~(a < v /\ v < b)
    <3> SUFFICES ASSUME a < v, v < b PROVE FALSE
      OBVIOUS
    <3>1. v \in S
      BY <2>1
    <3> QED BY <2>2, <3>1
  <2> QED BY <1>1, <2>1, <2>4, <2>5, <2>6, <2>7, <2>8
<1> QED BY <1>1, <1>11, <1>12

\* and the filters before it see neither.
LEMMA SettledAside ==
  ASSUME NEW V \in SUBSET ViewType, NEW V2 \in SUBSET ViewType, NEW S \in SUBSET (Nat \ {0}),
         NEW M \in SUBSET Nat, NEW a \in Nat, NEW b \in Nat,
         NEW ap \in Nat, NEW p \in Nat, NEW cd \in Nat, NEW f \in Nat, f <= cd,
         NEW s \in Nat, s = 4 * cd + 2, Turned(V, V2, a, b, s), Settled(V, S, ap, p, cd, f, M)
  PROVE  Settled(V2, S, ap, p, cd, f, M)
<1> SUFFICES ASSUME NEW m \in M PROVE Agrees(Before(V2, m), Older(S, m), ap, p, cd, f)
  BY DEF Settled
<1> DEFINE W == Before(V, m)
           W2 == Before(V2, m)
           T == Older(S, m)
<1>1. Agrees(W, T, ap, p, cd, f)
  BY DEF Settled
<1>2. W \in SUBSET ViewType /\ W2 \in SUBSET ViewType /\ T \in SUBSET (Nat \ {0}) /\ T \in SUBSET T
  BY DEF Before, Older
<1>3. \A x \in V \cup V2 : Within(x, 4 * f + 1) => x.id # a /\ x.id # b
  <2>1. \A x \in V \cup V2 : x.st \in Nat
    BY DEF ViewType
  <2>2. \A x \in V \cup V2 : x.id = a \/ x.id = b => x.st = s
    BY DEF Turned
  <2> QED BY <2>1, <2>2 DEF Within
<1>4. \A x \in W2 : Within(x, 4 * f + 1) => x \in W
  BY <1>3 DEF Before, Turned
<1>5. \A x \in W : Within(x, 4 * f + 1) => x \in W2
  BY <1>3 DEF Before, Turned
<1>6. ~(f > cd)
  OBVIOUS
<1> HIDE DEF W, W2, T
<1>7. Agrees(W2, T, ap, p, cd, f)
  BY <1>1, <1>2, <1>4, <1>5, <1>6, AgreesKept
<1> QED BY <1>7 DEF W2, T

-----------------------------------------------------------------------------
(***************************************************************************)
(* The invariant of the chain.                                             *)
(***************************************************************************)

\* The filters, the codec's place among them, and a loop that rests.
Line == Chain!Filters
C == place
NoJob == Chain!NoJob

\* The types of buffers, works, tasks and loops, and of what the client does.
Item == [k : 0..limits.outs, by : Seq(Line), replica : BOOLEAN]
WorkType ==
  [id : Nat, buffers : Seq(Item), inputIndex : Int, params : Nat, csd : BOOLEAN, in : Int, out : Int,
   made : [0..limits.outs -> Seq(Line)], outs : Nat, spoiled : BOOLEAN]
TaskType == [op : {"work", "done", "stop", "sync"}, work : WorkType]
JobType == [work : WorkType, todo : Seq(Item)]
CallerSteps == {"idle", "waiting", "stopped", "syncing", "synced"}
CallerType == [how : {"none", "flush", "stop"}, at : 0..NumFilters, step : CallerSteps]
ChainTypes ==
  /\ limits \in Bounds /\ C \in {1, NumFilters - 1}
  /\ works \in Nat /\ works <= limits.works
  /\ caller \in CallerType
  /\ tasks \in [Line -> Seq(TaskType)] /\ job \in [Line -> JobType]
  /\ infos \in Seq(WorkType) /\ finished \in Seq(WorkType)
  /\ pending \in Nat /\ applied \in [Line -> Nat]
  /\ given \in [Line -> SUBSET (1..works)]
  /\ gone \in 0..works /\ stray \in SUBSET (1..works)
  /\ stale \in BOOLEAN /\ behind \in BOOLEAN
  /\ stops \in Nat /\ failures \in Nat

\* A work that was queued; its setting came with it, or before when it took one along
\* that waited for an output.
Real(w) ==
  /\ w.id >= 1 /\ w.id <= works /\ w.params <= w.id /\ w.inputIndex <= Len(w.buffers)
  /\ w.outs = 0 => w.params = 0 \/ w.params = w.id

\* Nothing was made of the outputs yet, and nothing by filter f or one behind it.
Unmade(w) == \A k \in 1..limits.outs : w.made[k] = <<>>
MadeBelow(w, f) == \A k \in 0..limits.outs : \A j \in DOMAIN w.made[k] : w.made[k][j] < f

\* The buffers that filter f finds: the input, or the codec's outputs, each the newest
\* version of it.
Size(w, f) == IF f <= C THEN 1 ELSE w.outs
Kth(f, i) == IF f <= C THEN 0 ELSE i
Fresh(b, w, f, i) == /\ b.k = Kth(f, i) /\ b.by = w.made[Kth(f, i)]
                     /\ f <= C => b.replica = FALSE

\* A work that waits at filter f.
AtRest(w, f) ==
  /\ Real(w) /\ w.outs <= limits.outs
  /\ f <= C => w.outs = 0
  /\ f <= C + 1 => ~w.spoiled /\ Unmade(w)
  /\ ~w.spoiled => /\ Len(w.buffers) - w.inputIndex = Size(w, f) /\ w.inputIndex >= 0
                   /\ MadeBelow(w, f)
                   /\ \A i \in 1..Size(w, f) : Fresh(w.buffers[w.inputIndex + i], w, f, i)

\* A work in the loop of filter f, with the buffers d before it: those behind out are
\* handled, and while the filter made none itself the old ones are there.
Untouched(w, f) == \A k \in 0..limits.outs : \A j \in DOMAIN w.made[k] : w.made[k][j] # f
Working(w, d, f) ==
  /\ Real(w) /\ w.outs <= limits.outs
  /\ w.out >= 0 /\ w.in - w.out = Len(d) /\ w.out < w.in /\ w.in <= Len(w.buffers)
  /\ w.inputIndex = Len(w.buffers) - w.out
  /\ f <= C => w.outs = 0 /\ ~w.spoiled /\ Unmade(w)
  /\ ~w.spoiled =>
       /\ w.in = Size(w, f) /\ MadeBelow(w, f + 1) /\ (w.out = 0 => MadeBelow(w, f))
       /\ \A i \in 1..Len(d) : Fresh(d[i], w, f, w.out + i)
       /\ \A i \in 1..w.out : Fresh(w.buffers[Len(w.buffers) - w.out + i], w, f, i)
       /\ Untouched(w, f) =>
            /\ Len(w.buffers) - w.out - w.in >= 0
            /\ \A i \in 1..w.in : Fresh(w.buffers[Len(w.buffers) - w.out - w.in + i], w, f, i)

\* The works that may wait at a filter, behind the last one for the component, and the
\* jobs of its loop.
Waits == [f \in 1..(NumFilters + 1) |-> {w \in WorkType : AtRest(w, f)}]
Runs == [f \in Line |-> {j \in JobType : Working(j.work, j.todo, f)}]

\* The works are as they have to be where they are.
ChainWorks ==
  /\ \A f \in Line : \A i \in DOMAIN tasks[f] :
       /\ tasks[f][i].op = "work" => tasks[f][i].work \in Waits[f]
       /\ tasks[f][i].op = "done" => tasks[f][i].work \in Waits[C + 1] /\ f = C
       /\ tasks[f][i].op \in {"stop", "sync"} => tasks[f][i].work.id = 0
  /\ \A f \in Line : job[f] # NoJob => job[f] \in Runs[f]
  /\ \A i \in DOMAIN infos : infos[i] \in Waits[C + 1]
  /\ \A i \in DOMAIN finished : finished[i] \in Waits[NumFilters + 1]

\* flush() and stop(): the tasks they post are where the client is, and a filter that
\* is through with its first one has no loop and, the codec, no inputs.
Through(f) == caller.step \in {"stopped", "syncing", "synced"} /\ caller.at = f
ChainCalls ==
  /\ caller.step = "idle" <=> caller = Chain!Idle
  /\ caller.step # "idle" => caller.at \in Line /\ caller.how # "none"
  /\ caller.step \in {"syncing", "synced"} => caller.how = "flush"
  /\ \A f \in Line : \A i \in DOMAIN tasks[f] :
       /\ tasks[f][i].op = "stop" => caller.step = "waiting" /\ caller.at = f /\ i = 1
       /\ tasks[f][i].op = "sync" => caller.step = "syncing" /\ caller.at = f /\ i = Len(tasks[f])
       /\ tasks[f][i].op = "work" => caller.step = "idle" \/ caller.at # f
  /\ caller.step = "waiting" => tasks[caller.at] # <<>> /\ Head(tasks[caller.at]).op = "stop"
  /\ caller.step = "syncing" => tasks[caller.at] # <<>>
                                /\ tasks[caller.at][Len(tasks[caller.at])].op = "sync"
  /\ caller.step = "synced" => tasks[caller.at] = <<>>
  /\ \A f \in Line : Through(f) => job[f] = NoJob /\ (f = C => infos = <<>>)

\* Nothing from before a flush or a stop is left in the filters behind it, but the
\* answers that a stop passed over.
Old(id) == id \in stray \/ IF caller.step = "idle" THEN id > gone ELSE FALSE
Left(f) == caller.step = "idle" \/ f < caller.at
ChainGone ==
  /\ \A f \in Line : Left(f) =>
       /\ \A i \in DOMAIN tasks[f] : tasks[f][i].op \in {"work", "done"} => Old(tasks[f][i].work.id)
       /\ job[f] # NoJob => Old(job[f].work.id)
  /\ Left(C) => \A i \in DOMAIN infos : Old(infos[i].id)
  /\ stray # {} => stops >= 1 /\ (caller.how = "flush" => stops >= 2)

\* The works on their way, and where they are.
On(w) == w.inputIndex < Len(w.buffers)
Sees(r, s, w, o) == r.st = s /\ r.id = w.id /\ r.params = w.params /\ r.on = o
SeesTask(r, f, t) ==
  \/ t.op = "work" /\ Sees(r, 4 * f, t.work, On(t.work))
  \/ t.op = "done" /\ Sees(r, 4 * f + 3, t.work, On(t.work))
InTasks(r) == \E f \in Line : \E i \in DOMAIN tasks[f] : SeesTask(r, f, tasks[f][i])
InJobs(r) == \E f \in Line : job[f] # NoJob /\ Sees(r, 4 * f + 1, job[f].work, TRUE)
InInfos(r) == \E i \in DOMAIN infos : Sees(r, 4 * C + 2, infos[i], TRUE)
InFinished(r) == \E i \in DOMAIN finished : Sees(r, 4 * NumFilters + 4, finished[i], On(finished[i]))
View == {r \in ViewType : InTasks(r) \/ InJobs(r) \/ InInfos(r) \/ InFinished(r)}

\* The numbers that settings are told apart at: those of the inputs that the codec may
\* still answer in another order, and those to come.
Unanswered(m) == \/ \E r \in View : r.st <= 4 * C + 1 /\ r.id = m
                 \/ \E i \in DOMAIN infos : infos[i].outs = 0 /\ infos[i].id = m
Cuts == {m \in Nat : m > works \/ Unanswered(m)}

\* Works keep their order, also within a pool, in the codec and for the component, and
\* the settings that are held or applied are older than the works to come.
Rising(s) == \A i, j \in DOMAIN s : i < j => s[i].id < s[j].id
ChainOrder ==
  /\ Ordered(View)
  /\ \A f \in Line : \A i, j \in DOMAIN tasks[f] :
       i < j /\ tasks[f][i].op = tasks[f][j].op /\ tasks[f][i].op \in {"work", "done"} =>
         tasks[f][i].work.id < tasks[f][j].work.id
  /\ Rising(infos) /\ Rising(finished)
  /\ \A r \in View : r.st <= 4 * C + 2 => pending < r.id
  /\ \A f \in Line : \A r \in View : (r.st <= 4 * f => applied[f] < r.id)
     /\ (r.st = 4 * f + 1 => applied[f] <= r.id)
  /\ \A i \in DOMAIN infos : infos[i].outs > 0 => i = 1 /\ pending = 0

\* No setting that was given is lost on its way, unless a header overtook one; and none
\* would be if the codec answered what it has in another order.
ChainSettings ==
  /\ ~behind => \A f \in Line : Settled(View, given[f], applied[f], pending, C, f, Cuts)
  /\ Chain!SettingsReach

\* The invariant; what bounds the numbers is ChainBounds, below.
ChainInv == ChainTypes /\ ChainWorks /\ ChainCalls /\ ChainGone /\ ChainOrder /\ ChainSettings

\* What a work is made of.
Fields(w) ==
  /\ w.id \in Nat /\ w.buffers \in Seq(Item) /\ w.inputIndex \in Int /\ w.params \in Nat
  /\ w.csd \in BOOLEAN /\ w.in \in Int /\ w.out \in Int /\ w.made \in [0..limits.outs -> Seq(Line)]
  /\ w.outs \in Nat /\ w.spoiled \in BOOLEAN

\* A work with other buffers.
SameBut(p, w) == /\ p.id = w.id /\ p.params = w.params /\ p.csd = w.csd /\ p.in = w.in
                 /\ p.made = w.made /\ p.outs = w.outs /\ p.spoiled = w.spoiled

\* What is known of the filters and their bounds.
LEMMA ChainConstants ==
  ASSUME ChainTypes
  PROVE  /\ limits.outs \in Nat /\ limits.works \in Nat /\ NumFilters \in Nat /\ NumFilters >= 2
         /\ Line = 1..NumFilters /\ C \in Line /\ C < NumFilters /\ C \in Nat
<1>1. limits \in [works : Nat, outs : Nat, stops : Nat, fails : Nat, settings : Nat]
  BY FiltersAssumption DEF ChainTypes
<1>2. NumFilters \in Nat /\ NumFilters >= 2
  BY FiltersAssumption
<1>3. Line = 1..NumFilters
  BY DEF Line, Chain!Filters
<1> QED BY <1>1, <1>2, <1>3 DEF ChainTypes, C

\* obtainWorkInfo(): the new buffer is the last one, and the others are where they were,
\* or one place before it when the input is released.
LEMMA PushedIs ==
  ASSUME ChainTypes, NEW w \in WorkType, NEW b \in Item, NEW rel \in BOOLEAN,
         rel => w.in >= 1 /\ w.in <= Len(w.buffers)
  PROVE  /\ Chain!Pushed(w, b, rel) \in WorkType
         /\ SameBut(Chain!Pushed(w, b, rel), w)
         /\ Chain!Pushed(w, b, rel).out = w.out + 1
         /\ Chain!Pushed(w, b, rel).inputIndex = w.inputIndex - (IF rel THEN 1 ELSE 0)
         /\ Len(Chain!Pushed(w, b, rel).buffers) = Len(w.buffers) + (IF rel THEN 0 ELSE 1)
         /\ Chain!Pushed(w, b, rel).buffers[Len(Chain!Pushed(w, b, rel).buffers)] = b
         /\ \A i \in 1..(Len(Chain!Pushed(w, b, rel).buffers) - 1) :
              Chain!Pushed(w, b, rel).buffers[i] =
                w.buffers[IF rel /\ i >= Len(w.buffers) - w.in + 1 THEN i + 1 ELSE i]
<1> DEFINE p == Chain!Pushed(w, b, rel)
           at_ == Len(w.buffers) - w.in + 1
           cut == IF rel THEN Chain!RemoveAt(w.buffers, at_) ELSE w.buffers
<1>1. w.buffers \in Seq(Item) /\ Len(w.buffers) \in Nat /\ w.in \in Int /\ w.inputIndex \in Int
      /\ w.out \in Int
  BY DEF WorkType
<1>2. /\ cut \in Seq(Item) /\ Len(cut) = Len(w.buffers) - (IF rel THEN 1 ELSE 0)
      /\ \A i \in 1..Len(cut) : cut[i] = w.buffers[IF rel /\ i >= at_ THEN i + 1 ELSE i]
  <2>1. CASE rel
    <3>1. at_ \in 1..Len(w.buffers)
      BY <1>1, <2>1
    <3>2. cut = RemoveAt(w.buffers, at_)
      BY <2>1 DEF Chain!RemoveAt, RemoveAt
    <3> HIDE DEF at_, cut
    <3>3. /\ RemoveAt(w.buffers, at_) \in Seq(Item)
          /\ Len(RemoveAt(w.buffers, at_)) = Len(w.buffers) - 1
          /\ \A k \in 1..(Len(w.buffers) - 1) :
               RemoveAt(w.buffers, at_)[k] = w.buffers[IF k < at_ THEN k ELSE k + 1]
      BY <1>1, <3>1, RemoveAtProperties
    <3> QED BY <1>1, <2>1, <3>1, <3>2, <3>3
  <2>2. CASE ~rel
    BY <1>1, <2>2
  <2> QED BY <2>1, <2>2
<1>3. p = [w EXCEPT !.buffers = Append(cut, b), !.inputIndex = @ - (IF rel THEN 1 ELSE 0), !.out = @ + 1]
  BY DEF Chain!Pushed
<1> HIDE DEF p, cut, at_
<1>4. /\ Append(cut, b) \in Seq(Item) /\ Len(Append(cut, b)) = Len(cut) + 1
      /\ Append(cut, b)[Len(cut) + 1] = b
      /\ \A i \in 1..Len(cut) : Append(cut, b)[i] = cut[i]
  <2>1. cut \in Seq(Item) /\ b \in Item
    BY <1>2
  <2> QED BY ONLY <2>1, AppendProperties
<1>5. /\ p.buffers = Append(cut, b) /\ p.inputIndex = w.inputIndex - (IF rel THEN 1 ELSE 0)
      /\ p.out = w.out + 1
  BY <1>3 DEF WorkType
<1>6. SameBut(p, w)
  BY <1>3 DEF WorkType, SameBut
<1>7. p \in WorkType
  <2>1. Append(cut, b) \in Seq(Item) /\ w.inputIndex - (IF rel THEN 1 ELSE 0) \in Int
        /\ w.out + 1 \in Int
    BY <1>1, <1>4
  <2> QED BY <1>3, <2>1 DEF WorkType
<1>8. Len(p.buffers) = Len(w.buffers) + (IF rel THEN 0 ELSE 1) /\ Len(p.buffers) - 1 = Len(cut)
  <2>1. Len(p.buffers) = Len(cut) + 1
    BY <1>4, <1>5
  <2>2. Len(cut) = Len(w.buffers) - (IF rel THEN 1 ELSE 0)
    BY <1>2
  <2>3. CASE rel
    BY <1>1, <2>1, <2>2, <2>3
  <2>4. CASE ~rel
    BY <1>1, <2>1, <2>2, <2>4
  <2> QED BY <2>3, <2>4
<1>9. p.buffers[Len(p.buffers)] = b
  BY <1>1, <1>2, <1>4, <1>5, <1>8
<1>10. \A i \in 1..(Len(p.buffers) - 1) : p.buffers[i] = w.buffers[IF rel /\ i >= at_ THEN i + 1 ELSE i]
  BY <1>2, <1>4, <1>5, <1>8
<1> QED BY <1>5, <1>6, <1>7, <1>8, <1>9, <1>10 DEF p, at_

\* What was made by the filters before f was made by those before f + 1.
LEMMA MadeUp ==
  ASSUME ChainTypes, NEW w \in WorkType, NEW f \in Line, MadeBelow(w, f)
  PROVE  MadeBelow(w, f + 1)
<1>1. w.made \in [0..limits.outs -> Seq(Line)]
  BY DEF WorkType
<1>2. ASSUME NEW k \in 0..limits.outs, NEW j \in DOMAIN w.made[k] PROVE w.made[k][j] \in Nat
  <2>1. w.made[k] \in Seq(Line)
    BY <1>1
  <2>2. w.made[k][j] \in Line
    BY <2>1
  <2> QED BY <2>2, ChainConstants
<1> QED BY <1>2, ChainConstants DEF MadeBelow

\* A work that a filter's loop begins with.
LEMMA EnteredIs ==
  ASSUME ChainTypes, NEW w \in WorkType, NEW f \in Line, AtRest(w, f), Chain!Todo(w) # <<>>
  PROVE  /\ Chain!Entered(w) \in WorkType /\ Chain!Todo(w) \in Seq(Item)
         /\ Working(Chain!Entered(w), Chain!Todo(w), f) /\ On(w)
         /\ Chain!Entered(w).id = w.id /\ Chain!Entered(w).params = w.params
<1> DEFINE e == Chain!Entered(w)
           d == Chain!Todo(w)
           L == Len(w.buffers)
<1>1. w.buffers \in Seq(Item) /\ L \in Nat /\ w.inputIndex \in Int /\ w.outs \in Nat
      /\ w.made \in [0..limits.outs -> Seq(Line)]
  BY DEF WorkType
<1>2. w.inputIndex >= 0 /\ d = SubSeq(w.buffers, w.inputIndex + 1, L)
  <2>1. ~(w.inputIndex < 0)
    BY DEF Chain!Todo
  <2>2. d = SubSeq(w.buffers, w.inputIndex + 1, L)
    BY <2>1, Zenon DEF Chain!Todo
  <2>3. w.inputIndex >= 0
    BY <1>1, <2>1
  <2> QED BY <2>2, <2>3
<1>3. w.inputIndex < L
  BY <1>1, <1>2
<1>4. d \in Seq(Item) /\ Len(d) = L - w.inputIndex
      /\ \A i \in 1..Len(d) : d[i] = w.buffers[w.inputIndex + i]
  <2>1. w.inputIndex + 1 \in 1..(L + 1) /\ L \in (w.inputIndex + 1)..L
    BY <1>1, <1>2, <1>3
  <2> HIDE DEF L, d
  <2>2. /\ SubSeq(w.buffers, w.inputIndex + 1, L) \in Seq(Item)
        /\ Len(SubSeq(w.buffers, w.inputIndex + 1, L)) = L - w.inputIndex
        /\ \A i \in 1..(L - w.inputIndex) :
             SubSeq(w.buffers, w.inputIndex + 1, L)[i] = w.buffers[w.inputIndex + i]
    BY <1>1, <1>2, <1>3, <2>1 DEF L
  <2> QED BY <1>2, <2>2
<1>5. e = [w EXCEPT !.in = L - w.inputIndex, !.out = 0, !.inputIndex = L]
  BY DEF Chain!Entered
<1> HIDE DEF e, d
<1>6. /\ e.id = w.id /\ e.params = w.params /\ e.outs = w.outs /\ e.made = w.made
         /\ e.spoiled = w.spoiled
      /\ e.buffers = w.buffers /\ e.in = L - w.inputIndex /\ e.out = 0 /\ e.inputIndex = L
  BY <1>5 DEF WorkType
<1>7. e \in WorkType
  <2>1. L - w.inputIndex \in Int /\ L \in Int /\ 0 \in Int
    BY <1>1
  <2> HIDE DEF L
  <2> QED BY <1>5, <2>1 DEF WorkType
<1>8. Real(e) /\ Len(e.buffers) = L
  BY <1>1, <1>6 DEF AtRest, Real
<1>9. ~e.spoiled => MadeBelow(e, f) /\ MadeBelow(e, f + 1)
  <2>1. ~e.spoiled => MadeBelow(e, f)
    BY <1>6 DEF AtRest, MadeBelow
  <2> QED BY <1>7, <2>1, MadeUp
<1>10. f <= C => e.outs = 0 /\ ~e.spoiled /\ Unmade(e)
  BY <1>6, ChainConstants DEF AtRest, Unmade
<1>11. Size(e, f) = Size(w, f) /\ Size(e, f) \in Nat
  BY <1>1, <1>6 DEF Size
<1>12. ASSUME ~e.spoiled
       PROVE  /\ e.in = Size(e, f)
              /\ \A i \in 1..Len(d) : Fresh(d[i], e, f, e.out + i)
              /\ \A i \in 1..e.in : Fresh(e.buffers[L - e.out - e.in + i], e, f, i)
  <2>1. L - w.inputIndex = Size(w, f)
        /\ \A i \in 1..Size(w, f) : Fresh(w.buffers[w.inputIndex + i], w, f, i)
    BY <1>6, <1>12 DEF AtRest
  <2>2. e.in = Size(e, f) /\ Len(d) = Size(w, f) /\ e.in = Size(w, f)
    BY <1>4, <1>6, <1>11, <2>1
  <2>3. ASSUME NEW i \in 1..Size(w, f) PROVE Fresh(w.buffers[w.inputIndex + i], e, f, i)
    BY <1>6, <2>1 DEF Fresh
  <2>4. ASSUME NEW i \in 1..Len(d) PROVE Fresh(d[i], e, f, e.out + i)
    BY <1>4, <1>6, <2>2, <2>3
  <2>5. ASSUME NEW i \in 1..e.in PROVE Fresh(e.buffers[L - e.out - e.in + i], e, f, i)
    <3>1. L - e.out - e.in + i = w.inputIndex + i
      BY <1>1, <1>6
    <3> QED BY <1>6, <2>2, <2>3, <3>1
  <2> QED BY <2>2, <2>4, <2>5
<1>13. Working(e, d, f)
  BY <1>1, <1>2, <1>3, <1>4, <1>6, <1>8, <1>9, <1>10, <1>12 DEF Working, AtRest
<1> QED
  BY <1>3, <1>4, <1>6, <1>7, <1>13 DEF On, e, d

\* A work without buffers for the filter may go on: it has no outputs, or was spoiled.
LEMMA EmptyTodo ==
  ASSUME ChainTypes, NEW w \in WorkType, NEW f \in Line, AtRest(w, f), Chain!Todo(w) = <<>>
  PROVE  f > C /\ AtRest(w, f + 1) /\ (On(w) => w.inputIndex < 0)
<1>1. w.buffers \in Seq(Item) /\ Len(w.buffers) \in Nat /\ w.inputIndex \in Int /\ w.outs \in Nat
  BY DEF WorkType
<1>2. w.inputIndex >= 0 => ~(w.inputIndex < Len(w.buffers))
  <2> SUFFICES ASSUME w.inputIndex >= 0, w.inputIndex < Len(w.buffers) PROVE FALSE
    OBVIOUS
  <2>1. SubSeq(w.buffers, w.inputIndex + 1, Len(w.buffers)) = <<>>
    BY <1>1 DEF Chain!Todo
  <2>2. Len(SubSeq(w.buffers, w.inputIndex + 1, Len(w.buffers))) = Len(w.buffers) - w.inputIndex
    BY <1>1
  <2>3. Len(SubSeq(w.buffers, w.inputIndex + 1, Len(w.buffers))) = 0
    <3>1. Len(<<>>) = 0
      BY EmptySeq
    <3> QED BY <2>1, <3>1, Zenon
  <2> QED BY <1>1, <2>2, <2>3
<1>3. f > C
  <2> SUFFICES ASSUME f <= C PROVE FALSE
    BY ChainConstants
  <2>1. Len(w.buffers) - w.inputIndex = 1 /\ w.inputIndex >= 0
    BY ChainConstants DEF AtRest, Size
  <2> QED BY <1>1, <1>2, <2>1
<1>4. \A i : Size(w, f + 1) = Size(w, f) /\ \A b : Fresh(b, w, f, i) => Fresh(b, w, f + 1, i)
  BY <1>3, ChainConstants DEF Size, Fresh, Kth
<1>5. f + 1 > C + 1
  BY <1>3, ChainConstants
<1>6. AtRest(w, f + 1)
  <2>1. ~w.spoiled => MadeBelow(w, f + 1)
    BY MadeUp DEF AtRest
  <2>2. ~(f + 1 <= C) /\ ~(f + 1 <= C + 1)
    BY <1>5, ChainConstants
  <2>3. ~w.spoiled => /\ Len(w.buffers) - w.inputIndex = Size(w, f + 1) /\ w.inputIndex >= 0
                      /\ MadeBelow(w, f + 1)
                      /\ \A i \in 1..Size(w, f + 1) : Fresh(w.buffers[w.inputIndex + i], w, f + 1, i)
    BY <1>4, <2>1 DEF AtRest
  <2> QED BY <2>1, <2>2, <2>3 DEF AtRest
<1> QED BY <1>1, <1>2, <1>3, <1>6 DEF On

\* What doProcess() makes of a work: it goes on with the rest of its buffers, or
\* to the next filter.
DoneWith(next, w, d, f) ==
  /\ next \in WorkType /\ next.id = w.id /\ next.params = w.params
  /\ next.in > next.out => Working(next, Tail(d), f)
  /\ ~(next.in > next.out) => AtRest(next, f + 1) /\ On(next)

\* The next buffer of a loop.
LEMMA HeadIs ==
  ASSUME ChainTypes, NEW w \in WorkType, NEW d \in Seq(Item), NEW f \in Line, f # C,
         Working(w, d, f)
  PROVE  /\ d # <<>> /\ Head(d) \in Item /\ Head(d) = d[1] /\ Tail(d) \in Seq(Item)
         /\ Len(Tail(d)) = Len(d) - 1 /\ \A i \in 1..Len(Tail(d)) : Tail(d)[i] = d[i + 1]
         /\ ~w.spoiled => Fresh(Head(d), w, f, w.out + 1)
         /\ Len(d) \in Nat /\ Len(d) >= 1
<1>1. w.in \in Int /\ w.out \in Int /\ Len(d) \in Nat
  BY DEF WorkType
<1>2. Len(d) >= 1
  BY <1>1 DEF Working
<1>3. d # <<>>
  BY <1>2, EmptySeq
<1>4. /\ Head(d) \in Item /\ Head(d) = d[1] /\ Tail(d) \in Seq(Item) /\ Len(Tail(d)) = Len(d) - 1
      /\ \A i \in 1..Len(Tail(d)) : Tail(d)[i] = d[i + 1]
  BY <1>3, HeadTailProperties
<1>5. ~w.spoiled => Fresh(d[1], w, f, w.out + 1)
  BY <1>1, <1>2 DEF Working
<1> QED BY <1>1, <1>2, <1>3, <1>4, <1>5, Zenon

\* A buffer that a filter lets pass; the last one takes out what was pushed.
LEMMA BypassedIs ==
  ASSUME ChainTypes, NEW w \in WorkType, NEW d \in Seq(Item), NEW f \in Line, f # C,
         Working(w, d, f)
  PROVE  DoneWith(Chain!Bypassed(w, Head(d), f), w, d, f)
<1> DEFINE b == Head(d)
           L == Len(w.buffers)
           p == Chain!Pushed(w, b, FALSE)
           cut == SubSeq(p.buffers, 1, Len(p.buffers) - p.out)
           sp == p.spoiled \/ \E k \in DOMAIN p.made : f \in Chain!ToSet(p.made[k])
           q == [p EXCEPT !.buffers = cut, !.inputIndex = @ - p.in, !.spoiled = sp]
<1>1. L \in Nat /\ w.inputIndex \in Int /\ w.in \in Int /\ w.out \in Int /\ w.outs \in Nat
  BY DEF WorkType
<1>2. /\ w.out >= 0 /\ w.in - w.out = Len(d) /\ w.out < w.in /\ w.in <= L
         /\ w.inputIndex = L - w.out
      /\ Real(w) /\ w.outs <= limits.outs
  BY DEF Working
<1>3. b \in Item
  BY HeadIs
<1>4. /\ p.out = w.out + 1 /\ p.inputIndex = w.inputIndex /\ Len(p.buffers) = L + 1
      /\ p \in WorkType /\ SameBut(p, w) /\ p.buffers[L + 1] = b
      /\ \A i \in 1..L : p.buffers[i] = w.buffers[i]
  <2> HIDE DEF b
  <2>1. /\ p \in WorkType /\ SameBut(p, w) /\ p.out = w.out + 1
        /\ p.inputIndex = w.inputIndex - 0
        /\ Len(p.buffers) = Len(w.buffers) + 1
        /\ p.buffers[Len(p.buffers)] = b
        /\ \A i \in 1..(Len(p.buffers) - 1) : p.buffers[i] = w.buffers[i]
    BY <1>3, PushedIs
  <2> HIDE DEF p
  <2> QED BY <1>1, <2>1
<1> HIDE DEF b, p
<1>5. /\ p.id = w.id /\ p.params = w.params /\ p.in = w.in /\ p.made = w.made /\ p.outs = w.outs
      /\ p.spoiled = w.spoiled
  BY <1>4 DEF SameBut
<1>6. ~w.spoiled =>
        /\ w.in = Size(w, f) /\ MadeBelow(w, f + 1)
        /\ \A i \in 1..w.out : Fresh(w.buffers[L - w.out + i], w, f, i)
        /\ Untouched(w, f) =>
             /\ L - w.out - w.in >= 0
             /\ \A i \in 1..w.in : Fresh(w.buffers[L - w.out - w.in + i], w, f, i)
  BY DEF Working
<1>7. Chain!Bypassed(w, b, f) = IF p.in > p.out THEN p ELSE q
  BY Zenon, <1>5 DEF Chain!Bypassed, p
<1>8. p.out = w.out + 1 /\ p.inputIndex = w.inputIndex /\ Len(p.buffers) = L + 1 /\ p.in = w.in
  BY <1>4, <1>5
<1> HIDE DEF L, p, q
<1>9. \A i : /\ Size(p, f) = Size(w, f) /\ \A c : Fresh(c, w, f, i) => Fresh(c, p, f, i)
  BY <1>5 DEF Size, Fresh
<1>10. CASE p.in > p.out
  <2>1. Len(Tail(d)) = p.in - p.out
    <3>1. Len(Tail(d)) = Len(d) - 1 /\ Len(d) \in Nat
      BY HeadIs
    <3> QED BY <1>1, <1>2, <1>8, <3>1
  <2>2. Real(p)
    BY <1>1, <1>2, <1>5, <1>8 DEF Real, L
  <2>3. ASSUME ~p.spoiled
        PROVE  /\ \A i \in 1..Len(Tail(d)) : Fresh(Tail(d)[i], p, f, p.out + i)
               /\ \A i \in 1..p.out : Fresh(p.buffers[Len(p.buffers) - p.out + i], p, f, i)
               /\ Untouched(p, f) =>
                    /\ Len(p.buffers) - p.out - p.in >= 0
                    /\ \A i \in 1..p.in : Fresh(p.buffers[Len(p.buffers) - p.out - p.in + i], p, f, i)
    <3>1. ~w.spoiled
      BY <1>5, <2>3
    <3>2. ASSUME NEW i \in 1..Len(Tail(d)) PROVE Fresh(Tail(d)[i], p, f, p.out + i)
      <4>1. Tail(d)[i] = d[i + 1] /\ i + 1 \in 1..Len(d) /\ p.out + i = w.out + (i + 1)
        <5>1. Tail(d)[i] = d[i + 1] /\ Len(Tail(d)) = Len(d) - 1 /\ Len(d) \in Nat
          BY HeadIs
        <5>2. i + 1 \in 1..Len(d) /\ p.out + i = w.out + (i + 1)
          BY <1>1, <1>8, <5>1, SMTT(30)
        <5> QED BY <5>1, <5>2
      <4>2. Fresh(d[i + 1], w, f, w.out + (i + 1))
        BY <3>1, <4>1 DEF Working
      <4> QED BY <1>9, <4>1, <4>2
    <3>3. ASSUME NEW i \in 1..p.out PROVE Fresh(p.buffers[Len(p.buffers) - p.out + i], p, f, i)
      <4>1. Len(p.buffers) - p.out + i = L - w.out + i
        BY <1>1, <1>8, SMTT(30)
      <4>2. CASE i = p.out
        <5>1. L - w.out + i = L + 1
          BY <1>1, <1>8, <4>2, SMTT(30)
        <5>2. Fresh(b, w, f, i)
          BY <1>4, <3>1, <4>2, HeadIs DEF b
        <5> QED BY <1>4, <1>9, <4>1, <5>1, <5>2
      <4>3. CASE i # p.out
        <5>1. i \in 1..w.out /\ L - w.out + i \in 1..L
          BY <1>1, <1>2, <1>8, <4>3, SMTT(30)
        <5>2. Fresh(w.buffers[L - w.out + i], w, f, i)
          BY <1>6, <3>1, <5>1
        <5> QED BY <1>4, <1>9, <4>1, <5>1, <5>2
      <4> QED BY <4>2, <4>3
    <3>4. ASSUME Untouched(p, f)
          PROVE  /\ Len(p.buffers) - p.out - p.in >= 0
                 /\ \A i \in 1..p.in : Fresh(p.buffers[Len(p.buffers) - p.out - p.in + i], p, f, i)
      <4>1. Untouched(w, f)
        BY <1>5, <3>4 DEF Untouched
      <4>2. /\ L - w.out - w.in >= 0
            /\ \A i \in 1..w.in : Fresh(w.buffers[L - w.out - w.in + i], w, f, i)
        BY <1>6, <3>1, <4>1
      <4>3. Len(p.buffers) - p.out - p.in = L - w.out - w.in
        <5>1. Len(p.buffers) - p.out = L - w.out
          BY <1>1, <1>8, SMTT(30)
        <5> QED BY <1>8, <5>1
      <4>4. ASSUME NEW i \in 1..p.in PROVE Fresh(p.buffers[L - w.out - w.in + i], p, f, i)
        <5>1. L - w.out - w.in + i \in 1..L
          BY <1>1, <1>2, <1>5, <4>2
        <5> QED BY <1>4, <1>5, <1>9, <4>2, <5>1
      <4> QED BY <4>2, <4>3, <4>4
    <3> QED BY <3>2, <3>3, <3>4
  <2>4. ~p.spoiled => p.in = Size(p, f) /\ MadeBelow(p, f + 1) /\ p.out # 0
    <3>1. p.out # 0
      BY <1>1, <1>2, <1>8
    <3> QED BY <1>5, <1>9, <3>1 DEF Working, MadeBelow
  <2>5. f <= C => p.outs = 0 /\ ~p.spoiled /\ Unmade(p)
    BY <1>5 DEF Working, Unmade
  <2>6. Working(p, Tail(d), f)
    <3>1. /\ p.out >= 0 /\ p.in - p.out = Len(Tail(d)) /\ p.out < p.in /\ p.in <= Len(p.buffers)
          /\ p.inputIndex = Len(p.buffers) - p.out /\ p.outs <= limits.outs
      BY <1>1, <1>2, <1>5, <1>10, <1>8, <2>1, SMTT(30)
    <3> HIDE DEF b
    <3>2. ~p.spoiled =>
            /\ \A i \in 1..Len(Tail(d)) : Fresh(Tail(d)[i], p, f, p.out + i)
            /\ \A i \in 1..p.out : Fresh(p.buffers[Len(p.buffers) - p.out + i], p, f, i)
            /\ Untouched(p, f) =>
                 /\ Len(p.buffers) - p.out - p.in >= 0
                 /\ \A i \in 1..p.in : Fresh(p.buffers[Len(p.buffers) - p.out - p.in + i], p, f, i)
      BY <2>3
    <3> QED BY ONLY <2>2, <2>4, <2>5, <3>1, <3>2 DEF Working
  <2> QED BY <1>4, <1>5, <1>7, <1>10, <2>6 DEF DoneWith, b
<1>11. CASE ~(p.in > p.out)
  <2>1. p.out = w.in /\ Len(p.buffers) - p.out = L - w.out /\ p.in = w.in /\ w.in = w.out + 1
    BY <1>1, <1>2, <1>11, <1>8
  <2>2. /\ cut \in Seq(Item) /\ Len(cut) = L - w.out
        /\ \A i \in 1..(L - w.out) : cut[i] = w.buffers[i]
    <3>1. p.buffers \in Seq(Item)
      BY <1>4 DEF WorkType
    <3>2. L - w.out \in Nat /\ L - w.out <= L
      BY <1>1, <1>2
    <3>3. cut = SubSeq(p.buffers, 1, L - w.out)
      BY <2>1
    <3> HIDE DEF cut
    <3>4. SubSeq(p.buffers, 1, L - w.out) \in Seq(Item)
          /\ Len(SubSeq(p.buffers, 1, L - w.out)) = L - w.out
          /\ \A i \in 1..(L - w.out) : SubSeq(p.buffers, 1, L - w.out)[i] = p.buffers[i]
      BY <1>1, <1>4, <3>1, <3>2
    <3> QED BY <1>1, <1>2, <1>4, <3>2, <3>3, <3>4
  <2>3. sp \in BOOLEAN
    BY <1>4, Zenon DEF WorkType
  <2>4. ~sp => ~w.spoiled /\ Untouched(w, f)
    <3>1. w.made \in [0..limits.outs -> Seq(Line)]
      BY DEF WorkType
    <3>2. ~sp => ~w.spoiled /\ \A k \in 0..limits.outs : f \notin Chain!ToSet(w.made[k])
      BY <1>5, <3>1
    <3> QED BY <3>2, Zenon DEF Untouched, Chain!ToSet
  <2>5. ~w.spoiled /\ Untouched(w, f) => ~sp
    <3>1. w.made \in [0..limits.outs -> Seq(Line)]
      BY DEF WorkType
    <3> QED BY <1>5, <3>1, Zenon DEF Untouched, Chain!ToSet
  <2> HIDE DEF sp, cut
  <2>6. p.inputIndex - p.in \in Int
    BY <1>1, <1>8
  <2>7. q \in WorkType
    BY <1>4, <2>2, <2>3, <2>6 DEF WorkType, q
  <2>8. /\ q.id = w.id /\ q.params = w.params /\ q.outs = w.outs /\ q.made = w.made
           /\ q.spoiled = sp
        /\ q.buffers = cut /\ q.inputIndex = L - w.out - w.in /\ q.in = p.in /\ q.out = p.out
    <3>1. q.inputIndex = p.inputIndex - p.in
      BY <1>4 DEF WorkType, q
    <3>2. /\ q.id = p.id /\ q.params = p.params /\ q.outs = p.outs /\ q.made = p.made
             /\ q.spoiled = sp
          /\ q.buffers = cut /\ q.in = p.in /\ q.out = p.out
      BY <1>4 DEF WorkType, q
    <3>3. p.inputIndex - p.in = L - w.out - w.in
      BY <1>1, <1>2, <1>8
    <3> QED BY <1>5, <3>1, <3>2, <3>3
  <2>9. Real(q) /\ On(q)
    <3>1. Len(q.buffers) = L - w.out
      BY <2>2, <2>8
    <3>2. w.in >= 1
      BY <1>1, <1>2
    <3>3. q.inputIndex < Len(q.buffers)
      BY <1>1, <2>8, <3>1, <3>2
    <3>4. q.inputIndex <= Len(q.buffers)
      BY <1>1, <2>8, <3>1, <3>2
    <3> QED BY <1>2, <2>8, <3>3, <3>4 DEF Real, On
  <2>10. f + 1 <= C => w.outs = 0
    BY ChainConstants DEF Working
  <2>11. f + 1 <= C + 1 => ~q.spoiled /\ Unmade(q)
    <3> SUFFICES ASSUME f + 1 <= C + 1 PROVE ~sp /\ Unmade(w)
      BY <2>8 DEF Unmade
    <3>1. f <= C
      BY ChainConstants
    <3>2. ~w.spoiled /\ Unmade(w) /\ w.in = 1
      BY <3>1 DEF Working, Size
    <3>3. w.out = 0
      BY <1>1, <1>2, <3>2
    <3>4. MadeBelow(w, f)
      BY <3>2, <3>3 DEF Working
    <3>5. Untouched(w, f)
      BY <3>4, ChainConstants DEF MadeBelow, Untouched
    <3> QED BY <2>5, <3>2, <3>5
  <2>12. ASSUME ~q.spoiled
         PROVE  /\ Len(q.buffers) - q.inputIndex = Size(q, f + 1) /\ q.inputIndex >= 0
                /\ MadeBelow(q, f + 1)
                /\ \A i \in 1..Size(q, f + 1) : Fresh(q.buffers[q.inputIndex + i], q, f + 1, i)
    <3>1. ~w.spoiled /\ Untouched(w, f)
      BY <2>4, <2>8, <2>12
    <3>2. /\ L - w.out - w.in >= 0
          /\ \A i \in 1..w.in : Fresh(w.buffers[L - w.out - w.in + i], w, f, i)
          /\ w.in = Size(w, f) /\ MadeBelow(w, f + 1)
      BY <1>6, <3>1
    <3>3. Size(q, f + 1) = w.in
      BY <2>8, <3>2, ChainConstants DEF Size
    <3>4. Len(q.buffers) - q.inputIndex = w.in
      BY <1>1, <1>2, <2>2, <2>8
    <3>5. ASSUME NEW i \in 1..w.in PROVE Fresh(q.buffers[q.inputIndex + i], q, f + 1, i)
      <4>1. q.inputIndex + i \in 1..(L - w.out) /\ q.inputIndex + i = L - w.out - w.in + i
        BY <1>1, <1>2, <2>8, <3>2
      <4>2. q.buffers[q.inputIndex + i] = w.buffers[L - w.out - w.in + i]
        BY <2>2, <2>8, <4>1
      <4>3. Fresh(w.buffers[L - w.out - w.in + i], w, f, i)
        BY <3>2
      <4> QED BY <2>8, <4>2, <4>3, ChainConstants DEF Fresh, Kth
    <3>6. MadeBelow(q, f + 1)
      BY <2>8, <3>2 DEF MadeBelow
    <3> QED BY <2>8, <3>2, <3>3, <3>4, <3>5, <3>6
  <2>13. AtRest(q, f + 1)
    BY <1>2, <2>8, <2>9, <2>10, <2>11, <2>12 DEF AtRest
  <2>14. ~(q.in > q.out)
    BY <1>11, <2>8
  <2> QED BY <1>7, <1>11, <2>7, <2>8, <2>9, <2>13, <2>14 DEF DoneWith, b
<1> QED BY <1>10, <1>11

\* Where a new version of the first buffer and those before it are.
LEMMA ProcessedBuffers ==
  ASSUME ChainTypes, NEW w \in WorkType, NEW b \in Item, NEW r \in BOOLEAN,
         w.out >= 0, w.out < w.in, w.in <= Len(w.buffers), w.inputIndex = Len(w.buffers) - w.out
  PROVE  /\ Chain!Pushed(w, b, r) \in WorkType /\ SameBut(Chain!Pushed(w, b, r), w)
         /\ Chain!Pushed(w, b, r).out = w.out + 1
         /\ Len(Chain!Pushed(w, b, r).buffers) - Chain!Pushed(w, b, r).inputIndex = w.out + 1
         /\ Chain!Pushed(w, b, r).inputIndex >= 0
         /\ w.in <= Len(Chain!Pushed(w, b, r).buffers)
         /\ Chain!Pushed(w, b, r).buffers[Len(Chain!Pushed(w, b, r).buffers)] = b
         /\ \A i \in 1..w.out : Chain!Pushed(w, b, r).buffers[Len(Chain!Pushed(w, b, r).buffers) - w.out - 1 + i]
                                  = w.buffers[Len(w.buffers) - w.out + i]
<1> DEFINE p == Chain!Pushed(w, b, r)
           L == Len(w.buffers)
           M == Len(p.buffers)
<1>1. L \in Nat /\ w.inputIndex \in Int /\ w.in \in Int /\ w.out \in Int /\ w.in >= 1
  BY DEF WorkType
<1>2. /\ p \in WorkType /\ SameBut(p, w) /\ p.out = w.out + 1
      /\ p.inputIndex = w.inputIndex - (IF r THEN 1 ELSE 0)
      /\ Len(p.buffers) = Len(w.buffers) + (IF r THEN 0 ELSE 1)
      /\ p.buffers[Len(p.buffers)] = b
      /\ \A i \in 1..(Len(p.buffers) - 1) :
           p.buffers[i] = w.buffers[IF r /\ i >= Len(w.buffers) - w.in + 1 THEN i + 1 ELSE i]
  <2>1. r => w.in >= 1 /\ w.in <= Len(w.buffers)
    BY <1>1
  <2> QED BY <2>1, PushedIs, Zenon
<1> HIDE DEF p
<1>3. w.inputIndex = L - w.out /\ w.in <= L
  OBVIOUS
<1>4. \A i \in 1..(M - 1) : p.buffers[i] = w.buffers[IF r /\ i >= L - w.in + 1 THEN i + 1 ELSE i]
  BY <1>2
<1>5. M = L + (IF r THEN 0 ELSE 1) /\ p.buffers[M] = b
  BY <1>2
<1> HIDE DEF L, M
<1>6. M - p.inputIndex = w.out + 1 /\ p.inputIndex >= 0 /\ w.in <= M
  <2>1. CASE r
    <3>1. M = L /\ p.inputIndex = w.inputIndex - 1
      BY <1>1, <1>2, <1>5, <2>1
    <3> QED BY <1>1, <1>3, <3>1
  <2>2. CASE ~r
    <3>1. M = L + 1 /\ p.inputIndex = w.inputIndex
      BY <1>1, <1>2, <1>5, <2>2
    <3> QED BY <1>1, <1>3, <3>1
  <2> QED BY <2>1, <2>2
<1>7. ASSUME NEW i \in 1..w.out PROVE p.buffers[M - w.out - 1 + i] = w.buffers[L - w.out + i]
  <2>1. CASE r
    <3>1. M = L
      BY <1>1, <1>5, <2>1
    <3>2. /\ M - w.out - 1 + i \in 1..(M - 1) /\ M - w.out - 1 + i >= L - w.in + 1
          /\ (M - w.out - 1 + i) + 1 = L - w.out + i
      BY <1>1, <1>3, <3>1, SMTT(30)
    <3> QED BY <1>4, <2>1, <3>2
  <2>2. CASE ~r
    <3>1. M = L + 1
      BY <1>1, <1>5, <2>2
    <3>2. M - w.out - 1 + i \in 1..(M - 1) /\ M - w.out - 1 + i = L - w.out + i
      BY <1>1, <1>3, <3>1, SMTT(30)
    <3> QED BY <1>4, <2>2, <3>2
  <2> QED BY <2>1, <2>2
<1> QED BY <1>2, <1>5, <1>6, <1>7 DEF p, M, L

\* A new version of a buffer.
LEMMA ProcessedIs ==
  ASSUME ChainTypes, NEW w \in WorkType, NEW d \in Seq(Item), NEW f \in Line, f # C,
         Working(w, d, f)
  PROVE  (f <= C \/ ~Head(d).replica) => DoneWith(Chain!Processed(w, Head(d), f), w, d, f)
<1> DEFINE b == Head(d)
           next == [b EXCEPT !.by = Append(@, f)]
           made == [w EXCEPT !.made[b.k] = next.by]
           p == Chain!Processed(w, b, f)
           M == Len(p.buffers)
<1>1. w.in \in Int /\ w.out \in Int /\ w.outs \in Nat /\ w.inputIndex \in Int
      /\ Len(w.buffers) \in Nat
  BY DEF WorkType
<1>2. /\ w.out >= 0 /\ w.in - w.out = Len(d) /\ w.out < w.in /\ w.in <= Len(w.buffers)
      /\ w.inputIndex = Len(w.buffers) - w.out /\ Real(w) /\ w.outs <= limits.outs
  BY DEF Working
<1>3. b \in Item /\ w.made \in [0..limits.outs -> Seq(Line)]
  BY HeadIs DEF WorkType
<1> HIDE DEF b
<1>4. b.k \in 0..limits.outs /\ b.by \in Seq(Line)
  BY <1>3 DEF Item
<1>5. /\ Append(b.by, f) \in Seq(Line) /\ Len(Append(b.by, f)) = Len(b.by) + 1
      /\ Append(b.by, f)[Len(b.by) + 1] = f
      /\ \A j \in 1..Len(b.by) : Append(b.by, f)[j] = b.by[j]
  BY ONLY <1>4, f \in Line, AppendProperties
<1> DEFINE by == Append(b.by, f)
<1>6. next \in Item /\ next.k = b.k /\ next.by = by /\ next.replica = b.replica
  BY <1>3, <1>5 DEF Item
<1> HIDE DEF next, by
<1>7. /\ made \in WorkType /\ made.id = w.id /\ made.params = w.params /\ made.in = w.in
         /\ made.out = w.out
      /\ made.buffers = w.buffers /\ made.inputIndex = w.inputIndex /\ made.outs = w.outs
      /\ made.spoiled = w.spoiled /\ made.made = [w.made EXCEPT ![b.k] = by]
  <2>1. [w.made EXCEPT ![b.k] = by] \in [0..limits.outs -> Seq(Line)]
    BY <1>3, <1>4, <1>5 DEF by
  <2>2. made = [w EXCEPT !.made = [w.made EXCEPT ![b.k] = by]]
    BY <1>6
  <2> HIDE DEF made
  <2>3. made \in WorkType
    BY <2>1, <2>2 DEF WorkType
  <2> QED BY <2>1, <2>2, <2>3 DEF WorkType
<1>8. p = Chain!Pushed(made, next, Chain!Released(f)) /\ Chain!Released(f) \in BOOLEAN
  BY DEF Chain!Processed, Chain!Released, made, next
<1> HIDE DEF made
<1>9. /\ p \in WorkType /\ SameBut(p, made) /\ p.out = w.out + 1 /\ M - p.inputIndex = w.out + 1
      /\ p.inputIndex >= 0 /\ w.in <= M /\ p.buffers[M] = next
      /\ \A i \in 1..w.out : p.buffers[M - w.out - 1 + i] = w.buffers[Len(w.buffers) - w.out + i]
  <2>1. made.out >= 0 /\ made.out < made.in /\ made.in <= Len(made.buffers)
        /\ made.inputIndex = Len(made.buffers) - made.out
    BY <1>2, <1>7
  <2>2. made \in WorkType /\ next \in Item
    BY <1>6, <1>7
  <2> DEFINE u == Chain!Pushed(made, next, Chain!Released(f))
  <2>3. /\ u \in WorkType /\ SameBut(u, made) /\ u.out = made.out + 1
        /\ Len(u.buffers) - u.inputIndex = made.out + 1
        /\ u.inputIndex >= 0 /\ made.in <= Len(u.buffers) /\ u.buffers[Len(u.buffers)] = next
        /\ \A i \in 1..made.out : u.buffers[Len(u.buffers) - made.out - 1 + i]
                                    = made.buffers[Len(made.buffers) - made.out + i]
    BY <1>8, <2>1, <2>2, ProcessedBuffers, Zenon
  <2> HIDE DEF p, u
  <2>4. p = u
    BY <1>8 DEF u
  <2> QED BY <1>7, <2>3, <2>4
<1> HIDE DEF p
<1>10. /\ p.id = w.id /\ p.params = w.params /\ p.in = w.in /\ p.outs = w.outs
          /\ p.spoiled = w.spoiled
       /\ p.made = [w.made EXCEPT ![b.k] = by] /\ M \in Nat /\ p.inputIndex \in Int
  BY <1>7, <1>9 DEF SameBut, WorkType
<1>11. p.made[b.k] = by /\ \A k \in 0..limits.outs : k # b.k => p.made[k] = w.made[k]
  BY <1>3, <1>4, <1>10
<1>12. ~w.spoiled => /\ Fresh(b, w, f, w.out + 1) /\ w.in = Size(w, f) /\ MadeBelow(w, f + 1)
                     /\ \A i \in 1..Len(d) : Fresh(d[i], w, f, w.out + i)
                     /\ \A i \in 1..w.out : Fresh(w.buffers[Len(w.buffers) - w.out + i], w, f, i)
  <2>1. ~w.spoiled => Fresh(b, w, f, w.out + 1)
    BY HeadIs DEF b
  <2> QED BY <2>1 DEF Working
<1>13. ~w.spoiled => MadeBelow(p, f + 1)
  <2> SUFFICES ASSUME ~w.spoiled, NEW k \in 0..limits.outs, NEW j \in DOMAIN p.made[k]
               PROVE p.made[k][j] < f + 1
    BY DEF MadeBelow
  <2>1. CASE k # b.k
    BY <1>11, <1>12, <2>1 DEF MadeBelow
  <2>2. CASE k = b.k
    <3>1. p.made[k] = by /\ b.by = w.made[k] /\ w.made[k] \in Seq(Line)
      BY <1>3, <1>11, <1>12, <2>2 DEF Fresh
    <3>2. j \in 1..(Len(b.by) + 1) /\ Len(b.by) \in Nat
      BY <1>4, <1>5, <3>1 DEF by
    <3>3. CASE j = Len(b.by) + 1
      BY <1>5, <3>1, <3>3, ChainConstants DEF by
    <3>4. CASE j # Len(b.by) + 1
      <4>1. j \in 1..Len(b.by) /\ by[j] = w.made[k][j]
        BY <1>5, <3>1, <3>2, <3>4 DEF by
      <4>2. w.made[k][j] < f + 1
        BY <1>12, <3>1, <4>1 DEF MadeBelow
      <4> QED BY <3>1, <4>1, <4>2
    <3> QED BY <3>3, <3>4
  <2> QED BY <2>1, <2>2
<1>14. \A i : Size(p, f) = Size(w, f) /\ Size(p, f + 1) = Size(w, f)
              /\ Kth(f, i) = Kth(f + 1, i)
  BY <1>10, ChainConstants DEF Size, Kth
<1>15. ASSUME ~w.spoiled, NEW i \in Nat, i >= 1, i <= Size(w, f), NEW x, Fresh(x, w, f, i),
              i # w.out + 1
       PROVE  Fresh(x, p, f, i)
  <2>1. CASE f > C
    <3>1. Kth(f, i) = i /\ b.k = w.out + 1 /\ i \in 0..limits.outs
      BY <1>1, <1>2, <1>12, <1>15, <2>1, ChainConstants DEF Kth, Fresh, Size
    <3> QED BY <1>11, <1>15, <2>1, <3>1, ChainConstants DEF Fresh
  <2>2. CASE f <= C
    <3>1. w.in = 1 /\ w.out = 0 /\ i = 1
      BY <1>1, <1>2, <1>12, <1>15, <2>2 DEF Size
    <3> QED BY <1>15, <3>1
  <2> QED BY <2>1, <2>2, ChainConstants
<1>16. ASSUME ~w.spoiled, f <= C => ~b.replica PROVE Fresh(next, p, f, w.out + 1)
  BY <1>6, <1>11, <1>12, <1>16 DEF Fresh
<1>17. ~w.spoiled => Size(w, f) \in Nat /\ w.out + 1 <= Size(w, f)
  BY <1>1, <1>2, <1>12
<1>18. ASSUME ~w.spoiled, f <= C => ~b.replica, NEW i \in 1..p.out
       PROVE Fresh(p.buffers[M - p.out + i], p, f, i)
  <2>1. CASE i = w.out + 1
    <3>1. M - p.out + i = M
      BY <1>1, <1>9, <1>10, <2>1, SMTT(30)
    <3> QED BY <1>9, <1>16, <1>18, <2>1, <3>1
  <2>2. CASE i # w.out + 1
    <3>1. i \in 1..w.out /\ M - p.out + i = M - w.out - 1 + i
      BY <1>1, <1>9, <1>10, <2>2, SMTT(30)
    <3>2. Fresh(w.buffers[Len(w.buffers) - w.out + i], w, f, i)
      BY <1>12, <1>18, <3>1
    <3>3. Fresh(w.buffers[Len(w.buffers) - w.out + i], p, f, i)
      <4>1. i \in Nat /\ i >= 1 /\ i <= Size(w, f)
        BY <1>1, <1>17, <1>18, <3>1
      <4> QED BY <1>15, <1>18, <2>2, <3>2, <4>1
    <3> QED BY <1>9, <3>1, <3>3
  <2> QED BY <2>1, <2>2
<1>19. ~b.replica \/ ~w.spoiled => (~w.spoiled => (f <= C => ~b.replica))
  BY <1>12 DEF Fresh
<1>20. Real(p) /\ p.outs <= limits.outs
  BY <1>1, <1>2, <1>9, <1>10 DEF Real
<1>21. f <= C => w.outs = 0 /\ ~w.spoiled /\ Unmade(w) /\ w.in = 1 /\ w.out = 0
  <2>1. f <= C => w.outs = 0 /\ ~w.spoiled /\ Unmade(w)
    BY DEF Working
  <2> QED BY <1>1, <1>2, <1>12, <2>1 DEF Size
<1>22. f <= C => Unmade(p) /\ ~b.replica
  <2> SUFFICES ASSUME f <= C PROVE Unmade(p) /\ ~b.replica
    OBVIOUS
  <2>1. b.k = 0 /\ ~b.replica
    BY <1>12, <1>21 DEF Fresh, Kth
  <2>2. ASSUME NEW k \in 1..limits.outs PROVE p.made[k] = <<>>
    <3>1. w.made[k] = <<>> /\ k # 0
      BY <1>21, ChainConstants DEF Unmade
    <3> QED BY <1>11, <2>1, <3>1
  <2> QED BY <2>1, <2>2 DEF Unmade
<1>23. CASE p.in > p.out
  <2>1. f > C
    BY <1>1, <1>9, <1>10, <1>21, <1>23, ChainConstants
  <2>2. ~Untouched(p, f) \/ w.spoiled
    <3>1. b.k \in 0..limits.outs /\ Len(b.by) + 1 \in DOMAIN p.made[b.k]
          /\ p.made[b.k][Len(b.by) + 1] = f
      BY <1>4, <1>5, <1>11 DEF by
    <3> QED BY <3>1 DEF Untouched
  <2>3. /\ Tail(d) \in Seq(Item) /\ Len(Tail(d)) = Len(d) - 1 /\ Len(d) \in Nat
        /\ \A i \in 1..Len(Tail(d)) : Tail(d)[i] = d[i + 1]
    BY HeadIs
  <2> DEFINE T == Len(Tail(d))
             D == Len(d)
  <2>4. T = D - 1 /\ D \in Nat /\ w.in - w.out = D /\ p.out = w.out + 1 /\ p.in = w.in
    BY <1>2, <1>9, <1>10, <2>3
  <2> HIDE DEF T, D
  <2>5. T = p.in - p.out
    BY <1>1, <2>4, SMTT(30)
  <2>6. ASSUME ~w.spoiled, NEW i \in 1..Len(Tail(d)) PROVE Fresh(Tail(d)[i], p, f, p.out + i)
    <3>1. i \in 1..T /\ w.out >= 0
      BY <1>2, <2>6 DEF T
    <3>2. i + 1 \in 1..D /\ p.out + i = w.out + (i + 1) /\ w.out + (i + 1) # w.out + 1
          /\ w.out + (i + 1) >= 1 /\ w.out + (i + 1) <= w.in /\ w.out + (i + 1) \in Nat
      <4>1. i \in Nat /\ i >= 1 /\ i <= T
        BY <2>4, <3>1
      <4>2. i + 1 \in 1..D /\ i + 1 <= D
        BY <2>4, <4>1
      <4>3. /\ w.out \in Int /\ w.in \in Int /\ w.in = w.out + D /\ D \in Nat
            /\ p.out = w.out + 1
        BY <1>1, <2>4
      <4>4. p.out + i = w.out + (i + 1) /\ w.out + (i + 1) # w.out + 1
        BY <4>1, <4>3
      <4>5. w.out + (i + 1) >= 1 /\ w.out + (i + 1) <= w.in /\ w.out + (i + 1) \in Nat
        BY <3>1, <4>1, <4>2, <4>3
      <4> QED BY <4>2, <4>4, <4>5
    <3>3. i + 1 \in 1..Len(d) /\ p.out + i = w.out + (i + 1) /\ w.out + (i + 1) # w.out + 1
          /\ w.out + (i + 1) >= 1 /\ w.out + (i + 1) <= w.in /\ w.out + (i + 1) \in Nat
      BY <3>2 DEF D
    <3>4. Fresh(d[i + 1], w, f, w.out + (i + 1))
      BY <1>12, <2>6, <3>3
    <3>5. Fresh(d[i + 1], p, f, w.out + (i + 1))
      BY <1>12, <1>15, <2>6, <3>3, <3>4
    <3> QED BY <2>3, <3>3, <3>5
  <2>7. /\ p.out >= 0 /\ p.in - p.out = Len(Tail(d)) /\ p.out < p.in /\ p.in <= M
        /\ p.inputIndex = M - p.out /\ p.out # 0
    <3>1. w.out >= 0 /\ p.out = w.out + 1 /\ p.in = w.in /\ w.in <= M
          /\ M - p.inputIndex = w.out + 1
          /\ p.inputIndex \in Int /\ M \in Int /\ p.in > p.out
      BY <1>2, <1>9, <1>10, <1>23
    <3>2. /\ p.out >= 0 /\ p.in - p.out = T /\ p.out < p.in /\ p.in <= M
          /\ p.inputIndex = M - p.out /\ p.out # 0
      BY <1>1, <2>5, <3>1, SMTT(30)
    <3> QED BY <3>2 DEF T
  <2>8. ~p.spoiled => p.in = Size(p, f) /\ MadeBelow(p, f + 1)
    BY <1>10, <1>12, <1>13, <1>14
  <2>9. ~p.spoiled => /\ \A i \in 1..Len(Tail(d)) : Fresh(Tail(d)[i], p, f, p.out + i)
                      /\ \A i \in 1..p.out : Fresh(p.buffers[M - p.out + i], p, f, i)
                      /\ ~Untouched(p, f)
    BY <1>10, <1>18, <2>1, <2>2, <2>6, ChainConstants
  <2>10. ~(f <= C)
    BY <2>1, ChainConstants
  <2>11. Working(p, Tail(d), f)
    BY <1>20, <2>7, <2>8, <2>9, <2>10 DEF Working
  <2> QED BY <1>9, <1>10, <1>23, <2>11 DEF DoneWith, p, b
<1>24. CASE ~(p.in > p.out)
  <2>1. p.out = w.in /\ w.in = w.out + 1
    BY <1>1, <1>2, <1>9, <1>10, <1>24
  <2>2. On(p)
    BY <1>1, <1>2, <1>9, <1>10 DEF On
  <2>3. f + 1 <= C => w.outs = 0
    BY <1>21, ChainConstants
  <2>4. f + 1 <= C + 1 => ~w.spoiled /\ Unmade(p)
    BY <1>21, <1>22, ChainConstants
  <2>5. ASSUME ~w.spoiled, f <= C \/ ~b.replica, NEW i \in 1..Size(p, f + 1)
        PROVE Fresh(p.buffers[p.inputIndex + i], p, f + 1, i)
    <3>1. i \in 1..p.out /\ p.inputIndex + i = M - p.out + i
      BY <1>1, <1>9, <1>10, <1>12, <1>14, <2>1, <2>5
    <3>2. Fresh(p.buffers[M - p.out + i], p, f, i)
      BY <1>18, <1>22, <2>5, <3>1
    <3> QED BY <1>14, <3>1, <3>2, ChainConstants DEF Fresh
  <2>6. ~w.spoiled => M - p.inputIndex = Size(p, f + 1)
    BY <1>1, <1>9, <1>12, <1>14, <2>1
  <2>7. f <= C \/ ~b.replica => AtRest(p, f + 1)
    BY <1>9, <1>10, <1>13, <1>20, <2>3, <2>4, <2>5, <2>6 DEF AtRest
  <2> QED BY <1>9, <1>10, <1>24, <2>2, <2>7 DEF DoneWith, p, b
<1> QED BY <1>23, <1>24

\* What a codec has taken waits for its outputs.
LEMMA InputRests ==
  ASSUME ChainTypes, NEW w \in WorkType, NEW d \in Seq(Item), Working(w, d, C)
  PROVE  AtRest(w, C + 1) /\ w.outs = 0
<1>1. w.in \in Int /\ w.out \in Int /\ w.outs \in Nat /\ w.inputIndex \in Int
      /\ Len(w.buffers) \in Nat /\ C \in Nat
  BY ChainConstants DEF WorkType
<1>2. C <= C /\ ~(C + 1 <= C)
  BY <1>1
<1>3. /\ w.outs = 0 /\ ~w.spoiled /\ Unmade(w) /\ Real(w) /\ w.outs <= limits.outs
      /\ w.in = Size(w, C) /\ MadeBelow(w, C + 1)
      /\ w.out >= 0 /\ w.out < w.in /\ w.in <= Len(w.buffers)
         /\ w.inputIndex = Len(w.buffers) - w.out
  BY <1>1, <1>2 DEF Working
<1>4. w.in = 1 /\ Size(w, C + 1) = 0
  BY <1>2, <1>3 DEF Size
<1>5. w.out = 0 /\ w.inputIndex = Len(w.buffers) /\ w.inputIndex >= 0
  BY <1>1, <1>3, <1>4
<1>6. Len(w.buffers) - w.inputIndex = 0 /\ \A i : ~(i \in 1..0)
  BY <1>1, <1>5
<1> QED BY <1>2, <1>3, <1>4, <1>5, <1>6 DEF AtRest

\* A work that gets one more output.
LEMMA OneMore ==
  ASSUME ChainTypes, NEW w \in WorkType, NEW n \in WorkType, NEW b \in Item, AtRest(w, C + 1),
         w.outs < limits.outs, b.k = w.outs + 1, b.by = <<>>,
         n.id = w.id, n.params <= w.id, n.inputIndex = w.inputIndex, n.made = w.made,
         n.spoiled = w.spoiled, n.outs = w.outs + 1, Len(n.buffers) = Len(w.buffers) + 1,
         n.buffers[Len(w.buffers) + 1] = b, \A i \in 1..Len(w.buffers) : n.buffers[i] = w.buffers[i]
  PROVE  AtRest(n, C + 1) /\ On(n)
<1> DEFINE L == Len(w.buffers)
<1>1. /\ w.inputIndex \in Int /\ w.outs \in Nat /\ L \in Nat /\ C \in Nat /\ limits.outs \in Nat
      /\ w.in \in Int
  BY ChainConstants DEF WorkType
<1>2. n.inputIndex = w.inputIndex /\ Len(n.buffers) = L + 1 /\ n.made = w.made
      /\ n.outs = w.outs + 1
      /\ n.spoiled = w.spoiled /\ n.buffers[L + 1] = b
         /\ \A i \in 1..L : n.buffers[i] = w.buffers[i]
  OBVIOUS
<1> HIDE DEF L
<1>3. ~(C + 1 <= C) /\ C + 1 <= C + 1
  BY <1>1
<1>4. /\ Real(w) /\ ~w.spoiled /\ Unmade(w) /\ L - w.inputIndex = Size(w, C + 1)
         /\ w.inputIndex >= 0
      /\ MadeBelow(w, C + 1)
      /\ \A i \in 1..Size(w, C + 1) : Fresh(w.buffers[w.inputIndex + i], w, C + 1, i)
  BY <1>3 DEF AtRest, L
<1>5. Size(w, C + 1) = w.outs /\ Size(n, C + 1) = w.outs + 1
  BY <1>2, <1>3 DEF Size
<1>6. Real(n) /\ On(n)
  <2>1. w.inputIndex <= L /\ L + 1 \in Nat
    BY <1>1, <1>4, <1>5
  <2>2. n.inputIndex <= Len(n.buffers) /\ n.inputIndex < Len(n.buffers)
    BY <1>1, <1>2, <2>1
  <2>3. n.outs # 0
    BY <1>1, <1>2
  <2> QED BY <1>4, <2>2, <2>3 DEF Real, On
<1>7. MadeBelow(n, C + 1) /\ Unmade(n)
  BY <1>2, <1>4 DEF MadeBelow, Unmade
<1>8. ASSUME NEW i \in 1..(w.outs + 1) PROVE Fresh(n.buffers[n.inputIndex + i], n, C + 1, i)
  <2>1. CASE i = w.outs + 1
    <3>1. n.inputIndex + i = L + 1
      BY <1>1, <1>2, <1>4, <1>5, <2>1
    <3>2. w.made[w.outs + 1] = <<>>
      <4>1. w.outs + 1 \in 1..limits.outs
        BY <1>1
      <4> QED BY <1>4, <4>1 DEF Unmade
    <3> QED BY <1>2, <1>3, <2>1, <3>1, <3>2 DEF Fresh, Kth
  <2>2. CASE i # w.outs + 1
    <3>1. i \in 1..Size(w, C + 1) /\ n.inputIndex + i = w.inputIndex + i
          /\ w.inputIndex + i \in 1..L
      <4>1. i \in 1..w.outs /\ w.inputIndex >= 0 /\ L - w.inputIndex = w.outs
        BY <1>1, <1>4, <1>5, <2>2
      <4>2. w.inputIndex + i \in 1..L
        BY <1>1, <4>1, SMTT(30)
      <4> QED BY <1>2, <1>5, <4>1, <4>2
    <3>2. n.buffers[n.inputIndex + i] = w.buffers[w.inputIndex + i]
      BY <1>2, <3>1
    <3>3. Fresh(w.buffers[w.inputIndex + i], w, C + 1, i)
      BY <1>4, <3>1
    <3> QED BY <1>2, <3>2, <3>3 DEF Fresh
  <2> QED BY <2>1, <2>2
<1>9. Len(n.buffers) - n.inputIndex = w.outs + 1
  <2>1. L - w.inputIndex = w.outs /\ Len(n.buffers) = L + 1 /\ n.inputIndex = w.inputIndex
    BY <1>2, <1>4, <1>5
  <2>2. (L + 1) - w.inputIndex = w.outs + 1
    BY <1>1, <2>1, SMTT(30)
  <2> QED BY <2>1, <2>2
<1>10. n.outs <= limits.outs
  BY <1>1, <1>2
<1> QED BY <1>1, <1>2, <1>3, <1>4, <1>5, <1>6, <1>7, <1>8, <1>9, <1>10 DEF AtRest

\* What comes of a work in the codec: with an output, a replica, or nothing more.
Goes(n, w, more, params) ==
  /\ n \in WorkType /\ AtRest(n, C + 1) /\ n.id = w.id /\ n.params = params
  /\ n.outs = w.outs + more /\ (more = 1 => On(n))

\* A buffer, also as a replica, ...
LEMMA BufferIs ==
  ASSUME ChainTypes, NEW k \in 0..limits.outs, NEW r \in BOOLEAN
  PROVE  LET b == [Chain!Buffer(k) EXCEPT !.replica = r]
         IN  b \in Item /\ b.k = k /\ b.by = <<>> /\ b.replica = r
<1>1. <<>> \in Seq(Line)
  OBVIOUS
<1> QED BY <1>1 DEF Chain!Buffer, Item

\* ... or as it comes.
LEMMA PlainBuffer ==
  ASSUME ChainTypes, NEW k \in 0..limits.outs
  PROVE  /\ Chain!Buffer(k) \in Item /\ Chain!Buffer(k).k = k /\ Chain!Buffer(k).by = <<>>
         /\ Chain!Buffer(k).replica = FALSE
<1>1. <<>> \in Seq(Line)
  OBVIOUS
<1> QED BY <1>1 DEF Chain!Buffer, Item

\* An output takes the pending parameters along.
LEMMA OutputIs ==
  ASSUME ChainTypes, NEW w \in WorkType, AtRest(w, C + 1), w.outs < limits.outs, pending < w.id
  PROVE  Goes(Chain!WithOutput(w, Chain!Buffer(w.outs + 1)), w, 1, Chain!Merged(pending, w.params))
<1> DEFINE b == Chain!Buffer(w.outs + 1)
           p == Chain!Pushed(w, b, FALSE)
           m == Chain!Merged(pending, w.params)
           n == Chain!WithOutput(w, b)
<1>1. w.outs \in Nat /\ limits.outs \in Nat /\ w.params \in Nat /\ w.id \in Nat /\ pending \in Nat
  BY ChainConstants DEF WorkType, ChainTypes
<1>2. w.outs + 1 \in 0..limits.outs
  BY <1>1
<1>3. b \in Item /\ b.k = w.outs + 1 /\ b.by = <<>>
  BY <1>2, PlainBuffer
<1> HIDE DEF b
<1>4. /\ p \in WorkType /\ SameBut(p, w) /\ p.inputIndex = w.inputIndex
         /\ Len(p.buffers) = Len(w.buffers) + 1
      /\ p.buffers[Len(w.buffers) + 1] = b
         /\ \A i \in 1..Len(w.buffers) : p.buffers[i] = w.buffers[i]
  <2>1. w.inputIndex \in Int /\ Len(w.buffers) \in Nat
    BY DEF WorkType
  <2>2. /\ p \in WorkType /\ SameBut(p, w) /\ p.inputIndex = w.inputIndex - 0
        /\ Len(p.buffers) = Len(w.buffers) + 1 /\ p.buffers[Len(p.buffers)] = b
        /\ \A i \in 1..(Len(p.buffers) - 1) : p.buffers[i] = w.buffers[i]
    BY <1>3, PushedIs
  <2> HIDE DEF p
  <2> QED BY <2>1, <2>2
<1>5. m \in Nat /\ m <= w.id
  <2>1. w.params <= w.id
    BY DEF AtRest, Real
  <2> QED BY <1>1, <2>1 DEF Chain!Merged
<1> HIDE DEF m, p
<1>6. p.outs \in Nat /\ p.outs + 1 \in Nat /\ p.params = w.params
  BY <1>4 DEF WorkType, SameBut
<1>7. n = [p EXCEPT !.outs = p.outs + 1, !.params = m]
  BY <1>6 DEF Chain!WithOutput, p, m
<1> HIDE DEF n
<1>8. /\ n \in WorkType /\ n.id = p.id /\ n.params = m /\ n.buffers = p.buffers
         /\ n.inputIndex = p.inputIndex
      /\ n.made = p.made /\ n.spoiled = p.spoiled /\ n.outs = p.outs + 1
  BY <1>4, <1>5, <1>6, <1>7 DEF WorkType
<1>9. AtRest(n, C + 1) /\ On(n) /\ n.outs = w.outs + 1
  <2>1. /\ n.made = w.made /\ n.spoiled = w.spoiled /\ n.outs = w.outs + 1
        /\ n.inputIndex = w.inputIndex /\ Len(n.buffers) = Len(w.buffers) + 1
        /\ n.buffers[Len(w.buffers) + 1] = b
           /\ \A i \in 1..Len(w.buffers) : n.buffers[i] = w.buffers[i]
    BY <1>4, <1>8 DEF SameBut
  <2>2. n.id = w.id /\ n.params <= w.id
    BY <1>4, <1>5, <1>8 DEF SameBut
  <2> QED BY <1>3, <1>8, <2>2, <2>1, OneMore
<1> QED BY <1>4, <1>8, <1>9 DEF Goes, n, m, b, SameBut

\* A header's parameters go on with a replica.
LEMMA ReplicaIs ==
  ASSUME ChainTypes, NEW w \in WorkType, AtRest(w, C + 1), w.outs < limits.outs
  PROVE  Goes([Chain!Pushed(w, [Chain!Buffer(w.outs + 1) EXCEPT !.replica = TRUE], FALSE) EXCEPT !.outs = @ + 1],
              w, 1, w.params)
<1> DEFINE b == [Chain!Buffer(w.outs + 1) EXCEPT !.replica = TRUE]
           p == Chain!Pushed(w, b, FALSE)
           n == [p EXCEPT !.outs = @ + 1]
<1>1. w.outs \in Nat /\ limits.outs \in Nat /\ w.params \in Nat /\ w.id \in Nat
  BY ChainConstants DEF WorkType
<1>2. w.outs + 1 \in 0..limits.outs
  BY <1>1
<1>3. b \in Item /\ b.k = w.outs + 1 /\ b.by = <<>>
  BY <1>2, BufferIs
<1> HIDE DEF b
<1>4. /\ p \in WorkType /\ SameBut(p, w) /\ p.inputIndex = w.inputIndex
         /\ Len(p.buffers) = Len(w.buffers) + 1
      /\ p.buffers[Len(w.buffers) + 1] = b
         /\ \A i \in 1..Len(w.buffers) : p.buffers[i] = w.buffers[i]
  <2>1. w.inputIndex \in Int /\ Len(w.buffers) \in Nat
    BY DEF WorkType
  <2>2. /\ p \in WorkType /\ SameBut(p, w) /\ p.inputIndex = w.inputIndex - 0
        /\ Len(p.buffers) = Len(w.buffers) + 1 /\ p.buffers[Len(p.buffers)] = b
        /\ \A i \in 1..(Len(p.buffers) - 1) : p.buffers[i] = w.buffers[i]
    BY <1>3, PushedIs
  <2> HIDE DEF p
  <2> QED BY <2>1, <2>2
<1> HIDE DEF p
<1>5. w.params <= w.id
  BY DEF AtRest, Real
<1>6. p.outs \in Nat /\ p.outs + 1 \in Nat /\ p.params = w.params /\ p.id = w.id
  BY <1>4 DEF WorkType, SameBut
<1>7. n = [p EXCEPT !.outs = p.outs + 1]
  BY <1>6
<1> HIDE DEF n
<1>8. /\ n \in WorkType /\ n.id = p.id /\ n.params = p.params /\ n.buffers = p.buffers
         /\ n.inputIndex = p.inputIndex
      /\ n.made = p.made /\ n.spoiled = p.spoiled /\ n.outs = p.outs + 1
  BY <1>4, <1>6, <1>7 DEF WorkType
<1>9. AtRest(n, C + 1) /\ On(n) /\ n.outs = w.outs + 1
  <2>1. /\ n.made = w.made /\ n.spoiled = w.spoiled /\ n.outs = w.outs + 1
        /\ n.inputIndex = w.inputIndex /\ Len(n.buffers) = Len(w.buffers) + 1
        /\ n.buffers[Len(w.buffers) + 1] = b
           /\ \A i \in 1..Len(w.buffers) : n.buffers[i] = w.buffers[i]
    BY <1>4, <1>8 DEF SameBut
  <2>2. n.id = w.id /\ n.params <= w.id
    BY <1>5, <1>6, <1>8
  <2> QED BY <1>3, <1>8, <2>2, <2>1, OneMore
<1> QED BY <1>6, <1>8, <1>9 DEF Goes, n, p, b

\* A work that the component queues.
IsNew(w, n, s, lim) ==
  /\ w \in WorkType /\ w.id = n /\ w.params = s /\ On(w) /\ Len(w.buffers) = 1
  /\ w.buffers[1].k = 0 /\ w.buffers[1].by = <<>> /\ w.buffers[1].replica = FALSE
  /\ w.inputIndex = 0 /\ w.outs = 0 /\ w.spoiled = FALSE
  /\ \A k \in 0..lim.outs : w.made[k] = <<>>

\* What QueueWork makes of an input.
LEMMA NewWorkIs ==
  ASSUME ChainTypes, NEW s \in Nat, s = 0 \/ s = works + 1, NEW csd \in BOOLEAN
  PROVE  IsNew(Chain!NewWork(works + 1, s, csd), works + 1, s, limits)
<1> DEFINE w == Chain!NewWork(works + 1, s, csd)
           none == [k \in 0..limits.outs |-> <<>>]
<1>1. works \in Nat /\ works + 1 \in Nat /\ C \in Nat /\ C >= 1 /\ limits.outs \in Nat /\ 1 <= C
  BY ChainConstants DEF ChainTypes
<1>2. Chain!Buffer(0) \in Item /\ Chain!Buffer(0).k = 0 /\ Chain!Buffer(0).by = <<>>
      /\ Chain!Buffer(0).replica = FALSE
  <2>1. 0 \in 0..limits.outs
    BY <1>1
  <2> QED BY <2>1, PlainBuffer
<1>3. none \in [0..limits.outs -> Seq(Line)]
  OBVIOUS
<1>4. <<Chain!Buffer(0)>> \in Seq(Item) /\ Len(<<Chain!Buffer(0)>>) = 1
      /\ <<Chain!Buffer(0)>>[1] = Chain!Buffer(0)
  BY <1>2
<1>5. w = [id |-> works + 1, buffers |-> <<Chain!Buffer(0)>>, inputIndex |-> 0, params |-> s, csd |-> csd,
           in |-> 0, out |-> 0, made |-> none, outs |-> 0, spoiled |-> FALSE]
  BY DEF Chain!NewWork
<1> DEFINE b0 == Chain!Buffer(0)
           bs == <<Chain!Buffer(0)>>
<1> HIDE DEF w, none, bs, b0
<1>6. /\ w.id = works + 1 /\ w.buffers = bs /\ w.inputIndex = 0 /\ w.params = s /\ w.csd = csd
         /\ w.made = none
      /\ w.outs = 0 /\ w.spoiled = FALSE
  BY <1>5 DEF bs
<1>7. w \in WorkType
  <2>1. bs \in Seq(Item)
    BY <1>4 DEF bs
  <2> QED BY <1>1, <1>3, <1>5, <2>1 DEF WorkType, bs
<1>8. Len(w.buffers) = 1 /\ w.buffers[1] = b0
  BY <1>4, <1>6 DEF bs, b0
<1>9. On(w)
  BY <1>6, <1>8 DEF On
<1>10. \A k \in 0..limits.outs : w.made[k] = <<>>
  BY <1>6 DEF none
<1> QED BY <1>2, <1>6, <1>7, <1>8, <1>9, <1>10 DEF w, b0, IsNew

\* A new work may wait at the first filter.
LEMMA NewWaits ==
  ASSUME ChainTypes, works' = works + 1, limits' = limits, place' = place, NEW w, NEW s \in Nat,
         s = 0 \/ s = works + 1, IsNew(w, works + 1, s, limits)
  PROVE  w \in Waits[1]'
<1>1. works \in Nat /\ works + 1 \in Nat /\ C \in Nat /\ C >= 1 /\ limits.outs \in Nat /\ C' = C
      /\ 1 \in 1..(NumFilters + 1)
  BY ChainConstants DEF ChainTypes, C
<1>2. /\ w.id = works + 1 /\ w.params = s /\ Len(w.buffers) = 1 /\ w.inputIndex = 0 /\ w.outs = 0
      /\ w.buffers[1].k = 0 /\ w.buffers[1].by = <<>> /\ w.buffers[1].replica = FALSE
      /\ ~w.spoiled /\ \A k \in 0..limits.outs : w.made[k] = <<>>
  BY DEF IsNew
<1>3. Real(w)'
  <2>1. w.id >= 1 /\ w.id <= works' /\ w.params <= w.id /\ w.inputIndex <= Len(w.buffers)
    BY <1>1, <1>2
  <2> QED BY <1>2, <2>1 DEF Real
<1>4. Unmade(w)'
  <2>1. \A k \in 1..limits.outs : w.made[k] = <<>>
    BY <1>1, <1>2
  <2> QED BY <2>1 DEF Unmade
<1>5. MadeBelow(w, 1)'
  <2>1. \A j : j \notin DOMAIN <<>>
    OBVIOUS
  <2>2. \A k \in 0..limits.outs : \A j \in DOMAIN w.made[k] : w.made[k][j] < 1
    BY <1>2, <2>1
  <2> QED BY <2>2 DEF MadeBelow
<1>6. Size(w, 1)' = 1
  BY <1>1 DEF Size
<1>7. ASSUME NEW i \in 1..1 PROVE Fresh(w.buffers[w.inputIndex + i], w, 1, i)'
  <2>1. w.inputIndex + i = 1 /\ w.made[0] = <<>>
    BY <1>1, <1>2
  <2>2. Kth(1, i)' = 0
    BY <1>1 DEF Kth
  <2> QED BY <1>2, <2>1, <2>2 DEF Fresh
<1>8. w.outs <= limits'.outs /\ Len(w.buffers) - w.inputIndex = 1 /\ w.inputIndex >= 0
  BY <1>1, <1>2
<1>9. AtRest(w, 1)'
  BY <1>2, <1>3, <1>4, <1>5, <1>6, <1>7, <1>8 DEF AtRest
<1>10. w \in WorkType'
  BY DEF IsNew, WorkType, Item
<1> QED BY <1>1, <1>9, <1>10 DEF Waits

\* What rests goes on to rest, and what runs to run, while works are queued.
LEMMA RestKept ==
  ASSUME ChainTypes, limits' = limits, place' = place, works' \in Nat, works' >= works
  PROVE  /\ WorkType' = WorkType /\ TaskType' = TaskType /\ JobType' = JobType
         /\ \A f \in 1..(NumFilters + 1) : \A w \in Waits[f] : w \in Waits[f]'
         /\ \A f \in Line : \A j \in Runs[f] : j \in Runs[f]'
<1>1. works \in Nat
  BY DEF ChainTypes
<1>2. WorkType' = WorkType /\ TaskType' = TaskType /\ JobType' = JobType
  BY DEF WorkType, TaskType, JobType, Item
<1>3. C' = C
  BY DEF C
<1>4. ASSUME NEW w \in WorkType, Real(w) PROVE Real(w)'
  <2>1. w.id <= works'
    <3>1. w.id \in Nat /\ w.id <= works
      BY <1>4 DEF WorkType, Real
    <3> QED BY <1>1, <3>1
  <2> QED BY <1>4, <2>1 DEF Real
<1>5. ASSUME NEW w, NEW f
      PROVE  /\ (Unmade(w)' <=> Unmade(w)) /\ (MadeBelow(w, f)' <=> MadeBelow(w, f))
             /\ (MadeBelow(w, f + 1)' <=> MadeBelow(w, f + 1))
             /\ Size(w, f)' = Size(w, f) /\ (Untouched(w, f)' <=> Untouched(w, f))
             /\ \A b, i : (Fresh(b, w, f, i)' <=> Fresh(b, w, f, i))
  BY <1>3 DEF Unmade, MadeBelow, Size, Untouched, Fresh, Kth
<1>6. ASSUME NEW f \in 1..(NumFilters + 1), NEW w \in Waits[f] PROVE w \in Waits[f]'
  <2>1. w \in WorkType /\ AtRest(w, f)
    BY <1>6 DEF Waits
  <2>2. AtRest(w, f)'
    BY <1>3, <1>4, <1>5, <2>1 DEF AtRest
  <2> QED BY <1>2, <2>1, <2>2 DEF Waits
<1>7. ASSUME NEW f \in Line, NEW j \in Runs[f] PROVE j \in Runs[f]'
  <2>1. j \in JobType /\ Working(j.work, j.todo, f) /\ j.work \in WorkType
    BY <1>7 DEF Runs, JobType
  <2>2. Working(j.work, j.todo, f)'
    BY <1>3, <1>4, <1>5, <2>1 DEF Working
  <2> QED BY <1>2, <2>1, <2>2 DEF Runs
<1> QED BY <1>2, <1>6, <1>7

\* The pools p have, of the tasks of the pools q, all but the first one of filter a, and
\* at the end of filter b also t; a and b may be none of the filters.
Less(s, u) == Len(u) = Len(s) - 1 /\ \A i \in 1..Len(u) : u[i] = s[i + 1]
More(s, u, t) == Len(u) = Len(s) + 1 /\ u[Len(u)] = t /\ \A i \in 1..Len(s) : u[i] = s[i]
Passed(q, p, a, b, t) ==
  \A g \in Line : /\ g # a /\ g # b => p[g] = q[g]
                  /\ g = a => Less(q[g], p[g])
                  /\ g = b => More(q[g], p[g], t)
ChainPools == [Line -> Seq(TaskType)]

\* Pools that stay,
LEMMA PassedNone == ASSUME NEW q PROVE Passed(q, q, 0, 0, 0)
<1>1. ~(0 \in Line)
  BY DEF Line, Chain!Filters
<1> QED BY <1>1 DEF Passed

\* a task that is taken,
LEMMA PassedPop ==
  ASSUME NEW q \in ChainPools, NEW a \in Line, q[a] # <<>>
  PROVE  [q EXCEPT ![a] = Tail(@)] \in ChainPools /\ Passed(q, [q EXCEPT ![a] = Tail(@)], a, 0, 0)
<1> DEFINE p == [q EXCEPT ![a] = Tail(@)]
<1>1. ~(0 \in Line)
  BY DEF Line, Chain!Filters
<1>2. q[a] \in Seq(TaskType)
  BY DEF ChainPools
<1>3. /\ Tail(q[a]) \in Seq(TaskType) /\ Len(Tail(q[a])) = Len(q[a]) - 1 /\ Len(q[a]) \in Nat
      /\ \A i \in 1..Len(Tail(q[a])) : Tail(q[a])[i] = q[a][i + 1]
  BY <1>2, HeadTailProperties
<1>4. p \in ChainPools
  BY <1>3 DEF ChainPools
<1>5. p[a] = Tail(q[a]) /\ \A g \in Line : g # a => p[g] = q[g]
  BY DEF ChainPools
<1> HIDE DEF p
<1>6. Less(q[a], p[a])
  BY <1>3, <1>5 DEF Less
<1> QED BY <1>1, <1>4, <1>5, <1>6 DEF Passed, p

\* one that is posted,
LEMMA PassedPush ==
  ASSUME NEW q \in ChainPools, NEW b \in Line, NEW t \in TaskType
  PROVE  [q EXCEPT ![b] = Append(@, t)] \in ChainPools
         /\ Passed(q, [q EXCEPT ![b] = Append(@, t)], 0, b, t)
<1> DEFINE p == [q EXCEPT ![b] = Append(@, t)]
<1>1. ~(0 \in Line)
  BY DEF Line, Chain!Filters
<1>2. q[b] \in Seq(TaskType) /\ Len(q[b]) \in Nat
  BY DEF ChainPools
<1>3. /\ Append(q[b], t) \in Seq(TaskType) /\ Len(Append(q[b], t)) = Len(q[b]) + 1
      /\ Append(q[b], t)[Len(q[b]) + 1] = t
      /\ \A i \in 1..Len(q[b]) : Append(q[b], t)[i] = q[b][i]
  <2>1. t \in TaskType /\ q[b] \in Seq(TaskType)
    BY <1>2
  <2> QED BY ONLY <2>1, AppendProperties
<1>4. p \in ChainPools
  BY <1>3 DEF ChainPools
<1>5. p[b] = Append(q[b], t) /\ \A g \in Line : g # b => p[g] = q[g]
  BY DEF ChainPools
<1> HIDE DEF p
<1>6. More(q[b], p[b], t)
  BY <1>3, <1>5 DEF More
<1> QED BY <1>1, <1>4, <1>5, <1>6 DEF Passed, p

\* and one that is taken while another is posted elsewhere.
LEMMA PassedOn ==
  ASSUME NEW q \in ChainPools, NEW a \in Line, NEW b \in Line, a # b, q[a] # <<>>,
         NEW t \in TaskType
  PROVE  /\ [[q EXCEPT ![a] = Tail(@)] EXCEPT ![b] = Append(@, t)] \in ChainPools
         /\ Passed(q, [[q EXCEPT ![a] = Tail(@)] EXCEPT ![b] = Append(@, t)], a, b, t)
<1> DEFINE m == [q EXCEPT ![a] = Tail(@)]
           p == [m EXCEPT ![b] = Append(@, t)]
<1>1. ~(0 \in Line)
  BY DEF Line, Chain!Filters
<1>2. m \in ChainPools /\ Passed(q, m, a, 0, 0)
  BY PassedPop
<1> HIDE DEF m
<1>3. p \in ChainPools /\ Passed(m, p, 0, b, t)
  BY <1>2, PassedPush
<1> HIDE DEF p
<1>4. /\ m[b] = q[b] /\ p[a] = m[a] /\ Less(q[a], m[a]) /\ More(m[b], p[b], t)
      /\ \A g \in Line : g # a /\ g # b => p[g] = m[g] /\ m[g] = q[g]
  BY <1>1, <1>2, <1>3 DEF Passed
<1>5. Less(q[a], p[a]) /\ More(q[b], p[b], t)
  BY <1>4
<1> QED BY <1>3, <1>4, <1>5 DEF Passed, m, p

\* Where a task of the new pools comes from, and where one of the old ones goes.
LEMMA Comes ==
  ASSUME NEW q \in ChainPools, NEW p \in ChainPools, NEW a, NEW b, NEW t, a # b \/ a = 0,
         Passed(q, p, a, b, t),
         NEW g \in Line, NEW i \in DOMAIN p[g]
  PROVE  \/ g = b /\ i = Len(p[g]) /\ p[g][i] = t
         \/ g = a /\ i + 1 \in DOMAIN q[g] /\ p[g][i] = q[g][i + 1]
         \/ g # a /\ i \in DOMAIN q[g] /\ p[g][i] = q[g][i]
<1>1. ~(0 \in Line)
  BY DEF Line, Chain!Filters
<1>2. Len(q[g]) \in Nat /\ Len(p[g]) \in Nat /\ DOMAIN p[g] = 1..Len(p[g])
      /\ DOMAIN q[g] = 1..Len(q[g])
  BY DEF ChainPools
<1>3. CASE g = b
  <2>1. Len(p[g]) = Len(q[g]) + 1 /\ p[g][Len(p[g])] = t
        /\ \A j \in 1..Len(q[g]) : p[g][j] = q[g][j]
    BY <1>3 DEF Passed, More
  <2>2. i = Len(p[g]) \/ i \in 1..Len(q[g])
    BY <1>2, <2>1
  <2> QED BY <1>1, <1>2, <1>3, <2>1, <2>2
<1>4. CASE g = a
  <2>1. Len(p[g]) = Len(q[g]) - 1 /\ \A j \in 1..Len(p[g]) : p[g][j] = q[g][j + 1]
    BY <1>4 DEF Passed, Less
  <2>2. i + 1 \in 1..Len(q[g])
    BY <1>2, <2>1
  <2> QED BY <1>2, <1>4, <2>1, <2>2
<1>5. CASE g # a /\ g # b
  BY <1>2, <1>5 DEF Passed
<1> QED BY <1>3, <1>4, <1>5

\* Where a task of the old pools goes.
LEMMA Stays ==
  ASSUME NEW q \in ChainPools, NEW p \in ChainPools, NEW a, NEW b, NEW t, a # b \/ a = 0,
         Passed(q, p, a, b, t),
         NEW g \in Line, NEW j \in DOMAIN q[g]
  PROVE  \/ g = a /\ j = 1
         \/ g = a /\ j - 1 \in DOMAIN p[g] /\ p[g][j - 1] = q[g][j]
         \/ g # a /\ j \in DOMAIN p[g] /\ p[g][j] = q[g][j]
<1>1. ~(0 \in Line)
  BY DEF Line, Chain!Filters
<1>2. Len(q[g]) \in Nat /\ Len(p[g]) \in Nat /\ DOMAIN p[g] = 1..Len(p[g])
      /\ DOMAIN q[g] = 1..Len(q[g])
  BY DEF ChainPools
<1>3. CASE g = a /\ j # 1
  <2>1. Len(p[g]) = Len(q[g]) - 1 /\ \A k \in 1..Len(p[g]) : p[g][k] = q[g][k + 1]
    BY <1>3 DEF Passed, Less
  <2>2. j - 1 \in 1..Len(p[g]) /\ (j - 1) + 1 = j
    BY <1>2, <1>3, <2>1
  <2>3. p[g][j - 1] = q[g][(j - 1) + 1]
    BY <2>1, <2>2
  <2> QED BY <1>2, <1>3, <2>2, <2>3
<1>4. CASE g = b
  <2>1. Len(p[g]) = Len(q[g]) + 1 /\ \A k \in 1..Len(q[g]) : p[g][k] = q[g][k]
    BY <1>4 DEF Passed, More
  <2> QED BY <1>1, <1>2, <1>4, <2>1
<1>5. CASE g # a /\ g # b
  BY <1>2, <1>5 DEF Passed
<1> QED BY <1>3, <1>4, <1>5

\* The new task is there.
LEMMA Lands ==
  ASSUME NEW q \in ChainPools, NEW p \in ChainPools, NEW a, NEW b \in Line, NEW t,
         Passed(q, p, a, b, t)
  PROVE  Len(p[b]) \in DOMAIN p[b] /\ p[b][Len(p[b])] = t /\ Len(p[b]) = Len(q[b]) + 1
<1>1. Len(q[b]) \in Nat /\ Len(p[b]) \in Nat /\ DOMAIN p[b] = 1..Len(p[b])
  BY DEF ChainPools
<1>2. Len(p[b]) = Len(q[b]) + 1 /\ p[b][Len(p[b])] = t
  BY DEF Passed, More
<1> QED BY <1>1, <1>2

\* A step of a thread, or the component's: a task of filter a is taken, or none is, and
\* filter b gets the task t, or none does.
Shifted(a, b, t) ==
  /\ UNCHANGED <<limits, place, caller, gone, stray, stops>>
  /\ works' \in Nat /\ works' >= works
  /\ tasks' \in ChainPools /\ Passed(tasks, tasks', a, b, t) /\ (a # b \/ a = 0)
  /\ a \in Line => tasks[a] # <<>> /\ tasks[a][1].op \in {"work", "done"} /\ job[a] = NoJob
  /\ b \in Line => t \in TaskType /\ t.op \in {"work", "done"}

\* workDone(): the work goes to the next filter or to the component.
Handed(a, f, w) ==
  \/ /\ f < NumFilters /\ Shifted(a, f + 1, [op |-> "work", work |-> w]) /\ finished' = finished
     /\ caller.step = "idle" \/ caller.at # f + 1
  \/ f = NumFilters /\ Shifted(a, 0, 0) /\ finished' = Append(finished, w)

\* A task about a work.
LEMMA TaskIs ==
  ASSUME NEW op \in {"work", "done", "stop", "sync"}, NEW w \in WorkType
  PROVE  /\ [op |-> op, work |-> w] \in TaskType
         /\ [op |-> op, work |-> w].op = op /\ [op |-> op, work |-> w].work = w
BY DEF TaskType

\* A step that leaves the pools alone.
LEMMA NothingShifted ==
  ASSUME ChainTypes, UNCHANGED <<limits, place, caller, gone, stray, stops, works, tasks>>
  PROVE  Shifted(0, 0, 0)
<1>1. tasks \in ChainPools /\ works \in Nat
  BY DEF ChainTypes, ChainPools
<1>2. ~(0 \in Line)
  BY DEF Line, Chain!Filters
<1>3. works >= works
  BY <1>1
<1> QED BY <1>1, <1>2, <1>3, PassedNone DEF Shifted

\* workDone() at the end of a loop hands the work on, ...
LEMMA Handing ==
  ASSUME ChainTypes, NEW f \in Line, NEW w \in WorkType,
         Chain!HandOn(f, w, tasks), UNCHANGED <<limits, place, caller, gone, stray, stops, works>>
  PROVE  Handed(0, f, w)
<1>1. tasks \in ChainPools /\ works \in Nat /\ works >= works
  <2>1. tasks \in ChainPools /\ works \in Nat
    BY DEF ChainTypes, ChainPools
  <2> QED BY <2>1
<1>2. ~(0 \in Line)
  BY DEF Line, Chain!Filters
<1> DEFINE t == [op |-> "work", work |-> w]
<1>3. t \in TaskType /\ t.op = "work"
  BY TaskIs
<1>4. CASE f < NumFilters
  <2>1. /\ ~(caller.step # "idle" /\ caller.at = f + 1) /\ finished' = finished
        /\ tasks' = [tasks EXCEPT ![f + 1] = Append(@, t)]
    BY <1>4 DEF Chain!HandOn, Chain!Locked, Chain!WorkTask
  <2>2. f + 1 \in Line /\ 0 # f + 1
    BY <1>4, ChainConstants
  <2> HIDE DEF t
  <2>3. tasks' \in ChainPools /\ Passed(tasks, tasks', 0, f + 1, t)
    BY <1>1, <1>3, <2>1, <2>2, PassedPush
  <2>4. Shifted(0, f + 1, t)
    BY <1>1, <1>2, <1>3, <2>2, <2>3 DEF Shifted
  <2> QED BY <1>4, <2>1, <2>4 DEF Handed, t
<1>5. CASE ~(f < NumFilters)
  <2>1. tasks' = tasks /\ finished' = Append(finished, w) /\ f = NumFilters
    BY <1>5, ChainConstants DEF Chain!HandOn
  <2> QED BY <2>1, NothingShifted DEF Handed
<1> QED BY <1>4, <1>5

\* ... and so it does with a work that a task has brought.
LEMMA HandingOn ==
  ASSUME ChainTypes, NEW f \in Line, NEW w \in WorkType, NEW op \in {"work", "done"},
         Chain!Taken(f, op),
         Chain!HandOn(f, w, Chain!Popped(f)),
         UNCHANGED <<limits, place, caller, gone, stray, stops, works>>
  PROVE  Handed(f, f, w)
<1>1. tasks \in ChainPools /\ works \in Nat /\ works >= works
  <2>1. tasks \in ChainPools /\ works \in Nat
    BY DEF ChainTypes, ChainPools
  <2> QED BY <2>1
<1>2. ~(0 \in Line)
  BY DEF Line, Chain!Filters
<1>3. tasks[f] # <<>> /\ tasks[f][1].op \in {"work", "done"} /\ job[f] = NoJob
  <2>1. tasks[f] # <<>> /\ Head(tasks[f]).op = op /\ job[f] = NoJob
    BY DEF Chain!Taken, NoJob
  <2>2. Head(tasks[f]) = tasks[f][1]
    BY <1>1, <2>1 DEF ChainPools
  <2> QED BY <2>1, <2>2
<1> DEFINE t == [op |-> "work", work |-> w]
<1>4. t \in TaskType /\ t.op = "work"
  BY TaskIs
<1>5. CASE f < NumFilters
  <2>1. /\ ~(caller.step # "idle" /\ caller.at = f + 1) /\ finished' = finished
        /\ tasks' = [[tasks EXCEPT ![f] = Tail(@)] EXCEPT ![f + 1] = Append(@, t)]
    BY <1>5 DEF Chain!HandOn, Chain!Locked, Chain!WorkTask, Chain!Popped
  <2>2. f + 1 \in Line /\ f # f + 1
    BY <1>5, ChainConstants
  <2> HIDE DEF t
  <2>3. tasks' \in ChainPools /\ Passed(tasks, tasks', f, f + 1, t)
    BY <1>1, <1>4, <1>3, <2>1, <2>2, PassedOn
  <2>4. Shifted(f, f + 1, t)
    BY <1>1, <1>2, <1>4, <1>3, <2>2, <2>3 DEF Shifted
  <2> QED BY <1>5, <2>1, <2>4 DEF Handed, t
<1>6. CASE ~(f < NumFilters)
  <2>1. tasks' = [tasks EXCEPT ![f] = Tail(@)] /\ finished' = Append(finished, w) /\ f = NumFilters
    BY <1>6, ChainConstants DEF Chain!HandOn, Chain!Popped
  <2>2. tasks' \in ChainPools /\ Passed(tasks, tasks', f, 0, 0)
    BY <1>1, <1>3, <2>1, PassedPop
  <2>3. Shifted(f, 0, 0)
    BY <1>1, <1>2, <1>3, <2>2 DEF Shifted
  <2> QED BY <2>1, <2>3 DEF Handed
<1> QED BY <1>5, <1>6

\* A task is taken, or one is posted, and no more.
LEMMA TakingOne ==
  ASSUME ChainTypes, NEW f \in Line, NEW op \in {"work", "done"}, Chain!Taken(f, op),
         tasks' = Chain!Popped(f), UNCHANGED <<limits, place, caller, gone, stray, stops, works>>
  PROVE  Shifted(f, 0, 0)
<1>1. tasks \in ChainPools /\ works \in Nat /\ works >= works
  <2>1. tasks \in ChainPools /\ works \in Nat
    BY DEF ChainTypes, ChainPools
  <2> QED BY <2>1
<1>2. ~(0 \in Line)
  BY DEF Line, Chain!Filters
<1>3. tasks[f] # <<>> /\ tasks[f][1].op \in {"work", "done"} /\ job[f] = NoJob
  <2>1. tasks[f] # <<>> /\ Head(tasks[f]).op = op /\ job[f] = NoJob
    BY DEF Chain!Taken, NoJob
  <2>2. Head(tasks[f]) = tasks[f][1]
    BY <1>1, <2>1 DEF ChainPools
  <2> QED BY <2>1, <2>2
<1>4. tasks' \in ChainPools /\ Passed(tasks, tasks', f, 0, 0)
  BY <1>1, <1>3, PassedPop DEF Chain!Popped
<1> QED BY <1>1, <1>2, <1>4, <1>3 DEF Shifted

\* A task that is posted, and no more.
LEMMA PostingOne ==
  ASSUME ChainTypes, NEW f \in Line, NEW op \in {"work", "done"}, NEW w \in WorkType,
         tasks' = [tasks EXCEPT ![f] = Append(@, Chain!WorkTask(op, w))],
         UNCHANGED <<limits, place, caller, gone, stray, stops>>,
         works' = works \/ works' = works + 1
  PROVE  Shifted(0, f, [op |-> op, work |-> w])
<1>1. tasks \in ChainPools /\ works \in Nat /\ works' \in Nat /\ works' >= works
  <2>1. tasks \in ChainPools /\ works \in Nat
    BY DEF ChainTypes, ChainPools
  <2> QED BY <2>1
<1>2. ~(0 \in Line)
  BY DEF Line, Chain!Filters
<1> DEFINE t == [op |-> op, work |-> w]
<1>3. t \in TaskType /\ t.op = op
  BY TaskIs
<1>4. tasks' = [tasks EXCEPT ![f] = Append(@, t)]
  BY DEF Chain!WorkTask
<1> HIDE DEF t
<1>5. tasks' \in ChainPools /\ Passed(tasks, tasks', 0, f, t)
  <2>1. /\ [tasks EXCEPT ![f] = Append(@, t)] \in ChainPools
        /\ Passed(tasks, [tasks EXCEPT ![f] = Append(@, t)], 0, f, t)
    BY <1>1, <1>3, PassedPush
  <2> QED BY <1>4, <2>1
<1>6. Shifted(0, f, t)
  BY <1>1, <1>2, <1>3, <1>5 DEF Shifted
<1> QED BY <1>6 DEF t

\* The works at the filters stay as they have to be.
LEMMA WaitsKept ==
  ASSUME ChainTypes, ChainWorks, NEW a, NEW b, NEW t, Shifted(a, b, t),
         b \in Line => /\ t.op = "work" => t.work \in Waits[b]'
                       /\ t.op = "done" => t.work \in Waits[C + 1]' /\ b = C,
         \A f \in Line : job'[f] = NoJob \/ job'[f] = job[f] \/ job'[f] \in Runs[f]',
         \A i \in DOMAIN infos' : infos'[i] \in Waits[C + 1]' \/ \E j \in DOMAIN infos : infos'[i] = infos[j],
         \A i \in DOMAIN finished' : \/ finished'[i] \in Waits[NumFilters + 1]'
                                     \/ \E j \in DOMAIN finished : finished'[i] = finished[j]
  PROVE  ChainWorks'
<1>1. /\ limits' = limits /\ place' = place /\ works' \in Nat /\ works' >= works /\ C' = C
      /\ tasks \in ChainPools /\ tasks' \in ChainPools
  BY DEF Shifted, C, ChainTypes, ChainPools
<1>2. /\ \A f \in 1..(NumFilters + 1) : \A w \in Waits[f] : w \in Waits[f]'
      /\ \A f \in Line : \A j \in Runs[f] : j \in Runs[f]'
  BY <1>1, RestKept
<1>3. C + 1 \in 1..(NumFilters + 1) /\ NumFilters + 1 \in 1..(NumFilters + 1)
      /\ \A f \in Line : f \in 1..(NumFilters + 1)
  BY ChainConstants
<1>4. ASSUME NEW f \in Line, NEW i \in DOMAIN tasks'[f]
      PROVE /\ tasks'[f][i].op = "work" => tasks'[f][i].work \in Waits[f]'
            /\ tasks'[f][i].op = "done" => tasks'[f][i].work \in Waits[C + 1]' /\ f = C
            /\ tasks'[f][i].op \in {"stop", "sync"} => tasks'[f][i].work.id = 0
  <2>1. \/ f = b /\ tasks'[f][i] = t
        \/ \E j \in DOMAIN tasks[f] : tasks'[f][i] = tasks[f][j]
    BY <1>1, Comes DEF Shifted
  <2>2. CASE f = b /\ tasks'[f][i] = t
    BY <2>2 DEF Shifted
  <2>3. CASE \E j \in DOMAIN tasks[f] : tasks'[f][i] = tasks[f][j]
    <3>1. PICK j \in DOMAIN tasks[f] : tasks'[f][i] = tasks[f][j]
      BY <2>3
    <3>2. /\ tasks[f][j].op = "work" => tasks[f][j].work \in Waits[f]
          /\ tasks[f][j].op = "done" => tasks[f][j].work \in Waits[C + 1] /\ f = C
          /\ tasks[f][j].op \in {"stop", "sync"} => tasks[f][j].work.id = 0
      BY DEF ChainWorks
    <3>3. tasks[f][j].work \in Waits[f] => tasks[f][j].work \in Waits[f]'
      BY <1>2, <1>3
    <3>4. tasks[f][j].work \in Waits[C + 1] => tasks[f][j].work \in Waits[C + 1]'
      BY <1>1, <1>2, <1>3
    <3> QED BY <3>1, <3>2, <3>3, <3>4
  <2> QED BY <2>1, <2>2, <2>3
<1>5. ASSUME NEW f \in Line, job'[f] # NoJob PROVE job'[f] \in Runs[f]'
  <2>1. CASE job'[f] = job[f]
    <3>1. job[f] \in Runs[f]
      BY <1>5, <2>1 DEF ChainWorks
    <3>2. job[f] \in Runs[f]'
      BY <1>2, <3>1
    <3> QED BY <2>1, <3>2
  <2> QED BY <1>5, <2>1
<1>6. ASSUME NEW i \in DOMAIN infos' PROVE infos'[i] \in Waits[C + 1]'
  <2>1. ASSUME NEW j \in DOMAIN infos PROVE infos[j] \in Waits[C + 1]'
    <3>1. infos[j] \in Waits[C + 1]
      BY DEF ChainWorks
    <3> QED BY <1>1, <1>2, <1>3, <3>1
  <2> QED BY <2>1
<1>7. ASSUME NEW i \in DOMAIN finished' PROVE finished'[i] \in Waits[NumFilters + 1]'
  BY <1>2, <1>3 DEF ChainWorks
<1>8. NoJob' = NoJob
  BY <1>1 DEF NoJob, Chain!NoJob, Chain!NewWork
<1> QED BY <1>1, <1>4, <1>5, <1>6, <1>7, <1>8 DEF ChainWorks

\* flush() and stop() find the filters as they left them.
LEMMA CallsKept ==
  ASSUME ChainTypes, ChainCalls, NEW a, NEW b, NEW t, Shifted(a, b, t),
         b \in Line => /\ t.op = "work" => caller.step = "idle" \/ caller.at # b
                       /\ t.op = "done" => b = C /\ infos # <<>>,
         \A f \in Line : job'[f] = NoJob \/ job[f] # NoJob \/ (f = a /\ tasks[a][1].op = "work"),
         infos' = <<>> \/ infos # <<>> \/ job[C] # NoJob
  PROVE  ChainCalls'
<1>1. /\ limits' = limits /\ place' = place /\ C' = C /\ caller' = caller
      /\ tasks \in ChainPools /\ tasks' \in ChainPools
  BY DEF Shifted, C, ChainTypes, ChainPools
<1>2. NoJob' = NoJob
  BY <1>1 DEF NoJob, Chain!NoJob, Chain!NewWork
<1>3. \A f \in Line : Len(tasks[f]) \in Nat /\ Len(tasks'[f]) \in Nat
                      /\ DOMAIN tasks[f] = 1..Len(tasks[f]) /\ DOMAIN tasks'[f] = 1..Len(tasks'[f])
  BY <1>1 DEF ChainPools
<1>4. \A f \in Line : Through(f)' <=> Through(f)
  BY <1>1 DEF Through
<1>5. a \in Line => 1 \in DOMAIN tasks[a]
  <2> SUFFICES ASSUME a \in Line PROVE 1 \in DOMAIN tasks[a]
    OBVIOUS
  <2>1. tasks[a] # <<>> /\ tasks[a] \in Seq(TaskType)
    BY <1>1 DEF Shifted, ChainPools
  <2> QED BY <2>1
<1>6. ASSUME NEW f \in Line, NEW i \in DOMAIN tasks'[f]
      PROVE /\ tasks'[f][i].op = "stop" => caller.step = "waiting" /\ caller.at = f /\ i = 1
            /\ tasks'[f][i].op = "sync" => caller.step = "syncing" /\ caller.at = f
               /\ i = Len(tasks'[f])
            /\ tasks'[f][i].op = "work" => caller.step = "idle" \/ caller.at # f
  <2>1. \/ f = b /\ i = Len(tasks'[f]) /\ tasks'[f][i] = t
        \/ f = a /\ i + 1 \in DOMAIN tasks[f] /\ tasks'[f][i] = tasks[f][i + 1]
        \/ f # a /\ i \in DOMAIN tasks[f] /\ tasks'[f][i] = tasks[f][i]
    BY <1>1, Comes DEF Shifted
  <2>2. CASE f = b /\ i = Len(tasks'[f]) /\ tasks'[f][i] = t
    BY <2>2 DEF Shifted
  <2>3. CASE f = a /\ i + 1 \in DOMAIN tasks[f] /\ tasks'[f][i] = tasks[f][i + 1]
    <3>1. f # b /\ Len(tasks'[f]) = Len(tasks[f]) - 1
      <4>1. f # b
        BY <2>3, ChainConstants DEF Shifted
      <4> QED BY <2>3, <4>1 DEF Shifted, Passed, Less
    <3>2. i + 1 # 1 /\ (i + 1 = Len(tasks[f]) => i = Len(tasks'[f]))
      BY <1>3, <3>1
    <3>3. /\ tasks[f][i + 1].op = "stop" => i + 1 = 1
          /\ tasks[f][i + 1].op = "sync" => caller.step = "syncing" /\ caller.at = f
             /\ i + 1 = Len(tasks[f])
          /\ tasks[f][i + 1].op = "work" => caller.step = "idle" \/ caller.at # f
      BY <2>3 DEF ChainCalls
    <3> QED BY <2>3, <3>2, <3>3
  <2>4. CASE f # a /\ i \in DOMAIN tasks[f] /\ tasks'[f][i] = tasks[f][i]
    <3>1. /\ tasks[f][i].op = "stop" => caller.step = "waiting" /\ caller.at = f /\ i = 1
          /\ tasks[f][i].op = "sync" => caller.step = "syncing" /\ caller.at = f
             /\ i = Len(tasks[f])
          /\ tasks[f][i].op = "work" => caller.step = "idle" \/ caller.at # f
      BY <2>4 DEF ChainCalls
    <3>2. caller.step = "syncing" /\ caller.at = f => f # b
      <4>1. caller.step = "syncing" /\ caller.at = f => Through(f) /\ caller.step # "idle"
        BY DEF Through
      <4>2. Through(f) /\ f = C => infos = <<>>
        BY DEF ChainCalls
      <4> QED BY <4>1, <4>2 DEF Shifted
    <3>3. f # b => tasks'[f] = tasks[f]
      BY <2>4 DEF Shifted, Passed
    <3> QED BY <2>4, <3>1, <3>2, <3>3
  <2> QED BY <2>1, <2>2, <2>3, <2>4
<1>7. ASSUME caller.step = "waiting"
      PROVE  tasks'[caller.at] # <<>> /\ Head(tasks'[caller.at]).op = "stop"
  <2> DEFINE f == caller.at
  <2>1. f \in Line /\ tasks[f] # <<>> /\ Head(tasks[f]).op = "stop"
    BY <1>7 DEF ChainCalls
  <2> HIDE DEF f
  <2>2. Head(tasks[f]) = tasks[f][1] /\ 1 \in DOMAIN tasks[f]
    BY <1>1, <2>1 DEF ChainPools
  <2>3. f # a
    BY <2>1, <2>2 DEF Shifted
  <2>4. 1 \in DOMAIN tasks'[f] /\ tasks'[f][1] = tasks[f][1]
    BY <1>1, <2>1, <2>2, <2>3, Stays DEF Shifted
  <2>5. tasks'[f] # <<>> /\ Head(tasks'[f]) = tasks'[f][1]
    <3>1. tasks'[f] \in Seq(TaskType)
      BY <1>1, <2>1 DEF ChainPools
    <3> QED BY <2>4, <3>1
  <2> QED BY <2>1, <2>2, <2>4, <2>5 DEF f
<1>8. ASSUME caller.step \in {"syncing", "synced"}
      PROVE  /\ caller.at # b
             /\ caller.step = "syncing" => tasks'[caller.at] # <<>>
                /\ tasks'[caller.at][Len(tasks'[caller.at])].op = "sync"
             /\ caller.step = "synced" => tasks'[caller.at] = <<>>
  <2> DEFINE f == caller.at
  <2>1. /\ f \in Line /\ Through(f)
        /\ caller.step = "syncing" => tasks[f] # <<>> /\ tasks[f][Len(tasks[f])].op = "sync"
        /\ caller.step = "synced" => tasks[f] = <<>>
    BY <1>8 DEF ChainCalls, Through
  <2> HIDE DEF f
  <2>2. f # b
    <3>1. f = C => infos = <<>>
      BY <2>1 DEF ChainCalls
    <3>2. caller.step # "idle"
      BY <1>8
    <3> QED BY <2>1, <3>1, <3>2 DEF Shifted, f
  <2>3. CASE f # a
    <3>1. tasks'[f] = tasks[f]
      BY <2>1, <2>2, <2>3 DEF Shifted, Passed
    <3> QED BY <2>1, <2>2, <3>1 DEF f
  <2>4. CASE f = a
    <3>1. Less(tasks[f], tasks'[f]) /\ tasks[f] # <<>> /\ tasks[f][1].op \in {"work", "done"}
      BY <2>1, <2>4 DEF Shifted, Passed
    <3>2. caller.step = "syncing"
      BY <1>8, <2>1, <3>1
    <3>3. tasks[f][Len(tasks[f])].op = "sync"
      BY <2>1, <3>2
    <3>4. Len(tasks[f]) # 1
      BY <3>1, <3>3
    <3>5. Len(tasks[f]) >= 2 /\ Len(tasks'[f]) = Len(tasks[f]) - 1
          /\ Len(tasks'[f]) + 1 = Len(tasks[f])
      <4>1. Len(tasks[f]) \in Nat /\ Len(tasks[f]) # 0 /\ Len(tasks'[f]) = Len(tasks[f]) - 1
        <5>1. tasks[f] \in Seq(TaskType)
          BY <1>1, <2>1 DEF ChainPools
        <5>2. Len(tasks'[f]) = Len(tasks[f]) - 1 /\ tasks[f] # <<>>
          BY <3>1 DEF Less
        <5> QED BY <5>1, <5>2, EmptySeq
      <4> DEFINE l == Len(tasks[f])
                 m == Len(tasks'[f])
      <4>2. l \in Nat /\ l # 0 /\ l # 1 /\ m = l - 1
        BY <3>4, <4>1
      <4> HIDE DEF l, m
      <4>3. l >= 2 /\ m = l - 1 /\ m + 1 = l
        BY <4>2
      <4> QED BY <4>3 DEF l, m
    <3>6. Len(tasks'[f]) \in 1..Len(tasks'[f]) /\ Len(tasks'[f]) >= 1
      BY <1>3, <2>1, <3>5
    <3>7. tasks'[f][Len(tasks'[f])] = tasks[f][Len(tasks'[f]) + 1]
      BY <3>1, <3>6 DEF Less
    <3>8. tasks'[f] # <<>>
      BY <3>6, EmptySeq
    <3> QED BY <2>2, <3>2, <3>3, <3>5, <3>7, <3>8 DEF f
  <2> QED BY <2>3, <2>4
<1>9. ASSUME NEW f \in Line, Through(f) PROVE job'[f] = NoJob /\ (f = C => infos' = <<>>)
  <2>1. job[f] = NoJob /\ (f = C => infos = <<>>) /\ caller.step # "idle" /\ caller.at = f
    BY <1>9 DEF ChainCalls, Through
  <2>2. ~(f = a /\ tasks[a][1].op = "work")
    BY <1>5, <2>1 DEF ChainCalls
  <2> QED BY <2>1, <2>2
<1>10. /\ caller.step = "idle" <=> caller = Chain!Idle
       /\ caller.step # "idle" => caller.at \in Line /\ caller.how # "none"
       /\ caller.step \in {"syncing", "synced"} => caller.how = "flush"
  BY DEF ChainCalls
<1>11. ~Chain!Idle = ~Chain!Idle'
  BY DEF Chain!Idle
<1> QED BY <1>1, <1>2, <1>4, <1>6, <1>7, <1>8, <1>9, <1>10, <1>11 DEF ChainCalls

\* A flush or a stop leaves nothing behind it.
LEMMA RemnantsKept ==
  ASSUME ChainTypes, ChainGone, NEW a, NEW b, NEW t, Shifted(a, b, t),
         b \in Line /\ Left(b) => Old(t.work.id),
         \A f \in Line : job'[f] = NoJob \/ job'[f] = job[f] \/ (Left(f) => Old(job'[f].work.id)),
         Left(C)
         => \A i \in DOMAIN infos' : Old(infos'[i].id) \/ \E j \in DOMAIN infos : infos'[i].id = infos[j].id
  PROVE  ChainGone'
<1>1. /\ limits' = limits /\ place' = place /\ C' = C /\ caller' = caller /\ gone' = gone
         /\ stray' = stray
      /\ stops' = stops /\ tasks \in ChainPools /\ tasks' \in ChainPools
  BY DEF Shifted, C, ChainTypes, ChainPools
<1>2. NoJob' = NoJob
  BY <1>1 DEF NoJob, Chain!NoJob, Chain!NewWork
<1>3. (\A f : Left(f)' <=> Left(f)) /\ (\A n : Old(n)' <=> Old(n))
  BY <1>1 DEF Left, Old
<1>4. ASSUME NEW f \in Line, Left(f), NEW i \in DOMAIN tasks'[f],
             tasks'[f][i].op \in {"work", "done"}
      PROVE  Old(tasks'[f][i].work.id)
  <2>1. \/ f = b /\ tasks'[f][i] = t
        \/ \E j \in DOMAIN tasks[f] : tasks'[f][i] = tasks[f][j]
    BY <1>1, Comes DEF Shifted
  <2> QED BY <1>4, <2>1 DEF ChainGone
<1>5. ASSUME NEW f \in Line, Left(f), job'[f] # NoJob PROVE Old(job'[f].work.id)
  BY <1>5 DEF ChainGone
<1>6. ASSUME Left(C), NEW i \in DOMAIN infos' PROVE Old(infos'[i].id)
  BY <1>6 DEF ChainGone
<1>7. stray # {} => stops >= 1 /\ (caller.how = "flush" => stops >= 2)
  BY DEF ChainGone
<1> QED BY <1>1, <1>2, <1>4, <1>5, <1>6, <1>7 DEF ChainGone, Left, Old

\* Works are somewhere on their way.
IsWork(t) == t.op \in {"work", "done"}
StepOf(f, t) == IF t.op = "work" THEN 4 * f ELSE 4 * f + 3

\* A work has a record at its place, ...
LEMMA Record ==
  ASSUME NEW w \in WorkType, NEW s \in Nat, NEW o \in BOOLEAN
  PROVE  \E r \in ViewType : Sees(r, s, w, o)
<1> DEFINE r == [st |-> s, id |-> w.id, params |-> w.params, on |-> o]
<1>1. w.id \in Nat /\ w.params \in Nat
  BY DEF WorkType
<1>2. r \in ViewType
  BY <1>1 DEF ViewType
<1> QED BY <1>2 DEF Sees

\* ... and its buffers are on or not.
LEMMA OnIs ==
  ASSUME NEW w \in WorkType PROVE On(w) \in BOOLEAN
BY DEF On

\* What is where, as the types say.
LEMMA Places ==
  ASSUME ChainTypes
  PROVE  /\ \A f \in Line : f \in Nat /\ f >= 1 /\ f <= NumFilters
         /\ C \in Line /\ C < NumFilters /\ NumFilters \in Nat
         /\ \A f \in Line : /\ tasks[f] \in Seq(TaskType) /\ DOMAIN tasks[f] = 1..Len(tasks[f]) /\ Len(tasks[f]) \in Nat
                            /\ job[f].work \in WorkType
         /\ \A f \in Line : \A i \in DOMAIN tasks[f] : tasks[f][i] \in TaskType
            /\ tasks[f][i].work \in WorkType
         /\ \A i \in DOMAIN infos : infos[i] \in WorkType
         /\ \A i \in DOMAIN finished : finished[i] \in WorkType
         /\ DOMAIN infos = 1..Len(infos) /\ Len(infos) \in Nat
         /\ DOMAIN finished = 1..Len(finished) /\ Len(finished) \in Nat
<1>1. /\ \A f \in Line : f \in Nat /\ f >= 1 /\ f <= NumFilters
      /\ C \in Line /\ C < NumFilters /\ NumFilters \in Nat
  BY ChainConstants
<1>2. ASSUME NEW f \in Line
      PROVE  tasks[f] \in Seq(TaskType) /\ DOMAIN tasks[f] = 1..Len(tasks[f])
             /\ Len(tasks[f]) \in Nat
  BY DEF ChainTypes
<1>3. ASSUME NEW f \in Line PROVE job[f].work \in WorkType
  <2>1. job[f] \in JobType
    BY DEF ChainTypes
  <2> QED BY <2>1 DEF JobType
<1>4. ASSUME NEW f \in Line, NEW i \in DOMAIN tasks[f]
      PROVE tasks[f][i] \in TaskType /\ tasks[f][i].work \in WorkType
  <2>1. tasks[f][i] \in TaskType
    BY <1>2
  <2> QED BY <2>1 DEF TaskType
<1>5. infos \in Seq(WorkType) /\ finished \in Seq(WorkType)
  BY DEF ChainTypes
<1> QED BY <1>1, <1>2, <1>3, <1>4, <1>5

\* What is on its way is in the view, ...
LEMMA Seen ==
  ASSUME ChainTypes
  PROVE  /\ \A f \in Line : \A i \in DOMAIN tasks[f] : IsWork(tasks[f][i]) =>
              \E r \in View : Sees(r, StepOf(f, tasks[f][i]), tasks[f][i].work, On(tasks[f][i].work))
         /\ \A f \in Line : job[f] # NoJob => \E r \in View : Sees(r, 4 * f + 1, job[f].work, TRUE)
         /\ \A i \in DOMAIN infos : \E r \in View : Sees(r, 4 * C + 2, infos[i], TRUE)
         /\ \A i \in DOMAIN finished : \E r \in View : Sees(r, 4 * NumFilters + 4, finished[i], On(finished[i]))
<1>1. ASSUME NEW f \in Line, NEW i \in DOMAIN tasks[f], IsWork(tasks[f][i])
      PROVE  \E r \in View : Sees(r, StepOf(f, tasks[f][i]), tasks[f][i].work, On(tasks[f][i].work))
  <2>1. StepOf(f, tasks[f][i]) \in Nat /\ tasks[f][i].work \in WorkType
    BY Places DEF StepOf
  <2>2. PICK r \in ViewType : Sees(r, StepOf(f, tasks[f][i]), tasks[f][i].work, On(tasks[f][i].work))
    BY <2>1, Record, OnIs
  <2>3. SeesTask(r, f, tasks[f][i])
    BY <1>1, <2>2 DEF SeesTask, IsWork, StepOf
  <2> QED BY <2>2, <2>3 DEF View, InTasks
<1>2. ASSUME NEW f \in Line, job[f] # NoJob
      PROVE \E r \in View : Sees(r, 4 * f + 1, job[f].work, TRUE)
  <2>1. 4 * f + 1 \in Nat /\ job[f].work \in WorkType
    BY Places
  <2>2. PICK r \in ViewType : Sees(r, 4 * f + 1, job[f].work, TRUE)
    BY <2>1, Record
  <2> QED BY <1>2, <2>2 DEF View, InJobs
<1>3. ASSUME NEW i \in DOMAIN infos PROVE \E r \in View : Sees(r, 4 * C + 2, infos[i], TRUE)
  <2>1. 4 * C + 2 \in Nat /\ infos[i] \in WorkType
    BY Places
  <2>2. PICK r \in ViewType : Sees(r, 4 * C + 2, infos[i], TRUE)
    BY <2>1, Record
  <2> QED BY <2>2 DEF View, InInfos
<1>4. ASSUME NEW i \in DOMAIN finished
      PROVE  \E r \in View : Sees(r, 4 * NumFilters + 4, finished[i], On(finished[i]))
  <2>1. 4 * NumFilters + 4 \in Nat /\ finished[i] \in WorkType
    BY Places
  <2>2. PICK r \in ViewType : Sees(r, 4 * NumFilters + 4, finished[i], On(finished[i]))
    BY <2>1, Record, OnIs
  <2> QED BY <2>2 DEF View, InFinished
<1> QED BY <1>1, <1>2, <1>3, <1>4

\* ... and what is in the view is on its way somewhere:
LEMMA Whence ==
  ASSUME ChainTypes, ChainWorks, NEW r \in View
  PROVE  /\ r.st \in Nat /\ r.id \in Nat /\ r.params \in Nat
         /\ \/ \E f \in Line : \E i \in DOMAIN tasks[f] :
                 tasks[f][i].op = "work" /\ Sees(r, 4 * f, tasks[f][i].work, On(tasks[f][i].work))
            \/ \E f \in Line : job[f] # NoJob /\ Sees(r, 4 * f + 1, job[f].work, TRUE)
            \/ \E i \in DOMAIN infos : Sees(r, 4 * C + 2, infos[i], TRUE)
            \/ \E i \in DOMAIN tasks[C] :
                 tasks[C][i].op = "done"
                 /\ Sees(r, 4 * C + 3, tasks[C][i].work, On(tasks[C][i].work))
            \/ \E i \in DOMAIN finished : Sees(r, 4 * NumFilters + 4, finished[i], On(finished[i]))
<1>1. r \in ViewType /\ (InTasks(r) \/ InJobs(r) \/ InInfos(r) \/ InFinished(r))
  BY DEF View
<1>2. r.st \in Nat /\ r.id \in Nat /\ r.params \in Nat
  BY <1>1 DEF ViewType
<1>3. \A f \in Line : \A i \in DOMAIN tasks[f] : tasks[f][i].op = "done" => f = C
  BY DEF ChainWorks
<1> QED BY <1>1, <1>2, <1>3 DEF InTasks, InJobs, InInfos, InFinished, SeesTask

\* No setting is newer than its work, and no work is newer than the last one.
LEMMA OwnSettings ==
  ASSUME ChainTypes, ChainWorks, NEW x \in View
  PROVE  x.params <= x.id /\ x.id <= works
<1>1. C \in Line /\ C + 1 \in 1..(NumFilters + 1) /\ NumFilters + 1 \in 1..(NumFilters + 1)
      /\ \A f \in Line : f \in 1..(NumFilters + 1)
  BY Places
<1>2. \A f \in 1..(NumFilters + 1) : \A w \in Waits[f] : w.params <= w.id /\ w.id <= works
  BY DEF Waits, AtRest, Real
<1>3. \A f \in Line : job[f] # NoJob => job[f].work.params <= job[f].work.id
      /\ job[f].work.id <= works
  BY DEF ChainWorks, Runs, Working, Real
<1>4. CASE \E f \in Line : \E i \in DOMAIN tasks[f] :
             tasks[f][i].op = "work" /\ Sees(x, 4 * f, tasks[f][i].work, On(tasks[f][i].work))
  <2>1. PICK f \in Line : \E i \in DOMAIN tasks[f] :
             tasks[f][i].op = "work" /\ Sees(x, 4 * f, tasks[f][i].work, On(tasks[f][i].work))
    BY <1>4
  <2>2. PICK i \in DOMAIN tasks[f] :
             tasks[f][i].op = "work" /\ Sees(x, 4 * f, tasks[f][i].work, On(tasks[f][i].work))
    BY <2>1
  <2>3. tasks[f][i].work \in Waits[f]
    BY <2>2 DEF ChainWorks
  <2> QED BY <1>1, <1>2, <2>2, <2>3 DEF Sees
<1>5. CASE \E f \in Line : job[f] # NoJob /\ Sees(x, 4 * f + 1, job[f].work, TRUE)
  BY <1>3, <1>5 DEF Sees
<1>6. CASE \E i \in DOMAIN infos : Sees(x, 4 * C + 2, infos[i], TRUE)
  BY <1>1, <1>2, <1>6 DEF Sees, ChainWorks
<1>7. CASE \E i \in DOMAIN tasks[C] :
             tasks[C][i].op = "done" /\ Sees(x, 4 * C + 3, tasks[C][i].work, On(tasks[C][i].work))
  <2>1. PICK i \in DOMAIN tasks[C] :
             tasks[C][i].op = "done" /\ Sees(x, 4 * C + 3, tasks[C][i].work, On(tasks[C][i].work))
    BY <1>7
  <2>2. tasks[C][i].work \in Waits[C + 1]
    BY <1>1, <2>1 DEF ChainWorks
  <2> QED BY <1>1, <1>2, <2>1, <2>2 DEF Sees
<1>8. CASE \E i \in DOMAIN finished : Sees(x, 4 * NumFilters + 4, finished[i], On(finished[i]))
  BY <1>1, <1>2, <1>8 DEF Sees, ChainWorks
<1> QED BY <1>4, <1>5, <1>6, <1>7, <1>8, Whence

\* A work that is nowhere behind the codec has no other setting than its own, or none.
LEMMA OwnSettingsOnly ==
  ASSUME ChainTypes, ChainWorks, ChainOrder, NEW x \in View, x.st <= 4 * C + 2,
         \A i \in DOMAIN infos : x.id = infos[i].id => infos[i].outs = 0
  PROVE  x.params \in {0, x.id}
<1>1. C \in Nat /\ C \in Line /\ NumFilters \in Nat /\ C < NumFilters /\ C + 1 \in 1..(NumFilters + 1)
      /\ \A f \in Line : f \in Nat /\ f \in 1..(NumFilters + 1)
  BY Places
<1>2. CASE \E f \in Line : \E i \in DOMAIN tasks[f] :
             tasks[f][i].op = "work" /\ Sees(x, 4 * f, tasks[f][i].work, On(tasks[f][i].work))
  <2>1. PICK f \in Line : \E i \in DOMAIN tasks[f] :
             tasks[f][i].op = "work" /\ Sees(x, 4 * f, tasks[f][i].work, On(tasks[f][i].work))
    BY <1>2
  <2>2. PICK i \in DOMAIN tasks[f] :
             tasks[f][i].op = "work" /\ Sees(x, 4 * f, tasks[f][i].work, On(tasks[f][i].work))
    BY <2>1
  <2>3. f <= C
    <3>1. 4 * f <= 4 * C + 2 /\ f \in Nat
      BY <1>1, <2>2 DEF Sees
    <3> QED BY <1>1, <3>1
  <2>4. tasks[f][i].work \in Waits[f]
    BY <2>2 DEF ChainWorks
  <2>5. AtRest(tasks[f][i].work, f)
    BY <1>1, <2>4 DEF Waits
  <2>6. tasks[f][i].work.outs = 0 /\ Real(tasks[f][i].work)
    BY <2>3, <2>5 DEF AtRest
  <2> QED BY <2>2, <2>6 DEF Real, Sees
<1>3. CASE \E f \in Line : job[f] # NoJob /\ Sees(x, 4 * f + 1, job[f].work, TRUE)
  <2>1. PICK f \in Line : job[f] # NoJob /\ Sees(x, 4 * f + 1, job[f].work, TRUE)
    BY <1>3
  <2>2. f <= C
    <3>1. 4 * f + 1 <= 4 * C + 2 /\ f \in Nat
      BY <1>1, <2>1 DEF Sees
    <3> QED BY <1>1, <3>1
  <2>3. Working(job[f].work, job[f].todo, f)
    BY <2>1 DEF ChainWorks, Runs
  <2>4. job[f].work.outs = 0 /\ Real(job[f].work)
    BY <2>2, <2>3 DEF Working
  <2> QED BY <2>1, <2>4 DEF Real, Sees
<1>4. CASE \E i \in DOMAIN infos : Sees(x, 4 * C + 2, infos[i], TRUE)
  <2>1. PICK i \in DOMAIN infos : Sees(x, 4 * C + 2, infos[i], TRUE)
    BY <1>4
  <2>2. infos[i].outs = 0
    BY <2>1 DEF Sees
  <2>3. infos[i] \in Waits[C + 1]
    BY DEF ChainWorks
  <2>4. Real(infos[i])
    BY <1>1, <2>3 DEF Waits, AtRest
  <2> QED BY <2>1, <2>2, <2>4 DEF Real, Sees
<1>5. x.st # 4 * C + 3 /\ x.st # 4 * NumFilters + 4
  BY <1>1
<1> QED BY <1>2, <1>3, <1>4, <1>5, Whence DEF Sees

\* The numbers to come tell nothing apart.
LEMMA AllSettled ==
  ASSUME ChainTypes, ChainWorks, ChainSettings, ~behind, NEW f \in Line
  PROVE  Agrees(View, given[f], applied[f], pending, C, f)
<1> DEFINE m == works + 1
<1>1. works \in Nat /\ m \in Nat /\ given[f] \in SUBSET (1..works)
  BY DEF ChainTypes
<1>2. m \in Cuts
  BY <1>1 DEF Cuts
<1>3. Before(View, m) = View
  <2>1. \A x \in View : x.id < m
    <3> SUFFICES ASSUME NEW x \in View PROVE x.id < m
      OBVIOUS
    <3>1. x.id \in Nat /\ x.id <= works
      BY OwnSettings, Whence
    <3> QED BY <1>1, <3>1
  <2> HIDE DEF m
  <2> QED BY <2>1 DEF Before
<1>4. Older(given[f], m) = given[f]
  <2>1. \A v \in given[f] : v < m
    BY <1>1
  <2> HIDE DEF m
  <2> QED BY <2>1 DEF Older
<1> HIDE DEF m
<1>5. Settled(View, given[f], applied[f], pending, C, f, Cuts)
  BY DEF ChainSettings
<1>6. Agrees(Before(View, m), Older(given[f], m), applied[f], pending, C, f)
  BY <1>2, <1>5 DEF Settled
<1> QED BY <1>3, <1>4, <1>6

\* A work that goes on leaves no more to tell apart than there was, ...
LEMMA CutsMoved ==
  ASSUME ChainTypes, NEW n \in Nat, NEW s0 \in Nat, NEW s \in Nat, NEW q, NEW q2, NEW o,
         First(View, n, s0, q), MovesTo(View, View', n, s, q2, o), s0 <= s,
         works' = works, place' = place,
         \A i \in DOMAIN infos' : infos'[i].outs = 0 =>
           \/ \E j \in DOMAIN infos : infos[j].outs = 0 /\ infos[j].id = infos'[i].id
           \/ s0 <= 4 * C + 1 /\ infos'[i].id = n
  PROVE  Cuts' \in SUBSET Cuts /\ Cuts \in SUBSET Nat
<1>1. C' = C /\ C \in Nat
  BY Places DEF C
<1>2. Cuts \in SUBSET Nat
  BY DEF Cuts
<1>3. PICK z \in View : z.st = s0 /\ z.id = n
  BY DEF First
<1>4. ASSUME NEW m \in Cuts' PROVE m \in Cuts
  <2>1. m \in Nat /\ (m > works \/ Unanswered(m)')
    BY <1>4 DEF Cuts
  <2>2. ASSUME NEW r \in View', r.st <= 4 * C + 1, r.id = m PROVE Unanswered(m)
    <3>1. CASE r \in View
      BY <2>2, <3>1 DEF Unanswered
    <3>2. CASE Is(r, s, n, q2, o)
      <4>1. r.st = s /\ m = n
        BY <2>2, <3>2 DEF Is
      <4>2. z.st <= 4 * C + 1
        BY <1>1, <1>3, <2>2, <4>1
      <4> QED BY <1>3, <4>1, <4>2 DEF Unanswered
    <3> QED BY <3>1, <3>2 DEF MovesTo
  <2>3. ASSUME NEW i \in DOMAIN infos', infos'[i].outs = 0, infos'[i].id = m
        PROVE  Unanswered(m)
    <3>1. CASE \E j \in DOMAIN infos : infos[j].outs = 0 /\ infos[j].id = infos'[i].id
      BY <2>3, <3>1 DEF Unanswered
    <3>2. CASE s0 <= 4 * C + 1 /\ infos'[i].id = n
      BY <1>3, <2>3, <3>2 DEF Unanswered
    <3> QED BY <2>3, <3>1, <3>2
  <2>4. Unanswered(m)' => Unanswered(m)
    <3> SUFFICES ASSUME Unanswered(m)' PROVE Unanswered(m)
      OBVIOUS
    <3>1. \/ \E r \in View' : r.st <= 4 * C + 1 /\ r.id = m
          \/ \E i \in DOMAIN infos' : infos'[i].outs = 0 /\ infos'[i].id = m
      BY <1>1 DEF Unanswered
    <3> QED BY <2>2, <2>3, <3>1
  <2> QED BY <2>1, <2>4 DEF Cuts
<1> QED BY <1>2, <1>4

\* ... and so do works that are dropped.
LEMMA CutsLeft ==
  ASSUME ChainTypes, View' \in SUBSET View, infos' = infos \/ infos' = <<>>,
         works' = works, place' = place
  PROVE  Cuts' \in SUBSET Cuts /\ Cuts \in SUBSET Nat
<1>1. C' = C
  BY DEF C
<1>2. DOMAIN <<>> = {}
  OBVIOUS
<1>3. ASSUME NEW m, Unanswered(m)' PROVE Unanswered(m)
  <2>1. \/ \E r \in View' : r.st <= 4 * C + 1 /\ r.id = m
        \/ \E i \in DOMAIN infos' : infos'[i].outs = 0 /\ infos'[i].id = m
    BY <1>1, <1>3 DEF Unanswered
  <2>2. CASE \E r \in View' : r.st <= 4 * C + 1 /\ r.id = m
    BY <2>2 DEF Unanswered
  <2>3. CASE \E i \in DOMAIN infos' : infos'[i].outs = 0 /\ infos'[i].id = m
    <3>1. infos' = infos
      BY <1>2, <2>3
    <3> QED BY <2>3, <3>1 DEF Unanswered
  <2> QED BY <2>1, <2>2, <2>3
<1> QED BY <1>3 DEF Cuts

\* The records of one step of the way.
LEMMA OfTasks ==
  ASSUME ChainTypes, ChainWorks, NEW r \in View, NEW f \in Line, r.st = 4 * f
  PROVE  \E i \in DOMAIN tasks[f] : tasks[f][i].op = "work"
         /\ Sees(r, 4 * f, tasks[f][i].work, On(tasks[f][i].work))
<1>1. C \in Nat /\ NumFilters \in Nat /\ f \in Nat /\ f <= NumFilters /\ \A g \in Line : g \in Nat
  BY Places
<1>2. /\ \A g \in Line : 4 * f = 4 * g => f = g
      /\ \A g \in Line : 4 * f # 4 * g + 1
      /\ 4 * f # 4 * C + 2 /\ 4 * f # 4 * C + 3 /\ 4 * f # 4 * NumFilters + 4
  BY <1>1
<1> QED BY <1>2, Whence DEF Sees

\* in the loop of a filter,
LEMMA OfJobs ==
  ASSUME ChainTypes, ChainWorks, NEW r \in View, NEW f \in Line, r.st = 4 * f + 1
  PROVE  job[f] # NoJob /\ Sees(r, 4 * f + 1, job[f].work, TRUE)
<1>1. C \in Nat /\ NumFilters \in Nat /\ f \in Nat /\ f <= NumFilters /\ \A g \in Line : g \in Nat
  BY Places
<1>2. /\ \A g \in Line : 4 * f + 1 = 4 * g + 1 => f = g
      /\ \A g \in Line : 4 * f + 1 # 4 * g
      /\ 4 * f + 1 # 4 * C + 2 /\ 4 * f + 1 # 4 * C + 3 /\ 4 * f + 1 # 4 * NumFilters + 4
  BY <1>1
<1>3. \E g \in Line : job[g] # NoJob /\ Sees(r, 4 * g + 1, job[g].work, TRUE)
  BY <1>2, Whence DEF Sees
<1>4. PICK g \in Line : job[g] # NoJob /\ Sees(r, 4 * g + 1, job[g].work, TRUE)
  BY <1>3
<1>5. f = g
  BY <1>2, <1>4 DEF Sees
<1> QED BY <1>4, <1>5

\* in the codec,
LEMMA OfInfos ==
  ASSUME ChainTypes, ChainWorks, NEW r \in View, r.st = 4 * C + 2
  PROVE  \E i \in DOMAIN infos : Sees(r, 4 * C + 2, infos[i], TRUE)
<1>1. C \in Nat /\ NumFilters \in Nat /\ \A g \in Line : g \in Nat
  BY Places
<1>2. /\ \A g \in Line : 4 * C + 2 # 4 * g + 1 /\ 4 * C + 2 # 4 * g
      /\ 4 * C + 2 # 4 * C + 3 /\ 4 * C + 2 # 4 * NumFilters + 4
  BY <1>1
<1>3. /\ ~\E g \in Line : \E i \in DOMAIN tasks[g] :
            tasks[g][i].op = "work" /\ Sees(r, 4 * g, tasks[g][i].work, On(tasks[g][i].work))
      /\ ~\E g \in Line : job[g] # NoJob /\ Sees(r, 4 * g + 1, job[g].work, TRUE)
      /\ ~\E i \in DOMAIN tasks[C] :
            tasks[C][i].op = "done" /\ Sees(r, 4 * C + 3, tasks[C][i].work, On(tasks[C][i].work))
      /\ ~\E i \in DOMAIN finished : Sees(r, 4 * NumFilters + 4, finished[i], On(finished[i]))
  BY <1>2 DEF Sees
<1> QED BY <1>3, Whence

\* among its answers,
LEMMA OfDone ==
  ASSUME ChainTypes, ChainWorks, NEW r \in View, r.st = 4 * C + 3
  PROVE  \E i \in DOMAIN tasks[C] : tasks[C][i].op = "done"
         /\ Sees(r, 4 * C + 3, tasks[C][i].work, On(tasks[C][i].work))
<1>1. C \in Nat /\ NumFilters \in Nat /\ \A g \in Line : g \in Nat
  BY Places
<1>2. /\ \A g \in Line : 4 * C + 3 # 4 * g + 1 /\ 4 * C + 3 # 4 * g
      /\ 4 * C + 3 # 4 * C + 2 /\ 4 * C + 3 # 4 * NumFilters + 4
  BY <1>1
<1> QED BY <1>2, Whence DEF Sees

\* or with the component.
LEMMA OfFinished ==
  ASSUME ChainTypes, ChainWorks, NEW r \in View, r.st = 4 * NumFilters + 4
  PROVE  \E i \in DOMAIN finished : Sees(r, 4 * NumFilters + 4, finished[i], On(finished[i]))
<1>1. C \in Nat /\ NumFilters \in Nat /\ C < NumFilters /\ \A g \in Line : g \in Nat
      /\ g <= NumFilters
  BY Places
<1>2. /\ \A g \in Line : 4 * NumFilters + 4 # 4 * g + 1 /\ 4 * NumFilters + 4 # 4 * g
      /\ 4 * NumFilters + 4 # 4 * C + 2 /\ 4 * NumFilters + 4 # 4 * C + 3
  BY <1>1
<1> QED BY <1>2, Whence DEF Sees

\* A work is in one place.
LEMMA Apart ==
  ASSUME ChainTypes, ChainOrder, NEW r \in View, NEW q \in View, r.st # q.st
  PROVE  r.id # q.id
<1>1. r.st \in Nat /\ q.st \in Nat /\ r.id \in Nat /\ q.id \in Nat
  BY DEF View, ViewType
<1>2. r.st < q.st \/ q.st < r.st
  BY <1>1
<1> QED BY <1>1, <1>2 DEF ChainOrder, Ordered

\* A work in a pool is nowhere else,
LEMMA TasksApart ==
  ASSUME ChainTypes, ChainWorks, ChainOrder, NEW f \in Line, NEW i \in DOMAIN tasks[f],
         IsWork(tasks[f][i])
  PROVE  /\ \A g \in Line : \A j \in DOMAIN tasks[g] :
              IsWork(tasks[g][j]) /\ tasks[g][j].work.id = tasks[f][i].work.id => g = f /\ j = i
         /\ \A g \in Line : job[g] # NoJob => job[g].work.id # tasks[f][i].work.id
         /\ \A j \in DOMAIN infos : infos[j].id # tasks[f][i].work.id
         /\ \A j \in DOMAIN finished : finished[j].id # tasks[f][i].work.id
<1>1. C \in Nat /\ NumFilters \in Nat /\ C < NumFilters /\ f \in Nat /\ f <= NumFilters
      /\ \A g \in Line : g \in Nat /\ g <= NumFilters
  BY Places
<1>2. PICK r \in View : Sees(r, StepOf(f, tasks[f][i]), tasks[f][i].work, On(tasks[f][i].work))
  BY Seen
<1>3. StepOf(f, tasks[f][i]) = 4 * f \/ (StepOf(f, tasks[f][i]) = 4 * f + 3 /\ f = C)
  BY DEF StepOf, IsWork, ChainWorks
<1>4. ASSUME NEW g \in Line, NEW j \in DOMAIN tasks[g], IsWork(tasks[g][j]),
             tasks[g][j].work.id = tasks[f][i].work.id
      PROVE  g = f /\ j = i
  <2>1. PICK q \in View : Sees(q, StepOf(g, tasks[g][j]), tasks[g][j].work, On(tasks[g][j].work))
    BY <1>4, Seen
  <2>2. r.st = q.st
    BY <1>2, <1>4, <2>1, Apart DEF Sees
  <2>3. StepOf(f, tasks[f][i]) = StepOf(g, tasks[g][j])
    BY <1>2, <2>1, <2>2 DEF Sees
  <2>4. f = g /\ tasks[f][i].op = tasks[g][j].op
    <3>1. \/ StepOf(f, tasks[f][i]) = 4 * f /\ tasks[f][i].op = "work"
          \/ StepOf(f, tasks[f][i]) = 4 * f + 3 /\ tasks[f][i].op = "done"
      BY DEF StepOf, IsWork
    <3>2. \/ StepOf(g, tasks[g][j]) = 4 * g /\ tasks[g][j].op = "work"
          \/ StepOf(g, tasks[g][j]) = 4 * g + 3 /\ tasks[g][j].op = "done"
      BY <1>4 DEF StepOf, IsWork
    <3>3. f \in Nat /\ g \in Nat
      BY <1>1
    <3> QED BY <2>3, <3>1, <3>3, <3>2
  <2>5. i < j \/ j < i \/ i = j
    BY <2>4, Places
  <2>6. tasks[f][i].work.id \in Nat
    BY Places DEF WorkType
  <2> QED BY <1>4, <2>4, <2>5, <2>6 DEF ChainOrder, IsWork
<1>5. ASSUME NEW g \in Line, job[g] # NoJob PROVE job[g].work.id # tasks[f][i].work.id
  <2>1. PICK q \in View : Sees(q, 4 * g + 1, job[g].work, TRUE)
    BY <1>5, Seen
  <2>2. 4 * g + 1 # 4 * f /\ 4 * g + 1 # 4 * f + 3
    BY <1>1
  <2> QED BY <1>2, <1>3, <2>1, <2>2, Apart DEF Sees
<1>6. ASSUME NEW j \in DOMAIN infos PROVE infos[j].id # tasks[f][i].work.id
  <2>1. PICK q \in View : Sees(q, 4 * C + 2, infos[j], TRUE)
    BY Seen
  <2>2. 4 * C + 2 # 4 * f /\ 4 * C + 2 # 4 * f + 3
    BY <1>1
  <2> QED BY <1>2, <1>3, <2>1, <2>2, Apart DEF Sees
<1>7. ASSUME NEW j \in DOMAIN finished PROVE finished[j].id # tasks[f][i].work.id
  <2>1. PICK q \in View : Sees(q, 4 * NumFilters + 4, finished[j], On(finished[j]))
    BY Seen
  <2>2. 4 * NumFilters + 4 # 4 * f /\ 4 * NumFilters + 4 # 4 * f + 3
    BY <1>1
  <2> QED BY <1>2, <1>3, <2>1, <2>2, Apart DEF Sees
<1> QED BY <1>4, <1>5, <1>6, <1>7

\* nor is one in a loop,
LEMMA JobsApart ==
  ASSUME ChainTypes, ChainWorks, ChainOrder, NEW f \in Line, job[f] # NoJob
  PROVE  /\ \A g \in Line : \A j \in DOMAIN tasks[g] : IsWork(tasks[g][j])
            => tasks[g][j].work.id # job[f].work.id
         /\ \A g \in Line : job[g] # NoJob /\ job[g].work.id = job[f].work.id => g = f
         /\ \A j \in DOMAIN infos : infos[j].id # job[f].work.id
         /\ \A j \in DOMAIN finished : finished[j].id # job[f].work.id
<1>1. C \in Nat /\ NumFilters \in Nat /\ C < NumFilters /\ f \in Nat /\ f <= NumFilters
      /\ \A g \in Line : g \in Nat /\ g <= NumFilters
  BY Places
<1>2. PICK r \in View : Sees(r, 4 * f + 1, job[f].work, TRUE)
  BY Seen
<1>3. \A g \in Line : \A j \in DOMAIN tasks[g] : IsWork(tasks[g][j])
      => tasks[g][j].work.id # job[f].work.id
  BY TasksApart
<1>4. ASSUME NEW g \in Line, job[g] # NoJob, job[g].work.id = job[f].work.id PROVE g = f
  <2>1. PICK q \in View : Sees(q, 4 * g + 1, job[g].work, TRUE)
    BY <1>4, Seen
  <2>2. r.st = q.st
    BY <1>2, <1>4, <2>1, Apart DEF Sees
  <2> QED BY <1>1, <1>2, <2>1, <2>2 DEF Sees
<1>5. ASSUME NEW j \in DOMAIN infos PROVE infos[j].id # job[f].work.id
  <2>1. PICK q \in View : Sees(q, 4 * C + 2, infos[j], TRUE)
    BY Seen
  <2>2. 4 * C + 2 # 4 * f + 1
    BY <1>1
  <2> QED BY <1>2, <2>1, <2>2, Apart DEF Sees
<1>6. ASSUME NEW j \in DOMAIN finished PROVE finished[j].id # job[f].work.id
  <2>1. PICK q \in View : Sees(q, 4 * NumFilters + 4, finished[j], On(finished[j]))
    BY Seen
  <2>2. 4 * NumFilters + 4 # 4 * f + 1
    BY <1>1
  <2> QED BY <1>2, <2>1, <2>2, Apart DEF Sees
<1> QED BY <1>3, <1>4, <1>5, <1>6

\* nor one in the codec.
LEMMA InfosApart ==
  ASSUME ChainTypes, ChainWorks, ChainOrder, NEW i \in DOMAIN infos
  PROVE  /\ \A g \in Line : \A j \in DOMAIN tasks[g] : IsWork(tasks[g][j])
            => tasks[g][j].work.id # infos[i].id
         /\ \A g \in Line : job[g] # NoJob => job[g].work.id # infos[i].id
         /\ \A j \in DOMAIN infos : infos[j].id = infos[i].id => j = i
         /\ \A j \in DOMAIN finished : finished[j].id # infos[i].id
<1>1. PICK r \in View : Sees(r, 4 * C + 2, infos[i], TRUE)
  BY Seen
<1>2. ASSUME NEW j \in DOMAIN infos, infos[j].id = infos[i].id PROVE j = i
  <2>1. infos[i].id \in Nat
    BY Places DEF WorkType
  <2>2. i < j \/ j < i \/ i = j
    BY Places
  <2> QED BY <1>2, <2>1, <2>2 DEF ChainOrder, Rising
<1>3. ASSUME NEW j \in DOMAIN finished PROVE finished[j].id # infos[i].id
  <2>1. PICK q \in View : Sees(q, 4 * NumFilters + 4, finished[j], On(finished[j]))
    BY Seen
  <2>2. 4 * NumFilters + 4 # 4 * C + 2
    BY Places
  <2> QED BY <1>1, <2>1, <2>2, Apart DEF Sees
<1> QED BY <1>2, <1>3, TasksApart, JobsApart

\* The work that a filter, or the codec, turns to is the first one that is there.
LEMMA FirstTask ==
  ASSUME ChainTypes, ChainWorks, ChainOrder, NEW f \in Line, tasks[f] # <<>>, IsWork(tasks[f][1])
  PROVE  /\ First(View, tasks[f][1].work.id, StepOf(f, tasks[f][1]), tasks[f][1].work.params)
         /\ \A x \in View : x.id = tasks[f][1].work.id => x.on = On(tasks[f][1].work)
         /\ 1 \in DOMAIN tasks[f] /\ tasks[f][1].work \in WorkType
<1> DEFINE n == tasks[f][1].work.id
           s == StepOf(f, tasks[f][1])
<1>1. tasks[f] \in Seq(TaskType) /\ DOMAIN tasks[f] = 1..Len(tasks[f]) /\ Len(tasks[f]) \in Nat
  BY Places
<1>2. 1 \in DOMAIN tasks[f]
  BY <1>1
<1>3. tasks[f][1].work \in WorkType /\ n \in Nat
  BY <1>2, Places DEF WorkType
<1>4. PICK r \in View : Sees(r, s, tasks[f][1].work, On(tasks[f][1].work))
  BY <1>2, Seen
<1>5. ASSUME NEW x \in View, x.st = s
      PROVE  \E i \in DOMAIN tasks[f] : /\ tasks[f][i].op = tasks[f][1].op
                                         /\ Sees(x, s, tasks[f][i].work, On(tasks[f][i].work))
  <2>1. CASE tasks[f][1].op = "work"
    BY <1>5, <2>1, OfTasks DEF StepOf
  <2>2. CASE tasks[f][1].op = "done"
    <3>1. f = C
      BY <1>2, <2>2 DEF ChainWorks
    <3> QED BY <1>5, <2>2, <3>1, OfDone DEF StepOf
  <2> QED BY <2>1, <2>2 DEF IsWork
<1>6. ASSUME NEW x \in View, x.st = s PROVE x.id >= n
  <2>1. PICK i \in DOMAIN tasks[f] : /\ tasks[f][i].op = tasks[f][1].op
                                     /\ Sees(x, s, tasks[f][i].work, On(tasks[f][i].work))
    BY <1>5, <1>6
  <2>2. i = 1 \/ 1 < i
    BY <1>1
  <2>3. 1 < i => n < tasks[f][i].work.id
    BY <1>2, <2>1 DEF ChainOrder, IsWork
  <2>4. tasks[f][i].work.id \in Nat
    BY <2>1, Places DEF WorkType
  <2>5. x.id = tasks[f][i].work.id
    BY <2>1 DEF Sees
  <2>6. i = 1 => x.id = n
    BY <2>5
  <2> HIDE DEF n
  <2> QED BY <1>3, <2>2, <2>3, <2>4, <2>5, <2>6
<1>7. ASSUME NEW x \in View, x.id = n
      PROVE  x.st = s /\ x.params = tasks[f][1].work.params /\ x.on = On(tasks[f][1].work)
  <2>1. x.st = s
    BY <1>4, <1>7, Apart DEF Sees
  <2>2. PICK i \in DOMAIN tasks[f] : /\ tasks[f][i].op = tasks[f][1].op
                                     /\ Sees(x, s, tasks[f][i].work, On(tasks[f][i].work))
    BY <1>5, <2>1
  <2>3. i = 1
    BY <1>2, <1>7, <2>2, TasksApart DEF Sees, IsWork
  <2> QED BY <2>1, <2>2, <2>3 DEF Sees
<1> QED BY <1>2, <1>3, <1>4, <1>6, <1>7 DEF First, Sees

\* The work in a filter's loop is the only one there.
LEMMA FirstJob ==
  ASSUME ChainTypes, ChainWorks, ChainOrder, NEW f \in Line, job[f] # NoJob
  PROVE  /\ First(View, job[f].work.id, 4 * f + 1, job[f].work.params)
         /\ \A x \in View : x.id = job[f].work.id => x.on
         /\ \A x \in View : x.st = 4 * f + 1 => x.id = job[f].work.id /\ x.on
<1>1. PICK r \in View : Sees(r, 4 * f + 1, job[f].work, TRUE)
  BY Seen
<1>2. ASSUME NEW x \in View, x.st = 4 * f + 1 PROVE Sees(x, 4 * f + 1, job[f].work, TRUE)
  BY <1>2, OfJobs
<1>3. ASSUME NEW x \in View, x.id = job[f].work.id PROVE Sees(x, 4 * f + 1, job[f].work, TRUE)
  BY <1>1, <1>2, <1>3, Apart DEF Sees
<1>4. job[f].work.id \in Nat
  BY Places DEF WorkType
<1> DEFINE n == job[f].work.id
           q == job[f].work.params
<1>5. \A x \in View : x.st = 4 * f + 1 => x.id = n /\ x.params = q /\ x.on
  BY <1>2 DEF Sees
<1>6. \A x \in View : x.id = n => x.st = 4 * f + 1 /\ x.params = q /\ x.on
  BY <1>3 DEF Sees
<1>7. r.st = 4 * f + 1 /\ r.id = n
  BY <1>1 DEF Sees
<1>8. n \in Nat
  BY <1>4
<1> HIDE DEF n, q
<1>9. First(View, n, 4 * f + 1, q)
  BY <1>5, <1>6, <1>7, <1>8 DEF First
<1> QED BY <1>5, <1>6, <1>9 DEF n, q

\* The codec's first input is the oldest one there.
LEMMA FirstInfo ==
  ASSUME ChainTypes, ChainWorks, ChainOrder, infos # <<>>
  PROVE  /\ First(View, infos[1].id, 4 * C + 2, infos[1].params)
         /\ \A x \in View : x.id = infos[1].id => x.on
         /\ 1 \in DOMAIN infos /\ infos[1] \in WorkType /\ Head(infos) = infos[1]
<1>1. DOMAIN infos = 1..Len(infos) /\ Len(infos) \in Nat
  BY Places
<1>2. 1 \in DOMAIN infos /\ Head(infos) = infos[1]
  <2>1. infos \in Seq(WorkType)
    BY DEF ChainTypes
  <2> QED BY <1>1, <2>1
<1>3. infos[1] \in WorkType /\ infos[1].id \in Nat
  BY <1>2, Places DEF WorkType
<1>4. PICK r \in View : Sees(r, 4 * C + 2, infos[1], TRUE)
  BY <1>2, Seen
<1>5. ASSUME NEW x \in View, x.st = 4 * C + 2 PROVE x.id >= infos[1].id
  <2>1. PICK i \in DOMAIN infos : Sees(x, 4 * C + 2, infos[i], TRUE)
    BY <1>5, OfInfos
  <2>2. i = 1 \/ 1 < i
    BY <1>1
  <2>3. 1 < i => infos[1].id < infos[i].id
    BY <1>2 DEF ChainOrder, Rising
  <2>4. infos[i].id \in Nat
    BY Places DEF WorkType
  <2> QED BY <1>3, <2>1, <2>2, <2>3, <2>4 DEF Sees
<1>6. ASSUME NEW x \in View, x.id = infos[1].id PROVE Sees(x, 4 * C + 2, infos[1], TRUE)
  <2>1. x.st = 4 * C + 2
    BY <1>4, <1>6, Apart DEF Sees
  <2>2. PICK i \in DOMAIN infos : Sees(x, 4 * C + 2, infos[i], TRUE)
    BY <2>1, OfInfos
  <2>3. i = 1
    BY <1>2, <1>6, <2>2, InfosApart DEF Sees
  <2> QED BY <2>2, <2>3
<1> QED BY <1>2, <1>3, <1>4, <1>5, <1>6 DEF First, Sees

\* An input that is given another number has its settings under it.
LEMMA NamedIs ==
  ASSUME ChainTypes, NEW w \in Waits[C + 1], NEW n \in 1..works, w.outs = 0
  PROVE  /\ Chain!Named(w, n) \in Waits[C + 1]
         /\ Chain!Named(w, n) \in WorkType
         /\ Chain!Named(w, n).id = n /\ Chain!Named(w, n).outs = 0
         /\ Chain!Named(w, n).params \in {0, n}
         /\ w.params # 0 => Chain!Named(w, n).params = n
<1> DEFINE u == Chain!Named(w, n)
<1>1. C + 1 \in 1..(NumFilters + 1) /\ works \in Nat /\ n \in Nat
  BY Places DEF ChainTypes
<1>2. w \in WorkType /\ AtRest(w, C + 1)
  BY <1>1 DEF Waits
<1>3. /\ u.id = n /\ u.params = (IF w.params = 0 THEN 0 ELSE n)
      /\ u.buffers = w.buffers /\ u.inputIndex = w.inputIndex /\ u.csd = w.csd /\ u.in = w.in
      /\ u.out = w.out /\ u.made = w.made /\ u.outs = w.outs /\ u.spoiled = w.spoiled
  BY <1>2 DEF Chain!Named, Chain!None, WorkType
<1>4. u \in WorkType
  BY <1>1, <1>2 DEF Chain!Named, Chain!None, WorkType
<1> HIDE DEF u
<1>5. Real(u)
  <2>1. Real(w)
    BY <1>2 DEF AtRest
  <2>2. u.id >= 1 /\ u.id <= works
    BY <1>1, <1>3
  <2>3. u.params <= u.id /\ (u.params = 0 \/ u.params = u.id)
    BY <1>1, <1>3
  <2> QED BY <1>3, <2>1, <2>2, <2>3 DEF Real
<1>6. /\ Unmade(u) <=> Unmade(w)
      /\ MadeBelow(u, C + 1) <=> MadeBelow(w, C + 1)
      /\ Size(u, C + 1) = Size(w, C + 1)
      /\ \A x, i : Fresh(x, u, C + 1, i) <=> Fresh(x, w, C + 1, i)
  BY <1>3 DEF Unmade, MadeBelow, Size, Fresh
<1>7. AtRest(u, C + 1)
  BY <1>2, <1>3, <1>5, <1>6 DEF AtRest
<1>8. u \in Waits[C + 1]
  BY <1>1, <1>4, <1>7 DEF Waits
<1>9. u.params \in {0, n} /\ (w.params # 0 => u.params = n)
  BY <1>3
<1> QED BY <1>3, <1>4, <1>8, <1>9 DEF u

\* Neighbours among the codec's inputs: what comes between them, before and behind.
LEMMA Neighbours ==
  ASSUME ChainTypes, ChainWorks, ChainOrder, NEW k \in DOMAIN infos, k + 1 \in DOMAIN infos,
         infos[k].outs = 0
  PROVE  /\ infos[k].id \in 1..works /\ infos[k + 1].id \in 1..works /\ infos[k].id < infos[k + 1].id
         /\ infos[k + 1].outs = 0
         /\ \A x \in View : ~(infos[k].id < x.id /\ x.id < infos[k + 1].id)
         /\ \A x \in View : x.st >= 4 * C + 3 => x.id < infos[k].id
         /\ \A x \in View : x.id >= infos[k].id => x.params \in {0, x.id}
         /\ pending < infos[k].id
         /\ \A g \in Line : g > C => applied[g] < infos[k].id
<1> DEFINE a == infos[k].id
           b == infos[k + 1].id
<1>1. C \in Nat /\ C + 1 \in 1..(NumFilters + 1) /\ (\A g \in Line : g \in Nat)
      /\ DOMAIN infos = 1..Len(infos) /\ Len(infos) \in Nat
      /\ (\A i \in DOMAIN infos : infos[i].id \in Nat /\ infos[i].outs \in Nat) /\ works \in Nat
  <2>1. \A i \in DOMAIN infos : infos[i] \in WorkType
    BY Places
  <2>2. \A i \in DOMAIN infos : infos[i].id \in Nat /\ infos[i].outs \in Nat
    BY <2>1 DEF WorkType
  <2>3. works \in Nat
    BY DEF ChainTypes
  <2> QED BY <2>2, <2>3, Places
<1>2. \A i \in DOMAIN infos : infos[i].id >= 1 /\ infos[i].id <= works
  BY <1>1 DEF ChainWorks, Waits, AtRest, Real
<1>3. k \in Nat /\ a \in 1..works /\ b \in 1..works
  BY <1>1, <1>2
<1>4. a < b
  BY <1>3 DEF ChainOrder, Rising
<1>5. infos[k + 1].outs = 0
  <2>1. k + 1 # 1
    BY <1>1
  <2> QED BY <1>1, <2>1 DEF ChainOrder
<1>6. PICK y \in View : Sees(y, 4 * C + 2, infos[k], TRUE)
  BY Seen
<1>7. PICK z \in View : Sees(z, 4 * C + 2, infos[k + 1], TRUE)
  BY Seen
<1>8. y.st = 4 * C + 2 /\ y.id = a /\ z.st = 4 * C + 2 /\ z.id = b
  BY <1>6, <1>7 DEF Sees
<1>9. \A x \in View : x.st \in Nat /\ x.id \in Nat
  BY Whence
<1>10. \A x \in View : x.st >= 4 * C + 3 => x.id < a
  <2> SUFFICES ASSUME NEW x \in View, x.st >= 4 * C + 3 PROVE x.id < a
    OBVIOUS
  <2>1. y.st < x.st
    BY <1>1, <1>8, <1>9
  <2> QED BY <1>3, <1>8, <1>9, <2>1 DEF ChainOrder, Ordered
<1>11. \A x \in View : x.st < 4 * C + 2 => x.id > b
  <2> SUFFICES ASSUME NEW x \in View, x.st < 4 * C + 2 PROVE x.id > b
    OBVIOUS
  <2> QED BY <1>3, <1>8, <1>9 DEF ChainOrder, Ordered
<1>12. \A x \in View : x.st = 4 * C + 2 => \E i \in DOMAIN infos : infos[i].id = x.id
  BY OfInfos DEF Sees
<1> HIDE DEF a, b
<1>13. \A i \in DOMAIN infos : /\ i < k => infos[i].id < a
                               /\ i > k + 1 => infos[i].id > b
                               /\ i = k => infos[i].id = a
                               /\ i = k + 1 => infos[i].id = b
  <2>1. \A i \in DOMAIN infos : i < k => infos[i].id < a
    BY DEF ChainOrder, Rising, a
  <2>2. \A i \in DOMAIN infos : i > k + 1 => infos[i].id > b
    <3> SUFFICES ASSUME NEW i \in DOMAIN infos, i > k + 1 PROVE infos[i].id > b
      OBVIOUS
    <3>1. k + 1 < i
      BY <1>1
    <3>2. infos[k + 1].id < infos[i].id
      BY <3>1 DEF ChainOrder, Rising
    <3> QED BY <1>1, <3>2 DEF b
  <2> QED BY <2>1, <2>2 DEF a, b
<1>14. \A i \in DOMAIN infos : ~(a < infos[i].id /\ infos[i].id < b)
  <2> SUFFICES ASSUME NEW i \in DOMAIN infos PROVE ~(a < infos[i].id /\ infos[i].id < b)
    OBVIOUS
  <2>1. i < k \/ i = k \/ i = k + 1 \/ i > k + 1
    BY <1>1, <1>3
  <2>2. infos[i].id \in Nat /\ a \in Nat /\ b \in Nat
    BY <1>1, <1>3
  <2> QED BY <1>13, <2>1, <2>2
<1>15. \A x \in View : ~(a < x.id /\ x.id < b)
  <2> SUFFICES ASSUME NEW x \in View, a < x.id, x.id < b PROVE FALSE
    OBVIOUS
  <2>1. x.st >= 4 * C + 3 \/ x.st = 4 * C + 2 \/ x.st < 4 * C + 2
    BY <1>1, <1>9
  <2>2. a \in Nat /\ b \in Nat /\ x.id \in Nat
    BY <1>3, <1>9
  <2> QED BY <1>10, <1>11, <1>12, <1>14, <2>1, <2>2
<1>16. ASSUME NEW x \in View, x.id >= a PROVE x.params \in {0, x.id}
  <2>1. x.st <= 4 * C + 2
    BY <1>1, <1>3, <1>9, <1>10, <1>16
  <2>2. ASSUME NEW i \in DOMAIN infos, x.id = infos[i].id PROVE infos[i].outs = 0
    <3>1. i >= k
      <4>1. ~(i < k)
        BY <1>1, <1>3, <1>13, <1>16, <2>2
      <4> QED BY <1>1, <1>3, <4>1
    <3>2. i = k \/ i # 1
      BY <1>1, <1>3, <3>1
    <3>3. infos[i].outs > 0 => i = 1
      BY DEF ChainOrder
    <3> QED BY <1>1, <3>2, <3>3
  <2> QED BY <2>1, <2>2, OwnSettingsOnly
<1>17. pending < a
  BY <1>1, <1>8 DEF ChainOrder
<1>18. \A g \in Line : g > C => applied[g] < a
  <2> SUFFICES ASSUME NEW g \in Line, g > C PROVE applied[g] < a
    OBVIOUS
  <2>1. y.st <= 4 * g
    BY <1>1, <1>8
  <2> QED BY <1>8, <2>1 DEF ChainOrder
<1> QED BY <1>3, <1>4, <1>5, <1>10, <1>15, <1>16, <1>17, <1>18 DEF a, b

\* A work goes on, and the others stay where they are.
Travels(a, b, t, n, s, q, o) ==
  /\ tasks' \in ChainPools /\ Passed(tasks, tasks', a, b, t) /\ (a # b \/ a = 0)
  /\ \A f \in Line : \A i \in DOMAIN tasks[f] :
       IsWork(tasks[f][i]) /\ tasks[f][i].work.id = n => f = a /\ i = 1
  /\ a \in Line => tasks[a][1].work.id = n
  /\ b \in Line => IsWork(t) /\ s = StepOf(b, t) /\ t.work.id = n /\ t.work.params = q
     /\ On(t.work) = o
  /\ \A g \in Line : job[g] # NoJob /\ job[g].work.id # n => job'[g] = job[g]
  /\ \A g \in Line : job'[g] # NoJob =>
       \/ job'[g] = job[g] /\ job[g].work.id # n
       \/ s = 4 * g + 1 /\ job'[g].work.id = n /\ job'[g].work.params = q /\ o = TRUE
  /\ \A i \in DOMAIN infos : infos[i].id # n => \E j \in DOMAIN infos' : infos'[j] = infos[i]
  /\ \A j \in DOMAIN infos' :
       \/ \E i \in DOMAIN infos : infos'[j] = infos[i] /\ infos[i].id # n
       \/ s = 4 * C + 2 /\ infos'[j].id = n /\ infos'[j].params = q /\ o = TRUE
  /\ \A i \in DOMAIN finished : finished[i].id # n
     => \E j \in DOMAIN finished' : finished'[j] = finished[i]
  /\ \A j \in DOMAIN finished' :
       \/ \E i \in DOMAIN finished : finished'[j] = finished[i] /\ finished[i].id # n
       \/ s = 4 * NumFilters + 4 /\ finished'[j].id = n /\ finished'[j].params = q
          /\ On(finished'[j]) = o
  /\ \/ b \in Line
     \/ \E g \in Line : job'[g] # NoJob /\ job'[g].work.id = n
     \/ \E j \in DOMAIN infos' : infos'[j].id = n
     \/ \E j \in DOMAIN finished' : finished'[j].id = n

\* The view behind a step, in terms of the new state.
LEMMA ViewThen ==
  ASSUME place' = place, NoJob' = NoJob
  PROVE  \A x : x \in View' <=>
           /\ x \in ViewType
           /\ \/ \E f \in Line : \E i \in DOMAIN tasks'[f] : SeesTask(x, f, tasks'[f][i])
              \/ \E f \in Line : job'[f] # NoJob /\ Sees(x, 4 * f + 1, job'[f].work, TRUE)
              \/ \E i \in DOMAIN infos' : Sees(x, 4 * C + 2, infos'[i], TRUE)
              \/ \E i \in DOMAIN finished' : Sees(x, 4 * NumFilters + 4, finished'[i], On(finished'[i]))
<1>1. C' = C
  BY DEF C
<1> QED BY <1>1 DEF View, InTasks, InJobs, InInfos, InFinished, SeesTask, Sees, On

\* When a work travels the view moves it.
LEMMA Moving ==
  ASSUME ChainTypes, place' = place, NoJob' = NoJob, NEW a, NEW b, NEW t, NEW n \in Nat,
         NEW s \in Nat, NEW q \in Nat,
         NEW o \in BOOLEAN, Travels(a, b, t, n, s, q, o)
  PROVE  MovesTo(View, View', n, s, q, o)
<1>1. tasks \in ChainPools /\ tasks' \in ChainPools /\ Passed(tasks, tasks', a, b, t)
      /\ (a # b \/ a = 0)
  BY DEF ChainTypes, ChainPools, Travels
<1>2. \A x : x \in View' <=>
          /\ x \in ViewType
          /\ \/ \E f \in Line : \E i \in DOMAIN tasks'[f] : SeesTask(x, f, tasks'[f][i])
             \/ \E f \in Line : job'[f] # NoJob /\ Sees(x, 4 * f + 1, job'[f].work, TRUE)
             \/ \E i \in DOMAIN infos' : Sees(x, 4 * C + 2, infos'[i], TRUE)
             \/ \E i \in DOMAIN finished' : Sees(x, 4 * NumFilters + 4, finished'[i], On(finished'[i]))
  BY ViewThen
<1>3. \A x : x \in View <=>
          /\ x \in ViewType
          /\ \/ \E f \in Line : \E i \in DOMAIN tasks[f] : SeesTask(x, f, tasks[f][i])
             \/ \E f \in Line : job[f] # NoJob /\ Sees(x, 4 * f + 1, job[f].work, TRUE)
             \/ \E i \in DOMAIN infos : Sees(x, 4 * C + 2, infos[i], TRUE)
             \/ \E i \in DOMAIN finished : Sees(x, 4 * NumFilters + 4, finished[i], On(finished[i]))
  BY DEF View, InTasks, InJobs, InInfos, InFinished
<1>4. ASSUME NEW x \in View' PROVE (x \in View /\ x.id # n) \/ Is(x, s, n, q, o)
  <2>1. ASSUME NEW f \in Line, NEW i \in DOMAIN tasks'[f], SeesTask(x, f, tasks'[f][i])
        PROVE  (x \in View /\ x.id # n) \/ Is(x, s, n, q, o)
    <3>1. \/ f = b /\ i = Len(tasks'[f]) /\ tasks'[f][i] = t
          \/ f = a /\ i + 1 \in DOMAIN tasks[f] /\ tasks'[f][i] = tasks[f][i + 1]
          \/ f # a /\ i \in DOMAIN tasks[f] /\ tasks'[f][i] = tasks[f][i]
      BY <1>1, Comes
    <3>2. CASE f = b /\ tasks'[f][i] = t
      BY <2>1, <3>2 DEF Travels, SeesTask, Sees, Is, StepOf, IsWork
    <3>3. ASSUME NEW j \in DOMAIN tasks[f], f # a \/ j # 1, tasks'[f][i] = tasks[f][j]
          PROVE  x \in View /\ x.id # n
      <4>1. IsWork(tasks[f][j]) /\ x.id = tasks[f][j].work.id
        BY <2>1, <3>3 DEF SeesTask, Sees, IsWork
      <4>2. x.id # n
        BY <3>3, <4>1 DEF Travels
      <4> QED BY <1>2, <1>3, <2>1, <3>3, <4>2
    <3>4. i + 1 # 1
      <4>1. tasks'[f] \in Seq(TaskType)
        BY <1>1 DEF ChainPools
      <4>2. i \in 1..Len(tasks'[f]) /\ Len(tasks'[f]) \in Nat
        BY <4>1
      <4> QED BY <4>2
    <3> QED BY <3>1, <3>2, <3>3, <3>4
  <2>2. ASSUME NEW f \in Line, job'[f] # NoJob, Sees(x, 4 * f + 1, job'[f].work, TRUE)
        PROVE  (x \in View /\ x.id # n) \/ Is(x, s, n, q, o)
    <3>1. CASE job'[f] = job[f] /\ job[f].work.id # n
      BY <1>2, <1>3, <2>2, <3>1 DEF Sees
    <3>2. CASE s = 4 * f + 1 /\ job'[f].work.id = n /\ job'[f].work.params = q /\ o = TRUE
      BY <2>2, <3>2 DEF Sees, Is
    <3> QED BY <2>2, <3>1, <3>2 DEF Travels
  <2>3. ASSUME NEW j \in DOMAIN infos', Sees(x, 4 * C + 2, infos'[j], TRUE)
        PROVE  (x \in View /\ x.id # n) \/ Is(x, s, n, q, o)
    <3>1. CASE \E i \in DOMAIN infos : infos'[j] = infos[i] /\ infos[i].id # n
      <4>1. PICK i \in DOMAIN infos : infos'[j] = infos[i] /\ infos[i].id # n
        BY <3>1
      <4>2. Sees(x, 4 * C + 2, infos[i], TRUE) /\ x.id # n
        BY <2>3, <4>1 DEF Sees
      <4> QED BY <1>2, <1>3, <4>2
    <3>2. CASE s = 4 * C + 2 /\ infos'[j].id = n /\ infos'[j].params = q /\ o = TRUE
      BY <2>3, <3>2 DEF Sees, Is
    <3> QED BY <2>3, <3>1, <3>2 DEF Travels
  <2>4. ASSUME NEW j \in DOMAIN finished',
               Sees(x, 4 * NumFilters + 4, finished'[j], On(finished'[j]))
        PROVE  (x \in View /\ x.id # n) \/ Is(x, s, n, q, o)
    <3>1. CASE \E i \in DOMAIN finished : finished'[j] = finished[i] /\ finished[i].id # n
      <4>1. PICK i \in DOMAIN finished : finished'[j] = finished[i] /\ finished[i].id # n
        BY <3>1
      <4>2. Sees(x, 4 * NumFilters + 4, finished[i], On(finished[i])) /\ x.id # n
        BY <2>4, <4>1 DEF Sees
      <4> QED BY <1>2, <1>3, <4>2
    <3>2. CASE s = 4 * NumFilters + 4 /\ finished'[j].id = n /\ finished'[j].params = q
          /\ On(finished'[j]) = o
      BY <2>4, <3>2 DEF Sees, Is
    <3> QED BY <2>4, <3>1, <3>2 DEF Travels
  <2> QED BY <1>2, <2>1, <2>2, <2>3, <2>4
<1>5. ASSUME NEW x \in View, x.id # n PROVE x \in View'
  <2>1. ASSUME NEW f \in Line, NEW i \in DOMAIN tasks[f], SeesTask(x, f, tasks[f][i])
        PROVE x \in View'
    <3>1. \/ f = a /\ i = 1
          \/ f = a /\ i - 1 \in DOMAIN tasks'[f] /\ tasks'[f][i - 1] = tasks[f][i]
          \/ f # a /\ i \in DOMAIN tasks'[f] /\ tasks'[f][i] = tasks[f][i]
      BY <1>1, Stays
    <3>2. ~(f = a /\ i = 1)
      BY <1>5, <2>1 DEF Travels, SeesTask, Sees
    <3>3. \E j \in DOMAIN tasks'[f] : tasks'[f][j] = tasks[f][i]
      BY <3>1, <3>2
    <3> QED BY <1>2, <1>3, <2>1, <3>3
  <2>2. ASSUME NEW f \in Line, job[f] # NoJob, Sees(x, 4 * f + 1, job[f].work, TRUE)
        PROVE x \in View'
    <3>1. job'[f] = job[f]
      BY <1>5, <2>2 DEF Travels, Sees
    <3> QED BY <1>2, <1>3, <2>2, <3>1
  <2>3. ASSUME NEW i \in DOMAIN infos, Sees(x, 4 * C + 2, infos[i], TRUE) PROVE x \in View'
    <3>1. PICK j \in DOMAIN infos' : infos'[j] = infos[i]
      BY <1>5, <2>3 DEF Travels, Sees
    <3> QED BY <1>2, <1>3, <2>3, <3>1
  <2>4. ASSUME NEW i \in DOMAIN finished, Sees(x, 4 * NumFilters + 4, finished[i], On(finished[i]))
        PROVE x \in View'
    <3>1. PICK j \in DOMAIN finished' : finished'[j] = finished[i]
      BY <1>5, <2>4 DEF Travels, Sees
    <3> QED BY <1>2, <1>3, <2>4, <3>1
  <2> QED BY <1>3, <2>1, <2>2, <2>3, <2>4
<1>6. \E x \in View' : Is(x, s, n, q, o)
  <2> DEFINE x == [st |-> s, id |-> n, params |-> q, on |-> o]
  <2>1. x \in ViewType /\ Is(x, s, n, q, o)
    BY DEF ViewType, Is
  <2>2. x.st = s /\ x.id = n /\ x.params = q /\ x.on = o
    OBVIOUS
  <2> HIDE DEF x
  <2>3. CASE b \in Line
    <3>1. Len(tasks'[b]) \in DOMAIN tasks'[b] /\ tasks'[b][Len(tasks'[b])] = t
      BY <1>1, <2>3, Lands
    <3>2. SeesTask(x, b, t)
      BY <2>2, <2>3 DEF Travels, SeesTask, Sees, StepOf, IsWork
    <3>3. \E i \in DOMAIN tasks'[b] : SeesTask(x, b, tasks'[b][i])
      BY <3>1, <3>2
    <3> QED BY <1>2, <2>1, <2>3, <3>3
  <2>4. CASE \E g \in Line : job'[g] # NoJob /\ job'[g].work.id = n
    <3>1. PICK g \in Line : job'[g] # NoJob /\ job'[g].work.id = n
      BY <2>4
    <3>2. Sees(x, 4 * g + 1, job'[g].work, TRUE)
      BY <2>2, <3>1 DEF Travels, Sees
    <3> QED BY <1>2, <2>1, <3>1, <3>2
  <2>5. CASE \E j \in DOMAIN infos' : infos'[j].id = n
    <3>1. PICK j \in DOMAIN infos' : infos'[j].id = n
      BY <2>5
    <3>2. Sees(x, 4 * C + 2, infos'[j], TRUE)
      BY <2>2, <3>1 DEF Travels, Sees
    <3> QED BY <1>2, <2>1, <3>2
  <2>6. CASE \E j \in DOMAIN finished' : finished'[j].id = n
    <3>1. PICK j \in DOMAIN finished' : finished'[j].id = n
      BY <2>6
    <3>2. Sees(x, 4 * NumFilters + 4, finished'[j], On(finished'[j]))
      BY <2>2, <3>1 DEF Travels, Sees
    <3> QED BY <1>2, <2>1, <3>2
  <2> QED BY <2>3, <2>4, <2>5, <2>6 DEF Travels
<1> QED BY <1>4, <1>5, <1>6 DEF MovesTo

\* A work that goes on overtakes none, and none overtakes it.
LEMMA OrderKept ==
  ASSUME ChainTypes, ChainWorks, ChainOrder, place' = place, NoJob' = NoJob,
         NEW a, NEW b, NEW t, NEW n \in Nat, NEW s \in Nat, NEW q \in Nat, NEW o \in BOOLEAN,
         Travels(a, b, t, n, s, q, o),
         NEW s0 \in Nat, NEW q0, First(View, n, s0, q0), s0 <= s, b \in Line => s0 < s,
         \A x \in View : ~(s0 < x.st /\ x.st < s),
         pending' \in Nat,
         pending' = pending \/ pending' = 0 \/ (pending' <= n /\ s0 = 4 * C + 2 /\ s = 4 * C + 3),
         applied' \in [Line -> Nat],
         \A g \in Line : applied'[g] = applied[g] \/ (s0 = 4 * g + 1 /\ applied'[g] <= n),
         Rising(infos'), Rising(finished'), \A i \in DOMAIN infos' : infos'[i].outs > 0 => i = 1
         /\ pending' = 0
  PROVE  ChainOrder' /\ MovesTo(View, View', n, s, q, o)
<1>1. C' = C /\ C \in Nat /\ pending \in Nat /\ applied \in [Line -> Nat]
      /\ \A f \in Line : f \in Nat
  BY Places DEF C, ChainTypes
<1>2. MovesTo(View, View', n, s, q, o)
  BY Moving
<1>3. View \in SUBSET ViewType /\ View' \in SUBSET ViewType /\ Ordered(View)
  BY <1>2 DEF View, ChainOrder
<1>4. /\ Ordered(View')
      /\ \A x \in View : x.st < s /\ x.id # n => x.id > n
      /\ \A x \in View : x.st > s0 => x.id < n
  BY <1>2, <1>3, MoveOrder
<1>5. PICK z \in View : z.st = s0 /\ z.id = n
  BY DEF First
<1>6. tasks \in ChainPools /\ tasks' \in ChainPools /\ Passed(tasks, tasks', a, b, t)
      /\ (a # b \/ a = 0)
  BY DEF ChainTypes, ChainPools, Travels
<1>7. ASSUME NEW f \in Line, NEW i \in DOMAIN tasks'[f], NEW j \in DOMAIN tasks'[f], i < j,
             tasks'[f][i].op = tasks'[f][j].op, tasks'[f][i].op \in {"work", "done"}
      PROVE  tasks'[f][i].work.id < tasks'[f][j].work.id
  <2>1. Len(tasks'[f]) \in Nat /\ DOMAIN tasks'[f] = 1..Len(tasks'[f])
    <3>1. tasks'[f] \in Seq(TaskType)
      BY <1>6 DEF ChainPools
    <3> QED BY <3>1
  <2>2. ASSUME NEW k \in DOMAIN tasks'[f]
        PROVE  \/ f = b /\ k = Len(tasks'[f]) /\ tasks'[f][k] = t
               \/ f = a /\ k + 1 \in DOMAIN tasks[f] /\ tasks'[f][k] = tasks[f][k + 1]
               \/ f # a /\ k \in DOMAIN tasks[f] /\ tasks'[f][k] = tasks[f][k]
    BY <1>6, Comes
  <2>3. ~(i = Len(tasks'[f]))
    BY <1>7, <2>1
  <2>4. CASE f = b /\ j = Len(tasks'[f]) /\ tasks'[f][j] = t
    <3>1. f # a
      BY <1>1, <1>6, <2>4, ChainConstants
    <3>2. i \in DOMAIN tasks[f] /\ tasks'[f][i] = tasks[f][i] /\ IsWork(tasks[f][i])
      BY <1>7, <2>2, <2>3, <3>1 DEF IsWork
    <3>3. PICK x \in View : Sees(x, StepOf(f, tasks[f][i]), tasks[f][i].work, On(tasks[f][i].work))
      BY <3>2, Seen
    <3>4. x.st = s /\ t.work.id = n
      BY <1>7, <2>4, <3>2, <3>3 DEF Travels, Sees, StepOf
    <3>5. x.id < n
      BY <1>4, <2>4, <3>4
    <3> QED BY <2>4, <3>2, <3>3, <3>4, <3>5 DEF Sees
  <2>5. CASE ~(f = b /\ j = Len(tasks'[f]) /\ tasks'[f][j] = t)
    <3>1. CASE f = a
      <4>1. /\ i + 1 \in DOMAIN tasks[f] /\ tasks'[f][i] = tasks[f][i + 1]
            /\ j + 1 \in DOMAIN tasks[f] /\ tasks'[f][j] = tasks[f][j + 1]
        BY <2>2, <2>3, <2>5, <3>1
      <4>2. i + 1 < j + 1
        BY <1>7, <2>1
      <4> QED BY <1>7, <4>1, <4>2 DEF ChainOrder
    <3>2. CASE f # a
      <4>1. /\ i \in DOMAIN tasks[f] /\ tasks'[f][i] = tasks[f][i]
            /\ j \in DOMAIN tasks[f] /\ tasks'[f][j] = tasks[f][j]
        BY <2>2, <2>3, <2>5, <3>2
      <4> QED BY <1>7, <4>1 DEF ChainOrder
    <3> QED BY <3>1, <3>2
  <2> QED BY <2>4, <2>5
<1>8. \A x \in View : x.st \in Nat /\ x.id \in Nat
  BY <1>3 DEF ViewType
<1>9. ASSUME NEW x \in View', x.st <= 4 * C + 2 PROVE pending' < x.id
  <2>1. CASE Is(x, s, n, q, o)
    <3>1. s <= 4 * C + 2 /\ s0 <= 4 * C + 2 /\ s # 4 * C + 3
      BY <1>1, <1>9, <2>1 DEF Is
    <3>2. pending < n
      BY <1>5, <3>1 DEF ChainOrder
    <3> QED BY <1>1, <2>1, <3>1, <3>2 DEF Is
  <2>2. CASE x \in View /\ x.id # n
    <3>1. pending < x.id
      BY <1>9, <2>2 DEF ChainOrder
    <3>2. s = 4 * C + 3 => x.id > n
      BY <1>1, <1>4, <1>8, <1>9, <2>2
    <3> QED BY <1>1, <1>8, <2>2, <3>1, <3>2
  <2> QED BY <1>2, <2>1, <2>2 DEF MovesTo
<1>10. ASSUME NEW f \in Line, NEW x \in View'
       PROVE  (x.st <= 4 * f => applied'[f] < x.id) /\ (x.st = 4 * f + 1 => applied'[f] <= x.id)
  <2>1. applied[f] \in Nat /\ applied'[f] \in Nat /\ f \in Nat
    BY <1>1
  <2>2. CASE Is(x, s, n, q, o)
    <3>1. CASE applied'[f] = applied[f]
      <4>1. x.st = s /\ x.id = n
        BY <2>2 DEF Is
      <4>2. s <= 4 * f => applied[f] < n
        BY <1>5, <2>1 DEF ChainOrder
      <4>3. s = 4 * f + 1 => applied[f] <= n
        <5>1. s = 4 * f + 1 => s0 <= 4 * f \/ s0 = 4 * f + 1
          BY <2>1
        <5>2. s0 <= 4 * f => applied[f] < n
          BY <1>5 DEF ChainOrder
        <5>3. s0 = 4 * f + 1 => applied[f] <= n
          BY <1>5 DEF ChainOrder
        <5> QED BY <2>1, <5>1, <5>2, <5>3
      <4> QED BY <3>1, <4>1, <4>2, <4>3
    <3>2. CASE s0 = 4 * f + 1 /\ applied'[f] <= n
      BY <2>1, <2>2, <3>2 DEF Is
    <3> QED BY <3>1, <3>2
  <2>3. CASE x \in View /\ x.id # n
    <3>1. (x.st <= 4 * f => applied[f] < x.id) /\ (x.st = 4 * f + 1 => applied[f] <= x.id)
      BY <2>3 DEF ChainOrder
    <3>2. CASE s0 = 4 * f + 1 /\ applied'[f] <= n
      <4>1. x.st <= 4 * f => x.id > n
        BY <1>5, <1>8, <2>1, <2>3, <3>2 DEF ChainOrder, Ordered
      <4>2. x.st = 4 * f + 1 => x.id >= n
        BY <2>3, <3>2 DEF First
      <4> QED BY <1>8, <2>1, <2>3, <3>2, <4>1, <4>2
    <3> QED BY <3>1, <3>2
  <2> QED BY <1>2, <2>2, <2>3 DEF MovesTo
<1>11. Rising(infos)' /\ Rising(finished)'
  BY DEF Rising
<1> QED BY <1>1, <1>2, <1>4, <1>7, <1>9, <1>10, <1>11 DEF ChainOrder

\* There is nobody between a filter's task and the next filter, but at the codec.
LEMMA NobodyBetween ==
  ASSUME ChainTypes, ChainWorks, NEW f \in Line, NEW x \in View, 4 * f < x.st, x.st < 4 * f + 4
  PROVE  (x.st = 4 * f + 1 /\ job[f] # NoJob) \/ f = C
<1>1. C \in Nat /\ NumFilters \in Nat /\ C < NumFilters /\ f \in Nat /\ f <= NumFilters
      /\ \A g \in Line : g \in Nat /\ g <= NumFilters
  BY Places
<1>2. \A g \in Line : x.st # 4 * g
  BY <1>1, Whence
<1>3. x.st # 4 * NumFilters + 4
  BY <1>1, Whence
<1>4. (\E g \in Line : job[g] # NoJob /\ x.st = 4 * g + 1) \/ x.st = 4 * C + 2 \/ x.st = 4 * C + 3
  BY <1>2, <1>3, Whence DEF Sees
<1>5. CASE x.st = 4 * C + 2 \/ x.st = 4 * C + 3
  BY <1>1, <1>5
<1>6. CASE \E g \in Line : job[g] # NoJob /\ x.st = 4 * g + 1
  <2>1. PICK g \in Line : job[g] # NoJob /\ x.st = 4 * g + 1
    BY <1>6
  <2>2. g = f
    BY <1>1, <2>1
  <2> QED BY <2>1, <2>2
<1> QED BY <1>4, <1>5, <1>6

\* The codec's inputs come one by one.
LEMMA RisingAppend ==
  ASSUME NEW r \in Seq(WorkType), NEW w \in WorkType, Rising(r), \A i \in DOMAIN r : r[i].id < w.id
  PROVE  /\ Append(r, w) \in Seq(WorkType) /\ Rising(Append(r, w))
         /\ \A i \in DOMAIN r : i \in DOMAIN Append(r, w) /\ Append(r, w)[i] = r[i]
         /\ \A j \in DOMAIN Append(r, w) : (j \in DOMAIN r /\ Append(r, w)[j] = r[j]) \/ (j = Len(r) + 1 /\ Append(r, w)[j] = w)
         /\ Len(r) + 1 \in DOMAIN Append(r, w) /\ Append(r, w)[Len(r) + 1] = w
<1> DEFINE u == Append(r, w)
<1>1. /\ u \in Seq(WorkType) /\ Len(u) = Len(r) + 1 /\ u[Len(r) + 1] = w
         /\ \A i \in 1..Len(r) : u[i] = r[i]
  BY ONLY r \in Seq(WorkType), w \in WorkType, AppendProperties
<1>2. Len(r) \in Nat /\ DOMAIN r = 1..Len(r) /\ DOMAIN u = 1..(Len(r) + 1)
  BY <1>1
<1> HIDE DEF u
<1>3. \A j \in DOMAIN u : (j \in DOMAIN r /\ u[j] = r[j]) \/ (j = Len(r) + 1 /\ u[j] = w)
  BY <1>1, <1>2
<1>4. \A i \in DOMAIN r : i \in DOMAIN u /\ u[i] = r[i]
  BY <1>1, <1>2
<1>5. Rising(u)
  <2> SUFFICES ASSUME NEW i \in DOMAIN u, NEW j \in DOMAIN u, i < j PROVE u[i].id < u[j].id
    BY DEF Rising
  <2>1. i \in DOMAIN r /\ u[i] = r[i]
    BY <1>2, <1>3
  <2> QED BY <1>3, <2>1 DEF Rising
<1>6. Len(r) + 1 \in DOMAIN u
  BY <1>2
<1> QED BY <1>1, <1>3, <1>4, <1>5, <1>6 DEF u

\* Taking the first of a rising sequence leaves a rising one,
LEMMA RisingTail ==
  ASSUME NEW r \in Seq(WorkType), r # <<>>, Rising(r)
  PROVE  /\ Tail(r) \in Seq(WorkType) /\ Rising(Tail(r))
         /\ \A i \in DOMAIN r : i = 1 \/ (i - 1 \in DOMAIN Tail(r) /\ Tail(r)[i - 1] = r[i])
         /\ \A j \in DOMAIN Tail(r) : j + 1 \in DOMAIN r /\ Tail(r)[j] = r[j + 1] /\ j + 1 # 1
<1> DEFINE u == Tail(r)
<1>1. /\ u \in Seq(WorkType) /\ Len(u) = Len(r) - 1 /\ \A i \in 1..Len(u) : u[i] = r[i + 1]
  BY HeadTailProperties
<1>2. Len(r) \in Nat /\ Len(u) \in Nat /\ DOMAIN r = 1..Len(r) /\ DOMAIN u = 1..Len(u)
  BY <1>1
<1> HIDE DEF u
<1>3. \A j \in DOMAIN u : j + 1 \in DOMAIN r /\ u[j] = r[j + 1] /\ j + 1 # 1
  BY <1>1, <1>2
<1>4. ASSUME NEW i \in DOMAIN r, i # 1 PROVE i - 1 \in DOMAIN u /\ u[i - 1] = r[i]
  <2>1. i - 1 \in 1..Len(u) /\ (i - 1) + 1 = i
    BY <1>1, <1>2, <1>4
  <2>2. u[i - 1] = r[(i - 1) + 1]
    BY <1>1, <2>1
  <2> QED BY <1>2, <2>1, <2>2
<1>5. Rising(u)
  <2> SUFFICES ASSUME NEW i \in DOMAIN u, NEW j \in DOMAIN u, i < j PROVE u[i].id < u[j].id
    BY DEF Rising
  <2>1. i + 1 < j + 1
    BY <1>2
  <2> QED BY <1>3, <2>1 DEF Rising
<1> QED BY <1>1, <1>3, <1>4, <1>5 DEF u

\* and so does giving the first one another content.
LEMMA RisingReplaced ==
  ASSUME NEW r \in Seq(WorkType), r # <<>>, Rising(r), NEW w \in WorkType, w.id = r[1].id
  PROVE  /\ <<w>> \o Tail(r) \in Seq(WorkType) /\ Rising(<<w>> \o Tail(r))
         /\ DOMAIN (<<w>> \o Tail(r)) = DOMAIN r /\ 1 \in DOMAIN r /\ (<<w>> \o Tail(r))[1] = w
         /\ \A i \in DOMAIN r : i # 1 => (<<w>> \o Tail(r))[i] = r[i]
<1> DEFINE u == Tail(r)
           v == <<w>> \o u
<1>1. /\ u \in Seq(WorkType) /\ Len(u) = Len(r) - 1 /\ \A i \in 1..Len(u) : u[i] = r[i + 1]
  BY HeadTailProperties
<1>2. Len(r) \in Nat /\ Len(u) \in Nat /\ DOMAIN r = 1..Len(r) /\ DOMAIN u = 1..Len(u) /\ Len(r) # 0
  BY <1>1, EmptySeq
<1>3. <<w>> \in Seq(WorkType) /\ Len(<<w>>) = 1 /\ <<w>>[1] = w
  OBVIOUS
<1> HIDE DEF u
<1>4. /\ v \in Seq(WorkType) /\ Len(v) = 1 + Len(u)
      /\ \A i \in 1..(1 + Len(u)) : v[i] = IF i <= 1 THEN <<w>>[i] ELSE u[i - 1]
  BY <1>1, <1>3
<1> HIDE DEF v
<1>5. DOMAIN v = DOMAIN r /\ 1 \in DOMAIN r
  <2>1. DOMAIN v = 1..Len(v)
    BY <1>4
  <2> DEFINE l == Len(r)
             m == Len(u)
  <2>2. l \in Nat /\ l # 0 /\ m = l - 1 /\ Len(v) = 1 + m
    BY <1>1, <1>2, <1>4
  <2> HIDE DEF l, m
  <2>3. Len(v) = l /\ 1 \in 1..l
    BY <2>2
  <2> QED BY <1>2, <2>1, <2>3 DEF l
<1>6. v[1] = w
  BY <1>2, <1>3, <1>4
<1>7. ASSUME NEW i \in DOMAIN r, i # 1 PROVE v[i] = r[i]
  <2>1. i \in 1..(1 + Len(u)) /\ ~(i <= 1) /\ i - 1 \in 1..Len(u) /\ (i - 1) + 1 = i
    BY <1>1, <1>2, <1>7
  <2>2. v[i] = u[i - 1] /\ u[i - 1] = r[(i - 1) + 1]
    BY <1>1, <1>4, <2>1
  <2> QED BY <2>1, <2>2
<1>8. Rising(v)
  <2> SUFFICES ASSUME NEW i \in DOMAIN v, NEW j \in DOMAIN v, i < j PROVE v[i].id < v[j].id
    BY DEF Rising
  <2>1. i \in DOMAIN r /\ j \in DOMAIN r /\ j # 1 /\ v[j] = r[j] /\ v[i].id = r[i].id
    BY <1>2, <1>5, <1>6, <1>7
  <2> QED BY <2>1 DEF Rising
<1> QED BY <1>4, <1>5, <1>6, <1>7, <1>8 DEF u, v

\* workDone(): the work comes from the filter's pool or from its loop.
From(a, f, w) ==
  \/ a = f /\ tasks[f] # <<>> /\ IsWork(tasks[f][1]) /\ w.id = tasks[f][1].work.id
     /\ \A g \in Line : job'[g] = job[g]
  \/ a = 0 /\ job[f] # NoJob /\ w.id = job[f].work.id
     /\ \A g \in Line : job'[g] = IF g = f THEN NoJob ELSE job[g]

\* A work that is handed on finds the next filter as it has to be.
LEMMA HandedKept ==
  ASSUME ChainTypes, ChainWorks, ChainCalls, ChainGone, NEW a, NEW f \in Line, NEW w \in WorkType,
         Handed(a, f, w),
         w \in Waits[f + 1], From(a, f, w), infos' = infos
  PROVE  /\ ChainWorks' /\ ChainCalls' /\ ChainGone'
         /\ tasks' \in [Line -> Seq(TaskType)] /\ finished' \in Seq(WorkType)
<1>1. /\ C \in Line /\ C < NumFilters /\ NumFilters \in Nat /\ f \in Nat /\ f <= NumFilters
         /\ f >= 1
      /\ f < NumFilters => f + 1 \in Line
      /\ ~(0 \in Line)
  BY Places, ChainConstants DEF Line, Chain!Filters
<1> DEFINE t == [op |-> "work", work |-> w]
<1>2. t \in TaskType /\ t.op = "work" /\ t.work = w
  BY TaskIs
<1> HIDE DEF t
<1>3. \/ f < NumFilters /\ Shifted(a, f + 1, t) /\ finished' = finished
         /\ (caller.step = "idle" \/ caller.at # f + 1)
      \/ f = NumFilters /\ Shifted(a, 0, 0) /\ finished' = Append(finished, w)
  BY DEF Handed, t
<1>4. limits' = limits /\ place' = place /\ works' \in Nat /\ works' >= works /\ caller' = caller
  BY <1>3 DEF Shifted
<1>5. w \in Waits[f + 1]'
  <2>1. f + 1 \in 1..(NumFilters + 1)
    BY <1>1
  <2> QED BY <1>4, <2>1, RestKept
<1>6. \A g \in Line : job'[g] = NoJob \/ job'[g] = job[g]
  BY DEF From
<1>7. Old(w.id) \/ ~Left(f)
  <2>1. CASE tasks[f] # <<>> /\ IsWork(tasks[f][1]) /\ w.id = tasks[f][1].work.id
    <3>1. 1 \in DOMAIN tasks[f]
      <4>1. tasks[f] \in Seq(TaskType) /\ tasks[f] # <<>>
        BY <2>1, Places
      <4> QED BY <4>1
    <3> QED BY <2>1, <3>1 DEF ChainGone, IsWork
  <2>2. CASE job[f] # NoJob /\ w.id = job[f].work.id
    BY <2>2 DEF ChainGone
  <2> QED BY <2>1, <2>2 DEF From
<1>8. Left(f + 1) => Left(f)
  <2>1. caller \in CallerType
    BY DEF ChainTypes
  <2>2. caller.at \in Nat
    BY <1>1, <2>1 DEF CallerType
  <2> QED BY <1>1, <2>2 DEF Left
<1>9. a = 0 \/ (a = f /\ IsWork(tasks[f][1]))
  BY DEF From
<1>10. infos = infos' /\ \A i \in DOMAIN infos' : \E j \in DOMAIN infos : infos'[i] = infos[j]
  OBVIOUS
<1>11. Left(C) => \A i \in DOMAIN infos' : \E j \in DOMAIN infos : infos'[i].id = infos[j].id
  BY <1>10
<1>12. \A g \in Line : job'[g] = NoJob \/ job[g] # NoJob
  BY <1>6
<1>13. infos' = <<>> \/ infos # <<>>
  OBVIOUS
<1>14. CASE f < NumFilters
  <2>1. Shifted(a, f + 1, t) /\ finished' = finished /\ (caller.step = "idle" \/ caller.at # f + 1)
    BY <1>1, <1>3, <1>14
  <2>2. ChainWorks'
    <3>1. \A i \in DOMAIN finished' : \E j \in DOMAIN finished : finished'[i] = finished[j]
      BY <2>1
    <3>2. f + 1 \in Line => /\ t.op = "work" => t.work \in Waits[f + 1]'
                            /\ t.op = "done" => t.work \in Waits[C + 1]' /\ f + 1 = C
      BY <1>2, <1>5
    <3> QED BY <1>6, <1>10, <2>1, <3>1, <3>2, WaitsKept
  <2>3. ChainCalls'
    <3>1. f + 1 \in Line => /\ t.op = "work" => caller.step = "idle" \/ caller.at # f + 1
                            /\ t.op = "done" => f + 1 = C /\ infos # <<>>
      BY <1>2, <2>1
    <3> QED BY <1>12, <1>13, <2>1, <3>1, CallsKept
  <2>4. ChainGone'
    <3>1. f + 1 \in Line /\ Left(f + 1) => Old(t.work.id)
      BY <1>2, <1>7, <1>8
    <3> QED BY <1>6, <1>11, <2>1, <3>1, RemnantsKept
  <2>5. tasks' \in [Line -> Seq(TaskType)]
    BY <2>1 DEF Shifted, ChainPools
  <2>6. finished' \in Seq(WorkType)
    BY <2>1 DEF ChainTypes
  <2> QED BY <2>2, <2>3, <2>4, <2>5, <2>6
<1>15. CASE f = NumFilters
  <2>1. Shifted(a, 0, 0) /\ finished' = Append(finished, w)
    BY <1>3, <1>15, <1>1
  <2>2. /\ finished' \in Seq(WorkType)
        /\ \A i \in DOMAIN finished' : finished'[i] = w \/ \E j \in DOMAIN finished : finished'[i] = finished[j]
    <3>1. finished \in Seq(WorkType)
      BY DEF ChainTypes
    <3> DEFINE u == Append(finished, w)
    <3>2. /\ u \in Seq(WorkType) /\ Len(u) = Len(finished) + 1 /\ u[Len(finished) + 1] = w
          /\ \A i \in 1..Len(finished) : u[i] = finished[i]
      BY ONLY <3>1, w \in WorkType, AppendProperties
    <3>3. DOMAIN u = 1..(Len(finished) + 1) /\ DOMAIN finished = 1..Len(finished)
          /\ Len(finished) \in Nat
      BY <3>1, <3>2
    <3> HIDE DEF u
    <3>4. \A i \in DOMAIN u : u[i] = w \/ \E j \in DOMAIN finished : u[i] = finished[j]
      BY <3>2, <3>3
    <3> QED BY <2>1, <3>2, <3>4 DEF u
  <2>3. ChainWorks'
    <3>1. \A i \in DOMAIN finished' : \/ finished'[i] \in Waits[NumFilters + 1]'
                                      \/ \E j \in DOMAIN finished : finished'[i] = finished[j]
      BY <1>5, <1>15, <2>2
    <3> QED BY <1>1, <1>6, <1>10, <2>1, <3>1, WaitsKept
  <2>4. ChainCalls'
    BY <1>1, <1>12, <1>13, <2>1, CallsKept
  <2>5. ChainGone'
    BY <1>1, <1>6, <1>11, <2>1, RemnantsKept
  <2>6. tasks' \in [Line -> Seq(TaskType)]
    BY <2>1 DEF Shifted, ChainPools
  <2> QED BY <2>2, <2>3, <2>4, <2>5, <2>6
<1> QED BY <1>1, <1>14, <1>15

\* The steps of the way it can come from.
LeavesFrom(s0, f) ==
  \/ s0 = 4 * f /\ f # C /\ job[f] = NoJob
  \/ s0 = 4 * f + 1 /\ f # C
  \/ s0 = 4 * f + 3

\* It overtakes none.
LEMMA HandedOrder ==
  ASSUME ChainTypes, ChainWorks, ChainOrder, NEW a, NEW f \in Line, NEW w \in WorkType,
         Handed(a, f, w),
         From(a, f, w), infos' = infos, pending' = pending, NEW s0, NEW q0,
         First(View, w.id, s0, q0), LeavesFrom(s0, f),
         applied' \in [Line -> Nat],
         \A g \in Line : applied'[g] = applied[g] \/ (s0 = 4 * g + 1 /\ applied'[g] <= w.id)
  PROVE  ChainOrder' /\ MovesTo(View, View', w.id, 4 * f + 4, w.params, On(w))
<1>1. /\ C \in Line /\ C < NumFilters /\ NumFilters \in Nat /\ f \in Nat /\ f <= NumFilters
         /\ f >= 1
      /\ f < NumFilters => f + 1 \in Line
      /\ ~(0 \in Line)
  BY Places, ChainConstants DEF Line, Chain!Filters
<1> DEFINE t == [op |-> "work", work |-> w]
           n == w.id
<1>2. t \in TaskType /\ t.op = "work" /\ t.work = w
  BY TaskIs
<1> HIDE DEF t
<1>3. \/ f < NumFilters /\ Shifted(a, f + 1, t) /\ finished' = finished
      \/ f = NumFilters /\ Shifted(a, 0, 0) /\ finished' = Append(finished, w)
  BY DEF Handed, t
<1>4. limits' = limits /\ place' = place /\ NoJob' = NoJob /\ tasks' \in ChainPools
  BY <1>3 DEF Shifted, NoJob, Chain!NoJob, Chain!NewWork
<1>5. s0 \in Nat /\ 4 * f + 4 \in Nat /\ s0 < 4 * f + 4 /\ n \in Nat /\ w.params \in Nat
      /\ On(w) \in BOOLEAN
  <2>1. n \in Nat /\ w.params \in Nat /\ On(w) \in BOOLEAN
    BY OnIs DEF WorkType
  <2>2. s0 = 4 * f \/ s0 = 4 * f + 1 \/ s0 = 4 * f + 3
    BY DEF LeavesFrom
  <2>3. s0 \in Nat /\ 4 * f + 4 \in Nat /\ s0 < 4 * f + 4
    BY <1>1, <2>2
  <2> QED BY <2>1, <2>3
<1>6. \A x \in View : ~(s0 < x.st /\ x.st < 4 * f + 4)
  <2> SUFFICES ASSUME NEW x \in View, s0 < x.st, x.st < 4 * f + 4 PROVE FALSE
    OBVIOUS
  <2>1. x.st \in Nat
    BY Whence
  <2>2. 4 * f < x.st
    BY <1>1, <1>5, <2>1 DEF LeavesFrom
  <2>3. (x.st = 4 * f + 1 /\ job[f] # NoJob) \/ f = C
    BY <2>2, NobodyBetween
  <2> QED BY <1>1, <2>1, <2>3 DEF LeavesFrom
<1>7. /\ \A g \in Line : \A i \in DOMAIN tasks[g] : IsWork(tasks[g][i]) /\ tasks[g][i].work.id = n
         => g = a /\ i = 1
      /\ a \in Line => tasks[a][1].work.id = n
      /\ \A g \in Line : job[g] # NoJob /\ job[g].work.id # n => job'[g] = job[g]
      /\ \A g \in Line : job'[g] # NoJob => job'[g] = job[g] /\ job[g].work.id # n
      /\ \A j \in DOMAIN infos : infos[j].id # n
      /\ \A j \in DOMAIN finished : finished[j].id # n
  <2>1. CASE a = f /\ tasks[f] # <<>> /\ IsWork(tasks[f][1]) /\ n = tasks[f][1].work.id
             /\ \A g \in Line : job'[g] = job[g]
    <3>1. 1 \in DOMAIN tasks[f]
      <4>1. tasks[f] \in Seq(TaskType) /\ tasks[f] # <<>>
        BY <2>1, Places
      <4> QED BY <4>1
    <3> QED BY <2>1, <3>1, TasksApart
  <2>2. CASE a = 0 /\ job[f] # NoJob /\ n = job[f].work.id
             /\ \A g \in Line : job'[g] = IF g = f THEN NoJob ELSE job[g]
    BY <1>1, <2>2, JobsApart
  <2> QED BY <2>1, <2>2 DEF From
<1>8. /\ \A i \in DOMAIN infos : infos[i].id # n => \E j \in DOMAIN infos' : infos'[j] = infos[i]
      /\ \A j \in DOMAIN infos' : \E i \in DOMAIN infos : infos'[j] = infos[i] /\ infos[i].id # n
  BY <1>7
<1>9. /\ Rising(infos') /\ \A i \in DOMAIN infos' : infos'[i].outs > 0 => i = 1 /\ pending' = 0
  BY DEF ChainOrder
<1>10. pending' \in Nat
  BY DEF ChainTypes
<1>11. /\ (f < NumFilters /\ \E x : x = f + 1) \/ f = NumFilters
  BY <1>1
<1>12. CASE f < NumFilters
  <2>1. Shifted(a, f + 1, t) /\ finished' = finished
    BY <1>3, <1>12, <1>1
  <2>2. 4 * (f + 1) = 4 * f + 4
    BY <1>1
  <2>3. f + 1 \in Line => IsWork(t) /\ 4 * f + 4 = StepOf(f + 1, t) /\ t.work.id = n
        /\ t.work.params = w.params
                          /\ On(t.work) = On(w)
    BY <1>2, <2>2 DEF IsWork, StepOf
  <2>4. Passed(tasks, tasks', a, f + 1, t) /\ (a # f + 1 \/ a = 0)
    BY <2>1 DEF Shifted
  <2>5. /\ \A i \in DOMAIN finished : finished[i].id # n
           => \E j \in DOMAIN finished' : finished'[j] = finished[i]
        /\ \A j \in DOMAIN finished' : \E i \in DOMAIN finished : finished'[j] = finished[i]
           /\ finished[i].id # n
    BY <1>7, <2>1
  <2>6. Travels(a, f + 1, t, n, 4 * f + 4, w.params, On(w))
    BY <1>1, <1>4, <1>7, <1>8, <1>12, <2>3, <2>4, <2>5 DEF Travels
  <2>7. Rising(finished')
    BY <2>1 DEF ChainOrder
  <2> HIDE DEF n
  <2>8. First(View, n, s0, q0) /\ s0 <= 4 * f + 4 /\ (f + 1 \in Line => s0 < 4 * f + 4)
    BY <1>5 DEF n
  <2>9. /\ pending' = pending \/ pending' = 0 \/ (pending' <= n /\ s0 = 4 * C + 2 /\ 4 * f + 4 = 4 * C + 3)
        /\ \A g \in Line : applied'[g] = applied[g] \/ (s0 = 4 * g + 1 /\ applied'[g] <= n)
    BY DEF n
  <2>10. ChainOrder' /\ MovesTo(View, View', n, 4 * f + 4, w.params, On(w))
    BY <1>4, <1>5, <1>6, <1>9, <1>10, <2>6, <2>7, <2>8, <2>9, OrderKept
  <2> QED BY <2>10 DEF n
<1>13. CASE f = NumFilters
  <2>1. Shifted(a, 0, 0) /\ finished' = Append(finished, w)
    BY <1>3, <1>13, <1>1
  <2>2. finished \in Seq(WorkType) /\ Rising(finished)
    BY DEF ChainTypes, ChainOrder
  <2>3. ASSUME NEW i \in DOMAIN finished PROVE finished[i].id < w.id
    <3>1. PICK r \in View : Sees(r, 4 * NumFilters + 4, finished[i], On(finished[i]))
      BY Seen
    <3>2. PICK z \in View : z.st = s0 /\ z.id = w.id
      BY DEF First
    <3>3. z.st < r.st
      BY <1>5, <1>13, <3>1, <3>2 DEF Sees
    <3>4. z.id > r.id /\ z.id \in Nat /\ r.id \in Nat
      BY <3>3, Whence DEF ChainOrder, Ordered
    <3> QED BY <3>1, <3>2, <3>4 DEF Sees
  <2>4. /\ Rising(finished')
        /\ \A i \in DOMAIN finished : i \in DOMAIN finished' /\ finished'[i] = finished[i]
        /\ \A j \in DOMAIN finished' : (j \in DOMAIN finished /\ finished'[j] = finished[j]) \/ finished'[j] = w
        /\ \E j \in DOMAIN finished' : finished'[j] = w
    BY <2>1, <2>2, <2>3, RisingAppend
  <2>5. /\ \A i \in DOMAIN finished : finished[i].id # n
           => \E j \in DOMAIN finished' : finished'[j] = finished[i]
        /\ \A j \in DOMAIN finished' :
             \/ \E i \in DOMAIN finished : finished'[j] = finished[i] /\ finished[i].id # n
             \/ 4 * f + 4 = 4 * NumFilters + 4 /\ finished'[j].id = n
                /\ finished'[j].params = w.params
                /\ On(finished'[j]) = On(w)
        /\ \E j \in DOMAIN finished' : finished'[j].id = n
    BY <1>7, <1>13, <2>4
  <2>6. Passed(tasks, tasks', a, 0, 0) /\ (a # 0 \/ a = 0)
    BY <2>1 DEF Shifted
  <2>7. Travels(a, 0, 0, n, 4 * f + 4, w.params, On(w))
    BY <1>1, <1>4, <1>7, <1>8, <2>5, <2>6 DEF Travels
  <2> HIDE DEF n
  <2>8. First(View, n, s0, q0) /\ s0 <= 4 * f + 4 /\ (0 \in Line => s0 < 4 * f + 4)
    BY <1>5 DEF n
  <2>9. /\ pending' = pending \/ pending' = 0 \/ (pending' <= n /\ s0 = 4 * C + 2 /\ 4 * f + 4 = 4 * C + 3)
        /\ \A g \in Line : applied'[g] = applied[g] \/ (s0 = 4 * g + 1 /\ applied'[g] <= n)
    BY DEF n
  <2>10. ChainOrder' /\ MovesTo(View, View', n, 4 * f + 4, w.params, On(w))
    BY <1>4, <1>5, <1>6, <1>9, <1>10, <2>4, <2>7, <2>8, <2>9, OrderKept
  <2> QED BY <2>10 DEF n
<1> QED BY <1>1, <1>12, <1>13

\* Settings go along with it.
LEMMA HandedSettled ==
  ASSUME ChainTypes, NEW f \in Line, NEW g \in Line, NEW n \in Nat, NEW s0, NEW q,
         NEW o \in BOOLEAN,
         NEW V2 \in SUBSET ViewType, NEW S2 \in SUBSET given[g], NEW a2 \in Nat,
         NEW M2 \in SUBSET Cuts,
         First(View, n, s0, q), LeavesFrom(s0, f), \A x \in View : x.id = n => (x.on <=> o),
         MovesTo(View, V2, n, 4 * f + 4, q, o), Settled(View, given[g], applied[g], pending, C, g, Cuts),
         g = f /\ o /\ s0 # 4 * f + 3 => \A v \in S2 : q >= v => v <= a2,
         s0 = 4 * f => f > C, s0 = 4 * f + 3 => f = C,
         \A v \in S2 : v <= applied[g] => v <= a2
  PROVE  Settled(V2, S2, a2, pending, C, g, M2)
<1>1. C \in Nat /\ f \in Nat /\ g \in Nat /\ s0 \in Nat /\ 4 * f + 4 \in Nat
  <2>1. C \in Nat /\ f \in Nat /\ g \in Nat
    BY Places DEF Line, Chain!Filters
  <2>2. s0 = 4 * f \/ s0 = 4 * f + 1 \/ s0 = 4 * f + 3
    BY DEF LeavesFrom
  <2> QED BY <2>1, <2>2
<1>2. View \in SUBSET ViewType /\ given[g] \in SUBSET (Nat \ {0}) /\ applied[g] \in Nat
      /\ pending \in Nat
  <2>1. given[g] \in SUBSET (1..works) /\ works \in Nat
    BY DEF ChainTypes
  <2>2. applied[g] \in Nat /\ pending \in Nat
    BY DEF ChainTypes
  <2> QED BY <2>1, <2>2 DEF View
<1>3. s0 <= 4 * f + 4
  BY <1>1 DEF LeavesFrom
<1>4. g > C /\ pending # 0 /\ o /\ 4 * f + 4 >= 4 * C + 3 => s0 >= 4 * C + 3
  BY <1>1 DEF LeavesFrom
<1>5. o /\ s0 <= 4 * g + 1 /\ (4 * f + 4 > 4 * g + 1 \/ ~o) => \A v \in S2 : q >= v => v <= a2
  <2> SUFFICES ASSUME o, s0 <= 4 * g + 1, 4 * f + 4 > 4 * g + 1
               PROVE \A v \in S2 : q >= v => v <= a2
    OBVIOUS
  <2>1. g = f /\ s0 # 4 * f + 3
    BY <1>1 DEF LeavesFrom
  <2> QED BY <2>1
<1>6. g > C /\ pending # 0 /\ o /\ s0 <= 4 * C + 2 => o /\ 4 * f + 4 <= 4 * C + 2
  BY <1>1 DEF LeavesFrom
<1>7. Cuts \in SUBSET Nat
  BY DEF Cuts
<1> HIDE DEF LeavesFrom
<1> QED BY <1>1, <1>2, <1>3, <1>4, <1>5, <1>6, <1>7, SettledMoved

\* No more is told apart then.
LEMMA CutsHanded ==
  ASSUME ChainTypes, NEW f \in Line, NEW n \in Nat, NEW s0, NEW q, NEW o, NEW q2,
         First(View, n, s0, q), LeavesFrom(s0, f), MovesTo(View, View', n, 4 * f + 4, q2, o),
         UNCHANGED <<works, place, infos>>
  PROVE  Cuts' \in SUBSET Cuts
<1> DEFINE s == 4 * f + 4
<1>1. f \in Nat /\ s0 \in Nat /\ s \in Nat /\ s0 <= s /\ MovesTo(View, View', n, s, q2, o)
  BY Places DEF LeavesFrom
<1> HIDE DEF s
<1>2. \A i \in DOMAIN infos' : infos'[i].outs = 0 =>
        \E j \in DOMAIN infos : infos[j].outs = 0 /\ infos[j].id = infos'[i].id
  OBVIOUS
<1> QED BY <1>1, <1>2, CutsMoved

\* The settings that are destroyed.
LEMMA UptoIs ==
  ASSUME ChainTypes, NEW lost \in SUBSET (0..works), NEW u \in lost, NEW v \in Nat, v >= 1, v <= u
  PROVE  v \in Chain!Upto(lost)
<1> DEFINE S == lost \cup {0}
<1>1. S \in SUBSET Nat /\ S # {} /\ works \in Nat /\ \A n \in S : n <= works
  BY DEF ChainTypes
<1>2. Max(S) \in S /\ \A n \in S : n <= Max(S)
  BY <1>1, GreatestNumber
<1>3. u <= Max(S) /\ Max(S) \in Nat /\ u \in Nat
  BY <1>1, <1>2
<1>4. v \in 1..Max(S)
  BY <1>3
<1> QED BY <1>4 DEF Chain!Upto, Chain!None, Chain!Max, Max

\* What Lost2 leaves is newer than what was lost.
LEMMA LostIs ==
  ASSUME ChainTypes, NEW lost \in SUBSET (0..works), NEW after \in SUBSET (0..works), NEW f \in Nat
  PROVE  /\ Chain!Lost2(lost, f, after) \in [Line -> SUBSET (1..works)]
         /\ \A g \in Line : Chain!Lost2(lost, f, after)[g] \subseteq given[g]
         /\ \A g \in Line : g >= f
            => \A v \in Chain!Lost2(lost, f, after)[g] : \A u \in lost : v > u
         /\ \A g \in Line : g > f
            => \A v \in Chain!Lost2(lost, f, after)[g] : \A u \in after : v > u
<1>1. given \in [Line -> SUBSET (1..works)] /\ works \in Nat
  BY DEF ChainTypes
<1> DEFINE G == Chain!Lost2(lost, f, after)
<1>2. G = [g \in Line |-> (IF g >= f THEN given[g] \ Chain!Upto(lost) ELSE given[g])
                          \ (IF g > f THEN Chain!Upto(after) ELSE {})]
  BY DEF Chain!Lost2, Line
<1> HIDE DEF G
<1>3. \A g \in Line : G[g] \subseteq given[g]
  BY <1>2
<1>4. G \in [Line -> SUBSET (1..works)]
  BY <1>1, <1>2
<1>5. ASSUME NEW g \in Line, g >= f, NEW v \in G[g], NEW u \in lost PROVE v > u
  <2>1. v \in given[g] /\ given[g] \in SUBSET (1..works)
    BY <1>1, <1>3
  <2>2. v \in Nat /\ v >= 1 /\ u \in Nat
    BY <1>1, <2>1
  <2>3. ~(v \in Chain!Upto(lost))
    BY <1>2, <1>5
  <2> QED BY <2>2, <2>3, UptoIs
<1>6. ASSUME NEW g \in Line, g > f, NEW v \in G[g], NEW u \in after PROVE v > u
  <2>1. v \in given[g] /\ given[g] \in SUBSET (1..works)
    BY <1>1, <1>3
  <2>2. v \in Nat /\ v >= 1 /\ u \in Nat
    BY <1>1, <2>1
  <2>3. ~(v \in Chain!Upto(after))
    <3>1. v \notin (IF g > f THEN Chain!Upto(after) ELSE {})
      BY <1>2
    <3> QED BY <1>6, <3>1
  <2>4. ~(v <= u)
    BY <2>2, <2>3, UptoIs
  <2> QED BY <2>2, <2>4
<1> QED BY <1>3, <1>4, <1>5, <1>6 DEF G

\* A filter has the newest setting if no newer one came with its work, or before.
LEMMA NewestIs ==
  ASSUME ChainTypes, NEW f \in Line, NEW n \in Nat, NEW now \in Nat,
         \A v \in given[f] : v <= n => v <= now
  PROVE  ~(now < Chain!Newest(f, n))
<1> DEFINE S == {v \in given[f] : v <= n} \cup {0}
<1>1. given[f] \in SUBSET (1..works) /\ works \in Nat
  BY DEF ChainTypes
<1>2. S \in SUBSET Nat /\ S # {} /\ \A v \in S : v <= works
  BY <1>1
<1>3. Max(S) \in S
  BY <1>1, <1>2, GreatestNumber
<1>4. Max(S) <= now
  BY <1>1, <1>3
<1>5. Max(S) \in Nat
  BY <1>2, <1>3
<1>6. Chain!Newest(f, n) = Max(S)
  BY DEF Chain!Newest, Chain!None, Chain!Max, Max
<1> QED BY <1>4, <1>5, <1>6

\* applyConfig() of the work that the filter has.
LEMMA Applying ==
  ASSUME ChainTypes, ChainWorks, ChainOrder, ChainSettings, NEW f \in Line, job[f] # NoJob,
         Chain!Apply(f, job[f].work)
  PROVE  /\ applied' \in [Line -> Nat] /\ stale' \in BOOLEAN
         /\ \A g \in Line : g # f => applied'[g] = applied[g]
         /\ applied'[f] <= job[f].work.id
         /\ job[f].work.params # 0 => applied'[f] = job[f].work.params
         /\ job[f].work.params = 0 => applied'[f] = applied[f]
         /\ stale' => behind
         /\ ~behind => \A v \in given[f] : v <= applied[f] => v <= applied'[f]
<1> DEFINE w == job[f].work
           now == IF w.params # 0 THEN w.params ELSE applied[f]
<1>1. w \in WorkType /\ w.id \in Nat /\ w.params \in Nat /\ applied \in [Line -> Nat]
      /\ stale \in BOOLEAN /\ behind \in BOOLEAN
      /\ f \in Nat /\ C \in Nat /\ pending \in Nat
  BY Places DEF ChainTypes, WorkType
<1>2. applied' = [applied EXCEPT ![f] = now] /\ stale' = (stale \/ now < Chain!Newest(f, w.id))
  BY DEF Chain!Apply, Chain!None
<1>3. w.params <= w.id
  <2>1. job[f] \in Runs[f]
    BY DEF ChainWorks
  <2> QED BY <2>1 DEF Runs, Working, Real
<1>4. applied[f] <= w.id
  <2>1. PICK r \in View : Sees(r, 4 * f + 1, job[f].work, TRUE)
    BY Seen
  <2> QED BY <2>1 DEF ChainOrder, Sees
<1>5. now \in Nat /\ now <= w.id
  BY <1>1, <1>3, <1>4
<1>6. given[f] \in SUBSET (Nat \ {0})
  <2>1. given[f] \in SUBSET (1..works) /\ works \in Nat
    BY DEF ChainTypes
  <2> QED BY <2>1
<1>7. ASSUME ~behind, NEW v \in given[f], v <= w.id PROVE v <= now
  <2>1. Agrees(View, given[f], applied[f], pending, C, f)
    BY <1>7, AllSettled
  <2>2. /\ First(View, w.id, 4 * f + 1, w.params)
        /\ \A x \in View : x.st = 4 * f + 1 => x.id = w.id /\ x.on
    BY FirstJob
  <2>3. View \in SUBSET ViewType /\ Ordered(View)
    BY DEF View, ChainOrder
  <2> HIDE DEF w
  <2>4. v <= (IF w.params # 0 THEN w.params ELSE applied[f])
    BY <1>1, <1>6, <1>7, <2>1, <2>2, <2>3, Reaches
  <2> QED BY <2>4
<1>8. stale' => behind
  <2>1. stale => behind
    BY DEF ChainSettings, Chain!SettingsReach
  <2>2. ~behind => ~(now < Chain!Newest(f, w.id))
    BY <1>1, <1>5, <1>7, NewestIs
  <2> QED BY <1>1, <1>2, <2>1, <2>2
<1>9. ~behind => \A v \in given[f] : v <= applied[f] => v <= now
  BY <1>1, <1>4, <1>5, <1>6, <1>7
<1>10. applied' \in [Line -> Nat] /\ applied'[f] = now /\ \A g \in Line : g # f
       => applied'[g] = applied[g]
  BY <1>1, <1>2, <1>5
<1>11. stale' \in BOOLEAN
  BY <1>2
<1> QED BY <1>5, <1>8, <1>9, <1>10, <1>11

\* The settings, when they are those that are there.
SettingsGo ==
  /\ ~behind' => \A f \in Line : Settled(View', given'[f], applied'[f], pending', C', f, Cuts')
  /\ stale' => behind'

\* SettingsGo is the part of the invariant about settings.
LEMMA SettingsGoOn == ASSUME SettingsGo PROVE ChainSettings'
BY DEF SettingsGo, ChainSettings, Chain!SettingsReach

\* The limits that stay.
CallsRest == UNCHANGED <<limits, place, works, gone, stray, stops>>

\* The types of a step that queues no work.
LEMMA TypesKept ==
  ASSUME ChainTypes, limits' = limits, place' = place, works' = works,
         caller' \in CallerType, tasks' \in [Line -> Seq(TaskType)], job' \in [Line -> JobType],
         infos' \in Seq(WorkType), finished' \in Seq(WorkType), pending' \in Nat,
         applied' \in [Line -> Nat],
         given' \in [Line -> SUBSET (1..works)], gone' \in 0..works, stray' \in SUBSET (1..works),
         stale' \in BOOLEAN, behind' \in BOOLEAN, stops' \in Nat, failures' \in Nat
  PROVE  ChainTypes'
<1>1. /\ WorkType' = WorkType /\ TaskType' = TaskType /\ JobType' = JobType
  <2>1. works' \in Nat /\ works' >= works
    BY DEF ChainTypes
  <2> QED BY <2>1, RestKept
<1>2. C' = C
  BY DEF C
<1> QED BY <1>1, <1>2 DEF ChainTypes

\* The first task of a pool, which is the one that is taken.
LEMMA HeadOf ==
  ASSUME ChainTypes, NEW f \in Line, NEW op, Chain!Taken(f, op)
  PROVE  /\ job[f] = NoJob /\ tasks[f] # <<>> /\ 1 \in DOMAIN tasks[f]
            /\ Head(tasks[f]) = tasks[f][1]
         /\ tasks[f][1].op = op /\ tasks[f][1] \in TaskType /\ tasks[f][1].work \in WorkType
<1>1. job[f] = NoJob /\ tasks[f] # <<>> /\ Head(tasks[f]).op = op
  BY DEF Chain!Taken, NoJob
<1>2. tasks[f] \in Seq(TaskType)
  BY Places
<1>3. 1 \in DOMAIN tasks[f] /\ Head(tasks[f]) = tasks[f][1]
  BY <1>1, <1>2
<1> QED BY <1>1, <1>3, Places

\* doQueueWork() of a work that goes on at once.
LEMMA PassingOn ==
  ASSUME ChainInv, NEW f \in Line, Chain!DoQueueWork(f), Chain!Todo(Head(tasks[f]).work) = <<>>
  PROVE  ChainInv'
<1> USE DEF ChainInv
<1>1. Chain!Taken(f, "work")
  BY DEF Chain!DoQueueWork
<1>2. /\ job[f] = NoJob /\ tasks[f] # <<>> /\ 1 \in DOMAIN tasks[f] /\ Head(tasks[f]) = tasks[f][1]
      /\ tasks[f][1].op = "work" /\ tasks[f][1].work \in WorkType
  BY <1>1, HeadOf
<1> DEFINE w == tasks[f][1].work
<1>3. /\ Chain!HandOn(f, w, Chain!Popped(f)) /\ job' = job
      /\ given' = IF w.inputIndex < 0 THEN Chain!Lost({w.params}, f) ELSE given
      /\ UNCHANGED <<limits, place, works, caller, infos, pending, applied, gone, stray, stale, behind, stops, failures>>
      /\ Chain!Todo(w) = <<>>
  BY <1>2 DEF Chain!DoQueueWork
<1>4. w \in Waits[f] /\ AtRest(w, f) /\ f \in 1..(NumFilters + 1) /\ f + 1 \in 1..(NumFilters + 1)
  <2>1. w \in Waits[f]
    BY <1>2 DEF ChainWorks
  <2>2. f \in 1..(NumFilters + 1) /\ f + 1 \in 1..(NumFilters + 1)
    BY ChainConstants
  <2> QED BY <2>1, <2>2 DEF Waits
<1>5. w \in WorkType /\ f > C /\ AtRest(w, f + 1) /\ (On(w) => w.inputIndex < 0)
  BY <1>2, <1>3, <1>4, EmptyTodo
<1>6. w \in Waits[f + 1]
  BY <1>4, <1>5 DEF Waits
<1>7. IsWork(tasks[f][1]) /\ StepOf(f, tasks[f][1]) = 4 * f
  BY <1>2 DEF IsWork, StepOf
<1>8. First(View, w.id, 4 * f, w.params) /\ \A x \in View : x.id = w.id => x.on = On(w)
  BY <1>2, <1>7, FirstTask
<1>9. w.params \in 0..works /\ f \in Nat /\ C \in Nat /\ w.id \in Nat /\ On(w) \in BOOLEAN
  <2>1. w.params \in Nat /\ w.params <= w.id /\ w.id <= works /\ works \in Nat /\ w.id \in Nat
    <3>1. w.params \in Nat /\ w.id \in Nat
      BY <1>5 DEF WorkType
    <3>2. w.params <= w.id /\ w.id <= works
      BY <1>4 DEF AtRest, Real
    <3> QED BY <3>1, <3>2 DEF ChainTypes
  <2> QED BY <1>5, <2>1, Places, OnIs
<1> HIDE DEF w
<1>10. Handed(f, f, w)
  BY <1>1, <1>3, <1>5, HandingOn
<1>11. From(f, f, w)
  BY <1>2, <1>3, <1>7 DEF From, w
<1>12. LeavesFrom(4 * f, f)
  BY <1>2, <1>5, <1>9 DEF LeavesFrom
<1>13. /\ ChainWorks' /\ ChainCalls' /\ ChainGone' /\ tasks' \in [Line -> Seq(TaskType)]
          /\ finished' \in Seq(WorkType)
  BY <1>3, <1>5, <1>6, <1>10, <1>11, HandedKept
<1>14. ChainOrder' /\ MovesTo(View, View', w.id, 4 * f + 4, w.params, On(w))
  <2>1. applied' \in [Line -> Nat] /\ \A g \in Line : applied'[g] = applied[g]
    BY <1>3 DEF ChainTypes
  <2> QED BY <1>3, <1>5, <1>8, <1>10, <1>11, <1>12, <2>1, HandedOrder
<1>15. /\ given' \in [Line -> SUBSET (1..works)] /\ \A g \in Line : given'[g] \subseteq given[g]
       /\ On(w) => \A v \in given'[f] : ~(w.params >= v)
  <2>1. CASE w.inputIndex < 0
    <3>1. {w.params} \in SUBSET (0..works) /\ {} \in SUBSET (0..works)
      BY <1>9
    <3>2. given' = Chain!Lost2({w.params}, f, {})
      BY <1>3, <2>1 DEF Chain!Lost
    <3>3. /\ given' \in [Line -> SUBSET (1..works)] /\ \A g \in Line : given'[g] \subseteq given[g]
          /\ \A g \in Line : g >= f => \A v \in given'[g] : \A u \in {w.params} : v > u
      BY <1>9, <3>1, <3>2, LostIs
    <3>4. \A v \in given'[f] : v > w.params
      BY <1>9, <3>3
    <3>5. \A v \in given'[f] : v \in Nat
      BY <3>3
    <3> QED BY <1>9, <3>3, <3>4, <3>5
  <2>2. CASE ~(w.inputIndex < 0)
    BY <1>3, <1>5, <2>2 DEF ChainTypes
  <2> QED BY <2>1, <2>2
<1>16. ChainTypes'
  <2>1. /\ caller \in CallerType /\ job \in [Line -> JobType] /\ infos \in Seq(WorkType)
           /\ pending \in Nat
        /\ applied \in [Line -> Nat] /\ gone \in 0..works /\ stray \in SUBSET (1..works)
        /\ stale \in BOOLEAN /\ behind \in BOOLEAN /\ stops \in Nat /\ failures \in Nat
    BY DEF ChainTypes
  <2> QED BY <1>3, <1>13, <1>15, <2>1, TypesKept
<1>17. Cuts' \in SUBSET Cuts
  BY <1>3, <1>8, <1>9, <1>12, <1>14, CutsHanded
<1>18. SettingsGo
  <2>1. ASSUME ~behind', NEW g \in Line PROVE Settled(View', given'[g], applied'[g], pending', C', g, Cuts')
    <3>1. Settled(View, given[g], applied[g], pending, C, g, Cuts)
      BY <1>3, <2>1 DEF ChainSettings
    <3>2. View' \in SUBSET ViewType /\ given'[g] \in SUBSET given[g] /\ applied[g] \in Nat
      BY <1>15 DEF View, ChainTypes
    <3>3. g = f /\ On(w) /\ 4 * f # 4 * f + 3 => \A v \in given'[g] : w.params >= v
          => v <= applied[g]
      BY <1>15
    <3>4. \A v \in given'[g] : v <= applied[g] => v <= applied[g]
      OBVIOUS
    <3>5. \A x \in View : x.id = w.id => (x.on <=> On(w))
      BY <1>8
    <3>6. (4 * f = 4 * f => f > C) /\ (4 * f = 4 * f + 3 => f = C)
      BY <1>5, <1>9
    <3>7. Settled(View', given'[g], applied[g], pending, C, g, Cuts')
      BY <1>8, <1>9, <1>12, <1>14, <1>17, <3>1, <3>2, <3>3, <3>4, <3>5, <3>6, HandedSettled
    <3>8. applied'[g] = applied[g] /\ pending' = pending /\ C' = C
      BY <1>3 DEF C
    <3> QED BY <3>7, <3>8
  <2>2. stale' => behind'
    BY <1>3 DEF ChainSettings, Chain!SettingsReach
  <2> QED BY <2>1, <2>2 DEF SettingsGo
<1> QED BY <1>13, <1>14, <1>16, <1>18, SettingsGoOn

\* A loop with a work that was queued is not one that rests.
LEMMA RealJob ==
  ASSUME NEW w, NEW d, w.id >= 1
  PROVE  [work |-> w, todo |-> d] # NoJob
<1>1. NoJob.work.id = 0
  BY DEF NoJob, Chain!NoJob, Chain!NewWork, Chain!None
<1>2. [work |-> w, todo |-> d].work = w
  OBVIOUS
<1> QED BY <1>1, <1>2

\* The loop of a filter begins, or goes on.
JobFrom(a, f, J, s0) ==
  \/ /\ a = f /\ tasks[f] # <<>> /\ tasks[f][1].op = "work" /\ J.work.id = tasks[f][1].work.id
        /\ s0 = 4 * f
     /\ job[f] = NoJob
  \/ a = 0 /\ job[f] # NoJob /\ J.work.id = job[f].work.id /\ s0 = 4 * f + 1

\* A loop that begins or goes on is as it has to be.
LEMMA JobKept ==
  ASSUME ChainTypes, ChainWorks, ChainCalls, ChainGone, NEW a, NEW f \in Line, NEW J \in JobType,
         NEW s0,
         Shifted(a, 0, 0), JobFrom(a, f, J, s0), J \in Runs[f], job' = [job EXCEPT ![f] = J],
         infos' = infos, finished' = finished
  PROVE  ChainWorks' /\ ChainCalls' /\ ChainGone' /\ tasks' \in [Line -> Seq(TaskType)]
         /\ job' \in [Line -> JobType]
<1>1. ~(0 \in Line)
  BY DEF Line, Chain!Filters
<1>2. job \in [Line -> JobType]
  BY DEF ChainTypes
<1>3. job'[f] = J /\ \A g \in Line : g # f => job'[g] = job[g]
  BY <1>2
<1>4. job' \in [Line -> JobType]
  BY <1>2
<1>5. tasks' \in [Line -> Seq(TaskType)]
  BY DEF Shifted, ChainPools
<1>6. limits' = limits /\ place' = place /\ works' \in Nat /\ works' >= works
  BY DEF Shifted
<1>7. J \in Runs[f]'
  BY <1>6, RestKept
<1>8. ChainWorks'
  <2>1. \A g \in Line : job'[g] = NoJob \/ job'[g] = job[g] \/ job'[g] \in Runs[g]'
    BY <1>3, <1>7
  <2> QED BY <1>1, <2>1, WaitsKept
<1>9. Left(f) => Old(J.work.id)
  <2>1. CASE a = f /\ tasks[f] # <<>> /\ tasks[f][1].op = "work" /\ J.work.id = tasks[f][1].work.id
    <3>1. 1 \in DOMAIN tasks[f]
      <4>1. tasks[f] \in Seq(TaskType) /\ tasks[f] # <<>>
        BY <2>1, Places
      <4> QED BY <4>1
    <3> QED BY <2>1, <3>1 DEF ChainGone
  <2>2. CASE job[f] # NoJob /\ J.work.id = job[f].work.id
    BY <2>2 DEF ChainGone
  <2> QED BY <2>1, <2>2 DEF JobFrom
<1>10. ChainGone'
  <2>1. \A g \in Line : job'[g] = NoJob \/ job'[g] = job[g] \/ (Left(g) => Old(job'[g].work.id))
    BY <1>3, <1>9
  <2>2. Left(C)
        => \A i \in DOMAIN infos' : Old(infos'[i].id) \/ \E j \in DOMAIN infos : infos'[i].id = infos[j].id
    OBVIOUS
  <2> QED BY <1>1, <2>1, <2>2, RemnantsKept
<1>11. ChainCalls'
  <2>1. \A g \in Line : job'[g] = NoJob \/ job[g] # NoJob \/ (g = a /\ tasks[a][1].op = "work")
    BY <1>3 DEF JobFrom
  <2> QED BY <1>1, <2>1, CallsKept
<1> QED BY <1>4, <1>5, <1>8, <1>10, <1>11

\* Its work overtakes none.
LEMMA JobOrder ==
  ASSUME ChainTypes, ChainWorks, ChainOrder, NEW a, NEW f \in Line, NEW J \in JobType, NEW s0,
         NEW q0,
         Shifted(a, 0, 0), JobFrom(a, f, J, s0), J # NoJob, First(View, J.work.id, s0, q0),
         job' = [job EXCEPT ![f] = J],
         infos' = infos, finished' = finished, pending' = pending, applied' \in [Line -> Nat],
         \A g \in Line : applied'[g] = applied[g] \/ (s0 = 4 * g + 1 /\ applied'[g] <= J.work.id)
  PROVE  ChainOrder' /\ MovesTo(View, View', J.work.id, 4 * f + 1, J.work.params, TRUE)
<1>1. ~(0 \in Line) /\ f \in Nat
  BY Places DEF Line, Chain!Filters
<1>2. job \in [Line -> JobType]
  BY DEF ChainTypes
<1>3. job'[f] = J /\ \A g \in Line : g # f => job'[g] = job[g]
  BY <1>2
<1>4. J.work.id \in Nat /\ J.work.params \in Nat
  BY DEF JobType, WorkType
<1> DEFINE n == J.work.id
           q == J.work.params
<1>5. n \in Nat /\ q \in Nat
  BY <1>4
<1>6. J.work.id = n /\ J.work.params = q /\ First(View, n, s0, q0)
  OBVIOUS
<1>7. limits' = limits /\ place' = place /\ NoJob' = NoJob /\ tasks' \in ChainPools
      /\ Passed(tasks, tasks', a, 0, 0)
      /\ (a # 0 \/ a = 0)
  BY DEF Shifted, NoJob, Chain!NoJob, Chain!NewWork
<1>8. s0 \in Nat /\ 4 * f + 1 \in Nat /\ s0 <= 4 * f + 1
      /\ \A x \in View : ~(s0 < x.st /\ x.st < 4 * f + 1)
  <2>1. s0 = 4 * f \/ s0 = 4 * f + 1
    BY DEF JobFrom
  <2>2. \A x \in View : x.st \in Nat
    BY Whence
  <2> QED BY <1>1, <2>1, <2>2
<1>9. pending' \in Nat /\ Rising(infos') /\ Rising(finished')
      /\ \A i \in DOMAIN infos' : infos'[i].outs > 0 => i = 1 /\ pending' = 0
  BY DEF ChainTypes, ChainOrder
<1>10. \A g \in Line : applied'[g] = applied[g] \/ (s0 = 4 * g + 1 /\ applied'[g] <= n)
  OBVIOUS
<1> HIDE DEF n, q
<1>11. /\ \A g \in Line : \A i \in DOMAIN tasks[g] : IsWork(tasks[g][i]) /\ tasks[g][i].work.id = n
          => g = a /\ i = 1
       /\ a \in Line => tasks[a][1].work.id = n
       /\ \A g \in Line : job[g] # NoJob /\ job[g].work.id # n => job'[g] = job[g]
       /\ \A g \in Line : job'[g] # NoJob =>
            \/ job'[g] = job[g] /\ job[g].work.id # n
            \/ 4 * f + 1 = 4 * g + 1 /\ job'[g].work.id = n /\ job'[g].work.params = q
               /\ TRUE = TRUE
       /\ \A j \in DOMAIN infos : infos[j].id # n
       /\ \A j \in DOMAIN finished : finished[j].id # n
  <2>1. CASE a = f /\ tasks[f] # <<>> /\ tasks[f][1].op = "work" /\ n = tasks[f][1].work.id
        /\ job[f] = NoJob
    <3>1. 1 \in DOMAIN tasks[f]
      <4>1. tasks[f] \in Seq(TaskType) /\ tasks[f] # <<>>
        BY <2>1, Places
      <4> QED BY <4>1
    <3>2. IsWork(tasks[f][1])
      BY <2>1 DEF IsWork
    <3>3. /\ \A g \in Line : \A j \in DOMAIN tasks[g] : IsWork(tasks[g][j])
             /\ tasks[g][j].work.id = n => g = f /\ j = 1
          /\ \A g \in Line : job[g] # NoJob => job[g].work.id # n
          /\ \A j \in DOMAIN infos : infos[j].id # n
          /\ \A j \in DOMAIN finished : finished[j].id # n
      BY <2>1, <3>1, <3>2, TasksApart
    <3> QED BY <1>3, <1>6, <2>1, <3>3
  <2>2. CASE a = 0 /\ job[f] # NoJob /\ n = job[f].work.id
    <3>1. /\ \A g \in Line : \A j \in DOMAIN tasks[g] : IsWork(tasks[g][j])
             => tasks[g][j].work.id # n
          /\ \A g \in Line : job[g] # NoJob /\ job[g].work.id = n => g = f
          /\ \A j \in DOMAIN infos : infos[j].id # n
          /\ \A j \in DOMAIN finished : finished[j].id # n
      BY <2>2, JobsApart
    <3> QED BY <1>1, <1>3, <1>6, <2>2, <3>1
  <2> QED BY <1>6, <2>1, <2>2 DEF JobFrom
<1>12. Travels(a, 0, 0, n, 4 * f + 1, q, TRUE)
  <2>1. job'[f] # NoJob /\ job'[f].work.id = n
    BY <1>3, <1>6
  <2> QED BY <1>1, <1>7, <1>11, <2>1 DEF Travels
<1>13. pending' = pending \/ pending' = 0 \/ (pending' <= n /\ s0 = 4 * C + 2 /\ 4 * f + 1 = 4 * C + 3)
  OBVIOUS
<1>14. 0 \in Line => s0 < 4 * f + 1
  BY <1>1
<1>15. ChainOrder' /\ MovesTo(View, View', n, 4 * f + 1, q, TRUE)
  <2> DEFINE o == TRUE
             s == 4 * f + 1
  <2>1. /\ o \in BOOLEAN /\ s \in Nat /\ Travels(a, 0, 0, n, s, q, o) /\ s0 <= s
           /\ (0 \in Line => s0 < s)
        /\ pending' = pending \/ pending' = 0 \/ (pending' <= n /\ s0 = 4 * C + 2 /\ s = 4 * C + 3)
        /\ \A x \in View : ~(s0 < x.st /\ x.st < s)
    BY <1>8, <1>12, <1>13, <1>14
  <2> HIDE DEF o, s
  <2>2. ChainOrder' /\ MovesTo(View, View', n, s, q, o)
    BY <1>5, <1>6, <1>7, <1>8, <1>9, <1>10, <2>1, OrderKept
  <2> QED BY <2>2 DEF o, s
<1> QED BY <1>6, <1>15

\* Settings stay with the work in a loop.
LEMMA JobSettled ==
  ASSUME ChainTypes, NEW f \in Line, NEW g \in Line, NEW n \in Nat, NEW s0 \in {4 * f, 4 * f + 1},
         NEW q,
         NEW V2 \in SUBSET ViewType, NEW a2 \in Nat, NEW M2 \in SUBSET Cuts,
         First(View, n, s0, q), \A x \in View : x.id = n => x.on,
         MovesTo(View, V2, n, 4 * f + 1, q, TRUE),
         Settled(View, given[g], applied[g], pending, C, g, Cuts),
         \A v \in given[g] : v <= applied[g] => v <= a2
  PROVE  Settled(V2, given[g], a2, pending, C, g, M2)
<1>1. C \in Nat /\ f \in Nat /\ g \in Nat /\ s0 \in Nat /\ 4 * f + 1 \in Nat
  BY Places
<1>2. View \in SUBSET ViewType /\ given[g] \in SUBSET (Nat \ {0}) /\ applied[g] \in Nat
      /\ pending \in Nat
  <2>1. given[g] \in SUBSET (1..works) /\ works \in Nat
    BY DEF ChainTypes
  <2>2. applied[g] \in Nat /\ pending \in Nat
    BY DEF ChainTypes
  <2> QED BY <2>1, <2>2 DEF View
<1>3. s0 <= 4 * f + 1
  BY <1>1
<1> DEFINE o == TRUE
           s == 4 * f + 1
<1>4. g > C /\ pending # 0 /\ o /\ s >= 4 * C + 3 => s0 >= 4 * C + 3
  BY <1>1
<1>5. o /\ s0 <= 4 * g + 1 /\ (s > 4 * g + 1 \/ ~o) => \A v \in given[g] : q >= v => v <= a2
  BY <1>1
<1>6. g > C /\ pending # 0 /\ o /\ s0 <= 4 * C + 2 => o /\ s <= 4 * C + 2
  BY <1>1
<1>7. \A x \in View : x.id = n => (x.on <=> o)
  OBVIOUS
<1>8. o \in BOOLEAN /\ (o => o) /\ MovesTo(View, V2, n, s, q, o) /\ s \in Nat /\ s0 <= s
  BY <1>1, <1>3
<1>9. given[g] \in SUBSET given[g] /\ Cuts \in SUBSET Nat
  BY DEF Cuts
<1> HIDE DEF o, s
<1> QED BY <1>1, <1>2, <1>4, <1>5, <1>6, <1>7, <1>8, <1>9, SettledMoved

\* No more is told apart then.
LEMMA CutsInLoop ==
  ASSUME ChainTypes, NEW f \in Line, NEW n \in Nat, NEW s0 \in {4 * f, 4 * f + 1}, NEW q, NEW o,
         First(View, n, s0, q), MovesTo(View, View', n, 4 * f + 1, q, o),
         UNCHANGED <<works, place, infos>>
  PROVE  Cuts' \in SUBSET Cuts
<1> DEFINE s == 4 * f + 1
<1>1. f \in Nat /\ s0 \in Nat /\ s \in Nat /\ s0 <= s /\ MovesTo(View, View', n, s, q, o)
  BY Places
<1> HIDE DEF s
<1>2. \A i \in DOMAIN infos' : infos'[i].outs = 0 =>
        \E j \in DOMAIN infos : infos[j].outs = 0 /\ infos[j].id = infos'[i].id
  OBVIOUS
<1> QED BY <1>1, <1>2, CutsMoved

\* doQueueWork() of a work with buffers.
LEMMA LoopBegins ==
  ASSUME ChainInv, NEW f \in Line, Chain!DoQueueWork(f), Chain!Todo(Head(tasks[f]).work) # <<>>
  PROVE  ChainInv'
<1> USE DEF ChainInv
<1>1. Chain!Taken(f, "work")
  BY DEF Chain!DoQueueWork
<1>2. /\ job[f] = NoJob /\ tasks[f] # <<>> /\ 1 \in DOMAIN tasks[f] /\ Head(tasks[f]) = tasks[f][1]
      /\ tasks[f][1].op = "work" /\ tasks[f][1].work \in WorkType
  BY <1>1, HeadOf
<1> DEFINE w == tasks[f][1].work
           J == [work |-> Chain!Entered(w), todo |-> Chain!Todo(w)]
<1>3. /\ tasks' = Chain!Popped(f) /\ job' = [job EXCEPT ![f] = J] /\ finished' = finished
      /\ given' = IF w.inputIndex < 0 THEN Chain!Lost({w.params}, f) ELSE given
      /\ UNCHANGED <<limits, place, works, caller, infos, pending, applied, gone, stray, stale, behind, stops, failures>>
      /\ Chain!Todo(w) # <<>>
  BY <1>2 DEF Chain!DoQueueWork
<1>4. given' = given
  BY <1>3 DEF Chain!Todo
<1>5. w \in Waits[f] /\ AtRest(w, f)
  <2>1. w \in Waits[f]
    BY <1>2 DEF ChainWorks
  <2>2. f \in 1..(NumFilters + 1)
    BY ChainConstants
  <2> QED BY <2>1, <2>2 DEF Waits
<1>6. /\ Chain!Entered(w) \in WorkType /\ Chain!Todo(w) \in Seq(Item)
      /\ Working(Chain!Entered(w), Chain!Todo(w), f) /\ On(w)
      /\ Chain!Entered(w).id = w.id /\ Chain!Entered(w).params = w.params
  BY <1>2, <1>3, <1>5, EnteredIs
<1>7. J \in JobType /\ J.work = Chain!Entered(w) /\ J.todo = Chain!Todo(w)
  BY <1>6 DEF JobType
<1>8. J \in Runs[f]
  BY <1>6, <1>7 DEF Runs
<1>9. w.id >= 1 /\ w.id \in Nat
  BY <1>2, <1>5 DEF AtRest, Real, WorkType
<1>10. J # NoJob
  BY <1>6, <1>9, RealJob
<1>11. J.work.id = w.id /\ J.work.params = w.params
  BY <1>6, <1>7
<1>12. IsWork(tasks[f][1]) /\ StepOf(f, tasks[f][1]) = 4 * f
  BY <1>2 DEF IsWork, StepOf
<1>13. First(View, w.id, 4 * f, w.params) /\ \A x \in View : x.id = w.id => x.on
  BY <1>2, <1>6, <1>12, FirstTask
<1>14. JobFrom(f, f, J, 4 * f)
  BY <1>2, <1>11 DEF JobFrom
<1> HIDE DEF J, w
<1>15. Shifted(f, 0, 0)
  BY <1>1, <1>3, TakingOne
<1>16. ChainWorks' /\ ChainCalls' /\ ChainGone' /\ tasks' \in [Line -> Seq(TaskType)]
       /\ job' \in [Line -> JobType]
  BY <1>3, <1>7, <1>8, <1>14, <1>15, JobKept
<1>17. ChainOrder' /\ MovesTo(View, View', w.id, 4 * f + 1, w.params, TRUE)
  <2>1. applied' \in [Line -> Nat] /\ \A g \in Line : applied'[g] = applied[g]
    BY <1>3 DEF ChainTypes
  <2>2. First(View, J.work.id, 4 * f, w.params)
    BY <1>11, <1>13
  <2> QED BY <1>3, <1>7, <1>10, <1>11, <1>14, <1>15, <2>1, <2>2, JobOrder
<1>18. ChainTypes'
  <2>1. /\ caller \in CallerType /\ infos \in Seq(WorkType) /\ finished \in Seq(WorkType)
           /\ pending \in Nat
        /\ applied \in [Line -> Nat] /\ gone \in 0..works /\ stray \in SUBSET (1..works)
        /\ given \in [Line -> SUBSET (1..works)]
        /\ stale \in BOOLEAN /\ behind \in BOOLEAN /\ stops \in Nat /\ failures \in Nat
    BY DEF ChainTypes
  <2> QED BY <1>3, <1>4, <1>16, <2>1, TypesKept
<1>19. SettingsGo
  <2>1. ASSUME ~behind', NEW g \in Line PROVE Settled(View', given'[g], applied'[g], pending', C', g, Cuts')
    <3>1. Settled(View, given[g], applied[g], pending, C, g, Cuts)
      BY <1>3, <2>1 DEF ChainSettings
    <3>2. View' \in SUBSET ViewType /\ applied[g] \in Nat
      BY DEF View, ChainTypes
    <3>3. Settled(View', given[g], applied[g], pending, C, g, Cuts')
      <4>1. 4 * f \in {4 * f, 4 * f + 1}
        OBVIOUS
      <4>2. \A v \in given[g] : v <= applied[g] => v <= applied[g]
        OBVIOUS
      <4>3. Cuts' \in SUBSET Cuts
        BY <1>3, <1>9, <1>13, <1>17, <4>1, CutsInLoop
      <4> QED BY <1>9, <1>13, <1>17, <3>1, <3>2, <4>1, <4>2, <4>3, JobSettled
    <3>4. applied'[g] = applied[g] /\ pending' = pending /\ C' = C /\ given'[g] = given[g]
      BY <1>3, <1>4 DEF C
    <3> QED BY <3>3, <3>4
  <2>2. stale' => behind'
    BY <1>3 DEF ChainSettings, Chain!SettingsReach
  <2> QED BY <2>1, <2>2 DEF SettingsGo
<1> QED BY <1>16, <1>17, <1>18, <1>19, SettingsGoOn

\* A loop that rests, and a task without a work.
LEMMA NoJobIs ==
  ASSUME ChainTypes
  PROVE  NoJob \in JobType /\ NoJob.work \in WorkType /\ NoJob.work.id = 0 /\ NoJob.todo = <<>>
<1> DEFINE w == NoJob.work
           none == [k \in 0..limits.outs |-> <<>>]
           bs == <<Chain!Buffer(0)>>
<1>1. limits.outs \in Nat
  BY ChainConstants
<1>2. bs \in Seq(Item)
  <2>1. 0 \in 0..limits.outs
    BY <1>1
  <2>2. Chain!Buffer(0) \in Item
    BY <2>1, PlainBuffer
  <2> QED BY <2>2
<1>3. none \in [0..limits.outs -> Seq(Line)]
  OBVIOUS
<1>4. NoJob = [work |-> Chain!NewWork(0, 0, FALSE), todo |-> <<>>]
  BY DEF NoJob, Chain!NoJob, Chain!None
<1>5. Chain!NewWork(0, 0, FALSE) =
        [id |-> 0, buffers |-> bs, inputIndex |-> 0, params |-> 0, csd |-> FALSE,
         in |-> 0, out |-> 0, made |-> none, outs |-> 0, spoiled |-> FALSE]
  BY DEF Chain!NewWork
<1> DEFINE n == Chain!NewWork(0, 0, FALSE)
<1> HIDE DEF none, bs, n
<1>6. n \in WorkType /\ n.id = 0
  <2>1. n = [id |-> 0, buffers |-> bs, inputIndex |-> 0, params |-> 0, csd |-> FALSE,
             in |-> 0, out |-> 0, made |-> none, outs |-> 0, spoiled |-> FALSE]
    BY <1>5 DEF n
  <2> QED BY <1>2, <1>3, <2>1 DEF WorkType
<1>7. NoJob \in JobType /\ NoJob.work = n /\ NoJob.todo = <<>>
  <2>1. NoJob = [work |-> n, todo |-> <<>>]
    BY <1>4 DEF n
  <2>2. <<>> \in Seq(Item)
    OBVIOUS
  <2> QED BY <1>6, <2>1, <2>2 DEF JobType
<1> QED BY <1>4, <1>6, <1>7

\* An answer of the codec goes on from its pool.
LEMMA WorkDone ==
  ASSUME ChainInv, Chain!DoWorkDone
  PROVE  ChainInv'
<1> USE DEF ChainInv
<1>1. C \in Line /\ C \in Nat /\ 4 * C + 3 \in Nat
  BY Places
<1>2. Chain!Taken(C, "done")
  BY DEF Chain!DoWorkDone, C
<1>3. /\ job[C] = NoJob /\ tasks[C] # <<>> /\ 1 \in DOMAIN tasks[C] /\ Head(tasks[C]) = tasks[C][1]
      /\ tasks[C][1].op = "done" /\ tasks[C][1].work \in WorkType
  BY <1>1, <1>2, HeadOf
<1> DEFINE w == tasks[C][1].work
<1>4. /\ Chain!HandOn(C, w, Chain!Popped(C)) /\ job' = job
      /\ UNCHANGED <<limits, place, works, caller, infos, pending, applied, given, gone, stray, stale, behind, stops, failures>>
  BY <1>3 DEF Chain!DoWorkDone, C
<1>5. w \in Waits[C + 1]
  BY <1>1, <1>3 DEF ChainWorks
<1>6. w \in WorkType
  BY <1>3
<1>7. IsWork(tasks[C][1]) /\ StepOf(C, tasks[C][1]) = 4 * C + 3
  BY <1>3 DEF IsWork, StepOf
<1>8. First(View, w.id, 4 * C + 3, w.params) /\ \A x \in View : x.id = w.id => x.on = On(w)
  BY <1>1, <1>3, <1>7, FirstTask
<1>9. w.id \in Nat /\ On(w) \in BOOLEAN
  BY <1>6, OnIs DEF WorkType
<1> HIDE DEF w
<1>10. Handed(C, C, w)
  BY <1>1, <1>2, <1>4, <1>6, HandingOn
<1>11. From(C, C, w)
  BY <1>3, <1>4, <1>7 DEF From, w
<1>12. LeavesFrom(4 * C + 3, C)
  BY DEF LeavesFrom
<1>13. /\ ChainWorks' /\ ChainCalls' /\ ChainGone' /\ tasks' \in [Line -> Seq(TaskType)]
          /\ finished' \in Seq(WorkType)
  BY <1>1, <1>4, <1>5, <1>6, <1>10, <1>11, HandedKept
<1>14. ChainOrder' /\ MovesTo(View, View', w.id, 4 * C + 4, w.params, On(w))
  <2>1. applied' \in [Line -> Nat] /\ \A g \in Line : applied'[g] = applied[g]
    BY <1>4 DEF ChainTypes
  <2> QED BY <1>1, <1>4, <1>6, <1>8, <1>10, <1>11, <1>12, <2>1, HandedOrder
<1>15. ChainTypes'
  <2>1. /\ caller \in CallerType /\ job \in [Line -> JobType] /\ infos \in Seq(WorkType)
           /\ pending \in Nat
        /\ applied \in [Line -> Nat] /\ gone \in 0..works /\ stray \in SUBSET (1..works)
        /\ given \in [Line -> SUBSET (1..works)]
        /\ stale \in BOOLEAN /\ behind \in BOOLEAN /\ stops \in Nat /\ failures \in Nat
    BY DEF ChainTypes
  <2> QED BY <1>4, <1>13, <2>1, TypesKept
<1>16. SettingsGo
  <2>1. ASSUME ~behind', NEW g \in Line PROVE Settled(View', given'[g], applied'[g], pending', C', g, Cuts')
    <3>1. Settled(View, given[g], applied[g], pending, C, g, Cuts)
      BY <1>4, <2>1 DEF ChainSettings
    <3>2. View' \in SUBSET ViewType /\ given[g] \in SUBSET given[g] /\ applied[g] \in Nat
      BY DEF View, ChainTypes
    <3>3. ~(4 * C + 3 # 4 * C + 3)
      OBVIOUS
    <3>4. \A v \in given[g] : v <= applied[g] => v <= applied[g]
      OBVIOUS
    <3>5. \A x \in View : x.id = w.id => (x.on <=> On(w))
      BY <1>8
    <3>6. ~(4 * C + 3 = 4 * C) /\ C = C
      BY <1>1
    <3>7. Cuts' \in SUBSET Cuts
      BY <1>1, <1>4, <1>8, <1>9, <1>12, <1>14, CutsHanded
    <3>8. Settled(View', given[g], applied[g], pending, C, g, Cuts')
      BY <1>1, <1>8, <1>9, <1>12, <1>14, <3>1, <3>2, <3>3, <3>4, <3>5, <3>6, <3>7, HandedSettled
    <3>9. applied'[g] = applied[g] /\ pending' = pending /\ C' = C /\ given'[g] = given[g]
      BY <1>4 DEF C
    <3> QED BY <3>9, <3>8
  <2>2. stale' => behind'
    BY <1>4 DEF ChainSettings, Chain!SettingsReach
  <2> QED BY <2>1, <2>2 DEF SettingsGo
<1> QED BY <1>13, <1>14, <1>15, <1>16, SettingsGoOn

\* doProcess() of a buffer: the loop goes on with the others, ...
LEMMA GoingOn ==
  ASSUME ChainInv, NEW f \in Line, f # C, job[f] # NoJob, Chain!Apply(f, job[f].work),
         NEW next \in WorkType, next.id = job[f].work.id, next.params = job[f].work.params,
         Working(next, Tail(job[f].todo), f), Tail(job[f].todo) \in Seq(Item),
         job' = [job EXCEPT ![f] = [work |-> next, todo |-> Tail(job[f].todo)]],
         UNCHANGED <<tasks, finished, limits, place, works, caller, infos, pending, given, gone, stray, behind, stops, failures>>
  PROVE  ChainInv'
<1> USE DEF ChainInv
<1> DEFINE w == job[f].work
           J == [work |-> next, todo |-> Tail(job[f].todo)]
<1>1. /\ applied' \in [Line -> Nat] /\ stale' \in BOOLEAN
      /\ \A g \in Line : g # f => applied'[g] = applied[g]
      /\ applied'[f] <= w.id
      /\ stale' => behind
      /\ ~behind => \A v \in given[f] : v <= applied[f] => v <= applied'[f]
  BY Applying
<1>2. J \in JobType /\ J.work = next
  BY DEF JobType
<1>3. J \in Runs[f]
  BY <1>2 DEF Runs
<1>4. w.id \in Nat /\ w \in WorkType /\ w.id >= 1
  <2>1. w \in WorkType
    BY Places
  <2>2. w.id >= 1
    <3>1. job[f] \in Runs[f]
      BY DEF ChainWorks
    <3> QED BY <3>1 DEF Runs, Working, Real
  <2> QED BY <2>1, <2>2 DEF WorkType
<1>5. J # NoJob
  BY <1>4, RealJob
<1>6. /\ First(View, w.id, 4 * f + 1, w.params)
      /\ \A x \in View : x.id = w.id => x.on
  BY FirstJob
<1>7. J.work.id = w.id /\ J.work.params = w.params
  BY <1>2
<1>8. JobFrom(0, f, J, 4 * f + 1)
  BY <1>7 DEF JobFrom
<1>9. job' = [job EXCEPT ![f] = J]
  OBVIOUS
<1> HIDE DEF J, w
<1>10. Shifted(0, 0, 0)
  BY NothingShifted
<1>11. ChainWorks' /\ ChainCalls' /\ ChainGone' /\ tasks' \in [Line -> Seq(TaskType)]
       /\ job' \in [Line -> JobType]
  BY <1>2, <1>3, <1>8, <1>9, <1>10, JobKept
<1>12. ChainOrder' /\ MovesTo(View, View', w.id, 4 * f + 1, w.params, TRUE)
  <2>1. \A g \in Line : applied'[g] = applied[g] \/ (4 * f + 1 = 4 * g + 1 /\ applied'[g] <= J.work.id)
    BY <1>1, <1>7
  <2>2. First(View, J.work.id, 4 * f + 1, w.params)
    BY <1>6, <1>7
  <2>3. ChainOrder' /\ MovesTo(View, View', J.work.id, 4 * f + 1, J.work.params, TRUE)
    BY <1>1, <1>2, <1>5, <1>8, <1>9, <1>10, <2>1, <2>2, JobOrder
  <2> QED BY <1>7, <2>3
<1>13. ChainTypes'
  <2>1. /\ caller \in CallerType /\ infos \in Seq(WorkType) /\ finished \in Seq(WorkType)
           /\ pending \in Nat
        /\ gone \in 0..works /\ stray \in SUBSET (1..works)
        /\ given \in [Line -> SUBSET (1..works)]
        /\ behind \in BOOLEAN /\ stops \in Nat /\ failures \in Nat
    BY DEF ChainTypes
  <2> QED BY <1>1, <1>11, <2>1, TypesKept
<1>14. SettingsGo
  <2>1. ASSUME ~behind', NEW g \in Line PROVE Settled(View', given'[g], applied'[g], pending', C', g, Cuts')
    <3>1. Settled(View, given[g], applied[g], pending, C, g, Cuts)
      BY <2>1 DEF ChainSettings
    <3>2. View' \in SUBSET ViewType /\ applied'[g] \in Nat
      BY <1>1 DEF View
    <3>3. \A v \in given[g] : v <= applied[g] => v <= applied'[g]
      <4>1. CASE g = f
        BY <1>1, <2>1, <4>1
      <4>2. CASE g # f
        BY <1>1, <4>2
      <4> QED BY <4>1, <4>2
    <3>4. 4 * f + 1 \in {4 * f, 4 * f + 1}
      OBVIOUS
    <3>5. Cuts' \in SUBSET Cuts
      BY <1>4, <1>6, <1>12, <3>4, CutsInLoop
    <3>6. Settled(View', given[g], applied'[g], pending, C, g, Cuts')
      BY <1>4, <1>6, <1>12, <3>1, <3>2, <3>3, <3>4, <3>5, JobSettled
    <3>7. pending' = pending /\ C' = C /\ given'[g] = given[g]
      BY DEF C
    <3> QED BY <3>6, <3>7
  <2> QED BY <1>1, <2>1 DEF SettingsGo
<1> QED BY <1>11, <1>12, <1>13, <1>14, SettingsGoOn

\* ... or the work goes to the next filter.
LEMMA GoneOn ==
  ASSUME ChainInv, NEW f \in Line, f # C, job[f] # NoJob, Chain!Apply(f, job[f].work),
         NEW next \in WorkType, next.id = job[f].work.id, next.params = job[f].work.params,
         AtRest(next, f + 1), On(next), Chain!HandOn(f, next, tasks),
         job' = [job EXCEPT ![f] = NoJob],
         UNCHANGED <<limits, place, works, caller, infos, pending, given, gone, stray, behind, stops, failures>>
  PROVE  ChainInv'
<1> USE DEF ChainInv
<1>1. f + 1 \in 1..(NumFilters + 1) /\ f \in Nat /\ C \in Nat
  BY Places
<1>2. /\ applied' \in [Line -> Nat] /\ stale' \in BOOLEAN
      /\ \A g \in Line : g # f => applied'[g] = applied[g]
      /\ applied'[f] <= job[f].work.id
      /\ job[f].work.params # 0 => applied'[f] = job[f].work.params
      /\ stale' => behind
      /\ ~behind => \A v \in given[f] : v <= applied[f] => v <= applied'[f]
  BY Applying
<1>3. next \in Waits[f + 1]
  BY <1>1 DEF Waits
<1>4. next.id \in Nat /\ next.params \in Nat
  BY DEF WorkType
<1>5. /\ First(View, next.id, 4 * f + 1, next.params)
      /\ \A x \in View : x.id = next.id => x.on
  BY FirstJob
<1>6. Handed(0, f, next)
  BY Handing
<1>7. NoJob \in JobType /\ job \in [Line -> JobType]
  <2>1. job \in [Line -> JobType]
    BY DEF ChainTypes
  <2> QED BY <2>1, NoJobIs
<1>8. job' \in [Line -> JobType] /\ \A g \in Line : job'[g] = IF g = f THEN NoJob ELSE job[g]
  BY <1>7
<1>9. From(0, f, next)
  BY <1>8 DEF From
<1>10. LeavesFrom(4 * f + 1, f)
  BY DEF LeavesFrom
<1>11. /\ ChainWorks' /\ ChainCalls' /\ ChainGone' /\ tasks' \in [Line -> Seq(TaskType)]
          /\ finished' \in Seq(WorkType)
  BY <1>3, <1>6, <1>9, HandedKept
<1>12. ChainOrder' /\ MovesTo(View, View', next.id, 4 * f + 4, next.params, On(next))
  <2>1. \A g \in Line : applied'[g] = applied[g] \/ (4 * f + 1 = 4 * g + 1 /\ applied'[g] <= next.id)
    BY <1>2
  <2> QED BY <1>2, <1>5, <1>6, <1>9, <1>10, <2>1, HandedOrder
<1>13. ChainTypes'
  <2>1. /\ caller \in CallerType /\ infos \in Seq(WorkType) /\ pending \in Nat
        /\ gone \in 0..works /\ stray \in SUBSET (1..works)
        /\ given \in [Line -> SUBSET (1..works)]
        /\ behind \in BOOLEAN /\ stops \in Nat /\ failures \in Nat
    BY DEF ChainTypes
  <2> QED BY <1>2, <1>8, <1>11, <2>1, TypesKept
<1>14. SettingsGo
  <2>1. ASSUME ~behind', NEW g \in Line PROVE Settled(View', given'[g], applied'[g], pending', C', g, Cuts')
    <3>1. Settled(View, given[g], applied[g], pending, C, g, Cuts)
      BY <2>1 DEF ChainSettings
    <3>2. View' \in SUBSET ViewType /\ given[g] \in SUBSET given[g] /\ applied'[g] \in Nat
      BY <1>2 DEF View
    <3>3. g = f /\ On(next) /\ 4 * f + 1 # 4 * f + 3 => \A v \in given[g] : next.params >= v
          => v <= applied'[g]
      <4>1. given[g] \in SUBSET (1..works) /\ works \in Nat
        BY DEF ChainTypes
      <4> QED BY <1>2, <1>4, <4>1
    <3>4. \A v \in given[g] : v <= applied[g] => v <= applied'[g]
      <4>1. CASE g = f
        BY <1>2, <2>1, <4>1
      <4>2. CASE g # f
        BY <1>2, <4>2
      <4> QED BY <4>1, <4>2
    <3>5. \A x \in View : x.id = next.id => (x.on <=> On(next))
      BY <1>5
    <3>6. (4 * f + 1 = 4 * f => f > C) /\ (4 * f + 1 = 4 * f + 3 => f = C) /\ On(next) \in BOOLEAN
      BY <1>1, OnIs
    <3> DEFINE n == next.id
               q == next.params
               o == On(next)
               s == 4 * f + 1
    <3>7. /\ n \in Nat /\ First(View, n, s, q) /\ LeavesFrom(s, f) /\ \A x \in View : x.id = n
             => (x.on <=> o)
          /\ MovesTo(View, View', n, 4 * f + 4, q, o) /\ o \in BOOLEAN
          /\ g = f /\ o /\ s # 4 * f + 3 => \A v \in given[g] : q >= v => v <= applied'[g]
          /\ (s = 4 * f => f > C) /\ (s = 4 * f + 3 => f = C)
      BY <1>4, <1>5, <1>10, <1>12, <3>3, <3>5, <3>6
    <3> HIDE DEF n, q, o, s
    <3>8. Cuts' \in SUBSET Cuts
      BY <3>7, CutsHanded
    <3>9. Settled(View', given[g], applied'[g], pending, C, g, Cuts')
      BY <3>1, <3>2, <3>4, <3>7, <3>8, HandedSettled
    <3>10. pending' = pending /\ C' = C /\ given'[g] = given[g]
      BY DEF C
    <3> QED BY <3>9, <3>10
  <2> QED BY <1>2, <2>1 DEF SettingsGo
<1> QED BY <1>11, <1>12, <1>13, <1>14, SettingsGoOn

\* doProcess() of the next buffer: it is processed, or passes.
LEMMA Processing ==
  ASSUME ChainInv, NEW f \in Line, Chain!DoProcess(f)
  PROVE  ChainInv'
<1> USE DEF ChainInv
<1> DEFINE w == job[f].work
           d == job[f].todo
<1>1. f # C /\ job[f] # NoJob /\ Chain!Apply(f, w)
      /\ UNCHANGED <<limits, place, works, caller, infos, pending, given, gone, stray, behind, stops, failures>>
  BY DEF Chain!DoProcess, C, NoJob
<1>2. Working(w, d, f) /\ w \in WorkType /\ d \in Seq(Item)
  <2>1. job[f] \in Runs[f]
    BY <1>1 DEF ChainWorks
  <2> QED BY <2>1 DEF Runs, JobType
<1>3. PICK next \in {Chain!Bypassed(w, Head(d), f)} \cup (IF Head(d).replica THEN {} ELSE {Chain!Processed(w, Head(d), f)}) :
        IF next.in > next.out
        THEN job' = [job EXCEPT ![f] = [work |-> next, todo |-> Tail(@.todo)]]
        /\ UNCHANGED <<tasks, finished>>
        ELSE job' = [job EXCEPT ![f] = NoJob] /\ Chain!HandOn(f, next, tasks)
  BY DEF Chain!DoProcess, NoJob
<1>4. DoneWith(next, w, d, f)
  <2>1. CASE next = Chain!Bypassed(w, Head(d), f)
    BY <1>1, <1>2, <2>1, BypassedIs
  <2>2. CASE next = Chain!Processed(w, Head(d), f) /\ ~Head(d).replica
    BY <1>1, <1>2, <2>2, ProcessedIs
  <2> QED BY <1>3, <2>1, <2>2
<1>5. Tail(d) \in Seq(Item)
  BY <1>1, <1>2, HeadIs
<1> HIDE DEF ChainInv
<1>6. CASE next.in > next.out
  <2>1. job' = [job EXCEPT ![f] = [work |-> next, todo |-> Tail(d)]]
        /\ UNCHANGED <<tasks, finished>>
    BY <1>3, <1>6
  <2> QED BY <1>1, <1>4, <1>5, <1>6, <2>1, GoingOn DEF DoneWith
<1>7. CASE ~(next.in > next.out)
  BY <1>1, <1>3, <1>4, <1>7, GoneOn DEF DoneWith
<1> QED BY <1>6, <1>7

\* Works that are dropped leave the others in their order.
Follows == \A f \in Line : \A i, j \in DOMAIN tasks'[f] :
  i < j /\ IsWork(tasks'[f][i]) /\ IsWork(tasks'[f][j]) =>
    \E k, l \in DOMAIN tasks[f] : k < l /\ tasks'[f][i] = tasks[f][k] /\ tasks'[f][j] = tasks[f][l]

\* Works that are dropped leave the order of the others as it was.
LEMMA DroppedOrder ==
  ASSUME ChainTypes, ChainOrder, place' = place, View' \in SUBSET View, Follows,
         infos' = infos \/ infos' = <<>>, finished' = finished, pending' = pending \/ pending' = 0,
         \A f \in Line : \A r \in View' :
           (r.st <= 4 * f => applied'[f] < r.id) /\ (r.st = 4 * f + 1 => applied'[f] <= r.id)
  PROVE  ChainOrder'
<1>1. C' = C
  BY DEF C
<1>2. Ordered(View')
  BY DEF ChainOrder, Ordered
<1>3. ASSUME NEW f \in Line, NEW i \in DOMAIN tasks'[f], NEW j \in DOMAIN tasks'[f],
             i < j, tasks'[f][i].op = tasks'[f][j].op, tasks'[f][i].op \in {"work", "done"}
      PROVE  tasks'[f][i].work.id < tasks'[f][j].work.id
  <2>1. PICK k, l \in DOMAIN tasks[f] : k < l /\ tasks'[f][i] = tasks[f][k] /\ tasks'[f][j] = tasks[f][l]
    BY <1>3 DEF Follows, IsWork
  <2> QED BY <1>3, <2>1 DEF ChainOrder
<1>4. Rising(infos') /\ Rising(finished')
  <2>1. Rising(<<>>)
    BY DEF Rising
  <2> QED BY <2>1 DEF ChainOrder
<1>5. \A r \in View' : r.st <= 4 * C' + 2 => pending' < r.id
  <2> SUFFICES ASSUME NEW r \in View', r.st <= 4 * C' + 2 PROVE pending' < r.id
    OBVIOUS
  <2>1. r \in View /\ pending < r.id /\ r.id \in Nat /\ pending \in Nat
    BY <1>1 DEF ChainOrder, ChainTypes, View, ViewType
  <2> QED BY <2>1
<1>6. \A i \in DOMAIN infos' : infos'[i].outs > 0 => i = 1 /\ pending' = 0
  <2> SUFFICES ASSUME NEW i \in DOMAIN infos', infos'[i].outs > 0 PROVE i = 1 /\ pending' = 0
    OBVIOUS
  <2>1. infos' = infos
    OBVIOUS
  <2> QED BY <2>1 DEF ChainOrder
<1> QED BY <1>2, <1>3, <1>4, <1>5, <1>6 DEF ChainOrder

\* doProcess() fails: the work is gone, and its setting with it.
LEMMA Failing ==
  ASSUME ChainInv, NEW f \in Line, Chain!DoProcessFails(f)
  PROVE  ChainInv'
<1> USE DEF ChainInv
<1>1. ~(0 \in Line) /\ f \in Nat /\ f + 1 \in Nat /\ C \in Nat /\ \A g \in Line : g \in Nat
  BY Places DEF Line, Chain!Filters
<1> DEFINE w == job[f].work
<1>2. /\ job[f] # NoJob /\ Chain!Apply(f, w) /\ given' = Chain!Lost({w.params}, f + 1)
      /\ job' = [job EXCEPT ![f] = NoJob] /\ failures' = failures + 1
      /\ UNCHANGED <<limits, place, works, caller, tasks, infos, pending, finished, gone, stray, behind, stops>>
  BY DEF Chain!DoProcessFails, NoJob
<1>3. /\ applied' \in [Line -> Nat] /\ stale' \in BOOLEAN
      /\ \A g \in Line : g # f => applied'[g] = applied[g]
      /\ applied'[f] <= w.id
      /\ w.params # 0 => applied'[f] = w.params
      /\ stale' => behind
      /\ ~behind => \A v \in given[f] : v <= applied[f] => v <= applied'[f]
  BY <1>2, Applying
<1>4. /\ First(View, w.id, 4 * f + 1, w.params)
      /\ \A x \in View : x.st = 4 * f + 1 => x.id = w.id /\ x.on
  BY <1>2, FirstJob
<1>5. w.id \in Nat /\ w.params \in 0..works /\ w \in WorkType /\ w.params \in Nat
  <2>1. w \in WorkType
    BY Places
  <2>2. w.params <= w.id /\ w.id <= works
    <3>1. job[f] \in Runs[f]
      BY <1>2 DEF ChainWorks
    <3> QED BY <3>1 DEF Runs, Working, Real
  <2>3. works \in Nat
    BY DEF ChainTypes
  <2> QED BY <2>1, <2>2, <2>3 DEF WorkType
<1>6. job' \in [Line -> JobType] /\ \A g \in Line : job'[g] = IF g = f THEN NoJob ELSE job[g]
  <2>1. job \in [Line -> JobType] /\ NoJob \in JobType
    BY NoJobIs DEF ChainTypes
  <2> QED BY <1>2, <2>1
<1> HIDE DEF w
<1>7. /\ given' \in [Line -> SUBSET (1..works)] /\ \A g \in Line : given'[g] \subseteq given[g]
      /\ \A g \in Line : g >= f + 1 => \A v \in given'[g] : v > w.params
  <2> DEFINE lost == {w.params}
             none == {}
             e == f + 1
  <2>1. lost \in SUBSET (0..works) /\ none \in SUBSET (0..works) /\ e \in Nat
    BY <1>1, <1>5
  <2>2. given' = Chain!Lost2(lost, e, none)
    BY <1>2 DEF Chain!Lost
  <2> HIDE DEF lost, none, e
  <2>3. /\ Chain!Lost2(lost, e, none) \in [Line -> SUBSET (1..works)]
        /\ \A g \in Line : Chain!Lost2(lost, e, none)[g] \subseteq given[g]
        /\ \A g \in Line : g >= e => \A v \in Chain!Lost2(lost, e, none)[g] : \A u \in lost : v > u
    BY <2>1, LostIs
  <2> QED BY <2>2, <2>3 DEF lost, e
<1>8. Shifted(0, 0, 0)
  BY <1>2, NothingShifted
<1>9. ChainWorks'
  <2>1. \A g \in Line : job'[g] = NoJob \/ job'[g] = job[g] \/ job'[g] \in Runs[g]'
    BY <1>6
  <2>2. \A i \in DOMAIN infos' : infos'[i] \in Waits[C + 1]' \/ \E j \in DOMAIN infos : infos'[i] = infos[j]
    BY <1>2
  <2>3. \A i \in DOMAIN finished' : \/ finished'[i] \in Waits[NumFilters + 1]'
                                    \/ \E j \in DOMAIN finished : finished'[i] = finished[j]
    BY <1>2
  <2> QED BY <1>1, <1>8, <2>1, <2>2, <2>3, WaitsKept
<1>10. ChainCalls'
  <2>1. \A g \in Line : job'[g] = NoJob \/ job[g] # NoJob \/ (g = 0 /\ tasks[0][1].op = "work")
    BY <1>6
  <2>2. infos' = <<>> \/ infos # <<>> \/ job[C] # NoJob
    BY <1>2
  <2> QED BY <1>1, <1>8, <2>1, <2>2, CallsKept
<1>11. ChainGone'
  <2>1. \A g \in Line : job'[g] = NoJob \/ job'[g] = job[g] \/ (Left(g) => Old(job'[g].work.id))
    BY <1>6
  <2>2. Left(C)
        => \A i \in DOMAIN infos' : Old(infos'[i].id) \/ \E j \in DOMAIN infos : infos'[i].id = infos[j].id
    BY <1>2
  <2> QED BY <1>1, <1>8, <2>1, <2>2, RemnantsKept
<1>12. ChainTypes'
  <2>1. /\ caller \in CallerType /\ infos \in Seq(WorkType) /\ finished \in Seq(WorkType)
           /\ pending \in Nat
        /\ gone \in 0..works /\ stray \in SUBSET (1..works) /\ tasks \in [Line -> Seq(TaskType)]
        /\ behind \in BOOLEAN /\ stops \in Nat /\ failures \in Nat /\ failures + 1 \in Nat
    BY DEF ChainTypes
  <2> QED BY <1>2, <1>3, <1>6, <1>7, <2>1, TypesKept
<1>13. NoJob' = NoJob /\ C' = C
  BY <1>2 DEF NoJob, Chain!NoJob, Chain!NewWork, C
<1>14. /\ View' \in SUBSET View
       /\ \A x \in View : x \in View' \/ (x.st = 4 * f + 1 /\ x.params = w.params)
  <2>1. \A x : x \in View' <=>
           /\ x \in ViewType
           /\ \/ \E g \in Line : \E i \in DOMAIN tasks'[g] : SeesTask(x, g, tasks'[g][i])
              \/ \E g \in Line : job'[g] # NoJob /\ Sees(x, 4 * g + 1, job'[g].work, TRUE)
              \/ \E i \in DOMAIN infos' : Sees(x, 4 * C + 2, infos'[i], TRUE)
              \/ \E i \in DOMAIN finished' : Sees(x, 4 * NumFilters + 4, finished'[i], On(finished'[i]))
    BY <1>2, <1>13, ViewThen
  <2>2. \A x : x \in View <=>
           /\ x \in ViewType
           /\ \/ \E g \in Line : \E i \in DOMAIN tasks[g] : SeesTask(x, g, tasks[g][i])
              \/ \E g \in Line : job[g] # NoJob /\ Sees(x, 4 * g + 1, job[g].work, TRUE)
              \/ \E i \in DOMAIN infos : Sees(x, 4 * C + 2, infos[i], TRUE)
              \/ \E i \in DOMAIN finished : Sees(x, 4 * NumFilters + 4, finished[i], On(finished[i]))
    BY DEF View, InTasks, InJobs, InInfos, InFinished
  <2>3. ASSUME NEW x \in View' PROVE x \in View
    <3>1. CASE \E g \in Line : job'[g] # NoJob /\ Sees(x, 4 * g + 1, job'[g].work, TRUE)
      BY <1>6, <2>1, <2>2, <3>1
    <3> QED BY <1>2, <2>1, <2>2, <3>1
  <2>4. ASSUME NEW x \in View PROVE x \in View' \/ (x.st = 4 * f + 1 /\ x.params = w.params)
    <3>1. CASE \E g \in Line : job[g] # NoJob /\ Sees(x, 4 * g + 1, job[g].work, TRUE)
      <4>1. PICK g \in Line : job[g] # NoJob /\ Sees(x, 4 * g + 1, job[g].work, TRUE)
        BY <3>1
      <4>2. CASE g = f
        BY <4>1, <4>2 DEF Sees, w
      <4>3. CASE g # f
        BY <1>6, <2>1, <2>2, <4>1, <4>3
      <4> QED BY <4>2, <4>3
    <3> QED BY <1>2, <2>1, <2>2, <3>1
  <2> QED BY <2>3, <2>4
<1>15. ChainOrder'
  <2>1. ASSUME NEW g \in Line, NEW r \in View'
        PROVE  (r.st <= 4 * g => applied'[g] < r.id) /\ (r.st = 4 * g + 1 => applied'[g] <= r.id)
    <3>1. r \in View /\ r.st \in Nat /\ r.id \in Nat
      BY <1>14 DEF View, ViewType
    <3>2. CASE g # f
      BY <1>3, <3>1, <3>2 DEF ChainOrder
    <3>3. CASE g = f
      <4>1. PICK z \in View : z.st = 4 * f + 1 /\ z.id = w.id
        BY <1>4 DEF First
      <4>2. r.st <= 4 * f => r.id > w.id
        BY <1>1, <3>1, <4>1 DEF ChainOrder, Ordered
      <4>3. r.st = 4 * f + 1 => r.id = w.id
        BY <1>4, <3>1
      <4>4. applied'[f] \in Nat
        BY <1>3
      <4> QED BY <1>3, <1>5, <3>1, <3>3, <4>2, <4>3, <4>4
    <3> QED BY <3>2, <3>3
  <2>2. Follows
    BY <1>2 DEF Follows
  <2> QED BY <1>2, <1>14, <2>1, <2>2, DroppedOrder
<1>16. SettingsGo
  <2>1. ASSUME ~behind', NEW g \in Line PROVE Settled(View', given'[g], applied'[g], pending', C', g, Cuts')
    <3>1. Settled(View, given[g], applied[g], pending, C, g, Cuts)
      BY <1>2, <2>1 DEF ChainSettings
    <3>2. /\ View \in SUBSET ViewType /\ given'[g] \in SUBSET given[g] /\ applied'[g] \in Nat
             /\ applied[g] \in Nat
          /\ given[g] \in SUBSET (Nat \ {0}) /\ pending \in Nat
      <4>1. given[g] \in SUBSET (1..works) /\ works \in Nat /\ pending \in Nat /\ applied[g] \in Nat
        BY DEF ChainTypes
      <4> QED BY <1>3, <1>7, <4>1 DEF View
    <3>3. \A v \in given'[g] : \A x \in View : Within(x, 4 * g + 1) /\ x.params >= v =>
            x \in View' \/ (v <= applied'[g] /\ x.st = 4 * g + 1)
      <4> SUFFICES ASSUME NEW v \in given'[g], NEW x \in View, x.st <= 4 * g + 1, x.params >= v,
                          ~(x \in View')
                   PROVE  v <= applied'[g] /\ x.st = 4 * g + 1
        BY DEF Within
      <4>1. x.st = 4 * f + 1 /\ x.params = w.params /\ v \in Nat /\ v # 0
        BY <1>14, <3>2
      <4>2. g >= f /\ ~(g >= f + 1)
        BY <1>1, <1>5, <1>7, <4>1
      <4>3. g = f
        BY <1>1, <4>2
      <4> QED BY <1>3, <1>5, <4>1, <4>3
    <3>4. \A v \in given'[g] : v <= applied[g] => v <= applied'[g]
      <4>1. CASE g = f
        BY <1>2, <1>3, <1>7, <2>1, <4>1
      <4>2. CASE g # f
        BY <1>3, <4>2
      <4> QED BY <4>1, <4>2
    <3>5. Cuts' \in SUBSET Cuts /\ Cuts \in SUBSET Nat
      BY <1>2, <1>14, CutsLeft
    <3>6. Settled(View', given'[g], applied'[g], pending, C, g, Cuts')
      BY <1>1, <1>14, <3>1, <3>2, <3>3, <3>4, <3>5, SettledDropped
    <3>7. pending' = pending
      BY <1>2
    <3> QED BY <1>13, <3>6, <3>7
  <2> QED BY <1>2, <1>3, <2>1 DEF SettingsGo
<1> QED BY <1>9, <1>10, <1>11, <1>12, <1>15, <1>16, SettingsGoOn

=============================================================================
