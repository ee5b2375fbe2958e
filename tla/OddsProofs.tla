------------------------------ MODULE OddsProofs ------------------------------
(***************************************************************************)
(* Proofs about Odds for any managers, squads, lineups, projections,       *)
(* shares, draws and gameweeks.                                            *)
(*                                                                         *)
(* What a season scores is a sum over the players, a fold of               *)
(* FiniteSetsExt.  The lemmas of the first part come from unfolding that   *)
(* fold to the function it chooses; what they say of every finite set is   *)
(* shown on a least counterexample.                                        *)
(***************************************************************************)
EXTENDS Odds, SequenceTheorems, FiniteSetTheorems, TLAPS

(* The multiplier of every player, as in a locked lineup or a best eleven;  *)
(* and at most one of them wears the armband.                               *)
Lineup == [Players -> 0..3]
OneBoosted(l) == \A p, q \in Players : l[p] > 1 /\ l[q] > 1 => p = q

(* What the captaincy table credits a manager with for the armband on c:    *)
(* Deltas, without the record around it.                                    *)
Delta(l, points, keep, c) ==
  keep * (points[c] * (Armband(l) - l[c])
          + Sum([o \in Boosted(l) \ {c} |-> points[o] * (1 - l[o])]))

(* The field of the gameweek at hand, and what manager m gains in it with a *)
(* lineup on a draw.                                                        *)
LineupField == Field([m \in Managers |-> Own(m)])
Season(m, lineup, points, adjustment) ==
  Score(Weights(lineup, LineupField, Kept[m][offset]), points) + Autosubs(lineup)
    + Scale * adjustment[m]

(* The lineup of the season that is played in full with the armband on c.   *)
Played(m, c) ==
  IF offset = decision /\ Own(m)[c] > 0 THEN WithArmband(Own(m), c) ELSE Own(m)

(* Up to the decision gameweek every season with another captain is the     *)
(* manager's own; from then on it is their own and the table's entry.       *)
TableOfSeasons ==
  \A m \in Managers :
    /\ offset <= decision => \A c \in Squad[m] : moved[m][c] = totals[m]
    /\ offset > decision =>
         \A c \in Candidates(m) : moved[m][c] = totals[m] + options[m].deltas[c]

(* In the table the captain they have adds nothing.                         *)
CaptainAddsNothing ==
  offset > decision => \A m \in Managers :
    options[m].captain \in Candidates(m) => options[m].deltas[options[m].captain] = 0

(* The user's captain move to c, and whether c may be given the armband of  *)
(* the lineup that is locked.                                               *)
CaptainMove(c) == [kind |-> "captain", player |-> c]
Locked(c) == locked[User][c] > 0

(* Gameweek by gameweek the baseline is the user's own row, and a captain   *)
(* move that changes nothing but who wears the armband is the season played *)
(* in full with that captain.                                               *)
ScenariosInStep ==
  /\ scenarios[Baseline] = totals[User]
  /\ decision = 1 /\ locked[User] # None =>
       /\ offset > 1 => \A c \in Candidates(User) : Locked(c)
       /\ Armband(locked[User]) = 2 =>
            \A c \in Squad[User] : Locked(c) => scenarios[CaptainMove(c)] = moved[User][c]

IInv == TypeOK /\ TableOfSeasons /\ CaptainAddsNothing /\ ScenariosInStep

-----------------------------------------------------------------------------
(* A set of naturals that is not empty has a least element.                 *)
LEMMA LeastNatural ==
  ASSUME NEW S, S \subseteq Nat, S # {}
  PROVE  \E x \in S : \A y \in S : x <= y
<1> DEFINE R == {ss \in Nat \X Nat : ss[1] < ss[2]}
<1>1. IsWellFoundedOn(R, Nat)
  BY NatLessThanWellFounded, Zenon DEF OpToRel
<1>2. ASSUME NEW x \in Nat, NEW y \in Nat, y < x
      PROVE  <<y, x>> \in R
  BY <1>2
<1> HIDE DEF R
<1>3. PICK x \in S : \A y \in S : ~(<<y, x>> \in R)
  BY <1>1, WFMin, Zenon
<1>4. \A y \in S : ~(y < x) /\ x \in Nat /\ y \in Nat
  BY <1>2, <1>3
<1> QED
  BY <1>4

(* What holds of a subset of a finite set whenever it holds of all smaller  *)
(* ones holds of every subset: a least counterexample is none.              *)
LEMMA SubsetInduction ==
  ASSUME NEW S, IsFiniteSet(S), NEW Q,
         \A U \in SUBSET S : (\A V \in SUBSET U : V # U => V \in Q) => U \in Q
  PROVE  \A U \in SUBSET S : U \in Q
<1> DEFINE R == StrictSubsetOrdering(S)
           Bad == {U \in SUBSET S : U \notin Q}
<1>1. IsWellFoundedOn(R, FiniteSubsetsOf(S))
  BY FS_StrictSubsetOrderingWellFounded
<1>2. Bad \subseteq FiniteSubsetsOf(S)
  BY FS_Subset DEF FiniteSubsetsOf
<1>3. ASSUME NEW U \in SUBSET S, NEW V \in SUBSET U, V # U
      PROVE  <<V, U>> \in R
  BY <1>3 DEF StrictSubsetOrdering
<1> HIDE DEF R
<1>4. ASSUME NEW T, T \subseteq FiniteSubsetsOf(S), T # {}
      PROVE  \E U \in T : \A V \in T : ~(<<V, U>> \in R)
  <2> DEFINE F == FiniteSubsetsOf(S)
  <2>1. IsWellFoundedOn(R, F) /\ T \subseteq F
    BY <1>1, <1>4
  <2> HIDE DEF F
  <2> QED
    BY <1>4, <2>1, WFMin
<1>5. ASSUME NEW W \in Bad PROVE FALSE
  <2>1. Bad # {}
    BY <1>5
  <2>2. PICK U \in Bad : \A V \in Bad : ~(<<V, U>> \in R)
    <3> HIDE DEF Bad
    <3> QED
      BY <1>2, <1>4, <2>1
  <2>3. \A V \in SUBSET U : V # U => V \in Q
    <3>1. ASSUME NEW V \in SUBSET U, V # U PROVE V \in Q
      <4>1. V \in SUBSET S /\ <<V, U>> \in R
        BY <1>3, <3>1
      <4> QED
        BY <2>2, <4>1
    <3> QED
      BY <3>1
  <2> QED
    BY <2>2, <2>3
<1> QED
  BY <1>5

(* The element a fold takes first; and the sums of f over all subsets of S  *)
(* at once, as the fold adds them up.                                       *)
Chosen(s) == CHOOSE x \in s : TRUE
Tallies(g, f, S) ==
  g = [s \in SUBSET S |-> IF s = {} THEN 0 ELSE f[Chosen(s)] + g[s \ {Chosen(s)}]]

(* There is such a function: one for the subsets of at most n elements      *)
(* extends to those of n + 1.                                               *)
LEMMA TallyExists ==
  ASSUME NEW f, NEW S, IsFiniteSet(S)
  PROVE  \E g : Tallies(g, f, S)
<1> DEFINE Upto(n) == {s \in SUBSET S : Cardinality(s) <= n}
           Part(g, n) ==
             g = [s \in Upto(n) |-> IF s = {} THEN 0 ELSE f[Chosen(s)] + g[s \ {Chosen(s)}]]
           Good == {n \in Nat : \E g : Part(g, n)}
<1>1. \A s \in SUBSET S : IsFiniteSet(s) /\ Cardinality(s) \in Nat
  BY FS_Subset, FS_CardinalityType
<1>2. ASSUME NEW s \in SUBSET S, s # {}
      PROVE  /\ Chosen(s) \in s
             /\ s \ {Chosen(s)} \in SUBSET S
             /\ Cardinality(s \ {Chosen(s)}) = Cardinality(s) - 1
  <2>1. Chosen(s) \in s
    BY <1>2 DEF Chosen
  <2> QED
    BY <1>1, <2>1, FS_RemoveElement
<1>3. ASSUME NEW n \in Nat, n = 0 \/ n - 1 \in Good
      PROVE  n \in Good
  <2>1. CASE n = 0
    <3>1. \A s \in Upto(n) : s = {}
      BY <2>1, <1>1, FS_EmptySet
    <3>2. Part([s \in Upto(n) |-> 0], n)
      BY <3>1
    <3> QED
      BY <3>2
  <2>2. CASE n # 0
    <3>1. PICK g : Part(g, n - 1)
      BY <1>3, <2>2
    <3> DEFINE h == [s \in Upto(n) |-> IF s = {} THEN 0 ELSE f[Chosen(s)] + g[s \ {Chosen(s)}]]
    <3>2. ASSUME NEW s \in Upto(n), s # {}
          PROVE  h[s \ {Chosen(s)}] = g[s \ {Chosen(s)}]
      <4> DEFINE t == s \ {Chosen(s)}
      <4>1. t \in Upto(n) /\ t \in Upto(n - 1)
        BY <1>1, <1>2, <2>2, <3>2
      <4>2. g[t] = IF t = {} THEN 0 ELSE f[Chosen(t)] + g[t \ {Chosen(t)}]
        <5> HIDE DEF Upto, t
        <5> QED
          BY <3>1, <4>1, Zenon
      <4>3. h[t] = IF t = {} THEN 0 ELSE f[Chosen(t)] + g[t \ {Chosen(t)}]
        <5> HIDE DEF Upto, t
        <5> QED
          BY <4>1, Zenon
      <4> QED
        BY <4>2, <4>3, Zenon
    <3>3. Part(h, n)
      <4> HIDE DEF Upto
      <4>1. h = [s \in Upto(n) |-> IF s = {} THEN 0 ELSE f[Chosen(s)] + h[s \ {Chosen(s)}]]
        <5>1. \A s \in Upto(n) : (IF s = {} THEN 0 ELSE f[Chosen(s)] + g[s \ {Chosen(s)}])
                                = (IF s = {} THEN 0 ELSE f[Chosen(s)] + h[s \ {Chosen(s)}])
          BY <3>2, Zenon
        <5> QED
          BY <5>1, Zenon
      <4> QED
        BY <4>1, Zenon
    <3> QED
      BY <3>3
  <2> QED
    BY <2>1, <2>2
<1>4. Cardinality(S) \in Good
  <2> HIDE DEF Good
  <2> DEFINE Bad == {n \in Nat : n \notin Good}
  <2>1. ASSUME Cardinality(S) \in Bad PROVE FALSE
    <3>1. PICK n \in Bad : \A m \in Bad : n <= m
      <4> HIDE DEF Bad
      <4>1. Bad \subseteq Nat /\ Bad # {}
        BY <2>1 DEF Bad
      <4> QED
        BY <4>1, LeastNatural
    <3>2. n \in Nat /\ n # 0 /\ n - 1 \notin Good
      BY <1>3
    <3> QED
      BY <3>1, <3>2
  <2> QED
    BY <1>1, <2>1
<1>5. PICK g : Part(g, Cardinality(S))
  BY <1>4
<1>6. Upto(Cardinality(S)) = SUBSET S
  BY FS_Subset
<1> QED
  <2> HIDE DEF Upto
  <2> QED
    BY <1>5, <1>6, Zenon DEF Tallies

(* Two tallies agree on a set where what they add up agrees.                *)
LEMMA TalliesAgree ==
  ASSUME NEW f, NEW S, NEW g, Tallies(g, f, S),
         NEW e, NEW T, NEW h, Tallies(h, e, T),
         NEW U, IsFiniteSet(U), U \subseteq S, U \subseteq T, \A x \in U : f[x] = e[x]
  PROVE  g[U] = h[U]
<1> DEFINE Q == {V \in SUBSET U : g[V] = h[V]}
<1>1. ASSUME NEW V \in SUBSET U, \A W \in SUBSET V : W # V => W \in Q
      PROVE  V \in Q
  <2>1. /\ g[V] = IF V = {} THEN 0 ELSE f[Chosen(V)] + g[V \ {Chosen(V)}]
        /\ h[V] = IF V = {} THEN 0 ELSE e[Chosen(V)] + h[V \ {Chosen(V)}]
    <3>1. V \in SUBSET S /\ V \in SUBSET T
      OBVIOUS
    <3> QED
      BY <3>1, Zenon DEF Tallies
  <2>2. CASE V = {}
    BY <2>1, <2>2
  <2>3. CASE V # {}
    <3> DEFINE c == Chosen(V)
    <3>1. c \in V
      BY <2>3 DEF Chosen
    <3> HIDE DEF c
    <3>2. f[c] = e[c] /\ g[V \ {c}] = h[V \ {c}]
      BY <1>1, <3>1
    <3>3. g[V] = f[c] + g[V \ {c}] /\ h[V] = e[c] + h[V \ {c}]
      BY <2>1, <2>3 DEF c
    <3> QED
      BY <3>2, <3>3
  <2> QED
    BY <2>2, <2>3
<1> HIDE DEF Q
<1>2. \A V \in SUBSET U : V \in Q
  BY <1>1, SubsetInduction
<1> QED
  BY <1>2 DEF Q

(* A sum over a finite set is what a tally of it says.                      *)
LEMMA SumTallies ==
  ASSUME NEW f, NEW S, IsFiniteSet(S)
  PROVE  \E g : Tallies(g, f, S) /\ SumFunctionOnSet(f, S) = g[S]
<1> DEFINE g == CHOOSE g : Tallies(g, f, S)
<1>1. Tallies(g, f, S)
  BY TallyExists
<1>2. SumFunctionOnSet(f, S) = g[S]
  BY DEF SumFunctionOnSet, FoldFunctionOnSet, MapThenFoldSet, Tallies, Chosen
<1> QED
  BY <1>1, <1>2

(* The empty sum.                                                           *)
LEMMA SumOfNone ==
  ASSUME NEW f
  PROVE  SumFunctionOnSet(f, {}) = 0
<1>1. PICK g : Tallies(g, f, {}) /\ SumFunctionOnSet(f, {}) = g[{}]
  BY SumTallies, FS_EmptySet
<1> QED
  BY <1>1 DEF Tallies

(* A sum is the first term and the sum of the others ...                    *)
LEMMA SumNext ==
  ASSUME NEW f, NEW S, IsFiniteSet(S), S # {}
  PROVE  /\ Chosen(S) \in S
         /\ SumFunctionOnSet(f, S) = f[Chosen(S)] + SumFunctionOnSet(f, S \ {Chosen(S)})
<1> DEFINE c == Chosen(S)
           T == S \ {c}
<1>1. c \in S
  BY DEF Chosen
<1>2. IsFiniteSet(T) /\ T \in SUBSET S
  BY FS_Subset
<1>3. PICK g : Tallies(g, f, S) /\ SumFunctionOnSet(f, S) = g[S]
  BY SumTallies
<1>4. PICK h : Tallies(h, f, T) /\ SumFunctionOnSet(f, T) = h[T]
  BY <1>2, SumTallies
<1>5. g[S] = f[c] + g[T]
  <2>1. S \in SUBSET S
    OBVIOUS
  <2> QED
    BY <1>3, <2>1 DEF Tallies
<1>6. g[T] = h[T]
  <2> HIDE DEF T
  <2> QED
    BY <1>2, <1>3, <1>4, TalliesAgree
<1> QED
  BY <1>1, <1>3, <1>4, <1>5, <1>6

(* A sum of integers is one.                                                *)
LEMMA SumOfIntegers ==
  ASSUME NEW f, NEW S, IsFiniteSet(S), \A x \in S : f[x] \in Int
  PROVE  SumFunctionOnSet(f, S) \in Int
<1> DEFINE Q == {V \in SUBSET S : SumFunctionOnSet(f, V) \in Int}
<1>1. ASSUME NEW V \in SUBSET S, \A W \in SUBSET V : W # V => W \in Q
      PROVE  V \in Q
  <2>1. CASE V = {}
    BY <2>1, SumOfNone
  <2>2. CASE V # {}
    <3> DEFINE c == Chosen(V)
    <3>1. c \in V /\ SumFunctionOnSet(f, V) = f[c] + SumFunctionOnSet(f, V \ {c})
      BY <2>2, FS_Subset, SumNext
    <3> HIDE DEF c
    <3>2. f[c] \in Int /\ SumFunctionOnSet(f, V \ {c}) \in Int
      BY <1>1, <3>1
    <3> QED
      BY <3>1, <3>2
  <2> QED
    BY <2>1, <2>2
<1> HIDE DEF Q
<1>2. \A V \in SUBSET S : V \in Q
  BY <1>1, SubsetInduction
<1> QED
  BY <1>2 DEF Q

(* ... and any other term can be taken out just as well: the order of the   *)
(* players does not matter (points @ weights).                              *)
LEMMA SumTakes ==
  ASSUME NEW f, NEW S, IsFiniteSet(S), \A x \in S : f[x] \in Int, NEW x \in S
  PROVE  SumFunctionOnSet(f, S) = f[x] + SumFunctionOnSet(f, S \ {x})
<1> DEFINE T(V) == SumFunctionOnSet(f, V)
           Q == {V \in SUBSET S : \A y \in V : T(V) = f[y] + T(V \ {y})}
<1>0. \A V \in SUBSET S : IsFiniteSet(V) /\ T(V) \in Int
  BY FS_Subset, SumOfIntegers
<1>1. ASSUME NEW V \in SUBSET S, \A W \in SUBSET V : W # V => W \in Q
      PROVE  V \in Q
  <2> SUFFICES ASSUME NEW y \in V PROVE T(V) = f[y] + T(V \ {y})
    OBVIOUS
  <2> DEFINE c == Chosen(V)
  <2>1. c \in V /\ T(V) = f[c] + T(V \ {c})
    BY <1>0, SumNext
  <2> HIDE DEF c
  <2>2. CASE c = y
    BY <2>1, <2>2
  <2>3. CASE c # y
    <3>1. V \ {c} \in Q /\ V \ {y} \in Q
      BY <1>1, <2>1
    <3>2. y \in V \ {c} /\ c \in V \ {y}
      BY <2>1, <2>3
    <3>3. /\ T(V \ {c}) = f[y] + T((V \ {c}) \ {y})
          /\ T(V \ {y}) = f[c] + T((V \ {y}) \ {c})
      <4> HIDE DEF T
      <4> QED
        BY <3>1, <3>2
    <3>4. (V \ {c}) \ {y} = (V \ {y}) \ {c}
      OBVIOUS
    <3> DEFINE rest == T((V \ {y}) \ {c})
    <3>5. f[c] \in Int /\ f[y] \in Int /\ rest \in Int
      BY <1>0, <2>1
    <3>6. /\ T(V \ {c}) = f[y] + rest
          /\ T(V \ {y}) = f[c] + rest
      BY <3>3, <3>4, Zenon
    <3> HIDE DEF T, rest
    <3> QED
      BY <2>1, <3>5, <3>6
  <2> QED
    BY <2>2, <2>3
<1>2. \A V \in SUBSET S : V \in Q
  <2> HIDE DEF Q
  <2> QED
    BY <1>1, SubsetInduction
<1> QED
  BY <1>2

(* A sum of naturals is one.                                                *)
LEMMA SumOfNaturals ==
  ASSUME NEW f, NEW S, IsFiniteSet(S), \A x \in S : f[x] \in Nat
  PROVE  SumFunctionOnSet(f, S) \in Nat
<1> DEFINE Q == {V \in SUBSET S : SumFunctionOnSet(f, V) \in Nat}
<1>1. ASSUME NEW V \in SUBSET S, \A W \in SUBSET V : W # V => W \in Q
      PROVE  V \in Q
  <2>1. CASE V = {}
    BY <2>1, SumOfNone
  <2>2. CASE V # {}
    <3> DEFINE c == Chosen(V)
    <3>1. c \in V /\ SumFunctionOnSet(f, V) = f[c] + SumFunctionOnSet(f, V \ {c})
      BY <2>2, FS_Subset, SumNext
    <3> HIDE DEF c
    <3>2. f[c] \in Nat /\ SumFunctionOnSet(f, V \ {c}) \in Nat
      BY <1>1, <3>1
    <3> QED
      BY <3>1, <3>2
  <2> QED
    BY <2>1, <2>2
<1> HIDE DEF Q
<1>2. \A V \in SUBSET S : V \in Q
  BY <1>1, SubsetInduction
<1> QED
  BY <1>2 DEF Q

(* The sum of a sum is the sum of the sums.                                 *)
LEMMA SumOfSums ==
  ASSUME NEW S, IsFiniteSet(S), NEW f, NEW g, NEW h,
         \A x \in S : g[x] \in Int /\ h[x] \in Int /\ f[x] = g[x] + h[x]
  PROVE  SumFunctionOnSet(f, S) = SumFunctionOnSet(g, S) + SumFunctionOnSet(h, S)
<1> DEFINE T(e, V) == SumFunctionOnSet(e, V)
           Q == {V \in SUBSET S : T(f, V) = T(g, V) + T(h, V)}
<1>1. ASSUME NEW V \in SUBSET S, \A W \in SUBSET V : W # V => W \in Q
      PROVE  V \in Q
  <2>1. CASE V = {}
    BY <2>1, SumOfNone
  <2>2. CASE V # {}
    <3>1. PICK c \in V : TRUE
      BY <2>2
    <3>2. IsFiniteSet(V) /\ \A x \in V : g[x] \in Int /\ h[x] \in Int /\ f[x] \in Int
      BY FS_Subset
    <3>3. /\ T(f, V) = f[c] + T(f, V \ {c})
          /\ T(g, V) = g[c] + T(g, V \ {c})
          /\ T(h, V) = h[c] + T(h, V \ {c})
      BY <3>2, SumTakes
    <3>4. T(g, V \ {c}) \in Int /\ T(h, V \ {c}) \in Int
      BY <3>2, FS_Subset, SumOfIntegers
    <3> HIDE DEF T
    <3>5. T(f, V \ {c}) = T(g, V \ {c}) + T(h, V \ {c})
      BY <1>1
    <3>6. f[c] = g[c] + h[c] /\ g[c] \in Int /\ h[c] \in Int
      OBVIOUS
    <3>7. T(f, V) = T(g, V) + T(h, V)
      <4> DEFINE G == T(g, V \ {c})
                 H == T(h, V \ {c})
      <4> HIDE DEF G, H
      <4>1. /\ G \in Int /\ H \in Int
            /\ T(f, V) = f[c] + (G + H) /\ T(g, V) = g[c] + G /\ T(h, V) = h[c] + H
        BY <3>3, <3>4, <3>5 DEF G, H
      <4> QED
        BY <3>6, <4>1
    <3> QED
      BY <3>7
  <2> QED
    BY <2>1, <2>2
<1>2. \A V \in SUBSET S : V \in Q
  <2> HIDE DEF Q
  <2> QED
    BY <1>1, SubsetInduction
<1> QED
  BY <1>2

(* A common factor can be taken out of a sum.                               *)
LEMMA SumOfMultiples ==
  ASSUME NEW S, IsFiniteSet(S), NEW k \in Int, NEW f, NEW g,
         \A x \in S : g[x] \in Int /\ f[x] = k * g[x]
  PROVE  SumFunctionOnSet(f, S) = k * SumFunctionOnSet(g, S)
<1> DEFINE T(e, V) == SumFunctionOnSet(e, V)
           Q == {V \in SUBSET S : T(f, V) = k * T(g, V)}
<1>1. ASSUME NEW V \in SUBSET S, \A W \in SUBSET V : W # V => W \in Q
      PROVE  V \in Q
  <2>1. CASE V = {}
    BY <2>1, SumOfNone
  <2>2. CASE V # {}
    <3>1. PICK c \in V : TRUE
      BY <2>2
    <3>2. IsFiniteSet(V) /\ \A x \in V : g[x] \in Int /\ f[x] \in Int
      BY FS_Subset
    <3>3. /\ T(f, V) = f[c] + T(f, V \ {c})
          /\ T(g, V) = g[c] + T(g, V \ {c})
      BY <3>2, SumTakes
    <3>4. T(g, V \ {c}) \in Int
      BY <3>2, FS_Subset, SumOfIntegers
    <3> HIDE DEF T
    <3>5. T(f, V \ {c}) = k * T(g, V \ {c})
      BY <1>1
    <3>6. f[c] = k * g[c] /\ g[c] \in Int
      OBVIOUS
    <3>7. T(f, V) = k * T(g, V)
      <4>1. \A a, b \in Int : k * (a + b) = k * a + k * b
        OBVIOUS
      <4> QED
        BY <3>3, <3>4, <3>5, <3>6, <4>1
    <3> QED
      BY <3>7
  <2> QED
    BY <2>1, <2>2
<1>2. \A V \in SUBSET S : V \in Q
  <2> HIDE DEF Q
  <2> QED
    BY <1>1, SubsetInduction
<1> QED
  BY <1>2

(* Where f is nought outside a part of S its sum is that of the part.       *)
LEMMA SumOfPart ==
  ASSUME NEW S, IsFiniteSet(S), NEW P, P \subseteq S, NEW f, NEW g,
         \A x \in S : f[x] \in Int,
         \A x \in P : f[x] = g[x], \A x \in S \ P : f[x] = 0
  PROVE  SumFunctionOnSet(f, S) = SumFunctionOnSet(g, P)
<1> DEFINE T(e, V) == SumFunctionOnSet(e, V)
           Q == {V \in SUBSET S : T(f, V) = T(g, V \cap P)}
<1>1. ASSUME NEW V \in SUBSET S, \A W \in SUBSET V : W # V => W \in Q
      PROVE  V \in Q
  <2>1. CASE V = {}
    <3>1. V \cap P = {} 
      BY <2>1
    <3> QED
      BY <2>1, <3>1, SumOfNone
  <2>2. CASE V # {}
    <3>1. PICK c \in V : TRUE
      BY <2>2
    <3>2. IsFiniteSet(V) /\ \A x \in V : f[x] \in Int
      BY FS_Subset
    <3>3. T(f, V) = f[c] + T(f, V \ {c})
      BY <3>2, SumTakes
    <3>4. T(f, V \ {c}) = T(g, (V \ {c}) \cap P) /\ T(f, V \ {c}) \in Int
      <4>1. V \ {c} \in Q
        BY <1>1
      <4>2. T(f, V \ {c}) \in Int
        BY <3>2, FS_Subset, SumOfIntegers
      <4> QED
        BY <4>1, <4>2
    <3>5. CASE c \in P
      <4>1. (V \ {c}) \cap P = (V \cap P) \ {c} /\ c \in V \cap P
        BY <3>5
      <4>2. IsFiniteSet(V \cap P) /\ \A x \in V \cap P : g[x] \in Int
        <5>1. IsFiniteSet(V \cap P)
          BY FS_Subset
        <5>2. \A x \in V \cap P : g[x] = f[x] /\ f[x] \in Int
          OBVIOUS
        <5> QED
          BY <5>1, <5>2
      <4>3. T(g, V \cap P) = g[c] + T(g, (V \cap P) \ {c})
        BY <4>1, <4>2, SumTakes
      <4> HIDE DEF T
      <4> QED
        BY <3>3, <3>4, <3>5, <4>1, <4>3
    <3>6. CASE c \notin P
      <4>1. (V \ {c}) \cap P = V \cap P /\ f[c] = 0
        BY <3>6
      <4>2. T(f, V) = T(f, V \ {c})
        <5> HIDE DEF T
        <5> QED
          BY <3>3, <3>4, <4>1
      <4>3. T(f, V) = T(g, V \cap P)
        BY <3>4, <4>1, <4>2, Zenon
      <4> QED
        BY <4>3
    <3> QED
      BY <3>5, <3>6
  <2> QED
    BY <2>1, <2>2
<1>2. \A V \in SUBSET S : V \in Q
  <2> HIDE DEF Q
  <2> QED
    BY <1>1, SubsetInduction
<1>3. S \cap P = P
  OBVIOUS
<1> QED
  BY <1>2, <1>3

-----------------------------------------------------------------------------
(* The order of projection, by mean and then by id, is a strict order of    *)
(* all players: `sorted` leaves nothing open.                               *)
LEMMA AheadIsOrder ==
  ASSUME NEW gw \in Range(Gameweeks), NEW p \in Players, NEW q \in Players
  PROVE  /\ ~(Ahead(p, q, gw) /\ Ahead(q, p, gw))
         /\ p # q => Ahead(p, q, gw) \/ Ahead(q, p, gw)
         /\ \A r \in Players : Ahead(p, q, gw) /\ Ahead(q, r, gw) => Ahead(p, r, gw)
<1>1. \A r \in Players : r \in Nat /\ Projected[r][gw] \in Int
  BY OddsAssumption
<1> QED
  BY <1>1 DEF Ahead

(* The best eleven is a lineup with one captain.                            *)
LEMMA BestElevenIs ==
  ASSUME NEW squad \in SUBSET Players, NEW gw \in Range(Gameweeks)
  PROVE  BestEleven(squad, gw) \in Lineup /\ OneBoosted(BestEleven(squad, gw))
<1> DEFINE ahead(p) == {q \in squad : Ahead(q, p, gw)}
           rank == [p \in squad |-> Cardinality(ahead(p))]
           best == [p \in Players |-> IF p \notin squad \/ rank[p] >= Starting THEN 0
                                      ELSE IF rank[p] = 0 THEN 2 ELSE 1]
<1>1. BestEleven(squad, gw) = best
  BY DEF BestEleven
<1>2. ASSUME NEW p \in Players, NEW q \in Players, best[p] > 1, best[q] > 1
      PROVE  p = q
  <2>1. p \in squad /\ rank[p] = 0 /\ q \in squad /\ rank[q] = 0
    <3> HIDE DEF rank
    <3> QED
      BY <1>2
  <2>2. \A r \in squad : IsFiniteSet(ahead(r))
    BY OddsAssumption, FS_Subset
  <2>3. ahead(p) = {} /\ ahead(q) = {}
    <3> HIDE DEF ahead
    <3> QED
      BY <2>1, <2>2, FS_EmptySet
  <2> QED
    BY <2>1, <2>3, AheadIsOrder
<1>3. best \in Lineup
  <2> HIDE DEF rank
  <2> QED
    BY DEF Lineup
<1> HIDE DEF best
<1> QED
  BY <1>1, <1>2, <1>3 DEF OneBoosted

(* So is a manager's own lineup, locked or not.                             *)
LEMMA OwnIs ==
  ASSUME TypeOK, offset <= Len(Gameweeks), NEW m \in Managers
  PROVE  Own(m) \in Lineup /\ OneBoosted(Own(m))
<1>1. Gameweeks[offset] \in Range(Gameweeks)
  <2>1. Len(Gameweeks) \in Nat /\ DOMAIN Gameweeks = 1..Len(Gameweeks)
    BY OddsAssumption, LenProperties
  <2>2. offset \in DOMAIN Gameweeks
    BY <2>1 DEF TypeOK
  <2> QED
    BY <2>2 DEF Range
<1>2. Squad[m] \in SUBSET Players /\ locked[m] \in Lineups[m]
  BY OddsAssumption DEF TypeOK
<1>3. locked[m] # None => locked[m] \in Lineup /\ OneBoosted(locked[m])
  BY <1>2, OddsAssumption, OneCaptain DEF Lineup, OneBoosted
<1> QED
  BY <1>1, <1>2, <1>3, BestElevenIs DEF Own

(* The armband is a captain's or a triple captain's, and nobody has more.   *)
LEMMA ArmbandIs ==
  ASSUME NEW l \in Lineup
  PROVE  Armband(l) \in {2, 3} /\ \A p \in Players : l[p] <= Armband(l)
<1> DEFINE R == {2} \cup Range(l)
<1>1. R \subseteq 0..3 /\ 2 \in R /\ \A p \in Players : l[p] \in R
  BY DEF Range, Lineup
<1> HIDE DEF R
<1>2. \E x \in R : x \in {2, 3} /\ \A y \in R : x >= y
  <2>1. CASE 3 \in R
    BY <1>1, <2>1
  <2>2. CASE 3 \notin R
    BY <1>1, <2>2
  <2> QED
    BY <2>1, <2>2
<1>3. Max(R) \in R /\ \A y \in R : Max(R) >= y
  BY <1>2 DEF Max
<1>4. PICK x \in R : x = Max(R) /\ \A y \in R : x >= y
  BY <1>3
<1>5. x \in {2, 3} /\ \A p \in Players : l[p] <= x
  <2>1. x \in 0..3 /\ x >= 2
    BY <1>1, <1>4
  <2>2. \A p \in Players : l[p] \in 0..3 /\ x >= l[p]
    BY <1>1, <1>4
  <2> QED
    BY <2>1, <2>2
<1>6. Armband(l) = x
  BY <1>4 DEF Armband, R
<1> QED
  BY <1>5, <1>6

(* Where a player wears the armband that player is the captain, alone.      *)
LEMMA CaptainIs ==
  ASSUME NEW l \in Lineup, OneBoosted(l), NEW b \in Players, l[b] > 1
  PROVE  Captain(l) = b /\ Armband(l) = l[b] /\ Boosted(l) = {b}
<1>1. Boosted(l) = {b}
  BY DEF Boosted, OneBoosted
<1>2. \A p \in Players : l[p] \in 0..3
  BY DEF Lineup
<1>3. {p \in Players : \A q \in Players : l[q] <= l[p]} = {b}
  <2>1. \A q \in Players : q # b => l[q] <= 1
    BY <1>2 DEF OneBoosted
  <2> QED
    BY <1>2, <2>1
<1>4. Min({b}) = b
  <2>1. b \in Int
    BY OddsAssumption
  <2> QED
    BY <2>1 DEF Min
<1>5. Armband(l) = l[b]
  <2> DEFINE R == {2} \cup Range(l)
  <2>1. l[b] \in R /\ \A y \in R : l[b] >= y
    <3>1. \A q \in Players : l[b] >= l[q]
      BY <1>2 DEF OneBoosted
    <3>2. Range(l) = {l[q] : q \in Players}
      BY DEF Range, Lineup
    <3> QED
      BY <1>2, <3>1, <3>2
  <2>2. R \subseteq Int
    BY <1>2 DEF Range, Lineup
  <2> HIDE DEF R
  <2>3. Max(R) \in R /\ \A y \in R : Max(R) >= y
    BY <2>1 DEF Max
  <2>4. PICK x \in R : x = Max(R) /\ \A y \in R : x >= y
    BY <2>3
  <2>5. x = l[b]
    <3>1. x \in Int /\ l[b] \in Int /\ l[b] >= x /\ x >= l[b]
      BY <2>1, <2>2, <2>4
    <3> QED
      BY <3>1
  <2> QED
    BY <2>4, <2>5 DEF Armband, R
<1> QED
  BY <1>1, <1>3, <1>4, <1>5 DEF Captain

-----------------------------------------------------------------------------
(* What the constants are.                                                  *)
LEMMA ConstantsAre ==
  /\ IsFiniteSet(Players) /\ IsFiniteSet(Managers)
  /\ Scale \in Nat \ {0} /\ Starting \in Nat /\ MaxAutosubs \in Int /\ Replacement \in Int
  /\ \A p \in Players : Absence[p] \in Int
BY OddsAssumption

(* A sum over a function is the one over its domain.                        *)
LEMMA SumOverDomain ==
  ASSUME NEW f, NEW S, DOMAIN f = S
  PROVE  Sum(f) = SumFunctionOnSet(f, S)
BY DEF Sum, SumFunction

(* The field everyone drifts to is a whole number per player (in shares of  *)
(* a team), nought if nobody has a lineup.                                  *)
LEMMA FieldIs ==
  ASSUME NEW own \in [Managers -> Lineup]
  PROVE  Field(own) \in [Players -> Int]
<1> DEFINE column(p) == [m \in Managers |-> own[m][p]]
           shares == [p \in Players |-> Sum(column(p))]
           total == Sum(shares)
<1>1. \A p \in Players : shares[p] \in Nat
  <2> SUFFICES ASSUME NEW p \in Players PROVE Sum(column(p)) \in Nat
    OBVIOUS
  <2>1. \A m \in Managers : column(p)[m] \in Nat
    BY DEF Lineup
  <2>2. Sum(column(p)) = SumFunctionOnSet(column(p), Managers)
    BY SumOverDomain
  <2> DEFINE f == column(p)
  <2>3. \A m \in Managers : f[m] \in Nat
    BY <2>1
  <2> HIDE DEF f
  <2>4. SumFunctionOnSet(f, Managers) \in Nat
    BY <2>3, ConstantsAre, SumOfNaturals
  <2> QED
    BY <2>2, <2>4 DEF f
<1>2. total \in Nat
  <2>1. total = SumFunctionOnSet(shares, Players)
    BY SumOverDomain
  <2> HIDE DEF shares, total
  <2>2. SumFunctionOnSet(shares, Players) \in Nat
    BY <1>1, ConstantsAre, SumOfNaturals
  <2> QED
    BY <2>1, <2>2
<1>3. Field(own) = [p \in Players |->
        IF total = 0 THEN 0 ELSE (shares[p] * (Starting + 1) * Scale) \div total]
  BY DEF Field
<1> HIDE DEF shares, total
<1>4. ASSUME NEW p \in Players, total # 0
      PROVE  (shares[p] * (Starting + 1) * Scale) \div total \in Int
  <2>1. shares[p] * (Starting + 1) * Scale \in Int
    BY <1>1, ConstantsAre
  <2>2. \A a \in Int, b \in Nat \ {0} : a \div b \in Int
    OBVIOUS
  <2> QED
    BY <1>2, <1>4, <2>1, <2>2
<1> QED
  BY <1>3, <1>4

(* So is a lineup that has drifted to it.                                   *)
LEMMA WeightsAre ==
  ASSUME NEW l \in Lineup, NEW field \in [Players -> Int], NEW keep \in 0..Scale
  PROVE  Weights(l, field, keep) \in [Players -> Int]
<1>1. ASSUME NEW p \in Players
      PROVE  keep * l[p] + ((Scale - keep) * field[p]) \div Scale \in Int
  <2>1. keep * l[p] \in Int /\ (Scale - keep) * field[p] \in Int
    <3>1. keep \in Int /\ Scale - keep \in Int /\ l[p] \in Int /\ field[p] \in Int
      BY ConstantsAre DEF Lineup
    <3> QED
      BY <3>1
  <2>2. \A a \in Int, b \in Nat \ {0} : a \div b \in Int
    OBVIOUS
  <2>3. ((Scale - keep) * field[p]) \div Scale \in Int
    BY <2>1, <2>2, ConstantsAre
  <2> QED
    BY <2>1, <2>3
<1> QED
  BY <1>1 DEF Weights

(* What a lineup scores is a whole number, and a sum over the players.      *)
LEMMA ScoreIs ==
  ASSUME NEW w \in [Players -> Int], NEW points \in [Players -> Int]
  PROVE  /\ Score(w, points) \in Int
         /\ Score(w, points) = SumFunctionOnSet([p \in Players |-> points[p] * w[p]], Players)
<1> DEFINE f == [p \in Players |-> points[p] * w[p]]
<1>1. \A p \in Players : f[p] \in Int
  <2>1. \A p \in Players : points[p] \in Int /\ w[p] \in Int
    OBVIOUS
  <2> QED
    BY <2>1
<1>2. Score(w, points) = SumFunctionOnSet(f, Players)
  BY SumOverDomain DEF Score
<1> HIDE DEF f
<1>3. SumFunctionOnSet(f, Players) \in Int
  BY <1>1, ConstantsAre, SumOfIntegers
<1> QED
  BY <1>2, <1>3 DEF f

(* The Min of two numbers is the lesser.                                    *)
LEMMA LesserOfTwo ==
  ASSUME NEW a \in Int, NEW b \in Int
  PROVE  Min({a, b}) = IF a <= b THEN a ELSE b
<1>1. \E x \in {a, b} : \A y \in {a, b} : x <= y
  BY a <= b \/ b <= a
<1>2. PICK x \in {a, b} : x = Min({a, b}) /\ \A y \in {a, b} : x <= y
  BY <1>1 DEF Min
<1> QED
  BY <1>2

(* The credit for substitutes is a whole number.                            *)
LEMMA AutosubsAre ==
  ASSUME NEW l \in Lineup
  PROVE  Autosubs(l) \in Int
<1> DEFINE f == [p \in Players |-> Min({1, l[p]}) * Absence[p]]
<1>1. \A p \in Players : f[p] \in Int
  <2> SUFFICES ASSUME NEW p \in Players PROVE Min({1, l[p]}) * Absence[p] \in Int
    OBVIOUS
  <2>1. l[p] \in Int /\ Absence[p] \in Int
    BY ConstantsAre DEF Lineup
  <2>2. Min({1, l[p]}) \in Int
    BY <2>1, LesserOfTwo
  <2> QED
    BY <2>1, <2>2
<1>2. Sum(f) = SumFunctionOnSet(f, Players)
  BY SumOverDomain
<1>3. Autosubs(l) = Replacement * Scale * Min({MaxAutosubs, Sum(f)})
  BY DEF Autosubs
<1> HIDE DEF f
<1>4. Sum(f) \in Int
  <2>1. SumFunctionOnSet(f, Players) \in Int
    BY <1>1, ConstantsAre, SumOfIntegers
  <2> QED
    BY <1>2, <2>1
<1>5. Min({MaxAutosubs, Sum(f)}) \in Int
  <2> DEFINE subs == Sum(f)
  <2>1. subs \in Int
    BY <1>4
  <2> HIDE DEF subs
  <2>2. Min({MaxAutosubs, subs}) = MaxAutosubs \/ Min({MaxAutosubs, subs}) = subs
    BY <2>1, ConstantsAre, LesserOfTwo
  <2>3. Min({MaxAutosubs, subs}) \in Int
    BY <2>1, <2>2, ConstantsAre
  <2> QED
    BY <2>3 DEF subs
<1> QED
  <2>1. Replacement * Scale \in Int
    BY ConstantsAre
  <2> QED
    BY <1>3, <1>5, <2>1

(* Moving the armband to a starter leaves everyone else as they are but the *)
(* old captain, who counts once; it starts and benches nobody, so the       *)
(* substitutes credited are the same.                                       *)
LEMMA WithArmbandIs ==
  ASSUME NEW l \in Lineup, NEW c \in Players, l[c] > 0
  PROVE  /\ WithArmband(l, c) \in Lineup
         /\ \A p \in Players : WithArmband(l, c)[p] = IF p = c THEN Armband(l)
                                                      ELSE IF l[p] > 1 THEN 1 ELSE l[p]
         /\ Autosubs(WithArmband(l, c)) = Autosubs(l)
<1> DEFINE w == WithArmband(l, c)
<1>1. \A p \in Players : l[p] \in 0..3 /\ Min({1, l[p]}) = IF l[p] > 1 THEN 1 ELSE l[p]
  <2> SUFFICES ASSUME NEW p \in Players
               PROVE  l[p] \in 0..3 /\ Min({1, l[p]}) = IF l[p] > 1 THEN 1 ELSE l[p]
    OBVIOUS
  <2>1. l[p] \in 0..3
    BY DEF Lineup
  <2>2. Min({1, l[p]}) = IF 1 <= l[p] THEN 1 ELSE l[p]
    BY <2>1, LesserOfTwo
  <2> QED
    BY <2>1, <2>2
<1>2. \A p \in Players : w[p] = IF p = c THEN Armband(l) ELSE IF l[p] > 1 THEN 1 ELSE l[p]
  BY <1>1 DEF WithArmband
<1>3. w \in Lineup
  <2>0. Armband(l) \in 2..3
    BY ArmbandIs
  <2>1. w = [p \in Players |-> w[p]]
    BY DEF WithArmband
  <2>2. \A p \in Players : w[p] \in 0..3
    <3> HIDE DEF w
    <3> SUFFICES ASSUME NEW p \in Players PROVE w[p] \in 0..3
      OBVIOUS
    <3>1. w[p] = Armband(l) \/ w[p] = 1 \/ w[p] = l[p]
      BY <1>2
    <3>2. l[p] \in 0..3
      BY DEF Lineup
    <3> QED
      BY <2>0, <3>1, <3>2
  <2> HIDE DEF w
  <2> QED
    BY <2>1, <2>2 DEF Lineup
<1> HIDE DEF w
<1>4. \A p \in Players : Min({1, w[p]}) = Min({1, l[p]})
  <2> SUFFICES ASSUME NEW p \in Players PROVE Min({1, w[p]}) = Min({1, l[p]})
    OBVIOUS
  <2>1. w[p] \in Int /\ Min({1, w[p]}) = IF 1 <= w[p] THEN 1 ELSE w[p]
    <3>1. w[p] \in Int
      BY <1>3 DEF Lineup
    <3> QED
      BY <3>1, LesserOfTwo
  <2>2. CASE p = c
    <3>1. w[p] >= 2 /\ l[p] >= 1
      <4>1. Armband(l) \in 2..3
        BY ArmbandIs
      <4>2. w[p] = Armband(l) /\ l[p] \in 0..3 /\ l[p] > 0
        BY <1>1, <1>2, <2>2
      <4> QED
        BY <4>1, <4>2
    <3>2. Min({1, l[p]}) = 1
      BY <1>1, <3>1
    <3> QED
      BY <2>1, <3>1, <3>2
  <2>3. CASE p # c
    BY <1>1, <1>2, <2>1, <2>3
  <2> QED
    BY <2>2, <2>3
<1>5. Autosubs(w) = Autosubs(l)
  <2>1. [p \in Players |-> Min({1, w[p]}) * Absence[p]]
          = [p \in Players |-> Min({1, l[p]}) * Absence[p]]
    BY <1>4
  <2> QED
    BY <2>1 DEF Autosubs
<1> QED
  BY <1>2, <1>3, <1>5 DEF w

(* A lineup with the armband on another starter scores what the old one     *)
(* scores and the table's entry, whatever lineup it is, whatever is drawn   *)
(* and however far the manager drifts: the drift's rounding is the same on  *)
(* both sides.                                                              *)
THEOREM ArmbandMoves ==
  ASSUME NEW l \in Lineup, NEW c \in Players, l[c] > 0,
         NEW points \in [Players -> Int], NEW field \in [Players -> Int], NEW keep \in 0..Scale
  PROVE  /\ Delta(l, points, keep, c) \in Int
         /\ Score(Weights(WithArmband(l, c), field, keep), points)
              = Score(Weights(l, field, keep), points) + Delta(l, points, keep, c)
<1> DEFINE w == WithArmband(l, c)
           before == [p \in Players |-> points[p] * Weights(l, field, keep)[p]]
           after  == [p \in Players |-> points[p] * Weights(w, field, keep)[p]]
           moves  == [p \in Players |-> points[p] * (w[p] - l[p])]
           scaled == [p \in Players |-> keep * moves[p]]
           others == Boosted(l) \ {c}
           taken  == [o \in others |-> points[o] * (1 - l[o])]
           Over(f, S) == SumFunctionOnSet(f, S)
<1>1. /\ w \in Lineup
      /\ \A p \in Players : w[p] = IF p = c THEN Armband(l) ELSE IF l[p] > 1 THEN 1 ELSE l[p]
  BY WithArmbandIs
<1>2. /\ Weights(l, field, keep) \in [Players -> Int]
      /\ Weights(w, field, keep) \in [Players -> Int]
  <2> HIDE DEF w
  <2> QED
    BY <1>1, WeightsAre
<1>3. keep \in Int /\ Armband(l) \in Int
  BY ArmbandIs, ConstantsAre
<1> HIDE DEF w
<1>4. ASSUME NEW p \in Players
      PROVE  /\ w[p] \in Int /\ l[p] \in Int /\ points[p] \in Int
             /\ moves[p] \in Int /\ scaled[p] \in Int
             /\ before[p] \in Int /\ after[p] \in Int
             /\ after[p] = before[p] + scaled[p]
  <2>1. w[p] \in Int /\ l[p] \in Int /\ points[p] \in Int
    BY <1>1 DEF Lineup
  <2> DEFINE drift == ((Scale - keep) * field[p]) \div Scale
             a == Weights(l, field, keep)[p]
             b == Weights(w, field, keep)[p]
  <2>2. a = keep * l[p] + drift /\ b = keep * w[p] + drift
    BY DEF Weights
  <2>3. a \in Int /\ b \in Int
    BY <1>2
  <2>4. before[p] = points[p] * a /\ after[p] = points[p] * b
    OBVIOUS
  <2>5. moves[p] = points[p] * (w[p] - l[p]) /\ scaled[p] = keep * moves[p]
    OBVIOUS
  <2> HIDE DEF drift, a, b, before, after, moves, scaled
  <2>6. b = a + keep * (w[p] - l[p])
    <3>1. b - a = keep * w[p] - keep * l[p]
      <4>1. keep * l[p] \in Int /\ keep * w[p] \in Int
        BY <1>3, <2>1
      <4>2. \A x, y, aa, bb \in Int : aa - x = bb - y => bb - aa = y - x
        OBVIOUS
      <4>3. drift \in Int
        <5>1. (Scale - keep) * field[p] \in Int /\ Scale \in Nat \ {0}
          BY <1>3, ConstantsAre
        <5>2. \A x \in Int, y \in Nat \ {0} : x \div y \in Int
          OBVIOUS
        <5> QED
          BY <5>1, <5>2 DEF drift
      <4> QED
        BY <2>2, <2>3, <4>1, <4>3
    <3>2. keep * (w[p] - l[p]) = keep * w[p] - keep * l[p]
      BY <1>3, <2>1
    <3> QED
      BY <1>3, <2>1, <2>3, <3>1, <3>2
  <2>7. \A x, y, k, d \in Int : x * (y + k * d) = x * y + k * (x * d)
    OBVIOUS
  <2>8. after[p] = before[p] + scaled[p]
    <3>1. w[p] - l[p] \in Int
      BY <2>1
    <3> QED
      BY <1>3, <2>1, <2>3, <2>4, <2>5, <2>6, <2>7, <3>1
  <2>9. moves[p] \in Int /\ scaled[p] \in Int /\ before[p] \in Int /\ after[p] \in Int
    BY <1>3, <2>1, <2>3, <2>4, <2>5
  <2> QED
    BY <2>1, <2>8, <2>9
<1>5. /\ Score(Weights(l, field, keep), points) = Over(before, Players)
      /\ Score(Weights(w, field, keep), points) = Over(after, Players)
  BY <1>2, ScoreIs
<1>6. Over(after, Players) = Over(before, Players) + Over(scaled, Players)
  <2> HIDE DEF before, after, scaled
  <2> QED
    BY <1>4, ConstantsAre, SumOfSums
<1>7. Over(scaled, Players) = keep * Over(moves, Players)
  <2>1. \A p \in Players : scaled[p] = keep * moves[p]
    OBVIOUS
  <2> HIDE DEF scaled, moves
  <2> QED
    BY <1>3, <1>4, <2>1, ConstantsAre, SumOfMultiples
<1>8. Over(moves, Players) = points[c] * (Armband(l) - l[c]) + Over(taken, others)
  <2>1. moves[c] = points[c] * (Armband(l) - l[c])
    BY <1>1
  <2>2. Over(moves, Players) = moves[c] + Over(moves, Players \ {c})
    <3>1. \A p \in Players : moves[p] \in Int
      BY <1>4
    <3> HIDE DEF moves
    <3> QED
      BY <3>1, ConstantsAre, SumTakes
  <2>3. others \subseteq Players \ {c}
    BY DEF Boosted
  <2>4. \A p \in others : moves[p] = taken[p]
    BY <1>1 DEF Boosted
  <2>5. ASSUME NEW p \in (Players \ {c}) \ others
        PROVE  moves[p] = 0
    <3>1. w[p] = l[p]
      BY <1>1, <2>5 DEF Boosted
    <3>2. l[p] \in Int /\ points[p] \in Int
      BY <1>4
    <3> QED
      BY <3>1, <3>2
  <2>6. IsFiniteSet(Players \ {c})
    BY ConstantsAre, FS_Subset
  <2>7. Over(moves, Players \ {c}) = Over(taken, others)
    <3> DEFINE rest == Players \ {c}
    <3>1. IsFiniteSet(rest) /\ others \subseteq rest /\ \A p \in rest : moves[p] \in Int
      BY <1>4, <2>3, <2>6
    <3>2. \A p \in rest \ others : moves[p] = 0
      BY <2>5
    <3> HIDE DEF rest, others, moves, taken
    <3>3. Over(moves, rest) = Over(taken, others)
      BY <2>4, <3>1, <3>2, SumOfPart
    <3> QED
      BY <3>3 DEF rest
  <2> HIDE DEF moves, taken, others
  <2> QED
    BY <2>1, <2>2, <2>7
<1>9. Delta(l, points, keep, c) = keep * Over(moves, Players)
  <2>1. Sum(taken) = Over(taken, others)
    BY SumOverDomain
  <2> QED
    BY <1>8, <2>1 DEF Delta
<1>10. Over(moves, Players) \in Int
  <2> HIDE DEF moves
  <2> QED
    BY <1>4, ConstantsAre, SumOfIntegers
<1>11. Delta(l, points, keep, c) \in Int
  <2> DEFINE x == Over(moves, Players)
  <2>1. x \in Int
    BY <1>10
  <2> HIDE DEF x
  <2>2. keep * x \in Int
    BY <1>3, <2>1
  <2> QED
    BY <1>9, <2>2 DEF x
<1> QED
  BY <1>5, <1>6, <1>7, <1>9, <1>11 DEF w

(* The armband on the player who wears it changes nothing.                  *)
LEMMA CaptainsDeltaIsNought ==
  ASSUME NEW l \in Lineup, OneBoosted(l), NEW b \in Players, l[b] > 1,
         NEW points \in [Players -> Int], NEW keep \in 0..Scale
  PROVE  Captain(l) = b /\ Delta(l, points, keep, b) = 0
<1>1. Captain(l) = b /\ Armband(l) = l[b] /\ Boosted(l) \ {b} = {}
  BY CaptainIs
<1>2. Sum([o \in Boosted(l) \ {b} |-> points[o] * (1 - l[o])]) = 0
  <2> DEFINE f == [o \in Boosted(l) \ {b} |-> points[o] * (1 - l[o])]
  <2>1. DOMAIN f = {}
    BY <1>1
  <2> HIDE DEF f
  <2>2. Sum(f) = 0
    BY <2>1, SumOverDomain, SumOfNone
  <2> QED
    BY <2>2 DEF f
<1>3. keep \in Int /\ points[b] \in Int /\ l[b] \in Int
  BY ConstantsAre DEF Lineup
<1>4. points[b] * (Armband(l) - l[b]) = 0
  BY <1>1, <1>3
<1> QED
  BY <1>1, <1>2, <1>3, <1>4 DEF Delta

-----------------------------------------------------------------------------
(* There are gameweeks left.                                                *)
LEMMA GameweeksAre ==
  /\ Len(Gameweeks) \in Nat /\ DOMAIN Gameweeks = 1..Len(Gameweeks) /\ Len(Gameweeks) >= 1
BY OddsAssumption, LenProperties, EmptySeq

(* While they are being played their number and share are those of the      *)
(* constants.                                                               *)
LEMMA AtOffset ==
  ASSUME TypeOK, offset <= Len(Gameweeks), NEW m \in Managers
  PROVE  Kept[m][offset] \in 0..Scale /\ Gameweeks[offset] \in Range(Gameweeks)
<1>1. offset \in DOMAIN Gameweeks
  BY GameweeksAre DEF TypeOK
<1> QED
  BY <1>1, OddsAssumption DEF Range

(* A season scores whole numbers.                                           *)
LEMMA SeasonIs ==
  ASSUME TypeOK, offset <= Len(Gameweeks), NEW m \in Managers, NEW l \in Lineup,
         NEW points \in [Players -> Points], NEW adjustment \in [Managers -> Adjustments]
  PROVE  /\ LineupField \in [Players -> Int] /\ points \in [Players -> Int]
         /\ Season(m, l, points, adjustment) \in Int
<1>1. LineupField \in [Players -> Int]
  <2>1. [n \in Managers |-> Own(n)] \in [Managers -> Lineup]
    BY OwnIs
  <2> QED
    BY <2>1, FieldIs DEF LineupField
<1>2. points \in [Players -> Int] /\ adjustment[m] \in Int
  BY OddsAssumption
<1>3. Score(Weights(l, LineupField, Kept[m][offset]), points) \in Int
  BY <1>1, <1>2, AtOffset, WeightsAre, ScoreIs
<1>4. Autosubs(l) \in Int /\ Scale * adjustment[m] \in Int
  BY <1>2, AutosubsAre, ConstantsAre
<1> QED
  BY <1>1, <1>2, <1>3, <1>4 DEF Season

(* The lineup of a scenario is one.                                         *)
LEMMA ScenarioLineupIs ==
  ASSUME TypeOK, offset <= Len(Gameweeks), NEW s \in Scenarios
  PROVE  ScenarioLineup(s) \in Lineup
<1>1. Squad[User] \in SUBSET Players /\ User \in Managers
  BY OddsAssumption
<1>2. (IF s.kind = "transfer" THEN (Squad[User] \ {s.out}) \cup {s.in} ELSE Squad[User])
        \in SUBSET Players
  <2>1. CASE s.kind = "transfer"
    <3>1. PICK t \in Players \X Players : s = [kind |-> "transfer", in |-> t[1], out |-> t[2]]
      BY <2>1 DEF Scenarios, Baseline
    <3>2. s.in \in Players
      BY <3>1
    <3> QED
      BY <1>1, <2>1, <3>2
  <2>2. CASE s.kind # "transfer"
    BY <1>1, <2>2
  <2> QED
    BY <2>1, <2>2
<1>3. locked[User] # None => locked[User] \in Lineup
  BY <1>1, OddsAssumption DEF TypeOK, Lineup
<1>4. Override(s) # None => Override(s) \in Lineup
  <2> SUFFICES ASSUME Override(s) # None PROVE Override(s) \in Lineup
    OBVIOUS
  <2>1. locked[User] \in Lineup
    BY <1>3 DEF Override
  <2>2. \A p \in Players : (IF p = s.player THEN 2 ELSE Min({1, locked[User][p]})) \in 0..3
    <3> SUFFICES ASSUME NEW p \in Players PROVE Min({1, locked[User][p]}) \in 0..3
      OBVIOUS
    <3>1. locked[User][p] \in 0..3
      BY <2>1 DEF Lineup
    <3>2. Min({1, locked[User][p]}) = IF 1 <= locked[User][p] THEN 1 ELSE locked[User][p]
      BY <3>1, LesserOfTwo
    <3> QED
      BY <3>1, <3>2
  <2> QED
    BY <2>2 DEF Override, Lineup
<1>5. Gameweeks[offset] \in Range(Gameweeks)
  BY <1>1, AtOffset
<1> QED
  BY <1>2, <1>3, <1>4, <1>5, BestElevenIs DEF ScenarioLineup

(* So is that of a season with another captain.                             *)
LEMMA PlayedIs ==
  ASSUME TypeOK, offset <= Len(Gameweeks), NEW m \in Managers, NEW c \in Squad[m]
  PROVE  c \in Players /\ Played(m, c) \in Lineup
<1>1. c \in Players
  BY OddsAssumption
<1> QED
  BY <1>1, OwnIs, WithArmbandIs DEF Played

(* PlayGameweek as seasons: every row, scenario and moved season gains what *)
(* its lineup scores on the one draw.                                       *)
LEMMA PlayGameweekIs ==
  ASSUME PlayGameweek
  PROVE  \E points \in [Players -> Points], adjustment \in [Managers -> Adjustments] :
    /\ totals' = [m \in Managers |-> totals[m] + Season(m, Own(m), points, adjustment)]
    /\ scenarios' = [s \in Scenarios |->
         scenarios[s] + Season(User, ScenarioLineup(s), points, adjustment)]
    /\ options' = IF offset # decision THEN options
                  ELSE [m \in Managers |-> Deltas(m, points, Kept[m][offset])]
    /\ moved' = [m \in Managers |-> [c \in Squad[m] |->
         moved[m][c] + Season(m, Played(m, c), points, adjustment)]]
<1> DEFINE own == [m \in Managers |-> Own(m)]
           team(m, lineup) ==
             [weights |-> Weights(lineup, LineupField, Kept[m][offset]), subs |-> Autosubs(lineup)]
           row(m) == team(m, own[m])
           armbands == [m \in Managers |-> [c \in Squad[m] |->
                     team(m, IF offset = decision /\ own[m][c] > 0
                             THEN WithArmband(own[m], c) ELSE own[m])]]
<1>1. PICK points \in [Players -> Points], adjustment \in [Managers -> Adjustments] :
        LET season(m, x) == Score(x.weights, points) + x.subs + Scale * adjustment[m]
        IN /\ totals' = [m \in Managers |-> totals[m] + season(m, [n \in Managers |-> row(n)][m])]
           /\ scenarios' = [s \in Scenarios |-> scenarios[s]
                              + season(User, [z \in Scenarios |-> team(User, ScenarioLineup(z))][s])]
           /\ options' = IF offset # decision THEN options
                         ELSE [m \in Managers |-> Deltas(m, points, Kept[m][offset])]
           /\ moved' = [m \in Managers |-> [c \in Squad[m] |->
                         moved[m][c] + season(m, armbands[m][c])]]
  BY Zenon DEF PlayGameweek, LineupField
<1>2. \A m, l : /\ team(m, l).weights = Weights(l, LineupField, Kept[m][offset])
                /\ team(m, l).subs = Autosubs(l)
  OBVIOUS
<1>3. totals' = [m \in Managers |-> totals[m] + Season(m, Own(m), points, adjustment)]
  BY <1>1 DEF Season
<1>4. scenarios' = [s \in Scenarios |->
        scenarios[s] + Season(User, ScenarioLineup(s), points, adjustment)]
  BY <1>1 DEF Season
<1>5. moved' = [m \in Managers |-> [c \in Squad[m] |->
         moved[m][c] + Season(m, Played(m, c), points, adjustment)]]
  BY <1>1 DEF Season, Played
<1> QED
  BY <1>1, <1>3, <1>4, <1>5

-----------------------------------------------------------------------------
(* The table of a manager has an entry for each starter of the squad; if    *)
(* the captain is one of them theirs is nought.                             *)
LEMMA DeltasAre ==
  ASSUME TypeOK, offset <= Len(Gameweeks), NEW m \in Managers,
         NEW points \in [Players -> Int], NEW keep \in 0..Scale
  PROVE  LET table == Deltas(m, points, keep)
             starters == {p \in Squad[m] : Own(m)[p] > 0}
         IN /\ table.captain = Captain(Own(m)) /\ table.captain \in Players \cup {None}
            /\ table.deltas \in [starters -> Int] /\ DOMAIN table.deltas = starters
            /\ \A c \in starters : table.deltas[c] = Delta(Own(m), points, keep, c)
            /\ table.captain \in starters => table.deltas[table.captain] = 0
<1> DEFINE l == Own(m)
           starters == {p \in Squad[m] : l[p] > 0}
           D == [c \in starters |-> Delta(l, points, keep, c)]
<1>1. l \in Lineup /\ OneBoosted(l)
  BY OwnIs
<1>2. Squad[m] \subseteq Players
  BY OddsAssumption
<1>3. /\ Deltas(m, points, keep).captain = Captain(l)
      /\ Deltas(m, points, keep).deltas = D
  BY DEF Deltas, Delta
<1> HIDE DEF l
<1>4. Captain(l) \in Players \cup {None} /\ (Captain(l) \in starters => D[Captain(l)] = 0)
  <2>1. CASE Boosted(l) = {}
    <3>1. Captain(l) = None
      BY <2>1 DEF Captain
    <3> QED
      BY <1>2, <3>1, NoneAssumption
  <2>2. CASE Boosted(l) # {}
    <3>1. PICK b \in Players : l[b] > 1
      BY <2>2 DEF Boosted
    <3>2. Captain(l) = b /\ Delta(l, points, keep, b) = 0
      BY <1>1, <3>1, CaptainsDeltaIsNought
    <3> QED
      BY <3>1, <3>2
  <2> QED
    BY <2>1, <2>2
<1>5. ASSUME NEW c \in starters PROVE Delta(l, points, keep, c) \in Int
  <2>1. [p \in Players |-> 0] \in [Players -> Int] /\ c \in Players /\ l[c] > 0
    BY <1>2
  <2> QED
    BY <1>1, <2>1, ArmbandMoves
<1>6. D \in [starters -> Int] /\ DOMAIN D = starters
  BY <1>5
<1> QED
  BY <1>3, <1>4, <1>6 DEF l

(* A gameweek keeps the types.                                              *)
LEMMA PlayKeepsType ==
  ASSUME TypeOK, PlayGameweek
  PROVE  TypeOK'
<1>1. offset <= Len(Gameweeks) /\ offset' = offset + 1 /\ UNCHANGED <<locked, decision, done>>
  BY DEF PlayGameweek
<1>2. PICK points \in [Players -> Points], adjustment \in [Managers -> Adjustments] :
    /\ totals' = [m \in Managers |-> totals[m] + Season(m, Own(m), points, adjustment)]
    /\ scenarios' = [s \in Scenarios |->
         scenarios[s] + Season(User, ScenarioLineup(s), points, adjustment)]
    /\ options' = IF offset # decision THEN options
                  ELSE [m \in Managers |-> Deltas(m, points, Kept[m][offset])]
    /\ moved' = [m \in Managers |-> [c \in Squad[m] |->
         moved[m][c] + Season(m, Played(m, c), points, adjustment)]]
  BY PlayGameweekIs
<1>3. User \in Managers /\ offset \in Nat /\ decision \in Nat
  BY OddsAssumption, GameweeksAre DEF TypeOK
<1>4. totals' \in [Managers -> Int]
  <2>1. ASSUME NEW m \in Managers PROVE totals[m] + Season(m, Own(m), points, adjustment) \in Int
    <3>1. Season(m, Own(m), points, adjustment) \in Int
      BY <1>1, OwnIs, SeasonIs
    <3> QED
      BY <3>1 DEF TypeOK
  <2> QED
    BY <1>2, <2>1
<1>5. scenarios' \in [Scenarios -> Int]
  <2>1. ASSUME NEW s \in Scenarios
        PROVE  scenarios[s] + Season(User, ScenarioLineup(s), points, adjustment) \in Int
    <3>1. Season(User, ScenarioLineup(s), points, adjustment) \in Int
      BY <1>1, <1>3, ScenarioLineupIs, SeasonIs
    <3> QED
      BY <3>1 DEF TypeOK
  <2> QED
    BY <1>2, <2>1
<1>6. ASSUME NEW m \in Managers PROVE moved'[m] \in [Squad[m] -> Int]
  <2>1. ASSUME NEW c \in Squad[m]
        PROVE  moved[m][c] + Season(m, Played(m, c), points, adjustment) \in Int
    <3>1. Season(m, Played(m, c), points, adjustment) \in Int
      BY <1>1, PlayedIs, SeasonIs
    <3>2. moved[m] \in [Squad[m] -> Int]
      BY DEF TypeOK
    <3> QED
      BY <3>1, <3>2
  <2>2. moved'[m] = [c \in Squad[m] |-> moved[m][c] + Season(m, Played(m, c), points, adjustment)]
    BY <1>2
  <2> QED
    BY <2>1, <2>2
<1>7. ASSUME NEW m \in Managers
      PROVE  IF offset' <= decision THEN options'[m] = None
             ELSE /\ options'[m].captain \in Players \cup {None}
                  /\ DOMAIN options'[m].deltas \subseteq Squad[m]
                  /\ options'[m].deltas \in [DOMAIN options'[m].deltas -> Int]
  <2>1. CASE offset = decision
    <3>1. Kept[m][offset] \in 0..Scale /\ points \in [Players -> Int]
      BY <1>1, AtOffset, OddsAssumption
    <3> DEFINE starters == {p \in Squad[m] : Own(m)[p] > 0}
    <3>2. /\ options'[m].captain \in Players \cup {None}
          /\ options'[m].deltas \in [starters -> Int] /\ DOMAIN options'[m].deltas = starters
      BY <1>1, <1>2, <2>1, <3>1, DeltasAre
    <3>3. starters \subseteq Squad[m] /\ ~(offset' <= decision)
      BY <1>1, <1>3, <2>1
    <3> HIDE DEF starters
    <3> QED
      BY <3>2, <3>3
  <2>2. CASE offset # decision
    <3>1. options' = options /\ (offset' <= decision <=> offset <= decision)
      BY <1>1, <1>2, <1>3, <2>2
    <3> QED
      BY <3>1 DEF TypeOK, Candidates
  <2> QED
    BY <2>1, <2>2
<1>8. offset' \in 1..Len(Gameweeks) + 1 /\ (done' => offset' > Len(Gameweeks))
  BY <1>1, GameweeksAre DEF TypeOK
<1>9. /\ \A m \in Managers : locked'[m] \in Lineups[m]
      /\ decision' \in DOMAIN Gameweeks /\ done' \in BOOLEAN /\ decision' = decision
  BY <1>1 DEF TypeOK
<1> QED
  BY <1>4, <1>5, <1>6, <1>7, <1>8, <1>9 DEF TypeOK, Candidates

(* A gameweek keeps the table true: before and after the decision both      *)
(* seasons gain the same, at it they differ by the entry written            *)
(* (ArmbandMoves).                                                          *)
LEMMA PlayKeepsTable ==
  ASSUME TypeOK, TableOfSeasons, PlayGameweek
  PROVE  TableOfSeasons'
<1>1. offset <= Len(Gameweeks) /\ offset' = offset + 1 /\ UNCHANGED <<locked, decision, done>>
  BY DEF PlayGameweek
<1>2. PICK points \in [Players -> Points], adjustment \in [Managers -> Adjustments] :
    /\ totals' = [m \in Managers |-> totals[m] + Season(m, Own(m), points, adjustment)]
    /\ options' = IF offset # decision THEN options
                  ELSE [m \in Managers |-> Deltas(m, points, Kept[m][offset])]
    /\ moved' = [m \in Managers |-> [c \in Squad[m] |->
         moved[m][c] + Season(m, Played(m, c), points, adjustment)]]
  BY PlayGameweekIs
<1>3. offset \in Nat /\ decision \in Nat
  BY GameweeksAre DEF TypeOK
<1> SUFFICES ASSUME NEW m \in Managers
             PROVE  /\ offset' <= decision => \A c \in Squad[m] : moved'[m][c] = totals'[m]
                    /\ offset' > decision =>
                         \A c \in DOMAIN options'[m].deltas :
                           moved'[m][c] = totals'[m] + options'[m].deltas[c]
  BY <1>1 DEF TableOfSeasons, Candidates
<1>4. /\ totals'[m] = totals[m] + Season(m, Own(m), points, adjustment)
      /\ \A c \in Squad[m] : moved'[m][c] = moved[m][c] + Season(m, Played(m, c), points, adjustment)
  BY <1>2
<1>5. Own(m) \in Lineup /\ Season(m, Own(m), points, adjustment) \in Int /\ totals[m] \in Int
  BY <1>1, OwnIs, SeasonIs DEF TypeOK
<1>6. CASE offset < decision
  <2>1. \A c \in Squad[m] : Played(m, c) = Own(m) /\ moved[m][c] = totals[m]
    BY <1>3, <1>6 DEF Played, TableOfSeasons
  <2>2. offset' <= decision
    BY <1>1, <1>3, <1>6
  <2> QED
    BY <1>1, <1>3, <1>4, <2>1, <2>2
<1>7. CASE offset = decision
  <2> DEFINE l == Own(m)
             keep == Kept[m][offset]
             starters == {p \in Squad[m] : l[p] > 0}
  <2>1. keep \in 0..Scale /\ points \in [Players -> Int] /\ LineupField \in [Players -> Int]
        /\ adjustment[m] \in Int
    BY <1>1, <1>5, AtOffset, SeasonIs, OddsAssumption
  <2>2. /\ DOMAIN options'[m].deltas = starters
        /\ \A c \in starters : options'[m].deltas[c] = Delta(l, points, keep, c)
    <3>1. options'[m] = Deltas(m, points, keep)
      BY <1>2, <1>7
    <3> QED
      <4> HIDE DEF l, keep, starters
      <4>1. /\ DOMAIN Deltas(m, points, keep).deltas = {p \in Squad[m] : Own(m)[p] > 0}
            /\ \A c \in {p \in Squad[m] : Own(m)[p] > 0} :
                 Deltas(m, points, keep).deltas[c] = Delta(Own(m), points, keep, c)
        BY <1>1, <2>1, DeltasAre
      <4> QED
        BY <3>1, <4>1, Zenon DEF l, starters
  <2>3. offset' > decision
    BY <1>1, <1>3, <1>7
  <2>4. ASSUME NEW c \in starters
        PROVE  moved'[m][c] = totals'[m] + Delta(l, points, keep, c)
    <3>1. Played(m, c) = WithArmband(l, c) /\ moved[m][c] = totals[m]
      BY <1>3, <1>7 DEF Played, TableOfSeasons
    <3>2. c \in Players /\ l[c] > 0
      BY OddsAssumption
    <3> DEFINE a == Score(Weights(l, LineupField, keep), points)
               b == Score(Weights(WithArmband(l, c), LineupField, keep), points)
               d == Delta(l, points, keep, c)
               s == Autosubs(l)
               e == Scale * adjustment[m]
    <3>3. d \in Int /\ b = a + d
      BY <1>5, <2>1, <3>2, ArmbandMoves
    <3>4. Autosubs(WithArmband(l, c)) = s /\ s \in Int
      BY <1>5, <3>2, WithArmbandIs, AutosubsAre
    <3>5. a \in Int
      BY <1>5, <2>1, WeightsAre, ScoreIs
    <3>6. e \in Int
      BY <2>1, ConstantsAre
    <3>7. /\ Season(m, l, points, adjustment) = a + s + e
          /\ Season(m, WithArmband(l, c), points, adjustment) = b + s + e
      BY <3>4 DEF Season
    <3>8. /\ totals'[m] = totals[m] + (a + s + e)
          /\ moved'[m][c] = totals[m] + (b + s + e)
      BY <1>4, <3>1, <3>7
    <3> HIDE DEF a, b, d, s, e
    <3>9. moved'[m][c] = totals'[m] + d
      BY <1>5, <3>3, <3>4, <3>5, <3>6, <3>8
    <3> QED
      BY <3>9 DEF d
  <2> HIDE DEF starters, keep, l
  <2>5. ~(offset' <= decision)
    BY <1>1, <1>3, <1>7
  <2> QED
    BY <2>2, <2>3, <2>4, <2>5
<1>8. CASE offset > decision
  <2>1. options' = options /\ DOMAIN options[m].deltas \subseteq Squad[m]
        /\ options[m].deltas \in [DOMAIN options[m].deltas -> Int]
    BY <1>2, <1>3, <1>8 DEF TypeOK, Candidates
  <2>2. ASSUME NEW c \in DOMAIN options[m].deltas
        PROVE  moved'[m][c] = totals'[m] + options[m].deltas[c]
    <3>1. Played(m, c) = Own(m)
      BY <1>3, <1>8 DEF Played
    <3>2. moved[m][c] = totals[m] + options[m].deltas[c] /\ options[m].deltas[c] \in Int
      BY <1>8, <2>1 DEF TableOfSeasons, Candidates
    <3>3. moved'[m][c] = moved[m][c] + Season(m, Own(m), points, adjustment)
      BY <1>4, <2>1, <3>1
    <3> DEFINE d == options[m].deltas[c]
               x == Season(m, Own(m), points, adjustment)
    <3>4. d \in Int /\ x \in Int /\ moved'[m][c] = (totals[m] + d) + x /\ totals'[m] = totals[m] + x
      BY <1>4, <1>5, <3>2, <3>3
    <3> HIDE DEF d, x
    <3>5. moved'[m][c] = totals'[m] + d
      BY <1>5, <3>4
    <3> QED
      BY <3>5 DEF d
  <2>3. ~(offset' <= decision)
    BY <1>1, <1>3, <1>8
  <2> QED
    BY <2>1, <2>2, <2>3
<1> QED
  BY <1>3, <1>6, <1>7, <1>8

(* A gameweek keeps the captain's entry nought.                             *)
LEMMA PlayKeepsCaptain ==
  ASSUME TypeOK, CaptainAddsNothing, PlayGameweek
  PROVE  CaptainAddsNothing'
<1>1. offset <= Len(Gameweeks) /\ offset' = offset + 1 /\ decision' = decision
  BY DEF PlayGameweek
<1>2. PICK points \in [Players -> Points], adjustment \in [Managers -> Adjustments] :
    options' = IF offset # decision THEN options
               ELSE [m \in Managers |-> Deltas(m, points, Kept[m][offset])]
  BY PlayGameweekIs
<1>3. offset \in Nat /\ decision \in Nat
  BY GameweeksAre DEF TypeOK
<1>4. SUFFICES ASSUME offset' > decision, NEW m \in Managers,
                      options'[m].captain \in DOMAIN options'[m].deltas
               PROVE  options'[m].deltas[options'[m].captain] = 0
  BY <1>1 DEF CaptainAddsNothing, Candidates
<1>5. CASE offset = decision
  <2>1. Kept[m][offset] \in 0..Scale /\ points \in [Players -> Int]
    BY <1>1, AtOffset, OddsAssumption
  <2>2. options'[m] = Deltas(m, points, Kept[m][offset])
    BY <1>2, <1>5
  <2> DEFINE table == Deltas(m, points, Kept[m][offset])
             starters == {p \in Squad[m] : Own(m)[p] > 0}
  <2>3. /\ DOMAIN table.deltas = starters
        /\ (table.captain \in starters => table.deltas[table.captain] = 0)
    BY <1>1, <2>1, DeltasAre
  <2> HIDE DEF table, starters
  <2> QED
    BY <1>4, <2>2, <2>3 DEF table
<1>6. CASE offset # decision
  BY <1>1, <1>2, <1>3, <1>4, <1>6 DEF CaptainAddsNothing, Candidates
<1> QED
  BY <1>5, <1>6

(* In the baseline the user fields their own lineup, locked or best.        *)
LEMMA BaselineIsOwn ==
  ASSUME TypeOK
  PROVE  Baseline \in Scenarios /\ ScenarioLineup(Baseline) = Own(User)
<1>1. Override(Baseline) = None
  BY DEF Override, Baseline
<1> QED
  BY <1>1 DEF ScenarioLineup, Own, Baseline, Scenarios

(* A captain move at the first gameweek fields the locked lineup with the   *)
(* armband on the new captain, and later the best eleven, exactly as the    *)
(* season with that captain does.                                           *)
LEMMA CaptainMoveIs ==
  ASSUME TypeOK, decision = 1, locked[User] # None, Armband(locked[User]) = 2,
         offset <= Len(Gameweeks), NEW c \in Squad[User], Locked(c)
  PROVE  /\ CaptainMove(c) \in Scenarios
         /\ ScenarioLineup(CaptainMove(c)) = Played(User, c)
<1> DEFINE s == CaptainMove(c)
           w == WithArmband(locked[User], c)
<1>1. s \in Scenarios /\ s.kind = "captain" /\ s.kind # "transfer" /\ s.player = c
  BY DEF CaptainMove, Scenarios
<1>2. User \in Managers /\ c \in Players /\ locked[User] \in Lineup
  <2>1. User \in Managers /\ c \in Players
    BY OddsAssumption
  <2> QED
    BY <2>1, OddsAssumption DEF TypeOK, Lineup
<1>3. Override(s) = w
  BY <1>1 DEF Override, WithArmband
<1>4. w # None
  <2>1. w \in Lineup
    BY <1>2, WithArmbandIs DEF Locked
  <2> QED
    BY <2>1, NoneAssumption DEF Lineup
<1> HIDE DEF s, w
<1>5. ScenarioLineup(s) = IF offset = 1 THEN w ELSE BestEleven(Squad[User], Gameweeks[offset])
  BY <1>1, <1>3, <1>4 DEF ScenarioLineup
<1>6. Own(User) = IF offset = 1 THEN locked[User] ELSE BestEleven(Squad[User], Gameweeks[offset])
  BY DEF Own
<1>7. Played(User, c) = IF offset = 1 THEN w ELSE BestEleven(Squad[User], Gameweeks[offset])
  BY <1>6 DEF Played, Locked, w
<1> QED
  BY <1>1, <1>5, <1>7 DEF s

(* A gameweek keeps the scenarios in step.                                  *)
LEMMA PlayKeepsScenarios ==
  ASSUME TypeOK, ScenariosInStep, PlayGameweek
  PROVE  ScenariosInStep'
<1>1. offset <= Len(Gameweeks) /\ offset' = offset + 1 /\ UNCHANGED <<locked, decision, done>>
  BY DEF PlayGameweek
<1>2. PICK points \in [Players -> Points], adjustment \in [Managers -> Adjustments] :
    /\ totals' = [m \in Managers |-> totals[m] + Season(m, Own(m), points, adjustment)]
    /\ scenarios' = [s \in Scenarios |->
         scenarios[s] + Season(User, ScenarioLineup(s), points, adjustment)]
    /\ options' = IF offset # decision THEN options
                  ELSE [m \in Managers |-> Deltas(m, points, Kept[m][offset])]
    /\ moved' = [m \in Managers |-> [c \in Squad[m] |->
         moved[m][c] + Season(m, Played(m, c), points, adjustment)]]
  BY PlayGameweekIs
<1>3. offset \in Nat /\ offset >= 1 /\ decision \in Nat /\ User \in Managers
  BY OddsAssumption, GameweeksAre DEF TypeOK
<1>4. scenarios'[Baseline] = totals'[User]
  <2>1. totals'[User] = totals[User] + Season(User, Own(User), points, adjustment)
    BY <1>2, <1>3
  <2>2. scenarios'[Baseline] = scenarios[Baseline] + Season(User, Own(User), points, adjustment)
    BY <1>2, BaselineIsOwn
  <2> QED
    BY <2>1, <2>2 DEF ScenariosInStep
<1>5. ASSUME decision = 1, locked[User] # None, NEW c \in DOMAIN options'[User].deltas
      PROVE  locked[User][c] > 0
  <2>1. CASE offset = 1
    <3>1. Kept[User][offset] \in 0..Scale /\ points \in [Players -> Int]
      BY <1>1, <1>3, AtOffset, OddsAssumption
    <3> DEFINE table == Deltas(User, points, Kept[User][offset])
               starters == {p \in Squad[User] : Own(User)[p] > 0}
    <3>2. options'[User] = table
      BY <1>2, <1>3, <1>5, <2>1
    <3>3. DOMAIN table.deltas = starters
      BY <1>1, <1>3, <3>1, DeltasAre
    <3>4. Own(User) = locked[User]
      BY <1>5, <2>1 DEF Own
    <3> HIDE DEF table
    <3> QED
      BY <1>5, <3>2, <3>3, <3>4
  <2>2. CASE offset > 1
    <3>1. options' = options
      BY <1>2, <1>3, <1>5, <2>2
    <3> QED
      BY <1>5, <2>2, <3>1 DEF ScenariosInStep, Locked, Candidates
  <2> QED
    BY <1>3, <2>1, <2>2
<1>6. ASSUME decision = 1, locked[User] # None, Armband(locked[User]) = 2,
             NEW c \in Squad[User], Locked(c)
      PROVE  scenarios'[CaptainMove(c)] = moved'[User][c]
  <2>1. CaptainMove(c) \in Scenarios /\ ScenarioLineup(CaptainMove(c)) = Played(User, c)
    BY <1>1, <1>6, CaptainMoveIs
  <2>2. scenarios[CaptainMove(c)] = moved[User][c]
    BY <1>6 DEF ScenariosInStep
  <2>3. scenarios'[CaptainMove(c)]
          = scenarios[CaptainMove(c)] + Season(User, Played(User, c), points, adjustment)
    BY <1>2, <2>1
  <2>4. moved'[User][c] = moved[User][c] + Season(User, Played(User, c), points, adjustment)
    BY <1>2, <1>3
  <2> QED
    BY <2>2, <2>3, <2>4
<1>7. (Armband(locked[User]) = 2)' <=> Armband(locked[User]) = 2
  BY <1>1 DEF Armband
<1>8. \A c : Locked(c)' <=> Locked(c)
  BY <1>1 DEF Locked
<1>9. \A c : (CaptainMove(c))' = CaptainMove(c) /\ Baseline' = Baseline
  BY DEF CaptainMove, Baseline
<1> QED
  BY <1>1, <1>4, <1>5, <1>6, <1>7, <1>8, <1>9 DEF ScenariosInStep, Candidates, Locked

(* The chips in hand are the same for all seasons of a manager.             *)
LEMMA FinishKeeps ==
  ASSUME IInv, Finish
  PROVE  IInv'
<1>1. offset > Len(Gameweeks) /\ done' = TRUE /\ UNCHANGED <<locked, decision, offset, options>>
  BY DEF Finish
<1>2. PICK bonus \in [Managers -> Bonuses] :
       /\ totals' = [m \in Managers |-> totals[m] + Scale * bonus[m]]
       /\ scenarios' = [s \in Scenarios |-> scenarios[s] + Scale * bonus[User]]
       /\ moved' = [m \in Managers |-> [c \in Squad[m] |-> moved[m][c] + Scale * bonus[m]]]
  BY DEF Finish
<1>3. \A m \in Managers : Scale * bonus[m] \in Int
  <2>1. \A m \in Managers : bonus[m] \in Int
    BY OddsAssumption
  <2> QED
    BY <2>1, ConstantsAre
<1>4. User \in Managers /\ offset \in Nat /\ decision \in Nat /\ ~(offset <= decision)
  BY <1>1, OddsAssumption, GameweeksAre DEF IInv, TypeOK
<1>5. ASSUME NEW m \in Managers
      PROVE  /\ totals[m] \in Int /\ totals'[m] = totals[m] + Scale * bonus[m]
             /\ moved[m] \in [Squad[m] -> Int]
             /\ moved'[m] = [c \in Squad[m] |-> moved[m][c] + Scale * bonus[m]]
  BY <1>2 DEF IInv, TypeOK
<1>6. TypeOK'
  <2>1. totals' \in [Managers -> Int] /\ scenarios' \in [Scenarios -> Int]
    <3>1. \A s \in Scenarios : scenarios[s] \in Int
      BY DEF IInv, TypeOK
    <3> QED
      BY <1>2, <1>3, <1>4, <1>5, <3>1
  <2>2. ASSUME NEW m \in Managers PROVE moved'[m] \in [Squad[m] -> Int]
    <3>1. \A c \in Squad[m] : moved[m][c] + Scale * bonus[m] \in Int
      <4> DEFINE x == Scale * bonus[m]
      <4>1. x \in Int /\ \A c \in Squad[m] : moved[m][c] \in Int
        BY <1>3, <1>5
      <4> HIDE DEF x
      <4>2. \A c \in Squad[m] : moved[m][c] + x \in Int
        BY <4>1
      <4> QED
        BY <4>2 DEF x
    <3> QED
      BY <1>5, <3>1
  <2> QED
    BY <1>1, <2>1, <2>2 DEF IInv, TypeOK, Candidates
<1>7. TableOfSeasons'
  <2> SUFFICES ASSUME NEW m \in Managers, NEW c \in DOMAIN options[m].deltas
               PROVE  moved'[m][c] = totals'[m] + options[m].deltas[c]
    BY <1>1, <1>4 DEF TableOfSeasons, Candidates
  <2>1. c \in Squad[m] /\ options[m].deltas[c] \in Int
    BY <1>4 DEF IInv, TypeOK, Candidates
  <2>2. moved[m][c] = totals[m] + options[m].deltas[c]
    BY <1>4 DEF IInv, TableOfSeasons, Candidates
  <2>3. moved'[m][c] = moved[m][c] + Scale * bonus[m]
    BY <1>5, <2>1
  <2> DEFINE d == options[m].deltas[c]
             x == Scale * bonus[m]
  <2>4. /\ d \in Int /\ x \in Int /\ totals[m] \in Int
        /\ moved'[m][c] = (totals[m] + d) + x /\ totals'[m] = totals[m] + x
    BY <1>3, <1>5, <2>1, <2>2, <2>3
  <2> HIDE DEF d, x
  <2>5. moved'[m][c] = totals'[m] + d
    BY <2>4
  <2> QED
    BY <2>5 DEF d
<1>8. CaptainAddsNothing'
  BY <1>1 DEF IInv, CaptainAddsNothing, Candidates
<1>9. ScenariosInStep'
  <2>1. scenarios'[Baseline] = totals'[User]
    <3>1. Baseline \in Scenarios
      BY DEF Scenarios
    <3> QED
      BY <1>2, <1>4, <3>1 DEF IInv, ScenariosInStep
  <2>2. ASSUME decision = 1, locked[User] # None, Armband(locked[User]) = 2,
               NEW c \in Squad[User], Locked(c)
        PROVE  scenarios'[CaptainMove(c)] = moved'[User][c]
    <3>1. CaptainMove(c) \in Scenarios
      BY DEF Scenarios, CaptainMove
    <3>2. scenarios[CaptainMove(c)] = moved[User][c]
      BY <2>2 DEF IInv, ScenariosInStep
    <3> QED
      BY <1>2, <1>4, <3>1, <3>2
  <2>3. (Armband(locked[User]) = 2)' <=> Armband(locked[User]) = 2
    BY <1>1 DEF Armband
  <2>4. \A c : /\ Locked(c)' <=> Locked(c)
               /\ (CaptainMove(c))' = CaptainMove(c) /\ Baseline' = Baseline
    BY <1>1 DEF Locked, CaptainMove, Baseline
  <2>5. decision = 1 /\ locked[User] # None /\ offset > 1
          => \A c \in DOMAIN options[User].deltas : Locked(c)
    BY DEF IInv, ScenariosInStep, Candidates
  <2> QED
    BY <1>1, <2>1, <2>2, <2>3, <2>4, <2>5 DEF ScenariosInStep, Candidates
<1> QED
  BY <1>6, <1>7, <1>8, <1>9 DEF IInv

(* A run starts with all seasons where the table stands.                    *)
LEMMA InitIsIn ==
  ASSUME Init
  PROVE  IInv
<1>1. offset = 1 /\ decision \in 1..Len(Gameweeks) /\ decision >= 1 /\ ~(offset > decision)
      /\ User \in Managers
  BY OddsAssumption, GameweeksAre DEF Init
<1>2. \A m \in Managers : Scale * Current[m] \in Int
  <2>1. \A m \in Managers : Current[m] \in Int
    BY OddsAssumption
  <2> QED
    BY <2>1, ConstantsAre
<1>3. TypeOK
  <2>1. \A m \in Managers : locked[m] \in Lineups[m]
    BY DEF Init
  <2>2. totals \in [Managers -> Int] /\ scenarios \in [Scenarios -> Int]
        /\ \A m \in Managers : moved[m] \in [Squad[m] -> Int]
    BY <1>1, <1>2 DEF Init
  <2>3. \A m \in Managers : options[m] = None
    BY DEF Init
  <2>4. /\ offset \in 1..Len(Gameweeks) + 1
        /\ decision \in DOMAIN Gameweeks /\ done = FALSE /\ offset <= decision
    BY <1>1, GameweeksAre DEF Init
  <2> QED
    BY <2>1, <2>2, <2>3, <2>4 DEF TypeOK
<1>4. TableOfSeasons
  BY <1>1 DEF Init, TableOfSeasons
<1>5. CaptainAddsNothing
  BY <1>1 DEF CaptainAddsNothing
<1>6. ScenariosInStep
  <2>1. Baseline \in Scenarios /\ \A c \in Squad[User] : CaptainMove(c) \in Scenarios
    BY DEF Scenarios, CaptainMove
  <2> QED
    BY <1>1, <2>1 DEF Init, ScenariosInStep
<1> QED
  BY <1>3, <1>4, <1>5, <1>6 DEF IInv

(* Every step keeps the invariant.                                          *)
LEMMA StepKeeps ==
  ASSUME IInv, [Next]_vars
  PROVE  IInv'
<1>1. CASE PlayGameweek
  BY <1>1, PlayKeepsType, PlayKeepsTable, PlayKeepsCaptain, PlayKeepsScenarios DEF IInv
<1>2. CASE Finish
  BY <1>2, FinishKeeps
<1>3. CASE UNCHANGED vars
  BY <1>3 DEF vars, IInv, TypeOK, TableOfSeasons, CaptainAddsNothing, ScenariosInStep, Candidates,
     Armband, Locked, CaptainMove, Baseline, Scenarios
<1> QED
  BY <1>1, <1>2, <1>3 DEF Next

-----------------------------------------------------------------------------
(* A finite set with an order has an element nothing comes before.          *)
LEMMA TopOfOrder ==
  ASSUME NEW S, IsFiniteSet(S), S # {}, NEW R,
         \A x, y \in S : <<x, y>> \in R => <<y, x>> \notin R,
         \A x, y, z \in S : <<x, y>> \in R /\ <<y, z>> \in R => <<x, z>> \in R
  PROVE  \E x \in S : \A y \in S : <<x, y>> \notin R
<1> DEFINE Q == {V \in SUBSET S : V # {} => \E x \in V : \A y \in V : <<x, y>> \notin R}
<1>1. ASSUME NEW V \in SUBSET S, \A W \in SUBSET V : W # V => W \in Q
      PROVE  V \in Q
  <2> SUFFICES ASSUME V # {} PROVE \E x \in V : \A y \in V : <<x, y>> \notin R
    OBVIOUS
  <2>1. PICK v \in V : TRUE
    OBVIOUS
  <2>2. \A x \in S : <<x, x>> \notin R
    OBVIOUS
  <2>3. CASE V \ {v} = {}
    <3>1. V = {v}
      BY <2>3
    <3> QED
      BY <2>2, <3>1
  <2>4. CASE V \ {v} # {}
    <3>1. V \ {v} \in Q
      <4>1. V \ {v} \in SUBSET V /\ V \ {v} # V
        BY <2>1
      <4> HIDE DEF Q
      <4> QED
        BY <1>1, <4>1
    <3>2. PICK x \in V \ {v} : \A y \in V \ {v} : <<x, y>> \notin R
      BY <2>4, <3>1
    <3>3. CASE <<x, v>> \notin R
      BY <3>2, <3>3
    <3>4. CASE <<x, v>> \in R
      <4>1. ASSUME NEW y \in V PROVE <<v, y>> \notin R
        <5>1. CASE y = v
          BY <2>2, <5>1
        <5>2. CASE y # v
          <6>1. x \in S /\ v \in S /\ y \in S /\ <<x, y>> \notin R
            BY <3>2, <5>2
          <6> QED
            BY <3>4, <6>1
        <5> QED
          BY <5>1, <5>2
      <4> QED
        BY <4>1
    <3> QED
      BY <3>3, <3>4
  <2> QED
    BY <2>3, <2>4
<1>2. \A V \in SUBSET S : V \in Q
  <2> HIDE DEF Q
  <2> QED
    BY <1>1, SubsetInduction
<1> QED
  BY <1>2

(* What the advice chooses from, what puts o before c in it, and its        *)
(* choice.                                                                  *)
Others(m) == Shortlisted(m) \ {options[m].captain}
Behind(m, r, c, o) ==
  \/ AboveWith(m, o, r) /\ ~AboveWith(m, c, r)
  \/ AboveWith(m, o, r) = AboveWith(m, c, r) /\ Ahead(o, c, Gameweeks[decision])
Best(m, r) == CHOOSE c \in Others(m) : \A o \in Others(m) \ {c} : ~Behind(m, r, c, o)

(* If there is another captain to advise there is a first one: to be ahead  *)
(* by the odds and then by projection is an order.                          *)
LEMMA BestIs ==
  ASSUME TypeOK, offset > decision, NEW m \in Managers, NEW r \in Managers, Others(m) # {}
  PROVE  /\ Best(m, r) \in Others(m)
         /\ \A o \in Others(m) \ {Best(m, r)} : ~Behind(m, r, Best(m, r), o)
<1> DEFINE S == Others(m)
           gw == Gameweeks[decision]
           R == {s \in Players \X Players : Behind(m, r, s[1], s[2])}
<1>1. S \subseteq Players /\ IsFiniteSet(S) /\ gw \in Range(Gameweeks)
  <2>1. Candidates(m) \subseteq Squad[m] /\ Squad[m] \subseteq Players
    <3>1. decision \in Nat /\ offset \in Nat
      BY GameweeksAre DEF TypeOK
    <3>2. ~(offset <= decision)
      BY <3>1
    <3> QED
      BY <3>2, OddsAssumption DEF TypeOK
  <2>2. S \subseteq Players
    BY <2>1 DEF Others, Shortlisted
  <2>3. IsFiniteSet(S)
    BY <2>2, ConstantsAre, FS_Subset
  <2> QED
    BY <2>2, <2>3 DEF TypeOK, Range
<1> HIDE DEF S, gw
<1>2. ASSUME NEW x \in S, NEW y \in S
      PROVE  (<<x, y>> \in R) <=> Behind(m, r, x, y)
  BY <1>1
<1> HIDE DEF R
<1>3. ASSUME NEW x \in S, NEW y \in S, NEW z \in S
      PROVE  /\ ~(Behind(m, r, x, y) /\ Behind(m, r, y, x))
             /\ Behind(m, r, x, y) /\ Behind(m, r, y, z) => Behind(m, r, x, z)
  <2>1. /\ ~(Ahead(x, y, gw) /\ Ahead(y, x, gw))
        /\ Ahead(z, y, gw) /\ Ahead(y, x, gw) => Ahead(z, x, gw)
    BY <1>1, AheadIsOrder
  <2>2. \A c, o \in S : AboveWith(m, c, r) \in BOOLEAN
    BY DEF AboveWith
  <2> QED
    BY <2>1, <2>2 DEF Behind, gw
<1>4. \E x \in S : \A y \in S : <<x, y>> \notin R
  <2>1. \A x, y \in S : <<x, y>> \in R => <<y, x>> \notin R
    BY <1>2, <1>3
  <2>2. \A x, y, z \in S : <<x, y>> \in R /\ <<y, z>> \in R => <<x, z>> \in R
    BY <1>2, <1>3
  <2>3. S # {}
    BY DEF S
  <2> QED
    BY <1>1, <2>1, <2>2, <2>3, TopOfOrder
<1>5. \E c \in S : \A o \in S \ {c} : ~Behind(m, r, c, o)
  BY <1>2, <1>4
<1> QED
  BY <1>5, Zenon DEF Best, S

(* In the invariant the table's answers are those of the seasons, so the    *)
(* first of the advised helps if any does.                                  *)
LEMMA AnswersHold ==
  ASSUME IInv
  PROVE  CaptaincyAnswersHold
<1> SUFFICES ASSUME done, NEW m \in Managers
    PROVE /\ \A c \in Candidates(m) : totals[m] + options[m].deltas[c] = moved[m][c]
          /\ \A r \in Managers \ {m} :
               LET better == {c \in Shortlisted(m) : moved[m][c] > totals[r] /\ totals[m] <= totals[r]}
               IN IF better # {} THEN Advice(m, r) \in better
                  ELSE options[m].captain # None => Advice(m, r) = None
  BY DEF CaptaincyAnswersHold
<1>1. offset > decision
  BY GameweeksAre DEF IInv, TypeOK
<1>2. \A c \in Candidates(m) : totals[m] + options[m].deltas[c] = moved[m][c]
  BY <1>1 DEF IInv, TableOfSeasons
<1>3. ASSUME NEW r \in Managers \ {m}
      PROVE  LET better == {c \in Shortlisted(m) : moved[m][c] > totals[r] /\ totals[m] <= totals[r]}
             IN IF better # {} THEN Advice(m, r) \in better
                ELSE options[m].captain # None => Advice(m, r) = None
  <2> DEFINE better == {c \in Shortlisted(m) : moved[m][c] > totals[r] /\ totals[m] <= totals[r]}
             best == Best(m, r)
             helps == AboveWith(m, best, r) /\ ~Above(m, r)
  <2>1. Advice(m, r) = IF Others(m) = {} \/ (options[m].captain # None /\ ~helps)
                       THEN None ELSE best
    BY DEF Advice, Others, Behind, Best
  <2>2. Shortlisted(m) \subseteq Candidates(m)
    BY DEF Shortlisted
  <2>3. totals[m] \in Int /\ totals[r] \in Int
    BY DEF IInv, TypeOK
  <2>4. \A c \in Shortlisted(m) : c \in better <=> AboveWith(m, c, r) /\ ~Above(m, r)
    BY <1>2, <2>2, <2>3 DEF AboveWith, Above
  <2>5. options[m].captain \notin better
    <3>1. options[m].captain \in Candidates(m) => moved[m][options[m].captain] = totals[m]
      BY <1>1, <1>2, <2>3 DEF IInv, CaptainAddsNothing
    <3> QED
      BY <2>2, <2>3, <3>1
  <2> HIDE DEF better
  <2>6. better \subseteq Others(m)
    BY <2>5 DEF better, Others
  <2>7. CASE better # {}
    <3>1. PICK c \in better : TRUE
      BY <2>7
    <3>2. c \in Others(m) /\ AboveWith(m, c, r) /\ ~Above(m, r)
      BY <2>4, <2>6 DEF Others
    <3>3. best \in Others(m) /\ \A o \in Others(m) \ {best} : ~Behind(m, r, best, o)
      BY <1>1, <3>2, BestIs DEF IInv
    <3>4. AboveWith(m, best, r)
      BY <3>2, <3>3 DEF Behind
    <3>5. best \in better
      BY <2>4, <3>2, <3>3, <3>4 DEF Others
    <3>6. Advice(m, r) = best
      BY <2>1, <3>2, <3>4
    <3> QED
      BY <2>7, <3>5, <3>6 DEF better
  <2>8. CASE better = {}
    <3>1. ASSUME options[m].captain # None PROVE Advice(m, r) = None
      <4>1. CASE Others(m) = {}
        BY <2>1, <4>1
      <4>2. CASE Others(m) # {}
        <5>1. best \in Shortlisted(m)
          BY <1>1, <4>2, BestIs DEF IInv, Others
        <5>2. ~helps
          BY <2>4, <2>8, <5>1
        <5> QED
          BY <2>1, <3>1, <5>2
      <4> QED
        BY <4>1, <4>2
    <3> QED
      BY <2>8, <3>1 DEF better
  <2> QED
    BY <2>7, <2>8
<1> QED
  BY <1>2, <1>3

(* In the invariant every captain move is measured against the user's own   *)
(* row.                                                                     *)
LEMMA MoveMeasured ==
  ASSUME IInv
  PROVE  ScenariosMeasureTheMove
<1> SUFFICES ASSUME done
             PROVE  /\ scenarios[Baseline] = totals[User]
                    /\ decision = 1 /\ locked[User] # None =>
                         \A c \in Candidates(User) : Armband(locked[User]) = 2 =>
                           scenarios[[kind |-> "captain", player |-> c]] = moved[User][c]
  BY DEF ScenariosMeasureTheMove
<1>1. offset > decision
  BY GameweeksAre DEF IInv, TypeOK
<1>2. User \in Managers /\ Candidates(User) \subseteq Squad[User]
  <2>1. User \in Managers /\ ~(offset <= decision)
    BY <1>1, OddsAssumption, GameweeksAre DEF IInv, TypeOK
  <2> QED
    BY <2>1 DEF IInv, TypeOK
<1> QED
  BY <1>1, <1>2 DEF IInv, ScenariosInStep, CaptainMove

-----------------------------------------------------------------------------
(* The table and the scenarios stay in step with the seasons throughout a   *)
(* run.                                                                     *)
THEOREM OddsInvariant == Spec => []IInv
<1>1. Init => IInv
  BY InitIsIn
<1>2. IInv /\ [Next]_vars => IInv'
  BY StepKeeps
<1> QED
  BY <1>1, <1>2, PTL DEF Spec

(* Every reachable state of a run is well typed, and a run that is done has *)
(* played all its gameweeks.                                                *)
THEOREM OddsTypeCorrect == Spec => []TypeOK
<1>1. IInv => TypeOK
  BY DEF IInv
<1> QED
  BY <1>1, OddsInvariant, PTL

(* Every question about a captaincy is answered from the table as a season  *)
(* played with that captain would, so the advice drawn from it helps if any *)
(* shortlisted captain does, and else says to keep the one they have: for   *)
(* any managers, squads, locked lineups with one captain, projections,      *)
(* shares of drift, draws, chips and shortlist.                             *)
THEOREM CaptaincyAnswersAlwaysHold == Spec => []CaptaincyAnswersHold
<1>1. IInv => CaptaincyAnswersHold
  BY AnswersHold
<1> QED
  BY <1>1, OddsInvariant, PTL

(* A season in which nothing is done is the user's own row, and a captain   *)
(* move that can still be made gives the season of that captain: for the    *)
(* same.                                                                    *)
THEOREM ScenariosAlwaysMeasureTheMove == Spec => []ScenariosMeasureTheMove
<1>1. IInv => ScenariosMeasureTheMove
  BY MoveMeasured
<1> QED
  BY <1>1, OddsInvariant, PTL
==============================================================================
