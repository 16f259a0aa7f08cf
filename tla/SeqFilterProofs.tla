-------------------------- MODULE SeqFilterProofs --------------------------
(***************************************************************************)
(* Properties of the order-preserving removal of SeqFilter, for sequences  *)
(* of every length, and of the sums over finite sets and folds over        *)
(* sequences the models take from the community modules.  These have no    *)
(* operator for a parameter, which the provers could not instantiate: what *)
(* a sum adds up and a fold does at each position is given as a function.  *)
(***************************************************************************)
EXTENDS SeqFilter, FiniteSetTheorems, WellFoundedInduction, TLAPS

(* Every non-empty set of naturals has a least element. *)
LEMMA LeastNatural ==
  ASSUME NEW T \in SUBSET Nat, T # {}
  PROVE  \E m \in T : \A k \in T : m <= k
<1>. DEFINE R == {ss \in Nat \X Nat : ss[1] < ss[2]}
<1>1. IsWellFoundedOn(R, Nat)
  BY NatLessThanWellFounded, Zenon DEF OpToRel
<1>2. PICK m \in T : \A k \in T : ~(<<k, m>> \in R)
  <2>. HIDE DEF R
  <2>. QED  BY <1>1, WFMin
<1>3. \A k \in T : m <= k
  <2>. SUFFICES ASSUME NEW k \in T, ~(m <= k) PROVE FALSE
    OBVIOUS
  <2>1. <<k, m>> \in Nat \X Nat /\ k < m
    OBVIOUS
  <2>. QED  BY <2>1, <1>2
<1>. QED  BY <1>3

HasEnumeration(J) == \E f \in [1..Cardinality(J) -> J] : IsEnumeration(f, J)

(* One more index at the end of an enumerated set. *)
LEMMA ExtendEnumeration ==
  ASSUME NEW m \in Nat, NEW J, m \in J, \A i \in J : i \in Nat /\ i <= m,
         IsFiniteSet(J), HasEnumeration(J \ {m})
  PROVE  HasEnumeration(J)
<1>. DEFINE K == J \ {m}
            c == Cardinality(K)
            f == [a \in 1..(c + 1) |-> IF a = c + 1 THEN m ELSE
                    (CHOOSE g \in [1..c -> K] : IsEnumeration(g, K))[a]]
<1>1. PICK g \in [1..c -> K] : /\ IsEnumeration(g, K)
                               /\ f = [a \in 1..(c + 1) |-> IF a = c + 1 THEN m ELSE g[a]]
  BY DEF HasEnumeration
<1>2. c \in Nat /\ Cardinality(J) = c + 1
  <2>1. IsFiniteSet(K) /\ Cardinality(K) = Cardinality(J) - 1
    BY FS_RemoveElement, Zenon
  <2>2. Cardinality(K) \in Nat /\ Cardinality(J) \in Nat
    <3>. HIDE DEF K
    <3>. QED  BY <2>1, FS_CardinalityType
  <2>. QED  BY <2>1, <2>2
<1>. HIDE DEF c, f
<1>3. f \in [1..Cardinality(J) -> J]
  BY <1>1, <1>2
<1>4. \A a, b \in 1..(c + 1) : a < b => f[a] < f[b]
  <2>. SUFFICES ASSUME NEW a \in 1..(c + 1), NEW b \in 1..(c + 1), a < b PROVE f[a] < f[b]
    OBVIOUS
  <2>1. a \in 1..c /\ f[a] = g[a] /\ g[a] \in K /\ DOMAIN g = 1..c
    BY <1>1, <1>2
  <2>2. CASE b = c + 1
    <3>1. f[b] = m
      BY <2>2, <1>1, <1>2
    <3>2. g[a] \in Nat /\ g[a] <= m /\ g[a] # m
      BY <2>1
    <3>. QED  BY <3>1, <3>2, <2>1
  <2>3. CASE b # c + 1
    BY <2>1, <2>3, <1>1, <1>2 DEF IsEnumeration
  <2>. QED  BY <2>2, <2>3
<1>5. ASSUME NEW i \in J PROVE \E a \in 1..(c + 1) : f[a] = i
  <2>1. CASE i = m
    BY <2>1, <1>1, <1>2
  <2>2. CASE i # m
    <3>1. PICK a \in 1..c : g[a] = i
      BY <2>2, <1>1 DEF IsEnumeration
    <3>. QED  BY <3>1, <1>1, <1>2
  <2>. QED  BY <2>1, <2>2
<1>. QED  BY <1>1, <1>3, <1>4, <1>5, <1>2 DEF HasEnumeration, IsEnumeration

(* Every finite set of positive naturals has an increasing enumeration. *)
LEMMA EnumerationExists ==
  ASSUME NEW n \in Nat, NEW I \in SUBSET (1..n)
  PROVE  HasEnumeration(I)
<1>. DEFINE T == {m \in Nat : \E J \in SUBSET (1..m) : ~HasEnumeration(J)}
<1>1. SUFFICES ASSUME T # {} PROVE FALSE
  OBVIOUS
<1>2. T \in SUBSET Nat
  OBVIOUS
<1>3. PICK m \in T : \A k \in T : m <= k
  <2>. HIDE DEF T
  <2>. QED  BY <1>1, <1>2, LeastNatural
<1>4. m \in Nat
  BY <1>2
<1>5. PICK J \in SUBSET (1..m) : ~HasEnumeration(J)
  OBVIOUS
<1>6. ASSUME m # 0, NEW L \in SUBSET (1..(m - 1)) PROVE HasEnumeration(L)
  <2>1. m - 1 \in Nat /\ ~(m <= m - 1)
    BY <1>4, <1>6
  <2>2. m - 1 \notin T
    <3>. HIDE DEF T
    <3>. QED  BY <2>1, <1>3
  <2>. QED  BY <2>1, <2>2
<1>. HIDE DEF T
<1>7. CASE m = 0
  <2>1. J = {}
    BY <1>7
  <2>2. Cardinality(J) = 0
    BY <2>1, FS_EmptySet
  <2>3. [a \in 1..0 |-> a] \in [1..Cardinality(J) -> J] /\ IsEnumeration([a \in 1..0 |-> a], J)
    BY <2>1, <2>2 DEF IsEnumeration
  <2>. QED  BY <2>3, <1>5 DEF HasEnumeration
<1>8. CASE m # 0 /\ m \notin J
  <2>1. J \in SUBSET (1..(m - 1))
    BY <1>8, <1>4
  <2>. QED  BY <2>1, <1>5, <1>6, <1>8
<1>9. CASE m # 0 /\ m \in J
  <2>1. J \ {m} \in SUBSET (1..(m - 1))
    BY <1>9, <1>4
  <2>2. IsFiniteSet(J)
    <3>1. IsFiniteSet(1..m)
      BY <1>4, FS_Interval
    <3>. QED  BY <3>1, FS_Subset
  <2>3. \A i \in J : i \in Nat /\ i <= m
    BY <1>4
  <2>. QED  BY <2>1, <2>2, <2>3, <1>4, <1>5, <1>6, <1>9, ExtendEnumeration
<1>. QED  BY <1>7, <1>8, <1>9

(* Without(s, X) holds exactly the members of s outside X, repeats none that  *)
(* s does not repeat, and is not longer than s.                               *)
LEMMA WithoutProperties ==
  ASSUME NEW S, NEW s \in Seq(S), NEW X
  PROVE  /\ Without(s, X) \in Seq(S)
         /\ Members(Without(s, X)) = Members(s) \ X
         /\ NoRepeats(s) => NoRepeats(Without(s, X))
         /\ Len(Without(s, X)) <= Len(s)
<1>. DEFINE I == KeptIndices(s, X)
            c == Cardinality(I)
            f == Enumeration(I)
            t == Without(s, X)
<1>1. I \in SUBSET (1..Len(s)) /\ Len(s) \in Nat /\ DOMAIN s = 1..Len(s)
  BY DEF KeptIndices
<1>2. f \in [1..c -> I] /\ IsEnumeration(f, I)
  BY <1>1, EnumerationExists DEF Enumeration, HasEnumeration
<1>3. c \in Nat /\ c <= Len(s)
  <2>0. ASSUME NEW n \in Nat PROVE IsFiniteSet(1..n) /\ Cardinality(1..n) = n
    <3>1. /\ IsFiniteSet(1..n)
          /\ Cardinality(1..n) = IF 1 > n THEN 0 ELSE n - 1 + 1
      BY FS_Interval
    <3>. QED  BY <3>1
  <2>1. IsFiniteSet(1..Len(s)) /\ Cardinality(1..Len(s)) = Len(s)
    BY <1>1, <2>0
  <2>2. IsFiniteSet(I) /\ Cardinality(I) <= Cardinality(1..Len(s))
    <3>. HIDE DEF I
    <3>. QED  BY <1>1, <2>1, FS_Subset
  <2>3. Cardinality(I) \in Nat
    <3>. HIDE DEF I
    <3>. QED  BY <2>2, FS_CardinalityType
  <2>. QED  BY <2>1, <2>2, <2>3
<1>4. t = [a \in 1..c |-> s[f[a]]]
  BY DEF Without
<1>. HIDE DEF c, f, t
<1>5. \A a \in 1..c : f[a] \in 1..Len(s) /\ s[f[a]] \in S /\ s[f[a]] \notin X
  BY <1>1, <1>2 DEF KeptIndices
<1>6. t \in Seq(S) /\ Len(t) = c /\ DOMAIN t = 1..c
  BY <1>3, <1>4, <1>5
<1>7. Members(t) = Members(s) \ X
  <2>1. ASSUME NEW x \in Members(t) PROVE x \in Members(s) \ X
    BY <1>4, <1>5, <1>6, <1>1 DEF Members
  <2>2. ASSUME NEW x \in Members(s) \ X PROVE x \in Members(t)
    <3>1. PICK i \in DOMAIN s : s[i] = x  BY DEF Members
    <3>2. PICK a \in 1..c : f[a] = i
      BY <3>1, <1>2 DEF IsEnumeration, KeptIndices
    <3>. QED  BY <3>1, <3>2, <1>4, <1>6 DEF Members
  <2>. QED  BY <2>1, <2>2
<1>8. ASSUME NoRepeats(s) PROVE NoRepeats(t)
  <2>. SUFFICES ASSUME NEW a \in 1..c, NEW b \in 1..c, t[a] = t[b] PROVE a = b
    BY <1>6 DEF NoRepeats
  <2>1. f[a] = f[b]
    BY <1>8, <1>4, <1>5, <1>1 DEF NoRepeats
  <2>. QED  BY <2>1, <1>2, <1>3, <1>5 DEF IsEnumeration
<1>. QED  BY <1>3, <1>6, <1>7, <1>8 DEF t

-----------------------------------------------------------------------------
(* Joining sequences. *)

(* The members of joined sequences. *)
LEMMA JoinProperties ==
  ASSUME NEW S, NEW s \in Seq(S), NEW t \in Seq(S)
  PROVE  /\ Members(s \o t) = Members(s) \cup Members(t)
         /\ NoRepeats(s) /\ NoRepeats(t) /\ Members(s) \cap Members(t) = {} =>
              NoRepeats(s \o t)
<1>. DEFINE u == s \o t
<1>1. /\ DOMAIN u = 1..(Len(s) + Len(t)) /\ Len(s) \in Nat /\ Len(t) \in Nat
      /\ DOMAIN s = 1..Len(s) /\ DOMAIN t = 1..Len(t)
      /\ \A i \in 1..Len(s) : u[i] = s[i]
      /\ \A i \in 1..Len(t) : u[Len(s) + i] = t[i]
      /\ \A i \in DOMAIN u : i \in 1..Len(s) \/ (i - Len(s) \in 1..Len(t) /\ u[i] = t[i - Len(s)])
  OBVIOUS
<1>. HIDE DEF u
<1>2. Members(u) \subseteq Members(s) \cup Members(t)
  BY <1>1 DEF Members
<1>3. Members(s) \subseteq Members(u) /\ Members(t) \subseteq Members(u)
  <2>1. Members(s) \subseteq Members(u)
    BY <1>1 DEF Members
  <2>2. \A i \in 1..Len(t) : Len(s) + i \in DOMAIN u
    BY <1>1
  <2>3. Members(t) \subseteq Members(u)
    BY <1>1, <2>2 DEF Members
  <2>. QED  BY <2>1, <2>3
<1>4. ASSUME NoRepeats(s), NoRepeats(t), Members(s) \cap Members(t) = {}
      PROVE  NoRepeats(u)
  <2>. SUFFICES ASSUME NEW i \in DOMAIN u, NEW j \in DOMAIN u, u[i] = u[j] PROVE i = j
    BY DEF NoRepeats
  <2>1. \A a \in 1..Len(s), b \in 1..Len(t) : s[a] # t[b]
    BY <1>4, <1>1 DEF Members
  <2>2. CASE i \in 1..Len(s) /\ j \in 1..Len(s)
    BY <2>2, <1>1, <1>4 DEF NoRepeats
  <2>3. CASE i \notin 1..Len(s) /\ j \notin 1..Len(s)
    <3>1. i - Len(s) = j - Len(s)
      BY <2>3, <1>1, <1>4 DEF NoRepeats
    <3>. QED  BY <3>1, <1>1
  <2>4. CASE (i \in 1..Len(s)) # (j \in 1..Len(s))
    BY <2>4, <2>1, <1>1
  <2>. QED  BY <2>2, <2>3, <2>4
<1>. QED  BY <1>2, <1>3, <1>4 DEF u

(* The empty sequence and one-element sequences have no repeats. *)
LEMMA SmallSequences ==
  ASSUME NEW x
  PROVE  /\ Members(<<>>) = {} /\ NoRepeats(<<>>)
         /\ Members(<<x>>) = {x} /\ NoRepeats(<<x>>)
BY DEF Members, NoRepeats

(* Adding an absent member at the end of a list without repeats gives such a list. *)
LEMMA AddedLast ==
  ASSUME NEW S, NEW s \in Seq(S), NEW x \in S, NoRepeats(s), x \notin Members(s)
  PROVE  /\ Append(s, x) = s \o <<x>>
         /\ Members(s \o <<x>>) = Members(s) \cup {x}
         /\ NoRepeats(s \o <<x>>)
<1>1. <<x>> \in Seq(S) /\ Append(s, x) = s \o <<x>>
  OBVIOUS
<1>2. Members(<<x>>) = {x} /\ NoRepeats(<<x>>)
  BY SmallSequences
<1>3. \A t \in Seq(S) : /\ Members(s \o t) = Members(s) \cup Members(t)
                        /\ NoRepeats(t) /\ Members(s) \cap Members(t) = {} => NoRepeats(s \o t)
  BY JoinProperties
<1>. QED  BY <1>1, <1>2, <1>3
-----------------------------------------------------------------------------
(* Sums over finite sets.                                                    *)

(* A list without repeats has as many members as places. *)
LEMMA LengthIsCardinality ==
  ASSUME NEW S, NEW s \in Seq(S), NoRepeats(s)
  PROVE  IsFiniteSet(Members(s)) /\ Cardinality(Members(s)) = Len(s)
<1>. DEFINE f == [i \in 1..Len(s) |-> s[i]]
<1>1. Len(s) \in Nat /\ DOMAIN s = 1..Len(s)
  OBVIOUS
<1>2. IsFiniteSet(1..Len(s)) /\ Cardinality(1..Len(s)) = Len(s)
  <2>1. /\ IsFiniteSet(1..Len(s))
        /\ Cardinality(1..Len(s)) = IF 1 > Len(s) THEN 0 ELSE Len(s) - 1 + 1
    BY <1>1, FS_Interval
  <2>. QED  BY <2>1, <1>1
<1>3. f \in Bijection(1..Len(s), Members(s))
  <2>1. f \in [1..Len(s) -> Members(s)] /\ \A m \in Members(s) : \E i \in 1..Len(s) : f[i] = m
    BY <1>1 DEF Members
  <2>2. \A i, j \in 1..Len(s) : f[i] = f[j] => i = j
    BY <1>1 DEF NoRepeats
  <2>. HIDE DEF f
  <2>3. f \in Injection(1..Len(s), Members(s)) /\ f \in Surjection(1..Len(s), Members(s))
    BY <2>1, <2>2 DEF Injection, Surjection, IsInjective
  <2>. QED  BY <2>3 DEF Bijection
<1>4. ExistsBijection(1..Len(s), Members(s))
  BY <1>3, Zenon DEF ExistsBijection
<1>. QED  BY <1>2, <1>4, FS_Bijection

(* A finite family of disjoint finite sets, and their sizes. *)
Disjoint(A, S, X) ==
  /\ IsFiniteSet(S) /\ IsFiniteSet(X) /\ A \in [S -> SUBSET X]
  /\ \A x, y \in S : x # y => A[x] \cap A[y] = {}
SizesOf(size, A, S) == \A x \in S : size[x] = Cardinality(A[x])

(* Taking one set out of a family of disjoint sets takes its members out of   *)
(* the union.                                                                *)
LEMMA TakenOut ==
  ASSUME NEW S, NEW X, NEW A, Disjoint(A, S, X)
  PROVE  \A s \in SUBSET S : \A x \in s :
           Cardinality(UNION {A[y] : y \in s}) =
             Cardinality(A[x]) + Cardinality(UNION {A[y] : y \in s \ {x}})
<1>. USE DEF Disjoint
<1>. TAKE s \in SUBSET S
<1>. TAKE x \in s
<1>. DEFINE rest == UNION {A[y] : y \in s \ {x}}
            all == UNION {A[y] : y \in s}
<1>1. A[x] \in SUBSET X /\ rest \in SUBSET X
  OBVIOUS
<1>2. all = A[x] \cup rest
  OBVIOUS
<1>3. A[x] \cap rest = {}
  OBVIOUS
<1>. HIDE DEF rest, all
<1>4. IsFiniteSet(A[x]) /\ IsFiniteSet(rest)
  BY <1>1, FS_Subset
<1>5. Cardinality(all) = Cardinality(A[x]) + Cardinality(rest) - Cardinality({})
  BY <1>2, <1>3, <1>4, FS_Union
<1>6. Cardinality(A[x]) \in Nat /\ Cardinality(rest) \in Nat
  BY <1>4, FS_CardinalityType
<1>. QED  BY <1>5, <1>6, FS_EmptySet DEF rest, all

(* The equation of a sum over the subsets of S, in the order CHOOSE gives.    *)
SumsUp(g, size, S) ==
  g = [s \in SUBSET S |-> IF s = {} THEN 0
                          ELSE LET x == CHOOSE x \in s : TRUE IN size[x] + g[s \ {x}]]

(* A sum of the sizes of disjoint sets exists, and it is the size of their    *)
(* union.                                                                    *)
LEMMA SumOfDisjoint ==
  ASSUME NEW S, NEW X, NEW A, Disjoint(A, S, X), NEW size, SizesOf(size, A, S)
  PROVE  /\ \E g : SumsUp(g, size, S)
         /\ \A g : SumsUp(g, size, S) => g[S] = Cardinality(UNION {A[x] : x \in S})
<1>. USE DEF Disjoint, SizesOf
<1>. DEFINE whole(s) == Cardinality(UNION {A[x] : x \in s})
            G == [s \in SUBSET S |-> whole(s)]
<1>0. \A s \in SUBSET S : \A x \in s : whole(s) = Cardinality(A[x]) + whole(s \ {x})
  BY TakenOut
<1>1. ASSUME NEW s \in SUBSET S, NEW x, x = CHOOSE y \in s : TRUE, s # {}
      PROVE  x \in s /\ whole(s) = size[x] + whole(s \ {x})
  <2>1. x \in s
    BY <1>1
  <2>2. whole(s) = Cardinality(A[x]) + whole(s \ {x})
    BY <1>0, <2>1
  <2>3. size[x] = Cardinality(A[x])
    BY <2>1
  <2>. QED  BY <2>1, <2>2, <2>3
<1>2. whole({}) = 0
  <2>1. UNION {A[x] : x \in {}} = {}
    OBVIOUS
  <2>. QED  BY <2>1, FS_EmptySet
<1>. HIDE DEF whole
<1>3. SumsUp(G, size, S)
  <2>. DEFINE x(s) == CHOOSE y \in s : TRUE
              sum(s) == IF s = {} THEN 0 ELSE size[x(s)] + G[s \ {x(s)}]
  <2>1. ASSUME NEW s \in SUBSET S PROVE whole(s) = sum(s)
    <3>1. CASE s = {}
      BY <3>1, <1>2
    <3>2. CASE s # {}
      <4>1. x(s) \in s /\ whole(s) = size[x(s)] + whole(s \ {x(s)})
        BY <3>2, <1>1
      <4>2. s \ {x(s)} \in SUBSET S
        OBVIOUS
      <4>. HIDE DEF x
      <4>. QED  BY <3>2, <4>1, <4>2
    <3>. QED  BY <3>1, <3>2
  <2>2. G = [s \in SUBSET S |-> sum(s)]
    <3>. HIDE DEF sum
    <3>. QED  BY <2>1
  <2>. QED  BY <2>2 DEF SumsUp
<1>4. ASSUME NEW g, SumsUp(g, size, S) PROVE \A s \in SUBSET S : g[s] = whole(s)
  <2>. DEFINE T == {n \in Nat : \E s \in SUBSET S : Cardinality(s) = n /\ g[s] # whole(s)}
  <2>0. \A s \in SUBSET S : IsFiniteSet(s) /\ Cardinality(s) \in Nat
    BY FS_Subset, FS_CardinalityType
  <2>1. SUFFICES ASSUME T # {} PROVE FALSE
    BY <2>0
  <2>2. PICK n \in T : \A k \in T : n <= k
    <3>1. T \in SUBSET Nat
      OBVIOUS
    <3>. HIDE DEF T
    <3>. QED  BY <3>1, <2>1, LeastNatural
  <2>3. PICK s \in SUBSET S : Cardinality(s) = n /\ g[s] # whole(s)
    OBVIOUS
  <2>4. s # {}
    BY <2>3, <1>2, <1>4 DEF SumsUp
  <2>5. PICK x : x = CHOOSE y \in s : TRUE
    OBVIOUS
  <2>6. x \in s /\ whole(s) = size[x] + whole(s \ {x})
    BY <1>1, <2>4, <2>5
  <2>7. g[s] = size[x] + g[s \ {x}]
    BY <2>4, <2>5, <1>4 DEF SumsUp
  <2>8. Cardinality(s \ {x}) = n - 1 /\ n - 1 \in Nat /\ n \in Nat
    <3>1. Cardinality(s \ {x}) = Cardinality(s) - 1
      BY <2>0, <2>6, FS_RemoveElement
    <3>2. Cardinality(s \ {x}) \in Nat /\ Cardinality(s) \in Nat
      BY <2>0
    <3>. QED  BY <3>1, <3>2, <2>3
  <2>9. n - 1 \notin T
    <3>. HIDE DEF T
    <3>. QED  BY <2>2, <2>8
  <2>10. g[s \ {x}] = whole(s \ {x})
    BY <2>8, <2>9
  <2>. QED  BY <2>3, <2>6, <2>7, <2>10
<1>. QED  BY <1>3, <1>4 DEF whole

-----------------------------------------------------------------------------
(* Folds over sequences.                                                     *)

(* The equation of a fold over the positions 1..n, last position outermost:   *)
(* G[i] is what the fold does at position i.                                 *)
EndOf(s) == CHOOSE i \in s : \A j \in s : i >= j
FoldsUp(g, base, G, n) ==
  g = [s \in SUBSET (1..n) |-> IF s = {} THEN base ELSE G[EndOf(s)][g[s \ {EndOf(s)}]]]

(* The last of the first k positions is k. *)
LEMMA EndOfPrefix ==
  ASSUME NEW k \in Nat, NEW s \in SUBSET (1..k), k \in s
  PROVE  EndOf(s) = k
<1>1. k \in s /\ \A j \in s : k >= j
  OBVIOUS
<1>2. \A i \in s : (\A j \in s : i >= j) => i = k
  OBVIOUS
<1>. QED  BY <1>1, <1>2 DEF EndOf

(* A non-empty set of positions has a last one. *)
LEMMA EndIsThere ==
  ASSUME NEW n \in Nat, NEW s \in SUBSET (1..n), s # {}
  PROVE  EndOf(s) \in s /\ \A j \in s : j <= EndOf(s)
<1>. DEFINE T == {n - i : i \in s}
<1>1. T \in SUBSET Nat /\ T # {}
  <2>1. \A i \in s : n - i \in Nat
    OBVIOUS
  <2>. QED  BY <2>1
<1>2. PICK m \in T : \A k \in T : m <= k
  <2>. HIDE DEF T
  <2>. QED  BY <1>1, LeastNatural
<1>3. PICK i \in s : m = n - i
  OBVIOUS
<1>4. \A j \in s : i >= j
  <2>. SUFFICES ASSUME NEW j \in s PROVE i >= j
    OBVIOUS
  <2>1. n - j \in T
    OBVIOUS
  <2>2. m <= n - j
    BY <1>2, <2>1
  <2>. QED  BY <2>2, <1>3
<1>. QED  BY <1>4 DEF EndOf

(* Every fold over a sequence exists. *)
LEMMA FoldExists ==
  ASSUME NEW n \in Nat, NEW V, NEW base \in V, NEW G \in [1..n -> [V -> V]]
  PROVE  \E g \in [SUBSET (1..n) -> V] : FoldsUp(g, base, G, n)
<1>. DEFINE has(k) == \E g \in [SUBSET (1..k) -> V] : FoldsUp(g, base, G, k)
            T == {k \in 0..n : ~has(k)}
<1>0. T = {} => has(n)
  <2>. HIDE DEF has
  <2>. QED  OBVIOUS
<1>1. SUFFICES ASSUME T # {} PROVE FALSE
  BY <1>0, Zenon
<1>2. PICK k \in T : \A i \in T : k <= i
  <2>1. T \in SUBSET Nat
    OBVIOUS
  <2>. HIDE DEF T
  <2>. QED  BY <1>1, <2>1, LeastNatural
<1>3. k \in 0..n /\ ~has(k)
  <2>. HIDE DEF has
  <2>. QED  OBVIOUS
<1>4. k # 0
  <2>. SUFFICES ASSUME k = 0 PROVE has(0)
    BY <1>3
  <2>. DEFINE g == [s \in SUBSET (1..0) |-> base]
  <2>1. SUBSET (1..0) = {{}}
    OBVIOUS
  <2>2. g \in [SUBSET (1..0) -> V] /\ FoldsUp(g, base, G, 0)
    BY <2>1 DEF FoldsUp
  <2>. QED  BY <2>2
<1>5. k - 1 \in 0..n /\ k \in 1..n /\ ~(k <= k - 1)
  BY <1>3, <1>4
<1>6. has(k - 1)
  <2>1. k - 1 \notin T
    <3>. HIDE DEF T
    <3>. QED  BY <1>2, <1>5
  <2>. QED  BY <2>1, <1>5
<1>7. PICK g \in [SUBSET (1..(k - 1)) -> V] : FoldsUp(g, base, G, k - 1)
  BY <1>6
<1>. DEFINE f == [s \in SUBSET (1..k) |-> IF k \in s THEN G[k][g[s \ {k}]] ELSE g[s]]
<1>8. \A s \in SUBSET (1..k) : k \notin s => s \in SUBSET (1..(k - 1))
  BY <1>5
<1>9. f \in [SUBSET (1..k) -> V]
  <2>. SUFFICES ASSUME NEW s \in SUBSET (1..k) PROVE f[s] \in V
    OBVIOUS
  <2>1. s \ {k} \in SUBSET (1..(k - 1))
    BY <1>5
  <2>. QED  BY <2>1, <1>5, <1>7, <1>8
<1>10. ASSUME NEW s \in SUBSET (1..k)
       PROVE  f[s] = IF s = {} THEN base ELSE G[EndOf(s)][f[s \ {EndOf(s)}]]
  <2>1. CASE k \in s
    <3>1. EndOf(s) = k
      BY <2>1, <1>5, EndOfPrefix
    <3>2. f[s \ {k}] = g[s \ {k}]
      OBVIOUS
    <3>. QED  BY <2>1, <3>1, <3>2
  <2>2. CASE k \notin s /\ s = {}
    BY <2>2, <1>7 DEF FoldsUp
  <2>3. CASE k \notin s /\ s # {}
    <3>1. s \in SUBSET (1..(k - 1)) /\ f[s] = g[s]
      BY <2>3, <1>8
    <3>2. f[s \ {EndOf(s)}] = g[s \ {EndOf(s)}]
      BY <2>3
    <3>3. g[s] = G[EndOf(s)][g[s \ {EndOf(s)}]]
      BY <3>1, <2>3, <1>7 DEF FoldsUp
    <3>. QED  BY <3>1, <3>2, <3>3, <2>3
  <2>. QED  BY <2>1, <2>2, <2>3
<1>11. FoldsUp(f, base, G, k)
  <2>1. f \in [SUBSET (1..k) -> V]
    BY <1>9
  <2>. HIDE DEF f
  <2>. QED  BY <2>1, <1>10 DEF FoldsUp
<1>. QED  BY <1>3, <1>9, <1>11

(* Its steps on values of V are those of G. *)
FoldsOver(g, base, G, n, V) ==
  /\ g[{}] = base
  /\ \A s \in SUBSET (1..n) : s # {} /\ g[s \ {EndOf(s)}] \in V =>
       g[s] = G[EndOf(s)][g[s \ {EndOf(s)}]]

(* Its values on the prefixes. *)
RunsThrough(h, g, base, G, n) ==
  /\ h[0] = base /\ \A k \in 1..n : h[k] = G[k][h[k - 1]]
  /\ g[1..n] = h[n]

(* Such a fold goes through the prefixes one position at a time. *)
LEMMA FoldOfPrefixes ==
  ASSUME NEW n \in Nat, NEW V, NEW base \in V, NEW G \in [1..n -> [V -> V]],
         NEW g, FoldsOver(g, base, G, n, V)
  PROVE  \E h \in [0..n -> V] : RunsThrough(h, g, base, G, n)
<1>. USE DEF FoldsOver
<1>. DEFINE h == [k \in 0..n |-> g[1..k]]
<1>1. h[0] = base
  <2>1. 1..0 = {}
    OBVIOUS
  <2>. QED  BY <2>1
<1>2. ASSUME NEW k \in 1..n, h[k - 1] \in V PROVE h[k] \in V /\ h[k] = G[k][h[k - 1]]
  <2>1. k \in Nat /\ k >= 1 /\ k <= n /\ k - 1 \in 0..n /\ k \in 0..n /\ k \in 1..k
    OBVIOUS
  <2>2. 1..k \in SUBSET (1..n) /\ 1..k # {} /\ (1..k) \ {k} = 1..(k - 1)
    BY <2>1
  <2>3. EndOf(1..k) = k
    BY <2>1, EndOfPrefix
  <2>4. g[1..k] = G[k][g[1..(k - 1)]]
    BY <1>2, <2>1, <2>2, <2>3
  <2>. QED  BY <1>2, <2>1, <2>4
<1>. HIDE DEF h
<1>3. ASSUME NEW k \in 0..n PROVE h[k] \in V
  <2>. DEFINE T == {i \in 0..n : h[i] \notin V}
  <2>1. SUFFICES ASSUME T # {} PROVE FALSE
    OBVIOUS
  <2>2. PICK i \in T : \A j \in T : i <= j
    <3>1. T \in SUBSET Nat
      OBVIOUS
    <3>. HIDE DEF T
    <3>. QED  BY <2>1, <3>1, LeastNatural
  <2>3. CASE i = 0
    BY <2>3, <1>1
  <2>4. CASE i # 0
    <3>1. i \in 1..n /\ i - 1 \in 0..n /\ ~(i <= i - 1)
      BY <2>4
    <3>2. i - 1 \notin T
      <4>. HIDE DEF T
      <4>. QED  BY <2>2, <3>1
    <3>. QED  BY <3>1, <3>2, <1>2
  <2>. QED  BY <2>3, <2>4
<1>4. h \in [0..n -> V] /\ g[1..n] = h[n]
  BY <1>3 DEF h
<1>5. \A k \in 1..n : k - 1 \in 0..n
  OBVIOUS
<1>6. RunsThrough(h, g, base, G, n)
  BY <1>1, <1>2, <1>3, <1>4, <1>5 DEF RunsThrough
<1>. QED  BY <1>4, <1>6
=============================================================================
