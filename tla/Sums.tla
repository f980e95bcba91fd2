-------------------------------- MODULE Sums --------------------------------
(***************************************************************************)
(* Facts about SumFunctionOnSet, the sum of f[x] over the elements x of a  *)
(* finite set.  It is defined by a recursive function on the subsets of    *)
(* the set that takes away one chosen element at a time; here it is shown  *)
(* that this function exists and that the choice does not matter.          *)
(***************************************************************************)
EXTENDS Functions, FiniteSetTheorems, WellFoundedInduction, TLAPS

(* Induction over the subsets of a finite set: a set G that has every      *)
(* subset of which it has all smaller ones has them all.                   *)
LEMMA SubsetInduction ==
    ASSUME NEW S, IsFiniteSet(S), NEW G,
           \A T \in SUBSET S : (\A U \in SUBSET T : U # T => U \in G) => T \in G
    PROVE  SUBSET S \subseteq G
<1> DEFINE Bad == {T \in SUBSET S : T \notin G}
<1> SUFFICES ASSUME Bad # {} PROVE FALSE
    OBVIOUS
<1>1. IsWellFoundedOn(StrictSubsetOrdering(S), SUBSET S)
    <2>1. IsWellFoundedOn(StrictSubsetOrdering(S), FiniteSubsetsOf(S))
        BY FS_StrictSubsetOrderingWellFounded
    <2>2. FiniteSubsetsOf(S) = SUBSET S
        BY FS_FiniteSubsetsOfFinite
    <2> QED BY <2>1, <2>2
<1>2. PICK T \in Bad : \A U \in Bad : <<U, T>> \notin StrictSubsetOrdering(S)
    <2>1. Bad \subseteq SUBSET S
        OBVIOUS
    <2> HIDE DEF Bad
    <2> QED BY <1>1, <2>1, WFMin
<1>3. \A U \in Bad : ~(U \subseteq T /\ U # T)
    BY <1>2 DEF StrictSubsetOrdering
<1> QED BY <1>3

-----------------------------------------------------------------------------
(* The recursion by which the sum is defined.                              *)
Chosen(s) == CHOOSE x \in s : TRUE
SumsUp(f, S, g) ==
    g = [s \in SUBSET S |-> IF s = {} THEN 0 ELSE f[Chosen(s)] + g[s \ {Chosen(s)}]]
Table(f, S) == CHOOSE g : SumsUp(f, S, g)

LEMMA SumIsTabled ==
    ASSUME NEW f, NEW S
    PROVE  SumFunctionOnSet(f, S) = Table(f, S)[S]
BY DEF SumFunctionOnSet, FoldFunctionOnSet, MapThenFoldSet, SumsUp, Table, Chosen

LEMMA ChosenIn ==
    ASSUME NEW S, S # {}
    PROVE  Chosen(S) \in S
BY DEF Chosen

LEMMA SumsUpAt ==
    ASSUME NEW f, NEW S, NEW g, SumsUp(f, S, g)
    PROVE  /\ g[{}] = 0
           /\ \A s \in SUBSET S : s # {} => g[s] = f[Chosen(s)] + g[s \ {Chosen(s)}]
BY DEF SumsUp

(* Two tables agree on the sets both have.                                 *)
LEMMA TablesAgree ==
    ASSUME NEW f, NEW S, NEW T, IsFiniteSet(T), T \subseteq S, NEW g, NEW h,
           SumsUp(f, S, g), SumsUp(f, T, h)
    PROVE  \A s \in SUBSET T : g[s] = h[s]
<1> DEFINE G == {s \in SUBSET T : g[s] = h[s]}
<1>1. ASSUME NEW s \in SUBSET T, \A u \in SUBSET s : u # s => u \in G
      PROVE  s \in G
    <2>1. CASE s = {}
        BY <2>1, SumsUpAt
    <2>2. CASE s # {}
        <3>1. Chosen(s) \in s
            BY <2>2, ChosenIn
        <3>2. s \ {Chosen(s)} \in G
            BY <1>1, <3>1
        <3>3. g[s] = f[Chosen(s)] + g[s \ {Chosen(s)}]
            BY <2>2, SumsUpAt
        <3>4. h[s] = f[Chosen(s)] + h[s \ {Chosen(s)}]
            BY <2>2, SumsUpAt
        <3> QED BY <3>2, <3>3, <3>4
    <2> QED BY <2>1, <2>2
<1> HIDE DEF G
<1>2. SUBSET T \subseteq G
    BY <1>1, SubsetInduction
<1> QED BY <1>2 DEF G

(* Every finite set has a table.                                           *)
LEMMA TableExists ==
    ASSUME NEW f, NEW S, IsFiniteSet(S)
    PROVE  SumsUp(f, S, Table(f, S))
<1> DEFINE G == {T \in SUBSET S : SumsUp(f, T, Table(f, T))}
<1>1. ASSUME NEW T \in SUBSET S, \A U \in SUBSET T : U # T => U \in G
      PROVE  T \in G
    <2> DEFINE below(s) == IF s = {} THEN 0
                           ELSE f[Chosen(s)] + Table(f, s \ {Chosen(s)})[s \ {Chosen(s)}]
    <2> DEFINE g == [s \in SUBSET T |-> below(s)]
    <2>1. ASSUME NEW s \in SUBSET T, s # {}
          PROVE  g[s \ {Chosen(s)}] = Table(f, s \ {Chosen(s)})[s \ {Chosen(s)}]
        <3> DEFINE u == s \ {Chosen(s)}
        <3>1. u \in SUBSET T /\ u # T
            BY <2>1, ChosenIn
        <3>2. SumsUp(f, u, Table(f, u))
            BY <1>1, <3>1
        <3>3. g[u] = below(u)
            BY <3>1
        <3>4. CASE u = {}
            <4>1. Table(f, u)[u] = 0
                BY <3>2, <3>4, SumsUpAt
            <4> QED BY <3>3, <3>4, <4>1
        <3>5. CASE u # {}
            <4> DEFINE v == u \ {Chosen(u)}
            <4> HIDE DEF u
            <4>1. Table(f, u)[u] = f[Chosen(u)] + Table(f, u)[v]
                <5>1. \A t \in SUBSET u : t # {} =>
                          Table(f, u)[t] = f[Chosen(t)] + Table(f, u)[t \ {Chosen(t)}]
                    BY <3>2, SumsUpAt
                <5> QED BY <3>5, <5>1
            <4>2. v \in SUBSET u /\ v \in SUBSET T /\ v # T
                BY <3>1, <3>5, ChosenIn
            <4>3. SumsUp(f, v, Table(f, v))
                BY <1>1, <4>2
            <4>4. IsFiniteSet(v)
                BY <4>2, FS_Subset
            <4>5. Table(f, u)[v] = Table(f, v)[v]
                <5> HIDE DEF v
                <5> QED BY <3>2, <4>2, <4>3, <4>4, TablesAgree
            <4>6. below(u) = f[Chosen(u)] + Table(f, v)[v]
                BY <3>5
            <4>7. g[u] = Table(f, u)[u]
                <5> HIDE DEF g, v, below
                <5> QED BY <3>3, <4>1, <4>5, <4>6
            <4> QED BY <4>7 DEF u
        <3> QED BY <3>4, <3>5
    <2>2. SumsUp(f, T, g)
        BY <2>1 DEF SumsUp
    <2> HIDE DEF g
    <2>3. SumsUp(f, T, Table(f, T))
        BY <2>2 DEF Table
    <2> QED BY <2>3
<1> HIDE DEF G
<1>2. SUBSET S \subseteq G
    BY <1>1, SubsetInduction
<1> QED BY <1>2 DEF G

-----------------------------------------------------------------------------
LEMMA SumEmpty ==
    ASSUME NEW f
    PROVE  SumFunctionOnSet(f, {}) = 0
<1>1. IsFiniteSet({})
    BY FS_EmptySet
<1>2. SumsUp(f, {}, Table(f, {}))
    BY <1>1, TableExists
<1> QED BY <1>2, SumIsTabled, SumsUpAt

LEMMA SumChosen ==
    ASSUME NEW f, NEW S, IsFiniteSet(S), S # {}
    PROVE  SumFunctionOnSet(f, S) =
               f[Chosen(S)] + SumFunctionOnSet(f, S \ {Chosen(S)})
<1> DEFINE T == S \ {Chosen(S)}
<1>1. IsFiniteSet(T) /\ T \in SUBSET S
    BY FS_Subset
<1>2. SumsUp(f, S, Table(f, S))
    BY TableExists
<1>3. Table(f, S)[S] = f[Chosen(S)] + Table(f, S)[T]
    <2>1. \A t \in SUBSET S : t # {} =>
              Table(f, S)[t] = f[Chosen(t)] + Table(f, S)[t \ {Chosen(t)}]
        BY <1>2, SumsUpAt
    <2> QED BY <2>1
<1> HIDE DEF T
<1>4. SumsUp(f, T, Table(f, T))
    BY <1>1, TableExists
<1>5. Table(f, S)[T] = Table(f, T)[T]
    BY <1>1, <1>2, <1>4, TablesAgree
<1>6. SumFunctionOnSet(f, S) = f[Chosen(S)] + SumFunctionOnSet(f, T)
    BY <1>3, <1>5, SumIsTabled
<1> QED BY <1>6 DEF T

(* A sum of integers is one.                                               *)
LEMMA SumInt ==
    ASSUME NEW f, NEW S, IsFiniteSet(S), \A x \in S : f[x] \in Int
    PROVE  SumFunctionOnSet(f, S) \in Int
<1> DEFINE G == {T \in SUBSET S : SumFunctionOnSet(f, T) \in Int}
<1>1. ASSUME NEW T \in SUBSET S, \A U \in SUBSET T : U # T => U \in G
      PROVE  T \in G
    <2>1. CASE T = {}
        BY <2>1, SumEmpty
    <2>2. CASE T # {}
        <3>1. IsFiniteSet(T)
            BY FS_Subset
        <3>2. Chosen(T) \in T
            BY <2>2, ChosenIn
        <3>3. SumFunctionOnSet(f, T) = f[Chosen(T)] + SumFunctionOnSet(f, T \ {Chosen(T)})
            BY <2>2, <3>1, SumChosen
        <3>4. T \ {Chosen(T)} \in G
            BY <1>1, <3>2
        <3> QED BY <3>2, <3>3, <3>4
    <2> QED BY <2>1, <2>2
<1> HIDE DEF G
<1>2. SUBSET S \subseteq G
    BY <1>1, SubsetInduction
<1> QED BY <1>2 DEF G

(* Any element may be taken out first.                                     *)
LEMMA SumRemove ==
    ASSUME NEW f, NEW S, IsFiniteSet(S), \A x \in S : f[x] \in Int, NEW y \in S
    PROVE  SumFunctionOnSet(f, S) = f[y] + SumFunctionOnSet(f, S \ {y})
<1> DEFINE G == {T \in SUBSET S : \A x \in T :
                    SumFunctionOnSet(f, T) = f[x] + SumFunctionOnSet(f, T \ {x})}
<1>1. ASSUME NEW T \in SUBSET S, \A U \in SUBSET T : U # T => U \in G
      PROVE  T \in G
    <2> SUFFICES ASSUME NEW x \in T
                 PROVE  SumFunctionOnSet(f, T) = f[x] + SumFunctionOnSet(f, T \ {x})
        OBVIOUS
    <2> DEFINE c == Chosen(T)
               rest == (T \ {c}) \ {x}
    <2>1. IsFiniteSet(T) /\ c \in T
        BY FS_Subset, ChosenIn
    <2>2. SumFunctionOnSet(f, T) = f[c] + SumFunctionOnSet(f, T \ {c})
        BY <2>1, SumChosen
    <2> HIDE DEF c
    <2>3. CASE x = c
        BY <2>2, <2>3
    <2>4. CASE x # c
        <3>1. T \ {c} \in G /\ T \ {x} \in G
            BY <1>1, <2>1
        <3>2. SumFunctionOnSet(f, T \ {c}) = f[x] + SumFunctionOnSet(f, rest)
            BY <2>4, <3>1
        <3>3. (T \ {x}) \ {c} = rest /\ c \in T \ {x}
            BY <2>1, <2>4
        <3>4. SumFunctionOnSet(f, T \ {x}) = f[c] + SumFunctionOnSet(f, rest)
            BY <3>1, <3>3
        <3>5. IsFiniteSet(rest) /\ rest \subseteq S
            BY FS_Subset
        <3>6. SumFunctionOnSet(f, rest) \in Int
            BY <3>5, SumInt
        <3>7. f[c] \in Int /\ f[x] \in Int
            BY <2>1
        <3> HIDE DEF rest
        <3> QED BY <2>2, <3>2, <3>4, <3>6, <3>7
    <2> QED BY <2>3, <2>4
<1> HIDE DEF G
<1>2. SUBSET S \subseteq G
    BY <1>1, SubsetInduction
<1> QED BY <1>2 DEF G

LEMMA SumAdd ==
    ASSUME NEW f, NEW S, IsFiniteSet(S), NEW y, y \notin S, f[y] \in Int,
           \A x \in S : f[x] \in Int
    PROVE  SumFunctionOnSet(f, S \cup {y}) = SumFunctionOnSet(f, S) + f[y]
<1> DEFINE T == S \cup {y}
<1>1. IsFiniteSet(T) /\ y \in T /\ T \ {y} = S /\ \A x \in T : f[x] \in Int
    BY FS_AddElement
<1> HIDE DEF T
<1>2. SumFunctionOnSet(f, T) = f[y] + SumFunctionOnSet(f, S)
    BY <1>1, SumRemove
<1>3. SumFunctionOnSet(f, S) \in Int
    BY SumInt
<1> QED BY <1>2, <1>3 DEF T

(* The sum depends on the values on the set only.                          *)
LEMMA SumSame ==
    ASSUME NEW f, NEW g, NEW S, IsFiniteSet(S), \A x \in S : f[x] = g[x]
    PROVE  SumFunctionOnSet(f, S) = SumFunctionOnSet(g, S)
<1> DEFINE G == {T \in SUBSET S : SumFunctionOnSet(f, T) = SumFunctionOnSet(g, T)}
<1>1. ASSUME NEW T \in SUBSET S, \A U \in SUBSET T : U # T => U \in G
      PROVE  T \in G
    <2>1. CASE T = {}
        BY <2>1, SumEmpty
    <2>2. CASE T # {}
        <3>1. IsFiniteSet(T) /\ Chosen(T) \in T
            BY <2>2, FS_Subset, ChosenIn
        <3>2. /\ SumFunctionOnSet(f, T) = f[Chosen(T)] + SumFunctionOnSet(f, T \ {Chosen(T)})
              /\ SumFunctionOnSet(g, T) = g[Chosen(T)] + SumFunctionOnSet(g, T \ {Chosen(T)})
            BY <2>2, <3>1, SumChosen
        <3>3. T \ {Chosen(T)} \in G
            BY <1>1, <3>1
        <3> QED BY <3>1, <3>2, <3>3
    <2> QED BY <2>1, <2>2
<1> HIDE DEF G
<1>2. SUBSET S \subseteq G
    BY <1>1, SubsetInduction
<1> QED BY <1>2 DEF G

(* One value changes.                                                      *)
LEMMA SumChange ==
    ASSUME NEW f, NEW g, NEW S, IsFiniteSet(S), NEW y \in S,
           \A x \in S : f[x] \in Int /\ g[x] \in Int,
           \A x \in S \ {y} : f[x] = g[x]
    PROVE  SumFunctionOnSet(g, S) = SumFunctionOnSet(f, S) - f[y] + g[y]
<1> DEFINE T == S \ {y}
<1>1. IsFiniteSet(T) /\ T \subseteq S
    BY FS_Subset
<1>2. /\ SumFunctionOnSet(f, S) = f[y] + SumFunctionOnSet(f, T)
      /\ SumFunctionOnSet(g, S) = g[y] + SumFunctionOnSet(g, T)
    BY SumRemove
<1> HIDE DEF T
<1>3. SumFunctionOnSet(f, T) = SumFunctionOnSet(g, T)
    <2>1. \A x \in T : f[x] = g[x]
        BY DEF T
    <2> QED BY <1>1, <2>1, SumSame
<1>4. SumFunctionOnSet(f, T) \in Int
    BY <1>1, SumInt
<1> QED BY <1>2, <1>3, <1>4

(* The sum of a sum.                                                       *)
LEMMA SumPlus ==
    ASSUME NEW f, NEW g, NEW h, NEW S, IsFiniteSet(S),
           \A x \in S : f[x] \in Int /\ g[x] \in Int /\ h[x] = f[x] + g[x]
    PROVE  SumFunctionOnSet(h, S) = SumFunctionOnSet(f, S) + SumFunctionOnSet(g, S)
<1> DEFINE G == {T \in SUBSET S : SumFunctionOnSet(h, T) =
                     SumFunctionOnSet(f, T) + SumFunctionOnSet(g, T)}
<1>1. ASSUME NEW T \in SUBSET S, \A U \in SUBSET T : U # T => U \in G
      PROVE  T \in G
    <2>1. CASE T = {}
        BY <2>1, SumEmpty
    <2>2. CASE T # {}
        <3> DEFINE c == Chosen(T)
                   rest == T \ {c}
        <3>1. IsFiniteSet(T) /\ IsFiniteSet(rest) /\ c \in T
            BY <2>2, FS_Subset, ChosenIn
        <3>2. /\ SumFunctionOnSet(f, T) = f[c] + SumFunctionOnSet(f, rest)
              /\ SumFunctionOnSet(g, T) = g[c] + SumFunctionOnSet(g, rest)
              /\ SumFunctionOnSet(h, T) = h[c] + SumFunctionOnSet(h, rest)
            BY <2>2, <3>1, SumChosen
        <3>3. rest \in G
            BY <1>1, <3>1
        <3>4. SumFunctionOnSet(f, rest) \in Int /\ SumFunctionOnSet(g, rest) \in Int
            BY <3>1, SumInt
        <3>5. f[c] \in Int /\ g[c] \in Int /\ h[c] = f[c] + g[c]
            BY <3>1
        <3> HIDE DEF c, rest
        <3> QED BY <3>2, <3>3, <3>4, <3>5
    <2> QED BY <2>1, <2>2
<1> HIDE DEF G
<1>2. SUBSET S \subseteq G
    BY <1>1, SubsetInduction
<1> QED BY <1>2 DEF G

LEMMA SumMonotone ==
    ASSUME NEW f, NEW g, NEW S, IsFiniteSet(S),
           \A x \in S : f[x] \in Int /\ g[x] \in Int /\ f[x] <= g[x]
    PROVE  SumFunctionOnSet(f, S) <= SumFunctionOnSet(g, S)
<1> DEFINE G == {T \in SUBSET S : SumFunctionOnSet(f, T) <= SumFunctionOnSet(g, T)}
<1>1. ASSUME NEW T \in SUBSET S, \A U \in SUBSET T : U # T => U \in G
      PROVE  T \in G
    <2>1. CASE T = {}
        BY <2>1, SumEmpty
    <2>2. CASE T # {}
        <3> DEFINE c == Chosen(T)
                   rest == T \ {c}
        <3>1. IsFiniteSet(T) /\ IsFiniteSet(rest) /\ c \in T
            BY <2>2, FS_Subset, ChosenIn
        <3>2. /\ SumFunctionOnSet(f, T) = f[c] + SumFunctionOnSet(f, rest)
              /\ SumFunctionOnSet(g, T) = g[c] + SumFunctionOnSet(g, rest)
            BY <2>2, <3>1, SumChosen
        <3>3. rest \in G
            BY <1>1, <3>1
        <3>4. SumFunctionOnSet(f, rest) \in Int /\ SumFunctionOnSet(g, rest) \in Int
            BY <3>1, SumInt
        <3>5. f[c] \in Int /\ g[c] \in Int /\ f[c] <= g[c]
            BY <3>1
        <3> HIDE DEF c, rest
        <3> QED BY <3>2, <3>3, <3>4, <3>5
    <2> QED BY <2>1, <2>2
<1> HIDE DEF G
<1>2. SUBSET S \subseteq G
    BY <1>1, SubsetInduction
<1> QED BY <1>2 DEF G

LEMMA SumOfZeros ==
    ASSUME NEW f, NEW S, IsFiniteSet(S), \A x \in S : f[x] = 0
    PROVE  SumFunctionOnSet(f, S) = 0
<1> DEFINE G == {T \in SUBSET S : SumFunctionOnSet(f, T) = 0}
<1>1. ASSUME NEW T \in SUBSET S, \A U \in SUBSET T : U # T => U \in G
      PROVE  T \in G
    <2>1. CASE T = {}
        BY <2>1, SumEmpty
    <2>2. CASE T # {}
        <3>1. IsFiniteSet(T) /\ Chosen(T) \in T
            BY <2>2, FS_Subset, ChosenIn
        <3>2. SumFunctionOnSet(f, T) = f[Chosen(T)] + SumFunctionOnSet(f, T \ {Chosen(T)})
            BY <2>2, <3>1, SumChosen
        <3>3. T \ {Chosen(T)} \in G
            BY <1>1, <3>1
        <3> QED BY <3>1, <3>2, <3>3
    <2> QED BY <2>1, <2>2
<1> HIDE DEF G
<1>2. SUBSET S \subseteq G
    BY <1>1, SubsetInduction
<1> QED BY <1>2 DEF G

(* A sum of naturals is one, and none of its terms exceeds it.             *)
LEMMA SumNat ==
    ASSUME NEW f, NEW S, IsFiniteSet(S), \A x \in S : f[x] \in Nat
    PROVE  /\ SumFunctionOnSet(f, S) \in Nat
           /\ \A x \in S : f[x] <= SumFunctionOnSet(f, S)
<1> DEFINE z == [x \in S |-> 0]
<1>1. ASSUME NEW T \in SUBSET S
      PROVE  SumFunctionOnSet(f, T) \in Nat
    <2>1. IsFiniteSet(T)
        BY FS_Subset
    <2>2. SumFunctionOnSet(z, T) = 0
        <3>1. \A x \in T : z[x] = 0
            OBVIOUS
        <3> HIDE DEF z
        <3> QED BY <2>1, <3>1, SumOfZeros
    <2>3. \A x \in T : z[x] \in Int /\ f[x] \in Int /\ z[x] <= f[x]
        OBVIOUS
    <2> HIDE DEF z
    <2>4. SumFunctionOnSet(z, T) <= SumFunctionOnSet(f, T)
        BY <2>1, <2>3, SumMonotone
    <2>5. SumFunctionOnSet(f, T) \in Int
        BY <2>1, <2>3, SumInt
    <2> QED BY <2>2, <2>4, <2>5
<1>2. ASSUME NEW x \in S
      PROVE  f[x] <= SumFunctionOnSet(f, S)
    <2>1. SumFunctionOnSet(f, S) = f[x] + SumFunctionOnSet(f, S \ {x})
        BY SumRemove
    <2>2. SumFunctionOnSet(f, S \ {x}) \in Nat
        BY <1>1
    <2> QED BY <2>1, <2>2
<1> QED BY <1>1, <1>2

(* A part of a set of naturals sums to no more than the whole.             *)
LEMMA SumSubset ==
    ASSUME NEW f, NEW S, IsFiniteSet(S), \A x \in S : f[x] \in Nat, NEW T \in SUBSET S
    PROVE  SumFunctionOnSet(f, T) <= SumFunctionOnSet(f, S)
<1> DEFINE G == {U \in SUBSET S : SumFunctionOnSet(f, S \ U) <= SumFunctionOnSet(f, S)}
<1>1. ASSUME NEW U \in SUBSET S, \A V \in SUBSET U : V # U => V \in G
      PROVE  U \in G
    <2>1. CASE U = {}
        <3>1. S \ U = S
            BY <2>1
        <3>2. SumFunctionOnSet(f, S) \in Int
            BY SumInt
        <3> QED BY <3>1, <3>2
    <2>2. CASE U # {}
        <3>1. PICK x \in U : TRUE
            BY <2>2
        <3> DEFINE V == U \ {x}
        <3>2. V \in SUBSET U /\ V # U
            BY <3>1
        <3>3. SumFunctionOnSet(f, S \ V) <= SumFunctionOnSet(f, S)
            BY <1>1, <3>2
        <3>4. x \in S \ V /\ (S \ V) \ {x} = S \ U /\ IsFiniteSet(S \ V) /\ IsFiniteSet(S \ U)
            BY <3>1, FS_Subset
        <3>5. SumFunctionOnSet(f, S \ V) = f[x] + SumFunctionOnSet(f, (S \ V) \ {x})
            BY <3>4, SumRemove
        <3>6. /\ f[x] \in Nat /\ SumFunctionOnSet(f, S \ U) \in Int
              /\ SumFunctionOnSet(f, S \ V) \in Int /\ SumFunctionOnSet(f, S) \in Int
            BY <3>4, SumInt
        <3> QED BY <3>3, <3>4, <3>5, <3>6
    <2> QED BY <2>1, <2>2
<1> HIDE DEF G
<1>2. SUBSET S \subseteq G
    BY <1>1, SubsetInduction
<1>3. S \ T \in G
    BY <1>2
<1>4. S \ (S \ T) = T
    OBVIOUS
<1> QED BY <1>3, <1>4 DEF G

(* Where f is zero nothing is added.                                       *)
LEMMA SumSupport ==
    ASSUME NEW f, NEW S, IsFiniteSet(S), \A x \in S : f[x] \in Int,
           NEW T \in SUBSET S, \A x \in S \ T : f[x] = 0
    PROVE  SumFunctionOnSet(f, S) = SumFunctionOnSet(f, T)
<1> DEFINE G == {U \in SUBSET S : SumFunctionOnSet(f, U) = SumFunctionOnSet(f, U \cap T)}
<1>1. ASSUME NEW U \in SUBSET S, \A V \in SUBSET U : V # U => V \in G
      PROVE  U \in G
    <2>1. CASE U = {}
        <3>1. U \cap T = U
            BY <2>1
        <3> QED BY <3>1
    <2>2. CASE U # {}
        <3> DEFINE c == Chosen(U)
        <3>1. c \in U /\ IsFiniteSet(U) /\ IsFiniteSet(U \cap T)
            BY <2>2, ChosenIn, FS_Subset
        <3>2. SumFunctionOnSet(f, U) = f[c] + SumFunctionOnSet(f, U \ {c})
            BY <2>2, <3>1, SumChosen
        <3>3. SumFunctionOnSet(f, U \ {c}) = SumFunctionOnSet(f, (U \ {c}) \cap T)
            BY <1>1, <3>1
        <3> HIDE DEF c
        <3>4. CASE c \in T
            <4>1. SumFunctionOnSet(f, U \cap T) = f[c] + SumFunctionOnSet(f, (U \cap T) \ {c})
                BY <3>1, <3>4, SumRemove
            <4>2. (U \ {c}) \cap T = (U \cap T) \ {c}
                OBVIOUS
            <4>3. SumFunctionOnSet(f, U) = SumFunctionOnSet(f, U \cap T)
                BY Zenon, <3>2, <3>3, <4>1, <4>2
            <4> QED BY <4>3
        <3>5. CASE c \notin T
            <4>1. (U \ {c}) \cap T = U \cap T /\ f[c] = 0
                BY <3>1, <3>5
            <4>2. SumFunctionOnSet(f, U \cap T) \in Int
                BY <3>1, SumInt
            <4>3. SumFunctionOnSet(f, (U \ {c}) \cap T) = SumFunctionOnSet(f, U \cap T)
                BY Zenon, <4>1
            <4> QED BY <3>2, <3>3, <4>1, <4>2, <4>3
        <3> QED BY <3>4, <3>5
    <2> QED BY <2>1, <2>2
<1> HIDE DEF G
<1>2. S \in G
    BY <1>1, SubsetInduction
<1>3. S \cap T = T
    OBVIOUS
<1> QED BY <1>2, <1>3 DEF G
=============================================================================
