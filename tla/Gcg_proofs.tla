----------------------------- MODULE Gcg_proofs -----------------------------
(***************************************************************************)
(* Lemmas about Gcg, for GcgGame_proofs and GcgEditor_proofs: what the     *)
(* folds that scores are made of return, that parseGcg's loop tells a story *)
(* (what it had around each record), that replayGcgHistory follows it,     *)
(* that a whole text is read by turns of the loop, and that a text that    *)
(* exportGcg wrote is read as the same story (ReadAgain, at the end).      *)
(***************************************************************************)
EXTENDS Gcg, FiniteSetTheorems, SequenceTheorems, TLAPS

(***************************************************************************)
(* Facts about the natural numbers and about folds                         *)
(***************************************************************************)

(* Induction over the natural numbers, for a set. *)
LEMMA NatSetInduction ==
    ASSUME NEW T, 0 \in T, \A n \in Nat : n \in T => n + 1 \in T
    PROVE  \A n \in Nat : n \in T
<1> SUFFICES ASSUME NEW m \in Nat, m \notin T
             PROVE  FALSE
    OBVIOUS
<1> DEFINE U == {n \in Nat : n \notin T}
<1>1. PICK x \in U : \A y \in U : <<y, x>> \notin OpToRel(<, Nat)
    <2>1. U \subseteq Nat /\ U # {}
        OBVIOUS
    <2> QED
        BY <2>1, WFMin, NatLessThanWellFounded
<1>2. \A y \in U : ~(y < x)
    BY <1>1 DEF OpToRel
<1>3. x # 0 /\ x - 1 \in Nat /\ x - 1 < x
    OBVIOUS
<1>4. x - 1 \in T
    BY <1>2, <1>3
<1> QED
    BY <1>3, <1>4

LEMMA MinNat ==
    ASSUME NEW U \in SUBSET Nat, U # {}
    PROVE  Min(U) \in U /\ \A y \in U : Min(U) <= y
<1>1. PICK x \in U : \A y \in U : <<y, x>> \notin OpToRel(<, Nat)
    BY WFMin, NatLessThanWellFounded
<1>2. \A y \in U : ~(y < x)
    BY <1>1 DEF OpToRel
<1>3. \A y \in U : x <= y
    BY <1>2
<1> QED
    BY <1>3 DEF Min

(* choice[s] is the element of s that a fold over S takes first. *)
Chooses(choice, S) == \A s \in SUBSET S : s # {} => choice[s] \in s

(* it folds every subset of S, one element at a time, from base with step. *)
IsFold(it, step, base, choice, S) ==
    it = [s \in SUBSET S |->
             IF s = {} THEN base ELSE step[choice[s]][it[s \ {choice[s]}]]]

LEMMA Subsets ==
    ASSUME NEW S, IsFiniteSet(S), NEW s \in SUBSET S
    PROVE  /\ IsFiniteSet(s) /\ Cardinality(s) \in Nat /\ Cardinality(s) <= Cardinality(S)
           /\ Cardinality(s) = 0 => s = {}
           /\ \A x \in s : s \ {x} \in SUBSET S /\ Cardinality(s \ {x}) = Cardinality(s) - 1
<1>1. IsFiniteSet(s) /\ Cardinality(s) \in Nat /\ Cardinality(s) <= Cardinality(S)
    BY FS_Subset, FS_CardinalityType
<1>2. Cardinality(s) = 0 => s = {}
    BY <1>1, FS_EmptySet
<1>3. \A x \in s : s \ {x} \in SUBSET S /\ Cardinality(s \ {x}) = Cardinality(s) - 1
    BY <1>1, FS_RemoveElement
<1> QED
    BY <1>1, <1>2, <1>3

LEMMA FoldTyped ==
    ASSUME NEW S, IsFiniteSet(S), NEW choice, Chooses(choice, S),
           NEW W, NEW base \in W, NEW step, \A x \in S, v \in W : step[x][v] \in W,
           NEW it, IsFold(it, step, base, choice, S)
    PROVE  it \in [SUBSET S -> W]
<1> DEFINE T == {n \in Nat : \A s \in SUBSET S : Cardinality(s) <= n => it[s] \in W}
<1>1. \A s \in SUBSET S :
          it[s] = IF s = {} THEN base ELSE step[choice[s]][it[s \ {choice[s]}]]
    BY DEF IsFold
<1>2. 0 \in T
    <2>1. \A s \in SUBSET S : Cardinality(s) <= 0 => s = {}
        BY Subsets
    <2>2. it[{}] \in W
        BY <1>1
    <2> QED
        BY <2>1, <2>2
<1>3. ASSUME NEW n \in Nat, n \in T
      PROVE  n + 1 \in T
    <2>1. ASSUME NEW s \in SUBSET S, Cardinality(s) <= n + 1, s # {}
          PROVE  it[s] \in W
        <3> DEFINE x == choice[s]
                   r == s \ {x}
        <3>1. x \in s
            BY <2>1 DEF Chooses
        <3>2. it[s] = step[x][it[r]]
            BY <1>1, <2>1
        <3> HIDE DEF x
        <3>3. r \in SUBSET S /\ Cardinality(r) <= n
            BY <3>1, <2>1, Subsets
        <3>4. it[r] \in W /\ x \in S
            BY <1>3, <3>1, <3>3
        <3> HIDE DEF r
        <3> QED
            BY <3>2, <3>4
    <2>2. it[{}] \in W
        BY <1>1
    <2>3. \A s \in SUBSET S : Cardinality(s) <= n + 1 => it[s] \in W
        BY <2>1, <2>2
    <2> QED
        BY <2>3
<1>4. Cardinality(S) \in T
    <2>1. \A n \in Nat : n \in T => n + 1 \in T
        BY <1>3
    <2> HIDE DEF T
    <2> QED
        BY Subsets, <1>2, <2>1, NatSetInduction
<1>5. \A s \in SUBSET S : it[s] \in W
    BY <1>4, Subsets
<1>6. it = [s \in SUBSET S |-> it[s]]
    BY DEF IsFold
<1> QED
    BY <1>5, <1>6

LEMMA FoldExists ==
    ASSUME NEW S, IsFiniteSet(S), NEW choice, Chooses(choice, S),
           NEW W, NEW base \in W, NEW step \in [S -> [W -> W]]
    PROVE  \E it \in [SUBSET S -> W] : IsFold(it, step, base, choice, S)
<1> DEFINE Next1(h) == [s \in SUBSET S |->
               IF s = {} THEN base ELSE step[choice[s]][h[s \ {choice[s]}]]]
           Good(h, n) == \A s \in SUBSET S : Cardinality(s) <= n => h[s] = Next1(h)[s]
           T == {n \in Nat : \E h \in [SUBSET S -> W] : Good(h, n)}
<1>1. ASSUME NEW s \in SUBSET S, s # {}
      PROVE  /\ choice[s] \in S
             /\ s \ {choice[s]} \in SUBSET S
             /\ Cardinality(s \ {choice[s]}) = Cardinality(s) - 1
    <2>1. choice[s] \in s
        BY <1>1 DEF Chooses
    <2> QED
        BY <2>1, Subsets
<1>2. 0 \in T
    <2> DEFINE h == [s \in SUBSET S |-> base]
    <2>1. \A s \in SUBSET S : Cardinality(s) <= 0 => s = {}
        BY Subsets
    <2>2. Good(h, 0)
        BY <2>1
    <2>3. h \in [SUBSET S -> W]
        OBVIOUS
    <2> HIDE DEF h, Good
    <2> QED
        BY <2>2, <2>3
<1>3. ASSUME NEW n \in Nat, n \in T
      PROVE  n + 1 \in T
    <2>1. PICK h \in [SUBSET S -> W] : Good(h, n)
        BY <1>3
    <2> DEFINE g == Next1(h)
    <2>2. g \in [SUBSET S -> W]
        <3>1. ASSUME NEW s \in SUBSET S, s # {}
              PROVE  step[choice[s]][h[s \ {choice[s]}]] \in W
            <4> DEFINE x == choice[s]
                       r == s \ {x}
            <4>1. x \in S /\ r \in SUBSET S
                BY <3>1, <1>1
            <4> HIDE DEF x, r
            <4>2. h[r] \in W /\ step[x] \in [W -> W]
                BY <4>1
            <4>3. step[x][h[r]] \in W
                BY <4>2
            <4> QED
                BY <4>3 DEF x, r
        <3> QED
            BY <3>1
    <2>3. ASSUME NEW s \in SUBSET S, Cardinality(s) <= n + 1
          PROVE  g[s] = Next1(g)[s]
        <3>1. CASE s = {}
            BY <3>1
        <3>2. CASE s # {}
            <4> DEFINE x == choice[s]
                       r == s \ {x}
            <4>1. r \in SUBSET S /\ Cardinality(r) <= n
                BY <1>1, Subsets, <2>3, <3>2
            <4>2. h[r] = g[r]
                BY <2>1, <4>1
            <4>3. g[s] = step[x][h[r]]
                BY <3>2
            <4>4. Next1(g)[s] = step[x][g[r]]
                <5> HIDE DEF g
                <5> QED BY <3>2
            <4> QED
                BY <4>2, <4>3, <4>4
        <3> QED
            BY <3>1, <3>2
    <2>4. Good(g, n + 1)
        <3> HIDE DEF g
        <3> QED
            BY <2>3
    <2> HIDE DEF g, Good
    <2> QED
        BY <2>2, <2>4
<1>4. Cardinality(S) \in T
    <2>1. \A n \in Nat : n \in T => n + 1 \in T
        BY <1>3
    <2> HIDE DEF T
    <2> QED
        BY Subsets, <1>2, <2>1, NatSetInduction
<1>5. PICK h \in [SUBSET S -> W] : Good(h, Cardinality(S))
    BY <1>4
<1>6. h = Next1(h)
    <2>1. \A s \in SUBSET S : h[s] = Next1(h)[s]
        BY <1>5, Subsets
    <2>2. Next1(h) = [s \in SUBSET S |-> Next1(h)[s]]
        OBVIOUS
    <2>3. h = [s \in SUBSET S |-> h[s]]
        OBVIOUS
    <2> HIDE DEF Next1
    <2> QED
        BY <2>1, <2>2, <2>3
<1> QED
    BY <1>6 DEF IsFold

(* What MapThenSumSet and FoldSet choose. *)
AnyOf(S) == [s \in SUBSET S |-> CHOOSE x \in s : TRUE]

LEMMA AnyOfChooses == \A S : Chooses(AnyOf(S), S)
BY DEF AnyOf, Chooses

(* The fold that MapThenSumSet, or FoldSet with a product, makes of the values f. *)
IsSum(it, f, S) ==
    it = [s \in SUBSET S |->
             IF s = {} THEN 0
             ELSE f[CHOOSE x \in s : TRUE] + it[s \ {CHOOSE x \in s : TRUE}]]

LEMMA SumStep ==
    ASSUME NEW S, NEW f, NEW it, NEW W, 0 \in W, \A s \in SUBSET S : it[s] \in W
    PROVE  IsSum(it, f, S)
           <=> IsFold(it, [x \in S |-> [v \in W |-> f[x] + v]], 0, AnyOf(S), S)
<1> DEFINE step == [x \in S |-> [v \in W |-> f[x] + v]]
<1>1. ASSUME NEW s \in SUBSET S, s # {}
      PROVE  step[AnyOf(S)[s]][it[s \ {AnyOf(S)[s]}]]
                = f[CHOOSE x \in s : TRUE] + it[s \ {CHOOSE x \in s : TRUE}]
    <2> DEFINE x == CHOOSE x \in s : TRUE
    <2>1. AnyOf(S)[s] = x /\ x \in s
        BY <1>1, AnyOfChooses DEF AnyOf, Chooses
    <2>2. it[s \ {x}] \in W /\ x \in S
        BY <2>1
    <2> HIDE DEF x
    <2>3. step[x][it[s \ {x}]] = f[x] + it[s \ {x}]
        BY <2>2
    <2> QED
        BY <2>1, <2>3 DEF x
<1> HIDE DEF step
<1>2. \A s \in SUBSET S :
          (IF s = {} THEN 0 ELSE step[AnyOf(S)[s]][it[s \ {AnyOf(S)[s]}]])
          = (IF s = {} THEN 0
             ELSE f[CHOOSE x \in s : TRUE] + it[s \ {CHOOSE x \in s : TRUE}])
    BY <1>1
<1>3. IsSum(it, f, S) <=> IsFold(it, step, 0, AnyOf(S), S)
    BY <1>2 DEF IsSum, IsFold
<1> QED
    BY <1>3 DEF step

LEMMA SumExists ==
    ASSUME NEW S, IsFiniteSet(S), NEW f \in [S -> Int]
    PROVE  \E it : IsSum(it, f, S)
<1> DEFINE step == [x \in S |-> [v \in Int |-> f[x] + v]]
<1>1. step \in [S -> [Int -> Int]] /\ 0 \in Int /\ Chooses(AnyOf(S), S)
    BY AnyOfChooses
<1>2. PICK it \in [SUBSET S -> Int] : IsFold(it, step, 0, AnyOf(S), S)
    <2> HIDE DEF step
    <2> QED
        BY <1>1, FoldExists
<1>3. \A s \in SUBSET S : it[s] \in Int
    OBVIOUS
<1>4. IsSum(it, f, S)
    BY <1>1, <1>2, <1>3, SumStep
<1> QED
    BY <1>4

LEMMA SumTyped ==
    ASSUME NEW S, IsFiniteSet(S), NEW f \in [S -> Int], NEW it, IsSum(it, f, S)
    PROVE  it[S] \in Int
<1> DEFINE W == Int \cup {it[s] : s \in SUBSET S}
           step == [x \in S |-> [v \in W |-> f[x] + v]]
<1>1. IsFold(it, step, 0, AnyOf(S), S)
    <2>1. 0 \in W /\ \A s \in SUBSET S : it[s] \in W
        OBVIOUS
    <2> HIDE DEF W
    <2> QED
        BY <2>1, SumStep
<1>2. \A x \in S, v \in Int : step[x][v] \in Int
    OBVIOUS
<1>3. 0 \in Int /\ Chooses(AnyOf(S), S)
    BY AnyOfChooses
<1>4. it \in [SUBSET S -> Int]
    <2> HIDE DEF step
    <2> QED
        BY <1>1, <1>2, <1>3, FoldTyped
<1> QED
    BY <1>4

(* The fold that MapThenSumSet, or FoldSet with a product, makes of the values f. *)
IsProduct(it, f, S) ==
    it = [s \in SUBSET S |->
             IF s = {} THEN 1
             ELSE f[CHOOSE x \in s : TRUE] * it[s \ {CHOOSE x \in s : TRUE}]]

LEMMA ProductStep ==
    ASSUME NEW S, NEW f, NEW it, NEW W, 1 \in W, \A s \in SUBSET S : it[s] \in W
    PROVE  IsProduct(it, f, S)
           <=> IsFold(it, [x \in S |-> [v \in W |-> f[x] * v]], 1, AnyOf(S), S)
<1> DEFINE step == [x \in S |-> [v \in W |-> f[x] * v]]
<1>1. ASSUME NEW s \in SUBSET S, s # {}
      PROVE  step[AnyOf(S)[s]][it[s \ {AnyOf(S)[s]}]]
                = f[CHOOSE x \in s : TRUE] * it[s \ {CHOOSE x \in s : TRUE}]
    <2> DEFINE x == CHOOSE x \in s : TRUE
    <2>1. AnyOf(S)[s] = x /\ x \in s
        BY <1>1, AnyOfChooses DEF AnyOf, Chooses
    <2>2. it[s \ {x}] \in W /\ x \in S
        BY <2>1
    <2> HIDE DEF x
    <2>3. step[x][it[s \ {x}]] = f[x] * it[s \ {x}]
        BY <2>2
    <2> QED
        BY <2>1, <2>3 DEF x
<1> HIDE DEF step
<1>2. \A s \in SUBSET S :
          (IF s = {} THEN 1 ELSE step[AnyOf(S)[s]][it[s \ {AnyOf(S)[s]}]])
          = (IF s = {} THEN 1
             ELSE f[CHOOSE x \in s : TRUE] * it[s \ {CHOOSE x \in s : TRUE}])
    BY <1>1
<1>3. IsProduct(it, f, S) <=> IsFold(it, step, 1, AnyOf(S), S)
    BY <1>2 DEF IsProduct, IsFold
<1> QED
    BY <1>3 DEF step

LEMMA ProductExists ==
    ASSUME NEW S, IsFiniteSet(S), NEW f \in [S -> Int]
    PROVE  \E it : IsProduct(it, f, S)
<1> DEFINE step == [x \in S |-> [v \in Int |-> f[x] * v]]
<1>1. step \in [S -> [Int -> Int]] /\ 1 \in Int /\ Chooses(AnyOf(S), S)
    BY AnyOfChooses
<1>2. PICK it \in [SUBSET S -> Int] : IsFold(it, step, 1, AnyOf(S), S)
    <2> HIDE DEF step
    <2> QED
        BY <1>1, FoldExists
<1>3. \A s \in SUBSET S : it[s] \in Int
    OBVIOUS
<1>4. IsProduct(it, f, S)
    BY <1>1, <1>2, <1>3, ProductStep
<1> QED
    BY <1>4

LEMMA ProductTyped ==
    ASSUME NEW S, IsFiniteSet(S), NEW f \in [S -> Int], NEW it, IsProduct(it, f, S)
    PROVE  it[S] \in Int
<1> DEFINE W == Int \cup {it[s] : s \in SUBSET S}
           step == [x \in S |-> [v \in W |-> f[x] * v]]
<1>1. IsFold(it, step, 1, AnyOf(S), S)
    <2>1. 1 \in W /\ \A s \in SUBSET S : it[s] \in W
        OBVIOUS
    <2> HIDE DEF W
    <2> QED
        BY <2>1, ProductStep
<1>2. \A x \in S, v \in Int : step[x][v] \in Int
    OBVIOUS
<1>3. 1 \in Int /\ Chooses(AnyOf(S), S)
    BY AnyOfChooses
<1>4. it \in [SUBSET S -> Int]
    <2> HIDE DEF step
    <2> QED
        BY <1>1, <1>2, <1>3, FoldTyped
<1> QED
    BY <1>4


-----------------------------------------------------------------------------
(* Scores *)

LEMMA SquareFinite == \A S \in SUBSET Square : IsFiniteSet(S)
<1>1. IsFiniteSet(0..14)
    <2>1. 0 \in Int /\ 14 \in Int
        OBVIOUS
    <2> QED
        BY <2>1, FS_Interval
<1>2. IsFiniteSet(Square)
    BY <1>1, FS_Product DEF Square
<1> QED
    BY <1>2, FS_Subset

LEMMA TileValueInt == \A t : TileValue(t) \in Int
BY DEF TileValue

LEMMA MultipliersInt == \A s : LetterMultiplier(s) \in Int /\ WordMultiplier(s) \in Int
BY DEF LetterMultiplier, WordMultiplier

LEMMA WordScoreInt ==
    ASSUME NEW b, NEW word, IsFiniteSet(word), NEW new
    PROVE  WordScore(b, word, new) \in Int
<1> DEFINE Value(s) == TileValue(b[s]) * (IF s \in new THEN LetterMultiplier(s) ELSE 1)
           values == [s \in word |-> Value(s)]
           factors == [s \in word \cap new |-> WordMultiplier(s)]
<1>1. values \in [word -> Int]
    BY TileValueInt, MultipliersInt
<1>2. factors \in [word \cap new -> Int]
    BY MultipliersInt
<1>3. MapThenSumSet(Value, word) \in Int
    <2> DEFINE P(it) == it = [s \in SUBSET word |-> IF s = {} THEN 0
                   ELSE Value(CHOOSE x \in s : TRUE) + it[s \ {CHOOSE x \in s : TRUE}]]
    <2>1. ASSUME NEW it
          PROVE  P(it) <=> IsSum(it, values, word)
        <3>1. \A s \in SUBSET word : s # {} =>
                  values[CHOOSE x \in s : TRUE] = Value(CHOOSE x \in s : TRUE)
            OBVIOUS
        <3> HIDE DEF values, Value
        <3> QED
            BY <3>1 DEF IsSum
    <2> HIDE DEF values
    <2>2. \E it : P(it)
        <3>1. PICK it : IsSum(it, values, word)
            BY <1>1, SumExists
        <3>2. P(it)
            BY <3>1, <2>1
        <3> HIDE DEF P
        <3> QED
            BY <3>2
    <2>3. P(CHOOSE it : P(it))
        <3> HIDE DEF P
        <3> QED
            BY <2>2
    <2>4. (CHOOSE it : P(it))[word] \in Int
        BY <1>1, <2>1, <2>3, SumTyped
    <2> HIDE DEF Value
    <2> QED
        BY <2>4 DEF MapThenSumSet, MapThenFoldSet
<1>4. FoldSet(LAMBDA s, product : WordMultiplier(s) * product, 1, word \cap new) \in Int
    <2> DEFINE S == word \cap new
               P(it) == it = [s \in SUBSET S |-> IF s = {} THEN 1
                   ELSE WordMultiplier(CHOOSE x \in s : TRUE)
                            * it[s \ {CHOOSE x \in s : TRUE}]]
    <2>1. ASSUME NEW it
          PROVE  P(it) <=> IsProduct(it, factors, S)
        <3>1. \A s \in SUBSET S : s # {} =>
                  factors[CHOOSE x \in s : TRUE] = WordMultiplier(CHOOSE x \in s : TRUE)
            OBVIOUS
        <3> HIDE DEF factors
        <3> QED
            BY <3>1 DEF IsProduct
    <2>2. IsFiniteSet(S)
        BY FS_Subset
    <2> HIDE DEF factors
    <2>3. \E it : P(it)
        <3>1. PICK it : IsProduct(it, factors, S)
            BY <1>2, <2>2, ProductExists
        <3>2. P(it)
            BY <3>1, <2>1
        <3> HIDE DEF P
        <3> QED
            BY <3>2
    <2>4. P(CHOOSE it : P(it))
        <3> HIDE DEF P
        <3> QED
            BY <2>3
    <2>5. (CHOOSE it : P(it))[S] \in Int
        BY <1>2, <2>1, <2>2, <2>4, ProductTyped
    <2> QED
        BY <2>5 DEF FoldSet, MapThenFoldSet
<1> HIDE DEF Value
<1>5. \A i, j \in Int : i * j \in Int
    OBVIOUS
<1>6. WordScore(b, word, new)
          = MapThenSumSet(Value, word)
              * FoldSet(LAMBDA s, product : WordMultiplier(s) * product, 1, word \cap new)
    BY DEF WordScore, Value
<1> QED
    BY <1>3, <1>4, <1>5, <1>6

(* A placement on a board within the squares scores an integer. *)
LEMMA PlacementScoreInt ==
    ASSUME NEW b, DOMAIN b \subseteq Square, NEW new \in SUBSET Square,
           NEW at, NEW vertical
    PROVE  PlacementScore(b, new, at, vertical) \in Int
<1> DEFINE Scored(word) == IF Cardinality(word) > 1 THEN WordScore(b, word, new) ELSE 0
           Cross(s) == Scored(Word(b, s, ~vertical))
           crosses == [s \in new |-> Cross(s)]
<1>1. \A s, v : IsFiniteSet(Word(b, s, v))
    <2> SUFFICES ASSUME NEW s, NEW v
                 PROVE  Word(b, s, v) \subseteq DOMAIN b
        BY SquareFinite
    <2>1. \A k \in -14..14 : k \in (IF k < 0 THEN k..0 ELSE 0..k)
        OBVIOUS
    <2> QED
        BY <2>1 DEF Word
<1>2. \A s, v : Scored(Word(b, s, v)) \in Int
    <2> SUFFICES ASSUME NEW s, NEW v
                 PROVE  Scored(Word(b, s, v)) \in Int
        OBVIOUS
    <2>1. WordScore(b, Word(b, s, v), new) \in Int
        BY <1>1, WordScoreInt
    <2> QED
        BY <2>1
<1> HIDE DEF Scored
<1>3. crosses \in [new -> Int]
    BY <1>2
<1>4. MapThenSumSet(Cross, new) \in Int
    <2> DEFINE P(it) == it = [s \in SUBSET new |-> IF s = {} THEN 0
                   ELSE Cross(CHOOSE x \in s : TRUE) + it[s \ {CHOOSE x \in s : TRUE}]]
    <2>0. IsFiniteSet(new)
        BY SquareFinite
    <2>1. ASSUME NEW it
          PROVE  P(it) <=> IsSum(it, crosses, new)
        <3>1. \A s \in SUBSET new : s # {} =>
                  crosses[CHOOSE x \in s : TRUE] = Cross(CHOOSE x \in s : TRUE)
            OBVIOUS
        <3> HIDE DEF crosses, Cross
        <3> QED
            BY <3>1 DEF IsSum
    <2> HIDE DEF crosses
    <2>2. \E it : P(it)
        <3>1. PICK it : IsSum(it, crosses, new)
            BY <1>3, <2>0, SumExists
        <3>2. P(it)
            BY <3>1, <2>1
        <3> HIDE DEF P
        <3> QED
            BY <3>2
    <2>3. P(CHOOSE it : P(it))
        <3> HIDE DEF P
        <3> QED
            BY <2>2
    <2>4. (CHOOSE it : P(it))[new] \in Int
        BY <1>3, <2>0, <2>1, <2>3, SumTyped
    <2> HIDE DEF Cross
    <2> QED
        BY <2>4 DEF MapThenSumSet, MapThenFoldSet
<1>5. PlacementScore(b, new, at, vertical)
          = Scored(Word(b, at, vertical)) + MapThenSumSet(Cross, new)
                + (IF Cardinality(new) = 7 THEN 50 ELSE 0)
    BY DEF PlacementScore, Scored, Cross
<1>6. \A i, j, k \in Int : i + j + k \in Int
    OBVIOUS
<1>7. (IF Cardinality(new) = 7 THEN 50 ELSE 0) \in Int
    OBVIOUS
<1> QED
    BY <1>2, <1>4, <1>5, <1>6, <1>7

-----------------------------------------------------------------------------
(* Boards *)

BoardOK(b) ==
    /\ b = [s \in DOMAIN b |-> b[s]]
    /\ DOMAIN b \subseteq Square
    /\ \A s \in DOMAIN b : b[s] \in Tile

LEMMA EmptyBoardOK == BoardOK(EmptyBoard)
BY DEF BoardOK, EmptyBoard

(* replayPlace: a placement that does not throw puts tiles on free squares, *)
(* and undoPlace takes exactly these away again.                            *)
LEMMA PlacedBoard ==
    ASSUME NEW b, BoardOK(b), NEW m, m.tiles \in Seq(Tile \cup {Dot}), ~PlaceThrows(b, m)
    PROVE  /\ BoardOK(Placed(b, m))
           /\ NewSquares(b, m) \in SUBSET Square
           /\ Without(Placed(b, m), NewSquares(b, m)) = b
           /\ ComputedScore(b, m) \in Int
<1>1. \A s \in NewSquares(b, m) :
          \E i \in DOMAIN m.tiles : SquareOf(m, i) = s /\ s \in Square /\ s \notin DOMAIN b
                                    /\ m.tiles[i] # Dot
    BY DEF NewSquares, PlaceThrows, OffBoard
<1>2. DOMAIN Placed(b, m) = DOMAIN b \cup NewSquares(b, m)
    BY DEF Placed
<1>3. \A s \in DOMAIN b : Placed(b, m)[s] = b[s]
    BY DEF Placed
<1>4. ASSUME NEW s \in NewSquares(b, m)
      PROVE  Placed(b, m)[s] \in Tile
    <2>1. PICK i \in DOMAIN m.tiles : SquareOf(m, i) = s /\ s \notin DOMAIN b
        BY <1>1
    <2> DEFINE j == CHOOSE k \in DOMAIN m.tiles : SquareOf(m, k) = s
    <2>2. j \in DOMAIN m.tiles /\ SquareOf(m, j) = s
        BY <2>1
    <2>3. Placed(b, m)[s] = m.tiles[j]
        BY <2>1 DEF Placed
    <2> HIDE DEF j
    <2>4. m.tiles[j] # Dot
        BY <2>1, <2>2 DEF PlaceThrows
    <2>5. m.tiles[j] \in Tile \cup {Dot}
        BY <2>2
    <2> QED
        BY <2>3, <2>4, <2>5
<1>5. BoardOK(Placed(b, m))
    <2>1. Placed(b, m) = [s \in DOMAIN Placed(b, m) |-> Placed(b, m)[s]]
        BY DEF Placed
    <2> QED
        BY <1>1, <1>2, <1>3, <1>4, <2>1 DEF BoardOK
<1>6. NewSquares(b, m) \in SUBSET Square
    BY <1>1
<1>7. Without(Placed(b, m), NewSquares(b, m)) = b
    <2>1. DOMAIN Placed(b, m) \ NewSquares(b, m) = DOMAIN b
        BY <1>1, <1>2
    <2> QED
        BY <1>3, <2>1 DEF Without, BoardOK
<1>8. ComputedScore(b, m) \in Int
    <2>1. DOMAIN Placed(b, m) \subseteq Square
        BY <1>5 DEF BoardOK
    <2> QED
        BY <1>6, <2>1, PlacementScoreInt DEF ComputedScore
<1> QED
    BY <1>5, <1>6, <1>7, <1>8

LEMMA WithoutBoard ==
    ASSUME NEW b, BoardOK(b), NEW S
    PROVE  BoardOK(Without(b, S))
BY DEF BoardOK, Without

-----------------------------------------------------------------------------
(* Sequences of records *)

IsSeq(s) == Len(s) \in Nat /\ s = [i \in 1..Len(s) |-> s[i]]

LEMMA AppendIs ==
    ASSUME NEW s, IsSeq(s), NEW e
    PROVE  /\ IsSeq(Append(s, e)) /\ Len(Append(s, e)) = Len(s) + 1
           /\ \A i \in 1..Len(s) : Append(s, e)[i] = s[i]
           /\ Append(s, e)[Len(s) + 1] = e
<1> DEFINE R == {s[i] : i \in 1..Len(s)} \cup {e}
<1>1. s \in Seq(R)
    <2>1. \A i \in 1..Len(s) : s[i] \in R
        OBVIOUS
    <2> HIDE DEF R
    <2> QED
        BY <2>1, IsASeq DEF IsSeq
<1>2. e \in R
    OBVIOUS
<1> HIDE DEF R
<1>3. Append(s, e) \in Seq(R) /\ Len(Append(s, e)) = Len(s) + 1
    BY <1>1, <1>2
<1>4. IsSeq(Append(s, e))
    BY <1>3, LenProperties DEF IsSeq
<1> QED
    BY <1>1, <1>2, <1>3, <1>4

IsEntry(e) ==
    /\ e = [move |-> e.move, note |-> e.note, challenged |-> e.challenged,
            computed |-> e.computed]
    /\ e.move.kind \in MoveKinds /\ e.move.player \in Players /\ e.move.rack \in Rack
    /\ WellFormed(e.move)
    /\ e.challenged \in BOOLEAN

IsHistory(h) == IsSeq(h) /\ \A i \in 1..Len(h) : IsEntry(h[i])

LEMMA RecordIsEntry ==
    ASSUME NEW m, m.kind \in MoveKinds, m.player \in Players, m.rack \in Rack,
           WellFormed(m), NEW c
    PROVE  IsEntry(Record(m, c)) /\ Record(m, c).move = m /\ ~Record(m, c).challenged
BY DEF IsEntry, Record

LEMMA HistoryGrows ==
    ASSUME NEW h, IsHistory(h),
           NEW m, m.kind \in MoveKinds, m.player \in Players, m.rack \in Rack,
           WellFormed(m), NEW c
    PROVE  LET g == Append(h, Record(m, c)) IN
           /\ IsHistory(g) /\ Len(g) = Len(h) + 1
           /\ \A i \in 1..Len(h) : g[i] = h[i]
           /\ g[Len(h) + 1].move = m /\ ~g[Len(h) + 1].challenged
<1>1. IsEntry(Record(m, c)) /\ Record(m, c).move = m /\ ~Record(m, c).challenged
    BY RecordIsEntry
<1> DEFINE g == Append(h, Record(m, c))
<1>2. /\ IsSeq(g) /\ Len(g) = Len(h) + 1
      /\ \A i \in 1..Len(h) : g[i] = h[i]
      /\ g[Len(h) + 1] = Record(m, c)
    BY AppendIs DEF IsHistory
<1> HIDE DEF g
<1>3. \A i \in 1..Len(g) : i \in 1..Len(h) \/ i = Len(h) + 1
    BY <1>2 DEF IsHistory, IsSeq
<1>4. IsHistory(g)
    BY <1>1, <1>2, <1>3 DEF IsHistory
<1> QED
    BY <1>1, <1>2, <1>4 DEF g

-----------------------------------------------------------------------------
(* Players on turn *)

LEMMA NextPlayerTyped ==
    ASSUME NEW players \in SUBSET Players, NEW p \in players
    PROVE  NextPlayer(players, p) \in players
<1> DEFINE later == {q \in players : q > p}
<1>1. players \subseteq Nat /\ players # {}
    BY DEF Players
<1>2. Min(players) \in players
    BY <1>1, MinNat
<1>3. later # {} => Min(later) \in later
    <2>1. later \subseteq Nat
        BY <1>1
    <2> HIDE DEF later
    <2> QED
        BY <2>1, MinNat
<1> QED
    BY <1>2, <1>3 DEF NextPlayer

-----------------------------------------------------------------------------
(* One record, as parseGcg reads it *)

ParseFields(p) ==
    p = [players |-> p.players, history |-> p.history, board |-> p.board,
         scores |-> p.scores, current |-> p.current, last |-> p.last,
         racks |-> p.racks, incomplete |-> p.incomplete, warnings |-> p.warnings,
         failed |-> p.failed]

ParseNames == {"players", "history", "board", "scores", "current", "last", "racks",
               "incomplete", "warnings", "failed"}

(* A record of the parser's fields stays one when some of them change. *)
LEMMA ParseRecord ==
    ASSUME NEW p
    PROVE  ParseFields(p) <=> p = [x \in ParseNames |-> p[x]]
BY DEF ParseFields, ParseNames

IsParse(p) ==
    /\ ParseFields(p)
    /\ p.players \subseteq Players
    /\ IsHistory(p.history)
    /\ BoardOK(p.board) /\ p.scores \in [Players -> Int]
    /\ p.current \in Players \cup {None}
    /\ p.last # None => p.last \in LastPlacement /\ p.last.index \in 1..Len(p.history)
    /\ p.racks \in [Players -> Rack] /\ p.incomplete \in Rack
    /\ p.failed \in BOOLEAN

(* What the parser has before and after a record. *)
Shot(p) == [board |-> p.board, scores |-> p.scores, players |-> p.players, last |-> p.last]

(* What the i-th record m of a game does: from the snapshot a to b, the     *)
(* record before it being the player q's.                                   *)
Recorded(a, i, m, q, b) ==
    /\ m.player \in b.players
    /\ m.kind = "place" =>
           /\ ~PlaceThrows(a.board, m)
           /\ b.board = Placed(a.board, m)
           /\ b.scores = [a.scores EXCEPT ![m.player] = @ + ComputedScore(a.board, m)]
           /\ b.last = [index |-> i, squares |-> NewSquares(a.board, m),
                        score |-> ComputedScore(a.board, m)]
    /\ m.kind # "place" => b.last = None
    /\ m.kind \in {"pass", "exchange"} => b.board = a.board /\ b.scores = a.scores
    /\ m.kind = "phony" =>
           IF a.last # None /\ a.last.index = i - 1
           THEN /\ b.board = Without(a.board, a.last.squares)
                /\ b.scores = [a.scores EXCEPT ![q] = @ - a.last.score]
           ELSE b.board = a.board /\ b.scores = a.scores
    /\ m.kind \in {"adjustment", "time", "end"} =>
           /\ b.board = a.board
           /\ b.scores = [a.scores EXCEPT ![m.player] = @ + ScoreDelta(m)]

PlayerBefore(h, i) == h[i - 1].move.player

(* A turn of parseGcg's loop that reads the record m of p, and has q after. *)
MoveRead(p, m, q) ==
    /\ IsParse(q)
    /\ q.players = p.players /\ q.racks = p.racks /\ q.incomplete = p.incomplete
    /\ q.failed = p.failed
    /\ Len(q.history) = Len(p.history) + 1
    /\ \A i \in 1..Len(p.history) :
           /\ q.history[i].move = p.history[i].move
           /\ q.history[i].challenged =>
                  \/ p.history[i].challenged
                  \/ /\ i = Len(p.history) /\ m.kind = "phony"
                     /\ p.last # None /\ p.last.index = i
    /\ q.history[Len(q.history)].move = m /\ ~q.history[Len(q.history)].challenged
    /\ Recorded(Shot(p), Len(q.history), m, PlayerBefore(q.history, Len(q.history)), Shot(q))
    /\ q.current = IF m.kind \in DecisionKinds THEN NextPlayer(p.players, m.player)
                   ELSE p.current

LEMMA CheckedKeeps ==
    ASSUME NEW p, IsParse(p), NEW m
    PROVE  /\ IsParse(Checked(p, m))
           /\ Checked(p, m).players = p.players /\ Checked(p, m).history = p.history
           /\ Checked(p, m).board = p.board /\ Checked(p, m).scores = p.scores
           /\ Checked(p, m).current = p.current /\ Checked(p, m).last = p.last
           /\ Checked(p, m).racks = p.racks /\ Checked(p, m).incomplete = p.incomplete
           /\ Checked(p, m).failed = p.failed
<1>1. CASE Checked(p, m) = p
    BY <1>1
<1>2. CASE Checked(p, m) = [p EXCEPT !.warnings = @ \cup {"total"}]
    <2> DEFINE w == p.warnings \cup {"total"}
    <2>1. Checked(p, m) = [p EXCEPT !.warnings = w]
        BY <1>2
    <2> HIDE DEF w
    <2>2. Checked(p, m) = [players |-> p.players, history |-> p.history, board |-> p.board,
            scores |-> p.scores, current |-> p.current, last |-> p.last,
            racks |-> p.racks, incomplete |-> p.incomplete, warnings |-> w,
            failed |-> p.failed]
        BY <2>1 DEF IsParse, ParseFields
    <2> QED
        BY <2>2 DEF IsParse, ParseFields
<1> QED
    BY <1>1, <1>2 DEF Checked

LEMMA CheckedRead ==
    ASSUME NEW p, NEW m, NEW q, MoveRead(p, m, q), NEW n
    PROVE  MoveRead(p, m, Checked(q, n))
<1>1. IsParse(q)
    BY DEF MoveRead
<1> QED
    BY <1>1, CheckedKeeps DEF MoveRead, Shot

LEMMA PlaceRead ==
    ASSUME NEW p, IsParse(p), NEW m, m.kind = "place", WellFormed(m), ~MoveThrows(p, m)
    PROVE  MoveRead(p, m, ParsePlace(p, m))
<1> DEFINE n == Len(p.history) + 1
           c == ComputedScore(p.board, m)
           w == p.warnings \cup PlacementWarnings(p.board, m)
                           \cup (IF m.score \in {None, c} THEN {} ELSE {"score"})
           q == [p EXCEPT !.warnings = w,
                   !.history = Append(@, Record(m, c)),
                   !.board = Placed(@, m),
                   !.scores[m.player] = @ + c,
                   !.current = NextPlayer(p.players, m.player),
                   !.last = [index |-> n, squares |-> NewSquares(p.board, m), score |-> c]]
<1>0. ParsePlace(p, m) = Checked(q, m)
    BY DEF ParsePlace
<1> HIDE DEF c, w
<1>1. /\ ParseFields(q)
      /\ q.players = p.players /\ q.history = Append(p.history, Record(m, c))
      /\ q.board = Placed(p.board, m)
      /\ q.scores = [p.scores EXCEPT ![m.player] = @ + c]
      /\ q.current = NextPlayer(p.players, m.player)
      /\ q.last = [index |-> n, squares |-> NewSquares(p.board, m), score |-> c]
      /\ q.racks = p.racks /\ q.incomplete = p.incomplete /\ q.failed = p.failed
    <2>1. p = [x \in ParseNames |-> p[x]]
        BY ParseRecord DEF IsParse
    <2> HIDE DEF n
    <2>2. q = [x \in ParseNames |-> q[x]]
        BY <2>1
    <2>3. ParseFields(q)
        <3> HIDE DEF q
        <3> QED
            BY <2>2, ParseRecord
    <2>4. q.scores = [p.scores EXCEPT ![m.player] = @ + c]
        BY <2>1 DEF ParseNames
    <2> QED
        BY <2>1, <2>3, <2>4 DEF ParseNames
<1>2. /\ m.player \in p.players /\ m.player \in Players
      /\ m.tiles \in Seq(Tile \cup {Dot}) /\ ~PlaceThrows(p.board, m)
    BY DEF MoveThrows, WellFormed, IsParse
<1>3. /\ BoardOK(Placed(p.board, m)) /\ c \in Int
      /\ NewSquares(p.board, m) \in SUBSET Square
    BY <1>2, PlacedBoard DEF IsParse, c
<1>4. NextPlayer(p.players, m.player) \in Players
    BY <1>2, NextPlayerTyped DEF IsParse
<1> HIDE DEF q
<1>5. /\ IsHistory(q.history) /\ Len(q.history) = n
      /\ \A i \in 1..Len(p.history) : q.history[i] = p.history[i]
      /\ q.history[n].move = m /\ ~q.history[n].challenged
    <2>1. m.kind \in MoveKinds /\ m.rack \in Rack /\ IsHistory(p.history)
        BY DEF MoveKinds, DecisionKinds, MoveThrows, IsParse
    <2> QED
        BY <1>1, <1>2, <2>1, HistoryGrows
<1>6. q.scores \in [Players -> Int]
    BY <1>1, <1>2, <1>3 DEF IsParse
<1>7. q.last \in LastPlacement /\ q.last.index \in 1..Len(q.history)
    <2>1. n \in Nat /\ n \in 1..n
        BY DEF IsParse, IsHistory, IsSeq
    <2> QED
        BY <1>1, <1>3, <1>5, <2>1 DEF LastPlacement
<1>8. IsParse(q)
    BY <1>1, <1>3, <1>4, <1>5, <1>6, <1>7 DEF IsParse
<1>9. MoveRead(p, m, q)
    <2>1. Recorded(Shot(p), n, m, PlayerBefore(q.history, n), Shot(q))
        BY <1>1, <1>2 DEF Recorded, Shot, c
    <2> QED
        BY <1>1, <1>5, <1>8, <2>1 DEF MoveRead, DecisionKinds
<1> QED
    BY <1>0, <1>9, CheckedRead

LEMMA PassRead ==
    ASSUME NEW p, IsParse(p), NEW m, m.kind \in {"pass", "exchange"}, ~MoveThrows(p, m),
           WellFormed(m)
    PROVE  MoveRead(p, m, ParsePassOrExchange(p, m))
<1> DEFINE n == Len(p.history) + 1
           q == [p EXCEPT !.history = Append(@, Record(m, None)),
                          !.current = NextPlayer(p.players, m.player), !.last = None]
<1>0. ParsePassOrExchange(p, m) = Checked(q, m)
    BY DEF ParsePassOrExchange
<1>1. /\ ParseFields(q)
      /\ q.players = p.players /\ q.history = Append(p.history, Record(m, None))
      /\ q.board = p.board /\ q.scores = p.scores
      /\ q.current = NextPlayer(p.players, m.player) /\ q.last = None
      /\ q.racks = p.racks /\ q.incomplete = p.incomplete /\ q.failed = p.failed
    <2>1. p = [x \in ParseNames |-> p[x]]
        BY ParseRecord DEF IsParse
    <2>2. q = [x \in ParseNames |-> q[x]]
        BY <2>1
    <2>3. ParseFields(q)
        <3> HIDE DEF q
        <3> QED
            BY <2>2, ParseRecord
    <2> QED
        BY <2>1, <2>3 DEF ParseNames
<1> HIDE DEF q
<1>2. m.player \in p.players /\ m.player \in Players
    BY DEF MoveThrows, IsParse
<1>3. NextPlayer(p.players, m.player) \in Players
    BY <1>2, NextPlayerTyped DEF IsParse
<1>4. /\ IsHistory(q.history) /\ Len(q.history) = n
      /\ \A i \in 1..Len(p.history) : q.history[i] = p.history[i]
      /\ q.history[n].move = m /\ ~q.history[n].challenged
    <2>1. m.kind \in MoveKinds /\ m.rack \in Rack /\ IsHistory(p.history)
        BY DEF MoveKinds, DecisionKinds, MoveThrows, IsParse
    <2> QED
        BY <1>1, <1>2, <2>1, HistoryGrows
<1>5. IsParse(q)
    BY <1>1, <1>3, <1>4 DEF IsParse
<1>6. MoveRead(p, m, q)
    <2>1. Recorded(Shot(p), n, m, PlayerBefore(q.history, n), Shot(q))
        BY <1>1, <1>2 DEF Recorded, Shot
    <2> QED
        BY <1>1, <1>4, <1>5, <2>1 DEF MoveRead, DecisionKinds
<1> QED
    BY <1>0, <1>6, CheckedRead

LEMMA ScoreDeltaInt ==
    ASSUME NEW m, WellFormed(m)
    PROVE  ScoreDelta(m) \in Int
BY DEF WellFormed, ScoreDelta

LEMMA BonusRead ==
    ASSUME NEW p, IsParse(p), NEW m, m.kind \in {"adjustment", "time", "end"},
           ~MoveThrows(p, m), WellFormed(m)
    PROVE  MoveRead(p, m, ParseBonus(p, m))
<1> DEFINE n == Len(p.history) + 1
           q == [p EXCEPT !.history = Append(@, Record(m, None)),
                          !.scores[m.player] = @ + ScoreDelta(m), !.last = None]
<1>0. ParseBonus(p, m) = Checked(q, m)
    BY DEF ParseBonus
<1>1. /\ ParseFields(q)
      /\ q.players = p.players /\ q.history = Append(p.history, Record(m, None))
      /\ q.board = p.board
      /\ q.scores = [p.scores EXCEPT ![m.player] = @ + ScoreDelta(m)]
      /\ q.current = p.current /\ q.last = None
      /\ q.racks = p.racks /\ q.incomplete = p.incomplete /\ q.failed = p.failed
    <2>1. p = [x \in ParseNames |-> p[x]]
        BY ParseRecord DEF IsParse
    <2>2. q = [x \in ParseNames |-> q[x]]
        BY <2>1
    <2>3. ParseFields(q)
        <3> HIDE DEF q
        <3> QED
            BY <2>2, ParseRecord
    <2>4. q.scores = [p.scores EXCEPT ![m.player] = @ + ScoreDelta(m)]
        BY <2>1 DEF ParseNames
    <2> QED
        BY <2>1, <2>3, <2>4 DEF ParseNames
<1> HIDE DEF q
<1>2. m.player \in p.players /\ m.player \in Players
    BY DEF MoveThrows, IsParse
<1>3. q.scores \in [Players -> Int]
    BY <1>1, <1>2, ScoreDeltaInt DEF IsParse
<1>4. /\ IsHistory(q.history) /\ Len(q.history) = n
      /\ \A i \in 1..Len(p.history) : q.history[i] = p.history[i]
      /\ q.history[n].move = m /\ ~q.history[n].challenged
    <2>1. m.kind \in MoveKinds /\ m.rack \in Rack /\ IsHistory(p.history)
        BY DEF MoveKinds, DecisionKinds, MoveThrows, IsParse
    <2> QED
        BY <1>1, <1>2, <2>1, HistoryGrows
<1>5. IsParse(q)
    BY <1>1, <1>3, <1>4 DEF IsParse
<1>6. MoveRead(p, m, q)
    <2>1. Recorded(Shot(p), n, m, PlayerBefore(q.history, n), Shot(q))
        BY <1>1, <1>2 DEF Recorded, Shot
    <2> QED
        BY <1>1, <1>4, <1>5, <2>1 DEF MoveRead, DecisionKinds
<1> QED
    BY <1>0, <1>6, CheckedRead

(* A record stays one when it is challenged, or a note is put to it.        *)
Put(h, k, e) == [h EXCEPT ![k] = e]

LEMMA EntryChanges ==
    ASSUME NEW h, IsHistory(h), NEW k \in 1..Len(h), NEW e, IsEntry(e), e.move = h[k].move
    PROVE  /\ IsHistory(Put(h, k, e)) /\ Len(Put(h, k, e)) = Len(h)
           /\ \A i \in 1..Len(h) : Put(h, k, e)[i].move = h[i].move
           /\ \A i \in 1..Len(h) : i # k => Put(h, k, e)[i] = h[i]
           /\ Put(h, k, e)[k] = e
<1> DEFINE g == Put(h, k, e)
<1>0. g = [h EXCEPT ![k] = e]
    BY DEF Put
<1> HIDE DEF g
<1>1. Len(h) \in Nat /\ h = [i \in 1..Len(h) |-> h[i]]
    BY DEF IsHistory, IsSeq
<1>2. g = [i \in 1..Len(h) |-> IF i = k THEN e ELSE h[i]]
    BY <1>0, <1>1
<1>3. IsSeq(g) /\ Len(g) = Len(h)
    <2> DEFINE R == {g[i] : i \in 1..Len(h)}
    <2>1. g \in [1..Len(h) -> R]
        BY <1>2
    <2>2. \A i \in 1..Len(h) : g[i] \in R
        OBVIOUS
    <2> HIDE DEF R
    <2>3. [i \in 1..Len(h) |-> g[i]] \in Seq(R)
        BY <1>1, <2>2, IsASeq
    <2>4. g \in Seq(R)
        BY <2>1, <2>3
    <2>5. Len(g) = Len(h)
        BY <1>1, <2>1, <2>4, LenProperties
    <2> QED
        BY <1>1, <2>1, <2>5 DEF IsSeq
<1>4. \A i \in 1..Len(h) : g[i] = IF i = k THEN e ELSE h[i]
    BY <1>2
<1>5. IsHistory(g)
    BY <1>3, <1>4 DEF IsHistory
<1> QED
    BY <1>3, <1>4, <1>5 DEF g

LEMMA ChallengedEntry ==
    ASSUME NEW r, IsEntry(r), NEW e, e = [r EXCEPT !.challenged = TRUE]
    PROVE  IsEntry(e) /\ e.move = r.move
<1>1. PICK t \in BOOLEAN : t = TRUE
    OBVIOUS
<1>2. e = [r EXCEPT !.challenged = t]
    BY <1>1, Zenon
<1>3. e = [move |-> r.move, note |-> r.note, challenged |-> t, computed |-> r.computed]
    BY <1>2 DEF IsEntry
<1> QED
    BY <1>3 DEF IsEntry

LEMMA ChallengedHistory ==
    ASSUME NEW h, IsHistory(h), NEW k \in 1..Len(h),
           NEW g, g = [h EXCEPT ![k].challenged = TRUE]
    PROVE  /\ IsHistory(g) /\ Len(g) = Len(h)
           /\ \A i \in 1..Len(h) : g[i].move = h[i].move /\ (i # k => g[i] = h[i])
<1>1. IsEntry(h[k])
    BY DEF IsHistory
<1>2. PICK e : e = [h[k] EXCEPT !.challenged = TRUE]
    OBVIOUS
<1>3. IsEntry(e) /\ e.move = h[k].move
    BY <1>1, <1>2, ChallengedEntry
<1>4. g = Put(h, k, e)
    BY <1>2 DEF Put
<1>5. IsHistory(h) /\ k \in 1..Len(h)
    OBVIOUS
<1> QED
    BY ONLY <1>3, <1>4, <1>5, EntryChanges

LEMMA PhonyRead ==
    ASSUME NEW p, IsParse(p), NEW m, m.kind = "phony", ~MoveThrows(p, m), WellFormed(m)
    PROVE  MoveRead(p, m, ParsePhony(p, m))
<1> DEFINE n == Len(p.history) + 1
           recorded == Append(p.history, Record(m, None))
           withdrawn == p.last # None /\ p.last.index = Len(p.history)
<1>1. m.player \in p.players /\ m.player \in Players
    BY DEF MoveThrows, IsParse
<1>2. /\ IsHistory(recorded) /\ Len(recorded) = n
      /\ \A i \in 1..Len(p.history) : recorded[i] = p.history[i]
      /\ recorded[n].move = m /\ ~recorded[n].challenged
    <2>1. m.kind \in MoveKinds /\ m.rack \in Rack /\ IsHistory(p.history)
        BY DEF MoveKinds, DecisionKinds, MoveThrows, IsParse
    <2> QED
        BY <1>1, <2>1, HistoryGrows
<1>3. p = [x \in ParseNames |-> p[x]]
    BY ParseRecord DEF IsParse
<1> HIDE DEF recorded
<1>4. CASE ~withdrawn
    <2> DEFINE w == p.warnings \cup {"phony"}
               q == [p EXCEPT !.history = recorded, !.warnings = w, !.last = None]
    <2>1. ParsePhony(p, m) = Checked(q, m)
        BY <1>4 DEF ParsePhony, recorded
    <2> HIDE DEF w
    <2>2. q = [x \in ParseNames |-> q[x]]
        BY <1>3
    <2>3. /\ q.players = p.players /\ q.history = recorded
          /\ q.board = p.board /\ q.scores = p.scores
          /\ q.current = p.current /\ q.last = None
          /\ q.racks = p.racks /\ q.incomplete = p.incomplete /\ q.failed = p.failed
        BY <1>3 DEF ParseNames
    <2> HIDE DEF q
    <2>4. IsParse(q)
        BY <1>2, <2>2, <2>3, ParseRecord DEF IsParse
    <2>5. Recorded(Shot(p), n, m, PlayerBefore(q.history, n), Shot(q))
        <3>1. n - 1 = Len(p.history)
            BY DEF IsParse, IsHistory, IsSeq
        <3> QED
            BY <1>1, <1>4, <2>3, <3>1 DEF Recorded, Shot
    <2>6. MoveRead(p, m, q)
        BY <1>2, <2>3, <2>4, <2>5 DEF MoveRead, DecisionKinds
    <2> QED
        BY <2>1, <2>6, CheckedRead
<1>5. CASE withdrawn
    <2> DEFINE k == p.last.index
               g == [recorded EXCEPT ![k].challenged = TRUE]
               q == [p EXCEPT !.history = g, !.board = Without(@, p.last.squares),
                              !.scores[Challenged(p, m)] = @ - p.last.score, !.last = None]
    <2>1. ParsePhony(p, m) = Checked(q, m)
        BY <1>5 DEF ParsePhony, recorded
    <2>2. /\ p.last \in LastPlacement /\ k \in 1..Len(p.history) /\ k = Len(p.history)
          /\ n - 1 = k /\ k \in 1..Len(recorded) /\ Len(p.history) \in Nat
        BY <1>2, <1>5 DEF IsParse, IsHistory, IsSeq
    <2>3. /\ IsHistory(g) /\ Len(g) = n
          /\ \A i \in 1..n : g[i].move = recorded[i].move /\ (i # k => g[i] = recorded[i])
        <3>1. IsHistory(recorded) /\ k \in 1..Len(recorded)
            BY <1>2, <2>2
        <3> QED
            BY <1>2, <3>1, ChallengedHistory
    <2> HIDE DEF g
    <2>4. q = [x \in ParseNames |-> q[x]]
        BY <1>3
    <2>5. /\ q.players = p.players /\ q.history = g
          /\ q.board = Without(p.board, p.last.squares)
          /\ q.current = p.current /\ q.last = None
          /\ q.racks = p.racks /\ q.incomplete = p.incomplete /\ q.failed = p.failed
        BY <1>3 DEF ParseNames
    <2>6. q.scores = [p.scores EXCEPT ![Challenged(p, m)] = @ - p.last.score]
        BY <1>3 DEF ParseNames
    <2> HIDE DEF q
    <2>7. Challenged(p, m) = PlayerBefore(g, n) /\ Challenged(p, m) \in Players
        <3>1. recorded[k] = p.history[k] /\ g[k].move = recorded[k].move
            BY <1>2, <2>2, <2>3
        <3>2. IsEntry(p.history[k])
            BY <2>2 DEF IsParse, IsHistory
        <3> QED
            BY <2>2, <3>1, <3>2 DEF Challenged, PlayerBefore, IsEntry
    <2>8. q.scores \in [Players -> Int]
        BY <2>2, <2>6, <2>7 DEF IsParse, LastPlacement
    <2>9. IsParse(q)
        BY <2>3, <2>4, <2>5, <2>8, ParseRecord, WithoutBoard DEF IsParse
    <2>10. Recorded(Shot(p), n, m, PlayerBefore(q.history, n), Shot(q))
        BY <1>1, <1>5, <2>2, <2>5, <2>6, <2>7 DEF Recorded, Shot
    <2>11. /\ \A i \in 1..Len(p.history) :
                  g[i].move = p.history[i].move /\ (i # k => g[i] = p.history[i])
           /\ g[n].move = m /\ ~g[n].challenged
        BY <1>2, <2>2, <2>3
    <2>12. MoveRead(p, m, q)
        <3>1. \A i \in 1..Len(p.history) :
                  /\ q.history[i].move = p.history[i].move
                  /\ q.history[i].challenged =>
                        \/ p.history[i].challenged
                        \/ /\ i = Len(p.history) /\ m.kind = "phony"
                           /\ p.last # None /\ p.last.index = i
            <4> TAKE i \in 1..Len(p.history)
            <4>1. CASE i = k
                BY <1>5, <2>2, <2>5, <2>11, <4>1
            <4>2. CASE i # k
                BY <2>5, <2>11, <4>2
            <4> QED
                BY <4>1, <4>2
        <3>2. m.kind \notin DecisionKinds
            BY DEF DecisionKinds
        <3> QED
            BY <2>3, <2>5, <2>9, <2>10, <2>11, <3>1, <3>2 DEF MoveRead
    <2> QED
        BY <2>1, <2>12, CheckedRead
<1> QED
    BY <1>4, <1>5

LEMMA ReadOneMove ==
    ASSUME NEW p, IsParse(p), NEW m, m.kind \in MoveKinds, ~MoveThrows(p, m), WellFormed(m)
    PROVE  MoveRead(p, m, ParseMove(p, m))
<1>1. CASE m.kind = "place"
    BY <1>1, PlaceRead DEF ParseMove
<1>2. CASE m.kind \in {"pass", "exchange"}
    BY <1>2, PassRead DEF ParseMove
<1>3. CASE m.kind = "phony"
    BY <1>3, PhonyRead DEF ParseMove
<1>4. CASE m.kind \in {"adjustment", "time", "end"}
    BY <1>4, BonusRead DEF ParseMove
<1> QED
    BY <1>1, <1>2, <1>3, <1>4 DEF MoveKinds, DecisionKinds

(* A line that is not a record changes nothing the game depends on, but     *)
(* that a player may join.                                                  *)
PragmaRead(p, q) ==
    /\ IsParse(q)
    /\ p.players \subseteq q.players
    /\ q.board = p.board /\ q.scores = p.scores /\ q.last = p.last
    /\ q.current = p.current /\ q.failed = p.failed
    /\ Len(q.history) = Len(p.history)
    /\ \A i \in 1..Len(p.history) : /\ q.history[i].move = p.history[i].move
                                    /\ q.history[i].challenged = p.history[i].challenged

LEMMA ReadOnePragma ==
    ASSUME NEW p, IsParse(p), NEW l, ~PragmaThrows(p, l)
    PROVE  PragmaRead(p, ParsePragma(p, l))
<1> DEFINE q == ParsePragma(p, l)
<1>1. p = [x \in ParseNames |-> p[x]]
    BY ParseRecord DEF IsParse
<1>2. CASE l.kind = "player"
    <2>1. q = [p EXCEPT !.players = @ \cup {l.id}] /\ l.id \in Players
        BY <1>2 DEF ParsePragma, PragmaThrows
    <2>2. q = [x \in ParseNames |-> IF x = "players" THEN p.players \cup {l.id} ELSE p[x]]
        BY <1>1, <2>1
    <2> HIDE DEF q
    <2>3. ParseFields(q)
        BY <2>2 DEF ParseFields, ParseNames
    <2> QED
        BY <2>1, <2>2, <2>3 DEF PragmaRead, IsParse, ParseNames, q
<1>3. CASE l.kind = "rack"
    <2>1. q = [p EXCEPT !.racks[l.id] = l.rack] /\ l.id \in Players /\ l.rack \in Rack
        BY <1>3 DEF ParsePragma, PragmaThrows, IsParse
    <2>2. q = [x \in ParseNames |-> IF x = "racks" THEN [p.racks EXCEPT ![l.id] = l.rack]
                                    ELSE p[x]]
        BY <1>1, <2>1
    <2> HIDE DEF q
    <2>3. ParseFields(q)
        BY <2>2 DEF ParseFields, ParseNames
    <2> QED
        BY <2>1, <2>2, <2>3 DEF PragmaRead, IsParse, ParseNames, q
<1>4. CASE l.kind = "incomplete"
    <2>1. q = [p EXCEPT !.incomplete = l.rack] /\ l.rack \in Rack
        BY <1>4 DEF ParsePragma, PragmaThrows
    <2>2. q = [x \in ParseNames |-> IF x = "incomplete" THEN l.rack ELSE p[x]]
        BY <1>1, <2>1
    <2> HIDE DEF q
    <2>3. ParseFields(q)
        BY <2>2 DEF ParseFields, ParseNames
    <2> QED
        BY <2>1, <2>2, <2>3 DEF PragmaRead, IsParse, ParseNames, q
<1>5. CASE l.kind = "note" /\ p.history # <<>>
    <2> DEFINE k == Len(p.history)
               g == [p.history EXCEPT ![k].note = l.text]
               e == [p.history[k] EXCEPT !.note = l.text]
    <2>1. q = [p EXCEPT !.history = g]
        BY <1>5 DEF ParsePragma
    <2>2. k \in 1..Len(p.history)
        <3>1. IsSeq(p.history)
            BY DEF IsParse, IsHistory
        <3>2. k # 0
            <4> SUFFICES ASSUME k = 0
                         PROVE  p.history = <<>>
                BY <1>5
            <4> QED
                BY <3>1 DEF IsSeq
        <3> QED
            BY <3>1, <3>2 DEF IsSeq
    <2>3. IsEntry(p.history[k])
        BY <2>2 DEF IsParse, IsHistory
    <2>4. IsEntry(e) /\ e.move = p.history[k].move /\ e.challenged = p.history[k].challenged
        BY <2>3 DEF IsEntry
    <2>5. g = Put(p.history, k, e)
        BY DEF Put
    <2> HIDE DEF e, g, k
    <2>6. /\ IsHistory(g) /\ Len(g) = Len(p.history)
          /\ \A i \in 1..Len(p.history) : /\ g[i].move = p.history[i].move
                                          /\ g[i].challenged = p.history[i].challenged
        <3>1. IsHistory(p.history)
            BY DEF IsParse
        <3> QED
            BY <2>2, <2>4, <2>5, <3>1, EntryChanges
    <2>7. q = [x \in ParseNames |-> IF x = "history" THEN g ELSE p[x]]
        BY <1>1, <2>1
    <2> HIDE DEF q
    <2>8. ParseFields(q)
        BY <2>7 DEF ParseFields, ParseNames
    <2> QED
        BY <2>6, <2>7, <2>8 DEF PragmaRead, IsParse, ParseNames, q
<1>6. CASE /\ l.kind \notin {"player", "rack", "incomplete"}
           /\ ~(l.kind = "note" /\ p.history # <<>>)
    <2>1. q = p
        BY <1>6 DEF ParsePragma
    <2> QED
        BY <2>1 DEF PragmaRead
<1> QED
    BY <1>2, <1>3, <1>4, <1>5, <1>6

-----------------------------------------------------------------------------
(* The game that the lines read so far make: seen[i] is what the parser had *)
(* before the i-th record, seen[i + 1] what it had after it.                *)

IsShot(a, i) ==
    /\ BoardOK(a.board) /\ a.scores \in [Players -> Int] /\ a.players \subseteq Players
    /\ a.last # None => a.last \in LastPlacement /\ a.last.index \in 1..(i - 1)

LastDecision(h, n, d) ==
    d \in 1..n /\ IsDecision(h[d]) /\ \A j \in (d + 1)..n : ~IsDecision(h[j])

StorySeen(p, seen) ==
    /\ IsSeq(seen) /\ Len(seen) = Len(p.history) + 1
    /\ \A i \in 1..Len(seen) : IsShot(seen[i], i) /\ seen[i].players \subseteq p.players
    /\ \A i, j \in 1..Len(seen) : i <= j => seen[i].players \subseteq seen[j].players

StoryEnds(p, seen) ==
    /\ seen[1].board = EmptyBoard /\ seen[1].scores = [q \in Players |-> 0]
    /\ seen[1].last = None
    /\ seen[Len(seen)].board = p.board /\ seen[Len(seen)].scores = p.scores
    /\ seen[Len(seen)].last = p.last

StoryRecords(p, seen) ==
    \A i \in 1..Len(p.history) :
        Recorded(seen[i], i, p.history[i].move, PlayerBefore(p.history, i), seen[i + 1])

StoryChallenges(p, seen) ==
    \A i \in 1..Len(p.history) :
        p.history[i].challenged =>
            /\ i + 1 \in 1..Len(p.history) /\ p.history[i + 1].move.kind = "phony"
            /\ seen[i + 1].last # None /\ seen[i + 1].last.index = i

StoryTurn(p, seen) ==
    \/ p.current = None /\ \A i \in 1..Len(p.history) : ~IsDecision(p.history[i])
    \/ \E d \in 1..Len(p.history) :
           /\ LastDecision(p.history, Len(p.history), d)
           /\ p.current = NextPlayer(seen[d + 1].players, p.history[d].move.player)

Story(p, seen) ==
    /\ IsParse(p) /\ StorySeen(p, seen) /\ StoryEnds(p, seen) /\ StoryRecords(p, seen)
    /\ StoryChallenges(p, seen) /\ StoryTurn(p, seen)

LEMMA StoryInit == Story(ParseInit, <<Shot(ParseInit)>>)
<1> DEFINE p == ParseInit
           seen == <<Shot(ParseInit)>>
<1>1. /\ p.players = {} /\ p.history = <<>> /\ p.board = EmptyBoard
      /\ p.scores = [q \in Players |-> 0] /\ p.current = None /\ p.last = None
      /\ p.racks = [q \in Players |-> 0] /\ p.incomplete = 0 /\ p.failed \in BOOLEAN
      /\ ParseFields(p)
    BY DEF ParseInit, ParseFields
<1>2. /\ Len(seen) = 1 /\ IsSeq(seen)
      /\ seen[1].board = EmptyBoard /\ seen[1].scores = [q \in Players |-> 0]
      /\ seen[1].players = {} /\ seen[1].last = None
    BY <1>1 DEF Shot, IsSeq
<1> HIDE DEF p, seen
<1>3. Len(p.history) = 0 /\ IsSeq(p.history) /\ IsHistory(p.history)
    BY <1>1 DEF IsSeq, IsHistory
<1>4. IsParse(p)
    <2>1. 0 \in Rack
        BY DEF Rack
    <2> QED
        BY <1>1, <1>3, <2>1, EmptyBoardOK DEF IsParse
<1>5. StorySeen(p, seen)
    BY <1>2, <1>3, EmptyBoardOK DEF StorySeen, IsShot
<1>6. StoryEnds(p, seen)
    BY <1>1, <1>2 DEF StoryEnds
<1> QED
    BY <1>1, <1>3, <1>4, <1>5, <1>6
       DEF Story, StoryRecords, StoryChallenges, StoryTurn, p, seen

(* Nothing of a story changes when a line that is no record is read.        *)
LEMMA StoryPragma ==
    ASSUME NEW p, NEW seen, Story(p, seen), NEW q, PragmaRead(p, q)
    PROVE  Story(q, seen)
<1>1. /\ Len(q.history) = Len(p.history) /\ IsHistory(p.history) /\ Len(p.history) \in Nat
      /\ \A i \in 1..Len(p.history) : q.history[i].move = p.history[i].move
      /\ \A i \in 1..Len(p.history) : q.history[i].challenged = p.history[i].challenged
      /\ \A i \in 1..Len(p.history) : IsDecision(q.history[i]) <=> IsDecision(p.history[i])
    BY DEF PragmaRead, Story, IsParse, IsHistory, IsSeq, IsDecision
<1>2. StorySeen(q, seen) /\ StoryEnds(q, seen)
    BY DEF Story, StorySeen, StoryEnds, PragmaRead
<1>3. StoryRecords(q, seen)
    <2> SUFFICES ASSUME NEW i \in 1..Len(p.history)
                 PROVE  Recorded(seen[i], i, p.history[i].move, PlayerBefore(q.history, i),
                                 seen[i + 1])
        BY <1>1 DEF StoryRecords
    <2>1. Recorded(seen[i], i, p.history[i].move, PlayerBefore(p.history, i), seen[i + 1])
        BY DEF Story, StoryRecords
    <2>2. CASE i = 1
        <3>1. seen[1].last = None
            BY DEF Story, StoryEnds
        <3> QED
            BY <2>1, <2>2, <3>1 DEF Recorded
    <2>3. CASE i # 1
        <3>1. i - 1 \in 1..Len(p.history)
            BY <1>1, <2>3
        <3>2. PlayerBefore(q.history, i) = PlayerBefore(p.history, i)
            BY <1>1, <3>1 DEF PlayerBefore
        <3> QED
            BY <2>1, <3>2
    <2> QED
        BY <2>2, <2>3
<1>4. StoryChallenges(q, seen)
    <2> SUFFICES ASSUME NEW i \in 1..Len(p.history), p.history[i].challenged
                 PROVE  /\ i + 1 \in 1..Len(p.history) /\ q.history[i + 1].move.kind = "phony"
                        /\ seen[i + 1].last # None /\ seen[i + 1].last.index = i
        BY <1>1 DEF StoryChallenges
    <2> QED
        BY <1>1 DEF Story, StoryChallenges
<1>5. StoryTurn(q, seen)
    <2>1. q.current = p.current
        BY DEF PragmaRead
    <2>2. \A d : LastDecision(p.history, Len(p.history), d)
                     => LastDecision(q.history, Len(p.history), d)
        BY <1>1 DEF LastDecision
    <2>3. StoryTurn(p, seen)
        BY DEF Story
    <2> QED
        BY <1>1, <2>1, <2>2, <2>3 DEF StoryTurn
<1> QED
    BY <1>2, <1>3, <1>4, <1>5 DEF Story, PragmaRead

LEMMA StoryMove ==
    ASSUME NEW p, NEW seen, Story(p, seen), NEW m, NEW q, MoveRead(p, m, q)
    PROVE  Story(q, Append(seen, Shot(q)))
<1> DEFINE n == Len(p.history) + 1
           next == Append(seen, Shot(q))
<1>1. /\ Len(p.history) \in Nat /\ Len(q.history) = n
      /\ \A i \in 1..Len(p.history) : q.history[i].move = p.history[i].move
      /\ \A i \in 1..Len(p.history) : IsDecision(q.history[i]) <=> IsDecision(p.history[i])
      /\ q.history[n].move = m /\ ~q.history[n].challenged
      /\ IsParse(p) /\ IsParse(q)
    BY DEF MoveRead, Story, IsParse, IsHistory, IsSeq, IsDecision
<1>2. /\ IsSeq(next) /\ Len(next) = n + 1
      /\ \A i \in 1..n : next[i] = seen[i]
      /\ next[n + 1] = Shot(q)
      /\ Len(seen) = n
    BY AppendIs DEF Story, StorySeen
<1> HIDE DEF next
<1>3. /\ Shot(q).board = q.board /\ Shot(q).scores = q.scores
      /\ Shot(q).players = p.players /\ Shot(q).last = q.last
      /\ q.players = p.players
    BY DEF Shot, MoveRead
<1>4. StorySeen(q, next)
    <2>1. IsShot(Shot(q), n + 1)
        <3>1. n + 1 - 1 = n
            BY <1>1
        <3> QED
            BY <1>1, <1>3, <3>1 DEF IsShot, IsParse
    <2>2. \A i \in 1..n : IsShot(seen[i], i) /\ seen[i].players \subseteq p.players
        BY <1>2 DEF Story, StorySeen
    <2>3. \A i, j \in 1..n : i <= j => seen[i].players \subseteq seen[j].players
        BY <1>2 DEF Story, StorySeen
    <2>4. \A i \in 1..Len(next) : i \in 1..n \/ i = n + 1
        BY <1>1, <1>2
    <2>5. \A i \in 1..Len(next) : IsShot(next[i], i) /\ next[i].players \subseteq p.players
        BY <1>2, <1>3, <2>1, <2>2, <2>4
    <2>6. ASSUME NEW i \in 1..Len(next), NEW j \in 1..Len(next), i <= j
          PROVE  next[i].players \subseteq next[j].players
        <3>1. CASE j = n + 1
            BY <1>2, <1>3, <2>5, <3>1
        <3>2. CASE j # n + 1
            <4>1. i \in 1..n /\ j \in 1..n
                BY <1>1, <2>4, <2>6, <3>2
            <4> QED
                BY <1>2, <2>3, <2>6, <4>1
        <3> QED
            BY <3>1, <3>2
    <2> QED
        BY <1>1, <1>2, <1>3, <2>5, <2>6 DEF StorySeen
<1>5. StoryEnds(q, next)
    <2>1. 1 \in 1..n
        BY <1>1
    <2> QED
        BY <1>2, <1>3, <2>1 DEF Story, StoryEnds
<1>6. StoryRecords(q, next)
    <2> SUFFICES ASSUME NEW i \in 1..n
                 PROVE  Recorded(next[i], i, q.history[i].move, PlayerBefore(q.history, i),
                                 next[i + 1])
        BY <1>1 DEF StoryRecords
    <2>1. CASE i = n
        <3>1. /\ next[n].board = Shot(p).board /\ next[n].scores = Shot(p).scores
              /\ next[n].last = Shot(p).last
            BY <1>1, <1>2 DEF Story, StoryEnds, Shot
        <3>2. Recorded(Shot(p), n, m, PlayerBefore(q.history, n), Shot(q))
            BY <1>1 DEF MoveRead
        <3> QED
            BY <1>1, <1>2, <2>1, <3>1, <3>2 DEF Recorded
    <2>2. CASE i # n
        <3>1. i \in 1..Len(p.history) /\ i + 1 \in 1..n
            BY <1>1, <2>2
        <3>2. Recorded(next[i], i, q.history[i].move, PlayerBefore(p.history, i), next[i + 1])
            BY <1>1, <1>2, <3>1 DEF Story, StoryRecords
        <3>3. CASE i = 1
            <4>1. next[1].last = None
                BY <1>5 DEF StoryEnds
            <4> QED
                BY <3>2, <3>3, <4>1 DEF Recorded
        <3>4. CASE i # 1
            <4>1. i - 1 \in 1..Len(p.history)
                BY <1>1, <3>1, <3>4
            <4>2. PlayerBefore(q.history, i) = PlayerBefore(p.history, i)
                BY <1>1, <4>1 DEF PlayerBefore
            <4> QED
                BY <3>2, <4>2
        <3> QED
            BY <3>3, <3>4
    <2> QED
        BY <2>1, <2>2
<1>7. StoryChallenges(q, next)
    <2> SUFFICES ASSUME NEW i \in 1..n, q.history[i].challenged
                 PROVE  /\ i + 1 \in 1..n /\ q.history[i + 1].move.kind = "phony"
                        /\ next[i + 1].last # None /\ next[i + 1].last.index = i
        BY <1>1 DEF StoryChallenges
    <2>1. i \in 1..Len(p.history) /\ i + 1 \in 1..n
        <3>1. i # n
            BY <1>1
        <3> QED
            BY <1>1, <3>1
    <2>2. CASE p.history[i].challenged
        <3>1. /\ i + 1 \in 1..Len(p.history) /\ p.history[i + 1].move.kind = "phony"
              /\ seen[i + 1].last # None /\ seen[i + 1].last.index = i
            BY <2>1, <2>2 DEF Story, StoryChallenges
        <3> QED
            BY <1>1, <1>2, <2>1, <3>1
    <2>3. CASE /\ i = Len(p.history) /\ m.kind = "phony"
               /\ p.last # None /\ p.last.index = i
        <3>1. next[n].last = p.last
            BY <1>1, <1>2 DEF Story, StoryEnds
        <3> QED
            BY <1>1, <2>1, <2>3, <3>1
    <2> QED
        BY <2>1, <2>2, <2>3 DEF MoveRead
<1>8. StoryTurn(q, next)
    <2>1. CASE m.kind \in DecisionKinds
        <3>1. q.current = NextPlayer(next[n + 1].players, q.history[n].move.player)
            BY <1>1, <1>2, <1>3, <2>1 DEF MoveRead
        <3>2. LastDecision(q.history, n, n) /\ n \in 1..n
            BY <1>1, <2>1 DEF LastDecision, IsDecision
        <3> QED
            BY <1>1, <3>1, <3>2 DEF StoryTurn
    <2>2. CASE m.kind \notin DecisionKinds
        <3>1. q.current = p.current /\ ~IsDecision(q.history[n])
            BY <1>1, <2>2 DEF MoveRead, IsDecision
        <3>2. \A i \in 1..n : i \in 1..Len(p.history) \/ i = n
            BY <1>1
        <3>3. CASE p.current = None /\ \A i \in 1..Len(p.history) : ~IsDecision(p.history[i])
            BY <1>1, <3>1, <3>2, <3>3 DEF StoryTurn
        <3>4. CASE \E d \in 1..Len(p.history) :
                     /\ LastDecision(p.history, Len(p.history), d)
                     /\ p.current = NextPlayer(seen[d + 1].players, p.history[d].move.player)
            <4>1. PICK d \in 1..Len(p.history) :
                     /\ LastDecision(p.history, Len(p.history), d)
                     /\ p.current = NextPlayer(seen[d + 1].players, p.history[d].move.player)
                BY <3>4
            <4>2. d \in 1..n /\ d + 1 \in 1..n
                BY <1>1
            <4>3. LastDecision(q.history, n, d)
                <5>1. \A j \in (d + 1)..n : j \in (d + 1)..Len(p.history) \/ j = n
                    BY <1>1
                <5>2. \A j \in (d + 1)..Len(p.history) : j \in 1..Len(p.history)
                    BY <1>1
                <5> QED
                    BY <1>1, <3>1, <4>1, <4>2, <5>1, <5>2 DEF LastDecision
            <4>4. q.current = NextPlayer(next[d + 1].players, q.history[d].move.player)
                BY <1>1, <1>2, <3>1, <4>1, <4>2
            <4> QED
                BY <1>1, <4>2, <4>3, <4>4 DEF StoryTurn
        <3> QED
            BY <3>3, <3>4 DEF Story, StoryTurn
    <2> QED
        BY <2>1, <2>2
<1> QED
    BY <1>1, <1>4, <1>5, <1>6, <1>7, <1>8 DEF Story, next

LEMMA StoryThrow ==
    ASSUME NEW p, NEW seen, Story(p, seen), NEW q, q = [p EXCEPT !.failed = TRUE]
    PROVE  Story(q, seen) /\ q.failed
<1>1. PICK t \in BOOLEAN : t = TRUE
    OBVIOUS
<1>2. q = [p EXCEPT !.failed = t]
    BY <1>1, Zenon
<1>3. p = [x \in ParseNames |-> p[x]] /\ IsParse(p)
    BY ParseRecord DEF Story, IsParse
<1>4. q = [x \in ParseNames |-> IF x = "failed" THEN t ELSE p[x]]
    BY <1>2, <1>3
<1>5. /\ q.players = p.players /\ q.history = p.history /\ q.board = p.board
      /\ q.scores = p.scores /\ q.current = p.current /\ q.last = p.last
      /\ q.racks = p.racks /\ q.incomplete = p.incomplete /\ q.failed = t
      /\ q = [x \in ParseNames |-> q[x]]
    BY ONLY <1>4 DEF ParseNames
<1>6. IsParse(q)
    BY ONLY <1>1, <1>3, <1>5, ParseRecord DEF IsParse
<1>7. Story(q, seen)
    <2>1. Story(p, seen)
        OBVIOUS
    <2> QED
        BY ONLY <1>5, <1>6, <2>1 DEF Story, StorySeen, StoryEnds, StoryRecords, StoryChallenges,
                                StoryTurn
<1> QED
    BY ONLY <1>1, <1>5, <1>7

(* What a line adds to seen. *)
SeenAfter(p, seen, l) ==
    IF l.kind \in MoveKinds /\ ~LineThrows(p, l) THEN Append(seen, Shot(ParseLine(p, l)))
    ELSE seen

LEMMA StoryLine ==
    ASSUME NEW p, NEW seen, Story(p, seen), ~p.failed, NEW l, WellFormed(l)
    PROVE  /\ Story(ParseLine(p, l), SeenAfter(p, seen, l))
           /\ ParseLine(p, l).failed <=> LineThrows(p, l)
           /\ LineThrows(p, l) => ParseLine(p, l) = [p EXCEPT !.failed = TRUE]
<1>1. IsParse(p)
    BY DEF Story
<1>2. CASE LineThrows(p, l)
    <2>1. ParseLine(p, l) = [p EXCEPT !.failed = TRUE] /\ SeenAfter(p, seen, l) = seen
        BY <1>2 DEF ParseLine, SeenAfter
    <2> QED
        BY <1>2, <2>1, StoryThrow
<1>3. CASE ~LineThrows(p, l) /\ l.kind \in MoveKinds
    <2>1. ParseLine(p, l) = ParseMove(p, l) /\ ~MoveThrows(p, l)
        BY <1>3 DEF ParseLine, LineThrows
    <2>2. MoveRead(p, l, ParseLine(p, l))
        BY <1>1, <1>3, <2>1, ReadOneMove
    <2>3. SeenAfter(p, seen, l) = Append(seen, Shot(ParseLine(p, l)))
        BY <1>3 DEF SeenAfter
    <2>4. ParseLine(p, l).failed = p.failed
        BY <2>2 DEF MoveRead
    <2> QED
        BY <1>3, <2>2, <2>3, <2>4, StoryMove
<1>4. CASE ~LineThrows(p, l) /\ l.kind \notin MoveKinds
    <2>1. ParseLine(p, l) = ParsePragma(p, l) /\ ~PragmaThrows(p, l)
        BY <1>4 DEF ParseLine, LineThrows
    <2>2. PragmaRead(p, ParseLine(p, l))
        BY <1>1, <2>1, ReadOnePragma
    <2>3. SeenAfter(p, seen, l) = seen
        BY <1>4 DEF SeenAfter
    <2>4. ParseLine(p, l).failed = p.failed
        BY <2>2 DEF PragmaRead
    <2> QED
        BY <1>4, <2>2, <2>3, <2>4, StoryPragma
<1> QED
    BY <1>2, <1>3, <1>4

-----------------------------------------------------------------------------
(* replayGcgHistory follows the story *)

FrameNames == {"at", "board", "scores", "current", "places", "scoreless", "last", "placed"}

IsFrame(f) ==
    /\ f = [x \in FrameNames |-> f[x]]
    /\ f.at \in Nat /\ BoardOK(f.board) /\ f.scores \in [Players -> Int]
    /\ f.current \in Players \cup {None} /\ f.places \in Nat /\ f.scoreless \in Nat
    /\ f.last # None => f.last \in LastPlaced

(* The frame f stands where the parser stood after its f.at-th record. *)
SameGame(f, h, a) ==
    /\ f.board = a.board /\ f.scores = a.scores
    /\ f.last # None <=> a.last # None
    /\ f.last # None =>
           /\ f.last.index = a.last.index /\ f.last.squares = a.last.squares
           /\ f.last.score = a.last.score /\ f.last.player = h[a.last.index].move.player

PlacesTo(h, n) == {i \in 1..n : h[i].move.kind = "place"}
ScorelessTo(h, n) ==
    {i \in 1..n : IsScoreless(h[i]) /\ \A j \in 1..n : h[j].move.kind = "place" => j < i}

TurnAt(f, players, h) ==
    \/ \A i \in 1..f.at : ~IsDecision(h[i])
    \/ \E d \in 1..f.at : /\ LastDecision(h, f.at, d)
                          /\ f.current = NextPlayer(players, h[d].move.player)

Follows(f, p, seen) ==
    /\ IsFrame(f) /\ f.at <= Len(p.history)
    /\ SameGame(f, p.history, seen[f.at + 1])
    /\ f.places = Cardinality(PlacesTo(p.history, f.at))
    /\ f.scoreless = Cardinality(ScorelessTo(p.history, f.at))
    /\ TurnAt(f, p.players, p.history)
    /\ p.players # {} => f.current \in p.players

LEMMA FollowsInit ==
    ASSUME NEW p, NEW seen, Story(p, seen)
    PROVE  Follows(FrameInit(p.players), p, seen)
<1> DEFINE f == FrameInit(p.players)
<1>1. /\ f.at = 0 /\ f.board = EmptyBoard /\ f.scores = [q \in Players |-> 0]
      /\ f.current = IF p.players = {} THEN None ELSE Min(p.players)
      /\ f.places = 0 /\ f.scoreless = 0 /\ f.last = None
      /\ f = [x \in FrameNames |-> f[x]]
    BY DEF FrameInit, FrameNames
<1> HIDE DEF f
<1>2. p.players \subseteq Players /\ Len(p.history) \in Nat
    BY DEF Story, IsParse, IsHistory, IsSeq
<1>3. f.current \in Players \cup {None} /\ (p.players # {} => f.current \in p.players)
    <2>1. p.players \subseteq Nat
        BY <1>2 DEF Players
    <2>2. p.players # {} => Min(p.players) \in p.players
        BY <2>1, MinNat
    <2> QED
        BY <1>1, <1>2, <2>2
<1>4. IsFrame(f)
    BY <1>1, <1>3, EmptyBoardOK DEF IsFrame
<1>5. SameGame(f, p.history, seen[1])
    BY <1>1 DEF SameGame, Story, StoryEnds
<1>6. PlacesTo(p.history, 0) = {} /\ ScorelessTo(p.history, 0) = {}
    BY DEF PlacesTo, ScorelessTo
<1>7. TurnAt(f, p.players, p.history)
    BY <1>1 DEF TurnAt
<1>8. Cardinality({}) = 0 /\ 0 + 1 = 1 /\ 0 <= Len(p.history)
    BY <1>2, FS_EmptySet
<1>9. /\ f.at <= Len(p.history)
      /\ SameGame(f, p.history, seen[f.at + 1])
      /\ f.places = Cardinality(PlacesTo(p.history, f.at))
      /\ f.scoreless = Cardinality(ScorelessTo(p.history, f.at))
    BY <1>1, <1>5, <1>6, <1>8
<1>10. Follows(f, p, seen)
    BY <1>3, <1>4, <1>7, <1>9 DEF Follows
<1> QED
    BY <1>10 DEF f

(* What a step of the replay counts, and whose turn it makes. *)
Counts(players, f, e, g) ==
    /\ g.at = f.at + 1
    /\ g.places = IF e.move.kind = "place" THEN f.places + 1 ELSE f.places
    /\ g.scoreless = IF e.move.kind = "place" THEN 0
                     ELSE IF IsScoreless(e) THEN f.scoreless + 1 ELSE f.scoreless
    /\ g.current = IF IsDecision(e) THEN NextPlayer(players, e.move.player) ELSE f.current

LEMMA PlaceFollows ==
    ASSUME NEW f, IsFrame(f), NEW h, NEW a, NEW b, SameGame(f, h, a), IsShot(a, f.at + 1),
           NEW players \in SUBSET Players, NEW e, e = h[f.at + 1], IsEntry(e),
           e.move.player \in players,
           Recorded(a, f.at + 1, e.move, PlayerBefore(h, f.at + 1), b),
           e.move.kind = "place",
           NEW g, g = FramePlace(players, f, e.move)
    PROVE  ~FrameThrows(f, e) /\ IsFrame(g) /\ SameGame(g, h, b) /\ Counts(players, f, e, g)
<1> DEFINE m == e.move
           c == ComputedScore(f.board, m)
           new == NewSquares(f.board, m)
           n == f.at + 1
           l == [index |-> n, squares |-> new, player |-> m.player, score |-> c]
<1>1. /\ f = [x \in FrameNames |-> f[x]] /\ f.at \in Nat /\ n \in Nat
      /\ f.board = a.board /\ f.scores = a.scores /\ BoardOK(f.board)
      /\ f.scores \in [Players -> Int] /\ f.places \in Nat
    BY DEF IsFrame, SameGame
<1>2. /\ ~PlaceThrows(f.board, m) /\ b.board = Placed(f.board, m)
      /\ b.scores = [f.scores EXCEPT ![m.player] = @ + c]
      /\ b.last = [index |-> n, squares |-> new, score |-> c]
    BY <1>1 DEF Recorded
<1>3. m.tiles \in Seq(Tile \cup {Dot}) /\ m.player \in players /\ m.player \in Players
    BY DEF IsEntry, WellFormed
<1>4. BoardOK(b.board) /\ new \in SUBSET Square /\ c \in Int
    <2>1. BoardOK(f.board) /\ m.tiles \in Seq(Tile \cup {Dot}) /\ ~PlaceThrows(f.board, m)
        BY <1>1, <1>2, <1>3
    <2>2. /\ BoardOK(Placed(f.board, m)) /\ NewSquares(f.board, m) \in SUBSET Square
          /\ ComputedScore(f.board, m) \in Int
        <3> HIDE DEF m
        <3> QED
            BY ONLY <2>1, PlacedBoard
    <2> QED
        BY <1>2, <2>2
<1>5. /\ g = [x \in FrameNames |-> g[x]]
      /\ g.at = n /\ g.board = b.board /\ g.scores = b.scores
      /\ g.current = NextPlayer(players, m.player) /\ g.places = f.places + 1
      /\ g.scoreless = 0 /\ g.last = l
    <2> DEFINE next == NextPlayer(players, m.player)
               more == f.places + 1
    <2>1. g = [f EXCEPT !.at = n, !.board = b.board, !.scores = b.scores, !.current = next,
                        !.places = more, !.scoreless = 0, !.last = l, !.placed = new]
        <3>1. b.scores = [f.scores EXCEPT ![m.player] = f.scores[m.player] + c]
            BY <1>2
        <3>2. g = [f EXCEPT !.at = n, !.board = Placed(f.board, m),
                        !.scores = [f.scores EXCEPT ![m.player] = f.scores[m.player] + c],
                        !.places = more, !.scoreless = 0, !.current = next, !.placed = new,
                        !.last = l]
            BY <1>1 DEF FramePlace, FrameNames
        <3> HIDE DEF l, more, next, n, new, c
        <3> QED
            BY <1>1, <1>2, <3>1, <3>2 DEF FrameNames
    <2> HIDE DEF l, more, next, n, new, c
    <2>2. /\ g = [x \in FrameNames |-> g[x]]
          /\ g.at = n /\ g.board = b.board /\ g.scores = b.scores
          /\ g.current = next /\ g.places = more /\ g.scoreless = 0 /\ g.last = l
        BY ONLY <1>1, <2>1 DEF FrameNames
    <2> QED
        BY <2>2 DEF next, more
<1>6. l \in LastPlaced /\ l # None /\ b.last \in LastPlacement /\ b.last # None
    <2>1. l \in LastPlaced /\ b.last \in LastPlacement
        <3> HIDE DEF m, n, c, new
        <3> QED
            BY ONLY <1>1, <1>2, <1>3, <1>4 DEF LastPlaced, LastPlacement, l
    <2> QED
        BY <2>1, NoneAssumption
<1>7. l.index = n /\ l.squares = new /\ l.player = m.player /\ l.score = c
    OBVIOUS
<1>8. b.last.index = n /\ b.last.squares = new /\ b.last.score = c
    BY <1>2
<1>9. NextPlayer(players, m.player) \in players
    BY <1>3, NextPlayerTyped
<1>10. g.scores \in [Players -> Int]
    <2>1. f.scores[m.player] \in Int
        BY <1>1, <1>3
    <2>2. f.scores[m.player] + c \in Int
        <3> HIDE DEF c
        <3> QED
            BY <1>4, <2>1
    <2> HIDE DEF c, m
    <2> QED
        BY ONLY <1>1, <1>2, <1>5, <2>2
<1> HIDE DEF l, new, c
<1>11. IsFrame(g)
    <2>1. g.current \in Players \cup {None} /\ g.places \in Nat /\ 0 \in Nat
        BY <1>1, <1>5, <1>9
    <2> HIDE DEF m, n
    <2> QED
        BY ONLY <1>1, <1>4, <1>5, <1>6, <1>10, <2>1 DEF IsFrame
<1>12. SameGame(g, h, b)
    BY <1>5, <1>6, <1>7, <1>8 DEF SameGame
<1>13. Counts(players, f, e, g)
    BY <1>5 DEF Counts, IsDecision, DecisionKinds
<1> QED
    BY <1>2, <1>11, <1>12, <1>13 DEF FrameThrows

(* The records that are no placements: the frame's rotation and counts, and *)
(* the board and the scores it has afterwards.                              *)
LEMMA OtherFollows ==
    ASSUME NEW f, IsFrame(f), NEW h, NEW b,
           NEW players \in SUBSET Players, NEW e, e.move.kind # "place",
           NEW g, g = [x \in FrameNames |-> g[x]],
           g.last = None, b.last = None, g.board = b.board, g.scores = b.scores,
           BoardOK(g.board), g.scores \in [Players -> Int],
           Counts(players, f, e, g), IsDecision(e) => e.move.player \in players
    PROVE  ~FrameThrows(f, e) /\ IsFrame(g) /\ SameGame(g, h, b)
<1>1. /\ g.at = f.at + 1 /\ g.places = f.places
      /\ g.scoreless \in {f.scoreless, f.scoreless + 1}
      /\ g.current \in {f.current, NextPlayer(players, e.move.player)}
      /\ g.current # f.current => g.current \in players
    BY NextPlayerTyped DEF Counts
<1>2. g.at \in Nat /\ g.places \in Nat /\ g.scoreless \in Nat
      /\ g.current \in Players \cup {None}
    BY <1>1 DEF IsFrame
<1>3. IsFrame(g)
    BY <1>2 DEF IsFrame
<1>4. SameGame(g, h, b)
    BY DEF SameGame
<1> QED
    BY <1>3, <1>4 DEF FrameThrows

LEMMA PassFollows ==
    ASSUME NEW f, IsFrame(f), NEW h, NEW a, NEW b, SameGame(f, h, a),
           NEW players \in SUBSET Players, NEW e, IsEntry(e),
           e.move.player \in players, NEW n, NEW q, Recorded(a, n, e.move, q, b),
           IsScoreless(e),
           NEW g, g = FramePassOrExchange(players, f, e.move)
    PROVE  ~FrameThrows(f, e) /\ IsFrame(g) /\ SameGame(g, h, b) /\ Counts(players, f, e, g)
<1> DEFINE next == NextPlayer(players, e.move.player)
           more == f.scoreless + 1
           now == f.at + 1
<1>1. /\ f = [x \in FrameNames |-> f[x]] /\ BoardOK(f.board) /\ f.scores \in [Players -> Int]
      /\ b.board = f.board /\ b.scores = f.scores /\ b.last = None
    BY DEF IsFrame, SameGame, Recorded, IsScoreless
<1>2. g = [f EXCEPT !.at = now, !.current = next, !.scoreless = more, !.last = None,
                    !.placed = {}]
    BY <1>1 DEF FramePassOrExchange, FrameNames
<1> HIDE DEF next, more, now
<1>3. /\ g = [x \in FrameNames |-> g[x]]
      /\ g.at = now /\ g.board = f.board /\ g.scores = f.scores /\ g.current = next
      /\ g.places = f.places /\ g.scoreless = more /\ g.last = None
    BY ONLY <1>1, <1>2 DEF FrameNames
<1>4. Counts(players, f, e, g)
    BY <1>3 DEF Counts, IsScoreless, IsDecision, DecisionKinds, next, more, now
<1> QED
    BY <1>1, <1>3, <1>4, OtherFollows DEF IsScoreless

LEMMA BonusFollows ==
    ASSUME NEW f, IsFrame(f), NEW h, NEW a, NEW b, SameGame(f, h, a),
           NEW players \in SUBSET Players, NEW e, IsEntry(e),
           e.move.player \in players, NEW n, NEW q, Recorded(a, n, e.move, q, b),
           e.move.kind \in {"adjustment", "time", "end"},
           NEW g, g = FrameBonus(f, e.move)
    PROVE  ~FrameThrows(f, e) /\ IsFrame(g) /\ SameGame(g, h, b) /\ Counts(players, f, e, g)
<1> DEFINE now == f.at + 1
           d == ScoreDelta(e.move)
           m == e.move
<1>1. /\ f = [x \in FrameNames |-> f[x]] /\ BoardOK(f.board) /\ f.scores \in [Players -> Int]
      /\ b.board = f.board /\ b.last = None
      /\ b.scores = [f.scores EXCEPT ![m.player] = @ + d]
    BY DEF IsFrame, SameGame, Recorded
<1>2. d \in Int /\ m.player \in Players
    BY ScoreDeltaInt DEF IsEntry
<1> HIDE DEF d, m
<1>3. b.scores \in [Players -> Int]
    BY ONLY <1>1, <1>2
<1>4. g = [f EXCEPT !.at = now, !.scores = b.scores, !.last = None, !.placed = {}]
    <2>1. b.scores = [f.scores EXCEPT ![m.player] = f.scores[m.player] + d]
        BY <1>1
    <2> QED
        BY <1>1, <2>1 DEF FrameBonus, FrameNames, m, d
<1> HIDE DEF now
<1>5. /\ g = [x \in FrameNames |-> g[x]]
      /\ g.at = now /\ g.board = f.board /\ g.scores = b.scores /\ g.current = f.current
      /\ g.places = f.places /\ g.scoreless = f.scoreless /\ g.last = None
    BY ONLY <1>1, <1>4 DEF FrameNames
<1>6. Counts(players, f, e, g)
    BY <1>5 DEF Counts, IsScoreless, IsDecision, DecisionKinds, now
<1>7. ~IsDecision(e)
    BY DEF IsDecision, DecisionKinds
<1> QED
    BY <1>1, <1>3, <1>5, <1>6, <1>7, OtherFollows

LEMMA PhonyFollows ==
    ASSUME NEW f, IsFrame(f), NEW h, NEW a, NEW b, SameGame(f, h, a), IsShot(a, f.at + 1),
           NEW players \in SUBSET Players, NEW e, IsEntry(e),
           e.move.player \in players,
           Recorded(a, f.at + 1, e.move, PlayerBefore(h, f.at + 1), b),
           e.move.kind = "phony",
           NEW g, g = FramePhony(f)
    PROVE  ~FrameThrows(f, e) /\ IsFrame(g) /\ SameGame(g, h, b) /\ Counts(players, f, e, g)
<1> DEFINE now == f.at + 1
<1>1. /\ f = [x \in FrameNames |-> f[x]] /\ BoardOK(f.board) /\ f.scores \in [Players -> Int]
      /\ a.board = f.board /\ a.scores = f.scores /\ b.last = None /\ f.at \in Nat
      /\ now - 1 = f.at
    BY DEF IsFrame, SameGame, Recorded
<1>2. ~IsDecision(e)
    BY DEF IsDecision, DecisionKinds
<1>3. CASE f.last # None /\ f.last.index = f.at
    <2> DEFINE w == f.last.player
    <2>1. /\ f.last \in LastPlaced /\ a.last # None /\ a.last.index = f.at
          /\ f.last.squares = a.last.squares /\ f.last.score = a.last.score
          /\ w = PlayerBefore(h, now)
        BY <1>1, <1>3 DEF IsFrame, SameGame, PlayerBefore
    <2>2. /\ b.board = Without(f.board, f.last.squares)
          /\ b.scores = [f.scores EXCEPT ![w] = @ - f.last.score]
        <3> HIDE DEF w
        <3> QED
            BY <1>1, <2>1 DEF Recorded
    <2>3. w \in Players /\ f.last.score \in Int
        BY <2>1 DEF LastPlaced
    <2> HIDE DEF w
    <2>4. b.scores \in [Players -> Int]
        BY ONLY <1>1, <2>2, <2>3
    <2>5. BoardOK(b.board)
        BY <1>1, <2>2, WithoutBoard
    <2>6. g = [f EXCEPT !.at = now, !.board = b.board, !.scores = b.scores, !.last = None,
                        !.placed = {}]
        <3>1. b.scores = [f.scores EXCEPT ![w] = f.scores[w] - f.last.score]
            BY <2>2
        <3> QED
            BY <1>1, <1>3, <2>2, <3>1 DEF FramePhony, FrameNames, Refund, w
    <2> HIDE DEF now
    <2>7. /\ g = [x \in FrameNames |-> g[x]]
          /\ g.at = now /\ g.board = b.board /\ g.scores = b.scores /\ g.current = f.current
          /\ g.places = f.places /\ g.scoreless = f.scoreless /\ g.last = None
        BY ONLY <1>1, <2>6 DEF FrameNames
    <2>8. Counts(players, f, e, g)
        BY <1>2, <2>7 DEF Counts, IsScoreless, now
    <2> QED
        BY <1>1, <1>2, <2>4, <2>5, <2>7, <2>8, OtherFollows
<1>4. CASE ~(f.last # None /\ f.last.index = f.at)
    <2>1. ~(a.last # None /\ a.last.index = f.at)
        BY <1>4 DEF SameGame
    <2>2. b.board = f.board /\ b.scores = f.scores
        BY <1>1, <2>1 DEF Recorded
    <2>3. g = [f EXCEPT !.at = now, !.last = None, !.placed = {}]
        BY <1>1, <1>4 DEF FramePhony, FrameNames
    <2> HIDE DEF now
    <2>4. /\ g = [x \in FrameNames |-> g[x]]
          /\ g.at = now /\ g.board = f.board /\ g.scores = f.scores /\ g.current = f.current
          /\ g.places = f.places /\ g.scoreless = f.scoreless /\ g.last = None
        BY ONLY <1>1, <2>3 DEF FrameNames
    <2>5. Counts(players, f, e, g)
        BY <1>2, <2>4 DEF Counts, IsScoreless, now
    <2> QED
        BY <1>1, <1>2, <2>2, <2>4, <2>5, OtherFollows
<1> QED
    BY <1>3, <1>4

(* One more record is counted. *)
LEMMA CountStep ==
    ASSUME NEW h, NEW n \in Nat
    PROVE  /\ IsFiniteSet(PlacesTo(h, n)) /\ IsFiniteSet(ScorelessTo(h, n))
           /\ Cardinality(PlacesTo(h, n + 1))
                 = IF h[n + 1].move.kind = "place" THEN Cardinality(PlacesTo(h, n)) + 1
                   ELSE Cardinality(PlacesTo(h, n))
           /\ Cardinality(ScorelessTo(h, n + 1))
                 = IF h[n + 1].move.kind = "place" THEN 0
                   ELSE IF IsScoreless(h[n + 1]) THEN Cardinality(ScorelessTo(h, n)) + 1
                   ELSE Cardinality(ScorelessTo(h, n))
<1>1. IsFiniteSet(1..n)
    BY FS_Interval
<1>2. PlacesTo(h, n) \subseteq 1..n /\ ScorelessTo(h, n) \subseteq 1..n
    BY DEF PlacesTo, ScorelessTo
<1>3. IsFiniteSet(PlacesTo(h, n)) /\ IsFiniteSet(ScorelessTo(h, n))
    BY <1>1, <1>2, FS_Subset
<1>4. n + 1 \notin PlacesTo(h, n) /\ n + 1 \notin ScorelessTo(h, n)
    BY <1>2
<1>5. 1..(n + 1) = (1..n) \cup {n + 1} /\ n + 1 \notin 1..n
    OBVIOUS
<1>6. \A i \in 1..n : i < n + 1
    OBVIOUS
<1>7. CASE h[n + 1].move.kind = "place"
    <2>1. PlacesTo(h, n + 1) = PlacesTo(h, n) \cup {n + 1}
        BY <1>5, <1>7 DEF PlacesTo
    <2>2. ScorelessTo(h, n + 1) = {}
        <3>1. \A i \in 1..(n + 1) : ~(n + 1 < i)
            OBVIOUS
        <3> QED
            BY <1>5, <1>7, <3>1 DEF ScorelessTo
    <2> QED
        BY <1>3, <1>4, <1>7, <2>1, <2>2, FS_AddElement, FS_EmptySet
<1>8. CASE h[n + 1].move.kind # "place"
    <2>1. PlacesTo(h, n + 1) = PlacesTo(h, n)
        BY <1>5, <1>8 DEF PlacesTo
    <2>2. CASE IsScoreless(h[n + 1])
        <3>1. ScorelessTo(h, n + 1) = ScorelessTo(h, n) \cup {n + 1}
            <4> SUFFICES ASSUME NEW i
                         PROVE  i \in ScorelessTo(h, n + 1)
                                   <=> i \in ScorelessTo(h, n) \/ i = n + 1
                OBVIOUS
            <4> QED
                BY <1>5, <1>6, <1>8, <2>2 DEF ScorelessTo
        <3> QED
            BY <1>3, <1>4, <1>8, <2>1, <2>2, <3>1, FS_AddElement
    <2>3. CASE ~IsScoreless(h[n + 1])
        <3>1. ScorelessTo(h, n + 1) = ScorelessTo(h, n)
            <4> SUFFICES ASSUME NEW i
                         PROVE  i \in ScorelessTo(h, n + 1) <=> i \in ScorelessTo(h, n)
                OBVIOUS
            <4> QED
                BY <1>5, <1>6, <1>8, <2>3 DEF ScorelessTo
        <3> QED
            <4>1. /\ Cardinality(PlacesTo(h, n + 1)) = Cardinality(PlacesTo(h, n))
                  /\ Cardinality(ScorelessTo(h, n + 1)) = Cardinality(ScorelessTo(h, n))
                BY <2>1, <3>1
            <4> QED
                BY <1>3, <1>8, <2>3, <4>1
    <2> QED
        BY <2>2, <2>3
<1> QED
    BY <1>3, <1>7, <1>8

(* The replay takes the step that the parser took, and never throws.        *)
LEMMA FollowStep ==
    ASSUME NEW p, NEW seen, Story(p, seen), NEW f, Follows(f, p, seen),
           f.at < Len(p.history), NEW e, e = p.history[f.at + 1]
    PROVE  /\ ~FrameThrows(f, e)
           /\ Follows(NextFrame(p.players, f, e), p, seen)
           /\ NextFrame(p.players, f, e).at = f.at + 1
<1> DEFINE h == p.history
           n == f.at + 1
           a == seen[n]
           b == seen[n + 1]
           g == NextFrame(p.players, f, e)
<1>1. /\ f.at \in Nat /\ n \in 1..Len(h) /\ Len(h) \in Nat /\ IsFrame(f)
      /\ n + 1 \in 1..Len(seen) /\ IsHistory(h) /\ p.players \in SUBSET Players
    BY DEF Follows, IsFrame, Story, StorySeen, IsParse, IsHistory, IsSeq
<1>2. IsEntry(e) /\ e.move.kind \in MoveKinds
    BY <1>1 DEF IsHistory, IsEntry
<1>3. Recorded(a, n, e.move, PlayerBefore(h, n), b) /\ e.move.player \in p.players
    <2>1. Recorded(a, n, e.move, PlayerBefore(h, n), b)
        BY <1>1 DEF Story, StoryRecords
    <2>2. b.players \subseteq p.players
        BY <1>1 DEF Story, StorySeen
    <2> QED
        BY <2>1, <2>2 DEF Recorded
<1>4. SameGame(f, h, a) /\ IsShot(a, n)
    BY <1>1 DEF Follows, Story, StorySeen
<1>5. ~FrameThrows(f, e) /\ IsFrame(g) /\ SameGame(g, h, b) /\ Counts(p.players, f, e, g)
    <2> HIDE DEF a, b
    <2>1. CASE e.move.kind = "place"
        <3>1. g = FramePlace(p.players, f, e.move)
            BY ONLY <2>1 DEF NextFrame, IsScoreless
        <3> QED
            BY <1>1, <1>2, <1>3, <1>4, <2>1, <3>1, PlaceFollows
    <2>2. CASE IsScoreless(e)
        <3>1. g = FramePassOrExchange(p.players, f, e.move)
            BY ONLY <2>2 DEF NextFrame, IsScoreless
        <3> QED
            BY <1>1, <1>2, <1>3, <1>4, <2>2, <3>1, PassFollows
    <2>3. CASE e.move.kind = "phony"
        <3>1. g = FramePhony(f)
            BY ONLY <2>3 DEF NextFrame, IsScoreless
        <3> QED
            BY <1>1, <1>2, <1>3, <1>4, <2>3, <3>1, PhonyFollows
    <2>4. CASE e.move.kind \in {"adjustment", "time", "end"}
        <3>1. g = FrameBonus(f, e.move)
            BY ONLY <2>4 DEF NextFrame, IsScoreless
        <3> QED
            BY <1>1, <1>2, <1>3, <1>4, <2>4, <3>1, BonusFollows
    <2> QED
        BY <1>2, <2>1, <2>2, <2>3, <2>4 DEF MoveKinds, DecisionKinds, IsScoreless
<1> HIDE DEF g
<1>6. g.at = n
    BY <1>5 DEF Counts
<1>7. /\ g.places = Cardinality(PlacesTo(h, n))
      /\ g.scoreless = Cardinality(ScorelessTo(h, n))
    BY <1>1, <1>5, CountStep DEF Counts, Follows
<1>8. TurnAt(g, p.players, h)
    <2>1. TurnAt(f, p.players, h) /\ \A i \in 1..n : i \in 1..f.at \/ i = n
        BY <1>1 DEF Follows
    <2>2. CASE IsDecision(e)
        <3>1. LastDecision(h, n, n) /\ n \in 1..n
            BY <1>1, <2>2 DEF LastDecision
        <3>2. g.current = NextPlayer(p.players, h[n].move.player)
            BY <1>5, <2>2 DEF Counts
        <3> QED
            BY <1>6, <3>1, <3>2 DEF TurnAt
    <2>3. CASE ~IsDecision(e)
        <3>1. g.current = f.current
            BY <1>5, <2>3 DEF Counts
        <3>2. \A d \in 1..f.at : LastDecision(h, f.at, d) => LastDecision(h, n, d) /\ d \in 1..n
            <4> SUFFICES ASSUME NEW d \in 1..f.at, LastDecision(h, f.at, d)
                         PROVE  LastDecision(h, n, d) /\ d \in 1..n
                OBVIOUS
            <4>1. \A j \in (d + 1)..n : j \in (d + 1)..f.at \/ j = n
                BY <1>1
            <4> QED
                BY <1>1, <2>3, <4>1 DEF LastDecision
        <3> QED
            BY <1>6, <2>1, <2>3, <3>1, <3>2 DEF TurnAt
    <2> QED
        BY <2>2, <2>3
<1>9. Follows(g, p, seen)
    <2>1. n <= Len(p.history)
        BY <1>1
    <2>2. g.current \in {f.current, NextPlayer(p.players, e.move.player)}
        BY <1>5 DEF Counts
    <2>3. p.players # {} => g.current \in p.players
        BY <1>1, <1>3, <2>2, NextPlayerTyped DEF Follows
    <2> QED
        BY <1>5, <1>6, <1>7, <1>8, <2>1, <2>3 DEF Follows
<1> QED
    BY <1>5, <1>6, <1>9 DEF g

-----------------------------------------------------------------------------
(* FoldLeft over a sequence is a run over its prefixes *)

(* A turn of one of the two loops: parseGcg's over the lines of a file,     *)
(* replayGcgHistory's over the records of a game of these players.          *)
Turn(loop, players, w, e) ==
    IF loop = "parse" THEN ParseLine(w, e) ELSE NextFrame(players, w, e)

LEMMA MaxOfInterval ==
    ASSUME NEW k \in Nat
    PROVE  Max(1..(k + 1)) = k + 1
<1> DEFINE U == 1..(k + 1)
           Largest(x) == x \in U /\ \A y \in U : x >= y
<1>1. Largest(k + 1) /\ \A x : Largest(x) => x = k + 1
    OBVIOUS
<1>2. Largest(CHOOSE x : Largest(x))
    <2> HIDE DEF Largest
    <2> QED
        BY <1>1
<1>3. Max(U) = CHOOSE x : Largest(x)
    BY DEF Max
<1> QED
    BY <1>1, <1>2, <1>3

LEMMA MaxIn ==
    ASSUME NEW n \in Nat, NEW s \in SUBSET (1..n), s # {}
    PROVE  Max(s) \in s
<1> DEFINE U == {n - x : x \in s}
<1>1. U \subseteq Nat /\ U # {}
    <2>1. \A x \in s : n - x \in Nat
        <3> TAKE x \in s
        <3>1. x \in 1..n
            OBVIOUS
        <3> QED
            BY <3>1
    <2> QED
        BY <2>1
<1>2. Min(U) \in U /\ \A y \in U : Min(U) <= y
    BY <1>1, MinNat
<1>3. PICK x \in s : Min(U) = n - x
    BY <1>2
<1>4. \A y \in s : x >= y
    <2> TAKE y \in s
    <2>1. n - y \in U
        OBVIOUS
    <2>2. n - x <= n - y
        BY <1>2, <1>3, <2>1
    <2> QED
        BY <2>2
<1>5. \E m \in s : \A y \in s : m >= y
    BY <1>4
<1> QED
    BY <1>5 DEF Max

(* it folds every set of indices of ls, the largest last. *)
IsTurns(it, loop, players, base, ls) ==
    it = [s \in SUBSET (1..Len(ls)) |->
             IF s = {} THEN base ELSE Turn(loop, players, it[s \ {Max(s)}], ls[Max(s)])]

LEMMA TurnsExist ==
    ASSUME NEW ls, IsSeq(ls), NEW loop, NEW players, NEW base
    PROVE  \E it : IsTurns(it, loop, players, base, ls)
<1> DEFINE S == 1..Len(ls)
           Further(h) == [s \in SUBSET S |->
                            IF s = {} THEN base
                            ELSE Turn(loop, players, h[s \ {Max(s)}], ls[Max(s)])]
           Good(h, n) == \A s \in SUBSET S : Cardinality(s) <= n => h[s] = Further(h)[s]
           T == {n \in Nat : \E h : Good(h, n)}
<1>0. IsFiniteSet(S) /\ Len(ls) \in Nat
    <2>1. Len(ls) \in Int /\ 1 \in Int /\ Len(ls) \in Nat
        BY DEF IsSeq
    <2> QED
        BY <2>1, FS_Interval
<1>1. ASSUME NEW s \in SUBSET S, s # {}
      PROVE  /\ s \ {Max(s)} \in SUBSET S
             /\ Cardinality(s \ {Max(s)}) = Cardinality(s) - 1
    <2>1. Max(s) \in s
        BY <1>0, <1>1, MaxIn
    <2> HIDE DEF S
    <2> QED
        BY <1>0, <2>1, Subsets
<1> HIDE DEF S
<1>2. 0 \in T
    <2> DEFINE h == [s \in SUBSET S |-> base]
    <2>1. \A s \in SUBSET S : Cardinality(s) <= 0 => s = {}
        BY <1>0, Subsets
    <2>2. Good(h, 0)
        BY <2>1
    <2> HIDE DEF h, Good
    <2> QED
        BY <2>2
<1>3. ASSUME NEW n \in Nat, n \in T
      PROVE  n + 1 \in T
    <2>1. PICK h : Good(h, n)
        BY <1>3
    <2> DEFINE g == Further(h)
    <2>3. ASSUME NEW s \in SUBSET S, Cardinality(s) <= n + 1
          PROVE  g[s] = Further(g)[s]
        <3>1. CASE s = {}
            BY <3>1
        <3>2. CASE s # {}
            <4> DEFINE x == Max(s)
                       r == s \ {x}
            <4>1. r \in SUBSET S /\ Cardinality(r) <= n
                BY <1>0, <1>1, Subsets, <2>3, <3>2
            <4>2. h[r] = g[r]
                BY <2>1, <4>1
            <4>3. g[s] = Turn(loop, players, h[r], ls[x])
                BY <3>2
            <4>4. Further(g)[s] = Turn(loop, players, g[r], ls[x])
                <5> HIDE DEF g
                <5> QED BY <3>2
            <4> QED
                BY <4>2, <4>3, <4>4
        <3> QED
            BY <3>1, <3>2
    <2>4. Good(g, n + 1)
        <3> HIDE DEF g
        <3> QED
            BY <2>3
    <2> HIDE DEF g, Good
    <2> QED
        BY <2>4
<1>4. Cardinality(S) \in T
    <2>1. \A n \in Nat : n \in T => n + 1 \in T
        BY <1>3
    <2>2. Cardinality(S) \in Nat
        BY <1>0, FS_CardinalityType
    <2> HIDE DEF T
    <2> QED
        BY <1>2, <2>1, <2>2, NatSetInduction
<1>5. PICK h : Good(h, Cardinality(S))
    BY <1>4
<1> DEFINE g == Further(h)
<1>6. g = Further(g)
    <2>1. \A s \in SUBSET S : h[s] = g[s]
        BY <1>0, <1>5, Subsets
    <2>2. \A s \in SUBSET S : s # {} => h[s \ {Max(s)}] = g[s \ {Max(s)}]
        BY <1>1, <2>1
    <2>3. Further(h) = Further(g)
        <3> HIDE DEF g
        <3> QED
            BY <2>2
    <2> QED
        BY <2>3
<1> HIDE DEF g
<1>7. g = [s \in SUBSET S |-> IF s = {} THEN base
                 ELSE Turn(loop, players, g[s \ {Max(s)}], ls[Max(s)])]
    BY <1>6
<1>8. IsTurns(g, loop, players, base, ls)
    BY <1>7 DEF S, IsTurns
<1> QED
    BY <1>8

(* Q[k] is what the loop has made of the first k elements of ls. *)
IsRun(Q, loop, players, base, ls) ==
    /\ Q[0] = base
    /\ \A k \in 0..(Len(ls) - 1) : Q[k + 1] = Turn(loop, players, Q[k], ls[k + 1])

LEMMA RunOf ==
    ASSUME NEW ls, IsSeq(ls), NEW loop, NEW players, NEW base,
           NEW it, IsTurns(it, loop, players, base, ls)
    PROVE  \E Q : IsRun(Q, loop, players, base, ls) /\ Q[Len(ls)] = it[1..Len(ls)]
<1> DEFINE Q == [k \in 0..Len(ls) |-> it[1..k]]
<1>0. Len(ls) \in Nat
    BY DEF IsSeq
<1>1. Q[0] = base
    <2>1. 1..0 = {} /\ {} \in SUBSET (1..Len(ls))
        OBVIOUS
    <2> QED
        BY <1>0, <2>1 DEF IsTurns
<1>2. ASSUME NEW k \in 0..(Len(ls) - 1)
      PROVE  Q[k + 1] = Turn(loop, players, Q[k], ls[k + 1])
    <2> DEFINE s == 1..(k + 1)
    <2>0. k \in Nat /\ k + 1 <= Len(ls)
        BY <1>0
    <2>1. /\ k \in Nat /\ k \in 0..Len(ls) /\ k + 1 \in 0..Len(ls)
          /\ s \in SUBSET (1..Len(ls)) /\ s # {} /\ s \ {k + 1} = 1..k
        <3>1. k \in 0..Len(ls) /\ k + 1 \in 0..Len(ls) /\ 1 \in s
            BY <1>0, <2>0
        <3>2. s \in SUBSET (1..Len(ls))
            BY <1>0, <2>0
        <3>3. s \ {k + 1} = 1..k
            BY <2>0
        <3> QED
            BY <2>0, <3>1, <3>2, <3>3
    <2>2. Max(s) = k + 1
        BY <2>1, MaxOfInterval
    <2> HIDE DEF s
    <2>3. it[s] = Turn(loop, players, it[s \ {Max(s)}], ls[Max(s)])
        BY <2>1 DEF IsTurns
    <2> QED
        BY <2>1, <2>2, <2>3 DEF s
<1>3. Q[Len(ls)] = it[1..Len(ls)]
    BY <1>0
<1> HIDE DEF Q
<1> QED
    BY <1>1, <1>2, <1>3 DEF IsRun

LEMMA ParseTextRuns ==
    ASSUME NEW ls, IsSeq(ls)
    PROVE  \E Q : IsRun(Q, "parse", {}, ParseInit, ls) /\ Q[Len(ls)] = ParseText(ls)
<1> DEFINE S == 1..Len(ls)
           P(it) == it = [s \in SUBSET S |-> IF s = {} THEN ParseInit
                                ELSE ParseLine(it[s \ {Max(s)}], ls[Max(s)])]
           G(it) == IsTurns(it, "parse", {}, ParseInit, ls)
<1>1. \A it : P(it) <=> G(it)
    BY DEF Turn, IsTurns
<1>2. \E it : G(it)
    BY TurnsExist
<1>3. P(CHOOSE it : P(it))
    <2> HIDE DEF P, G
    <2> QED
        BY <1>1, <1>2
<1>4. ParseText(ls) = (CHOOSE it : P(it))[S]
    <2>1. DOMAIN ls = S
        BY DEF IsSeq
    <2> QED
        BY <2>1 DEF ParseText, FoldLeft, MapThenFoldSet
<1>5. PICK it : G(it) /\ ParseText(ls) = it[S]
    <2> HIDE DEF P, G
    <2> QED
        BY <1>1, <1>3, <1>4
<1> QED
    BY <1>5, RunOf

LEMMA FrameAfterRuns ==
    ASSUME NEW h, IsSeq(h), NEW n \in 0..Len(h), NEW players
    PROVE  \E Q : IsRun(Q, "replay", players, FrameInit(players), SubSeq(h, 1, n))
                   /\ Q[n] = FrameAfter(players, h, n)
<1> DEFINE ls == SubSeq(h, 1, n)
           S == 1..Len(ls)
           base == FrameInit(players)
           P(it) == it = [s \in SUBSET S |-> IF s = {} THEN base
                                ELSE NextFrame(players, it[s \ {Max(s)}], ls[Max(s)])]
           G(it) == IsTurns(it, "replay", players, base, ls)
<1>0. Len(ls) = n /\ DOMAIN ls = 1..n /\ IsSeq(ls)
    <2>1. ls = [i \in 1..n |-> h[i]]
        BY DEF IsSeq, SubSeq
    <2> DEFINE R == {h[i] : i \in 1..n}
    <2>2. \A i \in 1..n : h[i] \in R
        OBVIOUS
    <2>3. n \in Nat
        BY DEF IsSeq
    <2> HIDE DEF R, ls
    <2>4. [i \in 1..n |-> h[i]] \in Seq(R)
        BY <2>2, <2>3, IsASeq
    <2> QED
        BY <2>1, <2>3, <2>4, LenProperties DEF IsSeq
<1> HIDE DEF ls, base
<1>1. \A it : P(it) <=> G(it)
    BY DEF Turn, IsTurns
<1>2. \E it : G(it)
    BY <1>0, TurnsExist
<1>3. P(CHOOSE it : P(it))
    <2> HIDE DEF P, G
    <2> QED
        BY <1>1, <1>2
<1>4. FrameAfter(players, h, n) = (CHOOSE it : P(it))[S]
    <2>1. DOMAIN ls = S
        BY <1>0
    <2> QED
        BY <2>1 DEF FrameAfter, FoldLeft, MapThenFoldSet, ls, base
<1>5. PICK it : G(it) /\ FrameAfter(players, h, n) = it[S]
    <2> HIDE DEF P, G
    <2> QED
        BY <1>1, <1>3, <1>4
<1>6. \E Q : IsRun(Q, "replay", players, base, ls) /\ Q[Len(ls)] = it[1..Len(ls)]
    BY <1>0, <1>5, RunOf
<1> QED
    BY <1>0, <1>5, <1>6 DEF ls, base

(* The frame after n records follows the story that the parser told. *)
LEMMA FrameAfterFollows ==
    ASSUME NEW p, NEW seen, Story(p, seen), NEW n \in 0..Len(p.history)
    PROVE  /\ Follows(FrameAfter(p.players, p.history, n), p, seen)
           /\ FrameAfter(p.players, p.history, n).at = n
<1> DEFINE h == p.history
           ls == SubSeq(h, 1, n)
<1>0. IsSeq(h) /\ n \in Nat /\ Len(h) \in Nat
    BY DEF Story, IsParse, IsHistory, IsSeq
<1>1. PICK Q : /\ IsRun(Q, "replay", p.players, FrameInit(p.players), ls)
               /\ Q[n] = FrameAfter(p.players, h, n)
    BY <1>0, FrameAfterRuns
<1>2. Len(ls) = n /\ \A i \in 1..n : ls[i] = h[i]
    BY <1>0 DEF SubSeq
<1> HIDE DEF ls
<1> DEFINE There(k) == Follows(Q[k], p, seen) /\ Q[k].at = k
           T == {k \in Nat : k <= n => There(k)}
<1>3. 0 \in T
    <2>1. Q[0] = FrameInit(p.players) /\ FrameInit(p.players).at = 0
        BY <1>1 DEF IsRun, FrameInit
    <2>2. There(0)
        BY <2>1, FollowsInit
    <2> HIDE DEF There
    <2> QED
        BY <2>2
<1>4. ASSUME NEW k \in Nat, k \in T
      PROVE  k + 1 \in T
    <2> SUFFICES ASSUME k + 1 <= n
                 PROVE  There(k + 1)
        OBVIOUS
    <2>1. k \in 0..(Len(ls) - 1) /\ k + 1 \in 1..n /\ k <= n /\ k < Len(h)
        BY <1>0, <1>2
    <2>2. Q[k + 1] = NextFrame(p.players, Q[k], h[k + 1])
        BY <1>1, <1>2, <2>1 DEF IsRun, Turn
    <2>3. Follows(Q[k], p, seen) /\ Q[k].at = k
        BY <1>4, <2>1
    <2> QED
        BY <2>1, <2>2, <2>3, FollowStep
<1>5. n \in T
    <2>1. \A k \in Nat : k \in T => k + 1 \in T
        BY <1>4
    <2> HIDE DEF T
    <2> QED
        BY <1>0, <1>3, <2>1, NatSetInduction
<1> QED
    BY <1>1, <1>5

-----------------------------------------------------------------------------
(* Sequences put together *)

LEMMA ConcatIs ==
    ASSUME NEW s, IsSeq(s), NEW t, IsSeq(t)
    PROVE  /\ IsSeq(s \o t) /\ Len(s \o t) = Len(s) + Len(t)
           /\ \A i \in 1..Len(s) : (s \o t)[i] = s[i]
           /\ \A i \in 1..Len(t) : (s \o t)[Len(s) + i] = t[i]
<1> DEFINE R == {s[i] : i \in 1..Len(s)} \cup {t[i] : i \in 1..Len(t)}
<1>1. s \in Seq(R) /\ t \in Seq(R)
    <2>1. (\A i \in 1..Len(s) : s[i] \in R) /\ (\A i \in 1..Len(t) : t[i] \in R)
        OBVIOUS
    <2> HIDE DEF R
    <2> QED
        BY <2>1, IsASeq DEF IsSeq
<1> HIDE DEF R
<1>2. s \o t \in Seq(R)
    BY <1>1
<1>3. IsSeq(s \o t)
    BY <1>2, LenProperties DEF IsSeq
<1>4. /\ Len(s \o t) = Len(s) + Len(t)
      /\ \A i \in 1..Len(s) : (s \o t)[i] = s[i]
    BY <1>1
<1>5. \A i \in 1..Len(t) : (s \o t)[Len(s) + i] = t[i]
    BY <1>1
<1> QED
    BY <1>3, <1>4, <1>5

LEMMA SameSeq ==
    ASSUME NEW s, IsSeq(s), NEW t, IsSeq(t), Len(s) = Len(t),
           \A i \in 1..Len(s) : s[i] = t[i]
    PROVE  s = t
BY DEF IsSeq

LEMMA NoElements ==
    /\ IsSeq(<<>>) /\ Len(<<>>) = 0
    /\ \A s : IsSeq(s) => (Len(s) = 0 <=> s = <<>>)
BY DEF IsSeq

LEMMA OneElement == \A e : IsSeq(<<e>>) /\ Len(<<e>>) = 1 /\ <<e>>[1] = e
BY DEF IsSeq

LEMMA ConcatEmpty ==
    ASSUME NEW s, IsSeq(s)
    PROVE  s \o <<>> = s /\ <<>> \o s = s
<1>1. /\ IsSeq(s \o <<>>) /\ Len(s \o <<>>) = Len(s)
      /\ \A i \in 1..Len(s) : (s \o <<>>)[i] = s[i]
    BY ConcatIs, NoElements DEF IsSeq
<1>2. /\ IsSeq(<<>> \o s) /\ Len(<<>> \o s) = Len(s)
      /\ \A i \in 1..Len(s) : (<<>> \o s)[0 + i] = s[i]
    BY ConcatIs, NoElements DEF IsSeq
<1> QED
    BY <1>1, <1>2, SameSeq

LEMMA ConcatOne ==
    ASSUME NEW s, IsSeq(s), NEW e
    PROVE  s \o <<e>> = Append(s, e)
<1>1. /\ IsSeq(s \o <<e>>) /\ Len(s \o <<e>>) = Len(s) + 1
      /\ \A i \in 1..Len(s) : (s \o <<e>>)[i] = s[i]
      /\ \A i \in 1..1 : (s \o <<e>>)[Len(s) + i] = <<e>>[i]
    BY ConcatIs, OneElement
<1>2. /\ IsSeq(Append(s, e)) /\ Len(Append(s, e)) = Len(s) + 1
      /\ \A i \in 1..Len(s) : Append(s, e)[i] = s[i]
      /\ Append(s, e)[Len(s) + 1] = e
    BY AppendIs
<1>3. (s \o <<e>>)[Len(s) + 1] = e
    BY <1>1, OneElement
<1>4. Len(s) \in Nat
    BY DEF IsSeq
<1>5. \A i \in 1..(Len(s) + 1) : (s \o <<e>>)[i] = Append(s, e)[i]
    <2> TAKE i \in 1..(Len(s) + 1)
    <2>1. i \in 1..Len(s) \/ i = Len(s) + 1
        BY <1>4
    <2> QED
        BY <1>1, <1>2, <1>3, <2>1
<1> QED
    BY <1>1, <1>2, <1>5, SameSeq

LEMMA ConcatAppend ==
    ASSUME NEW s, IsSeq(s), NEW t, IsSeq(t), NEW e
    PROVE  s \o Append(t, e) = Append(s \o t, e)
<1> DEFINE u == Append(t, e)
           v == s \o t
<1>1. /\ IsSeq(u) /\ Len(u) = Len(t) + 1 /\ \A i \in 1..Len(t) : u[i] = t[i]
      /\ u[Len(t) + 1] = e
    BY AppendIs
<1>2. /\ IsSeq(v) /\ Len(v) = Len(s) + Len(t) /\ \A i \in 1..Len(s) : v[i] = s[i]
      /\ \A i \in 1..Len(t) : v[Len(s) + i] = t[i]
    BY ConcatIs
<1> HIDE DEF u, v
<1>3. /\ IsSeq(s \o u) /\ Len(s \o u) = Len(s) + Len(u)
      /\ \A i \in 1..Len(s) : (s \o u)[i] = s[i]
      /\ \A i \in 1..Len(u) : (s \o u)[Len(s) + i] = u[i]
    <2>1. IsSeq(s) /\ IsSeq(u)
        BY <1>1
    <2> QED
        BY ONLY <2>1, ConcatIs
<1>4. /\ IsSeq(Append(v, e)) /\ Len(Append(v, e)) = Len(v) + 1
      /\ \A i \in 1..Len(v) : Append(v, e)[i] = v[i]
      /\ Append(v, e)[Len(v) + 1] = e
    BY <1>2, AppendIs
<1>5. Len(s) \in Nat /\ Len(t) \in Nat
    BY DEF IsSeq
<1>6. ASSUME NEW i \in 1..(Len(s) + Len(t) + 1)
      PROVE  (s \o u)[i] = Append(v, e)[i]
    <2>1. CASE i \in 1..Len(s)
        <3>1. i \in 1..Len(v)
            BY <1>2, <1>5, <2>1
        <3> QED
            BY <1>2, <1>3, <1>4, <2>1, <3>1
    <2>2. CASE i = Len(s) + Len(t) + 1
        <3>1. i = Len(s) + (Len(t) + 1) /\ Len(t) + 1 \in 1..Len(u)
            BY <1>1, <1>5, <2>2
        <3> QED
            BY <1>1, <1>2, <1>3, <1>4, <2>2, <3>1
    <2>3. CASE i \notin 1..Len(s) /\ i # Len(s) + Len(t) + 1
        <3> DEFINE j == i - Len(s)
        <3>1. /\ j \in 1..Len(t) /\ j \in 1..Len(u) /\ i = Len(s) + j /\ i \in 1..Len(v)
            BY <1>1, <1>2, <1>5, <2>3
        <3> HIDE DEF j
        <3> QED
            BY <1>1, <1>2, <1>3, <1>4, <3>1
    <2> QED
        BY <2>1, <2>2, <2>3
<1>7. /\ Len(s \o u) = Len(s) + Len(t) + 1
      /\ Len(Append(v, e)) = Len(s) + Len(t) + 1
    BY <1>1, <1>2, <1>3, <1>4, <1>5
<1>8. \A i \in 1..Len(s \o u) : (s \o u)[i] = Append(v, e)[i]
    BY <1>6, <1>7
<1>9. s \o u = Append(v, e)
    BY ONLY <1>3, <1>4, <1>7, <1>8, SameSeq
<1> QED
    BY <1>9 DEF u, v

-----------------------------------------------------------------------------
(* A text is read line by line *)

LEMMA ParseMore ==
    /\ ParseText(<<>>) = ParseInit
    /\ \A s : IsSeq(s) => \A e : ParseText(Append(s, e)) = ParseLine(ParseText(s), e)
<1>1. ParseText(<<>>) = ParseInit
    <2>1. \E Q : IsRun(Q, "parse", {}, ParseInit, <<>>) /\ Q[Len(<<>>)] = ParseText(<<>>)
        BY NoElements, ParseTextRuns
    <2> QED
        BY <2>1, NoElements DEF IsRun
<1>2. ASSUME NEW s, IsSeq(s), NEW e
      PROVE  ParseText(Append(s, e)) = ParseLine(ParseText(s), e)
    <2> DEFINE t == Append(s, e)
    <2>0. Len(s) \in Nat
        BY <1>2 DEF IsSeq
    <2>1. /\ IsSeq(t) /\ Len(t) = Len(s) + 1 /\ \A i \in 1..Len(s) : t[i] = s[i]
          /\ t[Len(s) + 1] = e
        BY <1>2, AppendIs
    <2> HIDE DEF t
    <2>2. PICK Q : IsRun(Q, "parse", {}, ParseInit, s) /\ Q[Len(s)] = ParseText(s)
        BY <1>2, ParseTextRuns
    <2>3. PICK U : IsRun(U, "parse", {}, ParseInit, t) /\ U[Len(t)] = ParseText(t)
        BY <2>1, ParseTextRuns
    <2> DEFINE T == {k \in Nat : k <= Len(s) => U[k] = Q[k]}
    <2>4. 0 \in T
        BY <2>2, <2>3 DEF IsRun
    <2>5. ASSUME NEW k \in Nat, k \in T
          PROVE  k + 1 \in T
        <3> SUFFICES ASSUME k + 1 <= Len(s)
                     PROVE  U[k + 1] = Q[k + 1]
            OBVIOUS
        <3>1. /\ k \in 0..(Len(s) - 1) /\ k \in 0..(Len(t) - 1) /\ k + 1 \in 1..Len(s)
              /\ U[k] = Q[k]
            BY <2>0, <2>1, <2>5
        <3>2. Q[k + 1] = Turn("parse", {}, Q[k], s[k + 1])
            BY <2>2, <3>1 DEF IsRun
        <3>3. U[k + 1] = Turn("parse", {}, U[k], t[k + 1])
            BY <2>3, <3>1 DEF IsRun
        <3> QED
            BY <2>1, <3>1, <3>2, <3>3
    <2>6. Len(s) \in T
        <3>1. \A k \in Nat : k \in T => k + 1 \in T
            BY <2>5
        <3> HIDE DEF T
        <3> QED
            BY <2>0, <2>4, <3>1, NatSetInduction
    <2>7. U[Len(s)] = ParseText(s)
        BY <2>0, <2>2, <2>6
    <2>8. Len(s) \in 0..(Len(t) - 1)
        BY <2>0, <2>1
    <2>9. U[Len(s) + 1] = Turn("parse", {}, U[Len(s)], t[Len(s) + 1])
        BY <2>3, <2>8 DEF IsRun
    <2> QED
        BY <2>1, <2>3, <2>7, <2>9 DEF Turn, t
<1> QED
    BY <1>1, <1>2

(* F[k] is what FlattenSeq makes of the first k sequences. *)
IsFlat(F, ss) ==
    /\ F[0] = <<>> /\ F[Len(ss)] = FlattenSeq(ss)
    /\ \A k \in 0..(Len(ss) - 1) : F[k + 1] = F[k] \o ss[k + 1]
    /\ \A k \in 0..Len(ss) : IsSeq(F[k])

LEMMA Flattens ==
    ASSUME NEW ss, IsSeq(ss), \A i \in 1..Len(ss) : IsSeq(ss[i])
    PROVE  \E F : IsFlat(F, ss)
<1>0. Len(ss) \in Nat
    BY DEF IsSeq
<1>1. CASE Len(ss) = 0
    <2> DEFINE F == [k \in {0} |-> <<>>]
    <2>1. ss = <<>> /\ FlattenSeq(ss) = <<>>
        BY <1>1, NoElements DEF FlattenSeq
    <2>2. IsFlat(F, ss)
        BY <1>1, <2>1, NoElements DEF IsFlat
    <2> QED
        BY <2>2
<1>2. CASE Len(ss) # 0
    <2> DEFINE S == 1..Len(ss)
               Further(h) == [i \in S |-> IF i = 1 THEN ss[i] ELSE h[i - 1] \o ss[i]]
               Good(h, n) == \A i \in S : i <= n => h[i] = Further(h)[i]
               T == {n \in Nat : \E h : Good(h, n)}
    <2>1. 0 \in T
        <3>1. \A h : Good(h, 0)
            OBVIOUS
        <3> HIDE DEF Good
        <3> QED
            BY <3>1
    <2>2. ASSUME NEW n \in Nat, n \in T
          PROVE  n + 1 \in T
        <3>1. PICK h : Good(h, n)
            BY <2>2
        <3> DEFINE g == Further(h)
        <3>2. ASSUME NEW i \in S, i <= n + 1
              PROVE  g[i] = Further(g)[i]
            <4>1. CASE i = 1
                BY <4>1
            <4>2. CASE i # 1
                <5>1. i - 1 \in S /\ i - 1 <= n
                    BY <1>0, <3>2, <4>2
                <5>2. h[i - 1] = g[i - 1]
                    BY <3>1, <5>1
                <5>3. g[i] = h[i - 1] \o ss[i]
                    BY <4>2
                <5>4. Further(g)[i] = g[i - 1] \o ss[i]
                    <6> HIDE DEF g
                    <6> QED
                        BY <4>2
                <5> QED
                    BY <5>2, <5>3, <5>4
            <4> QED
                BY <4>1, <4>2
        <3>3. Good(g, n + 1)
            <4> HIDE DEF g
            <4> QED
                BY <3>2
        <3> HIDE DEF g, Good
        <3> QED
            BY <3>3
    <2>3. Len(ss) \in T
        <3>1. \A n \in Nat : n \in T => n + 1 \in T
            BY <2>2
        <3> HIDE DEF T
        <3> QED
            BY <1>0, <2>1, <3>1, NatSetInduction
    <2>4. PICK h : Good(h, Len(ss))
        BY <2>3
    <2> DEFINE g == Further(h)
    <2>5. g = Further(g)
        <3>1. \A i \in S : h[i] = g[i]
            BY <1>0, <2>4
        <3>2. \A i \in S : i # 1 => i - 1 \in S
            BY <1>0
        <3>3. \A i \in S : i # 1 => h[i - 1] = g[i - 1]
            BY <3>1, <3>2
        <3>4. Further(h) = Further(g)
            <4> HIDE DEF g
            <4> QED
                BY <3>3
        <3> QED
            BY <3>4
    <2> DEFINE P(f) == f = [i \in S |-> IF i = 1 THEN ss[i] ELSE f[i - 1] \o ss[i]]
    <2>6. P(g)
        <3> HIDE DEF g
        <3> QED
            BY <2>5
    <2>7. P(CHOOSE f : P(f))
        <3> HIDE DEF P, g
        <3> QED
            BY <2>6
    <2>8. FlattenSeq(ss) = (CHOOSE f : P(f))[Len(ss)]
        BY <1>2 DEF FlattenSeq
    <2>9. PICK f : P(f) /\ FlattenSeq(ss) = f[Len(ss)]
        <3> HIDE DEF P, g
        <3> QED
            BY <2>7, <2>8
    <2> DEFINE F == [k \in 0..Len(ss) |-> IF k = 0 THEN <<>> ELSE f[k]]
    <2>10. F[0] = <<>> /\ F[Len(ss)] = FlattenSeq(ss)
        BY <1>0, <1>2, <2>9
    <2>11. ASSUME NEW k \in 0..(Len(ss) - 1)
           PROVE  F[k + 1] = F[k] \o ss[k + 1]
        <3>1. /\ k + 1 \in S /\ k \in 0..Len(ss) /\ k + 1 \in 0..Len(ss) /\ k + 1 # 0
              /\ k + 1 - 1 = k /\ (k = 0 <=> k + 1 = 1)
            BY <1>0
        <3>2. F[k + 1] = f[k + 1]
            BY <3>1
        <3>3. CASE k = 0
            <4>1. f[k + 1] = ss[k + 1] /\ F[k] = <<>> /\ IsSeq(ss[k + 1])
                BY <2>9, <3>1, <3>3
            <4>2. <<>> \o ss[k + 1] = ss[k + 1]
                BY ONLY <4>1, ConcatEmpty
            <4> HIDE DEF F
            <4> QED
                BY ONLY <3>2, <4>1, <4>2, Zenon
        <3>4. CASE k # 0
            <4>0. k + 1 # 1 /\ k + 1 \in S /\ k + 1 - 1 = k
                BY <3>1, <3>4
            <4>1. f[k + 1] = f[k] \o ss[k + 1]
                <5> DEFINE j == k + 1
                <5>1. j \in S /\ j # 1 /\ j - 1 = k
                    BY <4>0
                <5> HIDE DEF j
                <5>2. f[j] = f[j - 1] \o ss[j]
                    BY <2>9, <5>1
                <5>3. f[j] = f[k] \o ss[j]
                    BY <5>1, <5>2
                <5> QED
                    BY <5>3 DEF j
            <4>2. F[k] = f[k]
                BY <3>1, <3>4
            <4> QED
                BY <3>2, <4>1, <4>2
        <3> QED
            BY <3>3, <3>4
    <2> HIDE DEF F
    <2> DEFINE V == {k \in Nat : k <= Len(ss) => IsSeq(F[k])}
    <2>12. 0 \in V
        BY <2>10, NoElements
    <2>13. ASSUME NEW k \in Nat, k \in V
           PROVE  k + 1 \in V
        <3> SUFFICES ASSUME k + 1 <= Len(ss)
                     PROVE  IsSeq(F[k + 1])
            OBVIOUS
        <3>1. k \in 0..(Len(ss) - 1) /\ k + 1 \in 1..Len(ss) /\ k <= Len(ss)
            BY <1>0
        <3>2. F[k + 1] = F[k] \o ss[k + 1] /\ IsSeq(F[k]) /\ IsSeq(ss[k + 1])
            BY <2>11, <2>13, <3>1
        <3> QED
            BY <3>2, ConcatIs
    <2>14. \A k \in Nat : k \in V
        <3>1. \A k \in Nat : k \in V => k + 1 \in V
            BY <2>13
        <3> HIDE DEF V
        <3> QED
            BY <2>12, <3>1, NatSetInduction
    <2>15. \A k \in 0..Len(ss) : IsSeq(F[k])
        BY <1>0, <2>14
    <2> QED
        BY <2>10, <2>11, <2>15 DEF IsFlat
<1> QED
    BY <1>1, <1>2

-----------------------------------------------------------------------------
(* What exportGcg relies on: the fields of a record besides its move *)

(* The i-th record m withdraws the placement before it, in the snapshot a. *)
Withdraws(a, i, m) == m.kind = "phony" /\ a.last # None /\ a.last.index = i - 1

Computed(a, m) == IF m.kind = "place" THEN ComputedScore(a.board, m) ELSE None

(* What MoveThrows asks of a move alone. *)
Legible(m) ==
    /\ m.kind \notin {"time", "end"} => m.rack # 0
    /\ m.kind \in {"time", "end"} => m.rack # 0 \/ m.score # None
    /\ m.kind = "end" => m.unused \in Rack
    /\ m.kind = "exchange" => m.count \in 1..7
    /\ m.kind = "adjustment" => m.total # None

(* Each record has the score it was given, and is challenged if and only if *)
(* the next one withdraws it.                                               *)
Detailed(p, seen) ==
    LET n == Len(p.history) IN
    /\ n <= MaxRecords
    /\ \A i \in 1..n : /\ Legible(p.history[i].move)
                       /\ p.history[i].computed = Computed(seen[i], p.history[i].move)
    /\ \A i \in 1..n : p.history[i].challenged <=>
            i < n /\ Withdraws(seen[i + 1], i + 1, p.history[i + 1].move)

HistoryAfter(p, m) ==
    LET recorded == Append(p.history, Record(m, Computed(p, m))) IN
    IF Withdraws(p, Len(p.history) + 1, m)
    THEN [recorded EXCEPT ![Len(p.history)].challenged = TRUE] ELSE recorded

LEMMA MoveHistory ==
    ASSUME NEW p, IsParse(p), NEW m, m.kind \in MoveKinds
    PROVE  ParseMove(p, m).history = HistoryAfter(p, m)
<1>1. p = [x \in ParseNames |-> p[x]] /\ Len(p.history) \in Nat
    BY ParseRecord DEF IsParse, IsHistory, IsSeq
<1>2. \A q : Checked(q, m).history = q.history
    BY DEF Checked
<1>3. CASE m.kind = "place"
    BY <1>1, <1>2, <1>3 DEF ParseMove, ParsePlace, HistoryAfter, Withdraws, Computed, ParseNames
<1>4. CASE m.kind \in {"pass", "exchange"}
    BY <1>1, <1>2, <1>4 DEF ParseMove, ParsePassOrExchange, HistoryAfter, Withdraws, Computed,
                            ParseNames
<1>5. CASE m.kind = "phony"
    <2>1. Len(p.history) + 1 - 1 = Len(p.history)
        BY <1>1
    <2> DEFINE recorded == Append(p.history, Record(m, None))
    <2>2. CASE p.last # None /\ p.last.index = Len(p.history)
        <3> DEFINE g == [recorded EXCEPT ![p.last.index].challenged = TRUE]
                   q == [p EXCEPT !.history = g, !.board = Without(@, p.last.squares),
                                  !.scores[Challenged(p, m)] = @ - p.last.score, !.last = None]
        <3>0. ParseMove(p, m) = Checked(q, m)
            BY <1>5, <2>2 DEF ParseMove, ParsePhony
        <3> HIDE DEF g
        <3>1. ParseMove(p, m).history = g
            BY <1>1, <1>2, <3>0 DEF ParseNames
        <3>2. HistoryAfter(p, m) = [recorded EXCEPT ![Len(p.history)].challenged = TRUE]
            <4>1. Withdraws(p, Len(p.history) + 1, m) /\ Computed(p, m) = None
                BY <1>5, <2>1, <2>2 DEF Withdraws, Computed
            <4> QED
                BY <4>1 DEF HistoryAfter
        <3> QED
            BY <2>2, <3>1, <3>2 DEF g
    <2>3. CASE ~(p.last # None /\ p.last.index = Len(p.history))
        <3>1. ParseMove(p, m).history = recorded
            BY <1>1, <1>2, <1>5, <2>3 DEF ParseMove, ParsePhony, ParseNames
        <3>2. HistoryAfter(p, m) = recorded
            BY <1>5, <2>1, <2>3 DEF HistoryAfter, Withdraws, Computed
        <3> QED
            BY <3>1, <3>2
    <2> QED
        BY <2>2, <2>3
<1>6. CASE m.kind \in {"adjustment", "time", "end"}
    BY <1>1, <1>2, <1>6 DEF ParseMove, ParseBonus, HistoryAfter, Withdraws, Computed, ParseNames
<1> QED
    BY <1>3, <1>4, <1>5, <1>6 DEF MoveKinds, DecisionKinds

WithChallenge(e) == [e EXCEPT !.challenged = TRUE]

LEMMA ChallengeFields ==
    ASSUME NEW e, IsEntry(e)
    PROVE  /\ IsEntry(WithChallenge(e)) /\ WithChallenge(e).challenged
           /\ WithChallenge(e).move = e.move /\ WithChallenge(e).note = e.note
           /\ WithChallenge(e).computed = e.computed
<1>1. PICK t \in BOOLEAN : t = TRUE
    OBVIOUS
<1>2. WithChallenge(e) = [e EXCEPT !.challenged = t]
    BY <1>1, Zenon DEF WithChallenge
<1>3. WithChallenge(e)
         = [move |-> e.move, note |-> e.note, challenged |-> t, computed |-> e.computed]
    BY <1>2 DEF IsEntry
<1>4. IsEntry(WithChallenge(e)) /\ WithChallenge(e).move = e.move
    BY ChallengedEntry DEF WithChallenge
<1> QED
    BY <1>1, <1>3, <1>4

LEMMA HistoryAfterIs ==
    ASSUME NEW p, IsHistory(p.history), NEW m, m.kind \in MoveKinds, m.player \in Players,
           m.rack \in Rack, WellFormed(m),
           p.last # None => p.last.index \in 1..Len(p.history)
    PROVE  LET g == HistoryAfter(p, m)
               n == Len(p.history) IN
           /\ IsHistory(g) /\ Len(g) = n + 1
           /\ g[n + 1] = Record(m, Computed(p, m))
           /\ \A i \in 1..n : ~(i = n /\ Withdraws(p, n + 1, m)) => g[i] = p.history[i]
           /\ Withdraws(p, n + 1, m) => n \in 1..n /\ g[n] = WithChallenge(p.history[n])
<1> DEFINE g == HistoryAfter(p, m)
           n == Len(p.history)
           recorded == Append(p.history, Record(m, Computed(p, m)))
<1>1. /\ IsHistory(recorded) /\ Len(recorded) = n + 1
      /\ \A i \in 1..n : recorded[i] = p.history[i]
    BY HistoryGrows
<1>2. recorded[n + 1] = Record(m, Computed(p, m)) /\ n \in Nat /\ n + 1 - 1 = n
    <2>1. IsSeq(p.history)
        BY DEF IsHistory
    <2> QED
        BY <2>1, AppendIs DEF IsSeq
<1> HIDE DEF recorded
<1>3. CASE ~Withdraws(p, n + 1, m)
    <2>1. g = recorded
        BY <1>3 DEF HistoryAfter, recorded
    <2> QED
        BY <1>1, <1>2, <1>3, <2>1
<1>4. CASE Withdraws(p, n + 1, m)
    <2>1. n \in 1..n /\ n \in 1..Len(recorded) /\ n # n + 1
        BY <1>1, <1>2, <1>4 DEF Withdraws
    <2>2. g = Put(recorded, n, WithChallenge(recorded[n]))
        BY <1>4 DEF HistoryAfter, recorded, Put, WithChallenge
    <2>3. IsEntry(recorded[n])
        BY <1>1, <2>1 DEF IsHistory
    <2>4. IsEntry(WithChallenge(recorded[n])) /\ WithChallenge(recorded[n]).move = recorded[n].move
        BY <2>3, ChallengeFields
    <2>5. /\ IsHistory(g) /\ Len(g) = Len(recorded)
          /\ \A i \in 1..Len(recorded) : i # n => g[i] = recorded[i]
          /\ g[n] = WithChallenge(recorded[n])
        BY ONLY <1>1, <2>1, <2>2, <2>4, EntryChanges
    <2>6. n + 1 \in 1..Len(recorded) /\ \A i \in 1..n : i \in 1..Len(recorded)
        BY <1>1, <1>2
    <2> QED
        BY <1>1, <1>2, <1>4, <2>1, <2>5, <2>6
<1> QED
    BY <1>3, <1>4

(* A line that is read keeps the records detailed. *)
LEMMA DetailedMove ==
    ASSUME NEW p, NEW seen, Story(p, seen), Detailed(p, seen),
           NEW m, m.kind \in MoveKinds, ~MoveThrows(p, m), WellFormed(m), NEW q,
           q = ParseMove(p, m)
    PROVE  Detailed(q, Append(seen, Shot(q)))
<1> DEFINE n == Len(p.history)
           next == Append(seen, Shot(q))
           g == q.history
<1>1. IsParse(p) /\ n \in Nat /\ IsHistory(p.history) /\ n + 1 - 1 = n
    BY DEF Story, IsParse, IsHistory, IsSeq
<1>2. /\ m.player \in Players /\ m.rack \in Rack /\ n < MaxRecords /\ Legible(m)
      /\ (p.last # None => p.last.index \in 1..n)
    BY <1>1, GcgAssumption DEF MoveThrows, IsParse, Legible
<1>3. g = HistoryAfter(p, m)
    BY <1>1, MoveHistory
<1>4. /\ Len(g) = n + 1
      /\ g[n + 1] = Record(m, Computed(p, m))
      /\ \A i \in 1..n : ~(i = n /\ Withdraws(p, n + 1, m)) => g[i] = p.history[i]
      /\ Withdraws(p, n + 1, m) => n \in 1..n /\ g[n] = WithChallenge(p.history[n])
    BY <1>1, <1>2, <1>3, HistoryAfterIs
<1>5. /\ Len(seen) = n + 1 /\ IsSeq(seen)
      /\ \A i \in 1..(n + 1) : next[i] = seen[i]
      /\ seen[n + 1].board = p.board /\ seen[n + 1].last = p.last
    BY AppendIs DEF Story, StorySeen, StoryEnds
<1> HIDE DEF next, g
<1>6. Computed(p, m) = Computed(seen[n + 1], m)
    BY <1>5 DEF Computed
<1>7. Withdraws(p, n + 1, m) <=> Withdraws(seen[n + 1], n + 1, m)
    BY <1>5 DEF Withdraws
<1>8. ASSUME NEW i \in 1..n
      PROVE  /\ g[i].move = p.history[i].move /\ g[i].computed = p.history[i].computed
             /\ ~(i = n /\ Withdraws(p, n + 1, m)) => g[i] = p.history[i]
             /\ i = n /\ Withdraws(p, n + 1, m) => g[i].challenged
    <2>1. CASE ~(i = n /\ Withdraws(p, n + 1, m))
        BY <1>4, <2>1
    <2>2. CASE i = n /\ Withdraws(p, n + 1, m)
        <3>1. IsEntry(p.history[n]) /\ g[n] = WithChallenge(p.history[n])
            BY <1>1, <1>4, <2>2 DEF IsHistory
        <3> QED
            BY <2>2, <3>1, ChallengeFields
    <2> QED
        BY <2>1, <2>2
<1>9. g[n + 1].move = m /\ g[n + 1].computed = Computed(p, m) /\ ~g[n + 1].challenged
    BY <1>4 DEF Record
<1>10. \A i \in 1..(n + 1) : i \in 1..n \/ i = n + 1
    BY <1>1
<1>11. ASSUME NEW i \in 1..(n + 1)
       PROVE  Legible(g[i].move) /\ g[i].computed = Computed(next[i], g[i].move)
    <2>1. CASE i \in 1..n
        <3>1. Legible(p.history[i].move)
              /\ p.history[i].computed = Computed(seen[i], p.history[i].move)
            BY <2>1 DEF Detailed
        <3> QED
            BY <1>5, <1>8, <2>1, <3>1
    <2>2. CASE i = n + 1
        BY <1>2, <1>5, <1>6, <1>9, <2>2
    <2> QED
        BY <1>10, <2>1, <2>2
<1>12. ASSUME NEW i \in 1..(n + 1)
       PROVE  g[i].challenged <=>
                 i < n + 1 /\ Withdraws(next[i + 1], i + 1, g[i + 1].move)
    <2>1. CASE i = n + 1
        BY <1>1, <1>9, <2>1
    <2>2. CASE i = n /\ i \in 1..n
        <3>1. p.history[n].challenged <=> n < n
                                          /\ Withdraws(seen[n + 1], n + 1, p.history[n + 1].move)
            BY <2>2 DEF Detailed
        <3>2. ~p.history[n].challenged
            BY <1>1, <3>1
        <3>3. next[n + 1] = seen[n + 1] /\ n < n + 1
            BY <1>1, <1>5
        <3> QED
            BY <1>7, <1>8, <1>9, <2>2, <3>2, <3>3
    <2>3. CASE i # n /\ i \in 1..n
        <3>1. i + 1 \in 1..n /\ i < n /\ i < n + 1 /\ next[i + 1] = seen[i + 1]
            BY <1>1, <1>5, <2>3
        <3>2. g[i] = p.history[i] /\ g[i + 1].move = p.history[i + 1].move
            BY <1>8, <2>3, <3>1
        <3>3. p.history[i].challenged <=> i < n
                                          /\ Withdraws(seen[i + 1], i + 1, p.history[i + 1].move)
            BY <2>3 DEF Detailed
        <3> QED
            BY <3>1, <3>2, <3>3
    <2> QED
        BY <1>10, <2>1, <2>2, <2>3
<1>13. n + 1 <= MaxRecords
    BY <1>1, <1>2, GcgAssumption
<1> QED
    BY <1>4, <1>11, <1>12, <1>13 DEF Detailed, next, g

WithNote(e, text) == [e EXCEPT !.note = text]

LEMMA NoteFields ==
    ASSUME NEW e, IsEntry(e), NEW text
    PROVE  /\ IsEntry(WithNote(e, text)) /\ WithNote(e, text).note = text
           /\ WithNote(e, text).move = e.move /\ WithNote(e, text).challenged = e.challenged
           /\ WithNote(e, text).computed = e.computed
BY DEF IsEntry, WithNote

LEMMA PragmaHistory ==
    ASSUME NEW p, IsParse(p), NEW l
    PROVE  LET n == Len(p.history)
               g == ParsePragma(p, l).history IN
           /\ l.kind = "note" /\ p.history # <<>> =>
                  /\ IsHistory(g) /\ Len(g) = n /\ n \in 1..n
                  /\ g[n] = WithNote(p.history[n], l.text)
                  /\ \A i \in 1..n : i # n => g[i] = p.history[i]
           /\ ~(l.kind = "note" /\ p.history # <<>>) => g = p.history
<1> DEFINE n == Len(p.history)
           g == ParsePragma(p, l).history
<1>1. p = [x \in ParseNames |-> p[x]] /\ IsHistory(p.history) /\ n \in Nat
    BY ParseRecord DEF IsParse, IsHistory, IsSeq
<1>2. CASE l.kind = "note" /\ p.history # <<>>
    <2>1. n \in 1..n
        BY <1>1, <1>2, NoElements DEF IsHistory
    <2>2. g = Put(p.history, n, WithNote(p.history[n], l.text))
        <3> DEFINE h == [p.history EXCEPT ![n].note = l.text]
        <3>1. ParsePragma(p, l) = [p EXCEPT !.history = h]
            BY <1>2 DEF ParsePragma
        <3>2. h = Put(p.history, n, WithNote(p.history[n], l.text))
            BY DEF Put, WithNote
        <3> HIDE DEF h
        <3>3. g = h
            BY <1>1, <3>1 DEF ParseNames
        <3> QED
            BY <3>2, <3>3
    <2>3. IsEntry(p.history[n])
        BY <1>1, <2>1 DEF IsHistory
    <2>4. /\ IsEntry(WithNote(p.history[n], l.text))
          /\ WithNote(p.history[n], l.text).move = p.history[n].move
        BY <2>3, NoteFields
    <2> HIDE DEF g
    <2>5. /\ IsHistory(g) /\ Len(g) = n
          /\ \A i \in 1..n : i # n => g[i] = p.history[i]
          /\ g[n] = WithNote(p.history[n], l.text)
        BY ONLY <1>1, <2>1, <2>2, <2>4, EntryChanges
    <2> QED
        BY <1>2, <2>1, <2>5 DEF g
<1>3. CASE ~(l.kind = "note" /\ p.history # <<>>)
    BY <1>1, <1>3 DEF ParsePragma, ParseNames
<1> QED
    BY <1>2, <1>3

LEMMA DetailedPragma ==
    ASSUME NEW p, NEW seen, Story(p, seen), Detailed(p, seen), NEW l, ~PragmaThrows(p, l)
    PROVE  Detailed(ParsePragma(p, l), seen)
<1> DEFINE q == ParsePragma(p, l)
           n == Len(p.history)
<1>1. IsParse(p) /\ n \in Nat /\ IsHistory(p.history)
    BY DEF Story, IsParse, IsHistory, IsSeq
<1>2. PragmaRead(p, q)
    BY <1>1, ReadOnePragma
<1>3. \A i \in 1..n : q.history[i].computed = p.history[i].computed
    <2>1. CASE l.kind = "note" /\ p.history # <<>>
        <3>1. /\ n \in 1..n
              /\ q.history[n] = WithNote(p.history[n], l.text)
              /\ \A i \in 1..n : i # n => q.history[i] = p.history[i]
            BY <1>1, <2>1, PragmaHistory
        <3>2. IsEntry(p.history[n])
            BY <1>1, <3>1 DEF IsHistory
        <3>3. WithNote(p.history[n], l.text).computed = p.history[n].computed
            BY <3>2, NoteFields
        <3> QED
            BY <3>1, <3>3
    <2>2. CASE ~(l.kind = "note" /\ p.history # <<>>)
        BY <1>1, <2>2, PragmaHistory
    <2> QED
        BY <2>1, <2>2
<1> HIDE DEF q
<1>4. /\ Len(q.history) = n
      /\ \A i \in 1..n : q.history[i].move = p.history[i].move
      /\ \A i \in 1..n : q.history[i].challenged = p.history[i].challenged
    BY <1>2 DEF PragmaRead
<1>5. \A i \in 1..n : i < n => i + 1 \in 1..n
    BY <1>1
<1>6. \A i \in 1..n : /\ Legible(q.history[i].move)
                      /\ q.history[i].computed = Computed(seen[i], q.history[i].move)
    BY <1>3, <1>4 DEF Detailed
<1>7. \A i \in 1..n : q.history[i].challenged <=>
          i < n /\ Withdraws(seen[i + 1], i + 1, q.history[i + 1].move)
    <2> TAKE i \in 1..n
    <2>1. p.history[i].challenged <=>
              i < n /\ Withdraws(seen[i + 1], i + 1, p.history[i + 1].move)
        BY DEF Detailed
    <2>2. i < n => q.history[i + 1].move = p.history[i + 1].move
        BY <1>4, <1>5
    <2> QED
        BY <1>4, <2>1, <2>2
<1> QED
    BY <1>4, <1>6, <1>7 DEF Detailed, q

LEMMA DetailedInit == Detailed(ParseInit, <<Shot(ParseInit)>>)
<1>1. ParseInit.history = <<>>
    BY DEF ParseInit
<1> QED
    BY <1>1, NoElements, GcgAssumption DEF Detailed

(* parseGcg's loop tells a detailed story. *)
LEMMA DetailedLine ==
    ASSUME NEW p, NEW seen, Story(p, seen), Detailed(p, seen), ~p.failed, NEW l, WellFormed(l)
    PROVE  Detailed(ParseLine(p, l), SeenAfter(p, seen, l))
<1>1. IsParse(p)
    BY DEF Story
<1>2. CASE LineThrows(p, l)
    <2>1. ParseLine(p, l) = [p EXCEPT !.failed = TRUE] /\ SeenAfter(p, seen, l) = seen
        BY <1>2 DEF ParseLine, SeenAfter
    <2>2. ParseLine(p, l).history = p.history
        BY <1>1, <2>1 DEF IsParse, ParseFields
    <2> QED
        BY <2>1, <2>2 DEF Detailed
<1>3. CASE ~LineThrows(p, l) /\ l.kind \in MoveKinds
    <2>1. /\ ParseLine(p, l) = ParseMove(p, l) /\ ~MoveThrows(p, l)
          /\ SeenAfter(p, seen, l) = Append(seen, Shot(ParseLine(p, l)))
        BY <1>3 DEF ParseLine, LineThrows, SeenAfter
    <2> QED
        BY <1>3, <2>1, DetailedMove
<1>4. CASE ~LineThrows(p, l) /\ l.kind \notin MoveKinds
    <2>1. /\ ParseLine(p, l) = ParsePragma(p, l) /\ ~PragmaThrows(p, l)
          /\ SeenAfter(p, seen, l) = seen
        BY <1>4 DEF ParseLine, LineThrows, SeenAfter
    <2> QED
        BY <2>1, DetailedPragma
<1> QED
    BY <1>2, <1>3, <1>4

(* Whatever file parseGcg reads, what it has made of it is a detailed story. *)
LEMMA ParseTextStory ==
    ASSUME NEW ls, IsSeq(ls), \A i \in 1..Len(ls) : WellFormed(ls[i])
    PROVE  \E seen : Story(ParseText(ls), seen) /\ Detailed(ParseText(ls), seen)
<1>1. PICK Q : IsRun(Q, "parse", {}, ParseInit, ls) /\ Q[Len(ls)] = ParseText(ls)
    BY ParseTextRuns
<1> DEFINE Told(k) == \E seen : Story(Q[k], seen) /\ Detailed(Q[k], seen)
           T == {k \in Nat : k <= Len(ls) => Told(k)}
<1>2. 0 \in T
    <2>1. Told(0)
        BY <1>1, StoryInit, DetailedInit DEF IsRun
    <2> HIDE DEF Told
    <2> QED
        BY <2>1
<1>3. ASSUME NEW k \in Nat, k \in T
      PROVE  k + 1 \in T
    <2> SUFFICES ASSUME k + 1 <= Len(ls)
                 PROVE  Told(k + 1)
        OBVIOUS
    <2>1. k \in 0..(Len(ls) - 1) /\ k + 1 \in 1..Len(ls) /\ k <= Len(ls)
        BY DEF IsSeq
    <2>2. Q[k + 1] = ParseLine(Q[k], ls[k + 1])
        BY <1>1, <2>1 DEF IsRun, Turn
    <2>3. PICK seen : Story(Q[k], seen) /\ Detailed(Q[k], seen)
        BY <1>3, <2>1
    <2>4. CASE Q[k].failed
        <3>1. Q[k + 1] = Q[k] \/ Q[k + 1] = [Q[k] EXCEPT !.failed = TRUE]
            BY <2>2, <2>4 DEF ParseLine
        <3>2. Story(Q[k + 1], seen)
            BY <2>3, <3>1, StoryThrow
        <3>3. Q[k + 1].history = Q[k].history
            BY <2>3, <3>1 DEF Story, IsParse, ParseFields
        <3>4. Detailed(Q[k + 1], seen)
            BY <2>3, <3>3 DEF Detailed
        <3> QED
            BY <3>2, <3>4
    <2>5. CASE ~Q[k].failed
        <3> DEFINE after == SeenAfter(Q[k], seen, ls[k + 1])
        <3>1. Story(Q[k + 1], after)
            BY <2>1, <2>2, <2>3, <2>5, StoryLine
        <3>2. Detailed(Q[k + 1], after)
            BY <2>1, <2>2, <2>3, <2>5, DetailedLine
        <3> HIDE DEF after
        <3> QED
            BY <3>1, <3>2
    <2> QED
        BY <2>4, <2>5
<1>4. Len(ls) \in T
    <2>1. \A k \in Nat : k \in T => k + 1 \in T
        BY <1>3
    <2>2. Len(ls) \in Nat
        BY DEF IsSeq
    <2> HIDE DEF T
    <2> QED
        BY <1>2, <2>1, <2>2, NatSetInduction
<1>5. Told(Len(ls))
    <2> HIDE DEF Told
    <2> QED
        BY <1>4 DEF IsSeq
<1> QED
    BY <1>1, <1>5

-----------------------------------------------------------------------------
(* An exported file is read again *)

(* A move as exportEntry writes it. *)
Kept(m) == IF m.kind = "end" THEN [m EXCEPT !.rack = 0] ELSE m

LEMMA KeptFields ==
    ASSUME NEW m, m.kind \in MoveKinds, m.rack \in Rack, WellFormed(m)
    PROVE  /\ Kept(m).kind = m.kind /\ Kept(m).player = m.player /\ Kept(m).rack \in Rack
           /\ Kept(m).total = m.total /\ ScoreDelta(Kept(m)) = ScoreDelta(m)
           /\ WellFormed(Kept(m))
           /\ m.kind # "end" => Kept(m) = m
           /\ m.kind = "end" => /\ Kept(m).score = m.score /\ Kept(m).unused = m.unused
                                /\ Kept(m).rack = 0
<1>1. CASE m.kind # "end"
    BY <1>1 DEF Kept
<1>2. CASE m.kind = "end"
    <2>1. DOMAIN m = {"kind", "player", "rack", "unused", "score", "total"}
        BY <1>2 DEF WellFormed
    <2> DEFINE w == [m EXCEPT !.rack = 0]
    <2>2. /\ w.kind = m.kind /\ w.player = m.player /\ w.rack = 0 /\ w.unused = m.unused
          /\ w.score = m.score /\ w.total = m.total /\ DOMAIN w = DOMAIN m
        BY <2>1
    <2>3. Kept(m) = w
        BY <1>2 DEF Kept
    <2> HIDE DEF w
    <2>4. 0 \in Rack
        BY DEF Rack
    <2> QED
        BY <1>2, <2>1, <2>2, <2>3, <2>4 DEF WellFormed, ScoreDelta
<1> QED
    BY <1>1, <1>2

(* A record as it is read again. *)
ReadEntry(e, note, challenged) ==
    [move |-> Kept(e.move), note |-> note, challenged |-> challenged, computed |-> e.computed]

(* The records h' are the first k of h, read again; the last one has got    *)
(* this note so far, and no challenge.                                      *)
SameRecords(g, h, k, note) ==
    /\ Len(g) = k
    /\ \A i \in 1..k : i # k => g[i] = ReadEntry(h[i], h[i].note, h[i].challenged)
    /\ k \in 1..k => g[k] = ReadEntry(h[k], note, FALSE)

SameTurn(r, players, h, k) ==
    /\ (\A i \in 1..k : ~IsDecision(h[i])) => r.current = None
    /\ \A d : LastDecision(h, k, d) => r.current = NextPlayer(players, h[d].move.player)

(* r is what the parser has of an exported file after its k-th record. *)
Again(r, p, seen, k, note) ==
    /\ IsParse(r) /\ ~r.failed /\ r.players = p.players
    /\ r.board = seen[k + 1].board /\ r.scores = seen[k + 1].scores
    /\ r.last = seen[k + 1].last
    /\ SameRecords(r.history, p.history, k, note)
    /\ SameTurn(r, p.players, p.history, k)
    /\ r.racks = [q \in Players |-> 0] /\ r.incomplete = 0

(* A record that was read once is read again, unless it is an end bonus     *)
(* that has lost its rack and has no score.                                 *)
Rereadable(e) == e.move.kind = "end" => e.move.score # None

LEMMA AgainThrows ==
    ASSUME NEW p, NEW seen, Story(p, seen), Detailed(p, seen), NEW k \in 0..(Len(p.history) - 1),
           NEW r, NEW note, Again(r, p, seen, k, note)
    PROVE  MoveThrows(r, Kept(p.history[k + 1].move)) <=> ~Rereadable(p.history[k + 1])
<1> DEFINE e == p.history[k + 1]
           m == e.move
<1>1. /\ IsParse(p) /\ k + 1 \in 1..Len(p.history) /\ IsEntry(e) /\ Len(p.history) \in Nat
    BY DEF Story, IsParse, IsHistory, IsSeq
<1>2. /\ Legible(m) /\ Len(r.history) < MaxRecords
    BY <1>1, GcgAssumption DEF Detailed, Again, SameRecords
<1>3. Recorded(seen[k + 1], k + 1, m, PlayerBefore(p.history, k + 1), seen[k + 2])
    <2>1. k + 1 + 1 = k + 2
        OBVIOUS
    <2> QED
        BY <1>1, <2>1 DEF Story, StoryRecords
<1>4. m.player \in r.players
    <2>1. k + 2 \in 1..Len(seen)
        BY <1>1 DEF Story, StorySeen
    <2> QED
        BY <1>3, <2>1 DEF Story, StorySeen, Recorded, Again
<1>5. m.kind = "place" => ~PlaceThrows(r.board, m)
    BY <1>3 DEF Recorded, Again
<1>6. m.kind \in MoveKinds /\ m.rack \in Rack /\ WellFormed(m)
    BY <1>1 DEF IsEntry
<1> HIDE DEF m
<1>7. /\ Kept(m).kind = m.kind /\ Kept(m).player = m.player /\ Kept(m).rack \in Rack
      /\ m.kind # "end" => Kept(m) = m
      /\ m.kind = "end" => /\ Kept(m).score = m.score /\ Kept(m).unused = m.unused
                           /\ Kept(m).rack = 0
    BY <1>6, KeptFields
<1>8. ~(Len(r.history) >= MaxRecords)
    BY <1>1, <1>2, GcgAssumption DEF Again, SameRecords
<1>9. CASE m.kind # "end"
    BY <1>2, <1>4, <1>5, <1>7, <1>8, <1>9 DEF MoveThrows, Legible, Rereadable, m
<1>10. CASE m.kind = "end"
    BY <1>2, <1>4, <1>7, <1>8, <1>10 DEF MoveThrows, Legible, Rereadable, m
<1> QED
    BY <1>9, <1>10 DEF m

(* A move does the same to the same snapshot when it is read again. *)
LEMMA SameMove ==
    ASSUME NEW a, NEW b, NEW c, NEW d, NEW i, NEW m, NEW q, NEW s,
           m.kind \in MoveKinds, m.rack \in Rack, WellFormed(m),
           a.board = c.board, a.scores = c.scores, a.last = c.last,
           Recorded(a, i, m, q, b), Recorded(c, i, Kept(m), s, d),
           Withdraws(a, i, m) => q = s
    PROVE  b.board = d.board /\ b.scores = d.scores /\ b.last = d.last
<1>1. /\ Kept(m).kind = m.kind /\ Kept(m).player = m.player
      /\ ScoreDelta(Kept(m)) = ScoreDelta(m) /\ (m.kind # "end" => Kept(m) = m)
    BY KeptFields
<1>2. CASE m.kind = "place"
    BY <1>1, <1>2 DEF Recorded
<1>3. CASE m.kind \in {"pass", "exchange"}
    BY <1>1, <1>3 DEF Recorded
<1>4. CASE m.kind = "phony"
    BY <1>1, <1>4 DEF Recorded, Withdraws
<1>5. CASE m.kind \in {"adjustment", "time", "end"}
    BY <1>1, <1>5 DEF Recorded
<1> QED
    BY <1>2, <1>3, <1>4, <1>5 DEF MoveKinds, DecisionKinds

LEMMA ChallengedRead ==
    ASSUME NEW e, IsEntry(e), e.challenged, NEW f, f = ReadEntry(e, e.note, FALSE)
    PROVE  WithChallenge(f) = ReadEntry(e, e.note, e.challenged)
<1>1. e.challenged = TRUE
    BY DEF IsEntry
<1>2. PICK t \in BOOLEAN : t = TRUE
    OBVIOUS
<1>3. PICK u \in BOOLEAN : u = FALSE
    OBVIOUS
<1>4. f = ReadEntry(e, e.note, u) /\ WithChallenge(f) = [f EXCEPT !.challenged = t]
    BY <1>2, <1>3, Zenon DEF WithChallenge
<1>5. WithChallenge(f) = ReadEntry(e, e.note, t)
    BY <1>4 DEF ReadEntry
<1> QED
    BY <1>1, <1>2, <1>5, Zenon

LEMMA AgainMove ==
    ASSUME NEW p, NEW seen, Story(p, seen), Detailed(p, seen), NEW k \in 0..(Len(p.history) - 1),
           NEW r, Again(r, p, seen, k, p.history[k].note), Rereadable(p.history[k + 1]),
           NEW q, q = ParseLine(r, Kept(p.history[k + 1].move))
    PROVE  Again(q, p, seen, k + 1, None)
<1> DEFINE h == p.history
           e == h[k + 1]
           m == e.move
           w == Kept(m)
<1>1. /\ IsParse(p) /\ k + 1 \in 1..Len(h) /\ IsEntry(e) /\ Len(h) \in Nat /\ IsHistory(h)
      /\ k \in Nat /\ k + 1 - 1 = k
    BY DEF Story, IsParse, IsHistory, IsSeq
<1>2. m.kind \in MoveKinds /\ m.player \in Players /\ m.rack \in Rack /\ WellFormed(m)
    BY <1>1 DEF IsEntry
<1> HIDE DEF m
<1>3. /\ w.kind = m.kind /\ w.player = m.player /\ w.rack \in Rack /\ WellFormed(w)
      /\ w.kind \in MoveKinds /\ (m.kind # "end" => w = m)
    BY <1>2, KeptFields
<1>4. ~MoveThrows(r, w)
    BY AgainThrows DEF m
<1> HIDE DEF w
<1>5. IsParse(r) /\ ~r.failed /\ Len(r.history) = k
    BY DEF Again, SameRecords
<1>6. q = ParseMove(r, w)
    BY <1>3, <1>4, <1>5 DEF ParseLine, LineThrows, w, m
<1>7. MoveRead(r, w, q)
    BY <1>3, <1>4, <1>5, <1>6, ReadOneMove
<1>8. q.history = HistoryAfter(r, w)
    BY <1>3, <1>5, <1>6, MoveHistory
<1> DEFINE g == q.history
<1>9. /\ IsHistory(g) /\ Len(g) = k + 1
      /\ g[k + 1] = Record(w, Computed(r, w))
      /\ \A i \in 1..k : ~(i = k /\ Withdraws(r, k + 1, w)) => g[i] = r.history[i]
      /\ Withdraws(r, k + 1, w) => k \in 1..k /\ g[k] = WithChallenge(r.history[k])
    <2>1. IsHistory(r.history) /\ (r.last # None => r.last.index \in 1..Len(r.history))
        BY <1>5 DEF IsParse
    <2>2. w.player \in Players
        BY <1>2, <1>3
    <2> QED
        BY <1>3, <1>5, <1>8, <2>1, <2>2, HistoryAfterIs
<1>10. /\ r.board = seen[k + 1].board /\ r.scores = seen[k + 1].scores
       /\ r.last = seen[k + 1].last
    BY DEF Again
<1>11. Withdraws(r, k + 1, w) <=> Withdraws(seen[k + 1], k + 1, m)
    BY <1>3, <1>10 DEF Withdraws
<1>12. Computed(r, w) = Computed(seen[k + 1], m)
    BY <1>3, <1>10 DEF Computed
<1>13. e.computed = Computed(seen[k + 1], m)
    BY <1>1 DEF Detailed, m
<1>14. g[k + 1] = ReadEntry(e, None, FALSE)
    BY <1>9, <1>12, <1>13 DEF ReadEntry, Record, w, m
<1>15. k \in 1..k => (h[k].challenged <=> Withdraws(seen[k + 1], k + 1, m))
    <2> SUFFICES ASSUME k \in 1..k
                 PROVE  h[k].challenged <=> Withdraws(seen[k + 1], k + 1, m)
        OBVIOUS
    <2>1. k \in 1..Len(h) /\ k < Len(h)
        BY <1>1
    <2> QED
        BY <2>1 DEF Detailed, m
<1>16. ASSUME NEW i \in 1..k
       PROVE  g[i] = ReadEntry(h[i], h[i].note, h[i].challenged)
    <2>0. i \in 1..Len(h) /\ IsEntry(h[i]) /\ k \in 1..k
        BY <1>1 DEF IsHistory
    <2>1. CASE i # k
        BY <1>9, <2>1 DEF Again, SameRecords
    <2>2. CASE i = k /\ Withdraws(r, k + 1, w)
        <3>1. r.history[k] = ReadEntry(h[k], h[k].note, FALSE)
            BY <2>0 DEF Again, SameRecords
        <3>2. g[k] = WithChallenge(r.history[k]) /\ h[k].challenged
            BY <1>9, <1>11, <1>15, <2>0, <2>2
        <3> QED
            BY <2>0, <2>2, <3>1, <3>2, ChallengedRead
    <2>3. CASE i = k /\ ~Withdraws(r, k + 1, w)
        <3>1. r.history[k] = ReadEntry(h[k], h[k].note, FALSE)
            BY <2>0 DEF Again, SameRecords
        <3>2. g[k] = r.history[k] /\ ~h[k].challenged
            BY <1>9, <1>11, <1>15, <2>0, <2>3
        <3>3. h[k].challenged = FALSE
            BY <2>0, <2>3, <3>2 DEF IsEntry
        <3> QED
            BY <2>3, <3>1, <3>2, <3>3
    <2> QED
        BY <2>1, <2>2, <2>3
<1>17. SameRecords(g, h, k + 1, None)
    <2>1. \A i \in 1..(k + 1) : i # k + 1 => i \in 1..k
        BY <1>1
    <2> QED
        BY <1>9, <1>14, <1>16, <2>1 DEF SameRecords
<1>18. q.players = r.players /\ q.racks = r.racks /\ q.incomplete = r.incomplete
       /\ q.failed = r.failed /\ IsParse(q)
       /\ q.current = IF m.kind \in DecisionKinds THEN NextPlayer(r.players, m.player)
                      ELSE r.current
    BY <1>3, <1>7 DEF MoveRead
<1>19. q.board = seen[k + 2].board /\ q.scores = seen[k + 2].scores /\ q.last = seen[k + 2].last
    <2>1. Recorded(seen[k + 1], k + 1, m, PlayerBefore(h, k + 1), seen[k + 2])
        <3>1. k + 1 + 1 = k + 2
            OBVIOUS
        <3> QED
            BY <1>1, <3>1 DEF Story, StoryRecords, m
    <2>2. Recorded(Shot(r), k + 1, w, PlayerBefore(g, k + 1), Shot(q))
        BY <1>7, <1>9 DEF MoveRead
    <2>3. /\ Shot(r).board = seen[k + 1].board /\ Shot(r).scores = seen[k + 1].scores
          /\ Shot(r).last = seen[k + 1].last
        BY <1>10 DEF Shot
    <2>4. Withdraws(seen[k + 1], k + 1, m) => PlayerBefore(h, k + 1) = PlayerBefore(g, k + 1)
        <3>0. \A x : PlayerBefore(x, k + 1) = x[k].move.player
            <4> DEFINE i == k + 1
            <4>1. i - 1 = k
                BY <1>1
            <4> HIDE DEF i
            <4>2. \A x : PlayerBefore(x, i) = x[k].move.player
                BY <4>1 DEF PlayerBefore
            <4> QED
                BY <4>2 DEF i
        <3> SUFFICES ASSUME Withdraws(seen[k + 1], k + 1, m)
                     PROVE  h[k].move.player = g[k].move.player
            <4> HIDE DEF h, g
            <4> QED
                BY <3>0
        <3>1. k \in 1..k /\ k \in 1..Len(h)
            BY <1>1, <1>9, <1>11
        <3>2. IsEntry(h[k]) /\ g[k] = ReadEntry(h[k], h[k].note, h[k].challenged)
            BY <1>1, <1>16, <3>1 DEF IsHistory
        <3>3. Kept(h[k].move).player = h[k].move.player
            BY <3>2, KeptFields DEF IsEntry
        <3> QED
            BY <3>2, <3>3 DEF ReadEntry
    <2>5. Shot(q).board = q.board /\ Shot(q).scores = q.scores /\ Shot(q).last = q.last
        BY DEF Shot
    <2>6. /\ seen[k + 2].board = Shot(q).board /\ seen[k + 2].scores = Shot(q).scores
          /\ seen[k + 2].last = Shot(q).last
        BY <1>2, <2>1, <2>2, <2>3, <2>4, SameMove DEF w
    <2> QED
        BY <2>5, <2>6
<1>20. SameTurn(q, p.players, h, k + 1)
    <2>1. IsDecision(e) <=> m.kind \in DecisionKinds
        BY DEF IsDecision, m
    <2>2. SameTurn(r, p.players, h, k) /\ r.players = p.players
        BY DEF Again
    <2>3. \A i \in 1..k : i \in 1..(k + 1)
        BY <1>1
    <2>4. CASE IsDecision(e)
        <3>1. q.current = NextPlayer(p.players, m.player)
            BY <1>18, <2>1, <2>2, <2>4
        <3>2. \A d : LastDecision(h, k + 1, d) => d = k + 1
            <4> SUFFICES ASSUME NEW d, LastDecision(h, k + 1, d), d # k + 1
                         PROVE  FALSE
                OBVIOUS
            <4>1. k + 1 \in (d + 1)..(k + 1)
                BY <1>1 DEF LastDecision
            <4> QED
                BY <2>4, <4>1 DEF LastDecision
        <3>3. k + 1 \in 1..(k + 1)
            BY <1>1
        <3> QED
            BY <2>4, <3>1, <3>2, <3>3 DEF SameTurn, m
    <2>5. CASE ~IsDecision(e)
        <3>1. q.current = r.current
            BY <1>18, <2>1, <2>5
        <3>2. \A d : LastDecision(h, k + 1, d) => LastDecision(h, k, d)
            <4> SUFFICES ASSUME NEW d, LastDecision(h, k + 1, d)
                         PROVE  LastDecision(h, k, d)
                OBVIOUS
            <4>1. d \in 1..k /\ \A j \in (d + 1)..k : j \in (d + 1)..(k + 1)
                BY <1>1, <2>5 DEF LastDecision
            <4> QED
                BY <4>1 DEF LastDecision
        <3> QED
            BY <2>2, <2>3, <3>1, <3>2 DEF SameTurn
    <2> QED
        BY <2>4, <2>5
<1>21. k + 1 + 1 = k + 2
    BY <1>1
<1> QED
    BY <1>5, <1>17, <1>18, <1>19, <1>20, <1>21 DEF Again

NoteLine(text) == [kind |-> "note", text |-> text]

LEMMA AgainNote ==
    ASSUME NEW p, NEW seen, NEW k \in Nat \ {0}, NEW r, Again(r, p, seen, k, None),
           NEW text, NEW q, q = ParseLine(r, NoteLine(text))
    PROVE  Again(q, p, seen, k, text)
<1> DEFINE l == NoteLine(text)
           h == p.history
           e == h[k]
<1>1. /\ IsParse(r) /\ ~r.failed /\ Len(r.history) = k /\ k \in 1..k
      /\ r = [x \in ParseNames |-> r[x]] /\ IsHistory(r.history)
    BY ParseRecord DEF Again, SameRecords, IsParse
<1>2. r.history # <<>>
    BY <1>1, NoElements
<1>3. l.kind = "note" /\ l.text = text /\ l.kind \notin MoveKinds
    BY DEF NoteLine, MoveKinds, DecisionKinds
<1> HIDE DEF l
<1>4. q = ParsePragma(r, l) /\ ~PragmaThrows(r, l)
    BY <1>1, <1>3 DEF ParseLine, LineThrows, PragmaThrows, l
<1>5. PragmaRead(r, q)
    BY <1>1, <1>4, ReadOnePragma
<1>6. q.players = r.players /\ q.racks = r.racks /\ q.incomplete = r.incomplete
    <2> DEFINE g == [r.history EXCEPT ![Len(r.history)].note = l.text]
    <2>1. q = [r EXCEPT !.history = g]
        BY <1>2, <1>3, <1>4 DEF ParsePragma
    <2> HIDE DEF g
    <2> QED
        BY <1>1, <2>1 DEF ParseNames
<1> DEFINE g == q.history
<1>7. /\ IsHistory(g) /\ Len(g) = k /\ g[k] = WithNote(r.history[k], text)
      /\ \A i \in 1..k : i # k => g[i] = r.history[i]
    <2>1. IsParse(r)
        BY <1>1
    <2>2. /\ IsHistory(ParsePragma(r, l).history)
          /\ Len(ParsePragma(r, l).history) = Len(r.history)
          /\ ParsePragma(r, l).history[Len(r.history)]
                 = WithNote(r.history[Len(r.history)], l.text)
          /\ \A i \in 1..Len(r.history) :
                 i # Len(r.history) => ParsePragma(r, l).history[i] = r.history[i]
        BY ONLY <1>2, <1>3, <2>1, PragmaHistory
    <2> QED
        BY <1>1, <1>3, <1>4, <2>2
<1> HIDE DEF g
<1>8. g[k] = ReadEntry(e, text, FALSE)
    <2>1. r.history[k] = ReadEntry(e, None, FALSE)
        BY <1>1 DEF Again, SameRecords
    <2>2. PICK u \in BOOLEAN : u = FALSE
        OBVIOUS
    <2>3. r.history[k] = ReadEntry(e, None, u)
        BY <2>1, <2>2, Zenon
    <2>4. g[k] = ReadEntry(e, text, u)
        BY <1>7, <2>3 DEF WithNote, ReadEntry
    <2> QED
        BY <2>2, <2>4, Zenon
<1>9. SameRecords(g, h, k, text)
    BY <1>7, <1>8 DEF Again, SameRecords
<1>10. /\ q.board = r.board /\ q.scores = r.scores /\ q.last = r.last
       /\ q.current = r.current /\ q.failed = r.failed /\ IsParse(q)
    BY <1>5 DEF PragmaRead
<1> QED
    BY <1>6, <1>9, <1>10 DEF Again, SameTurn, g

LEMMA StaysFailed ==
    ASSUME NEW s, IsSeq(s), ParseText(s).failed, NEW t, IsSeq(t)
    PROVE  ParseText(s \o t).failed
<1> DEFINE C(i) == s \o SubSeq(t, 1, i)
           T == {i \in Nat : i <= Len(t) => /\ IsSeq(SubSeq(t, 1, i))
                                            /\ ParseText(C(i)).failed}
<1>1. Len(t) \in Nat /\ t = [j \in 1..Len(t) |-> t[j]]
    BY DEF IsSeq
<1>2. \A i \in Nat : SubSeq(t, 1, i) = [j \in 1..i |-> t[j]]
    BY DEF SubSeq
<1>3. 0 \in T
    <2>1. 1..0 = {}
        OBVIOUS
    <2>2. SubSeq(t, 1, 0) = <<>>
        BY <1>2, <2>1
    <2> QED
        BY <2>2, NoElements, ConcatEmpty
<1>4. ASSUME NEW i \in Nat, i \in T
      PROVE  i + 1 \in T
    <2> SUFFICES ASSUME i + 1 <= Len(t)
                 PROVE  IsSeq(SubSeq(t, 1, i + 1)) /\ ParseText(C(i + 1)).failed
        OBVIOUS
    <2> DEFINE a == SubSeq(t, 1, i)
               b == SubSeq(t, 1, i + 1)
               x == t[i + 1]
    <2>1. IsSeq(a) /\ ParseText(s \o a).failed
        BY <1>1, <1>4
    <2>2. a = [j \in 1..i |-> t[j]] /\ b = [j \in 1..(i + 1) |-> t[j]]
        BY <1>2
    <2> HIDE DEF a, b
    <2>3. Len(a) = i
        BY <2>1, <2>2 DEF IsSeq
    <2>4. /\ IsSeq(Append(a, x)) /\ Len(Append(a, x)) = i + 1
          /\ \A j \in 1..i : Append(a, x)[j] = a[j]
          /\ Append(a, x)[i + 1] = x
        BY <2>1, <2>3, AppendIs
    <2>5. \A j \in 1..(i + 1) : Append(a, x)[j] = t[j]
        <3>1. \A j \in 1..(i + 1) : j \in 1..i \/ j = i + 1
            OBVIOUS
        <3>2. \A j \in 1..i : a[j] = t[j]
            BY <2>2
        <3> QED
            BY <2>4, <3>1, <3>2
    <2>6. b = Append(a, x)
        <3>1. Append(a, x) = [j \in 1..(i + 1) |-> Append(a, x)[j]]
            BY <2>4 DEF IsSeq
        <3> QED
            BY <2>2, <2>5, <3>1
    <2>7. s \o b = Append(s \o a, x) /\ IsSeq(s \o a)
        <3>1. IsSeq(s) /\ IsSeq(a)
            BY <2>1
        <3>2. s \o Append(a, x) = Append(s \o a, x) /\ IsSeq(s \o a)
            BY ONLY <3>1, ConcatAppend, ConcatIs
        <3> QED
            BY <2>6, <3>2
    <2>8. ParseText(s \o b) = ParseLine(ParseText(s \o a), x)
        BY <2>7, ParseMore
    <2>9. ParseText(s \o b).failed
        BY <2>1, <2>8 DEF ParseLine
    <2> QED
        BY <2>4, <2>6, <2>9 DEF b
<1>5. Len(t) \in T
    <2>1. \A i \in Nat : i \in T => i + 1 \in T
        BY <1>4
    <2> HIDE DEF T
    <2> QED
        BY <1>1, <1>3, <2>1, NatSetInduction
<1>6. SubSeq(t, 1, Len(t)) = t
    <2>1. SubSeq(t, 1, Len(t)) = [j \in 1..Len(t) |-> t[j]]
        BY <1>1, <1>2
    <2> QED
        BY ONLY <1>1, <2>1
<1>7. ParseText(C(Len(t))).failed
    BY <1>1, <1>5
<1> QED
    BY <1>6, <1>7

LEMMA EntryText ==
    ASSUME NEW e, NEW phonyNext
    PROVE  /\ IsSeq(ExportEntry(e, phonyNext))
           /\ ~ChallengeMissing(e, phonyNext) =>
                  ExportEntry(e, phonyNext) = IF e.note = None THEN <<Kept(e.move)>>
                                              ELSE Append(<<Kept(e.move)>>, NoteLine(e.note))
<1> DEFINE m == e.move
           challenge == [kind |-> "phony", player |-> m.player, rack |-> m.rack,
                         score |-> IF m.score = None THEN None ELSE -m.score,
                         total |-> m.total]
           a == <<Kept(m)>>
           b == IF ChallengeMissing(e, phonyNext) THEN <<challenge>> ELSE <<>>
           c == IF e.note = None THEN <<>> ELSE <<NoteLine(e.note)>>
<1>1. ExportEntry(e, phonyNext) = a \o b \o c
    BY DEF ExportEntry, Kept, NoteLine
<1>2. IsSeq(a)
    BY OneElement
<1> HIDE DEF challenge
<1>3. IsSeq(b) /\ IsSeq(c)
    BY OneElement, NoElements
<1> HIDE DEF a
<1>4. ~ChallengeMissing(e, phonyNext) => b = <<>>
    OBVIOUS
<1>5. c = IF e.note = None THEN <<>> ELSE <<NoteLine(e.note)>>
    OBVIOUS
<1> HIDE DEF b, c
<1>6. IsSeq(a \o b \o c)
    BY <1>2, <1>3, ConcatIs
<1>7. a \o <<>> = a /\ \A x : a \o <<x>> = Append(a, x)
    BY <1>2, ConcatEmpty, ConcatOne
<1>8. ~ChallengeMissing(e, phonyNext) =>
          a \o b \o c = IF e.note = None THEN a ELSE Append(a, NoteLine(e.note))
    BY <1>4, <1>5, <1>7
<1> QED
    BY <1>1, <1>6, <1>8 DEF a

(* One more record of an exported file is read. *)
LEMMA AgainEntry ==
    ASSUME NEW p, NEW seen, Story(p, seen), Detailed(p, seen), NEW k \in 0..(Len(p.history) - 1),
           NEW X, IsSeq(X), Again(ParseText(X), p, seen, k, p.history[k].note),
           NEW phonyNext, NEW Y, Y = X \o ExportEntry(p.history[k + 1], phonyNext),
           phonyNext <=> k + 1 < Len(p.history) /\ p.history[k + 2].move.kind = "phony"
    PROVE  IF Rereadable(p.history[k + 1])
           THEN Again(ParseText(Y), p, seen, k + 1, p.history[k + 1].note)
           ELSE ParseText(Y).failed
<1> DEFINE h == p.history
           e == h[k + 1]
           w == Kept(e.move)
           r == ParseText(X)
           q == ParseLine(r, w)
<1>1. /\ k + 1 \in 1..Len(h) /\ IsEntry(e) /\ k \in Nat /\ k + 1 + 1 = k + 2
      /\ Len(h) \in Nat
    BY DEF Story, IsParse, IsHistory, IsSeq
<1>2. ~ChallengeMissing(e, phonyNext)
    <2>1. e.challenged => k + 1 < Len(h) /\ h[k + 2].move.kind = "phony"
        BY <1>1 DEF Detailed, Withdraws
    <2> QED
        BY <2>1 DEF ChallengeMissing
<1>3. Y = IF e.note = None THEN Append(X, w) ELSE Append(Append(X, w), NoteLine(e.note))
    <2> DEFINE E == ExportEntry(e, phonyNext)
    <2>1. E = IF e.note = None THEN <<w>> ELSE Append(<<w>>, NoteLine(e.note))
        BY <1>2, EntryText
    <2> HIDE DEF E, w
    <2>2. IsSeq(X) /\ IsSeq(<<w>>)
        BY OneElement
    <2>3. X \o <<w>> = Append(X, w)
        BY ONLY <2>2, ConcatOne
    <2>4. \A l : X \o Append(<<w>>, l) = Append(X \o <<w>>, l)
        BY ONLY <2>2, ConcatAppend
    <2> QED
        BY <2>1, <2>3, <2>4 DEF E
<1> HIDE DEF w
<1>4. IsSeq(Append(X, w)) /\ ParseText(Append(X, w)) = q
    BY AppendIs, ParseMore
<1>5. \A l : ParseText(Append(Append(X, w), l)) = ParseLine(q, l)
    BY <1>4, ParseMore
<1>6. ~r.failed /\ w.kind \in MoveKinds
    <2>1. w.kind = e.move.kind
        BY <1>1, KeptFields DEF IsEntry, w
    <2> QED
        BY <1>1, <2>1 DEF Again, IsEntry
<1>7. CASE ~Rereadable(e)
    <2>1. MoveThrows(r, w)
        BY <1>7, AgainThrows DEF w
    <2>2. q = [r EXCEPT !.failed = TRUE]
        BY <1>6, <2>1 DEF ParseLine, LineThrows
    <2>3. r = [x \in ParseNames |-> r[x]]
        BY ParseRecord DEF Again, IsParse
    <2> HIDE DEF q, r
    <2>4. q.failed
        <3>1. PICK t \in BOOLEAN : t = TRUE
            OBVIOUS
        <3>2. q = [r EXCEPT !.failed = t]
            BY <2>2, <3>1, Zenon
        <3>3. q.failed = t
            BY <2>3, <3>2 DEF ParseNames
        <3> QED
            BY <3>1, <3>3, Zenon
    <2>5. \A l : ParseLine(q, l).failed
        BY <2>4 DEF ParseLine
    <2>6. ParseText(Y).failed
        BY <1>3, <1>4, <1>5, <2>4, <2>5
    <2> QED
        BY <1>7, <2>6
<1>8. CASE Rereadable(e)
    <2>1. Again(q, p, seen, k + 1, None)
        BY <1>8, AgainMove DEF w
    <2>2. Again(ParseLine(q, NoteLine(e.note)), p, seen, k + 1, e.note)
        <3>1. k + 1 \in Nat \ {0}
            BY <1>1
        <3> HIDE DEF q, e, r
        <3> QED
            BY <2>1, <3>1, AgainNote
    <2>3. Again(ParseText(Y), p, seen, k + 1, e.note)
        <3>1. CASE e.note = None
            <4>1. ParseText(Y) = q
                BY <1>3, <1>4, <3>1
            <4> QED
                BY <2>1, <3>1, <4>1
        <3>2. CASE e.note # None
            <4>1. ParseText(Y) = ParseLine(q, NoteLine(e.note))
                BY <1>3, <1>5, <3>2
            <4> QED
                BY <2>2, <4>1
        <3> QED
            BY <3>1, <3>2
    <2> QED
        BY <1>8, <2>3
<1> QED
    BY <1>7, <1>8

LEMMA FunctionIsSeq ==
    ASSUME NEW n \in Nat, NEW f, f = [i \in 1..n |-> f[i]]
    PROVE  IsSeq(f) /\ Len(f) = n
<1> DEFINE R == {f[i] : i \in 1..n}
<1>1. \A i \in 1..n : f[i] \in R
    OBVIOUS
<1> HIDE DEF R
<1>2. [i \in 1..n |-> f[i]] \in Seq(R)
    BY <1>1, IsASeq
<1>3. f \in Seq(R)
    BY <1>2
<1>4. Len(f) = n
    BY <1>3, LenProperties
<1> QED
    BY <1>4 DEF IsSeq

(* The lines of an exported file before its records. *)
Declared(players, id) ==
    IF id \in players THEN <<[kind |-> "player", id |-> id]>> ELSE <<>>
Heading(players) == FlattenSeq([id \in Players |-> Declared(players, id)])

Joined(players) == [ParseInit EXCEPT !.players = players]

LEMMA JoinedFields ==
    ASSUME NEW players \in SUBSET Players
    PROVE  LET r == Joined(players) IN
           /\ IsParse(r) /\ ~r.failed /\ r.players = players /\ r.history = <<>>
           /\ r.board = EmptyBoard /\ r.scores = [q \in Players |-> 0] /\ r.current = None
           /\ r.last = None /\ r.racks = [q \in Players |-> 0] /\ r.incomplete = 0
           /\ \A more : [r EXCEPT !.players = more] = Joined(more)
<1>1. IsParse(ParseInit)
    BY StoryInit DEF Story
<1>2. ParseInit = [x \in ParseNames |-> ParseInit[x]]
    BY <1>1, ParseRecord DEF IsParse
<1>3. /\ ~ParseInit.failed /\ ParseInit.history = <<>> /\ ParseInit.board = EmptyBoard
      /\ ParseInit.scores = [q \in Players |-> 0] /\ ParseInit.current = None
      /\ ParseInit.last = None /\ ParseInit.racks = [q \in Players |-> 0]
      /\ ParseInit.incomplete = 0
    BY DEF ParseInit
<1> DEFINE r == Joined(players)
<1>4. /\ r = [x \in ParseNames |-> r[x]] /\ r.players = players
      /\ \A x \in ParseNames : x # "players" => r[x] = ParseInit[x]
      /\ \A more : [r EXCEPT !.players = more] = Joined(more)
    BY <1>2 DEF Joined, ParseNames
<1> HIDE DEF r
<1>5. /\ r.history = ParseInit.history /\ r.board = ParseInit.board
      /\ r.scores = ParseInit.scores /\ r.current = ParseInit.current
      /\ r.last = ParseInit.last /\ r.racks = ParseInit.racks
      /\ r.incomplete = ParseInit.incomplete /\ r.failed = ParseInit.failed
    BY <1>4 DEF ParseNames
<1>6. IsParse(r)
    BY <1>1, <1>4, <1>5, ParseRecord DEF IsParse
<1> QED
    BY <1>3, <1>4, <1>5, <1>6 DEF r

LEMMA HeadingRead ==
    ASSUME NEW players \in SUBSET Players
    PROVE  IsSeq(Heading(players)) /\ ParseText(Heading(players)) = Joined(players)
<1> DEFINE ss == [id \in Players |-> Declared(players, id)]
           Some(k) == players \cap 1..k
<1>0. MaxPlayers \in Nat /\ Players = 1..MaxPlayers
    BY GcgAssumption DEF Players
<1>1. IsSeq(ss) /\ Len(ss) = MaxPlayers
    <2>1. ss = [i \in 1..MaxPlayers |-> ss[i]]
        BY <1>0
    <2> HIDE DEF ss
    <2> QED
        BY <1>0, <2>1, FunctionIsSeq
<1>2. \A i \in 1..Len(ss) : ss[i] = Declared(players, i) /\ IsSeq(ss[i])
    <2> TAKE i \in 1..Len(ss)
    <2>1. ss[i] = Declared(players, i)
        BY <1>0, <1>1
    <2> QED
        BY <2>1, OneElement, NoElements DEF Declared
<1> HIDE DEF ss
<1>3. PICK F : IsFlat(F, ss)
    BY <1>1, <1>2, Flattens
<1> DEFINE T == {k \in Nat : k <= MaxPlayers => ParseText(F[k]) = Joined(Some(k))}
<1>4. 0 \in T
    <2>1. F[0] = <<>> /\ ParseText(<<>>) = ParseInit
        BY <1>3, ParseMore DEF IsFlat
    <2>2. Some(0) = {}
        OBVIOUS
    <2>3. Joined({}) = ParseInit
        <3>1. ParseInit = [x \in ParseNames |-> ParseInit[x]]
            BY StoryInit, ParseRecord DEF Story, IsParse
        <3>2. ParseInit.players = {}
            BY DEF ParseInit
        <3> QED
            BY <3>1, <3>2 DEF Joined, ParseNames
    <2> QED
        BY <2>1, <2>2, <2>3
<1>5. ASSUME NEW k \in Nat, k \in T
      PROVE  k + 1 \in T
    <2> SUFFICES ASSUME k + 1 <= MaxPlayers
                 PROVE  ParseText(F[k + 1]) = Joined(Some(k + 1))
        OBVIOUS
    <2> DEFINE r == Joined(Some(k))
               j == k + 1
               l == [kind |-> "player", id |-> j]
    <2>1. /\ k \in 0..(Len(ss) - 1) /\ j \in 1..Len(ss) /\ k \in 0..Len(ss)
          /\ j \in Players /\ ParseText(F[k]) = r
        BY <1>0, <1>1, <1>5
    <2>2. F[j] = F[k] \o Declared(players, j) /\ IsSeq(F[k])
        BY <1>2, <1>3, <2>1 DEF IsFlat
    <2>3. Some(k) \in SUBSET Players
        BY <1>0
    <2>4. Some(j) = IF j \in players THEN Some(k) \cup {j} ELSE Some(k)
        <3>1. 1..j = (1..k) \cup {j}
            OBVIOUS
        <3> QED
            BY <3>1
    <2>5. j \notin Some(k)
        OBVIOUS
    <2> HIDE DEF Some, j, r
    <2>6. CASE j \notin players
        <3>1. Declared(players, j) = <<>>
            BY <2>6 DEF Declared
        <3>2. F[j] = F[k]
            BY <2>2, <3>1, ConcatEmpty
        <3> QED
            BY <2>1, <2>4, <2>6, <3>2 DEF j, r
    <2>7. CASE j \in players
        <3>1. Declared(players, j) = <<l>>
            BY <2>7 DEF Declared
        <3> HIDE DEF l
        <3>2. F[j] = Append(F[k], l)
            BY <2>2, <3>1, ConcatOne
        <3>3. ParseText(F[j]) = ParseLine(r, l)
            BY <2>1, <2>2, <3>2, ParseMore
        <3>4. l.kind = "player" /\ l.id = j /\ l.kind \notin MoveKinds
            BY DEF l, MoveKinds, DecisionKinds
        <3>5. /\ ~r.failed /\ r.players = Some(k)
              /\ \A more : [r EXCEPT !.players = more] = Joined(more)
            BY <2>3, JoinedFields DEF r
        <3>6. ~PragmaThrows(r, l)
            BY <2>1, <2>5, <3>4, <3>5 DEF PragmaThrows
        <3>7. ParseLine(r, l) = [r EXCEPT !.players = @ \cup {j}]
            BY <3>4, <3>5, <3>6 DEF ParseLine, LineThrows, ParsePragma
        <3>8. ParseLine(r, l) = [r EXCEPT !.players = Some(k) \cup {j}]
            BY <3>5, <3>7
        <3> QED
            BY <2>4, <2>7, <3>3, <3>5, <3>8 DEF j
    <2> QED
        BY <2>6, <2>7
<1>6. MaxPlayers \in T
    <2>1. \A k \in Nat : k \in T => k + 1 \in T
        BY <1>5
    <2> HIDE DEF T
    <2> QED
        BY <1>0, <1>4, <2>1, NatSetInduction
<1>7. Some(MaxPlayers) = players
    BY <1>0
<1>8. F[MaxPlayers] = Heading(players) /\ IsSeq(F[MaxPlayers])
    BY <1>0, <1>1, <1>3 DEF IsFlat, Heading, ss
<1>9. ParseText(F[MaxPlayers]) = Joined(Some(MaxPlayers))
    BY <1>0, <1>6
<1> QED
    BY <1>7, <1>8, <1>9

LEMMA ConcatAssoc ==
    ASSUME NEW s, IsSeq(s), NEW t, IsSeq(t), NEW u, IsSeq(u)
    PROVE  s \o (t \o u) = (s \o t) \o u
<1> DEFINE a == s \o t
           b == t \o u
<1>1. /\ IsSeq(a) /\ Len(a) = Len(s) + Len(t)
      /\ \A i \in 1..Len(s) : a[i] = s[i]
      /\ \A i \in 1..Len(t) : a[Len(s) + i] = t[i]
    BY ConcatIs
<1>2. /\ IsSeq(b) /\ Len(b) = Len(t) + Len(u)
      /\ \A i \in 1..Len(t) : b[i] = t[i]
      /\ \A i \in 1..Len(u) : b[Len(t) + i] = u[i]
    BY ConcatIs
<1> HIDE DEF a, b
<1>3. IsSeq(s) /\ IsSeq(u) /\ IsSeq(a) /\ IsSeq(b)
    BY <1>1, <1>2
<1>4. /\ IsSeq(s \o b) /\ Len(s \o b) = Len(s) + Len(b)
      /\ \A i \in 1..Len(s) : (s \o b)[i] = s[i]
      /\ \A i \in 1..Len(b) : (s \o b)[Len(s) + i] = b[i]
    BY ONLY <1>3, ConcatIs
<1>5. /\ IsSeq(a \o u) /\ Len(a \o u) = Len(a) + Len(u)
      /\ \A i \in 1..Len(a) : (a \o u)[i] = a[i]
      /\ \A i \in 1..Len(u) : (a \o u)[Len(a) + i] = u[i]
    BY ONLY <1>3, ConcatIs
<1>6. Len(s) \in Nat /\ Len(t) \in Nat /\ Len(u) \in Nat
    BY DEF IsSeq
<1> DEFINE n == Len(s) + Len(t) + Len(u)
<1>7. Len(s \o b) = n /\ Len(a \o u) = n
    BY <1>1, <1>2, <1>4, <1>5, <1>6
<1>8. ASSUME NEW i \in 1..n
      PROVE  (s \o b)[i] = (a \o u)[i]
    <2>1. CASE i \in 1..Len(s)
        <3>1. i \in 1..Len(a)
            BY <1>1, <1>6, <2>1
        <3> QED
            BY <1>1, <1>4, <1>5, <2>1, <3>1
    <2>2. CASE i \in (Len(s) + 1)..(Len(s) + Len(t))
        <3> DEFINE j == i - Len(s)
        <3>1. j \in 1..Len(t) /\ j \in 1..Len(b) /\ i = Len(s) + j /\ i \in 1..Len(a)
            BY <1>1, <1>2, <1>6, <2>2
        <3> HIDE DEF j
        <3> QED
            BY <1>1, <1>2, <1>4, <1>5, <3>1
    <2>3. CASE i \in (Len(s) + Len(t) + 1)..n
        <3> DEFINE j == i - Len(s) - Len(t)
                   k == i - Len(s)
        <3>1. /\ j \in 1..Len(u) /\ k \in 1..Len(b) /\ i = Len(s) + k /\ k = Len(t) + j
              /\ i = Len(a) + j
            BY <1>1, <1>2, <1>6, <2>3
        <3> HIDE DEF j, k
        <3>2. (s \o b)[i] = b[k] /\ b[k] = u[j]
            BY <1>2, <1>4, <3>1
        <3>3. (a \o u)[i] = u[j]
            BY <1>5, <3>1
        <3> QED
            BY <3>2, <3>3
    <2>4. \/ i \in 1..Len(s) \/ i \in (Len(s) + 1)..(Len(s) + Len(t))
          \/ i \in (Len(s) + Len(t) + 1)..n
        BY <1>6
    <2> QED
        BY <2>1, <2>2, <2>3, <2>4
<1>9. s \o b = a \o u
    <2>1. Len(s \o b) = Len(a \o u) /\ \A i \in 1..Len(s \o b) : (s \o b)[i] = (a \o u)[i]
        BY <1>7, <1>8
    <2> QED
        BY ONLY <1>4, <1>5, <2>1, SameSeq
<1> QED
    BY <1>9 DEF a, b

EntryAt(h, i) == ExportEntry(h[i], i < Len(h) /\ h[i + 1].move.kind = "phony")
Entries(h) == [i \in DOMAIN h |-> EntryAt(h, i)]

AllRereadable(h, k) == \A i \in 1..k : Rereadable(h[i])

LEMMA EntriesAre ==
    ASSUME NEW h, IsSeq(h)
    PROVE  /\ IsSeq(Entries(h)) /\ Len(Entries(h)) = Len(h)
           /\ \A i \in 1..Len(h) : Entries(h)[i] = EntryAt(h, i) /\ IsSeq(Entries(h)[i])
<1> DEFINE ss == Entries(h)
<1>1. Len(h) \in Nat /\ DOMAIN h = 1..Len(h)
    BY DEF IsSeq
<1>2. ss = [i \in 1..Len(h) |-> EntryAt(h, i)]
    BY <1>1 DEF Entries
<1>3. \A i \in 1..Len(h) : ss[i] = EntryAt(h, i)
    BY <1>2
<1>4. ss = [i \in 1..Len(h) |-> ss[i]]
    BY <1>2
<1> HIDE DEF ss
<1>5. IsSeq(ss) /\ Len(ss) = Len(h)
    BY <1>1, <1>4, FunctionIsSeq
<1>6. \A i : IsSeq(EntryAt(h, i))
    BY EntryText DEF EntryAt
<1> QED
    BY <1>3, <1>5, <1>6 DEF ss

(* The records of an exported file are read one after the other. *)
LEMMA RecordsRead ==
    ASSUME NEW p, NEW seen, Story(p, seen), Detailed(p, seen), NEW X,
           X = Heading(p.players) \o FlattenSeq(Entries(p.history))
    PROVE  LET n == Len(p.history) IN
           /\ IsSeq(X)
           /\ IF AllRereadable(p.history, n)
              THEN Again(ParseText(X), p, seen, n, p.history[n].note)
              ELSE ParseText(X).failed
<1> DEFINE h == p.history
           n == Len(h)
           ss == Entries(h)
           H == Heading(p.players)
<1>1. IsParse(p) /\ IsHistory(h) /\ IsSeq(h) /\ n \in Nat /\ p.players \in SUBSET Players
    BY DEF Story, IsParse, IsHistory, IsSeq
<1>2. /\ IsSeq(ss) /\ Len(ss) = n
      /\ \A i \in 1..n : ss[i] = EntryAt(h, i) /\ IsSeq(ss[i])
    BY <1>1, EntriesAre
<1> HIDE DEF ss
<1>3. PICK F : IsFlat(F, ss)
    BY <1>2, Flattens
<1>4. IsSeq(H) /\ ParseText(H) = Joined(p.players)
    BY <1>1, HeadingRead
<1> HIDE DEF H
<1> DEFINE Read(k) == /\ IsSeq(H \o F[k])
                      /\ IF AllRereadable(h, k)
                         THEN Again(ParseText(H \o F[k]), p, seen, k, h[k].note)
                         ELSE ParseText(H \o F[k]).failed
           T == {k \in Nat : k <= n => Read(k)}
<1>5. 0 \in T
    <2>1. H \o F[0] = H
        BY <1>3, <1>4, ConcatEmpty DEF IsFlat
    <2>2. AllRereadable(h, 0) /\ \A note : SameRecords(<<>>, h, 0, note)
        BY NoElements DEF AllRereadable, SameRecords
    <2>3. /\ seen[1].board = EmptyBoard /\ seen[1].scores = [q \in Players |-> 0]
          /\ seen[1].last = None
        BY DEF Story, StoryEnds
    <2> DEFINE r == Joined(p.players)
    <2>4. /\ IsParse(r) /\ ~r.failed /\ r.players = p.players /\ r.history = <<>>
          /\ r.board = EmptyBoard /\ r.scores = [q \in Players |-> 0] /\ r.current = None
          /\ r.last = None /\ r.racks = [q \in Players |-> 0] /\ r.incomplete = 0
        BY <1>1, JoinedFields
    <2> HIDE DEF r
    <2>5. SameTurn(r, p.players, h, 0)
        BY <2>4 DEF SameTurn, LastDecision
    <2>6. \A note : Again(r, p, seen, 0, note)
        BY <2>2, <2>3, <2>4, <2>5 DEF Again
    <2>7. Read(0)
        BY <1>4, <2>1, <2>2, <2>6 DEF r
    <2> HIDE DEF Read
    <2> QED
        BY <2>7
<1>6. ASSUME NEW k \in Nat, k \in T
      PROVE  k + 1 \in T
    <2> SUFFICES ASSUME k + 1 <= n
                 PROVE  Read(k + 1)
        OBVIOUS
    <2> DEFINE a == H \o F[k]
               b == H \o F[k + 1]
               E == EntryAt(h, k + 1)
    <2>1. /\ k \in 0..(n - 1) /\ k + 1 \in 1..n /\ k \in 0..n /\ k <= n
          /\ k + 1 + 1 = k + 2
        BY <1>1
    <2>2. Read(k)
        BY <1>6, <2>1
    <2>3. /\ F[k + 1] = F[k] \o ss[k + 1] /\ IsSeq(F[k]) /\ ss[k + 1] = E /\ IsSeq(E)
        BY <1>2, <1>3, <2>1 DEF IsFlat
    <2> HIDE DEF E
    <2>4. b = a \o E
        <3> DEFINE f == F[k]
        <3>1. IsSeq(f)
            BY <2>3
        <3> HIDE DEF f
        <3>2. H \o (f \o E) = (H \o f) \o E
            BY <1>4, <2>3, <3>1, ConcatAssoc
        <3> QED
            BY <2>3, <3>2 DEF f
    <2>5. IsSeq(a) /\ IF AllRereadable(h, k) THEN Again(ParseText(a), p, seen, k, h[k].note)
                      ELSE ParseText(a).failed
        BY <2>2
    <2> HIDE DEF a, b
    <2>6. IsSeq(b)
        BY <2>3, <2>4, <2>5, ConcatIs
    <2>7. AllRereadable(h, k + 1) <=> AllRereadable(h, k) /\ Rereadable(h[k + 1])
        <3>1. \A i \in 1..(k + 1) : i \in 1..k \/ i = k + 1
            OBVIOUS
        <3>2. \A i \in 1..k : i \in 1..(k + 1)
            OBVIOUS
        <3> QED
            BY <2>1, <3>1, <3>2 DEF AllRereadable
    <2>8. CASE ~AllRereadable(h, k)
        <3>1. ParseText(b).failed
            BY <2>3, <2>4, <2>5, <2>8, StaysFailed
        <3> QED
            BY <2>6, <2>7, <2>8, <3>1 DEF b
    <2>9. CASE AllRereadable(h, k)
        <3> DEFINE phonyNext == k + 1 < n /\ h[k + 2].move.kind = "phony"
        <3>1. b = a \o ExportEntry(h[k + 1], phonyNext)
            BY <2>1, <2>4 DEF EntryAt, E
        <3>2. IsSeq(a) /\ Again(ParseText(a), p, seen, k, h[k].note)
            BY <2>5, <2>9
        <3>3. phonyNext <=> k + 1 < n /\ h[k + 2].move.kind = "phony"
            OBVIOUS
        <3> HIDE DEF phonyNext, Read, T
        <3>4. IF Rereadable(h[k + 1])
              THEN Again(ParseText(b), p, seen, k + 1, h[k + 1].note) ELSE ParseText(b).failed
            BY <2>1, <3>1, <3>2, <3>3, AgainEntry
        <3> QED
            BY <2>6, <2>7, <2>9, <3>4 DEF Read, b
    <2> QED
        BY <2>8, <2>9
<1>7. n \in T
    <2>1. \A k \in Nat : k \in T => k + 1 \in T
        BY <1>6
    <2> HIDE DEF T
    <2> QED
        BY <1>1, <1>5, <2>1, NatSetInduction
<1>8. Read(n)
    <2> HIDE DEF Read
    <2> QED
        BY <1>1, <1>7
<1>9. F[n] = FlattenSeq(ss)
    BY <1>2, <1>3 DEF IsFlat
<1>10. X = H \o F[n]
    BY <1>9 DEF ss, H
<1> QED
    BY <1>8, <1>10

RackLine(players, rack, player) ==
    IF rack # 0 /\ player \in players
    THEN <<[kind |-> "rack", id |-> player, rack |-> rack]>> ELSE <<>>

LEMMA ExportTextIs ==
    ASSUME NEW players, NEW h, NEW rack, NEW player
    PROVE  ExportText(players, h, rack, player)
              = Heading(players) \o FlattenSeq(Entries(h)) \o RackLine(players, rack, player)
BY DEF ExportText, Heading, Declared, Entries, EntryAt, RackLine

(* What an exported file's last line adds. *)
LEMMA RackRead ==
    ASSUME NEW X, IsSeq(X), IsParse(ParseText(X)), ~ParseText(X).failed,
           NEW rack \in Rack, NEW player,
           NEW q, q = ParseText(X \o RackLine(ParseText(X).players, rack, player))
    PROVE  LET r == ParseText(X) IN
           /\ q.failed = r.failed /\ q.board = r.board /\ q.scores = r.scores
           /\ q.history = r.history /\ q.current = r.current /\ q.incomplete = r.incomplete
           /\ q.players = r.players
           /\ q.racks = IF rack # 0 /\ player \in r.players
                        THEN [r.racks EXCEPT ![player] = rack] ELSE r.racks
<1> DEFINE r == ParseText(X)
           l == [kind |-> "rack", id |-> player, rack |-> rack]
<1>1. r = [x \in ParseNames |-> r[x]]
    BY ParseRecord DEF IsParse
<1>2. CASE ~(rack # 0 /\ player \in r.players)
    <2>1. RackLine(r.players, rack, player) = <<>>
        BY <1>2 DEF RackLine
    <2>2. q = r
        BY <2>1, ConcatEmpty
    <2> QED
        BY <1>2, <2>2
<1>3. CASE rack # 0 /\ player \in r.players
    <2>1. RackLine(r.players, rack, player) = <<l>>
        BY <1>3 DEF RackLine
    <2>2. l.kind = "rack" /\ l.id = player /\ l.rack = rack /\ l.kind \notin MoveKinds
        BY DEF MoveKinds, DecisionKinds
    <2> HIDE DEF l
    <2>3. q = ParseLine(r, l)
        BY <2>1, ConcatOne, ParseMore
    <2> HIDE DEF r
    <2>4. q = [r EXCEPT !.racks[player] = rack]
        BY <1>3, <2>2, <2>3 DEF ParseLine, LineThrows, PragmaThrows, ParsePragma, r
    <2>5. q = [r EXCEPT !.racks = [r.racks EXCEPT ![player] = rack]]
        BY <1>1, <2>4 DEF ParseNames
    <2> DEFINE g == [r.racks EXCEPT ![player] = rack]
    <2> HIDE DEF g
    <2>6. /\ q.failed = r.failed /\ q.board = r.board /\ q.scores = r.scores
          /\ q.history = r.history /\ q.current = r.current /\ q.incomplete = r.incomplete
          /\ q.players = r.players /\ q.racks = g
        BY <1>1, <2>5 DEF ParseNames, g
    <2> QED
        BY <1>3, <2>6 DEF g, r
<1> QED
    BY <1>2, <1>3

(* The game that is read again is p, with this rack. *)
SameAgain(again, p, rack, player) ==
    LET h == p.history
        n == Len(h) IN
    /\ ~again.failed /\ again.board = p.board /\ again.scores = p.scores
    /\ IsSeq(again.history) /\ Len(again.history) = n
    /\ \A i \in 1..n : again.history[i] = ReadEntry(h[i], h[i].note, h[i].challenged)
    /\ SameTurn(again, p.players, h, n) /\ again.incomplete = 0
    /\ \A q \in Players : again.racks[q] = IF rack # 0 /\ q = player /\ q \in p.players
                                           THEN rack ELSE 0

(* What parseGcg makes of the file that exportGcg makes of a game: the same *)
(* game, unless an end bonus is left without a score and without a rack.    *)
LEMMA ReadAgain ==
    ASSUME NEW p, NEW seen, Story(p, seen), Detailed(p, seen), NEW rack \in Rack, NEW player,
           NEW again, again = ParseText(ExportText(p.players, p.history, rack, player))
    PROVE  IF AllRereadable(p.history, Len(p.history)) THEN SameAgain(again, p, rack, player)
           ELSE again.failed
<1> DEFINE h == p.history
           n == Len(h)
           X == Heading(p.players) \o FlattenSeq(Entries(h))
           r == ParseText(X)
           L == RackLine(p.players, rack, player)
<1>1. again = ParseText(X \o L)
    BY ExportTextIs
<1>2. /\ IsSeq(X)
      /\ IF AllRereadable(h, n) THEN Again(r, p, seen, n, h[n].note) ELSE r.failed
    BY RecordsRead
<1>3. IsSeq(L)
    BY OneElement, NoElements DEF RackLine
<1> HIDE DEF X, L
<1>4. CASE ~AllRereadable(h, n)
    <2>1. r.failed
        BY <1>2, <1>4
    <2>2. again.failed
        BY <1>1, <1>2, <1>3, <2>1, StaysFailed
    <2> QED
        BY <1>4, <2>2
<1>5. CASE AllRereadable(h, n)
    <2>1. Again(r, p, seen, n, h[n].note)
        BY <1>2, <1>5
    <2>2. /\ IsParse(r) /\ ~r.failed /\ r.players = p.players /\ r.incomplete = 0
          /\ r.racks = [q \in Players |-> 0] /\ SameTurn(r, p.players, h, n)
          /\ SameRecords(r.history, h, n, h[n].note)
        BY <2>1 DEF Again
    <2>3. r.board = p.board /\ r.scores = p.scores
        BY <2>1 DEF Again, Story, StorySeen, StoryEnds
    <2>4. /\ again.failed = r.failed /\ again.board = r.board /\ again.scores = r.scores
          /\ again.history = r.history /\ again.current = r.current
          /\ again.incomplete = r.incomplete
          /\ again.racks = IF rack # 0 /\ player \in r.players
                           THEN [r.racks EXCEPT ![player] = rack] ELSE r.racks
        <3>1. again = ParseText(X \o RackLine(ParseText(X).players, rack, player))
            BY <1>1, <2>2 DEF L
        <3>2. IsSeq(X) /\ IsParse(ParseText(X)) /\ ~ParseText(X).failed
            BY <1>2, <2>2
        <3>3. rack \in Rack
            OBVIOUS
        <3>4. /\ again.failed = ParseText(X).failed /\ again.board = ParseText(X).board
              /\ again.scores = ParseText(X).scores /\ again.history = ParseText(X).history
              /\ again.current = ParseText(X).current
              /\ again.incomplete = ParseText(X).incomplete
              /\ again.racks = IF rack # 0 /\ player \in ParseText(X).players
                               THEN [ParseText(X).racks EXCEPT ![player] = rack]
                               ELSE ParseText(X).racks
            BY ONLY <3>1, <3>2, <3>3, RackRead
        <3> QED
            BY <3>4
    <2>5. IsSeq(r.history) /\ Len(r.history) = n
        BY <2>2 DEF IsParse, IsHistory, SameRecords
    <2>6. ASSUME NEW i \in 1..n
          PROVE  r.history[i] = ReadEntry(h[i], h[i].note, h[i].challenged)
        <3>1. CASE i # n
            BY <2>2, <3>1 DEF SameRecords
        <3>2. CASE i = n
            <4>1. ~h[n].challenged
                <5>1. n \in Nat /\ n \in 1..n
                    BY <3>2 DEF Story, IsParse, IsHistory, IsSeq
                <5>2. h[n].challenged => n < n
                    BY <5>1 DEF Detailed
                <5> QED
                    BY <5>1, <5>2
            <4>2. h[n].challenged = FALSE
                <5>1. h[n].challenged \in BOOLEAN
                    BY <3>2 DEF Story, IsParse, IsHistory, IsEntry
                <5> QED
                    BY <4>1, <5>1
            <4>3. r.history[n] = ReadEntry(h[n], h[n].note, FALSE)
                BY <2>2, <3>2 DEF SameRecords
            <4> QED
                BY <3>2, <4>2, <4>3
        <3> QED
            BY <3>1, <3>2
    <2>7. ASSUME NEW q \in Players
          PROVE  again.racks[q] = IF rack # 0 /\ q = player /\ q \in p.players
                                  THEN rack ELSE 0
        BY <2>2, <2>4
    <2>8. SameTurn(again, p.players, h, n)
        BY <2>2, <2>4 DEF SameTurn
    <2> HIDE DEF r
    <2> QED
        BY <1>5, <2>2, <2>3, <2>4, <2>5, <2>6, <2>7, <2>8 DEF SameAgain
<1> QED
    BY <1>4, <1>5

(* Without records, the board is empty when the file is read again. *)
LEMMA NothingRead ==
    ASSUME NEW players, NEW rack, NEW player, NEW again,
           again = ParseText(ExportText(players, <<>>, rack, player))
    PROVE  again.failed \/ again.board = EmptyBoard
<1> DEFINE some == players \cap Players
           H == Heading(players)
           r == Joined(some)
           l == [kind |-> "rack", id |-> player, rack |-> rack]
           L == RackLine(players, rack, player)
<1>1. IsSeq(H) /\ ParseText(H) = r
    <2>1. Heading(players) = Heading(some)
        <3>1. \A id \in Players : Declared(players, id) = Declared(some, id)
            BY DEF Declared
        <3> QED
            BY <3>1 DEF Heading
    <2>2. some \in SUBSET Players
        OBVIOUS
    <2> HIDE DEF some
    <2> QED
        BY <2>1, <2>2, HeadingRead
<1>2. /\ IsParse(r) /\ ~r.failed /\ r.board = EmptyBoard
    <2>1. some \in SUBSET Players
        OBVIOUS
    <2> HIDE DEF some
    <2> QED
        BY <2>1, JoinedFields
<1>3. FlattenSeq(Entries(<<>>)) = <<>>
    <2>1. Entries(<<>>) = <<>>
        BY NoElements, EntriesAre
    <2> QED
        BY <2>1, NoElements DEF FlattenSeq
<1> HIDE DEF H, r
<1>4. again = ParseText(H \o L)
    <2>1. again = ParseText(H \o <<>> \o L)
        BY <1>3, ExportTextIs DEF H
    <2> QED
        BY <1>1, <2>1, ConcatEmpty
<1>5. CASE L = <<>>
    <2>1. again = r
        BY <1>1, <1>4, <1>5, ConcatEmpty
    <2> QED
        BY <1>2, <2>1
<1>6. CASE L # <<>>
    <2>1. L = <<l>> /\ l.kind = "rack" /\ l.kind \notin MoveKinds
        BY <1>6 DEF RackLine, MoveKinds, DecisionKinds
    <2> HIDE DEF l, L
    <2>2. again = ParseLine(r, l)
        BY <1>1, <1>4, <2>1, ConcatOne, ParseMore
    <2>3. r = [x \in ParseNames |-> r[x]]
        BY <1>2, ParseRecord DEF IsParse
    <2>4. CASE PragmaThrows(r, l)
        <3>1. PICK t \in BOOLEAN : t = TRUE
            OBVIOUS
        <3>2. again = [r EXCEPT !.failed = TRUE]
            BY <1>2, <2>1, <2>2, <2>4 DEF ParseLine, LineThrows
        <3>3. again = [r EXCEPT !.failed = t]
            BY <3>1, <3>2, Zenon
        <3>4. again.failed = t
            BY <2>3, <3>3 DEF ParseNames
        <3> QED
            BY <3>1, <3>4, Zenon
    <2>5. CASE ~PragmaThrows(r, l)
        <3>1. again = [r EXCEPT !.racks[l.id] = l.rack]
            BY <1>2, <2>1, <2>2, <2>5 DEF ParseLine, LineThrows, ParsePragma
        <3>2. again.board = r.board
            BY <2>3, <3>1 DEF ParseNames
        <3> QED
            BY <1>2, <3>2
    <2> QED
        BY <2>4, <2>5
<1> QED
    BY <1>5, <1>6
=============================================================================
