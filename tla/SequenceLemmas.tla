---------------------------- MODULE SequenceLemmas ----------------------------
(***************************************************************************)
(* What the operators that the modules apply to their queues and lists do   *)
(* to the elements of a sequence: the facts the proofs keep needing.        *)
(***************************************************************************)
EXTENDS SequencesExt, SequenceTheorems, FiniteSetTheorems, WellFoundedInduction, TLAPS

(* Sequences with the same elements in the same places.                     *)
LEMMA SameSequence ==
  ASSUME NEW S, NEW s \in Seq(S), NEW t \in Seq(S), Len(s) = Len(t),
         \A i \in 1..Len(s) : s[i] = t[i]
  PROVE  s = t
  OBVIOUS

(* The elements of a sequence.                                              *)
LEMMA InToSet ==
  ASSUME NEW S, NEW s \in Seq(S), NEW x
  PROVE  x \in ToSet(s) <=> \E k \in 1..Len(s) : s[k] = x
  BY DEF ToSet

LEMMA ItemInToSet ==
  ASSUME NEW S, NEW s \in Seq(S), NEW k \in 1..Len(s)
  PROVE  s[k] \in ToSet(s)
  BY DEF ToSet

LEMMA ToSetTyped ==
  ASSUME NEW S, NEW s \in Seq(S)
  PROVE  ToSet(s) \subseteq S
  BY DEF ToSet

(* Reverse turns a sequence round: the same elements, the last one first.   *)
LEMMA ReverseFacts ==
  ASSUME NEW S, NEW s \in Seq(S)
  PROVE  /\ Reverse(s) \in Seq(S)
         /\ Len(Reverse(s)) = Len(s)
         /\ \A k \in 1..Len(s) : Len(s) - k + 1 \in 1..Len(s)
         /\ \A k \in 1..Len(s) : Reverse(s)[k] = s[Len(s) - k + 1]
         /\ ToSet(Reverse(s)) = ToSet(s)
  <1>1. \A k \in 1..Len(s) : Len(s) - k + 1 \in 1..Len(s) /\ (Len(s) - k) + 1 = Len(s) - k + 1
    OBVIOUS
  <1>2. /\ Reverse(s) \in Seq(S) /\ Len(Reverse(s)) = Len(s)
        /\ \A k \in 1..Len(s) : Reverse(s)[k] = s[Len(s) - k + 1]
    BY <1>1 DEF Reverse
  <1>3. \A k \in 1..Len(s) : Reverse(s)[Len(s) - k + 1] = s[k]
    BY <1>1, <1>2
  <1>4. ASSUME NEW x
        PROVE  x \in ToSet(Reverse(s)) <=> x \in ToSet(s)
    <2>1. ASSUME x \in ToSet(s) PROVE x \in ToSet(Reverse(s))
      <3>1. PICK k \in 1..Len(s) : s[k] = x
        BY <2>1, InToSet
      <3>2. Reverse(s)[Len(s) - k + 1] = x /\ Len(s) - k + 1 \in 1..Len(Reverse(s))
        BY <1>1, <1>2, <1>3, <3>1
      <3>. QED
        BY <1>2, <3>2, ItemInToSet
    <2>2. ASSUME x \in ToSet(Reverse(s)) PROVE x \in ToSet(s)
      <3>1. PICK k \in 1..Len(s) : Reverse(s)[k] = x
        BY <1>2, <2>2, InToSet
      <3>2. s[Len(s) - k + 1] = x /\ Len(s) - k + 1 \in 1..Len(s)
        BY <1>1, <1>2, <3>1
      <3>. QED
        BY <3>2, ItemInToSet
    <2>. QED
      BY <2>1, <2>2
  <1>. QED
    BY <1>1, <1>2, <1>4

(* A new element keeps a sequence without repetitions one.                  *)
LEMMA AppendFacts ==
  ASSUME NEW S, NEW s \in Seq(S), NEW x \in S
  PROVE  /\ ToSet(Append(s, x)) = ToSet(s) \cup {x}
         /\ IsInjective(s) /\ x \notin ToSet(s) => IsInjective(Append(s, x))
  <1>. DEFINE t == Append(s, x)
  <1>1. /\ t \in Seq(S) /\ Len(t) = Len(s) + 1 /\ t[Len(t)] = x
        /\ \A k \in 1..Len(s) : t[k] = s[k]
    OBVIOUS
  <1>. HIDE DEF t
  <1>2. ASSUME NEW y
        PROVE  y \in ToSet(t) <=> y \in ToSet(s) \cup {x}
    BY <1>1, InToSet
  <1>3. ASSUME IsInjective(s), x \notin ToSet(s)
        PROVE  IsInjective(t)
    BY <1>1, <1>3, InToSet DEF IsInjective
  <1>. QED
    BY <1>2, <1>3 DEF t

(* So do other elements.                                                    *)
LEMMA ConcatFacts ==
  ASSUME NEW S, NEW s \in Seq(S), NEW t \in Seq(S)
  PROVE  /\ ToSet(s \o t) = ToSet(s) \cup ToSet(t)
         /\ IsInjective(s) /\ IsInjective(t) /\ ToSet(s) \cap ToSet(t) = {}
              => IsInjective(s \o t)
  <1>. DEFINE u == s \o t
  <1>1. /\ u \in Seq(S) /\ Len(u) = Len(s) + Len(t)
        /\ Len(s) \in Nat /\ Len(t) \in Nat
        /\ \A k \in 1..Len(s) : u[k] = s[k]
        /\ \A k \in 1..Len(t) : u[k + Len(s)] = t[k]
    OBVIOUS
  <1>2. \A k \in 1..Len(u) : Len(s) < k => k - Len(s) \in 1..Len(t) /\ u[k] = t[k - Len(s)]
    BY <1>1
  <1>. HIDE DEF u
  <1>3. ASSUME NEW y
        PROVE  y \in ToSet(u) <=> y \in ToSet(s) \cup ToSet(t)
    <2>1. ASSUME y \in ToSet(s) PROVE y \in ToSet(u)
      BY <1>1, <2>1, InToSet
    <2>2. ASSUME y \in ToSet(t) PROVE y \in ToSet(u)
      <3>1. PICK k \in 1..Len(t) : t[k] = y
        BY <2>2, InToSet
      <3>2. k + Len(s) \in 1..Len(u) /\ u[k + Len(s)] = y
        BY <1>1, <3>1
      <3>. QED
        BY <1>1, <3>2, InToSet
    <2>3. ASSUME y \in ToSet(u) PROVE y \in ToSet(s) \cup ToSet(t)
      <3>1. PICK k \in 1..Len(u) : u[k] = y
        BY <1>1, <2>3, InToSet
      <3>2. CASE Len(s) < k
        BY <1>2, <3>1, <3>2, InToSet
      <3>3. CASE ~(Len(s) < k)
        <4>1. k \in 1..Len(s) /\ s[k] = y
          BY <1>1, <3>1, <3>3
        <4>. QED
          BY <4>1, ItemInToSet
      <3>. QED
        BY <3>2, <3>3
    <2>. QED
      BY <2>1, <2>2, <2>3
  <1>4. ASSUME IsInjective(s), IsInjective(t), ToSet(s) \cap ToSet(t) = {},
               NEW j \in 1..Len(u), NEW k \in 1..Len(u), u[j] = u[k]
        PROVE  j = k
    <2>1. CASE Len(s) < j /\ Len(s) < k
      <3>1. j - Len(s) = k - Len(s)
        BY <1>2, <1>4, <2>1 DEF IsInjective
      <3>. QED
        BY <1>1, <3>1
    <2>2. CASE ~(Len(s) < j) /\ ~(Len(s) < k)
      <3>1. j \in 1..Len(s) /\ k \in 1..Len(s)
        BY <1>1, <2>2
      <3>2. s[j] = s[k]
        BY <1>1, <1>4, <3>1
      <3>. QED
        BY <1>4, <3>1, <3>2 DEF IsInjective
    <2>3. CASE Len(s) < j /\ ~(Len(s) < k)
      <3>1. j - Len(s) \in 1..Len(t) /\ u[j] = t[j - Len(s)]
        BY <1>2, <2>3
      <3>2. k \in 1..Len(s) /\ u[k] = s[k]
        BY <1>1, <2>3
      <3>3. u[j] \in ToSet(t) /\ u[k] \in ToSet(s)
        BY <3>1, <3>2, ItemInToSet
      <3>. QED
        BY <1>4, <3>3
    <2>4. CASE ~(Len(s) < j) /\ Len(s) < k
      <3>1. k - Len(s) \in 1..Len(t) /\ u[k] = t[k - Len(s)]
        BY <1>2, <2>4
      <3>2. j \in 1..Len(s) /\ u[j] = s[j]
        BY <1>1, <2>4
      <3>3. u[j] \in ToSet(s) /\ u[k] \in ToSet(t)
        BY <3>1, <3>2, ItemInToSet
      <3>. QED
        BY <1>4, <3>3
    <2>. QED
      BY <2>1, <2>2, <2>3, <2>4
  <1>5. ASSUME IsInjective(s), IsInjective(t), ToSet(s) \cap ToSet(t) = {}
        PROVE  IsInjective(u)
    BY <1>1, <1>4, <1>5 DEF IsInjective
  <1>. QED
    BY <1>3, <1>5 DEF u

(* What has been appended is the rest of the sequence.                      *)
LEMMA RestOfConcat ==
  ASSUME NEW S, NEW s \in Seq(S), NEW t \in Seq(S)
  PROVE  SubSeq(s \o t, Len(s) + 1, Len(s \o t)) = t
  <1>. DEFINE y == s \o t
              z == SubSeq(y, Len(s) + 1, Len(y))
  <1>1. /\ y \in Seq(S) /\ Len(s) \in Nat /\ Len(t) \in Nat /\ Len(y) = Len(s) + Len(t)
        /\ \A k \in 1..Len(y) : y[k] = IF k <= Len(s) THEN s[k] ELSE t[k - Len(s)]
    OBVIOUS
  <1>2. z = [k \in 1..Len(t) |-> y[k + Len(s)]]
    <2>1. z = [k \in 1..(Len(y) - (Len(s) + 1) + 1) |-> y[k + (Len(s) + 1) - 1]]
      BY <1>1
    <2>2. Len(y) - (Len(s) + 1) + 1 = Len(t) /\ \A k \in Int : k + (Len(s) + 1) - 1 = k + Len(s)
      BY <1>1
    <2>. QED
      BY <2>1, <2>2
  <1>3. t = [k \in 1..Len(t) |-> t[k]]
    OBVIOUS
  <1>. HIDE DEF y, z
  <1>4. \A k \in 1..Len(t) : y[k + Len(s)] = t[k]
    <2>1. \A k \in 1..Len(t) : /\ k + Len(s) \in 1..Len(y) /\ ~(k + Len(s) <= Len(s))
                               /\ (k + Len(s)) - Len(s) = k
      BY <1>1
    <2>. QED
      BY <1>1, <2>1
  <1>5. z = t
    BY <1>2, <1>3, <1>4
  <1>. QED
    BY <1>5 DEF y, z

(* What is left after the first element is in the sequence already.         *)
LEMMA TailFacts ==
  ASSUME NEW S, NEW s \in Seq(S), s # <<>>
  PROVE  /\ Head(s) \in S
         /\ Tail(s) \in Seq(S)
         /\ ToSet(s) = {Head(s)} \cup ToSet(Tail(s))
         /\ IsInjective(s) => IsInjective(Tail(s)) /\ Head(s) \notin ToSet(Tail(s))
  <1>1. /\ Head(s) \in S /\ Tail(s) \in Seq(S) /\ Head(s) = s[1]
        /\ Len(s) \in Nat \ {0} /\ Len(Tail(s)) = Len(s) - 1
        /\ \A k \in 1..Len(Tail(s)) : Tail(s)[k] = s[k + 1]
    OBVIOUS
  <1>2. ASSUME NEW y
        PROVE  y \in ToSet(s) <=> y \in {Head(s)} \cup ToSet(Tail(s))
    <2>1. ASSUME y \in ToSet(s), y # Head(s) PROVE y \in ToSet(Tail(s))
      <3>1. PICK k \in 1..Len(s) : s[k] = y
        BY <2>1, InToSet
      <3>2. k - 1 \in 1..Len(Tail(s)) /\ Tail(s)[k - 1] = s[(k - 1) + 1] /\ (k - 1) + 1 = k
        BY <1>1, <2>1, <3>1
      <3>. QED
        BY <1>1, <3>1, <3>2, InToSet
    <2>2. Head(s) \in ToSet(s)
      BY <1>1, InToSet
    <2>3. ASSUME y \in ToSet(Tail(s)) PROVE y \in ToSet(s)
      <3>1. PICK k \in 1..Len(Tail(s)) : Tail(s)[k] = y
        BY <1>1, <2>3, InToSet
      <3>2. k + 1 \in 1..Len(s) /\ s[k + 1] = y
        BY <1>1, <3>1
      <3>. QED
        BY <3>2, InToSet
    <2>. QED
      BY <2>1, <2>2, <2>3
  <1>3. ASSUME IsInjective(s)
        PROVE  IsInjective(Tail(s)) /\ Head(s) \notin ToSet(Tail(s))
    <2>1. \A j, k \in 1..Len(Tail(s)) : j + 1 \in 1..Len(s) /\ k + 1 \in 1..Len(s)
                                        /\ (j + 1 = k + 1 => j = k) /\ j + 1 # 1
      BY <1>1
    <2>2. IsInjective(Tail(s))
      <3>1. ASSUME NEW j \in 1..Len(Tail(s)), NEW k \in 1..Len(Tail(s)),
                   Tail(s)[j] = Tail(s)[k]
            PROVE  j = k
        <4>1. s[j + 1] = s[k + 1]
          BY <1>1, <3>1
        <4>. QED
          BY <1>3, <2>1, <4>1 DEF IsInjective
      <3>. QED
        BY <3>1 DEF IsInjective
    <2>3. \A j \in 1..Len(Tail(s)) : Tail(s)[j] # Head(s)
      BY <1>1, <1>3, <2>1 DEF IsInjective
    <2>4. Head(s) \notin ToSet(Tail(s))
      <3>1. ASSUME Head(s) \in ToSet(Tail(s)) PROVE FALSE
        <4>1. \E j \in 1..Len(Tail(s)) : Tail(s)[j] = Head(s)
          BY <1>1, <3>1, InToSet
        <4>. QED
          BY <2>3, <4>1
      <3>. QED
        BY <3>1
    <2>. QED
      BY <2>2, <2>4
  <1>. QED
    BY <1>1, <1>2, <1>3

(* SetToSeq lists a finite set.                                             *)
LEMMA ListFacts ==
  ASSUME NEW S, IsFiniteSet(S)
  PROVE  /\ SetToSeq(S) \in Seq(S)
         /\ Len(SetToSeq(S)) = Cardinality(S)
         /\ ToSet(SetToSeq(S)) = S
  <1>. DEFINE n == Cardinality(S)
              L(f) == f \in [1..n -> S] /\ IsInjective(f)
              s == SetToSeq(S)
  <1>1. n \in Nat /\ ExistsBijection(1..n, S)
    BY FS_CardinalityType
  <1>2. \E f : L(f)
    BY <1>1 DEF ExistsBijection, Bijection, Injection, IsInjective
  <1>3. s = CHOOSE f : L(f)
    BY DEF SetToSeq
  <1>. HIDE DEF s
  <1>4. L(s)
    BY <1>2, <1>3
  <1>5. s \in Seq(S) /\ Len(s) = n
    BY <1>1, <1>4
  <1>6. s \in Surjection(1..n, S)
    <2>1. s \in Injection(1..n, S)
      BY <1>4 DEF Injection, IsInjective
    <2>2. Cardinality(1..n) = n
      BY <1>1, FS_Interval
    <2>. QED
      BY <2>1, <2>2, FS_Injection
  <1>7. \A x \in S : \E k \in 1..n : s[k] = x
    BY <1>6 DEF Surjection
  <1>8. ToSet(s) = S
    BY <1>5, <1>7, InToSet, ToSetTyped
  <1>. QED
    BY <1>5, <1>8 DEF s

-----------------------------------------------------------------------------
(* Induction, stated of a set and not of a predicate: a set that has 0, and *)
(* of each number the next one, has them all.                               *)
LEMMA Induction ==
  ASSUME NEW S, 0 \in S, \A n \in Nat : n \in S => n + 1 \in S
  PROVE  Nat \subseteq S
  <1>. DEFINE T == Nat \ S
              R == OpToRel(<, Nat)
  <1>1. SUFFICES ASSUME T # {}
                 PROVE  FALSE
    OBVIOUS
  <1>2. IsWellFoundedOn(R, Nat) /\ T \subseteq Nat
    BY NatLessThanWellFounded
  <1>3. PICK m \in T : \A k \in T : <<k, m>> \notin R
    <2>. HIDE DEF T, R
    <2>. QED
      BY <1>1, <1>2, WFMin
  <1>4. \A j, k \in Nat : j < k => <<j, k>> \in R
    BY DEF OpToRel
  <1>5. m \in Nat /\ m # 0 /\ m - 1 \in Nat /\ (m - 1) + 1 = m
    OBVIOUS
  <1>6. m - 1 \in S
    <2>. HIDE DEF R
    <2>1. m - 1 < m
      BY <1>5
    <2>2. <<m - 1, m>> \in R
      BY <1>4, <1>5, <2>1
    <2>. QED
      BY <1>3, <1>5, <2>2
  <1>. QED
    BY <1>5, <1>6

(* FlattenSeq is what the function says that it is defined by: there is one.*)
LEMMA FlattenDef ==
  ASSUME NEW T, NEW s \in Seq(Seq(T)), Len(s) # 0
  PROVE  \E f : /\ f = [i \in 1..Len(s) |-> IF i = 1 THEN s[i] ELSE f[i-1] \o s[i]]
                /\ FlattenSeq(s) = f[Len(s)]
  <1>. DEFINE Def(g, k) == g = [i \in 1..k |-> IF i = 1 THEN s[i] ELSE g[i-1] \o s[i]]
              N == {k \in Nat : \E g : Def(g, k)}
  <1>1. \E g : Def(g, 0)
    <2>1. Def([i \in 1..0 |-> {}], 0)
      OBVIOUS
    <2>. QED
      BY <2>1
  <1>2. ASSUME NEW k \in Nat, NEW g, Def(g, k)
        PROVE  \E h : Def(h, k + 1)
    <2>. DEFINE h == [i \in 1..(k + 1) |-> IF i = 1 THEN s[i] ELSE g[i-1] \o s[i]]
    <2>1. \A i \in 1..(k + 1) : i # 1 => i - 1 \in 1..k
      OBVIOUS
    <2>2. \A i \in 1..k : h[i] = g[i]
      <3>1. ASSUME NEW i \in 1..k
            PROVE  h[i] = g[i]
        <4>1. g[i] = IF i = 1 THEN s[i] ELSE g[i-1] \o s[i]
          BY <1>2
        <4>2. i \in 1..(k + 1)
          OBVIOUS
        <4>. QED
          BY <4>1, <4>2
      <3>. QED
        BY <3>1
    <2>3. h = [i \in 1..(k + 1) |-> IF i = 1 THEN s[i] ELSE h[i-1] \o s[i]]
      BY <2>1, <2>2
    <2>. HIDE DEF h
    <2>. QED
      BY <2>3
  <1>3. Nat \subseteq N
    <2>1. 0 \in N
      BY <1>1
    <2>2. ASSUME NEW k \in Nat, k \in N
          PROVE  k + 1 \in N
      <3>1. \E g : Def(g, k)
        BY <2>2
      <3>2. \E h : Def(h, k + 1)
        BY <1>2, <3>1
      <3>3. k + 1 \in Nat
        OBVIOUS
      <3>. QED
        BY <3>2, <3>3
    <2>. HIDE DEF N
    <2>. QED
      BY <2>1, <2>2, Induction
  <1>4. Len(s) \in N
    <2>. HIDE DEF N
    <2>. QED
      BY <1>3
  <1>5. \E g : Def(g, Len(s))
    BY <1>4
  <1>. QED
    BY <1>5 DEF FlattenSeq

LEMMA FlattenAppend ==
  ASSUME NEW T, NEW s \in Seq(Seq(T)), NEW x \in Seq(T)
  PROVE  /\ FlattenSeq(Append(s, x)) = IF Len(s) = 0 THEN x ELSE FlattenSeq(s) \o x
         /\ Len(s) = 0 => FlattenSeq(s) = s
  <1>. DEFINE t == Append(s, x)
              n == Len(s)
  <1>1. /\ t \in Seq(Seq(T)) /\ Len(t) = n + 1 /\ n \in Nat
        /\ \A i \in 1..n : t[i] = s[i]
        /\ t[n + 1] = x
    OBVIOUS
  <1>. HIDE DEF t
  <1>2. PICK g : /\ g = [i \in 1..(n + 1) |-> IF i = 1 THEN t[i] ELSE g[i-1] \o t[i]]
                 /\ FlattenSeq(t) = g[n + 1]
    <2>1. Len(t) # 0
      BY <1>1
    <2>. QED
      BY <1>1, <2>1, FlattenDef
  <1>3. CASE n = 0
    <2>1. 1 \in 1..(n + 1) /\ n + 1 = 1
      BY <1>3
    <2>2. g[1] = t[1] /\ t[1] = x
      BY <1>1, <1>2, <2>1
    <2>3. FlattenSeq(s) = s
      BY <1>3 DEF FlattenSeq
    <2>. QED
      BY <1>2, <1>3, <2>1, <2>2, <2>3 DEF t
  <1>4. CASE n # 0
    <2>1. PICK f : /\ f = [i \in 1..n |-> IF i = 1 THEN s[i] ELSE f[i-1] \o s[i]]
                   /\ FlattenSeq(s) = f[n]
      BY <1>4, FlattenDef
    <2>. DEFINE N == {k \in Nat : k + 1 \in 1..n => g[k + 1] = f[k + 1]}
    <2>2. 0 \in N
      <3>1. 1 \in 1..n /\ 1 \in 1..(n + 1)
        BY <1>1, <1>4
      <3>2. f[1] = s[1] /\ g[1] = t[1]
        BY <1>2, <2>1, <3>1
      <3>3. g[0 + 1] = f[0 + 1]
        BY <1>1, <3>1, <3>2
      <3>. QED
        BY <3>3
    <2>3. ASSUME NEW k \in Nat, k \in N
          PROVE  k + 1 \in N
      <3>1. SUFFICES ASSUME (k + 1) + 1 \in 1..n
                     PROVE  g[(k + 1) + 1] = f[(k + 1) + 1]
        OBVIOUS
      <3>2. /\ k + 1 \in 1..n /\ (k + 1) + 1 \in 1..(n + 1) /\ (k + 1) + 1 # 1
            /\ ((k + 1) + 1) - 1 = k + 1
        BY <1>1, <3>1
      <3>3. g[k + 1] = f[k + 1]
        BY <2>3, <3>2
      <3>4. g[(k + 1) + 1] = g[k + 1] \o t[(k + 1) + 1]
        BY <1>2, <3>2
      <3>5. f[(k + 1) + 1] = f[k + 1] \o s[(k + 1) + 1]
        BY <2>1, <3>1, <3>2
      <3>. QED
        BY <1>1, <3>1, <3>3, <3>4, <3>5
    <2>4. Nat \subseteq N
      <3>. HIDE DEF N
      <3>. QED
        BY <2>2, <2>3, Induction
    <2>5. n - 1 \in Nat /\ (n - 1) + 1 = n /\ n \in 1..n
      BY <1>1, <1>4
    <2>6. n - 1 \in N
      BY <2>4, <2>5
    <2>7. g[n] = f[n]
      BY <2>5, <2>6
    <2>8. n + 1 \in 1..(n + 1) /\ n + 1 # 1 /\ (n + 1) - 1 = n
      BY <1>1, <1>4
    <2>9. g[n + 1] = g[n] \o t[n + 1]
      BY <1>2, <2>8
    <2>. QED
      BY <1>1, <1>2, <1>4, <2>1, <2>7, <2>9 DEF t
  <1>. QED
    BY <1>3, <1>4

(* An element of two sequences put together is one of the first or of the   *)
(* second.                                                                  *)
LEMMA Joined ==
  ASSUME NEW S, NEW s \in Seq(S), NEW t \in Seq(S)
  PROVE  /\ s \o t \in Seq(S) /\ Len(s \o t) = Len(s) + Len(t)
         /\ \A i \in 1..Len(s) : (s \o t)[i] = s[i]
         /\ \A i \in 1..Len(s \o t) : ~(i <= Len(s)) =>
              i - Len(s) \in 1..Len(t) /\ (s \o t)[i] = t[i - Len(s)]
  <1>1. s \o t \in Seq(S) /\ Len(s \o t) = Len(s) + Len(t)
    OBVIOUS
  <1>2. \A i \in 1..Len(s) : (s \o t)[i] = s[i]
    OBVIOUS
  <1>3. ASSUME NEW i \in 1..Len(s \o t), ~(i <= Len(s))
        PROVE  i - Len(s) \in 1..Len(t) /\ (s \o t)[i] = t[i - Len(s)]
    <2>1. i - Len(s) \in 1..Len(t)
      BY <1>1, <1>3
    <2>2. i \in 1..(Len(s) + Len(t))
      BY <1>1
    <2>. QED
      BY <1>3, <2>1, <2>2
  <1>. QED
    BY <1>1, <1>2, <1>3
=============================================================================
