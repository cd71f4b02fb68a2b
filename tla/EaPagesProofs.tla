--------------------------- MODULE EaPagesProofs ---------------------------
(***************************************************************************)
(* Proofs about the pages of the EA Map, for every set of nodes, links,    *)
(* releases and runs of the tests, and the lemmas on numbers, sequences    *)
(* and recursive functions that these and other proofs rest on.            *)
(***************************************************************************)
EXTENDS EaPages, FiniteSetTheorems, SequenceTheorems, TLAPS

-----------------------------------------------------------------------------
(* The least and the greatest of a set of numbers *)

LEMMA LeastNat ==
  ASSUME NEW S, S \subseteq Nat, S # {}
  PROVE  \E m \in S : \A x \in S : m <= x
<1> DEFINE R == {ss \in Nat \X Nat : ss[1] < ss[2]}
<1>1. IsWellFoundedOn(R, Nat)
  <2> SUFFICES ASSUME NEW f \in [Nat -> Nat], \A n \in Nat : <<f[n+1], f[n]>> \in R PROVE FALSE
    BY DEF IsWellFoundedOn
  <2> QED BY NatLessThanWellFounded DEF IsWellFoundedOn, OpToRel
<1> HIDE DEF R
<1>2. PICK m \in S : \A y \in S : ~(<<y, m>> \in R)
  BY <1>1, WFMin
<1>3. ASSUME NEW x \in S PROVE m <= x
  <2>1. m \in Nat /\ x \in Nat /\ <<x, m>> \notin R
    BY <1>2
  <2> QED BY <2>1 DEF R
<1> QED BY <1>3

LEMMA GreatestNat ==
  ASSUME NEW n \in Nat, NEW S, S \subseteq 0..n, S # {}
  PROVE  \E m \in S : \A x \in S : x <= m
<1> DEFINE T == {n - x : x \in S}
<1>1. T \subseteq Nat /\ T # {}
  <2>1. \A x \in S : n - x \in Nat
    OBVIOUS
  <2> QED BY <2>1
<1>2. PICK t \in T : \A y \in T : t <= y
  <2> HIDE DEF T
  <2> QED BY <1>1, LeastNat
<1>3. PICK m \in S : t = n - m
  OBVIOUS
<1>4. ASSUME NEW x \in S PROVE x <= m
  <2>1. n - m <= n - x
    BY <1>2, <1>3
  <2> QED BY <2>1
<1> QED BY <1>4

-----------------------------------------------------------------------------
(* Sequences *)

Listed(s) == s \in Seq(ToSet(s))

LEMMA ToSetIs == ASSUME NEW s PROVE ToSet(s) = {s[i] : i \in DOMAIN s}
  BY Zenon DEF ToSet

LEMMA ListedIf == ASSUME NEW S, NEW s \in Seq(S) PROVE Listed(s)
<1>1. Len(s) \in Nat /\ s \in [1..Len(s) -> S]
  BY LenProperties
<1>2. s \in [1..Len(s) -> ToSet(s)]
  BY <1>1, ToSetIs
<1> QED BY <1>1, <1>2, IsASeq DEF Listed

LEMMA SetWithin == ASSUME NEW S, NEW s \in Seq(S) PROVE ToSet(s) \subseteq S
<1> SUFFICES ASSUME NEW x \in ToSet(s) PROVE x \in S
  OBVIOUS
<1>1. PICK i \in DOMAIN s : x = s[i]
  BY ToSetIs
<1>2. i \in 1..Len(s)
  BY LenProperties
<1> QED BY <1>1, <1>2, ElementOfSeq

LEMMA ListedIs ==
  ASSUME NEW s, Listed(s)
  PROVE  /\ Len(s) \in Nat /\ DOMAIN s = 1..Len(s)
         /\ s # <<>> => Len(s) # 0 /\ 1 \in DOMAIN s
         /\ s = <<>> => Len(s) = 0
<1>1. s \in Seq(ToSet(s))
  BY DEF Listed
<1>2. Len(s) \in Nat /\ DOMAIN s = 1..Len(s)
  BY <1>1, LenProperties
<1>3. s # <<>> => Len(s) # 0
  BY <1>1, EmptySeq
<1>4. s = <<>> => Len(s) = 0
  BY EmptySeq
<1> QED BY <1>2, <1>3, <1>4

LEMMA ListedFun ==
  ASSUME NEW n \in Nat, NEW s, s = [i \in 1..n |-> s[i]]
  PROVE  Listed(s) /\ Len(s) = n
<1>1. s \in [1..n -> ToSet(s)]
  BY ToSetIs
<1>2. s \in Seq(ToSet(s))
  BY <1>1, IsASeq
<1>3. Len(s) \in Nat /\ DOMAIN s = 1..Len(s) /\ DOMAIN s = 1..n
  BY <1>1, <1>2, LenProperties
<1>4. \A m \in Nat : 1..m = 1..n => m = n
  <2> SUFFICES ASSUME NEW m \in Nat, 1..m = 1..n PROVE m = n
    OBVIOUS
  <2>1. (m > 0 => m \in 1..n) /\ (n > 0 => n \in 1..m)
    OBVIOUS
  <2> QED BY <2>1
<1> QED BY <1>2, <1>3, <1>4 DEF Listed

LEMMA AppendIs ==
  ASSUME NEW s, NEW x, Listed(s)
  PROVE  /\ Listed(Append(s, x)) /\ Append(s, x) # <<>> /\ Len(Append(s, x)) = Len(s) + 1
         /\ DOMAIN Append(s, x) = 1..(Len(s) + 1)
         /\ \A i \in 1..Len(s) : Append(s, x)[i] = s[i]
         /\ Append(s, x)[Len(s) + 1] = x
<1> DEFINE S == ToSet(s) \union {x}
<1>1. s \in Seq(S)
  <2>1. s \in Seq(ToSet(s))
    BY DEF Listed
  <2>2. \A i \in 1..Len(s) : s[i] \in S
    BY <2>1, ElementOfSeq
  <2>3. Len(s) \in Nat /\ s \in [1..Len(s) -> ToSet(s)]
    BY <2>1, LenProperties
  <2>4. s \in [1..Len(s) -> S]
    BY <2>2, <2>3
  <2> QED BY <2>3, <2>4, IsASeq
<1>2. x \in S
  OBVIOUS
<1> HIDE DEF S
<1>3. /\ Append(s, x) \in Seq(S) /\ Append(s, x) # <<>> /\ Len(Append(s, x)) = Len(s) + 1
      /\ \A i \in 1..Len(s) : Append(s, x)[i] = s[i]
      /\ Append(s, x)[Len(s) + 1] = x
  BY <1>1, <1>2, AppendProperties
<1>4. Listed(Append(s, x))
  BY <1>3, ListedIf
<1>5. DOMAIN Append(s, x) = 1..Len(Append(s, x))
  BY <1>4, ListedIs
<1> QED BY <1>3, <1>4, <1>5

LEMMA ConcatIs ==
  ASSUME NEW s, NEW t, Listed(s), Listed(t)
  PROVE  /\ Listed(s \o t) /\ Len(s \o t) = Len(s) + Len(t)
         /\ \A i \in 1..Len(s) : (s \o t)[i] = s[i]
         /\ \A i \in 1..Len(t) : (s \o t)[Len(s) + i] = t[i]
         /\ ToSet(s \o t) = ToSet(s) \union ToSet(t)
<1> DEFINE S == ToSet(s) \union ToSet(t)
<1>1. Len(s) \in Nat /\ DOMAIN s = 1..Len(s) /\ Len(t) \in Nat /\ DOMAIN t = 1..Len(t)
  BY ListedIs
<1>2. s \in Seq(S) /\ t \in Seq(S)
  <2>1. s \in [1..Len(s) -> ToSet(s)] /\ t \in [1..Len(t) -> ToSet(t)]
    BY LenProperties DEF Listed
  <2>2. s \in [1..Len(s) -> S] /\ t \in [1..Len(t) -> S]
    BY <2>1
  <2> HIDE DEF S
  <2> QED BY <1>1, <2>2, IsASeq
<1>3. /\ s \o t \in Seq(S) /\ Len(s \o t) = Len(s) + Len(t)
      /\ \A i \in 1..Len(s) + Len(t) : (s \o t)[i] = IF i <= Len(s) THEN s[i] ELSE t[i - Len(s)]
  <2> HIDE DEF S
  <2> QED BY <1>2, ConcatProperties
<1>4. Listed(s \o t)
  <2> HIDE DEF S
  <2> QED BY <1>3, ListedIf
<1>5. /\ \A i \in 1..Len(s) : (s \o t)[i] = s[i]
      /\ \A i \in 1..Len(t) : (s \o t)[Len(s) + i] = t[i]
  <2>1. \A i \in 1..Len(s) : i \in 1..Len(s) + Len(t) /\ i <= Len(s)
    BY <1>1
  <2>2. \A i \in 1..Len(t) : /\ Len(s) + i \in 1..Len(s) + Len(t) /\ ~(Len(s) + i <= Len(s))
                             /\ (Len(s) + i) - Len(s) = i
    BY <1>1
  <2> QED BY <1>3, <2>1, <2>2
<1>6. DOMAIN (s \o t) = 1..Len(s) + Len(t)
  BY <1>3, <1>4, ListedIs
<1>7. \A i \in 1..Len(s) + Len(t) : i \in 1..Len(s) \/ \E j \in 1..Len(t) : i = Len(s) + j
  <2> SUFFICES ASSUME NEW i \in 1..Len(s) + Len(t), i \notin 1..Len(s) PROVE \E j \in 1..Len(t) : i = Len(s) + j
    OBVIOUS
  <2>1. i - Len(s) \in 1..Len(t) /\ i = Len(s) + (i - Len(s))
    BY <1>1
  <2> QED BY <2>1
<1>8. \A x : x \in ToSet(s \o t) <=> x \in ToSet(s) \/ x \in ToSet(t)
  <2>1. \A i \in 1..Len(s) : i \in 1..Len(s) + Len(t)
    BY <1>1
  <2>2. \A i \in 1..Len(t) : Len(s) + i \in 1..Len(s) + Len(t)
    BY <1>1
  <2>3. /\ \A x : x \in ToSet(s) <=> \E i \in 1..Len(s) : x = s[i]
        /\ \A x : x \in ToSet(t) <=> \E i \in 1..Len(t) : x = t[i]
        /\ \A x : x \in ToSet(s \o t) <=> \E i \in 1..Len(s) + Len(t) : x = (s \o t)[i]
    BY <1>1, <1>6, ToSetIs
  <2> QED BY <1>5, <1>7, <2>1, <2>2, <2>3
<1> QED BY <1>3, <1>4, <1>5, <1>8

LEMMA TailIs ==
  ASSUME NEW s, Listed(s), s # <<>>
  PROVE  /\ Listed(Tail(s)) /\ Len(Tail(s)) = Len(s) - 1 /\ Head(s) = s[1]
         /\ \A i \in 1..Len(s) - 1 : Tail(s)[i] = s[i + 1]
         /\ ToSet(Tail(s)) \subseteq ToSet(s)
<1>1. s \in Seq(ToSet(s)) /\ Len(s) \in Nat /\ DOMAIN s = 1..Len(s) /\ Len(s) # 0
  BY ListedIs DEF Listed
<1>2. /\ Tail(s) \in Seq(ToSet(s)) /\ Len(Tail(s)) = Len(s) - 1 /\ Head(s) = s[1]
      /\ \A i \in 1..Len(Tail(s)) : Tail(s)[i] = s[i + 1]
  <2>1. Head(s) = s[1]
    OBVIOUS
  <2> QED BY <1>1, <2>1, HeadTailProperties
<1>3. Listed(Tail(s))
  BY <1>2, ListedIf
<1>4. \A i \in DOMAIN Tail(s) : Tail(s)[i] \in ToSet(s)
  BY <1>2, <1>3, ListedIs, ElementOfSeq
<1>5. ToSet(Tail(s)) \subseteq ToSet(s)
  <2> SUFFICES ASSUME NEW x \in ToSet(Tail(s)) PROVE x \in ToSet(s)
    OBVIOUS
  <2>1. PICK i \in DOMAIN Tail(s) : x = Tail(s)[i]
    BY ToSetIs
  <2> QED BY <1>4, <2>1
<1>6. \A i \in 1..Len(s) - 1 : Tail(s)[i] = s[i + 1]
  BY <1>2
<1> QED BY <1>2, <1>3, <1>5, <1>6

LEMMA PrefixIs ==
  ASSUME NEW s, NEW n \in Nat, Listed(s), n <= Len(s)
  PROVE  /\ Listed(SubSeq(s, 1, n)) /\ Len(SubSeq(s, 1, n)) = n
         /\ \A i \in 1..n : SubSeq(s, 1, n)[i] = s[i]
         /\ ToSet(SubSeq(s, 1, n)) \subseteq ToSet(s)
<1>1. Len(s) \in Nat /\ \A i \in 1..Len(s) : s[i] \in ToSet(s)
  BY ListedIs, ElementOfSeq DEF Listed
<1>2. \A i \in 1..n : s[i] \in ToSet(s)
  BY <1>1
<1>3. /\ SubSeq(s, 1, n) \in Seq(ToSet(s))
      /\ Len(SubSeq(s, 1, n)) = IF 1 <= n THEN n - 1 + 1 ELSE 0
      /\ \A i \in 1..n - 1 + 1 : SubSeq(s, 1, n)[i] = s[1 + i - 1]
  BY <1>2, SubSeqProperties
<1>4. n - 1 + 1 = n /\ (~(1 <= n) => n = 0) /\ \A i \in 1..n : 1 + i - 1 = i
  OBVIOUS
<1>5. ToSet(SubSeq(s, 1, n)) \subseteq ToSet(s)
  BY <1>3, SetWithin
<1> QED BY <1>3, <1>4, <1>5, ListedIf

LEMMA SuffixIs ==
  ASSUME NEW s, NEW n \in Nat, Listed(s), n <= Len(s)
  PROVE  /\ Listed(SubSeq(s, n + 1, Len(s))) /\ Len(SubSeq(s, n + 1, Len(s))) = Len(s) - n
         /\ \A i \in 1..Len(s) - n : SubSeq(s, n + 1, Len(s))[i] = s[n + i]
         /\ ToSet(SubSeq(s, n + 1, Len(s))) \subseteq ToSet(s)
<1>1. Len(s) \in Nat /\ \A i \in 1..Len(s) : s[i] \in ToSet(s)
  BY ListedIs, ElementOfSeq DEF Listed
<1>2. n + 1 \in Int /\ \A i \in n + 1..Len(s) : s[i] \in ToSet(s)
  BY <1>1
<1>3. /\ SubSeq(s, n + 1, Len(s)) \in Seq(ToSet(s))
      /\ Len(SubSeq(s, n + 1, Len(s))) = IF n + 1 <= Len(s) THEN Len(s) - (n + 1) + 1 ELSE 0
      /\ \A i \in 1..Len(s) - (n + 1) + 1 : SubSeq(s, n + 1, Len(s))[i] = s[(n + 1) + i - 1]
  BY <1>1, <1>2, SubSeqProperties
<1>4. /\ Len(s) - (n + 1) + 1 = Len(s) - n /\ (~(n + 1 <= Len(s)) => Len(s) - n = 0)
      /\ \A i \in 1..Len(s) - n : (n + 1) + i - 1 = n + i
  BY <1>1
<1>5. ToSet(SubSeq(s, n + 1, Len(s))) \subseteq ToSet(s)
  BY <1>3, SetWithin
<1> QED BY <1>3, <1>4, <1>5, ListedIf

(* A set in some order *)
LEMMA SetToSeqIs ==
  ASSUME NEW S, IsFiniteSet(S)
  PROVE  LET s == SetToSeq(S) IN
         /\ Listed(s) /\ ToSet(s) = S /\ IsInjective(s) /\ Len(s) = Cardinality(S)
<1> DEFINE n == Cardinality(S)
           s == SetToSeq(S)
<1>1. n \in Nat /\ \E f \in Bijection(1..n, S) : TRUE
  BY FS_CardinalityType, FS_NatBijection DEF ExistsBijection
<1>2. s = CHOOSE f \in [1..n -> S] : IsInjective(f)
  BY Zenon DEF SetToSeq
<1>3. \E f \in [1..n -> S] : IsInjective(f)
  BY <1>1 DEF Bijection, Injection
<1>4. s \in [1..n -> S] /\ IsInjective(s)
  BY <1>2, <1>3
<1> HIDE DEF n, s
<1>5. s \in Injection(1..n, S)
  BY <1>4 DEF Injection
<1>6. s \in Surjection(1..n, S)
  BY <1>1, <1>5, FS_Injection, FS_Interval DEF n
<1>7. ToSet(s) = S
  <2>1. DOMAIN s = 1..n /\ \A i \in 1..n : s[i] \in S
    BY <1>4
  <2>2. \A x \in S : \E i \in 1..n : s[i] = x
    BY <1>6 DEF Surjection
  <2>3. \A x : x \in ToSet(s) <=> \E i \in 1..n : x = s[i]
    BY <2>1, ToSetIs
  <2> QED BY <2>1, <2>2, <2>3
<1>8. Listed(s) /\ Len(s) = n
  BY <1>1, <1>4, ListedFun
<1> QED BY <1>4, <1>7, <1>8 DEF s, n

LEMMA SingleIs == ASSUME NEW x PROVE /\ Listed(<<x>>) /\ Len(<<x>>) = 1 /\ <<x>>[1] = x /\ ToSet(<<x>>) = {x}
<1>1. <<x>> \in Seq({x}) /\ Len(<<x>>) = 1 /\ <<x>>[1] = x
  OBVIOUS
<1>2. Listed(<<x>>)
  BY <1>1, ListedIf
<1>3. DOMAIN <<x>> = 1..1
  BY <1>1, <1>2, ListedIs
<1>4. \A y : y \in ToSet(<<x>>) <=> \E i \in 1..1 : y = <<x>>[i]
  BY <1>3, ToSetIs
<1>5. \A i \in 1..1 : i = 1
  OBVIOUS
<1>6. 1 \in 1..1
  OBVIOUS
<1> QED BY <1>1, <1>2, <1>4, <1>5, <1>6

LEMMA OntoOne ==
  ASSUME NEW x, NEW s, Listed(s)
  PROVE  /\ Listed(<<x>> \o s) /\ <<x>> \o s # <<>> /\ Len(<<x>> \o s) = Len(s) + 1 /\ Head(<<x>> \o s) = x
         /\ ToSet(<<x>> \o s) = {x} \union ToSet(s)
<1> DEFINE a == <<x>>
<1>1. Listed(a) /\ Len(a) = 1 /\ a[1] = x /\ ToSet(a) = {x}
  BY SingleIs
<1> HIDE DEF a
<1>2. /\ Listed(a \o s) /\ Len(a \o s) = Len(a) + Len(s) /\ (\A i \in 1..Len(a) : (a \o s)[i] = a[i])
      /\ ToSet(a \o s) = ToSet(a) \union ToSet(s)
  BY <1>1, ConcatIs
<1>3. Len(s) \in Nat /\ 1 \in 1..1
  BY ListedIs
<1>4. Len(a \o s) = Len(s) + 1 /\ (a \o s)[1] = x
  BY <1>1, <1>2, <1>3
<1>5. a \o s # <<>>
  BY <1>2, <1>3, <1>4, ListedIs
<1>6. Head(a \o s) = (a \o s)[1]
  BY <1>2, <1>5, TailIs
<1> QED BY <1>1, <1>2, <1>4, <1>5, <1>6 DEF a

LEMMA InjectiveConcat ==
  ASSUME NEW s, NEW t, Listed(s), Listed(t), IsInjective(s), IsInjective(t), ToSet(s) \intersect ToSet(t) = {}
  PROVE  IsInjective(s \o t)
<1>1. Len(s) \in Nat /\ DOMAIN s = 1..Len(s) /\ Len(t) \in Nat /\ DOMAIN t = 1..Len(t)
  BY ListedIs
<1>2. /\ Listed(s \o t) /\ Len(s \o t) = Len(s) + Len(t)
      /\ \A i \in 1..Len(s) : (s \o t)[i] = s[i]
      /\ \A i \in 1..Len(t) : (s \o t)[Len(s) + i] = t[i]
  BY ConcatIs
<1>3. DOMAIN (s \o t) = 1..Len(s) + Len(t)
  BY <1>2, ListedIs
<1>4. \A i \in 1..Len(s) + Len(t) : i \in 1..Len(s) \/ \E j \in 1..Len(t) : i = Len(s) + j
  <2> SUFFICES ASSUME NEW i \in 1..Len(s) + Len(t), i \notin 1..Len(s) PROVE \E j \in 1..Len(t) : i = Len(s) + j
    OBVIOUS
  <2>1. i - Len(s) \in 1..Len(t) /\ i = Len(s) + (i - Len(s))
    BY <1>1
  <2> QED BY <2>1
<1>5. \A i \in 1..Len(s), j \in 1..Len(t) : s[i] # t[j]
  <2>1. (\A i \in 1..Len(s) : s[i] \in ToSet(s)) /\ (\A j \in 1..Len(t) : t[j] \in ToSet(t))
    BY <1>1, ToSetIs
  <2> QED BY <2>1
<1>6. (\A i, j \in 1..Len(s) : s[i] = s[j] => i = j) /\ (\A i, j \in 1..Len(t) : t[i] = t[j] => i = j)
  BY <1>1 DEF IsInjective
<1>7. \A i, j \in 1..Len(s) + Len(t) : (s \o t)[i] = (s \o t)[j] => i = j
  <2> DEFINE n == Len(s)
             r == s \o t
  <2>1. /\ \A i \in 1..n : r[i] = s[i]
        /\ \A i \in 1..Len(t) : r[n + i] = t[i]
    BY <1>2
  <2> HIDE DEF n, r
  <2> SUFFICES ASSUME NEW i \in 1..n + Len(t), NEW j \in 1..n + Len(t), r[i] = r[j] PROVE i = j
    BY DEF n, r
  <2>2. (i \in 1..n \/ \E k \in 1..Len(t) : i = n + k) /\ (j \in 1..n \/ \E k \in 1..Len(t) : j = n + k)
    BY <1>4 DEF n
  <2>3. CASE i \in 1..n /\ j \in 1..n
    BY <1>6, <2>1, <2>3 DEF n
  <2>4. ASSUME NEW k \in 1..Len(t), NEW m \in 1..Len(t), i = n + k, j = n + m PROVE i = j
    BY <1>6, <2>1, <2>4
  <2>5. ASSUME i \in 1..n, NEW m \in 1..Len(t), j = n + m PROVE FALSE
    BY <1>5, <2>1, <2>5 DEF n
  <2>6. ASSUME j \in 1..n, NEW m \in 1..Len(t), i = n + m PROVE FALSE
    BY <1>5, <2>1, <2>6 DEF n
  <2> QED BY <2>2, <2>3, <2>4, <2>5, <2>6
<1> QED BY <1>3, <1>7 DEF IsInjective

-----------------------------------------------------------------------------
(* Recursive functions on an interval *)

LEMMA Induct ==
  ASSUME NEW N \in Nat, NEW S, 0 \in S, \A k \in 0..N - 1 : k \in S => k + 1 \in S
  PROVE  0..N \subseteq S
<1> SUFFICES ASSUME NEW b \in 0..N, b \notin S PROVE FALSE
  OBVIOUS
<1> DEFINE B == (0..N) \ S
<1>1. B \subseteq Nat /\ B # {}
  OBVIOUS
<1>2. PICK m \in B : \A x \in B : m <= x
  <2> HIDE DEF B
  <2> QED BY <1>1, LeastNat
<1>3. m \in 0..N /\ m # 0 /\ m \notin S
  OBVIOUS
<1>4. m - 1 \in 0..N - 1 /\ m - 1 \notin B /\ m - 1 + 1 = m
  BY <1>2, <1>3
<1> QED BY <1>3, <1>4

Unfolds(f, n, D, base, step) ==
  f \in [0..n -> D] /\ f[0] = base /\ \A k \in 1..n : f[k] = step[k][f[k - 1]]

LEMMA RecursionAt ==
  ASSUME NEW N \in Nat, NEW D, NEW base \in D, NEW step \in [1..N -> [D -> D]]
  PROVE  \E f : Unfolds(f, N, D, base, step)
<1> DEFINE Good(j) == \E f \in [0..j -> D] : f[0] = base /\ \A k \in 1..j : f[k] = step[k][f[k - 1]]
           S == {j \in 0..N : Good(j)}
<1>1. 0 \in S
  <2> DEFINE f == [k \in 0..0 |-> base]
  <2>1. f \in [0..0 -> D] /\ f[0] = base /\ \A k \in 1..0 : f[k] = step[k][f[k - 1]]
    OBVIOUS
  <2>2. Good(0)
    <3> HIDE DEF f
    <3> QED BY <2>1
  <2> HIDE DEF Good
  <2> QED BY <2>2
<1>2. ASSUME NEW j \in 0..N - 1, j \in S PROVE j + 1 \in S
  <2>1. PICK f \in [0..j -> D] : f[0] = base /\ \A k \in 1..j : f[k] = step[k][f[k - 1]]
    BY <1>2
  <2> DEFINE g == [k \in 0..j + 1 |-> IF k <= j THEN f[k] ELSE step[j + 1][f[j]]]
  <2>2. g \in [0..j + 1 -> D]
    <3>1. j + 1 \in 1..N /\ step[j + 1] \in [D -> D] /\ f[j] \in D
      BY <2>1
    <3>2. step[j + 1][f[j]] \in D
      BY <3>1
    <3> QED BY <2>1, <3>2
  <2>3. g[0] = base
    BY <2>1
  <2>4. ASSUME NEW k \in 1..j + 1 PROVE g[k] = step[k][g[k - 1]]
    <3>1. CASE k <= j
      <4>1. k \in 1..j /\ k - 1 \in 0..j /\ k - 1 <= j
        BY <3>1
      <4> QED BY <3>1, <4>1, <2>1
    <3>2. CASE k = j + 1
      <4>1. k - 1 = j /\ ~(k <= j)
        BY <3>2
      <4> QED BY <3>2, <4>1
    <3> QED BY <3>1, <3>2
  <2>5. Good(j + 1)
    <3> HIDE DEF g
    <3> QED BY <2>2, <2>3, <2>4
  <2> HIDE DEF Good
  <2> QED BY <2>5
<1>3. 0..N \subseteq S
  <2> HIDE DEF S
  <2> QED BY <1>1, <1>2, Induct
<1>4. Good(N)
  <2> HIDE DEF Good
  <2> QED BY <1>3
<1>5. PICK f \in [0..N -> D] : f[0] = base /\ \A k \in 1..N : f[k] = step[k][f[k - 1]]
  BY <1>4
<1>6. Unfolds(f, N, D, base, step)
  BY <1>5 DEF Unfolds
<1> QED BY <1>6

Iterates(f, n, D, base, step) ==
  f \in [0..n -> D] /\ f[0] = base /\ \A k \in 1..n : f[k] = step[f[k - 1]]

LEMMA Recursion ==
  ASSUME NEW N \in Nat, NEW D, NEW base \in D, NEW step \in [D -> D]
  PROVE  \E f : Iterates(f, N, D, base, step)
<1> DEFINE steps == [k \in 1..N |-> step]
<1>1. steps \in [1..N -> [D -> D]] /\ \A k \in 1..N : steps[k] = step
  OBVIOUS
<1> HIDE DEF steps
<1>2. PICK f : Unfolds(f, N, D, base, steps)
  BY <1>1, RecursionAt
<1>3. Iterates(f, N, D, base, step)
  BY <1>1, <1>2 DEF Unfolds, Iterates
<1> QED BY <1>3

(* A sequence built of the members of another one *)
LEMMA MappedListed ==
  ASSUME NEW s, Listed(s), NEW t, t = [i \in DOMAIN s |-> t[i]]
  PROVE  Listed(t) /\ DOMAIN t = DOMAIN s /\ Len(t) = Len(s)
<1>1. Len(s) \in Nat /\ DOMAIN s = 1..Len(s)
  BY ListedIs
<1> QED BY <1>1, ListedFun

(* Sequences one after the other *)
LEMMA FlattenIs ==
  ASSUME NEW ss, Listed(ss), \A i \in DOMAIN ss : Listed(ss[i])
  PROVE  /\ Listed(FlattenSeq(ss))
         /\ \A x \in ToSet(FlattenSeq(ss)) : \E i \in DOMAIN ss : x \in ToSet(ss[i])
<1> DEFINE n == Len(ss)
           S == UNION {ToSet(ss[i]) : i \in DOMAIN ss}
           Eq(g) == g = [i \in 1..n |-> IF i = 1 THEN ss[i] ELSE g[i - 1] \o ss[i]]
           r == CHOOSE g : Eq(g)
<1>1. n \in Nat /\ DOMAIN ss = 1..n
  BY ListedIs
<1>2. FlattenSeq(ss) = IF n = 0 THEN ss ELSE r[n]
  BY Zenon DEF FlattenSeq
<1>3. CASE n = 0
  <2>1. DOMAIN ss = {}
    BY <1>1, <1>3
  <2>2. ToSet(ss) = {}
    BY <2>1, ToSetIs
  <2> HIDE DEF n, r
  <2> QED BY <1>2, <1>3, <2>2
<1>4. CASE n # 0
  <2>1. \A i \in 1..n : ss[i] \in Seq(S)
    <3> SUFFICES ASSUME NEW i \in 1..n PROVE ss[i] \in Seq(S)
      OBVIOUS
    <3>1. ToSet(ss[i]) \subseteq S
      BY <1>1
    <3> HIDE DEF n, S
    <3>2. Listed(ss[i]) /\ Len(ss[i]) \in Nat /\ DOMAIN ss[i] = 1..Len(ss[i])
      BY <1>1, ListedIs
    <3>3. ss[i] \in [1..Len(ss[i]) -> ToSet(ss[i])]
      BY <3>2, LenProperties DEF Listed
    <3>4. ss[i] \in [1..Len(ss[i]) -> S]
      BY <3>1, <3>3
    <3> QED BY <3>2, <3>4, IsASeq
  <2>2. \E g : Eq(g)
    <3> DEFINE D == Seq(S)
               step == [k \in 1..n - 1 |-> [t \in D |-> t \o ss[k + 1]]]
    <3> HIDE DEF n, S
    <3>1. step \in [1..n - 1 -> [D -> D]]
      <4> SUFFICES ASSUME NEW k \in 1..n - 1, NEW t \in D PROVE t \o ss[k + 1] \in D
        OBVIOUS
      <4>1. k + 1 \in 1..n
        BY <1>1
      <4>2. ss[k + 1] \in Seq(S) /\ t \in Seq(S)
        BY <2>1, <4>1
      <4> QED BY <4>2, ConcatProperties
    <3>2. n - 1 \in Nat /\ ss[1] \in D
      BY <1>1, <1>4, <2>1
    <3>3. PICK f : Unfolds(f, n - 1, D, ss[1], step)
      <4> HIDE DEF step, D
      <4> QED BY <3>1, <3>2, RecursionAt
    <3>4. f \in [0..n - 1 -> D] /\ f[0] = ss[1] /\ \A k \in 1..n - 1 : f[k] = step[k][f[k - 1]]
      BY <3>3 DEF Unfolds
    <3> DEFINE g == [i \in 1..n |-> f[i - 1]]
    <3>5. \A i \in 1..n : g[i] = IF i = 1 THEN ss[i] ELSE g[i - 1] \o ss[i]
      <4> SUFFICES ASSUME NEW i \in 1..n PROVE g[i] = IF i = 1 THEN ss[i] ELSE g[i - 1] \o ss[i]
        OBVIOUS
      <4>1. CASE i = 1
        <5>1. g[i] = f[0]
          BY <4>1
        <5> HIDE DEF g
        <5> QED BY <3>4, <4>1, <5>1
      <4>2. CASE i # 1
        <5>1. i - 1 \in 1..n - 1 /\ (i - 1) + 1 = i /\ i - 1 \in 1..n /\ (i - 1) - 1 \in 0..n - 1
          BY <1>1, <4>2
        <5>2. g[i] = f[i - 1] /\ g[i - 1] = f[(i - 1) - 1]
          BY <5>1
        <5>3. f[(i - 1) - 1] \in D
          <6> HIDE DEF D, step
          <6> QED BY <3>4, <5>1
        <5>4. step[i - 1][f[(i - 1) - 1]] = f[(i - 1) - 1] \o ss[(i - 1) + 1]
          <6> HIDE DEF D
          <6> QED BY <5>1, <5>3
        <5>5. f[i - 1] = step[i - 1][f[(i - 1) - 1]]
          <6> HIDE DEF D, step
          <6> QED BY <3>4, <5>1
        <5> HIDE DEF g, step
        <5> QED BY <4>2, <5>1, <5>2, <5>4, <5>5
      <4> QED BY <4>1, <4>2
    <3>6. g = [i \in 1..n |-> g[i]]
      OBVIOUS
    <3>7. Eq(g)
      <4> HIDE DEF g
      <4> QED BY <3>5, <3>6
    <3> HIDE DEF g, Eq
    <3> QED BY <3>7
  <2>3. Eq(r)
    <3> HIDE DEF Eq
    <3> QED BY <2>2
  <2> DEFINE T == {k \in 0..n - 1 : r[k + 1] \in Seq(S)}
  <2> HIDE DEF n, S, r
  <2>4. 0 \in T
    <3>1. 1 \in 1..n /\ 0 \in 0..n - 1 /\ 0 + 1 = 1
      BY <1>1, <1>4
    <3>2. r[1] = ss[1]
      BY <2>3, <3>1
    <3> QED BY <2>1, <3>1, <3>2
  <2>5. ASSUME NEW k \in 0..(n - 1) - 1, k \in T PROVE k + 1 \in T
    <3>1. k + 1 \in 0..n - 1 /\ (k + 1) + 1 \in 1..n /\ (k + 1) + 1 # 1 /\ ((k + 1) + 1) - 1 = k + 1
      BY <1>1
    <3>2. r[(k + 1) + 1] = r[k + 1] \o ss[(k + 1) + 1]
      BY <2>3, <3>1
    <3>3. r[k + 1] \in Seq(S) /\ ss[(k + 1) + 1] \in Seq(S)
      BY <2>1, <2>5, <3>1
    <3>4. r[(k + 1) + 1] \in Seq(S)
      BY <3>2, <3>3, ConcatProperties
    <3> QED BY <3>1, <3>4
  <2>6. n - 1 \in Nat /\ n - 1 \in 0..n - 1 /\ (n - 1) + 1 = n
    BY <1>1, <1>4
  <2>7. 0..n - 1 \subseteq T
    <3> HIDE DEF T
    <3> QED BY <2>4, <2>5, <2>6, Induct
  <2>8. r[n] \in Seq(S)
    BY <2>6, <2>7
  <2>9. Listed(r[n]) /\ ToSet(r[n]) \subseteq S
    BY <2>8, ListedIf, SetWithin
  <2> QED BY <1>2, <1>4, <2>9 DEF S
<1> QED BY <1>3, <1>4

-----------------------------------------------------------------------------
(* The map that a request draws *)

LinksInv == shown \subseteq Links

LEMMA LinksKept == Spec => []LinksInv
<1>1. Init => LinksInv
  BY DEF Init, LinksInv
<1>2. LinksInv /\ [Next]_vars => LinksInv'
  BY DEF LinksInv, Next, vars, Edit, ReadNodes, ReadEdges, Flows, BadLink, Respond, ReleaseImpact, Live, Impact, Answer
<1> QED BY <1>1, <1>2, PTL DEF Spec

Together ==
  pc = "nodes" /\ pc' = "built" =>
    /\ \A e \in kb'.edges : Ends(e) \subseteq kb'.nodes
    /\ \A u \in kb'.uses : u[2] \notin Archived
    /\ \A p \in kb'.processes : UsedBy(shown, p) # {} => \E u \in kb'.uses : u[1] = p

(* A request reads nodes and links in two statements: however people and   *)
(* syncs commit in between, the map that it draws hangs together           *)
(* (build_kb): for any nodes and links.                                    *)
THEOREM MapHolds == Spec => MapHangsTogether
<1> DEFINE K == Build(shown)
<1>1. ASSUME LinksInv, ReadEdges PROVE Together
  <2>1. kb' = K
    BY <1>1 DEF ReadEdges
  <2>2. \A e \in K.edges : Ends(e) \subseteq K.nodes
    BY DEF Build
  <2>3. ASSUME NEW u \in K.uses PROVE u[2] \notin Archived
    <3>1. PICK e \in shown : u = <<e.from, e.to>> /\ Ends(e) \intersect Left(shown) = {}
      BY <2>3 DEF Build
    <3> QED BY <3>1 DEF Ends, Left
  <2>4. ASSUME NEW p \in K.processes, UsedBy(shown, p) # {} PROVE \E u \in K.uses : u[1] = p
    <3>1. p \in Nodes /\ p \notin Left(shown)
      BY <2>4 DEF Build, Active
    <3>2. PICK e \in shown : e.from = p /\ e.type = "uses" /\ e.to \notin Archived
      BY <2>4, <3>1 DEF Left, UsedBy
    <3>3. UsedBy(shown, e.to) = {}
      BY <1>1, <3>2, PagesAssumption DEF LinksInv, UsedBy
    <3>4. Ends(e) \intersect Left(shown) = {}
      BY <3>1, <3>2, <3>3 DEF Left, Ends
    <3>5. <<e.from, e.to>> \in K.uses
      BY <3>2, <3>4 DEF Build
    <3> QED BY <3>2, <3>5
  <2> HIDE DEF K
  <2> QED BY <2>1, <2>2, <2>3, <2>4 DEF Together
<1>2. LinksInv /\ [Next]_vars => [Together]_vars
  <2> SUFFICES ASSUME LinksInv, Next PROVE Together
    OBVIOUS
  <2>1. CASE ReadEdges
    BY <1>1, <2>1
  <2>2. CASE ~ReadEdges
    BY <2>2 DEF Together, Next, Edit, ReadNodes, Flows, BadLink, Respond, ReleaseImpact, Live, Impact, Answer
  <2> QED BY <2>1, <2>2
<1>3. Spec => [][Together]_vars
  BY <1>2, LinksKept, PTL DEF Spec
<1>4. [][Together]_vars => MapHangsTogether
  BY PTL DEF Together, MapHangsTogether
<1> QED BY <1>3, <1>4

-----------------------------------------------------------------------------
(* The live map *)

LiveInv ==
  page.kind = "live" => pc = "built" /\ page.rows \in Histories /\ page.out = Summary(kb, page.rows)

LEMMA LiveKept == Spec => []LiveInv
<1>1. Init => LiveInv
  BY DEF Init, LiveInv, NoPage
<1>2. ASSUME LiveInv, [Next]_vars PROVE LiveInv'
  <2>1. ASSUME UNCHANGED <<pc, kb, page>> PROVE LiveInv'
    BY <1>2, <2>1 DEF LiveInv
  <2>2. ASSUME NEW rows \in Histories, Live(rows) PROVE LiveInv'
    <3>1. pc' = "built" /\ kb' = kb /\ page' = [kind |-> "live", rows |-> rows, out |-> Summary(kb, rows)]
      BY <2>2 DEF Live, Answer
    <3> QED BY <3>1 DEF LiveInv
  <2>3. ASSUME NEW c \in Changes, ReleaseImpact(c) PROVE LiveInv'
    BY <2>3 DEF LiveInv, ReleaseImpact, Answer, Refused
  <2>4. ASSUME NEW n \in Nodes, Impact(n) PROVE LiveInv'
    BY <2>4 DEF LiveInv, Impact
  <2>5. CASE ReadNodes \/ ReadEdges
    <3>1. pc # "built" /\ page' = page
      BY <2>5 DEF ReadNodes, ReadEdges
    <3>2. page.kind # "live"
      BY <1>2, <3>1 DEF LiveInv
    <3> QED BY <3>1, <3>2 DEF LiveInv
  <2>6. CASE Flows \/ BadLink \/ Respond
    BY <2>6 DEF LiveInv, Flows, BadLink, Respond, Answer, Refused, NoPage
  <2>7. CASE Edit
    BY <2>1, <2>7 DEF Edit
  <2>8. CASE UNCHANGED vars
    BY <2>1, <2>8 DEF vars
  <2> QED BY <1>2, <2>2, <2>3, <2>4, <2>5, <2>6, <2>7, <2>8 DEF Next
<1> QED BY <1>1, <1>2, PTL DEF Spec

LEMMA MinIs ==
  ASSUME NEW S, S \subseteq Nat, NEW m \in S, \A x \in S : m <= x
  PROVE  Min(S) = m
<1>1. Min(S) \in S /\ \A x \in S : Min(S) <= x
  BY DEF Min
<1>2. m \in Nat /\ Min(S) \in Nat /\ m <= Min(S) /\ Min(S) <= m
  BY <1>1
<1> QED BY <1>2

LEMMA LesserIs ==
  ASSUME NEW a \in Nat, NEW b \in Nat
  PROVE  Min({a, b}) \in Nat /\ Min({a, b}) = IF a <= b THEN a ELSE b
<1>1. CASE a <= b
  <2>1. {a, b} \subseteq Nat /\ a \in {a, b} /\ \A x \in {a, b} : a <= x
    BY <1>1
  <2> QED BY <1>1, <2>1, MinIs
<1>2. CASE ~(a <= b)
  <2>1. {a, b} \subseteq Nat /\ b \in {a, b} /\ \A x \in {a, b} : b <= x
    BY <1>2
  <2> QED BY <1>2, <2>1, MinIs
<1> QED BY <1>1, <1>2

LEMMA NewestIs ==
  ASSUME NEW rows, NEW n \in Nat, DOMAIN rows = 1..n, NEW o, NEW i \in 1..n, rows[i].object = o
  PROVE  \E k \in 1..n : /\ Newest(rows, o) = rows[k] /\ rows[k].object = o
                         /\ \A j \in 1..(k - 1) : rows[j].object # o
<1> DEFINE I == {j \in DOMAIN rows : rows[j].object = o}
<1>1. I \subseteq Nat /\ I # {} /\ I \subseteq 1..n
  OBVIOUS
<1>2. PICK k \in I : \A j \in I : k <= j
  <2> HIDE DEF I
  <2> QED BY <1>1, LeastNat
<1>3. Min(I) = k
  <2> HIDE DEF I
  <2> QED BY <1>1, <1>2, MinIs
<1>4. \A j \in 1..(k - 1) : rows[j].object # o
  BY <1>1, <1>2
<1> QED BY <1>3, <1>4 DEF Newest

LEMMA NewestOnly ==
  ASSUME NEW rows, NEW n \in Nat, DOMAIN rows = 1..n, NEW k \in 1..n,
         \A j \in 1..(k - 1) : rows[j].object # rows[k].object
  PROVE  Newest(rows, rows[k].object) = rows[k]
<1>1. PICK m \in 1..n : /\ Newest(rows, rows[k].object) = rows[m] /\ rows[m].object = rows[k].object
                        /\ \A j \in 1..(m - 1) : rows[j].object # rows[k].object
  BY NewestIs
<1> QED BY <1>1

LEMMA WorstIs ==
  ASSUME NEW S, S \subseteq {"passed", "partial", "failed"}, S # {}
  PROVE  /\ Worst(S) = "failed" <=> "failed" \in S
         /\ Worst(S) = "passed" => S = {"passed"}
<1> DEFINE I == {i \in DOMAIN StatusOrder : StatusOrder[i] \in S}
<1>1. I = {i \in 1..4 : <<"none", "passed", "partial", "failed">>[i] \in S}
  BY DEF StatusOrder
<1>2. I \subseteq 2..4 /\ (4 \in I <=> "failed" \in S) /\ (3 \in I <=> "partial" \in S) /\ (2 \in I <=> "passed" \in S)
  BY <1>1
<1>3. \A m \in I : (\A x \in I : m >= x) => Max(I) = m
  <2> HIDE DEF I
  <2> SUFFICES ASSUME NEW m \in I, \A x \in I : m >= x PROVE Max(I) = m
    OBVIOUS
  <2>1. Max(I) \in I /\ \A x \in I : Max(I) >= x
    BY DEF Max
  <2>2. \A x \in I : x \in Int
    BY <1>2
  <2>3. m \in Int /\ Max(I) \in Int
    BY <2>1, <2>2
  <2>4. m >= Max(I) /\ Max(I) >= m
    BY <2>1
  <2> QED BY <2>3, <2>4
<1>4. Worst(S) = <<"none", "passed", "partial", "failed">>[Max(I)]
  BY DEF Worst, StatusOrder
<1> HIDE DEF I
<1>5. CASE "failed" \in S
  <2>1. Max(I) = 4
    BY <1>2, <1>3, <1>5
  <2> QED BY <1>4, <1>5, <2>1
<1>6. CASE "failed" \notin S /\ "partial" \in S
  <2>1. Max(I) = 3
    BY <1>2, <1>3, <1>6
  <2> QED BY <1>4, <1>6, <2>1
<1>7. CASE "failed" \notin S /\ "partial" \notin S
  <2>1. S = {"passed"}
    BY <1>7
  <2>2. Max(I) = 2
    BY <1>2, <1>3, <1>7, <2>1
  <2> QED BY <1>4, <2>1, <2>2
<1> QED BY <1>5, <1>6, <1>7

LEMMA RunStatusIs ==
  ASSUME NEW r, r.failed \in Nat
  PROVE  /\ RunStatus(r) \in {"passed", "partial", "failed"}
         /\ RunStatus(r) = "failed" <=> r.failed > 0
         /\ RunStatus(r) = "passed" => r.failed = 0 /\ r.passed > 0
<1>1. CASE r.failed > 0
  BY <1>1 DEF RunStatus
<1>2. CASE r.failed = 0 /\ r.passed > 0 /\ r.passed >= r.total - r.skipped
  BY <1>2 DEF RunStatus
<1>3. CASE r.failed = 0 /\ ~(r.passed > 0 /\ r.passed >= r.total - r.skipped)
  BY <1>3 DEF RunStatus
<1> QED BY <1>1, <1>2, <1>3

LEMMA SummaryShows ==
  ASSUME NEW CONSTANT g, NEW rows \in Histories
  PROVE  LET Last1(i) == \A j \in 1..(i - 1) : rows[j].object # rows[i].object
             Runs(n) == {rows[i] : i \in {i \in DOMAIN rows : Last1(i) /\ n \in ObjectNodes(g, rows[i].object)}}
             status == Summary(g, rows).nodes
         IN  /\ \A n \in DOMAIN status :
                  /\ status[n] = "failed" <=> \E r \in Runs(n) : r.failed > 0
                  /\ status[n] = "passed" => \A r \in Runs(n) : r.failed = 0 /\ r.passed > 0
             /\ \A i \in DOMAIN rows : \/ rows[i].object \in Summary(g, rows).unmapped
                                       \/ \E n \in DOMAIN status : n \in ObjectNodes(g, rows[i].object)
<1> DEFINE Last1(i) == \A j \in 1..(i - 1) : rows[j].object # rows[i].object
           Runs(n) == {rows[i] : i \in {i \in DOMAIN rows : Last1(i) /\ n \in ObjectNodes(g, rows[i].object)}}
           objects == {r.object : r \in ToSet(rows)}
           nodes == UNION {ObjectNodes(g, o) : o \in objects}
           states(n) == {RunStatus(Newest(rows, o)) : o \in {o \in objects : n \in ObjectNodes(g, o)}}
<1>1. PICK len \in Nat : DOMAIN rows = 1..len /\ \A i \in 1..len : rows[i].failed \in Nat
  <2> DEFINE T == [object : STRING, total : Nat, passed : Nat, failed : Nat, skipped : Nat]
  <2>1. rows \in Seq(T) /\ \A r \in T : r.failed \in Nat
    BY PagesAssumption
  <2> HIDE DEF T
  <2>2. PICK len \in Nat : rows \in [1..len -> T]
    BY <2>1
  <2> QED BY <2>1, <2>2
<1>2. objects = {rows[i].object : i \in 1..len}
  BY <1>1 DEF ToSet
<1>3. Summary(g, rows) = [nodes |-> [n \in nodes |-> Worst(states(n))], unmapped |-> {o \in objects : ObjectNodes(g, o) = {}}]
  BY DEF Summary
<1>4. ASSUME NEW n \in nodes PROVE states(n) = {RunStatus(r) : r \in Runs(n)} /\ states(n) # {}
  <2>1. ASSUME NEW o \in objects, n \in ObjectNodes(g, o) PROVE \E r \in Runs(n) : Newest(rows, o) = r
    <3>1. PICK i \in 1..len : rows[i].object = o
      BY <1>2
    <3>2. DOMAIN rows = 1..len /\ len \in Nat
      BY <1>1
    <3>3. PICK k \in 1..len : /\ Newest(rows, o) = rows[k] /\ rows[k].object = o
                              /\ \A j \in 1..(k - 1) : rows[j].object # o
      BY ONLY <3>1, <3>2, NewestIs
    <3> QED BY <1>1, <2>1, <3>3
  <2>2. ASSUME NEW k \in 1..len, Last1(k), n \in ObjectNodes(g, rows[k].object)
        PROVE  rows[k].object \in objects /\ Newest(rows, rows[k].object) = rows[k]
    BY <1>1, <1>2, <2>2, NewestOnly
  <2>3. states(n) \subseteq {RunStatus(r) : r \in Runs(n)}
    <3> SUFFICES ASSUME NEW o \in objects, n \in ObjectNodes(g, o)
                 PROVE  \E r \in Runs(n) : RunStatus(Newest(rows, o)) = RunStatus(r)
      OBVIOUS
    <3>1. PICK r \in Runs(n) : Newest(rows, o) = r
      BY <2>1
    <3> QED BY <3>1
  <2>4. {RunStatus(r) : r \in Runs(n)} \subseteq states(n)
    <3> SUFFICES ASSUME NEW k \in 1..len, Last1(k), n \in ObjectNodes(g, rows[k].object)
                 PROVE  RunStatus(rows[k]) \in states(n)
      BY <1>1
    <3>1. rows[k].object \in objects /\ RunStatus(Newest(rows, rows[k].object)) = RunStatus(rows[k])
      BY <2>2
    <3> QED BY <3>1
  <2>5. states(n) # {}
    <3>1. PICK o \in objects : n \in ObjectNodes(g, o)
      OBVIOUS
    <3> QED BY <3>1
  <2> QED BY <2>3, <2>4, <2>5
<1>5. \A n \in nodes : \A r \in Runs(n) : r.failed \in Nat
  BY <1>1
<1>6. ASSUME NEW i \in DOMAIN rows
      PROVE  rows[i].object \in {o \in objects : ObjectNodes(g, o) = {}} \/ \E n \in nodes : n \in ObjectNodes(g, rows[i].object)
  <2>1. rows[i].object \in objects
    BY <1>1, <1>2
  <2> QED BY <2>1
<1> HIDE DEF objects, nodes, Runs, states
<1>7. ASSUME NEW n \in nodes
      PROVE  /\ Worst(states(n)) = "failed" <=> \E r \in Runs(n) : r.failed > 0
             /\ Worst(states(n)) = "passed" => \A r \in Runs(n) : r.failed = 0 /\ r.passed > 0
  <2>1. states(n) = {RunStatus(r) : r \in Runs(n)} /\ states(n) # {}
    BY <1>4
  <2>2. \A r \in Runs(n) : /\ RunStatus(r) \in {"passed", "partial", "failed"}
                           /\ RunStatus(r) = "failed" <=> r.failed > 0
                           /\ RunStatus(r) = "passed" => r.failed = 0 /\ r.passed > 0
    BY <1>5, RunStatusIs
  <2>3. states(n) \subseteq {"passed", "partial", "failed"}
    BY <2>1, <2>2
  <2>4. Worst(states(n)) = "failed" <=> "failed" \in states(n)
    BY <2>1, <2>3, WorstIs
  <2>5. Worst(states(n)) = "passed" => states(n) = {"passed"}
    BY <2>1, <2>3, WorstIs
  <2> QED BY <2>1, <2>2, <2>4, <2>5
<1>8. DOMAIN Summary(g, rows).nodes = nodes /\ \A n \in nodes : Summary(g, rows).nodes[n] = Worst(states(n))
  BY <1>3
<1>9. Summary(g, rows).unmapped = {o \in objects : ObjectNodes(g, o) = {}}
  BY <1>3
<1> QED BY <1>6, <1>7, <1>8, <1>9 DEF Runs

(* The live map is red exactly where the newest run of a suite that covers *)
(* the node failed, green only where all of them passed, and loses no run  *)
(* (live.py), whatever the map and the runs are.                           *)
THEOREM LivesHonest == Spec => []LiveHonest
<1>1. LiveInv => LiveHonest
  <2> SUFFICES ASSUME LiveInv, page.kind = "live" PROVE LiveHonest
    BY DEF LiveHonest
  <2>1. PICK rs, k : rs = page.rows /\ k = kb
    OBVIOUS
  <2>2. rs \in Histories /\ page.out = Summary(k, rs)
    BY <2>1 DEF LiveInv
  <2> QED BY <2>1, <2>2, SummaryShows DEF LiveHonest
<1> QED BY <1>1, LiveKept, PTL

-----------------------------------------------------------------------------
(* What a release reaches *)

Graphs == [Nodes -> SUBSET Nodes]

Widens(f, start, depth, next) ==
  /\ f \in [0..depth -> SUBSET Nodes] /\ f[0] = {start} /\ Within(start, depth, next) = f[depth]
  /\ \A k \in 1..depth : f[k] = f[k - 1] \union UNION {next[n] : n \in f[k - 1]}

LEMMA NearIs ==
  ASSUME NEW next \in Graphs, NEW start \in Nodes, NEW depth \in Nat
  PROVE  \E f : Widens(f, start, depth, next)
<1> DEFINE Eq(g) == g = [d \in 0..depth |->
              IF d = 0 THEN {start} ELSE LET near == g[d - 1] IN near \union UNION {next[n] : n \in near}]
           step == [s \in SUBSET Nodes |-> s \union UNION {next[n] : n \in s}]
           r == CHOOSE g : Eq(g)
<1>1. step \in [SUBSET Nodes -> SUBSET Nodes]
  BY DEF Graphs
<1>2. PICK f \in [0..depth -> SUBSET Nodes] : f[0] = {start} /\ \A k \in 1..depth : f[k] = step[f[k - 1]]
  <2>1. {start} \in SUBSET Nodes
    OBVIOUS
  <2> HIDE DEF step
  <2>2. PICK f : Iterates(f, depth, SUBSET Nodes, {start}, step)
    BY <1>1, <2>1, Recursion
  <2> QED BY <2>2 DEF Iterates
<1>3. \A k \in 1..depth : f[k] = f[k - 1] \union UNION {next[n] : n \in f[k - 1]}
  <2> SUFFICES ASSUME NEW k \in 1..depth PROVE f[k] = f[k - 1] \union UNION {next[n] : n \in f[k - 1]}
    OBVIOUS
  <2>1. k - 1 \in 0..depth
    OBVIOUS
  <2> QED BY <1>2, <2>1
<1>4. Eq(f)
  BY <1>2, <1>3
<1>5. Eq(r)
  <2> HIDE DEF Eq
  <2> QED BY <1>4
<1>6. Within(start, depth, next) = r[depth]
  BY Zenon DEF Within
<1>7. \A k \in 0..depth : r[k] = f[k]
  <2> DEFINE S == {k \in 0..depth : r[k] = f[k]}
  <2>1. 0 \in S
    <3>1. 0 \in 0..depth
      OBVIOUS
    <3> HIDE DEF r
    <3> QED BY <1>2, <1>5, <3>1
  <2>2. ASSUME NEW k \in 0..depth - 1, k \in S PROVE k + 1 \in S
    <3>1. k + 1 \in 1..depth /\ k + 1 # 0 /\ (k + 1) - 1 = k /\ k + 1 \in 0..depth
      OBVIOUS
    <3>2. r[k + 1] = r[k] \union UNION {next[n] : n \in r[k]}
      <4> HIDE DEF r
      <4> QED BY <1>5, <3>1
    <3>3. f[k + 1] = f[k] \union UNION {next[n] : n \in f[k]}
      BY <1>3, <3>1
    <3> QED BY <2>2, <3>1, <3>2, <3>3
  <2>3. 0..depth \subseteq S
    <3> HIDE DEF S
    <3> QED BY <2>1, <2>2, Induct
  <2> QED BY <2>3
<1>8. Within(start, depth, next) = f[depth]
  <2> HIDE DEF r
  <2> QED BY <1>6, <1>7
<1>9. Widens(f, start, depth, next)
  BY <1>2, <1>3, <1>8 DEF Widens
<1> QED BY <1>9

-----------------------------------------------------------------------------
(* Distances on the map *)

(* The nodes within a number of steps *)
LEMMA WithinIs ==
  ASSUME NEW next \in Graphs, NEW start \in Nodes, NEW d \in Nat
  PROVE  /\ Within(start, 0, next) = {start} /\ Within(start, d, next) \subseteq Nodes
         /\ Within(start, d + 1, next) =
              Within(start, d, next) \union UNION {next[n] : n \in Within(start, d, next)}
<1>1. Within(start, 0, next) = {start}
  <2>1. PICK f : Widens(f, start, 0, next)
    BY NearIs
  <2> QED BY <2>1 DEF Widens
<1>2. PICK f : Widens(f, start, d, next)
  BY NearIs
<1>3. PICK g : Widens(g, start, d + 1, next)
  BY NearIs
<1> USE DEF Widens
<1>4. 0..d \subseteq {k \in 0..d : g[k] = f[k]}
  <2> DEFINE S == {k \in 0..d : g[k] = f[k]}
  <2>1. 0 \in S
    <3>1. 0 \in 0..d
      OBVIOUS
    <3> QED BY <1>2, <1>3, <3>1, Zenon
  <2>2. ASSUME NEW k \in 0..d - 1, k \in S PROVE k + 1 \in S
    <3>1. k + 1 \in 1..d /\ k + 1 \in 1..d + 1 /\ (k + 1) - 1 = k /\ k + 1 \in 0..d
      OBVIOUS
    <3>2. f[k + 1] = f[k] \union UNION {next[n] : n \in f[k]}
      BY <1>2, <3>1
    <3>3. g[k + 1] = g[k] \union UNION {next[n] : n \in g[k]}
      BY <1>3, <3>1
    <3> QED BY <2>2, <3>1, <3>2, <3>3
  <2> HIDE DEF S
  <2>3. 0..d \subseteq S
    BY <2>1, <2>2, Induct
  <2> QED BY <2>3 DEF S
<1>5. g[d] = f[d] /\ f[d] \subseteq Nodes
  BY <1>2, <1>4
<1>6. d + 1 \in 1..d + 1 /\ (d + 1) - 1 = d
  OBVIOUS
<1>7. g[d + 1] = g[d] \union UNION {next[n] : n \in g[d]}
  BY <1>3, <1>6
<1> QED BY <1>1, <1>2, <1>3, <1>5, <1>7

LEMMA WithinGrows ==
  ASSUME NEW next \in Graphs, NEW start \in Nodes, NEW d \in Nat, NEW e \in Nat, d <= e
  PROVE  Within(start, d, next) \subseteq Within(start, e, next)
<1> DEFINE S == {k \in 0..e - d : Within(start, d, next) \subseteq Within(start, d + k, next)}
<1>1. 0 \in S
  <2>1. d + 0 = d /\ 0 \in 0..e - d
    OBVIOUS
  <2> QED BY <2>1
<1>2. ASSUME NEW k \in 0..(e - d) - 1, k \in S PROVE k + 1 \in S
  <2>1. d + k \in Nat /\ d + (k + 1) = (d + k) + 1 /\ k + 1 \in 0..e - d
    OBVIOUS
  <2>2. Within(start, d + k, next) \subseteq Within(start, (d + k) + 1, next)
    BY <2>1, WithinIs
  <2> QED BY <1>2, <2>1, <2>2
<1>3. e - d \in Nat /\ d + (e - d) = e
  OBVIOUS
<1>4. 0..e - d \subseteq S
  <2> HIDE DEF S
  <2> QED BY <1>1, <1>2, <1>3, Induct
<1>5. e - d \in S
  BY <1>3, <1>4
<1> QED BY <1>3, <1>5

(* Who is within a number of steps is at one distance, and who is at one   *)
(* but not at the start is a neighbour of somebody one step nearer.        *)
LEMMA AtIs ==
  ASSUME NEW next \in Graphs, NEW start \in Nodes, NEW n, NEW d \in Nat, n \in Within(start, d, next)
  PROVE  \/ n = start
         \/ \E e \in 1..d : n \in At(start, e, next)
<1> DEFINE T == {e \in Nat : n \in Within(start, e, next)}
<1>1. PICK e \in T : \A x \in T : e <= x
  <2>1. d \in T /\ T \subseteq Nat
    OBVIOUS
  <2> HIDE DEF T
  <2> QED BY <2>1, LeastNat
<1>2. e <= d /\ e \in Nat /\ n \in Within(start, e, next)
  BY <1>1
<1>3. CASE e = 0
  BY <1>2, <1>3, WithinIs
<1>4. CASE e # 0
  <2>1. e - 1 \in Nat /\ ~(e <= e - 1) /\ e \in 1..d
    BY <1>2, <1>4
  <2>2. n \notin Within(start, e - 1, next)
    BY <1>1, <2>1
  <2> QED BY <1>2, <2>1, <2>2 DEF At
<1> QED BY <1>3, <1>4

LEMMA AtFrom ==
  ASSUME NEW next \in Graphs, NEW start \in Nodes, NEW d \in Nat, NEW n \in At(start, d + 1, next)
  PROVE  /\ n \in Nodes /\ n # start
         /\ \E m \in Within(start, d, next) : n \in next[m] /\ (d # 0 => m \in At(start, d, next)) /\ (d = 0 => m = start)
<1>1. (d + 1) - 1 = d /\ d + 1 \in Nat
  OBVIOUS
<1>2. n \in Within(start, d + 1, next) /\ n \notin Within(start, d, next)
  BY <1>1 DEF At
<1>3. PICK m \in Within(start, d, next) : n \in next[m]
  BY <1>2, WithinIs
<1>4. n \in Nodes
  BY <1>1, <1>2, WithinIs
<1>5. n # start
  BY <1>2, WithinIs, WithinGrows, 0 \in Nat, 0 <= d
<1>6. ASSUME d # 0 PROVE m \in At(start, d, next)
  <2>1. d - 1 \in Nat /\ (d - 1) + 1 = d
    BY <1>6
  <2>2. m \notin Within(start, d - 1, next)
    <3>1. ASSUME m \in Within(start, d - 1, next) PROVE FALSE
      <4>1. n \in Within(start, (d - 1) + 1, next)
        BY <1>3, <2>1, <3>1, WithinIs
      <4> QED BY <1>2, <2>1, <4>1
    <3> QED BY <3>1
  <2> QED BY <1>3, <2>2 DEF At
<1>7. ASSUME d = 0 PROVE m = start
  BY <1>3, <1>7, WithinIs
<1> QED BY <1>3, <1>4, <1>5, <1>6, <1>7

(* The paths of the query *)
Walks == Seq(Nodes) \ {<<>>}
Follows(f, start, depth, next) ==
  /\ f \in [0..depth -> SUBSET Walks] /\ f[0] = {<<start>>} /\ Paths(start, depth, next) = f[depth]
  /\ \A k \in 1..depth : f[k] = Longer(f[k - 1], next)

LEMMA LongerIs ==
  ASSUME NEW next \in Graphs, NEW S \in SUBSET Walks
  PROVE  Longer(S, next) \in SUBSET Walks
<1> SUFFICES ASSUME NEW q \in Longer(S, next), q \notin S PROVE q \in Walks
  OBVIOUS
<1>1. PICK p \in S : \E n \in next[Last(p)] : q = Append(p, n)
  BY DEF Longer
<1>2. PICK n \in next[Last(p)] : q = Append(p, n)
  BY <1>1
<1>3. p \in Seq(Nodes) /\ p # <<>>
  BY DEF Walks
<1>4. Last(p) \in Nodes
  BY <1>3 DEF Last
<1>5. n \in Nodes
  BY <1>4 DEF Graphs
<1>6. Append(p, n) \in Seq(Nodes) /\ Append(p, n) # <<>>
  BY <1>3, <1>5
<1> QED BY <1>2, <1>6 DEF Walks

LEMMA PathsIs ==
  ASSUME NEW next \in Graphs, NEW start \in Nodes, NEW depth \in Nat
  PROVE  \E f : Follows(f, start, depth, next)
<1> DEFINE Eq(g) == g = [k \in 0..depth |-> IF k = 0 THEN {<<start>>} ELSE Longer(g[k - 1], next)]
           step == [s \in SUBSET Walks |-> Longer(s, next)]
           r == CHOOSE g : Eq(g)
<1>1. step \in [SUBSET Walks -> SUBSET Walks]
  BY LongerIs
<1>2. PICK f : Iterates(f, depth, SUBSET Walks, {<<start>>}, step)
  <2>1. {<<start>>} \in SUBSET Walks
    <3>1. <<start>> \in Seq(Nodes) /\ <<start>> # <<>>
      OBVIOUS
    <3> QED BY <3>1 DEF Walks
  <2> HIDE DEF step
  <2> QED BY <1>1, <2>1, Recursion
<1>3. /\ f \in [0..depth -> SUBSET Walks] /\ f[0] = {<<start>>}
      /\ \A k \in 1..depth : f[k] = Longer(f[k - 1], next)
  <2>1. f \in [0..depth -> SUBSET Walks] /\ f[0] = {<<start>>} /\ \A k \in 1..depth : f[k] = step[f[k - 1]]
    BY <1>2 DEF Iterates
  <2>2. \A k \in 1..depth : k - 1 \in 0..depth
    OBVIOUS
  <2> QED BY <2>1, <2>2
<1>4. Eq(f)
  BY <1>3
<1>5. Eq(r)
  <2> HIDE DEF Eq
  <2> QED BY <1>4
<1>6. Paths(start, depth, next) = r[depth]
  BY Zenon DEF Paths
<1>7. \A k \in 0..depth : r[k] = f[k]
  <2> DEFINE S == {k \in 0..depth : r[k] = f[k]}
  <2>1. 0 \in S
    <3>1. 0 \in 0..depth
      OBVIOUS
    <3> HIDE DEF r
    <3> QED BY <1>3, <1>5, <3>1
  <2>2. ASSUME NEW k \in 0..depth - 1, k \in S PROVE k + 1 \in S
    <3>1. k + 1 \in 1..depth /\ k + 1 # 0 /\ (k + 1) - 1 = k /\ k + 1 \in 0..depth
      OBVIOUS
    <3>2. r[k + 1] = Longer(r[k], next)
      <4> HIDE DEF r
      <4> QED BY <1>5, <3>1
    <3>3. f[k + 1] = Longer(f[k], next)
      BY <1>3, <3>1
    <3> QED BY <2>2, <3>1, <3>2, <3>3
  <2>3. 0..depth \subseteq S
    <3> HIDE DEF S
    <3> QED BY <2>1, <2>2, Induct
  <2> QED BY <2>3
<1>8. Paths(start, depth, next) = f[depth]
  <2> HIDE DEF r
  <2> QED BY <1>6, <1>7
<1> HIDE DEF Eq, r, step
<1>9. Follows(f, start, depth, next)
  BY <1>3, <1>8 DEF Follows
<1> QED BY <1>9

(* A path stays where its length leads it, and leaves the start for good. *)
Sound(p, start, next) ==
  \A i \in 1..Len(p) : p[i] \in Within(start, i - 1, next) /\ (i # 1 => p[i] # start)

LEMMA PathsSound ==
  ASSUME NEW next \in Graphs, NEW start \in Nodes, NEW depth \in Nat, NEW p \in Paths(start, depth, next)
  PROVE  p \in Walks /\ Len(p) \in 1..depth + 1 /\ Sound(p, start, next)
<1>1. PICK f : Follows(f, start, depth, next)
  BY PathsIs
<1> USE DEF Follows
<1> DEFINE Good(q, k) == Len(q) \in 1..k + 1 /\ Sound(q, start, next) /\ q[1] = start
           S == {k \in 0..depth : \A q \in f[k] : Good(q, k)}
<1>2. 0 \in S
  <2>1. Good(<<start>>, 0)
    <3>1. start \in Within(start, 0, next)
      BY WithinIs, 0 \in Nat
    <3>2. Len(<<start>>) = 1 /\ <<start>>[1] = start /\ \A i \in 1..1 : i = 1 /\ i - 1 = 0
      OBVIOUS
    <3>3. Sound(<<start>>, start, next)
      BY <3>1, <3>2 DEF Sound
    <3> QED BY <3>2, <3>3
  <2>2. 0 \in 0..depth
    OBVIOUS
  <2> HIDE DEF Good
  <2> QED BY <1>1, <2>1, <2>2
<1>3. ASSUME NEW k \in 0..depth - 1, k \in S PROVE k + 1 \in S
  <2>1. k + 1 \in 1..depth /\ (k + 1) - 1 = k /\ k + 1 \in 0..depth /\ k \in 0..depth
    OBVIOUS
  <2>2. f[k + 1] = Longer(f[k], next)
    BY <1>1, <2>1
  <2>3. ASSUME NEW q \in Longer(f[k], next) PROVE Good(q, k + 1)
    <3>1. CASE q \in f[k]
      BY <1>3, <3>1
    <3>2. CASE q \notin f[k]
      <4>1. PICK o \in f[k] : \E n \in next[Last(o)] : ~Contains(o, n) /\ q = Append(o, n)
        BY <2>3, <3>2 DEF Longer
      <4>2. PICK n \in next[Last(o)] : ~Contains(o, n) /\ q = Append(o, n)
        BY <4>1
      <4>3. o \in Seq(Nodes) /\ Good(o, k)
        BY <1>1, <1>3, <2>1 DEF Walks
      <4>4. Len(o) \in Nat \ {0} /\ Len(q) = Len(o) + 1 /\ q[Len(q)] = n /\ \A i \in 1..Len(o) : q[i] = o[i]
        BY <4>2, <4>3
      <4>5. n # start
        BY <4>2, <4>3, <4>4 DEF Contains
      <4>6. Last(o) \in Within(start, Len(o) - 1, next) /\ Last(o) \in Nodes
        BY <4>3, <4>4 DEF Sound, Last
      <4>7. Len(o) - 1 \in Nat /\ (Len(o) - 1) + 1 = Len(o) /\ Len(q) - 1 = Len(o)
        BY <4>4
      <4>8. n \in Within(start, Len(o), next)
        <5>1. ASSUME NEW d \in Nat, NEW m \in Within(start, d, next), n \in next[m] PROVE n \in Within(start, d + 1, next)
          BY <5>1, WithinIs
        <5>2. n \in Within(start, (Len(o) - 1) + 1, next)
          BY <4>2, <4>6, <4>7, <5>1
        <5> QED BY <4>7, <5>2
      <4>9. \A i \in 1..Len(q) : i \in 1..Len(o) \/ i = Len(q)
        BY <4>4
      <4>10. Sound(q, start, next)
        BY <4>3, <4>4, <4>5, <4>7, <4>8, <4>9 DEF Sound
      <4> QED BY <4>3, <4>4, <4>10
    <3> QED BY <3>1, <3>2
  <2> HIDE DEF Good
  <2> QED BY <2>1, <2>2, <2>3
<1>4. 0..depth \subseteq S
  <2> HIDE DEF S
  <2> QED BY <1>2, <1>3, Induct
<1>5. Good(p, depth)
  <2> HIDE DEF Good
  <2>1. depth \in S /\ p \in f[depth]
    BY <1>1, <1>4
  <2> QED BY <2>1
<1>6. p \in Walks
  BY <1>1
<1> QED BY <1>5, <1>6

LEMMA PathsGrow ==
  ASSUME NEW next, NEW start, NEW depth \in Nat, NEW f, Follows(f, start, depth, next), NEW k \in 0..depth
  PROVE  f[k] \subseteq Paths(start, depth, next)
<1> DEFINE S == {j \in 0..depth - k : f[k] \subseteq f[k + j]}
<1>1. 0 \in S
  <2>1. k + 0 = k /\ 0 \in 0..depth - k
    OBVIOUS
  <2> QED BY <2>1
<1>2. ASSUME NEW j \in 0..(depth - k) - 1, j \in S PROVE j + 1 \in S
  <2>1. k + (j + 1) \in 1..depth /\ (k + (j + 1)) - 1 = k + j /\ j + 1 \in 0..depth - k
    OBVIOUS
  <2>2. f[k + (j + 1)] = Longer(f[k + j], next)
    BY <2>1 DEF Follows
  <2>3. f[k + j] \subseteq Longer(f[k + j], next)
    BY DEF Longer
  <2> QED BY <1>2, <2>1, <2>2, <2>3
<1>3. depth - k \in Nat /\ k + (depth - k) = depth
  OBVIOUS
<1>4. 0..depth - k \subseteq S
  <2> HIDE DEF S
  <2> QED BY <1>1, <1>2, <1>3, Induct
<1>5. depth - k \in S
  BY <1>3, <1>4
<1> QED BY <1>3, <1>5 DEF Follows

(* Who is at a distance has a path of that length. *)
LEMMA PathsComplete ==
  ASSUME NEW next \in Graphs, NEW start \in Nodes, NEW depth \in Nat, NEW e \in 1..depth, NEW n \in At(start, e, next)
  PROVE  \E p \in Paths(start, depth, next) : Len(p) = e + 1 /\ Last(p) = n
<1>1. PICK f : Follows(f, start, depth, next)
  BY PathsIs
<1>2. \A k \in 1..depth : f[k] = Longer(f[k - 1], next)
  BY <1>1 DEF Follows
<1> DEFINE Has(k, d, x) == \E p \in f[k] : Len(p) = d + 1 /\ Last(p) = x
           Good(k) == /\ <<start>> \in f[k]
                      /\ \A d \in 1..k : \A x \in At(start, d, next) : Has(k, d, x)
           S == {k \in 0..depth : Good(k)}
<1>3. 0 \in S
  <2>1. <<start>> \in f[0] /\ 0 \in 0..depth
    BY <1>1 DEF Follows
  <2> QED BY <2>1
<1>4. ASSUME NEW k \in 0..depth - 1, k \in S PROVE k + 1 \in S
  <2>1. k + 1 \in 1..depth /\ (k + 1) - 1 = k /\ k + 1 \in 0..depth /\ k \in 0..depth /\ k \in Nat
    OBVIOUS
  <2>2. f[k + 1] = Longer(f[k], next)
    BY <1>2, <2>1
  <2>3. f[k] \subseteq Longer(f[k], next)
    BY DEF Longer
  <2>4. Good(k)
    BY <1>4
  <2>5. ASSUME NEW d \in 1..k + 1, NEW x \in At(start, d, next) PROVE Has(k + 1, d, x)
    <3>1. CASE d \in 1..k
      <4>1. PICK p \in f[k] : Len(p) = d + 1 /\ Last(p) = x
        BY <2>4, <2>5, <3>1
      <4> QED BY <2>2, <2>3, <4>1
    <3>2. CASE d = k + 1
      <4>1. PICK m \in Within(start, k, next) :
              x \in next[m] /\ (k # 0 => m \in At(start, k, next)) /\ (k = 0 => m = start)
        BY <2>1, <2>5, <3>2, AtFrom
      <4>2. PICK p \in f[k] : Len(p) = k + 1 /\ Last(p) = m
        <5>1. CASE k = 0
          <6>1. <<start>> \in f[k] /\ Len(<<start>>) = k + 1 /\ Last(<<start>>) = m
            BY <2>4, <4>1, <5>1 DEF Last
          <6> QED BY <6>1
        <5>2. CASE k # 0
          <6>1. k \in 1..k
            BY <5>2
          <6> QED BY <2>4, <4>1, <5>2, <6>1
        <5> QED BY <5>1, <5>2
      <4>3. p \in Seq(Nodes)
        BY <1>1, <2>1, <4>2 DEF Walks, Follows
      <4>4. ~Contains(p, x)
        <5>1. SUFFICES ASSUME NEW i \in 1..Len(p), p[i] = x PROVE FALSE
          BY DEF Contains
        <5>2. Sound(p, start, next)
          <6>1. p \in Paths(start, depth, next)
            BY <1>1, <2>1, <4>2, PathsGrow
          <6> QED BY <6>1, PathsSound
        <5>3. i - 1 \in Nat /\ i - 1 <= k
          BY <4>2, <5>1
        <5>4. x \in Within(start, k, next)
          BY <2>1, <5>1, <5>2, <5>3, WithinGrows DEF Sound
        <5>5. x \notin Within(start, k, next)
          BY <2>1, <2>5, <3>2 DEF At
        <5> QED BY <5>4, <5>5
      <4>5. Append(p, x) \in f[k + 1]
        BY <2>2, <4>1, <4>2, <4>4 DEF Longer
      <4>6. Len(Append(p, x)) = d + 1 /\ Last(Append(p, x)) = x
        <5>1. x \in Nodes
          BY <2>1, <2>5, <3>2, AtFrom
        <5> QED BY <3>2, <4>2, <4>3, <5>1 DEF Last
      <4> QED BY <4>5, <4>6
    <3> QED BY <2>1, <2>5, <3>1, <3>2
  <2> HIDE DEF Has
  <2> QED BY <2>1, <2>2, <2>3, <2>4, <2>5
<1>5. 0..depth \subseteq S
  <2> HIDE DEF S
  <2> QED BY <1>3, <1>4, Induct
<1>6. Good(depth) /\ f[depth] = Paths(start, depth, next)
  BY <1>1, <1>5 DEF Follows
<1> QED BY <1>6

(* The query gives each node its shortest distance. *)
LEMMA NearestIs ==
  ASSUME NEW next \in Graphs, NEW start \in Nodes, NEW depth \in Nat
  PROVE  Exactly(Nearest(Paths(start, depth, next)), start, depth, next)
<1> DEFINE P == Paths(start, depth, next)
           A == {<<h.id, h.depth>> : h \in Nearest(P)}
           B == UNION {At(start, d, next) \X {d} : d \in 1..depth}
<1>1. ASSUME NEW z \in A PROVE z \in B
  <2>1. PICK p \in P : /\ z = <<Last(p), Len(p) - 1>> /\ Len(p) > 1
                       /\ \A q \in P : Last(q) = Last(p) => Len(p) <= Len(q)
    <3>1. PICK h \in Nearest(P) : z = <<h.id, h.depth>>
      OBVIOUS
    <3> HIDE DEF P
    <3>2. PICK p \in P : /\ h = [id |-> Last(p), depth |-> Len(p) - 1] /\ Len(p) > 1
                         /\ \A q \in P : Last(q) = Last(p) => Len(p) <= Len(q)
      BY DEF Nearest
    <3> QED BY <3>1, <3>2
  <2>2. p \in Walks /\ Len(p) \in 1..depth + 1 /\ Sound(p, start, next)
    BY PathsSound
  <2> DEFINE d == Len(p) - 1
             n == Last(p)
  <2>3. d \in 1..depth /\ Len(p) \in 1..Len(p) /\ Len(p) # 1
    <3>1. \A l \in 1..depth + 1 : l > 1 => l - 1 \in 1..depth /\ l \in 1..l /\ l # 1
      OBVIOUS
    <3> QED BY <2>1, <2>2, <3>1
  <2>4. n \in Within(start, d, next) /\ n # start
    BY <2>2, <2>3 DEF Sound, Last
  <2>5. PICK e \in 1..d : n \in At(start, e, next)
    BY <2>3, <2>4, AtIs
  <2>6. e \in 1..depth
    BY <2>3, <2>5
  <2>7. PICK q \in P : Len(q) = e + 1 /\ Last(q) = n
    BY <2>5, <2>6, PathsComplete
  <2>8. e = d
    BY <2>1, <2>2, <2>5, <2>7
  <2>9. z \in At(start, d, next) \X {d}
    BY <2>1, <2>5, <2>8
  <2> QED BY <2>3, <2>9
<1>2. ASSUME NEW z \in B PROVE z \in A
  <2>1. PICK d \in 1..depth : z \in At(start, d, next) \X {d}
    OBVIOUS
  <2>2. PICK n \in At(start, d, next) : z = <<n, d>>
    BY <2>1
  <2>3. PICK p \in P : Len(p) = d + 1 /\ Last(p) = n
    BY <2>2, PathsComplete
  <2>4. ASSUME NEW q \in P, Last(q) = Last(p) PROVE Len(p) <= Len(q)
    <3>1. q \in Walks /\ Len(q) \in 1..depth + 1 /\ Sound(q, start, next)
      BY PathsSound
    <3>2. Len(q) - 1 \in Nat /\ Len(q) \in 1..Len(q)
      BY <3>1
    <3>3. n \in Within(start, Len(q) - 1, next)
      BY <2>3, <2>4, <3>1, <3>2 DEF Sound, Last
    <3>4. n \notin Within(start, d - 1, next)
      BY <2>2 DEF At
    <3>5. ~(Len(q) - 1 <= d - 1)
      <4>1. d - 1 \in Nat
        OBVIOUS
      <4> QED BY <3>2, <3>3, <3>4, <4>1, WithinGrows
    <3> QED BY <2>3, <3>2, <3>5
  <2>5. [id |-> Last(p), depth |-> Len(p) - 1] \in Nearest(P)
    <3> HIDE DEF P
    <3>1. Len(p) > 1
      BY <2>3
    <3> QED BY <2>4, <3>1 DEF Nearest
  <2>6. Len(p) - 1 = d
    BY <2>3
  <2>7. [id |-> n, depth |-> d] \in Nearest(P)
    BY <2>3, <2>5, <2>6
  <2> HIDE DEF P
  <2> QED BY <2>2, <2>7
<1> HIDE DEF A, B
<1>3. A = B
  BY <1>1, <1>2
<1> QED BY <1>3 DEF A, B, P, Exactly

(* The walk of the analyses *)
Hops == {Hop(p) : p \in Walks}

LEMMA HopIs ==
  ASSUME NEW p \in Walks
  PROVE  /\ Hop(p) \in Hops /\ Hop(p).path = p /\ Hop(p).id = p[Len(p)] /\ Hop(p).id \in Nodes
         /\ Hop(p).depth = Len(p) - 1 /\ Hop(p).depth \in Nat /\ Hop(p) = [id |-> Hop(p).id, depth |-> Hop(p).depth, path |-> p]
<1>1. p \in Seq(Nodes) /\ Len(p) \in Nat /\ Len(p) # 0
  BY DEF Walks
<1>2. p[Len(p)] \in Nodes /\ Len(p) - 1 \in Nat
  BY <1>1
<1> QED BY <1>2 DEF Hop, Hops, Last

LEMMA HopsAre ==
  ASSUME NEW h \in Hops
  PROVE  h.path \in Walks /\ h = Hop(h.path) /\ h.id \in Nodes /\ h.depth \in Nat
<1>1. PICK p \in Walks : h = Hop(p)
  BY DEF Hops
<1> QED BY <1>1, HopIs

LEMMA HopOn ==
  ASSUME NEW h \in Hops, NEW n \in Nodes
  PROVE  LET g == Hop(Append(h.path, n)) IN
         /\ g \in Hops /\ g.id = n /\ g.depth = h.depth + 1
         /\ (\A i \in 1..h.depth + 1 : g.path[i] = h.path[i]) /\ g.path[h.depth + 2] = n /\ h.path[h.depth + 1] = h.id
<1> DEFINE p == h.path
           q == Append(p, n)
<1>1. p \in Seq(Nodes) /\ p # <<>> /\ h.id = p[Len(p)] /\ h.depth = Len(p) - 1
  BY HopsAre, HopIs DEF Walks
<1>2. /\ q \in Seq(Nodes) /\ q # <<>> /\ Len(p) \in Nat /\ Len(q) = Len(p) + 1 /\ q[Len(p) + 1] = n
      /\ \A i \in 1..Len(p) : q[i] = p[i]
  BY <1>1
<1>3. q \in Walks
  BY <1>2 DEF Walks
<1>4. Hop(q) \in Hops /\ Hop(q).path = q /\ Hop(q).id = q[Len(q)] /\ Hop(q).depth = Len(q) - 1
  BY <1>3, HopIs
<1>5. h.depth + 1 = Len(p) /\ h.depth + 2 = Len(p) + 1 /\ Len(q) - 1 = h.depth + 1
  BY <1>1, <1>2
<1> HIDE DEF q
<1>6. Hop(q) \in Hops /\ Hop(q).id = n /\ Hop(q).depth = h.depth + 1
  BY <1>2, <1>4, <1>5
<1>7. (\A i \in 1..h.depth + 1 : Hop(q).path[i] = h.path[i]) /\ Hop(q).path[h.depth + 2] = n /\ h.path[h.depth + 1] = h.id
  BY <1>1, <1>2, <1>4, <1>5
<1> QED BY <1>6, <1>7 DEF q

States == [queue : Seq(Hops), seen : SUBSET Hops]
Queues(f, start, depth, next) ==
  /\ f \in [0..Cardinality(Nodes) -> States] /\ f[0] = [queue |-> <<Hop(<<start>>)>>, seen |-> {}]
  /\ Walk(start, depth, next) = f[Cardinality(Nodes)].seen
  /\ \A k \in 1..Cardinality(Nodes) : f[k] = Visit(f[k - 1], next, depth)

LEMMA StartIs ==
  ASSUME NEW start \in Nodes
  PROVE  /\ <<start>> \in Walks /\ Hop(<<start>>) \in Hops /\ Hop(<<start>>).id = start /\ Hop(<<start>>).depth = 0
         /\ Hop(<<start>>).path[1] = start
<1>1. <<start>> \in Seq(Nodes) /\ <<start>> # <<>> /\ Len(<<start>>) = 1 /\ <<start>>[1] = start
  OBVIOUS
<1> QED BY <1>1, HopIs DEF Walks

(* What a round finds, and where it goes on. *)
Ids(s, next, depth) ==
  LET cur == Head(s.queue) IN
  IF cur.depth >= depth THEN {} ELSE {n \in next[cur.id] : n # cur.path[1] /\ \A h \in s.seen : h.id # n}
News(s, next, depth) == {Hop(Append(Head(s.queue).path, n)) : n \in Ids(s, next, depth)}

LEMMA VisitIs ==
  ASSUME NEW next \in Graphs, NEW depth \in Nat, NEW s \in States, s.queue # <<>>
  PROVE  /\ Visit(s, next, depth) = [queue |-> Tail(s.queue) \o SetToSeq(News(s, next, depth)),
                                     seen |-> s.seen \union News(s, next, depth)]
         /\ Head(s.queue) \in Hops /\ Ids(s, next, depth) \subseteq Nodes
         /\ News(s, next, depth) \subseteq Hops /\ IsFiniteSet(News(s, next, depth))
<1> DEFINE cur == Head(s.queue)
           ids == Ids(s, next, depth)
           news == News(s, next, depth)
<1>1. s.queue \in Seq(Hops) /\ cur \in Hops
  BY DEF States
<1>2. Visit(s, next, depth) = [queue |-> Tail(s.queue) \o SetToSeq(news), seen |-> s.seen \union news]
  BY Zenon DEF Visit, News, Ids
<1>3. ids \subseteq Nodes
  BY <1>1, HopsAre DEF Ids, Graphs
<1>4. news \subseteq Hops
  BY <1>1, <1>3, HopOn DEF News
<1>5. IsFiniteSet(ids)
  BY <1>3, PagesAssumption, FS_Subset
<1>6. IsFiniteSet(news)
  <2> DEFINE g == [n \in ids |-> Hop(Append(cur.path, n))]
  <2>1. g \in Surjection(ids, news)
    BY DEF Surjection, News
  <2> HIDE DEF g, ids, news
  <2> QED BY <1>5, <2>1, FS_Surjection
<1> QED BY <1>1, <1>2, <1>3, <1>4, <1>6

LEMMA VisitIn ==
  ASSUME NEW next \in Graphs, NEW depth \in Nat, NEW s \in States
  PROVE  Visit(s, next, depth) \in States
<1>1. CASE s.queue = <<>>
  BY <1>1, Zenon DEF Visit
<1>2. CASE s.queue # <<>>
  <2> DEFINE news == News(s, next, depth)
             t == SetToSeq(news)
  <2>1. news \subseteq Hops /\ IsFiniteSet(news)
    BY <1>2, VisitIs
  <2>2. t \in Seq(Hops)
    <3>1. Listed(t) /\ ToSet(t) = news
      BY <2>1, SetToSeqIs
    <3>2. t \in Seq(news)
      BY <3>1 DEF Listed
    <3>3. Seq(news) \subseteq Seq(Hops)
      BY <2>1
    <3> QED BY <3>2, <3>3
  <2>3. s.queue \in Seq(Hops) /\ s.seen \subseteq Hops
    BY DEF States
  <2>4. Visit(s, next, depth) = [queue |-> Tail(s.queue) \o t, seen |-> s.seen \union news]
    BY <1>2, VisitIs
  <2> HIDE DEF t, news
  <2>5. Tail(s.queue) \in Seq(Hops)
    BY <1>2, <2>3
  <2>6. Tail(s.queue) \o t \in Seq(Hops)
    BY <2>2, <2>5
  <2> QED BY <2>1, <2>3, <2>4, <2>6 DEF States
<1> QED BY <1>1, <1>2

LEMMA QueuesAre ==
  ASSUME NEW next \in Graphs, NEW start \in Nodes, NEW depth \in Nat
  PROVE  \E f : Queues(f, start, depth, next)
<1> DEFINE N == Cardinality(Nodes)
           base == [queue |-> <<Hop(<<start>>)>>, seen |-> {}]
           Eq(g) == g = [k \in 0..N |-> IF k = 0 THEN base ELSE Visit(g[k - 1], next, depth)]
           step == [s \in States |-> Visit(s, next, depth)]
           r == CHOOSE g : Eq(g)
<1>0. N \in Nat
  BY PagesAssumption, FS_CardinalityType
<1>1. step \in [States -> States]
  BY VisitIn
<1>2. PICK f : Iterates(f, N, States, base, step)
  <2>1. base \in States
    <3>1. Hop(<<start>>) \in Hops
      BY StartIs
    <3> QED BY <3>1 DEF States
  <2> HIDE DEF step, base, N
  <2> QED BY <1>0, <1>1, <2>1, Recursion
<1> HIDE DEF N, base
<1>3. f \in [0..N -> States] /\ f[0] = base /\ \A k \in 1..N : f[k] = Visit(f[k - 1], next, depth)
  <2>1. f \in [0..N -> States] /\ f[0] = base /\ \A k \in 1..N : f[k] = step[f[k - 1]]
    BY <1>2 DEF Iterates
  <2>2. \A k \in 1..N : k - 1 \in 0..N
    BY <1>0
  <2> QED BY <2>1, <2>2
<1>4. Eq(f)
  BY <1>3
<1>5. Eq(r)
  <2> HIDE DEF Eq
  <2> QED BY <1>4
<1>6. Walk(start, depth, next) = r[N].seen
  BY Zenon DEF Walk, N, base
<1>7. \A k \in 0..N : r[k] = f[k]
  <2> DEFINE S == {k \in 0..N : r[k] = f[k]}
  <2>1. 0 \in S
    <3>1. 0 \in 0..N
      BY <1>0
    <3> HIDE DEF r
    <3> QED BY <1>3, <1>5, <3>1
  <2>2. ASSUME NEW k \in 0..N - 1, k \in S PROVE k + 1 \in S
    <3>1. k + 1 \in 1..N /\ k + 1 # 0 /\ (k + 1) - 1 = k /\ k + 1 \in 0..N
      BY <1>0
    <3>2. r[k + 1] = Visit(r[k], next, depth)
      <4> HIDE DEF r
      <4> QED BY <1>5, <3>1
    <3>3. f[k + 1] = Visit(f[k], next, depth)
      BY <1>3, <3>1
    <3> QED BY <2>2, <3>1, <3>2, <3>3
  <2>3. 0..N \subseteq S
    <3> HIDE DEF S
    <3> QED BY <1>0, <2>1, <2>2, Induct
  <2> QED BY <2>3
<1>8. Walk(start, depth, next) = f[N].seen
  <2> HIDE DEF r
  <2> QED BY <1>0, <1>6, <1>7
<1> HIDE DEF Eq, r, step
<1>9. Queues(f, start, depth, next)
  BY <1>3, <1>8 DEF Queues, N, base
<1> QED BY <1>9

(* A hop by a path of the map which is as long as the distance *)
Shortest(h, start, next) ==
  /\ h \in Hops /\ h.path[1] = start /\ h.depth \in Nat \ {0} /\ h.id \in At(start, h.depth, next)
  /\ \A i \in 1..h.depth : h.path[i + 1] \in next[h.path[i]]

(* The hops so far: the queue is in the order of the distances, which      *)
(* differ by one at most, and where a hop has left it one goes on.         *)
All(s, start) == {Hop(<<start>>)} \union s.seen
Found(s, start) == {start} \union {h.id : h \in s.seen}
Hopping(s, start, depth, next) ==
  /\ s \in States /\ Listed(s.queue) /\ ToSet(s.queue) \subseteq All(s, start)
  /\ IsFiniteSet(s.seen)
  /\ \A h \in s.seen : Shortest(h, start, next) /\ h.depth <= depth
  /\ \A g, h \in s.seen : g.id = h.id => g = h
  /\ \A i, j \in 1..Len(s.queue) : i <= j => /\ s.queue[i].depth <= s.queue[j].depth
                                             /\ s.queue[j].depth <= s.queue[i].depth + 1
  /\ \A h \in All(s, start) : h \in ToSet(s.queue) \/ h.depth >= depth \/ next[h.id] \subseteq Found(s, start)

LEMMA AllAre ==
  ASSUME NEW next \in Graphs, NEW start \in Nodes, NEW depth \in Nat, NEW s, Hopping(s, start, depth, next),
         NEW h \in All(s, start)
  PROVE  /\ h \in Hops /\ h.id \in Nodes /\ h.depth \in 0..depth /\ h.path[1] = start
         /\ h.id \in Within(start, h.depth, next) /\ (h.depth = 0 => h.id = start)
         /\ \A i \in 1..h.depth : h.path[i + 1] \in next[h.path[i]]
<1>1. CASE h = Hop(<<start>>)
  BY <1>1, StartIs, WithinIs, 0 \in Nat
<1>2. CASE h \in s.seen
  <2>1. Shortest(h, start, next) /\ h.depth <= depth
    BY <1>2 DEF Hopping
  <2> QED BY <2>1, HopsAre DEF Shortest, At
<1> QED BY <1>1, <1>2 DEF All

(* While the queue is as far as d steps, everything within d is found. *)
LEMMA FoundIs ==
  ASSUME NEW next \in Graphs, NEW start \in Nodes, NEW depth \in Nat, NEW s, Hopping(s, start, depth, next),
         NEW d \in 0..depth, \A h \in ToSet(s.queue) : d <= h.depth
  PROVE  Within(start, d, next) \subseteq Found(s, start)
<1> DEFINE S == {k \in 0..d : Within(start, k, next) \subseteq Found(s, start)}
<1>1. 0 \in S
  <2>1. Within(start, 0, next) = {start}
    BY WithinIs, 0 \in Nat
  <2> QED BY <2>1 DEF Found
<1>2. ASSUME NEW k \in 0..d - 1, k \in S PROVE k + 1 \in S
  <2>1. k \in Nat /\ k + 1 \in 0..d /\ k < d /\ d <= depth
    OBVIOUS
  <2>2. ASSUME NEW x \in Within(start, k + 1, next) PROVE x \in Found(s, start)
    <3>1. CASE x \in Within(start, k, next)
      BY <1>2, <3>1
    <3>2. CASE x \notin Within(start, k, next)
      <4>1. PICK y \in Within(start, k, next) : x \in next[y]
        BY <2>1, <2>2, <3>2, WithinIs
      <4>2. y \in Found(s, start)
        BY <1>2, <4>1
      <4>3. PICK h \in All(s, start) : h.id = y /\ h.depth <= k
        <5>1. CASE y = start
          BY <2>1, <5>1, StartIs DEF All
        <5>2. CASE y # start
          <6>1. PICK h \in s.seen : h.id = y
            BY <4>2, <5>2 DEF Found
          <6>2. h.depth \in Nat \ {0} /\ y \in At(start, h.depth, next)
            BY <6>1 DEF Hopping, Shortest
          <6>3. h.depth - 1 \in Nat /\ y \notin Within(start, h.depth - 1, next)
            BY <6>2 DEF At
          <6>4. ~(k <= h.depth - 1)
            BY <2>1, <4>1, <6>3, WithinGrows
          <6> QED BY <2>1, <6>1, <6>2, <6>4 DEF All
        <5> QED BY <5>1, <5>2
      <4>4. h.depth \in 0..depth
        BY <4>3, AllAre
      <4>5. h \notin ToSet(s.queue) /\ ~(h.depth >= depth)
        BY <2>1, <4>3, <4>4
      <4> QED BY <4>1, <4>3, <4>5 DEF Hopping
    <3> QED BY <3>1, <3>2
  <2> QED BY <2>1, <2>2
<1>3. d \in Nat /\ d \in 0..d
  OBVIOUS
<1>4. 0..d \subseteq S
  <2> HIDE DEF S
  <2> QED BY <1>1, <1>2, <1>3, Induct
<1> QED BY <1>3, <1>4

LEMMA NewHop ==
  ASSUME NEW next \in Graphs, NEW start \in Nodes, NEW depth \in Nat, NEW s, Hopping(s, start, depth, next),
         s.queue # <<>>, NEW n \in Ids(s, next, depth)
  PROVE  LET cur == Head(s.queue)
             g == Hop(Append(cur.path, n))
         IN  /\ g.id = n /\ g.depth = cur.depth + 1 /\ g.depth <= depth /\ Shortest(g, start, next)
             /\ n \in next[cur.id] /\ n # start /\ \A h \in s.seen : h.id # n
<1> DEFINE cur == Head(s.queue)
           d == cur.depth
           g == Hop(Append(cur.path, n))
<1>1. /\ cur = s.queue[1] /\ Len(s.queue) \in Nat /\ DOMAIN s.queue = 1..Len(s.queue) /\ 1 \in DOMAIN s.queue
      /\ s.queue \in Seq(Hops)
  BY ListedIs, TailIs DEF Hopping, States
<1>2. cur \in ToSet(s.queue) /\ cur \in All(s, start)
  <2>1. cur \in ToSet(s.queue)
    BY <1>1, ToSetIs
  <2> QED BY <2>1 DEF Hopping
<1> HIDE DEF cur
<1>3. /\ cur \in Hops /\ cur.id \in Nodes /\ d \in 0..depth /\ cur.path[1] = start /\ cur.id \in Within(start, d, next)
      /\ \A i \in 1..d : cur.path[i + 1] \in next[cur.path[i]]
  BY <1>2, AllAre
<1>4. ~(d >= depth) /\ n \in next[cur.id] /\ n # start /\ \A h \in s.seen : h.id # n
  BY <1>3 DEF Ids, cur
<1>5. n \in Nodes
  BY <1>3, <1>4 DEF Graphs
<1>6. /\ g \in Hops /\ g.id = n /\ g.depth = d + 1
      /\ (\A i \in 1..d + 1 : g.path[i] = cur.path[i]) /\ g.path[d + 2] = n /\ cur.path[d + 1] = cur.id
  BY <1>3, <1>5, HopOn
<1> HIDE DEF g
<1>7. d + 1 <= depth /\ d + 1 \in Nat \ {0} /\ (d + 1) - 1 = d /\ d \in Nat /\ 1 \in 1..d + 1
  BY <1>3, <1>4
<1>8. n \in Within(start, d + 1, next)
  <2>1. Within(start, d + 1, next) = Within(start, d, next) \union UNION {next[m] : m \in Within(start, d, next)}
    <3> HIDE DEF d
    <3> QED BY <1>7, WithinIs
  <2> QED BY <1>3, <1>4, <2>1
<1>9. n \notin Within(start, d, next)
  <2>1. ASSUME NEW h \in ToSet(s.queue) PROVE d <= h.depth
    <3>1. PICK i \in 1..Len(s.queue) : h = s.queue[i]
      BY <1>1, ToSetIs
    <3>2. 1 \in 1..Len(s.queue) /\ 1 <= i
      BY <1>1
    <3> QED BY <1>1, <3>1, <3>2 DEF Hopping
  <2>2. Within(start, d, next) \subseteq Found(s, start)
    BY <1>3, <2>1, FoundIs
  <2>3. n \notin Found(s, start)
    BY <1>4 DEF Found
  <2> QED BY <2>2, <2>3
<1>10. n \in At(start, d + 1, next)
  BY <1>7, <1>8, <1>9 DEF At
<1>11. ASSUME NEW i \in 1..d + 1 PROVE g.path[i + 1] \in next[g.path[i]]
  <2>1. CASE i = d + 1
    BY <1>4, <1>6, <1>7, <2>1
  <2>2. CASE i # d + 1
    <3>1. i \in 1..d /\ i + 1 \in 1..d + 1
      BY <1>7, <2>2
    <3> QED BY <1>3, <1>6, <3>1
  <2> QED BY <2>1, <2>2
<1>12. Shortest(g, start, next)
  BY <1>3, <1>6, <1>7, <1>10, <1>11 DEF Shortest
<1> QED BY <1>4, <1>6, <1>7, <1>12 DEF cur, g

LEMMA VisitHops ==
  ASSUME NEW next \in Graphs, NEW start \in Nodes, NEW depth \in Nat, NEW s, Hopping(s, start, depth, next),
         s.queue # <<>>
  PROVE  LET t == Visit(s, next, depth) IN
         /\ Hopping(t, start, depth, next)
         /\ Len(t.queue) + Cardinality(s.seen) = (Len(s.queue) - 1) + Cardinality(t.seen)
<1> DEFINE cur == Head(s.queue)
           ids == Ids(s, next, depth)
           news == News(s, next, depth)
           tail == Tail(s.queue)
           added == SetToSeq(news)
           t == Visit(s, next, depth)
<1>1. /\ s \in States /\ Listed(s.queue) /\ ToSet(s.queue) \subseteq All(s, start) /\ IsFiniteSet(s.seen)
      /\ cur = s.queue[1] /\ Len(s.queue) \in Nat /\ DOMAIN s.queue = 1..Len(s.queue) /\ 1 \in 1..Len(s.queue)
  BY ListedIs, TailIs DEF Hopping
<1>2. cur \in All(s, start)
  <2>1. cur \in ToSet(s.queue)
    BY <1>1, ToSetIs
  <2> QED BY <1>1, <2>1
<1>3. cur \in Hops /\ cur.id \in Nodes /\ cur.depth \in 0..depth /\ cur.path[1] = start
  BY <1>2, AllAre
<1>4. t = [queue |-> tail \o added, seen |-> s.seen \union news] /\ IsFiniteSet(news)
  BY <1>1, VisitIs
<1>5. t \in States
  BY <1>1, VisitIn
<1>6. ASSUME NEW g \in news
      PROVE  /\ g = Hop(Append(cur.path, g.id)) /\ g.id \in ids
             /\ g.depth = cur.depth + 1 /\ g.depth <= depth /\ Shortest(g, start, next)
             /\ \A h \in s.seen : h.id # g.id
  <2>1. PICK n \in ids : g = Hop(Append(cur.path, n))
    BY DEF News
  <2> DEFINE h == Hop(Append(cur.path, n))
  <2>2. /\ h.id = n /\ h.depth = cur.depth + 1 /\ h.depth <= depth /\ Shortest(h, start, next)
        /\ \A x \in s.seen : x.id # n
    <3> HIDE DEF news, tail, added, t
    <3> QED BY NewHop
  <2> HIDE DEF cur, ids, news, tail, added, t
  <2> QED BY <2>1, <2>2
<1>7. /\ Listed(added) /\ ToSet(added) = news /\ Len(added) = Cardinality(news) /\ Len(added) \in Nat
      /\ DOMAIN added = 1..Len(added)
  BY <1>4, SetToSeqIs, ListedIs
<1>8. /\ Listed(tail) /\ Len(tail) = Len(s.queue) - 1 /\ ToSet(tail) \subseteq ToSet(s.queue)
      /\ \A i \in 1..Len(s.queue) - 1 : tail[i] = s.queue[i + 1]
  BY <1>1, TailIs
<1>9. DOMAIN tail = 1..Len(tail) /\ Len(tail) \in Nat
  BY <1>8, ListedIs
<1> HIDE DEF t, ids, news, tail, added, cur
<1>10. /\ Listed(tail \o added) /\ Len(tail \o added) = Len(tail) + Len(added)
       /\ (\A i \in 1..Len(tail) : (tail \o added)[i] = tail[i])
       /\ (\A i \in 1..Len(added) : (tail \o added)[Len(tail) + i] = added[i])
       /\ ToSet(tail \o added) = ToSet(tail) \union news
  <2>1. Listed(tail) /\ Listed(added)
    BY <1>7, <1>8
  <2>2. /\ Listed(tail \o added) /\ Len(tail \o added) = Len(tail) + Len(added)
        /\ (\A i \in 1..Len(tail) : (tail \o added)[i] = tail[i])
        /\ (\A i \in 1..Len(added) : (tail \o added)[Len(tail) + i] = added[i])
        /\ ToSet(tail \o added) = ToSet(tail) \union ToSet(added)
    BY <2>1, ConcatIs
  <2>3. ToSet(added) = news
    BY <1>7
  <2> QED BY <2>2, <2>3
<1>11. t.queue = tail \o added /\ t.seen = s.seen \union news
  BY <1>4
<1>12. ASSUME NEW i \in 1..Len(tail) + Len(added)
       PROVE  \/ i \in 1..Len(tail) /\ i + 1 \in 1..Len(s.queue) /\ t.queue[i] = s.queue[i + 1]
              \/ i \in Len(tail) + 1..Len(tail) + Len(added) /\ t.queue[i].depth = cur.depth + 1
  <2>1. CASE i \in 1..Len(tail)
    BY <1>1, <1>8, <1>10, <1>11, <2>1
  <2>2. CASE i \notin 1..Len(tail)
    <3>1. i - Len(tail) \in 1..Len(added) /\ Len(tail) + (i - Len(tail)) = i /\ i \in Len(tail) + 1..Len(tail) + Len(added)
      BY <1>7, <1>9, <2>2
    <3>2. t.queue[i] = added[i - Len(tail)] /\ added[i - Len(tail)] \in news
      BY <1>7, <1>10, <1>11, <3>1, ToSetIs
    <3> QED BY <1>6, <3>1, <3>2
  <2> QED BY <2>1, <2>2
<1>13. ASSUME NEW i \in 1..Len(s.queue)
       PROVE  s.queue[i].depth \in Nat /\ cur.depth <= s.queue[i].depth /\ s.queue[i].depth <= cur.depth + 1
  <2>1. s.queue[i] \in All(s, start)
    BY <1>1, ToSetIs
  <2>2. s.queue[i].depth \in Nat
    BY <2>1, AllAre
  <2>3. 1 <= i
    OBVIOUS
  <2> QED BY <1>1, <2>2, <2>3 DEF Hopping
<1>14. ASSUME NEW i \in 1..Len(t.queue), NEW j \in 1..Len(t.queue), i <= j
       PROVE  t.queue[i].depth <= t.queue[j].depth /\ t.queue[j].depth <= t.queue[i].depth + 1
  <2>1. Len(t.queue) = Len(tail) + Len(added)
    BY <1>10, <1>11
  <2>2. CASE i \in 1..Len(tail) /\ j \in 1..Len(tail)
    <3>1. i + 1 \in 1..Len(s.queue) /\ j + 1 \in 1..Len(s.queue) /\ i + 1 <= j + 1
      BY <1>1, <1>8, <1>14, <2>2
    <3>2. t.queue[i] = s.queue[i + 1] /\ t.queue[j] = s.queue[j + 1]
      BY <1>8, <1>10, <1>11, <2>2
    <3> QED BY <3>1, <3>2 DEF Hopping
  <2>3. CASE i \in 1..Len(tail) /\ j \notin 1..Len(tail)
    <3>1. i + 1 \in 1..Len(s.queue) /\ t.queue[i] = s.queue[i + 1] /\ t.queue[j].depth = cur.depth + 1
      <4>1. i \notin Len(tail) + 1..Len(tail) + Len(added)
        BY <1>9, <2>3
      <4> QED BY <1>12, <2>1, <2>3, <4>1
    <3> QED BY <1>3, <1>13, <3>1
  <2>4. CASE i \notin 1..Len(tail)
    <3>1. j \notin 1..Len(tail)
      BY <1>9, <1>14, <2>4
    <3>2. t.queue[i].depth = cur.depth + 1 /\ t.queue[j].depth = cur.depth + 1
      BY <1>12, <2>1, <2>4, <3>1
    <3> QED BY <1>3, <3>2
  <2> QED BY <2>2, <2>3, <2>4
<1>15. Found(s, start) \subseteq Found(t, start)
  BY <1>11 DEF Found
<1>16. ASSUME NEW h \in All(t, start)
       PROVE  h \in ToSet(t.queue) \/ h.depth >= depth \/ next[h.id] \subseteq Found(t, start)
  <2>1. CASE h \in news
    BY <1>10, <1>11, <2>1
  <2>2. CASE h \notin news
    <3>1. h \in All(s, start)
      BY <1>11, <2>2 DEF All
    <3>2. CASE h \notin ToSet(s.queue)
      BY <1>15, <3>1, <3>2 DEF Hopping
    <3>3. CASE h \in ToSet(s.queue) /\ h = cur
      <4> SUFFICES ASSUME ~(cur.depth >= depth), NEW n \in next[cur.id], n \notin Found(t, start) PROVE FALSE
        BY <3>3
      <4>1. n # start /\ \A g \in s.seen : g.id # n
        BY <1>11 DEF Found
      <4>2. n \in ids
        <5>1. n # cur.path[1]
          BY <1>3, <4>1
        <5> QED BY <4>1, <5>1 DEF Ids, ids, cur
      <4>3. Hop(Append(cur.path, n)) \in news /\ Hop(Append(cur.path, n)).id = n
        BY <4>2, NewHop DEF News, news, ids, cur
      <4> QED BY <1>11, <4>3 DEF Found
    <3>4. CASE h \in ToSet(s.queue) /\ h # cur
      <4>1. PICK i \in 1..Len(s.queue) : h = s.queue[i]
        BY <1>1, <3>4, ToSetIs
      <4>2. i # 1
        BY <1>1, <3>4, <4>1
      <4>3. i - 1 \in 1..Len(s.queue) - 1 /\ (i - 1) + 1 = i
        BY <1>1, <4>2
      <4>4. h = tail[i - 1] /\ i - 1 \in DOMAIN tail
        BY <1>8, <1>9, <4>1, <4>3
      <4>5. h \in ToSet(tail)
        BY <4>4, ToSetIs
      <4> QED BY <1>10, <1>11, <4>5
    <3> QED BY <3>2, <3>3, <3>4
  <2> QED BY <2>1, <2>2
<1>17. ASSUME NEW g \in t.seen, NEW h \in t.seen, g.id = h.id PROVE g = h
  <2>1. CASE g \in s.seen /\ h \in s.seen
    BY <1>17, <2>1 DEF Hopping
  <2>2. CASE g \in news /\ h \in news
    BY <1>6, <1>17, <2>2
  <2>3. CASE g \in news /\ h \in s.seen
    BY <1>6, <1>17, <2>3
  <2>4. CASE g \in s.seen /\ h \in news
    BY <1>6, <1>17, <2>4
  <2> QED BY <1>11, <2>1, <2>2, <2>3, <2>4
<1>18. \A h \in t.seen : Shortest(h, start, next) /\ h.depth <= depth
  BY <1>6, <1>11 DEF Hopping
<1>19. ToSet(t.queue) \subseteq All(t, start)
  BY <1>1, <1>8, <1>10, <1>11 DEF All
<1>20. IsFiniteSet(t.seen) /\ Cardinality(t.seen) = Cardinality(s.seen) + Cardinality(news)
  <2>1. s.seen \intersect news = {}
    BY <1>6
  <2>2. /\ IsFiniteSet(s.seen \union news)
        /\ Cardinality(s.seen \union news) = Cardinality(s.seen) + Cardinality(news) - Cardinality(s.seen \intersect news)
    BY <1>1, <1>4, FS_Union
  <2>3. Cardinality(s.seen \intersect news) = 0 /\ Cardinality(s.seen) \in Nat /\ Cardinality(news) \in Nat
    BY <1>1, <1>4, <2>1, FS_EmptySet, FS_CardinalityType
  <2> QED BY <1>11, <2>2, <2>3
<1>21. Hopping(t, start, depth, next)
  BY <1>5, <1>10, <1>11, <1>14, <1>16, <1>17, <1>18, <1>19, <1>20 DEF Hopping
<1>22. Len(t.queue) + Cardinality(s.seen) = (Len(s.queue) - 1) + Cardinality(t.seen)
  <2>1. Cardinality(s.seen) \in Nat /\ Cardinality(news) \in Nat
    BY <1>1, <1>4, FS_CardinalityType
  <2> QED BY <1>1, <1>7, <1>8, <1>10, <1>11, <1>20, <2>1
<1> QED BY <1>21, <1>22 DEF t

(* The walk gives each node its shortest distance, by a path of the map.   *)
LEMMA WalkIs ==
  ASSUME NEW next \in Graphs, NEW start \in Nodes, NEW depth \in Nat
  PROVE  /\ Exactly(Walk(start, depth, next), start, depth, next)
         /\ \A h \in Walk(start, depth, next) : \A i \in 1..h.depth : h.path[i + 1] \in next[h.path[i]]
         /\ \A g, h \in Walk(start, depth, next) : g.id = h.id => g = h
<1> DEFINE N == Cardinality(Nodes)
<1>1. PICK f : Queues(f, start, depth, next)
  BY QueuesAre
<1>2. N \in Nat /\ IsFiniteSet(Nodes)
  BY PagesAssumption, FS_CardinalityType
<1> DEFINE Good(k) == /\ Hopping(f[k], start, depth, next)
                      /\ f[k].queue = <<>> \/ Len(f[k].queue) + k = Cardinality(f[k].seen) + 1
           S == {k \in 0..N : Good(k)}
<1>3. 0 \in S
  <2> DEFINE h0 == Hop(<<start>>)
             q == <<h0>>
  <2>1. f[0].queue = q /\ f[0].seen = {} /\ f[0] \in States
    <3>1. f \in [0..N -> States] /\ f[0] = [queue |-> q, seen |-> {}]
      BY <1>1 DEF Queues
    <3>2. 0 \in 0..N
      BY <1>2
    <3> HIDE DEF q, N, Good, S
    <3>3. f[0] \in States
      BY <3>1, <3>2
    <3>4. f[0].queue = q /\ f[0].seen = {}
      BY <3>1
    <3> QED BY <3>3, <3>4
  <2>2. h0 \in Hops /\ h0.id = start /\ h0.depth = 0
    BY StartIs
  <2>3. Listed(q) /\ ToSet(q) = {h0} /\ Len(q) = 1 /\ q[1] = h0
    <3> HIDE DEF h0
    <3> QED BY SingleIs
  <2>4. Cardinality(f[0].seen) = 0 /\ IsFiniteSet(f[0].seen)
    BY <2>1, FS_EmptySet
  <2>5. All(f[0], start) = {h0}
    BY <2>1 DEF All
  <2> HIDE DEF h0, q
  <2>6. Hopping(f[0], start, depth, next)
    <3>1. \A i, j \in 1..Len(f[0].queue) : i = 1 /\ j = 1
      BY <2>1, <2>3
    <3> QED BY <2>1, <2>2, <2>3, <2>4, <2>5, <3>1 DEF Hopping
  <2>7. Len(f[0].queue) + 0 = Cardinality(f[0].seen) + 1
    BY <2>1, <2>3, <2>4
  <2>8. Good(0) /\ 0 \in 0..N
    BY <1>2, <2>6, <2>7
  <2> HIDE DEF Good
  <2> QED BY <2>8
<1>4. ASSUME NEW k \in 0..N - 1, k \in S PROVE k + 1 \in S
  <2>1. k + 1 \in 1..N /\ (k + 1) - 1 = k /\ k + 1 \in 0..N /\ k \in Nat
    BY <1>2
  <2>2. f[k + 1] = Visit(f[k], next, depth) /\ Good(k)
    BY <1>1, <1>4, <2>1 DEF Queues
  <2>3. CASE f[k].queue = <<>>
    <3>1. f[k + 1] = f[k]
      BY <2>2, <2>3, Zenon DEF Visit
    <3> QED BY <2>1, <2>2, <2>3, <3>1
  <2>4. CASE f[k].queue # <<>>
    <3>1. /\ Hopping(f[k + 1], start, depth, next)
          /\ Len(f[k + 1].queue) + Cardinality(f[k].seen) = (Len(f[k].queue) - 1) + Cardinality(f[k + 1].seen)
      BY <2>2, <2>4, VisitHops
    <3>2. /\ Len(f[k].queue) \in Nat /\ Len(f[k + 1].queue) \in Nat
          /\ Cardinality(f[k].seen) \in Nat /\ Cardinality(f[k + 1].seen) \in Nat
      BY <2>2, <3>1, ListedIs, FS_CardinalityType DEF Hopping
    <3>3. Len(f[k].queue) + k = Cardinality(f[k].seen) + 1
      BY <2>2, <2>4
    <3>4. Len(f[k + 1].queue) + (k + 1) = Cardinality(f[k + 1].seen) + 1
      <4> DEFINE a == Len(f[k].queue)
                 b == Len(f[k + 1].queue)
                 c == Cardinality(f[k].seen)
                 d == Cardinality(f[k + 1].seen)
      <4>1. a \in Nat /\ b \in Nat /\ c \in Nat /\ d \in Nat /\ b + c = (a - 1) + d /\ a + k = c + 1
        BY <3>1, <3>2, <3>3
      <4> HIDE DEF a, b, c, d
      <4>2. b + (k + 1) = d + 1
        BY <2>1, <4>1
      <4> QED BY <4>2 DEF b, d
    <3> QED BY <2>1, <3>1, <3>4
  <2> QED BY <2>3, <2>4
<1>5. Good(N)
  <2>1. 0..N \subseteq S
    <3> HIDE DEF S, N
    <3> QED BY <1>2, <1>3, <1>4, Induct
  <2> HIDE DEF Good
  <2> QED BY <1>2, <2>1
<1> DEFINE s == f[N]
           W == Walk(start, depth, next)
<1>6. W = s.seen /\ Hopping(s, start, depth, next) /\ IsFiniteSet(s.seen) /\ Listed(s.queue)
  BY <1>1, <1>5 DEF Queues, Hopping
<1>7. s.queue = <<>>
  <2> SUFFICES ASSUME s.queue # <<>> PROVE FALSE
    OBVIOUS
  <2>1. Len(s.queue) + N = Cardinality(s.seen) + 1 /\ Len(s.queue) \in Nat \ {0}
    BY <1>5, <1>6, ListedIs
  <2> DEFINE g == [h \in s.seen |-> h.id]
             others == Nodes \ {start}
  <2>2. g \in Injection(s.seen, others)
    <3>1. \A h \in s.seen : h.id \in others
      <4> SUFFICES ASSUME NEW h \in s.seen PROVE h.id \in others
        OBVIOUS
      <4>1. Shortest(h, start, next)
        BY <1>6 DEF Hopping
      <4>2. h.depth - 1 \in Nat /\ (h.depth - 1) + 1 = h.depth /\ h.id \in At(start, h.depth, next)
        BY <4>1 DEF Shortest
      <4>3. h.id \in At(start, (h.depth - 1) + 1, next)
        BY <4>2
      <4> QED BY <4>2, <4>3, AtFrom
    <3>2. \A a, b \in s.seen : a.id = b.id => a = b
      BY <1>6 DEF Hopping
    <3> HIDE DEF others, s
    <3> QED BY <3>1, <3>2 DEF Injection, IsInjective
  <2>3. IsFiniteSet(others) /\ Cardinality(others) = N - 1
    BY <1>2, FS_RemoveElement
  <2>4. Cardinality(s.seen) <= N - 1 /\ Cardinality(s.seen) \in Nat
    <3> HIDE DEF g, others, s
    <3> QED BY <1>6, <2>2, <2>3, FS_Injection, FS_CardinalityType
  <2> HIDE DEF s
  <2> QED BY <1>2, <2>1, <2>4
<1> HIDE DEF s
<1>8. ToSet(s.queue) = {}
  BY <1>7, ToSetIs
<1> DEFINE A == {<<h.id, h.depth>> : h \in W}
           B == UNION {At(start, d, next) \X {d} : d \in 1..depth}
<1>9. ASSUME NEW z \in A PROVE z \in B
  <2>1. PICK h \in W : z = <<h.id, h.depth>>
    OBVIOUS
  <2>2. h.depth \in 1..depth /\ h.id \in At(start, h.depth, next)
    BY <1>6, <2>1 DEF Hopping, Shortest
  <2>3. z \in At(start, h.depth, next) \X {h.depth}
    BY <2>1, <2>2
  <2> QED BY <2>2, <2>3
<1>10. ASSUME NEW z \in B PROVE z \in A
  <2>1. PICK d \in 1..depth : z \in At(start, d, next) \X {d}
    OBVIOUS
  <2>2. PICK n \in At(start, d, next) : z = <<n, d>>
    BY <2>1
  <2>3. d - 1 \in Nat /\ (d - 1) + 1 = d /\ d \in 0..depth /\ d \in Nat
    BY <2>1
  <2>4. n # start
    BY <2>2, <2>3, AtFrom
  <2>5. n \in Within(start, d, next) /\ n \notin Within(start, d - 1, next)
    BY <2>2 DEF At
  <2>6. Within(start, d, next) \subseteq Found(s, start)
    BY <1>6, <1>8, <2>3, FoundIs
  <2>7. PICK h \in s.seen : h.id = n
    BY <2>4, <2>5, <2>6 DEF Found
  <2>8. h.depth \in Nat \ {0} /\ n \in At(start, h.depth, next)
    BY <1>6, <2>7 DEF Hopping, Shortest
  <2>9. h.depth - 1 \in Nat /\ n \in Within(start, h.depth, next) /\ n \notin Within(start, h.depth - 1, next)
    BY <2>8 DEF At
  <2>10. ~(d <= h.depth - 1) /\ ~(h.depth <= d - 1)
    BY <2>3, <2>5, <2>8, <2>9, WithinGrows
  <2>11. h.depth = d
    BY <2>3, <2>8, <2>10
  <2> QED BY <1>6, <2>2, <2>7, <2>11
<1>11. A = B
  <2> HIDE DEF A, B
  <2> QED BY <1>9, <1>10
<1>12. \A h \in W : \A i \in 1..h.depth : h.path[i + 1] \in next[h.path[i]]
  BY <1>6 DEF Hopping, Shortest
<1>13. \A a, b \in W : a.id = b.id => a = b
  BY <1>6 DEF Hopping
<1> QED BY <1>11, <1>12, <1>13 DEF Exactly

-----------------------------------------------------------------------------
(* What a release shows *)

(* What a page of a release or of an impact was computed from              *)
KbInv == kb.nodes \subseteq Nodes /\ \A e \in kb.edges : e.from \in Nodes /\ e.to \in Nodes
ReleaseInv ==
  /\ KbInv
  /\ page.kind = "release" =>
       /\ pc = "built" /\ page.change.comp \in kb.nodes
       /\ page.out = Analysis(kb, page.change.comp, FilesOf(page.change))
  /\ page.kind = "impact" => page.id \in Nodes /\ page.out = ImpactPage(shown, page.id, 3)

LEMMA ReleaseKept == Spec => []ReleaseInv
<1>1. Init => ReleaseInv
  BY DEF Init, ReleaseInv, KbInv, NoPage, NoKb
<1>2. ASSUME ReleaseInv, [Next]_vars PROVE ReleaseInv'
  <2>1. ASSUME UNCHANGED <<shown, pc, kb, page>> PROVE ReleaseInv'
    BY <1>2, <2>1 DEF ReleaseInv, KbInv
  <2>2. ASSUME NEW c \in Changes, ReleaseImpact(c) PROVE ReleaseInv'
    <3>1. UNCHANGED <<kb, pc, shown>> /\ pc = "built"
      BY <2>2 DEF ReleaseImpact, Answer
    <3>2. CASE page' = Refused
      BY <1>2, <3>1, <3>2 DEF ReleaseInv, KbInv, Refused
    <3>3. CASE page' # Refused
      <4>1. /\ c.comp \in kb.nodes
            /\ page' = [kind |-> "release", change |-> c, out |-> Analysis(kb, c.comp, FilesOf(c))]
        BY <2>2, <3>3 DEF ReleaseImpact, Answer
      <4>2. page'.kind = "release" /\ page'.change = c /\ page'.out = Analysis(kb, c.comp, FilesOf(c))
        BY <4>1
      <4>3. page'.out = Analysis(kb', page'.change.comp, FilesOf(page'.change))
        BY <3>1, <4>2
      <4>4. KbInv'
        BY <1>2, <3>1 DEF ReleaseInv, KbInv
      <4> QED BY <3>1, <4>1, <4>2, <4>3, <4>4 DEF ReleaseInv
    <3> QED BY <3>2, <3>3
  <2>3. ASSUME NEW rows \in Histories, Live(rows) PROVE ReleaseInv'
    <3>1. UNCHANGED <<kb, pc, shown>> /\ page'.kind = "live"
      BY <2>3 DEF Live, Answer
    <3> QED BY <1>2, <3>1 DEF ReleaseInv, KbInv
  <2>4. ASSUME NEW n \in Nodes, Impact(n) PROVE ReleaseInv'
    <3>1. UNCHANGED <<kb, pc, shown>> /\ page' = [kind |-> "impact", id |-> n, out |-> ImpactPage(shown, n, 3)]
      BY <2>4 DEF Impact
    <3>2. page'.kind = "impact" /\ page'.id = n /\ page'.out = ImpactPage(shown', page'.id, 3)
      BY <3>1
    <3> QED BY <1>2, <3>1, <3>2 DEF ReleaseInv, KbInv
  <2>5. CASE ReadNodes
    <3>1. pc # "built" /\ UNCHANGED <<kb, shown, page>>
      BY <2>5 DEF ReadNodes
    <3> QED BY <1>2, <3>1 DEF ReleaseInv, KbInv
  <2>6. CASE ReadEdges
    <3>1. pc # "built" /\ kb' = Build(shown) /\ UNCHANGED <<shown, page>>
      BY <2>6 DEF ReadEdges
    <3>2. KbInv'
      BY <3>1 DEF KbInv, Build, Active, Ends
    <3> QED BY <1>2, <3>1, <3>2 DEF ReleaseInv
  <2>7. CASE Flows
    <3>1. UNCHANGED <<kb, pc, shown>> /\ page'.kind = "flow"
      BY <2>7 DEF Flows, Answer
    <3> QED BY <1>2, <3>1 DEF ReleaseInv, KbInv
  <2>8. CASE BadLink
    <3>1. UNCHANGED <<kb, pc, shown>> /\ page'.kind = "refused"
      BY <2>8 DEF BadLink, Refused
    <3> QED BY <1>2, <3>1 DEF ReleaseInv, KbInv
  <2>9. CASE Respond
    <3>1. kb' = NoKb /\ page'.kind = "none"
      BY <2>9 DEF Respond, NoPage
    <3> QED BY <3>1 DEF ReleaseInv, KbInv, NoKb
  <2>10. CASE Edit
    <3>1. UNCHANGED kb /\ page'.kind = "none"
      BY <2>10 DEF Edit, NoPage
    <3> QED BY <1>2, <3>1 DEF ReleaseInv, KbInv
  <2>11. CASE UNCHANGED vars
    BY <2>1, <2>11 DEF vars
  <2> QED BY <1>2, <2>2, <2>3, <2>4, <2>5, <2>6, <2>7, <2>8, <2>9, <2>10, <2>11 DEF Next
<1> QED BY <1>1, <1>2, PTL DEF Spec

LEMMA GraphsAre ==
  ASSUME KbInv
  PROVE  Callers(kb) \in Graphs /\ Called(kb) \in Graphs /\ Downstream(kb) \in Graphs
BY DEF KbInv, Graphs, Callers, Called, Downstream

LEMMA DistancesAreExact ==
  ASSUME LinksInv, ReleaseInv
  PROVE  DistancesExact
<1>1. ASSUME NEW n \in kb.nodes, NEW d \in 1..3, NEW next \in {Callers(kb), Called(kb), Downstream(kb)}
      PROVE  LET hops == Walk(n, d, next) IN
             /\ Exactly(hops, n, d, next)
             /\ \A h \in hops : \A i \in 1..h.depth : h.path[i + 1] \in next[h.path[i]]
  <2>1. n \in Nodes /\ next \in Graphs /\ d \in Nat
    BY GraphsAre DEF ReleaseInv, KbInv
  <2> QED BY <2>1, WalkIs
<1>2. ASSUME page.kind = "impact"
      PROVE  /\ Exactly(page.out.upstream, page.id, 3,
                        [n \in Nodes |-> {l.from : l \in {l \in shown : l.to = n}}])
             /\ Exactly(page.out.downstream, page.id, 3,
                        [n \in Nodes |-> {l.to : l \in {l \in shown : l.from = n}}])
  <2> DEFINE up == [n \in Nodes |-> {l.from : l \in {l \in shown : l.to = n}}]
             down == [n \in Nodes |-> {l.to : l \in {l \in shown : l.from = n}}]
  <2>1. up \in Graphs /\ down \in Graphs
    BY PagesAssumption DEF LinksInv, Graphs
  <2>2. page.id \in Nodes /\ page.out = ImpactPage(shown, page.id, 3)
    BY <1>2 DEF ReleaseInv
  <2>3. page.out.upstream = Nearest(Paths(page.id, 3, up)) /\ page.out.downstream = Nearest(Paths(page.id, 3, down))
    BY <2>2 DEF ImpactPage
  <2> HIDE DEF up, down
  <2>4. Exactly(Nearest(Paths(page.id, 3, up)), page.id, 3, up) /\ Exactly(Nearest(Paths(page.id, 3, down)), page.id, 3, down)
    BY <2>1, <2>2, NearestIs, 3 \in Nat
  <2>5. Exactly(page.out.upstream, page.id, 3, up) /\ Exactly(page.out.downstream, page.id, 3, down)
    BY <2>3, <2>4
  <2> QED BY <2>5 DEF up, down
<1> QED BY <1>1, <1>2, Zenon DEF DistancesExact

(* Risks *)
Risks == {"nessuno", "basso", "medio", "alto"}

LEMMA RankIs == Rank("nessuno") = 1 /\ Rank("basso") = 2 /\ Rank("medio") = 3 /\ Rank("alto") = 4
<1>1. DOMAIN RiskOrder = 1..4
  BY DEF RiskOrder
<1>2. RiskOrder[1] = "nessuno" /\ RiskOrder[2] = "basso" /\ RiskOrder[3] = "medio" /\ RiskOrder[4] = "alto"
  BY DEF RiskOrder
<1>3. \A i \in 1..4 : i = 1 \/ i = 2 \/ i = 3 \/ i = 4
  OBVIOUS
<1>4. ASSUME NEW r, NEW k \in 1..4, RiskOrder[k] = r, \A i \in 1..4 : RiskOrder[i] = r => i = k PROVE Rank(r) = k
  BY <1>1, <1>4 DEF Rank
<1>5. /\ \A i \in 1..4 : RiskOrder[i] = "nessuno" => i = 1
      /\ \A i \in 1..4 : RiskOrder[i] = "basso" => i = 2
      /\ \A i \in 1..4 : RiskOrder[i] = "medio" => i = 3
      /\ \A i \in 1..4 : RiskOrder[i] = "alto" => i = 4
  BY <1>2, <1>3
<1> QED BY <1>2, <1>4, <1>5

LEMMA RiskIs == ASSUME NEW cats PROVE ChangeRisk(cats) \in Risks
BY DEF ChangeRisk, Risks

LEMMA RanksAre ==
  /\ \A r \in Risks : Rank(r) \in 1..4
  /\ \A r, q \in Risks : Rank(r) = Rank(q) => r = q
  /\ \A r \in Risks : Rank(r) >= 3 <=> r \in Serious
BY RankIs DEF Risks, Serious

(* A node is listed once, as bad as the worst of the ways that reach it.   *)
LEMMA MergedIs ==
  ASSUME NEW items, \A y \in items : y.risk \in Risks /\ y.depth \in Nat
  PROVE  LET m == Merged(items) IN
         /\ {x.id : x \in m} = {y.id : y \in items}
         /\ \A x \in m : /\ x.relations = {y.relation : y \in {y \in items : y.id = x.id}} /\ x.risk \in Risks
                         /\ \A y \in items : y.id = x.id => Rank(y.risk) <= Rank(x.risk)
         /\ \A x, y \in m : x.id = y.id => x = y
<1> DEFINE Better(x, y) == \/ Rank(x.risk) > Rank(y.risk)
                           \/ x.risk = y.risk /\ x.depth < y.depth
           Best(x) == x \in items /\ \A y \in items : y.id = x.id => ~Better(y, x)
           Entry(x) == [id |-> x.id, risk |-> x.risk, depth |-> x.depth,
                        relations |-> {y.relation : y \in {y \in items : y.id = x.id}}]
           m == Merged(items)
<1>1. \A e : e \in m <=> \E x \in items : Best(x) /\ e = Entry(x)
  <2>1. m = {Entry(x) : x \in {x \in items : \A y \in items : y.id = x.id => ~Better(y, x)}}
    BY Zenon DEF Merged
  <2> HIDE DEF m, Better, Entry
  <2> QED BY <2>1
<1>2. ASSUME NEW y \in items PROVE \E x \in items : Best(x) /\ x.id = y.id
  <2> DEFINE same == {z \in items : z.id = y.id}
             ranks == {Rank(z.risk) : z \in same}
  <2>1. ranks \subseteq 0..4 /\ ranks # {}
    BY RanksAre
  <2>2. PICK r \in ranks : \A q \in ranks : q <= r
    <3> HIDE DEF ranks
    <3> QED BY <2>1, GreatestNat
  <2> DEFINE worst == {z \in same : Rank(z.risk) = r}
             depths == {z.depth : z \in worst}
  <2>3. depths \subseteq Nat /\ depths # {}
    BY <2>2
  <2>4. PICK d \in depths : \A e \in depths : d <= e
    <3> HIDE DEF depths
    <3> QED BY <2>3, LeastNat
  <2>5. PICK x \in worst : x.depth = d
    BY <2>4
  <2>6. x \in items /\ x.id = y.id /\ Rank(x.risk) = r
    BY <2>5
  <2>7. ASSUME NEW z \in items, z.id = x.id PROVE ~Better(z, x)
    <3>1. z \in same
      BY <2>6, <2>7
    <3>2. Rank(z.risk) <= r /\ Rank(z.risk) \in 1..4 /\ r \in 0..4
      BY <2>1, <2>2, <3>1, RanksAre
    <3>3. CASE z.risk = x.risk
      <4>1. z \in worst
        BY <2>6, <3>1, <3>3
      <4>2. d <= z.depth /\ d \in Nat /\ z.depth \in Nat
        BY <2>3, <2>4, <4>1
      <4> QED BY <2>5, <2>6, <3>2, <4>2
    <3>4. CASE z.risk # x.risk
      BY <2>6, <3>2, <3>4
    <3> QED BY <3>3, <3>4
  <2> HIDE DEF Better, worst
  <2> QED BY <2>6, <2>7
<1>3. ASSUME NEW x, Best(x), NEW y \in items, y.id = x.id PROVE Rank(y.risk) <= Rank(x.risk)
  <2>1. ~Better(y, x) /\ x \in items
    BY <1>3
  <2>2. ~(Rank(y.risk) > Rank(x.risk)) /\ Rank(y.risk) \in 1..4 /\ Rank(x.risk) \in 1..4
    BY <2>1, RanksAre
  <2> QED BY <2>2
<1>4. ASSUME NEW x, NEW y, Best(x), Best(y), x.id = y.id PROVE Entry(x) = Entry(y)
  <2>1. Rank(x.risk) = Rank(y.risk)
    <3>1. Rank(y.risk) <= Rank(x.risk) /\ Rank(x.risk) <= Rank(y.risk)
      BY <1>3, <1>4
    <3> QED BY <1>4, <3>1, RanksAre
  <2>2. x.risk = y.risk
    BY <1>4, <2>1, RanksAre
  <2>3. x.depth = y.depth
    <3>1. ~(x.depth < y.depth) /\ ~(y.depth < x.depth) /\ x.depth \in Nat /\ y.depth \in Nat
      BY <1>4, <2>2
    <3> QED BY <3>1
  <2> QED BY <1>4, <2>2, <2>3
<1>5. ASSUME NEW e \in m PROVE \E x \in items : Best(x) /\ e = Entry(x) /\ e.id = x.id /\ e.risk = x.risk
  <2>1. PICK x \in items : Best(x) /\ e = Entry(x)
    BY <1>1
  <2> HIDE DEF Best
  <2> QED BY <2>1
<1>6. {x.id : x \in m} = {y.id : y \in items}
  <2>1. ASSUME NEW e \in m PROVE e.id \in {y.id : y \in items}
    <3> HIDE DEF Best
    <3> QED BY <1>5
  <2>2. ASSUME NEW y \in items PROVE y.id \in {x.id : x \in m}
    <3>1. PICK x \in items : Best(x) /\ x.id = y.id
      BY <1>2
    <3>2. Entry(x) \in m /\ Entry(x).id = x.id
      <4> HIDE DEF Best, m
      <4> QED BY <1>1, <3>1
    <3> QED BY <3>1, <3>2
  <2> QED BY <2>1, <2>2
<1>7. ASSUME NEW e \in m
      PROVE  /\ e.relations = {y.relation : y \in {y \in items : y.id = e.id}} /\ e.risk \in Risks
             /\ \A y \in items : y.id = e.id => Rank(y.risk) <= Rank(e.risk)
  <2>1. PICK x \in items : Best(x) /\ e = Entry(x) /\ e.id = x.id /\ e.risk = x.risk
    BY <1>5
  <2> HIDE DEF Best
  <2>2. e.relations = {y.relation : y \in {y \in items : y.id = x.id}}
    BY <2>1
  <2> QED BY <1>3, <2>1, <2>2
<1>8. ASSUME NEW e \in m, NEW g \in m, e.id = g.id PROVE e = g
  <2>1. PICK x \in items : Best(x) /\ e = Entry(x) /\ e.id = x.id /\ e.risk = x.risk
    BY <1>5
  <2>2. PICK y \in items : Best(y) /\ g = Entry(y) /\ g.id = y.id /\ g.risk = y.risk
    BY <1>5
  <2> HIDE DEF Best, Entry
  <2> QED BY <1>4, <1>8, <2>1, <2>2
<1> HIDE DEF m
<1> QED BY <1>6, <1>7, <1>8 DEF m

LEMMA WalkHas ==
  ASSUME NEW next \in Graphs, NEW start \in Nodes, NEW depth \in Nat
  PROVE  /\ \A h \in Walk(start, depth, next) : h.depth \in 1..depth /\ h.id \in At(start, h.depth, next)
         /\ \A d \in 1..depth : \A n \in At(start, d, next) : \E h \in Walk(start, depth, next) : h.id = n /\ h.depth = d
<1> DEFINE W == Walk(start, depth, next)
           B == UNION {At(start, d, next) \X {d} : d \in 1..depth}
<1>1. {<<h.id, h.depth>> : h \in W} = B
  BY WalkIs DEF Exactly
<1> HIDE DEF W
<1>2. ASSUME NEW h \in W PROVE h.depth \in 1..depth /\ h.id \in At(start, h.depth, next)
  <2>1. <<h.id, h.depth>> \in B
    <3> HIDE DEF B
    <3> QED BY <1>1
  <2>2. PICK d \in 1..depth : <<h.id, h.depth>> \in At(start, d, next) \X {d}
    BY <2>1
  <2> QED BY <2>2
<1>3. ASSUME NEW d \in 1..depth, NEW n \in At(start, d, next) PROVE \E h \in W : h.id = n /\ h.depth = d
  <2>1. <<n, d>> \in B
    OBVIOUS
  <2>2. PICK h \in W : <<n, d>> = <<h.id, h.depth>>
    <3> HIDE DEF B
    <3> QED BY <1>1, <2>1
  <2> QED BY <2>2
<1> QED BY <1>2, <1>3 DEF W

(* What is around the component is what the ways reach. *)
LEMMA AroundIs ==
  ASSUME KbInv, NEW start \in Nodes, NEW cats, ChangeRisk(cats) # "nessuno"
  PROVE  /\ \A y \in Around(kb, start, cats) :
              /\ y.risk \in Risks /\ y.depth \in Nat
              /\ \E w \in Ways(start) : w.id = y.id /\ w.relation = y.relation
         /\ \A w \in Ways(start) : \E y \in Around(kb, start, cats) :
              /\ y.id = w.id /\ y.relation = w.relation
              /\ w.relation = "chiamante" /\ w.depth = 1 => y.risk = ChangeRisk(cats)
              /\ w.relation = "dato a valle" /\ w.depth = 1 => y.risk \in Serious
<1> DEFINE risk == ChangeRisk(cats)
           contract == cats \intersect {"contract", "data"} # {}
           Caller(d) == IF d = 1 THEN risk ELSE IF d = 2 THEN Lower(risk) ELSE "basso"
           Data(d) == IF d > 1 THEN "basso" ELSE IF contract THEN "alto" ELSE "medio"
           Called1(d) == IF "config" \in cats THEN "medio" ELSE "basso"
           callers == Walk(start, 3, Callers(kb))
           fed == Walk(start, 3, Downstream(kb))
           called == Walk(start, 1, Called(kb))
           A == {[id |-> h.id, depth |-> h.depth, relation |-> "chiamante", risk |-> Caller(h.depth)] : h \in callers}
           B == {[id |-> h.id, depth |-> h.depth, relation |-> "dato a valle", risk |-> Data(h.depth)] : h \in fed}
           C == {[id |-> h.id, depth |-> h.depth, relation |-> "dipendenza", risk |-> Called1(h.depth)] : h \in called}
           wa == UNION {{[id |-> n, relation |-> "chiamante", depth |-> d] : n \in At(start, d, Callers(kb))} : d \in 1..3}
           wb == UNION {{[id |-> n, relation |-> "dato a valle", depth |-> d] : n \in At(start, d, Downstream(kb))} : d \in 1..3}
           wc == UNION {{[id |-> n, relation |-> "dipendenza", depth |-> d] : n \in At(start, d, Called(kb))} : d \in 1..1}
<1>1. Around(kb, start, cats) = (A \union B) \union C
  BY Zenon DEF Around, Reached
<1>2. Ways(start) = (wa \union wb) \union wc
  BY Zenon DEF Ways
<1>3. risk \in Risks /\ Lower(risk) \in Risks /\ {"basso", "medio", "alto"} \subseteq Risks /\ {"medio", "alto"} \subseteq Serious
  BY RiskIs DEF Lower, Risks, Serious
<1>4. (\A d \in Nat : Caller(d) \in Risks /\ Data(d) \in Risks /\ Called1(d) \in Risks) /\ Caller(1) = risk /\ Data(1) \in Serious
  BY <1>3
<1>5. /\ \A h \in callers : h.depth \in 1..3 /\ h.id \in At(start, h.depth, Callers(kb))
      /\ \A d \in 1..3 : \A n \in At(start, d, Callers(kb)) : \E h \in callers : h.id = n /\ h.depth = d
  BY GraphsAre, WalkHas, 3 \in Nat
<1>6. /\ \A h \in fed : h.depth \in 1..3 /\ h.id \in At(start, h.depth, Downstream(kb))
      /\ \A d \in 1..3 : \A n \in At(start, d, Downstream(kb)) : \E h \in fed : h.id = n /\ h.depth = d
  BY GraphsAre, WalkHas, 3 \in Nat
<1>7. /\ \A h \in called : h.depth \in 1..1 /\ h.id \in At(start, h.depth, Called(kb))
      /\ \A d \in 1..1 : \A n \in At(start, d, Called(kb)) : \E h \in called : h.id = n /\ h.depth = d
  BY GraphsAre, WalkHas, 1 \in Nat
<1> HIDE DEF risk, contract, Caller, Data, Called1, callers, fed, called
<1>8. ASSUME NEW y \in (A \union B) \union C
      PROVE  y.risk \in Risks /\ y.depth \in Nat /\ \E w \in (wa \union wb) \union wc : w.id = y.id /\ w.relation = y.relation
  <2>1. CASE y \in A
    <3>1. PICK h \in callers : y = [id |-> h.id, depth |-> h.depth, relation |-> "chiamante", risk |-> Caller(h.depth)]
      BY <2>1
    <3> HIDE DEF A, B, C, wb, wc
    <3>2. h.depth \in 1..3 /\ h.depth \in Nat /\ h.id \in At(start, h.depth, Callers(kb))
      <4> HIDE DEF wa
      <4> QED BY <1>5
    <3>3. [id |-> h.id, relation |-> "chiamante", depth |-> h.depth] \in wa
      <4>1. [id |-> h.id, relation |-> "chiamante", depth |-> h.depth]
              \in {[id |-> n, relation |-> "chiamante", depth |-> h.depth] : n \in At(start, h.depth, Callers(kb))}
        BY <3>2
      <4> QED BY <3>2, <4>1
    <3>4. y.risk = Caller(h.depth) /\ y.id = h.id /\ y.relation = "chiamante" /\ y.depth = h.depth
      BY <3>1
    <3>5. y.risk \in Risks /\ y.depth \in Nat
      BY <1>4, <3>2, <3>4
    <3> HIDE DEF wa, wb, wc
    <3> DEFINE w == [id |-> h.id, relation |-> "chiamante", depth |-> h.depth]
    <3>6. w.id = y.id /\ w.relation = y.relation
      BY <3>4
    <3>7. w \in (wa \union wb) \union wc
      BY <3>3
    <3> HIDE DEF w
    <3> QED BY <3>5, <3>6, <3>7
  <2>2. CASE y \in B
    <3>1. PICK h \in fed : y = [id |-> h.id, depth |-> h.depth, relation |-> "dato a valle", risk |-> Data(h.depth)]
      BY <2>2
    <3> HIDE DEF A, B, C, wa, wc
    <3>2. h.depth \in 1..3 /\ h.depth \in Nat /\ h.id \in At(start, h.depth, Downstream(kb))
      <4> HIDE DEF wb
      <4> QED BY <1>6
    <3>3. [id |-> h.id, relation |-> "dato a valle", depth |-> h.depth] \in wb
      <4>1. [id |-> h.id, relation |-> "dato a valle", depth |-> h.depth]
              \in {[id |-> n, relation |-> "dato a valle", depth |-> h.depth] : n \in At(start, h.depth, Downstream(kb))}
        BY <3>2
      <4> QED BY <3>2, <4>1
    <3>4. y.risk = Data(h.depth) /\ y.id = h.id /\ y.relation = "dato a valle" /\ y.depth = h.depth
      BY <3>1
    <3>5. y.risk \in Risks /\ y.depth \in Nat
      BY <1>4, <3>2, <3>4
    <3> HIDE DEF wa, wb, wc
    <3> DEFINE w == [id |-> h.id, relation |-> "dato a valle", depth |-> h.depth]
    <3>6. w.id = y.id /\ w.relation = y.relation
      BY <3>4
    <3>7. w \in (wa \union wb) \union wc
      BY <3>3
    <3> HIDE DEF w
    <3> QED BY <3>5, <3>6, <3>7
  <2>3. CASE y \in C
    <3>1. PICK h \in called : y = [id |-> h.id, depth |-> h.depth, relation |-> "dipendenza", risk |-> Called1(h.depth)]
      BY <2>3
    <3> HIDE DEF A, B, C, wa, wb
    <3>2. h.depth \in 1..1 /\ h.depth \in Nat /\ h.id \in At(start, h.depth, Called(kb))
      <4> HIDE DEF wc
      <4> QED BY <1>7
    <3>3. [id |-> h.id, relation |-> "dipendenza", depth |-> h.depth] \in wc
      <4>1. [id |-> h.id, relation |-> "dipendenza", depth |-> h.depth]
              \in {[id |-> n, relation |-> "dipendenza", depth |-> h.depth] : n \in At(start, h.depth, Called(kb))}
        BY <3>2
      <4> QED BY <3>2, <4>1
    <3>4. y.risk = Called1(h.depth) /\ y.id = h.id /\ y.relation = "dipendenza" /\ y.depth = h.depth
      BY <3>1
    <3>5. y.risk \in Risks /\ y.depth \in Nat
      BY <1>4, <3>2, <3>4
    <3> HIDE DEF wa, wb, wc
    <3> DEFINE w == [id |-> h.id, relation |-> "dipendenza", depth |-> h.depth]
    <3>6. w.id = y.id /\ w.relation = y.relation
      BY <3>4
    <3>7. w \in (wa \union wb) \union wc
      BY <3>3
    <3> HIDE DEF w
    <3> QED BY <3>5, <3>6, <3>7
  <2> QED BY <1>8, <2>1, <2>2, <2>3
<1>9. ASSUME NEW w \in (wa \union wb) \union wc
      PROVE  \E y \in (A \union B) \union C :
               /\ y.id = w.id /\ y.relation = w.relation
               /\ w.relation = "chiamante" /\ w.depth = 1 => y.risk = risk
               /\ w.relation = "dato a valle" /\ w.depth = 1 => y.risk \in Serious
  <2>1. CASE w \in wa
    <3>1. PICK d \in 1..3 : \E n \in At(start, d, Callers(kb)) : w = [id |-> n, relation |-> "chiamante", depth |-> d]
      BY <2>1
    <3>2. PICK n \in At(start, d, Callers(kb)) : w = [id |-> n, relation |-> "chiamante", depth |-> d]
      BY <3>1
    <3>3. PICK h \in callers : h.id = n /\ h.depth = d
      BY <1>5
    <3> DEFINE y == [id |-> h.id, depth |-> h.depth, relation |-> "chiamante", risk |-> Caller(h.depth)]
    <3>4. y \in A
      OBVIOUS
    <3>5. y.id = w.id /\ y.relation = w.relation /\ w.relation = "chiamante" /\ (w.depth = 1 => y.risk = risk)
      BY <1>4, <3>2, <3>3
    <3> HIDE DEF y, A, B, C
    <3> QED BY <3>4, <3>5
  <2>2. CASE w \in wb
    <3>1. PICK d \in 1..3 : \E n \in At(start, d, Downstream(kb)) : w = [id |-> n, relation |-> "dato a valle", depth |-> d]
      BY <2>2
    <3>2. PICK n \in At(start, d, Downstream(kb)) : w = [id |-> n, relation |-> "dato a valle", depth |-> d]
      BY <3>1
    <3>3. PICK h \in fed : h.id = n /\ h.depth = d
      BY <1>6
    <3> DEFINE y == [id |-> h.id, depth |-> h.depth, relation |-> "dato a valle", risk |-> Data(h.depth)]
    <3>4. y \in B
      OBVIOUS
    <3>5. y.id = w.id /\ y.relation = w.relation /\ w.relation = "dato a valle" /\ (w.depth = 1 => y.risk \in Serious)
      BY <1>4, <3>2, <3>3
    <3> HIDE DEF y, A, B, C
    <3> QED BY <3>4, <3>5
  <2>3. CASE w \in wc
    <3>1. PICK d \in 1..1 : \E n \in At(start, d, Called(kb)) : w = [id |-> n, relation |-> "dipendenza", depth |-> d]
      BY <2>3
    <3>2. PICK n \in At(start, d, Called(kb)) : w = [id |-> n, relation |-> "dipendenza", depth |-> d]
      BY <3>1
    <3>3. PICK h \in called : h.id = n /\ h.depth = d
      BY <1>7
    <3> DEFINE y == [id |-> h.id, depth |-> h.depth, relation |-> "dipendenza", risk |-> Called1(h.depth)]
    <3>4. y \in C
      OBVIOUS
    <3>5. y.id = w.id /\ y.relation = w.relation /\ w.relation = "dipendenza"
      BY <3>2, <3>3
    <3> HIDE DEF y, A, B, C
    <3> QED BY <3>4, <3>5
  <2> QED BY <1>9, <2>1, <2>2, <2>3
<1> HIDE DEF A, B, C, wa, wb, wc
<1> QED BY <1>1, <1>2, <1>8, <1>9 DEF risk

LEMMA ReleaseFrom ==
  ASSUME ReleaseInv, page.kind = "release"
  PROVE  LET start == page.change.comp
             cats == Classify(FilesOf(page.change))
             risk == ChangeRisk(cats)
             impacted == page.out.impacted
             serious == {start} \union {x.id : x \in {x \in impacted : x.risk \in Serious}}
         IN  /\ start \in Nodes /\ KbInv /\ impacted = Merged(Around(kb, start, cats))
             /\ page.out.suites = Suites(start, risk, impacted) /\ page.out.highlight = serious
             /\ page.out.gaps = {n \in serious : /\ Kind[n] = "component" /\ Tests[n].runtime
                                                 /\ ~HasIntegration(Tests[n])}
<1> DEFINE start == page.change.comp
<1>1. start \in Nodes /\ KbInv /\ page.out = Analysis(kb, start, FilesOf(page.change))
  BY DEF ReleaseInv, KbInv
<1> HIDE DEF start
<1>2. page.out.impacted = Merged(Around(kb, start, Classify(FilesOf(page.change))))
  BY <1>1 DEF Analysis
<1> QED BY <1>1, <1>2 DEF Analysis, start

(* What analyse tells of the nodes around the component *)
LEMMA ImpactIsExact ==
  ASSUME ReleaseInv
  PROVE  ImpactExact
<1> SUFFICES ASSUME page.kind = "release" PROVE ImpactExact
  BY DEF ImpactExact
<1> DEFINE start == page.change.comp
           cats == Classify(FilesOf(page.change))
           risk == ChangeRisk(cats)
           items == Around(kb, start, cats)
           ways == Ways(start)
           impacted == page.out.impacted
           Of(id) == {w \in ways : w.id = id}
<1>1. start \in Nodes /\ KbInv /\ impacted = Merged(items)
  BY Zenon, ReleaseFrom
<1>2. CASE risk = "nessuno"
  <2>1. items = {}
    BY <1>2 DEF Around
  <2>2. impacted = {}
    BY <1>1, <2>1 DEF Merged
  <2> QED BY <1>2, <2>2 DEF ImpactExact
<1>3. CASE risk # "nessuno"
  <2>1. /\ \A y \in items : /\ y.risk \in Risks /\ y.depth \in Nat
                            /\ \E w \in ways : w.id = y.id /\ w.relation = y.relation
        /\ \A w \in ways : \E y \in items :
             /\ y.id = w.id /\ y.relation = w.relation
             /\ w.relation = "chiamante" /\ w.depth = 1 => y.risk = risk
             /\ w.relation = "dato a valle" /\ w.depth = 1 => y.risk \in Serious
    <3> HIDE DEF start, cats
    <3> QED BY <1>1, <1>3, AroundIs
  <2> HIDE DEF start, cats, items, ways
  <2>2. /\ {x.id : x \in impacted} = {y.id : y \in items}
        /\ \A x \in impacted : /\ x.relations = {y.relation : y \in {y \in items : y.id = x.id}} /\ x.risk \in Risks
                               /\ \A y \in items : y.id = x.id => Rank(y.risk) <= Rank(x.risk)
        /\ \A x, y \in impacted : x.id = y.id => x = y
    <3> HIDE DEF impacted, risk
    <3>1. \A y \in items : y.risk \in Risks /\ y.depth \in Nat
      BY <2>1
    <3> QED BY Zenon, <1>1, <3>1, MergedIs
  <2> HIDE DEF impacted, risk
  <2>3. {x.id : x \in impacted} = {w.id : w \in ways}
    <3>1. \A n : (\E y \in items : n = y.id) <=> (\E w \in ways : n = w.id)
      BY <2>1
    <3>2. {y.id : y \in items} = {w.id : w \in ways}
      BY Zenon, <3>1
    <3> QED BY Zenon, <2>2, <3>2
  <2>4. ASSUME NEW x \in impacted
        PROVE  /\ x.relations = {w.relation : w \in Of(x.id)}
               /\ \A y \in impacted : y.id = x.id => y = x
               /\ \A w \in Of(x.id) :
                    /\ w.relation = "chiamante" /\ w.depth = 1 => Rank(x.risk) >= Rank(risk)
                    /\ w.relation = "dato a valle" /\ w.depth = 1 => x.risk \in Serious
    <3>1. x.relations = {w.relation : w \in Of(x.id)}
      <4> DEFINE Y == {y \in items : y.id = x.id}
                 W == Of(x.id)
      <4>1. ASSUME NEW y \in Y PROVE \E w \in W : w.relation = y.relation
        <5>1. PICK w \in ways : w.id = y.id /\ w.relation = y.relation
          BY <2>1
        <5> QED BY <5>1
      <4>2. ASSUME NEW w \in W PROVE \E y \in Y : y.relation = w.relation
        <5>1. PICK y \in items : y.id = w.id /\ y.relation = w.relation
          BY <2>1
        <5> QED BY <5>1
      <4>3. x.relations = {y.relation : y \in Y}
        BY Zenon, <2>2
      <4> HIDE DEF Y, W
      <4>4. {y.relation : y \in Y} = {w.relation : w \in W}
        BY <4>1, <4>2
      <4> QED BY <4>3, <4>4 DEF W
    <3>2. ASSUME NEW w \in Of(x.id)
          PROVE  /\ w.relation = "chiamante" /\ w.depth = 1 => Rank(x.risk) >= Rank(risk)
                 /\ w.relation = "dato a valle" /\ w.depth = 1 => x.risk \in Serious
      <4>1. PICK y \in items : /\ y.id = x.id /\ y.relation = w.relation
                               /\ w.relation = "chiamante" /\ w.depth = 1 => y.risk = risk
                               /\ w.relation = "dato a valle" /\ w.depth = 1 => y.risk \in Serious
        BY <2>1, <3>2
      <4>2. /\ Rank(y.risk) <= Rank(x.risk) /\ y.risk \in Risks /\ x.risk \in Risks
            /\ Rank(y.risk) \in 1..4 /\ Rank(x.risk) \in 1..4
        BY <2>1, <2>2, <4>1, RanksAre
      <4>3. y.risk \in Serious => x.risk \in Serious
        <5>1. (Rank(y.risk) >= 3 <=> y.risk \in Serious) /\ (Rank(x.risk) >= 3 <=> x.risk \in Serious)
          BY <4>2, RanksAre
        <5> QED BY <4>2, <5>1
      <4>4. y.risk = risk => Rank(x.risk) >= Rank(risk)
        BY <4>2
      <4> QED BY <4>1, <4>3, <4>4
    <3> QED BY <2>2, <3>1, <3>2
  <2> QED BY <1>3, <2>3, <2>4 DEF ImpactExact, start, cats, risk, ways, impacted
<1> QED BY <1>2, <1>3

LEMMA SuitesTell ==
  ASSUME NEW n, NEW own, NEW risk
  PROVE  (\E s \in SuitesOf(n, own, risk) : s.kind \in {"central", "bdd", "repo"}) <=> HasIntegration(Tests[n])
<1> DEFINE t == Tests[n]
           S == SuitesOf(n, own, risk)
<1>1. ASSUME HasIntegration(t) PROVE \E s \in S : s.kind \in {"central", "bdd", "repo"}
  <2>1. CASE t.central # {}
    <3>1. PICK c \in t.central : TRUE
      BY <2>1
    <3>2. [kind |-> "central", name |-> c] \in S
      BY DEF SuitesOf
    <3> QED BY <3>2
  <2>2. CASE t.nodo_bdd
    <3>1. [kind |-> "bdd", name |-> "nodo"] \in S
      BY <2>2 DEF SuitesOf
    <3> QED BY <3>1
  <2>3. CASE t.it
    <3>1. [kind |-> "repo", name |-> n] \in S
      BY <2>3 DEF SuitesOf
    <3> QED BY <3>1
  <2> QED BY <1>1, <2>1, <2>2, <2>3 DEF HasIntegration
<1>2. ASSUME NEW s \in S, s.kind \in {"central", "bdd", "repo"} PROVE HasIntegration(t)
  <2>1. \/ s \in [kind : {"central"}, name : t.central]
        \/ s \in [kind : {"nrt"}, name : t.nrt]
        \/ t.nodo_bdd /\ s = [kind |-> "bdd", name |-> "nodo"]
        \/ t.it /\ s = [kind |-> "repo", name |-> n]
        \/ s = [kind |-> "perf", name |-> n]
    BY <1>2 DEF SuitesOf
  <2> QED BY <1>2, <2>1 DEF HasIntegration
<1> QED BY <1>1, <1>2

(* Every target that is a component is covered by just the suites it has. *)
LEMMA SuitesAre ==
  ASSUME NEW root, NEW risk, NEW impacted, NEW n \in {root} \union {x.id : x \in impacted}, Kind[n] = "component"
  PROVE  (\E s \in Suites(root, risk, impacted) : n \in s.covers /\ s.suite.kind \in {"central", "bdd", "repo"})
           <=> HasIntegration(Tests[n])
<1> DEFINE targets == {[id |-> root, priority |-> 0]} \union
                        {[id |-> x.id, priority |-> IF x.risk \in Serious THEN 1 ELSE 2] : x \in impacted}
           covering == {t \in targets : Kind[t.id] = "component"}
           Covers(s) == {t \in covering : s \in SuitesOf(t.id, t.id = root, risk)}
           Entry(s) == [suite |-> s, covers |-> {t.id : t \in Covers(s)}, priority |-> Min({t.priority : t \in Covers(s)})]
           all == UNION {SuitesOf(t.id, t.id = root, risk) : t \in covering}
<1>1. Suites(root, risk, impacted) = {Entry(s) : s \in all}
  BY Zenon DEF Suites
<1>2. \E t \in covering : t.id = n
  <2>1. CASE n = root
    <3>1. [id |-> root, priority |-> 0] \in covering
      BY <2>1
    <3> QED BY <3>1, <2>1
  <2>2. CASE n # root
    <3>1. PICK x \in impacted : n = x.id
      BY <2>2
    <3>2. [id |-> x.id, priority |-> IF x.risk \in Serious THEN 1 ELSE 2] \in covering
      BY <3>1
    <3> QED BY <3>1, <3>2
  <2> QED BY <2>1, <2>2
<1> HIDE DEF targets, covering
<1>3. \A s \in all : Entry(s).suite = s /\ Entry(s).covers = {t.id : t \in Covers(s)}
  OBVIOUS
<1>4. ASSUME HasIntegration(Tests[n])
      PROVE  \E s \in Suites(root, risk, impacted) : n \in s.covers /\ s.suite.kind \in {"central", "bdd", "repo"}
  <2>1. PICK t \in covering : t.id = n
    BY <1>2
  <2>2. PICK s \in SuitesOf(n, n = root, risk) : s.kind \in {"central", "bdd", "repo"}
    BY <1>4, SuitesTell
  <2>3. s \in all /\ t \in Covers(s)
    BY <2>1, <2>2
  <2>4. n \in {x.id : x \in Covers(s)}
    BY <2>1, <2>3
  <2>5. Entry(s) \in Suites(root, risk, impacted) /\ n \in Entry(s).covers /\ Entry(s).suite = s
    <3> HIDE DEF all, Covers
    <3> QED BY <1>1, <2>3, <2>4
  <2> HIDE DEF Entry
  <2> QED BY <2>2, <2>5
<1>5. ASSUME NEW e \in Suites(root, risk, impacted), n \in e.covers, e.suite.kind \in {"central", "bdd", "repo"}
      PROVE  HasIntegration(Tests[n])
  <2>1. PICK s \in all : e = Entry(s)
    <3> HIDE DEF Entry, all
    <3> QED BY <1>1, <1>5
  <2>2. e.suite = s /\ n \in {t.id : t \in Covers(s)}
    <3> HIDE DEF Covers, all
    <3> QED BY <2>1, <1>5
  <2>3. PICK t \in Covers(s) : n = t.id
    BY <2>2
  <2>4. s \in SuitesOf(n, n = root, risk)
    BY <2>3
  <2> QED BY <1>5, <2>2, <2>4, SuitesTell
<1> QED BY <1>4, <1>5

LEMMA CoverageIsTold ==
  ASSUME ReleaseInv
  PROVE  CoveredOrGap
<1> SUFFICES ASSUME page.kind = "release", NEW n \in page.out.highlight, Kind[n] = "component", Tests[n].runtime
             PROVE  (n \in page.out.gaps) # (\E s \in page.out.suites : /\ n \in s.covers
                                                                       /\ s.suite.kind \in {"central", "bdd", "repo"})
  BY DEF CoveredOrGap
<1> DEFINE start == page.change.comp
           risk == ChangeRisk(Classify(FilesOf(page.change)))
           impacted == page.out.impacted
           serious == {start} \union {x.id : x \in {x \in impacted : x.risk \in Serious}}
<1>1. /\ page.out.suites = Suites(start, risk, impacted) /\ page.out.highlight = serious
      /\ page.out.gaps = {k \in serious : Kind[k] = "component" /\ Tests[k].runtime /\ ~HasIntegration(Tests[k])}
  BY Zenon, ReleaseFrom
<1> HIDE DEF start, risk, impacted
<1>2. n \in serious /\ n \in {start} \union {x.id : x \in impacted}
  BY <1>1
<1>3. n \in page.out.gaps <=> ~HasIntegration(Tests[n])
  BY <1>1, <1>2
<1>4. (\E s \in page.out.suites : n \in s.covers /\ s.suite.kind \in {"central", "bdd", "repo"}) <=> HasIntegration(Tests[n])
  <2> DEFINE suites == page.out.suites
  <2>1. suites = Suites(start, risk, impacted)
    BY <1>1
  <2> HIDE DEF suites
  <2>2. (\E s \in Suites(start, risk, impacted) : n \in s.covers /\ s.suite.kind \in {"central", "bdd", "repo"})
          <=> HasIntegration(Tests[n])
    BY <1>2, SuitesAre
  <2> QED BY <2>1, <2>2 DEF suites
<1> QED BY <1>3, <1>4

(* ReleaseHonest: the distances the request finds are those of the graph   *)
(* (the search goes wave after wave and visits each node once), a node     *)
(* that a release reaches is listed once with every way and the worst of   *)
(* their risks, and every component shown as touched has an integration    *)
(* suite to run or is told as a gap, whatever the graph and the change.    *)
THEOREM ReleaseIsHonest == Spec => []ReleaseHonest
<1>1. LinksInv /\ ReleaseInv => ReleaseHonest
  BY DistancesAreExact, ImpactIsExact, CoverageIsTold DEF ReleaseHonest
<1> QED BY <1>1, LinksKept, ReleaseKept, PTL
=============================================================================
