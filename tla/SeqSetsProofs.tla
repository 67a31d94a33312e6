---------------------------- MODULE SeqSetsProofs ----------------------------
(***************************************************************************)
(* Lemmas that the proofs share: what appending, taking the tail and       *)
(* concatenating do to a sequence and to the set of its elements, when     *)
(* sequences are prefixes of others, what division with remainder gives,   *)
(* and induction and recursion over Nat.                                   *)
(***************************************************************************)
EXTENDS SeqSets, Integers, WellFoundedInduction, TLAPS

\* Appending to a sequence adds one element to its set of elements.
LEMMA AppendSet ==
    ASSUME NEW S, NEW q \in Seq(S), NEW x \in S
    PROVE  /\ Append(q, x) \in Seq(S)
           /\ SetOf(Append(q, x)) = SetOf(q) \cup {x}
           /\ NoRepeat(q) /\ x \notin SetOf(q) => NoRepeat(Append(q, x))
  BY DEF SetOf, NoRepeat

\* The tail of a sequence without repetition has all elements but the head.
LEMMA TailSet ==
    ASSUME NEW S, NEW q \in Seq(S), q # <<>>
    PROVE  /\ Tail(q) \in Seq(S)
           /\ Head(q) \in SetOf(q) /\ Head(q) \in S
           /\ NoRepeat(q) => /\ SetOf(Tail(q)) = SetOf(q) \ {Head(q)}
                             /\ NoRepeat(Tail(q))
  <1>1. /\ Tail(q) \in Seq(S) /\ Head(q) = q[1] /\ Len(q) \in Nat \ {0}
        /\ Len(Tail(q)) = Len(q) - 1
        /\ \A k \in 1..Len(q) - 1 : Tail(q)[k] = q[k + 1]
    OBVIOUS
  <1>2. Head(q) \in SetOf(q) /\ Head(q) \in S
    BY <1>1 DEF SetOf
  <1>3. ASSUME NoRepeat(q) PROVE SetOf(Tail(q)) = SetOf(q) \ {Head(q)}
    <2>1. ASSUME NEW x \in SetOf(Tail(q)) PROVE x \in SetOf(q) \ {Head(q)}
      BY <1>1, <1>3, <2>1 DEF SetOf, NoRepeat
    <2>2. ASSUME NEW x \in SetOf(q), x # Head(q) PROVE x \in SetOf(Tail(q))
      <3>1. PICK k \in 1..Len(q) : x = q[k]
        BY DEF SetOf
      <3>2. k - 1 \in 1..Len(q) - 1 /\ Tail(q)[k - 1] = q[k]
        BY <1>1, <2>2, <3>1
      <3> QED BY <1>1, <3>1, <3>2 DEF SetOf
    <2> QED BY <2>1, <2>2
  <1>4. ASSUME NoRepeat(q) PROVE NoRepeat(Tail(q))
    BY <1>1, <1>4 DEF NoRepeat
  <1> QED BY <1>1, <1>2, <1>3, <1>4

\* Concatenation unites the sets of elements.
LEMMA ConcatSet ==
    ASSUME NEW S, NEW p \in Seq(S), NEW q \in Seq(S)
    PROVE  /\ p \o q \in Seq(S)
           /\ SetOf(p \o q) = SetOf(p) \cup SetOf(q)
           /\ NoRepeat(p) /\ NoRepeat(q) /\ SetOf(p) \cap SetOf(q) = {} => NoRepeat(p \o q)
  <1>1. /\ p \o q \in Seq(S) /\ Len(p \o q) = Len(p) + Len(q) /\ Len(p) \in Nat /\ Len(q) \in Nat
        /\ \A k \in 1..Len(p) : (p \o q)[k] = p[k]
        /\ \A k \in 1..Len(q) : (p \o q)[Len(p) + k] = q[k]
        /\ \A k \in 1..Len(p) + Len(q) :
              (p \o q)[k] = IF k <= Len(p) THEN p[k] ELSE q[k - Len(p)]
    OBVIOUS
  <1>2. SetOf(p \o q) = SetOf(p) \cup SetOf(q)
    <2>1. ASSUME NEW x \in SetOf(p \o q) PROVE x \in SetOf(p) \cup SetOf(q)
      <3>1. PICK k \in 1..Len(p) + Len(q) : x = (p \o q)[k]
        BY <1>1 DEF SetOf
      <3>2. CASE k <= Len(p) BY <1>1, <3>1, <3>2 DEF SetOf
      <3>3. CASE k > Len(p)
        <4>1. k - Len(p) \in 1..Len(q) /\ x = q[k - Len(p)]
          BY <1>1, <3>1, <3>3
        <4> QED BY <4>1 DEF SetOf
      <3> QED BY <1>1, <3>2, <3>3
    <2>2. ASSUME NEW x \in SetOf(p) PROVE x \in SetOf(p \o q)
      <3>1. PICK k \in 1..Len(p) : x = p[k] BY DEF SetOf
      <3>2. k \in 1..Len(p) + Len(q) BY <1>1
      <3> QED BY <1>1, <3>1, <3>2 DEF SetOf
    <2>3. ASSUME NEW x \in SetOf(q) PROVE x \in SetOf(p \o q)
      <3>1. PICK k \in 1..Len(q) : x = q[k] BY DEF SetOf
      <3>2. Len(p) + k \in 1..Len(p) + Len(q) BY <1>1
      <3> QED BY <1>1, <3>1, <3>2 DEF SetOf
    <2> QED BY <2>1, <2>2, <2>3
  <1>3. ASSUME NoRepeat(p), NoRepeat(q), SetOf(p) \cap SetOf(q) = {},
               NEW j \in 1..Len(p) + Len(q), NEW k \in 1..Len(p) + Len(q),
               (p \o q)[j] = (p \o q)[k]
        PROVE  j = k
    <2>1. CASE j <= Len(p) /\ k <= Len(p) BY <1>1, <1>3, <2>1 DEF NoRepeat
    <2>2. CASE j > Len(p) /\ k > Len(p)
      <3>1. j - Len(p) \in 1..Len(q) /\ k - Len(p) \in 1..Len(q)
        BY <1>1, <2>2
      <3>2. q[j - Len(p)] = q[k - Len(p)] BY <1>1, <1>3, <2>2
      <3>3. j - Len(p) = k - Len(p) BY <1>3, <3>1, <3>2 DEF NoRepeat
      <3> QED BY <1>1, <3>3
    <2>3. CASE j <= Len(p) /\ k > Len(p)
      <3>1. k - Len(p) \in 1..Len(q) /\ p[j] = q[k - Len(p)] BY <1>1, <1>3, <2>3
      <3>2. p[j] \in SetOf(p) BY <1>1, <2>3 DEF SetOf
      <3>3. q[k - Len(p)] \in SetOf(q) BY <3>1 DEF SetOf
      <3> QED BY <1>3, <3>1, <3>2, <3>3
    <2>4. CASE j > Len(p) /\ k <= Len(p)
      <3>1. j - Len(p) \in 1..Len(q) /\ p[k] = q[j - Len(p)] BY <1>1, <1>3, <2>4
      <3>2. p[k] \in SetOf(p) BY <1>1, <2>4 DEF SetOf
      <3>3. q[j - Len(p)] \in SetOf(q) BY <3>1 DEF SetOf
      <3> QED BY <1>3, <3>1, <3>2, <3>3
    <2> QED BY <1>1, <2>1, <2>2, <2>3, <2>4
  <1> QED BY <1>1, <1>2, <1>3 DEF NoRepeat

\* Only the empty sequence has no elements.
LEMMA EmptySet ==
    /\ SetOf(<<>>) = {}
    /\ NoRepeat(<<>>)
    /\ \A S : \A q \in Seq(S) : q # <<>> => SetOf(q) # {}
  BY DEF SetOf, NoRepeat

(***************************************************************************)
(* A sequence that is consumed from the front: what follows position n.    *)
(***************************************************************************)
\* Two sequences of the same length with the same elements are equal.
LEMMA SameSeq ==
    ASSUME NEW S, NEW p \in Seq(S), NEW q \in Seq(S), Len(p) = Len(q),
           \A k \in 1..Len(q) : p[k] = q[k]
    PROVE  p = q
  OBVIOUS

\* After the last position nothing follows; from the first one everything does.
LEMMA RestEnds ==
    ASSUME NEW S, NEW q \in Seq(S)
    PROVE  SubSeq(q, Len(q) + 1, Len(q)) = <<>> /\ SubSeq(q, 1, Len(q)) = q
  <1>1. Len(SubSeq(q, Len(q) + 1, Len(q))) = 0 /\ SubSeq(q, Len(q) + 1, Len(q)) \in Seq(S)
    OBVIOUS
  <1>2. SubSeq(q, 1, Len(q)) \in Seq(S) /\ Len(SubSeq(q, 1, Len(q))) = Len(q)
    OBVIOUS
  <1>3. \A k \in 1..Len(q) : SubSeq(q, 1, Len(q))[k] = q[k]
    OBVIOUS
  <1> QED BY <1>1, <1>2, <1>3

\* What follows position n starts with position n + 1.
LEMMA RestStep ==
    ASSUME NEW S, NEW q \in Seq(S), NEW n \in Nat, n < Len(q)
    PROVE  /\ SubSeq(q, n + 1, Len(q)) \in Seq(S)
           /\ SubSeq(q, n + 1, Len(q)) # <<>>
           /\ Head(SubSeq(q, n + 1, Len(q))) = q[n + 1]
           /\ Tail(SubSeq(q, n + 1, Len(q))) = SubSeq(q, (n + 1) + 1, Len(q))
  <1> DEFINE r == SubSeq(q, n + 1, Len(q))
             u == SubSeq(q, (n + 1) + 1, Len(q))
  <1>1. /\ r \in Seq(S) /\ Len(r) = Len(q) - n
        /\ \A k \in 1..Len(q) - n : r[k] = q[n + k]
    OBVIOUS
  <1>2. /\ u \in Seq(S) /\ Len(u) = Len(q) - n - 1
        /\ \A k \in 1..Len(q) - n - 1 : u[k] = q[n + 1 + k]
    OBVIOUS
  <1>3. r # <<>> /\ Head(r) = q[n + 1]
    BY <1>1
  <1>4. Tail(r) \in Seq(S) /\ Len(Tail(r)) = Len(u)
    BY SMTT(40), <1>1, <1>2
  <1>5. \A k \in 1..Len(u) : Tail(r)[k] = u[k]
    BY SMTT(40), <1>1, <1>2
  <1>6. Tail(r) = u
    <2> HIDE DEF r, u
    <2> QED BY <1>2, <1>4, <1>5, SameSeq
  <1> QED BY <1>1, <1>3, <1>6

\* The head and the tail of a concatenation, and appending to one.
LEMMA ConcatEnds ==
    ASSUME NEW S, NEW p \in Seq(S), NEW q \in Seq(S), NEW x \in S
    PROVE  /\ p # <<>> => /\ p \o q # <<>>
                          /\ Head(p \o q) = Head(p)
                          /\ Tail(p \o q) = Tail(p) \o q
           /\ p \o Append(q, x) = Append(p \o q, x)
           /\ <<>> \o q = q /\ p \o <<>> = p
  <1>1. p # <<>> => p \o q # <<>> /\ Head(p \o q) = Head(p)
    OBVIOUS
  <1>2. ASSUME p # <<>> PROVE Tail(p \o q) = Tail(p) \o q
    <2>1. /\ Tail(p \o q) \in Seq(S) /\ Tail(p) \o q \in Seq(S)
          /\ Len(Tail(p \o q)) = Len(p) + Len(q) - 1
          /\ Len(Tail(p) \o q) = Len(p) + Len(q) - 1
      BY <1>2
    <2>2. \A k \in 1..Len(p) + Len(q) - 1 : Tail(p \o q)[k] = (p \o q)[k + 1]
      BY <1>2
    <2>3. \A k \in 1..Len(p) + Len(q) - 1 : (Tail(p) \o q)[k] = (p \o q)[k + 1]
      BY <1>2
    <2> QED BY <2>1, <2>2, <2>3
  <1>3. p \o Append(q, x) = Append(p \o q, x)
    <2>1. /\ p \o Append(q, x) \in Seq(S) /\ Append(p \o q, x) \in Seq(S)
          /\ Len(p \o Append(q, x)) = Len(p) + Len(q) + 1
          /\ Len(Append(p \o q, x)) = Len(p) + Len(q) + 1
      OBVIOUS
    <2>2. ASSUME NEW k \in 1..Len(p) + Len(q) + 1
          PROVE  (p \o Append(q, x))[k] = Append(p \o q, x)[k]
      <3>1. CASE k <= Len(p) BY <3>1
      <3>2. CASE k > Len(p) /\ k <= Len(p) + Len(q) BY <3>2
      <3>3. CASE k = Len(p) + Len(q) + 1 BY <3>3
      <3> QED BY <3>1, <3>2, <3>3
    <2> QED BY <2>1, <2>2
  <1>4. <<>> \o q = q /\ p \o <<>> = p
    OBVIOUS
  <1> QED BY <1>1, <1>2, <1>3, <1>4

\* The elements of a concatenation.
LEMMA ConcatAt ==
    ASSUME NEW S, NEW p \in Seq(S), NEW q \in Seq(S)
    PROVE  /\ p \o q \in Seq(S) /\ Len(p \o q) = Len(p) + Len(q)
           /\ \A k \in 1..Len(p) : (p \o q)[k] = p[k]
           /\ \A k \in 1..Len(q) : (p \o q)[Len(p) + k] = q[k]
  OBVIOUS

\* A sequence over a set is one over a larger set.
LEMMA Wider ==
    ASSUME NEW S, NEW T, S \subseteq T, NEW s \in Seq(S)
    PROVE  s \in Seq(T)
  OBVIOUS

\* What is appended is concatenated.
LEMMA AppendOne ==
    ASSUME NEW S, NEW s \in Seq(S), NEW x \in S
    PROVE  Append(s, x) = s \o <<x>>
  <1>1. /\ Append(s, x) \in Seq(S) /\ Len(Append(s, x)) = Len(s) + 1
        /\ \A k \in 1..Len(s) + 1 : Append(s, x)[k] = IF k <= Len(s) THEN s[k] ELSE x
    OBVIOUS
  <1>2. /\ s \o <<x>> \in Seq(S) /\ Len(s \o <<x>>) = Len(s) + 1
        /\ \A k \in 1..Len(s) + 1 : (s \o <<x>>)[k] = IF k <= Len(s) THEN s[k] ELSE x
    OBVIOUS
  <1> QED
    BY <1>1, <1>2, SameSeq

\* Concatenation is associative.
LEMMA ConcatAssoc ==
    ASSUME NEW S, NEW p \in Seq(S), NEW q \in Seq(S), NEW r \in Seq(S)
    PROVE  (p \o q) \o r = p \o (q \o r)
  <1> DEFINE u == (p \o q) \o r
             v == p \o (q \o r)
  <1>1. /\ u \in Seq(S) /\ Len(u) = Len(p) + Len(q) + Len(r)
        /\ v \in Seq(S) /\ Len(v) = Len(p) + Len(q) + Len(r)
    OBVIOUS
  <1>2. \A k \in 1..Len(p) + Len(q) + Len(r) : u[k] = v[k]
    OBVIOUS
  <1> HIDE DEF u, v
  <1> QED BY <1>1, <1>2, SameSeq

\* A sequence is what comes up to a position and what comes after it.
LEMMA SplitAt ==
    ASSUME NEW S, NEW q \in Seq(S), NEW n \in 0..Len(q)
    PROVE  /\ SubSeq(q, 1, n) \in Seq(S) /\ Len(SubSeq(q, 1, n)) = n
           /\ SubSeq(q, n + 1, Len(q)) \in Seq(S) /\ Len(SubSeq(q, n + 1, Len(q))) = Len(q) - n
           /\ SubSeq(q, 1, n) \o SubSeq(q, n + 1, Len(q)) = q
  <1> DEFINE u == SubSeq(q, 1, n)
             v == SubSeq(q, n + 1, Len(q))
  <1>1. u \in Seq(S) /\ Len(u) = n /\ \A k \in 1..n : u[k] = q[k]
    OBVIOUS
  <1>2. v \in Seq(S) /\ Len(v) = Len(q) - n /\ \A k \in 1..Len(q) - n : v[k] = q[n + k]
    OBVIOUS
  <1>3. Len(q) \in Nat /\ n \in Nat /\ n <= Len(q)
    OBVIOUS
  <1> HIDE DEF u, v
  <1>4. u \o v \in Seq(S) /\ Len(u \o v) = Len(q)
    BY <1>1, <1>2, <1>3
  <1>5. ASSUME NEW k \in 1..Len(q) PROVE (u \o v)[k] = q[k]
    <2>1. CASE k <= n
      BY <1>1, <1>2, <1>3, <2>1
    <2>2. CASE k > n
      <3>1. (u \o v)[k] = v[k - n]
        BY <1>1, <1>2, <1>3, <2>2
      <3>2. k - n \in 1..Len(q) - n /\ n + (k - n) = k
        BY <1>3, <2>2
      <3> QED BY <1>2, <3>1, <3>2
    <2>3. k <= n \/ k > n
      BY <1>3
    <2> QED BY ONLY <2>1, <2>2, <2>3
  <1>6. u \o v = q
    BY <1>4, <1>5, SameSeq
  <1> QED BY <1>1, <1>2, <1>6 DEF u, v

\* Sequences that agree up to position n have the same prefix of length n.
LEMMA SamePrefix ==
    ASSUME NEW S, NEW p \in Seq(S), NEW q \in Seq(S),
           NEW n \in Nat, n <= Len(p), n <= Len(q),
           \A k \in 1..n : p[k] = q[k]
    PROVE  SubSeq(p, 1, n) = SubSeq(q, 1, n)
  <1>1. \A u \in Seq(S) : n <= Len(u) => /\ SubSeq(u, 1, n) \in Seq(S)
                                        /\ Len(SubSeq(u, 1, n)) = n
                                        /\ \A k \in 1..n : SubSeq(u, 1, n)[k] = u[k]
    OBVIOUS
  <1> DEFINE P == SubSeq(p, 1, n)
             Q == SubSeq(q, 1, n)
  <1>2. P \in Seq(S) /\ Len(P) = n /\ \A k \in 1..n : P[k] = p[k]
    BY <1>1
  <1>3. Q \in Seq(S) /\ Len(Q) = n /\ \A k \in 1..n : Q[k] = q[k]
    BY <1>1
  <1> HIDE DEF P, Q
  <1> QED BY <1>2, <1>3, SameSeq

\* A positive multiple of R is at least R.
LEMMA Multiple ==
    ASSUME NEW R \in Nat \ {0}, NEW q \in Int, NEW d \in Int, d = R * q, d > 0
    PROVE  d >= R
  <1>1. q > 0
    OBVIOUS
  <1> QED BY <1>1

\* Division with remainder.
LEMMA Division ==
    ASSUME NEW R \in Nat \ {0}, NEW a \in Nat
    PROVE  \E q \in Nat, r \in 0..R - 1 : a = (R * q) + r /\ r = a % R
  <1> a \div R \in Nat /\ a % R \in 0..R - 1 /\ a = (R * (a \div R)) + (a % R)
    OBVIOUS
  <1> QED OBVIOUS

\* Different numbers that are less than R apart have different remainders.
LEMMA RemaindersApart ==
    ASSUME NEW R \in Nat \ {0}, NEW a \in Nat, NEW b \in Nat, a < b, b < a + R
    PROVE  a % R # b % R
  <1> SUFFICES ASSUME a % R = b % R PROVE FALSE
    OBVIOUS
  <1>1. PICK p \in Nat, r \in 0..R - 1 : a = (R * p) + r /\ r = a % R
    BY Division
  <1>2. PICK q \in Nat, s \in 0..R - 1 : b = (R * q) + s /\ s = b % R
    BY Division
  <1>3. r = s
    BY <1>1, <1>2
  <1>4. b - a = R * (q - p)
    <2>1. b = R * q + s /\ a = R * p + s
      BY <1>1, <1>2, <1>3
    <2>2. R * (q - p) = R * q - R * p
      OBVIOUS
    <2>3. R * q \in Int /\ R * p \in Int
      OBVIOUS
    <2> QED BY <2>1, <2>2, <2>3
  <1>5. q - p \in Int /\ b - a \in Int /\ b - a > 0
    OBVIOUS
  <1>6. b - a >= R
    BY <1>4, <1>5, Multiple
  <1> QED BY <1>6

\* Quotient and remainder are what they must be.
LEMMA UniqueRemainder ==
    ASSUME NEW R \in Nat \ {0}, NEW x \in Int, NEW q \in Int, NEW r \in 0..R - 1,
           x = R * q + r
    PROVE  x % R = r /\ x \div R = q
  <1> DEFINE d == x \div R
             m == x % R
  <1>1. d \in Int /\ m \in 0..R - 1 /\ x = R * d + m
    OBVIOUS
  <1> HIDE DEF d, m
  <1>2. R * (q - d) = m - r /\ R * (d - q) = r - m
    <2>1. R * (q - d) = R * q - R * d /\ R * (d - q) = R * d - R * q /\ R * q \in Int /\ R * d \in Int
      BY <1>1
    <2> QED BY <1>1, <2>1
  <1>3. m = r
    <2>1. CASE m > r
      <3>1. q - d \in Int /\ m - r \in Int /\ m - r > 0 /\ m - r = R * (q - d)
        BY <1>1, <1>2, <2>1
      <3>2. m - r >= R
        BY ONLY <3>1, Multiple, R \in Nat \ {0}
      <3> QED BY <1>1, <3>2
    <2>2. CASE r > m
      <3>1. d - q \in Int /\ r - m \in Int /\ r - m > 0 /\ r - m = R * (d - q)
        BY <1>1, <1>2, <2>2
      <3>2. r - m >= R
        BY ONLY <3>1, Multiple, R \in Nat \ {0}
      <3> QED BY <1>1, <3>2
    <2> QED BY <1>1, <2>1, <2>2
  <1>4. d = q
    <2>1. R * (q - d) = 0
      BY <1>1, <1>2, <1>3
    <2>2. q - d > 0 => R * (q - d) > 0
      BY <1>1
    <2>3. q - d < 0 => R * (q - d) < 0
      BY <1>1
    <2> QED BY <1>1, <2>1, <2>2, <2>3
  <1> QED BY <1>3, <1>4 DEF d, m
-----------------------------------------------------------------------------
(***************************************************************************)
(* Induction and recursion over Nat, for sets and functions in the place   *)
(* of predicates and operators.                                            *)
(***************************************************************************)
\* Nat is well-ordered.
LEMMA Least ==
    ASSUME NEW S \in SUBSET Nat, S # {}
    PROVE  \E x \in S : \A y \in S : x <= y
  <1> DEFINE R == {p \in Nat \X Nat : p[1] < p[2]}
  <1>1. OpToRel(<, Nat) = R
    BY Zenon DEF OpToRel
  <1>2. IsWellFoundedOn(R, Nat)
    BY <1>1, NatLessThanWellFounded, Zenon
  <1>3. PICK x \in S : \A y \in S : ~(<<y, x>> \in R)
    BY <1>2, WFMin
  <1>4. ASSUME NEW y \in S PROVE x <= y
    <2>1. x \in Nat /\ y \in Nat /\ ~(<<y, x>> \in R)
      BY <1>3
    <2>2. y < x => <<y, x>> \in R
      BY <2>1
    <2> HIDE DEF R
    <2> QED BY <2>1, <2>2
  <1> QED BY <1>4


\* A set that has 0, and with a number the next one, has all of them.
LEMMA Induction ==
    ASSUME NEW S, 0 \in S, \A n \in Nat : n \in S => n + 1 \in S
    PROVE  Nat \subseteq S
  <1> SUFFICES ASSUME Nat \ S # {} PROVE FALSE
    OBVIOUS
  <1>1. PICK x \in Nat \ S : \A y \in Nat \ S : x <= y
    BY Least
  <1>2. x - 1 \in Nat /\ x - 1 \in S
    BY <1>1
  <1> QED
    BY <1>1, <1>2

\* Values that are computed one from the other, each with a step of its own, exist.
Steps(V) == [Nat -> [V -> V]]
Iterates(V, base, Step) ==
    {f \in [Nat -> V] : f[0] = base /\ \A n \in Nat : f[n + 1] = Step[n][f[n]]}

LEMMA Recursion ==
    ASSUME NEW V, NEW base \in V, NEW Step \in Steps(V)
    PROVE  Iterates(V, base, Step) # {}
  <1> USE DEF Steps
  <1> DEFINE Part(n, f) == f[0] = base /\ \A k \in 0..n - 1 : f[k + 1] = Step[k][f[k]]
             Some == {n \in Nat : \E f \in [0..n -> V] : Part(n, f)}
  <1>1. 0 \in Some
    <2>1. [k \in 0..0 |-> base] \in [0..0 -> V] /\ Part(0, [k \in 0..0 |-> base])
      OBVIOUS
    <2> QED
      BY <2>1
  <1>2. ASSUME NEW n \in Nat, n \in Some PROVE n + 1 \in Some
    <2>1. PICK f \in [0..n -> V] : Part(n, f)
      BY <1>2
    <2> DEFINE g == [k \in 0..n + 1 |-> IF k <= n THEN f[k] ELSE Step[n][f[n]]]
    <2>2. g \in [0..n + 1 -> V]
      OBVIOUS
    <2>3. g[0] = base
      BY <2>1
    <2>4. ASSUME NEW k \in 0..n PROVE g[k + 1] = Step[k][g[k]]
      BY <2>1
    <2>5. 0..(n + 1) - 1 = 0..n
      OBVIOUS
    <2> HIDE DEF g
    <2>6. Part(n + 1, g)
      BY <2>3, <2>4, <2>5
    <2> QED
      BY <2>2, <2>6
  <1>3. Nat \subseteq Some
    <2> HIDE DEF Some
    <2> QED
      BY <1>1, <1>2, Induction
  <1>4. PICK P \in [Nat -> UNION {[0..n -> V] : n \in Nat}] :
           \A n \in Nat : P[n] \in [0..n -> V] /\ Part(n, P[n])
    <2>1. \A n \in Nat : \E f \in [0..n -> V] : Part(n, f)
      BY <1>3
    <2> DEFINE Q == [n \in Nat |-> CHOOSE f \in [0..n -> V] : Part(n, f)]
    <2>2. \A n \in Nat : Q[n] \in [0..n -> V] /\ Part(n, Q[n])
      BY <2>1
    <2>3. Q \in [Nat -> UNION {[0..n -> V] : n \in Nat}]
      BY <2>2
    <2> QED
      BY <2>2, <2>3
  <1>5. ASSUME NEW n \in Nat PROVE P[n + 1][n] = P[n][n]
    <2> DEFINE Same == {k \in Nat : k <= n => P[n + 1][k] = P[n][k]}
    <2>1. 0 \in Same
      BY <1>4
    <2>2. ASSUME NEW k \in Nat, k \in Same PROVE k + 1 \in Same
      <3>1. ASSUME k + 1 <= n PROVE P[n + 1][k + 1] = P[n][k + 1]
        <4>1. P[n + 1][k + 1] = Step[k][P[n + 1][k]] /\ P[n][k + 1] = Step[k][P[n][k]]
          BY <1>4, <3>1
        <4>2. P[n + 1][k] = P[n][k]
          BY <2>2, <3>1
        <4> QED
          BY <4>1, <4>2
      <3>2. k + 1 \in Nat /\ (k + 1 <= n => P[n + 1][k + 1] = P[n][k + 1])
        BY <3>1
      <3> QED
        BY <3>2, Zenon
    <2>3. Nat \subseteq Same
      <3> HIDE DEF Same
      <3> QED
        BY <2>1, <2>2, Induction
    <2>4. n \in Same
      <3> HIDE DEF Same
      <3> QED
        BY <2>3
    <2> QED
      BY <2>4
  <1> DEFINE F == [n \in Nat |-> P[n][n]]
  <1>6. F \in [Nat -> V] /\ F[0] = base
    BY <1>4
  <1>7. ASSUME NEW n \in Nat PROVE F[n + 1] = Step[n][F[n]]
    <2>1. P[n + 1][n + 1] = Step[n][P[n + 1][n]]
      BY <1>4
    <2>2. P[n + 1][n] = P[n][n]
      BY <1>5
    <2>3. F[n + 1] = P[n + 1][n + 1] /\ F[n] = P[n][n]
      OBVIOUS
    <2> QED
      BY <2>1, <2>2, <2>3
  <1> HIDE DEF F
  <1> QED
    BY <1>6, <1>7 DEF Iterates
=============================================================================
