---------------------------- MODULE S3PathProofs ----------------------------
(***************************************************************************)
(* What the functions of S3Path return, for paths of any length.  They are *)
(* loops over the path and first or last places in it, so the proofs need  *)
(* induction; it is derived from the well-foundedness of the order on the  *)
(* natural numbers, as an induction over sets instead of predicates.       *)
(***************************************************************************)
EXTENDS S3Path, SequenceTheorems, WellFoundedInduction, TLAPS

(***************************************************************************)
(* Induction and recursion over the natural numbers.                       *)
(***************************************************************************)
\* A set of natural numbers has a least element.
LEMMA LeastNat ==
  ASSUME NEW T, T \subseteq Nat, T # {}
  PROVE  \E x \in T : \A y \in T : x <= y
<1> DEFINE R == OpToRel(<, Nat)
<1>1. IsWellFoundedOn(R, Nat)
  BY NatLessThanWellFounded
<1>2. \A x, y \in Nat : <<y, x>> \notin R => x <= y
  BY DEF OpToRel
<1> HIDE DEF R
<1>3. \E x \in T : \A y \in T : <<y, x>> \notin R
  BY <1>1, WFMin
<1> QED
  BY <1>2, <1>3

\* A set that has 0, and n + 1 with n, has every natural number.
LEMMA InductionNat ==
  ASSUME NEW T, 0 \in T, \A n \in Nat : n \in T => n + 1 \in T
  PROVE  Nat \subseteq T
<1> SUFFICES ASSUME Nat \ T # {} PROVE FALSE
  OBVIOUS
<1>1. PICK x \in Nat \ T : \A y \in Nat \ T : x <= y
  BY LeastNat
<1>2. x # 0 /\ x - 1 \in Nat
  BY <1>1
<1>3. x - 1 \in T
  BY <1>1, <1>2
<1>4. (x - 1) + 1 \in T
  BY <1>2, <1>3
<1> QED
  BY <1>1, <1>4

\* f has the value base at 0, and each of its values up to N comes from the one before.
Iterates(f, base, step, N) == \A i \in 0..N : f[i] = IF i = 0 THEN base ELSE step[i][f[i - 1]]

\* There is such a function.
LEMMA Recursion ==
  ASSUME NEW A, NEW base \in A, NEW N \in Nat, NEW step \in [1..N -> [A -> A]]
  PROVE  \E f \in [0..N -> A] : Iterates(f, base, step, N)
<1> DEFINE Is(f, n) == f \in [0..n -> A] /\ Iterates(f, base, step, n)
           T == {n \in Nat : n <= N => \E f : Is(f, n)}
<1>1. 0 \in T
  <2>1. Is([i \in 0..0 |-> base], 0)
    BY DEF Iterates
  <2> QED
    BY <2>1
<1>2. ASSUME NEW n \in Nat, n \in T PROVE n + 1 \in T
  <2>1. SUFFICES ASSUME n + 1 <= N PROVE \E f : Is(f, n + 1)
    OBVIOUS
  <2>2. PICK f : Is(f, n)
    BY <1>2, <2>1
  <2> DEFINE g == [i \in 0..(n + 1) |-> IF i = n + 1 THEN step[i][f[n]] ELSE f[i]]
  <2>3. n + 1 \in 1..N /\ f[n] \in A /\ step[n + 1][f[n]] \in A
    BY <2>1, <2>2
  <2>4. g \in [0..(n + 1) -> A]
    BY <2>2, <2>3
  <2>5. ASSUME NEW i \in 0..(n + 1)
        PROVE  g[i] = IF i = 0 THEN base ELSE step[i][g[i - 1]]
    <3>1. CASE i = n + 1
      <4>1. g[n + 1] = step[n + 1][f[n]] /\ g[n] = f[n]
        OBVIOUS
      <4> QED
        BY <3>1, <4>1
    <3>2. CASE i # n + 1
      <4>1. i \in 0..n /\ g[i] = f[i]
        BY <3>2
      <4>2. i # 0 => g[i - 1] = f[i - 1]
        BY <4>1
      <4> QED
        BY <2>2, <4>1, <4>2 DEF Iterates
    <3> QED
      BY <3>1, <3>2
  <2>6. Is(g, n + 1)
    BY <2>4, <2>5 DEF Iterates
  <2> QED
    BY <2>6
<1>3. Nat \subseteq T
  <2> HIDE DEF T
  <2> QED
    BY <1>1, <1>2, InductionNat
<1> QED
  BY <1>3

(***************************************************************************)
(* First and last places.                                                  *)
(***************************************************************************)
LEMMA MinOf ==
  ASSUME NEW T, T \subseteq Nat, T # {}
  PROVE  Min(T) \in T /\ \A y \in T : Min(T) <= y
BY LeastNat DEF Min

LEMMA MaxOf ==
  ASSUME NEW n \in Nat, NEW T, T \subseteq 0..n, T # {}
  PROVE  Max(T) \in T /\ \A y \in T : Max(T) >= y
<1> DEFINE U == {n - x : x \in T}
<1>1. U \subseteq Nat /\ U # {}
  <2>1. \A x \in T : n - x \in Nat
    OBVIOUS
  <2> QED
    BY <2>1
<1>2. PICK u \in U : \A y \in U : u <= y
  <2> HIDE DEF U
  <2> QED
    BY <1>1, LeastNat
<1>3. PICK x \in T : u = n - x
  BY <1>2
<1>4. \A y \in T : x >= y
  <2> SUFFICES ASSUME NEW y \in T PROVE x >= y
    OBVIOUS
  <2>1. u <= n - y
    BY <1>2
  <2> QED
    BY <1>3, <2>1
<1> QED
  BY <1>3, <1>4 DEF Max

LEMMA FindRange ==
  ASSUME NEW p, NEW s, Len(p) \in Nat
  PROVE  Find(p, s) \in 0..Len(p)
<1> DEFINE I == {i \in 1..Len(p) : Occurs(s, p, i)}
<1>1. CASE I = {}
  BY <1>1 DEF Find
<1>2. CASE I # {}
  <2>1. I \subseteq Nat
    OBVIOUS
  <2>2. Find(p, s) = Min(I)
    BY <1>2 DEF Find
  <2>3. Min(I) \in I
    <3> HIDE DEF I
    <3> QED
      BY <1>2, <2>1, MinOf
  <2> QED
    BY <2>2, <2>3
<1> QED
  BY <1>1, <1>2

LEMMA FindNone ==
  ASSUME NEW p, NEW s, \A i \in 1..Len(p) : ~Occurs(s, p, i)
  PROVE  Find(p, s) = 0
BY DEF Find

\* At the front of a path something is found at once.
LEMMA FindFront ==
  ASSUME NEW p, NEW s, Len(p) \in Nat, Len(p) >= 1, Occurs(s, p, 1)
  PROVE  Find(p, s) = 1
<1> DEFINE I == {i \in 1..Len(p) : Occurs(s, p, i)}
<1>1. 1 \in I /\ I # {} /\ I \subseteq Nat /\ \A i \in I : 1 <= i
  OBVIOUS
<1>2. Find(p, s) = Min(I)
  BY <1>1 DEF Find
<1> HIDE DEF I
<1>3. Min(I) \in I /\ Min(I) <= 1
  BY <1>1, MinOf
<1>4. Min(I) \in Nat /\ 1 <= Min(I)
  BY <1>1, <1>3
<1> QED
  BY <1>2, <1>3, <1>4

LEMMA FirstWord ==
  ASSUME NEW p, Len(p) \in Nat, NEW i \in 1..Len(p), IsWord(p[i]),
         \A j \in 1..(i - 1) : ~IsWord(p[j])
  PROVE  SelectInSeq(p, IsWord) = i
<1> DEFINE I == {j \in 1..Len(p) : IsWord(p[j])}
<1>1. i \in I /\ I # {} /\ I \subseteq Nat /\ \A j \in I : i <= j
  OBVIOUS
<1>2. SelectInSeq(p, IsWord) = Min(I)
  BY <1>1 DEF SelectInSeq
<1> HIDE DEF I
<1>3. Min(I) \in I /\ Min(I) <= i
  BY <1>1, MinOf
<1>4. Min(I) \in Nat /\ i <= Min(I)
  BY <1>1, <1>3
<1> QED
  BY <1>2, <1>3, <1>4

LEMMA LastWord ==
  ASSUME NEW p, Len(p) \in Nat, NEW i \in 1..Len(p), IsWord(p[i]),
         \A j \in (i + 1)..Len(p) : ~IsWord(p[j])
  PROVE  SelectLastInSeq(p, IsWord) = i
<1> DEFINE I == {j \in 1..Len(p) : IsWord(p[j])}
<1>1. i \in I /\ I # {} /\ I \subseteq 0..Len(p) /\ \A j \in I : i >= j
  OBVIOUS
<1>2. SelectLastInSeq(p, IsWord) = Max(I)
  BY <1>1 DEF SelectLastInSeq
<1> HIDE DEF I
<1>3. Max(I) \in I /\ Max(I) >= i
  BY <1>1, MaxOf
<1>4. Max(I) \in 0..Len(p) /\ i >= Max(I)
  BY <1>1, <1>3
<1> QED
  BY <1>2, <1>3, <1>4

LEMMA NoWord ==
  ASSUME NEW p, \A j \in 1..Len(p) : ~IsWord(p[j])
  PROVE  SelectInSeq(p, IsWord) = 0 /\ SelectLastInSeq(p, IsWord) = 0
BY DEF SelectInSeq, SelectLastInSeq

(***************************************************************************)
(* Taking an address apart.                                                *)
(***************************************************************************)
Schemes == {<<>>, Http, Https}

\* The provers do not know that a literal is a string, so the literals are named again.
Tokens ==
  STRING \cup Hosts \cup Segments \cup {"/", "s3:", "https:", "http:", "1", "mlflow-meta.json"}

\* A path without the name of a scheme in it.
Plain(q) ==
  q \in Seq(Tokens) /\ \A i \in 1..Len(q) : q[i] \notin {S3[1], Https[1], Http[1]}

LEMMA SchemeTokens ==
  /\ S3 \in Seq(Tokens) /\ Https \in Seq(Tokens) /\ Http \in Seq(Tokens) /\ Slash \in Tokens
  /\ S3 # <<>> /\ S3[1] = "s3:"
  /\ Len(Https) = 3 /\ Https[1] = "https:" /\ Https[2] = Slash /\ Https[3] = Slash
  /\ Len(Http) = 3 /\ Http[1] = "http:" /\ Http[2] = Slash /\ Http[3] = Slash
  /\ Slash \notin {"s3:", "https:", "http:"}
<1>1. Slash \in Tokens /\ "s3:" \in Tokens /\ "https:" \in Tokens /\ "http:" \in Tokens
  BY DEF Slash, Tokens
<1>2. \A t \in Tokens : <<t, Slash, Slash>> \in Seq(Tokens)
  BY <1>1
<1>3. S3 \in Seq(Tokens) /\ Https \in Seq(Tokens) /\ Http \in Seq(Tokens)
  BY <1>1, <1>2 DEF S3, Https, Http
<1>4. S3 # <<>> /\ S3[1] = "s3:"
  BY DEF S3
<1>5. Len(Https) = 3 /\ Https[1] = "https:" /\ Https[2] = Slash /\ Https[3] = Slash
  BY DEF Https
<1>6. Len(Http) = 3 /\ Http[1] = "http:" /\ Http[2] = Slash /\ Http[3] = Slash
  BY DEF Http
<1>7. Slash \notin {"s3:", "https:", "http:"}
  BY DEF Slash
<1> QED
  BY <1>1, <1>3, <1>4, <1>5, <1>6, <1>7

LEMMA SchemesType ==
  ASSUME NEW scheme \in Schemes
  PROVE  scheme \in Seq(Tokens)
<1>1. CASE scheme = <<>>
  BY <1>1, EmptySeq
<1>2. CASE scheme \in {Http, Https}
  BY <1>2, SchemeTokens
<1> QED
  BY <1>1, <1>2 DEF Schemes

LEMMA AfterType ==
  ASSUME NEW p \in Seq(Tokens), NEW s \in Seq(Tokens)
  PROVE  After(p, s) \in Seq(Tokens)
<1>1. Find(p, s) \in 0..Len(p) /\ Len(p) \in Nat /\ Len(s) \in Nat
  BY FindRange
<1>2. \A i \in (Find(p, s) + Len(s))..Len(p) : Find(p, s) # 0 => p[i] \in Tokens
  BY <1>1
<1>3. Find(p, s) # 0 => SubSeq(p, Find(p, s) + Len(s), Len(p)) \in Seq(Tokens)
  BY <1>1, <1>2, SubSeqProperties
<1> QED
  BY <1>3 DEF After

\* What is in front is found there and taken off.
LEMMA AfterFront ==
  ASSUME NEW s \in Seq(Tokens), NEW q \in Seq(Tokens)
  PROVE  /\ After(s \o q, s) = q
         /\ s # <<>> => Find(s \o q, s) = 1
<1> DEFINE p == s \o q
<1>1. /\ p \in Seq(Tokens) /\ Len(p) = Len(s) + Len(q) /\ Len(s) \in Nat /\ Len(q) \in Nat
      /\ \A i \in 1..(Len(s) + Len(q)) : p[i] = IF i <= Len(s) THEN s[i] ELSE q[i - Len(s)]
  BY ConcatProperties
<1> HIDE DEF p
<1>2. CASE Len(p) = 0
  <2>1. Find(p, s) = 0
    BY <1>1, <1>2, FindRange
  <2>2. s = <<>> /\ q = <<>> /\ p = <<>>
    BY <1>1, <1>2
  <2> QED
    BY <2>1, <2>2 DEF After, p
<1>3. CASE Len(p) # 0
  <2>1. Occurs(s, p, 1)
    BY <1>1 DEF Occurs
  <2>2. Find(p, s) = 1
    BY <1>1, <1>3, <2>1, FindFront
  <2>3. After(p, s) = SubSeq(p, 1 + Len(s), Len(p))
    BY <2>2 DEF After
  <2>4. \A i \in (1 + Len(s))..Len(p) : p[i] \in Tokens
    BY <1>1
  <2>5. /\ SubSeq(p, 1 + Len(s), Len(p)) \in Seq(Tokens)
        /\ Len(SubSeq(p, 1 + Len(s), Len(p))) = Len(q)
        /\ \A i \in 1..Len(q) : SubSeq(p, 1 + Len(s), Len(p))[i] = p[1 + Len(s) + i - 1]
    BY <1>1, <2>4, SubSeqProperties
  <2>6. ASSUME NEW i \in 1..Len(q) PROVE p[1 + Len(s) + i - 1] = q[i]
    <3>1. /\ 1 + Len(s) + i - 1 \in 1..(Len(s) + Len(q)) /\ ~(1 + Len(s) + i - 1 <= Len(s))
          /\ (1 + Len(s) + i - 1) - Len(s) = i
      BY <1>1
    <3> QED
      BY <1>1, <3>1
  <2>7. SubSeq(p, 1 + Len(s), Len(p)) = q
    BY <1>1, <2>5, <2>6, SeqEqual
  <2> QED
    BY <2>2, <2>3, <2>7 DEF p
<1> QED
  BY <1>2, <1>3

\* The scheme of an address is found, and nothing else is taken for one.
LEMMA SchemeOf ==
  ASSUME NEW scheme \in Schemes, NEW q, Plain(q)
  PROVE  Scheme(scheme \o q) = scheme
<1> DEFINE r == scheme \o q
<1>1. scheme \in Seq(Tokens) /\ q \in Seq(Tokens)
  BY SchemesType DEF Plain
<1>2. /\ r \in Seq(Tokens) /\ Len(r) = Len(scheme) + Len(q)
      /\ Len(scheme) \in Nat /\ Len(q) \in Nat
      /\ \A i \in 1..Len(r) : r[i] = IF i <= Len(scheme) THEN scheme[i] ELSE q[i - Len(scheme)]
  BY <1>1, ConcatProperties
<1>3. ASSUME NEW s \in {Https, Http}, NEW i \in 1..Len(r), Occurs(s, r, i)
      PROVE  r[i] = s[1]
  <2>1. Len(s) = 3
    BY SchemeTokens
  <2>2. r[i + 1 - 1] = s[1]
    BY <1>3, <2>1 DEF Occurs
  <2> QED
    BY <1>2, <2>2
<1>4. ASSUME NEW s \in {Https, Http}, s # scheme
      PROVE  Find(r, s) = 0
  <2>1. ASSUME NEW i \in 1..Len(r) PROVE r[i] # s[1]
    <3>1. CASE i <= Len(scheme)
      <4>1. r[i] = scheme[i] /\ Len(scheme) # 0
        BY <1>2, <3>1
      <4>2. scheme \in {Https, Http}
        <5>1. Len(<<>>) = 0
          OBVIOUS
        <5> QED
          BY <4>1, <5>1 DEF Schemes
      <4>3. i \in 1..3
        <5>1. Len(scheme) = 3
          BY <4>2, SchemeTokens
        <5> QED
          BY <3>1, <5>1
      <4> QED
        BY <1>4, <4>1, <4>2, <4>3, SchemeTokens
    <3>2. CASE i > Len(scheme)
      BY <1>2, <3>2 DEF Plain
    <3> QED
      BY <1>2, <3>1, <3>2
  <2> QED
    BY <1>3, <2>1, FindNone
<1>5. Https # Http /\ Https # <<>> /\ Http # <<>>
  BY SchemeTokens
<1>6. scheme # <<>> => Find(r, scheme) = 1
  BY <1>1, AfterFront
<1> HIDE DEF r
<1>7. Scheme(r) = scheme
  BY <1>4, <1>5, <1>6 DEF Schemes, Scheme
<1> QED
  BY <1>7 DEF r

\* An address is taken apart into its scheme and its path.
LEMMA PathOf ==
  ASSUME NEW scheme \in Schemes, NEW q, Plain(q)
  PROVE  /\ Find(S3 \o scheme \o q, S3) = 1
         /\ After(S3 \o scheme \o q, S3) = scheme \o q
         /\ Protocol(S3 \o scheme \o q) = scheme
         /\ Path(S3 \o scheme \o q) = q
<1>1. scheme \in Seq(Tokens) /\ q \in Seq(Tokens) /\ scheme \o q \in Seq(Tokens)
  BY SchemesType, ConcatProperties DEF Plain
<1>2. (S3 \o scheme) \o q = S3 \o (scheme \o q)
  BY <1>1, SchemeTokens, ConcatAssociative
<1>3. Find(S3 \o (scheme \o q), S3) = 1 /\ After(S3 \o (scheme \o q), S3) = scheme \o q
  <2>1. S3 # <<>>
    BY SchemeTokens
  <2> QED
    BY <1>1, <2>1, SchemeTokens, AfterFront
<1>4. After(scheme \o q, scheme) = q
  BY <1>1, AfterFront
<1> QED
  BY <1>2, <1>3, <1>4, SchemeOf DEF Protocol, Path

(***************************************************************************)
(* The loop that drops slashes.                                            *)
(***************************************************************************)
\* One round of the loop.
Keep(before, t) ==
  IF t = Slash /\ before # <<>> /\ Last(before) = Slash THEN before ELSE Append(before, t)

Keeps(kept, p) ==
  kept = [i \in 0..Len(p) |-> IF i = 0 THEN <<>> ELSE Keep(kept[i - 1], p[i])]

LEMMA KeepType ==
  ASSUME NEW before \in Seq(Tokens), NEW t \in Tokens
  PROVE  Keep(before, t) \in Seq(Tokens)
BY AppendProperties DEF Keep

\* The loop runs over every path, and the path so far is a path.
LEMMA CollapseKeeps ==
  ASSUME NEW p \in Seq(Tokens)
  PROVE  \E kept \in [0..Len(p) -> Seq(Tokens)] : Keeps(kept, p) /\ Collapse(p) = kept[Len(p)]
<1> DEFINE step == [i \in 1..Len(p) |-> [before \in Seq(Tokens) |-> Keep(before, p[i])]]
           kept[i \in 0..Len(p)] ==
             IF i = 0 THEN <<>>
             ELSE IF p[i] = Slash /\ kept[i - 1] # <<>> /\ Last(kept[i - 1]) = Slash
                  THEN kept[i - 1]
             ELSE Append(kept[i - 1], p[i])
<1>1. Len(p) \in Nat /\ \A i \in 1..Len(p) : p[i] \in Tokens
  BY ElementOfSeq, LenProperties
<1>2. step \in [1..Len(p) -> [Seq(Tokens) -> Seq(Tokens)]]
  BY <1>1, KeepType
<1>3. <<>> \in Seq(Tokens)
  BY EmptySeq
<1>4. PICK f \in [0..Len(p) -> Seq(Tokens)] : Iterates(f, <<>>, step, Len(p))
  <2> HIDE DEF step
  <2> QED
    BY <1>1, <1>2, <1>3, Recursion
<1>5. ASSUME NEW i \in 0..Len(p) PROVE f[i] = IF i = 0 THEN <<>> ELSE Keep(f[i - 1], p[i])
  <2>1. CASE i = 0
    BY <1>4, <2>1 DEF Iterates
  <2>2. CASE i # 0
    <3>1. i \in 1..Len(p) /\ f[i - 1] \in Seq(Tokens)
      BY <1>1, <1>4, <2>2
    <3>2. step[i][f[i - 1]] = Keep(f[i - 1], p[i])
      BY <3>1
    <3> QED
      BY <1>4, <2>2, <3>2 DEF Iterates
  <2> QED
    BY <2>1, <2>2
<1>6. Keeps(f, p)
  BY <1>4, <1>5 DEF Keeps
<1>7. kept = CHOOSE k : Keeps(k, p)
  BY Zenon DEF Keeps, Keep
<1>8. Collapse(p) = kept[Len(p)]
  BY DEF Collapse
<1> HIDE DEF kept
<1>9. Keeps(kept, p)
  BY <1>6, <1>7
<1> DEFINE T == {n \in Nat : n <= Len(p) => kept[n] \in Seq(Tokens)}
<1>10. 0 \in T
  <2>1. kept[0] = <<>>
    BY <1>1, <1>9 DEF Keeps
  <2> QED
    BY <1>3, <2>1
<1>11. ASSUME NEW n \in Nat, n \in T PROVE n + 1 \in T
  <2>1. SUFFICES ASSUME n + 1 <= Len(p) PROVE kept[n + 1] \in Seq(Tokens)
    OBVIOUS
  <2>2. n + 1 \in 0..Len(p) /\ n + 1 \in 1..Len(p) /\ kept[n] \in Seq(Tokens) /\ n + 1 - 1 = n
    BY <1>1, <1>11, <2>1
  <2>3. kept[n + 1] = Keep(kept[n], p[n + 1])
    BY <1>9, <2>2 DEF Keeps
  <2> QED
    BY <1>1, <2>2, <2>3, KeepType
<1>12. Nat \subseteq T
  <2> HIDE DEF T
  <2> QED
    BY <1>10, <1>11, InductionNat
<1>13. \A i \in 0..Len(p) : kept[i] \in Seq(Tokens)
  BY <1>1, <1>12
<1>14. kept \in [0..Len(p) -> Seq(Tokens)]
  BY <1>9, <1>13 DEF Keeps
<1> QED
  BY <1>8, <1>9, <1>14

\* What the loop has kept depends only on what it has seen.
LEMMA KeepsAgree ==
  ASSUME NEW p \in Seq(Tokens), NEW q \in Seq(Tokens), NEW k, NEW m,
         Keeps(k, p), Keeps(m, q), Len(p) <= Len(q), \A i \in 1..Len(p) : p[i] = q[i]
  PROVE  k[Len(p)] = m[Len(p)]
<1> DEFINE T == {n \in Nat : n <= Len(p) => k[n] = m[n]}
<1>1. Len(p) \in Nat /\ Len(q) \in Nat
  BY LenProperties
<1>2. 0 \in T
  BY <1>1 DEF Keeps
<1>3. ASSUME NEW n \in Nat, n \in T PROVE n + 1 \in T
  <2>1. SUFFICES ASSUME n + 1 <= Len(p) PROVE k[n + 1] = m[n + 1]
    OBVIOUS
  <2>2. /\ n + 1 \in 0..Len(p) /\ n + 1 \in 0..Len(q) /\ n + 1 \in 1..Len(p)
        /\ k[n] = m[n] /\ n + 1 - 1 = n /\ n + 1 # 0
    BY <1>1, <1>3, <2>1
  <2>3. k[n + 1] = Keep(k[n], p[n + 1]) /\ m[n + 1] = Keep(m[n], q[n + 1])
    BY <2>2 DEF Keeps
  <2> QED
    BY <2>2, <2>3
<1>4. Nat \subseteq T
  <2> HIDE DEF T
  <2> QED
    BY <1>2, <1>3, InductionNat
<1> QED
  BY <1>1, <1>4

LEMMA CollapseEmpty == Collapse(<<>>) = <<>>
<1>1. <<>> \in Seq(Tokens) /\ Len(<<>>) = 0
  BY EmptySeq
<1>2. PICK k : Keeps(k, <<>>) /\ Collapse(<<>>) = k[0]
  BY <1>1, CollapseKeeps
<1>3. k[0] = <<>>
  BY <1>1, <1>2 DEF Keeps
<1> QED
  BY <1>2, <1>3

LEMMA CollapseType ==
  ASSUME NEW p \in Seq(Tokens)
  PROVE  Collapse(p) \in Seq(Tokens)
BY CollapseKeeps, LenProperties

LEMMA CollapseAppend ==
  ASSUME NEW p \in Seq(Tokens), NEW t \in Tokens
  PROVE  Collapse(Append(p, t)) = Keep(Collapse(p), t)
<1> DEFINE q == Append(p, t)
<1>1. /\ q \in Seq(Tokens) /\ Len(q) = Len(p) + 1 /\ Len(p) \in Nat
      /\ \A i \in 1..Len(p) : q[i] = p[i]
      /\ q[Len(p) + 1] = t
  BY AppendProperties, LenProperties
<1> HIDE DEF q
<1>2. PICK k : Keeps(k, p) /\ Collapse(p) = k[Len(p)]
  BY CollapseKeeps
<1>3. PICK m : Keeps(m, q) /\ Collapse(q) = m[Len(q)]
  BY <1>1, CollapseKeeps
<1>4. k[Len(p)] = m[Len(p)]
  BY <1>1, <1>2, <1>3, KeepsAgree
<1>5. Len(p) + 1 \in 0..Len(q) /\ Len(p) + 1 # 0 /\ Len(p) + 1 - 1 = Len(p)
  BY <1>1
<1>6. m[Len(p) + 1] = Keep(m[Len(p)], q[Len(p) + 1])
  BY <1>3, <1>5 DEF Keeps
<1>7. Collapse(q) = Keep(Collapse(p), t)
  BY <1>1, <1>2, <1>3, <1>4, <1>6
<1> QED
  BY <1>7 DEF q
=============================================================================
