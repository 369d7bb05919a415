------------------------- MODULE PublishToS3Proofs -------------------------
(***************************************************************************)
(* Proofs about PublishToS3: however an address is typed, the plugin means *)
(* the same place by it, and the ways of computing keys agree.             *)
(***************************************************************************)
EXTENDS PublishToS3, S3PathProofs

(***************************************************************************)
(* Slashes.                                                                *)
(***************************************************************************)
LEMMA SlashesAre ==
  ASSUME NEW n \in Nat
  PROVE  /\ Slashes(n) \in Seq(Tokens) /\ Len(Slashes(n)) = n
         /\ \A i \in 1..n : Slashes(n)[i] = Slash
<1>1. Slash \in Tokens
  BY SchemeTokens
<1>2. Slashes(n) \in [1..n -> Tokens]
  BY <1>1 DEF Slashes
<1>3. Slashes(n) \in Seq(Tokens)
  BY <1>2, SeqDef
<1>4. Len(Slashes(n)) = n
  BY <1>2, <1>3, LenProperties
<1> QED
  BY <1>3, <1>4 DEF Slashes

LEMMA SlashesNone == Slashes(0) = <<>>
<1>1. Slashes(0) \in Seq(Tokens) /\ Len(Slashes(0)) = 0
  BY SlashesAre
<1> QED
  BY <1>1, EmptySeq

LEMMA SlashesOneMore ==
  ASSUME NEW n \in Nat
  PROVE  Slashes(n + 1) = Append(Slashes(n), Slash)
<1>1. /\ Slashes(n) \in Seq(Tokens) /\ Len(Slashes(n)) = n
      /\ \A i \in 1..n : Slashes(n)[i] = Slash
  BY SlashesAre
<1>2. /\ Slashes(n + 1) \in Seq(Tokens) /\ Len(Slashes(n + 1)) = n + 1
      /\ \A i \in 1..(n + 1) : Slashes(n + 1)[i] = Slash
  BY SlashesAre
<1>3. /\ Append(Slashes(n), Slash) \in Seq(Tokens) /\ Len(Append(Slashes(n), Slash)) = n + 1
      /\ \A i \in 1..n : Append(Slashes(n), Slash)[i] = Slashes(n)[i]
      /\ Append(Slashes(n), Slash)[n + 1] = Slash
  BY <1>1, SchemeTokens, AppendProperties
<1>4. \A i \in 1..(n + 1) : Append(Slashes(n), Slash)[i] = Slash
  BY <1>1, <1>3
<1> QED
  BY <1>2, <1>3, <1>4, SeqEqual

LEMMA SlashesOne == Slashes(1) = <<Slash>>
<1>1. /\ Slashes(1) \in Seq(Tokens) /\ Len(Slashes(1)) = 1
      /\ \A i \in 1..1 : Slashes(1)[i] = Slash
  BY SlashesAre
<1>2. <<Slash>> \in Seq(Tokens) /\ Len(<<Slash>>) = 1 /\ \A i \in 1..1 : <<Slash>>[i] = Slash
  BY SchemeTokens
<1> QED
  BY <1>1, <1>2, SeqEqual

\* Slashes after a path that ends in a word collapse into one.
LEMMA CollapseSlashes ==
  ASSUME NEW p \in Seq(Tokens), Collapse(p) # <<>>, Last(Collapse(p)) # Slash, NEW n \in Nat
  PROVE  Collapse(p \o Slashes(n)) = IF n = 0 THEN Collapse(p) ELSE Append(Collapse(p), Slash)
<1> DEFINE Is(k) == Collapse(p \o Slashes(k)) =
                    IF k = 0 THEN Collapse(p) ELSE Append(Collapse(p), Slash)
           T == {k \in Nat : Is(k)}
<1>1. Slash \in Tokens
  BY SchemeTokens
<1>2. 0 \in T
  <2>1. p \o Slashes(0) = p
    BY SlashesNone, ConcatEmptySeq
  <2> QED
    BY <2>1
<1>3. ASSUME NEW k \in Nat, k \in T PROVE k + 1 \in T
  <2>1. Slashes(k) \in Seq(Tokens) /\ p \o Slashes(k) \in Seq(Tokens)
    BY SlashesAre, ConcatProperties
  <2>2. p \o Slashes(k + 1) = Append(p \o Slashes(k), Slash)
    <3>1. Append(Slashes(k), Slash) = Slashes(k) \o <<Slash>>
      BY <1>1, <2>1, AppendIsConcat
    <3>2. Append(p \o Slashes(k), Slash) = (p \o Slashes(k)) \o <<Slash>>
      BY <1>1, <2>1, AppendIsConcat
    <3>3. <<Slash>> \in Seq(Tokens)
      BY <1>1
    <3>4. (p \o Slashes(k)) \o <<Slash>> = p \o (Slashes(k) \o <<Slash>>)
      BY <2>1, <3>3, ConcatAssociative
    <3> QED
      BY <3>1, <3>2, <3>4, SlashesOneMore
  <2>3. Collapse(p \o Slashes(k + 1)) = Keep(Collapse(p \o Slashes(k)), Slash)
    BY <1>1, <2>1, <2>2, CollapseAppend
  <2>4. Collapse(p) \in Seq(Tokens)
    BY CollapseType
  <2>5. /\ Append(Collapse(p), Slash) # <<>>
        /\ Last(Append(Collapse(p), Slash)) = Slash
    BY <1>1, <2>4, AppendProperties DEF Last
  <2>6. Keep(Collapse(p), Slash) = Append(Collapse(p), Slash)
    BY DEF Keep
  <2>7. Keep(Append(Collapse(p), Slash), Slash) = Append(Collapse(p), Slash)
    BY <2>5 DEF Keep
  <2>8. Collapse(p \o Slashes(k + 1)) = Append(Collapse(p), Slash)
    <3>1. CASE k = 0
      BY <1>3, <2>3, <2>6, <3>1
    <3>2. CASE k # 0
      BY <1>3, <2>3, <2>7, <3>2
    <3> QED
      BY <3>1, <3>2
  <2>9. k + 1 # 0 /\ k + 1 \in Nat
    OBVIOUS
  <2> QED
    BY <2>8, <2>9
<1>4. Nat \subseteq T
  <2> HIDE DEF T
  <2> QED
    BY <1>2, <1>3, InductionNat
<1>5. Is(n)
  BY <1>4
<1> QED
  BY <1>5

LEMMA CollapseWord ==
  ASSUME NEW p \in Seq(Tokens), NEW w \in Tokens, w # Slash
  PROVE  Collapse(Append(p, w)) = Append(Collapse(p), w)
BY CollapseAppend DEF Keep

(***************************************************************************)
(* Spellings.                                                              *)
(***************************************************************************)
\* One more word in a spelling.
Spell(words, n, k, before) ==
  IF k <= 1 THEN SubSeq(words, 1, k) ELSE before \o Slashes(n) \o <<words[k]>>

Spells(path, words, n) ==
  path = [k \in 0..Len(words) |-> Spell(words, n, k, path[k - 1])]

LEMMA SpellType ==
  ASSUME NEW words \in Seq(Tokens), NEW n \in Nat, NEW k \in 0..Len(words),
         NEW before \in Seq(Tokens)
  PROVE  Spell(words, n, k, before) \in Seq(Tokens)
<1>1. Len(words) \in Nat /\ \A i \in 1..Len(words) : words[i] \in Tokens
  BY LenProperties, ElementOfSeq
<1>2. SubSeq(words, 1, k) \in Seq(Tokens)
  BY <1>1, SubSeqProperties
<1>3. ASSUME k > 1 PROVE before \o Slashes(n) \o <<words[k]>> \in Seq(Tokens)
  <2>1. words[k] \in Tokens /\ <<words[k]>> \in Seq(Tokens)
    BY <1>1, <1>3
  <2>2. before \o Slashes(n) \in Seq(Tokens)
    BY SlashesAre, ConcatProperties
  <2> QED
    BY <2>1, <2>2, ConcatProperties
<1> QED
  BY <1>1, <1>2, <1>3 DEF Spell

LEMMA SpelledSpells ==
  ASSUME NEW words \in Seq(Tokens), NEW n \in Nat
  PROVE  \E path : Spells(path, words, n) /\ Spelled(words, n) = path[Len(words)]
<1> DEFINE step == [k \in 1..Len(words) |->
                      [before \in Seq(Tokens) |-> Spell(words, n, k, before)]]
           path[k \in 0..Len(words)] ==
             IF k <= 1 THEN SubSeq(words, 1, k) ELSE path[k - 1] \o Slashes(n) \o <<words[k]>>
<1>1. Len(words) \in Nat
  BY LenProperties
<1>2. step \in [1..Len(words) -> [Seq(Tokens) -> Seq(Tokens)]]
  BY <1>1, SpellType
<1>3. <<>> \in Seq(Tokens)
  BY EmptySeq
<1>4. PICK f \in [0..Len(words) -> Seq(Tokens)] : Iterates(f, <<>>, step, Len(words))
  <2> HIDE DEF step
  <2> QED
    BY <1>1, <1>2, <1>3, Recursion
<1>5. ASSUME NEW k \in 0..Len(words) PROVE f[k] = Spell(words, n, k, f[k - 1])
  <2>1. CASE k = 0
    <3>1. f[k] = <<>>
      BY <1>4, <2>1 DEF Iterates
    <3>2. SubSeq(words, 1, 0) = <<>>
      BY SubSeqEmpty
    <3> QED
      BY <2>1, <3>1, <3>2 DEF Spell
  <2>2. CASE k # 0
    <3>1. k \in 1..Len(words) /\ f[k - 1] \in Seq(Tokens)
      BY <1>1, <1>4, <2>2
    <3>2. step[k][f[k - 1]] = Spell(words, n, k, f[k - 1])
      BY <3>1
    <3> QED
      BY <1>4, <2>2, <3>2 DEF Iterates
  <2> QED
    BY <2>1, <2>2
<1>6. Spells(f, words, n)
  BY <1>4, <1>5 DEF Spells
<1>7. path = CHOOSE p : Spells(p, words, n)
  BY Zenon DEF Spells, Spell
<1>8. Spelled(words, n) = path[Len(words)]
  BY DEF Spelled
<1> HIDE DEF path
<1> QED
  BY <1>6, <1>7, <1>8

LEMMA SpelledNone ==
  ASSUME NEW n \in Nat
  PROVE  Spelled(<<>>, n) = <<>>
<1>1. <<>> \in Seq(Tokens) /\ Len(<<>>) = 0
  BY EmptySeq
<1>2. PICK path : Spells(path, <<>>, n) /\ Spelled(<<>>, n) = path[0]
  BY <1>1, SpelledSpells
<1>3. path[0] = SubSeq(<<>>, 1, 0)
  BY <1>1, <1>2 DEF Spells, Spell
<1> QED
  BY <1>2, <1>3, SubSeqEmpty

\* p is the first k words with one slash between each two.
Weaves(p, words, k) ==
  /\ Len(p) = IF k = 0 THEN 0 ELSE 2 * k - 1
  /\ \A i \in 1..k : p[2 * i - 1] = words[i]
  /\ \A i \in 1..(k - 1) : p[2 * i] = Slash

LEMMA WeavesUnique ==
  ASSUME NEW p \in Seq(Tokens), NEW q \in Seq(Tokens), NEW words, NEW k \in Nat,
         Weaves(p, words, k), Weaves(q, words, k)
  PROVE  p = q
<1>1. ASSUME NEW j \in 1..Len(p) PROVE p[j] = q[j]
  <2>1. PICK i \in 1..k : j = 2 * i - 1 \/ (j = 2 * i /\ i \in 1..(k - 1))
    <3>1. k # 0 /\ j <= 2 * k - 1
      BY DEF Weaves
    <3>2. CASE j % 2 = 1
      <4>1. (j + 1) \div 2 \in 1..k /\ j = 2 * ((j + 1) \div 2) - 1
        BY <3>1, <3>2
      <4> QED
        BY <4>1
    <3>3. CASE j % 2 = 0
      <4>1. j \div 2 \in 1..k /\ j = 2 * (j \div 2) /\ j \div 2 \in 1..(k - 1)
        BY <3>1, <3>3
      <4> QED
        BY <4>1
    <3> QED
      BY <3>2, <3>3
  <2> QED
    BY <2>1 DEF Weaves
<1>2. Len(p) = Len(q)
  BY DEF Weaves
<1> QED
  BY <1>1, <1>2, SeqEqual

\* What is true of the spelling of the first k words for each k.
Spelling(p, words, k) ==
  /\ p \in Seq(Tokens) /\ p # <<>> /\ p[1] = words[1] /\ Last(p) = words[k]
  /\ \A i \in 1..Len(p) : p[i] = Slash \/ \E j \in 1..Len(words) : p[i] = words[j]

LEMMA SpellOne ==
  ASSUME NEW words \in Seq(Tokens), words # <<>>, NEW n \in Nat, NEW before
  PROVE  /\ Spell(words, n, 1, before) = <<words[1]>>
         /\ Spelling(<<words[1]>>, words, 1)
<1>1. Len(words) \in Nat /\ Len(words) >= 1
  BY EmptySeq
<1>2. words[1] \in Tokens
  BY <1>1, ElementOfSeq
<1>3. SubSeq(words, 1, 1) = <<words[1]>>
  <2>1. \A i \in 1..1 : words[i] \in Tokens
    BY <1>2
  <2>2. /\ SubSeq(words, 1, 1) \in Seq(Tokens) /\ Len(SubSeq(words, 1, 1)) = 1
        /\ \A i \in 1..(1 - 1 + 1) : SubSeq(words, 1, 1)[i] = words[1 + i - 1]
    BY <2>1, SubSeqProperties
  <2>3. SubSeq(words, 1, 1)[1] = words[1]
    BY <2>2
  <2>4. <<words[1]>> \in Seq(Tokens) /\ Len(<<words[1]>>) = 1 /\ <<words[1]>>[1] = words[1]
    BY <1>2
  <2>5. \A i \in 1..1 : SubSeq(words, 1, 1)[i] = <<words[1]>>[i]
    BY <2>3, <2>4
  <2> QED
    BY <2>2, <2>4, <2>5, SeqEqual
<1>4. Spelling(<<words[1]>>, words, 1)
  BY <1>1, <1>2 DEF Spelling, Last
<1> QED
  BY <1>3, <1>4 DEF Spell

LEMMA SpellMore ==
  ASSUME NEW words \in Seq(Tokens), NEW n \in Nat, NEW k \in 2..Len(words), NEW p,
         Spelling(p, words, k - 1)
  PROVE  /\ Spelling(Spell(words, n, k, p), words, k)
         /\ p \o Slashes(n) \in Seq(Tokens)
         /\ Spell(words, n, k, p) = Append(p \o Slashes(n), words[k])
<1> DEFINE q == p \o Slashes(n)
           r == Append(q, words[k])
<1>1. Len(words) \in Nat /\ words[k] \in Tokens /\ k \in 1..Len(words) /\ k > 1
  BY LenProperties, ElementOfSeq
<1>2. p \in Seq(Tokens) /\ Slashes(n) \in Seq(Tokens) /\ Len(Slashes(n)) = n
  BY SlashesAre DEF Spelling
<1>3. Len(p) \in Nat /\ Len(p) >= 1
  BY EmptySeq DEF Spelling
<1>4. /\ q \in Seq(Tokens) /\ Len(q) = Len(p) + n
      /\ \A i \in 1..(Len(p) + n) : q[i] = IF i <= Len(p) THEN p[i] ELSE Slashes(n)[i - Len(p)]
  BY <1>2, ConcatProperties
<1> HIDE DEF q
<1>5. /\ r \in Seq(Tokens) /\ r # <<>> /\ Len(r) = Len(q) + 1
      /\ \A i \in 1..Len(q) : r[i] = q[i]
      /\ r[Len(q) + 1] = words[k]
  BY <1>1, <1>4, AppendProperties
<1>6. Spell(words, n, k, p) = r
  <2>1. r = q \o <<words[k]>>
    BY <1>1, <1>4, AppendIsConcat
  <2>2. ~(k <= 1)
    BY <1>1
  <2> QED
    BY <2>1, <2>2 DEF Spell, q
<1> HIDE DEF r
<1>7. r[1] = words[1]
  <2>1. 1 \in 1..Len(q) /\ 1 \in 1..(Len(p) + n) /\ 1 <= Len(p)
    BY <1>3, <1>4
  <2> QED
    BY <1>4, <1>5, <2>1 DEF Spelling
<1>8. Last(r) = words[k]
  BY <1>5 DEF Last
<1>9. ASSUME NEW i \in 1..Len(r)
      PROVE  r[i] = Slash \/ \E j \in 1..Len(words) : r[i] = words[j]
  <2>1. CASE i <= Len(p)
    <3>1. r[i] = p[i] /\ i \in 1..Len(p)
      BY <1>3, <1>4, <1>5, <2>1
    <3> QED
      BY <3>1 DEF Spelling
  <2>2. CASE i > Len(p) /\ i <= Len(q)
    <3>1. r[i] = Slashes(n)[i - Len(p)] /\ i - Len(p) \in 1..n
      BY <1>3, <1>4, <1>5, <2>2
    <3> QED
      BY <3>1, SlashesAre
  <2>3. CASE i > Len(q)
    <3>1. r[i] = words[k]
      BY <1>3, <1>4, <1>5, <2>3
    <3> QED
      BY <1>1, <3>1
  <2> QED
    BY <1>3, <1>4, <2>1, <2>2, <2>3
<1>10. Spelling(r, words, k)
  BY <1>5, <1>7, <1>8, <1>9 DEF Spelling
<1> QED
  BY <1>4, <1>6, <1>10 DEF q, r

LEMMA SpelledHolds ==
  ASSUME NEW words \in Seq(Tokens), NEW n \in Nat, NEW path, Spells(path, words, n)
  PROVE  \A k \in 1..Len(words) : Spelling(path[k], words, k)
<1> DEFINE T == {k \in Nat : k + 1 <= Len(words) => Spelling(path[k + 1], words, k + 1)}
<1>1. Len(words) \in Nat
  BY LenProperties
<1>2. 0 \in T
  <2>1. SUFFICES ASSUME 1 <= Len(words) PROVE Spelling(path[1], words, 1)
    OBVIOUS
  <2>2. path[1] = Spell(words, n, 1, path[1 - 1]) /\ words # <<>>
    BY <1>1, <2>1 DEF Spells
  <2> QED
    BY <2>2, SpellOne
<1>3. ASSUME NEW k \in Nat, k \in T PROVE k + 1 \in T
  <2>1. SUFFICES ASSUME k + 1 + 1 <= Len(words)
                 PROVE  Spelling(path[k + 1 + 1], words, k + 1 + 1)
    OBVIOUS
  <2> DEFINE m == k + 1 + 1
  <2>2. m \in 0..Len(words) /\ m \in 2..Len(words) /\ m - 1 = k + 1 /\ m - 1 \in Nat
    BY <1>1, <2>1
  <2>3. Spelling(path[m - 1], words, m - 1)
    BY <1>1, <1>3, <2>1, <2>2
  <2>4. path[m] = Spell(words, n, m, path[m - 1])
    BY <2>2 DEF Spells
  <2> HIDE DEF m
  <2>5. Spelling(path[m], words, m)
    BY <2>2, <2>3, <2>4, SpellMore
  <2> QED
    BY <2>5 DEF m
<1>4. Nat \subseteq T
  <2> HIDE DEF T
  <2> QED
    BY <1>2, <1>3, InductionNat
<1>5. ASSUME NEW k \in 1..Len(words) PROVE Spelling(path[k], words, k)
  <2>1. k - 1 \in T /\ (k - 1) + 1 = k /\ k <= Len(words)
    BY <1>1, <1>4
  <2> QED
    BY <2>1
<1> QED
  BY <1>5

\* A spelling begins with the first word, ends with the last, and has only words and slashes.
LEMMA SpelledIs ==
  ASSUME NEW words \in Seq(Tokens), words # <<>>, NEW n \in Nat
  PROVE  Spelling(Spelled(words, n), words, Len(words))
<1>1. Len(words) \in 1..Len(words)
  BY EmptySeq
<1> QED
  BY <1>1, SpelledSpells, SpelledHolds

\* With one slash between each two words a spelling is a weave.
LEMMA SpelledWeaves ==
  ASSUME NEW words \in Seq(Tokens)
  PROVE  Spelled(words, 1) \in Seq(Tokens) /\ Weaves(Spelled(words, 1), words, Len(words))
<1>1. Len(words) \in Nat
  BY LenProperties
<1>2. PICK path : Spells(path, words, 1) /\ Spelled(words, 1) = path[Len(words)]
  BY SpelledSpells
<1>3. \A k \in 1..Len(words) : Spelling(path[k], words, k)
  BY <1>2, SpelledHolds
<1> DEFINE T == {k \in Nat : k <= Len(words) => path[k] \in Seq(Tokens) /\ Weaves(path[k], words, k)}
<1>4. 0 \in T
  <2>1. path[0] = SubSeq(words, 1, 0)
    BY <1>1, <1>2 DEF Spells, Spell
  <2>2. path[0] = <<>>
    BY <2>1, SubSeqEmpty
  <2>3. path[0] \in Seq(Tokens) /\ Len(path[0]) = 0
    BY <2>2, EmptySeq
  <2> QED
    BY <2>3 DEF Weaves
<1>5. ASSUME NEW k \in Nat, k \in T PROVE k + 1 \in T
  <2>1. SUFFICES ASSUME k + 1 <= Len(words)
                 PROVE  path[k + 1] \in Seq(Tokens) /\ Weaves(path[k + 1], words, k + 1)
    OBVIOUS
  <2>2. k + 1 \in 0..Len(words) /\ k + 1 \in 1..Len(words) /\ (k + 1) - 1 = k
    BY <1>1, <2>1
  <2>3. path[k + 1] = Spell(words, 1, k + 1, path[k])
    BY <1>2, <2>2 DEF Spells
  <2>4. path[k] \in Seq(Tokens) /\ Weaves(path[k], words, k)
    BY <1>1, <1>5, <2>1
  <2>5. path[k + 1] \in Seq(Tokens)
    BY <1>3, <2>2 DEF Spelling
  <2>6. CASE k = 0
    <3>1. words # <<>>
      BY <1>1, <2>1
    <3>2. Spell(words, 1, 1, path[0]) = <<words[1]>>
      BY <3>1, SpellOne
    <3>3. path[k + 1] = <<words[1]>>
      BY <2>3, <2>6, <3>2
    <3> QED
      BY <2>5, <2>6, <3>3 DEF Weaves
  <2>7. CASE k # 0
    <3> DEFINE p == path[k]
               m == k + 1
    <3>1. m \in 2..Len(words) /\ m - 1 = k /\ k \in 1..Len(words) /\ m \in 1..Len(words)
      BY <1>1, <2>1, <2>7
    <3>2. Spelling(p, words, m - 1)
      BY <1>3, <3>1
    <3>3. p \o Slashes(1) \in Seq(Tokens) /\ path[m] = Append(p \o Slashes(1), words[m])
      <4> HIDE DEF p, m
      <4>1. path[m] = Spell(words, 1, m, p)
        BY <2>3 DEF p, m
      <4> QED
        BY <3>1, <3>2, <4>1, SpellMore
    <3>4. p \o Slashes(1) = Append(p, Slash)
      BY <2>4, SlashesOne, SchemeTokens, AppendIsConcat
    <3>5. words[m] \in Tokens
      BY <3>1, ElementOfSeq
    <3>6. /\ Append(p, Slash) \in Seq(Tokens) /\ Len(Append(p, Slash)) = 2 * k
          /\ \A i \in 1..(2 * k - 1) : Append(p, Slash)[i] = p[i]
          /\ Append(p, Slash)[2 * k] = Slash
      <4>1. Len(p) = 2 * k - 1 /\ Len(p) + 1 = 2 * k
        BY <2>4, <2>7 DEF Weaves
      <4> HIDE DEF p
      <4> QED
        BY <2>4, <4>1, SchemeTokens, AppendProperties DEF p
    <3> DEFINE q == Append(p, Slash)
    <3>7. /\ Len(path[m]) = 2 * k + 1
          /\ \A i \in 1..(2 * k) : path[m][i] = q[i]
          /\ path[m][2 * k + 1] = words[m]
      <4>1. q \in Seq(Tokens) /\ Len(q) = 2 * k /\ path[m] = Append(q, words[m])
        BY <3>3, <3>4, <3>6
      <4> HIDE DEF q, p, m
      <4> QED
        BY <3>5, <4>1, AppendProperties
    <3>8. \A i \in 1..(2 * k - 1) : path[m][i] = p[i]
      BY <3>6, <3>7
    <3>9. path[m][2 * k] = Slash
      BY <2>7, <3>6, <3>7
    <3> HIDE DEF p, q
    <3>10. ASSUME NEW i \in 1..m PROVE path[m][2 * i - 1] = words[i]
      <4>1. CASE i = m
        BY <3>1, <3>7, <4>1
      <4>2. CASE i # m
        <5>1. i \in 1..k /\ 2 * i - 1 \in 1..(2 * k - 1)
          BY <4>2
        <5>2. p[2 * i - 1] = words[i]
          BY <2>4, <5>1 DEF Weaves, p
        <5> QED
          BY <3>8, <5>1, <5>2
      <4> QED
        BY <4>1, <4>2
    <3>11. ASSUME NEW i \in 1..(m - 1) PROVE path[m][2 * i] = Slash
      <4>1. CASE i = k
        BY <3>9, <4>1
      <4>2. CASE i # k
        <5>1. i \in 1..(k - 1) /\ 2 * i \in 1..(2 * k - 1)
          BY <4>2
        <5>2. p[2 * i] = Slash
          BY <2>4, <5>1 DEF Weaves, p
        <5> QED
          BY <3>8, <5>1, <5>2
      <4> QED
        BY <4>1, <4>2
    <3>12. Len(path[m]) = 2 * m - 1 /\ m # 0
      BY <3>7
    <3>13. Weaves(path[m], words, m)
      BY <3>10, <3>11, <3>12 DEF Weaves
    <3> QED
      BY <2>5, <3>13
  <2> QED
    BY <2>6, <2>7
<1>6. Nat \subseteq T
  <2> HIDE DEF T
  <2> QED
    BY <1>4, <1>5, InductionNat
<1>7. path[Len(words)] \in Seq(Tokens) /\ Weaves(path[Len(words)], words, Len(words))
  BY <1>1, <1>6
<1> QED
  BY <1>2, <1>7

\* However many slashes are between the words, one remains.
LEMMA CollapseSpelled ==
  ASSUME NEW words \in Seq(Tokens), words # <<>>, NEW n \in Nat \ {0},
         \A i \in 1..Len(words) : words[i] # Slash
  PROVE  Collapse(Spelled(words, n)) = Spelled(words, 1)
<1>1. Len(words) \in Nat /\ Len(words) >= 1
  BY EmptySeq
<1>2. PICK p : Spells(p, words, n) /\ Spelled(words, n) = p[Len(words)]
  BY SpelledSpells
<1>3. PICK q : Spells(q, words, 1) /\ Spelled(words, 1) = q[Len(words)]
  BY SpelledSpells
<1>4. /\ \A k \in 1..Len(words) : Spelling(p[k], words, k)
      /\ \A k \in 1..Len(words) : Spelling(q[k], words, k)
  BY <1>2, <1>3, SpelledHolds
<1> DEFINE T == {k \in Nat : k + 1 <= Len(words) => Collapse(p[k + 1]) = q[k + 1]}
<1>5. 0 \in T
  <2>1. p[1] = <<words[1]>> /\ q[1] = <<words[1]>>
    <3>1. p[1] = Spell(words, n, 1, p[1 - 1]) /\ q[1] = Spell(words, 1, 1, q[1 - 1])
      BY <1>1, <1>2, <1>3 DEF Spells
    <3> QED
      BY <3>1, SpellOne
  <2>2. words[1] \in Tokens /\ words[1] # Slash
    BY <1>1, ElementOfSeq
  <2>3. <<>> \in Seq(Tokens) /\ Append(<<>>, words[1]) = <<words[1]>>
    BY <2>2, EmptySeq
  <2>4. Collapse(<<words[1]>>) = <<words[1]>>
    BY <2>2, <2>3, CollapseWord, CollapseEmpty
  <2> QED
    BY <2>1, <2>4
<1>6. ASSUME NEW k \in Nat, k \in T PROVE k + 1 \in T
  <2>1. SUFFICES ASSUME k + 1 + 1 <= Len(words) PROVE Collapse(p[k + 1 + 1]) = q[k + 1 + 1]
    OBVIOUS
  <2> DEFINE m == k + 1 + 1
             a == p[m - 1]
             b == q[m - 1]
  <2>2. /\ m \in 0..Len(words) /\ m \in 1..Len(words) /\ m \in 2..Len(words)
        /\ m - 1 = k + 1 /\ m - 1 \in 1..Len(words)
    BY <1>1, <2>1
  <2>3. Collapse(a) = b
    BY <1>6, <2>1, <2>2
  <2>4. p[m] = Spell(words, n, m, a) /\ q[m] = Spell(words, 1, m, b)
    BY <1>2, <1>3, <2>2 DEF Spells
  <2>5. Spelling(a, words, m - 1) /\ Spelling(b, words, m - 1)
    BY <1>4, <2>2
  <2> HIDE DEF m, a, b
  <2>6. /\ a \o Slashes(n) \in Seq(Tokens) /\ p[m] = Append(a \o Slashes(n), words[m])
        /\ b \o Slashes(1) \in Seq(Tokens) /\ q[m] = Append(b \o Slashes(1), words[m])
    BY <2>2, <2>4, <2>5, SpellMore
  <2>7. words[m] \in Tokens /\ words[m] # Slash
    BY <2>2, ElementOfSeq
  <2>8. Collapse(p[m]) = Append(Collapse(a \o Slashes(n)), words[m])
    BY <2>6, <2>7, CollapseWord
  <2>9. a \in Seq(Tokens) /\ b \in Seq(Tokens) /\ b # <<>> /\ Last(b) # Slash
    BY <2>2, <2>5 DEF Spelling
  <2>10. Collapse(a \o Slashes(n)) = Append(b, Slash)
    BY <2>3, <2>9, CollapseSlashes
  <2>11. b \o Slashes(1) = Append(b, Slash)
    BY <2>9, SlashesOne, SchemeTokens, AppendIsConcat
  <2>12. Collapse(p[m]) = q[m]
    BY <2>6, <2>8, <2>10, <2>11
  <2> QED
    BY <2>12 DEF m
<1>7. Nat \subseteq T
  <2> HIDE DEF T
  <2> QED
    BY <1>5, <1>6, InductionNat
<1>8. Len(words) - 1 \in T /\ (Len(words) - 1) + 1 = Len(words)
  BY <1>1, <1>7
<1> QED
  BY <1>1, <1>2, <1>3, <1>8

\* Slashes in front go, and of those at the end one stays.
LEMMA TruePathOf ==
  ASSUME NEW s \in Seq(Tokens), s # <<>>, s[1] # Slash, Last(s) # Slash,
         NEW front \in Nat, NEW end \in Nat
  PROVE  LET p == Slashes(front) \o s \o Slashes(end) IN
         /\ SelectInSeq(p, IsWord) = front + 1
         /\ SelectLastInSeq(p, IsWord) = front + Len(s)
         /\ TruePath(p) = IF end = 0 THEN s ELSE Append(s, Slash)
<1> DEFINE p == (Slashes(front) \o s) \o Slashes(end)
           n == Len(s)
<1>1. n \in Nat /\ n >= 1 /\ s[n] # Slash
  BY EmptySeq DEF Last
<1>2. /\ Slashes(front) \in Seq(Tokens) /\ Len(Slashes(front)) = front
      /\ \A i \in 1..front : Slashes(front)[i] = Slash
      /\ Slashes(end) \in Seq(Tokens) /\ Len(Slashes(end)) = end
      /\ \A i \in 1..end : Slashes(end)[i] = Slash
  BY SlashesAre
<1> DEFINE q == Slashes(front) \o s
<1>3. /\ q \in Seq(Tokens) /\ Len(q) = front + n
      /\ \A i \in 1..(front + n) : q[i] = IF i <= front THEN Slashes(front)[i] ELSE s[i - front]
  <2> DEFINE f == Slashes(front)
  <2>1. /\ f \o s \in Seq(Tokens) /\ Len(f \o s) = Len(f) + Len(s)
        /\ \A i \in 1..(Len(f) + Len(s)) : (f \o s)[i] = IF i <= Len(f) THEN f[i] ELSE s[i - Len(f)]
    BY <1>2, ConcatProperties
  <2> QED
    BY <1>2, <2>1
<1> HIDE DEF q
<1>4. /\ q \o Slashes(end) \in Seq(Tokens) /\ Len(q \o Slashes(end)) = front + n + end
      /\ \A i \in 1..(front + n + end) :
           (q \o Slashes(end))[i] = IF i <= front + n THEN q[i] ELSE Slashes(end)[i - (front + n)]
  <2> DEFINE e == Slashes(end)
  <2>1. /\ q \o e \in Seq(Tokens) /\ Len(q \o e) = Len(q) + Len(e)
        /\ \A i \in 1..(Len(q) + Len(e)) : (q \o e)[i] = IF i <= Len(q) THEN q[i] ELSE e[i - Len(q)]
    BY <1>2, <1>3, ConcatProperties
  <2> QED
    BY <1>2, <1>3, <2>1
<1>5. p = q \o Slashes(end)
  BY DEF q
<1> HIDE DEF p
<1>6. p \in Seq(Tokens) /\ Len(p) = front + n + end
  BY <1>4, <1>5
<1>7. ASSUME NEW i \in 1..front PROVE p[i] = Slash
  <2>1. i \in 1..(front + n + end) /\ i \in 1..(front + n) /\ i <= front + n /\ i <= front
    BY <1>1
  <2> QED
    BY <1>2, <1>3, <1>4, <1>5, <2>1
<1>8. ASSUME NEW i \in 1..n PROVE p[front + i] = s[i]
  <2>1. /\ front + i \in 1..(front + n + end) /\ front + i \in 1..(front + n)
        /\ front + i <= front + n /\ ~(front + i <= front) /\ (front + i) - front = i
    BY <1>1
  <2>2. p[front + i] = q[front + i]
    BY <1>4, <1>5, <2>1
  <2>3. q[front + i] = s[(front + i) - front]
    BY <1>3, <2>1
  <2> QED
    BY <2>1, <2>2, <2>3
<1>9. ASSUME NEW i \in (front + n + 1)..Len(p) PROVE p[i] = Slash
  <2>1. i \in 1..(front + n + end) /\ ~(i <= front + n) /\ i - (front + n) \in 1..end
    BY <1>1, <1>6
  <2> QED
    BY <1>2, <1>4, <1>5, <2>1
<1>10. SelectInSeq(p, IsWord) = front + 1
  <2>1. front + 1 \in 1..Len(p) /\ Len(p) \in Nat /\ (front + 1) - 1 = front
    BY <1>1, <1>6
  <2>2. IsWord(p[front + 1])
    BY <1>1, <1>8 DEF IsWord
  <2>3. \A j \in 1..((front + 1) - 1) : ~IsWord(p[j])
    BY <1>7, <2>1 DEF IsWord
  <2> QED
    BY <2>1, <2>2, <2>3, FirstWord
<1>11. SelectLastInSeq(p, IsWord) = front + n
  <2>1. front + n \in 1..Len(p) /\ Len(p) \in Nat
    BY <1>1, <1>6
  <2>2. IsWord(p[front + n])
    BY <1>1, <1>8 DEF IsWord
  <2>3. \A j \in (front + n + 1)..Len(p) : ~IsWord(p[j])
    BY <1>9 DEF IsWord
  <2> QED
    BY <2>1, <2>2, <2>3, LastWord
<1> DEFINE last == IF end = 0 THEN front + n ELSE front + n + 1
<1>12. Min({front + n + 1, Len(p)}) = last
  <2> DEFINE T == {front + n + 1, Len(p)}
  <2>1. T \subseteq Nat /\ T # {}
    BY <1>1, <1>6
  <2>2. Min(T) \in T /\ \A y \in T : Min(T) <= y
    <3> HIDE DEF T
    <3> QED
      BY <2>1, MinOf
  <2> QED
    BY <1>1, <1>6, <2>2
<1>13. TruePath(p) = SubSeq(p, front + 1, last)
  BY <1>10, <1>11, <1>12 DEF TruePath
<1> DEFINE r == IF end = 0 THEN s ELSE Append(s, Slash)
<1>14. /\ r \in Seq(Tokens) /\ Len(r) = last - (front + 1) + 1
       /\ \A i \in 1..n : r[i] = s[i]
       /\ end # 0 => r[n + 1] = Slash
  BY <1>1, SchemeTokens, AppendProperties
<1>15. front + 1 \in Int /\ last \in Int /\ front + 1 <= last /\ last \in 1..Len(p)
  BY <1>1, <1>6
<1> HIDE DEF r
<1>16. /\ SubSeq(p, front + 1, last) \in Seq(Tokens)
       /\ Len(SubSeq(p, front + 1, last)) = last - (front + 1) + 1
       /\ \A i \in 1..(last - (front + 1) + 1) :
            SubSeq(p, front + 1, last)[i] = p[front + 1 + i - 1]
  <2>1. \A i \in (front + 1)..last : p[i] \in Tokens
    BY <1>6, <1>15, ElementOfSeq
  <2> HIDE DEF last
  <2> QED
    BY <1>15, <2>1, SubSeqProperties
<1>17. ASSUME NEW i \in 1..Len(r) PROVE SubSeq(p, front + 1, last)[i] = r[i]
  <2>1. SubSeq(p, front + 1, last)[i] = p[front + i] /\ front + 1 + i - 1 = front + i
    <3>1. i \in 1..(last - (front + 1) + 1) /\ front + 1 + i - 1 = front + i
      BY <1>14
    <3> QED
      BY <1>16, <3>1
  <2>2. CASE i \in 1..n
    BY <1>8, <1>14, <2>1, <2>2
  <2>3. CASE i \notin 1..n
    <3>1. end # 0 /\ i = n + 1 /\ front + n + 1 \in (front + n + 1)..Len(p) /\ front + i = front + n + 1
      BY <1>1, <1>6, <1>14, <2>3
    <3> QED
      BY <1>9, <1>14, <2>1, <3>1
  <2> QED
    BY <2>2, <2>3
<1>18. TruePath(p) = r
  <2> HIDE DEF last
  <2> QED
    BY <1>13, <1>14, <1>16, <1>17, SeqEqual
<1> QED
  BY <1>10, <1>11, <1>18 DEF p, r

(***************************************************************************)
(* Addresses.                                                              *)
(***************************************************************************)
LEMMA PlainConcat ==
  ASSUME NEW p, Plain(p), NEW q, Plain(q)
  PROVE  Plain(p \o q)
<1>1. p \in Seq(Tokens) /\ q \in Seq(Tokens) /\ Len(p) \in Nat /\ Len(q) \in Nat
  BY LenProperties DEF Plain
<1>2. /\ p \o q \in Seq(Tokens) /\ Len(p \o q) = Len(p) + Len(q)
      /\ \A i \in 1..(Len(p) + Len(q)) : (p \o q)[i] = IF i <= Len(p) THEN p[i] ELSE q[i - Len(p)]
  BY <1>1, ConcatProperties
<1>3. ASSUME NEW i \in 1..Len(p \o q)
      PROVE  (p \o q)[i] \notin {S3[1], Https[1], Http[1]}
  <2>1. CASE i <= Len(p)
    <3>1. (p \o q)[i] = p[i] /\ i \in 1..Len(p)
      BY <1>1, <1>2, <2>1
    <3> QED
      BY <3>1 DEF Plain
  <2>2. CASE i > Len(p)
    <3>1. (p \o q)[i] = q[i - Len(p)] /\ i - Len(p) \in 1..Len(q)
      BY <1>1, <1>2, <2>2
    <3> QED
      BY <3>1 DEF Plain
  <2> QED
    BY <1>1, <1>2, <2>1, <2>2
<1> QED
  BY <1>2, <1>3 DEF Plain

LEMMA PlainSlashes ==
  ASSUME NEW n \in Nat
  PROVE  Plain(Slashes(n))
BY SlashesAre, SchemeTokens DEF Plain

\* The words of an address.
Words(a) == a.host \o a.words

LEMMA AddressWords ==
  ASSUME NEW a \in Addresses
  PROVE  /\ a.scheme \in Schemes /\ a.host \in Seq(Tokens) /\ a.words \in Seq(Tokens)
         /\ Words(a) \in Seq(Tokens) /\ Len(Words(a)) = Len(a.host) + Len(a.words)
         /\ \A i \in 1..Len(Words(a)) : Words(a)[i] \notin {Slash, S3[1], Https[1], Http[1]}
         /\ \A i \in 1..Len(a.words) : a.words[i] \in Segments
<1>1. a.scheme \in Schemes
  BY AddressAssumption DEF Schemes
<1>2. a.words \in Seq(Segments) /\ Len(a.words) \in Nat
  BY AddressAssumption, LenProperties
<1>3. Hosts \subseteq Tokens /\ Segments \subseteq Tokens
  BY DEF Tokens
<1>4. a.words \in Seq(Tokens)
  BY <1>2, <1>3, SeqMonotonic
<1>5. a.host \in Seq(Hosts)
  <2>1. CASE a.host = <<>>
    BY <2>1, EmptySeq
  <2>2. CASE \E h \in Hosts : a.host = <<h>>
    BY <2>2
  <2> QED
    BY <2>1, <2>2, AddressAssumption
<1>6. a.host \in Seq(Tokens)
  BY <1>3, <1>5, SeqMonotonic
<1>7. a.host \in Seq(Hosts \cup Segments) /\ a.words \in Seq(Hosts \cup Segments)
  <2>1. Hosts \subseteq Hosts \cup Segments /\ Segments \subseteq Hosts \cup Segments
    OBVIOUS
  <2> QED
    BY <1>2, <1>5, <2>1, SeqMonotonic
<1>8. Words(a) \in Seq(Hosts \cup Segments) /\ Len(Words(a)) = Len(a.host) + Len(a.words)
  BY <1>7, ConcatProperties DEF Words
<1>9. Words(a) \in Seq(Tokens)
  BY <1>4, <1>6, ConcatProperties DEF Words
<1>10. \A i \in 1..Len(Words(a)) : Words(a)[i] \in Hosts \cup Segments
  BY <1>8, ElementOfSeq
<1>11. \A i \in 1..Len(Words(a)) : Words(a)[i] \notin {Slash, S3[1], Https[1], Http[1]}
  BY <1>10, WordAssumption
<1>12. \A i \in 1..Len(a.words) : a.words[i] \in Segments
  BY <1>2, ElementOfSeq
<1> QED
  BY <1>1, <1>4, <1>6, <1>8, <1>9, <1>11, <1>12

LEMMA SpelledPlain ==
  ASSUME NEW a \in Addresses, NEW n \in Nat
  PROVE  Plain(Spelled(Words(a), n))
<1> DEFINE w == Words(a)
<1>1. w \in Seq(Tokens) /\ \A i \in 1..Len(w) : w[i] \notin {S3[1], Https[1], Http[1]}
  BY AddressWords
<1> HIDE DEF w
<1>2. CASE w = <<>>
  <2>1. Spelled(w, n) = <<>>
    BY <1>2, SpelledNone
  <2> QED
    BY <2>1, EmptySeq DEF Plain, w
<1>3. CASE w # <<>>
  <2>1. Spelling(Spelled(w, n), w, Len(w))
    BY <1>1, <1>3, SpelledIs
  <2>2. Plain(Spelled(w, n))
    BY <1>1, <2>1, SchemeTokens DEF Spelling, Plain
  <2> QED
    BY <2>2 DEF w
<1> QED
  BY <1>2, <1>3

\* An address as typed, between its scheme and its end.
TypedPath(a, front, between, end) ==
  Slashes(front) \o Spelled(Words(a), between) \o Slashes(end)

LEMMA TypedIs ==
  ASSUME NEW a \in Addresses, NEW front \in Nat, NEW between \in Nat, NEW end \in Nat
  PROVE  /\ Typed(a, front, between, end) = S3 \o a.scheme \o TypedPath(a, front, between, end)
         /\ Plain(TypedPath(a, front, between, end))
<1> DEFINE f == Slashes(front)
           s == Spelled(Words(a), between)
           e == Slashes(end)
           x == S3 \o a.scheme
<1>1. Plain(f) /\ Plain(s) /\ Plain(e)
  BY PlainSlashes, SpelledPlain
<1>2. f \in Seq(Tokens) /\ s \in Seq(Tokens) /\ e \in Seq(Tokens) /\ x \in Seq(Tokens)
  <2>1. a.scheme \in Seq(Tokens)
    BY AddressWords, SchemesType
  <2> QED
    BY <1>1, <2>1, SchemeTokens, ConcatProperties DEF Plain
<1>3. Typed(a, front, between, end) = ((x \o f) \o s) \o e
  BY DEF Typed, Words
<1>4. TypedPath(a, front, between, end) = (f \o s) \o e
  BY DEF TypedPath
<1> HIDE DEF f, s, e, x
<1>5. f \o s \in Seq(Tokens)
  BY <1>2, ConcatProperties
<1>6. (x \o f) \o s = x \o (f \o s)
  BY <1>2, ConcatAssociative
<1>7. (x \o (f \o s)) \o e = x \o ((f \o s) \o e)
  <2> DEFINE y == f \o s
  <2>1. y \in Seq(Tokens)
    BY <1>5
  <2> HIDE DEF y
  <2>2. (x \o y) \o e = x \o (y \o e)
    BY <1>2, <2>1, ConcatAssociative
  <2> QED
    BY <2>2 DEF y
<1>8. Plain((f \o s) \o e)
  BY <1>1, PlainConcat
<1>9. Typed(a, front, between, end) = x \o TypedPath(a, front, between, end)
  BY <1>3, <1>4, <1>6, <1>7
<1> QED
  BY <1>4, <1>8, <1>9 DEF x

\* An address is refused only when it has no word.
LEMMA NoBucketOf ==
  ASSUME NEW a \in Addresses, NEW front \in Nat, NEW between \in Nat, NEW end \in Nat
  PROVE  NoBucket(Typed(a, front, between, end)) <=> Words(a) = <<>>
<1> DEFINE q == TypedPath(a, front, between, end)
           p == Typed(a, front, between, end)
<1>1. Path(p) = q
  <2>1. p = S3 \o a.scheme \o q /\ Plain(q) /\ a.scheme \in Schemes
    BY TypedIs, AddressWords
  <2> HIDE DEF p, q
  <2> QED
    BY <2>1, PathOf
<1>2. CASE Words(a) = <<>>
  <2>1. Slashes(front) \in Seq(Tokens) /\ Slashes(end) \in Seq(Tokens)
    BY SlashesAre
  <2>2. q = Slashes(front) \o Slashes(end)
    BY <1>2, <2>1, SpelledNone, ConcatEmptySeq DEF TypedPath
  <2>3. \A i \in 1..Len(q) : q[i] = Slash
    <3> DEFINE f == Slashes(front)
               e == Slashes(end)
    <3>1. /\ Len(f \o e) = Len(f) + Len(e)
          /\ \A i \in 1..(Len(f) + Len(e)) : (f \o e)[i] = IF i <= Len(f) THEN f[i] ELSE e[i - Len(f)]
      BY <2>1, ConcatProperties
    <3>2. /\ Len(f) = front /\ Len(e) = end
          /\ \A i \in 1..front : f[i] = Slash
          /\ \A i \in 1..end : e[i] = Slash
      BY SlashesAre
    <3> HIDE DEF f, e
    <3>3. ASSUME NEW i \in 1..(front + end) PROVE (f \o e)[i] = Slash
      BY <3>1, <3>2
    <3> QED
      BY <2>2, <3>1, <3>2, <3>3 DEF f, e
  <2>4. SelectInSeq(q, IsWord) = 0
    <3>1. \A i \in 1..Len(q) : ~IsWord(q[i])
      BY <2>3 DEF IsWord
    <3> HIDE DEF q
    <3> QED
      BY <3>1, NoWord
  <2> QED
    BY <1>1, <1>2, <2>4 DEF NoBucket
<1>3. CASE Words(a) # <<>>
  <2>1. Spelling(Spelled(Words(a), between), Words(a), Len(Words(a)))
    BY <1>3, AddressWords, SpelledIs
  <2>2. /\ Words(a)[1] # Slash /\ Words(a)[Len(Words(a))] # Slash
    <3>1. Len(Words(a)) \in 1..Len(Words(a)) /\ 1 \in 1..Len(Words(a))
      BY <1>3, AddressWords, EmptySeq
    <3> QED
      BY <3>1, AddressWords
  <2> DEFINE s == Spelled(Words(a), between)
  <2>3. s \in Seq(Tokens) /\ s # <<>> /\ s[1] # Slash /\ Last(s) # Slash
    BY <2>1, <2>2 DEF Spelling
  <2>4. q = Slashes(front) \o s \o Slashes(end)
    BY DEF TypedPath
  <2> HIDE DEF q, s
  <2>5. SelectInSeq(q, IsWord) = front + 1
    BY <2>3, <2>4, TruePathOf
  <2> QED
    BY <1>1, <1>3, <2>5 DEF NoBucket, q
<1> QED
  BY <1>2, <1>3

\* What cleaning makes of an address: one slash between each two words, and at most one
\* at the end.
CleanWords(a, end) ==
  IF end = 0 THEN Spelled(Words(a), 1) ELSE Append(Spelled(Words(a), 1), Slash)

LEMMA CleanTyped ==
  ASSUME NEW a \in Addresses, NEW front \in Nat, NEW between \in Nat \ {0}, NEW end \in Nat,
         Words(a) # <<>>
  PROVE  /\ clean_path(Typed(a, front, between, end)) = S3 \o a.scheme \o CleanWords(a, end)
         /\ Plain(CleanWords(a, end))
<1> DEFINE w == Words(a)
           s == Spelled(w, between)
           one == Spelled(w, 1)
           q == TypedPath(a, front, between, end)
           p == Typed(a, front, between, end)
<1>1. between \in Nat /\ 1 \in Nat
  OBVIOUS
<1>2. w \in Seq(Tokens) /\ \A i \in 1..Len(w) : w[i] # Slash
  BY AddressWords
<1>3. Len(w) \in 1..Len(w) /\ 1 \in 1..Len(w)
  BY <1>2, EmptySeq
<1>4. Spelling(s, w, Len(w)) /\ Spelling(one, w, Len(w))
  BY <1>1, <1>2, SpelledIs
<1>5. /\ s \in Seq(Tokens) /\ s # <<>> /\ s[1] # Slash /\ Last(s) # Slash
      /\ one \in Seq(Tokens) /\ one # <<>> /\ Last(one) # Slash
  BY <1>2, <1>3, <1>4 DEF Spelling
<1>6. Collapse(s) = one
  BY <1>2, CollapseSpelled
<1>7. q = Slashes(front) \o s \o Slashes(end)
  BY DEF TypedPath
<1>8. /\ Find(p, S3) = 1 /\ Protocol(p) = a.scheme /\ Path(p) = q
  <2>1. p = S3 \o a.scheme \o q /\ Plain(q) /\ a.scheme \in Schemes
    BY <1>1, TypedIs, AddressWords
  <2> HIDE DEF p, q
  <2> QED
    BY <2>1, PathOf
<1>9. Plain(one)
  BY SpelledPlain
<1> HIDE DEF w, s, one, q, p
<1>10. TruePath(q) = IF end = 0 THEN s ELSE Append(s, Slash)
  BY <1>5, <1>7, TruePathOf
<1>11. Collapse(Append(s, Slash)) = Append(one, Slash)
  <2>1. Collapse(Append(s, Slash)) = Keep(one, Slash)
    BY <1>5, <1>6, SchemeTokens, CollapseAppend
  <2> QED
    BY <1>5, <2>1 DEF Keep
<1>12. Collapse(TruePath(q)) = CleanWords(a, end)
  BY <1>6, <1>10, <1>11 DEF CleanWords, one, w
<1>13. clean_path(p) = S3 \o a.scheme \o CleanWords(a, end)
  BY <1>8, <1>12 DEF clean_path
<1>14. Plain(Append(one, Slash))
  <2>1. Append(one, Slash) = one \o <<Slash>> /\ Slashes(1) = <<Slash>>
    BY <1>5, SchemeTokens, AppendIsConcat, SlashesOne
  <2>2. Plain(Slashes(1))
    BY PlainSlashes
  <2> QED
    BY <1>9, <2>1, <2>2, PlainConcat
<1> QED
  BY <1>9, <1>13, <1>14 DEF CleanWords, one, w, p

\* Taking d words and their slashes off the front.
LEMMA DropWords ==
  ASSUME NEW p \in Seq(Tokens), NEW w, NEW m \in Nat, Weaves(p, w, m), NEW d \in 1..m,
         NEW v, \A i \in 1..(m - d) : v[i] = w[i + d]
  PROVE  /\ SubSeq(p, 2 * d + 1, Len(p)) \in Seq(Tokens)
         /\ Weaves(SubSeq(p, 2 * d + 1, Len(p)), v, m - d)
<1> DEFINE r == SubSeq(p, 2 * d + 1, Len(p))
           k == m - d
<1>1. m # 0 /\ Len(p) = 2 * m - 1 /\ k \in Nat
  BY DEF Weaves
<1>2. /\ r \in Seq(Tokens)
      /\ Len(r) = IF 2 * d + 1 <= Len(p) THEN Len(p) - (2 * d + 1) + 1 ELSE 0
      /\ \A i \in 1..(Len(p) - (2 * d + 1) + 1) : r[i] = p[2 * d + 1 + i - 1]
  <2>1. \A i \in (2 * d + 1)..Len(p) : p[i] \in Tokens
    BY <1>1, ElementOfSeq
  <2>2. 2 * d + 1 \in Int /\ Len(p) \in Int
    BY <1>1
  <2> QED
    BY <2>1, <2>2, SubSeqProperties
<1> HIDE DEF r
<1>3. Len(r) = IF k = 0 THEN 0 ELSE 2 * k - 1
  BY <1>1, <1>2
<1>4. ASSUME NEW i \in 1..k PROVE r[2 * i - 1] = v[i]
  <2>1. /\ 2 * i - 1 \in 1..(Len(p) - (2 * d + 1) + 1) /\ i + d \in 1..m
        /\ 2 * d + 1 + (2 * i - 1) - 1 = 2 * (i + d) - 1
    BY <1>1
  <2>2. r[2 * i - 1] = p[2 * (i + d) - 1]
    BY <1>2, <2>1
  <2> QED
    BY <2>1, <2>2 DEF Weaves
<1>5. ASSUME NEW i \in 1..(k - 1) PROVE r[2 * i] = Slash
  <2>1. /\ 2 * i \in 1..(Len(p) - (2 * d + 1) + 1) /\ i + d \in 1..(m - 1)
        /\ 2 * d + 1 + 2 * i - 1 = 2 * (i + d)
    BY <1>1
  <2>2. r[2 * i] = p[2 * (i + d)]
    BY <1>2, <2>1
  <2> QED
    BY <2>1, <2>2 DEF Weaves
<1>6. Weaves(r, v, k)
  BY <1>3, <1>4, <1>5 DEF Weaves
<1> QED
  BY <1>2, <1>6 DEF r

\* The prefix of a repository: its directories, perhaps with a slash at the end.
Directory(prefix, words) ==
  \/ prefix = Spelled(Tail(words), 1)
  \/ Len(words) > 1 /\ prefix = Append(Spelled(Tail(words), 1), Slash)

\* What Config is to make of an address.
Understood(a, c) ==
  /\ c.bucket = a.words[1]
  /\ c.endpoint = IF a.host = <<>> THEN Aws
                  ELSE (IF a.scheme = Https THEN Https ELSE Http) \o a.host
  /\ Directory(c.prefix, a.words)

\* Without an endpoint the bucket is the first word.
LEMMA ParseAws ==
  ASSUME NEW a \in Addresses, a.host = <<>>, a.words # <<>>,
         NEW front \in Nat, NEW between \in Nat \ {0}, NEW end \in Nat
  PROVE  Understood(a, parse_path(Typed(a, front, between, end)))
<1> DEFINE w == a.words
           c == CleanWords(a, end)
           p == Typed(a, front, between, end)
           s == Spelled(w, 1)
           n == Len(w)
           t == SubSeq(s, 3, Len(s))
<1>1. a.scheme = <<>> /\ a.scheme \in Schemes
  <2>1. \A h \in Hosts : <<h>> # <<>>
    OBVIOUS
  <2> QED
    BY <2>1, AddressAssumption, AddressWords
<1>2. w \in Seq(Tokens) /\ n \in Nat /\ n >= 1 /\ w[1] \in Segments
  <2>1. w \in Seq(Tokens) /\ \A i \in 1..n : w[i] \in Segments
    BY AddressWords
  <2>2. n \in Nat /\ n >= 1
    BY <2>1, EmptySeq
  <2> QED
    BY <2>1, <2>2
<1>3. Words(a) = w
  BY <1>2, ConcatEmptySeq DEF Words
<1>4. clean_path(p) = S3 \o a.scheme \o c /\ Plain(c) /\ c \in Seq(Tokens)
  BY <1>2, <1>3, CleanTyped DEF Plain
<1>5. s \in Seq(Tokens) /\ Weaves(s, w, n)
  BY <1>2, SpelledWeaves
<1>6. Tail(w) \in Seq(Tokens) /\ Len(Tail(w)) = n - 1 /\ \A i \in 1..(n - 1) : Tail(w)[i] = w[i + 1]
  BY <1>2, HeadTailProperties
<1>7. t = Spelled(Tail(w), 1) /\ t \in Seq(Tokens)
  <2>1. t \in Seq(Tokens) /\ Weaves(t, Tail(w), n - 1)
    <3> DEFINE v == Tail(w)
    <3>1. 1 \in 1..n /\ \A i \in 1..(n - 1) : v[i] = w[i + 1]
      BY <1>2, <1>6
    <3> HIDE DEF s, n, w, v
    <3>2. /\ SubSeq(s, 2 * 1 + 1, Len(s)) \in Seq(Tokens)
          /\ Weaves(SubSeq(s, 2 * 1 + 1, Len(s)), v, n - 1)
      BY <1>2, <1>5, <3>1, DropWords
    <3>3. 2 * 1 + 1 = 3
      OBVIOUS
    <3> QED
      BY <3>2, <3>3 DEF v
  <2>2. Spelled(Tail(w), 1) \in Seq(Tokens) /\ Weaves(Spelled(Tail(w), 1), Tail(w), n - 1)
    BY <1>6, SpelledWeaves
  <2> HIDE DEF t, n, w
  <2> QED
    BY <1>2, <2>1, <2>2, WeavesUnique
<1>8. c = IF end = 0 THEN s ELSE Append(s, Slash)
  BY <1>3 DEF CleanWords
<1>9. Len(s) = 2 * n - 1 /\ s[1] = w[1]
  <2> HIDE DEF s, n, w
  <2>1. Len(s) = 2 * n - 1 /\ \A i \in 1..n : s[2 * i - 1] = w[i]
    BY <1>2, <1>5 DEF Weaves
  <2>2. 1 \in 1..n /\ 2 * 1 - 1 = 1
    BY <1>2
  <2> QED
    BY <2>1, <2>2
<1> HIDE DEF w, c, p, s, n, t
<1>10. /\ c[1] = w[1] /\ c # <<>>
       /\ end = 0 => Len(c) = Len(s)
       /\ end # 0 => Len(c) = Len(s) + 1 /\ c[Len(s) + 1] = Slash
       /\ \A i \in 1..Len(s) : c[i] = s[i]
  <2>1. CASE end = 0
    BY <1>2, <1>5, <1>8, <1>9, <2>1, EmptySeq
  <2>2. CASE end # 0
    BY <1>2, <1>5, <1>8, <1>9, <2>2, SchemeTokens, AppendProperties
  <2> QED
    BY <2>1, <2>2
<1>11. /\ After(clean_path(p), S3) = c /\ Path(clean_path(p)) = c
  <2>1. After(clean_path(p), S3) = a.scheme \o c /\ Path(clean_path(p)) = c
    BY <1>1, <1>4, PathOf
  <2> QED
    BY <1>1, <1>4, <2>1, ConcatEmptySeq
<1>12. ~MatchesRegex(c)
  BY <1>2, <1>10, WordAssumption DEF MatchesRegex
<1>13. parse_path(p) = [endpoint |-> Aws, bucket |-> c[1], prefix |-> SubSeq(c, 3, Len(c))]
  BY <1>11, <1>12 DEF parse_path
<1>14. SubSeq(c, 3, Len(c)) = t \/ (n > 1 /\ SubSeq(c, 3, Len(c)) = Append(t, Slash))
  <2>1. CASE end = 0
    BY <1>8, <2>1 DEF t
  <2>2. CASE end # 0 /\ n = 1
    <3>1. Len(c) = 2 /\ Len(s) = 1
      BY <1>9, <1>10, <2>2
    <3>2. SubSeq(c, 3, Len(c)) = <<>> /\ t = <<>>
      BY <3>1, SubSeqEmpty DEF t
    <3> QED
      BY <3>2
  <2>3. CASE end # 0 /\ n > 1
    <3>1. Len(c) = 2 * n /\ Len(s) = 2 * n - 1 /\ 3 <= Len(s)
      BY <1>2, <1>9, <1>10, <2>3
    <3>2. /\ SubSeq(c, 3, Len(c)) \in Seq(Tokens) /\ Len(SubSeq(c, 3, Len(c))) = 2 * n - 2
          /\ \A i \in 1..(2 * n - 2) : SubSeq(c, 3, Len(c))[i] = c[i + 2]
      <4>1. \A i \in 3..Len(c) : c[i] \in Tokens
        BY <1>2, <1>4, <3>1, ElementOfSeq
      <4>2. /\ SubSeq(c, 3, Len(c)) \in Seq(Tokens)
            /\ Len(SubSeq(c, 3, Len(c))) = IF 3 <= Len(c) THEN Len(c) - 3 + 1 ELSE 0
            /\ \A i \in 1..(Len(c) - 3 + 1) : SubSeq(c, 3, Len(c))[i] = c[3 + i - 1]
        BY <1>2, <3>1, <4>1, SubSeqProperties
      <4>3. \A i \in 1..(2 * n - 2) : 3 + i - 1 = i + 2 /\ i \in 1..(Len(c) - 3 + 1)
        BY <1>2, <3>1
      <4> QED
        BY <1>2, <3>1, <4>2, <4>3
    <3>3. /\ Len(t) = 2 * n - 3
          /\ \A i \in 1..(2 * n - 3) : t[i] = s[i + 2]
      <4>1. \A i \in 3..Len(s) : s[i] \in Tokens
        BY <1>2, <1>5, <3>1, ElementOfSeq
      <4>2. /\ Len(t) = IF 3 <= Len(s) THEN Len(s) - 3 + 1 ELSE 0
            /\ \A i \in 1..(Len(s) - 3 + 1) : t[i] = s[3 + i - 1]
        BY <1>2, <3>1, <4>1, SubSeqProperties DEF t
      <4>3. \A i \in 1..(2 * n - 3) : 3 + i - 1 = i + 2 /\ i \in 1..(Len(s) - 3 + 1)
        BY <1>2, <3>1
      <4> QED
        BY <1>2, <3>1, <4>2, <4>3
    <3>4. /\ Append(t, Slash) \in Seq(Tokens) /\ Len(Append(t, Slash)) = 2 * n - 2
          /\ \A i \in 1..(2 * n - 3) : Append(t, Slash)[i] = t[i]
          /\ Append(t, Slash)[2 * n - 2] = Slash
      <4>1. Len(t) + 1 = 2 * n - 2
        BY <1>2, <3>3
      <4> QED
        BY <1>7, <3>3, <4>1, SchemeTokens, AppendProperties
    <3>5. ASSUME NEW i \in 1..(2 * n - 2) PROVE SubSeq(c, 3, Len(c))[i] = Append(t, Slash)[i]
      <4>1. CASE i = 2 * n - 2
        <5>1. i + 2 = Len(s) + 1
          BY <1>2, <3>1, <4>1
        <5> QED
          BY <1>10, <2>3, <3>2, <3>4, <4>1, <5>1
      <4>2. CASE i # 2 * n - 2
        <5>1. i \in 1..(2 * n - 3) /\ i + 2 \in 1..Len(s)
          BY <1>2, <3>1, <4>2
        <5> QED
          BY <1>10, <3>2, <3>3, <3>4, <5>1
      <4> QED
        BY <4>1, <4>2
    <3> QED
      BY <2>3, <3>2, <3>4, <3>5, SeqEqual
  <2> QED
    BY <1>2, <2>1, <2>2, <2>3
<1> QED
  BY <1>7, <1>10, <1>13, <1>14 DEF Understood, Directory, w, n, p

\* With an endpoint, and no slash at the end, the expression matches.
LEMMA ParseHost ==
  ASSUME NEW a \in Addresses, a.host # <<>>,
         NEW front \in Nat, NEW between \in Nat \ {0}
  PROVE  Understood(a, parse_path(Typed(a, front, between, 0)))
<1> DEFINE w == Words(a)
           v == a.words
           p == Typed(a, front, between, 0)
           s == Spelled(w, 1)
           k == Len(v)
           n == k + 1
<1>1. PICK h \in Hosts : a.host = <<h>> /\ v # <<>> /\ v[1] \in Buckets
  BY AddressAssumption
<1>2. /\ a.scheme \in Schemes /\ a.host \in Seq(Tokens) /\ v \in Seq(Tokens) /\ w \in Seq(Tokens)
      /\ k \in Nat /\ \A i \in 1..k : v[i] \in Segments
  BY AddressWords, LenProperties
<1>3. k >= 1
  BY <1>1, <1>2, EmptySeq
<1>4. Len(w) = n /\ w[1] = h /\ \A i \in 1..k : w[i + 1] = v[i]
  <2>1. /\ Len(a.host) = 1 /\ a.host[1] = h
    BY <1>1
  <2>2. /\ Len(w) = Len(a.host) + Len(v)
        /\ \A i \in 1..(Len(a.host) + Len(v)) :
             w[i] = IF i <= Len(a.host) THEN a.host[i] ELSE v[i - Len(a.host)]
    BY <1>2, ConcatProperties DEF Words
  <2> HIDE DEF w, v
  <2>3. ASSUME NEW i \in 1..k PROVE w[i + 1] = v[i]
    <3>1. i + 1 \in 1..(Len(a.host) + Len(v)) /\ ~(i + 1 <= Len(a.host)) /\ (i + 1) - Len(a.host) = i
      BY <1>2, <2>1
    <3> QED
      BY <2>2, <3>1
  <2>4. w[1] = h
    BY <1>2, <1>3, <2>1, <2>2
  <2> QED
    BY <1>2, <2>1, <2>2, <2>3, <2>4
<1>5. w # <<>> /\ CleanWords(a, 0) = s
  <2>1. Len(w) # 0
    BY <1>2, <1>4
  <2> QED
    BY <2>1 DEF CleanWords
<1>6. clean_path(p) = S3 \o a.scheme \o s /\ Plain(s)
  BY <1>5, CleanTyped
<1>7. s \in Seq(Tokens) /\ Weaves(s, w, n)
  BY <1>2, <1>4, SpelledWeaves
<1>8. Path(clean_path(p)) = s /\ Protocol(clean_path(p)) = a.scheme
  <2> HIDE DEF s
  <2> QED
    BY <1>2, <1>6, PathOf
<1> HIDE DEF w, p, s
<1>9. /\ Len(s) = 2 * n - 1
      /\ \A i \in 1..n : s[2 * i - 1] = w[i]
      /\ \A i \in 1..(n - 1) : s[2 * i] = Slash
  BY <1>2, <1>7 DEF Weaves
<1>10. s[1] = h /\ s[3] = v[1]
  <2>1. 1 \in 1..n /\ 2 \in 1..n /\ 2 * 1 - 1 = 1 /\ 2 * 2 - 1 = 3 /\ 1 \in 1..k /\ 1 + 1 = 2
    BY <1>2, <1>3
  <2>2. s[1] = w[1] /\ s[3] = w[2] /\ w[2] = v[1]
    BY <1>4, <1>9, <2>1
  <2> QED
    BY <1>4, <2>2
<1>11. MatchesRegex(s)
  <2>1. Len(s) >= 3 /\ Len(s) % 2 = 1
    <3>1. Len(s) = 2 * k + 1
      BY <1>2, <1>9
    <3>2. \A x \in Nat : (2 * x + 1) % 2 = 1
      OBVIOUS
    <3> HIDE DEF k, v
    <3>3. Len(s) >= 3
      BY <1>2, <1>3, <3>1
    <3>4. Len(s) % 2 = 1
      BY <1>2, <3>1, <3>2
    <3> QED
      BY <3>3, <3>4
  <2>2. ASSUME NEW i \in 2..Len(s), i % 2 = 0 PROVE s[i] = Slash
    <3>1. i \div 2 \in 1..(n - 1) /\ 2 * (i \div 2) = i
      BY <1>2, <1>9, <2>2
    <3> QED
      BY <1>9, <3>1
  <2>3. ASSUME NEW i \in 2..Len(s), i % 2 # 0 PROVE s[i] \in Segments
    <3> DEFINE j == (i - 1) \div 2
    <3>1. j \in 1..k /\ j + 1 \in 1..n /\ 2 * (j + 1) - 1 = i
      <4>1. \A x \in Nat : x % 2 # 0 => (x - 1) \div 2 \in Int /\ x = 2 * ((x - 1) \div 2) + 1
        OBVIOUS
      <4>2. i \in Nat /\ 2 <= i /\ i <= 2 * k + 1
        BY <1>2, <1>9
      <4>3. j \in Int /\ i = 2 * j + 1
        BY <2>3, <4>1, <4>2
      <4> HIDE DEF j
      <4> QED
        BY <1>2, <4>2, <4>3
    <3> HIDE DEF j
    <3>2. s[i] = w[j + 1] /\ w[j + 1] = v[j]
      BY <1>4, <1>9, <3>1
    <3> QED
      BY <1>2, <3>1, <3>2
  <2> QED
    BY <1>1, <1>10, <2>1, <2>2, <2>3 DEF MatchesRegex
<1>12. SubSeq(s, 5, Len(s)) = Spelled(Tail(v), 1)
  <2> DEFINE t == Tail(v)
  <2>1. t \in Seq(Tokens) /\ Len(t) = k - 1 /\ \A i \in 1..(k - 1) : t[i] = v[i + 1]
    BY <1>1, <1>2, HeadTailProperties
  <2> HIDE DEF t, v, k
  <2>2. ASSUME NEW i \in 1..(n - 2) PROVE t[i] = w[i + 2]
    <3>1. i \in 1..(k - 1) /\ i + 1 \in 1..k /\ (i + 1) + 1 = i + 2
      BY <1>2
    <3> QED
      BY <1>4, <2>1, <3>1
  <2>3. 2 \in 1..n /\ n \in Nat /\ n - 2 = k - 1 /\ 2 * 2 + 1 = 5
    BY <1>2, <1>3
  <2> HIDE DEF n
  <2>4. /\ SubSeq(s, 2 * 2 + 1, Len(s)) \in Seq(Tokens)
        /\ Weaves(SubSeq(s, 2 * 2 + 1, Len(s)), t, n - 2)
    BY <1>7, <2>2, <2>3, DropWords
  <2>5. SubSeq(s, 5, Len(s)) \in Seq(Tokens) /\ Weaves(SubSeq(s, 5, Len(s)), t, k - 1)
    BY <2>3, <2>4
  <2>6. Spelled(t, 1) \in Seq(Tokens) /\ Weaves(Spelled(t, 1), t, k - 1)
    BY <2>1, SpelledWeaves
  <2>7. k - 1 \in Nat
    BY <1>2, <1>3
  <2>8. SubSeq(s, 5, Len(s)) = Spelled(t, 1)
    BY <2>5, <2>6, <2>7, WeavesUnique
  <2> QED
    BY <2>8 DEF t, v
<1>13. parse_path(p) = [endpoint |-> (IF a.scheme = Https THEN Https ELSE Http) \o <<h>>,
                       bucket   |-> v[1],
                       prefix   |-> Spelled(Tail(v), 1)]
  BY <1>8, <1>10, <1>11, <1>12 DEF parse_path
<1> QED
  BY <1>1, <1>13 DEF Understood, Directory, p

\* Whatever is typed, bucket and prefix are made of tokens.
LEMMA ParseType ==
  ASSUME NEW a \in Addresses, Words(a) # <<>>,
         NEW front \in Nat, NEW between \in Nat \ {0}, NEW end \in Nat
  PROVE  LET c == parse_path(Typed(a, front, between, end))
         IN c.bucket \in Tokens /\ c.prefix \in Seq(Tokens)
<1> DEFINE p == Typed(a, front, between, end)
           r == CleanWords(a, end)
           uri == a.scheme \o r
<1>1. clean_path(p) = S3 \o a.scheme \o r /\ Plain(r)
  BY CleanTyped
<1>2. a.scheme \in Schemes /\ a.scheme \in Seq(Tokens) /\ r \in Seq(Tokens)
  BY <1>1, AddressWords, SchemesType DEF Plain
<1>3. r # <<>>
  <2>1. Spelling(Spelled(Words(a), 1), Words(a), Len(Words(a)))
    BY AddressWords, SpelledIs
  <2>2. Spelled(Words(a), 1) \in Seq(Tokens) /\ Spelled(Words(a), 1) # <<>>
    BY <2>1 DEF Spelling
  <2> QED
    BY <2>2, SchemeTokens, AppendProperties DEF CleanWords
<1> HIDE DEF p, r
<1>4. After(clean_path(p), S3) = uri /\ Path(clean_path(p)) = r
  BY <1>1, <1>2, PathOf
<1>5. uri \in Seq(Tokens) /\ Len(uri) = Len(a.scheme) + Len(r)
  BY <1>2, ConcatProperties
<1>6. Len(r) \in Nat /\ Len(r) >= 1 /\ Len(a.scheme) \in Nat
  BY <1>2, <1>3, EmptySeq, LenProperties
<1> HIDE DEF uri
<1>7. \A i \in 5..Len(r) : r[i] \in Tokens
  BY <1>2, <1>6, ElementOfSeq
<1>8. \A i \in 3..Len(uri) : uri[i] \in Tokens
  BY <1>5, <1>6, ElementOfSeq
<1>9. SubSeq(r, 5, Len(r)) \in Seq(Tokens) /\ SubSeq(uri, 3, Len(uri)) \in Seq(Tokens)
  <2>1. Len(r) \in Int /\ Len(uri) \in Int
    BY <1>5, <1>6
  <2> QED
    BY <1>7, <1>8, <2>1, SubSeqProperties
<1>10. uri[1] \in Tokens
  BY <1>5, <1>6, ElementOfSeq
<1>11. Buckets \subseteq Tokens
  BY WordAssumption DEF Tokens
<1>12. MatchesRegex(r) => r[3] \in Tokens
  BY <1>11 DEF MatchesRegex
<1>13. parse_path(p).bucket \in Tokens /\ parse_path(p).prefix \in Seq(Tokens)
  BY <1>4, <1>9, <1>10, <1>12 DEF parse_path
<1> QED
  BY <1>13 DEF p

(***************************************************************************)
(* Keys.                                                                   *)
(***************************************************************************)
LEMMA RestOf ==
  ASSUME NEW S, NEW p \in Seq(S), NEW q \in Seq(S)
  PROVE  SubSeq(p \o q, Len(p) + 1, Len(p \o q)) = q
<1> DEFINE r == p \o q
           t == SubSeq(r, Len(p) + 1, Len(r))
<1>1. /\ r \in Seq(S) /\ Len(r) = Len(p) + Len(q) /\ Len(p) \in Nat /\ Len(q) \in Nat
      /\ \A i \in 1..(Len(p) + Len(q)) : r[i] = IF i <= Len(p) THEN p[i] ELSE q[i - Len(p)]
  BY ConcatProperties, LenProperties
<1> HIDE DEF r
<1>2. /\ t \in Seq(S)
      /\ Len(t) = IF Len(p) + 1 <= Len(r) THEN Len(r) - (Len(p) + 1) + 1 ELSE 0
      /\ \A i \in 1..(Len(r) - (Len(p) + 1) + 1) : t[i] = r[Len(p) + 1 + i - 1]
  <2>1. \A i \in (Len(p) + 1)..Len(r) : r[i] \in S
    BY <1>1, ElementOfSeq
  <2>2. Len(p) + 1 \in Int /\ Len(r) \in Int
    BY <1>1
  <2> QED
    BY <2>1, <2>2, SubSeqProperties
<1> HIDE DEF t
<1>3. Len(t) = Len(q)
  BY <1>1, <1>2
<1>4. ASSUME NEW i \in 1..Len(q) PROVE t[i] = q[i]
  <2>1. /\ i \in 1..(Len(r) - (Len(p) + 1) + 1) /\ Len(p) + 1 + i - 1 = Len(p) + i
        /\ Len(p) + i \in 1..(Len(p) + Len(q)) /\ ~(Len(p) + i <= Len(p))
        /\ (Len(p) + i) - Len(p) = i
    BY <1>1
  <2>2. t[i] = r[Len(p) + i]
    BY <1>2, <2>1
  <2>3. r[Len(p) + i] = q[(Len(p) + i) - Len(p)]
    BY <1>1, <2>1
  <2> QED
    BY <2>1, <2>2, <2>3
<1>5. t = q
  BY <1>2, <1>3, <1>4, SeqEqual
<1> QED
  BY <1>5 DEF t, r

LEMMA NameToken == Name \in Tokens /\ Name # Slash
BY FileAssumption DEF Tokens

LEMMA FileTokens ==
  ASSUME NEW f \in TritonFiles \cup OnnxFiles
  PROVE  f \in Seq(Tokens) /\ f # <<>> /\ f[1] # Slash
<1>1. STRING \subseteq Tokens
  BY DEF Tokens
<1>2. f \in Seq(STRING) /\ f # <<>> /\ f[1] # Slash
  BY FileAssumption
<1> QED
  BY <1>1, <1>2, SeqMonotonic

LEMMA MetaTokens == Meta \in Seq(Tokens) /\ Meta # <<>> /\ Meta[1] # Slash
<1>1. "mlflow-meta.json" \in Tokens
  BY DEF Tokens
<1>2. Meta \in Seq(Tokens)
  BY <1>1 DEF Meta
<1> QED
  BY <1>2 DEF Meta, Slash

\* A relative path is joined with one slash to a path that ends in a word, and directly to
\* one that ends in a slash.
LEMMA JoinRelative ==
  ASSUME NEW d \in Seq(Tokens), NEW f \in Seq(Tokens), f[1] # Slash
  PROVE  /\ d = <<>> \/ Last(d) = Slash => Join(d, f) = d \o f
         /\ d # <<>> /\ Last(d) # Slash => Join(d, f) = d \o <<Slash>> \o f
BY DEF Join

\* The end of a path is that of its last part.
LEMMA LastOfConcat ==
  ASSUME NEW d \in Seq(Tokens), NEW f \in Seq(Tokens), f # <<>>
  PROVE  d \o f \in Seq(Tokens) /\ d \o f # <<>> /\ Last(d \o f) = Last(f)
<1>1. /\ d \o f \in Seq(Tokens) /\ Len(d \o f) = Len(d) + Len(f)
      /\ \A i \in 1..(Len(d) + Len(f)) : (d \o f)[i] = IF i <= Len(d) THEN d[i] ELSE f[i - Len(d)]
  BY ConcatProperties
<1>2. Len(d) \in Nat /\ Len(f) \in Nat /\ Len(f) >= 1
  BY EmptySeq, LenProperties
<1>3. /\ Len(d) + Len(f) \in 1..(Len(d) + Len(f)) /\ ~(Len(d) + Len(f) <= Len(d))
      /\ (Len(d) + Len(f)) - Len(d) = Len(f)
  BY <1>2
<1>4. (d \o f)[Len(d) + Len(f)] = f[(Len(d) + Len(f)) - Len(d)]
  BY <1>1, <1>3
<1>5. (d \o f)[Len(d \o f)] = f[Len(f)]
  BY <1>1, <1>3, <1>4
<1>6. Len(d \o f) # 0
  BY <1>1, <1>2
<1> QED
  BY <1>1, <1>5, <1>6, EmptySeq DEF Last

\* The directory of the model ends in its name.
LEMMA JoinName ==
  ASSUME NEW d \in Seq(Tokens)
  PROVE  /\ Join(d, <<Name>>) \in Seq(Tokens) /\ Join(d, <<Name>>) # <<>>
         /\ Last(Join(d, <<Name>>)) = Name
<1>1. <<Name>> \in Seq(Tokens) /\ <<Name>> # <<>> /\ <<Name>>[1] # Slash /\ Last(<<Name>>) = Name
  BY NameToken DEF Last
<1>2. d \o <<Slash>> \in Seq(Tokens)
  <2>1. <<Slash>> \in Seq(Tokens)
    BY SchemeTokens
  <2> QED
    BY <2>1, ConcatProperties
<1>3. Join(d, <<Name>>) = d \o <<Name>> \/ Join(d, <<Name>>) = (d \o <<Slash>>) \o <<Name>>
  BY <1>1, JoinRelative
<1>4. /\ d \o <<Name>> \in Seq(Tokens) /\ d \o <<Name>> # <<>> /\ Last(d \o <<Name>>) = Name
  BY <1>1, LastOfConcat
<1>5. /\ (d \o <<Slash>>) \o <<Name>> \in Seq(Tokens) /\ (d \o <<Slash>>) \o <<Name>> # <<>>
      /\ Last((d \o <<Slash>>) \o <<Name>>) = Name
  BY <1>1, <1>2, LastOfConcat
<1> QED
  BY <1>3, <1>4, <1>5

\* With or without a slash at the end of the prefix the directory of the model is the same.
LEMMA DirectoryOf ==
  ASSUME NEW words \in Seq(Tokens), words # <<>>, \A i \in 1..Len(words) : words[i] # Slash,
         NEW prefix, Directory(prefix, words)
  PROVE  /\ prefix \in Seq(Tokens)
         /\ Join(prefix, <<Name>>) = Spelled(Tail(words) \o <<Name>>, 1)
<1> DEFINE v == Tail(words)
           k == Len(v)
           p == Spelled(v, 1)
           u == v \o <<Name>>
           goal == Spelled(u, 1)
<1>1. /\ v \in Seq(Tokens) /\ Len(words) = k + 1 /\ k \in Nat
      /\ \A i \in 1..k : v[i] = words[i + 1]
  BY HeadTailProperties, LenProperties
<1>2. \A i \in 1..k : v[i] # Slash
  BY <1>1
<1>3. p \in Seq(Tokens) /\ Weaves(p, v, k)
  BY <1>1, SpelledWeaves
<1>4. <<Name>> \in Seq(Tokens) /\ Len(<<Name>>) = 1 /\ <<Name>>[1] = Name /\ <<Slash>> \in Seq(Tokens)
  BY NameToken, SchemeTokens
<1>5. /\ u \in Seq(Tokens) /\ Len(u) = k + 1 /\ \A i \in 1..k : u[i] = v[i]
      /\ u[k + 1] = Name
  <2>1. u = Append(v, Name)
    BY <1>1, NameToken, AppendIsConcat
  <2> QED
    BY <1>1, <2>1, NameToken, AppendProperties
<1>6. goal \in Seq(Tokens) /\ Weaves(goal, u, k + 1)
  BY <1>5, SpelledWeaves
<1>7. /\ prefix = p \/ (k > 0 /\ prefix = Append(p, Slash))
  BY <1>1 DEF Directory
<1>8. prefix \in Seq(Tokens)
  BY <1>3, <1>7, SchemeTokens, AppendProperties
<1> HIDE DEF v, k, p, u, goal
<1>9. CASE k = 0
  <2>1. p = <<>> /\ prefix = <<>>
    BY <1>3, <1>7, <1>9, EmptySeq DEF Weaves
  <2>2. Join(prefix, <<Name>>) = <<Name>>
    BY <1>4, <2>1, NameToken DEF Join
  <2>3. Weaves(<<Name>>, u, k + 1)
    BY <1>4, <1>5, <1>9 DEF Weaves
  <2>4. k + 1 \in Nat
    BY <1>1
  <2>5. goal = <<Name>>
    BY <1>4, <1>5, <1>6, <2>3, <2>4, WeavesUnique
  <2> QED
    BY <1>8, <2>2, <2>5 DEF goal, u, v
<1>10. CASE k # 0
  <2> DEFINE q == Append(p, Slash)
             r == Append(q, Name)
  <2>1. Len(p) = 2 * k - 1 /\ p # <<>> /\ Last(p) # Slash
    <3>1. Len(p) = 2 * k - 1 /\ \A i \in 1..k : p[2 * i - 1] = v[i]
      BY <1>3, <1>10 DEF Weaves
    <3>2. k \in 1..k /\ Len(p) # 0
      BY <1>1, <1>10, <3>1
    <3>3. p[Len(p)] = v[k]
      BY <3>1, <3>2
    <3> QED
      BY <1>2, <3>1, <3>2, <3>3 DEF Last
  <2>2. /\ q \in Seq(Tokens) /\ q # <<>> /\ Len(q) = 2 * k
        /\ \A i \in 1..(2 * k - 1) : q[i] = p[i]
        /\ q[2 * k] = Slash
    <3>1. Len(p) + 1 = 2 * k
      BY <1>1, <2>1
    <3> QED
      BY <1>3, <2>1, <3>1, SchemeTokens, AppendProperties
  <2>3. q = p \o <<Slash>>
    BY <1>3, SchemeTokens, AppendIsConcat
  <2> HIDE DEF q
  <2>4. /\ r \in Seq(Tokens) /\ Len(r) = 2 * k + 1
        /\ \A i \in 1..(2 * k) : r[i] = q[i]
        /\ r[2 * k + 1] = Name
    BY <2>2, NameToken, AppendProperties
  <2>5. r = q \o <<Name>>
    BY <2>2, NameToken, AppendIsConcat
  <2>6. Join(prefix, <<Name>>) = r
    <3>1. CASE prefix = p
      <4>1. Join(p, <<Name>>) = p \o <<Slash>> \o <<Name>>
        BY <1>3, <1>4, <2>1, NameToken, JoinRelative
      <4> QED
        BY <2>3, <2>5, <3>1, <4>1
    <3>2. CASE prefix = q
      <4>1. Last(q) = Slash
        BY <2>2 DEF Last
      <4>2. Join(q, <<Name>>) = q \o <<Name>>
        BY <1>4, <2>2, <4>1, NameToken, JoinRelative
      <4> QED
        BY <2>5, <3>2, <4>2
    <3> QED
      BY <1>7, <3>1, <3>2 DEF q
  <2> HIDE DEF r
  <2>7. ASSUME NEW i \in 1..(k + 1) PROVE r[2 * i - 1] = u[i]
    <3>1. CASE i = k + 1
      <4>1. 2 * i - 1 = 2 * k + 1
        BY <1>1, <3>1
      <4> QED
        BY <1>5, <2>4, <3>1, <4>1
    <3>2. CASE i # k + 1
      <4>1. i \in 1..k /\ 2 * i - 1 \in 1..(2 * k - 1) /\ 2 * i - 1 \in 1..(2 * k)
        BY <1>1, <3>2
      <4>2. p[2 * i - 1] = v[i]
        BY <1>3, <4>1 DEF Weaves
      <4> QED
        BY <1>5, <2>2, <2>4, <4>1, <4>2
    <3> QED
      BY <3>1, <3>2
  <2>8. ASSUME NEW i \in 1..((k + 1) - 1) PROVE r[2 * i] = Slash
    <3>1. CASE i = k
      BY <1>1, <1>10, <2>2, <2>4, <3>1
    <3>2. CASE i # k
      <4>1. i \in 1..(k - 1) /\ 2 * i \in 1..(2 * k - 1) /\ 2 * i \in 1..(2 * k)
        BY <1>1, <3>2
      <4>2. p[2 * i] = Slash
        BY <1>3, <4>1 DEF Weaves
      <4> QED
        BY <2>2, <2>4, <4>1, <4>2
    <3> QED
      BY <3>1, <3>2
  <2>9. Len(r) = 2 * (k + 1) - 1 /\ k + 1 # 0 /\ k + 1 \in Nat
    BY <1>1, <2>4
  <2>10. Weaves(r, u, k + 1)
    BY <2>7, <2>8, <2>9 DEF Weaves
  <2>11. goal = r
    BY <1>6, <2>4, <2>9, <2>10, WeavesUnique
  <2> QED
    BY <1>8, <2>6, <2>11 DEF goal, u, v
<1> QED
  BY <1>9, <1>10

\* A path is a prefix of what it is continued to.
LEMMA IsPrefixConcat ==
  ASSUME NEW S, NEW p \in Seq(S), NEW q \in Seq(S)
  PROVE  IsPrefix(p, p \o q)
<1>1. /\ p \o q \in Seq(S) /\ Len(p \o q) = Len(p) + Len(q)
      /\ \A i \in 1..(Len(p) + Len(q)) : (p \o q)[i] = IF i <= Len(p) THEN p[i] ELSE q[i - Len(p)]
  BY ConcatProperties
<1>2. Len(p) \in Nat /\ Len(q) \in Nat
  BY LenProperties
<1> DEFINE r == p \o q
           t == SubSeq(r, 1, Len(p))
<1>3. t \in Seq(S) /\ Len(t) = Len(p) /\ \A i \in 1..Len(p) : t[i] = r[i]
  <2>1. \A i \in 1..Len(p) : r[i] \in S
    BY <1>1, <1>2, ElementOfSeq
  <2>2. 1 \in Int /\ Len(p) \in Int
    BY <1>2
  <2> HIDE DEF r
  <2> QED
    BY <1>2, <2>1, <2>2, SubSeqProperties
<1>4. \A i \in 1..Len(p) : r[i] = p[i]
  BY <1>1, <1>2
<1> HIDE DEF r, t
<1>5. t = p
  BY <1>3, <1>4, SeqEqual
<1>6. SubSeq(p, 1, Len(p)) = p
  BY SubSeqFull
<1> QED
  BY <1>1, <1>2, <1>5, <1>6 DEF IsPrefix, r, t

\* A slash in front of a path that begins and ends with a word is stripped.
LEMMA StripOf ==
  ASSUME NEW R \in Seq(Tokens), NEW b \in {0, 1},
         NEW z \in Seq(Tokens), z # <<>>, z[1] # Slash, Last(z) # Slash,
         CleanRepo(config) = R
  PROVE  WithinRepo(R \o (Slashes(b) \o z)) = z
<1> DEFINE rest == Slashes(b) \o z
<1>1. b \in Nat /\ 0 \in Nat
  OBVIOUS
<1>2. Slashes(b) \in Seq(Tokens) /\ Len(Slashes(b)) = b
  BY <1>1, SlashesAre
<1>3. rest \in Seq(Tokens) /\ Len(rest) = b + Len(z)
  BY <1>2, ConcatProperties
<1>4. rest \o Slashes(0) = rest
  BY <1>3, SlashesNone, ConcatEmptySeq
<1>5. /\ SelectInSeq(rest \o Slashes(0), IsWord) = b + 1
      /\ SelectLastInSeq(rest \o Slashes(0), IsWord) = b + Len(z)
  BY <1>1, TruePathOf
<1>6. SelectInSeq(rest, IsWord) = b + 1 /\ SelectLastInSeq(rest, IsWord) = b + Len(z)
  BY <1>4, <1>5
<1>7. SubSeq(rest, Len(Slashes(b)) + 1, Len(rest)) = z
  BY <1>2, RestOf
<1>8. SubSeq(rest, b + 1, b + Len(z)) = z
  BY <1>2, <1>3, <1>7
<1> HIDE DEF rest
<1>9. SubSeq(R \o rest, Len(R) + 1, Len(R \o rest)) = rest
  BY <1>3, RestOf
<1>10. WithinRepo(R \o rest) = z
  BY <1>6, <1>8, <1>9 DEF WithinRepo
<1> QED
  BY <1>10 DEF rest

\* A path is joined to another with a slash or with none.
LEMMA JoinSlashes ==
  ASSUME NEW d \in Seq(Tokens), NEW f \in Seq(Tokens), f[1] # Slash
  PROVE  \E b \in {0, 1} : Join(d, f) = d \o (Slashes(b) \o f)
<1>1. Join(d, f) = d \o f \/ Join(d, f) = d \o <<Slash>> \o f
  BY JoinRelative
<1>2. Slashes(0) \o f = f
  BY SlashesNone, ConcatEmptySeq
<1>3. <<Slash>> \in Seq(Tokens)
  BY SchemeTokens
<1>4. d \o <<Slash>> \o f = d \o (Slashes(1) \o f)
  <2>1. (d \o <<Slash>>) \o f = d \o (<<Slash>> \o f)
    BY <1>3, ConcatAssociative
  <2> QED
    BY <2>1, SlashesOne
<1> QED
  BY <1>1, <1>2, <1>4

\* The cleaned value of TRITON_MODEL_REPO.
LEMMA RepoType ==
  ASSUME config.bucket \in Tokens, config.prefix \in Seq(Tokens)
  PROVE  CleanRepo(config) \in Seq(Tokens)
<1>1. <<config.bucket>> \in Seq(Tokens) /\ <<Slash>> \in Seq(Tokens)
  BY SchemeTokens
<1>2. <<config.bucket>> \o config.prefix \in Seq(Tokens)
  BY <1>1, ConcatProperties
<1>3. <<config.bucket>> \o <<Slash>> \in Seq(Tokens)
  BY <1>1, ConcatProperties
<1>4. <<config.bucket>> \o <<Slash>> \o config.prefix \in Seq(Tokens)
  BY <1>3, ConcatProperties
<1>5. Join(<<config.bucket>>, config.prefix) \in Seq(Tokens)
  BY <1>2, <1>4 DEF Join
<1> QED
  BY <1>5, SchemeTokens, ConcatProperties DEF CleanRepo

\* The path of the deployment within the repository is the name of the model.
LEMMA WithinDeployment ==
  ASSUME config.bucket \in Tokens, config.prefix \in Seq(Tokens)
  PROVE  WithinRepo(DeploymentDir) = <<Name>>
<1> DEFINE R == CleanRepo(config)
<1>1. R \in Seq(Tokens)
  BY RepoType
<1>2. <<Name>> \in Seq(Tokens) /\ <<Name>> # <<>> /\ <<Name>>[1] # Slash /\ Last(<<Name>>) # Slash
  BY NameToken DEF Last
<1> HIDE DEF R
<1>3. PICK b \in {0, 1} : Join(R, <<Name>>) = R \o (Slashes(b) \o <<Name>>)
  BY <1>1, <1>2, JoinSlashes
<1>4. WithinRepo(R \o (Slashes(b) \o <<Name>>)) = <<Name>>
  BY <1>1, <1>2, StripOf DEF R
<1> QED
  BY <1>3, <1>4 DEF R, DeploymentDir

\* That of the version is the name of the model and the version.
LEMMA WithinVersion ==
  ASSUME config.bucket \in Tokens, config.prefix \in Seq(Tokens)
  PROVE  WithinRepo(Join(DeploymentDir, <<"1">>)) = <<Name>> \o (<<Slash>> \o <<"1">>)
<1> DEFINE R == CleanRepo(config)
           one == <<Slash>> \o <<"1">>
           z == <<Name>> \o one
<1>1. R \in Seq(Tokens)
  BY RepoType
<1>2. /\ <<Name>> \in Seq(Tokens) /\ <<Name>>[1] = Name /\ Len(<<Name>>) = 1
      /\ Name # Slash /\ Name \in Tokens
  BY NameToken
<1>3. /\ <<"1">> \in Seq(Tokens) /\ <<"1">> # <<>> /\ <<"1">>[1] # Slash /\ Last(<<"1">>) = "1"
      /\ "1" # Slash /\ <<Slash>> \in Seq(Tokens)
  BY SchemeTokens DEF Tokens, Slash, Last
<1>4. one \in Seq(Tokens) /\ one # <<>> /\ Last(one) = "1"
  BY <1>3, LastOfConcat
<1> HIDE DEF R, one
<1>5. /\ z \in Seq(Tokens) /\ z # <<>> /\ Last(z) # Slash /\ z[1] # Slash
  <2>1. z \in Seq(Tokens) /\ z # <<>> /\ Last(z) = "1"
    BY <1>2, <1>4, LastOfConcat
  <2>2. z[1] = Name
    <3>1. /\ \A i \in 1..(Len(<<Name>>) + Len(one)) :
               z[i] = IF i <= Len(<<Name>>) THEN <<Name>>[i] ELSE one[i - Len(<<Name>>)]
      BY <1>2, <1>4, ConcatProperties
    <3>2. Len(one) \in Nat
      BY <1>4, LenProperties
    <3> QED
      BY <1>2, <3>1, <3>2
  <2> QED
    BY <1>2, <1>3, <2>1, <2>2
<1>6. PICK b \in {0, 1} : Join(R, <<Name>>) = R \o (Slashes(b) \o <<Name>>)
  BY <1>1, <1>2, JoinSlashes
<1>7. b \in Nat
  BY <1>6
<1>8. Slashes(b) \in Seq(Tokens)
  BY <1>7, SlashesAre
<1> DEFINE y == Slashes(b) \o <<Name>>
           D == R \o y
<1>9. y \in Seq(Tokens) /\ y # <<>> /\ Last(y) = Name
  BY <1>2, <1>8, LastOfConcat DEF Last
<1>10. Slashes(b) \o z = y \o one
  BY <1>2, <1>4, <1>8, ConcatAssociative
<1> HIDE DEF y
<1>11. D \in Seq(Tokens) /\ D # <<>> /\ Last(D) # Slash
  BY <1>1, <1>2, <1>9, LastOfConcat
<1>12. D \o one = R \o (y \o one)
  BY <1>1, <1>4, <1>9, ConcatAssociative
<1> HIDE DEF D
<1>13. Join(D, <<"1">>) = D \o <<Slash>> \o <<"1">>
  BY <1>3, <1>11, JoinRelative
<1>14. D \o <<Slash>> \o <<"1">> = D \o one
  BY <1>3, <1>11, ConcatAssociative DEF one
<1> HIDE DEF z
<1>15. WithinRepo(R \o (Slashes(b) \o z)) = z
  BY <1>1, <1>5, <1>6, StripOf DEF R
<1>16. DeploymentDir = D
  BY <1>6 DEF DeploymentDir, R, D, y
<1> QED
  BY <1>10, <1>12, <1>13, <1>14, <1>15, <1>16 DEF z, one

\* The key of a file of the model.
Key(f) == Join(config.prefix, <<Name>>) \o <<Slash>> \o f

LEMMA JoinKey ==
  ASSUME config.prefix \in Seq(Tokens), NEW f \in Seq(Tokens), f[1] # Slash
  PROVE  Join(Join(config.prefix, <<Name>>), f) = Key(f)
<1> DEFINE D == Join(config.prefix, <<Name>>)
<1>1. D \in Seq(Tokens) /\ D # <<>> /\ Last(D) # Slash
  BY JoinName, NameToken
<1> HIDE DEF D
<1>2. Join(D, f) = D \o <<Slash>> \o f
  BY <1>1, JoinRelative
<1> QED
  BY <1>2 DEF D, Key

\* A file of an onnx artifact at the top of the model.
LEMMA OnnxTop ==
  ASSUME config.bucket \in Tokens, config.prefix \in Seq(Tokens), NEW f \in OnnxFiles
  PROVE  OnnxKey(DeploymentDir, f) = Key(f)
<1>1. f \in Seq(Tokens) /\ f[1] # Slash
  BY FileTokens
<1>2. WithinRepo(DeploymentDir) = <<Name>>
  BY WithinDeployment
<1>3. Join(Join(config.prefix, <<Name>>), f) = Key(f)
  BY <1>1, JoinKey
<1> QED
  BY <1>2, <1>3 DEF OnnxKey

\* A path joined to another keeps what is behind its first part.
LEMMA JoinFurther ==
  ASSUME NEW d \in Seq(Tokens), NEW f \in Seq(Tokens), f # <<>>, f[1] # Slash,
         NEW g \in Seq(Tokens)
  PROVE  Join(d, f \o g) = Join(d, f) \o g
<1> DEFINE e == d \o <<Slash>>
<1>1. e \in Seq(Tokens)
  <2>1. <<Slash>> \in Seq(Tokens)
    BY SchemeTokens
  <2> QED
    BY <2>1, ConcatProperties
<1>2. f \o g \in Seq(Tokens) /\ (f \o g)[1] = f[1]
  <2>1. /\ f \o g \in Seq(Tokens)
        /\ \A i \in 1..(Len(f) + Len(g)) :
             (f \o g)[i] = IF i <= Len(f) THEN f[i] ELSE g[i - Len(f)]
    BY ConcatProperties
  <2>2. Len(f) \in Nat /\ Len(f) >= 1 /\ Len(g) \in Nat
    BY EmptySeq, LenProperties
  <2> QED
    BY <2>1, <2>2
<1>3. d \o (f \o g) = (d \o f) \o g
  BY ConcatAssociative
<1> HIDE DEF e
<1>4. e \o (f \o g) = (e \o f) \o g
  BY <1>1, ConcatAssociative
<1>5. CASE d = <<>> \/ Last(d) = Slash
  BY <1>2, <1>3, <1>5, JoinRelative
<1>6. CASE ~(d = <<>> \/ Last(d) = Slash)
  BY <1>2, <1>4, <1>6, JoinRelative DEF e
<1> QED
  BY <1>5, <1>6

\* The place of a file in version 1 of the model.
InVersion(f) == <<"1", Slash>> \o f

\* A file of an onnx artifact in version 1.
LEMMA OnnxVersion ==
  ASSUME config.bucket \in Tokens, config.prefix \in Seq(Tokens), NEW f \in OnnxFiles
  PROVE  OnnxKey(Join(DeploymentDir, <<"1">>), f) = Key(InVersion(f))
<1> DEFINE s == <<Slash>>
           one == <<"1">>
           name == <<Name>>
           z == name \o (s \o one)
           P == config.prefix
           D == Join(P, name)
<1>1. f \in Seq(Tokens) /\ f[1] # Slash
  BY FileTokens
<1>2. WithinRepo(Join(DeploymentDir, <<"1">>)) = z
  BY WithinVersion
<1>3. /\ s \in Seq(Tokens) /\ one \in Seq(Tokens) /\ name \in Seq(Tokens)
      /\ one # <<>> /\ Last(one) = "1" /\ "1" # Slash /\ name[1] = Name /\ Name # Slash
      /\ Len(name) = 1 /\ name # <<>>
  BY SchemeTokens, NameToken DEF Tokens, Slash, Last
<1>4. s \o one \in Seq(Tokens) /\ s \o one # <<>> /\ Last(s \o one) = "1"
  BY <1>3, LastOfConcat
<1>5. D \in Seq(Tokens)
  BY JoinName
<1>6. <<"1", Slash>> = one \o s
  <2>1. one \o s = Append(one, Slash)
    BY SchemeTokens, <1>3, AppendIsConcat
  <2> QED
    BY <2>1
<1> HIDE DEF s, one, name
<1>7. Join(P, z) = D \o (s \o one)
  BY <1>3, <1>4, JoinFurther
<1> HIDE DEF z, D
<1>8. D \o (s \o one) \in Seq(Tokens) /\ D \o (s \o one) # <<>> /\ Last(D \o (s \o one)) = "1"
  BY <1>4, <1>5, LastOfConcat
<1>9. Join(D \o (s \o one), f) = (D \o (s \o one)) \o s \o f
  BY <1>1, <1>3, <1>8, JoinRelative DEF s
<1>10. (D \o (s \o one)) \o s \o f = (D \o s) \o ((one \o s) \o f)
  <2>1. D \o (s \o one) = (D \o s) \o one /\ D \o s \in Seq(Tokens)
    BY <1>3, <1>5, ConcatAssociative, ConcatProperties
  <2> DEFINE e == D \o s
  <2> HIDE DEF e
  <2>2. e \o one \o s = e \o (one \o s) /\ one \o s \in Seq(Tokens)
    BY <1>3, <2>1, ConcatAssociative, ConcatProperties DEF e
  <2>3. e \o (one \o s) \o f = e \o ((one \o s) \o f)
    BY <1>1, <2>1, <2>2, ConcatAssociative DEF e
  <2> QED
    BY <2>1, <2>2, <2>3 DEF e
<1> QED
  BY <1>2, <1>6, <1>7, <1>9, <1>10 DEF OnnxKey, Key, InVersion, P, D, s, name

\* What is relative to a directory is not changed by the way to it.
LEMMA RelPathOf ==
  ASSUME NEW base, NEW f \in TritonFiles
  PROVE  /\ RelPath(<<base>> \o <<Slash>> \o f) = f
         /\ Len(<<base>> \o <<Slash>> \o f) > 1
<1> DEFINE S == Tokens \cup {base}
           p == <<base>> \o <<Slash>>
<1>1. Tokens \subseteq S /\ base \in S /\ Slash \in S
  BY SchemeTokens
<1>2. f \in Seq(S)
  BY <1>1, FileTokens, SeqMonotonic
<1>3. <<base>> \in Seq(S) /\ <<Slash>> \in Seq(S) /\ Len(<<base>>) = 1 /\ Len(<<Slash>>) = 1
  BY <1>1
<1>4. p \in Seq(S) /\ Len(p) = 2
  <2>1. p \in Seq(S) /\ Len(p) = Len(<<base>>) + Len(<<Slash>>)
    BY <1>3, ConcatProperties
  <2> QED
    BY <1>3, <2>1
<1> HIDE DEF S, p
<1>5. SubSeq(p \o f, Len(p) + 1, Len(p \o f)) = f /\ Len(p \o f) = Len(p) + Len(f)
  BY <1>2, <1>4, RestOf, ConcatProperties
<1>6. Len(f) \in Nat
  BY <1>2, LenProperties
<1> QED
  BY <1>4, <1>5, <1>6 DEF RelPath, p

\* The keys of the files of a model, without the metadata.
Keys == IF flavor = "triton" THEN {Key(f) : f \in TritonFiles}
        ELSE {Key(IF f = Model THEN InVersion(f) ELSE f) : f \in OnnxFiles}

\* The artifact as SaveModel or MLflow leaves it.
ArtifactOf ==
  \/ flavor = "onnx" /\ artifact = OnnxFiles \cup {MLmodel}
  \/ /\ flavor = "triton"
     /\ artifact = {<<BaseName(directory)>> \o <<Slash>> \o f : f \in TritonFiles} \cup {MLmodel}

\* All the ways of computing a key lead to the same one.
LEMMA UploadsAreKeys ==
  ASSUME config.bucket \in Tokens, config.prefix \in Seq(Tokens), ArtifactOf
  PROVE  Uploads = Keys
<1>1. CASE flavor = "onnx"
  <2>1. artifact \ {MLmodel} = OnnxFiles
    BY <1>1, FileAssumption DEF ArtifactOf
  <2>2. ASSUME NEW f \in OnnxFiles
        PROVE  (IF f = Model THEN OnnxKey(Join(DeploymentDir, <<"1">>), f) ELSE OnnxKey(DeploymentDir, f))
                 = Key(IF f = Model THEN InVersion(f) ELSE f)
    BY OnnxTop, OnnxVersion
  <2> QED
    BY <1>1, <2>1, <2>2 DEF Uploads, Keys
<1>2. CASE flavor = "triton"
  <2> DEFINE base == BaseName(directory)
  <2>1. artifact = {<<base>> \o <<Slash>> \o f : f \in TritonFiles} \cup {MLmodel}
    BY <1>2 DEF ArtifactOf
  <2> HIDE DEF base
  <2>2. ~(Len(MLmodel) > 1)
    BY DEF MLmodel
  <2>3. InDirectory = {<<base>> \o <<Slash>> \o f : f \in TritonFiles}
    BY <2>1, <2>2, RelPathOf DEF InDirectory
  <2>4. ASSUME NEW f \in TritonFiles
        PROVE  Join(Join(config.prefix, <<Name>>), RelPath(<<base>> \o <<Slash>> \o f)) = Key(f)
    BY RelPathOf, FileTokens, JoinKey
  <2>5. Uploads = {Join(Join(config.prefix, <<Name>>), RelPath(<<base>> \o <<Slash>> \o f)) : f \in TritonFiles}
    BY <1>2, <2>3 DEF Uploads
  <2> QED
    BY <1>2, <2>4, <2>5 DEF Keys
<1> QED
  BY <1>1, <1>2 DEF ArtifactOf

\* The prefix that is asked for at the deletion is that of every key.
LEMMA KeysHavePrefix ==
  ASSUME config.prefix \in Seq(Tokens), NEW k \in Keys \cup {Key(Meta)}
  PROVE  IsPrefix(DeletePrefix, k)
<1> DEFINE D == Join(config.prefix, <<Name>>)
<1>1. D \in Seq(Tokens) /\ <<Slash>> \in Seq(Tokens)
  BY JoinName, SchemeTokens
<1>2. PICK f \in Seq(Tokens) : k = D \o <<Slash>> \o f
  <2>1. ASSUME NEW f \in OnnxFiles PROVE InVersion(f) \in Seq(Tokens)
    <3>1. <<"1", Slash>> \in Seq(Tokens)
      BY SchemeTokens DEF Tokens
    <3> QED
      BY <3>1, FileTokens, ConcatProperties DEF InVersion
  <2> QED
    BY <2>1, FileTokens, MetaTokens DEF Keys, Key
<1> HIDE DEF D
<1>3. k = D \o (<<Slash>> \o f) /\ <<Slash>> \o f \in Seq(Tokens)
  BY <1>1, <1>2, ConcatAssociative, ConcatProperties
<1> QED
  BY <1>1, <1>3, IsPrefixConcat DEF DeletePrefix, D

(***************************************************************************)
(* What is uploaded and deleted.                                           *)
(***************************************************************************)
\* Up to the upload the bucket is empty, and it comes to hold the keys of the model's files,
\* with the metadata last.
KeysInv ==
  /\ flavor \in {"triton", "onnx"}
  /\ stage \in {"start", "invalid", "configured", "running", "failed", "saved", "registered"} =>
       objects = {}
  /\ stage \notin {"start", "invalid"} => config.bucket \in Tokens /\ config.prefix \in Seq(Tokens)
  /\ stage \in {"running", "saved"} => flavor = "triton"
  /\ stage \in {"saved", "registered"} => ArtifactOf
  /\ stage = "upload" => todo \cup objects = Keys
  /\ stage = "deployed" => objects = Keys \cup {Key(Meta)}
  /\ stage = "deleted" => objects = {}

\* A configuration that is accepted has a bucket and a prefix.
LEMMA ConfigureType ==
  ASSUME Configure
  PROVE  \/ stage' = "invalid"
         \/ stage' = "configured" /\ config'.bucket \in Tokens /\ config'.prefix \in Seq(Tokens)
<1> PICK a \in Addresses, front \in FrontSlashes, between \in InnerSlashes :
           \E end \in EndSlashes[a] :
             LET p == Typed(a, front, between, end) IN
             IF NoBucket(p) THEN stage' = "invalid"
             ELSE stage' = "configured" /\ config' = parse_path(p)
  BY DEF Configure
<1>1. PICK end \in EndSlashes[a] :
           LET p == Typed(a, front, between, end) IN
           IF NoBucket(p) THEN stage' = "invalid"
           ELSE stage' = "configured" /\ config' = parse_path(p)
  OBVIOUS
<1>2. front \in Nat /\ between \in Nat \ {0} /\ between \in Nat /\ end \in Nat
  BY AddressAssumption
<1>3. CASE Words(a) = <<>>
  BY <1>1, <1>2, <1>3, NoBucketOf
<1>4. CASE Words(a) # <<>>
  <2>1. ~NoBucket(Typed(a, front, between, end))
    BY <1>2, <1>4, NoBucketOf
  <2>2. LET c == parse_path(Typed(a, front, between, end))
        IN c.bucket \in Tokens /\ c.prefix \in Seq(Tokens)
    BY <1>2, <1>4, ParseType
  <2> QED
    BY <1>1, <2>1, <2>2
<1> QED
  BY <1>3, <1>4

LEMMA KeysInit == Init => KeysInv
BY DEF Init, KeysInv

LEMMA KeysStep ==
  ASSUME KeysInv, [Next]_vars
  PROVE  KeysInv'
<1> USE DEF KeysInv
<1>1. CASE Configure
  BY <1>1, ConfigureType DEF Configure
<1>2. CASE StartRun
  BY <1>2 DEF StartRun, ArtifactOf
<1>3. CASE SaveModel
  <2>1. UNCHANGED <<config, flavor, objects>>
    BY <1>3 DEF SaveModel
  <2>2. stage' = "failed" \/ (stage' = "saved" /\ ArtifactOf')
    BY <1>3 DEF SaveModel, ArtifactOf
  <2> QED
    BY <1>3, <2>1, <2>2 DEF SaveModel
<1>4. CASE Register
  BY <1>4 DEF Register, ArtifactOf
<1>5. CASE CopyFiles
  <2>1. Uploads = Keys
    BY <1>5, UploadsAreKeys DEF CopyFiles
  <2>2. Keys' = Keys
    BY <1>5 DEF CopyFiles, Keys, Key
  <2> QED
    BY <1>5, <2>1, <2>2 DEF CopyFiles
<1>6. CASE UploadFile
  <2>1. Keys' = Keys
    BY <1>6 DEF UploadFile, Keys, Key
  <2> QED
    BY <1>6, <2>1 DEF UploadFile
<1>7. CASE PutMeta
  <2>1. Keys' = Keys /\ Key(Meta)' = Key(Meta)
    BY <1>7 DEF PutMeta, Keys, Key
  <2>2. MetaKey = Key(Meta)
    BY <1>7, MetaTokens, JoinKey DEF PutMeta, MetaKey
  <2> QED
    BY <1>7, <2>1, <2>2 DEF PutMeta
<1>8. CASE Delete
  <2>1. \A k \in objects : IsPrefix(DeletePrefix, k)
    BY <1>8, KeysHavePrefix DEF Delete
  <2> QED
    BY <1>8, <2>1 DEF Delete
<1>9. CASE UNCHANGED vars
  <2>1. Keys' = Keys /\ Key(Meta)' = Key(Meta) /\ ArtifactOf' = ArtifactOf
    BY <1>9 DEF vars, Keys, Key, ArtifactOf
  <2> QED
    BY <1>9, <2>1 DEF vars
<1> QED
  BY <1>1, <1>2, <1>3, <1>4, <1>5, <1>6, <1>7, <1>8, <1>9 DEF Next, Done

LEMMA KeysTheorem == Spec => []KeysInv
BY KeysInit, KeysStep, PTL DEF Spec

\* Whatever is typed, in whatever spelling, and whatever files a model has: a deletion leaves
\* none of its objects (_delete_deployment_files asks for the prefix of the uploads).
THEOREM DeleteTheorem == Spec => []DeleteEmpties
<1>1. KeysInv => DeleteEmpties
  BY DEF KeysInv, DeleteEmpties
<1> QED
  BY <1>1, KeysTheorem, PTL

(***************************************************************************)
(* Where it is uploaded to.                                                *)
(***************************************************************************)
\* With an endpoint of its own an address ends without a slash.  One that does not is not
\* understood: the expression of parse_path ends with a segment.
SlashesOnlyOnAws == \A a \in Addresses : a.host # <<>> => EndSlashes[a] \subseteq {0}

AddressInv ==
  /\ stage = "invalid" => Words(address) = <<>>
  /\ stage \notin {"start", "invalid"} =>
       address \in Addresses /\ address.words # <<>> /\ Understood(address, config)

\* However an address is typed, Config makes of it what it means.
LEMMA ConfigureUnderstands ==
  ASSUME SlashesOnlyOnAws, Configure
  PROVE  \/ stage' = "invalid" /\ Words(address)' = <<>>
         \/ /\ stage' = "configured"
            /\ address' \in Addresses /\ address'.words # <<>> /\ Understood(address', config')
<1> PICK a \in Addresses, front \in FrontSlashes, between \in InnerSlashes :
           \E end \in EndSlashes[a] :
             /\ address' = a
             /\ LET p == Typed(a, front, between, end) IN
                IF NoBucket(p) THEN stage' = "invalid"
                ELSE stage' = "configured" /\ config' = parse_path(p)
  BY DEF Configure
<1>1. PICK end \in EndSlashes[a] :
           /\ address' = a
           /\ LET p == Typed(a, front, between, end) IN
              IF NoBucket(p) THEN stage' = "invalid"
              ELSE stage' = "configured" /\ config' = parse_path(p)
  OBVIOUS
<1>2. front \in Nat /\ between \in Nat \ {0} /\ between \in Nat /\ end \in Nat
  BY AddressAssumption
<1>3. CASE Words(a) = <<>>
  BY <1>1, <1>2, <1>3, NoBucketOf DEF Words
<1>4. CASE Words(a) # <<>>
  <2>1. ~NoBucket(Typed(a, front, between, end))
    BY <1>2, <1>4, NoBucketOf
  <2>2. stage' = "configured" /\ config' = parse_path(Typed(a, front, between, end))
    BY <1>1, <2>1
  <2>3. CASE a.host = <<>>
    <3>1. a.words # <<>>
      BY <1>4, <2>3, AddressWords, ConcatEmptySeq DEF Words
    <3>2. Understood(a, parse_path(Typed(a, front, between, end)))
      BY <1>2, <2>3, <3>1, ParseAws
    <3> QED
      BY <1>1, <2>2, <3>1, <3>2
  <2>4. CASE a.host # <<>>
    <3>1. a.words # <<>>
      BY <2>4, AddressAssumption
    <3>2. end = 0
      BY <1>1, <2>4 DEF SlashesOnlyOnAws
    <3>3. Understood(a, parse_path(Typed(a, front, between, 0)))
      BY <1>2, <2>4, ParseHost
    <3> QED
      BY <1>1, <2>2, <3>1, <3>2, <3>3
  <2> QED
    BY <2>3, <2>4
<1> QED
  BY <1>3, <1>4

LEMMA AddressStep ==
  ASSUME SlashesOnlyOnAws, AddressInv, [Next]_vars
  PROVE  AddressInv'
<1>1. CASE Configure
  BY <1>1, ConfigureUnderstands DEF AddressInv
<1>2. CASE ~Configure
  <2>1. UNCHANGED <<address, config>>
    BY <1>2 DEF Next, vars, StartRun, SaveModel, Register, CopyFiles, UploadFile, PutMeta, Delete, Done
  <2>2. stage' = stage \/ (stage \notin {"start", "invalid"} /\ stage' \notin {"start", "invalid"})
    BY <1>2 DEF Next, vars, StartRun, SaveModel, Register, CopyFiles, UploadFile, PutMeta, Delete, Done
  <2> QED
    BY <2>1, <2>2 DEF AddressInv, Words, Understood
<1> QED
  BY <1>1, <1>2

LEMMA AddressInvTheorem == SlashesOnlyOnAws => (Spec => []AddressInv)
<1> SUFFICES ASSUME SlashesOnlyOnAws PROVE Spec => []AddressInv
  OBVIOUS
<1>1. Init => AddressInv
  BY DEF Init, AddressInv
<1>2. AddressInv /\ [Next]_vars => AddressInv'
  BY AddressStep
<1> QED
  BY <1>1, <1>2, PTL DEF Spec

LEMMA AddressInvImplies == AddressInv => AddressKept
<1> SUFFICES ASSUME AddressInv PROVE AddressKept
  OBVIOUS
<1>1. ASSUME stage \notin {"start", "invalid"}
      PROVE  Join(config.prefix, <<Name>>) = Spelled(Tail(address.words) \o <<Name>>, 1)
  <2>1. address \in Addresses /\ address.words # <<>> /\ Directory(config.prefix, address.words)
    BY <1>1 DEF AddressInv, Understood
  <2>2. address.words \in Seq(Tokens) /\ \A i \in 1..Len(address.words) : address.words[i] # Slash
    BY <2>1, AddressWords, WordAssumption
  <2> QED
    BY <2>1, <2>2, DirectoryOf
<1> QED
  BY <1>1 DEF AddressInv, AddressKept, Understood, Words

\* For every repository, and however many slashes are typed in front of its address and in
\* it, and behind it when it has no endpoint: endpoint, bucket and directory are the ones
\* that were meant (Config, parse_path and clean_path).
THEOREM AddressTheorem == SlashesOnlyOnAws => (Spec => []AddressKept)
BY AddressInvTheorem, AddressInvImplies, PTL

\* And for all models: once the deployment returns, the files are at the places where they
\* are served, and nothing else is.
THEOREM ServedTheorem == SlashesOnlyOnAws => (Spec => []DeployedWhereServed)
<1>1. KeysInv /\ AddressKept => DeployedWhereServed
  <2> SUFFICES ASSUME KeysInv, AddressKept, stage = "deployed"
               PROVE  objects = {Place(Meta)} \cup
                        IF flavor = "triton" THEN {Place(f) : f \in TritonFiles}
                        ELSE {Place(IF f = Model THEN <<"1", Slash>> \o f ELSE f) : f \in OnnxFiles}
    BY DEF DeployedWhereServed
  <2>1. Join(config.prefix, <<Name>>) = Spelled(Tail(address.words) \o <<Name>>, 1)
    BY DEF AddressKept
  <2>2. \A f : Place(f) = Key(f)
    BY <2>1 DEF Place, Key
  <2>3. \A f : Key(InVersion(f)) = Place(<<"1", Slash>> \o f)
    BY <2>2 DEF InVersion
  <2> HIDE DEF Place
  <2>4. objects = Keys \cup {Key(Meta)}
    BY DEF KeysInv
  <2> QED
    BY <2>2, <2>3, <2>4 DEF Keys
<1> QED
  BY <1>1, KeysTheorem, AddressTheorem, PTL

(***************************************************************************)
(* Model directories.                                                      *)
(***************************************************************************)
\* One more part of a path.
Part(p, before, t) ==
  CASE t \in {Slash, "."} -> before
    [] t = ".." /\ before # <<>> /\ Last(before) # ".." -> Front(before)
    [] t = ".." /\ before = <<>> /\ p[1] = Slash -> before
    [] OTHER -> Append(before, t)

Parts(parts, p) ==
  parts = [i \in 0..Len(p) |-> IF i = 0 THEN <<>> ELSE Part(p, parts[i - 1], p[i])]

LEMMA PartType ==
  ASSUME NEW p, NEW before \in Seq(STRING), NEW t \in STRING
  PROVE  Part(p, before, t) \in Seq(STRING)
<1>1. Append(before, t) \in Seq(STRING)
  BY AppendProperties
<1>2. ASSUME before # <<>> PROVE Front(before) \in Seq(STRING)
  <2>1. Len(before) \in Nat /\ \A i \in 1..(Len(before) - 1) : before[i] \in STRING
    BY LenProperties, ElementOfSeq
  <2>2. 1 \in Int /\ Len(before) - 1 \in Int
    BY <2>1
  <2>3. SubSeq(before, 1, Len(before) - 1) \in Seq(STRING)
    BY <2>1, <2>2, SubSeqProperties
  <2> QED
    BY <2>3 DEF Front
<1>3. \/ Part(p, before, t) = before \/ Part(p, before, t) = Append(before, t)
      \/ before # <<>> /\ Part(p, before, t) = Front(before)
  BY DEF Part
<1> QED
  BY <1>1, <1>2, <1>3

\* normpath takes the parts of every path one after another.
LEMMA NormPathParts ==
  ASSUME NEW p \in Seq(STRING)
  PROVE  \E parts \in [0..Len(p) -> Seq(STRING)] : Parts(parts, p) /\ NormPath(p) = parts[Len(p)]
<1> DEFINE step == [i \in 1..Len(p) |-> [before \in Seq(STRING) |-> Part(p, before, p[i])]]
           parts[i \in 0..Len(p)] ==
             IF i = 0 THEN <<>>
             ELSE LET before == parts[i - 1] IN
                  CASE p[i] \in {Slash, "."} -> before
                    [] p[i] = ".." /\ before # <<>> /\ Last(before) # ".." -> Front(before)
                    [] p[i] = ".." /\ before = <<>> /\ p[1] = Slash -> before
                    [] OTHER -> Append(before, p[i])
<1>1. Len(p) \in Nat /\ \A i \in 1..Len(p) : p[i] \in STRING
  BY ElementOfSeq, LenProperties
<1>2. step \in [1..Len(p) -> [Seq(STRING) -> Seq(STRING)]]
  BY <1>1, PartType
<1>3. <<>> \in Seq(STRING)
  BY EmptySeq
<1>4. PICK f \in [0..Len(p) -> Seq(STRING)] : Iterates(f, <<>>, step, Len(p))
  <2> HIDE DEF step
  <2> QED
    BY <1>1, <1>2, <1>3, Recursion
<1>5. ASSUME NEW i \in 0..Len(p) PROVE f[i] = IF i = 0 THEN <<>> ELSE Part(p, f[i - 1], p[i])
  <2>1. CASE i = 0
    BY <1>4, <2>1 DEF Iterates
  <2>2. CASE i # 0
    <3>1. i \in 1..Len(p) /\ f[i - 1] \in Seq(STRING)
      BY <1>1, <1>4, <2>2
    <3>2. step[i][f[i - 1]] = Part(p, f[i - 1], p[i])
      BY <3>1
    <3> QED
      BY <1>4, <2>2, <3>2 DEF Iterates
  <2> QED
    BY <2>1, <2>2
<1>6. Parts(f, p)
  BY <1>4, <1>5 DEF Parts
<1>7. parts = CHOOSE k : Parts(k, p)
  BY Zenon DEF Parts, Part
<1>8. NormPath(p) = parts[Len(p)]
  BY DEF NormPath
<1> HIDE DEF parts, step
<1>9. Parts(parts, p)
  BY <1>6, <1>7
<1> DEFINE T == {n \in Nat : n <= Len(p) => parts[n] \in Seq(STRING)}
<1>10. 0 \in T
  <2>1. parts[0] = <<>>
    BY <1>1, <1>9 DEF Parts
  <2> QED
    BY <1>3, <2>1
<1>11. ASSUME NEW n \in Nat, n \in T PROVE n + 1 \in T
  <2>1. SUFFICES ASSUME n + 1 <= Len(p) PROVE parts[n + 1] \in Seq(STRING)
    OBVIOUS
  <2>2. n + 1 \in 0..Len(p) /\ n + 1 \in 1..Len(p) /\ parts[n] \in Seq(STRING) /\ n + 1 - 1 = n
    BY <1>1, <1>11, <2>1
  <2>3. parts[n + 1] = Part(p, parts[n], p[n + 1])
    BY <1>9, <2>2 DEF Parts
  <2> QED
    BY <1>1, <2>2, <2>3, PartType
<1> HIDE DEF T
<1>12. Nat \subseteq T
  BY <1>10, <1>11, InductionNat
<1>13. parts \in [0..Len(p) -> Seq(STRING)]
  <2>1. \A n \in 0..Len(p) : parts[n] \in Seq(STRING)
    BY <1>1, <1>12 DEF T
  <2>2. parts = [i \in 0..Len(p) |-> parts[i]]
    BY <1>9 DEF Parts
  <2> QED
    BY <2>1, <2>2
<1> QED
  BY <1>8, <1>9, <1>13

\* A last word that is a name is the name of the directory, whatever comes before it and
\* however many slashes come behind it.
LEMMA BaseNameOf ==
  ASSUME NEW p \in Seq(STRING), NEW last \in 1..Len(p), p[last] \notin {Slash, ".", ".."},
         \A i \in (last + 1)..Len(p) : p[i] = Slash
  PROVE  BaseName(p) = p[last]
<1>1. PICK parts \in [0..Len(p) -> Seq(STRING)] : Parts(parts, p) /\ NormPath(p) = parts[Len(p)]
  BY NormPathParts
<1>2. Len(p) \in Nat /\ \A i \in 1..Len(p) : p[i] \in STRING
  BY LenProperties, ElementOfSeq
<1>3. \A i \in 1..Len(p) : parts[i] = Part(p, parts[i - 1], p[i])
  BY <1>1, <1>2 DEF Parts
<1>4. parts[last] = Append(parts[last - 1], p[last])
  BY <1>2, <1>3 DEF Part
<1> DEFINE T == {n \in Nat : last + n <= Len(p) => parts[last + n] = parts[last]}
<1>5. 0 \in T
  BY <1>2
<1>6. ASSUME NEW n \in Nat, n \in T PROVE n + 1 \in T
  <2>1. SUFFICES ASSUME last + (n + 1) <= Len(p) PROVE parts[last + (n + 1)] = parts[last]
    OBVIOUS
  <2>2. /\ last + (n + 1) \in 1..Len(p) /\ last + (n + 1) \in (last + 1)..Len(p)
        /\ last + (n + 1) - 1 = last + n /\ last + n <= Len(p)
    BY <1>2, <2>1
  <2>3. p[last + (n + 1)] = Slash
    BY <2>2
  <2>4. parts[last + (n + 1)] = Part(p, parts[last + n], Slash)
    BY <1>3, <2>2, <2>3
  <2>5. Part(p, parts[last + n], Slash) = parts[last + n]
    BY DEF Part, Slash
  <2>6. parts[last + n] = parts[last]
    BY <1>6, <2>2
  <2> QED
    BY <2>4, <2>5, <2>6
<1> HIDE DEF T
<1>7. Len(p) - last \in T
  <2>1. Nat \subseteq T
    BY <1>5, <1>6, InductionNat
  <2> QED
    BY <1>2, <2>1
<1>8. last + (Len(p) - last) = Len(p)
  BY <1>2
<1>9. NormPath(p) = Append(parts[last - 1], p[last])
  BY <1>1, <1>2, <1>4, <1>7, <1>8 DEF T
<1>10. parts[last - 1] \in Seq(STRING)
  BY <1>1, <1>2
<1>11. NormPath(p) # <<>> /\ Last(NormPath(p)) = p[last]
  <2>1. /\ NormPath(p) # <<>> /\ Len(NormPath(p)) = Len(parts[last - 1]) + 1
        /\ NormPath(p)[Len(parts[last - 1]) + 1] = p[last]
    BY <1>2, <1>9, <1>10, AppendProperties
  <2> QED
    BY <2>1 DEF Last
<1> QED
  BY <1>11 DEF BaseName

\* The last word of a path.
LEMMA LastWordIs ==
  ASSUME NEW p \in Seq(STRING)
  PROVE  LET last == SelectLastInSeq(p, IsWord) IN
         \/ last = 0
         \/ last \in 1..Len(p) /\ p[last] # Slash /\ \A i \in (last + 1)..Len(p) : p[i] = Slash
<1> DEFINE I == {j \in 1..Len(p) : IsWord(p[j])}
<1>1. Len(p) \in Nat
  BY LenProperties
<1>2. SelectLastInSeq(p, IsWord) = IF I # {} THEN Max(I) ELSE 0
  BY DEF SelectLastInSeq
<1>3. CASE I = {}
  BY <1>2, <1>3
<1>4. CASE I # {}
  <2>1. I \subseteq 0..Len(p)
    BY <1>1
  <2> HIDE DEF I
  <2>2. Max(I) \in I /\ \A y \in I : Max(I) >= y
    BY <1>1, <1>4, <2>1, MaxOf
  <2>3. ASSUME NEW i \in (Max(I) + 1)..Len(p) PROVE p[i] = Slash
    <3>1. Max(I) \in 0..Len(p)
      BY <2>1, <2>2
    <3>2. i \in 1..Len(p) /\ ~(Max(I) >= i)
      BY <1>1, <3>1
    <3>3. i \notin I
      BY <2>2, <3>2
    <3> QED
      BY <3>2, <3>3 DEF I, IsWord
  <2>4. Max(I) \in 1..Len(p) /\ p[Max(I)] # Slash
    BY <2>2 DEF I, IsWord
  <2> QED
    BY <1>2, <1>4, <2>3, <2>4
<1> QED
  BY <1>3, <1>4

NamedInv ==
  /\ stage = "running" => directory \in ModelPaths
  /\ NamedDirectoriesPublish

LEMMA NamedStep ==
  ASSUME NamedInv, [Next]_vars
  PROVE  NamedInv'
<1> USE DEF NamedInv
<1>1. CASE SaveModel
  <2> DEFINE last == SelectLastInSeq(directory, IsWord)
  <2>1. SUFFICES ASSUME stage' = "failed" PROVE last = 0 \/ directory[last] \in {".", ".."}
    BY <1>1 DEF SaveModel, NamedDirectoriesPublish
  <2>2. directory \in ModelPaths /\ BaseName(directory) \in {"", ".", ".."}
    BY <1>1, <2>1 DEF SaveModel
  <2>3. directory \in Seq(STRING) /\ \A i \in 1..Len(directory) : directory[i] # ""
    BY <2>2, FileAssumption
  <2>4. \/ last = 0
        \/ /\ last \in 1..Len(directory) /\ directory[last] # Slash
           /\ \A i \in (last + 1)..Len(directory) : directory[i] = Slash
    BY <2>3, LastWordIs
  <2> HIDE DEF last
  <2>5. CASE last # 0 /\ directory[last] \notin {".", ".."}
    <3>1. BaseName(directory) = directory[last]
      BY <2>3, <2>4, <2>5, BaseNameOf
    <3> QED
      BY <2>2, <2>3, <2>4, <2>5, <3>1
  <2> QED
    BY <2>5
<1>2. CASE ~SaveModel
  BY <1>2 DEF Next, vars, NamedDirectoriesPublish,
              Configure, StartRun, Register, CopyFiles, UploadFile, PutMeta, Delete, Done
<1> QED
  BY <1>1, <1>2

\* Whatever slashes and dots a directory is typed with, it is published when its last word
\* is a name (normpath before basename in save_model).
THEOREM NamedTheorem == Spec => []NamedDirectoriesPublish
<1>1. Init => NamedInv
  BY DEF Init, NamedInv, NamedDirectoriesPublish
<1>2. NamedInv /\ [Next]_vars => NamedInv'
  BY NamedStep
<1>3. NamedInv => NamedDirectoriesPublish
  BY DEF NamedInv
<1> QED
  BY <1>1, <1>2, <1>3, PTL DEF Spec
=============================================================================
