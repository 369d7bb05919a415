------------------------- MODULE SearchIndexProofs -------------------------
(***************************************************************************)
(* That the search index is right after every build, for any documents,    *)
(* words, stemmer and stop words: its invariant says of the documents that *)
(* have been fed what the property says of all of them when none is left.  *)
(***************************************************************************)
EXTENDS SearchIndex, TLAPS

\* A function from some documents to what documents may hold.
Files(f) ==
  /\ f = [d \in DOMAIN f |-> f[d]]
  /\ DOMAIN f \subseteq Docs
  /\ \A d \in DOMAIN f : f[d] \in Contents

Fed == DOMAIN read \ unfed

\* The keys feed finds in the text of a document.
BodyKeys(doc) == {k \in {BodyKey(w) : w \in doc.body} : Accepted(k)}

BuildInv ==
  /\ building \in BOOLEAN
  /\ unfed \subseteq DOMAIN read
  /\ ~building => unfed = {}

TitlesInv == titles = [d \in Fed |-> read[d]]

TitleMappingInv ==
  /\ titleMapping \subseteq Words \X Fed
  /\ \A d \in Fed, k \in Words : <<k, d>> \in titleMapping <=> k \in TitleKeys(read[d].title)

MappingInv ==
  /\ mapping \subseteq Words \X Fed
  /\ \A d \in Fed, k \in Words :
       <<k, d>> \in mapping <=> k \in BodyKeys(read[d]) /\ k \notin TitleKeys(read[d].title)

IndexInv ==
  /\ Files(source) /\ Files(read)
  /\ BuildInv /\ TitlesInv /\ TitleMappingInv /\ MappingInv

-----------------------------------------------------------------------------
\* The keys feed computes are words.
LEMMA KeysAreWords ==
  ASSUME NEW c \in Contents
  PROVE  TitleKeys(c.title) \subseteq Words /\ BodyKeys(c) \subseteq Words
<1>1. c.title \subseteq Words /\ c.body \subseteq Words
  BY ContentAssumption
<1>2. \A w \in Words : Stem[w] \in Words /\ Lower[w] \in Words
  BY WordAssumption
<1> QED
  BY <1>1, <1>2 DEF TitleKeys, BodyKeys, BodyKey

LEMMA InitIndex == Init => IndexInv
  BY DEF Init, IndexInv, Files, BuildInv, TitlesInv, TitleMappingInv, MappingInv, Fed, NoFiles

\* Writing or removing a file touches neither the build nor the index.
LEMMA AuthorKeeps == IndexInv /\ (Write \/ Remove) => IndexInv'
<1> SUFFICES ASSUME IndexInv, Write \/ Remove PROVE IndexInv'
  OBVIOUS
<1> USE DEF IndexInv
<1>1. Files(source')
  <2>1. CASE Write
    <3>1. PICK d \in Docs, c \in Contents :
            source' = [e \in DOMAIN source \cup {d} |-> IF e = d THEN c ELSE source[e]]
      BY <2>1 DEF Write
    <3> QED  BY <3>1 DEF Files
  <2>2. CASE Remove
    <3>1. PICK d \in DOMAIN source : source' = [e \in DOMAIN source \ {d} |-> source[e]]
      BY <2>2 DEF Remove
    <3> QED  BY <3>1 DEF Files
  <2> QED  BY <2>1, <2>2
<1>2. UNCHANGED <<read, unfed, building, titles, titleMapping, mapping>>
  BY DEF Write, Remove
<1> QED
  BY <1>1, <1>2 DEF Files, BuildInv, TitlesInv, TitleMappingInv, MappingInv, Fed

\* What is not pruned was fed and has not changed.
LEMMA StartKeeps == IndexInv /\ StartBuild => IndexInv'
<1> SUFFICES ASSUME IndexInv, StartBuild PROVE IndexInv'
  OBVIOUS
<1> USE DEF IndexInv
<1>1. PICK W \in SUBSET DOMAIN source :
        /\ Changed \subseteq W
        /\ unfed' = W
        /\ titles' = [d \in DOMAIN titles \cap (DOMAIN source \ W) |-> titles[d]]
        /\ titleMapping' = Only(titleMapping, DOMAIN source \ W)
        /\ mapping' = Only(mapping, DOMAIN source \ W)
  BY DEF StartBuild
<1>2. ~building /\ building' = TRUE /\ read' = source /\ source' = source
  BY DEF StartBuild
<1>3. Fed = DOMAIN read
  BY <1>2 DEF BuildInv, Fed
<1>4. Fed' = DOMAIN source \ W
  BY <1>1, <1>2 DEF Fed
<1>5. \A d \in Fed' : d \in Fed /\ read[d] = source[d]
  BY <1>1, <1>3, <1>4 DEF Changed
<1>6. Files(source') /\ Files(read') /\ BuildInv'
  BY <1>1, <1>2 DEF Files, BuildInv
<1>7. TitlesInv'
  <2>1. DOMAIN titles \cap (DOMAIN source \ W) = Fed'
    BY <1>4, <1>5 DEF TitlesInv
  <2>2. titles' = [d \in Fed' |-> titles[d]]
    BY <1>1, <2>1
  <2>3. \A d \in Fed' : titles[d] = read'[d]
    BY <1>2, <1>5 DEF TitlesInv
  <2> QED
    BY <2>2, <2>3 DEF TitlesInv
<1>8. TitleMappingInv'
  BY <1>1, <1>2, <1>4, <1>5 DEF TitleMappingInv, Only
<1>9. MappingInv'
  BY <1>1, <1>2, <1>4, <1>5 DEF MappingInv, Only
<1> QED
  BY <1>6, <1>7, <1>8, <1>9

\* Feeding a document adds its keys, and no pair of another.
LEMMA FeedKeeps == \A d \in Docs : IndexInv /\ Feed(d) => IndexInv'
<1> SUFFICES ASSUME NEW d \in Docs, IndexInv, Feed(d) PROVE IndexInv'
  OBVIOUS
<1> USE DEF IndexInv
<1>1. /\ d \in unfed /\ unfed' = unfed \ {d}
      /\ titles' = [e \in DOMAIN titles \cup {d} |-> IF e = d THEN read[d] ELSE titles[e]]
      /\ titleMapping' = titleMapping \cup {<<k, d>> : k \in TitleKeys(read[d].title)}
      /\ mapping' = mapping \cup
           {<<k, d>> : k \in {j \in BodyKeys(read[d]) : ~AlreadyIndexed(j, d, titleMapping')}}
      /\ UNCHANGED <<source, read, building>>
  BY DEF Feed, BodyKeys
<1>2. Fed' = Fed \cup {d} /\ d \notin Fed /\ d \in DOMAIN read /\ read[d] \in Contents
  BY <1>1 DEF BuildInv, Fed, Files
<1>3. TitleKeys(read[d].title) \subseteq Words /\ BodyKeys(read[d]) \subseteq Words
  BY <1>2, KeysAreWords
<1>4. Files(source') /\ Files(read') /\ BuildInv'
  BY <1>1 DEF Files, BuildInv
<1>5. TitlesInv'
  BY <1>1, <1>2 DEF TitlesInv
<1>6. TitleMappingInv'
  BY <1>1, <1>2, <1>3 DEF TitleMappingInv
<1>7. \A k \in Words : AlreadyIndexed(k, d, titleMapping') <=> k \in TitleKeys(read[d].title)
  BY <1>1, <1>2, <1>6 DEF AlreadyIndexed, TitleMappingInv
<1>8. MappingInv'
  <2>1. \A k \in Words : <<k, d>> \in mapping' <=>
          k \in BodyKeys(read[d]) /\ k \notin TitleKeys(read[d].title)
    BY <1>1, <1>2, <1>3, <1>7 DEF MappingInv
  <2>2. \A e \in Fed, k \in Words : <<k, e>> \in mapping' <=> <<k, e>> \in mapping
    BY <1>1, <1>2
  <2>3. mapping' \subseteq Words \X Fed'
    <3>1. \A p \in mapping' : p \in mapping \/ \E k \in BodyKeys(read[d]) : p = <<k, d>>
      BY <1>1
    <3> QED
      BY <1>2, <1>3, <3>1 DEF MappingInv
  <2> QED
    BY <1>1, <1>2, <2>1, <2>2, <2>3 DEF MappingInv
<1> QED
  BY <1>4, <1>5, <1>6, <1>8

LEMMA FinishKeeps == IndexInv /\ FinishBuild => IndexInv'
  BY DEF IndexInv, FinishBuild, Files, BuildInv, TitlesInv, TitleMappingInv, MappingInv, Fed

LEMMA NextKeeps == IndexInv /\ [Next]_vars => IndexInv'
<1>1. IndexInv /\ UNCHANGED vars => IndexInv'
  BY DEF vars, IndexInv, Files, BuildInv, TitlesInv, TitleMappingInv, MappingInv, Fed
<1> QED
  BY <1>1, AuthorKeeps, StartKeeps, FeedKeeps, FinishKeeps DEF Next

\* The invariant is the property once nothing is left to feed.
LEMMA InvFollows == IndexInv => IndexFollowsSources
<1> SUFFICES ASSUME IndexInv, ~building
             PROVE  /\ titles = read
                    /\ \A k \in Words : k \notin StopWords =>
                         Found(k) = {d \in DOMAIN read :
                                       \/ k \in TitleKeys(read[d].title)
                                       \/ \E w \in read[d].body : BodyKey(w) = k}
  BY DEF IndexFollowsSources
<1>1. Fed = DOMAIN read
  BY DEF IndexInv, BuildInv, Fed
<1>2. titles = read
  BY <1>1 DEF IndexInv, TitlesInv, Files
<1>3. ASSUME NEW k \in Words, k \notin StopWords
      PROVE  Found(k) = {d \in DOMAIN read :
                           \/ k \in TitleKeys(read[d].title)
                           \/ \E w \in read[d].body : BodyKey(w) = k}
  <2>1. \A d : d \in Found(k) <=> <<k, d>> \in mapping \cup titleMapping
    BY DEF Found, IndexInv, MappingInv, TitleMappingInv
  <2>2. \A d \in DOMAIN read : k \in BodyKeys(read[d]) <=> \E w \in read[d].body : BodyKey(w) = k
    BY <1>3 DEF BodyKeys, Accepted
  <2> QED
    BY <1>1, <2>1, <2>2 DEF IndexInv, MappingInv, TitleMappingInv
<1> QED
  BY <1>2, <1>3

\* After every build, incremental or not, the index is that of the sources read.
THEOREM IndexCorrect == Spec => []IndexFollowsSources
<1> QED
  BY InitIndex, NextKeeps, InvFollows, PTL DEF Spec

-----------------------------------------------------------------------------
\* What a word of a document that has been fed leads to.
LEMMA WordFound ==
  ASSUME IndexInv, NEW d \in DOMAIN titles,
         NEW w \in titles[d].title \cup titles[d].body, Accepted(Lower[w])
  PROVE  d \in Found(Stem[w]) \cup Found(Lower[w])
<1>1. d \in Fed /\ titles[d] = read[d] /\ read[d] \in Contents
  BY DEF IndexInv, TitlesInv, Files, Fed
<1>2. w \in Words /\ Stem[w] \in Words /\ Lower[w] \in Words
  BY <1>1, ContentAssumption, WordAssumption
<1>3. \A k \in Words : k \in TitleKeys(read[d].title) \/ k \in BodyKeys(read[d]) => d \in Found(k)
  <2>1. \A k \in Words : k \in TitleKeys(read[d].title) \/ k \in BodyKeys(read[d])
          => <<k, d>> \in mapping \cup titleMapping
    BY <1>1 DEF IndexInv, MappingInv, TitleMappingInv
  <2>2. \A k : <<k, d>> \in mapping \cup titleMapping => d \in Found(k)
    BY DEF Found
  <2> QED
    BY <2>1, <2>2
<1>4. Accepted(w)
  BY <1>2, WordAssumption DEF Accepted
<1>5. CASE w \in titles[d].title
  <2>1. Stem[w] \in TitleKeys(read[d].title) \/ Lower[w] \in TitleKeys(read[d].title)
    BY <1>1, <1>4, <1>5 DEF TitleKeys
  <2> QED
    BY <1>2, <1>3, <2>1
<1>6. CASE w \in titles[d].body
  <2>1. BodyKey(w) \in {Stem[w], Lower[w]} /\ Accepted(BodyKey(w))
    BY <1>4 DEF BodyKey
  <2>2. BodyKey(w) \in BodyKeys(read[d])
    BY <1>1, <1>6, <2>1 DEF BodyKeys
  <2> QED
    BY <1>2, <1>3, <2>1, <2>2
<1> QED
  BY <1>5, <1>6

\* The stemmer removes no word from the index.
THEOREM NothingRemoved == Spec => []StemmerRemovesNothing
<1>1. IndexInv => StemmerRemovesNothing
  BY WordFound DEF StemmerRemovesNothing
<1> QED
  BY <1>1, InitIndex, NextKeeps, PTL DEF Spec

\* A key that is no word of the document is a stem of more than three letters.
LEMMA ShortKeyIsWord ==
  ASSUME IndexInv, NEW p \in mapping \cup titleMapping, p[1] \in Short
  PROVE  \E w \in titles[p[2]].title \cup titles[p[2]].body : Lower[w] = p[1]
<1>1. p[1] \in Words /\ p[2] \in Fed /\ p = <<p[1], p[2]>> /\ titles[p[2]] = read[p[2]]
  BY DEF IndexInv, TitleMappingInv, MappingInv, TitlesInv
<1>2. p[1] \in TitleKeys(read[p[2]].title) \/ p[1] \in BodyKeys(read[p[2]])
  BY <1>1 DEF IndexInv, TitleMappingInv, MappingInv
<1>3. \A W : p[1] \in TitleKeys(W) => \E w \in W : Lower[w] = p[1]
  BY DEF TitleKeys
<1>4. p[1] \in BodyKeys(read[p[2]]) => \E w \in read[p[2]].body : Lower[w] = p[1]
  BY DEF BodyKeys, BodyKey
<1> QED
  BY <1>1, <1>2, <1>3, <1>4

\* A short key is a word of the document, not what the stemmer left of one.
THEOREM ShortKeysCorrect == Spec => []ShortKeysAreWords
<1>1. IndexInv => ShortKeysAreWords
  BY ShortKeyIsWord DEF ShortKeysAreWords
<1> QED
  BY <1>1, InitIndex, NextKeeps, PTL DEF Spec
=============================================================================
