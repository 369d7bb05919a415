---------------------------- MODULE SearchIndex ----------------------------
(***************************************************************************)
(* The search index of the documentation, docs/conf.py.  conf.py replaces  *)
(* IndexBuilder.feed of Sphinx.  Sphinx, which is external, builds again   *)
(* what has changed: it reads the sources, loads the index of the last     *)
(* build, prunes it to the documents it will not write, feeds those that   *)
(* it writes, one at a time, and stores the index.                         *)
(***************************************************************************)
CONSTANTS
  Docs,       \* document names
  Contents,   \* what a document may hold: [title, body], two sets of words
  Words,      \* words, as written and as indexed
  Stem,       \* self.lang.stem(word).lower()
  Lower,      \* word.lower()
  Short,      \* the words of at most three letters
  StopWords   \* the words word_filter refuses

ASSUME ContentAssumption == Contents \subseteq [title : SUBSET Words, body : SUBSET Words]
ASSUME WordAssumption ==
  /\ Stem \in [Words -> Words] /\ Lower \in [Words -> Words]
  /\ \A w \in Words : Lower[Lower[w]] = Lower[w]
  /\ StopWords \subseteq {Lower[w] : w \in Words}

VARIABLES
  source,         \* the files on disk, by document name
  read,           \* the sources the last or the running build read
  unfed,          \* documents the running build has still to write
  building,
  titles,         \* _titles, here the content it was fed with
  titleMapping,   \* _title_mapping, as pairs of key and document
  mapping         \* _mapping, as pairs

vars == <<source, read, unfed, building, titles, titleMapping, mapping>>

NoFiles == [d \in {} |-> {}]

Init ==
  /\ source = NoFiles /\ read = NoFiles /\ unfed = {} /\ building = FALSE
  /\ titles = NoFiles /\ titleMapping = {} /\ mapping = {}

(***************************************************************************)
(* Authors.                                                                *)
(***************************************************************************)
Write ==
  /\ \E d \in Docs, c \in Contents :
       source' = [e \in DOMAIN source \cup {d} |-> IF e = d THEN c ELSE source[e]]
  /\ UNCHANGED <<read, unfed, building, titles, titleMapping, mapping>>

Remove ==
  /\ \E d \in DOMAIN source : source' = [e \in DOMAIN source \ {d} |-> source[e]]
  /\ UNCHANGED <<read, unfed, building, titles, titleMapping, mapping>>

(***************************************************************************)
(* The build.                                                              *)
(***************************************************************************)
Changed ==
  {d \in DOMAIN source : d \notin DOMAIN read \/ read[d] # source[d]}

Only(pairs, D) == {p \in pairs : p[2] \in D}

\* Read the sources, load the stored index, prune it.  Documents that have not changed
\* may be written too (a page that lists another is).
StartBuild ==
  /\ ~building /\ building' = TRUE
  /\ read' = source
  /\ \E W \in SUBSET DOMAIN source :
       /\ Changed \subseteq W
       /\ unfed' = W
       /\ LET keep == DOMAIN source \ W IN
          /\ titles' = [d \in DOMAIN titles \cap keep |-> titles[d]]
          /\ titleMapping' = Only(titleMapping, keep)
          /\ mapping' = Only(mapping, keep)
  /\ UNCHANGED source

Accepted(w) == w \notin StopWords

\* Faulty variant: only the stem is tried.
TitleKeysStemOnly(W) == {Stem[w] : w \in {v \in W : Accepted(Stem[v])}}

\* The keys of title words.
TitleKeys(W) ==
  LET Stems(w) == Stem[w] \notin Short /\ Accepted(Stem[w])
  IN {Stem[w] : w \in {v \in W : Stems(v)}} \cup
     {Lower[w] : w \in {v \in W : ~Stems(v) /\ Accepted(v)}}

\* Faulty variant: short stems are taken, as Sphinx does.
BodyKeyShort(w) == IF ~Accepted(Stem[w]) /\ Accepted(w) THEN Lower[w] ELSE Stem[w]

\* The key of a word of the text.
BodyKey(w) ==
  IF Stem[w] \in Short \/ (~Accepted(Stem[w]) /\ Accepted(w)) THEN Lower[w] ELSE Stem[w]

\* Faulty variant: any title will do.
AlreadyIndexedAnywhere(k, d, pairs) == \E p \in pairs : p[1] = k

AlreadyIndexed(k, d, pairs) == <<k, d>> \in pairs

Feed(d) ==
  LET doc  == read[d]
      keys == {k \in {BodyKey(w) : w \in doc.body} : Accepted(k)}
  IN
  /\ d \in unfed /\ unfed' = unfed \ {d}
  /\ titles' = [e \in DOMAIN titles \cup {d} |-> IF e = d THEN doc ELSE titles[e]]
  /\ titleMapping' = titleMapping \cup {<<k, d>> : k \in TitleKeys(doc.title)}
  /\ mapping' = mapping \cup {<<k, d>> : k \in {j \in keys : ~AlreadyIndexed(j, d, titleMapping')}}
  /\ UNCHANGED <<source, read, building>>

FinishBuild ==
  /\ building /\ unfed = {}
  /\ building' = FALSE
  /\ UNCHANGED <<source, read, unfed, titles, titleMapping, mapping>>

Next == Write \/ Remove \/ StartBuild \/ (\E d \in Docs : Feed(d)) \/ FinishBuild

Spec == Init /\ [][Next]_vars

(***************************************************************************)
(* Properties.                                                             *)
(***************************************************************************)
Found(k) == {p[2] : p \in {q \in mapping \cup titleMapping : q[1] = k}}

\* Searching finds what is there: after every build, incremental or not, the documents
\* under a key are those of the sources read that hold a word with that key, whatever
\* was fed or pruned in former builds and in whatever order: nothing removed, rewritten or
\* forgotten lingers, and what feed leaves out of the text's index is in the title's.
IndexFollowsSources ==
  ~building =>
    /\ titles = read
    /\ \A k \in Words : k \notin StopWords =>
         Found(k) = {d \in DOMAIN read :
                       \/ k \in TitleKeys(read[d].title)
                       \/ \E w \in read[d].body : BodyKey(w) = k}

\* "stemmer must not remove words from search index": a word that is no stop word leads
\* to its document, by its stem or as it is written in lower case.
StemmerRemovesNothing ==
  \A d \in DOMAIN titles : \A w \in titles[d].title \cup titles[d].body :
    Accepted(Lower[w]) => d \in Found(Stem[w]) \cup Found(Lower[w])

\* What the patch is for (tts, not tt): a key of at most three letters is a word of the
\* document it leads to, never what the stemmer left of one.
ShortKeysAreWords ==
  \A p \in mapping \cup titleMapping :
    p[1] \in Short =>
      \E w \in titles[p[2]].title \cup titles[p[2]].body : Lower[w] = p[1]
=============================================================================
