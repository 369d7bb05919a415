------------------------------- MODULE S3Path -------------------------------
(***************************************************************************)
(* deploy/mlflow-triton-plugin/mlflow_triton/config.py: how the plugin     *)
(* cleans the value of TRITON_MODEL_REPO and takes it apart into endpoint, *)
(* bucket and prefix.  A path is a sequence of tokens: slashes, scheme     *)
(* names with their colon, and words; between two words is a slash.        *)
(***************************************************************************)
EXTENDS Naturals, SequencesExt

CONSTANTS
  Hosts,      \* words of the form host:port
  Buckets,    \* words of digits, lower-case letters, dots and hyphens
  Segments    \* words of digits, letters, dots, hyphens and underscores

Slash == "/"
S3    == <<"s3:", Slash, Slash>>
Https == <<"https:", Slash, Slash>>
Http  == <<"http:", Slash, Slash>>
Aws   == <<>>       \* no endpoint of its own: the one of AWS

\* A host has a colon before its port, which no segment has, and a scheme no port.
ASSUME WordAssumption ==
  /\ (Hosts \cup Segments) \cap {Slash, S3[1], Https[1], Http[1]} = {}
  /\ Buckets \subseteq Segments /\ Hosts \cap Segments = {}

\* os.path.join
Join(a, b) ==
  IF b # <<>> /\ b[1] = Slash THEN b
  ELSE IF a = <<>> \/ Last(a) = Slash THEN a \o b
  ELSE a \o <<Slash>> \o b

\* s stands in p at i.
Occurs(s, p, i) ==
  i + Len(s) <= Len(p) + 1 /\ \A j \in 1..Len(s) : p[i + j - 1] = s[j]

\* The first place of s in p, 0 when there is none.
Find(p, s) ==
  LET places == {i \in 1..Len(p) : Occurs(s, p, i)}
  IN IF places = {} THEN 0 ELSE Min(places)

\* What follows the first s in p; all of p when there is none.
After(p, s) == IF Find(p, s) = 0 THEN p ELSE SubSeq(p, Find(p, s) + Len(s), Len(p))

\* https:// is looked for first, and anywhere in the path.
Scheme(p) == IF Find(p, Https) # 0 THEN Https
             ELSE IF Find(p, Http) # 0 THEN Http ELSE <<>>

IsWord(t) == t # Slash

\* The slice [ltrim_length : rtrim_length + 1]: without leading slashes, and with one
\* trailing slash if there is any.
TruePath(p) ==
  SubSeq(p, SelectInSeq(p, IsWord), Min({SelectLastInSeq(p, IsWord) + 1, Len(p)}))

\* Faulty variant: previous_slash is never reset.
CollapseSticky(p) ==
  LET kept[i \in 0..Len(p)] ==
        IF i = 0 THEN <<>>
        ELSE IF p[i] = Slash /\ Contains(kept[i - 1], Slash) THEN kept[i - 1]
        ELSE Append(kept[i - 1], p[i])
  IN kept[Len(p)]

\* The loop over true_path: of several slashes in a row one is kept.
Collapse(p) ==
  LET kept[i \in 0..Len(p)] ==
        IF i = 0 THEN <<>>
        ELSE IF p[i] = Slash /\ kept[i - 1] # <<>> /\ Last(kept[i - 1]) = Slash THEN kept[i - 1]
        ELSE Append(kept[i - 1], p[i])
  IN kept[Len(p)]

Protocol(p) == Scheme(After(p, S3))
Path(p)     == After(After(p, S3), Protocol(p))

\* Nothing but slashes is left for the bucket: clean_path raises.
NoBucket(p) == SelectInSeq(Path(p), IsWord) = 0

clean_path(p) ==
  (IF Find(p, S3) = 0 THEN <<>> ELSE S3) \o Protocol(p) \o Collapse(TruePath(Path(p)))

\* The expression s3_regex after its s3:// and scheme: host and port, a bucket, and
\* segments each after a slash.
MatchesRegex(r) ==
  /\ Len(r) >= 3 /\ Len(r) % 2 = 1
  /\ r[1] \in Hosts /\ r[3] \in Buckets
  /\ \A i \in 2..Len(r) : IF i % 2 = 0 THEN r[i] = Slash ELSE r[i] \in Segments

\* A path the expression does not match is taken to begin with the bucket.
parse_path(p) ==
  LET c   == clean_path(p)
      uri == After(c, S3)
      r   == Path(c)
  IN
  IF MatchesRegex(r)
  THEN [endpoint |-> (IF Protocol(c) = Https THEN Https ELSE Http) \o <<r[1]>>,
        bucket   |-> r[3],
        prefix   |-> SubSeq(r, 5, Len(r))]
  ELSE [endpoint |-> Aws,
        bucket   |-> uri[1],
        prefix   |-> SubSeq(uri, 3, Len(uri))]

\* The value of triton_model_repo once the configuration is read.
CleanRepo(uri) == S3 \o Join(<<uri.bucket>>, uri.prefix)
=============================================================================
