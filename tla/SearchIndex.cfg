\* Two documents that come, change and go while the index is built again and again.
SPECIFICATION Spec
CONSTANTS
  docA = docA
  docB = docB
  Docs = {docA, docB}
  Contents <- MCContents
  Words <- MCWords
  Stem <- MCStem
  Lower <- MCLower
  Short <- MCShort
  StopWords <- MCStopWords
INVARIANTS IndexFollowsSources StemmerRemovesNothing ShortKeysAreWords
