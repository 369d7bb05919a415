--------------------------- MODULE MCSearchIndex ---------------------------
(* A small instance of SearchIndex for TLC: words on each side of every test of feed. *)
EXTENDS SearchIndex, TLC

CONSTANTS docA, docB

\* A plain word, one with a short stem, one whose stem is a stop word, a stop word that
\* is written with a capital; and what becomes of them.
MCWords == {"Servers", "servers", "server", "TTS", "tts", "tt", "theirs", "their", "The", "the"}

MCStem ==
  [w \in MCWords |-> CASE w \in {"Servers", "servers", "server"} -> "server"
                       [] w \in {"TTS", "tts", "tt"} -> "tt"
                       [] w \in {"theirs", "their"} -> "their"
                       [] OTHER -> "the"]
MCLower ==
  [w \in MCWords |-> CASE w = "Servers" -> "servers" [] w = "TTS" -> "tts"
                       [] w = "The" -> "the" [] OTHER -> w]
MCShort     == {"TTS", "tts", "tt", "The", "the"}
MCStopWords == {"their", "the"}

Page(t, b) == [title |-> t, body |-> b]
MCContents ==
  {Page({"Servers"}, {"server", "TTS", "theirs"}),
   Page({"TTS", "theirs"}, {"servers", "their", "The"}),
   Page({"The"}, {"tts", "the"})}
=============================================================================
