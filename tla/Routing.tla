------------------------------ MODULE Routing ------------------------------
(***************************************************************************)
(* How the emulated broker decides whether a binding reaches a routing key *)
(* (internal/queues/routing.go).  A key is the sequence of words that      *)
(* strings.Split(key, ".") yields; what a word is made of does not matter. *)
(***************************************************************************)
EXTENDS Naturals, Sequences

\* The exchange kinds emu routes, and the two wildcards of a topic pattern.
Kinds == {"direct", "fanout", "topic"}
OneWord == "*"
AnyWords == "#"

----------------------------------------------------------------------------
\* Mutants: plausible slips in the matcher and in the choice of kind.
HashTakesAWord(pattern, words) ==
  LET match[at \in (1 .. Len(pattern) + 1) \X (1 .. Len(words) + 1)] ==
        LET p == at[1]  w == at[2]
        IN  IF p > Len(pattern) THEN w > Len(words)
            ELSE IF pattern[p] = AnyWords
            THEN w <= Len(words) /\ (match[<<p + 1, w + 1>>] \/ match[<<p, w + 1>>])
            ELSE /\ w <= Len(words)
                 /\ pattern[p] \in {OneWord, words[w]}
                 /\ match[<<p + 1, w + 1>>]
  IN match[<<1, 1>>]

----------------------------------------------------------------------------
\* wordsMatch on the suffixes of the pattern and of the key that start at p
\* and w: "#" either stands for nothing more, or swallows a word and stays.
WordsMatch(pattern, words) ==
  LET match[at \in (1 .. Len(pattern) + 1) \X (1 .. Len(words) + 1)] ==
        LET p == at[1]  w == at[2]
        IN  IF p > Len(pattern) THEN w > Len(words)
            ELSE IF pattern[p] = AnyWords
            THEN match[<<p + 1, w>>] \/ (w <= Len(words) /\ match[<<p, w + 1>>])
            ELSE /\ w <= Len(words)
                 /\ pattern[p] \in {OneWord, words[w]}
                 /\ match[<<p + 1, w + 1>>]
  IN match[<<1, 1>>]

Reaches(kind, pattern, key) ==
  CASE kind = "fanout" -> TRUE
    [] kind = "topic" -> WordsMatch(pattern, key)
    [] OTHER -> pattern = key

----------------------------------------------------------------------------
\* What matching means: the key can be cut into one stretch per word of the
\* pattern, of any length for "#", and of one word otherwise, the same one or
\* any for "*".  A stretch begins after the word at from and ends with to.
Stands(word, key, from, to) ==
  IF word = AnyWords THEN from <= to ELSE to = from + 1 /\ word \in {OneWord, key[to]}

CutsTo(pattern, key) ==
  \E cut \in [0 .. Len(pattern) -> 0 .. Len(key)] :
    /\ cut[0] = 0 /\ cut[Len(pattern)] = Len(key)
    /\ \A p \in 1 .. Len(pattern) : Stands(pattern[p], key, cut[p - 1], cut[p])

============================================================================
