----------------------------- MODULE WordFilter -----------------------------
(***************************************************************************)
(* The sensitive word filter (src/util/dfa_filter.go): a trie of words,    *)
(* and the search of a sentence for them.  The trie is the set of its      *)
(* paths and the set of paths that end a word.  Runes are model values;    *)
(* what IsMatch and HandleWord strip first is the set Blanks.              *)
(***************************************************************************)
EXTENDS Naturals, Sequences, SequencesExt, Selection

CONSTANTS
    Runes,        \* what words are made of
    Blanks,       \* the blank and "&"
    Mask,         \* the rune HandleWord puts in the place of a word's
    Words,        \* words that may be inserted
    MaxSentence   \* bound: length of a sentence

ASSUME FilterAssumption ==
    /\ Blanks \cap Runes = {} /\ Mask \notin Runes \cup Blanks
    /\ Words \subseteq Seq(Runes) /\ MaxSentence \in Nat

VARIABLES
    paths, ends,  \* the trie
    sentence,     \* history: the sentence handled last
    found,        \* history: the matches in it, as pairs of indices
    handled       \* history: what HandleWord returned for it

filter == <<paths, ends, sentence, found, handled>>

NewDFAUtil ==
    /\ paths = {<< >>} /\ ends = {}
    /\ sentence = << >> /\ found = << >> /\ handled = << >>

\* insertWord, as NewDFAUtil and DFAInsertWord call it.
DFAInsertWord(word) ==
    /\ word # << >> /\ word \notin ends
    /\ paths' = paths \cup {SubSeq(word, 1, n) : n \in 0..Len(word)}
    /\ ends' = ends \cup {word}
    /\ sentence' = << >> /\ found' = << >> /\ handled' = << >>

StartsWith(prefix) == prefix \in paths
SearcWord(word) == word \in ends

\* Mutant: the shortest word is taken.
BugLongest(text, start, end) ==
    LET hits == {i \in start..(end - 1) : SearcWord(SubSeq(text, start, i))}
    IN  IF hits = {} THEN << >> ELSE <<<<start, CHOOSE i \in hits : \A j \in hits : i <= j>>>>

\* The longest word that starts at start and ends before end.
Longest(text, start, end) ==
    LET hits == {i \in start..(end - 1) : SearcWord(SubSeq(text, start, i))}
    IN  IF hits = {} THEN << >> ELSE <<<<start, CHOOSE i \in hits : \A j \in hits : i >= j>>>>

\* One turn of the loop of searcSentence, with indices from 1: as long as text
\* from start to end is a path it grows; when it is not, the search goes on
\* with the rune that did not fit.
Turn(text, s, end) ==
    IF StartsWith(SubSeq(text, s.start, end)) THEN [s EXCEPT !.startsWith = TRUE]
    ELSE [start |-> end, startsWith |-> FALSE,
          found |-> s.found \o (IF s.startsWith THEN Longest(text, s.start, end) ELSE << >>)]

\* Where the loop is after so many turns.
Loop(text) ==
    LET after[end \in Nat] ==
          IF end = 0 THEN [start |-> 1, startsWith |-> FALSE, found |-> << >>]
          ELSE Turn(text, after[end - 1], end)
    IN  after

SearcSentence(text) ==
    LET s == Loop(text)[Len(text)]
    IN  s.found \o (IF s.startsWith THEN Longest(text, s.start, Len(text) + 1) ELSE << >>)

Stripped(text) == Selected(text, {i \in 1..Len(text) : text[i] \notin Blanks})

Masked(text, matches) ==
    [i \in 1..Len(text) |->
       IF \E k \in 1..Len(matches) : i \in matches[k][1]..matches[k][2] THEN Mask ELSE text[i]]

\* HandleWord; IsMatch is whether found is not empty.
HandleWord(text) ==
    /\ sentence' = text
    /\ found' = SearcSentence(Stripped(text))
    /\ handled' = IF found' = << >> THEN text ELSE Masked(Stripped(text), found')
    /\ UNCHANGED <<paths, ends>>

FilterNext ==
    \/ \E word \in Words : DFAInsertWord(word)
    \/ \E text \in BoundedSeq(Runes \cup Blanks, MaxSentence) : HandleWord(text)

FilterSpec == NewDFAUtil /\ [][FilterNext]_filter

-----------------------------------------------------------------------------
(* Properties.                                                              *)

\* A word of the list stands at i to j.
Occurs(text, i, j) == j <= Len(text) /\ SubSeq(text, i, j) \in ends

\* Before i a path has begun that goes on to i.
Behind(text, i) == \E s \in 1..(i - 1) : SubSeq(text, s, i) \in paths

\* The search marks only words of the list, each the longest at its place, no
\* two of them overlapping.  It misses one only if it is a single rune behind
\* the first, which the search steps over unless a longer path begins there,
\* or if it starts inside another word or the beginning of one, which is not
\* looked at again.  Where nothing was found the sentence stays as it was.
FilterAgrees ==
    LET text == Stripped(sentence)
    IN  /\ \A k \in 1..Len(found) :
             /\ Occurs(text, found[k][1], found[k][2])
             /\ \A j \in found[k][2] + 1..Len(text) : ~Occurs(text, found[k][1], j)
             /\ k > 1 => found[k - 1][2] < found[k][1]
        /\ \A i \in 1..Len(text) :
             (\E j \in i..Len(text) : Occurs(text, i, j) /\ (i = 1 \/ i < j)) =>
                \/ \E k \in 1..Len(found) : i \in found[k][1]..found[k][2]
                \/ Behind(text, i)
        /\ found = << >> => handled = sentence
=============================================================================
