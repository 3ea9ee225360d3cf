------------------------------- MODULE Censor -------------------------------
(***************************************************************************)
(* The profanity filter (game_logic/censor_sensor.cpp).  A phrase is a     *)
(* sequence of characters; Dictionary is _word_tiers as a sequence of      *)
(* words with their tiers, in the order the hash map has them.             *)
(*                                                                         *)
(* clean_profanity is left out: only a test calls it, and of a word that   *)
(* is not the last one it replaces a range that ends before it begins.     *)
(***************************************************************************)
EXTENDS Integers, SequencesExt

CONSTANTS Dictionary,  \* <<[word |-> lower-case characters, tier |-> 0..4], ...>>
          LowerCase    \* what tolower makes of a character

USER_ADDED == 4

ASSUME CensorAssumption ==
  /\ Dictionary \in Seq(Range(Dictionary))
  /\ \A i \in DOMAIN Dictionary :
       LET word == Dictionary[i].word
       IN  word \in Seq(Range(word)) /\ word # <<>> /\ Dictionary[i].tier \in 0 .. USER_ADDED
  /\ \A c \in DOMAIN LowerCase : LowerCase[c] \notin DOMAIN LowerCase
  /\ "*" \notin DOMAIN LowerCase

\* No word has a star, which is what a masked word consists of.
Starless == \A i \in DOMAIN Dictionary : "*" \notin Range(Dictionary[i].word)

\* The constructor enables every tier the dictionary has.
AllTiers == {Dictionary[i].tier : i \in DOMAIN Dictionary}

enable_tier(enabled, tier)  == IF tier <= USER_ADDED THEN enabled \cup {tier} ELSE enabled
disable_tier(enabled, tier) == IF tier <= USER_ADDED THEN enabled \ {tier} ELSE enabled

string_tolower(phrase) ==
  [i \in DOMAIN phrase |-> IF phrase[i] \in DOMAIN LowerCase THEN LowerCase[phrase[i]]
                                                             ELSE phrase[i]]

\* Where word occurs in phrase; find returns the least of them.
Occurrences(phrase, word) ==
  {i \in 1 .. Len(phrase) - Len(word) + 1 : SubSeq(phrase, i, i + Len(word) - 1) = word}

\* A word of an enabled tier is what stands between two spaces.
is_profane(phrase, enabled) ==
  LET lower == string_tolower(phrase)
  IN  \E i, j \in 0 .. Len(lower) + 1 :
        /\ i < j
        /\ i = 0 \/ lower[i] = " "
        /\ j = Len(lower) + 1 \/ lower[j] = " "
        /\ \A k \in i + 1 .. j - 1 : lower[k] # " "
        /\ \E n \in DOMAIN Dictionary :
             /\ Dictionary[n].word = SubSeq(lower, i + 1, j - 1)
             /\ Dictionary[n].tier \in enabled

is_profane_ish(phrase, enabled) ==
  \E n \in DOMAIN Dictionary :
    /\ Occurrences(string_tolower(phrase), Dictionary[n].word) # {}
    /\ Dictionary[n].tier \in enabled

\* Mutant of Masked: one star too few.
MaskedShort(phrase, word) ==
  LET pos == Min(Occurrences(phrase, word))
  IN  [i \in DOMAIN phrase |-> IF i \in pos .. pos + Len(word) - 2 THEN "*" ELSE phrase[i]]

\* The first occurrence of word becomes stars.
Masked(phrase, word) ==
  LET pos == Min(Occurrences(phrase, word))
  IN  [i \in DOMAIN phrase |-> IF i \in pos .. pos + Len(word) - 1 THEN "*" ELSE phrase[i]]

clean_profanity_ish(phrase, enabled) ==
  FoldLeft(LAMBDA text, entry :
             IF Occurrences(text, entry.word) # {} /\ entry.tier \in enabled
               THEN Masked(text, entry.word) ELSE text,
           string_tolower(phrase), Dictionary)
=============================================================================
