-------------------------------- MODULE Phones --------------------------------
(***************************************************************************)
(* One identifier for every way a player types a phone number              *)
(* (app/domain/phone.py).  A typed character is a digit 0..9, Plus, a      *)
(* Persian or Arabic digit (a key of Translation), a digit of some other   *)
(* script or anything else.                                                *)
(***************************************************************************)
EXTENDS Integers, Sequences, SequencesExt

CONSTANTS
  Length,        \* digits of a subscriber number, the leading 9 included (ten)
  Plus,
  Translation,   \* Persian and Arabic digits -> 0..9
  OtherDigits    \* of scripts that the table does not know

Digits == 0..9

PhonesAssumption ==
  /\ Length \in Nat \ {0} /\ Plus \notin Digits \cup DOMAIN Translation \cup OtherDigits
  /\ Translation \in [DOMAIN Translation -> Digits]
  /\ DOMAIN Translation \subseteq Int /\ OtherDigits \subseteq Int /\ Plus \in Int
  /\ DOMAIN Translation \cap (Digits \cup OtherDigits) = {}

Refused == <<>>

Ascii(char) == IF char \in DOMAIN Translation THEN Translation[char] ELSE char
\* What \d matches; Python takes the digits of every script for digits.
Numerals == Digits \cup OtherDigits

Meant == Numerals \cup {Plus} \cup DOMAIN Translation

Cleaned(raw) ==
  LET kept(c) == IF c \in Numerals \cup {Plus} THEN <<c>> ELSE <<>>
  IN FlattenSeq([n \in DOMAIN raw |-> kept(Ascii(raw[n]))])

\* Mutant: the shortest prefix first.
CountryPrefixes_Short == <<<<0>>, <<9, 8>>, <<0, 0, 9, 8>>, <<Plus, 9, 8>>>>
\* Longest first.
CountryPrefixes == <<<<Plus, 9, 8>>, <<0, 0, 9, 8>>, <<9, 8>>, <<0>>>>

\* What follows the first prefix of the list that fits.
Remainder(cleaned) ==
  LET fits == {n \in DOMAIN CountryPrefixes : IsPrefix(CountryPrefixes[n], cleaned)} IN
  IF fits = {} THEN cleaned
  ELSE LET n == CHOOSE n \in fits : \A m \in fits : n <= m IN
       SubSeq(cleaned, Len(CountryPrefixes[n]) + 1, Len(cleaned))

IsSubscriberNumber(s) ==
  Len(s) = Length /\ s[1] = 9 /\ \A n \in DOMAIN s : s[n] \in Numerals

\* The identifier, or Refused where the code raises.
Normalize(raw) ==
  LET remainder == Remainder(Cleaned(raw)) IN
  IF IsSubscriberNumber(remainder) THEN <<Plus, 9, 8>> \o remainder ELSE Refused

-----------------------------------------------------------------------------
(* Properties                                                              *)

Spellings(identifier) ==
  LET subscriber == SubSeq(identifier, 4, Len(identifier)) IN
  {CountryPrefixes[n] \o subscriber : n \in DOMAIN CountryPrefixes} \cup {subscriber}

\* Whatever is accepted is taken for the number it spells and no other, which
\* is again its own identifier; every spelling with a prefix is accepted, and
\* a bare number unless it reads as one with a country code.
SpellingsAreOne(raw) ==
  LET identifier == Normalize(raw) IN
  identifier # Refused =>
    /\ Cleaned(raw) \in Spellings(identifier)
    /\ Normalize(identifier) = identifier
    /\ \A s \in Spellings(identifier) :
         Normalize(s) = identifier \/ (Len(s) = Length /\ IsPrefix(<<9, 8>>, s))

\* Spaces, dashes and other scripts' digits change nothing.
KeyboardsAgree(raw, filler) ==
  /\ \A n \in 0..Len(raw) : Normalize(InsertAt(raw, n + 1, filler)) = Normalize(raw)
  /\ \A n \in DOMAIN raw : \A char \in DOMAIN Translation :
       Translation[char] = raw[n] => Normalize([raw EXCEPT ![n] = char]) = Normalize(raw)
=============================================================================
