-------------------------------- MODULE Codes --------------------------------
(***************************************************************************)
(* Printed product codes (app/domain/codes.py): a city prefix, a random    *)
(* body and one check character, in one of several registered formats that *)
(* are told apart by their length.                                         *)
(*                                                                         *)
(* A character is a number: 0 .. base-1 are the values of the alphabet's   *)
(* characters, the rest are letters outside it.  A prefix is a pair of     *)
(* characters.                                                             *)
(***************************************************************************)
EXTENDS Integers, Sequences, FiniteSets, SequencesExt

CONSTANTS
  FORMATS,     \* registered formats: [base, body, grouping, aliases]
  CityIndex,   \* CITY_CHECK_INDEX by prefix
  LetterO,     \* the letter a 0 in a prefix stands for
  Separators,  \* dashes, spaces, invisible characters
  Hash, Scheme, Slash   \* "#", "://" and "/" of a scanned URL

CityPrefixes == DOMAIN CityIndex
PrefixLength == 2

CanonicalLength(f) == PrefixLength + f.body + 1

\* CodeFormat.__post_init__ and register_format, as far as formats vary here;
\* no two cities have one index, and prefixes are letters without a 0.
FormatsAreValid ==
  /\ \A f \in FORMATS :
       /\ f.base \in Nat /\ f.base >= 2 /\ f.body \in Nat \ {0}
       /\ f.grouping \in Seq(Nat \ {0}) /\ f.grouping # <<>>
       /\ SumFunction(f.grouping) = f.body + 1
       /\ DOMAIN f.aliases \subseteq Nat
       /\ \A c \in DOMAIN f.aliases : c >= f.base /\ f.aliases[c] \in 0..(f.base - 1)
       /\ \A p \in CityPrefixes : CityIndex[p] < f.base
  /\ \A f, g \in FORMATS : CanonicalLength(f) = CanonicalLength(g) => f = g
  /\ CityIndex \in [CityPrefixes -> Nat]
  /\ \A p, q \in CityPrefixes : CityIndex[p] = CityIndex[q] => p = q
  /\ CityPrefixes \subseteq [1..PrefixLength -> Int \ {0}]

\* Separators and the marks of a URL are no characters of a code.
MarksAreApart ==
  /\ Hash \notin {Scheme, Slash} /\ Separators \cap {Hash, Scheme, Slash} = {}
  /\ \A mark \in Separators \cup {Hash, Scheme, Slash} :
       /\ mark \notin Nat
       /\ \A p \in CityPrefixes : mark \notin Range(p)

-----------------------------------------------------------------------------
(* Luhn mod N                                                              *)

\* _luhn_mod_n_sum: the factors alternate from the right, and a product of
\* two digits counts as the sum of its digits.
LuhnSum(values, factor, base) ==
  LET product(n) == values[n] * (IF (Len(values) - n) % 2 = 0 THEN factor ELSE 3 - factor)
  IN SumFunction([n \in DOMAIN values |-> (product(n) \div base) + (product(n) % base)])

\* Mutant: the city is left out of the sum.
CheckValue_Body(city, body, f) ==
  (f.base - (LuhnSum(body, 2, f.base) % f.base)) % f.base

\* compute_check_value: the city's index leads the body.
CheckValue(city, body, f) ==
  (f.base - (LuhnSum(<<CityIndex[city]>> \o body, 2, f.base) % f.base)) % f.base

CheckIsValid(city, tail, f) ==
  LuhnSum(<<CityIndex[city]>> \o tail, 1, f.base) % f.base = 0

-----------------------------------------------------------------------------
(* Codes as they are made, printed and typed                               *)

\* generate_code, the random body given.
Code(city, body, f) == city \o Append(body, CheckValue(city, body, f))

\* format_printed: the groups joined by a separator.
Printed(code, f, dash) ==
  LET start(n) == PrefixLength + SumFunction(SubSeq(f.grouping, 1, n - 1))
      group(n) == SubSeq(code, start(n) + 1, start(n) + f.grouping[n])
  IN FlattenSeq(<<SubSeq(code, 1, PrefixLength)>> \o
                [n \in DOMAIN f.grouping |-> <<dash>> \o group(n)])

After(text, marks) ==
  LET last == CHOOSE n \in DOMAIN text :
                text[n] \in marks /\ \A m \in (n + 1)..Len(text) : text[m] \notin marks
  IN SubSeq(text, last + 1, Len(text))

\* _strip_qr_wrapper: what follows the last "#", or else the last "/" of a URL.
Unwrapped(raw) ==
  CASE Contains(raw, Hash) -> After(raw, {Hash})
    [] ~Contains(raw, Hash) /\ Contains(raw, Scheme) -> After(raw, {Scheme, Slash})
    [] OTHER -> raw

\* normalize_input: separators go; case and the digits of other scripts are
\* folded before a character has a number here.
Normalized(text) ==
  FlattenSeq([n \in DOMAIN text |-> IF text[n] \in Separators THEN <<>> ELSE <<text[n]>>])

Malformed == [problem |-> "MALFORMED"]
Mistyped == [problem |-> "MISTYPED"]

ParseAs(text, f) ==
  LET prefix == [n \in 1..PrefixLength |-> IF text[n] = 0 THEN LetterO ELSE text[n]]
      typed == SubSeq(text, PrefixLength + 1, Len(text))
      tail == [n \in DOMAIN typed |->
                 IF typed[n] \in DOMAIN f.aliases THEN f.aliases[typed[n]] ELSE typed[n]]
  IN CASE prefix \notin CityPrefixes -> Malformed
       [] prefix \in CityPrefixes /\ ~(Range(tail) \subseteq 0..(f.base - 1)) -> Malformed
       [] OTHER -> IF CheckIsValid(prefix, tail, f)
                   THEN [problem |-> "none", city |-> prefix,
                         canonical |-> prefix \o tail, format |-> f]
                   ELSE Mistyped

\* parse_code: the length picks the format.
Parse(raw) ==
  LET text == Normalized(Unwrapped(raw))
      fitting == {f \in FORMATS : CanonicalLength(f) = Len(text)}
  IN IF fitting = {} THEN Malformed
     ELSE ParseAs(text, CHOOSE f \in fitting : TRUE)

Generated(city, body, f) ==
  city \in CityPrefixes /\ f \in FORMATS /\ body \in [1..f.body -> 0..(f.base - 1)]

-----------------------------------------------------------------------------
(* What the format promises                                                *)

Swapped(code, n) == [code EXCEPT ![n] = code[n + 1], ![n + 1] = code[n]]

\* docs/CODES.md, section 4, for one code of an alphabet with an even number
\* of characters, as those of both registered formats: one wrong character in
\* the body or the check, and one wrong prefix, are always noticed (MISTYPED,
\* never a different valid code); of two neighbours swapped only the first and
\* the last character of the alphabet get by.
SlipsAreCaught(city, body, f) ==
  LET code == Code(city, body, f)
      tail == (PrefixLength + 1)..Len(code)
  IN f.base % 2 = 0 =>
     /\ \A n \in tail, c \in 0..(f.base - 1) :
          c # code[n] => Parse([code EXCEPT ![n] = c]) = Mistyped
     /\ \A other \in CityPrefixes \ {city} :
          Parse(other \o SubSeq(code, PrefixLength + 1, Len(code))) = Mistyped
     /\ \A n \in tail \ {Len(code)} :
          code[n] # code[n + 1] /\ {code[n], code[n + 1]} # {0, f.base - 1} =>
            Parse(Swapped(code, n)) = Mistyped

\* The same code comes back however it is written: canonical, grouped by any
\* separator, with look-alike letters, with 0 for O, from either form of URL.
SpellingsAgree(city, body, f) ==
  LET code == Code(city, body, f)
      parsed == [problem |-> "none", city |-> city, canonical |-> code, format |-> f]
      lookalike(c) == IF \E a \in DOMAIN f.aliases : f.aliases[a] = c
                      THEN CHOOSE a \in DOMAIN f.aliases : f.aliases[a] = c ELSE c
      misread == [n \in DOMAIN code |->
                    IF n > PrefixLength THEN lookalike(code[n])
                    ELSE IF code[n] = LetterO THEN 0 ELSE code[n]]
  IN \A spelling \in {code, misread} \cup {Printed(code, f, dash) : dash \in Separators} :
       /\ Parse(spelling) = parsed
       /\ Parse(<<Scheme, 1, Slash, 2, Slash>> \o spelling) = parsed
       /\ Parse(<<Scheme, 1, Slash, 2, Hash>> \o spelling) = parsed
=============================================================================
