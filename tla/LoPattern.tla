----------------------------- MODULE LoPattern -----------------------------
(***************************************************************************)
(* liblo's glob (pattern_match.c): does a path match a pattern?            *)
(*                                                                         *)
(* A string is a sequence of characters, and a pointer into it a place, the *)
(* one of its NUL included.  Match is the matcher, at each character of    *)
(* the pattern with all the places of the string at which it would         *)
(* succeed; StandsFor is what the comments of the file say of a pattern:   *)
(* each of its parts stands for a set of strings.                          *)
(***************************************************************************)
EXTENDS Integers, Sequences

CONSTANTS
  Alphabet,   \* the characters in use, in the order of their codes
  Patterns    \* the patterns in use, and the parts of each: [text, means]

Code(c) == CHOOSE i \in DOMAIN Alphabet : Alphabet[i] = c

Special == {" ", "#", "*", ",", "?", "[", "]", "{", "}"}

(* strpbrk(path, " #*,?[]{}"): such a path is a pattern. *)
IsPattern(path) == \E i \in DOMAIN path : path[i] \in Special

(* The first place of p from j on that holds one of C, or its end. *)
Find(p, j, C) ==
  CHOOSE k \in j..Len(p) + 1 :
    /\ k = Len(p) + 1 \/ p[k] \in C
    /\ \A l \in j..k - 1 : p[l] \notin C

(* a-b: "[z-a] may be interpreted as a set that contains z, a and nothing   *)
(* in between"                                                              *)
InRange(x, a, b) == x = a \/ x = b \/ (Code(a) < Code(x) /\ Code(x) < Code(b))

(* The scan of a set from j on, behind the bracket and the negation: it     *)
(* ends with the first hit, or at the closing bracket.                      *)
InSet(x, p, j) ==
  LET hits[k \in j..Len(p)] ==
        /\ k < Len(p)
        /\ IF p[k + 1] = "-"
           THEN /\ k + 2 <= Len(p)
                /\ IF p[k + 2] = "]" THEN Code(x) >= Code(p[k])
                   ELSE InRange(x, p[k], p[k + 2]) \/ hits[k + 2]
           ELSE x = p[k] \/ (p[k + 1] # "]" /\ (x = p[k + 1] \/ hits[k + 1]))
  IN  j <= Len(p) /\ hits[j]

(* A bracket at j; the closing one is looked for behind the first character *)
(* of the set.  later: where the rest of the pattern matches, by its place. *)
Set(s, p, j, later) ==
  LET negate == j < Len(p) /\ p[j + 1] = "!"
      set == IF negate THEN j + 2 ELSE j + 1
      close == Find(p, set + 1, {"]"})
      rest == later[close + 1]
  IN  {i \in 1..Len(s) : /\ set < Len(p) /\ close <= Len(p)
                         /\ InSet(s[i], p, set) # negate
                         /\ i + 1 \in rest}

Star_takesOne(s, rest) == {i \in 1..Len(s) : \E k \in i + 1..Len(s) : k \in rest}

(* The rest matches behind some characters; but it is never tried on the    *)
(* empty string.                                                            *)
Star(s, rest) == {i \in 1..Len(s) : \E k \in i..Len(s) : k \in rest}

(* A brace list from j on, that ends at close: the places to which the      *)
(* current alternative may have come, if all began at place.                *)
Alternatives(s, p, j, close, place, rest) ==
  LET try[k \in j..close] ==
        CASE p[k] = "," -> {i \in 1..Len(s) + 1 : i \in rest \/ (k + 2 <= close /\ place \in try[k + 2])}
          [] p[k] = "}" -> rest
          [] OTHER ->
               LET comma == Find(p, k + 1, {",", "}"})
               IN  {i \in 1..Len(s) + 1 :
                     IF i <= Len(s) /\ s[i] = p[k]
                     THEN ~ (i = Len(s) /\ close < Len(p)) /\ i + 1 \in try[k + 1]
                     ELSE comma < close /\ place \in try[comma + 1]}
  IN  try[j]

(* A brace at j. *)
Braces(s, p, j, later) ==
  LET close == Find(p, j + 1, {"}"})
      rest == later[close + 1]
  IN  {i \in 1..Len(s) : /\ close <= Len(p)
                         /\ i \in Alternatives(s, p, j + 1, close, i, rest)}

(* lo_pattern_match *)
Match(s, p) ==
  LET matches[j \in 1..Len(p) + 1] ==
        IF j > Len(p) THEN {Len(s) + 1}
        ELSE LET rest == matches[j + 1]
             IN  CASE p[j] = "*" -> IF j = Len(p) THEN 1..Len(s) + 1
                                    ELSE IF p[j + 1] = "*" THEN rest
                                    ELSE Star(s, rest)
                   [] p[j] = "?" -> {i \in 1..Len(s) : i + 1 \in rest}
                   [] p[j] = "[" -> Set(s, p, j, matches)
                   [] p[j] = "{" -> Braces(s, p, j, matches)
                   [] OTHER -> {i \in 1..Len(s) : s[i] = p[j] /\ i + 1 \in rest}
  IN  1 \in matches[1]

-----------------------------------------------------------------------------
(* The reference. *)

(* The parts of a pattern cut s into as many pieces, each of them one of    *)
(* the strings that its part means.                                         *)
Means(s, parts) ==
  LET ends[k \in 0..Len(parts)] ==
        IF k = 0 THEN {0}
        ELSE LET starts == ends[k - 1]
             IN  {e \in 0..Len(s) : \E b \in starts :
                    b <= e /\ SubSeq(s, b + 1, e) \in parts[k].means}
  IN  Len(s) \in ends[Len(parts)]

StandsFor(path, s) == IF IsPattern(path) THEN Means(s, Patterns[path]) ELSE s = path

Text(parts) ==
  LET text[k \in 0..Len(parts)] == IF k = 0 THEN << >> ELSE text[k - 1] \o parts[k].text
  IN  text[Len(parts)]

ASSUME PatternAssumption ==
  /\ \A i, j \in DOMAIN Alphabet : Alphabet[i] = Alphabet[j] => i = j
  /\ \A p \in DOMAIN Patterns : p = Text(Patterns[p])
=============================================================================
