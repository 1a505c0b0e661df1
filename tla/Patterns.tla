------------------------------ MODULE Patterns ------------------------------
(***************************************************************************)
(* Patterns that texts are matched against.  A text is a sequence of       *)
(* characters; "*", "?", "%", "_" and "\\" are the ones that mean          *)
(* something in one kind of pattern or the other.                          *)
(***************************************************************************)
EXTENDS Naturals, Sequences

\* Mutant: LIKE's own wildcards are left as they are.
LikeForUnescaped(char) ==
    IF char = "*" THEN <<"%">> ELSE IF char = "?" THEN <<"_">> ELSE <<char>>

LikeFor(char) ==
    CASE char = "*" -> <<"%">>
      [] char = "?" -> <<"_">>
      [] char \in {"\\", "%", "_"} -> <<"\\", char>>
      [] OTHER -> <<char>>

globToLike(pattern) ==
    LET like[k \in 0..Len(pattern)] ==
            IF k = 0 THEN <<>> ELSE like[k - 1] \o LikeFor(pattern[k])
    IN  like[Len(pattern)]

\* LIKE ... ESCAPE '\': where in the text, up to just behind its end, that which
\* the pattern from its i-th character on matches may begin.
Like(pattern, text) ==
    LET Same(i, j) == j <= Len(text) /\ pattern[i] = text[j]
        begins[i \in 1..(Len(pattern) + 2)] ==
            {j \in 1..(Len(text) + 1) :
                IF i > Len(pattern) THEN i = Len(pattern) + 1 /\ j = Len(text) + 1
                ELSE CASE pattern[i] = "%" -> \E k \in begins[i + 1] : j <= k
                       [] pattern[i] = "_" -> j + 1 \in begins[i + 1]
                       [] pattern[i] = "\\" ->
                            i < Len(pattern) /\ Same(i + 1, j) /\ j + 1 \in begins[i + 2]
                       [] OTHER -> Same(i, j) /\ j + 1 \in begins[i + 1]}
    IN  1 \in begins[1]

\* What the caller means: "*" stands for any text, "?" for any character, and
\* every other character for itself.  A matching cuts the text into a piece for
\* each character of the pattern.
Glob(pattern, text) ==
    \E cut \in [0..Len(pattern) -> 0..Len(text)] :
        /\ cut[0] = 0 /\ cut[Len(pattern)] = Len(text)
        /\ \A k \in 1..Len(pattern) :
              IF pattern[k] = "*" THEN cut[k] >= cut[k - 1]
              ELSE /\ cut[k] = cut[k - 1] + 1
                   /\ pattern[k] # "?" => text[cut[k]] = pattern[k]
=============================================================================
