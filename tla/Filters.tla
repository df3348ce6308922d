------------------------------- MODULE Filters ------------------------------
(***************************************************************************)
(* Two filters that read their input in pieces: grep searches every line   *)
(* for a pattern (grep.c), wc counts (wc.c).  A piece is what one read     *)
(* gives, a part of a file, a line of the console or what a pipe holds.    *)
(***************************************************************************)
EXTENDS Integers, Sequences, SequencesExt, FiniteSets, FiniteSetsExt

CONSTANTS BUFSIZE,   \* of grep
          Patterns,  \* sequences of characters, ".", "*", "^" and "$"
          MaxInput   \* the longest input

Char == {"a", " ", "nl"}

VARIABLES
  input,  \* what was read so far
  re,     \* the pattern
  carry,  \* the characters m at the start of grep's buffer
  out,    \* the lines that grep has written
  count,  \* l, w, c and inword of wc
  cut     \* a read of grep has not ended a line

vars == <<input, re, carry, out, count, cut>>

Init ==
  /\ input = <<>> /\ re \in Patterns
  /\ carry = <<>> /\ out = <<>> /\ cut = FALSE
  /\ count = [l |-> 0, w |-> 0, c |-> 0, inword |-> FALSE]

-----------------------------------------------------------------------------
(***************************************************************************)
(* grep: the matcher, and the lines of a buffer                            *)
(***************************************************************************)
RECURSIVE matchhere(_, _), matchstar(_, _, _)
\* Mutant: a * matches one instance at least.
matchstarPlus(c, r, text) ==
  text # <<>> /\ (Head(text) = c \/ c = ".") /\ (matchhere(r, Tail(text)) \/ matchstar(c, r, Tail(text)))
matchstar(c, r, text) ==
  \/ matchhere(r, text)
  \/ text # <<>> /\ (Head(text) = c \/ c = ".") /\ matchstar(c, r, Tail(text))
matchhere(r, text) ==
  IF r = <<>> THEN TRUE
  ELSE IF Len(r) > 1 /\ r[2] = "*" THEN matchstar(r[1], SubSeq(r, 3, Len(r)), text)
  ELSE IF r = <<"$">> THEN text = <<>>
  ELSE text # <<>> /\ r[1] \in {".", Head(text)} /\ matchhere(Tail(r), Tail(text))
match(r, text) ==
  IF r # <<>> /\ r[1] = "^" THEN matchhere(Tail(r), text)
  ELSE \E i \in 1..(Len(text) + 1) : matchhere(r, SubSeq(text, i, Len(text)))

Ends(b) == {i \in DOMAIN b : b[i] = "nl"}
Lines(b) ==
  LET line(i) == SubSeq(b, Max({j \in Ends(b) : j < i} \cup {0}) + 1, i - 1)
      ends == SetToSortSeq(Ends(b), <)
  IN [k \in DOMAIN ends |-> line(ends[k])]

\* What is carried to the next read: an unfinished line, but nothing when the
\* buffer holds no end of a line.
Rest(b) == IF Ends(b) = {} THEN <<>> ELSE SubSeq(b, Max(Ends(b)) + 1, Len(b))

grep(piece) ==
  LET b == carry \o piece
  IN /\ out' = out \o SelectSeq(Lines(b), LAMBDA x : match(re, x))
     /\ carry' = Rest(b)
     /\ cut' = (cut \/ Ends(b) = {})

(***************************************************************************)
(* wc                                                                      *)
(***************************************************************************)
Counted(n, ch) ==
  [l |-> n.l + IF ch = "nl" THEN 1 ELSE 0,
   w |-> n.w + IF ch \in {" ", "nl"} \/ n.inword THEN 0 ELSE 1,
   c |-> n.c + 1,
   inword |-> ch \notin {" ", "nl"}]
wc(piece) == count' = FoldLeft(Counted, count, piece)

Read(piece) ==
  /\ Len(carry) + Len(piece) < BUFSIZE /\ Len(input) + Len(piece) <= MaxInput
  /\ input' = input \o piece
  /\ grep(piece) /\ wc(piece) /\ UNCHANGED re

Next == \E n \in 1..(BUFSIZE - 1) : \E piece \in [1..n -> Char] : Read(piece)

Spec == Init /\ [][Next]_vars

-----------------------------------------------------------------------------
(***************************************************************************)
(* What a pattern means: characters, each one time or, with a * behind it, *)
(* any number of times.                                                    *)
(***************************************************************************)
RECURSIVE Items(_)
Items(r) == IF r = <<>> THEN <<>>
            ELSE IF Len(r) > 1 /\ r[2] = "*" THEN << <<r[1], TRUE>> >> \o Items(SubSeq(r, 3, Len(r)))
            ELSE << <<r[1], FALSE>> >> \o Items(Tail(r))

\* Text is the items, repeated as often as times says.
Fits(items, times, text) ==
  LET at == FoldLeft(LAMBDA s, k : s \o [i \in 1..times[k] |-> items[k][1]], <<>>, [k \in DOMAIN items |-> k])
  IN Len(at) = Len(text) /\ \A i \in DOMAIN at : at[i] \in {".", text[i]}
InLanguage(r, text) ==
  LET first == r # <<>> /\ r[1] = "^"
      items == Items(IF first THEN Tail(r) ELSE r)
      last == items # <<>> /\ Last(items) = <<"$", FALSE>>
      body == IF last THEN Front(items) ELSE items
  IN \E i \in 1..(Len(text) + 1), j \in 0..Len(text) :
       /\ first => i = 1
       /\ last => j = Len(text)
       /\ \E times \in [DOMAIN body -> 0..Len(text)] :
            /\ \A k \in DOMAIN body : ~body[k][2] => times[k] = 1
            /\ i <= j + 1 /\ Fits(body, times, SubSeq(text, i, j))

\* However the input comes in pieces, wc counts its lines, words and
\* characters, and grep writes exactly the lines that have a part in the
\* language of the pattern, provided that every read ends a line: grep drops
\* the beginning of a line that no read has ended.
FiltersExact ==
  LET white(i) == input[i] \in {" ", "nl"}
  IN /\ count.c = Len(input) /\ count.l = Cardinality(Ends(input))
     /\ count.w = Cardinality({i \in DOMAIN input : ~white(i) /\ (i > 1 => white(i - 1))})
     /\ ~cut => out = SelectSeq(Lines(input), LAMBDA x : InLanguage(re, x))
=============================================================================
