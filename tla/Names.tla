-------------------------------- MODULE Names -------------------------------
(***************************************************************************)
(* Paths and the names in directories, character by character where the    *)
(* limit DIRSIZ matters: skipelem and namecmp of fs.c over string.c.  A    *)
(* buffer of DIRSIZ characters holds a name, without NUL when it is full;  *)
(* namex uses one buffer for all elements of a path.                       *)
(***************************************************************************)
EXTENDS Integers, Sequences, SequencesExt, FiniteSetsExt

CONSTANTS DIRSIZ,
          MaxPath   \* the longest path

NUL == "nul"
Char == {"/", "x", "y"}

VARIABLE path

Init == path = <<>>
Next == \E c \in Char : Len(path) < MaxPath /\ path' = Append(path, c)
Spec == Init /\ [][Next]_path

-----------------------------------------------------------------------------
(***************************************************************************)
(* string.c, on buffers that are sequences                                 *)
(***************************************************************************)
\* n characters from place s to place d of the memory b, one by one, downwards
\* when the places overlap that way.
memmove(b, d, s, n) ==
  LET order == IF s < d /\ s + n > d THEN [i \in 1..n |-> n - i] ELSE [i \in 1..n |-> i - 1]
  IN FoldLeft(LAMBDA x, i : [x EXCEPT ![d + i] = x[s + i]], b, order)

\* strncmp(p, q, n) is zero.
strncmp(p, q, n) ==
  \A k \in 1..n : (\A j \in 1..(k - 1) : p[j] = q[j] /\ p[j] # NUL) => p[k] = q[k]

strncpy(t, n) ==
  LET end == Min({k \in 1..n : t[k] = NUL} \cup {n + 1})
  IN [k \in 1..n |-> IF k < end THEN t[k] ELSE NUL]

-----------------------------------------------------------------------------
\* From place i on, the first place with a slash, or without one.
Upto(s, i, slash) == Min({j \in i..Len(s) : (s[j] = "/") = slash} \cup {Len(s) + 1})

\* The next element of s goes into name; what is left of s.
skipelem(s, name) ==
  LET from == Upto(s, 1, FALSE)
      end == Upto(s, from, TRUE)
      len == end - from
  IN [left |-> SubSeq(s, Upto(s, end, FALSE), Len(s)),
      name |-> [k \in 1..DIRSIZ |-> IF k <= len THEN s[from + k - 1]
                                    ELSE IF k = len + 1 THEN NUL ELSE name[k]]]

\* The contents of the buffer name in every turn of the loop of namex.
RECURSIVE namex(_, _)
namex(s, name) ==
  IF Upto(s, 1, FALSE) > Len(s) THEN <<>>
  ELSE LET r == skipelem(s, name) IN <<r.name>> \o namex(r.left, r.name)

namecmp(s, t) == strncmp(s, t, DIRSIZ)

\* The name of a new entry.
dirlink(name) == strncpy(name, DIRSIZ)

-----------------------------------------------------------------------------
\* The elements of the path: the places where they begin, and the first
\* DIRSIZ characters of the one at place i.
Begins == SetToSortSeq({i \in DOMAIN path : path[i] # "/" /\ (i > 1 => path[i - 1] = "/")}, <)
Element(i) == SubSeq(path, i, Min({Upto(path, i, TRUE) - 1, i + DIRSIZ - 1}))

\* namex goes through the elements of a path, however many slashes there are,
\* and one element finds the entry that was made for another exactly when
\* they agree in their first DIRSIZ characters, whatever the buffer still
\* holds of longer names; memmove copies what was there before it began.
NamesExact ==
  LET names == namex(path, [k \in 1..DIRSIZ |-> "y"])
  IN /\ Len(names) = Len(Begins)
     /\ \A i, j \in DOMAIN Begins :
          namecmp(names[i], dirlink(names[j])) <=> Element(Begins[i]) = Element(Begins[j])
     /\ \A d, s \in DOMAIN path : \A n \in 0..(Len(path) + 1 - Max({d, s})) :
          memmove(path, d, s, n) = [i \in DOMAIN path |-> IF i \in d..(d + n - 1) THEN path[i - d + s] ELSE path[i]]
=============================================================================
