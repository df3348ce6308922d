--------------------------- MODULE SignalsProofs ----------------------------
(***************************************************************************)
(* Proofs about Signals, for every set of signals, handlers, dispositions  *)
(* and masks of the program.                                               *)
(***************************************************************************)
EXTENDS Signals, SequenceTheorems, TLAPS

-----------------------------------------------------------------------------
(***************************************************************************)
(* The stack of traps.                                                     *)
(***************************************************************************)

\* The innermost trap goes on as t.
LEMMA Replaced ==
  ASSUME NEW a \in Seq(Traps), a # <<>>, NEW t \in Traps
  PROVE  LET b == <<t>> \o Tail(a)
         IN  /\ b \in Seq(Traps) /\ Len(b) = Len(a) /\ b # <<>> /\ b[1] = t
             /\ \A n \in 2 .. Len(a) : b[n] = a[n]
  OBVIOUS

\* An interrupt adds a trap.
LEMMA Pushed ==
  ASSUME NEW a \in Seq(Traps), NEW t \in Traps
  PROVE  LET b == <<t>> \o a
         IN  /\ b \in Seq(Traps) /\ Len(b) = Len(a) + 1 /\ b # <<>> /\ b[1] = t
             /\ \A n \in 1 .. Len(a) : b[n + 1] = a[n]
  OBVIOUS

\* The innermost trap returns.
LEMMA Popped ==
  ASSUME NEW a \in Seq(Traps), a # <<>>
  PROVE  /\ Tail(a) \in Seq(Traps) /\ Len(Tail(a)) = Len(a) - 1
         /\ \A n \in 1 .. Len(a) - 1 : Tail(a)[n] = a[n + 1]
         /\ Head(a) = a[1] /\ a[1] \in Traps
  OBVIOUS

\* The next operation of a trap.
LEMMA FirstOp ==
  ASSUME NEW s \in Seq(Ops \X Sig), s # <<>>
  PROVE  1 \in 1 .. Len(s) /\ Head(s) = s[1]
  OBVIOUS

\* A new trap.
LEMMA NewTrap ==
  ASSUME NEW at \in Places, NEW cli \in BOOLEAN
  PROVE  /\ Trap(at, cli) \in Traps
         /\ <<Trap(at, cli)>> \in Seq(Traps) /\ Len(<<Trap(at, cli)>>) = 1
  BY EmptySeq DEF Trap, Traps, Sig, End

\* A set of numbers between a and a + n - 1 has a least one.
LeastWithin(n) ==
  \A a \in Int : \A S \in SUBSET (a .. a + n - 1) :
    S # {} => \E m \in S : \A k \in S : m <= k

\* Twice as many numbers: the least one is in the first half, if any is there.
LEMMA LeastDoubles == ASSUME NEW n \in Nat, LeastWithin(n) PROVE LeastWithin(2 * n)
<1> SUFFICES ASSUME NEW a \in Int, NEW S \in SUBSET (a .. a + 2 * n - 1), S # {}
             PROVE  \E m \in S : \A k \in S : m <= k
  BY Zenon DEF LeastWithin
<1> DEFINE A == S \cap (a .. a + n - 1)
<1>1. CASE A # {}
  <2>1. A \in SUBSET (a .. a + n - 1)
    OBVIOUS
  <2>2. PICK m \in A : \A k \in A : m <= k
    BY Zenon, <1>1, <2>1 DEF LeastWithin
  <2>3. \A k \in S \ A : m <= k
    BY <2>2
  <2> QED
    BY <2>2, <2>3
<1>2. CASE A = {}
  <2>1. S \in SUBSET (a + n .. a + n + n - 1) /\ a + n \in Int
    BY <1>2
  <2> QED
    BY Zenon, <2>1 DEF LeastWithin
<1> QED
  BY <1>1, <1>2

\* The signals, and the end of the loop over them.
LEMMA LeastElement ==
  ASSUME NEW S \in SUBSET (0 .. 32), S # {}
  PROVE  \E m \in S : \A k \in S : m <= k
<1>1. LeastWithin(1)
  <2>1. \A a \in Int : a .. a + 1 - 1 = {a} /\ a <= a
    OBVIOUS
  <2>2. ASSUME NEW a \in Int, NEW T \in SUBSET (a .. a + 1 - 1), T # {} PROVE T = {a}
    BY Zenon, <2>1, <2>2
  <2> QED
    BY <2>1, <2>2 DEF LeastWithin
<1>2. LeastWithin(2 * 1) /\ 2 * 1 = 2
  BY <1>1, LeastDoubles
<1>3. LeastWithin(2 * 2) /\ 2 * 2 = 4
  BY <1>2, LeastDoubles
<1>4. LeastWithin(2 * 4) /\ 2 * 4 = 8
  BY <1>3, LeastDoubles
<1>5. LeastWithin(2 * 8) /\ 2 * 8 = 16
  BY <1>4, LeastDoubles
<1>6. LeastWithin(2 * 16) /\ 2 * 16 = 32
  BY <1>5, LeastDoubles
<1>7. LeastWithin(2 * 32) /\ S \in SUBSET (0 .. 0 + 2 * 32 - 1) /\ 0 \in Int
  BY <1>6, LeastDoubles
<1> HIDE DEF LeastWithin
<1> QED
  BY <1>7 DEF LeastWithin

\* The loop over the signals goes on to a signal or ends.
LEMMA AfterInLoop == ASSUME NEW i \in Sig \cup {-1} PROVE After(i) \in Sig \cup {End}
<1> DEFINE S == {k \in Sig \cup {End} : k > i}
<1>1. Sig \subseteq 0 .. 31 /\ i \in -1 .. 31 /\ End = 32
  BY UserSigsAssumption DEF Sig, SIGKILL, SIGSTOP, SIGCONT, End
<1>2. S \in SUBSET (0 .. 32) /\ End \in S
  <2>1. \A k \in 0 .. 31 : k \in 0 .. 32
    OBVIOUS
  <2>2. End \in 0 .. 32 /\ End > i
    BY <1>1
  <2>3. Sig \cup {End} \subseteq 0 .. 32
    BY <1>1, <2>1, <2>2
  <2> QED
    BY <2>2, <2>3
<1>3. PICK m \in S : \A k \in S : m <= k
  <2> HIDE DEF S
  <2> QED
    BY <1>2, LeastElement
<1>4. \E j \in S : \A k \in Sig \cup {End} : k > i => j <= k
  BY <1>3
<1>5. After(i) = CHOOSE j \in S : \A k \in Sig \cup {End} : k > i => j <= k
  BY DEF After
<1> QED
  BY <1>4, <1>5

-----------------------------------------------------------------------------
(***************************************************************************)
(* The operations that handle a signal.                                    *)
(***************************************************************************)

\* Operations that neither deliver a signal nor end its handling.
Plain(s) ==
  \A k \in 1 .. Len(s) :
    /\ s[k][1] \notin {"restore", "return", "deliver"}
    /\ s[k][1] = "unless" => /\ k + 2 <= Len(s)
                             /\ s[k + 1] = <<"read", SIGSTOP>>
                             /\ s[k + 2] = <<"write", SIGSTOP>>

\* Five operations from one and two pairs.
LEMMA FiveOps ==
  ASSUME NEW a, NEW b, NEW c, NEW d, NEW e
  PROVE  (<<a>> \o <<b, c>>) \o <<d, e>> = <<a, b, c, d, e>>
<1> DEFINE S == {a, b, c, d, e}
           s == <<a>> \o <<b, c>>
           v == <<d, e>>
           u == s \o v
           t == <<a, b, c, d, e>>
<1>1. /\ <<a>> \in Seq(S) /\ <<b, c>> \in Seq(S) /\ v \in Seq(S)
      /\ Len(v) = 2 /\ v[1] = d /\ v[2] = e /\ t \in Seq(S)
  OBVIOUS
<1>2. s \in Seq(S) /\ Len(s) = 3 /\ s[1] = a /\ s[2] = b /\ s[3] = c
  BY <1>1
<1> HIDE DEF s, v, S
<1>3. u \in Seq(S) /\ Len(u) = 5 /\ u[1] = a /\ u[2] = b /\ u[3] = c /\ u[4] = d /\ u[5] = e
  <2>1. /\ u \in Seq(S) /\ Len(u) = Len(s) + Len(v)
        /\ \A i \in 1 .. Len(s) + Len(v) : u[i] = IF i <= Len(s) THEN s[i] ELSE v[i - Len(s)]
    <3>1. s \in Seq(S) /\ v \in Seq(S)
      BY <1>1, <1>2
    <3> QED
      BY ONLY <3>1, ConcatProperties DEF u
  <2> HIDE DEF u
  <2> QED
    BY <1>1, <1>2, <2>1
<1>4. Len(u) = Len(t) /\ \A i \in 1 .. Len(u) : u[i] = t[i]
  BY <1>3
<1>5. u = t
  <2> HIDE DEF u, t, S
  <2> QED
    BY <1>1, <1>3, <1>4, SeqEqual
<1> QED
  BY <1>5 DEF s, v

\* Four operations around a pair.
LEMMA FourOps ==
  ASSUME NEW a, NEW b, NEW c, NEW d
  PROVE  (<<a>> \o <<b, c>>) \o <<d>> = <<a, b, c, d>>
<1> DEFINE S == {a, b, c, d}
           s == <<a>> \o <<b, c>>
           v == <<d>>
           u == s \o v
           t == <<a, b, c, d>>
<1>1. /\ <<a>> \in Seq(S) /\ <<b, c>> \in Seq(S) /\ v \in Seq(S)
      /\ Len(v) = 1 /\ v[1] = d /\ t \in Seq(S)
  OBVIOUS
<1>2. s \in Seq(S) /\ Len(s) = 3 /\ s[1] = a /\ s[2] = b /\ s[3] = c
  BY <1>1
<1> HIDE DEF s, v, S
<1>3. u \in Seq(S) /\ Len(u) = 4 /\ u[1] = a /\ u[2] = b /\ u[3] = c /\ u[4] = d
  <2>1. /\ u \in Seq(S) /\ Len(u) = Len(s) + Len(v)
        /\ \A i \in 1 .. Len(s) + Len(v) : u[i] = IF i <= Len(s) THEN s[i] ELSE v[i - Len(s)]
    <3>1. s \in Seq(S) /\ v \in Seq(S)
      BY <1>1, <1>2
    <3> QED
      BY ONLY <3>1, ConcatProperties DEF u
  <2> HIDE DEF u
  <2> QED
    BY <1>1, <1>2, <2>1
<1>4. Len(u) = Len(t) /\ \A i \in 1 .. Len(u) : u[i] = t[i]
  BY <1>3
<1>5. u = t
  <2> HIDE DEF u, t, S
  <2> QED
    BY <1>1, <1>3, <1>4, SeqEqual
<1> QED
  BY <1>5 DEF s, v

\* The handling in the switch, written out.
LEMMA ContOps ==
  handle_SIGCONT = << <<"unless", SIGSTOP>>, <<"read", SIGSTOP>>, <<"write", SIGSTOP>>,
                      <<"read", SIGCONT>>, <<"write", SIGCONT>> >>
  BY FiveOps DEF handle_SIGCONT, cancelSignal

\* What the handling of a single signal adds is plain.
LEMMA HandlePlain ==
  /\ handle_SIGKILL \in Seq(Ops \X Sig) /\ Plain(handle_SIGKILL)
  /\ handle_SIGSTOP \in Seq(Ops \X Sig) /\ Plain(handle_SIGSTOP)
  /\ handle_SIGCONT \in Seq(Ops \X Sig) /\ Plain(handle_SIGCONT)
<1>1. handle_SIGKILL \in Seq(Ops \X Sig) /\ Plain(handle_SIGKILL)
  BY DEF Plain, handle_SIGKILL, Ops, Sig
<1>2. handle_SIGSTOP \in Seq(Ops \X Sig) /\ Plain(handle_SIGSTOP)
  BY DEF Plain, handle_SIGSTOP, Ops, Sig
<1>3. handle_SIGCONT \in Seq(Ops \X Sig) /\ Plain(handle_SIGCONT)
  BY ContOps DEF Plain, Ops, Sig
<1> QED
  BY <1>1, <1>2, <1>3

\* The switch on the signal number only adds plain operations.
LEMMA DefaultPlain ==
  ASSUME NEW i \in Sig, NEW h
  PROVE  DefaultHandling(i, h) \in Seq(Ops \X Sig) /\ Plain(DefaultHandling(i, h))
<1>1. <<>> \in Seq(Ops \X Sig) /\ Plain(<<>>)
  BY DEF Plain
<1> QED
  BY <1>1, HandlePlain DEF DefaultHandling

\* Plain operations before others that end the handling.
LEMMA PlainThen ==
  ASSUME NEW d \in Seq(Ops \X Sig), NEW c \in Seq(Ops \X Sig), Plain(d), OpsShape(c)
  PROVE  /\ d \o c \in Seq(Ops \X Sig) /\ OpsShape(d \o c)
         /\ Returns(d \o c) <=> Returns(c)
         /\ Delivers(d \o c) <=> Delivers(c)
         /\ \A hs : ToHandlers(c, hs) => ToHandlers(d \o c, hs)
<1> DEFINE s == d \o c
           n == Len(d)
<1>1. s \in Seq(Ops \X Sig) /\ Len(s) = n + Len(c)
  BY ConcatProperties
<1>2. \A k \in 1 .. n : k \in 1 .. Len(s) /\ s[k] = d[k]
  BY ConcatProperties
<1>3. \A k \in 1 .. Len(c) : n + k \in 1 .. Len(s) /\ s[n + k] = c[k]
  BY ConcatProperties
<1>4. n \in Nat /\ Len(c) \in Nat \ {0} /\ Len(s) \in Nat
  BY <1>1 DEF OpsShape
<1>5. s[Len(s)] = c[Len(c)]
  BY <1>1, <1>3, <1>4
<1> HIDE DEF s, n
<1>6. ASSUME NEW k \in 1 .. Len(s), s[k][1] = "deliver"
      PROVE  \E j \in 1 .. Len(c) : k = n + j /\ c[j][1] = "deliver"
  <2>1. ~(k <= n)
    BY <1>2, <1>4, <1>6 DEF Plain, n
  <2>2. k - n \in 1 .. Len(c) /\ k = n + (k - n)
    BY <1>1, <1>4, <2>1
  <2> QED
    BY Zenon, <1>3, <1>6, <2>2
<1>7. Delivers(s) <=> Delivers(c)
  BY <1>3, <1>6 DEF Delivers
<1>8. OpsShape(s)
  <2>1. s # <<>>
    BY <1>1, <1>4
  <2>2. ASSUME NEW k \in 1 .. Len(s), k <= n
        PROVE  /\ s[k][1] \notin {"restore", "return", "deliver"} /\ k # Len(s)
               /\ s[k][1] = "unless" => /\ k + 2 < Len(s)
                                        /\ s[k + 1] = <<"read", SIGSTOP>>
                                        /\ s[k + 2] = <<"write", SIGSTOP>>
    <3>1. s[k] = d[k] /\ k \in 1 .. Len(d) /\ k # Len(s)
      BY <1>1, <1>2, <1>4, <2>2 DEF n
    <3>2. s[k][1] = "unless" => /\ k + 2 <= n
                                /\ d[k + 1] = <<"read", SIGSTOP>>
                                /\ d[k + 2] = <<"write", SIGSTOP>>
      BY <3>1 DEF Plain, n
    <3>3. s[k][1] = "unless" => k + 2 < Len(s) /\ s[k + 1] = d[k + 1] /\ s[k + 2] = d[k + 2]
      BY <1>1, <1>2, <1>4, <3>2
    <3> QED
      BY <3>1, <3>2, <3>3 DEF Plain
  <2>3. ASSUME NEW j \in 1 .. Len(c)
        PROVE  LET k == n + j IN
               /\ s[k][1] \in {"restore", "return"} <=> k = Len(s)
               /\ s[k][1] = "unless" => /\ k + 2 < Len(s)
                                        /\ s[k + 1] = <<"read", SIGSTOP>>
                                        /\ s[k + 2] = <<"write", SIGSTOP>>
               /\ s[k][1] = "deliver" => s[Len(s)][1] = "return"
    <3>1. s[n + j] = c[j] /\ (n + j = Len(s) <=> j = Len(c))
      <4>1. s[n + j] = c[j]
        BY <1>3
      <4>2. j \in Nat /\ (n + j = n + Len(c) <=> j = Len(c))
        BY <1>4
      <4> QED
        BY <1>1, <4>1, <4>2
    <3>2. c[j][1] = "unless" => /\ j + 2 < Len(c)
                                /\ c[j + 1] = <<"read", SIGSTOP>>
                                /\ c[j + 2] = <<"write", SIGSTOP>>
      BY DEF OpsShape
    <3>3. c[j][1] = "unless" => /\ n + j + 2 < Len(s)
                                /\ s[n + j + 1] = c[j + 1] /\ s[n + j + 2] = c[j + 2]
      <4>1. j + 2 < Len(c) => /\ j + 1 \in 1 .. Len(c) /\ j + 2 \in 1 .. Len(c)
                              /\ n + (j + 1) = n + j + 1 /\ n + (j + 2) = n + j + 2
                              /\ n + j + 2 < Len(s)
        BY <1>1, <1>4
      <4> QED
        BY <1>3, <3>2, <4>1
    <3>4. /\ c[j][1] \in {"restore", "return"} <=> j = Len(c)
          /\ c[j][1] = "deliver" => c[Len(c)][1] = "return"
      BY DEF OpsShape
    <3> QED
      BY <1>5, <3>1, <3>2, <3>3, <3>4
  <2>4. ASSUME NEW k \in 1 .. Len(s), NEW l \in 1 .. Len(s),
               s[k][1] = "deliver", s[l][1] = "deliver"
        PROVE  k = l
    BY <1>6, <2>4 DEF OpsShape
  <2>5. \A k \in 1 .. Len(s) : k <= n \/ \E j \in 1 .. Len(c) : k = n + j
    <3>1. ASSUME NEW k \in 1 .. Len(s), ~(k <= n)
          PROVE  k - n \in 1 .. Len(c) /\ k = n + (k - n)
      BY <1>1, <1>4, <3>1
    <3> QED
      BY <3>1
  <2>6. ASSUME NEW k \in 1 .. Len(s)
        PROVE  /\ s[k][1] \in {"restore", "return"} <=> k = Len(s)
               /\ s[k][1] = "unless" => /\ k + 2 < Len(s)
                                        /\ s[k + 1] = <<"read", SIGSTOP>>
                                        /\ s[k + 2] = <<"write", SIGSTOP>>
               /\ s[k][1] = "deliver" => s[Len(s)][1] = "return"
    <3>1. CASE k <= n
      BY <2>2, <3>1
    <3>2. CASE \E j \in 1 .. Len(c) : k = n + j
      BY <2>3, <3>2
    <3> QED
      BY <2>5, <3>1, <3>2
  <2> QED
    BY <2>1, <2>4, <2>6 DEF OpsShape
<1>9. \A hs : ToHandlers(c, hs) => ToHandlers(s, hs)
  BY <1>3, <1>6 DEF ToHandlers
<1> QED
  BY <1>1, <1>5, <1>7, <1>8, <1>9 DEF Returns, s

\* The tests of the handler come down to plain operations and a restore, or to
\* a delivery.
LEMMA CustomShape ==
  ASSUME NEW i \in Sig, NEW hs, hs[i] \in Dispositions \cup {SIG_DFL}
  PROVE  LET c == CustomHandling(i, hs[i]) IN
         c \in Seq(Ops \X Sig) /\ OpsShape(c) /\ (Returns(c) <=> Delivers(c)) /\ ToHandlers(c, hs)
<1> DEFINE h == hs[i]
           r == << <<"restore", i>> >>
           e == << <<"deliver", i>>, <<"read", i>>, <<"write", i>>, <<"return", i>> >>
<1>1. /\ r \in Seq(Ops \X Sig) /\ OpsShape(r) /\ ~Returns(r) /\ ~Delivers(r) /\ ToHandlers(r, hs)
  BY DEF OpsShape, Returns, Delivers, ToHandlers, Ops
<1>2. ASSUME NEW p \in Seq(Ops \X Sig), Plain(p)
      PROVE  LET c == p \o r IN
             c \in Seq(Ops \X Sig) /\ OpsShape(c) /\ (Returns(c) <=> Delivers(c)) /\ ToHandlers(c, hs)
  BY Zenon, <1>1, <1>2, PlainThen
<1>3. h \in Handlers =>
        e \in Seq(Ops \X Sig) /\ OpsShape(e) /\ Returns(e) /\ Delivers(e) /\ ToHandlers(e, hs)
  <2>1. e \in Seq(Ops \X Sig) /\ Len(e) = 4
    BY DEF Ops
  <2> QED
    BY <2>1 DEF OpsShape, Returns, Delivers, ToHandlers
<1>4. cancelSignal(i) \in Seq(Ops \X Sig) /\ Plain(cancelSignal(i))
  BY DEF cancelSignal, Plain, Ops
<1>5. (<< <<"deliver", i>> >> \o cancelSignal(i)) \o << <<"return", i>> >> = e
  BY FourOps DEF cancelSignal
<1> DEFINE C == CustomHandling(i, h)
<1> HIDE DEF r, e, h
<1>6. \/ C = r
      \/ C \in {cancelSignal(i) \o r, handle_SIGKILL \o r, handle_SIGCONT \o r, handle_SIGSTOP \o r}
      \/ C = e /\ h \in Handlers
  <2>1. h \in {SIG_DFL, SIG_IGN, SIGKILL, SIGSTOP, SIGCONT} \cup Handlers
    BY ProgramAssumption DEF h
  <2>2. h \in Handlers => h \notin {SIG_DFL, SIG_IGN, SIGKILL, SIGSTOP, SIGCONT}
    <3>1. SIG_DFL \notin Nat
      BY DEF SIG_DFL
    <3> QED
      BY <3>1, HandlersAssumption
  <2>3. CASE h = SIG_DFL
    BY <2>3 DEF CustomHandling, r
  <2>4. CASE h = SIG_IGN
    BY <2>4 DEF CustomHandling, r, SIG_DFL, SIG_IGN
  <2>5. CASE h \in {SIGKILL, SIGSTOP, SIGCONT}
    BY <2>5 DEF CustomHandling, r, SIG_DFL, SIG_IGN, SIGKILL, SIGSTOP, SIGCONT
  <2>6. CASE h \in Handlers
    BY Zenon, <1>5, <2>2, <2>6 DEF CustomHandling
  <2> QED
    BY Zenon, <2>1, <2>3, <2>4, <2>5, <2>6
<1> HIDE DEF C
<1>7. C \in Seq(Ops \X Sig) /\ OpsShape(C) /\ (Returns(C) <=> Delivers(C)) /\ ToHandlers(C, hs)
  <2>1. CASE C = r
    BY <1>1, <2>1
  <2>2. CASE C \in {cancelSignal(i) \o r, handle_SIGKILL \o r, handle_SIGCONT \o r, handle_SIGSTOP \o r}
    <3>1. PICK p \in {cancelSignal(i), handle_SIGKILL, handle_SIGCONT, handle_SIGSTOP} : C = p \o r
      BY <2>2
    <3>2. p \in Seq(Ops \X Sig) /\ Plain(p)
      BY <1>4, <3>1, HandlePlain
    <3> QED
      BY <1>2, <3>1, <3>2
  <2>3. CASE C = e /\ h \in Handlers
    BY <1>3, <2>3
  <2> QED
    BY Zenon, <1>6, <2>1, <2>2, <2>3
<1> QED
  BY <1>7 DEF C, h

\* What a trap goes on with when it has backed up and cleared the mask.
LEMMA HandlingShape ==
  ASSUME NEW i \in Sig, NEW hs, hs[i] \in Dispositions \cup {SIG_DFL}
  PROVE  LET s == DefaultHandling(i, hs[i]) \o CustomHandling(i, hs[i]) IN
         s \in Seq(Ops \X Sig) /\ OpsShape(s) /\ (Returns(s) <=> Delivers(s)) /\ ToHandlers(s, hs)
<1> DEFINE d == DefaultHandling(i, hs[i])
           c == CustomHandling(i, hs[i])
<1>1. d \in Seq(Ops \X Sig) /\ Plain(d)
  BY DefaultPlain
<1>2. c \in Seq(Ops \X Sig) /\ OpsShape(c) /\ (Returns(c) <=> Delivers(c)) /\ ToHandlers(c, hs)
  BY CustomShape
<1> HIDE DEF d, c
<1>3. d \o c \in Seq(Ops \X Sig) /\ OpsShape(d \o c) /\ (Returns(d \o c) <=> Delivers(d \o c)) /\ ToHandlers(d \o c, hs)
  BY <1>1, <1>2, PlainThen
<1> QED
  BY <1>3 DEF d, c

\* What is left of the handling keeps its shape.
LEMMA SuffixShape ==
  ASSUME NEW s \in Seq(Ops \X Sig), OpsShape(s), NEW m \in 1 .. Len(s)
  PROVE  LET u == SubSeq(s, m, Len(s)) IN
         /\ u \in Seq(Ops \X Sig) /\ OpsShape(u) /\ Len(u) = Len(s) - m + 1
         /\ \A k \in 1 .. Len(u) : m + k - 1 \in 1 .. Len(s) /\ u[k] = s[m + k - 1]
         /\ Returns(u) <=> Returns(s)
         /\ \A hs : ToHandlers(s, hs) => ToHandlers(u, hs)
<1> DEFINE u == SubSeq(s, m, Len(s))
<1>1. Len(s) \in Nat \ {0} /\ m \in Nat
  BY DEF OpsShape
<1>2. /\ u \in Seq(Ops \X Sig) /\ Len(u) = Len(s) - m + 1
      /\ \A k \in 1 .. Len(u) : u[k] = s[m + k - 1]
  <2>1. \A k \in m .. Len(s) : s[k] \in Ops \X Sig
    BY <1>1
  <2>2. m \in Int /\ Len(s) \in Int /\ m <= Len(s)
    BY <1>1
  <2> QED
    BY <2>1, <2>2, SubSeqProperties
<1> HIDE DEF u
<1>3. \A k \in 1 .. Len(u) : m + k - 1 \in 1 .. Len(s)
  BY <1>1, <1>2
<1>4. Len(u) \in 1 .. Len(u) /\ u[Len(u)] = s[Len(s)]
  <2>1. Len(u) \in 1 .. Len(u) /\ m + Len(u) - 1 = Len(s)
    BY <1>1, <1>2
  <2> QED
    BY <1>2, <2>1
<1>5. ASSUME NEW k \in 1 .. Len(u)
      PROVE  /\ u[k][1] \in {"restore", "return"} <=> k = Len(u)
             /\ u[k][1] = "unless" => /\ k + 2 < Len(u)
                                      /\ u[k + 1] = <<"read", SIGSTOP>>
                                      /\ u[k + 2] = <<"write", SIGSTOP>>
             /\ u[k][1] = "deliver" => u[Len(u)][1] = "return"
  <2> DEFINE j == m + k - 1
  <2>1. j \in 1 .. Len(s) /\ u[k] = s[j]
    BY <1>2, <1>3
  <2>2. j = Len(s) <=> k = Len(u)
    BY <1>1, <1>2
  <2>3. /\ s[j][1] \in {"restore", "return"} <=> j = Len(s)
        /\ s[j][1] = "unless" => /\ j + 2 < Len(s)
                                 /\ s[j + 1] = <<"read", SIGSTOP>>
                                 /\ s[j + 2] = <<"write", SIGSTOP>>
        /\ s[j][1] = "deliver" => s[Len(s)][1] = "return"
    BY Zenon, <2>1 DEF OpsShape
  <2>4. j + 2 < Len(s) => /\ k + 2 < Len(u) /\ k + 1 \in 1 .. Len(u) /\ k + 2 \in 1 .. Len(u)
                          /\ m + (k + 1) - 1 = j + 1 /\ m + (k + 2) - 1 = j + 2
    BY <1>1, <1>2
  <2>5. ASSUME j + 2 < Len(s) PROVE u[k + 1] = s[j + 1] /\ u[k + 2] = s[j + 2]
    <3>1. u[k + 1] = s[m + (k + 1) - 1] /\ u[k + 2] = s[m + (k + 2) - 1]
      BY <1>2, <2>4, <2>5
    <3> HIDE DEF j
    <3> QED
      BY <2>4, <2>5, <3>1
  <2> HIDE DEF j
  <2> QED
    BY <1>4, <2>1, <2>2, <2>3, <2>4, <2>5
<1>6. ASSUME NEW k \in 1 .. Len(u), NEW l \in 1 .. Len(u),
             u[k][1] = "deliver", u[l][1] = "deliver"
      PROVE  k = l
  <2>1. /\ m + k - 1 \in 1 .. Len(s) /\ m + l - 1 \in 1 .. Len(s)
        /\ s[m + k - 1][1] = "deliver" /\ s[m + l - 1][1] = "deliver"
    BY <1>2, <1>3, <1>6
  <2>2. m + k - 1 = m + l - 1
    BY <2>1 DEF OpsShape
  <2> QED
    BY <1>1, <2>2
<1>7. u # <<>>
  BY <1>2, <1>4
<1>8. OpsShape(u)
  BY <1>5, <1>6, <1>7 DEF OpsShape
<1>9. \A hs : ToHandlers(s, hs) => ToHandlers(u, hs)
  BY Zenon, <1>2, <1>3 DEF ToHandlers
<1> QED
  BY <1>2, <1>3, <1>4, <1>8, <1>9 DEF Returns, u

\* The operation after an operation that does not end the handling.
LEMMA TailShape ==
  ASSUME NEW s \in Seq(Ops \X Sig), OpsShape(s), Head(s)[1] \notin {"restore", "return"}
  PROVE  /\ s # <<>> /\ s[1] = Head(s) /\ Len(s) \in Nat /\ Len(s) > 1
         /\ Tail(s) \in Seq(Ops \X Sig) /\ OpsShape(Tail(s)) /\ Len(Tail(s)) = Len(s) - 1
         /\ \A k \in 1 .. Len(Tail(s)) : k + 1 \in 1 .. Len(s) /\ Tail(s)[k] = s[k + 1]
         /\ Returns(Tail(s)) <=> Returns(s)
         /\ Delivers(s) <=> s[1][1] = "deliver" \/ Delivers(Tail(s))
         /\ s[1][1] = "deliver" => ~Delivers(Tail(s))
         /\ \A hs : ToHandlers(s, hs) => ToHandlers(Tail(s), hs)
<1>1. s # <<>> /\ s[1] = Head(s) /\ Len(s) \in Nat /\ Len(s) > 1 /\ 2 \in 1 .. Len(s)
  <2>1. s # <<>>
    BY DEF OpsShape
  <2>2. s[1] = Head(s) /\ Len(s) \in Nat \ {0}
    BY <2>1
  <2>3. 1 # Len(s)
    BY <2>2 DEF OpsShape
  <2>4. Len(s) \in Nat /\ Len(s) > 1 /\ 2 \in 1 .. Len(s)
    <3>1. \A n \in Nat : n # 0 /\ n # 1 => n > 1 /\ 2 \in 1 .. n
      OBVIOUS
    <3>2. Len(s) \in Nat /\ Len(s) # 0
      BY <2>2
    <3> QED
      BY Zenon, <2>3, <3>1, <3>2
  <2> QED
    BY <2>1, <2>2, <2>4
<1>2. Tail(s) = SubSeq(s, 2, Len(s))
  BY <1>1, TailIsSubSeq
<1> DEFINE u == Tail(s)
<1>3. /\ u \in Seq(Ops \X Sig) /\ OpsShape(u) /\ Len(u) = Len(s) - 2 + 1
      /\ \A k \in 1 .. Len(u) : 2 + k - 1 \in 1 .. Len(s) /\ u[k] = s[2 + k - 1]
      /\ Returns(u) <=> Returns(s)
      /\ \A hs : ToHandlers(s, hs) => ToHandlers(u, hs)
  <2> DEFINE v == SubSeq(s, 2, Len(s))
  <2>1. /\ v \in Seq(Ops \X Sig) /\ OpsShape(v) /\ Len(v) = Len(s) - 2 + 1
        /\ \A k \in 1 .. Len(v) : 2 + k - 1 \in 1 .. Len(s) /\ v[k] = s[2 + k - 1]
        /\ Returns(v) <=> Returns(s)
        /\ \A hs : ToHandlers(s, hs) => ToHandlers(v, hs)
    <3>1. 2 \in 1 .. Len(s)
      BY <1>1
    <3> QED
      BY <3>1, SuffixShape
  <2>2. u = v
    BY <1>2
  <2> HIDE DEF u, v
  <2> QED
    BY <2>1, <2>2
<1> HIDE DEF u
<1>4. Len(u) = Len(s) - 1 /\ \A k \in 1 .. Len(u) : k + 1 \in 1 .. Len(s) /\ u[k] = s[k + 1]
  BY <1>1, <1>3
<1>5. \A j \in 1 .. Len(s) : j = 1 \/ (j - 1 \in 1 .. Len(u) /\ u[j - 1] = s[j])
  <2>1. \A j \in 1 .. Len(s) : j = 1 \/ (j - 1 \in 1 .. Len(u) /\ (j - 1) + 1 = j)
    BY <1>1, <1>4
  <2> QED
    BY <1>4, <2>1
<1>6. Delivers(s) <=> s[1][1] = "deliver" \/ Delivers(u)
  <2>1. 1 \in 1 .. Len(s)
    BY <1>1
  <2> QED
    BY <1>4, <1>5, <2>1 DEF Delivers
<1>7. s[1][1] = "deliver" => ~Delivers(u)
  <2>1. 1 \in 1 .. Len(s) /\ \A k \in 1 .. Len(u) : k + 1 # 1
    BY <1>1, <1>4
  <2>2. s[1][1] = "deliver" => \A j \in 1 .. Len(s) : s[j][1] = "deliver" => j = 1
    BY <2>1 DEF OpsShape
  <2> QED
    BY Zenon, <1>4, <2>1, <2>2 DEF Delivers
<1> QED
  BY <1>1, <1>3, <1>4, <1>6, <1>7 DEF u

-----------------------------------------------------------------------------
(***************************************************************************)
(* Types and nesting.                                                      *)
(***************************************************************************)

\* What the proofs below take for granted of the traps.
ActOK == act \in Seq(Traps) /\ Len(act) <= 2 /\ NestInv

\* The innermost trap has gone on, and it has returned.
GoesOn == Len(act') = Len(act) /\ act' # <<>> /\ \A n \in 2 .. Len(act) : act'[n] = act[n]
Returned == Len(act') = Len(act) - 1 /\ \A n \in 1 .. Len(act) - 1 : act'[n] = act[n + 1]

\* A trap from user mode, or the end of a system call.
LEMMA ActEntered ==
  ASSUME \/ act' = <<>>
         \/ \E at \in Calls \cup {"check"}, cli \in BOOLEAN : act' = <<Trap(at, cli)>>
  PROVE  ActOK'
<1>1. CASE act' = <<>>
  BY <1>1 DEF ActOK, NestInv
<1>2. ASSUME NEW at \in Calls \cup {"check"}, NEW cli \in BOOLEAN, act' = <<Trap(at, cli)>>
      PROVE  ActOK'
  <2>1. at \in Places /\ at \notin {"backup", "clear", "ops"}
    BY DEF Places, Calls
  <2>2. act' \in Seq(Traps) /\ Len(act') = 1 /\ act'[1] = Trap(at, cli)
    BY <1>2, <2>1, NewTrap
  <2>3. act'[1].at = at /\ act'[1].ops = <<>>
    BY <2>2 DEF Trap
  <2> QED
    BY <2>1, <2>2, <2>3 DEF ActOK, NestInv
<1> QED
  BY <1>1, <1>2

\* The innermost trap goes on.
LEMMA ActMoved ==
  ASSUME ActOK, act # <<>>, NEW t \in Traps, Become(t), handlers' = handlers,
         t.cli = act[1].cli, t.at \notin Calls,
         t.at \notin {"check", "loop"} => t.i \in Sig,
         IF t.at = "ops" THEN OpsShape(t.ops) /\ ToHandlers(t.ops, handlers) ELSE t.ops = <<>>
  PROVE  ActOK' /\ GoesOn /\ act'[1] = t
<1> USE DEF GoesOn
<1>1. /\ act' \in Seq(Traps) /\ Len(act') = Len(act) /\ act' # <<>> /\ act'[1] = t
      /\ \A n \in 2 .. Len(act) : act'[n] = act[n]
  BY Replaced DEF ActOK, Become
<1>2. Len(act) = 2 => act'[1].cli /\ act'[1].at \notin Calls /\ act'[2].at \in Nested
  BY <1>1 DEF ActOK, NestInv
<1>3. \A n \in 1 .. Len(act) : n = 1 \/ n \in 2 .. Len(act)
  BY DEF ActOK
<1>4. ASSUME NEW n \in 1 .. Len(act')
      PROVE  /\ act'[n].at \notin Calls \cup {"check", "loop"} => act'[n].i \in Sig
             /\ IF act'[n].at = "ops"
                THEN OpsShape(act'[n].ops) /\ ToHandlers(act'[n].ops, handlers')
                ELSE act'[n].ops = <<>>
  <2>1. CASE n = 1
    BY <1>1, <2>1
  <2>2. CASE n \in 2 .. Len(act)
    <3>1. n \in 1 .. Len(act) /\ act'[n] = act[n]
      BY <1>1, <2>2
    <3> QED
      BY <3>1 DEF ActOK, NestInv
  <2> QED
    BY <1>1, <1>3, <2>1, <2>2
<1> QED
  BY <1>1, <1>2, <1>4 DEF ActOK, NestInv

\* The innermost trap returns to the one that it interrupted.
LEMMA ActLeft ==
  ASSUME ActOK, act # <<>>, Leave, handlers' = handlers
  PROVE  ActOK' /\ Returned
<1> USE DEF Returned
<1>1. /\ act' \in Seq(Traps) /\ Len(act') = Len(act) - 1
      /\ \A n \in 1 .. Len(act) - 1 : act'[n] = act[n + 1]
  BY Popped DEF ActOK, Leave
<1>2. Len(act) \in Nat /\ Len(act) <= 2
  BY DEF ActOK
<1>3. ASSUME NEW n \in 1 .. Len(act')
      PROVE  /\ act'[n].at \notin Calls \cup {"check", "loop"} => act'[n].i \in Sig
             /\ IF act'[n].at = "ops"
                THEN OpsShape(act'[n].ops) /\ ToHandlers(act'[n].ops, handlers')
                ELSE act'[n].ops = <<>>
  <2>1. n + 1 \in 1 .. Len(act) /\ act'[n] = act[n + 1]
    BY <1>1, <1>2
  <2> QED
    BY <2>1 DEF ActOK, NestInv
<1>4. Len(act') # 2 /\ Len(act') <= 2
  BY <1>1, <1>2
<1> QED
  BY <1>1, <1>3, <1>4 DEF ActOK, NestInv

\* An interrupt nests.
LEMMA ActPushed ==
  ASSUME ActOK, NestedInterrupt
  PROVE  /\ ActOK' /\ Len(act) = 1 /\ Len(act') = 2 /\ act[1].at \in Nested
         /\ act'[1] = Trap("check", TRUE) /\ act'[2] = act[1]
<1>1. /\ act # <<>> /\ ~act[1].cli /\ act[1].at \in Nested /\ handlers' = handlers
      /\ act' = <<Trap("check", TRUE)>> \o act
  BY DEF NestedInterrupt, ActOK
<1>2. Len(act) = 1
  <2>1. Len(act) \in Nat /\ Len(act) # 0 /\ Len(act) <= 2 /\ Len(act) # 2
    BY <1>1 DEF ActOK, NestInv
  <2>2. \A n \in Nat : n # 0 /\ n <= 2 /\ n # 2 => n = 1
    OBVIOUS
  <2> QED
    BY Zenon, <2>1, <2>2
<1>3. Trap("check", TRUE) \in Traps
  BY Zenon, NewTrap DEF Places
<1>4. /\ act' \in Seq(Traps) /\ Len(act') = 2
      /\ act'[1] = Trap("check", TRUE) /\ act'[2] = act[1]
  <2>1. act \in Seq(Traps) /\ 1 \in 1 .. Len(act)
    BY <1>2 DEF ActOK
  <2>2. /\ act' \in Seq(Traps) /\ Len(act') = Len(act) + 1 /\ act'[1] = Trap("check", TRUE)
        /\ \A n \in 1 .. Len(act) : act'[n + 1] = act[n]
    BY Zenon, <1>1, <1>3, <2>1, Pushed
  <2>3. act'[1 + 1] = act[1]
    BY <2>1, <2>2
  <2> QED
    BY <1>2, <2>2, <2>3
<1>5. /\ act'[1].cli /\ act'[1].at = "check" /\ act'[1].ops = <<>> /\ "check" \notin Calls
  BY <1>4 DEF Trap, Calls
<1>6. ASSUME NEW n \in 1 .. Len(act')
      PROVE  /\ act'[n].at \notin Calls \cup {"check", "loop"} => act'[n].i \in Sig
             /\ IF act'[n].at = "ops"
                THEN OpsShape(act'[n].ops) /\ ToHandlers(act'[n].ops, handlers')
                ELSE act'[n].ops = <<>>
  <2>1. n = 1 \/ n = 2
    BY <1>4
  <2>2. CASE n = 1
    BY <1>5, <2>2
  <2>3. CASE n = 2
    <3>1. 1 \in 1 .. Len(act)
      BY <1>2
    <3> QED
      BY <1>1, <1>4, <2>3, <3>1 DEF ActOK, NestInv
  <2> QED
    BY <2>1, <2>2, <2>3
<1>7. act'[2].at \in Nested /\ Len(act') <= 2
  BY <1>1, <1>4
<1> QED
  BY Zenon, <1>1, <1>2, <1>4, <1>5, <1>6, <1>7 DEF ActOK, NestInv

\* The innermost trap of a system call or of check_kernel_sigs.
LEMMA Innermost ==
  ASSUME ActOK, act # <<>>
  PROVE  /\ Head(act) = act[1] /\ act[1] \in Traps /\ 1 \in 1 .. Len(act)
         /\ act[1].at \notin Calls \cup {"check", "loop"} => act[1].i \in Sig
         /\ IF act[1].at = "ops" THEN OpsShape(act[1].ops) /\ ToHandlers(act[1].ops, handlers)
            ELSE act[1].ops = <<>>
         /\ act[1].at \in Calls => Len(act) = 1
<1>1. Head(act) = act[1] /\ act[1] \in Traps /\ 1 \in 1 .. Len(act) /\ Len(act) \in Nat
  BY DEF ActOK
<1>2. \A n \in Nat : n # 0 /\ n <= 2 /\ n # 2 => n = 1
  OBVIOUS
<1>3. Len(act) # 0 /\ Len(act) <= 2
  BY <1>1 DEF ActOK
<1>4. act[1].at \in Calls => Len(act) = 1
  BY Zenon, <1>1, <1>2, <1>3 DEF ActOK, NestInv
<1> QED
  BY <1>1, <1>4 DEF ActOK, NestInv

\* The steps of check_kernel_sigs before a signal is handled.
LEMMA CheckMoves ==
  ASSUME ActOK, TypeOK, CheckStart \/ CheckLoop \/ BackupMask
  PROVE  /\ ActOK' /\ act # <<>>
         /\ \/ Returned /\ act[1].at \in {"check", "loop"}
            \/ GoesOn /\ act'[1].at = "loop" /\ act[1].at \in {"check", "loop"}
            \/ /\ GoesOn /\ act'[1].at = "backup" /\ act[1].at = "loop"
               /\ act'[1].i \in pending \cap mask
            \/ /\ GoesOn /\ act'[1].at = "clear" /\ act[1].at = "backup" /\ BackupMask
               /\ act'[1].i = act[1].i
<1>1. act # <<>> /\ handlers' = handlers
  BY DEF CheckStart, CheckLoop, BackupMask, At
<1>2. /\ Head(act) = act[1] /\ act[1] \in Traps
      /\ act[1].at \in {"check", "loop"} => act[1].ops = <<>>
      /\ act[1].at = "backup" => act[1].ops = <<>> /\ act[1].i \in Sig
  BY <1>1, Innermost DEF Calls
<1>3. CASE Leave /\ ~BackupMask
  BY <1>1, <1>2, <1>3, ActLeft DEF CheckStart, CheckLoop, At
<1>4. ASSUME NEW t \in Traps, Become(t), t.cli = act[1].cli, t.ops = <<>>,
             \/ t.at = "loop"
             \/ t.at \in {"backup", "clear"} /\ t.i \in Sig
      PROVE  ActOK' /\ GoesOn /\ act'[1] = t
  BY <1>1, <1>4, ActMoved DEF Calls
<1>5. CASE CheckStart /\ ~Leave
  <2> DEFINE t == [act[1] EXCEPT !.at = "loop", !.i = After(-1)]
  <2>1. Become(t) /\ act[1].at = "check"
    BY <1>2, <1>5 DEF CheckStart, At
  <2>2. t \in Traps /\ t.cli = act[1].cli /\ t.ops = <<>> /\ t.at = "loop"
    BY Zenon, <1>2, <2>1, AfterInLoop DEF Traps, Places
  <2> QED
    BY Zenon, <1>1, <1>4, <2>1, <2>2
<1>6. CASE CheckLoop /\ ~Leave
  <2>1. act[1].at = "loop"
    BY <1>2, <1>6 DEF CheckLoop, At
  <2>2. CASE act[1].i \in pending \cap mask /\ Become([act[1] EXCEPT !.at = "backup"])
    <3> DEFINE t == [act[1] EXCEPT !.at = "backup"]
    <3>1. t \in Traps /\ t.cli = act[1].cli /\ t.ops = <<>> /\ t.at = "backup" /\ t.i \in Sig
      BY Zenon, <1>2, <2>1, <2>2 DEF Traps, Places, TypeOK
    <3>2. t.i = act[1].i
      BY <1>2 DEF Traps
    <3>3. Become(t)
      BY <2>2
    <3> HIDE DEF t
    <3>4. ActOK' /\ GoesOn /\ act'[1] = t
      BY <1>4, <3>1, <3>3
    <3> QED
      BY <1>1, <2>1, <2>2, <3>1, <3>2, <3>4
  <2>3. CASE act[1].i # End /\ Become([act[1] EXCEPT !.i = After(@)])
    <3> DEFINE t == [act[1] EXCEPT !.i = After(@)]
    <3>1. act[1].i \in Sig
      BY <1>2, <2>3 DEF Traps
    <3>2. t \in Traps /\ t.cli = act[1].cli /\ t.ops = <<>> /\ t.at = "loop"
      BY <1>2, <2>1, <3>1, AfterInLoop DEF Traps
    <3> QED
      BY Zenon, <1>1, <1>4, <2>1, <2>3, <3>2
  <2> QED
    BY <1>2, <1>6, <2>2, <2>3 DEF CheckLoop
<1>7. CASE BackupMask
  <2> DEFINE t == [act[1] EXCEPT !.at = "clear"]
  <2>1. Become(t) /\ act[1].at = "backup"
    BY <1>2, <1>7 DEF BackupMask, At
  <2>2. t \in Traps /\ t.cli = act[1].cli /\ t.ops = <<>> /\ t.at = "clear" /\ t.i \in Sig
    BY <1>2, <2>1 DEF Traps, Places
  <2>3. t.i = act[1].i
    BY <1>2 DEF Traps
  <2> HIDE DEF t
  <2>4. ActOK' /\ GoesOn /\ act'[1] = t
    BY <1>4, <2>1, <2>2
  <2> QED
    BY <1>1, <1>7, <2>1, <2>2, <2>3, <2>4
<1> QED
  BY <1>3, <1>5, <1>6, <1>7 DEF CheckStart, CheckLoop, BackupMask, At

\* The mask is clear: the handling begins.
LEMMA ClearMoves ==
  ASSUME ActOK, TypeOK, ClearMask
  PROVE  /\ ActOK' /\ act # <<>> /\ act[1].at = "clear" /\ act[1].i \in Sig
         /\ GoesOn /\ act'[1].at = "ops"
         /\ LET i == act[1].i IN
              act'[1].ops = DefaultHandling(i, handlers[i]) \o CustomHandling(i, handlers[i])
         /\ Returns(act'[1].ops) <=> Delivers(act'[1].ops)
<1>1. act # <<>> /\ handlers' = handlers
  BY DEF ClearMask, At
<1>2. /\ Head(act) = act[1] /\ act[1] \in Traps /\ act[1].at = "clear" /\ act[1].i \in Sig
  BY <1>1, Innermost DEF ClearMask, At, Calls
<1> DEFINE i == act[1].i
           s == DefaultHandling(i, handlers[i]) \o CustomHandling(i, handlers[i])
           t == [act[1] EXCEPT !.at = "ops", !.ops = s]
<1>3. handlers[i] \in Dispositions \cup {SIG_DFL}
  BY <1>2 DEF TypeOK
<1>4. s \in Seq(Ops \X Sig) /\ OpsShape(s) /\ (Returns(s) <=> Delivers(s)) /\ ToHandlers(s, handlers)
  BY <1>2, <1>3, HandlingShape
<1>5. Become(t)
  BY Zenon, <1>2 DEF ClearMask
<1> HIDE DEF s
<1>6. t \in Traps /\ t.at = "ops" /\ t.ops = s /\ t.cli = act[1].cli /\ t.i = act[1].i
  BY Zenon, <1>2, <1>4 DEF Traps, Places
<1> HIDE DEF t
<1>7. ActOK' /\ GoesOn /\ act'[1] = t
  BY <1>1, <1>2, <1>4, <1>5, <1>6, ActMoved DEF Calls
<1> QED
  BY Zenon, <1>1, <1>2, <1>4, <1>6, <1>7 DEF s

\* The next operation of the innermost trap.
LEMMA NextOp ==
  ASSUME ActOK, NEW op, NEW x, Op(op, x)
  PROVE  /\ act # <<>> /\ Head(act) = act[1] /\ act[1] \in Traps /\ act[1].at = "ops"
         /\ act[1].ops \in Seq(Ops \X Sig) /\ act[1].ops # <<>>
         /\ Head(act[1].ops) = <<op, x>> /\ act[1].ops[1] = <<op, x>>
         /\ OpsShape(act[1].ops) /\ ToHandlers(act[1].ops, handlers) /\ act[1].i \in Sig
<1>1. act # <<>> /\ act[1].at = "ops" /\ Head(act[1].ops) = <<op, x>>
  BY Innermost DEF Op, At
<1>2. /\ Head(act) = act[1] /\ act[1] \in Traps
      /\ OpsShape(act[1].ops) /\ ToHandlers(act[1].ops, handlers) /\ act[1].i \in Sig
  BY <1>1, Innermost DEF Calls
<1>3. act[1].ops \in Seq(Ops \X Sig) /\ act[1].ops # <<>>
  BY <1>2 DEF Traps, OpsShape
<1> QED
  BY <1>1, <1>2, <1>3

\* An operation that does not end the handling: the others are left, and r is
\* what cancelSignal has read.
LEMMA OpMoves ==
  ASSUME ActOK, handlers' = handlers, NEW op \in Ops \ {"restore", "return"}, NEW x, Op(op, x),
         NEW r \in SUBSET Sig, Become([Rest EXCEPT !.reg = r])
  PROVE  /\ ActOK' /\ GoesOn /\ act'[1].at = "ops" /\ act'[1].ops = Tail(act[1].ops)
         /\ act'[1].reg = r
<1>1. /\ act # <<>> /\ Head(act) = act[1] /\ act[1] \in Traps /\ act[1].at = "ops"
      /\ act[1].ops \in Seq(Ops \X Sig) /\ Head(act[1].ops) = <<op, x>>
      /\ OpsShape(act[1].ops) /\ ToHandlers(act[1].ops, handlers) /\ act[1].i \in Sig
  BY NextOp
<1> DEFINE u == Tail(act[1].ops)
           t == [Rest EXCEPT !.reg = r]
<1>2. u \in Seq(Ops \X Sig) /\ OpsShape(u) /\ ToHandlers(u, handlers)
  BY <1>1, TailShape
<1>3. t = [act[1] EXCEPT !.ops = u, !.reg = r]
  BY Zenon, <1>1 DEF Rest, Traps
<1> HIDE DEF u
<1>4. t \in Traps /\ t.at = "ops" /\ t.ops = u /\ t.cli = act[1].cli /\ t.i = act[1].i /\ t.reg = r
  BY Zenon, <1>1, <1>2, <1>3 DEF Traps
<1> HIDE DEF t
<1>5. Become(t)
  BY DEF t
<1>6. ActOK' /\ GoesOn /\ act'[1] = t
  BY <1>1, <1>2, <1>4, <1>5, ActMoved DEF Calls
<1> QED
  BY <1>4, <1>6 DEF u

\* An operation that reads and writes nothing of pending.
LEMMA OtherOpMoves ==
  ASSUME ActOK, handlers' = handlers, NEW op \in Ops \ {"restore", "return"}, NEW x, Op(op, x),
         Become(Rest)
  PROVE  /\ ActOK' /\ GoesOn /\ act'[1].at = "ops" /\ act'[1].ops = Tail(act[1].ops)
         /\ act'[1].reg = act[1].reg
<1>1. Head(act) = act[1] /\ act[1] \in Traps
  BY NextOp
<1>2. [Rest EXCEPT !.reg = act[1].reg] = Rest /\ act[1].reg \in SUBSET Sig
  BY Zenon, <1>1 DEF Rest, Traps
<1>3. Become([Rest EXCEPT !.reg = act[1].reg])
  BY <1>2
<1> QED
  BY <1>2, <1>3, OpMoves

\* The test of SIGSTOP leaves out the cancelSignal that follows it, or not.
LEMMA UnlessMoves ==
  ASSUME ActOK, OpUnless
  PROVE  LET s == act[1].ops
             n == IF SIGSTOP \in pending THEN 2 ELSE 4
         IN  /\ ActOK' /\ GoesOn /\ act'[1].at = "ops" /\ act'[1].reg = act[1].reg
             /\ n \in 1 .. Len(s) /\ act'[1].ops = SubSeq(s, n, Len(s))
             /\ s[1] = <<"unless", SIGSTOP>> /\ s[2] = <<"read", SIGSTOP>>
             /\ s[3] = <<"write", SIGSTOP>> /\ Len(s) > 3
<1> DEFINE s == act[1].ops
           n == IF SIGSTOP \in pending THEN 2 ELSE 4
           t == [act[1] EXCEPT !.ops = SubSeq(s, n, Len(s))]
<1>1. /\ act # <<>> /\ Head(act) = act[1] /\ act[1] \in Traps /\ act[1].at = "ops"
      /\ s \in Seq(Ops \X Sig) /\ s # <<>> /\ s[1] = <<"unless", SIGSTOP>>
      /\ OpsShape(s) /\ ToHandlers(s, handlers) /\ act[1].i \in Sig
  BY NextOp DEF OpUnless
<1>2. s[2] = <<"read", SIGSTOP>> /\ s[3] = <<"write", SIGSTOP>> /\ Len(s) > 3 /\ Len(s) \in Nat
  <2>1. 1 \in 1 .. Len(s) /\ s[1][1] = "unless" /\ Len(s) \in Nat
    BY <1>1
  <2>2. s[1 + 1] = <<"read", SIGSTOP>> /\ s[1 + 2] = <<"write", SIGSTOP>> /\ 1 + 2 < Len(s)
    BY <1>1, <2>1 DEF OpsShape
  <2> QED
    BY <2>1, <2>2
<1>3. n \in 1 .. Len(s)
  BY <1>2
<1>4. Become(t) /\ handlers' = handlers
  BY Zenon, <1>1 DEF OpUnless
<1> HIDE DEF n
<1>5. /\ SubSeq(s, n, Len(s)) \in Seq(Ops \X Sig) /\ OpsShape(SubSeq(s, n, Len(s)))
      /\ ToHandlers(SubSeq(s, n, Len(s)), handlers)
  BY <1>1, <1>3, SuffixShape
<1>6. /\ t \in Traps /\ t.at = "ops" /\ t.ops = SubSeq(s, n, Len(s)) /\ t.cli = act[1].cli
      /\ t.i = act[1].i /\ t.reg = act[1].reg
  BY Zenon, <1>1, <1>5 DEF Traps
<1> HIDE DEF t
<1>7. ActOK' /\ GoesOn /\ act'[1] = t
  BY Zenon, <1>1, <1>4, <1>5, <1>6, ActMoved DEF Calls
<1> QED
  BY Zenon, <1>1, <1>2, <1>3, <1>6, <1>7 DEF n

\* The last operation.
LEMMA LastOp ==
  ASSUME NEW s \in Seq(Ops \X Sig), OpsShape(s), s[1][1] \in {"restore", "return"}
  PROVE  /\ Tail(s) = <<>> /\ ~Delivers(s)
         /\ Returns(s) <=> s[1][1] = "return"
<1>1. s # <<>> /\ Len(s) \in Nat
  BY DEF OpsShape
<1>2. 1 \in 1 .. Len(s)
  BY <1>1
<1>3. 1 = Len(s)
  BY Zenon, <1>2 DEF OpsShape
<1>4. Len(Tail(s)) = 0 /\ Tail(s) \in Seq(Ops \X Sig)
  BY <1>1, <1>3
<1>5. Tail(s) = <<>>
  BY Zenon, <1>4, EmptySeq
<1>6. ~Delivers(s)
  <2>1. \A k \in 1 .. 1 : k = 1
    OBVIOUS
  <2> QED
    BY <1>3, <2>1 DEF Delivers
<1> QED
  BY Zenon, <1>3, <1>5, <1>6 DEF Returns

\* The end of the handling, with the mask restored.
LEMMA RestoreMoves ==
  ASSUME ActOK, NEW x, OpRestore(x)
  PROVE  ActOK' /\ GoesOn /\ act'[1].at = "loop" /\ act[1].at = "ops" /\ ~Returns(act[1].ops)
<1>1. /\ act # <<>> /\ Head(act) = act[1] /\ act[1] \in Traps /\ act[1].at = "ops"
      /\ act[1].ops \in Seq(Ops \X Sig) /\ act[1].ops # <<>> /\ act[1].ops[1] = <<"restore", x>>
      /\ OpsShape(act[1].ops) /\ act[1].i \in Sig /\ handlers' = handlers
  BY NextOp DEF OpRestore
<1>3. Tail(act[1].ops) = <<>> /\ ~Returns(act[1].ops)
  BY <1>1, LastOp
<1> DEFINE t == [Rest EXCEPT !.at = "loop", !.i = After(@)]
<1>4. Become(t)
  BY DEF OpRestore
<1>5. Rest = [act[1] EXCEPT !.ops = <<>>]
  BY Zenon, <1>1, <1>3 DEF Rest
<1>6. t \in Traps /\ t.at = "loop" /\ t.ops = <<>> /\ t.cli = act[1].cli
  <2>1. After(act[1].i) \in Sig \cup {End}
    BY <1>1, AfterInLoop
  <2> QED
    <3>1. t = [act[1] EXCEPT !.ops = <<>>, !.at = "loop", !.i = After(act[1].i)]
      BY <1>1, <1>5 DEF Traps
    <3>2. <<>> \in Seq(Ops \X Sig) /\ "loop" \in Places
      BY DEF Places
    <3> HIDE DEF t
    <3> QED
      BY Zenon, <1>1, <2>1, <3>1, <3>2 DEF Traps
<1> HIDE DEF t
<1>7. ActOK' /\ GoesOn /\ act'[1] = t
  BY <1>1, <1>4, <1>6, ActMoved DEF Calls
<1> QED
  BY <1>1, <1>3, <1>6, <1>7

\* The end of the handling, with the handler to run in user mode.
LEMMA ReturnMoves ==
  ASSUME ActOK, NEW x, OpReturn(x)
  PROVE  /\ ActOK' /\ Returned /\ act # <<>> /\ act[1].at = "ops"
         /\ Returns(act[1].ops) /\ ~Delivers(act[1].ops)
<1>1. /\ act # <<>> /\ act[1].at = "ops" /\ handlers' = handlers /\ OpsShape(act[1].ops)
      /\ act[1].ops \in Seq(Ops \X Sig) /\ act[1].ops # <<>> /\ act[1].ops[1] = <<"return", x>>
  BY NextOp DEF OpReturn
<1>3. Returns(act[1].ops) /\ ~Delivers(act[1].ops)
  BY <1>1, LastOp
<1>4. Leave
  BY DEF OpReturn
<1> QED
  BY <1>1, <1>3, <1>4, ActLeft

\* Types and nesting are inductive.
LEMMA TrapsInductive == TypeOK /\ NestInv /\ [Next]_vars => TypeOK' /\ NestInv'
<1> SUFFICES ASSUME TypeOK, NestInv, [Next]_vars PROVE TypeOK' /\ ActOK'
  BY DEF ActOK
<1>1. ActOK
  BY DEF ActOK, TypeOK
<1> DEFINE Fields ==
             /\ pending' \subseteq Sig /\ mask' \subseteq Sig /\ mask_backup' \subseteq Sig
             /\ handlers' \in [Sig -> Dispositions \cup {SIG_DFL}]
             /\ killed' \in BOOLEAN /\ exited' \in BOOLEAN
             /\ tf' \in {Main} \cup Handlers /\ trap_backup' \in {Main} \cup Handlers
             /\ kreg' = <<>> \/ kreg' \in Sig \X SUBSET Sig
             /\ umask' \subseteq Sig /\ sent' \subseteq Sig
<1>2. ASSUME ActOK', Fields PROVE TypeOK' /\ ActOK'
  <2>1. act' \in Seq(Traps) /\ Len(act') <= 2
    BY <1>2 DEF ActOK
  <2>2. TypeOK'
    BY ONLY <1>2, <2>1 DEF TypeOK, Fields
  <2> QED
    BY <1>2, <2>2
<1>3. CASE UNCHANGED vars
  BY <1>1, <1>3 DEF vars, TypeOK, ActOK, NestInv
<1>4. CASE Kill
  <2>1. UNCHANGED <<act, handlers>> /\ Fields
    BY <1>4 DEF Kill, KillRead, KillWrite, TypeOK
  <2>2. ActOK'
    BY <1>1, <2>1 DEF ActOK, NestInv
  <2> QED
    BY <1>2, <2>1, <2>2
<1>5. CASE Interrupt \/ \E call \in Calls : Syscall(call)
  <2>1. Fields
    BY Zenon, <1>5 DEF Interrupt, Syscall, UserTrap, TypeOK
  <2>2. \/ act' = <<>>
        \/ \E at \in Calls \cup {"check"}, cli \in BOOLEAN : act' = <<Trap(at, cli)>>
    BY Zenon, <1>5 DEF Interrupt, Syscall, UserTrap
  <2> QED
    BY <1>2, <2>1, <2>2, ActEntered
<1>6. CASE NestedInterrupt
  <2>1. Fields
    BY <1>6 DEF NestedInterrupt, TypeOK
  <2> QED
    BY <1>1, <1>2, <1>6, <2>1, ActPushed
<1>7. CASE SysSignal \/ SysSigprocmask \/ SysExec \/ SysFork \/ SysSigret
  <2>1. Fields
    <3>1. CASE SysSignal
      BY <3>1, ProgramAssumption DEF SysSignal, Return, TypeOK
    <3>2. CASE SysSigprocmask
      BY <3>2, ProgramAssumption DEF SysSigprocmask, Return, TypeOK
    <3>3. CASE SysExec
      <4>1. \A x \in Sig : handlers[x] = SIG_IGN => SIG_IGN \in Dispositions \cup {SIG_DFL}
        BY DEF TypeOK
      <4>2. handlers' \in [Sig -> Dispositions \cup {SIG_DFL}]
        BY <3>3, <4>1 DEF SysExec
      <4> QED
        BY <3>3, <4>2 DEF SysExec, Return, TypeOK
    <3>4. CASE SysFork
      BY Zenon, <3>4, ProgramAssumption DEF SysFork, TypeOK
    <3>5. CASE SysSigret
      BY <3>5 DEF SysSigret, Return, TypeOK
    <3> QED
      BY <1>7, <3>1, <3>2, <3>3, <3>4, <3>5
  <2>2. act' = <<>> \/ act' = <<Trap("check", FALSE)>>
    BY Zenon, <1>7 DEF SysSignal, SysSigprocmask, SysExec, SysFork, SysSigret, Return
  <2> QED
    BY Zenon, <1>2, <2>1, <2>2, ActEntered
<1>8. CASE CheckStart \/ CheckLoop \/ BackupMask
  <2>1. Fields
    BY <1>8 DEF CheckStart, CheckLoop, BackupMask, TypeOK
  <2> QED
    BY <1>1, <1>2, <1>8, <2>1, CheckMoves
<1>9. CASE ClearMask
  <2>1. Fields
    BY <1>9 DEF ClearMask, TypeOK
  <2> QED
    BY <1>1, <1>2, <1>9, <2>1, ClearMoves
<1>10. CASE OpKill \/ OpStop
  <2>1. Fields /\ handlers' = handlers /\ Become(Rest)
    BY Zenon, <1>10 DEF OpKill, OpStop, TypeOK
  <2>2. \E op \in Ops \ {"restore", "return"}, x \in Sig : Op(op, x)
    BY <1>10 DEF OpKill, OpStop, Ops, Sig
  <2> QED
    BY <1>1, <1>2, <2>1, <2>2, OtherOpMoves
<1>11. CASE OpUnless
  <2>1. Fields
    BY <1>11 DEF OpUnless, TypeOK
  <2> QED
    BY <1>1, <1>2, <1>11, <2>1, UnlessMoves
<1>12. ASSUME NEW x \in Sig, OpRead(x) PROVE TypeOK' /\ ActOK'
  <2>1. Fields /\ handlers' = handlers /\ pending \in SUBSET Sig
    BY <1>12 DEF OpRead, TypeOK
  <2>2. Op("read", x) /\ Become([Rest EXCEPT !.reg = pending]) /\ "read" \in Ops \ {"restore", "return"}
    BY <1>12 DEF OpRead, Ops
  <2> QED
    BY Zenon, <1>1, <1>2, <2>1, <2>2, OpMoves
<1>13. ASSUME NEW x \in Sig, OpWrite(x) PROVE TypeOK' /\ ActOK'
  <2>1. Op("write", x) /\ Become([Rest EXCEPT !.reg = {}]) /\ "write" \in Ops \ {"restore", "return"}
    BY <1>13 DEF OpWrite, Ops
  <2>2. Head(act).reg \in SUBSET Sig
    BY <1>1, <2>1, NextOp DEF Traps
  <2>3. Fields /\ handlers' = handlers
    BY <1>13, <2>2 DEF OpWrite, TypeOK
  <2>4. {} \in SUBSET Sig
    OBVIOUS
  <2> QED
    BY Zenon, <1>1, <1>2, <2>1, <2>3, <2>4, OpMoves
<1>14. ASSUME NEW x \in Sig, OpDeliver(x) PROVE TypeOK' /\ ActOK'
  <2>1. Op("deliver", x) /\ Become(Rest) /\ "deliver" \in Ops \ {"restore", "return"} /\ handlers' = handlers
    BY <1>14 DEF OpDeliver, Ops
  <2>2. handlers[x] \in Handlers
    <3>1. /\ act[1].ops \in Seq(Ops \X Sig) /\ act[1].ops # <<>> /\ act[1].ops[1] = <<"deliver", x>>
          /\ ToHandlers(act[1].ops, handlers)
      BY <1>1, <2>1, NextOp
    <3>2. 1 \in 1 .. Len(act[1].ops)
      BY <3>1
    <3>3. handlers[act[1].ops[1][2]] \in Handlers
      BY <3>1, <3>2 DEF ToHandlers
    <3> QED
      BY <3>1, <3>3
  <2>3. Fields
    BY <1>14, <2>2 DEF OpDeliver, TypeOK
  <2> QED
    BY <1>1, <1>2, <2>1, <2>3, OtherOpMoves
<1>15. ASSUME NEW x \in Sig, OpReturn(x) PROVE TypeOK' /\ ActOK'
  <2>1. Fields
    BY <1>15 DEF OpReturn, TypeOK
  <2> QED
    BY <1>1, <1>2, <1>15, <2>1, ReturnMoves
<1>16. ASSUME NEW x \in Sig, OpRestore(x) PROVE TypeOK' /\ ActOK'
  <2>1. Fields
    BY <1>16 DEF OpRestore, TypeOK
  <2> QED
    BY <1>1, <1>2, <1>16, <2>1, RestoreMoves
<1> QED
  BY <1>3, <1>4, <1>5, <1>6, <1>7, <1>8, <1>9, <1>10, <1>11, <1>12, <1>13, <1>14, <1>15, <1>16
     DEF Next, KernelStep

-----------------------------------------------------------------------------
(***************************************************************************)
(* The mask.                                                               *)
(***************************************************************************)

\* The program counter of a handler is not that of the program.
LEMMA HandlerIsNotMain == Main \notin Handlers
<1>1. Main \notin Nat
  BY DEF Main
<1> QED
  BY Zenon, <1>1, HandlersAssumption

\* Before the test of a signal, and in system calls, the mask is at rest.
LEMMA RestNow ==
  ASSUME MaskInv, act = <<>> \/ act[1].at \in Calls \cup {"check", "loop"}
  PROVE  MaskAtRest
  BY DEF MaskInv, MaskInHandling, Calls

\* And the other way round.
LEMMA RestNext ==
  ASSUME MaskAtRest', act' = <<>> \/ act'[1].at \in {"check", "loop"}
  PROVE  MaskInv'
  BY DEF MaskInv, MaskInHandling, Calls

\* A trap that returns goes back to user mode or to a trap at one of the places
\* where interrupts arrive.
LEMMA RestReturned ==
  ASSUME Disciplined, ActOK, act # <<>>, Returned, ActOK', MaskAtRest'
  PROVE  MaskInv'
<1>1. Len(act) \in Nat /\ Len(act) # 0 /\ Len(act) <= 2
  BY DEF ActOK
<1>2. CASE Len(act) = 1
  <2>1. Len(act') = 0 /\ act' \in Seq(Traps)
    BY <1>2 DEF Returned, ActOK
  <2>2. act' = <<>>
    BY <2>1, EmptySeq
  <2> QED
    BY <2>2, RestNext
<1>3. CASE Len(act) = 2
  <2>1. 1 \in 1 .. Len(act) - 1 /\ 1 + 1 = 2
    BY <1>3
  <2>2. act'[1] = act[2] /\ act[2].at \in Nested
    BY <1>3, <2>1 DEF Returned, ActOK, NestInv
  <2> QED
    BY Zenon, <2>2, RestNext DEF Disciplined
<1>4. \A n \in Nat : n # 0 /\ n <= 2 => n = 1 \/ n = 2
  OBVIOUS
<1> QED
  BY Zenon, <1>1, <1>2, <1>3, <1>4

\* The steps that touch neither the mask nor what it depends on.
LEMMA RestKept ==
  ASSUME MaskAtRest, UNCHANGED <<mask, mask_backup, trap_backup, tf, umask>>
  PROVE  MaskAtRest'
  BY DEF MaskAtRest

\* Every system call and interrupt of a disciplined program finds the mask at
\* rest and leaves it at rest.
LEMMA MaskCalls ==
  ASSUME Disciplined, TypeOK, ActOK, MaskInv, ActOK',
         \/ Interrupt \/ NestedInterrupt \/ \E call \in Calls : Syscall(call)
         \/ SysSignal \/ SysSigprocmask \/ SysExec \/ SysFork \/ SysSigret
  PROVE  MaskInv'
<1>1. CASE Interrupt
  <2>1. MaskAtRest'
    BY <1>1, RestNow, RestKept DEF Interrupt, UserTrap
  <2>2. act' = <<>> \/ (act' = <<Trap("check", TRUE)>> /\ act'[1].at = "check")
    BY Zenon, <1>1 DEF Interrupt, UserTrap, Trap
  <2> QED
    BY Zenon, <2>1, <2>2, RestNext
<1>2. CASE NestedInterrupt
  <2>1. act[1].at \in Nested /\ act'[1].at = "check"
    BY <1>2, ActPushed DEF Trap
  <2>2. MaskAtRest'
    BY Zenon, <1>2, <2>1, RestNow, RestKept DEF NestedInterrupt, Disciplined
  <2> QED
    BY <2>1, <2>2, RestNext
<1>3. ASSUME NEW call \in Calls, Syscall(call) PROVE MaskInv'
  <2>1. MaskAtRest' /\ tf' = tf
    BY <1>3, RestNow, RestKept DEF Syscall, UserTrap
  <2>2. CASE act' = <<>>
    BY <2>1, <2>2, RestNext
  <2>3. CASE act' = <<Trap(call, FALSE)>>
    <3>1. act' # <<>> /\ act'[1].at = call
      BY <2>3 DEF Trap
    <3>2. IF tf = Main THEN call # "sigret" ELSE call \in {"signal", "sigret"}
      BY <1>3, ProgramAssumption DEF Syscall, Disciplined
    <3>3. call \notin {"backup", "clear", "ops"}
      BY DEF Calls
    <3> QED
      BY <2>1, <3>1, <3>2, <3>3 DEF MaskInv, MaskInHandling
  <2> QED
    BY Zenon, <1>3, <2>2, <2>3 DEF Syscall, UserTrap
<1>4. CASE SysSignal \/ SysSigprocmask \/ SysExec \/ SysFork \/ SysSigret
  <2>1. act # <<>> /\ act[1].at \in Calls /\ Head(act) = act[1]
    BY Zenon, <1>4, Innermost DEF SysSignal, SysSigprocmask, SysExec, SysFork, SysSigret, Calls
  <2>2. /\ MaskAtRest
        /\ IF tf = Main THEN act[1].at # "sigret" ELSE act[1].at \in {"signal", "sigret"}
    BY <2>1 DEF MaskInv, MaskInHandling, Calls
  <2>3. MaskAtRest'
    <3>1. CASE SysSignal
      BY <2>2, <3>1, RestKept DEF SysSignal
    <3>2. CASE SysSigprocmask
      BY <2>1, <2>2, <3>2 DEF SysSigprocmask, MaskAtRest
    <3>3. CASE SysExec
      BY <2>1, <2>2, <3>3 DEF SysExec, MaskAtRest
    <3>4. CASE SysFork
      BY <2>1, <2>2, <3>4 DEF SysFork, MaskAtRest
    <3>5. CASE SysSigret
      BY <2>1, <2>2, <3>5 DEF SysSigret, MaskAtRest
    <3> QED
      BY <1>4, <3>1, <3>2, <3>3, <3>4, <3>5
  <2>4. act' = <<>> \/ (act' = <<Trap("check", FALSE)>> /\ act'[1].at = "check")
    BY <1>4 DEF SysSignal, SysSigprocmask, SysExec, SysFork, SysSigret, Return, Trap
  <2> QED
    BY Zenon, <2>3, <2>4, RestNext
<1> QED
  BY <1>1, <1>2, <1>3, <1>4

\* The mask while a signal is handled, with the operations that are left.
LEMMA MaskOps ==
  ASSUME MaskInv, act # <<>>, act[1].at = "ops"
  PROVE  /\ mask = {} /\ mask_backup = umask
         /\ tf = Main => (Returns(act[1].ops) => Delivers(act[1].ops))
         /\ tf # Main => Returns(act[1].ops) /\ ~Delivers(act[1].ops) /\ trap_backup = Main
  BY DEF MaskInv, MaskInHandling

\* And the other way round.
LEMMA MaskOpsNext ==
  ASSUME act' # <<>>, act'[1].at = "ops", mask' = {}, mask_backup' = umask',
         tf' = Main => (Returns(act'[1].ops) => Delivers(act'[1].ops)),
         tf' # Main => Returns(act'[1].ops) /\ ~Delivers(act'[1].ops) /\ trap_backup' = Main
  PROVE  MaskInv'
  BY DEF MaskInv, MaskInHandling

\* An operation other than a delivery, and what is left after it.
LEMMA MaskOpStep ==
  ASSUME MaskInv, act # <<>>, act[1].at = "ops", act' # <<>>, act'[1].at = "ops",
         UNCHANGED <<mask, mask_backup, umask, tf, trap_backup>>,
         Returns(act'[1].ops) <=> Returns(act[1].ops),
         Delivers(act'[1].ops) <=> Delivers(act[1].ops)
  PROVE  MaskInv'
  BY MaskOps, MaskOpsNext

\* check_kernel_sigs puts the mask back unless it delivers the signal, and then
\* leaves it in mask_backup.
LEMMA MaskChecks ==
  ASSUME Disciplined, TypeOK, ActOK, MaskInv, ActOK',
         \/ CheckStart \/ CheckLoop \/ BackupMask \/ ClearMask \/ OpKill \/ OpStop \/ OpUnless
         \/ \E x \in Sig : OpRead(x) \/ OpWrite(x) \/ OpDeliver(x) \/ OpReturn(x) \/ OpRestore(x)
  PROVE  MaskInv'
<1>1. CASE CheckStart \/ CheckLoop \/ BackupMask
  <2>1. UNCHANGED <<mask, umask, tf, trap_backup>> /\ (mask_backup' = mask_backup \/ BackupMask)
    BY <1>1 DEF CheckStart, CheckLoop, BackupMask
  <2>2. CASE Returned /\ act[1].at \in {"check", "loop"}
    <3>1. act # <<>> /\ ~BackupMask
      BY <1>1, <2>2, CheckMoves, Innermost DEF BackupMask, At
    <3> QED
      BY <2>1, <2>2, <3>1, RestNow, RestKept, RestReturned
  <2>3. CASE GoesOn /\ act'[1].at = "loop" /\ act[1].at \in {"check", "loop"}
    <3>1. act # <<>> /\ ~BackupMask
      BY <1>1, <2>3, CheckMoves, Innermost DEF BackupMask, At
    <3> QED
      BY <2>1, <2>3, <3>1, RestNow, RestKept, RestNext
  <2>4. CASE /\ GoesOn /\ act'[1].at = "backup" /\ act[1].at = "loop"
             /\ act'[1].i \in pending \cap mask
    <3>1. MaskAtRest
      BY <2>4, RestNow
    <3>2. tf = Main /\ mask = umask
      BY <2>4, <3>1 DEF MaskAtRest
    <3> QED
      BY <2>1, <2>4, <3>2 DEF GoesOn, MaskInv, MaskInHandling
  <2>5. CASE GoesOn /\ act'[1].at = "clear" /\ act[1].at = "backup" /\ BackupMask
    <3>1. act # <<>> /\ tf = Main /\ mask = umask
      BY <2>5 DEF BackupMask, At, MaskInv, MaskInHandling
    <3>2. mask_backup' = mask
      BY <2>5 DEF BackupMask
    <3> QED
      BY <2>1, <2>5, <3>1, <3>2 DEF GoesOn, MaskInv, MaskInHandling
  <2> QED
    BY <1>1, <2>2, <2>3, <2>4, <2>5, CheckMoves
<1>2. CASE ClearMask
  <2>1. /\ act # <<>> /\ act[1].at = "clear" /\ GoesOn /\ act'[1].at = "ops"
        /\ Returns(act'[1].ops) <=> Delivers(act'[1].ops)
    BY <1>2, ClearMoves
  <2>2. tf = Main /\ mask_backup = umask
    BY <2>1 DEF MaskInv, MaskInHandling
  <2>3. UNCHANGED <<mask_backup, umask, tf>> /\ mask' = {}
    BY <1>2 DEF ClearMask
  <2> QED
    BY <2>1, <2>2, <2>3, MaskOpsNext DEF GoesOn
<1>3. ASSUME NEW op \in Ops \ {"restore", "return", "deliver"}, NEW x, Op(op, x), NEW r \in SUBSET Sig,
             Become([Rest EXCEPT !.reg = r]) \/ Become(Rest),
             UNCHANGED <<handlers, mask, mask_backup, umask, tf, trap_backup>>
      PROVE  MaskInv'
  <2>1. GoesOn /\ act'[1].at = "ops" /\ act'[1].ops = Tail(act[1].ops)
    BY <1>3, OpMoves, OtherOpMoves
  <2>2. /\ act # <<>> /\ act[1].at = "ops" /\ act[1].ops \in Seq(Ops \X Sig)
        /\ Head(act[1].ops) = <<op, x>> /\ act[1].ops[1] = <<op, x>> /\ OpsShape(act[1].ops)
    BY <1>3, NextOp
  <2>3. /\ Returns(act'[1].ops) <=> Returns(act[1].ops)
        /\ Delivers(act'[1].ops) <=> Delivers(act[1].ops)
    <3> DEFINE s == act[1].ops
    <3>1. Head(s)[1] = op /\ s[1][1] = op /\ op # "deliver" /\ op \notin {"restore", "return"}
      BY <1>3, <2>2
    <3>2. s \in Seq(Ops \X Sig) /\ OpsShape(s) /\ act'[1].ops = Tail(s)
      BY <2>1, <2>2
    <3> HIDE DEF s
    <3>3. /\ Returns(Tail(s)) <=> Returns(s)
          /\ Delivers(s) <=> s[1][1] = "deliver" \/ Delivers(Tail(s))
      BY <3>1, <3>2, TailShape
    <3> QED
      BY <3>1, <3>2, <3>3 DEF s
  <2> QED
    BY <1>3, <2>1, <2>2, <2>3, MaskOpStep DEF GoesOn
<1>4. CASE OpKill \/ OpStop \/ \E x \in Sig : OpRead(x) \/ OpWrite(x)
  <2>1. UNCHANGED <<handlers, mask, mask_backup, umask, tf, trap_backup>>
    BY <1>4 DEF OpKill, OpStop, OpRead, OpWrite
  <2>2. CASE OpKill
    BY <1>3, <2>1, <2>2 DEF OpKill, Ops
  <2>3. CASE OpStop
    BY <1>3, <2>1, <2>3 DEF OpStop, Ops
  <2>4. ASSUME NEW x \in Sig, OpRead(x) PROVE MaskInv'
    BY Zenon, <1>3, <2>1, <2>4 DEF OpRead, Ops, TypeOK
  <2>5. ASSUME NEW x \in Sig, OpWrite(x) PROVE MaskInv'
    BY <1>3, <2>1, <2>5 DEF OpWrite, Ops
  <2> QED
    BY <1>4, <2>2, <2>3, <2>4, <2>5
<1>5. CASE OpUnless
  <2> DEFINE s == act[1].ops
             n == IF SIGSTOP \in pending THEN 2 ELSE 4
  <2>1. /\ GoesOn /\ act'[1].at = "ops" /\ n \in 1 .. Len(s) /\ act'[1].ops = SubSeq(s, n, Len(s))
        /\ s[1] = <<"unless", SIGSTOP>> /\ s[2] = <<"read", SIGSTOP>>
        /\ s[3] = <<"write", SIGSTOP>> /\ Len(s) > 3
    BY Zenon, <1>5, UnlessMoves
  <2>2. act # <<>> /\ act[1].at = "ops" /\ s \in Seq(Ops \X Sig) /\ OpsShape(s)
    BY <1>5, NextOp DEF OpUnless
  <2>3. n = 2 \/ n = 4
    OBVIOUS
  <2> DEFINE u == act'[1].ops
  <2> HIDE DEF n
  <2>4. /\ Returns(u) <=> Returns(s)
        /\ Len(u) = Len(s) - n + 1
        /\ \A k \in 1 .. Len(u) : n + k - 1 \in 1 .. Len(s) /\ u[k] = s[n + k - 1]
    BY <2>1, <2>2, SuffixShape
  <2>5. Delivers(u) <=> Delivers(s)
    <3>1. Delivers(u) => Delivers(s)
      BY Zenon, <2>4 DEF Delivers
    <3>2. ASSUME NEW k \in 1 .. Len(s), s[k][1] = "deliver"
          PROVE  \E j \in 1 .. Len(u) : u[j][1] = "deliver"
      <4>1. k # 1 /\ k # 2 /\ k # 3
        BY <2>1, <3>2
      <4>2. k - n + 1 \in 1 .. Len(u) /\ n + (k - n + 1) - 1 = k
        <5>1. Len(s) \in Nat /\ Len(u) = Len(s) - n + 1 /\ k \in 1 .. Len(s)
          BY <2>2, <2>4
        <5>2. \A l \in Nat : \A i \in 1 .. l : i # 1 /\ i # 2 /\ i # 3 =>
                /\ i - 2 + 1 \in 1 .. l - 2 + 1 /\ 2 + (i - 2 + 1) - 1 = i
                /\ i - 4 + 1 \in 1 .. l - 4 + 1 /\ 4 + (i - 4 + 1) - 1 = i
          OBVIOUS
        <5> QED
          BY ONLY <2>3, <4>1, <5>1, <5>2
      <4>3. u[k - n + 1] = s[k]
        BY <2>4, <4>2
      <4> QED
        BY <3>2, <4>2, <4>3
    <3> QED
      BY <3>1, <3>2 DEF Delivers
  <2>6. UNCHANGED <<mask, mask_backup, umask, tf, trap_backup>>
    BY <1>5 DEF OpUnless
  <2> QED
    BY <2>1, <2>2, <2>4, <2>5, <2>6, MaskOpStep DEF GoesOn
<1>6. ASSUME NEW x \in Sig, OpDeliver(x) PROVE MaskInv'
  <2>1. Op("deliver", x) /\ Become(Rest) /\ "deliver" \in Ops \ {"restore", "return"}
    BY <1>6 DEF OpDeliver, Ops
  <2>2. /\ UNCHANGED <<mask, mask_backup, umask, handlers>>
        /\ trap_backup' = tf /\ tf' = handlers[x]
    BY <1>6 DEF OpDeliver
  <2>3. GoesOn /\ act'[1].at = "ops" /\ act'[1].ops = Tail(act[1].ops)
    BY <2>1, <2>2, OtherOpMoves
  <2>4. /\ act # <<>> /\ act[1].at = "ops" /\ act[1].ops \in Seq(Ops \X Sig)
        /\ Head(act[1].ops) = <<"deliver", x>> /\ act[1].ops[1] = <<"deliver", x>>
        /\ act[1].ops # <<>> /\ OpsShape(act[1].ops) /\ ToHandlers(act[1].ops, handlers)
    BY <2>1, NextOp
  <2>5. 1 \in 1 .. Len(act[1].ops)
    BY <2>4, FirstOp
  <2>6. handlers[x] \in Handlers /\ Delivers(act[1].ops) /\ Returns(act[1].ops)
    <3>1. handlers[act[1].ops[1][2]] \in Handlers
      BY <2>4, <2>5 DEF ToHandlers
    <3>2. Delivers(act[1].ops)
      BY <2>4, <2>5 DEF Delivers
    <3>3. Returns(act[1].ops)
      BY <2>4, <2>5 DEF Returns, OpsShape
    <3> QED
      BY <2>4, <3>1, <3>2, <3>3
  <2>7. Returns(act'[1].ops) /\ ~Delivers(act'[1].ops)
    BY <2>3, <2>4, <2>6, TailShape
  <2>8. mask = {} /\ mask_backup = umask /\ tf = Main
    BY <2>4, <2>6, MaskOps
  <2> QED
    BY <2>2, <2>3, <2>6, <2>7, <2>8, HandlerIsNotMain, MaskOpsNext DEF GoesOn
<1>7. ASSUME NEW x \in Sig, OpReturn(x) PROVE MaskInv'
  <2>1. /\ Returned /\ act # <<>> /\ act[1].at = "ops"
        /\ Returns(act[1].ops) /\ ~Delivers(act[1].ops)
    BY <1>7, ReturnMoves
  <2>2. tf # Main /\ trap_backup = Main /\ mask = {} /\ mask_backup = umask
    BY <2>1, MaskOps
  <2>3. MaskAtRest'
    BY <1>7, <2>2 DEF OpReturn, MaskAtRest
  <2> QED
    BY <2>1, <2>3, RestReturned
<1>8. ASSUME NEW x \in Sig, OpRestore(x) PROVE MaskInv'
  <2>1. GoesOn /\ act'[1].at = "loop" /\ act[1].at = "ops" /\ ~Returns(act[1].ops) /\ act # <<>>
    BY <1>8, RestoreMoves DEF OpRestore, Op, At
  <2>2. tf = Main /\ mask_backup = umask
    BY <2>1, MaskOps
  <2>3. MaskAtRest'
    BY <1>8, <2>2 DEF OpRestore, MaskAtRest
  <2> QED
    BY <2>1, <2>3, RestNext
<1> QED
  BY <1>1, <1>2, <1>4, <1>5, <1>6, <1>7, <1>8

\* Every step keeps the mask.
LEMMA MaskInductive ==
  ASSUME Disciplined, TypeOK, NestInv, MaskInv, [Next]_vars
  PROVE  MaskInv'
<1>1. ActOK /\ ActOK'
  BY TrapsInductive DEF ActOK, TypeOK, NestInv
<1>2. CASE UNCHANGED vars
  BY <1>2 DEF vars, MaskInv, MaskInHandling, MaskAtRest
<1>3. CASE Kill
  BY <1>3 DEF Kill, KillRead, KillWrite, MaskInv, MaskInHandling, MaskAtRest
<1>4. CASE KernelStep
  BY <1>1, <1>4, MaskCalls, MaskChecks DEF KernelStep
<1>5. CASE Interrupt \/ NestedInterrupt \/ \E call \in Calls : Syscall(call)
  BY <1>1, <1>5, MaskCalls
<1> QED
  BY <1>2, <1>3, <1>4, <1>5 DEF Next

-----------------------------------------------------------------------------
(***************************************************************************)
(* The theorems.                                                           *)
(***************************************************************************)

\* A fresh process: no trap, no signal, the mask of allocproc.
LEMMA SignalsStart == Init => TypeOK /\ NestInv /\ MaskInv /\ PendingInv
<1> SUFFICES ASSUME Init PROVE TypeOK /\ NestInv /\ MaskInv /\ PendingInv
  OBVIOUS
<1>1. act = <<>> /\ Len(act) = 0 /\ 1 .. Len(act) = {}
  BY DEF Init
<1>2. TypeOK
  <2>1. act \in Seq(Traps) /\ Len(act) <= 2
    BY <1>1
  <2>2. handlers \in [Sig -> Dispositions \cup {SIG_DFL}]
    BY DEF Init
  <2> QED
    BY Zenon, <2>1, <2>2 DEF Init, TypeOK
<1>3. NestInv
  BY <1>1 DEF NestInv
<1>4. MaskInv
  BY <1>1 DEF Init, MaskInv, MaskAtRest
<1>5. PendingInv
  BY <1>1 DEF Init, PendingInv, PendingExact
<1> QED
  BY <1>2, <1>3, <1>4, <1>5

\* The fields of struct proc that signals use hold sets of signals and known
\* dispositions, and an interrupt of check_kernel_sigs is not interrupted in
\* turn, whatever the program and the interrupts do.
THEOREM SignalTypes == Spec => [](TypeOK /\ NestInv)
<1>1. Init => TypeOK /\ NestInv
  BY SignalsStart
<1> QED
  BY <1>1, TrapsInductive, PTL DEF Spec

\* When handlers leave the mask alone and interrupts do not hit the handling of
\* a signal, the program runs with the mask that it has set: what
\* check_kernel_sigs saves is what it or sigret puts back.
THEOREM MaskIsRestored == Disciplined => (Spec => []MaskRestored)
<1> SUFFICES ASSUME Disciplined PROVE Spec => []MaskRestored
  OBVIOUS
<1>1. Init => TypeOK /\ NestInv /\ MaskInv
  BY SignalsStart
<1>2. TypeOK /\ NestInv /\ MaskInv /\ [Next]_vars => TypeOK' /\ NestInv' /\ MaskInv'
  BY TrapsInductive, MaskInductive
<1>3. MaskInv => MaskRestored
  BY DEF MaskInv, MaskRestored, InUserMode, MaskAtRest
<1> QED
  BY <1>1, <1>2, <1>3, PTL DEF Spec

\* And a handler runs with every signal blocked and returns to the code outside
\* of handlers that it interrupted: the one trap_backup is enough.
THEOREM HandlersDoNotNest == Disciplined => (Spec => []HandlerExclusive)
<1> SUFFICES ASSUME Disciplined PROVE Spec => []HandlerExclusive
  OBVIOUS
<1>1. Init => TypeOK /\ NestInv /\ MaskInv
  BY SignalsStart
<1>2. TypeOK /\ NestInv /\ MaskInv /\ [Next]_vars => TypeOK' /\ NestInv' /\ MaskInv'
  BY TrapsInductive, MaskInductive
<1>3. MaskInv => HandlerExclusive
  BY DEF MaskInv, HandlerExclusive, InUserMode, MaskAtRest
<1> QED
  BY <1>1, <1>2, <1>3, PTL DEF Spec

=============================================================================
