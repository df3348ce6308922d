------------------------ MODULE SignalsPendingProofs ------------------------
(***************************************************************************)
(* The pending signals: kill sets the bit of a signal and cancelSignal     *)
(* flips it, and nothing gets lost or comes back.                          *)
(***************************************************************************)
EXTENDS SignalsProofs

\* Operations that have nothing to do with pending.
Inert(s) == \A k \in 1 .. Len(s) : s[k][1] \notin {"read", "write", "unless"}

\* CancelShape of the operation k of n.
CancelOp(t, p, k, n) ==
  LET s == t.ops[k][2] IN
  /\ t.ops[k][1] = "read" => k < n /\ t.ops[k + 1] = <<"write", s>>
  /\ t.ops[k][1] = "write" =>
       /\ IF k = 1 THEN t.reg = p ELSE t.ops[k - 1] = <<"read", s>>
       /\ s \in p \/ (k > 2 /\ t.ops[k - 2] = <<"unless", s>>)
       /\ \A j \in 1 .. n : t.ops[j] = <<"write", s>> => j = k

\* CancelShape, one operation at a time.
LEMMA CancelByOp ==
  ASSUME NEW t, NEW p, \A k \in 1 .. Len(t.ops) : CancelOp(t, p, k, Len(t.ops))
  PROVE  CancelShape(t, p)
  BY Zenon DEF CancelShape, CancelOp

\* The place of the next operation in what is left.
LEMMA NextPlace ==
  \A i, j, x, y \in Nat : x >= 1 /\ j = i - y + 1 /\ y + x - 1 < i =>
    x < j /\ x + 1 \in 1 .. j /\ y + (x + 1) - 1 = y + x - 1 + 1
  OBVIOUS

\* The handling of a pending signal cancels it, and cancels SIGSTOP only behind
\* its test.
LEMMA HandlingCancels ==
  ASSUME NEW i \in Sig, NEW h \in Dispositions \cup {SIG_DFL}, SIGCONT \notin Dispositions,
         NEW p, i \in p, NEW t, t.ops = DefaultHandling(i, h) \o CustomHandling(i, h)
  PROVE  CancelShape(t, p) /\ (t.ops # <<>> => Head(t.ops)[1] # "write")
<1> DEFINE d == DefaultHandling(i, h)
           c == CustomHandling(i, h)
           r == << <<"restore", i>> >>
<1>1. h \in {SIG_DFL, SIG_IGN, SIGKILL, SIGSTOP} \cup Handlers
  BY ProgramAssumption
<1>2. h \in Handlers => h \notin {SIG_DFL, SIG_IGN, SIGKILL, SIGSTOP, SIGCONT}
  <2>1. SIG_DFL \notin Nat
    BY DEF SIG_DFL
  <2> QED
    BY <2>1, HandlersAssumption
<1>3. ASSUME NEW a \in Seq(Ops \X Sig), NEW b \in Seq(Ops \X Sig), Inert(a), Inert(b)
      PROVE  a \o b \in Seq(Ops \X Sig) /\ Inert(a \o b)
  BY <1>3 DEF Inert
<1>4. /\ handle_SIGKILL \in Seq(Ops \X Sig) /\ Inert(handle_SIGKILL)
      /\ handle_SIGSTOP \in Seq(Ops \X Sig) /\ Inert(handle_SIGSTOP)
      /\ r \in Seq(Ops \X Sig) /\ Inert(r) /\ <<>> \in Seq(Ops \X Sig) /\ Inert(<<>>)
  BY DEF Inert, handle_SIGKILL, handle_SIGSTOP, Ops, Sig
<1>5. CASE h \in {SIG_DFL, SIGKILL, SIGSTOP} /\ ~(i = SIGCONT /\ h = SIG_DFL)
  <2>1. d \in {<<>>, handle_SIGKILL, handle_SIGSTOP}
    BY <1>5 DEF DefaultHandling, SIG_DFL, SIGKILL, SIGSTOP, SIGCONT
  <2>2. c \in {r, handle_SIGKILL \o r, handle_SIGSTOP \o r}
    BY <1>5 DEF CustomHandling, SIG_DFL, SIG_IGN, SIGKILL, SIGSTOP, SIGCONT
  <2>3. d \in Seq(Ops \X Sig) /\ Inert(d)
    <3> HIDE DEF d
    <3> QED
      BY Zenon, <1>4, <2>1
  <2>4. c \in Seq(Ops \X Sig) /\ Inert(c)
    <3> HIDE DEF c, r
    <3> QED
      BY Zenon, <1>3, <1>4, <2>2
  <2>5. t.ops \in Seq(Ops \X Sig) /\ Inert(t.ops)
    <3> HIDE DEF d, c
    <3>1. d \o c \in Seq(Ops \X Sig) /\ Inert(d \o c)
      BY <1>3, <2>3, <2>4
    <3> QED
      BY <3>1 DEF d, c
  <2>6. t.ops # <<>> => 1 \in 1 .. Len(t.ops) /\ Head(t.ops) = t.ops[1]
    BY <2>5
  <2> QED
    BY Zenon, <2>5, <2>6 DEF Inert, CancelShape
<1>6. CASE i = SIGCONT /\ h = SIG_DFL
  <2>1. d = handle_SIGCONT /\ c = r
    <3>1. SIGCONT # SIGKILL /\ SIGCONT # SIGSTOP /\ SIGCONT \notin UserSigs
      BY UserSigsAssumption DEF SIGKILL, SIGCONT, SIGSTOP
    <3>2. SIG_DFL \notin {SIG_IGN, SIGKILL, SIGSTOP, SIGCONT}
      BY DEF SIG_DFL, SIG_IGN, SIGKILL, SIGCONT, SIGSTOP
    <3>3. d = handle_SIGCONT
      BY <1>6, <3>1 DEF DefaultHandling
    <3>4. c = r
      BY <1>6, <3>2 DEF CustomHandling
    <3> QED
      BY <3>3, <3>4
  <2> DEFINE w == << <<"unless", SIGSTOP>>, <<"read", SIGSTOP>>, <<"write", SIGSTOP>>,
                     <<"read", SIGCONT>>, <<"write", SIGCONT>> >>
  <2>2. /\ w \in Seq(Ops \X Sig) /\ Len(w) = 5 /\ w[1] = <<"unless", SIGSTOP>>
        /\ w[2] = <<"read", SIGSTOP>> /\ w[3] = <<"write", SIGSTOP>>
        /\ w[4] = <<"read", SIGCONT>> /\ w[5] = <<"write", SIGCONT>>
    BY DEF Ops, Sig
  <2>3. t.ops = w \o r /\ Len(r) = 1 /\ r[1] = <<"restore", SIGCONT>>
    BY <1>6, <2>1, ContOps
  <2> HIDE DEF w, r
  <2>4. /\ Len(t.ops) = 6 /\ t.ops[1] = <<"unless", SIGSTOP>> /\ t.ops[2] = <<"read", SIGSTOP>>
        /\ t.ops[3] = <<"write", SIGSTOP>> /\ t.ops[4] = <<"read", SIGCONT>>
        /\ t.ops[5] = <<"write", SIGCONT>> /\ t.ops[6] = <<"restore", SIGCONT>>
        /\ Head(t.ops) = <<"unless", SIGSTOP>>
    <3> DEFINE z == w \o r
    <3>1. /\ z \in Seq(Ops \X Sig) /\ Len(z) = Len(w) + Len(r)
          /\ \A j \in 1 .. Len(w) + Len(r) : z[j] = IF j <= Len(w) THEN w[j] ELSE r[j - Len(w)]
      BY ONLY Zenon, <1>4, <2>2, ConcatProperties DEF z
    <3>2. t.ops = z
      BY <2>3
    <3> HIDE DEF z
    <3>3. /\ Len(z) = 6 /\ z[1] = w[1] /\ z[2] = w[2] /\ z[3] = w[3] /\ z[4] = w[4]
          /\ z[5] = w[5] /\ z[6] = r[1] /\ Head(z) = z[1]
      BY <2>2, <2>3, <3>1
    <3> QED
      BY <2>2, <2>3, <3>2, <3>3
  <2>5. SIGSTOP # SIGCONT /\ \A k \in 1 .. 6 : k = 1 \/ k = 2 \/ k = 3 \/ k = 4 \/ k = 5 \/ k = 6
    BY DEF SIGSTOP, SIGCONT
  <2>6. ASSUME NEW k \in 1 .. 6 PROVE CancelOp(t, p, k, 6)
    <3>1. CASE k = 1 \/ k = 6
      BY <2>4, <3>1 DEF CancelOp
    <3>4. CASE k = 2 \/ k = 4
      BY <2>4, <3>4 DEF CancelOp
    <3>2. CASE k = 3
      <4>1. /\ t.ops[3][1] = "write" /\ t.ops[3][2] = SIGSTOP /\ t.ops[3 - 1] = <<"read", SIGSTOP>>
            /\ t.ops[3 - 2] = <<"unless", SIGSTOP>> /\ 3 > 2 /\ 3 # 1
        BY <2>4
      <4>2. \A j \in 1 .. 6 : t.ops[j] = <<"write", SIGSTOP>> => j = 3
        BY <2>4, <2>5
      <4> QED
        BY <3>2, <4>1, <4>2 DEF CancelOp
    <3>3. CASE k = 5
      <4>1. /\ t.ops[5][1] = "write" /\ t.ops[5][2] = SIGCONT /\ t.ops[5 - 1] = <<"read", SIGCONT>>
            /\ SIGCONT \in p /\ 5 # 1
        BY <1>6, <2>4
      <4>2. \A j \in 1 .. 6 : t.ops[j] = <<"write", SIGCONT>> => j = 5
        BY <2>4, <2>5
      <4> QED
        BY <3>3, <4>1, <4>2 DEF CancelOp
    <3> QED
      BY Zenon, <2>5, <3>1, <3>2, <3>3, <3>4
  <2>7. CancelShape(t, p)
    BY Zenon, <2>4, <2>6, CancelByOp
  <2> QED
    BY <2>4, <2>7
<1>7. CASE h = SIG_IGN
  <2>1. d = <<>> /\ c = cancelSignal(i) \o r
    BY <1>7 DEF DefaultHandling, CustomHandling, SIG_DFL, SIG_IGN, SIGKILL, SIGSTOP, SIGCONT
  <2>2. c \in Seq(Ops \X Sig) /\ t.ops = c
    <3>1. cancelSignal(i) \o r \in Seq(Ops \X Sig)
      BY DEF cancelSignal, Ops
    <3>2. c \in Seq(Ops \X Sig) /\ t.ops = <<>> \o c
      BY <2>1, <3>1
    <3> HIDE DEF c
    <3> QED
      BY <3>2, ConcatEmptySeq
  <2>3. /\ Len(t.ops) = 3 /\ t.ops[1] = <<"read", i>> /\ t.ops[2] = <<"write", i>>
        /\ t.ops[3] = <<"restore", i>> /\ Head(t.ops) = <<"read", i>>
    <3>1. t.ops = << <<"read", i>>, <<"write", i>> >> \o << <<"restore", i>> >>
      BY <2>1, <2>2 DEF cancelSignal
    <3> QED
      BY <3>1
  <2> QED
    BY <2>3 DEF CancelShape
<1>8. CASE h \in Handlers
  <2>1. d = <<>> /\ c = (<< <<"deliver", i>> >> \o cancelSignal(i)) \o << <<"return", i>> >>
    BY <1>2, <1>8 DEF DefaultHandling, CustomHandling
  <2>2. c = << <<"deliver", i>>, <<"read", i>>, <<"write", i>>, <<"return", i>> >>
    BY <2>1, FourOps DEF cancelSignal
  <2>3. t.ops = << <<"deliver", i>>, <<"read", i>>, <<"write", i>>, <<"return", i>> >>
    <3>3. << <<"deliver", i>>, <<"read", i>>, <<"write", i>>, <<"return", i>> >> \in Seq(Ops \X Sig)
      BY DEF Ops
    <3>1. c \in Seq(Ops \X Sig) /\ t.ops = <<>> \o c
      BY Zenon, <2>1, <2>2, <3>3
    <3>2. t.ops = c
      <4> HIDE DEF c
      <4> QED
        BY <3>1, ConcatEmptySeq
    <3> QED
      BY Zenon, <2>2, <3>2
  <2>4. /\ Len(t.ops) = 4 /\ t.ops[1] = <<"deliver", i>> /\ t.ops[2] = <<"read", i>>
        /\ t.ops[3] = <<"write", i>> /\ t.ops[4] = <<"return", i>>
        /\ Head(t.ops) = <<"deliver", i>>
    BY <2>3
  <2>5. \A k \in 1 .. 4 : k = 1 \/ k = 2 \/ k = 3 \/ k = 4
    OBVIOUS
  <2>6. ASSUME NEW k \in 1 .. 4 PROVE CancelOp(t, p, k, 4)
    <3>1. CASE k = 1 \/ k = 4
      BY <2>4, <3>1 DEF CancelOp
    <3>2. CASE k = 2
      BY <2>4, <3>2 DEF CancelOp
    <3>3. CASE k = 3
      BY <2>4, <2>5, <3>3 DEF CancelOp
    <3> QED
      BY Zenon, <2>5, <3>1, <3>2, <3>3
  <2>7. CancelShape(t, p)
    BY Zenon, <2>4, <2>6, CancelByOp
  <2> QED
    BY <2>4, <2>7
<1> QED
  BY <1>1, <1>5, <1>6, <1>7, <1>8

\* What is left of the handling, from operation n on, when q is pending.
LEMMA SuffixCancels ==
  ASSUME NEW t, NEW v, NEW p, NEW q, NEW n \in Nat, n > 1,
         t.ops \in Seq(Ops \X Sig), v.ops \in Seq(Ops \X Sig), CancelShape(t, p),
         Len(v.ops) = Len(t.ops) - n + 1,
         \A k \in 1 .. Len(v.ops) : n + k - 1 \in 1 .. Len(t.ops) /\ v.ops[k] = t.ops[n + k - 1],
         v.ops # <<>> /\ v.ops[1][1] = "write" => v.reg = q,
         \A k \in 1 .. Len(v.ops) : v.ops[k][1] = "write" =>
           /\ v.ops[k][2] \in p => v.ops[k][2] \in q
           /\ k <= 2 /\ n + k > 3 /\ t.ops[n + k - 3] = <<"unless", v.ops[k][2]>> => v.ops[k][2] \in q
  PROVE  CancelShape(v, q)
<1> DEFINE a == t.ops
           u == v.ops
<1>1. Len(a) \in Nat /\ Len(u) \in Nat /\ Len(u) = Len(a) - n + 1
  OBVIOUS
<1> SUFFICES ASSUME NEW k \in 1 .. Len(u)
             PROVE  LET s == u[k][2] IN
                    /\ u[k][1] = "read" => k < Len(u) /\ u[k + 1] = <<"write", s>>
                    /\ u[k][1] = "write" =>
                         /\ IF k = 1 THEN v.reg = q ELSE u[k - 1] = <<"read", s>>
                         /\ s \in q \/ (k > 2 /\ u[k - 2] = <<"unless", s>>)
                         /\ \A j \in 1 .. Len(u) : u[j] = <<"write", s>> => j = k
  BY DEF CancelShape
<1> DEFINE m == n + k - 1
           s == u[k][2]
<1>2. m \in 1 .. Len(a) /\ u[k] = a[m] /\ m # 1
  BY <1>1
<1>3. /\ a[m][1] = "read" => m < Len(a) /\ a[m + 1] = <<"write", s>>
      /\ a[m][1] = "write" =>
           /\ a[m - 1] = <<"read", s>>
           /\ s \in p \/ (m > 2 /\ a[m - 2] = <<"unless", s>>)
           /\ \A j \in 1 .. Len(a) : a[j] = <<"write", s>> => j = m
  BY <1>2 DEF CancelShape
<1>4. u[k][1] = "read" => k < Len(u) /\ u[k + 1] = <<"write", s>>
  <2>1. m < Len(a) => k < Len(u) /\ k + 1 \in 1 .. Len(u) /\ n + (k + 1) - 1 = m + 1
    <3>2. k \in Nat /\ k >= 1
      OBVIOUS
    <3> HIDE DEF a, u
    <3> QED
      BY ONLY <1>1, <3>2, n \in Nat, NextPlace DEF m
  <2>2. m < Len(a) => u[k + 1] = a[n + (k + 1) - 1]
    BY Zenon, <2>1
  <2> HIDE DEF m, a, u
  <2> QED
    BY <1>2, <1>3, <2>1, <2>2
<1>5. ASSUME k # 1 PROVE u[k - 1] = a[m - 1]
  <2>1. k - 1 \in 1 .. Len(u) /\ n + (k - 1) - 1 = m - 1
    BY <1>1, <1>5
  <2>2. u[k - 1] = a[n + (k - 1) - 1]
    BY <2>1
  <2> HIDE DEF m
  <2> QED
    BY <2>1, <2>2
<1>6. ASSUME k > 2 PROVE u[k - 2] = a[m - 2]
  <2>1. k - 2 \in 1 .. Len(u) /\ n + (k - 2) - 1 = m - 2
    BY <1>1, <1>6
  <2>2. u[k - 2] = a[n + (k - 2) - 1]
    BY <2>1
  <2> HIDE DEF m
  <2> QED
    BY <2>1, <2>2
<1>7. u[k][1] = "write" => s \in q \/ (k > 2 /\ u[k - 2] = <<"unless", s>>)
  <2>1. m - 2 = n + k - 3 /\ (m > 2 <=> n + k > 3)
    BY <1>1
  <2>2. k > 2 \/ k <= 2
    BY <1>1
  <2> HIDE DEF m
  <2> QED
    BY Zenon, <1>2, <1>3, <1>6, <2>1, <2>2
<1>8. ASSUME u[k][1] = "write", NEW j \in 1 .. Len(u), u[j] = <<"write", s>> PROVE j = k
  <2>1. n + j - 1 \in 1 .. Len(a) /\ a[n + j - 1] = <<"write", s>>
    BY <1>8
  <2>2. n + j - 1 = m
    BY Zenon, <1>2, <1>3, <1>8, <2>1
  <2> QED
    BY <1>1, <2>2
<1>9. u[k][1] = "write" /\ k = 1 => v.reg = q
  <2>1. u # <<>>
    BY <1>1
  <2> QED
    BY <2>1
<1> HIDE DEF m, a, u
<1> QED
  BY <1>2, <1>3, <1>4, <1>5, <1>7, <1>8, <1>9

\* The innermost trap when p is pending.
Handled(t, p) == (t.at \in {"backup", "clear"} => t.i \in p) /\ CancelShape(t, p)
Writes(t) == t.ops # <<>> /\ Head(t.ops)[1] = "write"

\* More can become pending, except inside of cancelSignal.
LEMMA HandledGrows ==
  ASSUME NEW t \in Traps, NEW p, NEW q, Handled(t, p), ~Writes(t), p \subseteq q
  PROVE  Handled(t, q)
<1>1. t.ops \in Seq(Ops \X Sig)
  BY DEF Traps
<1>2. t.ops # <<>> => Head(t.ops) = t.ops[1]
  BY <1>1
<1>3. \A k \in 1 .. Len(t.ops) : t.ops # <<>>
  BY <1>1
<1>4. \A k \in 1 .. Len(t.ops) : k = 1 => t.ops[k][1] # "write"
  BY <1>2, <1>3 DEF Writes
<1> QED
  BY <1>4 DEF Handled, CancelShape

\* What the invariant says of the innermost trap.
LEMMA PendingNow ==
  ASSUME ActOK, PendingInv
  PROVE  /\ pending = sent
         /\ kreg # <<>> => kreg[2] = pending /\ (act # <<>> => ~Writes(act[1]))
         /\ act # <<>> => Handled(act[1], pending)
<1>1. act # <<>> => 1 \in 1 .. Len(act)
  BY Innermost
<1> QED
  BY <1>1 DEF PendingInv, PendingExact, Cancelling, Writes, Handled

\* And the other way round: a trap that an interrupt interrupts handles nothing.
LEMMA PendingNext ==
  ASSUME Serial, ActOK', pending' = sent',
         kreg' # <<>> => kreg'[2] = pending' /\ (act' # <<>> => ~Writes(act'[1])),
         act' # <<>> => Handled(act'[1], pending')
  PROVE  PendingInv'
<1>1. ASSUME NEW n \in 1 .. Len(act')
      PROVE  /\ kreg' # <<>> => ~Writes(act'[n])
             /\ Handled(act'[n], pending')
  <2>1. n = 1 \/ (n = 2 /\ Len(act') = 2)
    <3>1. Len(act') \in Nat /\ Len(act') <= 2
      BY DEF ActOK
    <3>2. \A l \in Nat : l <= 2 => \A k \in 1 .. l : k = 1 \/ (k = 2 /\ l = 2)
      OBVIOUS
    <3> QED
      BY Zenon, <3>1, <3>2
  <2>2. CASE n = 1
    <3>1. act' # <<>>
      OBVIOUS
    <3> QED
      BY <2>2, <3>1
  <2>3. CASE n = 2 /\ Len(act') = 2
    <3>1. act'[n].at \in Nested
      BY <2>3 DEF ActOK, NestInv
    <3>2. act'[n].at \notin {"backup", "clear", "ops"}
      BY <3>1 DEF Serial
    <3>3. act'[n].ops = <<>>
      BY <3>2 DEF ActOK, NestInv
    <3> QED
      BY <3>2, <3>3 DEF Handled, CancelShape, Writes
  <2> QED
    BY <2>1, <2>2, <2>3
<1> QED
  BY <1>1 DEF PendingInv, PendingExact, Cancelling, Writes, Handled

\* A trap that is not in check_kernel_sigs, or only looks for a signal.
LEMMA IdleHandled ==
  ASSUME NEW t, t.ops = <<>>, NEW p, t.at \notin {"backup", "clear"} \/ t.i \in p
  PROVE  Handled(t, p) /\ ~Writes(t)
  BY DEF Handled, Writes, CancelShape

\* The steps that leave pending alone and no operation to do.
LEMMA PendingIdle ==
  ASSUME Serial, ActOK, PendingInv, ActOK', UNCHANGED <<pending, kreg, sent>>,
         \/ act' = <<>> \/ act'[1].at \notin {"backup", "clear", "ops"}
         \/ act'[1].at # "ops" /\ act'[1].i \in pending
  PROVE  PendingInv'
<1>1. act' # <<>> => 1 \in 1 .. Len(act')
  BY DEF ActOK
<1>2. act' # <<>> => act'[1].ops = <<>>
  BY <1>1 DEF ActOK, NestInv
<1>3. act' # <<>> => Handled(act'[1], pending) /\ ~Writes(act'[1])
  BY <1>2, IdleHandled
<1> QED
  BY <1>3, PendingNow, PendingNext

\* A trap that returns.
LEMMA PendingReturned ==
  ASSUME Serial, ActOK, PendingInv, ActOK', UNCHANGED <<pending, kreg, sent>>,
         act # <<>>, Returned
  PROVE  PendingInv'
<1>1. Len(act) \in Nat /\ Len(act) # 0 /\ Len(act) <= 2
  BY DEF ActOK
<1>2. CASE Len(act) = 1
  <2>1. Len(act') = 0 /\ act' \in Seq(Traps)
    BY <1>2 DEF Returned, ActOK
  <2>2. act' = <<>>
    BY <2>1, EmptySeq
  <2> QED
    BY <2>2, PendingIdle
<1>3. CASE Len(act) = 2
  <2>1. 1 \in 1 .. Len(act) - 1 /\ 1 + 1 = 2
    BY <1>3
  <2>2. act'[1] = act[2] /\ act[2].at \in Nested
    BY <1>3, <2>1 DEF Returned, ActOK, NestInv
  <2> QED
    BY <2>2, PendingIdle DEF Serial
<1>4. \A n \in Nat : n # 0 /\ n <= 2 => n = 1 \/ n = 2
  OBVIOUS
<1> QED
  BY <1>1, <1>2, <1>3, <1>4

\* kill adds a signal to what it has read, which is what is pending.
LEMMA PendingKill ==
  ASSUME Serial, TypeOK, ActOK, PendingInv, ActOK', Kill
  PROVE  PendingInv'
<1>1. act' = act /\ (act # <<>> => act[1] \in Traps)
  BY Innermost DEF Kill, KillRead, KillWrite
<1>2. CASE KillWrite
  <2>1. kreg[2] = pending /\ (act # <<>> => ~Writes(act[1]) /\ Handled(act[1], pending))
    BY <1>2, PendingNow DEF KillWrite
  <2>2. kreg' = <<>> /\ pending' = pending \cup {kreg[1]} /\ sent' = sent \cup {kreg[1]}
    BY <1>2, <2>1 DEF KillWrite
  <2>3. act' # <<>> => Handled(act'[1], pending')
    BY <1>1, <2>1, <2>2, HandledGrows
  <2>4. pending' = sent'
    BY <2>2, PendingNow
  <2> QED
    BY <2>2, <2>3, <2>4, PendingNext
<1>3. ASSUME NEW x \in Sig, KillRead(x) PROVE PendingInv'
  <2>1. kreg' = <<x, pending>> /\ UNCHANGED <<pending, sent>> /\ ~Cancelling
    BY <1>3 DEF KillRead, Serial
  <2>2. act # <<>> => ~Writes(act[1])
    BY <2>1, Innermost DEF Cancelling, Writes
  <2>3. kreg'[2] = pending'
    BY <2>1
  <2>4. /\ pending' = sent'
        /\ act' # <<>> => ~Writes(act'[1]) /\ Handled(act'[1], pending')
    BY <1>1, <2>1, <2>2, PendingNow
  <2> QED
    BY <2>3, <2>4, PendingNext
<1> QED
  BY <1>2, <1>3 DEF Kill

\* System calls and interrupts; fork leaves the child no signal.
LEMMA PendingCalls ==
  ASSUME Serial, TypeOK, ActOK, PendingInv, ActOK',
         \/ Interrupt \/ NestedInterrupt \/ \E call \in Calls : Syscall(call)
         \/ SysSignal \/ SysSigprocmask \/ SysExec \/ SysFork \/ SysSigret
  PROVE  PendingInv'
<1>1. \A at, cli : /\ <<Trap(at, cli)>> # <<>> /\ <<Trap(at, cli)>>[1].at = at
                   /\ <<Trap(at, cli)>>[1].ops = <<>>
  BY DEF Trap
<1>2. CASE Interrupt \/ \E call \in Calls : Syscall(call)
  <2>1. UNCHANGED <<pending, kreg, sent>>
    BY Zenon, <1>2 DEF Interrupt, Syscall, UserTrap
  <2>2. PICK at \in Calls \cup {"check"}, cli \in BOOLEAN : act' = <<>> \/ act' = <<Trap(at, cli)>>
    BY Zenon, <1>2 DEF Interrupt, Syscall, UserTrap
  <2>3. act' = <<>> \/ act'[1].at = at
    BY <1>1, <2>2
  <2>4. at \notin {"backup", "clear", "ops"}
    BY DEF Calls
  <2> QED
    BY <2>1, <2>3, <2>4, PendingIdle
<1>3. CASE NestedInterrupt
  <2>1. act'[1].at = "check"
    BY <1>3, ActPushed DEF Trap
  <2> QED
    BY Zenon, <1>3, <2>1, PendingIdle DEF NestedInterrupt
<1>4. CASE SysSignal \/ SysSigprocmask \/ SysExec \/ SysSigret
  <2>1. UNCHANGED <<pending, kreg, sent>> /\ (act' = <<>> \/ act' = <<Trap("check", FALSE)>>)
    BY Zenon, <1>4 DEF SysSignal, SysSigprocmask, SysExec, SysSigret, Return
  <2>2. act' = <<>> \/ act'[1].at = "check"
    BY Zenon, <1>1, <2>1
  <2> QED
    BY <2>1, <2>2, PendingIdle
<1>5. CASE SysFork
  <2>1. kreg' = <<>> /\ pending' = sent' /\ act' = <<Trap("check", FALSE)>>
    BY <1>5 DEF SysFork
  <2>2. act'[1].at = "check" /\ act'[1].ops = <<>>
    BY Zenon, <1>1, <2>1
  <2>3. Handled(act'[1], pending')
    BY <2>2, IdleHandled
  <2> QED
    BY <2>1, <2>3, PendingNext
<1> QED
  BY <1>2, <1>3, <1>4, <1>5

\* After an operation of the innermost trap the others are left.
LEMMA TailCancels ==
  ASSUME NEW t \in Traps, NEW v \in Traps, OpsShape(t.ops), NEW op, NEW x,
         t.ops[1] = <<op, x>>, op \notin {"restore", "return", "unless"},
         v.ops = Tail(t.ops), v.at = "ops", NEW p, NEW q, Handled(t, p),
         op = "read" => v.reg = q,
         \A y \in p : y \in q \/ (op = "write" /\ y = x)
  PROVE  Handled(v, q) /\ (Writes(v) => op = "read")
<1> DEFINE a == t.ops
           u == v.ops
<1>1. a \in Seq(Ops \X Sig) /\ a # <<>> /\ a[1] = <<op, x>> /\ Head(a) = a[1] /\ CancelShape(t, p)
  BY DEF Traps, OpsShape, Handled
<1>2. /\ u \in Seq(Ops \X Sig) /\ OpsShape(u) /\ Len(u) = Len(a) - 1 /\ Len(a) \in Nat
      /\ \A k \in 1 .. Len(u) : k + 1 \in 1 .. Len(a) /\ u[k] = a[k + 1]
  BY <1>1, TailShape
<1>3. u # <<>> /\ Head(u) = u[1] /\ 1 \in 1 .. Len(u)
  BY <1>2 DEF OpsShape
<1>4. u[1] = a[2] /\ 1 \in 1 .. Len(a) /\ 2 \in 1 .. Len(a)
  BY <1>1, <1>2, <1>3
<1>5. u[1][1] = "write" => op = "read"
  <2>1. a[2][1] = "write" => a[2 - 1] = <<"read", a[2][2]>>
    BY <1>1, <1>4 DEF CancelShape
  <2> QED
    BY <1>1, <1>4, <2>1
<1>6. ASSUME NEW k \in 1 .. Len(u), u[k][1] = "write", op = "write" PROVE u[k][2] # x
  <2>1. k + 1 \in 1 .. Len(a) /\ k + 1 # 1 /\ a[k + 1][1] = "write" /\ a[k + 1][2] = u[k][2]
    BY <1>2, <1>6
  <2>2. a[k + 1][2] = x => a[1] = <<"write", a[k + 1][2]>>
    BY <1>1, <1>6
  <2>3. a[1] = <<"write", a[k + 1][2]>> => 1 = k + 1
    BY <1>1, <1>4, <2>1 DEF CancelShape
  <2> HIDE DEF a, u
  <2> QED
    BY <2>1, <2>2, <2>3
<1>7. CancelShape(v, q)
  <2> DEFINE n == 2
  <2>1. n \in Nat /\ n > 1 /\ Len(u) = Len(a) - n + 1
    BY <1>2
  <2>2. \A k \in 1 .. Len(u) : n + k - 1 \in 1 .. Len(a) /\ u[k] = a[n + k - 1]
    <3>1. \A k \in 1 .. Len(u) : 2 + k - 1 = k + 1
      BY <1>2
    <3> QED
      BY <1>2, <3>1
  <2>3. \A k \in 1 .. Len(u) : u[k][1] = "write" =>
          /\ u[k][2] \in p => u[k][2] \in q
          /\ k <= 2 /\ n + k > 3 /\ a[n + k - 3] = <<"unless", u[k][2]>> => u[k][2] \in q
    <3> SUFFICES ASSUME NEW k \in 1 .. Len(u), u[k][1] = "write"
                 PROVE  /\ u[k][2] \in p => u[k][2] \in q
                        /\ ~(k <= 2 /\ n + k > 3 /\ a[n + k - 3] = <<"unless", u[k][2]>>)
      OBVIOUS
    <3>1. u[k][2] \in p => u[k][2] \in q
      BY <1>6
    <3>2. k <= 2 /\ n + k > 3 => n + k - 3 = 1
      OBVIOUS
    <3>3. a[1] # <<"unless", u[k][2]>>
      BY <1>1
    <3> HIDE DEF n
    <3> QED
      BY <3>1, <3>2, <3>3
  <2>4. u # <<>> /\ u[1][1] = "write" => v.reg = q
    BY <1>5
  <2>5. CancelShape(t, p) /\ t.ops \in Seq(Ops \X Sig) /\ v.ops \in Seq(Ops \X Sig)
    BY <1>1, <1>2
  <2> HIDE DEF n
  <2> QED
    BY Zenon, <2>1, <2>2, <2>3, <2>4, <2>5, SuffixCancels
<1> QED
  BY <1>3, <1>5, <1>7 DEF Handled, Writes

\* check_kernel_sigs cancels the signal that it handles, when it is pending.
LEMMA PendingChecks ==
  ASSUME Serial, TypeOK, ActOK, PendingInv, ActOK',
         \/ CheckStart \/ CheckLoop \/ BackupMask \/ ClearMask \/ OpKill \/ OpStop \/ OpUnless
         \/ \E x \in Sig : OpRead(x) \/ OpWrite(x) \/ OpDeliver(x) \/ OpReturn(x) \/ OpRestore(x)
  PROVE  PendingInv'
<1>0. act' # <<>> => act'[1] \in Traps
  BY DEF ActOK
<1>1. CASE CheckStart \/ CheckLoop \/ BackupMask
  <2>1. UNCHANGED <<pending, kreg, sent>>
    BY <1>1 DEF CheckStart, CheckLoop, BackupMask
  <2>2. CASE Returned
    BY <1>1, <2>1, <2>2, CheckMoves, PendingReturned
  <2>3. CASE act'[1].at = "loop" \/ (act'[1].at = "backup" /\ act'[1].i \in pending \cap mask)
    BY <2>1, <2>3, PendingIdle
  <2>4. CASE /\ act'[1].at = "clear" /\ act[1].at = "backup" /\ act'[1].i = act[1].i
    <3>1. act # <<>> /\ Handled(act[1], pending)
      BY <1>1, CheckMoves, PendingNow
    <3>2. act'[1].i \in pending
      BY <2>4, <3>1 DEF Handled
    <3> QED
      BY <2>1, <2>4, <3>2, PendingIdle
  <2> QED
    BY <1>1, <2>2, <2>3, <2>4, CheckMoves
<1>2. CASE ClearMask
  <2> DEFINE i == act[1].i
  <2>1. /\ act # <<>> /\ act[1].at = "clear" /\ i \in Sig /\ act' # <<>> /\ act'[1].at = "ops"
        /\ act'[1].ops = DefaultHandling(i, handlers[i]) \o CustomHandling(i, handlers[i])
    BY <1>2, ClearMoves DEF GoesOn
  <2>2. i \in pending /\ UNCHANGED <<pending, kreg, sent>>
    BY <1>2, <2>1, PendingNow DEF Handled, ClearMask
  <2>3. handlers[i] \in Dispositions \cup {SIG_DFL} /\ SIGCONT \notin Dispositions
    BY <2>1 DEF TypeOK, Serial
  <2>4. CancelShape(act'[1], pending) /\ (act'[1].ops # <<>> => Head(act'[1].ops)[1] # "write")
    BY Zenon, <2>1, <2>2, <2>3, HandlingCancels
  <2>5. Handled(act'[1], pending) /\ ~Writes(act'[1])
    BY <2>1, <2>4 DEF Handled, Writes
  <2> QED
    BY <2>2, <2>5, PendingNow, PendingNext
<1>3. ASSUME NEW op, NEW x, Op(op, x), op \notin {"restore", "return", "unless"},
             GoesOn, act'[1].at = "ops", act'[1].ops = Tail(act[1].ops),
             op = "read" => act'[1].reg = pending' /\ kreg = <<>>,
             \A y \in pending : y \in pending' \/ (op = "write" /\ y = x),
             pending' = sent', kreg' = kreg, pending' = pending \/ kreg = <<>>
      PROVE  PendingInv'
  <2>1. /\ act # <<>> /\ act[1] \in Traps /\ act[1].ops[1] = <<op, x>> /\ OpsShape(act[1].ops)
    BY <1>3, NextOp
  <2>2. act' # <<>> /\ Handled(act[1], pending)
    BY <1>3, <2>1, PendingNow DEF GoesOn
  <2>3. Handled(act'[1], pending') /\ (Writes(act'[1]) => op = "read")
    <3> DEFINE t == act[1]
               v == act'[1]
               p == pending
               q == pending'
    <3>1. /\ t \in Traps /\ v \in Traps /\ OpsShape(t.ops) /\ t.ops[1] = <<op, x>>
          /\ v.ops = Tail(t.ops) /\ v.at = "ops" /\ Handled(t, p)
      BY <1>0, <1>3, <2>1, <2>2
    <3>2. (op = "read" => v.reg = q) /\ \A y \in p : y \in q \/ (op = "write" /\ y = x)
      BY <1>3
    <3> HIDE DEF t, v, p, q
    <3>3. Handled(v, q) /\ (Writes(v) => op = "read")
      BY <1>3, <3>1, <3>2, TailCancels
    <3> QED
      BY <3>3 DEF v, q
  <2> QED
    BY <1>3, <2>3, PendingNow, PendingNext
<1>4. CASE OpKill \/ OpStop \/ \E x \in Sig : OpDeliver(x)
  <2>1. PICK op \in {"kill", "stop", "deliver"}, x \in Sig : Op(op, x) /\ Become(Rest)
    BY <1>4 DEF OpKill, OpStop, OpDeliver, Sig, SIGKILL, SIGSTOP
  <2>2. UNCHANGED <<pending, kreg, sent, handlers>>
    BY <1>4 DEF OpKill, OpStop, OpDeliver
  <2>3. GoesOn /\ act'[1].at = "ops" /\ act'[1].ops = Tail(act[1].ops)
    BY <2>1, <2>2, OtherOpMoves DEF Ops
  <2> QED
    BY <1>3, <2>1, <2>2, <2>3, PendingNow
<1>5. ASSUME NEW x \in Sig, OpRead(x) PROVE PendingInv'
  <2>1. /\ Op("read", x) /\ Become([Rest EXCEPT !.reg = pending]) /\ kreg = <<>>
        /\ UNCHANGED <<pending, kreg, sent, handlers>>
    BY <1>5 DEF OpRead, Serial
  <2>2. GoesOn /\ act'[1].at = "ops" /\ act'[1].ops = Tail(act[1].ops) /\ act'[1].reg = pending
    BY Zenon, <2>1, OpMoves DEF Ops, TypeOK
  <2> QED
    BY <1>3, <2>1, <2>2, PendingNow
<1>6. ASSUME NEW x \in Sig, OpWrite(x) PROVE PendingInv'
  <2>1. /\ Op("write", x) /\ Become([Rest EXCEPT !.reg = {}]) /\ UNCHANGED <<kreg, handlers>>
        /\ sent' = sent \ {x}
    BY <1>6 DEF OpWrite
  <2>2. /\ act # <<>> /\ Head(act) = act[1] /\ act[1].ops # <<>>
        /\ act[1].ops[1] = <<"write", x>> /\ Head(act[1].ops) = <<"write", x>>
        /\ act[1].ops \in Seq(Ops \X Sig)
    BY <2>1, NextOp
  <2>3. act[1].reg = pending /\ x \in pending
    <3>1. 1 \in 1 .. Len(act[1].ops) /\ CancelShape(act[1], pending)
      BY <2>2, FirstOp, PendingNow DEF Handled
    <3>2. act[1].ops[1][1] = "write" /\ act[1].ops[1][2] = x /\ ~(1 > 2)
      BY <2>2
    <3> QED
      BY <3>1, <3>2 DEF CancelShape
  <2>4. pending' = pending \ {x}
    BY <1>6, <2>2, <2>3 DEF OpWrite
  <2>5. kreg = <<>>
    BY <2>2, PendingNow DEF Writes
  <2>6. GoesOn /\ act'[1].at = "ops" /\ act'[1].ops = Tail(act[1].ops)
    BY <2>1, OpMoves DEF Ops
  <2>7. pending' = sent'
    BY <2>1, <2>4, PendingNow
  <2> QED
    BY <1>3, <2>1, <2>4, <2>5, <2>6, <2>7
<1>7. CASE OpUnless
  <2> DEFINE a == act[1].ops
             u == act'[1].ops
             n == IF SIGSTOP \in pending THEN 2 ELSE 4
  <2>1. /\ GoesOn /\ act'[1].at = "ops" /\ n \in 1 .. Len(a) /\ u = SubSeq(a, n, Len(a))
        /\ a[1] = <<"unless", SIGSTOP>> /\ a[2] = <<"read", SIGSTOP>>
        /\ a[3] = <<"write", SIGSTOP>> /\ Len(a) > 3
    BY Zenon, <1>7, UnlessMoves
  <2>2. act # <<>> /\ act[1].at = "ops" /\ a \in Seq(Ops \X Sig) /\ OpsShape(a) /\ act' # <<>>
    BY <1>7, <2>1, NextOp DEF OpUnless, GoesOn
  <2>3. (n = 2 /\ SIGSTOP \in pending) \/ n = 4
    OBVIOUS
  <2>4. UNCHANGED <<pending, kreg, sent>> /\ CancelShape(act[1], pending)
    BY <1>7, <2>2, PendingNow DEF OpUnless, Handled
  <2> HIDE DEF n
  <2>5. /\ u \in Seq(Ops \X Sig) /\ OpsShape(u) /\ Len(u) = Len(a) - n + 1
        /\ \A k \in 1 .. Len(u) : n + k - 1 \in 1 .. Len(a) /\ u[k] = a[n + k - 1]
    BY <2>1, <2>2, SuffixShape
  <2>6. u # <<>> /\ Head(u) = u[1] /\ 1 \in 1 .. Len(u) /\ Len(a) \in Nat
    BY <2>2, <2>5 DEF OpsShape
  <2>7. u[1] = a[n]
    <3>1. n + 1 - 1 = n
      BY <2>3
    <3> QED
      BY <2>5, <2>6, <3>1
  <2>8. a[n][1] # "write"
    <3>1. CASE n = 2
      BY <2>1, <3>1
    <3>2. CASE n = 4
      <4>2. 4 \in 1 .. Len(a)
        BY <2>1, <3>2
      <4>1. a[4][1] = "write" => a[4 - 1] = <<"read", a[4][2]>>
        BY <2>4, <4>2 DEF CancelShape
      <4> QED
        BY <2>1, <3>2, <4>1
    <3> QED
      BY <2>3, <3>1, <3>2
  <2>9. ASSUME NEW k \in 1 .. Len(u), u[k][1] = "write", k <= 2, n + k > 3,
               a[n + k - 3] = <<"unless", u[k][2]>>
        PROVE  u[k][2] \in pending
    <3>1. CASE n = 2
      <4>1. k = 2 /\ n + k - 3 = 1
        BY <2>9, <3>1
      <4> QED
        BY <2>1, <2>3, <2>9, <3>1, <4>1
    <3>2. CASE n = 4
      <4>1. n + k - 3 = 2 \/ n + k - 3 = 3
        BY <2>9, <3>2
      <4> QED
        BY <2>1, <2>9, <4>1
    <3> QED
      BY <2>3, <3>1, <3>2
  <2>10. CancelShape(act'[1], pending)
    <3>1. n \in Nat /\ n > 1
      BY <2>3
    <3> QED
      BY Zenon, <2>2, <2>4, <2>5, <2>7, <2>8, <2>9, <3>1, SuffixCancels
  <2>11. Handled(act'[1], pending) /\ ~Writes(act'[1])
    BY <2>1, <2>6, <2>7, <2>8, <2>10 DEF Handled, Writes
  <2> QED
    BY <2>4, <2>11, PendingNow, PendingNext
<1>8. ASSUME NEW x \in Sig, OpReturn(x) PROVE PendingInv'
  BY <1>8, ReturnMoves, PendingReturned DEF OpReturn
<1>9. ASSUME NEW x \in Sig, OpRestore(x) PROVE PendingInv'
  BY <1>9, RestoreMoves, PendingIdle DEF OpRestore
<1> QED
  BY <1>1, <1>2, <1>4, <1>5, <1>6, <1>7, <1>8, <1>9

\* Every step keeps pending exact.
LEMMA PendingInductive ==
  ASSUME Serial, TypeOK, NestInv, PendingInv, [Next]_vars
  PROVE  PendingInv'
<1>1. ActOK /\ ActOK'
  BY TrapsInductive DEF ActOK, TypeOK, NestInv
<1>2. CASE UNCHANGED vars
  BY <1>2 DEF vars, PendingInv, PendingExact, Cancelling
<1>3. CASE Kill
  BY <1>1, <1>3, PendingKill
<1>4. CASE KernelStep
  BY <1>1, <1>4, PendingCalls, PendingChecks DEF KernelStep
<1>5. CASE Interrupt \/ NestedInterrupt \/ \E call \in Calls : Syscall(call)
  BY <1>1, <1>5, PendingCalls
<1> QED
  BY <1>2, <1>3, <1>4, <1>5 DEF Next

\* When kill and cancelSignal do not overlap, pending holds exactly the signals
\* sent and not cancelled since: the xor of cancelSignal never sets a bit.
THEOREM PendingIsExact == Serial => (Spec => []PendingExact)
<1> SUFFICES ASSUME Serial PROVE Spec => []PendingExact
  OBVIOUS
<1>1. Init => TypeOK /\ NestInv /\ PendingInv
  BY SignalsStart
<1>2. TypeOK /\ NestInv /\ PendingInv /\ [Next]_vars => TypeOK' /\ NestInv' /\ PendingInv'
  BY TrapsInductive, PendingInductive
<1>3. PendingInv => PendingExact
  BY DEF PendingInv
<1> QED
  BY <1>1, <1>2, <1>3, PTL DEF Spec
=============================================================================
