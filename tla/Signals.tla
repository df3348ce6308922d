------------------------------ MODULE Signals -------------------------------
(***************************************************************************)
(* The signals of one process: kill from other CPUs, signal, sigprocmask,  *)
(* exec, fork and sigret by the process itself, and check_kernel_sigs,     *)
(* which runs on every return from a trap.                                 *)
(*                                                                         *)
(* A mask holds the signals that are handled; a signal outside of it is    *)
(* blocked.  After a system call check_kernel_sigs runs with interrupts    *)
(* on, so an interrupt can run a second check_kernel_sigs inside of the    *)
(* first (Nested).  kill and cancelSignal both read, change and write      *)
(* pending, and no lock excludes one from the other (Concurrent).          *)
(***************************************************************************)
EXTENDS Integers, Sequences

SIG_DFL == -1
SIG_IGN == 1
SIGKILL == 9
SIGSTOP == 17
SIGCONT == 19

CONSTANTS
  UserSigs,      \* the other signal numbers in use
  Handlers,      \* addresses of handler functions of the program
  Dispositions,  \* what the program passes to signal
  Settable,      \* the signals it passes to signal
  Masks,         \* what it passes to sigprocmask
  MainCalls,     \* the system calls it makes outside of its handlers
  HandlerCalls,  \* the system calls that its handlers make before they return
  Nested,        \* where in a system call interrupts arrive: anywhere, in the code
  Concurrent     \* kill runs while the process is inside cancelSignal

Sig == {SIGKILL, SIGSTOP, SIGCONT} \cup UserSigs
End == 32        \* the bound of the loop over the signals
Main == -2       \* the program counter of code that is not a handler
Calls == {"signal", "sigprocmask", "exec", "fork", "sigret"}
\* Where a trap can be: in a system call, or in check_kernel_sigs.
Places == Calls \cup {"check", "loop", "backup", "clear", "ops"}

ASSUME UserSigsAssumption == UserSigs \subseteq (0 .. 31) \ {SIGKILL, SIGSTOP, SIGCONT}
ASSUME HandlersAssumption ==
  Handlers \subseteq Nat \ {SIG_IGN, SIGKILL, SIGSTOP, SIGCONT}
ASSUME ProgramAssumption ==
  /\ Dispositions \subseteq {SIG_DFL, SIG_IGN, SIGKILL, SIGSTOP, SIGCONT} \cup Handlers
  /\ Settable \subseteq Sig
  /\ Masks \subseteq SUBSET Sig
  /\ MainCalls \subseteq Calls \ {"sigret"} /\ HandlerCalls \subseteq Calls
  /\ Nested \subseteq Places /\ Concurrent \in BOOLEAN

VARIABLES
  pending, mask, mask_backup, handlers, killed,  \* fields of struct proc
  tf,           \* where the user code resumes: Main or a handler
  trap_backup,  \* what sigret resumes
  act,          \* the traps in progress, innermost first; empty in user mode
  kreg,         \* kill between its read and its write of pending, or empty
  exited,
  umask,        \* the mask the program has set outside of handlers
  sent          \* the signals sent and not cancelled since

vars == <<pending, mask, mask_backup, handlers, killed, tf, trap_backup, act,
          kreg, exited, umask, sent>>

\* A trap: where it is, the loop variable, the rest of the handling of signal
\* i, the value of pending that cancelSignal has read, whether interrupts are off.
Trap(at, cli) == [at |-> at, i |-> End, ops |-> <<>>, reg |-> {}, cli |-> cli]

\* What an operation of check_kernel_sigs does, and with which signal.
Ops == {"kill", "stop", "unless", "read", "write", "deliver", "return", "restore"}
Traps == [at : Places, i : Sig \cup {End}, ops : Seq(Ops \X Sig), reg : SUBSET Sig,
          cli : BOOLEAN]

\* The type invariant: the fields of struct proc hold signal sets and
\* dispositions, and at most one interrupt nests in a system call.
TypeOK ==
  /\ pending \subseteq Sig /\ mask \subseteq Sig /\ mask_backup \subseteq Sig
  /\ handlers \in [Sig -> Dispositions \cup {SIG_DFL}]
  /\ killed \in BOOLEAN /\ exited \in BOOLEAN
  /\ tf \in {Main} \cup Handlers /\ trap_backup \in {Main} \cup Handlers
  /\ act \in Seq(Traps) /\ Len(act) <= 2
  /\ kreg = <<>> \/ kreg \in Sig \X SUBSET Sig
  /\ umask \subseteq Sig /\ sent \subseteq Sig

Init ==
  /\ pending = {} /\ mask = Sig /\ mask_backup = {}
  /\ handlers = [s \in Sig |-> SIG_DFL]
  /\ killed = FALSE /\ exited = FALSE
  /\ tf = Main /\ trap_backup = Main
  /\ act = <<>> /\ kreg = <<>>
  /\ umask = Sig /\ sent = {}

-----------------------------------------------------------------------------
(***************************************************************************)
(* kill, on another CPU, under ptable.lock: only one at a time.            *)
(***************************************************************************)

\* cancelSignal is between its read and its write.
Cancelling == \E n \in 1 .. Len(act) :
                act[n].ops # <<>> /\ Head(act[n].ops)[1] = "write"

KillRead(s) ==
  /\ kreg = <<>>
  /\ Concurrent \/ ~Cancelling
  /\ kreg' = <<s, pending>>
  /\ UNCHANGED <<pending, mask, mask_backup, handlers, killed, tf, trap_backup,
                 act, exited, umask, sent>>

\* Mutant: the new signal replaces the ones that are pending.
KillReplaces ==
  /\ kreg # <<>>
  /\ pending' = {kreg[1]}
  /\ sent' = sent \cup {kreg[1]}
  /\ kreg' = <<>>
  /\ UNCHANGED <<mask, mask_backup, handlers, killed, tf, trap_backup, act,
                 exited, umask>>

KillWrite ==
  /\ kreg # <<>>
  /\ pending' = kreg[2] \cup {kreg[1]}
  /\ sent' = sent \cup {kreg[1]}
  /\ kreg' = <<>>
  /\ UNCHANGED <<mask, mask_backup, handlers, killed, tf, trap_backup, act,
                 exited, umask>>

-----------------------------------------------------------------------------
(***************************************************************************)
(* Traps and system calls.                                                 *)
(***************************************************************************)

\* A system call or an interrupt of a killed process in user mode ends it.
UserTrap(at, cli) ==
  /\ act = <<>> /\ ~exited
  /\ exited' = killed
  /\ act' = IF killed THEN <<>> ELSE <<Trap(at, cli)>>
  /\ UNCHANGED <<pending, mask, mask_backup, handlers, killed, tf, trap_backup,
                 kreg, umask, sent>>

\* sigret is called by the code that a handler returns to.
Syscall(call) ==
  /\ call \in IF tf = Main THEN MainCalls ELSE HandlerCalls \cup {"sigret"}
  /\ UserTrap(call, FALSE)

Interrupt == UserTrap("check", TRUE)

\* An interrupt during a system call; a trap that came with interrupts on.
NestedInterrupt ==
  /\ act # <<>> /\ ~Head(act).cli /\ Head(act).at \in Nested
  /\ act' = <<Trap("check", TRUE)>> \o act
  /\ UNCHANGED <<pending, mask, mask_backup, handlers, killed, tf, trap_backup,
                 kreg, exited, umask, sent>>

\* A system call returns, to exit if the process is killed.
Return ==
  /\ exited' = killed
  /\ act' = IF killed THEN <<>> ELSE <<Trap("check", FALSE)>>

SysSignal ==
  /\ act # <<>> /\ Head(act).at = "signal"
  /\ \E s \in Settable, h \in Dispositions : handlers' = [handlers EXCEPT ![s] = h]
  /\ Return
  /\ UNCHANGED <<pending, mask, mask_backup, killed, tf, trap_backup, kreg, umask,
                 sent>>

SysSigprocmask ==
  /\ act # <<>> /\ Head(act).at = "sigprocmask"
  /\ \E m \in Masks : /\ mask' = m
                      /\ umask' = IF tf = Main THEN m ELSE umask
  /\ Return
  /\ UNCHANGED <<pending, mask_backup, handlers, killed, tf, trap_backup, kreg,
                 sent>>

\* exec resets the handlers first, and starts the new program if it succeeds.
SysExec ==
  /\ act # <<>> /\ Head(act).at = "exec"
  /\ handlers' = [s \in Sig |-> IF handlers[s] = SIG_IGN THEN SIG_IGN ELSE SIG_DFL]
  /\ tf' \in {tf, Main}
  /\ Return
  /\ UNCHANGED <<pending, mask, mask_backup, killed, trap_backup, kreg, umask,
                 sent>>

\* fork, seen from the child: the slot's mask_backup is left from its last
\* user, the frame at trap_backup is copied with the memory, killed is clear.
SysFork ==
  /\ act # <<>> /\ Head(act).at = "fork"
  /\ kreg = <<>>
  /\ pending' = {} /\ sent' = {}
  /\ killed' = FALSE
  /\ mask_backup' \in {{}} \cup Masks
  /\ act' = <<Trap("check", FALSE)>>
  /\ UNCHANGED <<mask, handlers, tf, trap_backup, kreg, exited, umask>>

\* Mutant: sigret forgets the mask.
SysSigretKeepsMask ==
  /\ act # <<>> /\ Head(act).at = "sigret"
  /\ tf' = trap_backup
  /\ Return
  /\ UNCHANGED <<pending, mask, mask_backup, handlers, killed, trap_backup, kreg,
                 umask, sent>>

SysSigret ==
  /\ act # <<>> /\ Head(act).at = "sigret"
  /\ tf' = trap_backup
  /\ mask' = mask_backup
  /\ Return
  /\ UNCHANGED <<pending, mask_backup, handlers, killed, trap_backup, kreg, umask,
                 sent>>

-----------------------------------------------------------------------------
(***************************************************************************)
(* check_kernel_sigs.  The handling of signal i is a sequence of           *)
(* operations on the process, each of them one access to shared state.     *)
(***************************************************************************)

cancelSignal(s) == << <<"read", s>>, <<"write", s>> >>
handle_SIGKILL == << <<"kill", SIGKILL>> >>
handle_SIGSTOP == << <<"stop", SIGSTOP>> >>
handle_SIGCONT ==
  << <<"unless", SIGSTOP>> >> \o cancelSignal(SIGSTOP) \o cancelSignal(SIGCONT)

\* The switch on the signal number.
DefaultHandling(i, h) ==
  CASE i = SIGKILL /\ h \in {SIG_DFL, SIGKILL} -> handle_SIGKILL
    [] i = SIGCONT /\ h \in {SIG_DFL, SIGCONT} -> handle_SIGCONT
    [] i = SIGSTOP /\ h \in {SIG_DFL, SIGSTOP} -> handle_SIGSTOP
    [] i \in UserSigs /\ h = SIG_DFL -> handle_SIGKILL
    [] OTHER -> <<>>

\* The tests of the handler after it, and the end of the loop body.
CustomHandling(i, h) ==
  CASE h = SIG_DFL -> << <<"restore", i>> >>
    [] h = SIG_IGN -> cancelSignal(i) \o << <<"restore", i>> >>
    [] h = SIGKILL -> handle_SIGKILL \o << <<"restore", i>> >>
    [] h = SIGCONT -> handle_SIGCONT \o << <<"restore", i>> >>
    [] h = SIGSTOP -> handle_SIGSTOP \o << <<"restore", i>> >>
    [] OTHER -> << <<"deliver", i>> >> \o cancelSignal(i) \o << <<"return", i>> >>

\* The next signal of the loop.
After(i) == CHOOSE j \in {k \in Sig \cup {End} : k > i} :
              \A k \in Sig \cup {End} : k > i => j <= k

\* The innermost trap is at l; it goes on as t.
At(l) == act # <<>> /\ Head(act).at = l
Become(t) == act' = <<t>> \o Tail(act)
Leave == act' = Tail(act)

CheckStart ==
  /\ At("check")
  /\ IF mask = {} \/ pending = {} THEN Leave
     ELSE Become([Head(act) EXCEPT !.at = "loop", !.i = After(-1)])
  /\ UNCHANGED <<pending, mask, mask_backup, handlers, killed, tf, trap_backup,
                 kreg, exited, umask, sent>>

CheckLoop ==
  /\ At("loop")
  /\ LET t == Head(act) IN
       \/ t.i = End /\ Leave
       \/ /\ t.i \in pending \cap mask
          /\ Become([t EXCEPT !.at = "backup"])
       \/ /\ t.i # End /\ t.i \notin pending \cap mask
          /\ Become([t EXCEPT !.i = After(@)])
  /\ UNCHANGED <<pending, mask, mask_backup, handlers, killed, tf, trap_backup,
                 kreg, exited, umask, sent>>

BackupMask ==
  /\ At("backup")
  /\ mask_backup' = mask
  /\ Become([Head(act) EXCEPT !.at = "clear"])
  /\ UNCHANGED <<pending, mask, handlers, killed, tf, trap_backup, kreg, exited,
                 umask, sent>>

\* Mutant: the mask stays while the signal is handled.
ClearMaskNot ==
  /\ At("clear")
  /\ LET t == Head(act) IN
       Become([t EXCEPT !.at = "ops",
                        !.ops = DefaultHandling(t.i, handlers[t.i])
                                \o CustomHandling(t.i, handlers[t.i])])
  /\ UNCHANGED <<pending, mask, mask_backup, handlers, killed, tf, trap_backup,
                 kreg, exited, umask, sent>>

ClearMask ==
  /\ At("clear")
  /\ mask' = {}
  /\ LET t == Head(act) IN
       Become([t EXCEPT !.at = "ops",
                        !.ops = DefaultHandling(t.i, handlers[t.i])
                                \o CustomHandling(t.i, handlers[t.i])])
  /\ UNCHANGED <<pending, mask_backup, handlers, killed, tf, trap_backup, kreg,
                 exited, umask, sent>>

\* The next operation is op on signal s.
Op(op, s) == At("ops") /\ Head(Head(act).ops) = <<op, s>>
\* The trap after it.
Rest == [Head(act) EXCEPT !.ops = Tail(@)]

OpKill ==
  /\ Op("kill", SIGKILL)
  /\ killed' = TRUE
  /\ Become(Rest)
  /\ UNCHANGED <<pending, mask, mask_backup, handlers, tf, trap_backup, kreg,
                 exited, umask, sent>>

\* Mutant: only SIGKILL ends the loop.
OpStopForGood ==
  /\ Op("stop", SIGSTOP)
  /\ SIGKILL \in pending
  /\ Become(Rest)
  /\ UNCHANGED <<pending, mask, mask_backup, handlers, killed, tf, trap_backup,
                 kreg, exited, umask, sent>>

\* The loop of handle_SIGSTOP yields until one of two signals is pending,
\* blocked or not.
OpStop ==
  /\ Op("stop", SIGSTOP)
  /\ pending \cap {SIGCONT, SIGKILL} # {}
  /\ Become(Rest)
  /\ UNCHANGED <<pending, mask, mask_backup, handlers, killed, tf, trap_backup,
                 kreg, exited, umask, sent>>

\* handle_SIGCONT cancels SIGSTOP only if it is pending.
OpUnless ==
  /\ Op("unless", SIGSTOP)
  /\ LET ops == Head(act).ops
         n == IF SIGSTOP \in pending THEN 2 ELSE 4
     IN Become([Head(act) EXCEPT !.ops = SubSeq(ops, n, Len(ops))])
  /\ UNCHANGED <<pending, mask, mask_backup, handlers, killed, tf, trap_backup,
                 kreg, exited, umask, sent>>

OpRead(s) ==
  /\ Op("read", s)
  /\ Concurrent \/ kreg = <<>>
  /\ Become([Rest EXCEPT !.reg = pending])
  /\ UNCHANGED <<pending, mask, mask_backup, handlers, killed, tf, trap_backup,
                 kreg, exited, umask, sent>>

\* p->pending ^ (1 << signum)
OpWrite(s) ==
  /\ Op("write", s)
  /\ LET r == Head(act).reg IN pending' = (r \ {s}) \cup ({s} \ r)
  /\ sent' = sent \ {s}
  /\ Become([Rest EXCEPT !.reg = {}])
  /\ UNCHANGED <<mask, mask_backup, handlers, killed, tf, trap_backup, kreg,
                 exited, umask>>

OpDeliver(s) ==
  /\ Op("deliver", s)
  /\ trap_backup' = tf
  /\ tf' = handlers[s]
  /\ Become(Rest)
  /\ UNCHANGED <<pending, mask, mask_backup, handlers, killed, kreg, exited, umask,
                 sent>>

OpReturn(s) ==
  /\ Op("return", s)
  /\ Leave
  /\ UNCHANGED <<pending, mask, mask_backup, handlers, killed, tf, trap_backup,
                 kreg, exited, umask, sent>>

OpRestore(s) ==
  /\ Op("restore", s)
  /\ mask' = mask_backup
  /\ Become([Rest EXCEPT !.at = "loop", !.i = After(@)])
  /\ UNCHANGED <<pending, mask_backup, handlers, killed, tf, trap_backup, kreg,
                 exited, umask, sent>>

-----------------------------------------------------------------------------
Kill == KillWrite \/ \E s \in Sig : KillRead(s)

\* What the process does until it is back in user mode.
KernelStep ==
  \/ SysSignal \/ SysSigprocmask \/ SysExec \/ SysFork \/ SysSigret
  \/ CheckStart \/ CheckLoop \/ BackupMask \/ ClearMask
  \/ OpKill \/ OpStop \/ OpUnless
  \/ \E s \in Sig : OpRead(s) \/ OpWrite(s) \/ OpDeliver(s) \/ OpReturn(s)
                    \/ OpRestore(s)

Next ==
  Kill \/ KernelStep \/ Interrupt \/ NestedInterrupt
  \/ \E call \in Calls : Syscall(call)

Spec == Init /\ [][Next]_vars

\* The CPUs go on, the timer ticks, the code that an interrupt interrupts makes
\* progress between two of them, and the handlers of the program return.
Fairness ==
  /\ WF_vars(KillWrite) /\ WF_vars(Interrupt)
  /\ \A n \in 1 .. 2 : SF_vars(Len(act) = n /\ KernelStep)
  /\ SF_vars(tf # Main /\ Syscall("sigret"))

FairSpec == Spec /\ Fairness

-----------------------------------------------------------------------------
(***************************************************************************)
(* What must hold.                                                         *)
(***************************************************************************)
InUserMode == act = <<>> /\ ~exited

\* pending holds exactly the signals that kill has sent and that have not been
\* cancelled since: cancelSignal neither loses one nor brings one back.
PendingExact == pending = sent

\* Whenever the program executes outside of its handlers its mask is the one
\* it has set: check_kernel_sigs and sigret restore it.
MaskRestored == InUserMode /\ tf = Main => mask = umask

\* A handler is not interrupted by another one, and it returns to the code
\* that the signal interrupted: there is only one trap_backup.
HandlerExclusive == InUserMode /\ tf # Main => mask = {} /\ trap_backup = Main

\* A process that SIGKILL has been sent to, whatever it is doing, exits, when
\* it neither blocks nor ignores it and its handlers return.
KillDelivered == SIGKILL \in sent ~> (exited \/ SIGKILL \notin sent)

\* A stopped process is back in user mode or gone once SIGCONT has been sent,
\* unless another SIGSTOP has come after it: handling SIGCONT also takes back
\* the SIGSTOP that it answers.
ContResumes ==
  (\E s \in Sig : Op("stop", s)) /\ SIGCONT \in pending
    ~> (act = <<>> \/ (SIGSTOP \in sent /\ SIGCONT \notin sent))

-----------------------------------------------------------------------------
(***************************************************************************)
(* Why it holds: an inductive invariant of the three safety properties.    *)
(***************************************************************************)

\* The rest of the handling of a signal ends, and only ends, in restoring the
\* mask or, after a delivery, in returning to user mode; a test of SIGSTOP is
\* followed by the cancelSignal that it guards.
OpsShape(s) ==
  /\ s # <<>>
  /\ \A k \in 1 .. Len(s) :
       /\ s[k][1] \in {"restore", "return"} <=> k = Len(s)
       /\ s[k][1] = "unless" => /\ k + 2 < Len(s)
                                /\ s[k + 1] = <<"read", SIGSTOP>>
                                /\ s[k + 2] = <<"write", SIGSTOP>>
       /\ s[k][1] = "deliver" => /\ s[Len(s)][1] = "return"
                                 /\ \A j \in 1 .. Len(s) : s[j][1] = "deliver" => j = k

\* A signal is delivered to a handler: hs are the dispositions.
ToHandlers(s, hs) == \A k \in 1 .. Len(s) : s[k][1] = "deliver" => hs[s[k][2]] \in Handlers

\* Only an interrupt nests, in a trap that is at one of the places Nested, and
\* a trap has operations left only while it handles a signal.
NestInv ==
  /\ Len(act) = 2 => act[1].cli /\ act[1].at \notin Calls /\ act[2].at \in Nested
  /\ \A n \in 1 .. Len(act) :
       /\ act[n].at \notin Calls \cup {"check", "loop"} => act[n].i \in Sig
       /\ IF act[n].at = "ops"
          THEN OpsShape(act[n].ops) /\ ToHandlers(act[n].ops, handlers)
          ELSE act[n].ops = <<>>

\* The program and the interrupts do not interfere with the mask: its handlers
\* leave it, and the program, alone, and no interrupt arrives between the test
\* of a signal and the end of its handling, nor in a system call.
Disciplined ==
  Nested \subseteq {"check", "loop"} /\ HandlerCalls \subseteq {"signal", "sigret"}

\* The mask while no signal is being handled: the program's own, or none of
\* the signals and the program's own mask in mask_backup.
MaskAtRest ==
  IF tf = Main THEN mask = umask
  ELSE mask = {} /\ mask_backup = umask /\ trap_backup = Main

\* The rest of the handling delivers the signal, and returns to user mode.
Delivers(s) == \E k \in 1 .. Len(s) : s[k][1] = "deliver"
Returns(s) == s[Len(s)][1] = "return"

\* The mask from the test of a signal to the end of its handling: backed up,
\* cleared, and put back exactly if no handler has been delivered.
MaskInHandling(t) ==
  CASE t.at = "backup" -> tf = Main /\ mask = umask
    [] t.at = "clear" -> tf = Main /\ mask = umask /\ mask_backup = umask
    [] t.at = "ops" ->
         /\ mask = {} /\ mask_backup = umask
         /\ IF tf = Main THEN Returns(t.ops) => Delivers(t.ops)
            ELSE Returns(t.ops) /\ ~Delivers(t.ops) /\ trap_backup = Main
    [] OTHER -> MaskAtRest /\ (t.at \in Calls => IF tf = Main THEN t.at # "sigret"
                                                ELSE t.at \in {"signal", "sigret"})

MaskInv == IF act = <<>> THEN MaskAtRest ELSE MaskInHandling(act[1])

\* Nothing comes between the test of a signal and cancelSignal, or between the
\* read and the write of cancelSignal and of kill; and the program does not make
\* SIGCONT a disposition, so that SIGCONT is only cancelled when it is pending.
Serial ==
  /\ ~Concurrent /\ Nested \cap {"backup", "clear", "ops"} = {}
  /\ SIGCONT \notin Dispositions

\* cancelSignal(s) runs when s is pending, once for each signal, and what it
\* has read of pending is still there when it writes: p are the pending signals.
CancelShape(t, p) ==
  \A k \in 1 .. Len(t.ops) :
    LET s == t.ops[k][2] IN
    /\ t.ops[k][1] = "read" => k < Len(t.ops) /\ t.ops[k + 1] = <<"write", s>>
    /\ t.ops[k][1] = "write" =>
         /\ IF k = 1 THEN t.reg = p ELSE t.ops[k - 1] = <<"read", s>>
         /\ s \in p \/ (k > 2 /\ t.ops[k - 2] = <<"unless", s>>)
         /\ \A j \in 1 .. Len(t.ops) : t.ops[j] = <<"write", s>> => j = k

\* kill has read what is still pending, unless cancelSignal is about to write.
PendingInv ==
  /\ PendingExact
  /\ kreg # <<>> => kreg[2] = pending /\ ~Cancelling
  /\ \A n \in 1 .. Len(act) :
       /\ act[n].at \in {"backup", "clear"} => act[n].i \in pending
       /\ CancelShape(act[n], pending)
=============================================================================
