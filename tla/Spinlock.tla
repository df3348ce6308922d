------------------------------ MODULE Spinlock ------------------------------
(***************************************************************************)
(* Spin locks against interrupts (spinlock.c): every processor runs kernel *)
(* code that takes locks, in the order of their numbers, and may be        *)
(* interrupted between any two instructions of acquire and release by a    *)
(* handler that takes locks too.                                           *)
(***************************************************************************)
EXTENDS Integers, Sequences, FiniteSets

CONSTANTS Cpu, Lock   \* sets of positive numbers

VARIABLES
  IF_,     \* the interrupt flag of a processor
  ncli, intena,
  owner,   \* the processor that has a lock, 0 for none
  stack    \* the code a processor runs and what it has interrupted

spinvars == <<IF_, ncli, intena, owner, stack>>

\* A frame: where it is, the lock it takes or gives back, the flags it has
\* read, and the locks it has.
Frame == [pc |-> "code", lk |-> 0, eflags |-> FALSE, held |-> {}]

SpinInit ==
  /\ IF_ = [c \in Cpu |-> TRUE]
  /\ ncli = [c \in Cpu |-> 0] /\ intena = [c \in Cpu |-> FALSE]
  /\ owner = [l \in Lock |-> 0]
  /\ stack = [c \in Cpu |-> <<Frame>>]

Top(c) == stack[c][1]
SetTop(c, f) == stack' = [stack EXCEPT ![c][1] = f]

-----------------------------------------------------------------------------
(***************************************************************************)
(* acquire: pushcli in three steps, and the spinning                       *)
(***************************************************************************)
acquire(c, l) ==
  /\ Top(c).pc = "code" /\ \A h \in Top(c).held : h < l
  /\ SetTop(c, [Top(c) EXCEPT !.pc = "cli", !.lk = l, !.eflags = IF_[c]])
  /\ UNCHANGED <<IF_, ncli, intena, owner>>

\* Mutant: interrupts stay on.
NoCli(c) ==
  /\ Top(c).pc = "cli"
  /\ SetTop(c, [Top(c) EXCEPT !.pc = "push"])
  /\ UNCHANGED <<IF_, ncli, intena, owner>>

Cli(c) ==
  /\ Top(c).pc = "cli"
  /\ IF_' = [IF_ EXCEPT ![c] = FALSE]
  /\ SetTop(c, [Top(c) EXCEPT !.pc = "push"])
  /\ UNCHANGED <<ncli, intena, owner>>

Pushcli(c) ==
  /\ Top(c).pc = "push"
  /\ intena' = [intena EXCEPT ![c] = IF ncli[c] = 0 THEN Top(c).eflags ELSE @]
  /\ ncli' = [ncli EXCEPT ![c] = @ + 1]
  /\ SetTop(c, [Top(c) EXCEPT !.pc = "spin"])
  /\ UNCHANGED <<IF_, owner>>

Xchg(c) ==
  /\ Top(c).pc = "spin" /\ owner[Top(c).lk] = 0
  /\ owner' = [owner EXCEPT ![Top(c).lk] = c]
  /\ SetTop(c, [Top(c) EXCEPT !.pc = "code", !.held = @ \cup {Top(c).lk}])
  /\ UNCHANGED <<IF_, ncli, intena>>

(***************************************************************************)
(* release, with popcli                                                    *)
(***************************************************************************)
Release(c, l) ==
  /\ Top(c).pc = "code" /\ l \in Top(c).held
  /\ owner' = [owner EXCEPT ![l] = 0]
  /\ SetTop(c, [Top(c) EXCEPT !.pc = "pop", !.held = @ \ {l}])
  /\ UNCHANGED <<IF_, ncli, intena>>

Popcli(c) ==
  /\ Top(c).pc = "pop"
  /\ ncli' = [ncli EXCEPT ![c] = @ - 1]
  /\ IF_' = [IF_ EXCEPT ![c] = @ \/ (ncli[c] = 1 /\ intena[c])]
  /\ SetTop(c, [Top(c) EXCEPT !.pc = "code"])
  /\ UNCHANGED <<intena, owner>>

(***************************************************************************)
(* The interrupt gate clears the flag, iret restores it.                   *)
(***************************************************************************)
Interrupt(c) ==
  /\ IF_[c]
  /\ IF_' = [IF_ EXCEPT ![c] = FALSE]
  /\ stack' = [stack EXCEPT ![c] = <<Frame>> \o @]
  /\ UNCHANGED <<ncli, intena, owner>>

Iret(c) ==
  /\ Len(stack[c]) > 1 /\ Top(c).pc = "code" /\ Top(c).held = {}
  /\ IF_' = [IF_ EXCEPT ![c] = TRUE]
  /\ stack' = [stack EXCEPT ![c] = Tail(@)]
  /\ UNCHANGED <<ncli, intena, owner>>

SpinNext ==
  \E c \in Cpu :
    \/ Cli(c) \/ Pushcli(c) \/ Xchg(c) \/ Popcli(c) \/ Interrupt(c) \/ Iret(c)
    \/ \E l \in Lock : acquire(c, l) \/ Release(c, l)

SpinSpec == SpinInit /\ [][SpinNext]_spinvars

-----------------------------------------------------------------------------
\* Nobody spins on a lock that is waiting for it: in the chain of processors
\* that wait for the owner of a lock no one comes twice, and no handler waits
\* for the code it has interrupted.
WaitsFor == {<<c, owner[Top(c).lk]>> : c \in {x \in Cpu : Top(x).pc = "spin" /\ owner[Top(x).lk] # 0}}
NoCircle == \A S \in SUBSET Cpu : S # {} => \E c \in S : \A d \in S : <<c, d>> \notin WaitsFor

\* Interrupts are off while a lock is held, and with the last lock released
\* they are as they were: on in a thread, off in a handler.
FlagsMatch ==
  \A c \in Cpu :
    /\ (\E l \in Lock : owner[l] = c) => ~IF_[c]
    /\ Top(c).pc = "code" /\ Top(c).held = {} => (IF_[c] <=> Len(stack[c]) = 1)
    /\ ncli[c] = Cardinality({l \in Lock : owner[l] = c}) + Cardinality({i \in DOMAIN stack[c] : stack[c][i].pc \in {"spin", "pop"}})

\* The type invariant of the flags, the locks and the stacks.
Frames == [pc : {"code", "cli", "push", "spin", "pop"}, lk : Lock \cup {0},
           eflags : BOOLEAN, held : SUBSET Lock]
SpinTypeOK ==
  /\ IF_ \in [Cpu -> BOOLEAN] /\ ncli \in [Cpu -> Nat] /\ intena \in [Cpu -> BOOLEAN]
  /\ owner \in [Lock -> Cpu \cup {0}]
  /\ stack \in [Cpu -> Seq(Frames)]

\* Code that is interrupted has no lock, and had interrupts on when it read the
\* flags.
Interrupted(f) ==
  f.held = {} /\ (f.pc = "code" \/ (f.pc = "cli" /\ f.eflags /\ f.lk \in Lock))

\* What makes FlagsMatch and NoCircle inductive: a handler is never interrupted,
\* the flag is on only in a thread that is about no lock, and ncli, eflags and
\* intena say so at every instruction of pushcli and popcli.
CpuInv(c) ==
  LET f == Top(c)
      thread == Len(stack[c]) = 1
  IN /\ thread \/ (Len(stack[c]) = 2 /\ Interrupted(stack[c][2]))
     /\ f.held = {l \in Lock : owner[l] = c}
     /\ IF_[c] <=> thread /\ f.held = {} /\ f.pc \in {"code", "cli"}
     /\ f.pc \in {"spin", "pop"} => ncli[c] = Cardinality(f.held) + 1
     /\ f.pc \notin {"spin", "pop"} => ncli[c] = Cardinality(f.held)
     /\ ncli[c] > 0 => (intena[c] <=> thread)
     /\ f.pc \in {"cli", "push"} => (f.eflags <=> thread /\ f.held = {})
     /\ f.pc \in {"cli", "push", "spin"} => f.lk \in Lock /\ \A h \in f.held : h < f.lk
SpinInv == SpinTypeOK /\ \A c \in Cpu : CpuInv(c)
=============================================================================
