----------------------------- MODULE MCServices -----------------------------
(***************************************************************************)
(* Four parts that wait and must be woken, for TLC, of which a behaviour   *)
(* runs one: sleep locks, pipes, the clock and the shell, which runs lines *)
(* that its parser has parsed.                                             *)
(***************************************************************************)
EXTENDS SleepLock, Sequences

MCThread == 1..4
MCNobody == 0

VARIABLES
  unit,                                                          \* which part runs
  data, nread, nwrite, readopen, writeopen, freed, readers, writers,
  ppc, todo, room, pkilled, born,                                \* Pipe
  ticks, st, ticks0, n, killed, gone,                            \* Clock
  proc, k, lines, input,                                         \* Shell
  text                                                           \* of the parser, not used

P == INSTANCE Pipe WITH Thread <- {1, 2}, Creator <- 1, Values <- {0, 1}, PIPESIZE <- 2,
       Wrap <- 4, MaxIO <- 2, Writes <- {<<0>>, <<1, 0, 1>>}, pc <- ppc, killed <- pkilled
C == INSTANCE Clock WITH Thread <- {1, 2}, Width <- 3, MaxSleep <- 2
Parse == INSTANCE ShellParse WITH MAXARGS <- 3, MaxTokens <- 7
Lines == {<<"a", "|", "a", ">", "a">>, <<"a", "&", ";", "a">>, <<"(", "a", ";", "a", ")", "|", "a">>}
S == INSTANCE Shell WITH NPROC <- 5, NFILE <- 7, NOFILE <- 6, NPIPE <- 2, MaxLines <- 2, MaxInput <- 1,
       Commands <- {Parse!parsecmd(ts).cmd : ts \in Lines}

sleeplock == <<lk, ptlock, locked, pid, state, pc>>
pipe == <<data, nread, nwrite, readopen, writeopen, freed, readers, writers, ppc, todo, room, pkilled, born>>
clock == <<ticks, st, ticks0, n, killed, gone>>
shell == <<proc, k, lines, input>>
allvars == <<unit, sleeplock, pipe, clock, shell, text>>

MCInit ==
  /\ unit \in {"sleeplock", "pipe", "clock", "shell"}
  /\ Init /\ P!Init /\ C!Init /\ S!Init /\ text = <<>>

Part(u) == unit = u /\ UNCHANGED <<unit, text>>

MCNext ==
  \/ Part("sleeplock") /\ Next /\ UNCHANGED <<pipe, clock, shell>>
  \/ Part("pipe") /\ P!Next /\ UNCHANGED <<sleeplock, clock, shell>>
  \/ Part("clock") /\ C!Next /\ UNCHANGED <<sleeplock, pipe, shell>>
  \/ Part("shell") /\ S!Next /\ UNCHANGED <<sleeplock, pipe, clock>>

\* The fairness of the parts: threads that can go on do, and the clock ticks.
MCSpec ==
  /\ MCInit /\ [][MCNext]_allvars
  /\ \A t \in Thread : WF_sleeplock(unit = "sleeplock" /\ Progress(t))
  /\ \A t \in {1, 2} : WF_pipe(unit = "pipe" /\ P!PipeStep(t))
  /\ WF_clock(unit = "clock" /\ C!Tick) /\ \A t \in {1, 2} : WF_clock(unit = "clock" /\ C!Look(t))
  /\ WF_shell(unit = "shell" /\ S!InitWaits)
  /\ \A q \in 1..5 : WF_shell(unit = "shell" /\ S!Step(q))

-----------------------------------------------------------------------------
\* A thread asleep on a pipe has a reason to be, and a pipe is freed when nobody
\* can use it (pipe.c).
PipeSafe == unit = "pipe" => P!SleepersMustWait /\ P!FreedIsUnused
\* A pipe is a queue of bytes (pipe.c).
ImplementsFifo == P!ImplementsFifo
\* sleep does not return early, unless the process is killed (sysproc.c).
NeverEarly == C!NeverEarly
\* Every sleep ends (sysproc.c, the timer interrupt of trap.c).
SleepEnds == C!SleepEnds
\* Reference counts and the ends of pipes are exact, and programs get their three
\* descriptors and no other (file.c, sysfile.c, sh.c runcmd).
FilesExact == unit = "shell" => S!EndsExact /\ S!ProgramFds
\* The shell comes back to its prompt (sh.c main and runcmd).
PromptReturns == S!PromptReturns
=============================================================================
