-------------------------------- MODULE Shell -------------------------------
(***************************************************************************)
(* The shell runs command lines: runcmd of sh.c over the file descriptors  *)
(* of sysfile.c, the file table of file.c and pipes.  What a process still *)
(* has to do is a list of steps, made from the tree that the parser gives. *)
(* Programs are filters like cat: they copy descriptor 0 to descriptor 1.  *)
(***************************************************************************)
EXTENDS Integers, Sequences, FiniteSets, FiniteSetsExt

CONSTANTS NPROC,     \* processes; 1 is the shell, 0 stands for init
          NFILE, NOFILE, NPIPE,
          Commands,  \* the trees of the command lines
          MaxLines,  \* how many lines are typed
          MaxInput   \* how often a program gets input from a file or the console

Pid == 1..NPROC
Fd == 0..(NOFILE - 1)
PIPESIZE == 1

VARIABLES
  proc,    \* of a process: the steps left, ofile, p of runcmd, the parent
  k,       \* the file table and the pipes
  lines, input

vars == <<proc, k, lines, input>>

NoProc == [code |-> <<>>, ofile |-> [d \in Fd |-> 0], p |-> <<0, 0>>, parent |-> 0]
Nofile == [ref |-> 0, type |-> "none", pipe |-> 0]

\* The shell has opened the console three times.
Init ==
  /\ proc = [q \in Pid |-> IF q # 1 THEN NoProc
                           ELSE [NoProc EXCEPT !.code = << <<"prompt">> >>,
                                               !.ofile = [d \in Fd |-> IF d < 3 THEN d + 1 ELSE 0]]]
  /\ k = [file |-> [f \in 1..NFILE |-> IF f <= 3 THEN [ref |-> 1, type |-> "inode", pipe |-> 0] ELSE Nofile],
          pipe |-> [i \in 1..NPIPE |-> [n |-> 0, readopen |-> FALSE, writeopen |-> FALSE]]]
  /\ lines = 0 /\ input = 0

-----------------------------------------------------------------------------
(***************************************************************************)
(* runcmd: the steps of a tree.  <<"closep", i>> closes p[i], and          *)
(* <<"dupp", i>> duplicates it.                                            *)
(***************************************************************************)
Exit == << <<"exit">> >>

RECURSIVE runcmd(_)
\* Mutant: the shell keeps its write end of a pipe.
PipeStepsKeep(l, r) ==
  << <<"pipe">>, <<"fork", << <<"close", 1>>, <<"dupp", 2>>, <<"closep", 1>>, <<"closep", 2>> >> \o l>>,
     <<"fork", << <<"close", 0>>, <<"dupp", 1>>, <<"closep", 1>>, <<"closep", 2>> >> \o r>>,
     <<"closep", 1>>, <<"wait">>, <<"wait">>, <<"exit">> >>
PipeSteps(l, r) ==
  << <<"pipe">>, <<"fork", << <<"close", 1>>, <<"dupp", 2>>, <<"closep", 1>>, <<"closep", 2>> >> \o l>>,
     <<"fork", << <<"close", 0>>, <<"dupp", 1>>, <<"closep", 1>>, <<"closep", 2>> >> \o r>>,
     <<"closep", 1>>, <<"closep", 2>>, <<"wait">>, <<"wait">>, <<"exit">> >>
runcmd(cmd) ==
  CASE cmd[1] = "EXEC" -> IF cmd[2] = 0 THEN Exit ELSE << <<"exec">> >>
    [] cmd[1] = "REDIR" -> << <<"close", cmd[2]>>, <<"open">> >> \o runcmd(cmd[3])
    [] cmd[1] = "LIST" -> << <<"fork", runcmd(cmd[2])>>, <<"wait">> >> \o runcmd(cmd[3])
    [] cmd[1] = "PIPE" -> PipeSteps(runcmd(cmd[2]), runcmd(cmd[3]))
    [] cmd[1] = "BACK" -> << <<"fork", runcmd(cmd[2])>>, <<"exit">> >>

Does(q, op) == proc[q].code # <<>> /\ proc[q].code[1][1] = op
Arg(q) == proc[q].code[1][2]
Goto(q, code) == proc' = [proc EXCEPT ![q].code = code]
Done(q) == Goto(q, Tail(proc[q].code))

-----------------------------------------------------------------------------
(***************************************************************************)
(* Files and descriptors                                                   *)
(***************************************************************************)
\* Mutant: the pipe is not told.
filecloseQuiet(e, f) ==
  IF e.file[f].ref > 1 THEN [e EXCEPT !.file[f].ref = @ - 1] ELSE [e EXCEPT !.file[f] = Nofile]
fileclose(e, f) ==
  LET x == e.file[f]
      g == [e EXCEPT !.file[f] = Nofile]
  IN IF x.ref > 1 THEN [e EXCEPT !.file[f].ref = @ - 1]
     ELSE IF x.type = "wr" THEN [g EXCEPT !.pipe[x.pipe].writeopen = FALSE]
     ELSE IF x.type = "rd" THEN [g EXCEPT !.pipe[x.pipe].readopen = FALSE]
     ELSE g

FreeFd(q) == {d \in Fd : proc[q].ofile[d] = 0}
FreeFile == {f \in 1..NFILE : k.file[f].ref = 0}
FreePipe == {i \in 1..NPIPE : ~k.pipe[i].readopen /\ ~k.pipe[i].writeopen}

\* close(d); a descriptor that is not open is left alone.
CloseFd(q, d) ==
  /\ proc' = [proc EXCEPT ![q].code = Tail(@), ![q].ofile[d] = 0]
  /\ k' = IF proc[q].ofile[d] = 0 THEN k ELSE fileclose(k, proc[q].ofile[d])
  /\ UNCHANGED <<lines, input>>
Close(q) == Does(q, "close") /\ CloseFd(q, Arg(q))
Closep(q) == Does(q, "closep") /\ CloseFd(q, proc[q].p[Arg(q)])

\* dup(p[i]) takes the lowest descriptor.
Dup(q) ==
  /\ Does(q, "dupp")
  /\ LET f == proc[q].ofile[proc[q].p[Arg(q)]]
     IN IF FreeFd(q) = {} THEN Done(q) /\ UNCHANGED k
        ELSE /\ k' = [k EXCEPT !.file[f].ref = @ + 1]
             /\ proc' = [proc EXCEPT ![q].code = Tail(@), ![q].ofile[Min(FreeFd(q))] = f]
  /\ UNCHANGED <<lines, input>>

\* open of a file for a redirection, that may fail.
Open(q) ==
  /\ Does(q, "open")
  /\ \/ Goto(q, Exit) /\ UNCHANGED k
     \/ /\ FreeFd(q) # {} /\ FreeFile # {}
        /\ k' = [k EXCEPT !.file[Min(FreeFile)] = [ref |-> 1, type |-> "inode", pipe |-> 0]]
        /\ proc' = [proc EXCEPT ![q].code = Tail(@), ![q].ofile[Min(FreeFd(q))] = Min(FreeFile)]
  /\ UNCHANGED <<lines, input>>

\* pipealloc and two descriptors, or a panic of the shell.
Pipe(q) ==
  /\ Does(q, "pipe")
  /\ IF Cardinality(FreeFd(q)) < 2 \/ Cardinality(FreeFile) < 2 \/ FreePipe = {}
     THEN Goto(q, Exit) /\ UNCHANGED k
     ELSE LET i == Min(FreePipe)
              rf == Min(FreeFile)
              wf == Min(FreeFile \ {rf})
              d0 == Min(FreeFd(q))
              d1 == Min(FreeFd(q) \ {d0})
          IN /\ k' = [k EXCEPT !.pipe[i] = [n |-> 0, readopen |-> TRUE, writeopen |-> TRUE],
                               !.file[rf] = [ref |-> 1, type |-> "rd", pipe |-> i],
                               !.file[wf] = [ref |-> 1, type |-> "wr", pipe |-> i]]
             /\ proc' = [proc EXCEPT ![q].code = Tail(@), ![q].p = <<d0, d1>>,
                                     ![q].ofile[d0] = rf, ![q].ofile[d1] = wf]
  /\ UNCHANGED <<lines, input>>

-----------------------------------------------------------------------------
(***************************************************************************)
(* Processes                                                               *)
(***************************************************************************)
Free == {q \in Pid : proc[q].code = <<>>}
Children(q) == {c \in Pid : proc[c].code # <<>> /\ proc[c].parent = q}
Zombie(c) == Does(c, "zombie")

\* fork1: the child has the parent's files; without a free process, a panic.
Fork(q) ==
  /\ Does(q, "fork")
  /\ IF Free = {} THEN Goto(q, Exit) /\ UNCHANGED k
     ELSE /\ proc' = [proc EXCEPT ![Min(Free)] = [proc[q] EXCEPT !.code = Arg(q), !.parent = q],
                                  ![q].code = Tail(@)]
          /\ k' = [k EXCEPT !.file = [f \in 1..NFILE |-> [@[f] EXCEPT !.ref = @ + Cardinality({d \in Fd : proc[q].ofile[d] = f})]]]
  /\ UNCHANGED <<lines, input>>

\* wait returns at once to a process without children.
Wait(q) ==
  /\ Does(q, "wait")
  /\ \/ Children(q) = {} /\ Done(q)
     \/ \E c \in Children(q) : Zombie(c) /\ proc' = [proc EXCEPT ![c] = NoProc, ![q].code = Tail(@)]
  /\ UNCHANGED <<k, lines, input>>

\* exit closes the files one by one, and leaves the children to init.
ExitClose(q) ==
  /\ Does(q, "exit") /\ FreeFd(q) # Fd
  /\ LET d == Min(Fd \ FreeFd(q))
     IN proc' = [proc EXCEPT ![q].ofile[d] = 0] /\ k' = fileclose(k, proc[q].ofile[d])
  /\ UNCHANGED <<lines, input>>
ExitDone(q) ==
  /\ Does(q, "exit") /\ FreeFd(q) = Fd
  /\ proc' = [c \in Pid |-> IF c = q THEN [proc[q] EXCEPT !.code = << <<"zombie">> >>]
                            ELSE IF c \in Children(q) THEN [proc[c] EXCEPT !.parent = 0] ELSE proc[c]]
  /\ UNCHANGED <<k, lines, input>>
InitWaits ==
  /\ \E c \in Children(0) \ {1} : Zombie(c) /\ proc' = [proc EXCEPT ![c] = NoProc]
  /\ UNCHANGED <<k, lines, input>>

\* The main loop: a line is read, and a child runs it.
Prompt ==
  /\ Does(1, "prompt") /\ lines < MaxLines /\ lines' = lines + 1
  /\ \E cmd \in Commands :
       Goto(1, << <<"fork", runcmd(cmd)>>, <<"wait">>, <<"prompt">> >>)
  /\ UNCHANGED <<k, input>>

-----------------------------------------------------------------------------
(***************************************************************************)
(* Programs                                                                *)
(***************************************************************************)
\* exec, that fails when there is no such program.
Exec(q) ==
  /\ Does(q, "exec")
  /\ Goto(q, << <<"read">> >>) \/ Goto(q, Exit)
  /\ UNCHANGED <<k, lines, input>>

Std(q, d) == k.file[proc[q].ofile[d]]

ProgRead(q) ==
  /\ Does(q, "read")
  /\ LET i == Std(q, 0).pipe
     IN IF i = 0
        THEN /\ \/ Goto(q, Exit) /\ UNCHANGED input
                \/ input < MaxInput /\ input' = input + 1 /\ Goto(q, << <<"write">> >>)
             /\ UNCHANGED k
        ELSE /\ \/ k.pipe[i].n > 0 /\ k' = [k EXCEPT !.pipe[i].n = @ - 1] /\ Goto(q, << <<"write">> >>)
                \/ k.pipe[i].n = 0 /\ ~k.pipe[i].writeopen /\ Goto(q, Exit) /\ UNCHANGED k
             /\ UNCHANGED input
  /\ UNCHANGED lines

ProgWrite(q) ==
  /\ Does(q, "write")
  /\ LET i == Std(q, 1).pipe
     IN IF i = 0 THEN Goto(q, << <<"read">> >>) /\ UNCHANGED k
        ELSE \/ ~k.pipe[i].readopen /\ Goto(q, Exit) /\ UNCHANGED k
             \/ /\ k.pipe[i].readopen /\ k.pipe[i].n < PIPESIZE
                /\ k' = [k EXCEPT !.pipe[i].n = @ + 1] /\ Goto(q, << <<"read">> >>)
  /\ UNCHANGED <<lines, input>>

-----------------------------------------------------------------------------
Step(q) ==
  \/ Close(q) \/ Closep(q) \/ Dup(q) \/ Open(q) \/ Pipe(q) \/ Fork(q) \/ Wait(q)
  \/ ExitClose(q) \/ ExitDone(q) \/ Exec(q) \/ ProgRead(q) \/ ProgWrite(q)

Next == InitWaits \/ (\E q \in Pid : Step(q)) \/ Prompt

Spec == Init /\ [][Next]_vars
FairSpec == Spec /\ WF_vars(InitWaits) /\ \A q \in Pid : WF_vars(Step(q))

-----------------------------------------------------------------------------
Refs(f) == Cardinality({x \in Pid \X Fd : proc[x[1]].ofile[x[2]] = f})

\* The reference count of a file is the number of descriptors for it, and an
\* end of a pipe is open exactly as long as somebody has a descriptor for it:
\* no reader waits for a writer that is gone.
EndsExact ==
  /\ \A f \in 1..NFILE : k.file[f].ref = Refs(f)
  /\ \A i \in 1..NPIPE :
       /\ k.pipe[i].readopen <=> \E f \in 1..NFILE : k.file[f].type = "rd" /\ k.file[f].pipe = i
       /\ k.pipe[i].writeopen <=> \E f \in 1..NFILE : k.file[f].type = "wr" /\ k.file[f].pipe = i

\* A program starts with descriptors 0, 1 and 2 and no other, and it neither
\* reads from the write end of a pipe nor writes to the read end.
ProgramFds ==
  \A q \in Pid : Does(q, "read") \/ Does(q, "write") =>
    /\ Fd \ FreeFd(q) = 0..2
    /\ Std(q, 0).type # "wr" /\ Std(q, 1).type # "rd"

\* The shell comes back to its prompt after every line whose programs stop at
\* the end of their input, whatever step of it fails.
PromptReturns == ~Does(1, "prompt") ~> Does(1, "prompt")
=============================================================================
