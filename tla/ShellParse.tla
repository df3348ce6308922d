----------------------------- MODULE ShellParse -----------------------------
(***************************************************************************)
(* The parser of sh.c, on tokens: "a" is a word, and ">" stands for ">>"   *)
(* as well, which parseredirs treats alike.  A parsing function takes the  *)
(* tokens left and gives a tree and the tokens then left, or fails with a  *)
(* panic.  A tree is <<"EXEC", argc>>, <<"REDIR", fd, cmd>>,               *)
(* <<"PIPE", left, right>>, <<"LIST", left, right>> or <<"BACK", cmd>>.    *)
(***************************************************************************)
EXTENDS Integers, Sequences, SequencesExt

CONSTANTS MAXARGS,
          MaxTokens   \* the longest line

Token == {"a", "|", "(", ")", ";", "&", "<", ">"}

VARIABLE text   \* what is typed so far

Init == text = <<>>
Type(t) == Len(text) < MaxTokens /\ text' = Append(text, t)
Next == \E t \in Token : Type(t)
Spec == Init /\ [][Next]_text

-----------------------------------------------------------------------------
peek(ts, toks) == ts # <<>> /\ Head(ts) \in toks

Panic == [ok |-> FALSE, cmd |-> <<"EXEC", 0>>, ts |-> <<>>]
Got(cmd, ts) == [ok |-> TRUE, cmd |-> cmd, ts |-> ts]

RECURSIVE parseline(_), parsepipe(_), parseredirs(_, _), parseargs(_, _)

\* The redirections that follow, the last one outermost.
parseredirs(cmd, ts) ==
  IF ~peek(ts, {"<", ">"}) THEN Got(cmd, ts)
  ELSE IF ~peek(Tail(ts), {"a"}) THEN Panic
  ELSE parseredirs(<<"REDIR", IF Head(ts) = "<" THEN 0 ELSE 1, cmd>>, Tail(Tail(ts)))

\* One more argument for the EXEC at the bottom of the redirections.
RECURSIVE AddArg(_)
AddArg(cmd) == IF cmd[1] = "EXEC" THEN <<"EXEC", cmd[2] + 1>> ELSE [cmd EXCEPT ![3] = AddArg(cmd[3])]

\* The loop of parseexec over the arguments.
parseargs(ret, argc) ==
  IF ~ret.ok \/ ret.ts = <<>> \/ peek(ret.ts, {"|", ")", "&", ";"}) THEN ret
  ELSE IF Head(ret.ts) # "a" \/ argc + 1 >= MAXARGS THEN Panic
  ELSE parseargs(parseredirs(AddArg(ret.cmd), Tail(ret.ts)), argc + 1)

parseblock(ts) ==
  LET b == parseline(Tail(ts))
  IN IF ~b.ok \/ ~peek(b.ts, {")"}) THEN Panic ELSE parseredirs(b.cmd, Tail(b.ts))

parseexec(ts) == IF peek(ts, {"("}) THEN parseblock(ts)
                 ELSE parseargs(parseredirs(<<"EXEC", 0>>, ts), 0)

parsepipe(ts) ==
  LET l == parseexec(ts)
      r == parsepipe(Tail(l.ts))
  IN IF ~l.ok \/ ~peek(l.ts, {"|"}) THEN l
     ELSE IF ~r.ok THEN Panic ELSE Got(<<"PIPE", l.cmd, r.cmd>>, r.ts)

RECURSIVE Backs(_)
Backs(ret) == IF ret.ok /\ peek(ret.ts, {"&"}) THEN Backs(Got(<<"BACK", ret.cmd>>, Tail(ret.ts))) ELSE ret

\* Mutant: the rest of a list goes into the background with its head.
parselineBack(ts) ==
  LET l == parsepipe(ts)
      r == parseline(Tail(l.ts))
  IN IF ~l.ok \/ ~peek(l.ts, {";"}) THEN Backs(l)
     ELSE IF ~r.ok THEN Panic ELSE Backs(Got(<<"LIST", l.cmd, r.cmd>>, r.ts))
parseline(ts) ==
  LET l == Backs(parsepipe(ts))
      r == parseline(Tail(l.ts))
  IN IF ~l.ok \/ ~peek(l.ts, {";"}) THEN l
     ELSE IF ~r.ok THEN Panic ELSE Got(<<"LIST", l.cmd, r.cmd>>, r.ts)

parsecmd(ts) == LET c == parseline(ts) IN IF c.ts # <<>> THEN Panic ELSE c

-----------------------------------------------------------------------------
(***************************************************************************)
(* What a line means: its trees in the grammar                             *)
(*   line ::= pipe '&'* [';' line]      pipe ::= exec ['|' pipe]           *)
(*   exec ::= '(' line ')' redir*  |  (word | redir)*                      *)
(***************************************************************************)
Pre(s, i) == SubSeq(s, 1, i - 1)
Post(s, i) == SubSeq(s, i + 1, Len(s))
At(s, t) == {i \in DOMAIN s : s[i] = t}

RECURSIVE LineTrees(_), BackTrees(_), PipeTrees(_), ExecTrees(_)
LineTrees(s) ==
  BackTrees(s) \cup UNION {{<<"LIST", l, r>> : l \in BackTrees(Pre(s, i)), r \in LineTrees(Post(s, i))} : i \in At(s, ";")}
BackTrees(s) ==
  PipeTrees(s) \cup (IF s # <<>> /\ Last(s) = "&" THEN {<<"BACK", c>> : c \in BackTrees(Front(s))} ELSE {})
PipeTrees(s) ==
  ExecTrees(s) \cup UNION {{<<"PIPE", l, r>> : l \in ExecTrees(Pre(s, i)), r \in PipeTrees(Post(s, i))} : i \in At(s, "|")}
ExecTrees(s) ==
  LET n == Len(s)
      redir == n > 1 /\ s[n] = "a" /\ s[n - 1] \in {"<", ">"}
  IN IF s = <<>> THEN {<<"EXEC", 0>>}
     ELSE IF redir THEN {<<"REDIR", IF s[n - 1] = "<" THEN 0 ELSE 1, c>> : c \in ExecTrees(SubSeq(s, 1, n - 2))}
     ELSE IF s[n] = ")" /\ s[1] = "(" THEN LineTrees(SubSeq(s, 2, n - 1))
     ELSE IF s[n] = "a" THEN {AddArg(c) : c \in {x \in ExecTrees(Front(s)) : s[1] # "("}}
     ELSE {}

RECURSIVE Argc(_)
Argc(c) == IF c[1] = "EXEC" THEN {c[2]} ELSE UNION {Argc(c[i]) : i \in {j \in 2..Len(c) : c[1] # "REDIR" \/ j = 3}}

\* The parser accepts exactly the lines of the grammar whose commands have
\* less than MAXARGS arguments, and gives their only tree.
ParsesGrammar ==
  LET p == parsecmd(text)
      trees == LineTrees(text)
      good == {c \in trees : \A k \in Argc(c) : k < MAXARGS}
  IN IF p.ok THEN trees = {p.cmd} /\ good = trees ELSE good = {}
=============================================================================
