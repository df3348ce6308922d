-------------------------------- MODULE Clock -------------------------------
(***************************************************************************)
(* The clock: the timer interrupt of trap.c counts ticks and wakes the     *)
(* threads in sys_sleep.  Both hold tickslock, so that a look at the clock *)
(* and the sleep after it are one step.                                    *)
(***************************************************************************)
EXTENDS Integers

CONSTANTS Thread,
          Width,     \* the bits of a uint
          MaxSleep   \* the longest sleep; n is positive or zero

Uint(k) == k % 2^Width

VARIABLES
  ticks,
  st,      \* where a thread is: out of sys_sleep, asleep, or woken in it
  ticks0, n,
  killed,  \* killed, or SIGKILL is pending and not blocked
  gone     \* how many ticks there were since the call, 2^Width - 1 at most

vars == <<ticks, st, ticks0, n, killed, gone>>

Init ==
  /\ ticks = 0
  /\ st = [t \in Thread |-> "out"]
  /\ ticks0 = [t \in Thread |-> 0] /\ n = [t \in Thread |-> 0]
  /\ killed = {} /\ gone = [t \in Thread |-> 0]

\* Thread t goes to sleep in sys_sleep for the first time, or returns from it.
Local(t, s, t0, k) ==
  /\ st' = [st EXCEPT ![t] = s] /\ gone' = [gone EXCEPT ![t] = 0]
  /\ ticks0' = [ticks0 EXCEPT ![t] = t0] /\ n' = [n EXCEPT ![t] = k]

Call(t, k) ==
  /\ st[t] = "out" /\ t \notin killed
  /\ IF k > 0 THEN Local(t, "asleep", ticks, k) ELSE UNCHANGED <<st, ticks0, n, gone>>
  /\ UNCHANGED <<ticks, killed>>

\* The loop of sys_sleep goes on.
\* Mutant: the end of the sleep is computed first, and may overflow.
WaitsUntil(t) == ticks < Uint(ticks0[t] + n[t])
Waits(t) == Uint(ticks - ticks0[t]) < n[t]

Look(t) ==
  /\ st[t] = "woken"
  /\ IF Waits(t) /\ t \notin killed
     THEN st' = [st EXCEPT ![t] = "asleep"] /\ UNCHANGED <<ticks0, n, gone>>
     ELSE Local(t, "out", 0, 0)
  /\ UNCHANGED <<ticks, killed>>

\* The kernel runs a woken thread long before the clock wraps around.
InTime == \A t \in Thread : st[t] = "woken" => gone[t] < 2^Width - 1

Count == [t \in Thread |-> IF st[t] = "out" THEN 0
                         ELSE IF gone[t] < 2^Width - 1 THEN gone[t] + 1 ELSE gone[t]]

\* Mutant: nobody is woken.
TickOnly ==
  /\ InTime /\ ticks' = Uint(ticks + 1) /\ gone' = Count
  /\ UNCHANGED <<st, ticks0, n, killed>>

Tick ==
  /\ InTime /\ ticks' = Uint(ticks + 1) /\ gone' = Count
  /\ st' = [t \in Thread |-> IF st[t] = "asleep" THEN "woken" ELSE st[t]]
  /\ UNCHANGED <<ticks0, n, killed>>

Kill(t) ==
  /\ t \notin killed /\ st[t] # "out" /\ killed' = killed \cup {t}
  /\ UNCHANGED <<ticks, st, ticks0, n, gone>>

Next ==
  \/ Tick
  \/ \E t \in Thread : Look(t) \/ Kill(t) \/ \E k \in 0..MaxSleep : Call(t, k)

Spec == Init /\ [][Next]_vars

\* A thread leaves sys_sleep early only when it is killed, even while the
\* clock wraps around.
NeverEarly ==
  [][\A t \in Thread : st[t] = "woken" /\ st'[t] = "out" =>
       t \in killed \/ gone[t] >= n[t]]_vars

\* Every sleep ends, as long as the clock ticks and woken threads run.
SleepEnds == \A t \in Thread : st[t] # "out" ~> st[t] = "out"
=============================================================================
