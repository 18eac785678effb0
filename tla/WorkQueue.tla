----------------------------- MODULE WorkQueue -----------------------------
(***************************************************************************)
(* week4/02_sync/ex2.c: one producer (main) and N consumers share the      *)
(* counter work under work_mutex and the condition variable work_cond.     *)
(* main adds work M times, then raises polundra WITHOUT the mutex and, for *)
(* each consumer in turn, signals once and joins it.                       *)
(*                                                                         *)
(* A step is a stretch of code between two points where another thread     *)
(* can interfere: a mutex operation, an access to polundra (which no lock  *)
(* protects), and each half of the read-modify-write work--.               *)
(***************************************************************************)
EXTENDS Naturals

CONSTANTS
    N,          \* number of consumers (#define N)
    M,          \* number of work adding cycles (#define M)
    MaxAdd      \* add = rand() % MaxAdd + 1

ASSUME NAssumption == N \in Nat \ {0}
ASSUME MAssumption == M \in Nat
ASSUME MaxAddAssumption == MaxAdd \in Nat \ {0}

Consumers == 1..N
Main == 0
Free == N + 1   \* the value of mutex when nobody holds it

ASSUME FreeIsNobody == Free \notin Consumers /\ Free # Main

ConsumerPC == {"absent", "start", "test", "towait", "waiting", "relock",
               "drain", "store", "check", "unlock", "done"}
MainPC == {"create", "lock", "add", "unlock", "polundra", "signal", "join",
           "finished"}

VARIABLES
    work,       \* int work
    polundra,   \* bool polundra
    mutex,      \* holder of work_mutex
    pc,         \* where each consumer is; "waiting" = blocked in work_cond
    reg,        \* the value of work a consumer loaded for work--
    mpc,        \* where main is
    i,          \* main's loop variable, in each of its three loops
    added,      \* history: units main has added
    consumed    \* history: units consumers have taken

vars == <<work, polundra, mutex, pc, reg, mpc, i, added, consumed>>

Waiters == {t \in Consumers : pc[t] = "waiting"}

Init ==
    /\ work = 0
    /\ polundra = FALSE
    /\ mutex = Free
    /\ pc = [t \in Consumers |-> "absent"]
    /\ reg = [t \in Consumers |-> 0]
    /\ mpc = "create"
    /\ i = 0
    /\ added = 0
    /\ consumed = 0

Goto(t, label) == pc' = [pc EXCEPT ![t] = label]

(***************************************************************************)
(* pthread_cond_signal: wakes one waiter, whichever, or nobody when the    *)
(* wait set is empty (the signal is then lost).                            *)
(***************************************************************************)
CondSignal ==
    \/ \E t \in Waiters : Goto(t, "relock")
    \/ Waiters = {} /\ UNCHANGED pc

-----------------------------------------------------------------------------
(* thread_func *)

\* pthread_mutex_lock on entry
Lock(t) ==
    /\ pc[t] = "start"
    /\ mutex = Free
    /\ mutex' = t
    /\ Goto(t, "test")
    /\ UNCHANGED <<work, polundra, reg, mpc, i, added, consumed>>

\* mutant: polundra ends the loop before the work is drained
TestPolundraFirst(t) ==
    /\ pc[t] = "test"
    /\ Goto(t, IF polundra THEN "unlock"
               ELSE IF work = 0 THEN "towait" ELSE "drain")
    /\ UNCHANGED <<work, polundra, mutex, reg, mpc, i, added, consumed>>

\* mutant: the wait loop forgets polundra
TestWorkOnly(t) ==
    /\ pc[t] = "test"
    /\ Goto(t, IF work = 0 THEN "towait" ELSE "drain")
    /\ UNCHANGED <<work, polundra, mutex, reg, mpc, i, added, consumed>>

\* while (work == 0 && !polundra)
Test(t) ==
    /\ pc[t] = "test"
    /\ Goto(t, IF work = 0 /\ ~polundra THEN "towait" ELSE "drain")
    /\ UNCHANGED <<work, polundra, mutex, reg, mpc, i, added, consumed>>

\* pthread_cond_wait: releases the mutex and joins the wait set atomically
CondWait(t) ==
    /\ pc[t] = "towait"
    /\ mutex' = Free
    /\ Goto(t, "waiting")
    /\ UNCHANGED <<work, polundra, reg, mpc, i, added, consumed>>

\* pthread_cond_wait may return without a signal
SpuriousWakeup(t) ==
    /\ pc[t] = "waiting"
    /\ Goto(t, "relock")
    /\ UNCHANGED <<work, polundra, mutex, reg, mpc, i, added, consumed>>

\* mutant: the mutex is not taken again
RelockUnguarded(t) ==
    /\ pc[t] = "relock"
    /\ Goto(t, "test")
    /\ UNCHANGED <<work, polundra, mutex, reg, mpc, i, added, consumed>>

\* pthread_cond_wait takes the mutex again before it returns
Relock(t) ==
    /\ pc[t] = "relock"
    /\ mutex = Free
    /\ mutex' = t
    /\ Goto(t, "test")
    /\ UNCHANGED <<work, polundra, reg, mpc, i, added, consumed>>

\* while (work): load work, or leave the loop
Drain(t) ==
    /\ pc[t] = "drain"
    /\ reg' = [reg EXCEPT ![t] = work]
    /\ Goto(t, IF work # 0 THEN "store" ELSE "check")
    /\ UNCHANGED <<work, polundra, mutex, mpc, i, added, consumed>>

\* work--: store the decremented value; print and sleep with the mutex held
Store(t) ==
    /\ pc[t] = "store"
    /\ work' = reg[t] - 1
    /\ consumed' = consumed + 1
    /\ Goto(t, "drain")
    /\ UNCHANGED <<polundra, mutex, reg, mpc, i, added>>

\* if (polundra) break;
Check(t) ==
    /\ pc[t] = "check"
    /\ Goto(t, IF polundra THEN "unlock" ELSE "test")
    /\ UNCHANGED <<work, polundra, mutex, reg, mpc, i, added, consumed>>

Unlock(t) ==
    /\ pc[t] = "unlock"
    /\ mutex' = Free
    /\ Goto(t, "done")
    /\ UNCHANGED <<work, polundra, reg, mpc, i, added, consumed>>

-----------------------------------------------------------------------------
(* main *)

\* pthread_create for each consumer, results unchecked
MainCreate ==
    /\ mpc = "create"
    /\ IF i < N
       THEN /\ Goto(i + 1, "start")
            /\ i' = i + 1
            /\ UNCHANGED mpc
       ELSE /\ i' = 0
            /\ mpc' = "lock"
            /\ UNCHANGED pc
    /\ UNCHANGED <<work, polundra, mutex, reg, added, consumed>>

\* for (i < M): pthread_mutex_lock, or leave the loop
MainLock ==
    /\ mpc = "lock"
    /\ \/ /\ i < M
          /\ mutex = Free
          /\ mutex' = Main
          /\ mpc' = "add"
       \/ /\ i = M
          /\ mpc' = "polundra"
          /\ UNCHANGED mutex
    /\ UNCHANGED <<work, polundra, pc, reg, i, added, consumed>>

\* mutant: work is added and nobody is told
MainAddSilent ==
    /\ mpc = "add"
    /\ \E add \in 1..MaxAdd :
         /\ work' = work + add
         /\ added' = added + add
    /\ mpc' = "unlock"
    /\ UNCHANGED <<polundra, mutex, pc, reg, i, consumed>>

\* work += rand() % MaxAdd + 1; pthread_cond_signal, the mutex held
MainAdd ==
    /\ mpc = "add"
    /\ \E add \in 1..MaxAdd :
         /\ work' = work + add
         /\ added' = added + add
    /\ CondSignal
    /\ mpc' = "unlock"
    /\ UNCHANGED <<polundra, mutex, reg, i, consumed>>

\* mutant: the producer forgets to unlock
MainUnlockForgotten ==
    /\ mpc = "unlock"
    /\ i' = i + 1
    /\ mpc' = "lock"
    /\ UNCHANGED <<work, polundra, mutex, pc, reg, added, consumed>>

MainUnlock ==
    /\ mpc = "unlock"
    /\ mutex' = Free
    /\ i' = i + 1
    /\ mpc' = "lock"
    /\ UNCHANGED <<work, polundra, pc, reg, added, consumed>>

\* polundra = true, without the mutex
MainPolundra ==
    /\ mpc = "polundra"
    /\ polundra' = TRUE
    /\ i' = 0
    /\ mpc' = "signal"
    /\ UNCHANGED <<work, mutex, pc, reg, added, consumed>>

\* for (i < N): one signal, without the mutex, before each join
MainSignal ==
    /\ mpc = "signal"
    /\ IF i < N
       THEN CondSignal /\ mpc' = "join"
       ELSE mpc' = "finished" /\ UNCHANGED pc
    /\ UNCHANGED <<work, polundra, mutex, reg, i, added, consumed>>

\* pthread_join(tid[i])
MainJoin ==
    /\ mpc = "join"
    /\ pc[i + 1] = "done"
    /\ i' = i + 1
    /\ mpc' = "signal"
    /\ UNCHANGED <<work, polundra, mutex, pc, reg, added, consumed>>

-----------------------------------------------------------------------------
Consumer(t) ==
    \/ Lock(t) \/ Test(t) \/ CondWait(t) \/ Relock(t) \/ Drain(t)
    \/ Store(t) \/ Check(t) \/ Unlock(t)

MainStep ==
    \/ MainCreate \/ MainLock \/ MainAdd \/ MainUnlock
    \/ MainPolundra \/ MainSignal \/ MainJoin

Next ==
    \/ \E t \in Consumers : Consumer(t) \/ SpuriousWakeup(t)
    \/ MainStep

Spec == Init /\ [][Next]_vars

(***************************************************************************)
(* Every thread that can run is eventually run by the scheduler.  Nothing  *)
(* more is assumed: the mutex may be unfair, and nothing forces a spurious *)
(* wakeup.                                                                 *)
(***************************************************************************)
Fairness ==
    /\ WF_vars(MainStep)
    /\ \A t \in Consumers : WF_vars(Consumer(t))

FairSpec == Spec /\ Fairness

-----------------------------------------------------------------------------
\* The variables have their types (proved as part of the inductive invariant).
TypeOK ==
    /\ work \in Nat
    /\ polundra \in BOOLEAN
    /\ mutex \in Consumers \cup {Main, Free}
    /\ pc \in [Consumers -> ConsumerPC]
    /\ reg \in [Consumers -> Nat]
    /\ mpc \in MainPC
    /\ i \in Nat
    /\ added \in Nat
    /\ consumed \in Nat

\* where a consumer or main holds work_mutex
HoldsAt == {"test", "towait", "drain", "store", "check", "unlock"}

(***************************************************************************)
(* No unit of work is lost or done twice: what main added (work += add) is *)
(* what is left plus what consumers took (work--).  The mutex is what      *)
(* keeps a load and its store together.                                    *)
(***************************************************************************)
WorkConserved == added = work + consumed

(***************************************************************************)
(* work_mutex is held by exactly the thread that is between a lock and an  *)
(* unlock (a cond_wait releases it and takes it again).                    *)
(***************************************************************************)
MutualExclusion ==
    /\ \A t \in Consumers : (pc[t] \in HoldsAt) <=> (mutex = t)
    /\ (mpc \in {"add", "unlock"}) <=> (mutex = Main)

(***************************************************************************)
(* A consumer that left its loop left nothing behind: main raises polundra *)
(* only after its last work += add, and a consumer drains work before it   *)
(* looks at polundra, so the first "finished" means no work is left, ever. *)
(***************************************************************************)
FinishedMeansDrained ==
    (\E t \in Consumers : pc[t] \in {"unlock", "done"}) =>
        work = 0 /\ polundra /\ mpc \in {"signal", "join", "finished"}

(***************************************************************************)
(* Work is never stranded: while there is some, not every consumer is      *)
(* asleep in pthread_cond_wait, although main signals one of them only.    *)
(***************************************************************************)
NoStrandedWork == work > 0 => Waiters # Consumers

(***************************************************************************)
(* Whatever main adds is eventually all done, without help from spurious   *)
(* wakeups.                                                                *)
(***************************************************************************)
WorkGetsDone == (work > 0) ~> (work = 0)

(***************************************************************************)
(* After polundra every consumer that is not asleep, or about to sleep on  *)
(* a stale test, finishes: the loop order wait, drain, test polundra.      *)
(***************************************************************************)
AwakeConsumersFinish ==
    \A t \in Consumers :
        (polundra /\ pc[t] \notin {"towait", "waiting"}) ~> (pc[t] = "done")

(***************************************************************************)
(* What the shutdown loop is written for (ex2.c:63-68, "main: finished"):  *)
(* one signal per consumer makes every consumer finish and main after      *)
(* them.                                                                   *)
(***************************************************************************)
MainFinishes == <>(mpc = "finished")
=============================================================================
