-------------------------- MODULE WorkQueue_proofs --------------------------
(***************************************************************************)
(* Safety of week4/02_sync/ex2.c for any number of consumers, cycles and   *)
(* any size of a work portion.                                             *)
(***************************************************************************)
EXTENDS WorkQueue, TLAPS

USE NAssumption, MAssumption, MaxAddAssumption, FreeIsNobody

(***************************************************************************)
(* What a consumer between lock and unlock knows about work, and what      *)
(* main's position says about polundra and the consumers it has created.   *)
(***************************************************************************)
Holding ==
    /\ \A t \in Consumers :
         /\ pc[t] = "store" => reg[t] = work /\ work > 0
         /\ pc[t] \in {"towait", "check"} => work = 0
    /\ polundra <=> mpc \in {"signal", "join", "finished"}
    /\ mpc = "create" => \A t \in Consumers : t > i => pc[t] = "absent"

IInv ==
    /\ TypeOK
    /\ MutualExclusion
    /\ WorkConserved
    /\ FinishedMeansDrained
    /\ NoStrandedWork
    /\ Holding

\* before main creates the consumers the invariant holds
LEMMA InitIInv == Init => IInv
<1> SUFFICES ASSUME Init PROVE IInv
  OBVIOUS
<1>1. TypeOK
  BY DEF Init, TypeOK, ConsumerPC, MainPC, Consumers, Main, Free
<1>2. MutualExclusion /\ WorkConserved /\ FinishedMeansDrained /\ NoStrandedWork
  BY DEF Init, MutualExclusion, WorkConserved, FinishedMeansDrained,
         NoStrandedWork, HoldsAt, Consumers, Main, Free
<1>3. Holding
  BY DEF Init, Holding
<1> QED
  BY <1>1, <1>2, <1>3 DEF IInv

(***************************************************************************)
(* A step of consumer t, whatever it is, preserves the invariant.          *)
(***************************************************************************)
LEMMA ConsumerStep ==
    ASSUME IInv, NEW t \in Consumers, Consumer(t) \/ SpuriousWakeup(t)
    PROVE  IInv'
<1> USE DEF IInv, TypeOK, ConsumerPC, MainPC, Goto
<1>1. CASE Lock(t) \/ Relock(t)
  <2>1. /\ pc[t] \in {"start", "relock"} /\ mutex = Free /\ mutex' = t
        /\ pc' = [pc EXCEPT ![t] = "test"]
        /\ UNCHANGED <<work, polundra, reg, mpc, i, added, consumed>>
    BY <1>1 DEF Lock, Relock
  <2>2. TypeOK' /\ WorkConserved'
    BY <2>1 DEF WorkConserved
  <2>3. MutualExclusion'
    BY <2>1 DEF MutualExclusion, HoldsAt, Main, Free, Consumers
  <2>4. FinishedMeansDrained' /\ NoStrandedWork'
    BY <2>1 DEF FinishedMeansDrained, NoStrandedWork, Waiters
  <2>5. Holding'
    BY <2>1 DEF Holding
  <2> QED
    BY <2>2, <2>3, <2>4, <2>5
<1>2. CASE Test(t)
  BY <1>2 DEF Test, MutualExclusion, WorkConserved, HoldsAt,
      FinishedMeansDrained, NoStrandedWork, Waiters, Holding, Main, Free, Consumers
<1>3. CASE CondWait(t)
  BY <1>3 DEF CondWait, MutualExclusion, WorkConserved, HoldsAt,
      FinishedMeansDrained, NoStrandedWork, Waiters, Holding, Main, Free, Consumers
<1>4. CASE SpuriousWakeup(t)
  BY <1>4 DEF SpuriousWakeup, MutualExclusion, WorkConserved, HoldsAt,
      FinishedMeansDrained, NoStrandedWork, Waiters, Holding, Main, Free, Consumers
<1>5. CASE Drain(t)
  BY <1>5 DEF Drain, MutualExclusion, WorkConserved, HoldsAt,
      FinishedMeansDrained, NoStrandedWork, Waiters, Holding, Main, Free, Consumers
<1>6. CASE Store(t)
  <2>1. /\ pc[t] = "store" /\ reg[t] = work /\ work > 0 /\ mutex = t
        /\ work' = work - 1 /\ consumed' = consumed + 1
        /\ pc' = [pc EXCEPT ![t] = "drain"]
        /\ UNCHANGED <<polundra, mutex, reg, mpc, i, added>>
    BY <1>6 DEF Store, Holding, MutualExclusion, HoldsAt
  <2>2. TypeOK' /\ WorkConserved'
    BY <2>1 DEF WorkConserved
  <2>3. MutualExclusion'
    BY <2>1 DEF MutualExclusion, HoldsAt
  <2>4. FinishedMeansDrained'
    BY <2>1 DEF FinishedMeansDrained
  <2>5. NoStrandedWork'
    BY <2>1 DEF NoStrandedWork, Waiters
  <2>6. Holding'
    BY <2>1 DEF Holding, MutualExclusion, HoldsAt, Consumers
  <2> QED
    BY <2>2, <2>3, <2>4, <2>5, <2>6
<1>7. CASE Check(t)
  BY <1>7 DEF Check, MutualExclusion, WorkConserved, HoldsAt,
      FinishedMeansDrained, NoStrandedWork, Waiters, Holding, Main, Free, Consumers
<1>8. CASE Unlock(t)
  BY <1>8 DEF Unlock, MutualExclusion, WorkConserved, HoldsAt,
      FinishedMeansDrained, NoStrandedWork, Waiters, Holding, Main, Free, Consumers
<1> QED
  BY <1>1, <1>2, <1>3, <1>4, <1>5, <1>6, <1>7, <1>8 DEF Consumer

(***************************************************************************)
(* pthread_cond_signal moves at most one consumer, from the wait set to    *)
(* the queue for the mutex, and leaves somebody awake.                     *)
(***************************************************************************)
LEMMA CondSignalEffect ==
    ASSUME TypeOK, CondSignal
    PROVE  /\ pc' \in [Consumers -> ConsumerPC]
           /\ Waiters' # Consumers
           /\ \A t \in Consumers :
                pc'[t] = pc[t] \/ (pc[t] = "waiting" /\ pc'[t] = "relock")
<1>1. CASE \E t \in Waiters : Goto(t, "relock")
  BY <1>1 DEF TypeOK, Waiters, Goto, ConsumerPC
<1>2. CASE Waiters = {} /\ UNCHANGED pc
  <2>1. 1 \in Consumers
    BY DEF Consumers
  <2> QED
    BY <1>2, <2>1 DEF TypeOK, Waiters
<1> QED
  BY <1>1, <1>2 DEF CondSignal

(***************************************************************************)
(* A step of main preserves the invariant.                                 *)
(***************************************************************************)
LEMMA MainPreserves ==
    ASSUME IInv, MainStep
    PROVE  IInv'
<1> USE DEF IInv
<1>1. CASE MainCreate
  <2>1. CASE i < N
    <3>1. i + 1 \in Consumers /\ pc[i + 1] = "absent"
      BY <1>1, <2>1 DEF MainCreate, TypeOK, Holding, Consumers
    <3>2. /\ mpc = "create" /\ i' = i + 1
          /\ pc' = [pc EXCEPT ![i + 1] = "start"]
          /\ UNCHANGED <<work, polundra, mutex, reg, mpc, added, consumed>>
      BY <1>1, <2>1 DEF MainCreate, Goto
    <3>3. TypeOK' /\ WorkConserved'
      BY <3>1, <3>2 DEF TypeOK, ConsumerPC, WorkConserved
    <3>4. MutualExclusion'
      BY <3>1, <3>2 DEF TypeOK, MutualExclusion, HoldsAt
    <3>5. FinishedMeansDrained' /\ NoStrandedWork'
      BY <3>1, <3>2 DEF TypeOK, FinishedMeansDrained, NoStrandedWork, Waiters
    <3>6. Holding'
      BY <3>1, <3>2 DEF TypeOK, Holding, Consumers
    <3> QED
      BY <3>3, <3>4, <3>5, <3>6
  <2>2. CASE ~(i < N)
    BY <1>1, <2>2 DEF MainCreate, TypeOK, MainPC, MutualExclusion, HoldsAt,
        WorkConserved, FinishedMeansDrained, NoStrandedWork, Waiters, Holding
  <2> QED
    BY <2>1, <2>2
<1>2. CASE MainLock
  BY <1>2 DEF MainLock, TypeOK, MainPC, MutualExclusion, HoldsAt, Main, Free,
      Consumers, WorkConserved, FinishedMeansDrained, NoStrandedWork, Waiters,
      Holding
<1>3. CASE MainAdd
  <2>1. PICK add \in 1..MaxAdd : work' = work + add /\ added' = added + add
    BY <1>3 DEF MainAdd
  <2>2. /\ pc' \in [Consumers -> ConsumerPC]
        /\ Waiters' # Consumers
        /\ \A t \in Consumers :
             pc'[t] = pc[t] \/ (pc[t] = "waiting" /\ pc'[t] = "relock")
    BY <1>3, CondSignalEffect DEF MainAdd
  <2>3. /\ mpc = "add" /\ mpc' = "unlock" /\ mutex = Main
        /\ UNCHANGED <<polundra, mutex, reg, i, consumed>>
    BY <1>3 DEF MainAdd, MutualExclusion
  <2>4. \A t \in Consumers : pc[t] \notin HoldsAt /\ pc'[t] \notin HoldsAt
    BY <2>2, <2>3 DEF MutualExclusion, HoldsAt, Main, Consumers
  <2>5. TypeOK' /\ WorkConserved'
    BY <2>1, <2>2, <2>3 DEF TypeOK, MainPC, WorkConserved
  <2>6. MutualExclusion'
    BY <2>3, <2>4 DEF MutualExclusion, Main, Consumers
  <2>7. FinishedMeansDrained' /\ NoStrandedWork'
    BY <2>2, <2>3 DEF FinishedMeansDrained, NoStrandedWork
  <2>8. Holding'
    BY <2>3, <2>4 DEF Holding, HoldsAt
  <2> QED
    BY <2>5, <2>6, <2>7, <2>8
<1>4. CASE MainUnlock
  BY <1>4 DEF MainUnlock, TypeOK, MainPC, MutualExclusion, HoldsAt, Main, Free,
      Consumers, WorkConserved, FinishedMeansDrained, NoStrandedWork, Waiters,
      Holding
<1>5. CASE MainPolundra
  BY <1>5 DEF MainPolundra, TypeOK, MainPC, MutualExclusion, HoldsAt,
      WorkConserved, FinishedMeansDrained, NoStrandedWork, Waiters, Holding
<1>6. CASE MainSignal
  <2>1. CASE i < N
    <3>1. /\ pc' \in [Consumers -> ConsumerPC]
          /\ Waiters' # Consumers
          /\ \A t \in Consumers :
               pc'[t] = pc[t] \/ (pc[t] = "waiting" /\ pc'[t] = "relock")
      BY <1>6, <2>1, CondSignalEffect DEF MainSignal
    <3>2. /\ mpc = "signal" /\ mpc' = "join"
          /\ UNCHANGED <<work, polundra, mutex, reg, i, added, consumed>>
      BY <1>6, <2>1 DEF MainSignal
    <3>3. TypeOK' /\ WorkConserved' /\ NoStrandedWork'
      BY <3>1, <3>2 DEF TypeOK, MainPC, WorkConserved, NoStrandedWork
    <3>4. MutualExclusion'
      BY <3>1, <3>2 DEF MutualExclusion, HoldsAt
    <3>5. FinishedMeansDrained' /\ Holding'
      BY <3>1, <3>2 DEF FinishedMeansDrained, Holding
    <3> QED
      BY <3>3, <3>4, <3>5
  <2>2. CASE ~(i < N)
    BY <1>6, <2>2 DEF MainSignal, TypeOK, MainPC, MutualExclusion, HoldsAt,
        WorkConserved, FinishedMeansDrained, NoStrandedWork, Waiters, Holding
  <2> QED
    BY <2>1, <2>2
<1>7. CASE MainJoin
  BY <1>7 DEF MainJoin, TypeOK, MainPC, MutualExclusion, HoldsAt,
      WorkConserved, FinishedMeansDrained, NoStrandedWork, Waiters, Holding
<1> QED
  BY <1>1, <1>2, <1>3, <1>4, <1>5, <1>6, <1>7 DEF MainStep

(***************************************************************************)
(* The strengthened invariant of ex2.c is inductive.                       *)
(***************************************************************************)
THEOREM Inductive == Spec => []IInv
<1>1. IInv /\ [Next]_vars => IInv'
  <2> SUFFICES ASSUME IInv, [Next]_vars PROVE IInv'
    OBVIOUS
  <2>1. CASE \E t \in Consumers : Consumer(t) \/ SpuriousWakeup(t)
    BY <2>1, ConsumerStep
  <2>2. CASE MainStep
    BY <2>2, MainPreserves
  <2>3. CASE UNCHANGED vars
    BY <2>3 DEF vars, IInv, TypeOK, MutualExclusion, WorkConserved,
        FinishedMeansDrained, NoStrandedWork, Waiters, Holding
  <2> QED
    BY <2>1, <2>2, <2>3 DEF Next
<1> QED
  BY <1>1, InitIInv, PTL DEF Spec

(***************************************************************************)
(* work += add and work-- never lose or repeat a unit of work.             *)
(***************************************************************************)
THEOREM Conservation == Spec => []WorkConserved
<1>1. IInv => WorkConserved
  BY DEF IInv
<1> QED
  BY <1>1, Inductive, PTL

(***************************************************************************)
(* work_mutex protects work: at most one thread is between its lock and    *)
(* its unlock.                                                             *)
(***************************************************************************)
THEOREM Exclusion == Spec => []MutualExclusion
<1>1. IInv => MutualExclusion
  BY DEF IInv
<1> QED
  BY <1>1, Inductive, PTL

(***************************************************************************)
(* A finished consumer implies that all the work there will ever be is     *)
(* done.                                                                   *)
(***************************************************************************)
THEOREM Drained == Spec => []FinishedMeansDrained
<1>1. IInv => FinishedMeansDrained
  BY DEF IInv
<1> QED
  BY <1>1, Inductive, PTL

(***************************************************************************)
(* One pthread_cond_signal per portion is enough: while there is work some *)
(* consumer is awake.                                                      *)
(***************************************************************************)
THEOREM NeverStranded == Spec => []NoStrandedWork
<1>1. IInv => NoStrandedWork
  BY DEF IInv
<1> QED
  BY <1>1, Inductive, PTL
=============================================================================
