------------------------------ MODULE Db_proofs ------------------------------
(***************************************************************************)
(* The record locks of Db: any number of processes, chains, keys, calls.   *)
(***************************************************************************)
EXTENDS Db, TLAPS

\* where a call has its key's chain locked, for reading or for writing
InChain == OnChain \cup {"find", "readdat", "unlock"}
InNext == {"next_read", "next_dat"}

\* the locks a process may hold where it is
May(p, l) ==
    \/ l \in Chains /\ pc[p] \in InChain /\ l = Chain(p)
    \/ l = FREE /\ pc[p] \in OnFreeList \cup InNext
    \/ l = DATEND /\ pc[p] = "append_dat"
    \/ l = IDXEND /\ pc[p] = "append_idx"

\* the locks it does hold there
Must(p) ==
    /\ pc[p] \in InChain => \E m \in {"r", "w"} : <<p, m>> \in lock[Chain(p)]
    /\ pc[p] \in OnChain \/ (pc[p] = "find" /\ op[p].kind # "fetch") =>
          <<p, "w">> \in lock[Chain(p)]
    /\ pc[p] \in OnFreeList => <<p, "w">> \in lock[FREE]
    /\ pc[p] \in InNext => <<p, "r">> \in lock[FREE]
    /\ pc[p] = "append_dat" => <<p, "w">> \in lock[DATEND]
    /\ pc[p] = "append_idx" => <<p, "w">> \in lock[IDXEND]

Types ==
    /\ pc \in [Procs -> PC]
    /\ lock \in [Locks -> SUBSET (Procs \X {"r", "w"})]
    /\ DOMAIN op = Procs
    /\ \A p \in Procs : pc[p] \in InChain \cup {"find_lock"} => op[p].key \in Keys

\* one writer, or readers
Compatible ==
    \A l \in Locks : \A x, y \in lock[l] :
        x[1] # y[1] => x[2] = "r" /\ y[2] = "r"

HeldOnly == \A p \in Procs : \A l \in Locks : \A x \in lock[l] : x[1] = p => May(p, l)
HeldAll == \A p \in Procs : Must(p)

LInv == Types /\ Compatible /\ HeldOnly /\ HeldAll

LEMMA LockConstants ==
    /\ FREE \in Locks /\ DATEND \in Locks /\ IDXEND \in Locks
    /\ Chains \subseteq Locks
    /\ FREE # IDXEND /\ FREE # DATEND /\ IDXEND # DATEND
    /\ \A k \in Keys : Hash[k] \in Chains
    /\ \A l \in Chains : l # FREE /\ l # DATEND /\ l # IDXEND
BY HashAssumption, LocksAssumption DEF Locks

-----------------------------------------------------------------------------

\* A step that leaves the locks alone, between places where the same locks
\* are held.
LEMMA Moves ==
    ASSUME LInv, NEW p \in Procs, NEW to \in PC,
           pc' = [pc EXCEPT ![p] = to], lock' = lock, op' = op,
           pc[p] \in InChain <=> to \in InChain,
           to \in OnChain => pc[p] \in OnChain \/ (pc[p] = "find" /\ op[p].kind # "fetch"),
           to = "find" => pc[p] = "find",
           to = "find_lock" => pc[p] = "find_lock",
           pc[p] \in OnFreeList <=> to \in OnFreeList,
           pc[p] \in InNext <=> to \in InNext,
           pc[p] = "append_dat" <=> to = "append_dat",
           pc[p] = "append_idx" <=> to = "append_idx"
    PROVE  LInv'
<1>1. Types'
    BY DEF LInv, Types
<1>2. Compatible'
    BY DEF LInv, Compatible
<1>3. HeldOnly'
    BY DEF LInv, Types, HeldOnly, May, Chain
<1>4. HeldAll'
    BY DEF LInv, Types, HeldAll, Must, Chain
<1> QED BY <1>1, <1>2, <1>3, <1>4 DEF LInv

\* A step that takes the free list or the end of a file.
LEMMA Takes ==
    ASSUME LInv, NEW p \in Procs, NEW to \in PC, NEW l \in {FREE, DATEND, IDXEND},
           NEW m \in {"r", "w"}, Lock(p, l, m),
           pc' = [pc EXCEPT ![p] = to], op' = op,
           pc[p] \in InChain <=> to \in InChain,
           to \in OnChain => pc[p] \in OnChain,
           to # "find" /\ to # "find_lock",
           pc[p] \notin OnFreeList \cup InNext \cup {"append_dat", "append_idx"},
           to \in OnFreeList \cup InNext => l = FREE,
           to \in OnFreeList => m = "w",
           to \in InNext => m = "r",
           to = "append_dat" => l = DATEND /\ m = "w",
           to = "append_idx" => l = IDXEND /\ m = "w",
           l = FREE => to \in OnFreeList \cup InNext,
           l = DATEND => to = "append_dat",
           l = IDXEND => to = "append_idx"
    PROVE  LInv'
<1> USE LockConstants
<1>a. l \in Locks
    OBVIOUS
<1>b. lock \in [Locks -> SUBSET (Procs \X {"r", "w"})]
    BY DEF LInv, Types
<1>c. lock' = [lock EXCEPT ![l] = @ \cup {<<p, m>>}]
    BY DEF Lock, Grant
<1>d. \A k \in Locks : lock'[k] = IF k = l THEN lock[l] \cup {<<p, m>>} ELSE lock[k]
    BY <1>a, <1>b, <1>c
<1>1. Types'
    <2>1. lock' \in [Locks -> SUBSET (Procs \X {"r", "w"})]
        BY <1>a, <1>b, <1>c
    <2> QED BY <2>1 DEF LInv, Types
<1>2. Compatible'
    <2> SUFFICES ASSUME NEW k \in Locks, NEW x \in lock'[k], NEW y \in lock'[k],
                        x[1] # y[1]
                 PROVE  x[2] = "r" /\ y[2] = "r"
        BY DEF Compatible
    <2>1. CASE k # l
        BY <2>1, <1>d DEF LInv, Compatible
    <2>2. CASE k = l
        <3>1. CASE x = <<p, m>>
            BY <2>2, <3>1, <1>d DEF Lock
        <3>2. CASE y = <<p, m>>
            BY <2>2, <3>2, <1>d DEF Lock
        <3>3. CASE x \in lock[l] /\ y \in lock[l]
            BY <3>3, <1>a DEF LInv, Compatible
        <3> QED BY <2>2, <3>1, <3>2, <3>3, <1>d
    <2> QED BY <2>1, <2>2
<1>3. HeldOnly'
    <2> SUFFICES ASSUME NEW q \in Procs, NEW k \in Locks, NEW x \in lock'[k], x[1] = q
                 PROVE  May(q, k)'
        BY DEF HeldOnly
    <2>1. CASE x \in lock[k]
        <3>1. May(q, k)
            BY <2>1 DEF LInv, HeldOnly
        <3> QED BY <3>1 DEF May, LInv, Types, Chain
    <2>2. CASE k = l /\ x = <<p, m>>
        BY <2>2 DEF May, LInv, Types
    <2> QED BY <2>1, <2>2, <1>d
<1>4. HeldAll'
    <2> SUFFICES ASSUME NEW q \in Procs PROVE Must(q)'
        BY DEF HeldAll
    <2>1. Must(q)
        BY DEF LInv, HeldAll
    <2>2. \A k \in Locks : lock[k] \subseteq lock'[k]
        BY <1>d
    <2>3. pc'[q] \in InChain => Chain(q)' = Chain(q) /\ Chain(q) \in Locks
        BY <1>1 DEF Types, Chain
    <2>4. CASE q # p
        BY <2>1, <2>2, <2>3, <2>4 DEF Must, LInv, Types, InChain
    <2>5. CASE q = p
        BY <2>1, <2>2, <2>3, <2>5, <1>d DEF Must, LInv, Types, InChain
    <2> QED BY <2>4, <2>5
<1> QED BY <1>1, <1>2, <1>3, <1>4 DEF LInv

\* A step that gives it back, and leaves the call perhaps.
LEMMA Drops ==
    ASSUME LInv, NEW p \in Procs, NEW to \in PC, NEW l \in {FREE, DATEND, IDXEND},
           Unlock(p, l), pc' = [pc EXCEPT ![p] = to],
           \/ op' = op
           \/ /\ to \notin InChain \cup {"find_lock"}
              /\ DOMAIN op' = Procs /\ \A q \in Procs \ {p} : op'[q] = op[q],
           pc[p] \in InChain <=> to \in InChain,
           to \in OnChain => pc[p] \in OnChain,
           to # "find" /\ to # "find_lock",
           to \notin OnFreeList \cup InNext \cup {"append_dat", "append_idx"},
           pc[p] \in OnFreeList \cup InNext => l = FREE,
           pc[p] = "append_dat" => l = DATEND,
           pc[p] = "append_idx" => l = IDXEND
    PROVE  LInv'
<1> USE LockConstants
<1>a. l \in Locks
    OBVIOUS
<1>b. lock \in [Locks -> SUBSET (Procs \X {"r", "w"})]
    BY DEF LInv, Types
<1>c. lock' = [lock EXCEPT ![l] = {x \in @ : x[1] # p}]
    BY DEF Unlock
<1>d. \A k \in Locks : lock'[k] = IF k = l THEN {x \in lock[l] : x[1] # p} ELSE lock[k]
    BY <1>a, <1>b, <1>c
<1>1. Types'
    <2>1. lock' \in [Locks -> SUBSET (Procs \X {"r", "w"})]
        BY <1>a, <1>b, <1>c
    <2> QED BY <2>1 DEF LInv, Types
<1>2. Compatible'
    <2>1. \A k \in Locks : lock'[k] \subseteq lock[k]
        BY <1>d
    <2> QED BY <2>1 DEF LInv, Compatible
<1>3. HeldOnly'
    <2> SUFFICES ASSUME NEW q \in Procs, NEW k \in Locks, NEW x \in lock'[k], x[1] = q
                 PROVE  May(q, k)'
        BY DEF HeldOnly
    <2>1. x \in lock[k] /\ (k = l => q # p)
        <3>1. CASE k = l
            <4>1. x \in {z \in lock[l] : z[1] # p}
                BY <3>1, <1>a, <1>d
            <4> QED BY <3>1, <4>1
        <3>2. CASE k # l
            BY <3>2, <1>d
        <3> QED BY <3>1, <3>2
    <2>2. May(q, k)
        BY <2>1 DEF LInv, HeldOnly
    <2> QED BY <2>1, <2>2 DEF May, LInv, Types, Chain
<1>4. HeldAll'
    <2> SUFFICES ASSUME NEW q \in Procs PROVE Must(q)'
        BY DEF HeldAll
    <2>1. Must(q)
        BY DEF LInv, HeldAll
    <2>2. \A k \in Locks, n \in {"r", "w"} :
              <<q, n>> \in lock[k] /\ (k # l \/ q # p) => <<q, n>> \in lock'[k]
        BY <1>d
    <2>3. pc'[q] \in InChain => Chain(q)' = Chain(q) /\ Chain(q) \in Chains
        BY <1>1 DEF Types, Chain, LInv
    <2>4. CASE q # p
        BY <2>1, <2>2, <2>3, <2>4 DEF Must, LInv, Types, InChain
    <2>5. CASE q = p
        BY <2>1, <2>2, <2>3, <2>5 DEF Must, LInv, Types, InChain
    <2> QED BY <2>4, <2>5
<1> QED BY <1>1, <1>2, <1>3, <1>4 DEF LInv

\* A step outside the calls, or into one: no lock is held before or after.
LEMMA Outside ==
    ASSUME LInv, NEW p \in Procs, NEW to \in PC,
           pc' = [pc EXCEPT ![p] = to], lock' = lock,
           DOMAIN op' = Procs, \A q \in Procs \ {p} : op'[q] = op[q],
           pc[p] \notin InChain \cup OnFreeList \cup InNext \cup {"append_dat", "append_idx"},
           to \notin InChain \cup OnFreeList \cup InNext \cup {"append_dat", "append_idx"},
           to = "find_lock" => op'[p].key \in Keys
    PROVE  LInv'
<1>1. Types'
    BY DEF LInv, Types
<1>2. Compatible'
    BY DEF LInv, Compatible
<1>3. HeldOnly'
    BY DEF LInv, Types, HeldOnly, May, Chain
<1>4. HeldAll'
    BY DEF LInv, Types, HeldAll, Must, Chain, InChain
<1> QED BY <1>1, <1>2, <1>3, <1>4 DEF LInv

LEMMA FindLock ==
    ASSUME LInv, NEW p \in Procs, find_lock(p)
    PROVE  LInv'
<1> DEFINE l == Chain(p)
           m == IF op[p].kind = "fetch" THEN "r" ELSE "w"
<1> USE LockConstants
<1>a. l \in Locks /\ l \in Chains /\ m \in {"r", "w"}
    BY DEF find_lock, Goto, LInv, Types, Chain
<1>b. lock \in [Locks -> SUBSET (Procs \X {"r", "w"})]
    BY DEF LInv, Types
<1>c. lock' = [lock EXCEPT ![l] = @ \cup {<<p, m>>}]
    BY DEF find_lock, Lock, Grant
<1>d. \A k \in Locks : lock'[k] = IF k = l THEN lock[l] \cup {<<p, m>>} ELSE lock[k]
    BY <1>a, <1>b, <1>c
<1>e. pc[p] = "find_lock" /\ pc' = [pc EXCEPT ![p] = "find"] /\ op' = op
    BY DEF find_lock, Goto
<1>f. \A x \in lock[l] : x[1] = p \/ (m = "r" /\ x[2] = "r")
    BY DEF find_lock, Lock
<1> HIDE DEF l, m
<1>1. Types'
    <2>1. lock' \in [Locks -> SUBSET (Procs \X {"r", "w"})]
        BY <1>a, <1>b, <1>c
    <2> QED BY <1>e, <2>1 DEF LInv, Types, PC
<1>2. Compatible'
    <2> SUFFICES ASSUME NEW k \in Locks, NEW x \in lock'[k], NEW y \in lock'[k],
                        x[1] # y[1]
                 PROVE  x[2] = "r" /\ y[2] = "r"
        BY DEF Compatible
    <2>1. CASE k # l
        BY <2>1, <1>d DEF LInv, Compatible
    <2>2. CASE k = l
        <3>1. CASE x = <<p, m>>
            BY <2>2, <3>1, <1>d, <1>f
        <3>2. CASE y = <<p, m>>
            BY <2>2, <3>2, <1>d, <1>f
        <3>3. CASE x \in lock[l] /\ y \in lock[l]
            BY <3>3, <1>a DEF LInv, Compatible
        <3> QED BY <2>2, <3>1, <3>2, <3>3, <1>d
    <2> QED BY <2>1, <2>2
<1>3. HeldOnly'
    <2> SUFFICES ASSUME NEW q \in Procs, NEW k \in Locks, NEW x \in lock'[k], x[1] = q
                 PROVE  May(q, k)'
        BY DEF HeldOnly
    <2>1. CASE x \in lock[k]
        <3>1. May(q, k)
            BY <2>1 DEF LInv, HeldOnly
        <3> QED BY <3>1, <1>e DEF May, LInv, Types, Chain, InChain, OnChain,
                                  OnFreeList, InNext
    <2>2. CASE k = l /\ x = <<p, m>>
        BY <2>2, <1>a, <1>e DEF May, LInv, Types, Chain, InChain, l
    <2> QED BY <2>1, <2>2, <1>d
<1>4. HeldAll'
    <2> SUFFICES ASSUME NEW q \in Procs PROVE Must(q)'
        BY DEF HeldAll
    <2>1. Must(q)
        BY DEF LInv, HeldAll
    <2>2. \A k \in Locks : lock[k] \subseteq lock'[k]
        BY <1>d
    <2>3. pc'[q] \in InChain => Chain(q)' = Chain(q) /\ Chain(q) \in Locks
        BY <1>1, <1>e DEF Types, Chain
    <2>4. CASE q # p
        BY <2>1, <2>2, <2>3, <2>4, <1>e DEF Must, LInv, Types, InChain
    <2>5. CASE q = p
        <3>1. <<p, m>> \in lock'[Chain(p)] /\ Chain(p)' = Chain(p)
            BY <1>a, <1>d, <1>e DEF l, Chain
        <3>2. pc'[p] = "find"
            BY <1>e DEF LInv, Types
        <3> QED BY <2>5, <3>1, <3>2, <1>a, <1>e
                DEF Must, m, OnChain, OnFreeList, InNext
    <2> QED BY <2>4, <2>5
<1> QED BY <1>1, <1>2, <1>3, <1>4 DEF LInv

LEMMA UnlockChain ==
    ASSUME LInv, NEW p \in Procs, unlock(p)
    PROVE  LInv'
<1> DEFINE l == Chain(p)
<1> USE LockConstants
<1>a. l \in Locks /\ l \in Chains
    BY DEF unlock, Goto, LInv, Types, Chain, InChain
<1>b. lock \in [Locks -> SUBSET (Procs \X {"r", "w"})]
    BY DEF LInv, Types
<1>c. lock' = [lock EXCEPT ![l] = {x \in @ : x[1] # p}]
    BY DEF unlock, Unlock
<1>d. \A k \in Locks : lock'[k] = IF k = l THEN {x \in lock[l] : x[1] # p} ELSE lock[k]
    BY <1>a, <1>b, <1>c
<1>e. /\ pc[p] = "unlock" /\ pc' = [pc EXCEPT ![p] = "idle"]
      /\ op' = [op EXCEPT ![p] = NoOp]
    BY DEF unlock, Goto
<1> HIDE DEF l
<1>1. Types'
    <2>1. lock' \in [Locks -> SUBSET (Procs \X {"r", "w"})]
        BY <1>a, <1>b, <1>c
    <2> QED BY <1>e, <2>1 DEF LInv, Types, PC, InChain, OnChain
<1>2. Compatible'
    <2>1. \A k \in Locks : lock'[k] \subseteq lock[k]
        BY <1>d
    <2> QED BY <2>1 DEF LInv, Compatible
<1>3. HeldOnly'
    <2> SUFFICES ASSUME NEW q \in Procs, NEW k \in Locks, NEW x \in lock'[k], x[1] = q
                 PROVE  May(q, k)'
        BY DEF HeldOnly
    <2>1. x \in lock[k] /\ (k = l => q # p)
        <3>1. CASE k = l
            <4>1. x \in {z \in lock[l] : z[1] # p}
                BY <3>1, <1>a, <1>d
            <4> QED BY <3>1, <4>1
        <3>2. CASE k # l
            BY <3>2, <1>d
        <3> QED BY <3>1, <3>2
    <2>2. May(q, k)
        BY <2>1 DEF LInv, HeldOnly
    <2>3. q # p
        BY <2>1, <2>2, <1>e DEF May, l, OnFreeList, InNext
    <2> QED BY <2>2, <2>3, <1>e DEF May, LInv, Types, Chain
<1>4. HeldAll'
    <2> SUFFICES ASSUME NEW q \in Procs PROVE Must(q)'
        BY DEF HeldAll
    <2>1. Must(q)
        BY DEF LInv, HeldAll
    <2>2. CASE q # p
        <3>1. \A k \in Locks, n \in {"r", "w"} : <<q, n>> \in lock[k] => <<q, n>> \in lock'[k]
            BY <2>2, <1>d
        <3>2. pc'[q] \in InChain => Chain(q)' = Chain(q) /\ Chain(q) \in Locks
            BY <2>2, <1>1, <1>e DEF Types, Chain, LInv
        <3>3. pc'[q] = pc[q] /\ op'[q] = op[q]
            BY <2>2, <1>e DEF LInv, Types
        <3> QED BY <2>1, <3>1, <3>2, <3>3 DEF Must, InChain
    <2>3. CASE q = p
        BY <2>3, <1>e DEF Must, LInv, Types, InChain, OnChain, OnFreeList, InNext
    <2> QED BY <2>2, <2>3
<1> QED BY <1>1, <1>2, <1>3, <1>4 DEF LInv

-----------------------------------------------------------------------------

\* The invariant of the record locks holds in the initial states ...
LEMMA LInvInit ==
    Init => LInv
<1> SUFFICES ASSUME Init PROVE LInv
    OBVIOUS
<1>1. Types
    BY DEF Init, Types, PC, InChain, OnChain
<1>2. Compatible
    BY DEF Init, Compatible
<1>3. HeldOnly
    BY DEF Init, HeldOnly
<1>4. HeldAll
    BY DEF Init, HeldAll, Must, InChain, OnChain, OnFreeList, InNext
<1> QED BY <1>1, <1>2, <1>3, <1>4 DEF LInv

\* ... and every step of every process preserves it.
LEMMA LInvStep ==
    LInv /\ [Next]_vars => LInv'
<1> SUFFICES ASSUME LInv, [Next]_vars PROVE LInv'
    OBVIOUS
<1>s. CASE UNCHANGED vars
    BY <1>s, SMTT(40) DEF LInv, Types, Compatible, HeldOnly, HeldAll, Must, May, Chain, vars
<1>n. ASSUME NEW p \in Procs,
             \/ db_open_create(p) \/ db_open_header(p) \/ db_open(p)
             \/ db_close(p) \/ db_rewind(p)
             \/ \E o \in Ops \cup [kind : {"nextrec"}] : Call(p, o)
             \/ Step(p)
      PROVE  LInv'
    <2>t. pc \in [Procs -> PC] /\ DOMAIN op = Procs
        BY DEF LInv, Types
    <2>1. CASE db_open_create(p)
        BY <2>1, <2>t, Outside DEF db_open_create, Goto, PC, InChain, OnChain,
            OnFreeList, InNext
    <2>2. CASE db_open_header(p)
        BY <2>2, <2>t, Outside DEF db_open_header, Goto, PC, InChain, OnChain,
            OnFreeList, InNext
    <2>3. CASE db_open(p)
        BY <2>3, <2>t, Outside DEF db_open, Goto, PC, InChain, OnChain, OnFreeList,
            InNext
    <2>4. CASE db_close(p)
        BY <2>4, <2>t, Outside DEF db_close, Goto, PC, InChain, OnChain, OnFreeList,
            InNext
    <2>5. CASE db_rewind(p)
        BY <2>5, <2>t, Moves, pc' = [pc EXCEPT ![p] = pc[p]] DEF db_rewind, PC,
            InChain, OnChain, OnFreeList, InNext
    <2>6. ASSUME NEW o \in Ops \cup [kind : {"nextrec"}], Call(p, o)
          PROVE  LInv'
        <3>1. o.kind # "nextrec" => o.key \in Keys
            BY OpsAssumption DEF KV!Op, KV!Flags
        <3> QED BY <2>6, <2>t, <3>1, Outside DEF Call, Goto, PC, InChain, OnChain,
            OnFreeList, InNext
    <2>7. CASE err_dump(p)
        BY <2>7, <2>t, Moves DEF err_dump, Goto, PC, InChain, OnChain, OnFreeList,
            InNext
    <2>8. CASE find_next(p)
        BY <2>8, <2>t, Moves DEF find_next, Goto, PC, InChain, OnChain, OnFreeList,
            InNext
    <2>9. CASE find_hit(p)
        BY <2>9, <2>t, Moves, ZenonT(60) DEF find_hit, Goto, PC, InChain, OnChain, OnFreeList,
            InNext
    <2>10. CASE find_miss(p)
        BY <2>10, <2>t, Moves, ZenonT(60) DEF find_miss, Goto, PC, InChain, OnChain, OnFreeList,
            InNext
    <2>11. CASE readdat(p)
        BY <2>11, <2>t, Moves DEF readdat, Goto, PC, InChain, OnChain, OnFreeList,
            InNext
    <2>12. CASE del_idx(p)
        BY <2>12, <2>t, Moves DEF del_idx, Goto, PC, InChain, OnChain, OnFreeList,
            InNext
    <2>13. CASE del_free(p)
        BY <2>13, <2>t, Moves DEF del_free, Goto, PC, InChain, OnChain, OnFreeList,
            InNext
    <2>14. CASE overwrite(p)
        BY <2>14, <2>t, Moves DEF overwrite, Goto, PC, InChain, OnChain, OnFreeList,
            InNext
    <2>15. CASE reread(p)
        BY <2>15, <2>t, Moves DEF reread, Goto, PC, InChain, OnChain, OnFreeList, InNext
    <2>16. CASE free_next(p)
        BY <2>16, <2>t, Moves DEF free_next, Goto, PC, InChain, OnChain, OnFreeList,
            InNext
    <2>17. CASE free_hit(p)
        BY <2>17, <2>t, Moves DEF free_hit, Goto, PC, InChain, OnChain, OnFreeList,
            InNext
    <2>18. CASE link(p)
        BY <2>18, <2>t, Moves DEF link, Goto, PC, InChain, OnChain, OnFreeList, InNext
    <2>19. CASE next_skip(p)
        BY <2>19, <2>t, Moves DEF next_skip, Goto, PC, InChain, OnChain, OnFreeList,
            InNext
    <2>20. CASE next_key(p)
        BY <2>20, <2>t, Moves DEF next_key, Goto, PC, InChain, OnChain, OnFreeList,
            InNext
    <2>21. CASE del_lock(p)
        BY <2>21, <2>t, Takes, LockConstants DEF del_lock, Goto, PC, InChain, OnChain,
            OnFreeList, InNext
    <2>22. CASE free_lock(p)
        BY <2>22, <2>t, Takes, LockConstants DEF free_lock, Goto, PC, InChain,
            OnChain, OnFreeList, InNext
    <2>23. CASE seek_dat(p)
        BY <2>23, <2>t, Takes, LockConstants DEF seek_dat, Goto, PC, InChain, OnChain,
            OnFreeList, InNext
    <2>24. CASE seek_idx(p)
        BY <2>24, <2>t, Takes, LockConstants DEF seek_idx, Goto, PC, InChain, OnChain,
            OnFreeList, InNext
    <2>25. CASE next_lock(p)
        BY <2>25, <2>t, Takes, LockConstants DEF next_lock, Goto, PC, InChain,
            OnChain, OnFreeList, InNext
    <2>26. CASE del_unlink(p)
        BY <2>26, <2>t, Drops, LockConstants DEF del_unlink, Goto, PC, InChain,
            OnChain, OnFreeList, InNext
    <2>27. CASE free_miss(p)
        BY <2>27, <2>t, Drops, LockConstants DEF free_miss, Goto, PC, InChain,
            OnChain, OnFreeList, InNext
    <2>28. CASE free_take(p)
        BY <2>28, <2>t, Drops, LockConstants DEF free_take, Goto, PC, InChain,
            OnChain, OnFreeList, InNext
    <2>29. CASE write_dat(p)
        BY <2>29, <2>t, Drops, LockConstants DEF write_dat, Goto, PC, InChain,
            OnChain, OnFreeList, InNext
    <2>30. CASE write_idx(p)
        BY <2>30, <2>t, Drops, LockConstants DEF write_idx, Goto, PC, InChain,
            OnChain, OnFreeList, InNext
    <2>31. CASE next_dat(p)
        BY <2>31, <2>t, Drops, LockConstants DEF next_dat, NextReturns, Goto, PC,
            InChain, OnChain, OnFreeList, InNext
    <2>32. CASE next_eof(p)
        BY <2>32, <2>t, Drops, LockConstants DEF next_eof, NextReturns, Goto, PC,
            InChain, OnChain, OnFreeList, InNext
    <2>33. CASE find_lock(p)
        BY <2>33, FindLock
    <2>34. CASE unlock(p)
        BY <2>34, UnlockChain
    <2> QED BY <1>n, <2>1, <2>2, <2>3, <2>4, <2>5, <2>6, <2>7, <2>8, <2>9, <2>10,
        <2>11, <2>12, <2>13, <2>14, <2>15, <2>16, <2>17, <2>18, <2>19, <2>20, <2>21,
        <2>22, <2>23, <2>24, <2>25, <2>26, <2>27, <2>28, <2>29, <2>30, <2>31, <2>32,
        <2>33, <2>34 DEF Step
<1> QED BY <1>s, <1>n DEF Next

\* The record locks exclude what they are meant to exclude, for any number of
\* processes and chains.
THEOREM ExclusionHolds ==
    Spec => []Exclusion
<1>1. LInv => Exclusion
    <2> SUFFICES ASSUME LInv, NEW p \in Procs, NEW q \in Procs, p # q
                 PROVE  /\ pc[p] \in OnFreeList => pc[q] \notin OnFreeList \cup InNext
                        /\ pc[p] \in OnChain /\ pc[q] \in OnChain \cup {"find", "readdat"} =>
                              Chain(p) # Chain(q)
                        /\ ~(pc[p] = "append_dat" /\ pc[q] = "append_dat")
                        /\ ~(pc[p] = "append_idx" /\ pc[q] = "append_idx")
        BY DEF Exclusion, InNext
    <2> USE LockConstants
    <2>1. Must(p) /\ Must(q)
        BY DEF LInv, HeldAll
    <2>2. ASSUME NEW l \in Locks, <<p, "w">> \in lock[l]
          PROVE  <<q, "w">> \notin lock[l] /\ <<q, "r">> \notin lock[l]
        <3>1. \A x, y \in lock[l] : x[1] # y[1] => x[2] = "r" /\ y[2] = "r"
            BY DEF LInv, Compatible
        <3> QED BY <2>2, <3>1
    <2>3. pc[p] \in OnFreeList => pc[q] \notin OnFreeList \cup InNext
        BY <2>1, <2>2 DEF Must
    <2>4. ASSUME pc[p] \in OnChain, pc[q] \in OnChain \cup {"find", "readdat"}
          PROVE  Chain(p) # Chain(q)
        <3>1. Chain(p) \in Locks
            BY <2>4 DEF LInv, Types, Chain, InChain
        <3>2. <<p, "w">> \in lock[Chain(p)]
            BY <2>1, <2>4 DEF Must
        <3>3. \E m \in {"r", "w"} : <<q, m>> \in lock[Chain(q)]
            BY <2>1, <2>4 DEF Must, InChain
        <3> QED BY <3>1, <3>2, <3>3, <2>2
    <2>5. ~(pc[p] = "append_dat" /\ pc[q] = "append_dat")
        BY <2>1, <2>2 DEF Must
    <2>6. ~(pc[p] = "append_idx" /\ pc[q] = "append_idx")
        BY <2>1, <2>2 DEF Must
    <2> QED BY <2>3, <2>4, <2>5, <2>6
<1> QED BY <1>1, LInvInit, LInvStep, PTL DEF Spec

\* Whoever waits for a record lock holds only locks that come before it, so no
\* number of processes can wait for each other in a circle.
THEOREM LockOrderHolds ==
    Spec => []LockOrder
<1>1. LInv => LockOrder
    <2> SUFFICES ASSUME LInv, NEW p \in Procs, pc[p] \in Waiting,
                        NEW l \in Locks, NEW x \in lock[l], x[1] = p
                 PROVE  Rank(l) < Rank(Wants(p))
        BY DEF LockOrder
    <2> USE LockConstants
    <2>1. May(p, l)
        BY DEF LInv, HeldOnly
    <2>2. pc[p] # "find_lock" /\ pc[p] # "next_lock" /\ l \in Chains
        BY <2>1 DEF May, Waiting, InChain, OnChain, OnFreeList, InNext
    <2>3. Rank(l) = 1
        BY <2>2 DEF Rank
    <2>4. Wants(p) \in {FREE, DATEND, IDXEND}
        BY <2>2 DEF Wants, Waiting
    <2>5. Rank(Wants(p)) > 1
        BY <2>4 DEF Rank
    <2> QED BY <2>3, <2>5
<1> QED BY <1>1, LInvInit, LInvStep, PTL DEF Spec
=============================================================================
