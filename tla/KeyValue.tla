------------------------------ MODULE KeyValue ------------------------------
(***************************************************************************)
(* What apue.3e/db promises to the processes that share a database: every  *)
(* fetch, store and delete takes effect at one instant between its call    *)
(* and its return, on one map from keys to values.  A sequential read      *)
(* (db_nextrec) is weaker: it returns the value of a key, or the one that  *)
(* a store in progress is about to give it.                                *)
(***************************************************************************)
EXTENDS Integers

CONSTANTS Procs, Keys, Values, NONE, NoOp, EOF

VARIABLES
    map,    \* the value of each key, NONE when it is not stored
    op,     \* the call each process is in, or NoOp
    ret     \* what the last call of each process returned

vars == <<map, op, ret>>

Flags == {"insert", "replace", "store"}
Op == [kind : {"fetch", "delete"}, key : Keys]
          \cup [kind : {"store"}, key : Keys, val : Values, flag : Flags]
          \cup [kind : {"nextrec"}]

Changed(k, v) == [map EXCEPT ![k] = v]

\* what a call may return, and the map it leaves
Outcome(o, r, m) ==
    CASE o.kind = "fetch" -> r = map[o.key] /\ m = map
      [] o.kind = "delete" -> /\ r = (IF map[o.key] = NONE THEN -1 ELSE 0)
                              /\ m = Changed(o.key, NONE)
      [] o.kind = "store" ->
           \/ map[o.key] = NONE /\ o.flag = "replace" /\ r = -1 /\ m = map
           \/ map[o.key] # NONE /\ o.flag = "insert" /\ r = 1 /\ m = map
           \/ /\ IF map[o.key] = NONE THEN o.flag # "replace"
                                      ELSE o.flag # "insert"
              /\ r = 0 /\ m = Changed(o.key, o.val)
      [] o.kind = "nextrec" ->
           /\ m = map
           /\ \/ r = EOF
              \/ \E k \in Keys : r = <<k, map[k]>> /\ map[k] # NONE
              \/ \E q \in Procs :
                   op[q] # NoOp /\ op[q].kind = "store"
                                /\ r = <<op[q].key, op[q].val>>

Init ==
    /\ map \in [Keys -> Values \cup {NONE}]
    /\ op = [p \in Procs |-> NoOp]
    /\ ret = [p \in Procs |-> NONE]

\* db_open with O_CREAT and O_TRUNC, before any process uses the database
Create ==
    /\ \A p \in Procs : op[p] = NoOp
    /\ map' = [k \in Keys |-> NONE]
    /\ UNCHANGED <<op, ret>>

Call(p) ==
    /\ op[p] = NoOp
    /\ \E o \in Op : op' = [op EXCEPT ![p] = o]
    /\ ret' = [ret EXCEPT ![p] = NONE]
    /\ UNCHANGED map

Return(p) ==
    /\ op[p] # NoOp
    /\ Outcome(op[p], ret'[p], map')
    /\ ret' = [ret EXCEPT ![p] = ret'[p]]
    /\ op' = [op EXCEPT ![p] = NoOp]

Next == Create \/ \E p \in Procs : Call(p) \/ Return(p)

Spec == Init /\ [][Next]_vars
=============================================================================
