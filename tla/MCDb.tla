-------------------------------- MODULE MCDb --------------------------------
(***************************************************************************)
(* Two processes; keys a and c share a hash chain, b has its own; values   *)
(* v1 and v2 have the same length, w another.  The database is created, or *)
(* was left by an earlier run: one stored a, b and c and deleted c; the    *)
(* other stored a, b, b longer, c, and deleted b, leaving both of b's      *)
(* records on the free list.                                               *)
(***************************************************************************)
EXTENDS Db

CONSTANTS a, b, c, v1, v2, w, c1, c2

MCHash == [k \in Keys |-> IF k = b THEN c2 ELSE c1]
MCKeyLen == [k \in Keys |-> 1]
MCDatLen == [v \in Values |-> IF v = w THEN 2 ELSE 1]

IdxRec(k, next, off, len) ==
    [ptr |-> next, key |-> k, klen |-> 1, datoff |-> off, datlen |-> len]
Heads(x, y, f) ==
    [l \in Chains \cup {FREE} |-> CASE l = c1 -> x [] l = c2 -> y [] OTHER -> f]
MCSaved ==
    {[file |-> "ready", head |-> Heads(1, 2, 3),
      idx |-> <<IdxRec(a, 0, 1, 1), IdxRec(b, 0, 2, 2), IdxRec(BLANK, 0, 3, 1)>>,
      dat |-> <<v1, w, BLANK>>],
     [file |-> "ready", head |-> Heads(4, 0, 3),
      idx |-> <<IdxRec(a, 0, 1, 1), IdxRec(BLANK, 0, 2, 1), IdxRec(BLANK, 2, 3, 2),
                IdxRec(c, 1, 4, 2)>>,
      dat |-> <<v2, BLANK, BLANK, w>>]}

Store(k, v, f) == [kind |-> "store", key |-> k, val |-> v, flag |-> f]
MCOps == [kind : {"fetch"}, key : {a}] \cup [kind : {"delete"}, key : {a, b}]
         \cup {Store(a, v1, "store"), Store(c, v1, "insert"),
               Store(c, w, "store"), Store(b, v1, "replace")}
=============================================================================
