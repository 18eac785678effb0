--------------------------------- MODULE Db ---------------------------------
(***************************************************************************)
(* apue.3e/db/db.c: a database of an index file and a data file, shared by *)
(* processes through record locks.  The index file holds the pointer of    *)
(* the free list, a pointer for each hash chain, and index records, each   *)
(* with a pointer of its own; a record is on one chain or on the free      *)
(* list.  Records are only ever appended or reused.                        *)
(*                                                                         *)
(* A step is one read or write of a file, together with the lock taken     *)
(* just before it or released just after it.  Offsets are record numbers   *)
(* (0 ends a list); a key or a value is its identity and its length.       *)
(***************************************************************************)
EXTENDS Integers, Sequences, FiniteSets, Functions

CONSTANTS
    Procs, Keys, Values,
    Chains,             \* the hash table: NHASH_DEF chain pointers
    Hash,               \* _db_hash, by key
    KeyLen, DatLen,     \* strlen of a key, of a value
    Saved,              \* databases earlier runs may have left on disk
    Ops,                \* the calls that are made, besides db_nextrec
    MaxCalls,           \* bound: how many of them, db_rewinds and db_closes are made
    FREE,               \* the free list pointer, at FREE_OFF
    IDXEND, DATEND,     \* the bytes locked to append to each file
    BLANK,              \* a deleted key or value: all spaces
    NONE, NoOp, EOF

ASSUME HashAssumption == Hash \in [Keys -> Chains]
ASSUME LocksAssumption ==
    /\ FREE \notin Chains /\ IDXEND \notin Chains /\ DATEND \notin Chains
    /\ FREE # IDXEND /\ FREE # DATEND /\ IDXEND # DATEND

Locks == Chains \cup {FREE, IDXEND, DATEND}

VARIABLES
    file,       \* the index file: "none", "empty", or "ready" (hash table written)
    head,       \* the pointers in front of the index file: free list and chains
    idx,        \* index records: pointer, key, its length, data offset and length
    dat,        \* data records
    lock,       \* record locks held: sets of <<process, "r" or "w">>
    pc,         \* where each process is
    h,          \* the DB structure of each process, with the caller's offsets
    pos,        \* each process's file offset, for db_nextrec; 0 = elsewhere
    op, ret,    \* the call each process is in, what its last one returned
    calls,
    map,        \* history: what each chain said when it was last unlocked
    scan        \* history: since db_rewind, keys returned and keys left alone

files == <<file, head, idx, dat>>
vars == <<files, lock, pc, h, pos, op, ret, calls, map, scan>>

KV == INSTANCE KeyValue

ASSUME OpsAssumption == Ops \subseteq KV!Op

Goto(p, from, to) == pc[p] = from /\ pc' = [pc EXCEPT ![p] = to]

\* off: idxoff, the record in hand; ptroff: the pointer that led to it;
\* ptrval: its own pointer; top: the head of the chain, read by db_store
NewHandle == [off |-> 0, ptroff |-> FREE, ptrval |-> 0, top |-> 0,
              datoff |-> 0, res |-> NONE]

Chain(p) == Hash[op[p].key]
Record(p) == idx[h[p].off]

\* writew_lock, readw_lock (waiting) and un_lock
Grant(p, l, mode) == lock' = [lock EXCEPT ![l] = @ \cup {<<p, mode>>}]
\* mutant: does not wait
LockNoWait(p, l, mode) == Grant(p, l, mode)
Lock(p, l, mode) ==
    /\ \A x \in lock[l] : x[1] = p \/ (mode = "r" /\ x[2] = "r")
    /\ Grant(p, l, mode)
Unlock(p, l) == lock' = [lock EXCEPT ![l] = {x \in @ : x[1] # p}]

db_writeptr(l, v) ==
    \/ l \in DOMAIN head /\ head' = [head EXCEPT ![l] = v] /\ UNCHANGED idx
    \/ l \in DOMAIN idx /\ idx' = [idx EXCEPT ![l].ptr = v] /\ UNCHANGED head

\* the records that follow pointer o, as the files stand
List(o) ==
    LET f[n \in 0..Len(idx), x \in 0..Len(idx)] ==
            IF x = 0 \/ n = 0 THEN <<>> ELSE <<x>> \o f[n - 1, idx[x].ptr]
    IN  f[Len(idx), o]

\* what a search of k's chain would find
Lookup(k) ==
    LET l == List(head[Hash[k]])
        at == {n \in DOMAIN l : idx[l[n]].key = k}
    IN  IF at = {} THEN NONE
        ELSE dat[idx[l[CHOOSE n \in at : \A m \in at : n <= m]].datoff]

Busy(k) == {p \in Procs : op[p] # NoOp /\ op[p].kind \in {"store", "delete"}
                                       /\ op[p].key = k}

-----------------------------------------------------------------------------
(* db_open, db_close, db_rewind, and entering a call *)

NewScan == [left |-> {k \in Keys : map[k] # NONE /\ Busy(k) = {}},
            seen |-> <<>>]

Init ==
    /\ \E s \in Saved \cup {[file |-> "none", idx |-> <<>>, dat |-> <<>>,
                             head |-> [l \in Chains \cup {FREE} |-> 0]]} :
          /\ file = s.file /\ head = s.head /\ idx = s.idx /\ dat = s.dat
    /\ map = [k \in Keys |-> Lookup(k)]
    /\ lock = [l \in Locks |-> {}]
    /\ pc = [p \in Procs |-> "closed"]
    /\ h = [p \in Procs |-> NewHandle]
    /\ pos = [p \in Procs |-> 0]
    /\ op = [p \in Procs |-> NoOp]
    /\ ret = [p \in Procs |-> NONE]
    /\ calls = 0
    /\ scan = [p \in Procs |-> [left |-> {}, seen |-> <<>>]]

\* O_CREAT | O_TRUNC: open() empties both files.  Bound on the environment:
\* nobody truncates a database another process has open.
db_open_create(p) ==
    /\ Goto(p, "closed", "header")
    /\ \A q \in Procs : pc[q] \in {"closed", "header"}
    /\ file' = "empty" /\ idx' = <<>> /\ dat' = <<>>
    /\ head' = [l \in DOMAIN head |-> 0]
    /\ map' = [k \in Keys |-> NONE]
    /\ UNCHANGED <<lock, h, pos, op, ret, calls, scan>>

\* the hash table is written under a lock of the whole index file, once
db_open_header(p) ==
    /\ Goto(p, "header", "idle")
    /\ \A l \in Locks \ {DATEND} : lock[l] = {}
    /\ file' = "ready"
    /\ head' = IF file = "empty" THEN [l \in DOMAIN head |-> 0] ELSE head
    /\ pos' = [pos EXCEPT ![p] = 1]
    /\ scan' = [scan EXCEPT ![p] = NewScan]
    /\ UNCHANGED <<idx, dat, lock, h, op, ret, calls, map>>

\* without O_CREAT; the call fails when there is no file
db_open(p) ==
    /\ Goto(p, "closed", "idle")
    /\ file # "none"
    /\ pos' = [pos EXCEPT ![p] = 1]
    /\ scan' = [scan EXCEPT ![p] = NewScan]
    /\ UNCHANGED <<files, lock, h, op, ret, calls, map>>

db_close(p) ==
    /\ Goto(p, "idle", "closed")
    /\ calls < MaxCalls /\ calls' = calls + 1
    /\ pos' = [pos EXCEPT ![p] = 0]
    /\ scan' = [scan EXCEPT ![p] = [left |-> {}, seen |-> <<>>]]
    /\ UNCHANGED <<files, lock, h, op, ret, map>>

db_rewind(p) ==
    /\ pc[p] = "idle"
    /\ calls < MaxCalls /\ calls' = calls + 1
    /\ pos' = [pos EXCEPT ![p] = 1]
    /\ scan' = [scan EXCEPT ![p] = NewScan]
    /\ UNCHANGED <<files, lock, pc, h, op, ret, map>>

\* db_fetch, db_delete, db_store or db_nextrec is called.  db_nextrec goes on
\* from the file offset: its caller must not have used the handle otherwise.
\* Bound: the caller stops at the end of the file, until a db_rewind.
Call(p, o) ==
    /\ Goto(p, "idle", IF o.kind = "nextrec" THEN "next_lock" ELSE "find_lock")
    /\ o.kind = "nextrec" => pos[p] # 0
    /\ IF o.kind = "nextrec" THEN calls' = calls
       ELSE calls < MaxCalls /\ calls' = calls + 1
    /\ op' = [op EXCEPT ![p] = o]
    /\ ret' = [ret EXCEPT ![p] = NONE]
    /\ pos' = [pos EXCEPT ![p] = IF o.kind = "nextrec" THEN @ ELSE 0]
    /\ scan' = IF o.kind \in {"store", "delete"}
               THEN [q \in Procs |-> [scan[q] EXCEPT !.left = @ \ {o.key}]]
               ELSE scan
    /\ UNCHANGED <<files, lock, h, map>>

\* err_dump: a search of an index file that has no hash table yet
err_dump(p) ==
    /\ Goto(p, "find_lock", "dumped")
    /\ file = "empty"
    /\ UNCHANGED <<files, lock, h, pos, op, ret, calls, map, scan>>

-----------------------------------------------------------------------------
(* _db_find_and_lock *)

find_lock(p) ==
    /\ Goto(p, "find_lock", "find")
    /\ file = "ready"
    /\ Lock(p, Chain(p), IF op[p].kind = "fetch" THEN "r" ELSE "w")
    /\ h' = [h EXCEPT ![p].off = head[Chain(p)], ![p].ptroff = Chain(p)]
    /\ UNCHANGED <<files, pos, op, ret, calls, map, scan>>

find_next(p) ==
    /\ pc[p] = "find" /\ h[p].off # 0
    /\ Record(p).key # op[p].key
    /\ h' = [h EXCEPT ![p].off = Record(p).ptr, ![p].ptroff = h[p].off]
    /\ UNCHANGED <<files, lock, pc, pos, op, ret, calls, map, scan>>

\* the record is found: db_fetch reads its data, db_delete deletes it,
\* db_store refuses, overwrites the data, or deletes it to append a new one
find_hit(p) ==
    /\ pc[p] = "find" /\ h[p].off # 0
    /\ Record(p).key = op[p].key
    /\ Goto(p, "find",
            CASE op[p].kind = "fetch" -> "readdat"
              [] op[p].kind = "delete" -> "del_lock"
              [] op[p].kind = "store" /\ op[p].flag = "insert" -> "unlock"
              [] OTHER -> IF DatLen[op[p].val] = Record(p).datlen
                          THEN "overwrite" ELSE "del_lock")
    /\ h' = [h EXCEPT ![p].ptrval = Record(p).ptr, ![p].datoff = Record(p).datoff,
                      ![p].res = IF op[p].kind = "store" /\ op[p].flag = "insert"
                                 THEN 1 ELSE 0]
    /\ UNCHANGED <<files, lock, pos, op, ret, calls, map, scan>>

\* no record: an error, or db_store goes on to insert one
find_miss(p) ==
    LET insert == op[p].kind = "store" /\ op[p].flag # "replace" IN
    /\ h[p].off = 0
    /\ Goto(p, "find", IF insert THEN "free_lock" ELSE "unlock")
    /\ h' = [h EXCEPT ![p].top = IF insert THEN head[Chain(p)] ELSE 0,
                      ![p].res = CASE insert -> 0
                                   [] op[p].kind = "fetch" -> NONE
                                   [] OTHER -> -1]
    /\ UNCHANGED <<files, lock, pos, op, ret, calls, map, scan>>

\* _db_readdat for db_fetch
readdat(p) ==
    /\ Goto(p, "readdat", "unlock")
    /\ h' = [h EXCEPT ![p].res = dat[h[p].datoff]]
    /\ UNCHANGED <<files, lock, pos, op, ret, calls, map, scan>>

\* the chain is unlocked and the call returns
unlock(p) ==
    /\ Goto(p, "unlock", "idle")
    /\ Unlock(p, Chain(p))
    /\ op' = [op EXCEPT ![p] = NoOp]
    /\ ret' = [ret EXCEPT ![p] = h[p].res]
    /\ h' = [h EXCEPT ![p] = NewHandle]
    /\ map' = [k \in Keys |-> IF Hash[k] = Chain(p) THEN Lookup(k) ELSE map[k]]
    /\ UNCHANGED <<files, pos, calls, scan>>

-----------------------------------------------------------------------------
(* _db_dodelete *)

\* the free list is locked, the data record is written over with blanks
del_lock(p) ==
    /\ Goto(p, "del_lock", "del_idx")
    /\ Lock(p, FREE, "w")
    /\ dat' = [dat EXCEPT ![h[p].datoff] = BLANK]
    /\ UNCHANGED <<file, head, idx, h, pos, op, ret, calls, map, scan>>

\* so is the key, in a record that now points to the free list
del_idx(p) ==
    /\ Goto(p, "del_idx", "del_free")
    /\ idx' = [idx EXCEPT ![h[p].off].key = BLANK, ![h[p].off].ptr = head[FREE]]
    /\ UNCHANGED <<file, head, dat, lock, h, pos, op, ret, calls, map, scan>>

\* the free list starts with the record
del_free(p) ==
    /\ Goto(p, "del_free", "del_unlink")
    /\ db_writeptr(FREE, h[p].off)
    /\ UNCHANGED <<file, dat, lock, h, pos, op, ret, calls, map, scan>>

\* mutant: the free list stays locked
del_unlink_locked(p) ==
    /\ Goto(p, "del_unlink", IF op[p].kind = "delete" THEN "unlock" ELSE "reread")
    /\ db_writeptr(h[p].ptroff, h[p].ptrval)
    /\ UNCHANGED <<file, dat, lock, h, pos, op, ret, calls, map, scan>>

\* the pointer that led to the record skips it
del_unlink(p) ==
    /\ Goto(p, "del_unlink", IF op[p].kind = "delete" THEN "unlock" ELSE "reread")
    /\ db_writeptr(h[p].ptroff, h[p].ptrval)
    /\ Unlock(p, FREE)
    /\ UNCHANGED <<file, dat, h, pos, op, ret, calls, map, scan>>

-----------------------------------------------------------------------------
(* db_store *)

\* same length: the data record is overwritten in place
overwrite(p) ==
    /\ Goto(p, "overwrite", "unlock")
    /\ dat' = [dat EXCEPT ![h[p].datoff] = op[p].val]
    /\ UNCHANGED <<file, head, idx, lock, h, pos, op, ret, calls, map, scan>>

\* another length: the chain pointer is read again after the deletion
reread(p) ==
    /\ Goto(p, "reread", "seek_dat")
    /\ h' = [h EXCEPT ![p].top = head[Chain(p)]]
    /\ UNCHANGED <<files, lock, pos, op, ret, calls, map, scan>>

\* mutant: the free list is not locked
free_lock_missing(p) ==
    /\ Goto(p, "free_lock", "free_find")
    /\ h' = [h EXCEPT ![p].off = head[FREE], ![p].ptroff = FREE]
    /\ UNCHANGED <<files, lock, pos, op, ret, calls, map, scan>>

\* _db_findfree
free_lock(p) ==
    /\ Goto(p, "free_lock", "free_find")
    /\ Lock(p, FREE, "w")
    /\ h' = [h EXCEPT ![p].off = head[FREE], ![p].ptroff = FREE]
    /\ UNCHANGED <<files, pos, op, ret, calls, map, scan>>

Fits(p) == /\ Record(p).klen = KeyLen[op[p].key]
           /\ Record(p).datlen = DatLen[op[p].val]

free_next(p) ==
    /\ pc[p] = "free_find" /\ h[p].off # 0
    /\ ~Fits(p)
    /\ h' = [h EXCEPT ![p].off = Record(p).ptr, ![p].ptroff = h[p].off]
    /\ UNCHANGED <<files, lock, pc, pos, op, ret, calls, map, scan>>

free_hit(p) ==
    /\ pc[p] = "free_find" /\ h[p].off # 0
    /\ Fits(p)
    /\ Goto(p, "free_find", "free_take")
    /\ h' = [h EXCEPT ![p].ptrval = Record(p).ptr, ![p].datoff = Record(p).datoff]
    /\ UNCHANGED <<files, lock, pos, op, ret, calls, map, scan>>

\* mutant: the free list stays locked
free_miss_locked(p) ==
    /\ h[p].off = 0
    /\ Goto(p, "free_find", "seek_dat")
    /\ UNCHANGED <<files, lock, h, pos, op, ret, calls, map, scan>>

\* no free record fits: a record will be appended
free_miss(p) ==
    /\ h[p].off = 0
    /\ Goto(p, "free_find", "seek_dat")
    /\ Unlock(p, FREE)
    /\ UNCHANGED <<files, h, pos, op, ret, calls, map, scan>>

free_take(p) ==
    /\ Goto(p, "free_take", "write_dat")
    /\ db_writeptr(h[p].ptroff, h[p].ptrval)
    /\ Unlock(p, FREE)
    /\ UNCHANGED <<file, dat, h, pos, op, ret, calls, map, scan>>

\* _db_writedat and _db_writeidx with SEEK_END: the end of the file is
\* locked, then sought, then written
seek_dat(p) ==
    /\ Goto(p, "seek_dat", "append_dat")
    /\ Lock(p, DATEND, "w")
    /\ h' = [h EXCEPT ![p].off = 0, ![p].datoff = Len(dat) + 1]
    /\ UNCHANGED <<files, pos, op, ret, calls, map, scan>>

\* position n of a file: its end, or a record it has
Put(s, n, x) == IF n > Len(s) THEN Append(s, x) ELSE [s EXCEPT ![n] = x]

\* mutant: the data is not written
write_dat_lost(p) ==
    /\ Goto(p, "append_dat", "seek_idx") \/ Goto(p, "write_dat", "write_idx")
    /\ Unlock(p, DATEND)
    /\ UNCHANGED <<files, h, pos, op, ret, calls, map, scan>>

write_dat(p) ==
    /\ Goto(p, "append_dat", "seek_idx") \/ Goto(p, "write_dat", "write_idx")
    /\ dat' = Put(dat, h[p].datoff, op[p].val)
    /\ Unlock(p, DATEND)
    /\ UNCHANGED <<file, head, idx, h, pos, op, ret, calls, map, scan>>

\* mutant: the end of the file is not locked
seek_idx_unlocked(p) ==
    /\ Goto(p, "seek_idx", "append_idx")
    /\ h' = [h EXCEPT ![p].off = Len(idx) + 1]
    /\ UNCHANGED <<files, lock, pos, op, ret, calls, map, scan>>

seek_idx(p) ==
    /\ Goto(p, "seek_idx", "append_idx")
    /\ Lock(p, IDXEND, "w")
    /\ h' = [h EXCEPT ![p].off = Len(idx) + 1]
    /\ UNCHANGED <<files, pos, op, ret, calls, map, scan>>

write_idx(p) ==
    /\ Goto(p, "append_idx", "link") \/ Goto(p, "write_idx", "link")
    /\ idx' = Put(idx, h[p].off,
                  [ptr |-> h[p].top, key |-> op[p].key, klen |-> KeyLen[op[p].key],
                   datoff |-> h[p].datoff, datlen |-> DatLen[op[p].val]])
    /\ Unlock(p, IDXEND)
    /\ UNCHANGED <<file, head, dat, h, pos, op, ret, calls, map, scan>>

\* the record becomes the first of its chain
link(p) ==
    /\ Goto(p, "link", "unlock")
    /\ db_writeptr(Chain(p), h[p].off)
    /\ UNCHANGED <<file, dat, lock, h, pos, op, ret, calls, map, scan>>

-----------------------------------------------------------------------------
(* db_nextrec *)

\* mutant: the free list is not locked
next_lock_missing(p) ==
    /\ Goto(p, "next_lock", "next_read")
    /\ UNCHANGED <<files, lock, h, pos, op, ret, calls, map, scan>>

\* the free list is read-locked, so that no record is being deleted
next_lock(p) ==
    /\ Goto(p, "next_lock", "next_read")
    /\ Lock(p, FREE, "r")
    /\ UNCHANGED <<files, h, pos, op, ret, calls, map, scan>>

next_skip(p) ==
    /\ pc[p] = "next_read" /\ pos[p] <= Len(idx)
    /\ idx[pos[p]].key = BLANK
    /\ pos' = [pos EXCEPT ![p] = @ + 1]
    /\ UNCHANGED <<files, lock, pc, h, op, ret, calls, map, scan>>

next_key(p) ==
    /\ Goto(p, "next_read", "next_dat")
    /\ pos[p] <= Len(idx)
    /\ idx[pos[p]].key # BLANK
    /\ h' = [h EXCEPT ![p].datoff = idx[pos[p]].datoff, ![p].res = idx[pos[p]].key]
    /\ pos' = [pos EXCEPT ![p] = @ + 1]
    /\ UNCHANGED <<files, lock, op, ret, calls, map, scan>>

NextReturns(p, from, r) ==
    /\ Goto(p, from, "idle")
    /\ Unlock(p, FREE)
    /\ op' = [op EXCEPT ![p] = NoOp]
    /\ ret' = [ret EXCEPT ![p] = r]
    /\ h' = [h EXCEPT ![p] = NewHandle]
    /\ UNCHANGED <<files, calls, map>>

next_dat(p) ==
    /\ NextReturns(p, "next_dat", <<h[p].res, dat[h[p].datoff]>>)
    /\ scan' = [scan EXCEPT ![p].seen = Append(@, h[p].res)]
    /\ UNCHANGED pos

\* mutant: a deleted record is taken for the end
next_eof_blank(p) ==
    /\ pc[p] = "next_read"
    /\ pos[p] <= Len(idx) => idx[pos[p]].key = BLANK
    /\ NextReturns(p, "next_read", EOF)
    /\ pos' = [pos EXCEPT ![p] = 0]
    /\ UNCHANGED scan

next_eof(p) ==
    /\ pos[p] > Len(idx)
    /\ NextReturns(p, "next_read", EOF)
    /\ pos' = [pos EXCEPT ![p] = 0]
    /\ UNCHANGED scan

-----------------------------------------------------------------------------

\* a process that is inside a call
Step(p) ==
    \/ err_dump(p) \/ find_lock(p) \/ find_next(p) \/ find_hit(p) \/ find_miss(p)
    \/ readdat(p) \/ unlock(p)
    \/ del_lock(p) \/ del_idx(p) \/ del_free(p) \/ del_unlink(p)
    \/ overwrite(p) \/ reread(p)
    \/ free_lock(p) \/ free_next(p) \/ free_hit(p) \/ free_miss(p) \/ free_take(p)
    \/ seek_dat(p) \/ write_dat(p) \/ seek_idx(p) \/ write_idx(p) \/ link(p)
    \/ next_lock(p) \/ next_skip(p) \/ next_key(p) \/ next_dat(p) \/ next_eof(p)

Next == \E p \in Procs :
    \/ db_open_create(p) \/ db_open_header(p) \/ db_open(p)
    \/ db_close(p) \/ db_rewind(p)
    \/ \E o \in Ops \cup [kind : {"nextrec"}] : Call(p, o)
    \/ Step(p)

Spec == Init /\ [][Next]_vars /\ \A p \in Procs : WF_vars(Step(p))

-----------------------------------------------------------------------------
(* Properties *)

PC == {"closed", "header", "idle", "dumped", "find_lock", "find", "readdat",
       "unlock", "del_lock", "del_idx", "del_free", "del_unlink", "overwrite",
       "reread", "free_lock", "free_find", "free_take", "seek_dat", "append_dat",
       "write_dat", "seek_idx", "append_idx", "write_idx", "link", "next_lock", "next_read", "next_dat"}

\* The variables have their types; every pointer leads to a record or is 0.
TypeOK ==
    /\ file \in {"none", "empty", "ready"}
    /\ head \in [Chains \cup {FREE} -> 0..Len(idx)]
    /\ \A i \in DOMAIN idx :
          /\ idx[i].key \in Keys \cup {BLANK}
          /\ idx[i].ptr \in 0..Len(idx)
          /\ idx[i].datoff \in DOMAIN dat
    /\ Range(dat) \subseteq Values \cup {BLANK}
    /\ lock \in [Locks -> SUBSET (Procs \X {"r", "w"})]
    /\ pc \in [Procs -> PC]
    /\ op \in [Procs -> KV!Op \cup {NoOp}]
    /\ map \in [Keys -> Values \cup {NONE}]

\* where a process works on the free list: _db_dodelete, _db_findfree
OnFreeList == {"del_idx", "del_free", "del_unlink", "free_find", "free_take"}
\* where db_store or db_delete has the chain of its key to itself
OnChain == {"del_lock", "del_idx", "del_free", "del_unlink", "overwrite", "reread",
            "free_lock", "free_find", "free_take", "seek_dat", "append_dat",
            "write_dat", "seek_idx", "append_idx", "write_idx", "link"}

\* The record locks exclude what they are meant to exclude: two processes are
\* never both changing the free list, or one changing it while another's
\* db_nextrec reads; never both changing one chain, or one changing it while
\* another's db_fetch searches it; never both appending to the same file.
Exclusion ==
    \A p, q \in Procs : p # q =>
        /\ pc[p] \in OnFreeList => pc[q] \notin OnFreeList \cup {"next_read", "next_dat"}
        /\ pc[p] \in OnChain /\ pc[q] \in OnChain \cup {"find", "readdat"} =>
              Chain(p) # Chain(q)
        /\ ~(pc[p] = "append_dat" /\ pc[q] = "append_dat")
        /\ ~(pc[p] = "append_idx" /\ pc[q] = "append_idx")

Rank(l) == IF l \in Chains THEN 1 ELSE IF l = FREE THEN 2 ELSE 3
\* where a process waits for a lock, and for which
Wants(p) == CASE pc[p] = "find_lock" -> Chain(p)
              [] pc[p] \in {"del_lock", "free_lock", "next_lock"} -> FREE
              [] pc[p] = "seek_dat" -> DATEND
              [] pc[p] = "seek_idx" -> IDXEND
Waiting == {"find_lock", "del_lock", "free_lock", "next_lock", "seek_dat", "seek_idx"}

\* Whoever waits for a record lock holds only locks that come before it: a
\* hash chain, then the free list, then the end of a file.  So processes never
\* wait for each other in a circle (F_SETLKW would fail, and err_dump abort).
LockOrder ==
    \A p \in Procs : pc[p] \in Waiting =>
        \A l \in Locks : (\E x \in lock[l] : x[1] = p) => Rank(l) < Rank(Wants(p))

\* Between deletions every index record is in exactly one place: on one hash
\* chain, on the free list, or in the hands of one db_store that took it off
\* the free list or appended it and has not linked it yet.  A record in two
\* places would be overwritten under its key; one in none is lost for good.
NoRecordLost ==
    (\A p \in Procs : pc[p] \notin {"del_free", "del_unlink"}) =>
        \A i \in DOMAIN idx :
            Cardinality({l \in DOMAIN head : i \in Range(List(head[l]))}
                        \cup {p \in Procs : h[p].off = i /\ pc[p] \in
                                  {"write_dat", "write_idx", "link"}}) = 1

\* A chain that nobody has write-locked says what it said when its last
\* writer left: no other process's deletion, reuse of a free record or append
\* changes it, although they write to the same files.
UnlockedChainsStable ==
    \A k \in Keys :
        (\A x \in lock[Hash[k]] : x[2] = "r") => Lookup(k) = map[k]

\* To its callers the database is one map: every db_fetch, db_store and
\* db_delete of every process returns, and leaves, what it would if it ran
\* alone at one instant; db_nextrec never pairs a key with blanks or with the
\* value of another key.
IsKeyValue == KV!Spec

\* When db_nextrec reports the end of the file, every key that was stored at
\* db_rewind and that nobody has stored or deleted since has been returned
\* exactly once, whatever happened to the other records meanwhile.
ScanComplete ==
    [][\A p \in Procs :
          op[p] # NoOp /\ op'[p] = NoOp /\ ret'[p] = EOF =>
             \A k \in scan[p].left :
                Cardinality({n \in DOMAIN scan[p].seen : scan[p].seen[n] = k}) = 1
      ]_vars

\* Every call returns: processes that wait for each other's chains, for the
\* free list and for the ends of the files never wait in a circle.
CallsReturn ==
    \A p \in Procs : (op[p] # NoOp) ~> (op[p] = NoOp \/ pc[p] = "dumped")
=============================================================================
