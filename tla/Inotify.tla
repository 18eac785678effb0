------------------------------- MODULE Inotify -------------------------------
(***************************************************************************)
(* tlpi/inotify/inotify_dtree.c: a monitor that keeps a cache of the paths *)
(* of all directories below its root directories, with an inotify watch on *)
(* each.  Other programs create, remove and rename directories while it    *)
(* works.  The kernel queues an event for every change in a directory that *)
(* is watched at that moment, and the monitor hears of the change only     *)
(* later, by a watch descriptor and a name.                                *)
(***************************************************************************)
EXTENDS Integers, Sequences, FiniteSets, SequencesExt, Functions

CONSTANTS
    Roots,      \* the directories named on the command line
    Names,      \* names of directories
    Trees,      \* trees the monitor may find when it starts
    Args,       \* paths given to the commands a and z
    MaxOps,     \* bound: changes of the tree
    MaxCmds,    \* bound: commands typed
    MaxQueue,   \* limit of the kernel's event queue
    TOP, OUT, GONE, NONE, UNREAD

ASSUME BoundsAssumption == MaxOps \in Nat /\ MaxCmds \in Nat /\ MaxQueue \in Nat \ {0}
ASSUME TreesAssumption == \A t \in Trees : \A d \in DOMAIN t : t[d][2] \in Names \cup {NONE}

VARIABLES
    tree,       \* of each directory ever made: <<its parent, its name>>
    ops,        \* changes made so far
    pending,    \* the IN_MOVED_TO of a rename in progress, or NONE
    watch,      \* the watch descriptor of each watched directory
    nextwd,
    kq,         \* events the monitor has not read
    rootDirPaths,
    wlCache,    \* the path cached for each watch descriptor
    walk,       \* directories nftw() has open, the innermost last
    starts,     \* paths still to be given to nftw()
    zap,        \* the path zapSubtree() is removing, or NONE
    buf,        \* events read and not processed
    firstTry,
    ready,      \* the inotify descriptor was readable when select() returned
    pc, cmds,
    raced       \* history: a rename or removal met a monitor that was not at rest,
                \* or a path was zapped by command

fs == <<tree, ops, pending>>
kernel == <<watch, nextwd, kq>>
monitor == <<rootDirPaths, wlCache, walk, starts, zap, buf, firstTry, ready, pc, cmds>>
vars == <<fs, kernel, monitor, raced>>

-----------------------------------------------------------------------------
(* Directories and paths *)

PathOf(dir) ==
    LET path[d \in DOMAIN tree \cup {OUT, GONE}] ==
          IF d \in {OUT, GONE} THEN <<d>>
          ELSE IF tree[d][1] = TOP THEN <<d>>
          ELSE Append(path[tree[d][1]], tree[d][2])
    IN  path[dir]

\* the directory that a path names now
Find(p) ==
    IF \E d \in DOMAIN tree : PathOf(d) = p THEN CHOOSE d \in DOMAIN tree : PathOf(d) = p
    ELSE NONE

Exists(d) == tree[d][1] # GONE
Children(u) == {d \in DOMAIN tree : tree[d][1] = u}
Below(d) == {e \in DOMAIN tree : IsPrefix(PathOf(d), PathOf(e))}
Open(frames) == {frames[k].d : k \in DOMAIN frames}

-----------------------------------------------------------------------------
(* The kernel's queue *)

Event(type, wd, name, cookie) == [type |-> type, wd |-> wd, name |-> name, cookie |-> cookie]
OVERFLOW == Event("IN_Q_OVERFLOW", 0, NONE, 0)

\* an event equal to the last one is merged with it; a full queue loses events
Notify(q, e) ==
    IF q # <<>> /\ Last(q) = e THEN q
    ELSE IF Len(q) < MaxQueue THEN Append(q, e)
    ELSE IF OVERFLOW \in Range(q) THEN q
    ELSE Append(q, OVERFLOW)

\* the queue after what directory u reports, when it is watched
Report(q, u, type, name, cookie) ==
    IF u \in DOMAIN watch THEN Notify(q, Event(type, watch[u], name, cookie)) ELSE q

Without(f, S) == Restrict(f, DOMAIN f \ S)

\* directory d is destroyed: removed, and open no longer
Destroy(d) ==
    /\ kq' = Report(Report(kq, d, "IN_DELETE_SELF", NONE, 0), d, "IN_IGNORED", NONE, 0)
    /\ watch' = Without(watch, {d})
    /\ UNCHANGED nextwd

-----------------------------------------------------------------------------
(* The programs that change the tree *)

AtRest ==
    /\ pc \in {"select", "read"}
    /\ kq = <<>>

CanChange == pc # "exit" /\ ops < MaxOps /\ pending = NONE

mkdir(u, n) ==
    /\ CanChange
    /\ u \in DOMAIN tree /\ Head(PathOf(u)) \in Roots
    /\ \A d \in Children(u) : tree[d][2] # n
    /\ ops' = ops + 1
    /\ tree' = [d \in DOMAIN tree \cup {ops + 1} |-> IF d = ops + 1 THEN <<u, n>> ELSE tree[d]]
    /\ kq' = Report(kq, u, "IN_CREATE", n, 0)
    /\ UNCHANGED <<pending, watch, nextwd, monitor, raced>>

\* the IN_DELETE_SELF of a directory that is open waits until it is closed
rmdir(d) ==
    /\ CanChange
    /\ d \in DOMAIN tree /\ Exists(d) /\ Children(d) = {}
    /\ ops' = ops + 1 /\ tree' = [tree EXCEPT ![d] = <<GONE, NONE>>]
    /\ IF d \in Open(walk) THEN UNCHANGED kernel ELSE Destroy(d)
    /\ raced' = (raced \/ ~AtRest)
    /\ UNCHANGED <<pending, monitor>>

\* the change and its first event; a root directory only moves out
rename(d, u, n) ==
    /\ CanChange
    /\ d \in DOMAIN tree /\ Exists(d)
    /\ u # OUT => d \notin Roots /\ Exists(u) /\ u \notin Below(d)
    /\ \A e \in Children(u) : tree[e][2] # n
    /\ ops' = ops + 1 /\ tree' = [tree EXCEPT ![d] = <<u, n>>]
    /\ kq' = IF d \in Roots THEN Report(kq, d, "IN_MOVE_SELF", NONE, 0)
             ELSE Report(kq, tree[d][1], "IN_MOVED_FROM", tree[d][2], ops + 1)
    /\ pending' = IF u = OUT THEN NONE ELSE <<u, n>>
    /\ raced' = (raced \/ ~AtRest)
    /\ UNCHANGED <<watch, nextwd, monitor>>

rename_end ==
    /\ pending # NONE /\ pending' = NONE
    /\ kq' = Report(kq, pending[1], "IN_MOVED_TO", pending[2], ops)
    /\ UNCHANGED <<tree, ops, watch, nextwd, monitor, raced>>

-----------------------------------------------------------------------------
(* Walking a subtree with nftw() *)

After(b) == IF b # <<>> THEN "process" ELSE "select"
Resume == IF buf = <<>> /\ ready THEN "read" ELSE After(buf)

\* traverseTree of the path p, by nftw() with the directories of frames open
traverseTree(p, frames) ==
    LET d == Find(p)
        wd == IF d \in DOMAIN watch THEN watch[d] ELSE nextwd
    IN  IF d = NONE
        THEN walk' = frames /\ UNCHANGED <<watch, nextwd, wlCache>>
        ELSE /\ walk' = Append(frames, [d |-> d, path |-> p, todo |-> UNREAD])
             /\ watch' = [e \in DOMAIN watch \cup {d} |-> IF e = d THEN wd ELSE watch[e]]
             /\ nextwd' = IF wd = nextwd THEN nextwd + 1 ELSE nextwd
             /\ wlCache' = IF wd \in DOMAIN wlCache THEN wlCache
                           ELSE [x \in DOMAIN wlCache \cup {wd} |->
                                    IF x = wd THEN p ELSE wlCache[x]]

watchDir ==
    /\ pc = "walk" /\ walk = <<>>
    /\ \E p \in starts : starts' = starts \ {p} /\ traverseTree(p, <<>>)
    /\ UNCHANGED <<fs, kq, rootDirPaths, zap, buf, firstTry, ready, pc, cmds, raced>>

Top == Last(walk)

walk_read ==
    /\ pc = "walk" /\ walk # <<>> /\ Top.todo = UNREAD
    /\ walk' = [walk EXCEPT ![Len(walk)].todo = {tree[d][2] : d \in Children(Top.d)}]
    /\ UNCHANGED <<fs, kernel, rootDirPaths, wlCache, starts, zap, buf, firstTry, ready, pc, cmds, raced>>

walk_child ==
    /\ pc = "walk" /\ walk # <<>> /\ Top.todo # UNREAD
    /\ \E n \in Top.todo :
         traverseTree(Append(Top.path, n), [walk EXCEPT ![Len(walk)].todo = @ \ {n}])
    /\ UNCHANGED <<fs, kq, rootDirPaths, starts, zap, buf, firstTry, ready, pc, cmds, raced>>

\* closing the directory destroys it when it was removed meanwhile
walk_leave ==
    /\ pc = "walk" /\ walk # <<>> /\ Top.todo = {}
    /\ walk' = Front(walk)
    /\ IF Exists(Top.d) \/ Top.d \in Open(Front(walk)) THEN UNCHANGED kernel ELSE Destroy(Top.d)
    /\ UNCHANGED <<fs, rootDirPaths, wlCache, starts, zap, buf, firstTry, ready, pc, cmds, raced>>

watch_done ==
    /\ pc = "walk" /\ walk = <<>> /\ starts = {}
    /\ pc' = Resume
    /\ UNCHANGED <<fs, kernel, rootDirPaths, wlCache, walk, starts, zap, buf, firstTry, ready, cmds, raced>>

-----------------------------------------------------------------------------
(* The cache *)

\* a new inotify descriptor, and a new walk of the roots that are left
reinitialize(roots) ==
    /\ watch' = <<>> /\ nextwd' = 1 /\ kq' = <<>>
    /\ wlCache' = <<>> /\ buf' = <<>> /\ firstTry' = TRUE
    /\ starts' = {<<r>> : r \in roots} /\ pc' = "walk"
    /\ zap' = NONE /\ UNCHANGED walk

\* mutant: only the directory's own entry
rewriteCachedPath(old, new) ==
    wlCache' = [w \in DOMAIN wlCache |-> IF wlCache[w] = old THEN new ELSE wlCache[w]]

rewriteCachedPaths(old, new) ==
    wlCache' = [w \in DOMAIN wlCache |->
                  IF IsPrefix(old, wlCache[w])
                  THEN new \o SubSeq(wlCache[w], Len(old) + 1, Len(wlCache[w]))
                  ELSE wlCache[w]]

\* mutant: the slot is emptied and the watch stays
UnwatchCacheOnly(w) == wlCache' = Without(wlCache, {w}) /\ UNCHANGED kernel

\* inotify_rm_watch() with its IN_IGNORED, and markCacheSlotEmpty()
Unwatch(w) ==
    /\ wlCache' = Without(wlCache, {w})
    /\ watch' = Restrict(watch, {d \in DOMAIN watch : watch[d] # w})
    /\ kq' = Notify(kq, Event("IN_IGNORED", w, NONE, 0))
    /\ UNCHANGED nextwd

Zapped(p) == {w \in DOMAIN wlCache : IsPrefix(p, wlCache[w])}

\* zapSubtree, one watch at a time, for an event ("zap") or a command
Zapping == pc \in {"zap", "zap_cmd"}
ZapReturns == zap' = NONE /\ pc' = IF starts # {} THEN "walk" ELSE Resume

zap_next(w) ==
    /\ Zapping /\ w \in Zapped(zap) /\ w \in Range(watch)
    /\ Unwatch(w)
    /\ UNCHANGED <<fs, rootDirPaths, walk, starts, zap, buf, firstTry, ready, pc, cmds, raced>>

zap_end ==
    /\ Zapping /\ Zapped(zap) = {}
    /\ ZapReturns
    /\ UNCHANGED <<fs, kernel, rootDirPaths, wlCache, walk, starts, buf, firstTry, ready, cmds, raced>>

\* it stops at a watch it cannot remove, which a command does not look at
zap_fails(w) ==
    /\ Zapping /\ w \in Zapped(zap) /\ w \notin Range(watch)
    /\ IF pc = "zap" THEN reinitialize(rootDirPaths)
       ELSE ZapReturns /\ UNCHANGED <<kernel, wlCache, walk, starts, buf, firstTry>>
    /\ UNCHANGED <<fs, rootDirPaths, ready, cmds, raced>>

-----------------------------------------------------------------------------
(* processInotifyEvents *)

select ==
    /\ pc = "select" /\ kq # <<>> /\ pc' = "read"
    /\ UNCHANGED <<fs, kernel, rootDirPaths, wlCache, walk, starts, zap, buf, firstTry, ready, cmds, raced>>

\* read() blocks while there is no event
read ==
    /\ pc = "read" /\ kq # <<>>
    /\ buf' = kq /\ kq' = <<>>
    /\ firstTry' = TRUE /\ ready' = FALSE /\ pc' = "process"
    /\ UNCHANGED <<fs, watch, nextwd, rootDirPaths, wlCache, walk, starts, zap, cmds, raced>>

\* the read that follows a hanging IN_MOVED_FROM, or its timeout
read_more ==
    /\ pc = "more" /\ pc' = "process"
    /\ buf' = buf \o kq /\ kq' = <<>>
    /\ UNCHANGED <<fs, watch, nextwd, rootDirPaths, wlCache, walk, starts, zap, firstTry, ready, cmds, raced>>

ev == Head(buf)
Path == wlCache[ev.wd]
EvPath == Append(Path, ev.name)
Known(e) == e.wd \in DOMAIN wlCache
Processing(types) == pc = "process" /\ ev.type \in types /\ Known(ev)
Consume(n) == /\ buf' = SubSeq(buf, n + 1, Len(buf)) /\ pc' = After(buf')
              /\ firstTry' = TRUE /\ UNCHANGED <<walk, starts, zap>>

\* the next event in the buffer is the other half of the rename
Paired ==
    /\ Len(buf) > 1
    /\ buf[2].type = "IN_MOVED_TO" /\ buf[2].cookie = ev.cookie

\* mutant: only a missing watch rebuilds the cache, an overflow is skipped
ev_unknown_only ==
    /\ pc = "process"
    /\ IF ev = OVERFLOW
       THEN Consume(1) /\ UNCHANGED <<kernel, wlCache>>
       ELSE /\ \/ ev.type # "IN_IGNORED" /\ ~Known(ev)
               \/ ev.type = "IN_MOVED_FROM" /\ Paired /\ ~Known(buf[2])
            /\ reinitialize(rootDirPaths)
    /\ UNCHANGED <<fs, rootDirPaths, ready, cmds, raced>>

ev_unknown ==
    /\ pc = "process"
    /\ \/ ev.type # "IN_IGNORED" /\ ~Known(ev)     \* IN_Q_OVERFLOW included
       \/ ev.type = "IN_MOVED_FROM" /\ Paired /\ ~Known(buf[2])
    /\ reinitialize(rootDirPaths)
    /\ UNCHANGED <<fs, rootDirPaths, ready, cmds, raced>>

ev_ignored ==
    /\ pc = "process" /\ ev.type = "IN_IGNORED"
    /\ Consume(1)
    /\ UNCHANGED <<fs, kernel, rootDirPaths, wlCache, ready, cmds, raced>>

ev_cached ==
    /\ Processing({"IN_CREATE", "IN_MOVED_TO"})
    /\ EvPath \in Range(wlCache)
    /\ Consume(1)
    /\ UNCHANGED <<fs, kernel, rootDirPaths, wlCache, ready, cmds, raced>>

ev_watch ==
    /\ Processing({"IN_CREATE", "IN_MOVED_TO"})
    /\ EvPath \notin Range(wlCache)
    /\ starts' = {EvPath} /\ pc' = "walk"
    /\ buf' = Tail(buf) /\ firstTry' = TRUE
    /\ UNCHANGED <<fs, kernel, rootDirPaths, wlCache, walk, zap, ready, cmds, raced>>

\* zapRootDirPath: a root directory that is gone, or that moved, is monitored
\* no longer, and the monitor ends with the last
zapRootDirPath(p) == rootDirPaths' = rootDirPaths \ {p[1]}
isRootDirPath(p) == Len(p) = 1 /\ p[1] \in rootDirPaths

ev_delete_self ==
    /\ Processing({"IN_DELETE_SELF"})
    /\ IF isRootDirPath(Path) THEN zapRootDirPath(Path) ELSE UNCHANGED rootDirPaths
    /\ wlCache' = Without(wlCache, {ev.wd})
    /\ buf' = Tail(buf) /\ firstTry' = TRUE
    /\ pc' = IF rootDirPaths' = {} THEN "exit" ELSE After(buf')
    /\ UNCHANGED <<fs, kernel, walk, starts, zap, ready, cmds, raced>>

ev_renamed ==
    /\ Processing({"IN_MOVED_FROM"}) /\ Paired /\ Known(buf[2])
    /\ rewriteCachedPaths(EvPath, Append(wlCache[buf[2].wd], buf[2].name))
    /\ Consume(2)
    /\ UNCHANGED <<fs, kernel, rootDirPaths, ready, cmds, raced>>

\* no IN_MOVED_TO follows: the directory left the tree
ev_moved_out ==
    /\ Processing({"IN_MOVED_FROM"}) /\ ~Paired
    /\ Len(buf) > 1 \/ ~firstTry
    /\ zap' = EvPath /\ pc' = "zap"
    /\ buf' = Tail(buf) /\ firstTry' = TRUE
    /\ UNCHANGED <<fs, kernel, rootDirPaths, wlCache, walk, starts, ready, cmds, raced>>

\* mutant: the second try is not remembered
ev_hanging_again ==
    /\ Processing({"IN_MOVED_FROM"}) /\ Len(buf) = 1 /\ firstTry
    /\ pc' = "more"
    /\ UNCHANGED <<fs, kernel, rootDirPaths, wlCache, walk, starts, zap, buf, firstTry, ready,
                   cmds, raced>>

ev_hanging ==
    /\ Processing({"IN_MOVED_FROM"}) /\ Len(buf) = 1 /\ firstTry
    /\ firstTry' = FALSE /\ pc' = "more"
    /\ UNCHANGED <<fs, kernel, rootDirPaths, wlCache, walk, starts, zap, buf, ready, cmds, raced>>

\* the root stops being monitored; the program ends with the last one
root_moved ==
    /\ zapRootDirPath(Path)
    /\ IF rootDirPaths' = {}
       THEN pc' = "exit" /\ UNCHANGED <<zap, buf, firstTry>>
       ELSE /\ zap' = Path /\ pc' = "zap"
            /\ buf' = Tail(buf) /\ firstTry' = TRUE
    /\ UNCHANGED <<walk, starts>>

ev_move_self ==
    /\ Processing({"IN_MOVE_SELF"})
    /\ IF isRootDirPath(Path) THEN root_moved ELSE Consume(1) /\ UNCHANGED rootDirPaths
    /\ UNCHANGED <<fs, kernel, wlCache, ready, cmds, raced>>

-----------------------------------------------------------------------------
(* executeCommand *)

Command == pc = "select" /\ cmds < MaxCmds /\ cmds' = cmds + 1 /\ ready' = (kq # <<>>)

\* 0: select() has said that the old descriptor is readable, and main goes on
\* to read the new one
cmd_rebuild ==
    /\ Command /\ reinitialize(rootDirPaths)
    /\ UNCHANGED <<fs, rootDirPaths, raced>>

\* a, z: zapSubtree, and for a a walk
cmd_add(p) ==
    /\ Command
    /\ zap' = p /\ starts' = {p} /\ pc' = "zap_cmd"
    /\ raced' = (raced \/ ready')
    /\ UNCHANGED <<fs, kernel, rootDirPaths, wlCache, walk, buf, firstTry>>

cmd_zap(p) ==
    /\ Command
    /\ zap' = p /\ pc' = "zap_cmd"
    /\ raced' = TRUE
    /\ UNCHANGED <<fs, kernel, rootDirPaths, wlCache, walk, starts, buf, firstTry>>

-----------------------------------------------------------------------------

Init ==
    /\ tree \in Trees
    /\ ops = 0 /\ pending = NONE
    /\ watch = <<>> /\ nextwd = 1 /\ kq = <<>>
    /\ rootDirPaths = Roots /\ wlCache = <<>>
    /\ walk = <<>> /\ starts = {<<r>> : r \in Roots} /\ zap = NONE
    /\ buf = <<>> /\ firstTry = TRUE /\ ready = FALSE
    /\ pc = "walk" /\ cmds = 0 /\ raced = FALSE

Monitor ==
    \/ watchDir \/ walk_read \/ walk_child \/ walk_leave \/ watch_done
    \/ select \/ read \/ read_more
    \/ ev_unknown \/ ev_ignored \/ ev_cached \/ ev_watch \/ ev_delete_self
    \/ ev_renamed \/ ev_moved_out \/ ev_hanging \/ ev_move_self
    \/ (\E w \in DOMAIN wlCache : zap_next(w) \/ zap_fails(w)) \/ zap_end

Changes ==
    \/ \E u \in DOMAIN tree, n \in Names : mkdir(u, n)
    \/ \E d \in DOMAIN tree : rmdir(d)
    \/ \E d \in DOMAIN tree, u \in DOMAIN tree \cup {OUT}, n \in Names : rename(d, u, n)

Commands == cmd_rebuild \/ \E p \in Args : cmd_add(p) \/ cmd_zap(p)

Next == Monitor \/ rename_end \/ Changes \/ Commands

\* the monitor is a process of its own, and a rename() that began returns
Spec == Init /\ [][Next]_vars /\ WF_vars(Monitor) /\ WF_vars(rename_end)

-----------------------------------------------------------------------------
(* Properties *)

Unread == Range(buf) \cup Range(kq)

\* Every watch in the kernel has its entry in the cache, whatever renames,
\* removals, walks, zaps and rebuilds came in between: no event arrives whose
\* watch the monitor never heard of.
WatchesCached == pc # "exit" => Range(watch) \subseteq DOMAIN wlCache

\* Every entry of the cache stands for a watch that exists, or the event that
\* will remove the entry is on its way: IN_DELETE_SELF, or the overflow that
\* rebuilds the cache.
StaleEntriesEnd ==
    pc # "exit" =>
        \A w \in DOMAIN wlCache :
            \/ w \in Range(watch)
            \/ Event("IN_DELETE_SELF", w, NONE, 0) \in Unread \/ OVERFLOW \in Unread

Exact ==
    LET monitored == {d \in DOMAIN tree : Head(PathOf(d)) \in rootDirPaths} IN
    /\ DOMAIN watch = monitored
    /\ \A d \in monitored : wlCache[watch[d]] = PathOf(d)
    /\ Cardinality(DOMAIN wlCache) = Cardinality(monitored)

\* When every rename and removal met a monitor at rest, and whatever was
\* created, at any time, whenever the monitor has handled all events the cache
\* and the watches are those of the tree.
InSync == AtRest /\ pending = NONE /\ ~raced => Exact

\* The monitor always comes to rest: no rebuild, hanging rename or walk repeats
\* for ever once the tree no longer changes.
Settles == []<>(AtRest \/ pc = "exit")
=============================================================================
