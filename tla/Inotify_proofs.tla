--------------------------- MODULE Inotify_proofs ---------------------------
(***************************************************************************)
(* The cache of tlpi/inotify/inotify_dtree.c and the kernel's watches, for *)
(* every tree, any number of changes and commands and every length of the  *)
(* kernel's event queue.                                                   *)
(***************************************************************************)
EXTENDS Inotify, SequenceTheorems, TLAPS

Labels == Names \cup {NONE}
Kinds == {"IN_CREATE", "IN_DELETE_SELF", "IN_IGNORED", "IN_MOVED_FROM", "IN_MOVED_TO",
          "IN_MOVE_SELF", "IN_Q_OVERFLOW"}
Events == [type : Kinds, wd : Nat, name : Labels, cookie : Nat]

Types ==
    /\ kq \in Seq(Events) /\ buf \in Seq(Events)
    /\ nextwd \in Nat \ {0} /\ ops \in Nat
    /\ \A d \in DOMAIN tree : tree[d][2] \in Labels
    /\ pending # NONE => pending[2] \in Labels

\* Watch descriptors are given out in order and once each.
Wds ==
    /\ \A d \in DOMAIN watch : watch[d] \in 1 .. nextwd - 1
    /\ \A d, e \in DOMAIN watch : watch[d] = watch[e] => d = e
    /\ \A w \in DOMAIN wlCache : w \in 1 .. nextwd - 1

\* When the monitor waits it has processed all it has read.
Buffer ==
    /\ pc \in {"select", "read"} => buf = <<>>
    /\ pc \in {"process", "more"} => buf # <<>>

\* A watch whose IN_DELETE_SELF is on its way exists no longer, and no new
\* watch has its descriptor.
Dead ==
    \A e \in Unread :
        e.type = "IN_DELETE_SELF" => e.wd \notin Range(watch) /\ e.wd < nextwd

IInv == Types /\ Wds /\ Buffer /\ Dead /\ WatchesCached /\ StaleEntriesEnd

-----------------------------------------------------------------------------
(* The event queue and the buffer *)

LEMMA EventFacts ==
    ASSUME NEW type \in Kinds, NEW wd \in Nat, NEW name \in Labels, NEW cookie \in Nat
    PROVE  /\ Event(type, wd, name, cookie) \in Events
           /\ Event(type, wd, name, cookie).type = type
           /\ Event(type, wd, name, cookie).wd = wd
  BY DEF Event, Events

LEMMA OverflowFacts ==
    OVERFLOW \in Events /\ OVERFLOW.type = "IN_Q_OVERFLOW" /\ OVERFLOW.wd = 0
  BY DEF OVERFLOW, Event, Events, Kinds, Labels

LEMMA RangeAppend ==
    ASSUME NEW S, NEW q \in Seq(S), NEW e \in S
    PROVE  Append(q, e) \in Seq(S) /\ Range(Append(q, e)) = Range(q) \cup {e}
<1>1. /\ Append(q, e) \in Seq(S) /\ Len(Append(q, e)) = Len(q) + 1
      /\ Append(q, e)[Len(q) + 1] = e
      /\ \A k \in 1 .. Len(q) : Append(q, e)[k] = q[k]
  OBVIOUS
<1>2. Len(q) \in Nat /\ DOMAIN q = 1 .. Len(q) /\ DOMAIN Append(q, e) = 1 .. Len(q) + 1
  BY <1>1
<1>3. \A k \in 1 .. Len(q) + 1 : k \in 1 .. Len(q) \/ k = Len(q) + 1
  BY <1>2
<1>4. Range(Append(q, e)) \subseteq Range(q) \cup {e}
  BY <1>1, <1>2, <1>3 DEF Range
<1>5. Range(q) \cup {e} \subseteq Range(Append(q, e))
  <2>1. \A k \in 1 .. Len(q) : k \in 1 .. Len(q) + 1
    BY <1>2
  <2>2. Len(q) + 1 \in 1 .. Len(q) + 1
    BY <1>2
  <2> QED
    BY <1>1, <1>2, <2>1, <2>2 DEF Range
<1> QED
  BY <1>1, <1>4, <1>5

\* No event is lost without an overflow, and the queue keeps what it has.
LEMMA NotifyFacts ==
    ASSUME NEW q \in Seq(Events), NEW e \in Events
    PROVE  /\ Notify(q, e) \in Seq(Events)
           /\ Range(q) \subseteq Range(Notify(q, e))
           /\ Range(Notify(q, e)) \subseteq Range(q) \cup {e, OVERFLOW}
           /\ e \in Range(Notify(q, e)) \/ OVERFLOW \in Range(Notify(q, e))
<1>1. CASE q # <<>> /\ Last(q) = e
  <2>1. Notify(q, e) = q
    BY <1>1 DEF Notify
  <2>2. Len(q) \in DOMAIN q
    BY <1>1
  <2> QED
    BY <1>1, <2>1, <2>2 DEF Range, Last
<1>2. CASE ~(q # <<>> /\ Last(q) = e) /\ Len(q) < MaxQueue
  <2>1. Notify(q, e) = Append(q, e)
    BY <1>2 DEF Notify
  <2> QED
    BY <2>1, RangeAppend
<1>3. CASE ~(q # <<>> /\ Last(q) = e) /\ ~(Len(q) < MaxQueue) /\ OVERFLOW \in Range(q)
  <2>1. Notify(q, e) = q
    BY <1>3 DEF Notify
  <2> QED
    BY <1>3, <2>1
<1>4. CASE ~(q # <<>> /\ Last(q) = e) /\ ~(Len(q) < MaxQueue) /\ OVERFLOW \notin Range(q)
  <2>1. Notify(q, e) = Append(q, OVERFLOW)
    BY <1>4 DEF Notify
  <2> QED
    BY <2>1, RangeAppend, OverflowFacts
<1> QED
  BY <1>1, <1>2, <1>3, <1>4

\* Queue r is queue q and perhaps an event of the type, or an overflow.
Added(q, r, type) ==
    /\ r \in Seq(Events) /\ Range(q) \subseteq Range(r)
    /\ \A e \in Range(r) : e \in Range(q) \/ e.type \in {type, "IN_Q_OVERFLOW"}

LEMMA ReportAdds ==
    ASSUME NEW q \in Seq(Events), NEW u, NEW type \in Kinds, NEW name \in Labels,
           NEW cookie \in Nat, \A v \in DOMAIN watch : watch[v] \in Nat
    PROVE  Added(q, Report(q, u, type, name, cookie), type)
<1>1. CASE u \in DOMAIN watch
  <2> DEFINE e == Event(type, watch[u], name, cookie)
  <2>1. e \in Events /\ e.type = type
    BY <1>1, EventFacts
  <2>2. Report(q, u, type, name, cookie) = Notify(q, e)
    BY <1>1 DEF Report
  <2> HIDE DEF e
  <2> QED
    BY <2>1, <2>2, NotifyFacts, OverflowFacts DEF Added
<1>2. CASE u \notin DOMAIN watch
  BY <1>2 DEF Report, Added
<1> QED
  BY <1>1, <1>2

LEMMA UnreadEvents == Types => Unread \subseteq Events
<1>1. Types => /\ \A k \in DOMAIN kq : kq[k] \in Events
               /\ \A k \in DOMAIN buf : buf[k] \in Events
  BY DEF Types
<1> QED
  BY <1>1 DEF Unread, Range

LEMMA TailFacts ==
    ASSUME NEW b \in Seq(Events), b # <<>>
    PROVE  /\ Head(b) \in Events /\ Tail(b) \in Seq(Events)
           /\ Range(Tail(b)) \subseteq Range(b)
           /\ Range(b) \subseteq Range(Tail(b)) \cup {Head(b)}
           /\ SubSeq(b, 2, Len(b)) = Tail(b)
<1>1. /\ Len(b) \in Nat \ {0} /\ DOMAIN b = 1 .. Len(b) /\ Head(b) = b[1] /\ Head(b) \in Events
      /\ Tail(b) \in Seq(Events) /\ Len(Tail(b)) = Len(b) - 1
      /\ \A k \in 1 .. Len(b) - 1 : Tail(b)[k] = b[k + 1]
  OBVIOUS
<1>2. DOMAIN Tail(b) = 1 .. Len(b) - 1
  BY <1>1
<1>3. Range(Tail(b)) \subseteq Range(b)
  <2>1. \A k \in 1 .. Len(b) - 1 : k + 1 \in 1 .. Len(b)
    BY <1>1
  <2> QED
    BY <1>1, <1>2, <2>1 DEF Range
<1>4. Range(b) \subseteq Range(Tail(b)) \cup {Head(b)}
  <2> SUFFICES ASSUME NEW k \in 1 .. Len(b), k # 1 PROVE b[k] \in Range(Tail(b))
    BY <1>1 DEF Range
  <2>1. k - 1 \in 1 .. Len(b) - 1 /\ (k - 1) + 1 = k
    BY <1>1
  <2>2. Tail(b)[k - 1] = b[k]
    BY <1>1, <2>1
  <2> QED
    BY <1>2, <2>1, <2>2 DEF Range
<1>5. SubSeq(b, 2, Len(b)) = Tail(b)
  BY <1>1, <1>2
<1> QED
  BY <1>1, <1>3, <1>4, <1>5

-----------------------------------------------------------------------------
(* The steps *)

LEMMA InitIInv == Init => IInv
<1> SUFFICES ASSUME Init PROVE IInv
  OBVIOUS
<1>1. /\ tree \in Trees /\ ops = 0 /\ pending = NONE /\ watch = <<>> /\ nextwd = 1
      /\ kq = <<>> /\ buf = <<>> /\ wlCache = <<>> /\ pc = "walk"
  BY DEF Init
<1>2. Types
  BY <1>1, TreesAssumption DEF Types, Labels
<1>3. \A k \in DOMAIN <<>> : FALSE
  OBVIOUS
<1>4. Wds /\ Buffer
  BY <1>1, <1>3 DEF Wds, Buffer
<1>5. Unread = {} /\ Range(watch) = {}
  BY <1>1, <1>3 DEF Unread, Range
<1>6. Dead /\ WatchesCached /\ StaleEntriesEnd
  BY <1>1, <1>3, <1>5 DEF Dead, WatchesCached, StaleEntriesEnd
<1> QED
  BY <1>2, <1>4, <1>6 DEF IInv

\* A step that keeps the watches and the entries, and every event on its way
\* that removes an entry.
LEMMA MovesKeep ==
    ASSUME IInv, Types', Buffer', UNCHANGED <<watch, nextwd>>,
           DOMAIN wlCache' = DOMAIN wlCache, pc = "exit" => pc' = "exit",
           \A e \in Unread' : e.type = "IN_DELETE_SELF" => e \in Unread,
           \A e \in Unread : e.type \in {"IN_DELETE_SELF", "IN_Q_OVERFLOW"} => e \in Unread'
    PROVE  IInv'
<1> USE DEF IInv
<1>1. Wds' /\ Dead' /\ WatchesCached'
  BY DEF Wds, Dead, WatchesCached, Range
<1>2. StaleEntriesEnd'
  <2> SUFFICES ASSUME pc' # "exit", NEW w \in DOMAIN wlCache, w \notin Range(watch)
               PROVE  Event("IN_DELETE_SELF", w, NONE, 0) \in Unread' \/ OVERFLOW \in Unread'
    BY DEF StaleEntriesEnd, Range
  <2>1. Event("IN_DELETE_SELF", w, NONE, 0) \in Unread \/ OVERFLOW \in Unread
    BY DEF StaleEntriesEnd
  <2>2. Event("IN_DELETE_SELF", w, NONE, 0).type = "IN_DELETE_SELF"
    BY DEF Event
  <2> QED
    BY <2>1, <2>2, OverflowFacts
<1> QED
  BY <1>1, <1>2

\* An event is queued that is not an IN_DELETE_SELF.
LEMMA QueueKeeps ==
    ASSUME IInv, UNCHANGED <<watch, nextwd, wlCache, buf, pc>>, Types',
           NEW type \in Kinds \ {"IN_DELETE_SELF"}, Added(kq, kq', type)
    PROVE  IInv'
<1>1. Buffer'
  BY DEF IInv, Buffer
<1>2. Unread \subseteq Unread' /\ \A e \in Unread' : e \in Unread \/ e.type # "IN_DELETE_SELF"
  BY DEF Unread, Added
<1> QED
  BY <1>1, <1>2, MovesKeep

\* Directories are made and renamed.
LEMMA MkdirKeeps ==
    ASSUME IInv, NEW u, NEW n \in Names, mkdir(u, n) PROVE IInv'
<1> USE DEF IInv
<1>1. /\ ops' = ops + 1 /\ kq' = Report(kq, u, "IN_CREATE", n, 0)
      /\ tree' = [d \in DOMAIN tree \cup {ops + 1} |-> IF d = ops + 1 THEN <<u, n>> ELSE tree[d]]
      /\ UNCHANGED <<pending, watch, nextwd>>
  BY DEF mkdir
<1>2. UNCHANGED <<wlCache, buf, pc>>
  BY Zenon DEF mkdir, monitor
<1>3. /\ "IN_CREATE" \in Kinds \ {"IN_DELETE_SELF"} /\ n \in Labels /\ kq \in Seq(Events)
      /\ \A v \in DOMAIN watch : watch[v] \in Nat
  BY DEF Kinds, Labels, Types, Wds
<1>4. Added(kq, kq', "IN_CREATE")
  BY <1>1, <1>3, ReportAdds
<1>5. Types'
  BY <1>1, <1>2, <1>3, <1>4 DEF Types, Added
<1> QED
  BY <1>1, <1>2, <1>3, <1>4, <1>5, QueueKeeps

LEMMA RenameKeeps ==
    ASSUME IInv, NEW d, NEW u, NEW n \in Names, rename(d, u, n) PROVE IInv'
<1> USE DEF IInv
<1>1. /\ ops' = ops + 1 /\ tree' = [tree EXCEPT ![d] = <<u, n>>] /\ d \in DOMAIN tree
      /\ kq' = (IF d \in Roots THEN Report(kq, d, "IN_MOVE_SELF", NONE, 0)
                ELSE Report(kq, tree[d][1], "IN_MOVED_FROM", tree[d][2], ops + 1))
      /\ pending' = (IF u = OUT THEN NONE ELSE <<u, n>>)
      /\ UNCHANGED <<watch, nextwd>>
  BY DEF rename
<1>2. UNCHANGED <<wlCache, buf, pc>>
  BY Zenon DEF rename, monitor
<1>3. /\ n \in Labels /\ NONE \in Labels /\ tree[d][2] \in Labels /\ kq \in Seq(Events)
      /\ ops + 1 \in Nat /\ \A v \in DOMAIN watch : watch[v] \in Nat
      /\ "IN_MOVE_SELF" \in Kinds \ {"IN_DELETE_SELF"}
      /\ "IN_MOVED_FROM" \in Kinds \ {"IN_DELETE_SELF"}
  BY <1>1 DEF Labels, Kinds, Types, Wds
<1>4. PICK type \in Kinds \ {"IN_DELETE_SELF"} : Added(kq, kq', type)
  <2>1. CASE d \in Roots
    <3>1. kq' = Report(kq, d, "IN_MOVE_SELF", NONE, 0)
      BY <1>1, <2>1
    <3> QED
      BY <1>3, <3>1, ReportAdds
  <2>2. CASE d \notin Roots
    <3>1. kq' = Report(kq, tree[d][1], "IN_MOVED_FROM", tree[d][2], ops + 1)
      BY <1>1, <2>2
    <3> QED
      BY <1>3, <3>1, ReportAdds
  <2> QED
    BY <2>1, <2>2
<1>6. \A e \in DOMAIN tree' : tree'[e][2] \in Labels
  BY <1>1, <1>3 DEF Types
<1>7. pending' # NONE => pending'[2] \in Labels
  BY <1>1, <1>3
<1>8. Types'
  BY <1>1, <1>2, <1>3, <1>4, <1>6, <1>7 DEF Types, Added
<1> QED
  BY <1>1, <1>2, <1>4, <1>8, QueueKeeps

LEMMA RenameEndKeeps == ASSUME IInv, rename_end PROVE IInv'
<1> USE DEF IInv
<1>1. /\ pending # NONE /\ pending' = NONE
      /\ kq' = Report(kq, pending[1], "IN_MOVED_TO", pending[2], ops)
      /\ UNCHANGED <<tree, ops, watch, nextwd>>
  BY DEF rename_end
<1>2. UNCHANGED <<wlCache, buf, pc>>
  BY Zenon DEF rename_end, monitor
<1>3. /\ "IN_MOVED_TO" \in Kinds \ {"IN_DELETE_SELF"} /\ pending[2] \in Labels
      /\ kq \in Seq(Events) /\ ops \in Nat /\ \A v \in DOMAIN watch : watch[v] \in Nat
  BY <1>1 DEF Kinds, Types, Wds
<1>4. Added(kq, kq', "IN_MOVED_TO")
  BY <1>1, <1>3, ReportAdds
<1>5. Types'
  BY <1>1, <1>2, <1>4 DEF Types, Added
<1> QED
  BY <1>1, <1>2, <1>3, <1>4, <1>5, QueueKeeps

\* What is queued when a watched directory is destroyed.
LEMMA DestroyQueue ==
    ASSUME IInv, NEW d \in DOMAIN watch, Destroy(d)
    PROVE  /\ kq' \in Seq(Events) /\ Range(kq) \subseteq Range(kq')
           /\ \A e \in Range(kq') : e \in Range(kq) \/ e.type # "IN_DELETE_SELF" \/ e.wd = watch[d]
           /\ \/ Event("IN_DELETE_SELF", watch[d], NONE, 0) \in Range(kq')
              \/ OVERFLOW \in Range(kq')
<1> DEFINE e1 == Event("IN_DELETE_SELF", watch[d], NONE, 0)
           e2 == Event("IN_IGNORED", watch[d], NONE, 0)
           q == Notify(kq, e1)
<1>1. kq' = Notify(q, e2)
  BY DEF Destroy, Report
<1>2. /\ e1 \in Events /\ e1.wd = watch[d] /\ e2 \in Events /\ e2.type = "IN_IGNORED"
      /\ kq \in Seq(Events)
  <2>1. watch[d] \in Nat
    BY DEF IInv, Types, Wds
  <2> QED
    BY <2>1 DEF Event, Events, Kinds, Labels, IInv, Types
<1> HIDE DEF e1, e2
<1>3. /\ q \in Seq(Events) /\ Range(kq) \subseteq Range(q)
      /\ Range(q) \subseteq Range(kq) \cup {e1, OVERFLOW}
      /\ e1 \in Range(q) \/ OVERFLOW \in Range(q)
  BY <1>2, NotifyFacts
<1> HIDE DEF q
<1>4. /\ kq' \in Seq(Events) /\ Range(q) \subseteq Range(kq')
      /\ Range(kq') \subseteq Range(q) \cup {e2, OVERFLOW}
  <2>1. /\ Notify(q, e2) \in Seq(Events) /\ Range(q) \subseteq Range(Notify(q, e2))
        /\ Range(Notify(q, e2)) \subseteq Range(q) \cup {e2, OVERFLOW}
    BY <1>2, <1>3, NotifyFacts
  <2> QED
    BY <1>1, <2>1
<1>5. \A e \in Range(kq') : e \in Range(kq) \/ e.type # "IN_DELETE_SELF" \/ e.wd = watch[d]
  BY <1>2, <1>3, <1>4, OverflowFacts
<1> QED
  BY <1>3, <1>4, <1>5 DEF e1

LEMMA DestroyKeeps ==
    ASSUME IInv, NEW d, Destroy(d), UNCHANGED <<wlCache, buf, pc, pending>>, ops' \in Nat,
           \A v \in DOMAIN tree' : tree'[v][2] \in Labels
    PROVE  IInv'
<1> USE DEF IInv
<1>1. /\ nextwd' = nextwd /\ DOMAIN watch' = DOMAIN watch \ {d}
      /\ \A v \in DOMAIN watch \ {d} : watch'[v] = watch[v]
  BY DEF Destroy, Without, Restrict
<1>2. Range(watch') \subseteq Range(watch)
  BY <1>1 DEF Range
<1>3. /\ kq' \in Seq(Events) /\ Range(kq) \subseteq Range(kq')
      /\ \A e \in Range(kq') : \/ e \in Range(kq) \/ e.type # "IN_DELETE_SELF"
                               \/ d \in DOMAIN watch /\ e.wd = watch[d]
      /\ d \in DOMAIN watch => \/ Event("IN_DELETE_SELF", watch[d], NONE, 0) \in Range(kq')
                               \/ OVERFLOW \in Range(kq')
  <2>1. CASE d \in DOMAIN watch
    BY <2>1, DestroyQueue
  <2>2. CASE d \notin DOMAIN watch
    BY <2>2 DEF Destroy, Report, Types
  <2> QED
    BY <2>1, <2>2
<1>4. Types' /\ Buffer'
  BY <1>1, <1>3 DEF Types, Buffer
<1>5. Wds'
  BY <1>1 DEF Wds
<1>6. WatchesCached'
  BY <1>2 DEF WatchesCached
<1>7. d \in DOMAIN watch => watch[d] \notin Range(watch') /\ watch[d] < nextwd
  BY <1>1 DEF Wds, Range, Types
<1>8. Dead'
  BY <1>1, <1>2, <1>3, <1>7 DEF Dead, Unread
<1>9. StaleEntriesEnd'
  <2> SUFFICES ASSUME pc # "exit", NEW w \in DOMAIN wlCache, w \notin Range(watch')
               PROVE  Event("IN_DELETE_SELF", w, NONE, 0) \in Unread' \/ OVERFLOW \in Unread'
    BY DEF StaleEntriesEnd
  <2>1. Unread \subseteq Unread'
    BY <1>3 DEF Unread
  <2>2. CASE w \notin Range(watch)
    BY <2>1, <2>2 DEF StaleEntriesEnd
  <2>3. CASE w \in Range(watch)
    <3>1. d \in DOMAIN watch /\ w = watch[d]
      BY <1>1, <2>3 DEF Range
    <3> QED
      BY <1>3, <3>1 DEF Unread
  <2> QED
    BY <2>2, <2>3
<1> QED
  BY <1>4, <1>5, <1>6, <1>8, <1>9

LEMMA RmdirKeeps == ASSUME IInv, NEW d, rmdir(d) PROVE IInv'
<1> USE DEF IInv
<1>1. /\ ops' = ops + 1 /\ tree' = [tree EXCEPT ![d] = <<GONE, NONE>>]
      /\ IF d \in Open(walk) THEN UNCHANGED kernel ELSE Destroy(d)
      /\ UNCHANGED pending
  BY DEF rmdir
<1>2. UNCHANGED <<wlCache, buf, pc>>
  BY Zenon DEF rmdir, monitor
<1>3. ops' \in Nat /\ \A v \in DOMAIN tree' : tree'[v][2] \in Labels
  BY <1>1 DEF Types, Labels
<1>4. CASE UNCHANGED kernel
  <2>1. UNCHANGED <<kq, watch, nextwd>>
    BY <1>4 DEF kernel
  <2>2. Types' /\ Buffer'
    BY <1>1, <1>2, <1>3, <2>1 DEF Types, Buffer
  <2>3. Unread' = Unread
    BY <1>2, <2>1 DEF Unread
  <2> QED
    BY <1>2, <2>1, <2>2, <2>3, MovesKeep
<1>5. CASE Destroy(d)
  BY <1>1, <1>2, <1>3, <1>5, DestroyKeeps
<1> QED
  BY <1>1, <1>4, <1>5

\* nftw() visits a directory: the watch and its entry appear together.
LEMMA TraverseKeeps ==
    ASSUME IInv, NEW p, NEW frames, traverseTree(p, frames),
           UNCHANGED <<tree, ops, pending, kq, buf, pc>>
    PROVE  IInv'
<1> USE DEF IInv
<1>1. Unread' = Unread
  BY DEF Unread
<1>2. CASE UNCHANGED <<watch, nextwd, wlCache>>
  <2>1. Types' /\ Buffer'
    BY <1>2 DEF Types, Buffer
  <2> QED
    BY <1>1, <1>2, <2>1, MovesKeep
<1>3. CASE Find(p) # NONE
  <2> DEFINE d == Find(p)
             wd == IF d \in DOMAIN watch THEN watch[d] ELSE nextwd
  <2>1. /\ DOMAIN watch' = DOMAIN watch \cup {d} /\ watch'[d] = wd
        /\ \A e \in DOMAIN watch \ {d} : watch'[e] = watch[e]
    BY <1>3 DEF traverseTree
  <2>2. nextwd' = IF wd = nextwd THEN nextwd + 1 ELSE nextwd
    BY <1>3 DEF traverseTree
  <2>3. DOMAIN wlCache' = DOMAIN wlCache \cup {wd}
    BY <1>3 DEF traverseTree
  <2> HIDE DEF d
  <2>4. CASE d \in DOMAIN watch
    <3>1. wd = watch[d] /\ wd # nextwd /\ nextwd' = nextwd /\ wd \in 1 .. nextwd - 1
      BY <2>2, <2>4 DEF Wds, Types
    <3>2. DOMAIN watch' = DOMAIN watch /\ \A e \in DOMAIN watch : watch'[e] = watch[e]
      BY <2>1, <2>4, <3>1
    <3>3. Range(watch') = Range(watch)
      BY <3>2 DEF Range
    <3>4. wd \in Range(watch)
      BY <2>4, <3>1 DEF Range
    <3>5. Types' /\ Buffer'
      BY <3>1 DEF Types, Buffer
    <3>6. Wds'
      BY <2>3, <3>1, <3>2 DEF Wds
    <3>7. Dead' /\ WatchesCached' /\ StaleEntriesEnd'
      BY <1>1, <2>3, <3>1, <3>3, <3>4 DEF Dead, WatchesCached, StaleEntriesEnd
    <3> QED
      BY <3>5, <3>6, <3>7
  <2>5. CASE d \notin DOMAIN watch
    <3>1. wd = nextwd /\ nextwd' = nextwd + 1 /\ nextwd \in Nat \ {0}
      BY <2>2, <2>5 DEF Types
    <3>2. Range(watch') = Range(watch) \cup {nextwd}
      BY <2>1, <2>5, <3>1 DEF Range
    <3>3. Types' /\ Buffer'
      BY <3>1 DEF Types, Buffer
    <3>4. Wds'
      <4>1. \A e \in DOMAIN watch : watch'[e] = watch[e] /\ watch[e] \in 1 .. nextwd - 1
        BY <2>1, <2>5 DEF Wds
      <4>2. watch'[d] = nextwd
        BY <2>1, <3>1
      <4>3. \A e \in DOMAIN watch' : watch'[e] \in 1 .. nextwd' - 1
        BY <2>1, <3>1, <4>1, <4>2
      <4>4. \A e, f \in DOMAIN watch' : watch'[e] = watch'[f] => e = f
        BY <2>1, <3>1, <4>1, <4>2 DEF Wds
      <4>5. \A w \in DOMAIN wlCache' : w \in 1 .. nextwd' - 1
        BY <2>3, <3>1 DEF Wds
      <4> QED
        BY <4>3, <4>4, <4>5 DEF Wds
    <3>5. Dead'
      <4> SUFFICES ASSUME NEW e \in Unread, e.type = "IN_DELETE_SELF"
                   PROVE  e.wd \notin Range(watch') /\ e.wd < nextwd'
        BY <1>1 DEF Dead
      <4>1. e.wd \in Nat
        BY UnreadEvents DEF Events
      <4>2. e.wd \notin Range(watch) /\ e.wd < nextwd
        BY DEF Dead
      <4> QED
        BY <3>1, <3>2, <4>1, <4>2
    <3>6. WatchesCached' /\ StaleEntriesEnd'
      BY <1>1, <2>3, <3>1, <3>2 DEF WatchesCached, StaleEntriesEnd
    <3> QED
      BY <3>3, <3>4, <3>5, <3>6
  <2> QED
    BY <2>4, <2>5
<1> QED
  BY <1>2, <1>3 DEF traverseTree

\* A new inotify descriptor: no watch, no entry, no event.
LEMMA ReinitKeeps ==
    ASSUME IInv, NEW roots, reinitialize(roots), UNCHANGED <<tree, ops, pending>>
    PROVE  IInv'
<1>1. /\ watch' = <<>> /\ nextwd' = 1 /\ kq' = <<>> /\ wlCache' = <<>> /\ buf' = <<>>
      /\ pc' = "walk"
  BY DEF reinitialize
<1>2. Types' /\ Buffer'
  BY <1>1 DEF IInv, Types, Buffer
<1>3. \A k \in DOMAIN <<>> : FALSE
  OBVIOUS
<1>4. Wds'
  BY <1>1, <1>3 DEF Wds
<1>5. Unread' = {} /\ Range(watch') = {}
  BY <1>1, <1>3 DEF Unread, Range
<1>6. Dead' /\ WatchesCached' /\ StaleEntriesEnd'
  BY <1>1, <1>3, <1>5 DEF Dead, WatchesCached, StaleEntriesEnd
<1> QED
  BY <1>2, <1>4, <1>6 DEF IInv

\* zapSubtree removes a watch and its entry together.
LEMMA ZapNextKeeps == ASSUME IInv, NEW w, zap_next(w) PROVE IInv'
<1> USE DEF IInv
<1>1. /\ w \in DOMAIN wlCache
      /\ wlCache' = Without(wlCache, {w})
      /\ watch' = Restrict(watch, {d \in DOMAIN watch : watch[d] # w})
      /\ kq' = Notify(kq, Event("IN_IGNORED", w, NONE, 0))
      /\ UNCHANGED nextwd
  BY DEF zap_next, Unwatch, Zapped
<1>2. UNCHANGED <<tree, ops, pending, buf, pc>>
  BY Zenon DEF zap_next, fs
<1>3. DOMAIN wlCache' = DOMAIN wlCache \ {w}
  BY <1>1 DEF Without, Restrict
<1>4. /\ DOMAIN watch' = {d \in DOMAIN watch : watch[d] # w}
      /\ \A d \in DOMAIN watch' : watch'[d] = watch[d]
  BY <1>1 DEF Restrict
<1>5. Range(watch') = Range(watch) \ {w}
  BY <1>4 DEF Range
<1> DEFINE e1 == Event("IN_IGNORED", w, NONE, 0)
<1>6. e1 \in Events /\ e1.type = "IN_IGNORED" /\ kq \in Seq(Events)
  <2>1. w \in Nat
    BY <1>1 DEF Wds, Types
  <2> QED
    BY <2>1 DEF Event, Events, Kinds, Labels, Types
<1> HIDE DEF e1
<1>7. /\ kq' \in Seq(Events) /\ Range(kq) \subseteq Range(kq')
      /\ Range(kq') \subseteq Range(kq) \cup {e1, OVERFLOW}
  <2>1. kq' = Notify(kq, e1)
    BY <1>1 DEF e1
  <2> QED
    BY <1>6, <2>1, NotifyFacts
<1>8. Types' /\ Buffer'
  BY <1>1, <1>2, <1>7 DEF Types, Buffer
<1>9. Wds'
  BY <1>1, <1>3, <1>4 DEF Wds
<1>10. Dead'
  BY <1>1, <1>2, <1>5, <1>6, <1>7, OverflowFacts DEF Dead, Unread
<1>11. WatchesCached'
  BY <1>2, <1>3, <1>5 DEF WatchesCached
<1>12. Unread \subseteq Unread'
  BY <1>2, <1>7 DEF Unread
<1>13. StaleEntriesEnd'
  BY <1>2, <1>3, <1>5, <1>12 DEF StaleEntriesEnd
<1> QED
  BY <1>8, <1>9, <1>10, <1>11, <1>13

\* An event whose watch is cached is not the overflow.
LEMMA KnownFacts ==
    ASSUME IInv, pc = "process", Known(ev)
    PROVE  /\ ev \in Events /\ ev # OVERFLOW /\ ev.wd \in DOMAIN wlCache /\ buf # <<>>
           /\ Tail(buf) \in Seq(Events)
           /\ Range(Tail(buf)) \subseteq Range(buf)
           /\ Range(buf) \subseteq Range(Tail(buf)) \cup {ev}
<1>1. buf \in Seq(Events) /\ buf # <<>>
  BY DEF IInv, Types, Buffer
<1>2. ev.wd \in DOMAIN wlCache /\ ev.wd # 0
  BY DEF Known, IInv, Wds, Types
<1> QED
  BY <1>1, <1>2, TailFacts, OverflowFacts DEF ev

\* IN_DELETE_SELF: the entry goes with the event.
LEMMA DeleteSelfKeeps == ASSUME IInv, ev_delete_self PROVE IInv'
<1> USE DEF IInv
<1>1. /\ pc = "process" /\ ev.type = "IN_DELETE_SELF" /\ Known(ev)
      /\ wlCache' = Without(wlCache, {ev.wd}) /\ buf' = Tail(buf)
      /\ pc' \in {"exit", After(Tail(buf))}
  BY DEF ev_delete_self, Processing
<1>2. UNCHANGED <<tree, ops, pending, watch, nextwd, kq>>
  BY Zenon DEF ev_delete_self, fs, kernel
<1>3. DOMAIN wlCache' = DOMAIN wlCache \ {ev.wd}
  BY <1>1 DEF Without, Restrict
<1>4. /\ ev \in Events /\ ev # OVERFLOW /\ Tail(buf) \in Seq(Events)
      /\ Range(Tail(buf)) \subseteq Range(buf)
      /\ Range(buf) \subseteq Range(Tail(buf)) \cup {ev}
  BY <1>1, KnownFacts
<1>5. ev.wd \notin Range(watch)
  <2>1. ev \in Range(buf)
    <3>1. buf \in Seq(Events) /\ buf # <<>>
      BY <1>1 DEF Types, Buffer
    <3> QED
      BY <3>1 DEF ev, Range
  <2> QED
    BY <1>1, <2>1 DEF Dead, Unread
<1>6. Types' /\ Buffer'
  BY <1>1, <1>2, <1>4 DEF Types, Buffer, After
<1>7. Wds' /\ Dead'
  BY <1>1, <1>2, <1>3, <1>4 DEF Wds, Dead, Unread, Range
<1>8. WatchesCached'
  BY <1>1, <1>2, <1>3, <1>5 DEF WatchesCached, Range
<1>9. StaleEntriesEnd'
  <2> SUFFICES ASSUME NEW w \in DOMAIN wlCache \ {ev.wd}, w \notin Range(watch)
               PROVE  Event("IN_DELETE_SELF", w, NONE, 0) \in Unread' \/ OVERFLOW \in Unread'
    BY <1>2, <1>3 DEF StaleEntriesEnd, Range
  <2>1. Event("IN_DELETE_SELF", w, NONE, 0) \in Unread \/ OVERFLOW \in Unread
    BY <1>1 DEF StaleEntriesEnd
  <2>2. Event("IN_DELETE_SELF", w, NONE, 0) # ev
    BY DEF Event
  <2>3. Unread \subseteq Unread' \cup {ev}
    BY <1>1, <1>2, <1>4 DEF Unread
  <2> QED
    BY <1>4, <2>1, <2>2, <2>3
<1> QED
  BY <1>6, <1>7, <1>8, <1>9

\* Steps that leave the kernel, the entries and the buffer alone.
LEMMA QuietKeeps ==
    ASSUME IInv, UNCHANGED <<tree, ops, pending, watch, nextwd, kq, buf>>,
           DOMAIN wlCache' = DOMAIN wlCache, Buffer', pc = "exit" => pc' = "exit"
    PROVE  IInv'
<1>1. Types' /\ Unread' = Unread
  BY DEF IInv, Types, Unread
<1> QED
  BY <1>1, MovesKeep

LEMMA WaitKeeps ==
    ASSUME IInv,
           walk_read \/ watch_done \/ select \/ ev_hanging \/ zap_end
           \/ \E p \in Args : cmd_add(p) \/ cmd_zap(p)
    PROVE  IInv'
<1>1. UNCHANGED <<tree, ops, pending, watch, nextwd, kq, buf, wlCache>>
  BY Zenon DEF walk_read, watch_done, select, ev_hanging, zap_end, cmd_add, cmd_zap, fs, kernel
<1>2. Buffer' /\ pc # "exit"
  <2>1. CASE walk_read
    BY <1>1, <2>1 DEF walk_read, Buffer
  <2>2. CASE watch_done
    BY <1>1, <2>2 DEF watch_done, Resume, After, Buffer
  <2>3. CASE select
    BY <1>1, <2>3 DEF select, IInv, Buffer
  <2>4. CASE ev_hanging
    BY <1>1, <2>4 DEF ev_hanging, Processing, IInv, Buffer
  <2>5. CASE zap_end
    BY <1>1, <2>5 DEF zap_end, Zapping, ZapReturns, Resume, After, Buffer
  <2>6. CASE \E p \in Args : cmd_add(p) \/ cmd_zap(p)
    BY <1>1, <2>6 DEF cmd_add, cmd_zap, Command, Buffer
  <2> QED
    BY <2>1, <2>2, <2>3, <2>4, <2>5, <2>6
<1> QED
  BY <1>1, <1>2, QuietKeeps

LEMMA ZapFailsKeeps == ASSUME IInv, NEW w, zap_fails(w) PROVE IInv'
<1>1. UNCHANGED <<tree, ops, pending>>
  BY Zenon DEF zap_fails, fs
<1>2. CASE pc = "zap"
  BY <1>1, <1>2, ReinitKeeps DEF zap_fails
<1>3. CASE pc # "zap"
  <2>1. /\ pc = "zap_cmd" /\ pc' = (IF starts # {} THEN "walk" ELSE Resume)
    BY <1>3 DEF zap_fails, Zapping, ZapReturns
  <2>2. UNCHANGED <<watch, nextwd, kq, buf, wlCache>>
    BY <1>3, Zenon DEF zap_fails, kernel
  <2>3. Buffer'
    BY <2>1, <2>2 DEF Resume, After, Buffer
  <2> QED
    BY <1>1, <2>1, <2>2, <2>3, QuietKeeps
<1> QED
  BY <1>2, <1>3

\* The events go from the queue to the buffer.
LEMMA RangeConcat ==
    ASSUME NEW b \in Seq(Events), NEW q \in Seq(Events)
    PROVE  b \o q \in Seq(Events) /\ Range(b \o q) = Range(b) \cup Range(q)
<1>1. /\ b \o q \in Seq(Events) /\ Len(b \o q) = Len(b) + Len(q)
      /\ \A k \in 1 .. Len(b) + Len(q) :
            (b \o q)[k] = IF k <= Len(b) THEN b[k] ELSE q[k - Len(b)]
  OBVIOUS
<1>2. /\ Len(b) \in Nat /\ Len(q) \in Nat /\ DOMAIN b = 1 .. Len(b) /\ DOMAIN q = 1 .. Len(q)
      /\ DOMAIN (b \o q) = 1 .. Len(b) + Len(q)
  BY <1>1
<1>3. Range(b \o q) \subseteq Range(b) \cup Range(q)
  <2> SUFFICES ASSUME NEW k \in 1 .. Len(b) + Len(q)
               PROVE  (b \o q)[k] \in Range(b) \cup Range(q)
    BY <1>2 DEF Range
  <2>1. CASE k <= Len(b)
    <3>1. k \in 1 .. Len(b) /\ (b \o q)[k] = b[k]
      BY <1>1, <1>2, <2>1
    <3> QED
      BY <1>2, <3>1 DEF Range
  <2>2. CASE ~(k <= Len(b))
    <3>1. k - Len(b) \in 1 .. Len(q) /\ (b \o q)[k] = q[k - Len(b)]
      BY <1>1, <1>2, <2>2
    <3> QED
      BY <1>2, <3>1 DEF Range
  <2> QED
    BY <2>1, <2>2
<1>4. Range(b) \subseteq Range(b \o q)
  <2>1. \A k \in 1 .. Len(b) : k \in 1 .. Len(b) + Len(q) /\ (b \o q)[k] = b[k]
    BY <1>1, <1>2
  <2> QED
    BY <1>2, <2>1 DEF Range
<1>5. Range(q) \subseteq Range(b \o q)
  <2> SUFFICES ASSUME NEW k \in 1 .. Len(q) PROVE q[k] \in Range(b \o q)
    BY <1>2 DEF Range
  <2>1. /\ k + Len(b) \in 1 .. Len(b) + Len(q) /\ ~(k + Len(b) <= Len(b))
        /\ (k + Len(b)) - Len(b) = k
    BY <1>2
  <2>2. (b \o q)[k + Len(b)] = q[k]
    BY <1>1, <2>1
  <2> QED
    BY <1>2, <2>1, <2>2 DEF Range
<1> QED
  BY <1>1, <1>3, <1>4, <1>5

LEMMA ReadKeeps == ASSUME IInv, read \/ read_more PROVE IInv'
<1> USE DEF IInv
<1>1. UNCHANGED <<tree, ops, pending, watch, nextwd, wlCache>>
  BY Zenon DEF read, read_more, fs
<1>2. /\ kq' = <<>> /\ pc' = "process" /\ pc # "exit" /\ kq \in Seq(Events) /\ buf \in Seq(Events)
      /\ \/ buf = <<>> /\ buf' = kq /\ kq # <<>>
         \/ buf # <<>> /\ buf' = buf \o kq
  BY DEF read, read_more, Types, Buffer
<1>3. Range(<<>>) = {}
  BY DEF Range
<1>4. buf' \in Seq(Events) /\ Range(buf') = Range(buf) \cup Range(kq) /\ buf' # <<>>
  <2>1. CASE buf = <<>> /\ buf' = kq /\ kq # <<>>
    BY <1>2, <1>3, <2>1
  <2>2. CASE buf # <<>> /\ buf' = buf \o kq
    <3>1. buf \o kq \in Seq(Events) /\ Range(buf \o kq) = Range(buf) \cup Range(kq)
      BY <1>2, RangeConcat
    <3>2. buf \o kq # <<>>
      BY <1>2, <2>2
    <3> QED
      BY <2>2, <3>1, <3>2
  <2> QED
    BY <1>2, <2>1, <2>2
<1>5. Unread' = Unread
  BY <1>2, <1>3, <1>4 DEF Unread
<1>6. Types' /\ Buffer'
  BY <1>1, <1>2, <1>4 DEF Types, Buffer
<1> QED
  BY <1>1, <1>2, <1>5, <1>6, MovesKeep

\* An event is dropped from the buffer that removes no entry.
LEMMA DropKeeps ==
    ASSUME IInv, pc = "process", ev.type \notin {"IN_DELETE_SELF", "IN_Q_OVERFLOW"},
           UNCHANGED <<tree, ops, pending, watch, nextwd, kq>>, buf' = Tail(buf),
           DOMAIN wlCache' = DOMAIN wlCache, pc' \in {"walk", "zap", After(Tail(buf))}
    PROVE  IInv'
<1>1. buf \in Seq(Events) /\ buf # <<>>
  BY DEF IInv, Types, Buffer
<1>2. /\ buf' \in Seq(Events) /\ Range(buf') \subseteq Range(buf)
      /\ Range(buf) \subseteq Range(buf') \cup {ev}
  BY <1>1, TailFacts DEF ev
<1>3. Types' /\ Buffer'
  BY <1>2 DEF IInv, Types, Buffer, After
<1>4. Unread' \subseteq Unread /\ Unread \subseteq Unread' \cup {ev}
  BY <1>2 DEF Unread
<1> QED
  BY <1>3, <1>4, MovesKeep

LEMMA EventKeeps ==
    ASSUME IInv, ev_ignored \/ ev_cached \/ ev_watch \/ ev_moved_out
    PROVE  IInv'
<1>1. UNCHANGED <<tree, ops, pending, watch, nextwd, kq, wlCache>>
  BY Zenon DEF ev_ignored, ev_cached, ev_watch, ev_moved_out, fs, kernel
<1>2. pc = "process" /\ ev.type \notin {"IN_DELETE_SELF", "IN_Q_OVERFLOW"}
  BY DEF ev_ignored, ev_cached, ev_watch, ev_moved_out, Processing
<1>3. buf \in Seq(Events) /\ buf # <<>>
  BY <1>2 DEF IInv, Types, Buffer
<1>4. SubSeq(buf, 1 + 1, Len(buf)) = Tail(buf)
  BY <1>3, TailFacts
<1>5. buf' = Tail(buf) /\ pc' \in {"walk", "zap", After(Tail(buf))}
  <2>1. CASE ev_watch \/ ev_moved_out
    BY <2>1 DEF ev_watch, ev_moved_out
  <2>2. CASE Consume(1)
    BY <1>4, <2>2 DEF Consume
  <2> QED
    BY <2>1, <2>2 DEF ev_ignored, ev_cached
<1> QED
  BY <1>1, <1>2, <1>5, DropKeeps

LEMMA MoveSelfKeeps == ASSUME IInv, ev_move_self PROVE IInv'
<1>1. UNCHANGED <<tree, ops, pending, watch, nextwd, kq, wlCache>>
  BY Zenon DEF ev_move_self, fs, kernel
<1>2. pc = "process" /\ ev.type \notin {"IN_DELETE_SELF", "IN_Q_OVERFLOW"}
  BY DEF ev_move_self, Processing
<1>3. CASE pc' = "exit" /\ buf' = buf
  <2>1. Buffer'
    BY <1>3 DEF Buffer
  <2> QED
    BY <1>1, <1>3, <2>1, QuietKeeps
<1>4. CASE pc' \in {"zap", After(Tail(buf))} /\ buf' = Tail(buf)
  BY <1>1, <1>2, <1>4, DropKeeps
<1>5. CASE root_moved
  BY <1>3, <1>4, <1>5 DEF root_moved
<1>6. CASE Consume(1)
  <2>1. buf \in Seq(Events) /\ buf # <<>>
    BY <1>2 DEF IInv, Types, Buffer
  <2>2. SubSeq(buf, 1 + 1, Len(buf)) = Tail(buf)
    BY <2>1, TailFacts
  <2> QED
    BY <1>4, <1>6, <2>2 DEF Consume
<1> QED
  BY <1>5, <1>6 DEF ev_move_self

\* Both events of a rename are dropped; the entries only change their paths.
LEMMA RenamedKeeps == ASSUME IInv, ev_renamed PROVE IInv'
<1>1. UNCHANGED <<tree, ops, pending, watch, nextwd, kq>>
  BY Zenon DEF ev_renamed, fs, kernel
<1>2. /\ pc = "process" /\ ev.type = "IN_MOVED_FROM" /\ Len(buf) > 1
      /\ buf[2].type = "IN_MOVED_TO"
      /\ buf' = SubSeq(buf, 2 + 1, Len(buf)) /\ pc' = After(buf')
  BY DEF ev_renamed, Processing, Paired, Consume
<1>3. DOMAIN wlCache' = DOMAIN wlCache
  BY DEF ev_renamed, rewriteCachedPaths
<1>4. buf \in Seq(Events) /\ buf # <<>>
  BY <1>2 DEF IInv, Types, Buffer
<1> DEFINE b == Tail(buf)
<1>5. b \in Seq(Events) /\ b # <<>> /\ Head(b) = buf[2] /\ Tail(b) = buf'
  <2>1. b \in Seq(Events) /\ Len(b) = Len(buf) - 1 /\ \A k \in 1 .. Len(b) : b[k] = buf[k + 1]
    BY <1>4
  <2>2. Len(buf) \in Nat /\ b # <<>> /\ Head(b) = buf[2]
    <3>1. Len(buf) \in Nat /\ Len(b) >= 1 /\ 1 \in 1 .. Len(b)
      BY <1>2, <1>4, <2>1
    <3>2. b[1] = buf[1 + 1] /\ 1 + 1 = 2
      BY <2>1, <3>1
    <3> HIDE DEF b
    <3>3. b # <<>> /\ Head(b) = b[1]
      BY <2>1, <3>1
    <3> QED
      BY <3>1, <3>2, <3>3
  <2>3. /\ Tail(b) \in Seq(Events) /\ Len(Tail(b)) = Len(buf) - 2
        /\ \A k \in 1 .. Len(buf) - 2 : Tail(b)[k] = buf[k + 2]
    BY <2>1, <2>2
  <2>4. /\ SubSeq(buf, 3, Len(buf)) \in Seq(Events)
        /\ Len(SubSeq(buf, 3, Len(buf))) = Len(buf) - 2
        /\ \A k \in 1 .. Len(buf) - 2 : SubSeq(buf, 3, Len(buf))[k] = buf[k + 2]
    <3>1. 3 \in 1 .. Len(buf) + 1 /\ Len(buf) \in 3 - 1 .. Len(buf)
      BY <1>2, <2>2
    <3>2. \A k \in 3 .. Len(buf) : buf[k] \in Events
      BY <1>4
    <3>3. /\ SubSeq(buf, 3, Len(buf)) \in Seq(Events)
          /\ Len(SubSeq(buf, 3, Len(buf))) = IF 3 <= Len(buf) THEN Len(buf) - 3 + 1 ELSE 0
          /\ \A k \in 1 .. Len(buf) - 3 + 1 : SubSeq(buf, 3, Len(buf))[k] = buf[3 + k - 1]
      BY <1>4, <2>2, <3>1, <3>2, SubSeqProperties
    <3>4. \A k \in 1 .. Len(buf) - 2 : k \in 1 .. Len(buf) - 3 + 1 /\ 3 + k - 1 = k + 2
      BY <2>2
    <3>5. ASSUME NEW n \in Nat, n > 1 PROVE (IF 3 <= n THEN n - 3 + 1 ELSE 0) = n - 2
      BY <3>5
    <3>6. Len(SubSeq(buf, 3, Len(buf))) = Len(buf) - 2
      BY <1>2, <2>2, <3>3, <3>5
    <3>7. \A k \in 1 .. Len(buf) - 2 : SubSeq(buf, 3, Len(buf))[k] = buf[k + 2]
      BY <3>3, <3>4
    <3> QED
      BY <3>3, <3>6, <3>7
  <2>5. Tail(b) = SubSeq(buf, 3, Len(buf))
    BY <2>3, <2>4, SeqEqual
  <2> QED
    BY <1>2, <2>1, <2>2, <2>5
<1>6. /\ Range(b) \subseteq Range(buf) /\ Range(buf) \subseteq Range(b) \cup {ev}
  BY <1>4, TailFacts DEF ev
<1>7. /\ buf' \in Seq(Events) /\ Range(buf') \subseteq Range(b)
      /\ Range(b) \subseteq Range(buf') \cup {buf[2]}
  <2> HIDE DEF b
  <2> QED
    BY <1>5, TailFacts
<1>8. Types' /\ Buffer'
  BY <1>1, <1>2, <1>7 DEF IInv, Types, Buffer, After
<1>9. Unread' \subseteq Unread /\ Unread \subseteq Unread' \cup {ev, buf[2]}
  BY <1>1, <1>6, <1>7 DEF Unread
<1> QED
  BY <1>1, <1>2, <1>3, <1>8, <1>9, MovesKeep

LEMMA IInvStep == IInv /\ [Next]_vars => IInv'
<1> SUFFICES ASSUME IInv, [Next]_vars PROVE IInv'
  OBVIOUS
<1>1. ASSUME NEW p, NEW frames, traverseTree(p, frames), watchDir \/ walk_child PROVE IInv'
  <2>1. UNCHANGED <<tree, ops, pending, kq, buf, pc>>
    BY <1>1, Zenon DEF watchDir, walk_child, fs
  <2> QED
    BY <1>1, <2>1, TraverseKeeps
<1>2. CASE watchDir \/ walk_child
  BY <1>1, <1>2 DEF watchDir, walk_child
<1>3. CASE walk_leave
  <2>1. UNCHANGED <<tree, ops, pending, wlCache, buf, pc>>
    BY <1>3, Zenon DEF walk_leave, fs
  <2>2. CASE UNCHANGED kernel
    <3>1. UNCHANGED <<watch, nextwd, kq>>
      BY <2>2 DEF kernel
    <3>2. Buffer'
      BY <2>1 DEF IInv, Buffer
    <3> QED
      BY <2>1, <3>1, <3>2, QuietKeeps
  <2>3. CASE Destroy(Top.d)
    <3>1. ops' \in Nat /\ \A v \in DOMAIN tree' : tree'[v][2] \in Labels
      BY <2>1 DEF IInv, Types
    <3> QED
      BY <2>1, <2>3, <3>1, DestroyKeeps
  <2> QED
    BY <1>3, <2>2, <2>3 DEF walk_leave
<1>4. CASE ev_unknown \/ cmd_rebuild
  <2>1. UNCHANGED <<tree, ops, pending>>
    BY <1>4, Zenon DEF ev_unknown, cmd_rebuild, fs
  <2>2. reinitialize(rootDirPaths)
    BY <1>4 DEF ev_unknown, cmd_rebuild
  <2> QED
    BY <2>1, <2>2, ReinitKeeps
<1>5. CASE Monitor
  BY <1>2, <1>3, <1>4, <1>5, WaitKeeps, ReadKeeps, EventKeeps, DeleteSelfKeeps, RenamedKeeps,
     MoveSelfKeeps, ZapNextKeeps, ZapFailsKeeps DEF Monitor
<1>6. CASE Changes
  BY <1>6, MkdirKeeps, RmdirKeeps, RenameKeeps DEF Changes
<1>7. CASE Commands
  BY <1>4, <1>7, WaitKeeps DEF Commands
<1>8. CASE UNCHANGED vars
  <2>1. UNCHANGED <<tree, ops, pending, watch, nextwd, kq, buf, wlCache, pc>>
    BY <1>8, Zenon DEF vars, fs, kernel, monitor
  <2>2. Buffer'
    BY <2>1 DEF IInv, Buffer
  <2> QED
    BY <2>1, <2>2, QuietKeeps
<1> QED
  BY <1>5, <1>6, <1>7, <1>8, RenameEndKeeps DEF Next

LEMMA IInvHolds == Spec => []IInv
  BY InitIInv, IInvStep, PTL DEF Spec

\* No event arrives from a watch that the monitor has no entry for and has not
\* removed itself: every watch the kernel has is in the cache, for every tree
\* and whatever other programs do to it while the monitor works.
THEOREM WatchesCachedHolds == Spec => []WatchesCached
<1>1. IInv => WatchesCached
  BY DEF IInv
<1> QED
  BY <1>1, IInvHolds, PTL

\* An entry whose watch is gone is never left in the cache for good: what
\* removes it is on its way, even when the kernel's queue overflows.
THEOREM StaleEntriesEndHolds == Spec => []StaleEntriesEnd
<1>1. IInv => StaleEntriesEnd
  BY DEF IInv
<1> QED
  BY <1>1, IInvHolds, PTL
=============================================================================
