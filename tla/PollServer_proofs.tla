-------------------------- MODULE PollServer_proofs --------------------------
(***************************************************************************)
(* Proofs about the server of week5/ex6.c, for any number of clients that  *)
(* has room in the array of descriptors.                                   *)
(***************************************************************************)
EXTENDS PollServer, FiniteSetTheorems, SequenceTheorems,
        WellFoundedInduction, NaturalsInduction, TLAPS

Types ==
    /\ pc \in {"poll", "loop", "send", "compress", "squeeze", "cleanup", "done"}
    /\ nfds \in Nat \ {0} /\ i \in Nat /\ current_size \in Nat
    /\ conn \in [Clients -> {"new", "queued", "open", "closed"}]
    /\ queue \in Seq(Clients)

\* The queue holds each connection that waits in it once.
Queue ==
    /\ \A k \in 1 .. Len(queue) : conn[queue[k]] = "queued"
    /\ \A k, m \in 1 .. Len(queue) : queue[k] = queue[m] => k = m

\* While the array is compressed it has one slot more than are in use.
Array ==
    /\ pc \notin {"squeeze", "done"} => fds \in [Slots(nfds) -> Fd]
    /\ pc = "squeeze" => fds \in [0 .. nfds -> Fd]

\* The slots in use hold the listening socket and the open connections.
Exact ==
    pc # "done" =>
        /\ fds[0] = LISTEN
        /\ \A s \in Slots(nfds) : fds[s] # ZERO
        /\ \A s \in Slots(nfds) : fds[s] \in Clients => conn[fds[s]] = "open"
        /\ \A s, t \in Slots(nfds) : fds[s] = fds[t] /\ fds[s] # FREED => s = t
        /\ \A c \in Clients : conn[c] = "open" => \E s \in Slots(nfds) : fds[s] = c

\* Where a slot may be freed: behind the loop over the descriptors, once
\* compress_array is set, and before the loop that compresses the array.
Freed ==
    /\ pc = "poll" => \A s \in Slots(nfds) : fds[s] # FREED
    /\ pc \in {"loop", "send", "compress"} /\ ~compress_array
          => \A s \in Slots(nfds) : fds[s] # FREED
    /\ pc \in {"loop", "send"}
          => current_size <= nfds /\ \A s \in Slots(current_size) : i <= s => fds[s] # FREED
    /\ pc = "send" => i < current_size /\ fds[i] # LISTEN
    /\ pc = "squeeze" => \A s \in Slots(nfds) : s < i => fds[s] # FREED

\* The clients that may still take a slot have room in the array.
Waiting == {c \in Clients : conn[c] \in {"new", "queued"}}
Room == nfds + Cardinality(Waiting) <= 1 + Cardinality(Clients)

IInv == Types /\ Queue /\ Array /\ Exact /\ Freed /\ Room /\ AllClosed

-----------------------------------------------------------------------------

LEMMA InitIInv == Init => IInv
<1> SUFFICES ASSUME Init PROVE IInv
  OBVIOUS
<1>1. Slots(nfds) = {0}
  BY DEF Init, Slots
<1>2. Types /\ Queue /\ AllClosed
  BY DEF Init, Types, Queue, AllClosed
<1>3. Array /\ Exact /\ Freed
  BY <1>1, FdAssumption DEF Init, Array, Exact, Freed, Fd, Slots
<1>4. Waiting = Clients
  BY DEF Init, Waiting
<1>5. Room
  BY <1>4, SlotsAssumption, FS_CardinalityType DEF Init, Room
<1> QED
  BY <1>2, <1>3, <1>5 DEF IInv

\* The steps of the clients.
LEMMA ConnectKeeps == ASSUME IInv, NEW c \in Clients, connect(c) PROVE IInv'
<1> USE DEF IInv
<1>1. /\ conn[c] = "new" /\ conn' = [conn EXCEPT ![c] = "queued"]
      /\ queue' = Append(queue, c) /\ UNCHANGED array
  BY DEF connect
<1>2. UNCHANGED <<fds, nfds, i, current_size, compress_array, pc>>
  BY <1>1, Zenon DEF array
<1>3. /\ conn'[c] = "queued" /\ \A d \in Clients : d # c => conn'[d] = conn[d]
      /\ conn' \in [Clients -> {"new", "queued", "open", "closed"}]
  BY <1>1 DEF Types
<1>4. Types'
  BY <1>1, <1>2, <1>3 DEF Types
<1>5. /\ Len(queue') = Len(queue) + 1 /\ queue'[Len(queue) + 1] = c
      /\ \A k \in 1 .. Len(queue) : queue'[k] = queue[k] /\ queue[k] \in Clients /\ queue[k] # c
  BY <1>1 DEF Types, Queue
<1>6. Queue'
  BY <1>3, <1>5 DEF Queue, Types
<1>7. Waiting' = Waiting
  BY <1>1, <1>3 DEF Waiting
<1>8. Room'
  BY <1>2, <1>7 DEF Room
<1>9. Exact'
  BY <1>1, <1>2, <1>3 DEF Exact
<1>10. Array' /\ Freed'
  BY <1>2, Zenon DEF Array, Freed
<1>11. AllClosed'
  BY <1>2, <1>3 DEF AllClosed, connect
<1> QED
  BY <1>4, <1>6, <1>8, <1>9, <1>10, <1>11

\* A step that leaves the connections, the slots and the queue alone.
LEMMA FrameKeeps ==
    ASSUME IInv, UNCHANGED <<array, conn, queue>> PROVE IInv'
<1>1. UNCHANGED <<fds, nfds, i, current_size, compress_array, pc, conn, queue>>
  BY Zenon DEF array
<1>2. Types' /\ Queue' /\ AllClosed'
  BY <1>1, Zenon DEF IInv, Types, Queue, AllClosed
<1>3. Array' /\ Exact' /\ Freed'
  BY <1>1, Zenon DEF IInv, Array, Exact, Freed
<1>4. Room'
  BY <1>1, Zenon DEF IInv, Room, Waiting
<1> QED
  BY <1>2, <1>3, <1>4 DEF IInv

\* Steps of the server that leave the slots and the connections alone.
LEMMA SlotsKept ==
    ASSUME IInv, UNCHANGED <<fds, nfds, conn, queue>>,
           pc \in {"poll", "loop", "send", "compress"},
           pc' \in {"poll", "loop", "send", "compress", "cleanup"},
           i' \in Nat, current_size' \in Nat, Freed'
    PROVE  IInv'
<1> USE DEF IInv
<1>1. Types' /\ AllClosed'
  BY DEF Types, AllClosed
<1>2. Queue' /\ Array' /\ Exact' /\ Room'
  BY DEF Queue, Array, Exact, Room, Waiting
<1> QED
  BY <1>1, <1>2

LEMMA PollKeeps == ASSUME IInv, poll \/ poll_break PROVE IInv'
<1>1. CASE poll
  <2>1. /\ pc = "poll" /\ pc' = "loop" /\ current_size' = nfds /\ i' = 0
        /\ UNCHANGED <<fds, nfds, conn, queue>>
    BY <1>1 DEF poll, sockets
  <2>2. Freed'
    BY <2>1 DEF IInv, Freed, Types, Slots
  <2> QED
    BY <2>1, <2>2, SlotsKept DEF IInv, Types
<1>2. CASE poll_break
  <2>1. /\ pc = "poll" /\ pc' = "cleanup" /\ UNCHANGED <<fds, nfds, conn, queue, i, current_size>>
    BY <1>2 DEF poll_break, sockets
  <2>2. Freed'
    BY <2>1 DEF Freed
  <2> QED
    BY <2>1, <2>2, SlotsKept DEF IInv, Types
<1> QED
  BY <1>1, <1>2

\* A step to the next descriptor.
LEMMA AdvanceKeeps ==
    ASSUME IInv, loop_idle \/ accept_all \/ accept_failed \/ send PROVE IInv'
<1>1. /\ pc \in {"loop", "send"} /\ i' = i + 1 /\ pc' = "loop"
      /\ UNCHANGED <<fds, nfds, conn, queue, current_size>>
  BY DEF loop_idle, accept_all, accept_failed, send, Advance, sockets
<1>2. compress_array' = compress_array
  BY Zenon DEF loop_idle, accept_all, accept_failed, send
<1>3. Freed'
  BY <1>1, <1>2 DEF IInv, Freed, Types, Slots
<1> QED
  BY <1>1, <1>3, SlotsKept DEF IInv, Types

LEMMA LoopKeeps == ASSUME IInv, loop_unexpected \/ loop_end \/ recv PROVE IInv'
<1>1. compress_array' = compress_array
  BY Zenon DEF loop_unexpected, loop_end, recv
<1>2. CASE recv
  <2>1. /\ pc = "loop" /\ i < current_size /\ fds[i] # LISTEN /\ pc' = "send"
        /\ UNCHANGED <<fds, nfds, conn, queue, i, current_size>>
    BY <1>2 DEF recv
  <2>2. Freed'
    BY <1>1, <2>1 DEF IInv, Freed
  <2> QED
    BY <2>1, <2>2, SlotsKept DEF IInv, Types
<1>3. CASE loop_unexpected \/ loop_end
  <2>1. /\ pc = "loop" /\ pc' = "compress"
        /\ UNCHANGED <<fds, nfds, conn, queue, i, current_size>>
    BY <1>3 DEF loop_unexpected, loop_end, sockets
  <2>2. Freed'
    BY <1>1, <2>1 DEF IInv, Freed
  <2> QED
    BY <2>1, <2>2, SlotsKept DEF IInv, Types
<1> QED
  BY <1>2, <1>3

LEMMA CompressNoneKeeps == ASSUME IInv, compress_none PROVE IInv'
<1>1. /\ pc = "compress" /\ pc' \in {"cleanup", "poll"} /\ i' = 0 /\ current_size' = 0
      /\ UNCHANGED <<fds, nfds, conn, queue>>
  BY DEF compress_none, RoundEnds, NextRound, sockets
<1>2. ~compress_array
  BY Zenon DEF compress_none
<1>3. Freed'
  BY <1>1, <1>2 DEF IInv, Freed
<1> QED
  BY <1>1, <1>3, SlotsKept

\* A connection is accepted: it takes the slot after the last.
LEMMA AcceptKeeps == ASSUME IInv, accept PROVE IInv'
<1> USE DEF IInv
<1> DEFINE h == Head(queue)
<1>1. /\ pc = "loop" /\ i < current_size /\ queue # <<>> /\ queue' = Tail(queue)
      /\ conn' = [conn EXCEPT ![h] = "open"]
      /\ nfds' = nfds + 1
      /\ fds' = [s \in Slots(nfds + 1) |-> IF s = nfds THEN h ELSE fds[s]]
      /\ UNCHANGED <<i, current_size, pc>>
  BY DEF accept
<1>2. compress_array' = compress_array
  BY Zenon DEF accept
<1>3. /\ h \in Clients /\ conn[h] = "queued" /\ h = queue[1] /\ Len(queue) \in Nat \ {0}
      /\ Len(queue') = Len(queue) - 1 /\ queue' \in Seq(Clients)
      /\ \A k \in 1 .. Len(queue') : queue'[k] = queue[k + 1]
  BY <1>1 DEF Types, Queue
<1>4. /\ conn'[h] = "open" /\ \A d \in Clients : d # h => conn'[d] = conn[d]
      /\ conn' \in [Clients -> {"new", "queued", "open", "closed"}]
  BY <1>1, <1>3 DEF Types
<1>5. Types' /\ AllClosed'
  BY <1>1, <1>3, <1>4 DEF Types, AllClosed
<1>6. Queue'
  <2>1. \A k \in 1 .. Len(queue') : k + 1 \in 1 .. Len(queue) /\ queue[k + 1] # h
        /\ queue[k + 1] \in Clients
    BY <1>3 DEF Queue, Types
  <2>2. \A k \in 1 .. Len(queue') : conn'[queue'[k]] = "queued"
    BY <1>3, <1>4, <2>1 DEF Queue
  <2>3. \A k, m \in 1 .. Len(queue') : queue'[k] = queue'[m] => k = m
    BY <1>3, <2>1 DEF Queue
  <2> QED
    BY <2>2, <2>3 DEF Queue
<1>7. /\ Slots(nfds') = Slots(nfds) \cup {nfds} /\ nfds \notin Slots(nfds)
      /\ 0 \in Slots(nfds) /\ nfds \in Nat
  BY <1>1 DEF Slots, Types
<1>8. fds'[nfds] = h /\ \A s \in Slots(nfds) : fds'[s] = fds[s]
  BY <1>1, <1>7
<1>9. Array'
  BY <1>1, <1>3, <1>7 DEF Array, Fd
<1>10. \A s \in Slots(nfds) : fds[s] # h
  BY <1>1, <1>3 DEF Exact
<1>11. Exact'
  BY <1>1, <1>3, <1>4, <1>7, <1>8, <1>10, FdAssumption DEF Exact
<1>12. Freed'
  BY <1>1, <1>2, <1>3, <1>7, <1>8, FdAssumption DEF Freed, Slots, Types
<1>13. Room'
  <2>1. Waiting' = Waiting \ {h} /\ h \in Waiting
    BY <1>3, <1>4 DEF Waiting
  <2>2. IsFiniteSet(Waiting)
    BY SlotsAssumption, FS_Subset DEF Waiting
  <2>3. Cardinality(Waiting') = Cardinality(Waiting) - 1 /\ Cardinality(Waiting) \in Nat
    BY <2>1, <2>2, FS_RemoveElement, FS_CardinalityType
  <2> QED
    BY <1>1, <2>3, SlotsAssumption, FS_CardinalityType DEF Room, Types
<1> QED
  BY <1>5, <1>6, <1>9, <1>11, <1>12, <1>13

\* A connection is closed: its slot is freed, and compress_array is set.
LEMMA CloseKeeps == ASSUME IInv, close_conn PROVE IInv'
<1> USE DEF IInv
<1> DEFINE c == fds[i]
<1>1. /\ \/ pc = "loop" /\ i < current_size /\ fds[i] # LISTEN
         \/ pc = "send"
      /\ conn' = [conn EXCEPT ![c] = "closed"]
      /\ fds' = [fds EXCEPT ![i] = FREED]
      /\ i' = i + 1 /\ pc' = "loop"
      /\ UNCHANGED <<nfds, current_size, queue>>
  BY DEF close_conn, Advance
<1>2. compress_array' = TRUE
  BY Zenon DEF close_conn
<1>3. i \in Slots(current_size) /\ i \in Slots(nfds) /\ fds[i] # LISTEN /\ fds[i] # FREED
  BY <1>1 DEF Freed, Types, Slots
<1>4. c \in Clients /\ conn[c] = "open"
  BY <1>1, <1>3 DEF Array, Exact, Fd
<1>5. /\ conn'[c] = "closed" /\ \A d \in Clients : d # c => conn'[d] = conn[d]
      /\ conn' \in [Clients -> {"new", "queued", "open", "closed"}]
  BY <1>1, <1>4 DEF Types
<1>6. Types' /\ AllClosed'
  BY <1>1, <1>5 DEF Types, AllClosed
<1>7. Queue'
  BY <1>1, <1>4, <1>5 DEF Queue, Types
<1>8. fds'[i] = FREED /\ \A s \in Slots(nfds) : s # i => fds'[s] = fds[s]
  BY <1>1, <1>3 DEF Array
<1>9. Array'
  BY <1>1, <1>3 DEF Array, Fd
<1>10. Exact'
  <2>1. 0 \in Slots(nfds) /\ i # 0 /\ fds[0] = LISTEN
    BY <1>1, <1>3 DEF Exact, Types, Slots
  <2>2. \A s \in Slots(nfds) : s # i => fds[s] # c
    BY <1>1, <1>3 DEF Exact
  <2> QED
    BY <1>1, <1>3, <1>4, <1>5, <1>8, <2>1, <2>2, FdAssumption DEF Exact
<1>11. Freed'
  <2>1. \A s \in Slots(current_size) : i + 1 <= s => s \in Slots(nfds) /\ s # i /\ i <= s
    BY <1>1 DEF Freed, Types, Slots
  <2> QED
    BY <1>1, <1>2, <1>8, <2>1 DEF Freed
<1>12. Waiting' = Waiting
  BY <1>4, <1>5 DEF Waiting
<1>13. Room'
  BY <1>1, <1>12 DEF Room
<1> QED
  BY <1>6, <1>7, <1>9, <1>10, <1>11, <1>13

LEMMA CompressStartKeeps == ASSUME IInv, compress_start PROVE IInv'
<1> USE DEF IInv
<1>1. PICK after \in {FREED, ZERO} :
        fds' = [s \in 0 .. nfds |-> IF s = nfds THEN after ELSE fds[s]]
  BY DEF compress_start
<1>2. /\ pc = "compress" /\ i' = 0 /\ pc' = "squeeze" /\ current_size' = 0
      /\ UNCHANGED <<nfds, conn, queue>>
  BY DEF compress_start, RoundEnds, sockets
<1>3. \A s \in Slots(nfds) : s \in 0 .. nfds /\ s # nfds /\ fds'[s] = fds[s]
  BY <1>1 DEF Slots, Types
<1>4. 0 \in Slots(nfds) /\ nfds \in Nat
  BY DEF Slots, Types
<1>5. Types' /\ AllClosed' /\ Queue' /\ Room'
  BY <1>2 DEF Types, AllClosed, Queue, Room, Waiting
<1>6. Array'
  <2>1. \A s \in 0 .. nfds : s # nfds => s \in Slots(nfds)
    BY <1>4 DEF Slots
  <2> QED
    BY <1>1, <1>2, <2>1 DEF Array, Fd
<1>7. Exact'
  BY <1>2, <1>3, <1>4 DEF Exact
<1>8. Freed'
  BY <1>2, <1>4 DEF Freed, Slots
<1> QED
  BY <1>5, <1>6, <1>7, <1>8

\* A freed slot is squeezed out: the slots in use hold what they held without
\* it, and the value past them is past them again.
LEMMA SqueezeKeeps == ASSUME IInv, NEW s \in Slots(nfds), squeeze(s) PROVE IInv'
<1> USE DEF IInv
<1>1. /\ pc = "squeeze" /\ s \in i .. nfds - 1 /\ fds[s] = FREED
      /\ \A t \in i .. s - 1 : fds[t] # FREED
      /\ fds' = Squeezed(s) /\ nfds' = nfds - 1 /\ i' = s
      /\ UNCHANGED <<current_size, pc, conn, queue>>
  BY DEF squeeze, NextFreed, sockets
<1>2. s \in Nat /\ 1 <= s /\ s < nfds /\ nfds \in Nat
  BY <1>1, FdAssumption DEF Exact, Types, Slots
<1>3. /\ fds' = [t \in 0 .. nfds - 1 |-> IF s <= t THEN fds[t + 1] ELSE fds[t]]
      /\ 0 .. nfds' = 0 .. nfds - 1
  BY <1>1 DEF Squeezed, Slots
<1>4. \A t \in Slots(nfds') : /\ t \in Slots(nfds) /\ t \in 0 .. nfds - 1
                              /\ t + 1 \in Slots(nfds)
                              /\ fds'[t] = IF s <= t THEN fds[t + 1] ELSE fds[t]
  BY <1>1, <1>2, <1>3 DEF Slots
<1>5. Types' /\ AllClosed' /\ Queue'
  BY <1>1, <1>2 DEF Types, AllClosed, Queue
<1>6. Array'
  <2>1. \A t \in 0 .. nfds - 1 : t \in 0 .. nfds /\ t + 1 \in 0 .. nfds
    BY <1>2
  <2>2. fds' \in [0 .. nfds - 1 -> Fd]
    BY <1>1, <1>3, <2>1 DEF Array
  <2> QED
    BY <1>1, <1>3, <2>2 DEF Array
<1>7. Exact'
  <2>1. 0 \in Slots(nfds') /\ ~(s <= 0)
    BY <1>1, <1>2 DEF Slots
  <2>2. fds'[0] = LISTEN
    BY <1>1, <1>4, <2>1 DEF Exact
  <2>3. \A t \in Slots(nfds') : fds'[t] # ZERO
    BY <1>1, <1>4 DEF Exact
  <2>4. \A t \in Slots(nfds') : fds'[t] \in Clients => conn'[fds'[t]] = "open"
    BY <1>1, <1>4 DEF Exact
  <2>5. \A t, u \in Slots(nfds') : fds'[t] = fds'[u] /\ fds'[t] # FREED => t = u
    <3> SUFFICES ASSUME NEW t \in Slots(nfds'), NEW u \in Slots(nfds'),
                        fds'[t] = fds'[u], fds'[t] # FREED
                 PROVE  t = u
      OBVIOUS
    <3> DEFINE old(x) == IF s <= x THEN x + 1 ELSE x
    <3>1. old(t) \in Slots(nfds) /\ old(u) \in Slots(nfds)
          /\ fds'[t] = fds[old(t)] /\ fds'[u] = fds[old(u)]
      BY <1>4
    <3>2. old(t) = old(u)
      BY <1>1, <3>1 DEF Exact
    <3>3. t \in Nat /\ u \in Nat
      BY <1>1, <1>2 DEF Slots
    <3> QED
      BY <1>2, <3>2, <3>3
  <2>6. \A c \in Clients : conn'[c] = "open" => \E t \in Slots(nfds') : fds'[t] = c
    <3> SUFFICES ASSUME NEW c \in Clients, conn[c] = "open"
                 PROVE  \E t \in Slots(nfds') : fds'[t] = c
      BY <1>1
    <3>1. PICK t \in Slots(nfds) : fds[t] = c
      BY <1>1 DEF Exact
    <3>2. t # s
      BY <1>1, <3>1, FdAssumption
    <3>3. CASE t < s
      <4>1. t \in Slots(nfds') /\ ~(s <= t)
        BY <1>1, <1>2, <3>3 DEF Slots
      <4> QED
        BY <1>4, <3>1, <4>1
    <3>4. CASE t > s
      <4>1. t - 1 \in Slots(nfds') /\ s <= t - 1 /\ (t - 1) + 1 = t
        BY <1>1, <1>2, <3>4 DEF Slots
      <4> QED
        BY <1>4, <3>1, <4>1
    <3> QED
      BY <1>2, <3>2, <3>3, <3>4 DEF Slots
  <2> QED
    BY <2>2, <2>3, <2>4, <2>5, <2>6 DEF Exact
<1>8. Freed'
  <2>1. \A t \in Slots(nfds') : t < s => ~(s <= t) /\ fds[t] # FREED
    BY <1>1, <1>2, <1>4 DEF Freed, Types, Slots
  <2> QED
    BY <1>1, <1>4, <2>1 DEF Freed
<1>9. Room'
  <2>1. Waiting' = Waiting
    BY <1>1 DEF Waiting
  <2>2. IsFiniteSet(Waiting) /\ Cardinality(Waiting) \in Nat /\ Cardinality(Clients) \in Nat
    BY SlotsAssumption, FS_Subset, FS_CardinalityType DEF Waiting
  <2> QED
    BY <1>1, <1>2, <2>1, <2>2 DEF Room
<1> QED
  BY <1>5, <1>6, <1>7, <1>8, <1>9

\* Past the last slot none in use is freed: those before i were not, and those
\* from i on were looked at.
LEMMA SqueezeEndKeeps == ASSUME IInv, squeeze_end PROVE IInv'
<1> USE DEF IInv
<1>1. /\ pc = "squeeze" /\ ~\E s \in Slots(nfds) : NextFreed(s)
      /\ fds' = [s \in Slots(nfds) |-> fds[s]] /\ i' = 0 /\ pc' \in {"cleanup", "poll"}
      /\ UNCHANGED <<nfds, current_size, conn, queue>>
  BY DEF squeeze_end, NextRound, sockets
<1>2. \A s \in Slots(nfds) : fds[s] # FREED
  <2> SUFFICES ASSUME NEW s \in Slots(nfds), fds[s] = FREED PROVE FALSE
    OBVIOUS
  <2> DEFINE S == {t \in Slots(nfds) : fds[t] = FREED}
  <2>1. S \subseteq Nat /\ S # {}
    BY DEF Types, Slots
  <2>2. PICK m \in S : \A t \in S : m <= t
    <3>1. PICK m \in S : \A t \in S : <<t, m>> \notin OpToRel(<, Nat)
      BY <2>1, NatLessThanWellFounded, WFMin
    <3>2. \A t, u \in Nat : t < u => <<t, u>> \in OpToRel(<, Nat)
      BY DEF OpToRel
    <3> HIDE DEF S
    <3>3. \A t \in S : t \in Nat /\ m \in Nat /\ ~(t < m)
      BY <2>1, <3>1, <3>2
    <3>4. \A t \in S : m <= t
      BY <3>3
    <3> QED
      BY <3>4
  <2>3. m \in i .. nfds - 1
    BY <1>1 DEF Freed, Types, Slots
  <2>4. \A t \in i .. m - 1 : fds[t] # FREED
    BY <2>2, <2>3 DEF Types, Slots
  <2> QED
    BY <1>1, <2>3, <2>4 DEF NextFreed
<1>3. Types' /\ AllClosed' /\ Queue' /\ Room'
  BY <1>1 DEF Types, AllClosed, Queue, Room, Waiting
<1>4. \A s \in Slots(nfds) : s \in 0 .. nfds /\ fds'[s] = fds[s]
  BY <1>1 DEF Slots, Types
<1>5. Array'
  BY <1>1, <1>4 DEF Array
<1>6. 0 \in Slots(nfds)
  BY DEF Slots, Types
<1>7. Exact'
  BY <1>1, <1>4, <1>6 DEF Exact
<1>8. Freed'
  BY <1>1, <1>2, <1>4 DEF Freed
<1> QED
  BY <1>3, <1>5, <1>7, <1>8

\* The server ends: what is open is in a slot, and is closed with it.
LEMMA EndKeeps == ASSUME IInv, cleanup \/ sigpipe PROVE IInv'
<1> USE DEF IInv
<1>1. /\ pc \in {"cleanup", "send"} /\ pc' = "done" /\ queue' = <<>>
      /\ UNCHANGED <<nfds, i, current_size>>
  BY DEF cleanup, sigpipe
<1>2. /\ conn' \in [Clients -> {"new", "queued", "open", "closed"}]
      /\ \A c \in Clients : conn'[c] \in {"new", "closed"} /\ (conn'[c] = "new" => conn[c] = "new")
  <2>1. CASE sigpipe
    BY <2>1 DEF sigpipe, Types
  <2>2. CASE cleanup
    <3> DEFINE closed == {fds[s] : s \in Slots(nfds)}
    <3>1. conn' = [c \in Clients |-> IF c \in closed \/ conn[c] = "queued"
                                     THEN "closed" ELSE conn[c]]
      BY <2>2 DEF cleanup
    <3>2. \A c \in Clients : conn[c] = "open" => c \in closed
      BY <1>1 DEF Exact
    <3> HIDE DEF closed
    <3> QED
      BY <3>1, <3>2 DEF Types
  <2> QED
    BY <2>1, <2>2
<1>3. Types' /\ AllClosed' /\ Queue'
  BY <1>1, <1>2 DEF Types, AllClosed, Queue
<1>4. Array' /\ Exact' /\ Freed'
  BY <1>1 DEF Array, Exact, Freed
<1>5. Room'
  <2>1. Waiting' \subseteq Waiting
    BY <1>2 DEF Waiting
  <2>2. IsFiniteSet(Waiting) /\ Cardinality(Clients) \in Nat
    BY SlotsAssumption, FS_Subset, FS_CardinalityType DEF Waiting
  <2>3. /\ Cardinality(Waiting') <= Cardinality(Waiting)
        /\ Cardinality(Waiting') \in Nat /\ Cardinality(Waiting) \in Nat
    BY <2>1, <2>2, FS_Subset, FS_CardinalityType
  <2> QED
    BY <1>1, <2>2, <2>3 DEF Room, Types
<1> QED
  BY <1>3, <1>4, <1>5

LEMMA IInvStep == IInv /\ [Next]_vars => IInv'
<1> SUFFICES ASSUME IInv, [Next]_vars PROVE IInv'
  OBVIOUS
<1>1. CASE Server
  BY <1>1, PollKeeps, AdvanceKeeps, LoopKeeps, AcceptKeeps, CloseKeeps, CompressNoneKeeps,
     CompressStartKeeps, SqueezeKeeps, SqueezeEndKeeps, EndKeeps DEF Server
<1>2. CASE Failures
  BY <1>2, PollKeeps, AdvanceKeeps, EndKeeps DEF Failures
<1>3. ASSUME NEW c \in Clients, connect(c) PROVE IInv'
  BY <1>3, ConnectKeeps
<1>4. ASSUME NEW c \in Clients, client_send(c) \/ \E w \in {"fin", "rst"} : leave(c, w)
      PROVE  IInv'
  <2>1. UNCHANGED <<array, conn, queue>>
    BY <1>4, Zenon DEF client_send, leave
  <2> QED
    BY <2>1, FrameKeeps
<1>5. CASE UNCHANGED vars
  <2>1. UNCHANGED <<array, conn, queue>>
    BY <1>5, Zenon DEF vars, sockets
  <2> QED
    BY <2>1, FrameKeeps
<1> QED
  BY <1>1, <1>2, <1>3, <1>4, <1>5 DEF Next

LEMMA IInvHolds == Spec => []IInv
  BY InitIInv, IInvStep, PTL DEF Spec

LEMMA IInvExact == IInv => SlotsExact
<1> SUFFICES ASSUME IInv, pc # "done" PROVE SlotsExact
  BY DEF SlotsExact
<1> USE DEF IInv
<1>1. nfds <= MAX_FDS
  <2>1. IsFiniteSet(Waiting) /\ Cardinality(Waiting) \in Nat /\ Cardinality(Clients) \in Nat
    BY SlotsAssumption, FS_Subset, FS_CardinalityType DEF Waiting
  <2> QED
    BY <2>1, SlotsAssumption DEF Room, Types
<1>2. \A s \in used : s \in Slots(nfds) /\ fds[s] \in Fd
  BY DEF used, Array, Types, Slots
<1>3. \A s \in used : fds[s] = LISTEN \/ (fds[s] \in Clients /\ conn[fds[s]] = "open")
  BY <1>2 DEF used, Exact, Fd
<1>4. \A s, t \in used : fds[s] = fds[t] => s = t
  BY DEF used, Exact
<1>5. \A c \in Clients : conn[c] = "open" => \E s \in used : fds[s] = c
  BY FdAssumption DEF used, Exact
<1>6. pc = "poll" => used = Slots(nfds)
  BY DEF used, Freed
<1> QED
  BY <1>1, <1>3, <1>4, <1>5, <1>6 DEF SlotsExact, Exact

\* The slots in use hold the listening socket and every open connection once,
\* and poll() is given no freed slot, whatever the clients do and however many
\* of them there are, as long as the array has a slot for each.
THEOREM SlotsExactHolds == Spec => []SlotsExact
  BY IInvHolds, IInvExact, PTL

\* However the server ends, no connection stays open.
THEOREM AllClosedHolds == Spec => []AllClosed
<1>1. IInv => AllClosed
  BY DEF IInv
<1> QED
  BY <1>1, IInvHolds, PTL
=============================================================================
