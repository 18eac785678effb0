----------------------------- MODULE PollServer -----------------------------
(***************************************************************************)
(* week5/ex6.c: an echo server that serves all its connections from one    *)
(* thread with poll().  Clients connect, send and leave between any two    *)
(* steps of the server.  A descriptor is the client it is connected to.    *)
(***************************************************************************)
EXTENDS Integers, Sequences, FiniteSets

CONSTANTS
    Clients,
    MAX_FDS,        \* slots of the array fds
    MaxSends,       \* bound: messages of one client that wait to be received
    LISTEN,         \* listen_sd
    FREED,          \* -1, in the slot of a closed connection
    ZERO            \* 0, in a slot never used

ASSUME FdAssumption ==
    {LISTEN, FREED, ZERO} \cap Clients = {} /\ LISTEN # FREED /\ LISTEN # ZERO /\ FREED # ZERO

\* as many clients as the array has slots beside the listening socket: nothing
\* in the code keeps nfds below MAX_FDS
ASSUME SlotsAssumption ==
    MAX_FDS \in Nat /\ IsFiniteSet(Clients) /\ Cardinality(Clients) < MAX_FDS

VARIABLES
    fds, revents,   \* the slots of the array in use
    nfds, i, current_size, compress_array, end_server, pc,
    conn,           \* of each client: "new", "queued", "open", "closed"
    queue,          \* connections not accepted yet
    inbox,          \* messages sent and not received by the server
    left            \* clients that closed ("fin") or reset ("rst") their end

array == <<fds, revents, nfds, i, current_size, compress_array, end_server, pc>>
sockets == <<conn, queue, inbox, left>>
vars == <<array, sockets>>

Fd == Clients \cup {LISTEN, FREED, ZERO}
Slots(n) == 0 .. n - 1

Init ==
    /\ fds = [s \in Slots(1) |-> LISTEN] /\ revents = <<>>
    /\ nfds = 1 /\ i = 0 /\ current_size = 0
    /\ compress_array = TRUE /\ end_server = FALSE /\ pc = "poll"
    /\ conn = [c \in Clients |-> "new"] /\ queue = <<>>
    /\ inbox = [c \in Clients |-> 0]
    /\ left = [c \in Clients |-> "no"]

-----------------------------------------------------------------------------
(* The clients *)

connect(c) ==
    /\ conn[c] = "new" /\ pc # "done"
    /\ conn' = [conn EXCEPT ![c] = "queued"] /\ queue' = Append(queue, c)
    /\ UNCHANGED <<array, inbox, left>>

client_send(c) ==
    /\ conn[c] = "open" /\ left[c] = "no" /\ inbox[c] < MaxSends
    /\ inbox' = [inbox EXCEPT ![c] = @ + 1]
    /\ UNCHANGED <<array, conn, queue, left>>

\* a client that has closed its socket answers what it is sent with a reset
leave(c, how) ==
    /\ conn[c] = "open"
    /\ left[c] = "no" \/ (left[c] = "fin" /\ how = "rst")
    /\ left' = [left EXCEPT ![c] = how]
    /\ UNCHANGED <<array, conn, queue, inbox>>

-----------------------------------------------------------------------------
(* The server *)

\* what poll() reports of a slot
Ready(s) ==
    IF fds[s] = LISTEN THEN IF queue # <<>> THEN "in" ELSE "none"
    ELSE IF left[fds[s]] = "rst" THEN "other"
    ELSE IF inbox[fds[s]] > 0 \/ left[fds[s]] = "fin" THEN "in" ELSE "none"

poll ==
    /\ pc = "poll" /\ pc' = "loop"
    /\ \E s \in Slots(nfds) : Ready(s) # "none"
    /\ revents' = [s \in Slots(nfds) |-> Ready(s)]
    /\ current_size' = nfds /\ i' = 0
    /\ UNCHANGED <<fds, nfds, compress_array, end_server, sockets>>

\* mutant: return in place of break
poll_return ==
    /\ pc = "poll" /\ pc' = "done"
    /\ UNCHANGED <<fds, revents, nfds, i, current_size, compress_array, end_server, sockets>>

\* three minutes without an event, or an error: break
poll_break ==
    /\ pc = "poll" /\ pc' = "cleanup"
    /\ UNCHANGED <<fds, revents, nfds, i, current_size, compress_array, end_server, sockets>>

Advance == i' = i + 1 /\ pc' = "loop"

loop_idle ==
    /\ pc = "loop" /\ i < current_size
    /\ revents[i] = "none"
    /\ Advance
    /\ UNCHANGED <<fds, revents, nfds, current_size, compress_array, end_server, sockets>>

\* an unexpected result ends the server, after this round's clean-up
loop_unexpected ==
    /\ pc = "loop" /\ i < current_size
    /\ revents[i] = "other"
    /\ end_server' = TRUE /\ pc' = "compress"
    /\ UNCHANGED <<fds, revents, nfds, i, current_size, compress_array, sockets>>

\* nothing compares nfds with MAX_FDS
accept ==
    /\ pc = "loop" /\ i < current_size
    /\ revents[i] = "in" /\ fds[i] = LISTEN
    /\ queue # <<>> /\ queue' = Tail(queue)
    /\ conn' = [conn EXCEPT ![Head(queue)] = "open"]
    /\ nfds' = nfds + 1
    /\ fds' = [s \in Slots(nfds + 1) |-> IF s = nfds THEN Head(queue) ELSE fds[s]]
    /\ UNCHANGED <<revents, i, current_size, compress_array, end_server, pc, inbox, left>>

\* EWOULDBLOCK: all are accepted
accept_all ==
    /\ pc = "loop" /\ i < current_size
    /\ revents[i] = "in" /\ fds[i] = LISTEN
    /\ queue = <<>>
    /\ Advance
    /\ UNCHANGED <<fds, revents, nfds, current_size, compress_array, end_server, sockets>>

\* another error ends the server, but not this round
accept_failed ==
    /\ pc = "loop" /\ i < current_size
    /\ revents[i] = "in" /\ fds[i] = LISTEN
    /\ end_server' = TRUE
    /\ Advance
    /\ UNCHANGED <<fds, revents, nfds, current_size, compress_array, sockets>>

\* one recv() for each readable connection and round
recv ==
    /\ pc = "loop" /\ i < current_size
    /\ revents[i] = "in" /\ fds[i] # LISTEN
    /\ inbox[fds[i]] > 0 /\ left[fds[i]] # "rst"
    /\ inbox' = [inbox EXCEPT ![fds[i]] = @ - 1]
    /\ pc' = "send"
    /\ UNCHANGED <<fds, revents, nfds, i, current_size, compress_array, end_server, conn,
                   queue, left>>

\* mutant: break leaves the loop over the descriptors
send_break ==
    /\ pc = "send"
    /\ left[fds[i]] # "rst"
    /\ pc' = "compress"
    /\ UNCHANGED <<fds, revents, nfds, i, current_size, compress_array, end_server, conn,
                   queue, inbox, left>>

send ==
    /\ pc = "send"
    /\ left[fds[i]] # "rst"
    /\ Advance
    /\ UNCHANGED <<fds, revents, nfds, current_size, compress_array, end_server, conn,
                   queue, inbox, left>>

\* recv() finds the connection closed or fails, or send() fails
close_conn ==
    /\ \/ pc = "loop" /\ i < current_size /\ revents[i] = "in" /\ fds[i] # LISTEN
          /\ \/ inbox[fds[i]] = 0 /\ left[fds[i]] = "fin"
             \/ left[fds[i]] = "rst"
       \/ pc = "send" /\ left[fds[i]] = "rst"
    /\ conn' = [conn EXCEPT ![fds[i]] = "closed"]
    /\ fds' = [fds EXCEPT ![i] = FREED] /\ compress_array' = TRUE
    /\ Advance
    /\ UNCHANGED <<revents, nfds, current_size, end_server, queue, inbox, left>>

\* or the signal that comes with EPIPE, which nothing handles, ends the process
sigpipe ==
    /\ pc = "send" /\ left[fds[i]] = "rst" /\ pc' = "done"
    /\ conn' = [c \in Clients |-> IF conn[c] = "new" THEN "new" ELSE "closed"]
    /\ queue' = <<>>
    /\ UNCHANGED <<fds, revents, nfds, i, current_size, compress_array, end_server, inbox,
                   left>>

loop_end ==
    /\ pc = "loop" /\ i = current_size /\ pc' = "compress"
    /\ UNCHANGED <<fds, revents, nfds, i, current_size, compress_array, end_server, sockets>>

\* The round is over: revents and current_size are not read again, and the
\* model forgets them.
RoundEnds == revents' = <<>> /\ current_size' = 0
NextRound == pc' = IF end_server THEN "cleanup" ELSE "poll"

compress_none ==
    /\ pc = "compress" /\ ~compress_array
    /\ RoundEnds /\ i' = 0 /\ NextRound
    /\ UNCHANGED <<fds, nfds, compress_array, end_server, sockets>>

\* The loop that compresses the array reads one slot past the ones in use,
\* which holds what an earlier round left or, past the array, what the memory
\* has there.
compress_start ==
    /\ pc = "compress" /\ compress_array
    /\ compress_array' = FALSE /\ i' = 0 /\ pc' = "squeeze"
    /\ \E after \in {FREED, ZERO} :
          fds' = [s \in 0..nfds |-> IF s = nfds THEN after ELSE fds[s]]
    /\ RoundEnds
    /\ UNCHANGED <<nfds, end_server, sockets>>

\* slot s is the first freed one from i on
NextFreed(s) == s \in i .. nfds - 1 /\ fds[s] = FREED /\ \A t \in i .. s - 1 : fds[t] # FREED

\* every slot from s on moves down, and so does the one after the last
Squeezed(s) == [t \in Slots(nfds) |-> IF s <= t THEN fds[t + 1] ELSE fds[t]]

\* mutant: i-- is missing
squeeze_skip(s) ==
    /\ pc = "squeeze" /\ NextFreed(s)
    /\ fds' = Squeezed(s) /\ nfds' = nfds - 1 /\ i' = s + 1
    /\ UNCHANGED <<revents, current_size, compress_array, end_server, pc, sockets>>

squeeze(s) ==
    /\ pc = "squeeze" /\ NextFreed(s)
    /\ fds' = Squeezed(s) /\ nfds' = nfds - 1 /\ i' = s
    /\ UNCHANGED <<revents, current_size, compress_array, end_server, pc, sockets>>

squeeze_end ==
    /\ pc = "squeeze" /\ ~\E s \in Slots(nfds) : NextFreed(s)
    /\ fds' = [s \in Slots(nfds) |-> fds[s]] /\ i' = 0 /\ NextRound
    /\ UNCHANGED <<revents, nfds, current_size, compress_array, end_server, sockets>>

\* every socket in the array is closed; queued connections go with listen_sd
cleanup ==
    /\ pc = "cleanup" /\ pc' = "done"
    /\ LET closed == {fds[s] : s \in Slots(nfds)} IN
       conn' = [c \in Clients |-> IF c \in closed \/ conn[c] = "queued"
                                  THEN "closed" ELSE conn[c]]
    /\ queue' = <<>>
    /\ UNCHANGED <<fds, revents, nfds, i, current_size, compress_array, end_server, inbox,
                   left>>

-----------------------------------------------------------------------------

Server == poll \/ loop_idle \/ loop_unexpected \/ accept \/ accept_all \/ recv \/ send
          \/ close_conn \/ loop_end \/ compress_none \/ compress_start
          \/ (\E s \in Slots(nfds) : squeeze(s)) \/ squeeze_end \/ cleanup
Failures == poll_break \/ accept_failed \/ sigpipe
Next == Server \/ Failures
        \/ \E c \in Clients : connect(c) \/ client_send(c) \/ \E w \in {"fin", "rst"} : leave(c, w)

Spec == Init /\ [][Next]_vars /\ WF_vars(Server)

-----------------------------------------------------------------------------
(* Properties *)

used == {s \in Slots(nfds) : fds[s] # FREED}

\* Every connection that is open is in exactly one slot, and every slot in use
\* holds an open connection or the listening socket, also in the middle of
\* compressing the array, with several connections closed and accepted in one
\* round: none is lost, none is kept twice, and no slot in use holds what an
\* earlier round left there; poll() is given no freed slot.
SlotsExact ==
    pc # "done" =>
        /\ nfds <= MAX_FDS
        /\ fds[0] = LISTEN
        /\ \A s \in used : fds[s] = LISTEN \/ (fds[s] \in Clients /\ conn[fds[s]] = "open")
        /\ \A s, t \in used : fds[s] = fds[t] => s = t
        /\ \A c \in Clients : conn[c] = "open" => \E s \in used : fds[s] = c
        /\ pc = "poll" => used = Slots(nfds)

\* However the server ends, it leaves no connection open.
AllClosed == pc = "done" => \A c \in Clients : conn[c] \in {"new", "closed"}

\* A client that waits to be accepted, or has sent something, is not forgotten
\* for the busier ones, however often these send: it is accepted, and what it
\* sent is received, unless its connection ends.
Served ==
    \A c \in Clients :
        /\ conn[c] = "queued" ~> conn[c] # "queued"
        /\ (conn[c] = "open" /\ inbox[c] = MaxSends)
              ~> (inbox[c] < MaxSends \/ conn[c] # "open")
=============================================================================
