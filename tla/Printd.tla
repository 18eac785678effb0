------------------------------- MODULE Printd -------------------------------
(***************************************************************************)
(* apue.3e/printer/printd.c: the print spooler daemon.  A client thread    *)
(* stores one document in the spool directory, a data file and then a      *)
(* control file, answers its client and queues the job; the printer thread *)
(* sends queued jobs to the printer and deletes the files of those it      *)
(* accepted; main rebuilds the queue from the control files on start-up.   *)
(*                                                                         *)
(* A step is one system call or one section under a mutex.  The daemon may *)
(* exit or be killed between any two steps; what is in the spool directory *)
(* stays.  A document is the client that sent it.                          *)
(***************************************************************************)
EXTENDS Integers, Sequences

CONSTANTS
    Clients,        \* one connection each, one thread each
    MaxJob,         \* bound: job numbers handed out
    MaxExits,       \* bound: exits and kills of the daemon
    MaxFaults,      \* bound: failures of creat, write, open and read on the spool
    NONE

Num == 1..MaxJob
SHORT == "short"    \* a control file that is not a whole struct printreq

ASSUME BoundsAssumption == MaxJob \in Nat
ASSUME NoneAssumption ==
    /\ NONE \notin Clients /\ SHORT \notin Clients /\ NONE # SHORT
    /\ NONE \notin [id : Num, req : Clients]

VARIABLES
    \* on disk
    jobfile,        \* the job number file; 0 = empty
    data, ctl,      \* spool files by number: NONE, whose document, whose request
    \* in the daemon
    main,           \* where main is
    todo,           \* control files build_qonstart has not read yet
    nextjob, jobs, reread,
    pc, job,        \* client threads and their job numbers
    ppc, jp,        \* the printer thread and the job it has in hand
    \* bounds and history
    exits, faults,
    acked,          \* clients that were told their job number
    printed,        \* clients whose job the printer said it accepted
    lost,           \* numbers handed out while the spool held files of that number,
                    \* or whose request could not be read on start-up
    added, served   \* jobs queued by, and let go by, this run of the daemon

disk == <<jobfile, data, ctl>>
client == <<pc, job, acked>>
printer == <<ppc, jp, reread, printed, served>>
queue == <<jobs, added>>
vars == <<disk, main, todo, nextjob, queue, client, printer, exits, faults, lost>>

Job(id, c) == [id |-> id, req |-> c]
Fault == faults < MaxFaults /\ faults' = faults + 1

-----------------------------------------------------------------------------
(* main *)

Init ==
    /\ jobfile = 0 /\ nextjob = 0
    /\ data = [n \in Num |-> NONE] /\ ctl = [n \in Num |-> NONE]
    /\ main = "down" /\ todo = {}
    /\ jobs = <<>> /\ added = <<>> /\ served = <<>>
    /\ pc = [c \in Clients |-> "new"] /\ job = [c \in Clients |-> 0]
    /\ ppc = "down" /\ jp = NONE /\ reread = FALSE
    /\ exits = 0 /\ faults = 0
    /\ acked = {} /\ printed = {} /\ lost = {}

\* init_request reads the next number; the threads start before the queue is
\* rebuilt.  One daemon runs: the record lock on the job file sees to it.
start ==
    /\ main = "down" /\ main' = "build"
    /\ nextjob' = IF jobfile = 0 THEN 1 ELSE jobfile
    /\ todo' = {n \in Num : ctl[n] # NONE}
    /\ ppc' = "get" /\ reread' = FALSE
    /\ UNCHANGED <<disk, queue, client, jp, printed, served, exits, faults, lost>>

\* add_job, up to the signal
Queue(j) == jobs' = Append(jobs, j) /\ added' = Append(added, j)
pthread_cond_signal == ppc' = IF ppc = "wait" THEN "get" ELSE ppc

\* mutant: the entry is read again
build_add_again(n) ==
    /\ main = "build" /\ main' = "signal"
    /\ n \in todo /\ Len(added) < MaxJob + 1
    /\ ctl[n] # NONE /\ ctl[n] # SHORT
    /\ Queue(Job(n, ctl[n]))
    /\ UNCHANGED <<disk, todo, nextjob, client, printer, exits, faults, lost>>

\* build_qonstart: a whole request is queued, a short one is removed
build_add(n) ==
    /\ main = "build" /\ main' = "signal"
    /\ n \in todo /\ todo' = todo \ {n}
    /\ ctl[n] # NONE /\ ctl[n] # SHORT
    /\ Queue(Job(n, ctl[n]))
    /\ UNCHANGED <<disk, nextjob, client, printer, exits, faults, lost>>

build_signal ==
    /\ main = "signal" /\ main' = "build"
    /\ pthread_cond_signal
    /\ UNCHANGED <<disk, todo, nextjob, queue, client, jp, reread, printed, served,
                   exits, faults, lost>>

build_short(n) ==
    /\ main = "build"
    /\ n \in todo /\ todo' = todo \ {n}
    /\ ctl[n] = SHORT
    /\ ctl' = [ctl EXCEPT ![n] = NONE]
    /\ data' = [data EXCEPT ![n] = NONE]
    /\ UNCHANGED <<jobfile, main, nextjob, queue, client, printer, exits, faults, lost>>

\* a request that cannot be opened is passed over; one that cannot be read is
\* taken for a short one
build_skip(n) ==
    /\ main = "build"
    /\ n \in todo /\ todo' = todo \ {n}
    /\ Fault
    /\ UNCHANGED <<disk, main, nextjob, queue, client, printer, exits, lost>>

build_unread(n) ==
    /\ main = "build"
    /\ n \in todo /\ todo' = todo \ {n}
    /\ Fault
    /\ ctl' = [ctl EXCEPT ![n] = NONE]
    /\ data' = [data EXCEPT ![n] = NONE]
    /\ lost' = lost \cup {n}
    /\ UNCHANGED <<jobfile, main, nextjob, queue, client, printer, exits>>

build_done ==
    /\ main = "build" /\ main' = "serve"
    /\ todo = {}
    /\ UNCHANGED <<disk, todo, nextjob, queue, client, printer, exits, faults, lost>>

accept(c) ==
    /\ main = "serve"
    /\ pc[c] = "new" /\ pc' = [pc EXCEPT ![c] = "header"]
    /\ UNCHANGED <<disk, main, todo, nextjob, queue, job, acked, printer, exits, faults,
                   lost>>

\* The process ends: SIGTERM, exit(1) in init_printer, log_quit, or a kill.
\* (kill_workers only cancels threads that exit is about to end.)
Exit ==
    /\ main' = "down" /\ ppc' = "down" /\ jp' = NONE /\ reread' = FALSE
    /\ jobs' = <<>> /\ added' = <<>> /\ served' = <<>>
    /\ todo' = {} /\ nextjob' = 0
    /\ pc' = [c \in Clients |-> IF pc[c] = "new" THEN "new" ELSE "done"]
    /\ exits < MaxExits /\ exits' = exits + 1
    /\ UNCHANGED <<disk, job, acked, printed, faults, lost>>

exit == main # "down" /\ Exit

-----------------------------------------------------------------------------
(* client_thread *)

Goto(c, from, to) == pc[c] = from /\ pc' = [pc EXCEPT ![c] = to]

\* the header does not come in time, or not whole
header_bad(c) ==
    /\ Goto(c, "header", "done")
    /\ UNCHANGED <<disk, main, todo, nextjob, queue, job, acked, printer, exits, faults,
                   lost>>

get_newjobno(c) ==
    /\ Goto(c, "header", "creat_data")
    /\ nextjob <= MaxJob
    /\ job' = [job EXCEPT ![c] = nextjob]
    /\ nextjob' = nextjob + 1
    /\ lost' = IF data[nextjob] # NONE \/ ctl[nextjob] # NONE
                 THEN lost \cup {nextjob} ELSE lost
    /\ UNCHANGED <<disk, main, todo, queue, acked, printer, exits, faults>>

creat_data(c) ==
    /\ Goto(c, "creat_data", "store")
    /\ data' = [data EXCEPT ![job[c]] = c]
    /\ UNCHANGED <<jobfile, ctl, main, todo, nextjob, queue, job, acked, printer, exits,
                   faults, lost>>

\* the document is stored as it arrives, until its end, an error of the
\* connection, or 20 seconds without data: the three are treated alike
store(c) ==
    /\ Goto(c, "store", "creat_ctl")
    /\ UNCHANGED <<disk, main, todo, nextjob, queue, job, acked, printer, exits, faults,
                   lost>>

creat_ctl(c) ==
    /\ Goto(c, "creat_ctl", "write_ctl")
    /\ ctl' = [ctl EXCEPT ![job[c]] = SHORT]
    /\ UNCHANGED <<jobfile, data, main, todo, nextjob, queue, job, acked, printer, exits,
                   faults, lost>>

\* (a file that was unlinked meanwhile is written to, but stays unlinked)
write_ctl(c) ==
    /\ Goto(c, "write_ctl", "respond")
    /\ ctl' = [ctl EXCEPT ![job[c]] = IF @ = NONE THEN NONE ELSE c]
    /\ UNCHANGED <<jobfile, data, main, todo, nextjob, queue, job, acked, printer, exits,
                   faults, lost>>

\* creat or write fails: the client is refused, what was stored is unlinked
refuse(c) ==
    /\ pc[c] \in {"creat_data", "store", "creat_ctl", "write_ctl"}
    /\ pc' = [pc EXCEPT ![c] = "done"]
    /\ Fault
    /\ data' = IF pc[c] = "creat_data" THEN data ELSE [data EXCEPT ![job[c]] = NONE]
    /\ ctl' = IF pc[c] = "write_ctl" THEN [ctl EXCEPT ![job[c]] = NONE] ELSE ctl
    /\ UNCHANGED <<jobfile, main, todo, nextjob, queue, job, acked, printer, exits, lost>>

\* the response tells the client its number, before the job is queued
respond(c) ==
    /\ Goto(c, "respond", "add_job")
    /\ acked' = acked \cup {c}
    /\ UNCHANGED <<disk, main, todo, nextjob, queue, job, printer, exits, faults, lost>>

add_job(c) ==
    /\ Goto(c, "add_job", "signal")
    /\ Queue(Job(job[c], c))
    /\ UNCHANGED <<disk, main, todo, nextjob, job, acked, printer, exits, faults, lost>>

\* mutant: no signal
signal_lost(c) ==
    /\ Goto(c, "signal", "done")
    /\ UNCHANGED <<disk, main, todo, nextjob, queue, job, acked, printer, exits, faults,
                   lost>>

signal(c) ==
    /\ Goto(c, "signal", "done")
    /\ pthread_cond_signal
    /\ UNCHANGED <<disk, main, todo, nextjob, queue, job, acked, jp, reread, printed,
                   served, exits, faults, lost>>

-----------------------------------------------------------------------------
(* printer_thread *)

PGoto(from, to) == ppc = from /\ ppc' = to

\* jobhead is NULL: pthread_cond_wait
wait ==
    /\ PGoto("get", "wait")
    /\ jobs = <<>>
    /\ UNCHANGED <<disk, main, todo, nextjob, queue, client, jp, reread, printed, served,
                   exits, faults, lost>>

spurious_wakeup ==
    /\ PGoto("wait", "get")
    /\ UNCHANGED <<disk, main, todo, nextjob, queue, client, jp, reread, printed, served,
                   exits, faults, lost>>

remove_job ==
    /\ PGoto("get", "update_jobno")
    /\ jobs # <<>>
    /\ jp' = Head(jobs) /\ jobs' = Tail(jobs)
    /\ UNCHANGED <<disk, main, todo, nextjob, added, client, reread, printed, served,
                   exits, faults, lost>>

\* nextjob is read without joblock
update_jobno ==
    /\ PGoto("update_jobno", "config")
    /\ jobfile' = nextjob
    /\ UNCHANGED <<data, ctl, main, todo, nextjob, queue, client, jp, reread, printed,
                   served, exits, faults, lost>>

\* after SIGHUP the printer is looked up again (no printer: see Exit)
config ==
    /\ PGoto("config", "open")
    /\ reread' = FALSE
    /\ UNCHANGED <<disk, main, todo, nextjob, queue, client, jp, printed, served, exits,
                   faults, lost>>

sighup ==
    /\ main # "down" /\ reread' = TRUE
    /\ UNCHANGED <<disk, main, todo, nextjob, queue, client, ppc, jp, printed, served,
                   exits, faults, lost>>

open ==
    /\ PGoto("open", "send")
    /\ data[jp.id] # NONE
    /\ UNCHANGED <<disk, main, todo, nextjob, queue, client, jp, reread, printed, served,
                   exits, faults, lost>>

\* the data file is gone or cannot be opened: the job is dropped, its control
\* file stays
cancel ==
    /\ PGoto("open", "get")
    /\ IF data[jp.id] = NONE THEN faults' = faults ELSE Fault
    /\ served' = Append(served, jp) /\ jp' = NONE
    /\ UNCHANGED <<disk, main, todo, nextjob, queue, client, reread, printed, exits, lost>>

\* the printer takes the job and says so
printer_ok ==
    /\ PGoto("send", "unlink_data")
    /\ printed' = printed \cup {jp.req}
    /\ UNCHANGED <<disk, main, todo, nextjob, queue, client, jp, reread, served, exits,
                   faults, lost>>

\* mutant: the files of a job that was not printed are removed
defer_unlinks ==
    /\ PGoto("send", "unlink_data")
    /\ UNCHANGED <<disk, main, todo, nextjob, queue, client, jp, reread, printed, served,
                   exits, faults, lost>>

\* no connection, a failed write, no answer in time, an error, or an answer
\* about another job
defer ==
    /\ PGoto("send", "replace")
    /\ UNCHANGED <<disk, main, todo, nextjob, queue, client, jp, reread, printed, served,
                   exits, faults, lost>>

unlink_data ==
    /\ PGoto("unlink_data", "unlink_ctl")
    /\ data' = [data EXCEPT ![jp.id] = NONE]
    /\ UNCHANGED <<jobfile, ctl, main, todo, nextjob, queue, client, jp, reread, printed,
                   served, exits, faults, lost>>

unlink_ctl ==
    /\ PGoto("unlink_ctl", "get")
    /\ ctl' = [ctl EXCEPT ![jp.id] = NONE]
    /\ served' = Append(served, jp) /\ jp' = NONE
    /\ UNCHANGED <<jobfile, data, main, todo, nextjob, queue, client, reread, printed,
                   exits, faults, lost>>

\* mutant: back to the end of the queue
replace_job_last ==
    /\ PGoto("replace", "get")
    /\ jobs' = Append(jobs, jp) /\ jp' = NONE
    /\ UNCHANGED <<disk, main, todo, nextjob, added, client, reread, printed, served,
                   exits, faults, lost>>

\* back to the head of the queue, then a minute's sleep
replace_job ==
    /\ PGoto("replace", "get")
    /\ jobs' = <<jp>> \o jobs /\ jp' = NONE
    /\ UNCHANGED <<disk, main, todo, nextjob, added, client, reread, printed, served,
                   exits, faults, lost>>

-----------------------------------------------------------------------------

MainStep == start \/ build_signal \/ build_done
            \/ \E n \in todo : build_add(n) \/ build_short(n) \/ build_skip(n) \/ build_unread(n)
ClientStep(c) ==
    \/ header_bad(c) \/ get_newjobno(c) \/ creat_data(c) \/ store(c) \/ creat_ctl(c)
    \/ write_ctl(c) \/ refuse(c) \/ respond(c) \/ add_job(c) \/ signal(c)
PrinterStep == wait \/ remove_job \/ update_jobno \/ config \/ open \/ cancel
               \/ printer_ok \/ defer \/ unlink_data \/ unlink_ctl \/ replace_job

Next == MainStep \/ exit \/ sighup \/ PrinterStep \/ spurious_wakeup
        \/ \E c \in Clients : accept(c) \/ ClientStep(c)

\* The daemon is started again after it exits, every thread runs, and a
\* printer that is tried for ever takes a job at last.
Fairness == /\ WF_vars(MainStep) /\ WF_vars(PrinterStep)
            /\ \A c \in Clients : WF_vars(ClientStep(c))
            /\ SF_vars(printer_ok)

Spec == Init /\ [][Next]_vars /\ Fairness

-----------------------------------------------------------------------------
(* Properties *)

InHand == IF jp = NONE THEN <<>> ELSE <<jp>>

\* Once a client has been told its job number, its document and its request
\* stay in the spool directory until the printer has accepted the job, through
\* exits, restarts, refusals of other clients and cancelled jobs - unless a
\* later client was given the same number after a restart, or the restarted
\* daemon failed to read the request.
AckedSafe ==
    \A c \in acked \ printed :
        job[c] \notin lost => data[job[c]] = c /\ ctl[job[c]] = c

\* Jobs leave the queue in the order they entered it: whatever the printer
\* thread defers goes back in front of what client threads queued meanwhile,
\* and no job is dropped from the list or twice on it.
FirstComeFirstServed == served \o InHand \o jobs = added

\* Unless its number was handed out again, or its request once failed to be
\* read, a pending job is pending once, and its data file, if it is still
\* there, is the document of its request.
RequestMatches ==
    LET pending == InHand \o jobs IN
    \A i \in DOMAIN pending : pending[i].id \notin lost =>
        /\ \A k \in DOMAIN pending : pending[k].id = pending[i].id => k = i
        /\ data[pending[i].id] \in {pending[i].req, NONE}

\* Every job whose client was told its number is printed in the end, if the
\* daemon is started again whenever it stops and the printer works again and
\* again, unless the number was lost or the job cancelled.
AckedPrinted ==
    \A c \in Clients :
        c \in acked ~> (c \in printed \/ job[c] \in lost \/ faults > 0)
=============================================================================
