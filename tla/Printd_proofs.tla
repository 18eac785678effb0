---------------------------- MODULE Printd_proofs ----------------------------
(***************************************************************************)
(* AckedSafe for any number of clients, jobs, exits and faults: what a     *)
(* client was told is in the spool directory stays there until printed.    *)
(***************************************************************************)
EXTENDS Printd, SequenceTheorems, TLAPS

JobRec == [id : Num, req : Clients]

\* where a client thread has a job number that is not queued yet
Has == {"creat_data", "store", "creat_ctl", "write_ctl", "respond", "add_job"}
Stored == Has \ {"creat_data"}
Written == {"respond", "add_job"}

\* a promise made to a client and not yet kept
Claim(c) == c \in acked /\ c \notin printed /\ job[c] \notin lost

Types ==
    /\ jobfile \in Nat /\ nextjob \in Nat /\ (main # "down" => nextjob > 0)
    /\ data \in [Num -> Clients \cup {NONE}]
    /\ ctl \in [Num -> Clients \cup {NONE, SHORT}]
    /\ pc \in [Clients -> Has \cup {"new", "header", "signal", "done"}]
    /\ job \in [Clients -> Int]
    /\ jobs \in Seq(JobRec)
    /\ jp \in JobRec \cup {NONE}
    /\ todo \subseteq Num
    /\ \A c \in Clients : pc[c] \in Has \/ c \in acked => job[c] \in Num

\* the places of the printer thread where it has a job in hand
Hand ==
    /\ ppc \in {"update_jobno", "config", "open", "send", "replace", "unlink_data",
                "unlink_ctl"} <=> jp # NONE
    /\ ppc \in {"unlink_data", "unlink_ctl"} => jp.req \in printed

\* client threads run only once the queue is rebuilt; a client is told its
\* number near the end of its thread
Phases ==
    /\ main # "serve" => \A c \in Clients : pc[c] \notin Has \cup {"header"}
    /\ main \notin {"build", "signal"} => todo = {}
    /\ main = "down" => ppc = "down" /\ jobs = <<>>
    /\ \A c \in acked : c \in Clients /\ pc[c] \in {"add_job", "signal", "done"}

\* the numbers in use: each below nextjob, no two threads with the same, none
\* that was promised
Numbers ==
    /\ \A c \in Clients : pc[c] \in Has => job[c] < nextjob
    /\ \A c, d \in Clients : c # d /\ pc[c] \in Has /\ pc[d] \in Has => job[c] # job[d]
    /\ \A c, d \in Clients : c # d /\ Claim(c) /\ pc[d] \in Has => job[c] # job[d]

\* what a thread that is not done has stored
Files ==
    \A c \in Clients : job[c] \notin lost =>
        /\ pc[c] \in Stored => data[job[c]] = c
        /\ pc[c] = "write_ctl" => ctl[job[c]] = SHORT
        /\ pc[c] \in Written => ctl[job[c]] = c

\* a pending job: its control file is there, its number is nobody's, and if
\* it was promised it was promised to the client of its request
Fits(j) ==
    j.id \notin lost =>
        /\ ctl[j.id] # NONE
        /\ \A c \in Clients : pc[c] \in Has => job[c] # j.id
        /\ \A c \in Clients : Claim(c) /\ job[c] = j.id => j.req = c
        /\ j.id \notin todo
Pending ==
    /\ \A i \in DOMAIN jobs : Fits(jobs[i])
    /\ jp # NONE => Fits(jp)

\* pending once
Once ==
    /\ \A i, k \in DOMAIN jobs :
          jobs[i].id = jobs[k].id /\ jobs[i].id \notin lost => i = k
    /\ jp # NONE => \A i \in DOMAIN jobs :
          jobs[i].id = jp.id => jp.id \in lost

SInv == Types /\ Hand /\ Phases /\ Numbers /\ Files /\ Pending /\ Once /\ AckedSafe

LEMMA NoneFacts ==
    /\ NONE \notin Clients /\ SHORT \notin Clients /\ NONE # SHORT
    /\ NONE \notin JobRec
BY NoneAssumption DEF JobRec

\* A step that leaves the queue and the job in hand alone.
LEMMA PendingKept ==
    ASSUME Types, Pending, jobs' = jobs, jp' = jp,
           \A j \in JobRec : Fits(j) => Fits(j)'
    PROVE  Pending'
<1>1. \A i \in DOMAIN jobs : jobs[i] \in JobRec
    BY DEF Types
<1>2. jp # NONE => jp \in JobRec
    BY DEF Types
<1> QED BY <1>1, <1>2 DEF Pending, Fits

\* A step that adds job n at the end of the queue.
AddsLast(n) ==
    \A i \in DOMAIN jobs' :
        \/ i \in DOMAIN jobs /\ jobs'[i] = jobs[i]
        \/ i = Len(jobs) + 1 /\ jobs'[i] = n

LEMMA PendingAdded ==
    ASSUME Types, Pending, jp' = jp, NEW n \in JobRec,
           AddsLast(n),
           \A j \in JobRec : Fits(j) => Fits(j)', Fits(n)'
    PROVE  Pending'
<1>1. \A i \in DOMAIN jobs : jobs[i] \in JobRec
    BY DEF Types
<1>2. jp # NONE => jp \in JobRec
    BY DEF Types
<1> QED BY <1>1, <1>2 DEF AddsLast, Pending, Fits

LEMMA OnceAdded ==
    ASSUME Types, Pending, Once, jp' = jp, lost' = lost, NEW n \in JobRec,
           AddsLast(n),
           \A j \in JobRec : Fits(j) /\ j.id = n.id => n.id \in lost
    PROVE  Once'
<1>1. \A i \in DOMAIN jobs : jobs[i].id = n.id => n.id \in lost
    <2>1. \A i \in DOMAIN jobs : jobs[i] \in JobRec
        BY DEF Types
    <2> QED BY <2>1 DEF Pending, Fits
<1>2. jp # NONE /\ jp.id = n.id => n.id \in lost
    <2>1. jp # NONE => jp \in JobRec
        BY DEF Types
    <2> QED BY <2>1 DEF Pending, Fits
<1>3. \A i, k \in DOMAIN jobs' :
         jobs'[i].id = jobs'[k].id /\ jobs'[i].id \notin lost => i = k
    BY <1>1 DEF AddsLast, Once
<1>4. jp # NONE => \A i \in DOMAIN jobs' : jobs'[i].id = jp.id => jp.id \in lost
    BY <1>2 DEF AddsLast, Once
<1> QED BY <1>3, <1>4 DEF Once

\* What add_job, replace_job and remove_job make of the queue, by position.
LEMMA AppendJob ==
    ASSUME NEW s \in Seq(JobRec), NEW j \in JobRec
    PROVE  /\ Append(s, j) \in Seq(JobRec)
           /\ \A i \in DOMAIN Append(s, j) :
                 \/ i \in DOMAIN s /\ Append(s, j)[i] = s[i]
                 \/ i = Len(s) + 1 /\ Append(s, j)[i] = j
BY LenProperties, AppendProperties

LEMMA PushJob ==
    ASSUME NEW s \in Seq(JobRec), NEW j \in JobRec
    PROVE  /\ <<j>> \o s \in Seq(JobRec)
           /\ \A i \in DOMAIN (<<j>> \o s) :
                 \/ i - 1 \in DOMAIN s /\ (<<j>> \o s)[i] = s[i - 1]
                 \/ i = 1 /\ (<<j>> \o s)[i] = j
<1>1. <<j>> \in Seq(JobRec) /\ Len(<<j>>) = 1 /\ <<j>>[1] = j
    OBVIOUS
<1>2. /\ <<j>> \o s \in Seq(JobRec)
      /\ Len(<<j>> \o s) = 1 + Len(s)
      /\ \A i \in 1 .. 1 + Len(s) :
            (<<j>> \o s)[i] = IF i <= 1 THEN <<j>>[i] ELSE s[i - 1]
    BY <1>1, ConcatProperties
<1>3. Len(s) \in Nat /\ DOMAIN s = 1..Len(s) /\ DOMAIN (<<j>> \o s) = 1 .. 1 + Len(s)
    BY <1>2, LenProperties
<1> QED BY <1>1, <1>2, <1>3

LEMMA PopJob ==
    ASSUME NEW s \in Seq(JobRec), s # <<>>
    PROVE  /\ Tail(s) \in Seq(JobRec)
           /\ 1 \in DOMAIN s /\ Head(s) = s[1] /\ Head(s) \in JobRec
           /\ \A i \in DOMAIN Tail(s) :
                 i \in Nat \ {0} /\ i + 1 \in DOMAIN s /\ Tail(s)[i] = s[i + 1]
<1>1. Len(s) \in Nat \ {0} /\ DOMAIN s = 1..Len(s)
    BY LenProperties, EmptySeq
<1>2. /\ Head(s) \in JobRec /\ Tail(s) \in Seq(JobRec)
      /\ Len(Tail(s)) = Len(s) - 1
      /\ \A i \in 1 .. Len(Tail(s)) : Tail(s)[i] = s[i + 1]
    BY HeadTailProperties
<1>3. DOMAIN Tail(s) = 1 .. Len(s) - 1
    BY <1>2, LenProperties
<1>4. Head(s) = s[1]
    OBVIOUS
<1> QED BY <1>1, <1>2, <1>3, <1>4

-----------------------------------------------------------------------------
(* The invariant, action by action *)

LEMMA InitKeeps ==
    Init => SInv
<1> SUFFICES ASSUME Init PROVE SInv
    OBVIOUS
<1> USE NoneFacts, BoundsAssumption DEF Init
<1>1. Types
    BY EmptySeq DEF Types, Has
<1>2. Hand /\ Phases
    BY DEF Hand, Phases, Has
<1>3. Numbers /\ Files
    BY DEF Numbers, Files, Claim, Has, Stored, Written
<1>4. Pending /\ Once
    BY DEF Pending, Once
<1>5. AckedSafe
    BY DEF AckedSafe
<1> QED BY <1>1, <1>2, <1>3, <1>4, <1>5 DEF SInv

\* a step that leaves the spool, the queue, the client threads and the
\* promises alone
LEMMA QuietKeeps ==
    ASSUME SInv, UNCHANGED <<data, ctl, todo, nextjob, jobs, jp, pc, job, acked, printed,
                             lost>>
    PROVE  (Numbers /\ Files /\ Pending /\ Once /\ AckedSafe)'
<1>1. Numbers' /\ Files'
    BY DEF SInv, Numbers, Files, Claim
<1>2. Pending'
    BY DEF SInv, Pending, Fits, Claim
<1>3. Once' /\ AckedSafe'
    BY DEF SInv, Once, AckedSafe
<1> QED BY <1>1, <1>2, <1>3

LEMMA QuietStepsKeep ==
    ASSUME SInv,
           build_signal \/ build_done \/ sighup \/ wait \/ spurious_wakeup \/ update_jobno
           \/ config \/ open \/ defer
    PROVE  SInv'
<1> USE DEF disk, client, printer, queue
<1>1. CASE build_signal
    <2>1. Types' /\ Hand' /\ Phases'
        BY <1>1 DEF SInv, Types, Hand, Phases, build_signal, pthread_cond_signal
    <2> QED BY <1>1, <2>1, QuietKeeps DEF SInv, build_signal, pthread_cond_signal
<1>2. CASE build_done
    <2>1. Types' /\ Hand' /\ Phases'
        BY <1>2 DEF SInv, Types, Hand, Phases, build_done
    <2> QED BY <1>2, <2>1, QuietKeeps DEF SInv, build_done
<1>3. CASE sighup
    <2>1. Types' /\ Hand' /\ Phases'
        BY <1>3 DEF SInv, Types, Hand, Phases, sighup
    <2> QED BY <1>3, <2>1, QuietKeeps DEF SInv, sighup
<1>4. CASE wait
    <2>1. Types' /\ Hand' /\ Phases'
        BY <1>4 DEF SInv, Types, Hand, Phases, wait, PGoto
    <2> QED BY <1>4, <2>1, QuietKeeps DEF SInv, wait, PGoto
<1>5. CASE update_jobno
    <2>1. Types' /\ Hand' /\ Phases'
        BY <1>5 DEF SInv, Types, Hand, Phases, update_jobno, PGoto
    <2> QED BY <1>5, <2>1, QuietKeeps DEF SInv, update_jobno, PGoto
<1>6. CASE config
    <2>1. Types' /\ Hand' /\ Phases'
        BY <1>6 DEF SInv, Types, Hand, Phases, config, PGoto
    <2> QED BY <1>6, <2>1, QuietKeeps DEF SInv, config, PGoto
<1>7. CASE open
    <2>1. Types' /\ Hand' /\ Phases'
        BY <1>7 DEF SInv, Types, Hand, Phases, open, PGoto
    <2> QED BY <1>7, <2>1, QuietKeeps DEF SInv, open, PGoto
<1>8. CASE defer
    <2>1. Types' /\ Hand' /\ Phases'
        BY <1>8 DEF SInv, Types, Hand, Phases, defer, PGoto
    <2> QED BY <1>8, <2>1, QuietKeeps DEF SInv, defer, PGoto
<1>9. CASE spurious_wakeup
    <2>1. Types' /\ Hand' /\ Phases'
        BY <1>9 DEF SInv, Types, Hand, Phases, spurious_wakeup, PGoto
    <2> QED BY <1>9, <2>1, QuietKeeps DEF SInv, spurious_wakeup, PGoto
<1> QED BY <1>1, <1>2, <1>3, <1>4, <1>5, <1>6, <1>7, <1>8, <1>9

LEMMA StartKeeps ==
    ASSUME SInv, start
    PROVE  SInv'
<1> USE NoneFacts DEF SInv, start, disk, client, printer, queue
<1>1. Types'
    BY DEF Types, Has, Stored, Written
<1>2. Hand'
    BY <1>1 DEF Types, Hand, Phases, Has, Stored, Written
<1>3. Phases'
    BY <1>1 DEF Types, Phases, Has, Stored, Written
<1>4. Numbers'
    BY <1>1 DEF Types, Numbers, Claim, Phases, Has, Stored, Written
<1>5. Files'
    BY <1>1 DEF Types, Files, Has, Stored, Written
<1>6. Pending'
    BY <1>1 DEF Types, Pending, Fits, Claim, Phases, Hand, Has, Stored, Written
<1>7. Once'
    BY <1>1 DEF Types, Once, Has, Stored, Written
<1>8. AckedSafe'
    BY <1>1 DEF Types, AckedSafe, Has, Stored, Written
<1> QED BY <1>1, <1>2, <1>3, <1>4, <1>5, <1>6, <1>7, <1>8

LEMMA BuildAddKeeps ==
    ASSUME SInv, NEW n \in todo, build_add(n)
    PROVE  SInv'
<1> USE NoneFacts DEF SInv, build_add, Queue, Job, disk, client, printer, queue
<1>a. /\ jobs' \in Seq(JobRec)
      /\ \A i \in DOMAIN jobs' :
            \/ i \in DOMAIN jobs /\ jobs'[i] = jobs[i]
            \/ i = Len(jobs) + 1 /\ jobs'[i] = [id |-> n, req |-> ctl[n]]
    <2>1. [id |-> n, req |-> ctl[n]] \in JobRec
        BY DEF Types, JobRec
    <2> QED BY <2>1, AppendJob DEF Types
<1>1. Types'
    BY <1>a DEF Types, Has, Stored, Written
<1>2. Hand'
    BY <1>1 DEF Types, Hand, Has, Stored, Written
<1>3. Phases'
    BY <1>1 DEF Types, Phases, Has, Stored, Written
<1>4. Numbers'
    BY <1>1 DEF Types, Numbers, Claim, Has, Stored, Written
<1>5. Files'
    BY <1>1 DEF Types, Files, Has, Stored, Written
<1>6. Pending'
    BY <1>a, <1>1 DEF Types, Pending, Fits, Claim, Phases, AckedSafe, JobRec, Has,
        Stored, Written
<1>7. Once'
    BY <1>a, <1>1 DEF Types, Once, Pending, Fits, JobRec, Has, Stored, Written
<1>8. AckedSafe'
    BY <1>1 DEF Types, AckedSafe, Has, Stored, Written
<1> QED BY <1>1, <1>2, <1>3, <1>4, <1>5, <1>6, <1>7, <1>8

LEMMA BuildShortKeeps ==
    ASSUME SInv, NEW n \in todo, build_short(n)
    PROVE  SInv'
<1> USE NoneFacts DEF SInv, build_short, disk, client, printer, queue
<1>1. Types'
    BY DEF Types, Has, Stored, Written
<1>2. Hand'
    BY <1>1 DEF Types, Hand, Has, Stored, Written
<1>3. Phases'
    BY <1>1 DEF Types, Phases, Has, Stored, Written
<1>4. Numbers'
    BY <1>1 DEF Types, Numbers, Claim, Has, Stored, Written
<1>5. Files'
    BY <1>1 DEF Types, Files, Phases, Has, Stored, Written
<1>6. Pending'
    BY <1>1 DEF Types, Pending, Fits, Claim, Has, Stored, Written
<1>7. Once'
    BY <1>1 DEF Types, Once, Has, Stored, Written
<1>8. AckedSafe'
    BY <1>1 DEF Types, AckedSafe, Has, Stored, Written
<1> QED BY <1>1, <1>2, <1>3, <1>4, <1>5, <1>6, <1>7, <1>8

LEMMA BuildSkipKeeps ==
    ASSUME SInv, NEW n \in todo, build_skip(n)
    PROVE  SInv'
<1> USE NoneFacts DEF SInv, build_skip, Fault, disk, client, printer, queue
<1>1. Types'
    BY DEF Types, Has, Stored, Written
<1>2. Hand'
    BY <1>1 DEF Types, Hand, Has, Stored, Written
<1>3. Phases'
    BY <1>1 DEF Types, Phases, Has, Stored, Written
<1>4. Numbers'
    BY <1>1 DEF Types, Numbers, Claim, Has, Stored, Written
<1>5. Files'
    BY <1>1 DEF Types, Files, Phases, Has, Stored, Written
<1>6. Pending'
    BY <1>1 DEF Types, Pending, Fits, Claim, Has, Stored, Written
<1>7. Once'
    BY <1>1 DEF Types, Once, Has, Stored, Written
<1>8. AckedSafe'
    BY <1>1 DEF Types, AckedSafe, Has, Stored, Written
<1> QED BY <1>1, <1>2, <1>3, <1>4, <1>5, <1>6, <1>7, <1>8

LEMMA BuildUnreadKeeps ==
    ASSUME SInv, NEW n \in todo, build_unread(n)
    PROVE  SInv'
<1> USE NoneFacts DEF SInv, build_unread, Fault, disk, client, printer, queue
<1>1. Types'
    BY DEF Types, Has, Stored, Written
<1>2. Hand'
    BY <1>1 DEF Types, Hand, Has, Stored, Written
<1>3. Phases'
    BY <1>1 DEF Types, Phases, Has, Stored, Written
<1>4. Numbers'
    BY <1>1 DEF Types, Numbers, Claim, Has, Stored, Written
<1>5. Files'
    BY <1>1 DEF Types, Files, Phases, Has, Stored, Written
<1>6. Pending'
    BY <1>1 DEF Types, Pending, Fits, Claim, Has, Stored, Written
<1>7. Once'
    BY <1>1 DEF Types, Once, Has, Stored, Written
<1>8. AckedSafe'
    BY <1>1 DEF Types, AckedSafe, Has, Stored, Written
<1> QED BY <1>1, <1>2, <1>3, <1>4, <1>5, <1>6, <1>7, <1>8

LEMMA ExitKeeps ==
    ASSUME SInv, exit
    PROVE  SInv'
<1> USE NoneFacts DEF SInv, exit, Exit, disk, client, printer, queue
<1>1. Types'
    BY DEF Types, Has, Stored, Written
<1>2. Hand'
    BY <1>1 DEF Types, Hand, Has, Stored, Written
<1>3. Phases'
    BY <1>1 DEF Types, Phases, Has, Stored, Written
<1>4. Numbers'
    BY <1>1 DEF Types, Numbers, Claim, Has, Stored, Written
<1>5. Files'
    BY <1>1 DEF Types, Files, Has, Stored, Written
<1>6. Pending'
    BY <1>1 DEF Types, Pending, Fits, Claim, Has, Stored, Written
<1>7. Once'
    BY <1>1 DEF Types, Once, Has, Stored, Written
<1>8. AckedSafe'
    BY <1>1 DEF Types, AckedSafe, Has, Stored, Written
<1> QED BY <1>1, <1>2, <1>3, <1>4, <1>5, <1>6, <1>7, <1>8

LEMMA RemoveJobKeeps ==
    ASSUME SInv, remove_job
    PROVE  SInv'
<1> USE NoneFacts DEF SInv, remove_job, PGoto, disk, client, printer, queue
<1>a. /\ jobs' \in Seq(JobRec)
      /\ 1 \in DOMAIN jobs /\ jp' = jobs[1] /\ jp' \in JobRec
      /\ \A i \in DOMAIN jobs' :
            i \in Nat \ {0} /\ i + 1 \in DOMAIN jobs /\ jobs'[i] = jobs[i + 1]
    BY PopJob DEF Types
<1>1. Types'
    BY <1>a DEF Types, Has, Stored, Written
<1>2. Hand'
    BY <1>1 DEF Types, Hand, Has, Stored, Written
<1>3. Phases'
    BY <1>1 DEF Types, Phases, Has, Stored, Written
<1>4. Numbers'
    BY <1>1 DEF Types, Numbers, Claim, Has, Stored, Written
<1>5. Files'
    BY <1>1 DEF Types, Files, Has, Stored, Written
<1>6. Pending'
    BY <1>a, <1>1 DEF Types, Pending, Fits, Claim, Has, Stored, Written
<1>7. Once'
    BY <1>a, <1>1 DEF Types, Once, Has, Stored, Written
<1>8. AckedSafe'
    BY <1>1 DEF Types, AckedSafe, Has, Stored, Written
<1> QED BY <1>1, <1>2, <1>3, <1>4, <1>5, <1>6, <1>7, <1>8

LEMMA CancelKeeps ==
    ASSUME SInv, cancel
    PROVE  SInv'
<1> USE NoneFacts DEF SInv, cancel, PGoto, Fault, disk, client, printer, queue
<1>1. Types'
    BY DEF Types, Has, Stored, Written
<1>2. Hand'
    BY <1>1 DEF Types, Hand, Has, Stored, Written
<1>3. Phases'
    BY <1>1 DEF Types, Phases, Has, Stored, Written
<1>4. Numbers'
    BY <1>1 DEF Types, Numbers, Claim, Has, Stored, Written
<1>5. Files'
    BY <1>1 DEF Types, Files, Has, Stored, Written
<1>6. Pending'
    BY <1>1 DEF Types, Pending, Fits, Claim, Has, Stored, Written
<1>7. Once'
    BY <1>1 DEF Types, Once, Has, Stored, Written
<1>8. AckedSafe'
    BY <1>1 DEF Types, AckedSafe, Has, Stored, Written
<1> QED BY <1>1, <1>2, <1>3, <1>4, <1>5, <1>6, <1>7, <1>8

LEMMA PrinterOkKeeps ==
    ASSUME SInv, printer_ok
    PROVE  SInv'
<1> USE NoneFacts DEF SInv, printer_ok, PGoto, disk, client, printer, queue
<1>1. Types'
    BY DEF Types, Has, Stored, Written
<1>2. Hand'
    BY <1>1 DEF Types, Hand, Has, Stored, Written
<1>3. Phases'
    BY <1>1 DEF Types, Phases, Has, Stored, Written
<1>4. Numbers'
    BY <1>1 DEF Types, Numbers, Claim, Has, Stored, Written
<1>5. Files'
    BY <1>1 DEF Types, Files, Has, Stored, Written
<1>6. Pending'
    BY <1>1 DEF Types, Pending, Fits, Claim, Has, Stored, Written
<1>7. Once'
    BY <1>1 DEF Types, Once, Has, Stored, Written
<1>8. AckedSafe'
    BY <1>1 DEF Types, AckedSafe, Has, Stored, Written
<1> QED BY <1>1, <1>2, <1>3, <1>4, <1>5, <1>6, <1>7, <1>8

LEMMA UnlinkDataKeeps ==
    ASSUME SInv, unlink_data
    PROVE  SInv'
<1> USE NoneFacts DEF SInv, unlink_data, PGoto, disk, client, printer, queue
<1>1. Types'
    BY DEF Types, Has, Stored, Written
<1>2. Hand'
    BY <1>1 DEF Types, Hand, Has, Stored, Written
<1>3. Phases'
    BY <1>1 DEF Types, Phases, Has, Stored, Written
<1>4. Numbers'
    BY <1>1 DEF Types, Numbers, Claim, Has, Stored, Written
<1>5. Files'
    BY <1>1 DEF Types, Files, Hand, Pending, Fits, Has, Stored, Written
<1>6. Pending'
    BY <1>1 DEF Types, Pending, Fits, Claim, Has, Stored, Written
<1>7. Once'
    BY <1>1 DEF Types, Once, Has, Stored, Written
<1>8. AckedSafe'
    BY <1>1 DEF Types, AckedSafe, Hand, Pending, Fits, Claim, Has, Stored, Written
<1> QED BY <1>1, <1>2, <1>3, <1>4, <1>5, <1>6, <1>7, <1>8

LEMMA UnlinkCtlKeeps ==
    ASSUME SInv, unlink_ctl
    PROVE  SInv'
<1> USE NoneFacts DEF SInv, unlink_ctl, PGoto, disk, client, printer, queue
<1>1. Types'
    BY DEF Types, Has, Stored, Written
<1>2. Hand'
    BY <1>1 DEF Types, Hand, Has, Stored, Written
<1>3. Phases'
    BY <1>1 DEF Types, Phases, Has, Stored, Written
<1>4. Numbers'
    BY <1>1 DEF Types, Numbers, Claim, Has, Stored, Written
<1>5. Files'
    BY <1>1 DEF Types, Files, Hand, Pending, Fits, Has, Stored, Written
<1>6. Pending'
    BY <1>1 DEF Types, Pending, Fits, Claim, Hand, Once, Has, Stored, Written
<1>7. Once'
    BY <1>1 DEF Types, Once, Has, Stored, Written
<1>8. AckedSafe'
    BY <1>1 DEF Types, AckedSafe, Hand, Pending, Fits, Claim, Has, Stored, Written
<1> QED BY <1>1, <1>2, <1>3, <1>4, <1>5, <1>6, <1>7, <1>8

LEMMA ReplaceJobKeeps ==
    ASSUME SInv, replace_job
    PROVE  SInv'
<1> USE NoneFacts DEF SInv, replace_job, PGoto, disk, client, printer, queue
<1>a. /\ jobs' \in Seq(JobRec)
      /\ \A i \in DOMAIN jobs' :
            \/ i - 1 \in DOMAIN jobs /\ jobs'[i] = jobs[i - 1]
            \/ i = 1 /\ jobs'[i] = jp
    BY PushJob DEF Types, Hand
<1>1. Types'
    BY <1>a DEF Types, Has, Stored, Written
<1>2. Hand'
    BY <1>1 DEF Types, Hand, Has, Stored, Written
<1>3. Phases'
    BY <1>1 DEF Types, Phases, Has, Stored, Written
<1>4. Numbers'
    BY <1>1 DEF Types, Numbers, Claim, Has, Stored, Written
<1>5. Files'
    BY <1>1 DEF Types, Files, Has, Stored, Written
<1>6. Pending'
    BY <1>a, <1>1 DEF Types, Pending, Fits, Claim, Has, Stored, Written
<1>7. Once'
    BY <1>a, <1>1 DEF Types, Once, Has, Stored, Written
<1>8. AckedSafe'
    BY <1>1 DEF Types, AckedSafe, Has, Stored, Written
<1> QED BY <1>1, <1>2, <1>3, <1>4, <1>5, <1>6, <1>7, <1>8

LEMMA AcceptKeeps ==
    ASSUME SInv, NEW c \in Clients, accept(c)
    PROVE  SInv'
<1> USE NoneFacts DEF SInv, accept, disk, client, printer, queue
<1>1. Types'
    BY DEF Types, Has, Stored, Written
<1>2. Hand'
    BY <1>1 DEF Types, Hand, Has, Stored, Written
<1>3. Phases'
    BY <1>1 DEF Types, Phases, Has, Stored, Written
<1>4. Numbers'
    BY <1>1 DEF Types, Numbers, Claim, Has, Stored, Written
<1>5. Files'
    BY <1>1 DEF Types, Files, Has, Stored, Written
<1>6. Pending'
    BY <1>1 DEF Types, Pending, Fits, Claim, Has, Stored, Written
<1>7. Once'
    BY <1>1 DEF Types, Once, Has, Stored, Written
<1>8. AckedSafe'
    BY <1>1 DEF Types, AckedSafe, Has, Stored, Written
<1> QED BY <1>1, <1>2, <1>3, <1>4, <1>5, <1>6, <1>7, <1>8

LEMMA HeaderBadKeeps ==
    ASSUME SInv, NEW c \in Clients, header_bad(c)
    PROVE  SInv'
<1> USE NoneFacts DEF SInv, header_bad, Goto, disk, client, printer, queue
<1>1. Types'
    BY DEF Types, Has, Stored, Written
<1>2. Hand'
    BY <1>1 DEF Types, Hand, Has, Stored, Written
<1>3. Phases'
    BY <1>1 DEF Types, Phases, Has, Stored, Written
<1>4. Numbers'
    BY <1>1 DEF Types, Numbers, Claim, Has, Stored, Written
<1>5. Files'
    BY <1>1 DEF Types, Files, Has, Stored, Written
<1>6. Pending'
    BY <1>1 DEF Types, Pending, Fits, Claim, Has, Stored, Written
<1>7. Once'
    BY <1>1 DEF Types, Once, Has, Stored, Written
<1>8. AckedSafe'
    BY <1>1 DEF Types, AckedSafe, Has, Stored, Written
<1> QED BY <1>1, <1>2, <1>3, <1>4, <1>5, <1>6, <1>7, <1>8

LEMMA GetNewjobnoKeeps ==
    ASSUME SInv, NEW c \in Clients, get_newjobno(c)
    PROVE  SInv'
<1> USE NoneFacts DEF SInv, get_newjobno, Goto, disk, client, printer, queue
<1>1. Types'
    BY DEF Types, Phases, Num, Has, Stored, Written
<1>2. Hand'
    BY <1>1 DEF Types, Hand, Has, Stored, Written
<1>3. Phases'
    BY <1>1 DEF Types, Phases, Has, Stored, Written
<1>4. Numbers'
    BY <1>1 DEF Types, Numbers, Claim, AckedSafe, Phases, Has, Stored, Written
<1>5. Files'
    BY <1>1 DEF Types, Files, Has, Stored, Written
<1>6. Pending'
    BY <1>1 DEF Types, Pending, Fits, Claim, Has, Stored, Written
<1>7. Once'
    BY <1>1 DEF Types, Once, Has, Stored, Written
<1>8. AckedSafe'
    BY <1>1 DEF Types, AckedSafe, Phases, Has, Stored, Written
<1> QED BY <1>1, <1>2, <1>3, <1>4, <1>5, <1>6, <1>7, <1>8

LEMMA CreatDataKeeps ==
    ASSUME SInv, NEW c \in Clients, creat_data(c)
    PROVE  SInv'
<1> USE NoneFacts DEF SInv, creat_data, Goto, disk, client, printer, queue
<1>1. Types'
    BY DEF Types, Has, Stored, Written
<1>2. Hand'
    BY <1>1 DEF Types, Hand, Has, Stored, Written
<1>3. Phases'
    BY <1>1 DEF Types, Phases, Has, Stored, Written
<1>4. Numbers'
    BY <1>1 DEF Types, Numbers, Claim, Has, Stored, Written
<1>5. Files'
    BY <1>1, SMTT(40) DEF Types, Files, Numbers, Has, Stored, Written
<1>6. Pending'
    <2>1. ASSUME NEW j \in JobRec, Fits(j) PROVE Fits(j)'
        BY <1>1, <2>1 DEF Types, Fits, Claim, JobRec, Has
    <2> QED BY <2>1, PendingKept
<1>7. Once'
    BY <1>1 DEF Types, Once, Has, Stored, Written
<1>8. AckedSafe'
    BY <1>1, SMTT(40) DEF Types, AckedSafe, Numbers, Claim, Phases, Has, Stored, Written
<1> QED BY <1>1, <1>2, <1>3, <1>4, <1>5, <1>6, <1>7, <1>8

LEMMA StoreKeeps ==
    ASSUME SInv, NEW c \in Clients, store(c)
    PROVE  SInv'
<1> USE NoneFacts DEF SInv, store, Goto, disk, client, printer, queue
<1>1. Types'
    BY DEF Types, Has, Stored, Written
<1>2. Hand'
    BY <1>1 DEF Types, Hand, Has, Stored, Written
<1>3. Phases'
    BY <1>1 DEF Types, Phases, Has, Stored, Written
<1>4. Numbers'
    BY <1>1 DEF Types, Numbers, Claim, Has, Stored, Written
<1>5. Files'
    BY <1>1 DEF Types, Files, Has, Stored, Written
<1>6. Pending'
    BY <1>1 DEF Types, Pending, Fits, Claim, Has, Stored, Written
<1>7. Once'
    BY <1>1 DEF Types, Once, Has, Stored, Written
<1>8. AckedSafe'
    BY <1>1 DEF Types, AckedSafe, Has, Stored, Written
<1> QED BY <1>1, <1>2, <1>3, <1>4, <1>5, <1>6, <1>7, <1>8

LEMMA CreatCtlKeeps ==
    ASSUME SInv, NEW c \in Clients, creat_ctl(c)
    PROVE  SInv'
<1> USE NoneFacts DEF SInv, creat_ctl, Goto, disk, client, printer, queue
<1>1. Types'
    BY DEF Types, Has, Stored, Written
<1>2. Hand'
    BY <1>1 DEF Types, Hand, Has, Stored, Written
<1>3. Phases'
    BY <1>1 DEF Types, Phases, Has, Stored, Written
<1>4. Numbers'
    BY <1>1, SMTT(40) DEF Types, Numbers, Claim, Has, Stored, Written
<1>5. Files'
    BY <1>1, SMTT(40) DEF Types, Files, Has, Stored, Written
<1>6. Pending'
    <2>1. ASSUME NEW j \in JobRec, Fits(j) PROVE Fits(j)'
        BY <1>1, <2>1 DEF Types, Fits, Claim, JobRec, Has
    <2> QED BY <2>1, PendingKept
<1>7. Once'
    BY <1>1 DEF Types, Once, Has, Stored, Written
<1>8. AckedSafe'
    BY <1>1 DEF Types, AckedSafe, Numbers, Claim, Phases, Has, Stored, Written
<1> QED BY <1>1, <1>2, <1>3, <1>4, <1>5, <1>6, <1>7, <1>8

LEMMA WriteCtlKeeps ==
    ASSUME SInv, NEW c \in Clients, write_ctl(c)
    PROVE  SInv'
<1> USE NoneFacts DEF SInv, write_ctl, Goto, disk, client, printer, queue
<1>1. Types'
    BY DEF Types, Has, Stored, Written
<1>2. Hand'
    BY <1>1 DEF Types, Hand, Has, Stored, Written
<1>3. Phases'
    BY <1>1 DEF Types, Phases, Has, Stored, Written
<1>4. Numbers'
    BY <1>1 DEF Types, Numbers, Claim, Has, Stored, Written
<1>5. Files'
    BY <1>1 DEF Types, Files, Has, Stored, Written
<1>6. Pending'
    <2>1. ASSUME NEW j \in JobRec, Fits(j) PROVE Fits(j)'
        BY <1>1, <2>1 DEF Types, Fits, Claim, JobRec, Has
    <2> QED BY <2>1, PendingKept
<1>7. Once'
    BY <1>1 DEF Types, Once, Has, Stored, Written
<1>8. AckedSafe'
    BY <1>1, SMTT(40) DEF Types, AckedSafe, Numbers, Claim, Phases, Has, Stored, Written
<1> QED BY <1>1, <1>2, <1>3, <1>4, <1>5, <1>6, <1>7, <1>8

LEMMA RefuseKeeps ==
    ASSUME SInv, NEW c \in Clients, refuse(c)
    PROVE  SInv'
<1> USE NoneFacts DEF SInv, refuse, Fault, disk, client, printer, queue
<1>1. Types'
    BY DEF Types, Has, Stored, Written
<1>2. Hand'
    BY <1>1 DEF Types, Hand, Has, Stored, Written
<1>3. Phases'
    BY <1>1 DEF Types, Phases, Has, Stored, Written
<1>4. Numbers'
    BY <1>1, SMTT(40) DEF Types, Numbers, Claim, Has, Stored, Written
<1>5. Files'
    BY <1>1 DEF Types, Files, Has, Stored, Written
<1>6. Pending'
    <2>1. ASSUME NEW j \in JobRec, Fits(j) PROVE Fits(j)'
        BY <1>1, <2>1 DEF Types, Fits, Claim, JobRec, Has
    <2> QED BY <2>1, PendingKept
<1>7. Once'
    BY <1>1 DEF Types, Once, Has, Stored, Written
<1>8. AckedSafe'
    BY <1>1, SMTT(40) DEF Types, AckedSafe, Numbers, Claim, Phases, Has, Stored, Written
<1> QED BY <1>1, <1>2, <1>3, <1>4, <1>5, <1>6, <1>7, <1>8

LEMMA RespondKeeps ==
    ASSUME SInv, NEW c \in Clients, respond(c)
    PROVE  SInv'
<1> USE NoneFacts DEF SInv, respond, Goto, disk, client, printer, queue
<1>1. Types'
    BY DEF Types, Has, Stored, Written
<1>2. Hand'
    BY <1>1 DEF Types, Hand, Has, Stored, Written
<1>3. Phases'
    BY <1>1 DEF Types, Phases, Has, Stored, Written
<1>4. Numbers'
    BY <1>1 DEF Types, Numbers, Claim, Has, Stored, Written
<1>5. Files'
    BY <1>1 DEF Types, Files, Has, Stored, Written
<1>6. Pending'
    BY <1>1 DEF Types, Pending, Fits, Claim, Has, Stored, Written
<1>7. Once'
    BY <1>1 DEF Types, Once, Has, Stored, Written
<1>8. AckedSafe'
    BY <1>1 DEF Types, AckedSafe, Files, Has, Stored, Written
<1> QED BY <1>1, <1>2, <1>3, <1>4, <1>5, <1>6, <1>7, <1>8

LEMMA AddJobKeeps ==
    ASSUME SInv, NEW c \in Clients, add_job(c)
    PROVE  SInv'
<1> USE NoneFacts DEF SInv, add_job, Goto, Queue, Job, disk, client, printer, queue
<1>n. PICK n \in JobRec : n = [id |-> job[c], req |-> c]
    <2>1. [id |-> job[c], req |-> c] \in JobRec
        BY DEF Types, Has, JobRec
    <2> QED BY <2>1
<1>a. /\ jobs' \in Seq(JobRec)
      /\ AddsLast(n)
    BY <1>n, AppendJob DEF Types, AddsLast
<1>b. Types /\ Pending /\ Once /\ jp' = jp /\ lost' = lost
    OBVIOUS
<1>1. Types'
    BY <1>a DEF Types, Has, Stored, Written
<1>2. Hand'
    BY <1>1 DEF Types, Hand, Has, Stored, Written
<1>3. Phases'
    BY <1>1 DEF Types, Phases, Has, Stored, Written
<1>4. Numbers'
    BY <1>1 DEF Types, Numbers, Claim, Has, Stored, Written
<1>5. Files'
    BY <1>1 DEF Types, Files, Has, Stored, Written
<1>6. Pending'
    <2>1. ASSUME NEW j \in JobRec, Fits(j) PROVE Fits(j)'
        BY <2>1 DEF Types, Fits, Claim, Has
    <2>2. Fits(n)'
        <3>1. job[c] \in Num /\ pc[c] = "add_job" /\ (job[c] \notin lost => ctl[job[c]] = c)
            BY DEF Types, Files, Has, Written
        <3>2. job[c] \notin todo
            BY DEF Phases, Has
        <3>3. \A d \in Clients : pc'[d] \in Has => job[d] # job[c]
            BY DEF Types, Numbers, Has
        <3>4. \A d \in Clients : Claim(d) /\ job[d] = job[c] => c = d
            BY <3>1 DEF Numbers, Has
        <3> QED BY <1>n, <3>1, <3>2, <3>3, <3>4 DEF Fits, Claim
    <2> HIDE DEF SInv, add_job
    <2> QED BY <1>a, <1>b, <2>1, <2>2, PendingAdded
<1>7. Once'
    <2>1. ASSUME NEW j \in JobRec, Fits(j), j.id = n.id PROVE n.id \in lost
        BY <1>n, <2>1 DEF Types, Fits, Has
    <2> HIDE DEF SInv, add_job
    <2> QED BY <1>a, <1>b, <2>1, OnceAdded
<1>8. AckedSafe'
    BY <1>1 DEF Types, AckedSafe, Has, Stored, Written
<1> QED BY <1>1, <1>2, <1>3, <1>4, <1>5, <1>6, <1>7, <1>8

LEMMA SignalKeeps ==
    ASSUME SInv, NEW c \in Clients, signal(c)
    PROVE  SInv'
<1> USE NoneFacts DEF SInv, signal, Goto, pthread_cond_signal, disk, client, printer,
    queue
<1>1. Types'
    BY DEF Types, Has, Stored, Written
<1>2. Hand'
    BY <1>1 DEF Types, Hand, Has, Stored, Written
<1>3. Phases'
    BY <1>1 DEF Types, Phases, Has, Stored, Written
<1>4. Numbers'
    BY <1>1 DEF Types, Numbers, Claim, Has, Stored, Written
<1>5. Files'
    BY <1>1 DEF Types, Files, Has, Stored, Written
<1>6. Pending'
    BY <1>1 DEF Types, Pending, Fits, Claim, Has, Stored, Written
<1>7. Once'
    BY <1>1 DEF Types, Once, Has, Stored, Written
<1>8. AckedSafe'
    BY <1>1 DEF Types, AckedSafe, Has, Stored, Written
<1> QED BY <1>1, <1>2, <1>3, <1>4, <1>5, <1>6, <1>7, <1>8

LEMMA SInvStep ==
    SInv /\ [Next]_vars => SInv'
<1> SUFFICES ASSUME SInv, [Next]_vars PROVE SInv'
    OBVIOUS
<1>1. CASE UNCHANGED vars
    <2>1. Types' /\ Hand' /\ Phases'
        BY <1>1 DEF SInv, Types, Hand, Phases, vars, disk, client, printer, queue
    <2> QED BY <1>1, <2>1, QuietKeeps DEF SInv, vars, disk, client, printer, queue
<1>2. CASE MainStep
    BY <1>2, QuietStepsKeep, StartKeeps, BuildAddKeeps, BuildShortKeeps, BuildSkipKeeps,
       BuildUnreadKeeps DEF MainStep
<1>3. CASE exit \/ sighup \/ spurious_wakeup
    BY <1>3, QuietStepsKeep, ExitKeeps
<1>4. CASE PrinterStep
    BY <1>4, QuietStepsKeep, RemoveJobKeeps, CancelKeeps, PrinterOkKeeps, UnlinkDataKeeps,
       UnlinkCtlKeeps, ReplaceJobKeeps DEF PrinterStep
<1>5. ASSUME NEW c \in Clients, accept(c) \/ ClientStep(c)
      PROVE  SInv'
    BY <1>5, AcceptKeeps, HeaderBadKeeps, GetNewjobnoKeeps, CreatDataKeeps, StoreKeeps,
       CreatCtlKeeps, WriteCtlKeeps, RefuseKeeps, RespondKeeps, AddJobKeeps, SignalKeeps
       DEF ClientStep
<1> QED BY <1>1, <1>2, <1>3, <1>4, <1>5 DEF Next

-----------------------------------------------------------------------------
(* The queue *)

QInv == /\ served \in Seq(JobRec) /\ added \in Seq(JobRec)
        /\ FirstComeFirstServed

LEMMA QueueJob ==
    ASSUME SInv, QInv, NEW j \in JobRec, Queue(j), UNCHANGED <<served, jp>>
    PROVE  QInv'
<1> DEFINE s == served \o InHand
<1>1. jobs \in Seq(JobRec) /\ served \in Seq(JobRec) /\ InHand \in Seq(JobRec)
    BY DEF SInv, Types, QInv, InHand
<1>2. s \in Seq(JobRec) /\ InHand' = InHand
    BY <1>1, ConcatProperties DEF InHand
<1>3. <<j>> \in Seq(JobRec)
    OBVIOUS
<1>4. jobs' = jobs \o <<j>> /\ added' = added \o <<j>>
    BY <1>1, AppendIsConcat DEF Queue, QInv
<1>5. s \o jobs = added
    BY DEF QInv, FirstComeFirstServed
<1>6. (s \o jobs) \o <<j>> = s \o (jobs \o <<j>>)
    BY <1>1, <1>2, <1>3, ConcatAssociative
<1>7. added' \in Seq(JobRec)
    BY <1>3, <1>4, ConcatProperties DEF QInv
<1> QED BY <1>1, <1>2, <1>4, <1>5, <1>6, <1>7 DEF QInv, FirstComeFirstServed

LEMMA HeadTailConcat ==
    ASSUME NEW s \in Seq(JobRec), s # <<>>
    PROVE  <<Head(s)>> \o Tail(s) = s
<1> DEFINE t == <<Head(s)>> \o Tail(s)
<1>1. Len(s) \in Nat \ {0} /\ Head(s) \in JobRec /\ Head(s) = s[1]
    BY LenProperties, EmptySeq, HeadTailProperties
<1>2. /\ Tail(s) \in Seq(JobRec) /\ Len(Tail(s)) = Len(s) - 1
      /\ \A i \in 1 .. Len(Tail(s)) : Tail(s)[i] = s[i + 1]
    BY HeadTailProperties
<1>3. <<Head(s)>> \in Seq(JobRec) /\ Len(<<Head(s)>>) = 1 /\ <<Head(s)>>[1] = s[1]
    BY <1>1
<1>4. /\ t \in Seq(JobRec) /\ Len(t) = 1 + (Len(s) - 1)
      /\ \A i \in 1 .. 1 + (Len(s) - 1) :
            t[i] = IF i <= 1 THEN <<Head(s)>>[i] ELSE Tail(s)[i - 1]
    BY <1>2, <1>3, ConcatProperties
<1>5. Len(t) = Len(s) /\ \A i \in 1 .. Len(t) : t[i] = s[i]
    BY <1>1, <1>2, <1>3, <1>4
<1> HIDE DEF t
<1>6. t = s
    BY <1>4, <1>5, SeqEqual
<1> QED BY <1>6 DEF t

LEMMA TakeJob ==
    ASSUME SInv, QInv, remove_job
    PROVE  QInv'
<1>1. jobs \in Seq(JobRec) /\ jobs # <<>> /\ jp = NONE /\ served \in Seq(JobRec)
    BY DEF SInv, Types, Hand, QInv, remove_job, PGoto
<1>2. /\ Head(jobs) \in JobRec /\ Tail(jobs) \in Seq(JobRec)
      /\ <<Head(jobs)>> \o Tail(jobs) = jobs
    BY <1>1, HeadTailProperties, HeadTailConcat
<1>3. InHand = <<>> /\ InHand' = <<Head(jobs)>>
    BY <1>1, <1>2, NoneFacts DEF InHand, remove_job
<1>4. (served \o <<Head(jobs)>>) \o Tail(jobs) = served \o (<<Head(jobs)>> \o Tail(jobs))
    BY <1>1, <1>2, ConcatAssociative, <<Head(jobs)>> \in Seq(JobRec)
<1>5. served \o <<>> = served
    BY <1>1, ConcatEmptySeq
<1> QED BY <1>1, <1>2, <1>3, <1>4, <1>5 DEF QInv, FirstComeFirstServed, remove_job

LEMMA ReturnJob ==
    ASSUME SInv, QInv, replace_job
    PROVE  QInv'
<1>1. jobs \in Seq(JobRec) /\ jp \in JobRec /\ jp # NONE /\ served \in Seq(JobRec)
    BY DEF SInv, Types, Hand, QInv, replace_job, PGoto
<1>2. InHand = <<jp>> /\ InHand' = <<>>
    BY <1>1 DEF InHand, replace_job
<1>3. (served \o <<jp>>) \o jobs = served \o (<<jp>> \o jobs)
    BY <1>1, ConcatAssociative, <<jp>> \in Seq(JobRec)
<1>4. served \o <<>> = served
    BY <1>1, ConcatEmptySeq
<1> QED BY <1>1, <1>2, <1>3, <1>4 DEF QInv, FirstComeFirstServed, replace_job

LEMMA LetGoJob ==
    ASSUME SInv, QInv, cancel \/ unlink_ctl
    PROVE  QInv'
<1>1. /\ jobs \in Seq(JobRec) /\ jp \in JobRec /\ jp # NONE /\ served \in Seq(JobRec)
      /\ served' = Append(served, jp) /\ jp' = NONE
      /\ jobs' = jobs /\ added' = added
    BY DEF SInv, Types, Hand, QInv, cancel, unlink_ctl, PGoto, queue
<1>2. InHand = <<jp>> /\ InHand' = <<>>
    BY <1>1 DEF InHand
<1>3. served' = served \o <<jp>> /\ served' \in Seq(JobRec)
    BY <1>1, AppendIsConcat, AppendProperties
<1>4. served' \o <<>> = served'
    BY <1>3, ConcatEmptySeq
<1> QED BY <1>1, <1>2, <1>3, <1>4 DEF QInv, FirstComeFirstServed

LEMMA QInvStep ==
    SInv /\ QInv /\ [Next]_vars => QInv'
<1> SUFFICES ASSUME SInv, QInv, [Next]_vars PROVE QInv'
    OBVIOUS
<1> USE DEF vars, disk, client, printer, queue
<1>1. ASSUME UNCHANGED <<served, jp, jobs, added>> PROVE QInv'
    BY <1>1 DEF QInv, FirstComeFirstServed, InHand
<1>2. CASE UNCHANGED vars
    BY <1>1, <1>2
<1>3. CASE MainStep
    <2>1. ASSUME NEW n \in todo, build_add(n) PROVE QInv'
        <3>1. Job(n, ctl[n]) \in JobRec
            BY <2>1 DEF SInv, Types, build_add, Job, JobRec
        <3> QED BY <2>1, <3>1, QueueJob DEF build_add
    <2>2. ASSUME NEW n \in todo, build_short(n) \/ build_skip(n) \/ build_unread(n)
          PROVE  QInv'
        BY <1>1, <2>2 DEF build_short, build_skip, build_unread
    <2>3. CASE start \/ build_signal \/ build_done
        BY <1>1, <2>3 DEF start, build_signal, build_done
    <2> QED BY <1>3, <2>1, <2>2, <2>3 DEF MainStep
<1>4. CASE exit
    <2>1. served' = <<>> /\ jobs' = <<>> /\ added' = <<>> /\ InHand' = <<>>
        BY <1>4 DEF exit, Exit, InHand
    <2>2. <<>> \in Seq(JobRec) /\ <<>> \o <<>> = <<>>
        BY EmptySeq, ConcatEmptySeq
    <2> QED BY <2>1, <2>2 DEF QInv, FirstComeFirstServed
<1>5. CASE sighup \/ spurious_wakeup
    BY <1>1, <1>5 DEF sighup, spurious_wakeup
<1>6. CASE PrinterStep
    <2>1. CASE wait \/ update_jobno \/ config \/ open \/ printer_ok \/ defer \/ unlink_data
        BY <1>1, <2>1 DEF wait, update_jobno, config, open, printer_ok, defer, unlink_data
    <2> QED BY <1>6, <2>1, TakeJob, ReturnJob, LetGoJob DEF PrinterStep
<1>7. ASSUME NEW c \in Clients, accept(c) \/ ClientStep(c) PROVE QInv'
    <2>1. CASE add_job(c)
        <3>1. Job(job[c], c) \in JobRec
            BY <2>1 DEF SInv, Types, Has, add_job, Goto, Job, JobRec
        <3> QED BY <2>1, <3>1, QueueJob DEF add_job
    <2>2. CASE accept(c) \/ header_bad(c) \/ get_newjobno(c) \/ creat_data(c) \/ store(c)
        BY <1>1, <2>2 DEF accept, header_bad, get_newjobno, creat_data, store
    <2>3. CASE creat_ctl(c) \/ write_ctl(c) \/ refuse(c) \/ respond(c) \/ signal(c)
        BY <1>1, <2>3 DEF creat_ctl, write_ctl, refuse, respond, signal
    <2> QED BY <1>7, <2>1, <2>2, <2>3 DEF ClientStep
<1> QED BY <1>2, <1>3, <1>4, <1>5, <1>6, <1>7 DEF Next

-----------------------------------------------------------------------------
(* The document of a pending request *)

Own(j) == j.id \notin lost => data[j.id] \in {j.req, NONE}

\* A control file never stands beside another client's document, a thread that
\* has not created its control file finds none under its number, and every
\* pending job's data file is its own document, or gone.
Matched ==
    /\ \A n \in Num : n \notin lost /\ ctl[n] \in Clients => data[n] \in {ctl[n], NONE}
    /\ \A c \in Clients :
          pc[c] \in {"creat_data", "store", "creat_ctl"} /\ job[c] \notin lost =>
              ctl[job[c]] = NONE
    /\ \A i \in DOMAIN jobs : Own(jobs[i])
    /\ jp # NONE => Own(jp)

LEMMA JobsTyped ==
    ASSUME Types
    PROVE  (\A i \in DOMAIN jobs : jobs[i] \in JobRec) /\ (jp # NONE => jp \in JobRec)
BY DEF Types

\* a job at the end of the queue that owns its data file
LEMMA OwnAdded ==
    ASSUME Types, Matched, NEW n \in JobRec, AddsLast(n), Own(n),
           UNCHANGED <<data, lost>>
    PROVE  (\A i \in DOMAIN jobs : Own(jobs[i]))'
<1>1. ASSUME NEW i \in DOMAIN jobs' PROVE Own(jobs'[i])
    BY DEF AddsLast, Matched
<1> QED BY <1>1 DEF Own

LEMMA MatchedMain ==
    ASSUME SInv, Matched, MainStep \/ exit
    PROVE  Matched'
<1> USE NoneFacts DEF SInv, Types, disk, client, printer, queue
<1>1. CASE start \/ build_signal \/ build_done
    BY <1>1 DEF start, build_signal, build_done, Matched, Own
<1>2. ASSUME NEW n \in todo, build_add(n) PROVE Matched'
    <2>1. PICK j \in JobRec : j = [id |-> n, req |-> ctl[n]]
        <3>1. [id |-> n, req |-> ctl[n]] \in JobRec
            BY <1>2 DEF build_add, JobRec
        <3> QED BY <3>1
    <2>2. AddsLast(j)
        BY <1>2, <2>1, AppendJob DEF build_add, Queue, Job, AddsLast
    <2>3. Own(j)
        BY <1>2, <2>1 DEF build_add, Matched, Own
    <2>4. (\A i \in DOMAIN jobs : Own(jobs[i]))'
        <3>1. Types /\ UNCHANGED <<data, lost>>
            BY <1>2 DEF build_add
        <3> HIDE DEF Types
        <3> QED BY <2>2, <2>3, <3>1, OwnAdded
    <2> QED BY <1>2, <2>4 DEF build_add, Matched, Own
<1>3. ASSUME NEW n \in todo, build_short(n) \/ build_skip(n) \/ build_unread(n)
      PROVE  Matched'
    <2>1. \A m \in Num : data'[m] \in {data[m], NONE} /\ ctl'[m] \in {ctl[m], NONE}
        BY <1>3 DEF build_short, build_skip, build_unread
    <2>2. /\ lost \subseteq lost'
          /\ jobs' = jobs /\ jp' = jp /\ pc' = pc /\ job' = job
        BY <1>3 DEF build_short, build_skip, build_unread
    <2>3. \A j \in JobRec : Own(j) => Own(j)'
        BY <2>1, <2>2 DEF Own, JobRec
    <2>4. (\A i \in DOMAIN jobs : jobs[i] \in JobRec) /\ (jp # NONE => jp \in JobRec)
        BY JobsTyped
    <2>5. (\A i \in DOMAIN jobs : Own(jobs[i]))' /\ (jp # NONE => Own(jp))'
        BY <2>2, <2>3, <2>4 DEF Matched, Own
    <2> QED BY <2>1, <2>2, <2>5 DEF Matched, Has
<1>4. CASE exit
    <2>1. jobs' = <<>> /\ jp' = NONE /\ UNCHANGED <<data, ctl, lost, job>>
        BY <1>4 DEF exit, Exit
    <2>2. \A c \in Clients : pc'[c] \in {"new", "done"}
        BY <1>4 DEF exit, Exit
    <2>3. DOMAIN jobs' = {}
        BY <2>1
    <2> QED BY <2>1, <2>2, <2>3 DEF Matched
<1> QED BY <1>1, <1>2, <1>3, <1>4 DEF MainStep

LEMMA MatchedPrinter ==
    ASSUME SInv, Matched, PrinterStep
    PROVE  Matched'
<1> USE NoneFacts DEF SInv, Types, PGoto, disk, client, printer, queue
<1>1. CASE wait \/ update_jobno \/ config \/ open \/ printer_ok \/ defer
    BY <1>1 DEF wait, update_jobno, config, open, printer_ok, defer, Matched, Own
<1>2. CASE remove_job
    <2>1. /\ 1 \in DOMAIN jobs /\ jp' = jobs[1]
          /\ \A i \in DOMAIN jobs' : i + 1 \in DOMAIN jobs /\ jobs'[i] = jobs[i + 1]
        BY <1>2, PopJob DEF remove_job
    <2> QED BY <1>2, <2>1 DEF remove_job, Matched, Own
<1>3. CASE replace_job
    <2>1. jp \in JobRec
        BY <1>3 DEF replace_job, Hand
    <2>2. \A i \in DOMAIN jobs' :
              \/ i - 1 \in DOMAIN jobs /\ jobs'[i] = jobs[i - 1]
              \/ i = 1 /\ jobs'[i] = jp
        BY <1>3, <2>1, PushJob DEF replace_job
    <2> QED BY <1>3, <2>1, <2>2 DEF replace_job, Matched, Own
<1>4. CASE cancel \/ unlink_data \/ unlink_ctl
    <2>1. jp \in JobRec
        BY <1>4 DEF cancel, unlink_data, unlink_ctl, Hand
    <2>2. \A m \in Num : data'[m] \in {data[m], NONE} /\ ctl'[m] \in {ctl[m], NONE}
        BY <1>4, <2>1 DEF cancel, unlink_data, unlink_ctl, JobRec
    <2>3. /\ lost' = lost /\ jobs' = jobs /\ pc' = pc /\ job' = job
          /\ (jp' = jp \/ jp' = NONE)
        BY <1>4 DEF cancel, unlink_data, unlink_ctl
    <2>4. \A j \in JobRec : Own(j) => Own(j)'
        BY <2>2, <2>3 DEF Own, JobRec
    <2>5. \A i \in DOMAIN jobs : jobs[i] \in JobRec
        BY JobsTyped
    <2>6. (\A i \in DOMAIN jobs : Own(jobs[i]))' /\ (jp # NONE => Own(jp))'
        BY <2>1, <2>3, <2>4, <2>5 DEF Matched, Own
    <2> QED BY <2>2, <2>3, <2>6 DEF Matched, Has
<1> QED BY <1>1, <1>2, <1>3, <1>4 DEF PrinterStep

LEMMA MatchedClient ==
    ASSUME SInv, Matched, NEW c \in Clients, accept(c) \/ ClientStep(c)
    PROVE  Matched'
<1> USE NoneFacts DEF SInv, Types, Goto, disk, client, printer, queue
<1>j. (\A i \in DOMAIN jobs : jobs[i] \in JobRec) /\ (jp # NONE => jp \in JobRec)
    BY JobsTyped
<1>1. CASE accept(c) \/ header_bad(c) \/ store(c) \/ respond(c) \/ signal(c)
    BY <1>1 DEF accept, header_bad, store, respond, signal, Matched, Own
<1>2. CASE get_newjobno(c)
    BY <1>2 DEF get_newjobno, Matched, Own, Phases
<1>3. CASE creat_data(c)
    <2>1. job[c] \in Num /\ pc[c] = "creat_data" /\ pc[c] \in Has
        BY <1>3 DEF creat_data, Has
    <2>2. job[c] \notin lost => ctl[job[c]] = NONE
        BY <2>1 DEF Matched
    <2>3. \A j \in JobRec : Fits(j) /\ Own(j) => Own(j)'
        BY <1>3, <2>1 DEF creat_data, Own, Fits, JobRec
    <2>4. (\A i \in DOMAIN jobs : Own(jobs[i]))' /\ (jp # NONE => Own(jp))'
        BY <1>3, <1>j, <2>3 DEF creat_data, Matched, Own, Pending
    <2>5. \A n \in Num : n \notin lost /\ ctl[n] \in Clients => data'[n] \in {ctl[n], NONE}
        BY <1>3, <2>1, <2>2 DEF creat_data, Matched
    <2> QED BY <1>3, <2>1, <2>4, <2>5 DEF creat_data, Matched
<1>4. CASE creat_ctl(c)
    <2>1. job[c] \in Num /\ pc[c] \in Has
        BY <1>4 DEF creat_ctl, Has
    <2>2. \A d \in Clients : d # c /\ pc[d] \in Has => job[d] # job[c]
        BY <2>1 DEF Numbers
    <2> QED BY <1>4, <2>1, <2>2 DEF creat_ctl, Matched, Own, Has
<1>5. CASE write_ctl(c)
    <2>1. job[c] \in Num /\ pc[c] \in Has
          /\ (job[c] \notin lost => data[job[c]] = c)
        BY <1>5 DEF write_ctl, Has, Files, Stored
    <2>2. \A d \in Clients : d # c /\ pc[d] \in Has => job[d] # job[c]
        BY <2>1 DEF Numbers
    <2> QED BY <1>5, <2>1, <2>2 DEF write_ctl, Matched, Own, Has
<1>6. CASE refuse(c)
    <2>1. \A m \in Num : data'[m] \in {data[m], NONE} /\ ctl'[m] \in {ctl[m], NONE}
        BY <1>6 DEF refuse
    <2>2. \A j \in JobRec : Own(j) => Own(j)'
        BY <1>6, <2>1 DEF refuse, Own, JobRec
    <2>3. (\A i \in DOMAIN jobs : Own(jobs[i]))' /\ (jp # NONE => Own(jp))'
        BY <1>6, <1>j, <2>2 DEF refuse, Matched, Own
    <2> QED BY <1>6, <2>1, <2>3 DEF refuse, Matched, Has
<1>7. CASE add_job(c)
    <2>1. job[c] \in Num /\ (job[c] \notin lost => data[job[c]] = c)
        BY <1>7 DEF add_job, Has, Files, Stored
    <2>2. PICK j \in JobRec : j = [id |-> job[c], req |-> c]
        <3>1. [id |-> job[c], req |-> c] \in JobRec
            BY <2>1 DEF JobRec
        <3> QED BY <3>1
    <2>3. AddsLast(j) /\ Own(j)
        BY <1>7, <2>1, <2>2, AppendJob DEF add_job, Queue, Job, AddsLast, Own
    <2>4. (\A i \in DOMAIN jobs : Own(jobs[i]))'
        <3>1. Types /\ UNCHANGED <<data, lost>>
            BY <1>7 DEF add_job
        <3> HIDE DEF Types
        <3> QED BY <2>3, <3>1, OwnAdded
    <2> QED BY <1>7, <2>4 DEF add_job, Matched, Own
<1> QED BY <1>1, <1>2, <1>3, <1>4, <1>5, <1>6, <1>7 DEF ClientStep

LEMMA MatchedStep ==
    SInv /\ Matched /\ [Next]_vars => Matched'
<1> SUFFICES ASSUME SInv, Matched, [Next]_vars PROVE Matched'
    OBVIOUS
<1>1. CASE UNCHANGED vars \/ sighup \/ spurious_wakeup
    BY <1>1 DEF sighup, spurious_wakeup, vars, disk, client, printer, queue, Matched, Own
<1> QED BY <1>1, MatchedMain, MatchedPrinter, MatchedClient DEF Next

\* what the invariants say of the list of pending jobs
LEMMA PendingMatches ==
    SInv /\ Matched => RequestMatches
<1> SUFFICES ASSUME SInv, Matched PROVE RequestMatches
    OBVIOUS
<1> DEFINE pending == InHand \o jobs
<1>1. jobs \in Seq(JobRec) /\ (jp # NONE => jp \in JobRec)
    BY DEF SInv, Types
<1>2. CASE jp = NONE
    <2>1. pending = jobs
        BY <1>1, <1>2, ConcatEmptySeq DEF InHand
    <2> QED BY <1>1, <2>1 DEF SInv, Once, Matched, Own, RequestMatches
<1>3. CASE jp # NONE
    <2>1. \A i \in DOMAIN pending :
              \/ i - 1 \in DOMAIN jobs /\ pending[i] = jobs[i - 1]
              \/ i = 1 /\ pending[i] = jp
        BY <1>1, <1>3, PushJob DEF InHand
    <2>2. pending \in Seq(JobRec)
        BY <1>1, <1>3, PushJob DEF InHand
    <2>3. DOMAIN pending \subseteq Nat /\ DOMAIN jobs \subseteq Nat
        BY <1>1, <2>2, LenProperties
    <2> HIDE DEF pending
    <2>4. ASSUME NEW i \in DOMAIN pending, pending[i].id \notin lost
          PROVE  /\ \A k \in DOMAIN pending : pending[k].id = pending[i].id => k = i
                 /\ data[pending[i].id] \in {pending[i].req, NONE}
        BY <1>3, <2>1, <2>3, <2>4 DEF SInv, Once, Matched, Own
    <2> QED BY <2>4 DEF RequestMatches, pending
<1> QED BY <1>2, <1>3

\* Once a client has been told its job number, its document and its request
\* stay in the spool until the printer has accepted the job, the number is
\* handed out again, or the request cannot be read on start-up: for any number
\* of clients, jobs, exits and faults.
THEOREM AckedSafeHolds ==
    Spec => []AckedSafe
<1>1. SInv => AckedSafe
    BY DEF SInv
<1> QED BY <1>1, InitKeeps, SInvStep, PTL DEF Spec

\* Jobs leave the queue in the order they entered it, none dropped from the
\* list and none twice on it, however often the printer thread defers one.
THEOREM FirstComeFirstServedHolds ==
    Spec => []FirstComeFirstServed
<1>1. Init => QInv
    <2>1. <<>> \in Seq(JobRec) /\ <<>> \o <<>> = <<>>
        BY EmptySeq, ConcatEmptySeq
    <2> QED BY <2>1 DEF Init, QInv, FirstComeFirstServed, InHand
<1>2. QInv => FirstComeFirstServed
    BY DEF QInv
<1> QED BY <1>1, <1>2, InitKeeps, SInvStep, QInvStep, PTL DEF Spec

\* A pending job whose number was not handed out again is pending once, and the
\* document in its data file is the one of its request: no interleaving of
\* client threads, printer thread, exits and restarts prints one client's
\* document on another's request.
THEOREM RequestMatchesHolds ==
    Spec => []RequestMatches
<1>1. Init => Matched
    BY NoneFacts DEF Init, Matched
<1> QED BY <1>1, InitKeeps, SInvStep, MatchedStep, PendingMatches, PTL DEF Spec
=============================================================================
