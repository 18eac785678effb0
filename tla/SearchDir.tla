----------------------------- MODULE SearchDir -----------------------------
(***************************************************************************)
(* search_dir() of lab1nhhN3249.c: the recursive walk that offers every    *)
(* regular file to the loaded plugins, combines their answers according to *)
(* -A, -O and -N, and prints and counts the files selected.                *)
(*                                                                         *)
(* The C call stack is explicit: stack holds the folders of the active     *)
(* calls, unread the entries readdir() has still to return for each open   *)
(* folder, in any order.  What a plugin answers is chosen when it is       *)
(* called and recorded in results.                                         *)
(***************************************************************************)
EXTENDS Integers, Sequences, FiniteSets

CONSTANTS
    Nodes,      \* the files, folders and other objects of the tree
    Root,       \* folder_working
    Kind,       \* d_type of each node: "reg", "dir" or "other"
    Parent,     \* the folder each node but Root is in
    count_lib,  \* number of plugins
    Answers,    \* what plugin_process_file() may return
    FlagSets    \* the combinations of -A, -O and -N considered

Plugins == 1..count_lib
Regs == {x \in Nodes : Kind[x] = "reg"}
Dirs == {x \in Nodes : Kind[x] = "dir"}
Dots == {".", ".."}
NotCalled == -2

ASSUME LibAssumption == count_lib \in Nat
ASSUME AnswersAssumption == Answers \subseteq Int /\ NotCalled \notin Answers
ASSUME FlagAssumption == FlagSets \subseteq SUBSET {"A", "O", "N"}
ASSUME TreeAssumption ==
    /\ Kind \in [Nodes -> {"reg", "dir", "other"}]
    /\ Root \in Dirs
    /\ Parent \in [Nodes \ {Root} -> Dirs]
    /\ \A x \in Nodes \ {Root} : Parent[x] # x
    /\ Dots \cap Nodes = {}

CONSTANT NoNode
ASSUME NoNodeAssumption == NoNode \notin Nodes \cup Dots

VARIABLES
    flags,      \* the combining options given, fixed during the walk
    active,     \* plugins with opts_to_pass_len > 0, fixed during the walk
    readable,   \* folders opendir() can open, fixed during the walk
    pc,
    arg,        \* the folder search_dir is being called with
    stack,      \* folders of the active calls, outermost first
    unread,     \* what readdir() has still to return, per folder
    handles,    \* folders whose DIR* and file_name0 are not released
    cur,        \* the file being checked
    i, call, return_true,
    printed,    \* the files written to stdout, in order
    count,      \* "number of files found"
    results,    \* history: what each plugin returned for each file
    entered,    \* history: folders opened
    seen,       \* history: files that every active plugin has answered for
    aborted     \* history: folders left because a plugin returned an error

aflag == "A" \in flags
oflag == "O" \in flags
nflag == "N" \in flags

params == <<flags, active, readable>>
vars == <<params, pc, arg, stack, unread, handles, cur, i, call, return_true,
          printed, count, results, entered, seen, aborted>>

Init ==
    /\ flags \in FlagSets
    /\ active \in SUBSET Plugins
    /\ readable \in SUBSET Dirs
    /\ pc = "call"
    /\ arg = Root
    /\ stack = <<>>
    /\ unread = [d \in Dirs |-> {}]
    /\ handles = {}
    /\ cur = NoNode
    /\ i = 1 /\ call = 0 /\ return_true = 0
    /\ printed = <<>>
    /\ count = 0
    /\ results = [f \in Regs |-> [p \in Plugins |-> NotCalled]]
    /\ entered = {}
    /\ seen = {}
    /\ aborted = {}

Top == stack[Len(stack)]
OnStack == {stack[k] : k \in 1..Len(stack)}
Pop(s) == SubSeq(s, 1, Len(s) - 1)

\* return from search_dir, to the readdir loop of the caller or to main
Return(s) ==
    /\ stack' = s
    /\ pc' = IF s = <<>> THEN "done" ELSE "read"

-----------------------------------------------------------------------------
\* opendir() succeeds: allocate file_name0, start reading
OpenDir ==
    /\ pc = "call"
    /\ arg \in readable
    /\ stack' = Append(stack, arg)
    /\ unread' = [unread EXCEPT ![arg] =
                    {x \in Nodes \ {Root} : Parent[x] = arg} \cup Dots]
    /\ handles' = handles \cup {arg}
    /\ entered' = entered \cup {arg}
    /\ pc' = "read"
    /\ UNCHANGED <<params, arg, cur, i, call, return_true, printed, count,
                   results, seen, aborted>>

\* opendir() fails: report it and return to the caller
OpenFails ==
    /\ pc = "call"
    /\ arg \notin readable
    /\ Return(stack)
    /\ UNCHANGED <<params, arg, unread, handles, cur, i, call, return_true,
                   printed, count, results, entered, seen, aborted>>

\* get_abs_path(): the object a folder and an entry name denote
get_abs_path(d, e) ==
    CASE e = "." -> d
      [] e = ".." -> (IF d = Root THEN Root ELSE Parent[d])
      [] OTHER -> e

IsDir(d, e) == get_abs_path(d, e) \in Dirs

\* mutant: the stream does not advance
ReadEntryAgain(e) ==
    /\ pc = "read"
    /\ e \in unread[Top]
    /\ UNCHANGED unread

\* readdir() returns entry e of the innermost folder
ReadEntry(e) ==
    /\ pc = "read"
    /\ e \in unread[Top]
    /\ unread' = [unread EXCEPT ![Top] = @ \ {e}]

\* DT_REG: errno = 0, call = 0, return_true = 0
ReadReg(e) ==
    /\ ReadEntry(e)
    /\ e \in Regs
    /\ cur' = e
    /\ i' = 1 /\ call' = 0 /\ return_true' = 0
    /\ pc' = "plugin"
    /\ UNCHANGED <<params, arg, stack, handles, printed, count, results, entered, seen,
                   aborted>>

\* mutant: "." and ".." are not left out
ReadDirDots(e) ==
    /\ ReadEntry(e)
    /\ IsDir(Top, e)
    /\ arg' = get_abs_path(Top, e)
    /\ pc' = "call"
    /\ UNCHANGED <<params, stack, handles, cur, i, call, return_true, printed,
                   count, results, entered, seen, aborted>>

\* DT_DIR, neither "." nor "..": the recursive call
ReadDir(e) ==
    /\ ReadEntry(e)
    /\ IsDir(Top, e)
    /\ e \notin Dots
    /\ arg' = get_abs_path(Top, e)
    /\ pc' = "call"
    /\ UNCHANGED <<params, stack, handles, cur, i, call, return_true, printed,
                   count, results, entered, seen, aborted>>

\* ".", ".." and everything that is neither a regular file nor a folder
ReadSkip(e) ==
    /\ ReadEntry(e)
    /\ e \in Dots \/ (e \notin Regs /\ ~IsDir(Top, e))
    /\ UNCHANGED <<params, pc, arg, stack, handles, cur, i, call, return_true,
                   printed, count, results, entered, seen, aborted>>

\* mutant: no closedir, no free
ReadEndLeaky ==
    /\ pc = "read"
    /\ unread[Top] = {}
    /\ Return(Pop(stack))
    /\ UNCHANGED <<params, arg, unread, handles, cur, i, call, return_true,
                   printed, count, results, entered, seen, aborted>>

\* readdir() returns NULL: free(file_name0), closedir(dir), return
ReadEnd ==
    /\ pc = "read"
    /\ unread[Top] = {}
    /\ handles' = handles \ {Top}
    /\ Return(Pop(stack))
    /\ UNCHANGED <<params, arg, unread, cur, i, call, return_true, printed,
                   count, results, entered, seen, aborted>>

\* a plugin that got no option is not asked
SkipPlugin ==
    /\ pc = "plugin"
    /\ i \in Plugins \ active
    /\ i' = i + 1
    /\ UNCHANGED <<params, pc, arg, stack, unread, handles, cur, call,
                   return_true, printed, count, results, entered, seen, aborted>>

\* mutant: any positive answer counts as a match
CallPluginPositive(ret) ==
    /\ pc = "plugin"
    /\ i \in Plugins \cap active
    /\ ret >= 0
    /\ call' = call + 1
    /\ return_true' = return_true + (IF ret > 0 THEN 1 ELSE 0)
    /\ results' = [results EXCEPT ![cur][i] = ret]
    /\ i' = i + 1
    /\ UNCHANGED <<params, pc, arg, stack, unread, handles, cur, printed,
                   count, entered, seen, aborted>>

\* ppf_func() returns 0 or a positive value
CallPlugin(ret) ==
    /\ pc = "plugin"
    /\ i \in Plugins \cap active
    /\ ret >= 0
    /\ call' = call + 1
    /\ return_true' = return_true + (IF ret = 1 THEN 1 ELSE 0)
    /\ results' = [results EXCEPT ![cur][i] = ret]
    /\ i' = i + 1
    /\ UNCHANGED <<params, pc, arg, stack, unread, handles, cur, printed,
                   count, entered, seen, aborted>>

\* mutant: a plugin error ends the whole search
PluginFailsAll(ret) ==
    /\ pc = "plugin"
    /\ i \in Plugins \cap active
    /\ ret < 0
    /\ call' = call + 1
    /\ results' = [results EXCEPT ![cur][i] = ret]
    /\ aborted' = aborted \cup {Top}
    /\ Return(<<>>)
    /\ UNCHANGED <<params, arg, unread, handles, cur, i, return_true, printed,
                   count, entered, seen>>

\* ppf_func() returns an error: return at once, DIR* and file_name0 kept
PluginFails(ret) ==
    /\ pc = "plugin"
    /\ i \in Plugins \cap active
    /\ ret < 0
    /\ call' = call + 1
    /\ results' = [results EXCEPT ![cur][i] = ret]
    /\ aborted' = aborted \cup {Top}
    /\ Return(Pop(stack))
    /\ UNCHANGED <<params, arg, unread, handles, cur, i, return_true, printed,
                   count, entered, seen>>

\* the if ... else if chain: every branch prints the file and counts it
Selected(rt, c) ==
    /\ c > 0
    /\ \/ aflag /\ rt = c
       \/ aflag /\ nflag /\ rt < c
       \/ oflag /\ rt > 0
       \/ oflag /\ nflag /\ rt = 0
       \/ ~aflag /\ ~oflag /\ rt = 1

\* all plugins asked: print and count the file, or not
Decide ==
    /\ pc = "plugin"
    /\ i = count_lib + 1
    /\ IF Selected(return_true, call)
       THEN printed' = Append(printed, cur) /\ count' = count + 1
       ELSE UNCHANGED <<printed, count>>
    /\ seen' = seen \cup {cur}
    /\ pc' = "read"
    /\ UNCHANGED <<params, arg, stack, unread, handles, cur, i, call,
                   return_true, results, entered, aborted>>

-----------------------------------------------------------------------------
Next ==
    \/ OpenDir \/ OpenFails
    \/ \E e \in Nodes \cup Dots : ReadReg(e) \/ ReadDir(e) \/ ReadSkip(e)
    \/ ReadEnd
    \/ SkipPlugin
    \/ \E ret \in Answers : CallPlugin(ret) \/ PluginFails(ret)
    \/ Decide

Spec == Init /\ [][Next]_vars

\* the walk is one thread; it takes a step whenever it can
FairSpec == Spec /\ WF_vars(Next)

-----------------------------------------------------------------------------
\* The variables have their types (proved as part of the inductive invariant).
TypeOK ==
    /\ flags \in FlagSets
    /\ active \in SUBSET Plugins
    /\ readable \in SUBSET Dirs
    /\ pc \in {"call", "read", "plugin", "done"}
    /\ arg \in Dirs
    /\ stack \in Seq(Dirs)
    /\ unread \in [Dirs -> SUBSET (Nodes \cup Dots)]
    /\ handles \in SUBSET Dirs
    /\ cur \in Regs \cup {NoNode}
    /\ i \in 1..(count_lib + 1)
    /\ call \in Nat
    /\ return_true \in Nat
    /\ printed \in Seq(Regs)
    /\ count \in Nat
    /\ results \in [Regs -> [Plugins -> Answers \cup {NotCalled}]]
    /\ entered \in SUBSET Dirs
    /\ seen \in SUBSET Regs
    /\ aborted \in SUBSET Dirs

PrintedFiles == {printed[k] : k \in 1..Len(printed)}

(***************************************************************************)
(* "%d file(s) have been found": the number main prints is the number of   *)
(* lines search_dir wrote, and no file is listed twice: the walk enters    *)
(* every folder at most once, although each has "." and ".." in it.        *)
(***************************************************************************)
EachFileOnce ==
    /\ count = Len(printed)
    /\ \A j, k \in 1..Len(printed) : printed[j] = printed[k] => j = k

(***************************************************************************)
(* Memory and DIR handles: those of the active calls, plus one pair for    *)
(* each folder left by the error return of line 384, which releases        *)
(* neither; in particular a walk without plugin errors releases all.       *)
(***************************************************************************)
HandlesAccounted == handles = aborted \cup OnStack

(***************************************************************************)
(* The walk misses a regular file or a folder only for a reason: it is a   *)
(* folder that cannot be opened, or the folder above it was left early     *)
(* because of a plugin error, or was itself missed.                        *)
(***************************************************************************)
MissedOnlyByErrors ==
    pc = "done" =>
        \A x \in (Regs \cup Dirs) \ (seen \cup entered) :
            \/ x \in Dirs \ readable
            \/ x # Root /\ Parent[x] \in aborted
            \/ x # Root /\ Parent[x] \notin entered

(***************************************************************************)
(* The documented combination of the answers of the plugins asked (help    *)
(* text of main, lines 251-256): 1 is a match.                             *)
(***************************************************************************)
Matches(f, p) == results[f][p] = 1
Combined(f) ==
    IF oflag /\ ~aflag THEN \E p \in active : Matches(f, p)
                       ELSE \A p \in active : Matches(f, p)
Documented(f) == IF nflag THEN ~Combined(f) ELSE Combined(f)

(***************************************************************************)
(* With -A or -O alone, or with one plugin in use and no -N, the files     *)
(* printed are exactly the checked files that the help text promises.      *)
(***************************************************************************)
CombinationExact ==
    (~nflag /\ (aflag # oflag \/ Cardinality(active) = 1)) =>
        \A f \in seen : active # {} => (f \in PrintedFiles <=> Documented(f))

\* the walk of a finite tree ends, whatever the plugins answer
WalkEnds == <>(pc = "done")

(***************************************************************************)
(* Help text, lines 252-254: "Combine plugin options using AND operation   *)
(* (default).", "... using OR operation", "Inverting the search condition  *)
(* (after combining options plugins with -A or -O).": with none of the     *)
(* options, or with -A or -O and perhaps -N, the files printed are those.  *)
(***************************************************************************)
HelpTextHolds ==
    (active # {} /\ (aflag # oflag \/ ~(nflag \/ aflag \/ oflag))) =>
        \A f \in seen : f \in PrintedFiles <=> Documented(f)
=============================================================================
