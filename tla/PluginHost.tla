----------------------------- MODULE PluginHost -----------------------------
(***************************************************************************)
(* main() of lab1nhhN3249.c, with count_so() and get_lib(): two passes     *)
(* over the command line, two scans of the plugin folder, loading of the   *)
(* plugins, -v, -h, the search, and the common exit at END, which releases *)
(* whatever has been acquired so far.                                      *)
(*                                                                         *)
(* A word of the command line is a model value or string; what the two     *)
(* getopt() passes see in it is given by Shorts and by the options of the  *)
(* libraries.  heap is the set of live allocations, each named             *)
(* <<variable, plugin, option>>.  "undefined" stands for a step that has   *)
(* no defined outcome (an access through a null dl, dlclose(NULL), a write *)
(* past dl[num_iter - 1]); the model follows it no further.                *)
(***************************************************************************)
EXTENDS Integers, Sequences

CONSTANTS
    Argvs,      \* command lines considered, without argv[0]
    Shorts,     \* for each word, the letters of "AONvh" getopt() sees in it
    OptionP,    \* the word "-P"
    DotWords,   \* the words "." and "./"
    Folders,    \* contents of the plugin folder considered, in readdir() order
    MayChange   \* whether the folder may change between the two scans

(***************************************************************************)
(* A library: whether dlopen() loads it, what plugin_get_info() does       *)
(* ("missing", "fails" or "ok"), whether it has plugin_process_file(), and *)
(* its options.                                                            *)
(***************************************************************************)
Option == [name : STRING, has_arg : BOOLEAN]
Library == [loads : BOOLEAN, info : {"missing", "fails", "ok"},
            process : BOOLEAN, opts : Seq(Option)]
Null == [loads |-> FALSE, info |-> "missing", process |-> FALSE, opts |-> <<>>]

ASSUME CommandLines ==
    /\ \A a \in Argvs : a \in Seq(DOMAIN Shorts)
    /\ \A w \in DOMAIN Shorts : Shorts[w] \subseteq {"A", "O", "N", "v", "h"}
    /\ MayChange \in BOOLEAN
ASSUME PluginFolders == \A f \in Folders : f \in Seq(Library)

VARIABLES
    pc,
    argv,
    flags,      \* short options seen: aflag, oflag, nflag, vflag, hflag
    optind,
    folder,     \* the libraries now in folder_lib, be it pvalue or the cwd
    changed,    \* history: the folder changed after it was counted
    num_iter,
    dl,         \* the array dl, <<>> before it is allocated
    i,          \* the plugin a loop is at
    passed,     \* opts_to_pass of each plugin
    target,     \* the word that names the folder to search, "cwd" for none
    heap,       \* live allocations
    opened,     \* positions in dl whose library is open
    error       \* history: why END was reached, "" for a normal end

vars == <<pc, argv, flags, optind, folder, changed, num_iter, dl, i,
          passed, target, heap, opened, error>>

need_lib2 == flags \cap {"A", "O", "N"} # {}

Init ==
    /\ pc = "start"
    /\ argv \in Argvs
    /\ flags = {}
    /\ optind = 1
    /\ folder \in Folders
    /\ changed = FALSE
    /\ num_iter = 0
    /\ dl = <<>>
    /\ i = 1
    /\ passed = <<>>
    /\ target = "cwd"
    /\ heap = {}
    /\ opened = {}
    /\ error = ""

\* goto END
Fail(why) == pc' = "end" /\ error' = why

-----------------------------------------------------------------------------
\* argc < 3: print the usage and return
Usage ==
    /\ pc = "start"
    /\ IF Len(argv) < 2 THEN pc' = "exit" /\ error' = "usage"
                        ELSE pc' = "short" /\ UNCHANGED error
    /\ UNCHANGED <<argv, flags, optind, folder, changed, num_iter, dl, i,
                   passed, target, heap, opened>>

(***************************************************************************)
(* getopt(argc, argv, "-AONvhP:"): one word, every letter of it.  Without  *)
(* long options getopt() takes the letters of "--name" for short options   *)
(* too.  A missing argument of -P ends the program.                        *)
(***************************************************************************)
Getopt ==
    /\ pc = "short" /\ optind <= Len(argv)
    /\ CASE argv[optind] = OptionP /\ optind = Len(argv) ->
              /\ pc' = "exit" /\ error' = "-P"
              /\ UNCHANGED <<flags, optind>>
         [] argv[optind] = OptionP /\ optind < Len(argv) ->
              /\ optind' = optind + 2
              /\ UNCHANGED <<pc, error, flags>>
         [] OTHER ->
              /\ flags' = flags \cup Shorts[argv[optind]]
              /\ optind' = optind + 1
              /\ UNCHANGED <<pc, error>>
    /\ UNCHANGED <<argv, folder, changed, num_iter, dl, i, passed, target, heap,
                   opened>>

\* end of the short options: the two folder names, getcwd()
Folder(cwd_ok) ==
    /\ pc = "short" /\ optind > Len(argv)
    /\ heap' = heap \cup {<<"folder_working", 0, 0>>, <<"folder_lib", 0, 0>>}
    /\ IF cwd_ok THEN pc' = "count" /\ UNCHANGED error ELSE Fail("getcwd")
    /\ UNCHANGED <<argv, flags, optind, folder, changed, num_iter, dl, i,
                   passed, target, opened>>

\* count_so(): the regular files of the folder whose name ends in .so; none
\* when opendir() fails
count_so == Len(folder)

\* num_iter = count_lib, and the check for -A, -O, -N
CountSo ==
    /\ pc = "count"
    /\ num_iter' = count_so
    /\ IF count_so < 2 /\ need_lib2
       THEN Fail("needs more libraries")
       ELSE pc' = "open" /\ UNCHANGED error
    /\ UNCHANGED <<argv, flags, optind, folder, changed, dl, i, passed,
                   target, heap, opened>>

\* somebody adds or removes a library between count_so() and get_lib()
FolderChanges ==
    /\ MayChange
    /\ pc = "open" /\ ~changed
    /\ folder' \in Folders \ {folder}
    /\ changed' = TRUE
    /\ UNCHANGED <<pc, argv, flags, optind, num_iter, dl, i, passed,
                   target, heap, opened, error>>

\* get_lib(): dlopen() every library, up to the first that does not load
Loading == {k \in 1..Len(folder) : \A m \in 1..k : folder[m].loads}

(***************************************************************************)
(* dl = calloc(num_iter), get_lib(folder_lib, dl), whose result is ignored *)
(* and which keeps its buffer and DIR when a library does not load; then   *)
(* plugin and pi.                                                          *)
(***************************************************************************)
GetLib ==
    /\ pc = "open"
    /\ heap' = heap \cup {<<"dl", 0, 0>>, <<"plugin", 0, 0>>, <<"pi", 0, 0>>}
         \cup (IF Loading # 1..Len(folder)
               THEN {<<"file_name0", 0, 0>>, <<"dir", 0, 0>>} ELSE {})
    /\ dl' = [k \in 1..num_iter |-> IF k \in Loading THEN folder[k] ELSE Null]
    /\ opened' = Loading
    /\ passed' = [k \in 1..num_iter |-> <<>>]
    /\ pc' = IF Len(folder) > num_iter /\ 1..num_iter \subseteq Loading
             THEN "undefined" ELSE "load"
    /\ UNCHANGED <<argv, flags, optind, folder, changed, num_iter, i,
                   target, error>>

\* the first check of main() that library l fails, "" for none
Refused(l) ==
    CASE ~l.loads \/ l.info = "missing" -> "dlsym"
      [] l.loads /\ l.info = "fails" -> "get_info"
      [] l.loads /\ l.info = "ok" /\ l.opts = <<>> -> "no options"
      [] l.loads /\ l.info = "ok" /\ l.opts # <<>> /\ ~l.process -> "no process_file"
      [] OTHER -> ""

\* mutant: a failing plugin_get_info() is ignored
LoadUnchecked(allocated) ==
    /\ pc = "load" /\ i <= num_iter
    /\ IF Refused(dl[i]) \notin {"", "get_info"}
       THEN Fail(Refused(dl[i])) /\ UNCHANGED <<i, heap>>
       ELSE /\ heap' = heap \cup {<<a, i, 0>> : a \in allocated}
            /\ i' = i + 1
            /\ UNCHANGED <<pc, error>>
    /\ UNCHANGED <<argv, flags, optind, folder, changed, num_iter, dl, passed,
                   target, opened>>

(***************************************************************************)
(* The checks on plugin i, then its two option arrays, longopts before     *)
(* opts_to_pass; allocated is the set of those calloc() grants.            *)
(* dlsym(NULL, ...) looks among the global symbols, where plugin_get_info  *)
(* is not.                                                                 *)
(***************************************************************************)
Load(allocated) ==
    /\ pc = "load" /\ i <= num_iter
    /\ IF Refused(dl[i]) # ""
       THEN Fail(Refused(dl[i])) /\ UNCHANGED <<i, heap>>
       ELSE /\ heap' = heap \cup {<<a, i, 0>> : a \in allocated}
            /\ IF "opts_to_pass" \in allocated
               THEN i' = i + 1 /\ UNCHANGED <<pc, error>>
               ELSE Fail("calloc") /\ UNCHANGED i
    /\ UNCHANGED <<argv, flags, optind, folder, changed, num_iter, dl, passed,
                   target, opened>>

\* all plugins loaded: -v and -h print and go to END
Loaded ==
    /\ pc = "load" /\ i > num_iter
    /\ i' = 1
    /\ optind' = 1
    /\ IF flags \cap {"v", "h"} # {} THEN Fail("") ELSE pc' = "long" /\ UNCHANGED error
    /\ UNCHANGED <<argv, flags, folder, changed, num_iter, dl, passed,
                   target, heap, opened>>

-----------------------------------------------------------------------------
(* getopt_long_only() for plugin i *)

\* the option of plugin i that a word names
Named(w) == {o \in {dl[i].opts[k] : k \in 1..Len(dl[i].opts)} : o.name = w}

\* the word is an option of plugin i, with its argument if it takes one
Recognised ==
    \E o \in Named(argv[optind]) : o.has_arg => optind < Len(argv)

\* a word that is no option of plugin i, or lacks its argument: continue
SkipWord ==
    /\ pc = "long" /\ i <= num_iter /\ optind <= Len(argv)
    /\ ~Recognised
    /\ optind' = optind + 1
    /\ UNCHANGED <<pc, argv, flags, folder, changed, num_iter, dl, i,
                   passed, target, heap, opened, error>>

\* mutant: opts_to_pass is not checked for room
TakeOptionUnchecked ==
    /\ pc = "long" /\ i <= num_iter /\ optind <= Len(argv)
    /\ Recognised
    /\ \E o \in Named(argv[optind]) :
         /\ passed' = [passed EXCEPT ![i] = Append(@, argv[optind])]
         /\ heap' = heap \cup (IF o.has_arg THEN {<<"flag", i, Len(passed[i]) + 1>>} ELSE {})
         /\ optind' = optind + (IF o.has_arg THEN 2 ELSE 1)
    /\ UNCHANGED <<pc, argv, flags, folder, changed, num_iter, dl, i,
                   target, opened, error>>

\* mutant: optind is not advanced past the option
TakeOptionStuck ==
    /\ pc = "long" /\ i <= num_iter /\ optind <= Len(argv)
    /\ Recognised
    /\ UNCHANGED vars

\* an option of plugin i: too many, or stored with a copy of its argument
TakeOption ==
    /\ pc = "long" /\ i <= num_iter /\ optind <= Len(argv)
    /\ Recognised
    /\ \E o \in Named(argv[optind]) :
         /\ optind' = optind + (IF o.has_arg THEN 2 ELSE 1)
         /\ IF Len(passed[i]) = Len(dl[i].opts)
            THEN Fail("too many options") /\ UNCHANGED <<passed, heap>>
            ELSE /\ passed' = [passed EXCEPT ![i] = Append(@, argv[optind])]
                 /\ heap' = heap \cup
                      (IF o.has_arg THEN {<<"flag", i, Len(passed[i]) + 1>>} ELSE {})
                 /\ UNCHANGED <<pc, error>>
    /\ UNCHANGED <<argv, flags, folder, changed, num_iter, dl, i, target,
                   opened>>

\* -1: on to the next plugin, optind = 1
NextPlugin ==
    /\ pc = "long" /\ i <= num_iter /\ optind > Len(argv)
    /\ i' = i + 1
    /\ optind' = 1
    /\ UNCHANGED <<pc, argv, flags, folder, changed, num_iter, dl, passed,
                   target, heap, opened, error>>

\* the last word is the folder to search; search_dir() runs to its end
SearchDir ==
    /\ pc = "long" /\ i > num_iter
    /\ target' = IF argv[Len(argv)] \in DotWords THEN "cwd" ELSE argv[Len(argv)]
    /\ pc' = "search"
    /\ UNCHANGED <<argv, flags, optind, folder, changed, num_iter, dl, i,
                   passed, heap, opened, error>>

SearchDone ==
    /\ pc = "search"
    /\ Fail("")
    /\ UNCHANGED <<argv, flags, optind, folder, changed, num_iter, dl, i,
                   passed, target, heap, opened>>

-----------------------------------------------------------------------------
\* mutant: the copies of the arguments are not freed
EndFreeKeepsFlags ==
    /\ pc = "end"
    /\ heap' = {a \in heap : a[1] \notin {"plugin", "opts_to_pass", "longopts"}}
    /\ pc' = "close"
    /\ UNCHANGED <<argv, flags, optind, folder, changed, num_iter, dl, i,
                   passed, target, opened, error>>

\* END, if (plugin): free what each plugin owns, as far as it is set
EndFree ==
    /\ pc = "end"
    /\ heap' = {a \in heap : a[1] \notin {"plugin", "opts_to_pass", "longopts"}}
                 \ UNION {{<<"flag", p, k>> : k \in 1..Len(passed[p])} : p \in DOMAIN passed}
    /\ pc' = "close"
    /\ UNCHANGED <<argv, flags, optind, folder, changed, num_iter, dl, i,
                   passed, target, opened, error>>

\* mutant: dlclose(dl[num_iter]) too
EndCloseOneMore ==
    /\ pc = "close"
    /\ IF \E k \in 1..(num_iter + 1) : k \notin opened
       THEN pc' = "undefined" /\ UNCHANGED <<heap, opened>>
       ELSE pc' = "exit" /\ heap' = {} /\ opened' = {}
    /\ UNCHANGED <<argv, flags, optind, folder, changed, num_iter, dl, i, passed,
                   target, error>>

\* for (i < num_iter) dlclose(dl[i]); the rest of the allocations
EndClose ==
    /\ pc = "close"
    /\ IF \E k \in 1..num_iter : k \notin opened
       THEN pc' = "undefined" /\ UNCHANGED <<heap, opened>>
       ELSE /\ opened' = opened \ (1..num_iter)
            /\ heap' = {a \in heap : a[1] \notin {"pi", "dl", "folder_working", "folder_lib"}}
            /\ pc' = "exit"
    /\ UNCHANGED <<argv, flags, optind, folder, changed, num_iter, dl, i,
                   passed, target, error>>

Next ==
    \/ Usage \/ Getopt
    \/ \E cwd_ok \in BOOLEAN : Folder(cwd_ok)
    \/ CountSo \/ FolderChanges \/ GetLib
    \/ \E allocated \in {{}, {"longopts"}, {"longopts", "opts_to_pass"}} : Load(allocated)
    \/ Loaded
    \/ SkipWord \/ TakeOption \/ NextPlugin
    \/ SearchDir \/ SearchDone
    \/ EndFree \/ EndClose

Spec == Init /\ [][Next]_vars

\* main() is the only thread of the program
FairSpec == Spec /\ WF_vars(Next)

-----------------------------------------------------------------------------
(***************************************************************************)
(* Whatever path leads to END, a program that returns has freed all it     *)
(* allocated and closed all it opened.                                     *)
(***************************************************************************)
AllReleased == pc = "exit" => heap = {} /\ opened = {}

(***************************************************************************)
(* opts_to_pass holds sup_opts_len options: the "too many options" check   *)
(* keeps every store inside the array.                                     *)
(***************************************************************************)
OptionsFit == \A k \in DOMAIN passed : Len(passed[k]) <= Len(dl[k].opts)

(***************************************************************************)
(* The search starts only with every counted plugin open, complete and     *)
(* informed, with two of them when -A, -O or -N is given, and never with   *)
(* -v or -h; what a plugin is passed are options of its own.               *)
(***************************************************************************)
SearchReady ==
    pc = "search" =>
        /\ flags \cap {"v", "h"} = {}
        /\ need_lib2 => num_iter >= 2
        /\ opened = 1..num_iter
        /\ \A k \in 1..num_iter :
             /\ dl[k].info = "ok" /\ dl[k].process
             /\ \A m \in 1..Len(passed[k]) :
                  \E j \in 1..Len(dl[k].opts) : dl[k].opts[j].name = passed[k][m]

(***************************************************************************)
(* The cleanup goes wrong in three cases only: one library together with   *)
(* -A, -O or -N (dl is still null), a library that does not load (dl[i] is *)
(* null), and a folder that changed between the two scans.                 *)
(***************************************************************************)
UndefinedCauses ==
    pc = "undefined" =>
        \/ error = "needs more libraries" /\ num_iter = 1
        \/ \E k \in 1..Len(folder) : ~folder[k].loads
        \/ changed

\* every run of the program ends
ProgramEnds == <>(pc \in {"exit", "undefined"})

(***************************************************************************)
(* lab1nhhN3249.c:163-166 and 342: with too few libraries main() prints    *)
(* "ERROR: The program needs more dynamic libraries" and leaves     *)
(* through END, where "if (dl) free (dl);" allows for a dl that was never  *)
(* allocated; the program returns.                                         *)
(***************************************************************************)
TooFewLibrariesReported == error = "needs more libraries" => pc # "undefined"
=============================================================================
