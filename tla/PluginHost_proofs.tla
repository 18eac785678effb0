-------------------------- MODULE PluginHost_proofs --------------------------
(***************************************************************************)
(* main() of lab1nhhN3249.c for every command line, plugin folder and      *)
(* number of plugins: what is released at END, how many options a plugin   *)
(* is passed, what the search starts with, and when the cleanup goes       *)
(* wrong.                                                                  *)
(***************************************************************************)
EXTENDS PluginHost, SequenceTheorems, TLAPS

Word == DOMAIN Shorts

Before == {"start", "short", "count", "open"}  \* dl is not allocated yet
During == {"load", "long", "search"}
After == {"end", "close"}

Types ==
    /\ pc \in Before \cup During \cup After \cup {"exit", "undefined"}
    /\ argv \in Seq(Word)
    /\ optind \in Nat \ {0} /\ i \in Nat \ {0} /\ num_iter \in Nat
    /\ folder \in Seq(Library)

\* the arrays: none, or one entry for each counted library
Arrays ==
    /\ pc \in Before => passed = <<>> /\ dl = <<>> /\ opened = {}
    /\ pc \in During => DOMAIN passed = 1..num_iter
    /\ DOMAIN dl = DOMAIN passed
    /\ \A k \in DOMAIN passed : passed[k] \in Seq(Word) /\ dl[k] \in Library

(***************************************************************************)
(* How num_iter came about: it is the number of libraries in the folder,   *)
(* unless the folder changed; what get_lib() opened is what loads.         *)
(***************************************************************************)
Counted ==
    /\ pc \in Before => i = 1
    /\ pc \in {"start", "short", "count"} => num_iter = 0 /\ ~changed
    /\ pc = "open" => num_iter = Len(folder) \/ changed
    /\ pc \in During => opened = Loading /\ (num_iter = Len(folder) \/ changed)
    /\ pc \in After =>
          \/ num_iter = 0 /\ opened = {}
          \/ num_iter = 1 /\ opened = {} /\ error = "needs more libraries"
          \/ opened = Loading /\ (num_iter = Len(folder) \/ changed)
    /\ pc \in During \cup After => opened \subseteq 1..num_iter

\* what an allocation that is still live is
Live(a) ==
    \/ a[1] \in {"folder_working", "folder_lib", "dl", "pi"}
    \/ pc # "close" /\ a[1] \in {"plugin", "longopts", "opts_to_pass"}
    \/ pc \notin Before /\ a[1] \in {"file_name0", "dir"} /\ \E k \in 1..num_iter : k \notin opened
    \/ pc # "close" /\ \E p \in DOMAIN passed : \E k \in 1..Len(passed[p]) :
          a = <<"flag", p, k>>

Heap ==
    /\ pc \in {"start", "short"} => heap = {}
    /\ pc \notin {"exit", "undefined"} => \A a \in heap : Live(a)
    /\ AllReleased

\* a plugin is passed options of its own
OwnOptions ==
    \A k \in DOMAIN passed : \A m \in 1..Len(passed[k]) :
        \E j \in 1..Len(dl[k].opts) : dl[k].opts[j].name = passed[k][m]

\* the checks a plugin has passed
Checked ==
    /\ pc \in During => \A k \in 1..num_iter : dl[k].loads => k \in opened
    /\ pc = "load" => \A k \in 1..(i - 1) : k <= num_iter => Refused(dl[k]) = ""
    /\ pc \in {"long", "search"} =>
          flags \cap {"v", "h"} = {} /\ \A k \in 1..num_iter : Refused(dl[k]) = ""
    /\ pc \in {"open"} \cup During => (need_lib2 => num_iter >= 2)
    /\ OwnOptions
    /\ OptionsFit

IInv == Types /\ Arrays /\ Counted /\ Heap /\ Checked /\ UndefinedCauses

-----------------------------------------------------------------------------
(* The invariant, action by action *)

LEMMA InitIInv == Init => IInv
<1> SUFFICES ASSUME Init PROVE IInv
    OBVIOUS
<1>1. argv \in Seq(Word) /\ folder \in Seq(Library)
    BY CommandLines, PluginFolders DEF Init, Word
<1>b. /\ pc = "start" /\ optind = 1 /\ i = 1 /\ num_iter = 0 /\ ~changed
      /\ passed = <<>> /\ dl = <<>> /\ opened = {} /\ heap = {}
    BY DEF Init
<1>a. DOMAIN passed = {} /\ DOMAIN dl = {}
    BY <1>b
<1> USE <1>a, <1>b DEF Before, During, After
<1>2. Types
    BY <1>1 DEF Types
<1>3. Arrays
    BY DEF Arrays
<1>4. Counted
    BY DEF Counted
<1>5. Heap
    BY DEF Heap, AllReleased
<1>6. Checked
    BY DEF Checked, OwnOptions, OptionsFit
<1>7. UndefinedCauses
    BY DEF UndefinedCauses
<1> QED BY <1>2, <1>3, <1>4, <1>5, <1>6, <1>7 DEF IInv

LEMMA OwnOptionsKept ==
    ASSUME OwnOptions, passed' = passed, dl' = dl
    PROVE  OwnOptions'
BY Zenon DEF OwnOptions

LEMMA CheckedEarly ==
    ASSUME passed' = <<>>, pc' \notin During,
           pc' = "open" => (need_lib2 => num_iter >= 2)'
    PROVE  Checked'
<1>1. \A k \in DOMAIN passed' : FALSE
    OBVIOUS
<1> QED BY <1>1 DEF Checked, OwnOptions, OptionsFit, During

\* Before dl is allocated: the first pass over the command line, the folder
\* names, the count.
LEMMA EarlyKeeps ==
    ASSUME IInv,
           \/ Usage \/ Getopt \/ CountSo \/ FolderChanges
           \/ \E cwd_ok \in BOOLEAN : Folder(cwd_ok)
    PROVE  IInv'
<1> USE DEF IInv, Before, During, After, Fail
<1>1. CASE Usage
    <2>1. Types'
        BY <1>1 DEF Usage, Types
    <2>2. Arrays'
        BY <1>1 DEF Usage, Types, Arrays
    <2>3. Counted'
        BY <1>1 DEF Usage, Types, Arrays, Counted
    <2>4. Heap'
        BY <1>1 DEF Usage, Arrays, Heap, Live, AllReleased
    <2>5. Checked'
        <3>1. passed' = <<>> /\ pc' \notin During
            BY <1>1 DEF Usage, Arrays
        <3>2. pc' = "open" => (need_lib2 => num_iter >= 2)'
            BY <1>1 DEF Usage, need_lib2, Checked
        <3> QED BY <3>1, <3>2, CheckedEarly
    <2>6. UndefinedCauses'
        BY <1>1 DEF Usage, UndefinedCauses, Types
    <2> QED BY <2>1, <2>2, <2>3, <2>4, <2>5, <2>6
<1>2. CASE Getopt
    <2>1. Types'
        BY <1>2 DEF Getopt, Types
    <2>2. Arrays'
        BY <1>2 DEF Getopt, Types, Arrays
    <2>3. Counted'
        BY <1>2 DEF Getopt, Types, Arrays, Counted
    <2>4. Heap'
        BY <1>2 DEF Getopt, Arrays, Heap, Live, AllReleased
    <2>5. Checked'
        <3>1. passed' = <<>> /\ pc' \notin During
            BY <1>2 DEF Getopt, Arrays
        <3>2. pc' = "open" => (need_lib2 => num_iter >= 2)'
            BY <1>2 DEF Getopt, need_lib2, Checked
        <3> QED BY <3>1, <3>2, CheckedEarly
    <2>6. UndefinedCauses'
        BY <1>2 DEF Getopt, UndefinedCauses, Types
    <2> QED BY <2>1, <2>2, <2>3, <2>4, <2>5, <2>6
<1>3. CASE CountSo
    <2>0. count_so \in Nat /\ count_so = Len(folder)
        BY LenProperties DEF count_so, Types
    <2>1. Types'
        BY <1>3, <2>0 DEF CountSo, Types
    <2>2. Arrays'
        BY <1>3 DEF CountSo, Arrays
    <2>3. Counted'
        <3>1. /\ num_iter' = Len(folder') /\ opened' = {} /\ i' = 1
              /\ pc' = "open" \/ (pc' = "end" /\ error' = "needs more libraries"
                                  /\ num_iter' < 2 /\ num_iter' \in Nat)
            BY <1>3, <2>0 DEF CountSo, Arrays, Counted
        <3>2. num_iter' < 2 /\ num_iter' \in Nat => num_iter' = 0 \/ num_iter' = 1
            OBVIOUS
        <3> QED BY <3>1, <3>2 DEF Counted
    <2>4. Heap'
        BY <1>3 DEF CountSo, Arrays, Heap, Live, AllReleased
    <2>5. Checked'
        <3>1. passed' = <<>> /\ pc' \notin During
            BY <1>3 DEF CountSo, Arrays
        <3>2. pc' = "open" => (need_lib2 => num_iter >= 2)'
            BY <1>3, <2>0 DEF CountSo, need_lib2, Checked
        <3> QED BY <3>1, <3>2, CheckedEarly
    <2>6. UndefinedCauses'
        BY <1>3 DEF CountSo, UndefinedCauses, Types
    <2> QED BY <2>1, <2>2, <2>3, <2>4, <2>5, <2>6
<1>4. CASE FolderChanges
    <2>1. Types'
        BY <1>4, PluginFolders DEF FolderChanges, Types
    <2>2. Arrays'
        BY <1>4, PluginFolders DEF FolderChanges, Types, Arrays
    <2>3. Counted'
        BY <1>4, PluginFolders DEF FolderChanges, Types, Arrays, Counted
    <2>4. Heap'
        BY <1>4 DEF FolderChanges, Arrays, Heap, Live, AllReleased
    <2>5. Checked'
        <3>1. passed' = <<>> /\ pc' \notin During
            BY <1>4 DEF FolderChanges, Arrays
        <3>2. pc' = "open" => (need_lib2 => num_iter >= 2)'
            BY <1>4 DEF FolderChanges, need_lib2, Checked
        <3> QED BY <3>1, <3>2, CheckedEarly
    <2>6. UndefinedCauses'
        BY <1>4 DEF FolderChanges, UndefinedCauses, Types
    <2> QED BY <2>1, <2>2, <2>3, <2>4, <2>5, <2>6
<1>5. ASSUME NEW cwd_ok \in BOOLEAN, Folder(cwd_ok) PROVE IInv'
    <2>1. Types'
        BY <1>5 DEF Folder, Types
    <2>2. Arrays'
        BY <1>5 DEF Folder, Types, Arrays
    <2>3. Counted'
        BY <1>5 DEF Folder, Types, Arrays, Counted
    <2>4. Heap'
        BY <1>5 DEF Folder, Arrays, Heap, Live, AllReleased
    <2>5. Checked'
        <3>1. passed' = <<>> /\ pc' \notin During
            BY <1>5 DEF Folder, Arrays
        <3>2. pc' = "open" => (need_lib2 => num_iter >= 2)'
            BY <1>5 DEF Folder, need_lib2, Checked
        <3> QED BY <3>1, <3>2, CheckedEarly
    <2>6. UndefinedCauses'
        BY <1>5 DEF Folder, UndefinedCauses, Types
    <2> QED BY <2>1, <2>2, <2>3, <2>4, <2>5, <2>6
<1> QED BY <1>1, <1>2, <1>3, <1>4, <1>5

(***************************************************************************)
(* get_lib(): the libraries opened are the first ones of the folder, so if *)
(* it stops before entry num_iter it has opened some of the counted ones   *)
(* only.                                                                   *)
(***************************************************************************)
LEMMA LoadingPrefix ==
    ASSUME Types
    PROVE  /\ Loading \subseteq 1..Len(folder)
           /\ \A k \in Loading : folder[k] \in Library /\ folder[k].loads
           /\ ~(1..num_iter \subseteq Loading) => Loading \subseteq 1..num_iter
<1>1. Len(folder) \in Nat /\ num_iter \in Nat /\ DOMAIN folder = 1..Len(folder)
    BY LenProperties DEF Types
<1>2. \A k \in 1..Len(folder) : folder[k] \in Library
    BY <1>1, ElementOfSeq DEF Types
<1>3. \A k, m \in 1..Len(folder) : k \in Loading /\ m <= k => m \in Loading
    BY <1>1 DEF Loading
<1>4. \A k \in Loading : k \in 1..Len(folder) /\ folder[k].loads
    BY <1>1 DEF Loading
<1>5. ASSUME NEW m \in 1..num_iter, m \notin Loading, NEW k \in Loading
      PROVE  k \in 1..num_iter
    BY <1>1, <1>3, <1>4, <1>5
<1> QED BY <1>2, <1>4, <1>5

LEMMA GetLibKeeps ==
    ASSUME IInv, GetLib
    PROVE  IInv'
<1> USE DEF IInv, Before, During, After
<1>0. /\ Len(folder) \in Nat /\ num_iter \in Nat
      /\ pc = "open" /\ passed = <<>> /\ dl = <<>>
      /\ UNCHANGED <<argv, flags, optind, folder, changed, num_iter, i, target, error>>
    BY DEF GetLib, Types, Arrays
<1>1. /\ DOMAIN passed' = 1..num_iter /\ DOMAIN dl' = 1..num_iter
      /\ \A k \in 1..num_iter :
            /\ passed'[k] = <<>>
            /\ dl'[k] = IF k \in Loading THEN folder[k] ELSE Null
      /\ opened' = Loading /\ Loading' = Loading
    BY <1>0 DEF GetLib, Loading
<1>2. Null \in Library /\ ~Null.loads
    BY EmptySeq DEF Null, Library
<1>3. Types' /\ pc' \in {"load", "undefined"}
    BY <1>0 DEF GetLib, Types
<1>4. Arrays'
    BY <1>0, <1>1, <1>2, <1>3, LoadingPrefix, EmptySeq DEF Arrays
<1>5. Counted'
    BY <1>0, <1>1, <1>3, LoadingPrefix DEF GetLib, Counted
<1>6. Heap'
    <2>1. ASSUME NEW a \in heap', pc' = "load" PROVE Live(a)'
        <3>1. CASE a \in heap
            <4>1. Live(a)
                BY <1>0, <3>1 DEF Heap
            <4>2. \A k \in DOMAIN passed : FALSE
                BY <1>0
            <4>3. a[1] \in {"folder_working", "folder_lib", "dl", "pi", "plugin", "longopts",
                            "opts_to_pass"}
                BY <1>0, <4>1, <4>2 DEF Live
            <4> QED BY <2>1, <4>3 DEF Live
        <3>2. CASE a \in {<<"dl", 0, 0>>, <<"plugin", 0, 0>>, <<"pi", 0, 0>>}
            BY <2>1, <3>2 DEF Live
        <3>3. CASE a \in {<<"file_name0", 0, 0>>, <<"dir", 0, 0>>} /\ Loading # 1..Len(folder)
            <4>1. Len(folder) <= num_iter \/ ~(1..num_iter \subseteq Loading)
                BY <1>0, <2>1 DEF GetLib
            <4>2. \E k \in 1..num_iter : k \notin Loading
                <5>1. CASE ~(1..num_iter \subseteq Loading)
                    BY <5>1
                <5>2. CASE Len(folder) <= num_iter
                    <6>1. PICK k \in 1..Len(folder) : k \notin Loading
                        BY <3>3, LoadingPrefix
                    <6> QED BY <1>0, <5>2, <6>1
                <5> QED BY <4>1, <5>1, <5>2
            <4>3. (\E k \in 1..num_iter : k \notin opened)'
                BY <1>0, <1>1, <4>2
            <4>4. a[1] \in {"file_name0", "dir"}
                BY <3>3
            <4> QED BY <2>1, <4>3, <4>4 DEF Live
        <3> QED BY <2>1, <3>1, <3>2, <3>3 DEF GetLib
    <2> QED BY <1>3, <2>1 DEF Heap, AllReleased
<1>7. Checked'
    <2>1. \A k \in 1..num_iter : dl'[k].loads => k \in opened'
        BY <1>1, <1>2
    <2>2. \A k \in DOMAIN passed' : Len(passed'[k]) = 0
        BY <1>1
    <2>3. OptionsFit'
        BY <1>4, <2>2, LenProperties DEF Arrays, Library, OptionsFit
    <2>4. (need_lib2 => num_iter >= 2)'
        BY <1>0 DEF Checked, need_lib2
    <2>5. \A k \in DOMAIN passed' : \A m \in 1..Len(passed'[k]) : FALSE
        BY <2>2
    <2>7. i' = 1
        BY <1>0 DEF Counted
    <2>8. \A k \in 1..(i' - 1) : FALSE
        BY <2>7
    <2>9. pc' = "load" \/ pc' = "undefined"
        BY <1>3
    <2> QED BY <1>0, <2>1, <2>3, <2>4, <2>5, <2>8, <2>9 DEF Checked, OwnOptions
<1>8. UndefinedCauses'
    <2>1. pc' = "undefined" => Len(folder) > num_iter
        BY <1>0 DEF GetLib
    <2>2. pc' = "undefined" => changed
        BY <1>0, <2>1 DEF Counted
    <2>3. changed' <=> changed
        BY <1>0, Zenon
    <2> QED BY <2>2, <2>3 DEF UndefinedCauses
<1> QED BY <1>3, <1>4, <1>5, <1>6, <1>7, <1>8

(***************************************************************************)
(* The loop over the plugins that checks them.                             *)
(***************************************************************************)
LEMMA LoadKeeps ==
    ASSUME IInv, NEW allocated \in {{}, {"longopts"}, {"longopts", "opts_to_pass"}},
           Load(allocated)
    PROVE  IInv'
<1> USE DEF IInv, Before, During, After
<1>a. pc = "load" /\ i \in 1..num_iter /\ num_iter \in Nat /\ DOMAIN passed = 1..num_iter
    <2>1. pc = "load" /\ i <= num_iter
        BY DEF Load
    <2> QED BY <2>1 DEF Types, Arrays
<1>b. UNCHANGED <<argv, flags, optind, folder, changed, num_iter, dl, passed, opened>>
    BY Zenon DEF Load
<1>0. /\ pc = "load" /\ i \in 1..num_iter /\ num_iter \in Nat /\ DOMAIN passed = 1..num_iter
      /\ UNCHANGED <<argv, flags, optind, folder, changed, num_iter, dl, passed, opened>>
    BY <1>a, <1>b
<1>1. (pc' = "load" /\ i' = i + 1) \/ (pc' = "end" /\ i' = i)
    BY <1>a DEF Load, Fail
<1>c. pc' = "load" => Refused(dl[i]) = ""
    BY DEF Load, Fail
<1>d. \A a \in heap' : a \in heap \/ a[1] \in {"longopts", "opts_to_pass"}
    <2>1. \A a \in {<<x, i, 0>> : x \in allocated} : a[1] \in {"longopts", "opts_to_pass"}
        OBVIOUS
    <2> QED BY <2>1 DEF Load, Fail
<1>2. Types'
    <2>1. i' \in Nat \ {0}
        BY <1>a, <1>1
    <2> QED BY <1>0, <1>1, <2>1 DEF Types
<1>3. Arrays'
    BY <1>0, <1>1 DEF Arrays
<1>4. Counted'
    BY <1>0, <1>1 DEF Counted, Loading
<1>5. Heap'
    <2>1. ASSUME NEW a \in heap' PROVE Live(a)'
        <3>1. CASE a \in heap
            BY <1>0, <1>1, <3>1 DEF Heap, Live
        <3>2. CASE a \notin heap
            <4>1. a[1] \in {"longopts", "opts_to_pass"} /\ pc' # "close"
                BY <1>1, <1>d, <2>1, <3>2
            <4> QED BY <4>1 DEF Live
        <3> QED BY <3>1, <3>2
    <2> QED BY <1>1, <2>1 DEF Heap, AllReleased
<1>6. Checked'
    <2>1. OptionsFit'
        BY <1>0 DEF Checked, OptionsFit
    <2>2. OwnOptions'
        <3>1. passed' = passed /\ dl' = dl
            BY <1>0
        <3>2. OwnOptions
            BY DEF Checked
        <3> QED BY <3>1, <3>2, OwnOptionsKept
    <2>3. pc' = "load" => \A k \in 1..(i' - 1) : k <= num_iter' => Refused(dl'[k]) = ""
        <3>0. pc' = "load" => i' - 1 = i
            BY <1>a, <1>1
        <3>1. ASSUME pc' = "load", NEW k \in 1..(i' - 1), k <= num_iter
              PROVE  Refused(dl[k]) = ""
            <4>0. Refused(dl[i]) = ""
                BY <1>c, <3>1
            <4>1. i \in Int /\ k \in 1..i
                BY <1>a, <3>0, <3>1
            <4>2. CASE k = i
                BY <4>0, <4>2
            <4>3. CASE k # i
                <5>1. k \in 1..(i - 1)
                    BY <4>1, <4>3
                <5> QED BY <1>a, <3>1, <5>1 DEF Checked
            <4> QED BY <4>2, <4>3
        <3> QED BY <1>0, <3>1
    <2>4. (need_lib2 => num_iter >= 2)' /\ \A k \in 1..num_iter' : dl'[k].loads => k \in opened'
        BY <1>0 DEF Checked, need_lib2
    <2> QED BY <1>1, <2>1, <2>2, <2>3, <2>4 DEF Checked
<1>7. UndefinedCauses'
    BY <1>1 DEF UndefinedCauses
<1> QED BY <1>2, <1>3, <1>4, <1>5, <1>6, <1>7

\* Steps that leave the plugins and the heap alone.
LEMMA QuietKeeps ==
    ASSUME IInv, Loaded \/ SkipWord \/ NextPlugin \/ SearchDir \/ SearchDone
    PROVE  IInv'
<1> USE DEF IInv, Before, During, After
<1>a. UNCHANGED <<argv, flags, folder, changed, num_iter, dl, passed, heap, opened>>
    BY Zenon DEF Loaded, SkipWord, NextPlugin, SearchDir, SearchDone
<1>b. /\ pc \in During /\ num_iter \in Nat /\ DOMAIN passed = 1..num_iter
      /\ pc' \in {"long", "search", "end"} /\ i' \in Nat \ {0} /\ optind' \in Nat \ {0}
    <2>1. /\ pc \in During /\ pc' \in {"long", "search", "end"}
          /\ i' = i \/ i' = i + 1 \/ i' = 1
          /\ optind' = optind \/ optind' = optind + 1 \/ optind' = 1
        BY DEF Loaded, SkipWord, NextPlugin, SearchDir, SearchDone, Fail
    <2> QED BY <2>1 DEF Types, Arrays
<1>0. /\ pc \in During /\ num_iter \in Nat /\ DOMAIN passed = 1..num_iter
      /\ UNCHANGED <<argv, flags, folder, changed, num_iter, dl, passed, heap, opened>>
      /\ pc' \in {"long", "search", "end"} /\ i' \in Nat \ {0} /\ optind' \in Nat \ {0}
    BY <1>a, <1>b
<1>1. /\ pc' \in {"long", "search"} =>
            \/ pc = "load" /\ i > num_iter /\ flags \cap {"v", "h"} = {}
            \/ pc \in {"long", "search"}
    BY DEF Loaded, SkipWord, NextPlugin, SearchDir, SearchDone, Fail
<1>2. Types'
    BY <1>0 DEF Types
<1>3. Arrays'
    BY <1>0 DEF Arrays
<1>4. Counted'
    BY <1>0 DEF Counted, Loading
<1>5. Heap'
    <2>1. ASSUME NEW a \in heap' PROVE Live(a)'
        BY <1>0 DEF Heap, Live
    <2> QED BY <1>0, <2>1 DEF Heap, AllReleased
<1>6. Checked'
    <2>1. OptionsFit'
        BY <1>0 DEF Checked, OptionsFit
    <2>2. OwnOptions'
        <3>1. passed' = passed /\ dl' = dl
            BY <1>0
        <3>2. OwnOptions
            BY DEF Checked
        <3> QED BY <3>1, <3>2, OwnOptionsKept
    <2>3. pc' \in {"long", "search"} =>
              flags \cap {"v", "h"} = {} /\ \A k \in 1..num_iter : Refused(dl[k]) = ""
        <3>1. CASE pc = "load" /\ i > num_iter
            <4>1. \A k \in 1..num_iter : k \in 1..(i - 1) /\ k <= num_iter
                BY <3>1 DEF Types
            <4> QED BY <1>1, <3>1, <4>1 DEF Checked
        <3> QED BY <1>1, <3>1 DEF Checked
    <2>4. (need_lib2 => num_iter >= 2)' /\ \A k \in 1..num_iter' : dl'[k].loads => k \in opened'
        BY <1>0 DEF Checked, need_lib2
    <2> QED BY <1>0, <2>1, <2>2, <2>3, <2>4 DEF Checked
<1>7. UndefinedCauses'
    BY <1>0 DEF UndefinedCauses
<1> QED BY <1>2, <1>3, <1>4, <1>5, <1>6, <1>7

(***************************************************************************)
(* An option of plugin i is stored in opts_to_pass, or there is no room    *)
(* left.                                                                   *)
(***************************************************************************)
LEMMA TakeOptionKeeps ==
    ASSUME IInv, TakeOption
    PROVE  IInv'
<1> USE DEF IInv, Before, During, After
<1>a. /\ pc = "long" /\ i \in 1..num_iter /\ num_iter \in Nat /\ optind \in 1..Len(argv)
      /\ DOMAIN passed = 1..num_iter /\ DOMAIN dl = 1..num_iter
    <2>1. pc = "long" /\ i <= num_iter /\ optind <= Len(argv)
        BY DEF TakeOption
    <2> QED BY <2>1, LenProperties DEF Types, Arrays
<1>b. UNCHANGED <<argv, flags, folder, changed, num_iter, dl, i, opened>>
    BY Zenon DEF TakeOption
<1> DEFINE w == argv[optind]
<1>c. w \in Word
    BY <1>a, ElementOfSeq DEF Types
<1>o. PICK o \in Named(w) :
         /\ optind' = optind + (IF o.has_arg THEN 2 ELSE 1)
         /\ IF Len(passed[i]) = Len(dl[i].opts)
            THEN Fail("too many options") /\ UNCHANGED <<passed, heap>>
            ELSE /\ passed' = [passed EXCEPT ![i] = Append(@, w)]
                 /\ heap' = heap \cup
                      (IF o.has_arg THEN {<<"flag", i, Len(passed[i]) + 1>>} ELSE {})
                 /\ UNCHANGED <<pc, error>>
    BY DEF TakeOption
<1>p. passed[i] \in Seq(Word) /\ dl[i] \in Library /\ dl[i].opts \in Seq(Option)
    BY <1>a DEF Arrays, Library
<1>q. Len(passed[i]) \in Nat /\ Len(dl[i].opts) \in Nat
    BY <1>p, LenProperties
<1>r. optind' \in Nat \ {0}
    <2>1. optind' = optind + 2 \/ optind' = optind + 1
        BY <1>o
    <2>2. optind \in Nat
        BY DEF Types
    <2> QED BY <2>1, <2>2
<1>s. \E j \in 1..Len(dl[i].opts) : dl[i].opts[j].name = w
    BY <1>o DEF Named
<1> HIDE DEF w
<1>1. CASE Len(passed[i]) = Len(dl[i].opts)
    <2>0. pc' = "end" /\ UNCHANGED <<passed, heap>>
        BY <1>o, <1>1 DEF Fail
    <2>1. Types'
        BY <1>a, <1>b, <1>r, <2>0 DEF Types
    <2>2. Arrays'
        BY <1>b, <2>0 DEF Arrays
    <2>3. Counted'
        BY <1>a, <1>b, <2>0 DEF Counted, Loading
    <2>4. Heap'
        BY <1>a, <1>b, <2>0 DEF Heap, Live, AllReleased
    <2>5. Checked'
        <3>1. OwnOptions'
            BY <1>b, <2>0, OwnOptionsKept DEF Checked
        <3>2. OptionsFit'
            BY <1>b, <2>0 DEF Checked, OptionsFit
        <3> QED BY <2>0, <3>1, <3>2 DEF Checked
    <2> QED BY <2>0, <2>1, <2>2, <2>3, <2>4, <2>5 DEF UndefinedCauses
<1>2. CASE Len(passed[i]) # Len(dl[i].opts)
    <2> DEFINE n == Len(passed[i]) + 1
    <2>a. /\ passed' = [passed EXCEPT ![i] = Append(@, w)] /\ pc' = pc
          /\ \A a \in heap' : a \in heap \/ a = <<"flag", i, n>>
        BY <1>o, <1>2
    <2>b. /\ Append(passed[i], w) \in Seq(Word) /\ Len(Append(passed[i], w)) = n
          /\ \A m \in 1..Len(passed[i]) : Append(passed[i], w)[m] = passed[i][m]
          /\ Append(passed[i], w)[n] = w
        BY <1>c, <1>p, <1>q, AppendProperties
    <2>c. /\ DOMAIN passed' = 1..num_iter
          /\ passed'[i] \in Seq(Word) /\ Len(passed'[i]) = n
          /\ \A m \in 1..Len(passed[i]) : passed'[i][m] = passed[i][m]
          /\ passed'[i][n] = w
          /\ \A k \in 1..num_iter : k # i => passed'[k] = passed[k]
        BY <1>a, <2>a, <2>b
    <2>1. Types'
        BY <1>a, <1>b, <1>r, <2>a DEF Types
    <2>2. Arrays'
        BY <1>a, <1>b, <2>a, <2>c DEF Arrays
    <2>3. Counted'
        BY <1>a, <1>b, <2>a DEF Counted, Loading
    <2>4. Heap'
        <3>1. ASSUME NEW a \in heap, NEW p \in DOMAIN passed, NEW k \in 1..Len(passed[p])
              PROVE  p \in DOMAIN passed' /\ k \in 1..Len(passed'[p])
            BY <1>a, <1>q, <2>c, <3>1
        <3>2. ASSUME NEW a \in heap PROVE Live(a)'
            <4>1. Live(a)
                BY <1>a DEF Heap
            <4>2. CASE \E p \in DOMAIN passed : \E k \in 1..Len(passed[p]) : a = <<"flag", p, k>>
                BY <1>a, <2>a, <3>1, <4>2 DEF Live
            <4> QED BY <1>a, <1>b, <2>a, <4>1, <4>2 DEF Live
        <3>3. ASSUME NEW a, a = <<"flag", i, n>> PROVE Live(a)'
            <4>1. i \in DOMAIN passed' /\ n \in 1..Len(passed'[i])
                BY <1>a, <1>q, <2>c
            <4> QED BY <1>a, <2>a, <3>3, <4>1 DEF Live
        <3> QED BY <1>a, <2>a, <3>2, <3>3 DEF Heap, AllReleased
    <2>5. Checked'
        <3>1. OwnOptions'
            <4>1. ASSUME NEW k \in 1..num_iter, NEW m \in 1..Len(passed'[k])
                  PROVE  \E j \in 1..Len(dl[k].opts) : dl[k].opts[j].name = passed'[k][m]
                <5>1. CASE k = i /\ m = n
                    BY <1>s, <2>c, <5>1
                <5>2. CASE k = i /\ m # n
                    <6>1. m \in 1..Len(passed[i]) /\ passed'[k][m] = passed[i][m]
                        BY <1>q, <2>c, <4>1, <5>2
                    <6>2. OwnOptions /\ i \in DOMAIN passed
                        BY <1>a DEF Checked
                    <6>3. \E j \in 1..Len(dl[i].opts) : dl[i].opts[j].name = passed[i][m]
                        BY <6>1, <6>2, Zenon DEF OwnOptions
                    <6> QED BY <5>2, <6>1, <6>3
                <5>3. CASE k # i
                    <6>1. passed'[k] = passed[k]
                        BY <2>c, <5>3
                    <6> QED BY <1>a, <4>1, <6>1 DEF Checked, OwnOptions
                <5> QED BY <5>1, <5>2, <5>3
            <4> QED BY <1>b, <2>c, <4>1 DEF OwnOptions
        <3>2. OptionsFit'
            <4>1. n <= Len(dl[i].opts)
                <5>1. Len(passed[i]) <= Len(dl[i].opts)
                    BY <1>a DEF Checked, OptionsFit
                <5> QED BY <1>q, <1>2, <5>1
            <4> QED BY <1>a, <1>b, <2>c, <4>1 DEF Checked, OptionsFit
        <3>3. need_lib2' <=> need_lib2
            BY <1>b DEF need_lib2
        <3> QED BY <1>a, <1>b, <2>a, <3>1, <3>2, <3>3 DEF Checked
    <2> QED BY <1>a, <2>a, <2>1, <2>2, <2>3, <2>4, <2>5 DEF UndefinedCauses
<1> QED BY <1>1, <1>2

(***************************************************************************)
(* END: what each plugin owns, then the libraries and the rest.            *)
(***************************************************************************)
LEMMA EndFreeKeeps ==
    ASSUME IInv, EndFree
    PROVE  IInv'
<1> USE DEF IInv, Before, During, After
<1>a. pc = "end" /\ pc' = "close"
    BY DEF EndFree
<1>b. UNCHANGED <<argv, flags, optind, folder, changed, num_iter, dl, i, passed, opened, error>>
    BY Zenon DEF EndFree
<1>1. Types'
    BY <1>a, <1>b DEF Types
<1>2. Arrays'
    BY <1>a, <1>b DEF Arrays
<1>3. Counted'
    BY <1>a, <1>b DEF Counted, Loading
<1>4. Heap'
    <2>1. ASSUME NEW a \in heap' PROVE Live(a)'
        <3>1. a \in heap /\ a[1] \notin {"plugin", "opts_to_pass", "longopts"}
            BY <2>1 DEF EndFree
        <3>2. ~\E p \in DOMAIN passed : \E k \in 1..Len(passed[p]) : a = <<"flag", p, k>>
            BY <2>1 DEF EndFree
        <3>3. Live(a)
            BY <1>a, <3>1 DEF Heap
        <3> QED BY <1>a, <1>b, <3>1, <3>2, <3>3 DEF Live
    <2> QED BY <1>a, <2>1 DEF Heap, AllReleased
<1>5. Checked'
    <2>1. OwnOptions'
        BY <1>b, OwnOptionsKept DEF Checked
    <2>2. OptionsFit'
        BY <1>b DEF Checked, OptionsFit
    <2> QED BY <1>a, <2>1, <2>2 DEF Checked
<1> QED BY <1>a, <1>1, <1>2, <1>3, <1>4, <1>5 DEF UndefinedCauses

LEMMA EndCloseKeeps ==
    ASSUME IInv, EndClose
    PROVE  IInv'
<1> USE DEF IInv, Before, During, After
<1>a. pc = "close" /\ pc' \in {"exit", "undefined"}
    BY DEF EndClose
<1>b. UNCHANGED <<argv, flags, optind, folder, changed, num_iter, dl, i, passed, error>>
    BY Zenon DEF EndClose
<1>1. Types'
    BY <1>a, <1>b DEF Types
<1>2. Arrays'
    BY <1>a, <1>b DEF Arrays
<1>3. Counted'
    BY <1>a DEF Counted
<1>4. Heap'
    <2>1. CASE \E k \in 1..num_iter : k \notin opened
        BY <1>a, <2>1 DEF EndClose, Heap, AllReleased
    <2>2. CASE ~\E k \in 1..num_iter : k \notin opened
        <3>1. /\ opened' = opened \ (1..num_iter)
              /\ heap' = {a \in heap :
                            a[1] \notin {"pi", "dl", "folder_working", "folder_lib"}}
            BY <2>2 DEF EndClose
        <3>2. opened' = {}
            BY <1>a, <3>1 DEF Counted
        <3>3. ASSUME NEW a \in heap'
              PROVE  FALSE
            <4>1. a \in heap /\ a[1] \notin {"pi", "dl", "folder_working", "folder_lib"}
                BY <3>1, <3>3
            <4>2. Live(a)
                BY <1>a, <4>1 DEF Heap
            <4> QED BY <1>a, <2>2, <4>1, <4>2 DEF Live
        <3>4. heap' = {}
            BY <3>3
        <3> QED BY <1>a, <3>2, <3>4 DEF Heap, AllReleased
    <2> QED BY <2>1, <2>2
<1>5. Checked'
    <2>1. OwnOptions'
        BY <1>b, OwnOptionsKept DEF Checked
    <2>2. OptionsFit'
        BY <1>b DEF Checked, OptionsFit
    <2> QED BY <1>a, <2>1, <2>2 DEF Checked
<1>6. UndefinedCauses'
    <2> SUFFICES ASSUME pc' = "undefined" PROVE UndefinedCauses'
        BY DEF UndefinedCauses
    <2>1. PICK k \in 1..num_iter : k \notin opened
        BY DEF EndClose
    <2>2. num_iter \in Nat /\ Len(folder) \in Nat
        BY LenProperties DEF Types
    <2>3. CASE num_iter = 1 /\ error = "needs more libraries"
        BY <1>b, <2>3 DEF UndefinedCauses
    <2>4. CASE opened = Loading /\ num_iter = Len(folder)
        <3>1. \E m \in 1..k : ~folder[m].loads
            BY <2>1, <2>4 DEF Loading
        <3>2. \E m \in 1..Len(folder) : ~folder[m].loads
            BY <2>1, <2>2, <2>4, <3>1
        <3> QED BY <1>b, <3>2 DEF UndefinedCauses
    <2>5. CASE changed
        <3>1. changed'
            BY <1>b, <2>5, Zenon
        <3> QED BY <3>1 DEF UndefinedCauses
    <2>6. num_iter # 0
        BY <2>1, <2>2
    <2> QED BY <1>a, <2>3, <2>4, <2>5, <2>6 DEF Counted
<1> QED BY <1>1, <1>2, <1>3, <1>4, <1>5, <1>6

LEMMA IInvStep == IInv /\ [Next]_vars => IInv'
<1> SUFFICES ASSUME IInv, [Next]_vars PROVE IInv'
    OBVIOUS
<1>1. CASE UNCHANGED vars
    <2> USE <1>1 DEF IInv, vars
    <2>1. Types' /\ Arrays'
        BY DEF Types, Arrays
    <2>2. Counted'
        BY DEF Counted, Loading
    <2>3. Heap'
        BY DEF Heap, Live, AllReleased
    <2>4. OwnOptions' /\ OptionsFit'
        BY OwnOptionsKept DEF Checked, OptionsFit
    <2>5. Checked'
        BY <2>4 DEF Checked, need_lib2
    <2>6. UndefinedCauses'
        BY Zenon DEF UndefinedCauses
    <2> QED BY <2>1, <2>2, <2>3, <2>5, <2>6
<1> QED BY <1>1, EarlyKeeps, GetLibKeeps, LoadKeeps, QuietKeeps, TakeOptionKeeps,
           EndFreeKeeps, EndCloseKeeps DEF Next

LEMMA IInvHolds == Spec => []IInv
BY InitIInv, IInvStep, PTL DEF Spec

-----------------------------------------------------------------------------

\* Whatever path leads to END, a program that returns has freed all it
\* allocated and closed all it opened.
THEOREM AllReleasedHolds ==
    Spec => []AllReleased
<1>1. IInv => AllReleased
    BY DEF IInv, Heap
<1> QED BY <1>1, IInvHolds, PTL

\* The "too many options" check keeps every store to opts_to_pass inside the
\* array, for any number of options and words.
THEOREM OptionsFitHolds ==
    Spec => []OptionsFit
<1>1. IInv => OptionsFit
    BY DEF IInv, Checked
<1> QED BY <1>1, IInvHolds, PTL

\* The search starts only with every counted plugin open, complete and
\* informed, with two of them when -A, -O or -N is given, never with -v or
\* -h, and every plugin is passed options of its own.
THEOREM SearchReadyHolds ==
    Spec => []SearchReady
<1>1. ASSUME IInv, pc = "search" PROVE SearchReady
    <2>1. /\ flags \cap {"v", "h"} = {} /\ (need_lib2 => num_iter >= 2)
          /\ \A k \in 1..num_iter : Refused(dl[k]) = ""
          /\ opened \subseteq 1..num_iter /\ DOMAIN passed = 1..num_iter
          /\ \A k \in 1..num_iter : dl[k].loads => k \in opened
        BY <1>1 DEF IInv, Checked, Arrays, Counted, During
    <2>2. ASSUME NEW k \in 1..num_iter
          PROVE  dl[k].loads /\ dl[k].info = "ok" /\ dl[k].process
        <3>1. dl[k] \in Library /\ Refused(dl[k]) = ""
            <4>1. k \in DOMAIN passed
                BY <2>1
            <4> QED BY <1>1, <2>1, <4>1 DEF IInv, Arrays
        <3> QED BY <3>1 DEF Refused, Library
    <2>3. opened = 1..num_iter
        BY <2>1, <2>2
    <2>4. OwnOptions
        BY <1>1 DEF IInv, Checked
    <2> QED BY <2>1, <2>2, <2>3, <2>4 DEF SearchReady, OwnOptions
<1>2. IInv => SearchReady
    BY <1>1 DEF SearchReady
<1> QED BY <1>2, IInvHolds, PTL

\* The cleanup at END goes wrong in three cases only: one library together
\* with -A, -O or -N, a library that does not load, a folder that changed
\* between the two scans.
THEOREM UndefinedCausesHolds ==
    Spec => []UndefinedCauses
<1>1. IInv => UndefinedCauses
    BY DEF IInv
<1> QED BY <1>1, IInvHolds, PTL
=============================================================================
