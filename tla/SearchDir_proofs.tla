-------------------------- MODULE SearchDir_proofs --------------------------
(***************************************************************************)
(* Safety of search_dir() (lab1nhhN3249.c) for every tree, every number of *)
(* plugins and everything the plugins may answer.                          *)
(***************************************************************************)
EXTENDS SearchDir, FiniteSetTheorems, SequenceTheorems, TLAPS

Distinct(s) == \A j, k \in 1..Len(s) : s[j] = s[k] => j = k

(***************************************************************************)
(* Where the walk is: a call is for Root or for a folder just read from    *)
(* the innermost open one; a file being checked comes from there too.      *)
(***************************************************************************)
Position ==
    /\ pc = "call" =>
         /\ arg \notin entered
         /\ \/ arg = Root /\ stack = <<>>
            \/ arg # Root /\ stack # <<>> /\ Parent[arg] = Top
    /\ pc = "plugin" =>
         cur \in Regs \ seen /\ stack # <<>> /\ Parent[cur] = Top
    /\ pc = "read" => stack # <<>>
    /\ pc = "done" => stack = <<>>

(***************************************************************************)
(* The open folders are distinct, have been entered and not left.          *)
(***************************************************************************)
Frames ==
    /\ Distinct(stack)
    /\ OnStack \subseteq entered
    /\ OnStack \cap aborted = {}
    /\ aborted \subseteq entered
    /\ \A x \in (seen \cup entered) \ {Root} : Parent[x] \in entered

(***************************************************************************)
(* What readdir() has still to return has not been touched yet.            *)
(***************************************************************************)
Fresh ==
    \A d \in Dirs :
        /\ d \notin entered => unread[d] = {}
        /\ \A e \in unread[d] \ Dots :
             /\ e \in Nodes \ {Root} /\ Parent[e] = d
             /\ e \notin seen \cup entered
             /\ pc = "plugin" => e # cur
             /\ pc = "call" => e # arg

(***************************************************************************)
(* Nothing is forgotten: a child of a folder entered and not aborted is    *)
(* done, cannot be opened, is being handled, or is still to be read; and a *)
(* folder finished normally has nothing left to be read.                   *)
(***************************************************************************)
Pending(x) ==
    \/ x \in seen \cup entered \cup (Dirs \ readable)
    \/ pc = "call" /\ x = arg
    \/ pc = "plugin" /\ x = cur

NothingForgotten ==
    /\ Pending(Root)
    /\ \A x \in (Regs \cup Dirs) \ {Root} :
         Parent[x] \in entered \ aborted => Pending(x) \/ x \in unread[Parent[x]]
    /\ \A d \in entered \ (aborted \cup OnStack) : unread[d] = {}

IInv ==
    /\ TypeOK
    /\ EachFileOnce
    /\ PrintedFiles \subseteq seen
    /\ HandlesAccounted
    /\ Position
    /\ Frames
    /\ Fresh
    /\ NothingForgotten

-----------------------------------------------------------------------------
(***************************************************************************)
(* Returning from search_dir: Pop drops the innermost folder only.         *)
(***************************************************************************)
LEMMA PopFacts ==
    ASSUME NEW S, NEW s \in Seq(S), s # <<>>, Distinct(s)
    PROVE  /\ Len(s) \in Nat \ {0}
           /\ s[Len(s)] \in S
           /\ Pop(s) \in Seq(S)
           /\ Distinct(Pop(s))
           /\ {Pop(s)[k] : k \in 1..Len(Pop(s))} =
                {s[k] : k \in 1..Len(s)} \ {s[Len(s)]}
<1>1. Len(s) \in Nat \ {0}
  BY EmptySeq
<1>0. \A k \in 1..(Len(s) - 1) : s[k] \in S
  BY <1>1
<1>2. /\ Pop(s) \in Seq(S)
      /\ Len(Pop(s)) = IF 1 <= Len(s) - 1 THEN Len(s) - 1 - 1 + 1 ELSE 0
      /\ \A k \in 1..(Len(s) - 1 - 1 + 1) : Pop(s)[k] = s[1 + k - 1]
  <2> HIDE DEF Distinct
  <2> QED
    BY <1>0, <1>1, SubSeqProperties DEF Pop
<1>3. /\ Len(Pop(s)) = Len(s) - 1
      /\ \A k \in 1..(Len(s) - 1) : Pop(s)[k] = s[k]
  <2>0. ASSUME NEW n \in Nat \ {0}
        PROVE  (IF 1 <= n - 1 THEN n - 1 - 1 + 1 ELSE 0) = n - 1
    OBVIOUS
  <2>1. Len(Pop(s)) = Len(s) - 1
    BY <1>1, <1>2, <2>0
  <2>2. ASSUME NEW k \in 1..(Len(s) - 1) PROVE Pop(s)[k] = s[k]
    <3>1. k \in 1..(Len(s) - 1 - 1 + 1) /\ 1 + k - 1 = k
      BY <1>1
    <3> QED
      BY <1>2, <3>1
  <2> QED
    BY <2>1, <2>2
<1>4. Distinct(Pop(s))
  BY <1>1, <1>2, <1>3 DEF Distinct
<1>5. {Pop(s)[k] : k \in 1..Len(Pop(s))} = {s[k] : k \in 1..(Len(s) - 1)}
  BY <1>2, <1>3
<1>6. {s[k] : k \in 1..(Len(s) - 1)} = {s[k] : k \in 1..Len(s)} \ {s[Len(s)]}
  BY <1>1 DEF Distinct
<1>7. s[Len(s)] \in S
  BY <1>1
<1> QED
  BY <1>1, <1>2, <1>4, <1>5, <1>6, <1>7

(***************************************************************************)
(* Calling search_dir, and printing a file, append one element.            *)
(***************************************************************************)
LEMMA AppendFacts ==
    ASSUME NEW S, NEW s \in Seq(S), NEW x \in S, Distinct(s),
           x \notin {s[k] : k \in 1..Len(s)}
    PROVE  /\ Append(s, x) \in Seq(S)
           /\ Len(Append(s, x)) = Len(s) + 1
           /\ Append(s, x) # <<>>
           /\ Append(s, x)[Len(Append(s, x))] = x
           /\ Distinct(Append(s, x))
           /\ {Append(s, x)[k] : k \in 1..Len(Append(s, x))} =
                {s[k] : k \in 1..Len(s)} \cup {x}
<1> DEFINE t == Append(s, x)
<1>1. /\ t \in Seq(S) /\ Len(t) = Len(s) + 1 /\ Len(s) \in Nat
      /\ t[Len(s) + 1] = x /\ t # <<>>
  OBVIOUS
<1>2. \A k \in 1..Len(s) : t[k] = s[k]
  OBVIOUS
<1> HIDE DEF t
<1>3. Distinct(t)
  BY <1>1, <1>2 DEF Distinct
<1>4. {t[k] : k \in 1..Len(t)} = {s[k] : k \in 1..Len(s)} \cup {x}
  BY <1>1, <1>2
<1> QED
  BY <1>1, <1>3, <1>4 DEF t

-----------------------------------------------------------------------------
USE LibAssumption, AnswersAssumption, FlagAssumption, TreeAssumption,
    NoNodeAssumption

\* the innermost call of search_dir() is one of the active calls
LEMMA TopOnStack ==
    ASSUME stack \in Seq(Dirs), stack # <<>>
    PROVE  Top \in OnStack /\ Top \in Dirs
<1>1. Len(stack) \in 1..Len(stack)
  BY EmptySeq
<1> QED
  BY <1>1, ElementOfSeq DEF Top, OnStack

\* when main calls search_dir() the invariant holds
LEMMA InitIInv == Init => IInv
<1> SUFFICES ASSUME Init PROVE IInv
  OBVIOUS
<1>1. TypeOK
  BY DEF Init, TypeOK, Dirs, Regs
<1>2. OnStack = {} /\ PrintedFiles = {}
  BY DEF Init, OnStack, PrintedFiles
<1>3. EachFileOnce /\ HandlesAccounted /\ Position /\ Frames
  BY <1>2 DEF Init, EachFileOnce, HandlesAccounted, Position, Frames, Distinct,
      OnStack
<1>4. Fresh
  BY DEF Init, Fresh
<1>5. NothingForgotten
  BY <1>2 DEF Init, NothingForgotten, Pending
<1> QED
  BY <1>1, <1>2, <1>3, <1>4, <1>5 DEF IInv

(***************************************************************************)
(* opendir() succeeds.                                                     *)
(***************************************************************************)
LEMMA OpenDirStep ==
    ASSUME IInv, OpenDir
    PROVE  IInv'
<1> USE DEF IInv
<1>1. /\ pc = "call" /\ arg \in Dirs /\ arg \notin entered /\ arg \in readable
      /\ stack \in Seq(Dirs) /\ Distinct(stack) /\ arg \notin OnStack
  BY DEF OpenDir, TypeOK, Position, Frames
<1>2. /\ stack' \in Seq(Dirs) /\ stack' # <<>> /\ Top' = arg
      /\ Distinct(stack)' /\ OnStack' = OnStack \cup {arg}
  BY <1>1, AppendFacts DEF OpenDir, Top, OnStack
<1>3. TypeOK'
  BY <1>1, <1>2 DEF OpenDir, TypeOK, params
<1>4. EachFileOnce' /\ (PrintedFiles \subseteq seen)'
  BY DEF OpenDir, EachFileOnce, PrintedFiles
<1>5. HandlesAccounted'
  BY <1>2 DEF OpenDir, HandlesAccounted, OnStack
<1>6. Position' /\ Frames'
  <2>1. arg # Root => Parent[arg] \in entered
    BY <1>1, TopOnStack DEF Position, Frames
  <2>2. Position'
    BY <1>2 DEF OpenDir, Position
  <2> QED
    BY <1>1, <1>2, <2>1, <2>2 DEF OpenDir, Frames
<1>7. Fresh'
  <2>1. \A x \in Nodes \ {Root} :
          Parent[x] = arg => x \notin seen \cup entered \cup {arg}
    BY <1>1 DEF Frames
  <2> QED
    BY <1>1, <2>1 DEF OpenDir, Fresh, TypeOK
<1>8. NothingForgotten'
  <2>1. Pending(Root)'
    BY <1>1 DEF OpenDir, NothingForgotten, Pending, params
  <2>2. ASSUME NEW x \in (Regs \cup Dirs) \ {Root},
               Parent[x] \in (entered \ aborted)'
        PROVE  Pending(x)' \/ x \in unread'[Parent[x]]
    <3>1. CASE Parent[x] = arg
      BY <1>1, <3>1 DEF OpenDir, TypeOK, Regs, Dirs
    <3>2. CASE Parent[x] # arg
      BY <1>1, <2>2, <3>2 DEF OpenDir, NothingForgotten, Pending, TypeOK, params,
          Regs, Dirs
    <3> QED
      BY <3>1, <3>2
  <2>3. \A d \in (entered \ (aborted \cup OnStack))' : unread'[d] = {}
    BY <1>1, <1>2 DEF OpenDir, NothingForgotten, TypeOK
  <2> QED
    BY <2>1, <2>2, <2>3 DEF NothingForgotten, OpenDir
<1> QED
  BY <1>3, <1>4, <1>5, <1>6, <1>7, <1>8

(***************************************************************************)
(* opendir() fails: only the position changes.                             *)
(***************************************************************************)
LEMMA OpenFailsStep ==
    ASSUME IInv, OpenFails
    PROVE  IInv'
<1> USE DEF IInv
<1>1. /\ pc = "call" /\ arg \in Dirs \ readable /\ stack' = stack
      /\ pc' = IF stack = <<>> THEN "done" ELSE "read"
      /\ UNCHANGED <<params, arg, unread, handles, cur, i, call, return_true,
                     printed, count, results, entered, seen, aborted>>
  BY DEF OpenFails, Return, TypeOK
<1>2. TypeOK' /\ EachFileOnce' /\ (PrintedFiles \subseteq seen)' /\ HandlesAccounted'
  BY <1>1 DEF TypeOK, EachFileOnce, PrintedFiles, HandlesAccounted, OnStack,
      params
<1>3. Position' /\ Frames' /\ Fresh'
  BY <1>1 DEF Position, Frames, Fresh, OnStack
<1>4. NothingForgotten'
  BY <1>1 DEF NothingForgotten, Pending, OnStack, params
<1> QED
  BY <1>2, <1>3, <1>4

(***************************************************************************)
(* readdir() returns an entry, whatever is done with it.                   *)
(***************************************************************************)
LEMMA ReadEntryStep ==
    ASSUME IInv, NEW e \in Nodes \cup Dots, ReadReg(e) \/ ReadDir(e) \/ ReadSkip(e)
    PROVE  IInv'
<1> USE DEF IInv
<1>1. /\ pc = "read" /\ e \in unread[Top]
      /\ unread' = [unread EXCEPT ![Top] = @ \ {e}]
      /\ UNCHANGED <<params, stack, handles, printed, count, results, entered,
                     seen, aborted>>
  BY DEF ReadReg, ReadDir, ReadSkip, ReadEntry
<1>2. stack # <<>> /\ Top \in Dirs /\ Top \in OnStack /\ Top' = Top /\ OnStack' = OnStack
  BY <1>1, TopOnStack DEF Position, TypeOK, Top, OnStack
<1>3. e \notin Dots => /\ e \in Nodes \ {Root} /\ Parent[e] = Top
                       /\ e \notin seen \cup entered
  BY <1>1, <1>2 DEF Fresh
<1>4. /\ unread' \in [Dirs -> SUBSET (Nodes \cup Dots)]
      /\ \A d \in Dirs : unread'[d] = IF d = Top THEN unread[d] \ {e} ELSE unread[d]
  BY <1>1, <1>2 DEF TypeOK
<1>5. EachFileOnce' /\ (PrintedFiles \subseteq seen)' /\ HandlesAccounted' /\ Frames'
  BY <1>1, <1>2 DEF EachFileOnce, PrintedFiles, HandlesAccounted, Frames
<1>6. \A d \in (entered \ (aborted \cup OnStack))' : unread'[d] = {}
  BY <1>1, <1>2, <1>4 DEF NothingForgotten, TypeOK
<1>7. ASSUME NEW x \in (Regs \cup Dirs) \ {Root}, Parent[x] \in entered \ aborted
      PROVE  Pending(x) \/ x = e \/ x \in unread'[Parent[x]]
  BY <1>4, <1>7 DEF NothingForgotten, TypeOK
<1>8. CASE ReadReg(e)
  <2>1. /\ e \in Regs \ seen /\ cur' = e /\ i' = 1 /\ call' = 0 /\ return_true' = 0
        /\ pc' = "plugin" /\ arg' = arg /\ e \notin Dots /\ e # Root /\ Parent[e] = Top
    BY <1>3, <1>8 DEF ReadReg, Regs
  <2>2. TypeOK'
    BY <1>1, <1>4, <2>1 DEF TypeOK, params
  <2>3. Position'
    BY <1>1, <1>2, <2>1 DEF Position
  <2>4. Fresh'
    BY <1>1, <1>4, <2>1 DEF Fresh
  <2>5. NothingForgotten'
    BY <1>1, <1>6, <1>7, <2>1 DEF NothingForgotten, Pending, params
  <2> QED
    BY <1>5, <2>2, <2>3, <2>4, <2>5
<1>9. CASE ReadDir(e)
  <2>1. /\ e \in Dirs /\ arg' = e /\ pc' = "call" /\ e \notin Dots
        /\ UNCHANGED <<cur, i, call, return_true>>
    BY <1>9 DEF ReadDir, IsDir, get_abs_path, Dots
  <2>2. TypeOK'
    BY <1>1, <1>4, <2>1 DEF TypeOK, params
  <2>3. Position'
    BY <1>1, <1>2, <1>3, <2>1 DEF Position
  <2>4. Fresh'
    BY <1>1, <1>3, <1>4, <2>1 DEF Fresh
  <2>5. NothingForgotten'
    BY <1>1, <1>6, <1>7, <2>1 DEF NothingForgotten, Pending, params
  <2> QED
    BY <1>5, <2>2, <2>3, <2>4, <2>5
<1>10. CASE ReadSkip(e)
  <2>1. UNCHANGED <<pc, arg, cur, i, call, return_true>>
    BY <1>10 DEF ReadSkip
  <2>2. e \notin Regs \cup Dirs
    BY <1>10 DEF ReadSkip, IsDir, get_abs_path, Dots, Regs, Dirs
  <2>3. TypeOK' /\ Position'
    BY <1>1, <1>2, <1>4, <2>1 DEF TypeOK, Position, params
  <2>4. Fresh'
    BY <1>1, <1>4, <2>1 DEF Fresh
  <2>5. NothingForgotten'
    BY <1>1, <1>6, <1>7, <2>1, <2>2 DEF NothingForgotten, Pending, params
  <2> QED
    BY <1>5, <2>3, <2>4, <2>5
<1> QED
  BY <1>8, <1>9, <1>10

(***************************************************************************)
(* Leaving a folder, normally or because of a plugin error.                *)
(***************************************************************************)
LEMMA ReturnStep ==
    ASSUME IInv, ReadEnd \/ \E ret \in Answers : PluginFails(ret)
    PROVE  IInv'
<1> USE DEF IInv
<1>1. stack \in Seq(Dirs) /\ stack # <<>> /\ Distinct(stack)
  BY DEF ReadEnd, PluginFails, Position, Frames, TypeOK
<1>2. Top \in Dirs /\ Top \in OnStack
  BY <1>1, TopOnStack
<1>3. /\ stack' = Pop(stack)
      /\ pc' = IF Pop(stack) = <<>> THEN "done" ELSE "read"
      /\ UNCHANGED <<params, arg, unread, cur, i, return_true, printed, count,
                     entered, seen>>
  BY DEF ReadEnd, PluginFails, Return
<1>4. /\ stack' \in Seq(Dirs) /\ Distinct(stack') /\ OnStack' = OnStack \ {Top}
  <2>1. /\ Pop(stack) \in Seq(Dirs)
        /\ Distinct(Pop(stack))
        /\ {Pop(stack)[k] : k \in 1..Len(Pop(stack))} =
             {stack[k] : k \in 1..Len(stack)} \ {stack[Len(stack)]}
    BY <1>1, PopFacts
  <2>2. OnStack' = {Pop(stack)[k] : k \in 1..Len(Pop(stack))}
    BY <1>3 DEF OnStack
  <2>3. OnStack \ {Top} = {stack[k] : k \in 1..Len(stack)} \ {stack[Len(stack)]}
    BY DEF OnStack, Top
  <2>4. OnStack' = OnStack \ {Top}
    BY ONLY <2>1, <2>2, <2>3
  <2> QED
    BY <1>3, <2>1, <2>4
<1>5. EachFileOnce' /\ (PrintedFiles \subseteq seen)'
  BY <1>3 DEF EachFileOnce, PrintedFiles
<1>6. Position'
  BY <1>3 DEF Position
<1>7. Fresh'
  BY <1>3 DEF Fresh
<1>8. CASE ReadEnd
  <2>1. /\ pc = "read" /\ unread[Top] = {} /\ handles' = handles \ {Top}
        /\ UNCHANGED <<call, results, aborted>>
    BY <1>8 DEF ReadEnd
  <2>2. TypeOK'
    BY <1>3, <1>4, <2>1 DEF TypeOK, params
  <2>3. HandlesAccounted' /\ Frames'
    BY <1>2, <1>3, <1>4, <2>1 DEF HandlesAccounted, Frames
  <2>4. NothingForgotten'
    BY <1>2, <1>3, <1>4, <2>1 DEF NothingForgotten, Pending, params
  <2> QED
    BY <1>5, <1>6, <1>7, <2>2, <2>3, <2>4
<1>9. CASE \E ret \in Answers : PluginFails(ret)
  <2>1. PICK ret \in Answers : PluginFails(ret)
    BY <1>9
  <2>2. /\ pc = "plugin" /\ cur \in Regs /\ Parent[cur] = Top /\ cur # Root
        /\ i \in Plugins /\ call' = call + 1
        /\ results' = [results EXCEPT ![cur][i] = ret]
        /\ aborted' = aborted \cup {Top} /\ handles' = handles
    BY <2>1 DEF PluginFails, Position, Regs, Dirs
  <2>3. results' \in [Regs -> [Plugins -> Answers \cup {NotCalled}]]
    BY <2>2 DEF TypeOK
  <2>4. TypeOK'
    BY <1>2, <1>3, <1>4, <2>2, <2>3 DEF TypeOK, params
  <2>5. HandlesAccounted' /\ Frames'
    BY <1>2, <1>3, <1>4, <2>2 DEF HandlesAccounted, Frames
  <2>6. NothingForgotten'
    <3>1. Root \in seen \cup entered \cup (Dirs \ readable)
      BY <2>2 DEF NothingForgotten, Pending
    <3> QED
      BY <1>2, <1>3, <1>4, <2>2, <3>1 DEF NothingForgotten, Pending, params
  <2> QED
    BY <1>5, <1>6, <1>7, <2>4, <2>5, <2>6
<1> QED
  BY <1>8, <1>9

(***************************************************************************)
(* A plugin is passed over or answers.                                     *)
(***************************************************************************)
LEMMA PluginStep ==
    ASSUME IInv, SkipPlugin \/ \E ret \in Answers : CallPlugin(ret)
    PROVE  IInv'
<1> USE DEF IInv
<1>1. /\ i \in Plugins /\ i' = i + 1
      /\ UNCHANGED <<params, pc, arg, stack, unread, handles, cur, printed, count,
                     entered, seen, aborted>>
  BY DEF SkipPlugin, CallPlugin
<1>2. call' \in Nat /\ return_true' \in Nat
  BY DEF SkipPlugin, CallPlugin, TypeOK
<1>3. results' \in [Regs -> [Plugins -> Answers \cup {NotCalled}]]
  <2>1. CASE SkipPlugin
    BY <2>1 DEF SkipPlugin, TypeOK
  <2>2. CASE \E ret \in Answers : CallPlugin(ret)
    <3>1. PICK ret \in Answers : results' = [results EXCEPT ![cur][i] = ret]
      BY <2>2 DEF CallPlugin
    <3>2. cur \in Regs
      BY <2>2 DEF CallPlugin, Position
    <3> QED
      BY <1>1, <3>1, <3>2 DEF TypeOK
  <2> QED
    BY <2>1, <2>2
<1>4. TypeOK'
  BY <1>1, <1>2, <1>3 DEF TypeOK, Plugins, params
<1>5. EachFileOnce' /\ (PrintedFiles \subseteq seen)' /\ HandlesAccounted'
  BY <1>1 DEF EachFileOnce, PrintedFiles, HandlesAccounted, OnStack
<1>6. Position' /\ Frames' /\ Fresh'
  BY <1>1 DEF Position, Frames, Fresh, OnStack, Top
<1>7. NothingForgotten'
  BY <1>1 DEF NothingForgotten, Pending, OnStack, params
<1> QED
  BY <1>4, <1>5, <1>6, <1>7

(***************************************************************************)
(* A file is printed and counted, or not; it has not been before.          *)
(***************************************************************************)
LEMMA DecideStep ==
    ASSUME IInv, Decide
    PROVE  IInv'
<1> USE DEF IInv
<1>1. /\ pc = "plugin" /\ pc' = "read" /\ seen' = seen \cup {cur}
      /\ cur \in Regs \ seen /\ stack # <<>> /\ Parent[cur] = Top /\ cur # Root
      /\ UNCHANGED <<params, arg, stack, unread, handles, cur, i, call,
                     return_true, results, entered, aborted>>
  BY DEF Decide, Position, Regs, Dirs
<1>2. /\ printed' \in Seq(Regs) /\ count' \in Nat
      /\ EachFileOnce' /\ (PrintedFiles \subseteq seen)'
  <2>1. CASE Selected(return_true, call)
    <3>1. printed' = Append(printed, cur) /\ count' = count + 1
      BY <2>1 DEF Decide
    <3>2. Distinct(printed) /\ cur \notin {printed[k] : k \in 1..Len(printed)}
      BY <1>1 DEF EachFileOnce, PrintedFiles, Distinct
    <3>3. /\ printed' \in Seq(Regs) /\ Len(printed') = Len(printed) + 1
          /\ Distinct(printed') /\ PrintedFiles' = PrintedFiles \cup {cur}
      BY <1>1, <3>1, <3>2, AppendFacts DEF TypeOK, PrintedFiles
    <3> QED
      BY <1>1, <3>1, <3>3 DEF EachFileOnce, Distinct, TypeOK
  <2>2. CASE ~Selected(return_true, call)
    BY <1>1, <2>2 DEF Decide, EachFileOnce, PrintedFiles, TypeOK
  <2> QED
    BY <2>1, <2>2
<1>3. TypeOK'
  BY <1>1, <1>2 DEF TypeOK, params
<1>4. HandlesAccounted' /\ Position'
  BY <1>1 DEF HandlesAccounted, Position, OnStack
<1>5. Frames'
  BY <1>1, TopOnStack DEF Frames, OnStack, TypeOK
<1>6. Fresh'
  BY <1>1 DEF Fresh
<1>7. NothingForgotten'
  BY <1>1 DEF NothingForgotten, Pending, OnStack, params
<1> QED
  BY <1>2, <1>3, <1>4, <1>5, <1>6, <1>7

-----------------------------------------------------------------------------
(***************************************************************************)
(* The strengthened invariant of search_dir() is inductive.                *)
(***************************************************************************)
THEOREM Inductive == Spec => []IInv
<1>1. IInv /\ [Next]_vars => IInv'
  <2> SUFFICES ASSUME IInv, [Next]_vars PROVE IInv'
    OBVIOUS
  <2>1. CASE OpenDir \/ OpenFails
    BY <2>1, OpenDirStep, OpenFailsStep
  <2>2. CASE \E e \in Nodes \cup Dots : ReadReg(e) \/ ReadDir(e) \/ ReadSkip(e)
    BY <2>2, ReadEntryStep
  <2>3. CASE ReadEnd \/ \E ret \in Answers : PluginFails(ret)
    BY <2>3, ReturnStep
  <2>4. CASE SkipPlugin \/ \E ret \in Answers : CallPlugin(ret)
    BY <2>4, PluginStep
  <2>5. CASE Decide
    BY <2>5, DecideStep
  <2>6. CASE UNCHANGED vars
    BY <2>6 DEF vars, params, IInv, TypeOK, EachFileOnce, PrintedFiles, Top,
        HandlesAccounted, Position, Frames, Fresh, NothingForgotten, Pending,
        OnStack
  <2> QED
    BY <2>1, <2>2, <2>3, <2>4, <2>5, <2>6 DEF Next
<1> QED
  BY <1>1, InitIInv, PTL DEF Spec

(***************************************************************************)
(* search_dir() lists every file at most once and counts what it lists.    *)
(***************************************************************************)
THEOREM ListedOnce == Spec => []EachFileOnce
<1>1. IInv => EachFileOnce
  BY DEF IInv
<1> QED
  BY <1>1, Inductive, PTL

(***************************************************************************)
(* search_dir() holds a DIR* and a buffer for each active call and for     *)
(* each folder a plugin error made it leave, and for nothing else.         *)
(***************************************************************************)
THEOREM Accounted == Spec => []HandlesAccounted
<1>1. IInv => HandlesAccounted
  BY DEF IInv
<1> QED
  BY <1>1, Inductive, PTL

(***************************************************************************)
(* search_dir() overlooks a file or folder only behind an error.           *)
(***************************************************************************)
THEOREM Complete == Spec => []MissedOnlyByErrors
<1>1. IInv => MissedOnlyByErrors
  <2> SUFFICES ASSUME IInv, pc = "done",
                      NEW x \in (Regs \cup Dirs) \ (seen \cup entered),
                      x \notin Dirs \ readable,
                      x # Root => Parent[x] \in entered \ aborted
               PROVE  FALSE
    BY DEF MissedOnlyByErrors, IInv, Frames
  <2>1. OnStack = {}
    BY DEF IInv, Position, OnStack
  <2>2. x # Root
    BY DEF IInv, NothingForgotten, Pending
  <2>3. x \in unread[Parent[x]]
    BY <2>2 DEF IInv, NothingForgotten, Pending
  <2> QED
    BY <2>1, <2>2, <2>3 DEF IInv, NothingForgotten
<1> QED
  BY <1>1, Inductive, PTL

-----------------------------------------------------------------------------
(***************************************************************************)
(* What call and return_true count for the file being checked: the active  *)
(* plugins asked so far, and those of them that answered 1.                *)
(***************************************************************************)
Asked == {p \in active : p < i}
Hits == {p \in Asked : results[cur][p] = 1}
Tally == pc = "plugin" => call = Cardinality(Asked) /\ return_true = Cardinality(Hits)

LEMMA AskedFinite ==
    ASSUME TypeOK
    PROVE  /\ IsFiniteSet(active) /\ IsFiniteSet(Asked) /\ IsFiniteSet(Hits)
           /\ Cardinality(active) \in Nat /\ Cardinality(Asked) \in Nat
           /\ Cardinality(Hits) \in Nat
<1>1. IsFiniteSet(Plugins)
  BY LibAssumption, FS_Interval DEF Plugins
<1>2. active \subseteq Plugins /\ Asked \subseteq active /\ Hits \subseteq active
  BY DEF TypeOK, Asked, Hits
<1>3. IsFiniteSet(active) /\ IsFiniteSet(Asked) /\ IsFiniteSet(Hits)
  BY <1>1, <1>2, FS_Subset
<1> QED
  BY <1>3, FS_CardinalityType

\* Passing over a plugin counts nothing; asking one counts it, and its match.
LEMMA TallyStep == ASSUME IInv, Tally, [Next]_vars PROVE Tally'
<1> USE DEF IInv
<1>1. CASE SkipPlugin
  <2>1. /\ pc = "plugin" /\ i \in Plugins \ active /\ i' = i + 1
        /\ UNCHANGED <<active, pc, cur, call, return_true, results>>
    BY <1>1 DEF SkipPlugin, params
  <2>2. \A p \in active : p < i + 1 <=> p < i
    BY <2>1 DEF TypeOK, Plugins
  <2>3. Asked' = Asked
    BY <2>1, <2>2 DEF Asked
  <2>4. Hits' = Hits
    BY <2>1, <2>3 DEF Hits
  <2> QED
    BY <2>1, <2>3, <2>4 DEF Tally
<1>2. ASSUME NEW ret \in Answers, CallPlugin(ret) PROVE Tally'
  <2>1. /\ pc = "plugin" /\ i \in Plugins /\ i \in active /\ i' = i + 1
        /\ call' = call + 1 /\ return_true' = return_true + (IF ret = 1 THEN 1 ELSE 0)
        /\ results' = [results EXCEPT ![cur][i] = ret]
        /\ UNCHANGED <<active, pc, cur>>
    BY <1>2 DEF CallPlugin, params
  <2>2. cur \in Regs
    BY <2>1 DEF Position
  <2>3. results'[cur][i] = ret /\ \A p \in Plugins : p # i => results'[cur][p] = results[cur][p]
    BY <2>1, <2>2 DEF TypeOK
  <2>4. \A p \in active : p \in Plugins /\ (p < i + 1 <=> p < i \/ p = i) /\ ~(i < i)
    BY <2>1 DEF TypeOK, Plugins
  <2>5. Asked' = Asked \cup {i} /\ i \notin Asked
    BY <2>1, <2>4 DEF Asked
  <2>6. Cardinality(Asked') = Cardinality(Asked) + 1
    BY <2>5, AskedFinite, FS_AddElement
  <2>7. \A p \in Asked : p # i /\ p \in Plugins
    BY <2>4, <2>5 DEF Asked
  <2>8. Hits' = (IF ret = 1 THEN Hits \cup {i} ELSE Hits) /\ i \notin Hits
    BY <2>1, <2>3, <2>5, <2>7 DEF Hits
  <2>9. Cardinality(Hits') = Cardinality(Hits) + (IF ret = 1 THEN 1 ELSE 0)
    <3>1. Cardinality(Hits \cup {i}) = Cardinality(Hits) + 1
      BY <2>8, AskedFinite, FS_AddElement
    <3> QED
      BY <2>8, <3>1, AskedFinite
  <2> QED
    BY <2>1, <2>6, <2>9 DEF Tally
<1>3. ASSUME NEW e, ReadReg(e) PROVE Tally'
  <2>1. i' = 1 /\ call' = 0 /\ return_true' = 0 /\ UNCHANGED active
    BY <1>3 DEF ReadReg, params
  <2>0. \A p \in active' : ~(p < i')
    BY <2>1 DEF TypeOK, Plugins
  <2>2. Asked' = {} /\ Hits' = {}
    BY <2>0 DEF Asked, Hits
  <2> QED
    BY <2>1, <2>2, FS_EmptySet DEF Tally
<1>4. ASSUME pc' # "plugin" PROVE Tally'
  BY <1>4 DEF Tally
<1>5. CASE UNCHANGED vars
  BY <1>5 DEF vars, params, Tally, Asked, Hits
<1>6. ASSUME NEW e, ReadDir(e) \/ ReadSkip(e) PROVE pc' # "plugin"
  BY <1>6 DEF ReadDir, ReadSkip, ReadEntry
<1>7. CASE OpenDir \/ OpenFails \/ ReadEnd \/ Decide \/ \E ret \in Answers : PluginFails(ret)
  BY <1>4, <1>7 DEF OpenDir, OpenFails, ReadEnd, Decide, PluginFails, Return
<1> QED
  BY <1>1, <1>2, <1>3, <1>4, <1>5, <1>6, <1>7 DEF Next

\* When all have been asked, the counts say what the help text speaks of.
LEMMA TallyMeaning ==
    ASSUME TypeOK, Tally, pc = "plugin", i = count_lib + 1, active # {}
    PROVE  /\ call > 0 /\ call \in Nat /\ return_true \in Nat
           /\ return_true = call <=> \A p \in active : Matches(cur, p)
           /\ return_true > 0 <=> \E p \in active : Matches(cur, p)
           /\ call = Cardinality(active)
<1>0. \A p \in active : p < i
  BY LibAssumption DEF TypeOK, Plugins
<1>1. Asked = active
  BY <1>0 DEF Asked
<1>2. Hits = {p \in active : Matches(cur, p)}
  BY <1>1 DEF Hits, Matches
<1>3. Hits \subseteq active
  BY <1>2
<1>4. call = Cardinality(active) /\ return_true = Cardinality(Hits)
  BY <1>1 DEF Tally
<1>5. call > 0 /\ (return_true = 0 <=> Hits = {})
  BY <1>4, AskedFinite, FS_EmptySet
<1>6. return_true = call <=> Hits = active
  BY <1>3, <1>4, AskedFinite, FS_Subset
<1> QED
  BY <1>2, <1>4, <1>5, <1>6, AskedFinite

\* The if ... else if chain then decides as the help text says.
LEMMA SelectedMeans ==
    ASSUME TypeOK, Tally, pc = "plugin", i = count_lib + 1, active # {},
           ~nflag, aflag # oflag \/ Cardinality(active) = 1
    PROVE  Selected(return_true, call) <=> Documented(cur)
<1>1. Documented(cur) <=> Combined(cur)
  BY DEF Documented
<1>2. CASE oflag /\ ~aflag
  BY <1>1, <1>2, TallyMeaning DEF Selected, Combined
<1>3. CASE aflag /\ ~oflag
  BY <1>1, <1>3, TallyMeaning DEF Selected, Combined
<1>4. CASE Cardinality(active) = 1
  <2>1. call = 1 /\ return_true \in Nat /\ (return_true = 1 <=> \A p \in active : Matches(cur, p))
    BY <1>4, TallyMeaning
  <2>2. (\E p \in active : Matches(cur, p)) <=> return_true > 0
    BY TallyMeaning
  <2>3. return_true \in {0, 1}
    BY <1>4, <2>1, AskedFinite, FS_Subset DEF Tally, Hits, Asked
  <2> QED
    BY <1>1, <2>1, <2>2, <2>3 DEF Selected, Combined
<1> QED
  BY <1>2, <1>3, <1>4 DEF aflag, oflag

\* A file's answers and whether it is printed are settled with Decide.
LEMMA ExactStep ==
    ASSUME IInv, Tally, CombinationExact, [Next]_vars PROVE CombinationExact'
<1> USE DEF IInv
<1>1. UNCHANGED <<flags, active>>
  BY DEF Next, vars, params, OpenDir, OpenFails, ReadReg, ReadDir, ReadSkip, ReadEnd,
     SkipPlugin, CallPlugin, PluginFails, Decide
<1> SUFFICES ASSUME ~nflag, aflag # oflag \/ Cardinality(active) = 1, active # {},
                    NEW f \in seen'
             PROVE  (f \in PrintedFiles <=> Documented(f))'
  BY <1>1 DEF CombinationExact, nflag, aflag, oflag
<1>2. ASSUME f \in seen, results'[f] = results[f], f \in PrintedFiles' <=> f \in PrintedFiles
      PROVE  (f \in PrintedFiles <=> Documented(f))'
  <2>1. Documented(f)' <=> Documented(f)
    BY <1>1, <1>2 DEF Documented, Combined, Matches, nflag, aflag, oflag
  <2>2. f \in PrintedFiles <=> Documented(f)
    BY <1>2 DEF CombinationExact
  <2> QED
    BY <1>2, <2>1, <2>2
<1>3. CASE Decide
  <2>1. /\ pc = "plugin" /\ i = count_lib + 1 /\ seen' = seen \cup {cur}
        /\ UNCHANGED results /\ cur \in Regs \ seen
    BY <1>3 DEF Decide, Position
  <2>2. PrintedFiles' = IF Selected(return_true, call) THEN PrintedFiles \cup {cur}
                                                      ELSE PrintedFiles
    <3>1. CASE Selected(return_true, call)
      <4>1. printed' = Append(printed, cur) /\ printed \in Seq(Regs)
        BY <1>3, <3>1 DEF Decide, TypeOK
      <4>2. Distinct(printed) /\ cur \notin {printed[k] : k \in 1..Len(printed)}
        BY <2>1 DEF EachFileOnce, PrintedFiles, Distinct
      <4> QED
        BY <2>1, <3>1, <4>1, <4>2, AppendFacts DEF PrintedFiles
    <3>2. CASE ~Selected(return_true, call)
      BY <1>3, <3>2 DEF Decide, PrintedFiles
    <3> QED
      BY <3>1, <3>2
  <2>3. CASE f \in seen
    BY <1>2, <2>1, <2>2, <2>3
  <2>4. CASE f = cur
    <3>1. Documented(f)' <=> Documented(f)
      BY <1>1, <2>1 DEF Documented, Combined, Matches, nflag, aflag, oflag
    <3>2. cur \notin PrintedFiles
      BY <2>1
    <3>3. f \in PrintedFiles' <=> Selected(return_true, call)
      BY <2>2, <2>4, <3>2
    <3>4. Selected(return_true, call) <=> Documented(cur)
      BY <2>1, SelectedMeans
    <3> QED
      BY <2>4, <3>1, <3>3, <3>4
  <2> QED
    BY <2>1, <2>3, <2>4
<1>4. ASSUME NEW ret \in Answers, CallPlugin(ret) \/ PluginFails(ret)
      PROVE  (f \in PrintedFiles <=> Documented(f))'
  <2>1. /\ pc = "plugin" /\ results' = [results EXCEPT ![cur][i] = ret]
        /\ UNCHANGED <<printed, seen>>
    BY <1>4 DEF CallPlugin, PluginFails
  <2>2. cur \notin seen /\ f \in Regs
    BY <2>1 DEF Position, TypeOK
  <2> QED
    BY <1>2, <2>1, <2>2 DEF TypeOK, PrintedFiles
<1>5. ASSUME UNCHANGED <<results, printed, seen>>
      PROVE  (f \in PrintedFiles <=> Documented(f))'
  BY <1>2, <1>5 DEF PrintedFiles
<1>6. ASSUME NEW e, ReadReg(e) \/ ReadDir(e) \/ ReadSkip(e)
      PROVE  UNCHANGED <<results, printed, seen>>
  BY <1>6 DEF ReadReg, ReadDir, ReadSkip
<1>7. CASE OpenDir \/ OpenFails \/ ReadEnd \/ SkipPlugin \/ UNCHANGED vars
  <2>1. UNCHANGED <<results, printed, seen>>
    BY <1>7 DEF OpenDir, OpenFails, ReadEnd, SkipPlugin, vars
  <2> QED
    BY <1>5, <2>1
<1> QED
  BY <1>3, <1>4, <1>5, <1>6, <1>7 DEF Next

(***************************************************************************)
(* search_dir() prints exactly the files that the options ask for, for     *)
(* every number of plugins and whatever they answer, with -A or -O alone   *)
(* or with one plugin in use and no -N.                                    *)
(***************************************************************************)
THEOREM CombinationCorrect == Spec => []CombinationExact
<1>1. Init => Tally /\ CombinationExact
  BY DEF Init, Tally, CombinationExact
<1>2. IInv /\ Tally /\ CombinationExact /\ [Next]_vars => Tally' /\ CombinationExact'
  BY TallyStep, ExactStep
<1> QED
  BY <1>1, <1>2, Inductive, PTL DEF Spec
=============================================================================
