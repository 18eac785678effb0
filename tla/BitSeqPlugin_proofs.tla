------------------------ MODULE BitSeqPlugin_proofs ------------------------
(***************************************************************************)
(* bit_seq_match() (libnhhN3249.c) for every file, number and width.       *)
(***************************************************************************)
EXTENDS BitSeqPlugin, FiniteSetTheorems, TLAPS

(***************************************************************************)
(* The loop invariant: pos is inside the file and no earlier position      *)
(* matched.                                                                *)
(***************************************************************************)
Searched ==
    /\ pos \in 0..Len(file)
    /\ pat_size <= LLBytes =>
         \A q \in 0..(pos - 1) : q + pat_size <= Len(file) => ~Equal(q, pat_size)

IInv ==
    /\ file \in Seq(Byte) /\ Len(file) < SizeMod
    /\ given \in Texts /\ (text = given \/ text.base = 10)
    /\ pat_size \in Nat
    /\ pc \in {"stat", "map", "match"} => ret = -1
    /\ pc = "match" => Searched
    /\ MatchExact

\* size_t arithmetic on small numbers does not wrap (fSize - pos, line 207)
LEMMA ModSmall ==
    ASSUME NEW a \in Nat, NEW m \in Nat \ {0}, a < m
    PROVE  a % m = a
OBVIOUS

\* the ceil() of pat_size is a natural number
LEMMA CeilNat ==
    ASSUME NEW n \in Nat, NEW d \in Nat \ {0}
    PROVE  Ceil(n, d) \in Nat
BY DEF Ceil

\* the length sprintf("%llx") gives is a natural number
LEMMA HexLenNat == ASSUME NEW v PROVE HexLen(v) \in Nat
<1> DEFINE S == {k \in 1..(2 * LLBytes) : v >= 16 ^ k}
<1>0. 2 * LLBytes \in Int
  BY WidthAssumption
<1>1. S \in SUBSET (1..(2 * LLBytes))
  BY Zenon
<1>2. Cardinality(S) \in Nat
  <2> HIDE DEF S
  <2>1. IsFiniteSet(1..(2 * LLBytes))
    BY <1>0, FS_Interval
  <2>2. IsFiniteSet(S)
    BY <1>1, <2>1, FS_Subset
  <2> QED
    BY <2>2, FS_CardinalityType
<1> QED
  BY <1>2 DEF HexLen

\* pat_size is a number of bytes, whatever the option text is
LEMMA PatSizeNat == IInv => PatSize(text) \in Nat
<1> SUFFICES ASSUME IInv PROVE PatSize(text) \in Nat
  OBVIOUS
<1>1. CASE text.base = 10
  <2>1. PatSize(text) = Ceil(HexLen(Strtoll(text)), 2)
    BY <1>1 DEF PatSize
  <2> QED
    BY <2>1, HexLenNat, CeilNat
<1>2. CASE text.base # 10
  <2>1. text.base \in {2, 16} /\ text.digits \in Seq(0..15)
    BY <1>2, TextsAssumption DEF IInv
  <2>2. Len(text.digits) \in Nat
    BY <2>1
  <2>3. CASE text.base = 16
    BY <2>2, <2>3, CeilNat DEF PatSize
  <2>4. CASE text.base = 2
    BY <2>2, <2>4, CeilNat DEF PatSize
  <2> QED
    BY <2>1, <2>3, <2>4
<1> QED
  BY <1>1, <1>2

(***************************************************************************)
(* fSize - pos does not wrap inside the loop, so the loop condition means  *)
(* what it says.                                                           *)
(***************************************************************************)
LEMMA RoomMeans ==
    ASSUME IInv, pc = "match"
    PROVE  Room <=> pos + pat_size <= Len(file)
<1>0. Len(file) \in Nat /\ pos \in 0..Len(file) /\ Len(file) < SizeMod
  BY DEF IInv, Searched
<1>1. Len(file) - pos \in Nat /\ Len(file) - pos < SizeMod
  BY <1>0, WidthAssumption
<1>2. (Len(file) - pos) % SizeMod = Len(file) - pos
  BY <1>1, ModSmall, WidthAssumption
<1> QED
  BY <1>2 DEF Room, IInv, Searched

\* before the first call of plugin_process_file() the invariant holds
LEMMA InitIInv == Init => IInv
<1>1. <<>> \in Seq(Byte) /\ Len(<<>>) < SizeMod
  BY WidthAssumption
<1> QED
  BY <1>1 DEF Init, IInv, MatchExact

(***************************************************************************)
(* One round of the comparison loop.                                       *)
(***************************************************************************)
LEMMA MatchStepPreserves ==
    ASSUME IInv, MatchStep
    PROVE  IInv'
<1>1. /\ pc = "match" /\ pos \in 0..Len(file) /\ pos + pat_size <= Len(file)
      /\ pat_size \in Nat /\ Len(file) \in Nat
  BY RoomMeans DEF MatchStep, IInv, Searched
<1>2. PICK zero \in MemcmpIsZero(pos) :
         IF zero THEN ret' = 1 /\ pc' = "end" /\ UNCHANGED pos
                 ELSE pos' = pos + 1 /\ UNCHANGED <<ret, pc>>
  BY DEF MatchStep
<1>3. UNCHANGED <<given, text, file, pattern, pat_size>>
  BY DEF MatchStep
<1>4. \A q, n : Equal(q, n)' <=> Equal(q, n)
  BY <1>3 DEF Equal, PatByte
<1>5. Occurs' <=> Occurs
  BY <1>3, <1>4 DEF Occurs
<1>6. pat_size <= LLBytes => (zero <=> Equal(pos, pat_size))
  BY DEF MemcmpIsZero
<1>7. CASE zero
  <2>1. pat_size <= LLBytes => Occurs
    BY <1>1, <1>6, <1>7 DEF Occurs
  <2> QED
    BY <1>2, <1>3, <1>5, <1>7, <2>1 DEF IInv, MatchExact
<1>8. CASE ~zero
  <2>1. pos < Len(file)
    <3>1. CASE pat_size = 0
      BY <1>6, <1>8, <3>1, WidthAssumption DEF Equal
    <3>2. CASE pat_size # 0
      BY <1>1, <3>2
    <3> QED
      BY <3>1, <3>2
  <2>2. Searched'
    <3>1. pos' \in 0..Len(file)'
      BY <1>1, <1>2, <1>3, <1>8, <2>1
    <3>2. ASSUME pat_size <= LLBytes, NEW q \in 0..pos, q + pat_size <= Len(file)
          PROVE  ~Equal(q, pat_size)
      BY <1>1, <1>6, <1>8, <3>2 DEF IInv, Searched
    <3> QED
      BY <1>1, <1>2, <1>3, <1>4, <1>8, <3>1, <3>2 DEF Searched
  <2> QED
    BY <1>1, <1>2, <1>3, <1>8, <2>2 DEF IInv, MatchExact
<1> QED
  BY <1>7, <1>8

(***************************************************************************)
(* The loop ends without a match.                                          *)
(***************************************************************************)
LEMMA MatchEndPreserves ==
    ASSUME IInv, MatchEnd
    PROVE  IInv'
<1>1. /\ pc = "match" /\ pos \in 0..Len(file) /\ ~(pos + pat_size <= Len(file))
      /\ pat_size \in Nat /\ Len(file) \in Nat
  BY RoomMeans DEF MatchEnd, IInv, Searched
<1>2. /\ ret' = 0 /\ pc' = "end"
      /\ UNCHANGED <<given, text, file, pattern, pat_size, pos>>
  BY DEF MatchEnd
<1>3. Occurs' <=> Occurs
  BY <1>2 DEF Occurs, Equal, PatByte
<1>4. pat_size <= LLBytes => ~Occurs
  BY <1>1 DEF IInv, Searched, Occurs
<1> QED
  BY <1>2, <1>3, <1>4 DEF IInv, MatchExact

(***************************************************************************)
(* The invariant of the plugin is inductive.                               *)
(***************************************************************************)
THEOREM Inductive == Spec => []IInv
<1>1. IInv /\ [Next]_vars => IInv'
  <2> SUFFICES ASSUME IInv, [Next]_vars PROVE IInv'
    OBVIOUS
  <2>1. CASE MatchStep \/ MatchEnd
    BY <2>1, MatchStepPreserves, MatchEndPreserves
  <2>2. CASE \E f \in Files : Open(f)
    BY <2>2, FilesAssumption DEF Open, IInv, MatchExact
  <2>3. CASE Parse
    <3>1. pat_size' \in Nat
      BY <2>3, PatSizeNat DEF Parse
    <3>2. text' = text \/ text'.base = 10
      <4>1. text = given \/ text.base = 10
        BY DEF IInv
      <4>2. CASE text.base # 10
        BY <2>3, <4>2 DEF Parse, Rewritten
      <4>3. CASE text.base = 10
        BY <2>3, <4>3 DEF Parse, Rewritten
      <4> QED
        BY <4>2, <4>3
    <3> QED
      BY <2>3, <3>1, <3>2 DEF Parse, IInv, MatchExact
  <2>4. CASE Mmap
    BY <2>4 DEF Mmap, IInv, MatchExact, Searched
  <2>5. CASE StatEmpty \/ StatFails \/ MmapFails
    BY <2>5 DEF StatEmpty, StatFails, MmapFails, IInv, MatchExact
  <2>6. CASE OpenFails \/ ParseFails \/ End
    BY <2>6 DEF OpenFails, ParseFails, End, IInv, MatchExact
  <2>7. CASE UNCHANGED vars
    BY <2>7 DEF vars, IInv, MatchExact, Searched, Occurs, Equal, PatByte
  <2> QED
    BY <2>1, <2>2, <2>3, <2>4, <2>5, <2>6, <2>7 DEF Next
<1> QED
  BY <1>1, InitIInv, PTL DEF Spec

(***************************************************************************)
(* bit_seq_match() returns 1 iff the bytes of the number occur in the      *)
(* file, for numbers of at most sizeof(long long) bytes.                   *)
(***************************************************************************)
THEOREM MatchCorrect == Spec => []MatchExact
<1>1. IInv => MatchExact
  BY DEF IInv
<1> QED
  BY <1>1, Inductive, PTL

(***************************************************************************)
(* bit_seq_match() never compares past the end of the mapping.             *)
(***************************************************************************)
THEOREM InBounds == Spec => []ReadsInBounds
<1>1. IInv => ReadsInBounds
  BY RoomMeans DEF IInv, ReadsInBounds, Searched
<1> QED
  BY <1>1, Inductive, PTL

(***************************************************************************)
(* The bookkeeping of a call: one descriptor while it runs and none after  *)
(* it but the leaked ones, one mapping at most, the reason of a failure in *)
(* saved_errno by the time END is reached; and whether the option text     *)
(* parses does not change when it is rewritten.                            *)
(***************************************************************************)
Calls ==
    /\ pc \in {"idle", "stat", "map", "match", "end"}
    /\ leaks \in Nat /\ maps \in {0, 1}
    /\ pc \in {"idle", "stat", "map"} => maps = 0
    /\ text.base = given.base /\ text.junk = given.junk
    /\ given.base # 10 => text = given
    /\ pc \in {"stat", "map", "match"} => ret = -1
    /\ pc = "end" /\ ret < 0 => saved_errno # "0"
    /\ ret \in Int
    /\ ReleasedUnlessUnparsed
    /\ ErrorsHaveErrno

\* sprintf() writes digits only: what follows the number stays as it was
LEMMA RewrittenParses ==
    ASSUME NEW t, t.base \in {2, 10, 16}
    PROVE  /\ Rewritten(t).base = t.base /\ Rewritten(t).junk = t.junk
           /\ t.base # 10 => Rewritten(t) = t
BY DEF Rewritten

LEMMA CallsStep == Calls /\ IInv /\ [Next]_vars => Calls'
<1> SUFFICES ASSUME Calls, IInv, [Next]_vars PROVE Calls'
  OBVIOUS
<1> USE DEF Calls, ReleasedUnlessUnparsed, ErrorsHaveErrno, Unparsed
<1>1. CASE OpenFails \/ \E f \in Files : Open(f)
  BY <1>1 DEF OpenFails, Open
<1>2. CASE StatEmpty \/ StatFails
  BY <1>2 DEF StatEmpty, StatFails
<1>3. CASE Parse
  <2>1. given.base \in {2, 10, 16}
    BY TextsAssumption DEF IInv
  <2>2. /\ text'.base = given.base /\ text'.junk = given.junk
        /\ given.base # 10 => text' = given
    BY <1>3, <2>1, RewrittenParses DEF Parse
  <2> QED
    BY <1>3, <2>2 DEF Parse
<1>4. CASE ParseFails
  <2>1. Unparsed(given)
    BY <1>4 DEF ParseFails
  <2> QED
    BY <1>4, <2>1 DEF ParseFails
<1>5. CASE Mmap \/ MmapFails
  BY <1>5 DEF Mmap, MmapFails
<1>6. CASE MatchStep \/ MatchEnd
  BY <1>6 DEF MatchStep, MatchEnd
<1>7. CASE End
  BY <1>7 DEF End
<1>8. CASE UNCHANGED vars
  BY <1>8 DEF vars
<1> QED
  BY <1>1, <1>2, <1>3, <1>4, <1>5, <1>6, <1>7, <1>8 DEF Next

LEMMA CallsHold == Spec => []Calls
<1>1. Init => Calls
  BY DEF Init, Calls, ReleasedUnlessUnparsed, ErrorsHaveErrno
<1> QED
  BY <1>1, CallsStep, Inductive, PTL DEF Spec

(***************************************************************************)
(* Every call releases its descriptor and its mapping, except a call whose *)
(* number does not parse; and a number that parses once always parses.     *)
(***************************************************************************)
THEOREM ReleaseCorrect == Spec => []ReleasedUnlessUnparsed
<1>1. Calls => ReleasedUnlessUnparsed
  BY DEF Calls
<1> QED
  BY <1>1, CallsHold, PTL

(***************************************************************************)
(* A call that returns an error leaves errno set, as plugin_api.h asks.    *)
(***************************************************************************)
THEOREM ErrnoCorrect == Spec => []ErrorsHaveErrno
<1>1. Calls => ErrorsHaveErrno
  BY DEF Calls
<1> QED
  BY <1>1, CallsHold, PTL
=============================================================================
