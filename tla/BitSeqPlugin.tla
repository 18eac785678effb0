---------------------------- MODULE BitSeqPlugin ----------------------------
(***************************************************************************)
(* libnhhN3249.c, the plugin behind --bit-seq: plugin_process_file() and   *)
(* bit_seq_match(), called again and again by a host that passes the same  *)
(* option buffer every time.  The buffer is state: a decimal number in it  *)
(* is overwritten (twice) by sprintf while its size is computed.           *)
(*                                                                         *)
(* An option text is its prefix (base), its digits and whether something   *)
(* that is no digit follows (junk).  Negative decimal numbers are left     *)
(* out: sprintf("%llx") then writes past the end of the buffer.            *)
(***************************************************************************)
EXTENDS Integers, Sequences, FiniteSets

CONSTANTS
    Texts,      \* option arguments considered
    Files,      \* file contents considered, sequences of bytes
    LLBytes,    \* sizeof(long long)
    SizeMod,    \* size_t arithmetic is modulo SizeMod
    MaxCalls    \* bound on the number of calls

Byte == 0..255

ASSUME WidthAssumption ==
    /\ LLBytes \in Nat \ {0}
    /\ SizeMod \in Nat \ {0}
    /\ MaxCalls \in Nat
ASSUME FilesAssumption ==
    \A f \in Files : f \in Seq(Byte) /\ Len(f) < SizeMod
ASSUME TextsAssumption ==
    Texts \subseteq [base : {2, 10, 16}, digits : Seq(0..15), junk : BOOLEAN]

VARIABLES
    pc,
    given,      \* the option text the host was given
    text,       \* the option buffer now
    file,       \* content of the file being processed
    fds,        \* number of open descriptors
    maps,       \* number of mappings
    errno, saved_errno,
    pattern,    \* long long pattern
    pat_size,
    pos,        \* size_t pos of bit_seq_match
    ret,        \* what the last call returned, or is about to
    calls,      \* history: number of calls made
    leaks       \* history: returns that skipped close()

vars == <<pc, given, text, file, fds, maps, errno, saved_errno, pattern,
          pat_size, pos, ret, calls, leaks>>

LLONG_MAX == 256 ^ LLBytes \div 2 - 1
Ceil(n, d) == (n + d - 1) \div d

\* strtoll(): the number the digits denote, LLONG_MAX when it is too big
Strtoll(t) ==
    LET v[k \in 0..Len(t.digits)] ==
          IF k = 0 THEN 0
          ELSE LET next == v[k - 1] * t.base + t.digits[k]
               IN  IF next > LLONG_MAX THEN LLONG_MAX ELSE next
    IN  v[Len(t.digits)]

\* *endptr != '\0': trailing characters, or "0x" with no digit after it
Unparsed(t) == t.junk \/ (t.base = 16 /\ t.digits = <<>>)

\* strlen of sprintf("%llx") and of sprintf("%lld")
HexLen(v) == 1 + Cardinality({k \in 1..(2 * LLBytes) : v >= 16 ^ k})
DecLen(v) == 1 + Cardinality({k \in 1..(3 * LLBytes) : v >= 10 ^ k})

\* pat_size: whole bytes, from the digits typed or from the value
PatSize(t) ==
    CASE t.base = 16 -> Ceil(Len(t.digits), 2)
      [] t.base = 2  -> Ceil(Len(t.digits), 8)
      [] t.base = 10 -> Ceil(HexLen(Strtoll(t)), 2)

\* mutant: the hexadecimal form is left in the buffer
RewrittenHex(t) ==
    IF t.base # 10 THEN t
    ELSE LET v == Strtoll(t) n == HexLen(v)
             hex == [k \in 1..n |-> (v \div 16 ^ (n - k)) % 16]
         IN  [t EXCEPT !.digits = hex, !.junk = \E k \in 1..n : hex[k] > 9]

\* the option buffer after the call: sprintf(pat, "%lld", pattern)
Rewritten(t) ==
    IF t.base # 10 THEN t
    ELSE LET v == Strtoll(t) n == DecLen(v)
         IN  [t EXCEPT !.digits = [k \in 1..n |-> (v \div 10 ^ (n - k)) % 10]]

Init ==
    /\ pc = "idle"
    /\ given \in Texts
    /\ text = given
    /\ file = <<>>
    /\ fds = 0 /\ maps = 0
    /\ errno = "0" /\ saved_errno = "0"
    /\ pattern = 0 /\ pat_size = 0 /\ pos = 0
    /\ ret = 0
    /\ calls = 0 /\ leaks = 0

-----------------------------------------------------------------------------
(* plugin_process_file *)

\* int ret = -1; open() fails and sets errno
OpenFails ==
    /\ pc = "idle" /\ calls < MaxCalls
    /\ calls' = calls + 1
    /\ ret' = -1
    /\ errno' = "EACCES"
    /\ UNCHANGED <<pc, given, text, file, fds, maps, saved_errno, pattern,
                   pat_size, pos, leaks>>

Open(f) ==
    /\ pc = "idle" /\ calls < MaxCalls
    /\ calls' = calls + 1
    /\ ret' = -1
    /\ saved_errno' = "0"
    /\ file' = f
    /\ fds' = fds + 1
    /\ pc' = "stat"
    /\ UNCHANGED <<given, text, maps, errno, pattern, pat_size, pos, leaks>>

\* mutant: the reason of the failure is not saved
StatEmptySilent ==
    /\ pc = "stat"
    /\ file = <<>>
    /\ pc' = "end"
    /\ UNCHANGED <<given, text, file, fds, maps, errno, saved_errno, pattern,
                   pat_size, pos, ret, calls, leaks>>

\* st_size == 0 is an error, ERANGE
StatEmpty ==
    /\ pc = "stat"
    /\ file = <<>>
    /\ saved_errno' = "ERANGE"
    /\ pc' = "end"
    /\ UNCHANGED <<given, text, file, fds, maps, errno, pattern, pat_size, pos,
                   ret, calls, leaks>>

StatFails ==
    /\ pc = "stat"
    /\ saved_errno' = "EIO"
    /\ pc' = "end"
    /\ UNCHANGED <<given, text, file, fds, maps, errno, pattern, pat_size, pos,
                   ret, calls, leaks>>

\* the loop over in_opts, which holds the one option this plugin has
Parse ==
    /\ pc = "stat"
    /\ file # <<>>
    /\ ~Unparsed(text)
    /\ pattern' = Strtoll(text)
    /\ pat_size' = PatSize(text)
    /\ text' = Rewritten(text)
    /\ pc' = "map"
    /\ UNCHANGED <<given, file, fds, maps, errno, saved_errno, pos, ret, calls,
                   leaks>>

\* the number does not parse: return -1 past END, the descriptor stays open
ParseFails ==
    /\ pc = "stat"
    /\ file # <<>>
    /\ Unparsed(text)
    /\ pattern' = Strtoll(text)
    /\ errno' = "EINVAL"
    /\ leaks' = leaks + 1
    /\ pc' = "idle"
    /\ UNCHANGED <<given, text, file, fds, maps, saved_errno, pat_size, pos,
                   ret, calls>>

Mmap ==
    /\ pc = "map"
    /\ maps' = maps + 1
    /\ pos' = 0
    /\ pc' = "match"
    /\ UNCHANGED <<given, text, file, fds, errno, saved_errno, pattern,
                   pat_size, ret, calls, leaks>>

MmapFails ==
    /\ pc = "map"
    /\ saved_errno' = "ENOMEM"
    /\ pc' = "end"
    /\ UNCHANGED <<given, text, file, fds, maps, errno, pattern, pat_size, pos,
                   ret, calls, leaks>>

-----------------------------------------------------------------------------
(* bit_seq_match *)

\* the bytes of pattern in memory, least significant first
PatByte(k) == (pattern \div 256 ^ k) % 256

\* memcmp(&buffer[p], &pattern, n) == 0
Equal(p, n) == \A k \in 0..(n - 1) : file[p + k + 1] = PatByte(k)

\* what memcmp may answer: bytes past the end of pattern can be anything
MemcmpIsZero(p) ==
    IF pat_size <= LLBytes THEN {Equal(p, pat_size)}
    ELSE {FALSE} \cup {Equal(p, LLBytes)}

\* mutant: > instead of >=
RoomStrict == (Len(file) - pos) % SizeMod > pat_size

\* mutant: one byte too many
RoomOneMore == (Len(file) - pos + 1) % SizeMod >= pat_size

\* while (fSize - pos >= pSize), unsigned
Room == (Len(file) - pos) % SizeMod >= pat_size

\* mutant: a mismatch does not advance pos
MatchStuck ==
    /\ pc = "match"
    /\ Room
    /\ \E zero \in MemcmpIsZero(pos) :
         IF zero THEN ret' = 1 /\ pc' = "end" /\ UNCHANGED pos
                 ELSE UNCHANGED <<ret, pc, pos>>
    /\ UNCHANGED <<given, text, file, fds, maps, errno, saved_errno, pattern,
                   pat_size, calls, leaks>>

MatchStep ==
    /\ pc = "match"
    /\ Room
    /\ \E zero \in MemcmpIsZero(pos) :
         IF zero THEN ret' = 1 /\ pc' = "end" /\ UNCHANGED pos
                 ELSE pos' = pos + 1 /\ UNCHANGED <<ret, pc>>
    /\ UNCHANGED <<given, text, file, fds, maps, errno, saved_errno, pattern,
                   pat_size, calls, leaks>>

MatchEnd ==
    /\ pc = "match"
    /\ ~Room
    /\ ret' = 0
    /\ pc' = "end"
    /\ UNCHANGED <<given, text, file, fds, maps, errno, saved_errno, pattern,
                   pat_size, pos, calls, leaks>>

\* mutant: close() is forgotten
EndLeaky ==
    /\ pc = "end"
    /\ errno' = saved_errno
    /\ maps' = IF maps > 0 THEN maps - 1 ELSE maps
    /\ pc' = "idle"
    /\ UNCHANGED <<given, text, file, fds, saved_errno, pattern, pat_size, pos,
                   ret, calls, leaks>>

\* END: errno = saved_errno; close(); munmap() if there is a mapping
End ==
    /\ pc = "end"
    /\ errno' = saved_errno
    /\ fds' = fds - 1
    /\ maps' = IF maps > 0 THEN maps - 1 ELSE maps
    /\ pc' = "idle"
    /\ UNCHANGED <<given, text, file, saved_errno, pattern, pat_size, pos, ret,
                   calls, leaks>>

Next ==
    \/ OpenFails
    \/ \E f \in Files : Open(f)
    \/ StatEmpty \/ StatFails
    \/ Parse \/ ParseFails
    \/ Mmap \/ MmapFails
    \/ MatchStep \/ MatchEnd
    \/ End

Spec == Init /\ [][Next]_vars

\* the call runs in the host's only thread, which never stops in the plugin
FairSpec == Spec /\ WF_vars(Next)

-----------------------------------------------------------------------------
(***************************************************************************)
(* The comparison loop stays inside the mapping: pos never passes the end  *)
(* of the file, so fSize - pos does not wrap, and every memcmp reads       *)
(* pat_size bytes of the file.                                             *)
(***************************************************************************)
ReadsInBounds ==
    pc = "match" => /\ pos <= Len(file)
                    /\ Room => pos + pat_size <= Len(file)

(***************************************************************************)
(* bit_seq_match is exact: it returns 1 iff the first pat_size bytes of    *)
(* the number, least significant first, occur somewhere in the file.       *)
(***************************************************************************)
Occurs == \E p \in 0..(Len(file) - pat_size) : Equal(p, pat_size)

MatchExact ==
    (pc = "end" /\ ret >= 0 /\ pat_size <= LLBytes) => (ret = 1 <=> Occurs)

(***************************************************************************)
(* Every file is compared with the same bytes: rewriting the option buffer *)
(* for one file leaves the number and its size unchanged for the next.     *)
(***************************************************************************)
StableCriterion ==
    pc \in {"map", "match"} =>
        pattern = Strtoll(given) /\ pat_size = PatSize(given)

(***************************************************************************)
(* Descriptors and mappings are released by every call, except that a call *)
(* whose number does not parse keeps its descriptor; a number that parses  *)
(* at the first call parses at every call.                                 *)
(***************************************************************************)
ReleasedUnlessUnparsed ==
    /\ fds = leaks + (IF pc = "idle" THEN 0 ELSE 1)
    /\ pc = "idle" => maps = 0
    /\ ~Unparsed(given) => leaks = 0

(***************************************************************************)
(* plugin_api.h: a call that returns an error leaves errno set.            *)
(***************************************************************************)
ErrorsHaveErrno == (pc = "idle" /\ ret < 0) => errno # "0"

\* every call returns: the comparison loop ends
CallReturns == (pc # "idle") ~> (pc = "idle")

-----------------------------------------------------------------------------
(* What the documentation says and the code does not do. *)

\* the sequence of bits a hexadecimal or binary text spells
BitsOf(t) ==
    IF t.base = 2 THEN t.digits
    ELSE [k \in 1..(4 * Len(t.digits)) |->
            (t.digits[(k + 3) \div 4] \div 2 ^ (3 - ((k - 1) % 4))) % 2]

\* the bits of the file, the most significant bit of a byte first
FileBits == [k \in 1..(8 * Len(file)) |->
                (file[(k + 7) \div 8] \div 2 ^ (7 - ((k - 1) % 8))) % 2]

HasBits ==
    LET b == BitsOf(given)
    IN  \E p \in 0..(Len(FileBits) - Len(b)) :
          \A k \in 1..Len(b) : FileBits[p + k] = b[k]

(***************************************************************************)
(* README.txt:19-21: the plugin finds "files that contain the given        *)
(* sequence of bits" and "returns 0 if the file contains the given         *)
(* sequence of bits, and 1 otherwise"; here for texts of one to LLBytes    *)
(* bytes, hexadecimal or binary.                                           *)
(***************************************************************************)
ReadmeHolds ==
    (/\ pc = "end" /\ ret >= 0 /\ given.base # 10
     /\ pat_size \in 1..LLBytes) => (ret = 0 <=> HasBits)
=============================================================================
