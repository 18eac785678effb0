---------------------------- MODULE MCPluginHost ----------------------------
(***************************************************************************)
(* The repository's two plugins, broken variants of a library, and a       *)
(* plugin whose option name contains the letter h.                         *)
(***************************************************************************)
EXTENDS PluginHost

Opt(n, a) == [name |-> n, has_arg |-> a]
BitSeq == [loads |-> TRUE, info |-> "ok", process |-> TRUE, opts |-> <<Opt("--bit-seq", TRUE)>>]
Txt == [loads |-> TRUE, info |-> "ok", process |-> TRUE, opts |-> <<Opt("--txt", FALSE)>>]
Sha == [loads |-> TRUE, info |-> "ok", process |-> TRUE,
        opts |-> <<Opt("--sha", TRUE), Opt("--txt", FALSE)>>]
NotAnElf == [Txt EXCEPT !.loads = FALSE]
NoInfo == [Txt EXCEPT !.info = "missing"]
InfoFails == [Txt EXCEPT !.info = "fails"]
NoOptions == [Txt EXCEPT !.opts = <<>>]
NoProcess == [Txt EXCEPT !.process = FALSE]

MCShorts == [w \in {"-A", "-N", "-v", "-P", "--bit-seq", "--txt", "--sha", "dir", "."} |->
    CASE w = "-A" -> {"A"} [] w = "-N" -> {"N"} [] w = "-v" -> {"v"}
      [] w = "--sha" -> {"h"} [] OTHER -> {}]

\* command lines of up to four words
Words == {"-A", "-P", "--bit-seq", "--txt", "dir"}
MCArgvs == UNION {[1..n -> Words] : n \in 0..4}
           \cup {<<"-v", ".">>, <<"-N", ".">>, <<"--sha", ".">>, <<"--txt", ".">>}

MCFolders == {<<>>} \cup {<<l>> : l \in {BitSeq, NotAnElf}}
    \cup {<<Txt, l>> : l \in {BitSeq, Sha, NotAnElf, NoInfo, InfoFails, NoOptions, NoProcess}}
    \cup {<<BitSeq, Txt, Sha>>, <<NotAnElf, Txt>>}

GoodFolders == {<<BitSeq>>, <<Txt, BitSeq>>}
=============================================================================
