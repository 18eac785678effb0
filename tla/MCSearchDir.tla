---------------------------- MODULE MCSearchDir ----------------------------
(***************************************************************************)
(* Trees: a file beside two folders, a file in the first and a link in the *)
(* second; or two files in one folder.                                     *)
(***************************************************************************)
EXTENDS SearchDir

MCKind == [x \in Nodes |-> CASE x \in {"top", "d1", "d2"} -> "dir"
                             [] x = "lnk" -> "other"
                             [] OTHER -> "reg"]
MCParent == [x \in Nodes \ {Root} |->
    CASE x \in {"f1", "f4", "d1", "d2"} -> "top"
      [] x = "f2" -> "d1"
      [] x = "lnk" -> "d2"]

AllAnswers == {-1, 0, 1, 2}
AllFlags == SUBSET {"A", "O", "N"}
=============================================================================
