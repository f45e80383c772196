------------------------- MODULE MCRenamingHistory -------------------------
(* rename_markers is called with programs that have a history, or with     *)
(* some of the programs of MCMarkerRenaming, wherever they come from.      *)
EXTENDS RenamingHistory, MCMarkerRenaming

(* Of these programs nothing is known: they may have lost markers and been *)
(* put into any order.                                                     *)
GivenInit ==
    /\ Init
    /\ enabled = {}
    /\ vr_first = [n \in DOMAIN programs |-> 0]
    /\ removed = [n \in DOMAIN programs |-> 1]
    /\ reordered = DOMAIN programs

HistoryOrGivenSpec == (HistoryInit \/ GivenInit) /\ [][HistoryNext]_historyVars
=============================================================================
