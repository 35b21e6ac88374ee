----------------------------- MODULE MCHotContext -----------------------------
(***************************************************************************)
(* Three memories of one author for TLC.  In Times and Authorities the     *)
(* first is of a canonical source and the oldest, the second is the        *)
(* newest, the third lies between: by authority or by time each is current *)
(* over another.  In UnreadTimes the time of the second cannot be read.    *)
(***************************************************************************)
EXTENDS HotContext, TLC

CONSTANTS t1, t2

Ids == 1..3
TwoLayers == [m \in Ids |-> IF m = 1 THEN 1 ELSE 2]
OneAuthor == [m \in Ids |-> "connector"]
Authorities == [m \in Ids |-> CASE m = 1 -> 3 [] m = 2 -> 0 [] m = 3 -> 2]
Alike == [m \in Ids |-> 0]
Times == [m \in Ids |-> CASE m = 1 -> 1 [] m = 2 -> 3 [] m = 3 -> 2]
UnreadTimes == [m \in Ids |-> CASE m = 1 -> 3 [] m = 2 -> NoTime [] m = 3 -> 1]
Markers == [m \in Ids |-> m]
Second == {2}

Symmetry == Permutations(Values)
=============================================================================
