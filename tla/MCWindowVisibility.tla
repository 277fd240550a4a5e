------------------------ MODULE MCWindowVisibility ------------------------
(* Instances of WindowVisibility for TLC: the settings they start from.     *)
EXTENDS WindowVisibility

Default == [keep |-> FALSE, sync |-> "continuous", mobile |-> FALSE, rebuilds |-> TRUE, activities |-> 2]
Kept == [Default EXCEPT !.keep = TRUE]
Phone == [Default EXCEPT !.keep = TRUE, !.mobile = TRUE]
Periodically == [Default EXCEPT !.keep = TRUE, !.sync = "periodic"]
KeptAlone == [Default EXCEPT !.keep = TRUE, !.rebuilds = FALSE, !.activities = 0]

Usual == {Default, Kept, Phone, Periodically, KeptAlone}
=============================================================================
