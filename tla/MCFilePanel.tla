------------------------------ MODULE MCFilePanel ------------------------------
(* Small instances of FilePanel: paths are sequences, which a .cfg cannot say. *)
EXTENDS FilePanel

F == <<"f">>
G == <<"d", "g">>
D == <<"d">>

NoPaths == {}
TwoFiles == {F, G}
OneFolder == {D}
TwoDrops == {F, <<"e", "h">>}
OneWay == {<<G, F>>}

WithMove == [opfs |-> TRUE, move |-> TRUE]
NoOpfs == [opfs |-> FALSE, move |-> FALSE]
TwoBrowsers == {WithMove, NoOpfs}

\* What the theorems ask of the names.
ASSUME NamesAndDropsAreApart == NamesApart /\ DropsApart /\ TouchedApart
=============================================================================
