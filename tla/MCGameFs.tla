------------------------------ MODULE MCGameFs ------------------------------
(* Small instances of GameFs: paths are sequences, which a .cfg cannot say. *)
EXTENDS GameFs

F == <<"f">>
G == <<"d", "g">>
D == <<"d">>

NoPaths == {}
TwoFiles == {F, G}
TwoFolders == {F, D}
OneFolder == {D}
OneShipped == {F}
BothWays == {<<F, G>>, <<G, F>>}
OneWay == {<<F, G>>}
OtherWay == {<<G, F>>}

WithMove == [opfs |-> TRUE, move |-> TRUE]
NoMove == [opfs |-> TRUE, move |-> FALSE]
NoOpfs == [opfs |-> FALSE, move |-> FALSE]
AnyBrowser == {WithMove, NoMove, NoOpfs}
OneBrowser == {NoMove}

\* What the theorems ask of the names (ShippedApart is what GameFsOntoShipped breaks).
ASSUME NamesAreApart == NamesApart
=============================================================================
