------------------------------ MODULE FilePanel ------------------------------
(***************************************************************************)
(* The page's picture of the player's filesystem (filetree.ts, FileModel):  *)
(* asked for once, then kept up from what the filesystem worker reports.    *)
(* Messages between the two threads arrive in order, a while later.         *)
(***************************************************************************)
EXTENDS GameFs

CONSTANT MaxLoads       \* bound: times the page asks for the tree

VARIABLES
    panel,      \* FileModel: files with their sizes, and directories
    pending,    \* whether the tree is asked for, and the changes kept meanwhile
    asks,       \* times the tree was asked for
    trees       \* observation: what the tree has been since loading

panelVars == <<panel, pending, asks, trees>>
fsVars == <<treeVars, diskVars, reads, drop, changes, reply, answers, done, browser, past>>

ASSUME FilePanelAssumption == MaxLoads \in Nat /\ PageOpen

NotLoading == [loading |-> FALSE, kept |-> <<>>]
Loading(kept) == [loading |-> TRUE, kept |-> kept]

EmptyPanel == [files |-> [p \in {} |-> 0], dirs |-> {<<>>}, loaded |-> FALSE]
TreeNow == [files |-> nodes, dirs |-> dirs]

PanelInit ==
    /\ Init
    /\ panel = EmptyPanel /\ pending = NotLoading /\ asks = 0
    /\ trees = {TreeNow}

-----------------------------------------------------------------------------
\* addParents stops at the first directory it knows.
Missing(known, p) ==
    {q \in Above(p) : \A r \in Above(p) : Len(r) >= Len(q) => r \notin known}

\* take: one change folded in.
Take(t, change) ==
    CASE change.op = "file" -> [t EXCEPT !.files = Put(@, change.path, change.size),
                                         !.dirs = @ \cup Missing(@, change.path)]
      [] change.op = "dir"  -> [t EXCEPT !.dirs = @ \cup {change.path}
                                                    \cup Missing(@, change.path)]
      [] change.op = "gone" -> [t EXCEPT !.files = Drop(@, change.path),
                                         !.dirs = @ \ {change.path}]

TakeAll(t, list) ==
    LET after[n \in 0..Len(list)] ==
          IF n = 0 THEN t ELSE Take(after[n - 1], list[n])
    IN  after[Len(list)]

Load ==
    /\ ~pending.loading /\ asks < MaxLoads
    /\ pending' = Loading(<<>>) /\ asks' = asks + 1 /\ loads' = loads + 1
    /\ UNCHANGED <<fsVars, mail, panel, trees>>

\* fsWorker.onmessage: changes are folded in, or kept until the tree is here.
Apply ==
    /\ mail # <<>> /\ Head(mail).type = "changed"
    /\ IF pending.loading
         THEN pending' = Loading(pending.kept \o Head(mail).changes) /\ UNCHANGED panel
         ELSE panel' = TakeAll(panel, Head(mail).changes) /\ UNCHANGED pending
    /\ mail' = Tail(mail)
    /\ UNCHANGED <<fsVars, loads, asks, trees>>

TakeTreeBackwards ==                                    \* mutant: newest first
    /\ mail # <<>> /\ Head(mail).type = "answer"
    /\ panel' = TakeAll([files |-> Head(mail).files, dirs |-> Head(mail).dirs \cup {<<>>},
                         loaded |-> TRUE], Reverse(pending.kept))
    /\ pending' = NotLoading
    /\ mail' = Tail(mail)
    /\ UNCHANGED <<fsVars, loads, asks, trees>>

\* The answer to load: the tree, and over it what was kept.
TakeTree ==
    /\ mail # <<>> /\ Head(mail).type = "answer"
    /\ panel' = TakeAll([files |-> Head(mail).files, dirs |-> Head(mail).dirs \cup {<<>>},
                         loaded |-> TRUE], pending.kept)
    /\ pending' = NotLoading
    /\ mail' = Tail(mail)
    /\ UNCHANGED <<fsVars, loads, asks, trees>>

\* The filesystem worker's steps: for the scripts, for a drop, for the panel.
Beneath == trees' = trees \cup {TreeNow'} /\ UNCHANGED <<panel, pending, asks>>
FsStep == Next /\ Beneath
DropStep == Dropping /\ Beneath
ListStep == ListTree /\ Beneath

Reload ==
    /\ Crash
    /\ panel' = EmptyPanel /\ pending' = NotLoading /\ trees' = {TreeNow'}
    /\ UNCHANGED asks

PanelNext == FsStep \/ DropStep \/ ListStep \/ Load \/ Apply \/ TakeTree \/ Reload

PanelSpec == PanelInit /\ [][PanelNext]_<<vars, panelVars>>

-----------------------------------------------------------------------------
(* Properties.                                                             *)

\* What the properties ask of the names besides: scripts make no directory where
\* one of the client's files is or a file is dropped, nor one above such a drop.
DropsApart == Folders \cap (Shipped \cup Drops \cup UNION {Above(p) : p \in Drops}) = {}
\* And, of a reload's finds, that they make none either where a copy or a move
\* carries what is dropped.
TouchedApart == Folders \cap Touched = {}

\* Type: what the page keeps.
PanelTypeOK ==
    /\ panel.loaded \in BOOLEAN /\ <<>> \in panel.dirs
    /\ \A p \in DOMAIN panel.files : panel.files[p] \in 0..(MaxChanges + 1)
    /\ asks \in 0..MaxLoads
    /\ loads + Cardinality({i \in DOMAIN mail : mail[i].type = "answer"})
         = IF pending.loading THEN 1 ELSE 0

\* Once everything reported has been taken up the panel shows the tree,
\* whatever was changed while the tree was being asked for (filetree.ts:
\* "replaying one the answer already has is harmless").
PanelIsTree ==
    panel.loaded /\ ~pending.loading /\ mail = <<>> /\ changes = <<>> =>
        panel.files = nodes /\ panel.dirs = dirs

\* And until then it shows the tree as it was at some moment: never a mix of
\* a newer answer and older reports.
PanelIsAPast ==
    panel.loaded /\ ~pending.loading =>
        [files |-> panel.files, dirs |-> panel.dirs] \in trees

\* The panel follows the tree, through every change it hears of twice, late or
\* while it was being told the whole.
PanelFollowsTree == PanelTypeOK /\ PanelIsTree /\ PanelIsAPast
=============================================================================
