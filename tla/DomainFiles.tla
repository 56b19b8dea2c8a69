----------------------------- MODULE DomainFiles -----------------------------
(***************************************************************************)
(* The files a domain keeps (api/domain_filesystem.rs): its owner and the     *)
(* players its scripts run for read and change them side by side, each        *)
(* operation a SELECT and then one statement that writes the whole file.      *)
(*                                                                          *)
(* A text is a sequence of words and line ends, the way line_endings_to_dos   *)
(* leaves them.  Of the database (external) this takes that a statement is     *)
(* done at once and that a file name is there once (domain_filename).         *)
(***************************************************************************)
EXTENDS Integers, FiniteSets, Sequences

CONSTANTS
    Callers,            \* requests being served at once
    Owner, Guests,      \* players
    Changes,            \* the requests made: who, op, name, data, and whether the key is right
    MaxChanges,         \* bound: requests made
    MaxDropped          \* bound: requests given up part of the way

ASSUME DomainFilesAssumption ==
    /\ MaxChanges \in Nat /\ MaxDropped \in Nat /\ Owner \notin Guests
    /\ \A a \in Changes :
         /\ a.who \in Guests \cup {Owner} /\ a.data \in Seq(STRING)
         /\ a.op \in {"fileserver", "write", "append", "safeappend", "delete", "dir"}

VARIABLES
    files,              \* the domain's rows of domain_files
    nextFile,           \* AUTO_INCREMENT
    state, change, file,    \* per request: where it is, what was asked, the row as read
    changes, dropped

fileVars == <<files, nextFile, state, change, file, changes, dropped>>

Eol == "\r\n"
NoChange == [op |-> "none"]
NoFile == [id |-> 0, name |-> "none", text |-> <<>>]
Unwritten == 0 - 1

FilesInit ==
    /\ files = {} /\ nextFile = 1 /\ changes = 0 /\ dropped = 0
    /\ state = [c \in Callers |-> "idle"] /\ change = [c \in Callers |-> NoChange]
    /\ file = [c \in Callers |-> NoFile]

\* is_public_operation_allowed, of a file's first line.
Header(text) == IF text = <<>> \/ text[1] = Eol THEN "" ELSE text[1]
Allowed(header) ==
    CASE header = "public" -> {"fileserver", "write", "append", "safeappend"}
      [] header = "allowlist=append" -> {"append"}
      [] header = "allowlist=safeappend" -> {"safeappend"}
      [] OTHER -> {}

Leave(c) ==
    /\ state' = [state EXCEPT ![c] = "idle"]
    /\ change' = [change EXCEPT ![c] = NoChange] /\ file' = [file EXCEPT ![c] = NoFile]

Request(c) ==
    /\ state[c] = "idle" /\ changes < MaxChanges /\ changes' = changes + 1
    /\ \E asked \in Changes : change' = [change EXCEPT ![c] = asked]
    /\ state' = [state EXCEPT ![c] = "verify"]
    /\ UNCHANGED <<files, nextFile, file, dropped>>

Drop(c) ==
    /\ state[c] # "idle" /\ dropped < MaxDropped /\ dropped' = dropped + 1
    /\ Leave(c)
    /\ UNCHANGED <<files, nextFile, changes>>

\* verify_keycode: only the owner deletes and lists; only the owner's own
\* scripts go without the key; only the owner has a file that is not there, and
\* needs no permit.
Named(c) == {row \in files : row.name = change[c].name}
OwnersOnly == {"delete", "dir"}
Admits(c, row) ==
    LET a == change[c]
    IN  \/ a.who = Owner /\ (a.local \/ a.key)
        \/ /\ a.who # Owner /\ a.op \notin OwnersOnly /\ a.key
           /\ row # {} /\ \A r \in row : a.op \in Allowed(Header(r.text))

VerifyKeycode(c) ==
    /\ state[c] = "verify"
    /\ LET row == Named(c)
       IN  IF ~Admits(c, row) \/ change[c].op \in {"fileserver", "dir"} THEN Leave(c)
           ELSE /\ file' = [file EXCEPT ![c] =
                     IF row = {} THEN [id |-> Unwritten, name |-> change[c].name, text |-> <<>>]
                     ELSE CHOOSE r \in row : TRUE]
                /\ state' = [state EXCEPT ![c] = "write"] /\ UNCHANGED change
    /\ UNCHANGED <<files, nextFile, changes, dropped>>

\* What the file is to be.  A safeappend is one line, signed, on a line of its own.
WholeData(data) == data                                 \* mutant: every line of it
FirstLine(data) ==
    LET ends == {i \in DOMAIN data : data[i] = Eol}
    IN  IF ends = {} THEN data
        ELSE SubSeq(data, 1, (CHOOSE i \in ends : \A j \in ends : i <= j) - 1)
Ended(text) == text \in {<<>>, <<"0">>} \/ text[Len(text)] = Eol
Contents(c) ==
    LET a == change[c]
        text == file[c].text
    IN  CASE a.op = "write" -> a.data
          [] a.op = "append" -> text \o a.data
          [] a.op = "safeappend" -> (IF Ended(text) THEN text ELSE Append(text, Eol))
                                       \o <<a.who, ":">> \o FirstLine(a.data) \o <<Eol>>
          [] a.op = "delete" -> <<>>

\* INSERT INTO domain_files; a name that is there is an error.
InsertFile(c, text) ==
    /\ nextFile' = nextFile + 1
    /\ files' = IF Named(c) # {} THEN files
                ELSE files \cup {[id |-> nextFile, name |-> file[c].name, text |-> text]}

WriteByName(c) ==                                       \* mutant: by name, and back if it is gone
    /\ state[c] = "write"
    /\ files' = (files \ Named(c)) \cup
                {[id |-> nextFile, name |-> change[c].name, text |-> Contents(c)]}
    /\ nextFile' = nextFile + 1
    /\ Leave(c)
    /\ UNCHANGED <<changes, dropped>>

\* write_file: by id, so a row that is gone by now is left gone.
WriteFile(c) ==
    /\ state[c] = "write"
    /\ LET text == Contents(c)
           old == {row \in files : row.id = file[c].id}
       IN  \/ text = <<>> /\ files' = files \ old /\ UNCHANGED nextFile
           \/ text # <<>> /\ file[c].id = Unwritten /\ InsertFile(c, text)
           \/ /\ text # <<>> /\ file[c].id # Unwritten
              /\ files' = (files \ old) \cup {[row EXCEPT !.text = text] : row \in old}
              /\ UNCHANGED nextFile
    /\ Leave(c)
    /\ UNCHANGED <<changes, dropped>>

FilesNext == \E c \in Callers : Request(c) \/ Drop(c) \/ VerifyKeycode(c) \/ WriteFile(c)

FilesSpec == FilesInit /\ [][FilesNext]_fileVars

-----------------------------------------------------------------------------
(* Properties.                                                             *)

\* However late it comes, what a guest writes goes to the very file whose permit
\* was read: it brings back no file that its owner has deleted or made anew.
Ids(rows) == {<<row.id, row.name>> : row \in rows}
GuestWrites(c) == state[c] = "write" /\ state'[c] = "idle" /\ change[c].who \in Guests
LateWritesFindTheirFile ==
    [][\A c \in Callers : GuestWrites(c) =>
          /\ Ids(files') \subseteq Ids(files)
          /\ \A row \in files \ files' : row.id = file[c].id]_fileVars

\* Where the line starts that a word is in, and what a player says.
LineStart(text, i) ==
    LET ends == {j \in 1 .. i : text[j] = Eol} \cup {0}
    IN  1 + CHOOSE j \in ends : \A k \in ends : k <= j
Said(who) == UNION {{a.data[i] : i \in DOMAIN a.data} : a \in {b \in Changes : b.who = who}}

\* A word tells who says it; permits are the owner's to give, and names no line ends.
ASSUME WordsAssumption ==
    /\ \A who \in Guests : \A a \in Changes : a.who # who => Said(who) \cap Said(a.who) \subseteq {Eol}
    /\ \A who \in Guests :
          Said(who) \cap (Guests \cup {Owner, ":", "allowlist=safeappend"}) = {}
    /\ Guests \cup {Owner} \subseteq STRING \ {Eol, "allowlist=safeappend"}

\* Where guests may only safeappend, a guest's words stand on a line of their
\* own, behind the name of the guest who sent them, whoever else writes meanwhile.
\* (Of two at once, one's line may be lost: each writes the whole file.)
LinesAreSigned ==
    \A row \in files : Allowed(Header(row.text)) = {"safeappend"} =>
       \A i \in DOMAIN row.text, who \in Guests : row.text[i] \in Said(who) \ {Eol} =>
          row.text[LineStart(row.text, i)] = who
=============================================================================
