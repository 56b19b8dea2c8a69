-------------------------------- MODULE FsRpc --------------------------------
(***************************************************************************)
(* What a blocking filesystem call promises a console (fsCall and fsRaw of  *)
(* worker.ts): it returns once, with the whole answer the filesystem gave to *)
(* that very call, or with the refusal of a filesystem that is not up.  How *)
(* it travels, in pieces through a shared buffer, is FsChannel.             *)
(***************************************************************************)
EXTENDS Naturals

CONSTANTS Consoles, Answers

VARIABLES
    phase,      \* "idle", "asked", "served", or "gone" once its terminal closed
    answer,     \* what the filesystem answered the call in progress
    value       \* what the last call returned

NoAnswer == [kind |-> "none", bytes |-> <<>>]
Refused == [kind |-> "closed", bytes |-> <<>>]
Answered(bytes) == [kind |-> "bytes", bytes |-> bytes]

Init ==
    /\ phase = [c \in Consoles |-> "idle"]
    /\ answer = [c \in Consoles |-> NoAnswer]
    /\ value = [c \in Consoles |-> NoAnswer]

Ask(c) ==
    /\ phase[c] = "idle"
    /\ phase' = [phase EXCEPT ![c] = "asked"]
    /\ answer' = [answer EXCEPT ![c] = NoAnswer]
    /\ UNCHANGED value

Serve(c) ==
    /\ phase[c] = "asked"
    /\ phase' = [phase EXCEPT ![c] = "served"]
    /\ \/ answer' = [answer EXCEPT ![c] = Refused]
       \/ \E bytes \in Answers : answer' = [answer EXCEPT ![c] = Answered(bytes)]
    /\ UNCHANGED value

Return(c) ==
    /\ phase[c] = "served"
    /\ phase' = [phase EXCEPT ![c] = "idle"]
    /\ value' = [value EXCEPT ![c] = answer[c]]
    /\ UNCHANGED answer

Close(c) ==
    /\ phase[c] # "gone"
    /\ phase' = [phase EXCEPT ![c] = "gone"]
    /\ answer' = [answer EXCEPT ![c] = NoAnswer]
    /\ UNCHANGED value

Next == \E c \in Consoles : Ask(c) \/ Serve(c) \/ Return(c) \/ Close(c)

Spec == Init /\ [][Next]_<<phase, answer, value>>
=============================================================================
