------------------------------- MODULE Threads -------------------------------
(***************************************************************************)
(* What goes between a console's worker and the other threads: its calls to   *)
(* the filesystem worker, and the questions the page has for it.  A call      *)
(* begins and ends inside a run or a question, and no message is taken        *)
(* meanwhile, so that each is followed by itself.                             *)
(***************************************************************************)
EXTENDS FsChannel, AskQueue

VARIABLE traffic

vars == <<traffic, channelVars, queueVars>>

Init ==
    /\ traffic \in {"calls", "questions"}
    /\ ChannelInit /\ QueueInit

TrafficNext ==
    \/ traffic = "calls" /\ ChannelNext /\ UNCHANGED queueVars
    \/ traffic = "questions" /\ QueueNext /\ UNCHANGED channelVars

Next == TrafficNext /\ UNCHANGED traffic

FairSpec == Init /\ [][Next]_vars /\ ChannelFair /\ QueueFair

-----------------------------------------------------------------------------
\* Messages and answers are where they should be: types, what is left of a closed
\* console, every question in one place, and none in line beside a free console.
AllInPlace ==
    ChannelTypeOK /\ QueueTypeOK /\ EachInOnePlace /\ NoneWaitsBesideAFreeOne
=============================================================================
