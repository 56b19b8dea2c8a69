-------------------------------- MODULE Site --------------------------------
(***************************************************************************)
(* The parts of the server, beside money and chat, whose requests cross:      *)
(* accounts, a domain's files, and mail.  They write no table in common, so   *)
(* that a behaviour is one of one of them.                                    *)
(***************************************************************************)
EXTENDS Accounts, DomainFiles, MailBox

VARIABLE part

siteVars == <<part, accountVars, fileVars, mailVars>>

SiteInit ==
    /\ part \in {"accounts", "files", "mail"}
    /\ AccountsInit /\ FilesInit /\ MailInit

PartNext ==
    \/ part = "accounts" /\ AccountsNext /\ UNCHANGED <<fileVars, mailVars>>
    \/ part = "files" /\ FilesNext /\ UNCHANGED <<accountVars, mailVars>>
    \/ part = "mail" /\ MailNext /\ UNCHANGED <<accountVars, fileVars>>

SiteNext == PartNext /\ UNCHANGED part

Spec == SiteInit /\ [][SiteNext]_siteVars
=============================================================================
