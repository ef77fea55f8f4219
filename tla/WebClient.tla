----------------------------- MODULE WebClient ------------------------------
(***************************************************************************)
(* The web application, one page of which is open in the tab: a bounty's   *)
(* page, an attempt's card, the form of a new bounty, the archives of an   *)
(* attempt's evidence, or what the wallet's user is shown of his own.      *)
(*                                                                         *)
(* The pages share no state, only the contract, the escrow and the server, *)
(* of which each module has the part its page sees; so a behaviour is that *)
(* of one page.                                                            *)
(***************************************************************************)
EXTENDS WebAccept, WebAppeal, WebCreate, WebReads, EvidenceArchiver

VARIABLE page

vars == <<page, acceptVars, appealVars, createVars, readsVars, archiverVars>>

Init ==
    /\ page \in {"bounty", "card", "create", "evidence", "activity"}
    /\ AcceptInit
    /\ AppealInit
    /\ CreateInit
    /\ ReadsInit
    /\ ArchiverInit

AcceptPage ==
    /\ page = "bounty" /\ AcceptNext
    /\ UNCHANGED <<page, appealVars, createVars, readsVars, archiverVars>>

AppealCard ==
    /\ page = "card" /\ AppealNext
    /\ UNCHANGED <<page, acceptVars, createVars, readsVars, archiverVars>>

CreatePage ==
    /\ page = "create" /\ CreateNext
    /\ UNCHANGED <<page, acceptVars, appealVars, readsVars, archiverVars>>

ActivityPage ==
    /\ page = "activity" /\ ReadsNext
    /\ UNCHANGED <<page, acceptVars, appealVars, createVars, archiverVars>>

EvidenceCard ==
    /\ page = "evidence" /\ ArchiverNext
    /\ UNCHANGED <<page, acceptVars, appealVars, createVars, readsVars>>

Next == AcceptPage \/ AppealCard \/ CreatePage \/ ActivityPage \/ EvidenceCard

Spec == Init /\ [][Next]_vars

FairSpec == Spec /\ (page = "activity" => ReadsFairness)

\* No deposit the user made is lost sight of, and nothing false is remembered of one:
\* not over reloads, failures and retries of the handlers of the two pages that take
\* deposits.
DepositsStayReachable ==
    /\ RecoveryIsTrue
    /\ AcceptDepositsReachable
    /\ AppealDepositReachable

=============================================================================
