----------------------------- MODULE WebAppeal ------------------------------
(***************************************************************************)
(* Appealing a ruling from the card of an attempt that has a bond:         *)
(* handleAppeal, fundAppealOnBase, handleExpireAppealFunding and           *)
(* handleRecoverUnactivatedAppeal of components/bounty/AttemptCard.tsx,    *)
(* with lib/base-escrow.ts and the other ends of its calls.                *)
(*                                                                         *)
(* One wallet, which is the appellant; an appeal whose funding lapsed may  *)
(* be filed again while the window of the ruling is open.  A funding       *)
(* transaction is known by its hash, a number.  Another button's handler   *)
(* does not start while one is at work on this card.                       *)
(***************************************************************************)
EXTENDS WebWrite, FiniteSets

CONSTANTS
    MaxAppeals,     \* bound: appeals filed
    MaxHashes,      \* bound: funding transactions sent
    MaxCutOffs      \* bound: handlers cut off while their deposit was mined

ASSUME AppealAssumption == MaxHashes \in Nat

VARIABLES
    appeal,             \* contract: [status, hash], hash 0 before one is attested
    filed,              \* contract: appeals filed so far
    activated,          \* history: hashes of the deposits of appeals that were activated
    appealDeposit,      \* escrow: [status, hash] of the attempt's appeal bond
    appealMempool,      \* hashes of funding transactions sent and not mined
    sent,               \* hashes used so far
    appealAsked,        \* server: hashes it was asked to confirm
    appealFlow,         \* where the handler is
    storedHash,         \* localStorage, under appealFundingStorageKey: a hash, or 0
    appealFundedOnBase, \* component state
    cutOffs             \* history

appealVars == <<appeal, filed, activated, appealDeposit, appealMempool, sent, appealAsked,
                appealFlow, storedHash, appealFundedOnBase, cutOffs>>

Resting == [pc |-> "idle", hash |-> 0]

AppealInit ==
    /\ appeal = [status |-> "WINDOW", hash |-> 0]
    /\ filed = 0
    /\ activated = {}
    /\ appealDeposit = [status |-> "none", hash |-> 0]
    /\ appealMempool = {}
    /\ sent = 0
    /\ appealAsked = {}
    /\ appealFlow = Resting
    /\ storedHash = 0
    /\ appealFundedOnBase = FALSE
    /\ cutOffs = 0

-----------------------------------------------------------------------------
(* The contract, the escrow and the server.                                *)

cardVars == <<appealFlow, storedHash, appealFundedOnBase, cutOffs>>

\* expire_appeal_funding, by anybody; finalizing the ruling ends the window.
LapseAppeal ==
    /\ appeal.status \in {"APPEAL_PENDING_FUNDING", "APPEAL_FUNDED_PENDING_BINDING"}
    /\ appeal' = [appeal EXCEPT !.status = "WINDOW"]
    /\ UNCHANGED <<filed, activated, appealDeposit, appealMempool, sent, appealAsked, cardVars>>

\* fundAppeal, while the attempt has no deposit; another is reverted.
MineAppealFunding(h) ==
    /\ h \in appealMempool
    /\ appealMempool' = appealMempool \ {h}
    /\ \/ /\ appealDeposit.status \in {"none", "recovered"}
          /\ appealDeposit' = [status |-> "funded", hash |-> h]
       \/ UNCHANGED appealDeposit
    /\ UNCHANGED <<appeal, filed, activated, sent, appealAsked, cardVars>>

\* confirmAppealFunding, as far as it comes each time it is asked: any successful
\* deposit of the appellant is attested while one is awaited, and the deposit that is
\* there is bound if it is the one that was attested.
AttestAppeal(h) ==
    /\ h \in appealAsked /\ appeal.status = "APPEAL_PENDING_FUNDING"
    /\ appeal' = [status |-> "APPEAL_FUNDED_PENDING_BINDING", hash |-> h]
    /\ UNCHANGED <<filed, activated, appealDeposit, appealMempool, sent, appealAsked, cardVars>>

BindAppeal(h) ==
    /\ h \in appealAsked
    /\ appeal = [status |-> "APPEAL_FUNDED_PENDING_BINDING", hash |-> h]
    /\ appealDeposit.status = "funded"
    /\ appealDeposit' = [appealDeposit EXCEPT !.status = "bound"]
    /\ UNCHANGED <<appeal, filed, activated, appealMempool, sent, appealAsked, cardVars>>

ActivateAppeal(h) ==
    /\ h \in appealAsked
    /\ appeal = [status |-> "APPEAL_FUNDED_PENDING_BINDING", hash |-> h]
    /\ appealDeposit.status = "bound"
    /\ appeal' = [appeal EXCEPT !.status = "APPEALED"]
    /\ activated' = activated \cup {appealDeposit.hash}
    /\ UNCHANGED <<filed, appealDeposit, appealMempool, sent, appealAsked, cardVars>>

-----------------------------------------------------------------------------
(* The card.                                                               *)

AtAppeal(pc) == appealFlow.pc = pc
GoAppeal(pc) == appealFlow' = [appealFlow EXCEPT !.pc = pc]

remoteVars == <<appeal, filed, activated, appealDeposit, appealMempool, sent, appealAsked>>

\* handleAppeal: the write, and what the contract does with it.
ClickAppeal ==
    /\ AtAppeal("idle") /\ appeal.status = "WINDOW"
    /\ GoAppeal("file")
    /\ UNCHANGED <<remoteVars, storedHash, appealFundedOnBase, cutOffs>>

\* The write, up to its receipt; its error is shown and the handler ends.
FileAppeal ==
    /\ AtAppeal("file")
    /\ \E call \in Call, state \in TxState :
         /\ state \in StatesAfterWaiting(call)
         /\ IF call = "executed"
            THEN /\ appeal.status = "WINDOW" /\ filed < MaxAppeals
                 /\ appeal' = [appeal EXCEPT !.status = "APPEAL_PENDING_FUNDING"]
                 /\ filed' = filed + 1
            ELSE UNCHANGED <<appeal, filed>>
         /\ appealFlow' = IF state = "CONFIRMED" THEN [pc |-> "lookup", hash |-> 0] ELSE Resting
    /\ UNCHANGED <<activated, appealDeposit, appealMempool, sent, appealAsked, storedHash,
                   appealFundedOnBase, cutOffs>>

\* The button of canRetryAppealFunding.
ClickFundAppeal ==
    /\ AtAppeal("idle") /\ ~appealFundedOnBase
    /\ appeal.status \in {"APPEAL_PENDING_FUNDING", "APPEAL_FUNDED_PENDING_BINDING"}
    /\ GoAppeal("lookup")
    /\ UNCHANGED <<remoteVars, storedHash, appealFundedOnBase, cutOffs>>

AskToConfirmAppeal(h) ==
    /\ appealAsked' = appealAsked \cup {h}
    /\ appealFlow' = [pc |-> "confirm", hash |-> h]

\* fundAppealOnBase: a deposit that is remembered is not made again.
LookUpHash ==
    /\ AtAppeal("lookup")
    /\ IF storedHash = 0
       THEN GoAppeal("authorize") /\ UNCHANGED appealAsked
       ELSE AskToConfirmAppeal(storedHash)
    /\ UNCHANGED <<appeal, filed, activated, appealDeposit, appealMempool, sent, storedHash,
                   appealFundedOnBase, cutOffs>>

\* createAppealFundingAuthorization, and the deposit once it is approved.
AuthorizeAppeal ==
    /\ AtAppeal("authorize")
    /\ appeal.status = "APPEAL_PENDING_FUNDING"
    /\ appealDeposit.status \in {"none", "recovered"}
    /\ GoAppeal("fund")
    /\ UNCHANGED <<remoteVars, storedHash, appealFundedOnBase, cutOffs>>

SubmitAppealFunding ==
    /\ AtAppeal("fund") /\ sent < MaxHashes
    /\ sent' = sent + 1
    /\ appealMempool' = appealMempool \cup {sent'}
    /\ appealFlow' = [pc |-> "mining", hash |-> sent']
    /\ UNCHANGED <<appeal, filed, activated, appealDeposit, appealAsked, storedHash,
                   appealFundedOnBase, cutOffs>>

Deposited(h) == appealDeposit.hash = h /\ appealDeposit.status # "none"

RememberHash ==
    /\ AtAppeal("mining") /\ appealFlow.hash \notin appealMempool
    /\ Deposited(appealFlow.hash)
    /\ storedHash' = appealFlow.hash
    /\ AskToConfirmAppeal(appealFlow.hash)
    /\ UNCHANGED <<appeal, filed, activated, appealDeposit, appealMempool, sent,
                   appealFundedOnBase, cutOffs>>

AppealConfirmed ==
    /\ AtAppeal("confirm")
    /\ appeal = [status |-> "APPEALED", hash |-> appealFlow.hash]
    /\ storedHash' = 0
    /\ appealFundedOnBase' = TRUE
    /\ appealFlow' = Resting
    /\ UNCHANGED <<remoteVars, cutOffs>>

\* handleRecoverUnactivatedAppeal, in either mode, when its delay is over.
RecoverAppeal ==
    /\ AtAppeal("idle") /\ appeal.status = "WINDOW"
    /\ appealDeposit.status \in {"funded", "bound"}
    /\ appealDeposit' = [appealDeposit EXCEPT !.status = "recovered"]
    /\ UNCHANGED <<appeal, filed, activated, appealMempool, sent, appealAsked, cardVars>>

\* Cut off: the deposit was on its way, and its hash is written down nowhere.
CutOff ==
    /\ AtAppeal("mining")
    /\ appealFlow.hash \in appealMempool \/ Deposited(appealFlow.hash)

CountCutOff ==
    /\ cutOffs' = IF CutOff THEN cutOffs + 1 ELSE cutOffs
    /\ cutOffs' <= MaxCutOffs

AppealFails ==
    /\ appealFlow.pc \in {"authorize", "fund", "mining", "confirm"}
    /\ CountCutOff
    /\ appealFlow' = Resting
    /\ UNCHANGED <<remoteVars, storedHash, appealFundedOnBase>>

ReloadCard ==
    /\ CountCutOff
    /\ appealFlow' = Resting
    /\ appealFundedOnBase' = FALSE
    /\ UNCHANGED <<remoteVars, storedHash>>

-----------------------------------------------------------------------------
AppealNext ==
    \/ LapseAppeal
    \/ \E h \in 1 .. MaxHashes : MineAppealFunding(h) \/ AttestAppeal(h) \/ BindAppeal(h)
                              \/ ActivateAppeal(h)
    \/ ClickAppeal \/ FileAppeal \/ ClickFundAppeal
    \/ LookUpHash \/ AuthorizeAppeal \/ SubmitAppealFunding \/ RememberHash
    \/ AppealConfirmed \/ RecoverAppeal \/ AppealFails \/ ReloadCard

-----------------------------------------------------------------------------
\* A deposit for an appeal that has not been activated is one the card confirms when
\* it is asked to again, in this visit or a later one, unless it was cut off.
AppealDepositReachable ==
    /\ cutOffs = 0
    /\ appealDeposit.status \in {"funded", "bound"} /\ appealDeposit.hash \notin activated
    =>
        \/ storedHash = appealDeposit.hash
        \/ AtAppeal("mining") /\ appealFlow.hash = appealDeposit.hash

=============================================================================
