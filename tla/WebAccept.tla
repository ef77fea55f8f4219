----------------------------- MODULE WebAccept ------------------------------
(***************************************************************************)
(* Accepting a bounty from its page: handleAccept, retryConfirmation and   *)
(* recoverFunding of app/bounty/[id]/page.tsx, with the calls of           *)
(* lib/base-escrow.ts and what their other ends do with them.              *)
(*                                                                         *)
(* One wallet, one bounty, one tab.  A handler is a flow that goes on      *)
(* between its awaits whatever the user does, even when the component is   *)
(* mounted anew (it then reaches the browser's storage but not the state   *)
(* on the screen); only leaving or reloading the page ends it.  Approving  *)
(* the token changes nothing anybody here reads and is part of the step    *)
(* that follows it.  Reservations of others, of other bounties included,   *)
(* share the contract's counter.                                           *)
(***************************************************************************)
EXTENDS WebWrite, FiniteSets

CONSTANTS
    Flow,               \* handlers at work at a time
    MaxReservations,    \* bound: reservations issued
    MaxDisturbances     \* bound: disturbances of what DepositsStayReachable assumes

ASSUME AcceptAssumption == MaxReservations \in Nat

VARIABLES
    reservations,   \* contract: the reservations in the order of their ids
    deposits,       \* escrow: of each reservation, and the flow that made it
    mempool,        \* funding transactions sent and not mined
    asked,          \* server: reservations it was asked to confirm
    flows,          \* where each handler is
    acceptTx,       \* state of the hook behind the button
    fundedRecovery, \* component state: the deposit that awaits its binding
    stored,         \* localStorage: the same, under recoveryKey
    disturbances    \* history: handlers that overlapped or were cut off at their deposit

acceptVars == <<reservations, deposits, mempool, asked, flows, acceptTx, fundedRecovery,
                stored, disturbances>>

ReservationIds == 0 .. MaxReservations - 1
Issued == 0 .. Len(reservations) - 1
Reserved(r) == reservations[r + 1]

None == [reservationId |-> -1]
Recovery(r, recovered) == [reservationId |-> r, recovered |-> recovered]

IdleFlow == [pc |-> "idle"]
NoDeposit == [status |-> "none"]

AcceptInit ==
    /\ reservations = <<>>
    /\ deposits = [r \in ReservationIds |-> NoDeposit]
    /\ mempool = {}
    /\ asked = {}
    /\ flows = [f \in Flow |-> IdleFlow]
    /\ acceptTx = "IDLE"
    /\ fundedRecovery = None
    /\ stored = None
    /\ disturbances = 0

-----------------------------------------------------------------------------
(* The contract, the escrow and the server.                                *)

Issue(mine) ==
    /\ Len(reservations) < MaxReservations
    /\ reservations' = Append(reservations, [mine |-> mine, status |-> "PENDING_FUNDING"])

\* Others', and this wallet's from a call the page had given up.
IssueElsewhere ==
    /\ \E mine \in BOOLEAN : Issue(mine)
    /\ UNCHANGED <<deposits, mempool, asked, flows, acceptTx, fundedRecovery, stored,
                   disturbances>>

ExpireReservation(r) ==
    /\ r \in Issued /\ Reserved(r).status = "PENDING_FUNDING"
    /\ reservations' = [reservations EXCEPT ![r + 1].status = "EXPIRED"]
    /\ UNCHANGED <<deposits, mempool, asked, flows, acceptTx, fundedRecovery, stored,
                   disturbances>>

\* fundAttempt: the first deposit for a reservation, any other is reverted.
MineFunding(f, r) ==
    /\ <<f, r>> \in mempool
    /\ mempool' = mempool \ {<<f, r>>}
    /\ \/ deposits[r] = NoDeposit /\ deposits' = [deposits EXCEPT ![r] = [status |-> "funded", by |-> f]]
       \/ UNCHANGED deposits
    /\ UNCHANGED <<reservations, asked, flows, acceptTx, fundedRecovery, stored,
                   disturbances>>

\* recoverPendingAttempt, from here or from any tool, when its delay is over.
RecoverPending(r) ==
    /\ deposits[r].status = "funded"
    /\ deposits' = [deposits EXCEPT ![r].status = "recovered"]
    /\ UNCHANGED <<reservations, mempool, asked, flows, acceptTx, fundedRecovery, stored,
                   disturbances>>

\* confirmAttemptFunding, as far as it comes each time it is asked: the attestation
\* activates a pending reservation whose deposit is there,
Activate(r) ==
    /\ r \in asked /\ Reserved(r).status = "PENDING_FUNDING"
    /\ deposits[r].status = "funded"
    /\ reservations' = [reservations EXCEPT ![r + 1].status = "ACTIVATED"]
    /\ UNCHANGED <<deposits, mempool, asked, flows, acceptTx, fundedRecovery, stored,
                   disturbances>>

\* and an activated one is bound to its attempt, with no bond if that was recovered.
Bind(r) ==
    /\ r \in asked /\ Reserved(r).status = "ACTIVATED"
    /\ deposits[r].status \in {"funded", "recovered"}
    /\ deposits' = [deposits EXCEPT ![r].status = IF @ = "funded" THEN "bound" ELSE "compensated"]
    /\ UNCHANGED <<reservations, mempool, asked, flows, acceptTx, fundedRecovery, stored,
                   disturbances>>

-----------------------------------------------------------------------------
(* The page.                                                               *)

At(f, pc) == flows[f].pc = pc
Go(f, pc) == flows' = [flows EXCEPT ![f].pc = pc]
Stop(f) == flows' = [flows EXCEPT ![f] = IdleFlow]

chainVars == <<reservations, deposits, mempool, asked>>
savedVars == <<fundedRecovery, stored>>

\* Mutant: the deposit is remembered on the screen only.
rememberRecoveryInMemory(f, value) ==
    /\ fundedRecovery' = IF flows[f].mounted THEN value ELSE fundedRecovery
    /\ UNCHANGED stored

\* A component that is gone cannot be given state, the browser's storage can.
rememberRecovery(f, value) ==
    /\ fundedRecovery' = IF flows[f].mounted THEN value ELSE fundedRecovery
    /\ stored' = value

Undisturbed(condition) ==
    /\ disturbances' = IF condition THEN disturbances ELSE disturbances + 1
    /\ disturbances' <= MaxDisturbances

Alone(f) == \A g \in Flow \ {f} : At(g, "idle")

\* The button waits for the write only, not for the rest of the handler.
ClickAccept(f) ==
    /\ At(f, "idle") /\ ~isBusy(acceptTx)
    /\ flows' = [flows EXCEPT ![f] = [pc |-> "countBefore", mounted |-> TRUE, call |-> "unsent"]]
    /\ Undisturbed(stored = None /\ Alone(f))
    /\ UNCHANGED <<chainVars, acceptTx, savedVars>>

ShowTx(f, state) == acceptTx' = IF flows[f].mounted THEN state ELSE acceptTx

\* get_reservation_counter, and the write that follows
ReadCounterBefore(f) ==
    /\ At(f, "countBefore")
    /\ flows' = [flows EXCEPT ![f] = [pc |-> "sign", mounted |-> @.mounted, call |-> "unsent",
                                      before |-> Len(reservations)]]
    /\ ShowTx(f, "AWAITING_SIGNATURE")
    /\ UNCHANGED <<chainVars, savedVars, disturbances>>

SignReservation(f) ==
    /\ At(f, "sign")
    /\ \E state \in StatesAfterSigning :
         /\ ShowTx(f, state)
         /\ IF state = "PENDING"
            THEN flows' = [flows EXCEPT ![f].pc = "wait", ![f].call = "sent"]
            ELSE Stop(f)
    /\ UNCHANGED <<chainVars, savedVars, disturbances>>

\* reserve_attempt, or its refusal
DecideReservation(f) ==
    /\ At(f, "wait") /\ flows[f].call = "sent"
    /\ \/ Issue(TRUE) /\ flows' = [flows EXCEPT ![f].call = "executed"]
       \/ flows' = [flows EXCEPT ![f].call = "refused"] /\ UNCHANGED reservations
    /\ UNCHANGED <<deposits, mempool, asked, acceptTx, savedVars, disturbances>>

AwaitReservation(f) ==
    /\ At(f, "wait")
    /\ \E state \in StatesAfterWaiting(flows[f].call) :
         /\ ShowTx(f, state)
         /\ IF state = "CONFIRMED" THEN Go(f, "countAfter") ELSE Stop(f)
    /\ UNCHANGED <<chainVars, savedVars, disturbances>>

\* The last reservation since the first reading that is this wallet's and pending.
Reconciled(before) ==
    {r \in Issued : r >= before /\ Reserved(r).mine /\ Reserved(r).status = "PENDING_FUNDING"}

Reconcile(f) ==
    LET candidates == Reconciled(flows[f].before) IN
    /\ At(f, "countAfter")
    /\ candidates # {}
    /\ \E r \in candidates :
         /\ \A s \in candidates : s <= r
         /\ flows' = [flows EXCEPT ![f] = [pc |-> "authorize", mounted |-> @.mounted, r |-> r]]
    /\ UNCHANGED <<chainVars, acceptTx, savedVars, disturbances>>

\* createAttemptFundingAuthorization, then approve
AuthorizeFunding(f) ==
    /\ At(f, "authorize")
    /\ Reserved(flows[f].r).status = "PENDING_FUNDING"
    /\ Go(f, "fund")
    /\ UNCHANGED <<chainVars, acceptTx, savedVars, disturbances>>

SubmitFunding(f) ==
    /\ At(f, "fund")
    /\ Go(f, "mining")
    /\ mempool' = mempool \cup {<<f, flows[f].r>>}
    /\ UNCHANGED <<reservations, deposits, asked, acceptTx, savedVars, disturbances>>

MadeDeposit(f, r) == deposits[r] # NoDeposit /\ deposits[r].by = f

AskToConfirm(f, r) ==
    /\ asked' = asked \cup {r}
    /\ flows' = [flows EXCEPT ![f] = [pc |-> "confirm", mounted |-> flows[f].mounted, r |-> r]]

RememberFunding(f) ==
    LET r == flows[f].r IN
    /\ At(f, "mining") /\ <<f, r>> \notin mempool
    /\ MadeDeposit(f, r)
    /\ rememberRecovery(f, Recovery(r, FALSE))
    /\ AskToConfirm(f, r)
    /\ UNCHANGED <<reservations, deposits, mempool, acceptTx, disturbances>>

\* The server answers that the attempt is bound.
Confirmed(f) ==
    /\ At(f, "confirm")
    /\ deposits[flows[f].r].status \in {"bound", "compensated"}
    /\ rememberRecovery(f, None)
    /\ Stop(f)
    /\ UNCHANGED <<chainVars, acceptTx, disturbances>>

\* retryConfirmation
ClickRetry(f) ==
    /\ At(f, "idle") /\ fundedRecovery # None
    /\ asked' = asked \cup {fundedRecovery.reservationId}
    /\ flows' = [flows EXCEPT ![f] = [pc |-> "confirm", mounted |-> TRUE,
                                      r |-> fundedRecovery.reservationId]]
    /\ Undisturbed(Alone(f))
    /\ UNCHANGED <<reservations, deposits, mempool, acceptTx, savedVars>>

\* recoverFunding
ClickRecover(f) ==
    /\ At(f, "idle") /\ fundedRecovery # None /\ ~fundedRecovery.recovered
    /\ flows' = [flows EXCEPT ![f] = [pc |-> "recover", mounted |-> TRUE,
                                      r |-> fundedRecovery.reservationId]]
    /\ Undisturbed(Alone(f))
    /\ UNCHANGED <<chainVars, acceptTx, savedVars>>

RememberRecovered(f) ==
    /\ At(f, "recover") /\ deposits[flows[f].r].status \in {"recovered", "compensated"}
    /\ rememberRecovery(f, Recovery(flows[f].r, TRUE))
    /\ Stop(f)
    /\ UNCHANGED <<chainVars, acceptTx, disturbances>>

\* Any await may throw: the handler ends there with an error on the screen.  One that
\* loses its funding transaction while it waits for it has lost its hash.
FlowFails(f) ==
    /\ flows[f].pc \in {"countBefore", "countAfter", "authorize", "fund", "mining", "confirm",
                        "recover"}
    /\ Undisturbed(At(f, "mining") =>
                      <<f, flows[f].r>> \notin mempool /\ ~MadeDeposit(f, flows[f].r))
    /\ Stop(f)
    /\ UNCHANGED <<chainVars, acceptTx, savedVars>>

\* The page is left or reloaded, and opened again.
ReloadPage ==
    /\ flows' = [f \in Flow |-> IdleFlow]
    /\ acceptTx' = "IDLE"
    /\ fundedRecovery' = stored
    /\ Undisturbed(\A f \in Flow : ~At(f, "mining"))
    /\ UNCHANGED <<chainVars, stored>>

\* refreshAll: the page shows that it is loading, and then a new panel.
RemountPanel ==
    /\ flows' = [f \in Flow |-> IF At(f, "idle") THEN IdleFlow
                                ELSE [flows[f] EXCEPT !.mounted = FALSE]]
    /\ acceptTx' = "IDLE"
    /\ fundedRecovery' = stored
    /\ UNCHANGED <<chainVars, stored, disturbances>>

-----------------------------------------------------------------------------
AcceptChain ==
    \/ IssueElsewhere
    \/ \E r \in ReservationIds :
         \/ ExpireReservation(r) \/ RecoverPending(r) \/ Activate(r) \/ Bind(r)
         \/ \E f \in Flow : MineFunding(f, r)

AcceptHandler(f) ==
    \/ ReadCounterBefore(f) \/ SignReservation(f) \/ DecideReservation(f) \/ AwaitReservation(f)
    \/ Reconcile(f) \/ AuthorizeFunding(f) \/ SubmitFunding(f) \/ RememberFunding(f)
    \/ Confirmed(f) \/ RememberRecovered(f) \/ FlowFails(f)

AcceptNext ==
    \/ AcceptChain
    \/ \E f \in Flow : AcceptHandler(f) \/ ClickAccept(f) \/ ClickRetry(f) \/ ClickRecover(f)
    \/ ReloadPage
    \/ RemountPanel

-----------------------------------------------------------------------------
\* What the browser keeps is true: it names a deposit of this wallet that was made,
\* and says of it that it was recovered only if it was.
RecoveryIsTrue ==
    stored # None =>
        /\ Reserved(stored.reservationId).mine
        /\ deposits[stored.reservationId] # NoDeposit
        /\ stored.recovered => deposits[stored.reservationId].status \in {"recovered", "compensated"}

\* A deposit that still has to be bound, or whose attempt is active and has to be
\* bound without it, is one the page can name after a reload, unless the handler that
\* made it is about to write it down.  Two things are excepted: a second handler
\* started while a first one runs, an accept also while a deposit is remembered, and
\* the end of the page or of the connection while the deposit is being mined.
AcceptDepositsReachable ==
    disturbances = 0 =>
        \A r \in Issued :
            \/ deposits[r].status = "funded"
            \/ deposits[r].status = "recovered" /\ Reserved(r).status = "ACTIVATED"
            => \/ stored.reservationId = r
               \/ \E f \in Flow : At(f, "mining") /\ flows[f].r = r

=============================================================================
