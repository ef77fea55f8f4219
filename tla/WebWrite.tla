------------------------------ MODULE WebWrite ------------------------------
(***************************************************************************)
(* One write call against the GenLayer contract as the web application     *)
(* sees it: the hook of lib/use-contract-write.ts.                         *)
(*                                                                         *)
(* The hook's state belongs to a button and the write to a click: a second *)
(* click writes over the state of the first.  What the chain does with a   *)
(* transaction that was sent is another matter: it may execute or refuse   *)
(* it, before or after the hook stopped waiting.                           *)
(***************************************************************************)
EXTENDS Integers, Sequences

CONSTANT Message    \* error messages that occur, each as the words looked for in it

TERMINAL_FAILURE_STATES ==
    {"REJECTED", "FAILED", "TIMEOUT", "WRONG_NETWORK", "INSUFFICIENT_FUNDS", "RPC_ERROR",
     "USER_REJECTED"}

BusyStates == {"WALLET_REQUEST", "AWAITING_SIGNATURE", "SUBMITTED", "PENDING"}

TxState == {"IDLE", "CONFIRMED"} \cup BusyStates \cup TERMINAL_FAILURE_STATES

isBusy(state) == state \in BusyStates

\* The first of these a message has decides.
Words == <<"user rejected", "insufficient", "wrong chain", "timeout", "network">>

StateOfWord ==
    <<"USER_REJECTED", "INSUFFICIENT_FUNDS", "WRONG_NETWORK", "TIMEOUT", "RPC_ERROR">>

ASSUME MessageAssumption == Message \subseteq SUBSET {Words[i] : i \in DOMAIN Words}

classifyError(message) ==
    LET found == {i \in DOMAIN Words : Words[i] \in message} IN
    IF found = {} THEN "FAILED" ELSE StateOfWord[CHOOSE i \in found : \A j \in found : i <= j]

Failures == {classifyError(message) : message \in Message}

\* Where a click's transaction is: with the wallet, on its way, or decided.
Call == {"unsent", "sent", "executed", "refused"}

\* writeContract: the wallet signs and sends, or the call throws.
StatesAfterSigning == {"PENDING"} \cup Failures

\* waitForTransactionReceipt.  A status that names an accepted or final transaction
\* counts as success, whatever the contract said to the call in it; any other, a
\* number included, counts as failure.
StatesAfterWaiting(call) ==
    IF call \in {"executed", "refused"} THEN {"CONFIRMED", "FAILED"} \cup Failures ELSE Failures

=============================================================================
