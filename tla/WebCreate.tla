----------------------------- MODULE WebCreate ------------------------------
(***************************************************************************)
(* Creating a bounty: the form of app/create/page.tsx, its handleCreate,   *)
(* and what the contract, the escrow and the server do with its calls.     *)
(*                                                                         *)
(* The form is five steps, of which the first, the second and the fourth   *)
(* have something that must not be empty; the title stands for the claim,  *)
(* the reward for the stakes and the arbiter.  The handler signs what the  *)
(* form held at the click, finds the bounty again among those listed, by   *)
(* creator, title and reward, and funds it.  The button waits for the      *)
(* write only, so another handler may start beside the first.  The bounty  *)
(* counter, which must have been read, is not used.  Beside the form, the  *)
(* two calls the new bounty's page makes for the deposit.                  *)
(***************************************************************************)
EXTENDS WebWrite, FiniteSets

CONSTANTS
    Click,          \* handlers at work at a time
    Title,          \* titles typed
    Reward,         \* rewards typed
    MaxBounties,    \* bound: bounties created
    MaxListing      \* rows one list_bounties returns, the oldest first

NoTitle == ""

ASSUME CreateAssumption == NoTitle \notin Title /\ Reward \subseteq Nat \ {0} /\ MaxBounties \in Nat

VARIABLES
    step,           \* of the form; 6 is the success screen
    form,           \* [title, criteria, reward], NoTitle, FALSE and 0 when empty
    listed,         \* contract: bounties in the order of their ids
    rewardDeposit,  \* escrow: reward held for each, 0 for none
    creations,      \* where each handler is; when done, whether its deposit was returned
    createTx        \* state of the hook behind the button

createVars == <<step, form, listed, rewardDeposit, creations, createTx>>

BountyIds == 0 .. MaxBounties - 1
Listed(b) == listed[b + 1]
IsFree(b) == rewardDeposit[b] = 0
NotCreating == [pc |-> "idle"]
EmptyForm == [title |-> NoTitle, criteria |-> FALSE, reward |-> 0]

CreateInit ==
    /\ step = 1
    /\ form = EmptyForm
    /\ listed = <<>>
    /\ rewardDeposit = [b \in BountyIds |-> 0]
    /\ creations = [c \in Click |-> NotCreating]
    /\ createTx = "IDLE"

-----------------------------------------------------------------------------
(* The form.                                                               *)

canProceed(s) ==
    /\ s = 1 => form.title # NoTitle
    /\ s = 2 => form.criteria
    /\ s = 4 => form.reward > 0

formOnly == <<listed, rewardDeposit, creations, createTx>>

EditForm ==
    /\ \/ step = 1 /\ \E title \in Title \cup {NoTitle} : form' = [form EXCEPT !.title = title]
       \/ step = 2 /\ \E criteria \in BOOLEAN : form' = [form EXCEPT !.criteria = criteria]
       \/ step = 4 /\ \E reward \in Reward \cup {0} : form' = [form EXCEPT !.reward = reward]
    /\ UNCHANGED <<step, formOnly>>

NextStep == step < 5 /\ canProceed(step) /\ step' = step + 1 /\ UNCHANGED <<form, formOnly>>

\* Back, and the steps before the current one in the stepper.
EarlierStep ==
    /\ step < 6
    /\ \E s \in 1 .. step - 1 : step' = s
    /\ UNCHANGED <<form, formOnly>>

-----------------------------------------------------------------------------
(* handleCreate.                                                           *)

Creating(c, pc) == creations[c].pc = pc
GoOn(c, pc) == creations' = [creations EXCEPT ![c].pc = pc]
GiveUp(c) == creations' = [creations EXCEPT ![c] = NotCreating]

ClickCreate(c) ==
    /\ Creating(c, "idle") /\ step = 5 /\ ~isBusy(createTx)
    /\ creations' = [creations EXCEPT ![c] = [pc |-> "sign", signed |-> form, call |-> "unsent"]]
    /\ createTx' = "AWAITING_SIGNATURE"
    /\ UNCHANGED <<step, form, listed, rewardDeposit>>

SignCreation(c) ==
    /\ Creating(c, "sign")
    /\ createTx' \in StatesAfterSigning
    /\ IF createTx' = "PENDING"
       THEN creations' = [creations EXCEPT ![c].pc = "wait", ![c].call = "sent"]
       ELSE GiveUp(c)
    /\ UNCHANGED <<step, form, listed, rewardDeposit>>

Create(mine, title, reward) ==
    /\ Len(listed) < MaxBounties
    /\ listed' = Append(listed, [mine |-> mine, title |-> title, reward |-> reward])

\* create_bounty, or its refusal
DecideCreation(c) ==
    /\ Creating(c, "wait") /\ creations[c].call = "sent"
    /\ \/ /\ Create(TRUE, creations[c].signed.title, creations[c].signed.reward)
          /\ creations' = [creations EXCEPT ![c].call = "executed"]
       \/ creations' = [creations EXCEPT ![c].call = "refused"] /\ UNCHANGED listed
    /\ UNCHANGED <<step, form, rewardDeposit, createTx>>

\* By somebody else, with any terms.
CreateElsewhere ==
    /\ \E title \in Title, reward \in Reward : Create(FALSE, title, reward)
    /\ UNCHANGED <<step, form, rewardDeposit, creations, createTx>>

AwaitCreation(c) ==
    /\ Creating(c, "wait")
    /\ createTx' \in StatesAfterWaiting(creations[c].call)
    /\ IF createTx' = "CONFIRMED" THEN GoOn(c, "list") ELSE GiveUp(c)
    /\ UNCHANGED <<step, form, listed, rewardDeposit>>

\* Mutant: the reward is not compared.
IsCreatedByTitle(b, signed) == Listed(b).mine /\ Listed(b).title = signed.title

IsCreated(b, signed) ==
    Listed(b).mine /\ Listed(b).title = signed.title /\ Listed(b).reward = signed.reward

\* The newest of those listed.
ReconcileCreation(c) ==
    LET rows == {b \in BountyIds : b < Len(listed) /\ b < MaxListing}
        created == {b \in rows : IsCreated(b, creations[c].signed)}
    IN
    /\ Creating(c, "list")
    /\ \E b \in created :
         /\ \A d \in created : d <= b
         /\ creations' = [creations EXCEPT ![c] = [pc |-> "authorize", signed |-> @.signed, b |-> b]]
    /\ UNCHANGED <<step, form, listed, rewardDeposit, createTx>>

\* createBountyFundingAuthorization: for the creator, while the slot is empty.
AuthorizeReward(c) ==
    /\ Creating(c, "authorize")
    /\ Listed(creations[c].b).mine
    /\ IsFree(creations[c].b)
    /\ GoOn(c, "fund")
    /\ UNCHANGED <<step, form, listed, rewardDeposit, createTx>>

\* fundBounty, with the reward the server read from the contract; the escrow reverts
\* the second deposit of a slot, and then FailCreation follows.
FundReward(c) ==
    LET b == creations[c].b IN
    /\ Creating(c, "fund")
    /\ IsFree(b)
    /\ rewardDeposit' = [rewardDeposit EXCEPT ![b] = Listed(b).reward]
    /\ GoOn(c, "mined")
    /\ UNCHANGED <<step, form, listed, createTx>>

SucceedCreation(c) ==
    /\ Creating(c, "mined")
    /\ step' = 6
    /\ GoOn(c, "done")
    /\ UNCHANGED <<form, listed, rewardDeposit, createTx>>

\* Any await may throw; the error and a way to the bounty's page are shown.
FailCreation(c) ==
    /\ creations[c].pc \in {"list", "authorize", "fund", "mined"}
    /\ GiveUp(c)
    /\ UNCHANGED <<step, form, listed, rewardDeposit, createTx>>

\* On the bounty's own page: retryBountyFunding, with an authorization the server gives
\* while the slot is empty.
RetryBountyFunding ==
    /\ \E b \in BountyIds :
         /\ b < Len(listed) /\ Listed(b).mine
         /\ IsFree(b)
         /\ rewardDeposit' = [rewardDeposit EXCEPT ![b] = Listed(b).reward]
    /\ UNCHANGED <<step, form, listed, creations, createTx>>

\* There too, of a deposit the relay has not registered within a week, when nobody
\* waits for its mining any more.  The slot is free again, for every handler that holds
\* an authorization.
RecoverOrphanBounty ==
    /\ \E b \in BountyIds :
         /\ ~IsFree(b)
         /\ \A c \in Click : Creating(c, "mined") => creations[c].b # b
         /\ rewardDeposit' = [rewardDeposit EXCEPT ![b] = 0]
         /\ creations' = [c \in Click |->
              IF Creating(c, "done") /\ creations[c].b = b
              THEN [creations[c] EXCEPT !.pc = "returned"]
              ELSE creations[c]]
    /\ UNCHANGED <<step, form, listed, createTx>>

\* The page is left and opened again: nothing of it was kept.
ReloadForm ==
    /\ step' = 1
    /\ form' = EmptyForm
    /\ creations' = [c \in Click |-> NotCreating]
    /\ createTx' = "IDLE"
    /\ UNCHANGED <<listed, rewardDeposit>>

CreateHandler(c) ==
    \/ ClickCreate(c) \/ SignCreation(c) \/ DecideCreation(c) \/ AwaitCreation(c)
    \/ ReconcileCreation(c) \/ AuthorizeReward(c) \/ FundReward(c) \/ SucceedCreation(c)
    \/ FailCreation(c)

CreateNext ==
    \/ EditForm
    \/ NextStep
    \/ EarlierStep
    \/ CreateElsewhere
    \/ \E c \in Click : CreateHandler(c)
    \/ RetryBountyFunding
    \/ RecoverOrphanBounty
    \/ ReloadForm

-----------------------------------------------------------------------------
\* What is signed was filled in, however often the user went back and forth; and the
\* success screen tells the truth: a bounty of this creator, with the title and the
\* reward that were signed, holds that reward on Base until its creator recovers it,
\* although its id was guessed from a list others write to, a refused call counts as
\* a confirmed one and its page may fund the same slot meanwhile.
CreatedAsSigned ==
    /\ \A c \in Click : ~Creating(c, "idle") =>
         LET signed == creations[c].signed IN
         signed.title # NoTitle /\ signed.criteria /\ signed.reward > 0
    /\ step = 6 =>
         \E c \in Click :
            /\ Creating(c, "done") \/ Creating(c, "returned")
            /\ IsCreated(creations[c].b, creations[c].signed)
            /\ Creating(c, "done") => rewardDeposit[creations[c].b] = creations[c].signed.reward

=============================================================================
