------------------------------ MODULE Indexer ------------------------------
(***************************************************************************)
(* The indexer, apps/api/src/services/indexer.ts: pollOnce copies what the *)
(* GenLayer contract's views return into cached rows and writes an event   *)
(* for each change of status it notices, and has the evidence archived.    *)
(*                                                                         *)
(* Every call of the contract or of the database is a step of its own; the *)
(* contract may change, and the poll fail, between any two.  A failure is  *)
(* an exception, an exhausted call budget or the end of the process: what  *)
(* the poll knew is gone, the rows stay.  One poll runs at a time, in one  *)
(* process, so nobody else writes the rows.                                *)
(*                                                                         *)
(* The contract is what Adjudication says of it: an attempt moves between  *)
(* live states in any way, a terminal one stays (Adjudication's            *)
(* DecisionsAreFinal), and a review of it stamps the fingerprint of the    *)
(* page it saw.  Left out: reputation rows and all fields but those named. *)
(* BountyId are the bounties one listing returns, which is the first 200.  *)
(***************************************************************************)
EXTENDS Integers, FiniteSets

CONSTANTS
    BountyId,       \* identifiers 0 .. n - 1
    AttemptIndex,   \* indices 0 .. n - 1 of a bounty's attempts
    Content,        \* pages at the attempts' URLs, each known by its fingerprint
    LiveStatus,     \* states an attempt may leave
    FinalStatus,    \* states it may not
    MaxAttempts,    \* bound: attempts of all bounties together
    MaxMoves        \* bound: how often attempts are moved on

NoHash == "no hash"

ASSUME IndexAssumption ==
    /\ IsFiniteSet(BountyId) /\ BountyId = 0 .. Cardinality(BountyId) - 1
    /\ IsFiniteSet(AttemptIndex) /\ AttemptIndex = 0 .. Cardinality(AttemptIndex) - 1
    /\ "ACCEPTED" \in LiveStatus /\ "NONE" \notin LiveStatus \cup FinalStatus
    /\ LiveStatus \cap FinalStatus = {} /\ NoHash \notin Content

VARIABLES
    bounties,       \* contract: status of each bounty, "NONE" before it is created
    attempts,       \* contract: status of each attempt, and its evidence_content_hash
    moves,          \* contract: how often an attempt was moved on
    bountyRows,     \* prisma.bounty: cached status
    attemptRows,    \* prisma.attempt: cached attempts
    poll,           \* where pollOnce is and what it has read
    unlogged,       \* history: rows whose status the poll changed, with no event yet
    unarchived      \* history: rows whose hash the poll changed, with no archiving yet

contract == <<bounties, attempts, moves>>
rows == <<bountyRows, attemptRows>>
history == <<unlogged, unarchived>>
vars == <<contract, rows, poll, history>>

LIVE_STATES == {"ACCEPTED", "SUBMITTED", "NEEDS_REVISION", "REJECTED_FINAL"}

None == [status |-> "NONE", hash |-> NoHash]
Idle == [pc |-> "idle"]

Count(as) == Cardinality({i \in AttemptIndex : as[i].status # "NONE"})

NoAttempts == [b \in BountyId |-> [i \in AttemptIndex |-> None]]

Init ==
    /\ bounties = [b \in BountyId |-> "NONE"]
    /\ attempts = NoAttempts
    /\ bountyRows = bounties
    /\ attemptRows = NoAttempts
    /\ moves = 0
    /\ poll = Idle
    /\ unlogged = {} /\ unarchived = {}

-----------------------------------------------------------------------------
(* The contract.                                                           *)

CreateBounty(b) ==
    /\ bounties[b] = "NONE"
    /\ \A c \in BountyId : c < b => bounties[c] # "NONE"
    /\ bounties' = [bounties EXCEPT ![b] = "OPEN"]
    /\ UNCHANGED <<attempts, moves>>

\* cancel_bounty and claim_creator_timeout
CloseBounty(b) ==
    /\ bounties[b] = "OPEN"
    /\ bounties' = [bounties EXCEPT ![b] = "EXPIRED_REFUNDED"]
    /\ UNCHANGED <<attempts, moves>>

Total == Cardinality({e \in BountyId \X AttemptIndex : attempts[e[1]][e[2]].status # "NONE"})

AcceptAttempt(b) ==
    /\ bounties[b] = "OPEN"
    /\ Count(attempts[b]) \in AttemptIndex
    /\ Total < MaxAttempts
    /\ attempts' = [attempts EXCEPT ![b][Count(attempts[b])].status = "ACCEPTED"]
    /\ UNCHANGED <<bounties, moves>>

\* _settle_reward_to_winner ends the race of the others.
Moved(b, i, status, hash) ==
    [j \in AttemptIndex |->
        IF j = i THEN [status |-> status, hash |-> hash]
        ELSE IF status = "WON" /\ attempts[b][j].status \in LIVE_STATES
             THEN [attempts[b][j] EXCEPT !.status = "LOST_RACE"]
             ELSE attempts[b][j]]

\* Every method that moves an attempt on.  A review stamps the page it saw.
MoveAttempt(b, i, status, hash) ==
    LET attempt == attempts[b][i] IN
    /\ attempt.status \in LiveStatus /\ status # attempt.status
    /\ status = "SUBMITTED" => attempt.status \in {"ACCEPTED", "NEEDS_REVISION"} /\ bounties[b] = "OPEN"
    /\ status = "WON" => bounties[b] = "OPEN"
    /\ status = "LOST_RACE" => bounties[b] = "SETTLED"
    /\ \/ hash = attempt.hash
       \/ hash \in Content /\ attempt.status \in {"SUBMITTED", "APPEALED"} /\ status # "LOST_RACE"
    /\ moves < MaxMoves /\ moves' = moves + 1
    /\ bounties' = [bounties EXCEPT ![b] = IF status = "WON" THEN "SETTLED" ELSE @]
    /\ attempts' = [attempts EXCEPT ![b] = Moved(b, i, status, hash)]

Contract ==
    /\ \E b \in BountyId :
         \/ CreateBounty(b)
         \/ CloseBounty(b)
         \/ AcceptAttempt(b)
         \/ \E i \in AttemptIndex, status \in LiveStatus \cup FinalStatus,
               hash \in Content \cup {NoHash} :
                 MoveAttempt(b, i, status, hash)
    /\ UNCHANGED <<rows, poll, history>>

-----------------------------------------------------------------------------
(* pollOnce.                                                               *)

\* list_bounties: the status and attempt_count of every bounty there is.
StartPoll ==
    /\ poll = Idle
    /\ poll' = [pc |-> "bounty", b |-> 0,
                listed |-> [b \in {c \in BountyId : bounties[c] # "NONE"} |->
                              [status |-> bounties[b], attempt_count |-> Count(attempts[b])]]]
    /\ UNCHANGED <<contract, rows, unlogged, unarchived>>

At(pc) == poll.pc = pc
Go(pc) == poll' = [poll EXCEPT !.pc = pc]

\* The rows that are done with are forgotten.
Rest(fetched, n) == [m \in {k \in DOMAIN fetched : k > n} |-> fetched[m]]

NextBounty == poll' = [pc |-> "bounty", b |-> poll.b + 1, listed |-> Rest(poll.listed, poll.b)]

ListedAny == poll.b \in DOMAIN poll.listed

UpsertBounty ==
    /\ At("bounty") /\ ListedAny
    /\ LET status == poll.listed[poll.b].status IN
         /\ bountyRows' = [bountyRows EXCEPT ![poll.b] = status]
         /\ IF bountyRows[poll.b] # status
            THEN Go("bountyEvent") /\ unlogged' = unlogged \cup {<<poll.b>>}
            ELSE Go("skip") /\ UNCHANGED unlogged
    /\ UNCHANGED <<contract, attemptRows, unarchived>>

\* logEvent, with the notification that goes with it.
LogBounty ==
    /\ At("bountyEvent")
    /\ unlogged' = unlogged \ {<<poll.b>>}
    /\ Go("skip")
    /\ UNCHANGED <<contract, rows, unarchived>>

SKIPPED_STATUS == {"WON", "LOST_RACE", "BOND_FORFEITED", "CANCELLED"}

\* Mutant: attempts the cache has not seen are not missed.
AllCachedTerminalAnyCount(cached, attempt_count) ==
    /\ Count(cached) > 0
    /\ \A i \in AttemptIndex : cached[i].status \in SKIPPED_STATUS \cup {"NONE"}

AllCachedTerminal(cached, attempt_count) ==
    /\ Count(cached) > 0
    /\ Count(cached) = attempt_count
    /\ \A i \in AttemptIndex : cached[i].status \in SKIPPED_STATUS \cup {"NONE"}

CheckSkip ==
    LET attempt_count == poll.listed[poll.b].attempt_count IN
    /\ At("skip")
    /\ IF attempt_count = 0 \/ AllCachedTerminal(attemptRows[poll.b], attempt_count)
       THEN NextBounty
       ELSE Go("read")
    /\ UNCHANGED <<contract, rows, history>>

\* get_bounty_attempts
ReadAttempts ==
    /\ At("read")
    /\ poll' = [pc |-> "attempt", b |-> poll.b, i |-> 0, listed |-> poll.listed,
                fetched |-> [i \in 0 .. Count(attempts[poll.b]) - 1 |-> attempts[poll.b][i]],
                archive |-> FALSE]
    /\ UNCHANGED <<contract, rows, history>>

NextAttempt ==
    IF poll.i + 1 \in DOMAIN poll.fetched
    THEN poll' = [poll EXCEPT !.pc = "attempt", !.i = @ + 1, !.fetched = Rest(@, poll.i),
                              !.archive = FALSE]
    ELSE NextBounty

\* Mutant: the row is not given the new status.
MapAttemptWithoutStatus(a, row) == [a EXCEPT !.status = IF row = None THEN @ ELSE row.status]

MapAttempt(a, row) == a

attemptStatusChangeKind(status) ==
    CASE status = "SUBMITTED" -> "EVIDENCE_SUBMITTED"
      [] status \in {"WON", "REJECTED_FINAL", "NEEDS_REVISION", "INSUFFICIENT_EVIDENCE_FINAL"} ->
           "VERDICT_RECEIVED"
      [] status = "LOST_RACE" -> "SETTLED"
      [] status = "BOND_FORFEITED" -> "DISPUTE_RESOLVED"
      [] status = "ARBITER_RESOLVED_PENDING_APPEAL" -> "ARBITER_RULED"
      [] status \in {"DISPUTED", "APPEALED"} -> status
      [] OTHER -> "ATTEMPT_STATUS_CHANGED"

StatusChanged(row, a) == row.status # a.status

\* The first archiving is for new evidence of an attempt that was cached before, ...
NewEvidence(row, a) ==
    /\ row # None /\ StatusChanged(row, a)
    /\ attemptStatusChangeKind(a.status) = "EVIDENCE_SUBMITTED"

\* Mutant: only an attempt whose status changed is looked at.
NewlyJudgedOnChange(row, a) == a.hash \notin {NoHash, row.hash} /\ StatusChanged(row, a)

\* ... the second for a hash the row did not have.
NewlyJudged(row, a) == a.hash \notin {NoHash, row.hash}

UpsertAttempt ==
    LET row == attemptRows[poll.b][poll.i]
        a == poll.fetched[poll.i]
        e == <<poll.b, poll.i>>
        mapped == MapAttempt(a, row)
    IN
    /\ At("attempt")
    /\ attemptRows' = [attemptRows EXCEPT ![poll.b][poll.i] = mapped]
    /\ unlogged' = IF StatusChanged(row, mapped) THEN unlogged \cup {e} ELSE unlogged
    /\ unarchived' = IF row.hash # mapped.hash THEN unarchived \cup {e} ELSE unarchived
    /\ poll' = [poll EXCEPT !.pc = IF StatusChanged(row, a) THEN "attemptEvent" ELSE "archive",
                            !.archive = NewEvidence(row, a) \/ NewlyJudged(row, a)]
    /\ UNCHANGED <<contract, bountyRows>>

\* logEvent, with the notifications of attemptRecipients.
LogAttempt ==
    /\ At("attemptEvent")
    /\ unlogged' = unlogged \ {<<poll.b, poll.i>>}
    /\ Go("archive")
    /\ UNCHANGED <<contract, rows, unarchived>>

\* archiveEvidence, once for each reason, which nobody waits for (EvidenceArchiver).
StartArchiving ==
    LET e == <<poll.b, poll.i>> IN
    /\ At("archive")
    /\ unarchived' = IF poll.archive THEN unarchived \ {e} ELSE unarchived
    /\ NextAttempt
    /\ UNCHANGED <<contract, rows, unlogged>>

FinishPoll ==
    /\ At("bounty") /\ ~ListedAny
    /\ poll' = Idle
    /\ UNCHANGED <<contract, rows, unlogged, unarchived>>

\* Mutant: the running flag stays set when a poll fails.
AfterFailureRunning == [pc |-> "failed"]

AfterFailure == Idle

\* What it had to log or to archive is forgotten with it.
PollFails ==
    /\ poll # Idle
    /\ poll' = AfterFailure
    /\ unlogged' = {} /\ unarchived' = {}
    /\ UNCHANGED <<contract, rows>>

PollStep ==
    \/ UpsertBounty \/ LogBounty \/ CheckSkip \/ ReadAttempts
    \/ UpsertAttempt \/ LogAttempt \/ StartArchiving \/ FinishPoll

Next == Contract \/ StartPoll \/ PollStep \/ PollFails

Spec == Init /\ [][Next]_vars

\* startIndexer polls on a timer for as long as the process lives.
FairSpec == Spec /\ WF_vars(StartPoll) /\ WF_vars(PollStep)

-----------------------------------------------------------------------------
\* Events are never repeated: one is written only for a change this poll made to a
\* row it has written none for, however many polls failed before.  (Some may be lost.)
EventsOncePerChange ==
    [][/\ LogBounty => <<poll.b>> \in unlogged
       /\ LogAttempt => <<poll.b, poll.i>> \in unlogged]_vars

\* (A failure in the last step of a poll is no different from its end.)
Quiet == <>[][~Contract /\ (PollFails => FinishPoll)]_vars

\* The cache converges: when the contract rests and calls stop failing, the status
\* of every row is the contract's in the end, whatever was lost before.
RowsConverge ==
    Quiet => <>[](/\ bountyRows = bounties
                  /\ \A b \in BountyId, i \in AttemptIndex :
                         attemptRows[b][i].status = attempts[b][i].status)

\* The evidence of every review the cache has learned of is archived again, even when
\* the attempt went on to a new review and back between two polls, unless the poll
\* that learned of it failed at that attempt.
JudgedEvidenceIsArchived ==
    unarchived \subseteq (IF At("attemptEvent") \/ At("archive") THEN {<<poll.b, poll.i>>} ELSE {})

=============================================================================
