--------------------------- MODULE IndexerProofs ---------------------------
(***************************************************************************)
(* What the indexer logs and has archived follows what it writes.          *)
(*                                                                         *)
(* The poll works on copies that were true when they were read.  Of those  *)
(* copies only what the contract never takes back is used: an attempt that *)
(* exists goes on to exist, and one that was reviewed keeps a hash.        *)
(***************************************************************************)
EXTENDS Indexer, FiniteSetTheorems, TLAPS

-----------------------------------------------------------------------------
(* What the contract, the rows and the poll may hold.                      *)

BountyStatus == {"NONE", "OPEN", "SETTLED", "EXPIRED_REFUNDED"}

AttemptRecord ==
    [status : LiveStatus \cup FinalStatus \cup {"NONE", "LOST_RACE"},
     hash : Content \cup {NoHash}]

AttemptTable == [BountyId -> [AttemptIndex -> AttemptRecord]]

ListedRow == [status : BountyStatus, attempt_count : Nat]

Listing == UNION {[D -> ListedRow] : D \in SUBSET BountyId}

Fetched == UNION {[D -> AttemptRecord] : D \in SUBSET AttemptIndex}

BountyPcs == {"bounty", "bountyEvent", "skip", "read"}
AttemptPcs == {"attempt", "attemptEvent", "archive"}

BountyPoll == [pc : BountyPcs, b : Nat, listed : Listing]

AttemptPoll ==
    [pc : AttemptPcs, b : BountyId, i : AttemptIndex, listed : Listing, fetched : Fetched,
     archive : BOOLEAN]

Poll == {Idle} \cup BountyPoll \cup AttemptPoll

TypeOK ==
    /\ bounties \in [BountyId -> BountyStatus]
    /\ attempts \in AttemptTable /\ attemptRows \in AttemptTable
    /\ poll \in Poll

-----------------------------------------------------------------------------
(* The invariant.                                                          *)

\* An attempt as it was, and as it is now or was read later.
Later(old, new) ==
    /\ old.status # "NONE" => new.status # "NONE"
    /\ old.hash # NoHash => new.hash # NoHash

LaterTable(old, new) == \A b \in BountyId, i \in AttemptIndex : Later(old[b][i], new[b][i])

HasAttempts(as) == \E i \in AttemptIndex : as[i].status # "NONE"

\* Of what was listed: a bounty that had attempts has some.
ListedIsTrue(p, table) ==
    p.pc \in BountyPcs \cup AttemptPcs =>
        \A c \in DOMAIN p.listed : p.listed[c].attempt_count # 0 => HasAttempts(table[c])

\* A bounty that is worked on was listed, and if it is read it has attempts.
BountyIsListed(p, table) ==
    /\ p.pc \in {"bountyEvent", "skip", "read"} => p.b \in DOMAIN p.listed
    /\ p.pc = "read" => HasAttempts(table[p.b])

\* What was fetched is between the row, until it is written, and the contract.
FetchedIsBetween(p, cached, table) ==
    p.pc \in AttemptPcs =>
        /\ p.i \in DOMAIN p.fetched
        /\ \A j \in DOMAIN p.fetched :
              Later(cached[p.b][j], p.fetched[j]) /\ Later(p.fetched[j], table[p.b][j])

\* A change that was written is logged next, ...
ChangeIsDue(p, changes) ==
    /\ p.pc = "bountyEvent" => <<p.b>> \in changes
    /\ p.pc = "attemptEvent" => <<p.b, p.i>> \in changes

\* ... and a new hash is archived then.
ArchivingIsDue(p, hashes) ==
    \A e \in hashes :
        /\ p.pc \in {"attemptEvent", "archive"}
        /\ e = <<p.b, p.i>> /\ p.archive

IndexInv ==
    /\ TypeOK
    /\ LaterTable(attemptRows, attempts)
    /\ ListedIsTrue(poll, attempts)
    /\ BountyIsListed(poll, attempts)
    /\ FetchedIsBetween(poll, attemptRows, attempts)
    /\ ChangeIsDue(poll, unlogged)
    /\ ArchivingIsDue(poll, unarchived)

-----------------------------------------------------------------------------
(* Counting, and functions on a part of a set.                             *)

LEMMA Counting ==
    ASSUME NEW as \in [AttemptIndex -> AttemptRecord]
    PROVE  /\ Count(as) \in Nat
           /\ Count(as) <= Cardinality(AttemptIndex)
           /\ Count(as) # 0 <=> HasAttempts(as)
<1> DEFINE present == {i \in AttemptIndex : as[i].status # "NONE"}
<1>1. IsFiniteSet(AttemptIndex)
  BY IndexAssumption
<1>2. present \subseteq AttemptIndex
  OBVIOUS
<1>3. IsFiniteSet(present) /\ Cardinality(present) <= Cardinality(AttemptIndex)
  BY <1>1, <1>2, FS_Subset
<1>4. Cardinality(present) \in Nat
  BY <1>3, FS_CardinalityType
<1>5. Cardinality(present) = 0 <=> present = {}
  BY <1>3, FS_EmptySet
<1>6. present = {} <=> ~HasAttempts(as)
  BY DEF HasAttempts
<1>7. Count(as) = Cardinality(present)
  BY DEF Count
<1> HIDE DEF present
<1>. QED
  BY <1>3, <1>4, <1>5, <1>6, <1>7

LEMMA Indices == AttemptIndex \subseteq Nat /\ AttemptIndex = 0 .. Cardinality(AttemptIndex) - 1
                 /\ Cardinality(AttemptIndex) \in Nat /\ BountyId \subseteq Nat
<1>1. Cardinality(AttemptIndex) \in Nat /\ Cardinality(BountyId) \in Nat
  BY IndexAssumption, FS_CardinalityType
<1>. QED
  BY <1>1, IndexAssumption

LEMMA ListingIs ==
    \A f : f \in Listing <=> DOMAIN f \subseteq BountyId /\ f \in [DOMAIN f -> ListedRow]
BY DEF Listing

LEMMA FetchedIs ==
    \A f : f \in Fetched <=> DOMAIN f \subseteq AttemptIndex /\ f \in [DOMAIN f -> AttemptRecord]
BY DEF Fetched

\* What is left of a listing, and of what was fetched.
LEMMA ListingRest ==
    ASSUME NEW f \in Listing, NEW n
    PROVE  /\ Rest(f, n) \in Listing
           /\ DOMAIN Rest(f, n) = {k \in DOMAIN f : k > n}
           /\ \A k \in DOMAIN Rest(f, n) : k \in DOMAIN f /\ Rest(f, n)[k] = f[k]
<1>1. /\ DOMAIN Rest(f, n) = {k \in DOMAIN f : k > n}
      /\ \A k \in DOMAIN Rest(f, n) : k \in DOMAIN f /\ Rest(f, n)[k] = f[k]
  BY DEF Rest
<1>2. Rest(f, n) = [k \in DOMAIN Rest(f, n) |-> Rest(f, n)[k]]
  BY DEF Rest
<1>. QED
  BY <1>1, <1>2, ListingIs

LEMMA FetchedRest ==
    ASSUME NEW f \in Fetched, NEW n
    PROVE  /\ Rest(f, n) \in Fetched
           /\ DOMAIN Rest(f, n) = {k \in DOMAIN f : k > n}
           /\ \A k \in DOMAIN Rest(f, n) : k \in DOMAIN f /\ Rest(f, n)[k] = f[k]
<1>1. /\ DOMAIN Rest(f, n) = {k \in DOMAIN f : k > n}
      /\ \A k \in DOMAIN Rest(f, n) : k \in DOMAIN f /\ Rest(f, n)[k] = f[k]
  BY DEF Rest
<1>2. Rest(f, n) = [k \in DOMAIN Rest(f, n) |-> Rest(f, n)[k]]
  BY DEF Rest
<1>. QED
  BY <1>1, <1>2, FetchedIs

-----------------------------------------------------------------------------
(* The poll, by where it is.                                               *)

LEMMA PollKinds ==
    ASSUME NEW p \in Poll
    PROVE  /\ p.pc \in BountyPcs => p \in BountyPoll
           /\ p.pc \in AttemptPcs => p \in AttemptPoll
           /\ p # Idle => p \in BountyPoll \cup AttemptPoll
BY DEF Poll, Idle, BountyPoll, AttemptPoll, BountyPcs, AttemptPcs

LEMMA ListedAreBounties ==
    ASSUME NEW p \in BountyPoll \cup AttemptPoll
    PROVE  DOMAIN p.listed \subseteq BountyId /\ p.listed \in [DOMAIN p.listed -> ListedRow]
<1>1. p.listed \in Listing
  BY DEF BountyPoll, AttemptPoll
<1>. QED
  BY <1>1, ListingIs

LEMMA FetchedAreAttempts ==
    ASSUME NEW p \in AttemptPoll
    PROVE  DOMAIN p.fetched \subseteq AttemptIndex /\ p.fetched \in [DOMAIN p.fetched -> AttemptRecord]
<1>1. p.fetched \in Fetched
  BY DEF AttemptPoll
<1>. QED
  BY <1>1, FetchedIs

\* The poll goes on to the next bounty.
LEMMA GoesOn ==
    ASSUME NEW p \in BountyPoll \cup AttemptPoll, NEW p2, NEW table, NEW cached, NEW changes,
           p2 = [pc |-> "bounty", b |-> p.b + 1, listed |-> Rest(p.listed, p.b)],
           ListedIsTrue(p, table)
    PROVE  /\ p2 \in Poll
           /\ ListedIsTrue(p2, table) /\ BountyIsListed(p2, table)
           /\ FetchedIsBetween(p2, cached, table) /\ ChangeIsDue(p2, changes)
<1>1. p.listed \in Listing /\ p.b \in Nat /\ p.pc \in BountyPcs \cup AttemptPcs
  BY Indices DEF BountyPoll, AttemptPoll
<1>2. /\ Rest(p.listed, p.b) \in Listing
      /\ DOMAIN Rest(p.listed, p.b) \subseteq DOMAIN p.listed
      /\ \A k \in DOMAIN Rest(p.listed, p.b) : Rest(p.listed, p.b)[k] = p.listed[k]
  BY <1>1, ListingRest
<1>3. p2.pc = "bounty" /\ p2.listed = Rest(p.listed, p.b) /\ p2 \in BountyPoll
  BY <1>1, <1>2 DEF BountyPoll, BountyPcs
<1>4. p2 \in Poll
  BY <1>3 DEF Poll
<1>5. ListedIsTrue(p2, table)
  BY <1>1, <1>2, <1>3 DEF ListedIsTrue
<1>6. BountyIsListed(p2, table) /\ FetchedIsBetween(p2, cached, table) /\ ChangeIsDue(p2, changes)
  BY <1>3 DEF BountyIsListed, FetchedIsBetween, ChangeIsDue, AttemptPcs
<1>. QED
  BY <1>4, <1>5, <1>6

-----------------------------------------------------------------------------
(* The contract: attempts stay, and so does that one was reviewed.         *)

LEMMA ContractKeeps ==
    ASSUME TypeOK, Contract
    PROVE  /\ bounties' \in [BountyId -> BountyStatus]
           /\ attempts' \in AttemptTable
           /\ LaterTable(attempts, attempts')
<1>0. /\ bounties \in [BountyId -> BountyStatus] /\ attempts \in AttemptTable
  BY DEF TypeOK
<1>1. LaterTable(attempts, attempts)
  BY DEF LaterTable, Later
<1>2. PICK b \in BountyId :
         \/ CreateBounty(b)
         \/ CloseBounty(b)
         \/ AcceptAttempt(b)
         \/ \E i \in AttemptIndex, status \in LiveStatus \cup FinalStatus,
               hash \in Content \cup {NoHash} : MoveAttempt(b, i, status, hash)
  BY DEF Contract
<1>3. CASE CreateBounty(b) \/ CloseBounty(b)
  <2>1. attempts' = attempts
    BY <1>3 DEF CreateBounty, CloseBounty
  <2>2. PICK status \in BountyStatus : bounties' = [bounties EXCEPT ![b] = status]
    BY <1>3 DEF CreateBounty, CloseBounty, BountyStatus
  <2>. QED
    BY <1>0, <1>1, <2>1, <2>2
<1>4. CASE AcceptAttempt(b)
  <2>1. bounties' = bounties /\ Count(attempts[b]) \in AttemptIndex
    BY <1>4 DEF AcceptAttempt
  <2> DEFINE n == Count(attempts[b])
  <2>2. attempts' = [attempts EXCEPT ![b][n].status = "ACCEPTED"]
    BY <1>4 DEF AcceptAttempt
  <2>3. "ACCEPTED" \in LiveStatus
    BY IndexAssumption
  <2> HIDE DEF n
  <2>4. n \in AttemptIndex
    BY <2>1 DEF n
  <2>5. attempts[b] \in [AttemptIndex -> AttemptRecord] /\ attempts[b][n] \in AttemptRecord
    BY <1>0, <2>4 DEF AttemptTable
  <2> DEFINE new == [attempts[b][n] EXCEPT !.status = "ACCEPTED"]
  <2>6. new \in AttemptRecord /\ Later(attempts[b][n], new)
    BY <2>3, <2>5 DEF AttemptRecord, Later
  <2>7. attempts' = [attempts EXCEPT ![b] = [attempts[b] EXCEPT ![n] = new]]
    BY <2>2
  <2> HIDE DEF new
  <2>8. attempts' \in AttemptTable
    BY <1>0, <2>4, <2>5, <2>6, <2>7 DEF AttemptTable
  <2>9. LaterTable(attempts, attempts')
    BY <1>0, <1>1, <2>4, <2>5, <2>6, <2>7 DEF LaterTable, AttemptTable
  <2>. QED
    BY <1>0, <2>1, <2>8, <2>9
<1>5. ASSUME NEW i \in AttemptIndex, NEW status \in LiveStatus \cup FinalStatus,
             NEW hash \in Content \cup {NoHash}, MoveAttempt(b, i, status, hash)
      PROVE  /\ bounties' \in [BountyId -> BountyStatus]
             /\ attempts' \in AttemptTable
             /\ LaterTable(attempts, attempts')
  <2>1. /\ bounties' = [bounties EXCEPT ![b] = IF status = "WON" THEN "SETTLED" ELSE @]
        /\ attempts' = [attempts EXCEPT ![b] = Moved(b, i, status, hash)]
        /\ hash = attempts[b][i].hash \/ hash \in Content
    BY <1>5 DEF MoveAttempt
  <2>2. status # "NONE" /\ NoHash \notin Content
    BY IndexAssumption
  <2>3. bounties' \in [BountyId -> BountyStatus]
    <3>1. bounties[b] \in BountyStatus /\ "SETTLED" \in BountyStatus
      BY <1>0 DEF BountyStatus
    <3>. QED
      BY <1>0, <2>1, <3>1
  <2>4. ASSUME NEW j \in AttemptIndex
        PROVE  /\ Moved(b, i, status, hash)[j] \in AttemptRecord
               /\ Later(attempts[b][j], Moved(b, i, status, hash)[j])
    <3>1. attempts[b][j] \in AttemptRecord
      BY <1>0 DEF AttemptTable
    <3>2. CASE j = i
      <4>1. Moved(b, i, status, hash)[j] = [status |-> status, hash |-> hash]
        BY <3>2 DEF Moved
      <4>. QED
        BY <2>1, <2>2, <3>2, <4>1 DEF AttemptRecord, Later
    <3>3. CASE j # i
      <4>1. \/ Moved(b, i, status, hash)[j] = attempts[b][j]
            \/ Moved(b, i, status, hash)[j] = [attempts[b][j] EXCEPT !.status = "LOST_RACE"]
        BY <3>3 DEF Moved
      <4>. QED
        BY <3>1, <4>1 DEF AttemptRecord, Later
    <3>. QED
      BY <3>2, <3>3
  <2>5. Moved(b, i, status, hash) \in [AttemptIndex -> AttemptRecord]
    <3>1. Moved(b, i, status, hash) = [j \in AttemptIndex |-> Moved(b, i, status, hash)[j]]
      BY DEF Moved
    <3>. QED
      BY <2>4, <3>1
  <2>6. attempts' \in AttemptTable
    BY <1>0, <2>1, <2>5 DEF AttemptTable
  <2>7. \A c \in BountyId : attempts'[c] = IF c = b THEN Moved(b, i, status, hash) ELSE attempts[c]
    BY <1>0, <2>1 DEF AttemptTable
  <2>8. LaterTable(attempts, attempts')
    BY <1>1, <2>4, <2>7 DEF LaterTable
  <2>. QED
    BY <2>3, <2>6, <2>8
<1>. QED
  BY <1>2, <1>3, <1>4, <1>5

\* What holds of a table the poll copied or refers to holds when it has moved on.
LEMMA ContractStep ==
    ASSUME IndexInv, Contract
    PROVE  IndexInv'
<1>1. UNCHANGED <<rows, poll, history>> /\ TypeOK
  BY DEF Contract, IndexInv
<1>2. /\ bounties' \in [BountyId -> BountyStatus]
      /\ attempts' \in AttemptTable
      /\ LaterTable(attempts, attempts')
  BY <1>1, ContractKeeps
<1>3. TypeOK'
  BY <1>1, <1>2 DEF TypeOK, rows
<1>4. LaterTable(attemptRows', attempts')
  BY <1>1, <1>2 DEF IndexInv, LaterTable, Later, rows
<1>5. \A c \in BountyId : HasAttempts(attempts[c]) => HasAttempts(attempts'[c])
  BY <1>2 DEF HasAttempts, LaterTable, Later
<1>6. poll.pc \in BountyPcs \cup AttemptPcs => DOMAIN poll.listed \subseteq BountyId
  <2>1. poll.pc \in BountyPcs \cup AttemptPcs => poll \in BountyPoll \cup AttemptPoll
    BY <1>1, PollKinds DEF TypeOK
  <2>. QED
    BY <2>1, ListedAreBounties
<1>7. ListedIsTrue(poll', attempts')
  BY <1>1, <1>5, <1>6 DEF IndexInv, ListedIsTrue
<1>8. BountyIsListed(poll', attempts')
  BY <1>1, <1>5, <1>6 DEF IndexInv, BountyIsListed, BountyPcs
<1>9. FetchedIsBetween(poll', attemptRows', attempts')
  <2> SUFFICES ASSUME poll.pc \in AttemptPcs
               PROVE  FetchedIsBetween(poll, attemptRows, attempts')
    BY <1>1 DEF FetchedIsBetween, rows
  <2>1. poll \in AttemptPoll
    BY <1>1, PollKinds DEF TypeOK
  <2>2. poll.b \in BountyId /\ DOMAIN poll.fetched \subseteq AttemptIndex
    BY <2>1, FetchedAreAttempts DEF AttemptPoll
  <2>. QED
    BY <1>2, <2>2 DEF IndexInv, FetchedIsBetween, LaterTable, Later
<1>10. ChangeIsDue(poll', unlogged') /\ ArchivingIsDue(poll', unarchived')
  BY <1>1 DEF IndexInv, history
<1>. QED
  BY <1>3, <1>4, <1>7, <1>8, <1>9, <1>10 DEF IndexInv

-----------------------------------------------------------------------------
(* The poll.                                                               *)

\* Where no attempt is worked on nothing waits to be archived.
LEMMA NothingToArchive ==
    ASSUME NEW p, NEW hashes, ArchivingIsDue(p, hashes), p.pc \notin {"attemptEvent", "archive"}
    PROVE  hashes = {}
BY DEF ArchivingIsDue

LEMMA StartsPoll ==
    ASSUME IndexInv, StartPoll
    PROVE  IndexInv'
<1> DEFINE created == {c \in BountyId : bounties[c] # "NONE"}
           listed == [b \in created |-> [status |-> bounties[b],
                                         attempt_count |-> Count(attempts[b])]]
<1>1. /\ poll = Idle /\ TypeOK
      /\ UNCHANGED <<contract, rows, unlogged, unarchived>>
      /\ poll' = [pc |-> "bounty", b |-> 0, listed |-> listed]
  BY DEF StartPoll, IndexInv
<1>2. ASSUME NEW b \in created
      PROVE  /\ [status |-> bounties[b], attempt_count |-> Count(attempts[b])] \in ListedRow
             /\ Count(attempts[b]) # 0 => HasAttempts(attempts[b])
  <2>1. attempts[b] \in [AttemptIndex -> AttemptRecord] /\ bounties[b] \in BountyStatus
    BY <1>1 DEF TypeOK, AttemptTable
  <2>. QED
    BY <2>1, Counting DEF ListedRow
<1>3. listed \in Listing
  BY <1>2, ListingIs
<1>4. \A c \in DOMAIN listed : listed[c].attempt_count # 0 => HasAttempts(attempts[c])
  BY <1>2
<1> HIDE DEF listed
<1>5. poll' \in BountyPoll /\ poll'.pc = "bounty" /\ poll'.listed = listed
  BY <1>1, <1>3 DEF BountyPoll, BountyPcs
<1>6. TypeOK'
  BY <1>1, <1>5 DEF TypeOK, Poll, contract, rows
<1>7. LaterTable(attemptRows', attempts')
  BY <1>1 DEF IndexInv, contract, rows
<1>8. ListedIsTrue(poll', attempts')
  BY <1>1, <1>4, <1>5 DEF ListedIsTrue, contract
<1>9. /\ BountyIsListed(poll', attempts') /\ FetchedIsBetween(poll', attemptRows', attempts')
      /\ ChangeIsDue(poll', unlogged')
  BY <1>5 DEF BountyIsListed, FetchedIsBetween, ChangeIsDue, AttemptPcs
<1>10. unarchived' = {}
  BY <1>1, NothingToArchive DEF IndexInv, Idle
<1>11. ArchivingIsDue(poll', unarchived')
  BY <1>10 DEF ArchivingIsDue
<1>. QED
  BY <1>6, <1>7, <1>8, <1>9, <1>11 DEF IndexInv

\* The steps at a bounty that stay at it.
LEMMA StaysAtBounty ==
    ASSUME NEW p \in BountyPoll, NEW pc \in BountyPcs, NEW p2, NEW cached, NEW table,
           p2 = [p EXCEPT !.pc = pc], ListedIsTrue(p, table)
    PROVE  /\ p2 \in Poll /\ p2.pc = pc /\ p2.b = p.b /\ p2.listed = p.listed
           /\ ListedIsTrue(p2, table) /\ FetchedIsBetween(p2, cached, table)
<1>1. p2 \in BountyPoll /\ p2.pc = pc /\ p2.b = p.b /\ p2.listed = p.listed
  BY DEF BountyPoll
<1>2. p.pc \in BountyPcs
  BY DEF BountyPoll
<1>. QED
  BY <1>1, <1>2 DEF Poll, ListedIsTrue, FetchedIsBetween, AttemptPcs, BountyPcs

LEMMA UpsertsBounty ==
    ASSUME IndexInv, UpsertBounty
    PROVE  IndexInv'
<1>1. /\ poll.pc = "bounty" /\ poll.b \in DOMAIN poll.listed /\ TypeOK
      /\ UNCHANGED <<contract, attemptRows, unarchived>>
  BY DEF UpsertBounty, IndexInv, At, ListedAny
<1>2. poll \in BountyPoll
  BY <1>1, PollKinds DEF TypeOK, BountyPcs
<1>3. \/ poll' = [poll EXCEPT !.pc = "bountyEvent"] /\ unlogged' = unlogged \cup {<<poll.b>>}
      \/ poll' = [poll EXCEPT !.pc = "skip"]
  BY DEF UpsertBounty, Go
<1>4. PICK pc \in {"bountyEvent", "skip"} :
        /\ poll' = [poll EXCEPT !.pc = pc]
        /\ pc = "bountyEvent" => unlogged' = unlogged \cup {<<poll.b>>}
  BY <1>3
<1>5. /\ poll' \in Poll /\ poll'.pc = pc /\ poll'.b = poll.b /\ poll'.listed = poll.listed
      /\ ListedIsTrue(poll', attempts) /\ FetchedIsBetween(poll', attemptRows, attempts)
  <2>1. pc \in BountyPcs /\ ListedIsTrue(poll, attempts)
    BY DEF BountyPcs, IndexInv
  <2>. QED
    BY <1>2, <1>4, <2>1, StaysAtBounty
<1>6. BountyIsListed(poll', attempts') /\ ChangeIsDue(poll', unlogged')
  BY <1>1, <1>4, <1>5 DEF BountyIsListed, ChangeIsDue
<1>7. unarchived' = {}
  BY <1>1, NothingToArchive DEF IndexInv
<1>. QED
  BY <1>1, <1>5, <1>6, <1>7 DEF IndexInv, TypeOK, ArchivingIsDue, contract

LEMMA LogsBounty ==
    ASSUME IndexInv, LogBounty
    PROVE  IndexInv'
<1>1. /\ poll.pc = "bountyEvent" /\ TypeOK
      /\ UNCHANGED <<contract, rows, unarchived>>
      /\ poll' = [poll EXCEPT !.pc = "skip"]
  BY DEF LogBounty, IndexInv, At, Go
<1>2. poll \in BountyPoll
  BY <1>1, PollKinds DEF TypeOK, BountyPcs
<1>3. /\ poll' \in Poll /\ poll'.pc = "skip" /\ poll'.b = poll.b /\ poll'.listed = poll.listed
      /\ ListedIsTrue(poll', attempts) /\ FetchedIsBetween(poll', attemptRows, attempts)
  <2>1. "skip" \in BountyPcs /\ ListedIsTrue(poll, attempts)
    BY DEF BountyPcs, IndexInv
  <2>. QED
    BY <1>1, <1>2, <2>1, StaysAtBounty
<1>4. BountyIsListed(poll', attempts') /\ ChangeIsDue(poll', unlogged')
  BY <1>1, <1>3 DEF IndexInv, BountyIsListed, ChangeIsDue
<1>5. unarchived' = {}
  BY <1>1, NothingToArchive DEF IndexInv
<1>. QED
  BY <1>1, <1>3, <1>4, <1>5 DEF IndexInv, TypeOK, ArchivingIsDue, contract, rows

LEMMA ChecksSkip ==
    ASSUME IndexInv, CheckSkip
    PROVE  IndexInv'
<1>1. /\ poll.pc = "skip" /\ TypeOK
      /\ UNCHANGED <<contract, rows, history>>
      /\ \/ NextBounty
         \/ poll.listed[poll.b].attempt_count # 0 /\ poll' = [poll EXCEPT !.pc = "read"]
  BY DEF CheckSkip, IndexInv, At, Go
<1>2. poll \in BountyPoll /\ ListedIsTrue(poll, attempts)
  BY <1>1, PollKinds DEF TypeOK, BountyPcs, IndexInv
<1>3. unarchived' = {}
  BY <1>1, NothingToArchive DEF IndexInv, history
<1>4. /\ poll' \in Poll
      /\ ListedIsTrue(poll', attempts') /\ BountyIsListed(poll', attempts')
      /\ FetchedIsBetween(poll', attemptRows', attempts') /\ ChangeIsDue(poll', unlogged')
  <2>1. CASE NextBounty
    <3>1. poll' = [pc |-> "bounty", b |-> poll.b + 1, listed |-> Rest(poll.listed, poll.b)]
      BY <2>1 DEF NextBounty
    <3>. QED
      BY <1>1, <1>2, <3>1, GoesOn DEF contract, rows
  <2>2. CASE poll.listed[poll.b].attempt_count # 0 /\ poll' = [poll EXCEPT !.pc = "read"]
    <3>1. "read" \in BountyPcs
      BY DEF BountyPcs
    <3>2. /\ poll' \in Poll /\ poll'.pc = "read" /\ poll'.b = poll.b /\ poll'.listed = poll.listed
          /\ ListedIsTrue(poll', attempts) /\ FetchedIsBetween(poll', attemptRows, attempts)
      BY <1>2, <2>2, <3>1, StaysAtBounty
    <3>3. poll.b \in DOMAIN poll.listed
      BY <1>1 DEF IndexInv, BountyIsListed
    <3>4. HasAttempts(attempts[poll.b])
      BY <1>1, <1>2, <2>2, <3>3 DEF ListedIsTrue, BountyPcs
    <3>5. BountyIsListed(poll', attempts') /\ ChangeIsDue(poll', unlogged')
      BY <1>1, <3>2, <3>3, <3>4 DEF BountyIsListed, ChangeIsDue, contract
    <3>. QED
      BY <1>1, <3>2, <3>5 DEF contract, rows
  <2>. QED
    BY <1>1, <2>1, <2>2
<1>. QED
  BY <1>1, <1>3, <1>4 DEF IndexInv, TypeOK, ArchivingIsDue, contract, rows

\* What was read is what there is.
LEMMA ReadsAttempts ==
    ASSUME IndexInv, ReadAttempts
    PROVE  IndexInv'
<1> DEFINE b == poll.b
           n == Count(attempts[b])
           fetched == [i \in 0 .. n - 1 |-> attempts[b][i]]
<1>1. /\ poll.pc = "read" /\ TypeOK /\ LaterTable(attemptRows, attempts)
      /\ UNCHANGED <<contract, rows, history>>
      /\ poll' = [pc |-> "attempt", b |-> b, i |-> 0, listed |-> poll.listed,
                  fetched |-> fetched, archive |-> FALSE]
  BY DEF ReadAttempts, IndexInv, At
<1>2. poll \in BountyPoll /\ ListedIsTrue(poll, attempts)
  BY <1>1, PollKinds DEF TypeOK, BountyPcs, IndexInv
<1>3. b \in DOMAIN poll.listed /\ HasAttempts(attempts[b])
  BY <1>1 DEF IndexInv, BountyIsListed
<1>4. b \in BountyId /\ poll.listed \in Listing
  BY <1>2, <1>3, ListedAreBounties DEF BountyPoll
<1>5. attempts[b] \in [AttemptIndex -> AttemptRecord]
  BY <1>1, <1>4 DEF TypeOK, AttemptTable
<1>6. n \in Nat /\ n <= Cardinality(AttemptIndex) /\ n # 0
  BY <1>3, <1>5, Counting
<1> HIDE DEF n, b
<1>7. 0 .. n - 1 \subseteq AttemptIndex /\ 0 \in 0 .. n - 1
  BY <1>6, Indices
<1>8. fetched \in Fetched
  BY <1>5, <1>7, FetchedIs
<1>9. ASSUME NEW j \in DOMAIN fetched
      PROVE  Later(attemptRows[b][j], fetched[j]) /\ Later(fetched[j], attempts[b][j])
  <2>1. fetched[j] = attempts[b][j] /\ j \in AttemptIndex
    BY <1>7
  <2>. QED
    BY <1>1, <1>4, <2>1 DEF LaterTable, Later
<1>10. 0 \in DOMAIN fetched /\ 0 \in AttemptIndex
  BY <1>7
<1> HIDE DEF fetched
<1>11. poll' \in AttemptPoll
  BY <1>1, <1>4, <1>8, <1>10 DEF AttemptPoll, AttemptPcs
<1>12. ListedIsTrue(poll', attempts')
  BY <1>1, <1>2 DEF ListedIsTrue, contract, BountyPoll
<1>13. FetchedIsBetween(poll', attemptRows', attempts')
  BY <1>1, <1>9, <1>10 DEF FetchedIsBetween, contract, rows
<1>14. BountyIsListed(poll', attempts') /\ ChangeIsDue(poll', unlogged')
  BY <1>1 DEF BountyIsListed, ChangeIsDue
<1>15. unarchived' = {}
  BY <1>1, NothingToArchive DEF IndexInv, history
<1>. QED
  BY <1>1, <1>11, <1>12, <1>13, <1>14, <1>15
     DEF IndexInv, TypeOK, ArchivingIsDue, Poll, contract, rows

\* A row that is written catches up with what was fetched of it; the other rows that
\* wait to be written stay.
LEMMA UpsertsAttempt ==
    ASSUME IndexInv, UpsertAttempt
    PROVE  IndexInv'
<1> DEFINE b == poll.b
           i == poll.i
           row == attemptRows[b][i]
           a == poll.fetched[i]
           e == <<b, i>>
<1>1. /\ poll.pc = "attempt" /\ TypeOK /\ LaterTable(attemptRows, attempts)
      /\ UNCHANGED <<contract, bountyRows>>
  BY DEF UpsertAttempt, IndexInv, At
<1>2. /\ attemptRows' = [attemptRows EXCEPT ![b][i] = a]
      /\ unlogged' = IF StatusChanged(row, a) THEN unlogged \cup {e} ELSE unlogged
      /\ unarchived' = IF row.hash # a.hash THEN unarchived \cup {e} ELSE unarchived
      /\ poll' = [poll EXCEPT !.pc = IF StatusChanged(row, a) THEN "attemptEvent" ELSE "archive",
                              !.archive = NewEvidence(row, a) \/ NewlyJudged(row, a)]
  BY DEF UpsertAttempt, MapAttempt
<1>3. poll \in AttemptPoll
  BY <1>1, PollKinds DEF TypeOK, AttemptPcs
<1>4. b \in BountyId /\ i \in AttemptIndex
  BY <1>3 DEF AttemptPoll
<1>5. /\ i \in DOMAIN poll.fetched
      /\ \A j \in DOMAIN poll.fetched :
            Later(attemptRows[b][j], poll.fetched[j]) /\ Later(poll.fetched[j], attempts[b][j])
  BY <1>1 DEF IndexInv, FetchedIsBetween, AttemptPcs
<1>6. a \in AttemptRecord
  BY <1>3, <1>5, FetchedAreAttempts
<1>7. unarchived = {}
  BY <1>1, NothingToArchive DEF IndexInv
<1>8. row.hash # a.hash => NewlyJudged(row, a)
  BY <1>5 DEF Later, NewlyJudged
<1>9. attemptRows \in AttemptTable
  BY <1>1 DEF TypeOK
<1>10. PICK pc \in {"attemptEvent", "archive"}, archive \in BOOLEAN :
         /\ poll' = [poll EXCEPT !.pc = pc, !.archive = archive]
         /\ pc = "attemptEvent" => e \in unlogged'
         /\ row.hash # a.hash => archive
  <2> DEFINE pc == IF StatusChanged(row, a) THEN "attemptEvent" ELSE "archive"
             archive == NewEvidence(row, a) \/ NewlyJudged(row, a)
  <2>1. pc \in {"attemptEvent", "archive"} /\ archive \in BOOLEAN
    OBVIOUS
  <2>2. poll' = [poll EXCEPT !.pc = pc, !.archive = archive]
    BY <1>2
  <2>3. pc = "attemptEvent" => e \in unlogged'
    BY <1>2
  <2>4. row.hash # a.hash => archive
    BY <1>8
  <2> HIDE DEF pc, archive, row, a, e
  <2>. QED
    BY <2>1, <2>2, <2>3, <2>4
<1>11. /\ poll'.pc = pc /\ poll'.b = b /\ poll'.i = i /\ poll'.listed = poll.listed
       /\ poll'.fetched = poll.fetched /\ poll'.archive = archive /\ poll' \in AttemptPoll
  BY <1>3, <1>10 DEF AttemptPoll, AttemptPcs
<1> HIDE DEF a, row
<1>12. \A c \in BountyId, j \in AttemptIndex :
         attemptRows'[c][j] = IF c = b /\ j = i THEN a ELSE attemptRows[c][j]
  BY <1>2, <1>4, <1>9 DEF AttemptTable
<1>13. attemptRows' \in AttemptTable
  BY <1>2, <1>4, <1>6, <1>9 DEF AttemptTable
<1>14. LaterTable(attemptRows', attempts')
  <2>1. Later(a, attempts[b][i])
    BY <1>5 DEF a
  <2>. QED
    BY <1>1, <1>12, <2>1 DEF LaterTable, contract
<1>15. FetchedIsBetween(poll', attemptRows', attempts')
  <2>1. ASSUME NEW j \in DOMAIN poll.fetched
        PROVE  Later(attemptRows'[b][j], poll.fetched[j])
    <3>1. j \in AttemptIndex
      BY <1>3, FetchedAreAttempts
    <3>2. CASE j = i
      BY <1>4, <1>12, <3>1, <3>2 DEF a, Later
    <3>3. CASE j # i
      BY <1>4, <1>5, <1>12, <3>1, <3>3
    <3>. QED
      BY <3>2, <3>3
  <2>. QED
    BY <1>1, <1>5, <1>11, <2>1 DEF FetchedIsBetween, contract
<1>16. ListedIsTrue(poll', attempts')
  BY <1>1, <1>11 DEF IndexInv, ListedIsTrue, AttemptPcs, contract
<1>17. BountyIsListed(poll', attempts') /\ ChangeIsDue(poll', unlogged')
  BY <1>10, <1>11 DEF BountyIsListed, ChangeIsDue
<1>18. ArchivingIsDue(poll', unarchived')
  BY <1>2, <1>7, <1>10, <1>11 DEF ArchivingIsDue
<1>. QED
  BY <1>1, <1>11, <1>13, <1>14, <1>15, <1>16, <1>17, <1>18
     DEF IndexInv, TypeOK, Poll, contract

LEMMA LogsAttempt ==
    ASSUME IndexInv, LogAttempt
    PROVE  IndexInv'
<1>1. /\ poll.pc = "attemptEvent" /\ TypeOK
      /\ UNCHANGED <<contract, rows, unarchived>>
      /\ poll' = [poll EXCEPT !.pc = "archive"]
  BY DEF LogAttempt, IndexInv, At, Go
<1>2. poll \in AttemptPoll
  BY <1>1, PollKinds DEF TypeOK, AttemptPcs
<1>3. /\ poll'.pc = "archive" /\ poll'.b = poll.b /\ poll'.i = poll.i
      /\ poll'.listed = poll.listed /\ poll'.fetched = poll.fetched
      /\ poll'.archive = poll.archive /\ poll' \in AttemptPoll
  BY <1>1, <1>2 DEF AttemptPoll, AttemptPcs
<1>4. ListedIsTrue(poll', attempts') /\ FetchedIsBetween(poll', attemptRows', attempts')
  BY <1>1, <1>3 DEF IndexInv, ListedIsTrue, FetchedIsBetween, AttemptPcs, contract, rows
<1>5. BountyIsListed(poll', attempts') /\ ChangeIsDue(poll', unlogged')
  BY <1>3 DEF BountyIsListed, ChangeIsDue
<1>6. ArchivingIsDue(poll', unarchived')
  BY <1>1, <1>3 DEF IndexInv, ArchivingIsDue
<1>. QED
  BY <1>1, <1>3, <1>4, <1>5, <1>6 DEF IndexInv, TypeOK, Poll, contract, rows

LEMMA StartsArchiving ==
    ASSUME IndexInv, StartArchiving
    PROVE  IndexInv'
<1>1. /\ poll.pc = "archive" /\ TypeOK
      /\ UNCHANGED <<contract, rows, unlogged>>
      /\ unarchived' = IF poll.archive THEN unarchived \ {<<poll.b, poll.i>>} ELSE unarchived
      /\ NextAttempt
  BY DEF StartArchiving, IndexInv, At
<1>2. poll \in AttemptPoll
  BY <1>1, PollKinds DEF TypeOK, AttemptPcs
<1>3. unarchived' = {}
  BY <1>1 DEF IndexInv, ArchivingIsDue
<1>4. /\ poll' \in Poll
      /\ ListedIsTrue(poll', attempts) /\ BountyIsListed(poll', attempts)
      /\ FetchedIsBetween(poll', attemptRows, attempts) /\ ChangeIsDue(poll', unlogged)
  <2>1. CASE poll.i + 1 \in DOMAIN poll.fetched
    <3>1. poll' = [poll EXCEPT !.pc = "attempt", !.i = poll.i + 1,
                               !.fetched = Rest(poll.fetched, poll.i), !.archive = FALSE]
      BY <1>1, <2>1 DEF NextAttempt
    <3>2. poll.fetched \in Fetched /\ poll.i \in Nat
      BY <1>2, Indices DEF AttemptPoll
    <3> DEFINE rest == Rest(poll.fetched, poll.i)
    <3>3. /\ rest \in Fetched /\ poll.i + 1 \in DOMAIN rest
          /\ \A k \in DOMAIN rest : k \in DOMAIN poll.fetched /\ rest[k] = poll.fetched[k]
      <4>1. /\ rest \in Fetched /\ DOMAIN rest = {k \in DOMAIN poll.fetched : k > poll.i}
            /\ \A k \in DOMAIN rest : k \in DOMAIN poll.fetched /\ rest[k] = poll.fetched[k]
        BY <3>2, FetchedRest
      <4>2. poll.i + 1 > poll.i
        BY <3>2
      <4>. QED
        BY <2>1, <4>1, <4>2
    <3>4. poll.i + 1 \in AttemptIndex
      BY <1>2, <2>1, FetchedAreAttempts
    <3> HIDE DEF rest
    <3>5. poll' = [poll EXCEPT !.pc = "attempt", !.i = poll.i + 1, !.fetched = rest,
                               !.archive = FALSE]
      BY <3>1 DEF rest
    <3>6. /\ poll'.pc = "attempt" /\ poll'.b = poll.b /\ poll'.i = poll.i + 1
          /\ poll'.listed = poll.listed /\ poll'.fetched = rest /\ poll' \in AttemptPoll
      BY <1>2, <3>3, <3>4, <3>5 DEF AttemptPoll, AttemptPcs
    <3>7. ListedIsTrue(poll', attempts) /\ FetchedIsBetween(poll', attemptRows, attempts)
      BY <1>1, <3>3, <3>6 DEF IndexInv, ListedIsTrue, FetchedIsBetween, AttemptPcs
    <3>. QED
      BY <3>6, <3>7 DEF BountyIsListed, ChangeIsDue, Poll
  <2>2. CASE NextBounty
    <3>1. poll' = [pc |-> "bounty", b |-> poll.b + 1, listed |-> Rest(poll.listed, poll.b)]
      BY <2>2 DEF NextBounty
    <3>. QED
      BY <1>2, <3>1, GoesOn DEF IndexInv
  <2>. QED
    BY <1>1, <2>1, <2>2 DEF NextAttempt
<1>. QED
  BY <1>1, <1>3, <1>4 DEF IndexInv, TypeOK, ArchivingIsDue, contract, rows

\* The poll ends, or fails: nothing it had to do is left.
LEMMA EndsPoll ==
    ASSUME IndexInv, FinishPoll \/ PollFails
    PROVE  IndexInv'
<1>1. poll' = Idle /\ TypeOK /\ UNCHANGED <<contract, rows>>
  BY DEF FinishPoll, PollFails, AfterFailure, IndexInv
<1>2. unarchived' = {}
  <2>1. CASE FinishPoll
    BY <2>1, NothingToArchive DEF FinishPoll, At, IndexInv
  <2>2. CASE PollFails
    BY <2>2 DEF PollFails
  <2>. QED
    BY <2>1, <2>2
<1>3. poll' \in Poll /\ poll'.pc = "idle"
  BY <1>1 DEF Poll, Idle
<1>. QED
  BY <1>1, <1>2, <1>3 DEF IndexInv, TypeOK, contract, rows, ListedIsTrue, BountyIsListed,
     FetchedIsBetween, ChangeIsDue, ArchivingIsDue, BountyPcs, AttemptPcs

-----------------------------------------------------------------------------
(* The theorems.                                                           *)

LEMMA InitIndexes == Init => IndexInv
<1> SUFFICES ASSUME Init PROVE IndexInv
  OBVIOUS
<1>1. None \in AttemptRecord
  BY DEF None, AttemptRecord
<1>2. NoAttempts \in AttemptTable
  BY <1>1 DEF NoAttempts, AttemptTable
<1>3. /\ attempts = NoAttempts /\ attemptRows = NoAttempts
      /\ bounties \in [BountyId -> BountyStatus] /\ poll = Idle /\ unarchived = {}
  BY DEF Init, BountyStatus
<1>4. TypeOK
  BY <1>2, <1>3 DEF TypeOK, Poll
<1>5. LaterTable(attemptRows, attempts)
  BY <1>3 DEF LaterTable, Later
<1>6. poll.pc = "idle"
  BY <1>3 DEF Idle
<1>. QED
  BY <1>3, <1>4, <1>5, <1>6 DEF IndexInv, ListedIsTrue, BountyIsListed, FetchedIsBetween,
     ChangeIsDue, ArchivingIsDue, BountyPcs, AttemptPcs

LEMMA NextIndexes == IndexInv /\ [Next]_vars => IndexInv'
<1> SUFFICES ASSUME IndexInv, [Next]_vars PROVE IndexInv'
  OBVIOUS
<1>1. CASE UNCHANGED vars
  BY <1>1 DEF IndexInv, TypeOK, LaterTable, ListedIsTrue, BountyIsListed, FetchedIsBetween,
     ChangeIsDue, ArchivingIsDue, HasAttempts, vars, contract, rows, history
<1>2. CASE PollStep
  BY <1>2, UpsertsBounty, LogsBounty, ChecksSkip, ReadsAttempts, UpsertsAttempt,
     LogsAttempt, StartsArchiving, EndsPoll DEF PollStep
<1>. QED
  BY <1>1, <1>2, ContractStep, StartsPoll, EndsPoll DEF Next

LEMMA IndexIsKept == Spec => []IndexInv
BY InitIndexes, NextIndexes, PTL DEF Spec

\* Every hash pollOnce writes into a row is archived before the row of the next attempt
\* is looked at, for any number of bounties, attempts and reviews, however old the
\* listing is and whatever failed before, unless the poll fails right there.
THEOREM JudgedIsArchived == Spec => []JudgedEvidenceIsArchived
<1>1. IndexInv => JudgedEvidenceIsArchived
  BY DEF IndexInv, ArchivingIsDue, JudgedEvidenceIsArchived, At
<1>. QED
  BY <1>1, IndexIsKept, PTL

\* logEvent is called once per change of a row at most, for any number of polls.
THEOREM EventsFollowChanges == Spec => EventsOncePerChange
<1>1. IndexInv /\ [Next]_vars =>
        [/\ LogBounty => <<poll.b>> \in unlogged
         /\ LogAttempt => <<poll.b, poll.i>> \in unlogged]_vars
  BY DEF IndexInv, ChangeIsDue, LogBounty, LogAttempt, At
<1>. QED
  BY <1>1, IndexIsKept, PTL DEF Spec, EventsOncePerChange

=============================================================================
