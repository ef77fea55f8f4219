------------------------- MODULE AdjudicationProofs -------------------------
(***************************************************************************)
(* What holds of the GenLayer contract for any number of bounties,         *)
(* reservations and attempts, for all amounts, shares and durations, and   *)
(* whatever the reviewers and the arbiters say.                            *)
(*                                                                         *)
(* The inductive invariant is Books, of one bounty at a time.  Every call  *)
(* is first shown to be one of a few kinds of step (StepKinds); that each  *)
(* kind keeps the invariants, and what it does to the record of an         *)
(* attempt, is proved once per kind and not once per call.                 *)
(***************************************************************************)
EXTENDS AdjudicationContest, PayoutLemmas, FiniteSetTheorems

-----------------------------------------------------------------------------
(* The inductive invariant. *)

APPEAL_STATES ==
    {"APPEALED", "APPEAL_PENDING_FUNDING", "APPEAL_FUNDED_PENDING_BINDING"}

\* The bond of attempt a is in the ledger until its outcome is decided.
LedgerBalanced(a) ==
    a.bond_deposited \in
        CASE a.status = "LOST_RACE" -> {0, a.bond_amount}
          [] a.status \in TERMINAL_STATES \ {"LOST_RACE"} -> {0}
          [] OTHER -> {a.bond_amount}

\* The deposit behind an appeal, when the appeal is heard or was decided.
AppealPaid(creator, a) ==
    /\ a.appealed_by \in {creator, a.challenger} \ {NoOne}
    /\ a.appeal_bond_deposited = a.bond_amount
    /\ a.bond_amount > 0 => a.appeal_base_funding_tx_hash # NoHash

\* What the record of an attempt says of its bond, its appeal and its ruling.
AttemptBooks(creator, a) ==
    /\ LedgerBalanced(a)
    /\ a.status \in APPEAL_STATES =>
         /\ a.appealed_by \in {creator, a.challenger} \ {NoOne}
         /\ a.appeal_bond_deposited = a.bond_amount
    /\ a.status = "APPEAL_FUNDED_PENDING_BINDING" => a.appeal_base_funding_tx_hash # NoHash
    /\ a.status = "APPEALED" => AppealPaid(creator, a)
    /\ a.appeal_bond_recipient # NoOne =>
         /\ a.status \in TERMINAL_STATES
         /\ AppealPaid(creator, a)
         /\ a.appeal_bond_recipient \in {creator, a.challenger}
    /\ a.pending_arbiter_verdict = "PARTIAL" => a.pending_payout_bps < BPS_DENOMINATOR
    /\ a.status \in {"REJECTED_FINAL", "BOND_FORFEITED"} => a.rejection_counted

\* What the record of a bounty says of its reward and its attempts.
BountyBooks(x) ==
    /\ x.status = "NONE" => x = NoBounty
    /\ x.status = "CANCELLED" => x.attempt_count = 0
    /\ x.attempt_count > 0 => x.criteria_locked
    /\ x.reward_deposited = IF x.status = "OPEN" THEN x.reward_amount ELSE 0
    /\ x.attempts_won = IF x.status = "SETTLED" THEN 1 ELSE 0

\* Bounty x, its attempts, and those among them disputed while it was open.
BooksOf(x, list, disputed) ==
    /\ BountyBooks(x)
    /\ \A i \in AttemptIndex :
         /\ AttemptBooks(x.creator, list[i])
         /\ i < x.attempt_count => list[i].status # "NONE"
         /\ i >= x.attempt_count => list[i] = NoAttempt
         /\ list[i].status = "WON" <=> x.status = "SETTLED" /\ i = x.winning_attempt_index
         /\ x.status = "SETTLED" => list[i].status \notin LIVE_STATES
    /\ x.status = "SETTLED" => x.winning_attempt_index \in AttemptIndex
    /\ \A i \in disputed :
         /\ list[i].status \notin LIVE_STATES \cup {"NONE"}
         /\ list[i].status \in DISPUTE_IN_PROGRESS_STATES => x.status \in {"OPEN", "SETTLED"}

Books == \A b \in BountyId : BooksOf(bounties[b], attempts[b], contested[b])

-----------------------------------------------------------------------------
(* The kinds of step. *)

\* The outcome z of an appeal against the ruling in a is the one the arbiter ruled.
AsRuled(a, z) ==
    \/ a.pending_arbiter_verdict = "REJECT" /\ z.status = "BOND_FORFEITED"
    \/ /\ a.pending_arbiter_verdict = "APPROVE"
       /\ z.status = "WON" /\ z.last_payout_bps = BPS_DENOMINATOR
    \/ /\ a.pending_arbiter_verdict = "PARTIAL"
       /\ z.status = "WON" /\ z.last_payout_bps = a.pending_payout_bps

\* What any call may make of the record a of an attempt that exists.
Succeeds(creator, a, z) ==
    /\ z \in Attempt
    /\ z.challenger = a.challenger
    /\ a.status \notin {"NONE", "WON"} /\ z.status # "NONE"
    /\ z.status \in LIVE_STATES => a.status \in LIVE_STATES
    /\ a.status \in TERMINAL_STATES => z = [a EXCEPT !.bond_deposited = z.bond_deposited]
    /\ a.rejection_counted => z.rejection_counted
    /\ AttemptBooks(creator, z)
    /\ a.status = "APPEALED" /\ z.status \in TERMINAL_STATES \ {"LOST_RACE"} =>
         z.appeal_bond_recipient =
            IF AsRuled(a, z) THEN IF a.appealed_by = a.challenger THEN creator ELSE a.challenger
            ELSE a.appealed_by

\* The reputation of a's challenger grows by what z decides, and nobody else's.
Counted(a, z) ==
    LET Grows(x, field, now) ==
          reputation'[x][field] = reputation[x][field] + IF x = a.challenger /\ now THEN 1 ELSE 0
    IN  \A x \in Account :
          /\ reputation'[x].attempts_made = reputation[x].attempts_made
          /\ Grows(x, "attempts_won", z.status = "WON")
          /\ Grows(x, "attempts_partial", z.status = "WON" /\ z.last_payout_bps < BPS_DENOMINATOR)
          /\ Grows(x, "attempts_rejected", z.rejection_counted /\ ~a.rejection_counted)

\* The counters of the contract stay what they are.
CountersTyped ==
    /\ reputation' \in [Account -> Reputation]
    /\ attempts_settled_by_ai_consensus' \in Nat

\* A call about one attempt that awards nothing: attempt i becomes z.
AttemptStep(b, i, z) ==
    /\ Succeeds(bounties[b].creator, attempts[b][i], z)
    /\ z.status # "WON"
    /\ attempts' = [attempts EXCEPT ![b][i] = z]
    /\ \/ /\ z.status \in DISPUTE_IN_PROGRESS_STATES =>
               attempts[b][i].status \in DISPUTE_IN_PROGRESS_STATES
          /\ UNCHANGED contested
       \/ /\ attempts[b][i].status \in LIVE_STATES
          /\ z.status \in DISPUTE_IN_PROGRESS_STATES
          /\ contested' = [contested EXCEPT ![b] = IF IsOpen(b) THEN @ \cup {i} ELSE @]
    /\ Counted(attempts[b][i], z)
    /\ CountersTyped
    /\ UNCHANGED <<config, bounties, reservations>>

\* A call that awards the reward: attempt i becomes z and ends the race.
WinStep(b, i, z) ==
    /\ Succeeds(bounties[b].creator, attempts[b][i], z)
    /\ IsOpen(b)
    /\ z.status = "WON"
    /\ bounties' = [bounties EXCEPT ![b] = Settled(b, i)]
    /\ attempts' = [attempts EXCEPT ![b] = LostRace(b, i, [@ EXCEPT ![i] = z])]
    /\ Counted(attempts[b][i], z)
    /\ CountersTyped
    /\ UNCHANGED <<config, reservations, contested>>

\* What a bounty offers does not change.
SameTerms(x, y) ==
    /\ y.reward_amount = x.reward_amount
    /\ y.required_bond = x.required_bond
    /\ y.platform_fee_bps = x.platform_fee_bps

\* A call of a creator: the bounty x becomes y, and its attempts stay as they are.
BountySucceeds(x, y, list) ==
    /\ y \in Bounty
    /\ BountyBooks(y)
    /\ \/ x.status = "NONE" /\ y.status = "OPEN"
       \/ x.status = "OPEN" /\ y.status = "OPEN"
       \/ x.status = "OPEN" /\ y.status = "CANCELLED"
       \/ /\ x.status = "OPEN" /\ y.status = "EXPIRED_REFUNDED"
          /\ \A i \in AttemptIndex :
               i < x.attempt_count => list[i].status \notin DISPUTE_IN_PROGRESS_STATES
    /\ x.status = "OPEN" => y.creator = x.creator /\ SameTerms(x, y)
    /\ y.attempt_count = x.attempt_count
    /\ y.attempts_won = x.attempts_won

BountyStep(b, y) ==
    /\ BountySucceeds(bounties[b], y, attempts[b])
    /\ bounties' = [bounties EXCEPT ![b] = y]
    /\ \A x \in Account :
         /\ reputation'[x].attempts_made = reputation[x].attempts_made
         /\ reputation'[x].attempts_won = reputation[x].attempts_won
         /\ reputation'[x].attempts_partial = reputation[x].attempts_partial
         /\ reputation'[x].attempts_rejected = reputation[x].attempts_rejected
    /\ CountersTyped
    /\ UNCHANGED <<config, reservations, attempts, contested>>

\* A call about a reservation that activates none.
ReservationStep(r, q) ==
    /\ q \in AttemptReservation
    /\ reservations[r].status # "ACTIVATED" /\ q.status \notin {"NONE", "ACTIVATED"}
    /\ \/ reservations[r].status = "NONE" /\ q.challenger \in Account
       \/ /\ reservations[r].status # "NONE"
          /\ q.bounty_id = reservations[r].bounty_id
          /\ q.challenger = reservations[r].challenger
    /\ reservations' = [reservations EXCEPT ![r] = q]
    /\ UNCHANGED <<config, bounties, attempts, reputation,
                   attempts_settled_by_ai_consensus, contested>>

\* A call of the owner.
OwnerStep ==
    /\ config' \in Config
    /\ UNCHANGED <<bounties, reservations, attempts, reputation,
                   attempts_settled_by_ai_consensus, contested>>

StepKinds ==
    \/ Tick
    \/ OwnerStep
    \/ \E r \in ReservationId, q \in AttemptReservation : ReservationStep(r, q)
    \/ \E b \in BountyId, y \in Bounty : BountyStep(b, y)
    \/ \E sender \in Account, b \in BountyId, r \in ReservationId, txHash \in TxHash :
         ConfirmAttemptFunding(sender, b, r, txHash)
    \/ \E b \in BountyId, i \in AttemptIndex, z \in Attempt : AttemptStep(b, i, z)
    \/ \E b \in BountyId, i \in AttemptIndex, z \in Attempt : WinStep(b, i, z)

-----------------------------------------------------------------------------
(* Reputation. *)

REPUTATION_FIELD ==
    {"bounties_created", "bounties_funded_total", "attempts_made", "attempts_won",
     "attempts_partial", "attempts_rejected", "attempts_disputed", "total_earned"}

LEMMA CreditType ==
    ASSUME NEW rep \in [Account -> Reputation], NEW x, NEW field \in REPUTATION_FIELD,
           NEW n \in Nat
    PROVE  Credit(rep, x, field, n) \in [Account -> Reputation]
<1>1. CASE x \in Account
  <2>1. [rep[x] EXCEPT ![field] = @ + n] \in Reputation
    <3>. DEFINE r == rep[x]
    <3>1. r \in Reputation
      BY <1>1
    <3>. HIDE DEF r
    <3>2. [r EXCEPT ![field] = @ + n] \in Reputation
      BY <3>1 DEF Reputation, REPUTATION_FIELD
    <3>. QED
      BY <3>2 DEF r
  <2>. QED
    BY <1>1, <2>1 DEF Credit
<1>2. CASE x \notin Account
  <2>1. Credit(rep, x, field, n) = rep
    BY <1>2 DEF Credit
  <2>. QED
    BY <2>1
<1>. QED
  BY <1>1, <1>2

LEMMA CreditValue ==
    ASSUME NEW rep \in [Account -> Reputation], NEW x, NEW field \in REPUTATION_FIELD,
           NEW n \in Nat, NEW y \in Account, NEW other \in REPUTATION_FIELD
    PROVE  Credit(rep, x, field, n)[y][other] =
              rep[y][other] + IF x = y /\ field = other THEN n ELSE 0
BY DEF Credit, Reputation, REPUTATION_FIELD

LEMMA NothingCounted ==
    ASSUME TypeOK, NEW a, NEW z, UNCHANGED reputation,
           z.status # "WON", z.rejection_counted = a.rejection_counted
    PROVE  Counted(a, z) /\ reputation' \in [Account -> Reputation]
BY DEF TypeOK, Counted, Reputation

LEMMA StrikeCounted ==
    ASSUME TypeOK, NEW a, NEW mid, NEW z,
           reputation' = Strike(reputation, mid), z.status # "WON", z.rejection_counted,
           mid.challenger = a.challenger, mid.rejection_counted = a.rejection_counted,
           a.rejection_counted \in BOOLEAN
    PROVE  Counted(a, z) /\ reputation' \in [Account -> Reputation]
<1>1. reputation \in [Account -> Reputation]
  BY DEF TypeOK
<1>2. CASE a.rejection_counted
  BY <1>1, <1>2 DEF Strike, Counted, Reputation
<1>3. CASE ~a.rejection_counted
  <2>1. reputation' = Credit(reputation, a.challenger, "attempts_rejected", 1)
    BY <1>3 DEF Strike
  <2>2. reputation' \in [Account -> Reputation]
    <3>1. Credit(reputation, a.challenger, "attempts_rejected", 1) \in [Account -> Reputation]
      BY <1>1, CreditType DEF REPUTATION_FIELD
    <3>. QED
      BY <2>1, <3>1
  <2>3. ASSUME NEW x \in Account
        PROVE  /\ reputation'[x].attempts_made = reputation[x].attempts_made
               /\ reputation'[x].attempts_won = reputation[x].attempts_won
               /\ reputation'[x].attempts_partial = reputation[x].attempts_partial
               /\ reputation'[x].attempts_rejected =
                    reputation[x].attempts_rejected + IF x = a.challenger THEN 1 ELSE 0
    BY <1>1, <2>1 DEF Credit, Reputation
  <2>. QED
    BY <1>1, <1>3, <2>2, <2>3 DEF Counted, Reputation
<1>. QED
  BY <1>2, <1>3

LEMMA WinCounted ==
    ASSUME TypeOK, NEW a, NEW z, NEW partial \in {0, 1}, NEW net \in Nat,
           reputation' = Credit(Credit(Credit(reputation, a.challenger, "attempts_won", 1),
                                       a.challenger, "attempts_partial", partial),
                                a.challenger, "total_earned", net),
           z.status = "WON", z.rejection_counted = a.rejection_counted,
           partial = 1 <=> z.last_payout_bps < BPS_DENOMINATOR
    PROVE  Counted(a, z) /\ reputation' \in [Account -> Reputation]
<1>. DEFINE first == Credit(reputation, a.challenger, "attempts_won", 1)
            second == Credit(first, a.challenger, "attempts_partial", partial)
<1>1. reputation \in [Account -> Reputation]
  BY DEF TypeOK
<1>2. first \in [Account -> Reputation]
  BY <1>1, CreditType DEF REPUTATION_FIELD
<1>3. second \in [Account -> Reputation]
  <2>. HIDE DEF first
  <2>. QED
    BY <1>2, CreditType DEF REPUTATION_FIELD
<1>4. reputation' = Credit(second, a.challenger, "total_earned", net)
  OBVIOUS
<1>5. reputation' \in [Account -> Reputation]
  <2>. HIDE DEF second
  <2>1. Credit(second, a.challenger, "total_earned", net) \in [Account -> Reputation]
    BY <1>3, CreditType DEF REPUTATION_FIELD
  <2>. QED
    BY <1>4, <2>1
<1>6. ASSUME NEW x \in Account
      PROVE  /\ reputation'[x].attempts_made = reputation[x].attempts_made
             /\ reputation'[x].attempts_won =
                  reputation[x].attempts_won + IF x = a.challenger THEN 1 ELSE 0
             /\ reputation'[x].attempts_partial =
                  reputation[x].attempts_partial + IF x = a.challenger THEN partial ELSE 0
             /\ reputation'[x].attempts_rejected = reputation[x].attempts_rejected
  <2>1. /\ first[x].attempts_made = reputation[x].attempts_made
        /\ first[x].attempts_won = reputation[x].attempts_won + IF x = a.challenger THEN 1 ELSE 0
        /\ first[x].attempts_partial = reputation[x].attempts_partial
        /\ first[x].attempts_rejected = reputation[x].attempts_rejected
    BY <1>1 DEF Credit, Reputation
  <2>. HIDE DEF first
  <2>2. /\ second[x].attempts_made = first[x].attempts_made
        /\ second[x].attempts_won = first[x].attempts_won
        /\ second[x].attempts_partial =
             first[x].attempts_partial + IF x = a.challenger THEN partial ELSE 0
        /\ second[x].attempts_rejected = first[x].attempts_rejected
    BY <1>2 DEF Credit, Reputation
  <2>. HIDE DEF second
  <2>3. /\ reputation'[x].attempts_made = second[x].attempts_made
        /\ reputation'[x].attempts_won = second[x].attempts_won
        /\ reputation'[x].attempts_partial = second[x].attempts_partial
        /\ reputation'[x].attempts_rejected = second[x].attempts_rejected
    BY <1>3, <1>4 DEF Credit, Reputation
  <2>. QED
    BY <2>1, <2>2, <2>3
<1>. QED
  BY <1>1, <1>5, <1>6 DEF Counted, Reputation

-----------------------------------------------------------------------------
(* Calls about one attempt. *)

LEMMA Records ==
    ASSUME TypeOK, Books, NEW b \in BountyId, NEW i \in AttemptIndex
    PROVE  /\ bounties[b] \in Bounty
           /\ attempts[b][i] \in Attempt
           /\ AttemptBooks(bounties[b].creator, attempts[b][i])
           /\ BountyBooks(bounties[b])
<1>1. bounties[b] \in Bounty /\ attempts[b][i] \in Attempt
  BY DEF TypeOK
<1>2. BooksOf(bounties[b], attempts[b], contested[b])
  BY DEF Books
<1>. QED
  BY <1>1, <1>2 DEF BooksOf

\* A finding names a verdict and the share it can be executed with.
LEMMA FindingFields ==
    ASSUME NEW finding \in Finding
    PROVE  /\ finding.verdict \in VALID_VERDICTS
           /\ EffectiveBps(finding) \in 0 .. BPS_DENOMINATOR - 1
           /\ finding.verdict = "PARTIAL" <=> EffectiveBps(finding) # 0
           /\ EffectiveBps(finding) = finding.payout_bps
<1>1. PICK verdict \in ReviewVerdict, bps \in ReviewBps : finding = Reviewed(verdict, bps)
  BY DEF Finding
<1>2. bps \in Nat \cup {Malformed}
  BY TermsAssumption
<1>. QED
  BY <1>1, <1>2, ReviewShares DEF EffectiveBps

LEMMA RevisedType ==
    ASSUME NEW a \in Attempt, NEW verdict \in VALID_VERDICTS
    PROVE  [a EXCEPT !.last_verdict = verdict, !.revision_count = @ + 1] \in Attempt
<1>. DEFINE n == a.revision_count + 1
<1>1. a.revision_count \in Nat
  BY DEF Attempt
<1>2. n \in Nat
  BY <1>1
<1>3. [a EXCEPT !.last_verdict = verdict, !.revision_count = @ + 1] =
        [a EXCEPT !.last_verdict = verdict, !.revision_count = n]
  BY DEF Attempt
<1>. HIDE DEF n
<1>4. [a EXCEPT !.last_verdict = verdict, !.revision_count = n] \in Attempt
  BY <1>2 DEF Attempt
<1>. QED
  BY <1>3, <1>4

\* What a call about an attempt leaves as it was.
SameDeal(a, z) ==
    /\ z.challenger = a.challenger
    /\ z.bond_amount = a.bond_amount
    /\ z.appeal_bond_recipient = a.appeal_bond_recipient

SameRuling(a, z) ==
    /\ z.pending_arbiter_verdict = a.pending_arbiter_verdict
    /\ z.pending_payout_bps = a.pending_payout_bps

\* All that is left to show of a call that awards nothing and counts nothing.
LEMMA QuietStep ==
    ASSUME TypeOK, NEW b \in BountyId, NEW i \in AttemptIndex, NEW z,
           Succeeds(bounties[b].creator, attempts[b][i], z),
           z.status # "WON", z.rejection_counted = attempts[b][i].rejection_counted,
           attempts' = [attempts EXCEPT ![b][i] = z],
           z.status \in DISPUTE_IN_PROGRESS_STATES =>
              attempts[b][i].status \in DISPUTE_IN_PROGRESS_STATES,
           attempts_settled_by_ai_consensus' \in Nat,
           UNCHANGED <<config, bounties, reservations, contested, reputation>>
    PROVE  \E y \in Attempt : AttemptStep(b, i, y)
<1>1. Counted(attempts[b][i], z) /\ reputation' \in [Account -> Reputation]
  BY NothingCounted
<1>2. z \in Attempt
  BY DEF Succeeds
<1>3. AttemptStep(b, i, z)
  BY <1>1 DEF AttemptStep, CountersTyped
<1>. QED
  BY <1>2, <1>3

\* The same of a call that rejects.
LEMMA StrikeStep ==
    ASSUME TypeOK, NEW b \in BountyId, NEW i \in AttemptIndex, NEW mid, NEW z,
           Succeeds(bounties[b].creator, attempts[b][i], z),
           z.status # "WON", z.rejection_counted,
           attempts[b][i].rejection_counted \in BOOLEAN,
           mid.challenger = attempts[b][i].challenger,
           mid.rejection_counted = attempts[b][i].rejection_counted,
           reputation' = Strike(reputation, mid),
           attempts' = [attempts EXCEPT ![b][i] = z],
           z.status \in DISPUTE_IN_PROGRESS_STATES =>
              attempts[b][i].status \in DISPUTE_IN_PROGRESS_STATES,
           attempts_settled_by_ai_consensus' \in Nat,
           UNCHANGED <<config, bounties, reservations, contested>>
    PROVE  \E y \in Attempt : AttemptStep(b, i, y)
<1>1. Counted(attempts[b][i], z) /\ reputation' \in [Account -> Reputation]
  BY StrikeCounted
<1>2. z \in Attempt
  BY DEF Succeeds
<1>3. AttemptStep(b, i, z)
  BY <1>1 DEF AttemptStep, CountersTyped
<1>. QED
  BY <1>2, <1>3

\* An attempt that goes on, outside of an appeal.
LEMMA GoesOn ==
    ASSUME NEW creator, NEW a \in Attempt, NEW z \in Attempt, AttemptBooks(creator, a),
           a.status \notin TERMINAL_STATES \cup {"NONE"},
           z.status \notin TERMINAL_STATES \cup {"NONE"} \cup APPEAL_STATES,
           z.status \in LIVE_STATES => a.status \in LIVE_STATES,
           z.status = "REJECTED_FINAL" => z.rejection_counted,
           a.rejection_counted => z.rejection_counted,
           z.pending_arbiter_verdict = "PARTIAL" => z.pending_payout_bps < BPS_DENOMINATOR,
           z.challenger = a.challenger, z.bond_amount = a.bond_amount,
           z.bond_deposited = a.bond_deposited,
           z.appeal_bond_recipient = a.appeal_bond_recipient
    PROVE  Succeeds(creator, a, z)
<1>1. a.bond_deposited = a.bond_amount /\ a.appeal_bond_recipient = NoOne
  BY DEF AttemptBooks, LedgerBalanced, TERMINAL_STATES
<1>2. LedgerBalanced(z)
  BY <1>1 DEF LedgerBalanced, TERMINAL_STATES
<1>3. AttemptBooks(creator, z)
  BY <1>1, <1>2 DEF AttemptBooks, APPEAL_STATES, TERMINAL_STATES
<1>. QED
  BY <1>3 DEF Succeeds, TERMINAL_STATES

\* An attempt that ends without an award, and without an appeal having been heard.
LEMMA EndsUnheard ==
    ASSUME NEW creator, NEW a \in Attempt, NEW z \in Attempt, AttemptBooks(creator, a),
           a.status \notin TERMINAL_STATES \cup {"NONE", "APPEALED"},
           z.status \in TERMINAL_STATES,
           z.status = "BOND_FORFEITED" => z.rejection_counted,
           a.rejection_counted => z.rejection_counted,
           z.pending_arbiter_verdict = "PARTIAL" => z.pending_payout_bps < BPS_DENOMINATOR,
           z.challenger = a.challenger, z.bond_deposited = 0,
           z.appeal_bond_recipient = a.appeal_bond_recipient
    PROVE  Succeeds(creator, a, z)
<1>1. a.appeal_bond_recipient = NoOne
  BY DEF AttemptBooks
<1>2. LedgerBalanced(z)
  BY DEF LedgerBalanced
<1>3. AttemptBooks(creator, z)
  BY <1>1, <1>2 DEF AttemptBooks, APPEAL_STATES, TERMINAL_STATES
<1>. QED
  BY <1>3 DEF Succeeds, TERMINAL_STATES, LIVE_STATES

LEMMA SubmitEvidenceStep ==
    ASSUME TypeOK, Books, NEW b \in BountyId, NEW i \in AttemptIndex, NEW sender,
           SubmitEvidence(sender, b, i)
    PROVE  \E z \in Attempt : AttemptStep(b, i, z)
<1>. DEFINE a == attempts[b][i]
            creator == bounties[b].creator
            z == [a EXCEPT !.status = "SUBMITTED"]
<1>1. /\ a \in Attempt /\ AttemptBooks(creator, a)
      /\ a.status \in {"ACCEPTED", "NEEDS_REVISION"}
      /\ attempts' = [attempts EXCEPT ![b][i] = z]
      /\ attempts_settled_by_ai_consensus' \in Nat
      /\ UNCHANGED <<config, bounties, reservations, contested, reputation>>
  BY Records DEF SubmitEvidence, TypeOK
<1>2. /\ Succeeds(creator, a, z)
      /\ z.status # "WON"
      /\ z.status \in DISPUTE_IN_PROGRESS_STATES => a.status \in DISPUTE_IN_PROGRESS_STATES
      /\ z.rejection_counted = a.rejection_counted
  <2>. HIDE DEF a, creator
  <2>1. z \in Attempt
    BY <1>1 DEF Attempt, TERMINAL_STATES, LIVE_STATES, DISPUTE_IN_PROGRESS_STATES,
         ATTEMPT_STATUS
  <2>2. /\ z.status = "SUBMITTED"
        /\ SameDeal(a, z)
        /\ SameRuling(a, z)
        /\ z.bond_deposited = a.bond_deposited
        /\ z.rejection_counted = a.rejection_counted
    BY <1>1 DEF Attempt, SameDeal, SameRuling
  <2>3. a.pending_arbiter_verdict = "PARTIAL" => a.pending_payout_bps < BPS_DENOMINATOR
    BY <1>1 DEF AttemptBooks
  <2>4. a.rejection_counted \in BOOLEAN
    BY <1>1 DEF Attempt
  <2>. HIDE DEF z
  <2>. QED
    BY <1>1, <2>1, <2>2, <2>3, <2>4, GoesOn
       DEF SameDeal, SameRuling, LIVE_STATES, TERMINAL_STATES, DISPUTE_IN_PROGRESS_STATES,
           APPEAL_STATES
<1>. HIDE DEF z
<1>. QED
  BY <1>1, <1>2, QuietStep

LEMMA VerifyLostRaceStep ==
    ASSUME TypeOK, Books, NEW b \in BountyId, NEW i \in AttemptIndex, NEW finding \in Finding,
           attempts[b][i].status = "SUBMITTED", VerifyLostRace(b, i, finding),
           UNCHANGED <<config, reservations, contested>>
    PROVE  \E z \in Attempt : AttemptStep(b, i, z)
<1>. DEFINE a == attempts[b][i]
            creator == bounties[b].creator
            z == Refunded([a EXCEPT !.last_verdict = finding.verdict], "LOST_RACE")
<1>1. /\ a \in Attempt /\ AttemptBooks(creator, a)
      /\ a.status = "SUBMITTED" /\ finding.verdict \in VALID_VERDICTS
      /\ attempts' = [attempts EXCEPT ![b][i] = z]
      /\ attempts_settled_by_ai_consensus' \in Nat
      /\ UNCHANGED <<config, bounties, reservations, contested, reputation>>
  BY Records, FindingFields DEF VerifyLostRace, Judged, RecordProvenance, TypeOK
<1>2. /\ Succeeds(creator, a, z)
      /\ z.status # "WON"
      /\ z.status \in DISPUTE_IN_PROGRESS_STATES => a.status \in DISPUTE_IN_PROGRESS_STATES
      /\ z.rejection_counted = a.rejection_counted
  <2>. HIDE DEF a, creator
  <2>1. z \in Attempt
    BY <1>1 DEF Attempt, TERMINAL_STATES, LIVE_STATES, DISPUTE_IN_PROGRESS_STATES,
         ATTEMPT_STATUS, Refunded
  <2>2. /\ z.status = "LOST_RACE"
        /\ SameDeal(a, z)
        /\ SameRuling(a, z)
        /\ z.bond_deposited = 0
        /\ z.rejection_counted = a.rejection_counted
    BY <1>1 DEF Attempt, SameDeal, SameRuling, Refunded
  <2>3. a.pending_arbiter_verdict = "PARTIAL" => a.pending_payout_bps < BPS_DENOMINATOR
    BY <1>1 DEF AttemptBooks
  <2>4. a.rejection_counted \in BOOLEAN
    BY <1>1 DEF Attempt
  <2>. HIDE DEF z
  <2>. QED
    BY <1>1, <2>1, <2>2, <2>3, <2>4, EndsUnheard
       DEF SameDeal, SameRuling, LIVE_STATES, TERMINAL_STATES, DISPUTE_IN_PROGRESS_STATES,
           APPEAL_STATES
<1>. HIDE DEF z
<1>. QED
  BY <1>1, <1>2, QuietStep

LEMMA VerifyResubmitStep ==
    ASSUME TypeOK, Books, NEW b \in BountyId, NEW i \in AttemptIndex, NEW finding \in Finding,
           attempts[b][i].status = "SUBMITTED", VerifyResubmit(b, i, finding),
           UNCHANGED <<config, reservations, contested>>
    PROVE  \E z \in Attempt : AttemptStep(b, i, z)
<1>. DEFINE a == attempts[b][i]
            creator == bounties[b].creator
            z == [[a EXCEPT !.last_verdict = finding.verdict, !.revision_count = @ + 1] EXCEPT !.status = "ACCEPTED"]
<1>1. /\ a \in Attempt /\ AttemptBooks(creator, a)
      /\ a.status = "SUBMITTED" /\ finding.verdict \in VALID_VERDICTS
      /\ attempts' = [attempts EXCEPT ![b][i] = z]
      /\ attempts_settled_by_ai_consensus' \in Nat
      /\ UNCHANGED <<config, bounties, reservations, contested, reputation>>
  BY Records, FindingFields DEF VerifyResubmit, Revised, TypeOK
<1>2. /\ Succeeds(creator, a, z)
      /\ z.status # "WON"
      /\ z.status \in DISPUTE_IN_PROGRESS_STATES => a.status \in DISPUTE_IN_PROGRESS_STATES
      /\ z.rejection_counted = a.rejection_counted
  <2>. HIDE DEF a, creator
  <2>1. [a EXCEPT !.last_verdict = finding.verdict, !.revision_count = @ + 1] \in Attempt
    BY <1>1, RevisedType
  <2>2. z \in Attempt
    BY <1>1, <2>1 DEF Attempt, TERMINAL_STATES, LIVE_STATES, DISPUTE_IN_PROGRESS_STATES,
         ATTEMPT_STATUS
  <2>3. /\ z.status = "ACCEPTED"
        /\ SameDeal(a, z)
        /\ SameRuling(a, z)
        /\ z.bond_deposited = a.bond_deposited
        /\ z.rejection_counted = a.rejection_counted
    BY <1>1 DEF Attempt, SameDeal, SameRuling
  <2>4. a.pending_arbiter_verdict = "PARTIAL" => a.pending_payout_bps < BPS_DENOMINATOR
    BY <1>1 DEF AttemptBooks
  <2>5. a.rejection_counted \in BOOLEAN
    BY <1>1 DEF Attempt
  <2>. HIDE DEF z
  <2>. QED
    BY <1>1, <2>1, <2>2, <2>3, <2>4, <2>5, GoesOn
       DEF SameDeal, SameRuling, LIVE_STATES, TERMINAL_STATES, DISPUTE_IN_PROGRESS_STATES,
           APPEAL_STATES
<1>. HIDE DEF z
<1>. QED
  BY <1>1, <1>2, QuietStep

LEMMA VerifyInsufficientStep ==
    ASSUME TypeOK, Books, NEW b \in BountyId, NEW i \in AttemptIndex, NEW finding \in Finding,
           attempts[b][i].status = "SUBMITTED", VerifyInsufficient(b, i, finding),
           UNCHANGED <<config, reservations, contested>>
    PROVE  \E z \in Attempt : AttemptStep(b, i, z)
<1>. DEFINE a == attempts[b][i]
            creator == bounties[b].creator
            z == Refunded([a EXCEPT !.last_verdict = finding.verdict, !.revision_count = @ + 1],
                          "INSUFFICIENT_EVIDENCE_FINAL")
<1>1. /\ a \in Attempt /\ AttemptBooks(creator, a)
      /\ a.status = "SUBMITTED" /\ finding.verdict \in VALID_VERDICTS
      /\ attempts' = [attempts EXCEPT ![b][i] = z]
      /\ attempts_settled_by_ai_consensus' \in Nat
      /\ UNCHANGED <<config, bounties, reservations, contested, reputation>>
  BY Records, FindingFields DEF VerifyInsufficient, Revised, RecordProvenance, TypeOK
<1>2. /\ Succeeds(creator, a, z)
      /\ z.status # "WON"
      /\ z.status \in DISPUTE_IN_PROGRESS_STATES => a.status \in DISPUTE_IN_PROGRESS_STATES
      /\ z.rejection_counted = a.rejection_counted
  <2>. HIDE DEF a, creator
  <2>1. [a EXCEPT !.last_verdict = finding.verdict, !.revision_count = @ + 1] \in Attempt
    BY <1>1, RevisedType
  <2>2. z \in Attempt
    BY <1>1, <2>1 DEF Attempt, TERMINAL_STATES, LIVE_STATES, DISPUTE_IN_PROGRESS_STATES,
         ATTEMPT_STATUS, Refunded
  <2>3. /\ z.status = "INSUFFICIENT_EVIDENCE_FINAL"
        /\ SameDeal(a, z)
        /\ SameRuling(a, z)
        /\ z.bond_deposited = 0
        /\ z.rejection_counted = a.rejection_counted
    BY <1>1 DEF Attempt, SameDeal, SameRuling, Refunded
  <2>4. a.pending_arbiter_verdict = "PARTIAL" => a.pending_payout_bps < BPS_DENOMINATOR
    BY <1>1 DEF AttemptBooks
  <2>5. a.rejection_counted \in BOOLEAN
    BY <1>1 DEF Attempt
  <2>. HIDE DEF z
  <2>. QED
    BY <1>1, <2>1, <2>2, <2>3, <2>4, <2>5, EndsUnheard
       DEF SameDeal, SameRuling, LIVE_STATES, TERMINAL_STATES, DISPUTE_IN_PROGRESS_STATES,
           APPEAL_STATES
<1>. HIDE DEF z
<1>. QED
  BY <1>1, <1>2, QuietStep

LEMMA VerifyRevisionsExhaustedStep ==
    ASSUME TypeOK, Books, NEW b \in BountyId, NEW i \in AttemptIndex, NEW finding \in Finding,
           attempts[b][i].status = "SUBMITTED", VerifyRevisionsExhausted(b, i, finding),
           UNCHANGED <<config, reservations, contested>>
    PROVE  \E z \in Attempt : AttemptStep(b, i, z)
<1>. DEFINE a == attempts[b][i]
            creator == bounties[b].creator
            mid == [a EXCEPT !.last_verdict = finding.verdict, !.revision_count = @ + 1]
            z == [mid EXCEPT !.status = "REJECTED_FINAL", !.rejection_counted = TRUE]
<1>1. /\ a \in Attempt /\ AttemptBooks(creator, a)
      /\ a.status = "SUBMITTED" /\ finding.verdict \in VALID_VERDICTS
      /\ attempts' = [attempts EXCEPT ![b][i] = z]
      /\ attempts_settled_by_ai_consensus' \in Nat
      /\ UNCHANGED <<config, bounties, reservations, contested>>
      /\ reputation' = Strike(reputation, mid)
  BY Records, FindingFields DEF VerifyRevisionsExhausted, Revised, RecordProvenance, TypeOK
<1>2. /\ Succeeds(creator, a, z)
      /\ z.status # "WON"
      /\ z.status \in DISPUTE_IN_PROGRESS_STATES => a.status \in DISPUTE_IN_PROGRESS_STATES
      /\ z.rejection_counted /\ a.rejection_counted \in BOOLEAN
      /\ mid.challenger = a.challenger /\ mid.rejection_counted = a.rejection_counted
  <2>. HIDE DEF a, creator
  <2>1. /\ mid \in Attempt
        /\ mid.challenger = a.challenger
        /\ mid.rejection_counted = a.rejection_counted
    BY <1>1, RevisedType DEF Attempt
  <2>2. z \in Attempt
    BY <1>1, <2>1 DEF Attempt, TERMINAL_STATES, LIVE_STATES, DISPUTE_IN_PROGRESS_STATES,
         ATTEMPT_STATUS
  <2>3. /\ z.status = "REJECTED_FINAL"
        /\ SameDeal(a, z)
        /\ SameRuling(a, z)
        /\ z.bond_deposited = a.bond_deposited
        /\ z.rejection_counted
    BY <1>1 DEF Attempt, SameDeal, SameRuling
  <2>4. a.pending_arbiter_verdict = "PARTIAL" => a.pending_payout_bps < BPS_DENOMINATOR
    BY <1>1 DEF AttemptBooks
  <2>5. a.rejection_counted \in BOOLEAN
    BY <1>1 DEF Attempt
  <2>. HIDE DEF z, mid
  <2>. QED
    BY <1>1, <2>1, <2>2, <2>3, <2>4, <2>5, GoesOn
       DEF SameDeal, SameRuling, LIVE_STATES, TERMINAL_STATES, DISPUTE_IN_PROGRESS_STATES,
           APPEAL_STATES
<1>. HIDE DEF z, mid
<1>. QED
  BY <1>1, <1>2, StrikeStep

LEMMA VerifyRejectStep ==
    ASSUME TypeOK, Books, NEW b \in BountyId, NEW i \in AttemptIndex, NEW finding \in Finding,
           attempts[b][i].status = "SUBMITTED", VerifyReject(b, i, finding),
           UNCHANGED <<config, reservations, contested>>
    PROVE  \E z \in Attempt : AttemptStep(b, i, z)
<1>. DEFINE a == attempts[b][i]
            creator == bounties[b].creator
            mid == [a EXCEPT !.last_verdict = finding.verdict]
            z == [mid EXCEPT !.status = "REJECTED_FINAL", !.rejection_counted = TRUE]
<1>1. /\ a \in Attempt /\ AttemptBooks(creator, a)
      /\ a.status = "SUBMITTED" /\ finding.verdict \in VALID_VERDICTS
      /\ attempts' = [attempts EXCEPT ![b][i] = z]
      /\ attempts_settled_by_ai_consensus' \in Nat
      /\ UNCHANGED <<config, bounties, reservations, contested>>
      /\ reputation' = Strike(reputation, mid)
  BY Records, FindingFields DEF VerifyReject, Judged, RecordProvenance, TypeOK
<1>2. /\ Succeeds(creator, a, z)
      /\ z.status # "WON"
      /\ z.status \in DISPUTE_IN_PROGRESS_STATES => a.status \in DISPUTE_IN_PROGRESS_STATES
      /\ z.rejection_counted /\ a.rejection_counted \in BOOLEAN
      /\ mid.challenger = a.challenger /\ mid.rejection_counted = a.rejection_counted
  <2>. HIDE DEF a, creator
  <2>1. /\ mid \in Attempt
        /\ mid.challenger = a.challenger
        /\ mid.rejection_counted = a.rejection_counted
    BY <1>1 DEF Attempt
  <2>2. z \in Attempt
    BY <1>1, <2>1 DEF Attempt, TERMINAL_STATES, LIVE_STATES, DISPUTE_IN_PROGRESS_STATES,
         ATTEMPT_STATUS
  <2>3. /\ z.status = "REJECTED_FINAL"
        /\ SameDeal(a, z)
        /\ SameRuling(a, z)
        /\ z.bond_deposited = a.bond_deposited
        /\ z.rejection_counted
    BY <1>1 DEF Attempt, SameDeal, SameRuling
  <2>4. a.pending_arbiter_verdict = "PARTIAL" => a.pending_payout_bps < BPS_DENOMINATOR
    BY <1>1 DEF AttemptBooks
  <2>5. a.rejection_counted \in BOOLEAN
    BY <1>1 DEF Attempt
  <2>. HIDE DEF z, mid
  <2>. QED
    BY <1>1, <2>1, <2>2, <2>3, <2>4, <2>5, GoesOn
       DEF SameDeal, SameRuling, LIVE_STATES, TERMINAL_STATES, DISPUTE_IN_PROGRESS_STATES,
           APPEAL_STATES
<1>. HIDE DEF z, mid
<1>. QED
  BY <1>1, <1>2, StrikeStep

LEMMA ClaimBondForfeitureStep ==
    ASSUME TypeOK, Books, NEW b \in BountyId, NEW i \in AttemptIndex, NEW sender,
           ClaimBondForfeiture(sender, b, i)
    PROVE  \E z \in Attempt : AttemptStep(b, i, z)
<1>. DEFINE a == attempts[b][i]
            creator == bounties[b].creator
            z == Forfeited(a, FALSE)
<1>1. /\ a \in Attempt /\ AttemptBooks(creator, a)
      /\ a.status = "REJECTED_FINAL"
      /\ attempts' = [attempts EXCEPT ![b][i] = z]
      /\ attempts_settled_by_ai_consensus' \in Nat
      /\ UNCHANGED <<config, bounties, reservations, contested>>
      /\ reputation' = Strike(reputation, a)
  BY Records DEF ClaimBondForfeiture, RecordProvenance, TypeOK
<1>2. /\ Succeeds(creator, a, z)
      /\ z.status # "WON"
      /\ z.status \in DISPUTE_IN_PROGRESS_STATES => a.status \in DISPUTE_IN_PROGRESS_STATES
      /\ z.rejection_counted /\ a.rejection_counted \in BOOLEAN
  <2>. HIDE DEF a, creator
  <2>1. z \in Attempt
    BY <1>1 DEF Attempt, TERMINAL_STATES, LIVE_STATES, DISPUTE_IN_PROGRESS_STATES,
         ATTEMPT_STATUS, Forfeited
  <2>2. /\ z.status = "BOND_FORFEITED"
        /\ SameDeal(a, z)
        /\ SameRuling(a, z)
        /\ z.bond_deposited = 0
        /\ z.rejection_counted
    BY <1>1 DEF Attempt, SameDeal, SameRuling, Forfeited
  <2>3. a.pending_arbiter_verdict = "PARTIAL" => a.pending_payout_bps < BPS_DENOMINATOR
    BY <1>1 DEF AttemptBooks
  <2>4. a.rejection_counted \in BOOLEAN
    BY <1>1 DEF Attempt
  <2>. HIDE DEF z
  <2>. QED
    BY <1>1, <2>1, <2>2, <2>3, <2>4, EndsUnheard
       DEF SameDeal, SameRuling, LIVE_STATES, TERMINAL_STATES, DISPUTE_IN_PROGRESS_STATES,
           APPEAL_STATES
<1>. HIDE DEF z
<1>. QED
  BY <1>1, <1>2, StrikeStep

LEMMA ForceDefaultResolutionStep ==
    ASSUME TypeOK, Books, NEW b \in BountyId, NEW i \in AttemptIndex, NEW sender,
           ForceDefaultResolution(sender, b, i)
    PROVE  \E z \in Attempt : AttemptStep(b, i, z)
<1>. DEFINE a == attempts[b][i]
            creator == bounties[b].creator
            z == Refunded(a, "CANCELLED")
<1>1. /\ a \in Attempt /\ AttemptBooks(creator, a)
      /\ a.status = "DISPUTED"
      /\ attempts' = [attempts EXCEPT ![b][i] = z]
      /\ attempts_settled_by_ai_consensus' \in Nat
      /\ UNCHANGED <<config, bounties, reservations, contested, reputation>>
  BY Records DEF ForceDefaultResolution, TypeOK
<1>2. /\ Succeeds(creator, a, z)
      /\ z.status # "WON"
      /\ z.status \in DISPUTE_IN_PROGRESS_STATES => a.status \in DISPUTE_IN_PROGRESS_STATES
      /\ z.rejection_counted = a.rejection_counted
  <2>. HIDE DEF a, creator
  <2>1. z \in Attempt
    BY <1>1 DEF Attempt, TERMINAL_STATES, LIVE_STATES, DISPUTE_IN_PROGRESS_STATES,
         ATTEMPT_STATUS, Refunded
  <2>2. /\ z.status = "CANCELLED"
        /\ SameDeal(a, z)
        /\ SameRuling(a, z)
        /\ z.bond_deposited = 0
        /\ z.rejection_counted = a.rejection_counted
    BY <1>1 DEF Attempt, SameDeal, SameRuling, Refunded
  <2>3. a.pending_arbiter_verdict = "PARTIAL" => a.pending_payout_bps < BPS_DENOMINATOR
    BY <1>1 DEF AttemptBooks
  <2>4. a.rejection_counted \in BOOLEAN
    BY <1>1 DEF Attempt
  <2>. HIDE DEF z
  <2>. QED
    BY <1>1, <2>1, <2>2, <2>3, <2>4, EndsUnheard
       DEF SameDeal, SameRuling, LIVE_STATES, TERMINAL_STATES, DISPUTE_IN_PROGRESS_STATES,
           APPEAL_STATES
<1>. HIDE DEF z
<1>. QED
  BY <1>1, <1>2, QuietStep

LEMMA ExpireAppealFundingStep ==
    ASSUME TypeOK, Books, NEW b \in BountyId, NEW i \in AttemptIndex,
           ExpireAppealFunding(b, i)
    PROVE  \E z \in Attempt : AttemptStep(b, i, z)
<1>. DEFINE a == attempts[b][i]
            creator == bounties[b].creator
            z == [a EXCEPT !.status = "ARBITER_RESOLVED_PENDING_APPEAL", !.appeal_bond_deposited = 0]
<1>1. /\ a \in Attempt /\ AttemptBooks(creator, a)
      /\ a.status \in {"APPEAL_PENDING_FUNDING", "APPEAL_FUNDED_PENDING_BINDING"}
      /\ attempts' = [attempts EXCEPT ![b][i] = z]
      /\ attempts_settled_by_ai_consensus' \in Nat
      /\ UNCHANGED <<config, bounties, reservations, contested, reputation>>
  BY Records DEF ExpireAppealFunding, AppealFundingLapsed, TypeOK
<1>2. /\ Succeeds(creator, a, z)
      /\ z.status # "WON"
      /\ z.status \in DISPUTE_IN_PROGRESS_STATES => a.status \in DISPUTE_IN_PROGRESS_STATES
      /\ z.rejection_counted = a.rejection_counted
  <2>. HIDE DEF a, creator
  <2>1. z \in Attempt
    BY <1>1 DEF Attempt, TERMINAL_STATES, LIVE_STATES, DISPUTE_IN_PROGRESS_STATES,
         ATTEMPT_STATUS
  <2>2. /\ z.status = "ARBITER_RESOLVED_PENDING_APPEAL"
        /\ SameDeal(a, z)
        /\ SameRuling(a, z)
        /\ z.bond_deposited = a.bond_deposited
        /\ z.rejection_counted = a.rejection_counted
    BY <1>1 DEF Attempt, SameDeal, SameRuling
  <2>3. a.pending_arbiter_verdict = "PARTIAL" => a.pending_payout_bps < BPS_DENOMINATOR
    BY <1>1 DEF AttemptBooks
  <2>4. a.rejection_counted \in BOOLEAN
    BY <1>1 DEF Attempt
  <2>. HIDE DEF z
  <2>. QED
    BY <1>1, <2>1, <2>2, <2>3, <2>4, GoesOn
       DEF SameDeal, SameRuling, LIVE_STATES, TERMINAL_STATES, DISPUTE_IN_PROGRESS_STATES,
           APPEAL_STATES
<1>. HIDE DEF z
<1>. QED
  BY <1>1, <1>2, QuietStep

LEMMA ReclaimBondAfterSettlementStep ==
    ASSUME TypeOK, Books, NEW b \in BountyId, NEW i \in AttemptIndex, NEW sender,
           ReclaimBondAfterSettlement(sender, b, i)
    PROVE  \E z \in Attempt : AttemptStep(b, i, z)
<1>. DEFINE a == attempts[b][i]
            creator == bounties[b].creator
            z == [a EXCEPT !.bond_deposited = 0]
<1>1. /\ a \in Attempt /\ AttemptBooks(creator, a)
      /\ a.status = "LOST_RACE"
      /\ attempts' = [attempts EXCEPT ![b][i] = z]
      /\ attempts_settled_by_ai_consensus' \in Nat
      /\ UNCHANGED <<config, bounties, reservations, contested, reputation>>
  BY Records DEF ReclaimBondAfterSettlement, TypeOK
<1>2. /\ Succeeds(creator, a, z)
      /\ z.status \notin DISPUTE_IN_PROGRESS_STATES \cup {"WON"}
      /\ z.rejection_counted = a.rejection_counted
  <2>. HIDE DEF a, creator
  <2>1. z \in Attempt /\ z.bond_deposited = 0 /\ z.status = a.status
    BY <1>1 DEF Attempt
  <2>2. LedgerBalanced(z)
    BY <1>1, <2>1 DEF LedgerBalanced
  <2>3. AttemptBooks(creator, z)
    BY <1>1, <2>2 DEF Attempt, AttemptBooks, AppealPaid
  <2>4. z.challenger = a.challenger /\ z.rejection_counted = a.rejection_counted
    BY <1>1 DEF Attempt
  <2>5. z = [a EXCEPT !.bond_deposited = z.bond_deposited]
    BY <2>1
  <2>. HIDE DEF z
  <2>. QED
    BY <1>1, <2>1, <2>3, <2>4, <2>5
       DEF Succeeds, LIVE_STATES, TERMINAL_STATES, DISPUTE_IN_PROGRESS_STATES
<1>. HIDE DEF z
<1>. QED
  BY <1>1, <1>2, QuietStep

\* The dispute of an attempt of an open bounty is remembered as contested.
LEMMA RaiseDisputeStep ==
    ASSUME TypeOK, Books, NEW b \in BountyId, NEW i \in AttemptIndex, NEW sender,
           RaiseDispute(sender, b, i)
    PROVE  \E z \in Attempt : AttemptStep(b, i, z)
<1>. DEFINE a == attempts[b][i]
            creator == bounties[b].creator
            z == [a EXCEPT !.status = "DISPUTED"]
<1>1. /\ a \in Attempt /\ AttemptBooks(creator, a)
      /\ a.status \in LIVE_STATES
      /\ attempts' = [attempts EXCEPT ![b][i] = z]
      /\ attempts_settled_by_ai_consensus' \in Nat
      /\ reputation \in [Account -> Reputation]
      /\ reputation' = Credit(reputation, sender, "attempts_disputed", 1)
      /\ contested' = [contested EXCEPT ![b] = IF IsOpen(b) THEN @ \cup {i} ELSE @]
      /\ UNCHANGED <<config, bounties, reservations>>
  BY Records DEF RaiseDispute, Disputable, TypeOK
<1>2. /\ Succeeds(creator, a, z)
      /\ z.status = "DISPUTED"
      /\ z.rejection_counted = a.rejection_counted
  <2>. HIDE DEF a, creator
  <2>1. z \in Attempt
    BY <1>1 DEF Attempt, DISPUTE_IN_PROGRESS_STATES, ATTEMPT_STATUS
  <2>2. /\ z.status = "DISPUTED"
        /\ SameDeal(a, z)
        /\ SameRuling(a, z)
        /\ z.bond_deposited = a.bond_deposited
        /\ z.rejection_counted = a.rejection_counted
    BY <1>1 DEF Attempt, SameDeal, SameRuling
  <2>3. a.pending_arbiter_verdict = "PARTIAL" => a.pending_payout_bps < BPS_DENOMINATOR
    BY <1>1 DEF AttemptBooks
  <2>4. a.rejection_counted \in BOOLEAN
    BY <1>1 DEF Attempt
  <2>. HIDE DEF z
  <2>. QED
    BY <1>1, <2>1, <2>2, <2>3, <2>4, GoesOn
       DEF SameDeal, SameRuling, LIVE_STATES, TERMINAL_STATES, APPEAL_STATES
<1>. HIDE DEF z
<1>3. reputation' \in [Account -> Reputation]
  <2>1. Credit(reputation, sender, "attempts_disputed", 1) \in [Account -> Reputation]
    BY <1>1, CreditType DEF REPUTATION_FIELD
  <2>. QED
    BY <1>1, <2>1
<1>4. Counted(a, z)
  <2>1. ASSUME NEW x \in Account
        PROVE  /\ reputation'[x].attempts_made = reputation[x].attempts_made
               /\ reputation'[x].attempts_won = reputation[x].attempts_won
               /\ reputation'[x].attempts_partial = reputation[x].attempts_partial
               /\ reputation'[x].attempts_rejected = reputation[x].attempts_rejected
    BY <1>1 DEF Credit, Reputation
  <2>. QED
    BY <1>1, <1>2, <1>3, <2>1 DEF Counted, Reputation
<1>5. AttemptStep(b, i, z)
  BY <1>1, <1>2, <1>3, <1>4 DEF AttemptStep, CountersTyped, DISPUTE_IN_PROGRESS_STATES
<1>6. z \in Attempt
  BY <1>2 DEF Succeeds
<1>. QED
  BY <1>5, <1>6

\* A ruling names a verdict and a share strictly below the whole.
LEMMA RulingShares ==
    ASSUME NEW verdict \in Ruling, NEW bps \in ReviewBps \ {Malformed}
    PROVE  /\ verdict \in ARBITER_VERDICTS
           /\ RulingBps(verdict, bps) \in 0 .. BPS_DENOMINATOR - 1
<1>1. verdict \in ARBITER_VERDICTS /\ bps \in Nat
  BY TermsAssumption
<1>2. Bucket(bps) \in Grid
  BY <1>1, BucketNearest
<1>3. Bucket(bps) \in Nat /\ Bucket(bps) < BPS_DENOMINATOR
  BY <1>2, SharesOfGrid
<1>. QED
  BY <1>1, <1>3, BucketAssumption DEF RulingBps

LEMMA RuledType ==
    ASSUME NEW a \in Attempt, NEW flag \in BOOLEAN, NEW verdict \in ARBITER_VERDICTS,
           NEW share \in 0 .. BPS_DENOMINATOR, NEW deadline \in Int
    PROVE  [a EXCEPT !.human_verdict_overrode_ai = flag,
                     !.status = "ARBITER_RESOLVED_PENDING_APPEAL",
                     !.pending_arbiter_verdict = verdict,
                     !.pending_payout_bps = share,
                     !.appeal_deadline = deadline] \in Attempt
<1>1. [a EXCEPT !.human_verdict_overrode_ai = TRUE,
                !.status = "ARBITER_RESOLVED_PENDING_APPEAL",
                !.pending_arbiter_verdict = verdict,
                !.pending_payout_bps = share,
                !.appeal_deadline = deadline] \in Attempt
  BY DEF Attempt, DISPUTE_IN_PROGRESS_STATES, ATTEMPT_STATUS
<1>2. [a EXCEPT !.human_verdict_overrode_ai = FALSE,
                !.status = "ARBITER_RESOLVED_PENDING_APPEAL",
                !.pending_arbiter_verdict = verdict,
                !.pending_payout_bps = share,
                !.appeal_deadline = deadline] \in Attempt
  BY DEF Attempt, DISPUTE_IN_PROGRESS_STATES, ATTEMPT_STATUS
<1>3. flag = TRUE \/ flag = FALSE
  OBVIOUS
<1>. QED
  BY <1>1, <1>2, <1>3

LEMMA ResolveDisputeStep ==
    ASSUME TypeOK, Books, NEW b \in BountyId, NEW i \in AttemptIndex, NEW sender,
           NEW verdict \in Ruling, NEW bps \in ReviewBps \ {Malformed},
           ResolveDispute(sender, b, i, verdict, bps)
    PROVE  \E z \in Attempt : AttemptStep(b, i, z)
<1>. DEFINE a == attempts[b][i]
            creator == bounties[b].creator
            share == RulingBps(verdict, bps)
            overrode == ~MatchesOutcome(a.last_verdict, a.last_payout_bps, verdict, share)
            z == [a EXCEPT !.human_verdict_overrode_ai = overrode,
                           !.status = "ARBITER_RESOLVED_PENDING_APPEAL",
                           !.pending_arbiter_verdict = verdict,
                           !.pending_payout_bps = share,
                           !.appeal_deadline = APPEAL_WINDOW_SECONDS]
<1>1. /\ a \in Attempt /\ AttemptBooks(creator, a)
      /\ a.status = "DISPUTED"
      /\ attempts' = [attempts EXCEPT ![b][i] = z]
      /\ attempts_settled_by_ai_consensus' \in Nat
      /\ UNCHANGED <<config, bounties, reservations, contested, reputation>>
  BY Records DEF ResolveDispute, TypeOK
<1>2. /\ verdict \in ARBITER_VERDICTS /\ share \in 0 .. BPS_DENOMINATOR - 1
      /\ overrode \in BOOLEAN /\ APPEAL_WINDOW_SECONDS \in Nat
      /\ BPS_DENOMINATOR \in Nat
  BY RulingShares, DurationAssumption, BucketAssumption DEF MatchesOutcome
<1>. HIDE DEF share, overrode
<1>3. /\ Succeeds(creator, a, z)
      /\ z.status = "ARBITER_RESOLVED_PENDING_APPEAL"
      /\ z.rejection_counted = a.rejection_counted
  <2>. HIDE DEF a, creator
  <2>1. z \in Attempt
    <3>1. share \in 0 .. BPS_DENOMINATOR /\ APPEAL_WINDOW_SECONDS \in Int
      BY <1>2
    <3>. QED
      BY <1>1, <1>2, <3>1, RuledType
  <2>2. /\ z.status = "ARBITER_RESOLVED_PENDING_APPEAL"
        /\ SameDeal(a, z)
        /\ z.pending_payout_bps = share
        /\ z.bond_deposited = a.bond_deposited
        /\ z.rejection_counted = a.rejection_counted
    BY <1>1 DEF Attempt, SameDeal
  <2>3. a.rejection_counted \in BOOLEAN
    BY <1>1 DEF Attempt
  <2>. HIDE DEF z
  <2>. QED
    BY <1>1, <1>2, <2>1, <2>2, <2>3, GoesOn
       DEF SameDeal, LIVE_STATES, TERMINAL_STATES, APPEAL_STATES
<1>. HIDE DEF z
<1>. QED
  BY <1>1, <1>3, QuietStep DEF DISPUTE_IN_PROGRESS_STATES

\* An attempt whose appeal is under way.
LEMMA AppealGoesOn ==
    ASSUME NEW creator, NEW a \in Attempt, NEW z \in Attempt, AttemptBooks(creator, a),
           a.status \in DISPUTE_IN_PROGRESS_STATES, z.status \in APPEAL_STATES,
           SameDeal(a, z), SameRuling(a, z),
           z.bond_deposited = a.bond_deposited,
           z.rejection_counted = a.rejection_counted,
           z.appealed_by \in {creator, a.challenger} \ {NoOne},
           z.appeal_bond_deposited = a.bond_amount,
           z.status = "APPEAL_FUNDED_PENDING_BINDING" =>
              z.appeal_base_funding_tx_hash # NoHash,
           z.status = "APPEALED" /\ a.bond_amount > 0 =>
              z.appeal_base_funding_tx_hash # NoHash
    PROVE  Succeeds(creator, a, z)
<1>1. /\ a.status \notin TERMINAL_STATES \cup LIVE_STATES \cup {"NONE", "WON"}
      /\ z.status \notin TERMINAL_STATES \cup LIVE_STATES \cup {"NONE", "WON"}
      /\ z.status \notin {"LOST_RACE", "REJECTED_FINAL", "BOND_FORFEITED"}
  BY DEF APPEAL_STATES, DISPUTE_IN_PROGRESS_STATES, TERMINAL_STATES, LIVE_STATES
<1>2. a.bond_deposited = a.bond_amount /\ a.appeal_bond_recipient = NoOne
  BY <1>1 DEF AttemptBooks, LedgerBalanced, TERMINAL_STATES
<1>3. LedgerBalanced(z)
  BY <1>1, <1>2 DEF LedgerBalanced, SameDeal
<1>4. AttemptBooks(creator, z)
  BY <1>1, <1>2, <1>3 DEF AttemptBooks, AppealPaid, SameDeal, SameRuling
<1>. QED
  BY <1>1, <1>4 DEF Succeeds, SameDeal

LEMMA AppealArbiterResolutionStep ==
    ASSUME TypeOK, Books, NEW b \in BountyId, NEW i \in AttemptIndex, NEW sender \in Account,
           AppealArbiterResolution(sender, b, i)
    PROVE  \E z \in Attempt : AttemptStep(b, i, z)
<1>. DEFINE a == attempts[b][i]
            creator == bounties[b].creator
            bond == a.bond_amount
            status == IF bond = 0 THEN "APPEALED" ELSE "APPEAL_PENDING_FUNDING"
            deadline == IF bond = 0 THEN a.appeal_funding_deadline
                        ELSE FUNDING_RESERVATION_SECONDS
            z == [a EXCEPT !.appealed_by = sender,
                           !.appeal_bond_deposited = bond,
                           !.status = status,
                           !.appeal_funding_deadline = deadline]
<1>1. /\ a \in Attempt /\ AttemptBooks(creator, a)
      /\ a.status = "ARBITER_RESOLVED_PENDING_APPEAL"
      /\ sender \in {creator, a.challenger}
      /\ attempts_settled_by_ai_consensus' \in Nat
      /\ UNCHANGED <<config, bounties, reservations, contested, reputation>>
  BY Records DEF AppealArbiterResolution, TypeOK, IsParty
<1>2. attempts' = [attempts EXCEPT ![b][i] = z]
  BY DEF AppealArbiterResolution
<1>3. /\ Succeeds(creator, a, z)
      /\ z.status \in APPEAL_STATES
      /\ z.rejection_counted = a.rejection_counted
  <2>1. a.appeal_funding_deadline \in Int /\ bond \in Nat
    BY <1>1 DEF Attempt
  <2>2. /\ deadline \in Int
        /\ status \in {"APPEALED", "APPEAL_PENDING_FUNDING"}
        /\ status = "APPEALED" => bond = 0
    BY <2>1, DurationAssumption
  <2>3. bond = a.bond_amount
    OBVIOUS
  <2>. HIDE DEF a, creator, bond, status, deadline
  <2>4. status \in ATTEMPT_STATUS
    BY <2>2 DEF ATTEMPT_STATUS, DISPUTE_IN_PROGRESS_STATES
  <2>5. z \in Attempt
    BY <1>1, <2>1, <2>2, <2>4 DEF Attempt
  <2>6. /\ z.status = status
        /\ SameDeal(a, z)
        /\ SameRuling(a, z)
        /\ z.bond_deposited = a.bond_deposited
        /\ z.rejection_counted = a.rejection_counted
        /\ z.appealed_by = sender
        /\ z.appeal_bond_deposited = bond
    BY <1>1 DEF Attempt, SameDeal, SameRuling
  <2>7. sender # NoOne
    BY AccountAssumption
  <2>. HIDE DEF z
  <2>8. z.status \in APPEAL_STATES
    BY <2>2, <2>6 DEF APPEAL_STATES
  <2>9. /\ z.status # "APPEAL_FUNDED_PENDING_BINDING"
        /\ ~(z.status = "APPEALED" /\ a.bond_amount > 0)
    BY <2>1, <2>2, <2>3, <2>6
  <2>10. a.status \in DISPUTE_IN_PROGRESS_STATES
    BY <1>1 DEF DISPUTE_IN_PROGRESS_STATES
  <2>11. Succeeds(creator, a, z)
    BY <1>1, <2>3, <2>5, <2>6, <2>7, <2>8, <2>9, <2>10, AppealGoesOn
  <2>. QED
    BY <2>6, <2>8, <2>11
<1>. HIDE DEF z
<1>. QED
  BY <1>1, <1>2, <1>3, QuietStep DEF APPEAL_STATES, DISPUTE_IN_PROGRESS_STATES

LEMMA ConfirmAppealFundingStep ==
    ASSUME TypeOK, Books, NEW b \in BountyId, NEW i \in AttemptIndex, NEW sender,
           NEW txHash \in TxHash, ConfirmAppealFunding(sender, b, i, txHash)
    PROVE  \E z \in Attempt : AttemptStep(b, i, z)
<1>. DEFINE a == attempts[b][i]
            creator == bounties[b].creator
            z == [a EXCEPT !.appeal_base_funding_tx_hash = txHash,
                           !.status = "APPEAL_FUNDED_PENDING_BINDING"]
<1>1. /\ a \in Attempt /\ AttemptBooks(creator, a)
      /\ a.status = "APPEAL_PENDING_FUNDING"
      /\ attempts' = [attempts EXCEPT ![b][i] = z]
      /\ attempts_settled_by_ai_consensus' \in Nat
      /\ UNCHANGED <<config, bounties, reservations, contested, reputation>>
  BY Records DEF ConfirmAppealFunding, TypeOK
<1>2. /\ Succeeds(creator, a, z)
      /\ z.status = "APPEAL_FUNDED_PENDING_BINDING"
      /\ z.rejection_counted = a.rejection_counted
  <2>. HIDE DEF a, creator
  <2>1. z \in Attempt
    BY <1>1 DEF Attempt, DISPUTE_IN_PROGRESS_STATES, ATTEMPT_STATUS
  <2>2. /\ z.status = "APPEAL_FUNDED_PENDING_BINDING"
        /\ SameDeal(a, z)
        /\ SameRuling(a, z)
        /\ z.bond_deposited = a.bond_deposited
        /\ z.rejection_counted = a.rejection_counted
        /\ z.appealed_by = a.appealed_by
        /\ z.appeal_bond_deposited = a.appeal_bond_deposited
        /\ z.appeal_base_funding_tx_hash = txHash
    BY <1>1 DEF Attempt, SameDeal, SameRuling
  <2>3. /\ a.appealed_by \in {creator, a.challenger} \ {NoOne}
        /\ a.appeal_bond_deposited = a.bond_amount
    BY <1>1 DEF AttemptBooks, APPEAL_STATES
  <2>4. txHash # NoHash
    BY AccountAssumption
  <2>. HIDE DEF z
  <2>5. a.status \in DISPUTE_IN_PROGRESS_STATES /\ z.status \in APPEAL_STATES
    BY <1>1, <2>2 DEF DISPUTE_IN_PROGRESS_STATES, APPEAL_STATES
  <2>. QED
    BY <1>1, <2>1, <2>2, <2>3, <2>4, <2>5, AppealGoesOn
<1>. HIDE DEF z
<1>. QED
  BY <1>1, <1>2, QuietStep DEF DISPUTE_IN_PROGRESS_STATES

LEMMA ConfirmAppealBindingStep ==
    ASSUME TypeOK, Books, NEW b \in BountyId, NEW i \in AttemptIndex, NEW sender,
           ConfirmAppealBinding(sender, b, i)
    PROVE  \E z \in Attempt : AttemptStep(b, i, z)
<1>. DEFINE a == attempts[b][i]
            creator == bounties[b].creator
            z == [a EXCEPT !.status = "APPEALED"]
<1>1. /\ a \in Attempt /\ AttemptBooks(creator, a)
      /\ a.status = "APPEAL_FUNDED_PENDING_BINDING"
      /\ attempts' = [attempts EXCEPT ![b][i] = z]
      /\ attempts_settled_by_ai_consensus' \in Nat
      /\ UNCHANGED <<config, bounties, reservations, contested, reputation>>
  BY Records DEF ConfirmAppealBinding, AppealAwaitsBinding, TypeOK
<1>2. /\ Succeeds(creator, a, z)
      /\ z.status = "APPEALED"
      /\ z.rejection_counted = a.rejection_counted
  <2>. HIDE DEF a, creator
  <2>1. z \in Attempt
    BY <1>1 DEF Attempt, DISPUTE_IN_PROGRESS_STATES, ATTEMPT_STATUS
  <2>2. /\ z.status = "APPEALED"
        /\ SameDeal(a, z)
        /\ SameRuling(a, z)
        /\ z.bond_deposited = a.bond_deposited
        /\ z.rejection_counted = a.rejection_counted
        /\ z.appealed_by = a.appealed_by
        /\ z.appeal_bond_deposited = a.appeal_bond_deposited
        /\ z.appeal_base_funding_tx_hash = a.appeal_base_funding_tx_hash
    BY <1>1 DEF Attempt, SameDeal, SameRuling
  <2>3. /\ a.appealed_by \in {creator, a.challenger} \ {NoOne}
        /\ a.appeal_bond_deposited = a.bond_amount
        /\ a.appeal_base_funding_tx_hash # NoHash
    BY <1>1 DEF AttemptBooks, APPEAL_STATES
  <2>. HIDE DEF z
  <2>4. a.status \in DISPUTE_IN_PROGRESS_STATES /\ z.status \in APPEAL_STATES
    BY <1>1, <2>2 DEF DISPUTE_IN_PROGRESS_STATES, APPEAL_STATES
  <2>. QED
    BY <1>1, <2>1, <2>2, <2>3, <2>4, AppealGoesOn
<1>. HIDE DEF z
<1>. QED
  BY <1>1, <1>2, QuietStep DEF DISPUTE_IN_PROGRESS_STATES

-----------------------------------------------------------------------------
(* Awards, and the second consensus. *)

\* An attempt that ends after its appeal was heard.
LEMMA EndsHeard ==
    ASSUME NEW creator, NEW a \in Attempt, NEW z \in Attempt, AttemptBooks(creator, a),
           a.status = "APPEALED", z.status \in TERMINAL_STATES,
           z.status = "BOND_FORFEITED" => z.rejection_counted,
           a.rejection_counted => z.rejection_counted,
           z.pending_arbiter_verdict = "PARTIAL" => z.pending_payout_bps < BPS_DENOMINATOR,
           z.challenger = a.challenger, z.bond_amount = a.bond_amount,
           z.bond_deposited = 0, z.appealed_by = a.appealed_by,
           z.appeal_bond_deposited = a.appeal_bond_deposited,
           z.appeal_base_funding_tx_hash = a.appeal_base_funding_tx_hash,
           NEW upheld \in BOOLEAN,
           z.appeal_bond_recipient =
              IF upheld THEN IF a.appealed_by = a.challenger THEN creator ELSE a.challenger
              ELSE a.appealed_by,
           z.status # "LOST_RACE" => (AsRuled(a, z) <=> upheld)
    PROVE  Succeeds(creator, a, z)
<1>1. AppealPaid(creator, a)
  BY DEF AttemptBooks
<1>2. AppealPaid(creator, z) /\ z.appeal_bond_recipient \in {creator, z.challenger}
  BY <1>1 DEF AppealPaid
<1>3. LedgerBalanced(z)
  BY DEF LedgerBalanced
<1>4. z.status \notin APPEAL_STATES \cup LIVE_STATES \cup {"NONE"}
  BY DEF APPEAL_STATES, TERMINAL_STATES, LIVE_STATES
<1>5. AttemptBooks(creator, z)
  BY <1>2, <1>3, <1>4 DEF AttemptBooks, APPEAL_STATES, LIVE_STATES
<1>6. a.status \notin TERMINAL_STATES
  BY DEF TERMINAL_STATES
<1>. QED
  BY <1>4, <1>5, <1>6 DEF Succeeds

\* The outcome told from the verdict, as resolve_appeal tells it, is the outcome
\* told from the attempt.
LEMMA OutcomeAsRuled ==
    ASSUME NEW a \in Attempt, NEW z, NEW finding \in Finding,
           a.pending_arbiter_verdict = "PARTIAL" => a.pending_payout_bps < BPS_DENOMINATOR,
           \/ finding.verdict = "REJECTED" /\ z.status = "BOND_FORFEITED"
           \/ finding.verdict \in {"NEEDS_REVISION", "INSUFFICIENT_EVIDENCE"}
              /\ z.status = "INSUFFICIENT_EVIDENCE_FINAL"
           \/ /\ finding.verdict \in {"APPROVED", "PARTIAL"} /\ z.status = "WON"
              /\ z.last_payout_bps = IF EffectiveBps(finding) > 0 THEN EffectiveBps(finding)
                                     ELSE BPS_DENOMINATOR
    PROVE  AsRuled(a, z) <=> MatchesOutcome(finding.verdict, finding.payout_bps,
                                 a.pending_arbiter_verdict, a.pending_payout_bps)
<1>1. /\ EffectiveBps(finding) \in 0 .. BPS_DENOMINATOR - 1
      /\ finding.verdict = "PARTIAL" <=> EffectiveBps(finding) # 0
      /\ EffectiveBps(finding) = finding.payout_bps
      /\ BPS_DENOMINATOR \in Nat
      /\ a.pending_payout_bps \in 0 .. BPS_DENOMINATOR
  BY FindingFields, BucketAssumption DEF Attempt
<1>2. CASE finding.verdict = "REJECTED" /\ z.status = "BOND_FORFEITED"
  BY <1>2 DEF AsRuled, MatchesOutcome
<1>3. CASE /\ finding.verdict \in {"NEEDS_REVISION", "INSUFFICIENT_EVIDENCE"}
           /\ z.status = "INSUFFICIENT_EVIDENCE_FINAL"
  BY <1>3 DEF AsRuled, MatchesOutcome
<1>4. CASE /\ finding.verdict \in {"APPROVED", "PARTIAL"} /\ z.status = "WON"
           /\ z.last_payout_bps = IF EffectiveBps(finding) > 0 THEN EffectiveBps(finding)
                                  ELSE BPS_DENOMINATOR
  <2>1. CASE finding.verdict = "APPROVED"
    <3>1. z.last_payout_bps = BPS_DENOMINATOR
      BY <1>1, <1>4, <2>1
    <3>2. z.status = "WON"
      BY <1>4
    <3>. QED
      BY <1>1, <2>1, <3>1, <3>2 DEF AsRuled, MatchesOutcome
  <2>2. CASE finding.verdict = "PARTIAL"
    <3>1. z.last_payout_bps = finding.payout_bps /\ finding.payout_bps < BPS_DENOMINATOR
      BY <1>1, <1>4, <2>2
    <3>2. z.status = "WON" /\ finding.payout_bps \in Nat
      BY <1>1, <1>4
    <3>. QED
      BY <1>1, <2>2, <3>1, <3>2 DEF AsRuled, MatchesOutcome
  <2>. QED
    BY <1>4, <2>1, <2>2
<1>. QED
  BY <1>2, <1>3, <1>4

\* mid is a with the second consensus recorded, and the recipient of the appeal
\* bond if there is one.
Heard(creator, a, mid, finding) ==
    /\ mid \in Attempt
    /\ mid.challenger = a.challenger
    /\ mid.bond_amount = a.bond_amount
    /\ mid.rejection_counted = a.rejection_counted
    /\ mid.appealed_by = a.appealed_by
    /\ mid.appeal_bond_deposited = a.appeal_bond_deposited
    /\ mid.appeal_base_funding_tx_hash = a.appeal_base_funding_tx_hash
    /\ mid.pending_arbiter_verdict = finding.verdict
    /\ mid.pending_payout_bps = EffectiveBps(finding)
    /\ mid.appeal_bond_recipient =
          IF a.status = "APPEALED"
          THEN IF MatchesOutcome(finding.verdict, finding.payout_bps,
                                 a.pending_arbiter_verdict, a.pending_payout_bps)
               THEN IF a.appealed_by = a.challenger THEN creator ELSE a.challenger
               ELSE a.appealed_by
          ELSE a.appeal_bond_recipient

\* What is left of that record in the outcome z.
Outcome(mid, z) ==
    /\ z \in Attempt
    /\ z.challenger = mid.challenger
    /\ z.bond_amount = mid.bond_amount
    /\ z.bond_deposited = 0
    /\ z.appealed_by = mid.appealed_by
    /\ z.appeal_bond_deposited = mid.appeal_bond_deposited
    /\ z.appeal_base_funding_tx_hash = mid.appeal_base_funding_tx_hash
    /\ z.pending_arbiter_verdict = mid.pending_arbiter_verdict
    /\ z.pending_payout_bps = mid.pending_payout_bps
    /\ z.appeal_bond_recipient = mid.appeal_bond_recipient
    /\ mid.rejection_counted => z.rejection_counted

LEMMA SecondConsensusSucceeds ==
    ASSUME NEW creator, NEW a \in Attempt, NEW mid, NEW z, NEW finding \in Finding,
           AttemptBooks(creator, a), Heard(creator, a, mid, finding), Outcome(mid, z),
           a.status \in {"ARBITER_RESOLVED_PENDING_APPEAL", "APPEALED"},
           \/ z.status = "LOST_RACE"
           \/ /\ finding.verdict = "REJECTED" /\ z.status = "BOND_FORFEITED"
              /\ z.rejection_counted
           \/ finding.verdict \in {"NEEDS_REVISION", "INSUFFICIENT_EVIDENCE"}
              /\ z.status = "INSUFFICIENT_EVIDENCE_FINAL"
           \/ /\ finding.verdict \in {"APPROVED", "PARTIAL"} /\ z.status = "WON"
              /\ z.last_payout_bps = IF EffectiveBps(finding) > 0 THEN EffectiveBps(finding)
                                     ELSE BPS_DENOMINATOR
    PROVE  Succeeds(creator, a, z)
<1>. DEFINE upheld == MatchesOutcome(finding.verdict, finding.payout_bps,
                                     a.pending_arbiter_verdict, a.pending_payout_bps)
<1>1. /\ z.status \in TERMINAL_STATES
      /\ z.status = "BOND_FORFEITED" => z.rejection_counted
      /\ a.rejection_counted => z.rejection_counted
      /\ z \in Attempt
      /\ z.challenger = a.challenger /\ z.bond_amount = a.bond_amount
      /\ z.bond_deposited = 0
  BY DEF Heard, Outcome, TERMINAL_STATES
<1>2. z.pending_arbiter_verdict = "PARTIAL" => z.pending_payout_bps < BPS_DENOMINATOR
  <2>1. EffectiveBps(finding) \in 0 .. BPS_DENOMINATOR - 1 /\ BPS_DENOMINATOR \in Nat
    BY FindingFields, BucketAssumption
  <2>. QED
    BY <2>1 DEF Heard, Outcome
<1>3. a.pending_arbiter_verdict = "PARTIAL" => a.pending_payout_bps < BPS_DENOMINATOR
  BY DEF AttemptBooks
<1>4. upheld \in BOOLEAN
  BY DEF MatchesOutcome
<1>5. z.status # "LOST_RACE" => (AsRuled(a, z) <=> upheld)
  BY <1>3, OutcomeAsRuled
<1>6. CASE a.status = "APPEALED"
  <2>1. /\ z.appealed_by = a.appealed_by
        /\ z.appeal_bond_deposited = a.appeal_bond_deposited
        /\ z.appeal_base_funding_tx_hash = a.appeal_base_funding_tx_hash
        /\ z.appeal_bond_recipient =
              IF upheld THEN IF a.appealed_by = a.challenger THEN creator ELSE a.challenger
              ELSE a.appealed_by
    BY <1>6 DEF Heard, Outcome
  <2>. HIDE DEF upheld
  <2>. QED
    BY <1>1, <1>2, <1>4, <1>5, <1>6, <2>1, EndsHeard
<1>7. CASE a.status = "ARBITER_RESOLVED_PENDING_APPEAL"
  <2>1. z.appeal_bond_recipient = a.appeal_bond_recipient
    BY <1>7 DEF Heard, Outcome
  <2>2. a.status \notin TERMINAL_STATES \cup {"NONE", "APPEALED"}
    BY <1>7 DEF TERMINAL_STATES
  <2>. QED
    BY <1>1, <1>2, <2>1, <2>2, EndsUnheard
<1>. QED
  BY <1>6, <1>7

\* The record of an attempt that _settle_reward_to_winner leaves.
WonRecord(mid, payout_bps, via_arbiter) ==
    [mid EXCEPT !.bond_deposited = 0, !.status = "WON",
                !.resolved_by_arbiter = via_arbiter,
                !.last_payout_bps = IF payout_bps > 0 THEN payout_bps ELSE BPS_DENOMINATOR]

LEMMA WonRecordFields ==
    ASSUME NEW mid \in Attempt, NEW payout_bps \in 0 .. BPS_DENOMINATOR - 1,
           NEW via_arbiter \in BOOLEAN, NEW z, z = WonRecord(mid, payout_bps, via_arbiter)
    PROVE  /\ Outcome(mid, z) /\ z.status = "WON"
           /\ z.rejection_counted = mid.rejection_counted
           /\ z.last_payout_bps = IF payout_bps > 0 THEN payout_bps ELSE BPS_DENOMINATOR
<1>. DEFINE share == IF payout_bps > 0 THEN payout_bps ELSE BPS_DENOMINATOR
            record(via) == [mid EXCEPT !.bond_deposited = 0, !.status = "WON",
                                       !.resolved_by_arbiter = via,
                                       !.last_payout_bps = share]
<1>1. share \in 0 .. BPS_DENOMINATOR
  BY BucketAssumption
<1>2. z = record(via_arbiter) /\ share = share
  BY DEF WonRecord
<1>3. /\ z.status = "WON"
      /\ z.rejection_counted = mid.rejection_counted
      /\ z.last_payout_bps = share
  <2>. HIDE DEF share
  <2>. QED
    BY <1>2 DEF Attempt
<1>4. z \in Attempt
  <2>. HIDE DEF share
  <2>1. record(TRUE) \in Attempt
    BY <1>1 DEF Attempt, ATTEMPT_STATUS, TERMINAL_STATES
  <2>2. record(FALSE) \in Attempt
    BY <1>1 DEF Attempt, ATTEMPT_STATUS, TERMINAL_STATES
  <2>. HIDE DEF record
  <2>3. via_arbiter = TRUE \/ via_arbiter = FALSE
    OBVIOUS
  <2>. QED
    BY <1>2, <2>1, <2>2, <2>3
<1>5. /\ z.challenger = mid.challenger
      /\ z.bond_amount = mid.bond_amount
      /\ z.bond_deposited = 0
      /\ z.appealed_by = mid.appealed_by
      /\ z.appeal_bond_deposited = mid.appeal_bond_deposited
      /\ z.appeal_base_funding_tx_hash = mid.appeal_base_funding_tx_hash
      /\ z.pending_arbiter_verdict = mid.pending_arbiter_verdict
      /\ z.pending_payout_bps = mid.pending_payout_bps
      /\ z.appeal_bond_recipient = mid.appeal_bond_recipient
  <2>. HIDE DEF share
  <2>. QED
    BY <1>2 DEF Attempt
<1>. HIDE DEF share, record
<1>. QED
  BY <1>3, <1>4, <1>5 DEF Outcome, share

\* All that is left to show of a call that awards the reward.
LEMMA AwardStep ==
    ASSUME TypeOK, NEW b \in BountyId, NEW i \in AttemptIndex, NEW mid \in Attempt,
           NEW payout_bps \in 0 .. BPS_DENOMINATOR - 1, NEW via_arbiter \in BOOLEAN, NEW z,
           SettleRewardToWinner(b, i, mid, payout_bps, via_arbiter),
           z = WonRecord(mid, payout_bps, via_arbiter),
           Succeeds(bounties[b].creator, attempts[b][i], z),
           mid.challenger = attempts[b][i].challenger,
           mid.rejection_counted = attempts[b][i].rejection_counted,
           attempts_settled_by_ai_consensus' \in Nat,
           UNCHANGED <<config, reservations, contested>>
    PROVE  \E y \in Attempt : WinStep(b, i, y)
<1>. DEFINE a == attempts[b][i]
            net == ChallengerNet(bounties[b].reward_deposited, payout_bps,
                                 bounties[b].platform_fee_bps)
            partial == IF payout_bps > 0 THEN 1 ELSE 0
<1>1. /\ z \in Attempt /\ z.status = "WON"
      /\ z.rejection_counted = a.rejection_counted
      /\ z.last_payout_bps = IF payout_bps > 0 THEN payout_bps ELSE BPS_DENOMINATOR
  <2>1. /\ Outcome(mid, z) /\ z.status = "WON"
        /\ z.rejection_counted = mid.rejection_counted
        /\ z.last_payout_bps = IF payout_bps > 0 THEN payout_bps ELSE BPS_DENOMINATOR
    BY WonRecordFields
  <2>. QED
    BY <2>1 DEF Outcome
<1>2. net \in Nat
  <2>1. bounties[b] \in Bounty
    BY DEF TypeOK
  <2>2. /\ bounties[b].reward_deposited \in Nat
        /\ bounties[b].platform_fee_bps \in 0 .. MAX_FEE_BPS
    BY <2>1 DEF Bounty
  <2>3. payout_bps \in 0 .. BPS_DENOMINATOR
    BY BucketAssumption
  <2>. QED
    BY <2>2, <2>3, NetPositive
<1>3. partial \in {0, 1} /\ (partial = 1 <=> z.last_payout_bps < BPS_DENOMINATOR)
  BY <1>1, BucketAssumption
<1>4. reputation' = Credit(Credit(Credit(reputation, a.challenger, "attempts_won", 1),
                                  a.challenger, "attempts_partial", partial),
                           a.challenger, "total_earned", net)
  BY DEF SettleRewardToWinner
<1>5. /\ IsOpen(b)
      /\ bounties' = [bounties EXCEPT ![b] = Settled(b, i)]
  BY DEF SettleRewardToWinner
<1>6. attempts' = [attempts EXCEPT ![b] = LostRace(b, i, [@ EXCEPT ![i] = z])]
  BY DEF SettleRewardToWinner, WonRecord
<1>7. Counted(a, z) /\ reputation' \in [Account -> Reputation]
  <2>. HIDE DEF a, net, partial
  <2>. QED
    BY <1>1, <1>2, <1>3, <1>4, WinCounted
<1>8. WinStep(b, i, z)
  BY <1>1, <1>5, <1>6, <1>7 DEF WinStep, CountersTyped
<1>. QED
  BY <1>1, <1>8

\* Whatever the second consensus says, it makes one of two kinds of step.
LEMMA SecondConsensusStep ==
    ASSUME TypeOK, Books, NEW b \in BountyId, NEW i \in AttemptIndex, NEW mid,
           NEW finding \in Finding, SettleViaSecondConsensus(b, i, mid, finding),
           Heard(bounties[b].creator, attempts[b][i], mid, finding),
           attempts[b][i].status \in {"ARBITER_RESOLVED_PENDING_APPEAL", "APPEALED"}
    PROVE  \/ \E z \in Attempt : AttemptStep(b, i, z)
           \/ \E z \in Attempt : WinStep(b, i, z)
<1>. DEFINE a == attempts[b][i]
            creator == bounties[b].creator
<1>1. /\ a \in Attempt /\ AttemptBooks(creator, a)
      /\ a.status \in DISPUTE_IN_PROGRESS_STATES
  BY Records DEF DISPUTE_IN_PROGRESS_STATES
<1>2. /\ attempts_settled_by_ai_consensus' \in Nat
      /\ UNCHANGED <<config, reservations, contested>>
  BY DEF SettleViaSecondConsensus, RecordProvenance, TypeOK
<1>3. /\ mid \in Attempt
      /\ mid.challenger = a.challenger
      /\ mid.rejection_counted = a.rejection_counted
      /\ a.rejection_counted \in BOOLEAN /\ mid.rejection_counted \in BOOLEAN
  BY <1>1 DEF Heard, Attempt
<1>4. CASE /\ finding.verdict = "REJECTED"
           /\ attempts' = [attempts EXCEPT ![b][i] = Forfeited(mid, TRUE)]
           /\ reputation' = Strike(reputation, mid)
           /\ UNCHANGED bounties
  <2>. DEFINE z == Forfeited(mid, TRUE)
  <2>1. Outcome(mid, z) /\ z.status = "BOND_FORFEITED" /\ z.rejection_counted
    <3>1. z \in Attempt
      BY <1>3 DEF Forfeited, Attempt, ATTEMPT_STATUS, TERMINAL_STATES
    <3>. QED
      BY <1>3, <3>1 DEF Outcome, Forfeited, Attempt
  <2>2. Succeeds(creator, a, z)
    <3>. HIDE DEF z, a, creator
    <3>. QED
      BY <1>1, <1>4, <2>1, SecondConsensusSucceeds DEF a, creator
  <2>. HIDE DEF z
  <2>3. z.status \notin DISPUTE_IN_PROGRESS_STATES \cup {"WON"}
    BY <2>1 DEF DISPUTE_IN_PROGRESS_STATES
  <2>4. attempts' = [attempts EXCEPT ![b][i] = z]
    BY <1>4 DEF z
  <2>. QED
    BY <1>2, <1>3, <1>4, <2>1, <2>2, <2>3, <2>4, StrikeStep
<1>5. ASSUME NEW status \in {"INSUFFICIENT_EVIDENCE_FINAL", "LOST_RACE"},
             status = "INSUFFICIENT_EVIDENCE_FINAL" =>
                finding.verdict \in {"NEEDS_REVISION", "INSUFFICIENT_EVIDENCE"},
             attempts' = [attempts EXCEPT ![b][i] = Refunded(mid, status)],
             UNCHANGED <<bounties, reputation>>
      PROVE  \E z \in Attempt : AttemptStep(b, i, z)
  <2>. DEFINE z == Refunded(mid, status)
  <2>1. /\ Outcome(mid, z) /\ z.status = status
        /\ z.rejection_counted = mid.rejection_counted
    <3>1. status \in ATTEMPT_STATUS
      BY DEF ATTEMPT_STATUS, TERMINAL_STATES
    <3>2. z \in Attempt
      BY <1>3, <3>1 DEF Refunded, Attempt
    <3>. QED
      BY <1>3, <3>2 DEF Outcome, Refunded, Attempt
  <2>2. Succeeds(creator, a, z)
    <3>. HIDE DEF z, a, creator
    <3>. QED
      BY <1>1, <1>5, <2>1, SecondConsensusSucceeds DEF a, creator
  <2>. HIDE DEF z
  <2>3. z.status \notin DISPUTE_IN_PROGRESS_STATES \cup {"WON"}
    BY <2>1 DEF DISPUTE_IN_PROGRESS_STATES
  <2>4. attempts' = [attempts EXCEPT ![b][i] = z]
    BY <1>5 DEF z
  <2>. QED
    BY <1>2, <1>3, <1>5, <2>1, <2>2, <2>3, <2>4, QuietStep
<1>6. CASE /\ finding.verdict \in {"APPROVED", "PARTIAL"}
           /\ SettleRewardToWinner(b, i, mid, EffectiveBps(finding), TRUE)
  <2>. DEFINE via_arbiter == TRUE
              z == WonRecord(mid, EffectiveBps(finding), via_arbiter)
  <2>1. /\ via_arbiter \in BOOLEAN
        /\ EffectiveBps(finding) \in 0 .. BPS_DENOMINATOR - 1
        /\ SettleRewardToWinner(b, i, mid, EffectiveBps(finding), via_arbiter)
    BY <1>6, FindingFields
  <2>. HIDE DEF via_arbiter
  <2>2. z = WonRecord(mid, EffectiveBps(finding), via_arbiter)
    OBVIOUS
  <2>. HIDE DEF z
  <2>3. /\ Outcome(mid, z) /\ z.status = "WON"
        /\ z.last_payout_bps = IF EffectiveBps(finding) > 0 THEN EffectiveBps(finding)
                               ELSE BPS_DENOMINATOR
    BY <1>3, <2>1, <2>2, WonRecordFields
  <2>4. Succeeds(creator, a, z)
    <3>. HIDE DEF a, creator
    <3>. QED
      BY <1>1, <1>6, <2>3, SecondConsensusSucceeds DEF a, creator
  <2>. QED
    BY <1>2, <1>3, <2>1, <2>2, <2>4, AwardStep
<1>7. \/ /\ finding.verdict = "REJECTED"
         /\ attempts' = [attempts EXCEPT ![b][i] = Forfeited(mid, TRUE)]
         /\ reputation' = Strike(reputation, mid)
         /\ UNCHANGED bounties
      \/ /\ finding.verdict \in {"NEEDS_REVISION", "INSUFFICIENT_EVIDENCE"}
         /\ attempts' = [attempts EXCEPT ![b][i] = Refunded(mid, "INSUFFICIENT_EVIDENCE_FINAL")]
         /\ UNCHANGED <<bounties, reputation>>
      \/ /\ attempts' = [attempts EXCEPT ![b][i] = Refunded(mid, "LOST_RACE")]
         /\ UNCHANGED <<bounties, reputation>>
      \/ /\ finding.verdict \in {"APPROVED", "PARTIAL"}
         /\ SettleRewardToWinner(b, i, mid, EffectiveBps(finding), TRUE)
  BY DEF SettleViaSecondConsensus
<1>. QED
  BY <1>4, <1>5, <1>6, <1>7

LEMMA FinalizeArbiterResolutionStep ==
    ASSUME TypeOK, Books, NEW b \in BountyId, NEW i \in AttemptIndex,
           NEW finding \in Finding, FinalizeArbiterResolution(b, i, finding)
    PROVE  \/ \E z \in Attempt : AttemptStep(b, i, z)
           \/ \E z \in Attempt : WinStep(b, i, z)
<1>. DEFINE a == attempts[b][i]
            creator == bounties[b].creator
            mid == Reconsidered(a, finding)
<1>1. /\ a \in Attempt
      /\ a.status = "ARBITER_RESOLVED_PENDING_APPEAL"
      /\ SettleViaSecondConsensus(b, i, mid, finding)
  BY Records DEF FinalizeArbiterResolution
<1>2. Heard(creator, a, mid, finding)
  <2>1. /\ finding.verdict \in VALID_VERDICTS
        /\ EffectiveBps(finding) \in 0 .. BPS_DENOMINATOR
    BY FindingFields, BucketAssumption
  <2>. HIDE DEF a, creator
  <2>2. mid \in Attempt
    BY <1>1, <2>1 DEF Reconsidered, Attempt
  <2>. QED
    BY <1>1, <2>2 DEF Heard, Reconsidered, Attempt
<1>. HIDE DEF mid
<1>. QED
  BY <1>1, <1>2, SecondConsensusStep

LEMMA ResolveAppealStep ==
    ASSUME TypeOK, Books, NEW b \in BountyId, NEW i \in AttemptIndex,
           NEW finding \in Finding, ResolveAppeal(b, i, finding)
    PROVE  \/ \E z \in Attempt : AttemptStep(b, i, z)
           \/ \E z \in Attempt : WinStep(b, i, z)
<1>. DEFINE a == attempts[b][i]
            creator == bounties[b].creator
            heard == Reconsidered(a, finding)
            recipient == AppealRecipient(b, a, finding)
            mid == [heard EXCEPT !.appeal_bond_recipient = recipient]
<1>1. /\ a \in Attempt /\ AttemptBooks(creator, a) /\ creator \in Account \cup {NoOne}
      /\ a.status = "APPEALED"
      /\ SettleViaSecondConsensus(b, i, mid, finding)
  BY Records DEF ResolveAppeal, Bounty
<1>2. recipient = IF MatchesOutcome(finding.verdict, finding.payout_bps,
                                    a.pending_arbiter_verdict, a.pending_payout_bps)
                  THEN IF a.appealed_by = a.challenger THEN creator ELSE a.challenger
                  ELSE a.appealed_by
  BY DEF AppealRecipient, Counterparty
<1>3. Heard(creator, a, mid, finding)
  <2>1. /\ finding.verdict \in VALID_VERDICTS
        /\ EffectiveBps(finding) \in 0 .. BPS_DENOMINATOR
    BY FindingFields, BucketAssumption
  <2>. HIDE DEF a, creator, recipient
  <2>2. recipient \in Account \cup {NoOne}
    BY <1>1, <1>2 DEF Attempt
  <2>3. heard \in Attempt
    BY <1>1, <2>1 DEF Reconsidered, Attempt
  <2>4. /\ heard.challenger = a.challenger
        /\ heard.bond_amount = a.bond_amount
        /\ heard.rejection_counted = a.rejection_counted
        /\ heard.appealed_by = a.appealed_by
        /\ heard.appeal_bond_deposited = a.appeal_bond_deposited
        /\ heard.appeal_base_funding_tx_hash = a.appeal_base_funding_tx_hash
        /\ heard.pending_arbiter_verdict = finding.verdict
        /\ heard.pending_payout_bps = EffectiveBps(finding)
    BY <1>1 DEF Reconsidered, Attempt
  <2>. HIDE DEF heard
  <2>5. mid \in Attempt
    BY <2>2, <2>3 DEF Attempt
  <2>. QED
    BY <1>1, <1>2, <2>3, <2>4, <2>5 DEF Heard, Attempt
<1>. HIDE DEF mid
<1>. QED
  BY <1>1, <1>3, SecondConsensusStep

LEMMA VerifyWinnerStep ==
    ASSUME TypeOK, Books, NEW b \in BountyId, NEW i \in AttemptIndex,
           NEW finding \in Finding,
           attempts[b][i].status = "SUBMITTED", VerifyWinner(b, i, finding),
           UNCHANGED <<config, reservations, contested>>
    PROVE  \E z \in Attempt : WinStep(b, i, z)
<1>. DEFINE a == attempts[b][i]
            creator == bounties[b].creator
            mid == Judged(b, i, finding)
            via_arbiter == FALSE
            z == WonRecord(mid, EffectiveBps(finding), via_arbiter)
<1>1. /\ a \in Attempt /\ AttemptBooks(creator, a)
      /\ a.status = "SUBMITTED"
      /\ mid = [a EXCEPT !.last_verdict = finding.verdict]
  BY Records DEF Judged
<1>2. /\ finding.verdict \in VALID_VERDICTS
      /\ EffectiveBps(finding) \in 0 .. BPS_DENOMINATOR - 1
  BY FindingFields
<1>3. /\ z = WonRecord(mid, EffectiveBps(finding), via_arbiter)
      /\ via_arbiter \in BOOLEAN
      /\ SettleRewardToWinner(b, i, mid, EffectiveBps(finding), via_arbiter)
      /\ attempts_settled_by_ai_consensus' \in Nat
  <2>1. via_arbiter \in BOOLEAN
    OBVIOUS
  <2>2. SettleRewardToWinner(b, i, mid, EffectiveBps(finding), via_arbiter)
    BY DEF VerifyWinner
  <2>3. attempts_settled_by_ai_consensus' \in Nat
    BY DEF VerifyWinner, RecordProvenance, TypeOK
  <2>. QED
    BY <2>1, <2>2, <2>3
<1>. HIDE DEF mid, via_arbiter, z
<1>4. /\ mid \in Attempt
      /\ SameDeal(a, mid) /\ SameRuling(a, mid)
      /\ mid.rejection_counted = a.rejection_counted
      /\ a.rejection_counted \in BOOLEAN
  <2>. HIDE DEF a
  <2>. QED
    BY <1>1, <1>2 DEF Attempt, SameDeal, SameRuling
<1>5. /\ Outcome(mid, z) /\ z.status = "WON"
      /\ z.rejection_counted = mid.rejection_counted
  <2>. HIDE DEF a
  <2>. QED
    BY <1>2, <1>3, <1>4, WonRecordFields
<1>6. Succeeds(creator, a, z)
  <2>1. a.pending_arbiter_verdict = "PARTIAL" => a.pending_payout_bps < BPS_DENOMINATOR
    BY <1>1 DEF AttemptBooks
  <2>2. a.status \notin TERMINAL_STATES \cup {"NONE", "APPEALED"}
    BY <1>1 DEF TERMINAL_STATES
  <2>3. /\ z \in Attempt /\ z.status \in TERMINAL_STATES /\ z.status # "BOND_FORFEITED"
        /\ z.challenger = a.challenger /\ z.bond_deposited = 0
        /\ z.appeal_bond_recipient = a.appeal_bond_recipient
        /\ z.pending_arbiter_verdict = a.pending_arbiter_verdict
        /\ z.pending_payout_bps = a.pending_payout_bps
        /\ z.rejection_counted = a.rejection_counted
    BY <1>4, <1>5 DEF Outcome, SameDeal, SameRuling, TERMINAL_STATES
  <2>. HIDE DEF a, creator
  <2>. QED
    BY <1>1, <1>4, <2>1, <2>2, <2>3, EndsUnheard
<1>7. mid.challenger = attempts[b][i].challenger
  BY <1>4 DEF SameDeal
<1>. QED
  BY <1>2, <1>3, <1>4, <1>6, <1>7, AwardStep

LEMMA RequestVerificationStep ==
    ASSUME TypeOK, Books, NEW b \in BountyId, NEW i \in AttemptIndex,
           NEW finding \in Finding, RequestVerification(b, i, finding)
    PROVE  \/ \E z \in Attempt : AttemptStep(b, i, z)
           \/ \E z \in Attempt : WinStep(b, i, z)
<1>1. /\ attempts[b][i].status = "SUBMITTED"
      /\ UNCHANGED <<config, reservations, contested>>
  BY DEF RequestVerification
<1>2. CASE VerifyWinner(b, i, finding)
  BY <1>1, <1>2, VerifyWinnerStep
<1>3. CASE VerifyLostRace(b, i, finding)
  BY <1>1, <1>3, VerifyLostRaceStep
<1>4. CASE VerifyResubmit(b, i, finding)
  BY <1>1, <1>4, VerifyResubmitStep
<1>5. CASE VerifyRevisionsExhausted(b, i, finding)
  BY <1>1, <1>5, VerifyRevisionsExhaustedStep
<1>6. CASE VerifyInsufficient(b, i, finding)
  BY <1>1, <1>6, VerifyInsufficientStep
<1>7. CASE VerifyReject(b, i, finding)
  BY <1>1, <1>7, VerifyRejectStep
<1>. QED
  BY <1>2, <1>3, <1>4, <1>5, <1>6, <1>7 DEF RequestVerification

-----------------------------------------------------------------------------
(* Calls about a bounty or a reservation, and of the owner. *)

LEMMA BountyRecord ==
    ASSUME TypeOK, Books, NEW b \in BountyId
    PROVE  bounties[b] \in Bounty /\ BountyBooks(bounties[b])
<1>1. BooksOf(bounties[b], attempts[b], contested[b])
  BY DEF Books
<1>. QED
  BY <1>1 DEF TypeOK, BooksOf

LEMMA CreateBountyStep ==
    ASSUME TypeOK, Books, NEW b \in BountyId, NEW sender \in Creator, NEW arbiter \in Arbiter,
           NEW seconds \in DeadlineSeconds, NEW bond \in Bond, NEW reward \in Reward,
           CreateBounty(sender, b, arbiter, seconds, bond, reward)
    PROVE  \E y \in Bounty : BountyStep(b, y)
<1>. DEFINE x == bounties[b]
            fee == config.default_fee_bps
            y == [x EXCEPT !.status = "OPEN", !.creator = sender, !.arbiter = arbiter,
                           !.reward_amount = reward, !.reward_deposited = reward,
                           !.required_bond = bond, !.platform_fee_bps = fee,
                           !.deadline = seconds]
            first == Credit(reputation, sender, "bounties_created", 1)
<1>1. /\ x \in Bounty /\ x = NoBounty
      /\ bounties' = [bounties EXCEPT ![b] = y]
  BY BountyRecord DEF CreateBounty, BountyBooks
<1>2. /\ sender \in Account /\ arbiter \in Account
      /\ bond \in Nat /\ reward \in Nat /\ seconds \in Int
  BY AccountAssumption, TermsAssumption, DurationAssumption
<1>3. fee \in 0 .. MAX_FEE_BPS
  BY DEF TypeOK, Config
<1>4. y \in Bounty
  <2>. HIDE DEF x, fee
  <2>. QED
    BY <1>1, <1>2, <1>3 DEF Bounty, BOUNTY_STATUS
<1>5. BountySucceeds(x, y, attempts[b])
  <2>. HIDE DEF x, fee
  <2>. QED
    BY <1>1, <1>4 DEF BountySucceeds, BountyBooks, NoBounty
<1>6. /\ reputation \in [Account -> Reputation]
      /\ reputation' = Credit(first, sender, "bounties_funded_total", reward)
  BY DEF CreateBounty, TypeOK
<1>7. first \in [Account -> Reputation]
  BY <1>6, CreditType DEF REPUTATION_FIELD
<1>8. ASSUME NEW z \in Account
      PROVE  /\ reputation'[z].attempts_made = reputation[z].attempts_made
             /\ reputation'[z].attempts_won = reputation[z].attempts_won
             /\ reputation'[z].attempts_partial = reputation[z].attempts_partial
             /\ reputation'[z].attempts_rejected = reputation[z].attempts_rejected
  <2>1. /\ first[z].attempts_made = reputation[z].attempts_made
        /\ first[z].attempts_won = reputation[z].attempts_won
        /\ first[z].attempts_partial = reputation[z].attempts_partial
        /\ first[z].attempts_rejected = reputation[z].attempts_rejected
    BY <1>6 DEF Credit, Reputation
  <2>. HIDE DEF first
  <2>2. /\ reputation'[z].attempts_made = first[z].attempts_made
        /\ reputation'[z].attempts_won = first[z].attempts_won
        /\ reputation'[z].attempts_partial = first[z].attempts_partial
        /\ reputation'[z].attempts_rejected = first[z].attempts_rejected
    BY <1>6, <1>7 DEF Credit, Reputation
  <2>. QED
    BY <2>1, <2>2
<1>9. CountersTyped
  <2>. HIDE DEF first
  <2>1. Credit(first, sender, "bounties_funded_total", reward) \in [Account -> Reputation]
    BY <1>2, <1>7, CreditType DEF REPUTATION_FIELD
  <2>2. attempts_settled_by_ai_consensus' \in Nat
    BY DEF CreateBounty, TypeOK
  <2>. QED
    BY <1>6, <2>1, <2>2 DEF CountersTyped
<1>10. UNCHANGED <<config, reservations, attempts, contested>>
  BY DEF CreateBounty
<1>. HIDE DEF y
<1>11. BountyStep(b, y)
  BY <1>1, <1>5, <1>8, <1>9, <1>10 DEF BountyStep
<1>. QED
  BY <1>4, <1>11

\* All that is left to show of a call on an open bounty.
LEMMA OpenBountyStep ==
    ASSUME TypeOK, NEW b \in BountyId, NEW y,
           BountySucceeds(bounties[b], y, attempts[b]),
           bounties' = [bounties EXCEPT ![b] = y],
           UNCHANGED <<config, reservations, attempts, reputation,
                       attempts_settled_by_ai_consensus, contested>>
    PROVE  \E z \in Bounty : BountyStep(b, z)
<1>1. BountyStep(b, y)
  BY DEF BountyStep, CountersTyped, TypeOK
<1>2. y \in Bounty
  BY DEF BountySucceeds
<1>. QED
  BY <1>1, <1>2

LEMMA CancelBountyStep ==
    ASSUME TypeOK, Books, NEW b \in BountyId, NEW sender, CancelBounty(sender, b)
    PROVE  \E y \in Bounty : BountyStep(b, y)
<1>. DEFINE x == bounties[b]
            y == [x EXCEPT !.reward_deposited = 0, !.status = "CANCELLED"]
<1>1. /\ x \in Bounty /\ BountyBooks(x)
      /\ x.status = "OPEN" /\ ~x.criteria_locked
      /\ bounties' = [bounties EXCEPT ![b] = y]
      /\ UNCHANGED <<config, reservations, attempts, reputation,
                     attempts_settled_by_ai_consensus, contested>>
  BY BountyRecord DEF CancelBounty, Cancellable, IsOpen
<1>2. BountySucceeds(x, y, attempts[b])
  <2>. HIDE DEF x
  <2>1. y \in Bounty
    BY <1>1 DEF Bounty, BOUNTY_STATUS
  <2>2. /\ y.status = "CANCELLED" /\ y.reward_deposited = 0
        /\ y.attempt_count = x.attempt_count /\ y.attempts_won = x.attempts_won
        /\ y.creator = x.creator /\ SameTerms(x, y)
        /\ y.attempt_count \in Nat
    BY <1>1 DEF Bounty, SameTerms
  <2>3. x.attempt_count = 0 /\ x.attempts_won = 0
    BY <1>1, <2>2 DEF BountyBooks
  <2>. HIDE DEF y
  <2>. QED
    BY <1>1, <2>1, <2>2, <2>3 DEF BountySucceeds, BountyBooks
<1>. HIDE DEF y
<1>. QED
  BY <1>1, <1>2, OpenBountyStep

LEMMA ClaimCreatorTimeoutStep ==
    ASSUME TypeOK, Books, NEW b \in BountyId, NEW sender, ClaimCreatorTimeout(sender, b)
    PROVE  \E y \in Bounty : BountyStep(b, y)
<1>. DEFINE x == bounties[b]
            list == attempts[b]
            y == [x EXCEPT !.reward_deposited = 0, !.status = "EXPIRED_REFUNDED"]
<1>1. /\ x \in Bounty /\ BountyBooks(x)
      /\ x.status = "OPEN"
      /\ \A i \in AttemptIndex :
           i < x.attempt_count => list[i].status \notin DISPUTE_IN_PROGRESS_STATES
      /\ bounties' = [bounties EXCEPT ![b] = y]
      /\ UNCHANGED <<config, reservations, attempts, reputation,
                     attempts_settled_by_ai_consensus, contested>>
  BY BountyRecord DEF ClaimCreatorTimeout, IsOpen
<1>2. BountySucceeds(x, y, list)
  <2>. HIDE DEF x, list
  <2>1. y \in Bounty
    BY <1>1 DEF Bounty, BOUNTY_STATUS
  <2>2. /\ y.status = "EXPIRED_REFUNDED" /\ y.reward_deposited = 0
        /\ y.attempt_count = x.attempt_count /\ y.attempts_won = x.attempts_won
        /\ y.creator = x.creator /\ y.criteria_locked = x.criteria_locked
        /\ x.criteria_locked \in BOOLEAN /\ SameTerms(x, y)
    BY <1>1 DEF Bounty, SameTerms
  <2>3. x.attempts_won = 0 /\ (x.attempt_count > 0 => x.criteria_locked)
    BY <1>1, <2>2 DEF BountyBooks
  <2>. HIDE DEF y
  <2>. QED
    BY <1>1, <2>1, <2>2, <2>3 DEF BountySucceeds, BountyBooks
<1>. HIDE DEF y
<1>. QED
  BY <1>1, <1>2, OpenBountyStep

LEMMA ExtendBountyDeadlineStep ==
    ASSUME TypeOK, Books, NEW b \in BountyId, NEW sender, NEW seconds \in ExtraSeconds,
           ExtendBountyDeadline(sender, b, seconds)
    PROVE  \E y \in Bounty : BountyStep(b, y)
<1>. DEFINE x == bounties[b]
            deadline == x.deadline + seconds
            y == [x EXCEPT !.deadline = deadline]
<1>1. /\ x \in Bounty /\ BountyBooks(x)
      /\ x.status = "OPEN"
      /\ bounties' = [bounties EXCEPT ![b] = y]
      /\ UNCHANGED <<config, reservations, attempts, reputation,
                     attempts_settled_by_ai_consensus, contested>>
  BY BountyRecord DEF ExtendBountyDeadline, IsOpen
<1>2. deadline \in Int
  BY <1>1, DurationAssumption DEF Bounty
<1>. HIDE DEF deadline
<1>3. BountySucceeds(x, y, attempts[b])
  <2>. HIDE DEF x
  <2>1. y \in Bounty
    BY <1>1, <1>2 DEF Bounty
  <2>2. /\ y.status = "OPEN" /\ y.reward_deposited = x.reward_deposited
        /\ y.reward_amount = x.reward_amount
        /\ y.attempt_count = x.attempt_count /\ y.attempts_won = x.attempts_won
        /\ y.creator = x.creator /\ y.criteria_locked = x.criteria_locked
        /\ x.criteria_locked \in BOOLEAN /\ SameTerms(x, y)
    BY <1>1 DEF Bounty, SameTerms
  <2>3. /\ x.attempts_won = 0 /\ (x.attempt_count > 0 => x.criteria_locked)
        /\ x.reward_deposited = x.reward_amount
    BY <1>1, <2>2 DEF BountyBooks
  <2>. HIDE DEF y
  <2>. QED
    BY <1>1, <2>1, <2>2, <2>3 DEF BountySucceeds, BountyBooks
<1>. HIDE DEF y
<1>. QED
  BY <1>1, <1>3, OpenBountyStep

LEMMA ReserveAttemptStep ==
    ASSUME TypeOK, NEW b \in BountyId, NEW r \in ReservationId, NEW sender \in Challenger,
           ReserveAttempt(sender, b, r)
    PROVE  \E q \in AttemptReservation : ReservationStep(r, q)
<1>. DEFINE p == reservations[r]
            q == [p EXCEPT !.status = "PENDING", !.bounty_id = b, !.challenger = sender,
                           !.funding_deadline = FUNDING_RESERVATION_SECONDS]
<1>1. /\ p \in AttemptReservation /\ p.status = "NONE"
      /\ reservations' = [reservations EXCEPT ![r] = q]
      /\ UNCHANGED <<config, bounties, attempts, reputation,
                     attempts_settled_by_ai_consensus, contested>>
  BY DEF ReserveAttempt, TypeOK
<1>2. sender \in Account /\ FUNDING_RESERVATION_SECONDS \in Int
  BY AccountAssumption, DurationAssumption
<1>3. q \in AttemptReservation /\ q.status = "PENDING" /\ q.challenger = sender
  <2>. HIDE DEF p
  <2>. QED
    BY <1>1, <1>2 DEF AttemptReservation, RESERVATION_STATUS
<1>. HIDE DEF q
<1>4. ReservationStep(r, q)
  BY <1>1, <1>2, <1>3 DEF ReservationStep
<1>. QED
  BY <1>3, <1>4

LEMMA ExpireAttemptReservationStep ==
    ASSUME TypeOK, NEW r \in ReservationId, ExpireAttemptReservation(r)
    PROVE  \E q \in AttemptReservation : ReservationStep(r, q)
<1>. DEFINE p == reservations[r]
            q == [p EXCEPT !.status = "EXPIRED"]
<1>1. /\ p \in AttemptReservation /\ p.status = "PENDING"
      /\ reservations' = [reservations EXCEPT ![r] = q]
      /\ UNCHANGED <<config, bounties, attempts, reputation,
                     attempts_settled_by_ai_consensus, contested>>
  BY DEF ExpireAttemptReservation, TypeOK
<1>2. /\ q \in AttemptReservation /\ q.status = "EXPIRED"
      /\ q.bounty_id = p.bounty_id /\ q.challenger = p.challenger
  <2>. HIDE DEF p
  <2>. QED
    BY <1>1 DEF AttemptReservation, RESERVATION_STATUS
<1>. HIDE DEF q
<1>3. ReservationStep(r, q)
  BY <1>1, <1>2 DEF ReservationStep
<1>. QED
  BY <1>2, <1>3

\* The fee stays below its cap whatever the owner asks for.
LEMMA AdministrationStep ==
    ASSUME TypeOK, Administration
    PROVE  OwnerStep
<1>1. /\ config \in Config
      /\ MAX_FEE_BPS \in Nat
      /\ Owner \subseteq Account /\ Attestor \subseteq Account
      /\ FeeBps \subseteq Nat /\ Pause \subseteq BOOLEAN
  BY AccountAssumption, TermsAssumption, BucketAssumption DEF TypeOK
<1>2. ASSUME NEW sender, NEW value \in FeeBps, Administer(sender, "default_fee_bps", value)
      PROVE  OwnerStep
  <2>1. value \in 0 .. MAX_FEE_BPS
    BY <1>1, <1>2 DEF Administer, Acceptable
  <2>. QED
    BY <1>1, <1>2, <2>1 DEF Administer, OwnerStep, Config
<1>3. ASSUME NEW sender, NEW value \in Treasury, Administer(sender, "treasury", value)
      PROVE  OwnerStep
  BY <1>1, <1>3 DEF Administer, OwnerStep, Config
<1>4. ASSUME NEW sender, NEW value \in Pause, Administer(sender, "paused", value)
      PROVE  OwnerStep
  BY <1>1, <1>4 DEF Administer, OwnerStep, Config
<1>5. ASSUME NEW sender, NEW value \in Attestor, Administer(sender, "funding_attestor", value)
      PROVE  OwnerStep
  BY <1>1, <1>5 DEF Administer, OwnerStep, Config
<1>6. ASSUME NEW sender, NEW value \in Owner, Administer(sender, "owner", value)
      PROVE  OwnerStep
  BY <1>1, <1>6 DEF Administer, OwnerStep, Config
<1>. QED
  BY <1>2, <1>3, <1>4, <1>5, <1>6 DEF Administration

\* Every call makes one of the kinds of step.
LEMMA Kinds ==
    ASSUME TypeOK, Books, Next
    PROVE  StepKinds
<1>1. CASE Tick
  BY <1>1 DEF StepKinds
<1>2. CASE Administration
  BY <1>2, AdministrationStep DEF StepKinds
<1>3. CASE Attestation
  <2>1. ASSUME NEW sender \in Account, NEW b \in BountyId, NEW i \in AttemptIndex,
               NEW txHash \in TxHash, ConfirmAppealFunding(sender, b, i, txHash)
        PROVE  StepKinds
    BY <2>1, ConfirmAppealFundingStep DEF StepKinds
  <2>2. ASSUME NEW sender \in Account, NEW b \in BountyId, NEW i \in AttemptIndex,
               ConfirmAppealBinding(sender, b, i)
        PROVE  StepKinds
    BY <2>2, ConfirmAppealBindingStep DEF StepKinds
  <2>3. ASSUME NEW sender \in Account, NEW b \in BountyId, NEW r \in ReservationId,
               NEW txHash \in TxHash, ConfirmAttemptFunding(sender, b, r, txHash)
        PROVE  StepKinds
    BY <2>3 DEF StepKinds
  <2>. QED
    BY <1>3, <2>1, <2>2, <2>3 DEF Attestation
<1>4. CASE Participation
  <2>1. ASSUME NEW r \in ReservationId, ExpireAttemptReservation(r)
        PROVE  StepKinds
    BY <2>1, ExpireAttemptReservationStep DEF StepKinds
  <2>2. ASSUME NEW b \in BountyId, NEW sender \in Creator, NEW arbiter \in Arbiter,
               NEW seconds \in DeadlineSeconds, NEW bond \in Bond, NEW reward \in Reward,
               CreateBounty(sender, b, arbiter, seconds, bond, reward)
        PROVE  StepKinds
    BY <2>2, CreateBountyStep DEF StepKinds
  <2>3. ASSUME NEW b \in BountyId, NEW sender \in Creator,
               \/ CancelBounty(sender, b)
               \/ ClaimCreatorTimeout(sender, b)
               \/ \E seconds \in ExtraSeconds : ExtendBountyDeadline(sender, b, seconds)
        PROVE  StepKinds
    BY <2>3, CancelBountyStep, ClaimCreatorTimeoutStep, ExtendBountyDeadlineStep DEF StepKinds
  <2>4. ASSUME NEW b \in BountyId, NEW r \in ReservationId, NEW sender \in Challenger,
               ReserveAttempt(sender, b, r)
        PROVE  StepKinds
    BY <2>4, ReserveAttemptStep DEF StepKinds
  <2>5. ASSUME NEW b \in BountyId, NEW i \in AttemptIndex, NEW finding \in Finding,
               \/ RequestVerification(b, i, finding)
               \/ FinalizeArbiterResolution(b, i, finding)
               \/ ResolveAppeal(b, i, finding)
        PROVE  StepKinds
    <3>1. \/ \E z \in Attempt : AttemptStep(b, i, z)
          \/ \E z \in Attempt : WinStep(b, i, z)
      BY <2>5, RequestVerificationStep, FinalizeArbiterResolutionStep, ResolveAppealStep
    <3>. QED
      BY <3>1 DEF StepKinds
  <2>6. ASSUME NEW b \in BountyId, NEW i \in AttemptIndex, ExpireAppealFunding(b, i)
        PROVE  StepKinds
    BY <2>6, ExpireAppealFundingStep DEF StepKinds
  <2>7. ASSUME NEW b \in BountyId, NEW i \in AttemptIndex, NEW sender \in Account,
               \/ SubmitEvidence(sender, b, i)
               \/ ClaimBondForfeiture(sender, b, i)
               \/ ReclaimBondAfterSettlement(sender, b, i)
               \/ RaiseDispute(sender, b, i)
               \/ \E verdict \in Ruling, bps \in ReviewBps \ {Malformed} :
                    ResolveDispute(sender, b, i, verdict, bps)
               \/ AppealArbiterResolution(sender, b, i)
               \/ ForceDefaultResolution(sender, b, i)
        PROVE  StepKinds
    <3>1. \E z \in Attempt : AttemptStep(b, i, z)
      BY <2>7, SubmitEvidenceStep, ClaimBondForfeitureStep, ReclaimBondAfterSettlementStep,
         RaiseDisputeStep, ResolveDisputeStep, AppealArbiterResolutionStep,
         ForceDefaultResolutionStep
    <3>. QED
      BY <3>1 DEF StepKinds
  <2>. QED
    BY <1>4, <2>1, <2>2, <2>3, <2>4, <2>5, <2>6, <2>7 DEF Participation
<1>. QED
  BY <1>1, <1>2, <1>3, <1>4 DEF Next

-----------------------------------------------------------------------------
(* Each kind of step keeps the books. *)

LEMMA Indices ==
    /\ AttemptIndex \subseteq Nat
    /\ \A i, j \in Nat : j \in AttemptIndex /\ i <= j => i \in AttemptIndex
<1>1. IsFiniteSet(AttemptIndex) /\ AttemptIndex = 0 .. Cardinality(AttemptIndex) - 1
  BY TermsAssumption
<1>2. Cardinality(AttemptIndex) \in Nat
  BY <1>1, FS_CardinalityType
<1>. QED
  BY <1>1, <1>2

LEMMA NothingYet ==
    /\ NoBounty \in Bounty /\ NoAttempt \in Attempt /\ NoReputation \in Reputation
    /\ UnissuedReservation \in AttemptReservation
    /\ BountyBooks(NoBounty)
    /\ \A creator : AttemptBooks(creator, NoAttempt)
<1>1. 0 \in 0 .. MAX_FEE_BPS /\ 0 \in 0 .. BPS_DENOMINATOR /\ BPS_DENOMINATOR > 0
  BY BucketAssumption
<1>2. NoBounty \in Bounty
  BY <1>1 DEF NoBounty, Bounty, BOUNTY_STATUS
<1>3. NoAttempt \in Attempt
  BY <1>1 DEF NoAttempt, Attempt, ATTEMPT_STATUS
<1>4. NoReputation \in Reputation
  BY DEF NoReputation, Reputation
<1>5. (CHOOSE b \in BountyId : TRUE) \in BountyId
  BY AccountAssumption
<1>6. UnissuedReservation \in AttemptReservation
  BY <1>5 DEF UnissuedReservation, AttemptReservation, RESERVATION_STATUS
<1>7. BountyBooks(NoBounty)
  BY DEF BountyBooks, NoBounty
<1>8. ASSUME NEW creator PROVE AttemptBooks(creator, NoAttempt)
  BY DEF AttemptBooks, LedgerBalanced, NoAttempt, APPEAL_STATES, TERMINAL_STATES
<1>. QED
  BY <1>2, <1>3, <1>4, <1>6, <1>7, <1>8

\* The books of the bounties a step does not touch.
LEMMA Untouched ==
    ASSUME Books, NEW b \in BountyId,
           BooksOf(bounties'[b], attempts'[b], contested'[b]),
           \A c \in BountyId \ {b} : /\ bounties'[c] = bounties[c]
                                     /\ attempts'[c] = attempts[c]
                                     /\ contested'[c] = contested[c]
    PROVE  Books'
<1>1. ASSUME NEW c \in BountyId
      PROVE  BooksOf(bounties'[c], attempts'[c], contested'[c])
  <2>1. CASE c = b
    BY <2>1
  <2>2. CASE c # b
    <3>1. BooksOf(bounties[c], attempts[c], contested[c])
      BY DEF Books
    <3>2. /\ bounties'[c] = bounties[c]
          /\ attempts'[c] = attempts[c]
          /\ contested'[c] = contested[c]
      BY <2>2
    <3>. QED
      BY <3>1, <3>2
  <2>. QED
    BY <2>1, <2>2
<1>. QED
  BY <1>1 DEF Books

LEMMA AttemptStepBooks ==
    ASSUME NEW x \in Bounty, NEW list \in [AttemptIndex -> Attempt],
           NEW disputed \in SUBSET AttemptIndex, NEW disputed2,
           NEW i \in AttemptIndex, NEW z,
           BooksOf(x, list, disputed), Succeeds(x.creator, list[i], z), z.status # "WON",
           \/ /\ z.status \in DISPUTE_IN_PROGRESS_STATES =>
                   list[i].status \in DISPUTE_IN_PROGRESS_STATES
              /\ disputed2 = disputed
           \/ /\ list[i].status \in LIVE_STATES
              /\ z.status \in DISPUTE_IN_PROGRESS_STATES
              /\ disputed2 = IF x.status = "OPEN" THEN disputed \cup {i} ELSE disputed
    PROVE  /\ BooksOf(x, [list EXCEPT ![i] = z], disputed2)
           /\ disputed2 \in SUBSET AttemptIndex
<1>. DEFINE after == [list EXCEPT ![i] = z]
<1>1. /\ x.attempt_count \in Nat /\ i \in Nat
      /\ list[i].status \notin {"NONE", "WON"}
      /\ z.status \notin {"NONE", "WON"}
      /\ z.status \in LIVE_STATES => list[i].status \in LIVE_STATES
      /\ AttemptBooks(x.creator, z)
  BY Indices DEF Bounty, Succeeds
<1>2. i < x.attempt_count
  <2>1. i >= x.attempt_count => list[i] = NoAttempt
    BY DEF BooksOf
  <2>2. NoAttempt.status = "NONE"
    BY DEF NoAttempt
  <2>. QED
    BY <1>1, <2>1, <2>2
<1>3. after[i] = z /\ \A j \in AttemptIndex : j # i => after[j] = list[j]
  OBVIOUS
<1>. HIDE DEF after
<1>4. ASSUME NEW j \in AttemptIndex
      PROVE  /\ AttemptBooks(x.creator, after[j])
             /\ j < x.attempt_count => after[j].status # "NONE"
             /\ j >= x.attempt_count => after[j] = NoAttempt
             /\ after[j].status = "WON" <=> x.status = "SETTLED" /\ j = x.winning_attempt_index
             /\ x.status = "SETTLED" => after[j].status \notin LIVE_STATES
  <2>1. CASE j # i
    BY <1>3, <2>1 DEF BooksOf
  <2>2. CASE j = i
    <3>1. /\ list[i].status = "WON" <=> x.status = "SETTLED" /\ i = x.winning_attempt_index
          /\ x.status = "SETTLED" => list[i].status \notin LIVE_STATES
      BY DEF BooksOf
    <3>. QED
      BY <1>1, <1>2, <1>3, <2>2, <3>1
  <2>. QED
    BY <2>1, <2>2
<1>5. ASSUME NEW j \in disputed2
      PROVE  /\ after[j].status \notin LIVE_STATES \cup {"NONE"}
             /\ after[j].status \in DISPUTE_IN_PROGRESS_STATES => x.status \in {"OPEN", "SETTLED"}
  <2>1. j \in disputed => /\ list[j].status \notin LIVE_STATES \cup {"NONE"}
                          /\ list[j].status \in DISPUTE_IN_PROGRESS_STATES =>
                               x.status \in {"OPEN", "SETTLED"}
    BY DEF BooksOf
  <2>2. CASE j # i
    <3>1. j \in disputed /\ j \in AttemptIndex
      BY <2>2
    <3>. QED
      BY <1>3, <2>1, <2>2, <3>1
  <2>3. CASE j = i /\ disputed2 = disputed /\ (z.status \in DISPUTE_IN_PROGRESS_STATES =>
                   list[i].status \in DISPUTE_IN_PROGRESS_STATES)
    BY <1>1, <1>3, <2>1, <2>3
  <2>4. CASE /\ j = i /\ list[i].status \in LIVE_STATES
             /\ z.status \in DISPUTE_IN_PROGRESS_STATES
             /\ disputed2 = IF x.status = "OPEN" THEN disputed \cup {i} ELSE disputed
    <3>1. x.status = "OPEN" /\ i \notin disputed
      BY <2>1, <2>4
    <3>2. z.status \notin LIVE_STATES
      BY <2>4 DEF LIVE_STATES, DISPUTE_IN_PROGRESS_STATES
    <3>. QED
      BY <1>1, <1>3, <2>4, <3>1, <3>2
  <2>. QED
    BY <2>2, <2>3, <2>4
<1>6. BountyBooks(x) /\ (x.status = "SETTLED" => x.winning_attempt_index \in AttemptIndex)
  BY DEF BooksOf
<1>7. BooksOf(x, after, disputed2)
  BY <1>4, <1>5, <1>6 DEF BooksOf
<1>. QED
  BY <1>7 DEF after

\* What the award of the reward makes of the "count" attempts of a bounty: the
\* winner becomes z, and _mark_other_attempts_lost_race marks the others.
Raced(winner, z, count, list) ==
    [i \in AttemptIndex |->
        IF i = winner THEN z
        ELSE IF i < count /\ list[i].status \in LIVE_STATES
             THEN [list[i] EXCEPT !.status = "LOST_RACE"] ELSE list[i]]

LEMMA LosingBooks ==
    ASSUME NEW creator, NEW a \in Attempt, AttemptBooks(creator, a), a.status \in LIVE_STATES,
           NEW z, z = [a EXCEPT !.status = "LOST_RACE"]
    PROVE  z \in Attempt /\ AttemptBooks(creator, z) /\ z.status = "LOST_RACE"
<1>1. z \in Attempt /\ z.status = "LOST_RACE"
  BY DEF Attempt, ATTEMPT_STATUS, TERMINAL_STATES
<1>2. /\ z.bond_deposited = a.bond_deposited /\ z.bond_amount = a.bond_amount
      /\ z.appeal_bond_recipient = a.appeal_bond_recipient
      /\ z.pending_arbiter_verdict = a.pending_arbiter_verdict
      /\ z.pending_payout_bps = a.pending_payout_bps
  BY DEF Attempt
<1>3. /\ a.bond_deposited = a.bond_amount /\ a.appeal_bond_recipient = NoOne
      /\ a.pending_arbiter_verdict = "PARTIAL" => a.pending_payout_bps < BPS_DENOMINATOR
  BY DEF AttemptBooks, LedgerBalanced, TERMINAL_STATES, LIVE_STATES
<1>4. LedgerBalanced(z)
  BY <1>1, <1>2, <1>3 DEF LedgerBalanced
<1>. QED
  BY <1>1, <1>2, <1>3, <1>4 DEF AttemptBooks, APPEAL_STATES

\* The record of a bounty whose reward went to attempt i.
Awarded(x, i) ==
    [x EXCEPT !.reward_deposited = 0, !.status = "SETTLED",
              !.attempts_won = 1, !.winning_attempt_index = i]

LEMMA WinStepBooks ==
    ASSUME NEW x \in Bounty, NEW list \in [AttemptIndex -> Attempt],
           NEW disputed \in SUBSET AttemptIndex, NEW i \in AttemptIndex, NEW z,
           BooksOf(x, list, disputed), x.status = "OPEN",
           Succeeds(x.creator, list[i], z), z.status = "WON",
           NEW y, y = Awarded(x, i),
           NEW after, after = Raced(i, z, x.attempt_count, list)
    PROVE  /\ BooksOf(y, after, disputed) /\ y \in Bounty
           /\ after \in [AttemptIndex -> Attempt]
           /\ after[i] = z
           /\ \A j \in AttemptIndex \ {i} :
                after[j] = IF list[j].status \in LIVE_STATES
                           THEN [list[j] EXCEPT !.status = "LOST_RACE"] ELSE list[j]
<1>1. /\ x.attempt_count \in Nat /\ i \in Nat
      /\ list[i].status # "NONE"
      /\ z \in Attempt /\ AttemptBooks(x.creator, z)
  BY Indices DEF Bounty, Succeeds
<1>2. y \in Bounty
  BY Indices DEF Awarded, Bounty, BOUNTY_STATUS
<1>3. /\ y.status = "SETTLED" /\ y.winning_attempt_index = i
      /\ y.creator = x.creator /\ y.attempt_count = x.attempt_count
      /\ y.attempts_won = 1 /\ y.reward_deposited = 0
      /\ y.criteria_locked = x.criteria_locked
  BY DEF Awarded, Bounty
<1>4. BountyBooks(x)
  BY DEF BooksOf
<1>5. BountyBooks(y)
  BY <1>3, <1>4 DEF BountyBooks
<1>6. \A j \in AttemptIndex :
        /\ list[j] \in Attempt /\ AttemptBooks(x.creator, list[j])
        /\ j < x.attempt_count => list[j].status # "NONE"
        /\ j >= x.attempt_count => list[j] = NoAttempt
        /\ list[j].status # "WON"
  BY DEF BooksOf
<1>7. NoAttempt.status = "NONE"
  BY DEF NoAttempt
<1>8. after[i] = z
  BY DEF Raced
<1>9. ASSUME NEW j \in AttemptIndex, j # i
      PROVE  after[j] = IF list[j].status \in LIVE_STATES
                        THEN [list[j] EXCEPT !.status = "LOST_RACE"] ELSE list[j]
  <2>1. after[j] = IF j < x.attempt_count /\ list[j].status \in LIVE_STATES
                   THEN [list[j] EXCEPT !.status = "LOST_RACE"] ELSE list[j]
    BY <1>9 DEF Raced
  <2>2. list[j].status \in LIVE_STATES => j < x.attempt_count
    <3>1. j \in Nat
      BY Indices
    <3>2. list[j].status \in LIVE_STATES => list[j] # NoAttempt
      BY <1>7 DEF LIVE_STATES
    <3>. QED
      BY <1>1, <1>6, <3>1, <3>2
  <2>. QED
    BY <2>1, <2>2
<1>10. ASSUME NEW j \in AttemptIndex
       PROVE  /\ after[j] \in Attempt /\ AttemptBooks(x.creator, after[j])
              /\ j < x.attempt_count => after[j].status # "NONE"
              /\ j >= x.attempt_count => after[j] = NoAttempt
              /\ after[j].status = "WON" <=> j = i
              /\ after[j].status \notin LIVE_STATES
              /\ j \in disputed => after[j].status # "NONE"
  <2>1. j \in disputed => list[j].status # "NONE"
    BY DEF BooksOf
  <2>2. CASE j = i
    <3>1. i < x.attempt_count
      BY <1>1, <1>6, <1>7
    <3>. QED
      BY <1>1, <1>8, <2>2, <3>1 DEF LIVE_STATES
  <2>3. CASE j # i /\ list[j].status \in LIVE_STATES
    <3>1. after[j] = [list[j] EXCEPT !.status = "LOST_RACE"]
      BY <1>9, <2>3
    <3>2. /\ after[j] \in Attempt /\ AttemptBooks(x.creator, after[j])
          /\ after[j].status = "LOST_RACE"
      BY <1>6, <2>3, <3>1, LosingBooks
    <3>3. ~(j >= x.attempt_count)
      BY <1>6, <1>7, <2>3 DEF LIVE_STATES
    <3>. QED
      BY <2>3, <3>2, <3>3 DEF LIVE_STATES
  <2>4. CASE j # i /\ list[j].status \notin LIVE_STATES
    <3>1. after[j] = list[j]
      BY <1>9, <2>4
    <3>. QED
      BY <1>6, <2>1, <2>4, <3>1
  <2>. QED
    BY <2>2, <2>3, <2>4
<1>11. after \in [AttemptIndex -> Attempt]
  <2>1. after = [j \in AttemptIndex |-> after[j]]
    BY DEF Raced
  <2>. QED
    BY <1>10, <2>1
<1>12. BooksOf(y, after, disputed)
  BY <1>3, <1>5, <1>10 DEF BooksOf
<1>. QED
  BY <1>2, <1>8, <1>9, <1>11, <1>12

LEMMA BountyStepBooks ==
    ASSUME NEW x \in Bounty, NEW list \in [AttemptIndex -> Attempt],
           NEW disputed \in SUBSET AttemptIndex, NEW y,
           BooksOf(x, list, disputed), BountySucceeds(x, y, list)
    PROVE  BooksOf(y, list, disputed)
<1>1. /\ BountyBooks(x) /\ BountyBooks(y)
      /\ x.attempt_count \in Nat /\ y.attempt_count = x.attempt_count
      /\ x.status \in {"NONE", "OPEN"}
      /\ y.status \notin {"NONE", "SETTLED"}
      /\ AttemptIndex \subseteq Nat
  BY Indices DEF BooksOf, BountySucceeds, Bounty
<1>2. \A i \in AttemptIndex :
        /\ AttemptBooks(x.creator, list[i])
        /\ i < x.attempt_count => list[i].status # "NONE"
        /\ i >= x.attempt_count => list[i] = NoAttempt
        /\ list[i].status # "WON"
  BY <1>1 DEF BooksOf
<1>3. \A i \in AttemptIndex : AttemptBooks(y.creator, list[i])
  <2>1. CASE x.status = "NONE"
    <3>1. x.attempt_count = 0
      BY <1>1, <2>1 DEF BountyBooks, NoBounty
    <3>2. \A i \in AttemptIndex : list[i] = NoAttempt
      BY <1>1, <1>2, <3>1
    <3>. QED
      BY <3>2, NothingYet
  <2>2. CASE x.status = "OPEN"
    BY <1>2, <2>2 DEF BountySucceeds
  <2>. QED
    BY <1>1, <2>1, <2>2
<1>4. NoAttempt.status = "NONE"
  BY DEF NoAttempt
<1>5. \A i \in disputed : /\ list[i].status \notin LIVE_STATES \cup {"NONE"}
                          /\ i \in AttemptIndex /\ i < x.attempt_count
  BY <1>1, <1>2, <1>4 DEF BooksOf
<1>6. \A i \in disputed :
        list[i].status \in DISPUTE_IN_PROGRESS_STATES => y.status \in {"OPEN", "SETTLED"}
  <2>1. CASE y.status = "CANCELLED"
    <3>1. x.attempt_count = 0
      BY <1>1, <2>1 DEF BountyBooks
    <3>. QED
      BY <1>1, <1>5, <3>1
  <2>2. CASE y.status = "EXPIRED_REFUNDED"
    BY <1>5, <2>2 DEF BountySucceeds
  <2>3. CASE y.status = "OPEN"
    BY <2>3
  <2>. QED
    BY <2>1, <2>2, <2>3 DEF BountySucceeds
<1>. QED
  BY <1>1, <1>2, <1>3, <1>5, <1>6 DEF BooksOf

\* The record of a new attempt.
Accepted(a, challenger, bond) ==
    [a EXCEPT !.status = "ACCEPTED", !.challenger = challenger,
              !.bond_amount = bond, !.bond_deposited = bond]

LEMMA AcceptedFields ==
    ASSUME NEW a \in Attempt, NEW challenger \in Account \cup {NoOne}, NEW bond \in Nat,
           NEW z, z = Accepted(a, challenger, bond)
    PROVE  /\ z \in Attempt
           /\ z.status = "ACCEPTED" /\ z.challenger = challenger
           /\ z.bond_deposited = z.bond_amount /\ z.bond_amount = bond
           /\ z.appeal_deadline = a.appeal_deadline
           /\ z.appeal_bond_recipient = a.appeal_bond_recipient
           /\ z.pending_arbiter_verdict = a.pending_arbiter_verdict
           /\ z.rejection_counted = a.rejection_counted
<1>1. "ACCEPTED" \in ATTEMPT_STATUS
  BY DEF ATTEMPT_STATUS, LIVE_STATES
<1>2. z \in Attempt
  BY <1>1 DEF Accepted, Attempt
<1>. QED
  BY <1>2 DEF Accepted, Attempt

\* The attempts with the i-th replaced.
Put(list, i, z) == [list EXCEPT ![i] = z]

\* The record of a bounty that took attempt i.
Joined(x, i) == [x EXCEPT !.criteria_locked = TRUE, !.attempt_count = i + 1]

LEMMA FundingBooks ==
    ASSUME NEW x \in Bounty, NEW list \in [AttemptIndex -> Attempt],
           NEW disputed \in SUBSET AttemptIndex, NEW i \in AttemptIndex,
           NEW challenger \in Account \cup {NoOne},
           BooksOf(x, list, disputed), x.status = "OPEN", i = x.attempt_count,
           NEW y, y = Joined(x, i),
           NEW z, z = Accepted(list[i], challenger, x.required_bond),
           NEW after, after = Put(list, i, z)
    PROVE  /\ BooksOf(y, after, disputed)
           /\ y \in Bounty /\ z \in Attempt
           /\ list[i] = NoAttempt
           /\ z.status = "ACCEPTED" /\ z.challenger = challenger /\ ~z.rejection_counted
           /\ z.bond_amount = x.required_bond /\ z.appeal_deadline = 0
           /\ y.status = "OPEN" /\ y.attempt_count = i + 1
           /\ y.creator = x.creator /\ SameTerms(x, y)
<1>. DEFINE next == i + 1
<1>1. i \in Nat /\ next \in Nat /\ x.required_bond \in Nat
  BY Indices DEF Bounty
<1>2. list[i] = NoAttempt
  BY <1>1 DEF BooksOf
<1>3. /\ z \in Attempt
      /\ z.status = "ACCEPTED" /\ z.challenger = challenger
      /\ z.bond_deposited = z.bond_amount /\ z.bond_amount = x.required_bond
      /\ z.appeal_deadline = list[i].appeal_deadline
      /\ z.appeal_bond_recipient = list[i].appeal_bond_recipient
      /\ z.pending_arbiter_verdict = list[i].pending_arbiter_verdict
      /\ z.rejection_counted = list[i].rejection_counted
  <2>1. list[i] \in Attempt
    OBVIOUS
  <2>2. x.required_bond \in Nat
    BY <1>1
  <2>3. z = Accepted(list[i], challenger, x.required_bond)
    OBVIOUS
  <2>. QED
    BY ONLY <2>1, <2>2, <2>3, AcceptedFields, challenger \in Account \cup {NoOne}
<1>4. /\ z.appeal_bond_recipient = NoOne /\ z.pending_arbiter_verdict = ""
      /\ ~z.rejection_counted /\ z.appeal_deadline = 0
  <2>1. /\ NoAttempt.appeal_bond_recipient = NoOne /\ NoAttempt.appeal_deadline = 0
        /\ NoAttempt.pending_arbiter_verdict = "" /\ NoAttempt.rejection_counted = FALSE
    BY DEF NoAttempt
  <2>. QED
    BY <1>2, <1>3, <2>1
<1>5. AttemptBooks(x.creator, z)
  <2>1. LedgerBalanced(z)
    BY <1>3, <1>4 DEF LedgerBalanced, TERMINAL_STATES
  <2>. QED
    BY <1>3, <1>4, <2>1 DEF AttemptBooks, APPEAL_STATES
<1>6. /\ y \in Bounty
      /\ y.status = "OPEN" /\ y.creator = x.creator
      /\ y.attempt_count = next /\ y.criteria_locked
      /\ y.reward_deposited = x.reward_deposited /\ y.reward_amount = x.reward_amount
      /\ y.attempts_won = x.attempts_won
      /\ y.required_bond = x.required_bond /\ y.platform_fee_bps = x.platform_fee_bps
  <2>. HIDE DEF next
  <2>1. y = [x EXCEPT !.criteria_locked = TRUE, !.attempt_count = next]
    BY DEF Joined, next
  <2>2. y \in Bounty
    BY <1>1, <2>1 DEF Bounty
  <2>. QED
    BY <2>1, <2>2 DEF Bounty
<1>7. BountyBooks(x)
  BY DEF BooksOf
<1>8. BountyBooks(y)
  BY <1>6, <1>7 DEF BountyBooks
<1>9. after[i] = z /\ \A j \in AttemptIndex : j # i => after[j] = list[j]
  BY DEF Put
<1>10. NoAttempt.status = "NONE"
  BY DEF NoAttempt
<1>11. ASSUME NEW j \in AttemptIndex
       PROVE  /\ AttemptBooks(x.creator, after[j])
              /\ j < next => after[j].status # "NONE"
              /\ j >= next => after[j] = NoAttempt
              /\ after[j].status # "WON"
  <2>1. j \in Nat
    BY Indices
  <2>2. CASE j = i
    <3>1. ~(j >= next)
      BY <1>1, <2>2
    <3>. HIDE DEF next
    <3>. QED
      BY <1>3, <1>4, <1>5, <1>9, <2>2, <3>1
  <2>3. CASE j # i
    <3>1. /\ AttemptBooks(x.creator, list[j])
          /\ j < x.attempt_count => list[j].status # "NONE"
          /\ j >= x.attempt_count => list[j] = NoAttempt
          /\ list[j].status # "WON"
      BY DEF BooksOf
    <3>. QED
      BY <1>1, <1>9, <2>1, <2>3, <3>1
  <2>. QED
    BY <2>2, <2>3
<1>12. ASSUME NEW j \in disputed
       PROVE  after[j].status \notin LIVE_STATES \cup {"NONE"}
  <2>1. list[j].status \notin LIVE_STATES \cup {"NONE"}
    BY DEF BooksOf
  <2>. QED
    BY <1>2, <1>9, <1>10, <2>1
<1>13. BooksOf(y, after, disputed)
  <2>. HIDE DEF next
  <2>. QED
    BY <1>6, <1>8, <1>11, <1>12 DEF BooksOf
<1>. QED
  BY <1>2, <1>3, <1>4, <1>6, <1>13 DEF SameTerms

\* The record of an attempt a moment later.
Later(a) ==
    [a EXCEPT !.appeal_deadline = Elapsed(@, 0), !.appeal_funding_deadline = Elapsed(@, -1)]

LEMMA LaterFields ==
    ASSUME NEW a \in Attempt
    PROVE  /\ Later(a) \in Attempt
           /\ Later(a) = [a EXCEPT !.appeal_deadline = Later(a).appeal_deadline,
                                   !.appeal_funding_deadline = Later(a).appeal_funding_deadline]
           /\ Later(a).status = a.status
           /\ Later(a).challenger = a.challenger
           /\ Later(a).bond_amount = a.bond_amount
           /\ Later(a).bond_deposited = a.bond_deposited
           /\ Later(a).last_payout_bps = a.last_payout_bps
           /\ Later(a).pending_arbiter_verdict = a.pending_arbiter_verdict
           /\ Later(a).pending_payout_bps = a.pending_payout_bps
           /\ Later(a).appealed_by = a.appealed_by
           /\ Later(a).appeal_bond_deposited = a.appeal_bond_deposited
           /\ Later(a).appeal_bond_recipient = a.appeal_bond_recipient
           /\ Later(a).appeal_base_funding_tx_hash = a.appeal_base_funding_tx_hash
           /\ Later(a).rejection_counted = a.rejection_counted
<1>. DEFINE window == Elapsed(a.appeal_deadline, 0)
            funding == Elapsed(a.appeal_funding_deadline, -1)
<1>1. a.appeal_deadline \in Int /\ a.appeal_funding_deadline \in Int
  BY DEF Attempt
<1>2. window \in Int /\ funding \in Int
  BY <1>1 DEF Elapsed
<1>3. Later(a) = [a EXCEPT !.appeal_deadline = window, !.appeal_funding_deadline = funding]
  BY DEF Later
<1>. HIDE DEF window, funding
<1>. QED
  BY <1>2, <1>3 DEF Attempt

LEMMA LaterNothing == Later(NoAttempt) = NoAttempt
<1>1. Elapsed(0, 0) = 0 /\ Elapsed(-1, -1) = -1
  BY DEF Elapsed
<1>2. NoAttempt.appeal_deadline = 0 /\ NoAttempt.appeal_funding_deadline = -1
  BY DEF NoAttempt
<1>3. Later(NoAttempt) =
        [NoAttempt EXCEPT !.appeal_deadline = NoAttempt.appeal_deadline,
                          !.appeal_funding_deadline = NoAttempt.appeal_funding_deadline]
  BY <1>1, <1>2 DEF Later
<1>. QED
  BY <1>3, NothingYet DEF Attempt

LEMMA LaterBooks ==
    ASSUME NEW creator, NEW a \in Attempt, AttemptBooks(creator, a)
    PROVE  AttemptBooks(creator, Later(a))
<1>1. LedgerBalanced(Later(a))
  BY LaterFields DEF AttemptBooks, LedgerBalanced
<1>. DEFINE z == Later(a)
<1>2. /\ z.status = a.status /\ z.challenger = a.challenger
      /\ z.bond_amount = a.bond_amount
      /\ z.pending_arbiter_verdict = a.pending_arbiter_verdict
      /\ z.pending_payout_bps = a.pending_payout_bps
      /\ z.appealed_by = a.appealed_by
      /\ z.appeal_bond_deposited = a.appeal_bond_deposited
      /\ z.appeal_bond_recipient = a.appeal_bond_recipient
      /\ z.appeal_base_funding_tx_hash = a.appeal_base_funding_tx_hash
      /\ z.rejection_counted = a.rejection_counted
  BY LaterFields
<1>3. a.rejection_counted \in BOOLEAN /\ LedgerBalanced(z)
  BY <1>1 DEF Attempt
<1>. HIDE DEF z
<1>4. AttemptBooks(creator, z)
  BY <1>2, <1>3 DEF AttemptBooks, AppealPaid
<1>. QED
  BY <1>4 DEF z

LEMMA TickBooks ==
    ASSUME NEW x \in Bounty, NEW list \in [AttemptIndex -> Attempt],
           NEW disputed \in SUBSET AttemptIndex, BooksOf(x, list, disputed),
           NEW y, NEW deadline \in Int,
           y = IF x.status = "NONE" THEN x ELSE [x EXCEPT !.deadline = deadline],
           NEW after, after = [i \in AttemptIndex |-> Later(list[i])]
    PROVE  /\ BooksOf(y, after, disputed)
           /\ y \in Bounty /\ after \in [AttemptIndex -> Attempt]
<1>1. /\ y \in Bounty
      /\ y.status = x.status /\ y.creator = x.creator /\ y.attempt_count = x.attempt_count
      /\ y.winning_attempt_index = x.winning_attempt_index
      /\ y.attempts_won = x.attempts_won
      /\ y.reward_deposited = x.reward_deposited /\ y.reward_amount = x.reward_amount
      /\ y.criteria_locked = x.criteria_locked
      /\ x.status = "NONE" => y = x
  BY DEF Bounty
<1>2. BountyBooks(x)
  BY DEF BooksOf
<1>3. BountyBooks(y)
  <2>1. x.criteria_locked \in BOOLEAN
    BY DEF Bounty
  <2>. QED
    BY <1>1, <1>2, <2>1 DEF BountyBooks
<1>4. ASSUME NEW i \in AttemptIndex
      PROVE  /\ after[i] \in Attempt
             /\ AttemptBooks(x.creator, after[i])
             /\ after[i].status = list[i].status
             /\ list[i] = NoAttempt => after[i] = NoAttempt
  <2>1. after[i] = Later(list[i]) /\ list[i] \in Attempt /\ AttemptBooks(x.creator, list[i])
    BY DEF BooksOf
  <2>. QED
    BY <2>1, LaterFields, LaterNothing, LaterBooks
<1>5. after \in [AttemptIndex -> Attempt]
  BY <1>4
<1>6. BooksOf(y, after, disputed)
  BY <1>1, <1>3, <1>4 DEF BooksOf
<1>. QED
  BY <1>1, <1>5, <1>6

-----------------------------------------------------------------------------
(* The invariant. *)

LEMMA InitKeeps ==
    ASSUME Init
    PROVE  TypeOK /\ Books
<1>1. PICK owner \in Owner, treasury \in Treasury, fee \in FeeBps :
        /\ fee <= MAX_FEE_BPS
        /\ config = [owner |-> owner, funding_attestor |-> owner, treasury |-> treasury,
                     default_fee_bps |-> fee, paused |-> FALSE]
  BY DEF Init
<1>2. config \in Config
  <2>1. owner \in Account /\ fee \in 0 .. MAX_FEE_BPS
    BY <1>1, AccountAssumption, TermsAssumption, BucketAssumption
  <2>. QED
    BY <1>1, <2>1 DEF Config
<1>3. TypeOK
  BY <1>2, NothingYet DEF Init, TypeOK
<1>4. ASSUME NEW b \in BountyId
      PROVE  BooksOf(bounties[b], attempts[b], contested[b])
  <2>1. /\ bounties[b] = NoBounty /\ contested[b] = {}
        /\ \A i \in AttemptIndex : attempts[b][i] = NoAttempt
    BY DEF Init
  <2>2. /\ NoBounty.status = "NONE" /\ NoBounty.attempt_count = 0
        /\ NoAttempt.status = "NONE"
    BY DEF NoBounty, NoAttempt
  <2>. DEFINE x == bounties[b]
              list == attempts[b]
  <2>3. BountyBooks(x) /\ x.status = "NONE" /\ x.attempt_count = 0
    BY <2>1, <2>2, NothingYet
  <2>6. \A i \in AttemptIndex : list[i] = NoAttempt /\ list[i].status = "NONE"
    BY <2>1, <2>2
  <2>7. \A i \in AttemptIndex : AttemptBooks(x.creator, list[i])
    BY <2>6, NothingYet
  <2>8. \A i \in AttemptIndex : ~(i < 0)
    BY Indices
  <2>4. contested[b] = {}
    BY <2>1
  <2>. HIDE DEF x, list
  <2>5. BooksOf(x, list, contested[b])
    BY <2>3, <2>4, <2>6, <2>7, <2>8 DEF BooksOf
  <2>. QED
    BY <2>5 DEF x, list
<1>. QED
  BY <1>3, <1>4 DEF Books

LEMMA BookFacts ==
    ASSUME TypeOK, Books, NEW b \in BountyId
    PROVE  /\ bounties[b] \in Bounty
           /\ attempts[b] \in [AttemptIndex -> Attempt]
           /\ contested[b] \in SUBSET AttemptIndex
           /\ BooksOf(bounties[b], attempts[b], contested[b])
BY DEF TypeOK, Books

LEMMA AttemptStepKeeps ==
    ASSUME TypeOK, Books, NEW b \in BountyId, NEW i \in AttemptIndex, NEW z,
           AttemptStep(b, i, z)
    PROVE  TypeOK' /\ Books'
<1>. DEFINE after == [attempts[b] EXCEPT ![i] = z]
            disputed == contested'[b]
<1>1. /\ Succeeds(bounties[b].creator, attempts[b][i], z)
      /\ z.status # "WON"
      /\ attempts' = [attempts EXCEPT ![b] = after]
      /\ UNCHANGED <<config, bounties, reservations>>
      /\ CountersTyped
  BY DEF AttemptStep
<1>2. \/ /\ z.status \in DISPUTE_IN_PROGRESS_STATES =>
              attempts[b][i].status \in DISPUTE_IN_PROGRESS_STATES
         /\ disputed = contested[b] /\ contested' = contested
      \/ /\ attempts[b][i].status \in LIVE_STATES
         /\ z.status \in DISPUTE_IN_PROGRESS_STATES
         /\ disputed = IF bounties[b].status = "OPEN" THEN contested[b] \cup {i} ELSE contested[b]
         /\ contested' = [contested EXCEPT ![b] = disputed]
  BY DEF AttemptStep, TypeOK, IsOpen
<1>. HIDE DEF disputed
<1>3. BooksOf(bounties[b], after, disputed) /\ disputed \in SUBSET AttemptIndex
  BY <1>1, <1>2, BookFacts, AttemptStepBooks
<1>4. z \in Attempt
  BY <1>1 DEF Succeeds
<1>5. /\ attempts' \in [BountyId -> [AttemptIndex -> Attempt]]
      /\ attempts'[b] = after
      /\ \A c \in BountyId \ {b} : attempts'[c] = attempts[c]
  BY <1>1, <1>4 DEF TypeOK
<1>6. /\ contested' \in [BountyId -> SUBSET AttemptIndex]
      /\ contested'[b] = disputed
      /\ \A c \in BountyId \ {b} : contested'[c] = contested[c]
  BY <1>2, <1>3 DEF TypeOK
<1>7. TypeOK'
  BY <1>1, <1>5, <1>6 DEF TypeOK, CountersTyped
<1>8. Books'
  BY <1>1, <1>3, <1>5, <1>6, Untouched
<1>. QED
  BY <1>7, <1>8

LEMMA WinStepKeeps ==
    ASSUME TypeOK, Books, NEW b \in BountyId, NEW i \in AttemptIndex, NEW z,
           WinStep(b, i, z)
    PROVE  /\ TypeOK' /\ Books'
           /\ bounties'[b].status = "SETTLED"
           /\ attempts'[b][i] = z
           /\ \A j \in AttemptIndex \ {i} :
                attempts'[b][j] = IF attempts[b][j].status \in LIVE_STATES
                                  THEN [attempts[b][j] EXCEPT !.status = "LOST_RACE"]
                                  ELSE attempts[b][j]
           /\ \A c \in BountyId \ {b} : attempts'[c] = attempts[c] /\ bounties'[c] = bounties[c]
<1>. DEFINE x == bounties[b]
            y == Awarded(x, i)
            after == Raced(i, z, x.attempt_count, attempts[b])
<1>1. /\ Succeeds(x.creator, attempts[b][i], z)
      /\ x.status = "OPEN" /\ z.status = "WON"
      /\ UNCHANGED <<config, reservations, contested>>
      /\ CountersTyped
  BY DEF WinStep, IsOpen
<1>2. bounties' = [bounties EXCEPT ![b] = y]
  BY DEF WinStep, Settled, Awarded
<1>3. attempts' = [attempts EXCEPT ![b] = after]
  <2>1. LostRace(b, i, [attempts[b] EXCEPT ![i] = z]) = after
    <3>1. attempts[b] \in [AttemptIndex -> Attempt]
      BY DEF TypeOK
    <3>. QED
      BY <3>1 DEF LostRace, Raced
  <2>2. attempts' = [attempts EXCEPT ![b] = LostRace(b, i, [@ EXCEPT ![i] = z])]
    BY DEF WinStep
  <2>. QED
    BY <2>1, <2>2
<1>4. /\ BooksOf(y, after, contested[b]) /\ y \in Bounty
      /\ after \in [AttemptIndex -> Attempt]
      /\ after[i] = z
      /\ \A j \in AttemptIndex \ {i} :
           after[j] = IF attempts[b][j].status \in LIVE_STATES
                      THEN [attempts[b][j] EXCEPT !.status = "LOST_RACE"] ELSE attempts[b][j]
  <2>. DEFINE list == attempts[b]
              disputed == contested[b]
  <2>1. /\ y = Awarded(x, i) /\ after = Raced(i, z, x.attempt_count, list)
        /\ Succeeds(x.creator, list[i], z) /\ x.status = "OPEN" /\ z.status = "WON"
    BY <1>1
  <2>2. /\ x \in Bounty /\ list \in [AttemptIndex -> Attempt]
        /\ disputed \in SUBSET AttemptIndex /\ BooksOf(x, list, disputed)
    BY BookFacts
  <2>. HIDE DEF x, y, after, list, disputed
  <2>3. /\ BooksOf(y, after, disputed) /\ y \in Bounty
        /\ after \in [AttemptIndex -> Attempt]
        /\ after[i] = z
        /\ \A j \in AttemptIndex \ {i} :
             after[j] = IF list[j].status \in LIVE_STATES
                        THEN [list[j] EXCEPT !.status = "LOST_RACE"] ELSE list[j]
    BY ONLY <2>1, <2>2, WinStepBooks, i \in AttemptIndex
  <2>. QED
    BY <2>3 DEF list, disputed
<1>5. y.status = "SETTLED"
  BY BookFacts DEF Awarded, Bounty
<1>. HIDE DEF y, after
<1>6. /\ attempts' \in [BountyId -> [AttemptIndex -> Attempt]]
      /\ attempts'[b] = after
      /\ \A c \in BountyId \ {b} : attempts'[c] = attempts[c]
  BY <1>3, <1>4 DEF TypeOK
<1>7. /\ bounties' \in [BountyId -> Bounty]
      /\ bounties'[b] = y
      /\ \A c \in BountyId \ {b} : bounties'[c] = bounties[c]
  BY <1>2, <1>4 DEF TypeOK
<1>8. TypeOK'
  BY <1>1, <1>6, <1>7 DEF TypeOK, CountersTyped
<1>9. Books'
  BY <1>1, <1>4, <1>6, <1>7, Untouched
<1>. QED
  BY <1>4, <1>5, <1>6, <1>7, <1>8, <1>9

LEMMA BountyStepKeeps ==
    ASSUME TypeOK, Books, NEW b \in BountyId, NEW y, BountyStep(b, y)
    PROVE  TypeOK' /\ Books'
<1>1. /\ BountySucceeds(bounties[b], y, attempts[b])
      /\ bounties' = [bounties EXCEPT ![b] = y]
      /\ CountersTyped
      /\ UNCHANGED <<config, reservations, attempts, contested>>
  BY DEF BountyStep
<1>2. BooksOf(y, attempts[b], contested[b]) /\ y \in Bounty
  BY <1>1, BookFacts, BountyStepBooks DEF BountySucceeds
<1>3. /\ bounties' \in [BountyId -> Bounty]
      /\ bounties'[b] = y
      /\ \A c \in BountyId \ {b} : bounties'[c] = bounties[c]
  BY <1>1, <1>2 DEF TypeOK
<1>4. TypeOK'
  BY <1>1, <1>3 DEF TypeOK, CountersTyped
<1>5. Books'
  BY <1>1, <1>2, <1>3, Untouched
<1>. QED
  BY <1>4, <1>5

\* What confirm_attempt_funding does, in terms of the records it changes: reservation
\* r of bounty b becomes q, attempt i becomes z and the bounty becomes y.
FundingEffect(b, r, i, z, y, q) ==
    /\ i = bounties[b].attempt_count /\ y.attempt_count = i + 1
    /\ bounties[b].status = "OPEN" /\ y.status = "OPEN"
    /\ attempts[b][i] = NoAttempt
    /\ z.status = "ACCEPTED" /\ z.challenger = reservations[r].challenger
    /\ ~z.rejection_counted
    /\ z.bond_amount = bounties[b].required_bond /\ z.appeal_deadline = 0
    /\ y.creator = bounties[b].creator /\ SameTerms(bounties[b], y)
    /\ attempts' = [attempts EXCEPT ![b][i] = z]
    /\ bounties' = [bounties EXCEPT ![b] = y]
    /\ reservations[r].status = "PENDING" /\ reservations[r].bounty_id = b
    /\ q.status = "ACTIVATED" /\ q.bounty_id = b
    /\ q.challenger = reservations[r].challenger
    /\ q.activated_attempt_index = i
    /\ reservations' = [reservations EXCEPT ![r] = q]
    /\ reputation' = Credit(reputation, z.challenger, "attempts_made", 1)
    /\ UNCHANGED <<config, attempts_settled_by_ai_consensus, contested>>

LEMMA FundingStep ==
    ASSUME TypeOK, Books, NEW sender, NEW b \in BountyId, NEW r \in ReservationId,
           NEW txHash \in TxHash, ConfirmAttemptFunding(sender, b, r, txHash)
    PROVE  /\ TypeOK' /\ Books'
           /\ \E i \in AttemptIndex, z \in Attempt, y \in Bounty, q \in AttemptReservation :
                FundingEffect(b, r, i, z, y, q)
<1>. DEFINE x == bounties[b]
            i == x.attempt_count
            p == reservations[r]
            z == Accepted(attempts[b][i], p.challenger, x.required_bond)
            y == Joined(x, i)
            after == Put(attempts[b], i, z)
            q == [p EXCEPT !.status = "ACTIVATED", !.activated_attempt_index = i,
                           !.base_funding_tx_hash = txHash]
<1>1. /\ x.status = "OPEN" /\ i \in AttemptIndex
      /\ p.status = "PENDING" /\ p.bounty_id = b
      /\ bounties' = [bounties EXCEPT ![b] = y]
      /\ UNCHANGED <<config, attempts_settled_by_ai_consensus, contested>>
  BY DEF ConfirmAttemptFunding, ReservationAvailable, ActivationOpen, IsOpen, Joined
<1>2. /\ attempts' = [attempts EXCEPT ![b][i] = z]
      /\ attempts' = [attempts EXCEPT ![b] = after]
  BY DEF ConfirmAttemptFunding, Accepted, Put
<1>3. reservations' = [reservations EXCEPT ![r] = q]
  BY DEF ConfirmAttemptFunding
<1>4. reputation' = Credit(reputation, p.challenger, "attempts_made", 1)
  BY DEF ConfirmAttemptFunding
<1>5. p \in AttemptReservation /\ x \in Bounty /\ i \in Nat
  BY <1>1, Indices DEF TypeOK
<1>6. p.challenger \in Account \cup {NoOne}
  BY <1>5 DEF AttemptReservation
<1>7. q \in AttemptReservation
  <2>. HIDE DEF p, x
  <2>. QED
    BY <1>5 DEF AttemptReservation, RESERVATION_STATUS
<1>8. /\ q.status = "ACTIVATED" /\ q.bounty_id = b
      /\ q.challenger = p.challenger
      /\ q.activated_attempt_index = i
  <2>. HIDE DEF x, i
  <2>. QED
    BY <1>1, <1>5 DEF AttemptReservation
<1>9. /\ y = Joined(x, i) /\ z = Accepted(attempts[b][i], p.challenger, x.required_bond)
      /\ after = Put(attempts[b], i, z)
  OBVIOUS
<1>. HIDE DEF z, y, q, after
<1>10. /\ BooksOf(y, after, contested[b])
       /\ y \in Bounty /\ z \in Attempt
       /\ attempts[b][i] = NoAttempt
       /\ z.status = "ACCEPTED" /\ z.challenger = p.challenger /\ ~z.rejection_counted
       /\ y.attempt_count = i + 1 /\ y.status = "OPEN"
       /\ z.bond_amount = x.required_bond /\ z.appeal_deadline = 0
       /\ y.creator = x.creator /\ SameTerms(x, y)
  <2>. DEFINE list == attempts[b]
              disputed == contested[b]
              challenger == p.challenger
  <2>1. /\ y = Joined(x, i) /\ z = Accepted(list[i], challenger, x.required_bond)
        /\ after = Put(list, i, z)
        /\ challenger \in Account \cup {NoOne} /\ x.status = "OPEN"
        /\ i \in AttemptIndex /\ i = x.attempt_count
    BY <1>1, <1>6, <1>9
  <2>2. /\ x \in Bounty /\ list \in [AttemptIndex -> Attempt]
        /\ disputed \in SUBSET AttemptIndex /\ BooksOf(x, list, disputed)
    BY BookFacts
  <2>. HIDE DEF x, i, p, list, disputed, challenger
  <2>3. /\ BooksOf(y, after, disputed)
        /\ y \in Bounty /\ z \in Attempt
        /\ list[i] = NoAttempt
        /\ z.status = "ACCEPTED" /\ z.challenger = challenger /\ ~z.rejection_counted
        /\ y.attempt_count = i + 1 /\ y.status = "OPEN"
        /\ z.bond_amount = x.required_bond /\ z.appeal_deadline = 0
        /\ y.creator = x.creator /\ SameTerms(x, y)
    BY ONLY <2>1, <2>2, FundingBooks
  <2>. QED
    BY <2>3 DEF list, disputed, challenger
<1>11. /\ attempts' \in [BountyId -> [AttemptIndex -> Attempt]]
       /\ attempts'[b] = after
       /\ \A c \in BountyId \ {b} : attempts'[c] = attempts[c]
  <2>1. after \in [AttemptIndex -> Attempt]
    <3>1. attempts[b] \in [AttemptIndex -> Attempt]
      BY DEF TypeOK
    <3>. QED
      BY <1>9, <1>10, <3>1 DEF Put
  <2>. QED
    BY <1>2, <2>1 DEF TypeOK
<1>12. /\ bounties' \in [BountyId -> Bounty]
       /\ bounties'[b] = y
       /\ \A c \in BountyId \ {b} : bounties'[c] = bounties[c]
  BY <1>1, <1>10 DEF TypeOK
<1>13. reputation' \in [Account -> Reputation]
  <2>1. reputation \in [Account -> Reputation]
    BY DEF TypeOK
  <2>2. Credit(reputation, p.challenger, "attempts_made", 1) \in [Account -> Reputation]
    BY <2>1, CreditType DEF REPUTATION_FIELD
  <2>. QED
    BY <1>4, <2>2
<1>14. reservations' \in [ReservationId -> AttemptReservation] /\ reservations'[r] = q
  BY <1>3, <1>7 DEF TypeOK
<1>15. TypeOK'
  BY <1>1, <1>11, <1>12, <1>13, <1>14 DEF TypeOK
<1>16. Books'
  BY <1>1, <1>10, <1>11, <1>12, Untouched
<1>17. FundingEffect(b, r, i, z, y, q)
  BY <1>1, <1>2, <1>3, <1>4, <1>8, <1>10 DEF FundingEffect
<1>. QED
  BY <1>1, <1>7, <1>10, <1>15, <1>16, <1>17

LEMMA TickKeeps ==
    ASSUME TypeOK, Books, Tick
    PROVE  TypeOK' /\ Books'
<1>1. ASSUME NEW b \in BountyId
      PROVE  /\ BooksOf(bounties'[b], attempts'[b], contested'[b])
             /\ bounties'[b] \in Bounty
             /\ attempts'[b] \in [AttemptIndex -> Attempt]
  <2>. DEFINE deadline == Elapsed(bounties[b].deadline, -LongestGrace)
  <2>1. deadline \in Int
    <3>1. bounties[b].deadline \in Int
      BY DEF TypeOK, Bounty
    <3>. QED
      BY <3>1 DEF Elapsed
  <2>2. bounties'[b] = IF bounties[b].status = "NONE" THEN bounties[b]
                       ELSE [bounties[b] EXCEPT !.deadline = deadline]
    BY DEF Tick
  <2>3. attempts'[b] = [i \in AttemptIndex |-> Later(attempts[b][i])]
    BY DEF Tick, Later
  <2>4. contested'[b] = contested[b]
    BY DEF Tick
  <2>. HIDE DEF deadline
  <2>. QED
    BY <2>1, <2>2, <2>3, <2>4, BookFacts, TickBooks
<1>2. Books'
  BY <1>1 DEF Books
<1>3. bounties' \in [BountyId -> Bounty]
  BY <1>1 DEF Tick
<1>4. attempts' \in [BountyId -> [AttemptIndex -> Attempt]]
  BY <1>1 DEF Tick
<1>5. reservations' \in [ReservationId -> AttemptReservation]
  <2>1. ASSUME NEW r \in ReservationId
        PROVE  reservations'[r] \in AttemptReservation
    <3>. DEFINE p == reservations[r]
                deadline == Elapsed(p.funding_deadline, -1)
    <3>1. p \in AttemptReservation
      BY DEF TypeOK
    <3>2. deadline \in Int
      <4>1. p.funding_deadline \in Int
        BY <3>1 DEF AttemptReservation
      <4>. QED
        BY <4>1 DEF Elapsed
    <3>3. reservations'[r] = [p EXCEPT !.funding_deadline = deadline]
      BY DEF Tick
    <3>. HIDE DEF p, deadline
    <3>. QED
      BY <3>1, <3>2, <3>3 DEF AttemptReservation
  <2>. QED
    BY <2>1 DEF Tick
<1>6. TypeOK'
  BY <1>3, <1>4, <1>5 DEF TypeOK, Tick
<1>. QED
  BY <1>2, <1>6

LEMMA StepsKeep ==
    ASSUME TypeOK, Books, [Next]_vars
    PROVE  TypeOK' /\ Books'
<1>1. CASE Next
  <2>1. StepKinds
    BY <1>1, Kinds
  <2>2. CASE Tick
    BY <2>2, TickKeeps
  <2>3. CASE OwnerStep
    BY <2>3 DEF OwnerStep, TypeOK, Books
  <2>4. ASSUME NEW r \in ReservationId, NEW q \in AttemptReservation, ReservationStep(r, q)
        PROVE  TypeOK' /\ Books'
    BY <2>4 DEF ReservationStep, TypeOK, Books
  <2>. QED
    BY <2>1, <2>2, <2>3, <2>4, BountyStepKeeps, FundingStep, AttemptStepKeeps, WinStepKeeps
       DEF StepKinds
<1>2. CASE UNCHANGED vars
  BY <1>2 DEF vars, TypeOK, Books
<1>. QED
  BY <1>1, <1>2

\* The contract is well typed whatever is called: no ledger, counter or payout is
\* negative, no share exceeds the whole, and the books of every bounty are in order.
THEOREM BooksHold == Spec => [](TypeOK /\ Books)
<1>1. Init => TypeOK /\ Books
  BY InitKeeps
<1>2. TypeOK /\ Books /\ [Next]_vars => TypeOK' /\ Books'
  BY StepsKeep
<1>. QED
  BY <1>1, <1>2, PTL DEF Spec

\* No method of the contract leaves a field outside its type.
THEOREM TypesHold == Spec => []TypeOK
<1>. QED
  BY BooksHold, PTL

\* The bond of an attempt is in the ledger until the outcome is decided, and not
\* after (_refund_attempt_bond, _forfeit_attempt_bond, _settle_reward_to_winner).
THEOREM BondsAreBalanced == Spec => []BondLedger
<1>1. TypeOK /\ Books => BondLedger
  BY DEF Books, BooksOf, AttemptBooks, LedgerBalanced, BondLedger
<1>. QED
  BY <1>1, BooksHold, PTL

\* One winner at most, who has the whole reward, and nobody left waiting for a
\* verdict (_settle_reward_to_winner, cancel_bounty, claim_creator_timeout).
THEOREM RacesAreDecided == Spec => []RaceIsDecided
<1>1. ASSUME TypeOK, Books, NEW b \in BountyId
      PROVE  /\ bounties[b].reward_deposited = IF IsOpen(b) THEN bounties[b].reward_amount ELSE 0
             /\ bounties[b].attempts_won = IF bounties[b].status = "SETTLED" THEN 1 ELSE 0
             /\ {i \in AttemptIndex : Wins(b, i)} =
                   IF bounties[b].status = "SETTLED" THEN {bounties[b].winning_attempt_index}
                   ELSE {}
             /\ \A i \in AttemptIndex :
                  /\ bounties[b].status = "SETTLED" => attempts[b][i].status \notin LIVE_STATES
                  /\ bounties[b].status \in {"NONE", "CANCELLED"} => attempts[b][i] = NoAttempt
  <2>1. BooksOf(bounties[b], attempts[b], contested[b]) /\ BountyBooks(bounties[b])
    BY <1>1, BookFacts, BountyRecord
  <2>2. /\ bounties[b].reward_deposited = IF IsOpen(b) THEN bounties[b].reward_amount ELSE 0
        /\ bounties[b].attempts_won = IF bounties[b].status = "SETTLED" THEN 1 ELSE 0
    BY <2>1 DEF BountyBooks, IsOpen
  <2>3. {i \in AttemptIndex : Wins(b, i)} =
           IF bounties[b].status = "SETTLED" THEN {bounties[b].winning_attempt_index} ELSE {}
    <3>1. \A i \in AttemptIndex :
            Wins(b, i) <=> /\ bounties[b].status = "SETTLED"
                           /\ i = bounties[b].winning_attempt_index
      BY <2>1 DEF BooksOf, Wins
    <3>2. bounties[b].status = "SETTLED" => bounties[b].winning_attempt_index \in AttemptIndex
      BY <2>1 DEF BooksOf
    <3>. QED
      BY <3>1, <3>2
  <2>4. ASSUME NEW i \in AttemptIndex, bounties[b].status \in {"NONE", "CANCELLED"}
        PROVE  attempts[b][i] = NoAttempt
    <3>1. bounties[b].attempt_count = 0
      BY <2>1, <2>4 DEF BountyBooks, NoBounty
    <3>2. i >= bounties[b].attempt_count
      BY <3>1, Indices
    <3>. QED
      BY <2>1, <3>2 DEF BooksOf
  <2>5. \A i \in AttemptIndex :
          bounties[b].status = "SETTLED" => attempts[b][i].status \notin LIVE_STATES
    BY <2>1 DEF BooksOf
  <2>. QED
    BY <2>2, <2>3, <2>4, <2>5
<1>2. TypeOK /\ Books => RaceIsDecided
  BY <1>1 DEF RaceIsDecided, OneWinner, NobodyLeftRacing
<1>. QED
  BY <1>2, BooksHold, PTL

\* claim_creator_timeout cannot take the reward from under a dispute, at any stage
\* of it or of its appeal (DISPUTE_IN_PROGRESS_STATES).
THEOREM DisputesAreProtected == Spec => []DisputesKeepReward
<1>1. TypeOK /\ Books => DisputesKeepReward
  BY DEF Books, BooksOf, DisputesKeepReward
<1>. QED
  BY <1>1, BooksHold, PTL

\* An appeal is heard only after its bond was funded on Base, and what
\* resolve_appeal decides names a party (confirm_appeal_binding, resolve_appeal).
THEOREM AppealsArePaid == Spec => []AppealsAreFunded
<1>1. ASSUME TypeOK, Books, NEW b \in BountyId, NEW i \in AttemptIndex
      PROVE  LET a == attempts[b][i] IN
             /\ a.status = "APPEALED" \/ a.appeal_bond_recipient # NoOne =>
                  /\ a.appealed_by # NoOne
                  /\ a.appeal_bond_deposited = a.bond_amount
                  /\ a.bond_amount > 0 => a.appeal_base_funding_tx_hash # NoHash
             /\ a.appeal_bond_recipient # NoOne =>
                  /\ a.status \in TERMINAL_STATES
                  /\ IsParty(a.appeal_bond_recipient, b, i)
  <2>1. AttemptBooks(bounties[b].creator, attempts[b][i])
    BY <1>1, Records
  <2>. QED
    BY <2>1 DEF AttemptBooks, AppealPaid, IsParty
<1>2. TypeOK /\ Books => AppealsAreFunded
  BY <1>1 DEF AppealsAreFunded
<1>. QED
  BY <1>2, BooksHold, PTL

-----------------------------------------------------------------------------
(* What a step may do to what was there. *)

\* The record a of an attempt becomes z.
Becomes(b, a, z) ==
    \/ z = a
    \/ z = Later(a)
    \/ Succeeds(bounties[b].creator, a, z)
    \/ a.status \in LIVE_STATES /\ z = [a EXCEPT !.status = "LOST_RACE"]
    \/ a = NoAttempt /\ z.status = "ACCEPTED"

LEMMA Effects ==
    ASSUME TypeOK, Books, [Next]_vars, NEW b \in BountyId
    PROVE  /\ bounties[b].status \notin {"NONE", "OPEN"} =>
                 bounties'[b] = [bounties[b] EXCEPT !.deadline = bounties'[b].deadline]
           /\ \A i \in AttemptIndex : Becomes(b, attempts[b][i], attempts'[b][i])
<1>1. bounties[b] \in Bounty /\ \A i \in AttemptIndex : attempts[b][i] \in Attempt
  BY DEF TypeOK
<1>2. bounties'[b] = bounties[b] =>
         bounties'[b] = [bounties[b] EXCEPT !.deadline = bounties'[b].deadline]
  BY <1>1 DEF Bounty
<1>3. ASSUME bounties' = bounties, attempts' = attempts
      PROVE  /\ bounties'[b] = bounties[b]
             /\ \A i \in AttemptIndex : Becomes(b, attempts[b][i], attempts'[b][i])
  BY <1>3 DEF Becomes
<1>4. CASE Tick
  <2>1. ASSUME bounties[b].status # "NONE"
        PROVE  bounties'[b] = [bounties[b] EXCEPT !.deadline = bounties'[b].deadline]
    <3>. DEFINE x == bounties[b]
                deadline == Elapsed(x.deadline, -LongestGrace)
    <3>1. bounties'[b] = [x EXCEPT !.deadline = deadline]
      BY <1>4, <2>1 DEF Tick
    <3>. HIDE DEF x, deadline
    <3>2. x \in Bounty
      BY <1>1 DEF x
    <3>3. bounties'[b].deadline = deadline
      BY <3>1, <3>2 DEF Bounty
    <3>. QED
      BY <3>1, <3>3 DEF x
  <2>2. \A i \in AttemptIndex : attempts'[b][i] = Later(attempts[b][i])
    BY <1>4 DEF Tick, Later
  <2>. QED
    BY <2>1, <2>2 DEF Becomes
<1>5. ASSUME NEW c \in BountyId, NEW y, BountyStep(c, y)
      PROVE  /\ bounties[b].status \notin {"NONE", "OPEN"} => bounties'[b] = bounties[b]
             /\ attempts' = attempts
  BY <1>5 DEF BountyStep, BountySucceeds, TypeOK
<1>6. ASSUME NEW sender, NEW c \in BountyId, NEW r \in ReservationId, NEW txHash \in TxHash,
             ConfirmAttemptFunding(sender, c, r, txHash)
      PROVE  /\ bounties[b].status \notin {"NONE", "OPEN"} => bounties'[b] = bounties[b]
             /\ \A i \in AttemptIndex : Becomes(b, attempts[b][i], attempts'[b][i])
  <2>0. PICK j \in AttemptIndex, z \in Attempt, y \in Bounty, q \in AttemptReservation :
          FundingEffect(c, r, j, z, y, q)
    BY <1>6, FundingStep
  <2>1. /\ bounties[c].status = "OPEN" /\ attempts[c][j] = NoAttempt
        /\ z.status = "ACCEPTED"
        /\ attempts' = [attempts EXCEPT ![c][j] = z]
        /\ bounties' = [bounties EXCEPT ![c] = y]
    BY <2>0 DEF FundingEffect
  <2>2. bounties[b].status \notin {"NONE", "OPEN"} => bounties'[b] = bounties[b]
    BY <2>1 DEF TypeOK
  <2>3. ASSUME NEW i \in AttemptIndex
        PROVE  Becomes(b, attempts[b][i], attempts'[b][i])
    <3>1. CASE b = c /\ i = j
      <4>1. attempts'[b][i] = z /\ attempts[b][i] = NoAttempt
        BY <2>1, <3>1 DEF TypeOK
      <4>. QED
        BY <2>1, <4>1 DEF Becomes
    <3>2. CASE ~(b = c /\ i = j)
      <4>1. attempts'[b][i] = attempts[b][i]
        BY <2>1, <3>2 DEF TypeOK
      <4>. QED
        BY <4>1 DEF Becomes
    <3>. QED
      BY <3>1, <3>2
  <2>. QED
    BY <2>2, <2>3
<1>7. ASSUME NEW c \in BountyId, NEW j \in AttemptIndex, NEW z, AttemptStep(c, j, z)
      PROVE  /\ bounties' = bounties
             /\ \A i \in AttemptIndex : Becomes(b, attempts[b][i], attempts'[b][i])
  <2>1. /\ Succeeds(bounties[c].creator, attempts[c][j], z)
        /\ attempts' = [attempts EXCEPT ![c][j] = z]
        /\ bounties' = bounties
    BY <1>7 DEF AttemptStep
  <2>2. ASSUME NEW i \in AttemptIndex
        PROVE  Becomes(b, attempts[b][i], attempts'[b][i])
    <3>1. CASE b = c /\ i = j
      <4>1. attempts'[b][i] = z
        BY <2>1, <3>1 DEF TypeOK
      <4>. QED
        BY <2>1, <3>1, <4>1 DEF Becomes
    <3>2. CASE ~(b = c /\ i = j)
      <4>1. attempts'[b][i] = attempts[b][i]
        BY <2>1, <3>2 DEF TypeOK
      <4>. QED
        BY <4>1 DEF Becomes
    <3>. QED
      BY <3>1, <3>2
  <2>. QED
    BY <2>1, <2>2
<1>8. ASSUME NEW c \in BountyId, NEW j \in AttemptIndex, NEW z, WinStep(c, j, z)
      PROVE  /\ bounties[b].status \notin {"NONE", "OPEN"} => bounties'[b] = bounties[b]
             /\ \A i \in AttemptIndex : Becomes(b, attempts[b][i], attempts'[b][i])
  <2>1. /\ Succeeds(bounties[c].creator, attempts[c][j], z)
        /\ bounties[c].status = "OPEN"
    BY <1>8 DEF WinStep, IsOpen
  <2>2. /\ attempts'[c][j] = z
        /\ \A i \in AttemptIndex \ {j} :
             attempts'[c][i] = IF attempts[c][i].status \in LIVE_STATES
                               THEN [attempts[c][i] EXCEPT !.status = "LOST_RACE"]
                               ELSE attempts[c][i]
        /\ \A d \in BountyId \ {c} : attempts'[d] = attempts[d] /\ bounties'[d] = bounties[d]
    BY <1>8, WinStepKeeps
  <2>3. bounties[b].status \notin {"NONE", "OPEN"} => bounties'[b] = bounties[b]
    BY <2>1, <2>2
  <2>4. ASSUME NEW i \in AttemptIndex
        PROVE  Becomes(b, attempts[b][i], attempts'[b][i])
    BY <2>1, <2>2 DEF Becomes
  <2>. QED
    BY <2>3, <2>4
<1>9. CASE Next
  <2>1. StepKinds
    BY <1>9, Kinds
  <2>2. CASE \/ OwnerStep
             \/ \E r \in ReservationId, q \in AttemptReservation : ReservationStep(r, q)
    BY <1>2, <1>3, <2>2 DEF OwnerStep, ReservationStep
  <2>3. ASSUME NEW c \in BountyId, NEW y, BountyStep(c, y)
        PROVE  \A i \in AttemptIndex : Becomes(b, attempts[b][i], attempts'[b][i])
    BY <1>5, <2>3 DEF Becomes
  <2>. QED
    BY <1>2, <1>4, <1>5, <1>6, <1>7, <1>8, <2>1, <2>2, <2>3 DEF StepKinds
<1>10. CASE UNCHANGED vars
  BY <1>2, <1>3, <1>10 DEF vars
<1>. QED
  BY <1>9, <1>10

\* The attempt that is over stays as it ended.
Kept(a, z) ==
    z = [a EXCEPT !.bond_deposited = z.bond_deposited,
                  !.appeal_deadline = z.appeal_deadline,
                  !.appeal_funding_deadline = z.appeal_funding_deadline]

LEMMA TerminalKept ==
    ASSUME NEW b, NEW a \in Attempt, NEW z, Becomes(b, a, z), a.status \in TERMINAL_STATES
    PROVE  Kept(a, z)
<1>1. CASE z = a
  BY <1>1 DEF Attempt, Kept
<1>2. CASE z = Later(a)
  <2>. DEFINE window == z.appeal_deadline
              funding == z.appeal_funding_deadline
  <2>1. z = [a EXCEPT !.appeal_deadline = window, !.appeal_funding_deadline = funding]
    BY <1>2, LaterFields
  <2>2. z.bond_deposited = a.bond_deposited
    BY <1>2, LaterFields
  <2>. HIDE DEF window, funding
  <2>3. z = [a EXCEPT !.bond_deposited = a.bond_deposited, !.appeal_deadline = window,
                      !.appeal_funding_deadline = funding]
    BY <2>1 DEF Attempt
  <2>. QED
    BY <2>2, <2>3 DEF Kept, window, funding
<1>3. CASE Succeeds(bounties[b].creator, a, z)
  <2>. DEFINE bond == z.bond_deposited
  <2>1. z = [a EXCEPT !.bond_deposited = bond] /\ z \in Attempt
    BY <1>3 DEF Succeeds
  <2>. HIDE DEF bond
  <2>2. /\ z.appeal_deadline = a.appeal_deadline
        /\ z.appeal_funding_deadline = a.appeal_funding_deadline
    BY <2>1 DEF Attempt
  <2>3. z = [a EXCEPT !.bond_deposited = bond, !.appeal_deadline = a.appeal_deadline,
                      !.appeal_funding_deadline = a.appeal_funding_deadline]
    BY <2>1 DEF Attempt
  <2>. QED
    BY <2>2, <2>3 DEF Kept, bond
<1>4. a.status \notin LIVE_STATES /\ a # NoAttempt
  <2>1. NoAttempt.status = "NONE"
    BY DEF NoAttempt
  <2>. QED
    BY <2>1 DEF TERMINAL_STATES, LIVE_STATES
<1>. QED
  BY <1>1, <1>2, <1>3, <1>4 DEF Becomes

\* A decision is never revised: of an attempt that is over only the bond of a lost
\* race still moves, of a bounty that is over nothing (every write method).
THEOREM DecisionsStay == Spec => DecisionsAreFinal
<1>1. ASSUME TypeOK, Books, [Next]_vars, NEW b \in BountyId
      PROVE  /\ bounties[b].status \notin {"NONE", "OPEN"} =>
                  bounties'[b] = [bounties[b] EXCEPT !.deadline = bounties'[b].deadline]
             /\ \A i \in AttemptIndex :
                  attempts[b][i].status \in TERMINAL_STATES =>
                     Kept(attempts[b][i], attempts'[b][i])
  BY <1>1, Effects, TerminalKept, Records
<1>2. TypeOK /\ Books /\ [Next]_vars =>
        [\A b \in BountyId :
           /\ bounties[b].status \notin {"NONE", "OPEN"} =>
                 bounties'[b] = [bounties[b] EXCEPT !.deadline = bounties'[b].deadline]
           /\ \A i \in AttemptIndex :
                 LET a == attempts[b][i] IN
                 a.status \in TERMINAL_STATES =>
                    attempts'[b][i] =
                       [a EXCEPT !.bond_deposited = attempts'[b][i].bond_deposited,
                                 !.appeal_deadline = attempts'[b][i].appeal_deadline,
                                 !.appeal_funding_deadline =
                                     attempts'[b][i].appeal_funding_deadline]]_vars
  BY <1>1 DEF Kept
<1>. QED
  BY <1>2, BooksHold, PTL DEF Spec, DecisionsAreFinal

\* The bond of an appeal follows the outcome of the attempt, however the verdicts
\* are spelled: the appellant loses it exactly when the outcome is the one the
\* arbiter had ruled (resolve_appeal, _human_verdict_matches_ai_outcome).
THEOREM AppealBondsFollow == Spec => AppealBondFollowsOutcome
<1>1. ASSUME TypeOK, Books, [Next]_vars, NEW b \in BountyId, NEW i \in AttemptIndex,
             attempts[b][i].status = "APPEALED",
             attempts'[b][i].status \in TERMINAL_STATES \ {"LOST_RACE"}
      PROVE  attempts'[b][i].appeal_bond_recipient =
                IF AsRuled(attempts[b][i], attempts'[b][i]) THEN Counterparty(b, attempts[b][i])
                ELSE attempts[b][i].appealed_by
  <2>. DEFINE a == attempts[b][i]
              z == attempts'[b][i]
  <2>1. Becomes(b, a, z) /\ a \in Attempt
    BY <1>1, Effects, Records
  <2>2. /\ a.status = "APPEALED" /\ a.status \notin TERMINAL_STATES \cup LIVE_STATES
        /\ z.status \in TERMINAL_STATES \ {"LOST_RACE"}
        /\ a # NoAttempt
    <3>1. NoAttempt.status = "NONE"
      BY DEF NoAttempt
    <3>. QED
      BY <1>1, <3>1 DEF TERMINAL_STATES, LIVE_STATES
  <2>3. z # a /\ z # Later(a)
    BY <2>1, <2>2, LaterFields
  <2>4. Succeeds(bounties[b].creator, a, z)
    BY <2>1, <2>2, <2>3 DEF Becomes
  <2>. QED
    BY <2>2, <2>4 DEF Succeeds, Counterparty
<1>2. TypeOK /\ Books /\ [Next]_vars =>
        [\A b \in BountyId, i \in AttemptIndex :
           LET a == attempts[b][i]
               z == attempts'[b][i]
               asRuled ==
                 \/ a.pending_arbiter_verdict = "REJECT" /\ z.status = "BOND_FORFEITED"
                 \/ /\ a.pending_arbiter_verdict = "APPROVE"
                    /\ z.status = "WON" /\ z.last_payout_bps = BPS_DENOMINATOR
                 \/ /\ a.pending_arbiter_verdict = "PARTIAL"
                    /\ z.status = "WON" /\ z.last_payout_bps = a.pending_payout_bps
           IN  a.status = "APPEALED" /\ z.status \in TERMINAL_STATES \ {"LOST_RACE"} =>
                  z.appeal_bond_recipient =
                      IF asRuled THEN Counterparty(b, a) ELSE a.appealed_by]_vars
  BY <1>1 DEF AsRuled
<1>. QED
  BY <1>2, BooksHold, PTL DEF Spec, AppealBondFollowsOutcome

-----------------------------------------------------------------------------
(* Attempts and the reservations they came from. *)

Origin(b, i) ==
    {r \in ReservationId : /\ reservations[r].status = "ACTIVATED"
                           /\ reservations[r].bounty_id = b
                           /\ reservations[r].activated_attempt_index = i}

\* Attempt i of bounty b came from one reservation of its challenger.
Reserved(b, i) ==
    IF i < bounties[b].attempt_count
    THEN /\ attempts[b][i].status # "NONE"
         /\ \E r \in Origin(b, i) : /\ Origin(b, i) = {r}
                                    /\ reservations[r].challenger = attempts[b][i].challenger
    ELSE attempts[b][i] = NoAttempt /\ Origin(b, i) = {}

\* An attempt that exists keeps its challenger.
LEMMA ChallengerKept ==
    ASSUME NEW b, NEW a \in Attempt, NEW z, Becomes(b, a, z), a.status # "NONE"
    PROVE  z.challenger = a.challenger
<1>1. CASE z = Later(a)
  BY <1>1, LaterFields
<1>2. CASE Succeeds(bounties[b].creator, a, z)
  BY <1>2 DEF Succeeds
<1>3. CASE z = [a EXCEPT !.status = "LOST_RACE"]
  BY <1>3 DEF Attempt
<1>4. a # NoAttempt
  <2>1. NoAttempt.status = "NONE"
    BY DEF NoAttempt
  <2>. QED
    BY <2>1
<1>. QED
  BY <1>1, <1>2, <1>3, <1>4 DEF Becomes

\* The attempts that exist are those below the count of their bounty.
LEMMA Numbered ==
    ASSUME TypeOK, Books, NEW b \in BountyId, NEW i \in AttemptIndex
    PROVE  /\ i \in Nat /\ bounties[b].attempt_count \in Nat
           /\ i < bounties[b].attempt_count <=> attempts[b][i].status # "NONE"
           /\ ~(i < bounties[b].attempt_count) => attempts[b][i] = NoAttempt
<1>1. i \in Nat /\ bounties[b].attempt_count \in Nat
  BY Indices DEF TypeOK, Bounty
<1>2. /\ i < bounties[b].attempt_count => attempts[b][i].status # "NONE"
      /\ i >= bounties[b].attempt_count => attempts[b][i] = NoAttempt
  BY BookFacts DEF BooksOf
<1>3. NoAttempt.status = "NONE"
  BY DEF NoAttempt
<1>. QED
  BY <1>1, <1>2, <1>3

\* What is behind an attempt, after a step that activates no reservation for it.
LEMMA StillReserved ==
    ASSUME TypeOK, Books, [Next]_vars, NEW b \in BountyId, NEW i \in AttemptIndex,
           Reserved(b, i),
           i < bounties'[b].attempt_count <=> i < bounties[b].attempt_count,
           \A r \in ReservationId :
             /\ r \in Origin(b, i)' <=> r \in Origin(b, i)
             /\ r \in Origin(b, i) => reservations'[r].challenger = reservations[r].challenger
    PROVE  Reserved(b, i)'
<1>1. TypeOK' /\ Books'
  BY StepsKeep
<1>2. /\ i < bounties'[b].attempt_count <=> attempts'[b][i].status # "NONE"
      /\ ~(i < bounties'[b].attempt_count) => attempts'[b][i] = NoAttempt
  <2>1. i \in Nat /\ bounties'[b].attempt_count \in Nat
    BY <1>1, Indices DEF TypeOK, Bounty
  <2>2. /\ i < bounties'[b].attempt_count => attempts'[b][i].status # "NONE"
        /\ i >= bounties'[b].attempt_count => attempts'[b][i] = NoAttempt
    BY <1>1 DEF Books, BooksOf
  <2>3. NoAttempt.status = "NONE"
    BY DEF NoAttempt
  <2>. QED
    BY <2>1, <2>2, <2>3
<1>3. Origin(b, i)' = Origin(b, i)
  <2>1. Origin(b, i)' \subseteq ReservationId /\ Origin(b, i) \subseteq ReservationId
    BY DEF Origin
  <2>. QED
    BY <2>1
<1>4. attempts[b][i].status # "NONE" =>
         attempts'[b][i].challenger = attempts[b][i].challenger
  <2>1. attempts[b][i] \in Attempt /\ Becomes(b, attempts[b][i], attempts'[b][i])
    BY Effects, Records
  <2>. QED
    BY <2>1, ChallengerKept
<1>5. \A r \in Origin(b, i) : reservations'[r].challenger = reservations[r].challenger
  BY DEF Origin
<1>. QED
  BY <1>2, <1>3, <1>4, <1>5 DEF Reserved
\* The funding of one attempt.
LEMMA FundingReserves ==
    ASSUME TypeOK, Books, [Next]_vars, NEW b \in BountyId, NEW i \in AttemptIndex,
           Reserved(b, i),
           NEW sender, NEW c \in BountyId, NEW r \in ReservationId, NEW txHash \in TxHash,
           ConfirmAttemptFunding(sender, c, r, txHash)
    PROVE  Reserved(b, i)'
<1>0. PICK j \in AttemptIndex, z \in Attempt, y \in Bounty, q \in AttemptReservation :
        FundingEffect(c, r, j, z, y, q)
  BY FundingStep
<1>1. /\ j = bounties[c].attempt_count /\ y.attempt_count = j + 1
      /\ z.status = "ACCEPTED" /\ z.challenger = reservations[r].challenger
      /\ attempts' = [attempts EXCEPT ![c][j] = z]
      /\ bounties' = [bounties EXCEPT ![c] = y]
      /\ reservations[r].status = "PENDING"
      /\ q.status = "ACTIVATED" /\ q.bounty_id = c
      /\ q.challenger = reservations[r].challenger
      /\ q.activated_attempt_index = j
      /\ reservations' = [reservations EXCEPT ![r] = q]
  BY <1>0 DEF FundingEffect
<1>2. reservations'[r] = q /\ \A s \in ReservationId \ {r} : reservations'[s] = reservations[s]
  BY <1>1 DEF TypeOK
<1>3. j \in Nat /\ i \in Nat
  BY Indices
<1>4. bounties'[c] = y /\ \A d \in BountyId \ {c} : bounties'[d] = bounties[d]
  BY <1>1 DEF TypeOK
<1>5. CASE b = c /\ i = j
  <2>1. attempts'[b][i] = z
    BY <1>1, <1>5 DEF TypeOK
  <2>2. i < bounties'[b].attempt_count
    BY <1>1, <1>3, <1>4, <1>5
  <2>3. Origin(b, i) = {}
    BY <1>1, <1>3, <1>5 DEF Reserved
  <2>4. Origin(b, i)' = {r}
    <3>1. r \in Origin(b, i)'
      BY <1>1, <1>2, <1>5 DEF Origin
    <3>2. ASSUME NEW s \in ReservationId \ {r}
          PROVE  s \notin Origin(b, i)'
      BY <1>2, <2>3, <3>2 DEF Origin
    <3>3. Origin(b, i)' \subseteq ReservationId
      BY DEF Origin
    <3>. QED
      BY <3>1, <3>2, <3>3
  <2>. QED
    BY <1>1, <1>2, <2>1, <2>2, <2>4 DEF Reserved
<1>6. CASE ~(b = c /\ i = j)
  <2>1. i < bounties'[b].attempt_count <=> i < bounties[b].attempt_count
    BY <1>1, <1>3, <1>4, <1>6
  <2>2. ASSUME NEW s \in ReservationId
        PROVE  /\ s \in Origin(b, i)' <=> s \in Origin(b, i)
               /\ s \in Origin(b, i) => reservations'[s].challenger = reservations[s].challenger
    BY <1>1, <1>2, <1>6 DEF Origin
  <2>. QED
    BY <2>1, <2>2, StillReserved
<1>. QED
  BY <1>5, <1>6

LEMMA ReservedKeeps ==
    ASSUME TypeOK, Books, [Next]_vars, NEW b \in BountyId, NEW i \in AttemptIndex,
           Reserved(b, i)
    PROVE  Reserved(b, i)'
<1>1. ASSUME bounties'[b].attempt_count = bounties[b].attempt_count,
             reservations' = reservations
      PROVE  Reserved(b, i)'
  <2>1. ASSUME NEW s \in ReservationId
        PROVE  s \in Origin(b, i)' <=> s \in Origin(b, i)
    BY <1>1 DEF Origin
  <2>. QED
    BY <1>1, <2>1, StillReserved
<1>2. bounties[b] \in Bounty
  BY DEF TypeOK
<1>3. CASE Tick
  <2>1. bounties'[b].attempt_count = bounties[b].attempt_count
    BY <1>2, <1>3 DEF Tick, Bounty
  <2>2. ASSUME NEW s \in ReservationId
        PROVE  /\ reservations'[s].status = reservations[s].status
               /\ reservations'[s].bounty_id = reservations[s].bounty_id
               /\ reservations'[s].challenger = reservations[s].challenger
               /\ reservations'[s].activated_attempt_index =
                    reservations[s].activated_attempt_index
    BY <1>3 DEF Tick, TypeOK, AttemptReservation
  <2>3. ASSUME NEW s \in ReservationId
        PROVE  /\ s \in Origin(b, i)' <=> s \in Origin(b, i)
               /\ reservations'[s].challenger = reservations[s].challenger
    BY <2>2 DEF Origin
  <2>. QED
    BY <2>1, <2>3, StillReserved
<1>4. ASSUME NEW r \in ReservationId, NEW q, ReservationStep(r, q)
      PROVE  Reserved(b, i)'
  <2>1. /\ bounties' = bounties
        /\ reservations[r].status # "ACTIVATED" /\ reservations'[r].status # "ACTIVATED"
        /\ \A s \in ReservationId \ {r} : reservations'[s] = reservations[s]
    BY <1>4 DEF ReservationStep, TypeOK
  <2>2. ASSUME NEW s \in ReservationId
        PROVE  /\ s \in Origin(b, i)' <=> s \in Origin(b, i)
               /\ s \in Origin(b, i) => reservations'[s].challenger = reservations[s].challenger
    BY <2>1 DEF Origin
  <2>. QED
    BY <2>1, <2>2, StillReserved
<1>5. ASSUME NEW c \in BountyId, NEW y, BountyStep(c, y)
      PROVE  Reserved(b, i)'
  <2>1. /\ bounties' = [bounties EXCEPT ![c] = y] /\ y.attempt_count = bounties[c].attempt_count
        /\ reservations' = reservations
    BY <1>5 DEF BountyStep, BountySucceeds
  <2>2. bounties'[b].attempt_count = bounties[b].attempt_count
    BY <2>1 DEF TypeOK
  <2>. QED
    BY <1>1, <2>1, <2>2
<1>6. ASSUME NEW c \in BountyId, NEW j \in AttemptIndex, NEW z, AttemptStep(c, j, z)
      PROVE  Reserved(b, i)'
  BY <1>1, <1>6 DEF AttemptStep
<1>7. ASSUME NEW c \in BountyId, NEW j \in AttemptIndex, NEW z, WinStep(c, j, z)
      PROVE  Reserved(b, i)'
  <2>1. bounties' = [bounties EXCEPT ![c] = Settled(c, j)] /\ reservations' = reservations
    BY <1>7 DEF WinStep
  <2>2. bounties[c] \in Bounty
    BY DEF TypeOK
  <2>3. Settled(c, j).attempt_count = bounties[c].attempt_count
    BY <2>2 DEF Settled, Bounty
  <2>4. bounties'[b].attempt_count = bounties[b].attempt_count
    BY <2>1, <2>3 DEF TypeOK
  <2>. QED
    BY <1>1, <2>1, <2>4
<1>8. CASE Next
  <2>1. StepKinds
    BY <1>8, Kinds
  <2>2. CASE OwnerStep
    BY <1>1, <2>2 DEF OwnerStep
  <2>. QED
    BY <1>3, <1>4, <1>5, <1>6, <1>7, <2>1, <2>2, FundingReserves DEF StepKinds
<1>9. CASE UNCHANGED vars
  BY <1>1, <1>9 DEF vars
<1>. QED
  BY <1>8, <1>9

LEMMA InitReserved ==
    ASSUME Init, NEW b \in BountyId, NEW i \in AttemptIndex
    PROVE  Reserved(b, i)
<1>1. bounties[b].attempt_count = 0 /\ attempts[b][i] = NoAttempt /\ i \in Nat
  BY Indices DEF Init, NoBounty
<1>2. \A r \in ReservationId : reservations[r].status = "NONE"
  BY DEF Init, UnissuedReservation
<1>3. Origin(b, i) = {}
  BY <1>2 DEF Origin
<1>. QED
  BY <1>1, <1>3 DEF Reserved

\* Every attempt is the activation of exactly one reservation, of its challenger and
\* for its bounty: no replayed confirmation makes two attempts of one bond, and no
\* attempt appears without one (confirm_attempt_funding).
THEOREM AttemptsAreReserved == Spec => []AttemptsComeFromReservations
<1>. DEFINE AllReserved == \A b \in BountyId, i \in AttemptIndex : Reserved(b, i)
<1>1. Init => AllReserved
  BY InitReserved
<1>2. TypeOK /\ Books /\ AllReserved /\ [Next]_vars => AllReserved'
  <2>1. ASSUME TypeOK, Books, AllReserved, [Next]_vars,
               NEW b \in BountyId, NEW i \in AttemptIndex
        PROVE  Reserved(b, i)'
    BY <2>1, ReservedKeeps
  <2>. QED
    BY <2>1
<1>3. AllReserved => AttemptsComeFromReservations
  BY DEF Reserved, Origin, AttemptsComeFromReservations
<1>. HIDE DEF AllReserved
<1>. QED
  BY <1>1, <1>2, <1>3, BooksHold, PTL DEF Spec
-----------------------------------------------------------------------------
(* Reputation is the record of what was attempted. *)

Attempted == BountyId \X AttemptIndex

\* All that is counted of an attempt.
SameCount(a, z) ==
    /\ z.challenger = a.challenger
    /\ z.status = "WON" <=> a.status = "WON"
    /\ a.status = "WON" => z.last_payout_bps = a.last_payout_bps
    /\ z.rejection_counted = a.rejection_counted

Recorded(x) ==
    /\ IsFiniteSet(AttemptOf(x))
    /\ reputation[x].attempts_made = Cardinality(AttemptOf(x))
    /\ reputation[x].attempts_won = Cardinality(WonBy(x))
    /\ reputation[x].attempts_partial = Cardinality(PartlyWonBy(x))
    /\ reputation[x].attempts_rejected = Cardinality(StruckOf(x))

\* What is counted when e joins a set, or nothing does.
LEMMA CountOne ==
    ASSUME NEW U, NEW S \in SUBSET U, IsFiniteSet(S), NEW T \in SUBSET U, NEW e \in U,
           NEW now \in BOOLEAN, now => e \notin S, e \in T <=> e \in S \/ now,
           \A d \in U \ {e} : d \in T <=> d \in S
    PROVE  IsFiniteSet(T) /\ Cardinality(T) = Cardinality(S) + IF now THEN 1 ELSE 0
<1>1. CASE now
  <2>1. T = S \cup {e}
    BY <1>1
  <2>. QED
    BY <1>1, <2>1, FS_AddElement
<1>2. CASE ~now
  <2>1. T = S
    BY <1>2
  <2>. QED
    BY <1>2, <2>1, FS_CardinalityType
<1>. QED
  BY <1>1, <1>2

LEMMA FiniteRecord ==
    ASSUME NEW x, IsFiniteSet(AttemptOf(x))
    PROVE  IsFiniteSet(WonBy(x)) /\ IsFiniteSet(PartlyWonBy(x)) /\ IsFiniteSet(StruckOf(x))
BY FS_Subset DEF WonBy, PartlyWonBy, StruckOf

\* The record after a step in which at most attempt e counts for something new.
LEMMA RecordGrows ==
    ASSUME NEW x \in Account, Recorded(x), NEW e \in Attempted,
           \A d \in Attempted \ {e} : SameCount(Of(d), Of(d)'),
           NEW made \in BOOLEAN, NEW won \in BOOLEAN, NEW partial \in BOOLEAN,
           NEW struck \in BOOLEAN,
           made => e \notin AttemptOf(x),
           won => e \notin WonBy(x),
           partial => e \notin PartlyWonBy(x),
           struck => e \notin StruckOf(x),
           e \in AttemptOf(x)' <=> e \in AttemptOf(x) \/ made,
           e \in WonBy(x)' <=> e \in WonBy(x) \/ won,
           e \in PartlyWonBy(x)' <=> e \in PartlyWonBy(x) \/ partial,
           e \in StruckOf(x)' <=> e \in StruckOf(x) \/ struck,
           reputation'[x].attempts_made =
              reputation[x].attempts_made + IF made THEN 1 ELSE 0,
           reputation'[x].attempts_won =
              reputation[x].attempts_won + IF won THEN 1 ELSE 0,
           reputation'[x].attempts_partial =
              reputation[x].attempts_partial + IF partial THEN 1 ELSE 0,
           reputation'[x].attempts_rejected =
              reputation[x].attempts_rejected + IF struck THEN 1 ELSE 0
    PROVE  Recorded(x)'
<1>1. ASSUME NEW d \in Attempted \ {e}
      PROVE  /\ d \in AttemptOf(x)' <=> d \in AttemptOf(x)
             /\ d \in WonBy(x)' <=> d \in WonBy(x)
             /\ d \in PartlyWonBy(x)' <=> d \in PartlyWonBy(x)
             /\ d \in StruckOf(x)' <=> d \in StruckOf(x)
  <2>1. SameCount(Of(d), Of(d)')
    OBVIOUS
  <2>2. d \in BountyId \X AttemptIndex
    BY DEF Attempted
  <2>. QED
    BY <2>1, <2>2 DEF SameCount, AttemptOf, WonBy, PartlyWonBy, StruckOf
<1>2. /\ AttemptOf(x) \subseteq Attempted /\ AttemptOf(x)' \subseteq Attempted
      /\ WonBy(x) \subseteq Attempted /\ WonBy(x)' \subseteq Attempted
      /\ PartlyWonBy(x) \subseteq Attempted /\ PartlyWonBy(x)' \subseteq Attempted
      /\ StruckOf(x) \subseteq Attempted /\ StruckOf(x)' \subseteq Attempted
  BY DEF AttemptOf, WonBy, PartlyWonBy, StruckOf, Attempted
<1>3. /\ IsFiniteSet(AttemptOf(x)) /\ IsFiniteSet(WonBy(x))
      /\ IsFiniteSet(PartlyWonBy(x)) /\ IsFiniteSet(StruckOf(x))
  BY FiniteRecord DEF Recorded
<1>4. /\ IsFiniteSet(AttemptOf(x)')
      /\ Cardinality(AttemptOf(x)') = Cardinality(AttemptOf(x)) + IF made THEN 1 ELSE 0
  <2>. DEFINE S == AttemptOf(x)
              T == AttemptOf(x)'
  <2>1. S \in SUBSET Attempted /\ T \in SUBSET Attempted /\ IsFiniteSet(S)
    BY <1>2, <1>3
  <2>2. /\ made => e \notin S
        /\ e \in T <=> e \in S \/ made
        /\ \A d \in Attempted \ {e} : d \in T <=> d \in S
    BY <1>1
  <2>. HIDE DEF S, T
  <2>3. IsFiniteSet(T) /\ Cardinality(T) = Cardinality(S) + IF made THEN 1 ELSE 0
    BY ONLY <2>1, <2>2, CountOne, e \in Attempted, made \in BOOLEAN
  <2>. QED
    BY <2>3 DEF S, T
<1>5. /\ IsFiniteSet(WonBy(x)')
      /\ Cardinality(WonBy(x)') = Cardinality(WonBy(x)) + IF won THEN 1 ELSE 0
  <2>. DEFINE S == WonBy(x)
              T == WonBy(x)'
  <2>1. S \in SUBSET Attempted /\ T \in SUBSET Attempted /\ IsFiniteSet(S)
    BY <1>2, <1>3
  <2>2. /\ won => e \notin S
        /\ e \in T <=> e \in S \/ won
        /\ \A d \in Attempted \ {e} : d \in T <=> d \in S
    BY <1>1
  <2>. HIDE DEF S, T
  <2>3. IsFiniteSet(T) /\ Cardinality(T) = Cardinality(S) + IF won THEN 1 ELSE 0
    BY ONLY <2>1, <2>2, CountOne, e \in Attempted, won \in BOOLEAN
  <2>. QED
    BY <2>3 DEF S, T
<1>6. /\ IsFiniteSet(PartlyWonBy(x)')
      /\ Cardinality(PartlyWonBy(x)') = Cardinality(PartlyWonBy(x)) + IF partial THEN 1 ELSE 0
  <2>. DEFINE S == PartlyWonBy(x)
              T == PartlyWonBy(x)'
  <2>1. S \in SUBSET Attempted /\ T \in SUBSET Attempted /\ IsFiniteSet(S)
    BY <1>2, <1>3
  <2>2. /\ partial => e \notin S
        /\ e \in T <=> e \in S \/ partial
        /\ \A d \in Attempted \ {e} : d \in T <=> d \in S
    BY <1>1
  <2>. HIDE DEF S, T
  <2>3. IsFiniteSet(T) /\ Cardinality(T) = Cardinality(S) + IF partial THEN 1 ELSE 0
    BY ONLY <2>1, <2>2, CountOne, e \in Attempted, partial \in BOOLEAN
  <2>. QED
    BY <2>3 DEF S, T
<1>7. /\ IsFiniteSet(StruckOf(x)')
      /\ Cardinality(StruckOf(x)') = Cardinality(StruckOf(x)) + IF struck THEN 1 ELSE 0
  <2>. DEFINE S == StruckOf(x)
              T == StruckOf(x)'
  <2>1. S \in SUBSET Attempted /\ T \in SUBSET Attempted /\ IsFiniteSet(S)
    BY <1>2, <1>3
  <2>2. /\ struck => e \notin S
        /\ e \in T <=> e \in S \/ struck
        /\ \A d \in Attempted \ {e} : d \in T <=> d \in S
    BY <1>1
  <2>. HIDE DEF S, T
  <2>3. IsFiniteSet(T) /\ Cardinality(T) = Cardinality(S) + IF struck THEN 1 ELSE 0
    BY ONLY <2>1, <2>2, CountOne, e \in Attempted, struck \in BOOLEAN
  <2>. QED
    BY <2>3 DEF S, T
<1>. QED
  BY <1>4, <1>5, <1>6, <1>7 DEF Recorded

LEMMA NothingRecorded ==
    ASSUME NEW x \in Account, Recorded(x),
           \A d \in Attempted : SameCount(Of(d), Of(d)'),
           reputation'[x].attempts_made = reputation[x].attempts_made,
           reputation'[x].attempts_won = reputation[x].attempts_won,
           reputation'[x].attempts_partial = reputation[x].attempts_partial,
           reputation'[x].attempts_rejected = reputation[x].attempts_rejected
    PROVE  Recorded(x)'
<1>1. AttemptOf(x)' = AttemptOf(x)
  BY DEF SameCount, AttemptOf, Attempted
<1>2. WonBy(x)' = WonBy(x) /\ StruckOf(x)' = StruckOf(x)
  <2>1. AttemptOf(x) \subseteq Attempted
    BY DEF AttemptOf, Attempted
  <2>. QED
    BY <1>1, <2>1 DEF SameCount, WonBy, StruckOf
<1>3. PartlyWonBy(x)' = PartlyWonBy(x)
  <2>1. \A d \in WonBy(x) : d \in Attempted /\ Of(d).status = "WON"
    BY DEF AttemptOf, WonBy, Attempted
  <2>. QED
    BY <1>2, <2>1 DEF SameCount, PartlyWonBy
<1>. QED
  BY <1>1, <1>2, <1>3 DEF Recorded

\* A step that changes what is counted of attempt i of bounty b only.
LEMMA CountedStep ==
    ASSUME TypeOK, NEW x \in Account, Recorded(x),
           NEW b \in BountyId, NEW i \in AttemptIndex, NEW z,
           Succeeds(bounties[b].creator, attempts[b][i], z), Counted(attempts[b][i], z),
           attempts'[b][i] = z,
           \A d \in Attempted \ {<<b, i>>} : SameCount(Of(d), Of(d)')
    PROVE  Recorded(x)'
<1>. DEFINE e == <<b, i>>
            a == attempts[b][i]
            made == FALSE
            won == x = a.challenger /\ z.status = "WON"
            partial == x = a.challenger /\ z.status = "WON" /\ z.last_payout_bps < BPS_DENOMINATOR
            struck == x = a.challenger /\ z.rejection_counted /\ ~a.rejection_counted
<1>1. e \in Attempted /\ Of(e) = a /\ Of(e)' = z
  BY DEF Attempted, Of
<1>2. /\ z.challenger = a.challenger /\ a.status # "WON"
      /\ a.rejection_counted => z.rejection_counted
      /\ a.rejection_counted \in BOOLEAN /\ z.rejection_counted \in BOOLEAN
  <2>1. a \in Attempt
    BY DEF TypeOK
  <2>2. /\ z.challenger = a.challenger /\ a.status # "WON" /\ z \in Attempt
        /\ a.rejection_counted => z.rejection_counted
    BY DEF Succeeds
  <2>. HIDE DEF a
  <2>3. a.rejection_counted \in BOOLEAN /\ z.rejection_counted \in BOOLEAN
    BY <2>1, <2>2 DEF Attempt
  <2>. QED
    BY <2>2, <2>3
<1>3. /\ reputation[x].attempts_made \in Nat
      /\ reputation'[x].attempts_made = reputation[x].attempts_made
      /\ reputation'[x].attempts_won = reputation[x].attempts_won + IF won THEN 1 ELSE 0
      /\ reputation'[x].attempts_partial =
            reputation[x].attempts_partial + IF partial THEN 1 ELSE 0
      /\ reputation'[x].attempts_rejected =
            reputation[x].attempts_rejected + IF struck THEN 1 ELSE 0
  BY DEF Counted, TypeOK, Reputation
<1>4. /\ e \in AttemptOf(x) <=> a.challenger = x
      /\ e \in AttemptOf(x)' <=> z.challenger = x
      /\ e \in WonBy(x) <=> e \in AttemptOf(x) /\ a.status = "WON"
      /\ e \in WonBy(x)' <=> e \in AttemptOf(x)' /\ z.status = "WON"
      /\ e \in PartlyWonBy(x) <=> e \in WonBy(x) /\ a.last_payout_bps < BPS_DENOMINATOR
      /\ e \in PartlyWonBy(x)' <=> e \in WonBy(x)' /\ z.last_payout_bps < BPS_DENOMINATOR
      /\ e \in StruckOf(x) <=> e \in AttemptOf(x) /\ a.rejection_counted
      /\ e \in StruckOf(x)' <=> e \in AttemptOf(x)' /\ z.rejection_counted
  <2>. HIDE DEF e, a
  <2>. QED
    BY <1>1 DEF AttemptOf, WonBy, PartlyWonBy, StruckOf, Attempted
<1>5. \A d \in Attempted \ {e} : SameCount(Of(d), Of(d)')
  OBVIOUS
<1>6. /\ made => e \notin AttemptOf(x)
      /\ won => e \notin WonBy(x)
      /\ partial => e \notin PartlyWonBy(x)
      /\ struck => e \notin StruckOf(x)
      /\ e \in AttemptOf(x)' <=> e \in AttemptOf(x) \/ made
      /\ e \in WonBy(x)' <=> e \in WonBy(x) \/ won
      /\ e \in PartlyWonBy(x)' <=> e \in PartlyWonBy(x) \/ partial
      /\ e \in StruckOf(x)' <=> e \in StruckOf(x) \/ struck
  <2>. HIDE DEF e, a
  <2>. QED
    BY <1>2, <1>4
<1>7. /\ made \in BOOLEAN /\ won \in BOOLEAN /\ partial \in BOOLEAN /\ struck \in BOOLEAN
      /\ reputation'[x].attempts_made = reputation[x].attempts_made + IF made THEN 1 ELSE 0
  BY <1>2, <1>3
<1>. HIDE DEF e, a, made, won, partial, struck
<1>. QED
  BY ONLY <1>1, <1>3, <1>5, <1>6, <1>7, RecordGrows, x \in Account, Recorded(x)
\* A new attempt is counted for its challenger.
LEMMA FundingRecorded ==
    ASSUME TypeOK, Books, NEW x \in Account, Recorded(x),
           NEW sender, NEW b \in BountyId, NEW r \in ReservationId, NEW txHash \in TxHash,
           ConfirmAttemptFunding(sender, b, r, txHash)
    PROVE  Recorded(x)'
<1>1. PICK i \in AttemptIndex, z \in Attempt, y \in Bounty, q \in AttemptReservation :
        FundingEffect(b, r, i, z, y, q)
  BY FundingStep
<1>2. /\ attempts[b][i] = NoAttempt
      /\ z.status = "ACCEPTED" /\ ~z.rejection_counted
      /\ attempts' = [attempts EXCEPT ![b][i] = z]
      /\ reputation' = Credit(reputation, z.challenger, "attempts_made", 1)
  BY <1>1 DEF FundingEffect
<1>. DEFINE e == <<b, i>>
            made == x = z.challenger
            won == FALSE
            partial == FALSE
            struck == FALSE
<1>3. /\ NoAttempt.status = "NONE" /\ NoAttempt.challenger = NoOne
      /\ NoAttempt.rejection_counted = FALSE
  BY DEF NoAttempt
<1>4. /\ e \in Attempted /\ Of(e) = NoAttempt /\ Of(e)' = z
      /\ \A d \in Attempted \ {e} : Of(d)' = Of(d)
  <2>1. attempts'[b][i] = z
    BY <1>2 DEF TypeOK
  <2>2. ASSUME NEW c \in BountyId, NEW j \in AttemptIndex, <<c, j>> # <<b, i>>
        PROVE  attempts'[c][j] = attempts[c][j]
    BY <1>2, <2>2 DEF TypeOK
  <2>. QED
    BY <1>2, <2>1, <2>2 DEF Attempted, Of
<1>5. \A d \in Attempted \ {e} : SameCount(Of(d), Of(d)')
  BY <1>4 DEF SameCount
<1>6. x # NoOne
  BY AccountAssumption
<1>7. /\ ~won /\ ~partial /\ ~struck
      /\ e \notin AttemptOf(x)
      /\ e \in AttemptOf(x)' <=> made
      /\ e \notin WonBy(x) /\ e \notin WonBy(x)'
      /\ e \notin PartlyWonBy(x) /\ e \notin PartlyWonBy(x)'
      /\ e \notin StruckOf(x) /\ e \notin StruckOf(x)'
  <2>. HIDE DEF e
  <2>. QED
    BY <1>2, <1>3, <1>4, <1>6 DEF AttemptOf, WonBy, PartlyWonBy, StruckOf, Attempted
<1>8. /\ reputation'[x].attempts_made = reputation[x].attempts_made + IF made THEN 1 ELSE 0
      /\ reputation'[x].attempts_won = reputation[x].attempts_won + IF won THEN 1 ELSE 0
      /\ reputation'[x].attempts_partial =
            reputation[x].attempts_partial + IF partial THEN 1 ELSE 0
      /\ reputation'[x].attempts_rejected =
            reputation[x].attempts_rejected + IF struck THEN 1 ELSE 0
  <2>1. reputation \in [Account -> Reputation]
    BY DEF TypeOK
  <2>2. /\ reputation[x].attempts_made \in Nat /\ reputation[x].attempts_won \in Nat
        /\ reputation[x].attempts_partial \in Nat /\ reputation[x].attempts_rejected \in Nat
    BY <2>1 DEF Reputation
  <2>3. /\ reputation'[x].attempts_made =
              reputation[x].attempts_made + IF x = z.challenger THEN 1 ELSE 0
        /\ reputation'[x].attempts_won = reputation[x].attempts_won
        /\ reputation'[x].attempts_partial = reputation[x].attempts_partial
        /\ reputation'[x].attempts_rejected = reputation[x].attempts_rejected
    BY <1>2, <2>1 DEF Reputation, Credit
  <2>. QED
    BY <2>2, <2>3
<1>9. made \in BOOLEAN /\ won \in BOOLEAN /\ partial \in BOOLEAN /\ struck \in BOOLEAN
  OBVIOUS
<1>. HIDE DEF e, made, won, partial, struck
<1>10. /\ made => e \notin AttemptOf(x)
       /\ won => e \notin WonBy(x)
       /\ partial => e \notin PartlyWonBy(x)
       /\ struck => e \notin StruckOf(x)
       /\ e \in AttemptOf(x)' <=> e \in AttemptOf(x) \/ made
       /\ e \in WonBy(x)' <=> e \in WonBy(x) \/ won
       /\ e \in PartlyWonBy(x)' <=> e \in PartlyWonBy(x) \/ partial
       /\ e \in StruckOf(x)' <=> e \in StruckOf(x) \/ struck
  BY <1>7
<1>11. e \in Attempted
  BY <1>4
<1>. QED
  BY ONLY <1>11, <1>5, <1>8, <1>9, <1>10, RecordGrows, x \in Account, Recorded(x)

LEMMA RecordedKeeps ==
    ASSUME TypeOK, Books, [Next]_vars, NEW x \in Account, Recorded(x)
    PROVE  Recorded(x)'
<1>1. ASSUME attempts' = attempts,
             /\ reputation'[x].attempts_made = reputation[x].attempts_made
             /\ reputation'[x].attempts_won = reputation[x].attempts_won
             /\ reputation'[x].attempts_partial = reputation[x].attempts_partial
             /\ reputation'[x].attempts_rejected = reputation[x].attempts_rejected
      PROVE  Recorded(x)'
  <2>1. \A d \in Attempted : SameCount(Of(d), Of(d)')
    BY <1>1 DEF SameCount, Of
  <2>. QED
    BY <1>1, <2>1, NothingRecorded
<1>2. CASE Tick
  <2>1. ASSUME NEW d \in Attempted
        PROVE  SameCount(Of(d), Of(d)')
    <3>1. d[1] \in BountyId /\ d[2] \in AttemptIndex
      BY DEF Attempted
    <3>2. Of(d) \in Attempt
      BY <3>1 DEF Of, TypeOK
    <3>3. Of(d)' = Later(Of(d))
      BY <1>2, <3>1 DEF Tick, Later, Of
    <3>. QED
      BY <3>2, <3>3, LaterFields DEF SameCount
  <2>2. reputation' = reputation
    BY <1>2 DEF Tick
  <2>. QED
    BY <2>1, <2>2, NothingRecorded
<1>3. ASSUME NEW b \in BountyId, NEW y, BountyStep(b, y)
      PROVE  Recorded(x)'
  BY <1>1, <1>3 DEF BountyStep
<1>4. ASSUME NEW b \in BountyId, NEW i \in AttemptIndex, NEW z, AttemptStep(b, i, z)
      PROVE  Recorded(x)'
  <2>1. /\ Succeeds(bounties[b].creator, attempts[b][i], z)
        /\ Counted(attempts[b][i], z)
        /\ attempts' = [attempts EXCEPT ![b][i] = z]
    BY <1>4 DEF AttemptStep
  <2>2. attempts'[b][i] = z
    BY <2>1 DEF TypeOK
  <2>3. ASSUME NEW d \in Attempted \ {<<b, i>>}
        PROVE  SameCount(Of(d), Of(d)')
    <3>1. PICK c \in BountyId, j \in AttemptIndex : d = <<c, j>>
      BY DEF Attempted
    <3>2. attempts'[c][j] = attempts[c][j]
      BY <2>1, <3>1 DEF TypeOK
    <3>. QED
      BY <3>1, <3>2 DEF SameCount, Of
  <2>. QED
    BY <2>1, <2>2, <2>3, CountedStep
<1>5. ASSUME NEW b \in BountyId, NEW i \in AttemptIndex, NEW z, WinStep(b, i, z)
      PROVE  Recorded(x)'
  <2>1. /\ Succeeds(bounties[b].creator, attempts[b][i], z)
        /\ Counted(attempts[b][i], z)
    BY <1>5 DEF WinStep
  <2>2. /\ attempts'[b][i] = z
        /\ \A j \in AttemptIndex \ {i} :
             attempts'[b][j] = IF attempts[b][j].status \in LIVE_STATES
                               THEN [attempts[b][j] EXCEPT !.status = "LOST_RACE"]
                               ELSE attempts[b][j]
        /\ \A c \in BountyId \ {b} : attempts'[c] = attempts[c]
    BY <1>5, WinStepKeeps
  <2>3. ASSUME NEW d \in Attempted \ {<<b, i>>}
        PROVE  SameCount(Of(d), Of(d)')
    <3>1. PICK c \in BountyId, j \in AttemptIndex : d = <<c, j>>
      BY DEF Attempted
    <3>. DEFINE a == attempts[c][j]
    <3>2. a \in Attempt /\ Of(d) = a
      BY <3>1 DEF TypeOK, Of
    <3>3. \/ Of(d)' = a
          \/ a.status \in LIVE_STATES /\ Of(d)' = [a EXCEPT !.status = "LOST_RACE"]
      BY <2>2, <3>1 DEF Of
    <3>. HIDE DEF a
    <3>. QED
      BY <3>2, <3>3 DEF SameCount, Attempt, LIVE_STATES
  <2>. QED
    BY <2>1, <2>2, <2>3, CountedStep
<1>6. CASE Next
  <2>1. StepKinds
    BY <1>6, Kinds
  <2>2. CASE OwnerStep
    BY <1>1, <2>2 DEF OwnerStep
  <2>3. ASSUME NEW r \in ReservationId, NEW q, ReservationStep(r, q)
        PROVE  Recorded(x)'
    BY <1>1, <2>3 DEF ReservationStep
  <2>. QED
    BY <1>2, <1>3, <1>4, <1>5, <2>1, <2>2, <2>3, FundingRecorded DEF StepKinds
<1>7. CASE UNCHANGED vars
  BY <1>1, <1>7 DEF vars
<1>. QED
  BY <1>6, <1>7

\* The reputation of an account counts each of its attempts once: made, won, won in
\* part, and one rejection at most per attempt whatever path or paths rejected it
\* (_increment_rejected_once, _settle_reward_to_winner, confirm_attempt_funding).
THEOREM ReputationsAreRecords == Spec => []ReputationIsRecord
<1>. DEFINE AllRecorded == \A x \in Account : Recorded(x)
<1>1. Init => AllRecorded
  <2>1. ASSUME Init, NEW x \in Account
        PROVE  Recorded(x)
    <3>1. \A b \in BountyId, i \in AttemptIndex : attempts[b][i].challenger = NoOne
      BY <2>1 DEF Init, NoAttempt
    <3>2. x # NoOne
      BY AccountAssumption
    <3>3. AttemptOf(x) = {}
      BY <3>1, <3>2 DEF AttemptOf, Of
    <3>4. WonBy(x) = {} /\ PartlyWonBy(x) = {} /\ StruckOf(x) = {}
      BY <3>3 DEF WonBy, PartlyWonBy, StruckOf
    <3>5. /\ reputation[x].attempts_made = 0 /\ reputation[x].attempts_won = 0
          /\ reputation[x].attempts_partial = 0 /\ reputation[x].attempts_rejected = 0
      BY <2>1 DEF Init, NoReputation
    <3>. QED
      BY <3>3, <3>4, <3>5, FS_EmptySet DEF Recorded
  <2>. QED
    BY <2>1
<1>2. TypeOK /\ Books /\ AllRecorded /\ [Next]_vars => AllRecorded'
  <2>1. ASSUME TypeOK, Books, AllRecorded, [Next]_vars, NEW x \in Account
        PROVE  Recorded(x)'
    BY <2>1, RecordedKeeps
  <2>. QED
    BY <2>1
<1>3. TypeOK /\ Books /\ AllRecorded => ReputationIsRecord
  <2>1. ASSUME TypeOK, Books, NEW x \in Account, NEW d \in AttemptOf(x),
               Of(d).status \in {"REJECTED_FINAL", "BOND_FORFEITED"}
        PROVE  Of(d).rejection_counted
    <3>1. PICK b \in BountyId, i \in AttemptIndex : d = <<b, i>>
      BY DEF AttemptOf
    <3>2. AttemptBooks(bounties[b].creator, attempts[b][i])
      BY <2>1, Records
    <3>. QED
      BY <2>1, <3>1, <3>2 DEF AttemptBooks, Of
  <2>. QED
    BY <2>1 DEF ReputationIsRecord, Recorded
<1>. HIDE DEF AllRecorded
<1>. QED
  BY <1>1, <1>2, <1>3, BooksHold, PTL DEF Spec

-----------------------------------------------------------------------------
(* What a reader of the contract may rely on after reading it: what no     *)
(* later step takes back.  The proofs about the relayer rest on it.        *)

\* A bounty that was created keeps its creator and its terms.
BountyKept(b) ==
    bounties[b].status # "NONE" =>
        /\ bounties'[b].status # "NONE" /\ bounties'[b].creator = bounties[b].creator
        /\ SameTerms(bounties[b], bounties'[b])
        /\ bounties[b].status # "OPEN" =>
             /\ bounties'[b].status = bounties[b].status
             /\ bounties'[b].winning_attempt_index = bounties[b].winning_attempt_index

LEMMA BountiesKept ==
    ASSUME TypeOK, Books, [Next]_vars, NEW b \in BountyId
    PROVE  BountyKept(b)
<1>1. bounties[b] \in Bounty
  BY DEF TypeOK
<1>2. CASE bounties[b].status \notin {"NONE", "OPEN"}
  <2>. DEFINE deadline == bounties'[b].deadline
  <2>1. bounties'[b] = [bounties[b] EXCEPT !.deadline = deadline]
    BY <1>2, Effects
  <2>. HIDE DEF deadline
  <2>. QED
    BY <1>1, <1>2, <2>1 DEF Bounty, BountyKept, SameTerms
<1>3. CASE bounties[b].status = "OPEN"
  <2>1. ASSUME bounties'[b] = bounties[b]
        PROVE  BountyKept(b)
    BY <1>3, <2>1 DEF BountyKept, SameTerms
  <2>2. CASE Tick
    <3>. DEFINE deadline == Elapsed(bounties[b].deadline, -LongestGrace)
    <3>1. bounties'[b] = [bounties[b] EXCEPT !.deadline = deadline]
      BY <1>3, <2>2 DEF Tick
    <3>. HIDE DEF deadline
    <3>. QED
      BY <1>1, <1>3, <3>1 DEF Bounty, BountyKept, SameTerms
  <2>3. ASSUME NEW c \in BountyId, NEW y, BountyStep(c, y)
        PROVE  BountyKept(b)
    <3>1. BountySucceeds(bounties[c], y, attempts[c]) /\ bounties' = [bounties EXCEPT ![c] = y]
      BY <2>3 DEF BountyStep
    <3>2. CASE c = b
      <4>1. bounties'[b] = y
        BY <3>1, <3>2 DEF TypeOK
      <4>. QED
        BY <1>3, <3>1, <3>2, <4>1 DEF BountySucceeds, BountyKept
    <3>3. CASE c # b
      BY <2>1, <3>1, <3>3 DEF TypeOK
    <3>. QED
      BY <3>2, <3>3
  <2>4. ASSUME NEW sender, NEW c \in BountyId, NEW r \in ReservationId, NEW txHash \in TxHash,
               ConfirmAttemptFunding(sender, c, r, txHash)
        PROVE  BountyKept(b)
    <3>1. PICK j \in AttemptIndex, z \in Attempt, y \in Bounty, q \in AttemptReservation :
            FundingEffect(c, r, j, z, y, q)
      BY <2>4, FundingStep
    <3>2. /\ bounties' = [bounties EXCEPT ![c] = y] /\ y.status = "OPEN"
          /\ y.creator = bounties[c].creator /\ SameTerms(bounties[c], y)
      BY <3>1 DEF FundingEffect
    <3>3. CASE c = b
      <4>1. bounties'[b] = y
        BY <3>2, <3>3 DEF TypeOK
      <4>. QED
        BY <1>3, <3>2, <3>3, <4>1 DEF BountyKept
    <3>4. CASE c # b
      BY <2>1, <3>2, <3>4 DEF TypeOK
    <3>. QED
      BY <3>3, <3>4
  <2>5. ASSUME NEW c \in BountyId, NEW j \in AttemptIndex, NEW z, AttemptStep(c, j, z)
        PROVE  BountyKept(b)
    BY <2>1, <2>5 DEF AttemptStep
  <2>6. ASSUME NEW c \in BountyId, NEW j \in AttemptIndex, NEW z, WinStep(c, j, z)
        PROVE  BountyKept(b)
    <3>1. bounties' = [bounties EXCEPT ![c] = Settled(c, j)]
      BY <2>6 DEF WinStep
    <3>2. CASE c = b
      <4>1. bounties'[b] = Settled(b, j)
        BY <3>1, <3>2 DEF TypeOK
      <4>2. /\ Settled(b, j).status = "SETTLED"
            /\ Settled(b, j).creator = bounties[b].creator
            /\ SameTerms(bounties[b], Settled(b, j))
        BY <1>1 DEF Settled, Bounty, SameTerms
      <4>. QED
        BY <1>3, <4>1, <4>2 DEF BountyKept
    <3>3. CASE c # b
      BY <2>1, <3>1, <3>3 DEF TypeOK
    <3>. QED
      BY <3>2, <3>3
  <2>7. CASE Next
    <3>1. StepKinds
      BY <2>7, Kinds
    <3>2. CASE \/ OwnerStep
               \/ \E r \in ReservationId, q \in AttemptReservation : ReservationStep(r, q)
      BY <2>1, <3>2 DEF OwnerStep, ReservationStep
    <3>. QED
      BY <2>2, <2>3, <2>4, <2>5, <2>6, <3>1, <3>2 DEF StepKinds
  <2>8. CASE UNCHANGED vars
    BY <2>1, <2>8 DEF vars
  <2>. QED
    BY <2>7, <2>8
<1>4. CASE bounties[b].status = "NONE"
  BY <1>4 DEF BountyKept
<1>. QED
  BY <1>2, <1>3, <1>4

\* Attempts are counted from zero: every index below the count names one.
IndicesFit(b) == \A i \in Nat : i < bounties[b].attempt_count => i \in AttemptIndex

LEMMA CountKept ==
    ASSUME TypeOK, Books, [Next]_vars, NEW b \in BountyId
    PROVE  \/ bounties'[b].attempt_count = bounties[b].attempt_count
           \/ \E i \in AttemptIndex : bounties'[b].attempt_count = i + 1
<1>. DEFINE Same == bounties'[b].attempt_count = bounties[b].attempt_count
            Joins == \E i \in AttemptIndex : bounties'[b].attempt_count = i + 1
<1>1. bounties[b] \in Bounty
  BY DEF TypeOK
<1>2. ASSUME bounties'[b] = bounties[b]
      PROVE  Same
  BY <1>2
<1>3. ASSUME Tick
      PROVE  Same
  <2>. DEFINE deadline == Elapsed(bounties[b].deadline, -LongestGrace)
  <2>1. \/ bounties'[b] = bounties[b]
        \/ bounties'[b] = [bounties[b] EXCEPT !.deadline = deadline]
    BY <1>3 DEF Tick
  <2>. HIDE DEF deadline
  <2>2. CASE bounties'[b] = [bounties[b] EXCEPT !.deadline = deadline]
    BY <1>1, <2>2 DEF Bounty
  <2>. QED
    BY <1>2, <2>1, <2>2
<1>4. ASSUME NEW c \in BountyId, NEW y, bounties' = [bounties EXCEPT ![c] = y],
             y.attempt_count = bounties[c].attempt_count
      PROVE  Same
  <2>1. c = b => bounties'[b] = y
    BY <1>4 DEF TypeOK
  <2>2. c # b => bounties'[b] = bounties[b]
    BY <1>4 DEF TypeOK
  <2>. QED
    BY <1>4, <2>1, <2>2
<1>5. ASSUME NEW c \in BountyId, NEW y, BountyStep(c, y)
      PROVE  Same
  <2>1. bounties' = [bounties EXCEPT ![c] = y] /\ y.attempt_count = bounties[c].attempt_count
    BY <1>5 DEF BountyStep, BountySucceeds
  <2>. QED
    BY <1>4, <2>1
<1>6. ASSUME NEW sender, NEW c \in BountyId, NEW r \in ReservationId, NEW txHash \in TxHash,
             ConfirmAttemptFunding(sender, c, r, txHash)
      PROVE  Same \/ Joins
  <2>1. PICK j \in AttemptIndex, z \in Attempt, y \in Bounty, q \in AttemptReservation :
          FundingEffect(c, r, j, z, y, q)
    BY <1>6, FundingStep
  <2>2. bounties' = [bounties EXCEPT ![c] = y] /\ y.attempt_count = j + 1
    BY <2>1 DEF FundingEffect
  <2>3. c = b => bounties'[b] = y
    BY <2>2 DEF TypeOK
  <2>4. c # b => bounties'[b] = bounties[b]
    BY <2>2 DEF TypeOK
  <2>. QED
    BY <2>2, <2>3, <2>4
<1>7. ASSUME NEW c \in BountyId, NEW j \in AttemptIndex, NEW z,
             AttemptStep(c, j, z) \/ WinStep(c, j, z)
      PROVE  Same
  <2>1. CASE AttemptStep(c, j, z)
    BY <1>2, <2>1 DEF AttemptStep
  <2>2. CASE WinStep(c, j, z)
    <3>1. bounties' = [bounties EXCEPT ![c] = Settled(c, j)]
      BY <2>2 DEF WinStep
    <3>2. Settled(c, j).attempt_count = bounties[c].attempt_count
      BY DEF Settled, TypeOK, Bounty
    <3>. QED
      BY <1>4, <3>1, <3>2
  <2>. QED
    BY <1>7, <2>1, <2>2
<1>8. CASE Next
  <2>1. StepKinds
    BY <1>8, Kinds
  <2>2. ASSUME \/ OwnerStep
               \/ \E r \in ReservationId, q \in AttemptReservation : ReservationStep(r, q)
        PROVE  Same
    BY <1>2, <2>2 DEF OwnerStep, ReservationStep
  <2>3. Same \/ Joins
    <3>. HIDE DEF Same, Joins
    <3>. QED
      BY <1>3, <1>5, <1>6, <1>7, <2>1, <2>2 DEF StepKinds
  <2>. QED
    BY <2>3
<1>9. CASE UNCHANGED vars
  BY <1>2, <1>9 DEF vars
<1>. QED
  BY <1>8, <1>9

LEMMA CountFits ==
    ASSUME TypeOK, Books, [Next]_vars, NEW b \in BountyId, IndicesFit(b)
    PROVE  IndicesFit(b)'
<1>1. CASE bounties'[b].attempt_count = bounties[b].attempt_count
  BY <1>1 DEF IndicesFit
<1>2. ASSUME NEW i \in AttemptIndex, bounties'[b].attempt_count = i + 1
      PROVE  IndicesFit(b)'
  <2>1. PICK n : AttemptIndex = 0 .. n - 1 /\ n = Cardinality(AttemptIndex)
    BY TermsAssumption
  <2>2. n \in Nat
    BY <2>1, TermsAssumption, FS_CardinalityType
  <2>3. \A k \in Nat : k < i + 1 => k \in AttemptIndex
    BY <2>1, <2>2
  <2>. QED
    BY <1>2, <2>3 DEF IndicesFit
<1>. QED
  BY <1>1, <1>2, CountKept

\* A reservation belongs to somebody once it is issued, and to an attempt once activated.
ReservationBooks(p) ==
    /\ p.status # "NONE" <=> p.challenger # NoOne
    /\ p.status = "ACTIVATED" => p.activated_attempt_index \in AttemptIndex

\* What does not change of a reservation p that becomes q.
ReservationSucceeds(p, q) ==
    /\ p.status # "NONE" =>
         q.status # "NONE" /\ q.bounty_id = p.bounty_id /\ q.challenger = p.challenger
    /\ p.status = "ACTIVATED" =>
         q.status = "ACTIVATED" /\ q.activated_attempt_index = p.activated_attempt_index

LEMMA ReservationsKept ==
    ASSUME TypeOK, Books, [Next]_vars, NEW r \in ReservationId,
           ReservationBooks(reservations[r])
    PROVE  /\ ReservationBooks(reservations'[r])
           /\ ReservationSucceeds(reservations[r], reservations'[r])
<1>. DEFINE Goal == /\ ReservationBooks(reservations'[r])
                    /\ ReservationSucceeds(reservations[r], reservations'[r])
<1>1. ASSUME reservations'[r] = reservations[r]
      PROVE  Goal
  BY <1>1 DEF ReservationSucceeds
<1>2. CASE Tick
  <2>1. /\ reservations'[r].status = reservations[r].status
        /\ reservations'[r].bounty_id = reservations[r].bounty_id
        /\ reservations'[r].challenger = reservations[r].challenger
        /\ reservations'[r].activated_attempt_index = reservations[r].activated_attempt_index
    BY <1>2 DEF Tick, TypeOK, AttemptReservation
  <2>. QED
    BY <2>1 DEF ReservationBooks, ReservationSucceeds
<1>3. ASSUME NEW s \in ReservationId, NEW q, ReservationStep(s, q)
      PROVE  Goal
  <2>1. /\ reservations[s].status # "ACTIVATED" /\ q.status \notin {"NONE", "ACTIVATED"}
        /\ \/ reservations[s].status = "NONE" /\ q.challenger \in Account
           \/ /\ reservations[s].status # "NONE"
              /\ q.bounty_id = reservations[s].bounty_id
              /\ q.challenger = reservations[s].challenger
        /\ reservations' = [reservations EXCEPT ![s] = q]
    BY <1>3 DEF ReservationStep
  <2>2. CASE s = r
    <3>1. reservations'[r] = q
      BY <2>1, <2>2 DEF TypeOK
    <3>2. reservations[r].challenger = NoOne <=> reservations[r].status = "NONE"
      BY DEF ReservationBooks
    <3>3. q.challenger # NoOne
      BY <2>1, <2>2, <3>2, AccountAssumption
    <3>. QED
      BY <2>1, <2>2, <3>1, <3>3 DEF ReservationBooks, ReservationSucceeds
  <2>3. CASE s # r
    BY <1>1, <2>1, <2>3 DEF TypeOK
  <2>. QED
    BY <2>2, <2>3
<1>4. ASSUME NEW sender, NEW c \in BountyId, NEW s \in ReservationId, NEW txHash \in TxHash,
             ConfirmAttemptFunding(sender, c, s, txHash)
      PROVE  Goal
  <2>1. PICK j \in AttemptIndex, z \in Attempt, y \in Bounty, q \in AttemptReservation :
          FundingEffect(c, s, j, z, y, q)
    BY <1>4, FundingStep
  <2>2. /\ reservations[s].status = "PENDING" /\ reservations[s].bounty_id = c
        /\ q.status = "ACTIVATED" /\ q.bounty_id = c
        /\ q.challenger = reservations[s].challenger
        /\ q.activated_attempt_index = j
        /\ reservations' = [reservations EXCEPT ![s] = q]
    BY <2>1 DEF FundingEffect
  <2>3. CASE s = r
    <3>1. reservations'[r] = q
      BY <2>2, <2>3 DEF TypeOK
    <3>. QED
      BY <2>2, <2>3, <3>1 DEF ReservationBooks, ReservationSucceeds
  <2>4. CASE s # r
    BY <1>1, <2>2, <2>4 DEF TypeOK
  <2>. QED
    BY <2>3, <2>4
<1>5. ASSUME reservations' = reservations
      PROVE  Goal
  BY <1>1, <1>5
<1>6. CASE Next
  <2>1. StepKinds
    BY <1>6, Kinds
  <2>2. CASE OwnerStep
    BY <1>5, <2>2 DEF OwnerStep
  <2>3. ASSUME NEW b \in BountyId, NEW y \in Bounty, BountyStep(b, y)
        PROVE  Goal
    BY <1>5, <2>3 DEF BountyStep
  <2>4. ASSUME NEW b \in BountyId, NEW i \in AttemptIndex, NEW z \in Attempt,
               AttemptStep(b, i, z) \/ WinStep(b, i, z)
        PROVE  Goal
    BY <1>5, <2>4 DEF AttemptStep, WinStep
  <2>. QED
    BY <1>2, <1>3, <1>4, <2>1, <2>2, <2>3, <2>4 DEF StepKinds
<1>7. CASE UNCHANGED vars
  BY <1>5, <1>7 DEF vars
<1>. QED
  BY <1>6, <1>7 DEF Goal

\* An attempt that has been ruled on.
AFTER_RULING ==
    {"ARBITER_RESOLVED_PENDING_APPEAL", "APPEAL_PENDING_FUNDING",
     "APPEAL_FUNDED_PENDING_BINDING", "APPEALED"} \cup TERMINAL_STATES

\* No appeal against the ruling in a will be heard any more, and none was.
Closed(a) ==
    /\ a.appeal_bond_recipient = NoOne
    /\ \/ a.status \in TERMINAL_STATES
       \/ a.status = "ARBITER_RESOLVED_PENDING_APPEAL" /\ a.appeal_deadline <= 0

\* An appeal is heard or was decided.
AppealCounts(a) == a.status = "APPEALED" \/ a.appeal_bond_recipient # NoOne

\* What a call makes of the bond and the appeal of attempt a.
AppealMoves(a, z) ==
    /\ z.bond_amount = a.bond_amount
    /\ z.appeal_deadline \in {a.appeal_deadline, APPEAL_WINDOW_SECONDS}
    /\ a.status \in AFTER_RULING =>
         z.status \in AFTER_RULING /\ z.appeal_deadline = a.appeal_deadline
    /\ Closed(a) => Closed(z)

\* Only a call that reports the binding makes an appeal with a bond count.
AppealUncounted(a, z) == AppealCounts(z) => AppealCounts(a) \/ z.bond_amount = 0

Moves(a, z) == AppealMoves(a, z) /\ AppealUncounted(a, z)

LEMMA PlainMoves ==
    ASSUME NEW a, NEW z,
           z.bond_amount = a.bond_amount, z.appeal_deadline = a.appeal_deadline,
           z.appeal_bond_recipient = a.appeal_bond_recipient,
           z.status # "APPEALED",
           a.status \in AFTER_RULING => z.status \in TERMINAL_STATES
    PROVE  Moves(a, z)
<1>1. Closed(a) => Closed(z)
  BY DEF Closed, AFTER_RULING
<1>2. AppealMoves(a, z)
  BY <1>1 DEF AppealMoves, AFTER_RULING
<1>. QED
  BY <1>2 DEF Moves, AppealUncounted, AppealCounts

LEMMA StaysMoves ==
    ASSUME NEW a, NEW z, z = a
    PROVE  Moves(a, z)
BY DEF Moves, AppealMoves, AppealUncounted

\* Every attempt moves like that.
AllMove ==
    \A b \in BountyId, i \in AttemptIndex : Moves(attempts[b][i], attempts'[b][i])

LEMMA OneMoves ==
    ASSUME TypeOK, NEW b \in BountyId, NEW i \in AttemptIndex, NEW z,
           attempts' = [attempts EXCEPT ![b][i] = z], Moves(attempts[b][i], z)
    PROVE  AllMove
<1>. SUFFICES ASSUME NEW c \in BountyId, NEW j \in AttemptIndex
              PROVE  Moves(attempts[c][j], attempts'[c][j])
  BY DEF AllMove
<1>1. CASE c = b /\ j = i
  BY <1>1 DEF TypeOK
<1>2. CASE ~(c = b /\ j = i)
  <2>1. attempts'[c][j] = attempts[c][j]
    BY <1>2 DEF TypeOK
  <2>. QED
    BY <2>1, StaysMoves
<1>. QED
  BY <1>1, <1>2

LEMMA RaceMoves ==
    ASSUME TypeOK, NEW b \in BountyId, NEW i \in AttemptIndex, NEW z,
           attempts' = [attempts EXCEPT ![b] = LostRace(b, i, [@ EXCEPT ![i] = z])],
           Moves(attempts[b][i], z)
    PROVE  AllMove
<1>. SUFFICES ASSUME NEW c \in BountyId, NEW j \in AttemptIndex
              PROVE  Moves(attempts[c][j], attempts'[c][j])
  BY DEF AllMove
<1>1. CASE c # b
  <2>1. attempts'[c][j] = attempts[c][j]
    BY <1>1 DEF TypeOK
  <2>. QED
    BY <2>1, StaysMoves
<1>2. CASE c = b
  <2>. DEFINE list == [attempts[b] EXCEPT ![i] = z]
  <2>1. attempts'[c][j] = IF j < bounties[b].attempt_count /\ j # i /\ list[j].status \in LIVE_STATES
                          THEN [list[j] EXCEPT !.status = "LOST_RACE"] ELSE list[j]
    BY <1>2 DEF LostRace, TypeOK
  <2>2. CASE j = i
    BY <1>2, <2>1, <2>2 DEF TypeOK
  <2>3. CASE j # i
    <3>1. list[j] = attempts[b][j] /\ attempts[b][j] \in Attempt
      BY <2>3 DEF TypeOK
    <3>. DEFINE a == attempts[b][j]
                lost == [a EXCEPT !.status = "LOST_RACE"]
    <3>. HIDE DEF list, a
    <3>2. ASSUME a.status \in LIVE_STATES
          PROVE  Moves(a, lost)
      <4>1. /\ lost.bond_amount = a.bond_amount /\ lost.appeal_deadline = a.appeal_deadline
            /\ lost.appeal_bond_recipient = a.appeal_bond_recipient
            /\ lost.status = "LOST_RACE"
        BY <3>1 DEF Attempt, a
      <4>2. a.status \notin AFTER_RULING
        BY <3>2 DEF AFTER_RULING, LIVE_STATES, TERMINAL_STATES
      <4>. HIDE DEF lost
      <4>. QED
        BY <4>1, <4>2, PlainMoves
    <3>3. attempts'[c][j] = a \/ (a.status \in LIVE_STATES /\ attempts'[c][j] = lost)
      BY <2>1, <2>3, <3>1 DEF a
    <3>4. Moves(a, attempts'[c][j])
      BY <3>2, <3>3, StaysMoves
    <3>. QED
      BY <1>2, <3>4 DEF a
  <2>. QED
    BY <2>2, <2>3
<1>. QED
  BY <1>1, <1>2

\* Calls that leave an attempt, its bond and its appeal as they are, or end it.
LEMMA QuietMoves ==
    ASSUME TypeOK, NEW b \in BountyId, NEW i \in AttemptIndex, NEW finding,
           \/ \E sender : SubmitEvidence(sender, b, i)
           \/ \E sender : ClaimBondForfeiture(sender, b, i)
           \/ \E sender : ReclaimBondAfterSettlement(sender, b, i)
           \/ \E sender : RaiseDispute(sender, b, i)
           \/ \E sender : ForceDefaultResolution(sender, b, i)
           \/ /\ attempts[b][i].status = "SUBMITTED"
              /\ \/ VerifyLostRace(b, i, finding)
                 \/ VerifyResubmit(b, i, finding)
                 \/ VerifyRevisionsExhausted(b, i, finding)
                 \/ VerifyInsufficient(b, i, finding)
                 \/ VerifyReject(b, i, finding)
    PROVE  AllMove
<1>. DEFINE a == attempts[b][i]
<1>0. a \in Attempt
  BY DEF TypeOK
<1>1. ASSUME NEW z, attempts' = [attempts EXCEPT ![b][i] = z],
             z.bond_amount = a.bond_amount, z.appeal_deadline = a.appeal_deadline,
             z.appeal_bond_recipient = a.appeal_bond_recipient,
             z.status # "APPEALED",
             a.status \in AFTER_RULING => z.status \in TERMINAL_STATES
      PROVE  AllMove
  BY <1>1, PlainMoves, OneMoves
<1>2. ASSUME NEW sender, SubmitEvidence(sender, b, i)
      PROVE  AllMove
  <2>. DEFINE z == [a EXCEPT !.status = "SUBMITTED"]
  <2>1. attempts' = [attempts EXCEPT ![b][i] = z] /\ a.status \in {"ACCEPTED", "NEEDS_REVISION"}
    BY <1>2 DEF SubmitEvidence
  <2>. HIDE DEF a
  <2>2. /\ z.bond_amount = a.bond_amount /\ z.appeal_deadline = a.appeal_deadline
        /\ z.appeal_bond_recipient = a.appeal_bond_recipient
        /\ z.status = "SUBMITTED"
    BY <1>0 DEF Attempt
  <2>. HIDE DEF z
  <2>. QED
    BY <1>1, <2>1, <2>2 DEF AFTER_RULING, TERMINAL_STATES, a
<1>3. ASSUME NEW sender, ClaimBondForfeiture(sender, b, i)
      PROVE  AllMove
  <2>. DEFINE z == Forfeited(a, FALSE)
  <2>1. attempts' = [attempts EXCEPT ![b][i] = z]
    BY <1>3 DEF ClaimBondForfeiture
  <2>. HIDE DEF a
  <2>2. /\ z.bond_amount = a.bond_amount /\ z.appeal_deadline = a.appeal_deadline
        /\ z.appeal_bond_recipient = a.appeal_bond_recipient
        /\ z.status = "BOND_FORFEITED"
    BY <1>0 DEF Attempt, Forfeited
  <2>. HIDE DEF z
  <2>. QED
    BY <1>1, <2>1, <2>2 DEF TERMINAL_STATES, a
<1>4. ASSUME NEW sender, ReclaimBondAfterSettlement(sender, b, i)
      PROVE  AllMove
  <2>. DEFINE z == [a EXCEPT !.bond_deposited = 0]
  <2>1. attempts' = [attempts EXCEPT ![b][i] = z] /\ a.status = "LOST_RACE"
    BY <1>4 DEF ReclaimBondAfterSettlement
  <2>. HIDE DEF a
  <2>2. /\ z.bond_amount = a.bond_amount /\ z.appeal_deadline = a.appeal_deadline
        /\ z.appeal_bond_recipient = a.appeal_bond_recipient
        /\ z.status = a.status
    BY <1>0 DEF Attempt
  <2>. HIDE DEF z
  <2>. QED
    BY <1>1, <2>1, <2>2 DEF TERMINAL_STATES, a
<1>5. ASSUME NEW sender, RaiseDispute(sender, b, i)
      PROVE  AllMove
  <2>. DEFINE z == [a EXCEPT !.status = "DISPUTED"]
  <2>1. attempts' = [attempts EXCEPT ![b][i] = z] /\ a.status \in LIVE_STATES
    BY <1>5 DEF RaiseDispute, Disputable
  <2>. HIDE DEF a
  <2>2. /\ z.bond_amount = a.bond_amount /\ z.appeal_deadline = a.appeal_deadline
        /\ z.appeal_bond_recipient = a.appeal_bond_recipient
        /\ z.status = "DISPUTED"
    BY <1>0 DEF Attempt
  <2>. HIDE DEF z
  <2>3. a.status \notin AFTER_RULING
    BY <2>1 DEF AFTER_RULING, TERMINAL_STATES, LIVE_STATES
  <2>. QED
    BY <1>1, <2>1, <2>2, <2>3 DEF a
<1>6. ASSUME NEW sender, ForceDefaultResolution(sender, b, i)
      PROVE  AllMove
  <2>. DEFINE z == Refunded(a, "CANCELLED")
  <2>1. attempts' = [attempts EXCEPT ![b][i] = z]
    BY <1>6 DEF ForceDefaultResolution
  <2>. HIDE DEF a
  <2>2. /\ z.bond_amount = a.bond_amount /\ z.appeal_deadline = a.appeal_deadline
        /\ z.appeal_bond_recipient = a.appeal_bond_recipient
        /\ z.status = "CANCELLED"
    BY <1>0 DEF Attempt, Refunded
  <2>. HIDE DEF z
  <2>. QED
    BY <1>1, <2>1, <2>2 DEF TERMINAL_STATES, a
<1>7. ASSUME a.status = "SUBMITTED",
             \/ VerifyLostRace(b, i, finding)
             \/ VerifyResubmit(b, i, finding)
             \/ VerifyRevisionsExhausted(b, i, finding)
             \/ VerifyInsufficient(b, i, finding)
             \/ VerifyReject(b, i, finding)
      PROVE  AllMove
  <2>. DEFINE judged == Judged(b, i, finding)
              revised == Revised(b, i, finding)
  <2>1. PICK z : /\ attempts' = [attempts EXCEPT ![b][i] = z]
                 /\ \/ z = Refunded(judged, "LOST_RACE")
                    \/ z = [revised EXCEPT !.status = "ACCEPTED"]
                    \/ z = [revised EXCEPT !.status = "REJECTED_FINAL", !.rejection_counted = TRUE]
                    \/ z = Refunded(revised, "INSUFFICIENT_EVIDENCE_FINAL")
                    \/ z = [judged EXCEPT !.status = "REJECTED_FINAL", !.rejection_counted = TRUE]
    BY <1>7 DEF VerifyLostRace, VerifyResubmit, VerifyRevisionsExhausted, VerifyInsufficient,
                VerifyReject
  <2>2. /\ judged = [a EXCEPT !.last_verdict = finding.verdict]
        /\ revised = [a EXCEPT !.last_verdict = finding.verdict,
                               !.revision_count = a.revision_count + 1]
    BY <1>0 DEF Judged, Revised, Attempt
  <2>. HIDE DEF a, judged, revised
  <2>3. /\ z.bond_amount = a.bond_amount /\ z.appeal_deadline = a.appeal_deadline
        /\ z.appeal_bond_recipient = a.appeal_bond_recipient
        /\ z.status # "APPEALED"
    <3>1. CASE z = Refunded(judged, "LOST_RACE")
      BY <1>0, <2>2, <3>1 DEF Attempt, Refunded
    <3>2. CASE z = [revised EXCEPT !.status = "ACCEPTED"]
      BY <1>0, <2>2, <3>2 DEF Attempt
    <3>3. CASE z = [revised EXCEPT !.status = "REJECTED_FINAL", !.rejection_counted = TRUE]
      BY <1>0, <2>2, <3>3 DEF Attempt
    <3>4. CASE z = Refunded(revised, "INSUFFICIENT_EVIDENCE_FINAL")
      BY <1>0, <2>2, <3>4 DEF Attempt, Refunded
    <3>5. CASE z = [judged EXCEPT !.status = "REJECTED_FINAL", !.rejection_counted = TRUE]
      BY <1>0, <2>2, <3>5 DEF Attempt
    <3>. QED
      BY <2>1, <3>1, <3>2, <3>3, <3>4, <3>5
  <2>4. a.status \notin AFTER_RULING
    BY <1>7 DEF AFTER_RULING, TERMINAL_STATES, a
  <2>. QED
    BY <1>1, <2>1, <2>3, <2>4 DEF a
<1>. QED
  BY <1>2, <1>3, <1>4, <1>5, <1>6, <1>7

\* A ruling and what follows it.
LEMMA RulingMoves ==
    ASSUME TypeOK, Books, NEW b \in BountyId, NEW i \in AttemptIndex,
           \/ \E sender, verdict, bps : ResolveDispute(sender, b, i, verdict, bps)
           \/ \E sender : AppealArbiterResolution(sender, b, i)
           \/ \E sender, txHash : ConfirmAppealFunding(sender, b, i, txHash)
           \/ ExpireAppealFunding(b, i)
    PROVE  AllMove
<1>. DEFINE a == attempts[b][i]
<1>0. a \in Attempt /\ AttemptBooks(bounties[b].creator, a)
  BY Records
<1>1. ASSUME NEW z, attempts' = [attempts EXCEPT ![b][i] = z], Moves(a, z)
      PROVE  AllMove
  BY <1>1, OneMoves
<1>2. ASSUME NEW sender, NEW verdict, NEW bps, ResolveDispute(sender, b, i, verdict, bps)
      PROVE  AllMove
  <2>1. PICK z : /\ attempts' = [attempts EXCEPT ![b][i] = z]
                 /\ \E overrode, share :
                      z = [a EXCEPT !.human_verdict_overrode_ai = overrode,
                                    !.status = "ARBITER_RESOLVED_PENDING_APPEAL",
                                    !.pending_arbiter_verdict = verdict,
                                    !.pending_payout_bps = share,
                                    !.appeal_deadline = APPEAL_WINDOW_SECONDS]
    BY <1>2 DEF ResolveDispute
  <2>2. a.status = "DISPUTED"
    BY <1>2 DEF ResolveDispute
  <2>. HIDE DEF a
  <2>3. /\ z.bond_amount = a.bond_amount /\ z.appeal_deadline = APPEAL_WINDOW_SECONDS
        /\ z.appeal_bond_recipient = a.appeal_bond_recipient
        /\ z.status = "ARBITER_RESOLVED_PENDING_APPEAL"
    BY <1>0, <2>1 DEF Attempt
  <2>4. a.status \notin AFTER_RULING /\ a.status \notin TERMINAL_STATES
    BY <2>2 DEF AFTER_RULING, TERMINAL_STATES
  <2>5. Moves(a, z)
    BY <2>2, <2>3, <2>4 DEF Moves, AppealMoves, AppealUncounted, AppealCounts, Closed
  <2>. QED
    BY <1>1, <2>1, <2>5 DEF a
<1>3. ASSUME NEW sender, AppealArbiterResolution(sender, b, i)
      PROVE  AllMove
  <2>1. PICK z : /\ attempts' = [attempts EXCEPT ![b][i] = z]
                 /\ \E deadline :
                      z = [a EXCEPT !.appealed_by = sender,
                                    !.appeal_bond_deposited = a.bond_amount,
                                    !.status = IF a.bond_amount = 0 THEN "APPEALED"
                                               ELSE "APPEAL_PENDING_FUNDING",
                                    !.appeal_funding_deadline = deadline]
    BY <1>3 DEF AppealArbiterResolution
  <2>2. a.status = "ARBITER_RESOLVED_PENDING_APPEAL" /\ ~(a.appeal_deadline + 0 <= 0)
    BY <1>3 DEF AppealArbiterResolution, HasPassed
  <2>. HIDE DEF a
  <2>3. /\ z.bond_amount = a.bond_amount /\ z.appeal_deadline = a.appeal_deadline
        /\ z.appeal_bond_recipient = a.appeal_bond_recipient
        /\ z.status = IF a.bond_amount = 0 THEN "APPEALED" ELSE "APPEAL_PENDING_FUNDING"
        /\ a.appeal_deadline \in Int
    BY <1>0, <2>1 DEF Attempt
  <2>4. ~Closed(a) /\ z.status \in AFTER_RULING
    BY <2>2, <2>3 DEF Closed, AFTER_RULING, TERMINAL_STATES
  <2>5. Moves(a, z)
    BY <2>2, <2>3, <2>4 DEF Moves, AppealMoves, AppealUncounted, AppealCounts
  <2>. QED
    BY <1>1, <2>1, <2>5 DEF a
<1>4. ASSUME NEW sender, NEW txHash, ConfirmAppealFunding(sender, b, i, txHash)
      PROVE  AllMove
  <2>. DEFINE z == [a EXCEPT !.appeal_base_funding_tx_hash = txHash,
                             !.status = "APPEAL_FUNDED_PENDING_BINDING"]
  <2>1. attempts' = [attempts EXCEPT ![b][i] = z] /\ a.status = "APPEAL_PENDING_FUNDING"
    BY <1>4 DEF ConfirmAppealFunding
  <2>. HIDE DEF a
  <2>3. /\ z.bond_amount = a.bond_amount /\ z.appeal_deadline = a.appeal_deadline
        /\ z.appeal_bond_recipient = a.appeal_bond_recipient
        /\ z.status = "APPEAL_FUNDED_PENDING_BINDING"
    BY <1>0 DEF Attempt
  <2>. HIDE DEF z
  <2>4. ~Closed(a) /\ z.status \in AFTER_RULING
    BY <2>1, <2>3 DEF Closed, AFTER_RULING, TERMINAL_STATES, a
  <2>5. Moves(a, z)
    BY <2>3, <2>4 DEF Moves, AppealMoves, AppealUncounted, AppealCounts
  <2>. QED
    BY <1>1, <2>1, <2>5 DEF a
<1>5. ASSUME ExpireAppealFunding(b, i)
      PROVE  AllMove
  <2>. DEFINE z == [a EXCEPT !.status = "ARBITER_RESOLVED_PENDING_APPEAL",
                             !.appeal_bond_deposited = 0]
  <2>1. /\ attempts' = [attempts EXCEPT ![b][i] = z]
        /\ a.status \in {"APPEAL_PENDING_FUNDING", "APPEAL_FUNDED_PENDING_BINDING"}
    BY <1>5 DEF ExpireAppealFunding, AppealFundingLapsed
  <2>. HIDE DEF a
  <2>3. /\ z.bond_amount = a.bond_amount /\ z.appeal_deadline = a.appeal_deadline
        /\ z.appeal_bond_recipient = a.appeal_bond_recipient
        /\ z.status = "ARBITER_RESOLVED_PENDING_APPEAL"
    BY <1>0 DEF Attempt
  <2>. HIDE DEF z
  <2>4. ~Closed(a) /\ z.status \in AFTER_RULING
    BY <2>1, <2>3 DEF Closed, AFTER_RULING, TERMINAL_STATES, a
  <2>5. Moves(a, z)
    BY <2>3, <2>4 DEF Moves, AppealMoves, AppealUncounted, AppealCounts
  <2>. QED
    BY <1>1, <2>1, <2>5 DEF a
<1>. QED
  BY <1>2, <1>3, <1>4, <1>5

\* The second consensus ends the attempt a, whose appeal, if it had one, was heard.
LEMMA ConsensusMoves ==
    ASSUME TypeOK, Books, NEW b \in BountyId, NEW i \in AttemptIndex, NEW finding,
           \/ FinalizeArbiterResolution(b, i, finding)
           \/ ResolveAppeal(b, i, finding)
    PROVE  AllMove
<1>. DEFINE a == attempts[b][i]
<1>0. a \in Attempt
  BY DEF TypeOK
<1>1. PICK x : /\ SettleViaSecondConsensus(b, i, x, finding)
               /\ \/ /\ a.status = "ARBITER_RESOLVED_PENDING_APPEAL"
                     /\ x = Reconsidered(a, finding)
                  \/ /\ a.status = "APPEALED"
                     /\ x = [Reconsidered(a, finding) EXCEPT
                               !.appeal_bond_recipient = AppealRecipient(b, a, finding)]
  BY DEF FinalizeArbiterResolution, ResolveAppeal
<1>2. PICK z :
        /\ \/ attempts' = [attempts EXCEPT ![b][i] = z]
           \/ attempts' = [attempts EXCEPT ![b] = LostRace(b, i, [@ EXCEPT ![i] = z])]
        /\ \/ z = Forfeited(x, TRUE)
           \/ z = Refunded(x, "INSUFFICIENT_EVIDENCE_FINAL")
           \/ z = Refunded(x, "LOST_RACE")
           \/ \E share : z = [x EXCEPT !.bond_deposited = 0, !.status = "WON",
                                       !.resolved_by_arbiter = TRUE, !.last_payout_bps = share]
  BY <1>1 DEF SettleViaSecondConsensus, SettleRewardToWinner
<1>. HIDE DEF a
<1>3. PICK e : e = EffectiveBps(finding)
  OBVIOUS
<1>4. Reconsidered(a, finding) = [a EXCEPT !.pending_arbiter_verdict = finding.verdict,
                                           !.pending_payout_bps = e]
  BY <1>3 DEF Reconsidered
<1>5. PICK y : y = Reconsidered(a, finding)
  OBVIOUS
<1>6. /\ y.bond_amount = a.bond_amount /\ y.appeal_deadline = a.appeal_deadline
      /\ y.appeal_bond_recipient = a.appeal_bond_recipient
      /\ DOMAIN y = DOMAIN a
  BY <1>0, <1>4, <1>5 DEF Attempt
<1>7. /\ x.bond_amount = a.bond_amount /\ x.appeal_deadline = a.appeal_deadline
      /\ a.status # "APPEALED" => x.appeal_bond_recipient = a.appeal_bond_recipient
      /\ DOMAIN x = DOMAIN a
  BY <1>0, <1>1, <1>5, <1>6 DEF Attempt
<1>8. /\ z.bond_amount = a.bond_amount /\ z.appeal_deadline = a.appeal_deadline
      /\ a.status # "APPEALED" => z.appeal_bond_recipient = a.appeal_bond_recipient
      /\ z.status \in TERMINAL_STATES
  BY <1>0, <1>2, <1>7 DEF Attempt, Forfeited, Refunded, TERMINAL_STATES
<1>9. Moves(a, z)
  <2>1. CASE a.status = "APPEALED"
    BY <1>8, <2>1 DEF Moves, AppealMoves, AppealUncounted, AppealCounts, Closed, AFTER_RULING,
                      TERMINAL_STATES
  <2>2. CASE a.status # "APPEALED"
    <3>1. z.status # "APPEALED"
      BY <1>8 DEF TERMINAL_STATES
    <3>. QED
      BY <1>8, <2>2, <3>1, PlainMoves
  <2>. QED
    BY <2>1, <2>2
<1>. QED
  BY <1>2, <1>9, OneMoves, RaceMoves DEF a

LEMMA VerifyWinnerMoves ==
    ASSUME TypeOK, NEW b \in BountyId, NEW i \in AttemptIndex, NEW finding,
           attempts[b][i].status = "SUBMITTED", VerifyWinner(b, i, finding)
    PROVE  AllMove
<1>. DEFINE a == attempts[b][i]
<1>1. PICK z : /\ attempts' = [attempts EXCEPT ![b] = LostRace(b, i, [@ EXCEPT ![i] = z])]
               /\ \E share : z = [Judged(b, i, finding) EXCEPT
                                    !.bond_deposited = 0, !.status = "WON",
                                    !.resolved_by_arbiter = FALSE, !.last_payout_bps = share]
  BY DEF VerifyWinner, SettleRewardToWinner
<1>2. Judged(b, i, finding) = [a EXCEPT !.last_verdict = finding.verdict] /\ a \in Attempt
  BY DEF Judged, TypeOK
<1>3. PICK x : x = Judged(b, i, finding)
  OBVIOUS
<1>. HIDE DEF a
<1>4. /\ x.bond_amount = a.bond_amount /\ x.appeal_deadline = a.appeal_deadline
      /\ x.appeal_bond_recipient = a.appeal_bond_recipient
      /\ DOMAIN x = DOMAIN a
  BY <1>2, <1>3 DEF Attempt
<1>5. /\ z.bond_amount = a.bond_amount /\ z.appeal_deadline = a.appeal_deadline
      /\ z.appeal_bond_recipient = a.appeal_bond_recipient
      /\ z.status = "WON"
  BY <1>1, <1>2, <1>3, <1>4 DEF Attempt
<1>6. Moves(a, z)
  BY <1>5, PlainMoves DEF TERMINAL_STATES
<1>. QED
  BY <1>1, <1>6, RaceMoves DEF a

LEMMA ParticipationMoves ==
    ASSUME TypeOK, Books, Participation
    PROVE  AllMove
<1>1. ASSUME attempts' = attempts
      PROVE  AllMove
  BY <1>1, StaysMoves DEF AllMove
<1>2. CASE \/ \E r \in ReservationId : ExpireAttemptReservation(r)
           \/ \E b \in BountyId, r \in ReservationId, sender \in Challenger :
                ReserveAttempt(sender, b, r)
  BY <1>1, <1>2 DEF ExpireAttemptReservation, ReserveAttempt
<1>3. ASSUME NEW b \in BountyId, NEW sender \in Creator,
             \/ \E arbiter \in Arbiter, seconds \in DeadlineSeconds, bond \in Bond,
                   reward \in Reward :
                  CreateBounty(sender, b, arbiter, seconds, bond, reward)
             \/ CancelBounty(sender, b)
             \/ ClaimCreatorTimeout(sender, b)
             \/ \E seconds \in ExtraSeconds : ExtendBountyDeadline(sender, b, seconds)
      PROVE  AllMove
  BY <1>1, <1>3 DEF CreateBounty, CancelBounty, ClaimCreatorTimeout, ExtendBountyDeadline
<1>4. ASSUME NEW b \in BountyId, NEW i \in AttemptIndex, NEW finding \in Finding,
             RequestVerification(b, i, finding)
      PROVE  AllMove
  <2>1. attempts[b][i].status = "SUBMITTED"
    BY <1>4 DEF RequestVerification
  <2>2. CASE VerifyWinner(b, i, finding)
    BY <2>1, <2>2, VerifyWinnerMoves
  <2>3. CASE ~VerifyWinner(b, i, finding)
    <3>1. \/ VerifyLostRace(b, i, finding)
          \/ VerifyResubmit(b, i, finding)
          \/ VerifyRevisionsExhausted(b, i, finding)
          \/ VerifyInsufficient(b, i, finding)
          \/ VerifyReject(b, i, finding)
      BY <1>4, <2>3 DEF RequestVerification
    <3>. QED
      BY <2>1, <3>1, QuietMoves
  <2>. QED
    BY <2>2, <2>3
<1>5. ASSUME NEW b \in BountyId, NEW i \in AttemptIndex, NEW finding \in Finding,
             \/ FinalizeArbiterResolution(b, i, finding)
             \/ ResolveAppeal(b, i, finding)
      PROVE  AllMove
  BY <1>5, ConsensusMoves
<1>6. ASSUME NEW b \in BountyId, NEW i \in AttemptIndex, ExpireAppealFunding(b, i)
      PROVE  AllMove
  BY <1>6, RulingMoves
<1>7. ASSUME NEW b \in BountyId, NEW i \in AttemptIndex, NEW sender \in Account,
             \/ SubmitEvidence(sender, b, i)
             \/ ClaimBondForfeiture(sender, b, i)
             \/ ReclaimBondAfterSettlement(sender, b, i)
             \/ RaiseDispute(sender, b, i)
             \/ ForceDefaultResolution(sender, b, i)
      PROVE  AllMove
  BY <1>7, QuietMoves
<1>8. ASSUME NEW b \in BountyId, NEW i \in AttemptIndex, NEW sender \in Account,
             \/ \E verdict \in Ruling, bps \in ReviewBps \ {Malformed} :
                  ResolveDispute(sender, b, i, verdict, bps)
             \/ AppealArbiterResolution(sender, b, i)
      PROVE  AllMove
  BY <1>8, RulingMoves
<1>. QED
  BY <1>2, <1>3, <1>4, <1>5, <1>6, <1>7, <1>8 DEF Participation

\* The bond of an attempt is the one its bounty asked for, and an appeal window is
\* never longer than the contract grants.
Agreed(b, i) ==
    /\ attempts[b][i].status # "NONE" => attempts[b][i].bond_amount = bounties[b].required_bond
    /\ attempts[b][i].appeal_deadline <= APPEAL_WINDOW_SECONDS

\* All that the theorems say of the record of the contract.
InOrder ==
    /\ TypeOK /\ Books
    /\ \A b \in BountyId : IndicesFit(b)
    /\ \A b \in BountyId, i \in AttemptIndex : Reserved(b, i) /\ Agreed(b, i)
    /\ \A r \in ReservationId : ReservationBooks(reservations[r])

\* What does not change of an attempt that exists.
AttemptKept(b, i) ==
    LET a == attempts[b][i]
        z == attempts'[b][i]
    IN
    /\ a.status # "NONE" =>
         z.status # "NONE" /\ z.challenger = a.challenger /\ z.bond_amount = a.bond_amount
    /\ a.status \in TERMINAL_STATES =>
         /\ z.status = a.status /\ z.last_payout_bps = a.last_payout_bps
         /\ z.appealed_by = a.appealed_by
         /\ z.appeal_bond_recipient = a.appeal_bond_recipient
         /\ z.appeal_base_funding_tx_hash = a.appeal_base_funding_tx_hash
    /\ a.status \in AFTER_RULING => z.status \in AFTER_RULING
    /\ Closed(a) => Closed(z)

\* What a step does to an appeal window and to the appeals that count.
WindowKept(b, i) ==
    attempts[b][i].status \in AFTER_RULING =>
        attempts'[b][i].appeal_deadline = attempts[b][i].appeal_deadline

WindowRuns(b, i) ==
    /\ attempts'[b][i].appeal_deadline <= 0
         \/ attempts'[b][i].appeal_deadline <= attempts[b][i].appeal_deadline - 1
    /\ AppealCounts(attempts'[b][i]) => AppealCounts(attempts[b][i])

Uncounted(b, i) == AppealUncounted(attempts[b][i], attempts'[b][i])

LEMMA BindingMoves ==
    ASSUME TypeOK, NEW sender, NEW c \in BountyId, NEW j \in AttemptIndex,
           ConfirmAppealBinding(sender, c, j), NEW b \in BountyId, NEW i \in AttemptIndex
    PROVE  /\ AppealMoves(attempts[b][i], attempts'[b][i])
           /\ b # c \/ i # j => attempts'[b][i] = attempts[b][i]
           /\ attempts[c][j].status = "APPEAL_FUNDED_PENDING_BINDING"
<1>. DEFINE a == attempts[c][j]
            z == [a EXCEPT !.status = "APPEALED"]
<1>1. /\ attempts' = [attempts EXCEPT ![c][j] = z] /\ a.status = "APPEAL_FUNDED_PENDING_BINDING"
      /\ a \in Attempt
  BY DEF ConfirmAppealBinding, AppealAwaitsBinding, TypeOK
<1>. HIDE DEF a
<1>2. /\ z.bond_amount = a.bond_amount /\ z.appeal_deadline = a.appeal_deadline
      /\ z.status = "APPEALED"
  BY <1>1 DEF Attempt
<1>. HIDE DEF z
<1>3. AppealMoves(a, z)
  BY <1>1, <1>2 DEF AppealMoves, Closed, AFTER_RULING, TERMINAL_STATES
<1>4. CASE b = c /\ i = j
  BY <1>1, <1>3, <1>4 DEF a, TypeOK
<1>5. CASE ~(b = c /\ i = j)
  <2>1. attempts'[b][i] = attempts[b][i]
    BY <1>1, <1>5 DEF TypeOK
  <2>. QED
    BY <1>1, <2>1, StaysMoves DEF Moves, a
<1>. QED
  BY <1>4, <1>5

\* The attempt a confirmation makes.
LEMMA FundingMoves ==
    ASSUME TypeOK, Books, NEW sender, NEW c \in BountyId, NEW r \in ReservationId,
           NEW txHash \in TxHash, ConfirmAttemptFunding(sender, c, r, txHash),
           NEW b \in BountyId, NEW i \in AttemptIndex
    PROVE  \/ attempts'[b][i] = attempts[b][i]
           \/ /\ attempts[b][i] = NoAttempt
              /\ attempts'[b][i].bond_amount = bounties'[b].required_bond
              /\ attempts'[b][i].appeal_deadline = 0
              /\ ~AppealCounts(attempts'[b][i])
<1>1. PICK j \in AttemptIndex, z \in Attempt, y \in Bounty, q \in AttemptReservation :
        FundingEffect(c, r, j, z, y, q)
  BY FundingStep
<1>2. /\ attempts' = [attempts EXCEPT ![c][j] = z] /\ bounties' = [bounties EXCEPT ![c] = y]
      /\ attempts[c][j] = NoAttempt
      /\ z.bond_amount = bounties[c].required_bond /\ z.appeal_deadline = 0
      /\ SameTerms(bounties[c], y) /\ z.status = "ACCEPTED"
  BY <1>1 DEF FundingEffect
<1>3. CASE b = c /\ i = j
  <2>1. attempts'[b][i] = z /\ bounties'[b] = y
    BY <1>2, <1>3 DEF TypeOK
  <2>2. TypeOK' /\ Books'
    BY FundingStep
  <2>3. AttemptBooks(bounties'[b].creator, attempts'[b][i])
    BY <2>2 DEF Books, BooksOf
  <2>4. ~AppealCounts(z)
    BY <1>2, <2>1, <2>3 DEF AttemptBooks, AppealCounts, TERMINAL_STATES
  <2>. QED
    BY <1>2, <1>3, <2>1, <2>4 DEF SameTerms
<1>4. CASE ~(b = c /\ i = j)
  BY <1>2, <1>4 DEF TypeOK
<1>. QED
  BY <1>3, <1>4

LEMMA Exists ==
    ASSUME NEW b, NEW a \in Attempt, NEW z, Becomes(b, a, z), a.status # "NONE"
    PROVE  z.status # "NONE"
<1>1. CASE z = Later(a)
  BY <1>1, LaterFields
<1>2. CASE Succeeds(bounties[b].creator, a, z)
  BY <1>2 DEF Succeeds
<1>3. CASE z = [a EXCEPT !.status = "LOST_RACE"]
  BY <1>3 DEF Attempt
<1>4. CASE z.status = "ACCEPTED"
  BY <1>4
<1>. QED
  BY <1>1, <1>2, <1>3, <1>4 DEF Becomes

\* A bounty with an attempt exists.
LEMMA Founded ==
    ASSUME TypeOK, Books, NEW b \in BountyId, NEW i \in AttemptIndex,
           attempts[b][i].status # "NONE"
    PROVE  bounties[b].status # "NONE"
<1>1. i \in Nat /\ i < bounties[b].attempt_count
  BY Numbered
<1>2. NoBounty.attempt_count = 0
  BY DEF NoBounty
<1>. QED
  BY <1>1, <1>2, Records DEF BountyBooks

\* A new attempt has the bond its bounty asks for.
LEMMA Begins ==
    ASSUME TypeOK, Books, [Next]_vars, NEW b \in BountyId, NEW i \in AttemptIndex,
           attempts[b][i].status = "NONE", attempts'[b][i].status # "NONE"
    PROVE  attempts'[b][i].bond_amount = bounties'[b].required_bond
<1>1. CASE Tick
  <2>1. attempts'[b][i] = Later(attempts[b][i]) /\ attempts[b][i] \in Attempt
    BY <1>1 DEF Tick, Later, TypeOK
  <2>. QED
    BY <2>1, LaterFields
<1>2. ASSUME NEW c \in BountyId, NEW j \in AttemptIndex, NEW z, AttemptStep(c, j, z)
      PROVE  FALSE
  BY <1>2 DEF AttemptStep, Succeeds, TypeOK
<1>3. ASSUME NEW c \in BountyId, NEW j \in AttemptIndex, NEW z, WinStep(c, j, z)
      PROVE  FALSE
  <2>0. attempts[c][j].status # "NONE"
    BY <1>3 DEF WinStep, Succeeds
  <2>1. /\ attempts'[c][j] = z
        /\ \A k \in AttemptIndex \ {j} :
             attempts'[c][k] = IF attempts[c][k].status \in LIVE_STATES
                               THEN [attempts[c][k] EXCEPT !.status = "LOST_RACE"]
                               ELSE attempts[c][k]
        /\ \A d \in BountyId \ {c} : attempts'[d] = attempts[d]
    BY <1>3, WinStepKeeps
  <2>2. CASE b = c /\ i = j
    BY <2>0, <2>2
  <2>3. CASE b = c /\ i # j
    <3>1. attempts'[b][i] = attempts[b][i]
      BY <2>1, <2>3 DEF LIVE_STATES
    <3>. QED
      BY <3>1
  <2>4. CASE b # c
    <3>1. attempts'[b] = attempts[b]
      BY <2>1, <2>4
    <3>. QED
      BY <3>1
  <2>. QED
    BY <2>2, <2>3, <2>4
<1>4. ASSUME NEW sender, NEW c \in BountyId, NEW r \in ReservationId, NEW txHash \in TxHash,
             ConfirmAttemptFunding(sender, c, r, txHash)
      PROVE  attempts'[b][i].bond_amount = bounties'[b].required_bond
  BY <1>4, FundingMoves
<1>5. CASE Next
  <2>1. StepKinds
    BY <1>5, Kinds
  <2>2. CASE \/ OwnerStep
             \/ \E r \in ReservationId, q \in AttemptReservation : ReservationStep(r, q)
             \/ \E c \in BountyId, y \in Bounty : BountyStep(c, y)
    BY <2>2 DEF OwnerStep, ReservationStep, BountyStep
  <2>. QED
    BY <1>1, <1>2, <1>3, <1>4, <2>1, <2>2 DEF StepKinds
<1>6. CASE UNCHANGED vars
  BY <1>6 DEF vars
<1>. QED
  BY <1>5, <1>6

\* What a step makes of any attempt.
LEMMA Movement ==
    ASSUME TypeOK, Books, [Next]_vars, NEW b \in BountyId, NEW i \in AttemptIndex
    PROVE  \/ AppealMoves(attempts[b][i], attempts'[b][i])
           \/ attempts'[b][i] = Later(attempts[b][i])
           \/ attempts[b][i] = NoAttempt /\ attempts'[b][i].appeal_deadline = 0
<1>1. ASSUME attempts'[b][i] = attempts[b][i]
      PROVE  AppealMoves(attempts[b][i], attempts'[b][i])
  BY <1>1, StaysMoves DEF Moves
<1>2. CASE Tick
  BY <1>2 DEF Tick, Later
<1>3. CASE Participation
  BY <1>3, ParticipationMoves DEF AllMove, Moves
<1>4. CASE Administration
  BY <1>1, <1>4 DEF Administration, Administer
<1>5. ASSUME NEW sender \in Account, NEW c \in BountyId, NEW r \in ReservationId,
             NEW txHash \in TxHash, ConfirmAttemptFunding(sender, c, r, txHash)
      PROVE  \/ attempts'[b][i] = attempts[b][i]
             \/ attempts[b][i] = NoAttempt /\ attempts'[b][i].appeal_deadline = 0
  BY <1>5, FundingMoves
<1>6. ASSUME NEW sender \in Account, NEW c \in BountyId, NEW j \in AttemptIndex,
             NEW txHash \in TxHash, ConfirmAppealFunding(sender, c, j, txHash)
      PROVE  AppealMoves(attempts[b][i], attempts'[b][i])
  BY <1>6, RulingMoves DEF AllMove, Moves
<1>7. ASSUME NEW sender \in Account, NEW c \in BountyId, NEW j \in AttemptIndex,
             ConfirmAppealBinding(sender, c, j)
      PROVE  AppealMoves(attempts[b][i], attempts'[b][i])
  BY <1>7, BindingMoves
<1>8. CASE UNCHANGED vars
  BY <1>1, <1>8 DEF vars
<1>. QED
  BY <1>1, <1>2, <1>3, <1>4, <1>5, <1>6, <1>7, <1>8 DEF Next, Attestation

LEMMA LaterMoves ==
    ASSUME NEW a \in Attempt, NEW z, z = Later(a)
    PROVE  /\ z.bond_amount = a.bond_amount /\ z.appeal_deadline \in Int
           /\ z.appeal_deadline <= a.appeal_deadline
           /\ z.appeal_deadline <= 0 \/ z.appeal_deadline <= a.appeal_deadline - 1
           /\ z.status = a.status /\ z.appeal_bond_recipient = a.appeal_bond_recipient
<1>1. a.appeal_deadline \in Int
  BY DEF Attempt
<1>2. z.appeal_deadline = Elapsed(a.appeal_deadline, 0) /\ z.bond_amount = a.bond_amount
      /\ z.status = a.status /\ z.appeal_bond_recipient = a.appeal_bond_recipient
  BY DEF Later, Attempt
<1>3. \A d \in Int : /\ Elapsed(d, 0) \in Int /\ Elapsed(d, 0) <= d
                     /\ Elapsed(d, 0) <= 0 \/ Elapsed(d, 0) <= d - 1
  BY DEF Elapsed
<1>. QED
  BY <1>1, <1>2, <1>3

LEMMA AttemptsKept ==
    ASSUME TypeOK, Books, [Next]_vars, NEW b \in BountyId, NEW i \in AttemptIndex,
           Agreed(b, i)
    PROVE  AttemptKept(b, i) /\ Agreed(b, i)'
<1>. DEFINE a == attempts[b][i]
            z == attempts'[b][i]
<1>1. a \in Attempt /\ Becomes(b, a, z) /\ TypeOK' /\ Books'
  BY Effects, StepsKeep DEF TypeOK
<1>2. z \in Attempt
  BY <1>1 DEF TypeOK
<1>3. NoAttempt.status = "NONE" /\ NoAttempt.appeal_bond_recipient = NoOne
  BY DEF NoAttempt
<1>4. \/ AppealMoves(a, z)
      \/ z = Later(a)
      \/ a = NoAttempt /\ z.appeal_deadline = 0
  BY Movement
<1>5. /\ a.status # "NONE" => a.bond_amount = bounties[b].required_bond
      /\ a.appeal_deadline <= APPEAL_WINDOW_SECONDS
      /\ a.appeal_deadline \in Int /\ z.appeal_deadline \in Int
      /\ APPEAL_WINDOW_SECONDS \in Nat
  BY <1>1, <1>2, DurationAssumption DEF Agreed, Attempt
<1>6. a.status # "NONE" => z.status # "NONE"
  BY <1>1, Exists
<1>7. a.status # "NONE" => z.challenger = a.challenger
  BY <1>1, ChallengerKept
<1>8. a.status \in TERMINAL_STATES =>
        /\ z.status = a.status /\ z.last_payout_bps = a.last_payout_bps
        /\ z.appealed_by = a.appealed_by
        /\ z.appeal_bond_recipient = a.appeal_bond_recipient
        /\ z.appeal_base_funding_tx_hash = a.appeal_base_funding_tx_hash
  <2>. SUFFICES ASSUME a.status \in TERMINAL_STATES
                PROVE  /\ z.status = a.status /\ z.last_payout_bps = a.last_payout_bps
                       /\ z.appealed_by = a.appealed_by
                       /\ z.appeal_bond_recipient = a.appeal_bond_recipient
                       /\ z.appeal_base_funding_tx_hash = a.appeal_base_funding_tx_hash
    OBVIOUS
  <2>1. Kept(a, z)
    BY <1>1, TerminalKept
  <2>2. PICK x, y, w : z = [a EXCEPT !.bond_deposited = x, !.appeal_deadline = y,
                                     !.appeal_funding_deadline = w]
    BY <2>1 DEF Kept
  <2>. HIDE DEF a, z
  <2>. QED
    BY <1>1, <2>2 DEF Attempt
<1>9. /\ a.status # "NONE" => z.bond_amount = a.bond_amount
      /\ z.appeal_deadline <= APPEAL_WINDOW_SECONDS
      /\ a.status \in AFTER_RULING => z.status \in AFTER_RULING
      /\ Closed(a) => Closed(z)
  <2>1. CASE AppealMoves(a, z)
    BY <1>5, <2>1 DEF AppealMoves
  <2>2. CASE z = Later(a)
    <3>1. /\ z.bond_amount = a.bond_amount
          /\ z.appeal_deadline <= a.appeal_deadline
          /\ z.status = a.status /\ z.appeal_bond_recipient = a.appeal_bond_recipient
      BY <1>1, <2>2, LaterMoves
    <3>. HIDE DEF a, z
    <3>. QED
      BY <1>5, <3>1 DEF Closed
  <2>3. CASE a = NoAttempt /\ z.appeal_deadline = 0
    BY <1>3, <1>5, <2>3 DEF Closed, AFTER_RULING, TERMINAL_STATES
  <2>. QED
    BY <1>4, <2>1, <2>2, <2>3
<1>10. z.status # "NONE" => z.bond_amount = bounties'[b].required_bond
  <2>1. CASE a.status = "NONE"
    BY <2>1, Begins
  <2>2. CASE a.status # "NONE"
    <3>1. bounties[b].status # "NONE"
      BY <2>2, Founded
    <3>2. bounties'[b].required_bond = bounties[b].required_bond
      BY <3>1, BountiesKept DEF BountyKept, SameTerms
    <3>. QED
      BY <1>5, <1>9, <2>2, <3>2
  <2>. QED
    BY <2>1, <2>2
<1>. QED
  BY <1>5, <1>6, <1>7, <1>8, <1>9, <1>10 DEF AttemptKept, Agreed

LEMMA InitInOrder == Init => InOrder
<1>. SUFFICES ASSUME Init PROVE InOrder
  OBVIOUS
<1>1. TypeOK /\ Books
  BY InitKeeps
<1>2. ASSUME NEW b \in BountyId, NEW i \in AttemptIndex
      PROVE  Reserved(b, i) /\ Agreed(b, i)
  <2>1. attempts[b][i] = NoAttempt
    BY DEF Init
  <2>2. NoAttempt.status = "NONE" /\ NoAttempt.appeal_deadline = 0
    BY DEF NoAttempt
  <2>3. Agreed(b, i)
    BY <2>1, <2>2, DurationAssumption DEF Agreed
  <2>. QED
    BY <2>3, InitReserved
<1>3. ASSUME NEW r \in ReservationId
      PROVE  ReservationBooks(reservations[r])
  BY DEF Init, UnissuedReservation, ReservationBooks
<1>4. ASSUME NEW b \in BountyId
      PROVE  IndicesFit(b)
  BY DEF Init, NoBounty, IndicesFit
<1>. QED
  BY <1>1, <1>2, <1>3, <1>4 DEF InOrder

\* Everything a step does not change.
AllKept ==
    /\ \A b \in BountyId : BountyKept(b)
    /\ \A r \in ReservationId : ReservationSucceeds(reservations[r], reservations'[r])
    /\ \A b \in BountyId, i \in AttemptIndex : AttemptKept(b, i)

LEMMA StaysInOrder ==
    ASSUME InOrder, [Next]_vars
    PROVE  InOrder' /\ AllKept
<1>1. TypeOK /\ Books
  BY DEF InOrder
<1>2. TypeOK' /\ Books'
  BY <1>1, StepsKeep
<1>3. ASSUME NEW b \in BountyId, NEW i \in AttemptIndex
      PROVE  Reserved(b, i)' /\ Agreed(b, i)' /\ AttemptKept(b, i)
  <2>1. Reserved(b, i) /\ Agreed(b, i)
    BY DEF InOrder
  <2>. QED
    BY <1>1, <2>1, ReservedKeeps, AttemptsKept
<1>4. ASSUME NEW r \in ReservationId
      PROVE  /\ ReservationBooks(reservations'[r])
             /\ ReservationSucceeds(reservations[r], reservations'[r])
  BY <1>1, ReservationsKept DEF InOrder
<1>5. \A b \in BountyId : BountyKept(b)
  BY <1>1, BountiesKept
<1>6. ASSUME NEW b \in BountyId
      PROVE  IndicesFit(b)'
  BY <1>1, CountFits DEF InOrder
<1>. QED
  BY <1>2, <1>3, <1>4, <1>5, <1>6 DEF InOrder, AllKept

\* The record of the contract is in order in every reachable state: what a reader of
\* the chain, the relayer first of all, may rely on without asking again.
THEOREM RecordsInOrder == Spec => []InOrder
<1>1. InOrder /\ [Next]_vars => InOrder'
  BY StaysInOrder
<1>. QED
  BY <1>1, InitInOrder, PTL DEF Spec

\* Time ends appeal windows.
LEMMA TickWindows ==
    ASSUME TypeOK, Tick
    PROVE  \A b \in BountyId, i \in AttemptIndex : WindowRuns(b, i)
<1>. SUFFICES ASSUME NEW b \in BountyId, NEW i \in AttemptIndex
              PROVE  WindowRuns(b, i)
  OBVIOUS
<1>1. attempts'[b][i] = Later(attempts[b][i]) /\ attempts[b][i] \in Attempt
  BY DEF Tick, Later, TypeOK
<1>. QED
  BY <1>1, LaterMoves DEF WindowRuns, AppealCounts

\* Nothing else does, and only the report of a binding makes an appeal count.
LEMMA CallWindows ==
    ASSUME TypeOK, Books,
           \/ Participation
           \/ \E sender \in Account, b \in BountyId, r \in ReservationId, txHash \in TxHash :
                ConfirmAttemptFunding(sender, b, r, txHash)
           \/ \E sender \in Account, b \in BountyId, i \in AttemptIndex, txHash \in TxHash :
                ConfirmAppealFunding(sender, b, i, txHash)
    PROVE  \A b \in BountyId, i \in AttemptIndex : WindowKept(b, i) /\ Uncounted(b, i)
<1>1. ASSUME AllMove, NEW b \in BountyId, NEW i \in AttemptIndex
      PROVE  WindowKept(b, i) /\ Uncounted(b, i)
  BY <1>1 DEF AllMove, Moves, AppealMoves, WindowKept, Uncounted
<1>2. CASE Participation
  BY <1>1, <1>2, ParticipationMoves
<1>3. ASSUME NEW sender \in Account, NEW c \in BountyId, NEW r \in ReservationId,
             NEW txHash \in TxHash, ConfirmAttemptFunding(sender, c, r, txHash),
             NEW b \in BountyId, NEW i \in AttemptIndex
      PROVE  WindowKept(b, i) /\ Uncounted(b, i)
  <2>1. CASE attempts'[b][i] = attempts[b][i]
    BY <2>1 DEF WindowKept, Uncounted, AppealUncounted
  <2>2. CASE attempts[b][i] = NoAttempt /\ ~AppealCounts(attempts'[b][i])
    <3>1. NoAttempt.status \notin AFTER_RULING
      BY DEF NoAttempt, AFTER_RULING, TERMINAL_STATES
    <3>. QED
      BY <2>2, <3>1 DEF WindowKept, Uncounted, AppealUncounted
  <2>. QED
    BY <1>3, <2>1, <2>2, FundingMoves
<1>4. ASSUME NEW sender \in Account, NEW c \in BountyId, NEW j \in AttemptIndex,
             NEW txHash \in TxHash, ConfirmAppealFunding(sender, c, j, txHash)
      PROVE  AllMove
  BY <1>4, RulingMoves
<1>. QED
  BY <1>1, <1>2, <1>3, <1>4

\* The report of a binding concerns one appeal, which was waiting for it.
LEMMA BindingWindows ==
    ASSUME TypeOK, NEW sender, NEW c \in BountyId, NEW j \in AttemptIndex,
           ConfirmAppealBinding(sender, c, j), NEW b \in BountyId, NEW i \in AttemptIndex
    PROVE  /\ WindowKept(b, i)
           /\ b # c \/ i # j => Uncounted(b, i)
           /\ attempts[c][j].status = "APPEAL_FUNDED_PENDING_BINDING"
BY BindingMoves DEF WindowKept, AppealMoves, Uncounted, AppealUncounted

-----------------------------------------------------------------------------
(* The contract implements Contest: the initial states map to the initial  *)
(* state, and each kind of step to one step of it or to none.              *)

\* What Contest sees of a bounty and of an attempt.
RewardOf(x) ==
    CASE x.status = "NONE"    -> "none"
      [] x.status = "OPEN"    -> "open"
      [] x.status = "SETTLED" -> "won"
      [] OTHER                -> "returned"

WinnerOf(x) == IF x.attempts_won = 1 THEN x.winning_attempt_index ELSE NoWinner

BondOf(a) ==
    CASE a.status = "NONE"           -> "none"
      [] a.status = "BOND_FORFEITED" -> "forfeited"
      [] a.status \in TERMINAL_STATES \ {"BOND_FORFEITED"} -> "returned"
      [] OTHER                       -> "held"

LEMMA Seen ==
    /\ RewardOutcome = [b \in BountyId |-> RewardOf(bounties[b])]
    /\ Winner = [b \in BountyId |-> WinnerOf(bounties[b])]
    /\ BondOutcome = [b \in BountyId |-> [i \in AttemptIndex |-> BondOf(attempts[b][i])]]
    /\ RewardOutcome' = [b \in BountyId |-> RewardOf(bounties'[b])]
    /\ Winner' = [b \in BountyId |-> WinnerOf(bounties'[b])]
    /\ BondOutcome' = [b \in BountyId |-> [i \in AttemptIndex |-> BondOf(attempts'[b][i])]]
BY DEF RewardOutcome, Winner, BondOutcome, RewardOf, WinnerOf, BondOf

\* The reward and the winner of a bounty that is as its books say.
LEMMA RewardSeen ==
    ASSUME NEW x, BountyBooks(x)
    PROVE  /\ x.status = "NONE" => RewardOf(x) = "none"
           /\ x.status = "OPEN" => RewardOf(x) = "open"
           /\ x.status = "SETTLED" => RewardOf(x) = "won" /\ WinnerOf(x) = x.winning_attempt_index
           /\ x.status \in {"CANCELLED", "EXPIRED_REFUNDED"} => RewardOf(x) = "returned"
           /\ x.status # "SETTLED" => WinnerOf(x) = NoWinner
BY DEF BountyBooks, RewardOf, WinnerOf

LEMMA BondSeen ==
    ASSUME NEW a
    PROVE  /\ a.status = "NONE" => BondOf(a) = "none"
           /\ a.status = "BOND_FORFEITED" => BondOf(a) = "forfeited"
           /\ a.status \in TERMINAL_STATES \ {"BOND_FORFEITED"} => BondOf(a) = "returned"
           /\ a.status \notin TERMINAL_STATES \cup {"NONE"} => BondOf(a) = "held"
BY DEF BondOf, TERMINAL_STATES

\* What a call makes of the bond of the attempt it is about.
LEMMA BondMoves ==
    ASSUME NEW creator, NEW a \in Attempt, NEW z, Succeeds(creator, a, z)
    PROVE  \/ BondOf(z) = BondOf(a) /\ z.status # "WON"
           \/ BondOf(a) = "held" /\ BondOf(z) \in {"returned", "forfeited"}
<1>1. a.status \notin {"NONE", "WON"} /\ z.status # "NONE"
  BY DEF Succeeds
<1>2. CASE a.status \in TERMINAL_STATES
  <2>. DEFINE bond == z.bond_deposited
  <2>1. z = [a EXCEPT !.bond_deposited = bond]
    BY <1>2 DEF Succeeds
  <2>. HIDE DEF bond
  <2>2. z.status = a.status
    BY <2>1 DEF Attempt
  <2>. QED
    BY <1>1, <2>2 DEF BondOf
<1>3. CASE a.status \notin TERMINAL_STATES
  <2>1. BondOf(a) = "held"
    BY <1>1, <1>3, BondSeen
  <2>2. CASE z.status \in TERMINAL_STATES
    BY <2>1, <2>2, BondSeen
  <2>3. CASE z.status \notin TERMINAL_STATES
    <3>1. BondOf(z) = "held" /\ z.status # "WON"
      BY <1>1, <2>3, BondSeen DEF TERMINAL_STATES
    <3>. QED
      BY <2>1, <3>1
  <2>. QED
    BY <2>2, <2>3
<1>. QED
  BY <1>2, <1>3

\* A step that Contest does not see.
LEMMA NothingSeen ==
    ASSUME \A b \in BountyId : /\ RewardOf(bounties'[b]) = RewardOf(bounties[b])
                               /\ WinnerOf(bounties'[b]) = WinnerOf(bounties[b])
                               /\ \A i \in AttemptIndex :
                                    BondOf(attempts'[b][i]) = BondOf(attempts[b][i])
    PROVE  UNCHANGED Promise!contestVars
BY Seen DEF Promise!contestVars

\* What Contest sees of a step that changes one bounty, or one attempt.
LEMMA BountySeen ==
    ASSUME NEW b \in BountyId, NEW y, bounties'[b] = y,
           \A c \in BountyId \ {b} : bounties'[c] = bounties[c]
    PROVE  /\ RewardOutcome[b] = RewardOf(bounties[b])
           /\ RewardOutcome' = [RewardOutcome EXCEPT ![b] = RewardOf(y)]
           /\ Winner[b] = WinnerOf(bounties[b])
           /\ Winner' = [Winner EXCEPT ![b] = WinnerOf(y)]
<1>1. /\ RewardOutcome[b] = RewardOf(bounties[b])
      /\ RewardOutcome' = [RewardOutcome EXCEPT ![b] = RewardOf(y)]
  BY Seen
<1>2. /\ Winner[b] = WinnerOf(bounties[b])
      /\ Winner' = [Winner EXCEPT ![b] = WinnerOf(y)]
  BY Seen
<1>. QED
  BY <1>1, <1>2

LEMMA AttemptSeen ==
    ASSUME NEW b \in BountyId, NEW i \in AttemptIndex, NEW z, attempts'[b][i] = z,
           \A c \in BountyId, j \in AttemptIndex :
             ~(c = b /\ j = i) => attempts'[c][j] = attempts[c][j]
    PROVE  /\ BondOutcome[b][i] = BondOf(attempts[b][i])
           /\ BondOutcome' = [BondOutcome EXCEPT ![b][i] = BondOf(z)]
<1>. DEFINE Before(c) == [j \in AttemptIndex |-> BondOf(attempts[c][j])]
            After(c) == [j \in AttemptIndex |-> BondOf(attempts'[c][j])]
            outcome == BondOf(z)
<1>1. After(b) = [Before(b) EXCEPT ![i] = outcome]
  OBVIOUS
<1>2. \A c \in BountyId \ {b} : After(c) = Before(c)
  OBVIOUS
<1>3. Before(b)[i] = BondOf(attempts[b][i])
  OBVIOUS
<1>4. /\ BondOutcome = [c \in BountyId |-> Before(c)]
      /\ BondOutcome' = [c \in BountyId |-> After(c)]
  BY Seen
<1>. HIDE DEF Before, After, outcome
<1>5. BondOutcome' = [BondOutcome EXCEPT ![b][i] = outcome]
  BY <1>1, <1>2, <1>4
<1>. QED
  BY <1>3, <1>4, <1>5 DEF outcome

LEMMA BountyStepSeen ==
    ASSUME TypeOK, Books, NEW b \in BountyId, NEW y, BountyStep(b, y)
    PROVE  [Promise!Next]_Promise!contestVars
<1>. DEFINE x == bounties[b]
<1>1. /\ BountySucceeds(x, y, attempts[b])
      /\ bounties' = [bounties EXCEPT ![b] = y]
      /\ attempts' = attempts
  BY DEF BountyStep
<1>2. BountyBooks(x) /\ BountyBooks(y)
  BY <1>1, BookFacts DEF BooksOf, BountySucceeds
<1>3. bounties'[b] = y /\ \A c \in BountyId \ {b} : bounties'[c] = bounties[c]
  BY <1>1 DEF TypeOK
<1>4. Winner' = Winner /\ BondOutcome' = BondOutcome
  <2>1. x.status # "SETTLED" /\ y.status # "SETTLED"
    BY <1>1 DEF BountySucceeds
  <2>2. WinnerOf(y) = WinnerOf(x)
    BY <1>2, <2>1, RewardSeen
  <2>. QED
    BY <1>1, <1>3, <2>2, Seen
<1>5. RewardOutcome' = [RewardOutcome EXCEPT ![b] = RewardOf(y)] /\ RewardOutcome[b] = RewardOf(x)
  BY <1>3, BountySeen
<1>6. CASE x.status = "NONE" /\ y.status = "OPEN"
  <2>1. RewardOf(x) = "none" /\ RewardOf(y) = "open"
    BY <1>2, <1>6, RewardSeen
  <2>2. Promise!Offer(b)
    BY <1>4, <1>5, <2>1 DEF Promise!Offer
  <2>. QED
    BY <2>2 DEF Promise!Next
<1>7. CASE x.status = "OPEN" /\ y.status = "OPEN"
  <2>1. RewardOf(x) = RewardOf(y)
    BY <1>2, <1>7, RewardSeen
  <2>2. RewardOutcome' = RewardOutcome
    BY <1>5, <2>1, Seen
  <2>. QED
    BY <1>4, <2>2 DEF Promise!contestVars
<1>8. CASE x.status = "OPEN" /\ y.status \in {"CANCELLED", "EXPIRED_REFUNDED"}
  <2>1. RewardOf(x) = "open" /\ RewardOf(y) = "returned"
    BY <1>2, <1>8, RewardSeen
  <2>2. Promise!ReturnReward(b)
    BY <1>4, <1>5, <2>1 DEF Promise!ReturnReward
  <2>. QED
    BY <2>2 DEF Promise!Next
<1>. QED
  BY <1>1, <1>6, <1>7, <1>8 DEF BountySucceeds

LEMMA FundingSeen ==
    ASSUME TypeOK, Books, NEW sender, NEW b \in BountyId, NEW r \in ReservationId,
           NEW txHash \in TxHash, ConfirmAttemptFunding(sender, b, r, txHash)
    PROVE  [Promise!Next]_Promise!contestVars
<1>1. PICK i \in AttemptIndex, z \in Attempt, y \in Bounty, q \in AttemptReservation :
        FundingEffect(b, r, i, z, y, q)
  BY FundingStep
<1>2. /\ bounties[b].status = "OPEN" /\ y.status = "OPEN"
      /\ attempts[b][i] = NoAttempt /\ z.status = "ACCEPTED"
      /\ attempts' = [attempts EXCEPT ![b][i] = z]
      /\ bounties' = [bounties EXCEPT ![b] = y]
  BY <1>1 DEF FundingEffect
<1>3. bounties'[b] = y /\ \A c \in BountyId \ {b} : bounties'[c] = bounties[c]
  BY <1>2 DEF TypeOK
<1>4. BountyBooks(bounties[b]) /\ BountyBooks(y)
  <2>1. Books' /\ Books
    BY FundingStep
  <2>. QED
    BY <1>3, <2>1 DEF Books, BooksOf
<1>5. /\ RewardOf(bounties[b]) = "open" /\ RewardOf(y) = "open"
      /\ WinnerOf(bounties[b]) = NoWinner /\ WinnerOf(y) = NoWinner
  BY <1>2, <1>4, RewardSeen
<1>6. Winner' = Winner /\ RewardOutcome' = RewardOutcome /\ RewardOutcome[b] = "open"
  BY <1>3, <1>5, Seen
<1>7. BondOf(NoAttempt) = "none" /\ BondOf(z) = "held"
  <2>1. NoAttempt.status = "NONE"
    BY DEF NoAttempt
  <2>. QED
    BY <1>2, <2>1, BondSeen DEF TERMINAL_STATES
<1>8. /\ attempts'[b][i] = z
      /\ \A c \in BountyId, j \in AttemptIndex :
           ~(c = b /\ j = i) => attempts'[c][j] = attempts[c][j]
  BY <1>2 DEF TypeOK
<1>9. BondOutcome' = [BondOutcome EXCEPT ![b][i] = "held"] /\ BondOutcome[b][i] = "none"
  BY <1>2, <1>7, <1>8, AttemptSeen
<1>10. Promise!Enter(b, i)
  BY <1>6, <1>9 DEF Promise!Enter
<1>. QED
  BY <1>10 DEF Promise!Next

LEMMA AttemptStepSeen ==
    ASSUME TypeOK, Books, NEW b \in BountyId, NEW i \in AttemptIndex, NEW z,
           AttemptStep(b, i, z)
    PROVE  [Promise!Next]_Promise!contestVars
<1>. DEFINE a == attempts[b][i]
<1>1. /\ Succeeds(bounties[b].creator, a, z) /\ a \in Attempt
      /\ bounties' = bounties
      /\ attempts' = [attempts EXCEPT ![b][i] = z]
  BY DEF AttemptStep, TypeOK
<1>2. /\ attempts'[b][i] = z
      /\ \A c \in BountyId, j \in AttemptIndex :
           ~(c = b /\ j = i) => attempts'[c][j] = attempts[c][j]
  BY <1>1 DEF TypeOK
<1>3. RewardOutcome' = RewardOutcome /\ Winner' = Winner
  BY <1>1, Seen
<1>4. CASE BondOf(z) = BondOf(a)
  <2>1. BondOutcome' = BondOutcome
    BY <1>2, <1>4, Seen
  <2>. QED
    BY <1>3, <2>1 DEF Promise!contestVars
<1>5. CASE BondOf(a) = "held" /\ BondOf(z) \in {"returned", "forfeited"}
  <2>. DEFINE outcome == BondOf(z)
  <2>1. BondOutcome' = [BondOutcome EXCEPT ![b][i] = outcome] /\ BondOutcome[b][i] = "held"
    BY <1>2, <1>5, AttemptSeen
  <2>. HIDE DEF outcome
  <2>2. Promise!Decide(b, i, outcome)
    BY <1>3, <2>1 DEF Promise!Decide
  <2>. QED
    BY <1>5, <2>2 DEF Promise!Next, outcome
<1>. QED
  BY <1>1, <1>4, <1>5, BondMoves

LEMMA WinStepSeen ==
    ASSUME TypeOK, Books, NEW b \in BountyId, NEW i \in AttemptIndex, NEW z,
           WinStep(b, i, z)
    PROVE  [Promise!Next]_Promise!contestVars
<1>. DEFINE others == {j \in AttemptIndex \ {i} : attempts[b][j].status \in LIVE_STATES}
            y == bounties'[b]
<1>1. /\ Succeeds(bounties[b].creator, attempts[b][i], z)
      /\ bounties[b].status = "OPEN" /\ z.status = "WON"
      /\ bounties' = [bounties EXCEPT ![b] = Settled(b, i)]
  BY DEF WinStep, IsOpen
<1>2. /\ y.status = "SETTLED" /\ y.winning_attempt_index = i
      /\ BountyBooks(bounties[b]) /\ BountyBooks(y)
  <2>1. y = Settled(b, i) /\ bounties[b] \in Bounty
    BY <1>1 DEF TypeOK
  <2>2. y.status = "SETTLED" /\ y.winning_attempt_index = i
    BY <2>1 DEF Settled, Bounty
  <2>3. Books' /\ Books
    BY WinStepKeeps
  <2>. QED
    BY <2>2, <2>3 DEF Books, BooksOf
<1>3. /\ attempts'[b][i] = z
      /\ \A j \in AttemptIndex \ {i} :
           attempts'[b][j] = IF attempts[b][j].status \in LIVE_STATES
                             THEN [attempts[b][j] EXCEPT !.status = "LOST_RACE"]
                             ELSE attempts[b][j]
      /\ \A c \in BountyId \ {b} : attempts'[c] = attempts[c] /\ bounties'[c] = bounties[c]
  BY WinStepKeeps
<1>4. /\ RewardOutcome[b] = "open"
      /\ RewardOutcome' = [RewardOutcome EXCEPT ![b] = "won"]
      /\ Winner' = [Winner EXCEPT ![b] = i]
  <2>1. RewardOf(bounties[b]) = "open" /\ RewardOf(y) = "won" /\ WinnerOf(y) = i
    BY <1>1, <1>2, RewardSeen
  <2>. QED
    BY <1>3, <2>1, BountySeen
<1>5. BondOf(attempts[b][i]) = "held" /\ BondOf(z) = "returned"
  <2>1. BondOf(z) = "returned"
    BY <1>1, BondSeen DEF TERMINAL_STATES
  <2>2. attempts[b][i] \in Attempt
    BY DEF TypeOK
  <2>. QED
    BY <1>1, <2>1, <2>2, BondMoves
<1>6. ASSUME NEW j \in others
      PROVE  BondOf(attempts[b][j]) = "held" /\ BondOf(attempts'[b][j]) = "returned"
  <2>. DEFINE a == attempts[b][j]
  <2>1. a \in Attempt /\ a.status \in LIVE_STATES
    BY DEF TypeOK
  <2>2. attempts'[b][j] = [a EXCEPT !.status = "LOST_RACE"]
    BY <1>3, <2>1
  <2>. HIDE DEF a
  <2>3. attempts'[b][j].status = "LOST_RACE"
    BY <2>1, <2>2 DEF Attempt
  <2>4. BondOf(a) = "held"
    BY <2>1, BondSeen DEF TERMINAL_STATES, LIVE_STATES
  <2>. QED
    BY <2>3, <2>4, BondSeen DEF TERMINAL_STATES, a
<1>7. \A j \in AttemptIndex \ (others \cup {i}) : attempts'[b][j] = attempts[b][j]
  BY <1>3
<1>8. others \in SUBSET (AttemptIndex \ {i})
  OBVIOUS
<1>. HIDE DEF others
<1>9. \A j \in others \cup {i} : BondOutcome[b][j] = "held"
  BY <1>5, <1>6, <1>8, Seen
<1>10. BondOutcome' = [BondOutcome EXCEPT ![b] =
           [j \in AttemptIndex |-> IF j \in others \cup {i} THEN "returned" ELSE @[j]]]
  <2>. DEFINE after == [j \in AttemptIndex |-> IF j \in others \cup {i} THEN "returned"
                                              ELSE BondOutcome[b][j]]
  <2>1. [j \in AttemptIndex |-> BondOf(attempts'[b][j])] = after
    BY <1>3, <1>5, <1>6, <1>7, <1>8, Seen
  <2>2. BondOutcome' = [BondOutcome EXCEPT ![b] = after]
    <3>. HIDE DEF after
    <3>. QED
      BY <1>3, <2>1, Seen
  <2>. QED
    BY <2>2
<1>11. Promise!Win(b, i, others)
  BY <1>4, <1>9, <1>10 DEF Promise!Win
<1>. QED
  BY <1>8, <1>11 DEF Promise!Next

LEMMA TickSeen ==
    ASSUME TypeOK, Books, Tick
    PROVE  UNCHANGED Promise!contestVars
<1>1. ASSUME NEW b \in BountyId
      PROVE  RewardOf(bounties'[b]) = RewardOf(bounties[b])
               /\ WinnerOf(bounties'[b]) = WinnerOf(bounties[b])
  <2>. DEFINE x == bounties[b]
              y == bounties'[b]
  <2>1. /\ y.status = x.status /\ y.attempts_won = x.attempts_won
        /\ y.winning_attempt_index = x.winning_attempt_index
    <3>1. x \in Bounty
      BY DEF TypeOK
    <3>2. y = IF x.status = "NONE" THEN x
              ELSE [x EXCEPT !.deadline = Elapsed(@, -LongestGrace)]
      BY DEF Tick
    <3>. HIDE DEF x, y
    <3>. QED
      BY <3>1, <3>2 DEF Bounty
  <2>. HIDE DEF x, y
  <2>2. RewardOf(y) = RewardOf(x) /\ WinnerOf(y) = WinnerOf(x)
    BY <2>1 DEF RewardOf, WinnerOf
  <2>. QED
    BY <2>2 DEF x, y
<1>2. ASSUME NEW b \in BountyId, NEW i \in AttemptIndex
      PROVE  BondOf(attempts'[b][i]) = BondOf(attempts[b][i])
  <2>1. attempts'[b][i] = Later(attempts[b][i]) /\ attempts[b][i] \in Attempt
    BY DEF Tick, Later, TypeOK
  <2>2. attempts'[b][i].status = attempts[b][i].status
    BY <2>1, LaterFields
  <2>. QED
    BY <2>2 DEF BondOf
<1>. QED
  BY <1>1, <1>2, NothingSeen

\* Each step of the contract is one step of Contest, or none.
LEMMA StepSeen ==
    ASSUME TypeOK, Books, [Next]_vars
    PROVE  [Promise!Next]_Promise!contestVars
<1>1. ASSUME bounties' = bounties, attempts' = attempts
      PROVE  UNCHANGED Promise!contestVars
  BY <1>1, NothingSeen
<1>2. CASE Next
  <2>1. StepKinds
    BY <1>2, Kinds
  <2>2. CASE Tick
    BY <2>2, TickSeen
  <2>3. CASE OwnerStep
    BY <1>1, <2>3 DEF OwnerStep
  <2>4. ASSUME NEW r \in ReservationId, NEW q, ReservationStep(r, q)
        PROVE  UNCHANGED Promise!contestVars
    BY <1>1, <2>4 DEF ReservationStep
  <2>. QED
    BY <2>1, <2>2, <2>3, <2>4, BountyStepSeen, FundingSeen, AttemptStepSeen, WinStepSeen
       DEF StepKinds
<1>3. CASE UNCHANGED vars
  BY <1>1, <1>3 DEF vars
<1>. QED
  BY <1>2, <1>3

LEMMA InitSeen ==
    ASSUME Init
    PROVE  Promise!Init
<1>1. ASSUME NEW b \in BountyId
      PROVE  /\ RewardOf(bounties[b]) = "none" /\ WinnerOf(bounties[b]) = NoWinner
             /\ \A i \in AttemptIndex : BondOf(attempts[b][i]) = "none"
  <2>1. bounties[b] = NoBounty /\ \A i \in AttemptIndex : attempts[b][i] = NoAttempt
    BY DEF Init
  <2>2. NoBounty.status = "NONE" /\ NoBounty.attempts_won = 0 /\ NoAttempt.status = "NONE"
    BY DEF NoBounty, NoAttempt
  <2>. QED
    BY <2>1, <2>2, BondSeen DEF RewardOf, WinnerOf
<1>. QED
  BY <1>1, Seen DEF Promise!Init

\* The adjudication keeps the promise of Contest for any number of bounties and
\* attempts and any verdicts: the reward of a bounty is won once or returned once,
\* only attempts whose bond is held win, and each bond is decided once
\* (_settle_reward_to_winner, _mark_other_attempts_lost_race, cancel_bounty,
\* claim_creator_timeout, _refund_attempt_bond, _forfeit_attempt_bond).
THEOREM ContestIsKept == Spec => KeepsContest
<1>1. Init => Promise!Init
  BY InitSeen
<1>2. TypeOK /\ Books /\ [Next]_vars => [Promise!Next]_Promise!contestVars
  BY StepSeen
<1>. QED
  BY <1>1, <1>2, BooksHold, PTL DEF Spec, KeepsContest, Promise!Spec
=============================================================================
