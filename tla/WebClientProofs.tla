--------------------------- MODULE WebClientProofs ---------------------------
(***************************************************************************)
(* What the pages of the web application keep, show and report is true.    *)
(*                                                                         *)
(* The pages share no variable, so the invariant of each page's part is    *)
(* shown from its own steps alone, and its theorem from the one that a     *)
(* step of the tab is a step of one page.                                  *)
(***************************************************************************)
EXTENDS WebClient, SequenceTheorems, TLAPS

-----------------------------------------------------------------------------
(* The archives of an attempt's evidence.  What is stored was compared by  *)
(* a job, at a time when the mark was true; the marks are about the hashes *)
(* the attempt has had, of which there are only ever more.                 *)

Page == Content \cup {Empty}

Archive == [content : Page, match : {"unknown", "matches", "differs"}]

\* A mark as the card may show it.
IsTrueOf(archive, hashes) ==
    /\ archive.match = "matches" => archive.content \in hashes
    /\ archive.match = "differs" => hashes \ {archive.content} # {}

TrueArchive(hashes) == {archive \in Archive : IsTrueOf(archive, hashes)}

Comparison(hashes) ==
    {job \in [pc : {"store"}, content : Page, match : {"unknown", "matches", "differs"}] :
        IsTrueOf(job, hashes)}

Job(hashes) ==
    [pc : {"check", "request"}, redirects : Nat] \cup [pc : {"compare"}, content : Page]
        \cup Comparison(hashes)

ArchiverInv ==
    /\ archives \in Seq(TrueArchive(stamped))
    /\ shownArchives \in Seq(TrueArchive(stamped))
    /\ jobs \in Seq(Job(stamped))
    /\ stamped \subseteq Content
    /\ cachedHash # NoHash => cachedHash \in stamped

LEMMA MarksStayTrue ==
    ASSUME NEW S, NEW T, S \subseteq T
    PROVE  TrueArchive(S) \subseteq TrueArchive(T) /\ Job(S) \subseteq Job(T)
BY DEF TrueArchive, Job, Comparison, IsTrueOf

\* A sequence without one of its members.
LEMMA Removed ==
    ASSUME NEW S, NEW s \in Seq(S), NEW k \in DOMAIN s
    PROVE  RemoveAt(s, k) \in Seq(S)
<1>1. k \in 1 .. Len(s) /\ Len(s) \in Nat /\ s \in [1 .. Len(s) -> S]
  BY LenProperties
<1>2. SubSeq(s, 1, k - 1) \in Seq(S)
  BY <1>1, SubSeqProperties
<1>3. SubSeq(s, k + 1, Len(s)) \in Seq(S)
  BY <1>1, SubSeqProperties
<1>. QED
  BY <1>2, <1>3, ConcatProperties DEF RemoveAt

\* A job goes on.
LEMMA JobGoesOn ==
    ASSUME NEW S, NEW s \in Seq(S), NEW k \in DOMAIN s, NEW job \in S
    PROVE  [s EXCEPT ![k] = job] \in Seq(S)
BY LenProperties, ExceptSeq

LEMMA JobIsOne ==
    ASSUME ArchiverInv, NEW k \in DOMAIN jobs
    PROVE  jobs[k] \in Job(stamped)
BY LenProperties DEF ArchiverInv

LEMMA ComparisonIsTrue ==
    ASSUME ArchiverInv, NEW content \in Page
    PROVE  /\ onChainHashMatch(content) \in {"unknown", "matches", "differs"}
           /\ onChainHashMatch(content) = "matches" => content \in stamped
           /\ onChainHashMatch(content) = "differs" => stamped \ {content} # {}
BY DEF ArchiverInv, onChainHashMatch

LEMMA UpsertIsTrue ==
    ASSUME ArchiverInv, NEW job \in Comparison(stamped)
    PROVE  Upserted(job) \in Seq(TrueArchive(stamped))
<1>. DEFINE row == [content |-> job.content, match |-> job.match]
            n == Len(archives)
            kept == [i \in DOMAIN archives |->
                        IF i \in RowsOf(job.content) /\ job.match # "unknown"
                        THEN [archives[i] EXCEPT !.match = job.match] ELSE archives[i]]
<1>1. archives \in Seq(TrueArchive(stamped))
  BY DEF ArchiverInv
<1>2. n \in Nat /\ DOMAIN archives = 1 .. n /\ archives \in [1 .. n -> TrueArchive(stamped)]
  BY <1>1, LenProperties
<1>3. CASE RowsOf(job.content) = {}
  <2>1. row \in TrueArchive(stamped)
    BY DEF Comparison, TrueArchive, Archive, IsTrueOf
  <2>. QED
    BY <1>1, <1>3, <2>1 DEF Upserted
<1>4. CASE RowsOf(job.content) # {}
  <2>1. ASSUME NEW i \in 1 .. n
        PROVE  kept[i] \in TrueArchive(stamped)
    <3>1. archives[i] \in TrueArchive(stamped)
      BY <1>2
    <3>2. CASE i \in RowsOf(job.content) /\ job.match # "unknown"
      <4>1. archives[i].content = job.content
        BY <3>2 DEF RowsOf
      <4>2. kept[i] = [archives[i] EXCEPT !.match = job.match]
        BY <1>2, <3>2
      <4>. QED
        BY <3>1, <4>1, <4>2 DEF Comparison, TrueArchive, Archive, IsTrueOf
    <3>3. CASE ~(i \in RowsOf(job.content) /\ job.match # "unknown")
      BY <1>2, <3>1, <3>3
    <3>. QED
      BY <3>2, <3>3
  <2>2. kept \in [1 .. n -> TrueArchive(stamped)]
    BY <1>2, <2>1
  <2>3. kept \in Seq(TrueArchive(stamped))
    BY <1>2, <2>2, SeqDef
  <2>. QED
    BY <1>4, <2>3 DEF Upserted
<1>. QED
  BY <1>3, <1>4

LEMMA ArchiverStarts == ArchiverInit => ArchiverInv
BY DEF ArchiverInit, ArchiverInv

LEMMA ArchiverStep == ArchiverInv /\ [ArchiverNext]_archiverVars => ArchiverInv'
<1> SUFFICES ASSUME ArchiverInv, [ArchiverNext]_archiverVars
             PROVE  ArchiverInv'
  OBVIOUS
<1>. USE DEF ArchiverInv
<1>1. CASE StartArchiving
  <2>. DEFINE job == [pc |-> "check", redirects |-> 0]
  <2>1. stamped \subseteq stamped' /\ stamped' \subseteq Content
        /\ (cachedHash' # NoHash => cachedHash' \in stamped')
    BY <1>1 DEF StartArchiving
  <2>2. TrueArchive(stamped) \subseteq TrueArchive(stamped') /\ Job(stamped) \subseteq Job(stamped')
    BY <2>1, MarksStayTrue
  <2>3. /\ archives' \in Seq(TrueArchive(stamped'))
        /\ shownArchives' \in Seq(TrueArchive(stamped'))
        /\ jobs \in Seq(Job(stamped'))
    BY <1>1, <2>2, SeqMonotonic DEF StartArchiving
  <2>4. job \in Job(stamped')
    BY DEF Job
  <2>5. jobs' \in Seq(Job(stamped'))
    BY <1>1, <2>3, <2>4 DEF StartArchiving
  <2>. QED
    BY <2>1, <2>3, <2>5
<1>2. ASSUME NEW k \in DOMAIN jobs, assertSafeUrl(k)
      PROVE  ArchiverInv'
  <2>1. jobs[k] \in Job(stamped) /\ jobs[k].pc = "check"
    BY <1>2, JobIsOne DEF assertSafeUrl
  <2>2. [jobs[k] EXCEPT !.pc = "request"] \in Job(stamped)
    BY <2>1 DEF Job, Comparison
  <2>3. [pc |-> "compare", content |-> Empty] \in Job(stamped)
    BY DEF Job, Page
  <2>4. CASE jobs' = [jobs EXCEPT ![k].pc = "request"]
    <3>1. jobs' = [jobs EXCEPT ![k] = [jobs[k] EXCEPT !.pc = "request"]]
      BY <2>4
    <3>2. jobs' \in Seq(Job(stamped))
      BY <2>2, <3>1, JobGoesOn
    <3>. QED
      BY <1>2, <3>2 DEF assertSafeUrl
  <2>5. CASE jobs' = [jobs EXCEPT ![k] = [pc |-> "compare", content |-> Empty]]
    <3>1. jobs' \in Seq(Job(stamped))
      BY <2>3, <2>5, JobGoesOn
    <3>. QED
      BY <1>2, <3>1 DEF assertSafeUrl
  <2>. QED
    BY <1>2, <2>4, <2>5 DEF assertSafeUrl, Fetched
<1>3. ASSUME NEW k \in DOMAIN jobs, requestPinned(k)
      PROVE  ArchiverInv'
  <2>1. jobs[k] \in Job(stamped) /\ jobs[k].pc = "request"
    BY <1>3, JobIsOne DEF requestPinned
  <2>2. jobs[k].redirects \in Nat
    BY <2>1 DEF Job, Comparison
  <2>3. [pc |-> "check", redirects |-> jobs[k].redirects + 1] \in Job(stamped)
    BY <2>2 DEF Job
  <2>4. ASSUME NEW content \in Page
        PROVE  [pc |-> "compare", content |-> content] \in Job(stamped)
    BY DEF Job
  <2>5. PICK job \in Job(stamped) : jobs' = [jobs EXCEPT ![k] = job]
    BY <1>3, <2>3, <2>4 DEF requestPinned, Fetched, Page
  <2>6. jobs' \in Seq(Job(stamped))
    BY <2>5, JobGoesOn
  <2>. QED
    BY <1>3, <2>6 DEF requestPinned
<1>4. ASSUME NEW k \in DOMAIN jobs, Compare(k)
      PROVE  ArchiverInv'
  <2>1. jobs[k] \in Job(stamped) /\ jobs[k].pc = "compare"
    BY <1>4, JobIsOne DEF Compare
  <2>2. jobs[k].content \in Page
    BY <2>1 DEF Job, Comparison
  <2>3. ASSUME NEW match \in {"unknown", onChainHashMatch(jobs[k].content)}
        PROVE  [pc |-> "store", content |-> jobs[k].content, match |-> match] \in Job(stamped)
    BY <2>2, ComparisonIsTrue DEF Job, Comparison, IsTrueOf
  <2>4. jobs' \in Seq(Job(stamped))
    BY <1>4, <2>3, JobGoesOn DEF Compare
  <2>. QED
    BY <1>4, <2>4 DEF Compare
<1>5. ASSUME NEW k \in DOMAIN jobs, Store(k)
      PROVE  ArchiverInv'
  <2>1. jobs[k] \in Job(stamped) /\ jobs[k].pc = "store"
    BY <1>5, JobIsOne DEF Store
  <2>2. jobs[k] \in Comparison(stamped)
    BY <2>1 DEF Job
  <2>3. archives' \in Seq(TrueArchive(stamped))
    BY <1>5, <2>2, UpsertIsTrue DEF Store
  <2>4. jobs' \in Seq(Job(stamped))
    BY <1>5, Removed DEF Store
  <2>. QED
    BY <1>5, <2>3, <2>4 DEF Store
<1>6. CASE StopArchiver
  BY <1>6 DEF StopArchiver
<1>7. CASE OpenCard
  BY <1>7, EmptySeq DEF OpenCard
<1>8. CASE UNCHANGED archiverVars
  BY <1>8 DEF archiverVars
<1>. QED
  BY <1>1, <1>2, <1>3, <1>4, <1>5, <1>6, <1>7, <1>8 DEF ArchiverNext

LEMMA ShownMarksAreTrue == ArchiverInv => ArchiveMarksAreTrue
BY LenProperties DEF ArchiverInv, ArchiveMarksAreTrue, TrueArchive, IsTrueOf

\* What the card says of an archive was so when it was compared, of every set of pages
\* and however many archivings of archiveEvidence overlap, fail or are ended.
THEOREM ArchivesAreTrue == Spec => []ArchiveMarksAreTrue
<1>1. Init => ArchiverInv
  BY ArchiverStarts DEF Init
<1>2. ArchiverInv /\ [Next]_vars => ArchiverInv'
  BY ArchiverStep DEF Next, vars, AcceptPage, AppealCard, CreatePage, ActivityPage, EvidenceCard
<1>. QED
  BY <1>1, <1>2, ShownMarksAreTrue, PTL DEF Spec

-----------------------------------------------------------------------------
(* The creation of a bounty.  The form is filled in as far as the step it  *)
(* is at requires; a handler holds what was signed at its click; and from  *)
(* the moment it has found its bounty, that is one of these terms, and     *)
(* since the deposit was mined its slot holds the reward, because nobody   *)
(* can fund a slot that is not empty.                                      *)

Bounty == [mine : BOOLEAN, title : Title, reward : Reward]
Form == [title : Title \cup {NoTitle}, criteria : BOOLEAN, reward : Reward \cup {0}]
Signed == [title : Title, criteria : {TRUE}, reward : Reward]

Writing == [pc : {"sign", "wait", "list"}, signed : Signed, call : Call]

Found == [pc : {"authorize", "fund", "mined", "done", "returned"}, signed : Signed,
          b : BountyIds]

Filled ==
    /\ step > 1 => form.title # NoTitle
    /\ step > 2 => form.criteria
    /\ step > 4 => form.reward > 0

\* What a handler knows of the bounty it has found, in the list and in the escrow.
KnowsBounty(creation, rows, deposited) ==
    LET row == rows[creation.b + 1] IN
    /\ creation.b < Len(rows)
    /\ row.mine /\ row.title = creation.signed.title /\ row.reward = creation.signed.reward
    /\ creation.pc \in {"mined", "done"} => deposited[creation.b] = creation.signed.reward

CreationOK(creation, rows, deposited) ==
    \/ creation = NotCreating
    \/ creation \in Writing
    \/ creation \in Found /\ KnowsBounty(creation, rows, deposited)

Reported(creation) == creation \in Found /\ creation.pc \in {"done", "returned"}

CreateInv ==
    /\ step \in 1 .. 6
    /\ form \in Form
    /\ step < 6 => Filled
    /\ listed \in Seq(Bounty)
    /\ rewardDeposit \in [BountyIds -> Nat]
    /\ DOMAIN creations = Click
    /\ \A c \in Click : CreationOK(creations[c], listed, rewardDeposit)
    /\ step = 6 => \E c \in Click : Reported(creations[c])

\* Bounties are added to the list, and only empty slots are funded.
ListKept(rows, rows2) == rows2 = rows \/ \E bounty \in Bounty : rows2 = Append(rows, bounty)
Funding(deposited, deposited2) ==
    \A b \in BountyIds : deposited[b] # 0 => deposited2[b] = deposited[b]

LEMMA BountyIdIs ==
    ASSUME NEW b \in BountyIds
    PROVE  b \in Nat /\ b < MaxBounties
<1>1. MaxBounties \in Nat
  BY CreateAssumption
<1>. QED
  BY <1>1 DEF BountyIds

LEMMA ListedBounties ==
    ASSUME CreateInv
    PROVE  /\ Len(listed) \in Nat
           /\ \A b \in BountyIds : b < Len(listed) => Listed(b) \in Bounty
<1>1. listed \in Seq(Bounty)
  BY DEF CreateInv
<1>2. Len(listed) \in Nat /\ listed \in [1 .. Len(listed) -> Bounty]
  BY <1>1, LenProperties
<1>3. ASSUME NEW b \in BountyIds, b < Len(listed)
      PROVE  Listed(b) \in Bounty
  <2>1. b + 1 \in 1 .. Len(listed)
    BY <1>2, <1>3, BountyIdIs
  <2>. QED
    BY <1>2, <2>1 DEF Listed
<1>. QED
  BY <1>2, <1>3

\* What the handler at a step is.
LEMMA CreationIs ==
    ASSUME CreateInv, NEW c \in Click
    PROVE  /\ creations[c].pc \in {"sign", "wait", "list"} => creations[c] \in Writing
           /\ creations[c].pc \in {"authorize", "fund", "mined", "done", "returned"} =>
                creations[c] \in Found /\ KnowsBounty(creations[c], listed, rewardDeposit)
BY DEF CreateInv, CreationOK, Writing, Found, NotCreating

\* What a handler knows stays so.
LEMMA KnowledgeLasts ==
    ASSUME NEW rows \in Seq(Bounty), NEW rows2, ListKept(rows, rows2),
           NEW deposited, NEW deposited2, Funding(deposited, deposited2),
           NEW creation, CreationOK(creation, rows, deposited)
    PROVE  CreationOK(creation, rows2, deposited2)
<1>1. CASE creation \in Found /\ KnowsBounty(creation, rows, deposited)
  <2>. DEFINE b == creation.b
  <2>1. b \in BountyIds /\ b < Len(rows) /\ creation.signed \in Signed
    BY <1>1 DEF Found, KnowsBounty
  <2>2. Len(rows) \in Nat /\ b \in Nat /\ b + 1 \in 1 .. Len(rows)
    BY <2>1, BountyIdIs, LenProperties
  <2>3. rows2[b + 1] = rows[b + 1] /\ b < Len(rows2)
    <3>1. CASE rows2 = rows
      BY <2>1, <3>1
    <3>2. ASSUME NEW bounty \in Bounty, rows2 = Append(rows, bounty)
          PROVE  rows2[b + 1] = rows[b + 1] /\ b < Len(rows2)
      BY <2>1, <2>2, <3>2
    <3>. QED
      BY <3>1, <3>2 DEF ListKept
  <2>4. creation.signed.reward # 0
    BY <2>1, CreateAssumption DEF Signed
  <2>5. KnowsBounty(creation, rows2, deposited2)
    BY <1>1, <2>1, <2>3, <2>4 DEF KnowsBounty, Funding
  <2>. QED
    BY <1>1, <2>5 DEF CreationOK
<1>. QED
  BY <1>1 DEF CreationOK

\* One handler moves, and the others see it in the list and in the escrow only.
LEMMA CreationMoves ==
    ASSUME CreateInv, NEW c \in Click, NEW creation,
           creations' = [creations EXCEPT ![c] = creation],
           CreationOK(creation, listed', rewardDeposit'), ~Reported(creations[c]),
           ListKept(listed, listed'), Funding(rewardDeposit, rewardDeposit')
    PROVE  /\ DOMAIN creations' = Click
           /\ \A d \in Click : CreationOK(creations'[d], listed', rewardDeposit')
           /\ step = 6 => \E d \in Click : Reported(creations'[d])
<1>1. DOMAIN creations = Click
  BY DEF CreateInv
<1>2. \A d \in Click : creations'[d] = IF d = c THEN creation ELSE creations[d]
  BY <1>1
<1>3. ASSUME NEW d \in Click
      PROVE  CreationOK(creations[d], listed', rewardDeposit')
  BY KnowledgeLasts DEF CreateInv
<1>4. step = 6 => \E d \in Click : Reported(creations'[d])
  <2> SUFFICES ASSUME step = 6
               PROVE  \E d \in Click : Reported(creations'[d])
    OBVIOUS
  <2>1. PICK d \in Click : Reported(creations[d])
    BY DEF CreateInv
  <2>. QED
    BY <1>2, <2>1
<1>. QED
  BY <1>1, <1>2, <1>3, <1>4

\* No handler moves.
LEMMA CreationsRest ==
    ASSUME CreateInv, UNCHANGED creations,
           ListKept(listed, listed'), Funding(rewardDeposit, rewardDeposit')
    PROVE  /\ DOMAIN creations' = Click
           /\ \A d \in Click : CreationOK(creations'[d], listed', rewardDeposit')
           /\ step = 6 => \E d \in Click : Reported(creations'[d])
<1>1. ASSUME NEW d \in Click
      PROVE  CreationOK(creations[d], listed', rewardDeposit')
  BY KnowledgeLasts DEF CreateInv
<1>. QED
  BY <1>1 DEF CreateInv

LEMMA CreateStarts == CreateInit => CreateInv
<1> SUFFICES ASSUME CreateInit
             PROVE  CreateInv
  OBVIOUS
<1>1. listed \in Seq(Bounty)
  BY EmptySeq DEF CreateInit
<1>2. form \in Form /\ step = 1
  BY DEF CreateInit, EmptyForm, Form
<1>3. rewardDeposit \in [BountyIds -> Nat]
  BY DEF CreateInit
<1>4. DOMAIN creations = Click /\ \A c \in Click : CreationOK(creations[c], listed, rewardDeposit)
  BY DEF CreateInit, CreationOK
<1>5. step \in 1 .. 6 /\ step # 6 /\ Filled
  BY <1>2 DEF Filled
<1>. QED
  BY <1>1, <1>2, <1>3, <1>4, <1>5 DEF CreateInv

\* A step of a handler on the list and the escrow leaves the form alone.
LEMMA HandlerMoves ==
    ASSUME CreateInv, NEW c \in Click, NEW creation,
           creations' = [creations EXCEPT ![c] = creation],
           CreationOK(creation, listed', rewardDeposit'), ~Reported(creations[c]),
           ListKept(listed, listed'), Funding(rewardDeposit, rewardDeposit'),
           rewardDeposit' \in [BountyIds -> Nat], UNCHANGED <<step, form>>
    PROVE  CreateInv'
<1>1. /\ DOMAIN creations' = Click
      /\ \A d \in Click : CreationOK(creations'[d], listed', rewardDeposit')
      /\ step = 6 => \E d \in Click : Reported(creations'[d])
  BY CreationMoves
<1>2. listed' \in Seq(Bounty)
  <2>1. listed \in Seq(Bounty)
    BY DEF CreateInv
  <2>2. ASSUME NEW bounty \in Bounty, listed' = Append(listed, bounty)
        PROVE  listed' \in Seq(Bounty)
    BY <2>1, <2>2
  <2>. QED
    BY <2>1, <2>2 DEF ListKept
<1>. QED
  BY <1>1, <1>2 DEF CreateInv, Filled

\* A handler that moves while list and escrow rest.
LEMMA HandlerAlone ==
    ASSUME CreateInv, NEW c \in Click, NEW creation,
           creations' = [creations EXCEPT ![c] = creation],
           CreationOK(creation, listed, rewardDeposit), ~Reported(creations[c]),
           UNCHANGED <<step, form, listed, rewardDeposit>>
    PROVE  CreateInv'
<1>1. ListKept(listed, listed') /\ Funding(rewardDeposit, rewardDeposit')
  BY DEF ListKept, Funding
<1>2. CreationOK(creation, listed', rewardDeposit')
  OBVIOUS
<1>3. rewardDeposit' \in [BountyIds -> Nat]
  BY DEF CreateInv
<1>. QED
  BY <1>1, <1>2, <1>3, HandlerMoves

LEMMA FormStep ==
    ASSUME CreateInv, EditForm \/ NextStep \/ EarlierStep
    PROVE  CreateInv'
<1>1. ListKept(listed, listed') /\ Funding(rewardDeposit, rewardDeposit')
  BY DEF EditForm, NextStep, EarlierStep, formOnly, ListKept, Funding
<1>2. UNCHANGED <<listed, rewardDeposit, creations>>
  BY DEF EditForm, NextStep, EarlierStep, formOnly
<1>3. /\ listed' \in Seq(Bounty)
      /\ rewardDeposit' \in [BountyIds -> Nat]
      /\ DOMAIN creations' = Click
      /\ \A d \in Click : CreationOK(creations'[d], listed', rewardDeposit')
      /\ step = 6 => \E d \in Click : Reported(creations'[d])
  BY <1>1, <1>2, CreationsRest DEF CreateInv
<1>4. step \in 1 .. 6 /\ form \in Form /\ (step < 6 => Filled)
  BY DEF CreateInv
<1>5. step' \in 1 .. 6 /\ form' \in Form /\ (step' < 6 => Filled') /\ (step' = 6 => step = 6)
  <2>1. CASE EditForm
    <3>1. step' = step /\ step \in {1, 2, 4} /\ Filled
      BY <1>4, <2>1 DEF EditForm
    <3>2. ASSUME step = 1, NEW title \in Title \cup {NoTitle}, form' = [form EXCEPT !.title = title]
          PROVE  form' \in Form /\ Filled'
      BY <1>4, <3>1, <3>2 DEF Form, Filled
    <3>3. ASSUME step = 2, NEW criteria \in BOOLEAN, form' = [form EXCEPT !.criteria = criteria]
          PROVE  form' \in Form /\ Filled'
      <4>1. form' \in Form /\ form'.title = form.title
        BY <1>4, <3>3 DEF Form
      <4>. QED
        BY <3>1, <3>3, <4>1 DEF Filled
    <3>4. ASSUME step = 4, NEW reward \in Reward \cup {0}, form' = [form EXCEPT !.reward = reward]
          PROVE  form' \in Form /\ Filled'
      <4>1. form' \in Form /\ form'.title = form.title /\ form'.criteria = form.criteria
        BY <1>4, <3>4 DEF Form
      <4>. QED
        BY <3>1, <3>4, <4>1 DEF Filled
    <3>. QED
      BY <1>4, <2>1, <3>1, <3>2, <3>3, <3>4 DEF EditForm
  <2>2. CASE NextStep
    <3>1. step \in 1 .. 4 /\ step' = step + 1 /\ form' = form /\ canProceed(step) /\ Filled
      BY <1>4, <2>2 DEF NextStep
    <3>2. Filled'
      BY <3>1 DEF canProceed, Filled
    <3>. QED
      BY <1>4, <3>1, <3>2
  <2>3. CASE EarlierStep
    <3>1. step \in 1 .. 5 /\ step' \in 1 .. step - 1 /\ form' = form /\ Filled
      BY <1>4, <2>3 DEF EarlierStep
    <3>2. Filled'
      BY <3>1 DEF Filled
    <3>. QED
      BY <1>4, <3>1, <3>2
  <2>. QED
    BY <2>1, <2>2, <2>3
<1>. QED
  BY <1>3, <1>5 DEF CreateInv

\* The calls of the write hook, in which no bounty is known.
LEMMA WritingStep ==
    ASSUME CreateInv, NEW c \in Click,
           ClickCreate(c) \/ SignCreation(c) \/ DecideCreation(c) \/ AwaitCreation(c)
    PROVE  CreateInv'
<1>. DEFINE was == creations[c]
<1>1. was.pc \in {"idle", "sign", "wait"}
  BY DEF ClickCreate, SignCreation, DecideCreation, AwaitCreation, Creating
<1>2. ~Reported(was)
  BY <1>1 DEF Reported
<1>3. ASSUME NEW creation \in Writing \cup {NotCreating}, NEW rows, NEW deposited
      PROVE  CreationOK(creation, rows, deposited)
  BY DEF CreationOK
<1>4. CASE ClickCreate(c)
  <2>1. form.title \in Title /\ form.criteria \in {TRUE} /\ form.reward \in Reward /\ form \in Form
    <3>1. form \in Form /\ step = 5 /\ Filled
      BY <1>4 DEF ClickCreate, CreateInv
    <3>2. form.title # NoTitle /\ form.criteria /\ form.reward > 0
      BY <3>1 DEF Filled
    <3>3. form.title \in Title \cup {NoTitle} /\ form.criteria \in BOOLEAN /\ form.reward \in Reward \cup {0}
      BY <3>1 DEF Form
    <3>. QED
      BY <3>1, <3>2, <3>3
  <2>2. form \in Signed
    BY <2>1 DEF Form, Signed
  <2>3. [pc |-> "sign", signed |-> form, call |-> "unsent"] \in Writing
    BY <2>2 DEF Writing, Call
  <2>. QED
    BY <1>2, <1>3, <1>4, <2>3, HandlerAlone DEF ClickCreate
<1>5. CASE SignCreation(c)
  <2>1. was \in Writing
    BY <1>5, CreationIs DEF SignCreation, Creating
  <2>2. [was EXCEPT !.pc = "wait", !.call = "sent"] \in Writing
    BY <2>1 DEF Writing, Call
  <2>3. PICK creation \in Writing \cup {NotCreating} :
            creations' = [creations EXCEPT ![c] = creation]
    BY <1>5, <2>2 DEF SignCreation, GiveUp
  <2>. QED
    BY <1>2, <1>3, <1>5, <2>3, HandlerAlone DEF SignCreation
<1>6. CASE DecideCreation(c)
  <2>1. was \in Writing /\ was.signed.title \in Title /\ was.signed.reward \in Reward
    BY <1>6, CreationIs DEF DecideCreation, Creating, Writing, Signed
  <2>2. [was EXCEPT !.call = "executed"] \in Writing /\ [was EXCEPT !.call = "refused"] \in Writing
    BY <2>1 DEF Writing, Call
  <2>3. PICK creation \in Writing : creations' = [creations EXCEPT ![c] = creation]
    BY <1>6, <2>2 DEF DecideCreation
  <2>4. ListKept(listed, listed')
    BY <1>6, <2>1 DEF DecideCreation, Create, ListKept, Bounty
  <2>5. Funding(rewardDeposit, rewardDeposit') /\ rewardDeposit' \in [BountyIds -> Nat]
        /\ UNCHANGED <<step, form>>
    BY <1>6 DEF DecideCreation, Funding, CreateInv
  <2>6. CreationOK(creation, listed', rewardDeposit')
    BY <1>3
  <2>. QED
    BY <1>2, <2>3, <2>4, <2>5, <2>6, HandlerMoves
<1>7. CASE AwaitCreation(c)
  <2>1. was \in Writing
    BY <1>7, CreationIs DEF AwaitCreation, Creating
  <2>2. [was EXCEPT !.pc = "list"] \in Writing
    BY <2>1 DEF Writing
  <2>3. PICK creation \in Writing \cup {NotCreating} :
            creations' = [creations EXCEPT ![c] = creation]
    BY <1>7, <2>2 DEF AwaitCreation, GoOn, GiveUp
  <2>. QED
    BY <1>2, <1>3, <1>7, <2>3, HandlerAlone DEF AwaitCreation
<1>. QED
  BY <1>4, <1>5, <1>6, <1>7

\* The bounty is found among those listed, of the terms that were signed.
LEMMA ReconcileStep ==
    ASSUME CreateInv, NEW c \in Click, ReconcileCreation(c)
    PROVE  CreateInv'
<1>. DEFINE was == creations[c]
<1>1. was \in Writing /\ was.signed \in Signed /\ ~Reported(was)
  BY CreationIs DEF ReconcileCreation, Creating, Writing, Reported
<1>2. PICK b \in BountyIds :
        /\ b < Len(listed) /\ IsCreated(b, was.signed)
        /\ creations' = [creations EXCEPT
                            ![c] = [pc |-> "authorize", signed |-> was.signed, b |-> b]]
  BY DEF ReconcileCreation
<1>. DEFINE creation == [pc |-> "authorize", signed |-> was.signed, b |-> b]
<1>3. creation \in Found /\ KnowsBounty(creation, listed, rewardDeposit)
  BY <1>1, <1>2 DEF Found, KnowsBounty, IsCreated, Listed
<1>4. CreationOK(creation, listed, rewardDeposit)
  BY <1>3 DEF CreationOK
<1>. QED
  BY <1>1, <1>2, <1>4, HandlerAlone DEF ReconcileCreation

\* Its slot is funded, which is done to an empty slot only.
LEMMA FundRewardStep ==
    ASSUME CreateInv, NEW c \in Click, FundReward(c)
    PROVE  CreateInv'
<1>. DEFINE was == creations[c]
            b == was.b
            creation == [was EXCEPT !.pc = "mined"]
<1>1. was \in Found /\ KnowsBounty(was, listed, rewardDeposit) /\ was.pc = "fund"
  BY CreationIs DEF FundReward, Creating
<1>2. b \in BountyIds /\ was.signed \in Signed /\ was.signed.reward \in Nat
  BY <1>1, CreateAssumption DEF Found, Signed
<1>3. Listed(b).reward = was.signed.reward
  BY <1>1 DEF KnowsBounty, Listed
<1>4. /\ rewardDeposit[b] = 0
      /\ rewardDeposit' = [rewardDeposit EXCEPT ![b] = was.signed.reward]
      /\ creations' = [creations EXCEPT ![c] = creation]
      /\ UNCHANGED <<step, form, listed>>
  BY <1>3 DEF FundReward, IsFree, GoOn
<1>5. rewardDeposit \in [BountyIds -> Nat]
  BY DEF CreateInv
<1>6. rewardDeposit' \in [BountyIds -> Nat] /\ rewardDeposit'[b] = was.signed.reward
  BY <1>2, <1>4, <1>5
<1>7. Funding(rewardDeposit, rewardDeposit')
  BY <1>2, <1>4, <1>5 DEF Funding
<1>8. creation \in Found /\ KnowsBounty(creation, listed', rewardDeposit')
  BY <1>1, <1>4, <1>6 DEF Found, KnowsBounty
<1>9. CreationOK(creation, listed', rewardDeposit') /\ ~Reported(was) /\ ListKept(listed, listed')
  BY <1>1, <1>4, <1>8 DEF CreationOK, Reported, ListKept
<1>. QED
  BY <1>4, <1>6, <1>7, <1>9, HandlerMoves

\* The other steps of a handler that has found its bounty.
LEMMA FoundStep ==
    ASSUME CreateInv, NEW c \in Click, AuthorizeReward(c) \/ FailCreation(c)
    PROVE  CreateInv'
<1>. DEFINE was == creations[c]
<1>1. was.pc \in {"list", "authorize", "fund", "mined"} /\ ~Reported(was)
  BY DEF AuthorizeReward, FailCreation, Creating, Reported
<1>2. CASE AuthorizeReward(c)
  <2>. DEFINE creation == [was EXCEPT !.pc = "fund"]
  <2>1. was \in Found /\ KnowsBounty(was, listed, rewardDeposit)
    BY <1>2, CreationIs DEF AuthorizeReward, Creating
  <2>2. creation \in Found /\ KnowsBounty(creation, listed, rewardDeposit)
    BY <2>1 DEF Found, KnowsBounty
  <2>3. CreationOK(creation, listed, rewardDeposit)
    BY <2>2 DEF CreationOK
  <2>4. creations' = [creations EXCEPT ![c] = creation]
    BY <1>2 DEF AuthorizeReward, GoOn
  <2>. QED
    BY <1>1, <1>2, <2>3, <2>4, HandlerAlone DEF AuthorizeReward
<1>3. CASE FailCreation(c)
  <2>1. CreationOK(NotCreating, listed, rewardDeposit)
    BY DEF CreationOK
  <2>. QED
    BY <1>1, <1>3, <2>1, HandlerAlone DEF FailCreation, GiveUp
<1>. QED
  BY <1>2, <1>3

\* The success screen comes from a handler that has seen its deposit mined.
LEMMA SucceedStep ==
    ASSUME CreateInv, NEW c \in Click, SucceedCreation(c)
    PROVE  CreateInv'
<1>. DEFINE was == creations[c]
            creation == [was EXCEPT !.pc = "done"]
<1>1. was \in Found /\ KnowsBounty(was, listed, rewardDeposit) /\ was.pc = "mined"
  BY CreationIs DEF SucceedCreation, Creating
<1>2. creation \in Found /\ KnowsBounty(creation, listed, rewardDeposit) /\ creation.pc = "done"
  BY <1>1 DEF Found, KnowsBounty
<1>3. CreationOK(creation, listed, rewardDeposit) /\ Reported(creation)
  BY <1>2 DEF CreationOK, Reported
<1>4. creations' = [creations EXCEPT ![c] = creation]
      /\ step' = 6 /\ UNCHANGED <<form, listed, rewardDeposit>>
  BY DEF SucceedCreation, GoOn
<1>5. DOMAIN creations = Click /\ \A d \in Click : CreationOK(creations[d], listed, rewardDeposit)
  BY DEF CreateInv
<1>6. \A d \in Click : creations'[d] = IF d = c THEN creation ELSE creations[d]
  BY <1>4, <1>5
<1>7. /\ DOMAIN creations' = Click
      /\ \A d \in Click : CreationOK(creations'[d], listed', rewardDeposit')
      /\ Reported(creations'[c])
  BY <1>3, <1>4, <1>5, <1>6
<1>8. form' \in Form /\ listed' \in Seq(Bounty) /\ rewardDeposit' \in [BountyIds -> Nat]
  BY <1>4 DEF CreateInv
<1>. QED
  BY <1>4, <1>7, <1>8 DEF CreateInv

\* Others list bounties, and another page of this wallet's funds one: nobody of the
\* handlers takes note.
LEMMA ElsewhereStep ==
    ASSUME CreateInv, CreateElsewhere \/ RetryBountyFunding
    PROVE  CreateInv'
<1>1. listed \in Seq(Bounty) /\ rewardDeposit \in [BountyIds -> Nat]
  BY DEF CreateInv
<1>2. UNCHANGED <<step, form, creations>>
  BY DEF CreateElsewhere, RetryBountyFunding
<1>3. /\ listed' \in Seq(Bounty) /\ rewardDeposit' \in [BountyIds -> Nat]
      /\ ListKept(listed, listed') /\ Funding(rewardDeposit, rewardDeposit')
  <2>1. CASE CreateElsewhere
    <3>1. PICK bounty \in Bounty : listed' = Append(listed, bounty)
      BY <2>1 DEF CreateElsewhere, Create, Bounty
    <3>2. listed' \in Seq(Bounty)
      BY <1>1, <3>1
    <3>. QED
      BY <1>1, <2>1, <3>1, <3>2 DEF CreateElsewhere, ListKept, Funding
  <2>2. CASE RetryBountyFunding
    <3>1. PICK b \in BountyIds :
            /\ b < Len(listed) /\ IsFree(b)
            /\ rewardDeposit' = [rewardDeposit EXCEPT ![b] = Listed(b).reward]
      BY <2>2 DEF RetryBountyFunding
    <3>2. Listed(b).reward \in Nat
      BY <3>1, ListedBounties, CreateAssumption DEF Bounty
    <3>3. rewardDeposit' \in [BountyIds -> Nat] /\ Funding(rewardDeposit, rewardDeposit')
      BY <1>1, <3>1, <3>2 DEF IsFree, Funding
    <3>. QED
      BY <1>1, <2>2, <3>3 DEF RetryBountyFunding, ListKept
  <2>. QED
    BY <2>1, <2>2
<1>4. /\ DOMAIN creations' = Click
      /\ \A d \in Click : CreationOK(creations'[d], listed', rewardDeposit')
      /\ step = 6 => \E d \in Click : Reported(creations'[d])
  BY <1>2, <1>3, CreationsRest
<1>. QED
  BY <1>2, <1>3, <1>4 DEF CreateInv, Filled

\* A deposit is taken back: the handlers that have reported it know that it was.
LEMMA RecoverOrphanStep ==
    ASSUME CreateInv, RecoverOrphanBounty
    PROVE  CreateInv'
<1>1. PICK b \in BountyIds :
        /\ \A c \in Click : Creating(c, "mined") => creations[c].b # b
        /\ rewardDeposit' = [rewardDeposit EXCEPT ![b] = 0]
        /\ creations' = [c \in Click |->
              IF Creating(c, "done") /\ creations[c].b = b
              THEN [creations[c] EXCEPT !.pc = "returned"]
              ELSE creations[c]]
  BY DEF RecoverOrphanBounty
<1>2. UNCHANGED <<step, form, listed>>
  BY DEF RecoverOrphanBounty
<1>3. rewardDeposit \in [BountyIds -> Nat] /\ \A c \in Click : CreationOK(creations[c], listed, rewardDeposit)
  BY DEF CreateInv
<1>4. rewardDeposit' \in [BountyIds -> Nat] /\ \A d \in BountyIds \ {b} : rewardDeposit'[d] = rewardDeposit[d]
  BY <1>1, <1>3
<1>5. ASSUME NEW c \in Click
      PROVE  /\ CreationOK(creations'[c], listed', rewardDeposit')
             /\ Reported(creations[c]) => Reported(creations'[c])
  <2>. DEFINE was == creations[c]
              is == creations'[c]
  <2>1. CASE was.pc = "done" /\ was.b = b
    <3>1. is = [was EXCEPT !.pc = "returned"]
      BY <1>1, <2>1 DEF Creating
    <3>2. was \in Found /\ KnowsBounty(was, listed, rewardDeposit)
      BY <2>1, CreationIs
    <3>3. is \in Found /\ KnowsBounty(is, listed, rewardDeposit') /\ is.pc = "returned"
      BY <3>1, <3>2 DEF Found, KnowsBounty
    <3>. QED
      BY <1>2, <3>3 DEF CreationOK, Reported
  <2>2. CASE ~(was.pc = "done" /\ was.b = b)
    <3>1. is = was
      BY <1>1, <2>2 DEF Creating
    <3>2. CASE was \in Found /\ KnowsBounty(was, listed, rewardDeposit)
      <4>1. was.pc \in {"mined", "done"} => was.b \in BountyIds \ {b}
        BY <1>1, <2>2, <3>2 DEF Creating, Found
      <4>2. KnowsBounty(was, listed, rewardDeposit')
        BY <1>4, <3>2, <4>1 DEF KnowsBounty
      <4>. QED
        BY <1>2, <3>1, <3>2, <4>2 DEF CreationOK
    <3>3. CASE was \in Writing \cup {NotCreating}
      BY <3>1, <3>3 DEF CreationOK
    <3>. QED
      BY <1>3, <3>1, <3>2, <3>3 DEF CreationOK
  <2>. QED
    BY <2>1, <2>2
<1>6. step' = 6 => \E c \in Click : Reported(creations'[c])
  BY <1>2, <1>5 DEF CreateInv
<1>7. DOMAIN creations' = Click
  BY <1>1
<1>8. step' \in 1 .. 6 /\ form' \in Form /\ (step' < 6 => Filled') /\ listed' \in Seq(Bounty)
  BY <1>2 DEF CreateInv, Filled
<1>. QED
  BY <1>4, <1>5, <1>6, <1>7, <1>8 DEF CreateInv

LEMMA ReloadFormStep ==
    ASSUME CreateInv, ReloadForm
    PROVE  CreateInv'
<1>1. step' = 1 /\ form' = EmptyForm /\ creations' = [c \in Click |-> NotCreating]
      /\ UNCHANGED <<listed, rewardDeposit>>
  BY DEF ReloadForm
<1>2. form' \in Form /\ Filled'
  BY <1>1 DEF EmptyForm, Form, Filled
<1>3. DOMAIN creations' = Click /\ \A c \in Click : CreationOK(creations'[c], listed', rewardDeposit')
  BY <1>1 DEF CreationOK
<1>4. listed' \in Seq(Bounty) /\ rewardDeposit' \in [BountyIds -> Nat]
  BY <1>1 DEF CreateInv
<1>. QED
  BY <1>1, <1>2, <1>3, <1>4 DEF CreateInv

LEMMA CreateStep == CreateInv /\ [CreateNext]_createVars => CreateInv'
<1> SUFFICES ASSUME CreateInv, [CreateNext]_createVars
             PROVE  CreateInv'
  OBVIOUS
<1>1. CASE UNCHANGED createVars
  <2>1. UNCHANGED <<step, form, listed, rewardDeposit, creations>>
    BY <1>1 DEF createVars
  <2>. QED
    BY <2>1 DEF CreateInv, Filled
<1>2. ASSUME NEW c \in Click, CreateHandler(c)
      PROVE  CreateInv'
  BY <1>2, WritingStep, ReconcileStep, FundRewardStep, FoundStep, SucceedStep DEF CreateHandler
<1>. QED
  BY <1>1, <1>2, FormStep, ElsewhereStep, RecoverOrphanStep, ReloadFormStep DEF CreateNext

LEMMA ReportsAreTrue == CreateInv => CreatedAsSigned
<1> SUFFICES ASSUME CreateInv
             PROVE  CreatedAsSigned
  OBVIOUS
<1>1. ASSUME NEW c \in Click, ~Creating(c, "idle")
      PROVE  LET signed == creations[c].signed IN
             signed.title # NoTitle /\ signed.criteria /\ signed.reward > 0
  <2>1. creations[c] \in Writing \cup Found
    BY <1>1 DEF CreateInv, CreationOK, Creating, NotCreating
  <2>2. creations[c].signed \in Signed
    BY <2>1 DEF Writing, Found
  <2>3. creations[c].signed.title \in Title /\ creations[c].signed.reward \in Reward
    BY <2>2 DEF Signed
  <2>4. creations[c].signed.criteria = TRUE
    BY <2>2 DEF Signed
  <2>5. creations[c].signed.title # NoTitle
    BY <2>3, CreateAssumption
  <2>6. creations[c].signed.reward \in Nat \ {0}
    BY <2>3, CreateAssumption
  <2>7. creations[c].signed.title # NoTitle /\ creations[c].signed.reward > 0
    BY <2>5, <2>6
  <2>8. creations[c].signed.criteria
    BY ONLY <2>4
  <2>. QED
    BY <2>7, <2>8
<1>2. ASSUME step = 6
      PROVE  \E c \in Click :
                /\ Creating(c, "done") \/ Creating(c, "returned")
                /\ IsCreated(creations[c].b, creations[c].signed)
                /\ Creating(c, "done") => rewardDeposit[creations[c].b] = creations[c].signed.reward
  <2>1. PICK c \in Click : Reported(creations[c])
    BY <1>2 DEF CreateInv
  <2>2. KnowsBounty(creations[c], listed, rewardDeposit)
    BY <2>1, CreationIs DEF Reported
  <2>. QED
    BY <2>1, <2>2 DEF Reported, KnowsBounty, Creating, IsCreated, Listed
<1>. QED
  BY <1>1, <1>2 DEF CreatedAsSigned

\* What handleCreate signs was filled in, and the success screen tells the truth of a
\* bounty of this creator: for every list of bounties, however many handlers overlap,
\* and whoever else creates bounties or funds the slot meanwhile.
THEOREM SuccessIsTrue == Spec => []CreatedAsSigned
<1>1. Init => CreateInv
  BY CreateStarts DEF Init
<1>2. CreateInv /\ [Next]_vars => CreateInv'
  BY CreateStep DEF Next, vars, AcceptPage, AppealCard, CreatePage, ActivityPage, EvidenceCard
<1>. QED
  BY <1>1, <1>2, ReportsAreTrue, PTL DEF Spec

-----------------------------------------------------------------------------
(* The appeal of a ruling.  Until a handler is cut off, a deposit on its   *)
(* way is one whose handler waits for it, so that it is written down when  *)
(* it is mined; and what was written down is forgotten only when the       *)
(* appeal is active, which it stays.                                       *)

AppealRecord ==
    [status : {"WINDOW", "APPEAL_PENDING_FUNDING", "APPEAL_FUNDED_PENDING_BINDING", "APPEALED"},
     hash : Nat]

AppealDepositRecord == [status : {"none", "funded", "bound", "recovered"}, hash : Nat]

AppealFlowRecord ==
    [pc : {"idle", "file", "lookup", "authorize", "fund", "mining", "confirm"}, hash : Nat]

AppealTypeOK ==
    /\ appeal \in AppealRecord
    /\ appealDeposit \in AppealDepositRecord
    /\ appealFlow \in AppealFlowRecord
    /\ sent \in Nat /\ storedHash \in Nat /\ cutOffs \in Nat
    /\ appealMempool \subseteq Nat /\ appealAsked \subseteq Nat

ActiveAppealHasDeposit ==
    appeal.status = "APPEALED" => appealDeposit.status = "bound" /\ appealDeposit.hash \in activated

MempoolIsAwaited ==
    cutOffs = 0 => \A h \in appealMempool : AtAppeal("mining") /\ appealFlow.hash = h

AppealInv ==
    AppealTypeOK /\ ActiveAppealHasDeposit /\ MempoolIsAwaited /\ AppealDepositReachable

LEMMA AppealStarts == AppealInit => AppealInv
BY DEF AppealInit, Resting, AppealInv, AppealTypeOK, AppealRecord, AppealDepositRecord,
       AppealFlowRecord, ActiveAppealHasDeposit, MempoolIsAwaited, AppealDepositReachable

LEMMA AppealTypeStep ==
    ASSUME AppealTypeOK, AppealNext
    PROVE  AppealTypeOK'
<1>. USE DEF AppealTypeOK, AppealRecord, AppealDepositRecord, AppealFlowRecord
<1>1. CASE LapseAppeal
  BY <1>1 DEF LapseAppeal, cardVars
<1>2. ASSUME NEW h \in 1 .. MaxHashes,
             MineAppealFunding(h) \/ AttestAppeal(h) \/ BindAppeal(h) \/ ActivateAppeal(h)
      PROVE  AppealTypeOK'
  <2>1. h \in Nat
    BY AppealAssumption
  <2>2. CASE MineAppealFunding(h)
    BY <2>1, <2>2 DEF MineAppealFunding, cardVars
  <2>3. CASE AttestAppeal(h)
    BY <2>1, <2>3 DEF AttestAppeal, cardVars
  <2>4. CASE BindAppeal(h)
    BY <2>4 DEF BindAppeal, cardVars
  <2>5. CASE ActivateAppeal(h)
    BY <2>5 DEF ActivateAppeal, cardVars
  <2>. QED
    BY <1>2, <2>2, <2>3, <2>4, <2>5
<1>3. CASE ClickAppeal \/ ClickFundAppeal \/ AuthorizeAppeal
  BY <1>3 DEF ClickAppeal, ClickFundAppeal, AuthorizeAppeal, GoAppeal, remoteVars
<1>4. CASE FileAppeal
  <2>1. appeal' \in AppealRecord
    BY <1>4 DEF FileAppeal
  <2>2. appealFlow' \in AppealFlowRecord
    BY <1>4 DEF FileAppeal, Resting
  <2>. QED
    BY <1>4, <2>1, <2>2 DEF FileAppeal
<1>5. CASE LookUpHash
  <2>1. CASE storedHash = 0
    BY <1>5, <2>1 DEF LookUpHash, GoAppeal
  <2>2. CASE storedHash # 0
    <3>1. appealAsked' = appealAsked \cup {storedHash}
          /\ appealFlow' = [pc |-> "confirm", hash |-> storedHash]
      BY <1>5, <2>2 DEF LookUpHash, AskToConfirmAppeal
    <3>2. appealAsked' \subseteq Nat /\ appealFlow' \in AppealFlowRecord
      BY <3>1
    <3>. QED
      BY <1>5, <3>2 DEF LookUpHash
  <2>. QED
    BY <2>1, <2>2
<1>6. CASE SubmitAppealFunding
  <2>1. sent' \in Nat /\ appealFlow' = [pc |-> "mining", hash |-> sent']
        /\ appealMempool' = appealMempool \cup {sent'}
    BY <1>6 DEF SubmitAppealFunding
  <2>2. appealFlow' \in AppealFlowRecord /\ appealMempool' \subseteq Nat
    BY <2>1
  <2>. QED
    BY <1>6, <2>1, <2>2 DEF SubmitAppealFunding
<1>7. CASE RememberHash
  BY <1>7 DEF RememberHash, AskToConfirmAppeal
<1>8. CASE AppealConfirmed
  BY <1>8 DEF AppealConfirmed, Resting, remoteVars
<1>9. CASE RecoverAppeal
  BY <1>9 DEF RecoverAppeal, cardVars
<1>10. CASE AppealFails \/ ReloadCard
  <2>1. cutOffs' \in Nat
    BY <1>10 DEF AppealFails, ReloadCard, CountCutOff
  <2>2. appealFlow' \in AppealFlowRecord
    BY <1>10 DEF AppealFails, ReloadCard, Resting
  <2>3. UNCHANGED <<appeal, appealDeposit, appealMempool, sent, appealAsked, storedHash>>
    BY <1>10 DEF AppealFails, ReloadCard, remoteVars
  <2>. QED
    BY <2>1, <2>2, <2>3
<1>. QED
  BY <1>1, <1>2, <1>3, <1>4, <1>5, <1>6, <1>7, <1>8, <1>9, <1>10 DEF AppealNext

\* The steps of the contract, of the escrow and of the server.
LEMMA AppealChainStep ==
    ASSUME AppealInv, NEW h,
           MineAppealFunding(h) \/ AttestAppeal(h) \/ BindAppeal(h) \/ ActivateAppeal(h)
    PROVE  ActiveAppealHasDeposit' /\ MempoolIsAwaited' /\ AppealDepositReachable'
<1>. USE DEF AppealInv, AppealTypeOK, AppealRecord, AppealDepositRecord, AppealFlowRecord,
             ActiveAppealHasDeposit, MempoolIsAwaited, AppealDepositReachable, AtAppeal, cardVars
<1>2. CASE MineAppealFunding(h)
  <2>1. CASE UNCHANGED appealDeposit
    BY <1>2, <2>1 DEF MineAppealFunding
  <2>2. CASE appealDeposit.status \in {"none", "recovered"}
             /\ appealDeposit' = [status |-> "funded", hash |-> h]
    BY <1>2, <2>2 DEF MineAppealFunding
  <2>. QED
    BY <1>2, <2>1, <2>2 DEF MineAppealFunding
<1>3. CASE AttestAppeal(h)
  BY <1>3 DEF AttestAppeal
<1>4. CASE BindAppeal(h)
  BY <1>4 DEF BindAppeal
<1>5. CASE ActivateAppeal(h)
  BY <1>5 DEF ActivateAppeal
<1>. QED
  BY <1>2, <1>3, <1>4, <1>5

\* The steps of the card, and those of the contract and of the escrow without a hash.
LEMMA AppealCardStep ==
    ASSUME AppealInv,
           \/ ClickAppeal \/ FileAppeal \/ ClickFundAppeal
           \/ LookUpHash \/ AuthorizeAppeal \/ SubmitAppealFunding \/ RememberHash
           \/ AppealConfirmed \/ AppealFails \/ ReloadCard \/ LapseAppeal \/ RecoverAppeal
    PROVE  ActiveAppealHasDeposit' /\ MempoolIsAwaited' /\ AppealDepositReachable'
<1>. USE DEF AppealInv, AppealTypeOK, AppealRecord, AppealDepositRecord, AppealFlowRecord,
             ActiveAppealHasDeposit, MempoolIsAwaited, AppealDepositReachable, AtAppeal, remoteVars
<1>1. CASE ClickAppeal \/ ClickFundAppeal \/ AuthorizeAppeal
  BY <1>1 DEF ClickAppeal, ClickFundAppeal, AuthorizeAppeal, GoAppeal
<1>2. CASE FileAppeal
  BY <1>2 DEF FileAppeal
<1>3. CASE LookUpHash
  BY <1>3 DEF LookUpHash, GoAppeal, AskToConfirmAppeal
<1>4. CASE SubmitAppealFunding
  BY <1>4 DEF SubmitAppealFunding
<1>5. CASE RememberHash
  BY <1>5 DEF RememberHash, AskToConfirmAppeal, Deposited
<1>6. CASE AppealConfirmed
  BY <1>6 DEF AppealConfirmed
<1>7. CASE AppealFails \/ ReloadCard
  <2>1. /\ cutOffs' = IF CutOff THEN cutOffs + 1 ELSE cutOffs
        /\ UNCHANGED <<appeal, activated, appealDeposit, appealMempool, storedHash>>
    BY <1>7 DEF AppealFails, ReloadCard, CountCutOff
  <2>2. ActiveAppealHasDeposit'
    BY <2>1
  <2>3. cutOffs' = 0 => cutOffs = 0 /\ ~CutOff
    BY <2>1
  <2>4. MempoolIsAwaited'
    BY <2>1, <2>3 DEF CutOff
  <2>5. AppealDepositReachable'
    BY <2>1, <2>3 DEF CutOff, Deposited
  <2>. QED
    BY <2>2, <2>4, <2>5
<1>8. CASE LapseAppeal
  BY <1>8 DEF LapseAppeal, cardVars
<1>9. CASE RecoverAppeal
  BY <1>9 DEF RecoverAppeal, cardVars
<1>. QED
  BY <1>1, <1>2, <1>3, <1>4, <1>5, <1>6, <1>7, <1>8, <1>9

LEMMA AppealStep == AppealInv /\ [AppealNext]_appealVars => AppealInv'
<1> SUFFICES ASSUME AppealInv, [AppealNext]_appealVars
             PROVE  AppealInv'
  OBVIOUS
<1>1. CASE AppealNext
  <2>1. AppealTypeOK'
    BY <1>1, AppealTypeStep DEF AppealInv
  <2>2. ActiveAppealHasDeposit' /\ MempoolIsAwaited' /\ AppealDepositReachable'
    <3>1. ASSUME NEW h \in 1 .. MaxHashes,
                 MineAppealFunding(h) \/ AttestAppeal(h) \/ BindAppeal(h) \/ ActivateAppeal(h)
          PROVE  ActiveAppealHasDeposit' /\ MempoolIsAwaited' /\ AppealDepositReachable'
      BY <3>1, AppealChainStep
    <3>. QED
      BY <1>1, <3>1, AppealCardStep DEF AppealNext
  <2>. QED
    BY <2>1, <2>2 DEF AppealInv
<1>2. CASE UNCHANGED appealVars
  BY <1>2 DEF appealVars, AppealInv, AppealTypeOK, ActiveAppealHasDeposit, MempoolIsAwaited,
              AppealDepositReachable, AtAppeal
<1>. QED
  BY <1>1, <1>2

-----------------------------------------------------------------------------
(* Accepting a bounty.  Whatever is remembered, on the screen, in the      *)
(* browser's storage or in a handler, names a reservation of this wallet   *)
(* whose deposit was made.  That nothing is forgotten holds while the page *)
(* is left to itself: at most one handler is at work, it waits for every   *)
(* funding transaction on its way, and it starts a deposit only when none  *)
(* is remembered.                                                          *)

ReservationRecord ==
    [mine : BOOLEAN, status : {"PENDING_FUNDING", "EXPIRED", "ACTIVATED"}]

DepositRecord ==
    {NoDeposit} \cup [status : {"funded", "recovered", "bound", "compensated"}, by : Flow]

RecoveryRecord == [reservationId : ReservationIds, recovered : BOOLEAN]

CallOut == {"countBefore", "sign", "wait", "countAfter"}
Depositing == {"authorize", "fund", "mining"}
Settling == {"confirm", "recover"}

CallingFlow ==
    [pc : {"countBefore"}, mounted : BOOLEAN, call : Call]
        \cup [pc : {"sign", "wait", "countAfter"}, mounted : BOOLEAN, call : Call, before : Nat]

DepositFlow == [pc : Depositing \cup Settling, mounted : BOOLEAN, r : ReservationIds]

\* A reservation of this wallet.
IsMine(r, rows) == r \in ReservationIds /\ r < Len(rows) /\ rows[r + 1].mine = TRUE

WasMade(r, rows, held) == IsMine(r, rows) /\ held[r] # NoDeposit

Recovered(deposit) == deposit.status \in {"recovered", "compensated"}

RememberedOK(recovery, rows, held) ==
    \/ recovery = None
    \/ /\ recovery \in RecoveryRecord
       /\ WasMade(recovery.reservationId, rows, held)
       /\ recovery.recovered => Recovered(held[recovery.reservationId])

FlowOK(flow, rows, held) ==
    \/ flow = IdleFlow
    \/ flow \in CallingFlow
    \/ /\ flow \in DepositFlow
       /\ IsMine(flow.r, rows)
       /\ flow.pc \in Settling => held[flow.r] # NoDeposit

ChainOK ==
    /\ reservations \in Seq(ReservationRecord) /\ Len(reservations) <= MaxReservations
    /\ deposits \in [ReservationIds -> DepositRecord]
    /\ \A r \in ReservationIds : deposits[r] # NoDeposit => r < Len(reservations)
    /\ mempool \subseteq Flow \X ReservationIds
    /\ \A f \in Flow, r \in ReservationIds : <<f, r>> \in mempool => r < Len(reservations)

AcceptTypeOK ==
    /\ ChainOK
    /\ disturbances \in Nat
    /\ DOMAIN flows = Flow /\ \A f \in Flow : FlowOK(flows[f], reservations, deposits)
    /\ RememberedOK(fundedRecovery, reservations, deposits)
    /\ RememberedOK(stored, reservations, deposits)

\* It still has to be bound, or its attempt has, without it.
Pending(r, rows, held) ==
    /\ r < Len(rows)
    /\ \/ held[r].status = "funded"
       \/ held[r].status = "recovered" /\ rows[r + 1].status = "ACTIVATED"

OneHandler == \A f, g \in Flow : f # g => At(f, "idle") \/ At(g, "idle")

FundingIsAwaited ==
    \A f \in Flow, r \in ReservationIds :
        <<f, r>> \in mempool => At(f, "mining") /\ flows[f].r = r

PendingIsRemembered ==
    \A r \in ReservationIds :
        Pending(r, reservations, deposits) =>
            \/ stored.reservationId = r
            \/ \E f \in Flow : At(f, "mining") /\ flows[f].r = r /\ deposits[r].by = f

NothingForgotten ==
    \A f \in Flow : flows[f].pc \in CallOut \cup Depositing =>
        stored = None /\ (fundedRecovery = None \/ flows[f].mounted = TRUE)

SettlesRemembered ==
    \A f \in Flow : flows[f].pc \in Settling =>
        /\ stored.reservationId \in {flows[f].r, -1}
        /\ fundedRecovery.reservationId \in {flows[f].r, -1}

ScreenShowsStored ==
    fundedRecovery # None => stored.reservationId \in {fundedRecovery.reservationId, -1}

Orderly ==
    /\ OneHandler
    /\ FundingIsAwaited
    /\ PendingIsRemembered
    /\ NothingForgotten
    /\ SettlesRemembered
    /\ ScreenShowsStored

AcceptInv == AcceptTypeOK /\ (disturbances = 0 => Orderly)

LEMMA ReservationIdIs ==
    ASSUME NEW r \in ReservationIds
    PROVE  r \in Nat /\ r < MaxReservations
<1>1. MaxReservations \in Nat
  BY AcceptAssumption
<1>. QED
  BY <1>1 DEF ReservationIds

LEMMA ReservationIs ==
    ASSUME ChainOK
    PROVE  /\ Len(reservations) \in Nat
           /\ \A r \in ReservationIds : r < Len(reservations) => Reserved(r) \in ReservationRecord
<1>1. reservations \in Seq(ReservationRecord)
  BY DEF ChainOK
<1>2. Len(reservations) \in Nat /\ reservations \in [1 .. Len(reservations) -> ReservationRecord]
  BY <1>1, LenProperties
<1>3. ASSUME NEW r \in ReservationIds, r < Len(reservations)
      PROVE  Reserved(r) \in ReservationRecord
  <2>1. r + 1 \in 1 .. Len(reservations)
    BY <1>2, <1>3, ReservationIdIs
  <2>. QED
    BY <1>2, <2>1 DEF Reserved
<1>. QED
  BY <1>2, <1>3

\* Reservations are added, and whose they are stays; deposits are made, and a deposit
\* that was recovered stays so.
Grows(rows, rows2) ==
    /\ \A r \in ReservationIds : r < Len(rows) => r < Len(rows2)
    /\ \A r \in ReservationIds : r < Len(rows) => rows2[r + 1].mine = rows[r + 1].mine

Lasts(held, held2) ==
    \A r \in ReservationIds :
        held[r] # NoDeposit =>
            held2[r] # NoDeposit /\ (Recovered(held[r]) => Recovered(held2[r]))

LEMMA TruthLasts ==
    ASSUME NEW rows, NEW rows2, NEW held, NEW held2, Grows(rows, rows2), Lasts(held, held2)
    PROVE  /\ \A r : IsMine(r, rows) => IsMine(r, rows2)
           /\ \A flow : FlowOK(flow, rows, held) => FlowOK(flow, rows2, held2)
           /\ \A recovery : RememberedOK(recovery, rows, held) => RememberedOK(recovery, rows2, held2)
<1>1. \A r : IsMine(r, rows) => IsMine(r, rows2)
  BY DEF IsMine, Grows
<1>2. ASSUME NEW flow, FlowOK(flow, rows, held)
      PROVE  FlowOK(flow, rows2, held2)
  <2>1. CASE flow \in DepositFlow /\ IsMine(flow.r, rows)
             /\ (flow.pc \in Settling => held[flow.r] # NoDeposit)
    <3>1. flow.r \in ReservationIds /\ IsMine(flow.r, rows2)
      BY <1>1, <2>1 DEF IsMine
    <3>2. flow.pc \in Settling => held2[flow.r] # NoDeposit
      BY <2>1, <3>1 DEF Lasts
    <3>. QED
      BY <2>1, <3>1, <3>2 DEF FlowOK
  <2>. QED
    BY <1>2, <2>1 DEF FlowOK
<1>3. ASSUME NEW recovery, RememberedOK(recovery, rows, held)
      PROVE  RememberedOK(recovery, rows2, held2)
  <2>. DEFINE r == recovery.reservationId
  <2>1. CASE recovery \in RecoveryRecord /\ WasMade(r, rows, held)
             /\ (recovery.recovered => Recovered(held[r]))
    <3>1. r \in ReservationIds /\ IsMine(r, rows2) /\ held[r] # NoDeposit
      BY <1>1, <2>1 DEF WasMade, IsMine
    <3>2. held2[r] # NoDeposit /\ (Recovered(held[r]) => Recovered(held2[r]))
      BY <3>1 DEF Lasts
    <3>. QED
      BY <2>1, <3>1, <3>2 DEF RememberedOK, WasMade
  <2>. QED
    BY <1>3, <2>1 DEF RememberedOK
<1>. QED
  BY <1>1, <1>2, <1>3

\* A reservation is added.
LEMMA IssueGrows ==
    ASSUME ChainOK, NEW mine \in BOOLEAN, Issue(mine), UNCHANGED <<deposits, mempool>>
    PROVE  ChainOK' /\ Grows(reservations, reservations')
<1>. DEFINE row == [mine |-> mine, status |-> "PENDING_FUNDING"]
<1>1. /\ reservations \in Seq(ReservationRecord) /\ Len(reservations) \in Nat
      /\ Len(reservations) < MaxReservations /\ reservations' = Append(reservations, row)
  BY ReservationIs DEF ChainOK, Issue
<1>2. row \in ReservationRecord /\ MaxReservations \in Nat
  BY AcceptAssumption DEF ReservationRecord
<1>3. /\ reservations' \in Seq(ReservationRecord) /\ Len(reservations') = Len(reservations) + 1
      /\ \A n \in 1 .. Len(reservations) : reservations'[n] = reservations[n]
  BY <1>1, <1>2
<1>4. Len(reservations') <= MaxReservations
  BY <1>1, <1>2, <1>3
<1>5. \A r \in ReservationIds : r < Len(reservations) => r < Len(reservations')
  BY <1>1, <1>3, ReservationIdIs
<1>6. \A r \in ReservationIds : r < Len(reservations) => r + 1 \in 1 .. Len(reservations)
  BY <1>1, ReservationIdIs
<1>7. Grows(reservations, reservations')
  BY <1>3, <1>5, <1>6 DEF Grows
<1>. QED
  BY <1>3, <1>4, <1>5, <1>7 DEF ChainOK

\* A reservation's status changes.
LEMMA StatusGrows ==
    ASSUME ChainOK, NEW r \in ReservationIds, r < Len(reservations),
           NEW status \in {"EXPIRED", "ACTIVATED"},
           reservations' = [reservations EXCEPT ![r + 1].status = status],
           UNCHANGED <<deposits, mempool>>
    PROVE  ChainOK' /\ Grows(reservations, reservations') /\ Len(reservations') = Len(reservations)
<1>. DEFINE row == [Reserved(r) EXCEPT !.status = status]
<1>1. /\ reservations \in Seq(ReservationRecord) /\ Len(reservations) \in Nat
      /\ Len(reservations) <= MaxReservations
  BY ReservationIs DEF ChainOK
<1>2. Reserved(r) \in ReservationRecord
  BY ReservationIs
<1>3. row \in ReservationRecord /\ row.mine = Reserved(r).mine
  BY <1>2 DEF ReservationRecord
<1>4. reservations' = [reservations EXCEPT ![r + 1] = row]
  BY DEF Reserved
<1>5. r + 1 \in 1 .. Len(reservations)
  BY <1>1, ReservationIdIs
<1>. HIDE DEF row
<1>6. /\ reservations' \in Seq(ReservationRecord) /\ Len(reservations') = Len(reservations)
      /\ \A n \in 1 .. Len(reservations) :
            reservations'[n] = IF n = r + 1 THEN row ELSE reservations[n]
  BY <1>1, <1>3, <1>4, <1>5, ExceptSeq
<1>7. \A s \in ReservationIds : s < Len(reservations) => s + 1 \in 1 .. Len(reservations)
  BY <1>1, ReservationIdIs
<1>8. Grows(reservations, reservations')
  BY <1>3, <1>6, <1>7 DEF Grows, Reserved
<1>. QED
  BY <1>1, <1>6, <1>8 DEF ChainOK

\* A deposit is made or changes.
LEMMA DepositLasts ==
    ASSUME ChainOK, NEW r \in ReservationIds, r < Len(reservations),
           NEW deposit \in DepositRecord \ {NoDeposit},
           deposits' = [deposits EXCEPT ![r] = deposit],
           Recovered(deposits[r]) => Recovered(deposit),
           mempool' \subseteq mempool, UNCHANGED reservations
    PROVE  ChainOK' /\ Lasts(deposits, deposits')
<1>1. deposits \in [ReservationIds -> DepositRecord]
  BY DEF ChainOK
<1>2. /\ deposits' \in [ReservationIds -> DepositRecord]
      /\ \A s \in ReservationIds : deposits'[s] = IF s = r THEN deposit ELSE deposits[s]
  BY <1>1
<1>3. Lasts(deposits, deposits')
  BY <1>2 DEF Lasts
<1>. QED
  BY <1>2, <1>3 DEF ChainOK

LEMMA Unmoved == \A rows, held : Grows(rows, rows) /\ Lasts(held, held)
BY DEF Grows, Lasts

LEMMA ChainStep ==
    ASSUME ChainOK, AcceptChain
    PROVE  ChainOK' /\ Grows(reservations, reservations') /\ Lasts(deposits, deposits')
<1>1. CASE IssueElsewhere
  BY <1>1, IssueGrows, Unmoved DEF IssueElsewhere
<1>2. ASSUME NEW r \in ReservationIds, ExpireReservation(r)
      PROVE  ChainOK' /\ Grows(reservations, reservations') /\ Lasts(deposits, deposits')
  <2>1. r < Len(reservations)
    BY <1>2, ReservationIs, ReservationIdIs DEF ExpireReservation, Issued
  <2>. QED
    BY <1>2, <2>1, StatusGrows, Unmoved DEF ExpireReservation
<1>3. ASSUME NEW r \in ReservationIds, NEW f \in Flow, MineFunding(f, r)
      PROVE  ChainOK' /\ Grows(reservations, reservations') /\ Lasts(deposits, deposits')
  <2>1. CASE UNCHANGED deposits
    BY <1>3, <2>1, Unmoved DEF MineFunding, ChainOK
  <2>2. CASE deposits[r] = NoDeposit /\ deposits' = [deposits EXCEPT ![r] = [status |-> "funded", by |-> f]]
    <3>. DEFINE deposit == [status |-> "funded", by |-> f]
    <3>1. deposit \in DepositRecord \ {NoDeposit} /\ ~Recovered(deposits[r])
      BY <2>2 DEF DepositRecord, NoDeposit, Recovered
    <3>2. r < Len(reservations) /\ mempool' \subseteq mempool /\ UNCHANGED reservations
      BY <1>3 DEF MineFunding, ChainOK
    <3>. HIDE DEF deposit
    <3>. QED
      BY <2>2, <3>1, <3>2, DepositLasts, Unmoved DEF deposit
  <2>. QED
    BY <1>3, <2>1, <2>2 DEF MineFunding
<1>4. ASSUME NEW r \in ReservationIds, RecoverPending(r) \/ Activate(r) \/ Bind(r)
      PROVE  ChainOK' /\ Grows(reservations, reservations') /\ Lasts(deposits, deposits')
  <2>1. deposits[r] \in DepositRecord /\ deposits[r].status \in {"funded", "recovered"}
    BY <1>4 DEF RecoverPending, Activate, Bind, ChainOK
  <2>2. deposits[r] # NoDeposit
    BY <2>1 DEF NoDeposit
  <2>3. r < Len(reservations)
    BY <2>2 DEF ChainOK
  <2>4. \A status \in {"recovered", "bound", "compensated"} :
            [deposits[r] EXCEPT !.status = status] \in DepositRecord \ {NoDeposit}
    BY <2>1, <2>2 DEF DepositRecord, NoDeposit
  <2>5. CASE RecoverPending(r)
    <3>. DEFINE deposit == [deposits[r] EXCEPT !.status = "recovered"]
    <3>1. deposit \in DepositRecord \ {NoDeposit} /\ Recovered(deposit)
      BY <2>1, <2>2, <2>4 DEF Recovered, DepositRecord
    <3>2. deposits' = [deposits EXCEPT ![r] = deposit] /\ UNCHANGED <<reservations, mempool>>
      BY <2>5 DEF RecoverPending
    <3>. HIDE DEF deposit
    <3>. QED
      BY <2>3, <3>1, <3>2, DepositLasts, Unmoved
  <2>6. CASE Activate(r)
    BY <2>3, <2>6, StatusGrows, Unmoved DEF Activate
  <2>7. CASE Bind(r)
    <3>. DEFINE status == IF deposits[r].status = "funded" THEN "bound" ELSE "compensated"
                deposit == [deposits[r] EXCEPT !.status = status]
    <3>1. status \in {"bound", "compensated"} /\ (Recovered(deposits[r]) => status = "compensated")
      BY DEF Recovered
    <3>2. deposit \in DepositRecord \ {NoDeposit} /\ deposit.status = status
      BY <2>1, <2>2, <2>4, <3>1 DEF DepositRecord
    <3>3. deposits' = [deposits EXCEPT ![r] = deposit] /\ UNCHANGED <<reservations, mempool>>
      BY <2>7 DEF Bind
    <3>4. Recovered(deposits[r]) => Recovered(deposit)
      BY <3>1, <3>2 DEF Recovered
    <3>. HIDE DEF deposit, status
    <3>. QED
      BY <2>3, <3>2, <3>3, <3>4, DepositLasts, Unmoved
  <2>. QED
    BY <1>4, <2>5, <2>6, <2>7
<1>. QED
  BY <1>1, <1>2, <1>3, <1>4 DEF AcceptChain

\* One handler moves; what it remembers is true, and what the others know stays so.
LEMMA FlowMoves ==
    ASSUME AcceptTypeOK, NEW f \in Flow, NEW flow,
           flows' = [flows EXCEPT ![f] = flow],
           ChainOK', Grows(reservations, reservations'), Lasts(deposits, deposits'),
           FlowOK(flow, reservations', deposits'),
           RememberedOK(fundedRecovery', reservations', deposits'),
           RememberedOK(stored', reservations', deposits'),
           disturbances' \in Nat
    PROVE  AcceptTypeOK'
<1>1. DOMAIN flows = Flow /\ \A g \in Flow : FlowOK(flows[g], reservations, deposits)
  BY DEF AcceptTypeOK
<1>2. \A g \in Flow : FlowOK(flows[g], reservations', deposits')
  BY <1>1, TruthLasts
<1>3. DOMAIN flows' = Flow /\ \A g \in Flow : flows'[g] = IF g = f THEN flow ELSE flows[g]
  BY <1>1
<1>4. \A g \in Flow : FlowOK(flows'[g], reservations', deposits')
  BY <1>2, <1>3
<1>. QED
  BY <1>3, <1>4 DEF AcceptTypeOK

\* One handler moves, and nothing else of what is remembered, owed or reserved.
LEMMA FlowMovesAlone ==
    ASSUME AcceptTypeOK, NEW f \in Flow, NEW flow,
           flows' = [flows EXCEPT ![f] = flow],
           UNCHANGED <<reservations, deposits, mempool, fundedRecovery, stored>>,
           FlowOK(flow, reservations, deposits),
           disturbances' \in Nat
    PROVE  AcceptTypeOK'
<1>1. ChainOK' /\ Grows(reservations, reservations') /\ Lasts(deposits, deposits')
  BY Unmoved DEF AcceptTypeOK, ChainOK
<1>2. /\ FlowOK(flow, reservations', deposits')
      /\ RememberedOK(fundedRecovery', reservations', deposits')
      /\ RememberedOK(stored', reservations', deposits')
  BY DEF AcceptTypeOK
<1>. QED
  BY <1>1, <1>2, FlowMoves

LEMMA FlowIs ==
    ASSUME AcceptTypeOK, NEW f \in Flow
    PROVE  /\ flows[f].pc \in CallOut => flows[f] \in CallingFlow
           /\ flows[f].pc \in Depositing \cup Settling =>
                flows[f] \in DepositFlow /\ IsMine(flows[f].r, reservations)
           /\ flows[f].pc \in Settling => deposits[flows[f].r] # NoDeposit
<1>1. FlowOK(flows[f], reservations, deposits)
  BY DEF AcceptTypeOK
<1>. QED
  BY <1>1 DEF FlowOK, CallingFlow, DepositFlow, CallOut, Depositing, Settling, IdleFlow

LEMMA NotTaken ==
    ASSUME NEW rows, NEW held, NEW flow \in CallingFlow \cup {IdleFlow}
    PROVE  FlowOK(flow, rows, held)
BY DEF FlowOK

\* The calls of the write hook, in which no reservation is known.
LEMMA CallTypes ==
    ASSUME AcceptTypeOK, NEW f \in Flow,
           \/ ClickAccept(f) \/ ReadCounterBefore(f) \/ SignReservation(f) \/ AwaitReservation(f)
    PROVE  AcceptTypeOK'
<1>. DEFINE was == flows[f]
<1>1. disturbances \in Nat /\ Len(reservations) \in Nat
  BY ReservationIs DEF AcceptTypeOK
<1>2. CASE ClickAccept(f)
  <2>1. [pc |-> "countBefore", mounted |-> TRUE, call |-> "unsent"] \in CallingFlow
    BY DEF CallingFlow, Call
  <2>2. disturbances' \in Nat
    BY <1>1, <1>2 DEF ClickAccept, Undisturbed
  <2>. QED
    BY <1>2, <2>1, <2>2, NotTaken, FlowMovesAlone DEF ClickAccept, chainVars, savedVars
<1>3. CASE ReadCounterBefore(f)
  <2>. DEFINE flow == [pc |-> "sign", mounted |-> was.mounted, call |-> "unsent",
                       before |-> Len(reservations)]
  <2>1. was \in CallingFlow
    BY <1>3, FlowIs DEF ReadCounterBefore, At, CallOut
  <2>2. flow \in CallingFlow
    BY <1>1, <2>1 DEF CallingFlow, Call
  <2>3. flows' = [flows EXCEPT ![f] = flow]
    BY <1>3 DEF ReadCounterBefore
  <2>. HIDE DEF flow
  <2>. QED
    BY <1>1, <1>3, <2>2, <2>3, NotTaken, FlowMovesAlone DEF ReadCounterBefore, chainVars, savedVars
<1>4. CASE SignReservation(f) \/ AwaitReservation(f)
  <2>1. was \in CallingFlow /\ was.pc \in {"sign", "wait"}
    BY <1>4, FlowIs DEF SignReservation, AwaitReservation, At, CallOut
  <2>2. /\ [was EXCEPT !.pc = "wait", !.call = "sent"] \in CallingFlow
        /\ [was EXCEPT !.pc = "countAfter"] \in CallingFlow
    BY <2>1 DEF CallingFlow, Call
  <2>3. PICK flow \in CallingFlow \cup {IdleFlow} : flows' = [flows EXCEPT ![f] = flow]
    BY <1>4, <2>2 DEF SignReservation, AwaitReservation, Go, Stop
  <2>. QED
    BY <1>1, <1>4, <2>3, NotTaken, FlowMovesAlone
       DEF SignReservation, AwaitReservation, chainVars, savedVars
<1>. QED
  BY <1>2, <1>3, <1>4

LEMMA DecideTypes ==
    ASSUME AcceptTypeOK, NEW f \in Flow, DecideReservation(f)
    PROVE  AcceptTypeOK'
<1>. DEFINE was == flows[f]
<1>1. was \in CallingFlow
  BY FlowIs DEF DecideReservation, At, CallOut
<1>2. [was EXCEPT !.call = "executed"] \in CallingFlow /\ [was EXCEPT !.call = "refused"] \in CallingFlow
  BY <1>1 DEF CallingFlow, Call
<1>3. PICK flow \in CallingFlow : flows' = [flows EXCEPT ![f] = flow]
  BY <1>2 DEF DecideReservation
<1>4. ChainOK' /\ Grows(reservations, reservations') /\ Lasts(deposits, deposits')
  <2>1. CASE Issue(TRUE)
    BY <2>1, IssueGrows, Unmoved DEF DecideReservation, AcceptTypeOK
  <2>2. CASE UNCHANGED reservations
    BY <2>2, Unmoved DEF DecideReservation, AcceptTypeOK, ChainOK
  <2>. QED
    BY <2>1, <2>2 DEF DecideReservation
<1>5. /\ FlowOK(flow, reservations', deposits')
      /\ RememberedOK(fundedRecovery, reservations', deposits')
      /\ RememberedOK(stored, reservations', deposits')
  BY <1>4, NotTaken, TruthLasts DEF AcceptTypeOK
<1>6. UNCHANGED <<fundedRecovery, stored, disturbances>>
  BY DEF DecideReservation, savedVars
<1>. QED
  BY <1>3, <1>4, <1>5, <1>6, FlowMoves DEF AcceptTypeOK

\* The reservation is found again, and its deposit made.
LEMMA DepositTypes ==
    ASSUME AcceptTypeOK, NEW f \in Flow,
           Reconcile(f) \/ AuthorizeFunding(f) \/ SubmitFunding(f)
    PROVE  AcceptTypeOK'
<1>. DEFINE was == flows[f]
<1>1. disturbances \in Nat /\ Len(reservations) \in Nat /\ Len(reservations) <= MaxReservations
      /\ ChainOK
  BY ReservationIs DEF AcceptTypeOK, ChainOK
<1>2. CASE Reconcile(f)
  <2>1. was \in CallingFlow /\ was.mounted \in BOOLEAN
    BY <1>2, FlowIs DEF Reconcile, At, CallOut, CallingFlow
  <2>2. PICK r \in Issued :
          /\ Reserved(r).mine
          /\ flows' = [flows EXCEPT ![f] = [pc |-> "authorize", mounted |-> was.mounted, r |-> r]]
    BY <1>2 DEF Reconcile, Reconciled
  <2>. DEFINE flow == [pc |-> "authorize", mounted |-> was.mounted, r |-> r]
  <2>3. r \in ReservationIds /\ r < Len(reservations)
    BY <1>1, AcceptAssumption DEF Issued, ReservationIds
  <2>4. Reserved(r).mine \in BOOLEAN
    BY <1>1, <2>3, ReservationIs DEF ReservationRecord
  <2>5. Reserved(r).mine = TRUE
    BY <2>2, <2>4
  <2>6. flow \in DepositFlow /\ IsMine(r, reservations)
    BY <2>1, <2>3, <2>5 DEF DepositFlow, Depositing, IsMine, Reserved
  <2>7. FlowOK(flow, reservations, deposits)
    BY <2>6 DEF FlowOK, Settling
  <2>. QED
    BY <1>1, <1>2, <2>2, <2>7, FlowMovesAlone DEF Reconcile, chainVars, savedVars
<1>3. CASE AuthorizeFunding(f)
  <2>. DEFINE flow == [was EXCEPT !.pc = "fund"]
  <2>1. was \in DepositFlow /\ IsMine(was.r, reservations)
    BY <1>3, FlowIs DEF AuthorizeFunding, At, Depositing
  <2>2. FlowOK(flow, reservations, deposits)
    BY <2>1 DEF FlowOK, DepositFlow, Depositing, Settling
  <2>3. flows' = [flows EXCEPT ![f] = flow]
    BY <1>3 DEF AuthorizeFunding, Go
  <2>. QED
    BY <1>1, <1>3, <2>2, <2>3, FlowMovesAlone DEF AuthorizeFunding, chainVars, savedVars
<1>4. CASE SubmitFunding(f)
  <2>. DEFINE flow == [was EXCEPT !.pc = "mining"]
  <2>1. was \in DepositFlow /\ IsMine(was.r, reservations)
    BY <1>4, FlowIs DEF SubmitFunding, At, Depositing
  <2>2. FlowOK(flow, reservations, deposits)
    BY <2>1 DEF FlowOK, DepositFlow, Depositing, Settling
  <2>3. flows' = [flows EXCEPT ![f] = flow]
    BY <1>4 DEF SubmitFunding, Go
  <2>4. mempool' = mempool \cup {<<f, was.r>>} /\ was.r \in ReservationIds /\ was.r < Len(reservations)
    BY <1>4, <2>1 DEF SubmitFunding, IsMine
  <2>5. UNCHANGED <<reservations, deposits, fundedRecovery, stored, disturbances>>
    BY <1>4 DEF SubmitFunding, savedVars
  <2>6. ChainOK'
    BY <1>1, <2>4, <2>5 DEF ChainOK
  <2>7. /\ FlowOK(flow, reservations', deposits')
        /\ RememberedOK(fundedRecovery', reservations', deposits')
        /\ RememberedOK(stored', reservations', deposits')
        /\ Grows(reservations, reservations') /\ Lasts(deposits, deposits')
    BY <2>2, <2>5, Unmoved DEF AcceptTypeOK
  <2>. QED
    BY <1>1, <2>3, <2>5, <2>6, <2>7, FlowMoves
<1>. QED
  BY <1>2, <1>3, <1>4

\* What a handler writes down is true.
LEMMA RememberTypes ==
    ASSUME AcceptTypeOK, NEW f \in Flow,
           RememberFunding(f) \/ Confirmed(f) \/ RememberRecovered(f)
    PROVE  AcceptTypeOK'
<1>. DEFINE was == flows[f]
            r == was.r
<1>1. /\ disturbances \in Nat /\ ChainOK
      /\ RememberedOK(fundedRecovery, reservations, deposits)
      /\ RememberedOK(stored, reservations, deposits)
  BY DEF AcceptTypeOK
<1>2. was \in DepositFlow /\ IsMine(r, reservations) /\ r \in ReservationIds /\ was.mounted \in BOOLEAN
  BY FlowIs DEF RememberFunding, Confirmed, RememberRecovered, At, Depositing, Settling,
                DepositFlow
<1>3. ChainOK' /\ Grows(reservations, reservations') /\ Lasts(deposits, deposits')
      /\ UNCHANGED <<reservations, deposits, disturbances>>
  BY <1>1, Unmoved DEF RememberFunding, Confirmed, RememberRecovered, chainVars, ChainOK
<1>4. ASSUME NEW value, rememberRecovery(f, value), RememberedOK(value, reservations, deposits),
             NEW flow, flows' = [flows EXCEPT ![f] = flow], FlowOK(flow, reservations, deposits)
      PROVE  AcceptTypeOK'
  <2>1. stored' = value /\ fundedRecovery' \in {fundedRecovery, value}
    BY <1>4 DEF rememberRecovery
  <2>2. /\ RememberedOK(fundedRecovery', reservations', deposits')
        /\ RememberedOK(stored', reservations', deposits')
        /\ FlowOK(flow, reservations', deposits')
    BY <1>1, <1>3, <1>4, <2>1
  <2>. QED
    BY <1>1, <1>3, <1>4, <2>2, FlowMoves
<1>5. CASE RememberFunding(f)
  <2>. DEFINE flow == [pc |-> "confirm", mounted |-> was.mounted, r |-> r]
              value == Recovery(r, FALSE)
  <2>1. deposits[r] # NoDeposit
    BY <1>5 DEF RememberFunding, MadeDeposit
  <2>2. value \in RecoveryRecord /\ value.reservationId = r /\ value.recovered = FALSE
    BY <1>2 DEF RecoveryRecord, Recovery
  <2>3. RememberedOK(value, reservations, deposits)
    BY <1>2, <2>1, <2>2 DEF RememberedOK, WasMade
  <2>4. FlowOK(flow, reservations, deposits)
    BY <1>2, <2>1 DEF FlowOK, DepositFlow, Settling
  <2>5. flows' = [flows EXCEPT ![f] = flow] /\ rememberRecovery(f, value)
    BY <1>5 DEF RememberFunding, AskToConfirm
  <2>. HIDE DEF flow, value
  <2>. QED
    BY <1>4, <2>3, <2>4, <2>5
<1>6. CASE Confirmed(f)
  <2>1. flows' = [flows EXCEPT ![f] = IdleFlow] /\ rememberRecovery(f, None)
    BY <1>6 DEF Confirmed, Stop
  <2>2. RememberedOK(None, reservations, deposits) /\ FlowOK(IdleFlow, reservations, deposits)
    BY DEF RememberedOK, FlowOK
  <2>. QED
    BY <1>4, <2>1, <2>2
<1>7. CASE RememberRecovered(f)
  <2>. DEFINE value == Recovery(r, TRUE)
  <2>1. deposits[r] # NoDeposit /\ Recovered(deposits[r])
    BY <1>7 DEF RememberRecovered, NoDeposit, Recovered
  <2>2. value \in RecoveryRecord /\ value.reservationId = r
    BY <1>2 DEF RecoveryRecord, Recovery
  <2>3. RememberedOK(value, reservations, deposits)
    BY <1>2, <2>1, <2>2 DEF RememberedOK, WasMade
  <2>4. flows' = [flows EXCEPT ![f] = IdleFlow] /\ rememberRecovery(f, value)
    BY <1>7 DEF RememberRecovered, Stop
  <2>5. FlowOK(IdleFlow, reservations, deposits)
    BY DEF FlowOK
  <2>. HIDE DEF value
  <2>. QED
    BY <1>4, <2>3, <2>4, <2>5
<1>. QED
  BY <1>5, <1>6, <1>7

\* The buttons shown for a remembered deposit, and the end of a handler.
LEMMA ClickTypes ==
    ASSUME AcceptTypeOK, NEW f \in Flow, ClickRetry(f) \/ ClickRecover(f) \/ FlowFails(f)
    PROVE  AcceptTypeOK'
<1>1. disturbances' \in Nat
  BY DEF AcceptTypeOK, ClickRetry, ClickRecover, FlowFails, Undisturbed
<1>2. UNCHANGED <<reservations, deposits, mempool, fundedRecovery, stored>>
  BY DEF ClickRetry, ClickRecover, FlowFails, chainVars, savedVars
<1>3. CASE ClickRetry(f) \/ ClickRecover(f)
  <2>. DEFINE r == fundedRecovery.reservationId
  <2>1. WasMade(r, reservations, deposits) /\ r \in ReservationIds
    BY <1>3 DEF AcceptTypeOK, RememberedOK, ClickRetry, ClickRecover, RecoveryRecord
  <2>2. \A pc \in Settling :
            FlowOK([pc |-> pc, mounted |-> TRUE, r |-> r], reservations, deposits)
    BY <2>1 DEF FlowOK, DepositFlow, WasMade
  <2>3. PICK pc \in Settling :
            flows' = [flows EXCEPT ![f] = [pc |-> pc, mounted |-> TRUE, r |-> r]]
    BY <1>3 DEF ClickRetry, ClickRecover, Settling
  <2>. QED
    BY <1>1, <1>2, <2>2, <2>3, FlowMovesAlone
<1>4. CASE FlowFails(f)
  BY <1>1, <1>2, <1>4, NotTaken, FlowMovesAlone DEF FlowFails, Stop
<1>. QED
  BY <1>3, <1>4

\* The page is opened again, or the panel mounted anew.
LEMMA ReopenTypes ==
    ASSUME AcceptTypeOK, ReloadPage \/ RemountPanel
    PROVE  AcceptTypeOK'
<1>1. disturbances' \in Nat
  BY DEF AcceptTypeOK, ReloadPage, RemountPanel, Undisturbed
<1>2. UNCHANGED <<reservations, deposits, mempool, stored>> /\ fundedRecovery' = stored
  BY DEF ReloadPage, RemountPanel, chainVars
<1>3. ChainOK'
  BY <1>2 DEF AcceptTypeOK, ChainOK
<1>4. ASSUME NEW g \in Flow
      PROVE  FlowOK(flows'[g], reservations, deposits)
  <2>1. CASE flows'[g] = IdleFlow
    BY <2>1 DEF FlowOK
  <2>2. CASE flows'[g] = [flows[g] EXCEPT !.mounted = FALSE] /\ ~At(g, "idle")
    <3>1. FlowOK(flows[g], reservations, deposits) /\ flows[g] # IdleFlow
      BY <2>2 DEF AcceptTypeOK, At, IdleFlow
    <3>2. CASE flows[g] \in CallingFlow
      <4>1. flows'[g] \in CallingFlow
        BY <2>2, <3>2 DEF CallingFlow
      <4>. QED
        BY <4>1 DEF FlowOK
    <3>3. CASE flows[g] \in DepositFlow /\ IsMine(flows[g].r, reservations)
               /\ (flows[g].pc \in Settling => deposits[flows[g].r] # NoDeposit)
      <4>1. /\ flows'[g] \in DepositFlow
            /\ flows'[g].r = flows[g].r /\ flows'[g].pc = flows[g].pc
        BY <2>2, <3>3 DEF DepositFlow
      <4>. QED
        BY <3>3, <4>1 DEF FlowOK
    <3>. QED
      BY <3>1, <3>2, <3>3 DEF FlowOK
  <2>. QED
    BY <2>1, <2>2 DEF ReloadPage, RemountPanel
<1>5. DOMAIN flows' = Flow
  BY DEF ReloadPage, RemountPanel
<1>. QED
  BY <1>1, <1>2, <1>3, <1>4, <1>5 DEF AcceptTypeOK

LEMMA AcceptTypeStep ==
    ASSUME AcceptTypeOK, AcceptNext
    PROVE  AcceptTypeOK'
<1>1. CASE AcceptChain
  <2>1. ChainOK' /\ Grows(reservations, reservations') /\ Lasts(deposits, deposits')
    BY <1>1, ChainStep DEF AcceptTypeOK
  <2>2. UNCHANGED <<flows, fundedRecovery, stored, disturbances>>
    BY <1>1 DEF AcceptChain, IssueElsewhere, ExpireReservation, MineFunding, RecoverPending,
                Activate, Bind
  <2>3. /\ RememberedOK(fundedRecovery, reservations', deposits')
        /\ RememberedOK(stored, reservations', deposits')
        /\ \A f \in Flow : FlowOK(flows[f], reservations', deposits')
    BY <2>1, TruthLasts DEF AcceptTypeOK
  <2>. QED
    BY <2>1, <2>2, <2>3 DEF AcceptTypeOK
<1>2. ASSUME NEW f \in Flow,
             AcceptHandler(f) \/ ClickAccept(f) \/ ClickRetry(f) \/ ClickRecover(f)
      PROVE  AcceptTypeOK'
  BY <1>2, CallTypes, DecideTypes, DepositTypes, RememberTypes, ClickTypes DEF AcceptHandler
<1>. QED
  BY <1>1, <1>2, ReopenTypes DEF AcceptNext

LEMMA AcceptStarts == AcceptInit => AcceptInv
<1> SUFFICES ASSUME AcceptInit
             PROVE  AcceptInv
  OBVIOUS
<1>1. reservations \in Seq(ReservationRecord) /\ Len(reservations) = 0
  BY EmptySeq DEF AcceptInit
<1>2. ChainOK
  BY <1>1, AcceptAssumption DEF AcceptInit, ChainOK, DepositRecord
<1>3. AcceptTypeOK
  BY <1>2 DEF AcceptInit, AcceptTypeOK, FlowOK, RememberedOK
<1>4. \A f \in Flow : flows[f].pc = "idle"
  BY DEF AcceptInit, IdleFlow
<1>5. \A r \in ReservationIds : deposits[r].status = "none"
  BY DEF AcceptInit, NoDeposit
<1>6. mempool = {} /\ stored = None /\ fundedRecovery = None
  BY DEF AcceptInit
<1>7. Orderly
  BY <1>4, <1>5, <1>6 DEF Orderly, OneHandler, FundingIsAwaited, PendingIsRemembered, Pending,
     NothingForgotten, SettlesRemembered, ScreenShowsStored, At, CallOut, Depositing, Settling
<1>. QED
  BY <1>3, <1>7 DEF AcceptInv

\* A deposit that has to be bound after a step of the contract or of the escrow had to
\* be before, or was just mined for a handler.
LEMMA PendingBefore ==
    ASSUME ChainOK, NEW r \in ReservationIds, Pending(r, reservations', deposits'),
           \/ \E mine \in BOOLEAN : Issue(mine) /\ UNCHANGED deposits
           \/ \E s \in ReservationIds : ExpireReservation(s) \/ RecoverPending(s) \/ Activate(s) \/ Bind(s)
    PROVE  Pending(r, reservations, deposits) /\ deposits'[r].by = deposits[r].by
<1>1. /\ reservations \in Seq(ReservationRecord) /\ Len(reservations) \in Nat
      /\ deposits \in [ReservationIds -> DepositRecord] /\ r \in Nat
      /\ \A s \in ReservationIds : s < Len(reservations) => s \in Nat /\ s + 1 \in 1 .. Len(reservations)
  BY ReservationIs, ReservationIdIs DEF ChainOK
<1>2. r < Len(reservations) => Reserved(r) \in ReservationRecord
  BY ReservationIs
<1>3. ASSUME NEW mine \in BOOLEAN, Issue(mine), UNCHANGED deposits
      PROVE  Pending(r, reservations, deposits) /\ deposits'[r].by = deposits[r].by
  <2>1. deposits[r] # NoDeposit
    BY <1>3 DEF Pending, NoDeposit
  <2>2. r < Len(reservations)
    BY <2>1 DEF ChainOK
  <2>3. reservations'[r + 1] = reservations[r + 1]
    BY <1>1, <1>3, <2>2 DEF Issue
  <2>. QED
    BY <1>3, <2>2, <2>3 DEF Pending
<1>4. ASSUME NEW s \in ReservationIds, ExpireReservation(s)
      PROVE  Pending(r, reservations, deposits) /\ deposits'[r].by = deposits[r].by
  <2>. DEFINE row == [Reserved(s) EXCEPT !.status = "EXPIRED"]
  <2>1. s < Len(reservations)
    BY <1>1, <1>4, ReservationIdIs DEF ExpireReservation, Issued
  <2>2. Reserved(s) \in ReservationRecord
    BY <2>1, ReservationIs
  <2>3. row.status = "EXPIRED"
    BY <2>2 DEF ReservationRecord
  <2>4. reservations' = [reservations EXCEPT ![s + 1] = row]
    BY <1>4 DEF ExpireReservation, Reserved
  <2>. HIDE DEF row
  <2>5. Len(reservations') = Len(reservations)
        /\ \A n \in 1 .. Len(reservations) :
              reservations'[n] = IF n = s + 1 THEN row ELSE reservations[n]
    BY <1>1, <2>1, <2>4
  <2>6. r < Len(reservations)
    BY <2>5 DEF Pending
  <2>7. r + 1 \in 1 .. Len(reservations)
    BY <1>1, <2>6
  <2>8. reservations'[r + 1].status = "ACTIVATED" => reservations[r + 1].status = "ACTIVATED"
    BY <2>3, <2>5, <2>7
  <2>9. UNCHANGED deposits
    BY <1>4 DEF ExpireReservation
  <2>. QED
    BY <2>6, <2>8, <2>9 DEF Pending
<1>5. ASSUME NEW s \in ReservationIds, RecoverPending(s)
      PROVE  Pending(r, reservations, deposits) /\ deposits'[r].by = deposits[r].by
  <2>1. /\ deposits' = [deposits EXCEPT ![s].status = "recovered"] /\ UNCHANGED reservations
        /\ deposits[s].status = "funded" /\ deposits[s] \in DepositRecord
    BY <1>1, <1>5 DEF RecoverPending
  <2>2. CASE r = s
    <3>1. deposits'[r].by = deposits[r].by
      BY <1>1, <2>1, <2>2 DEF DepositRecord, NoDeposit
    <3>. QED
      BY <2>1, <2>2, <3>1 DEF Pending
  <2>3. CASE r # s
    <3>1. deposits'[r] = deposits[r]
      BY <1>1, <2>1, <2>3
    <3>. QED
      BY <2>1, <3>1 DEF Pending
  <2>. QED
    BY <2>2, <2>3
<1>6. ASSUME NEW s \in ReservationIds, Activate(s)
      PROVE  Pending(r, reservations, deposits) /\ deposits'[r].by = deposits[r].by
  <2>. DEFINE row == [Reserved(s) EXCEPT !.status = "ACTIVATED"]
  <2>1. deposits[s].status = "funded" /\ UNCHANGED deposits
    BY <1>6 DEF Activate
  <2>2. s < Len(reservations)
    BY <2>1 DEF ChainOK, NoDeposit
  <2>3. reservations' = [reservations EXCEPT ![s + 1] = row]
    BY <1>6 DEF Activate, Reserved
  <2>. HIDE DEF row
  <2>4. Len(reservations') = Len(reservations)
        /\ \A n \in 1 .. Len(reservations) : n # s + 1 => reservations'[n] = reservations[n]
    BY <1>1, <2>2, <2>3
  <2>5. r < Len(reservations)
    BY <2>4 DEF Pending
  <2>6. r # s => reservations'[r + 1] = reservations[r + 1]
    BY <1>1, <2>2, <2>4, <2>5, ReservationIdIs
  <2>. QED
    BY <2>1, <2>5, <2>6 DEF Pending
<1>7. ASSUME NEW s \in ReservationIds, Bind(s)
      PROVE  Pending(r, reservations, deposits) /\ deposits'[r].by = deposits[r].by
  <2>. DEFINE status == IF deposits[s].status = "funded" THEN "bound" ELSE "compensated"
  <2>1. deposits' = [deposits EXCEPT ![s].status = status] /\ UNCHANGED reservations
        /\ status \in {"bound", "compensated"} /\ deposits[s].status \in {"funded", "recovered"}
    BY <1>7 DEF Bind
  <2>. HIDE DEF status
  <2>2. deposits[s] \in DepositRecord
    BY <1>1
  <2>3. deposits'[s].status = status
    BY <1>1, <2>1, <2>2 DEF DepositRecord, NoDeposit
  <2>4. r # s
    BY <2>1, <2>3 DEF Pending
  <2>5. deposits'[r] = deposits[r]
    BY <1>1, <2>1, <2>4
  <2>. QED
    BY <2>1, <2>5 DEF Pending
<1>. QED
  BY <1>3, <1>4, <1>5, <1>6, <1>7

LEMMA ChainOrderly ==
    ASSUME AcceptTypeOK, Orderly, AcceptChain
    PROVE  Orderly'
<1>. DEFINE K(r) ==
        \/ stored.reservationId = r
        \/ \E f \in Flow : At(f, "mining") /\ flows[f].r = r /\ deposits'[r].by = f
<1>1. UNCHANGED <<flows, fundedRecovery, stored>> /\ mempool' \subseteq mempool /\ ChainOK
  BY DEF AcceptTypeOK, AcceptChain, IssueElsewhere, ExpireReservation, MineFunding, RecoverPending,
         Activate, Bind
<1>2. ASSUME NEW r \in ReservationIds, Pending(r, reservations', deposits')
      PROVE  K(r)
  <2>1. CASE \/ \E mine \in BOOLEAN : Issue(mine) /\ UNCHANGED deposits
             \/ \E s \in ReservationIds :
                    ExpireReservation(s) \/ RecoverPending(s) \/ Activate(s) \/ Bind(s)
    <3>1. Pending(r, reservations, deposits) /\ deposits'[r].by = deposits[r].by
      BY <1>1, <1>2, <2>1, PendingBefore
    <3>. QED
      BY <3>1 DEF Orderly, PendingIsRemembered
  <2>2. ASSUME NEW s \in ReservationIds, NEW f \in Flow, MineFunding(f, s)
        PROVE  K(r)
    <3>1. UNCHANGED reservations /\ deposits \in [ReservationIds -> DepositRecord]
      BY <1>1, <2>2 DEF MineFunding, ChainOK
    <3>2. CASE deposits'[r] = deposits[r]
      BY <1>2, <3>1, <3>2 DEF Orderly, PendingIsRemembered, Pending
    <3>3. CASE r = s /\ deposits' = [deposits EXCEPT ![s] = [status |-> "funded", by |-> f]]
      <4>1. deposits'[r].by = f
        BY <3>1, <3>3
      <4>2. At(f, "mining") /\ flows[f].r = r
        BY <2>2, <3>3 DEF MineFunding, Orderly, FundingIsAwaited
      <4>. QED
        BY <4>1, <4>2
    <3>. QED
      BY <2>2, <3>1, <3>2, <3>3 DEF MineFunding
  <2>. QED
    BY <2>1, <2>2 DEF AcceptChain, IssueElsewhere
<1>3. PendingIsRemembered'
  BY <1>1, <1>2 DEF PendingIsRemembered, At
<1>4. FundingIsAwaited'
  BY <1>1 DEF Orderly, FundingIsAwaited, At
<1>. QED
  BY <1>1, <1>3, <1>4 DEF Orderly, OneHandler, NothingForgotten, SettlesRemembered, ScreenShowsStored, At

\* The one handler that is at work moves, and leaves things as they should be.
LEMMA OrderlyMoves ==
    ASSUME AcceptTypeOK, AcceptTypeOK', NEW f \in Flow, NEW flow,
           flows' = [flows EXCEPT ![f] = flow], Alone(f),
           \A g \in Flow, r \in ReservationIds :
                <<g, r>> \in mempool' => g = f /\ flow.pc = "mining" /\ flow.r = r,
           \A r \in ReservationIds :
                Pending(r, reservations', deposits') =>
                    \/ stored'.reservationId = r
                    \/ flow.pc = "mining" /\ flow.r = r /\ deposits'[r].by = f,
           flow.pc \in CallOut \cup Depositing =>
                stored' = None /\ (fundedRecovery' = None \/ flow.mounted = TRUE),
           flow.pc \in Settling =>
                /\ stored'.reservationId \in {flow.r, -1}
                /\ fundedRecovery'.reservationId \in {flow.r, -1},
           ScreenShowsStored'
    PROVE  Orderly'
<1>1. \A g \in Flow : flows'[g] = IF g = f THEN flow ELSE flows[g]
  BY DEF AcceptTypeOK
<1>2. flows'[f] = flow /\ \A g \in Flow : g # f => flows'[g].pc = "idle"
  BY <1>1 DEF Alone, At
<1>3. OneHandler'
  BY <1>2 DEF OneHandler, At
<1>4. FundingIsAwaited'
  BY <1>2 DEF FundingIsAwaited, At
<1>5. PendingIsRemembered'
  BY <1>2 DEF PendingIsRemembered, At
<1>6. NothingForgotten' /\ SettlesRemembered'
  BY <1>2 DEF NothingForgotten, SettlesRemembered, CallOut, Depositing, Settling
<1>. QED
  BY <1>3, <1>4, <1>5, <1>6 DEF Orderly

\* What is owed while one handler is at work.
LEMMA OnlyHandler ==
    ASSUME AcceptTypeOK, Orderly, NEW f \in Flow, Alone(f)
    PROVE  /\ \A g \in Flow, r \in ReservationIds :
                <<g, r>> \in mempool => g = f /\ At(f, "mining") /\ flows[f].r = r
           /\ \A r \in ReservationIds :
                Pending(r, reservations, deposits) =>
                    \/ stored.reservationId = r
                    \/ At(f, "mining") /\ flows[f].r = r /\ deposits[r].by = f
BY DEF Orderly, FundingIsAwaited, PendingIsRemembered, Alone, At

LEMMA WorksAlone ==
    ASSUME Orderly, NEW f \in Flow, flows[f].pc # "idle"
    PROVE  Alone(f)
BY DEF Orderly, OneHandler, Alone, At

\* A handler that is not waiting for a deposit moves, and neither what is owed nor what
\* is remembered changes.
LEMMA QuietMove ==
    ASSUME AcceptTypeOK, AcceptTypeOK', Orderly, NEW f \in Flow, NEW flow,
           flows' = [flows EXCEPT ![f] = flow], Alone(f), ~At(f, "mining"), flow.pc # "mining",
           UNCHANGED <<mempool, fundedRecovery, stored>>,
           \A r \in ReservationIds :
                Pending(r, reservations', deposits') => Pending(r, reservations, deposits),
           flow.pc \in CallOut \cup Depositing =>
                stored = None /\ (fundedRecovery = None \/ flow.mounted = TRUE),
           flow.pc \in Settling =>
                /\ stored.reservationId \in {flow.r, -1}
                /\ fundedRecovery.reservationId \in {flow.r, -1}
    PROVE  Orderly'
<1>1. mempool' = {} /\ stored' = stored /\ fundedRecovery' = fundedRecovery
  BY OnlyHandler DEF AcceptTypeOK, ChainOK
<1>2. \A r \in ReservationIds :
        Pending(r, reservations', deposits') => stored.reservationId = r
  BY OnlyHandler
<1>3. ScreenShowsStored'
  BY <1>1 DEF Orderly, ScreenShowsStored
<1>. QED
  BY <1>1, <1>2, <1>3, OrderlyMoves

\* Of a handler before its deposit: nothing is remembered.
LEMMA BeforeDeposit ==
    ASSUME Orderly, NEW f \in Flow, flows[f].pc \in CallOut \cup Depositing
    PROVE  stored = None /\ (fundedRecovery = None \/ flows[f].mounted = TRUE)
BY DEF Orderly, NothingForgotten

LEMMA CallOrderly ==
    ASSUME AcceptTypeOK, AcceptTypeOK', Orderly, NEW f \in Flow,
           \/ ClickAccept(f) /\ stored = None /\ Alone(f)
           \/ ReadCounterBefore(f) \/ SignReservation(f) \/ AwaitReservation(f)
           \/ Reconcile(f) \/ AuthorizeFunding(f)
    PROVE  Orderly'
<1>. DEFINE was == flows[f]
<1>1. UNCHANGED <<reservations, deposits, mempool, fundedRecovery, stored>>
  BY DEF ClickAccept, ReadCounterBefore, SignReservation, AwaitReservation, Reconcile,
         AuthorizeFunding, chainVars, savedVars
<1>2. \A r \in ReservationIds :
        Pending(r, reservations', deposits') => Pending(r, reservations, deposits)
  BY <1>1
<1>3. CASE ClickAccept(f) /\ stored = None /\ Alone(f)
  <2>. DEFINE flow == [pc |-> "countBefore", mounted |-> TRUE, call |-> "unsent"]
  <2>1. flows' = [flows EXCEPT ![f] = flow] /\ ~At(f, "mining") /\ flow.pc = "countBefore"
        /\ flow.mounted = TRUE
    BY <1>3 DEF ClickAccept, At
  <2>. HIDE DEF flow
  <2>. QED
    BY <1>1, <1>2, <1>3, <2>1, QuietMove DEF Settling
<1>4. CASE \/ ReadCounterBefore(f) \/ SignReservation(f) \/ AwaitReservation(f)
           \/ Reconcile(f) \/ AuthorizeFunding(f)
  <2>1. was.pc \in CallOut \cup {"authorize"}
    BY <1>4 DEF ReadCounterBefore, SignReservation, AwaitReservation, Reconcile,
                AuthorizeFunding, At, CallOut
  <2>2. Alone(f) /\ ~At(f, "mining")
    BY <2>1, WorksAlone DEF CallOut, At
  <2>3. stored = None /\ (fundedRecovery = None \/ was.mounted = TRUE)
    BY <2>1, BeforeDeposit DEF Depositing
  <2>4. was \in CallingFlow \cup DepositFlow
    BY <2>1, FlowIs DEF Depositing
  <2>5. PICK flow : /\ flows' = [flows EXCEPT ![f] = flow]
                    /\ \/ flow = IdleFlow
                       \/ flow.pc \in {"sign", "wait", "countAfter", "authorize", "fund"}
                          /\ flow.mounted = was.mounted
    <3>1. /\ [was EXCEPT !.pc = "wait", !.call = "sent"].pc = "wait"
          /\ [was EXCEPT !.pc = "wait", !.call = "sent"].mounted = was.mounted
      BY <2>4 DEF CallingFlow, DepositFlow
    <3>2. \A pc \in {"countAfter", "fund"} :
            [was EXCEPT !.pc = pc].pc = pc /\ [was EXCEPT !.pc = pc].mounted = was.mounted
      BY <2>4 DEF CallingFlow, DepositFlow
    <3>3. CASE ReadCounterBefore(f)
      <4>. DEFINE next == [pc |-> "sign", mounted |-> was.mounted, call |-> "unsent",
                           before |-> Len(reservations)]
      <4>1. flows' = [flows EXCEPT ![f] = next]
        BY <3>3 DEF ReadCounterBefore
      <4>2. next.pc = "sign" /\ next.mounted = was.mounted
        OBVIOUS
      <4>. HIDE DEF next
      <4>. QED
        BY <4>1, <4>2
    <3>4. CASE SignReservation(f)
      BY <3>1, <3>4 DEF SignReservation, Stop
    <3>5. CASE AwaitReservation(f)
      BY <3>2, <3>5 DEF AwaitReservation, Go, Stop
    <3>6. CASE Reconcile(f)
      BY <3>6 DEF Reconcile
    <3>7. CASE AuthorizeFunding(f)
      BY <3>2, <3>7 DEF AuthorizeFunding, Go
    <3>. QED
      BY <1>4, <3>3, <3>4, <3>5, <3>6, <3>7
  <2>6. flow.pc # "mining" /\ flow.pc \notin Settling
        /\ (flow.pc \in CallOut \cup Depositing => flow.mounted = was.mounted)
    BY <2>5 DEF IdleFlow, CallOut, Depositing, Settling
  <2>. QED
    BY <1>1, <1>2, <2>2, <2>3, <2>5, <2>6, QuietMove
<1>. QED
  BY <1>3, <1>4

LEMMA DecideOrderly ==
    ASSUME AcceptTypeOK, AcceptTypeOK', Orderly, NEW f \in Flow, DecideReservation(f)
    PROVE  Orderly'
<1>. DEFINE was == flows[f]
<1>1. was.pc = "wait" /\ was \in CallingFlow
  BY FlowIs DEF DecideReservation, At, CallOut
<1>2. PICK call \in Call : flows' = [flows EXCEPT ![f] = [was EXCEPT !.call = call]]
  BY DEF DecideReservation, Call
<1>. DEFINE flow == [was EXCEPT !.call = call]
<1>3. flow.pc = "wait" /\ flow.mounted = was.mounted
  BY <1>1 DEF CallingFlow
<1>4. stored = None /\ (fundedRecovery = None \/ was.mounted = TRUE) /\ Alone(f) /\ ~At(f, "mining")
  BY <1>1, BeforeDeposit, WorksAlone DEF CallOut, At
<1>5. UNCHANGED <<deposits, mempool, fundedRecovery, stored>>
  BY DEF DecideReservation, savedVars
<1>6. \A r \in ReservationIds :
        Pending(r, reservations', deposits') => Pending(r, reservations, deposits)
  BY <1>5, PendingBefore DEF DecideReservation, AcceptTypeOK
<1>. HIDE DEF flow
<1>. QED
  BY <1>2, <1>3, <1>4, <1>5, <1>6, QuietMove DEF Settling, flow

\* The deposit is sent: nothing else is owed, and this one its handler waits for.
LEMMA SubmitOrderly ==
    ASSUME AcceptTypeOK, AcceptTypeOK', Orderly, NEW f \in Flow, SubmitFunding(f)
    PROVE  Orderly'
<1>. DEFINE was == flows[f]
            flow == [was EXCEPT !.pc = "mining"]
<1>1. was.pc = "fund" /\ was \in DepositFlow /\ was.r \in ReservationIds
  BY FlowIs DEF SubmitFunding, At, Depositing, DepositFlow
<1>2. flow.pc = "mining" /\ flow.mounted = was.mounted /\ flow.r = was.r
  BY <1>1 DEF DepositFlow
<1>3. stored = None /\ (fundedRecovery = None \/ was.mounted = TRUE) /\ Alone(f) /\ ~At(f, "mining")
  BY <1>1, BeforeDeposit, WorksAlone DEF Depositing, At
<1>4. /\ flows' = [flows EXCEPT ![f] = flow] /\ mempool' = mempool \cup {<<f, was.r>>}
      /\ UNCHANGED <<reservations, deposits, fundedRecovery, stored>>
  BY DEF SubmitFunding, Go, savedVars
<1>. HIDE DEF flow
<1>5. \A g \in Flow, r \in ReservationIds :
        <<g, r>> \in mempool' => g = f /\ flow.pc = "mining" /\ flow.r = r
  BY <1>2, <1>3, <1>4, OnlyHandler
<1>6. \A r \in ReservationIds :
        Pending(r, reservations', deposits') => stored'.reservationId = r
  BY <1>3, <1>4, OnlyHandler
<1>7. ScreenShowsStored'
  BY <1>4 DEF Orderly, ScreenShowsStored
<1>8. flow.pc \notin Settling
  BY <1>2 DEF Settling
<1>. QED
  BY <1>2, <1>3, <1>4, <1>5, <1>6, <1>7, <1>8, OrderlyMoves

\* The deposit is written down, where nothing was.
LEMMA RememberOrderly ==
    ASSUME AcceptTypeOK, AcceptTypeOK', Orderly, NEW f \in Flow, RememberFunding(f)
    PROVE  Orderly'
<1>. DEFINE was == flows[f]
            r == was.r
            flow == [pc |-> "confirm", mounted |-> was.mounted, r |-> r]
            value == Recovery(r, FALSE)
<1>1. At(f, "mining") /\ was.pc = "mining" /\ was \in DepositFlow /\ was.mounted \in BOOLEAN
  BY FlowIs DEF RememberFunding, At, Depositing, DepositFlow
<1>2. stored = None /\ (fundedRecovery = None \/ was.mounted = TRUE) /\ Alone(f)
  BY <1>1, BeforeDeposit, WorksAlone DEF Depositing
<1>3. /\ flows' = [flows EXCEPT ![f] = flow] /\ rememberRecovery(f, value)
      /\ <<f, r>> \notin mempool /\ UNCHANGED <<reservations, deposits, mempool>>
  BY DEF RememberFunding, AskToConfirm
<1>4. stored' = value /\ fundedRecovery' \in {fundedRecovery, value}
      /\ (was.mounted = TRUE => fundedRecovery' = value)
  BY <1>3 DEF rememberRecovery
<1>5. value.reservationId = r /\ flow.pc = "confirm" /\ flow.r = r
  BY DEF Recovery
<1>. HIDE DEF flow, value
<1>6. fundedRecovery' \in {None, value}
  BY <1>2, <1>4
<1>7. \A g \in Flow, s \in ReservationIds : <<g, s>> \notin mempool'
  BY <1>2, <1>3, OnlyHandler
<1>8. None.reservationId = -1 /\ \A s \in ReservationIds : s # -1
  BY ReservationIdIs DEF None
<1>9. ASSUME NEW s \in ReservationIds, Pending(s, reservations', deposits')
      PROVE  stored'.reservationId = s
  <2>1. Pending(s, reservations, deposits)
    BY <1>3, <1>9
  <2>2. stored.reservationId # s
    BY <1>2, <1>8
  <2>3. r = s
    BY <1>2, <2>1, <2>2, OnlyHandler
  <2>. QED
    BY <1>4, <1>5, <2>3
<1>10. flow.pc \notin CallOut \cup Depositing
  BY <1>5 DEF CallOut, Depositing
<1>11. /\ stored'.reservationId \in {flow.r, -1} /\ fundedRecovery'.reservationId \in {flow.r, -1}
       /\ ScreenShowsStored'
  BY <1>4, <1>5, <1>6, <1>8 DEF ScreenShowsStored
<1>. QED
  BY <1>2, <1>3, <1>7, <1>9, <1>10, <1>11, OrderlyMoves

\* What was remembered is forgotten when it is bound, and noted when it is recovered.
LEMMA SettleOrderly ==
    ASSUME AcceptTypeOK, AcceptTypeOK', Orderly, NEW f \in Flow, Confirmed(f) \/ RememberRecovered(f)
    PROVE  Orderly'
<1>. DEFINE was == flows[f]
            r == was.r
<1>1. was.pc \in Settling /\ was.pc # "mining" /\ was.pc # "idle" /\ ~At(f, "mining")
  BY DEF Confirmed, RememberRecovered, At, Settling
<1>2. Alone(f) /\ r \in ReservationIds /\ was.mounted \in BOOLEAN
  BY <1>1, FlowIs, WorksAlone DEF DepositFlow
<1>3. stored.reservationId \in {r, -1} /\ fundedRecovery.reservationId \in {r, -1}
  BY <1>1 DEF Orderly, SettlesRemembered
<1>4. UNCHANGED <<reservations, deposits, mempool>> /\ flows' = [flows EXCEPT ![f] = IdleFlow]
  BY DEF Confirmed, RememberRecovered, chainVars, Stop
<1>5. None.reservationId = -1 /\ \A s \in ReservationIds : s # -1
  BY ReservationIdIs DEF None
<1>6. \A g \in Flow, s \in ReservationIds : <<g, s>> \notin mempool'
  BY <1>1, <1>2, <1>4, OnlyHandler
<1>7. ASSUME NEW s \in ReservationIds, Pending(s, reservations', deposits')
      PROVE  s = r /\ Pending(r, reservations, deposits)
  <2>1. Pending(s, reservations, deposits)
    BY <1>4, <1>7
  <2>2. stored.reservationId = s
    BY <1>1, <1>2, <2>1, OnlyHandler
  <2>. QED
    BY <1>3, <1>5, <2>1, <2>2
<1>8. IdleFlow.pc \notin CallOut \cup Depositing \cup Settling
  BY DEF IdleFlow, CallOut, Depositing, Settling
<1>9. CASE Confirmed(f)
  <2>1. stored' = None
    BY <1>9 DEF Confirmed, rememberRecovery
  <2>2. ~Pending(r, reservations, deposits)
    BY <1>9 DEF Confirmed, Pending
  <2>3. \A s \in ReservationIds : ~Pending(s, reservations', deposits')
    BY <1>7, <2>2
  <2>4. ScreenShowsStored'
    BY <1>5, <2>1 DEF ScreenShowsStored
  <2>. QED
    BY <1>2, <1>4, <1>6, <1>8, <2>3, <2>4, OrderlyMoves
<1>10. CASE RememberRecovered(f)
  <2>. DEFINE value == Recovery(r, TRUE)
  <2>1. stored' = value /\ fundedRecovery' \in {fundedRecovery, value}
    BY <1>10 DEF RememberRecovered, rememberRecovery
  <2>2. value.reservationId = r
    BY DEF Recovery
  <2>. HIDE DEF value
  <2>3. fundedRecovery' # None => fundedRecovery'.reservationId = r
    <3>1. fundedRecovery # None => fundedRecovery.reservationId \in ReservationIds
      BY DEF AcceptTypeOK, RememberedOK, RecoveryRecord
    <3>. QED
      BY <1>3, <1>5, <2>1, <2>2, <3>1
  <2>4. ScreenShowsStored'
    BY <2>1, <2>2, <2>3 DEF ScreenShowsStored
  <2>5. \A s \in ReservationIds :
            Pending(s, reservations', deposits') => stored'.reservationId = s
    BY <1>7, <2>1, <2>2
  <2>. QED
    BY <1>2, <1>4, <1>6, <1>8, <2>4, <2>5, OrderlyMoves
<1>. QED
  BY <1>9, <1>10

\* A deposit that is remembered is asked about again.
LEMMA ClickOrderly ==
    ASSUME AcceptTypeOK, AcceptTypeOK', Orderly, NEW f \in Flow, Alone(f),
           ClickRetry(f) \/ ClickRecover(f)
    PROVE  Orderly'
<1>. DEFINE r == fundedRecovery.reservationId
<1>1. UNCHANGED <<reservations, deposits, mempool, fundedRecovery, stored>>
      /\ ~At(f, "mining") /\ fundedRecovery # None
  BY DEF ClickRetry, ClickRecover, At, chainVars, savedVars
<1>2. PICK pc \in Settling :
        flows' = [flows EXCEPT ![f] = [pc |-> pc, mounted |-> TRUE, r |-> r]]
  BY DEF ClickRetry, ClickRecover, Settling
<1>. DEFINE flow == [pc |-> pc, mounted |-> TRUE, r |-> r]
<1>3. flow.pc = pc /\ flow.r = r /\ flow.pc # "mining" /\ flow.pc \notin CallOut \cup Depositing
  BY DEF Settling, CallOut, Depositing
<1>. HIDE DEF flow
<1>4. stored.reservationId \in {flow.r, -1} /\ fundedRecovery.reservationId \in {flow.r, -1}
  BY <1>1, <1>3 DEF Orderly, ScreenShowsStored
<1>5. \A s \in ReservationIds :
        Pending(s, reservations', deposits') => Pending(s, reservations, deposits)
  BY <1>1
<1>. QED
  BY <1>1, <1>2, <1>3, <1>4, <1>5, QuietMove DEF flow

\* A handler ends with an error, not with its deposit on its way or made.
LEMMA FailOrderly ==
    ASSUME AcceptTypeOK, AcceptTypeOK', Orderly, NEW f \in Flow, FlowFails(f),
           At(f, "mining") => <<f, flows[f].r>> \notin mempool /\ ~MadeDeposit(f, flows[f].r)
    PROVE  Orderly'
<1>. DEFINE was == flows[f]
            r == was.r
<1>1. UNCHANGED <<reservations, deposits, mempool, fundedRecovery, stored>>
      /\ flows' = [flows EXCEPT ![f] = IdleFlow] /\ was.pc # "idle"
  BY DEF FlowFails, Stop, chainVars, savedVars
<1>2. Alone(f)
  BY <1>1, WorksAlone
<1>3. IdleFlow.pc \notin CallOut \cup Depositing \cup Settling
  BY DEF IdleFlow, CallOut, Depositing, Settling
<1>4. \A g \in Flow, s \in ReservationIds : <<g, s>> \notin mempool'
  BY <1>1, <1>2, OnlyHandler
<1>5. ASSUME NEW s \in ReservationIds, Pending(s, reservations', deposits')
      PROVE  stored'.reservationId = s
  <2>1. Pending(s, reservations, deposits) /\ deposits[s] # NoDeposit
    BY <1>1, <1>5 DEF Pending, NoDeposit
  <2>2. ~(At(f, "mining") /\ r = s /\ deposits[s].by = f)
    BY <2>1 DEF MadeDeposit
  <2>. QED
    BY <1>1, <1>2, <2>1, <2>2, OnlyHandler
<1>6. ScreenShowsStored'
  BY <1>1 DEF Orderly, ScreenShowsStored
<1>. QED
  BY <1>1, <1>2, <1>3, <1>4, <1>5, <1>6, OrderlyMoves

\* The page is opened again, not while a deposit is mined.
LEMMA ReloadOrderly ==
    ASSUME AcceptTypeOK, Orderly, ReloadPage, \A f \in Flow : ~At(f, "mining")
    PROVE  Orderly'
<1>1. UNCHANGED <<reservations, deposits, mempool, stored>> /\ fundedRecovery' = stored
      /\ \A f \in Flow : flows'[f].pc = "idle"
  BY DEF ReloadPage, chainVars, IdleFlow
<1>2. OneHandler' /\ NothingForgotten' /\ SettlesRemembered' /\ ScreenShowsStored'
  BY <1>1 DEF OneHandler, NothingForgotten, SettlesRemembered, ScreenShowsStored, At, CallOut,
              Depositing, Settling
<1>3. FundingIsAwaited'
  BY <1>1 DEF Orderly, FundingIsAwaited
<1>4. PendingIsRemembered'
  BY <1>1 DEF Orderly, PendingIsRemembered
<1>. QED
  BY <1>2, <1>3, <1>4 DEF Orderly

\* The panel is mounted anew, and shows what is stored.
LEMMA RemountOrderly ==
    ASSUME AcceptTypeOK, Orderly, RemountPanel
    PROVE  Orderly'
<1>1. UNCHANGED <<reservations, deposits, mempool, stored>> /\ fundedRecovery' = stored
  BY DEF RemountPanel, chainVars
<1>2. ASSUME NEW f \in Flow
      PROVE  flows'[f].pc = flows[f].pc /\ (flows[f].pc # "idle" => flows'[f].r = flows[f].r)
  <2>1. FlowOK(flows[f], reservations, deposits)
    BY DEF AcceptTypeOK
  <2>2. CASE At(f, "idle")
    BY <2>2 DEF RemountPanel, At, IdleFlow
  <2>3. CASE ~At(f, "idle")
    <3>1. flows[f] \in CallingFlow \cup DepositFlow
      BY <2>1, <2>3 DEF FlowOK, At, IdleFlow
    <3>2. flows'[f] = [flows[f] EXCEPT !.mounted = FALSE]
      BY <2>3 DEF RemountPanel
    <3>. QED
      BY <3>1, <3>2 DEF CallingFlow, DepositFlow
  <2>. QED
    BY <2>2, <2>3
<1>3. OneHandler' /\ FundingIsAwaited' /\ PendingIsRemembered'
  BY <1>1, <1>2 DEF Orderly, OneHandler, FundingIsAwaited, PendingIsRemembered, At
<1>4. NothingForgotten' /\ SettlesRemembered' /\ ScreenShowsStored'
  BY <1>1, <1>2 DEF Orderly, NothingForgotten, SettlesRemembered, ScreenShowsStored, CallOut,
                    Depositing, Settling
<1>. QED
  BY <1>3, <1>4 DEF Orderly

LEMMA AcceptStep == AcceptInv /\ [AcceptNext]_acceptVars => AcceptInv'
<1> SUFFICES ASSUME AcceptInv, [AcceptNext]_acceptVars
             PROVE  AcceptInv'
  OBVIOUS
<1>1. CASE UNCHANGED acceptVars
  BY <1>1 DEF acceptVars, AcceptInv, AcceptTypeOK, ChainOK, Orderly, OneHandler,
     FundingIsAwaited, PendingIsRemembered, NothingForgotten, SettlesRemembered,
     ScreenShowsStored, At
<1>2. CASE AcceptNext
  <2>1. AcceptTypeOK /\ AcceptTypeOK' /\ disturbances \in Nat
    BY <1>2, AcceptTypeStep DEF AcceptInv, AcceptTypeOK
  <2>2. ASSUME disturbances' = 0
        PROVE  Orderly'
    <3>1. disturbances = 0 => Orderly
      BY DEF AcceptInv
    <3>2. CASE AcceptChain
      <4>1. disturbances = 0
        BY <2>2, <3>2 DEF AcceptChain, IssueElsewhere, ExpireReservation, MineFunding,
                          RecoverPending, Activate, Bind
      <4>. QED
        BY <2>1, <3>1, <3>2, <4>1, ChainOrderly
    <3>3. ASSUME NEW f \in Flow, AcceptHandler(f), ~FlowFails(f)
          PROVE  Orderly'
      <4>1. disturbances = 0
        BY <2>2, <3>3 DEF AcceptHandler, ReadCounterBefore, SignReservation, DecideReservation,
           AwaitReservation, Reconcile, AuthorizeFunding, SubmitFunding, RememberFunding,
           Confirmed, RememberRecovered
      <4>. QED
        BY <2>1, <3>1, <3>3, <4>1, CallOrderly, DecideOrderly, SubmitOrderly, RememberOrderly,
           SettleOrderly DEF AcceptHandler
    <3>4. ASSUME NEW f \in Flow, FlowFails(f)
          PROVE  Orderly'
      <4>1. disturbances = 0
            /\ (At(f, "mining") => <<f, flows[f].r>> \notin mempool /\ ~MadeDeposit(f, flows[f].r))
        BY <2>1, <2>2, <3>4 DEF FlowFails, Undisturbed
      <4>. QED
        BY <2>1, <3>1, <3>4, <4>1, FailOrderly
    <3>5. ASSUME NEW f \in Flow, ClickAccept(f)
          PROVE  Orderly'
      <4>1. disturbances = 0 /\ stored = None /\ Alone(f)
        BY <2>1, <2>2, <3>5 DEF ClickAccept, Undisturbed
      <4>. QED
        BY <2>1, <3>1, <3>5, <4>1, CallOrderly
    <3>6. ASSUME NEW f \in Flow, ClickRetry(f) \/ ClickRecover(f)
          PROVE  Orderly'
      <4>1. disturbances = 0 /\ Alone(f)
        BY <2>1, <2>2, <3>6 DEF ClickRetry, ClickRecover, Undisturbed
      <4>. QED
        BY <2>1, <3>1, <3>6, <4>1, ClickOrderly
    <3>7. CASE ReloadPage
      <4>1. disturbances = 0 /\ \A f \in Flow : ~At(f, "mining")
        BY <2>1, <2>2, <3>7 DEF ReloadPage, Undisturbed
      <4>. QED
        BY <2>1, <3>1, <3>7, <4>1, ReloadOrderly
    <3>8. CASE RemountPanel
      <4>1. disturbances = 0
        BY <2>2, <3>8 DEF RemountPanel
      <4>. QED
        BY <2>1, <3>1, <3>8, <4>1, RemountOrderly
    <3>. QED
      BY <1>2, <3>2, <3>3, <3>4, <3>5, <3>6, <3>7, <3>8 DEF AcceptNext
  <2>. QED
    BY <2>1, <2>2 DEF AcceptInv
<1>. QED
  BY <1>1, <1>2

LEMMA AcceptedAreReachable == AcceptInv => RecoveryIsTrue /\ AcceptDepositsReachable
<1> SUFFICES ASSUME AcceptInv
             PROVE  RecoveryIsTrue /\ AcceptDepositsReachable
  OBVIOUS
<1>1. AcceptTypeOK /\ ChainOK
  BY DEF AcceptInv, AcceptTypeOK
<1>2. RecoveryIsTrue
  <2> SUFFICES ASSUME stored # None
               PROVE  /\ Reserved(stored.reservationId).mine
                      /\ deposits[stored.reservationId] # NoDeposit
                      /\ stored.recovered =>
                            deposits[stored.reservationId].status \in {"recovered", "compensated"}
    BY DEF RecoveryIsTrue
  <2>1. /\ IsMine(stored.reservationId, reservations)
        /\ deposits[stored.reservationId] # NoDeposit
        /\ stored.recovered => Recovered(deposits[stored.reservationId])
    BY <1>1 DEF AcceptTypeOK, RememberedOK, WasMade
  <2>2. Reserved(stored.reservationId).mine = TRUE
    BY <2>1 DEF IsMine, Reserved
  <2>3. Reserved(stored.reservationId).mine
    BY ONLY <2>2
  <2>. QED
    BY <2>1, <2>3 DEF Recovered
<1>3. AcceptDepositsReachable
  <2> SUFFICES ASSUME disturbances = 0, NEW r \in Issued,
                      \/ deposits[r].status = "funded"
                      \/ deposits[r].status = "recovered" /\ Reserved(r).status = "ACTIVATED"
               PROVE  \/ stored.reservationId = r
                      \/ \E f \in Flow : At(f, "mining") /\ flows[f].r = r
    BY DEF AcceptDepositsReachable
  <2>1. Len(reservations) \in Nat /\ Len(reservations) <= MaxReservations /\ MaxReservations \in Nat
    BY <1>1, ReservationIs, AcceptAssumption DEF ChainOK
  <2>2. r \in ReservationIds /\ r < Len(reservations)
    BY <2>1 DEF Issued, ReservationIds
  <2>3. Pending(r, reservations, deposits)
    BY <2>2 DEF Pending, Reserved
  <2>. QED
    BY <2>2, <2>3 DEF AcceptInv, Orderly, PendingIsRemembered
<1>. QED
  BY <1>2, <1>3

\* No deposit of the wallet is lost sight of by the handlers of the two pages that take
\* deposits, and what the browser remembers of one is true: for any number of handlers,
\* reservations, reloads, failures and retries of handleAccept, retryConfirmation,
\* recoverFunding and of the appeal's handlers.
THEOREM DepositsReachable == Spec => []DepositsStayReachable
<1>1. Init => AcceptInv /\ AppealInv
  BY AcceptStarts, AppealStarts DEF Init
<1>2. AcceptInv /\ AppealInv /\ [Next]_vars => AcceptInv' /\ AppealInv'
  BY AcceptStep, AppealStep
     DEF Next, vars, AcceptPage, AppealCard, CreatePage, ActivityPage, EvidenceCard
<1>3. AcceptInv /\ AppealInv => DepositsStayReachable
  BY AcceptedAreReachable DEF AppealInv, DepositsStayReachable
<1>. QED
  BY <1>1, <1>2, <1>3, PTL DEF Spec

=============================================================================
