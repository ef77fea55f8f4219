-------------------------- MODULE EvidenceArchiver --------------------------
(***************************************************************************)
(* archiveEvidence of apps/api/src/services/evidence-archiver.ts, and the  *)
(* EvidenceArchiveStatus of components/bounty/AttemptCard.tsx that shows   *)
(* what it stored: the page an attempt gave as evidence is fetched, its    *)
(* fingerprint compared with the cached on-chain one, and both kept in the *)
(* row of that content.                                                    *)
(*                                                                         *)
(* One attempt, to which the indexer starts archivings nobody waits for    *)
(* (Indexer), so that several are at work at a time.  Content stands for a *)
(* page and for its fingerprint; collisions of the 64 bit hash are left    *)
(* out, and pages that differ only after the part that is hashed.  A page  *)
(* that is not fetched is archived as the empty text.                      *)
(***************************************************************************)
EXTENDS Integers, Sequences, SequencesExt

CONSTANTS
    Content,        \* pages found at the attempt's URL
    MAX_REDIRECTS,
    MaxArchivings   \* bound: archivings started

VARIABLES
    archivings,     \* archivings started so far
    jobs,           \* those at work
    archives,       \* prisma.evidenceArchive: the attempt's rows, the oldest first
    cachedHash,     \* prisma.attempt: evidenceContentHash
    stamped,        \* history: hashes the attempt has had
    shownArchives   \* state of the card

archiverVars == <<archivings, jobs, archives, cachedHash, stamped, shownArchives>>

Empty == "empty"
NoHash == "no hash"

ASSUME ContentAssumption == {Empty, NoHash} \cap Content = {} /\ MAX_REDIRECTS \in Nat

ArchiverInit ==
    /\ archivings = 0
    /\ jobs = <<>>
    /\ archives = <<>>
    /\ cachedHash = NoHash
    /\ stamped = {}
    /\ shownArchives = <<>>

\* The indexer stores a submission, or a new hash, and starts an archiving.
StartArchiving ==
    /\ archivings < MaxArchivings
    /\ archivings' = archivings + 1
    /\ cachedHash' \in Content \cup {cachedHash}
    /\ stamped' = IF cachedHash' = NoHash THEN stamped ELSE stamped \cup {cachedHash'}
    /\ jobs' = Append(jobs, [pc |-> "check", redirects |-> 0])
    /\ UNCHANGED <<archives, shownArchives>>

Fetched(k, content) == jobs' = [jobs EXCEPT ![k] = [pc |-> "compare", content |-> content]]

\* assertSafeUrl, of the attempt's URL or of a redirect's target: it is refused, or one
\* of its host's addresses is chosen.
assertSafeUrl(k) ==
    /\ jobs[k].pc = "check"
    /\ \/ jobs' = [jobs EXCEPT ![k].pc = "request"]
       \/ Fetched(k, Empty)
    /\ UNCHANGED <<archivings, archives, cachedHash, stamped, shownArchives>>

\* requestPinned, of that address: the page, perhaps an empty one, or another target.
\* A status other than success, a time-out, too long a response, an error of the
\* connection and one redirect too many all leave the text empty.
requestPinned(k) ==
    /\ jobs[k].pc = "request"
    /\ \/ \E content \in Content \cup {Empty} : Fetched(k, content)
       \/ /\ jobs[k].redirects < MAX_REDIRECTS
          /\ jobs' = [jobs EXCEPT ![k] = [pc |-> "check", redirects |-> @.redirects + 1]]
    /\ UNCHANGED <<archivings, archives, cachedHash, stamped, shownArchives>>

\* onChainHashMatch; "unknown" is null.
onChainHashMatch(content) ==
    IF cachedHash = NoHash THEN "unknown" ELSE IF cachedHash = content THEN "matches" ELSE "differs"

\* The hash may be older than the page or newer, and its reading may fail.
Compare(k) ==
    /\ jobs[k].pc = "compare"
    /\ \E match \in {"unknown", onChainHashMatch(jobs[k].content)} :
         jobs' = [jobs EXCEPT ![k] = [pc |-> "store", content |-> @.content, match |-> match]]
    /\ UNCHANGED <<archivings, archives, cachedHash, stamped, shownArchives>>

\* Mutant: an attempt has one row.
RowsOfAttempt(content) == DOMAIN archives

RowsOf(content) == {n \in DOMAIN archives : archives[n].content = content}

\* The upsert: the row of the content is given what was compared now, if anything was.
\* It may fail, which leaves the rows alone.
Upserted(job) ==
    IF RowsOf(job.content) = {}
    THEN Append(archives, [content |-> job.content, match |-> job.match])
    ELSE [n \in DOMAIN archives |->
            IF n \in RowsOf(job.content) /\ job.match # "unknown"
            THEN [archives[n] EXCEPT !.match = job.match] ELSE archives[n]]

Store(k) ==
    /\ jobs[k].pc = "store"
    /\ archives' \in {archives, Upserted(jobs[k])}
    /\ jobs' = RemoveAt(jobs, k)
    /\ UNCHANGED <<archivings, cachedHash, stamped, shownArchives>>

\* The process ends, and the archivings with it.
StopArchiver ==
    /\ jobs # <<>> /\ jobs' = <<>>
    /\ UNCHANGED <<archivings, archives, cachedHash, stamped, shownArchives>>

\* The card is opened; a failed reading leaves it without archives.
OpenCard ==
    /\ shownArchives' \in {<<>>, archives}
    /\ UNCHANGED <<archivings, jobs, archives, cachedHash, stamped>>

ArchiverNext ==
    \/ StartArchiving
    \/ \E k \in DOMAIN jobs : assertSafeUrl(k) \/ requestPinned(k) \/ Compare(k) \/ Store(k)
    \/ StopArchiver
    \/ OpenCard

-----------------------------------------------------------------------------
\* What the card says of an archive was so when it was compared, whichever archivings
\* overlapped or failed: a page that matches was fingerprinted on chain, one that
\* differs is not the only one that was, and a page that could not be fetched matches
\* nothing.  (The latest word need not be about the latest hash.)
ArchiveMarksAreTrue ==
    \A n \in DOMAIN shownArchives :
        LET archive == shownArchives[n] IN
        /\ archive.match = "matches" => archive.content \in stamped
        /\ archive.match = "differs" => stamped \ {archive.content} # {}

=============================================================================
