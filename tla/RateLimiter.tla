---------------------------- MODULE RateLimiter ----------------------------
(***************************************************************************)
(* The pacing of outbound GenLayer reads: apps/api/src/lib/rate-limiter.ts *)
(* and the readContract of apps/api/src/lib/genlayer.ts around it.         *)
(*                                                                         *)
(* A read passes three gates, one token of the day, one of the hour and a  *)
(* slot of the minute, each an evaluation of a script in Redis or, when    *)
(* there is no Redis or the evaluation fails, a computation in memory.     *)
(* Every evaluation is a step, so reads interleave at each.  An evaluation *)
(* may fail before or after it took effect, or hang.  The reader is        *)
(* released by a timer when a gate or the call takes too long; the         *)
(* promise it leaves behind goes on taking its tokens and its slot.        *)
(*                                                                         *)
(* Time is that of Date.now(), one clock for Redis and the process; timers *)
(* fire when they are due.  The keys of the fixed windows outlive their    *)
(* window (PEXPIRE after the first INCR), so their expiry is not modelled. *)
(***************************************************************************)
EXTENDS Integers, Sequences

CONSTANTS
    Read,               \* reads under way, those abandoned included
    MaxFaults,          \* bound: evaluations that fail
    MINUTE_MS,          \* 60 000
    GENLAYER_RPC_RATE_LIMIT_PER_MINUTE,
    windowMs,           \* length of the daily and the hourly window
    limit,              \* tokens of either
    SLOT_TTL_MS,
    READ_TIMEOUT_MS,
    MaxTime             \* bound: the clock stops here

Window == {"daily", "hourly"}

ASSUME RateAssumption ==
    /\ {MINUTE_MS, GENLAYER_RPC_RATE_LIMIT_PER_MINUTE} \subseteq Nat \ {0}
    /\ windowMs \in [Window -> Nat \ {0}] /\ limit \in [Window -> Nat]
    /\ {SLOT_TTL_MS, READ_TIMEOUT_MS, MaxTime, MaxFaults} \subseteq Nat

VARIABLES
    REDIS_URL,          \* whether Redis is configured, once and for all
    now,                \* Date.now()
    nextSlot,           \* Redis: the minute key, 0 when it is not there, and when it expires
    tokens,             \* Redis: the newest key of either fixed window and its count
    lastLocalCallAt,
    localWindowState,
    reads,              \* where each read is
    faults,             \* evaluations that failed
    slots,              \* history: the last slots Redis gave out, and whether it will
                        \* remember each until the next one may follow
    grants              \* history: reads let through by either window of Redis and of memory

redis == <<nextSlot, tokens>>
local == <<lastLocalCallAt, localWindowState>>
history == <<slots, grants>>
vars == <<REDIS_URL, now, redis, local, reads, faults, history>>

\* Mutant: rounded down.
minIntervalMsFloor == MINUTE_MS \div GENLAYER_RPC_RATE_LIMIT_PER_MINUTE

minIntervalMs ==
    (MINUTE_MS + GENLAYER_RPC_RATE_LIMIT_PER_MINUTE - 1) \div GENLAYER_RPC_RATE_LIMIT_PER_MINUTE

Idle == [pc |-> "idle", began |-> 0, wake |-> 0, abandoned |-> FALSE]

Init ==
    /\ REDIS_URL \in BOOLEAN
    /\ now = minIntervalMs
    /\ nextSlot = [at |-> 0, expires |-> 0]
    /\ tokens = [w \in Window |-> [bucket |-> 0, count |-> 0]]
    /\ lastLocalCallAt = 0
    /\ localWindowState = [w \in Window |-> [start |-> -windowMs[w], count |-> 0]]
    /\ reads = [r \in Read |-> Idle]
    /\ faults = 0
    /\ slots = <<>>
    /\ grants = [w \in Window |-> [redis  |-> [window |-> 0, count |-> 0],
                                  memory |-> [window |-> 0, count |-> 0]]]

Set(r, read) == reads' = [reads EXCEPT ![r] = read]
Go(r, pc) == Set(r, [reads[r] EXCEPT !.pc = pc])
After(w) == IF w = "daily" THEN "hourly" ELSE "minute"

\* A gate refuses (RateLimitExhaustedError) or the call has its answer.
End(r) == Set(r, Idle)

\* The gates are passed: readContract sends the call, unless its reader has left.
Send(r) ==
    IF reads[r].abandoned THEN End(r)
    ELSE Set(r, [Idle EXCEPT !.pc = "call", !.began = now])

StartRead(r) ==
    /\ reads[r] = Idle
    /\ Set(r, [Idle EXCEPT !.pc = "daily", !.began = now])
    /\ UNCHANGED <<REDIS_URL, now, redis, local, faults, history>>

\* An evaluation that fails, which sends the caller to the computation in memory.
EvaluationFails ==
    /\ REDIS_URL
    /\ faults < MaxFaults
    /\ faults' = faults + 1

NoRedis == ~REDIS_URL /\ UNCHANGED faults

-----------------------------------------------------------------------------
(* The fixed windows. *)

\* Mutant: compared before counting.
ExhaustedBefore(w, count) == count - 1 > limit[w]

Exhausted(w, count) == count > limit[w]

\* Counting stops one above the limit: nothing tells larger counts apart.
Counted(w, count) == IF count > limit[w] + 1 THEN count ELSE count + 1

\* RESERVE_FIXED_WINDOW_TOKEN_SCRIPT
TakeToken(w) ==
    LET bucket == now \div windowMs[w] IN
    [bucket |-> bucket,
     count  |-> IF tokens[w].bucket = bucket THEN Counted(w, tokens[w].count) ELSE 1]

\* The budget in memory, with a window that begins at the first call in it.
TakeLocalToken(w) ==
    IF now - localWindowState[w].start >= windowMs[w]
    THEN [start |-> now, count |-> 1]
    ELSE [localWindowState[w] EXCEPT !.count = Counted(w, @)]

Grant(w, store, window) ==
    grants' = [grants EXCEPT ![w][store] =
                 [window |-> window, count |-> IF @.window = window THEN @.count + 1 ELSE 1]]

PassRedisWindow(r, w) ==
    LET key == TakeToken(w) IN
    /\ tokens' = [tokens EXCEPT ![w] = key]
    /\ IF Exhausted(w, key.count)
       THEN End(r) /\ UNCHANGED grants
       ELSE Go(r, After(w)) /\ Grant(w, "redis", key.bucket)
    /\ UNCHANGED local

PassLocalWindow(r, w) ==
    LET state == TakeLocalToken(w) IN
    /\ localWindowState' = [localWindowState EXCEPT ![w] = state]
    /\ IF Exhausted(w, state.count)
       THEN End(r) /\ UNCHANGED grants
       ELSE Go(r, After(w)) /\ Grant(w, "memory", state.start)
    /\ UNCHANGED lastLocalCallAt

ThrottleFixedWindow(r, w) ==
    /\ reads[r].pc = w
    /\ \/ REDIS_URL /\ PassRedisWindow(r, w) /\ UNCHANGED faults
       \/ /\ EvaluationFails \/ NoRedis
          /\ PassLocalWindow(r, w)
          /\ UNCHANGED tokens
       \/ /\ EvaluationFails   \* its reply is lost
          /\ PassLocalWindow(r, w)
          /\ tokens' = [tokens EXCEPT ![w] = TakeToken(w)]
    /\ UNCHANGED <<REDIS_URL, now, nextSlot, slots>>

-----------------------------------------------------------------------------
(* The slots of the minute. *)

Later(a, b) == IF a > b THEN a ELSE b

\* Mutant: the queue of slots already given out is ignored.
SlotAfterNow == now + minIntervalMs

\* RESERVE_SLOT_SCRIPT: the slot after the last one, or now when that has passed or
\* the key has expired.  The caller sleeps until the slot.
Slot == Later(now, (IF now < nextSlot.expires THEN nextSlot.at ELSE 0) + minIntervalMs)

\* As many as a minute has, and one more.
LastSlots(s) ==
    IF Len(s) > GENLAYER_RPC_RATE_LIMIT_PER_MINUTE + 1 THEN Tail(s) ELSE s

ReserveSlot ==
    /\ nextSlot' = [at |-> Slot, expires |-> now + SLOT_TTL_MS]
    /\ slots' = LastSlots(Append(slots, [at |-> Slot, kept |-> Slot + minIntervalMs <= now + SLOT_TTL_MS]))

LocalSlot == Later(now, lastLocalCallAt + minIntervalMs)

\* The slot in memory is written when the sleep is over.
PaceLocally(r) ==
    IF LocalSlot > now
    THEN /\ Set(r, [reads[r] EXCEPT !.pc = "local sleep", !.wake = LocalSlot])
         /\ UNCHANGED lastLocalCallAt
    ELSE /\ lastLocalCallAt' = now
         /\ Send(r)

ThrottleMinuteWindow(r) ==
    /\ reads[r].pc = "minute"
    /\ \/ /\ REDIS_URL
          /\ ReserveSlot
          /\ IF Slot > now
             THEN Set(r, [reads[r] EXCEPT !.pc = "sleep", !.wake = Slot])
             ELSE Send(r)
          /\ UNCHANGED <<lastLocalCallAt, faults>>
       \/ /\ EvaluationFails \/ NoRedis
          /\ PaceLocally(r)
          /\ UNCHANGED <<nextSlot, slots>>
       \/ /\ EvaluationFails
          /\ PaceLocally(r)
          /\ ReserveSlot
    /\ UNCHANGED <<REDIS_URL, now, tokens, localWindowState, grants>>

\* A connection that neither answers nor closes.
Hang(r) ==
    /\ EvaluationFails
    /\ reads[r].pc \in Window \cup {"minute"}
    /\ Go(r, "hung")
    /\ UNCHANGED <<REDIS_URL, now, redis, local, history>>

Due(r) == reads[r].pc \in {"sleep", "local sleep"} /\ now >= reads[r].wake

WakeUp(r) ==
    /\ Due(r)
    /\ IF reads[r].pc = "local sleep"
       THEN lastLocalCallAt' = reads[r].wake
       ELSE UNCHANGED lastLocalCallAt
    /\ Send(r)
    /\ UNCHANGED <<REDIS_URL, now, redis, localWindowState, faults, history>>

-----------------------------------------------------------------------------
(* readContract. *)

AnswerRead(r) ==
    /\ reads[r].pc = "call"
    /\ End(r)
    /\ UNCHANGED <<REDIS_URL, now, redis, local, faults, history>>

\* Mutant: only the call itself is guarded by a timer.
TimerRunsOnCall(r) == reads[r].pc = "call"

TimerRuns(r) == reads[r].pc # "idle" /\ ~reads[r].abandoned

TimerDue(r) == TimerRuns(r) /\ now >= reads[r].began + READ_TIMEOUT_MS

\* withTimeout rejects.  A hung call or evaluation keeps nothing but its socket.
Timeout(r) ==
    /\ TimerDue(r)
    /\ IF reads[r].pc \in {"call", "hung"}
       THEN End(r)
       ELSE Set(r, [reads[r] EXCEPT !.abandoned = TRUE, !.began = 0])
    /\ UNCHANGED <<REDIS_URL, now, redis, local, faults, history>>

Tick ==
    /\ now < MaxTime
    /\ \A r \in Read : ~Due(r) /\ ~TimerDue(r)
    /\ now' = now + 1
    /\ UNCHANGED <<REDIS_URL, redis, local, reads, faults, history>>

Next ==
    \/ \E r \in Read :
         \/ StartRead(r)
         \/ \E w \in Window : ThrottleFixedWindow(r, w)
         \/ ThrottleMinuteWindow(r)
         \/ Hang(r)
         \/ WakeUp(r)
         \/ AnswerRead(r)
         \/ Timeout(r)
    \/ Tick

Spec == Init /\ [][Next]_vars

-----------------------------------------------------------------------------
\* Slots are given out at least one interval apart, whoever asks, whichever replies
\* are lost and whoever gave up waiting, unless the key of a slot far ahead expires
\* before the slot has passed.  (RESERVE_SLOT_SCRIPT)
SlotsSpaced ==
    \A i \in 1 .. Len(slots) - 1 :
        slots[i].kept => slots[i + 1].at >= slots[i].at + minIntervalMs

\* So no minute, wherever it begins, has more slots than the limit.
MinuteBudgetKept ==
    LET n == GENLAYER_RPC_RATE_LIMIT_PER_MINUTE IN
    \A i \in 1 .. Len(slots) - n :
        (\A j \in i .. i + n : slots[j].kept) =>
            slots[i + n].at >= slots[i].at + MINUTE_MS

\* No window lets through more reads than its limit, neither Redis' nor memory's,
\* although reads are refused by the second window after passing the first.
WindowBudgetsKept ==
    \A w \in Window : grants[w].redis.count <= limit[w] /\ grants[w].memory.count <= limit[w]

\* A reader is never held longer than the timeout by one of its two waits, whatever
\* hangs: the poll that awaits it goes on.  (genlayer.ts, at READ_TIMEOUT_MS)
ReadersReleased ==
    \A r \in Read :
        reads[r].pc # "idle" /\ ~reads[r].abandoned => now <= reads[r].began + READ_TIMEOUT_MS

=============================================================================
