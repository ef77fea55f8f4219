------------------------- MODULE RateLimiterProofs --------------------------
(***************************************************************************)
(* The four invariants of the rate limiter, for every limit, interval,     *)
(* timeout, number of reads and of faults.                                 *)
(*                                                                         *)
(* A spacing of n slots follows from that of two neighbours by induction   *)
(* on n.  The induction is made along the behaviour instead: SlotsSpread   *)
(* says it of all pairs of slots at once, and appending one slot adds one  *)
(* interval to each.                                                       *)
(***************************************************************************)
EXTENDS RateLimiter, TLAPS

Place == Window \cup {"idle", "minute", "hung", "sleep", "local sleep", "call"}
ReadState == [pc : Place, began : Nat, wake : Nat, abandoned : BOOLEAN]
SlotGiven == [at : Nat, kept : BOOLEAN]
Granted == [redis  : [window : Nat, count : Nat],
            memory : [window : Int, count : Nat]]

RateTypes ==
    /\ now \in Nat
    /\ nextSlot \in [at : Nat, expires : Nat]
    /\ tokens \in [Window -> [bucket : Nat, count : Nat]]
    /\ lastLocalCallAt \in Nat
    /\ localWindowState \in [Window -> [start : Int, count : Nat]]
    /\ reads \in [Read -> ReadState]
    /\ slots \in Seq(SlotGiven)
    /\ grants \in [Window -> Granted]

\* The last slot given out is the one Redis remembers, until the next may follow.
LastSlotRemembered ==
    slots # <<>> =>
        /\ slots[Len(slots)].at = nextSlot.at
        /\ slots[Len(slots)].kept => nextSlot.at + minIntervalMs <= nextSlot.expires

SlotsSpread ==
    \A i \in 1 .. Len(slots) : \A j \in i .. Len(slots) :
        (\A k \in i .. j - 1 : slots[k].kept) =>
            slots[j].at >= slots[i].at + (j - i) * minIntervalMs

\* A window of Redis has let through no more than it counted, and none of a later one.
RedisGrantsCounted ==
    \A w \in Window :
        LET granted == grants[w].redis  key == tokens[w] IN
        /\ granted.count <= limit[w]
        /\ key.bucket <= now \div windowMs[w]
        /\ \/ granted.window < key.bucket
           \/ granted.window = key.bucket /\ granted.count <= key.count

\* Nor has one of memory.
MemoryGrantsCounted ==
    \A w \in Window :
        LET granted == grants[w].memory  state == localWindowState[w] IN
        /\ granted.count <= limit[w]
        /\ state.start <= now
        /\ \/ granted.count = 0
           \/ granted.window < state.start
           \/ granted.window = state.start /\ granted.count <= state.count

RateInv ==
    /\ RateTypes
    /\ LastSlotRemembered
    /\ SlotsSpread
    /\ RedisGrantsCounted
    /\ MemoryGrantsCounted
    /\ ReadersReleased

-----------------------------------------------------------------------------
LEMMA Division ==
    ASSUME NEW a \in Nat, NEW b \in Nat \ {0}
    PROVE  /\ a \div b \in Nat
           /\ a \div b <= (a + 1) \div b
           /\ b * ((a + b - 1) \div b) >= a
  <1>1. a \div b \in Nat
    OBVIOUS
  <1>2. a \div b <= (a + 1) \div b
    OBVIOUS
  <1>3. b * ((a + b - 1) \div b) >= a
    OBVIOUS
  <1> QED BY <1>1, <1>2, <1>3

LEMMA OneMoreInterval ==
    ASSUME NEW k \in Nat, NEW m \in Nat
    PROVE  k * m \in Nat /\ (k + 1) * m = k * m + m
  OBVIOUS

LEMMA Interval ==
    /\ minIntervalMs \in Nat
    /\ GENLAYER_RPC_RATE_LIMIT_PER_MINUTE * minIntervalMs >= MINUTE_MS
  <1> DEFINE n == GENLAYER_RPC_RATE_LIMIT_PER_MINUTE
  <1>1. MINUTE_MS \in Nat /\ n \in Nat \ {0} /\ MINUTE_MS + n - 1 \in Nat
    BY RateAssumption
  <1>2. (MINUTE_MS + n - 1) \div n \in Nat
    BY <1>1, Division
  <1>3. n * ((MINUTE_MS + n - 1) \div n) >= MINUTE_MS
    BY <1>1, Division
  <1> QED BY <1>2, <1>3 DEF minIntervalMs

-----------------------------------------------------------------------------
(* What each part of a step does. *)

LEMMA Reserved ==
    ASSUME RateInv, ReserveSlot
    PROVE  /\ nextSlot' \in [at : Nat, expires : Nat]
           /\ slots' \in Seq(SlotGiven)
           /\ LastSlotRemembered'
           /\ SlotsSpread'
  <1> DEFINE given == [at |-> Slot, kept |-> Slot + minIntervalMs <= now + SLOT_TTL_MS]
             s == Append(slots, given)
  <1>1. RateTypes /\ SLOT_TTL_MS \in Nat /\ minIntervalMs \in Nat
    BY RateAssumption, Interval DEF RateInv
  <1>2. Slot \in Nat
    BY <1>1 DEF RateTypes, Slot, Later
  <1>3. given \in SlotGiven /\ s \in Seq(SlotGiven)
    BY <1>1, <1>2 DEF RateTypes, SlotGiven
  <1>4. nextSlot' = [at |-> Slot, expires |-> now + SLOT_TTL_MS]
    BY DEF ReserveSlot
  <1>5. nextSlot' \in [at : Nat, expires : Nat]
    BY <1>1, <1>2, <1>4 DEF RateTypes
  <1>6. ASSUME slots # <<>>, slots[Len(slots)].kept
        PROVE  Slot >= slots[Len(slots)].at + minIntervalMs
    BY <1>1, <1>6 DEF RateInv, RateTypes, LastSlotRemembered, Slot, Later
  <1>7. ASSUME NEW i \in 1 .. Len(s), NEW j \in i .. Len(s),
               \A k \in i .. j - 1 : s[k].kept
        PROVE  s[j].at >= s[i].at + (j - i) * minIntervalMs
    <2>1. CASE j <= Len(slots)
      <3>1. i \in 1 .. Len(slots) /\ j \in i .. Len(slots)
        BY <1>1, <2>1 DEF RateTypes
      <3>2. \A k \in i .. j : s[k] = slots[k]
        BY <1>1, <3>1 DEF RateTypes
      <3>3. \A k \in i .. j - 1 : slots[k].kept
        BY <1>7, <3>1, <3>2
      <3>4. slots[j].at >= slots[i].at + (j - i) * minIntervalMs
        BY <3>1, <3>3 DEF RateInv, SlotsSpread
      <3> QED BY <3>1, <3>2, <3>4
    <2>2. CASE j = Len(slots) + 1 /\ i = j
      BY <1>1, <1>2, <1>3, <2>2 DEF RateTypes, SlotGiven
    <2>3. CASE j = Len(slots) + 1 /\ i < j
      <3> DEFINE l == Len(slots)
      <3>1. l \in Nat /\ i \in 1 .. l /\ l \in i .. l /\ j = l + 1
        BY <1>1, <2>3 DEF RateTypes
      <3>2. s[j] = given /\ \A k \in i .. l : s[k] = slots[k]
        BY <1>1, <3>1 DEF RateTypes
      <3>3. \A k \in i .. l : slots[k].kept
        BY <1>7, <3>1, <3>2
      <3>4. slots[l].at >= slots[i].at + (l - i) * minIntervalMs
        BY <3>1, <3>3 DEF RateInv, SlotsSpread
      <3>5. Slot >= slots[l].at + minIntervalMs
        BY <1>6, <3>1, <3>3
      <3>6. (l - i) * minIntervalMs \in Nat
            /\ (j - i) * minIntervalMs = (l - i) * minIntervalMs + minIntervalMs
        <4>1. l - i \in Nat /\ j - i = (l - i) + 1
          BY <3>1
        <4> DEFINE k == l - i
        <4> HIDE DEF l, k
        <4>2. k \in Nat /\ j - i = k + 1
          BY <4>1 DEF k
        <4>3. k * minIntervalMs \in Nat /\ (k + 1) * minIntervalMs = k * minIntervalMs + minIntervalMs
          BY <1>1, <4>2, OneMoreInterval
        <4>4. (j - i) * minIntervalMs = k * minIntervalMs + minIntervalMs
          BY <4>2, <4>3
        <4> QED BY <4>3, <4>4 DEF k
      <3>7. slots[l].at \in Nat /\ slots[i].at \in Nat
        <4> HIDE DEF s
        <4>1. slots \in Seq(SlotGiven) /\ l \in 1 .. Len(slots) /\ i \in 1 .. Len(slots)
          BY <1>1, <3>1 DEF RateTypes
        <4>2. slots[l] \in SlotGiven /\ slots[i] \in SlotGiven
          BY <4>1
        <4> QED BY <4>2 DEF SlotGiven
      <3>8. s[j].at = Slot /\ s[i].at = slots[i].at
        BY <3>1, <3>2
      <3> DEFINE before == (l - i) * minIntervalMs
                 after == (j - i) * minIntervalMs
      <3> HIDE DEF before, after, s, l
      <3>9. before \in Nat /\ after = before + minIntervalMs
        BY <3>6 DEF before, after
      <3>10. slots[l].at >= slots[i].at + before
        BY <3>4 DEF before
      <3>11. s[j].at >= s[i].at + after
        BY <1>1, <1>2, <3>5, <3>7, <3>8, <3>9, <3>10
      <3> QED BY <3>11 DEF after
    <2>4. Len(slots) \in Nat /\ Len(s) = Len(slots) + 1
      BY <1>1 DEF RateTypes
    <2> HIDE DEF s
    <2>5. j <= Len(slots) \/ (j = Len(slots) + 1 /\ i = j) \/ (j = Len(slots) + 1 /\ i < j)
      BY <2>4
    <2> QED BY <2>1, <2>2, <2>3, <2>5
  <1>8. slots' = s \/ (slots' = Tail(s) /\ Len(s) > 1)
    <2>1. slots' = LastSlots(s)
      BY DEF ReserveSlot
    <2>2. GENLAYER_RPC_RATE_LIMIT_PER_MINUTE \in Nat
      BY RateAssumption
    <2> HIDE DEF s
    <2>3. Len(s) \in Nat
      BY <1>3
    <2> QED BY <2>1, <2>2, <2>3 DEF LastSlots
  <1>9. slots' \in Seq(SlotGiven) /\ slots' # <<>> /\ slots'[Len(slots')] = given
    <2>1. Len(s) = Len(slots) + 1 /\ s[Len(s)] = given
      BY <1>1, <1>3 DEF RateTypes
    <2> HIDE DEF s, given
    <2> QED BY <1>3, <1>8, <2>1
  <1>10. LastSlotRemembered'
    <2> HIDE DEF given
    <2>1. given.at = Slot /\ (given.kept => Slot + minIntervalMs <= now + SLOT_TTL_MS)
      BY DEF given
    <2>2. nextSlot'.at = Slot /\ nextSlot'.expires = now + SLOT_TTL_MS
      BY <1>4
    <2> QED BY <1>9, <2>1, <2>2 DEF LastSlotRemembered
  <1>11. SlotsSpread'
    <2> HIDE DEF s
    <2>1. CASE slots' = s
      BY <1>7, <2>1 DEF SlotsSpread
    <2>2. CASE slots' = Tail(s) /\ Len(s) > 1
      <3> SUFFICES ASSUME NEW i \in 1 .. Len(slots'), NEW j \in i .. Len(slots'),
                          \A k \in i .. j - 1 : slots'[k].kept
                   PROVE  slots'[j].at >= slots'[i].at + (j - i) * minIntervalMs
        BY DEF SlotsSpread
      <3>1. Len(slots') = Len(s) - 1 /\ \A k \in 1 .. Len(slots') : slots'[k] = s[k + 1]
        BY <1>3, <2>2
      <3>2. Len(s) \in Nat
        BY <1>3
      <3>3. i + 1 \in 1 .. Len(s) /\ j + 1 \in i + 1 .. Len(s) /\ (j + 1) - (i + 1) = j - i
        BY <3>1, <3>2
      <3>4. ASSUME NEW k \in i + 1 .. (j + 1) - 1 PROVE s[k].kept
        <4>1. k - 1 \in i .. j - 1 /\ k - 1 \in 1 .. Len(slots') /\ (k - 1) + 1 = k
          BY <3>1, <3>2
        <4> QED BY <3>1, <4>1
      <3>5. s[j + 1].at >= s[i + 1].at + ((j + 1) - (i + 1)) * minIntervalMs
        BY <1>7, <3>3, <3>4
      <3>6. slots'[i] = s[i + 1] /\ slots'[j] = s[j + 1]
        BY <3>1, <3>2
      <3> QED BY <3>3, <3>5, <3>6
    <2> QED BY <1>8, <2>1, <2>2
  <1> QED BY <1>5, <1>9, <1>10, <1>11

LEMMA ReadSet ==
    ASSUME RateInv, now' = now, NEW r \in Read, NEW read \in ReadState, Set(r, read),
           read.pc # "idle" /\ ~read.abandoned => now <= read.began + READ_TIMEOUT_MS
    PROVE  reads' \in [Read -> ReadState] /\ ReadersReleased'
  <1>1. reads \in [Read -> ReadState] /\ ReadersReleased
    BY DEF RateInv, RateTypes
  <1>2. reads' = [reads EXCEPT ![r] = read]
    BY DEF Set
  <1>3. reads'[r] = read /\ \A q \in Read \ {r} : reads'[q] = reads[q]
    BY <1>1, <1>2
  <1>4. ReadersReleased'
    BY <1>1, <1>3 DEF ReadersReleased
  <1> QED BY <1>1, <1>2, <1>4

LEMMA IdleState == Idle \in ReadState /\ Idle.pc = "idle"
  BY DEF Idle, ReadState, Place

LEMMA Ended ==
    ASSUME RateInv, now' = now, NEW r \in Read, End(r)
    PROVE  reads' \in [Read -> ReadState] /\ ReadersReleased'
  BY ReadSet, IdleState DEF End

LEMMA Waits ==
    ASSUME RateInv, now' = now, NEW r \in Read, reads[r].pc # "idle",
           NEW pc \in Place, NEW wake \in Nat,
           Set(r, [[reads[r] EXCEPT !.pc = pc] EXCEPT !.wake = wake])
    PROVE  reads' \in [Read -> ReadState] /\ ReadersReleased'
  <1> DEFINE read == [[reads[r] EXCEPT !.pc = pc] EXCEPT !.wake = wake]
  <1>1. reads[r] \in ReadState /\ ReadersReleased
    BY DEF RateInv, RateTypes
  <1>2. read \in ReadState /\ read.began = reads[r].began /\ read.abandoned = reads[r].abandoned
    BY <1>1 DEF ReadState
  <1>3. ~read.abandoned => now <= read.began + READ_TIMEOUT_MS
    BY <1>1, <1>2 DEF ReadersReleased
  <1> HIDE DEF read
  <1> QED BY <1>2, <1>3, ReadSet DEF read

LEMMA WentOn ==
    ASSUME RateInv, now' = now, NEW r \in Read, reads[r].pc # "idle", NEW pc \in Place, Go(r, pc)
    PROVE  reads' \in [Read -> ReadState] /\ ReadersReleased'
  <1>1. reads[r] \in ReadState
    BY DEF RateInv, RateTypes
  <1>2. reads[r].wake \in Nat
        /\ [reads[r] EXCEPT !.pc = pc] = [[reads[r] EXCEPT !.pc = pc] EXCEPT !.wake = reads[r].wake]
    BY <1>1 DEF ReadState
  <1> QED BY <1>2, Waits DEF Go

LEMMA Sent ==
    ASSUME RateInv, now' = now, NEW r \in Read, Send(r)
    PROVE  reads' \in [Read -> ReadState] /\ ReadersReleased'
  <1>1. CASE reads[r].abandoned
    BY <1>1, Ended DEF Send
  <1>2. CASE ~reads[r].abandoned
    <2> DEFINE read == [Idle EXCEPT !.pc = "call", !.began = now]
    <2>1. now \in Nat /\ READ_TIMEOUT_MS \in Nat
      BY RateAssumption DEF RateInv, RateTypes
    <2>2. read \in ReadState /\ read.began = now
      BY <2>1 DEF Idle, ReadState, Place
    <2>3. now <= read.began + READ_TIMEOUT_MS /\ Set(r, read)
      BY <1>2, <2>1, <2>2 DEF Send
    <2> HIDE DEF read
    <2> QED BY <2>2, <2>3, ReadSet
  <1> QED BY <1>1, <1>2

-----------------------------------------------------------------------------
(* The fixed windows.  A token may be taken by a call whose reply is lost.  *)

LEMMA TokenTaken ==
    ASSUME RateTypes, NEW w \in Window
    PROVE  LET key == TakeToken(w) IN
           /\ key \in [bucket : Nat, count : Nat]
           /\ key.bucket = now \div windowMs[w]
           /\ key.bucket # tokens[w].bucket => key.count = 1
           /\ key.bucket = tokens[w].bucket => key.count >= tokens[w].count
           /\ key.bucket = tokens[w].bucket /\ ~Exhausted(w, key.count) =>
                key.count = tokens[w].count + 1
  <1>1. tokens[w] \in [bucket : Nat, count : Nat] /\ now \in Nat
        /\ windowMs[w] \in Nat \ {0} /\ limit[w] \in Nat
    BY RateAssumption DEF RateTypes
  <1>2. now \div windowMs[w] \in Nat
    BY <1>1, Division
  <1> DEFINE bucket == now \div windowMs[w]
  <1> HIDE DEF bucket
  <1>3. TakeToken(w) = [bucket |-> bucket,
                        count |-> IF tokens[w].bucket = bucket THEN Counted(w, tokens[w].count) ELSE 1]
    BY DEF TakeToken, bucket
  <1>4. Counted(w, tokens[w].count) \in Nat
    BY <1>1 DEF Counted
  <1>5. TakeToken(w) \in [bucket : Nat, count : Nat]
    BY <1>2, <1>3, <1>4 DEF bucket
  <1>6. TakeToken(w).bucket = bucket
        /\ (bucket # tokens[w].bucket => TakeToken(w).count = 1)
        /\ (bucket = tokens[w].bucket => TakeToken(w).count = Counted(w, tokens[w].count))
    BY <1>3
  <1>7. Counted(w, tokens[w].count) >= tokens[w].count
        /\ (~Exhausted(w, Counted(w, tokens[w].count)) =>
              Counted(w, tokens[w].count) = tokens[w].count + 1)
    BY <1>1 DEF Counted, Exhausted
  <1> QED BY <1>5, <1>6, <1>7 DEF bucket

LEMMA LocalTokenTaken ==
    ASSUME RateTypes, NEW w \in Window, localWindowState[w].start <= now
    PROVE  LET state == TakeLocalToken(w) IN
           /\ state \in [start : Int, count : Nat]
           /\ state.start <= now
           /\ state.start >= localWindowState[w].start
           /\ state.start # localWindowState[w].start => state.count = 1
           /\ state.start = localWindowState[w].start /\ ~Exhausted(w, state.count) =>
                state.count = localWindowState[w].count + 1
           /\ state.count >= 1
  <1>1. localWindowState[w] \in [start : Int, count : Nat] /\ now \in Nat
        /\ windowMs[w] \in Nat \ {0} /\ limit[w] \in Nat
    BY RateAssumption DEF RateTypes
  <1>2. CASE now - localWindowState[w].start >= windowMs[w]
    BY <1>1, <1>2 DEF TakeLocalToken
  <1>3. CASE ~(now - localWindowState[w].start >= windowMs[w])
    BY <1>1, <1>3 DEF TakeLocalToken, Counted, Exhausted
  <1> QED BY <1>2, <1>3

\* The next token of a window of Redis keeps what was let through counted, whether its
\* caller learns of it or not.
LEMMA RedisTaken ==
    ASSUME RateInv, now' = now, NEW w \in Window,
           tokens' = [tokens EXCEPT ![w] = TakeToken(w)],
           \A v \in Window : grants'[v].redis = grants[v].redis
    PROVE  tokens' \in [Window -> [bucket : Nat, count : Nat]] /\ RedisGrantsCounted'
  <1>1. RateTypes /\ RedisGrantsCounted
    BY DEF RateInv
  <1>2. tokens \in [Window -> [bucket : Nat, count : Nat]] /\ grants \in [Window -> Granted]
    BY <1>1 DEF RateTypes
  <1>3. TakeToken(w) \in [bucket : Nat, count : Nat]
    BY <1>1, TokenTaken
  <1>4. tokens'[w] = TakeToken(w) /\ \A v \in Window \ {w} : tokens'[v] = tokens[v]
    BY <1>2
  <1>5. ASSUME NEW v \in Window
        PROVE  LET granted == grants'[v].redis  key == tokens'[v] IN
               /\ granted.count <= limit[v]
               /\ key.bucket <= now \div windowMs[v]
               /\ \/ granted.window < key.bucket
                  \/ granted.window = key.bucket /\ granted.count <= key.count
    <2>1. CASE v # w
      BY <1>1, <1>4, <1>5, <2>1 DEF RedisGrantsCounted
    <2>2. CASE v = w
      <3> DEFINE granted == grants[w].redis  old == tokens[w]  key == TakeToken(w)
      <3>1. granted.window \in Nat /\ granted.count \in Nat
            /\ old.bucket \in Nat /\ old.count \in Nat
            /\ key.bucket \in Nat /\ key.count \in Nat
        BY <1>2, <1>3 DEF Granted
      <3>2. /\ granted.count <= limit[w]
            /\ old.bucket <= now \div windowMs[w]
            /\ \/ granted.window < old.bucket
               \/ granted.window = old.bucket /\ granted.count <= old.count
        BY <1>1 DEF RedisGrantsCounted
      <3>3. key.bucket = now \div windowMs[w]
            /\ (key.bucket = old.bucket => key.count >= old.count)
        BY <1>1, TokenTaken
      <3>4. granted.window < key.bucket
            \/ (granted.window = key.bucket /\ granted.count <= key.count)
        <4> HIDE DEF granted, old, key
        <4> QED BY <3>1, <3>2, <3>3
      <3>5. grants'[v].redis = granted /\ tokens'[v] = key
        BY <1>4, <2>2
      <3>6. key.bucket <= now \div windowMs[w]
        BY <3>1, <3>3
      <3> QED BY <2>2, <3>2, <3>4, <3>5, <3>6
    <2> QED BY <2>1, <2>2
  <1>6. RedisGrantsCounted'
    BY <1>5 DEF RedisGrantsCounted
  <1> QED BY <1>2, <1>3, <1>6

LEMMA RedisGranted ==
    ASSUME RateInv, now' = now, NEW w \in Window,
           tokens' = [tokens EXCEPT ![w] = TakeToken(w)],
           ~Exhausted(w, TakeToken(w).count), Grant(w, "redis", TakeToken(w).bucket)
    PROVE  /\ tokens' \in [Window -> [bucket : Nat, count : Nat]]
           /\ grants' \in [Window -> Granted]
           /\ RedisGrantsCounted'
           /\ \A v \in Window : grants'[v].memory = grants[v].memory
  <1> DEFINE granted == grants[w].redis  old == tokens[w]  key == TakeToken(w)
             more == [window |-> key.bucket,
                      count  |-> IF granted.window = key.bucket THEN granted.count + 1 ELSE 1]
  <1>1. RateTypes /\ RedisGrantsCounted
    BY DEF RateInv
  <1>2. tokens \in [Window -> [bucket : Nat, count : Nat]] /\ grants \in [Window -> Granted]
    BY <1>1 DEF RateTypes
  <1>3. key \in [bucket : Nat, count : Nat]
    BY <1>1, TokenTaken
  <1>4. granted \in [window : Nat, count : Nat] /\ more \in [window : Nat, count : Nat]
    <2> HIDE DEF key
    <2> QED BY <1>2, <1>3 DEF Granted
  <1>5. grants' = [grants EXCEPT ![w].redis = more]
    BY DEF Grant
  <1>6. grants'[w] = [grants[w] EXCEPT !.redis = more]
        /\ \A v \in Window \ {w} : grants'[v] = grants[v]
    <2> HIDE DEF more
    <2> QED BY <1>2, <1>5
  <1>7. grants'[w].redis = more /\ grants'[w].memory = grants[w].memory /\ grants'[w] \in Granted
    <2> HIDE DEF more
    <2> QED BY <1>2, <1>4, <1>6 DEF Granted
  <1>8. tokens'[w] = key /\ \A v \in Window \ {w} : tokens'[v] = tokens[v]
    BY <1>2
  <1>9. more.count <= key.count /\ key.count <= limit[w]
    <2>1. /\ key.bucket = now \div windowMs[w]
          /\ key.bucket # old.bucket => key.count = 1
          /\ key.bucket = old.bucket => key.count = old.count + 1
      BY <1>1, TokenTaken
    <2>2. /\ old.bucket <= now \div windowMs[w]
          /\ \/ granted.window < old.bucket
             \/ granted.window = old.bucket /\ granted.count <= old.count
      BY <1>1 DEF RedisGrantsCounted
    <2>3. old \in [bucket : Nat, count : Nat]
      BY <1>2
    <2>4. limit[w] \in Nat /\ ~(key.count > limit[w])
      BY RateAssumption DEF Exhausted
    <2>5. more.count = IF granted.window = key.bucket THEN granted.count + 1 ELSE 1
      OBVIOUS
    <2> HIDE DEF key, granted, old, more
    <2>6. granted.window \in Nat /\ granted.count \in Nat /\ old.bucket \in Nat
          /\ old.count \in Nat /\ key.bucket \in Nat /\ key.count \in Nat
      BY <1>3, <1>4, <2>3
    <2> QED BY <2>1, <2>2, <2>4, <2>5, <2>6
  <1>10. ASSUME NEW v \in Window
         PROVE  LET given == grants'[v].redis  counted == tokens'[v] IN
                /\ given.count <= limit[v]
                /\ counted.bucket <= now \div windowMs[v]
                /\ \/ given.window < counted.bucket
                   \/ given.window = counted.bucket /\ given.count <= counted.count
    <2>1. CASE v # w
      BY <1>1, <1>6, <1>8, <1>10, <2>1 DEF RedisGrantsCounted
    <2>2. CASE v = w
      <3>1. key.bucket = now \div windowMs[w] /\ more.window = key.bucket
        BY <1>1, TokenTaken
      <3>2. limit[w] \in Nat
        BY RateAssumption
      <3>3. more.count \in Nat /\ key.count \in Nat /\ key.bucket \in Nat
        BY <1>3, <1>4
      <3> HIDE DEF more, key
      <3> QED BY <1>7, <1>8, <1>9, <2>2, <3>1, <3>2, <3>3
    <2> QED BY <2>1, <2>2
  <1>11. RedisGrantsCounted'
    BY <1>10 DEF RedisGrantsCounted
  <1>12. tokens' \in [Window -> [bucket : Nat, count : Nat]]
    <2> HIDE DEF key
    <2> QED BY <1>2, <1>3 DEF key
  <1>13. grants' \in [Window -> Granted]
    <2> HIDE DEF more
    <2> QED BY <1>2, <1>5, <1>6, <1>7
  <1> QED BY <1>6, <1>7, <1>11, <1>12, <1>13

\* The next token of a window of memory, granted or refused.
LEMMA LocalTaken ==
    ASSUME RateInv, now' = now, NEW w \in Window,
           localWindowState' = [localWindowState EXCEPT ![w] = TakeLocalToken(w)],
           \/ grants' = grants
           \/ /\ ~Exhausted(w, TakeLocalToken(w).count)
              /\ Grant(w, "memory", TakeLocalToken(w).start)
    PROVE  /\ localWindowState' \in [Window -> [start : Int, count : Nat]]
           /\ grants' \in [Window -> Granted]
           /\ MemoryGrantsCounted'
           /\ \A v \in Window : grants'[v].redis = grants[v].redis
  <1> DEFINE granted == grants[w].memory  old == localWindowState[w]  state == TakeLocalToken(w)
             more == [window |-> state.start,
                      count  |-> IF granted.window = state.start THEN granted.count + 1 ELSE 1]
  <1>1. RateTypes /\ MemoryGrantsCounted
    BY DEF RateInv
  <1>2. localWindowState \in [Window -> [start : Int, count : Nat]] /\ grants \in [Window -> Granted]
    BY <1>1 DEF RateTypes
  <1>3. old \in [start : Int, count : Nat] /\ granted \in [window : Int, count : Nat]
    BY <1>2 DEF Granted
  <1>4. /\ granted.count <= limit[w]
        /\ old.start <= now
        /\ \/ granted.count = 0
           \/ granted.window < old.start
           \/ granted.window = old.start /\ granted.count <= old.count
    BY <1>1 DEF MemoryGrantsCounted
  <1>5. /\ state \in [start : Int, count : Nat]
        /\ state.start <= now
        /\ state.start >= old.start
        /\ state.start # old.start => state.count = 1
        /\ state.start = old.start /\ ~Exhausted(w, state.count) => state.count = old.count + 1
        /\ state.count >= 1
    BY <1>1, <1>4, LocalTokenTaken
  <1>6. localWindowState'[w] = state
        /\ \A v \in Window \ {w} : localWindowState'[v] = localWindowState[v]
    BY <1>2
  <1>7. localWindowState' \in [Window -> [start : Int, count : Nat]]
    <2> HIDE DEF state
    <2> QED BY <1>2, <1>5 DEF state
  <1>8. limit[w] \in Nat
    BY RateAssumption
  <1>9. CASE grants' = grants
    <2>1. state.start = old.start => state.count >= old.count
      <3> HIDE DEF old, state, granted
      <3>1. old \in [start : Int, count : Nat] /\ now \in Nat /\ windowMs[w] \in Nat \ {0}
        BY <1>1, <1>3, RateAssumption DEF RateTypes
      <3> QED BY <1>8, <3>1 DEF state, old, TakeLocalToken, Counted
    <2>2. \/ granted.count = 0
          \/ granted.window < state.start
          \/ granted.window = state.start /\ granted.count <= state.count
      <3> HIDE DEF old, state, granted
      <3> QED BY <1>3, <1>4, <1>5, <2>1
    <2>3. MemoryGrantsCounted'
      <3> HIDE DEF state
      <3> QED BY <1>1, <1>4, <1>5, <1>6, <1>9, <2>2 DEF MemoryGrantsCounted
    <2> QED BY <1>2, <1>7, <1>9, <2>3
  <1>10. CASE /\ ~Exhausted(w, state.count)
              /\ Grant(w, "memory", state.start)
    <2>1. grants' = [grants EXCEPT ![w].memory = more]
      BY <1>10 DEF Grant
    <2>2. more \in [window : Int, count : Nat] /\ more.window = state.start
      <3> HIDE DEF state, granted
      <3> QED BY <1>3, <1>5
    <2>3. grants'[w] = [grants[w] EXCEPT !.memory = more]
          /\ \A v \in Window \ {w} : grants'[v] = grants[v]
      <3> HIDE DEF more
      <3> QED BY <1>2, <2>1
    <2>4. grants'[w].memory = more /\ grants'[w].redis = grants[w].redis /\ grants'[w] \in Granted
      <3> HIDE DEF more
      <3> QED BY <1>2, <2>2, <2>3 DEF Granted
    <2>5. more.count <= state.count /\ state.count <= limit[w]
      <3>1. more.count = IF granted.window = state.start THEN granted.count + 1 ELSE 1
        OBVIOUS
      <3>2. ~(state.count > limit[w])
        BY <1>10 DEF Exhausted
      <3> HIDE DEF more, state, granted, old
      <3> QED BY <1>3, <1>4, <1>5, <1>8, <1>10, <3>1, <3>2
    <2>6. MemoryGrantsCounted'
      <3> HIDE DEF more, state
      <3>1. more.count \in Nat /\ state.count \in Nat
        BY <1>5, <2>2
      <3>2. more.count <= limit[w]
        BY <1>8, <2>5, <3>1
      <3> QED BY <1>1, <1>5, <1>6, <2>2, <2>3, <2>4, <2>5, <3>2 DEF MemoryGrantsCounted
    <2>7. grants' \in [Window -> Granted]
      <3> HIDE DEF more
      <3> QED BY <1>2, <2>1, <2>3, <2>4
    <2> QED BY <1>7, <2>3, <2>4, <2>6, <2>7
  <1> QED BY <1>9, <1>10

-----------------------------------------------------------------------------
(* Every step keeps the invariant. *)

LEMMA InitRateInv == Init => RateInv
  <1> SUFFICES ASSUME Init PROVE RateInv
    OBVIOUS
  <1>1. /\ windowMs \in [Window -> Nat \ {0}] /\ limit \in [Window -> Nat]
        /\ minIntervalMs \in Nat /\ READ_TIMEOUT_MS \in Nat
    BY RateAssumption, Interval
  <1>2. \A w \in Window : now \div windowMs[w] \in Nat
    BY <1>1, Division DEF Init
  <1>3. RateTypes
    BY <1>1, IdleState DEF Init, RateTypes, Granted
  <1>4. LastSlotRemembered /\ SlotsSpread
    BY DEF Init, LastSlotRemembered, SlotsSpread
  <1>5. RedisGrantsCounted
    BY <1>1, <1>2 DEF Init, RedisGrantsCounted
  <1>6. MemoryGrantsCounted
    BY <1>1 DEF Init, MemoryGrantsCounted
  <1>7. ReadersReleased
    BY IdleState DEF Init, ReadersReleased
  <1> QED BY <1>3, <1>4, <1>5, <1>6, <1>7 DEF RateInv

\* A step in which no window and no slot of Redis is touched.
LEMMA OnlyReads ==
    ASSUME RateInv, now' = now, UNCHANGED <<redis, localWindowState, slots, grants>>,
           lastLocalCallAt' \in Nat, reads' \in [Read -> ReadState], ReadersReleased'
    PROVE  RateInv'
  <1>1. UNCHANGED <<nextSlot, tokens, localWindowState, slots, grants>>
    BY DEF redis
  <1> QED BY <1>1 DEF RateInv, RateTypes, LastSlotRemembered, SlotsSpread,
                      RedisGrantsCounted, MemoryGrantsCounted

LEMMA ThrottleFixedWindowKeeps ==
    ASSUME RateInv, NEW r \in Read, NEW w \in Window, ThrottleFixedWindow(r, w)
    PROVE  RateInv'
  <1>1. /\ reads[r].pc = w
        /\ UNCHANGED <<now, nextSlot, slots>>
        /\ \/ PassRedisWindow(r, w)
           \/ PassLocalWindow(r, w) /\ UNCHANGED tokens
           \/ PassLocalWindow(r, w) /\ tokens' = [tokens EXCEPT ![w] = TakeToken(w)]
    BY DEF ThrottleFixedWindow
  <1>2. reads[r].pc # "idle" /\ After(w) \in Place
    BY <1>1 DEF Window, After, Place
  <1>3. (End(r) \/ Go(r, After(w))) => reads' \in [Read -> ReadState] /\ ReadersReleased'
    BY <1>1, <1>2, Ended, WentOn
  <1>4. LastSlotRemembered' /\ SlotsSpread'
    BY <1>1 DEF RateInv, LastSlotRemembered, SlotsSpread
  <1>5. CASE PassRedisWindow(r, w)
    <2>1. /\ tokens' = [tokens EXCEPT ![w] = TakeToken(w)]
          /\ UNCHANGED <<lastLocalCallAt, localWindowState>>
          /\ End(r) \/ Go(r, After(w))
          /\ \/ UNCHANGED grants
             \/ ~Exhausted(w, TakeToken(w).count) /\ Grant(w, "redis", TakeToken(w).bucket)
      BY <1>5 DEF PassRedisWindow, local
    <2>2. /\ tokens' \in [Window -> [bucket : Nat, count : Nat]]
          /\ grants' \in [Window -> Granted]
          /\ RedisGrantsCounted'
          /\ \A v \in Window : grants'[v].memory = grants[v].memory
      <3>1. CASE UNCHANGED grants
        BY <1>1, <2>1, <3>1, RedisTaken DEF RateInv, RateTypes
      <3>2. CASE ~Exhausted(w, TakeToken(w).count) /\ Grant(w, "redis", TakeToken(w).bucket)
        BY <1>1, <2>1, <3>2, RedisGranted
      <3> QED BY <2>1, <3>1, <3>2
    <2>3. MemoryGrantsCounted'
      BY <1>1, <2>1, <2>2 DEF RateInv, MemoryGrantsCounted
    <2>4. RateTypes'
      BY <1>1, <1>3, <2>1, <2>2 DEF RateInv, RateTypes
    <2> QED BY <1>3, <1>4, <2>1, <2>2, <2>3, <2>4 DEF RateInv
  <1>6. CASE /\ PassLocalWindow(r, w)
             /\ tokens' = tokens \/ tokens' = [tokens EXCEPT ![w] = TakeToken(w)]
    <2>1. /\ localWindowState' = [localWindowState EXCEPT ![w] = TakeLocalToken(w)]
          /\ UNCHANGED lastLocalCallAt
          /\ End(r) \/ Go(r, After(w))
          /\ \/ grants' = grants
             \/ /\ ~Exhausted(w, TakeLocalToken(w).count)
                /\ Grant(w, "memory", TakeLocalToken(w).start)
      BY <1>6 DEF PassLocalWindow
    <2>2. /\ localWindowState' \in [Window -> [start : Int, count : Nat]]
          /\ grants' \in [Window -> Granted]
          /\ MemoryGrantsCounted'
          /\ \A v \in Window : grants'[v].redis = grants[v].redis
      BY <1>1, <2>1, LocalTaken
    <2>3. tokens' \in [Window -> [bucket : Nat, count : Nat]] /\ RedisGrantsCounted'
      <3>1. CASE tokens' = tokens
        BY <1>1, <2>2, <3>1 DEF RateInv, RateTypes, RedisGrantsCounted
      <3>2. CASE tokens' = [tokens EXCEPT ![w] = TakeToken(w)]
        BY <1>1, <2>2, <3>2, RedisTaken
      <3> QED BY <1>6, <3>1, <3>2
    <2>4. RateTypes'
      BY <1>1, <1>3, <2>1, <2>2, <2>3 DEF RateInv, RateTypes
    <2> QED BY <1>3, <1>4, <2>1, <2>2, <2>3, <2>4 DEF RateInv
  <1> QED BY <1>1, <1>5, <1>6

LEMMA LocalSlotType == RateTypes => LocalSlot \in Nat
  BY Interval DEF RateTypes, LocalSlot, Later

LEMMA PacedLocally ==
    ASSUME RateInv, now' = now, NEW r \in Read, reads[r].pc # "idle", PaceLocally(r)
    PROVE  lastLocalCallAt' \in Nat /\ reads' \in [Read -> ReadState] /\ ReadersReleased'
  <1>1. now \in Nat /\ lastLocalCallAt \in Nat /\ LocalSlot \in Nat
    BY LocalSlotType DEF RateInv, RateTypes
  <1>2. CASE Set(r, [reads[r] EXCEPT !.pc = "local sleep", !.wake = LocalSlot]) /\ UNCHANGED lastLocalCallAt
    BY <1>1, <1>2, Waits DEF Place
  <1>3. CASE lastLocalCallAt' = now /\ Send(r)
    BY <1>1, <1>3, Sent
  <1> QED BY <1>2, <1>3 DEF PaceLocally

LEMMA ThrottleMinuteWindowKeeps ==
    ASSUME RateInv, NEW r \in Read, ThrottleMinuteWindow(r)
    PROVE  RateInv'
  <1>1. /\ reads[r].pc = "minute"
        /\ UNCHANGED <<now, tokens, localWindowState, grants>>
        /\ \/ /\ ReserveSlot /\ UNCHANGED lastLocalCallAt
              /\ Set(r, [reads[r] EXCEPT !.pc = "sleep", !.wake = Slot]) \/ Send(r)
           \/ PaceLocally(r) /\ UNCHANGED <<nextSlot, slots>>
           \/ PaceLocally(r) /\ ReserveSlot
    BY DEF ThrottleMinuteWindow
  <1>2. RedisGrantsCounted' /\ MemoryGrantsCounted'
    BY <1>1 DEF RateInv, RedisGrantsCounted, MemoryGrantsCounted
  <1>3. lastLocalCallAt' \in Nat /\ reads' \in [Read -> ReadState] /\ ReadersReleased'
    <2>1. lastLocalCallAt \in Nat /\ Slot \in Nat
      BY Interval DEF RateInv, RateTypes, Slot, Later
    <2>2. CASE /\ UNCHANGED lastLocalCallAt
               /\ Set(r, [reads[r] EXCEPT !.pc = "sleep", !.wake = Slot]) \/ Send(r)
      BY <1>1, <2>1, <2>2, Waits, Sent DEF Place
    <2>3. CASE PaceLocally(r)
      BY <1>1, <2>3, PacedLocally
    <2> QED BY <1>1, <2>2, <2>3
  <1>4. /\ nextSlot' \in [at : Nat, expires : Nat]
        /\ slots' \in Seq(SlotGiven)
        /\ LastSlotRemembered'
        /\ SlotsSpread'
    <2>1. CASE ReserveSlot
      BY <2>1, Reserved
    <2>2. CASE UNCHANGED <<nextSlot, slots>>
      BY <2>2 DEF RateInv, RateTypes, LastSlotRemembered, SlotsSpread
    <2> QED BY <1>1, <2>1, <2>2
  <1>5. RateTypes'
    BY <1>1, <1>3, <1>4 DEF RateInv, RateTypes
  <1> QED BY <1>2, <1>3, <1>4, <1>5 DEF RateInv

LEMMA TickKeeps ==
    ASSUME RateInv, Tick
    PROVE  RateInv'
  <1>1. /\ now' = now + 1 /\ now' \in Nat
        /\ UNCHANGED <<nextSlot, tokens, lastLocalCallAt, localWindowState, reads, slots, grants>>
        /\ \A r \in Read : ~TimerDue(r)
    BY DEF Tick, redis, local, history, RateInv, RateTypes
  <1>2. RateTypes'
    BY <1>1 DEF RateInv, RateTypes
  <1>3. LastSlotRemembered' /\ SlotsSpread'
    BY <1>1 DEF RateInv, LastSlotRemembered, SlotsSpread
  <1>4. RedisGrantsCounted'
    <2>1. ASSUME NEW w \in Window PROVE tokens[w].bucket <= now' \div windowMs[w]
      <3>1. now \in Nat /\ windowMs[w] \in Nat \ {0} /\ tokens[w].bucket \in Nat
        BY RateAssumption DEF RateInv, RateTypes
      <3>2. now \div windowMs[w] \in Nat /\ now' \div windowMs[w] \in Nat
            /\ now \div windowMs[w] <= now' \div windowMs[w]
        BY <1>1, <3>1, Division
      <3>3. tokens[w].bucket <= now \div windowMs[w]
        BY DEF RateInv, RedisGrantsCounted
      <3> QED BY <3>1, <3>2, <3>3
    <2> QED BY <1>1, <2>1 DEF RateInv, RedisGrantsCounted
  <1>5. MemoryGrantsCounted'
    BY <1>1 DEF RateInv, RateTypes, MemoryGrantsCounted
  <1>6. ReadersReleased'
    <2>1. READ_TIMEOUT_MS \in Nat /\ now \in Nat /\ \A r \in Read : reads[r] \in ReadState
      BY RateAssumption DEF RateInv, RateTypes
    <2> QED BY <1>1, <2>1 DEF ReadersReleased, TimerDue, TimerRuns, ReadState
  <1> QED BY <1>2, <1>3, <1>4, <1>5, <1>6 DEF RateInv

LEMMA ReadStepsKeep ==
    ASSUME RateInv, NEW r \in Read,
           StartRead(r) \/ Hang(r) \/ WakeUp(r) \/ AnswerRead(r) \/ Timeout(r)
    PROVE  RateInv'
  <1>1. now' = now /\ UNCHANGED <<redis, localWindowState, slots, grants>>
    BY DEF StartRead, Hang, WakeUp, AnswerRead, Timeout, local, history
  <1>2. reads[r] \in ReadState /\ lastLocalCallAt \in Nat /\ now \in Nat /\ READ_TIMEOUT_MS \in Nat
    BY RateAssumption DEF RateInv, RateTypes
  <1>3. CASE StartRead(r)
    <2> DEFINE read == [Idle EXCEPT !.pc = "daily", !.began = now]
    <2>1. read \in ReadState /\ read.began = now
      BY <1>2 DEF Idle, ReadState, Place, Window
    <2>2. Set(r, read) /\ UNCHANGED lastLocalCallAt
      BY <1>3 DEF StartRead, local
    <2> HIDE DEF read
    <2>3. now <= read.began + READ_TIMEOUT_MS
      BY <1>2, <2>1
    <2>4. reads' \in [Read -> ReadState] /\ ReadersReleased'
      BY <1>1, <2>1, <2>2, <2>3, ReadSet
    <2> QED BY <1>1, <1>2, <2>2, <2>4, OnlyReads
  <1>4. CASE Hang(r)
    <2>1. reads[r].pc # "idle" /\ Go(r, "hung") /\ UNCHANGED lastLocalCallAt
      BY <1>4 DEF Hang, Window, local
    <2>2. reads' \in [Read -> ReadState] /\ ReadersReleased'
      BY <1>1, <2>1, WentOn DEF Place
    <2> QED BY <1>1, <1>2, <2>1, <2>2, OnlyReads
  <1>5. CASE WakeUp(r)
    <2>1. Send(r) /\ lastLocalCallAt' \in {lastLocalCallAt, reads[r].wake}
      BY <1>5 DEF WakeUp
    <2>2. lastLocalCallAt' \in Nat
      BY <1>2, <2>1 DEF ReadState
    <2> QED BY <1>1, <2>1, <2>2, Sent, OnlyReads
  <1>6. CASE AnswerRead(r)
    <2>1. End(r) /\ UNCHANGED lastLocalCallAt
      BY <1>6 DEF AnswerRead, local
    <2> QED BY <1>1, <1>2, <2>1, Ended, OnlyReads
  <1>7. CASE Timeout(r)
    <2> DEFINE read == [reads[r] EXCEPT !.abandoned = TRUE, !.began = 0]
    <2>1. (End(r) \/ Set(r, read)) /\ UNCHANGED lastLocalCallAt
      BY <1>7 DEF Timeout, local
    <2>2. read \in ReadState /\ read.abandoned
      BY <1>2 DEF ReadState
    <2> HIDE DEF read
    <2>3. reads' \in [Read -> ReadState] /\ ReadersReleased'
      BY <1>1, <2>1, <2>2, Ended, ReadSet
    <2> QED BY <1>1, <1>2, <2>1, <2>3, OnlyReads
  <1> QED BY <1>3, <1>4, <1>5, <1>6, <1>7

LEMMA StutterKeeps ==
    ASSUME RateInv, UNCHANGED vars
    PROVE  RateInv'
  <1>1. now' = now /\ reads' = reads /\ lastLocalCallAt' = lastLocalCallAt
        /\ UNCHANGED <<redis, localWindowState, slots, grants>>
    BY DEF vars, local, history
  <1>2. lastLocalCallAt' \in Nat /\ reads' \in [Read -> ReadState] /\ ReadersReleased'
    BY <1>1 DEF RateInv, RateTypes, ReadersReleased
  <1> QED BY <1>1, <1>2, OnlyReads

LEMMA NextKeepsRateInv == RateInv /\ [Next]_vars => RateInv'
  BY ThrottleFixedWindowKeeps, ThrottleMinuteWindowKeeps, ReadStepsKeep, TickKeeps, StutterKeeps
  DEF Next

LEMMA RateInvariant == Spec => []RateInv
  BY InitRateInv, NextKeepsRateInv, PTL DEF Spec

-----------------------------------------------------------------------------
\* What the scripts are for: two slots in a row are an interval apart, however reads
\* interleave, fail, hang, lose their replies or are given up, as long as the key of
\* the first outlives it.
THEOREM Slots == Spec => []SlotsSpaced
  <1>1. RateInv => SlotsSpaced
    <2> SUFFICES ASSUME RateInv, NEW i \in 1 .. Len(slots) - 1, slots[i].kept
                 PROVE  slots[i + 1].at >= slots[i].at + minIntervalMs
      BY DEF SlotsSpaced
    <2>1. Len(slots) \in Nat /\ slots \in Seq(SlotGiven)
      BY DEF RateInv, RateTypes
    <2>2. i \in 1 .. Len(slots) /\ i + 1 \in i .. Len(slots) /\ (i + 1) - i = 1
          /\ \A k \in i .. (i + 1) - 1 : k = i
      BY <2>1
    <2>3. slots[i + 1].at >= slots[i].at + ((i + 1) - i) * minIntervalMs
      BY <2>2 DEF RateInv, SlotsSpread
    <2>4. 1 * minIntervalMs = minIntervalMs
      BY Interval
    <2> QED BY <2>2, <2>3, <2>4
  <1> QED BY <1>1, RateInvariant, PTL

\* And so no span shorter than a minute holds more slots than the limit, for every
\* limit, whether it divides the minute or not: the interval is rounded up.
THEOREM MinuteBudget == Spec => []MinuteBudgetKept
  <1>1. RateInv => MinuteBudgetKept
    <2> DEFINE n == GENLAYER_RPC_RATE_LIMIT_PER_MINUTE
    <2> SUFFICES ASSUME RateInv, NEW i \in 1 .. Len(slots) - n, \A j \in i .. i + n : slots[j].kept
                 PROVE  slots[i + n].at >= slots[i].at + MINUTE_MS
      BY DEF MinuteBudgetKept
    <2>1. n \in Nat /\ MINUTE_MS \in Nat /\ minIntervalMs \in Nat
      BY RateAssumption, Interval
    <2>2. slots \in Seq(SlotGiven) /\ Len(slots) \in Nat
      BY DEF RateInv, RateTypes
    <2> HIDE DEF n
    <2>3. i \in 1 .. Len(slots) /\ i + n \in i .. Len(slots) /\ (i + n) - i = n
          /\ \A k \in i .. (i + n) - 1 : k \in i .. i + n
      BY <2>1, <2>2
    <2>4. slots[i + n].at >= slots[i].at + ((i + n) - i) * minIntervalMs
      BY <2>3 DEF RateInv, SlotsSpread
    <2> DEFINE spread == n * minIntervalMs
    <2>5. spread \in Nat /\ spread >= MINUTE_MS
      BY <2>1, Interval, OneMoreInterval DEF n
    <2>6. slots[i + n].at >= slots[i].at + spread
      BY <2>3, <2>4
    <2>7. slots[i + n].at \in Nat /\ slots[i].at \in Nat
      <3>1. slots[i] \in SlotGiven /\ slots[i + n] \in SlotGiven
        BY <2>2, <2>3
      <3> QED BY <3>1 DEF SlotGiven
    <2> HIDE DEF spread
    <2> QED BY <2>1, <2>5, <2>6, <2>7
  <1> QED BY <1>1, RateInvariant, PTL

\* Neither the windows of Redis nor those of memory let through more than their limit,
\* whatever is refused later on and whichever replies are lost.
THEOREM WindowBudgets == Spec => []WindowBudgetsKept
  <1>1. RateInv => WindowBudgetsKept
    BY DEF RateInv, RedisGrantsCounted, MemoryGrantsCounted, WindowBudgetsKept
  <1> QED BY <1>1, RateInvariant, PTL

\* No reader waits longer than its timeout for one of the two things it waits for.
THEOREM Released == Spec => []ReadersReleased
  <1>1. RateInv => ReadersReleased
    BY DEF RateInv
  <1> QED BY <1>1, RateInvariant, PTL

=============================================================================
