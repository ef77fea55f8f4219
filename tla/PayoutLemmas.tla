---------------------------- MODULE PayoutLemmas ----------------------------
(***************************************************************************)
(* The operators of PayoutMath, for every denominator, bucket width and    *)
(* highest fee: what the proofs about settlements need of them.            *)
(*                                                                         *)
(* Products are given names and hidden once the facts about them that the  *)
(* rest needs are proved, so that every other step is linear.              *)
(***************************************************************************)
EXTENDS PayoutMath, TLAPS

LEMMA Division ==
    ASSUME NEW n \in Nat, NEW d \in Nat \ {0}
    PROVE  /\ n \div d \in Nat
           /\ d * (n \div d) <= n
           /\ n < d * (n \div d) + d
           /\ n % d = n - d * (n \div d)
  <1>1. n \div d \in Nat
    OBVIOUS
  <1>2. d * (n \div d) <= n /\ n < d * (n \div d) + d
    OBVIOUS
  <1>3. n % d = n - d * (n \div d)
    OBVIOUS
  <1> QED BY <1>1, <1>2, <1>3

\* Multiples of a width are a width apart.
LEMMA Multiples ==
    ASSUME NEW d \in Nat \ {0}, NEW j \in Int, NEW k \in Int, j < k
    PROVE  d * j \in Int /\ d * k \in Int /\ d * j + d <= d * k
  <1>1. d * (k - j) >= d
    BY k - j >= 1
  <1>2. d * (k - j) = d * k - d * j
    OBVIOUS
  <1> QED BY <1>1, <1>2

\* Rounding ends at most half a width away, and at an even multiple when exactly half.
LEMMA Rounding ==
    ASSUME NEW n \in Nat, NEW d \in Nat \ {0}
    PROVE  LET q == RoundHalfEven(n, d) IN
           /\ q \in Nat
           /\ 2 * n <= 2 * (d * q) + d
           /\ 2 * (d * q) <= 2 * n + d
           /\ 2 * n = 2 * (d * q) + d \/ 2 * (d * q) = 2 * n + d => q % 2 = 0
  <1> DEFINE quotient == n \div d  low == d * quotient  q == RoundHalfEven(n, d)
  <1>1. quotient \in Nat /\ low <= n /\ n < low + d /\ n % d = n - low /\ low \in Nat
    <2>1. quotient \in Nat /\ low <= n /\ n < low + d /\ n % d = n - low
      BY Division
    <2>2. \A k \in Nat : d * k \in Nat
      OBVIOUS
    <2> HIDE DEF quotient
    <2> QED BY <2>1, <2>2
  <1>2. d * (quotient + 1) = low + d
    BY <1>1
  <1>3. q = IF 2 * (n % d) < d \/ (2 * (n % d) = d /\ quotient % 2 = 0)
            THEN quotient ELSE quotient + 1
    BY DEF RoundHalfEven
  <1>4. CASE 2 * (n % d) < d \/ (2 * (n % d) = d /\ quotient % 2 = 0)
    <2>1. q = quotient /\ d * q = low
      BY <1>3, <1>4
    <2> HIDE DEF low, quotient, q
    <2> QED BY <1>1, <1>4, <2>1 DEF q
  <1>5. CASE ~(2 * (n % d) < d \/ (2 * (n % d) = d /\ quotient % 2 = 0))
    <2>1. q = quotient + 1 /\ d * q = low + d
      BY <1>2, <1>3, <1>5
    <2>2. quotient % 2 # 0 => (quotient + 1) % 2 = 0
      BY <1>1
    <2> HIDE DEF low, quotient, q
    <2> QED BY <1>1, <1>5, <2>1, <2>2 DEF q
  <1> QED BY <1>4, <1>5

LEMMA Widths ==
    LET m == BPS_DENOMINATOR \div PAYOUT_BUCKET_BPS IN
    /\ BPS_DENOMINATOR \in Nat \ {0} /\ PAYOUT_BUCKET_BPS \in Nat \ {0}
    /\ m \in Nat /\ m >= 2
    /\ BPS_DENOMINATOR = PAYOUT_BUCKET_BPS * m
  <1> DEFINE D == BPS_DENOMINATOR  P == PAYOUT_BUCKET_BPS  m == D \div P
  <1>1. D \in Nat \ {0} /\ P \in Nat \ {0} /\ D % P = 0 /\ 2 * P <= D
    BY BucketAssumption
  <1>2. m \in Nat /\ P * m <= D /\ D % P = D - P * m
    BY <1>1, Division
  <1>3. P * m = D
    BY <1>1, <1>2
  <1>4. m >= 2
    <2> SUFFICES ASSUME m < 2 PROVE FALSE
      BY <1>2
    <2>1. P * m + P <= P * 2
      BY <1>1, <1>2, Multiples
    <2> HIDE DEF m
    <2> QED BY <1>1, <1>3, <2>1
  <1> QED BY <1>1, <1>2, <1>3, <1>4

-----------------------------------------------------------------------------
(* Buckets. *)

LEMMA BucketOnGrid ==
    ASSUME NEW bps \in Nat
    PROVE  LET D == BPS_DENOMINATOR  P == PAYOUT_BUCKET_BPS  m == D \div P
               c == Clamp(0, bps, D)
               q == RoundHalfEven(c, P)
               k == Clamp(1, q, m - 1)
           IN  /\ c \in Nat /\ c <= D /\ c <= bps /\ (c # bps => c = D)
               /\ q \in Nat
               /\ k \in 1 .. m - 1
               /\ Bucket(bps) = P * k
  <1> DEFINE D == BPS_DENOMINATOR  P == PAYOUT_BUCKET_BPS  m == D \div P
             c == Clamp(0, bps, D)  q == RoundHalfEven(c, P)  k == Clamp(1, q, m - 1)
  <1>1. D \in Nat \ {0} /\ P \in Nat \ {0} /\ m \in Nat /\ m >= 2 /\ D = P * m
    BY Widths
  <1>2. c \in Nat /\ c <= D /\ c <= bps /\ (c # bps => c = D)
    BY <1>1 DEF Clamp
  <1>3. q \in Nat
    BY <1>1, <1>2, Rounding
  <1>4. Bucket(bps) = Clamp(P, q * P, D - P)
    BY DEF Bucket
  <1> HIDE DEF D, P, m, c, q
  <1>5. q * P = P * q /\ P * q \in Int /\ P * 1 = P
    BY <1>1, <1>3
  <1>6. P * (m - 1) = D - P
    BY <1>1
  <1>7. k \in 1 .. m - 1
    BY <1>1, <1>3 DEF Clamp
  <1>8. Bucket(bps) = P * k
    <2>1. CASE q < 1
      <3>1. P * q + P <= P * 1 /\ k = 1
        BY <1>1, <1>3, <2>1, Multiples DEF Clamp
      <3>2. P * 1 <= P * (m - 1)
        <4>1. CASE m = 2
          BY <1>1, <4>1
        <4>2. CASE m > 2
          BY <1>1, <4>2, Multiples
        <4> QED BY <1>1, <4>1, <4>2
      <3> HIDE DEF k
      <3> QED BY <1>1, <1>4, <1>5, <1>6, <3>1, <3>2 DEF Clamp
    <2>2. CASE q > m - 1
      <3>1. P * (m - 1) + P <= P * q /\ k = m - 1
        BY <1>1, <1>3, <2>2, Multiples DEF Clamp
      <3>2. P * 1 <= P * (m - 1)
        <4>1. CASE m = 2
          BY <1>1, <4>1
        <4>2. CASE m > 2
          BY <1>1, <4>2, Multiples
        <4> QED BY <1>1, <4>1, <4>2
      <3> HIDE DEF k
      <3> QED BY <1>1, <1>4, <1>5, <1>6, <3>1, <3>2 DEF Clamp
    <2>3. CASE q \in 1 .. m - 1
      <3>1. k = q
        BY <1>1, <1>3, <2>3 DEF Clamp
      <3>2. P <= P * q
        <4>1. CASE q = 1
          BY <1>5, <4>1
        <4>2. CASE q > 1
          BY <1>1, <1>3, <1>5, <4>2, Multiples
        <4> QED BY <1>3, <2>3, <4>1, <4>2
      <3>3. P * q <= D - P
        <4>1. CASE q = m - 1
          BY <1>1, <1>5, <1>6, <4>1
        <4>2. CASE q < m - 1
          BY <1>1, <1>3, <1>5, <1>6, <4>2, Multiples
        <4> QED BY <1>1, <2>3, <4>1, <4>2
      <3> HIDE DEF k
      <3> QED BY <1>1, <1>4, <1>5, <3>1, <3>2, <3>3 DEF Clamp
    <2> QED BY <1>1, <1>3, <2>1, <2>2, <2>3
  <1> QED BY <1>2, <1>3, <1>7, <1>8 DEF D, P, m, c, q

LEMMA BucketNearest ==
    ASSUME NEW bps \in Nat
    PROVE  LET bucket == Bucket(bps) IN
           /\ bucket \in Grid
           /\ \A g \in Grid \ {bucket} :
                \/ Distance(bucket, bps) < Distance(g, bps)
                \/ /\ Distance(bucket, bps) = Distance(g, bps)
                   /\ (bucket \div PAYOUT_BUCKET_BPS) % 2 = 0
  <1> DEFINE D == BPS_DENOMINATOR  P == PAYOUT_BUCKET_BPS  m == D \div P
             c == Clamp(0, bps, D)  q == RoundHalfEven(c, P)  k == Clamp(1, q, m - 1)
             near == P * k
  <1>1. D \in Nat \ {0} /\ P \in Nat \ {0} /\ m \in Nat /\ m >= 2 /\ D = P * m
    BY Widths
  <1>2. /\ c \in Nat /\ c <= D /\ c <= bps /\ (c # bps => c = D)
        /\ q \in Nat
        /\ k \in 1 .. m - 1
        /\ Bucket(bps) = near
    BY BucketOnGrid
  <1>3. /\ 2 * c <= 2 * (P * q) + P
        /\ 2 * (P * q) <= 2 * c + P
        /\ 2 * c = 2 * (P * q) + P \/ 2 * (P * q) = 2 * c + P => q % 2 = 0
    BY <1>1, <1>2, Rounding
  <1>4. k = IF q < 1 THEN 1 ELSE IF q > m - 1 THEN m - 1 ELSE q
    <2> HIDE DEF m, q
    <2> QED BY <1>1, <1>2 DEF Clamp
  <1>5. Bucket(bps) \in Grid
    BY <1>2 DEF Grid
  <1>6. ASSUME NEW g \in Grid \ {near}
        PROVE  \/ Distance(near, bps) < Distance(g, bps)
               \/ Distance(near, bps) = Distance(g, bps) /\ (near \div P) % 2 = 0
    <2> HIDE DEF D, P, m, c, q, k, near
    <2>1. PICK j \in 1 .. m - 1 : g = P * j
      BY <1>6 DEF Grid, m, D, P
    <2>2. j # k
      BY <2>1, <1>6 DEF near
    <2>3. P * j \in Nat /\ near \in Nat /\ P * q \in Nat
      BY <1>1, <1>2, <2>1 DEF near
    <2>4. (j < k => P * j + P <= near) /\ (k < j => near + P <= P * j)
      BY <1>1, <1>2, <2>1, Multiples DEF near
    <2>5. near \div P = k
      BY <1>1, <1>2 DEF near
    <2>6. CASE q < 1
      <3>1. q = 0 /\ P * q = 0 /\ near = P /\ k = 1
        BY <1>1, <1>2, <1>4, <2>6 DEF near
      <3>2. 2 * c <= P /\ c = bps
        BY <1>1, <1>2, <1>3, <3>1, Multiples
      <3>3. near + P <= P * j
        BY <1>1, <2>1, <2>2, <2>4, <3>1
      <3> QED BY <1>1, <1>2, <2>1, <2>3, <3>1, <3>2, <3>3 DEF Distance
    <2>7. CASE q > m - 1
      <3>1. k = m - 1 /\ P * j + P <= near /\ near + P = D
        <4>1. k = m - 1
          BY <1>1, <1>2, <1>4, <2>7
        <4>2. near + P = D
          BY <1>1, <4>1 DEF near
        <4> QED BY <1>1, <2>1, <2>2, <2>4, <4>1, <4>2
      <3>2. P * q >= D
        <4>1. CASE q = m
          BY <1>1, <2>3, <4>1
        <4>2. CASE q > m
          BY <1>1, <1>2, <4>2, Multiples
        <4> QED BY <1>1, <1>2, <2>7, <4>1, <4>2
      <3>3. 2 * c + P >= 2 * D
        BY <1>1, <1>2, <1>3, <2>3, <3>2
      <3>4. 2 * bps >= 2 * near + P
        BY <1>1, <1>2, <2>3, <3>1, <3>3
      <3> QED BY <1>1, <2>1, <2>3, <3>1, <3>4 DEF Distance
    <2>8. CASE q \in 1 .. m - 1
      <3>1. k = q /\ near = P * q
        BY <1>1, <1>2, <1>4, <2>8 DEF near
      <3>2. c = bps
        <4>1. P * q + P <= D
          BY <1>1, <1>2, <2>8, Multiples
        <4> QED BY <1>1, <1>2, <1>3, <2>3, <4>1
      <3>3. 2 * bps <= 2 * near + P /\ 2 * near <= 2 * bps + P
            /\ (2 * bps = 2 * near + P \/ 2 * near = 2 * bps + P => k % 2 = 0)
        BY <1>3, <3>1, <3>2
      <3>4. CASE j < k
        <4>1. P * j + P <= near
          BY <2>4, <3>4
        <4>2. CASE 2 * near = 2 * bps + P
          BY <1>1, <2>1, <2>3, <2>5, <3>3, <4>1, <4>2 DEF Distance
        <4>3. CASE 2 * near < 2 * bps + P
          BY <1>1, <2>1, <2>3, <3>3, <4>1, <4>3 DEF Distance
        <4> QED BY <1>1, <2>3, <3>3, <4>2, <4>3
      <3>5. CASE k < j
        <4>1. near + P <= P * j
          BY <2>4, <3>5
        <4>2. CASE 2 * bps = 2 * near + P
          BY <1>1, <2>1, <2>3, <2>5, <3>3, <4>1, <4>2 DEF Distance
        <4>3. CASE 2 * bps < 2 * near + P
          BY <1>1, <2>1, <2>3, <3>3, <4>1, <4>3 DEF Distance
        <4> QED BY <1>1, <2>3, <3>3, <4>2, <4>3
      <3> QED BY <1>2, <2>1, <2>2, <3>4, <3>5
    <2> QED BY <1>1, <1>2, <2>6, <2>7, <2>8
  <1> HIDE DEF near
  <1> QED BY <1>2, <1>5, <1>6

LEMMA SharesOfGrid ==
    ASSUME NEW g \in Grid
    PROVE  g \in Nat /\ g > 0 /\ g < BPS_DENOMINATOR
  <1> DEFINE D == BPS_DENOMINATOR  P == PAYOUT_BUCKET_BPS  m == D \div P
  <1>1. D \in Nat \ {0} /\ P \in Nat \ {0} /\ m \in Nat /\ m >= 2 /\ D = P * m
    BY Widths
  <1>2. PICK k \in 1 .. m - 1 : g = P * k
    BY DEF Grid
  <1> HIDE DEF D, P, m
  <1>3. P * 0 = 0 /\ P * 0 + P <= P * k /\ P * k + P <= P * m /\ P * k \in Int
    BY <1>1, <1>2, Multiples
  <1>4. g \in Nat /\ g > 0 /\ g < D
    BY <1>1, <1>2, <1>3
  <1> QED BY <1>4 DEF D

\* What a review recommends and what it returns.
LEMMA ReviewEnds ==
    ASSUME NEW verdict, NEW bps \in Nat \cup {Malformed}
    PROVE  LET finding == Reviewed(verdict, bps) IN
           /\ finding.verdict \in VALID_VERDICTS
           /\ finding.verdict = "PARTIAL" =>
                verdict = "PARTIAL" /\ bps \in Nat /\ finding.payout_bps = Bucket(bps)
           /\ finding.verdict # "PARTIAL" => finding.payout_bps = 0
           /\ verdict = "APPROVED" <=> finding.verdict = "APPROVED"
  <1> DEFINE share == IF bps = Malformed THEN 0 ELSE Clamp(0, Bucket(bps), BPS_DENOMINATOR)
             finding == Reviewed(verdict, bps)
  <1>1. BPS_DENOMINATOR \in Nat /\ BPS_DENOMINATOR > 0 /\ Malformed \notin Nat
    BY BucketAssumption
  <1>2. bps # Malformed => bps \in Nat /\ Bucket(bps) \in Grid
    BY BucketNearest
  <1>3. bps # Malformed => share = Bucket(bps) /\ share \in Nat /\ 0 < share /\ share < BPS_DENOMINATOR
    <2> SUFFICES ASSUME bps # Malformed
                 PROVE  share = Bucket(bps) /\ share \in Nat /\ 0 < share /\ share < BPS_DENOMINATOR
      OBVIOUS
    <2>1. Bucket(bps) \in Nat /\ Bucket(bps) > 0 /\ Bucket(bps) < BPS_DENOMINATOR
      BY <1>2, SharesOfGrid
    <2> QED BY <1>1, <2>1 DEF Clamp
  <1>4. bps = Malformed => share = 0
    OBVIOUS
  <1> HIDE DEF share
  <1>5. CASE verdict \notin VALID_VERDICTS
    <2>1. finding = [verdict |-> "NEEDS_REVISION", payout_bps |-> 0]
      BY <1>5 DEF Reviewed, VALID_VERDICTS
    <2> QED BY <1>5, <2>1 DEF VALID_VERDICTS
  <1>6. CASE verdict \in VALID_VERDICTS \ {"PARTIAL"}
    <2>1. finding = [verdict |-> verdict, payout_bps |-> 0]
      BY <1>6 DEF Reviewed, VALID_VERDICTS
    <2> QED BY <1>6, <2>1 DEF VALID_VERDICTS
  <1>7. CASE verdict = "PARTIAL" /\ bps = Malformed
    <2>1. finding = [verdict |-> "REJECTED", payout_bps |-> share]
      BY <1>1, <1>4, <1>7 DEF Reviewed, VALID_VERDICTS, share
    <2> QED BY <1>4, <1>7, <2>1 DEF VALID_VERDICTS
  <1>8. CASE verdict = "PARTIAL" /\ bps # Malformed
    <2>1. ~(share <= 0) /\ ~(share >= BPS_DENOMINATOR)
      BY <1>1, <1>3, <1>8
    <2>2. finding = [verdict |-> "PARTIAL", payout_bps |-> share]
      BY <1>8, <2>1 DEF Reviewed, VALID_VERDICTS, share
    <2> QED BY <1>2, <1>3, <1>8, <2>2 DEF VALID_VERDICTS
  <1> QED BY <1>5, <1>6, <1>7, <1>8

\* A part of an amount, rounded down.
LEMMA PartOf ==
    ASSUME NEW amount \in Nat, NEW share \in Nat, share <= BPS_DENOMINATOR
    PROVE  LET part == (amount * share) \div BPS_DENOMINATOR IN
           /\ part \in Nat /\ part <= amount
           /\ part * BPS_DENOMINATOR <= amount * share
  <1> DEFINE D == BPS_DENOMINATOR  part == (amount * share) \div D
  <1>1. D \in Nat \ {0}
    BY BucketAssumption
  <1>2. amount * share \in Nat /\ amount * share <= D * amount
    BY <1>1
  <1>3. part \in Nat /\ D * part <= amount * share
    BY <1>1, <1>2, Division
  <1>4. part * D <= amount * share
    BY <1>1, <1>3
  <1>5. part <= amount
    <2> HIDE DEF part
    <2> SUFFICES ASSUME amount < part PROVE FALSE
      BY <1>3
    <2>1. D * amount + D <= D * part /\ D * amount \in Int /\ D * part \in Int
      BY <1>1, <1>3, Multiples
    <2> QED BY <1>1, <1>2, <1>3, <2>1
  <1> QED BY <1>3, <1>4, <1>5


\* What a review returns is executable: a split strictly inside, or no share.
LEMMA ReviewShares ==
    ASSUME NEW verdict, NEW bps \in Nat \cup {Malformed}
    PROVE  LET finding == Reviewed(verdict, bps) IN
           /\ finding.verdict \in VALID_VERDICTS
           /\ finding.payout_bps \in 0 .. BPS_DENOMINATOR - 1
           /\ finding.verdict = "PARTIAL" <=> finding.payout_bps # 0
  <1>1. BPS_DENOMINATOR \in Nat \ {0}
    BY BucketAssumption
  <1>2. bps \in Nat => /\ Bucket(bps) \in Nat /\ Bucket(bps) > 0
                       /\ Bucket(bps) < BPS_DENOMINATOR
    BY BucketNearest, SharesOfGrid
  <1> QED BY <1>1, <1>2, ReviewEnds

\* The winner of a reward is never paid a negative amount.
LEMMA NetPositive ==
    ASSUME NEW reward \in Nat, NEW payout_bps \in 0 .. BPS_DENOMINATOR,
           NEW fee_bps \in 0 .. MAX_FEE_BPS
    PROVE  ChallengerNet(reward, payout_bps, fee_bps) \in Nat
  <1> DEFINE gross == ChallengerGross(reward, payout_bps)
             fee == PlatformFee(reward, payout_bps, fee_bps)
  <1>1. /\ BPS_DENOMINATOR \in Nat /\ payout_bps \in Nat /\ payout_bps <= BPS_DENOMINATOR
        /\ fee_bps \in Nat /\ fee_bps <= BPS_DENOMINATOR
    BY BucketAssumption
  <1>2. gross \in Nat
    BY <1>1, PartOf DEF ChallengerGross
  <1>3. fee \in Nat /\ fee <= gross
    <2> HIDE DEF gross
    <2>1. fee = (gross * fee_bps) \div BPS_DENOMINATOR
      BY DEF PlatformFee, gross
    <2> QED BY <1>1, <1>2, <2>1, PartOf
  <1>4. ChallengerNet(reward, payout_bps, fee_bps) = gross - fee
    BY DEF ChallengerNet
  <1> HIDE DEF gross, fee
  <1> QED BY <1>2, <1>3, <1>4

=============================================================================
