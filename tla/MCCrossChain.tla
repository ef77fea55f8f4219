---------------------------- MODULE MCCrossChain ----------------------------
(***************************************************************************)
(* Instances of CrossChain for TLC.                                        *)
(***************************************************************************)
EXTENDS CrossChain, TLC

CONSTANTS creator, alice, arbiter, attestor, relayer, signer, b1, r1, t1, t2, t3

\* What any guard or property of CrossChain reads.
MCView ==
    <<bounties, reservations, attempts, now, baseBounties, pendingAttempts, baseAttempts,
      claimable, receipts, issued, handler, sweep>>

=============================================================================
