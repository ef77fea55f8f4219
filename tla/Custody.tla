------------------------------- MODULE Custody ------------------------------
(***************************************************************************)
(* What an escrow promises to those who deposit in it, with none of how.   *)
(*                                                                         *)
(* The vault holds items, each of some amount.  An item enters the empty   *)
(* place of its own, and leaves it whole: what it held becomes claims of   *)
(* accounts, to the last unit, and no claim shrinks when another item is   *)
(* released.  Money leaves the vault only when an account takes its whole  *)
(* claim.                                                                  *)
(***************************************************************************)
EXTENDS Integers, FiniteSets, Functions

CONSTANTS
    Item,       \* places a deposit can be held in
    Claimant    \* accounts a released item can be owed to

VARIABLES
    held,       \* amount held at each item
    owed,       \* claim of each account
    vault       \* money in the vault

custodyVars == <<held, owed, vault>>

Init ==
    /\ held = [d \in Item |-> 0]
    /\ owed = [x \in Claimant |-> 0]
    /\ vault = 0

Deposit(d) ==
    /\ held[d] = 0
    /\ held'[d] > 0
    /\ held' = [held EXCEPT ![d] = held'[d]]
    /\ vault' = vault + held'[d]
    /\ UNCHANGED owed

Release(released) ==
    /\ \A d \in released : held[d] > 0
    /\ held' = [d \in Item |-> IF d \in released THEN 0 ELSE held[d]]
    /\ \A x \in Claimant : owed'[x] >= owed[x]
    /\ SumFunction(owed') = SumFunction(owed) + SumFunctionOnSet(held, released)
    /\ UNCHANGED vault

Withdraw(x) ==
    /\ owed[x] > 0
    /\ owed' = [owed EXCEPT ![x] = 0]
    /\ vault' = vault - owed[x]
    /\ UNCHANGED held

Next ==
    \/ \E d \in Item : Deposit(d)
    \/ \E released \in (SUBSET Item) \ {{}} : Release(released)
    \/ \E x \in Claimant : Withdraw(x)

Spec == Init /\ [][Next]_custodyVars

=============================================================================
