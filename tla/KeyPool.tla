------------------------------- MODULE KeyPool -------------------------------
(***************************************************************************)
(* ProviderKeyPool (gateway/policy/key_pool.py), which the OpenAI and      *)
(* Anthropic adapters ask for a key before every call.  Each method holds  *)
(* the pool's lock.  Only the tests call mark_rate_limited: nothing under  *)
(* gateway/ does, and add_key is called while an adapter is constructed.   *)
(***************************************************************************)
EXTENDS Integers, SequencesExt

CONSTANTS
    ProviderKeys,
    MaxCooldown,  \* longest cooldown
    Turns         \* what _index is counted by: every size of the pool divides it

ASSUME PoolAssumption ==
    /\ IsFiniteSet(ProviderKeys)
    /\ MaxCooldown \in Nat
    /\ Turns \in Nat \ {0}
    /\ \A n \in 1..Cardinality(ProviderKeys) : Turns % n = 0

VARIABLES
    keys,      \* the pool's keys
    cooldown,  \* time until each key's cooldown is over
    index,     \* _index
    passed     \* history: keys given since a key was, while it was available

poolVars == <<keys, cooldown, index, passed>>

PoolInit ==
    /\ keys = <<>>
    /\ cooldown = [k \in ProviderKeys |-> 0]
    /\ index = 0
    /\ passed = [k \in ProviderKeys |-> 0]

InTurn(n) == keys[((index + n) % Len(keys)) + 1]

Available == {k \in ToSet(keys) : cooldown[k] = 0}

\* How many keys are passed over, the one that is given included.
Advance == Min({n \in 1..Len(keys) : InTurn(n - 1) \in Available})

\* Mutant: the index is not advanced.
AfterNone(n) == index

After(n) == (index + n) % Turns

Give(key, n) ==
    /\ index' = After(n)
    /\ passed' = [k \in ProviderKeys |->
                    IF k \in Available \ {key} THEN passed[k] + 1 ELSE 0]
    /\ UNCHANGED <<keys, cooldown>>

\* get_next_key
GetNextKey ==
    /\ Available # {}
    /\ Give(InTurn(Advance - 1), Advance)

Soonest ==
    Min({i \in 1..Len(keys) : \A j \in 1..Len(keys) : cooldown[keys[i]] <= cooldown[keys[j]]})

\* get_next_key when every key is cooling: the one that will be ready first
GetSoonest ==
    /\ keys # <<>>
    /\ Available = {}
    /\ Give(keys[Soonest], Len(keys))

AddKey(k) ==
    /\ k \notin ToSet(keys)
    /\ keys' = Append(keys, k)
    /\ passed' = [x \in ProviderKeys |-> 0]
    /\ UNCHANGED <<cooldown, index>>

MarkRateLimited(k) ==
    /\ cooldown' \in {[cooldown EXCEPT ![k] = t] : t \in 0..MaxCooldown}
    /\ UNCHANGED <<keys, index, passed>>

CoolDown ==
    /\ \E k \in ProviderKeys : cooldown[k] > 0
    /\ cooldown' = [k \in ProviderKeys |-> IF cooldown[k] > 0 THEN cooldown[k] - 1 ELSE 0]
    /\ UNCHANGED <<keys, index, passed>>

PoolNext ==
    \/ GetNextKey
    \/ GetSoonest
    \/ \E k \in ProviderKeys : AddKey(k) \/ MarkRateLimited(k)
    \/ CoolDown

PoolSpec == PoolInit /\ [][PoolNext]_poolVars

-----------------------------------------------------------------------------
(* The inductive invariant: why a key is not passed over for ever *)

PoolTypeOK ==
    /\ keys \in Seq(ProviderKeys)
    /\ IsInjective(keys)
    /\ cooldown \in [ProviderKeys -> 0..MaxCooldown]
    /\ index \in 0..(Turns - 1)
    /\ passed \in [ProviderKeys -> Nat]

\* The longer a key has been passed over, the sooner its turn is.
TurnsToCome == \A n \in 1..Len(keys) : passed[InTurn(n - 1)] + n <= Len(keys)

PoolInv == PoolTypeOK /\ TurnsToCome

-----------------------------------------------------------------------------
(* Correctness *)

\* Traffic is spread over the keys: one that is available whenever a key is asked
\* for is given before the others have been given once each, whatever is
\* skipped in between (get_next_key).
EveryKeyInTurn ==
    \A k \in ToSet(keys) : passed[k] < Len(keys)
=============================================================================
