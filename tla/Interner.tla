------------------------------ MODULE Interner ------------------------------
(* What AttrCache promises to its callers: every lookup is answered at one    *)
(* instant, as if no other ran at the same time.  A key that may not be used  *)
(* is denied, a key that is interned or for which there is room gets its own  *)
(* entry for good, and every other key shares the overflow entry.             *)
EXTENDS Naturals, Sequences, FiniteSets

CONSTANTS Lookups, Empty, MaxEntries

VARIABLES key, deny, allowed,   \* what the callers ask and what they may ask
          interned,             \* the keys with an entry of their own
          told                  \* [l] the answer of a lookup

ivars == <<key, deny, allowed, interned, told>>

(* Under deny, at least one label must be registered, and so must every label *)
(* of the key that is not empty.                                              *)
Rejected(k) == /\ deny
               /\ allowed = {} \/ \E i \in 1..Len(k) : k[i] \notin allowed \cup {Empty}

IInit == interned = {} /\ told = [l \in Lookups |-> "none"]

Tell(l, a) == told[l] = "none" /\ told' = [told EXCEPT ![l] = a]

Deny(l) == /\ Rejected(key[l])
           /\ Tell(l, "denied")
           /\ UNCHANGED interned

Intern(l) == /\ ~Rejected(key[l])
             /\ key[l] \in interned \/ Cardinality(interned) < MaxEntries
             /\ interned' = interned \cup {key[l]}
             /\ Tell(l, "entry")

Share(l) == /\ ~Rejected(key[l])
            /\ key[l] \notin interned /\ Cardinality(interned) = MaxEntries
            /\ Tell(l, "overflow")
            /\ UNCHANGED interned

INext == /\ \E l \in Lookups : Deny(l) \/ Intern(l) \/ Share(l)
         /\ UNCHANGED <<key, deny, allowed>>

ISpec == IInit /\ [][INext]_ivars
=============================================================================
