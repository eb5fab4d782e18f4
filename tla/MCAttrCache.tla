---------------------------- MODULE MCAttrCache ----------------------------
(* AttrCache for TLC: three keys, of one and three labels, in two shards; one *)
(* has the empty label, and two collide in a shard.  "c" is the label of the  *)
(* string "a||b", so its key shows like that of three labels.                 *)
EXTENDS AttrCache, TLC

CONSTANTS a, b, c

MCLabels == {a, b, c, Empty}
MCKeys == {<<a>>, <<c>>, <<a, Empty, b>>}
MCShardOf == (<<a>> :> 1) @@ (<<c>> :> 2) @@ (<<a, Empty, b>> :> 1)
MCShow == (<<a>> :> "a") @@ (<<c>> :> "a||b") @@ (<<a, Empty, b>> :> "a||b")

(* Lookups are interchangeable, so one way to hand each multiset of keys to   *)
(* them is enough.                                                            *)
MCCalls ==
  LET calls == [Lookups -> MCKeys]
      Times(f) == [k \in MCKeys |-> Cardinality({l \in Lookups : f[l] = k})]
  IN {CHOOSE f \in calls : Times(f) = n : n \in {Times(f) : f \in calls}}

(* Everything allowed, one key denied, and two with the same string; a        *)
(* percentage above 100, none, and one that the first entry reaches.          *)
MCSettings == { [deny |-> FALSE, allowed |-> {}, counting |-> TRUE, warnPct |-> 150],
                [deny |-> TRUE, allowed |-> {a, b}, counting |-> FALSE, warnPct |-> 0],
                [deny |-> TRUE, allowed |-> {a}, counting |-> TRUE, warnPct |-> 50] }
=============================================================================
