------------------------------- MODULE KVStore -------------------------------
(***************************************************************************)
(* What the additional-metadata table of TokenMetadata promises its        *)
(* callers: a map from keys to values holding at most Capacity keys       *)
(* (NONE marks an absent key), with                                        *)
(*   set    - update the value of a present key, else add the key if there *)
(*            is room, else fail with AccountDataTooSmall;                 *)
(*   remove - drop the key, returning whether it was present;              *)
(*   get    - Some(the key's value), or None.                              *)
(* ret is the result of the last of these calls, a record whose tag is    *)
(* "Ok", "AccountDataTooSmall", "true", "false", "Some" or "None" and      *)
(* whose val is the value a get returned.                                  *)
(***************************************************************************)
EXTENDS Integers, FiniteSets

CONSTANTS Keys, Values, Capacity, NONE

ASSUME NONE \notin Values
ASSUME Capacity \in Nat

VARIABLES store, ret

vars == <<store, ret>>

Result(tag) == [tag |-> tag, val |-> <<>>]

Results == {Result(t) : t \in {"Ok", "AccountDataTooSmall", "true", "false", "None"}}
             \cup [tag : {"Some"}, val : Values]

TypeOK ==
  /\ store \in [Keys -> Values \cup {NONE}]
  /\ ret \in Results

Present(k) == store[k] # NONE

Size == Cardinality({k \in Keys : Present(k)})

Init ==
  /\ store = [k \in Keys |-> NONE]
  /\ ret = Result("None")

Set(k, v) ==
  \/ /\ Present(k) \/ Size < Capacity
     /\ store' = [store EXCEPT ![k] = v]
     /\ ret' = Result("Ok")
  \/ /\ ~Present(k)
     /\ Size >= Capacity
     /\ ret' = Result("AccountDataTooSmall")
     /\ UNCHANGED store

Remove(k) ==
  /\ store' = [store EXCEPT ![k] = NONE]
  /\ ret' = Result(IF Present(k) THEN "true" ELSE "false")

Get(k) ==
  /\ ret' = IF Present(k) THEN [tag |-> "Some", val |-> store[k]]
                         ELSE Result("None")
  /\ UNCHANGED store

Next ==
  \E k \in Keys :
    \/ \E v \in Values : Set(k, v)
    \/ Remove(k)
    \/ Get(k)

Spec == Init /\ [][Next]_vars

=============================================================================
