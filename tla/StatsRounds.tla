------------------------------ MODULE StatsRounds ------------------------------
(***************************************************************************)
(* What the collection of statistics promises about the requests of every  *)
(* kind: at most one is pending at a time, it is answered once or given up *)
(* for ever, and the answers come in the order of the requests.            *)
(*                                                                         *)
(* StatsCollector implements this specification.                           *)
(***************************************************************************)
EXTENDS Naturals, Sequences

CONSTANT Kinds  \* the kinds of statistics

VARIABLES
    pending,   \* the xid of the request that is waited for, 0 if there is none
    answered,  \* the xids of the requests whose answers were published, in order
    newest     \* the xid that was last given to a request

vars == <<pending, answered, newest>>

-------------------------------------------------------------------------------
Init == /\ pending = [k \in Kinds |-> 0]
        /\ answered = [k \in Kinds |-> <<>>]
        /\ newest = 0

\* A request gets an xid.
NewXid == newest' = newest + 1 /\ UNCHANGED <<pending, answered>>

\* The xids of requests that are newer than what is pending and was answered.
Newer(k) == {x \in 1 .. newest : /\ x > pending[k]
                                 /\ \A i \in DOMAIN answered[k] : x > answered[k][i]}

\* Newer requests take the place of those that are pending, or nothing does.
Record ==
    /\ pending' \in [Kinds -> 0 .. newest]
    /\ \A k \in Kinds : pending'[k] \in {0, pending[k]} \union Newer(k)
    /\ UNCHANGED <<answered, newest>>

\* The answer to the pending request is published.
Answer(k) ==
    /\ pending[k] # 0
    /\ answered' = [answered EXCEPT ![k] = Append(@, pending[k])]
    /\ pending' = [pending EXCEPT ![k] = 0]
    /\ UNCHANGED newest

Next == NewXid \/ Record \/ \E k \in Kinds : Answer(k)

Spec == Init /\ [][Next]_vars
===============================================================================
