------------------------------ MODULE SendLedger ------------------------------
(***************************************************************************)
(* What the notification_send table promises: a send that is in the ledger *)
(* is never started again.  A send is started only while its row is not    *)
(* there, and ends either with the row written or as if never started.  A  *)
(* send may also be settled with nothing delivered.  The rows of a         *)
(* membership that is deleted go with it, and its id is not used again.    *)
(***************************************************************************)
CONSTANT Members  \* membership ids

VARIABLES
    settled,  \* the sends in the ledger, each with its membership in field m
    started,  \* the sends being delivered
    deleted   \* memberships that have been deleted

Init == settled = {} /\ started = {} /\ deleted = {}

Start(s) ==
    /\ s \notin settled \cup started
    /\ s.m \notin deleted
    /\ started' = started \cup {s}
    /\ UNCHANGED <<settled, deleted>>

Finish(s) ==
    /\ s \in started
    /\ started' = started \ {s}
    /\ settled' = settled \cup {s}
    /\ UNCHANGED deleted

Abandon(s) ==
    /\ s \in started
    /\ started' = started \ {s}
    /\ UNCHANGED <<settled, deleted>>

\* Claimed with nothing to deliver.
Settle(s) ==
    /\ s \notin settled \cup started
    /\ s.m \notin deleted
    /\ settled' = settled \cup {s}
    /\ UNCHANGED <<started, deleted>>

\* Nothing of a deleted membership is being delivered.
Delete(M) ==
    /\ \A s \in started : s.m \notin M
    /\ deleted' = deleted \cup M
    /\ settled' = {s \in settled : s.m \notin M}
    /\ UNCHANGED started

Next ==
    \/ \E s \in started : Finish(s) \/ Abandon(s)
    \/ \E s \in started' : Start(s)
    \/ \E s \in settled' : Settle(s)
    \/ \E M \in SUBSET Members : Delete(M)

Spec == Init /\ [][Next]_<<settled, started, deleted>>
===============================================================================
