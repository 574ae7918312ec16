-------------------------------- MODULE Mail --------------------------------
(***************************************************************************)
(* What the peer bus promises its clients while the coordinator runs: a    *)
(* mailbox per session name.  An acknowledged message stays in its         *)
(* mailbox until one read returns it or the mailbox's owner is evicted; a  *)
(* read returns a non-empty, bounded batch and leaves no older message     *)
(* behind.  Locks, the registry file, faults and rollbacks do not show.    *)
(***************************************************************************)
EXTENDS Naturals

CONSTANTS Names, Msgs,
          MaxBytes,     \* what one read may return, in bytes
          Bytes(_),     \* bytes the messages of a set have together
          Stamp(_)      \* time a message was sent

VARIABLES posted,       \* messages ever acknowledged
          box,          \* box[n]: acknowledged messages n has not read
          taken,        \* messages a read has returned
          lost          \* messages of evicted mailboxes

mailVars == <<posted, box, taken, lost>>

Init ==
  /\ posted = {}
  /\ box = [n \in Names |-> {}]
  /\ taken = {}
  /\ lost = {}

Post(n, m) ==
  /\ m \notin posted
  /\ posted' = posted \cup {m}
  /\ box' = [box EXCEPT ![n] = @ \cup {m}]
  /\ UNCHANGED <<taken, lost>>

Fits(B) == Bytes(B) <= MaxBytes \/ \E m \in B : B = {m}

LeavesNoOlder(B, S) == \A m \in B, k \in S \ B : Stamp(m) <= Stamp(k)

Collect(n) ==
  /\ \E B \in SUBSET box[n] :
       /\ box[n] # {} => B # {} /\ Fits(B)
       /\ LeavesNoOlder(B, box[n])
       /\ box' = [box EXCEPT ![n] = @ \ B]
       /\ taken' = taken \cup B
  /\ UNCHANGED <<posted, lost>>

Evict(n) ==
  /\ lost' = lost \cup box[n]
  /\ box' = [box EXCEPT ![n] = {}]
  /\ UNCHANGED <<posted, taken>>

Next ==
  \E n \in Names :
    \/ \E m \in Msgs : Post(n, m)
    \/ Collect(n)
    \/ Evict(n)

Spec == Init /\ [][Next]_mailVars
=============================================================================
