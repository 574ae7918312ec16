---------------------------- MODULE PeerBusMail ----------------------------
(* PeerBus implements Mail: a message is posted, collected or evicted at   *)
(* the step in which the tool call answers.                                *)
EXTENDS PeerBus

M == INSTANCE Mail WITH posted <- acked,
                        box    <- [n \in Names |-> Mailbox(n)],
                        taken  <- delivered,
                        lost   <- discarded

(* While the coordinator runs, every behaviour of the tools is one of the  *)
(* mailboxes Mail describes, rollbacks, races on the file and all.         *)
ImplementsMail == M!Spec

\* No crash so far, and every line of the log can be read.
Undamaged == crashes = 0 /\ \A m \in Msgs : pos[m] # 0 => m \in readable

(* The same with evictions, a cap that bites and file operations that fail,   *)
(* in any run until a crash or a short write damages what the log holds.      *)
MailWhileUndamaged ==
  M!Init /\ [][Undamaged' => M!Next \/ UNCHANGED M!mailVars]_vars
=============================================================================
