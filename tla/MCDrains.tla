------------------------------ MODULE MCDrains ------------------------------
(* The two queues that are drained again and again, under fairness and one   *)
(* at a time: the push outbox with its receipts, claims that overlap         *)
(* included, by the cron jobs, and the chat outbox of the phone by its       *)
(* flushes.                                                                  *)
EXTENDS PushReceipts, Sequences

VARIABLES mode, disk, queue, waiting, expired, flush, screen, auth, member, wire, rowsSent,
          kept, called, crashes, sessions

chatVars == <<disk, queue, waiting, expired, flush, screen, auth, member, wire, rowsSent,
              kept, called, crashes, sessions>>

Chat == INSTANCE ChatOutbox
          WITH Owners <- {"ann"}, PerOwner <- 1, Capacity <- 1, MaxCrashes <- 2,
               MaxSessions <- 3, Rare <- {"leave", "expire"}, rows <- rowsSent

ASSUME DrainsConstants == Chat!ChatOutboxAssumption

DrainsInit == mode \in {"push", "chat"} /\ Init /\ active = Tokens /\ Chat!Init

DrainsNext ==
    /\ UNCHANGED mode
    /\ \/ mode = "push" /\ Next /\ UNCHANGED chatVars
       \/ mode = "chat" /\ Chat!Next /\ UNCHANGED vars

\* In either mode the other queue has nothing to drain: none of its fair
\* actions is enabled.
DrainsSpec == /\ DrainsInit /\ [][DrainsNext]_<<mode, vars, chatVars>>
              /\ OutboxFairness /\ Fairness /\ Chat!Fairness

-----------------------------------------------------------------------------
\* A message that is kept is stored in the room, becomes a dead letter or is
\* given up while its owner is signed in.
MessageSettles == Chat!MessageSettles
=============================================================================
