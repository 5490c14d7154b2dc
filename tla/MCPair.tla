------------------------------- MODULE MCPair -------------------------------
(* Two users, one part of the system at a time: "matching" is their pair in  *)
(* the database, "outbox" the phone on which both of them write.             *)
EXTENDS Matching, Sequences, TLC

CONSTANTS PerOwner, Capacity, MaxAttempts, MaxCrashes, MaxSessions, Rare \* the outbox's

VARIABLES mode, disk, queue, waiting, expired, flush, screen, auth, member, wire, rows,
          kept, called, crashes, sessions

chatVars == <<disk, queue, waiting, expired, flush, screen, auth, member, wire, rows,
              kept, called, crashes, sessions>>

Chat == INSTANCE ChatOutbox WITH Owners <- Users

ASSUME PairConstants == Chat!ChatOutboxAssumption

PairInit == mode \in {"matching", "outbox"} /\ Init /\ Chat!Init

PairNext ==
    /\ UNCHANGED mode
    /\ \/ mode = "matching" /\ Next /\ UNCHANGED chatVars
       \/ mode = "outbox" /\ Chat!Next /\ UNCHANGED vars

PairSpec == PairInit /\ [][PairNext]_<<mode, vars, chatVars>>

\* Nothing tells the users, the events or the connections apart.
Symmetry == Permutations(Users) \cup Permutations(Events) \cup Permutations(Sessions)

-----------------------------------------------------------------------------
(* Properties: those of the two modules *)

\* The phone's storage is well-formed, and a queued message can be read back
\* until it is given up.
KeptIsReadable == Chat!TypeOK /\ (mode = "outbox" => Chat!KeptIsReadable)

\* What was queued before a logout is not replayed after it.
PurgedNotReplayed == Chat!PurgedNotReplayed
=============================================================================
