------------------------ MODULE ConversationPresence ------------------------
(* The realtime channels of one conversation, shared by every component that *)
(* shows the pair (the rows of the message list, the chat screen): the       *)
(* controllers map, its counting of consumers and its removal flights in     *)
(* useConversationPresence.ts.  A consumer is one run of the hook's effect;  *)
(* what follows an await that the network does not delay runs before any     *)
(* timer or answer does (Quiet).                                             *)
EXTENDS Naturals, FiniteSets

CONSTANTS Consumers,       \* runs of the effect
          Accounts,        \* accounts of this device, both of the pair
          MaxControllers   \* bound: controllers created

ASSUME PresenceAssumption ==
    /\ IsFiniteSet(Consumers)
    /\ MaxControllers \in Nat

Ids == 1..MaxControllers

VARIABLES account,   \* the account whose session there is
          hook,      \* each run of the effect
          mapped,    \* controllers.get(pairKey), or 0
          flight,    \* removalFlights.get(pairKey): the one being removed, or 0
          ctl,       \* the controllers
          made       \* how many there have been
vars == <<account, hook, mapped, flight, ctl, made>>

Off    == [at |-> "off", ctl |-> 0, cancelled |-> FALSE, by |-> "nobody"]
Unmade == [open |-> FALSE, consumers |-> 0, timer |-> FALSE, user |-> "nobody"]

ControllerTypeOK ==
    /\ account \in Accounts \cup {"nobody"}
    /\ hook \in [Consumers -> [at : {"off", "wait", "after", "switch", "micro", "got", "held"},
                               ctl : Ids \cup {0}, cancelled : BOOLEAN,
                               by : Accounts \cup {"nobody"}]]
    /\ mapped \in Ids \cup {0} /\ flight \in Ids \cup {0}
    /\ ctl \in [Ids -> [open : BOOLEAN, consumers : Nat, timer : BOOLEAN,
                        user : Accounts \cup {"nobody"}]]
    /\ made \in 0..MaxControllers

Init ==
    /\ account \in Accounts
    /\ hook = [h \in Consumers |-> Off]
    /\ mapped = 0 /\ flight = 0 /\ made = 0
    /\ ctl = [c \in Ids |-> Unmade]

Quiet == \A h \in Consumers : hook[h].at \notin {"after", "micro", "got"}

-----------------------------------------------------------------------------
(* acquireController *)

\* One more consumer, and no disposal.
Consumed(c) == [ctl EXCEPT ![c].consumers = @ + 1, ![c].timer = FALSE]

\* beginControllerRemoval: one removal at a time is under way for the pair.
Removal(c) ==
    IF flight # 0 THEN UNCHANGED <<mapped, flight>>
    ELSE /\ flight' = c
         /\ mapped' = IF mapped = c THEN 0 ELSE mapped

\* No removal is under way: the controller that the map has is taken, unless
\* it was another account's.
Acquire(h, by) ==
    \/ /\ mapped # 0 /\ ctl[mapped].user = by
       /\ hook' = [hook EXCEPT ![h].at = "got", ![h].ctl = mapped, ![h].by = by]
       /\ ctl' = Consumed(mapped)
       /\ UNCHANGED <<mapped, flight>>
    \/ /\ mapped # 0 /\ ctl[mapped].user # by
       /\ hook' = [hook EXCEPT ![h].at = "switch", ![h].by = by]
       /\ Removal(mapped)
       /\ UNCHANGED ctl
    \/ /\ mapped = 0
       /\ hook' = [hook EXCEPT ![h].at = "micro", ![h].by = by]
       /\ UNCHANGED <<mapped, flight, ctl>>

\* The effect runs.
Mount(h) ==
    /\ hook[h] = Off /\ account # "nobody"
    /\ IF flight # 0
       THEN /\ hook' = [hook EXCEPT ![h].at = "wait", ![h].by = account]
            /\ UNCHANGED <<mapped, flight, ctl>>
       ELSE Acquire(h, account)
    /\ UNCHANGED <<account, made>>

\* The removal it waited for is done.
Resume(h) ==
    /\ hook[h].at = "after"
    /\ Acquire(h, hook[h].by)
    /\ UNCHANGED <<account, made>>

\* Mutant: every run of the effect makes a controller of its own.
CreateAlways(h) ==
    /\ hook[h].at = "micro" /\ made < MaxControllers
    /\ made' = made + 1 /\ mapped' = made'
    /\ ctl' = [ctl EXCEPT ![made'] = [open |-> TRUE, consumers |-> 1, timer |-> FALSE, user |-> hook[h].by]]
    /\ hook' = [hook EXCEPT ![h].at = "got", ![h].ctl = made']
    /\ UNCHANGED <<account, flight>>

\* The orphaned topics are gone: the map is looked at again, as another run
\* may have made the controller meanwhile.
Create(h) ==
    /\ hook[h].at = "micro"
    /\ IF mapped # 0
       THEN /\ ctl' = Consumed(mapped)
            /\ hook' = [hook EXCEPT ![h].at = "got", ![h].ctl = mapped]
            /\ UNCHANGED <<mapped, made>>
       ELSE /\ made < MaxControllers
            /\ made' = made + 1
            /\ mapped' = made'
            /\ ctl' = [ctl EXCEPT ![made'] = [open |-> TRUE, consumers |-> 1, timer |-> FALSE,
                                              user |-> hook[h].by]]
            /\ hook' = [hook EXCEPT ![h].at = "got", ![h].ctl = made']
    /\ UNCHANGED <<account, flight>>

-----------------------------------------------------------------------------
(* releaseController *)

\* The last consumer sets the timer of the disposal.
Released(c) == [ctl EXCEPT ![c].consumers = @ - 1, ![c].timer = @ \/ ctl[c].consumers = 1]

\* Mutant: a run that was cleaned up forgets its controller.
AttachLeaky(h) ==
    /\ hook[h].at = "got"
    /\ IF hook[h].cancelled THEN hook' = [hook EXCEPT ![h] = Off]
                            ELSE hook' = [hook EXCEPT ![h].at = "held"]
    /\ UNCHANGED <<account, mapped, flight, ctl, made>>

\* The promise of acquireController settles: a run that was cleaned up gives
\* its controller back.
Attach(h) ==
    /\ hook[h].at = "got"
    /\ IF hook[h].cancelled
       THEN hook' = [hook EXCEPT ![h] = Off] /\ ctl' = Released(hook[h].ctl)
       ELSE hook' = [hook EXCEPT ![h].at = "held"] /\ UNCHANGED ctl
    /\ UNCHANGED <<account, mapped, flight, made>>

\* The cleanup of the effect.
Unmount(h) ==
    /\ hook[h].at # "off" /\ ~hook[h].cancelled
    /\ IF hook[h].at = "held"
       THEN hook' = [hook EXCEPT ![h] = Off] /\ ctl' = Released(hook[h].ctl)
       ELSE hook' = [hook EXCEPT ![h].cancelled = TRUE] /\ UNCHANGED ctl
    /\ UNCHANGED <<account, mapped, flight, made>>

\* CHANNEL_IDLE_MS after the last release.
Dispose(c) ==
    /\ Quiet /\ ctl[c].timer
    /\ ctl' = [ctl EXCEPT ![c].timer = FALSE]
    /\ IF ctl[c].consumers = 0 THEN Removal(c) ELSE UNCHANGED <<mapped, flight>>
    /\ UNCHANGED <<account, hook, made>>

\* The channels are left, or torn down after an error.
RemovalDone ==
    /\ Quiet /\ flight # 0
    /\ ctl' = [ctl EXCEPT ![flight].open = FALSE]
    /\ flight' = 0
    /\ hook' = [h \in Consumers |->
                  CASE hook[h].at = "wait"   -> [hook[h] EXCEPT !.at = "after"]
                    [] hook[h].at = "switch" -> [hook[h] EXCEPT !.at = "micro"]
                    [] OTHER                 -> hook[h]]
    /\ UNCHANGED <<account, mapped, made>>

-----------------------------------------------------------------------------
(* The session *)

\* Everything is unmounted and removeAllChannels closes the channels, behind
\* the back of the map.
SignOut ==
    /\ Quiet /\ account # "nobody"
    /\ \A h \in Consumers : hook[h].at = "off" \/ hook[h].cancelled
    /\ account' = "nobody"
    /\ ctl' = [c \in Ids |-> [ctl[c] EXCEPT !.open = FALSE]]
    /\ UNCHANGED <<hook, mapped, flight, made>>

\* Signing in takes longer than CHANNEL_IDLE_MS.
SignIn(u) ==
    /\ Quiet /\ account = "nobody"
    /\ \A c \in Ids : ~ctl[c].timer
    /\ account' = u
    /\ UNCHANGED <<hook, mapped, flight, ctl, made>>

\* The session of another account replaces the present one, without a sign-out:
\* the effects are cleaned up and run again.  A cancelled run of the account
\* before may then take or remove the controller of the new one, which never
\* looks at it again.
Switch(u) ==
    /\ Quiet /\ account \notin {"nobody", u}
    /\ \A h \in Consumers : hook[h].at = "off" \/ hook[h].cancelled
    /\ account' = u
    /\ UNCHANGED <<hook, mapped, flight, ctl, made>>

-----------------------------------------------------------------------------
Next ==
    \/ RemovalDone \/ SignOut
    \/ \E h \in Consumers : Mount(h) \/ Resume(h) \/ Create(h) \/ Attach(h) \/ Unmount(h)
    \/ \E c \in Ids : Dispose(c)
    \/ \E u \in Accounts : SignIn(u) \/ Switch(u)

Spec == Init /\ [][Next]_vars

-----------------------------------------------------------------------------
(* Properties *)

Holders(c) == {h \in Consumers : hook[h].at \in {"got", "held"} /\ hook[h].ctl = c}

\* The count of a controller is the number of its holders, the cancelled ones
\* that have not given it back included: it never drifts.
CountIsHolders == \A c \in Ids : ctl[c].consumers = Cardinality(Holders(c))

\* Open channels are never lost: their controller is the one that the map has,
\* which the next consumer takes, or the one that is being removed.
OneOpen == \A c \in Ids : ctl[c].open => c \in {mapped, flight}

\* One channel serves a conversation: its count does not drift, so it is removed
\* with its last holder, and a pair never has two controllers that both stay.
OneChannel == CountIsHolders /\ OneOpen
=============================================================================
