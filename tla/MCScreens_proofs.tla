-------------------------- MODULE MCScreens_proofs --------------------------
(* The screens of MCScreens, for any messages, photos and candidates and any *)
(* bounds: why one channel serves a conversation (PresenceInv), what the     *)
(* unread badge settles at (BadgeInv), which photos are kept (PhotosInv),    *)
(* that the deck passes nobody over (DeckInv), that an open conversation     *)
(* catches up (ThreadInv), and the types of all seven (ScreensInv).  The     *)
(* proofs are about the module itself, which extends ConversationPresence,   *)
(* and its instances.                                                        *)
EXTENDS MCScreensFeed_proofs

-----------------------------------------------------------------------------
(* The channel of a conversation *)

\* A run of the effect, and a controller.
Runs == [at : {"off", "wait", "after", "switch", "micro", "got", "held"},
         ctl : Ids \cup {0}, cancelled : BOOLEAN, by : Accounts \cup {"nobody"}]
Controllers == [open : BOOLEAN, consumers : Nat, timer : BOOLEAN, user : Accounts \cup {"nobody"}]

Holds(r) == r.at \in {"got", "held"}

\* A holder's controller has been made, and so has the one in the map.
MadeBefore ==
    /\ mapped \in 0..made
    /\ \A h \in Consumers : Holds(hook[h]) => hook[h].ctl \in 1..made

PresenceInv == ControllerTypeOK /\ MadeBefore /\ CountIsHolders /\ OneOpen

LEMMA Types == ControllerTypeOK <=>
    /\ account \in Accounts \cup {"nobody"}
    /\ hook \in [Consumers -> Runs] /\ ctl \in [Ids -> Controllers]
    /\ mapped \in Ids \cup {0} /\ flight \in Ids \cup {0} /\ made \in 0..MaxControllers
  BY DEF ControllerTypeOK, Runs, Controllers

\* Some consumers are a finite set, counted one by one.
LEMMA OneMore ==
    ASSUME NEW S \in SUBSET Consumers, NEW h \in Consumers, h \notin S
    PROVE  Cardinality(S \cup {h}) = Cardinality(S) + 1
  <1>1. IsFiniteSet(S)
    BY PresenceAssumption, FS_Subset
  <1> QED  BY <1>1, FS_AddElement

LEMMA OneLess ==
    ASSUME NEW S \in SUBSET Consumers, NEW h \in S
    PROVE  /\ Cardinality(S \ {h}) = Cardinality(S) - 1
           /\ Cardinality(S \ {h}) \in Nat /\ Cardinality(S) \in Nat
  <1>1. IsFiniteSet(S) /\ IsFiniteSet(S \ {h})
    BY PresenceAssumption, FS_Subset
  <1> QED  BY <1>1, FS_RemoveElement, FS_CardinalityType

LEMMA PresenceBegins == Init => PresenceInv
  <1> SUFFICES ASSUME Init PROVE PresenceInv
    OBVIOUS
  <1>1. \A h \in Consumers : hook[h] = Off
    BY DEF Init
  <1>2. ControllerTypeOK
    BY PresenceAssumption, Types DEF Init, Off, Unmade, Runs, Controllers
  <1>3. MadeBefore
    BY <1>1 DEF MadeBefore, Init, Holds, Off
  <1>4. CountIsHolders
    <2> SUFFICES ASSUME NEW c \in Ids PROVE ctl[c].consumers = Cardinality(Holders(c))
      BY DEF CountIsHolders
    <2>1. Holders(c) = {}
      BY <1>1 DEF Holders, Off
    <2>2. ctl[c].consumers = 0
      BY DEF Init, Unmade
    <2> QED  BY <2>1, <2>2, FS_EmptySet
  <1>5. OneOpen
    BY DEF OneOpen, Init, Unmade
  <1> QED  BY <1>2, <1>3, <1>4, <1>5 DEF PresenceInv

-----------------------------------------------------------------------------
(* The three ways in which a step can change holders and counts *)

\* Nobody takes or gives back a controller.
LEMMA SameHolders ==
    ASSUME CountIsHolders,
           \A h \in Consumers : /\ Holds(hook[h])' <=> Holds(hook[h])
                                /\ Holds(hook[h]) => hook[h].ctl' = hook[h].ctl,
           \A c \in Ids : ctl[c].consumers' = ctl[c].consumers
    PROVE  CountIsHolders'
  <1> SUFFICES ASSUME NEW c \in Ids PROVE ctl[c].consumers' = Cardinality(Holders(c)')
    BY DEF CountIsHolders
  <1>1. Holders(c)' = Holders(c)
    BY DEF Holders, Holds
  <1> QED  BY <1>1 DEF CountIsHolders

\* One run takes m.
LEMMA OneTakes ==
    ASSUME CountIsHolders, NEW h \in Consumers, NEW m \in Ids,
           ~Holds(hook[h]), Holds(hook[h])', hook[h].ctl' = m,
           \A g \in Consumers \ {h} : hook[g]' = hook[g],
           ctl[m].consumers' = ctl[m].consumers + 1,
           \A c \in Ids \ {m} : ctl[c].consumers' = ctl[c].consumers
    PROVE  CountIsHolders'
  <1> SUFFICES ASSUME NEW c \in Ids PROVE ctl[c].consumers' = Cardinality(Holders(c)')
    BY DEF CountIsHolders
  <1>1. CASE c = m
    <2>1. Holders(c)' = Holders(c) \cup {h} /\ h \notin Holders(c) /\ Holders(c) \subseteq Consumers
      BY <1>1 DEF Holders, Holds
    <2> QED  BY <1>1, <2>1, OneMore DEF CountIsHolders
  <1>2. CASE c # m
    <2>1. Holders(c)' = Holders(c)
      BY <1>2 DEF Holders, Holds
    <2> QED  BY <1>2, <2>1 DEF CountIsHolders
  <1> QED  BY <1>1, <1>2

\* One run gives its controller back.
LEMMA OneGives ==
    ASSUME PresenceInv, NEW h \in Consumers, Holds(hook[h]),
           hook' = [hook EXCEPT ![h] = Off], ctl' = Released(hook[h].ctl)
    PROVE  /\ CountIsHolders' /\ hook' \in [Consumers -> Runs] /\ ctl' \in [Ids -> Controllers]
           /\ \A c \in Ids : ctl[c].open' = ctl[c].open
           /\ \A g \in Consumers : Holds(hook[g])' => hook[g]' = hook[g]
  <1> DEFINE m == hook[h].ctl
  <1>1. /\ m \in Ids /\ ctl \in [Ids -> Controllers] /\ hook \in [Consumers -> Runs]
        /\ h \in Holders(m) /\ made \in 0..MaxControllers /\ MaxControllers \in Nat
    BY Types, PresenceAssumption DEF PresenceInv, MadeBefore, Holders, Holds, Ids
  <1>2. /\ Cardinality(Holders(m) \ {h}) = ctl[m].consumers - 1
        /\ ctl[m].consumers - 1 \in Nat
    <2>1. Holders(m) \in SUBSET Consumers
      BY DEF Holders
    <2> QED  BY <1>1, <2>1, OneLess DEF PresenceInv, CountIsHolders
  <1>3. /\ \A g \in Consumers \ {h} : hook'[g] = hook[g]
        /\ hook'[h] = Off /\ hook' \in [Consumers -> Runs]
    BY <1>1 DEF Off, Runs
  <1>4. ctl'[m] = [ctl[m] EXCEPT !.consumers = @ - 1, !.timer = @ \/ ctl[m].consumers = 1]
    BY <1>1 DEF Released
  <1>5. \A c \in Ids \ {m} : ctl'[c] = ctl[c]
    BY <1>1 DEF Released
  <1>6. /\ ctl'[m] \in Controllers /\ ctl'[m].consumers = ctl[m].consumers - 1
        /\ ctl'[m].open = ctl[m].open
    <2> DEFINE n == ctl[m].consumers - 1
               t == ctl[m].timer \/ ctl[m].consumers = 1
               r == ctl[m]
    <2>1. n \in Nat /\ t \in BOOLEAN /\ r \in Controllers
      BY <1>1, <1>2
    <2>2. ctl'[m] = [r EXCEPT !.consumers = n, !.timer = t]
      BY <1>4
    <2> HIDE DEF n, t, r
    <2>3. ctl'[m] \in Controllers /\ ctl'[m].consumers = n /\ ctl'[m].open = r.open
      BY <2>1, <2>2 DEF Controllers
    <2> QED  BY <2>3 DEF n, r
  <1>7. ctl' \in [Ids -> Controllers]
    <2>1. ctl' = [ctl EXCEPT ![m] = ctl'[m]]
      BY <1>1 DEF Released
    <2> QED  BY <1>1, <1>6, <2>1
  <1>8. CountIsHolders'
    <2> SUFFICES ASSUME NEW c \in Ids PROVE ctl'[c].consumers = Cardinality(Holders(c)')
      BY DEF CountIsHolders
    <2>1. CASE c = m
      <3>1. Holders(c)' = Holders(c) \ {h}
        BY <1>3, <2>1 DEF Holders, Off
      <3> QED  BY <1>2, <1>6, <2>1, <3>1
    <2>2. CASE c # m
      <3>1. Holders(c)' = Holders(c)
        BY <1>3, <2>2 DEF Holders, Off
      <3> QED  BY <1>5, <2>2, <3>1 DEF PresenceInv, CountIsHolders
    <2> QED  BY <2>1, <2>2
  <1>9. \A g \in Consumers : Holds(hook[g])' => hook[g]' = hook[g]
    BY <1>3 DEF Holds, Off
  <1> QED  BY <1>3, <1>5, <1>6, <1>7, <1>8, <1>9

\* beginControllerRemoval: what the map loses is what is being removed.
LEMMA RemovalKeeps ==
    ASSUME PresenceInv, NEW c \in Ids, Removal(c)
    PROVE  /\ mapped' \in Ids \cup {0} /\ flight' \in Ids \cup {0}
           /\ mapped' \in 0..made
           /\ \A b \in Ids : b \in {mapped, flight} => b \in {mapped', flight'}
  BY Types, PresenceAssumption DEF PresenceInv, Removal, MadeBefore, Ids

\* Consumed: one more consumer of m, and nothing else of it but the timer.
LEMMA ConsumedCounts ==
    ASSUME ctl \in [Ids -> Controllers], NEW m \in Ids
    PROVE  /\ Consumed(m) \in [Ids -> Controllers]
           /\ Consumed(m)[m].consumers = ctl[m].consumers + 1
           /\ Consumed(m)[m].open = ctl[m].open
           /\ \A c \in Ids \ {m} : Consumed(m)[c] = ctl[c]
  <1>1. Consumed(m)[m] = [ctl[m] EXCEPT !.consumers = @ + 1, !.timer = FALSE]
    BY DEF Consumed
  <1>2. /\ Consumed(m)[m] \in Controllers
        /\ Consumed(m)[m].consumers = ctl[m].consumers + 1
        /\ Consumed(m)[m].open = ctl[m].open
    <2> DEFINE r == ctl[m]
               n == r.consumers + 1
               d == [r EXCEPT !.consumers = n, !.timer = FALSE]
    <2>1. r \in Controllers /\ Consumed(m)[m] = d
      BY <1>1
    <2>2. n \in Nat
      BY <2>1 DEF Controllers
    <2> HIDE DEF r, n
    <2>3. d \in Controllers /\ d.consumers = n /\ d.open = r.open
      BY <2>1, <2>2 DEF Controllers
    <2> QED  BY <2>1, <2>3 DEF r, n
  <1>3. \A c \in Ids \ {m} : Consumed(m)[c] = ctl[c]
    BY DEF Consumed
  <1> QED  BY <1>2, <1>3 DEF Consumed

\* acquireController, from before its first step or after the wait.
LEMMA AcquireKeeps ==
    ASSUME PresenceInv, NEW h \in Consumers, NEW by \in Accounts \cup {"nobody"},
           ~Holds(hook[h]), Acquire(h, by), UNCHANGED <<account, made>>
    PROVE  PresenceInv'
  <1>1. /\ account \in Accounts \cup {"nobody"} /\ hook \in [Consumers -> Runs]
        /\ ctl \in [Ids -> Controllers] /\ mapped \in Ids \cup {0} /\ flight \in Ids \cup {0}
        /\ made \in 0..MaxControllers /\ CountIsHolders /\ OneOpen /\ MadeBefore
    BY Types DEF PresenceInv
  <1>2. CASE /\ mapped # 0 /\ ctl' = Consumed(mapped) /\ UNCHANGED <<mapped, flight>>
             /\ hook' = [hook EXCEPT ![h].at = "got", ![h].ctl = mapped, ![h].by = by]
    <2>1. mapped \in Ids /\ mapped \in 1..made
      BY <1>1, <1>2 DEF MadeBefore
    <2>2. /\ hook'[h] = [hook[h] EXCEPT !.at = "got", !.ctl = mapped, !.by = by]
          /\ \A g \in Consumers \ {h} : hook'[g] = hook[g]
      BY <1>1, <1>2
    <2>3. hook'[h] \in Runs /\ Holds(hook'[h]) /\ hook'[h].ctl = mapped
      <3> DEFINE r == hook[h]
      <3>1. r \in Runs /\ hook'[h] = [r EXCEPT !.at = "got", !.ctl = mapped, !.by = by]
        BY <1>1, <2>2
      <3> HIDE DEF r
      <3> QED  BY <2>1, <3>1 DEF Runs, Holds
    <2>4. hook' \in [Consumers -> Runs]
      BY <1>1, <1>2, <2>2, <2>3
    <2>5. ControllerTypeOK'
      BY <1>1, <1>2, <2>4, <2>1, ConsumedCounts DEF ControllerTypeOK, Runs, Controllers
    <2>6. MadeBefore'
      BY <1>1, <1>2, <2>1, <2>2, <2>3 DEF MadeBefore
    <2>7. CountIsHolders'
      BY <1>1, <1>2, <2>1, <2>2, <2>3, ConsumedCounts, OneTakes DEF Holds
    <2>8. OneOpen'
      BY <1>1, <1>2, <2>1, ConsumedCounts DEF OneOpen
    <2> QED  BY <2>5, <2>6, <2>7, <2>8 DEF PresenceInv
  <1>3. CASE /\ mapped # 0 /\ Removal(mapped) /\ UNCHANGED ctl
             /\ hook' = [hook EXCEPT ![h].at = "switch", ![h].by = by]
    <2>1. /\ hook'[h] = [hook[h] EXCEPT !.at = "switch", !.by = by]
          /\ \A g \in Consumers \ {h} : hook'[g] = hook[g]
      BY <1>1, <1>3
    <2>2. hook'[h] \in Runs /\ ~Holds(hook'[h])
      <3> DEFINE r == hook[h]
      <3>1. r \in Runs /\ hook'[h] = [r EXCEPT !.at = "switch", !.by = by]
        BY <1>1, <2>1
      <3> HIDE DEF r
      <3> QED  BY <3>1 DEF Runs, Holds
    <2>3. hook' \in [Consumers -> Runs]
      BY <1>1, <1>3, <2>1, <2>2
    <2>4. mapped \in Ids
      BY <1>1, <1>3
    <2>5. ControllerTypeOK'
      BY <1>1, <1>3, <2>3, <2>4, RemovalKeeps DEF ControllerTypeOK, Runs, Controllers
    <2>6. MadeBefore'
      BY <1>1, <1>3, <2>1, <2>2, <2>4, RemovalKeeps DEF MadeBefore
    <2>7. CountIsHolders'
      BY <1>1, <1>3, <2>1, <2>2, SameHolders DEF Holds
    <2>8. OneOpen'
      BY <1>1, <1>3, <2>4, RemovalKeeps DEF OneOpen
    <2> QED  BY <2>5, <2>6, <2>7, <2>8 DEF PresenceInv
  <1>4. CASE /\ hook' = [hook EXCEPT ![h].at = "micro", ![h].by = by]
             /\ UNCHANGED <<mapped, flight, ctl>>
    <2>1. /\ hook'[h] = [hook[h] EXCEPT !.at = "micro", !.by = by]
          /\ \A g \in Consumers \ {h} : hook'[g] = hook[g]
      BY <1>1, <1>4
    <2>2. hook'[h] \in Runs /\ ~Holds(hook'[h])
      <3> DEFINE r == hook[h]
      <3>1. r \in Runs /\ hook'[h] = [r EXCEPT !.at = "micro", !.by = by]
        BY <1>1, <2>1
      <3> HIDE DEF r
      <3> QED  BY <3>1 DEF Runs, Holds
    <2>3. hook' \in [Consumers -> Runs]
      BY <1>1, <1>4, <2>1, <2>2
    <2>4. ControllerTypeOK'
      BY <1>1, <1>4, <2>3 DEF ControllerTypeOK, Runs, Controllers
    <2>5. MadeBefore'
      BY <1>1, <1>4, <2>1, <2>2 DEF MadeBefore
    <2>6. CountIsHolders'
      BY <1>1, <1>4, <2>1, <2>2, SameHolders DEF Holds
    <2>7. OneOpen'
      BY <1>1, <1>4 DEF OneOpen
    <2> QED  BY <2>4, <2>5, <2>6, <2>7 DEF PresenceInv
  <1> QED  BY <1>2, <1>3, <1>4 DEF Acquire

-----------------------------------------------------------------------------
(* The steps *)

\* A step that moves one run h between labels at which nothing is held.
LEMMA RunKeeps ==
    ASSUME PresenceInv, NEW h \in Consumers, hook' \in [Consumers -> Runs],
           \A g \in Consumers : /\ Holds(hook'[g]) <=> Holds(hook[g])
                                /\ hook'[g].ctl = hook[g].ctl,
           UNCHANGED <<account, mapped, flight, ctl, made>>
    PROVE  PresenceInv'
  <1>1. ControllerTypeOK'
    BY DEF PresenceInv, ControllerTypeOK, Runs
  <1>2. MadeBefore' /\ OneOpen'
    BY DEF PresenceInv, MadeBefore, OneOpen
  <1>3. CountIsHolders'
    BY SameHolders DEF PresenceInv, Holds
  <1> QED  BY <1>1, <1>2, <1>3 DEF PresenceInv

LEMMA MountKeeps ==
    ASSUME PresenceInv, NEW h \in Consumers, Mount(h)
    PROVE  PresenceInv'
  <1>1. ~Holds(hook[h]) /\ account \in Accounts /\ hook \in [Consumers -> Runs]
    BY Types DEF Mount, Off, Holds, PresenceInv
  <1>2. CASE flight # 0
    <2> DEFINE r == hook[h]
               q == [r EXCEPT !.at = "wait", !.by = account]
    <2>1. hook' = [hook EXCEPT ![h] = q] /\ UNCHANGED <<account, mapped, flight, ctl, made>>
      BY <1>1, <1>2 DEF Mount
    <2>2. r \in Runs /\ ~Holds(r)
      BY <1>1
    <2> HIDE DEF r
    <2>3. q \in Runs /\ ~Holds(q) /\ q.ctl = r.ctl
      BY <1>1, <2>2 DEF Runs, Holds
    <2> HIDE DEF q
    <2>4. /\ hook' \in [Consumers -> Runs] /\ hook'[h] = q
          /\ \A g \in Consumers \ {h} : hook'[g] = hook[g]
      BY <1>1, <2>1, <2>3
    <2> QED  BY <1>1, <2>1, <2>3, <2>4, RunKeeps DEF r
  <1>3. CASE flight = 0
    BY <1>1, <1>3, AcquireKeeps DEF Mount
  <1> QED  BY <1>2, <1>3

LEMMA ResumeKeeps ==
    ASSUME PresenceInv, NEW h \in Consumers, Resume(h)
    PROVE  PresenceInv'
  <1>1. ~Holds(hook[h]) /\ hook[h].by \in Accounts \cup {"nobody"}
    BY Types DEF Resume, Holds, PresenceInv, Runs
  <1> QED  BY <1>1, AcquireKeeps DEF Resume

LEMMA CreateKeeps ==
    ASSUME PresenceInv, NEW h \in Consumers, Create(h)
    PROVE  PresenceInv'
  <1>1. /\ account \in Accounts \cup {"nobody"} /\ hook \in [Consumers -> Runs]
        /\ ctl \in [Ids -> Controllers] /\ mapped \in Ids \cup {0} /\ flight \in Ids \cup {0}
        /\ made \in 0..MaxControllers /\ CountIsHolders /\ OneOpen /\ MadeBefore
    BY Types DEF PresenceInv
  <1>2. ~Holds(hook[h])
    BY DEF Create, Holds
  <1> DEFINE r == hook[h]
  <1>3. r \in Runs
    BY <1>1
  <1>4. ASSUME NEW m \in Ids, hook' = [hook EXCEPT ![h].at = "got", ![h].ctl = m]
        PROVE  /\ hook' \in [Consumers -> Runs] /\ Holds(hook'[h]) /\ hook'[h].ctl = m
               /\ \A g \in Consumers \ {h} : hook'[g] = hook[g]
    <2> DEFINE q == [r EXCEPT !.at = "got", !.ctl = m]
    <2>1. hook' = [hook EXCEPT ![h] = q]
      BY <1>1, <1>4
    <2> HIDE DEF r
    <2>2. q \in Runs /\ q.at = "got" /\ q.ctl = m
      BY <1>3 DEF Runs
    <2> HIDE DEF q
    <2> QED  BY <1>1, <2>1, <2>2 DEF Holds
  <1> HIDE DEF r
  <1>5. CASE /\ mapped # 0 /\ ctl' = Consumed(mapped)
             /\ hook' = [hook EXCEPT ![h].at = "got", ![h].ctl = mapped]
             /\ UNCHANGED <<account, mapped, flight, made>>
    <2>1. mapped \in Ids /\ mapped \in 1..made
      BY <1>1, <1>5 DEF MadeBefore
    <2>2. /\ hook' \in [Consumers -> Runs] /\ Holds(hook'[h]) /\ hook'[h].ctl = mapped
          /\ \A g \in Consumers \ {h} : hook'[g] = hook[g]
      BY <1>4, <1>5, <2>1
    <2>3. ControllerTypeOK'
      BY <1>1, <1>5, <2>1, <2>2, ConsumedCounts DEF ControllerTypeOK, Runs, Controllers
    <2>4. MadeBefore'
      BY <1>1, <1>5, <2>1, <2>2 DEF MadeBefore
    <2>5. CountIsHolders'
      BY <1>1, <1>2, <1>5, <2>1, <2>2, ConsumedCounts, OneTakes DEF Holds
    <2>6. OneOpen'
      BY <1>1, <1>5, <2>1, ConsumedCounts DEF OneOpen
    <2> QED  BY <2>3, <2>4, <2>5, <2>6 DEF PresenceInv
  <1>6. CASE mapped = 0
    <2> DEFINE m == made + 1
               d == [open |-> TRUE, consumers |-> 1, timer |-> FALSE, user |-> hook[h].by]
    <2>1. /\ made' = m /\ mapped' = m /\ ctl' = [ctl EXCEPT ![m] = d]
          /\ hook' = [hook EXCEPT ![h].at = "got", ![h].ctl = m]
          /\ UNCHANGED <<account, flight>> /\ made < MaxControllers
      BY <1>6 DEF Create
    <2>2. m \in Ids /\ m \in 0..MaxControllers /\ m \in 1..m /\ m \in 0..m
      BY <1>1, <2>1, PresenceAssumption DEF Ids
    <2>3. hook[h].by \in Accounts \cup {"nobody"}
      BY <1>1 DEF Runs
    <2>4. d \in Controllers /\ d.consumers = 1
      BY <2>3 DEF Controllers
    <2>5. Holders(m) = {}
      BY <1>1, <2>2, PresenceAssumption DEF MadeBefore, Holders, Holds
    <2>6. ctl[m].consumers = 0
      BY <1>1, <2>2, <2>5, FS_EmptySet DEF CountIsHolders
    <2>7. \A g \in Consumers : Holds(hook[g]) => hook[g].ctl \in 1..m
      BY <1>1, PresenceAssumption DEF MadeBefore
    <2> HIDE DEF d
    <2>8. /\ ctl' \in [Ids -> Controllers] /\ ctl'[m].consumers = 1
          /\ \A c \in Ids \ {m} : ctl'[c] = ctl[c]
      BY <1>1, <2>1, <2>2, <2>4
    <2>9. /\ hook' \in [Consumers -> Runs] /\ Holds(hook'[h]) /\ hook'[h].ctl = m
          /\ \A g \in Consumers \ {h} : hook'[g] = hook[g]
      BY <1>4, <2>1, <2>2
    <2> HIDE DEF m
    <2>10. ControllerTypeOK'
      BY <1>1, <2>1, <2>2, <2>8, <2>9 DEF ControllerTypeOK, Runs, Controllers
    <2>11. MadeBefore'
      <3>1. \A g \in Consumers : Holds(hook'[g]) => hook'[g].ctl \in 1..m
        <4> SUFFICES ASSUME NEW g \in Consumers, Holds(hook'[g]) PROVE hook'[g].ctl \in 1..m
          OBVIOUS
        <4>1. CASE g = h  BY <2>2, <2>9, <4>1
        <4>2. CASE g # h  BY <2>7, <2>9, <4>2
        <4> QED  BY <4>1, <4>2
      <3> QED  BY <2>1, <2>2, <3>1 DEF MadeBefore
    <2>12. CountIsHolders'
      <3>1. ctl'[m].consumers = ctl[m].consumers + 1
        BY <2>6, <2>8
      <3> QED  BY <1>1, <1>2, <2>2, <2>8, <2>9, <3>1, OneTakes DEF Holds
    <2>13. OneOpen'
      BY <1>1, <1>6, <2>1, <2>2, <2>8 DEF OneOpen, Ids
    <2> QED  BY <2>10, <2>11, <2>12, <2>13 DEF PresenceInv
  <1> QED  BY <1>5, <1>6 DEF Create

\* A run gives its controller back.
LEMMA ReleaseKeeps ==
    ASSUME PresenceInv, NEW h \in Consumers, Holds(hook[h]),
           hook' = [hook EXCEPT ![h] = Off], ctl' = Released(hook[h].ctl),
           UNCHANGED <<account, mapped, flight, made>>
    PROVE  PresenceInv'
  <1>1. /\ CountIsHolders' /\ hook' \in [Consumers -> Runs] /\ ctl' \in [Ids -> Controllers]
        /\ \A c \in Ids : ctl[c].open' = ctl[c].open
        /\ \A g \in Consumers : Holds(hook[g])' => hook[g]' = hook[g]
    BY OneGives
  <1>2. ControllerTypeOK'
    BY <1>1 DEF PresenceInv, ControllerTypeOK, Runs, Controllers
  <1>3. MadeBefore' /\ OneOpen'
    BY <1>1 DEF PresenceInv, MadeBefore, OneOpen, Holds
  <1> QED  BY <1>1, <1>2, <1>3 DEF PresenceInv

LEMMA AttachKeeps ==
    ASSUME PresenceInv, NEW h \in Consumers, Attach(h)
    PROVE  PresenceInv'
  <1>1. Holds(hook[h]) /\ hook \in [Consumers -> Runs]
    BY Types DEF Attach, Holds, PresenceInv
  <1>2. CASE hook[h].cancelled
    BY <1>1, <1>2, ReleaseKeeps DEF Attach
  <1>3. CASE ~hook[h].cancelled
    <2> DEFINE r == hook[h]
               q == [r EXCEPT !.at = "held"]
    <2>1. hook' = [hook EXCEPT ![h] = q] /\ UNCHANGED <<account, mapped, flight, ctl, made>>
      BY <1>1, <1>3 DEF Attach
    <2>2. r \in Runs
      BY <1>1
    <2> HIDE DEF r
    <2>3. q \in Runs /\ Holds(q) /\ q.ctl = r.ctl
      BY <2>2 DEF Runs, Holds
    <2> HIDE DEF q
    <2>4. /\ hook' \in [Consumers -> Runs] /\ hook'[h] = q
          /\ \A g \in Consumers \ {h} : hook'[g] = hook[g]
      BY <1>1, <2>1, <2>3
    <2> QED  BY <1>1, <2>1, <2>3, <2>4, RunKeeps DEF r
  <1> QED  BY <1>2, <1>3

LEMMA UnmountKeeps ==
    ASSUME PresenceInv, NEW h \in Consumers, Unmount(h)
    PROVE  PresenceInv'
  <1>1. hook \in [Consumers -> Runs]
    BY Types DEF PresenceInv
  <1>2. CASE hook[h].at = "held"
    BY <1>2, ReleaseKeeps DEF Unmount, Holds
  <1>3. CASE hook[h].at # "held"
    <2> DEFINE r == hook[h]
               q == [r EXCEPT !.cancelled = TRUE]
    <2>1. hook' = [hook EXCEPT ![h] = q] /\ UNCHANGED <<account, mapped, flight, ctl, made>>
      BY <1>1, <1>3 DEF Unmount
    <2>2. r \in Runs
      BY <1>1
    <2> HIDE DEF r
    <2>3. q \in Runs /\ q.at = r.at /\ q.ctl = r.ctl
      BY <2>2 DEF Runs
    <2> HIDE DEF q
    <2>4. /\ hook' \in [Consumers -> Runs] /\ hook'[h] = q
          /\ \A g \in Consumers \ {h} : hook'[g] = hook[g]
      BY <1>1, <2>1, <2>3
    <2> QED  BY <1>1, <2>1, <2>3, <2>4, RunKeeps DEF r, Holds
  <1> QED  BY <1>2, <1>3

\* A step that leaves the runs and the counts alone.
LEMMA ControllersKeep ==
    ASSUME PresenceInv, UNCHANGED <<hook, made>>,
           account' \in Accounts \cup {"nobody"}, ctl' \in [Ids -> Controllers],
           \A c \in Ids : /\ ctl'[c].consumers = ctl[c].consumers
                          /\ ctl'[c].open => ctl[c].open,
           mapped' \in Ids \cup {0}, flight' \in Ids \cup {0}, mapped' \in 0..made,
           \A b \in Ids : b \in {mapped, flight} => b \in {mapped', flight'}
    PROVE  PresenceInv'
  <1>1. ControllerTypeOK'
    BY DEF PresenceInv, ControllerTypeOK, Controllers
  <1>2. MadeBefore' /\ OneOpen'
    BY DEF PresenceInv, MadeBefore, OneOpen, Holds
  <1>3. CountIsHolders'
    BY SameHolders DEF PresenceInv, Holds
  <1> QED  BY <1>1, <1>2, <1>3 DEF PresenceInv

LEMMA DisposeKeeps ==
    ASSUME PresenceInv, NEW c \in Ids, Dispose(c)
    PROVE  PresenceInv'
  <1>1. /\ ctl \in [Ids -> Controllers] /\ account \in Accounts \cup {"nobody"}
        /\ mapped \in Ids \cup {0} /\ flight \in Ids \cup {0} /\ mapped \in 0..made
    BY Types DEF PresenceInv, MadeBefore
  <1> DEFINE r == ctl[c]
             d == [r EXCEPT !.timer = FALSE]
  <1>2. ctl' = [ctl EXCEPT ![c] = d] /\ r \in Controllers
    BY <1>1 DEF Dispose
  <1> HIDE DEF r
  <1>3. d \in Controllers /\ d.consumers = r.consumers /\ d.open = r.open
    BY <1>2 DEF Controllers
  <1> HIDE DEF d
  <1>4. /\ ctl' \in [Ids -> Controllers]
        /\ \A b \in Ids : /\ ctl'[b].consumers = ctl[b].consumers
                          /\ ctl'[b].open = ctl[b].open
    BY <1>1, <1>2, <1>3 DEF r
  <1>5. /\ mapped' \in Ids \cup {0} /\ flight' \in Ids \cup {0} /\ mapped' \in 0..made
        /\ \A b \in Ids : b \in {mapped, flight} => b \in {mapped', flight'}
    BY <1>1, RemovalKeeps DEF Dispose
  <1> QED  BY <1>1, <1>4, <1>5, ControllersKeep DEF Dispose

LEMMA DoneKeeps ==
    ASSUME PresenceInv, RemovalDone
    PROVE  PresenceInv'
  <1>1. /\ account \in Accounts \cup {"nobody"} /\ hook \in [Consumers -> Runs]
        /\ ctl \in [Ids -> Controllers] /\ mapped \in Ids \cup {0} /\ flight \in Ids
        /\ made \in 0..MaxControllers /\ CountIsHolders /\ OneOpen /\ MadeBefore
    BY Types DEF PresenceInv, RemovalDone
  <1> DEFINE r == ctl[flight]
             d == [r EXCEPT !.open = FALSE]
  <1>2. ctl' = [ctl EXCEPT ![flight] = d] /\ r \in Controllers
    BY <1>1 DEF RemovalDone
  <1> HIDE DEF r
  <1>3. d \in Controllers /\ d.consumers = r.consumers /\ d.open = FALSE
    BY <1>2 DEF Controllers
  <1> HIDE DEF d
  <1>4. /\ ctl' \in [Ids -> Controllers]
        /\ \A c \in Ids : ctl'[c].consumers = ctl[c].consumers
        /\ ctl'[flight].open = FALSE
        /\ \A c \in Ids \ {flight} : ctl'[c] = ctl[c]
    BY <1>1, <1>2, <1>3 DEF r
  <1>5. ASSUME NEW h \in Consumers
        PROVE  hook'[h] \in Runs /\ hook'[h].ctl = hook[h].ctl /\ (Holds(hook'[h]) <=> Holds(hook[h]))
    <2> DEFINE q == hook[h]
    <2>1. hook'[h] = CASE q.at = "wait"   -> [q EXCEPT !.at = "after"]
                       [] q.at = "switch" -> [q EXCEPT !.at = "micro"]
                       [] OTHER           -> q
      BY DEF RemovalDone
    <2>2. q \in Runs
      BY <1>1
    <2> HIDE DEF q
    <2>3. CASE q.at = "wait"
      <3> DEFINE w == [q EXCEPT !.at = "after"]
      <3>1. hook'[h] = w
        BY <2>1, <2>3
      <3>2. w \in Runs /\ w.ctl = q.ctl /\ ~Holds(w) /\ ~Holds(q)
        BY <2>2, <2>3 DEF Runs, Holds
      <3> HIDE DEF w
      <3> QED  BY <3>1, <3>2 DEF q
    <2>4. CASE q.at = "switch"
      <3> DEFINE w == [q EXCEPT !.at = "micro"]
      <3>1. hook'[h] = w
        BY <2>1, <2>4
      <3>2. w \in Runs /\ w.ctl = q.ctl /\ ~Holds(w) /\ ~Holds(q)
        BY <2>2, <2>4 DEF Runs, Holds
      <3> HIDE DEF w
      <3> QED  BY <3>1, <3>2 DEF q
    <2>5. CASE q.at \notin {"wait", "switch"}
      <3>1. hook'[h] = q
        BY <2>1, <2>5
      <3> QED  BY <2>2, <3>1 DEF q
    <2> QED  BY <2>3, <2>4, <2>5
  <1>6. hook' \in [Consumers -> Runs]
    <2>1. hook' = [h \in Consumers |-> hook'[h]]
      BY DEF RemovalDone
    <2> QED  BY <1>5, <2>1
  <1>7. UNCHANGED <<account, mapped, made>> /\ flight' = 0
    BY DEF RemovalDone
  <1>8. ControllerTypeOK'
    BY <1>1, <1>4, <1>6, <1>7 DEF ControllerTypeOK, Runs, Controllers
  <1>9. MadeBefore'
    BY <1>1, <1>5, <1>7 DEF MadeBefore
  <1>10. CountIsHolders'
    BY <1>1, <1>4, <1>5, SameHolders
  <1>11. OneOpen'
    BY <1>1, <1>4, <1>7 DEF OneOpen
  <1> QED  BY <1>8, <1>9, <1>10, <1>11 DEF PresenceInv

LEMMA SignOutKeeps ==
    ASSUME PresenceInv, SignOut
    PROVE  PresenceInv'
  <1>1. /\ ctl \in [Ids -> Controllers] /\ mapped \in Ids \cup {0} /\ flight \in Ids \cup {0}
        /\ mapped \in 0..made
    BY Types DEF PresenceInv, MadeBefore
  <1>2. ASSUME NEW c \in Ids
        PROVE  ctl'[c] \in Controllers /\ ctl'[c].consumers = ctl[c].consumers /\ ctl'[c].open = FALSE
    <2> DEFINE r == ctl[c]
               d == [r EXCEPT !.open = FALSE]
    <2>1. ctl'[c] = d /\ r \in Controllers
      BY <1>1 DEF SignOut
    <2> HIDE DEF r
    <2>2. d \in Controllers /\ d.consumers = r.consumers /\ d.open = FALSE
      BY <2>1 DEF Controllers
    <2> HIDE DEF d
    <2> QED  BY <2>1, <2>2 DEF r
  <1>3. ctl' \in [Ids -> Controllers]
    <2>1. ctl' = [c \in Ids |-> ctl'[c]]
      BY DEF SignOut
    <2> QED  BY <1>2, <2>1
  <1> QED  BY <1>1, <1>2, <1>3, ControllersKeep DEF SignOut

LEMMA PresenceKept == PresenceInv /\ [Next]_vars => PresenceInv'
  <1> SUFFICES ASSUME PresenceInv, [Next]_vars PROVE PresenceInv'
    OBVIOUS
  <1>1. ASSUME NEW u \in Accounts, SignIn(u) \/ Switch(u)  PROVE PresenceInv'
    BY <1>1, ControllersKeep, Types DEF SignIn, Switch, PresenceInv, MadeBefore
  <1>2. CASE UNCHANGED vars
    BY <1>2, ControllersKeep, Types DEF vars, PresenceInv, MadeBefore
  <1> QED
    BY <1>1, <1>2, MountKeeps, ResumeKeeps, CreateKeeps, AttachKeeps, UnmountKeeps,
       DisposeKeeps, DoneKeeps, SignOutKeeps DEF Next

\* Every run of the effect and every controller is of its type.
THEOREM PresenceTypes == Spec => []ControllerTypeOK
  <1>1. PresenceInv => ControllerTypeOK  BY DEF PresenceInv
  <1> QED  BY <1>1, PresenceBegins, PresenceKept, PTL DEF Spec

\* For any number of rows and screens that show a conversation, of accounts
\* and of removals: the count of its controller never drifts, and no open
\* channel is forgotten.
THEOREM OneChannelServes == Spec => []OneChannel
  <1>1. PresenceInv => OneChannel  BY DEF PresenceInv, OneChannel
  <1> QED  BY <1>1, PresenceBegins, PresenceKept, PTL DEF Spec

-----------------------------------------------------------------------------
(* The unread badge *)

\* The inductive strengthening: the answer under way as well as the data.
BadgeInv ==
    /\ Badge!BadgeTypeOK
    /\ badge.loaded
    /\ ~listNews =>
          /\ badge.fetch = "served" => badge.got <= Badge!Unread
          /\ badge.fetch = "idle"   => badge.data <= Badge!Unread

\* What the operations on a query leave in its fields.
LEMMA WrittenQuery ==
    ASSUME NEW D, NEW q \in Badge!Queries(D), NEW v \in D
    PROVE  /\ Badge!Written(q, v) \in Badge!Queries(D) /\ Badge!Written(q, v).loaded
           /\ Badge!Written(q, v).data = v /\ Badge!Written(q, v).got = q.got
           /\ Badge!Written(q, v).fetch = q.fetch
  <1>1. Badge!Written(q, v) \in Badge!Queries(D)  BY DEF Badge!Queries, Badge!Written
  <1>2. Badge!Written(q, v).loaded  BY DEF Badge!Queries, Badge!Written
  <1>3. /\ Badge!Written(q, v).data = v /\ Badge!Written(q, v).got = q.got
        /\ Badge!Written(q, v).fetch = q.fetch
    BY DEF Badge!Queries, Badge!Written
  <1> QED  BY <1>1, <1>2, <1>3

LEMMA RefetchedQuery ==
    ASSUME NEW D, NEW q \in Badge!Queries(D), q.loaded
    PROVE  /\ Badge!Refetched(q) \in Badge!Queries(D) /\ Badge!Refetched(q).loaded
           /\ Badge!Refetched(q).data = q.data /\ Badge!Refetched(q).fetch = "sent"
  <1>1. Badge!Refetched(q) = [q EXCEPT !.fetch = "sent"]  BY DEF Badge!Refetched, Badge!Joins
  <1>2. [q EXCEPT !.fetch = "sent"] \in Badge!Queries(D)  BY DEF Badge!Queries
  <1>3. /\ [q EXCEPT !.fetch = "sent"].data = q.data
        /\ [q EXCEPT !.fetch = "sent"].fetch = "sent"
    BY DEF Badge!Queries
  <1>4. [q EXCEPT !.fetch = "sent"].loaded = q.loaded  BY DEF Badge!Queries
  <1> QED  BY <1>1, <1>2, <1>3, <1>4

LEMMA ServedQuery ==
    ASSUME NEW D, NEW q \in Badge!Queries(D), NEW v \in D
    PROVE  /\ Badge!Served(q, v) \in Badge!Queries(D) /\ Badge!Served(q, v).loaded = q.loaded
           /\ Badge!Served(q, v).fetch = "served" /\ Badge!Served(q, v).got = v
  <1>1. Badge!Served(q, v) \in Badge!Queries(D)  BY DEF Badge!Queries, Badge!Served
  <1>2. Badge!Served(q, v).loaded = q.loaded  BY DEF Badge!Queries, Badge!Served
  <1>3. Badge!Served(q, v).fetch = "served" /\ Badge!Served(q, v).got = v
    BY DEF Badge!Queries, Badge!Served
  <1> QED  BY <1>1, <1>2, <1>3

LEMMA ArrivedQuery ==
    ASSUME NEW D, NEW q \in Badge!Queries(D), NEW no \in D
    PROVE  /\ Badge!Arrived(q, no) \in Badge!Queries(D) /\ Badge!Arrived(q, no).loaded
           /\ Badge!Arrived(q, no).data = q.got /\ Badge!Arrived(q, no).fetch = "idle"
  <1>1. Badge!Arrived(q, no) \in Badge!Queries(D)  BY DEF Badge!Queries, Badge!Arrived
  <1>2. /\ Badge!Arrived(q, no).loaded
        /\ Badge!Arrived(q, no).data = q.got /\ Badge!Arrived(q, no).fetch = "idle"
    BY DEF Badge!Arrived
  <1> QED  BY <1>1, <1>2

LEMMA NoQuery ==
    ASSUME NEW D, NEW no \in D
    PROVE  Badge!Unloaded(no) \in Badge!Queries(D) /\ Badge!Unloaded(no).fetch = "idle"
  BY DEF Badge!Queries, Badge!Unloaded

LEMMA BadgeBegins ==
    ASSUME Badge!UnreadBadgeAssumption, Badge!Init
    PROVE  BadgeInv
  <1>1. 0 \in 0..MaxRows  BY DEF Badge!UnreadBadgeAssumption
  <1>2. Badge!Unloaded(0) \in Badge!Queries(0..MaxRows) /\ Badge!Unloaded(0).fetch = "idle"
    BY <1>1, NoQuery
  <1>3. /\ badge \in Badge!Queries(0..MaxRows) /\ badge.loaded
        /\ badge.data = 0 /\ badge.fetch = "idle"
    BY <1>1, <1>2, WrittenQuery DEF Badge!Init
  <1>4. Badge!BadgeTypeOK
    <2>1. messages \in 0..MaxRows /\ seen \in 0..messages /\ badgeOpens \in 0..MaxOpens
      BY DEF Badge!Init, Badge!UnreadBadgeAssumption
    <2>2. /\ badgeNews \in BOOLEAN /\ listNews \in BOOLEAN /\ badgeOpen \in BOOLEAN /\ ~badgeNews
          /\ badgeKind \in ChatKinds /\ badgeMarks = {}
      BY DEF Badge!Init
    <2> QED  BY <1>3, <2>1, <2>2 DEF Badge!BadgeTypeOK
  <1> QED
    BY <1>3, <1>4 DEF Badge!Init, BadgeInv, Badge!Unread

LEMMA BadgeKept ==
    ASSUME Badge!UnreadBadgeAssumption, BadgeInv, [Badge!Next]_(Badge!vars)
    PROVE  BadgeInv'
  <1> USE DEF Badge!UnreadBadgeAssumption
  <1>0. /\ badge.loaded
        /\ messages \in Nat /\ seen \in Nat /\ seen <= messages /\ messages <= MaxRows /\ MaxRows \in Nat
        /\ badge \in Badge!Queries(0..MaxRows) /\ 0 \in 0..MaxRows
    BY DEF BadgeInv, Badge!BadgeTypeOK
  <1>r. Badge!Unread \in 0..MaxRows
    BY <1>0 DEF Badge!Unread
  <1>1. CASE Badge!Message
    <2>1. Badge!BadgeTypeOK'
      BY <1>0, <1>1 DEF Badge!Message, BadgeInv, Badge!BadgeTypeOK
    <2> QED  BY <1>1, <2>1, <1>0 DEF Badge!Message, BadgeInv
  <1>2. CASE Badge!ServeMark
    <2>1. PICK told \in BOOLEAN :
             /\ told <=> (badgeKind = "room" \/ Badge!Unread > 0)
             /\ \/ /\ seen' = messages
                   /\ badgeNews' = (badgeNews \/ (badgeOpen /\ badgeKind = "direct" /\ told))
                   /\ listNews' = (listNews \/ told)
                \/ UNCHANGED <<seen, badgeNews, listNews>>
      BY <1>2 DEF Badge!ServeMark
    <2>2. /\ UNCHANGED <<badgeKind, messages, badgeOpen, badgeOpens, badge>>
          /\ badgeMarks' \subseteq {"asked", "done"}
      BY <1>2 DEF Badge!ServeMark, BadgeInv, Badge!BadgeTypeOK
    <2>3. Badge!BadgeTypeOK'
      BY <1>0, <2>1, <2>2 DEF BadgeInv, Badge!BadgeTypeOK
    <2>4. ~listNews' => ~listNews /\ Badge!Unread' = Badge!Unread
      BY <1>0, <2>1, <2>2 DEF Badge!Unread, BadgeInv, Badge!BadgeTypeOK
    <2> QED  BY <2>2, <2>3, <2>4 DEF BadgeInv
  <1>3. CASE Badge!ServeBadge
    <2>1. /\ badge' \in Badge!Queries(0..MaxRows) /\ badge'.loaded
          /\ badge'.fetch = "served" /\ badge'.got = Badge!Unread
      BY <1>0, <1>r, <1>3, ServedQuery DEF Badge!ServeBadge
    <2>2. UNCHANGED <<badgeKind, messages, seen, badgeNews, listNews, badgeOpen, badgeOpens,
                      badgeMarks>>
      BY <1>3 DEF Badge!ServeBadge
    <2> QED  BY <1>0, <2>1, <2>2 DEF BadgeInv, Badge!BadgeTypeOK, Badge!Unread
  <1>4. CASE Badge!BadgeArrives
    <2>1. /\ badge' \in Badge!Queries(0..MaxRows) /\ badge'.loaded
          /\ badge'.fetch = "idle" /\ badge'.data = badge.got /\ badge.fetch = "served"
      BY <1>0, <1>4, ArrivedQuery DEF Badge!BadgeArrives
    <2>2. UNCHANGED <<badgeKind, messages, seen, badgeNews, listNews, badgeOpen, badgeOpens,
                      badgeMarks>>
      BY <1>4 DEF Badge!BadgeArrives
    <2> QED  BY <2>1, <2>2 DEF BadgeInv, Badge!BadgeTypeOK, Badge!Unread
  <1>5. CASE Badge!ListEvent
    <2>1. badge' \in Badge!Queries(0..MaxRows) /\ badge'.fetch = "sent" /\ badge'.loaded
      BY <1>0, <1>5, RefetchedQuery DEF Badge!ListEvent
    <2>2. UNCHANGED <<badgeKind, messages, seen, badgeNews, badgeOpen, badgeOpens, badgeMarks>> /\ listNews' = FALSE
      BY <1>5 DEF Badge!ListEvent
    <2> QED  BY <2>1, <2>2 DEF BadgeInv, Badge!BadgeTypeOK
  <1>6. CASE Badge!Open
    <2>1. /\ badge' \in Badge!Queries(0..MaxRows) /\ badge'.loaded /\ badge'.fetch = badge.fetch
          /\ badge'.got = badge.got
          /\ badge'.data = badge.data \/ badge'.data = 0
      BY <1>0, <1>6, WrittenQuery DEF Badge!Open, Badge!Cleared
    <2>2. /\ UNCHANGED <<badgeKind, messages, seen, badgeNews, listNews>> /\ badgeOpen' = TRUE
          /\ badgeOpens' = badgeOpens + 1 /\ badgeOpens < MaxOpens
          /\ badgeMarks' = badgeMarks \cup {"asked"}
      BY <1>6 DEF Badge!Open
    <2> QED  BY <1>0, <2>1, <2>2 DEF BadgeInv, Badge!BadgeTypeOK, Badge!Unread
  <1>7. CASE Badge!Close
    <2>1. /\ badge' \in Badge!Queries(0..MaxRows) /\ badge'.loaded
          /\ badge' = badge \/ badge'.fetch = "sent"
      BY <1>0, <1>7, RefetchedQuery DEF Badge!Close
    <2>2. UNCHANGED <<badgeKind, messages, seen, listNews, badgeOpens, badgeMarks>> /\ badgeOpen' = FALSE /\ badgeNews' = FALSE
      BY <1>7 DEF Badge!Close
    <2> QED  BY <1>0, <2>1, <2>2 DEF BadgeInv, Badge!BadgeTypeOK, Badge!Unread
  <1>8. CASE Badge!Realtime
    <2>1. /\ badge' \in Badge!Queries(0..MaxRows) /\ badge'.loaded /\ badge'.fetch = badge.fetch
          /\ badge'.got = badge.got
          /\ badge'.data = badge.data \/ badge'.data = 0
      BY <1>0, <1>8, WrittenQuery DEF Badge!Realtime, Badge!Cleared
    <2>2. /\ UNCHANGED <<badgeKind, messages, seen, listNews, badgeOpen, badgeOpens>>
          /\ badgeNews' = FALSE /\ badgeMarks' = badgeMarks \cup {"asked"}
      BY <1>8 DEF Badge!Realtime
    <2>3. Badge!BadgeTypeOK'
      BY <1>0, <2>1, <2>2 DEF BadgeInv, Badge!BadgeTypeOK
    <2>4. Badge!Unread' = Badge!Unread
      BY <2>2 DEF Badge!Unread
    <2> QED  BY <1>0, <1>r, <2>1, <2>2, <2>3, <2>4 DEF BadgeInv
  <1>9. CASE Badge!Marked
    <2>1. /\ badge' \in Badge!Queries(0..MaxRows) /\ badge'.loaded
          /\ \/ badge'.fetch = "sent"
             \/ badge'.fetch = badge.fetch /\ badge'.got = badge.got /\ badge'.data = 0
      BY <1>0, <1>9, WrittenQuery, RefetchedQuery DEF Badge!Marked
    <2>2. /\ UNCHANGED <<badgeKind, messages, seen, badgeNews, listNews, badgeOpen, badgeOpens>>
          /\ badgeMarks' = badgeMarks \ {"done"}
      BY <1>9 DEF Badge!Marked
    <2> QED  BY <1>0, <2>1, <2>2 DEF BadgeInv, Badge!BadgeTypeOK, Badge!Unread
  <1>10. CASE UNCHANGED Badge!vars
    BY <1>10 DEF Badge!vars, BadgeInv, Badge!BadgeTypeOK, Badge!Unread
  <1> QED
    BY <1>1, <1>2, <1>3, <1>4, <1>5, <1>6, <1>7, <1>8, <1>9, <1>10 DEF Badge!Next

-----------------------------------------------------------------------------
(* The photos *)

\* The operation's states.
Operations == [at : {"idle", "first", "upload", "last"}, kind : {"none", "edit", "registration"},
               keep : SUBSET Photos!Paths, new : SUBSET Photos!Paths]

\* What the cleanups of a queue will see to.
Queued(q) == UNION {q[i].extra \cup q[i].pend : i \in DOMAIN q}

\* What some cleanup, or its record, will remove.
Marked == mem \cup disk \cup Queued(queue)

PhotosTypeInv ==
    /\ objects \subseteq 1..used /\ named \subseteq 1..used /\ named # {} /\ used \in 1..MaxPaths
    /\ leaked \subseteq Photos!Paths
    /\ queue \in Seq(Photos!Cleanups) /\ Len(queue) <= MaxWaiting + 1
    /\ op \in Operations
    /\ draft \in BOOLEAN /\ release \in BOOLEAN /\ photosLost \in BOOLEAN
    /\ ops \in 0..MaxOps /\ kills \in 0..MaxKills

\* Only the first cleanup deletes, and what it deletes is recorded, or known
\* not to be.
CleanupsInv ==
    /\ \A i \in 1..Len(queue) : queue[i].at = "read" => queue[i].pend = {}
    /\ \A i \in 2..Len(queue) : queue[i].at = "read"
    /\ Len(queue) > 0 /\ queue[1].at = "delete" =>
          /\ queue[1].extra \subseteq queue[1].pend
          /\ mem = {} \/ mem = queue[1].pend
          /\ queue[1].pend \subseteq disk \cup unsaved
    /\ mem \subseteq disk \cup unsaved

\* An operation waits for at most one cleanup, and has no new objects then.
OperationInv ==
    /\ op.at # "upload" => op.new = {}
    /\ \A i \in 1..Len(queue) : queue[i].by = "op" => op.at \in {"first", "last"}
    /\ \A i, j \in 1..Len(queue) : queue[i].by = "op" /\ queue[j].by = "op" => i = j
    /\ Len(queue) > MaxWaiting => \E i \in 1..Len(queue) : queue[i].by = "op"

\* Paths are not known before their object is uploaded, and the new objects
\* are neither named nor marked.
FreshInv ==
    /\ Marked \cup unsaved \cup op.new \cup op.keep \subseteq 1..used
    /\ op.new \subseteq objects
    /\ op.new \cap (named \cup Marked) = {}

\* What the profile names is there and not marked, and what an edit keeps is
\* named until its replacement is done.
NamedInv ==
    ~photosLost =>
      /\ named \subseteq objects
      /\ named \cap Marked = {}
      /\ op.at \in {"first", "upload"} => op.keep \subseteq named

KnownInv == Photos!Orphans \subseteq Marked \cup op.new \cup leaked

PhotosInv == PhotosTypeInv /\ CleanupsInv /\ OperationInv /\ FreshInv /\ NamedInv /\ KnownInv

\* What the invariant says of the first cleanup.
LEMMA InHandQueued ==
    ASSUME NEW o, NEW q
    PROVE  Photos!InHand(o, q) = o.new \cup Queued(q)
  BY DEF Photos!InHand, Queued

LEMMA QueuedAll ==
    ASSUME NEW q \in Seq(Photos!Cleanups)
    PROVE  /\ \A i \in 1..Len(q) : q[i].extra \cup q[i].pend \subseteq Queued(q)
           /\ \A x \in Queued(q) : \E i \in 1..Len(q) : x \in q[i].extra \cup q[i].pend
           /\ \A i \in 1..Len(q) : q[i] \in Photos!Cleanups
           /\ Queued(q) \subseteq Photos!Paths
  <1>1. DOMAIN q = 1..Len(q) /\ \A i \in 1..Len(q) : q[i] \in Photos!Cleanups
    OBVIOUS
  <1>2. /\ \A i \in 1..Len(q) : q[i].extra \cup q[i].pend \subseteq Queued(q)
        /\ \A x \in Queued(q) : \E i \in 1..Len(q) : x \in q[i].extra \cup q[i].pend
    BY <1>1 DEF Queued
  <1>3. Queued(q) \subseteq Photos!Paths
    BY <1>1, <1>2 DEF Photos!Cleanups
  <1> QED  BY <1>1, <1>2, <1>3

\* A cleanup that waits.
LEMMA QueuedAppend ==
    ASSUME NEW q \in Seq(Photos!Cleanups), NEW extra \in SUBSET Photos!Paths, NEW by \in {"load", "op"}
    PROVE  LET c == [at |-> "read", extra |-> extra, pend |-> {}, by |-> by]
               r == Append(q, c)
           IN  /\ r \in Seq(Photos!Cleanups) /\ Len(r) = Len(q) + 1
               /\ \A i \in 1..Len(q) : r[i] = q[i]
               /\ r[Len(q) + 1] = c
               /\ Queued(r) = Queued(q) \cup extra
  <1> DEFINE c == [at |-> "read", extra |-> extra, pend |-> {}, by |-> by]
             r == Append(q, c)
  <1>1. c \in Photos!Cleanups /\ c.extra = extra /\ c.pend = {}  BY DEF Photos!Cleanups
  <1> HIDE DEF c
  <1>2. /\ r \in Seq(Photos!Cleanups) /\ Len(r) = Len(q) + 1 /\ Len(q) \in Nat
        /\ \A i \in 1..Len(q) : r[i] = q[i]
        /\ r[Len(q) + 1] = c
    BY <1>1
  <1> HIDE DEF r
  <1>3. Queued(r) \subseteq Queued(q) \cup extra
    <2> SUFFICES ASSUME NEW x \in Queued(r) PROVE x \in Queued(q) \cup extra
      OBVIOUS
    <2>1. PICK i \in 1..Len(r) : x \in r[i].extra \cup r[i].pend  BY <1>2, QueuedAll
    <2>2. CASE i \in 1..Len(q)  BY <2>1, <2>2, <1>2, QueuedAll
    <2>3. CASE i = Len(q) + 1  BY <2>1, <2>3, <1>1, <1>2
    <2> QED  BY <2>2, <2>3, <1>2
  <1>4. Queued(q) \cup extra \subseteq Queued(r)
    <2>1. extra \subseteq Queued(r)
      <3>1. Len(q) + 1 \in 1..Len(r)  BY <1>2
      <3> QED  BY <3>1, <1>1, <1>2, QueuedAll
    <2>2. ASSUME NEW x \in Queued(q) PROVE x \in Queued(r)
      <3>1. PICK i \in 1..Len(q) : x \in q[i].extra \cup q[i].pend  BY QueuedAll
      <3>2. i \in 1..Len(r) /\ r[i] = q[i]  BY <1>2
      <3> QED  BY <3>1, <3>2, <1>2, QueuedAll
    <2> QED  BY <2>1, <2>2
  <1>5. /\ r \in Seq(Photos!Cleanups) /\ Len(r) = Len(q) + 1
        /\ \A i \in 1..Len(q) : r[i] = q[i]
        /\ r[Len(q) + 1] = c
        /\ Queued(r) = Queued(q) \cup extra
    BY <1>2, <1>3, <1>4
  <1> QED  BY <1>5 DEF r, c

\* The first cleanup is over.
LEMMA QueuedTail ==
    ASSUME NEW q \in Seq(Photos!Cleanups), q # <<>>
    PROVE  /\ Tail(q) \in Seq(Photos!Cleanups) /\ Len(Tail(q)) = Len(q) - 1 /\ Len(q) \in Nat \ {0}
           /\ \A i \in 1..(Len(q) - 1) : Tail(q)[i] = q[i + 1]
           /\ Head(q) = q[1] /\ q[1] \in Photos!Cleanups
           /\ Queued(q) = q[1].extra \cup q[1].pend \cup Queued(Tail(q))
  <1>1. /\ Tail(q) \in Seq(Photos!Cleanups) /\ Len(Tail(q)) = Len(q) - 1 /\ Len(q) \in Nat \ {0}
        /\ \A i \in 1..(Len(q) - 1) : Tail(q)[i] = q[i + 1]
        /\ Head(q) = q[1] /\ q[1] \in Photos!Cleanups
    OBVIOUS
  <1> DEFINE r == Tail(q)
  <1>2. /\ r \in Seq(Photos!Cleanups) /\ Len(r) = Len(q) - 1
        /\ \A i \in 1..(Len(q) - 1) : r[i] = q[i + 1]
    BY <1>1
  <1> HIDE DEF r
  <1>3. Queued(q) \subseteq q[1].extra \cup q[1].pend \cup Queued(r)
    <2> SUFFICES ASSUME NEW x \in Queued(q) PROVE x \in q[1].extra \cup q[1].pend \cup Queued(r)
      OBVIOUS
    <2>1. PICK i \in 1..Len(q) : x \in q[i].extra \cup q[i].pend  BY QueuedAll
    <2>2. CASE i = 1  BY <2>1, <2>2
    <2>3. CASE i # 1
      <3>1. i - 1 \in 1..Len(r) /\ r[i - 1] = q[i]  BY <2>3, <1>1, <1>2
      <3> QED  BY <2>1, <3>1, <1>2, QueuedAll
    <2> QED  BY <2>2, <2>3
  <1>4. q[1].extra \cup q[1].pend \cup Queued(r) \subseteq Queued(q)
    <2>1. q[1].extra \cup q[1].pend \subseteq Queued(q)
      <3>1. 1 \in 1..Len(q)  BY <1>1
      <3> QED  BY <3>1, QueuedAll
    <2>2. ASSUME NEW x \in Queued(r) PROVE x \in Queued(q)
      <3>1. PICK i \in 1..Len(r) : x \in r[i].extra \cup r[i].pend  BY <1>2, QueuedAll
      <3>2. i + 1 \in 1..Len(q) /\ q[i + 1] = r[i]  BY <1>1, <1>2
      <3> QED  BY <3>1, <3>2, QueuedAll
    <2> QED  BY <2>1, <2>2
  <1> QED  BY <1>1, <1>3, <1>4 DEF r

\* The first cleanup begins to delete.
LEMMA QueuedDelete ==
    ASSUME NEW q \in Seq(Photos!Cleanups), q # <<>>, NEW pend \in SUBSET Photos!Paths, q[1].pend = {}
    PROVE  LET r == [q EXCEPT ![1].at = "delete", ![1].pend = pend]
           IN  /\ r \in Seq(Photos!Cleanups) /\ Len(r) = Len(q) /\ Len(q) \in Nat \ {0}
               /\ \A i \in 2..Len(q) : r[i] = q[i]
               /\ r[1].at = "delete" /\ r[1].extra = q[1].extra /\ r[1].pend = pend
               /\ r[1].by = q[1].by
               /\ Queued(r) = Queued(q) \cup pend
  <1> DEFINE r == [q EXCEPT ![1].at = "delete", ![1].pend = pend]
             c == [q[1] EXCEPT !.at = "delete", !.pend = pend]
  <1>1. Len(q) \in Nat \ {0} /\ q[1] \in Photos!Cleanups /\ DOMAIN q = 1..Len(q)
    OBVIOUS
  <1>2. c \in Photos!Cleanups  BY <1>1 DEF Photos!Cleanups
  <1>3. c.at = "delete" /\ c.extra = q[1].extra /\ c.pend = pend /\ c.by = q[1].by
    BY <1>1 DEF Photos!Cleanups
  <1>4. r = [q EXCEPT ![1] = c]  BY <1>1 DEF Photos!Cleanups
  <1> HIDE DEF c
  <1> HIDE DEF r
  <1>5. /\ r \in Seq(Photos!Cleanups) /\ Len(r) = Len(q)
        /\ \A i \in 2..Len(q) : r[i] = q[i]
        /\ r[1] = c
    <2>1. DOMAIN r = 1..Len(q) /\ r[1] = c /\ \A i \in 2..Len(q) : r[i] = q[i]
      BY <1>1, <1>4
    <2>2. r = [i \in 1..Len(q) |-> IF i = 1 THEN c ELSE q[i]]
      BY <1>1, <1>4
    <2>3. \A i \in 1..Len(q) : r[i] \in Photos!Cleanups
      BY <1>1, <1>2, <2>1
    <2>4. r \in [1..Len(q) -> Photos!Cleanups]
      BY <2>2, <2>3
    <2>5. r \in Seq(Photos!Cleanups) /\ Len(r) = Len(q)
      BY <1>1, <2>4
    <2> QED  BY <2>1, <2>5
  <1>6. Queued(r) \subseteq Queued(q) \cup pend
    <2> SUFFICES ASSUME NEW x \in Queued(r) PROVE x \in Queued(q) \cup pend
      OBVIOUS
    <2>1. PICK i \in 1..Len(r) : x \in r[i].extra \cup r[i].pend  BY <1>5, QueuedAll
    <2>2. CASE i = 1
      <3>1. 1 \in 1..Len(q)  BY <1>1
      <3> QED  BY <2>1, <2>2, <3>1, <1>3, <1>5, QueuedAll
    <2>3. CASE i # 1
      <3>1. i \in 2..Len(q) /\ i \in 1..Len(q)  BY <2>3, <1>1, <1>5
      <3> QED  BY <2>1, <3>1, <1>5, QueuedAll
    <2> QED  BY <2>2, <2>3
  <1>7. Queued(q) \cup pend \subseteq Queued(r)
    <2>0. 1 \in 1..Len(r)  BY <1>1, <1>5
    <2>1. pend \cup q[1].extra \subseteq Queued(r)
      BY <2>0, <1>3, <1>5, QueuedAll
    <2>2. ASSUME NEW x \in Queued(q) PROVE x \in Queued(r)
      <3>1. PICK i \in 1..Len(q) : x \in q[i].extra \cup q[i].pend  BY QueuedAll
      <3>2. CASE i = 1  BY <3>1, <3>2, <2>1
      <3>3. CASE i # 1
        <4>1. i \in 2..Len(q) /\ i \in 1..Len(r)  BY <3>3, <1>1, <1>5
        <4> QED  BY <3>1, <4>1, <1>5, QueuedAll
      <3> QED  BY <3>2, <3>3
    <2> QED  BY <2>1, <2>2
  <1>8. /\ r \in Seq(Photos!Cleanups) /\ Len(r) = Len(q) /\ Len(q) \in Nat \ {0}
        /\ \A i \in 2..Len(q) : r[i] = q[i]
        /\ r[1].at = "delete" /\ r[1].extra = q[1].extra /\ r[1].pend = pend
        /\ r[1].by = q[1].by
        /\ Queued(r) = Queued(q) \cup pend
    BY <1>1, <1>3, <1>5, <1>6, <1>7
  <1> QED  BY <1>8 DEF r


\* When the first cleanup is over, the others are as before; an operation that
\* waited for it has nothing new and waits no longer.
LEMMA CleanupOver ==
    ASSUME Photos!ProfilePhotosAssumption, PhotosInv, queue # <<>>, Photos!Over
    PROVE  /\ queue' \in Seq(Photos!Cleanups) /\ Len(queue') = Len(queue) - 1
           /\ Len(queue') <= MaxWaiting + 1
           /\ op' \in Operations /\ op'.new = op.new /\ op'.keep \subseteq op.keep
           /\ op'.at \in {"first", "upload"} =>
                 op.at \in {"first", "upload"} /\ op'.keep = op.keep
           /\ \A i \in 1..Len(queue') : queue'[i].at = "read" /\ queue'[i].pend = {}
           /\ Queued(queue) = queue[1].extra \cup queue[1].pend \cup Queued(queue')
           /\ queue[1] \in Photos!Cleanups /\ Len(queue) > 0
           /\ OperationInv'
  <1>0. queue \in Seq(Photos!Cleanups) /\ op \in Operations /\ OperationInv /\ CleanupsInv
        /\ Len(queue) <= MaxWaiting + 1 /\ MaxWaiting \in Nat
    BY DEF PhotosInv, PhotosTypeInv, Photos!ProfilePhotosAssumption
  <1>1. /\ queue' \in Seq(Photos!Cleanups) /\ Len(queue') = Len(queue) - 1 /\ Len(queue) \in Nat \ {0}
        /\ \A i \in 1..(Len(queue) - 1) : queue'[i] = queue[i + 1]
        /\ queue[1] \in Photos!Cleanups /\ Head(queue) = queue[1]
        /\ Queued(queue) = queue[1].extra \cup queue[1].pend \cup Queued(queue')
    BY <1>0, QueuedTail DEF Photos!Over
  <1>2. \A i \in 1..Len(queue') : i + 1 \in 2..Len(queue) /\ queue'[i] = queue[i + 1]
    BY <1>1
  <1>3. ASSUME NEW i \in 1..Len(queue')  PROVE queue'[i].at = "read" /\ queue'[i].pend = {}
    <2>1. queue'[i] = queue[i + 1] /\ i + 1 \in 2..Len(queue)  BY <1>2
    <2>2. \A k \in 2..Len(queue) : queue[k].at = "read" /\ queue[k].pend = {}  BY <1>0 DEF CleanupsInv
    <2> QED  BY <2>1, <2>2
  <1>4. CASE queue[1].by = "load"
    <2>1. op' = op  BY <1>4, <1>1 DEF Photos!Over
    <2>2. OperationInv'
      <3>1. op'.at # "upload" => op'.new = {}
        BY <2>1, <1>0 DEF OperationInv
      <3>2. ASSUME NEW i \in 1..Len(queue'), queue'[i].by = "op"  PROVE op'.at \in {"first", "last"}
        <4>1. queue'[i] = queue[i + 1] /\ i + 1 \in 1..Len(queue)  BY <1>1, <1>2
        <4>2. \A k \in 1..Len(queue) : queue[k].by = "op" => op.at \in {"first", "last"}
          BY <1>0 DEF OperationInv
        <4>3. op.at \in {"first", "last"}  BY <3>2, <4>1, <4>2
        <4> QED  BY <4>3, <2>1
      <3>3. \A i, j \in 1..Len(queue') : queue'[i].by = "op" /\ queue'[j].by = "op" => i = j
        <4> SUFFICES ASSUME NEW i \in 1..Len(queue'), NEW j \in 1..Len(queue'),
                            queue'[i].by = "op", queue'[j].by = "op"
                     PROVE  i = j
          OBVIOUS
        <4>1. /\ i + 1 \in 1..Len(queue) /\ j + 1 \in 1..Len(queue)
              /\ queue[i + 1].by = "op" /\ queue[j + 1].by = "op"
          BY <1>1, <1>2
        <4>2. i + 1 = j + 1  BY <4>1, <1>0 DEF OperationInv
        <4> QED  BY <4>2
      <3>4. Len(queue') > MaxWaiting => \E i \in 1..Len(queue') : queue'[i].by = "op"
        BY <1>0, <1>1
      <3> QED  BY <3>1, <3>2, <3>3, <3>4 DEF OperationInv
    <2> QED  BY <1>0, <1>1, <1>3, <2>1, <2>2
  <1>5. CASE queue[1].by = "op"
    <2>1. op.at \in {"first", "last"} /\ op.new = {}
      BY <1>5, <1>0, <1>1 DEF OperationInv
    <2>2. op' = IF op.at = "first" THEN [op EXCEPT !.at = "upload"] ELSE Photos!NoOp
      BY <1>5, <1>1 DEF Photos!Over
    <2>3. /\ op' \in Operations /\ op'.new = {} /\ op'.keep \subseteq op.keep
          /\ op'.at \in {"first", "upload"} =>
                op.at \in {"first", "upload"} /\ op'.keep = op.keep
      BY <1>0, <2>1, <2>2 DEF Operations, Photos!NoOp
    <2>4. \A i \in 1..Len(queue') : queue'[i].by # "op"
      <3> SUFFICES ASSUME NEW i \in 1..Len(queue'), queue'[i].by = "op" PROVE FALSE
        OBVIOUS
      <3>1. i + 1 \in 1..Len(queue) /\ queue[i + 1].by = "op" /\ 1 \in 1..Len(queue)
        BY <1>1, <1>2
      <3>2. i + 1 = 1  BY <3>1, <1>0, <1>5 DEF OperationInv
      <3> QED  BY <3>2
    <2>5. Len(queue') <= MaxWaiting
      BY <1>0, <1>1
    <2>6. OperationInv'
      BY <2>3, <2>4, <2>5, <1>1, <1>0 DEF OperationInv
    <2> QED  BY <1>0, <1>1, <1>3, <2>1, <2>3, <2>6
  <1> QED  BY <1>1, <1>4, <1>5 DEF Photos!Cleanups

\* A cleanup that an operation waits for.
LEMMA OperationWaits ==
    ASSUME Photos!ProfilePhotosAssumption, PhotosInv, op.at \notin {"first", "last"},
           NEW extra \in SUBSET Photos!Paths, queue' = Photos!Waiting(extra, "op"),
           op'.at \in {"first", "last"}, op'.new = {}
    PROVE  /\ queue' \in Seq(Photos!Cleanups) /\ Len(queue') <= MaxWaiting + 1
           /\ Queued(queue') = Queued(queue) \cup extra
           /\ UNCHANGED <<mem, disk, unsaved>> => CleanupsInv'
           /\ OperationInv'
  <1>0. queue \in Seq(Photos!Cleanups) /\ OperationInv /\ CleanupsInv
        /\ Len(queue) \in Nat /\ MaxWaiting \in Nat
    BY DEF PhotosInv, PhotosTypeInv, Photos!ProfilePhotosAssumption
  <1> DEFINE c == [at |-> "read", extra |-> extra, pend |-> {}, by |-> "op"]
  <1>1. /\ queue' \in Seq(Photos!Cleanups) /\ Len(queue') = Len(queue) + 1
        /\ \A i \in 1..Len(queue) : queue'[i] = queue[i]
        /\ queue'[Len(queue) + 1] = c
        /\ Queued(queue') = Queued(queue) \cup extra
    BY <1>0, QueuedAppend DEF Photos!Waiting
  <1>2. c.at = "read" /\ c.pend = {} /\ c.by = "op"  OBVIOUS
  <1> HIDE DEF c
  <1>3. \A i \in 1..Len(queue) : queue[i].by # "op"
    BY <1>0 DEF OperationInv
  <1>4. Len(queue) <= MaxWaiting
    BY <1>0, <1>3 DEF OperationInv
  <1>5. \A i \in 1..Len(queue') : queue'[i].by = "op" <=> i = Len(queue) + 1
    BY <1>0, <1>1, <1>2, <1>3
  <1>6. OperationInv'
    <2>1. Len(queue) + 1 \in 1..Len(queue') /\ queue'[Len(queue) + 1].by = "op"
      BY <1>0, <1>1, <1>2
    <2> QED  BY <1>5, <2>1 DEF OperationInv
  <1>7. ASSUME UNCHANGED <<mem, disk, unsaved>> PROVE CleanupsInv'
    <2>1. \A i \in 1..Len(queue') : i \in 1..Len(queue) \/ queue'[i] = c
      BY <1>0, <1>1
    <2>2. \A i \in 1..Len(queue') : queue'[i].at = "read" => queue'[i].pend = {}
      BY <1>0, <1>1, <1>2, <2>1 DEF CleanupsInv
    <2>3. \A i \in 2..Len(queue') : queue'[i].at = "read"
      <3> TAKE i \in 2..Len(queue')
      <3>1. CASE i \in 2..Len(queue)
        <4>1. i \in 1..Len(queue)  BY <3>1
        <4> QED  BY <3>1, <4>1, <1>0, <1>1 DEF CleanupsInv
      <3>2. CASE i = Len(queue) + 1
        BY <3>2, <1>1, <1>2
      <3> QED  BY <3>1, <3>2, <1>0, <1>1
    <2>4. CASE Len(queue) = 0
      <3>1. queue'[1] = c  BY <2>4, <1>1
      <3>2. queue'[1].at # "delete"  BY <3>1, <1>2
      <3>3. mem \subseteq disk \cup unsaved  BY <1>0 DEF CleanupsInv
      <3> QED  BY <1>7, <2>2, <2>3, <3>2, <3>3 DEF CleanupsInv
    <2>5. CASE Len(queue) > 0
      <3>1. queue'[1] = queue[1]  BY <2>5, <1>0, <1>1
      <3>2. /\ Len(queue') > 0 /\ queue'[1].at = "delete" =>
                 /\ queue'[1].extra \subseteq queue'[1].pend
                 /\ mem' = {} \/ mem' = queue'[1].pend
                 /\ queue'[1].pend \subseteq disk' \cup unsaved'
            /\ mem' \subseteq disk' \cup unsaved'
        BY <3>1, <2>5, <1>0, <1>7 DEF CleanupsInv
      <3> QED  BY <2>2, <2>3, <3>2 DEF CleanupsInv
    <2> QED  BY <1>0, <2>4, <2>5
  <1> QED  BY <1>0, <1>1, <1>4, <1>6, <1>7


\* What the facts about the sets say of one path at a time.
LEMMA PhotosFacts ==
    ASSUME Photos!ProfilePhotosAssumption, PhotosInv
    PROVE  /\ mem \cup disk \cup unsaved \cup op.new \cup op.keep \cup Queued(queue) \subseteq 1..used
           /\ objects \cup named \subseteq 1..used
           /\ 1..used \subseteq Photos!Paths /\ used \in Nat /\ leaked \subseteq Photos!Paths
           /\ queue \in Seq(Photos!Cleanups) /\ Len(queue) \in Nat /\ op \in Operations
  <1>1. mem \cup disk \cup unsaved \cup op.new \cup op.keep \cup Queued(queue) \subseteq 1..used
    BY DEF PhotosInv, FreshInv, Marked
  <1>2. objects \cup named \subseteq 1..used
    BY DEF PhotosInv, PhotosTypeInv
  <1>3. 1..used \subseteq Photos!Paths /\ used \in Nat
    BY DEF PhotosInv, PhotosTypeInv, Photos!ProfilePhotosAssumption, Photos!Paths
  <1>4. leaked \subseteq Photos!Paths /\ queue \in Seq(Photos!Cleanups) /\ Len(queue) \in Nat /\ op \in Operations
    BY DEF PhotosInv, PhotosTypeInv
  <1> QED  BY <1>1, <1>2, <1>3, <1>4

\* Nothing that is known is lost by a cleanup that begins.
LEMMA LoadPhotos ==
    ASSUME Photos!ProfilePhotosAssumption, PhotosInv, Photos!Load
    PROVE  PhotosInv'
  <1>0. /\ queue \in Seq(Photos!Cleanups) /\ OperationInv /\ CleanupsInv /\ PhotosTypeInv
        /\ Len(queue) \in Nat /\ MaxWaiting \in Nat
    BY DEF PhotosInv, PhotosTypeInv, Photos!ProfilePhotosAssumption
  <1> DEFINE c == [at |-> "read", extra |-> {}, pend |-> {}, by |-> "load"]
  <1>1. /\ queue' \in Seq(Photos!Cleanups) /\ Len(queue') = Len(queue) + 1
        /\ \A i \in 1..Len(queue) : queue'[i] = queue[i]
        /\ queue'[Len(queue) + 1] = c
        /\ Queued(queue') = Queued(queue) \cup {}
    <2>1. {} \in SUBSET Photos!Paths /\ "load" \in {"load", "op"}  OBVIOUS
    <2>2. queue' = Append(queue, c)  BY DEF Photos!Waiting, Photos!Load
    <2> HIDE DEF c
    <2>3. /\ Append(queue, c) \in Seq(Photos!Cleanups) /\ Len(Append(queue, c)) = Len(queue) + 1
          /\ \A i \in 1..Len(queue) : Append(queue, c)[i] = queue[i]
          /\ Append(queue, c)[Len(queue) + 1] = c
          /\ Queued(Append(queue, c)) = Queued(queue) \cup {}
      BY <1>0, <2>1, QueuedAppend DEF c
    <2> QED  BY <2>2, <2>3
  <1>2. c.at = "read" /\ c.pend = {} /\ c.by = "load"  OBVIOUS
  <1> HIDE DEF c
  <1>3. /\ Len(queue') <= MaxWaiting
        /\ UNCHANGED <<objects, named, used, mem, disk, op, draft, release, unsaved, leaked,
                       photosLost, ops, kills>>
    BY <1>0, <1>1 DEF Photos!Load
  <1>4. \A i \in 1..Len(queue') : queue'[i].by = "op" => i \in 1..Len(queue) /\ queue[i].by = "op"
    BY <1>0, <1>1, <1>2
  <1>5. OperationInv'
    BY <1>0, <1>1, <1>3, <1>4 DEF OperationInv
  <1>6. CleanupsInv'
    <2>1. \A i \in 1..Len(queue') : queue'[i].at = "read" => queue'[i].pend = {}
      BY <1>0, <1>1, <1>2 DEF CleanupsInv
    <2>2. \A i \in 2..Len(queue') : queue'[i].at = "read"
      BY <1>0, <1>1, <1>2 DEF CleanupsInv
    <2>3. Len(queue') > 0 /\ queue'[1].at = "delete" => Len(queue) > 0 /\ queue'[1] = queue[1]
      BY <1>0, <1>1, <1>2
    <2> QED  BY <1>0, <1>3, <2>1, <2>2, <2>3 DEF CleanupsInv
  <1>7. PhotosTypeInv'
    BY <1>0, <1>1, <1>3 DEF PhotosTypeInv
  <1>8. Marked' = Marked /\ Photos!Orphans' = Photos!Orphans
    BY <1>1, <1>3 DEF Marked, Photos!Orphans
  <1>9. FreshInv' /\ NamedInv' /\ KnownInv'
    BY <1>3, <1>8 DEF PhotosInv, FreshInv, NamedInv, KnownInv
  <1> QED  BY <1>5, <1>6, <1>7, <1>9 DEF PhotosInv

LEMMA PersistPhotos ==
    ASSUME Photos!ProfilePhotosAssumption, PhotosInv, Photos!Persist
    PROVE  PhotosInv'
  <1>0. /\ queue \in Seq(Photos!Cleanups) /\ OperationInv /\ CleanupsInv /\ PhotosTypeInv
        /\ FreshInv /\ NamedInv /\ KnownInv
        /\ Len(queue) \in Nat /\ MaxWaiting \in Nat
    BY DEF PhotosInv, PhotosTypeInv, Photos!ProfilePhotosAssumption
  <1>1. /\ queue # <<>> /\ queue[1] = Head(queue) /\ queue[1].at = "read" /\ Len(queue) > 0
        /\ queue[1] \in Photos!Cleanups
    BY <1>0, QueuedTail DEF Photos!Persist
  <1>2. queue[1].pend = {} /\ queue[1].extra \subseteq Queued(queue)
    <2>1. 1 \in 1..Len(queue)  BY <1>0, <1>1
    <2> QED  BY <2>1, <1>0, <1>1, QueuedAll DEF CleanupsInv
  <1>3. PICK read \in BOOLEAN, written \in BOOLEAN :
          LET pend == mem \cup (IF read THEN disk ELSE {}) \cup queue[1].extra IN
          IF pend = {} THEN Photos!Over /\ Photos!Remembered({}) /\ UNCHANGED <<disk, unsaved,
                                                                                leaked>>
          ELSE /\ mem' = pend
               /\ IF written THEN disk' = pend /\ unsaved' = {} ELSE unsaved' = pend /\ UNCHANGED disk
               /\ leaked' = IF written /\ ~read THEN leaked \cup ((Photos!Orphans \cap disk) \ pend) ELSE leaked
               /\ queue' = [queue EXCEPT ![1].at = "delete", ![1].pend = pend]
               /\ UNCHANGED <<op, release>>
    BY <1>1 DEF Photos!Persist
  <1>4. UNCHANGED <<objects, named, used, draft, photosLost, ops, kills>>
    BY DEF Photos!Persist
  <1> DEFINE pend == mem \cup (IF read THEN disk ELSE {}) \cup queue[1].extra
  <1>5. pend \subseteq Marked /\ pend \in SUBSET Photos!Paths
    BY <1>2, PhotosFacts DEF Marked
  <1>6. CASE pend = {}
    <2>1. Photos!Over /\ Photos!Remembered({}) /\ UNCHANGED <<disk, unsaved, leaked>>
      BY <1>3, <1>6
    <2>2. mem' = {} /\ release' \in BOOLEAN
      BY <2>1, <1>0, <1>1 DEF Photos!Remembered, PhotosTypeInv
    <2>3. mem = {} /\ queue[1].extra = {}
      BY <1>6
    <2>4. /\ queue' \in Seq(Photos!Cleanups) /\ Len(queue') <= MaxWaiting + 1
          /\ op' \in Operations /\ op'.new = op.new /\ op'.keep \subseteq op.keep
          /\ op'.at \in {"first", "upload"} =>
                op.at \in {"first", "upload"} /\ op'.keep = op.keep
          /\ \A i \in 1..Len(queue') : queue'[i].at = "read" /\ queue'[i].pend = {}
          /\ Len(queue') \in Nat
          /\ OperationInv'
      BY <1>1, <2>1, CleanupOver
    <2>5. Queued(queue) = queue[1].extra \cup queue[1].pend \cup Queued(queue')
      BY <1>1, <2>1, CleanupOver
    <2>6. Marked' = Marked /\ Photos!Orphans' = Photos!Orphans
      BY <1>2, <1>4, <2>1, <2>2, <2>3, <2>5 DEF Marked, Photos!Orphans
    <2>7. PhotosTypeInv'
      BY <1>0, <1>4, <2>1, <2>2, <2>4 DEF PhotosTypeInv
    <2>8. CleanupsInv'
      <3>1. Len(queue') > 0 => queue'[1].at # "delete"
        <4>1. Len(queue') > 0 => 1 \in 1..Len(queue')  BY <2>4
        <4> QED  BY <4>1, <2>4
      <3>2. \A i \in 2..Len(queue') : i \in 1..Len(queue')  BY <2>4
      <3> QED  BY <2>2, <2>4, <3>1, <3>2 DEF CleanupsInv
    <2>9. FreshInv' /\ NamedInv' /\ KnownInv'
      BY <1>0, <1>4, <2>1, <2>4, <2>6 DEF FreshInv, NamedInv, KnownInv
    <2> QED  BY <2>4, <2>7, <2>8, <2>9 DEF PhotosInv
  <1>7. CASE pend # {}
    <2>1. /\ mem' = pend
          /\ IF written THEN disk' = pend /\ unsaved' = {} ELSE unsaved' = pend /\ UNCHANGED disk
          /\ leaked' = IF written /\ ~read THEN leaked \cup ((Photos!Orphans \cap disk) \ pend) ELSE leaked
          /\ queue' = [queue EXCEPT ![1].at = "delete", ![1].pend = pend]
          /\ UNCHANGED <<op, release>>
      BY <1>3, <1>7
    <2>a. mem \subseteq pend /\ queue[1].extra \subseteq pend /\ (read => disk \subseteq pend)
      OBVIOUS
    <2> HIDE DEF pend
    <2>2. /\ queue' \in Seq(Photos!Cleanups) /\ Len(queue') = Len(queue)
          /\ \A i \in 2..Len(queue) : queue'[i] = queue[i]
          /\ queue'[1].at = "delete" /\ queue'[1].extra = queue[1].extra /\ queue'[1].pend = pend
          /\ queue'[1].by = queue[1].by
          /\ Queued(queue') = Queued(queue) \cup pend
      <3> DEFINE r == [queue EXCEPT ![1].at = "delete", ![1].pend = pend]
      <3>1. /\ r \in Seq(Photos!Cleanups) /\ Len(r) = Len(queue) /\ Len(queue) \in Nat \ {0}
            /\ \A i \in 2..Len(queue) : r[i] = queue[i]
            /\ r[1].at = "delete" /\ r[1].extra = queue[1].extra /\ r[1].pend = pend
            /\ r[1].by = queue[1].by
            /\ Queued(r) = Queued(queue) \cup pend
        <4>1. queue \in Seq(Photos!Cleanups)  BY <1>0
        <4>2. queue # <<>>  BY <1>1
        <4>3. pend \in SUBSET Photos!Paths  BY <1>5
        <4>4. queue[1].pend = {}  BY <1>2
        <4> QED  BY ONLY <4>1, <4>2, <4>3, <4>4, QueuedDelete
      <3>2. queue' = r  BY <2>1
      <3> HIDE DEF r
      <3> QED  BY <3>1, <3>2
    <2>3. \A i \in 1..Len(queue) : queue'[i].by = queue[i].by
      BY <1>0, <2>2
    <2>4. OperationInv'
      BY <1>0, <2>1, <2>2, <2>3 DEF OperationInv
    <2>5. CleanupsInv'
      <3>1. \A i \in 1..Len(queue') : queue'[i].at = "read" => queue'[i].pend = {}
        BY <1>0, <2>2 DEF CleanupsInv
      <3>2. \A i \in 2..Len(queue') : queue'[i].at = "read"
        BY <1>0, <2>2 DEF CleanupsInv
      <3>3. pend \subseteq disk' \cup unsaved'
        BY <2>1
      <3>4. mem' \subseteq disk' \cup unsaved'
        BY <2>1, <3>3
      <3> QED  BY <2>1, <2>2, <2>a, <3>1, <3>2, <3>3, <3>4 DEF CleanupsInv
    <2>6. /\ Marked' \subseteq Marked
          /\ unsaved' \subseteq unsaved \cup Marked
          /\ \A x \in Marked : x \in Marked' \/ (x \in disk \ pend /\ written /\ ~read)
      <3>1. Marked' = mem' \cup disk' \cup Queued(queue')  BY DEF Marked
      <3> QED  BY <1>5, <2>1, <2>2, <2>a, <3>1 DEF Marked
    <2>7. Photos!Orphans' = Photos!Orphans  BY <1>4 DEF Photos!Orphans
    <2>8. PhotosTypeInv'
      <3>1. leaked' \subseteq Photos!Paths
        BY <2>1, PhotosFacts
      <3> QED  BY <1>0, <1>4, <2>1, <2>2, <3>1 DEF PhotosTypeInv
    <2>9. FreshInv' /\ NamedInv'
      BY <1>0, <1>4, <2>1, <2>6 DEF FreshInv, NamedInv
    <2>10. KnownInv'
      BY <1>0, <1>4, <2>1, <2>6, <2>7 DEF KnownInv
    <2> QED  BY <2>4, <2>5, <2>8, <2>9, <2>10 DEF PhotosInv
  <1> QED  BY <1>6, <1>7

LEMMA DeletePhotos ==
    ASSUME Photos!ProfilePhotosAssumption, PhotosInv, Photos!Delete
    PROVE  PhotosInv'
  <1>0. /\ queue \in Seq(Photos!Cleanups) /\ OperationInv /\ CleanupsInv /\ PhotosTypeInv
        /\ FreshInv /\ NamedInv /\ KnownInv
        /\ Len(queue) \in Nat /\ MaxWaiting \in Nat
    BY DEF PhotosInv, PhotosTypeInv, Photos!ProfilePhotosAssumption
  <1>1. queue # <<>> /\ Photos!Over /\ Head(queue).at = "delete"  BY DEF Photos!Delete
  <1>2. /\ queue' \in Seq(Photos!Cleanups) /\ Len(queue') <= MaxWaiting + 1
        /\ op' \in Operations /\ op'.new = op.new /\ op'.keep \subseteq op.keep
        /\ op'.at \in {"first", "upload"} =>
              op.at \in {"first", "upload"} /\ op'.keep = op.keep
        /\ \A i \in 1..Len(queue') : queue'[i].at = "read" /\ queue'[i].pend = {}
        /\ Len(queue') \in Nat /\ Len(queue) > 0
        /\ OperationInv'
    BY <1>1, CleanupOver
  <1>3. Queued(queue) = queue[1].extra \cup queue[1].pend \cup Queued(queue')
    BY <1>1, CleanupOver
  <1>4. Head(queue) = queue[1]  BY <1>0, <1>1, QueuedTail
  <1> DEFINE pend == queue[1].pend
  <1>5. /\ queue[1].extra \subseteq pend /\ (mem = {} \/ mem = pend) /\ pend \subseteq disk \cup unsaved
        /\ mem \subseteq disk \cup unsaved
    BY <1>0, <1>1, <1>2, <1>4 DEF CleanupsInv
  <1>6. UNCHANGED <<unsaved, named, used, draft, photosLost, ops, kills>>  BY DEF Photos!Delete
  <1>7. /\ release' \in BOOLEAN
        /\ \/ /\ objects' = objects \ pend /\ mem' = {}
              /\ \/ UNCHANGED <<disk, leaked>>
                 \/ disk' = {} /\ leaked' = leaked \cup ((Photos!Orphans \cap disk) \ pend)
           \/ /\ objects' \in {objects, objects \ pend} /\ mem' \in {{}, mem}
              /\ UNCHANGED disk
              /\ leaked' = IF mem' = {} THEN leaked \cup Photos!Forgotten ELSE leaked
    BY <1>0, <1>2, <1>4 DEF Photos!Delete, Photos!Remembered, PhotosTypeInv
  <1> HIDE DEF pend
  <1>8. /\ objects' \subseteq objects /\ objects \ objects' \subseteq pend
        /\ mem' \subseteq mem /\ disk' \subseteq disk /\ mem' \subseteq disk' \cup unsaved'
        /\ leaked \subseteq leaked' /\ leaked' \subseteq leaked \cup Photos!Orphans
    BY <1>5, <1>6, <1>7 DEF Photos!Forgotten
  <1>9. Marked' \subseteq Marked /\ pend \subseteq Marked
    <2>1. Marked' = mem' \cup disk' \cup Queued(queue')  BY DEF Marked
    <2> QED  BY <1>3, <1>8, <2>1 DEF Marked, pend
  <1>10. PhotosTypeInv'
    <2>1. leaked' \subseteq Photos!Paths  BY <1>8, PhotosFacts DEF Photos!Orphans
    <2> QED  BY <1>0, <1>2, <1>6, <1>7, <1>8, <2>1 DEF PhotosTypeInv
  <1>11. CleanupsInv'
    <2>1. Len(queue') > 0 => queue'[1].at # "delete"
      <3>1. Len(queue') > 0 => 1 \in 1..Len(queue')  BY <1>2
      <3> QED  BY <3>1, <1>2
    <2>2. \A i \in 2..Len(queue') : i \in 1..Len(queue')  BY <1>2
    <2> QED  BY <1>2, <1>8, <2>1, <2>2 DEF CleanupsInv
  <1>12. FreshInv'
    <2>1. op.new \cap pend = {}  BY <1>0, <1>9 DEF FreshInv
    <2> QED  BY <1>0, <1>2, <1>6, <1>8, <1>9, <2>1 DEF FreshInv
  <1>13. NamedInv'
    <2>1. ~photosLost => named \cap pend = {}  BY <1>0, <1>9 DEF NamedInv
    <2> QED  BY <1>0, <1>2, <1>6, <1>8, <1>9, <2>1 DEF NamedInv
  <1>14. KnownInv'
    <2> SUFFICES ASSUME NEW x \in objects' \ named'
                 PROVE  x \in mem' \/ x \in disk' \/ x \in Queued(queue') \/ x \in op'.new \/ x \in leaked'
      BY DEF KnownInv, Photos!Orphans, Marked
    <2>1. x \in Photos!Orphans  BY <1>6, <1>8 DEF Photos!Orphans
    <2>2. x \in mem \/ x \in disk \/ x \in pend \/ x \in Queued(queue') \/ x \in op.new \/ x \in leaked
      BY <2>1, <1>0, <1>3, <1>5 DEF KnownInv, Marked, pend
    <2>3. CASE objects' = objects \ pend /\ mem' = {}
               /\ \/ UNCHANGED <<disk, leaked>>
                  \/ disk' = {} /\ leaked' = leaked \cup ((Photos!Orphans \cap disk) \ pend)
      <3>1. x \notin pend /\ x \notin mem  BY <2>3, <1>5
      <3> QED  BY <3>1, <2>1, <2>2, <2>3, <1>2
    <2>4. CASE /\ mem' \in {{}, mem} /\ UNCHANGED disk
               /\ leaked' = IF mem' = {} THEN leaked \cup Photos!Forgotten ELSE leaked
      <3>1. CASE mem' = {}
        BY <3>1, <2>1, <2>2, <2>4, <1>2, <1>5 DEF Photos!Forgotten
      <3>2. CASE mem' # {}
        BY <3>2, <2>2, <2>4, <1>2, <1>5
      <3> QED  BY <3>1, <3>2
    <2> QED  BY <1>7, <2>3, <2>4
  <1> QED  BY <1>2, <1>10, <1>11, <1>12, <1>13, <1>14 DEF PhotosInv


LEMMA EditPhotos ==
    ASSUME Photos!ProfilePhotosAssumption, PhotosInv, Photos!Edit
    PROVE  PhotosInv'
  <1>0. /\ PhotosTypeInv /\ FreshInv /\ NamedInv /\ KnownInv /\ MaxOps \in Nat
    BY DEF PhotosInv, Photos!ProfilePhotosAssumption
  <1>1. /\ op.at = "idle" /\ op.new = {} /\ ops < MaxOps /\ ops' = ops + 1
        /\ queue' = Photos!Waiting({}, "op")
        /\ UNCHANGED <<objects, named, used, mem, disk, draft, release, unsaved, leaked,
                       photosLost, kills>>
    BY DEF Photos!Edit, Photos!NoOp
  <1>2. PICK keep \in SUBSET named : op' = [at |-> "first", kind |-> "edit", keep |-> keep, new |-> {}]
    BY DEF Photos!Edit
  <1>3. op'.at = "first" /\ op'.keep = keep /\ op'.new = {}
    BY <1>2
  <1>4. op' \in Operations
    <2>1. keep \subseteq Photos!Paths  BY PhotosFacts
    <2> QED  BY <1>2, <2>1 DEF Operations
  <1>5. /\ queue' \in Seq(Photos!Cleanups) /\ Len(queue') <= MaxWaiting + 1
        /\ Queued(queue') = Queued(queue) \cup {}
        /\ CleanupsInv' /\ OperationInv'
    <2>1. {} \in SUBSET Photos!Paths /\ op.at \notin {"first", "last"} /\ op'.at \in {"first", "last"}
      BY <1>1, <1>3
    <2> QED  BY <1>1, <1>3, <2>1, OperationWaits
  <1>6. Marked' = Marked /\ Photos!Orphans' = Photos!Orphans
    BY <1>1, <1>5 DEF Marked, Photos!Orphans
  <1>7. PhotosTypeInv'
    BY <1>0, <1>1, <1>4, <1>5 DEF PhotosTypeInv
  <1>8. FreshInv' /\ NamedInv' /\ KnownInv'
    BY <1>0, <1>1, <1>3, <1>6, PhotosFacts DEF FreshInv, NamedInv, KnownInv
  <1> QED  BY <1>5, <1>7, <1>8 DEF PhotosInv

LEMMA RegisterPhotos ==
    ASSUME Photos!ProfilePhotosAssumption, PhotosInv, Photos!Register
    PROVE  PhotosInv'
  <1>0. /\ PhotosTypeInv /\ CleanupsInv /\ OperationInv /\ FreshInv /\ NamedInv /\ KnownInv
        /\ MaxOps \in Nat
    BY DEF PhotosInv, Photos!ProfilePhotosAssumption
  <1>1. /\ op.at = "idle" /\ op.new = {} /\ ops < MaxOps /\ ops' = ops + 1
        /\ op' = [at |-> "upload", kind |-> "registration", keep |-> {}, new |-> {}]
        /\ UNCHANGED <<objects, named, used, mem, disk, queue, draft, release, unsaved, leaked,
                       photosLost, kills>>
    BY DEF Photos!Register, Photos!NoOp
  <1>2. /\ op' \in Operations /\ op'.at = "upload" /\ op'.keep = {} /\ op'.new = {}
    BY <1>1 DEF Operations
  <1>3. Marked' = Marked /\ Photos!Orphans' = Photos!Orphans
    BY <1>1 DEF Marked, Photos!Orphans
  <1>4. PhotosTypeInv'
    BY <1>0, <1>1, <1>2 DEF PhotosTypeInv
  <1>5. CleanupsInv'
    BY <1>0, <1>1 DEF CleanupsInv
  <1>6. OperationInv'
    BY <1>0, <1>1, <1>2 DEF OperationInv
  <1>7. FreshInv' /\ NamedInv' /\ KnownInv'
    BY <1>0, <1>1, <1>2, <1>3 DEF FreshInv, NamedInv, KnownInv
  <1> QED  BY <1>4, <1>5, <1>6, <1>7 DEF PhotosInv

\* What an operation says it loses sight of.
LEMMA LeakingKnown ==
    ASSUME Photos!Leaking
    PROVE  KnownInv' /\ leaked' \subseteq leaked \cup objects'
  BY DEF Photos!Leaking, Photos!InHand, Queued, Marked, KnownInv, Photos!Orphans

\* The cleanups and the memory are as they were, and no operation waits.
LEMMA NoneWaits ==
    ASSUME PhotosInv, op.at \notin {"first", "last"}, UNCHANGED <<queue, mem, disk, unsaved>>,
           op'.at # "upload" => op'.new = {}
    PROVE  CleanupsInv' /\ OperationInv' /\ Marked' = Marked
  <1>1. CleanupsInv /\ OperationInv  BY DEF PhotosInv
  <1>2. CleanupsInv'  BY <1>1 DEF CleanupsInv
  <1>3. \A i \in 1..Len(queue) : queue[i].by # "op"  BY <1>1 DEF OperationInv
  <1>4. OperationInv'
    BY <1>1, <1>3 DEF OperationInv
  <1>5. Marked' = Marked  BY DEF Marked
  <1> QED  BY <1>2, <1>4, <1>5

\* An operation ends, or waits for its last cleanup.
LEMMA EndedOperation ==
    ASSUME NEW o \in Operations
    PROVE  /\ Photos!NoOp \in Operations /\ Photos!NoOp.at = "idle" /\ Photos!NoOp.new = {}
           /\ [o EXCEPT !.at = "last", !.new = {}] \in Operations
           /\ [o EXCEPT !.at = "last", !.new = {}].at = "last"
           /\ [o EXCEPT !.at = "last", !.new = {}].new = {}
           /\ [o EXCEPT !.at = "last", !.new = {}].keep = o.keep /\ Photos!NoOp.keep = {}
  <1>1. Photos!NoOp \in Operations /\ Photos!NoOp.at = "idle" /\ Photos!NoOp.new = {} /\ Photos!NoOp.keep = {}
    BY DEF Photos!NoOp, Operations
  <1>2. [o EXCEPT !.at = "last", !.new = {}] \in Operations
    BY DEF Operations
  <1>3. /\ [o EXCEPT !.at = "last", !.new = {}].at = "last"
        /\ [o EXCEPT !.at = "last", !.new = {}].new = {}
        /\ [o EXCEPT !.at = "last", !.new = {}].keep = o.keep
    BY DEF Operations
  <1> QED  BY <1>1, <1>2, <1>3

LEMMA UploadPhotos ==
    ASSUME Photos!ProfilePhotosAssumption, PhotosInv, Photos!Upload
    PROVE  PhotosInv'
  <1>0. /\ PhotosTypeInv /\ CleanupsInv /\ OperationInv /\ FreshInv /\ NamedInv /\ KnownInv
        /\ MaxPaths \in Nat
    BY DEF PhotosInv, Photos!ProfilePhotosAssumption
  <1>1. /\ op.at = "upload" /\ used < MaxPaths /\ used' = used + 1
        /\ UNCHANGED <<named, mem, disk, draft, release, unsaved, photosLost, ops, kills>>
    BY DEF Photos!Upload
  <1>2. /\ used \in Nat /\ used' \in Photos!Paths /\ used' \notin 1..used /\ 1..used \subseteq 1..used'
        /\ used' \in 1..used' /\ used' \in 1..MaxPaths /\ 1..used' \subseteq Photos!Paths
    BY <1>0, <1>1 DEF PhotosTypeInv, Photos!Paths
  <1>f. /\ mem \cup disk \cup unsaved \cup op.new \cup op.keep \cup Queued(queue) \subseteq 1..used
        /\ objects \cup named \subseteq 1..used
        /\ leaked \subseteq Photos!Paths /\ queue \in Seq(Photos!Cleanups) /\ op \in Operations
    BY PhotosFacts
  <1>3. CASE /\ objects' = objects \cup {used'}
             /\ op' = [op EXCEPT !.new = @ \cup {used'}]
             /\ UNCHANGED <<queue, leaked>>
    <2>1. /\ op'.at = "upload" /\ op'.new = op.new \cup {used'} /\ op'.keep = op.keep
      BY <1>1, <1>3, <1>f DEF Operations
    <2>2. op' \in Operations
      <3>1. op.new \cup {used'} \subseteq Photos!Paths  BY <1>2, <1>f
      <3> QED  BY <1>3, <1>f, <3>1 DEF Operations
    <2>3. CleanupsInv' /\ OperationInv' /\ Marked' = Marked
      BY <1>1, <1>3, <2>1, NoneWaits
    <2>4. PhotosTypeInv'
      BY <1>0, <1>1, <1>2, <1>3, <2>2 DEF PhotosTypeInv
    <2>5. Marked \subseteq 1..used  BY <1>f DEF Marked
    <2>6. FreshInv'
      BY <1>0, <1>1, <1>2, <1>3, <1>f, <2>1, <2>3, <2>5 DEF FreshInv
    <2>7. NamedInv'
      BY <1>0, <1>1, <1>3, <2>1, <2>3 DEF NamedInv
    <2>8. KnownInv'
      BY <1>0, <1>1, <1>3, <2>1, <2>3 DEF KnownInv, Photos!Orphans
    <2> QED  BY <2>3, <2>4, <2>6, <2>7, <2>8 DEF PhotosInv
  <1>4. CASE Photos!Rollback(op.new) /\ Photos!Leaking
    <2>1. KnownInv' /\ leaked' \subseteq leaked \cup objects'
      BY <1>4, LeakingKnown
    <2>2. /\ objects' \subseteq objects \cup {used'}
          /\ objects \ op.new \subseteq objects'
      BY <1>4 DEF Photos!Rollback
    <2>3. /\ op' \in Operations /\ op'.at # "upload" /\ op'.at # "first" /\ op'.new = {}
          /\ op'.keep \subseteq op.keep
      <3>1. op' = Photos!NoOp \/ op' = [op EXCEPT !.at = "last", !.new = {}]
        BY <1>4 DEF Photos!Rollback
      <3> QED  BY <3>1, <1>f, EndedOperation
    <2>4. /\ queue' \in Seq(Photos!Cleanups) /\ Len(queue') <= MaxWaiting + 1
          /\ CleanupsInv' /\ OperationInv' /\ Marked' \subseteq Marked \cup op.new
      <3>1. CASE op.kind = "edit" /\ op.new # {}
        <4>1. op' = [op EXCEPT !.at = "last", !.new = {}] /\ queue' = Photos!Waiting(op.new, "op")
          BY <1>4, <3>1 DEF Photos!Rollback
        <4>2. op'.at \in {"first", "last"}  BY <4>1, <1>f DEF Operations
        <4>3. op.new \in SUBSET Photos!Paths  BY <1>f DEF Operations
        <4>4. /\ queue' \in Seq(Photos!Cleanups) /\ Len(queue') <= MaxWaiting + 1
              /\ Queued(queue') = Queued(queue) \cup op.new
              /\ CleanupsInv' /\ OperationInv'
          BY <1>1, <2>3, <4>1, <4>2, <4>3, OperationWaits
        <4>5. Marked' = mem' \cup disk' \cup Queued(queue')  BY DEF Marked
        <4> QED  BY <1>1, <4>4, <4>5 DEF Marked
      <3>2. CASE op.kind # "edit" \/ op.new = {}
        <4>1. UNCHANGED queue  BY <1>4, <3>2 DEF Photos!Rollback
        <4>2. CleanupsInv' /\ OperationInv' /\ Marked' = Marked
          BY <1>1, <2>3, <4>1, NoneWaits
        <4> QED  BY <1>0, <4>1, <4>2 DEF PhotosTypeInv
      <3> QED  BY <3>1, <3>2
    <2>5. PhotosTypeInv'
      <3>1. objects' \subseteq 1..used' /\ leaked' \subseteq Photos!Paths
        BY <1>2, <1>f, <2>1, <2>2
      <3> QED  BY <1>0, <1>1, <1>2, <2>3, <2>4, <3>1 DEF PhotosTypeInv
    <2>6. FreshInv'
      <3>1. Marked \subseteq 1..used  BY <1>f DEF Marked
      <3> QED  BY <1>1, <1>2, <1>f, <2>3, <2>4, <3>1 DEF FreshInv
    <2>7. NamedInv'
      <3>1. named \cap op.new = {}  BY <1>0 DEF FreshInv
      <3> QED  BY <1>0, <1>1, <2>2, <2>3, <2>4, <3>1 DEF NamedInv
    <2> QED  BY <2>1, <2>4, <2>5, <2>6, <2>7 DEF PhotosInv
  <1> QED  BY <1>3, <1>4 DEF Photos!Upload

LEMMA ReplacedPhotos ==
    ASSUME Photos!ProfilePhotosAssumption, PhotosInv, Photos!Replaced
    PROVE  PhotosInv'
  <1>0. /\ PhotosTypeInv /\ CleanupsInv /\ OperationInv /\ FreshInv /\ NamedInv /\ KnownInv
    BY DEF PhotosInv
  <1>1. /\ op.at = "upload" /\ op.keep \cup op.new # {} /\ named' = op.keep \cup op.new
        /\ UNCHANGED <<objects, used, mem, disk, release, unsaved, photosLost, ops, kills>>
    BY DEF Photos!Replaced
  <1>f. /\ mem \cup disk \cup unsaved \cup op.new \cup op.keep \cup Queued(queue) \subseteq 1..used
        /\ objects \cup named \subseteq 1..used
        /\ 1..used \subseteq Photos!Paths
        /\ leaked \subseteq Photos!Paths /\ queue \in Seq(Photos!Cleanups) /\ op \in Operations
    BY PhotosFacts
  <1>2. /\ op' \in Operations /\ op'.at # "upload" /\ op'.at # "first" /\ op'.new = {}
        /\ op'.keep \subseteq op.keep
    <2>1. op' = Photos!NoOp \/ op' = [op EXCEPT !.at = "last", !.new = {}]
      BY DEF Photos!Replaced
    <2> QED  BY <2>1, <1>f, EndedOperation
  <1>3. /\ queue' \in Seq(Photos!Cleanups) /\ Len(queue') <= MaxWaiting + 1 /\ draft' \in BOOLEAN
        /\ CleanupsInv' /\ OperationInv' /\ KnownInv' /\ leaked' \subseteq leaked \cup objects
        /\ Marked' \subseteq Marked \cup (named \ named')
    <2>1. CASE op.kind = "edit"
      <3>1. /\ op' = [op EXCEPT !.at = "last", !.new = {}] /\ queue' = Photos!Waiting(named \ named', "op")
            /\ UNCHANGED <<draft, leaked>>
        BY <2>1 DEF Photos!Replaced
      <3>2. op'.at \in {"first", "last"}  BY <3>1, <1>f DEF Operations
      <3>3. (named \ named') \in SUBSET Photos!Paths  BY <1>f
      <3>4. /\ queue' \in Seq(Photos!Cleanups) /\ Len(queue') <= MaxWaiting + 1
            /\ Queued(queue') = Queued(queue) \cup (named \ named')
            /\ CleanupsInv' /\ OperationInv'
        <4> DEFINE gone == named \ named'
        <4>1. gone \in SUBSET Photos!Paths /\ queue' = Photos!Waiting(gone, "op")
          BY <3>1, <3>3
        <4> HIDE DEF gone
        <4>2. /\ queue' \in Seq(Photos!Cleanups) /\ Len(queue') <= MaxWaiting + 1
              /\ Queued(queue') = Queued(queue) \cup gone
              /\ CleanupsInv' /\ OperationInv'
          BY <1>1, <1>2, <3>2, <4>1, OperationWaits
        <4> QED  BY <4>2 DEF gone
      <3>5. Marked' = mem' \cup disk' \cup Queued(queue')  BY DEF Marked
      <3>6. Marked' = Marked \cup (named \ named')
        BY <1>1, <3>4, <3>5 DEF Marked
      <3>7. KnownInv'
        BY <1>0, <1>1, <3>1, <3>6 DEF KnownInv, Photos!Orphans
      <3> QED  BY <1>0, <3>1, <3>4, <3>6, <3>7 DEF PhotosTypeInv
    <2>2. CASE op.kind # "edit"
      <3>1. /\ draft' \in {FALSE, draft} /\ UNCHANGED queue /\ Photos!Leaking
        BY <2>2 DEF Photos!Replaced
      <3>2. CleanupsInv' /\ OperationInv' /\ Marked' = Marked
        BY <1>1, <1>2, <3>1, NoneWaits
      <3>3. KnownInv' /\ leaked' \subseteq leaked \cup objects'
        BY <3>1, LeakingKnown
      <3> QED  BY <1>0, <1>1, <3>1, <3>2, <3>3 DEF PhotosTypeInv
    <2> QED  BY <2>1, <2>2
  <1>4. PhotosTypeInv'
    <2>1. named' \subseteq 1..used  BY <1>1, <1>f
    <2>2. leaked' \subseteq Photos!Paths  BY <1>3, <1>f
    <2> QED  BY <1>0, <1>1, <1>2, <1>3, <2>1, <2>2 DEF PhotosTypeInv
  <1>5. FreshInv'
    <2>1. Marked' \subseteq 1..used  BY <1>3, <1>f DEF Marked
    <2> QED  BY <1>1, <1>2, <1>f, <2>1 DEF FreshInv
  <1>6. NamedInv'
    <2> SUFFICES ASSUME ~photosLost' PROVE named' \subseteq objects' /\ named' \cap Marked' = {}
      BY <1>2 DEF NamedInv
    <2>1. op.keep \subseteq named /\ named \subseteq objects /\ named \cap Marked = {}
      BY <1>0, <1>1 DEF NamedInv
    <2>2. op.new \subseteq objects /\ op.new \cap Marked = {}
      BY <1>0 DEF FreshInv
    <2> QED  BY <1>1, <1>3, <2>1, <2>2
  <1> QED  BY <1>3, <1>4, <1>5, <1>6 DEF PhotosInv


LEMMA NotReplacedPhotos ==
    ASSUME Photos!ProfilePhotosAssumption, PhotosInv, Photos!NotReplaced
    PROVE  PhotosInv'
  <1>0. /\ PhotosTypeInv /\ CleanupsInv /\ OperationInv /\ FreshInv /\ NamedInv /\ KnownInv
    BY DEF PhotosInv
  <1>1. /\ op.at = "upload" /\ op.keep \cup op.new # {}
        /\ UNCHANGED <<used, mem, disk, draft, release, unsaved, ops, kills>> /\ Photos!Leaking
    BY DEF Photos!NotReplaced
  <1>2. \/ UNCHANGED <<named, photosLost>>
        \/ named' = op.keep \cup op.new /\ photosLost' = TRUE
    BY DEF Photos!NotReplaced
  <1>f. /\ mem \cup disk \cup unsaved \cup op.new \cup op.keep \cup Queued(queue) \subseteq 1..used
        /\ objects \cup named \subseteq 1..used /\ 1..used \subseteq Photos!Paths
        /\ leaked \subseteq Photos!Paths /\ queue \in Seq(Photos!Cleanups) /\ op \in Operations
    BY PhotosFacts
  <1>3. /\ op' \in Operations /\ op'.at # "upload" /\ op'.at # "first" /\ op'.new = {}
        /\ op'.keep \subseteq op.keep
    <2>1. op' = Photos!NoOp \/ op' = [op EXCEPT !.at = "last", !.new = {}]
      BY DEF Photos!NotReplaced
    <2> QED  BY <2>1, <1>f, EndedOperation
  <1>4. objects' \subseteq objects /\ objects \ op.new \subseteq objects'
    BY DEF Photos!NotReplaced
  <1>5. KnownInv' /\ leaked' \subseteq leaked \cup objects'
    BY <1>1, LeakingKnown
  <1>6. /\ queue' \in Seq(Photos!Cleanups) /\ Len(queue') <= MaxWaiting + 1
        /\ CleanupsInv' /\ OperationInv' /\ Marked' \subseteq Marked \cup op.new
    <2>1. CASE op.kind = "edit" /\ op.new # {}
      <3>1. op' = [op EXCEPT !.at = "last", !.new = {}] /\ queue' = Photos!Waiting(op.new, "op")
        BY <2>1 DEF Photos!NotReplaced
      <3>2. op'.at \in {"first", "last"}  BY <3>1, <1>f, EndedOperation
      <3>3. op.new \in SUBSET Photos!Paths  BY <1>f
      <3>4. /\ queue' \in Seq(Photos!Cleanups) /\ Len(queue') <= MaxWaiting + 1
            /\ Queued(queue') = Queued(queue) \cup op.new
            /\ CleanupsInv' /\ OperationInv'
        BY <1>1, <1>3, <3>1, <3>2, <3>3, OperationWaits
      <3>5. Marked' = mem' \cup disk' \cup Queued(queue')  BY DEF Marked
      <3> QED  BY <1>1, <3>4, <3>5 DEF Marked
    <2>2. CASE op.kind # "edit" \/ op.new = {}
      <3>1. UNCHANGED queue  BY <2>2 DEF Photos!NotReplaced
      <3>2. CleanupsInv' /\ OperationInv' /\ Marked' = Marked
        BY <1>1, <1>3, <3>1, NoneWaits
      <3> QED  BY <1>0, <3>1, <3>2 DEF PhotosTypeInv
    <2> QED  BY <2>1, <2>2
  <1>7. PhotosTypeInv'
    <2>1. named' \subseteq 1..used /\ named' # {} /\ photosLost' \in BOOLEAN
      BY <1>0, <1>1, <1>2, <1>f DEF PhotosTypeInv
    <2>2. leaked' \subseteq Photos!Paths  BY <1>4, <1>5, <1>f
    <2> QED  BY <1>0, <1>1, <1>3, <1>4, <1>6, <2>1, <2>2 DEF PhotosTypeInv
  <1>8. FreshInv'
    <2>1. Marked' \subseteq 1..used  BY <1>6, <1>f DEF Marked
    <2> QED  BY <1>1, <1>3, <1>f, <2>1 DEF FreshInv
  <1>9. NamedInv'
    <2> SUFFICES ASSUME ~photosLost' PROVE named' \subseteq objects' /\ named' \cap Marked' = {}
      BY <1>3 DEF NamedInv
    <2>1. named' = named /\ ~photosLost  BY <1>2
    <2>2. named \subseteq objects /\ named \cap Marked = {}  BY <1>0, <2>1 DEF NamedInv
    <2>3. named \cap op.new = {}  BY <1>0 DEF FreshInv
    <2> QED  BY <1>4, <1>6, <2>1, <2>2, <2>3
  <1> QED  BY <1>5, <1>6, <1>7, <1>8, <1>9 DEF PhotosInv

LEMMA LogoutPhotos ==
    ASSUME Photos!ProfilePhotosAssumption, PhotosInv, Photos!Logout
    PROVE  PhotosInv'
  <1>0. /\ PhotosTypeInv /\ CleanupsInv /\ OperationInv /\ FreshInv /\ NamedInv /\ KnownInv
    BY DEF PhotosInv
  <1>1. /\ mem' = {} /\ release' = (queue # <<>>) /\ leaked' = leaked \cup Photos!Forgotten
        /\ UNCHANGED <<objects, named, used, disk, queue, op, draft, unsaved, photosLost, ops,
                       kills>>
    BY DEF Photos!Logout
  <1>2. Marked' \subseteq Marked /\ Photos!Orphans' = Photos!Orphans
        /\ \A x \in Marked : x \in Marked' \/ x \in mem \ disk
    <2>1. Marked' = mem' \cup disk' \cup Queued(queue')  BY DEF Marked
    <2>2. Queued(queue') = Queued(queue)  BY <1>1
    <2>3. Marked' = disk \cup Queued(queue)  BY <1>1, <2>1, <2>2
    <2>4. Photos!Orphans' = Photos!Orphans  BY <1>1 DEF Photos!Orphans
    <2> QED  BY <2>3, <2>4 DEF Marked
  <1>3. PhotosTypeInv'
    <2>1. leaked' \subseteq Photos!Paths  BY <1>1, PhotosFacts DEF Photos!Forgotten, Photos!Orphans
    <2>2. release' \in BOOLEAN  BY <1>1
    <2> QED  BY <1>0, <1>1, <2>1, <2>2 DEF PhotosTypeInv
  <1>4. CleanupsInv'
    BY <1>0, <1>1 DEF CleanupsInv
  <1>5. OperationInv'
    BY <1>0, <1>1 DEF OperationInv
  <1>6. FreshInv' /\ NamedInv'
    BY <1>0, <1>1, <1>2 DEF FreshInv, NamedInv
  <1>7. KnownInv'
    <2>1. mem \subseteq disk \cup unsaved  BY <1>0 DEF CleanupsInv
    <2> QED  BY <1>0, <1>1, <1>2, <2>1 DEF KnownInv, Photos!Forgotten
  <1> QED  BY <1>3, <1>4, <1>5, <1>6, <1>7 DEF PhotosInv

\* After a death only the keychain's record is left: the paths of a cleanup
\* that deletes are in it, unless the keychain did not take them.
LEMMA KillPhotos ==
    ASSUME Photos!ProfilePhotosAssumption, PhotosInv, Photos!Kill
    PROVE  PhotosInv'
  <1>0. /\ PhotosTypeInv /\ CleanupsInv /\ OperationInv /\ FreshInv /\ NamedInv /\ KnownInv
        /\ MaxKills \in Nat /\ MaxWaiting \in Nat
    BY DEF PhotosInv, Photos!ProfilePhotosAssumption
  <1>f. /\ mem \cup disk \cup unsaved \cup op.new \cup op.keep \cup Queued(queue) \subseteq 1..used
        /\ objects \cup named \subseteq 1..used /\ 1..used \subseteq Photos!Paths
        /\ leaked \subseteq Photos!Paths /\ queue \in Seq(Photos!Cleanups) /\ op \in Operations
    BY PhotosFacts
  <1> DEFINE fresh == op.new \cup UNION {queue[i].extra : i \in {j \in DOMAIN queue : queue[j].at = "read"}}
  <1>1. /\ kills < MaxKills /\ kills' = kills + 1
        /\ mem' = {} /\ queue' = <<>> /\ op' = Photos!NoOp /\ release' = FALSE
        /\ leaked' = leaked \cup ((Photos!Orphans \cap fresh) \ disk) \cup Photos!Forgotten
        /\ UNCHANGED <<objects, named, used, disk, draft, unsaved, photosLost, ops>>
    BY DEF Photos!Kill
  <1>2. op' \in Operations /\ op'.at = "idle" /\ op'.new = {} /\ op'.keep = {}
    BY <1>1, <1>f, EndedOperation
  <1>3. queue' \in Seq(Photos!Cleanups) /\ Len(queue') = 0 /\ Queued(queue') = {}
    <2>1. <<>> \in Seq(Photos!Cleanups) /\ Len(<<>>) = 0 /\ DOMAIN <<>> = {}  OBVIOUS
    <2>2. Queued(<<>>) = {}  BY <2>1 DEF Queued
    <2> QED  BY <1>1, <2>1, <2>2
  <1>4. \A x \in Queued(queue) : x \in fresh \/ x \in disk \cup unsaved
    <2> SUFFICES ASSUME NEW x \in Queued(queue), x \notin fresh PROVE x \in disk \cup unsaved
      OBVIOUS
    <2>1. PICK i \in 1..Len(queue) : x \in queue[i].extra \cup queue[i].pend
      BY <1>f, QueuedAll
    <2>2. queue[i] \in Photos!Cleanups /\ i \in DOMAIN queue  BY <1>f
    <2>3. CASE queue[i].at = "read"
      <3>1. queue[i].pend = {}  BY <2>3, <1>0 DEF CleanupsInv
      <3>2. i \in {j \in DOMAIN queue : queue[j].at = "read"}  BY <2>2, <2>3
      <3>3. queue[i].extra \subseteq fresh  BY <3>2
      <3> QED  BY <2>1, <3>1, <3>3
    <2>4. CASE queue[i].at = "delete"
      <3>1. i = 1 /\ Len(queue) > 0
        <4>1. i \notin 2..Len(queue)  BY <2>4, <1>0 DEF CleanupsInv
        <4> QED  BY <4>1, <1>f
      <3>2. /\ queue[1].extra \subseteq queue[1].pend
            /\ queue[1].pend \subseteq disk \cup unsaved
        BY <3>1, <2>4, <1>0 DEF CleanupsInv
      <3> QED  BY <2>1, <3>1, <3>2
    <2> QED  BY <2>2, <2>3, <2>4 DEF Photos!Cleanups
  <1>5. op.new \subseteq fresh  OBVIOUS
  <1> HIDE DEF fresh
  <1>6. Marked' = disk /\ Photos!Orphans' = Photos!Orphans
    <2>1. Marked' = mem' \cup disk' \cup Queued(queue')  BY DEF Marked
    <2> QED  BY <1>1, <1>3, <2>1 DEF Photos!Orphans
  <1>7. PhotosTypeInv'
    <2>1. leaked' \subseteq Photos!Paths  BY <1>1, <1>f DEF Photos!Forgotten, Photos!Orphans
    <2>2. Len(queue') <= MaxWaiting + 1  BY <1>0, <1>3
    <2>3. kills' \in 0..MaxKills  BY <1>0, <1>1 DEF PhotosTypeInv
    <2>4. /\ objects' \subseteq 1..used' /\ named' \subseteq 1..used' /\ named' # {}
          /\ used' \in 1..MaxPaths /\ ops' \in 0..MaxOps
          /\ draft' \in BOOLEAN /\ release' \in BOOLEAN /\ photosLost' \in BOOLEAN
      BY <1>0, <1>1 DEF PhotosTypeInv
    <2> QED  BY <1>2, <1>3, <2>1, <2>2, <2>3, <2>4 DEF PhotosTypeInv
  <1>8. CleanupsInv'
    BY <1>1, <1>3 DEF CleanupsInv
  <1>9. OperationInv'
    BY <1>0, <1>2, <1>3 DEF OperationInv
  <1>10. FreshInv'
    BY <1>1, <1>2, <1>6, <1>f DEF FreshInv
  <1>11. NamedInv'
    BY <1>0, <1>1, <1>2, <1>6 DEF NamedInv, Marked
  <1>12. KnownInv'
    <2>1. mem \subseteq disk \cup unsaved  BY <1>0 DEF CleanupsInv
    <2> SUFFICES ASSUME NEW x \in Photos!Orphans PROVE x \in disk \/ x \in leaked'
      BY <1>6 DEF KnownInv
    <2>2. x \in leaked \/ x \in disk \/ x \in fresh \/ x \in unsaved
      BY <1>0, <1>4, <1>5, <2>1 DEF KnownInv, Marked
    <2> QED  BY <2>2, <1>1 DEF Photos!Forgotten
  <1> QED  BY <1>7, <1>8, <1>9, <1>10, <1>11, <1>12 DEF PhotosInv

LEMMA PhotosBegin ==
    ASSUME Photos!ProfilePhotosAssumption, Photos!Init
    PROVE  PhotosInv
  <1>1. /\ objects = {1} /\ named = {1} /\ used = 1
        /\ mem = {} /\ disk = {} /\ queue = <<>> /\ op = Photos!NoOp
        /\ draft \in BOOLEAN /\ release = FALSE /\ unsaved = {} /\ leaked = {} /\ photosLost = FALSE
        /\ ops = 0 /\ kills = 0
    BY DEF Photos!Init
  <1>2. op \in Operations /\ op.at = "idle" /\ op.new = {} /\ op.keep = {}
    BY <1>1 DEF Photos!NoOp, Operations
  <1>3. queue \in Seq(Photos!Cleanups) /\ Len(queue) = 0 /\ Queued(queue) = {}
    <2>1. <<>> \in Seq(Photos!Cleanups) /\ Len(<<>>) = 0 /\ DOMAIN <<>> = {}  OBVIOUS
    <2>2. Queued(<<>>) = {}  BY <2>1 DEF Queued
    <2> QED  BY <1>1, <2>1, <2>2
  <1>4. PhotosTypeInv
    <2>1. Len(queue) <= MaxWaiting + 1  BY <1>3 DEF Photos!ProfilePhotosAssumption
    <2>2. /\ objects \subseteq 1..used /\ named \subseteq 1..used /\ named # {}
          /\ used \in 1..MaxPaths /\ ops \in 0..MaxOps /\ kills \in 0..MaxKills
      BY <1>1 DEF Photos!ProfilePhotosAssumption
    <2>3. leaked \subseteq Photos!Paths /\ draft \in BOOLEAN /\ release \in BOOLEAN /\ photosLost \in BOOLEAN
      BY <1>1
    <2> QED  BY <1>2, <1>3, <2>1, <2>2, <2>3 DEF PhotosTypeInv
  <1>5. CleanupsInv
    BY <1>1, <1>3 DEF CleanupsInv
  <1>6. OperationInv
    BY <1>2, <1>3 DEF OperationInv, Photos!ProfilePhotosAssumption
  <1>7. Marked = {} /\ Photos!Orphans = {}
    BY <1>1, <1>3 DEF Marked, Photos!Orphans
  <1>8. FreshInv /\ NamedInv /\ KnownInv
    BY <1>1, <1>2, <1>7 DEF FreshInv, NamedInv, KnownInv
  <1> QED  BY <1>4, <1>5, <1>6, <1>8 DEF PhotosInv

LEMMA PhotosStay ==
    ASSUME Photos!ProfilePhotosAssumption, PhotosInv, [Photos!Next]_(Photos!vars)
    PROVE  PhotosInv'
  <1>1. CASE UNCHANGED Photos!vars
    <2>1. UNCHANGED <<objects, named, used, mem, disk, queue, op, draft, release, unsaved, leaked,
                      photosLost, ops, kills>>
      BY <1>1 DEF Photos!vars
    <2>2. Marked' = Marked /\ Photos!Orphans' = Photos!Orphans  BY <2>1 DEF Marked, Photos!Orphans
    <2>3. PhotosTypeInv'  BY <2>1 DEF PhotosInv, PhotosTypeInv
    <2>4. CleanupsInv'  BY <2>1 DEF PhotosInv, CleanupsInv
    <2>5. OperationInv'  BY <2>1 DEF PhotosInv, OperationInv
    <2>6. FreshInv' /\ NamedInv' /\ KnownInv'
      BY <2>1, <2>2 DEF PhotosInv, FreshInv, NamedInv, KnownInv
    <2> QED  BY <2>3, <2>4, <2>5, <2>6 DEF PhotosInv
  <1> QED
    BY <1>1, LoadPhotos, PersistPhotos, DeletePhotos, EditPhotos, RegisterPhotos, UploadPhotos,
       ReplacedPhotos, NotReplacedPhotos, LogoutPhotos, KillPhotos DEF Photos!Next

LEMMA PhotosAre ==
    ASSUME PhotosInv
    PROVE  Photos!PhotosKept
  <1>1. Photos!OrphansAccounted
    BY InHandQueued DEF PhotosInv, KnownInv, Photos!OrphansAccounted, Marked
  <1>2. Photos!NamedIsKept
    BY DEF PhotosInv, NamedInv, Photos!NamedIsKept
  <1> QED  BY <1>1, <1>2 DEF Photos!PhotosKept

LEMMA PhotosTypes ==
    ASSUME Photos!ProfilePhotosAssumption, PhotosInv
    PROVE  Photos!PhotosTypeOK
  <1>1. PhotosTypeInv /\ CleanupsInv /\ OperationInv
    BY DEF PhotosInv
  <1>2. /\ mem \subseteq Photos!Paths /\ disk \subseteq Photos!Paths
        /\ unsaved \cup leaked \subseteq Photos!Paths
    BY PhotosFacts
  <1>3. Cardinality({i \in DOMAIN queue : queue[i].by = "op"}) <= 1
    <2> DEFINE S == {i \in DOMAIN queue : queue[i].by = "op"}
    <2>1. DOMAIN queue = 1..Len(queue)  BY <1>1 DEF PhotosTypeInv
    <2>2. \A i, j \in S : i = j  BY <1>1, <2>1 DEF OperationInv
    <2>3. CASE S = {}
      <3>1. Cardinality(S) = 0  BY <2>3, FS_EmptySet
      <3> QED  BY <3>1
    <2>4. CASE S # {}
      <3>1. PICK i \in S : TRUE  BY <2>4
      <3>2. S = {i}  BY <2>2, <3>1
      <3>3. Cardinality({i}) = 1  BY FS_Singleton
      <3>4. Cardinality(S) = 1  BY <3>2, <3>3
      <3> QED  BY <3>4
    <2> QED  BY <2>3, <2>4
  <1>c. Photos!Cardinality({i \in DOMAIN queue : queue[i].by = "op"}) <= 1
    BY <1>3 DEF Photos!Cardinality, Cardinality
  <1>4. \A i \in 2..Len(queue) : queue[i].at = "read"
    BY <1>1 DEF CleanupsInv
  <1>5. queue \in Seq(Photos!Cleanups) /\ Len(queue) <= MaxWaiting + 1
    BY <1>1 DEF PhotosTypeInv
  <1>6. op \in [at : {"idle", "first", "upload", "last"}, kind : {"none", "edit", "registration"},
                keep : SUBSET Photos!Paths, new : SUBSET Photos!Paths]
    BY <1>1 DEF PhotosTypeInv, Operations
  <1>7. /\ objects \subseteq 1..used /\ named \subseteq 1..used /\ named # {} /\ used \in 1..MaxPaths
        /\ draft \in BOOLEAN /\ release \in BOOLEAN /\ photosLost \in BOOLEAN
        /\ ops \in 0..MaxOps /\ kills \in 0..MaxKills
    BY <1>1 DEF PhotosTypeInv
  <1> QED  BY <1>2, <1>c, <1>4, <1>5, <1>6, <1>7 DEF Photos!PhotosTypeOK

-----------------------------------------------------------------------------
(* The deck *)

\* The pages of the deck, and its cards in the order of the server.
DeckPages == [items : Seq(Candidates), more : BOOLEAN]
InOrder(s) == \A i, k \in 1..Len(s) : i < k => s[i] < s[k]

DeckTypeInv ==
    /\ reaction \in [Candidates -> Deck!Kinds \cup {"none"}]
    /\ left \in 0..Likes
    /\ deck \in Deck!Queries(DeckPages)
    /\ deckWant \in {"pages", "next"} /\ index \in 0..Cardinality(Candidates)
    /\ likes \in [Lists -> Deck!Queries(SUBSET Candidates)]
    /\ quota \in 0..Likes
    /\ deckJobs \subseteq Deck!Jobs
    /\ whole \in BOOLEAN /\ tries \in 0..MaxTries /\ refreshes \in 0..MaxRefresh

\* The pages are in order, and so are those of an answer that continues them.
PagesInv ==
    /\ InOrder(deck.data.items) /\ InOrder(deck.got.items)
    /\ deckWant = "next" => deck.loaded
    /\ ~deck.loaded => index = 0 /\ Len(deck.data.items) = 0
    /\ deck.fetch = "served" /\ deckWant = "next" =>
          \A i \in 1..Len(deck.data.items), k \in 1..Len(deck.got.items) :
              deck.data.items[i] < deck.got.items[k]

\* A mutation that was answered well was decided, and the likes screen only
\* passes.
DecisionsInv ==
    /\ \A j \in deckJobs : j.at = "done" => reaction[j.c] # "none"
    /\ \A j \in deckJobs : j.from = "likes" => j.kind = "pass"

\* Only the card before the one on top can be undecided, and only while the
\* deck's own mutation is under way.
CardsInv ==
    whole => /\ index <= Len(deck.data.items)
             /\ \A i \in 1..Len(deck.data.items) :
                   i <= index => \/ reaction[deck.data.items[i]] # "none"
                                 \/ i = index /\ \E j \in Deck!CardsJobs : j.c = deck.data.items[i]

DeckInv == DeckTypeInv /\ PagesInv /\ DecisionsInv /\ CardsInv

\* What the operations on a query leave in its fields.
LEMMA RefetchedPages ==
    ASSUME NEW D, NEW q \in Deck!Queries(D)
    PROVE  /\ Deck!Refetched(q) \in Deck!Queries(D) /\ Deck!Refetched(q).loaded = q.loaded
           /\ Deck!Refetched(q).data = q.data /\ Deck!Refetched(q).got = q.got
           /\ q.loaded => Deck!Refetched(q).fetch = "sent"
           /\ q.fetch = "idle" => Deck!Refetched(q).fetch = "sent"
  <1> DEFINE r == [q EXCEPT !.fetch = "sent"]
  <1>1. r \in Deck!Queries(D)  BY DEF Deck!Queries
  <1>2. r.loaded = q.loaded /\ r.data = q.data /\ r.got = q.got /\ r.fetch = "sent"
    BY DEF Deck!Queries
  <1>3. Deck!Refetched(q) = r \/ (Deck!Refetched(q) = q /\ ~q.loaded /\ q.fetch # "idle")
    BY DEF Deck!Refetched, Deck!Joins
  <1> HIDE DEF r
  <1> QED  BY <1>1, <1>2, <1>3

LEMMA ServedPages ==
    ASSUME NEW D, NEW q \in Deck!Queries(D), NEW v \in D
    PROVE  /\ Deck!Served(q, v) \in Deck!Queries(D) /\ Deck!Served(q, v).loaded = q.loaded
           /\ Deck!Served(q, v).data = q.data /\ Deck!Served(q, v).got = v
           /\ Deck!Served(q, v).fetch = "served"
  <1>1. Deck!Served(q, v) \in Deck!Queries(D)  BY DEF Deck!Queries, Deck!Served
  <1>2. Deck!Served(q, v).loaded = q.loaded /\ Deck!Served(q, v).data = q.data  BY DEF Deck!Queries, Deck!Served
  <1>3. Deck!Served(q, v).fetch = "served" /\ Deck!Served(q, v).got = v  BY DEF Deck!Queries, Deck!Served
  <1> QED  BY <1>1, <1>2, <1>3

LEMMA ArrivedPages ==
    ASSUME NEW D, NEW q \in Deck!Queries(D), NEW no \in D
    PROVE  /\ Deck!Arrived(q, no) \in Deck!Queries(D) /\ Deck!Arrived(q, no).loaded
           /\ Deck!Arrived(q, no).data = q.got /\ Deck!Arrived(q, no).got = no
           /\ Deck!Arrived(q, no).fetch = "idle"
  <1>1. Deck!Arrived(q, no) \in Deck!Queries(D)  BY DEF Deck!Queries, Deck!Arrived
  <1>2. /\ Deck!Arrived(q, no).loaded /\ Deck!Arrived(q, no).fetch = "idle"
        /\ Deck!Arrived(q, no).data = q.got /\ Deck!Arrived(q, no).got = no
    BY DEF Deck!Arrived
  <1> QED  BY <1>1, <1>2

LEMMA WrittenPages ==
    ASSUME NEW D, NEW q \in Deck!Queries(D), NEW v \in D
    PROVE  /\ Deck!Written(q, v) \in Deck!Queries(D) /\ Deck!Written(q, v).loaded
           /\ Deck!Written(q, v).data = v /\ Deck!Written(q, v).got = q.got
           /\ Deck!Written(q, v).fetch = q.fetch
  <1>1. Deck!Written(q, v) \in Deck!Queries(D)  BY DEF Deck!Queries, Deck!Written
  <1>2. Deck!Written(q, v).loaded  BY DEF Deck!Queries, Deck!Written
  <1>3. Deck!Written(q, v).data = v /\ Deck!Written(q, v).got = q.got /\ Deck!Written(q, v).fetch = q.fetch
    BY DEF Deck!Queries, Deck!Written
  <1> QED  BY <1>1, <1>2, <1>3

LEMMA FreshPages ==
    /\ Deck!NoCards \in DeckPages /\ Deck!NoCards.items = <<>> /\ Len(Deck!NoCards.items) = 0
    /\ InOrder(Deck!NoCards.items)
    /\ Deck!Refetched(Deck!Unloaded(Deck!NoCards)) \in Deck!Queries(DeckPages)
    /\ ~Deck!Refetched(Deck!Unloaded(Deck!NoCards)).loaded
    /\ Deck!Refetched(Deck!Unloaded(Deck!NoCards)).data = Deck!NoCards
    /\ Deck!Refetched(Deck!Unloaded(Deck!NoCards)).got = Deck!NoCards
    /\ Deck!Refetched(Deck!Unloaded(Deck!NoCards)).fetch = "sent"
  <1>1. Deck!NoCards.items = <<>> /\ Len(Deck!NoCards.items) = 0 /\ Deck!NoCards \in DeckPages
    BY DEF Deck!NoCards, DeckPages
  <1>2. InOrder(Deck!NoCards.items)  BY <1>1 DEF InOrder
  <1> DEFINE q == Deck!Unloaded(Deck!NoCards)
  <1>3. /\ q \in Deck!Queries(DeckPages) /\ ~q.loaded /\ q.data = Deck!NoCards /\ q.got = Deck!NoCards
        /\ q.fetch = "idle"
    BY <1>1 DEF Deck!Unloaded, Deck!Queries
  <1> HIDE DEF q
  <1>4. /\ Deck!Refetched(q) \in Deck!Queries(DeckPages) /\ Deck!Refetched(q).loaded = q.loaded
        /\ Deck!Refetched(q).data = q.data /\ Deck!Refetched(q).got = q.got
        /\ Deck!Refetched(q).fetch = "sent"
    BY <1>3, RefetchedPages
  <1> QED  BY <1>1, <1>2, <1>3, <1>4 DEF q

\* Candidates are numbers.
LEMMA CandidatesInt ==
    ASSUME Deck!DeckAssumption
    PROVE  /\ Candidates \subseteq Int /\ Cardinality(Candidates) \in Nat /\ IsFiniteSet(Candidates)
           /\ Deck!Cardinality(Candidates) = Cardinality(Candidates)
  <1>1. /\ Deck!Cardinality(Candidates) = Cardinality(Candidates)
        /\ Deck!IsFiniteSet(Candidates) => IsFiniteSet(Candidates)
    BY DEF Deck!Cardinality, Cardinality, Deck!IsFiniteSet, IsFiniteSet
  <1>2. IsFiniteSet(Candidates)
    BY <1>1 DEF Deck!DeckAssumption
  <1>3. Cardinality(Candidates) \in Nat
    BY <1>2, FS_CardinalityType
  <1> DEFINE n == Cardinality(Candidates)
  <1>4. n \in Nat /\ Candidates = 1..n  BY <1>1, <1>3 DEF Deck!DeckAssumption
  <1> HIDE DEF n
  <1>5. Candidates \subseteq Int  BY <1>4
  <1> QED  BY <1>1, <1>2, <1>3, <1>5

\* The cards in order are no more than the candidates.
LEMMA OrderedCards ==
    ASSUME Deck!DeckAssumption, NEW s \in Seq(Candidates), InOrder(s)
    PROVE  Len(s) <= Cardinality(Candidates)
  <1>1. Len(s) \in Nat /\ s \in [1..Len(s) -> Candidates] /\ DOMAIN s = 1..Len(s)
    OBVIOUS
  <1>2. /\ IsFiniteSet(Candidates) /\ Cardinality(Candidates) \in Nat
        /\ Candidates \subseteq Int
    BY CandidatesInt
  <1>3. \A i, k \in 1..Len(s) : s[i] = s[k] => i = k
    <2> SUFFICES ASSUME NEW i \in 1..Len(s), NEW k \in 1..Len(s), s[i] = s[k] PROVE i = k
      OBVIOUS
    <2>1. s[i] \in Int /\ s[k] \in Int  BY <1>1, <1>2
    <2>2. ~(i < k) /\ ~(k < i)  BY <2>1 DEF InOrder
    <2> QED  BY <2>2, <1>1
  <1>4. s \in Injection(1..Len(s), Candidates)
    BY <1>1, <1>3 DEF Injection, IsInjective
  <1>5. Cardinality(1..Len(s)) <= Cardinality(Candidates)
    BY <1>2, <1>4, FS_Injection
  <1>6. Cardinality(1..Len(s)) = Len(s)
    <2>1. Cardinality(1..Len(s)) = IF 1 > Len(s) THEN 0 ELSE Len(s) - 1 + 1
      BY <1>1, FS_Interval
    <2>2. Len(s) \in Nat  BY <1>1
    <2> QED  BY <2>1, <2>2
  <1> QED  BY <1>5, <1>6

\* A page, and two pages one after the other.
LEMMA PageInOrder ==
    ASSUME Deck!DeckAssumption, DeckTypeInv, NEW after, NEW n \in Nat, NEW page \in Deck!Pages(after, n)
    PROVE  /\ page \in Seq(Candidates) /\ InOrder(page) /\ Len(page) \in Nat
           /\ \A k \in 1..Len(page) : page[k] > after
  <1> DEFINE all == {c \in Deck!Eligible : c > after}
  <1>1. all \subseteq Candidates  BY DEF Deck!Eligible
  <1>2. /\ page \in UNION {[1..m -> all] : m \in 0..n}
        /\ \A i, k \in DOMAIN page : i < k => page[i] < page[k]
    BY DEF Deck!Pages
  <1>3. \A c \in all : c > after  OBVIOUS
  <1> HIDE DEF all
  <1>4. PICK m \in 0..n : page \in [1..m -> all]  BY <1>2
  <1>5. page \in Seq(all) /\ Len(page) = m /\ DOMAIN page = 1..Len(page) /\ m \in Nat
    BY <1>4
  <1>6. page \in Seq(Candidates)  BY <1>1, <1>4
  <1>7. InOrder(page)  BY <1>2, <1>5 DEF InOrder
  <1>8. \A k \in 1..Len(page) : page[k] > after  BY <1>3, <1>4, <1>5
  <1> QED  BY <1>5, <1>6, <1>7, <1>8

LEMMA PagesInOrder ==
    ASSUME Deck!DeckAssumption, NEW s \in Seq(Candidates), NEW t \in Seq(Candidates),
           InOrder(s), InOrder(t),
           \A i \in 1..Len(s), k \in 1..Len(t) : s[i] < t[k]
    PROVE  /\ s \o t \in Seq(Candidates) /\ InOrder(s \o t)
           /\ Len(s \o t) >= Len(s) /\ \A i \in 1..Len(s) : (s \o t)[i] = s[i]
  <1> DEFINE u == s \o t
  <1>1. /\ u \in Seq(Candidates) /\ Len(u) = Len(s) + Len(t) /\ Len(s) \in Nat /\ Len(t) \in Nat
        /\ \A i \in 1..Len(s) : u[i] = s[i]
        /\ \A i \in 1..Len(u) : i > Len(s) => u[i] = t[i - Len(s)]
    OBVIOUS
  <1> HIDE DEF u
  <1>2. InOrder(u)
    <2> SUFFICES ASSUME NEW i \in 1..Len(u), NEW k \in 1..Len(u), i < k PROVE u[i] < u[k]
      BY DEF InOrder
    <2>1. CASE k <= Len(s)
      <3>1. i \in 1..Len(s) /\ k \in 1..Len(s)  BY <2>1
      <3> QED  BY <3>1, <1>1 DEF InOrder
    <2>2. CASE i <= Len(s) /\ k > Len(s)
      <3>1. i \in 1..Len(s) /\ k - Len(s) \in 1..Len(t)  BY <2>2, <1>1
      <3> QED  BY <3>1, <2>2, <1>1
    <2>3. CASE i > Len(s)
      <3>1. i - Len(s) \in 1..Len(t) /\ k - Len(s) \in 1..Len(t) /\ i - Len(s) < k - Len(s) /\ k > Len(s)
        BY <2>3, <1>1
      <3>2. t[i - Len(s)] < t[k - Len(s)]  BY <3>1 DEF InOrder
      <3> QED  BY <3>1, <3>2, <2>3, <1>1
    <2> QED  BY <2>1, <2>2, <2>3, <1>1
  <1> QED  BY <1>1, <1>2 DEF u


\* What the operations leave in the lists of pending likes.
LEMMA LikesTypes ==
    ASSUME DeckTypeInv
    PROVE  /\ \A c \in Candidates : Deck!Suppressed(c) \in [Lists -> Deck!Queries(SUBSET Candidates)]
           /\ \A j \in deckJobs : Deck!Restored(j.had) \in [Lists -> Deck!Queries(SUBSET Candidates)]
           /\ [l \in Lists |-> IF likes[l].loaded THEN Deck!Refetched(likes[l]) ELSE likes[l]]
                 \in [Lists -> Deck!Queries(SUBSET Candidates)]
           /\ Deck!Had \in [Lists -> [loaded : BOOLEAN, data : SUBSET Candidates]]
  <1>1. \A l \in Lists : likes[l] \in Deck!Queries(SUBSET Candidates)
    BY DEF DeckTypeInv
  <1>2. \A l \in Lists : likes[l].data \in SUBSET Candidates /\ likes[l].loaded \in BOOLEAN
    BY <1>1 DEF Deck!Queries
  <1>3. ASSUME NEW c \in Candidates, NEW l \in Lists
        PROVE  Deck!Updated(likes[l], likes[l].data \ {c}) \in Deck!Queries(SUBSET Candidates)
    <2>1. (likes[l].data \ {c}) \in SUBSET Candidates  BY <1>2
    <2>2. Deck!Written(likes[l], likes[l].data \ {c}) \in Deck!Queries(SUBSET Candidates)
      BY <1>1, <2>1, WrittenPages
    <2> QED  BY <1>1, <2>2 DEF Deck!Updated
  <1>4. ASSUME NEW j \in deckJobs, NEW l \in Lists
        PROVE  Deck!Written(likes[l], j.had[l].data) \in Deck!Queries(SUBSET Candidates)
    <2>1. j.had[l].data \in SUBSET Candidates
      <3>1. j.had \in [Lists -> [loaded : BOOLEAN, data : SUBSET Candidates]]
        BY DEF DeckTypeInv, Deck!Jobs
      <3> QED  BY <3>1
    <2> QED  BY <1>1, <2>1, WrittenPages
  <1>5. \A l \in Lists : Deck!Refetched(likes[l]) \in Deck!Queries(SUBSET Candidates)
    BY <1>1, RefetchedPages
  <1>6. \A c \in Candidates : Deck!Suppressed(c) \in [Lists -> Deck!Queries(SUBSET Candidates)]
    BY <1>3 DEF Deck!Suppressed
  <1>7. \A j \in deckJobs : Deck!Restored(j.had) \in [Lists -> Deck!Queries(SUBSET Candidates)]
    BY <1>1, <1>4 DEF Deck!Restored
  <1>8. [l \in Lists |-> IF likes[l].loaded THEN Deck!Refetched(likes[l]) ELSE likes[l]]
                 \in [Lists -> Deck!Queries(SUBSET Candidates)]
    BY <1>1, <1>5
  <1>9. Deck!Had \in [Lists -> [loaded : BOOLEAN, data : SUBSET Candidates]]
    BY <1>2 DEF Deck!Had
  <1> QED  BY <1>6, <1>7, <1>8, <1>9

\* The deck's fields.
LEMMA DeckFields ==
    ASSUME DeckTypeInv
    PROVE  /\ deck.loaded \in BOOLEAN /\ deck.fetch \in {"idle", "sent", "served"}
           /\ deck.data \in DeckPages /\ deck.got \in DeckPages
           /\ deck.data.items \in Seq(Candidates) /\ deck.got.items \in Seq(Candidates)
           /\ Len(deck.data.items) \in Nat /\ Len(deck.got.items) \in Nat
  <1>1. /\ deck.loaded \in BOOLEAN /\ deck.fetch \in {"idle", "sent", "served"}
        /\ deck.data \in DeckPages /\ deck.got \in DeckPages
    BY DEF DeckTypeInv, Deck!Queries
  <1>2. deck.data.items \in Seq(Candidates) /\ deck.got.items \in Seq(Candidates)
    BY <1>1 DEF DeckPages
  <1> QED  BY <1>1, <1>2

\* The lists and the quota are not about the deck.
LEMMA OtherQueries ==
    ASSUME DeckInv, UNCHANGED <<reaction, left, deck, deckWant, index, deckJobs, whole, tries>>,
           likes' \in [Lists -> Deck!Queries(SUBSET Candidates)], quota' \in 0..Likes,
           refreshes' \in 0..MaxRefresh
    PROVE  DeckInv'
  <1>1. DeckTypeInv'  BY DEF DeckInv, DeckTypeInv
  <1>2. PagesInv'  BY DEF DeckInv, PagesInv
  <1>3. DecisionsInv'  BY DEF DeckInv, DecisionsInv
  <1>4. CardsInv'  BY DEF DeckInv, CardsInv, Deck!CardsJobs
  <1> QED  BY <1>1, <1>2, <1>3, <1>4 DEF DeckInv

LEMMA ListsKept ==
    ASSUME Deck!DeckAssumption, DeckInv, NEW l \in Lists,
           Deck!ServeLikes(l) \/ Deck!LikesArrive(l) \/ Deck!OpenLikes(l)
    PROVE  DeckInv'
  <1>0. DeckTypeInv  BY DEF DeckInv
  <1>1. likes[l] \in Deck!Queries(SUBSET Candidates) /\ likes \in [Lists -> Deck!Queries(SUBSET Candidates)]
    BY <1>0 DEF DeckTypeInv
  <1>2. quota \in 0..Likes /\ refreshes \in 0..MaxRefresh  BY <1>0 DEF DeckTypeInv
  <1>3. CASE Deck!ServeLikes(l)
    <2>1. Deck!Pending(l) \in SUBSET Candidates
      BY DEF Deck!Pending, Deck!DeckAssumption
    <2>2. Deck!Served(likes[l], Deck!Pending(l)) \in Deck!Queries(SUBSET Candidates)
      BY <1>1, <2>1, ServedPages
    <2>3. likes' \in [Lists -> Deck!Queries(SUBSET Candidates)]
      BY <1>1, <1>3, <2>2 DEF Deck!ServeLikes
    <2> QED  BY <1>2, <1>3, <2>3, OtherQueries DEF Deck!ServeLikes
  <1>4. CASE Deck!LikesArrive(l)
    <2>1. Deck!Arrived(likes[l], {}) \in Deck!Queries(SUBSET Candidates)
      <3>1. {} \in SUBSET Candidates  OBVIOUS
      <3> QED  BY <1>1, <3>1, ArrivedPages
    <2>2. likes' \in [Lists -> Deck!Queries(SUBSET Candidates)]
      BY <1>1, <1>4, <2>1 DEF Deck!LikesArrive
    <2> QED  BY <1>2, <1>4, <2>2, OtherQueries DEF Deck!LikesArrive
  <1>5. CASE Deck!OpenLikes(l)
    <2>1. Deck!Refetched(likes[l]) \in Deck!Queries(SUBSET Candidates)
      BY <1>1, RefetchedPages
    <2>2. likes' \in [Lists -> Deck!Queries(SUBSET Candidates)]
      BY <1>1, <1>5, <2>1 DEF Deck!OpenLikes
    <2> QED  BY <1>2, <1>5, <2>2, OtherQueries DEF Deck!OpenLikes
  <1> QED  BY <1>3, <1>4, <1>5

LEMMA QuotaKept ==
    ASSUME Deck!DeckAssumption, DeckInv, Deck!ServeQuota
    PROVE  DeckInv'
  BY OtherQueries DEF Deck!ServeQuota, DeckInv, DeckTypeInv

LEMMA ServeDeckKept ==
    ASSUME Deck!DeckAssumption, DeckInv, Deck!ServeDeck
    PROVE  DeckInv'
  <1>0. DeckTypeInv /\ PagesInv /\ DecisionsInv /\ CardsInv  BY DEF DeckInv
  <1> DEFINE items == deck.data.items
             n     == IF deckWant = "next" \/ items = <<>> THEN DeckPage ELSE Len(items)
             after == IF deckWant = "next" /\ items # <<>> THEN Deck!Last(items) ELSE 0
  <1>1. UNCHANGED <<reaction, left, deckWant, index, likes, quota, deckJobs, whole, tries, refreshes>>
    BY DEF Deck!ServeDeck
  <1>2. PICK page \in Deck!Pages(after, n) :
            deck' = Deck!Served(deck, [items |-> page, more |-> Len(page) = n])
    BY DEF Deck!ServeDeck
  <1>3. n \in Nat  BY <1>0, DeckFields DEF Deck!DeckAssumption
  <1>f. deckWant = "next" /\ Len(items) > 0 => after = Deck!Last(items)
    BY <1>0, DeckFields
  <1> HIDE DEF n, after
  <1>4. /\ page \in Seq(Candidates) /\ InOrder(page) /\ Len(page) \in Nat
        /\ \A k \in 1..Len(page) : page[k] > after
    BY <1>0, <1>3, PageInOrder
  <1> DEFINE answer == [items |-> page, more |-> Len(page) = n]
  <1>5. answer \in DeckPages /\ answer.items = page
    BY <1>4 DEF DeckPages
  <1> HIDE DEF answer
  <1>6. deck \in Deck!Queries(DeckPages)  BY <1>0 DEF DeckTypeInv
  <1>7. /\ deck' \in Deck!Queries(DeckPages) /\ deck'.loaded = deck.loaded
        /\ deck'.data = deck.data /\ deck'.got = answer /\ deck'.fetch = "served"
    BY <1>2, <1>5, <1>6, ServedPages DEF answer
  <1>8. DeckTypeInv'  BY <1>0, <1>1, <1>7 DEF DeckTypeInv
  <1>9. PagesInv'
    <2>1. ASSUME deckWant = "next", NEW i \in 1..Len(items), NEW k \in 1..Len(page)
          PROVE  items[i] < page[k]
      <3>1. items \in Seq(Candidates) /\ Len(items) \in Nat  BY <1>0, DeckFields
      <3>2. Len(items) \in 1..Len(items) /\ Len(items) > 0  BY <3>1
      <3>3. after = items[Len(items)]  BY <1>f, <2>1, <3>2 DEF Deck!Last
      <3>4. /\ items[i] \in Int /\ items[Len(items)] \in Int /\ page[k] \in Int
        <4>1. Candidates \subseteq Int  BY CandidatesInt
        <4>2. items[i] \in Candidates /\ items[Len(items)] \in Candidates /\ page[k] \in Candidates
          BY <1>4, <3>1, <3>2
        <4> QED  BY <4>1, <4>2
      <3>5. items[i] <= items[Len(items)]
        <4>1. CASE i = Len(items)  BY <4>1, <3>4
        <4>2. CASE i < Len(items)
          <5>1. items[i] < items[Len(items)]  BY <4>2, <3>2, <1>0 DEF PagesInv, InOrder
          <5> QED  BY <5>1, <3>4
        <4> QED  BY <4>1, <4>2, <3>1
      <3>6. page[k] > after  BY <1>4
      <3> QED  BY <3>3, <3>4, <3>5, <3>6
    <2>2. InOrder(deck'.data.items) /\ InOrder(deck'.got.items)
      BY <1>0, <1>4, <1>5, <1>7 DEF PagesInv
    <2>3. /\ deckWant' = "next" => deck'.loaded
          /\ ~deck'.loaded => index' = 0 /\ Len(deck'.data.items) = 0
      BY <1>0, <1>1, <1>7 DEF PagesInv
    <2>4. deckWant' = "next" =>
          \A i \in 1..Len(deck'.data.items), k \in 1..Len(deck'.got.items) :
              deck'.data.items[i] < deck'.got.items[k]
      BY <1>1, <1>5, <1>7, <2>1
    <2> QED  BY <2>2, <2>3, <2>4 DEF PagesInv, InOrder
  <1>10. DecisionsInv'  BY <1>0, <1>1 DEF DecisionsInv
  <1>11. CardsInv'
    <2>1. Deck!CardsJobs' = Deck!CardsJobs  BY <1>1 DEF Deck!CardsJobs
    <2> QED  BY <1>0, <1>1, <1>7, <2>1 DEF CardsInv
  <1> QED  BY <1>8, <1>9, <1>10, <1>11 DEF DeckInv

LEMMA RefreshKept ==
    ASSUME Deck!DeckAssumption, DeckInv, Deck!RefreshDeck
    PROVE  DeckInv'
  <1>0. DeckTypeInv /\ DecisionsInv  BY DEF DeckInv
  <1>1. /\ UNCHANGED <<reaction, left, likes, quota, deckJobs, tries>>
        /\ refreshes < MaxRefresh /\ refreshes' = refreshes + 1
        /\ index' = 0 /\ deckWant' = "pages" /\ whole' = TRUE
        /\ deck' = Deck!Refetched(Deck!Unloaded(Deck!NoCards))
    BY DEF Deck!RefreshDeck, Deck!Fresh
  <1>2. /\ deck' \in Deck!Queries(DeckPages) /\ ~deck'.loaded /\ deck'.data = Deck!NoCards
        /\ deck'.got = Deck!NoCards
        /\ deck'.fetch = "sent"
    BY <1>1, FreshPages
  <1>3. DeckTypeInv'
    <2>1. 0 \in 0..Cardinality(Candidates)
      BY CandidatesInt
    <2>2. refreshes' \in 0..MaxRefresh  BY <1>0, <1>1 DEF DeckTypeInv, Deck!DeckAssumption
    <2> QED  BY <1>0, <1>1, <1>2, <2>1, <2>2 DEF DeckTypeInv
  <1>4. PagesInv'
    BY <1>1, <1>2, FreshPages DEF PagesInv
  <1>5. DecisionsInv'  BY <1>0, <1>1 DEF DecisionsInv
  <1>6. CardsInv'
    <2>1. Len(deck'.data.items) = 0  BY <1>2, FreshPages
    <2> QED  BY <1>1, <2>1 DEF CardsInv
  <1> QED  BY <1>3, <1>4, <1>5, <1>6 DEF DeckInv

\* A fetch of the deck starts again.
LEMMA DeckAsked ==
    ASSUME Deck!DeckAssumption, DeckInv, deck.loaded, deck' = Deck!Refetched(deck),
           deckWant' \in {"pages", "next"}, likes' \in [Lists -> Deck!Queries(SUBSET Candidates)],
           refreshes' \in 0..MaxRefresh,
           UNCHANGED <<reaction, left, index, quota, deckJobs, whole, tries>>
    PROVE  DeckInv'
  <1>0. DeckTypeInv /\ PagesInv /\ DecisionsInv /\ CardsInv  BY DEF DeckInv
  <1>1. deck \in Deck!Queries(DeckPages)  BY <1>0 DEF DeckTypeInv
  <1>2. /\ deck' \in Deck!Queries(DeckPages) /\ deck'.loaded = deck.loaded
        /\ deck'.data = deck.data /\ deck'.got = deck.got /\ deck'.fetch = "sent"
    BY <1>1, RefetchedPages
  <1>3. DeckTypeInv'  BY <1>0, <1>2 DEF DeckTypeInv
  <1>4. PagesInv'  BY <1>0, <1>2 DEF PagesInv
  <1>5. DecisionsInv'  BY <1>0 DEF DecisionsInv
  <1>6. CardsInv'
    <2>1. Deck!CardsJobs' = Deck!CardsJobs  BY DEF Deck!CardsJobs
    <2> QED  BY <1>0, <1>2, <2>1 DEF CardsInv
  <1> QED  BY <1>3, <1>4, <1>5, <1>6 DEF DeckInv

LEMMA BackgroundKept ==
    ASSUME Deck!DeckAssumption, DeckInv, Deck!Background \/ Deck!NextPage
    PROVE  DeckInv'
  <1>0. DeckTypeInv  BY DEF DeckInv
  <1>1. CASE Deck!Background
    <2>1. likes' \in [Lists -> Deck!Queries(SUBSET Candidates)]
      BY <1>0, <1>1, LikesTypes DEF Deck!Background
    <2>2. refreshes' \in 0..MaxRefresh
      BY <1>0, <1>1 DEF Deck!Background, DeckTypeInv, Deck!DeckAssumption
    <2> QED  BY <1>1, <2>1, <2>2, DeckAsked DEF Deck!Background
  <1>2. CASE Deck!NextPage
    <2>1. likes' \in [Lists -> Deck!Queries(SUBSET Candidates)] /\ refreshes' \in 0..MaxRefresh
      BY <1>0, <1>2 DEF Deck!NextPage, DeckTypeInv
    <2> QED  BY <1>2, <2>1, DeckAsked DEF Deck!NextPage
  <1> QED  BY <1>1, <1>2

LEMMA DeckArrivesKept ==
    ASSUME Deck!DeckAssumption, DeckInv, Deck!DeckArrives
    PROVE  DeckInv'
  <1>0. DeckTypeInv /\ PagesInv /\ DecisionsInv /\ CardsInv  BY DEF DeckInv
  <1> DEFINE cards == IF deckWant = "next" THEN [deck.got EXCEPT !.items = deck.data.items \o @] ELSE deck.got
             q     == Deck!Arrived(deck, Deck!NoCards)
  <1>1. /\ deck.fetch = "served" /\ deck' = Deck!Written(q, cards)
        /\ whole' = (whole /\ (deckWant = "next" \/ ~deck.loaded))
        /\ UNCHANGED <<reaction, left, deckWant, index, likes, quota, deckJobs, tries, refreshes>>
    BY DEF Deck!DeckArrives
  <1>2. deck \in Deck!Queries(DeckPages)  BY <1>0 DEF DeckTypeInv
  <1>3. q \in Deck!Queries(DeckPages) /\ q.got = Deck!NoCards /\ q.fetch = "idle"
    BY <1>2, FreshPages, ArrivedPages
  <1>4. /\ cards \in DeckPages /\ InOrder(cards.items)
        /\ deckWant = "next" => /\ Len(cards.items) >= Len(deck.data.items)
                                /\ \A i \in 1..Len(deck.data.items) : cards.items[i] = deck.data.items[i]
    <2>1. CASE deckWant = "next"
      <3> DEFINE s == deck.data.items
                 t == deck.got.items
      <3>1. /\ s \in Seq(Candidates) /\ t \in Seq(Candidates) /\ InOrder(s) /\ InOrder(t)
            /\ \A i \in 1..Len(s), k \in 1..Len(t) : s[i] < t[k]
        BY <1>0, <1>1, <2>1, DeckFields DEF PagesInv
      <3>2. /\ s \o t \in Seq(Candidates) /\ InOrder(s \o t)
            /\ Len(s \o t) >= Len(s) /\ \A i \in 1..Len(s) : (s \o t)[i] = s[i]
        <4> HIDE DEF s, t
        <4> QED  BY <3>1, PagesInOrder
      <3>3. deck.got \in DeckPages  BY <1>0, DeckFields
      <3>4. cards = [deck.got EXCEPT !.items = s \o t]  BY <2>1, <3>3 DEF DeckPages
      <3>5. cards \in DeckPages /\ cards.items = s \o t
        <4> DEFINE u == s \o t
        <4>1. u \in Seq(Candidates)  BY <3>2
        <4>2. cards = [deck.got EXCEPT !.items = u]  BY <3>4
        <4> HIDE DEF u, cards
        <4>3. cards \in DeckPages /\ cards.items = u
          BY <3>3, <4>1, <4>2 DEF DeckPages
        <4> QED  BY <4>3 DEF u
      <3> QED  BY <3>2, <3>5
    <2>2. CASE deckWant # "next"
      BY <1>0, <2>2, DeckFields DEF PagesInv
    <2> QED  BY <2>1, <2>2
  <1> HIDE DEF q, cards
  <1>5. /\ deck' \in Deck!Queries(DeckPages) /\ deck'.loaded /\ deck'.data = cards
        /\ deck'.got = Deck!NoCards /\ deck'.fetch = "idle"
    BY <1>1, <1>3, <1>4, WrittenPages
  <1>6. DeckTypeInv'
    <2>1. whole' \in BOOLEAN  BY <1>0, <1>1 DEF DeckTypeInv
    <2> QED  BY <1>0, <1>1, <1>5, <2>1 DEF DeckTypeInv
  <1>7. PagesInv'
    BY <1>4, <1>5, FreshPages DEF PagesInv
  <1>8. DecisionsInv'  BY <1>0, <1>1 DEF DecisionsInv
  <1>9. CardsInv'
    <2>1. Deck!CardsJobs' = Deck!CardsJobs  BY <1>1 DEF Deck!CardsJobs
    <2>2. cards \in DeckPages /\ Len(cards.items) \in Nat  BY <1>4 DEF DeckPages
    <2>3. CASE ~deck.loaded
      <3>1. index' = 0  BY <2>3, <1>0, <1>1 DEF PagesInv
      <3> QED  BY <3>1, <1>5, <2>2 DEF CardsInv
    <2>4. CASE deck.loaded /\ deckWant # "next"
      <3>1. ~whole'  BY <2>4, <1>1
      <3> QED  BY <3>1 DEF CardsInv
    <2>5. CASE deck.loaded /\ deckWant = "next"
      <3> SUFFICES ASSUME whole'
                   PROVE  /\ index <= Len(cards.items)
                          /\ \A i \in 1..Len(cards.items) :
                                i <= index => \/ reaction[cards.items[i]] # "none"
                                              \/ i = index /\ \E j \in Deck!CardsJobs : j.c = cards.items[i]
        BY <1>1, <1>5, <2>1 DEF CardsInv
      <3>1. /\ index <= Len(deck.data.items)
            /\ \A i \in 1..Len(deck.data.items) :
                   i <= index => \/ reaction[deck.data.items[i]] # "none"
                                 \/ i = index /\ \E j \in Deck!CardsJobs : j.c = deck.data.items[i]
        BY <1>0, <1>1 DEF CardsInv
      <3>2. index \in Nat /\ Len(deck.data.items) \in Nat
        BY <1>0, DeckFields DEF DeckTypeInv
      <3>3. \A i \in 1..Len(cards.items) : i <= index => i \in 1..Len(deck.data.items)
        BY <2>2, <3>1, <3>2
      <3>4. index <= Len(cards.items)
        BY <1>4, <2>2, <2>5, <3>1, <3>2
      <3> QED  BY <1>4, <2>5, <3>1, <3>3, <3>4
    <2> QED  BY <1>0, <2>3, <2>4, <2>5, DeckFields
  <1> QED  BY <1>6, <1>7, <1>8, <1>9 DEF DeckInv


\* A job of a card, on its way.
LEMMA JobTypes ==
    ASSUME Deck!DeckAssumption, DeckTypeInv, NEW c \in Candidates, NEW kind \in Deck!Kinds,
           NEW from \in {"cards", "likes"}
    PROVE  /\ Deck!Job(c, kind, from) \in Deck!Jobs /\ Deck!Job(c, kind, from).c = c
           /\ Deck!Job(c, kind, from).kind = kind /\ Deck!Job(c, kind, from).from = from
           /\ Deck!Job(c, kind, from).at = "sent"
  <1>1. Deck!Had \in [Lists -> [loaded : BOOLEAN, data : SUBSET Candidates]]
    BY LikesTypes
  <1>2. quota \in 0..Likes /\ 0 \in 0..Likes
    BY DEF DeckTypeInv, Deck!DeckAssumption
  <1>3. Deck!Job(c, kind, from) \in Deck!Jobs
    BY <1>1, <1>2 DEF Deck!Job, Deck!Jobs
  <1>4. /\ Deck!Job(c, kind, from).c = c
        /\ Deck!Job(c, kind, from).kind = kind /\ Deck!Job(c, kind, from).from = from
        /\ Deck!Job(c, kind, from).at = "sent"
    BY DEF Deck!Job
  <1> QED  BY <1>3, <1>4

\* What changes in a job when it is answered.
LEMMA AnsweredJob ==
    ASSUME NEW j \in Deck!Jobs, NEW at \in {"sent", "done", "failed"}
    PROVE  LET k == [j EXCEPT !.at = at]
           IN  /\ k \in Deck!Jobs /\ k.at = at
               /\ k.c = j.c /\ k.from = j.from /\ k.kind = j.kind
  <1>1. [j EXCEPT !.at = at] \in Deck!Jobs  BY DEF Deck!Jobs
  <1>2. /\ [j EXCEPT !.at = at].at = at
        /\ [j EXCEPT !.at = at].c = j.c /\ [j EXCEPT !.at = at].from = j.from
        /\ [j EXCEPT !.at = at].kind = j.kind
    BY DEF Deck!Jobs
  <1> QED  BY <1>1, <1>2

LEMMA SwipeKept ==
    ASSUME Deck!DeckAssumption, DeckInv, NEW kind \in Deck!Kinds, Deck!Swipe(kind)
    PROVE  DeckInv'
  <1>0. DeckTypeInv /\ PagesInv /\ DecisionsInv /\ CardsInv  BY DEF DeckInv
  <1> DEFINE c == deck.data.items[index + 1]
  <1>1. /\ tries < MaxTries /\ tries' = tries + 1
        /\ deck.loaded /\ index < Len(deck.data.items)
        /\ Deck!CardsJobs = {}
        /\ kind = "like" => quota > 0
        /\ deckJobs' = deckJobs \cup {Deck!Job(c, kind, "cards")}
        /\ likes' = Deck!Suppressed(c)
        /\ quota' = IF kind = "like" THEN quota - 1 ELSE quota
        /\ index' = index + 1
        /\ UNCHANGED <<reaction, left, deck, deckWant, whole, refreshes>>
    BY DEF Deck!Swipe
  <1>2. /\ index \in Nat /\ index + 1 \in 1..Len(deck.data.items) /\ c \in Candidates
        /\ deck.data.items \in Seq(Candidates) /\ Len(deck.data.items) \in Nat
    <2>1. index \in Nat  BY <1>0 DEF DeckTypeInv
    <2>2. deck.data.items \in Seq(Candidates) /\ Len(deck.data.items) \in Nat
      BY <1>0, DeckFields
    <2>3. index + 1 \in 1..Len(deck.data.items)  BY <1>1, <2>1, <2>2
    <2> DEFINE s == deck.data.items
    <2>4. s \in Seq(Candidates) /\ index + 1 \in 1..Len(s)  BY <2>2, <2>3
    <2> HIDE DEF s
    <2>5. s[index + 1] \in Candidates  BY <2>4
    <2> QED  BY <2>1, <2>2, <2>3, <2>5 DEF s
  <1>3. Deck!Suppressed(c) \in [Lists -> Deck!Queries(SUBSET Candidates)]
    BY <1>0, <1>2, LikesTypes
  <1>4. /\ Deck!Job(c, kind, "cards") \in Deck!Jobs /\ Deck!Job(c, kind, "cards").c = c
        /\ Deck!Job(c, kind, "cards").from = "cards" /\ Deck!Job(c, kind, "cards").at = "sent"
    <2> HIDE DEF c
    <2> QED  BY <1>0, <1>2, JobTypes
  <1> HIDE DEF c
  <1>5. DeckTypeInv'
    <2>1. index' \in 0..Cardinality(Candidates)
      <3>1. Len(deck.data.items) <= Cardinality(Candidates)
        BY <1>0, <1>2, OrderedCards DEF PagesInv
      <3> QED  BY <1>1, <1>2, <3>1, CandidatesInt
    <2>2. quota' \in 0..Likes
      BY <1>0, <1>1 DEF DeckTypeInv, Deck!DeckAssumption
    <2>3. tries' \in 0..MaxTries
      BY <1>0, <1>1 DEF DeckTypeInv, Deck!DeckAssumption
    <2>4. deckJobs' \subseteq Deck!Jobs  BY <1>0, <1>1, <1>4 DEF DeckTypeInv
    <2> QED  BY <1>0, <1>1, <1>3, <2>1, <2>2, <2>3, <2>4 DEF DeckTypeInv
  <1>6. PagesInv'
    BY <1>0, <1>1 DEF PagesInv
  <1>7. DecisionsInv'
    BY <1>0, <1>1, <1>4 DEF DecisionsInv
  <1>8. CardsInv'
    <2> SUFFICES ASSUME whole
                 PROVE  /\ index' <= Len(deck.data.items)
                        /\ \A i \in 1..Len(deck.data.items) :
                              i <= index' => \/ reaction[deck.data.items[i]] # "none"
                                             \/ i = index' /\ \E j \in Deck!CardsJobs' : j.c = deck.data.items[i]
      BY <1>1 DEF CardsInv
    <2>1. \A i \in 1..Len(deck.data.items) : i <= index => reaction[deck.data.items[i]] # "none"
      BY <1>0, <1>1 DEF CardsInv
    <2>2. Deck!Job(c, kind, "cards") \in Deck!CardsJobs'
      BY <1>1, <1>4 DEF Deck!CardsJobs
    <2>3. \E j \in Deck!CardsJobs' : j.c = deck.data.items[index']
      BY <2>2, <1>1, <1>4 DEF c
    <2> QED  BY <1>1, <1>2, <2>1, <2>3
  <1> QED  BY <1>5, <1>6, <1>7, <1>8 DEF DeckInv

\* The jobs and the decisions of the server change, the deck does not.
LEMMA JobsChange ==
    ASSUME Deck!DeckAssumption, DeckInv, UNCHANGED <<deck, deckWant, whole, refreshes>>,
           DeckTypeInv', DecisionsInv',
           index' = index \/ (index' <= index /\ \A i \in 1..Len(deck.data.items) :
                                                     i <= index' => i # index),
           \A c \in Candidates : reaction[c] # "none" => reaction'[c] # "none",
           ~deck.loaded => index' = 0,
           index' = index => \A j \in Deck!CardsJobs : (\E k \in Deck!CardsJobs' : k.c = j.c) \/ reaction'[j.c] # "none"
    PROVE  DeckInv'
  <1>0. DeckTypeInv /\ PagesInv /\ DecisionsInv /\ CardsInv  BY DEF DeckInv
  <1>1. PagesInv'
    BY <1>0 DEF PagesInv
  <1>f. /\ index \in Nat /\ index' \in Nat
        /\ deck.data.items \in Seq(Candidates) /\ Len(deck.data.items) \in Nat
    <2>1. index \in Nat  BY <1>0 DEF DeckTypeInv
    <2>2. index' \in Nat  BY DEF DeckTypeInv
    <2>3. deck.data.items \in Seq(Candidates) /\ Len(deck.data.items) \in Nat
      BY <1>0, DeckFields
    <2> QED  BY <2>1, <2>2, <2>3
  <1>2. CardsInv'
    <2> SUFFICES ASSUME whole
                 PROVE  /\ index' <= Len(deck.data.items)
                        /\ \A i \in 1..Len(deck.data.items) :
                              i <= index' => \/ reaction'[deck.data.items[i]] # "none"
                                             \/ i = index' /\ \E j \in Deck!CardsJobs' : j.c = deck.data.items[i]
      BY DEF CardsInv
    <2>1. index' <= Len(deck.data.items)
      BY <1>0, <1>f DEF CardsInv
    <2>2. ASSUME NEW i \in 1..Len(deck.data.items), i <= index'
          PROVE  \/ reaction'[deck.data.items[i]] # "none"
                 \/ i = index' /\ \E j \in Deck!CardsJobs' : j.c = deck.data.items[i]
      <3>1. i <= index /\ deck.data.items[i] \in Candidates
        BY <1>f, <2>2
      <3>2. \/ reaction[deck.data.items[i]] # "none"
            \/ i = index /\ \E j \in Deck!CardsJobs : j.c = deck.data.items[i]
        BY <1>0, <3>1 DEF CardsInv
      <3>3. CASE reaction[deck.data.items[i]] # "none"
        BY <3>1, <3>3
      <3>4. CASE i = index /\ \E j \in Deck!CardsJobs : j.c = deck.data.items[i]
        <4>1. index' = index  BY <3>4, <2>2
        <4>2. PICK j \in Deck!CardsJobs : j.c = deck.data.items[i]  BY <3>4
        <4>3. (\E k \in Deck!CardsJobs' : k.c = j.c) \/ reaction'[j.c] # "none"
          BY <4>1
        <4> QED  BY <3>4, <4>1, <4>2, <4>3
      <3> QED  BY <3>2, <3>3, <3>4
    <2> QED  BY <2>1, <2>2
  <1> QED  BY <1>1, <1>2 DEF DeckInv

LEMMA PassLikeKept ==
    ASSUME Deck!DeckAssumption, DeckInv, NEW l \in Lists, NEW c \in Candidates, Deck!PassLike(l, c)
    PROVE  DeckInv'
  <1>0. DeckTypeInv /\ PagesInv /\ DecisionsInv  BY DEF DeckInv
  <1>1. /\ tries < MaxTries /\ tries' = tries + 1
        /\ deckJobs' = deckJobs \cup {Deck!Job(c, "pass", "likes")}
        /\ likes' = Deck!Suppressed(c)
        /\ UNCHANGED <<reaction, left, deck, deckWant, index, quota, whole, refreshes>>
    BY DEF Deck!PassLike
  <1>2. Deck!Suppressed(c) \in [Lists -> Deck!Queries(SUBSET Candidates)]
    BY <1>0, LikesTypes
  <1>3. /\ Deck!Job(c, "pass", "likes") \in Deck!Jobs /\ Deck!Job(c, "pass", "likes").kind = "pass"
        /\ Deck!Job(c, "pass", "likes").from = "likes" /\ Deck!Job(c, "pass", "likes").at = "sent"
    <2>1. "pass" \in Deck!Kinds /\ "likes" \in {"cards", "likes"}  BY DEF Deck!Kinds
    <2> QED  BY <1>0, <2>1, JobTypes
  <1>4. DeckTypeInv'
    <2>1. tries' \in 0..MaxTries
      BY <1>0, <1>1 DEF DeckTypeInv, Deck!DeckAssumption
    <2>2. deckJobs' \subseteq Deck!Jobs  BY <1>0, <1>1, <1>3 DEF DeckTypeInv
    <2> QED  BY <1>0, <1>1, <1>2, <2>1, <2>2 DEF DeckTypeInv
  <1>5. DecisionsInv'
    BY <1>0, <1>1, <1>3 DEF DecisionsInv
  <1>6. \A j \in Deck!CardsJobs : j \in Deck!CardsJobs'
    BY <1>1 DEF Deck!CardsJobs
  <1>7. ~deck.loaded => index' = 0  BY <1>0, <1>1 DEF PagesInv
  <1> QED  BY <1>1, <1>4, <1>5, <1>6, <1>7, JobsChange

\* One job is answered, and the server's decisions only get more.
LEMMA AnswerKept ==
    ASSUME Deck!DeckAssumption, DeckInv, NEW j \in deckJobs, NEW k \in Deck!Jobs,
           deckJobs' = (deckJobs \ {j}) \cup {k}, k.c = j.c, k.from = j.from, k.kind = j.kind,
           k.at = "done" => reaction'[j.c] # "none",
           reaction' \in [Candidates -> Deck!Kinds \cup {"none"}], left' \in 0..Likes,
           \A c \in Candidates : reaction[c] # "none" => reaction'[c] # "none",
           UNCHANGED <<deck, deckWant, index, likes, quota, whole, tries, refreshes>>
    PROVE  DeckInv'
  <1>0. DeckTypeInv /\ PagesInv /\ DecisionsInv  BY DEF DeckInv
  <1>1. DeckTypeInv'  BY <1>0 DEF DeckTypeInv
  <1>2. DecisionsInv'
    <2>1. \A i \in deckJobs : i.c \in Candidates  BY <1>0 DEF DeckTypeInv, Deck!Jobs
    <2>2. ASSUME NEW i \in deckJobs', i.at = "done" PROVE reaction'[i.c] # "none"
      <3>1. CASE i = k  BY <2>2, <3>1
      <3>2. CASE i \in deckJobs  BY <2>1, <2>2, <3>2, <1>0 DEF DecisionsInv
      <3> QED  BY <3>1, <3>2
    <2>3. ASSUME NEW i \in deckJobs', i.from = "likes" PROVE i.kind = "pass"
      BY <2>3, <1>0 DEF DecisionsInv
    <2> QED  BY <2>2, <2>3 DEF DecisionsInv
  <1>3. \A i \in Deck!CardsJobs : \E m \in Deck!CardsJobs' : m.c = i.c
    <2> SUFFICES ASSUME NEW i \in Deck!CardsJobs PROVE \E m \in Deck!CardsJobs' : m.c = i.c
      OBVIOUS
    <2>1. CASE i = j
      <3>1. k \in Deck!CardsJobs'  BY <2>1 DEF Deck!CardsJobs
      <3> QED  BY <2>1, <3>1
    <2>2. CASE i # j
      <3>1. i \in Deck!CardsJobs'  BY <2>2 DEF Deck!CardsJobs
      <3> QED  BY <3>1
    <2> QED  BY <2>1, <2>2
  <1>4. ~deck.loaded => index' = 0  BY <1>0 DEF PagesInv
  <1> QED  BY <1>1, <1>2, <1>3, <1>4, JobsChange

LEMMA DecideKept ==
    ASSUME Deck!DeckAssumption, DeckInv, NEW j \in deckJobs, Deck!Decide(j)
    PROVE  DeckInv'
  <1>0. DeckTypeInv /\ DecisionsInv  BY DEF DeckInv
  <1>1. /\ \/ reaction[j.c] = "none" /\ (j.kind = "like" => left > 0)
           \/ reaction[j.c] = "like" /\ j.from = "likes"
        /\ reaction' = [reaction EXCEPT ![j.c] = j.kind]
        /\ left' = IF j.kind = "like" THEN left - 1 ELSE left
        /\ UNCHANGED <<deck, deckWant, index, likes, quota, whole, tries, refreshes>>
    BY DEF Deck!Decide
  <1>2. j \in Deck!Jobs /\ j.c \in Candidates /\ j.kind \in Deck!Kinds /\ j.kind # "none"
    BY <1>0 DEF DeckTypeInv, Deck!Jobs, Deck!Kinds
  <1>3. left' \in 0..Likes
    BY <1>0, <1>1 DEF DeckTypeInv, DecisionsInv, Deck!DeckAssumption
  <1>4. /\ reaction' \in [Candidates -> Deck!Kinds \cup {"none"}] /\ reaction'[j.c] # "none"
        /\ \A c \in Candidates : reaction[c] # "none" => reaction'[c] # "none"
    BY <1>0, <1>1, <1>2 DEF DeckTypeInv
  <1>5. PICK at \in {"done", "failed"} : deckJobs' = (deckJobs \ {j}) \cup {[j EXCEPT !.at = at, !.left = left']}
    BY DEF Deck!Decide
  <1>6. PICK n \in 0..Likes : n = left'  BY <1>3
  <1> DEFINE k == [j EXCEPT !.at = at, !.left = n]
  <1>7. /\ k \in Deck!Jobs /\ k.c = j.c /\ k.from = j.from /\ k.kind = j.kind
    <2>1. k \in Deck!Jobs  BY <1>2 DEF Deck!Jobs
    <2>2. k.c = j.c /\ k.from = j.from /\ k.kind = j.kind  BY <1>2 DEF Deck!Jobs
    <2> QED  BY <2>1, <2>2
  <1>8. deckJobs' = (deckJobs \ {j}) \cup {k}  BY <1>5, <1>6
  <1> HIDE DEF k
  <1> QED  BY <1>1, <1>3, <1>4, <1>7, <1>8, AnswerKept

LEMMA UndecidedKept ==
    ASSUME Deck!DeckAssumption, DeckInv, NEW j \in deckJobs, Deck!Undecided(j)
    PROVE  DeckInv'
  <1>0. DeckTypeInv /\ DecisionsInv  BY DEF DeckInv
  <1>1. UNCHANGED <<reaction, left, deck, deckWant, index, likes, quota, whole, tries, refreshes>>
    BY DEF Deck!Undecided
  <1>2. /\ j \in Deck!Jobs /\ left \in 0..Likes /\ reaction' \in [Candidates -> Deck!Kinds \cup {"none"}]
        /\ left' \in 0..Likes
    BY <1>0, <1>1 DEF DeckTypeInv
  <1>3. CASE deckJobs' = (deckJobs \ {j}) \cup {[j EXCEPT !.at = "failed"]}
    <2> DEFINE k == [j EXCEPT !.at = "failed"]
    <2>1. /\ k \in Deck!Jobs /\ k.c = j.c /\ k.from = j.from /\ k.kind = j.kind /\ k.at = "failed"
      BY <1>2, AnsweredJob
    <2>2. deckJobs' = (deckJobs \ {j}) \cup {k}  BY <1>3
    <2> HIDE DEF k
    <2> QED  BY <1>1, <1>2, <2>1, <2>2, AnswerKept
  <1>4. CASE /\ reaction[j.c] # "none"
             /\ deckJobs' = (deckJobs \ {j}) \cup {[j EXCEPT !.at = "done", !.left = left]}
    <2> DEFINE k == [j EXCEPT !.at = "done", !.left = left]
    <2>1. /\ k \in Deck!Jobs /\ k.c = j.c /\ k.from = j.from /\ k.kind = j.kind
      <3>1. k \in Deck!Jobs  BY <1>2 DEF Deck!Jobs
      <3>2. k.c = j.c /\ k.from = j.from /\ k.kind = j.kind  BY <1>2 DEF Deck!Jobs
      <3> QED  BY <3>1, <3>2
    <2>2. deckJobs' = (deckJobs \ {j}) \cup {k}  BY <1>4
    <2> HIDE DEF k
    <2>3. reaction'[j.c] # "none"  BY <1>1, <1>4
    <2> QED  BY <1>1, <1>2, <2>1, <2>2, <2>3, AnswerKept
  <1> QED  BY <1>3, <1>4 DEF Deck!Undecided

LEMMA SuccessKept ==
    ASSUME Deck!DeckAssumption, DeckInv, NEW j \in deckJobs, Deck!Success(j)
    PROVE  DeckInv'
  <1>0. DeckTypeInv /\ PagesInv /\ DecisionsInv  BY DEF DeckInv
  <1>1. /\ j.at = "done" /\ deckJobs' = deckJobs \ {j} /\ quota' = j.left
        /\ likes' = [l \in Lists |-> IF likes[l].loaded THEN Deck!Refetched(likes[l]) ELSE likes[l]]
        /\ UNCHANGED <<reaction, left, deck, deckWant, index, whole, tries, refreshes>>
    BY DEF Deck!Success
  <1>2. quota' \in 0..Likes  BY <1>0, <1>1 DEF DeckTypeInv, Deck!Jobs
  <1>3. likes' \in [Lists -> Deck!Queries(SUBSET Candidates)]
    BY <1>0, <1>1, LikesTypes
  <1>4. DeckTypeInv'  BY <1>0, <1>1, <1>2, <1>3 DEF DeckTypeInv
  <1>5. DecisionsInv'  BY <1>0, <1>1 DEF DecisionsInv
  <1>6. \A i \in Deck!CardsJobs : i \in Deck!CardsJobs' \/ reaction'[i.c] # "none"
    BY <1>0, <1>1 DEF Deck!CardsJobs, DecisionsInv
  <1>7. ~deck.loaded => index' = 0  BY <1>0, <1>1 DEF PagesInv
  <1> QED  BY <1>1, <1>4, <1>5, <1>6, <1>7, JobsChange

LEMMA FailureKept ==
    ASSUME Deck!DeckAssumption, DeckInv, NEW j \in deckJobs, Deck!Failure(j)
    PROVE  DeckInv'
  <1>0. DeckTypeInv /\ PagesInv /\ DecisionsInv  BY DEF DeckInv
  <1>1. /\ deckJobs' = deckJobs \ {j} /\ likes' = Deck!Restored(j.had)
        /\ IF j.from = "cards"
           THEN /\ quota' = j.quota
                /\ index' = IF index = 0 THEN 0 ELSE index - 1
           ELSE UNCHANGED <<quota, index>>
        /\ UNCHANGED <<reaction, left, deck, deckWant, whole, tries, refreshes>>
    BY DEF Deck!Failure
  <1>2. j.quota \in 0..Likes  BY <1>0 DEF DeckTypeInv, Deck!Jobs
  <1>3. likes' \in [Lists -> Deck!Queries(SUBSET Candidates)]
    BY <1>0, <1>1, LikesTypes
  <1>4. index \in Nat /\ index' \in Nat /\ index' <= index /\ index <= Cardinality(Candidates)
    BY <1>0, <1>1 DEF DeckTypeInv
  <1>5. DeckTypeInv'
    <2>1. index' \in 0..Cardinality(Candidates)  BY <1>4, CandidatesInt
    <2>2. quota' \in 0..Likes  BY <1>0, <1>1, <1>2 DEF DeckTypeInv
    <2> QED  BY <1>0, <1>1, <1>3, <2>1, <2>2 DEF DeckTypeInv
  <1>6. DecisionsInv'  BY <1>0, <1>1 DEF DecisionsInv
  <1>7. ~deck.loaded => index' = 0  BY <1>0, <1>1 DEF PagesInv
  <1>8. CASE j.from = "cards" /\ index # 0
    <2>1. index' <= index /\ index' # index /\ \A i \in 1..Len(deck.data.items) : i <= index' => i # index
      BY <1>1, <1>4, <1>8
    <2> QED  BY <1>1, <1>5, <1>6, <1>7, <2>1, JobsChange
  <1>9. CASE j.from = "cards" /\ index = 0
    <2>1. index' = 0 /\ index = 0  BY <1>1, <1>9
    <2>2. CardsInv'
      BY <2>1, <1>1, <1>0, DeckFields DEF CardsInv
    <2>3. PagesInv'  BY <1>0, <1>1, <2>1 DEF PagesInv
    <2> QED  BY <1>5, <1>6, <2>2, <2>3 DEF DeckInv
  <1>10. CASE j.from # "cards"
    <2>1. \A i \in Deck!CardsJobs : i \in Deck!CardsJobs'
      BY <1>1, <1>10 DEF Deck!CardsJobs
    <2> QED  BY <1>1, <1>5, <1>6, <1>7, <1>10, <2>1, JobsChange
  <1> QED  BY <1>8, <1>9, <1>10

LEMMA DeckBegins ==
    ASSUME Deck!DeckAssumption, Deck!Init
    PROVE  DeckInv
  <1>1. /\ deck \in Deck!Queries(DeckPages) /\ ~deck.loaded /\ deck.data = Deck!NoCards
        /\ deck.got = Deck!NoCards
        /\ deck.fetch = "sent"
    BY FreshPages DEF Deck!Init
  <1>2. DeckTypeInv
    <2>1. likes \in [Lists -> Deck!Queries(SUBSET Candidates)]
      <3>1. Deck!Unloaded({}) \in Deck!Queries(SUBSET Candidates)  BY DEF Deck!Unloaded, Deck!Queries
      <3> QED  BY <3>1 DEF Deck!Init
    <2>2. reaction \in [Candidates -> Deck!Kinds \cup {"none"}]  BY DEF Deck!Init, Deck!Kinds
    <2>3. left \in 0..Likes /\ quota \in 0..Likes /\ tries \in 0..MaxTries /\ refreshes \in 0..MaxRefresh
      BY DEF Deck!Init, Deck!DeckAssumption
    <2>4. index \in 0..Cardinality(Candidates)  BY CandidatesInt DEF Deck!Init
    <2>5. deckWant \in {"pages", "next"} /\ deckJobs \subseteq Deck!Jobs /\ whole \in BOOLEAN  BY DEF Deck!Init
    <2> QED  BY <1>1, <2>1, <2>2, <2>3, <2>4, <2>5 DEF DeckTypeInv
  <1>3. PagesInv  BY <1>1, FreshPages DEF PagesInv, Deck!Init
  <1>4. DecisionsInv  BY DEF DecisionsInv, Deck!Init
  <1>5. CardsInv
    <2>1. index = 0 /\ Len(deck.data.items) = 0  BY <1>1, FreshPages DEF Deck!Init
    <2> QED  BY <2>1 DEF CardsInv
  <1> QED  BY <1>2, <1>3, <1>4, <1>5 DEF DeckInv

LEMMA DeckKept ==
    ASSUME Deck!DeckAssumption, DeckInv, [Deck!Next]_(Deck!vars)
    PROVE  DeckInv'
  <1>1. CASE UNCHANGED Deck!vars
    <2>1. UNCHANGED <<reaction, left, deck, deckWant, index, likes, quota, deckJobs, whole, tries, refreshes>>
      BY <1>1 DEF Deck!vars
    <2>2. /\ likes' \in [Lists -> Deck!Queries(SUBSET Candidates)] /\ quota' \in 0..Likes
          /\ refreshes' \in 0..MaxRefresh
      BY <2>1 DEF DeckInv, DeckTypeInv
    <2> QED  BY <2>1, <2>2, OtherQueries
  <1> QED
    BY <1>1, ServeDeckKept, DeckArrivesKept, QuotaKept, RefreshKept, BackgroundKept, ListsKept,
       SwipeKept, PassLikeKept, DecideKept, UndecidedKept, SuccessKept, FailureKept DEF Deck!Next

LEMMA DeckSkipsNone ==
    ASSUME DeckInv
    PROVE  Deck!NoCardSkipped
  BY DEF DeckInv, CardsInv, Deck!CardsJobs, Deck!NoCardSkipped

LEMMA DeckTypes ==
    ASSUME Deck!DeckAssumption, DeckInv
    PROVE  Deck!DeckTypeOK
  <1>1. DeckTypeInv /\ PagesInv  BY DEF DeckInv
  <1>2. deck.data.items \in Seq(Candidates) /\ Len(deck.data.items) \in Nat
    BY <1>1, DeckFields
  <1>3. Len(deck.data.items) \in 0..Cardinality(Candidates)
    BY <1>1, <1>2, OrderedCards, CandidatesInt DEF PagesInv
  <1>4. deck.data.items \in [1..Len(deck.data.items) -> Candidates]
    BY <1>2
  <1>5. deck.data.items \in UNION {[1..m -> Candidates] : m \in 0..Cardinality(Candidates)}
    BY <1>3, <1>4
  <1>6. deck.data.items \in Deck!BoundedSeq(Candidates, Deck!Cardinality(Candidates))
    BY <1>5, CandidatesInt DEF Deck!BoundedSeq, Deck!SeqOf
  <1>7. index \in 0..Deck!Cardinality(Candidates)
    BY <1>1, CandidatesInt DEF DeckTypeInv
  <1> QED  BY <1>1, <1>6, <1>7 DEF DeckTypeInv, Deck!DeckTypeOK

-----------------------------------------------------------------------------
(* The theorems of the whole *)

\* A step of the screens is one of the badge, or leaves it alone.
LEMMA BadgeStep ==
    ASSUME [ScreensNext]_screensVars
    PROVE  [Badge!Next]_(Badge!vars)
  BY DEF ScreensNext, screensVars, badgeVars, Badge!vars

\* The badge never settles on more unread messages than there are: the writes
\* of the screen, the fetches of the list and the marks may overlap in any way.
THEOREM BadgeIsRight == ScreensSpec => []BadgeSettles
  <1>1. ScreensInit => BadgeInv
    BY ScreensConstants, BadgeBegins DEF ScreensInit
  <1>2. BadgeInv /\ [ScreensNext]_screensVars => BadgeInv'
    BY ScreensConstants, BadgeStep, BadgeKept
  <1>3. BadgeInv => BadgeSettles
    BY DEF BadgeInv, BadgeSettles, Badge!BadgeSettles
  <1> QED  BY <1>1, <1>2, <1>3, PTL DEF ScreensSpec, screensVars


\* A step of the screens is one of the photos, or leaves them alone.
LEMMA PhotosStep ==
    ASSUME [ScreensNext]_screensVars
    PROVE  [Photos!Next]_(Photos!vars)
  BY DEF ScreensNext, screensVars, photosVars, Photos!vars

\* No object of the bucket is forgotten but by the losses that the code
\* accepts, and none that the profile names is removed: wherever uploads,
\* replacements, cleanups, the keychain and the process fail.
THEOREM PhotosAreKept == ScreensSpec => []PhotosKept
  <1>1. ScreensInit => PhotosInv
    BY ScreensConstants, PhotosBegin DEF ScreensInit
  <1>2. PhotosInv /\ [ScreensNext]_screensVars => PhotosInv'
    BY ScreensConstants, PhotosStep, PhotosStay
  <1>3. PhotosInv => PhotosKept
    BY PhotosAre DEF PhotosKept
  <1> QED  BY <1>1, <1>2, <1>3, PTL DEF ScreensSpec, screensVars


\* A step of the screens is one of the deck, or leaves it alone.
LEMMA DeckStep ==
    ASSUME [ScreensNext]_screensVars
    PROVE  [Deck!Next]_(Deck!vars)
  BY DEF ScreensNext, screensVars, deckVars, Deck!vars

\* No candidate of the deck is passed over: refreshes, pages that arrive late,
\* decisions of the likes screen and failures may come in any order.
THEOREM NoneIsSkipped == ScreensSpec => []NoCardSkipped
  <1>1. ScreensInit => DeckInv
    BY ScreensConstants, DeckBegins DEF ScreensInit
  <1>2. DeckInv /\ [ScreensNext]_screensVars => DeckInv'
    BY ScreensConstants, DeckStep, DeckKept
  <1>3. DeckInv => NoCardSkipped
    BY DeckSkipsNone DEF NoCardSkipped
  <1> QED  BY <1>1, <1>2, <1>3, PTL DEF ScreensSpec, screensVars

-----------------------------------------------------------------------------
(* An open conversation *)

ThreadPages == [items : Seq(Thread!Messages), pages : Nat, more : BOOLEAN]

\* Rows without a gap from the newest back, not none if there are any.
Newest(items) ==
    /\ Len(items) <= Len(stored)
    /\ \A i \in 1..Len(items) : items[i] = stored[Len(stored) + 1 - i]
    /\ items = <<>> => stored = <<>>

\* The next such rows, behind n of them.
Behind(items, n) ==
    /\ n + Len(items) <= Len(stored)
    /\ \A i \in 1..Len(items) : items[i] = stored[Len(stored) + 1 - (n + i)]

\* Rows that there are.
Known(items) == \A i \in 1..Len(items) : \E r \in 1..Len(stored) : items[i] = stored[r]

ThreadTypeInv ==
    /\ threadKind \in {"direct", "room"}
    /\ stored \in Seq(Thread!Messages)
    /\ \A i, j \in 1..Len(stored) : stored[i] = stored[j] => i = j
    /\ threadOpen \in BOOLEAN /\ threadNews \in BOOLEAN /\ missed \in BOOLEAN
    /\ thread \in Thread!Queries(ThreadPages) /\ threadWant \in {"pages", "next"}
    /\ Known(thread.data.items) /\ Known(thread.got.items)
    /\ ~threadOpen => thread.fetch = "idle" /\ ~threadNews
    /\ thread.data.more => thread.data.items # <<>>
    /\ thread.got.more => thread.got.items # <<>>
    /\ threadWant = "next" /\ thread.fetch # "idle" => thread.loaded /\ thread.data.items # <<>>

\* No event or mark is under way, and no fetch or event was missed.
Heard == threadOpen /\ ~threadNews /\ threadMarks = {} /\ ~missed

\* Then what the screen shows, and what a fetch is about to bring, is new.
CatchInv ==
    Heard =>
        /\ thread.loaded /\ (thread.fetch = "idle" \/ threadWant = "next") => Newest(thread.data.items)
        /\ thread.fetch = "served" =>
              IF threadWant = "pages" THEN Newest(thread.got.items)
              ELSE Behind(thread.got.items, Len(thread.data.items))

ThreadInv == ThreadTypeInv /\ CatchInv

\* The part of a sequence.
LEMMA SlicedRows ==
    ASSUME NEW S, NEW s, NEW a \in Int, NEW b \in Int, \A i \in a..b : s[i] \in S,
           NEW u, u = SubSeq(s, a, b)
    PROVE  /\ u \in Seq(S) /\ Len(u) = IF a <= b THEN b - a + 1 ELSE 0
           /\ \A i \in 1..(b - a + 1) : u[i] = s[a + i - 1]
  <1>1. SubSeq(s, a, b) \in Seq(S)  BY SubSeqProperties
  <1>2. Len(SubSeq(s, a, b)) = IF a <= b THEN b - a + 1 ELSE 0  BY SubSeqProperties
  <1>3. \A i \in 1..(b - a + 1) : SubSeq(s, a, b)[i] = s[a + i - 1]  BY SubSeqProperties
  <1> QED  BY <1>1, <1>2, <1>3

\* At most n rows before the last k ones.
LEMMA OlderRows ==
    ASSUME NEW S, NEW s \in Seq(S), NEW k \in 0..Len(s), NEW n \in Nat,
           NEW from \in Int, from = (IF k < n THEN 1 ELSE k - n + 1),
           NEW t, t = Thread!Reverse(SubSeq(s, from, k))
    PROVE  /\ t \in Seq(S) /\ Len(t) = (IF k < n THEN k ELSE n)
           /\ \A i \in 1..Len(t) : t[i] = s[k + 1 - i]
  <1> DEFINE m == IF k < n THEN k ELSE n
             u == SubSeq(s, from, k)
  <1>0. Len(s) \in Nat /\ k \in Nat /\ k <= Len(s) /\ n \in Nat  OBVIOUS
  <1>1. from \in Int /\ m \in Nat /\ 1 <= from /\ from + m = k + 1  BY <1>0
  <1> HIDE DEF m
  <1>2. \A i \in from..k : s[i] \in S  BY <1>0, <1>1
  <1>3. u \in Seq(S) /\ Len(u) = m /\ \A i \in 1..m : u[i] = s[from + i - 1]
    <2>1. k \in Int /\ u = SubSeq(s, from, k)  BY <1>0
    <2> HIDE DEF u
    <2>2. /\ u \in Seq(S) /\ Len(u) = IF from <= k THEN k - from + 1 ELSE 0
          /\ \A i \in 1..(k - from + 1) : u[i] = s[from + i - 1]
      BY <1>1, <1>2, <2>1, SlicedRows
    <2>3. k - from + 1 = m /\ (from <= k <=> m > 0)  BY <1>0, <1>1
    <2>4. Len(u) = m  BY <1>1, <2>2, <2>3
    <2> QED  BY <2>2, <2>3, <2>4
  <1>4. t = Thread!Reverse(u)  OBVIOUS
  <1> HIDE DEF u
  <1>5. t = [i \in 1..m |-> u[(m - i) + 1]]  BY <1>3, <1>4 DEF Thread!Reverse
  <1>6. \A i \in 1..m : (m - i) + 1 \in 1..m /\ from + ((m - i) + 1) - 1 = k + 1 - i  BY <1>0, <1>1
  <1>7. \A i \in 1..m : t[i] = s[k + 1 - i] /\ t[i] \in S
    <2> TAKE i \in 1..m
    <2>1. t[i] = u[(m - i) + 1]  BY <1>5
    <2>2. t[i] = s[from + ((m - i) + 1) - 1]  BY <2>1, <1>3, <1>6
    <2>3. k + 1 - i \in 1..Len(s)  BY <1>0, <1>1
    <2>4. t[i] = s[k + 1 - i]  BY <2>2, <1>6
    <2> QED  BY <2>3, <2>4
  <1>8. t \in Seq(S) /\ Len(t) = m
    <2>1. t \in [1..m -> S]  BY <1>5, <1>7
    <2> QED  BY <1>1, <2>1
  <1> QED  BY <1>7, <1>8 DEF m

\* The newest page.
LEMMA NewestRows ==
    ASSUME ThreadTypeInv, NEW n \in Nat \ {0}, NEW t, t = Thread!Older(<<>>, n)
    PROVE  t \in Seq(Thread!Messages) /\ Newest(t) /\ Known(t) /\ Len(t) <= n
  <1>1. stored \in Seq(Thread!Messages) /\ Len(stored) \in Nat /\ Len(stored) \in 0..Len(stored) /\ n \in Nat
    BY DEF ThreadTypeInv
  <1> DEFINE from == IF Len(stored) < n THEN 1 ELSE Len(stored) - n + 1
  <1>2. t = Thread!Reverse(SubSeq(stored, from, Len(stored)))  BY DEF Thread!Older
  <1>7. from \in Int  BY <1>1
  <1> HIDE DEF from
  <1>3. /\ t \in Seq(Thread!Messages) /\ Len(t) = (IF Len(stored) < n THEN Len(stored) ELSE n)
        /\ \A i \in 1..Len(t) : t[i] = stored[Len(stored) + 1 - i]
    BY <1>1, <1>2, <1>7, OlderRows DEF from
  <1>4. t = <<>> => stored = <<>>  BY <1>1, <1>3
  <1>5. Len(t) <= n /\ Len(t) <= Len(stored)  BY <1>1, <1>3
  <1>6. Known(t)
    <2>1. ASSUME NEW i \in 1..Len(t)  PROVE Len(stored) + 1 - i \in 1..Len(stored)  BY <1>1, <1>5
    <2> QED  BY <2>1, <1>3 DEF Known
  <1> QED  BY <1>3, <1>4, <1>5, <1>6 DEF Newest

\* The page before the last row that is shown.
LEMMA NextRows ==
    ASSUME ThreadTypeInv, NEW items \in Seq(Thread!Messages), items # <<>>, Known(items),
           NEW n \in Nat, NEW t, t = Thread!Older(<<Thread!Last(items)>>, n)
    PROVE  /\ t \in Seq(Thread!Messages) /\ Known(t) /\ Len(t) <= n
           /\ Newest(items) => Behind(t, Len(items))
  <1> DEFINE x == Thread!Last(items)
             j == CHOOSE i \in DOMAIN stored : stored[i] = x
             k == j - 1
             from == IF k < n THEN 1 ELSE k - n + 1
  <1>0. /\ stored \in Seq(Thread!Messages) /\ Len(stored) \in Nat /\ DOMAIN stored = 1..Len(stored)
        /\ Len(items) \in Nat /\ Len(items) > 0
    BY DEF ThreadTypeInv
  <1>1. t = Thread!Reverse(SubSeq(stored, from, k))
    <2>1. <<x>> # <<>> /\ <<x>>[1] = x  OBVIOUS
    <2> HIDE DEF x
    <2>2. t = Thread!Older(<<x>>, n)  BY DEF x
    <2> QED  BY <2>1, <2>2 DEF Thread!Older
  <1>2. x = items[Len(items)]  BY DEF Thread!Last
  <1>3. \E i \in DOMAIN stored : stored[i] = x
    <2>1. Len(items) \in 1..Len(items)  BY <1>0
    <2> QED  BY <2>1, <1>0, <1>2 DEF Known
  <1>4. j \in 1..Len(stored) /\ stored[j] = x  BY <1>0, <1>3
  <1> HIDE DEF x, j
  <1>5. k \in 0..Len(stored) /\ k \in Nat /\ k < Len(stored)  BY <1>0, <1>4
  <1> HIDE DEF k
  <1>a. from \in Int /\ from = (IF k < n THEN 1 ELSE k - n + 1)  BY <1>5
  <1> HIDE DEF from
  <1>b. stored \in Seq(Thread!Messages) /\ k \in 0..Len(stored)  BY <1>0, <1>5
  <1>6. /\ t \in Seq(Thread!Messages) /\ Len(t) = (IF k < n THEN k ELSE n)
        /\ \A i \in 1..Len(t) : t[i] = stored[k + 1 - i]
    <2>1. n \in Nat  OBVIOUS
    <2> HIDE DEF from
    <2> DEFINE u == Thread!Reverse(SubSeq(stored, from, k))
    <2>2. /\ u \in Seq(Thread!Messages) /\ Len(u) = (IF k < n THEN k ELSE n)
          /\ \A i \in 1..Len(u) : u[i] = stored[k + 1 - i]
      <3> HIDE DEF u
      <3>1. u = Thread!Reverse(SubSeq(stored, from, k))  BY DEF u
      <3> QED  BY <1>a, <1>b, <2>1, <3>1, OlderRows
    <2> HIDE DEF u
    <2>3. t = u  BY <1>1 DEF u
    <2> QED  BY <2>2, <2>3
  <1>7. Len(t) \in Nat /\ Len(t) <= k /\ Len(t) <= n  BY <1>5, <1>6
  <1>8. Known(t)
    <2>1. ASSUME NEW i \in 1..Len(t)  PROVE k + 1 - i \in 1..Len(stored)  BY <1>0, <1>5, <1>7
    <2> QED  BY <2>1, <1>6 DEF Known
  <1>9. ASSUME Newest(items)  PROVE Behind(t, Len(items))
    <2>1. Len(items) \in 1..Len(items) /\ Len(items) <= Len(stored)  BY <1>0, <1>9 DEF Newest
    <2>2. stored[j] = stored[Len(stored) + 1 - Len(items)] /\ Len(stored) + 1 - Len(items) \in 1..Len(stored)
      BY <2>1, <1>0, <1>2, <1>4, <1>9 DEF Newest
    <2>3. j = Len(stored) + 1 - Len(items)  BY <2>2, <1>4 DEF ThreadTypeInv
    <2>4. k = Len(stored) - Len(items)  BY <2>3, <1>0 DEF k
    <2>5. \A i \in 1..Len(t) : k + 1 - i = Len(stored) + 1 - (Len(items) + i)  BY <2>4, <1>0, <1>7
    <2>6. Len(items) + Len(t) <= Len(stored)  BY <2>4, <1>0, <1>7
    <2> QED  BY <2>5, <2>6, <1>6 DEF Behind
  <1> QED  BY <1>6, <1>7, <1>8, <1>9

\* A page behind what is shown continues it.
LEMMA JoinedRows ==
    ASSUME stored \in Seq(Thread!Messages), NEW s \in Seq(Thread!Messages), NEW t \in Seq(Thread!Messages), s # <<>>
    PROVE  /\ s \o t \in Seq(Thread!Messages) /\ s \o t # <<>>
           /\ Known(s) /\ Known(t) => Known(s \o t)
           /\ Newest(s) /\ Behind(t, Len(s)) => Newest(s \o t)
  <1> DEFINE u == s \o t
  <1>0. Len(s) \in Nat /\ Len(t) \in Nat /\ Len(s) > 0  OBVIOUS
  <1>1. /\ u \in Seq(Thread!Messages) /\ Len(u) = Len(s) + Len(t)
        /\ \A i \in 1..Len(u) : u[i] = IF i <= Len(s) THEN s[i] ELSE t[i - Len(s)]
    BY ConcatProperties
  <1> HIDE DEF u
  <1>2. u # <<>>  BY <1>0, <1>1
  <1>3. \A i \in 1..Len(u) : \/ i \in 1..Len(s) /\ u[i] = s[i]
                             \/ /\ i - Len(s) \in 1..Len(t) /\ u[i] = t[i - Len(s)]
                                /\ Len(s) + (i - Len(s)) = i
    BY <1>0, <1>1
  <1>4. ASSUME Known(s), Known(t)  PROVE Known(u)
    <2> SUFFICES ASSUME NEW i \in 1..Len(u)  PROVE \E r \in 1..Len(stored) : u[i] = stored[r]
      BY DEF Known
    <2>1. CASE i \in 1..Len(s) /\ u[i] = s[i]  BY <2>1, <1>4 DEF Known
    <2>2. CASE i - Len(s) \in 1..Len(t) /\ u[i] = t[i - Len(s)]  BY <2>2, <1>4 DEF Known
    <2> QED  BY <2>1, <2>2, <1>3
  <1>5. Newest(s) /\ Behind(t, Len(s)) => Newest(u)
    <2>1. ASSUME Newest(s), Behind(t, Len(s)), NEW i \in 1..Len(u)  PROVE u[i] = stored[Len(stored) + 1 - i]
      <3>1. CASE i \in 1..Len(s) /\ u[i] = s[i]  BY <3>1, <2>1 DEF Newest
      <3>2. CASE i - Len(s) \in 1..Len(t) /\ u[i] = t[i - Len(s)] /\ Len(s) + (i - Len(s)) = i
        BY <3>2, <2>1 DEF Behind
      <3> QED  BY <3>1, <3>2, <1>3
    <2> QED  BY <2>1, <1>1, <1>2 DEF Newest, Behind
  <1> QED  BY <1>1, <1>2, <1>4, <1>5 DEF u

\* What the operations on a query leave in its fields.
LEMMA ThreadQueries ==
    ASSUME NEW D, NEW q \in Thread!Queries(D), NEW v \in D
    PROVE  /\ Thread!Refetched(q) \in Thread!Queries(D) /\ Thread!Refetched(q).loaded = q.loaded
           /\ Thread!Refetched(q).data = q.data /\ Thread!Refetched(q).got = q.got
           /\ (q.loaded \/ q.fetch = "idle") => Thread!Refetched(q).fetch = "sent"
           /\ Thread!Cancelled(q, v) \in Thread!Queries(D) /\ Thread!Cancelled(q, v).fetch = "idle"
           /\ Thread!Cancelled(q, v).data = q.data /\ Thread!Cancelled(q, v).got = v
           /\ Thread!Served(q, v) \in Thread!Queries(D) /\ Thread!Served(q, v).fetch = "served"
           /\ Thread!Served(q, v).loaded = q.loaded
           /\ Thread!Served(q, v).data = q.data /\ Thread!Served(q, v).got = v
  <1> DEFINE r == [q EXCEPT !.fetch = "sent"]
  <1>1. r \in Thread!Queries(D) /\ r.loaded = q.loaded /\ r.data = q.data /\ r.got = q.got /\ r.fetch = "sent"
    BY DEF Thread!Queries
  <1>2. Thread!Refetched(q) = r \/ (Thread!Refetched(q) = q /\ ~q.loaded /\ q.fetch # "idle")
    BY DEF Thread!Refetched, Thread!Joins
  <1> HIDE DEF r
  <1>3. /\ Thread!Refetched(q) \in Thread!Queries(D) /\ Thread!Refetched(q).loaded = q.loaded
        /\ Thread!Refetched(q).data = q.data /\ Thread!Refetched(q).got = q.got
        /\ (q.loaded \/ q.fetch = "idle") => Thread!Refetched(q).fetch = "sent"
    BY <1>1, <1>2
  <1>4. /\ Thread!Cancelled(q, v) \in Thread!Queries(D) /\ Thread!Cancelled(q, v).fetch = "idle"
        /\ Thread!Cancelled(q, v).data = q.data /\ Thread!Cancelled(q, v).got = v
    BY DEF Thread!Queries, Thread!Cancelled
  <1>5. Thread!Served(q, v) \in Thread!Queries(D) /\ Thread!Served(q, v).fetch = "served"
    BY DEF Thread!Queries, Thread!Served
  <1>6. /\ Thread!Served(q, v).loaded = q.loaded
        /\ Thread!Served(q, v).data = q.data /\ Thread!Served(q, v).got = v
    BY DEF Thread!Queries, Thread!Served
  <1> QED  BY <1>3, <1>4, <1>5, <1>6

\* No pages.
LEMMA NoThreadPages ==
    /\ Thread!NoPages \in ThreadPages /\ Thread!NoPages.items = <<>> /\ ~Thread!NoPages.more
    /\ Known(Thread!NoPages.items)
  <1>1. Thread!NoPages \in ThreadPages /\ Thread!NoPages.items = <<>> /\ ~Thread!NoPages.more
    BY DEF Thread!NoPages, ThreadPages
  <1>2. Len(Thread!NoPages.items) = 0  BY <1>1
  <1> QED  BY <1>1, <1>2 DEF Known

\* The fields of the query.
LEMMA ThreadFields ==
    ASSUME ThreadTypeInv
    PROVE  /\ thread.data \in ThreadPages /\ thread.got \in ThreadPages /\ thread.loaded \in BOOLEAN
           /\ thread.data.items \in Seq(Thread!Messages) /\ thread.data.pages \in Nat
           /\ thread.got.items \in Seq(Thread!Messages) /\ thread.got.pages \in Nat
           /\ thread.data.more \in BOOLEAN /\ thread.got.more \in BOOLEAN
           /\ thread.fetch \in {"idle", "sent", "served"}
  BY DEF ThreadTypeInv, Thread!Queries, ThreadPages

\* Nothing is shown at first.
LEMMA ThreadBegins == Thread!ChatThreadAssumption /\ Thread!Init => ThreadInv
  <1> SUFFICES ASSUME Thread!ChatThreadAssumption, Thread!Init  PROVE ThreadInv
    OBVIOUS
  <1>1. thread = [loaded |-> FALSE, data |-> Thread!NoPages, fetch |-> "idle", got |-> Thread!NoPages]
    BY DEF Thread!Init, Thread!Unloaded
  <1>2. thread \in Thread!Queries(ThreadPages)  BY <1>1, NoThreadPages DEF Thread!Queries
  <1>3. stored = <<>> /\ stored \in Seq(Thread!Messages) /\ Len(stored) = 0  BY DEF Thread!Init
  <1>6. thread.data = Thread!NoPages /\ thread.got = Thread!NoPages /\ thread.fetch = "idle"  BY <1>1
  <1>7. threadKind \in {"direct", "room"} /\ ~threadOpen /\ ~threadNews /\ ~missed /\ threadWant = "pages"
    BY DEF Thread!Init, Thread!ChatThreadAssumption
  <1>4. ThreadTypeInv
    <2>1. threadOpen \in BOOLEAN /\ threadNews \in BOOLEAN /\ missed \in BOOLEAN
      BY DEF Thread!Init
    <2>2. \A i, j \in 1..Len(stored) : stored[i] = stored[j] => i = j  BY <1>3
    <2> QED  BY <1>2, <1>3, <1>6, <1>7, <2>1, <2>2, NoThreadPages DEF ThreadTypeInv
  <1>5. ~Heard  BY DEF Thread!Init, Heard
  <1> QED  BY <1>4, <1>5 DEF ThreadInv, CatchInv

\* The steps that change neither rows, query nor news.
LEMMA RowsRest ==
    ASSUME ThreadInv,
           UNCHANGED <<threadKind, stored, threadNews, threadOpen, thread, threadWant, missed>>,
           Heard' => Heard
    PROVE  ThreadInv'
  <1>1. ThreadTypeInv'  BY DEF ThreadInv, ThreadTypeInv, Known
  <1>2. CatchInv'
    <2>1. \A items : Newest(items)' <=> Newest(items)  BY DEF Newest
    <2>2. \A items, n : Behind(items, n)' <=> Behind(items, n)  BY DEF Behind
    <2> QED  BY <2>1, <2>2 DEF ThreadInv, CatchInv, Newest, Behind
  <1> QED  BY <1>1, <1>2 DEF ThreadInv

\* A row that is stored is news for an open screen, is read by a fetch that the
\* server has not served, or is missed.
LEMMA StoreKeeps ==
    ASSUME ThreadInv, NEW m \in Thread!Messages, Thread!Store(m),
           UNCHANGED <<threadKind, threadOpen, thread, threadWant, threadMarks>>
    PROVE  ThreadInv'
  <1>1. stored \in Seq(Thread!Messages) /\ Len(stored) \in Nat /\ DOMAIN stored = 1..Len(stored)
    BY DEF ThreadInv, ThreadTypeInv
  <1>2. CASE m \in Thread!Rows
    <2>1. stored' = stored /\ threadNews' = threadNews /\ missed' = missed
      BY <1>2 DEF Thread!Store, ThreadInv, ThreadTypeInv
    <2> QED  BY <2>1, RowsRest DEF Heard
  <1>3. CASE m \notin Thread!Rows
    <2>1. /\ stored' = Append(stored, m)
          /\ threadNews' = (threadNews \/ (threadOpen /\ threadJoined))
          /\ missed' = (missed \/ (/\ threadOpen /\ ~threadJoined
                                  /\ ~(thread.fetch = "sent" /\ threadWant = "pages")))
      BY <1>3 DEF Thread!Store
    <2>2. /\ stored' \in Seq(Thread!Messages) /\ Len(stored') = Len(stored) + 1
          /\ \A i \in 1..Len(stored) : stored'[i] = stored[i]
          /\ stored'[Len(stored) + 1] = m
      BY <2>1, <1>1, AppendProperties
    <2>3. \A i \in 1..Len(stored) : stored[i] # m
      BY <1>1, <1>3 DEF Thread!Rows, Thread!ToSet
    <2>4. ASSUME NEW i \in 1..Len(stored'), NEW j \in 1..Len(stored'), stored'[i] = stored'[j]  PROVE i = j
      <3>1. (i \in 1..Len(stored) \/ i = Len(stored) + 1) /\ (j \in 1..Len(stored) \/ j = Len(stored) + 1)
        BY <1>1, <2>2
      <3> QED  BY <3>1, <2>2, <2>3, <2>4 DEF ThreadInv, ThreadTypeInv
    <2>5. ASSUME NEW items, Known(items)  PROVE Known(items)'
      <3>1. \A r \in 1..Len(stored) : r \in 1..Len(stored') /\ stored'[r] = stored[r]  BY <1>1, <2>2
      <3> QED  BY <2>5, <3>1 DEF Known
    <2>6. Known(thread.data.items)' /\ Known(thread.got.items)'
      BY <2>5 DEF ThreadInv, ThreadTypeInv
    <2>a. threadNews' \in BOOLEAN /\ missed' \in BOOLEAN /\ (~threadOpen => ~threadNews')
      BY <2>1 DEF ThreadInv, ThreadTypeInv
    <2>7. ThreadTypeInv'
      BY <2>2, <2>4, <2>6, <2>a DEF ThreadInv, ThreadTypeInv
    <2>8. Heard' => thread'.fetch = "sent" /\ threadWant' = "pages"
      BY <2>1 DEF Heard
    <2> QED  BY <2>7, <2>8 DEF ThreadInv, CatchInv
  <1> QED  BY <1>2, <1>3

\* The server reads the rows that the fetch asks for.
LEMMA ServeKeeps ==
    ASSUME Thread!ChatThreadAssumption, ThreadInv, Thread!ServeThread
    PROVE  ThreadInv'
  <1> DEFINE d == thread.data
             pages == IF threadWant = "next" \/ d.pages = 0 THEN 1 ELSE d.pages
             from == IF threadWant = "next" /\ d.items # <<>> THEN <<Thread!Last(d.items)>> ELSE <<>>
             n == pages * ThreadPage
             items == Thread!Older(from, n)
             need == Len(items) \div ThreadPage + 1
             page == [items |-> items, pages |-> IF need < pages THEN need ELSE pages, more |-> Len(items) = n]
  <1>1. /\ thread.fetch = "sent" /\ thread' = Thread!Served(thread, page)
        /\ UNCHANGED <<threadKind, stored, threadNews, threadOpen, threadWant, missed, threadMarks>>
    BY DEF Thread!ServeThread, Thread!server, Thread!mount
  <1>2. ThreadTypeInv /\ ThreadPage \in Nat /\ ThreadPage > 0
    BY DEF ThreadInv, Thread!ChatThreadAssumption
  <1>3. pages \in Nat /\ pages > 0  BY <1>2, ThreadFields
  <1>4. n \in Nat /\ n > 0
    <2> HIDE DEF pages
    <2> QED  BY <1>2, <1>3
  <1>5. /\ items \in Seq(Thread!Messages) /\ Known(items)
        /\ threadWant = "pages" => Newest(items)
        /\ threadWant = "next" /\ Newest(d.items) => Behind(items, Len(d.items))
    <2>1. CASE threadWant = "next"
      <3>1. d.items # <<>> /\ Known(d.items) /\ d.items \in Seq(Thread!Messages)
        BY <1>1, <1>2, <2>1, ThreadFields DEF ThreadTypeInv
      <3>2. items = Thread!Older(<<Thread!Last(d.items)>>, n)  BY <2>1, <3>1
      <3> HIDE DEF items, n, d
      <3> QED  BY <1>2, <1>4, <2>1, <3>1, <3>2, NextRows
    <2>2. CASE threadWant # "next"
      <3>1. items = Thread!Older(<<>>, n)  BY <2>2
      <3> HIDE DEF items, n
      <3>2. n \in Nat \ {0}  BY <1>4
      <3> QED  BY <1>2, <2>2, <3>1, <3>2, NewestRows
    <2> QED  BY <2>1, <2>2
  <1>6. page \in ThreadPages /\ page.items = items /\ (page.more => items # <<>>)
    <2> HIDE DEF items, n, pages
    <2>1. Len(items) \in Nat  BY <1>5
    <2>2. need \in Nat  BY <2>1, <1>2
    <2>3. Len(items) = n => items # <<>>  BY <1>4
    <2> HIDE DEF need
    <2> QED  BY <1>3, <1>5, <2>2, <2>3 DEF ThreadPages
  <1> HIDE DEF d, pages, from, n, items, need, page
  <1>7. /\ thread' \in Thread!Queries(ThreadPages) /\ thread'.fetch = "served" /\ thread'.loaded = thread.loaded
        /\ thread'.data = thread.data /\ thread'.got = page
    <2>1. thread \in Thread!Queries(ThreadPages)  BY <1>2 DEF ThreadTypeInv
    <2> QED  BY <2>1, <1>1, <1>6, ThreadQueries
  <1>8. ThreadTypeInv'
    <2>a. Known(thread.data.items)'  BY <1>1, <1>2, <1>7 DEF ThreadTypeInv, Known
    <2>b. Known(thread.got.items)'  BY <1>1, <1>5, <1>6, <1>7 DEF Known
    <2>1. Known(thread.data.items)' /\ Known(thread.got.items)'  BY <2>a, <2>b
    <2>2. threadOpen  BY <1>1, <1>2 DEF ThreadTypeInv
    <2> QED  BY <1>1, <1>2, <1>6, <1>7, <2>1, <2>2 DEF ThreadTypeInv
  <1>9. CatchInv'
    <2> SUFFICES ASSUME Heard  PROVE CatchInv'
      BY <1>1 DEF CatchInv, Heard
    <2>1. threadWant = "next" => thread.loaded /\ Newest(thread.data.items)
      BY <1>1, <1>2 DEF ThreadInv, CatchInv, ThreadTypeInv
    <2>2. threadWant = "next" => Newest(thread.data.items)'
      BY <2>1, <1>1, <1>7 DEF Newest
    <2>3. threadWant = "pages" => Newest(thread.got.items)'
      BY <1>1, <1>5, <1>6, <1>7 DEF Newest
    <2>4. threadWant = "next" => Behind(thread.got.items, Len(thread.data.items))'
      <3>1. threadWant = "next" => Behind(page.items, Len(thread.data.items))
        BY <1>5, <1>6, <2>1 DEF d
      <3> QED  BY <1>1, <1>7, <3>1 DEF Behind
    <2>5. threadWant' = threadWant /\ threadWant \in {"pages", "next"} /\ thread'.fetch = "served"
      BY <1>1, <1>2, <1>7 DEF ThreadTypeInv
    <2> QED  BY <2>2, <2>3, <2>4, <2>5 DEF CatchInv
  <1> QED  BY <1>8, <1>9 DEF ThreadInv

\* They replace what is shown, or are put behind it.
LEMMA ArriveKeeps ==
    ASSUME ThreadInv, Thread!ThreadArrives
    PROVE  ThreadInv'
  <1> DEFINE joined == [thread.got EXCEPT !.items = thread.data.items \o @, !.pages = thread.data.pages + 1]
             new == IF threadWant = "next" THEN joined ELSE thread.got
  <1>1. /\ thread.fetch = "served" /\ thread' = Thread!Written(Thread!Arrived(thread, Thread!NoPages), new)
        /\ UNCHANGED <<threadKind, stored, threadNews, threadOpen, threadWant, missed, threadMarks>>
    BY DEF Thread!ThreadArrives, Thread!server, Thread!mount
  <1>2. ThreadTypeInv /\ threadOpen  BY <1>1 DEF ThreadInv, ThreadTypeInv
  <1>3. /\ thread.data \in ThreadPages /\ thread.got \in ThreadPages
        /\ thread.data.items \in Seq(Thread!Messages) /\ thread.got.items \in Seq(Thread!Messages)
        /\ thread.data.pages \in Nat /\ thread.got.more \in BOOLEAN
        /\ Known(thread.data.items) /\ Known(thread.got.items) /\ stored \in Seq(Thread!Messages)
    BY <1>2, ThreadFields DEF ThreadTypeInv
  <1>4. threadWant = "next" => thread.data.items # <<>>  BY <1>1, <1>2 DEF ThreadTypeInv
  <1>5. threadWant = "next" =>
          /\ thread.data.items \o thread.got.items \in Seq(Thread!Messages)
          /\ thread.data.items \o thread.got.items # <<>>
          /\ Known(thread.data.items \o thread.got.items)
          /\ Newest(thread.data.items) /\ Behind(thread.got.items, Len(thread.data.items))
                => Newest(thread.data.items \o thread.got.items)
    BY <1>3, <1>4, JoinedRows
  <1>6. threadWant = "next" =>
          /\ joined \in ThreadPages /\ joined.items = thread.data.items \o thread.got.items
    <2>1. thread.data.pages + 1 \in Nat  BY <1>3
    <2> QED  BY <1>3, <1>5, <2>1 DEF ThreadPages
  <1>7. /\ new \in ThreadPages /\ Known(new.items) /\ (new.more => new.items # <<>>)
        /\ Heard => Newest(new.items)
    <2> HIDE DEF joined
    <2>1. CASE threadWant = "next"
      <3>1. Heard => Newest(thread.data.items) /\ Behind(thread.got.items, Len(thread.data.items))
        BY <1>1, <1>2, <2>1 DEF ThreadInv, CatchInv, ThreadTypeInv
      <3> QED  BY <1>5, <1>6, <2>1, <3>1
    <2>2. CASE threadWant # "next"
      <3>1. threadWant = "pages"  BY <2>2, <1>2 DEF ThreadTypeInv
      <3>2. Heard => Newest(thread.got.items)  BY <3>1, <1>1 DEF ThreadInv, CatchInv
      <3>3. thread.got.more => thread.got.items # <<>>  BY <1>2 DEF ThreadTypeInv
      <3> QED  BY <1>3, <2>2, <3>2, <3>3
    <2> QED  BY <2>1, <2>2
  <1> HIDE DEF joined, new
  <1>8. thread' = [loaded |-> TRUE, data |-> new, fetch |-> "idle", got |-> Thread!NoPages]
    BY <1>1 DEF Thread!Written, Thread!Arrived
  <1>9. /\ thread' \in Thread!Queries(ThreadPages) /\ thread'.data = new /\ thread'.got = Thread!NoPages
        /\ thread'.fetch = "idle"
    BY <1>7, <1>8, NoThreadPages DEF Thread!Queries
  <1>10. ThreadTypeInv'
    <2>1. Known(thread.data.items)'  BY <1>1, <1>7, <1>9 DEF Known
    <2>2. Known(thread.got.items)'  BY <1>1, <1>9, NoThreadPages DEF Known
    <2> QED  BY <1>1, <1>2, <1>7, <1>9, <2>1, <2>2, NoThreadPages DEF ThreadTypeInv
  <1>11. Heard' => Newest(thread.data.items)'
    BY <1>1, <1>7, <1>9 DEF Heard, Newest
  <1> QED  BY <1>9, <1>10, <1>11 DEF ThreadInv, CatchInv

\* The steps that change neither rows nor what is shown.
LEMMA ShownKeeps ==
    ASSUME ThreadTypeInv, UNCHANGED <<threadKind, stored>>,
           threadOpen' \in BOOLEAN, threadNews' \in BOOLEAN, missed' \in BOOLEAN,
           thread' \in Thread!Queries(ThreadPages), thread'.data = thread.data,
           thread'.got = thread.got \/ thread'.got = Thread!NoPages,
           threadWant' \in {"pages", "next"},
           ~threadOpen' => thread'.fetch = "idle" /\ ~threadNews',
           threadWant' = "next" /\ thread'.fetch # "idle" => thread'.loaded /\ thread.data.items # <<>>
    PROVE  ThreadTypeInv'
  <1>1. Known(thread.data.items)'  BY DEF ThreadTypeInv, Known
  <1>2. Known(thread.got.items)'  BY NoThreadPages DEF ThreadTypeInv, Known
  <1>3. thread'.got.more => thread'.got.items # <<>>  BY NoThreadPages DEF ThreadTypeInv
  <1> QED  BY <1>1, <1>2, <1>3 DEF ThreadTypeInv

\* A shown thread is fetched anew, unless its first fetch is joined.
LEMMA InvalidateKeeps ==
    ASSUME ThreadInv, Thread!Invalidate, UNCHANGED <<threadKind, stored, threadOpen>>,
           threadNews' \in BOOLEAN, ~threadOpen => ~threadNews'
    PROVE  ThreadInv'
  <1>1. ThreadTypeInv /\ thread \in Thread!Queries(ThreadPages) /\ threadOpen \in BOOLEAN
    BY DEF ThreadInv, ThreadTypeInv
  <1>2. CASE ~threadOpen
    <2>1. UNCHANGED <<thread, threadWant, missed>>  BY <1>2 DEF Thread!Invalidate
    <2>2. ThreadTypeInv'  BY <1>1, <1>2, <2>1, ShownKeeps DEF ThreadTypeInv
    <2> QED  BY <1>2, <2>2 DEF ThreadInv, CatchInv, Heard
  <1>3. CASE threadOpen /\ Thread!Joins(thread)
    <2>1. missed' = TRUE /\ UNCHANGED <<thread, threadWant>>  BY <1>3 DEF Thread!Invalidate
    <2>2. ThreadTypeInv'  BY <1>1, <1>3, <2>1, ShownKeeps DEF ThreadTypeInv
    <2> QED  BY <2>1, <2>2 DEF ThreadInv, CatchInv, Heard
  <1>4. CASE threadOpen /\ ~Thread!Joins(thread)
    <2>1. thread' = Thread!Refetched(thread) /\ threadWant' = "pages" /\ missed' = FALSE
      BY <1>4 DEF Thread!Invalidate
    <2>2. thread.loaded \/ thread.fetch = "idle"  BY <1>4 DEF Thread!Joins
    <2>3. /\ thread' \in Thread!Queries(ThreadPages) /\ thread'.data = thread.data /\ thread'.got = thread.got
          /\ thread'.fetch = "sent"
      BY <1>1, <2>1, <2>2, NoThreadPages, ThreadQueries
    <2>4. ThreadTypeInv'  BY <1>1, <1>4, <2>1, <2>3, ShownKeeps
    <2>5. CatchInv'  BY <2>1, <2>3 DEF CatchInv
    <2> QED  BY <2>4, <2>5 DEF ThreadInv
  <1> QED  BY <1>1, <1>2, <1>3, <1>4

\* The next page continues what is new, unless it cuts a fetch off.
LEMMA NextKeeps ==
    ASSUME ThreadInv, Thread!NextPage
    PROVE  ThreadInv'
  <1>1. ThreadTypeInv /\ thread \in Thread!Queries(ThreadPages) /\ threadOpen \in BOOLEAN
    BY DEF ThreadInv, ThreadTypeInv
  <1>2. /\ threadOpen /\ thread.loaded /\ thread.data.more
        /\ thread' = Thread!Refetched(thread) /\ threadWant' = "next"
        /\ missed' = (missed \/ thread.fetch # "idle")
    BY DEF Thread!NextPage
  <1>3. UNCHANGED <<threadKind, stored, threadNews, threadOpen, threadMarks>>
    BY DEF Thread!NextPage, Thread!server, Thread!mount
  <1>4. /\ thread' \in Thread!Queries(ThreadPages) /\ thread'.data = thread.data /\ thread'.got = thread.got
        /\ thread'.fetch = "sent" /\ thread'.loaded
    BY <1>1, <1>2, NoThreadPages, ThreadQueries
  <1>5. thread.data.items # <<>> /\ threadNews \in BOOLEAN  BY <1>1, <1>2 DEF ThreadTypeInv
  <1>6. ThreadTypeInv'  BY <1>1, <1>2, <1>3, <1>4, <1>5, ShownKeeps
  <1>7. Heard' => Newest(thread.data.items)'
    BY <1>2, <1>3, <1>4 DEF ThreadInv, CatchInv, Heard, Newest
  <1> QED  BY <1>4, <1>6, <1>7 DEF ThreadInv, CatchInv

\* What is not fetched when the screen opens is fetched after the mark, or missed.
LEMMA OpenKeeps ==
    ASSUME ThreadInv, Thread!Open
    PROVE  ThreadInv'
  <1>1. /\ ThreadTypeInv /\ thread \in Thread!Queries(ThreadPages)
        /\ thread.fetch = "idle" /\ ~threadNews /\ threadKind \in {"direct", "room"} /\ threadNews \in BOOLEAN
    BY DEF ThreadInv, ThreadTypeInv, Thread!Open
  <1>2. /\ threadOpen' = TRUE /\ threadWant' = "pages"
        /\ threadMarks' = (IF threadKind = "direct" THEN threadMarks \cup {"asked"} ELSE threadMarks)
    BY DEF Thread!Open
  <1>3. UNCHANGED <<threadKind, stored, threadNews>>
    BY DEF Thread!Open, Thread!server
  <1>4. CASE thread' = Thread!Refetched(thread) /\ missed' = FALSE
    <2>1. /\ thread' \in Thread!Queries(ThreadPages) /\ thread'.data = thread.data /\ thread'.got = thread.got
          /\ thread'.fetch = "sent"
      BY <1>1, <1>4, NoThreadPages, ThreadQueries
    <2>2. ThreadTypeInv'  BY <1>1, <1>2, <1>3, <1>4, <2>1, ShownKeeps
    <2>3. CatchInv'  BY <1>2, <2>1 DEF CatchInv
    <2> QED  BY <2>2, <2>3 DEF ThreadInv
  <1>5. CASE thread' = thread /\ missed' = (threadKind = "room")
    <2>1. ThreadTypeInv'  BY <1>1, <1>2, <1>3, <1>5, ShownKeeps
    <2>2. threadKind = "direct" => threadMarks' # {}  BY <1>2
    <2>3. ~Heard'  BY <1>1, <1>5, <2>2 DEF Heard
    <2> QED  BY <2>1, <2>3 DEF ThreadInv, CatchInv
  <1> QED  BY <1>4, <1>5 DEF Thread!Open

\* A fetch that fails is missed.
LEMMA FailKeeps ==
    ASSUME ThreadInv, Thread!ThreadFails
    PROVE  ThreadInv'
  <1> DEFINE no == Thread!NoPages
  <1>1. ThreadTypeInv /\ thread \in Thread!Queries(ThreadPages) /\ threadWant \in {"pages", "next"}
    BY DEF ThreadInv, ThreadTypeInv
  <1>2. thread' = Thread!Cancelled(thread, no) /\ missed' = TRUE  BY DEF Thread!ThreadFails
  <1>3. UNCHANGED <<threadKind, stored, threadNews, threadOpen, threadWant>>
    BY DEF Thread!ThreadFails, Thread!server, Thread!mount
  <1>4. no \in ThreadPages  BY NoThreadPages
  <1> HIDE DEF no
  <1>5. /\ thread' \in Thread!Queries(ThreadPages) /\ thread'.data = thread.data /\ thread'.got = no
        /\ thread'.fetch = "idle"
    BY <1>1, <1>2, <1>4, ThreadQueries
  <1>6. thread.fetch = "sent"  BY DEF Thread!ThreadFails
  <1>7. threadNews \in BOOLEAN /\ threadOpen  BY <1>1, <1>6 DEF ThreadTypeInv
  <1>8. ThreadTypeInv'  BY <1>1, <1>2, <1>3, <1>5, <1>7, ShownKeeps DEF no
  <1> QED  BY <1>2, <1>8 DEF ThreadInv, CatchInv, Heard

\* A closed screen hears nothing.
LEMMA CloseKeeps ==
    ASSUME ThreadInv, Thread!Close
    PROVE  ThreadInv'
  <1>1. ThreadTypeInv /\ thread \in Thread!Queries(ThreadPages) /\ missed \in BOOLEAN
        /\ threadWant \in {"pages", "next"}
    BY DEF ThreadInv, ThreadTypeInv
  <1>2. /\ threadOpen' = FALSE /\ threadNews' = FALSE
        /\ thread' = Thread!Cancelled(thread, Thread!NoPages)
    BY DEF Thread!Close
  <1>3. UNCHANGED <<threadKind, stored, threadWant, missed>>
    BY DEF Thread!Close, Thread!server
  <1>4. /\ thread' \in Thread!Queries(ThreadPages) /\ thread'.data = thread.data /\ thread'.got = Thread!NoPages
        /\ thread'.fetch = "idle"
    <2> DEFINE no == Thread!NoPages
    <2>1. no \in ThreadPages /\ thread' = Thread!Cancelled(thread, no)  BY <1>2, NoThreadPages
    <2>2. thread \in Thread!Queries(ThreadPages)  BY <1>1
    <2> HIDE DEF no
    <2>3. thread' \in Thread!Queries(ThreadPages)  BY <2>1, <2>2 DEF Thread!Cancelled, Thread!Queries
    <2>4. thread'.data = thread.data /\ thread'.got = no /\ thread'.fetch = "idle"
      BY <2>1, <2>2 DEF Thread!Cancelled, Thread!Queries
    <2> QED  BY <2>3, <2>4 DEF no
  <1>5. ThreadTypeInv'  BY <1>1, <1>2, <1>3, <1>4, ShownKeeps
  <1> QED  BY <1>2, <1>5 DEF ThreadInv, CatchInv, Heard

\* The messages that are being sent are the user's own.
JobsInv == \A j \in threadJobs : j.m \in Mine

\* Each step keeps that.
LEMMA JobsKept == ASSUME JobsInv, [Thread!Next]_(Thread!vars)  PROVE JobsInv'
  <1>1. ASSUME NEW j \in threadJobs, NEW at, Thread!Move(j, at)  PROVE JobsInv'
    <2>1. [j EXCEPT !.at = at].m = j.m  OBVIOUS
    <2> QED  BY <1>1, <2>1 DEF JobsInv, Thread!Move
  <1>2. ASSUME NEW j, threadJobs' = threadJobs \ {j}  PROVE JobsInv'
    BY <1>2 DEF JobsInv
  <1>3. ASSUME NEW m \in Mine, NEW at, threadJobs' = threadJobs \cup {[m |-> m, of |-> threadOpens, at |-> at]}
        PROVE  JobsInv'
    BY <1>3 DEF JobsInv
  <1>4. CASE threadJobs' = threadJobs  BY <1>4 DEF JobsInv
  <1>5. ASSUME NEW m \in Mine, Thread!Submit(m) \/ Thread!Resend(m)  PROVE JobsInv'
    BY <1>3, <1>5 DEF Thread!Submit, Thread!Resend
  <1>6. ASSUME NEW m \in Mine, Thread!GiveUp(m) \/ Thread!Flush(m)  PROVE JobsInv'
    BY <1>4, <1>6 DEF Thread!GiveUp, Thread!Flush
  <1>7. ASSUME NEW j \in threadJobs, Thread!Enqueue(j) \/ Thread!Send(j)  PROVE JobsInv'
    BY <1>1, <1>2, <1>7 DEF Thread!Enqueue, Thread!Send
  <1>8. ASSUME NEW j \in threadJobs, Thread!Delivered(j) \/ Thread!Undelivered(j)  PROVE JobsInv'
    BY <1>2, <1>8 DEF Thread!Delivered, Thread!Undelivered
  <1>9. CASE Thread!Open \/ Thread!Close \/ Thread!Join \/ Thread!Restore \/ Thread!Realtime \/ Thread!Marked
    BY <1>4, <1>9 DEF Thread!Open, Thread!Close, Thread!Join, Thread!Restore, Thread!Realtime, Thread!Marked
  <1>10. CASE \/ Thread!ServeThread \/ Thread!ThreadFails \/ Thread!ThreadArrives
              \/ Thread!NextPage \/ Thread!ServeMark
    BY <1>4, <1>10 DEF Thread!ServeThread, Thread!ThreadFails, Thread!ThreadArrives, Thread!NextPage,
                       Thread!ServeMark
  <1>11. ASSUME NEW m \in Theirs, Thread!TheirMessage(m)  PROVE JobsInv'
    BY <1>4, <1>11 DEF Thread!TheirMessage
  <1>12. CASE UNCHANGED Thread!vars  BY <1>4, <1>12 DEF Thread!vars
  <1> QED
    BY <1>5, <1>6, <1>7, <1>8, <1>9, <1>10, <1>11, <1>12 DEF Thread!Next

\* Each step of the thread keeps the invariant.
LEMMA ThreadKept ==
    ASSUME Thread!ChatThreadAssumption, ThreadInv, JobsInv, [Thread!Next]_(Thread!vars)
    PROVE  ThreadInv'
  <1> USE DEF Thread!server, Thread!mount, Thread!query, Thread!fetching
  <1>0. ThreadTypeInv /\ threadNews \in BOOLEAN /\ (~threadOpen => ~threadNews)
    BY DEF ThreadInv, ThreadTypeInv
  <1>1. CASE Thread!Open  BY <1>1, OpenKeeps
  <1>2. CASE Thread!Close  BY <1>2, CloseKeeps
  <1>3. CASE Thread!Restore  BY <1>3, RowsRest DEF Thread!Restore, Heard
  <1>4. CASE Thread!Realtime
    <2>1. threadNews /\ threadNews' = FALSE /\ UNCHANGED <<threadKind, stored, threadOpen>>
      BY <1>4 DEF Thread!Realtime
    <2>2. CASE threadKind = "direct"
      <3>1. threadMarks' # {} /\ UNCHANGED <<thread, threadWant, missed>>  BY <1>4, <2>2 DEF Thread!Realtime
      <3>2. ThreadTypeInv'  BY <1>0, <2>1, <3>1, ShownKeeps DEF ThreadTypeInv
      <3> QED  BY <3>1, <3>2 DEF ThreadInv, CatchInv, Heard
    <2>3. CASE threadKind # "direct"
      <3>1. Thread!Invalidate  BY <1>4, <2>3 DEF Thread!Realtime
      <3> QED  BY <2>1, <3>1, InvalidateKeeps
    <2> QED  BY <2>2, <2>3
  <1>5. CASE Thread!Marked
    <2>1. Thread!Invalidate /\ UNCHANGED <<threadKind, stored, threadOpen, threadNews>>
      BY <1>5 DEF Thread!Marked
    <2> QED  BY <1>0, <2>1, InvalidateKeeps
  <1>6. CASE Thread!ServeThread  BY <1>6, ServeKeeps
  <1>a. CASE Thread!ThreadFails  BY <1>a, FailKeeps
  <1>b. CASE Thread!Join  BY <1>b, RowsRest DEF Thread!Join, Heard
  <1>7. CASE Thread!ThreadArrives  BY <1>7, ArriveKeeps
  <1>8. CASE Thread!NextPage  BY <1>8, NextKeeps
  <1>9. CASE Thread!ServeMark
    <2>1. UNCHANGED <<threadKind, stored, threadOpen, thread, threadWant, missed>> /\ threadMarks' # {}
      BY <1>9 DEF Thread!ServeMark
    <2>2. threadNews' \in BOOLEAN /\ (~threadOpen => ~threadNews')
      <3>1. threadNews' = (threadNews \/ (threadOpen /\ threadJoined /\ unread)) \/ threadNews' = threadNews
        BY <1>9 DEF Thread!ServeMark
      <3>2. CASE threadNews' = threadNews  BY <1>0, <3>2
      <3>3. CASE threadNews' = (threadNews \/ (threadOpen /\ threadJoined /\ unread))  BY <1>0, <3>3
      <3> QED  BY <3>1, <3>2, <3>3
    <2>3. ThreadTypeInv'  BY <1>0, <2>1, <2>2, ShownKeeps DEF ThreadTypeInv
    <2> QED  BY <2>1, <2>3 DEF ThreadInv, CatchInv, Heard
  <1>10. ASSUME NEW m \in Theirs, Thread!TheirMessage(m)  PROVE ThreadInv'
    BY <1>10, StoreKeeps DEF Thread!TheirMessage, Thread!Messages
  <1>11. ASSUME NEW m \in Mine, Thread!Submit(m)  PROVE ThreadInv'
    BY <1>11, RowsRest DEF Thread!Submit, Heard
  <1>12. ASSUME NEW m \in Mine, Thread!Resend(m)  PROVE ThreadInv'
    BY <1>12, RowsRest DEF Thread!Resend, Heard
  <1>13. ASSUME NEW m \in Mine, Thread!GiveUp(m)  PROVE ThreadInv'
    BY <1>13, RowsRest DEF Thread!GiveUp, Heard
  <1>14. ASSUME NEW m \in Mine, Thread!Flush(m)  PROVE ThreadInv'
    BY <1>14, StoreKeeps DEF Thread!Flush, Thread!Messages
  <1>15. ASSUME NEW j \in threadJobs, Thread!Enqueue(j)  PROVE ThreadInv'
    BY <1>15, RowsRest DEF Thread!Enqueue, Heard
  <1>16. ASSUME NEW j \in threadJobs, Thread!Send(j)  PROVE ThreadInv'
    <2>1. UNCHANGED <<threadKind, threadOpen, thread, threadWant, threadMarks>>
      BY <1>16 DEF Thread!Send
    <2>a. j.m \in Thread!Messages  BY DEF JobsInv, Thread!Messages
    <2>2. CASE Thread!Store(j.m)
      BY <2>a, <2>1, <2>2, StoreKeeps
    <2>3. CASE UNCHANGED <<stored, threadNews, missed>>
      BY <2>1, <2>3, RowsRest DEF Heard
    <2> QED  BY <1>16, <2>2, <2>3 DEF Thread!Send
  <1>17. ASSUME NEW j \in threadJobs, Thread!Delivered(j)  PROVE ThreadInv'
    <2>1. Thread!Invalidate /\ UNCHANGED <<threadKind, stored, threadOpen, threadNews>>
      BY <1>17 DEF Thread!Delivered
    <2> QED  BY <1>0, <2>1, InvalidateKeeps
  <1>18. ASSUME NEW j \in threadJobs, Thread!Undelivered(j)  PROVE ThreadInv'
    BY <1>18, RowsRest DEF Thread!Undelivered, Heard
  <1>19. CASE UNCHANGED Thread!vars
    BY <1>19, RowsRest DEF Thread!vars, Heard
  <1> QED
    BY <1>1, <1>2, <1>3, <1>4, <1>5, <1>6, <1>a, <1>b, <1>7, <1>8, <1>9, <1>10, <1>11, <1>12, <1>13,
       <1>14, <1>15, <1>16, <1>17, <1>18, <1>19 DEF Thread!Next

\* The rows without a gap are the page of their number.
LEMMA CaughtUp == Thread!ChatThreadAssumption /\ ThreadInv => Thread!ThreadCatchesUp
  <1> SUFFICES ASSUME Thread!ChatThreadAssumption, ThreadInv,
                      threadOpen, thread.loaded, thread.fetch = "idle", ~threadNews, threadMarks = {}, ~missed
               PROVE  /\ thread.data.items = Thread!Older(<<>>, Len(thread.data.items))
                      /\ thread.data.items = <<>> => stored = <<>>
    BY DEF Thread!ThreadCatchesUp
  <1> DEFINE items == thread.data.items
             n == Len(items)
             t == Thread!Older(<<>>, n)
             from == IF Len(stored) < n THEN 1 ELSE Len(stored) - n + 1
  <1>1. Newest(items)  BY DEF ThreadInv, CatchInv, Heard
  <1>2. ThreadTypeInv /\ items \in Seq(Thread!Messages) /\ stored \in Seq(Thread!Messages)
    BY ThreadFields DEF ThreadInv, ThreadTypeInv
  <1>3. t = Thread!Reverse(SubSeq(stored, from, Len(stored)))  BY DEF Thread!Older
  <1> HIDE DEF items
  <1>4. n \in Nat /\ Len(stored) \in Nat /\ Len(stored) \in 0..Len(stored) /\ n <= Len(stored)
    BY <1>1, <1>2 DEF Newest
  <1> HIDE DEF n, t
  <1>5. from \in Int  BY <1>4
  <1> HIDE DEF from
  <1>6. /\ t \in Seq(Thread!Messages) /\ Len(t) = (IF Len(stored) < n THEN Len(stored) ELSE n)
        /\ \A i \in 1..Len(t) : t[i] = stored[Len(stored) + 1 - i]
    BY <1>2, <1>3, <1>4, <1>5, OlderRows DEF from
  <1>7. Len(t) = Len(items)  BY <1>4, <1>6 DEF n
  <1>8. \A i \in 1..Len(t) : t[i] = items[i]  BY <1>1, <1>6, <1>7 DEF Newest
  <1>9. items = t  BY <1>2, <1>6, <1>7, <1>8, SeqEqual
  <1> QED  BY <1>1, <1>9 DEF Newest, items, t, n

\* A step of the screens is one of the thread, or leaves it alone.
LEMMA ThreadStep ==
    ASSUME [ScreensNext]_screensVars
    PROVE  [Thread!Next]_(Thread!vars)
  BY DEF ScreensNext, screensVars, threadVars, Thread!vars, Thread!server, Thread!query, Thread!fetching,
         Thread!mount

\* An open conversation catches up with the server, for any messages, page
\* size, kinds of conversation and number of visits: events, marks, next pages,
\* answers and messages of one's own may overlap in any way, and the channel
\* joins at any time after the screen has opened.  What is left out is a fetch
\* or a row that was missed, as the property says (ChatThread).
THEOREM ThreadCatches == ScreensSpec => []ThreadCatchesUp
  <1>1. ScreensInit => ThreadInv /\ JobsInv
    BY ScreensConstants, ThreadBegins DEF ScreensInit, Thread!Init, JobsInv
  <1>2. ThreadInv /\ JobsInv /\ [ScreensNext]_screensVars => ThreadInv' /\ JobsInv'
    BY ScreensConstants, ThreadStep, ThreadKept, JobsKept
  <1>3. ThreadInv => ThreadCatchesUp
    BY ScreensConstants, CaughtUp DEF ThreadCatchesUp
  <1> QED  BY <1>1, <1>2, <1>3, PTL DEF ScreensSpec, screensVars

\* The rest of the screen's state.
ThreadSides ==
    /\ threadKind \in ChatKinds /\ threadOpen \in BOOLEAN /\ threadJoined \in BOOLEAN
    /\ unread \in BOOLEAN /\ invalid \in BOOLEAN
    /\ threadOpens \in 0..MaxVisits /\ (threadOpen => threadOpens # 0)
    /\ pending \in [Mine -> {"none", "sending", "sent", "failed"}]
    /\ outbox \in SUBSET Mine /\ got \in SUBSET Mine /\ restore \in {"asked", "got", "done"}
    /\ threadJobs \in SUBSET Thread!Jobs /\ threadMarks \in SUBSET {"asked", "done"}

\* A job that moves on is still one.
LEMMA MovesTyped ==
    ASSUME NEW j \in Thread!Jobs, NEW at \in {"enqueue", "send", "ok", "err"}, threadJobs \in SUBSET Thread!Jobs,
           Thread!Move(j, at)
    PROVE  threadJobs' \in SUBSET Thread!Jobs
  <1>1. [j EXCEPT !.at = at] \in Thread!Jobs  BY DEF Thread!Jobs
  <1> QED  BY <1>1 DEF Thread!Move

\* A message that shows its status has one.
LEMMA ShowsTyped ==
    ASSUME NEW j \in Thread!Jobs, NEW s \in {"sent", "failed"},
           pending \in [Mine -> {"none", "sending", "sent", "failed"}], Thread!Shows(j, s)
    PROVE  pending' \in [Mine -> {"none", "sending", "sent", "failed"}]
  <1>1. j.m \in Mine  BY DEF Thread!Jobs
  <1> QED  BY <1>1 DEF Thread!Shows

\* Each step keeps their types.
LEMMA ThreadSidesKept ==
    ASSUME Thread!ChatThreadAssumption, ThreadSides, [Thread!Next]_(Thread!vars)
    PROVE  ThreadSides'
  <1> USE DEF Thread!server, Thread!mount, Thread!query, Thread!fetching
  <1> DEFINE Labels == {"none", "sending", "sent", "failed"}
  <1>1. MaxVisits \in Nat  BY DEF Thread!ChatThreadAssumption
  <1>2. CASE Thread!Open
    <2>1. /\ threadOpen' = TRUE /\ threadJoined' = FALSE
          /\ threadOpens' = threadOpens + 1 /\ threadOpens < MaxVisits
          /\ pending' = [m \in Mine |-> "none"] /\ restore' = "asked" /\ got' = {}
          /\ threadMarks' \in {threadMarks \cup {"asked"}, threadMarks}
          /\ UNCHANGED <<threadKind, unread, invalid, outbox, threadJobs>>
      BY <1>2 DEF Thread!Open
    <2>2. threadOpens' \in 0..MaxVisits /\ threadOpens' # 0  BY <1>1, <2>1 DEF ThreadSides
    <2>3. pending' \in [Mine -> Labels]  BY <2>1
    <2> QED  BY <2>1, <2>2, <2>3 DEF ThreadSides
  <1>3. CASE Thread!Close
    <2>1. /\ threadOpen' = FALSE /\ threadJoined' = FALSE /\ invalid' = (invalid \/ thread.fetch # "idle")
          /\ UNCHANGED <<threadKind, unread, threadOpens, restore, got, pending, outbox, threadJobs, threadMarks>>
      BY <1>3 DEF Thread!Close
    <2>2. invalid' \in BOOLEAN  BY <2>1 DEF ThreadSides
    <2> QED  BY <2>1, <2>2 DEF ThreadSides
  <1>4. CASE Thread!Restore
    <2>1. /\ UNCHANGED <<threadKind, unread, invalid, threadOpen, threadOpens, threadJoined,
                         outbox, threadJobs, threadMarks>>
          /\ restore' \in {"got", "done"} /\ got' \in {outbox, {}}
          /\ pending' = pending \/ pending' = [m \in Mine |-> IF m \in got THEN "failed" ELSE "none"]
      BY <1>4 DEF Thread!Restore
    <2>2. pending' \in [Mine -> Labels]  BY <2>1 DEF ThreadSides
    <2> QED  BY <2>1, <2>2 DEF ThreadSides
  <1>5. CASE Thread!Realtime \/ Thread!Marked
    <2>1. /\ UNCHANGED <<threadKind, unread, threadOpen, threadOpens, threadJoined,
                         restore, got, pending, outbox, threadJobs>>
          /\ threadMarks' \subseteq threadMarks \cup {"asked"} /\ invalid' \in {TRUE, invalid}
      BY <1>5 DEF Thread!Realtime, Thread!Marked, Thread!Invalidate
    <2> QED  BY <2>1 DEF ThreadSides
  <1>a. CASE Thread!Join  BY <1>a DEF Thread!Join, ThreadSides
  <1>6. CASE Thread!ServeThread \/ Thread!ThreadFails \/ Thread!ThreadArrives \/ Thread!NextPage
    <2>1. /\ UNCHANGED <<threadKind, unread, threadOpen, threadOpens, threadJoined,
                         restore, got, pending, outbox, threadJobs, threadMarks>>
          /\ invalid' \in {FALSE, invalid}
      BY <1>6 DEF Thread!ServeThread, Thread!ThreadFails, Thread!ThreadArrives, Thread!NextPage
    <2> QED  BY <2>1 DEF ThreadSides
  <1>7. CASE Thread!ServeMark
    <2>1. /\ UNCHANGED <<threadKind, invalid, threadOpen, threadOpens, threadJoined,
                         restore, got, pending, outbox, threadJobs>>
          /\ threadMarks' = (threadMarks \ {"asked"}) \cup {"done"} /\ unread' \in {FALSE, unread}
      BY <1>7 DEF Thread!ServeMark
    <2> QED  BY <2>1 DEF ThreadSides
  <1>8. ASSUME NEW m, Thread!Store(m)  PROVE unread' \in BOOLEAN
    BY <1>8 DEF Thread!Store, ThreadSides
  <1>9. ASSUME NEW m \in Theirs, Thread!TheirMessage(m)  PROVE ThreadSides'
    BY <1>8, <1>9 DEF Thread!TheirMessage, ThreadSides
  <1>10. ASSUME NEW m \in Mine, NEW at \in {"enqueue", "send"},
                threadOpen, pending' = [pending EXCEPT ![m] = "sending"],
                threadJobs' = threadJobs \cup {[m |-> m, of |-> threadOpens, at |-> at]},
                UNCHANGED <<threadKind, unread, invalid, threadOpen, threadOpens, threadJoined,
                            restore, got, outbox, threadMarks>>
         PROVE  ThreadSides'
    <2>1. [m |-> m, of |-> threadOpens, at |-> at] \in Thread!Jobs  BY <1>1, <1>10 DEF ThreadSides, Thread!Jobs
    <2>2. pending' \in [Mine -> Labels]  BY <1>10 DEF ThreadSides
    <2> QED  BY <1>10, <2>1, <2>2 DEF ThreadSides
  <1>11. ASSUME NEW m \in Mine, Thread!Submit(m) \/ Thread!Resend(m)  PROVE ThreadSides'
    BY <1>10, <1>11 DEF Thread!Submit, Thread!Resend, Thread!Failed
  <1>12. ASSUME NEW m \in Mine, Thread!GiveUp(m)  PROVE ThreadSides'
    <2>1. /\ pending' = [pending EXCEPT ![m] = "none"] /\ outbox' = outbox \ {m}
          /\ UNCHANGED <<threadKind, unread, invalid, threadOpen, threadOpens, threadJoined,
                         restore, got, threadJobs, threadMarks>>
      BY <1>12 DEF Thread!GiveUp
    <2>2. pending' \in [Mine -> Labels]  BY <2>1 DEF ThreadSides
    <2> QED  BY <2>1, <2>2 DEF ThreadSides
  <1>13. ASSUME NEW m \in Mine, Thread!Flush(m)  PROVE ThreadSides'
    <2>1. /\ outbox' \in {outbox \ {m}, outbox} /\ Thread!Store(m)
          /\ UNCHANGED <<threadKind, invalid, threadOpen, threadOpens, threadJoined,
                         restore, got, pending, threadJobs, threadMarks>>
      BY <1>13 DEF Thread!Flush
    <2> QED  BY <1>8, <2>1 DEF ThreadSides
  <1>14. ASSUME NEW j \in threadJobs, Thread!Enqueue(j)  PROVE ThreadSides'
    <2>1. j \in Thread!Jobs /\ j.m \in Mine  BY DEF ThreadSides, Thread!Jobs
    <2>2. UNCHANGED <<threadKind, unread, invalid, threadOpen, threadOpens, threadJoined,
                      restore, got, threadMarks>>
      BY <1>14 DEF Thread!Enqueue
    <2>3. CASE outbox' = outbox \cup {j.m} /\ Thread!Move(j, "send") /\ UNCHANGED pending
      BY <2>1, <2>2, <2>3, MovesTyped DEF ThreadSides
    <2>4. CASE threadJobs' = threadJobs \ {j} /\ Thread!Shows(j, "failed") /\ UNCHANGED outbox
      BY <2>1, <2>2, <2>4, ShowsTyped DEF ThreadSides
    <2> QED  BY <1>14, <2>3, <2>4 DEF Thread!Enqueue
  <1>15. ASSUME NEW j \in threadJobs, Thread!Send(j)  PROVE ThreadSides'
    <2>1. j \in Thread!Jobs  BY DEF ThreadSides
    <2>2. UNCHANGED <<threadKind, invalid, threadOpen, threadOpens, threadJoined,
                      restore, got, pending, outbox, threadMarks>>
      BY <1>15 DEF Thread!Send
    <2>3. unread' \in BOOLEAN  BY <1>8, <1>15 DEF Thread!Send, ThreadSides
    <2>4. threadJobs' \in SUBSET Thread!Jobs  BY <1>15, <2>1, MovesTyped DEF Thread!Send, ThreadSides
    <2> QED  BY <2>2, <2>3, <2>4 DEF ThreadSides
  <1>16. ASSUME NEW j \in threadJobs, Thread!Delivered(j) \/ Thread!Undelivered(j)  PROVE ThreadSides'
    <2>1. j \in Thread!Jobs  BY DEF ThreadSides
    <2>2. /\ UNCHANGED <<threadKind, unread, threadOpen, threadOpens, threadJoined, restore, got, threadMarks>>
          /\ outbox' \subseteq outbox /\ threadJobs' = threadJobs \ {j} /\ invalid' \in {TRUE, invalid}
          /\ Thread!Shows(j, "sent") \/ Thread!Shows(j, "failed")
      BY <1>16 DEF Thread!Delivered, Thread!Undelivered, Thread!Invalidate
    <2>3. pending' \in [Mine -> Labels]  BY <2>1, <2>2, ShowsTyped DEF ThreadSides
    <2> QED  BY <2>2, <2>3 DEF ThreadSides
  <1>17. CASE UNCHANGED Thread!vars  BY <1>17 DEF Thread!vars, ThreadSides
  <1> QED
    BY <1>2, <1>3, <1>4, <1>5, <1>6, <1>7, <1>9, <1>11, <1>12, <1>13, <1>14, <1>15, <1>16, <1>17, <1>a
    DEF Thread!Next

\* The types of the thread's state.
LEMMA ThreadTyped == ThreadInv /\ ThreadSides => Thread!ThreadTypeOK
  BY DEF ThreadInv, ThreadTypeInv, ThreadSides, Thread!ThreadTypeOK, Thread!IsInjective

\* The first state of the thread.
LEMMA ThreadSidesBegin == Thread!ChatThreadAssumption /\ Thread!Init => ThreadSides
  <1> SUFFICES ASSUME Thread!ChatThreadAssumption, Thread!Init  PROVE ThreadSides
    OBVIOUS
  <1>1. MaxVisits \in Nat  BY DEF Thread!ChatThreadAssumption
  <1>2. /\ threadKind \in ChatKinds /\ threadOpen = FALSE /\ threadJoined = FALSE /\ threadOpens = 0
        /\ unread = FALSE /\ invalid = FALSE
        /\ pending = [m \in Mine |-> "none"] /\ outbox = {} /\ got = {} /\ restore = "done"
        /\ threadJobs = {} /\ threadMarks = {}
    BY DEF Thread!Init
  <1>3. pending \in [Mine -> {"none", "sending", "sent", "failed"}]  BY <1>2
  <1>4. threadOpens \in 0..MaxVisits  BY <1>1, <1>2
  <1> QED  BY <1>2, <1>3, <1>4 DEF ThreadSides

-----------------------------------------------------------------------------
(* The types of the screens *)

\* What the seven screens keep, and that there are no others.
ScreensInv ==
    /\ screen \in {"feed", "deck", "thread", "badge", "photos", "presence", "search"}
    /\ FeedInv /\ DeckInv /\ ThreadInv /\ JobsInv /\ ThreadSides /\ BadgeInv /\ PhotosInv /\ PresenceInv
    /\ FetchInv /\ FetchSides

\* It holds at first.
LEMMA ScreensBegin == ScreensInit => ScreensInv
  <1> SUFFICES ASSUME ScreensInit  PROVE ScreensInv
    OBVIOUS
  <1>1. Feed!Init /\ Deck!Init /\ Thread!Init /\ Badge!Init /\ Photos!Init /\ Fetch!Init /\ Init
    BY DEF ScreensInit
  <1>2. FeedInv /\ DeckInv /\ BadgeInv /\ PhotosInv
    BY <1>1, ScreensConstants, FeedBegins, DeckBegins, BadgeBegins, PhotosBegin
  <1>3. ThreadInv /\ JobsInv /\ ThreadSides
    BY <1>1, ScreensConstants, ThreadBegins, ThreadSidesBegin DEF Thread!Init, JobsInv
  <1>4. PresenceInv  BY <1>1, PresenceBegins
  <1>5. FetchInv /\ FetchSides
    BY <1>1, ScreensConstants, FetchBegins, SidesBegin
  <1> QED  BY <1>2, <1>3, <1>4, <1>5 DEF ScreensInv, ScreensInit

\* A step of the screens is one of the presence, or leaves it alone.
LEMMA PresenceStep ==
    ASSUME [ScreensNext]_screensVars
    PROVE  [Next]_vars /\ UNCHANGED screen
  BY DEF ScreensNext, screensVars

\* Each step keeps it.
LEMMA ScreensKept ==
    ASSUME ScreensInv, [ScreensNext]_screensVars
    PROVE  ScreensInv'
  <1> USE ScreensConstants
  <1>1. FeedInv'
    <2>1. [Feed!Next]_(Feed!vars)  BY FeedStep
    <2> QED  BY <2>1, FeedKept, FeedStays DEF ScreensInv
  <1>2. DeckInv'  BY DeckStep, DeckKept DEF ScreensInv
  <1>3. BadgeInv'  BY BadgeStep, BadgeKept DEF ScreensInv
  <1>4. PhotosInv'  BY PhotosStep, PhotosStay DEF ScreensInv
  <1>5. ThreadInv' /\ JobsInv' /\ ThreadSides'
    <2>1. [Thread!Next]_(Thread!vars) /\ ThreadInv /\ JobsInv /\ ThreadSides  BY ThreadStep DEF ScreensInv
    <2>2. ThreadInv' /\ JobsInv'  BY <2>1, ThreadKept, JobsKept
    <2>3. ThreadSides'  BY <2>1, ThreadSidesKept
    <2> QED  BY <2>2, <2>3
  <1>6. PresenceInv' /\ UNCHANGED screen  BY PresenceStep, PresenceKept DEF ScreensInv
  <1>7. FetchInv'  BY FetchStep, FetchKept DEF ScreensInv
  <1>8. FetchSides'  BY FetchStep, SidesKept DEF ScreensInv
  <1> QED  BY <1>1, <1>2, <1>3, <1>4, <1>5, <1>6, <1>7, <1>8 DEF ScreensInv

\* It says what the types of the screens are.
LEMMA ScreensTyped == ScreensInv => ScreensTypeOK
  <1> SUFFICES ASSUME ScreensInv  PROVE ScreensTypeOK
    OBVIOUS
  <1>1. Feed!FeedTypeOK  BY FeedTypes DEF ScreensInv
  <1>2. Deck!DeckTypeOK  BY ScreensConstants, DeckTypes DEF ScreensInv
  <1>3. Thread!ThreadTypeOK  BY ThreadTyped DEF ScreensInv
  <1>4. Badge!BadgeTypeOK  BY DEF ScreensInv, BadgeInv
  <1>5. Photos!PhotosTypeOK  BY ScreensConstants, PhotosTypes DEF ScreensInv
  <1>6. ControllerTypeOK  BY DEF ScreensInv, PresenceInv
  <1>7. Fetch!RssTypeOK  BY ScreensConstants, LoadsTyped DEF ScreensInv
  <1> QED  BY <1>1, <1>2, <1>3, <1>4, <1>5, <1>6, <1>7 DEF ScreensInv, ScreensTypeOK

\* Every screen's state is of its type: what a load of the public feeds awaits
\* or joins is under way, an open conversation alone fetches its thread, and a
\* photo operation knows the objects it has in hand.
THEOREM ScreenTypes == ScreensSpec => []ScreensTypeOK
  <1> QED  BY ScreensBegin, ScreensKept, ScreensTyped, PTL DEF ScreensSpec
=============================================================================
