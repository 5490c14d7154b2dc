---------------------------- MODULE ProfileForms ----------------------------
(* The own profile in two cached queries, settings (SettingsScreen.tsx, of   *)
(* which only the matching mode is shown) and current (the visibility and    *)
(* edit screens), and the mutations over them: the optimistic switches of    *)
(* the matching mode and of a visibility, the forms that save and then       *)
(* invalidate, and the activation in the hub of an event.  A form may send   *)
(* any value: how its fields are filled and validated is left out.           *)
EXTENDS Naturals, FiniteSets, QueryCache

CONSTANTS Slots,     \* mutations under way
          MaxTaps,   \* bound: mutations
          MaxLoads   \* bound: fetches that a screen starts

\* What the constants are.
ProfileFormsAssumption == MaxTaps \in Nat /\ MaxLoads \in Nat /\ Slots # {}

VARIABLES row,       \* the user's row of public.profiles
          cache,     \* the two queries
          invalid,   \* the queries with isInvalidated
          open,      \* the queries that a mounted screen shows
          job,       \* the mutations
          missed,    \* history: the queries that the code may leave behind unmarked
          taps, loads
vars == <<row, cache, invalid, open, job, missed, taps, loads>>

\* matching: the matching mode; age: whether the age is shown; text: the name,
\* the biography; interests: the photos and interests.
Profiles == [matching : BOOLEAN, age : BOOLEAN, text : BOOLEAN, interests : BOOLEAN]
Blank    == [matching |-> FALSE, age |-> FALSE, text |-> FALSE, interests |-> FALSE]
Kinds    == {"matching", "age", "text", "interests", "both", "hub"}
Forms    == {"text", "interests", "both"}
Pages    == {"settings", "current"}

\* What the screens of the query q show of the profile p.
View(q, p) == IF q = "settings" THEN [Blank EXCEPT !.matching = p.matching] ELSE p

\* had: the value to roll back to, when back; here: its screen is mounted.
NoJob == [kind |-> "none", at |-> "idle", value |-> FALSE, had |-> FALSE,
          back |-> FALSE, here |-> FALSE]

FormsTypeOK ==
    /\ row \in Profiles /\ cache \in [Pages -> Queries(Profiles)]
    /\ invalid \subseteq Pages /\ open \subseteq Pages /\ missed \subseteq Pages
    /\ \A s \in Slots :
          /\ job[s].kind \in Kinds \cup {"none"} /\ job[s].at \in {"idle", "sent", "half", "done", "late"}
          /\ job[s].at = "idle" <=> job[s] = NoJob
    /\ taps \in 0..MaxTaps /\ loads \in 0..MaxLoads

Init ==
    /\ row = Blank
    /\ cache = [q \in Pages |-> Unloaded(Blank)]
    /\ invalid = {} /\ open = {} /\ missed = {}
    /\ job = [s \in Slots |-> NoJob]
    /\ taps = 0 /\ loads = 0

-----------------------------------------------------------------------------
(* The screens and their queries *)

\* A screen is mounted, focused or connected again: it fetches, unless its data
\* are fresh (staleTime) or a fetch is under way.
Open(q) ==
    /\ open' = open \cup {q}
    /\ \/ /\ loads < MaxLoads /\ loads' = loads + 1
          /\ cache[q].fetch = "idle"
          /\ cache' = [cache EXCEPT ![q].fetch = "sent"]
       \/ /\ q \notin open
          /\ cache[q].fetch # "idle" \/ (q \notin invalid /\ cache[q].loaded)
          /\ UNCHANGED <<cache, loads>>
    /\ UNCHANGED <<row, invalid, job, missed, taps>>

\* It is closed.  getProfile takes no signal: its fetch goes on, and so does a
\* mutation, which a screen mounted later does not know of.
Close(q) ==
    /\ q \in open
    /\ open' = open \ {q}
    /\ LET kind == IF q = "settings" THEN "matching" ELSE "age"
       IN job' = [s \in Slots |-> IF job[s].kind = kind
                                  THEN [job[s] EXCEPT !.here = FALSE] ELSE job[s]]
    /\ UNCHANGED <<row, cache, invalid, missed, taps, loads>>

\* getProfile reads the row; of the own profile it goes on with none of the
\* photos and interests when it cannot read them.
Serve(q) ==
    /\ cache[q].fetch = "sent"
    /\ \E interests \in {row.interests, FALSE} :
          LET read == View(q, [row EXCEPT !.interests = interests]) IN
          /\ cache' = [cache EXCEPT ![q] = Served(@, read)]
          /\ missed' = IF read = View(q, row) THEN missed ELSE missed \cup {q}
    /\ UNCHANGED <<row, invalid, open, job, taps, loads>>

\* The answer arrives: the data are no longer invalid, as old as they may be.
Arrive(q) ==
    /\ cache[q].fetch = "served"
    /\ cache' = [cache EXCEPT ![q] = Arrived(@, Blank)]
    /\ invalid' = invalid \ {q}
    /\ missed' = IF cache[q].got = View(q, row) THEN missed \ {q} ELSE missed
    /\ UNCHANGED <<row, open, job, taps, loads>>

\* It fails: the data, and their mark, stay.
FailFetch(q) ==
    /\ cache[q].fetch # "idle"
    /\ cache' = [cache EXCEPT ![q] = Cancelled(@, Blank)]
    /\ UNCHANGED <<row, invalid, open, job, missed, taps, loads>>

-----------------------------------------------------------------------------
(* The mutations *)

\* What the call that the mutation j waits for changes.
Field(j) ==
    CASE j.kind = "hub"                     -> "matching"
      [] j.kind = "both" /\ j.at = "sent"   -> "text"
      [] j.kind = "both" /\ j.at # "sent"   -> "interests"
      [] OTHER                              -> j.kind

\* The query q shows, or is about to show, another value of the field f than v.
Behind(c, q, f, v) ==
    \/ c[q].loaded /\ c[q].data[f] # v
    \/ c[q].fetch = "served" /\ c[q].got[f] # v

\* setQueryData: it also clears the mark of the query.
Write(c, q, f, v) == [c EXCEPT ![q] = Updated(@, [@.data EXCEPT ![f] = v])]
Clears(q) == IF cache[q].loaded THEN invalid \cap {q} ELSE {}

\* The mutation starts in an idle slot.
Begin(s, j) ==
    /\ job[s].at = "idle" /\ taps < MaxTaps
    /\ job' = [job EXCEPT ![s] = j]
    /\ taps' = taps + 1
    /\ UNCHANGED <<row, open, loads>>

Busy(kind) == \E s \in Slots : job[s].kind = kind /\ job[s].here

\* SettingsScreen, onMutate: the new mode is shown at once; a running fetch
\* is not cancelled.
ToggleMatching(s) ==
    LET shown == cache["settings"] IN
    /\ "settings" \in open /\ ~Joins(shown) /\ ~Busy("matching")
    /\ Begin(s, [kind |-> "matching", at |-> "sent", value |-> ~shown.data.matching,
                 had |-> shown.data.matching, back |-> shown.loaded, here |-> TRUE])
    /\ cache' = Write(cache, "settings", "matching", ~shown.data.matching)
    /\ invalid' = invalid \ Clears("settings")
    /\ missed' = missed \cup Clears("settings")

\* useVisibilityMutation, onMutate: the running fetch is cancelled first.
ToggleAge(s) ==
    LET shown == cache["current"] IN
    /\ "current" \in open /\ shown.loaded /\ ~Busy("age")
    /\ Begin(s, [kind |-> "age", at |-> "sent", value |-> ~shown.data.age,
                 had |-> shown.data.age, back |-> TRUE, here |-> TRUE])
    /\ cache' = Write([cache EXCEPT !["current"] = Cancelled(@, Blank)],
                      "current", "age", ~shown.data.age)
    /\ invalid' = invalid \ Clears("current")
    /\ missed' = missed \cup Clears("current")

\* A form over current is saved: the profile, the interests, or both in turn
\* (MatchProfileEditScreen).
SaveForm(s, kind) ==
    /\ "current" \in open /\ cache["current"].loaded
    /\ \E v \in BOOLEAN :
          Begin(s, [NoJob EXCEPT !.kind = kind, !.at = "sent", !.value = v])
    /\ UNCHANGED <<cache, invalid, missed>>

\* The matching mode is activated in the hub of an event.
Activate(s) ==
    /\ Begin(s, [NoJob EXCEPT !.kind = "hub", !.at = "sent", !.value = TRUE])
    /\ UNCHANGED <<cache, invalid, missed>>

\* The server applies the call.  Nothing will invalidate what a visibility, a
\* hub's activation and a call that was given up change.
Apply(s) ==
    LET j == job[s]
        f == Field(j)
    IN  /\ j.at \in {"sent", "half", "late"}
        /\ row' = [row EXCEPT ![f] = j.value]
        /\ job' = [job EXCEPT ![s] = IF j.at = "late" THEN NoJob
                                     ELSE [j EXCEPT !.at = IF f = "text" /\ j.kind = "both"
                                                           THEN "half" ELSE "done"]]
        /\ missed' = missed \cup
              {q \in Pages : /\ j.at = "late" \/ j.kind \in {"age", "hub"}
                             /\ q = "current" \/ f = "matching"
                             /\ Behind(cache, q, f, j.value)}
        /\ UNCHANGED <<cache, invalid, open, taps, loads>>

\* Mutant: the screens over current are forgotten.
StalesSettings(kind, ok) ==
    CASE kind = "matching"    -> {"settings"}
      [] kind \in Forms /\ ok -> {"current"}
      [] OTHER                -> {}

\* The queries that a settled mutation invalidates.
Stales(kind, ok) ==
    CASE kind = "matching"    -> Pages
      [] kind \in Forms /\ ok -> {"current"}
      [] OTHER                -> {}

\* invalidateQueries of qs: the shown ones fetch again; for a closed one, and
\* for a first fetch, the answer of an earlier read may clear the mark.
Invalidate(qs, c) ==
    /\ invalid' = invalid \cup qs
    /\ cache' = [q \in Pages |-> IF q \in qs \cap open THEN Refetched(c[q]) ELSE c[q]]
    /\ missed' = missed \cup {q \in qs : /\ q \notin open \/ Joins(c[q])
                                         /\ c[q].fetch = "served" /\ c[q].got # View(q, row)}

\* The call succeeded.
Succeed(s) ==
    /\ job[s].at = "done"
    /\ job' = [job EXCEPT ![s] = NoJob]
    /\ Invalidate(Stales(job[s].kind, TRUE), cache)
    /\ UNCHANGED <<row, open, taps, loads>>

\* A call failed, or its answer was lost, and the server may still apply it.
\* A switch is rolled back; what a failed form has stored stays unknown.
Fail(s) ==
    LET j == job[s]
        c == CASE j.kind = "matching" /\ j.back -> Write(cache, "settings", "matching", j.had)
               [] j.kind = "age" -> Write(cache, "current", "age", j.had)
               [] OTHER          -> cache
        late == [NoJob EXCEPT !.kind = Field(j), !.at = "late", !.value = j.value]
    IN  /\ \/ j.at \in {"sent", "half", "done"} /\ job' = [job EXCEPT ![s] = NoJob]
           \/ j.at \in {"sent", "half"} /\ job' = [job EXCEPT ![s] = late]
        /\ IF j.kind = "matching"
           THEN Invalidate(Stales(j.kind, FALSE), c)
           ELSE /\ cache' = c
                /\ invalid' = IF j.kind = "age" THEN invalid \ Clears("current") ELSE invalid
                /\ missed' = missed \cup {q \in {"current"} :
                      \/ \E f \in {"age", "text", "interests"} : Behind(c, q, f, row[f])
                      \/ j.kind = "age" /\ q \in invalid}
        /\ UNCHANGED <<row, open, taps, loads>>

Next ==
    \/ \E q \in Pages : Open(q) \/ Close(q) \/ Serve(q) \/ Arrive(q) \/ FailFetch(q)
    \/ \E s \in Slots : \/ ToggleMatching(s) \/ ToggleAge(s) \/ Activate(s)
                        \/ \E kind \in Forms : SaveForm(s, kind)
                        \/ Apply(s) \/ Succeed(s) \/ Fail(s)

Spec == Init /\ [][Next]_vars

-----------------------------------------------------------------------------
(* Properties *)

\* Once every switch and form is answered and no fetch is under way, a screen
\* shows the stored profile, unless its data are marked invalid or the code has
\* no way to know (missed): the optimistic values, their roll-backs and the
\* fetches that overlap them cancel out.
ShownIsStored ==
    \A q \in Pages :
        /\ \A s \in Slots : job[s].at \in {"idle", "late"}
        /\ cache[q].fetch = "idle" /\ cache[q].loaded
        /\ q \notin invalid \cup missed
        => cache[q].data = View(q, row)
=============================================================================
