----------------------------- MODULE Navigation -----------------------------
(* The screen that a tapped notification opens: useNotificationNavigation    *)
(* under RootNavigator.tsx.  React runs the effects of a changed phase some  *)
(* time after the change (Effects); until then the listener is the one of    *)
(* the phase before.  The container is ready only after it has asked the     *)
(* system for the link that started the app, which is not React's doing.     *)
EXTENDS Naturals

CONSTANTS Taps,       \* responses: notifications that the user taps
          None,       \* no response
          MaxPhases   \* bound: changes of the phase

\* What the constants are.
NavigationAssumption == None \notin Taps /\ MaxPhases \in Nat

VARIABLES phase,      \* the session store's
          rendered,   \* the phase whose effects have run
          ready,      \* navigationRef.isReady()
          last,       \* getLastNotificationResponse()
          pendingRoute, handled,   \* the refs of the hook
          opened,     \* history: how often each response has opened its screen
          early,      \* history: the responses that found the container not ready
          phases      \* counter of the bound
vars == <<phase, rendered, ready, last, pendingRoute, handled, opened, early, phases>>

Phases == {"booting", "signedOut", "recovery", "signedIn"}

NavigationTypeOK ==
    /\ phase \in Phases /\ rendered \in Phases \cup {None}
    /\ ready \in BOOLEAN /\ last \in Taps \cup {None}
    /\ pendingRoute \in Taps \cup {None} /\ handled \subseteq Taps
    /\ opened \in [Taps -> 0..2] /\ early \subseteq Taps /\ phases \in 0..MaxPhases

\* The process starts, perhaps for a tap.
Init ==
    /\ phase = "booting" /\ rendered = None /\ ready = FALSE
    /\ last \in Taps \cup {None}
    /\ pendingRoute = None /\ handled = {}
    /\ opened = [t \in Taps |-> 0] /\ early = {} /\ phases = 0

\* The phase of the session store changes; booting shows the splash screen,
\* without a container.
Change ==
    /\ phases < MaxPhases /\ phases' = phases + 1
    /\ phase' \in Phases \ {"booting", phase}
    /\ UNCHANGED <<rendered, ready, last, pendingRoute, handled, opened, early>>

\* The container has its initial state.
Ready ==
    /\ phase # "booting" /\ rendered \notin {None, "booting"} /\ ~ready
    /\ ready' = TRUE
    /\ UNCHANGED <<phase, rendered, last, pendingRoute, handled, opened, early, phases>>

-----------------------------------------------------------------------------
\* The state of the hook: what handleResponse does with t when the closure of
\* the listener says signedIn.
Now == [pending |-> pendingRoute, handled |-> handled, opened |-> opened, last |-> last,
        early |-> early]

\* navigateToNotification: without the tabs there is nothing to navigate to.
Navigated(h, t) ==
    [h EXCEPT !.opened[t] = IF phase = "signedIn" THEN @ + 1 ELSE @, !.last = None]

\* Mutant: the identifiers that were handled are not kept.
ResponseForgotten(h, t, signedIn) ==
    IF signedIn /\ ready THEN Navigated(h, t)
    ELSE [h EXCEPT !.pending = t, !.early = IF signedIn THEN @ \cup {t} ELSE @]

Response(h, t, signedIn) ==
    IF t \in h.handled THEN h
    ELSE IF signedIn /\ ready THEN Navigated([h EXCEPT !.handled = @ \cup {t}], t)
    ELSE [h EXCEPT !.handled = @ \cup {t}, !.pending = t,
                   !.early = IF signedIn THEN @ \cup {t} ELSE @]

Became(h) ==
    /\ pendingRoute' = h.pending /\ handled' = h.handled /\ opened' = h.opened
    /\ last' = h.last /\ early' = h.early

\* The system keeps the response and tells the listener that is registered.
Tap(t) ==
    /\ rendered # None /\ t \notin handled /\ t # last
    /\ Became(Response([Now EXCEPT !.last = t], t, rendered = "signedIn"))
    /\ UNCHANGED <<phase, rendered, ready, phases>>

\* The listener is told of a response again.
TapAgain(t) ==
    /\ rendered # None /\ t = last
    /\ Became(Response(Now, t, rendered = "signedIn"))
    /\ UNCHANGED <<phase, rendered, ready, phases>>

\* Mutant: the second effect is missing.
PendingOpenedNever(h, signedIn) == h

\* The second effect: the route that waited for the sign-in.
PendingOpened(h, signedIn) ==
    IF ~signedIn \/ h.pending = None THEN h
    ELSE IF ~ready THEN [h EXCEPT !.early = @ \cup {h.pending}]
    ELSE Navigated([h EXCEPT !.pending = None], h.pending)

\* The effects of a render in which signedIn has changed, or of the first: the
\* listener is renewed and is given the last response, then the second effect.
Effects ==
    /\ rendered # phase
    /\ rendered' = phase
    /\ IF rendered # None /\ (rendered = "signedIn") = (phase = "signedIn")
       THEN UNCHANGED <<pendingRoute, handled, opened, last, early>>
       ELSE LET signedIn == phase = "signedIn"
                told     == IF last = None THEN Now ELSE Response(Now, last, signedIn)
            IN  Became(PendingOpened(told, signedIn))
    /\ UNCHANGED <<phase, ready, phases>>

Next ==
    \/ Change \/ Ready \/ Effects
    \/ \E t \in Taps : Tap(t) \/ TapAgain(t)

Spec == Init /\ [][Next]_vars

-----------------------------------------------------------------------------
(* Properties *)

\* A tapped notification opens its screen once, although the system reports it
\* to every listener and again as the last response, and a route that waits in
\* an app that is signed in is one that came before the container was ready.
OpensOnce ==
    /\ \A t \in Taps : opened[t] <= 1
    /\ rendered = "signedIn" /\ phase = "signedIn" /\ pendingRoute # None => pendingRoute \in early

\* Stated by docs/device-matrix.md:27: the route of a tap that started the app
\* is applied when the navigation is ready.
AppliedWhenReady ==
    (rendered = "signedIn" /\ phase = "signedIn" /\ ready) => pendingRoute = None
=============================================================================
