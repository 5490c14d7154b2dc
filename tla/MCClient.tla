------------------------------ MODULE MCClient ------------------------------
(* The phone, one part at a time: "session" is the session store with the    *)
(* push registration, "reports" the session store with more changes of the   *)
(* account that come in any order, recoveries and loads, without the push    *)
(* registration; "registration" is the making of an account, "navigation"    *)
(* the screen that a tapped notification opens, "settings" the own profile.  *)
EXTENDS ClientSession, TLC

CONSTANTS Emails, Old, Reviews, MaxSets, MaxCreates,   \* the registration's
          Taps, MaxPhases,                    \* the navigation's
          Slots, MaxTaps, MaxLoads            \* the settings'

VARIABLES mode,
    screen, reviewing, draft, session, disk, create, final, account, shown, mails, latest, used,
    navPhase, rendered, ready, last, pendingRoute, handled, opened, early, phases,
    row, cache, invalid, visible, mutation, missed, taps, loads

wizardVars     == <<screen, reviewing, draft, session, disk, create, final, account, shown, mails,
                    latest, used>>
navigationVars == <<navPhase, rendered, ready, last, pendingRoute, handled, opened, early, phases>>
settingsVars   == <<row, cache, invalid, visible, mutation, missed, taps, loads>>

Wizard     == INSTANCE Registration
Routes     == INSTANCE Navigation WITH phase <- navPhase
Own        == INSTANCE ProfileForms WITH open <- visible, job <- mutation

ASSUME ClientConstants ==
    Wizard!RegistrationAssumption /\ Routes!NavigationAssumption /\ Own!ProfileFormsAssumption

ClientInit ==
    /\ mode \in {"session", "reports", "registration", "navigation", "settings"}
    /\ Init /\ Wizard!Init /\ Routes!Init /\ Own!Init
    /\ mode # "navigation" => last = None

ClientNext ==
    /\ UNCHANGED mode
    /\ \/ mode \in {"session", "reports"} /\ Next /\ UNCHANGED <<wizardVars, navigationVars, settingsVars>>
       \/ mode = "registration" /\ Wizard!Next /\ UNCHANGED <<vars, navigationVars, settingsVars>>
       \/ mode = "navigation" /\ Routes!Next /\ UNCHANGED <<vars, wizardVars, settingsVars>>
       \/ mode = "settings" /\ Own!Next /\ UNCHANGED <<vars, wizardVars, navigationVars>>

ClientSpec ==
    ClientInit /\ [][ClientNext]_<<mode, vars, wizardVars, navigationVars, settingsVars>>

\* The bounds of the run on "session": two changes of the account, an event
\* before the second, with both either an event or a death, no recovery and no
\* load, and of two calls that run at once those that touch the registration.
Together == {<<"register", "set">>, <<"set", "register">>, <<"register", "loss">>,
             <<"register", "register">>, <<"deny", "set">>, <<"deny", "loss">>, <<"out", "loss">>}
PushBounds ==
    /\ budget'.auth <= 2
    /\ budget'.auth = 2 => budget'.event = budget.event /\ budget'.event + budget'.kill <= 1
    /\ phase' # "recovery" /\ load' = None
    /\ \A c \in Calls : calls[c] = Idle /\ calls'[c] # Idle =>
          \A d \in Calls \ {c} : calls[d] # Idle => <<calls[d].op, calls'[c].op>> \in Together

\* The bounds of the run on "reports": no registration, and a change less with
\* a death.
ReportBounds ==
    /\ Running({"register"})' = {} /\ budget'.event = 0
    /\ budget'.auth + budget'.kill <= MaxAuth

\* The bounds of the run on "registration": a mount is used again before another
\* is, while two creations run nobody signs in and the wizard is not left, and
\* nothing goes on when all creations were begun and no account is left whose
\* photos could be forgotten.
Busy  == {r \in Reviews : create[r].at # "idle"}
First == CHOOSE r \in Reviews : TRUE
WizardBounds ==
    /\ Busy' \ Busy # {} => First \in Busy'
    /\ Busy = Reviews /\ Busy' = Busy => session' = session /\ screen' = screen
    /\ \/ Busy = Reviews \/ used.creates < MaxCreates \/ latest # Wizard!NoRecord
       \/ \E r \in Reviews : create[r].alone

BoundedNext ==
    /\ ClientNext
    /\ mode = "session"      => PushBounds
    /\ mode = "reports"      => ReportBounds
    /\ mode = "registration" => WizardBounds

BoundedSpec ==
    ClientInit /\ [][BoundedNext]_<<mode, vars, wizardVars, navigationVars, settingsVars>>

\* Nothing orders the accounts, the tokens or the slots of the calls.
SessionSymmetry ==
    Permutations(Users) \cup Permutations(Tokens) \cup Permutations(Calls)

-----------------------------------------------------------------------------
(* Properties: those of the four modules *)

\* The types of the stores, the calls and the screens.
ClientTypeOK ==
    /\ SessionTypeOK /\ Wizard!RegistrationTypeOK /\ Routes!NavigationTypeOK
    /\ Own!FormsTypeOK

\* The photos of a new account wait until its profile shows some.
RegistrationKept == Wizard!RegistrationKept

\* A tapped notification opens its screen once.
OpensOnce == Routes!OpensOnce

\* The settings show the stored profile once their switches and forms are answered.
ShownIsStored == Own!ShownIsStored
=============================================================================
