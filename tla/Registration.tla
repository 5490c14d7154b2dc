---------------------------- MODULE Registration ----------------------------
(* The registration of an account on one phone: the wizard with its draft    *)
(* (SignUp*Screen.tsx, registrationDraftStore.ts), the two records in the    *)
(* keychain, the creation of the account, the link of the e-mail, and the    *)
(* finalization that brings the photos to the new profile once a session     *)
(* starts (registrationService.ts, sessionStore.ts).  A set of at least      *)
(* three photos is a number, and 0 is fewer; memory is lost with the process.*)
EXTENDS Naturals

CONSTANTS Emails,      \* the addresses used on this phone
          Old,         \* those that have an account from before
          Reviews,     \* calls of createAccount, one of each mount of the last screen
          None,        \* no address, no call
          MaxSets,     \* bound: sets of photos chosen
          MaxCreates,  \* bound: creations begun
          MaxEvents    \* bound: deaths of the process, repeated reports of a session

\* What the constants are.
RegistrationAssumption ==
    /\ Old \subseteq Emails /\ None \notin Emails \cup Reviews
    /\ {MaxSets, MaxCreates, MaxEvents} \subseteq Nat

VARIABLES screen,     \* the route on top of the auth stack, or "app"
          draft,      \* useRegistrationDraftStore
          session,    \* the account that is signed in
          disk,       \* registration.pending-profile, registration.pending-verification
          reviewing,  \* the call begun on the last screen that is shown
          create,     \* createAccount, of every mount
          final,      \* finalizePendingRegistration
          account,    \* the auth server
          shown,      \* the photos of each profile
          mails,      \* the links that are open
          latest,     \* history: the last account created, until another is begun
          used        \* counters of the bounds

wizardVars == <<screen, reviewing, draft>>
serverVars == <<account, shown, mails>>
vars == <<wizardVars, session, disk, create, final, serverVars, latest, used>>

NoDraft  == [email |-> None, basics |-> FALSE, details |-> FALSE, photos |-> 0, submitted |-> FALSE]
NoRecord == [email |-> None, photos |-> 0]
NoCall   == [at |-> "idle", pending |-> NoRecord]
NoCreate == [at |-> "idle", email |-> None, photos |-> 0, alone |-> FALSE]

Steps == <<"SignUp", "SignUpProfile", "SignUpInterests", "SignUpPhotos", "SignUpReview">>

RegistrationTypeOK ==
    /\ screen \in {"Welcome", "SignIn", "EmailSent", "app"} \cup {Steps[i] : i \in 1..5}
    /\ draft \in [email : Emails \cup {None}, basics : BOOLEAN, details : BOOLEAN,
                  photos : 0..MaxSets, submitted : BOOLEAN]
    /\ session \in Emails \cup {None}
    /\ disk \in [profile : [email : Emails \cup {None}, photos : 0..MaxSets],
                 verify : Emails \cup {None}]
    /\ \A r \in Reviews :
          create[r].at \in {"idle", "username", "profile", "verify", "signup", "ok", "catch"}
    /\ reviewing \in Reviews \cup {None}
    /\ final.at \in {"idle", "read", "user", "upload", "done"}
    /\ account \in [Emails -> {"none", "unverified", "verified"}]
    /\ shown \in [Emails -> 0..MaxSets] /\ mails \subseteq Emails

Init ==
    /\ screen = "Welcome" /\ draft = NoDraft /\ session = None
    /\ disk = [profile |-> NoRecord, verify |-> None]
    /\ create = [r \in Reviews |-> NoCreate] /\ reviewing = None /\ final = NoCall
    /\ account = [e \in Emails |-> IF e \in Old THEN "verified" ELSE "none"]
    /\ shown = [e \in Emails |-> 0] /\ mails = {}
    /\ latest = NoRecord
    /\ used = [sets |-> 0, creates |-> 0, events |-> 0]

Spend(kind, max) == used[kind] < max /\ used' = [used EXCEPT ![kind] = @ + 1]

-----------------------------------------------------------------------------
(* The wizard.  Its screens can be left while an account is being created.   *)

\* A change of the wizard under a creation that runs, a second creation, the
\* start of another account's session: history follows the creation no further.
Touched == [r \in Reviews |-> [create[r] EXCEPT !.alone = FALSE]]

\* setCredentials keeps everything else that is in the draft.
SubmitCredentials(e) ==
    /\ screen = "SignUp"
    /\ draft' = [draft EXCEPT !.email = e]
    /\ screen' = "SignUpProfile"
    /\ create' = Touched
    /\ latest' = IF e = latest.email THEN latest ELSE NoRecord
    /\ UNCHANGED <<reviewing, session, disk, final, serverVars, used>>

\* The user name is free.
SubmitProfile ==
    /\ screen = "SignUpProfile"
    /\ draft' = [draft EXCEPT !.basics = TRUE]
    /\ screen' = "SignUpInterests"
    /\ UNCHANGED <<reviewing, session, disk, create, final, serverVars, latest, used>>

SubmitInterests ==
    /\ screen = "SignUpInterests"
    /\ draft' = [draft EXCEPT !.details = TRUE]
    /\ screen' = "SignUpPhotos"
    /\ UNCHANGED <<reviewing, session, disk, create, final, serverVars, latest, used>>

\* updatePhotos writes every change of the screen into the draft.
ChoosePhotos ==
    /\ screen = "SignUpPhotos"
    /\ \/ Spend("sets", MaxSets) /\ draft' = [draft EXCEPT !.photos = used'.sets]
       \/ draft' = [draft EXCEPT !.photos = 0] /\ draft.photos # 0 /\ UNCHANGED used
    /\ create' = Touched
    /\ UNCHANGED <<screen, reviewing, session, disk, final, serverVars, latest>>

ToReview ==
    /\ screen = "SignUpPhotos" /\ draft.photos # 0
    /\ screen' = "SignUpReview"
    /\ UNCHANGED <<reviewing, draft, session, disk, create, final, serverVars, latest, used>>

\* goBack of the wizard and of SignIn, goHome of EmailSent, the links between
\* the first screens.
Navigate ==
    /\ \/ \E i \in 2..5 : screen = Steps[i] /\ screen' = Steps[i - 1]
       \/ screen \in {"SignUp", "SignIn", "EmailSent"} /\ screen' = "Welcome"
       \/ screen = "Welcome" /\ screen' \in {"SignUp", "SignIn"}
    /\ reviewing' = None
    /\ UNCHANGED <<draft, session, disk, create, final, serverVars, latest, used>>

-----------------------------------------------------------------------------
(* createAccount.  A screen begins one call at a time, but the user may go   *)
(* back and come again while it runs.                                        *)

\* The account's address is the one the screen was rendered with.
Create(r) ==
    /\ screen = "SignUpReview" /\ reviewing = None /\ create[r].at = "idle"
    /\ draft.basics /\ draft.details /\ draft.photos # 0
    /\ Spend("creates", MaxCreates)
    /\ reviewing' = r
    /\ create' = [Touched EXCEPT ![r] =
                    [at |-> "username", email |-> draft.email, photos |-> draft.photos,
                     alone |-> final.at = "idle" /\ \A q \in Reviews : create[q].at = "idle"]]
    /\ latest' = NoRecord
    /\ UNCHANGED <<screen, draft, session, disk, final, serverVars>>

At(r, place)   == create[r].at = place
Goto(r, place) == [create EXCEPT ![r].at = place]

\* The user name is still free, or was taken, or nobody knows.
CreateChecked(r) ==
    /\ At(r, "username")
    /\ create' \in {Goto(r, "profile"), Goto(r, "catch")}
    /\ UNCHANGED <<wizardVars, session, disk, final, serverVars, latest, used>>

\* persistPendingRegistration reads the draft as it is now.
PersistProfile(r) ==
    /\ At(r, "profile")
    /\ disk' = [disk EXCEPT !.profile = [email |-> draft.email, photos |-> draft.photos]]
    /\ create' = Goto(r, "verify")
    /\ UNCHANGED <<wizardVars, session, final, serverVars, latest, used>>

PersistVerification(r) ==
    /\ At(r, "verify")
    /\ disk' = [disk EXCEPT !.verify = create[r].email]
    /\ create' = Goto(r, "signup")
    /\ UNCHANGED <<wizardVars, session, final, serverVars, latest, used>>

\* auth.signUp: an address that has an account is told no different, none is
\* refused.  The answer, or the whole request, may be lost.
SignUp(r) ==
    /\ At(r, "signup")
    /\ \/ LET e == create[r].email IN
          /\ e # None
          /\ account' = [account EXCEPT ![e] = IF @ = "none" THEN "unverified" ELSE @]
          /\ mails' = IF account[e] # "verified" THEN mails \cup {e} ELSE mails
          /\ create' \in {Goto(r, "ok"), Goto(r, "catch")}
       \/ create' = Goto(r, "catch") /\ UNCHANGED <<account, mails>>
    /\ UNCHANGED <<wizardVars, session, disk, final, shown, latest, used>>

Over(r) == /\ create' = [create EXCEPT ![r] = NoCreate]
           /\ reviewing' = IF reviewing = r THEN None ELSE reviewing

\* markSubmitted; the screen is replaced if it is still there.
Created(r) ==
    /\ At(r, "ok") /\ Over(r)
    /\ draft' = [draft EXCEPT !.submitted = TRUE]
    /\ screen' = IF reviewing = r THEN "EmailSent" ELSE screen
    /\ latest' = IF create[r].alone
                 THEN [email |-> create[r].email, photos |-> create[r].photos] ELSE latest
    /\ UNCHANGED <<session, disk, final, serverVars, used>>

\* Both records are cleared, whoever wrote them.
CreateFailed(r) ==
    /\ At(r, "catch") /\ Over(r)
    /\ disk' = [profile |-> NoRecord, verify |-> None]
    /\ UNCHANGED <<screen, draft, session, final, serverVars, latest, used>>

-----------------------------------------------------------------------------
(* Verification and session *)

\* setSession asks for the finalization; one that runs is joined.
Entered(e) ==
    /\ session' = e /\ screen' = "app" /\ reviewing' = None
    /\ create' = [r \in Reviews |-> [create[r] EXCEPT !.alone = @ /\ create[r].email = e]]
    /\ final' = IF final.at # "idle" THEN final
                ELSE [at |-> "read",
                      pending |-> IF draft.submitted
                                  THEN [email |-> draft.email, photos |-> draft.photos]
                                  ELSE NoRecord]

\* The link, opened on this phone, starts a session.
OpenLink(e) ==
    /\ e \in mails
    /\ mails' = mails \ {e} /\ account' = [account EXCEPT ![e] = "verified"]
    /\ Entered(e)
    /\ UNCHANGED <<draft, disk, shown, latest, used>>

\* Opened elsewhere it verifies the address only.
VerifyElsewhere(e) ==
    /\ e \in mails
    /\ mails' = mails \ {e} /\ account' = [account EXCEPT ![e] = "verified"]
    /\ UNCHANGED <<wizardVars, session, disk, create, final, shown, latest, used>>

SignIn(e) ==
    /\ screen = "SignIn" /\ session = None /\ account[e] = "verified"
    /\ Entered(e)
    /\ UNCHANGED <<draft, disk, serverVars, latest, used>>

\* Each refreshed token is a report of the session.
Reported ==
    /\ session # None /\ Spend("events", MaxEvents)
    /\ Entered(session)
    /\ UNCHANGED <<draft, disk, serverVars, latest>>

SignOut ==
    /\ session # None
    /\ session' = None /\ screen' = "Welcome"
    /\ UNCHANGED <<reviewing, draft, disk, create, final, serverVars, latest, used>>

\* resendSignUpEmail, from the screen that waits for the link.
Resend(e) ==
    /\ screen = "EmailSent" /\ account[e] = "unverified"
    /\ e \in {draft.email, disk.verify}
    /\ mails' = mails \cup {e}
    /\ UNCHANGED <<wizardVars, session, disk, create, final, account, shown, latest, used>>

\* The record of the verification is a day old: whoever reads it clears it.
VerificationExpires ==
    /\ disk.verify # None
    /\ disk' = [disk EXCEPT !.verify = None]
    /\ UNCHANGED <<wizardVars, session, create, final, serverVars, latest, used>>

\* The process dies and starts again: useAuthBootstrap reports the session
\* that is stored; without one the pending verification decides the screen.
Restart ==
    /\ Spend("events", MaxEvents)
    /\ draft' = NoDraft /\ reviewing' = None
    /\ create' = [r \in Reviews |-> NoCreate]
    /\ IF session = None
       THEN /\ screen' = IF disk.verify = None THEN "Welcome" ELSE "EmailSent"
            /\ final' = NoCall
       ELSE /\ screen' = "app"
            /\ final' = [at |-> "read", pending |-> NoRecord]
    /\ UNCHANGED <<session, disk, serverVars, latest>>

-----------------------------------------------------------------------------
(* finalizePendingRegistration *)

\* setSession clears the pending verification after it, whoever's it is; the
\* keychain may refuse.
Ends(profile) ==
    /\ final' = NoCall
    /\ disk' \in {[profile |-> profile, verify |-> v] : v \in {None, disk.verify}}

\* The draft as it was at the start, if it was submitted, is preferred to the
\* stored record.  History follows no creation during which the registration of
\* another address is taken up.
FinalRead ==
    /\ final.at = "read"
    /\ LET pending == IF final.pending.photos # 0 THEN final.pending ELSE disk.profile
       IN  /\ IF pending.photos = 0 THEN Ends(disk.profile)
              ELSE final' = [at |-> "user", pending |-> pending] /\ UNCHANGED disk
           /\ create' = [r \in Reviews |-> [create[r] EXCEPT
                          !.alone = @ /\ (pending.photos # 0 => pending.email = create[r].email)]]
    /\ UNCHANGED <<wizardVars, session, serverVars, latest, used>>

\* Mutant: a registration of somebody else is forgotten.
FinalUserForgets ==
    /\ final.at = "user"
    /\ \/ /\ session = final.pending.email /\ session # None
          /\ final' = [final EXCEPT !.at = "upload"] /\ UNCHANGED disk
       \/ Ends(NoRecord)
    /\ UNCHANGED <<wizardVars, session, create, serverVars, latest, used>>

\* getUser: the account that is signed in now, or an error.
FinalUser ==
    /\ final.at = "user"
    /\ \/ /\ session = final.pending.email /\ session # None
          /\ final' = [final EXCEPT !.at = "upload"] /\ UNCHANGED disk
       \/ Ends(disk.profile)
    /\ UNCHANGED <<wizardVars, session, create, serverVars, latest, used>>

\* The uploads and replace_profile_photos, which takes only the photos of the
\* account that calls it.  A failure, or a lost answer, is rolled back in the
\* storage and keeps the record.
FinalUpload ==
    /\ final.at = "upload"
    /\ \/ /\ session = final.pending.email /\ session # None
          /\ shown' = [shown EXCEPT ![session] = final.pending.photos]
          /\ \/ final' = [final EXCEPT !.at = "done"] /\ UNCHANGED disk
             \/ Ends(disk.profile)
       \/ Ends(disk.profile) /\ UNCHANGED shown
    /\ UNCHANGED <<wizardVars, session, create, account, mails, latest, used>>

\* The draft is reset and the record cleared, if the keychain lets it.
Finalized ==
    /\ final.at = "done"
    /\ draft' = NoDraft
    /\ \/ Ends(NoRecord)
       \/ Ends(disk.profile)
    /\ UNCHANGED <<screen, reviewing, session, create, serverVars, latest, used>>

-----------------------------------------------------------------------------
Next ==
    \/ \E e \in Emails : \/ SubmitCredentials(e) \/ OpenLink(e) \/ VerifyElsewhere(e)
                         \/ SignIn(e) \/ Resend(e)
    \/ SubmitProfile \/ SubmitInterests \/ ChoosePhotos \/ ToReview \/ Navigate
    \/ \E r \in Reviews : \/ Create(r) \/ CreateChecked(r) \/ PersistProfile(r)
                          \/ PersistVerification(r) \/ SignUp(r) \/ Created(r) \/ CreateFailed(r)
    \/ Reported \/ SignOut \/ VerificationExpires \/ Restart
    \/ FinalRead \/ FinalUser \/ FinalUpload \/ Finalized

Spec == Init /\ [][Next]_vars

-----------------------------------------------------------------------------
(* Properties *)

\* The photos of an account that was just created are not forgotten before the
\* profile has photos, whatever signs in, dies, fails or is asked twice, until
\* the user starts another registration.  What history follows is a creation
\* that ran beside no other and began in no finalization, under which nobody
\* changed the draft or signed in as another: the records are one for all, and
\* the catch of a creation that fails clears that of the account just created.
RegistrationKept ==
    latest # NoRecord => \/ shown[latest.email] # 0
                         \/ disk.profile = latest
=============================================================================
