--------------------------- MODULE MCClient_proofs ---------------------------
(* The parts of the phone that MCClient composes with the session, for any  *)
(* addresses, responses, mutations and bounds: what the notifications open  *)
(* (HookInv), where the photos of a new account are (FinalInv, CreateInv,   *)
(* LatestInv), and what the own profile shows (Covered).  They are about    *)
(* the instances Routes, Wizard and Own.                                    *)
EXTENDS MCClient, ClientSession_proofs

-----------------------------------------------------------------------------
(* The notifications *)

\* The states of the hook.
Hooks == [pending : Taps \cup {None}, handled : SUBSET Taps, opened : [Taps -> 0..2],
          last : Taps \cup {None}, early : SUBSET Taps]

\* What holds of the hook between two of its callbacks.
HookInv(h) ==
    /\ h \in Hooks
    /\ h.pending # None => h.pending \in h.handled /\ h.opened[h.pending] = 0
    /\ \A t \in Taps : h.opened[t] <= 1
    /\ \A t \in Taps \ h.handled : h.opened[t] = 0

\* Signed in, only a response that came too early waits.
Waits(h) == h.pending # None => h.pending \in h.early

NavInv ==
    /\ Routes!NavigationTypeOK
    /\ HookInv(Routes!Now)
    /\ rendered = "signedIn" => Waits(Routes!Now)

\* The fields of the hook are the variables.
LEMMA NowFields ==
    /\ Routes!Now.pending = pendingRoute /\ Routes!Now.handled = handled /\ Routes!Now.opened = opened
    /\ Routes!Now.last = last /\ Routes!Now.early = early
  BY DEF Routes!Now

\* Opening a response that has not been opened.
LEMMA NavigatedHook ==
    ASSUME Routes!NavigationAssumption, NEW h \in Hooks, NEW t \in Taps, h.opened[t] = 0
    PROVE  /\ Routes!Navigated(h, t) \in Hooks
           /\ Routes!Navigated(h, t).pending = h.pending /\ Routes!Navigated(h, t).handled = h.handled
           /\ Routes!Navigated(h, t).early = h.early
           /\ Routes!Navigated(h, t).opened[t] \in {0, 1}
           /\ \A u \in Taps \ {t} : Routes!Navigated(h, t).opened[u] = h.opened[u]
  <1> DEFINE o == [h.opened EXCEPT ![t] = IF navPhase = "signedIn" THEN @ + 1 ELSE @]
  <1>1. /\ o \in [Taps -> 0..2] /\ o[t] \in {0, 1}
        /\ \A u \in Taps \ {t} : o[u] = h.opened[u]
    BY DEF Hooks
  <1>2. Routes!Navigated(h, t) = [h EXCEPT !.opened = o, !.last = None]
    BY DEF Routes!Navigated, Hooks
  <1> HIDE DEF o
  <1>3. [h EXCEPT !.opened = o, !.last = None] \in Hooks
    BY <1>1 DEF Hooks
  <1>4. /\ [h EXCEPT !.opened = o, !.last = None].pending = h.pending
        /\ [h EXCEPT !.opened = o, !.last = None].handled = h.handled
        /\ [h EXCEPT !.opened = o, !.last = None].early = h.early
        /\ [h EXCEPT !.opened = o, !.last = None].opened = o
    BY DEF Hooks
  <1> QED  BY <1>1, <1>2, <1>3, <1>4

\* handleResponse keeps the hook's invariant.
LEMMA ResponseHook ==
    ASSUME Routes!NavigationAssumption, NEW h, HookInv(h), NEW t \in Taps, NEW s \in BOOLEAN
    PROVE  /\ HookInv(Routes!Response(h, t, s))
           /\ s /\ Waits(h) => Waits(Routes!Response(h, t, s))
  <1>1. CASE t \in h.handled
    BY <1>1 DEF Routes!Response
  <1>2. CASE t \notin h.handled /\ s /\ ready
    <2> DEFINE g == [h EXCEPT !.handled = @ \cup {t}]
    <2>1. /\ g \in Hooks /\ g.pending = h.pending /\ g.handled = h.handled \cup {t}
          /\ g.opened = h.opened /\ g.early = h.early
      BY DEF HookInv, Hooks
    <2>2. Routes!Response(h, t, s) = Routes!Navigated(g, t)
      BY <1>2 DEF Routes!Response
    <2> HIDE DEF g
    <2>3. g.opened[t] = 0
      BY <1>2, <2>1 DEF HookInv
    <2>4. /\ Routes!Navigated(g, t) \in Hooks
          /\ Routes!Navigated(g, t).pending = g.pending /\ Routes!Navigated(g, t).handled = g.handled
          /\ Routes!Navigated(g, t).early = g.early /\ Routes!Navigated(g, t).opened[t] \in {0, 1}
          /\ \A u \in Taps \ {t} : Routes!Navigated(g, t).opened[u] = g.opened[u]
      BY <2>1, <2>3, NavigatedHook
    <2>5. h.pending # t
      BY <1>2, Routes!NavigationAssumption DEF HookInv, Routes!NavigationAssumption
    <2>6. HookInv(Routes!Navigated(g, t))
      BY <2>1, <2>4, <2>5 DEF HookInv, Hooks
    <2> QED  BY <2>1, <2>2, <2>4, <2>6 DEF Waits
  <1>3. CASE t \notin h.handled /\ ~(s /\ ready)
    <2> DEFINE e == IF s THEN h.early \cup {t} ELSE h.early
               g == [h EXCEPT !.handled = @ \cup {t}, !.pending = t, !.early = e]
    <2>1. Routes!Response(h, t, s) = g
      BY <1>3 DEF Routes!Response, HookInv, Hooks
    <2>2. e \subseteq Taps
      BY DEF HookInv, Hooks
    <2> HIDE DEF e
    <2>3. /\ g \in Hooks /\ g.pending = t /\ g.handled = h.handled \cup {t}
          /\ g.opened = h.opened /\ g.early = e
      BY <2>2 DEF HookInv, Hooks
    <2> HIDE DEF g
    <2>4. HookInv(g)
      BY <1>3, <2>3 DEF HookInv
    <2>5. s => t \in e
      BY DEF e
    <2> QED  BY <2>1, <2>3, <2>4, <2>5 DEF Waits
  <1> QED  BY <1>1, <1>2, <1>3

\* So does the second effect, which leaves nothing waiting in an app that is
\* signed in, except what was early.
LEMMA PendingHook ==
    ASSUME Routes!NavigationAssumption, NEW h, HookInv(h), NEW s \in BOOLEAN
    PROVE  /\ HookInv(Routes!PendingOpened(h, s))
           /\ s => Waits(Routes!PendingOpened(h, s))
  <1>1. CASE ~s \/ h.pending = None
    BY <1>1 DEF Routes!PendingOpened, Waits
  <1>2. CASE s /\ h.pending # None /\ ~ready
    <2> DEFINE g == [h EXCEPT !.early = @ \cup {h.pending}]
    <2>1. Routes!PendingOpened(h, s) = g
      BY <1>2 DEF Routes!PendingOpened
    <2>2. /\ g \in Hooks /\ g.pending = h.pending /\ g.handled = h.handled
          /\ g.opened = h.opened /\ g.early = h.early \cup {h.pending}
      BY <1>2 DEF HookInv, Hooks
    <2> HIDE DEF g
    <2>3. HookInv(g)
      BY <2>2 DEF HookInv
    <2> QED  BY <2>1, <2>2, <2>3 DEF Waits
  <1>3. CASE s /\ h.pending # None /\ ready
    <2> DEFINE t == h.pending
               g == [h EXCEPT !.pending = None]
    <2>1. Routes!PendingOpened(h, s) = Routes!Navigated(g, t)
      BY <1>3 DEF Routes!PendingOpened
    <2>2. /\ g \in Hooks /\ g.pending = None /\ g.handled = h.handled
          /\ g.opened = h.opened /\ g.early = h.early
      BY DEF HookInv, Hooks
    <2>3. t \in Taps /\ t \in h.handled /\ h.opened[t] = 0
      BY <1>3 DEF HookInv, Hooks
    <2> HIDE DEF g, t
    <2>4. /\ Routes!Navigated(g, t) \in Hooks
          /\ Routes!Navigated(g, t).pending = g.pending /\ Routes!Navigated(g, t).handled = g.handled
          /\ Routes!Navigated(g, t).early = g.early /\ Routes!Navigated(g, t).opened[t] \in {0, 1}
          /\ \A u \in Taps \ {t} : Routes!Navigated(g, t).opened[u] = g.opened[u]
      BY <2>2, <2>3, NavigatedHook
    <2>5. HookInv(Routes!Navigated(g, t))
      BY <2>2, <2>3, <2>4 DEF HookInv, Hooks
    <2> QED  BY <2>1, <2>2, <2>4, <2>5 DEF Waits
  <1> QED  BY <1>1, <1>2, <1>3

LEMMA NavBegins ==
    ASSUME Routes!NavigationAssumption, Routes!Init
    PROVE  NavInv
  <1> DEFINE z == [t \in Taps |-> 0]
  <1>1. z \in [Taps -> 0..2] /\ \A t \in Taps : z[t] = 0
    OBVIOUS
  <1>2. opened = z /\ pendingRoute = None /\ handled = {} /\ early = {} /\ rendered = None
    BY DEF Routes!Init
  <1> HIDE DEF z
  <1>3. phases \in 0..MaxPhases
    BY DEF Routes!NavigationAssumption, Routes!Init
  <1>4. navPhase \in Routes!Phases /\ ready \in BOOLEAN /\ last \in Taps \cup {None}
    BY DEF Routes!Init, Routes!Phases
  <1>5. Routes!NavigationTypeOK
    BY <1>1, <1>2, <1>3, <1>4 DEF Routes!NavigationTypeOK
  <1>6. Routes!Now \in Hooks
    BY <1>1, <1>2, <1>4 DEF Routes!Now, Hooks
  <1>7. HookInv(Routes!Now)
    <2>1. \A t \in Taps : Routes!Now.opened[t] = 0
      BY <1>1, <1>2, NowFields
    <2>2. Routes!Now.pending = None
      BY <1>2, NowFields
    <2> QED  BY <1>6, <2>1, <2>2 DEF HookInv
  <1>8. Waits(Routes!Now)
    BY <1>2, NowFields DEF Waits
  <1> QED  BY <1>5, <1>7, <1>8 DEF NavInv

\* A callback that leaves the hook as h.
LEMMA BecameHook ==
    ASSUME NEW h, h \in Hooks, Routes!Became(h)
    PROVE  /\ Routes!Now' = h
           /\ pendingRoute' \in Taps \cup {None} /\ handled' \subseteq Taps
           /\ opened' \in [Taps -> 0..2] /\ last' \in Taps \cup {None} /\ early' \subseteq Taps
  BY DEF Routes!Became, Hooks, Routes!Now

LEMMA NavKept ==
    ASSUME Routes!NavigationAssumption, NavInv, [Routes!Next]_(Routes!vars)
    PROVE  NavInv'
  <1>1. CASE Routes!Change
    <2>1. Routes!NavigationTypeOK' /\ rendered' = rendered
      BY <1>1 DEF Routes!Change, NavInv, Routes!NavigationTypeOK, Routes!Phases,
                  Routes!NavigationAssumption
    <2>2. Routes!Now' = Routes!Now
      BY <1>1 DEF Routes!Change, Routes!Now
    <2> QED  BY <2>1, <2>2 DEF NavInv
  <1>2. CASE Routes!Ready
    <2>1. Routes!NavigationTypeOK' /\ rendered' = rendered
      BY <1>2 DEF Routes!Ready, NavInv, Routes!NavigationTypeOK
    <2>2. Routes!Now' = Routes!Now
      BY <1>2 DEF Routes!Ready, Routes!Now
    <2> QED  BY <2>1, <2>2 DEF NavInv
  <1>3. ASSUME NEW t \in Taps, Routes!Tap(t)  PROVE NavInv'
    <2> DEFINE s == rendered = "signedIn"
               n == [Routes!Now EXCEPT !.last = t]
               h == Routes!Response(n, t, s)
    <2>1. HookInv(n) /\ (s => Waits(n))
      <3>1. /\ n \in Hooks /\ n.pending = Routes!Now.pending /\ n.handled = Routes!Now.handled
            /\ n.opened = Routes!Now.opened /\ n.early = Routes!Now.early
        BY DEF NavInv, HookInv, Hooks
      <3> HIDE DEF n
      <3> QED  BY <3>1 DEF NavInv, HookInv, Waits
    <2>2. s \in BOOLEAN
      OBVIOUS
    <2>3. Routes!Became(h) /\ UNCHANGED <<rendered, ready, navPhase, phases>>
      BY <1>3 DEF Routes!Tap
    <2> HIDE DEF n, s
    <2>4. HookInv(h) /\ (s => Waits(h))
      BY <2>1, <2>2, ResponseHook
    <2> HIDE DEF h
    <2>5. h \in Hooks  BY <2>4 DEF HookInv
    <2>6. Routes!Now' = h  BY <2>3, <2>5, BecameHook
    <2>7. Routes!NavigationTypeOK'
      BY <2>3, <2>5, BecameHook DEF NavInv, Routes!NavigationTypeOK
    <2>8. rendered' = "signedIn" => s
      BY <2>3 DEF s
    <2> QED  BY <2>4, <2>6, <2>7, <2>8 DEF NavInv
  <1>4. ASSUME NEW t \in Taps, Routes!TapAgain(t)  PROVE NavInv'
    <2> DEFINE s == rendered = "signedIn"
               h == Routes!Response(Routes!Now, t, s)
    <2>1. s \in BOOLEAN /\ HookInv(Routes!Now) /\ (s => Waits(Routes!Now))
      BY DEF NavInv
    <2>2. Routes!Became(h) /\ UNCHANGED <<rendered, ready, navPhase, phases>>
      BY <1>4 DEF Routes!TapAgain
    <2> HIDE DEF s
    <2>3. HookInv(h) /\ (s => Waits(h))
      BY <2>1, ResponseHook
    <2> HIDE DEF h
    <2>4. h \in Hooks  BY <2>3 DEF HookInv
    <2>5. Routes!Now' = h  BY <2>2, <2>4, BecameHook
    <2>6. Routes!NavigationTypeOK'
      BY <2>2, <2>4, BecameHook DEF NavInv, Routes!NavigationTypeOK
    <2>7. rendered' = "signedIn" => s
      BY <2>2 DEF s
    <2> QED  BY <2>3, <2>5, <2>6, <2>7 DEF NavInv
  <1>5. CASE Routes!Effects
    <2>1. CASE UNCHANGED <<pendingRoute, handled, opened, last, early>>
              /\ rendered # None /\ ~(rendered # "signedIn" /\ navPhase = "signedIn")
      <3>1. Routes!Now' = Routes!Now
        BY <2>1 DEF Routes!Now
      <3>2. Routes!NavigationTypeOK'
        BY <1>5, <2>1 DEF Routes!Effects, NavInv, Routes!NavigationTypeOK
      <3>3. rendered' = "signedIn" => rendered = "signedIn"
        BY <1>5, <2>1 DEF Routes!Effects
      <3> QED  BY <3>1, <3>2, <3>3 DEF NavInv
    <2>2. CASE ~(rendered # None /\ (rendered = "signedIn") = (navPhase = "signedIn"))
      <3> DEFINE s == navPhase = "signedIn"
                 told == IF last = None THEN Routes!Now ELSE Routes!Response(Routes!Now, last, s)
                 h == Routes!PendingOpened(told, s)
      <3>1. Routes!Became(h) /\ UNCHANGED <<navPhase, ready, phases>> /\ rendered' = navPhase
        BY <1>5, <2>2 DEF Routes!Effects
      <3>2. s \in BOOLEAN /\ HookInv(Routes!Now) /\ last \in Taps \cup {None}
        BY DEF NavInv, Routes!NavigationTypeOK
      <3>3. rendered' = "signedIn" => s
        BY <3>1 DEF s
      <3> HIDE DEF s
      <3>4. HookInv(told)
        BY <3>2, ResponseHook
      <3> HIDE DEF told
      <3>5. HookInv(h) /\ (s => Waits(h))
        BY <3>2, <3>4, PendingHook
      <3> HIDE DEF h
      <3>6. h \in Hooks  BY <3>5 DEF HookInv
      <3>7. Routes!Now' = h  BY <3>1, <3>6, BecameHook
      <3>8. Routes!NavigationTypeOK'
        BY <3>1, <3>6, BecameHook DEF NavInv, Routes!NavigationTypeOK
      <3> QED  BY <3>3, <3>5, <3>7, <3>8 DEF NavInv
    <2> QED  BY <1>5, <2>1, <2>2 DEF Routes!Effects
  <1>6. CASE UNCHANGED Routes!vars
    <2>1. Routes!Now' = Routes!Now
      BY <1>6 DEF Routes!vars, Routes!Now
    <2>2. Routes!NavigationTypeOK' /\ rendered' = rendered
      BY <1>6 DEF Routes!vars, NavInv, Routes!NavigationTypeOK
    <2> QED  BY <2>1, <2>2 DEF NavInv
  <1> QED
    BY <1>1, <1>2, <1>3, <1>4, <1>5, <1>6 DEF Routes!Next

-----------------------------------------------------------------------------
(* The registration: its types *)

\* The addresses, and what a record of a registration is.
Addresses == Emails \cup {None}
RegRecords   == [email : Addresses, photos : 0..MaxSets]

Creations == [at : {"idle", "username", "profile", "verify", "signup", "ok", "catch"},
              email : Addresses, photos : 0..MaxSets, alone : BOOLEAN]

RegTypeInv ==
    /\ Wizard!RegistrationTypeOK
    /\ create \in [Reviews -> Creations]
    /\ final \in [at : {"idle", "read", "user", "upload", "done"}, pending : RegRecords]
    /\ latest \in RegRecords
    /\ used \in [sets : 0..MaxSets, creates : Nat, events : Nat]

\* The profile of an address has photos, which it keeps.
Brought(e) == e \in Emails /\ shown[e] # 0

\* A finalization works on photos, and is over only when the profile has them.
FinalInv ==
    /\ final.at = "idle" => final = Wizard!NoCall
    /\ final.at \in {"user", "upload", "done"} => final.pending.photos # 0
    /\ final.at = "done" => Brought(final.pending.email)

\* The finalization is about no other address.
FinalOf(e) == final.pending.photos # 0 => final.pending.email = e

\* A creation r that history follows: nobody else's record, draft or
\* finalization has come in between, and no other creation runs.
Followed(r) ==
    /\ create[r].at = "idle" => ~create[r].alone
    /\ create[r].at = "ok" => create[r].email \in Emails
    /\ create[r].alone /\ ~Brought(create[r].email) =>
          /\ draft.email = create[r].email /\ FinalOf(create[r].email)
          /\ create[r].at \in {"username", "profile"} => draft.photos = create[r].photos
          /\ create[r].at \in {"verify", "signup", "ok"} =>
                disk.profile = [email |-> create[r].email, photos |-> create[r].photos]

CreateInv ==
    \A r \in Reviews : /\ Followed(r)
                       /\ \A q \in Reviews : create[r].alone /\ create[q].at # "idle" => q = r

\* The account that was created last: its record waits for a finalization, and
\* none of another address can clear it.
LatestInv ==
    latest # Wizard!NoRecord =>
        /\ (\A r \in Reviews : create[r].at = "idle") /\ latest.email \in Emails
        /\ \/ Brought(latest.email)
           \/ /\ disk.profile = latest /\ FinalOf(latest.email)
              /\ draft.submitted => draft.email = latest.email

RegInv == RegTypeInv /\ FinalInv /\ CreateInv /\ LatestInv

-----------------------------------------------------------------------------
(* The registration *)

LEMMA RegConstants ==
    ASSUME Wizard!RegistrationAssumption
    PROVE  /\ Old \subseteq Emails /\ None \notin Emails /\ None \notin Reviews
           /\ MaxSets \in Nat /\ MaxCreates \in Nat /\ MaxEvents \in Nat
           /\ Wizard!NoRecord \in RegRecords /\ Wizard!NoRecord.photos = 0 /\ Wizard!NoRecord.email = None
           /\ Wizard!NoCall.at = "idle" /\ Wizard!NoCall.pending = Wizard!NoRecord
  BY DEF Wizard!RegistrationAssumption, Wizard!NoRecord, RegRecords, Wizard!NoCall, Addresses

\* A step after which every profile with photos still has some keeps them.
LEMMA BroughtStays ==
    ASSUME \A e \in Emails : shown[e] # 0 => shown'[e] # 0
    PROVE  \A e : Brought(e) => Brought(e)'
  BY DEF Brought

\* Steps that change the wizard's screen, the links or the counters only.
LEMMA RegApart ==
    ASSUME RegInv, RegTypeInv', UNCHANGED <<draft, disk, create, final, shown, latest>>
    PROVE  RegInv'
  <1>1. \A e : Brought(e) <=> Brought(e)'
    BY DEF Brought
  <1>2. \A e : FinalOf(e) <=> FinalOf(e)'
    BY DEF FinalOf
  <1>3. FinalInv' /\ CreateInv' /\ LatestInv'
    BY <1>1, <1>2 DEF RegInv, FinalInv, CreateInv, Followed, LatestInv
  <1> QED  BY <1>3 DEF RegInv


\* The screens by their names.
LEMMA StepNames ==
    /\ Wizard!Steps[1] = "SignUp" /\ Wizard!Steps[2] = "SignUpProfile"
    /\ Wizard!Steps[3] = "SignUpInterests"
    /\ Wizard!Steps[4] = "SignUpPhotos" /\ Wizard!Steps[5] = "SignUpReview"
    /\ {Wizard!Steps[i] : i \in 1..5} =
         {"SignUp", "SignUpProfile", "SignUpInterests", "SignUpPhotos", "SignUpReview"}
  <1>1. /\ Wizard!Steps[1] = "SignUp" /\ Wizard!Steps[2] = "SignUpProfile"
        /\ Wizard!Steps[3] = "SignUpInterests"
        /\ Wizard!Steps[4] = "SignUpPhotos" /\ Wizard!Steps[5] = "SignUpReview"
    BY DEF Wizard!Steps
  <1>2. \A i : i \in 1..5 <=> i \in {1, 2, 3, 4, 5}
    OBVIOUS
  <1> QED  BY <1>1, <1>2

\* The counters of the bounds.
LEMMA SpendTypes ==
    ASSUME RegTypeInv, NEW kind \in {"sets", "creates", "events"}, NEW max \in Nat,
           kind = "sets" => max = MaxSets, MaxSets \in Nat, Wizard!Spend(kind, max)
    PROVE  /\ used' \in [sets : 0..MaxSets, creates : Nat, events : Nat]
           /\ kind = "sets" => used'.sets # 0
  BY DEF Wizard!Spend, RegTypeInv

\* The end of a finalization.
LEMMA EndsFact ==
    ASSUME NEW profile, Wizard!Ends(profile)
    PROVE  /\ final' = Wizard!NoCall /\ disk'.profile = profile
           /\ \E v \in {None, disk.verify} : disk' = [profile |-> profile, verify |-> v]
  BY DEF Wizard!Ends

\* What a running or ended creation is, and is after a change of one field.
LEMMA CreationFields ==
    ASSUME RegTypeInv
    PROVE  \A r \in Reviews :
              /\ create[r].email \in Addresses /\ create[r].photos \in 0..MaxSets
              /\ create[r].alone \in BOOLEAN
              /\ \A at \in {"idle", "username", "profile", "verify", "signup", "ok", "catch"} :
                    [create[r] EXCEPT !.at = at] \in Creations
              /\ \A a \in BOOLEAN : [create[r] EXCEPT !.alone = a] \in Creations
  BY DEF RegTypeInv, Creations

LEMMA RegTypes ==
    ASSUME Wizard!RegistrationAssumption, RegTypeInv, [Wizard!Next]_(Wizard!vars)
    PROVE  RegTypeInv'
  <1> USE RegConstants, StepNames DEF RegTypeInv, Wizard!RegistrationTypeOK, RegRecords, Addresses,
          Wizard!wizardVars, Wizard!serverVars
  <1> DEFINE Drafts == [email : Addresses, basics : BOOLEAN, details : BOOLEAN,
                        photos : 0..MaxSets, submitted : BOOLEAN]
             Creates == [Reviews -> Creations]
             Finals == [at : {"idle", "read", "user", "upload", "done"}, pending : RegRecords]
             Disks == [profile : RegRecords, verify : Addresses]
             Used == [sets : 0..MaxSets, creates : Nat, events : Nat]
  <1>0. \A c \in Creates : \A r \in Reviews :
           c[r].at \in {"idle", "username", "profile", "verify", "signup", "ok", "catch"}
    BY DEF Creations
  <1>1. draft \in Drafts /\ create \in Creates /\ final \in Finals /\ disk \in Disks /\ used \in Used
    OBVIOUS
  <1>2. /\ Wizard!NoDraft \in Drafts /\ Wizard!NoCreate \in Creations
        /\ Wizard!NoCall \in Finals /\ Wizard!NoRecord \in RegRecords
    BY DEF Creations, Wizard!NoDraft, Wizard!NoCreate, Wizard!NoCall, Wizard!NoRecord
  <1>3. /\ Wizard!Touched \in Creates
        /\ \A r \in Reviews :
              /\ \A at \in {"idle", "username", "profile", "verify", "signup", "ok", "catch"} :
                    Wizard!Goto(r, at) \in Creates
              /\ Wizard!Over(r) => create' \in Creates /\ reviewing' \in Reviews \cup {None}
    <2>1. \A r \in Reviews : [create[r] EXCEPT !.alone = FALSE] \in Creations
      BY CreationFields
    <2>2. \A r \in Reviews : \A at \in {"idle", "username", "profile", "verify", "signup", "ok", "catch"} :
             [create[r] EXCEPT !.at = at] \in Creations
      BY CreationFields
    <2>3. Wizard!Touched \in Creates
      BY <2>1 DEF Wizard!Touched
    <2>4. \A r \in Reviews : \A at \in {"idle", "username", "profile", "verify", "signup", "ok", "catch"} :
             Wizard!Goto(r, at) \in Creates
      BY <1>1, <2>2 DEF Wizard!Goto
    <2>5. \A r \in Reviews : Wizard!Over(r) => create' \in Creates /\ reviewing' \in Reviews \cup {None}
      BY <1>1, <1>2 DEF Wizard!Over
    <2> QED  BY <2>3, <2>4, <2>5
  <1>4. ASSUME NEW e \in Emails, Wizard!Entered(e)
        PROVE  /\ session' \in Addresses /\ screen' = "app" /\ reviewing' = None
               /\ create' \in Creates /\ final' \in Finals
    <2>1. /\ session' = e /\ screen' = "app" /\ reviewing' = None
          /\ create' = [r \in Reviews |-> [create[r] EXCEPT !.alone = @ /\ create[r].email = e]]
      BY <1>4 DEF Wizard!Entered
    <2>2. \A r \in Reviews : [create[r] EXCEPT !.alone = @ /\ create[r].email = e] \in Creations
      BY CreationFields
    <2>4. create' \in Creates
      BY <2>1, <2>2
    <2>5. final' \in {final, [at |-> "read", pending |-> [email |-> draft.email, photos |-> draft.photos]],
                     [at |-> "read", pending |-> Wizard!NoRecord]}
      BY <1>4 DEF Wizard!Entered
    <2>6. final' \in Finals
      BY <1>1, <1>2, <2>5
    <2> QED  BY <2>1, <2>4, <2>6
  <1>5. \A p \in RegRecords : Wizard!Ends(p) => final' \in Finals /\ disk' \in Disks
    BY <1>1, <1>2, EndsFact
  <1>6. CASE \E e \in Emails : Wizard!SubmitCredentials(e)
    <2>1. PICK e \in Emails : Wizard!SubmitCredentials(e)
      BY <1>6
    <2>2. draft' \in Drafts
      BY <1>1, <2>1 DEF Wizard!SubmitCredentials
    <2>3. latest' \in RegRecords
      BY <1>2, <2>1 DEF Wizard!SubmitCredentials
    <2>4. create' \in Creates
      BY <1>3, <2>1 DEF Wizard!SubmitCredentials, Wizard!Touched
    <2>5. screen' = "SignUpProfile"
      BY <2>1 DEF Wizard!SubmitCredentials
    <2> QED  BY <1>0, <2>1, <2>2, <2>3, <2>4, <2>5 DEF Wizard!SubmitCredentials
  <1>7. CASE Wizard!SubmitProfile \/ Wizard!SubmitInterests \/ Wizard!ToReview \/ Wizard!Navigate
    <2>1. CASE Wizard!SubmitProfile
      <3>1. draft' \in Drafts /\ screen' = "SignUpInterests"
        BY <1>1, <2>1 DEF Wizard!SubmitProfile
      <3> QED  BY <2>1, <3>1 DEF Wizard!SubmitProfile
    <2>2. CASE Wizard!SubmitInterests
      <3>1. draft' \in Drafts /\ screen' = "SignUpPhotos"
        BY <1>1, <2>2 DEF Wizard!SubmitInterests
      <3> QED  BY <2>2, <3>1 DEF Wizard!SubmitInterests
    <2>3. CASE Wizard!ToReview
      BY <1>1, <2>3 DEF Wizard!ToReview
    <2>4. CASE Wizard!Navigate
      <3>1. ASSUME NEW i \in 2..5 PROVE Wizard!Steps[i - 1] \in {Wizard!Steps[k] : k \in 1..5}
        <4>1. i - 1 \in 1..5
          OBVIOUS
        <4> QED  BY <4>1
      <3>2. screen' \in {"Welcome", "SignIn", "EmailSent", "app"} \cup {Wizard!Steps[i] : i \in 1..5}
        BY <2>4, <3>1 DEF Wizard!Navigate
      <3> QED  BY <2>4, <3>2 DEF Wizard!Navigate
    <2> QED  BY <1>7, <2>1, <2>2, <2>3, <2>4
  <1>8. CASE Wizard!ChoosePhotos
    <2>1. used' \in Used /\ draft' \in Drafts
      BY <1>1, <1>8, SpendTypes DEF Wizard!ChoosePhotos
    <2> QED  BY <1>0, <1>3, <1>8, <2>1 DEF Wizard!ChoosePhotos, Wizard!Touched
  <1>9. ASSUME NEW r \in Reviews, Wizard!Create(r) PROVE RegTypeInv'
    <2>1. used' \in Used
      BY <1>9, SpendTypes DEF Wizard!Create
    <2> DEFINE z == [at |-> "username", email |-> draft.email, photos |-> draft.photos,
                     alone |-> final.at = "idle" /\ \A q \in Reviews : create[q].at = "idle"]
    <2>2. z \in Creations
      BY <1>1 DEF Creations
    <2>3. create' = [Wizard!Touched EXCEPT ![r] = z]
      BY <1>9 DEF Wizard!Create
    <2> HIDE DEF z
    <2>4. create' \in Creates
      BY <1>3, <2>2, <2>3
    <2> QED  BY <1>0, <1>2, <1>9, <2>1, <2>4 DEF Wizard!Create
  <1>10. ASSUME NEW r \in Reviews, Wizard!CreateChecked(r) PROVE RegTypeInv'
    <2>1. create' \in Creates
      BY <1>3, <1>10 DEF Wizard!CreateChecked
    <2> QED  BY <1>0, <1>10, <2>1 DEF Wizard!CreateChecked
  <1>11. ASSUME NEW r \in Reviews, Wizard!PersistProfile(r) PROVE RegTypeInv'
    <2>1. create' \in Creates /\ disk' \in Disks
      BY <1>1, <1>3, <1>11 DEF Wizard!PersistProfile
    <2> QED  BY <1>0, <1>11, <2>1 DEF Wizard!PersistProfile
  <1>12. ASSUME NEW r \in Reviews, Wizard!PersistVerification(r) PROVE RegTypeInv'
    <2>1. create[r].email \in Addresses
      BY CreationFields
    <2>2. create' \in Creates /\ disk' \in Disks
      BY <1>1, <1>3, <1>12, <2>1 DEF Wizard!PersistVerification
    <2> QED  BY <1>0, <1>12, <2>2 DEF Wizard!PersistVerification
  <1>13. ASSUME NEW r \in Reviews, Wizard!SignUp(r) PROVE RegTypeInv'
    <2>1. create' \in Creates
      BY <1>3, <1>13 DEF Wizard!SignUp
    <2>2. create[r].email \in Addresses
      BY CreationFields
    <2>3. account' \in [Emails -> {"none", "unverified", "verified"}] /\ mails' \subseteq Emails
      BY <1>1, <1>13, <2>2 DEF Wizard!SignUp
    <2> QED  BY <1>0, <1>13, <2>1, <2>3 DEF Wizard!SignUp
  <1>14. ASSUME NEW r \in Reviews, Wizard!Created(r) PROVE RegTypeInv'
    <2>1. latest' \in RegRecords
      BY <1>1, <1>14, CreationFields DEF Wizard!Created
    <2>2. draft' \in Drafts
      BY <1>1, <1>14 DEF Wizard!Created
    <2>3. create' \in Creates /\ reviewing' \in Reviews \cup {None}
      BY <1>3, <1>14 DEF Wizard!Created
    <2> QED  BY <1>0, <1>2, <1>14, <2>1, <2>2, <2>3 DEF Wizard!Created
  <1>15. ASSUME NEW r \in Reviews, Wizard!CreateFailed(r) PROVE RegTypeInv'
    <2>1. create' \in Creates /\ reviewing' \in Reviews \cup {None}
      BY <1>3, <1>15 DEF Wizard!CreateFailed
    <2> QED  BY <1>0, <1>2, <1>15, <2>1 DEF Wizard!CreateFailed
  <1>16. CASE \E e \in Emails : Wizard!OpenLink(e) \/ Wizard!VerifyElsewhere(e) \/ Wizard!SignIn(e) \/ Wizard!Resend(e)
    <2>1. CASE \E e \in Emails : Wizard!OpenLink(e)
      BY <1>0, <1>4, <2>1 DEF Wizard!OpenLink
    <2>2. CASE \E e \in Emails : Wizard!VerifyElsewhere(e)
      BY <2>2 DEF Wizard!VerifyElsewhere
    <2>3. CASE \E e \in Emails : Wizard!SignIn(e)
      BY <1>0, <1>4, <2>3 DEF Wizard!SignIn
    <2>4. CASE \E e \in Emails : Wizard!Resend(e)
      BY <2>4 DEF Wizard!Resend
    <2> QED  BY <1>16, <2>1, <2>2, <2>3, <2>4
  <1>17. CASE Wizard!Reported
    <2>1. used' \in Used
      BY <1>17, SpendTypes DEF Wizard!Reported
    <2>2. session \in Emails
      BY <1>17 DEF Wizard!Reported
    <2> QED  BY <1>0, <1>4, <1>17, <2>1, <2>2 DEF Wizard!Reported
  <1>18. CASE Wizard!SignOut
    BY <1>18 DEF Wizard!SignOut
  <1>19. CASE Wizard!VerificationExpires
    BY <1>1, <1>19 DEF Wizard!VerificationExpires
  <1>20. CASE Wizard!Restart
    <2>1. used' \in Used
      BY <1>20, SpendTypes DEF Wizard!Restart
    <2>2. final' \in Finals /\ screen' \in {"Welcome", "EmailSent", "app"}
      BY <1>2, <1>20 DEF Wizard!Restart
    <2>3. create' \in Creates
      BY <1>2, <1>20 DEF Wizard!Restart
    <2> QED  BY <1>0, <1>2, <1>20, <2>1, <2>2, <2>3 DEF Wizard!Restart
  <1>21. CASE Wizard!FinalRead
    <2> DEFINE pending == IF final.pending.photos # 0 THEN final.pending ELSE disk.profile
    <2>1. /\ IF pending.photos = 0 THEN Wizard!Ends(disk.profile)
             ELSE final' = [at |-> "user", pending |-> pending] /\ UNCHANGED disk
          /\ create' = [r \in Reviews |-> [create[r] EXCEPT
                           !.alone = @ /\ (pending.photos # 0 => pending.email = create[r].email)]]
      BY <1>21 DEF Wizard!FinalRead
    <2>2. pending \in RegRecords /\ disk.profile \in RegRecords
      BY <1>1
    <2> HIDE DEF pending
    <2>3. final' \in Finals /\ disk' \in Disks
      BY <1>1, <1>5, <2>1, <2>2
    <2>4. \A r \in Reviews : [create[r] EXCEPT
             !.alone = @ /\ (pending.photos # 0 => pending.email = create[r].email)] \in Creations
      BY CreationFields
    <2>5. create' \in Creates
      BY <2>1, <2>4
    <2> QED  BY <1>0, <1>21, <2>3, <2>5 DEF Wizard!FinalRead
  <1>22. CASE Wizard!FinalUser
    <2>1. final' \in Finals /\ disk' \in Disks
      BY <1>1, <1>5, <1>22 DEF Wizard!FinalUser
    <2> QED  BY <1>22, <2>1 DEF Wizard!FinalUser
  <1>23. CASE Wizard!FinalUpload
    <2>1. final' \in Finals /\ disk' \in Disks
      BY <1>1, <1>5, <1>23 DEF Wizard!FinalUpload
    <2>2. shown' \in [Emails -> 0..MaxSets]
      BY <1>1, <1>23 DEF Wizard!FinalUpload
    <2> QED  BY <1>23, <2>1, <2>2 DEF Wizard!FinalUpload
  <1>24. CASE Wizard!Finalized
    <2>1. final' \in Finals /\ disk' \in Disks
      BY <1>1, <1>2, <1>5, <1>24 DEF Wizard!Finalized
    <2> QED  BY <1>2, <1>24, <2>1 DEF Wizard!Finalized
  <1>25. CASE UNCHANGED Wizard!vars
    BY <1>25 DEF Wizard!vars
  <1> QED
    BY <1>6, <1>7, <1>8, <1>9, <1>10, <1>11, <1>12, <1>13, <1>14, <1>15, <1>16, <1>17, <1>18,
       <1>19, <1>20, <1>21, <1>22, <1>23, <1>24, <1>25 DEF Wizard!Next


-----------------------------------------------------------------------------
(* The record of the account that was created last *)

\* A creation that is touched, moves or ends.
LEMMA TouchedFact ==
    ASSUME RegTypeInv
    PROVE  \A r \in Reviews :
              /\ Wizard!Touched[r].at = create[r].at /\ Wizard!Touched[r].email = create[r].email
              /\ Wizard!Touched[r].photos = create[r].photos /\ ~Wizard!Touched[r].alone
  BY DEF Wizard!Touched, RegTypeInv, Creations

LEMMA MovedFact ==
    ASSUME RegTypeInv, NEW r \in Reviews, NEW place, create' = Wizard!Goto(r, place)
    PROVE  /\ create'[r].at = place /\ create'[r].email = create[r].email
           /\ create'[r].photos = create[r].photos /\ create'[r].alone = create[r].alone
           /\ \A q \in Reviews \ {r} : create'[q] = create[q]
  <1>1. /\ [create[r] EXCEPT !.at = place].at = place
        /\ [create[r] EXCEPT !.at = place].email = create[r].email
        /\ [create[r] EXCEPT !.at = place].photos = create[r].photos
        /\ [create[r] EXCEPT !.at = place].alone = create[r].alone
    BY DEF RegTypeInv, Creations
  <1>2. /\ create'[r] = [create[r] EXCEPT !.at = place]
        /\ \A q \in Reviews \ {r} : create'[q] = create[q]
    BY DEF Wizard!Goto, RegTypeInv
  <1> QED  BY <1>1, <1>2

LEMMA OverFact ==
    ASSUME RegTypeInv, NEW r \in Reviews, Wizard!Over(r)
    PROVE  /\ create'[r].at = "idle" /\ ~create'[r].alone
           /\ \A q \in Reviews \ {r} : create'[q] = create[q]
  BY DEF Wizard!Over, Wizard!NoCreate, RegTypeInv

\* Steps that change no creation but perhaps whether history follows it.
LEMMA CreationsStay ==
    ASSUME CreateInv,
           \A r \in Reviews : /\ create'[r].at = create[r].at /\ create'[r].email = create[r].email
                              /\ create'[r].photos = create[r].photos
                              /\ create'[r].alone => create[r].alone,
           \A e : Brought(e) => Brought(e)',
           \A r \in Reviews :
              create'[r].alone /\ ~Brought(create[r].email) /\ ~Brought(create[r].email)' =>
                 /\ draft.email = create[r].email /\ FinalOf(create[r].email) =>
                       FinalOf(create[r].email)'
                 /\ draft'.email = draft.email
                 /\ draft'.photos = draft.photos /\ disk'.profile = disk.profile
    PROVE  CreateInv'
  <1>1. ASSUME NEW r \in Reviews PROVE Followed(r)'
    <2>1. Followed(r)
      BY DEF CreateInv
    <2>2. create[r].alone /\ ~Brought(create[r].email) => draft.email = create[r].email /\ FinalOf(create[r].email)
      BY <2>1 DEF Followed
    <2> HIDE DEF Followed
    <2> QED  BY <2>1, <2>2 DEF Followed
  <1>2. \A r, q \in Reviews : create'[r].alone /\ create'[q].at # "idle" => q = r
    BY DEF CreateInv
  <1> QED  BY <1>1, <1>2 DEF CreateInv

\* The wizard.
LEMMA WizardInv ==
    ASSUME Wizard!RegistrationAssumption, RegInv, RegTypeInv',
           \/ \E e \in Emails : Wizard!SubmitCredentials(e)
           \/ Wizard!SubmitProfile \/ Wizard!SubmitInterests \/ Wizard!ChoosePhotos
    PROVE  RegInv'
  <1>1. UNCHANGED <<disk, final, shown>>
    BY DEF Wizard!SubmitCredentials, Wizard!SubmitProfile, Wizard!SubmitInterests,
           Wizard!ChoosePhotos, Wizard!serverVars
  <1>2. \A e : Brought(e) <=> Brought(e)'
    BY <1>1 DEF Brought
  <1>3. \A e : FinalOf(e) <=> FinalOf(e)'
    BY <1>1 DEF FinalOf
  <1>4. FinalInv'
    BY <1>1, <1>2 DEF FinalInv, RegInv
  <1>5. \/ create' = Wizard!Touched
        \/ create' = create /\ draft'.email = draft.email /\ draft'.photos = draft.photos
    <2> USE DEF RegInv, RegTypeInv, Wizard!RegistrationTypeOK
    <2>1. CASE \E e \in Emails : Wizard!SubmitCredentials(e)
      BY <2>1 DEF Wizard!SubmitCredentials
    <2>2. CASE Wizard!SubmitProfile
      BY <2>2 DEF Wizard!SubmitProfile
    <2>3. CASE Wizard!SubmitInterests
      BY <2>3 DEF Wizard!SubmitInterests
    <2>4. CASE Wizard!ChoosePhotos
      BY <2>4 DEF Wizard!ChoosePhotos
    <2> QED  BY <2>1, <2>2, <2>3, <2>4
  <1>t. \A r \in Reviews : /\ create'[r].at = create[r].at /\ create'[r].email = create[r].email
                           /\ create'[r].photos = create[r].photos
                           /\ create'[r].alone => /\ create[r].alone
                                                  /\ draft'.email = draft.email /\ draft'.photos = draft.photos
    BY <1>5, TouchedFact DEF RegInv
  <1>6. CreateInv'
    BY <1>1, <1>2, <1>3, <1>t, CreationsStay DEF RegInv
  <1>7. \/ latest' = Wizard!NoRecord
        \/ latest' = latest /\ draft'.submitted = draft.submitted /\ draft'.email \in {draft.email, latest.email}
    <2> USE DEF RegInv, RegTypeInv, Wizard!RegistrationTypeOK
    <2>1. CASE \E e \in Emails : Wizard!SubmitCredentials(e)
      BY <2>1 DEF Wizard!SubmitCredentials
    <2>2. CASE Wizard!SubmitProfile
      BY <2>2 DEF Wizard!SubmitProfile
    <2>3. CASE Wizard!SubmitInterests
      BY <2>3 DEF Wizard!SubmitInterests
    <2>4. CASE Wizard!ChoosePhotos
      BY <2>4 DEF Wizard!ChoosePhotos
    <2> QED  BY <2>1, <2>2, <2>3, <2>4
  <1>8. LatestInv'
    BY <1>1, <1>2, <1>3, <1>t, <1>7 DEF LatestInv, RegInv
  <1> QED  BY <1>4, <1>6, <1>8 DEF RegInv

\* While a creation runs, no account is the last created.
LEMMA NoLatest ==
    ASSUME RegInv, NEW r \in Reviews, create[r].at # "idle"
    PROVE  latest = Wizard!NoRecord
  BY DEF LatestInv, RegInv

LEMMA CreateBeginsInv ==
    ASSUME Wizard!RegistrationAssumption, RegInv, RegTypeInv', NEW r \in Reviews, Wizard!Create(r)
    PROVE  RegInv'
  <1> USE RegConstants
  <1> DEFINE z == [at |-> "username", email |-> draft.email, photos |-> draft.photos,
                   alone |-> final.at = "idle" /\ \A q \in Reviews : create[q].at = "idle"]
  <1>1. UNCHANGED <<draft, disk, final, shown>> /\ latest' = Wizard!NoRecord
    BY DEF Wizard!Create, Wizard!serverVars
  <1>2. FinalInv'
    BY <1>1 DEF FinalInv, Brought, RegInv
  <1>3. create'[r] = z /\ \A q \in Reviews \ {r} : create'[q] = Wizard!Touched[q]
    <2>1. create' = [Wizard!Touched EXCEPT ![r] = z]
      BY DEF Wizard!Create
    <2> QED  BY <2>1 DEF Wizard!Touched
  <1>4. \A q \in Reviews \ {r} : create'[q].at = create[q].at /\ create'[q].email = create[q].email /\ ~create'[q].alone
    BY <1>3, TouchedFact DEF RegInv
  <1>5. ASSUME create'[r].alone
        PROVE  FinalOf(draft.email)' /\ \A q \in Reviews : create[q].at = "idle"
    <2>1. z.alone
      BY <1>3, <1>5
    <2>3. z.alone = (final.at = "idle" /\ \A q \in Reviews : create[q].at = "idle")
      OBVIOUS
    <2>4. final.at = "idle" /\ \A q \in Reviews : create[q].at = "idle"
      BY ONLY <2>1, <2>3
    <2>2. final' = Wizard!NoCall
      BY <1>1, <2>4 DEF FinalInv, RegInv
    <2> QED  BY <2>2, <2>4 DEF FinalOf
  <1>6. /\ create'[r].at = "username" /\ create'[r].email = draft.email /\ create'[r].photos = draft.photos
    BY <1>3
  <1> HIDE DEF z
  <1>7. Followed(r)'
    BY <1>1, <1>5, <1>6 DEF Followed, FinalOf
  <1>8. \A q \in Reviews \ {r} : Followed(q)'
    BY <1>1, <1>4 DEF Followed, RegInv, CreateInv
  <1>9. CreateInv'
    BY <1>4, <1>5, <1>7, <1>8 DEF CreateInv
  <1> QED  BY <1>1, <1>2, <1>9 DEF RegInv, LatestInv

\* The calls of the last screen.
LEMMA CreateStepInv ==
    ASSUME Wizard!RegistrationAssumption, RegInv, RegTypeInv', NEW r \in Reviews,
           \/ Wizard!CreateChecked(r) \/ Wizard!PersistProfile(r)
           \/ Wizard!PersistVerification(r) \/ Wizard!SignUp(r)
    PROVE  RegInv'
  <1> USE RegConstants
  <1>1. UNCHANGED <<draft, final, shown, latest>>
    BY DEF Wizard!CreateChecked, Wizard!PersistProfile, Wizard!PersistVerification,
           Wizard!SignUp, Wizard!serverVars, Wizard!wizardVars
  <1>2. \A e : Brought(e) <=> Brought(e)'
    BY <1>1 DEF Brought
  <1>3. \A e : FinalOf(e) <=> FinalOf(e)'
    BY <1>1 DEF FinalOf
  <1>4. FinalInv'
    BY <1>1, <1>2 DEF FinalInv, RegInv
  <1>5. create[r].at # "idle"
    BY DEF Wizard!CreateChecked, Wizard!PersistProfile, Wizard!PersistVerification,
           Wizard!SignUp, Wizard!At
  <1>6. latest = Wizard!NoRecord
    BY <1>5, NoLatest
  <1>7. PICK place : create' = Wizard!Goto(r, place)
    BY DEF Wizard!CreateChecked, Wizard!PersistProfile, Wizard!PersistVerification, Wizard!SignUp
  <1>8. /\ create'[r].at = place /\ create'[r].email = create[r].email
        /\ create'[r].photos = create[r].photos /\ create'[r].alone = create[r].alone
        /\ \A q \in Reviews \ {r} : create'[q] = create[q]
    BY <1>7, MovedFact DEF RegInv
  <1>9. \A q \in Reviews \ {r} : ~create[q].alone
    BY <1>5 DEF CreateInv, RegInv
  <1>10. \A q \in Reviews \ {r} : Followed(q)'
    BY <1>8, <1>9 DEF Followed, CreateInv, RegInv
  <1>11. CASE Wizard!PersistProfile(r)
    <2>1. /\ create[r].at = "profile" /\ disk'.profile = [email |-> draft.email, photos |-> draft.photos]
      BY <1>11 DEF Wizard!PersistProfile, Wizard!At, RegInv, RegTypeInv, Wizard!RegistrationTypeOK
    <2>2. create'[r].at = "verify"
      BY <1>11, MovedFact DEF Wizard!PersistProfile, RegInv
    <2>3. Followed(r)
      BY DEF CreateInv, RegInv
    <2>4. Followed(r)'
      BY <1>1, <1>2, <1>3, <1>8, <2>1, <2>2, <2>3 DEF Followed
    <2> QED  BY <1>1, <1>4, <1>5, <1>6, <1>8, <1>9, <1>10, <2>2, <2>4 DEF RegInv, CreateInv, LatestInv
  <1>12. CASE ~Wizard!PersistProfile(r)
    <2>1. disk'.profile = disk.profile
      BY <1>12 DEF Wizard!CreateChecked, Wizard!PersistVerification, Wizard!SignUp,
                   RegInv, RegTypeInv, Wizard!RegistrationTypeOK
    <2>2. \/ create'[r].at = "catch"
          \/ create[r].at = "username" /\ create'[r].at = "profile"
          \/ create[r].at = "verify" /\ create'[r].at = "signup"
          \/ create[r].at = "signup" /\ create'[r].at = "ok" /\ create[r].email # None
      <3>1. CASE Wizard!CreateChecked(r)
        BY <3>1, MovedFact DEF Wizard!CreateChecked, Wizard!At, RegInv
      <3>2. CASE Wizard!PersistVerification(r)
        BY <3>2, MovedFact DEF Wizard!PersistVerification, Wizard!At, RegInv
      <3>3. CASE Wizard!SignUp(r)
        BY <3>3, MovedFact DEF Wizard!SignUp, Wizard!At, RegInv
      <3> QED  BY <1>12, <3>1, <3>2, <3>3
    <2>3. create[r].email \in Emails \cup {None}
      BY CreationFields DEF RegInv, Addresses
    <2>4. Followed(r)
      BY DEF CreateInv, RegInv
    <2>5. Followed(r)'
      BY <1>1, <1>2, <1>3, <1>8, <2>1, <2>2, <2>3, <2>4 DEF Followed
    <2>6. create'[r].at # "idle"
      BY <2>2
    <2> QED  BY <1>1, <1>4, <1>5, <1>6, <1>8, <1>9, <1>10, <2>5, <2>6 DEF RegInv, CreateInv, LatestInv
  <1> QED  BY <1>11, <1>12

LEMMA CreateEndsInv ==
    ASSUME Wizard!RegistrationAssumption, RegInv, RegTypeInv', NEW r \in Reviews,
           Wizard!Created(r) \/ Wizard!CreateFailed(r)
    PROVE  RegInv'
  <1> USE RegConstants
  <1>1. UNCHANGED <<final, shown>> /\ draft'.email = draft.email
    BY DEF Wizard!Created, Wizard!CreateFailed, Wizard!serverVars, RegInv, RegTypeInv,
           Wizard!RegistrationTypeOK
  <1>2. \A e : Brought(e) <=> Brought(e)'
    BY <1>1 DEF Brought
  <1>3. FinalInv'
    BY <1>1, <1>2 DEF FinalInv, RegInv
  <1>4. create[r].at \in {"ok", "catch"}
    BY DEF Wizard!Created, Wizard!CreateFailed, Wizard!At
  <1>5. latest = Wizard!NoRecord
    BY <1>4, NoLatest
  <1>6. /\ create'[r].at = "idle" /\ ~create'[r].alone
        /\ \A q \in Reviews \ {r} : create'[q] = create[q]
    BY OverFact DEF Wizard!Created, Wizard!CreateFailed, RegInv
  <1>7. \A q \in Reviews \ {r} : ~create[q].alone
    BY <1>4 DEF CreateInv, RegInv
  <1>8. \A q \in Reviews : Followed(q)'
    <2>1. Followed(r)'
      BY <1>6 DEF Followed
    <2>2. \A q \in Reviews \ {r} : Followed(q)'
      BY <1>6, <1>7 DEF Followed, CreateInv, RegInv
    <2> QED  BY <2>1, <2>2
  <1>9. CreateInv'
    BY <1>6, <1>7, <1>8 DEF CreateInv
  <1> SUFFICES LatestInv'
    BY <1>3, <1>9 DEF RegInv
  <1>10. CASE Wizard!CreateFailed(r)
    BY <1>5, <1>10 DEF Wizard!CreateFailed, LatestInv
  <1>11. CASE Wizard!Created(r) /\ ~create[r].alone
    BY <1>5, <1>11 DEF Wizard!Created, LatestInv
  <1>12. CASE Wizard!Created(r) /\ create[r].alone
    <2>1. /\ create[r].at = "ok" /\ create[r].email \in Emails /\ UNCHANGED disk
          /\ latest' = [email |-> create[r].email, photos |-> create[r].photos]
      BY <1>12 DEF Wizard!Created, Wizard!At, CreateInv, Followed, RegInv
    <2>2. \A q \in Reviews : create'[q].at = "idle"
      BY <1>6, <1>12 DEF CreateInv, RegInv
    <2>3. latest'.email = create[r].email
      BY <2>1
    <2>4. CASE Brought(create[r].email)
      BY <1>1, <2>1, <2>2, <2>3, <2>4 DEF LatestInv, Brought
    <2>5. CASE ~Brought(create[r].email)
      <3>1. draft.email = create[r].email /\ FinalOf(create[r].email)
            /\ disk.profile = [email |-> create[r].email, photos |-> create[r].photos]
        BY <1>12, <2>1, <2>5 DEF CreateInv, Followed, RegInv
      <3>2. FinalOf(latest.email)'
        BY <1>1, <2>3, <3>1 DEF FinalOf
      <3>3. disk'.profile = latest' /\ draft'.email = latest'.email /\ latest'.email \in Emails
        BY <1>1, <2>1, <2>3, <3>1
      <3> QED  BY <2>2, <3>2, <3>3 DEF LatestInv
    <2> QED  BY <2>4, <2>5
  <1> QED  BY <1>10, <1>11, <1>12

\* A session starts, or is reported again.
LEMMA EnteredInv ==
    ASSUME Wizard!RegistrationAssumption, RegInv, RegTypeInv', NEW e \in Emails, Wizard!Entered(e),
           UNCHANGED <<draft, disk, shown, latest>>
    PROVE  RegInv'
  <1> USE RegConstants
  <1>1. \A a : Brought(a) <=> Brought(a)'
    BY DEF Brought
  <1>2. \A r \in Reviews : /\ create'[r].at = create[r].at /\ create'[r].email = create[r].email
                           /\ create'[r].photos = create[r].photos
                           /\ create'[r].alone => create[r].alone
    <2>1. \A r \in Reviews : create'[r] = [create[r] EXCEPT !.alone = @ /\ create[r].email = e]
      BY DEF Wizard!Entered
    <2> QED  BY <2>1 DEF RegInv, RegTypeInv, Creations
  <1>3. \/ final' = final
        \/ /\ final.at = "idle" /\ final'.at = "read"
           /\ final'.pending = IF draft.submitted THEN [email |-> draft.email, photos |-> draft.photos]
                                                  ELSE Wizard!NoRecord
    BY DEF Wizard!Entered
  <1>4. FinalInv'
    BY <1>1, <1>3 DEF FinalInv, RegInv
  <1>5. ASSUME NEW a, FinalOf(a), draft.submitted => draft.email = a
        PROVE  FinalOf(a)'
    BY <1>3, <1>5 DEF FinalOf
  <1>6. CreateInv'
    BY <1>1, <1>2, <1>5, CreationsStay DEF RegInv
  <1>7. LatestInv'
    BY <1>1, <1>2, <1>5 DEF LatestInv, RegInv
  <1> QED  BY <1>4, <1>6, <1>7 DEF RegInv

LEMMA RestartInv ==
    ASSUME Wizard!RegistrationAssumption, RegInv, RegTypeInv', Wizard!Restart
    PROVE  RegInv'
  <1> USE RegConstants
  <1>1. /\ UNCHANGED <<disk, shown, latest>> /\ ~draft'.submitted
        /\ \A r \in Reviews : create'[r].at = "idle" /\ ~create'[r].alone
        /\ final'.at \in {"idle", "read"} /\ final'.pending = Wizard!NoRecord
        /\ final'.at = "idle" => final' = Wizard!NoCall
    BY DEF Wizard!Restart, Wizard!serverVars, Wizard!NoDraft, Wizard!NoCreate
  <1>2. \A a : Brought(a) <=> Brought(a)'
    BY <1>1 DEF Brought
  <1>3. \A a : FinalOf(a)'
    BY <1>1 DEF FinalOf
  <1>4. FinalInv' /\ CreateInv'
    BY <1>1 DEF FinalInv, CreateInv, Followed
  <1>5. LatestInv'
    BY <1>1, <1>2, <1>3 DEF LatestInv, RegInv
  <1> QED  BY <1>4, <1>5 DEF RegInv

\* The finalization, up to its last step.
LEMMA FinalStepInv ==
    ASSUME Wizard!RegistrationAssumption, RegInv, RegTypeInv',
           Wizard!FinalRead \/ Wizard!FinalUser \/ Wizard!FinalUpload
    PROVE  RegInv'
  <1> USE RegConstants
  <1> DEFINE pending == IF final.pending.photos # 0 THEN final.pending ELSE disk.profile
  <1>1. UNCHANGED <<draft, latest>> /\ disk'.profile = disk.profile
    <2>1. UNCHANGED <<draft, latest>>
      BY DEF Wizard!FinalRead, Wizard!FinalUser, Wizard!FinalUpload, Wizard!wizardVars
    <2>2. disk' = disk \/ Wizard!Ends(disk.profile)
      BY DEF Wizard!FinalRead, Wizard!FinalUser, Wizard!FinalUpload
    <2> QED  BY <2>1, <2>2, EndsFact
  <1>2. \A e \in Emails : shown[e] # 0 => shown'[e] # 0
    <2>1. CASE Wizard!FinalUpload
      <3>1. final.pending.photos # 0
        BY <2>1 DEF Wizard!FinalUpload, FinalInv, RegInv
      <3> QED  BY <2>1, <3>1 DEF Wizard!FinalUpload, RegInv, RegTypeInv, Wizard!RegistrationTypeOK
    <2>2. CASE ~Wizard!FinalUpload
      BY <2>2 DEF Wizard!FinalRead, Wizard!FinalUser, Wizard!serverVars
    <2> QED  BY <2>1, <2>2
  <1>3. \A e : Brought(e) => Brought(e)'
    BY <1>2, BroughtStays
  <1>4. \A r \in Reviews :
           /\ create'[r].at = create[r].at /\ create'[r].email = create[r].email
           /\ create'[r].photos = create[r].photos
           /\ create'[r].alone => create[r].alone
           /\ Wizard!FinalRead /\ create'[r].alone /\ pending.photos # 0 => pending.email = create[r].email
    <2>1. CASE Wizard!FinalRead
      <3> DEFINE B(r) == pending.photos # 0 => pending.email = create[r].email
      <3>1. \A r \in Reviews : create'[r] = [create[r] EXCEPT !.alone = @ /\ B(r)]
        BY <2>1 DEF Wizard!FinalRead
      <3> HIDE DEF B
      <3>2. \A r \in Reviews :
              /\ create'[r].at = create[r].at /\ create'[r].email = create[r].email
              /\ create'[r].photos = create[r].photos
              /\ create'[r].alone => create[r].alone /\ B(r)
        BY <3>1 DEF RegInv, RegTypeInv, Creations
      <3> QED  BY <3>2 DEF B
    <2>2. CASE ~Wizard!FinalRead
      BY <2>2 DEF Wizard!FinalUser, Wizard!FinalUpload
    <2> QED  BY <2>1, <2>2
  <1>5. \/ final' = Wizard!NoCall
        \/ Wizard!FinalRead /\ pending.photos # 0 /\ final' = [at |-> "user", pending |-> pending]
        \/ final' = [final EXCEPT !.at = "upload"] /\ final.at = "user"
        \/ final' = [final EXCEPT !.at = "done"] /\ final.at = "upload" /\ Brought(final.pending.email)'
    <2>1. CASE Wizard!FinalRead
      BY <2>1, EndsFact DEF Wizard!FinalRead
    <2>2. CASE Wizard!FinalUser
      BY <2>2, EndsFact DEF Wizard!FinalUser
    <2>3. CASE Wizard!FinalUpload
      <3>1. final.at = "upload" /\ final.pending.photos # 0
        BY <2>3 DEF Wizard!FinalUpload, FinalInv, RegInv
      <3>2. CASE Wizard!Ends(disk.profile)
        BY <3>2, EndsFact
      <3>3. CASE ~Wizard!Ends(disk.profile)
        <4>1. /\ session = final.pending.email /\ session # None
              /\ shown' = [shown EXCEPT ![session] = final.pending.photos]
              /\ final' = [final EXCEPT !.at = "done"]
          BY <2>3, <3>3 DEF Wizard!FinalUpload
        <4>2. session \in Emails /\ shown \in [Emails -> 0..MaxSets]
          BY <4>1 DEF RegInv, RegTypeInv, Wizard!RegistrationTypeOK
        <4>3. Brought(final.pending.email)'
          <5>1. final'.pending = final.pending
            BY <4>1 DEF RegInv, RegTypeInv
          <5>2. shown'[session] # 0
            BY <3>1, <4>1, <4>2
          <5> QED  BY <4>1, <4>2, <5>1, <5>2 DEF Brought
        <4> QED  BY <3>1, <4>1, <4>3
      <3> QED  BY <3>2, <3>3
    <2> QED  BY <2>1, <2>2, <2>3
  <1>6. final \in [at : {"idle", "read", "user", "upload", "done"}, pending : RegRecords]
    BY DEF RegInv, RegTypeInv
  <1>7. FinalInv'
    <2>1. CASE final' = Wizard!NoCall
      BY <2>1 DEF FinalInv
    <2>2. CASE Wizard!FinalRead /\ pending.photos # 0 /\ final' = [at |-> "user", pending |-> pending]
      BY <2>2 DEF FinalInv
    <2>3. CASE final' = [final EXCEPT !.at = "upload"] /\ final.at = "user"
      BY <1>6, <2>3 DEF FinalInv, RegInv
    <2>4. CASE final' = [final EXCEPT !.at = "done"] /\ final.at = "upload" /\ Brought(final.pending.email)'
      BY <1>6, <2>4 DEF FinalInv, RegInv
    <2> QED  BY <1>5, <2>1, <2>2, <2>3, <2>4
  <1>8. ASSUME NEW a, FinalOf(a), Wizard!FinalRead /\ pending.photos # 0 => pending.email = a
        PROVE  FinalOf(a)'
    BY <1>5, <1>6, <1>8 DEF FinalOf
  <1>9. CreateInv'
    BY <1>1, <1>3, <1>4, <1>8, CreationsStay DEF RegInv
  <1>10. LatestInv'
    <2>1. CASE latest = Wizard!NoRecord
      BY <1>1, <2>1 DEF LatestInv
    <2>2. CASE latest # Wizard!NoRecord /\ Brought(latest.email)
      BY <1>1, <1>3, <1>4, <2>2 DEF LatestInv, RegInv
    <2>3. CASE latest # Wizard!NoRecord /\ ~Brought(latest.email)
      <3>1. /\ (\A r \in Reviews : create[r].at = "idle") /\ latest.email \in Emails /\ disk.profile = latest
            /\ FinalOf(latest.email) /\ (draft.submitted => draft.email = latest.email)
        BY <2>3 DEF LatestInv, RegInv
      <3>2. pending.photos # 0 => pending.email = latest.email
        BY <3>1 DEF FinalOf
      <3>3. \A a : a = latest.email => FinalOf(a)'
        BY <1>8, <3>1, <3>2 DEF FinalOf
      <3>4. FinalOf(latest.email)'
        BY <1>1, <3>3 DEF FinalOf
      <3> QED  BY <1>1, <1>4, <3>1, <3>4 DEF LatestInv
    <2> QED  BY <2>1, <2>2, <2>3
  <1> QED  BY <1>7, <1>9, <1>10 DEF RegInv

\* The draft and the record are dropped: the profile has the photos of the
\* only address that they can be of.
LEMMA FinalizedInv ==
    ASSUME Wizard!RegistrationAssumption, RegInv, RegTypeInv', Wizard!Finalized
    PROVE  RegInv'
  <1> USE RegConstants
  <1>1. UNCHANGED <<create, shown, latest>> /\ final' = Wizard!NoCall
    BY EndsFact DEF Wizard!Finalized, Wizard!serverVars
  <1>2. Brought(final.pending.email) /\ final.pending.photos # 0
    BY DEF Wizard!Finalized, FinalInv, RegInv
  <1>3. \A a : Brought(a) <=> Brought(a)'
    BY <1>1 DEF Brought
  <1>4. \A a : FinalOf(a) => Brought(a)
    BY <1>2 DEF FinalOf
  <1>5. FinalInv'
    BY <1>1 DEF FinalInv
  <1>6. CreateInv'
    BY <1>1, <1>3, <1>4 DEF CreateInv, Followed, RegInv
  <1>7. LatestInv'
    BY <1>1, <1>3, <1>4 DEF LatestInv, RegInv
  <1> QED  BY <1>5, <1>6, <1>7 DEF RegInv

LEMMA RegBegins ==
    ASSUME Wizard!RegistrationAssumption, Wizard!Init
    PROVE  RegInv
  <1> USE RegConstants DEF Wizard!Init
  <1>1. RegTypeInv
    <2>1. Wizard!NoDraft \in [email : Addresses, basics : BOOLEAN, details : BOOLEAN,
                       photos : 0..MaxSets, submitted : BOOLEAN]
      BY DEF Wizard!NoDraft, Addresses
    <2>2. Wizard!NoCreate \in Creations
      BY DEF Wizard!NoCreate, Addresses, Creations
    <2>3. Wizard!NoCall \in [at : {"idle", "read", "user", "upload", "done"}, pending : RegRecords]
      BY DEF Wizard!NoCall
    <2>4. create \in [Reviews -> Creations] /\ \A r \in Reviews : create[r].at = "idle"
      BY <2>2 DEF Wizard!NoCreate
    <2> QED  BY <2>1, <2>2, <2>3, <2>4 DEF RegTypeInv, Wizard!RegistrationTypeOK, RegRecords, Addresses
  <1>2. FinalInv /\ CreateInv /\ LatestInv
    BY DEF FinalInv, CreateInv, Followed, LatestInv, Wizard!NoCreate
  <1> QED  BY <1>1, <1>2 DEF RegInv

LEMMA RegKept ==
    ASSUME Wizard!RegistrationAssumption, RegInv, [Wizard!Next]_(Wizard!vars)
    PROVE  RegInv'
  <1>1. RegTypeInv'
    BY RegTypes DEF RegInv
  <1>2. CASE \/ \E e \in Emails : Wizard!SubmitCredentials(e)
             \/ Wizard!SubmitProfile \/ Wizard!SubmitInterests \/ Wizard!ChoosePhotos
    BY <1>1, <1>2, WizardInv
  <1>3. ASSUME NEW r \in Reviews,
               \/ Wizard!Create(r) \/ Wizard!CreateChecked(r) \/ Wizard!PersistProfile(r)
               \/ Wizard!PersistVerification(r) \/ Wizard!SignUp(r)
               \/ Wizard!Created(r) \/ Wizard!CreateFailed(r)
        PROVE  RegInv'
    BY <1>1, <1>3, CreateBeginsInv, CreateStepInv, CreateEndsInv
  <1>4. CASE \/ \E e \in Emails : Wizard!OpenLink(e) \/ Wizard!SignIn(e)
             \/ Wizard!Reported
    <2>1. UNCHANGED <<draft, disk, shown, latest>>
      BY <1>4 DEF Wizard!OpenLink, Wizard!SignIn, Wizard!Reported, Wizard!serverVars
    <2>2. \E e \in Emails : Wizard!Entered(e)
      BY <1>4 DEF Wizard!OpenLink, Wizard!SignIn, Wizard!Reported, RegInv, RegTypeInv,
                  Wizard!RegistrationTypeOK
    <2> QED  BY <1>1, <2>1, <2>2, EnteredInv
  <1>5. CASE Wizard!Restart
    BY <1>1, <1>5, RestartInv
  <1>6. CASE Wizard!FinalRead \/ Wizard!FinalUser \/ Wizard!FinalUpload
    BY <1>1, <1>6, FinalStepInv
  <1>7. CASE Wizard!Finalized
    BY <1>1, <1>7, FinalizedInv
  <1>8. CASE \/ \E e \in Emails : Wizard!VerifyElsewhere(e) \/ Wizard!Resend(e)
             \/ Wizard!ToReview \/ Wizard!Navigate \/ Wizard!SignOut \/ UNCHANGED Wizard!vars
    <2>1. UNCHANGED <<draft, disk, create, final, shown, latest>>
      BY <1>8 DEF Wizard!VerifyElsewhere, Wizard!Resend, Wizard!ToReview, Wizard!Navigate,
                  Wizard!SignOut, Wizard!vars, Wizard!wizardVars, Wizard!serverVars
    <2> QED  BY <1>1, <2>1, RegApart
  <1>9. CASE Wizard!VerificationExpires
    <2>1. UNCHANGED <<draft, create, final, shown, latest>> /\ disk'.profile = disk.profile
      BY <1>9 DEF Wizard!VerificationExpires, Wizard!wizardVars, Wizard!serverVars,
                  RegInv, RegTypeInv, Wizard!RegistrationTypeOK
    <2>2. (\A e : Brought(e) <=> Brought(e)') /\ (\A e : FinalOf(e) <=> FinalOf(e)')
      BY <2>1 DEF Brought, FinalOf
    <2>3. FinalInv' /\ CreateInv' /\ LatestInv'
      BY <2>1, <2>2 DEF RegInv, FinalInv, CreateInv, Followed, LatestInv
    <2> QED  BY <1>1, <2>3 DEF RegInv
  <1> QED
    BY <1>2, <1>3, <1>4, <1>5, <1>6, <1>7, <1>8, <1>9 DEF Wizard!Next

-----------------------------------------------------------------------------
(* The own profile and the settings *)

FieldNames == {"matching", "age", "text", "interests"}

\* The fields that the query q shows.
Fields(q) == IF q = "settings" THEN {"matching"} ELSE FieldNames

JobRecords == [kind : Own!Kinds \cup {"none"}, at : {"idle", "sent", "half", "done", "late"},
               value : BOOLEAN, had : BOOLEAN, back : BOOLEAN, here : BOOLEAN]

\* What x holds outside the fields of the query q.
Bare(q, x) == q = "settings" => ~x.age /\ ~x.text /\ ~x.interests

FormsTypeInv ==
    /\ Own!FormsTypeOK
    /\ mutation \in [Slots -> JobRecords]
    /\ \A s \in Slots : mutation[s].at # "idle" => mutation[s].kind \in Own!Kinds
    /\ \A q \in Own!Pages : Bare(q, cache[q].data) /\ Bare(q, cache[q].got)

\* The mutation j accounts for a field of the query q that is shown otherwise
\* than it is stored: when it is settled, it rolls back, invalidates or marks.
Covers(j, q, f) ==
    /\ f \in Fields(q)
    /\ \/ j.kind = "matching" /\ j.at \in {"sent", "half", "done"} /\ f = "matching"
       \/ j.kind = "age" /\ j.at = "sent" /\ f = "age"
       \/ j.kind \in Own!Forms /\ j.at \in {"sent", "half", "done"} /\ f # "matching"
Covered(q, f) == \E s \in Slots : Covers(mutation[s], q, f)

\* So it is with what a query shows, and with the answer that is under way.
DataAt(q, f) ==
    /\ q \notin missed /\ q \notin invalid
    /\ cache[q].loaded /\ cache[q].data[f] # row[f]
    => Covered(q, f)
GotAt(q, f) ==
    q \notin missed /\ cache[q].fetch = "served" /\ cache[q].got[f] # row[f] => Covered(q, f)

FormsInv == FormsTypeInv /\ \A q \in Own!Pages : \A f \in Fields(q) : DataAt(q, f) /\ GotAt(q, f)

-----------------------------------------------------------------------------
(* The own profile: profiles and queries *)

LEMMA PutFact ==
    ASSUME NEW p \in Own!Profiles, NEW f \in FieldNames, NEW v, v \in BOOLEAN
    PROVE  /\ [p EXCEPT ![f] = v] \in Own!Profiles
           /\ [p EXCEPT ![f] = v][f] = v
           /\ \A g \in FieldNames : g # f => [p EXCEPT ![f] = v][g] = p[g]
  <1>1. CASE f = "matching"
    BY <1>1 DEF Own!Profiles, FieldNames
  <1>2. CASE f = "age"
    BY <1>2 DEF Own!Profiles, FieldNames
  <1>3. CASE f = "text"
    BY <1>3 DEF Own!Profiles, FieldNames
  <1>4. CASE f = "interests"
    BY <1>4 DEF Own!Profiles, FieldNames
  <1> QED  BY <1>1, <1>2, <1>3, <1>4 DEF FieldNames

\* What a query shows of a profile are its fields, and nothing else.
LEMMA ViewFact ==
    ASSUME NEW q \in Own!Pages, NEW p \in Own!Profiles
    PROVE  /\ Own!View(q, p) \in Own!Profiles /\ Bare(q, Own!View(q, p))
           /\ \A f \in Fields(q) : Own!View(q, p)[f] = p[f]
  <1>1. CASE q = "settings"
    <2> DEFINE v == [Own!Blank EXCEPT !.matching = p.matching]
    <2>1. /\ v \in Own!Profiles /\ v["matching"] = p["matching"] /\ ~v.age /\ ~v.text /\ ~v.interests
      BY DEF Own!Profiles, Own!Blank
    <2>2. Own!View(q, p) = v
      BY <1>1 DEF Own!View
    <2> HIDE DEF v
    <2> QED  BY <1>1, <2>1, <2>2 DEF Bare, Fields
  <1>2. CASE q = "current"
    BY <1>2 DEF Own!View, Bare
  <1> QED  BY <1>1, <1>2 DEF Own!Pages

LEMMA BlankFact ==
    /\ Own!Blank \in Own!Profiles
    /\ \A q \in Own!Pages : Bare(q, Own!Blank) /\ Own!View(q, Own!Blank) = Own!Blank
  BY DEF Own!Blank, Own!Profiles, Bare, Own!View, Own!Pages

\* The data that agree with a profile on the fields of the query show it.
LEMMA SameView ==
    ASSUME NEW q \in Own!Pages, NEW p \in Own!Profiles, NEW x \in Own!Profiles, Bare(q, x),
           \A f \in Fields(q) : x[f] = p[f]
    PROVE  x = Own!View(q, p)
  <1>1. CASE q = "settings"
    <2>1. x["matching"] = p["matching"] /\ ~x.age /\ ~x.text /\ ~x.interests
      BY <1>1 DEF Bare, Fields
    <2>2. Own!View(q, p) = [Own!Blank EXCEPT !.matching = p.matching]
      BY <1>1 DEF Own!View
    <2> QED  BY <2>1, <2>2 DEF Own!Profiles, Own!Blank
  <1>2. CASE q = "current"
    BY <1>2 DEF Own!View, Own!Profiles, Bare, Fields, FieldNames
  <1> QED  BY <1>1, <1>2 DEF Own!Pages

LEMMA PutBare ==
    ASSUME NEW q \in Own!Pages, NEW p \in Own!Profiles, Bare(q, p), NEW f \in Fields(q), NEW v \in BOOLEAN
    PROVE  Bare(q, [p EXCEPT ![f] = v])
  <1>1. CASE q = "settings"
    <2>1. f = "matching"
      BY <1>1 DEF Fields
    <2> QED  BY <2>1 DEF Bare, Own!Profiles
  <1>2. CASE q # "settings"
    BY <1>2 DEF Bare
  <1> QED  BY <1>1, <1>2

\* The mutations under way: one of them changes.
LEMMA CoveredStays ==
    ASSUME mutation \in [Slots -> JobRecords], NEW s \in Slots, NEW j, mutation' = [mutation EXCEPT ![s] = j],
           NEW q, NEW f, Covers(mutation[s], q, f) => Covers(j, q, f), Covered(q, f)
    PROVE  Covered(q, f)'
  BY DEF Covered

LEMMA IdleCovers ==
    ASSUME NEW j, j.at \in {"idle", "late"} \/ j.kind \in {"hub", "none"}, NEW q, NEW f
    PROVE  ~Covers(j, q, f)
  BY DEF Covers, Own!Forms

LEMMA FieldsFact ==
    /\ \A q \in Own!Pages : Fields(q) \subseteq FieldNames
    /\ "matching" \in Fields("settings") /\ \A f \in FieldNames : f \in Fields("current")
    /\ \A f \in Fields("settings") : f = "matching"
    /\ \A q \in Own!Pages : q = "settings" \/ q = "current"
  BY DEF Fields, FieldNames, Own!Pages

-----------------------------------------------------------------------------
(* The own profile: the types *)

LEMMA FieldType ==
    ASSUME NEW j \in JobRecords, j.kind \in Own!Kinds
    PROVE  Own!Field(j) \in FieldNames
  BY DEF Own!Field, JobRecords, Own!Kinds, FieldNames

LEMMA NoJobFact == Own!NoJob \in JobRecords /\ Own!NoJob.at = "idle" /\ Own!NoJob.kind = "none"
  BY DEF Own!NoJob, JobRecords

\* One slot gets a mutation, or none.
LEMMA SlotType ==
    ASSUME FormsTypeInv, NEW s \in Slots, NEW j \in JobRecords, mutation' = [mutation EXCEPT ![s] = j],
           j = Own!NoJob \/ (j.at # "idle" /\ j.kind \in Own!Kinds)
    PROVE  /\ mutation' \in [Slots -> JobRecords]
           /\ \A t \in Slots : mutation'[t].at # "idle" => mutation'[t].kind \in Own!Kinds
           /\ \A t \in Slots : /\ mutation'[t].kind \in Own!Kinds \cup {"none"}
                               /\ mutation'[t].at \in {"idle", "sent", "half", "done", "late"}
                               /\ mutation'[t].at = "idle" <=> mutation'[t] = Own!NoJob
  <1>1. mutation' \in [Slots -> JobRecords]
    BY DEF FormsTypeInv
  <1>2. \A t \in Slots : mutation'[t] = IF t = s THEN j ELSE mutation[t]
    BY DEF FormsTypeInv
  <1>3. \A t \in Slots : mutation'[t].at # "idle" => mutation'[t].kind \in Own!Kinds
    BY <1>2, NoJobFact DEF FormsTypeInv
  <1>4. \A t \in Slots : mutation'[t].at = "idle" <=> mutation'[t] = Own!NoJob
    BY <1>2, NoJobFact DEF FormsTypeInv, Own!FormsTypeOK
  <1>5. \A t \in Slots : /\ mutation'[t].kind \in Own!Kinds \cup {"none"}
                         /\ mutation'[t].at \in {"idle", "sent", "half", "done", "late"}
    BY <1>1 DEF JobRecords
  <1> QED  BY <1>1, <1>3, <1>4, <1>5

\* One query changes.
LEMMA PageType ==
    ASSUME FormsTypeInv, NEW q \in Own!Pages, NEW c \in Own!Queries(Own!Profiles), Bare(q, c.data), Bare(q, c.got),
           cache' = [cache EXCEPT ![q] = c]
    PROVE  /\ cache' \in [Own!Pages -> Own!Queries(Own!Profiles)]
           /\ \A p \in Own!Pages : Bare(p, cache'[p].data) /\ Bare(p, cache'[p].got)
  <1>1. \A p \in Own!Pages : cache'[p] = IF p = q THEN c ELSE cache[p]
    BY DEF FormsTypeInv, Own!FormsTypeOK
  <1> QED  BY <1>1 DEF FormsTypeInv, Own!FormsTypeOK

\* What the operations of QueryCache do.
LEMMA RefetchedFact ==
    ASSUME NEW c \in Own!Queries(Own!Profiles)
    PROVE  /\ Own!Refetched(c) \in Own!Queries(Own!Profiles) /\ Own!Refetched(c).data = c.data
           /\ Own!Refetched(c).got = c.got /\ Own!Refetched(c).loaded = c.loaded
           /\ Own!Refetched(c) = c \/ Own!Refetched(c).fetch = "sent"
           /\ ~Own!Joins(c) => Own!Refetched(c).fetch = "sent"
  BY DEF Own!Queries, Own!Refetched, Own!Joins

LEMMA SentFact ==
    ASSUME NEW c \in Own!Queries(Own!Profiles)
    PROVE  LET d == [c EXCEPT !.fetch = "sent"]
           IN  /\ d \in Own!Queries(Own!Profiles) /\ d.data = c.data /\ d.got = c.got
               /\ d.loaded = c.loaded /\ d.fetch = "sent"
  BY DEF Own!Queries

LEMMA CancelledFact ==
    ASSUME NEW c \in Own!Queries(Own!Profiles), NEW v \in Own!Profiles
    PROVE  /\ Own!Cancelled(c, v) \in Own!Queries(Own!Profiles) /\ Own!Cancelled(c, v).data = c.data
           /\ Own!Cancelled(c, v).got = v /\ Own!Cancelled(c, v).loaded = c.loaded
           /\ Own!Cancelled(c, v).fetch = "idle"
  BY DEF Own!Queries, Own!Cancelled

LEMMA ServedFact ==
    ASSUME NEW c \in Own!Queries(Own!Profiles), NEW v \in Own!Profiles
    PROVE  /\ Own!Served(c, v) \in Own!Queries(Own!Profiles) /\ Own!Served(c, v).data = c.data
           /\ Own!Served(c, v).got = v /\ Own!Served(c, v).loaded = c.loaded
  BY DEF Own!Queries, Own!Served

LEMMA ArrivedFact ==
    ASSUME NEW c \in Own!Queries(Own!Profiles), NEW v \in Own!Profiles
    PROVE  /\ Own!Arrived(c, v) \in Own!Queries(Own!Profiles) /\ Own!Arrived(c, v).data = c.got
           /\ Own!Arrived(c, v).got = v /\ Own!Arrived(c, v).fetch = "idle"
  BY DEF Own!Queries, Own!Arrived

LEMMA UpdatedFact ==
    ASSUME NEW c \in Own!Queries(Own!Profiles), NEW v \in Own!Profiles
    PROVE  /\ Own!Updated(c, v) \in Own!Queries(Own!Profiles) /\ Own!Updated(c, v).loaded = c.loaded
           /\ c.loaded => Own!Updated(c, v).data = v
           /\ ~c.loaded => Own!Updated(c, v) = c
           /\ Own!Updated(c, v).fetch = c.fetch /\ Own!Updated(c, v).got = c.got
  BY DEF Own!Queries, Own!Updated, Own!Written

Caches == [Own!Pages -> Own!Queries(Own!Profiles)]
BareCache(c) == \A q \in Own!Pages : Bare(q, c[q].data) /\ Bare(q, c[q].got)

LEMMA WriteFact ==
    ASSUME NEW c \in Caches, BareCache(c), NEW q \in Own!Pages, NEW f \in Fields(q), NEW v \in BOOLEAN
    PROVE  /\ Own!Write(c, q, f, v) \in Caches /\ BareCache(Own!Write(c, q, f, v))
           /\ \A p \in Own!Pages : /\ Own!Write(c, q, f, v)[p].loaded = c[p].loaded
                                   /\ Own!Write(c, q, f, v)[p].fetch = c[p].fetch
                                   /\ Own!Write(c, q, f, v)[p].got = c[p].got
           /\ \A p \in Own!Pages : p # q => Own!Write(c, q, f, v)[p] = c[p]
           /\ \A g \in FieldNames : g # f => Own!Write(c, q, f, v)[q].data[g] = c[q].data[g]
  <1> DEFINE d == [c[q].data EXCEPT ![f] = v]
  <1>1. c[q] \in Own!Queries(Own!Profiles) /\ c[q].data \in Own!Profiles /\ Bare(q, c[q].data) /\ Bare(q, c[q].got)
    BY DEF Caches, BareCache, Own!Queries
  <1>2. f \in FieldNames
    BY FieldsFact
  <1>3. /\ d \in Own!Profiles /\ Bare(q, d)
        /\ \A g \in FieldNames : g # f => d[g] = c[q].data[g]
    BY <1>1, <1>2, PutFact, PutBare
  <1>4. Own!Write(c, q, f, v) = [c EXCEPT ![q] = Own!Updated(c[q], d)]
    BY DEF Own!Write, Caches
  <1> HIDE DEF d
  <1>5. /\ Own!Updated(c[q], d) \in Own!Queries(Own!Profiles) /\ Own!Updated(c[q], d).loaded = c[q].loaded
        /\ (c[q].loaded => Own!Updated(c[q], d).data = d) /\ (~c[q].loaded => Own!Updated(c[q], d) = c[q])
        /\ Own!Updated(c[q], d).fetch = c[q].fetch /\ Own!Updated(c[q], d).got = c[q].got
    BY <1>1, <1>3, UpdatedFact
  <1>6. \A p \in Own!Pages : Own!Write(c, q, f, v)[p] = IF p = q THEN Own!Updated(c[q], d) ELSE c[p]
    BY <1>4 DEF Caches
  <1>7. Own!Write(c, q, f, v) \in Caches
    BY <1>4, <1>5 DEF Caches
  <1>8. Own!Updated(c[q], d).data \in {d, c[q].data}
    BY <1>1, <1>5 DEF Own!Queries
  <1>9. BareCache(Own!Write(c, q, f, v))
    BY <1>1, <1>3, <1>5, <1>6, <1>8 DEF BareCache
  <1> QED  BY <1>3, <1>5, <1>6, <1>7, <1>8, <1>9

-----------------------------------------------------------------------------
(* The own profile: the screens *)

LEMMA Apart ==
    ASSUME FormsInv, FormsTypeInv', UNCHANGED row,
           \A q \in Own!Pages : \A f \in Fields(q) : Covered(q, f) => Covered(q, f)',
           \A q \in Own!Pages : /\ q \notin missed' => q \notin missed
                                /\ q \notin missed' /\ q \notin invalid' => q \notin invalid
                                /\ cache'[q].loaded => cache[q].loaded /\ cache'[q].data = cache[q].data
                                /\ cache'[q].fetch = "served" =>
                                     cache[q].fetch = "served" /\ cache'[q].got = cache[q].got
    PROVE  FormsInv'
  <1>1. ASSUME NEW q \in Own!Pages, NEW f \in Fields(q)
        PROVE  DataAt(q, f)' /\ GotAt(q, f)'
    BY <1>1 DEF FormsInv, DataAt, GotAt
  <1>2. \A q \in Own!Pages : \A f \in Fields(q)' : DataAt(q, f)' /\ GotAt(q, f)'
    BY <1>1 DEF Fields
  <1> QED  BY <1>2 DEF FormsInv

LEMMA OpenInv ==
    ASSUME Own!ProfileFormsAssumption, FormsInv, NEW q \in Own!Pages, Own!Open(q)
    PROVE  FormsInv'
  <1>1. cache[q] \in Own!Queries(Own!Profiles) /\ Bare(q, cache[q].data) /\ Bare(q, cache[q].got)
    BY DEF FormsInv, FormsTypeInv, Own!FormsTypeOK
  <1> DEFINE c == [cache[q] EXCEPT !.fetch = "sent"]
  <1>2. /\ c \in Own!Queries(Own!Profiles) /\ c.data = cache[q].data /\ c.got = cache[q].got
        /\ c.loaded = cache[q].loaded /\ c.fetch = "sent"
    BY <1>1, SentFact
  <1>3. \/ cache' = [cache EXCEPT ![q] = c] \/ cache' = cache
    BY DEF Own!Open
  <1> HIDE DEF c
  <1>4. loads' \in 0..MaxLoads /\ visible' \subseteq Own!Pages /\ UNCHANGED <<row, invalid, mutation, missed, taps>>
    BY DEF Own!Open, FormsInv, FormsTypeInv, Own!FormsTypeOK, Own!ProfileFormsAssumption
  <1>5. FormsTypeInv'
    <2>1. cache' \in [Own!Pages -> Own!Queries(Own!Profiles)]
          /\ \A p \in Own!Pages : Bare(p, cache'[p].data) /\ Bare(p, cache'[p].got)
      BY <1>1, <1>2, <1>3, PageType DEF FormsInv, FormsTypeInv, Own!FormsTypeOK
    <2> QED  BY <1>4, <2>1 DEF FormsInv, FormsTypeInv, Own!FormsTypeOK, Bare
  <1>6. \A p \in Own!Pages : cache'[p] = IF p = q /\ cache' # cache THEN c ELSE cache[p]
    BY <1>3 DEF FormsInv, FormsTypeInv, Own!FormsTypeOK
  <1>7. \A p \in Own!Pages : \A f \in Fields(p) : Covered(p, f) => Covered(p, f)'
    BY <1>4 DEF Covered
  <1> QED  BY <1>2, <1>4, <1>5, <1>6, <1>7, Apart

LEMMA CloseInv ==
    ASSUME FormsInv, NEW q \in Own!Pages, Own!Close(q)
    PROVE  FormsInv'
  <1> DEFINE kind == IF q = "settings" THEN "matching" ELSE "age"
  <1>1. /\ mutation' = [s \in Slots |-> IF mutation[s].kind = kind THEN [mutation[s] EXCEPT !.here = FALSE] ELSE mutation[s]]
        /\ visible' \subseteq Own!Pages /\ UNCHANGED <<row, cache, invalid, missed, taps, loads>>
    BY DEF Own!Close, FormsInv, FormsTypeInv, Own!FormsTypeOK
  <1>2. ASSUME NEW s \in Slots
        PROVE  /\ mutation'[s] \in JobRecords /\ mutation'[s].kind = mutation[s].kind
               /\ mutation'[s].at = mutation[s].at
               /\ mutation[s] = Own!NoJob => mutation'[s] = Own!NoJob
    <2>1. mutation'[s] \in {mutation[s], [mutation[s] EXCEPT !.here = FALSE]} /\ mutation[s] \in JobRecords
      BY <1>1 DEF FormsInv, FormsTypeInv
    <2>2. mutation[s] = Own!NoJob => mutation'[s] = Own!NoJob
      BY <1>1 DEF Own!NoJob
    <2> QED  BY <2>1, <2>2 DEF JobRecords
  <1>3. mutation' \in [Slots -> JobRecords]
    BY <1>1, <1>2
  <1>4. FormsTypeInv'
    BY <1>1, <1>2, <1>3, NoJobFact DEF FormsInv, FormsTypeInv, Own!FormsTypeOK, Bare
  <1>5. \A p \in Own!Pages : \A f \in Fields(p) : Covered(p, f) => Covered(p, f)'
    BY <1>2 DEF Covered, Covers, Fields
  <1> QED  BY <1>1, <1>4, <1>5, Apart

LEMMA FailFetchInv ==
    ASSUME FormsInv, NEW q \in Own!Pages, Own!FailFetch(q)
    PROVE  FormsInv'
  <1>1. cache[q] \in Own!Queries(Own!Profiles) /\ Bare(q, cache[q].data)
    BY DEF FormsInv, FormsTypeInv, Own!FormsTypeOK
  <1>2. /\ Own!Cancelled(cache[q], Own!Blank) \in Own!Queries(Own!Profiles)
        /\ Own!Cancelled(cache[q], Own!Blank).data = cache[q].data
        /\ Own!Cancelled(cache[q], Own!Blank).got = Own!Blank
        /\ Own!Cancelled(cache[q], Own!Blank).loaded = cache[q].loaded
        /\ Own!Cancelled(cache[q], Own!Blank).fetch = "idle"
    BY <1>1, BlankFact, CancelledFact
  <1>3. /\ cache' = [cache EXCEPT ![q] = Own!Cancelled(cache[q], Own!Blank)]
        /\ UNCHANGED <<row, invalid, visible, mutation, missed, taps, loads>>
    BY DEF Own!FailFetch, FormsInv, FormsTypeInv, Own!FormsTypeOK
  <1>4. cache' \in [Own!Pages -> Own!Queries(Own!Profiles)]
          /\ \A p \in Own!Pages : Bare(p, cache'[p].data) /\ Bare(p, cache'[p].got)
    BY <1>1, <1>2, <1>3, BlankFact, PageType DEF FormsInv
  <1>5. FormsTypeInv'
    BY <1>3, <1>4 DEF FormsInv, FormsTypeInv, Own!FormsTypeOK, Bare
  <1>6. \A p \in Own!Pages : cache'[p] = IF p = q THEN Own!Cancelled(cache[q], Own!Blank) ELSE cache[p]
    BY <1>3 DEF FormsInv, FormsTypeInv, Own!FormsTypeOK
  <1>7. \A p \in Own!Pages : \A f \in Fields(p) : Covered(p, f) => Covered(p, f)'
    BY <1>3 DEF Covered
  <1> QED  BY <1>2, <1>3, <1>5, <1>6, <1>7, Apart

LEMMA ServeInv ==
    ASSUME FormsInv, NEW q \in Own!Pages, Own!Serve(q)
    PROVE  FormsInv'
  <1>1. PICK interests \in {row.interests, FALSE} :
          LET read == Own!View(q, [row EXCEPT !.interests = interests]) IN
          /\ cache' = [cache EXCEPT ![q] = Own!Served(@, read)]
          /\ missed' = IF read = Own!View(q, row) THEN missed ELSE missed \cup {q}
    BY DEF Own!Serve
  <1> DEFINE p == [row EXCEPT !.interests = interests]
             read == Own!View(q, p)
  <1>2. row \in Own!Profiles /\ p \in Own!Profiles
    BY DEF FormsInv, FormsTypeInv, Own!FormsTypeOK, Own!Profiles
  <1>3. /\ read \in Own!Profiles /\ Bare(q, read)
        /\ \A f \in Fields(q) : Own!View(q, row)[f] = row[f]
    BY <1>2, ViewFact
  <1>4. cache[q] \in Own!Queries(Own!Profiles) /\ Bare(q, cache[q].data)
    BY DEF FormsInv, FormsTypeInv, Own!FormsTypeOK
  <1>5. /\ cache' = [cache EXCEPT ![q] = Own!Served(cache[q], read)]
        /\ missed' = (IF read = Own!View(q, row) THEN missed ELSE missed \cup {q})
        /\ UNCHANGED <<row, invalid, visible, mutation, taps, loads>>
    BY <1>1 DEF Own!Serve, FormsInv, FormsTypeInv, Own!FormsTypeOK
  <1> HIDE DEF read, p
  <1>6. /\ Own!Served(cache[q], read) \in Own!Queries(Own!Profiles)
        /\ Own!Served(cache[q], read).data = cache[q].data
        /\ Own!Served(cache[q], read).got = read /\ Own!Served(cache[q], read).loaded = cache[q].loaded
    BY <1>3, <1>4, ServedFact
  <1>7. cache' \in [Own!Pages -> Own!Queries(Own!Profiles)]
          /\ \A r \in Own!Pages : Bare(r, cache'[r].data) /\ Bare(r, cache'[r].got)
    BY <1>3, <1>4, <1>5, <1>6, PageType DEF FormsInv
  <1>8. FormsTypeInv'
    BY <1>5, <1>7 DEF FormsInv, FormsTypeInv, Own!FormsTypeOK, Bare
  <1>9. \A r \in Own!Pages : cache'[r] = IF r = q THEN Own!Served(cache[q], read) ELSE cache[r]
    BY <1>5 DEF FormsInv, FormsTypeInv, Own!FormsTypeOK
  <1>10. ASSUME NEW r \in Own!Pages, NEW f \in Fields(r)
         PROVE  DataAt(r, f)' /\ GotAt(r, f)'
    <2>1. Covered(r, f) => Covered(r, f)'
      BY <1>5 DEF Covered
    <2>2. DataAt(r, f) /\ GotAt(r, f)
      BY DEF FormsInv
    <2>3. CASE r # q
      BY <1>5, <1>9, <2>1, <2>2, <2>3 DEF DataAt, GotAt
    <2>4. CASE r = q
      <3>1. DataAt(r, f)'
        BY <1>5, <1>6, <1>9, <2>1, <2>2, <2>4 DEF DataAt
      <3>2. q \notin missed' => cache'[q].got[f] = row[f]
        BY <1>3, <1>5, <1>6, <1>9, <2>4
      <3>3. GotAt(r, f)'
        BY <1>5, <2>4, <3>2 DEF GotAt
      <3> QED  BY <3>1, <3>3
    <2> QED  BY <2>3, <2>4
  <1> QED  BY <1>8, <1>10 DEF FormsInv, Fields

LEMMA ArriveInv ==
    ASSUME FormsInv, NEW q \in Own!Pages, Own!Arrive(q)
    PROVE  FormsInv'
  <1>1. row \in Own!Profiles /\ cache[q] \in Own!Queries(Own!Profiles) /\ Bare(q, cache[q].got)
    BY DEF FormsInv, FormsTypeInv, Own!FormsTypeOK
  <1>2. /\ cache' = [cache EXCEPT ![q] = Own!Arrived(cache[q], Own!Blank)]
        /\ invalid' = invalid \ {q}
        /\ missed' = (IF cache[q].got = Own!View(q, row) THEN missed \ {q} ELSE missed)
        /\ UNCHANGED <<row, visible, mutation, taps, loads>> /\ cache[q].fetch = "served"
    BY DEF Own!Arrive, FormsInv, FormsTypeInv, Own!FormsTypeOK
  <1>3. /\ Own!Arrived(cache[q], Own!Blank) \in Own!Queries(Own!Profiles)
        /\ Own!Arrived(cache[q], Own!Blank).data = cache[q].got
        /\ Own!Arrived(cache[q], Own!Blank).got = Own!Blank
        /\ Own!Arrived(cache[q], Own!Blank).fetch = "idle"
    BY <1>1, BlankFact, ArrivedFact
  <1>4. cache' \in [Own!Pages -> Own!Queries(Own!Profiles)]
          /\ \A r \in Own!Pages : Bare(r, cache'[r].data) /\ Bare(r, cache'[r].got)
    BY <1>1, <1>2, <1>3, BlankFact, PageType DEF FormsInv
  <1>5. FormsTypeInv'
    BY <1>2, <1>4 DEF FormsInv, FormsTypeInv, Own!FormsTypeOK, Bare
  <1>6. \A r \in Own!Pages : cache'[r] = IF r = q THEN Own!Arrived(cache[q], Own!Blank) ELSE cache[r]
    BY <1>2 DEF FormsInv, FormsTypeInv, Own!FormsTypeOK
  <1>7. ASSUME NEW r \in Own!Pages, NEW f \in Fields(r)
        PROVE  DataAt(r, f)' /\ GotAt(r, f)'
    <2>1. Covered(r, f) => Covered(r, f)'
      BY <1>2 DEF Covered
    <2>2. DataAt(r, f) /\ GotAt(r, f)
      BY DEF FormsInv
    <2>3. CASE r # q
      BY <1>2, <1>6, <2>1, <2>2, <2>3 DEF DataAt, GotAt
    <2>4. CASE r = q
      <3>1. GotAt(r, f)'
        BY <1>3, <1>6, <2>4 DEF GotAt
      <3>2. cache[q].got = Own!View(q, row) => cache[q].got[f] = row[f]
        BY <1>1, <2>4, ViewFact
      <3>3. DataAt(r, f)'
        BY <1>2, <1>3, <1>6, <2>1, <2>2, <2>4, <3>2 DEF DataAt, GotAt
      <3> QED  BY <3>1, <3>3
    <2> QED  BY <2>3, <2>4
  <1> QED  BY <1>5, <1>7 DEF FormsInv, Fields


-----------------------------------------------------------------------------
(* The own profile: the mutations begin *)

LEMMA BeginFact ==
    ASSUME Own!ProfileFormsAssumption, FormsTypeInv, NEW s \in Slots, NEW j \in JobRecords,
           j.at = "sent", j.kind \in Own!Kinds, Own!Begin(s, j)
    PROVE  /\ mutation' = [mutation EXCEPT ![s] = j] /\ UNCHANGED <<row, visible, loads>>
           /\ taps' \in 0..MaxTaps
           /\ mutation' \in [Slots -> JobRecords]
           /\ \A t \in Slots : mutation'[t].at # "idle" => mutation'[t].kind \in Own!Kinds
           /\ \A t \in Slots : /\ mutation'[t].kind \in Own!Kinds \cup {"none"}
                               /\ mutation'[t].at \in {"idle", "sent", "half", "done", "late"}
                               /\ mutation'[t].at = "idle" <=> mutation'[t] = Own!NoJob
           /\ \A q \in Own!Pages : \A f \in Fields(q) : Covered(q, f) \/ Covers(j, q, f) => Covered(q, f)'
  <1>1. mutation' = [mutation EXCEPT ![s] = j] /\ UNCHANGED <<row, visible, loads>> /\ mutation[s].at = "idle"
    BY DEF Own!Begin
  <1>2. taps' \in 0..MaxTaps
    BY DEF Own!Begin, FormsTypeInv, Own!FormsTypeOK, Own!ProfileFormsAssumption
  <1>3. mutation \in [Slots -> JobRecords]
    BY DEF FormsTypeInv
  <1>4. ASSUME NEW q \in Own!Pages, NEW f \in Fields(q), Covered(q, f)
        PROVE  Covered(q, f)'
    <2>1. ~Covers(mutation[s], q, f)
      BY <1>1, IdleCovers
    <2> QED  BY <1>1, <1>3, <1>4, <2>1, CoveredStays
  <1>5. \A q \in Own!Pages : \A f \in Fields(q) : Covers(j, q, f) => Covered(q, f)'
    BY <1>1, <1>3 DEF Covered, Covers, Fields
  <1>6. /\ mutation' \in [Slots -> JobRecords]
        /\ \A t \in Slots : mutation'[t].at # "idle" => mutation'[t].kind \in Own!Kinds
        /\ \A t \in Slots : /\ mutation'[t].kind \in Own!Kinds \cup {"none"}
                            /\ mutation'[t].at \in {"idle", "sent", "half", "done", "late"}
                            /\ mutation'[t].at = "idle" <=> mutation'[t] = Own!NoJob
    BY <1>1, SlotType
  <1> QED  BY <1>1, <1>2, <1>4, <1>5, <1>6

LEMMA FormBegins ==
    ASSUME Own!ProfileFormsAssumption, FormsInv, NEW s \in Slots, NEW j \in JobRecords,
           j.at = "sent", j.kind \in Own!Kinds, Own!Begin(s, j), UNCHANGED <<cache, invalid, missed>>
    PROVE  FormsInv'
  <1>1. /\ UNCHANGED <<row, visible, loads>> /\ taps' \in 0..MaxTaps
        /\ mutation' \in [Slots -> JobRecords]
        /\ \A t \in Slots : mutation'[t].at # "idle" => mutation'[t].kind \in Own!Kinds
        /\ \A t \in Slots : /\ mutation'[t].kind \in Own!Kinds \cup {"none"}
                            /\ mutation'[t].at \in {"idle", "sent", "half", "done", "late"}
                            /\ mutation'[t].at = "idle" <=> mutation'[t] = Own!NoJob
        /\ \A q \in Own!Pages : \A f \in Fields(q) : Covered(q, f) => Covered(q, f)'
    BY BeginFact DEF FormsInv
  <1>2. FormsTypeInv'
    BY <1>1 DEF FormsInv, FormsTypeInv, Own!FormsTypeOK, Bare
  <1> QED  BY <1>1, <1>2, Apart

LEMMA SaveFormInv ==
    ASSUME Own!ProfileFormsAssumption, FormsInv, NEW s \in Slots, NEW kind \in Own!Forms, Own!SaveForm(s, kind)
    PROVE  FormsInv'
  <1>1. PICK v \in BOOLEAN : Own!Begin(s, [Own!NoJob EXCEPT !.kind = kind, !.at = "sent", !.value = v])
    BY DEF Own!SaveForm
  <1> DEFINE j == [Own!NoJob EXCEPT !.kind = kind, !.at = "sent", !.value = v]
  <1>2. j \in JobRecords /\ j.at = "sent" /\ j.kind \in Own!Kinds
    BY DEF Own!NoJob, JobRecords, Own!Forms, Own!Kinds
  <1>3. Own!Begin(s, j) /\ UNCHANGED <<cache, invalid, missed>>
    BY <1>1 DEF Own!SaveForm
  <1> HIDE DEF j
  <1> QED  BY <1>2, <1>3, FormBegins

LEMMA ActivateInv ==
    ASSUME Own!ProfileFormsAssumption, FormsInv, NEW s \in Slots, Own!Activate(s)
    PROVE  FormsInv'
  <1> DEFINE j == [Own!NoJob EXCEPT !.kind = "hub", !.at = "sent", !.value = TRUE]
  <1>1. j \in JobRecords /\ j.at = "sent" /\ j.kind \in Own!Kinds
    BY DEF Own!NoJob, JobRecords, Own!Kinds
  <1>2. Own!Begin(s, j) /\ UNCHANGED <<cache, invalid, missed>>
    BY DEF Own!Activate
  <1> HIDE DEF j
  <1> QED  BY <1>1, <1>2, FormBegins

\* An optimistic switch: what it shows it accounts for, and the mark that its
\* write clears is remembered.
LEMMA SwitchInv ==
    ASSUME Own!ProfileFormsAssumption, FormsInv, NEW s \in Slots, NEW j \in JobRecords,
           j.at = "sent", j.kind \in Own!Kinds, Own!Begin(s, j),
           NEW q \in Own!Pages, NEW f \in Fields(q), Covers(j, q, f), NEW v \in BOOLEAN,
           NEW c \in Caches, BareCache(c), cache' = Own!Write(c, q, f, v),
           \A p \in Own!Pages : /\ c[p].loaded = cache[p].loaded /\ c[p].data = cache[p].data
                                /\ c[p] = cache[p] \/ c[p].fetch = "idle",
           invalid' = invalid \ Own!Clears(q), missed' = missed \cup Own!Clears(q)
    PROVE  FormsInv'
  <1>1. /\ UNCHANGED <<row, visible, loads>> /\ taps' \in 0..MaxTaps
        /\ mutation' \in [Slots -> JobRecords]
        /\ \A t \in Slots : mutation'[t].at # "idle" => mutation'[t].kind \in Own!Kinds
        /\ \A t \in Slots : /\ mutation'[t].kind \in Own!Kinds \cup {"none"}
                            /\ mutation'[t].at \in {"idle", "sent", "half", "done", "late"}
                            /\ mutation'[t].at = "idle" <=> mutation'[t] = Own!NoJob
        /\ \A p \in Own!Pages : \A g \in Fields(p) : Covered(p, g) \/ Covers(j, p, g) => Covered(p, g)'
    BY BeginFact DEF FormsInv
  <1>2. /\ cache' \in Caches /\ BareCache(cache')
        /\ \A p \in Own!Pages : /\ cache'[p].loaded = c[p].loaded
                                /\ cache'[p].fetch = c[p].fetch
                                /\ cache'[p].got = c[p].got
        /\ \A p \in Own!Pages : p # q => cache'[p] = c[p]
        /\ \A g \in FieldNames : g # f => cache'[q].data[g] = c[q].data[g]
    BY WriteFact
  <1>3. /\ invalid' \subseteq Own!Pages /\ missed' \subseteq Own!Pages
        /\ \A p \in Own!Pages : /\ p \notin missed' => p \notin missed
                                /\ p \notin missed' /\ p \notin invalid' => p \notin invalid
    BY DEF FormsInv, FormsTypeInv, Own!FormsTypeOK, Own!Clears
  <1>4. FormsTypeInv'
    BY <1>1, <1>2, <1>3 DEF FormsInv, FormsTypeInv, Own!FormsTypeOK, Bare, BareCache, Caches
  <1>5. ASSUME NEW p \in Own!Pages, NEW g \in Fields(p)
        PROVE  DataAt(p, g)' /\ GotAt(p, g)'
    <2>1. DataAt(p, g) /\ GotAt(p, g) /\ g \in FieldNames
      BY FieldsFact DEF FormsInv
    <2>2. Covered(p, g) => Covered(p, g)'
      BY <1>1
    <2>3. GotAt(p, g)'
      BY <1>1, <1>2, <1>3, <2>1, <2>2 DEF GotAt
    <2>4. CASE p = q /\ g = f
      BY <1>1, <2>3, <2>4 DEF DataAt
    <2>5. CASE p # q \/ g # f
      <3>1. cache'[p].data[g] = cache[p].data[g] /\ cache'[p].loaded = cache[p].loaded
        BY <1>2, <2>1, <2>5
      <3>2. DataAt(p, g)'
        BY <1>1, <1>3, <2>1, <2>2, <3>1 DEF DataAt
      <3> QED  BY <2>3, <3>2
    <2> QED  BY <2>4, <2>5
  <1> QED  BY <1>4, <1>5 DEF FormsInv, Fields

LEMMA ToggleMatchingInv ==
    ASSUME Own!ProfileFormsAssumption, FormsInv, NEW s \in Slots, Own!ToggleMatching(s)
    PROVE  FormsInv'
  <1> DEFINE old == cache["settings"].data.matching
             j == [kind |-> "matching", at |-> "sent", value |-> ~old, had |-> old,
                   back |-> cache["settings"].loaded, here |-> TRUE]
  <1>1. cache \in Caches /\ BareCache(cache) /\ "settings" \in Own!Pages /\ old \in BOOLEAN
        /\ cache["settings"].loaded \in BOOLEAN
    BY DEF FormsInv, FormsTypeInv, Own!FormsTypeOK, Caches, BareCache, Own!Queries, Own!Profiles,
           Own!Pages
  <1>2. j \in JobRecords /\ j.at = "sent" /\ j.kind \in Own!Kinds /\ Covers(j, "settings", "matching")
    BY <1>1, FieldsFact DEF JobRecords, Own!Kinds, Covers
  <1>3. Own!Begin(s, j) /\ cache' = Own!Write(cache, "settings", "matching", ~old)
        /\ invalid' = invalid \ Own!Clears("settings") /\ missed' = missed \cup Own!Clears("settings")
    BY DEF Own!ToggleMatching
  <1>4. (~old) \in BOOLEAN /\ "matching" \in Fields("settings")
    BY FieldsFact
  <1> HIDE DEF j, old
  <1> QED  BY <1>1, <1>2, <1>3, <1>4, SwitchInv

LEMMA ToggleAgeInv ==
    ASSUME Own!ProfileFormsAssumption, FormsInv, NEW s \in Slots, Own!ToggleAge(s)
    PROVE  FormsInv'
  <1> DEFINE old == cache["current"].data.age
             j == [kind |-> "age", at |-> "sent", value |-> ~old, had |-> old,
                   back |-> TRUE, here |-> TRUE]
             c == [cache EXCEPT !["current"] = Own!Cancelled(cache["current"], Own!Blank)]
  <1>1. /\ cache \in Caches /\ BareCache(cache) /\ "current" \in Own!Pages /\ old \in BOOLEAN
        /\ cache["current"] \in Own!Queries(Own!Profiles)
    BY DEF FormsInv, FormsTypeInv, Own!FormsTypeOK, Caches, BareCache, Own!Queries, Own!Profiles,
           Own!Pages
  <1>2. j \in JobRecords /\ j.at = "sent" /\ j.kind \in Own!Kinds /\ Covers(j, "current", "age")
    BY <1>1, FieldsFact DEF JobRecords, Own!Kinds, Covers, FieldNames
  <1>3. Own!Begin(s, j) /\ cache' = Own!Write(c, "current", "age", ~old)
        /\ invalid' = invalid \ Own!Clears("current") /\ missed' = missed \cup Own!Clears("current")
    BY <1>1 DEF Own!ToggleAge, Caches
  <1>4. (~old) \in BOOLEAN /\ "age" \in Fields("current")
    BY FieldsFact DEF FieldNames
  <1>5. /\ Own!Cancelled(cache["current"], Own!Blank) \in Own!Queries(Own!Profiles)
        /\ Own!Cancelled(cache["current"], Own!Blank).data = cache["current"].data
        /\ Own!Cancelled(cache["current"], Own!Blank).got = Own!Blank
        /\ Own!Cancelled(cache["current"], Own!Blank).loaded = cache["current"].loaded
        /\ Own!Cancelled(cache["current"], Own!Blank).fetch = "idle"
    BY <1>1, BlankFact, CancelledFact
  <1>6. /\ c \in Caches
        /\ \A p \in Own!Pages : c[p] = IF p = "current" THEN Own!Cancelled(cache["current"], Own!Blank) ELSE cache[p]
    BY <1>1, <1>5 DEF Caches
  <1> HIDE DEF j, old, c
  <1>7. BareCache(c)
    BY <1>1, <1>5, <1>6, BlankFact DEF BareCache
  <1>8. \A p \in Own!Pages : /\ c[p].loaded = cache[p].loaded /\ c[p].data = cache[p].data
                             /\ c[p] = cache[p] \/ c[p].fetch = "idle"
    BY <1>5, <1>6
  <1> QED  BY <1>1, <1>2, <1>3, <1>4, <1>6, <1>7, <1>8, SwitchInv


-----------------------------------------------------------------------------
(* The own profile: the mutations are applied and settled *)

\* A call that the server applies: the fields that its mutation accounts for
\* stay accounted for, unless it was given up.
LEMMA ApplyInv ==
    ASSUME FormsInv, NEW s \in Slots, Own!Apply(s)
    PROVE  FormsInv'
  <1> DEFINE j == mutation[s]
             f == Own!Field(j)
             k == IF j.at = "late" THEN Own!NoJob
                  ELSE [j EXCEPT !.at = IF f = "text" /\ j.kind = "both" THEN "half" ELSE "done"]
  <1>1. /\ j \in JobRecords /\ j.at \in {"sent", "half", "late"} /\ j.kind \in Own!Kinds
        /\ row \in Own!Profiles /\ j.value \in BOOLEAN
    BY DEF Own!Apply, FormsInv, FormsTypeInv, Own!FormsTypeOK, JobRecords
  <1>2. f \in FieldNames
    BY <1>1, FieldType
  <1>3. /\ row' = [row EXCEPT ![f] = j.value] /\ mutation' = [mutation EXCEPT ![s] = k]
        /\ missed' = missed \cup
              {q \in Own!Pages : /\ j.at = "late" \/ j.kind \in {"age", "hub"}
                                 /\ q = "current" \/ f = "matching"
                                 /\ Own!Behind(cache, q, f, j.value)}
        /\ UNCHANGED <<cache, invalid, visible, taps, loads>>
    BY DEF Own!Apply
  <1>4. k \in JobRecords /\ (k = Own!NoJob \/ (k.at # "idle" /\ k.kind \in Own!Kinds))
    BY <1>1, NoJobFact DEF JobRecords
  <1>5. /\ f = "matching" <=> j.kind \in {"matching", "hub"}
        /\ j.kind = "age" => f = "age"
        /\ j.kind \in Own!Forms => f # "matching"
    BY <1>1 DEF Own!Field, Own!Forms, Own!Kinds
  <1>6. k.at # "idle" => k.kind = j.kind /\ j.at # "late" /\ k.at \in {"half", "done"}
    BY <1>1, NoJobFact DEF JobRecords
  <1>7. k.at = "idle" => j.at = "late"
    BY <1>1 DEF JobRecords
  <1> HIDE DEF f, k
  <1>8. /\ row' \in Own!Profiles /\ row'[f] = j.value
        /\ \A g \in FieldNames : g # f => row'[g] = row[g]
    <2>1. /\ row \in Own!Profiles /\ j.value \in BOOLEAN /\ row' = [row EXCEPT ![f] = j.value]
      BY <1>1, <1>3
    <2> HIDE DEF j
    <2>2. [row EXCEPT ![f] = j.value] \in Own!Profiles
      BY <1>2, <2>1, PutFact
    <2>3. [row EXCEPT ![f] = j.value][f] = j.value
      BY <1>2, <2>1, PutFact
    <2>4. \A g \in FieldNames : g # f => [row EXCEPT ![f] = j.value][g] = row[g]
      BY <1>2, <2>1, PutFact
    <2> QED  BY <2>1, <2>2, <2>3, <2>4
  <1>9. FormsTypeInv'
    <2>1. /\ mutation' \in [Slots -> JobRecords]
          /\ \A t \in Slots : mutation'[t].at # "idle" => mutation'[t].kind \in Own!Kinds
          /\ \A t \in Slots : /\ mutation'[t].kind \in Own!Kinds \cup {"none"}
                              /\ mutation'[t].at \in {"idle", "sent", "half", "done", "late"}
                              /\ mutation'[t].at = "idle" <=> mutation'[t] = Own!NoJob
      BY <1>3, <1>4, SlotType DEF FormsInv
    <2>2. missed' \subseteq Own!Pages
      BY <1>3 DEF FormsInv, FormsTypeInv, Own!FormsTypeOK
    <2> QED  BY <1>3, <1>8, <2>1, <2>2 DEF FormsInv, FormsTypeInv, Own!FormsTypeOK, Bare
  <1>10. ASSUME NEW q \in Own!Pages, NEW g \in Fields(q)
         PROVE  DataAt(q, g)' /\ GotAt(q, g)'
    <2>1. DataAt(q, g) /\ GotAt(q, g) /\ g \in FieldNames /\ mutation \in [Slots -> JobRecords]
      BY FieldsFact DEF FormsInv, FormsTypeInv
    <2>2. CASE g # f
      <3>1. Covers(j, q, g) => Covers(k, q, g)
        BY <1>5, <1>6, <1>7, <2>2 DEF Covers
      <3>2. Covered(q, g) => Covered(q, g)'
        BY <1>3, <2>1, <3>1, CoveredStays
      <3> QED  BY <1>3, <1>8, <2>1, <2>2, <3>2 DEF DataAt, GotAt
    <2>3. CASE g = f /\ (j.at = "late" \/ j.kind \in {"age", "hub"})
      <3>1. q = "current" \/ f = "matching"
        BY <2>3, FieldsFact
      <3>2. Own!Behind(cache, q, f, j.value) => q \in missed'
        BY <1>3, <2>3, <3>1
      <3>3. /\ cache'[q].loaded /\ cache'[q].data[g] # row'[g] => q \in missed'
            /\ cache'[q].fetch = "served" /\ cache'[q].got[g] # row'[g] => q \in missed'
        BY <1>3, <1>8, <2>3, <3>2 DEF Own!Behind
      <3> QED  BY <3>3 DEF DataAt, GotAt
    <2>4. CASE g = f /\ j.at # "late" /\ j.kind \notin {"age", "hub"}
      <3>1. j.kind = "matching" \/ j.kind \in Own!Forms
        BY <1>1, <2>4 DEF Own!Kinds, Own!Forms
      <3>2. Covers(k, q, g)
        BY <1>5, <1>6, <1>7, <2>4, <3>1 DEF Covers
      <3>3. Covered(q, g)'
        BY <1>3, <2>1, <3>2 DEF Covered, Covers, Fields
      <3> QED  BY <3>3 DEF DataAt, GotAt
    <2> QED  BY <2>2, <2>3, <2>4
  <1> QED  BY <1>9, <1>10 DEF FormsInv, Fields

\* invalidateQueries: what it marks need not be accounted for any more.
LEMMA InvalidateFact ==
    ASSUME FormsInv, NEW qs \in SUBSET Own!Pages, NEW c \in Caches, BareCache(c), Own!Invalidate(qs, c),
           \A p \in Own!Pages : c[p].fetch = cache[p].fetch /\ c[p].got = cache[p].got,
           \A p \in Own!Pages \ qs : c[p] = cache[p],
           UNCHANGED row,
           \A p \in Own!Pages \ qs : \A g \in Fields(p) : Covered(p, g) => Covered(p, g)'
    PROVE  /\ cache' \in Caches /\ BareCache(cache')
           /\ invalid' \subseteq Own!Pages /\ missed' \subseteq Own!Pages
           /\ \A p \in Own!Pages : \A g \in Fields(p) : DataAt(p, g)' /\ GotAt(p, g)'
  <1>1. /\ invalid' = invalid \cup qs
        /\ cache' = [q \in Own!Pages |-> IF q \in qs \cap visible THEN Own!Refetched(c[q]) ELSE c[q]]
        /\ missed' = missed \cup {q \in qs : /\ q \notin visible \/ Own!Joins(c[q])
                                             /\ c[q].fetch = "served" /\ c[q].got # Own!View(q, row)}
    BY DEF Own!Invalidate
  <1>2. ASSUME NEW p \in Own!Pages
        PROVE  /\ cache'[p] \in Own!Queries(Own!Profiles) /\ Bare(p, cache'[p].data)
               /\ Bare(p, cache'[p].got)
               /\ cache'[p].got = c[p].got
               /\ p \notin qs => cache'[p] = c[p]
               /\ cache'[p].fetch = "served" =>
                    c[p].fetch = "served" /\ (p \in qs => p \notin visible \/ Own!Joins(c[p]))
    <2>1. c[p] \in Own!Queries(Own!Profiles) /\ Bare(p, c[p].data) /\ Bare(p, c[p].got)
      BY DEF Caches, BareCache
    <2>2. /\ Own!Refetched(c[p]) \in Own!Queries(Own!Profiles) /\ Own!Refetched(c[p]).data = c[p].data
          /\ Own!Refetched(c[p]).got = c[p].got
          /\ Own!Refetched(c[p]) = c[p] \/ Own!Refetched(c[p]).fetch = "sent"
          /\ ~Own!Joins(c[p]) => Own!Refetched(c[p]).fetch = "sent"
      BY <2>1, RefetchedFact
    <2>3. cache'[p] = IF p \in qs \cap visible THEN Own!Refetched(c[p]) ELSE c[p]
      BY <1>1
    <2> QED  BY <2>1, <2>2, <2>3
  <1>3. cache' \in Caches /\ BareCache(cache')
    BY <1>1, <1>2 DEF Caches, BareCache
  <1>4. invalid' \subseteq Own!Pages /\ missed' \subseteq Own!Pages
    BY <1>1 DEF FormsInv, FormsTypeInv, Own!FormsTypeOK
  <1>5. ASSUME NEW p \in Own!Pages, NEW g \in Fields(p)
        PROVE  DataAt(p, g)' /\ GotAt(p, g)'
    <2>1. DataAt(p, g) /\ GotAt(p, g)
      BY DEF FormsInv
    <2>2. CASE p \notin qs
      <3>1. (p \notin missed' => p \notin missed) /\ (p \notin invalid' => p \notin invalid)
            /\ cache'[p] = cache[p]
        BY <1>1, <1>2, <2>2
      <3> QED  BY <2>1, <2>2, <3>1 DEF DataAt, GotAt
    <2>3. CASE p \in qs
      <3>1. DataAt(p, g)'
        BY <1>1, <2>3 DEF DataAt
      <3>2. SUFFICES ASSUME p \notin missed', cache'[p].fetch = "served"
                     PROVE  cache'[p].got[g] = row'[g]
        BY <3>1 DEF GotAt
      <3>3. c[p].got = Own!View(p, row)
        BY <1>1, <1>2, <2>3, <3>2
      <3>4. Own!View(p, row)[g] = row[g]
        BY ViewFact DEF FormsInv, FormsTypeInv, Own!FormsTypeOK
      <3> QED  BY <1>2, <3>3, <3>4
    <2> QED  BY <2>2, <2>3
  <1> QED  BY <1>3, <1>4, <1>5

LEMMA SucceedInv ==
    ASSUME FormsInv, NEW s \in Slots, Own!Succeed(s)
    PROVE  FormsInv'
  <1> DEFINE qs == Own!Stales(mutation[s].kind, TRUE)
  <1>1. /\ mutation[s].at = "done" /\ mutation' = [mutation EXCEPT ![s] = Own!NoJob]
        /\ Own!Invalidate(qs, cache)
        /\ UNCHANGED <<row, visible, taps, loads>>
    BY DEF Own!Succeed
  <1>2. cache \in Caches /\ BareCache(cache) /\ qs \in SUBSET Own!Pages /\ mutation \in [Slots -> JobRecords]
    BY DEF FormsInv, FormsTypeInv, Own!FormsTypeOK, Caches, BareCache, Own!Stales, Own!Pages
  <1>3. ASSUME NEW p \in Own!Pages \ qs, NEW g \in Fields(p), Covered(p, g)
        PROVE  Covered(p, g)'
    <2>1. ~Covers(mutation[s], p, g)
      BY <1>1, FieldsFact DEF Covers, Own!Stales, Own!Forms, Own!Pages
    <2> QED  BY <1>1, <1>2, <1>3, <2>1, CoveredStays
  <1> HIDE DEF qs
  <1>4. /\ cache' \in Caches /\ BareCache(cache') /\ invalid' \subseteq Own!Pages
        /\ missed' \subseteq Own!Pages
        /\ \A p \in Own!Pages : \A g \in Fields(p) : DataAt(p, g)' /\ GotAt(p, g)'
    BY <1>1, <1>2, <1>3, InvalidateFact
  <1>5. /\ mutation' \in [Slots -> JobRecords]
        /\ \A t \in Slots : mutation'[t].at # "idle" => mutation'[t].kind \in Own!Kinds
        /\ \A t \in Slots : /\ mutation'[t].kind \in Own!Kinds \cup {"none"}
                            /\ mutation'[t].at \in {"idle", "sent", "half", "done", "late"}
                            /\ mutation'[t].at = "idle" <=> mutation'[t] = Own!NoJob
    BY <1>1, NoJobFact, SlotType DEF FormsInv
  <1>6. FormsTypeInv'
    BY <1>1, <1>4, <1>5 DEF FormsInv, FormsTypeInv, Own!FormsTypeOK, Bare, BareCache, Caches
  <1> QED  BY <1>4, <1>6 DEF FormsInv, Fields


\* A failed call: a switch is rolled back; of the forms, nothing is known.
LEMMA FailInv ==
    ASSUME FormsInv, NEW s \in Slots, Own!Fail(s)
    PROVE  FormsInv'
  <1> DEFINE j == mutation[s]
             c == CASE j.kind = "matching" /\ j.back -> Own!Write(cache, "settings", "matching", j.had)
                    [] j.kind = "age" -> Own!Write(cache, "current", "age", j.had)
                    [] OTHER          -> cache
             afterwards == [Own!NoJob EXCEPT !.kind = Own!Field(j), !.at = "late", !.value = j.value]
  <1>1. /\ j \in JobRecords /\ j.at \in {"sent", "half", "done"} /\ j.kind \in Own!Kinds
        /\ j.had \in BOOLEAN /\ row \in Own!Profiles /\ cache \in Caches /\ BareCache(cache)
        /\ mutation \in [Slots -> JobRecords]
    BY DEF Own!Fail, FormsInv, FormsTypeInv, Own!FormsTypeOK, JobRecords, Caches, BareCache
  <1>2. mutation' = [mutation EXCEPT ![s] = Own!NoJob] \/ mutation' = [mutation EXCEPT ![s] = afterwards]
    BY DEF Own!Fail
  <1>3. afterwards \in JobRecords /\ afterwards.at = "late" /\ afterwards.kind \in Own!Kinds
    <2>1. Own!Field(j) \in FieldNames /\ j.value \in BOOLEAN
      BY <1>1, FieldType DEF JobRecords
    <2> QED  BY <2>1 DEF JobRecords, Own!NoJob, Own!Kinds, FieldNames
  <1>4. /\ UNCHANGED <<row, visible, taps, loads>>
        /\ j.kind = "matching" => Own!Invalidate(Own!Stales(j.kind, FALSE), c)
        /\ j.kind # "matching" =>
              /\ cache' = c
              /\ invalid' = IF j.kind = "age" THEN invalid \ Own!Clears("current") ELSE invalid
              /\ missed' = missed \cup {q \in {"current"} :
                      \/ \E f \in {"age", "text", "interests"} : Own!Behind(c, q, f, row[f])
                      \/ j.kind = "age" /\ q \in invalid}
    BY DEF Own!Fail
  <1>5. /\ mutation' \in [Slots -> JobRecords]
        /\ \A t \in Slots : mutation'[t].at # "idle" => mutation'[t].kind \in Own!Kinds
        /\ \A t \in Slots : /\ mutation'[t].kind \in Own!Kinds \cup {"none"}
                            /\ mutation'[t].at \in {"idle", "sent", "half", "done", "late"}
                            /\ mutation'[t].at = "idle" <=> mutation'[t] = Own!NoJob
    <2> HIDE DEF afterwards
    <2>1. CASE mutation' = [mutation EXCEPT ![s] = Own!NoJob]
      BY <2>1, NoJobFact, SlotType DEF FormsInv
    <2>2. CASE mutation' = [mutation EXCEPT ![s] = afterwards]
      BY <1>3, <2>2, SlotType DEF FormsInv
    <2> QED  BY <1>2, <2>1, <2>2
  <1>6. ASSUME NEW p, NEW g, ~Covers(j, p, g), Covered(p, g)
        PROVE  Covered(p, g)'
    <2> HIDE DEF afterwards
    <2> QED  BY <1>1, <1>2, <1>6, CoveredStays
  <1>7. "settings" \in Own!Pages /\ "current" \in Own!Pages /\ Own!Pages \in SUBSET Own!Pages
        /\ "matching" \in Fields("settings") /\ "age" \in Fields("current") /\ "matching" # "age"
    BY FieldsFact DEF Own!Pages, FieldNames
  <1> HIDE DEF afterwards
  <1>8. CASE j.kind = "matching"
    <2>1. /\ c \in Caches /\ BareCache(c)
          /\ \A p \in Own!Pages : c[p].fetch = cache[p].fetch /\ c[p].got = cache[p].got
      <3> DEFINE h == j.had
                 w == Own!Write(cache, "settings", "matching", h)
      <3>1. c = w \/ c = cache
        BY <1>8
      <3>2. h \in BOOLEAN
        BY <1>1
      <3> HIDE DEF h, c, j
      <3>3. w \in Caches /\ BareCache(w)
            /\ \A p \in Own!Pages : w[p].fetch = cache[p].fetch /\ w[p].got = cache[p].got
        BY <1>1, <1>7, <3>2, WriteFact
      <3> QED  BY <1>1, <3>1, <3>3
    <2>2. Own!Invalidate(Own!Pages, c)
      BY <1>4, <1>8 DEF Own!Stales
    <2> HIDE DEF c
    <2>3. /\ cache' \in Caches /\ BareCache(cache') /\ invalid' \subseteq Own!Pages
          /\ missed' \subseteq Own!Pages
          /\ \A p \in Own!Pages : \A g \in Fields(p) : DataAt(p, g)' /\ GotAt(p, g)'
      BY <1>4, <1>7, <2>1, <2>2, InvalidateFact
    <2>4. FormsTypeInv'
      BY <1>4, <1>5, <2>3 DEF FormsInv, FormsTypeInv, Own!FormsTypeOK, Bare, BareCache, Caches
    <2> QED  BY <2>3, <2>4 DEF FormsInv, Fields
  <1>9. CASE j.kind # "matching"
    <2>1. /\ c \in Caches /\ BareCache(c) /\ c["settings"] = cache["settings"]
          /\ \A p \in Own!Pages : c[p].loaded = cache[p].loaded /\ c[p].fetch = cache[p].fetch
                                  /\ c[p].got = cache[p].got
          /\ c["current"].data["matching"] = cache["current"].data["matching"]
      <3> DEFINE h == j.had
                 w == Own!Write(cache, "current", "age", h)
      <3>1. c = w \/ c = cache
        BY <1>9
      <3>2. h \in BOOLEAN
        BY <1>1
      <3> HIDE DEF h, c, j
      <3>3. w \in Caches /\ BareCache(w) /\ w["settings"] = cache["settings"]
            /\ \A p \in Own!Pages : w[p].loaded = cache[p].loaded /\ w[p].fetch = cache[p].fetch
                                    /\ w[p].got = cache[p].got
        BY <1>1, <1>7, <3>2, WriteFact
      <3>4. w["current"].data["matching"] = cache["current"].data["matching"]
        BY <1>1, <1>7, <3>2, WriteFact DEF FieldNames
      <3> QED  BY <1>1, <3>1, <3>3, <3>4
    <2>2. /\ cache' = c
          /\ invalid' \subseteq invalid /\ (invalid' # invalid => j.kind = "age" /\ invalid' = invalid \ Own!Clears("current"))
          /\ missed' = missed \cup {q \in {"current"} :
                  \/ \E f \in {"age", "text", "interests"} : Own!Behind(c, q, f, row[f])
                  \/ j.kind = "age" /\ q \in invalid}
      BY <1>4, <1>9
    <2> HIDE DEF c
    <2>3. /\ invalid' \subseteq Own!Pages /\ missed' \subseteq Own!Pages /\ missed \subseteq missed'
          /\ \A p \in Own!Pages : p \notin missed' /\ p \notin invalid' => p \notin invalid
      BY <1>7, <2>2 DEF FormsInv, FormsTypeInv, Own!FormsTypeOK, Own!Clears
    <2>4. FormsTypeInv'
      BY <1>4, <1>5, <2>1, <2>2, <2>3 DEF FormsInv, FormsTypeInv, Own!FormsTypeOK, Bare,
             BareCache, Caches
    <2>5. ASSUME NEW p \in Own!Pages, NEW g \in Fields(p)
          PROVE  DataAt(p, g)' /\ GotAt(p, g)'
      <3>1. DataAt(p, g) /\ GotAt(p, g)
        BY DEF FormsInv
      <3>2. CASE g = "matching"
        <4>1. ~Covers(j, p, g)
          BY <1>9, <3>2 DEF Covers
        <4>2. Covered(p, g) => Covered(p, g)'
          BY <1>6, <4>1
        <4>3. cache'[p].data[g] = cache[p].data[g] /\ cache'[p].loaded = cache[p].loaded
              /\ cache'[p].fetch = cache[p].fetch /\ cache'[p].got = cache[p].got
          BY <2>1, <2>2, <3>2, FieldsFact
        <4> QED  BY <1>4, <2>3, <3>1, <4>2, <4>3 DEF DataAt, GotAt
      <3>3. CASE g # "matching"
        <4>1. p = "current" /\ g \in {"age", "text", "interests"}
          BY <3>3, FieldsFact DEF FieldNames
        <4>2. p \notin missed' => ~Own!Behind(c, p, g, row[g])
          BY <2>2, <4>1
        <4> QED  BY <1>4, <2>2, <4>2 DEF Own!Behind, DataAt, GotAt
      <3> QED  BY <3>2, <3>3
    <2> QED  BY <2>4, <2>5 DEF FormsInv, Fields
  <1> QED  BY <1>8, <1>9

-----------------------------------------------------------------------------
(* The own profile: every step *)

LEMMA FormsBegin == ASSUME Own!ProfileFormsAssumption, Own!Init PROVE FormsInv
  <1>1. FormsTypeInv
    BY BlankFact, NoJobFact
    DEF Own!Init, FormsTypeInv, Own!FormsTypeOK, Own!ProfileFormsAssumption, Own!Unloaded,
        Own!Queries, Own!NoJob, JobRecords
  <1>2. \A q \in Own!Pages : ~cache[q].loaded /\ cache[q].fetch = "idle"
    BY DEF Own!Init, Own!Unloaded
  <1> QED  BY <1>1, <1>2 DEF FormsInv, DataAt, GotAt

LEMMA FormsKept ==
    ASSUME Own!ProfileFormsAssumption, FormsInv, [Own!Next]_(Own!vars)
    PROVE  FormsInv'
  <1>1. CASE \E q \in Own!Pages : Own!Open(q) \/ Own!Close(q) \/ Own!Serve(q) \/ Own!Arrive(q) \/ Own!FailFetch(q)
    BY <1>1, OpenInv, CloseInv, ServeInv, ArriveInv, FailFetchInv
  <1>2. CASE \E s \in Slots : \/ Own!ToggleMatching(s) \/ Own!ToggleAge(s) \/ Own!Activate(s)
                              \/ \E kind \in Own!Forms : Own!SaveForm(s, kind)
    BY <1>2, ToggleMatchingInv, ToggleAgeInv, ActivateInv, SaveFormInv
  <1>3. CASE \E s \in Slots : Own!Apply(s) \/ Own!Succeed(s) \/ Own!Fail(s)
    BY <1>3, ApplyInv, SucceedInv, FailInv
  <1>4. CASE UNCHANGED Own!vars
    <2>1. FormsTypeInv'
      BY <1>4 DEF Own!vars, FormsInv, FormsTypeInv, Own!FormsTypeOK, Bare
    <2> QED  BY <1>4, <2>1, Apart DEF Own!vars, Covered
  <1> QED  BY <1>1, <1>2, <1>3, <1>4 DEF Own!Next

\* What is left when every mutation is answered.
LEMMA FormsShown == FormsInv => Own!ShownIsStored
  <1> SUFFICES ASSUME FormsInv, NEW q \in Own!Pages, \A s \in Slots : mutation[s].at \in {"idle", "late"},
                      cache[q].loaded, q \notin invalid, q \notin missed
               PROVE  cache[q].data = Own!View(q, row)
    BY DEF Own!ShownIsStored
  <1>1. row \in Own!Profiles /\ cache[q].data \in Own!Profiles /\ Bare(q, cache[q].data)
    BY DEF FormsInv, FormsTypeInv, Own!FormsTypeOK, Own!Queries
  <1>2. \A f \in Fields(q) : ~Covered(q, f)
    BY IdleCovers DEF Covered
  <1>3. \A f \in Fields(q) : cache[q].data[f] = row[f]
    BY <1>2 DEF FormsInv, DataAt
  <1> QED  BY <1>1, <1>3, SameView

-----------------------------------------------------------------------------
(* The theorems of the whole *)

clientVars == <<mode, vars, wizardVars, navigationVars, settingsVars>>

\* A step of the phone is one of the navigation, or leaves it alone.
LEMMA NavigationStep ==
    ASSUME [ClientNext]_clientVars
    PROVE  [Routes!Next]_(Routes!vars)
  BY DEF ClientNext, clientVars, navigationVars, Routes!vars

\* A tapped notification opens its screen at most once, and what waits in an
\* app that is signed in came before the container was ready.
THEOREM TapOpensOnce == ClientSpec => []OpensOnce
  <1>1. ClientInit => NavInv
    BY ClientConstants, NavBegins DEF ClientInit
  <1>2. NavInv /\ [ClientNext]_clientVars => NavInv'
    BY ClientConstants, NavigationStep, NavKept
  <1>3. NavInv => OpensOnce
    BY NowFields DEF NavInv, HookInv, Waits, OpensOnce, Routes!OpensOnce
  <1> QED  BY <1>1, <1>2, <1>3, PTL DEF ClientSpec, clientVars


\* A step of the phone is one of the registration, or leaves it alone.
LEMMA WizardStep ==
    ASSUME [ClientNext]_clientVars
    PROVE  [Wizard!Next]_(Wizard!vars)
  BY DEF ClientNext, clientVars, wizardVars, Wizard!vars, Wizard!wizardVars, Wizard!serverVars

\* The photos that an account was created with reach its profile, or wait in
\* the pending registration on the disk, whatever restarts, links and sign-ins
\* of other addresses come between.
THEOREM RegistrationKeeps == ClientSpec => []RegistrationKept
  <1>1. ClientInit => RegInv
    BY ClientConstants, RegBegins DEF ClientInit
  <1>2. RegInv /\ [ClientNext]_clientVars => RegInv'
    BY ClientConstants, WizardStep, RegKept
  <1>3. RegInv => RegistrationKept
    BY DEF RegInv, LatestInv, Brought, RegistrationKept, Wizard!RegistrationKept
  <1> QED  BY <1>1, <1>2, <1>3, PTL DEF ClientSpec, clientVars


\* A step of the phone is one of the settings, or leaves them alone.
LEMMA SettingsStep ==
    ASSUME [ClientNext]_clientVars
    PROVE  [Own!Next]_(Own!vars)
  BY DEF ClientNext, clientVars, settingsVars, Own!vars

\* Once every switch and form is answered, a screen of the own profile shows
\* what is stored, unless its query is marked or the code has no way to know:
\* however roll-backs, fetches and answers overlap.
THEOREM StoredIsShown == ClientSpec => []ShownIsStored
  <1>1. ClientInit => FormsInv
    BY ClientConstants, FormsBegin DEF ClientInit
  <1>2. FormsInv /\ [ClientNext]_clientVars => FormsInv'
    BY ClientConstants, SettingsStep, FormsKept
  <1>3. FormsInv => ShownIsStored
    BY FormsShown DEF ShownIsStored
  <1> QED  BY <1>1, <1>2, <1>3, PTL DEF ClientSpec, clientVars

\* A step of the phone is one of the session, or leaves it alone.
LEMMA SessionStep ==
    ASSUME [ClientNext]_clientVars
    PROVE  [Next]_vars
  BY DEF ClientNext, clientVars

\* The stores, the calls and the screens keep their types.
THEOREM ClientTypes == ClientSpec => []ClientTypeOK
  <1> DEFINE Inv == TypeInv /\ RegInv /\ NavInv /\ FormsInv
  <1>1. ClientInit => Inv
    BY ClientConstants, SessionConstants, TypeInit, RegBegins, NavBegins, FormsBegin DEF ClientInit
  <1>2. Inv /\ [ClientNext]_clientVars => Inv'
    <2>1. TypeInv /\ [ClientNext]_clientVars => TypeInv'
      BY SessionConstants, SessionStep, TypeStep
    <2>2. RegInv /\ [ClientNext]_clientVars => RegInv'
      BY ClientConstants, WizardStep, RegKept
    <2>3. NavInv /\ [ClientNext]_clientVars => NavInv'
      BY ClientConstants, NavigationStep, NavKept
    <2>4. FormsInv /\ [ClientNext]_clientVars => FormsInv'
      BY ClientConstants, SettingsStep, FormsKept
    <2> QED  BY <2>1, <2>2, <2>3, <2>4
  <1>3. Inv => ClientTypeOK
    BY DEF ClientTypeOK, TypeInv, RegInv, RegTypeInv, NavInv, FormsInv, FormsTypeInv
  <1> HIDE DEF Inv
  <1> QED  BY <1>1, <1>2, <1>3, PTL DEF ClientSpec, clientVars
=============================================================================
