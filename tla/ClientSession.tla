--------------------------- MODULE ClientSession ---------------------------
(***************************************************************************)
(* The session of one phone and its push registration.  The auth client    *)
(* keeps the account it is signed in with in the keychain and reports      *)
(* every change; the session store answers each report with a call of      *)
(* several awaited steps, and nothing orders one call after another: a     *)
(* call may write what it began with over the answer to a later report.    *)
(* The push service registers the phone's token for the account of the     *)
(* store, under one registration promise, and every way out of a session   *)
(* marks the stored registration before it forgets it.  The process may    *)
(* die between any two steps.                                              *)
(***************************************************************************)
EXTENDS Naturals, FiniteSets

CONSTANTS Users,      \* accounts used on this phone
          Tokens,     \* tokens the system hands out, one at a time
          Calls,      \* bound: calls running at once
          None,       \* no account, no token, no call
          MaxAuth,    \* bound: changes of the auth session
          MaxEvents,  \* bound: foregrounds, token and permission changes
          MaxKills,   \* bound: deaths of the process
          RetryLimit  \* entries of PUSH_RETRY_DELAYS_MS

ASSUME SessionConstants ==
    /\ {MaxAuth, MaxEvents, MaxKills, RetryLimit} \subseteq Nat
    /\ None \notin Users \cup Tokens \cup Calls

VARIABLES
    phase, sess, prof,  \* the store: phase, session.user.id, profile.id
    auth,               \* account of the auth client, in the keychain
    stored,             \* StoredPushRegistration in the keychain
    memory,             \* the module variables of pushNotifications.ts
    mounted,            \* account usePushRegistration is mounted for
    osToken, granted,   \* the system's push token and permission
    bind,               \* push_tokens: account each token is active for
    calls,              \* the asynchronous calls running
    data,               \* accounts whose private rows the local caches hold
    load,               \* account whose rows are being loaded
    boot,               \* what useAuthBootstrap has yet to apply
    overtaken,          \* history: sets begun before the last change of account
    late,               \* history: what is shown was written by one of them,
                        \* or a change was ignored in a recovery
    spilled,            \* history: whose load ran when the caches were cleared
    budget              \* counters of the bounds

history    == <<overtaken, late, spilled>>
storeVars  == <<phase, sess, prof, data, load, boot, history>>
pushVars   == <<stored, memory>>
deviceVars == <<osToken, granted, mounted>>
vars == <<storeVars, auth, pushVars, deviceVars, bind, calls, budget>>

Idle    == [op |-> "idle"]
Records == [token : Tokens, user : Users, prev : SUBSET Tokens,
            state : {"pending", "registered", "revoking"}]
Forgotten == [user |-> None, token |-> None, fresh |-> FALSE,
              promise |-> None, promiseUser |-> None,
              timer |-> None, attempt |-> 0]

Running(ops) == {c \in Calls : calls[c].op \in ops}

\* History: a session of u, or of nobody, overtakes the sets of other accounts.
Overtaken(u) == overtaken \cup {c \in Running({"set"}) : calls[c].user # u}

\* calls once call c, asked for u, starts op at pc.
Started(c, op, u, pc) ==
    [calls EXCEPT ![c] = [op |-> op, user |-> u, pc |-> pc, rec |-> None,
                          on |-> memory.promise, tok |-> None]]
At(c, op, pc) == calls[c].op = op /\ calls[c].pc = pc
Goto(c, pc)   == [calls EXCEPT ![c].pc = pc]
Ended(c)      == [calls EXCEPT ![c] = Idle]
Free          == {c \in Calls : calls[c] = Idle}

Init ==
    /\ phase = "booting" /\ sess = None /\ prof = None /\ data = {} /\ load = None
    /\ boot = {"report", "session"} /\ overtaken = {} /\ late = FALSE /\ spilled = {}
    /\ auth = None /\ stored = None /\ memory = Forgotten
    /\ mounted = None /\ osToken \in Tokens /\ granted = TRUE
    /\ bind = [t \in Tokens |-> None]
    /\ calls = [c \in Calls |-> Idle]
    /\ budget = [auth |-> 0, event |-> 0, kill |-> 0]

Spend(kind, max) == /\ budget[kind] < max
                    /\ budget' = [budget EXCEPT ![kind] = @ + 1]

-----------------------------------------------------------------------------
(* Reports of the auth client.  applySession ignores a session while the   *)
(* store is in recovery; a lost session is applied in every phase.         *)

\* Mutant: no report at all is applied in recovery.
ApplyUnlessRecovery(c, u) ==
    IF phase = "recovery" THEN UNCHANGED calls
    ELSE calls' = IF u = None THEN Started(c, "loss", sess, "await")
                  ELSE Started(c, "set", u, IF sess \notin {None, u} THEN "await"
                                            ELSE "enter")
\* Mutant: a report of a session enters the app in the recovery phase, too.
ApplyAnyway(c, u) ==
    calls' = IF u = None THEN Started(c, "loss", sess, "await")
             ELSE Started(c, "set", u, IF sess \notin {None, u} THEN "await"
                                       ELSE "enter")
ApplySession(c, u) ==
    CASE u = None -> calls' = Started(c, "loss", sess, "await")
      [] u # None /\ phase = "recovery" -> UNCHANGED calls
      [] OTHER -> calls' = Started(c, "set", u,
                             IF sess \notin {None, u} THEN "await" ELSE "enter")

\* The first report of the auth client: what it found in the keychain.
InitialReport ==
    /\ "report" \in boot /\ boot' = boot \ {"report"}
    /\ \E c \in Free : ApplySession(c, auth)
    /\ UNCHANGED <<phase, sess, prof, data, load, history, auth, pushVars, deviceVars, bind, budget>>

\* Once the initial link is handled the session is asked for and applied, too.
BootSession ==
    /\ "session" \in boot /\ boot' = boot \ {"session"}
    /\ \/ phase = "recovery" /\ UNCHANGED calls
       \/ phase # "recovery" /\ \E c \in Free : ApplySession(c, auth)
    /\ UNCHANGED <<phase, sess, prof, data, load, history, auth, pushVars, deviceVars, bind, budget>>

\* signInWithPassword, a verification link, or a refresh of the token.
SessionReported(u) ==
    /\ Spend("auth", MaxAuth)
    /\ auth' = u
    /\ \E c \in Free : ApplySession(c, u)
    /\ overtaken' = Overtaken(u)
    /\ late' = IF phase = "recovery" THEN sess # u ELSE late
    /\ UNCHANGED <<phase, sess, prof, data, load, boot, spilled, pushVars, deviceVars, bind>>

\* The refresh token is revoked or has expired.
SessionLost ==
    /\ auth # None /\ Spend("auth", MaxAuth)
    /\ auth' = None
    /\ \E c \in Free : ApplySession(c, None)
    /\ overtaken' = Overtaken(None)
    /\ UNCHANGED <<phase, sess, prof, data, load, boot, late, spilled, pushVars, deviceVars, bind>>

\* A reset link: PASSWORD_RECOVERY shows the new-password screen instead.
RecoveryLink(u) ==
    /\ Spend("auth", MaxAuth)
    /\ auth' = u /\ phase' = "recovery" /\ sess' = u /\ prof' = None
    /\ overtaken' = Running({"set"}) /\ late' = FALSE
    /\ UNCHANGED <<data, load, boot, spilled, pushVars, deviceVars, bind, calls>>

\* updatePassword succeeded.
CompleteRecovery ==
    /\ phase = "recovery"
    /\ phase' = IF sess # None THEN "signedIn" ELSE "signedOut"
    /\ UNCHANGED <<sess, prof, data, load, boot, history, auth, pushVars, deviceVars, bind, calls, budget>>

\* The settings screen signs out.
SignOut ==
    /\ phase = "signedIn"
    /\ \E c \in Free : calls' = Started(c, "out", sess, "await")
    /\ UNCHANGED <<storeVars, auth, pushVars, deviceVars, bind, budget>>

-----------------------------------------------------------------------------
(* Steps of the store's calls.                                             *)

\* The registration promise the call saw has settled.
Awaited(c) ==
    /\ calls[c].op # "idle" /\ calls[c].pc = "await" /\ calls[c].on = None
    /\ calls' = Goto(c, IF calls[c].op = "register" THEN "claim" ELSE "read")
    /\ UNCHANGED <<storeVars, auth, pushVars, deviceVars, bind, budget>>

ReadStored(c) ==
    /\ calls[c].op # "idle" /\ calls[c].pc = "read"
    /\ calls' = [calls EXCEPT ![c].rec = stored,
                   ![c].pc = IF /\ calls[c].op \in {"register", "deny"}
                                /\ (stored = None \/ stored.user # calls[c].user)
                             THEN "denied" ELSE "mark"]
    /\ UNCHANGED <<storeVars, auth, pushVars, deviceVars, bind, budget>>

\* tombstoneRegistration and clearRegistrationMemory; the running promise
\* itself is not forgotten, only whose it is.
Cleared == [Forgotten EXCEPT !.promise = memory.promise]
Mark(c) ==
    /\ calls[c].op # "idle" /\ calls[c].pc = "mark"
    /\ LET rec == calls[c].rec IN
       /\ stored' = IF rec = None THEN stored ELSE [rec EXCEPT !.state = "revoking"]
       /\ memory' = Cleared
       /\ calls' = Goto(c, CASE calls[c].op = "loss" -> "apply"
                             [] calls[c].op = "set"  -> "enter"
                             [] rec # None           -> "revoke"
                             [] OTHER                -> "signOut")
    /\ UNCHANGED <<storeVars, auth, deviceVars, bind, budget>>

\* revoke_push_installation, owner-scoped: it disables the token only when it
\* is bound to the account of the request.
Revoked(t) == [bind EXCEPT ![t] = IF @ = auth THEN None ELSE @]
AfterRevoke(c, ok) ==
    CASE ok                     -> "remove"
      [] calls[c].op = "out"    -> "signOut"
      [] OTHER                  -> "denied"
Revoke(c) ==
    /\ calls[c].op # "idle" /\ calls[c].pc = "revoke"
    /\ \E reached \in (IF auth = None THEN {FALSE} ELSE BOOLEAN) : \E answered \in BOOLEAN :
       /\ bind' = IF reached THEN Revoked(calls[c].rec.token) ELSE bind
       /\ calls' = Goto(c, AfterRevoke(c, reached /\ answered))
    /\ UNCHANGED <<storeVars, auth, pushVars, deviceVars, budget>>

Remove(c) ==
    /\ calls[c].op # "idle" /\ calls[c].pc = "remove"
    /\ stored' = None
    /\ calls' = Goto(c, IF calls[c].op = "out" THEN "signOut" ELSE "denied")
    /\ UNCHANGED <<storeVars, auth, memory, deviceVars, bind, budget>>

\* supabase.auth.signOut: success is reported as a lost session, an error
\* leaves the keychain as it was.
AuthSignOut(c) ==
    /\ At(c, "out", "signOut")
    /\ \/ /\ auth # None /\ auth' = None /\ overtaken' = Overtaken(None)
          /\ \E d \in Free :
                calls' = [Started(d, "loss", sess, "await") EXCEPT ![c].pc = "apply"]
       \/ auth' = auth /\ calls' = Goto(c, "apply") /\ UNCHANGED overtaken
    /\ UNCHANGED <<phase, sess, prof, data, load, boot, late, spilled, pushVars, deviceVars, bind, budget>>

ApplySignedOut(c) ==
    /\ At(c, "out", "apply") \/ At(c, "loss", "apply")
    /\ phase' = "signedOut" /\ sess' = None /\ prof' = None
    /\ calls' = Goto(c, "clear") /\ late' = FALSE
    /\ UNCHANGED <<data, load, boot, overtaken, spilled, auth, pushVars, deviceVars, bind, budget>>

\* Mutant: only the caches of the account that was signed in are cleared.
ClearOwner(c) ==
    /\ At(c, "out", "clear") \/ At(c, "loss", "clear")
    /\ data' = data \ {calls[c].user} /\ calls' = Ended(c)
    /\ spilled' = {load} \ {None}
    /\ UNCHANGED <<phase, sess, prof, load, boot, overtaken, late, auth, pushVars, deviceVars, bind, budget>>
\* clearLocalSessionData, but for the outbox: query, event, snapshot and image
\* caches, channels.  A load that is under way is not stopped.
ClearLocal(c) ==
    /\ At(c, "out", "clear") \/ At(c, "loss", "clear")
    /\ data' = {} /\ calls' = Ended(c)
    /\ spilled' = {load} \ {None}
    /\ UNCHANGED <<phase, sess, prof, load, boot, overtaken, late, auth, pushVars, deviceVars, bind, budget>>

EnterApp(c) ==
    /\ At(c, "set", "enter")
    /\ phase' = "signedIn" /\ sess' = calls[c].user /\ prof' = None
    /\ calls' = Goto(c, "sync") /\ late' = (c \in overtaken)
    /\ UNCHANGED <<data, load, boot, overtaken, spilled, auth, pushVars, deviceVars, bind, budget>>

\* get_my_profile answers for the account of the request, or fails; the
\* session the call was made for is written again.
FinishSession(c) ==
    /\ At(c, "set", "sync")
    /\ prof' \in {None, IF auth = calls[c].user THEN auth ELSE None}
    /\ phase' = "signedIn" /\ sess' = calls[c].user
    /\ calls' = Ended(c)
    /\ late' = (c \in overtaken) /\ overtaken' = overtaken \ {c}
    /\ UNCHANGED <<data, load, boot, spilled, auth, pushVars, deviceVars, bind, budget>>

\* A mounted screen asks for rows of this account, one screen at a time.
LoadRows ==
    /\ phase = "signedIn" /\ auth # None /\ load = None
    /\ load' = auth
    /\ UNCHANGED <<phase, sess, prof, data, boot, history, auth, pushVars, deviceVars, bind, calls, budget>>

\* They are cached whenever they come, or do not come.
RowsArrive ==
    /\ load # None /\ load' = None
    /\ data' \in {data, data \cup {load}}
    /\ UNCHANGED <<phase, sess, prof, boot, history, auth, pushVars, deviceVars, bind, calls, budget>>

-----------------------------------------------------------------------------
(* usePushRegistration.                                                    *)

\* DeferredAppServices mounts the service for the session of the store, after
\* its timer; unmounting clears the retry.
MountPush ==
    /\ sess # None /\ mounted = None
    /\ mounted' = sess
    /\ \E c \in Free : calls' = Started(c, "register", sess, "permission")
    /\ UNCHANGED <<storeVars, auth, pushVars, osToken, granted, bind, budget>>

UnmountPush ==
    /\ mounted # None /\ mounted # sess
    /\ mounted' = None
    /\ memory' = [memory EXCEPT !.timer = None, !.attempt = 0]
    /\ UNCHANGED <<storeVars, auth, stored, osToken, granted, bind, calls, budget>>

\* The application becomes active, or notifications were dropped.
Foreground ==
    /\ mounted # None /\ Spend("event", MaxEvents)
    /\ \E c \in Free : calls' = Started(c, "register", mounted, "permission")
    /\ memory' \in {memory, [memory EXCEPT !.fresh = FALSE]}
    /\ UNCHANGED <<storeVars, auth, stored, deviceVars, bind>>

RotateToken ==
    /\ Spend("event", MaxEvents)
    /\ osToken' \in Tokens \ {osToken}
    /\ IF mounted = None THEN UNCHANGED <<memory, calls>>
       ELSE /\ memory' = [memory EXCEPT !.fresh = FALSE]
            /\ \E c \in Free : calls' = Started(c, "register", mounted, "permission")
    /\ UNCHANGED <<storeVars, auth, stored, granted, mounted, bind>>

TogglePermission ==
    /\ Spend("event", MaxEvents) /\ granted' = ~granted
    /\ UNCHANGED <<storeVars, auth, pushVars, osToken, mounted, bind, calls>>

\* The switch of the settings screen asks for the permission, and registers.
EnablePush ==
    /\ sess # None /\ Spend("event", MaxEvents)
    /\ granted' \in {granted, TRUE}
    /\ IF granted' THEN \E c \in Free : calls' = Started(c, "register", sess, "permission")
                   ELSE UNCHANGED calls
    /\ UNCHANGED <<storeVars, auth, pushVars, osToken, mounted, bind>>

\* A denied permission deactivates; otherwise the promise of the same user is
\* joined, that of another waited for.
CheckPermission(c) ==
    /\ At(c, "register", "permission")
    /\ calls' = CASE ~granted -> [calls EXCEPT ![c].op = "deny", ![c].pc = "read"]
                  [] granted /\ memory.promise = None -> Goto(c, "claim")
                  [] granted /\ memory.promise # None ->
                       IF memory.promiseUser = calls[c].user THEN Ended(c)
                       ELSE [calls EXCEPT ![c].pc = "await", ![c].on = memory.promise]
    /\ UNCHANGED <<storeVars, auth, pushVars, deviceVars, bind, budget>>

ClaimPromise(c) ==
    /\ At(c, "register", "claim")
    /\ memory' = [memory EXCEPT !.promise = c, !.promiseUser = calls[c].user]
    /\ calls' = Goto(c, "token")
    /\ UNCHANGED <<storeVars, auth, stored, deviceVars, bind, budget>>

\* Mutant: the promise is cleared, but whoever awaits it is not woken.
SettleNone(c, cs) == cs
\* Calls once c's promise settles: those that wait for it go on.
Settle(c, cs) == [d \in Calls |-> IF d # c /\ cs[d].op # "idle" /\ cs[d].on = c
                                  THEN [cs[d] EXCEPT !.on = None] ELSE cs[d]]
Unpromised(c, m) == IF m.promise = c THEN [m EXCEPT !.promise = None, !.promiseUser = None]
                    ELSE m

\* The token of the system and the stored record are read; the permission is
\* asked for again, inside the promise.
KnownToken(c, rec) ==
    CASE memory.user = calls[c].user           -> memory.token
      [] memory.user # calls[c].user /\ rec # None ->
           IF rec.user = calls[c].user THEN rec.token ELSE None
      [] OTHER -> None
ReadToken(c) ==
    /\ At(c, "register", "token")
    /\ calls' = IF ~granted THEN Goto(c, "read")
                ELSE [calls EXCEPT ![c].rec = stored, ![c].tok = osToken,
                                   ![c].pc = "store"]
    /\ UNCHANGED <<storeVars, auth, pushVars, deviceVars, bind, budget>>

\* Deactivation is over: nothing stored for this user, or revoked, or failed.
Denied(c) ==
    /\ calls[c].op \in {"register", "deny"} /\ calls[c].pc = "denied"
    /\ calls' = Settle(c, Ended(c)) /\ memory' = Unpromised(c, memory)
    /\ UNCHANGED <<storeVars, auth, stored, deviceVars, bind, budget>>

\* Nothing is sent for the known token within the cooldown.  Otherwise the
\* recovery record is written before the server may activate the token.
PreviousTokens(c) ==
    LET rec == calls[c].rec
    IN  ((IF rec = None THEN {} ELSE rec.prev \cup {rec.token})
         \cup {KnownToken(c, rec)}) \ {calls[c].tok, None}
StorePending(c) ==
    /\ At(c, "register", "store")
    /\ IF calls[c].tok = KnownToken(c, calls[c].rec) /\ memory.fresh
       THEN /\ calls' = Settle(c, Ended(c)) /\ memory' = Unpromised(c, memory)
            /\ UNCHANGED stored
       ELSE /\ stored' = [token |-> calls[c].tok, user |-> calls[c].user,
                          prev |-> PreviousTokens(c), state |-> "pending"]
            /\ calls' = [calls EXCEPT ![c].rec = stored', ![c].pc = "sync"]
            /\ UNCHANGED memory
    /\ UNCHANGED <<storeVars, auth, deviceVars, bind, budget>>

\* sync_push_installation binds the token to the account of the request and
\* disables the previous tokens and that account's others on the phone.
Synced(t, prev) ==
    [x \in Tokens |-> IF x = t THEN auth
                      ELSE IF x \in prev \/ bind[x] = auth THEN None ELSE bind[x]]
\* Mutant: one retry more than there are delays.
ScheduleRetryLate(u, m) ==
    IF m.timer # None \/ m.attempt > RetryLimit THEN m
    ELSE [m EXCEPT !.timer = u, !.attempt = @ + 1]
ScheduleRetry(u, m) ==
    IF m.timer # None \/ m.attempt >= RetryLimit THEN m
    ELSE [m EXCEPT !.timer = u, !.attempt = @ + 1]
SyncInstallation(c) ==
    /\ At(c, "register", "sync")
    /\ \E reached \in (IF auth = None THEN {FALSE} ELSE BOOLEAN) : \E answered \in BOOLEAN :
       /\ bind' = IF reached THEN Synced(calls[c].tok, calls[c].rec.prev) ELSE bind
       /\ IF reached /\ answered
          THEN calls' = Goto(c, "stored") /\ UNCHANGED memory
          ELSE /\ calls' = Settle(c, Ended(c))
               /\ memory' = Unpromised(c, ScheduleRetry(calls[c].user, memory))
    /\ UNCHANGED <<storeVars, auth, stored, deviceVars, budget>>

StoreRegistered(c) ==
    /\ At(c, "register", "stored")
    /\ stored' = [token |-> calls[c].tok, user |-> calls[c].user, prev |-> {},
                  state |-> "registered"]
    /\ memory' = [Unpromised(c, memory) EXCEPT !.user = calls[c].user,
                    !.token = calls[c].tok, !.fresh = TRUE,
                    !.timer = None, !.attempt = 0]
    /\ calls' = Settle(c, Ended(c))
    /\ UNCHANGED <<storeVars, auth, deviceVars, bind, budget>>

\* The retry timer calls registerForPushNotifications itself.
RetryFires ==
    /\ memory.timer # None
    /\ memory' = [memory EXCEPT !.timer = None]
    /\ IF memory.promise # None /\ memory.promiseUser = memory.timer
       THEN UNCHANGED calls
       ELSE \E c \in Free :
              calls' = [Started(c, "register", memory.timer, "await")
                          EXCEPT ![c].on = memory.promise]
    /\ UNCHANGED <<storeVars, auth, stored, deviceVars, bind, budget>>

CooldownEnds ==
    /\ memory.fresh /\ memory' = [memory EXCEPT !.fresh = FALSE]
    /\ UNCHANGED <<storeVars, auth, stored, deviceVars, bind, calls, budget>>

\* The process dies: what is not in the keychain or on disk is gone.
Kill ==
    /\ Spend("kill", MaxKills)
    /\ phase' = "booting" /\ sess' = None /\ prof' = None /\ mounted' = None
    /\ memory' = Forgotten /\ calls' = [c \in Calls |-> Idle]
    /\ boot' = {"report", "session"} /\ load' = None
    /\ overtaken' = {} /\ late' = FALSE /\ spilled' = {}
    /\ UNCHANGED <<data, auth, stored, osToken, granted, bind>>

StoreStep(c) ==
    \/ Awaited(c) \/ ReadStored(c) \/ Mark(c) \/ Revoke(c) \/ Remove(c)
    \/ AuthSignOut(c) \/ ApplySignedOut(c) \/ ClearLocal(c)
    \/ EnterApp(c) \/ FinishSession(c)
RegisterStep(c) ==
    \/ CheckPermission(c) \/ ClaimPromise(c) \/ ReadToken(c) \/ Denied(c)
    \/ StorePending(c) \/ SyncInstallation(c) \/ StoreRegistered(c)

Next ==
    \/ InitialReport \/ BootSession \/ SessionLost \/ CompleteRecovery \/ SignOut
    \/ LoadRows \/ RowsArrive
    \/ \E u \in Users : SessionReported(u) \/ RecoveryLink(u)
    \/ \E c \in Calls : StoreStep(c) \/ RegisterStep(c)
    \/ MountPush \/ UnmountPush \/ Foreground \/ RotateToken \/ EnablePush
    \/ TogglePermission \/ RetryFires \/ CooldownEnds \/ Kill

Spec == Init /\ [][Next]_vars

-----------------------------------------------------------------------------
(* Properties.                                                             *)

\* The shape of the state: a signed-in store has a session, and the profile it
\* holds is that session's, whatever call wrote them last.
SessionTypeOK ==
    /\ phase \in {"booting", "signedOut", "recovery", "signedIn"}
    /\ {sess, prof, auth, mounted, load} \subseteq Users \cup {None}
    /\ boot \subseteq {"report", "session"}
    /\ overtaken \subseteq Calls /\ late \in BOOLEAN /\ spilled \subseteq Users
    /\ stored \in Records \cup {None}
    /\ bind \in [Tokens -> Users \cup {None}]
    /\ data \subseteq Users /\ memory.attempt \in 0..RetryLimit
    /\ phase = "signedIn" => sess # None
    /\ prof # None => prof = sess

\* The navigator on the screen.
Shown == CASE phase = "booting"  -> "Splash"
           [] phase = "recovery" -> "NewPassword"
           [] phase = "signedOut" -> "Welcome"
           [] OTHER -> "MainTabs"

Quiet == Running({"set", "loss", "out"}) = {}

\* Once no call of the store runs, an application that shows an account has
\* the session of that account, in whatever order sessions were opened, lost,
\* closed with an error and recovered, and wherever the process died.  Reports
\* may overlap: this fails only when the last call to write was a set that a
\* change of the account had overtaken, or when that change was ignored in a
\* recovery; whatever a later call writes mends it.
SignedInIsAuth == Quiet /\ Shown = "MainTabs" /\ ~late => sess = auth

\* Once no call runs, a signed-out phone holds private rows of nobody: the
\* boot after a death before the cleanup has cleaned up, too.  Only a load that
\* was under way at the cleanup may bring its account's rows afterwards.
SignedOutClean == Quiet /\ Shown = "Welcome" => data \subseteq spilled

\* Only the new password ends a recovery in the application: no report of the
\* recovery session begins a call that would, and the calls that had begun
\* before the link are the only others that do.
RecoveryHolds ==
    [][Shown = "NewPassword" =>
         /\ Running({"set"})' \subseteq Running({"set"})
         /\ Shown' = "MainTabs" => late' \/ UNCHANGED <<sess, calls>>]_vars

\* Whoever awaits the registration promise awaits a registration that is
\* under way and awaits nothing itself: no call waits for good.
AwaitedRuns ==
    \A c \in Calls : calls[c].op # "idle" /\ calls[c].on # None =>
        \/ calls[c].pc # "await"
        \/ LET p == calls[calls[c].on]
           IN  p.op = "register" /\ p.pc \notin {"permission", "await", "claim"}

\* docs/push-real-device-matrix.md: after an online logout the account's token
\* is unregistered.  Its record is removed by its own account only when the
\* token is active for that account no more.
RemovalRevokes ==
    [][stored # None /\ stored' = None /\ auth = stored.user
         => bind[stored.token] # stored.user]_vars
=============================================================================
