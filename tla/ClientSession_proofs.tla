------------------------ MODULE ClientSession_proofs ------------------------
(***************************************************************************)
(* Safety of the session for any accounts, tokens and number of calls.     *)
(* Nothing is assumed on how events fall: the calls of the store run at    *)
(* any time beside one another, and history tells which of them a later    *)
(* change of the account has overtaken.                                    *)
(***************************************************************************)
EXTENDS ClientSession, TLAPS

StoreOps  == {"set", "loss", "out"}
PushOps   == {"register", "deny"}
Positions == {"permission", "await", "claim", "token", "read", "mark", "revoke", "remove",
              "denied", "store", "sync", "stored", "signOut", "apply", "clear", "enter"}

\* A running call.
CallRecords == [op : StoreOps \cup PushOps, user : Users \cup {None}, pc : Positions,
                rec : Records \cup {None}, on : Calls \cup {None}, tok : Tokens \cup {None}]

\* What a call's position says of its locals.
WellFormed(r) ==
    /\ r.op \in {"set", "register", "deny"} => r.user \in Users
    /\ r.op = "register" /\ r.pc \in {"store", "sync", "stored"} => r.tok \in Tokens
    /\ r.op = "register" /\ r.pc = "sync" => r.rec \in Records
    /\ r.pc = "revoke" => r.rec \in Records
    /\ r.pc = "clear" => r.op \in {"loss", "out"}

\* The module variables of pushNotifications.ts.
Memories == [user : Users \cup {None}, token : Tokens \cup {None}, fresh : BOOLEAN,
             promise : Calls \cup {None}, promiseUser : Users \cup {None},
             timer : Users \cup {None}, attempt : 0..RetryLimit]

GoodCalls == {r \in CallRecords : WellFormed(r)}

TypeInv ==
    /\ SessionTypeOK
    /\ calls \in [Calls -> GoodCalls \cup {Idle}]
    /\ memory \in Memories
    /\ osToken \in Tokens /\ granted \in BOOLEAN

\* A call that holds a registration promise: it is past its claim, and every
\* way on from there ends by settling the promise.
Holding(r) == r.op = "register" /\ r.pc \notin {"permission", "await", "claim"}
Holds(p)   == Holding(calls[p])

\* The promise on record, and the one each call has seen, are held by someone.
PromiseInv ==
    /\ memory.promise # None => Holds(memory.promise)
    /\ \A c \in Calls : calls[c].op # "idle" /\ calls[c].on # None => Holds(calls[c].on)

\* A signed-out store has cleaned up, but for a load that runs or ran beside it,
\* or a call is about to.
CleanInv ==
    /\ phase = "signedOut" => \/ data \cup ({load} \ {None}) \subseteq spilled
                              \/ \E c \in Calls : calls[c].op # "idle" /\ calls[c].pc = "clear"
    /\ phase = "recovery" => sess # None

\* A call that is about to write what the last change of the account says.
Writer(c) == \/ calls[c].op = "loss" /\ calls[c].pc # "clear"
             \/ calls[c].op = "set" /\ c \notin overtaken

\* What the calls of the store know: a set that no change has overtaken reports
\* the account of the auth client, in a recovery there is none, and a store
\* that shows another account than that is about to be written.
StoreInv ==
    /\ \A c \in overtaken : calls[c].op = "set"
    /\ \A c \in Calls : calls[c].op = "set" /\ c \notin overtaken
                           => calls[c].user = auth /\ phase # "recovery"
    /\ ~late /\ phase \in {"signedIn", "recovery"} /\ sess # auth => \E c \in Calls : Writer(c)

-----------------------------------------------------------------------------
(* Types *)

LEMMA IdleFact == Idle.op = "idle" /\ \A r \in CallRecords : r.op # "idle" /\ r # Idle
  BY DEF Idle, CallRecords, StoreOps, PushOps

\* A call that starts, moves or ends leaves the others as they are.
LEMMA StartedType ==
    ASSUME TypeInv, NEW c \in Calls, NEW op \in StoreOps \cup PushOps,
           NEW u \in Users \cup {None}, op \in {"set", "register", "deny"} => u \in Users,
           NEW pc \in {"await", "enter", "permission"}
    PROVE  Started(c, op, u, pc) \in [Calls -> GoodCalls \cup {Idle}]
  <1> DEFINE r == [op |-> op, user |-> u, pc |-> pc, rec |-> None, on |-> memory.promise, tok |-> None]
  <1>1. r \in CallRecords
    BY DEF CallRecords, Positions, TypeInv, Memories
  <1>2. WellFormed(r)
    BY DEF WellFormed
  <1> HIDE DEF r
  <1>3. [calls EXCEPT ![c] = r] \in [Calls -> GoodCalls \cup {Idle}]
    BY <1>1, <1>2 DEF GoodCalls, TypeInv
  <1> QED  BY <1>3 DEF Started, r

LEMMA GotoType ==
    ASSUME TypeInv, NEW c \in Calls, calls[c].op # "idle", NEW pc \in Positions,
           WellFormed([calls[c] EXCEPT !.pc = pc])
    PROVE  Goto(c, pc) \in [Calls -> GoodCalls \cup {Idle}]
  <1>1. calls[c] \in CallRecords
    BY IdleFact DEF TypeInv, GoodCalls
  <1>2. [calls[c] EXCEPT !.pc = pc] \in CallRecords
    BY <1>1 DEF CallRecords
  <1> QED  BY <1>1, <1>2 DEF Goto, TypeInv, GoodCalls

LEMMA EndedType ==
    ASSUME TypeInv, NEW c \in Calls
    PROVE  Ended(c) \in [Calls -> GoodCalls \cup {Idle}]
  BY DEF Ended, TypeInv

LEMMA SettleType ==
    ASSUME NEW c \in Calls, NEW cs \in [Calls -> GoodCalls \cup {Idle}]
    PROVE  Settle(c, cs) \in [Calls -> GoodCalls \cup {Idle}]
  <1>1. ASSUME NEW d \in Calls, cs[d].op # "idle"
        PROVE  [cs[d] EXCEPT !.on = None] \in GoodCalls
    <2>1. cs[d] \in GoodCalls
      BY <1>1 DEF Idle
    <2> QED  BY <2>1 DEF GoodCalls, CallRecords, WellFormed
  <1> QED  BY <1>1 DEF Settle

\* What a running call's record is known to be.
LEMMA RunningRecord ==
    ASSUME TypeInv, NEW c \in Calls, calls[c].op # "idle"
    PROVE  calls[c] \in CallRecords /\ WellFormed(calls[c])
  BY IdleFact DEF TypeInv, GoodCalls

\* A cleared memory still names the promise that runs.
LEMMA ClearedType ==
    ASSUME SessionConstants, NEW p \in Calls \cup {None}
    PROVE  /\ [Forgotten EXCEPT !.promise = p] \in Memories
           /\ Forgotten \in Memories
           /\ 0 \in 0..RetryLimit
  <1>1. RetryLimit \in Nat
    BY DEF SessionConstants
  <1>2. 0 \in 0..RetryLimit
    BY <1>1
  <1> QED  BY <1>2 DEF Forgotten, Memories

\* The reports of the auth client and the screens' own events begin at most a
\* call.
LEMMA ReportTypes ==
    ASSUME SessionConstants, TypeInv,
           \/ InitialReport \/ BootSession \/ SessionLost \/ CompleteRecovery \/ SignOut
           \/ LoadRows \/ RowsArrive
           \/ \E u \in Users : SessionReported(u) \/ RecoveryLink(u)
    PROVE  TypeInv'
  <1> USE DEF SessionTypeOK, TypeInv
  <1>1. ASSUME NEW c \in Free, NEW u \in Users \cup {None}, ApplySession(c, u)
        PROVE  calls' \in [Calls -> GoodCalls \cup {Idle}]
    <2>1. CASE u = None
      <3>1. Started(c, "loss", sess, "await") \in [Calls -> GoodCalls \cup {Idle}]
        BY StartedType DEF StoreOps, Free
      <3> QED  BY <1>1, <2>1, <3>1 DEF ApplySession
    <2>2. CASE u # None
      <3>1. /\ Started(c, "set", u, "await") \in [Calls -> GoodCalls \cup {Idle}]
            /\ Started(c, "set", u, "enter") \in [Calls -> GoodCalls \cup {Idle}]
        BY <2>2, StartedType DEF StoreOps, Free
      <3> QED  BY <1>1, <2>2, <3>1 DEF ApplySession
    <2> QED  BY <2>1, <2>2
  <1>0. \A u \in Users \cup {None} : Overtaken(u) \subseteq Calls /\ Running({"set"}) \subseteq Calls
    BY DEF Overtaken, Running
  <1>2. CASE InitialReport \/ BootSession
    <2>1. calls' \in [Calls -> GoodCalls \cup {Idle}]
      BY <1>1, <1>2 DEF InitialReport, BootSession
    <2> QED  BY <1>2, <2>1 DEF InitialReport, BootSession, history, pushVars, deviceVars
  <1>3. CASE SessionLost
    <2>1. PICK c \in Free : ApplySession(c, None)
      BY <1>3 DEF SessionLost
    <2> QED  BY <1>0, <1>1, <1>3, <2>1 DEF SessionLost, pushVars, deviceVars
  <1>4. CASE CompleteRecovery
    BY <1>4 DEF CompleteRecovery, history, pushVars, deviceVars
  <1>5. CASE SignOut
    <2>1. \A c \in Free : Started(c, "out", sess, "await") \in [Calls -> GoodCalls \cup {Idle}]
      BY StartedType DEF StoreOps, Free
    <2> QED  BY <1>5, <2>1 DEF SignOut, storeVars, history, pushVars, deviceVars
  <1>6. CASE LoadRows \/ RowsArrive
    BY <1>6, SessionConstants DEF LoadRows, RowsArrive, history, pushVars, deviceVars, SessionConstants
  <1>7. ASSUME NEW u \in Users, SessionReported(u) PROVE TypeInv'
    <2>1. PICK c \in Free : ApplySession(c, u)
      BY <1>7 DEF SessionReported
    <2>2. late' \in BOOLEAN
      BY <1>7 DEF SessionReported
    <2> QED  BY <1>0, <1>1, <1>7, <2>1, <2>2 DEF SessionReported, pushVars, deviceVars
  <1>8. ASSUME NEW u \in Users, RecoveryLink(u) PROVE TypeInv'
    BY <1>0, <1>8, SessionConstants DEF RecoveryLink, pushVars, deviceVars, SessionConstants
  <1> QED  BY <1>2, <1>3, <1>4, <1>5, <1>6, <1>7, <1>8

\* The steps of the store's calls.
LEMMA StoreTypes ==
    ASSUME SessionConstants, TypeInv, NEW c \in Calls, StoreStep(c)
    PROVE  TypeInv'
  <1>1. CASE Awaited(c)
    <2>1. \A p \in {"claim", "read"} : Goto(c, p) \in [Calls -> GoodCalls \cup {Idle}]
      BY <1>1, RunningRecord, GotoType DEF Awaited, WellFormed, Positions, CallRecords
    <2> QED  BY <1>1, <2>1 DEF Awaited, TypeInv, SessionTypeOK, storeVars, history, pushVars, deviceVars
  <1>2. CASE ReadStored(c)
    <2> DEFINE r == [calls[c] EXCEPT !.rec = stored,
                       !.pc = IF /\ calls[c].op \in {"register", "deny"}
                                 /\ stored = None \/ stored.user # calls[c].user
                              THEN "denied" ELSE "mark"]
    <2>1. r \in GoodCalls
      BY <1>2, RunningRecord DEF ReadStored, GoodCalls, CallRecords, WellFormed, Positions, TypeInv, SessionTypeOK
    <2>2. calls' = [calls EXCEPT ![c] = r]
      BY <1>2 DEF ReadStored
    <2> HIDE DEF r
    <2>3. calls' \in [Calls -> GoodCalls \cup {Idle}]
      BY <2>1, <2>2 DEF TypeInv
    <2>4. /\ UNCHANGED <<phase, sess, prof, data, load, boot, overtaken, late, spilled, auth, stored>>
          /\ UNCHANGED <<memory, osToken, granted, mounted, bind>>
      BY <1>2 DEF ReadStored, storeVars, history, pushVars, deviceVars
    <2> QED  BY <2>3, <2>4 DEF TypeInv, SessionTypeOK
  <1>3. CASE Mark(c)
    <2>1. calls[c] \in CallRecords /\ calls[c].op # "idle"
      BY <1>3, RunningRecord DEF Mark
    <2>2. /\ calls[c].rec # None => /\ calls[c].rec \in Records
                                     /\ [calls[c].rec EXCEPT !.state = "revoking"] \in Records
      BY <2>1 DEF CallRecords, Records
    <2>3. /\ \A p \in {"apply", "enter", "signOut"} : Goto(c, p) \in [Calls -> GoodCalls \cup {Idle}]
          /\ calls[c].rec # None => Goto(c, "revoke") \in [Calls -> GoodCalls \cup {Idle}]
      BY <1>3, <2>1, <2>2, RunningRecord, GotoType DEF Mark, WellFormed, Positions, CallRecords
    <2>4. calls' \in [Calls -> GoodCalls \cup {Idle}]
      BY <1>3, <2>3 DEF Mark
    <2>5. Cleared \in Memories
      BY ClearedType DEF Cleared, Memories, TypeInv
    <2>6. stored' \in Records \cup {None} /\ memory' = Cleared
      BY <1>3, <2>2 DEF Mark, TypeInv, SessionTypeOK
    <2>7. memory'.attempt \in 0..RetryLimit
      BY <2>5, <2>6 DEF Memories
    <2> QED  BY <1>3, <2>4, <2>5, <2>6, <2>7 DEF Mark, TypeInv, SessionTypeOK, storeVars, history, deviceVars
  <1>4. CASE Revoke(c)
    <2>1. \A p \in {"remove", "signOut", "denied"} : Goto(c, p) \in [Calls -> GoodCalls \cup {Idle}]
      BY <1>4, RunningRecord, GotoType DEF Revoke, WellFormed, Positions, CallRecords
    <2>2. calls' \in [Calls -> GoodCalls \cup {Idle}]
      BY <1>4, <2>1 DEF Revoke, AfterRevoke
    <2>3. bind' \in [Tokens -> Users \cup {None}]
      BY <1>4 DEF Revoke, Revoked, TypeInv, SessionTypeOK
    <2> QED  BY <1>4, <2>2, <2>3 DEF Revoke, TypeInv, SessionTypeOK, storeVars, history, pushVars, deviceVars
  <1>5. CASE Remove(c)
    <2>1. \A p \in {"signOut", "denied"} : Goto(c, p) \in [Calls -> GoodCalls \cup {Idle}]
      BY <1>5, RunningRecord, GotoType DEF Remove, WellFormed, Positions, CallRecords
    <2> QED  BY <1>5, <2>1 DEF Remove, TypeInv, SessionTypeOK, storeVars, history, deviceVars
  <1>6. CASE AuthSignOut(c)
    <2>1. Goto(c, "apply") \in [Calls -> GoodCalls \cup {Idle}]
      BY <1>6, RunningRecord, GotoType DEF AuthSignOut, At, WellFormed, Positions, CallRecords
    <2>2. ASSUME NEW d \in Free
          PROVE  [Started(d, "loss", sess, "await") EXCEPT ![c].pc = "apply"] \in [Calls -> GoodCalls \cup {Idle}]
      <3>1. Started(d, "loss", sess, "await") \in [Calls -> GoodCalls \cup {Idle}]
        BY StartedType DEF StoreOps, Free, TypeInv, SessionTypeOK
      <3>2. c # d /\ Started(d, "loss", sess, "await")[c] = calls[c]
        BY <1>6 DEF AuthSignOut, At, Free, Started, TypeInv, Idle
      <3>3. [calls[c] EXCEPT !.pc = "apply"] \in GoodCalls
        BY <1>6, RunningRecord DEF AuthSignOut, At, GoodCalls, WellFormed, Positions, CallRecords
      <3> QED  BY <3>1, <3>2, <3>3
    <2>3. calls' \in [Calls -> GoodCalls \cup {Idle}]
      BY <1>6, <2>1, <2>2 DEF AuthSignOut
    <2>4. auth' \in Users \cup {None}
      BY <1>6 DEF AuthSignOut, TypeInv, SessionTypeOK
    <2>5. overtaken' \subseteq Calls
      BY <1>6 DEF AuthSignOut, Overtaken, Running, TypeInv, SessionTypeOK
    <2> QED  BY <1>6, <2>3, <2>4, <2>5 DEF AuthSignOut, TypeInv, SessionTypeOK, pushVars, deviceVars
  <1>7. CASE ApplySignedOut(c)
    <2>1. Goto(c, "clear") \in [Calls -> GoodCalls \cup {Idle}]
      BY <1>7, RunningRecord, GotoType DEF ApplySignedOut, At, WellFormed, Positions, CallRecords
    <2> QED  BY <1>7, <2>1 DEF ApplySignedOut, TypeInv, SessionTypeOK, pushVars, deviceVars
  <1>8. CASE ClearLocal(c)
    BY <1>8, EndedType DEF ClearLocal, TypeInv, SessionTypeOK, pushVars, deviceVars
  <1>9. CASE EnterApp(c)
    <2>1. Goto(c, "sync") \in [Calls -> GoodCalls \cup {Idle}]
      BY <1>9, RunningRecord, GotoType DEF EnterApp, At, WellFormed, Positions, CallRecords
    <2>2. calls[c].user \in Users
      BY <1>9, RunningRecord DEF EnterApp, At, WellFormed
    <2> QED  BY <1>9, <2>1, <2>2, SessionConstants
             DEF EnterApp, TypeInv, SessionTypeOK, pushVars, deviceVars, SessionConstants
  <1>10. CASE FinishSession(c)
    <2>1. calls[c].user \in Users
      BY <1>10, RunningRecord DEF FinishSession, At, WellFormed
    <2> QED  BY <1>10, <2>1, EndedType, SessionConstants
             DEF FinishSession, TypeInv, SessionTypeOK, pushVars, deviceVars, SessionConstants
  <1> QED  BY <1>1, <1>2, <1>3, <1>4, <1>5, <1>6, <1>7, <1>8, <1>9, <1>10 DEF StoreStep

\* What mounts, unmounts and wakes the push service.
LEMMA PushEventTypes ==
    ASSUME SessionConstants, TypeInv,
           \/ MountPush \/ UnmountPush \/ Foreground \/ RotateToken \/ EnablePush
           \/ TogglePermission \/ RetryFires \/ CooldownEnds \/ Kill
    PROVE  TypeInv'
  <1> USE DEF TypeInv, SessionTypeOK
  <1>1. ASSUME NEW c \in Free, NEW u \in Users
        PROVE  /\ Started(c, "register", u, "permission") \in [Calls -> GoodCalls \cup {Idle}]
               /\ Started(c, "register", u, "await") \in [Calls -> GoodCalls \cup {Idle}]
    BY StartedType DEF PushOps, Free
  <1>2. CASE MountPush
    BY <1>1, <1>2 DEF MountPush, storeVars, history, pushVars
  <1>3. CASE UnmountPush
    <2>1. memory' \in Memories /\ memory'.attempt \in 0..RetryLimit
      BY <1>3, ClearedType DEF UnmountPush, Memories
    <2> QED  BY <1>3, <2>1 DEF UnmountPush, storeVars, history
  <1>4. CASE Foreground
    <2>1. memory' \in Memories /\ memory'.attempt \in 0..RetryLimit
      BY <1>4 DEF Foreground, Memories
    <2>2. calls' \in [Calls -> GoodCalls \cup {Idle}]
      BY <1>1, <1>4 DEF Foreground
    <2> QED  BY <1>4, <2>1, <2>2 DEF Foreground, storeVars, history, deviceVars
  <1>5. CASE RotateToken
    <2>1. memory' \in Memories /\ memory'.attempt \in 0..RetryLimit
      BY <1>5 DEF RotateToken, Memories
    <2>2. calls' \in [Calls -> GoodCalls \cup {Idle}]
      BY <1>1, <1>5 DEF RotateToken
    <2> QED  BY <1>5, <2>1, <2>2 DEF RotateToken, storeVars, history
  <1>6. CASE EnablePush
    <2>1. calls' \in [Calls -> GoodCalls \cup {Idle}]
      BY <1>1, <1>6 DEF EnablePush
    <2> QED  BY <1>6, <2>1 DEF EnablePush, storeVars, history, pushVars
  <1>7. CASE TogglePermission
    BY <1>7 DEF TogglePermission, storeVars, history, pushVars
  <1>8. CASE RetryFires
    <2>1. memory' \in Memories /\ memory'.attempt \in 0..RetryLimit
      BY <1>8 DEF RetryFires, Memories
    <2>2. ASSUME NEW c \in Free
          PROVE  [Started(c, "register", memory.timer, "await") EXCEPT ![c].on = memory.promise]
                   \in [Calls -> GoodCalls \cup {Idle}]
      <3>1. memory.timer \in Users /\ memory.promise \in Calls \cup {None}
        BY <1>8 DEF RetryFires, Memories
      <3>2. Started(c, "register", memory.timer, "await") \in [Calls -> GoodCalls \cup {Idle}]
        BY <1>1, <3>1
      <3>3. Started(c, "register", memory.timer, "await")[c].on = memory.promise
        BY DEF Started, Free
      <3>4. Started(c, "register", memory.timer, "await")[c] \in GoodCalls
        BY <3>2 DEF Started, Free, Idle
      <3>5. [Started(c, "register", memory.timer, "await")[c] EXCEPT !.on = memory.promise] \in GoodCalls
        BY <3>1, <3>4 DEF GoodCalls, CallRecords, WellFormed
      <3> QED  BY <3>2, <3>5 DEF Free
    <2>3. calls' \in [Calls -> GoodCalls \cup {Idle}]
      <3> DEFINE Retry(c) == [Started(c, "register", memory.timer, "await") EXCEPT ![c].on = memory.promise]
      <3>1. UNCHANGED calls \/ \E c \in Free : calls' = Retry(c)
        BY <1>8 DEF RetryFires
      <3>2. \A c \in Free : Retry(c) \in [Calls -> GoodCalls \cup {Idle}]
        BY <2>2
      <3> HIDE DEF Retry
      <3> QED  BY <3>1, <3>2
    <2> QED  BY <1>8, <2>1, <2>3 DEF RetryFires, storeVars, history, deviceVars
  <1>9. CASE CooldownEnds
    <2>1. memory' \in Memories /\ memory'.attempt \in 0..RetryLimit
      BY <1>9 DEF CooldownEnds, Memories
    <2> QED  BY <1>9, <2>1 DEF CooldownEnds, storeVars, history, deviceVars
  <1>10. CASE Kill
    <2>1. memory' \in Memories /\ memory'.attempt \in 0..RetryLimit
      BY <1>10, ClearedType DEF Kill, Memories
    <2> QED  BY <1>10, <2>1 DEF Kill
  <1> QED  BY <1>2, <1>3, <1>4, <1>5, <1>6, <1>7, <1>8, <1>9, <1>10

\* The steps of a registration.
LEMMA RegisterTypes ==
    ASSUME SessionConstants, TypeInv, NEW c \in Calls, RegisterStep(c)
    PROVE  TypeInv'
  <1>0. /\ calls[c] \in CallRecords /\ WellFormed(calls[c]) /\ calls[c].op # "idle"
        /\ calls[c].op \in {"register", "deny"} /\ calls[c].user \in Users
    <2>1. calls[c].op \in {"register", "deny"}
      BY DEF RegisterStep, CheckPermission, ClaimPromise, ReadToken, Denied, StorePending,
             SyncInstallation, StoreRegistered, At
    <2>2. calls[c].op # "idle"
      BY <2>1
    <2> QED  BY <2>1, <2>2, RunningRecord DEF WellFormed
  <1>m. memory \in Memories /\ memory.promise \in Calls \cup {None} /\ memory.user \in Users \cup {None}
    BY DEF TypeInv, Memories
  <1>u. ASSUME NEW m \in Memories
        PROVE  Unpromised(c, m) \in Memories
    BY DEF Unpromised, Memories
  <1>s. Settle(c, Ended(c)) \in [Calls -> GoodCalls \cup {Idle}]
    BY EndedType, SettleType
  <1>1. CASE CheckPermission(c)
    <2>1. /\ Goto(c, "claim") \in [Calls -> GoodCalls \cup {Idle}]
          /\ Ended(c) \in [Calls -> GoodCalls \cup {Idle}]
      BY <1>0, GotoType, EndedType DEF WellFormed, Positions, CallRecords
    <2>2. [calls[c] EXCEPT !.op = "deny", !.pc = "read"] \in GoodCalls
      BY <1>0 DEF GoodCalls, CallRecords, WellFormed, PushOps, Positions
    <2>3. [calls[c] EXCEPT !.pc = "await", !.on = memory.promise] \in GoodCalls
      BY <1>0, <1>m DEF GoodCalls, CallRecords, WellFormed, Positions
    <2>4. calls' \in [Calls -> GoodCalls \cup {Idle}]
      BY <1>1, <2>1, <2>2, <2>3 DEF CheckPermission, TypeInv
    <2> QED  BY <1>1, <2>4 DEF CheckPermission, TypeInv, SessionTypeOK, storeVars, history, pushVars, deviceVars
  <1>2. CASE ClaimPromise(c)
    <2>1. Goto(c, "token") \in [Calls -> GoodCalls \cup {Idle}]
      BY <1>0, GotoType DEF WellFormed, Positions, CallRecords
    <2>2. memory' \in Memories /\ memory'.attempt \in 0..RetryLimit
      BY <1>0, <1>2, <1>m DEF ClaimPromise, Memories
    <2> QED  BY <1>2, <2>1, <2>2 DEF ClaimPromise, TypeInv, SessionTypeOK, storeVars, history, deviceVars
  <1>3. CASE ReadToken(c)
    <2>1. Goto(c, "read") \in [Calls -> GoodCalls \cup {Idle}]
      BY <1>0, GotoType DEF WellFormed, Positions, CallRecords
    <2>2. [calls[c] EXCEPT !.rec = stored, !.tok = osToken, !.pc = "store"] \in GoodCalls
      BY <1>0 DEF GoodCalls, CallRecords, WellFormed, Positions, TypeInv, SessionTypeOK
    <2>3. calls' \in [Calls -> GoodCalls \cup {Idle}]
      BY <1>3, <2>1, <2>2 DEF ReadToken, TypeInv
    <2> QED  BY <1>3, <2>3 DEF ReadToken, TypeInv, SessionTypeOK, storeVars, history, pushVars, deviceVars
  <1>4. CASE Denied(c)
    <2>1. memory' \in Memories /\ memory'.attempt \in 0..RetryLimit
      BY <1>4, <1>m, <1>u DEF Denied, Memories
    <2> QED  BY <1>4, <1>s, <2>1 DEF Denied, TypeInv, SessionTypeOK, storeVars, history, deviceVars
  <1>5. CASE StorePending(c)
    <2>1. memory' \in Memories /\ memory'.attempt \in 0..RetryLimit
      BY <1>5, <1>m, <1>u DEF StorePending, Memories
    <2>2. calls[c].tok \in Tokens /\ calls[c].rec \in Records \cup {None}
      BY <1>0, <1>5 DEF StorePending, At, WellFormed, CallRecords
    <2>3. PreviousTokens(c) \subseteq Tokens
      <3>1. KnownToken(c, calls[c].rec) \in Tokens \cup {None}
        BY <1>m, <2>2 DEF KnownToken, Memories, Records
      <3>2. calls[c].rec # None => calls[c].rec.prev \subseteq Tokens /\ calls[c].rec.token \in Tokens
        BY <2>2 DEF Records
      <3> QED  BY <3>1, <3>2 DEF PreviousTokens
    <2> DEFINE new == [token |-> calls[c].tok, user |-> calls[c].user,
                       prev |-> PreviousTokens(c), state |-> "pending"]
    <2>4. new \in Records
      BY <1>0, <2>2, <2>3 DEF Records
    <2> HIDE DEF new
    <2>5. [calls[c] EXCEPT !.rec = new, !.pc = "sync"] \in GoodCalls
      BY <1>0, <2>2, <2>4 DEF GoodCalls, CallRecords, WellFormed, Positions
    <2>6. [calls EXCEPT ![c].rec = new, ![c].pc = "sync"] \in [Calls -> GoodCalls \cup {Idle}]
      BY <2>5 DEF TypeInv
    <2>7. \/ calls' = Settle(c, Ended(c)) /\ stored' = stored
          \/ stored' = new /\ calls' = [calls EXCEPT ![c].rec = new, ![c].pc = "sync"]
      BY <1>5 DEF StorePending, new
    <2>8. calls' \in [Calls -> GoodCalls \cup {Idle}] /\ stored' \in Records \cup {None}
      BY <1>s, <2>4, <2>6, <2>7 DEF TypeInv, SessionTypeOK
    <2> QED  BY <1>5, <2>1, <2>8 DEF StorePending, TypeInv, SessionTypeOK, storeVars, history, deviceVars
  <1>6. CASE SyncInstallation(c)
    <2>1. Goto(c, "stored") \in [Calls -> GoodCalls \cup {Idle}]
      BY <1>0, <1>6, GotoType DEF SyncInstallation, At, WellFormed, Positions, CallRecords
    <2>2. ScheduleRetry(calls[c].user, memory) \in Memories
      <3>1. RetryLimit \in Nat /\ memory.attempt \in 0..RetryLimit
        BY <1>m DEF SessionConstants, Memories
      <3>2. memory.attempt < RetryLimit => memory.attempt + 1 \in 0..RetryLimit
        BY <3>1
      <3>3. ~(memory.attempt >= RetryLimit) => memory.attempt < RetryLimit
        BY <3>1
      <3>4. CASE memory.timer # None \/ memory.attempt >= RetryLimit
        BY <1>m, <3>4 DEF ScheduleRetry
      <3>5. CASE memory.timer = None /\ memory.attempt < RetryLimit
        BY <1>0, <1>m, <3>1, <3>2, <3>5 DEF ScheduleRetry, Memories
      <3> QED  BY <3>3, <3>4, <3>5
    <2>3. memory' \in Memories
      BY <1>6, <1>m, <1>u, <2>2 DEF SyncInstallation
    <2>4. memory'.attempt \in 0..RetryLimit
      BY <2>3 DEF Memories
    <2>5. calls' \in [Calls -> GoodCalls \cup {Idle}]
      BY <1>6, <1>s, <2>1 DEF SyncInstallation
    <2>6. bind' \in [Tokens -> Users \cup {None}]
      BY <1>6 DEF SyncInstallation, Synced, TypeInv, SessionTypeOK
    <2> QED  BY <1>6, <2>3, <2>4, <2>5, <2>6 DEF SyncInstallation, TypeInv, SessionTypeOK, storeVars, history, deviceVars
  <1>7. CASE StoreRegistered(c)
    <2>1. calls[c].tok \in Tokens
      BY <1>0, <1>7 DEF StoreRegistered, At, WellFormed
    <2>2. stored' \in Records
      BY <1>0, <1>7, <2>1 DEF StoreRegistered, Records
    <2>3. Unpromised(c, memory) \in Memories
      BY <1>m, <1>u
    <2>4. memory' \in Memories /\ memory'.attempt \in 0..RetryLimit
      BY <1>0, <1>7, <2>1, <2>3, ClearedType DEF StoreRegistered, Memories
    <2> QED  BY <1>7, <1>s, <2>2, <2>4 DEF StoreRegistered, TypeInv, SessionTypeOK, storeVars, history, deviceVars
  <1> QED  BY <1>1, <1>2, <1>3, <1>4, <1>5, <1>6, <1>7 DEF RegisterStep

LEMMA TypeStep == SessionConstants /\ TypeInv /\ [Next]_vars => TypeInv'
  <1> SUFFICES ASSUME SessionConstants, TypeInv, [Next]_vars PROVE TypeInv'
    OBVIOUS
  <1>1. CASE UNCHANGED vars
    BY <1>1 DEF vars, storeVars, history, pushVars, deviceVars, TypeInv, SessionTypeOK
  <1>2. CASE Next
    BY <1>2, ReportTypes, StoreTypes, RegisterTypes, PushEventTypes DEF Next
  <1> QED  BY <1>1, <1>2

LEMMA TypeInit == SessionConstants /\ Init => TypeInv
  BY ClearedType DEF Init, TypeInv, SessionTypeOK, Memories

\* The shape of the state, the profile of a session among it, holds always.
THEOREM TypeCorrect == Spec => []SessionTypeOK
  <1>1. Spec => []TypeInv
    BY TypeInit, TypeStep, SessionConstants, PTL DEF Spec
  <1>2. TypeInv => SessionTypeOK
    BY DEF TypeInv
  <1> QED  BY <1>1, <1>2, PTL

-----------------------------------------------------------------------------
(* The registration promise.  Nothing here needs the calls to run alone: a  *)
(* call gives its promise up only by settling it, which wakes the others.   *)

\* A step of one call, c, which keeps its promise if it has one.
LEMMA CallMoves ==
    ASSUME TypeInv, PromiseInv, NEW c \in Calls, NEW r,
           calls' = [calls EXCEPT ![c] = r],
           Holds(c) => Holding(r),
           r.op # "idle" => \/ r.on \in {None, memory.promise}
                            \/ calls[c].op # "idle" /\ r.on = calls[c].on,
           \/ memory'.promise \in {None, memory.promise}
           \/ memory'.promise = c /\ Holding(r)
    PROVE  PromiseInv'
  <1>1. \A d \in Calls : calls'[d] = IF d = c THEN r ELSE calls[d]
    BY DEF TypeInv
  <1>2. memory.promise \in Calls \cup {None}
    BY DEF TypeInv, Memories
  <1>3. \A d \in Calls : calls[d].op # "idle" => calls[d].on \in Calls \cup {None}
    BY RunningRecord DEF CallRecords
  <1>4. \A d \in Calls : Holds(d) => Holding(calls'[d])
    BY <1>1 DEF Holds, Holding
  <1>5. memory'.promise # None => Holding(calls'[memory'.promise])
    BY <1>1, <1>2, <1>4 DEF PromiseInv, Holds, Holding
  <1>6. ASSUME NEW d \in Calls, calls'[d].op # "idle", calls'[d].on # None
        PROVE  Holding(calls'[calls'[d].on])
    <2>1. CASE d # c
      BY <1>1, <1>3, <1>4, <1>6, <2>1 DEF PromiseInv, Holds, Holding
    <2>2. CASE d = c
      BY <1>1, <1>2, <1>3, <1>4, <1>6, <2>2 DEF PromiseInv, Holds, Holding
    <2> QED  BY <2>1, <2>2
  <1> QED  BY <1>5, <1>6 DEF PromiseInv, Holds, Holding

LEMMA CallMoved ==
    ASSUME TypeInv, PromiseInv, NEW c \in Calls, NEW pc, calls' = Goto(c, pc),
           calls[c].op # "idle",
           Holds(c) => pc \notin {"permission", "await", "claim"},
           memory'.promise \in {None, memory.promise}
    PROVE  PromiseInv'
  <1> DEFINE r == [calls[c] EXCEPT !.pc = pc]
  <1>1. calls[c] \in CallRecords
    BY RunningRecord
  <1>2. r.op = calls[c].op /\ r.pc = pc /\ r.on = calls[c].on
    BY <1>1 DEF CallRecords
  <1>3. calls' = [calls EXCEPT ![c] = r]
    BY DEF Goto
  <1> HIDE DEF r
  <1> QED  BY <1>2, <1>3, CallMoves DEF Holds, Holding

LEMMA CallBegins ==
    ASSUME TypeInv, PromiseInv, NEW c \in Free, NEW op, NEW u, NEW pc,
           calls' = Started(c, op, u, pc), memory'.promise = memory.promise
    PROVE  PromiseInv'
  <1>1. c \in Calls /\ ~Holds(c)
    BY DEF Free, Holds, Holding, Idle
  <1> QED  BY <1>1, CallMoves DEF Started

LEMMA CallEnds ==
    ASSUME TypeInv, PromiseInv, NEW c \in Calls, calls' = Ended(c), ~Holds(c),
           memory'.promise = memory.promise
    PROVE  PromiseInv'
  BY IdleFact, CallMoves DEF Ended

\* The end of a registration wakes whoever awaits it.
LEMMA CallSettles ==
    ASSUME TypeInv, PromiseInv, NEW c \in Calls, calls' = Settle(c, Ended(c)),
           memory'.promise # c, memory'.promise \in {None, memory.promise}
    PROVE  PromiseInv'
  <1>1. /\ calls'[c].op = "idle"
        /\ \A d \in Calls \ {c} : /\ calls'[d].op = calls[d].op /\ calls'[d].pc = calls[d].pc
                                  /\ calls'[d].op # "idle" =>
                                       calls'[d].on = IF calls[d].on = c THEN None ELSE calls[d].on
    <2>1. Ended(c)[c] = Idle /\ \A d \in Calls \ {c} : Ended(c)[d] = calls[d]
      BY DEF Ended, TypeInv
    <2>2. calls'[c] = Idle
      BY <2>1, IdleFact DEF Settle
    <2>3. ASSUME NEW d \in Calls \ {c}, calls[d].op # "idle"
          PROVE  /\ calls'[d].op = calls[d].op /\ calls'[d].pc = calls[d].pc
                 /\ calls'[d].on = IF calls[d].on = c THEN None ELSE calls[d].on
      <3>1. calls[d] \in CallRecords
        BY <2>3, RunningRecord
      <3>2. calls'[d] = IF calls[d].on = c THEN [calls[d] EXCEPT !.on = None] ELSE calls[d]
        BY <2>1, <2>3 DEF Settle
      <3> QED  BY <3>1, <3>2 DEF CallRecords
    <2>4. ASSUME NEW d \in Calls \ {c}, calls[d].op = "idle"
          PROVE  calls'[d] = calls[d]
      BY <2>1, <2>4 DEF Settle
    <2> QED  BY <2>2, <2>3, <2>4, IdleFact
  <1>2. \A d \in Calls \ {c} : Holds(d) => Holding(calls'[d])
    BY <1>1 DEF Holds, Holding
  <1>3. memory.promise \in Calls \cup {None}
    BY DEF TypeInv, Memories
  <1>4. \A d \in Calls : calls[d].op # "idle" => calls[d].on \in Calls \cup {None}
    BY RunningRecord DEF CallRecords
  <1>5. memory'.promise # None => Holding(calls'[memory'.promise])
    BY <1>2, <1>3 DEF PromiseInv, Holds, Holding
  <1>6. ASSUME NEW d \in Calls, calls'[d].op # "idle", calls'[d].on # None
        PROVE  Holding(calls'[calls'[d].on])
    BY <1>1, <1>2, <1>4, <1>6 DEF PromiseInv, Holds, Holding
  <1> QED  BY <1>5, <1>6 DEF PromiseInv, Holds, Holding

LEMMA PromiseSame ==
    ASSUME PromiseInv, UNCHANGED calls, memory'.promise \in {None, memory.promise}
    PROVE  PromiseInv'
  BY DEF PromiseInv, Holds, Holding

LEMMA StorePromise ==
    ASSUME SessionConstants, TypeInv, PromiseInv, NEW c \in Calls, StoreStep(c)
    PROVE  PromiseInv'
  <1>m. memory \in Memories
    BY DEF TypeInv
  <1>1. CASE Awaited(c)
    BY <1>1, CallMoved DEF Awaited, Holds, Holding, pushVars
  <1>2. CASE ReadStored(c)
    <2> DEFINE r == [calls[c] EXCEPT !.rec = stored,
                       !.pc = IF /\ calls[c].op \in {"register", "deny"}
                                 /\ stored = None \/ stored.user # calls[c].user
                              THEN "denied" ELSE "mark"]
    <2>1. /\ calls' = [calls EXCEPT ![c] = r] /\ r.op = calls[c].op /\ r.pc \in {"denied", "mark"}
          /\ r.on = calls[c].on /\ calls[c].op # "idle"
      BY <1>2, RunningRecord DEF ReadStored, CallRecords
    <2> HIDE DEF r
    <2>2. memory' = memory
      BY <1>2 DEF ReadStored, pushVars
    <2> QED  BY <2>1, <2>2, CallMoves DEF Holds, Holding
  <1>3. CASE Mark(c)
    <2>1. memory'.promise = memory.promise
      BY <1>3 DEF Mark, Cleared, Forgotten
    <2>2. \E p \in {"apply", "enter", "revoke", "signOut"} : calls' = Goto(c, p)
      BY <1>3 DEF Mark
    <2>3. calls[c].op # "idle"
      BY <1>3 DEF Mark
    <2> QED  BY <2>1, <2>2, <2>3, CallMoved
  <1>4. CASE Revoke(c)
    <2>1. \E p \in {"remove", "denied", "signOut"} : calls' = Goto(c, p)
      BY <1>4 DEF Revoke, AfterRevoke
    <2>2. memory' = memory /\ calls[c].op # "idle"
      BY <1>4 DEF Revoke, pushVars
    <2> QED  BY <2>1, <2>2, CallMoved
  <1>5. CASE Remove(c)
    BY <1>5, CallMoved DEF Remove
  <1>6. CASE AuthSignOut(c)
    <2>1. memory' = memory
      BY <1>6 DEF AuthSignOut, pushVars
    <2>2. CASE calls' = Goto(c, "apply")
      BY <1>6, <2>1, <2>2, CallMoved DEF AuthSignOut, At
    <2>3. ASSUME NEW d \in Free,
                 calls' = [Started(d, "loss", sess, "await") EXCEPT ![c].pc = "apply"]
          PROVE  PromiseInv'
      <3>1. calls[c] \in CallRecords /\ calls[c].op = "out" /\ calls[d] = Idle /\ d \in Calls
        BY <1>6, RunningRecord DEF AuthSignOut, At, Free
      <3>2. c # d /\ Started(d, "loss", sess, "await")[c] = calls[c]
        BY <3>1, IdleFact DEF Started, TypeInv
      <3>3. /\ calls'[c].op = "out" /\ calls'[c].on = calls[c].on
            /\ calls'[d].op = "loss" /\ calls'[d].on = memory.promise
            /\ \A e \in Calls \ {c, d} : calls'[e] = calls[e]
        BY <2>3, <3>1, <3>2 DEF Started, TypeInv, CallRecords
      <3>4. \A e \in Calls : Holds(e) => Holding(calls'[e])
        BY <3>1, <3>3, IdleFact DEF Holds, Holding
      <3>5. memory.promise \in Calls \cup {None}
        BY <1>m DEF Memories
      <3>6. \A e \in Calls : calls[e].op # "idle" => calls[e].on \in Calls \cup {None}
        BY RunningRecord DEF CallRecords
      <3>7. ASSUME NEW e \in Calls, calls'[e].op # "idle", calls'[e].on # None
            PROVE  Holding(calls'[calls'[e].on])
        BY <3>1, <3>3, <3>4, <3>5, <3>6, <3>7, IdleFact DEF PromiseInv, Holds, Holding
      <3> QED  BY <2>1, <3>4, <3>5, <3>7 DEF PromiseInv, Holds, Holding
    <2> QED  BY <1>6, <2>2, <2>3 DEF AuthSignOut
  <1>7. CASE ApplySignedOut(c)
    BY <1>7, CallMoved DEF ApplySignedOut, At, pushVars
  <1>8. CASE ClearLocal(c)
    BY <1>8, CallEnds DEF ClearLocal, At, pushVars, Holds, Holding
  <1>9. CASE EnterApp(c)
    BY <1>9, CallMoved DEF EnterApp, At, pushVars
  <1>10. CASE FinishSession(c)
    BY <1>10, CallEnds DEF FinishSession, At, pushVars, Holds, Holding
  <1> QED  BY <1>1, <1>2, <1>3, <1>4, <1>5, <1>6, <1>7, <1>8, <1>9, <1>10 DEF StoreStep

LEMMA RegisterPromise ==
    ASSUME SessionConstants, TypeInv, PromiseInv, NEW c \in Calls, RegisterStep(c)
    PROVE  PromiseInv'
  <1>0. calls[c].op \in {"register", "deny"}
    BY DEF RegisterStep, CheckPermission, ClaimPromise, ReadToken, Denied, StorePending,
           SyncInstallation, StoreRegistered, At
  <1>r. calls[c] \in CallRecords /\ calls[c].op # "idle"
    BY <1>0, RunningRecord
  <1>m. memory \in Memories
    BY DEF TypeInv
  <1>n. None # c
    BY DEF SessionConstants
  <1>u. ASSUME NEW m \in Memories, m.promise = memory.promise
        PROVE  Unpromised(c, m).promise # c /\ Unpromised(c, m).promise \in {None, memory.promise}
    BY <1>n, <1>u DEF Unpromised, Memories
  <1>1. CASE CheckPermission(c)
    <2>0. memory' = memory /\ ~Holds(c)
      BY <1>1 DEF CheckPermission, pushVars, At, Holds, Holding
    <2>1. CASE calls' = Goto(c, "claim")
      BY <1>r, <2>0, <2>1, CallMoved
    <2>2. CASE calls' = Ended(c)
      BY <2>0, <2>2, CallEnds
    <2>3. CASE calls' = [calls EXCEPT ![c].op = "deny", ![c].pc = "read"]
      <3> DEFINE r == [calls[c] EXCEPT !.op = "deny", !.pc = "read"]
      <3>1. r.on = calls[c].on /\ calls' = [calls EXCEPT ![c] = r]
        BY <1>r, <2>3 DEF CallRecords, TypeInv
      <3> HIDE DEF r
      <3> QED  BY <1>r, <2>0, <3>1, CallMoves
    <2>4. CASE calls' = [calls EXCEPT ![c].pc = "await", ![c].on = memory.promise]
      <3> DEFINE r == [calls[c] EXCEPT !.pc = "await", !.on = memory.promise]
      <3>1. r.on = memory.promise /\ calls' = [calls EXCEPT ![c] = r]
        BY <1>r, <2>4 DEF CallRecords, TypeInv
      <3> HIDE DEF r
      <3> QED  BY <1>r, <2>0, <3>1, CallMoves
    <2> QED  BY <1>1, <2>1, <2>2, <2>3, <2>4 DEF CheckPermission
  <1>2. CASE ClaimPromise(c)
    <2> DEFINE r == [calls[c] EXCEPT !.pc = "token"]
    <2>1. /\ calls' = [calls EXCEPT ![c] = r] /\ r.op = "register" /\ r.pc = "token" /\ r.on = calls[c].on
      BY <1>2, <1>r DEF ClaimPromise, At, Goto, CallRecords
    <2>2. memory'.promise = c
      BY <1>2, <1>m DEF ClaimPromise, Memories
    <2> HIDE DEF r
    <2> QED  BY <1>r, <2>1, <2>2, CallMoves DEF Holding
  <1>3. CASE ReadToken(c)
    <2>0. memory' = memory
      BY <1>3 DEF ReadToken, pushVars
    <2>1. CASE calls' = Goto(c, "read")
      BY <1>r, <2>0, <2>1, CallMoved
    <2>2. CASE calls' = [calls EXCEPT ![c].rec = stored, ![c].tok = osToken, ![c].pc = "store"]
      <3> DEFINE r == [calls[c] EXCEPT !.rec = stored, !.tok = osToken, !.pc = "store"]
      <3>1. /\ r.on = calls[c].on /\ r.op = calls[c].op /\ r.pc = "store"
            /\ calls' = [calls EXCEPT ![c] = r]
        BY <1>r, <2>2 DEF CallRecords, TypeInv
      <3> HIDE DEF r
      <3> QED  BY <1>3, <1>r, <2>0, <3>1, CallMoves DEF Holding, ReadToken, At
    <2> QED  BY <1>3, <2>1, <2>2 DEF ReadToken
  <1>4. CASE Denied(c)
    BY <1>4, <1>m, <1>u, CallSettles DEF Denied
  <1>5. CASE StorePending(c)
    <2>1. CASE calls' = Settle(c, Ended(c)) /\ memory' = Unpromised(c, memory)
      BY <1>m, <1>u, <2>1, CallSettles
    <2>2. ASSUME NEW v, calls' = [calls EXCEPT ![c].rec = v, ![c].pc = "sync"], memory' = memory
          PROVE  PromiseInv'
      <3> DEFINE r == [calls[c] EXCEPT !.rec = v, !.pc = "sync"]
      <3>1. /\ r.on = calls[c].on /\ r.op = calls[c].op /\ r.pc = "sync"
            /\ calls' = [calls EXCEPT ![c] = r]
        BY <1>r, <2>2 DEF CallRecords, TypeInv
      <3> HIDE DEF r
      <3> QED  BY <1>5, <1>r, <2>2, <3>1, CallMoves DEF Holding, StorePending, At
    <2> QED  BY <1>5, <2>1, <2>2 DEF StorePending
  <1>6. CASE SyncInstallation(c)
    <2>1. CASE calls' = Goto(c, "stored") /\ memory' = memory
      BY <1>r, <2>1, CallMoved
    <2>2. CASE /\ calls' = Settle(c, Ended(c))
               /\ memory' = Unpromised(c, ScheduleRetry(calls[c].user, memory))
      <3>1. TypeInv'
        BY <1>6, RegisterTypes DEF RegisterStep
      <3>2. ScheduleRetry(calls[c].user, memory).promise = memory.promise
        BY <1>m DEF ScheduleRetry, Memories
      <3>3. memory'.promise # c /\ memory'.promise \in {None, memory.promise}
        <4> DEFINE m == ScheduleRetry(calls[c].user, memory)
        <4>1. m.promise # c => Unpromised(c, m) = m
          BY DEF Unpromised
        <4>2. m.promise = c => Unpromised(c, m).promise = None
          <5>1. m = memory \/ m = [memory EXCEPT !.timer = calls[c].user, !.attempt = @ + 1]
            BY DEF ScheduleRetry
          <5>2. memory = [user |-> memory.user, token |-> memory.token, fresh |-> memory.fresh,
                          promise |-> memory.promise, promiseUser |-> memory.promiseUser,
                          timer |-> memory.timer, attempt |-> memory.attempt]
            BY <1>m DEF Memories
          <5> QED  BY <5>1, <5>2 DEF Unpromised
        <4> QED  BY <1>n, <2>2, <3>2, <4>1, <4>2
      <3> QED  BY <2>2, <3>3, CallSettles
    <2> QED  BY <1>6, <2>1, <2>2 DEF SyncInstallation
  <1>7. CASE StoreRegistered(c)
    <2>1. memory'.promise = Unpromised(c, memory).promise
      BY <1>7, <1>m DEF StoreRegistered, Unpromised, Memories
    <2> QED  BY <1>7, <1>m, <1>u, <2>1, CallSettles DEF StoreRegistered
  <1> QED  BY <1>1, <1>2, <1>3, <1>4, <1>5, <1>6, <1>7 DEF RegisterStep

LEMMA PromiseStep == SessionConstants /\ TypeInv /\ PromiseInv /\ [Next]_vars => PromiseInv'
  <1> SUFFICES ASSUME SessionConstants, TypeInv, PromiseInv, [Next]_vars PROVE PromiseInv'
    OBVIOUS
  <1>m. memory \in Memories
    BY DEF TypeInv
  <1>0. CASE UNCHANGED vars
    BY <1>0, PromiseSame DEF vars, pushVars
  <1>1. ASSUME NEW c \in Free, NEW u, ApplySession(c, u), memory' = memory
        PROVE  PromiseInv'
    BY <1>1, CallBegins, PromiseSame DEF ApplySession
  <1>2. CASE InitialReport \/ BootSession
    BY <1>1, <1>2, PromiseSame DEF InitialReport, BootSession, pushVars
  <1>3. CASE SessionLost
    BY <1>1, <1>3 DEF SessionLost, pushVars
  <1>4. CASE \E u \in Users : SessionReported(u)
    BY <1>1, <1>4 DEF SessionReported, pushVars
  <1>5. CASE \/ CompleteRecovery \/ LoadRows \/ RowsArrive \/ TogglePermission
             \/ \E u \in Users : RecoveryLink(u)
    BY <1>5, PromiseSame DEF CompleteRecovery, LoadRows, RowsArrive, TogglePermission, RecoveryLink, pushVars
  <1>6. CASE SignOut
    BY <1>6, CallBegins DEF SignOut, pushVars
  <1>7. CASE MountPush
    BY <1>7, CallBegins DEF MountPush, pushVars
  <1>8. CASE UnmountPush \/ CooldownEnds
    <2>1. memory'.promise = memory.promise
      BY <1>8, <1>m DEF UnmountPush, CooldownEnds, Memories
    <2> QED  BY <1>8, <2>1, PromiseSame DEF UnmountPush, CooldownEnds
  <1>9. CASE Foreground
    <2>1. memory'.promise = memory.promise
      BY <1>9, <1>m DEF Foreground, Memories
    <2> QED  BY <1>9, <2>1, CallBegins DEF Foreground
  <1>10. CASE RotateToken
    <2>1. memory'.promise = memory.promise
      BY <1>10, <1>m DEF RotateToken, Memories
    <2> QED  BY <1>10, <2>1, CallBegins, PromiseSame DEF RotateToken
  <1>11. CASE EnablePush
    BY <1>11, CallBegins, PromiseSame DEF EnablePush, pushVars
  <1>12. CASE RetryFires
    <2>1. memory'.promise = memory.promise
      BY <1>12, <1>m DEF RetryFires, Memories
    <2>2. ASSUME NEW c \in Free,
                 calls' = [Started(c, "register", memory.timer, "await") EXCEPT ![c].on = memory.promise]
          PROVE  PromiseInv'
      <3> DEFINE r == [op |-> "register", user |-> memory.timer, pc |-> "await", rec |-> None,
                       on |-> memory.promise, tok |-> None]
      <3>1. /\ Started(c, "register", memory.timer, "await") = [calls EXCEPT ![c] = r]
            /\ c \in Calls /\ calls \in [Calls -> GoodCalls \cup {Idle}]
        BY DEF Started, TypeInv, Free
      <3>2. [r EXCEPT !.on = memory.promise] = r
        OBVIOUS
      <3> HIDE DEF r
      <3>3. calls' = [calls EXCEPT ![c] = r]
        BY <2>2, <3>1, <3>2
      <3> QED  BY <2>1, <3>1, <3>3, CallBegins
    <2>3. \/ UNCHANGED calls
          \/ \E c \in Free :
               calls' = [Started(c, "register", memory.timer, "await") EXCEPT ![c].on = memory.promise]
      BY <1>12 DEF RetryFires
    <2> QED  BY <2>1, <2>2, <2>3, PromiseSame
  <1>13. CASE Kill
    BY <1>13, IdleFact DEF Kill, Forgotten, PromiseInv, Holds, Holding
  <1> QED  BY <1>0, <1>2, <1>3, <1>4, <1>5, <1>6, <1>7, <1>8, <1>9, <1>10, <1>11, <1>12, <1>13,
              StorePromise, RegisterPromise DEF Next

\* No call waits for a registration that is over, or for one that waits.
THEOREM NobodyWaitsForGood == Spec => []AwaitedRuns
  <1>1. Init => PromiseInv
    BY IdleFact DEF Init, PromiseInv, Holds, Holding, Forgotten
  <1>2. Spec => [](TypeInv /\ PromiseInv)
    BY <1>1, TypeInit, TypeStep, PromiseStep, SessionConstants, PTL DEF Spec
  <1>3. PromiseInv => AwaitedRuns
    BY DEF PromiseInv, Holds, Holding, AwaitedRuns
  <1> QED  BY <1>2, <1>3, PTL

-----------------------------------------------------------------------------
(* The calls of the store                                                   *)

ShownInv == CleanInv /\ StoreInv

StoreSame == UNCHANGED <<phase, sess, auth, data, load, history>>

\* Whether a call of the store runs, without the set of them.
LEMMA QuietFact ==
    /\ Quiet <=> \A c \in Calls : calls[c].op \notin StoreOps
    /\ Quiet' <=> \A c \in Calls : calls'[c].op \notin StoreOps
  BY DEF Quiet, Running, StoreOps

LEMMA RunningRecordNext ==
    ASSUME TypeInv', NEW c \in Calls, calls'[c].op # "idle"
    PROVE  calls'[c] \in CallRecords /\ WellFormed(calls'[c])
  BY IdleFact DEF TypeInv, GoodCalls

\* The parts of the invariant, when each call of the store stays what it is.
LEMMA SameStore ==
    ASSUME TypeInv', ShownInv, StoreSame,
           \A d \in Calls : /\ calls[d].op \in StoreOps <=> calls'[d].op \in StoreOps
                            /\ calls'[d].op \in StoreOps => /\ calls'[d].op = calls[d].op
                                                            /\ calls'[d].user = calls[d].user,
           \A d \in Calls : /\ calls'[d].op # "idle" /\ calls'[d].pc = "clear"
                                <=> calls[d].op # "idle" /\ calls[d].pc = "clear"
    PROVE  ShownInv'
  <1>1. CleanInv'
    BY DEF ShownInv, CleanInv, StoreSame, history
  <1>2. \A d \in Calls : Writer(d) => Writer(d)'
    BY DEF Writer, StoreSame, StoreOps, history
  <1>3. StoreInv'
    BY <1>2 DEF ShownInv, StoreInv, StoreSame, StoreOps, history, TypeInv, SessionTypeOK
  <1> QED  BY <1>1, <1>3 DEF ShownInv

\* A step that changes nothing of the store but where one of its calls stands,
\* and neither from nor to a place that says what is shown.
LEMMA StoreMoves ==
    ASSUME TypeInv, TypeInv', ShownInv, StoreSame, NEW c \in Calls,
           \A d \in Calls \ {c} : \/ calls'[d].op = calls[d].op /\ calls'[d].user = calls[d].user
                                     /\ calls'[d].pc = calls[d].pc
                                  \/ calls[d].op \notin StoreOps /\ calls'[d].op \notin StoreOps,
           \/ /\ calls'[c].op = calls[c].op /\ calls'[c].user = calls[c].user
              /\ calls[c].pc # "clear" /\ calls'[c].pc # "clear"
           \/ calls[c].op \notin StoreOps /\ calls'[c].op \notin StoreOps
    PROVE  ShownInv'
  <1>1. \A d \in Calls : /\ calls[d].op \in StoreOps <=> calls'[d].op \in StoreOps
                         /\ calls'[d].op \in StoreOps => /\ calls'[d].op = calls[d].op
                                                         /\ calls'[d].user = calls[d].user
    OBVIOUS
  <1>2. \A d \in Calls : /\ calls'[d].op # "idle" /\ calls'[d].pc = "clear"
                              <=> calls[d].op # "idle" /\ calls[d].pc = "clear"
    <2>1. \A d \in Calls : /\ calls[d].op # "idle" /\ calls[d].pc = "clear" => calls[d].op \in StoreOps
                           /\ calls'[d].op # "idle" /\ calls'[d].pc = "clear" => calls'[d].op \in StoreOps
      BY RunningRecord, RunningRecordNext DEF WellFormed, StoreOps
    <2> QED  BY <1>1, <2>1 DEF StoreOps
  <1> QED  BY <1>1, <1>2, SameStore

\* So does a step of the push service.
LEMMA PushOnly ==
    ASSUME TypeInv, TypeInv', ShownInv, StoreSame,
           \A d \in Calls : \/ calls'[d].op = calls[d].op /\ calls'[d].user = calls[d].user
                               /\ calls'[d].pc = calls[d].pc
                            \/ calls[d].op \notin StoreOps /\ calls'[d].op \notin StoreOps
    PROVE  ShownInv'
  <1>1. \A d \in Calls : /\ calls[d].op \in StoreOps <=> calls'[d].op \in StoreOps
                         /\ calls'[d].op \in StoreOps => /\ calls'[d].op = calls[d].op
                                                         /\ calls'[d].user = calls[d].user
                                                         /\ calls'[d].pc = calls[d].pc
    OBVIOUS
  <1>2. \A d \in Calls : /\ calls[d].op # "idle" /\ calls[d].pc = "clear" => calls[d].op \in StoreOps
                         /\ calls'[d].op # "idle" /\ calls'[d].pc = "clear" => calls'[d].op \in StoreOps
    BY RunningRecord, RunningRecordNext DEF WellFormed, StoreOps
  <1>3. \A d \in Calls : /\ calls'[d].op # "idle" /\ calls'[d].pc = "clear"
                              <=> calls[d].op # "idle" /\ calls[d].pc = "clear"
    BY <1>1, <1>2 DEF StoreOps
  <1> QED  BY <1>1, <1>3, SameStore

LEMMA StartedFact ==
    ASSUME TypeInv, NEW c \in Free, NEW op, NEW u, NEW pc
    PROVE  /\ c \in Calls /\ calls[c].op = "idle"
           /\ Started(c, op, u, pc)[c].op = op /\ Started(c, op, u, pc)[c].user = u
           /\ Started(c, op, u, pc)[c].pc = pc
           /\ \A d \in Calls \ {c} : Started(c, op, u, pc)[d] = calls[d]
  BY DEF Started, Free, TypeInv, Idle

LEMMA GotoFact ==
    ASSUME TypeInv, NEW c \in Calls, calls[c].op # "idle", NEW pc
    PROVE  /\ Goto(c, pc)[c].op = calls[c].op /\ Goto(c, pc)[c].user = calls[c].user
           /\ Goto(c, pc)[c].pc = pc
           /\ \A d \in Calls \ {c} : Goto(c, pc)[d] = calls[d]
  BY RunningRecord DEF Goto, TypeInv, CallRecords

LEMMA EndedFact ==
    ASSUME TypeInv, NEW c \in Calls
    PROVE  /\ Ended(c)[c].op = "idle" /\ \A d \in Calls \ {c} : Ended(c)[d] = calls[d]
  BY DEF Ended, TypeInv, Idle

LEMMA SettledFact ==
    ASSUME TypeInv, NEW c \in Calls
    PROVE  /\ Settle(c, Ended(c))[c].op = "idle"
           /\ \A d \in Calls \ {c} : /\ Settle(c, Ended(c))[d].op = calls[d].op
                                     /\ calls[d].op # "idle" =>
                                          /\ Settle(c, Ended(c))[d].user = calls[d].user
                                          /\ Settle(c, Ended(c))[d].pc = calls[d].pc
  <1>1. Settle(c, Ended(c))[c].op = "idle"
    BY EndedFact DEF Settle
  <1>2. ASSUME NEW d \in Calls \ {c}, calls[d].op # "idle"
        PROVE  /\ Settle(c, Ended(c))[d].op = calls[d].op /\ Settle(c, Ended(c))[d].user = calls[d].user
               /\ Settle(c, Ended(c))[d].pc = calls[d].pc
    <2>1. calls[d] \in CallRecords
      BY <1>2, RunningRecord
    <2>2. Settle(c, Ended(c))[d] = IF calls[d].on = c THEN [calls[d] EXCEPT !.on = None] ELSE calls[d]
      BY <1>2, EndedFact DEF Settle
    <2> QED  BY <2>1, <2>2 DEF CallRecords
  <1>3. \A d \in Calls \ {c} : calls[d].op = "idle" => Settle(c, Ended(c))[d].op = "idle"
    BY EndedFact DEF Settle
  <1> QED  BY <1>1, <1>2, <1>3

\* A registration leaves the store alone.
LEMMA RegisterShown ==
    ASSUME TypeInv, TypeInv', ShownInv, NEW c \in Calls, RegisterStep(c)
    PROVE  ShownInv'
  <1>0. calls[c].op \in {"register", "deny"}
    BY DEF RegisterStep, CheckPermission, ClaimPromise, ReadToken, Denied, StorePending,
           SyncInstallation, StoreRegistered, At
  <1>r. calls[c] \in CallRecords /\ calls[c].op # "idle" /\ calls[c].op \notin StoreOps
    BY <1>0, RunningRecord DEF StoreOps
  <1>1. StoreSame
    BY DEF StoreSame, RegisterStep, CheckPermission, ClaimPromise, ReadToken, Denied, StorePending,
           SyncInstallation, StoreRegistered, storeVars, history
  <1>2. \/ \E p \in Positions : calls' = Goto(c, p)
        \/ calls' = Ended(c) \/ calls' = Settle(c, Ended(c))
        \/ calls' = [calls EXCEPT ![c].op = "deny", ![c].pc = "read"]
        \/ calls' = [calls EXCEPT ![c].pc = "await", ![c].on = memory.promise]
        \/ calls' = [calls EXCEPT ![c].rec = stored, ![c].tok = osToken, ![c].pc = "store"]
        \/ \E v : calls' = [calls EXCEPT ![c].rec = v, ![c].pc = "sync"]
    BY DEF RegisterStep, CheckPermission, ClaimPromise, ReadToken, Denied, StorePending,
           SyncInstallation, StoreRegistered, Positions
  <1>3. ASSUME NEW r, calls' = [calls EXCEPT ![c] = r], r.op \notin StoreOps
        PROVE  ShownInv'
    BY <1>1, <1>3, <1>r, PushOnly DEF TypeInv
  <1>4. CASE \E p \in Positions : calls' = Goto(c, p)
    BY <1>1, <1>4, <1>r, GotoFact, PushOnly
  <1>5. CASE calls' = Ended(c)
    BY <1>1, <1>5, <1>r, EndedFact, PushOnly DEF StoreOps
  <1>6. CASE calls' = Settle(c, Ended(c))
    <2>1. \A d \in Calls : \/ calls'[d].op = calls[d].op /\ calls'[d].user = calls[d].user
                              /\ calls'[d].pc = calls[d].pc
                           \/ calls[d].op \notin StoreOps /\ calls'[d].op \notin StoreOps
      BY <1>6, <1>r, SettledFact DEF StoreOps
    <2> QED  BY <1>1, <2>1, PushOnly
  <1>7. CASE calls' = [calls EXCEPT ![c].op = "deny", ![c].pc = "read"]
    <2>1. [calls[c] EXCEPT !.op = "deny", !.pc = "read"].op = "deny"
      BY <1>r DEF CallRecords
    <2> QED  BY <1>3, <1>7, <2>1 DEF StoreOps, TypeInv
  <1>8. CASE calls' = [calls EXCEPT ![c].pc = "await", ![c].on = memory.promise]
    <2>1. [calls[c] EXCEPT !.pc = "await", !.on = memory.promise].op = calls[c].op
      BY <1>r DEF CallRecords
    <2> QED  BY <1>3, <1>8, <1>r, <2>1 DEF TypeInv
  <1>9. CASE calls' = [calls EXCEPT ![c].rec = stored, ![c].tok = osToken, ![c].pc = "store"]
    <2>1. [calls[c] EXCEPT !.rec = stored, !.tok = osToken, !.pc = "store"].op = calls[c].op
      BY <1>r DEF CallRecords
    <2> QED  BY <1>3, <1>9, <1>r, <2>1 DEF TypeInv
  <1>10. ASSUME NEW v, calls' = [calls EXCEPT ![c].rec = v, ![c].pc = "sync"]
         PROVE  ShownInv'
    <2>1. [calls[c] EXCEPT !.rec = v, !.pc = "sync"].op = calls[c].op
      BY <1>r DEF CallRecords
    <2> QED  BY <1>3, <1>10, <1>r, <2>1 DEF TypeInv
  <1> QED  BY <1>2, <1>4, <1>5, <1>6, <1>7, <1>8, <1>9, <1>10

\* So do the events that wake the push service.
LEMMA PushEventShown ==
    ASSUME TypeInv, TypeInv', ShownInv,
           \/ MountPush \/ UnmountPush \/ Foreground \/ RotateToken \/ EnablePush
           \/ TogglePermission \/ RetryFires \/ CooldownEnds
    PROVE  ShownInv'
  <1>1. StoreSame
    BY DEF StoreSame, MountPush, UnmountPush, Foreground, RotateToken, EnablePush,
           TogglePermission, RetryFires, CooldownEnds, storeVars, history
  <1>2. ASSUME NEW c \in Free, NEW u, NEW pc, calls' = Started(c, "register", u, pc)
        PROVE  ShownInv'
    BY <1>1, <1>2, StartedFact, PushOnly DEF StoreOps
  <1>3. CASE UNCHANGED calls
    BY <1>1, <1>3, PushOnly
  <1>4. CASE RetryFires
    <2>1. ASSUME NEW c \in Free,
                 calls' = [Started(c, "register", memory.timer, "await") EXCEPT ![c].on = memory.promise]
          PROVE  ShownInv'
      <3> DEFINE r == [op |-> "register", user |-> memory.timer, pc |-> "await", rec |-> None,
                       on |-> memory.promise, tok |-> None]
      <3>1. /\ Started(c, "register", memory.timer, "await") = [calls EXCEPT ![c] = r]
            /\ c \in Calls /\ calls \in [Calls -> GoodCalls \cup {Idle}]
        BY DEF Started, TypeInv, Free
      <3>2. [r EXCEPT !.on = memory.promise] = r
        OBVIOUS
      <3> HIDE DEF r
      <3>3. calls' = [calls EXCEPT ![c] = r]
        BY <2>1, <3>1, <3>2
      <3> QED  BY <1>2, <3>1, <3>3
    <2>2. \/ UNCHANGED calls
          \/ \E c \in Free :
               calls' = [Started(c, "register", memory.timer, "await") EXCEPT ![c].on = memory.promise]
      BY <1>4 DEF RetryFires
    <2> QED  BY <1>3, <2>1, <2>2
  <1>5. \/ UNCHANGED calls \/ RetryFires
        \/ \E c \in Free : \E u : calls' = Started(c, "register", u, "permission")
    BY DEF MountPush, UnmountPush, Foreground, RotateToken, EnablePush,
           TogglePermission, CooldownEnds
  <1> QED  BY <1>2, <1>3, <1>4, <1>5

\* What a session of u, or its loss, overtakes.
LEMMA OvertakenFact ==
    ASSUME NEW u
    PROVE  /\ overtaken \subseteq Overtaken(u)
           /\ \A d \in Overtaken(u) : d \in overtaken \/ (d \in Calls /\ calls[d].op = "set")
           /\ \A d \in Calls : calls[d].op = "set" /\ d \notin Overtaken(u) => calls[d].user = u
  BY DEF Overtaken, Running

LEMMA OvertakenNone ==
    ASSUME TypeInv, SessionConstants
    PROVE  /\ \A d \in Overtaken(None) : d \in overtaken \/ (d \in Calls /\ calls[d].op = "set")
           /\ \A d \in Calls : calls[d].op = "set" => d \in Overtaken(None)
  <1>1. \A d \in Calls : calls[d].op = "set" => calls[d].user # None
    BY RunningRecord DEF WellFormed, SessionConstants
  <1> QED  BY <1>1, OvertakenFact

LEMMA StoreShown ==
    ASSUME SessionConstants, TypeInv, TypeInv', ShownInv, NEW c \in Calls, StoreStep(c)
    PROVE  ShownInv'
  <1>1. CASE Awaited(c)
    <2>1. StoreSame
      BY <1>1 DEF StoreSame, Awaited, storeVars, history
    <2>2. \E p \in {"claim", "read"} : calls' = Goto(c, p)
      BY <1>1 DEF Awaited
    <2> QED  BY <1>1, <2>1, <2>2, GotoFact, StoreMoves DEF Awaited
  <1>2. CASE ReadStored(c)
    <2> DEFINE r == [calls[c] EXCEPT !.rec = stored,
                       !.pc = IF /\ calls[c].op \in {"register", "deny"}
                                 /\ stored = None \/ stored.user # calls[c].user
                              THEN "denied" ELSE "mark"]
    <2>1. /\ calls' = [calls EXCEPT ![c] = r] /\ r.op = calls[c].op /\ r.pc \in {"denied", "mark"}
          /\ r.user = calls[c].user
      BY <1>2, RunningRecord DEF ReadStored, CallRecords
    <2> HIDE DEF r
    <2>2. StoreSame
      BY <1>2 DEF StoreSame, ReadStored, storeVars, history
    <2>3. calls'[c] = r /\ \A d \in Calls \ {c} : calls'[d] = calls[d]
      BY <2>1 DEF TypeInv
    <2> QED  BY <1>2, <2>1, <2>2, <2>3, StoreMoves DEF ReadStored
  <1>3. CASE Mark(c)
    <2>1. StoreSame
      BY <1>3 DEF StoreSame, Mark, storeVars, history
    <2>2. \E p \in {"apply", "enter", "revoke", "signOut"} : calls' = Goto(c, p)
      BY <1>3 DEF Mark
    <2> QED  BY <1>3, <2>1, <2>2, GotoFact, StoreMoves DEF Mark
  <1>4. CASE Revoke(c)
    <2>1. StoreSame
      BY <1>4 DEF StoreSame, Revoke, storeVars, history
    <2>2. \E p \in {"remove", "denied", "signOut"} : calls' = Goto(c, p)
      BY <1>4 DEF Revoke, AfterRevoke
    <2> QED  BY <1>4, <2>1, <2>2, GotoFact, StoreMoves DEF Revoke
  <1>5. CASE Remove(c)
    <2>1. StoreSame
      BY <1>5 DEF StoreSame, Remove, storeVars, history
    <2>2. \E p \in {"denied", "signOut"} : calls' = Goto(c, p)
      BY <1>5 DEF Remove
    <2> QED  BY <1>5, <2>1, <2>2, GotoFact, StoreMoves DEF Remove
  <1>6. CASE AuthSignOut(c)
    <2>0. /\ calls[c].op = "out" /\ calls[c].pc = "signOut" /\ calls[c] \in CallRecords
          /\ UNCHANGED <<phase, sess, data, load, late, spilled>>
      BY <1>6, RunningRecord DEF AuthSignOut, At
    <2>1. CASE auth' = auth /\ calls' = Goto(c, "apply") /\ UNCHANGED overtaken
      <3>1. StoreSame
        BY <2>0, <2>1 DEF StoreSame, history
      <3> QED  BY <2>0, <2>1, <3>1, GotoFact, StoreMoves
    <2>2. ASSUME NEW d \in Free, auth' = None, overtaken' = Overtaken(None),
                 calls' = [Started(d, "loss", sess, "await") EXCEPT ![c].pc = "apply"]
          PROVE  ShownInv'
      <3>1. /\ d \in Calls /\ calls[d].op = "idle" /\ d # c
            /\ Started(d, "loss", sess, "await")[c] = calls[c]
        BY <2>0, StartedFact
      <3>2. /\ calls'[c].op = "out" /\ calls'[c].pc = "apply"
            /\ calls'[d].op = "loss" /\ calls'[d].pc = "await"
            /\ \A e \in Calls \ {c, d} : calls'[e] = calls[e]
        BY <2>0, <2>2, <3>1 DEF Started, TypeInv, CallRecords
      <3>3. \A e \in Calls : calls[e].op # "idle" /\ calls[e].pc = "clear"
                               => calls'[e].op # "idle" /\ calls'[e].pc = "clear"
        BY <2>0, <3>1, <3>2
      <3>4. CleanInv'
        BY <2>0, <3>3 DEF ShownInv, CleanInv
      <3>5. \A e \in Calls : calls'[e].op = "set" => calls'[e] = calls[e]
        BY <3>2
      <3>6. /\ \A e \in overtaken' : calls'[e].op = "set"
            /\ \A e \in Calls : calls'[e].op = "set" => e \in overtaken'
        BY <2>0, <2>2, <3>1, <3>2, <3>5, OvertakenNone DEF ShownInv, StoreInv, TypeInv, SessionTypeOK
      <3>7. Writer(d)'
        BY <3>2 DEF Writer
      <3> QED  BY <3>1, <3>4, <3>6, <3>7 DEF ShownInv, StoreInv
    <2> QED  BY <1>6, <2>1, <2>2 DEF AuthSignOut
  <1>7. CASE ApplySignedOut(c)
    <2>1. /\ calls'[c].op = calls[c].op /\ calls[c].op \in {"out", "loss"}
          /\ calls'[c].pc = "clear" /\ \A d \in Calls \ {c} : calls'[d] = calls[d]
          /\ phase' = "signedOut" /\ UNCHANGED <<auth, overtaken>>
      BY <1>7, GotoFact DEF ApplySignedOut, At
    <2>2. CleanInv'
      BY <2>1 DEF CleanInv
    <2>3. \A d \in Calls : calls'[d].op = "set" <=> calls[d].op = "set"
      BY <2>1
    <2>4. \A d \in Calls : calls'[d].op = "set" => calls'[d] = calls[d]
      BY <2>1
    <2> QED  BY <2>1, <2>2, <2>3, <2>4 DEF ShownInv, StoreInv, TypeInv, SessionTypeOK
  <1>8. CASE ClearLocal(c)
    <2>1. /\ calls'[c].op = "idle" /\ \A d \in Calls \ {c} : calls'[d] = calls[d]
          /\ calls[c].op \in {"out", "loss"} /\ calls[c].pc = "clear"
          /\ data' = {} /\ spilled' = {load} \ {None}
          /\ UNCHANGED <<phase, sess, auth, load, overtaken, late>>
      BY <1>8, EndedFact DEF ClearLocal, At
    <2>2. CleanInv'
      BY <2>1 DEF ShownInv, CleanInv
    <2>3. \A d \in Calls : calls'[d].op = "set" => calls'[d] = calls[d]
      BY <2>1
    <2>4. \A d \in overtaken : calls'[d].op = "set"
      BY <2>1 DEF ShownInv, StoreInv, TypeInv, SessionTypeOK
    <2>5. \A d \in Calls : Writer(d) => Writer(d)'
      BY <2>1 DEF Writer
    <2> QED  BY <2>1, <2>2, <2>3, <2>4, <2>5 DEF ShownInv, StoreInv
  <1>9. CASE EnterApp(c)
    <2>1. /\ calls'[c].op = "set" /\ calls[c].op = "set" /\ calls'[c].user = calls[c].user
          /\ \A d \in Calls \ {c} : calls'[d] = calls[d]
          /\ phase' = "signedIn" /\ sess' = calls[c].user /\ late' = (c \in overtaken)
          /\ UNCHANGED <<auth, overtaken>>
      BY <1>9, GotoFact DEF EnterApp, At
    <2>2. CleanInv'
      BY <2>1 DEF CleanInv
    <2>3. \A d \in Calls : calls'[d].op = calls[d].op /\ (calls[d].op = "set" => calls'[d].user = calls[d].user)
      BY <2>1
    <2>4. ~late' => sess' = auth'
      BY <2>1 DEF ShownInv, StoreInv
    <2> QED  BY <2>1, <2>2, <2>3, <2>4 DEF ShownInv, StoreInv, TypeInv, SessionTypeOK
  <1>10. CASE FinishSession(c)
    <2>1. /\ calls'[c].op = "idle" /\ calls[c].op = "set"
          /\ \A d \in Calls \ {c} : calls'[d] = calls[d]
          /\ phase' = "signedIn" /\ sess' = calls[c].user /\ late' = (c \in overtaken)
          /\ overtaken' = overtaken \ {c} /\ auth' = auth
      BY <1>10, EndedFact DEF FinishSession, At
    <2>2. CleanInv'
      BY <2>1 DEF CleanInv
    <2>3. ~late' => sess' = auth'
      BY <2>1 DEF ShownInv, StoreInv
    <2>4. \A d \in Calls : calls'[d].op = "set" => d # c /\ calls'[d] = calls[d]
      BY <2>1
    <2>5. \A d \in overtaken' : calls'[d].op = "set"
      BY <2>1 DEF ShownInv, StoreInv, TypeInv, SessionTypeOK
    <2> QED  BY <2>1, <2>2, <2>3, <2>4, <2>5 DEF ShownInv, StoreInv
  <1> QED  BY <1>1, <1>2, <1>3, <1>4, <1>5, <1>6, <1>7, <1>8, <1>9, <1>10 DEF StoreStep

\* A report begins at most one call, and overtakes the sets of other accounts.
LEMMA ReportShown ==
    ASSUME SessionConstants, TypeInv, TypeInv', ShownInv, NEW u \in Users \cup {None},
           NEW c \in Free, ApplySession(c, u), auth' = u,
           UNCHANGED <<phase, sess, data, load, spilled>>,
           overtaken' = Overtaken(u) \/ (overtaken' = overtaken /\ auth = u),
           phase # "recovery" \/ u = None => late' = late,
           phase = "recovery" /\ u # None => (late' <=> sess # u) \/ (late' = late /\ auth = u)
    PROVE  ShownInv'
  <1>0. /\ \A d \in Calls : calls[d].op = "set" /\ d \notin overtaken' => calls[d].user = u
        /\ \A d \in overtaken' : calls[d].op = "set"
        /\ c \notin overtaken' /\ overtaken' \subseteq Calls
        /\ c \in Calls /\ calls[c].op = "idle"
    <2>1. c \in Calls /\ calls[c].op = "idle"
      BY DEF Free, Idle
    <2>2. CASE overtaken' = Overtaken(u)
      BY <2>1, <2>2, OvertakenFact DEF ShownInv, StoreInv, TypeInv, SessionTypeOK
    <2>3. CASE overtaken' = overtaken /\ auth = u
      BY <2>1, <2>3 DEF ShownInv, StoreInv, TypeInv, SessionTypeOK
    <2> QED  BY <2>1, <2>2, <2>3
  <1>1. CASE phase = "recovery" /\ u # None
    <2>1. UNCHANGED calls
      BY <1>1 DEF ApplySession
    <2>2. CleanInv'
      BY <1>1 DEF ShownInv, CleanInv
    <2>3. \A d \in Calls : calls[d].op = "set" => d \in overtaken'
      <3>1. \A d \in Calls : calls[d].op = "set" => d \in overtaken
        BY <1>1 DEF ShownInv, StoreInv
      <3> QED  BY <3>1, OvertakenFact
    <2>4. \A d \in Calls : Writer(d) /\ calls[d].op = "loss" => Writer(d)'
      BY <2>1 DEF Writer
    <2>5. \A d \in Calls : Writer(d) => calls[d].op = "loss"
      BY <1>1 DEF Writer, ShownInv, StoreInv
    <2>6. ~late' /\ sess # u => \E d \in Calls : Writer(d)'
      BY <1>1, <2>4, <2>5 DEF ShownInv, StoreInv
    <2> QED  BY <1>0, <1>1, <2>1, <2>2, <2>3, <2>6 DEF ShownInv, StoreInv
  <1>2. ASSUME NEW op \in {"loss", "set"}, NEW v, NEW pc,
               calls' = Started(c, op, v, pc), pc # "clear",
               op = "set" => v = u /\ phase # "recovery"
        PROVE  ShownInv'
    <2>1. /\ calls'[c].op = op /\ calls'[c].user = v /\ calls'[c].pc = pc
          /\ \A d \in Calls \ {c} : calls'[d] = calls[d]
      BY <1>2, StartedFact
    <2>2. CleanInv'
      BY <1>0, <2>1 DEF ShownInv, CleanInv
    <2>3. Writer(c)'
      BY <1>0, <1>2, <2>1 DEF Writer
    <2>4. \A d \in overtaken' : calls'[d].op = "set"
      BY <1>0, <2>1
    <2>5. \A d \in Calls : calls'[d].op = "set" /\ d \notin overtaken' => calls'[d].user = auth' /\ phase' # "recovery"
      <3>1. CASE phase = "recovery"
        <4>1. \A d \in Calls : calls[d].op = "set" => d \in overtaken'
          BY <3>1, OvertakenFact DEF ShownInv, StoreInv
        <4> QED  BY <1>2, <2>1, <3>1, <4>1
      <3>2. CASE phase # "recovery"
        BY <1>0, <1>2, <2>1, <3>2
      <3> QED  BY <3>1, <3>2
    <2> QED  BY <1>0, <2>2, <2>3, <2>4, <2>5 DEF ShownInv, StoreInv
  <1>3. CASE u = None
    BY <1>2, <1>3 DEF ApplySession
  <1>4. CASE u # None /\ phase # "recovery"
    BY <1>2, <1>4 DEF ApplySession
  <1> QED  BY <1>1, <1>3, <1>4

\* The reports, and the events of the screens that show the store.
LEMMA ScreenShown ==
    ASSUME SessionConstants, TypeInv, TypeInv', ShownInv,
           \/ InitialReport \/ BootSession \/ SessionLost \/ CompleteRecovery \/ SignOut
           \/ LoadRows \/ RowsArrive \/ Kill
           \/ \E u \in Users : SessionReported(u) \/ RecoveryLink(u)
    PROVE  ShownInv'
  <1>u. auth \in Users \cup {None} /\ \A u \in Users : u # None
    BY DEF TypeInv, SessionTypeOK, SessionConstants
  <1>1. CASE InitialReport
    <2>1. PICK c \in Free : ApplySession(c, auth)
      BY <1>1 DEF InitialReport
    <2>2. UNCHANGED <<phase, sess, data, load, overtaken, late, spilled, auth>>
      BY <1>1 DEF InitialReport, history
    <2> QED  BY <1>u, <2>1, <2>2, ReportShown
  <1>2. CASE BootSession
    <2>1. UNCHANGED <<phase, sess, data, load, overtaken, late, spilled, auth>>
      BY <1>2 DEF BootSession, history
    <2>2. CASE UNCHANGED calls
      <3>1. StoreSame
        BY <2>1 DEF StoreSame, history
      <3> QED  BY <2>2, <3>1, PushOnly
    <2>3. CASE \E c \in Free : ApplySession(c, auth)
      <3>1. PICK c \in Free : ApplySession(c, auth)
        BY <2>3
      <3> QED  BY <1>u, <2>1, <3>1, ReportShown
    <2> QED  BY <1>2, <2>2, <2>3 DEF BootSession
  <1>3. ASSUME NEW u \in Users, SessionReported(u) PROVE ShownInv'
    <2>1. PICK c \in Free : ApplySession(c, u)
      BY <1>3 DEF SessionReported
    <2>2. /\ auth' = u /\ UNCHANGED <<phase, sess, data, load, spilled>>
          /\ overtaken' = Overtaken(u)
          /\ phase # "recovery" => late' = late
          /\ phase = "recovery" => (late' <=> sess # u)
      BY <1>3 DEF SessionReported
    <2> QED  BY <1>u, <2>1, <2>2, ReportShown
  <1>4. CASE SessionLost
    <2>1. PICK c \in Free : ApplySession(c, None)
      BY <1>4 DEF SessionLost
    <2>2. auth' = None /\ UNCHANGED <<phase, sess, data, load, late, spilled>> /\ overtaken' = Overtaken(None)
      BY <1>4 DEF SessionLost
    <2> QED  BY <2>1, <2>2, ReportShown
  <1>5. ASSUME NEW u \in Users, RecoveryLink(u) PROVE ShownInv'
    <2>1. /\ auth' = u /\ phase' = "recovery" /\ sess' = u /\ UNCHANGED calls
          /\ overtaken' = Running({"set"})
      BY <1>5 DEF RecoveryLink
    <2>2. CleanInv'
      BY <1>u, <2>1 DEF CleanInv
    <2> QED  BY <2>1, <2>2 DEF ShownInv, StoreInv, Running
  <1>6. CASE CompleteRecovery
    <2>1. phase = "recovery" /\ UNCHANGED <<sess, auth, calls, overtaken, late>>
      BY <1>6 DEF CompleteRecovery, history
    <2>2. sess # None
      BY <2>1 DEF ShownInv, CleanInv
    <2>3. phase' = "signedIn"
      BY <1>6, <2>2 DEF CompleteRecovery
    <2>4. \A d \in Calls : Writer(d)' <=> Writer(d)
      BY <2>1 DEF Writer
    <2> QED  BY <2>1, <2>3, <2>4 DEF ShownInv, StoreInv, CleanInv
  <1>7. CASE SignOut
    <2>1. PICK c \in Free : calls' = Started(c, "out", sess, "await")
      BY <1>7 DEF SignOut
    <2>2. phase = "signedIn" /\ StoreSame
      BY <1>7 DEF SignOut, StoreSame, storeVars
    <2>3. /\ c \in Calls /\ calls'[c].op = "out" /\ calls[c].op = "idle"
          /\ \A d \in Calls \ {c} : calls'[d] = calls[d]
      BY <2>1, StartedFact
    <2>4. CleanInv'
      BY <2>2 DEF CleanInv, StoreSame
    <2>5. \A d \in Calls : Writer(d) => Writer(d)'
      BY <2>2, <2>3 DEF Writer, StoreSame, history
    <2>6. \A d \in Calls : calls'[d].op = "set" => calls'[d] = calls[d]
      BY <2>3
    <2>7. \A d \in overtaken : calls'[d].op = "set"
      BY <2>3 DEF ShownInv, StoreInv, TypeInv, SessionTypeOK
    <2> QED  BY <2>2, <2>4, <2>5, <2>6, <2>7 DEF ShownInv, StoreInv, StoreSame, history
  <1>8. CASE LoadRows \/ RowsArrive
    <2>1. /\ UNCHANGED <<phase, sess, auth, calls, overtaken, late, spilled>>
          /\ phase = "signedIn" \/ data' \cup ({load'} \ {None}) \subseteq data \cup ({load} \ {None})
      BY <1>8 DEF LoadRows, RowsArrive, history
    <2>2. CleanInv'
      BY <2>1 DEF ShownInv, CleanInv
    <2>3. \A d \in Calls : Writer(d)' <=> Writer(d)
      BY <2>1 DEF Writer
    <2> QED  BY <2>1, <2>2, <2>3 DEF ShownInv, StoreInv
  <1>9. CASE Kill
    <2>1. phase' = "booting" /\ overtaken' = {} /\ \A d \in Calls : calls'[d].op = "idle"
      BY <1>9 DEF Kill, Idle
    <2> QED  BY <2>1 DEF ShownInv, StoreInv, CleanInv
  <1> QED  BY <1>1, <1>2, <1>3, <1>4, <1>5, <1>6, <1>7, <1>8, <1>9

LEMMA ShownStep ==
    ASSUME SessionConstants, TypeInv, TypeInv', ShownInv, [Next]_vars
    PROVE  ShownInv'
  <1>0. CASE UNCHANGED vars
    <2>1. StoreSame /\ UNCHANGED calls
      BY <1>0 DEF vars, storeVars, StoreSame
    <2> QED  BY <2>1, PushOnly
  <1> QED  BY <1>0, ScreenShown, StoreShown, RegisterShown, PushEventShown DEF Next

LEMMA ShownInit == SessionConstants /\ Init => ShownInv
  BY DEF Init, ShownInv, StoreInv, CleanInv, Idle

LEMMA ShownAlways == Spec => [](TypeInv /\ ShownInv)
  <1>1. TypeInv /\ ShownInv /\ [Next]_vars => (TypeInv /\ ShownInv)'
    BY TypeStep, ShownStep, SessionConstants
  <1> QED  BY <1>1, TypeInit, ShownInit, SessionConstants, PTL DEF Spec

\* Once the calls of the store are over, the account that the application shows
\* is the account of the auth client, or was written last by a call that a
\* change of the account had overtaken.
THEOREM SignedIn == Spec => []SignedInIsAuth
  <1>1. TypeInv /\ ShownInv => SignedInIsAuth
    <2> SUFFICES ASSUME TypeInv, ShownInv, Quiet, Shown = "MainTabs", ~late PROVE sess = auth
      BY DEF SignedInIsAuth
    <2>1. phase = "signedIn"
      BY DEF Shown, TypeInv, SessionTypeOK
    <2>2. \A c \in Calls : ~Writer(c)
      BY QuietFact DEF Writer, StoreOps
    <2> QED  BY <2>1, <2>2 DEF ShownInv, StoreInv
  <1> QED  BY <1>1, ShownAlways, PTL

\* A signed-out phone holds nobody's rows once its calls are over, but those of
\* a load that ran beside the cleanup.
THEOREM SignedOut == Spec => []SignedOutClean
  <1>1. TypeInv /\ ShownInv => SignedOutClean
    <2> SUFFICES ASSUME TypeInv, ShownInv, Quiet, Shown = "Welcome" PROVE data \subseteq spilled
      BY DEF SignedOutClean
    <2>1. phase = "signedOut"
      BY DEF Shown, TypeInv, SessionTypeOK
    <2>2. \A c \in Calls : calls[c].op # "idle" => calls[c].pc # "clear"
      BY RunningRecord, QuietFact DEF WellFormed, StoreOps
    <2> QED  BY <2>1, <2>2 DEF ShownInv, CleanInv
  <1> QED  BY <1>1, ShownAlways, PTL

\* In a recovery no call begins that would end it.
LEMMA RecoverySets ==
    ASSUME SessionConstants, TypeInv, ShownInv, Next, phase = "recovery", NEW d \in Calls,
           calls'[d].op = "set"
    PROVE  calls[d].op = "set"
  <1>1. ASSUME NEW c \in Free, NEW u, ApplySession(c, u) PROVE calls[d].op = "set"
    <2>1. UNCHANGED calls \/ calls' = Started(c, "loss", sess, "await")
      BY <1>1 DEF ApplySession
    <2> QED  BY <2>1, StartedFact
  <1>2. CASE InitialReport \/ BootSession \/ SessionLost \/ \E u \in Users : SessionReported(u)
    BY <1>1, <1>2 DEF InitialReport, BootSession, SessionLost, SessionReported
  <1>3. CASE \/ CompleteRecovery \/ LoadRows \/ RowsArrive \/ \E u \in Users : RecoveryLink(u)
             \/ UnmountPush \/ TogglePermission \/ CooldownEnds
    BY <1>3 DEF CompleteRecovery, LoadRows, RowsArrive, RecoveryLink, UnmountPush,
                TogglePermission, CooldownEnds
  <1>4. CASE SignOut
    BY <1>4 DEF SignOut
  <1>5. CASE MountPush \/ Foreground \/ RotateToken \/ EnablePush
    <2>1. UNCHANGED calls \/ \E c \in Free : \E u : calls' = Started(c, "register", u, "permission")
      BY <1>5 DEF MountPush, Foreground, RotateToken, EnablePush
    <2> QED  BY <2>1, StartedFact
  <1>6. CASE RetryFires
    <2>1. ASSUME NEW c \in Free,
                 calls' = [Started(c, "register", memory.timer, "await") EXCEPT ![c].on = memory.promise]
          PROVE  calls[d].op = "set"
      <3> DEFINE r == [op |-> "register", user |-> memory.timer, pc |-> "await", rec |-> None,
                       on |-> memory.promise, tok |-> None]
      <3>1. /\ Started(c, "register", memory.timer, "await") = [calls EXCEPT ![c] = r]
            /\ c \in Calls /\ calls \in [Calls -> GoodCalls \cup {Idle}]
        BY DEF Started, TypeInv, Free
      <3>2. [r EXCEPT !.on = memory.promise] = r
        OBVIOUS
      <3>3. r.op = "register"
        OBVIOUS
      <3> HIDE DEF r
      <3>4. calls' = [calls EXCEPT ![c] = r]
        BY <2>1, <3>1, <3>2
      <3> QED  BY <3>1, <3>3, <3>4
    <2> QED  BY <1>6, <2>1 DEF RetryFires
  <1>7. CASE Kill
    BY <1>7 DEF Kill, Idle
  <1>8. ASSUME NEW c \in Calls, StoreStep(c) PROVE calls[d].op = "set"
    <2>1. CASE \E p : calls' = Goto(c, p)
      BY <2>1 DEF Goto, TypeInv
    <2>2. CASE calls' = Ended(c)
      BY <2>2, EndedFact
    <2>3. CASE ReadStored(c)
      BY <2>3 DEF ReadStored, TypeInv
    <2>4. CASE AuthSignOut(c)
      <3>1. ASSUME NEW e \in Free,
                   calls' = [Started(e, "loss", sess, "await") EXCEPT ![c].pc = "apply"]
            PROVE  calls[d].op = "set"
        <4>1. /\ e \in Calls /\ Started(e, "loss", sess, "await")[e].op = "loss"
              /\ \A f \in Calls \ {e} : Started(e, "loss", sess, "await")[f] = calls[f]
          BY StartedFact
        <4>2. Started(e, "loss", sess, "await") \in [Calls -> GoodCalls \cup {Idle}]
          BY StartedType DEF StoreOps, Free, TypeInv, SessionTypeOK
        <4> QED  BY <3>1, <4>1, <4>2
      <3> QED  BY <2>1, <2>4, <3>1 DEF AuthSignOut
    <2> QED  BY <1>8, <2>1, <2>2, <2>3, <2>4
             DEF StoreStep, Awaited, Mark, Revoke, Remove, ApplySignedOut, ClearLocal, EnterApp, FinishSession
  <1>9. ASSUME NEW c \in Calls, RegisterStep(c) PROVE calls[d].op = "set"
    <2>1. calls[c].op \in {"register", "deny"}
      BY <1>9 DEF RegisterStep, CheckPermission, ClaimPromise, ReadToken, Denied, StorePending,
                  SyncInstallation, StoreRegistered, At
    <2>2. \/ \E p : calls' = Goto(c, p)
          \/ calls' = Ended(c) \/ calls' = Settle(c, Ended(c))
          \/ calls' = [calls EXCEPT ![c].op = "deny", ![c].pc = "read"]
          \/ calls' = [calls EXCEPT ![c].pc = "await", ![c].on = memory.promise]
          \/ calls' = [calls EXCEPT ![c].rec = stored, ![c].tok = osToken, ![c].pc = "store"]
          \/ \E v : calls' = [calls EXCEPT ![c].rec = v, ![c].pc = "sync"]
      BY <1>9 DEF RegisterStep, CheckPermission, ClaimPromise, ReadToken, Denied, StorePending,
                  SyncInstallation, StoreRegistered
    <2>3. CASE calls' = Settle(c, Ended(c))
      BY <2>3, SettledFact
    <2>4. CASE calls' = Ended(c)
      BY <2>4, EndedFact
    <2>5. ASSUME NEW p, calls' = Goto(c, p) PROVE calls[d].op = "set"
      BY <2>1, <2>5, GotoFact
    <2>6. ASSUME NEW r, calls' = [calls EXCEPT ![c] = r], r.op # "set" PROVE calls[d].op = "set"
      BY <2>6 DEF TypeInv
    <2>7. calls[c] \in CallRecords
      BY <2>1, RunningRecord
    <2>8. CASE calls' = [calls EXCEPT ![c].op = "deny", ![c].pc = "read"]
      <3>1. [calls[c] EXCEPT !.op = "deny", !.pc = "read"].op = "deny"
        BY <2>7 DEF CallRecords
      <3> QED  BY <2>6, <2>8, <3>1 DEF TypeInv
    <2>9. CASE calls' = [calls EXCEPT ![c].pc = "await", ![c].on = memory.promise]
      <3>1. [calls[c] EXCEPT !.pc = "await", !.on = memory.promise].op = calls[c].op
        BY <2>7 DEF CallRecords
      <3> QED  BY <2>1, <2>6, <2>9, <3>1 DEF TypeInv
    <2>10. CASE calls' = [calls EXCEPT ![c].rec = stored, ![c].tok = osToken, ![c].pc = "store"]
      <3>1. [calls[c] EXCEPT !.rec = stored, !.tok = osToken, !.pc = "store"].op = calls[c].op
        BY <2>7 DEF CallRecords
      <3> QED  BY <2>1, <2>6, <2>10, <3>1 DEF TypeInv
    <2>11. ASSUME NEW v, calls' = [calls EXCEPT ![c].rec = v, ![c].pc = "sync"] PROVE calls[d].op = "set"
      <3>1. [calls[c] EXCEPT !.rec = v, !.pc = "sync"].op = calls[c].op
        BY <2>7 DEF CallRecords
      <3> QED  BY <2>1, <2>6, <2>11, <3>1 DEF TypeInv
    <2> QED  BY <2>2, <2>3, <2>4, <2>5, <2>8, <2>9, <2>10, <2>11
  <1> QED  BY <1>2, <1>3, <1>4, <1>5, <1>6, <1>7, <1>8, <1>9 DEF Next

\* Only the new password ends a recovery in the application, and a call that
\* ran before the link did.
THEOREM RecoveryEnds == Spec => RecoveryHolds
  <1> DEFINE Ends == Shown = "NewPassword" =>
                       /\ Running({"set"})' \subseteq Running({"set"})
                       /\ Shown' = "MainTabs" => late' \/ UNCHANGED <<sess, calls>>
  <1>1. TypeInv /\ TypeInv' /\ ShownInv /\ [Next]_vars => [Ends]_vars
    <2> SUFFICES ASSUME TypeInv, TypeInv', ShownInv, Next, Shown = "NewPassword"
                 PROVE  /\ Running({"set"})' \subseteq Running({"set"})
                        /\ Shown' = "MainTabs" => late' \/ UNCHANGED <<sess, calls>>
      OBVIOUS
    <2>1. phase = "recovery"
      BY DEF Shown, TypeInv, SessionTypeOK
    <2>2. Running({"set"})' \subseteq Running({"set"})
      BY <2>1, RecoverySets, SessionConstants DEF Running
    <2>3. ASSUME Shown' = "MainTabs" PROVE late' \/ UNCHANGED <<sess, calls>>
      <3>1. phase' = "signedIn"
        BY <2>3 DEF Shown, TypeInv, SessionTypeOK
      <3>2. CASE CompleteRecovery
        BY <3>2 DEF CompleteRecovery
      <3>3. ASSUME NEW c \in Calls, EnterApp(c) \/ FinishSession(c) PROVE late'
        BY <2>1, <3>3 DEF EnterApp, FinishSession, At, ShownInv, StoreInv
      <3>4. ASSUME NEW c \in Calls, StoreStep(c) \/ RegisterStep(c), ~EnterApp(c), ~FinishSession(c)
            PROVE  FALSE
        BY <2>1, <3>1, <3>4 DEF StoreStep, Awaited, ReadStored, Mark, Revoke, Remove, AuthSignOut,
           ApplySignedOut, ClearLocal, RegisterStep, CheckPermission, ClaimPromise, ReadToken, Denied,
           StorePending, SyncInstallation, StoreRegistered, storeVars
      <3>5. CASE \/ InitialReport \/ BootSession \/ SessionLost \/ SignOut \/ LoadRows \/ RowsArrive
                 \/ \E u \in Users : SessionReported(u) \/ RecoveryLink(u)
        BY <2>1, <3>1, <3>5 DEF InitialReport, BootSession, SessionLost, SignOut, LoadRows, RowsArrive,
           SessionReported, RecoveryLink, storeVars
      <3>6. CASE \/ MountPush \/ UnmountPush \/ Foreground \/ RotateToken \/ EnablePush
                 \/ TogglePermission \/ RetryFires \/ CooldownEnds \/ Kill
        BY <2>1, <3>1, <3>6 DEF MountPush, UnmountPush, Foreground, RotateToken, EnablePush,
           TogglePermission, RetryFires, CooldownEnds, Kill, storeVars
      <3> QED  BY <3>2, <3>3, <3>4, <3>5, <3>6 DEF Next
    <2> QED  BY <2>2, <2>3
  <1> QED  BY <1>1, ShownAlways, PTL DEF Spec, RecoveryHolds
=============================================================================
