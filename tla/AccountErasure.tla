--------------------------- MODULE AccountErasure ---------------------------
(***************************************************************************)
(* What account deletion promises, whoever drives it: a request goes       *)
(* through its phases in order, the Auth user is gone before a request is  *)
(* recorded as auth_deleted, the profile photos are gone before one is     *)
(* recorded as completed, and from the first request on no photo appears.  *)
(* The module is about one account; a request is one client_request_id.    *)
(***************************************************************************)
EXTENDS Naturals

CONSTANTS Requests,   \* client_request_ids, one per device or retry key
          MaxPhoto    \* storage object names, in name order

VARIABLES authExists, \* the auth.users row of the account
          photos,     \* its objects in the profile-photos bucket
          phase       \* phase of each private.account_deletion_requests row

vars == <<authExists, photos, phase>>

Photos == 1..MaxPhoto

Init == /\ authExists = TRUE
        /\ photos \in SUBSET Photos
        /\ phase = [r \in Requests |-> "none"]

Upload == /\ \A r \in Requests : phase[r] = "none"
          /\ \E p \in Photos : photos' = photos \cup {p}
          /\ UNCHANGED <<authExists, phase>>

OwnerDelete == /\ \E p \in photos : photos' = photos \ {p}
               /\ UNCHANGED <<authExists, phase>>

Move(r, from, to) == /\ phase[r] = from
                     /\ phase' = [phase EXCEPT ![r] = to]
                     /\ UNCHANGED <<authExists, photos>>

Begin(r) == Move(r, "none", "requested")

DeleteAuth == /\ \E r \in Requests : phase[r] # "none"
              /\ authExists' = FALSE
              /\ UNCHANGED <<photos, phase>>

RecordAuthDeleted(r) == ~authExists /\ Move(r, "requested", "auth_deleted")

StartErasure(r) == Move(r, "auth_deleted", "storage_deleting")

Erase == /\ \E r \in Requests : phase[r] = "storage_deleting"
         /\ \E gone \in SUBSET photos : photos' = photos \ gone
         /\ UNCHANGED <<authExists, phase>>

Complete(r) == photos = {} /\ Move(r, "storage_deleting", "completed")

Next == \/ Upload \/ OwnerDelete \/ DeleteAuth \/ Erase
        \/ \E r \in Requests : \/ Begin(r) \/ RecordAuthDeleted(r)
                               \/ StartErasure(r) \/ Complete(r)

Spec == Init /\ [][Next]_vars
=============================================================================
