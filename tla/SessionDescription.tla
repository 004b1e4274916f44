------------------------- MODULE SessionDescription -------------------------
(***************************************************************************)
(* The session-description observers of PeerConnectionManager.h and the    *)
(* promise each one settles.  A caller asks WebRTC to create an offer or   *)
(* answer through a CreateSessionDescriptionObserver, or to set the        *)
(* remote description through a SetSessionDescriptionObserver, handing    *)
(* the observer a reference to its std::promise.  WebRTC calls the         *)
(* observer back on its signaling thread; on a created description the     *)
(* observer sets it as the local description through a new                 *)
(* SetSessionDescriptionObserver holding the same promise.                 *)
(*                                                                         *)
(* A description is abstracted to which side it is; the promise to the     *)
(* value it holds and the number of set_value calls made on it.            *)
(***************************************************************************)
EXTENDS Naturals

CONSTANTS
    Requests  \* the promises callers hand to observers, one per request

VARIABLES
    op,        \* op[r]: "none", "create" (CreateOffer/CreateAnswer), "remote" (SetRemoteDescription)
    stage,     \* stage[r]: "idle", "creating", "setting_local", "setting_remote", "done"
    val,       \* val[r]: the value of promise r: "none", "local", "remote", "null"
    sets,      \* sets[r]: the set_value calls made on promise r
    hasLocal,  \* pc_->local_description() is not null
    hasRemote  \* pc_->remote_description() is not null

vars == <<op, stage, val, sets, hasLocal, hasRemote>>

TypeOK ==
    /\ op \in [Requests -> {"none", "create", "remote"}]
    /\ stage \in [Requests -> {"idle", "creating", "setting_local", "setting_remote", "done"}]
    /\ val \in [Requests -> {"none", "local", "remote", "null"}]
    /\ sets \in [Requests -> Nat]
    /\ hasLocal \in BOOLEAN /\ hasRemote \in BOOLEAN

Init ==
    /\ op = [r \in Requests |-> "none"]
    /\ stage = [r \in Requests |-> "idle"]
    /\ val = [r \in Requests |-> "none"]
    /\ sets = [r \in Requests |-> 0]
    /\ hasLocal = FALSE /\ hasRemote = FALSE

(* promise_.set_value(v).                                                  *)
SetValue(r, v) ==
    /\ val' = [val EXCEPT ![r] = v]
    /\ sets' = [sets EXCEPT ![r] = @ + 1]

(* A caller starts request r: CreateSessionDescriptionObserver::Create or  *)
(* SetSessionDescriptionObserver::Create with its promise, passed to       *)
(* CreateOffer/CreateAnswer or to SetRemoteDescription.                    *)
Request(r) ==
    /\ stage[r] = "idle"
    /\ \E o \in {"create", "remote"} :
         /\ op' = [op EXCEPT ![r] = o]
         /\ stage' = [stage EXCEPT ![r] = IF o = "create" THEN "creating"
                                                           ELSE "setting_remote"]
    /\ UNCHANGED <<val, sets, hasLocal, hasRemote>>

(* Mutant of CreateObserverOnSuccess: the created description is handed   *)
(* to the promise before it is set as the local description.              *)
CreateObserverOnSuccess_EarlySet(r) ==
    /\ stage[r] = "creating"
    /\ stage' = [stage EXCEPT ![r] = "setting_local"]
    /\ SetValue(r, "local")
    /\ UNCHANGED <<op, hasLocal, hasRemote>>

(* CreateSessionDescriptionObserver::OnSuccess(desc): log it and call      *)
(* pc_->SetLocalDescription with a new SetSessionDescriptionObserver on    *)
(* the same promise.                                                       *)
CreateObserverOnSuccess(r) ==
    /\ stage[r] = "creating"
    /\ stage' = [stage EXCEPT ![r] = "setting_local"]
    /\ UNCHANGED <<op, val, sets, hasLocal, hasRemote>>

(* CreateSessionDescriptionObserver::OnFailure: set_value(nullptr).        *)
CreateObserverOnFailure(r) ==
    /\ stage[r] = "creating"
    /\ stage' = [stage EXCEPT ![r] = "done"]
    /\ SetValue(r, "null")
    /\ UNCHANGED <<op, hasLocal, hasRemote>>

(* The description WebRTC has just applied for request r.                  *)
Applied(r) ==
    /\ hasLocal' = (hasLocal \/ stage[r] = "setting_local")
    /\ hasRemote' = (hasRemote \/ stage[r] = "setting_remote")

(* Mutant of SetObserverOnSuccess: only the local description is looked    *)
(* at.                                                                     *)
SetObserverOnSuccess_NoRemoteBranch(r) ==
    /\ stage[r] \in {"setting_local", "setting_remote"}
    /\ Applied(r)
    /\ stage' = [stage EXCEPT ![r] = "done"]
    /\ IF hasLocal' THEN SetValue(r, "local") ELSE UNCHANGED <<val, sets>>
    /\ UNCHANGED op

(* WebRTC applies the description and calls                                *)
(* SetSessionDescriptionObserver::OnSuccess: if pc_ has a local            *)
(* description the promise gets it, else if it has a remote one the       *)
(* promise gets that, else nothing is set.                                 *)
SetObserverOnSuccess(r) ==
    /\ stage[r] \in {"setting_local", "setting_remote"}
    /\ Applied(r)
    /\ stage' = [stage EXCEPT ![r] = "done"]
    /\ CASE hasLocal'  -> SetValue(r, "local")
         [] hasRemote' -> SetValue(r, "remote")
         [] OTHER      -> UNCHANGED <<val, sets>>
    /\ UNCHANGED op

(* SetSessionDescriptionObserver::OnFailure: set_value(nullptr).           *)
SetObserverOnFailure(r) ==
    /\ stage[r] \in {"setting_local", "setting_remote"}
    /\ stage' = [stage EXCEPT ![r] = "done"]
    /\ SetValue(r, "null")
    /\ UNCHANGED <<op, hasLocal, hasRemote>>

(* A callback of WebRTC for request r.                                     *)
Callback(r) ==
    \/ CreateObserverOnSuccess(r)
    \/ CreateObserverOnFailure(r)
    \/ SetObserverOnSuccess(r)
    \/ SetObserverOnFailure(r)

Next ==
    \/ \E r \in Requests : Request(r)
    \/ \E r \in Requests : Callback(r)

(* WebRTC answers every operation it accepted with OnSuccess or OnFailure; *)
(* callers start requests when they like.                                  *)
Spec == Init /\ [][Next]_vars /\ \A r \in Requests : WF_vars(Callback(r))

-----------------------------------------------------------------------------
(* Properties *)

(* Each promise is set at most once: a second set_value on a satisfied     *)
(* std::promise throws future_error on WebRTC's signaling thread, where    *)
(* nothing catches it.                                                     *)
PromiseSetOnce ==
    \A r \in Requests : sets[r] <= 1

(* Every request a caller starts settles its promise, with a description  *)
(* or with nullptr, so a caller waiting on the future is answered.         *)
PromiseSettled ==
    \A r \in Requests : stage[r] # "idle" ~> sets[r] > 0

(* The promise of a successful SetRemoteDescription carries the remote     *)
(* description that was set, as the "Remote SDP" branch of OnSuccess       *)
(* reports.                                                                *)
RemoteRequestGetsRemote ==
    \A r \in Requests :
        op[r] = "remote" /\ val[r] \in {"local", "remote"} => val[r] = "remote"

=============================================================================
