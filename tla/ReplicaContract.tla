--------------------------- MODULE ReplicaContract ---------------------------
(***************************************************************************)
(* What the node promises the backend about the replicas it is asked for,  *)
(* without polls, transfers, staging files, manifests and crashes: it      *)
(* stores what was placed on it, acknowledges what it has, and removes     *)
(* nothing but the files of assets that have gone.  Only an asset that was *)
(* placed while the list of assets was on its way is exposed to a removal. *)
(***************************************************************************)
CONSTANT Assets

VARIABLES status,   \* what the backend knows of each replica
          stored,   \* the assets whose file is here
          exposed   \* those placed while a manifest was on its way

vars == <<status, stored, exposed>>

Init ==
  /\ status = [a \in Assets |-> "none"]
  /\ stored = {} /\ exposed = {}

Place(a) ==
  /\ status[a] = "none"
  /\ status' = [status EXCEPT ![a] = "open"]
  /\ exposed' \in {exposed, exposed \cup {a}}
  /\ UNCHANGED stored

Withdraw(a) ==
  /\ status[a] \in {"open", "acked", "failed"}
  /\ status' = [status EXCEPT ![a] = "gone"]
  /\ UNCHANGED <<stored, exposed>>

Store(a) ==
  /\ status[a] # "none"
  /\ stored' = stored \cup {a}
  /\ UNCHANGED <<status, exposed>>

Ack(a) ==
  /\ status[a] = "open" /\ a \in stored \cup exposed
  /\ status' = [status EXCEPT ![a] = "acked"]
  /\ UNCHANGED <<stored, exposed>>

(* Also of a replica that is here: its ack was lost. *)
Fail(a) ==
  /\ status[a] = "open"
  /\ status' = [status EXCEPT ![a] = "failed"]
  /\ UNCHANGED <<stored, exposed>>

(* One sweep removes several. *)
Remove(some) ==
  /\ \A a \in some : status[a] = "gone" \/ a \in exposed
  /\ stored' = stored \ some
  /\ UNCHANGED <<status, exposed>>

Next ==
  \/ \E a \in Assets : Place(a) \/ Withdraw(a) \/ Store(a) \/ Ack(a) \/ Fail(a)
  \/ \E some \in SUBSET Assets : Remove(some)

Spec == Init /\ [][Next]_vars
=============================================================================
