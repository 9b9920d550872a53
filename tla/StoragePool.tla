----------------------------- MODULE StoragePool -----------------------------
(***************************************************************************)
(* The node's share of the asset store (agent.py _transfer_loop,           *)
(* _service_transfer_job, _fetch_from_peer, _storage_gc_loop).  Transfer   *)
(* jobs are served one at a time, from a peer or else through the backend; *)
(* a file is written next to its place and renamed.  The collector runs    *)
(* between the awaits of a transfer, on a manifest that has travelled; the *)
(* agent may crash between any two steps.                                  *)
(***************************************************************************)
EXTENDS Naturals

CONSTANTS
  Assets,        \* assets, by hash
  None,          \* no asset, no manifest
  MaxCrashes     \* bound: crashes of the agent

ASSUME StorageAssumption == /\ None \notin Assets
                            /\ MaxCrashes \in Nat

VARIABLES
  live,          \* backend: the assets that exist
  job,           \* backend: the job that puts an asset on this node
  file,          \* pool/<sha256>: none, whole or bad
  tmp,           \* the assets with a pool/<sha256>.tmp
  queue,         \* jobs of the last poll still to serve
  cur,           \* the asset being transferred
  phase,         \* where its transfer is
  manifest,      \* GC: the manifest on its way or in hand
  late,          \* history: assets added while a manifest was on its way
  crashes

vars == <<live, job, file, tmp, queue, cur, phase, manifest, late, crashes>>
backend == <<live, job, late>>
pool == <<file, tmp>>

Phases == {"idle", "peer", "peerOpen", "relay", "relayOpen",
           "ackHave", "ackPeer", "ackRelay", "error"}

TypeOK ==
  /\ live \subseteq Assets
  /\ job \in [Assets -> {"none", "open", "acked", "failed", "gone"}]
  /\ file \in [Assets -> {"none", "whole", "bad"}]
  /\ tmp \subseteq Assets
  /\ queue \subseteq Assets
  /\ cur \in Assets \cup {None}
  /\ phase \in Phases
  /\ manifest \in (SUBSET Assets) \cup {None}
  /\ late \subseteq Assets
  /\ crashes \in 0..MaxCrashes

Init ==
  /\ live = {} /\ late = {}
  /\ job = [a \in Assets |-> "none"]
  /\ file = [a \in Assets |-> "none"]
  /\ tmp = {} /\ queue = {} /\ cur = None /\ phase = "idle"
  /\ manifest = None
  /\ crashes = 0

-----------------------------------------------------------------------------
(* The backend (external).  It places each asset, named by its hash, once. *)

DeleteAsset(a) ==
  /\ a \in live
  /\ live' = live \ {a}
  /\ job' = [job EXCEPT ![a] = "gone"]
  /\ UNCHANGED <<late, pool, queue, cur, phase, manifest, crashes>>

AddAsset(a) ==
  /\ job[a] = "none"
  /\ live' = live \cup {a}
  /\ job' = [job EXCEPT ![a] = "open"]
  /\ late' = IF manifest = None THEN late ELSE late \cup {a}
  /\ UNCHANGED <<pool, queue, cur, phase, manifest, crashes>>

-----------------------------------------------------------------------------
(* _transfer_loop and _service_transfer_job                                *)

Poll ==
  /\ phase = "idle" /\ queue = {}
  /\ queue' = {a \in live : job[a] = "open"}
  /\ UNCHANGED <<backend, pool, cur, phase, manifest, crashes>>

(* Mutation: a file that is there is passed over without an ack. *)
BeginNew(a) ==
  /\ phase = "idle" /\ a \in queue
  /\ queue' = queue \ {a}
  /\ IF file[a] # "none" THEN UNCHANGED <<cur, phase>>
                         ELSE cur' = a /\ phase' \in {"peer", "relay"}
  /\ UNCHANGED <<backend, pool, manifest, crashes>>

(* A file that is there is only acked; the job may name a peer. *)
Begin(a) ==
  /\ phase = "idle" /\ a \in queue
  /\ queue' = queue \ {a}
  /\ cur' = a
  /\ phase' \in IF file[a] # "none" THEN {"ackHave"} ELSE {"peer", "relay"}
  /\ UNCHANGED <<backend, pool, manifest, crashes>>

(* Mutation: the result of the peer transfer is not looked at. *)
PeerRefusesAcks ==
  /\ phase = "peer"
  /\ phase' = "ackPeer"
  /\ UNCHANGED <<backend, pool, queue, cur, manifest, crashes>>

PeerRefuses ==
  /\ phase = "peer"
  /\ phase' = "relay"
  /\ UNCHANGED <<backend, pool, queue, cur, manifest, crashes>>

(* Opening the staging file truncates what a crash left there. *)
Open ==
  /\ phase \in {"peer", "relay"}
  /\ phase' = IF phase = "peer" THEN "peerOpen" ELSE "relayOpen"
  /\ tmp' = tmp \cup {cur}
  /\ UNCHANGED <<backend, file, queue, cur, manifest, crashes>>

(* Mutation: the hash is not compared. *)
StoredUnhashed(content) ==
  /\ cur \in tmp
  /\ file' = [file EXCEPT ![cur] = content]
  /\ tmp' = tmp \ {cur}

(* All chunks came; their hash decides. *)
Stored(content) ==
  /\ content = "whole" /\ cur \in tmp
  /\ file' = [file EXCEPT ![cur] = content]
  /\ tmp' = tmp \ {cur}

(* A broken stream, a wrong hash, or a staging file that is gone. *)
NotStored(content) ==
  /\ content # "whole" \/ cur \notin tmp
  /\ tmp' = tmp \ {cur}
  /\ UNCHANGED file

PeerEnds ==
  /\ phase = "peerOpen"
  /\ \E content \in {"whole", "bad"} :
       \/ Stored(content) /\ phase' = "ackPeer"
       \/ NotStored(content) /\ phase' = "relay"
  /\ UNCHANGED <<backend, queue, cur, manifest, crashes>>

RelayEnds ==
  /\ phase = "relayOpen"
  /\ \E content \in {"whole", "bad"} :
       \/ Stored(content) /\ phase' = "ackRelay"
       \/ NotStored(content) /\ phase' = "error"
  /\ UNCHANGED <<backend, queue, cur, manifest, crashes>>

Report(result) ==
  job' = IF cur \in live /\ job[cur] = "open" THEN [job EXCEPT ![cur] = result] ELSE job

Done == phase' = "idle" /\ cur' = None

Acking == phase \in {"ackHave", "ackPeer", "ackRelay"}

AckTaken ==
  /\ Acking
  /\ Report("acked")
  /\ Done
  /\ UNCHANGED <<live, late, pool, queue, manifest, crashes>>

(* Any answer ends the job: its status is not looked at. *)
AckRefused ==
  /\ Acking
  /\ Done
  /\ UNCHANGED <<backend, pool, queue, manifest, crashes>>

(* Mutation: the clean-up after a lost ack removes the file. *)
AckRaisesRemoves ==
  /\ Acking
  /\ Report("acked") \/ UNCHANGED job
  /\ IF phase = "ackHave" THEN Done /\ UNCHANGED file
     ELSE /\ phase' = IF phase = "ackPeer" THEN "relay" ELSE "error"
          /\ file' = [file EXCEPT ![cur] = "none"]
          /\ UNCHANGED cur
  /\ UNCHANGED <<live, late, tmp, queue, manifest, crashes>>

(* The POST raises, before or after the backend took it: the peer path     *)
(* goes on to the relay, the relay path reports an error.                  *)
AckRaises ==
  /\ Acking
  /\ Report("acked") \/ UNCHANGED job
  /\ IF phase = "ackHave" THEN Done
     ELSE /\ phase' = IF phase = "ackPeer" THEN "relay" ELSE "error"
          /\ UNCHANGED cur
  /\ tmp' = IF phase = "ackHave" THEN tmp ELSE tmp \ {cur}
  /\ UNCHANGED <<live, late, file, queue, manifest, crashes>>

PostError ==
  /\ phase = "error"
  /\ Report("failed") \/ UNCHANGED job
  /\ Done
  /\ UNCHANGED <<live, late, pool, queue, manifest, crashes>>

-----------------------------------------------------------------------------
(* _storage_gc_loop: the sweep itself has no await.                        *)

GcFetch ==
  /\ manifest = None
  /\ manifest' = live
  /\ UNCHANGED <<backend, pool, queue, cur, phase, crashes>>

(* Mutation: staging files are left alone. *)
GcSweepPool ==
  /\ manifest # None
  /\ file' = [a \in Assets |-> IF a \in manifest THEN file[a] ELSE "none"]
  /\ manifest' = None
  /\ UNCHANGED <<backend, tmp, queue, cur, phase, crashes>>

GcSweep ==
  /\ manifest # None
  /\ tmp' = {}
  /\ file' = [a \in Assets |-> IF a \in manifest THEN file[a] ELSE "none"]
  /\ manifest' = None
  /\ UNCHANGED <<backend, queue, cur, phase, crashes>>

(* The manifest request fails, or is refused. *)
GcFails ==
  /\ manifest # None
  /\ manifest' = None
  /\ UNCHANGED <<backend, pool, queue, cur, phase, crashes>>

Crash ==
  /\ crashes < MaxCrashes
  /\ crashes' = crashes + 1
  /\ queue' = {} /\ cur' = None /\ phase' = "idle" /\ manifest' = None
  /\ UNCHANGED <<backend, pool>>

-----------------------------------------------------------------------------
Transfer ==
  \/ Poll \/ (\E a \in Assets : Begin(a)) \/ PeerRefuses \/ Open
  \/ PeerEnds \/ RelayEnds \/ AckTaken \/ AckRefused \/ AckRaises \/ PostError

Next ==
  \/ Transfer \/ GcFetch \/ GcSweep \/ GcFails \/ Crash
  \/ \E a \in Assets : DeleteAsset(a) \/ AddAsset(a)

Spec == Init /\ [][Next]_vars

(* Both loops run on; of the acks of one job, sent again and again, one    *)
(* gets through, and so does one of its error reports, and a manifest.     *)
Fairness == /\ WF_vars(Transfer) /\ WF_vars(GcFetch) /\ SF_vars(GcSweep)
            /\ \A a \in Assets : /\ SF_vars(AckTaken /\ cur = a)
                                 /\ SF_vars(PostError /\ cur = a /\ job' # job)

FairSpec == Spec /\ Fairness

-----------------------------------------------------------------------------
(* What the pool serves to peers is whole, whatever the peers and the      *)
(* relay sent, the collector removed and a crash left (lines 1413-1414).   *)
FileIsWhole == \A a \in Assets : file[a] # "bad"

(* The backend counts on a replica only when it is there: through crashes, *)
(* lost acks and sweeps at any moment no file is lost to the collector     *)
(* after, or while, its ack goes out.  Only an asset that was added while  *)
(* a manifest was on its way is at its mercy (lines 1398-1440, 1567-1633). *)
AckedIsStored == \A a \in live \ late : job[a] = "acked" => file[a] = "whole"

(* The loops implement ReplicaContract: no step stores, acknowledges or     *)
(* removes anything else than it allows, whatever is lost or cut off; in   *)
(* particular a file is removed only when its asset has gone, or was added *)
(* while a manifest was on its way (lines 1401-1623).                      *)
Held == {a \in Assets : file[a] = "whole"}
Replica == INSTANCE ReplicaContract WITH status <- job, stored <- Held, exposed <- late
ReplicaSpec == Replica!Spec

(* Every open job of an asset ends, acked or failed or with its asset, in  *)
(* spite of crashes, refused acks and a collector that removes its files.  *)
JobsEnd == \A a \in Assets : job[a] = "open" ~> job[a] # "open"

(* What a deleted asset or an interrupted transfer leaves is collected.    *)
GarbageGoes == \A a \in Assets : job[a] = "gone" ~> file[a] = "none" /\ a \notin tmp
=============================================================================
