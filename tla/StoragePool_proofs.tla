-------------------------- MODULE StoragePool_proofs ---------------------------
(* Theorems about StoragePool and its server, for any set of assets. *)
EXTENDS ServedPool, TLAPS

(* A transfer in progress is one of an asset. *)
TInv == TypeOK /\ (phase # "idle" => cur \in Assets)

LEMMA InitType == Init => TInv
<1> SUFFICES ASSUME Init PROVE TInv
  OBVIOUS
<1> USE StorageAssumption DEF Init
<1>1. live \subseteq Assets
  OBVIOUS
<1>2. job \in [Assets -> {"none", "open", "acked", "failed", "gone"}]
  OBVIOUS
<1>3. file \in [Assets -> {"none", "whole", "bad"}]
  OBVIOUS
<1>4. crashes \in 0..MaxCrashes
  OBVIOUS
<1> QED
  BY <1>1, <1>2, <1>3, <1>4 DEF TInv, TypeOK, Phases

LEMMA StepType == TInv /\ [Next]_vars => TInv'
<1> SUFFICES ASSUME TInv, [Next]_vars PROVE TInv'
  OBVIOUS
<1> USE StorageAssumption DEF TInv, TypeOK, Phases, backend, pool
<1>1. CASE Poll
  BY <1>1 DEF Poll
<1>2. ASSUME NEW a \in Assets, Begin(a) PROVE TInv'
  BY <1>2 DEF Begin
<1>3. CASE PeerRefuses \/ Open
  BY <1>3 DEF PeerRefuses, Open
<1>4. CASE PeerEnds \/ RelayEnds
  BY <1>4 DEF PeerEnds, RelayEnds, Stored, NotStored
<1>5. CASE AckTaken
  BY <1>5 DEF AckTaken, Acking, Report, Done
<1>6. CASE AckRefused
  BY <1>6 DEF AckRefused, Done
<1>7. CASE AckRaises
  BY <1>7 DEF AckRaises, Acking, Report, Done
<1>8. CASE PostError
  BY <1>8 DEF PostError, Report, Done
<1>9. CASE GcFetch
  BY <1>9 DEF GcFetch
<1>15. CASE GcFails
  BY <1>15 DEF GcFails
<1>10. CASE GcSweep
  <2>1. file' \in [Assets -> {"none", "whole", "bad"}]
    BY <1>10 DEF GcSweep
  <2> QED
    BY <1>10, <2>1 DEF GcSweep
<1>11. CASE Crash
  <2>1. crashes' \in 0..MaxCrashes
    BY <1>11 DEF Crash
  <2> QED
    BY <1>11, <2>1 DEF Crash
<1>12. ASSUME NEW a \in Assets, DeleteAsset(a) PROVE TInv'
  BY <1>12 DEF DeleteAsset
<1>13. ASSUME NEW a \in Assets, AddAsset(a) PROVE TInv'
  BY <1>13 DEF AddAsset
<1>14. CASE UNCHANGED vars
  BY <1>14 DEF vars
<1> QED
  BY <1>1, <1>2, <1>3, <1>4, <1>5, <1>6, <1>7, <1>8, <1>9, <1>10, <1>11,
     <1>12, <1>13, <1>14, <1>15 DEF Next, Transfer

LEMMA TypeInvariance == Spec => []TInv
  BY InitType, StepType, PTL DEF Spec

(* Jobs, files and staging files keep their types, whatever fails. *)
THEOREM TypeCorrect == Spec => []TypeOK
<1>1. TInv => TypeOK
  BY DEF TInv
<1> QED
  BY <1>1, TypeInvariance, PTL

(* No file of the pool is ever bad: bytes reach their place only behind    *)
(* their hash, from whichever source, with the collector at work beside.   *)
THEOREM FileIsWholeHolds == Spec => []FileIsWhole
<1>1. Init => FileIsWhole
  BY DEF Init, FileIsWhole
<1>2. TInv /\ FileIsWhole /\ [Next]_vars => FileIsWhole'
  <2> SUFFICES ASSUME TInv, FileIsWhole, [Next]_vars PROVE FileIsWhole'
    OBVIOUS
  <2> USE DEF TInv, TypeOK, FileIsWhole, backend, pool
  <2>1. CASE PeerEnds \/ RelayEnds
    BY <2>1 DEF PeerEnds, RelayEnds, Stored, NotStored
  <2>2. CASE GcSweep
    BY <2>2 DEF GcSweep
  <2>3. CASE UNCHANGED file
    BY <2>3
  <2> QED
    BY <2>1, <2>2, <2>3 DEF Next, Transfer, Poll, Begin, PeerRefuses, Open, AckTaken,
       AckRefused, AckRaises, PostError, GcFetch, GcFails, Crash, DeleteAsset, AddAsset, vars
<1> QED
  BY <1>1, <1>2, TypeInvariance, PTL DEF Spec

-----------------------------------------------------------------------------
(* What the acks of a node rest on: a manifest lacks no live asset but the *)
(* late ones, so the collector takes nothing else that will be acked.      *)
AckInv ==
  /\ FileIsWhole
  /\ manifest # None => live \ late \subseteq manifest
  /\ Acking /\ cur \in live \ late => file[cur] = "whole"
  /\ \A a \in Assets : job[a] = "none" => a \notin queue /\ cur # a
  /\ AckedIsStored

LEMMA StepAck ==
  ASSUME TInv, AckInv, FileIsWhole', [Next]_vars
  PROVE  AckInv'
<1> USE StorageAssumption DEF TInv, TypeOK, Phases, AckInv, AckedIsStored, Acking, backend, pool
<1>1. CASE Poll
  BY <1>1 DEF Poll, FileIsWhole
<1>2. ASSUME NEW a \in Assets, Begin(a) PROVE AckInv'
  BY <1>2 DEF Begin, FileIsWhole
<1>3. CASE PeerRefuses \/ Open
  BY <1>3 DEF PeerRefuses, Open
<1>4. CASE PeerEnds \/ RelayEnds
  BY <1>4 DEF PeerEnds, RelayEnds, Stored, NotStored
<1>5. CASE AckTaken
  BY <1>5 DEF AckTaken, Report, Done
<1>6. CASE AckRefused
  BY <1>6 DEF AckRefused, Done
<1>7. CASE AckRaises
  BY <1>7 DEF AckRaises, Report, Done
<1>8. CASE PostError
  BY <1>8 DEF PostError, Report, Done
<1>9. CASE GcFetch
  BY <1>9 DEF GcFetch
<1>15. CASE GcFails
  BY <1>15 DEF GcFails
<1>10. CASE GcSweep
  BY <1>10 DEF GcSweep
<1>11. CASE Crash
  BY <1>11 DEF Crash
<1>12. ASSUME NEW a \in Assets, DeleteAsset(a) PROVE AckInv'
  BY <1>12 DEF DeleteAsset
<1>13. ASSUME NEW a \in Assets, AddAsset(a) PROVE AckInv'
  BY <1>13 DEF AddAsset
<1>14. CASE UNCHANGED vars
  BY <1>14 DEF vars
<1> QED
  BY <1>1, <1>2, <1>3, <1>4, <1>5, <1>6, <1>7, <1>8, <1>9, <1>10, <1>11,
     <1>12, <1>13, <1>14, <1>15 DEF Next, Transfer

LEMMA AckInvariance == Spec => []AckInv
<1>1. Init => AckInv
  BY StorageAssumption DEF Init, AckInv, FileIsWhole, AckedIsStored, Acking
<1>2. TInv /\ AckInv /\ FileIsWhole' /\ [Next]_vars => AckInv'
  BY StepAck
<1> QED
  BY <1>1, <1>2, TypeInvariance, FileIsWholeHolds, PTL DEF Spec

(* A replica the backend counts on is there, through crashes, lost acks    *)
(* and sweeps at any moment, unless its asset was added while a manifest   *)
(* was on its way.                                                         *)
THEOREM AckedIsStoredHolds == Spec => []AckedIsStored
<1>1. AckInv => AckedIsStored
  BY DEF AckInv
<1> QED
  BY <1>1, AckInvariance, PTL

-----------------------------------------------------------------------------
(* An asset exists from its placement until it goes, and only placed ones  *)
(* are held.                                                               *)
PlacedInv ==
  /\ live = {a \in Assets : job[a] \in {"open", "acked", "failed"}}
  /\ \A a \in Held : job[a] # "none"

LEMMA PlacedStep == TInv /\ AckInv /\ PlacedInv /\ [Next]_vars => PlacedInv'
<1> SUFFICES ASSUME TInv, AckInv, PlacedInv, [Next]_vars PROVE PlacedInv'
  OBVIOUS
<1> USE DEF TInv, TypeOK, PlacedInv, Held, backend, pool
<1>1. ASSUME NEW a \in Assets, DeleteAsset(a) PROVE PlacedInv'
  BY <1>1 DEF DeleteAsset
<1>2. ASSUME NEW a \in Assets, AddAsset(a) PROVE PlacedInv'
  BY <1>2 DEF AddAsset
<1>3. ASSUME live' = live, file' = file, job' = job \/ Report("acked") \/ Report("failed")
      PROVE  PlacedInv'
  BY <1>3 DEF Report
<1>4. CASE PeerEnds \/ RelayEnds
  <2>1. cur \in Assets /\ job[cur] # "none"
    BY <1>4 DEF PeerEnds, RelayEnds, AckInv
  <2> QED
    BY <1>4, <2>1 DEF PeerEnds, RelayEnds, Stored, NotStored
<1>5. CASE GcSweep
  BY <1>5 DEF GcSweep
<1> QED
  BY <1>1, <1>2, <1>3, <1>4, <1>5 DEF Next, Transfer, Poll, Begin, PeerRefuses, Open,
     AckTaken, AckRefused, AckRaises, PostError, GcFetch, GcFails, Crash, vars

(* What the backend is told: an ack of what is held, or an error.          *)
LEMMA ReportIsContract ==
  ASSUME TInv, AckInv, PlacedInv, (Acking /\ Report("acked")) \/ Report("failed"),
         cur \in Assets, UNCHANGED <<late, file>>
  PROVE  [Replica!Next]_(Replica!vars)
<1> USE DEF TInv, TypeOK, PlacedInv
<1>1. UNCHANGED Held
  BY DEF Held
<1>2. CASE cur \in live /\ job[cur] = "open" /\ Report("acked") /\ Acking
  <2>1. cur \in Held \cup late
    BY <1>2 DEF AckInv, Held
  <2>2. Replica!Ack(cur)
    BY <1>1, <1>2, <2>1 DEF Replica!Ack, Report
  <2> QED
    BY <2>2 DEF Replica!Next
<1>3. CASE cur \in live /\ job[cur] = "open" /\ Report("failed")
  <2>1. Replica!Fail(cur)
    BY <1>1, <1>3 DEF Replica!Fail, Report
  <2> QED
    BY <2>1 DEF Replica!Next
<1>4. CASE ~(cur \in live /\ job[cur] = "open")
  BY <1>1, <1>4 DEF Report, Replica!vars
<1> QED
  BY <1>2, <1>3, <1>4

(* The file that takes its place is one of an asset that was placed.       *)
LEMMA StoreIsContract ==
  ASSUME TInv, AckInv, phase # "idle", NEW content, Stored(content), UNCHANGED backend
  PROVE  [Replica!Next]_(Replica!vars)
<1> USE DEF TInv, TypeOK, backend
<1>1. cur \in Assets /\ job[cur] # "none"
  BY DEF AckInv
<1>2. Held' = Held \cup {cur}
  BY <1>1 DEF Stored, Held
<1>3. Replica!Store(cur)
  BY <1>1, <1>2 DEF Replica!Store
<1> QED
  BY <1>1, <1>3 DEF Replica!Next

(* The sweep takes no file but of assets that have gone, or of late ones.  *)
LEMMA SweepIsContract ==
  ASSUME TInv, AckInv, PlacedInv, GcSweep
  PROVE  [Replica!Next]_(Replica!vars)
<1> USE DEF TInv, TypeOK
<1> DEFINE some == {a \in Held : a \notin manifest}
<1>1. Held' = Held \ some
  BY DEF GcSweep, Held
<1>2. \A a \in some : job[a] = "gone" \/ a \in late
  <2> SUFFICES ASSUME NEW a \in Held, a \notin manifest, a \notin late PROVE job[a] = "gone"
    OBVIOUS
  <2>1. a \in Assets /\ a \notin live
    BY DEF GcSweep, AckInv, Held
  <2>2. job[a] # "none"
    BY DEF PlacedInv
  <2> QED
    BY <2>1, <2>2 DEF PlacedInv
<1>3. Replica!Remove(some) /\ some \in SUBSET Assets
  BY <1>1, <1>2 DEF Replica!Remove, GcSweep, backend, Held
<1> HIDE DEF some
<1> QED
  BY <1>3 DEF Replica!Next

LEMMA ReplicaStep ==
  ASSUME TInv, AckInv, PlacedInv, [Next]_vars
  PROVE  [Replica!Next]_(Replica!vars)
<1> USE DEF TInv, TypeOK, backend, pool
<1>1. ASSUME UNCHANGED <<job, file, late>> PROVE [Replica!Next]_(Replica!vars)
  BY <1>1 DEF Replica!vars, Held
<1>2. ASSUME NEW a \in Assets, DeleteAsset(a) PROVE [Replica!Next]_(Replica!vars)
  <2>1. Replica!Withdraw(a)
    BY <1>2 DEF DeleteAsset, Replica!Withdraw, PlacedInv, Held
  <2> QED
    BY <2>1 DEF Replica!Next
<1>3. ASSUME NEW a \in Assets, AddAsset(a) PROVE [Replica!Next]_(Replica!vars)
  <2>1. Replica!Place(a)
    BY <1>3 DEF AddAsset, Replica!Place, Held
  <2> QED
    BY <2>1 DEF Replica!Next
<1>4. CASE PeerEnds \/ RelayEnds
  <2>1. PICK content : Stored(content) \/ NotStored(content)
    BY <1>4 DEF PeerEnds, RelayEnds
  <2>2. CASE Stored(content)
    BY <1>4, <2>2, StoreIsContract DEF PeerEnds, RelayEnds
  <2>3. CASE NotStored(content)
    BY <1>1, <1>4, <2>3 DEF PeerEnds, RelayEnds, NotStored
  <2> QED
    BY <2>1, <2>2, <2>3
<1>5. CASE AckTaken
  BY <1>5, ReportIsContract DEF AckTaken, Acking
<1>6. CASE AckRaises
  BY <1>1, <1>6, ReportIsContract DEF AckRaises, Acking
<1>7. CASE PostError
  BY <1>1, <1>7, ReportIsContract DEF PostError
<1>8. CASE GcSweep
  BY <1>8, SweepIsContract
<1> QED
  BY <1>1, <1>2, <1>3, <1>4, <1>5, <1>6, <1>7, <1>8 DEF Next, Transfer, Poll, Begin,
     PeerRefuses, Open, AckRefused, GcFetch, GcFails, Crash, vars

(* The transfer and the sweep implement ReplicaContract: for any assets,   *)
(* faults and crashes nothing is removed but what has gone or was exposed, *)
(* and nothing is acknowledged that is not held.                           *)
THEOREM ReplicaHolds == Spec => ReplicaSpec
<1>1. Init => PlacedInv /\ Replica!Init
  BY DEF Init, PlacedInv, Held, Replica!Init
<1> QED
  BY <1>1, TypeInvariance, AckInvariance, PlacedStep, ReplicaStep, PTL
     DEF Spec, ReplicaSpec, Replica!Spec

-----------------------------------------------------------------------------
(* The server only looks at the pool: every theorem about the pool is one  *)
(* about the served pool.                                                  *)
THEOREM ServedImplementsPool == ServedSpec => Spec
<1>1. ServedInit => Init
  BY DEF ServedInit
<1>2. [ServedNext]_allVars => [Next]_vars
  BY DEF ServedNext, allVars, Next
<1> QED
  BY <1>1, <1>2, PTL DEF ServedSpec, Spec

(* What the server has announced, and what it reads, are whole files.      *)
ServerInv ==
  /\ ServerTypeOK
  /\ reply # "idle" => request \in Asked
  /\ reply \in {"announced", "sending"} => size = "whole"
  /\ PeersGetWhole

LEMMA ServerStep == TInv /\ FileIsWhole /\ ServerInv /\ [ServedNext]_allVars => ServerInv'
<1> SUFFICES ASSUME TInv, FileIsWhole, ServerInv, [ServedNext]_allVars PROVE ServerInv'
  OBVIOUS
<1> USE AskedAssumption DEF ServerInv, ServerTypeOK, PeersGetWhole, Contents
<1>1. ASSUME NEW a \in Asked, Request(a) PROVE ServerInv'
  BY <1>1 DEF Request
<1>2. CASE Announce
  <2>1. file[request] \in {"none", "whole"}
    BY <1>2 DEF Announce, FileIsWhole, TInv, TypeOK
  <2> QED
    BY <1>2, <2>1 DEF Announce, Finish
<1>3. CASE OpenFile
  <2>1. file[request] \in {"none", "whole"}
    BY <1>3 DEF OpenFile, FileIsWhole, TInv, TypeOK
  <2> QED
    BY <1>3, <2>1 DEF OpenFile, Finish
<1>4. CASE SendAll \/ Finish
  BY <1>4 DEF SendAll, Finish
<1>5. CASE UNCHANGED serverVars
  BY <1>5 DEF serverVars
<1> QED
  BY <1>1, <1>2, <1>3, <1>4, <1>5 DEF ServedNext, Server, allVars

(* Peers get whole files, for any assets, crashes and moment of a sweep.   *)
THEOREM PeersGetWholeHolds == ServedSpec => []PeersGetWhole
<1>1. ServedInit => ServerInv
  BY DEF ServedInit, Quiet, ServerInv, ServerTypeOK, PeersGetWhole, Contents
<1>2. ServerInv => PeersGetWhole
  BY DEF ServerInv
<1> QED
  BY <1>1, <1>2, ServerStep, ServedImplementsPool, TypeInvariance, FileIsWholeHolds, PTL
     DEF ServedSpec

(* So does the pool beside its server. *)
THEOREM ServedReplicaHolds == ServedSpec => ReplicaSpec
  BY ServedImplementsPool, ReplicaHolds, PTL
=============================================================================
