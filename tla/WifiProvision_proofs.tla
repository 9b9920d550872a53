------------------------ MODULE WifiProvision_proofs --------------------------
(***************************************************************************)
(* Proofs about WifiProvision, for any number of forms, and about the      *)
(* set-up of a node that begins with it (NodeSetup), for any number of     *)
(* lost identities.  What makes the invariants of the profiles inductive   *)
(* is where in a run a profile may be there: the hotspot between its       *)
(* creation and its teardown, the network's own from the connection on,    *)
(* and no other unless something outside left it.                          *)
(***************************************************************************)
EXTENDS NodeSetup, TLAPS

HotspotUp == {"bind", "serving", "late", "closing", "giveUp", "teardown"}

PlaceOK ==
  /\ radio \in BOOLEAN /\ wired \in BOOLEAN
  /\ profiles \subseteq Profiles
  /\ flag \in BOOLEAN
  /\ pc \in Steps
  /\ stranded \in BOOLEAN

ProfilesAreAccounted ==
  ~stranded =>
    /\ "unusable" \notin profiles
    /\ "hotspot" \in profiles => pc \in HotspotUp
    /\ flag \/ pc \in {"touch", "succeeded"} => "home" \in profiles
    /\ pc = "skipped" => Online

Placed == PlaceOK /\ ProfilesAreAccounted

IInv == FormsOK /\ Placed

LEMMA NoForm == holder = <<>> /\ done = FALSE => FormsOK
<1> SUFFICES ASSUME holder = <<>>, done = FALSE PROVE FormsOK
  OBVIOUS
<1>1. <<>> \in Seq(Forms) /\ Len(<<>>) <= MaxForms
  BY FormsAssumption
<1> QED
  BY <1>1, Zenon DEF FormsOK

LEMMA InitIInv == Init => IInv
<1> SUFFICES ASSUME Init PROVE IInv
  OBVIOUS
<1>1. FormsOK
  BY NoForm, Zenon DEF Init
<1>2. Placed
  BY DEF Init, Placed, PlaceOK, ProfilesAreAccounted, HotspotUp, Steps, Profiles
<1> QED
  BY <1>1, <1>2 DEF IInv

(* The forms change at a start and when one is submitted.                  *)
LEMMA StepForms == FormsOK /\ [Next]_vars => FormsOK'
<1> SUFFICES ASSUME FormsOK, [Next]_vars PROVE FormsOK'
  OBVIOUS
<1>1. CASE Start
  <2>1. holder' = <<>> /\ done' = FALSE
    BY <1>1, Zenon DEF Start
  <2>2. <<>> \in Seq(Forms) /\ Len(<<>>) <= MaxForms
    BY FormsAssumption
  <2> QED
    BY <2>1, <2>2, Zenon DEF FormsOK
<1>2. ASSUME NEW f \in Forms, Submit(f) PROVE FormsOK'
  <2>1. holder \in Seq(Forms) /\ Len(holder) < MaxForms
    BY <1>2 DEF Submit, FormsOK
  <2>2. holder' = Append(holder, f)
    BY <1>2, Zenon DEF Submit
  <2>5. done' \in BOOLEAN
    BY <1>2 DEF Submit, FormsOK
  <2>3. Append(holder, f) \in Seq(Forms) /\ Len(Append(holder, f)) = Len(holder) + 1
    BY <2>1
  <2>4. Append(holder, f) # <<>> /\ Len(Append(holder, f)) <= MaxForms
    BY <2>1, <2>3, FormsAssumption
  <2> QED
    BY <2>2, <2>3, <2>4, <2>5, Zenon DEF FormsOK
<1>3. CASE Run \/ Interrupt \/ Reboot \/ UNCHANGED vars
  <2>1. UNCHANGED <<holder, done>>
    BY <1>3, Zenon DEF Run, Checks, CreateHotspot, Bind, Woken, TimedOut, Shutdown,
       Teardown, Connect, Touch, Interrupt, Reboot, vars, form
  <2> QED
    BY <2>1, Zenon DEF FormsOK
<1> QED
  BY <1>1, <1>2, <1>3 DEF Next

(* Where a profile may be.                                                 *)
LEMMA StepPlaced == Placed /\ [Next]_vars => Placed'
<1> SUFFICES ASSUME Placed, [Next]_vars PROVE Placed'
  OBVIOUS
<1> USE DEF Placed, PlaceOK, ProfilesAreAccounted, HotspotUp, Steps, Profiles, Ended,
    Goto, machine, Online
<1>1. CASE Start
  BY <1>1 DEF Start
<1>2. CASE Checks
  BY <1>2 DEF Checks
<1>3. CASE CreateHotspot
  BY <1>3 DEF CreateHotspot, Adds, FailsToAdd
<1>4. CASE Bind
  BY <1>4 DEF Bind
<1>5. CASE Woken \/ TimedOut
  <2>1. /\ pc = "serving" /\ pc' \in {"late", "closing"}
        /\ UNCHANGED <<radio, wired, profiles, flag, stranded>>
    BY <1>5 DEF Woken, TimedOut
  <2> QED
    BY <2>1
<1>6. CASE Shutdown
  <2>1. CASE stranded'
    BY <1>6, <2>1 DEF Shutdown
  <2>2. CASE ~stranded'
    BY <1>6, <2>2 DEF Shutdown
  <2> QED
    BY <2>1, <2>2
<1>7. CASE Teardown
  <2>1. CASE stranded'
    BY <1>7, <2>1 DEF Teardown, AfterTeardown
  <2>2. CASE ~stranded'
    <3>1. profiles' = profiles \ {"hotspot"} /\ ~stranded
      BY <1>7, <2>2 DEF Teardown
    <3>2. pc' \in {"failed", "connect"} /\ UNCHANGED <<radio, wired, flag, stranded>>
      BY <1>7, <3>1, <2>2 DEF Teardown, AfterTeardown
    <3> QED
      BY <1>7, <3>1, <3>2
  <2> QED
    BY <2>1, <2>2
<1>8. CASE Connect
  BY <1>8 DEF Connect, Adds, FailsToAdd
<1>9. CASE Touch
  BY <1>9 DEF Touch
<1>10. CASE Interrupt
  BY <1>10 DEF Interrupt
<1>11. CASE Reboot
  BY <1>11 DEF Reboot
<1>12. ASSUME NEW f \in Forms, Submit(f) PROVE Placed'
  BY <1>12 DEF Submit
<1>13. CASE UNCHANGED vars
  BY <1>13 DEF vars
<1> QED
  BY <1>1, <1>2, <1>3, <1>4, <1>5, <1>6, <1>7, <1>8, <1>9, <1>10, <1>11, <1>12, <1>13
  DEF Next, Run

LEMMA AlwaysIInv == Spec => []IInv
  BY InitIInv, StepForms, StepPlaced, PTL DEF Spec, IInv

(* The states of a run, its profiles and its forms stay within their types *)
(* (wifi_provision.py 375-481).                                            *)
THEOREM TypeCorrect == Spec => []TypeOK
<1>1. IInv => TypeOK
  BY DEF IInv, Placed, PlaceOK, TypeOK
<1> QED
  BY <1>1, AlwaysIInv, PTL

(* No run skips for good a node that has no network, unless something      *)
(* outside left a profile behind (lines 383-393, 466-476).                 *)
THEOREM SkipMeansOnlineHolds == Spec => []SkipMeansOnline
<1>1. IInv => SkipMeansOnline
  BY DEF IInv, Placed, ProfilesAreAccounted, SkipMeansOnline, Online
<1> QED
  BY <1>1, AlwaysIInv, PTL

(* No run leaves its hotspot, with the same proviso (lines 433, 442, 452). *)
THEOREM HotspotGoesHolds == Spec => []HotspotGoes
<1>1. IInv => HotspotGoes
  BY DEF IInv, Placed, PlaceOK, ProfilesAreAccounted, HotspotGoes, Steps, HotspotUp, Ended
<1> QED
  BY <1>1, AlwaysIInv, PTL

-----------------------------------------------------------------------------
(* The set-up of a node. *)

LEMMA SetupStepIsWifiStep == [SetupNext]_allVars => [Next]_vars
<1> SUFFICES ASSUME [SetupNext]_allVars PROVE [Next]_vars
  OBVIOUS
<1>1. CASE WifiRun
  BY <1>1 DEF WifiRun, Next
<1>2. CASE WifiStops
  BY <1>2 DEF WifiStops, Next
<1>3. CASE UNCHANGED vars
  BY <1>3
<1> QED
  BY <1>1, <1>2, <1>3 DEF SetupNext, allVars, vars

(* Wizard and agent leave the network as it is: every set-up is a run of   *)
(* WifiProvision (provisioner.py and agent.py call no nmcli).              *)
THEOREM SetupImplementsWifi == SetupSpec => Spec
<1>1. SetupInit => Init
  BY DEF SetupInit
<1> QED
  BY <1>1, SetupStepIsWifiStep, PTL DEF SetupSpec, Spec

(* So no run of the Wi-Fi provisioner skips a node that has no network,    *)
(* also when wizard and agent follow it.                                   *)
THEOREM SetupSkipMeansOnline == SetupSpec => []SkipMeansOnline
  BY SetupImplementsWifi, SkipMeansOnlineHolds, PTL

(* What each state of the agent says about the identities: all but one of  *)
(* those registered were lost, and that one is in the state file, or in    *)
(* the memory of an agent that is about to save it.                        *)
NodesAreCounted ==
  /\ saved \in Nat /\ id \in Nat /\ registered \in Nat /\ wasted \in Nat
  /\ agent \in {"off", "down", "givenUp", "waiting", "posting"} =>
       registered = IF saved = 0 THEN wasted ELSE wasted + 1
  /\ agent = "waiting" => id = saved
  /\ agent \in {"posting", "answered"} => saved = 0
  /\ agent \in {"answered", "up"} => id # 0 /\ registered = wasted + 1
  /\ agent = "up" => id = saved
  /\ agent \in {"off", "down", "givenUp", "waiting", "posting", "answered", "up"}

(* An agent that ends, or is ended, loses what it has not saved.           *)
LEMMA LeaveCounts ==
  ASSUME NodesAreCounted, NEW to \in {"off", "down", "givenUp"}, Leave(to)
  PROVE  NodesAreCounted'
  BY DEF NodesAreCounted, Leave

LEMMA SetupStepCounts == NodesAreCounted /\ [SetupNext]_allVars => NodesAreCounted'
<1> SUFFICES ASSUME NodesAreCounted, [SetupNext]_allVars PROVE NodesAreCounted'
  OBVIOUS
<1>1. CASE UNCHANGED <<agent, nodes>>
  BY <1>1 DEF NodesAreCounted, nodes
<1>2. ASSUME NEW to \in {"off", "down", "givenUp"}, Leave(to) PROVE NodesAreCounted'
  BY <1>2, LeaveCounts
<1>3. CASE Exit
  BY <1>2, <1>3 DEF Exit
<1>4. CASE WifiStops
  BY <1>1, <1>2, <1>4 DEF WifiStops
<1>5. CASE WizardStart \/ (\E updates \in SUBSET Asked : Save(updates)) \/ WizardEnds
  BY <1>1, <1>5 DEF WizardStart, Save, WizardEnds
<1>6. CASE Answer
  BY <1>1, <1>2, <1>6 DEF Answer
<1>7. CASE AgentStarts
  BY <1>7 DEF AgentStarts, MayStart, NodesAreCounted
<1>8. CASE AgentRejects \/ RegisterRefused \/ AgentFails
  BY <1>3, <1>8 DEF AgentRejects, RegisterRefused, AgentFails
<1>9. CASE BackendIsThere
  BY <1>9 DEF BackendIsThere, NodesAreCounted, nodes
<1>10. CASE BackendIsNot
  BY <1>2, <1>10 DEF BackendIsNot
<1>11. CASE Register \/ RegisterUnanswered
  BY <1>11 DEF Register, RegisterUnanswered, NodesAreCounted
<1>12. CASE SaveIdentity
  BY <1>12 DEF SaveIdentity, NodesAreCounted
<1>13. CASE StateIsLost
  BY <1>13 DEF StateIsLost, NodesAreCounted
<1>14. CASE UNCHANGED setupVars
  BY <1>1, <1>14 DEF setupVars, nodes
<1> QED
  BY <1>4, <1>5, <1>6, <1>7, <1>8, <1>9, <1>10, <1>11, <1>12, <1>13, <1>14
  DEF SetupNext, SetupStep, allVars

(* However agent and power fail, and whatever is lost, a machine that keeps *)
(* its identity is registered once (agent.py 119-168, state.py 46-117).    *)
THEOREM EnrolledOnceHolds == SetupSpec => []EnrolledOnce
<1>1. SetupInit => NodesAreCounted
  BY DEF SetupInit, NodesAreCounted
<1>2. NodesAreCounted => EnrolledOnce
  BY DEF NodesAreCounted, EnrolledOnce
<1> QED
  BY <1>1, <1>2, SetupStepCounts, PTL DEF SetupSpec
===============================================================================
