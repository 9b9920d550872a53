------------------------------ MODULE NodeSetup -------------------------------
(***************************************************************************)
(* How a node gets from its first boot to an enrolled agent: the WiFi      *)
(* provisioner (WifiProvision), then the setup wizard that fills in        *)
(* agent.env (provisioner.py), then the agent, which validates agent.env   *)
(* (__main__.py, config.py), loads its identity (state.py) and enrolls     *)
(* when it has none (agent.py).  systemd starts them in this order, starts *)
(* the agent again when it exits, and gives it up when it exits too often. *)
(***************************************************************************)
EXTENDS WifiProvision

CONSTANTS
  MaxWasted,     \* bound: identities that are lost
  Asked          \* bound: the fields of agent.env that anybody fills in

VARIABLES
  env,           \* agent.env
  typo,          \* agent.env holds a number that is none
  wizard,        \* where provision() is
  agent,         \* where the agent is
  saved,         \* the identity in the state file, 0 if there is none
  id,            \* the identity in the agent's memory
  registered,    \* the dispatcher: nodes it has registered for this machine
  wasted         \* history: registered identities that were lost

setupVars == <<env, typo, wizard, agent, saved, id, registered, wasted>>
config == <<env, typo>>
nodes == <<saved, id, registered, wasted>>
allVars == <<vars, setupVars>>

Required == {"HADCD_API", "ENROLLMENT_TOKENS", "NODE_NAME"}
Fields == Required \cup {"HA_TOKEN", "HA_ENTITY_ID"}

ASSUME SetupAssumption == MaxWasted \in Nat /\ Asked \subseteq Fields

SetupTypeOK ==
  /\ TypeOK
  /\ env \in [Fields -> {"", "placeholder", "given"}]
  /\ typo \in BOOLEAN
  /\ wizard \in {"off", "serving", "answering", "skipped", "over"}
  /\ agent \in {"off", "down", "givenUp", "waiting", "posting", "answered", "up"}
  /\ {saved, id, registered, wasted} \subseteq Nat

(* config.env.example: every required field has a value that is none.      *)
Template == [f \in Fields |-> IF f \in Required THEN "placeholder" ELSE ""]
NoFile == [f \in Fields |-> ""]

Fill(file, updates) == [f \in Fields |-> IF f \in updates THEN "given" ELSE file[f]]

(* install-agent.sh copies the template and fills in what it is told to.   *)
SetupInit ==
  /\ Init
  /\ env \in {NoFile} \cup {Fill(Template, told) : told \in SUBSET (Required \cap Asked)}
  /\ typo = FALSE
  /\ wizard = "off" /\ agent = "off"
  /\ saved = 0 /\ id = 0 /\ registered = 0 /\ wasted = 0

-----------------------------------------------------------------------------
(* The wizard.  BMS_SOURCE is homeassistant once a token was given.        *)

HeatSourceBuilds == env["HA_TOKEN"] # "" => env["HA_ENTITY_ID"] # ""

(* Mutation: only the required fields are looked at. *)
HasRequired == \A f \in Required : env[f] # ""

IsConfigured == HasRequired /\ HeatSourceBuilds

(* At boot, after the WiFi provisioner; later when the operator wants it.  *)
WizardStart ==
  /\ pc \in Ended /\ wizard \in {"off", "skipped", "over"}
  /\ wizard' = IF IsConfigured THEN "skipped" ELSE "serving"
  /\ UNCHANGED <<config, agent, nodes>>

(* A form with the setup code and without control characters, from a phone *)
(* in the same network.  Empty fields keep what the file, or the template, *)
(* has; numbers are not looked at.                                         *)
Save(updates) ==
  /\ wizard = "serving" /\ Online
  /\ env' = Fill(IF env = NoFile THEN Template ELSE env, updates)
  /\ typo' \in BOOLEAN
  /\ wizard' = "answering"
  /\ UNCHANGED <<agent, nodes>>

Leave(to) ==
  /\ agent' = to
  /\ id' = 0
  /\ wasted' = IF agent = "answered" THEN wasted + 1 ELSE wasted
  /\ agent = "answered" => wasted < MaxWasted
  /\ UNCHANGED <<saved, registered>>

(* systemctl restart is started; a phone that has gone before its page is  *)
(* written keeps the wizard open.                                          *)
Answer ==
  /\ wizard = "answering"
  /\ wizard' \in {"over", "serving"}
  /\ \/ agent \in {"off", "givenUp"} /\ UNCHANGED <<agent, nodes>>
     \/ agent # "off" /\ Leave("down")
  /\ UNCHANGED config

(* Its 15 minutes are over, or systemd's; a form that was just written     *)
(* does not restart the agent then.                                        *)
WizardEnds ==
  /\ wizard \in {"serving", "answering"}
  /\ wizard' = "over"
  /\ UNCHANGED <<config, agent, nodes>>

-----------------------------------------------------------------------------
(* The agent.  A fast exit may be the fifth in two minutes.                *)

Exit == Leave("down") \/ Leave("givenUp")

Loads == ~typo /\ HeatSourceBuilds /\ (saved # 0 \/ env["ENROLLMENT_TOKENS"] # "")

MayStart == agent \in {"off", "down"} /\ wizard \in {"skipped", "over"} /\ pc \in Ended

(* Mutation: the state file is not loaded. *)
StartAfresh ==
  /\ MayStart /\ Loads
  /\ agent' = "waiting"
  /\ id' = 0
  /\ UNCHANGED <<config, wizard, saved, registered, wasted>>

AgentStarts ==
  /\ MayStart /\ Loads
  /\ agent' = "waiting"
  /\ id' = saved
  /\ UNCHANGED <<config, wizard, saved, registered, wasted>>

AgentRejects ==
  /\ MayStart /\ ~Loads
  /\ Exit
  /\ UNCHANGED <<config, wizard>>

(* _wait_for_backend, and ensure_enrolled when there is an identity.       *)
BackendIsThere ==
  /\ agent = "waiting" /\ Online /\ env["HADCD_API"] = "given"
  /\ agent' = IF id # 0 THEN "up" ELSE "posting"
  /\ UNCHANGED <<config, wizard, nodes>>

BackendIsNot ==
  /\ agent = "waiting"
  /\ Leave("down")
  /\ UNCHANGED <<config, wizard>>

(* The answer's identity goes to memory first.                             *)
Register ==
  /\ agent = "posting" /\ Online /\ env["ENROLLMENT_TOKENS"] = "given"
  /\ registered <= MaxWasted + 1
  /\ registered' = registered + 1
  /\ id' = registered + 1 /\ agent' = "answered"
  /\ UNCHANGED <<config, wizard, saved, wasted>>

RegisterUnanswered ==
  /\ agent = "posting" /\ Online /\ env["ENROLLMENT_TOKENS"] = "given"
  /\ wasted < MaxWasted /\ wasted' = wasted + 1
  /\ registered' = registered + 1
  /\ agent' = "down"
  /\ UNCHANGED <<config, wizard, saved, id>>

RegisterRefused ==
  /\ agent = "posting"
  /\ Exit
  /\ UNCHANGED <<config, wizard>>

SaveIdentity ==
  /\ agent = "answered"
  /\ saved' = id
  /\ agent' = "up"
  /\ UNCHANGED <<config, wizard, id, registered, wasted>>

(* Killed, frozen, or the state file cannot be written. *)
AgentFails ==
  /\ agent \in {"waiting", "posting", "answered", "up"}
  /\ Exit
  /\ UNCHANGED <<config, wizard>>

(* A state file that cannot be read is no identity (external: the disk).   *)
StateIsLost ==
  /\ agent \in {"off", "down", "givenUp"} /\ saved # 0
  /\ wasted < MaxWasted /\ wasted' = wasted + 1
  /\ saved' = 0
  /\ UNCHANGED <<config, wizard, agent, id, registered>>

-----------------------------------------------------------------------------
WifiRun == Start \/ Run \/ \E f \in Forms : Submit(f)

(* Power goes: the wizard and the agent go with it.                        *)
WifiStops ==
  /\ Interrupt \/ Reboot
  /\ IF pc' = "off" THEN wizard' = "off" /\ Leave("off") ELSE UNCHANGED <<wizard, agent, nodes>>
  /\ UNCHANGED config

SetupStep ==
  \/ WizardStart \/ (\E updates \in SUBSET Asked : Save(updates)) \/ Answer \/ WizardEnds
  \/ AgentStarts \/ AgentRejects \/ BackendIsThere \/ BackendIsNot
  \/ Register \/ RegisterUnanswered \/ RegisterRefused \/ SaveIdentity
  \/ AgentFails \/ StateIsLost

SetupNext ==
  \/ WifiRun /\ UNCHANGED setupVars
  \/ WifiStops
  \/ SetupStep /\ UNCHANGED vars

SetupSpec == SetupInit /\ [][SetupNext]_allVars

(* systemd does its part, and what is tried again and again works some time.*)
SetupFairness ==
  /\ WF_allVars((WizardStart /\ wizard = "off") /\ UNCHANGED vars)
  /\ WF_allVars((Answer \/ WizardEnds) /\ UNCHANGED vars)
  /\ SF_allVars((AgentStarts \/ AgentRejects) /\ UNCHANGED vars)
  /\ SF_allVars(BackendIsThere /\ UNCHANGED vars)
  /\ SF_allVars(Register /\ UNCHANGED vars)
  /\ SF_allVars(SaveIdentity /\ UNCHANGED vars)
FairSetupSpec == SetupSpec /\ SetupFairness

-----------------------------------------------------------------------------
(* A machine is registered once, but for identities that were lost before  *)
(* they were saved, or later with the state file; and an agent that is up  *)
(* has the identity of its state file (agent.py 119-168, state.py 46-117). *)
EnrolledOnce ==
  /\ registered <= 1 + wasted
  /\ agent = "up" => id # 0 /\ id = saved

(* The wizard closes for good only on a node that gets by without it: once *)
(* the dispatcher's address and a token are given and no number is none,   *)
(* the agent comes up, unless systemd has given up an agent that could     *)
(* start, or the node has no network (provisioner.py 115-170, __main__.py  *)
(* 63-90).                                                                 *)
Settled ==
  /\ wizard = "skipped" \/ (wizard = "over" /\ IsConfigured)
  /\ env["HADCD_API"] = "given" /\ env["ENROLLMENT_TOKENS"] = "given"
  /\ ~typo

ConfiguredComesUp ==
  Settled ~> \/ agent = "up" \/ (agent = "givenUp" /\ Loads)
             \/ ~Online \/ wizard = "serving" \/ pc \notin Ended
=============================================================================
