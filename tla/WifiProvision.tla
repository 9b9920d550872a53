---------------------------- MODULE WifiProvision -----------------------------
(***************************************************************************)
(* The captive-portal provisioner (wifi_provision.py): on a node without a *)
(* network it opens a hotspot, takes the WiFi's name and password from a   *)
(* form, closes the hotspot and connects.  systemd runs it at every boot,  *)
(* and the operator again after a failure.  It shares NetworkManager's     *)
(* connection profiles with every run before and after it.                 *)
(***************************************************************************)
EXTENDS Naturals, Sequences

CONSTANT MaxForms        \* bound: forms the operator submits in one run

ASSUME FormsAssumption == MaxForms \in Nat

Forms == {"right", "wrong"}
Profiles == {"hotspot", "home", "unusable"}

VARIABLES
  radio,         \* the machine has WiFi hardware
  wired,         \* its ethernet is connected
  profiles,      \* NetworkManager's WiFi profiles
  flag,          \* PROVISIONED_FLAG
  pc,            \* what provision() does next
  holder,        \* result_holder
  done,          \* the event that is set once a form has been answered
  stranded       \* history: something outside left a profile that is no use

vars == <<radio, wired, profiles, flag, pc, holder, done, stranded>>
machine == <<radio, wired>>
form == <<holder, done>>

Steps == {"off", "checks", "hotspot", "bind", "serving", "late", "closing",
          "giveUp", "teardown", "connect", "touch",
          "skipped", "noRadio", "failed", "succeeded"}
Ended == {"skipped", "noRadio", "failed", "succeeded"}

FormsOK ==
  /\ holder \in Seq(Forms) /\ Len(holder) <= MaxForms
  /\ done \in BOOLEAN /\ (done => holder # <<>>)

TypeOK ==
  /\ radio \in BOOLEAN /\ wired \in BOOLEAN
  /\ profiles \subseteq Profiles
  /\ flag \in BOOLEAN
  /\ pc \in Steps
  /\ FormsOK
  /\ stranded \in BOOLEAN

Init ==
  /\ radio \in BOOLEAN /\ wired \in BOOLEAN
  /\ profiles = {} /\ flag = FALSE
  /\ pc = "off" /\ holder = <<>> /\ done = FALSE
  /\ stranded = FALSE

Online == wired \/ "home" \in profiles

Goto(step) == pc' = step

-----------------------------------------------------------------------------
(* NetworkManager (external): a command works, or fails, or does not       *)
(* answer in time, and then subprocess.run raises what nobody catches.     *)
(* One that adds a profile may leave it there when it fails.               *)
Adds(p) == profiles' = profiles \cup {p} /\ UNCHANGED stranded

FailsToAdd(p, before) ==
  \/ profiles' = before /\ UNCHANGED stranded
  \/ profiles' = before \cup {p} /\ stranded' = TRUE

-----------------------------------------------------------------------------
(* systemd at a boot, where the cable may have been plugged or pulled; the *)
(* operator after a failure.                                               *)
Start ==
  /\ pc \in {"off", "failed"}
  /\ IF pc = "off" THEN wired' \in BOOLEAN ELSE UNCHANGED wired
  /\ holder' = <<>> /\ done' = FALSE
  /\ Goto("checks")
  /\ UNCHANGED <<radio, profiles, flag, stranded>>

(* A query that fails counts as a no, so that the hotspot may be opened on *)
(* a node that is wired or configured.                                     *)
Checks ==
  /\ pc = "checks"
  /\ \/ (flag \/ wired \/ profiles # {}) /\ Goto("skipped")
     \/ ~flag /\ Goto("noRadio")
     \/ ~flag /\ radio /\ Goto("hotspot")
  /\ UNCHANGED <<machine, profiles, flag, form, stranded>>

(* create_hotspot: what an earlier run has left is deleted first. *)
CreateHotspot ==
  /\ pc = "hotspot"
  /\ \/ Adds("hotspot") /\ Goto("bind")
     \/ \E before \in {profiles, profiles \ {"hotspot"}} :
          FailsToAdd("hotspot", before) /\ Goto("failed")
  /\ UNCHANGED <<machine, flag, form>>

Bind ==
  /\ pc = "bind"
  /\ Goto("serving") \/ Goto("giveUp")
  /\ UNCHANGED <<machine, profiles, flag, form, stranded>>

(* do_POST: the server answers "Connected!" until it is shut down.  A form  *)
(* whose answer does not get through is kept, but wakes nobody.            *)
Submit(f) ==
  /\ pc \in {"serving", "late", "closing"}
  /\ Len(holder) < MaxForms
  /\ holder' = Append(holder, f)
  /\ done' \in {done, TRUE}
  /\ UNCHANGED <<machine, profiles, flag, pc, stranded>>

Woken ==
  /\ pc = "serving" /\ done
  /\ Goto("closing")
  /\ UNCHANGED <<machine, profiles, flag, form, stranded>>

TimedOut ==
  /\ pc = "serving" /\ ~done
  /\ Goto("late")
  /\ UNCHANGED <<machine, profiles, flag, form, stranded>>

(* httpd.shutdown() returns; whether a form woke it in time is decided. *)
Shutdown ==
  /\ pc \in {"late", "closing"}
  /\ Goto(IF pc = "late" THEN "giveUp" ELSE "teardown")
  /\ UNCHANGED <<machine, profiles, flag, form, stranded>>

AfterTeardown == IF pc = "giveUp" THEN "failed" ELSE "connect"

(* teardown_hotspot does not look at the outcome. *)
Teardown ==
  /\ pc \in {"giveUp", "teardown"}
  /\ \/ /\ profiles' = profiles \ {"hotspot"} /\ UNCHANGED stranded
        /\ Goto(AfterTeardown)
     \/ /\ stranded' = TRUE /\ UNCHANGED profiles
        /\ Goto(AfterTeardown) \/ Goto("failed")
  /\ UNCHANGED <<machine, flag, form>>

(* Mutation: the flag is written whether it connected or not. *)
ConnectFlags ==
  /\ pc = "connect"
  /\ \/ Head(holder) = "right" /\ Adds("home") /\ pc' \in {"touch", "failed"}
     \/ FailsToAdd("unusable", profiles) /\ Goto("touch")
  /\ UNCHANGED <<machine, flag, form>>

(* The first form counts.  The right password may fail too, where the      *)
(* network is out of reach, and succeed when nmcli has been given up.      *)
Connect ==
  /\ pc = "connect"
  /\ \/ Head(holder) = "right" /\ Adds("home") /\ pc' \in {"touch", "failed"}
     \/ FailsToAdd("unusable", profiles) /\ Goto("failed")
  /\ UNCHANGED <<machine, flag, form>>

(* A flag that cannot be written is only logged. *)
Touch ==
  /\ pc = "touch"
  /\ flag' \in {flag, TRUE}
  /\ Goto("succeeded")
  /\ UNCHANGED <<machine, profiles, form, stranded>>

(* Power goes, systemd's own timeout kills the run, or a command does not  *)
(* answer; a hotspot that is up stays configured.                          *)
Interrupt ==
  /\ pc \notin Ended \cup {"off"}
  /\ Goto("failed") \/ Goto("off")
  /\ IF "hotspot" \in profiles THEN stranded' = TRUE ELSE UNCHANGED stranded
  /\ UNCHANGED <<machine, profiles, flag, form>>

Reboot ==
  /\ pc \in Ended
  /\ Goto("off")
  /\ UNCHANGED <<machine, profiles, flag, form, stranded>>

-----------------------------------------------------------------------------
Run ==
  \/ Checks \/ CreateHotspot \/ Bind \/ Woken \/ TimedOut \/ Shutdown
  \/ Teardown \/ Connect \/ Touch

Next ==
  \/ Start \/ Run \/ Interrupt \/ Reboot
  \/ \E f \in Forms : Submit(f)

Spec == Init /\ [][Next]_vars

-----------------------------------------------------------------------------
(* A run that skips, or has succeeded, and so keeps every later one from   *)
(* provisioning, is right: the node has its network, unless a command that *)
(* failed or a run that was cut off has left a profile that is no use      *)
(* (wifi_provision.py 383-397, 463-481).                                   *)
SkipMeansOnline == pc \in {"skipped", "succeeded"} => Online \/ stranded

(* However a run ends, its hotspot has gone: it would count as a WiFi that *)
(* is configured, with the same proviso (lines 184-188, 437, 449, 459).    *)
HotspotGoes == pc \in Ended \cup {"off"} /\ "hotspot" \in profiles => stranded
=============================================================================
