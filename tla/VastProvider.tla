---------------------------- MODULE VastProvider -----------------------------
(***************************************************************************)
(* The Vast.AI listing state machine (vast_provider.py) with the           *)
(* marketplace it drives through the vastai command.  update() runs in a   *)
(* thread: the operator's override, the schedule and the marketplace move  *)
(* while a command is under way, a command may fail or time out (with or   *)
(* without effect), and the agent may restart, which forgets everything.   *)
(***************************************************************************)
EXTENDS Naturals

CONSTANTS
  MaxRenters,    \* bound: rentals at the same time
  MaxRestarts,   \* bound: restarts of the agent
  MaxTimeouts    \* bound: commands that time out after they took effect

ASSUME VastAssumption == {MaxRenters, MaxRestarts, MaxTimeouts} \subseteq Nat

VARIABLES
  state,         \* _state
  listedAt,      \* whether _listed_at is set: a session is open
  override,      \* _override
  shouldList,    \* what the schedule, with the pre-listing margin, asks for
  command,       \* the vastai command under way, or none
  answer,        \* what it returned to the thread, or pending
  offered,       \* marketplace: the machine is offered
  renters,       \* marketplace: rentals that run
  oddAnswers,    \* `show instances` answers JSON of another shape
  timeouts,      \* how many commands timed out after they took effect
  restarts       \* how often the agent restarted

vars == <<state, listedAt, override, shouldList, command, answer, offered,
          renters, oddAnswers, timeouts, restarts>>
inputs == <<override, shouldList, restarts>>
faults == <<oddAnswers, timeouts>>
market == <<offered, renters>>

States == {"UNLISTED", "LISTING", "LISTED", "UNLISTING"}
Commands == {"none", "list", "unlist", "count"}
Answers == {"pending", "ok", "failed", "zero", "some"}
Overrides == {"none", "list", "unlist"}

TypeOK ==
  /\ state \in States
  /\ listedAt \in BOOLEAN
  /\ override \in Overrides
  /\ shouldList \in BOOLEAN
  /\ command \in Commands
  /\ answer \in Answers
  /\ offered \in BOOLEAN
  /\ renters \in 0..MaxRenters
  /\ oddAnswers \in BOOLEAN
  /\ timeouts \in 0..MaxTimeouts
  /\ restarts \in 0..MaxRestarts

Init ==
  /\ state = "UNLISTED" /\ listedAt = FALSE /\ override = "none"
  /\ shouldList \in BOOLEAN
  /\ command = "none" /\ answer = "pending"
  /\ offered = FALSE /\ renters = 0
  /\ oddAnswers = FALSE /\ timeouts = 0 /\ restarts = 0

-----------------------------------------------------------------------------
(* What the provider is told, and the marketplace (external).              *)

SetOverride(o) ==
  /\ override' = o
  /\ UNCHANGED <<state, listedAt, shouldList, command, answer, market, faults, restarts>>

ScheduleChanges ==
  /\ shouldList' = ~shouldList
  /\ UNCHANGED <<state, listedAt, override, command, answer, market, faults, restarts>>

RentalStarts ==
  /\ offered /\ renters < MaxRenters
  /\ renters' = renters + 1
  /\ UNCHANGED <<state, listedAt, command, answer, offered, faults, inputs>>

RentalEnds ==
  /\ renters > 0
  /\ renters' = renters - 1
  /\ UNCHANGED <<state, listedAt, command, answer, offered, faults, inputs>>

(* A release of the vastai command whose JSON has another shape. *)
AnswersChange ==
  /\ oddAnswers' = TRUE
  /\ UNCHANGED <<state, listedAt, command, answer, market, timeouts, inputs>>

-----------------------------------------------------------------------------
(* update(): decide and issue the command.                                 *)

WantListed == override = "list" \/ (override = "none" /\ shouldList)

Issue(cmd) == /\ command = "none"
              /\ command' = cmd
              /\ UNCHANGED <<listedAt, answer, market, faults, inputs>>

(* Mutation: a machine that is draining is not listed again. *)
UpdateListUnlisted ==
  /\ state \in {"UNLISTED", "LISTING"} /\ (WantListed \/ state = "LISTING")
  /\ state' = "LISTING"
  /\ Issue("list")

UpdateList ==
  /\ state # "LISTED" /\ (WantListed \/ state = "LISTING")
  /\ state' = "LISTING"
  /\ Issue("list")

UpdateUnlist ==
  /\ state = "LISTED" /\ ~WantListed
  /\ Issue("unlist")
  /\ UNCHANGED state

UpdateCount ==
  /\ state = "UNLISTING" /\ ~WantListed
  /\ Issue("count")
  /\ UNCHANGED state

-----------------------------------------------------------------------------
(* The command: it takes effect, or not, and its exit is read.             *)

Answer(a) == /\ command # "none" /\ answer = "pending"
             /\ answer' = a
             /\ UNCHANGED <<state, listedAt, command, renters, oddAnswers, inputs>>

CliSets ==
  /\ command \in {"list", "unlist"}
  /\ offered' = (command = "list")
  /\ Answer("ok")
  /\ UNCHANGED timeouts

CliFails == Answer("failed") /\ UNCHANGED <<offered, timeouts>>

(* Killed after 30 s, when the marketplace had already acted. *)
CliTimesOut ==
  /\ timeouts < MaxTimeouts
  /\ timeouts' = timeouts + 1
  /\ command \in {"list", "unlist"}
  /\ offered' = (command = "list")
  /\ Answer("failed")

(* JSON that is no list and has no "instances" counts as no rentals. *)
CliCounts ==
  /\ command = "count"
  /\ Answer(IF renters = 0 \/ oddAnswers THEN "zero" ELSE "some")
  /\ UNCHANGED <<offered, timeouts>>

-----------------------------------------------------------------------------
(* update(), continued: apply the answer.                                  *)

Return == /\ command' = "none" /\ answer' = "pending"
          /\ UNCHANGED <<market, faults, inputs>>

ListDone ==
  /\ command = "list" /\ answer # "pending"
  /\ state' = IF answer = "ok" THEN "LISTED" ELSE "UNLISTED"
  /\ listedAt' = (listedAt \/ answer = "ok")
  /\ Return

(* Mutation: the session ends with the listing, not with the last rental. *)
UnlistDoneEnds ==
  /\ command = "unlist" /\ answer # "pending"
  /\ state' = IF answer = "ok" THEN "UNLISTING" ELSE "LISTED"
  /\ listedAt' = (listedAt /\ answer # "ok")
  /\ Return

UnlistDone ==
  /\ command = "unlist" /\ answer # "pending"
  /\ state' = IF answer = "ok" THEN "UNLISTING" ELSE "LISTED"
  /\ Return
  /\ UNCHANGED listedAt

(* Mutation: a count of -1 closes the session as well. *)
CloseSessionUnknown ==
  /\ command = "count" /\ answer \in {"zero", "failed"}
  /\ state' = "UNLISTED"
  /\ listedAt' = FALSE
  /\ Return

(* The session is appended to the local log; its callback is skipped, as   *)
(* the executor thread update() runs in has no event loop to put it on.    *)
CloseSession ==
  /\ command = "count" /\ answer = "zero"
  /\ state' = "UNLISTED"
  /\ listedAt' = FALSE
  /\ Return

StayUnlisting ==
  /\ command = "count" /\ answer \in {"some", "failed"}
  /\ Return
  /\ UNCHANGED <<state, listedAt>>

Restart ==
  /\ restarts < MaxRestarts
  /\ restarts' = restarts + 1
  /\ state' = "UNLISTED" /\ listedAt' = FALSE /\ override' = "none"
  /\ command' = "none" /\ answer' = "pending"
  /\ UNCHANGED <<shouldList, market, faults>>

-----------------------------------------------------------------------------
Update == UpdateList \/ UpdateUnlist \/ UpdateCount
Cli == CliSets \/ CliFails \/ CliTimesOut \/ CliCounts
Apply == ListDone \/ UnlistDone \/ CloseSession \/ StayUnlisting

Next ==
  \/ Update \/ Cli \/ Apply \/ Restart
  \/ ScheduleChanges \/ RentalStarts \/ RentalEnds \/ AnswersChange
  \/ \E o \in Overrides : SetOverride(o)

Spec == Init /\ [][Next]_vars

(* The loop ticks every minute, each command returns within 30 s, rentals  *)
(* end by contract, and a command that is tried for ever works some time.  *)
Fairness == /\ WF_vars(Update) /\ WF_vars(Cli) /\ WF_vars(Apply)
            /\ WF_vars(RentalEnds)
            /\ SF_vars(CliSets) /\ SF_vars(CliCounts)

FairSpec == Spec /\ Fairness

-----------------------------------------------------------------------------
(* While the provider drains, the machine is off the market, so the count  *)
(* can only fall (lines 30-32, 498-503).                                   *)
DrainingIsOffMarket ==
  state = "UNLISTING" => ~offered

(* A session is closed, logged and billed only when no rental runs: the    *)
(* count that was read is still right when it is used, as long as its JSON *)
(* has a shape the code knows (lines 426-459).                             *)
CloseIsDrained ==
  [][CloseSession /\ ~oddAnswers => renters = 0 /\ ~offered]_vars

(* Until a timeout hides what a command did, its answers change shape or   *)
(* the agent restarts, no rental runs off the books: a session is open for *)
(* every rental, or is about to be (lines 482-484).                        *)
RentalsAreBooked ==
  timeouts = 0 /\ restarts = 0 /\ ~oddAnswers =>
    (offered \/ renters > 0 => listedAt \/ (command = "list" /\ answer = "ok"))

(* With commands that fail cleanly, a lasting wish is carried out: the     *)
(* machine ends offered, or off the market and drained (lines 381-472).    *)
WishIsCarriedOut ==
  [](timeouts = 0 /\ restarts = 0) =>
    /\ <>[]WantListed => <>[](offered /\ state = "LISTED")
    /\ <>[]~WantListed => <>[](~offered /\ state = "UNLISTED" /\ renters = 0)
=============================================================================
