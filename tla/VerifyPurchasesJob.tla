-------------------------- MODULE VerifyPurchasesJob --------------------------
(***************************************************************************)
(* The background job that settles purchases: the scheduler loop of        *)
(* app/core/scheduler.py, the dispatcher, the in-flight tracker and the    *)
(* per-purchase runners of app/purchases/jobs/verify_purchases.            *)
(*                                                                         *)
(* Everything runs on one asyncio event loop, so a coroutine is only       *)
(* interrupted at an await: one action is the code between two of them.    *)
(* What a settlement writes is in PurchaseTransactions; here it is the     *)
(* commit that changes the purchase's status.                              *)
(***************************************************************************)
EXTENDS Integers, FiniteSets, Functions

CONSTANTS
  Purchases,
  Runners,            \* asyncio tasks that may exist at the same time
  NoRunner,           \* no task: the tracker has no entry
  NoPurchase,         \* the purchase of a task that does not exist
  MaxAttempts,        \* settings.purchase_confirmation_max_attempts
  AdminPurchases,     \* the purchases admins confirm or reverse by hand
  DispatcherMayFail,  \* TRUE: a query of the dispatcher may raise
  MaxFaults,          \* bound on failed runners, failed ticks and crashes
  MaxToggles          \* bound on changes of feature flags

ASSUME JobAssumption ==
  /\ MaxAttempts \in Nat \ {0}
  /\ NoRunner \notin Runners
  /\ NoPurchase \notin Purchases
  /\ AdminPurchases \subseteq Purchases
  /\ DispatcherMayFail \in BOOLEAN
  /\ MaxFaults \in Nat
  /\ MaxToggles \in Nat

VARIABLES
  status,      \* committed status of each purchase
  confirming,  \* purchases that manual confirmations under way have found pending
  enabled,     \* what the feature flags say of each purchase's user and merchant
  loop,        \* the scheduler's loop and the dispatcher's local list
  inFlight,    \* InMemoryInFlightTracker._tasks
  runner,      \* the coroutines of _run_verification_with_retry
  faults, toggles

vars == <<status, confirming, enabled, loop, inFlight, runner, faults, toggles>>

-----------------------------------------------------------------------------
Statuses == {"absent", "pending", "confirmed", "rejected", "reversed"}

Loops == [pc : {"sleep", "scan", "filter", "flags", "dispatch", "dead"},
          batch : SUBSET Purchases]

RunnerStates ==
  [pc : {"none", "read", "verify", "sleep", "final", "settle", "publish"},
   p : Purchases \cup {NoPurchase}, attempt : 0 .. MaxAttempts,
   verdict : {"none", "confirmed", "rejected", "pending"}]

NoTask == [pc |-> "none", p |-> NoPurchase, attempt |-> 0, verdict |-> "none"]

NewTask(p) == [pc |-> "read", p |-> p, attempt |-> 1, verdict |-> "none"]

\* scheduler.start: the first tick comes at once.
NewLoop == [pc |-> "scan", batch |-> {}]

Init ==
  /\ status = [p \in Purchases |-> "absent"]
  /\ confirming = {}
  /\ enabled = [p \in Purchases |-> TRUE]
  /\ loop = NewLoop
  /\ inFlight = [p \in Purchases |-> NoRunner]
  /\ runner = [r \in Runners |-> NoTask]
  /\ faults = 0
  /\ toggles = 0

Live(r) == runner[r].pc # "none"

-----------------------------------------------------------------------------
(* The scheduler's loop and the dispatcher.                                 *)

LoopStep(from, to, batch) ==
  /\ loop.pc = from
  /\ loop' = [pc |-> to, batch |-> batch]
  /\ UNCHANGED <<status, confirming, enabled, faults, toggles>>

\* InMemoryTaskScheduler._run_loop: the interval is over.
Tick == LoopStep("sleep", "scan", {}) /\ UNCHANGED <<inFlight, runner>>

\* get_pending_purchases: the database answers.
ScanPending ==
  /\ LoopStep("scan", "filter", {p \in Purchases : status[p] = "pending"})
  /\ UNCHANGED <<inFlight, runner>>

\* Mutant: the tracker is not consulted.
FilterInFlight_all ==
  /\ LoopStep("filter", IF loop.batch = {} THEN "sleep" ELSE "flags", loop.batch)
  /\ UNCHANGED <<inFlight, runner>>

\* Back in the dispatcher: purchases with a task are dropped, and the tick is
\* over when none is left.
FilterInFlight ==
  LET new == {p \in loop.batch : inFlight[p] = NoRunner} IN
  /\ LoopStep("filter", IF new = {} THEN "sleep" ELSE "flags", new)
  /\ UNCHANGED <<inFlight, runner>>

\* Mutant: the flags are not asked.
FilterEligible_all ==
  /\ LoopStep("flags", "dispatch", loop.batch)
  /\ UNCHANGED <<inFlight, runner>>

\* filter_eligible_purchases: purchases whose flag is off are dropped.
FilterEligible ==
  /\ LoopStep("flags", "dispatch", {p \in loop.batch : enabled[p]})
  /\ UNCHANGED <<inFlight, runner>>

\* One task per purchase that is left, each entered in the tracker.
Dispatch ==
  \E f \in Injection(loop.batch, {r \in Runners : ~Live(r)}) :
    /\ LoopStep("dispatch", "sleep", {})
    /\ inFlight' = [p \in Purchases |-> IF p \in loop.batch THEN f[p] ELSE inFlight[p]]
    /\ runner' = [r \in Runners |->
         IF \E p \in loop.batch : f[p] = r
           THEN NewTask(CHOOSE p \in loop.batch : f[p] = r) ELSE runner[r]]

\* A query of the dispatcher raises: nothing in _run_loop catches it, so the
\* asyncio task of the loop ends.
DispatcherFails ==
  /\ DispatcherMayFail
  /\ faults < MaxFaults
  /\ loop.pc \in {"scan", "flags"}
  /\ loop' = [pc |-> "dead", batch |-> {}]
  /\ faults' = faults + 1
  /\ UNCHANGED <<status, confirming, enabled, inFlight, runner, toggles>>

-----------------------------------------------------------------------------
(* A runner.                                                                *)

Goto(r, pc) == runner' = [runner EXCEPT ![r].pc = pc]

\* Mutant: the tracker's entry is not removed.
Finish_keepsEntry(r) ==
  /\ runner' = [runner EXCEPT ![r] = NoTask]
  /\ UNCHANGED inFlight

\* The coroutine returns or raises; its finally clause clears the tracker's
\* entry of its purchase.
Finish(r) ==
  /\ runner' = [runner EXCEPT ![r] = NoTask]
  /\ inFlight' = [inFlight EXCEPT ![runner[r].p] = NoRunner]

RunnerEnv == <<confirming, enabled, loop, toggles>>

\* Mutant: an attempt trusts the dispatcher's scan.
RunnerRead_noRecheck(r) ==
  /\ runner[r].pc = "read"
  /\ Goto(r, "verify")
  /\ UNCHANGED <<RunnerEnv, status, inFlight, faults>>

\* get_by_id at the start of an attempt.
RunnerRead(r) ==
  /\ runner[r].pc = "read"
  /\ IF status[runner[r].p] = "pending"
       THEN Goto(r, "verify") /\ UNCHANGED inFlight
       ELSE Finish(r)
  /\ UNCHANGED <<RunnerEnv, status, faults>>

\* Mutant: one attempt too few.
AfterVerdict_oneLess(verdict, attempt) ==
  CASE verdict # "pending" -> "settle"
    [] verdict = "pending" /\ attempt < MaxAttempts - 1 -> "sleep"
    [] OTHER -> "final"

\* Mutant: one attempt too many.
AfterVerdict_oneMore(verdict, attempt) ==
  CASE verdict # "pending" -> "settle"
    [] verdict = "pending" /\ attempt <= MaxAttempts -> "sleep"
    [] OTHER -> "final"

\* Where an attempt leads.
AfterVerdict(verdict, attempt) ==
  CASE verdict # "pending" -> "settle"
    [] verdict = "pending" /\ attempt < MaxAttempts -> "sleep"
    [] OTHER -> "final"

\* The verifier answers; a soft failure is retried until the attempts are used up.
Verify(r, verdict) ==
  /\ runner[r].pc = "verify"
  /\ runner' = [runner EXCEPT ![r].pc = AfterVerdict(verdict, runner[r].attempt),
                              ![r].verdict = verdict]
  /\ UNCHANGED <<RunnerEnv, status, inFlight, faults>>

\* retry_interval_seconds later.
Wake(r) ==
  /\ runner[r].pc = "sleep"
  /\ runner' = [runner EXCEPT ![r].pc = "read", ![r].attempt = @ + 1]
  /\ UNCHANGED <<RunnerEnv, status, inFlight, faults>>

\* The read before the forced rejection.
FinalRead(r) ==
  /\ runner[r].pc = "final"
  /\ IF status[runner[r].p] = "pending"
       THEN Goto(r, "settle") /\ UNCHANGED inFlight
       ELSE Finish(r)
  /\ UNCHANGED <<RunnerEnv, status, faults>>

\* The commit of _confirm_purchase or _reject_purchase.
Settle(r) ==
  /\ runner[r].pc = "settle"
  /\ status' = [status EXCEPT ![runner[r].p] =
       IF runner[r].verdict = "confirmed" THEN "confirmed" ELSE "rejected"]
  /\ Goto(r, "publish")
  /\ UNCHANGED <<RunnerEnv, inFlight, faults>>

\* The event is delivered and the coroutine returns.
PublishAndReturn(r) ==
  /\ runner[r].pc = "publish"
  /\ Finish(r)
  /\ UNCHANGED <<RunnerEnv, status, faults>>

\* An await of the runner on the database, the verifier or an event handler raises.
RunnerFails(r) ==
  /\ runner[r].pc \notin {"none", "sleep"}
  /\ faults < MaxFaults
  /\ faults' = faults + 1
  /\ Finish(r)
  /\ UNCHANGED <<RunnerEnv, status>>

-----------------------------------------------------------------------------
(* The rest of the system.                                                  *)

Ingest(p) ==
  /\ status[p] = "absent"
  /\ status' = [status EXCEPT ![p] = "pending"]
  /\ UNCHANGED <<confirming, enabled, loop, inFlight, runner, faults, toggles>>

(* POST /purchases/{id}/confirmation and PATCH /purchases/{id}/reverse read the  *)
(* purchase, and await the database before the status is written, whatever it is *)
(* by then.                                                                      *)

\* confirm_purchase_manually: the policy finds the purchase pending.
ReadForConfirmation(p) ==
  /\ p \in AdminPurchases
  /\ status[p] = "pending"
  /\ confirming' = confirming \cup {p}
  /\ UNCHANGED <<status, enabled, loop, inFlight, runner, faults, toggles>>

\* Its commit, which may not be the last one for this purchase.
AdminConfirm(p) ==
  /\ p \in confirming
  /\ status' = [status EXCEPT ![p] = "confirmed"]
  /\ confirming' \in {confirming, confirming \ {p}}
  /\ UNCHANGED <<enabled, loop, inFlight, runner, faults, toggles>>

\* The commit of reverse_purchase.  One that has read the purchase before writes what one
\* that reads it now writes: it need not be remembered.
AdminReverse(p) ==
  /\ p \in AdminPurchases
  /\ status[p] \in Statuses \ {"absent", "reversed"}
  /\ status' = [status EXCEPT ![p] = "reversed"]
  /\ UNCHANGED <<confirming, enabled, loop, inFlight, runner, faults, toggles>>

\* An admin sets a flag that decides about purchase p.
ToggleFlag(p) ==
  /\ toggles < MaxToggles
  /\ enabled' = [enabled EXCEPT ![p] = ~@]
  /\ toggles' = toggles + 1
  /\ UNCHANGED <<status, confirming, loop, inFlight, runner, faults>>

\* The process dies and is started again: requests, tasks and tracker are in memory only.
CrashAndRestart ==
  /\ faults < MaxFaults
  /\ faults' = faults + 1
  /\ loop' = NewLoop
  /\ inFlight' = [p \in Purchases |-> NoRunner]
  /\ runner' = [r \in Runners |-> NoTask]
  /\ confirming' = {}
  /\ UNCHANGED <<status, enabled, toggles>>

LoopNext == Tick \/ ScanPending \/ FilterInFlight \/ FilterEligible \/ Dispatch

RunnerNext(r) ==
  \/ RunnerRead(r)
  \/ \E verdict \in {"confirmed", "rejected", "pending"} : Verify(r, verdict)
  \/ Wake(r)
  \/ FinalRead(r)
  \/ Settle(r)
  \/ PublishAndReturn(r)

Next ==
  \/ LoopNext
  \/ DispatcherFails
  \/ \E r \in Runners : RunnerNext(r) \/ RunnerFails(r)
  \/ \E p \in Purchases :
       \/ Ingest(p)
       \/ ReadForConfirmation(p)
       \/ AdminConfirm(p)
       \/ AdminReverse(p)
       \/ ToggleFlag(p)
  \/ CrashAndRestart

Spec == Init /\ [][Next]_vars

\* The event loop runs every coroutine that can run, sleeps end and the verifier
\* answers; nobody owes the system a purchase, a flag or an admin.
Fairness ==
  /\ WF_vars(LoopNext)
  /\ \A r \in Runners : WF_vars(RunnerNext(r))

FairSpec == Spec /\ Fairness

-----------------------------------------------------------------------------
(* Properties.                                                              *)

\* Attempts never exceed purchase_confirmation_max_attempts, and every task and tracker
\* entry is of a purchase and of a task that exist.
TypeOK ==
  /\ status \in [Purchases -> Statuses]
  /\ confirming \subseteq AdminPurchases
  /\ enabled \in [Purchases -> BOOLEAN]
  /\ loop \in Loops
  /\ inFlight \in [Purchases -> Runners \cup {NoRunner}]
  /\ runner \in [Runners -> RunnerStates]
  /\ faults \in 0 .. MaxFaults
  /\ toggles \in 0 .. MaxToggles

\* The tracker is exact: a purchase has an entry just when a coroutine is working on
\* it, the entry is that coroutine's, and no other coroutine works on the same
\* purchase.  So a runner's finally clause, which removes the entry by purchase id
\* alone, never removes another runner's.
InFlightExact ==
  /\ \A p \in Purchases : inFlight[p] # NoRunner => Live(inFlight[p]) /\ runner[inFlight[p]].p = p
  /\ \A r \in Runners : Live(r) => runner[r].p \in Purchases /\ inFlight[runner[r].p] = r

\* The job never settles a purchase twice when admins leave it alone: neither a scan
\* that is stale by the time its tasks start, nor a failed runner, nor a restart makes
\* it overwrite a status that is settled.
SettledOnce ==
  [][\A p \in Purchases \ AdminPurchases :
       status[p] \in {"confirmed", "rejected"} => status'[p] = status[p]]_vars

\* A purchase is only rejected for want of an answer after all the attempts of one
\* runner, the last of which found it pending.
RejectedAfterAllAttempts ==
  [][\A r \in Runners :
       runner[r].pc = "settle" /\ runner[r].verdict = "pending"
         /\ status'[runner[r].p] = "rejected" /\ status[runner[r].p] # "rejected"
       => runner[r].attempt = MaxAttempts]_vars

\* The flag of p is off and the job has nothing under way for p that began before.
LeftAlone(p) ==
  /\ ~enabled[p]
  /\ inFlight[p] = NoRunner
  /\ ~(loop.pc = "dispatch" /\ p \in loop.batch)

\* Switching auto-confirmation off works at the next look at the flag.  A runner that is
\* between two attempts goes on, and so does a list that has passed the filter; but once
\* these are through, a tick that had scanned the purchase before the switch does not
\* start a runner, nothing else does until the flag is on again, and the purchase
\* stays pending unless an admin settles it.
OffMeansManual ==
  [][\A p \in Purchases : LeftAlone(p) =>
       /\ enabled'[p] \/ LeftAlone(p)'
       /\ p \notin AdminPurchases /\ status[p] = "pending" => status'[p] = "pending"]_vars

\* Every pending purchase whose flag stays on is settled in the end, as the scheduler's
\* contract of a continuous loop has it.
EventuallySettled ==
  \A p \in Purchases :
    <>[](enabled[p]) => (status[p] = "pending" ~> status[p] # "pending")

\* As long as the scheduler's loop has not ended for good, every pending purchase whose
\* flag stays on is settled in the end, in spite of soft failures, failing runners,
\* admins and restarts, the restart that revives a loop that had ended included.
SettledWhileLooping == <>[](loop.pc # "dead") => EventuallySettled
=============================================================================
