---------------------- MODULE VerifyPurchasesJob_proofs ----------------------
(***************************************************************************)
(* For every number of purchases, runners, attempts, faults and flag       *)
(* changes: the in-flight tracker is exact, and from that what the job may *)
(* do to a purchase: settle it once, reject it for want of an answer only  *)
(* after the last attempt, leave it alone once its flag is off.            *)
(***************************************************************************)
EXTENDS VerifyPurchasesJob, TLAPS

\* What the dispatcher knows across its second await: no purchase it has kept has an
\* entry, because nobody else adds one.
BatchFree ==
  loop.pc \in {"flags", "dispatch"} => \A p \in loop.batch : inFlight[p] = NoRunner

\* A runner that sleeps has an attempt left.
SleepersRetry ==
  \A r \in Runners : runner[r].pc = "sleep" => runner[r].attempt < MaxAttempts

\* The inductive invariant.
IInv == TypeOK /\ InFlightExact /\ BatchFree /\ SleepersRetry

\* At start-up there is neither an entry nor a task.
LEMMA InitIInv == Init => IInv
  BY JobAssumption DEF Init, IInv, TypeOK, InFlightExact, BatchFree, SleepersRetry, Live, NoTask,
     NewLoop, Statuses, Loops, RunnerStates

\* A runner that returns leaves a tracker that is still exact: the entry it removes
\* is its own.
LEMMA FinishKeeps ==
  ASSUME IInv, NEW r \in Runners, Live(r), Finish(r)
  PROVE  /\ runner' \in [Runners -> RunnerStates]
         /\ inFlight' \in [Purchases -> Runners \cup {NoRunner}]
         /\ InFlightExact'
         /\ SleepersRetry'
         /\ \A p \in Purchases : inFlight[p] = NoRunner => inFlight'[p] = NoRunner
  <1> USE JobAssumption DEF IInv, TypeOK
  <1>1. runner[r].p \in Purchases /\ inFlight[runner[r].p] = r
    BY DEF InFlightExact
  <1>2. NoTask \in RunnerStates
    BY DEF NoTask, RunnerStates
  <1>3. runner' \in [Runners -> RunnerStates] /\ inFlight' \in [Purchases -> Runners \cup {NoRunner}]
    BY <1>1, <1>2 DEF Finish
  <1>4. \A p \in Purchases : inFlight[p] = NoRunner => inFlight'[p] = NoRunner
    BY <1>1 DEF Finish
  <1>5. InFlightExact'
    BY <1>1 DEF Finish, InFlightExact, Live, NoTask
  <1>6. SleepersRetry'
    BY DEF Finish, SleepersRetry, NoTask
  <1> QED BY <1>3, <1>4, <1>5, <1>6

\* A runner that goes on keeps its purchase and its entry.
LEMMA StaysKeeps ==
  ASSUME IInv, NEW r \in Runners, Live(r), UNCHANGED inFlight,
         NEW t \in RunnerStates, t.p = runner[r].p, t.pc # "none",
         t.pc = "sleep" => t.attempt < MaxAttempts,
         runner' = [runner EXCEPT ![r] = t]
  PROVE  InFlightExact' /\ SleepersRetry' /\ runner' \in [Runners -> RunnerStates]
  BY DEF IInv, TypeOK, InFlightExact, SleepersRetry, Live

\* Every step of the loop, of a runner and of the rest of the system keeps it.
LEMMA NextIInv == IInv /\ [Next]_vars => IInv'
  <1> SUFFICES ASSUME IInv, [Next]_vars PROVE IInv'
    OBVIOUS
  <1> USE JobAssumption
  <1>0. TypeOK /\ InFlightExact /\ BatchFree /\ SleepersRetry
    BY DEF IInv
  <1>l. ASSUME LoopNext PROVE IInv'
    <2>1. CASE Tick \/ ScanPending \/ FilterInFlight \/ FilterEligible
      BY <1>0, <2>1 DEF Tick, ScanPending, FilterInFlight, FilterEligible, LoopStep, IInv, TypeOK,
         InFlightExact, BatchFree, SleepersRetry, Live, Loops
    <2>2. CASE Dispatch
      <3>1. PICK f \in Injection(loop.batch, {r \in Runners : ~Live(r)}) :
              /\ LoopStep("dispatch", "sleep", {})
              /\ inFlight' = [p \in Purchases |-> IF p \in loop.batch THEN f[p] ELSE inFlight[p]]
              /\ runner' = [r \in Runners |->
                   IF \E p \in loop.batch : f[p] = r
                     THEN NewTask(CHOOSE p \in loop.batch : f[p] = r) ELSE runner[r]]
        BY <2>2 DEF Dispatch
      <3>2. /\ loop.batch \subseteq Purchases
            /\ \A p \in loop.batch : f[p] \in Runners /\ ~Live(f[p]) /\ inFlight[p] = NoRunner
            /\ \A p, q \in loop.batch : f[p] = f[q] => p = q
        BY <1>0, <3>1 DEF Injection, IsInjective, LoopStep, BatchFree, TypeOK, Loops
      <3>3. \A p \in loop.batch : runner'[f[p]] = NewTask(p)
        <4> TAKE p \in loop.batch
        <4>1. (CHOOSE q \in loop.batch : f[q] = f[p]) = p
          BY <3>2
        <4> QED BY <3>1, <3>2, <4>1
      <3>4. \A r \in Runners : (\A p \in loop.batch : f[p] # r) => runner'[r] = runner[r]
        BY <3>1
      <3>5. \A p \in Purchases : NewTask(p) \in RunnerStates
        BY DEF NewTask, RunnerStates
      <3>6. TypeOK'
        <4>1. runner' \in [Runners -> RunnerStates]
          BY <1>0, <3>1, <3>2, <3>3, <3>4, <3>5 DEF TypeOK
        <4>2. inFlight' \in [Purchases -> Runners \cup {NoRunner}]
          BY <1>0, <3>1, <3>2 DEF TypeOK
        <4> QED BY <1>0, <3>1, <4>1, <4>2 DEF TypeOK, LoopStep, Loops
      <3>7. InFlightExact'
        <4>1. \A p \in loop.batch : /\ inFlight'[p] = f[p] /\ runner'[f[p]].pc # "none"
                                    /\ runner'[f[p]].p = p
          BY <3>1, <3>2, <3>3 DEF NewTask
        <4>2. \A p \in Purchases \ loop.batch : inFlight'[p] = inFlight[p]
          BY <3>1
        <4>3. ASSUME NEW p \in Purchases, inFlight'[p] # NoRunner
              PROVE  runner'[inFlight'[p]].pc # "none" /\ runner'[inFlight'[p]].p = p
          <5>1. CASE p \in loop.batch
            BY <4>1, <5>1
          <5>2. CASE p \notin loop.batch
            <6>1. inFlight[p] \in Runners /\ Live(inFlight[p]) /\ runner[inFlight[p]].p = p
              BY <1>0, <4>2, <4>3, <5>2 DEF InFlightExact, TypeOK
            <6>2. runner'[inFlight[p]] = runner[inFlight[p]]
              BY <3>2, <3>4, <6>1
            <6> QED BY <4>2, <5>2, <6>1, <6>2 DEF Live
          <5> QED BY <5>1, <5>2
        <4>4. ASSUME NEW r \in Runners, runner'[r].pc # "none"
              PROVE  runner'[r].p \in Purchases /\ inFlight'[runner'[r].p] = r
          <5>1. CASE \E p \in loop.batch : f[p] = r
            BY <3>2, <4>1, <5>1
          <5>2. CASE \A p \in loop.batch : f[p] # r
            <6>1. Live(r) /\ runner'[r] = runner[r]
              BY <3>4, <4>4, <5>2 DEF Live
            <6>2. runner[r].p \in Purchases /\ inFlight[runner[r].p] = r
              BY <1>0, <6>1 DEF InFlightExact
            <6>3. runner[r].p \notin loop.batch
              BY <3>2, <6>2
            <6> QED BY <4>2, <6>1, <6>2, <6>3
          <5> QED BY <5>1, <5>2
        <4> QED BY <4>3, <4>4 DEF InFlightExact, Live
      <3>8. BatchFree'
        BY <3>1 DEF BatchFree, LoopStep
      <3>9. SleepersRetry'
        <4>1. \A p \in loop.batch : runner'[f[p]].pc = "read"
          <5>1. \A p : NewTask(p).pc = "read"
            BY DEF NewTask
          <5> QED BY <3>3, <5>1, Zenon
        <4>2. ASSUME NEW r \in Runners, runner'[r].pc = "sleep"
              PROVE  runner'[r].attempt < MaxAttempts
          <5>1. \A p \in loop.batch : f[p] # r
            BY <4>1, <4>2
          <5> QED BY <1>0, <3>4, <4>2, <5>1 DEF SleepersRetry
        <4> QED BY <4>2 DEF SleepersRetry
      <3> QED BY <3>6, <3>7, <3>8, <3>9 DEF IInv
    <2> QED BY <1>l, <2>1, <2>2 DEF LoopNext
  <1>f. ASSUME NEW r \in Runners, Live(r), Finish(r), UNCHANGED <<confirming, loop, enabled, toggles>>,
               status' \in [Purchases -> Statuses], faults' \in 0 .. MaxFaults
        PROVE IInv'
    BY <1>0, <1>f, FinishKeeps DEF IInv, TypeOK, BatchFree, Loops
  <1>s. ASSUME NEW r \in Runners, Live(r), NEW t \in RunnerStates, t.p = runner[r].p,
               t.pc # "none", t.pc = "sleep" => t.attempt < MaxAttempts, runner' = [runner EXCEPT ![r] = t],
               UNCHANGED <<confirming, loop, enabled, toggles, inFlight, faults>>,
               status' \in [Purchases -> Statuses]
        PROVE IInv'
    BY <1>0, <1>s, StaysKeeps DEF IInv, TypeOK, BatchFree, Loops
  <1>r. ASSUME NEW r \in Runners, RunnerNext(r) PROVE IInv'
    <2> USE DEF RunnerEnv
    <2>0. runner[r] \in RunnerStates /\ runner[r].p \in Purchases \cup {NoPurchase}
          /\ runner[r].attempt \in 0 .. MaxAttempts
      BY <1>0 DEF TypeOK, RunnerStates
    <2>g. ASSUME NEW pc \in {"verify", "settle", "publish"}, Live(r), Goto(r, pc),
                 UNCHANGED <<confirming, loop, enabled, toggles, inFlight, faults>>,
                 status' \in [Purchases -> Statuses]
          PROVE IInv'
      <3>1. runner' = [runner EXCEPT ![r] = [runner[r] EXCEPT !.pc = pc]]
        BY <2>g DEF Goto
      <3>2. /\ [runner[r] EXCEPT !.pc = pc] \in RunnerStates
            /\ [runner[r] EXCEPT !.pc = pc].p = runner[r].p
            /\ [runner[r] EXCEPT !.pc = pc].pc = pc
        BY <2>0 DEF RunnerStates
      <3> QED BY <1>s, <2>g, <3>1, <3>2
    <2>1. CASE RunnerRead(r)
      <3>1. Live(r) /\ status' \in [Purchases -> Statuses] /\ faults' \in 0 .. MaxFaults
        BY <1>0, <2>1 DEF RunnerRead, Live, TypeOK
      <3> QED BY <1>f, <2>1, <2>g, <3>1 DEF RunnerRead
    <2>2. ASSUME NEW verdict \in {"confirmed", "rejected", "pending"}, Verify(r, verdict) PROVE IInv'
      <3> DEFINE t == [runner[r] EXCEPT !.pc = AfterVerdict(verdict, runner[r].attempt),
                                        !.verdict = verdict]
      <3>1. /\ AfterVerdict(verdict, runner[r].attempt) \in {"settle", "sleep", "final"}
            /\ AfterVerdict(verdict, runner[r].attempt) = "sleep" => runner[r].attempt < MaxAttempts
        BY DEF AfterVerdict
      <3>2. runner' = [runner EXCEPT ![r] = t]
        BY <1>0, <2>2 DEF Verify, TypeOK
      <3>3. /\ t \in RunnerStates /\ t.p = runner[r].p /\ t.pc # "none"
            /\ t.pc = "sleep" => t.attempt < MaxAttempts
        BY <2>0, <3>1 DEF RunnerStates
      <3>4. Live(r) /\ status' \in [Purchases -> Statuses]
        BY <1>0, <2>2 DEF Verify, Live, TypeOK
      <3> HIDE DEF t
      <3> QED BY <1>s, <2>2, <3>2, <3>3, <3>4 DEF Verify
    <2>3. CASE Wake(r)
      <3> DEFINE t == [runner[r] EXCEPT !.pc = "read", !.attempt = runner[r].attempt + 1]
      <3>1. runner[r].attempt + 1 \in 0 .. MaxAttempts
        BY <1>0, <2>0, <2>3 DEF Wake, SleepersRetry
      <3>2. runner' = [runner EXCEPT ![r] = t]
        BY <1>0, <2>3 DEF Wake, TypeOK
      <3>3. /\ t \in RunnerStates /\ t.p = runner[r].p /\ t.pc = "read"
        BY <2>0, <3>1 DEF RunnerStates
      <3>4. Live(r) /\ status' \in [Purchases -> Statuses]
        BY <1>0, <2>3 DEF Wake, Live, TypeOK
      <3> HIDE DEF t
      <3> QED BY <1>s, <2>3, <3>2, <3>3, <3>4 DEF Wake
    <2>4. CASE FinalRead(r)
      <3>1. Live(r) /\ status' \in [Purchases -> Statuses] /\ faults' \in 0 .. MaxFaults
        BY <1>0, <2>4 DEF FinalRead, Live, TypeOK
      <3> QED BY <1>f, <2>4, <2>g, <3>1 DEF FinalRead
    <2>5. CASE Settle(r)
      <3>1. Live(r) /\ status' \in [Purchases -> Statuses]
        BY <1>0, <2>5 DEF Settle, Live, TypeOK, Statuses
      <3> QED BY <2>5, <2>g, <3>1 DEF Settle
    <2>6. CASE PublishAndReturn(r)
      <3>1. Live(r) /\ status' \in [Purchases -> Statuses] /\ faults' \in 0 .. MaxFaults
        BY <1>0, <2>6 DEF PublishAndReturn, Live, TypeOK
      <3> QED BY <1>f, <2>6, <3>1 DEF PublishAndReturn
    <2> QED BY <1>r, <2>1, <2>2, <2>3, <2>4, <2>5, <2>6 DEF RunnerNext
  <1>d. ASSUME DispatcherFails PROVE IInv'
    BY <1>0, <1>d DEF DispatcherFails, IInv, TypeOK, InFlightExact, BatchFree, SleepersRetry, Live, Loops
  <1>x. ASSUME NEW r \in Runners, RunnerFails(r) PROVE IInv'
    <2>1. status' \in [Purchases -> Statuses] /\ faults' \in 0 .. MaxFaults
      BY <1>0, <1>x DEF RunnerFails, TypeOK
    <2> QED BY <1>f, <1>x, <2>1 DEF RunnerFails, RunnerEnv, Live
  <1>e. ASSUME NEW p \in Purchases,
               \/ Ingest(p) \/ ReadForConfirmation(p) \/ AdminConfirm(p) \/ AdminReverse(p)
               \/ ToggleFlag(p)
        PROVE IInv'
    <2>1. UNCHANGED <<loop, inFlight, runner>>
      BY <1>e DEF Ingest, ReadForConfirmation, AdminConfirm, AdminReverse, ToggleFlag
    <2>2. InFlightExact' /\ BatchFree' /\ SleepersRetry'
      BY <1>0, <2>1 DEF InFlightExact, BatchFree, SleepersRetry, Live
    <2>3. TypeOK'
      <3>1. CASE Ingest(p)
        BY <1>0, <3>1 DEF Ingest, TypeOK, Statuses
      <3>2. CASE AdminConfirm(p)
        BY <1>0, <3>2 DEF AdminConfirm, TypeOK, Statuses
      <3>3. CASE AdminReverse(p)
        BY <1>0, <3>3 DEF AdminReverse, TypeOK, Statuses
      <3>4. CASE ToggleFlag(p)
        BY <1>0, <3>4 DEF ToggleFlag, TypeOK
      <3>5. CASE ReadForConfirmation(p)
        BY <1>0, <3>5 DEF ReadForConfirmation, TypeOK
      <3> QED BY <1>e, <3>1, <3>2, <3>3, <3>4, <3>5
    <2> QED BY <2>2, <2>3 DEF IInv
  <1>c. ASSUME CrashAndRestart PROVE IInv'
    BY <1>0, <1>c DEF CrashAndRestart, IInv, TypeOK, InFlightExact, BatchFree, SleepersRetry, Live,
       Loops, RunnerStates, NoTask, NewLoop
  <1>u. ASSUME UNCHANGED vars PROVE IInv'
    BY <1>0, <1>u DEF vars, IInv, TypeOK, InFlightExact, BatchFree, SleepersRetry, Live
  <1> QED BY <1>l, <1>d, <1>r, <1>x, <1>e, <1>c, <1>u DEF Next

\* Every variable of the job keeps its type; in particular no runner starts more than
\* MaxAttempts attempts.
THEOREM JobTypeCorrect == Spec => []TypeOK
  <1>1. IInv => TypeOK
    BY DEF IInv
  <1> QED BY <1>1, InitIInv, NextIInv, PTL DEF Spec

\* A purchase never has two runners, and the tracker never forgets a runner or
\* remembers one that is gone, for any number of purchases, faults and restarts.
THEOREM InFlightAlwaysExact == Spec => []InFlightExact
  <1>1. IInv => InFlightExact
    BY DEF IInv
  <1> QED BY <1>1, InitIInv, NextIInv, PTL DEF Spec

-----------------------------------------------------------------------------
(* What the job may do to a purchase.                                       *)

\* Between its read and its commit a runner is right to believe the purchase pending,
\* unless admins meddle with it: nobody else settles it, since nobody else works on it.
WorkingOnPending ==
  \A r \in Runners :
    runner[r].pc \in {"verify", "sleep", "final", "settle"} /\ runner[r].p \notin AdminPurchases
      => status[runner[r].p] = "pending"

\* A runner that gives up has used up its attempts.
LastAttempt ==
  \A r \in Runners :
    /\ runner[r].pc = "final" => runner[r].verdict = "pending" /\ runner[r].attempt = MaxAttempts
    /\ runner[r].pc = "settle" /\ runner[r].verdict = "pending" => runner[r].attempt = MaxAttempts

\* The inductive invariant of the settlements.
JInv == IInv /\ WorkingOnPending /\ LastAttempt

\* No runner at start-up.
LEMMA InitJInv == Init => JInv
  <1> SUFFICES ASSUME Init PROVE JInv
    OBVIOUS
  <1>1. \A r \in Runners : runner[r].pc = "none"
    BY DEF Init, NoTask
  <1> QED BY <1>1, InitIInv DEF JInv, WorkingOnPending, LastAttempt

\* Runners do not meet on a purchase.
LEMMA RunnersApart ==
  ASSUME IInv, NEW r \in Runners, NEW q \in Runners, Live(r), Live(q), runner[r].p = runner[q].p
  PROVE  r = q
  BY DEF IInv, InFlightExact

\* A step in which no runner moves but r, and r starts afresh or stops.
LEMMA OneStops ==
  ASSUME JInv, NEW r \in Runners, UNCHANGED status,
         runner' \in [Runners -> RunnerStates],
         \A q \in Runners \ {r} : runner'[q] = runner[q],
         runner'[r].pc \in {"none", "read", "publish"}
  PROVE  WorkingOnPending' /\ LastAttempt'
  BY DEF JInv, WorkingOnPending, LastAttempt

\* A runner's step keeps what it knows about its purchase.
LEMMA RunnerKeeps ==
  ASSUME JInv, IInv', NEW r \in Runners, RunnerNext(r)
  PROVE  WorkingOnPending' /\ LastAttempt'
  <1> USE JobAssumption DEF RunnerEnv
  <1>0. IInv /\ TypeOK /\ WorkingOnPending /\ LastAttempt /\ runner' \in [Runners -> RunnerStates]
    BY DEF JInv, IInv, TypeOK
  <1>t. runner[r] \in RunnerStates /\ runner \in [Runners -> RunnerStates]
        /\ runner[r].attempt \in 0 .. MaxAttempts
    BY <1>0 DEF TypeOK, RunnerStates
  <1>f. ASSUME Finish(r), UNCHANGED status PROVE WorkingOnPending' /\ LastAttempt'
    <2>1. runner'[r].pc = "none" /\ \A q \in Runners \ {r} : runner'[q] = runner[q]
      BY <1>f, <1>t DEF Finish, NoTask
    <2> QED BY <1>0, <1>f, <2>1, OneStops
  <1>g. ASSUME NEW pc, Goto(r, pc)
        PROVE  /\ runner'[r].pc = pc /\ runner'[r].p = runner[r].p
               /\ runner'[r].attempt = runner[r].attempt /\ runner'[r].verdict = runner[r].verdict
               /\ \A q \in Runners \ {r} : runner'[q] = runner[q]
    BY <1>g, <1>t DEF Goto, RunnerStates
  <1>1. CASE RunnerRead(r)
    <2>1. CASE status[runner[r].p] = "pending"
      <3>1. Goto(r, "verify") /\ UNCHANGED status
        BY <1>1, <2>1 DEF RunnerRead
      <3>2. WorkingOnPending'
        BY <1>0, <1>g, <2>1, <3>1 DEF WorkingOnPending
      <3>3. LastAttempt'
        BY <1>0, <1>g, <3>1 DEF LastAttempt
      <3> QED BY <3>2, <3>3
    <2>2. CASE status[runner[r].p] # "pending"
      BY <1>1, <1>f, <2>2 DEF RunnerRead
    <2> QED BY <2>1, <2>2
  <1>2. ASSUME NEW verdict \in {"confirmed", "rejected", "pending"}, Verify(r, verdict)
        PROVE  WorkingOnPending' /\ LastAttempt'
    <2>1. /\ runner'[r].pc = AfterVerdict(verdict, runner[r].attempt)
          /\ runner'[r].p = runner[r].p /\ runner'[r].attempt = runner[r].attempt
          /\ runner'[r].verdict = verdict
          /\ \A q \in Runners \ {r} : runner'[q] = runner[q]
          /\ UNCHANGED status /\ runner[r].pc = "verify"
      BY <1>2, <1>t DEF Verify, RunnerStates
    <2>2. AfterVerdict(verdict, runner[r].attempt) \in {"settle", "sleep", "final"}
      BY DEF AfterVerdict
    <2>3. /\ runner'[r].pc = "final" => verdict = "pending" /\ runner[r].attempt = MaxAttempts
          /\ runner'[r].pc = "settle" => verdict # "pending"
      BY <1>t, <2>1 DEF AfterVerdict
    <2>4. WorkingOnPending'
      BY <1>0, <2>1, <2>2 DEF WorkingOnPending
    <2>5. LastAttempt'
      BY <1>0, <2>1, <2>3 DEF LastAttempt
    <2> QED BY <2>4, <2>5
  <1>3. CASE Wake(r)
    <2>1. runner'[r].pc = "read" /\ UNCHANGED status
          /\ \A q \in Runners \ {r} : runner'[q] = runner[q]
      BY <1>3, <1>t DEF Wake, RunnerStates
    <2> QED BY <1>0, <2>1, OneStops
  <1>4. CASE FinalRead(r)
    <2>1. CASE status[runner[r].p] = "pending"
      <3>1. Goto(r, "settle") /\ UNCHANGED status /\ runner[r].pc = "final"
        BY <1>4, <2>1 DEF FinalRead
      <3>2. WorkingOnPending'
        BY <1>0, <1>g, <2>1, <3>1 DEF WorkingOnPending
      <3>3. LastAttempt'
        BY <1>0, <1>g, <3>1 DEF LastAttempt
      <3> QED BY <3>2, <3>3
    <2>2. CASE status[runner[r].p] # "pending"
      BY <1>4, <1>f, <2>2 DEF FinalRead
    <2> QED BY <2>1, <2>2
  <1>5. CASE Settle(r)
    <2>1. Goto(r, "publish") /\ Live(r)
      BY <1>5 DEF Settle, Live
    <2>2. \A p \in Purchases \ {runner[r].p} : status'[p] = status[p]
      BY <1>0, <1>5 DEF Settle, TypeOK
    <2>3. ASSUME NEW q \in Runners, runner'[q].pc \in {"verify", "sleep", "final", "settle"}
          PROVE  /\ runner'[q] = runner[q] /\ status'[runner[q].p] = status[runner[q].p]
      <3>1. q # r /\ runner'[q] = runner[q]
        BY <1>g, <2>1, <2>3
      <3>2. Live(q)
        BY <2>3, <3>1 DEF Live
      <3>3. runner[q].p # runner[r].p /\ runner[q].p \in Purchases
        BY <1>0, <2>1, <3>1, <3>2, RunnersApart DEF IInv, InFlightExact
      <3> QED BY <2>2, <3>1, <3>3
    <2>4. WorkingOnPending'
      BY <1>0, <2>3 DEF WorkingOnPending
    <2>5. LastAttempt'
      BY <1>0, <2>3 DEF LastAttempt
    <2> QED BY <2>4, <2>5
  <1>6. CASE PublishAndReturn(r)
    BY <1>6, <1>f DEF PublishAndReturn
  <1> QED BY <1>1, <1>2, <1>3, <1>4, <1>5, <1>6 DEF RunnerNext

\* Every step keeps it.
LEMMA NextJInv == JInv /\ [Next]_vars => JInv'
  <1> SUFFICES ASSUME JInv, [Next]_vars PROVE JInv'
    OBVIOUS
  <1> USE JobAssumption
  <1>0. IInv /\ IInv' /\ WorkingOnPending /\ LastAttempt /\ TypeOK
        /\ runner' \in [Runners -> RunnerStates]
    BY NextIInv DEF JInv, IInv, TypeOK
  <1>1. ASSUME \A r \in Runners : runner'[r] = runner[r] \/ runner'[r].pc \in {"none", "read"},
               UNCHANGED status
        PROVE  JInv'
    BY <1>0, <1>1 DEF JInv, WorkingOnPending, LastAttempt
  <1>2. ASSUME LoopNext PROVE JInv'
    <2>1. CASE Dispatch
      <3>1. PICK f \in Injection(loop.batch, {r \in Runners : ~Live(r)}) :
              /\ LoopStep("dispatch", "sleep", {})
              /\ runner' = [r \in Runners |->
                   IF \E p \in loop.batch : f[p] = r
                     THEN NewTask(CHOOSE p \in loop.batch : f[p] = r) ELSE runner[r]]
        BY <2>1 DEF Dispatch
      <3>2. \A p : NewTask(p).pc = "read"
        BY DEF NewTask
      <3>3. \A r \in Runners : runner'[r] = runner[r] \/ runner'[r].pc = "read"
        <4> TAKE r \in Runners
        <4>1. CASE \E p \in loop.batch : f[p] = r
          <5>1. runner'[r] = NewTask(CHOOSE p \in loop.batch : f[p] = r)
            BY <3>1, <4>1
          <5> QED BY <3>2, <5>1
        <4>2. CASE ~\E p \in loop.batch : f[p] = r
          BY <3>1, <4>2
        <4> QED BY <4>1, <4>2
      <3> QED BY <1>1, <3>1, <3>3 DEF LoopStep
    <2>2. CASE Tick \/ ScanPending \/ FilterInFlight \/ FilterEligible
      BY <1>1, <2>2 DEF Tick, ScanPending, FilterInFlight, FilterEligible, LoopStep
    <2> QED BY <1>2, <2>1, <2>2 DEF LoopNext
  <1>3. CASE DispatcherFails
    BY <1>1, <1>3 DEF DispatcherFails
  <1>4. ASSUME NEW r \in Runners, RunnerNext(r) PROVE JInv'
    BY <1>0, <1>4, RunnerKeeps DEF JInv
  <1>5. ASSUME NEW r \in Runners, RunnerFails(r) PROVE JInv'
    <2>1. runner'[r].pc = "none" /\ \A q \in Runners \ {r} : runner'[q] = runner[q]
      BY <1>0, <1>5 DEF RunnerFails, Finish, NoTask, TypeOK
    <2> QED BY <1>1, <1>5, <2>1 DEF RunnerFails
  <1>6. ASSUME NEW p \in Purchases, Ingest(p) \/ AdminConfirm(p) \/ AdminReverse(p) PROVE JInv'
    <2>1. runner' = runner
      BY <1>6 DEF Ingest, AdminConfirm, AdminReverse
    <2>2. \A q \in Purchases \ AdminPurchases : status[q] = "pending" => status'[q] = "pending"
      BY <1>0, <1>6 DEF Ingest, AdminConfirm, AdminReverse, TypeOK
    <2>3. \A r \in Runners : runner[r].pc # "none" => runner[r].p \in Purchases
      BY <1>0 DEF IInv, InFlightExact, Live
    <2> QED BY <1>0, <2>1, <2>2, <2>3 DEF JInv, WorkingOnPending, LastAttempt
  <1>7. ASSUME NEW p \in Purchases, ToggleFlag(p) \/ ReadForConfirmation(p) PROVE JInv'
    BY <1>1, <1>7 DEF ToggleFlag, ReadForConfirmation
  <1>8. CASE CrashAndRestart
    <2>1. \A r \in Runners : runner'[r].pc = "none"
      BY <1>8 DEF CrashAndRestart, NoTask
    <2> QED BY <1>1, <1>8, <2>1 DEF CrashAndRestart
  <1>9. CASE UNCHANGED vars
    BY <1>1, <1>9 DEF vars
  <1> QED BY <1>2, <1>3, <1>4, <1>5, <1>6, <1>7, <1>8, <1>9 DEF Next

\* The step of RejectedAfterAllAttempts.
RejectionStep ==
  \A r \in Runners :
    runner[r].pc = "settle" /\ runner[r].verdict = "pending"
      /\ status'[runner[r].p] = "rejected" /\ status[runner[r].p] # "rejected"
    => runner[r].attempt = MaxAttempts

\* A purchase whose verification never answered is rejected only by a runner that has
\* made all MaxAttempts attempts.
THEOREM NoEarlyRejection == Spec => RejectedAfterAllAttempts
  <1>1. JInv /\ [Next]_vars => [RejectionStep]_vars
    BY DEF JInv, LastAttempt, RejectionStep
  <1> QED BY <1>1, InitJInv, NextJInv, PTL DEF Spec, RejectedAfterAllAttempts, RejectionStep

\* Which steps change a status.
LEMMA StatusChanges ==
  ASSUME IInv, Next
  PROVE  \/ UNCHANGED status
         \/ \E r \in Runners : Settle(r)
         \/ \E p \in Purchases : Ingest(p) \/ AdminConfirm(p) \/ AdminReverse(p)
  BY DEF Next, LoopNext, Tick, ScanPending, FilterInFlight, FilterEligible, Dispatch, LoopStep,
     DispatcherFails, RunnerNext, RunnerRead, Verify, Wake, FinalRead, PublishAndReturn,
     RunnerFails, RunnerEnv, ToggleFlag, ReadForConfirmation, CrashAndRestart

\* The step of SettledOnce.
SettledStep ==
  \A p \in Purchases \ AdminPurchases :
    status[p] \in {"confirmed", "rejected"} => status'[p] = status[p]

\* The job settles a purchase once: neither a stale scan, nor a runner that failed
\* after its commit, nor a restart makes it write over a settled status.
THEOREM NeverSettledTwice == Spec => SettledOnce
  <1>1. ASSUME JInv, Next PROVE SettledStep
    <2>0. IInv /\ TypeOK /\ WorkingOnPending
      BY <1>1 DEF JInv, IInv
    <2>1. CASE UNCHANGED status
      BY <2>1 DEF SettledStep
    <2>2. ASSUME NEW r \in Runners, Settle(r) PROVE SettledStep
      <3>1. \A p \in Purchases \ {runner[r].p} : status'[p] = status[p]
        BY <2>0, <2>2 DEF Settle, TypeOK
      <3>2. runner[r].p \notin AdminPurchases => status[runner[r].p] = "pending"
        BY <2>0, <2>2 DEF WorkingOnPending, Settle
      <3> QED BY <3>1, <3>2 DEF SettledStep
    <2>3. ASSUME NEW p \in Purchases, Ingest(p) \/ AdminConfirm(p) \/ AdminReverse(p)
          PROVE  SettledStep
      BY <2>0, <2>3 DEF Ingest, AdminConfirm, AdminReverse, TypeOK, SettledStep
    <2> QED BY <1>1, <2>0, <2>1, <2>2, <2>3, StatusChanges
  <1>2. JInv /\ [Next]_vars => [SettledStep]_vars
    BY <1>1
  <1> QED BY <1>2, InitJInv, NextJInv, PTL DEF Spec, SettledOnce, SettledStep

\* The step of OffMeansManual.
ManualStep ==
  \A p \in Purchases : LeftAlone(p) =>
    /\ enabled'[p] \/ LeftAlone(p)'
    /\ p \notin AdminPurchases /\ status[p] = "pending" => status'[p] = "pending"

\* Once the flag of a purchase is off and what had passed the filter is through, the job
\* does not touch the purchase until the flag is on again.
THEOREM OffLeavesAlone == Spec => OffMeansManual
  <1>1. ASSUME IInv, Next PROVE ManualStep
    <2> SUFFICES ASSUME NEW p \in Purchases, LeftAlone(p)
                 PROVE  /\ enabled'[p] \/ LeftAlone(p)'
                        /\ p \notin AdminPurchases /\ status[p] = "pending" => status'[p] = "pending"
      BY DEF ManualStep
    <2>0. TypeOK /\ InFlightExact
      BY <1>1 DEF IInv
    <2>a. ~enabled[p] /\ inFlight[p] = NoRunner /\ ~(loop.pc = "dispatch" /\ p \in loop.batch)
      BY DEF LeftAlone
    <2>1. p \notin AdminPurchases /\ status[p] = "pending" => status'[p] = "pending"
      <3>1. ASSUME NEW r \in Runners, Settle(r) PROVE status'[p] = status[p]
        <4>1. Live(r)
          BY <3>1 DEF Settle, Live
        <4>2. runner[r].p # p
          BY <2>0, <2>a, <4>1, JobAssumption DEF InFlightExact
        <4> QED BY <2>0, <3>1, <4>2 DEF Settle, TypeOK
      <3>2. ASSUME NEW q \in Purchases, Ingest(q) \/ AdminConfirm(q) \/ AdminReverse(q),
                   p \notin AdminPurchases, status[p] = "pending"
            PROVE  status'[p] = "pending"
        BY <2>0, <3>2 DEF Ingest, AdminConfirm, AdminReverse, TypeOK
      <3> QED BY <1>1, <3>1, <3>2, StatusChanges
    <2>2. enabled'[p] \/ LeftAlone(p)'
      <3>u. ASSUME UNCHANGED enabled, UNCHANGED loop,
                   \/ UNCHANGED inFlight
                   \/ \E r \in Runners : Finish(r)
            PROVE  LeftAlone(p)'
        <4>1. inFlight'[p] = NoRunner
          BY <2>0, <2>a, <3>u DEF Finish, TypeOK
        <4> QED BY <2>a, <3>u, <4>1 DEF LeftAlone
      <3>1. ASSUME LoopNext PROVE LeftAlone(p)'
        <4>1. CASE Tick \/ ScanPending \/ FilterInFlight
          <5>1. enabled' = enabled /\ inFlight' = inFlight /\ loop'.pc # "dispatch"
            BY <4>1 DEF Tick, ScanPending, FilterInFlight, LoopStep
          <5> QED BY <2>a, <5>1 DEF LeftAlone
        <4>2. CASE FilterEligible
          <5>1. enabled' = enabled /\ inFlight' = inFlight /\ p \notin loop'.batch
            BY <2>a, <4>2 DEF FilterEligible, LoopStep
          <5> QED BY <2>a, <5>1 DEF LeftAlone
        <4>3. CASE Dispatch
          <5>1. enabled' = enabled /\ loop'.pc = "sleep" /\ loop.pc = "dispatch"
            BY <4>3 DEF Dispatch, LoopStep
          <5>2. inFlight'[p] = inFlight[p]
            BY <2>a, <4>3, <5>1 DEF Dispatch
          <5> QED BY <2>a, <5>1, <5>2 DEF LeftAlone
        <4> QED BY <3>1, <4>1, <4>2, <4>3 DEF LoopNext
      <3>2. CASE DispatcherFails
        <4>1. enabled' = enabled /\ inFlight' = inFlight /\ loop'.pc = "dead"
          BY <3>2 DEF DispatcherFails
        <4> QED BY <2>a, <4>1 DEF LeftAlone
      <3>3. ASSUME NEW r \in Runners, RunnerNext(r) \/ RunnerFails(r) PROVE LeftAlone(p)'
        <4>1. UNCHANGED enabled /\ UNCHANGED loop
          BY <3>3 DEF RunnerNext, RunnerFails, RunnerRead, Verify, Wake, FinalRead, Settle,
             PublishAndReturn, RunnerEnv
        <4>2. UNCHANGED inFlight \/ Finish(r)
          BY <3>3 DEF RunnerNext, RunnerFails, RunnerRead, Verify, Wake, FinalRead, Settle,
             PublishAndReturn, RunnerEnv
        <4> QED BY <3>u, <4>1, <4>2
      <3>4. ASSUME NEW q \in Purchases,
                   Ingest(q) \/ ReadForConfirmation(q) \/ AdminConfirm(q) \/ AdminReverse(q)
            PROVE  LeftAlone(p)'
        BY <3>4, <3>u DEF Ingest, ReadForConfirmation, AdminConfirm, AdminReverse
      <3>5. ASSUME NEW q \in Purchases, ToggleFlag(q) PROVE enabled'[p] \/ LeftAlone(p)'
        <4>1. CASE q = p
          BY <2>0, <2>a, <3>5, <4>1 DEF ToggleFlag, TypeOK
        <4>2. CASE q # p
          BY <2>0, <2>a, <3>5, <4>2 DEF ToggleFlag, TypeOK, LeftAlone
        <4> QED BY <4>1, <4>2
      <3>6. CASE CrashAndRestart
        <4>1. enabled' = enabled /\ inFlight'[p] = NoRunner /\ loop'.pc = "scan"
          BY <3>6 DEF CrashAndRestart, NewLoop
        <4> QED BY <2>a, <4>1 DEF LeftAlone
      <3> QED BY <1>1, <3>1, <3>2, <3>3, <3>4, <3>5, <3>6 DEF Next
    <2> QED BY <2>1, <2>2
  <1>2. IInv /\ [Next]_vars => [ManualStep]_vars
    BY <1>1
  <1> QED BY <1>2, InitIInv, NextIInv, PTL DEF Spec, OffMeansManual, ManualStep
=============================================================================
