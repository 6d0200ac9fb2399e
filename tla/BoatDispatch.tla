----------------------------- MODULE BoatDispatch -----------------------------
(***************************************************************************)
(* The Boat passes over ONE Boat job (src/stado-rs/src/scheduler/dispatch/ *)
(* box): ticks that reconcile the running job and admit the queued one,    *)
(* and cancellations, over the job's prefix, its provider lease and the    *)
(* sandboxes Boat holds.  Every call to the store or to Boat is a step; an *)
(* invocation may fail or die between any two of them.                     *)
(*                                                                         *)
(* The lease is used as the lock it implements (LeaseLock; the refinement  *)
(* is proved in ProviderLeaseProofs): the invocation holding it is the only *)
(* writer of the lease document, and holds it until it relinquishes or     *)
(* ends.                                                                   *)
(***************************************************************************)
EXTENDS Integers

CONSTANTS
    Ticks,        \* invocations of run_box_tick, each repeated for ever
    Stops,        \* cancellations and deletions, each made once
    Boxes,        \* sandboxes Boat may create
    MaxFaults,    \* failed or dying invocations (bound)
    MaxRequeues,  \* moves of the job back to queue/ by a cloud arm (bound)
    None

Sessions == Ticks \cup Stops

LeaseStates == {"absent", "allocating", "provisioning", "ready", "starting",
                "running", "collecting", "failed", "releasing", "released"}

Ended == {"failed", "releasing", "released"}

ASSUME BoatAssumption ==
    /\ Ticks \cap Stops = {}
    /\ None \notin Sessions /\ None \notin Boxes
    /\ MaxFaults \in Nat /\ MaxRequeues \in Nat

VARIABLES
    executor,    \* "command" or "prompt" (box-prompt)
    deletes,     \* the Stops that are delete_instance, not cancel_box_job
    admissible,  \* whether the job's own record and the provider admit it
    job,         \* the prefix of the job
    paused,      \* queue control: the fleet admits nothing
    lease,       \* the provider lease document
    holder,      \* the invocation that owns it
    box,         \* box[b]: "none", "pending", "serving", "error" or "down"
    work,        \* work[b]: "idle", "running", "ok", "bad" or "killed"
    launches,    \* workloads started
    arrived,     \* those started by a prompt whose sender had died
    late,        \* sandboxes with such a prompt still under way
    artifacts,   \* the job's artifacts are in the store
    pc,          \* pc[s]: the next call of invocation s
    made,        \* made[s]: the sandbox s created and has not recorded
    faults,      \* failed invocations
    requeues     \* moves back to queue/

world == <<executor, deletes, admissible>>
boat == <<box, work, launches, arrived, late>>
store == <<job, paused, lease, artifacts>>
session == <<holder, pc, made>>
budget == <<faults, requeues>>
vars == <<world, boat, store, session, budget>>

Lock == INSTANCE LeaseLock

\* The steps an invocation makes while it owns the lease.
Owning == {"look", "start", "launch", "recover", "submit", "started", "poll",
           "fail", "gone", "vanished", "resume", "collected", "freed",
           "relinquish", "interrupt", "provision", "record", "move",
           "refused", "kept", "yield"}

TypeOK ==
    /\ executor \in {"command", "prompt"}
    /\ deletes \in SUBSET Stops /\ admissible \in BOOLEAN
    /\ job \in {"queue", "running", "completed", "failed"}
    /\ paused \in BOOLEAN
    /\ lease \in [state: LeaseStates, box: Boxes \cup {None},
                  prompt: BOOLEAN, result: {"none", "completed", "failed"}]
    /\ holder \in Sessions \cup {None}
    /\ box \in [Boxes -> {"none", "pending", "serving", "error", "down"}]
    /\ work \in [Boxes -> {"idle", "running", "ok", "bad", "killed"}]
    /\ launches \in Nat /\ arrived \in Nat /\ late \in SUBSET Boxes
    /\ artifacts \in BOOLEAN
    /\ pc \in [Sessions -> {"idle", "acquire", "control", "admit", "claim",
                            "done"} \cup Owning]
    /\ made \in [Sessions -> Boxes \cup {None}]
    /\ faults \in Nat /\ requeues \in Nat

Init ==
    /\ executor \in {"command", "prompt"}
    /\ deletes \in SUBSET Stops /\ admissible \in BOOLEAN
    /\ job = "queue" /\ paused = FALSE /\ artifacts = FALSE
    /\ lease = [state |-> "absent", box |-> None, prompt |-> FALSE,
                result |-> "none"]
    /\ holder = None
    /\ box = [b \in Boxes |-> "none"]
    /\ work = [b \in Boxes |-> "idle"]
    /\ launches = 0 /\ arrived = 0 /\ late = {}
    /\ pc = [s \in Sessions |-> "idle"]
    /\ made = [s \in Sessions |-> None]
    /\ faults = 0 /\ requeues = 0

-----------------------------------------------------------------------------
\* Building blocks

At(s, p) == pc[s] = p
Go(s, p) == pc' = [pc EXCEPT ![s] = p]

\* Mutant of Result: a cancellation records a word of its own.
ResultCancelled(s) == IF s \in Stops THEN "cancelled" ELSE lease.result

\* A cancellation keeps result_state = failed in memory and writes it with
\* every save; a tick writes the result the lease records.
Result(s) == IF s \in Stops THEN "failed" ELSE lease.result

\* The lease document saved in another state.
Save(s, st) == lease' = [lease EXCEPT !.state = st, !.result = Result(s)]

\* ProviderLeaseStore::acquire: the lease is created when there is none.
Acquire(s) ==
    /\ Lock!Take(s)
    /\ lease' = IF lease.state = "absent"
                THEN [lease EXCEPT !.state = "allocating"] ELSE lease

\* The invocation of a tick starts over; that of a cancellation is over.
Rest(s) == IF s \in Ticks THEN "idle" ELSE "done"

\* The invocation ends or dies: its lease, if it owns one, has no live owner.
Leave(s) ==
    /\ holder' = IF holder = s THEN None ELSE holder
    /\ pc' = [pc EXCEPT ![s] = Rest(s)]
    /\ made' = [made EXCEPT ![s] = None]

B == lease.box
BoxGone == box[B] \in {"none", "down"}

-----------------------------------------------------------------------------
\* Reconciling the running job

\* reconcile_box_jobs: the running jobs are listed, then the queued ones.
List(s) ==
    /\ At(s, "idle") /\ s \in Ticks
    /\ Go(s, IF job = "running" THEN "acquire" ELSE "control")
    /\ UNCHANGED <<world, boat, store, holder, made, budget>>

AcquireRunning(s) ==
    /\ At(s, "acquire")
    /\ Acquire(s) /\ Go(s, "look")
    /\ UNCHANGED <<world, boat, job, paused, artifacts, made, budget>>

Conflict(s) ==
    /\ pc[s] \in {"acquire", "admit", "claim"} /\ holder # None
    /\ Go(s, CASE At(s, "acquire") -> "control"
               [] At(s, "admit") -> "idle"
               [] At(s, "claim") -> "done")
    /\ UNCHANGED <<world, boat, store, holder, made, budget>>

\* reconcile_one up to the call it leaves to: a terminal lease is resumed; a
\* sandbox Boat no longer holds fails the job; a serving one turns ready.
Look(s) ==
    /\ At(s, "look")
    /\ \/ /\ lease.state \in Ended \cup {"collecting"}
          /\ Go(s, "resume") /\ UNCHANGED lease
       \/ /\ lease.state \notin Ended \cup {"collecting"}
          /\ \/ BoxGone /\ Go(s, "gone") /\ UNCHANGED lease
             \/ box[B] = "error" /\ Go(s, "fail") /\ UNCHANGED lease
             \/ /\ lease.state = "provisioning" /\ box[B] = "pending"
                /\ Go(s, "relinquish") /\ UNCHANGED lease
             \/ /\ lease.state = "provisioning" /\ box[B] = "serving"
                /\ Save(s, "ready") /\ Go(s, "start")
             \/ /\ lease.state = "ready" /\ box[B] = "serving"
                /\ Go(s, "start") /\ UNCHANGED lease
             \/ /\ lease.state = "starting" /\ box[B] = "serving"
                /\ Go(s, IF executor = "prompt" THEN "recover" ELSE "launch")
                /\ UNCHANGED lease
             \/ /\ lease.state = "running" /\ box[B] = "serving"
                /\ Go(s, "poll") /\ UNCHANGED lease
    /\ UNCHANGED <<world, boat, job, paused, artifacts, holder, made, budget>>

\* start: STARTING is saved before anything reaches the sandbox.
Start(s) ==
    /\ At(s, "start")
    /\ Save(s, "starting")
    /\ Go(s, IF executor = "prompt" THEN "recover" ELSE "launch")
    /\ UNCHANGED <<world, boat, job, paused, artifacts, holder, made, budget>>

\* Mutant of Launch: the launch shell does not look for an earlier launch.
LaunchAgain(s) ==
    /\ At(s, "launch") /\ box[B] = "serving"
    /\ work' = [work EXCEPT ![B] = "running"]
    /\ launches' = launches + 1
    /\ Go(s, "started")
    /\ UNCHANGED <<world, box, arrived, late, store, holder, made, budget>>

\* The launch shell: a launch marker without a live or finished process fails
\* the job; an earlier launch is left alone.
Launch(s) ==
    /\ At(s, "launch") /\ box[B] = "serving"
    /\ \/ /\ work[B] = "idle"
          /\ work' = [work EXCEPT ![B] = "running"]
          /\ launches' = launches + 1
          /\ Go(s, "started")
       \/ /\ work[B] \in {"running", "ok", "bad"}
          /\ Go(s, "started") /\ UNCHANGED <<work, launches>>
       \/ /\ work[B] = "killed"
          /\ Go(s, "fail") /\ UNCHANGED <<work, launches>>
    /\ UNCHANGED <<world, box, arrived, late, store, holder, made, budget>>

\* start_prompt: a prompt the sandbox's log already carries is adopted.
Recover(s) ==
    /\ At(s, "recover") /\ box[B] = "serving"
    /\ Go(s, IF work[B] = "idle" THEN "submit" ELSE "started")
    /\ UNCHANGED <<world, boat, store, holder, made, budget>>

\* A prompt reaches the sandbox; it is answered with its id or without one.
Submit(s) ==
    /\ At(s, "submit") /\ box[B] = "serving"
    /\ work' = [work EXCEPT ![B] = "running"]
    /\ launches' = launches + 1
    /\ \E p \in {"started", "fail"} : Go(s, p)
    /\ UNCHANGED <<world, box, arrived, late, store, holder, made, budget>>

\* The sender dies with its prompt under way, and the prompt arrives later.
SubmitDying(s) ==
    /\ At(s, "submit") /\ box[B] = "serving" /\ faults < MaxFaults
    /\ late' = late \cup {B}
    /\ faults' = faults + 1
    /\ Leave(s)
    /\ UNCHANGED <<world, box, work, launches, arrived, store, requeues>>

Arrive(b) ==
    /\ b \in late
    /\ late' = late \ {b}
    /\ IF box[b] = "serving"
       THEN /\ work' = [work EXCEPT ![b] = IF @ = "idle" THEN "running" ELSE @]
            /\ launches' = launches + 1 /\ arrived' = arrived + 1
       ELSE UNCHANGED <<work, launches, arrived>>
    /\ UNCHANGED <<world, box, store, session, budget>>

\* start_refused_for_good: the sandbox refuses the start, or is gone.
Refused(s) ==
    /\ pc[s] \in {"launch", "recover", "submit"}
    /\ Go(s, "fail")
    /\ UNCHANGED <<world, boat, store, holder, made, budget>>

Started(s) ==
    /\ At(s, "started")
    /\ lease' = [lease EXCEPT !.state = "running",
                              !.prompt = (executor = "prompt")]
    /\ Go(s, "relinquish")
    /\ UNCHANGED <<world, boat, job, paused, artifacts, holder, made, budget>>

\* reconcile_running and complete: nothing while no outcome can be read (a
\* killed command writes no exit file); the outcome is saved with COLLECTING.
Poll(s) ==
    /\ At(s, "poll")
    /\ \/ /\ work[B] \in {"running", "killed"} \/ box[B] # "serving"
          /\ Go(s, "relinquish") /\ UNCHANGED lease
       \/ /\ work[B] \in {"ok", "bad"} /\ box[B] = "serving"
          /\ lease' = [lease EXCEPT !.state = "collecting",
                          !.result = IF work[B] = "ok" THEN "completed"
                                     ELSE "failed"]
          /\ Go(s, "resume")
    /\ UNCHANGED <<world, boat, job, paused, artifacts, holder, made, budget>>

-----------------------------------------------------------------------------
\* Ending a workload

\* fail: FAILED is saved unless the lease is already ending.
Fail(s) ==
    /\ pc[s] \in {"fail", "gone"}
    /\ lease' = IF lease.state \in Ended THEN lease
                ELSE [lease EXCEPT !.state = "failed", !.result = "failed"]
    /\ Go(s, IF At(s, "gone") THEN "vanished" ELSE "resume")
    /\ UNCHANGED <<world, boat, job, paused, artifacts, holder, made, budget>>

\* fail of a job whose sandbox is gone: nothing is left to release.
Vanished(s) ==
    /\ At(s, "vanished")
    /\ Save(s, IF lease.state = "failed" THEN "releasing" ELSE "released")
    /\ Go(s, IF lease.state = "failed" THEN "vanished" ELSE "resume")
    /\ UNCHANGED <<world, boat, job, paused, artifacts, holder, made, budget>>

\* resume_terminal, one call at a time.  Artifacts come out of a sandbox that
\* still serves; anything else is an error, met again at the next tick.
Upload(s) ==
    /\ At(s, "resume") /\ lease.state = "collecting"
    /\ Result(s) = "completed"
    /\ box[B] = "serving"
    /\ artifacts' = TRUE
    /\ Go(s, "collected")
    /\ UNCHANGED <<world, boat, job, paused, lease, holder, made, budget>>

\* Mutant of NoArtifacts: the failed collection is passed over.
NoArtifactsIgnored(s) ==
    /\ At(s, "resume") /\ lease.state = "collecting"
    /\ Result(s) = "completed"
    /\ box[B] # "serving"
    /\ Go(s, "collected")
    /\ UNCHANGED <<world, boat, store, holder, made, budget>>

NoArtifacts(s) ==
    /\ At(s, "resume") /\ lease.state = "collecting"
    /\ Result(s) = "completed"
    /\ box[B] # "serving"
    /\ Go(s, "relinquish")
    /\ UNCHANGED <<world, boat, store, holder, made, budget>>

Resume(s) ==
    /\ \/ At(s, "collected")
       \/ /\ At(s, "resume")
          /\ \/ lease.state = "failed"
             \/ lease.state = "collecting" /\ Result(s) # "completed"
    /\ Save(s, "releasing")
    /\ Go(s, "resume")
    /\ UNCHANGED <<world, boat, job, paused, artifacts, holder, made, budget>>

\* Mutant of ReleaseBox: only a sandbox that serves is stopped.
ReleaseServing(s) ==
    /\ At(s, "resume") /\ lease.state = "releasing"
    /\ box' = [box EXCEPT ![B] = IF @ = "serving" THEN "down" ELSE @]
    /\ Go(s, "freed")
    /\ UNCHANGED <<world, work, launches, arrived, late, store, holder, made, budget>>

\* release_box: a sandbox that is gone or stopped already is released.
ReleaseBox(s) ==
    /\ At(s, "resume") /\ lease.state = "releasing"
    /\ box' = [box EXCEPT ![B] = "down"]
    /\ Go(s, "freed")
    /\ UNCHANGED <<world, work, launches, arrived, late, store, holder, made, budget>>

SaveReleased(s) ==
    /\ At(s, "freed")
    /\ Save(s, "released")
    /\ Go(s, "resume")
    /\ UNCHANGED <<world, boat, job, paused, artifacts, holder, made, budget>>

\* Mutant of MoveTerminal: a failed job is left to somebody else.
MoveCompletedOnly(s) ==
    /\ At(s, "resume") /\ lease.state = "released" /\ s \notin deletes
    /\ job' = IF job = "running" /\ Result(s) = "completed" THEN "completed"
              ELSE job
    /\ Go(s, "relinquish")
    /\ UNCHANGED <<world, boat, paused, lease, artifacts, holder, made, budget>>

\* The released job moves to its terminal prefix; a job that left running/
\* since it was listed is an error, and stays where it is.
MoveTerminal(s) ==
    /\ At(s, "resume") /\ lease.state = "released" /\ s \notin deletes
    /\ job' = IF job # "running" THEN job
              ELSE IF Result(s) = "completed" THEN "completed" ELSE "failed"
    /\ Go(s, "relinquish")
    /\ UNCHANGED <<world, boat, paused, lease, artifacts, holder, made, budget>>

Relinquish(s) ==
    /\ pc[s] \in {"relinquish", "yield"}
    /\ Lock!Leave(s)
    /\ Go(s, IF s \in Ticks /\ At(s, "relinquish") THEN "control" ELSE Rest(s))
    /\ UNCHANGED <<world, boat, store, made, budget>>

\* Failing, releasing and saving are all a tick does to end a workload and all
\* a cancellation does.
Ending(s) ==
    \/ Fail(s) \/ Vanished(s) \/ Upload(s) \/ NoArtifacts(s) \/ Resume(s)
    \/ ReleaseBox(s) \/ SaveReleased(s) \/ MoveTerminal(s) \/ Relinquish(s)

-----------------------------------------------------------------------------
\* Cancelling

\* cancel_box_job is given the running job; delete_instance looks for the one
\* that refers to the sandbox.
FindRunning(s) ==
    /\ At(s, "idle") /\ s \in Stops
    /\ job = "running"
    /\ Go(s, "claim")
    /\ UNCHANGED <<world, boat, store, holder, made, budget>>

\* No running job refers to the sandbox: it is deleted without the lease.
DeleteUnused(s) ==
    /\ At(s, "idle") /\ s \in deletes
    /\ job # "running"
    /\ \E b \in Boxes : box[b] # "none" /\ box' = [box EXCEPT ![b] = "down"]
    /\ Go(s, "done")
    /\ UNCHANGED <<world, work, launches, arrived, late, store, holder, made, budget>>

AcquireCancelled(s) ==
    /\ At(s, "claim")
    /\ Acquire(s) /\ Go(s, "interrupt")
    /\ UNCHANGED <<world, boat, job, paused, artifacts, made, budget>>

\* interrupt: a command's process group is killed, a prompt's run is ended;
\* a sandbox that is gone or has no work is no error.
Interrupt(s) ==
    /\ At(s, "interrupt")
    /\ work' = IF box[B] = "serving" /\ work[B] = "running"
               THEN [work EXCEPT ![B] = IF executor = "command" THEN "killed"
                                        ELSE "bad"]
               ELSE work
    /\ Go(s, "fail")
    /\ UNCHANGED <<world, box, launches, arrived, late, store, holder, made, budget>>

\* cancel_box_for_legacy_move leaves the released job in running/ for a tick
\* to move, and does not relinquish.
DeleteDone(s) ==
    /\ At(s, "resume") /\ lease.state = "released" /\ s \in deletes
    /\ Leave(s)
    /\ UNCHANGED <<world, boat, store, budget>>

-----------------------------------------------------------------------------
\* Admitting the queued job

\* dispatch_box_jobs: the pause is read once, then the queued jobs.
Control(s) ==
    /\ At(s, "control")
    /\ Go(s, IF ~paused /\ job = "queue" THEN "admit" ELSE "idle")
    /\ UNCHANGED <<world, boat, store, holder, made, budget>>

FailQueued == job' = IF job = "queue" THEN "failed" ELSE job

Inadmissible(s) ==
    /\ At(s, "admit") /\ ~admissible
    /\ FailQueued /\ Go(s, "idle")
    /\ UNCHANGED <<world, boat, paused, lease, artifacts, holder, made, budget>>

AcquireQueued(s) ==
    /\ At(s, "admit") /\ admissible
    /\ Acquire(s) /\ Go(s, "provision")
    /\ UNCHANGED <<world, boat, job, paused, artifacts, made, budget>>

\* provision_and_move with a sandbox on record: an ended lease fails the job,
\* any other is carried on with.
Reuse(s) ==
    /\ At(s, "provision") /\ B # None
    /\ IF lease.state \in Ended
       THEN FailQueued /\ Go(s, IF job = "queue" THEN "yield" ELSE "kept")
       ELSE Go(s, "move") /\ UNCHANGED job
    /\ UNCHANGED <<world, boat, paused, lease, artifacts, holder, made, budget>>

\* create_box; its answer may be lost, or nothing may be created at all.
Create(s) ==
    /\ At(s, "provision") /\ B = None
    /\ \/ \E b \in Boxes :
             /\ box[b] = "none"
             /\ box' = [box EXCEPT ![b] = "pending"]
             /\ \/ made' = [made EXCEPT ![s] = b] /\ Go(s, "record")
                \/ UNCHANGED made /\ Go(s, "refused")
       \/ UNCHANGED <<box, made>> /\ Go(s, "refused")
    /\ UNCHANGED <<world, work, launches, arrived, late, store, holder, budget>>

\* Mutant of Record: the state is saved without the sandbox.
RecordState(s) ==
    /\ At(s, "record")
    /\ lease' = [lease EXCEPT !.state = "provisioning"]
    /\ Go(s, "move")
    /\ made' = [made EXCEPT ![s] = None]
    /\ UNCHANGED <<world, boat, job, paused, artifacts, holder, budget>>

\* The sandbox is recorded and PROVISIONING saved in one write, if the lease
\* is still ALLOCATING; the answer of the save may be lost.
Record(s) ==
    /\ At(s, "record")
    /\ IF lease.state = "allocating"
       THEN /\ lease' = [lease EXCEPT !.state = "provisioning", !.box = made[s]]
            /\ \E p \in {"move", "refused"} : Go(s, p)
       ELSE UNCHANGED lease /\ Go(s, "refused")
    /\ made' = [made EXCEPT ![s] = None]
    /\ UNCHANGED <<world, boat, job, paused, artifacts, holder, budget>>

Move(s) ==
    /\ At(s, "move")
    /\ job' = IF job = "queue" THEN "running" ELSE job
    /\ Go(s, IF job = "queue" THEN "yield" ELSE "kept")
    /\ UNCHANGED <<world, boat, paused, lease, artifacts, holder, made, budget>>

\* An error before the sandbox was known to be recorded fails the job; the
\* lease is not relinquished and is held until the invocation returns.
AdmitError(s) ==
    /\ At(s, "refused")
    /\ FailQueued /\ Go(s, "kept")
    /\ UNCHANGED <<world, boat, paused, lease, artifacts, holder, made, budget>>

Return(s) ==
    /\ At(s, "kept")
    /\ Leave(s)
    /\ UNCHANGED <<world, boat, store, budget>>

-----------------------------------------------------------------------------
\* Everything else

\* The invocation dies, or a call fails in a way that ends its work on the job.
Fault(s) ==
    /\ pc[s] \notin {"idle", "done"} /\ faults < MaxFaults
    /\ faults' = faults + 1
    /\ Leave(s)
    /\ UNCHANGED <<world, boat, store, requeues>>

\* The check_running_jobs of another provider's arm does not know the sandbox
\* and requeues the job, or fails it at its second loss.
CloudRequeue ==
    /\ job = "running" /\ requeues < MaxRequeues
    /\ job' = IF requeues = 0 THEN "queue" ELSE "failed"
    /\ requeues' = requeues + 1
    /\ UNCHANGED <<world, boat, paused, lease, artifacts, session, faults>>

\* set_paused.
SetPaused ==
    /\ paused' = ~paused
    /\ UNCHANGED <<world, boat, job, lease, artifacts, session, budget>>

\* Boat: a sandbox boots, then errs or goes down at any time (its lifetime
\* ended, Boat stopped or cancelled it); its workload ends.
BoxServes(b) ==
    /\ box[b] = "pending"
    /\ box' = [box EXCEPT ![b] = "serving"]
    /\ UNCHANGED <<world, work, launches, arrived, late, store, session, budget>>

BoxEnds(b) ==
    /\ box[b] \in {"pending", "serving"}
    /\ \E st \in {"error", "down"} : box' = [box EXCEPT ![b] = st]
    /\ UNCHANGED <<world, work, launches, arrived, late, store, session, budget>>

WorkEnds(b) ==
    /\ work[b] = "running" /\ box[b] = "serving"
    /\ \E r \in {"ok", "bad"} : work' = [work EXCEPT ![b] = r]
    /\ UNCHANGED <<world, box, launches, arrived, late, store, session, budget>>

Reconcile(s) ==
    \/ List(s) \/ AcquireRunning(s) \/ Conflict(s) \/ Look(s) \/ Start(s)
    \/ Launch(s) \/ Recover(s) \/ Submit(s) \/ Refused(s) \/ Started(s)
    \/ Poll(s)

Admission(s) ==
    \/ Control(s) \/ Inadmissible(s) \/ AcquireQueued(s) \/ Reuse(s)
    \/ Create(s) \/ Record(s) \/ Move(s) \/ AdmitError(s) \/ Return(s)

Cancelling(s) == AcquireCancelled(s) \/ Interrupt(s) \/ DeleteDone(s)

Step(s) == Reconcile(s) \/ Ending(s) \/ Admission(s) \/ Cancelling(s)

Next ==
    \/ \E s \in Sessions :
         \/ Step(s) \/ FindRunning(s) \/ DeleteUnused(s)
         \/ SubmitDying(s) \/ Fault(s)
    \/ \E b \in Boxes :
         BoxServes(b) \/ BoxEnds(b) \/ WorkEnds(b) \/ Arrive(b)
    \/ CloudRequeue \/ SetPaused

Spec == Init /\ [][Next]_vars

\* Ticks recur and an invocation in progress goes on; a sandbox boots or ends;
\* a workload ends.  Nothing makes an operator cancel or a call fail.
FairSpec ==
    /\ Spec
    /\ \A s \in Sessions : WF_vars(Step(s))
    /\ \A b \in Boxes : WF_vars(BoxServes(b)) /\ WF_vars(WorkEnds(b))

-----------------------------------------------------------------------------
\* Properties

\* A workload is started once, whoever dies between starting it and saving
\* that it runs, and however often a later tick carries the start on
\* (start.rs: "idempotent"); the exception is a prompt that outlived its
\* sender and reached the sandbox after the log was read.
StartedOnce == launches <= 1 + arrived

\* A completed job's workload ended well, its artifacts were collected before
\* its sandbox was released, and the lease has nothing left to do
\* (terminal.rs: collect, release, then move).
CompletedCollected ==
    job = "completed" =>
        /\ lease.state = "released" /\ B # None
        /\ work[B] = "ok" /\ artifacts /\ box[B] = "down"

\* A lease that says RELEASED has no sandbox left running, however its job
\* ended: the release is saved after the sandbox went, never before.
ReleasedIsDown == lease.state = "released" => B # None /\ box[B] = "down"

\* A job in running/ has its sandbox on record, so every tick can find it
\* again (admit.rs: the record is saved before the move).
RunningRecorded == job = "running" => B # None /\ lease.state # "allocating"

\* The two situations no later tick gets out of: the sandbox went while a
\* finished job's artifacts were still in it, and a command killed by a
\* cancellation that died before it saved FAILED.
Wedged ==
    /\ B # None
    /\ \/ /\ lease.state = "collecting" /\ lease.result = "completed"
          /\ box[B] # "serving"
       \/ lease.state = "running" /\ work[B] = "killed"

\* A running Boat job leaves running/, unless it is wedged.
RunningEnds == job = "running" ~> (job # "running" \/ Wedged)
=============================================================================
