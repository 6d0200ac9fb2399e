----------------------------- MODULE FleetMonitor -----------------------------
(***************************************************************************)
(* ONE job on the worker fleet: the slots that claim, renew and finish it  *)
(* (src/stado-rs/src/providers/local/slots), the lease reaper              *)
(* (queue/reaper), and the two passes of a cloud arm that look for lost    *)
(* workers (monitor/monitor: check_running_jobs, reap_dead_agents).  One   *)
(* tick runs at a time (TickLock).                                         *)
(*                                                                         *)
(* A lifecycle move is one step here, the one JobTransition takes apart.   *)
(* Its version pin is the Boolean pin[a]: nothing has changed the job's    *)
(* document since actor a read it.  No time is measured: a promise         *)
(* passes at any moment, and what a tick reads of a host's capacity row    *)
(* or of a machine's age is any answer the code can get.                   *)
(***************************************************************************)
EXTENDS Integers

CONSTANTS
    Cloud,      \* hosts that are agent VMs of the cloud provider
    Local,      \* hosts the operator owns
    Tick,       \* the coordinator tick
    Traits,     \* what the job may declare, as sets of words
    MaxClaims,  \* claims of the job (bound)
    MaxFaults,  \* dying agents and VMs, failing ticks (bound)
    None

Hosts == Cloud \cup Local
Actors == Hosts \cup {Tick}

\* The kinds of loss: the words of a reason before its parenthesis.
Losses == {"lease", "replaced", "orphan", "gone", "stale", "reaped"}

ASSUME FleetAssumption ==
    /\ Cloud \cap Local = {} /\ Tick \notin Hosts /\ None \notin Hosts
    /\ Traits \subseteq SUBSET {"maintenance", "spot", "own", "release"}
    /\ MaxClaims \in Nat /\ MaxFaults \in Nat

VARIABLES
    traits,    \* terminates_agent, preemptible, submitter_restarts, a release
    job,       \* the prefix of the job
    doc,       \* its document: host, whether its promise holds, last loss
    written,   \* a pulse or checkpoint is newer than a promise that passed
    status,    \* the word in status/<job>/status
    receipt,   \* a release's verified output: of this attempt or an earlier
    stored,    \* the output of a workload that ended well is in the store
    vm,        \* vm[h]: the machine of h exists
    agent,     \* agent[h]: its agent runs
    slot,      \* slot[h]: what the agent still has to do for the job
    proc,      \* proc[h]: the workload its slot started
    orphan,    \* orphan[h]: a workload that outlived its agent
    pc, pin,   \* the next call of an actor, and its pin
    why,       \* the loss the tick acts on, or the status word it read
    scan,      \* the host the tick looks at, and what it saw of it
    claims, faults

workers == <<vm, agent, slot, proc, orphan>>
pass == <<pc, why, scan>>
facts == <<status, receipt, stored>>
tally == <<claims, faults>>
vars == <<traits, job, doc, written, facts, workers, pass, pin, tally>>

Words == {"COMPLETED", "FAILED"}

TypeOK ==
    /\ traits \in Traits
    /\ job \in {"queue", "running", "completed", "failed"}
    /\ doc \in [host: Hosts \cup {None}, live: BOOLEAN, err: Losses \cup {None}]
    /\ written \in BOOLEAN /\ stored \in BOOLEAN
    /\ status \in {"none", "RUNNING"} \cup Words
    /\ receipt \in {"none", "new", "old"}
    /\ vm \in [Hosts -> BOOLEAN] /\ agent \in [Hosts -> BOOLEAN]
    /\ slot \in [Hosts -> {"none", "claimed", "running", "uploaded", "said"}]
    /\ proc \in [Hosts -> {"none", "running", "ok", "bad"}]
    /\ orphan \in [Hosts -> BOOLEAN]
    /\ pc \in [Actors -> {"idle", "init", "settle", "tidy", "releases", "list",
                          "status", "dismiss", "word", "judge", "requeue",
                          "lose", "kill", "sweep", "alive", "relist", "race",
                          "delete"}]
    /\ pin \in [Actors -> BOOLEAN]
    /\ why \in Losses \cup Words \cup {"preempted", None}
    /\ scan \in [host: Hosts \cup {None}, mine: BOOLEAN, safety: BOOLEAN]
    /\ claims \in Nat /\ faults \in Nat

\* No host is looked at.
Unseen == [host |-> None, mine |-> FALSE, safety |-> FALSE]

Init ==
    /\ traits \in Traits
    /\ job = "queue" /\ doc = [host |-> None, live |-> FALSE, err |-> None]
    /\ written = FALSE /\ status = "none" /\ receipt = "none" /\ stored = FALSE
    /\ vm = [h \in Hosts |-> TRUE] /\ agent = [h \in Hosts |-> TRUE]
    /\ slot = [h \in Hosts |-> "none"] /\ proc = [h \in Hosts |-> "none"]
    /\ orphan = [h \in Hosts |-> FALSE]
    /\ pc = [a \in Actors |-> "idle"] /\ pin = [a \in Actors |-> FALSE]
    /\ why = None /\ scan = Unseen
    /\ claims = 0 /\ faults = 0

-----------------------------------------------------------------------------
\* Building blocks

Running == job = "running"

\* job_liveness: the promise passed and nothing was written after it.
Lapsed == ~doc.live /\ ~written

\* The document is written: every pin on it is lost.
Put(p, d) == job' = p /\ doc' = d /\ pin' = [a \in Actors |-> FALSE]
Keep == UNCHANGED <<job, doc, pin>>

\* A dead agent takes no step.
Lives(a) == a \in Hosts => agent[a]

\* Actor a goes on at p; a tick that is over remembers nothing.
Go(a, p) ==
    /\ pc' = [pc EXCEPT ![a] = p]
    /\ IF a = Tick /\ p = "idle" THEN why' = None /\ scan' = Unseen
       ELSE UNCHANGED <<why, scan>>

\* The tick goes on at p with loss or word w and host s in view.
Aim(p, w, s) == pc' = [pc EXCEPT ![Tick] = p] /\ why' = w /\ scan' = s

\* The versioned read a pinned move decides from.
Pin(a) == pin' = [pin EXCEPT ![a] = TRUE] /\ UNCHANGED <<job, doc>>

\* Where an actor goes on after it took, or did not take, the job away.
Onward(a, moved) ==
    CASE a = Tick /\ why = "lease" -> "releases"
      [] a = Tick /\ why \in {"orphan", "gone", "preempted"} ->
            IF moved THEN "kill" ELSE "sweep"
      [] a = Tick /\ why \in {"stale"} \cup Words -> "sweep"
      [] OTHER -> "idle"

\* The machine of h ends, with everything on it.
Down(h) ==
    /\ vm' = [vm EXCEPT ![h] = FALSE]
    /\ agent' = [agent EXCEPT ![h] = FALSE]
    /\ slot' = [slot EXCEPT ![h] = "none"]
    /\ proc' = [proc EXCEPT ![h] = "none"]
    /\ orphan' = [orphan EXCEPT ![h] = FALSE]

-----------------------------------------------------------------------------
\* A worker's slot

Claimed(h) ==
    /\ Put("running", [doc EXCEPT !.host = h, !.live = TRUE])
    /\ written' = FALSE
    /\ claims' = claims + 1

\* start_slot; an agent that has a slot of the job passes it over.
Claim(h) ==
    /\ agent[h] /\ pc[h] = "idle" /\ slot[h] = "none"
    /\ job = "queue" /\ claims < MaxClaims
    /\ Claimed(h)
    /\ receipt' = IF receipt = "none" THEN "none" ELSE "old"
    /\ slot' = [slot EXCEPT ![h] = "claimed"]
    /\ UNCHANGED <<traits, status, stored, vm, agent, proc, orphan, pass,
                   faults>>

\* The status word, then the process; one that cannot be spawned fails the job.
Spawn(h) ==
    /\ slot[h] = "claimed"
    /\ status' = "RUNNING"
    /\ \/ /\ slot' = [slot EXCEPT ![h] = "running"]
          /\ proc' = [proc EXCEPT ![h] = "running"]
          /\ Keep
       \/ /\ slot' = [slot EXCEPT ![h] = "none"]
          /\ IF Running THEN Put("failed", doc) ELSE Keep
          /\ UNCHANGED proc
    /\ UNCHANGED <<traits, written, receipt, stored, vm, agent, orphan,
                   pass, tally>>

\* renew_running_lease: any running document of the job is renewed.
Renew(h) ==
    /\ slot[h] = "running" /\ proc[h] = "running" /\ Running
    /\ Put(job, [doc EXCEPT !.live = TRUE])
    /\ written' = FALSE
    /\ UNCHANGED <<traits, facts, workers, pass, tally>>

\* A pulse, or a checkpoint of the workload, after the promise passed.
Write(h) ==
    /\ proc[h] = "running" \/ orphan[h]
    /\ ~doc.live /\ ~written
    /\ written' = TRUE
    /\ UNCHANGED <<traits, job, doc, pin, facts, workers, pass, tally>>

\* take_back: the slot's process goes on under the queued record.
TakeBack(h) ==
    /\ slot[h] = "running" /\ proc[h] = "running"
    /\ job = "queue" /\ claims < MaxClaims
    /\ Claimed(h)
    /\ receipt' \in IF receipt = "old" THEN {"old", "new"} ELSE {receipt}
    /\ UNCHANGED <<traits, status, stored, workers, pass, faults>>

\* advance_slot: a job that is completed already ends its slot.
Drop(h) ==
    /\ slot[h] # "none" /\ slot[h] # "claimed" /\ job = "completed"
    /\ slot' = [slot EXCEPT ![h] = "none"]
    /\ proc' = [proc EXCEPT ![h] = "none"]
    /\ UNCHANGED <<traits, job, doc, pin, written, facts, vm, agent, orphan,
                   pass, tally>>

\* Mutant of Upload: the terminal status is reported with the output pending.
UploadLater(h) ==
    /\ slot[h] = "running" /\ proc[h] \in {"ok", "bad"}
    /\ slot' = [slot EXCEPT ![h] = "uploaded"]
    /\ UNCHANGED <<traits, job, doc, pin, written, facts, vm, agent, proc,
                   orphan, pass, tally>>

\* The output of a workload that ended becomes durable first.
Upload(h) ==
    /\ slot[h] = "running" /\ proc[h] \in {"ok", "bad"}
    /\ slot' = [slot EXCEPT ![h] = "uploaded"]
    /\ stored' = (stored \/ proc[h] = "ok")
    /\ receipt' = IF "release" \in traits /\ proc[h] = "ok" THEN "new"
                  ELSE receipt
    /\ UNCHANGED <<traits, job, doc, pin, written, status, vm, agent, proc,
                   orphan, pass, tally>>

\* escalate_on_oom: a failed job is queued again for a larger device.
Escalate(h) ==
    /\ slot[h] = "running" /\ proc[h] = "bad" /\ Running
    /\ Put("queue", [host |-> None, live |-> FALSE, err |-> None])
    /\ status' = "none"
    /\ slot' = [slot EXCEPT ![h] = "none"]
    /\ proc' = [proc EXCEPT ![h] = "none"]
    /\ UNCHANGED <<traits, written, receipt, stored, vm, agent, orphan,
                   pass, tally>>

\* Mutant of Say: the word is the process's own.
SayExit(h) ==
    /\ slot[h] = "uploaded"
    /\ status' = proc[h]
    /\ slot' = [slot EXCEPT ![h] = "said"]
    /\ UNCHANGED <<traits, job, doc, pin, written, receipt, stored, vm, agent,
                   proc, orphan, pass, tally>>

\* The terminal status word.
Say(h) ==
    /\ slot[h] = "uploaded"
    /\ status' = IF proc[h] = "ok" THEN "COMPLETED" ELSE "FAILED"
    /\ slot' = [slot EXCEPT ![h] = "said"]
    /\ UNCHANGED <<traits, job, doc, pin, written, receipt, stored, vm, agent,
                   proc, orphan, pass, tally>>

\* The terminal move, pinned to nothing; a job that is elsewhere keeps the
\* slot, unless it is terminal.
Finish(h) ==
    /\ slot[h] = "said"
    /\ IF Running
       THEN Put(IF proc[h] = "ok" THEN "completed" ELSE "failed", doc) ELSE Keep
    /\ IF job = "queue"
       THEN slot' = [slot EXCEPT ![h] = "running"] /\ UNCHANGED proc
       ELSE /\ slot' = [slot EXCEPT ![h] = "none"]
            /\ proc' = [proc EXCEPT ![h] = "none"]
    /\ UNCHANGED <<traits, written, facts, vm, agent, orphan, pass, tally>>

\* A worker that has just started has no slots: what its record still shows
\* running was left by the one it replaced (release_left_behind).
LeftBehind(h) ==
    /\ pc[h] = "init" /\ agent[h]
    /\ IF Running /\ doc.host = h /\ ~orphan[h] THEN Pin(h) /\ Go(h, "settle")
       ELSE Keep /\ Go(h, "idle")
    /\ UNCHANGED <<traits, written, facts, workers, tally>>

-----------------------------------------------------------------------------
\* Taking a job from a lost worker

\* The loss a acts on.
Loss(a) == IF a = Tick THEN why ELSE "replaced"

\* Mutant of Lost: a refused restart leaves the job where it is.
LostRefused(a) ==
    IF "own" \in traits \/ doc.err = Loss(a)
    THEN Keep /\ Go(a, Onward(a, FALSE))
    ELSE /\ Put("queue", [host |-> None, live |-> FALSE, err |-> Loss(a)])
         /\ Go(a, "tidy")

\* restart_refusal, and the move that follows it.
Lost(a) ==
    IF "own" \in traits \/ doc.err = Loss(a)
    THEN /\ Put("failed", doc) /\ Go(a, Onward(a, TRUE))
    ELSE /\ Put("queue", [host |-> None, live |-> FALSE, err |-> Loss(a)])
         /\ Go(a, "tidy")

\* settle: a maintenance job has succeeded, and its move is pinned to nothing;
\* a release whose output verifies is complete; any other job goes back, or
\* fails.
Settle(a) ==
    /\ pc[a] = "settle" /\ Lives(a)
    /\ \/ /\ "maintenance" \in traits /\ Running
          /\ Put("completed", doc) /\ Go(a, "tidy")
       \/ /\ "maintenance" \notin traits /\ pin[a] /\ receipt = "new"
          /\ Put("completed", doc) /\ Go(a, Onward(a, TRUE))
       \/ /\ "maintenance" \notin traits /\ pin[a] /\ receipt # "new"
          /\ Lost(a)
       \/ /\ ~(IF "maintenance" \in traits THEN Running ELSE pin[a])
          /\ Keep /\ Go(a, Onward(a, FALSE))
    /\ UNCHANGED <<traits, written, facts, workers, claims, faults>>

\* cleanup_status, after the move.
Tidy(a) ==
    /\ pc[a] = "tidy" /\ Lives(a)
    /\ status' = "none"
    /\ written' \in {written, FALSE}
    /\ Go(a, Onward(a, TRUE))
    /\ UNCHANGED <<traits, job, doc, pin, receipt, stored, workers, tally>>

\* Mutant of Requeue: the lease of the fresh record is not judged again.
RequeueAny ==
    /\ pc[Tick] = "requeue"
    /\ IF Running THEN Pin(Tick) /\ Go(Tick, "lose")
       ELSE Keep /\ Go(Tick, Onward(Tick, FALSE))
    /\ UNCHANGED <<traits, written, facts, workers, tally>>

\* requeue: the running document is read again; a live lease keeps it.
Requeue ==
    /\ pc[Tick] = "requeue"
    /\ IF Running /\ ~doc.live THEN Pin(Tick) /\ Go(Tick, "lose")
       ELSE Keep /\ Go(Tick, Onward(Tick, FALSE))
    /\ UNCHANGED <<traits, written, facts, workers, tally>>

\* The pinned move; a preemption is never held against the job.
Lose ==
    /\ pc[Tick] = "lose"
    /\ \/ ~pin[Tick] /\ Keep /\ Go(Tick, Onward(Tick, FALSE))
       \/ pin[Tick] /\ why # "preempted" /\ Lost(Tick)
       \/ /\ pin[Tick] /\ why = "preempted"
          /\ Put("queue", [doc EXCEPT !.host = None])
          /\ Go(Tick, "tidy")
    /\ UNCHANGED <<traits, written, facts, workers, claims, faults>>

-----------------------------------------------------------------------------
\* The tick: reap_expired_leases, check_running_jobs, reap_dead_agents

\* reap_one.
Reap ==
    /\ pc[Tick] = "idle"
    /\ IF Running /\ Lapsed THEN Pin(Tick) /\ Aim("settle", "lease", Unseen)
       ELSE Keep /\ Go(Tick, "releases")
    /\ UNCHANGED <<traits, written, facts, workers, tally>>

\* complete_requeued_releases, its read and its pinned move in one.
Releases ==
    /\ pc[Tick] = "releases"
    /\ IF job = "queue" /\ doc.err = "lease" /\ receipt # "none"
       THEN Put("completed", doc) ELSE Keep
    /\ Aim("list", None, Unseen)
    /\ UNCHANGED <<traits, written, facts, workers, tally>>

\* The listing of running jobs; the pin here only says it is still current.
List ==
    /\ pc[Tick] = "list"
    /\ IF Running
       THEN Pin(Tick) /\ Aim("status", None, [Unseen EXCEPT !.host = doc.host])
       ELSE Keep /\ Go(Tick, "sweep")
    /\ UNCHANGED <<traits, written, facts, workers, tally>>

Status ==
    /\ pc[Tick] = "status"
    /\ IF status \in Words THEN Aim("dismiss", status, scan) ELSE Go(Tick, "judge")
    /\ UNCHANGED <<traits, job, doc, pin, written, facts, workers, tally>>

\* delete_instance, before the move: a worker's reference names no machine of
\* the provider, so the call removes nothing; when it is refused instead, and
\* it may be so on every tick, the tick ends.
Dismiss ==
    /\ pc[Tick] = "dismiss"
    /\ Go(Tick, "word") \/ Go(Tick, "idle")
    /\ UNCHANGED <<traits, job, doc, pin, written, facts, workers, tally>>

\* A terminal word, or a maintenance job whose agent is gone: the move is
\* pinned to nothing, and one that loses fails the tick.
Word ==
    /\ pc[Tick] = "word"
    /\ IF Running
       THEN /\ Put(IF why = "FAILED" THEN "failed" ELSE "completed", doc)
            /\ Go(Tick, "tidy")
       ELSE Keep /\ Go(Tick, "idle")
    /\ UNCHANGED <<traits, written, facts, workers, tally>>

\* The listed job is judged by its own promise, and by what is known of its
\* host: an agent whose capacity row is live, a machine the provider did not
\* list (it may miss one that is there), or neither.
Judge ==
    /\ pc[Tick] = "judge"
    /\ \/ /\ ~Lapsed \/ ~pin[Tick]
          /\ Aim("sweep", None, Unseen)
       \/ /\ Lapsed \/ ~pin[Tick]
          /\ \E r \in {"orphan", "stale", "gone"} :
               /\ r = "gone" => scan.host \in Cloud
               /\ IF "maintenance" \in traits /\ r # "gone"
                  THEN Aim("word", "COMPLETED", scan)
                  ELSE Aim("requeue", IF r = "gone" /\ "spot" \in traits
                                      THEN "preempted" ELSE r, scan)
    /\ pin' = [pin EXCEPT ![Tick] = FALSE]
    /\ UNCHANGED <<traits, job, doc, written, facts, workers, tally>>

\* safe_delete_vm_by_hostname, if the machine is found and the call succeeds.
Kill ==
    /\ pc[Tick] = "kill"
    /\ \/ scan.host \in Cloud /\ vm[scan.host] /\ Down(scan.host)
       \/ UNCHANGED workers
    /\ Aim("sweep", None, Unseen)
    /\ UNCHANGED <<traits, job, doc, pin, written, facts, tally>>

\* reap_dead_agents, for one machine: machines, capacity rows and running jobs
\* are listed first.
Sweep ==
    /\ pc[Tick] = "sweep"
    /\ \/ \E h \in Cloud :
            /\ vm[h]
            /\ Aim("alive", None, [host |-> h, mine |-> Running /\ doc.host = h,
                                   safety |-> FALSE])
       \/ Go(Tick, "idle")
    /\ UNCHANGED <<traits, job, doc, pin, written, facts, workers, tally>>

\* any_job_alive over the listed jobs.
Alive ==
    /\ pc[Tick] = "alive"
    /\ Go(Tick, IF scan.mine /\ Running /\ ~Lapsed THEN "idle" ELSE "relist")
    /\ UNCHANGED <<traits, job, doc, pin, written, facts, workers, tally>>

\* The running jobs are listed again; then the machine is found dead, never to
\* have worked, or wedged, by rows and ages, or it is kept.
Relist ==
    /\ pc[Tick] = "relist"
    /\ \/ Aim("race", None,
              [scan EXCEPT !.safety = (Running /\ doc.host = scan.host)])
       \/ Go(Tick, "idle")
    /\ UNCHANGED <<traits, job, doc, pin, written, facts, workers, tally>>

\* safety_is_real_race.
Race ==
    /\ pc[Tick] = "race"
    /\ Go(Tick, IF scan.safety /\ Running /\ ~Lapsed THEN "idle" ELSE "delete")
    /\ UNCHANGED <<traits, job, doc, pin, written, facts, workers, tally>>

\* The machine is deleted, and then its jobs are requeued.
Delete ==
    /\ pc[Tick] = "delete"
    /\ Down(scan.host)
    /\ IF scan.mine \/ scan.safety THEN Aim("requeue", "reaped", scan)
       ELSE Go(Tick, "idle")
    /\ UNCHANGED <<traits, job, doc, pin, written, facts, tally>>

-----------------------------------------------------------------------------
\* Everything else

Exit(h) ==
    /\ \/ /\ proc[h] = "running"
          /\ \E r \in {"ok", "bad"} : proc' = [proc EXCEPT ![h] = r]
          /\ UNCHANGED orphan
       \/ orphan[h] /\ orphan' = [orphan EXCEPT ![h] = FALSE] /\ UNCHANGED proc
    /\ UNCHANGED <<traits, job, doc, pin, written, facts, vm, agent, slot,
                   pass, tally>>

\* The promise of the running document passes.
Lapse ==
    /\ Running /\ doc.live
    /\ doc' = [doc EXCEPT !.live = FALSE]
    /\ UNCHANGED <<traits, job, pin, written, facts, workers, pass, tally>>

\* An agent dies; its workload has a process group of its own.
AgentDies(h) ==
    /\ agent[h] /\ faults < MaxFaults
    /\ faults' = faults + 1
    /\ agent' = [agent EXCEPT ![h] = FALSE]
    /\ slot' = [slot EXCEPT ![h] = "none"]
    /\ proc' = [proc EXCEPT ![h] = "none"]
    /\ orphan' = [orphan EXCEPT ![h] = @ \/ proc[h] = "running"]
    /\ Go(h, "idle")
    /\ UNCHANGED <<traits, job, doc, pin, written, facts, vm, claims>>

AgentStarts(h) ==
    /\ vm[h] /\ ~agent[h]
    /\ agent' = [agent EXCEPT ![h] = TRUE]
    /\ Go(h, "init")
    /\ UNCHANGED <<traits, job, doc, pin, written, facts, vm, slot, proc,
                   orphan, tally>>

\* The provider takes the machine, or it fails.
VmGoes(h) ==
    /\ vm[h] /\ faults < MaxFaults
    /\ faults' = faults + 1
    /\ Down(h) /\ Go(h, "idle")
    /\ UNCHANGED <<traits, job, doc, pin, written, facts, claims>>

\* A call fails and ends the tick.
TickFails ==
    /\ pc[Tick] # "idle" /\ faults < MaxFaults
    /\ faults' = faults + 1
    /\ Go(Tick, "idle")
    /\ UNCHANGED <<traits, job, doc, pin, written, facts, workers, claims>>

SlotStep(h) ==
    \/ Spawn(h) \/ TakeBack(h) \/ Drop(h) \/ Upload(h) \/ Escalate(h)
    \/ Say(h) \/ Finish(h) \/ LeftBehind(h) \/ Settle(h) \/ Tidy(h)

TickStep ==
    \/ Reap \/ Settle(Tick) \/ Tidy(Tick) \/ Releases \/ List \/ Status \/ Dismiss
    \/ Word \/ Judge \/ Requeue \/ Lose \/ Kill \/ Sweep \/ Alive \/ Relist \/ Race
    \/ Delete

Next ==
    \/ \E h \in Hosts :
         \/ Claim(h) \/ Renew(h) \/ Write(h) \/ SlotStep(h) \/ Exit(h)
         \/ AgentDies(h) \/ AgentStarts(h) \/ VmGoes(h)
    \/ TickStep \/ Lapse \/ TickFails

Spec == Init /\ [][Next]_vars

\* Ticks recur, agents go on with their slots, workloads end and time passes.
\* Nothing makes an agent start again or claim the job.
FairSpec ==
    /\ Spec
    /\ WF_vars(TickStep) /\ WF_vars(Lapse)
    /\ \A h \in Hosts : WF_vars(SlotStep(h)) /\ WF_vars(Exit(h))

-----------------------------------------------------------------------------
\* Properties

\* A completed job's output is in the store, whoever completed it: its slot, a
\* slot of an earlier attempt, a tick that read a status word, or the reaper
\* (advance.rs "Artifacts become durable before the terminal transition").
CompletedStored ==
    job = "completed" /\ "maintenance" \notin traits => stored

\* A tick takes a job away only when its promise has passed at that very
\* moment, however old the listing it started from, unless it read a terminal
\* word or the job's own success stops its agent (current.rs "pinning the
\* fresh version makes the renewal win the race").
PromiseKept ==
    [][Running /\ job' # "running" /\ pc[Tick] \in {"settle", "lose"}
          /\ pc'[Tick] # pc[Tick] /\ "maintenance" \notin traits
       => ~doc.live]_vars

\* Somebody has the job in hand.
Held == \E h \in Hosts : slot[h] # "none" \/ orphan[h]

\* A running job nobody has in hand leaves running/, wherever its machine,
\* its agent or its tick died, unless something was written for it after its
\* last promise.
LostJobLeaves == (Running /\ ~Held /\ ~written) ~> (~Running \/ Held)
=============================================================================
