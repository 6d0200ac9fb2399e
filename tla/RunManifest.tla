----------------------------- MODULE RunManifest -----------------------------
(***************************************************************************)
(* ONE run: the durable manifest runs/<run>.json above its jobs, the       *)
(* submissions of its request (first and replayed,                         *)
(* src/stado-rs/src/queue/submit), the outcome every finished job leaves   *)
(* in it (queue/runs/terminal), and the run reaper that deletes the jobs'  *)
(* documents (monitor/reap).                                               *)
(*                                                                         *)
(* A loop that reads the manifest, decides from it alone and swaps it is   *)
(* one step: a lost swap reads again.  The two swaps of claim_entry and    *)
(* the reaper's mark do not retry at their own place, so they keep the     *)
(* version they read: pin[a] says nothing has written the manifest since.  *)
(* A lifecycle move is one step here (JobTransition takes it apart), up to *)
(* the outcome, which whoever recovers the transition records.             *)
(***************************************************************************)
EXTENDS Integers

CONSTANTS
    N,           \* commands of the request
    Submitters,  \* processes that submit this very request
    Reaper,      \* the coordinator tick
    Ends,        \* terminal prefixes
    MaxSubmits,  \* submissions of one process (bound)
    MaxFaults,   \* dying submissions and failing ticks (bound)
    None

Entries == 1..N
Actors == Submitters \cup {Reaper}

ASSUME RunAssumption ==
    /\ N \in Nat \ {0} /\ MaxSubmits \in Nat /\ MaxFaults \in Nat
    /\ Reaper \notin Submitters /\ None \notin Ends

VARIABLES
    planned,   \* the manifest exists
    entry,     \* entry[e]: the state of the entry
    outcome,   \* outcome[e]: the ended job it retains
    reaped,    \* reaped_at is written
    cleaned,   \* cleanup_completed_at is written
    queue,     \* queue[e], running[e]: the job's document there
    running,
    ended,     \* ended[e]: its terminal documents
    moved,     \* moved[e]: where its transition record last moved it
    due,       \* due[e]: that move is not finished
    created,   \* created[e]: how often the job was admitted
    pc, pin,
    at,        \* the entry a submission, the document a sweep is at
    seen,      \* the entries a tick listed, then those it has to retain
    submits, faults

manifest == <<planned, entry, outcome, reaped, cleaned>>
jobs == <<queue, running, ended, moved, due, created>>
local == <<pc, pin, at, seen>>
budget == <<submits, faults>>
vars == <<manifest, jobs, local, budget>>

Docs == {"none", "job", "sentinel"}
States == {"planned", "claimed", "enqueuing", "accepted", "terminal", "reaped"}

\* The document of the job admitted as its g-th, under terminal prefix p.
End == [to: Ends, gen: Nat]

ASSUME NoneAssumption == None \notin End

TypeOK ==
    /\ planned \in BOOLEAN /\ reaped \in BOOLEAN /\ cleaned \in BOOLEAN
    /\ entry \in [Entries -> States]
    /\ outcome \in [Entries -> End \cup {None}]
    /\ queue \in [Entries -> Docs] /\ running \in [Entries -> Docs]
    /\ ended \in [Entries -> SUBSET End]
    /\ moved \in [Entries -> {"running"} \cup Ends \cup {None}]
    /\ due \in [Entries -> BOOLEAN] /\ created \in [Entries -> Nat]
    /\ pc \in [Actors -> {"idle", "plan", "claim", "enqueue", "check", "find",
                          "probe", "put", "accept", "read", "status", "retain",
                          "mark", "swap", "sweep", "delete", "clean"}]
    /\ pin \in [Actors -> BOOLEAN]
    /\ at \in [Actors -> Nat]
    /\ seen \subseteq Entries
    /\ submits \in [Submitters -> Nat] /\ faults \in Nat

Init ==
    /\ planned = FALSE /\ reaped = FALSE /\ cleaned = FALSE
    /\ entry = [e \in Entries |-> "planned"]
    /\ outcome = [e \in Entries |-> None]
    /\ queue = [e \in Entries |-> "none"] /\ running = [e \in Entries |-> "none"]
    /\ ended = [e \in Entries |-> {}]
    /\ moved = [e \in Entries |-> None] /\ due = [e \in Entries |-> FALSE]
    /\ created = [e \in Entries |-> 0]
    /\ pc = [a \in Actors |-> "idle"] /\ pin = [a \in Actors |-> FALSE]
    /\ at = [a \in Actors |-> 0] /\ seen = {}
    /\ submits = [s \in Submitters |-> 0] /\ faults = 0

-----------------------------------------------------------------------------
\* Building blocks

\* read_job finds the job under some prefix.
Exists(e) == queue[e] = "job" \/ running[e] = "job" \/ ended[e] # {}

\* ended_state: the transition record names a terminal prefix.
EndedByRecord(e) == moved[e] \in Ends

\* A write of the manifest: every version read before is lost but its own.
Written(a) == pin' = [b \in Actors |-> b = a]
Kept == UNCHANGED <<manifest, pin>>

Go(a, p, i) == pc' = [pc EXCEPT ![a] = p] /\ at' = [at EXCEPT ![a] = i]
At(a, p) == pc[a] = p

\* The submission goes on with its next entry, answers, or fails.
Advance(s) == IF at[s] = N THEN Go(s, "idle", 0) ELSE Go(s, "claim", at[s] + 1)
Refuse(s) == Go(s, "idle", 0)

\* Where record_terminal_outcome_inner has nothing to write, and where it
\* refuses because another outcome is retained.
Recorded(e, d) == entry[e] = "reaped" \/ outcome[e] = d
Changed(e, d) == ~Recorded(e, d) /\ outcome[e] # None

\* Mutant of Retain: the last outcome wins.
RetainLast(e, d) ==
    /\ entry' = [entry EXCEPT ![e] = "terminal"]
    /\ outcome' = [outcome EXCEPT ![e] = d]
    /\ Written(None) /\ UNCHANGED <<planned, reaped, cleaned>>

\* Mutant of Retain: the entry takes the name of the prefix for its state.
RetainNamed(e, d) ==
    /\ entry' = [entry EXCEPT ![e] = d.to]
    /\ outcome' = [outcome EXCEPT ![e] = d]
    /\ Written(None) /\ UNCHANGED <<planned, reaped, cleaned>>

\* Retain the ended job d, unless that is done or refused.
Retain(e, d) ==
    IF Recorded(e, d) \/ Changed(e, d) THEN Kept
    ELSE /\ entry' = [entry EXCEPT ![e] = "terminal"]
         /\ outcome' = [outcome EXCEPT ![e] = d]
         /\ Written(None) /\ UNCHANGED <<planned, reaped, cleaned>>

-----------------------------------------------------------------------------
\* A submission

Submit(s) ==
    /\ At(s, "idle") /\ submits[s] < MaxSubmits
    /\ submits' = [submits EXCEPT ![s] = @ + 1]
    /\ IF planned THEN Go(s, "claim", 1) ELSE Go(s, "plan", 1)
    /\ UNCHANGED <<manifest, pin, jobs, seen, faults>>

\* The whole plan is created before any queue write.
Plan(s) ==
    /\ At(s, "plan")
    /\ IF planned THEN Kept
       ELSE /\ planned' = TRUE /\ Written(None)
            /\ UNCHANGED <<entry, outcome, reaped, cleaned>>
    /\ Go(s, "claim", 1)
    /\ UNCHANGED <<jobs, seen, budget>>

\* claim_entry.  The owner is derived from the request alone, so that a claimed
\* entry of a live process is never another owner's.
Claim(s) ==
    /\ At(s, "claim")
    /\ \/ /\ entry[at[s]] \in {"terminal", "reaped"}
          /\ Advance(s) /\ Kept
       \/ /\ entry[at[s]] = "accepted"
          /\ Go(s, "check", at[s]) /\ Kept
       \/ /\ entry[at[s]] \in {"planned", "claimed", "enqueuing"}
          /\ entry' = [entry EXCEPT ![at[s]] = "claimed"]
          /\ Go(s, "enqueue", at[s]) /\ Written(s)
          /\ UNCHANGED <<planned, outcome, reaped, cleaned>>
    /\ UNCHANGED <<jobs, seen, budget>>

\* Mutant of Enqueue: the entry is accepted before its job is queued.
EnqueueAccepted(s) ==
    /\ At(s, "enqueue")
    /\ IF pin[s]
       THEN /\ entry' = [entry EXCEPT ![at[s]] = "accepted"]
            /\ Go(s, "find", at[s]) /\ Written(None)
            /\ UNCHANGED <<planned, outcome, reaped, cleaned>>
       ELSE Go(s, "claim", at[s]) /\ Kept
    /\ UNCHANGED <<jobs, seen, budget>>

\* The second swap of claim_entry; one that loses claims again.
Enqueue(s) ==
    /\ At(s, "enqueue")
    /\ IF pin[s]
       THEN /\ entry' = [entry EXCEPT ![at[s]] = "enqueuing"]
            /\ Go(s, "find", at[s]) /\ Written(None)
            /\ UNCHANGED <<planned, outcome, reaped, cleaned>>
       ELSE Go(s, "claim", at[s]) /\ Kept
    /\ UNCHANGED <<jobs, seen, budget>>

\* An accepted job is looked up and never recreated.
Check(s) ==
    /\ At(s, "check")
    /\ IF Exists(at[s]) \/ EndedByRecord(at[s]) THEN Advance(s) ELSE Refuse(s)
    /\ UNCHANGED <<manifest, pin, jobs, seen, budget>>

\* find_job, then ended_by_transition.
Find(s) ==
    /\ At(s, "find")
    /\ Go(s, IF Exists(at[s]) \/ EndedByRecord(at[s]) THEN "accept" ELSE "probe",
          at[s])
    /\ UNCHANGED <<manifest, pin, jobs, seen, budget>>

\* create_queued_job_if_absent up to its write: a transition record refuses it.
Probe(s) ==
    /\ At(s, "probe")
    /\ IF moved[at[s]] # None THEN Refuse(s)
       ELSE Go(s, IF Exists(at[s]) THEN "accept" ELSE "put", at[s])
    /\ UNCHANGED <<manifest, pin, jobs, seen, budget>>

\* The queue document, created if absent; a create that lost looks the job up.
Put(s) ==
    /\ At(s, "put")
    /\ IF queue[at[s]] = "none"
       THEN /\ queue' = [queue EXCEPT ![at[s]] = "job"]
            /\ created' = [created EXCEPT ![at[s]] = @ + 1]
            /\ Go(s, "accept", at[s])
       ELSE /\ IF Exists(at[s]) THEN Go(s, "accept", at[s]) ELSE Refuse(s)
            /\ UNCHANGED <<queue, created>>
    /\ UNCHANGED <<manifest, pin, running, ended, moved, due, seen, budget>>

\* checkpoint_accepted.
Accept(s) ==
    /\ At(s, "accept")
    /\ \/ /\ entry[at[s]] = "enqueuing"
          /\ entry' = [entry EXCEPT ![at[s]] = "accepted"]
          /\ Advance(s) /\ Written(None)
          /\ UNCHANGED <<planned, outcome, reaped, cleaned>>
       \/ /\ entry[at[s]] \in {"accepted", "terminal", "reaped"}
          /\ Advance(s) /\ Kept
       \/ /\ entry[at[s]] = "claimed"
          /\ Refuse(s) /\ Kept
    /\ UNCHANGED <<jobs, seen, budget>>

\* The submitting process dies.
Die(s) ==
    /\ ~At(s, "idle") /\ faults < MaxFaults
    /\ faults' = faults + 1
    /\ Refuse(s)
    /\ pin' = [pin EXCEPT ![s] = FALSE]
    /\ UNCHANGED <<manifest, jobs, seen, submits>>

-----------------------------------------------------------------------------
\* The jobs

Work(e) ==
    /\ queue[e] = "job"
    /\ queue' = [queue EXCEPT ![e] = "sentinel"]
    /\ running' = [running EXCEPT ![e] = "job"]
    /\ moved' = [moved EXCEPT ![e] = "running"]
    /\ due' = [due EXCEPT ![e] = FALSE]
    /\ UNCHANGED <<manifest, local, budget, ended, created>>

\* A worker ends the job, or an operator cancels it.  A document of an earlier
\* admission under the same prefix is replaced.
Finish(e) ==
    /\ queue[e] = "job" \/ running[e] = "job"
    /\ \E t \in Ends :
         /\ ended' = [ended EXCEPT ![e] = {d \in @ : d.to # t}
                                             \cup {[to |-> t, gen |-> created[e]]}]
         /\ moved' = [moved EXCEPT ![e] = t]
    /\ due' = [due EXCEPT ![e] = TRUE]
    /\ queue' = [queue EXCEPT ![e] = IF @ = "job" THEN "sentinel" ELSE @]
    /\ running' = [running EXCEPT ![e] = IF @ = "job" THEN "sentinel" ELSE @]
    /\ UNCHANGED <<manifest, local, budget, created>>

\* finish_completed_transition: the outcome is retained, then the source is
\* cleaned; a refusal leaves the move unfinished.
Record(e) ==
    /\ due[e]
    /\ \E d \in ended[e] :
         /\ d.to = moved[e]
         /\ Retain(e, d)
         /\ due' = [due EXCEPT ![e] = Changed(e, d)]
    /\ UNCHANGED <<queue, running, ended, moved, created, pc, at, seen, budget>>

\* retire_settled_sentinels.
Settle(e) ==
    /\ EndedByRecord(e) /\ ~due[e]
    /\ \/ /\ queue[e] = "sentinel"
          /\ queue' = [queue EXCEPT ![e] = "none"] /\ UNCHANGED running
       \/ /\ running[e] = "sentinel"
          /\ running' = [running EXCEPT ![e] = "none"] /\ UNCHANGED queue
    /\ UNCHANGED <<manifest, local, budget, ended, moved, due, created>>

-----------------------------------------------------------------------------
\* reap_terminal_runs

\* cleanup_residue_job_ids.
Residue == {e \in Entries : queue[e] # "none" \/ running[e] # "none"
                               \/ ended[e] # {} \/ due[e]}

\* has_complete_retained_outcomes.
Complete == \A e \in Entries : outcome[e] # None

List ==
    /\ At(Reaper, "idle") /\ planned
    /\ seen' = Residue
    /\ Go(Reaper, "read", 0)
    /\ UNCHANGED <<manifest, pin, jobs, budget>>



\* The manifest is read: what is left of a retained run is swept.
Read ==
    /\ At(Reaper, "read")
    /\ Go(Reaper, IF cleaned \/ reaped
                  THEN IF Complete /\ (cleaned => seen # {}) THEN "sweep" ELSE "idle"
                  ELSE "status", 1)
    /\ seen' = IF pc'[Reaper] = "status" THEN {e \in Entries : outcome[e] = None} ELSE {}
    /\ UNCHANGED <<manifest, pin, jobs, budget>>

\* run_status: every job is retained or found under a terminal prefix.
Status ==
    /\ At(Reaper, "status")
    /\ Go(Reaper, IF \A e \in Entries : outcome[e] # None \/ ended[e] # {}
                  THEN "retain" ELSE "idle", 0)
    /\ seen' = IF pc'[Reaper] = "idle" THEN {} ELSE seen
    /\ UNCHANGED <<manifest, pin, jobs, budget>>

\* Mutant of RetainAll: the documents go as soon as the run is terminal.
RetainNone ==
    /\ At(Reaper, "retain")
    /\ Go(Reaper, "delete", 1)
    /\ UNCHANGED <<manifest, pin, jobs, seen, budget>>

\* record_terminal_outcome_for_entry for every entry that had no outcome.
RetainAll ==
    /\ At(Reaper, "retain")
    /\ \/ seen = {} /\ Go(Reaper, "mark", 0) /\ Kept /\ UNCHANGED seen
       \/ \E e \in seen : \E d \in ended[e] :
            /\ Retain(e, d)
            /\ IF Changed(e, d) THEN Go(Reaper, "idle", 0) /\ seen' = {}
               ELSE seen' = seen \ {e} /\ UNCHANGED <<pc, at>>
    /\ UNCHANGED <<jobs, budget>>

\* The manifest is read again and marked with one swap; one that loses leaves
\* the run to the next tick.
Mark ==
    /\ At(Reaper, "mark")
    /\ IF Complete THEN /\ pin' = [pin EXCEPT ![Reaper] = TRUE]
                        /\ Go(Reaper, "swap", 0)
       ELSE UNCHANGED pin /\ Go(Reaper, "idle", 0)
    /\ UNCHANGED <<manifest, jobs, seen, budget>>

Swap ==
    /\ At(Reaper, "swap")
    /\ IF pin[Reaper]
       THEN /\ entry' = [e \in Entries |-> "reaped"] /\ reaped' = TRUE
            /\ Written(None) /\ Go(Reaper, "sweep", 1)
            /\ UNCHANGED <<planned, outcome, cleaned>>
       ELSE Kept /\ Go(Reaper, "idle", 0)
    /\ UNCHANGED <<jobs, seen, budget>>

\* sweep_retained_run starts from the retained outcomes alone.
Sweep ==
    /\ At(Reaper, "sweep")
    /\ Go(Reaper, IF Complete THEN "delete" ELSE "idle", 1)
    /\ UNCHANGED <<manifest, pin, jobs, seen, budget>>

\* The i-th document of a sweep: the jobs in order; of each its terminal
\* documents, then queue/, then running/.
Which(i) == ((i - 1) \div 3) + 1
Part(i) == (i - 1) % 3

\* The transition of the job is recovered, then its documents are deleted.
Delete ==
    /\ At(Reaper, "delete")
    /\ LET i == at[Reaper]
           e == Which(i)
       IN  /\ ended' = [ended EXCEPT ![e] = IF Part(i) = 0 THEN {} ELSE @]
           /\ queue' = [queue EXCEPT ![e] = IF Part(i) = 1 THEN "none" ELSE @]
           /\ running' = [running EXCEPT ![e] = IF Part(i) = 2 THEN "none" ELSE @]
           /\ due' = [due EXCEPT ![e] = IF Part(i) = 0 THEN FALSE ELSE @]
           /\ IF i = 3 * N THEN Go(Reaper, "clean", 0) ELSE Go(Reaper, "delete", i + 1)
    /\ UNCHANGED <<manifest, pin, moved, created, seen, budget>>

\* cleanup_completed_at, once.
Clean ==
    /\ At(Reaper, "clean")
    /\ cleaned' = TRUE
    /\ IF cleaned THEN UNCHANGED pin ELSE Written(None)
    /\ Go(Reaper, "idle", 0)
    /\ UNCHANGED <<planned, entry, outcome, reaped, jobs, seen, budget>>

\* A call of the tick fails.
TickFails ==
    /\ ~At(Reaper, "idle") /\ faults < MaxFaults
    /\ faults' = faults + 1
    /\ Go(Reaper, "idle", 0) /\ seen' = {}
    /\ pin' = [pin EXCEPT ![Reaper] = FALSE]
    /\ UNCHANGED <<manifest, jobs, submits>>

-----------------------------------------------------------------------------
SubmitStep(s) ==
    \/ Plan(s) \/ Claim(s) \/ Enqueue(s) \/ Check(s) \/ Find(s) \/ Probe(s)
    \/ Put(s) \/ Accept(s)

ReapStep ==
    \/ List \/ Read \/ Status \/ RetainAll \/ Mark \/ Swap \/ Sweep \/ Delete
    \/ Clean

Next ==
    \/ \E s \in Submitters : Submit(s) \/ SubmitStep(s) \/ Die(s)
    \/ \E e \in Entries : Work(e) \/ Finish(e) \/ Record(e) \/ Settle(e)
    \/ ReapStep \/ TickFails

Spec == Init /\ [][Next]_vars

\* Ticks recur; nothing makes anybody submit, work or recover.
FairSpec == Spec /\ WF_vars(ReapStep)

-----------------------------------------------------------------------------
\* Properties

\* An entry says accepted, or ended, only of a job that was admitted, wherever
\* a submission died and however its replays interleave (claim.rs
\* checkpoint_accepted runs after the queue document is there).
AcceptedAdmitted ==
    \A e \in Entries : entry[e] \in {"accepted", "terminal", "reaped"}
                          => created[e] > 0

\* A job that was admitted and has no document left is retained by its run, at
\* every step of the reaper and wherever it stops (monitor/reap/mod.rs "only
\* that committed snapshot permits lifecycle blob deletion").
DeletedRetained ==
    \A e \in Entries : created[e] > 0 /\ ~Exists(e) => outcome[e] # None

\* The outcome a run retains never changes, whoever records another one later
\* (record.rs "terminal outcome for job {} changed").
OutcomeKept ==
    [][\A e \in Entries : outcome[e] # None => outcome'[e] = outcome[e]]_vars


=============================================================================
