-------------------------- MODULE RunManifestProofs --------------------------
(* What a run's manifest keeps, for any number of jobs, submissions, replays, *)
(* terminal prefixes and faults.                                              *)
EXTENDS RunManifest, TLAPS

\* A submission in progress is at one of the entries.
Placed ==
    \A s \in Submitters : pc[s] # "idle" => at[s] \in Entries

\* Whatever is left of a job, its documents, its transition record or its
\* outcome, is left of a job that was admitted.
Admitted ==
    \A e \in Entries :
        Exists(e) \/ moved[e] # None \/ outcome[e] # None => created[e] > 0

\* A submission about to accept an entry found or made its job.
Accepting ==
    \A s \in Submitters : pc[s] = "accept" => created[at[s]] > 0

\* A reaper about to mark the manifest or to delete saw every outcome retained.
Reaping == pc[Reaper] \in {"swap", "delete"} => Complete

IInv ==
    /\ TypeOK /\ Placed /\ Admitted /\ Accepting /\ Reaping
    /\ AcceptedAdmitted /\ DeletedRetained

\* The parts of TypeOK.
Phases == {"idle", "plan", "claim", "enqueue", "check", "find",
           "probe", "put", "accept", "read", "status", "retain",
           "mark", "swap", "sweep", "delete", "clean"}

ManifestType ==
    /\ planned \in BOOLEAN /\ reaped \in BOOLEAN /\ cleaned \in BOOLEAN
    /\ entry \in [Entries -> States]
    /\ outcome \in [Entries -> End \cup {None}]
    /\ pin \in [Actors -> BOOLEAN]

JobsType ==
    /\ queue \in [Entries -> Docs] /\ running \in [Entries -> Docs]
    /\ ended \in [Entries -> SUBSET End]
    /\ moved \in [Entries -> {"running"} \cup Ends \cup {None}]
    /\ due \in [Entries -> BOOLEAN] /\ created \in [Entries -> Nat]

CallsType == pc \in [Actors -> Phases] /\ at \in [Actors -> Nat]

RestType ==
    /\ seen \subseteq Entries
    /\ submits \in [Submitters -> Nat] /\ faults \in Nat

USE RunAssumption, NoneAssumption DEF Entries, Actors

\* The type invariant is that of the manifest, of the jobs, of the calls and of
\* the rest, each disturbed by other actions.
LEMMA TypeParts ==
    TypeOK <=> ManifestType /\ JobsType /\ CallsType /\ RestType
BY DEF TypeOK, ManifestType, JobsType, CallsType, RestType, Phases

\* The same of the next state.
LEMMA TypePartsNext ==
    TypeOK' <=> ManifestType' /\ JobsType' /\ CallsType' /\ RestType'
BY TypeParts, PTL

-----------------------------------------------------------------------------
\* Steps in common

\* What nobody writes stays as sound as it was.
LEMMA ManifestKept ==
    ASSUME IInv, Kept
    PROVE  ManifestType'
BY TypeParts DEF IInv, Kept, manifest, ManifestType

\* The same of the jobs,
LEMMA JobsKept ==
    ASSUME IInv, UNCHANGED jobs
    PROVE  JobsType' /\ created' = created
BY TypeParts DEF IInv, jobs, JobsType

\* of the counters and of what the reaper read,
LEMMA RestKept ==
    ASSUME IInv, UNCHANGED <<seen, budget>>
    PROVE  RestType'
BY TypeParts DEF IInv, budget, RestType

\* and of what relates the manifest to the jobs.
LEMMA DocsKept ==
    ASSUME IInv, UNCHANGED <<manifest, jobs>>
    PROVE  Admitted' /\ AcceptedAdmitted' /\ DeletedRetained'
BY DEF IInv, manifest, jobs, Admitted, AcceptedAdmitted, DeletedRetained, Exists

\* A submission that goes on at an entry disturbs nobody else's place.
LEMMA SubmitterGoes ==
    ASSUME IInv, NEW s \in Submitters, NEW p \in Phases, NEW i \in Nat,
           Go(s, p, i), p # "idle" => i \in Entries,
           created' \in [Entries -> Nat],
           \A e \in Entries : created[e] > 0 => created'[e] > 0,
           p = "accept" => created'[i] > 0,
           outcome' = outcome
    PROVE  CallsType' /\ Placed' /\ Accepting' /\ Reaping'
<1> USE DEF Go
<1>1. CallsType BY TypeParts DEF IInv
<1>2. CallsType' BY <1>1 DEF CallsType
<1>3. Placed' BY <1>1 DEF CallsType, IInv, Placed
<1>4. Accepting' BY <1>1 DEF CallsType, IInv, Accepting, Placed
<1>5. Reaping' BY <1>1 DEF CallsType, IInv, Reaping, Complete
<1> QED BY <1>2, <1>3, <1>4, <1>5

\* The submission that has finished with its entry.
LEMMA Advances ==
    ASSUME IInv, NEW s \in Submitters, pc[s] # "idle", Advance(s)
    PROVE  \E p \in Phases, i \in Nat :
               Go(s, p, i) /\ (p # "idle" => i \in Entries) /\ p # "accept"
<1>1. at[s] \in Entries BY DEF IInv, Placed
<1>2. CASE at[s] = N BY <1>2 DEF Advance, Phases
<1>3. CASE at[s] # N
  <2>1. at[s] + 1 \in Entries BY <1>1, <1>3
  <2> QED BY <1>3, <2>1 DEF Advance, Phases
<1> QED BY <1>2, <1>3

\* A reaper that goes on.
LEMMA ReaperGoes ==
    ASSUME IInv, NEW p \in Phases, NEW i \in Nat, Go(Reaper, p, i),
           created' = created, p \in {"swap", "delete"} => Complete'
    PROVE  CallsType' /\ Placed' /\ Accepting' /\ Reaping'
<1> USE DEF Go
<1>1. CallsType BY TypeParts DEF IInv
<1>2. CallsType' BY <1>1 DEF CallsType
<1>3. Placed' BY <1>1 DEF CallsType, IInv, Placed
<1>4. Accepting' BY <1>1 DEF CallsType, IInv, Accepting, Placed
<1>5. Reaping' BY <1>1 DEF CallsType, Reaping
<1> QED BY <1>2, <1>3, <1>4, <1>5

-----------------------------------------------------------------------------
\* Submissions

\* Nothing is planned yet, and nobody is at work.
LEMMA InitIInv == Init => IInv
<1> SUFFICES ASSUME Init PROVE IInv OBVIOUS
<1> USE DEF Init
<1>1. TypeOK BY DEF TypeOK, Docs, States
<1>2. Placed /\ Accepting /\ Reaping BY DEF Placed, Accepting, Reaping
<1>3. Admitted /\ DeletedRetained BY DEF Admitted, DeletedRetained, Exists
<1>4. AcceptedAdmitted BY DEF AcceptedAdmitted
<1> QED BY <1>1, <1>2, <1>3, <1>4 DEF IInv

\* A submission that only looks and goes on.
LEMMA SubmitterLooks ==
    ASSUME IInv, NEW s \in Submitters, NEW p \in Phases, NEW i \in Nat,
           Go(s, p, i), p # "idle" => i \in Entries,
           p = "accept" => created[i] > 0,
           UNCHANGED <<manifest, jobs>>, pin' \in [Actors -> BOOLEAN], RestType'
    PROVE  IInv'
<1>1. JobsType' /\ created' = created BY JobsKept
<1>2. created \in [Entries -> Nat] /\ outcome' = outcome
  BY TypeParts DEF IInv, JobsType, manifest
<1>3. CallsType' /\ Placed' /\ Accepting' /\ Reaping' BY <1>1, <1>2, SubmitterGoes
<1>4. ManifestType' BY TypeParts DEF IInv, ManifestType, manifest
<1> QED BY <1>1, <1>3, <1>4, DocsKept, TypePartsNext DEF IInv

\* A submission starts at the first entry.
LEMMA SubmitIInv ==
    ASSUME IInv, NEW s \in Submitters, Submit(s)
    PROVE  IInv'
<1>1. RestType' BY TypeParts DEF IInv, Submit, RestType
<1>2. pin' \in [Actors -> BOOLEAN] BY DEF IInv, TypeOK, Submit
<1>3. PICK p \in {"plan", "claim"} : Go(s, p, 1) BY DEF Submit
<1> QED BY <1>1, <1>2, <1>3, SubmitterLooks DEF Submit, Phases

\* Planning makes the entries without touching an outcome.
LEMMA PlanIInv ==
    ASSUME IInv, NEW s \in Submitters, Plan(s)
    PROVE  IInv'
<1>1. created' = created /\ outcome' = outcome BY DEF Plan, Kept, manifest, jobs
<1>2. created \in [Entries -> Nat] BY DEF IInv, TypeOK
<1>3. CallsType' /\ Placed' /\ Accepting' /\ Reaping'
  BY <1>1, <1>2, SubmitterGoes DEF Plan, Phases
<1>4. ManifestType' BY DEF IInv, TypeOK, Plan, Kept, Written, manifest, ManifestType
<1>5. Admitted' /\ AcceptedAdmitted' /\ DeletedRetained'
  BY DEF IInv, Plan, Kept, manifest, jobs, Admitted, AcceptedAdmitted,
         DeletedRetained, Exists
<1> QED BY <1>3, <1>4, <1>5, JobsKept, RestKept, TypePartsNext DEF IInv, Plan

\* The entry a submission writes, accepted only if its job was admitted.
LEMMA EntryWritten ==
    ASSUME IInv, NEW s \in Submitters, NEW a, NEW w \in States, pc[s] # "idle",
           entry' = [entry EXCEPT ![at[s]] = w], Written(a),
           w \in {"accepted", "terminal", "reaped"} => created[at[s]] > 0,
           UNCHANGED <<planned, outcome, reaped, cleaned, jobs>>
    PROVE  ManifestType' /\ Admitted' /\ AcceptedAdmitted' /\ DeletedRetained'
<1>1. at[s] \in Entries BY DEF IInv, Placed
<1>2. ManifestType' BY <1>1 DEF IInv, TypeOK, ManifestType, Written
<1>3. AcceptedAdmitted' BY <1>1 DEF IInv, TypeOK, AcceptedAdmitted, jobs
<1>4. Admitted' /\ DeletedRetained'
  BY DEF IInv, jobs, Admitted, DeletedRetained, Exists
<1> QED BY <1>2, <1>3, <1>4

\* A claim of an entry never makes it accepted: only an accepted entry is left
\* behind, as it is.
LEMMA ClaimIInv ==
    ASSUME IInv, NEW s \in Submitters, Claim(s)
    PROVE  IInv'
<1> USE DEF At
<1>0. /\ at[s] \in Entries /\ pc[s] # "idle" /\ UNCHANGED <<jobs, seen, budget>>
      /\ pin \in [Actors -> BOOLEAN]
  BY DEF IInv, Placed, Claim, TypeOK
<1>1. CASE /\ entry[at[s]] \in {"terminal", "reaped"}
           /\ Advance(s) /\ Kept
  <2>1. PICK p \in Phases, i \in Nat :
           Go(s, p, i) /\ (p # "idle" => i \in Entries) /\ p # "accept"
    BY <1>0, <1>1, Advances
  <2> QED BY <1>0, <1>1, <2>1, SubmitterLooks, RestKept DEF Kept
<1>2. CASE /\ entry[at[s]] = "accepted"
           /\ Go(s, "check", at[s]) /\ Kept
  BY <1>0, <1>2, SubmitterLooks, RestKept DEF Kept, Phases
<1>3. CASE /\ entry[at[s]] \in {"planned", "claimed", "enqueuing"}
           /\ entry' = [entry EXCEPT ![at[s]] = "claimed"]
           /\ Go(s, "enqueue", at[s]) /\ Written(s)
           /\ UNCHANGED <<planned, outcome, reaped, cleaned>>
  <2>1. ManifestType' /\ Admitted' /\ AcceptedAdmitted' /\ DeletedRetained'
    BY <1>0, <1>3, EntryWritten DEF States
  <2>2. created \in [Entries -> Nat] /\ created' = created
    BY <1>0 DEF IInv, TypeOK, jobs
  <2>3. CallsType' /\ Placed' /\ Accepting' /\ Reaping'
    BY <1>0, <1>3, <2>2, SubmitterGoes DEF Phases
  <2> QED BY <1>0, <2>1, <2>3, JobsKept, RestKept, TypePartsNext DEF IInv
<1> QED BY <1>1, <1>2, <1>3 DEF Claim

\* The swap to enqueuing accepts nothing.
LEMMA EnqueueIInv ==
    ASSUME IInv, NEW s \in Submitters, Enqueue(s)
    PROVE  IInv'
<1> USE DEF At
<1>0. /\ at[s] \in Entries /\ pc[s] # "idle" /\ UNCHANGED <<jobs, seen, budget>>
      /\ pin \in [Actors -> BOOLEAN]
  BY DEF IInv, Placed, Enqueue, TypeOK
<1>1. CASE pin[s]
  <2>1. ManifestType' /\ Admitted' /\ AcceptedAdmitted' /\ DeletedRetained'
    BY <1>0, <1>1, EntryWritten DEF Enqueue, States
  <2>2. created \in [Entries -> Nat] /\ created' = created
    BY <1>0 DEF IInv, TypeOK, jobs
  <2>3. CallsType' /\ Placed' /\ Accepting' /\ Reaping'
    BY <1>0, <1>1, <2>2, SubmitterGoes DEF Enqueue, Phases
  <2> QED BY <1>0, <2>1, <2>3, JobsKept, RestKept, TypePartsNext DEF IInv
<1>2. CASE ~pin[s]
  BY <1>0, <1>2, SubmitterLooks, RestKept DEF Enqueue, Kept, Phases
<1> QED BY <1>1, <1>2

\* The lookup of an accepted job only reads.
LEMMA CheckIInv ==
    ASSUME IInv, NEW s \in Submitters, Check(s)
    PROVE  IInv'
<1> USE DEF At
<1>1. PICK p \in Phases, i \in Nat :
         Go(s, p, i) /\ (p # "idle" => i \in Entries) /\ p # "accept"
  BY Advances DEF Check, Refuse, Phases
<1>2. UNCHANGED <<manifest, pin, jobs, seen, budget>> /\ pin \in [Actors -> BOOLEAN]
  BY DEF Check, IInv, TypeOK
<1> QED BY <1>1, <1>2, SubmitterLooks, RestKept

\* A submission that goes to accept after a lookup found a document, hence an
\* admitted job.
LEMMA FindIInv ==
    ASSUME IInv, NEW s \in Submitters, Find(s)
    PROVE  IInv'
<1> USE DEF At
<1>1. at[s] \in Entries BY DEF IInv, Placed, Find
<1>2. PICK p \in {"accept", "probe"} :
         Go(s, p, at[s]) /\ (p = "accept" => Exists(at[s]) \/ EndedByRecord(at[s]))
  BY DEF Find
<1>3. p = "accept" => created[at[s]] > 0
  BY <1>1, <1>2 DEF IInv, Admitted, EndedByRecord
<1>4. UNCHANGED <<manifest, pin, jobs, seen, budget>> /\ pin \in [Actors -> BOOLEAN]
  BY DEF Find, IInv, TypeOK
<1> QED BY <1>1, <1>2, <1>3, <1>4, SubmitterLooks, RestKept DEF Phases

\* The probe goes on to the create or finds the job.
LEMMA ProbeIInv ==
    ASSUME IInv, NEW s \in Submitters, Probe(s)
    PROVE  IInv'
<1> USE DEF At
<1>1. at[s] \in Entries BY DEF IInv, Placed, Probe
<1>2. PICK p \in {"idle", "accept", "put"}, i \in Nat :
         Go(s, p, i) /\ (p # "idle" => i = at[s]) /\ (p = "accept" => Exists(at[s]))
  BY <1>1 DEF Probe, Refuse
<1>3. p = "accept" => created[i] > 0 BY <1>1, <1>2 DEF IInv, Admitted
<1>4. UNCHANGED <<manifest, pin, jobs, seen, budget>> /\ pin \in [Actors -> BOOLEAN]
  BY DEF Probe, IInv, TypeOK
<1> QED BY <1>1, <1>2, <1>3, <1>4, SubmitterLooks, RestKept DEF Phases

\* The one step that admits a job.
LEMMA PutIInv ==
    ASSUME IInv, NEW s \in Submitters, Put(s)
    PROVE  IInv'
<1> USE DEF At
<1>0. /\ at[s] \in Entries /\ UNCHANGED <<manifest, pin, seen, budget>>
      /\ pin \in [Actors -> BOOLEAN] /\ created \in [Entries -> Nat]
  BY DEF IInv, Placed, Put, TypeOK
<1>1. CASE queue[at[s]] = "none"
  <2>1. /\ queue' = [queue EXCEPT ![at[s]] = "job"]
        /\ created' = [created EXCEPT ![at[s]] = @ + 1]
        /\ Go(s, "accept", at[s]) /\ UNCHANGED <<running, ended, moved, due>>
    BY <1>1 DEF Put
  <2>2. /\ created' \in [Entries -> Nat] /\ created'[at[s]] > 0
        /\ \A e \in Entries : created[e] > 0 => created'[e] > 0
    BY <1>0, <2>1
  <2>3. JobsType' BY <1>0, <2>1, <2>2 DEF IInv, TypeOK, JobsType, Docs
  <2>4. CallsType' /\ Placed' /\ Accepting' /\ Reaping'
    BY <1>0, <2>1, <2>2, SubmitterGoes DEF Phases, manifest
  <2>5. Admitted' BY <1>0, <2>1, <2>2 DEF IInv, TypeOK, Admitted, Exists, manifest
  <2>6. AcceptedAdmitted' BY <1>0, <2>2 DEF IInv, AcceptedAdmitted, manifest
  <2>7. DeletedRetained'
    BY <1>0, <2>1 DEF IInv, TypeOK, DeletedRetained, Exists, manifest
  <2> QED BY <1>0, <2>3, <2>4, <2>5, <2>6, <2>7, ManifestKept, RestKept,
             TypePartsNext DEF IInv, Kept
<1>2. CASE queue[at[s]] # "none"
  <2>1. PICK p \in {"idle", "accept"}, i \in Nat :
           Go(s, p, i) /\ (p # "idle" => i = at[s]) /\ (p = "accept" => Exists(at[s]))
    BY <1>0, <1>2 DEF Put, Refuse
  <2>2. p = "accept" => created[i] > 0 BY <1>0, <2>1 DEF IInv, Admitted
  <2>3. UNCHANGED jobs BY <1>2 DEF Put, jobs
  <2> QED BY <1>0, <2>1, <2>2, <2>3, SubmitterLooks, RestKept DEF Phases
<1> QED BY <1>1, <1>2

\* Acceptance is what Accepting vouched for.
LEMMA AcceptIInv ==
    ASSUME IInv, NEW s \in Submitters, Accept(s)
    PROVE  IInv'
<1> USE DEF At
<1>0. /\ at[s] \in Entries /\ pc[s] # "idle" /\ created[at[s]] > 0
      /\ UNCHANGED <<jobs, seen, budget>> /\ pin \in [Actors -> BOOLEAN]
  BY DEF IInv, Placed, Accepting, Accept, TypeOK
<1>1. CASE /\ entry[at[s]] = "enqueuing"
           /\ entry' = [entry EXCEPT ![at[s]] = "accepted"]
           /\ Advance(s) /\ Written(None)
           /\ UNCHANGED <<planned, outcome, reaped, cleaned>>
  <2>1. ManifestType' /\ Admitted' /\ AcceptedAdmitted' /\ DeletedRetained'
    BY <1>0, <1>1, EntryWritten DEF States
  <2>2. created \in [Entries -> Nat] /\ created' = created
    BY <1>0 DEF IInv, TypeOK, jobs
  <2>3. PICK p \in Phases, i \in Nat :
           Go(s, p, i) /\ (p # "idle" => i \in Entries) /\ p # "accept"
    BY <1>0, <1>1, Advances
  <2>4. CallsType' /\ Placed' /\ Accepting' /\ Reaping'
    BY <1>0, <1>1, <2>2, <2>3, SubmitterGoes
  <2> QED BY <1>0, <2>1, <2>4, JobsKept, RestKept, TypePartsNext DEF IInv
<1>2. CASE (Advance(s) \/ Refuse(s)) /\ Kept
  <2>1. PICK p \in Phases, i \in Nat :
           Go(s, p, i) /\ (p # "idle" => i \in Entries) /\ p # "accept"
    BY <1>0, <1>2, Advances DEF Refuse, Phases
  <2> QED BY <1>0, <1>2, <2>1, SubmitterLooks, RestKept DEF Kept
<1> QED BY <1>1, <1>2 DEF Accept

\* A submission that dies leaves its entry and its job as they were.
LEMMA DieIInv ==
    ASSUME IInv, NEW s \in Submitters, Die(s)
    PROVE  IInv'
<1>1. Go(s, "idle", 0) /\ UNCHANGED <<manifest, jobs>> BY DEF Die, Refuse
<1>2. RestType' /\ pin' \in [Actors -> BOOLEAN] BY DEF IInv, TypeOK, Die, RestType
<1> QED BY <1>1, <1>2, SubmitterLooks DEF Phases

-----------------------------------------------------------------------------
\* The jobs

\* A step of a job leaves every call where it was.
LEMMA CallsKept ==
    ASSUME IInv, UNCHANGED <<pc, at>>, created' = created,
           \A e \in Entries : outcome[e] # None => outcome'[e] # None
    PROVE  CallsType' /\ Placed' /\ Accepting' /\ Reaping'
<1>1. CallsType' BY TypeParts DEF IInv, CallsType
<1>2. Placed' /\ Accepting' BY DEF IInv, Placed, Accepting
<1>3. Reaping' BY DEF IInv, Reaping, Complete
<1> QED BY <1>1, <1>2, <1>3

\* A claim by a worker moves an admitted job.
LEMMA WorkIInv ==
    ASSUME IInv, NEW e \in Entries, Work(e)
    PROVE  IInv'
<1> USE DEF Work
<1>1. JobsType' BY DEF IInv, TypeOK, JobsType, Docs
<1>2. CallsType' /\ Placed' /\ Accepting' /\ Reaping'
  BY CallsKept DEF local, manifest
<1>3. Admitted' BY DEF IInv, TypeOK, Admitted, Exists, manifest
<1>4. AcceptedAdmitted' BY DEF IInv, AcceptedAdmitted, manifest
<1>5. DeletedRetained' BY DEF IInv, TypeOK, DeletedRetained, Exists, manifest
<1> QED BY <1>1, <1>2, <1>3, <1>4, <1>5, ManifestKept, RestKept, TypePartsNext
        DEF IInv, Kept, local

\* A job ends under a terminal prefix, so it was admitted.
LEMMA FinishIInv ==
    ASSUME IInv, NEW e \in Entries, Finish(e)
    PROVE  IInv'
<1>0. PICK t \in Ends :
         /\ ended' = [ended EXCEPT ![e] = {d \in @ : d.to # t}
                                             \cup {[to |-> t, gen |-> created[e]]}]
         /\ moved' = [moved EXCEPT ![e] = t]
  BY DEF Finish
<1> USE DEF Finish
<1>1. JobsType'
  <2>1. [to |-> t, gen |-> created[e]] \in End BY DEF IInv, TypeOK, End
  <2>2. \A f \in Entries : ended'[f] \subseteq End BY <1>0, <2>1 DEF IInv, TypeOK
  <2> QED BY <1>0, <2>2 DEF IInv, TypeOK, JobsType, Docs
<1>2. CallsType' /\ Placed' /\ Accepting' /\ Reaping'
  BY CallsKept DEF local, manifest
<1>3. created[e] > 0 BY DEF IInv, Admitted, Exists
<1>4. Admitted' BY <1>0, <1>3 DEF IInv, TypeOK, Admitted, Exists, manifest
<1>5. AcceptedAdmitted' BY DEF IInv, AcceptedAdmitted, manifest
<1>6. DeletedRetained'
  <2> SUFFICES ASSUME NEW f \in Entries, created'[f] > 0, ~Exists(f)'
               PROVE  outcome'[f] # None
    BY DEF DeletedRetained
  <2>1. f # e
    <3>1. ended'[e] # {} BY <1>0 DEF IInv, TypeOK
    <3> QED BY <3>1 DEF Exists
  <2> QED BY <1>0, <2>1 DEF IInv, TypeOK, DeletedRetained, Exists, manifest
<1> QED BY <1>1, <1>2, <1>4, <1>5, <1>6, ManifestKept, RestKept, TypePartsNext
        DEF IInv, Kept, local

\* record_terminal_outcome, whoever calls it: an outcome is added, never
\* replaced, to the entry of a job that was admitted.
LEMMA Retains ==
    ASSUME IInv, NEW e \in Entries, NEW d \in ended[e], Retain(e, d),
           UNCHANGED <<queue, running, ended, moved, created>>
    PROVE  /\ ManifestType' /\ Admitted' /\ AcceptedAdmitted' /\ DeletedRetained'
           /\ \A f \in Entries : outcome[f] # None => outcome'[f] = outcome[f]
<1>0. d \in End /\ d # None /\ created[e] > 0
  BY DEF IInv, TypeOK, Admitted, Exists
<1>1. CASE Recorded(e, d) \/ Changed(e, d)
  <2>1. Kept BY <1>1 DEF Retain
  <2> QED BY <2>1, ManifestKept DEF Kept, manifest, IInv, Admitted,
             AcceptedAdmitted, DeletedRetained, Exists
<1>2. CASE ~(Recorded(e, d) \/ Changed(e, d))
  <2>1. /\ entry' = [entry EXCEPT ![e] = "terminal"]
        /\ outcome' = [outcome EXCEPT ![e] = d]
        /\ Written(None) /\ UNCHANGED <<planned, reaped, cleaned>>
    BY <1>2 DEF Retain
  <2>2. outcome[e] = None BY <1>2 DEF Changed
  <2>3. ManifestType' BY <1>0, <2>1 DEF IInv, TypeOK, ManifestType, Written, States
  <2>4. Admitted' BY <1>0, <2>1 DEF IInv, TypeOK, Admitted, Exists
  <2>5. AcceptedAdmitted' BY <1>0, <2>1 DEF IInv, TypeOK, AcceptedAdmitted
  <2>6. DeletedRetained' BY <1>0, <2>1 DEF IInv, TypeOK, DeletedRetained, Exists
  <2>7. \A f \in Entries : outcome[f] # None => outcome'[f] = outcome[f]
    BY <2>1, <2>2 DEF IInv, TypeOK
  <2> QED BY <2>3, <2>4, <2>5, <2>6, <2>7
<1> QED BY <1>1, <1>2

\* An outcome is recorded of a job that ended.
LEMMA RecordIInv ==
    ASSUME IInv, NEW e \in Entries, Record(e)
    PROVE  IInv'
<1>0. PICK d \in ended[e] :
         Retain(e, d) /\ due' = [due EXCEPT ![e] = Changed(e, d)]
  BY DEF Record
<1> USE DEF Record
<1>1. /\ ManifestType' /\ Admitted' /\ AcceptedAdmitted' /\ DeletedRetained'
      /\ \A f \in Entries : outcome[f] # None => outcome'[f] = outcome[f]
  BY <1>0, Retains
<1>2. Changed(e, d) \in BOOLEAN BY DEF Changed, Recorded
<1>3. JobsType' BY <1>0, <1>2 DEF IInv, TypeOK, JobsType
<1>4. CallsType' /\ Placed' /\ Accepting' /\ Reaping' BY <1>1, CallsKept
<1> QED BY <1>1, <1>3, <1>4, RestKept, TypePartsNext DEF IInv

\* A settled sentinel is no document of the job.
LEMMA SettleIInv ==
    ASSUME IInv, NEW e \in Entries, Settle(e)
    PROVE  IInv'
<1> USE DEF Settle
<1>1. JobsType' BY DEF IInv, TypeOK, JobsType, Docs
<1>2. CallsType' /\ Placed' /\ Accepting' /\ Reaping'
  BY CallsKept DEF local, manifest
<1>3. Admitted' BY DEF IInv, TypeOK, Admitted, Exists, manifest
<1>4. AcceptedAdmitted' BY DEF IInv, AcceptedAdmitted, manifest
<1>5. DeletedRetained' BY DEF IInv, TypeOK, DeletedRetained, Exists, manifest
<1> QED BY <1>1, <1>2, <1>3, <1>4, <1>5, ManifestKept, RestKept, TypePartsNext
        DEF IInv, Kept, local

-----------------------------------------------------------------------------
\* The reaper

\* A reaper that only looks and goes on.
LEMMA ReaperLooks ==
    ASSUME IInv, NEW p \in Phases, NEW i \in Nat, Go(Reaper, p, i),
           p \in {"swap", "delete"} => Complete,
           UNCHANGED <<manifest, jobs, budget>>, pin' \in [Actors -> BOOLEAN],
           seen' \subseteq Entries
    PROVE  IInv'
<1>1. JobsType' /\ created' = created BY JobsKept
<1>2. Complete' = Complete BY DEF Complete, manifest
<1>3. CallsType' /\ Placed' /\ Accepting' /\ Reaping' BY <1>1, <1>2, ReaperGoes
<1>4. ManifestType' BY TypeParts DEF IInv, ManifestType, manifest
<1>5. RestType' BY TypeParts DEF IInv, RestType, budget
<1> QED BY <1>1, <1>3, <1>4, <1>5, DocsKept, TypePartsNext DEF IInv

\* The reads of the reaper change nothing.
LEMMA LooksIInv ==
    ASSUME IInv, List \/ Read \/ Status \/ Sweep
    PROVE  IInv'
<1>0. pin \in [Actors -> BOOLEAN] /\ seen \subseteq Entries BY DEF IInv, TypeOK
<1>1. CASE List BY <1>0, <1>1, ReaperLooks DEF List, Residue, Phases
<1>2. CASE Read
  <2>1. PICK p \in {"sweep", "idle", "status"} : Go(Reaper, p, 1) BY <1>2 DEF Read
  <2> QED BY <1>0, <1>2, <2>1, ReaperLooks DEF Read, Phases
<1>3. CASE Status
  <2>1. PICK p \in {"retain", "idle"} : Go(Reaper, p, 0) BY <1>3 DEF Status
  <2> QED BY <1>0, <1>3, <2>1, ReaperLooks DEF Status, Phases
<1>4. CASE Sweep
  <2>1. PICK p \in {"delete", "idle"} : Go(Reaper, p, 1) /\ (p = "delete" => Complete)
    BY <1>4 DEF Sweep
  <2> QED BY <1>0, <1>4, <2>1, ReaperLooks DEF Sweep, Phases
<1> QED BY <1>1, <1>2, <1>3, <1>4

\* Retaining only adds outcomes of ended jobs.
LEMMA RetainAllIInv ==
    ASSUME IInv, RetainAll
    PROVE  IInv'
<1>0. /\ pin \in [Actors -> BOOLEAN] /\ seen \subseteq Entries
      /\ UNCHANGED <<jobs, budget>> /\ created' = created
  BY DEF IInv, TypeOK, RetainAll, jobs
<1>1. CASE seen = {} /\ Go(Reaper, "mark", 0) /\ Kept /\ UNCHANGED seen
  BY <1>0, <1>1, ReaperLooks DEF Kept, Phases
<1>2. ASSUME NEW e \in seen, NEW d \in ended[e], Retain(e, d),
             IF Changed(e, d) THEN Go(Reaper, "idle", 0) /\ seen' = {}
             ELSE seen' = seen \ {e} /\ UNCHANGED <<pc, at>>
      PROVE  IInv'
  <2>1. /\ ManifestType' /\ Admitted' /\ AcceptedAdmitted' /\ DeletedRetained'
        /\ \A f \in Entries : outcome[f] # None => outcome'[f] = outcome[f]
    BY <1>0, <1>2, Retains DEF jobs
  <2>2. CallsType' /\ Placed' /\ Accepting' /\ Reaping'
    BY <1>0, <1>2, <2>1, ReaperGoes, CallsKept DEF Phases
  <2>3. RestType' BY <1>0, <1>2 DEF IInv, TypeOK, RestType, budget
  <2> QED BY <1>0, <2>1, <2>2, <2>3, JobsKept, TypePartsNext DEF IInv
<1> QED BY <1>1, <1>2 DEF RetainAll

\* A reaper goes on from the mark only with every outcome retained.
LEMMA MarkIInv ==
    ASSUME IInv, Mark
    PROVE  IInv'
<1>0. seen \subseteq Entries /\ pin' \in [Actors -> BOOLEAN]
  BY DEF IInv, TypeOK, Mark
<1>1. PICK p \in {"swap", "idle"} : Go(Reaper, p, 0) /\ (p = "swap" => Complete)
  BY DEF Mark
<1> QED BY <1>0, <1>1, ReaperLooks DEF Mark, Phases

\* The mark names every entry reaped: each was admitted, since each is retained.
LEMMA SwapIInv ==
    ASSUME IInv, Swap
    PROVE  IInv'
<1>0. seen \subseteq Entries /\ pin \in [Actors -> BOOLEAN] /\ UNCHANGED <<jobs, seen, budget>>
  BY DEF IInv, TypeOK, Swap
<1>1. CASE pin[Reaper]
  <2>1. /\ entry' = [e \in Entries |-> "reaped"] /\ reaped' = TRUE
        /\ Written(None) /\ Go(Reaper, "sweep", 1)
        /\ UNCHANGED <<planned, outcome, cleaned>>
    BY <1>1 DEF Swap
  <2>2. \A e \in Entries : created[e] > 0
    BY DEF IInv, Reaping, Complete, Admitted, Swap, At
  <2>3. ManifestType' BY <2>1 DEF IInv, TypeOK, ManifestType, Written, States
  <2>4. AcceptedAdmitted' BY <1>0, <2>2 DEF AcceptedAdmitted, jobs
  <2>5. Admitted' /\ DeletedRetained'
    BY <1>0, <2>1 DEF IInv, jobs, Admitted, DeletedRetained, Exists
  <2>6. CallsType' /\ Placed' /\ Accepting' /\ Reaping'
    BY <1>0, <2>1, ReaperGoes DEF Phases, jobs
  <2> QED BY <1>0, <2>3, <2>4, <2>5, <2>6, JobsKept, RestKept, TypePartsNext DEF IInv
<1>2. CASE ~pin[Reaper] BY <1>0, <1>2, ReaperLooks DEF Swap, Kept, Phases
<1> QED BY <1>1, <1>2

\* What the reaper deletes is retained, because it saw so and outcomes stay.
LEMMA DeleteIInv ==
    ASSUME IInv, Delete
    PROVE  IInv'
<1> DEFINE i == at[Reaper]
           e == Which(i)
<1>0. /\ ended' = [ended EXCEPT ![e] = IF Part(i) = 0 THEN {} ELSE @]
      /\ queue' = [queue EXCEPT ![e] = IF Part(i) = 1 THEN "none" ELSE @]
      /\ running' = [running EXCEPT ![e] = IF Part(i) = 2 THEN "none" ELSE @]
      /\ due' = [due EXCEPT ![e] = IF Part(i) = 0 THEN FALSE ELSE @]
      /\ IF i = 3 * N THEN Go(Reaper, "clean", 0) ELSE Go(Reaper, "delete", i + 1)
      /\ UNCHANGED <<manifest, pin, moved, created, seen, budget>>
  BY DEF Delete
<1>1. Complete /\ Complete' BY <1>0 DEF IInv, Reaping, Delete, At, Complete, manifest
<1>2. i \in Nat BY DEF IInv, TypeOK
<1> HIDE DEF i, e
<1>3. JobsType' BY <1>0 DEF IInv, TypeOK, JobsType, Docs
<1>4. CallsType' /\ Placed' /\ Accepting' /\ Reaping'
  <2>1. PICK p \in {"clean", "delete"}, k \in Nat : Go(Reaper, p, k) BY <1>0, <1>2
  <2> QED BY <1>0, <1>1, <2>1, ReaperGoes DEF Phases
<1>5. Admitted' BY <1>0 DEF IInv, TypeOK, Admitted, Exists, manifest
<1>6. AcceptedAdmitted' BY <1>0 DEF IInv, AcceptedAdmitted, manifest
<1>7. DeletedRetained' BY <1>1 DEF DeletedRetained, Complete
<1> QED BY <1>0, <1>3, <1>4, <1>5, <1>6, <1>7, ManifestKept, RestKept,
           TypePartsNext DEF IInv, Kept

\* Marking the run cleaned changes neither entries nor jobs.
LEMMA CleanIInv ==
    ASSUME IInv, Clean
    PROVE  IInv'
<1>1. ManifestType' BY DEF IInv, TypeOK, Clean, Written, ManifestType
<1>2. CallsType' /\ Placed' /\ Accepting' /\ Reaping'
  BY ReaperGoes DEF Clean, jobs, Phases
<1>3. Admitted' /\ AcceptedAdmitted' /\ DeletedRetained'
  BY DEF IInv, Clean, jobs, Admitted, AcceptedAdmitted, DeletedRetained, Exists
<1> QED BY <1>1, <1>2, <1>3, JobsKept, RestKept, TypePartsNext DEF IInv, Clean

\* A reaper that fails leaves its marks and deletions as far as they went.
LEMMA TickFailsIInv ==
    ASSUME IInv, TickFails
    PROVE  IInv'
<1>1. RestType' /\ pin' \in [Actors -> BOOLEAN]
  BY DEF IInv, TypeOK, TickFails, RestType
<1>2. UNCHANGED <<manifest, jobs>> /\ Go(Reaper, "idle", 0) BY DEF TickFails
<1>3. CallsType' /\ Placed' /\ Accepting' /\ Reaping'
  BY <1>2, ReaperGoes DEF jobs, Phases
<1>4. ManifestType' BY <1>1, <1>2, TypeParts DEF IInv, ManifestType, manifest
<1> QED BY <1>1, <1>2, <1>3, <1>4, JobsKept, DocsKept, TypePartsNext DEF IInv

-----------------------------------------------------------------------------
\* The theorems

\* Every step preserves the invariant.
LEMMA StepIInv == IInv /\ [Next]_vars => IInv'
<1> SUFFICES ASSUME IInv, [Next]_vars PROVE IInv' OBVIOUS
<1>1. ASSUME NEW s \in Submitters, Submit(s) \/ SubmitStep(s) \/ Die(s)
      PROVE  IInv'
  BY <1>1, SubmitIInv, PlanIInv, ClaimIInv, EnqueueIInv, CheckIInv, FindIInv,
     ProbeIInv, PutIInv, AcceptIInv, DieIInv DEF SubmitStep
<1>2. ASSUME NEW e \in Entries, Work(e) \/ Finish(e) \/ Record(e) \/ Settle(e)
      PROVE  IInv'
  BY <1>2, WorkIInv, FinishIInv, RecordIInv, SettleIInv
<1>3. CASE ReapStep
  BY <1>3, LooksIInv, RetainAllIInv, MarkIInv, SwapIInv, DeleteIInv, CleanIInv
  DEF ReapStep
<1>4. CASE UNCHANGED vars
  <2>1. UNCHANGED <<manifest, jobs, pc, at, pin, seen, budget>>
    BY <1>4 DEF vars, local
  <2>2. created' = created /\ outcome' = outcome BY <2>1 DEF jobs, manifest
  <2>3. CallsType' /\ Placed' /\ Accepting' /\ Reaping' BY <2>1, <2>2, CallsKept
  <2> QED BY <2>1, <2>3, ManifestKept, JobsKept, RestKept, DocsKept, TypePartsNext
          DEF IInv, Kept
<1> QED BY <1>1, <1>2, <1>3, <1>4, TickFailsIInv DEF Next

\* The manifest, the documents and the calls stay sound through submissions,
\* replays, outcomes and reaping.
THEOREM Invariance == Spec => []IInv
BY InitIInv, StepIInv, PTL DEF Spec

\* The run's documents and calls keep their types.
THEOREM TypeCorrect == Spec => []TypeOK
<1>1. IInv => TypeOK BY DEF IInv
<1> QED BY <1>1, Invariance, PTL

\* checkpoint_accepted never names an entry accepted, and nobody names it ended,
\* before its job was admitted.
THEOREM AcceptedOnlyAdmitted == Spec => []AcceptedAdmitted
<1>1. IInv => AcceptedAdmitted BY DEF IInv
<1> QED BY <1>1, Invariance, PTL

\* sweep_retained_run deletes the last document of a job only when its run
\* retains how the job ended.
THEOREM RetainedBeforeDeletion == Spec => []DeletedRetained
<1>1. IInv => DeletedRetained BY DEF IInv
<1> QED BY <1>1, Invariance, PTL

\* No step replaces an outcome: whoever writes one finds none retained.
LEMMA StepOutcome ==
    ASSUME IInv, [Next]_vars, NEW e \in Entries, outcome[e] # None
    PROVE  outcome'[e] = outcome[e]
<1>1. CASE UNCHANGED outcome BY <1>1
<1>2. ASSUME NEW f \in Entries, Record(f) PROVE outcome'[e] = outcome[e]
  <2>1. PICK d \in ended[f] : Retain(f, d) BY <1>2 DEF Record
  <2> QED BY <1>2, <2>1, Retains DEF Record
<1>3. CASE RetainAll
  <2>1. CASE Kept BY <2>1 DEF Kept, manifest
  <2>2. ASSUME NEW f \in seen, NEW d \in ended[f], Retain(f, d)
        PROVE  outcome'[e] = outcome[e]
    BY <1>3, <2>2, Retains DEF RetainAll, jobs, IInv, TypeOK
  <2> QED BY <1>3, <2>1, <2>2 DEF RetainAll
<1>4. \/ UNCHANGED outcome \/ RetainAll \/ \E f \in Entries : Record(f)
  <2>1. ASSUME NEW s \in Submitters, Submit(s) \/ SubmitStep(s) \/ Die(s)
        PROVE  UNCHANGED outcome
    BY <2>1 DEF SubmitStep, Submit, Plan, Claim, Enqueue, Check, Find, Probe, Put,
                Accept, Die, Kept, manifest
  <2>2. ASSUME NEW f \in Entries, Work(f) \/ Finish(f) \/ Settle(f)
        PROVE  UNCHANGED outcome
    BY <2>2 DEF Work, Finish, Settle, manifest
  <2>3. CASE ReapStep \/ TickFails
    BY <2>3 DEF ReapStep, List, Read, Status, Mark, Swap, Sweep, Delete, Clean,
                TickFails, Kept, manifest
  <2>4. CASE UNCHANGED vars BY <2>4 DEF vars, manifest
  <2> QED BY <2>1, <2>2, <2>3, <2>4 DEF Next
<1> QED BY <1>1, <1>2, <1>3, <1>4

\* record_terminal_outcome refuses another outcome: what a run retains of a job
\* never changes.
THEOREM OutcomeStays == Spec => OutcomeKept
<1>1. IInv /\ [Next]_vars
        => [\A e \in Entries : outcome[e] # None => outcome'[e] = outcome[e]]_vars
  BY StepOutcome
<1> QED BY <1>1, Invariance, PTL DEF Spec, OutcomeKept
=============================================================================
