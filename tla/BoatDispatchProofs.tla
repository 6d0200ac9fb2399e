-------------------------- MODULE BoatDispatchProofs --------------------------
(***************************************************************************)
(* Proofs about BoatDispatch, for any number of ticks, cancellations and   *)
(* sandboxes and any number of failed invocations: the type invariant, the *)
(* single start, the sandbox on record of a running job, the released      *)
(* sandbox and the collected artifacts of a completed job.                 *)
(*                                                                         *)
(* The argument: the lease is owned by the one invocation that is between  *)
(* acquiring and leaving it (Owner), so what that invocation read of the   *)
(* lease still holds at its next call (Placed).                            *)
(***************************************************************************)
EXTENDS BoatDispatch, TLAPS

-----------------------------------------------------------------------------
\* The inductive invariant

\* The invocations in the middle of their work on the lease are its owner.
Owner == \A s \in Sessions : pc[s] \in Owning <=> holder = s

\* The sandbox is on record from PROVISIONING on, and a recorded one exists.
OnRecord ==
    /\ B = None <=> lease.state \in {"absent", "allocating"}
    /\ B # None => box[B] # "none"
    /\ job = "running" => B # None

\* Where an invocation may be only once the sandbox is on record.
Recorded == {"acquire", "claim", "look", "start", "launch", "recover", "submit",
             "started", "poll", "fail", "gone", "vanished", "resume",
             "collected", "freed", "interrupt", "move"}

\* What an invocation knows of the lease and of the sandbox where it is.
Placed(s) ==
    /\ pc[s] \in Recorded => B # None
    /\ pc[s] = "record" => made[s] # None /\ box[made[s]] # "none"
    /\ pc[s] = "start" => lease.state = "ready"
    /\ pc[s] \in {"launch", "recover", "submit", "started"}
         => lease.state = "starting"
    /\ pc[s] = "poll" => lease.state = "running"
    /\ pc[s] = "gone"
         => lease.state \notin Ended \cup {"collecting"} /\ box[B] = "down"
    /\ pc[s] = "vanished"
         => /\ lease.state \in {"failed", "releasing"} /\ box[B] = "down"
            /\ lease.result # "completed"
    /\ pc[s] = "collected" => lease.state = "collecting" /\ artifacts
    /\ pc[s] = "freed" => lease.state = "releasing" /\ box[B] = "down"

\* A lease says completed of work that ended well, and is past COLLECTING only
\* with the artifacts in the store.
Outcome ==
    lease.result = "completed" =>
        /\ lease.state \in {"collecting", "releasing", "released"}
        /\ work[B] = "ok"
        /\ lease.state # "collecting" => artifacts

\* The one start besides the late prompts is that of the recorded sandbox, and
\* whoever is about to submit comes before it.
Starts ==
    \/ launches = arrived
    \/ /\ launches = arrived + 1
       /\ B # None /\ work[B] # "idle"
       /\ \A s \in Sessions : pc[s] # "submit"

IInv ==
    /\ TypeOK /\ Owner /\ OnRecord /\ Outcome /\ Starts
    /\ \A s \in Sessions : Placed(s)
    /\ ReleasedIsDown /\ CompletedCollected


-----------------------------------------------------------------------------
\* The parts of the type invariant

Leases == [state: LeaseStates, box: Boxes \cup {None},
           prompt: BOOLEAN, result: {"none", "completed", "failed"}]

Phases == {"idle", "acquire", "control", "admit", "claim", "done"} \cup Owning

BoatType ==
    /\ box \in [Boxes -> {"none", "pending", "serving", "error", "down"}]
    /\ work \in [Boxes -> {"idle", "running", "ok", "bad", "killed"}]
    /\ launches \in Nat /\ arrived \in Nat /\ late \in SUBSET Boxes

SessionType ==
    /\ holder \in Sessions \cup {None}
    /\ pc \in [Sessions -> Phases]
    /\ made \in [Sessions -> Boxes \cup {None}]

RestType ==
    /\ executor \in {"command", "prompt"}
    /\ deletes \in SUBSET Stops /\ admissible \in BOOLEAN
    /\ job \in {"queue", "running", "completed", "failed"}
    /\ paused \in BOOLEAN /\ artifacts \in BOOLEAN
    /\ faults \in Nat /\ requeues \in Nat

\* The type invariant is that of the lease, of Boat, of the invocations and of
\* the rest, each disturbed by other actions.
LEMMA TypeParts ==
    TypeOK <=> lease \in Leases /\ BoatType /\ SessionType /\ RestType
BY DEF TypeOK, Leases, BoatType, SessionType, RestType, Phases

\* The same of the next state.
LEMMA TypePartsNext ==
    TypeOK' <=> (lease \in Leases)' /\ BoatType' /\ SessionType' /\ RestType'
BY DEF TypeOK, Leases, BoatType, SessionType, RestType, Phases

-----------------------------------------------------------------------------
\* What the building blocks do

\* A save keeps the sandbox on record and writes one of the results.
LEMMA Saved ==
    ASSUME TypeOK, NEW st \in LeaseStates,
           NEW r \in {"none", "completed", "failed"},
           lease' = [lease EXCEPT !.state = st, !.result = r]
    PROVE  /\ lease' \in Leases
           /\ lease'.state = st /\ lease'.result = r /\ lease'.box = lease.box
BY DEF TypeOK, Leases

\* The result an invocation saves is the recorded one or a failure.
LEMMA Results ==
    ASSUME TypeOK, NEW s
    PROVE  /\ Result(s) \in {"none", "completed", "failed"}
           /\ Result(s) = "completed" => lease.result = "completed"
BY DEF TypeOK, Result

\* An invocation that owns the lease goes on to a call it makes as its owner.
LEMMA GoesOn ==
    ASSUME IInv, NEW s \in Sessions, pc[s] \in Owning,
           NEW p \in Owning, Go(s, p), holder' = holder
    PROVE  /\ pc' \in [Sessions -> Phases] /\ pc'[s] = p /\ holder = s /\ Owner'
           /\ \A r \in Sessions \ {s} : pc'[r] = pc[r] /\ pc[r] \notin Owning
<1>1. /\ pc' \in [Sessions -> Phases] /\ pc'[s] = p
      /\ \A r \in Sessions \ {s} : pc'[r] = pc[r]
  BY DEF Go, IInv, TypeOK, Phases
<1>2. holder = s BY DEF IInv, Owner
<1>3. \A r \in Sessions \ {s} : pc[r] \notin Owning BY <1>2 DEF IInv, Owner
<1> QED BY <1>1, <1>2, <1>3 DEF Owner

\* What the others know is that the sandbox is on record, and it stays.
LEMMA OthersPlaced ==
    ASSUME IInv, NEW s \in Sessions,
           \A r \in Sessions \ {s} : pc'[r] = pc[r] /\ pc[r] \notin Owning,
           B # None => B' # None, Placed(s)'
    PROVE  \A r \in Sessions : Placed(r)'
<1> SUFFICES ASSUME NEW r \in Sessions \ {s} PROVE Placed(r)' OBVIOUS
<1>1. pc'[r] = pc[r] /\ pc'[r] \notin Owning OBVIOUS
<1>2. pc'[r] \in Recorded => B' # None BY <1>1 DEF IInv, Placed
<1> QED BY <1>1, <1>2 DEF Placed, Owning

\* A step of the owner that touches the lease document and nothing else.
LEMMA LeaseStep ==
    ASSUME IInv, NEW s \in Sessions, pc[s] \in Owning,
           NEW p \in Owning, Go(s, p),
           UNCHANGED <<world, boat, job, paused, artifacts, holder, made, budget>>,
           lease' \in Leases, lease'.box = lease.box,
           lease'.state \in {"absent", "allocating"}
               <=> lease.state \in {"absent", "allocating"},
           lease.state = "released" => lease'.state = "released",
           Placed(s)', Outcome', ReleasedIsDown',
           p = "submit" => launches = arrived
    PROVE  IInv'
<1> USE DEF world, boat, budget
<1>1. /\ pc' \in [Sessions -> Phases] /\ pc'[s] = p /\ holder = s /\ Owner'
      /\ \A r \in Sessions \ {s} : pc'[r] = pc[r] /\ pc[r] \notin Owning
  BY GoesOn
<1>2. TypeOK'
  BY <1>1, TypeParts, TypePartsNext DEF IInv, BoatType, SessionType, RestType
<1>3. \A r \in Sessions : Placed(r)' BY <1>1, OthersPlaced DEF B
<1>4. OnRecord' BY DEF IInv, OnRecord, B
<1>5. Starts'
  <2>1. CASE launches = arrived BY <2>1 DEF Starts
  <2>2. CASE launches # arrived
    <3>1. \A r \in Sessions : pc'[r] # "submit" BY <1>1, <2>2 DEF IInv, Starts
    <3> QED BY <3>1, <2>2 DEF IInv, Starts, B
  <2> QED BY <2>1, <2>2
<1>6. CompletedCollected' BY DEF IInv, CompletedCollected, B
<1> QED BY <1>1, <1>2, <1>3, <1>4, <1>5, <1>6 DEF IInv

\* A step of the owner that moves the job and nothing else.
LEMMA JobStep ==
    ASSUME IInv, NEW s \in Sessions, pc[s] \in Owning,
           NEW p \in Owning, Go(s, p), p # "submit",
           UNCHANGED <<world, boat, paused, lease, artifacts, holder, made, budget>>,
           job' \in {"queue", "running", "completed", "failed"},
           job' = "running" => B # None,
           Placed(s)', CompletedCollected'
    PROVE  IInv'
<1> USE DEF world, boat, budget
<1>1. /\ pc' \in [Sessions -> Phases] /\ pc'[s] = p /\ holder = s /\ Owner'
      /\ \A r \in Sessions \ {s} : pc'[r] = pc[r] /\ pc[r] \notin Owning
  BY GoesOn
<1>2. TypeOK'
  BY <1>1, TypeParts, TypePartsNext DEF IInv, BoatType, SessionType, RestType
<1>3. \A r \in Sessions : Placed(r)' BY <1>1, OthersPlaced DEF B
<1>4. OnRecord' /\ Outcome' /\ ReleasedIsDown'
  BY DEF IInv, OnRecord, Outcome, ReleasedIsDown, B
<1>5. Starts' BY <1>1 DEF IInv, Starts, B
<1> QED BY <1>1, <1>2, <1>3, <1>4, <1>5 DEF IInv

\* What Boat never does: bring back a sandbox that is down, or lose one.
Onward ==
    \A b \in Boxes : /\ box[b] # "none" => box'[b] # "none"
                     /\ box[b] = "down" => box'[b] = "down"

\* An invocation that stays where it is knows what it knew.
LEMMA StaysPlaced ==
    ASSUME IInv, NEW r \in Sessions, pc'[r] = pc[r], made'[r] = made[r],
           UNCHANGED <<lease, artifacts>>, Onward
    PROVE  Placed(r)'
<1>1. B \in Boxes \cup {None} /\ made[r] \in Boxes \cup {None}
  BY DEF IInv, TypeOK, B
<1>2. Placed(r) BY DEF IInv
<1>3. pc[r] \in {"gone", "vanished", "freed"} => B \in Boxes
  BY <1>1, <1>2 DEF Placed, Recorded
<1> QED BY <1>1, <1>2, <1>3 DEF Placed, Onward, B

\* An invocation that does not own the lease goes on without it.
LEMMA ApartStep ==
    ASSUME IInv, NEW s \in Sessions, pc[s] \notin Owning,
           NEW p \in Phases \ Owning, Go(s, p), p \in Recorded => B # None,
           UNCHANGED <<holder, made, lease, artifacts>>, Onward
    PROVE  /\ SessionType' /\ Owner' /\ \A r \in Sessions : Placed(r)'
           /\ \A r \in Sessions : pc'[r] = "submit" => pc[r] = "submit"
<1>1. /\ pc' \in [Sessions -> Phases] /\ pc'[s] = p
      /\ \A r \in Sessions \ {s} : pc'[r] = pc[r]
  BY DEF Go, IInv, TypeOK, Phases
<1>2. SessionType' BY <1>1 DEF IInv, TypeOK, SessionType
<1>3. Owner' BY <1>1 DEF IInv, Owner
<1>4. Placed(s)' BY <1>1 DEF Placed, Owning, B
<1>5. \A r \in Sessions \ {s} : Placed(r)' BY <1>1, StaysPlaced
<1> QED BY <1>1, <1>2, <1>3, <1>4, <1>5 DEF Owning

\* An invocation ends, and its lease with it.
LEMMA Leaves ==
    ASSUME IInv, NEW s \in Sessions, Leave(s),
           UNCHANGED <<lease, artifacts>>, Onward
    PROVE  /\ SessionType' /\ Owner' /\ \A r \in Sessions : Placed(r)'
           /\ \A r \in Sessions : pc'[r] = "submit" => pc[r] = "submit"
<1>0. Rest(s) \in {"idle", "done"} BY DEF Rest
<1>1. /\ pc' \in [Sessions -> Phases] /\ pc'[s] = Rest(s)
      /\ \A r \in Sessions \ {s} : pc'[r] = pc[r] /\ made'[r] = made[r]
      /\ made' \in [Sessions -> Boxes \cup {None}]
  BY <1>0 DEF Leave, IInv, TypeOK, Phases
<1>2. SessionType' BY <1>1 DEF IInv, TypeOK, SessionType, Leave
<1>3. Owner' BY <1>0, <1>1, BoatAssumption DEF IInv, Owner, Owning, Leave
<1>4. Placed(s)' BY <1>0, <1>1 DEF Placed, Recorded
<1>5. \A r \in Sessions \ {s} : Placed(r)' BY <1>1, StaysPlaced
<1> QED BY <1>0, <1>1, <1>2, <1>3, <1>4, <1>5

\* Nobody acts on the lease or on the sandboxes.
LEMMA NothingElse ==
    ASSUME IInv, UNCHANGED <<world, box, work, launches, arrived>>,
           UNCHANGED <<lease, artifacts, paused>>, late' \in SUBSET Boxes,
           job' \in {"queue", "running", "completed", "failed"},
           job' \in {"running", "completed"} => job' = job,
           faults' \in Nat, requeues' \in Nat,
           SessionType', Owner', \A r \in Sessions : Placed(r)',
           \A r \in Sessions : pc'[r] = "submit" => pc[r] = "submit"
    PROVE  IInv'
<1> USE DEF world
<1>1. TypeOK'
  BY TypeParts, TypePartsNext DEF IInv, BoatType, RestType
<1>2. OnRecord' /\ Outcome' /\ ReleasedIsDown' /\ CompletedCollected'
  BY DEF IInv, OnRecord, Outcome, ReleasedIsDown, CompletedCollected, B
<1>3. Starts' BY DEF IInv, Starts, B
<1> QED BY <1>1, <1>2, <1>3 DEF IInv

-----------------------------------------------------------------------------
\* Reconciling

\* A tick that lists running/ is on its way to acquire only for a running job.
LEMMA ListIInv ==
    ASSUME IInv, NEW s \in Sessions, List(s)
    PROVE  IInv'
<1> USE DEF List
<1>1. PICK p \in {"acquire", "control"} :
        /\ Go(s, p) /\ (p = "acquire" => job = "running")
        /\ UNCHANGED <<world, boat, store, holder, made, budget>>
  OBVIOUS
<1>2. p \in Phases \ Owning /\ pc[s] \notin Owning BY DEF Phases, Owning, At
<1>3. p \in Recorded => B # None BY <1>1 DEF IInv, OnRecord, Recorded
<1>4. Onward BY <1>1 DEF Onward, boat
<1> QED BY <1>1, <1>2, <1>3, <1>4, ApartStep, NothingElse
        DEF IInv, TypeOK, boat, store, budget

\* Whoever meets a held lease goes on without it.
LEMMA ConflictIInv ==
    ASSUME IInv, NEW s \in Sessions, Conflict(s)
    PROVE  IInv'
<1> USE DEF Conflict
<1>1. PICK p \in {"control", "idle", "done"} :
        /\ Go(s, p)
        /\ UNCHANGED <<world, boat, store, holder, made, budget>>
  BY DEF At
<1>2. p \in (Phases \ Owning) \ Recorded /\ pc[s] \notin Owning
  BY DEF Phases, Owning, Recorded
<1>4. Onward BY <1>1 DEF Onward, boat
<1> QED BY <1>1, <1>2, <1>4, ApartStep, NothingElse
        DEF IInv, TypeOK, boat, store, budget

\* The lease is taken over, or created, by an invocation that owned none.
LEMMA AcquireIInv ==
    ASSUME IInv, NEW s \in Sessions, Acquire(s), pc[s] \notin Owning,
           NEW p \in {"look", "interrupt", "provision"}, Go(s, p),
           p # "provision" => B # None,
           UNCHANGED <<world, boat, job, paused, artifacts, made, budget>>
    PROVE  IInv'
<1> USE DEF world, boat, budget
<1>0. p \in Owning /\ p \in Phases BY DEF Owning, Phases
<1>1. holder = None /\ holder' = s BY DEF Acquire, Lock!Take
<1>2. /\ pc' \in [Sessions -> Phases] /\ pc'[s] = p
      /\ \A r \in Sessions \ {s} : pc'[r] = pc[r]
  BY <1>0 DEF Go, IInv, TypeOK, Phases
<1>3. \A r \in Sessions : pc[r] \notin Owning
  BY <1>1, BoatAssumption DEF IInv, Owner
<1>4. Owner' BY <1>0, <1>1, <1>2, <1>3 DEF Owner
<1>5. /\ lease' \in Leases
      /\ lease'.box = lease.box /\ lease'.result = lease.result
      /\ \/ lease' = lease
         \/ lease.state = "absent" /\ lease'.state = "allocating"
  BY DEF Acquire, IInv, TypeOK, Leases, LeaseStates
<1>6. TypeOK'
  BY <1>1, <1>2, <1>5, TypeParts, TypePartsNext
     DEF IInv, BoatType, SessionType, RestType
<1>7. Placed(s)' BY <1>2, <1>5 DEF Placed, Recorded, B
<1>8. \A r \in Sessions : Placed(r)'
  BY <1>2, <1>3, <1>5, <1>7, OthersPlaced DEF B
<1>9. OnRecord' /\ Outcome' /\ ReleasedIsDown' /\ CompletedCollected'
  BY <1>5 DEF IInv, OnRecord, Outcome, ReleasedIsDown, CompletedCollected, B
<1>10. Starts' BY <1>2, <1>5 DEF IInv, Starts, B
<1> QED BY <1>4, <1>6, <1>8, <1>9, <1>10 DEF IInv

\* A tick that acquires the lease of a running job finds a sandbox on record.
LEMMA AcquireRunningIInv ==
    ASSUME IInv, NEW s \in Sessions, AcquireRunning(s)
    PROVE  IInv'
<1>1. pc[s] \notin Owning BY DEF AcquireRunning, At, Owning
<1>2. B # None BY DEF AcquireRunning, At, IInv, Placed, Recorded
<1> QED BY <1>1, <1>2, AcquireIInv DEF AcquireRunning

\* An invocation at a call it makes as the owner.
LEMMA LeaseStays ==
    ASSUME IInv, NEW s \in Sessions, pc[s] \in Owning,
           NEW p \in Owning, Go(s, p),
           UNCHANGED <<world, boat, store, holder, made, budget>>,
           Placed(s)', p = "submit" => launches = arrived
    PROVE  IInv'
<1> USE DEF world, boat, store, budget
<1>1. lease' \in Leases BY TypeParts DEF IInv
<1>2. Outcome' /\ ReleasedIsDown'
  BY DEF IInv, Outcome, ReleasedIsDown, B
<1> QED BY <1>1, <1>2, LeaseStep

\* Where an invocation that goes on is.
LEMMA Goes ==
    ASSUME IInv, NEW s \in Sessions, NEW p, Go(s, p)
    PROVE  pc'[s] = p
BY DEF Go, IInv, TypeOK

\* A save of the owner.
LEMMA SaveStep ==
    ASSUME IInv, NEW s \in Sessions, pc[s] \in Owning, B # None,
           NEW p \in Owning \ {"submit"}, Go(s, p),
           UNCHANGED <<world, boat, job, paused, artifacts, holder, made, budget>>,
           lease' \in Leases, lease'.box = lease.box,
           lease'.state \notin {"absent", "allocating"},
           lease.state = "released" => lease'.state = "released",
           lease'.state = "released" => box[B] = "down",
           lease'.result = "completed" =>
               /\ lease'.state \in {"collecting", "releasing", "released"}
               /\ work[B] = "ok"
               /\ lease'.state # "collecting" => artifacts,
           Placed(s)'
    PROVE  IInv'
<1>1. lease.state \notin {"absent", "allocating"} BY DEF IInv, OnRecord
<1>2. Outcome' BY DEF Outcome, B, boat
<1>3. ReleasedIsDown' BY DEF ReleasedIsDown, B, boat
<1> QED BY <1>1, <1>2, <1>3, LeaseStep

\* Reconciling goes where the saved state says, so that state still holds there.
LEMMA LookIInv ==
    ASSUME IInv, NEW s \in Sessions, Look(s)
    PROVE  IInv'
<1> USE DEF Look, world, boat, budget, store
<1>0. pc[s] \in Owning /\ B # None /\ B \in Boxes
  BY DEF At, Owning, IInv, Placed, Recorded, TypeOK, B
<1>1. ASSUME lease.state \in Ended \cup {"collecting"}, Go(s, "resume"), lease' = lease
      PROVE  IInv'
  <2>1. Placed(s)' BY <1>0, <1>1, Goes DEF Placed, B
  <2> QED BY <1>0, <1>1, <2>1, LeaseStays DEF Owning
<1>2. ASSUME lease.state \notin Ended \cup {"collecting"}, BoxGone, Go(s, "gone"),
             lease' = lease
      PROVE  IInv'
  <2>1. box[B] = "down" BY <1>0, <1>2 DEF BoxGone, IInv, OnRecord
  <2>2. Placed(s)' BY <1>0, <1>2, <2>1, Goes DEF Placed, B
  <2> QED BY <1>0, <1>2, <2>2, LeaseStays DEF Owning
<1>3. ASSUME NEW p \in {"fail", "relinquish"}, Go(s, p), lease' = lease
      PROVE  IInv'
  <2>1. Placed(s)' BY <1>0, <1>3, Goes DEF Placed, B
  <2> QED BY <1>0, <1>3, <2>1, LeaseStays DEF Owning
<1>4. ASSUME lease.state = "provisioning", Save(s, "ready"), Go(s, "start")
      PROVE  IInv'
  <2>0. Result(s) \in {"none", "completed", "failed"} /\ Result(s) # "completed"
    BY <1>4, Results DEF IInv, Outcome
  <2>1. lease' = [lease EXCEPT !.state = "ready", !.result = Result(s)]
    BY <1>4 DEF Save
  <2>2. /\ lease' \in Leases /\ lease'.box = lease.box
        /\ lease'.state = "ready" /\ lease'.result = Result(s)
    BY <2>0, <2>1, Saved DEF IInv, LeaseStates
  <2>3. Placed(s)' BY <1>0, <1>4, <2>2, Goes DEF Placed, B
  <2> QED BY <1>0, <1>4, <2>0, <2>2, <2>3, SaveStep DEF Owning
<1>5. ASSUME NEW p \in {"start", "recover", "launch", "poll"}, Go(s, p), lease' = lease,
             p = "start" => lease.state = "ready",
             p \in {"recover", "launch"} => lease.state = "starting",
             p = "poll" => lease.state = "running"
      PROVE  IInv'
  <2>1. Placed(s)' BY <1>0, <1>5, Goes DEF Placed, B
  <2> QED BY <1>0, <1>5, <2>1, LeaseStays DEF Owning
<1> QED BY <1>1, <1>2, <1>3, <1>4, <1>5

\* The start is saved as STARTING before anything starts.
LEMMA StartIInv ==
    ASSUME IInv, NEW s \in Sessions, Start(s)
    PROVE  IInv'
<1> USE DEF Start
<1>0. pc[s] \in Owning /\ B # None /\ lease.state = "ready"
  BY DEF At, Owning, IInv, Placed, Recorded
<1>1. PICK p \in {"recover", "launch"} : Go(s, p) OBVIOUS
<1>2. Result(s) \in {"none", "completed", "failed"} /\ Result(s) # "completed"
  BY <1>0, Results DEF IInv, Outcome
<1>3. lease' = [lease EXCEPT !.state = "starting", !.result = Result(s)]
  BY DEF Save
<1>4. /\ lease' \in Leases /\ lease'.box = lease.box
      /\ lease'.state = "starting" /\ lease'.result = Result(s)
  BY <1>2, <1>3, Saved DEF IInv, LeaseStates
<1>5. Placed(s)' BY <1>0, <1>1, <1>4, Goes DEF Placed, B
<1> QED BY <1>0, <1>1, <1>2, <1>4, <1>5, SaveStep DEF Owning

\* A prompt is submitted only if the log shows none.
LEMMA RecoverIInv ==
    ASSUME IInv, NEW s \in Sessions, Recover(s)
    PROVE  IInv'
<1> USE DEF Recover, boat, store
<1>0. pc[s] \in Owning /\ B # None /\ lease.state = "starting"
  BY DEF At, Owning, IInv, Placed, Recorded
<1>1. PICK p \in {"submit", "started"} : Go(s, p) /\ (p = "submit" => work[B] = "idle")
  OBVIOUS
<1>2. p = "submit" => launches = arrived BY <1>1 DEF IInv, Starts
<1>3. Placed(s)' BY <1>0, <1>1, Goes DEF Placed, B
<1> QED BY <1>0, <1>1, <1>2, <1>3, LeaseStays DEF Owning

\* A refused start goes on to fail, and starts nothing.
LEMMA RefusedIInv ==
    ASSUME IInv, NEW s \in Sessions, Refused(s)
    PROVE  IInv'
<1> USE DEF Refused, store
<1>0. pc[s] \in Owning /\ B # None BY DEF Owning, IInv, Placed, Recorded
<1>1. Placed(s)' BY <1>0, Goes DEF Placed, B
<1> QED BY <1>0, <1>1, LeaseStays DEF Owning

\* A start: the sandbox's workload is no longer idle, and it is the first or
\* follows late prompts only.
LEMMA StartsWork ==
    ASSUME IInv, NEW s \in Sessions, pc[s] \in {"launch", "submit"},
           NEW p \in {"started", "fail"}, Go(s, p), launches = arrived,
           work' = [work EXCEPT ![B] = "running"], launches' = launches + 1,
           UNCHANGED <<world, box, arrived, late, store, holder, made, budget>>
    PROVE  IInv'
<1> USE DEF world, store, budget
<1>0. pc[s] \in Owning /\ p \in Owning /\ B # None /\ lease.state = "starting" /\ B \in Boxes
  BY DEF Owning, IInv, Placed, Recorded, TypeOK, B
<1>1. /\ pc' \in [Sessions -> Phases] /\ pc'[s] = p /\ Owner'
      /\ \A r \in Sessions \ {s} : pc'[r] = pc[r] /\ pc[r] \notin Owning
  BY <1>0, GoesOn
<1>2. TypeOK'
  <2>1. BoatType' BY <1>0 DEF IInv, TypeOK, BoatType
  <2> QED BY <1>1, <2>1, TypeParts, TypePartsNext DEF IInv, SessionType, RestType
<1>3. Placed(s)' BY <1>0, <1>1 DEF Placed, B
<1>4. \A r \in Sessions : Placed(r)' BY <1>1, <1>3, OthersPlaced DEF B
<1>5. OnRecord' /\ Outcome' /\ ReleasedIsDown' /\ CompletedCollected'
  BY <1>0 DEF IInv, OnRecord, Outcome, ReleasedIsDown, CompletedCollected, B
<1>6. Starts'
  <2>1. work'[B] # "idle" BY <1>0 DEF IInv, TypeOK
  <2>2. \A r \in Sessions : pc'[r] # "submit" BY <1>1 DEF Owning
  <2> QED BY <1>0, <2>1, <2>2 DEF Starts, B
<1> QED BY <1>1, <1>2, <1>4, <1>5, <1>6 DEF IInv

\* The launch shell starts the workload only in a sandbox where it never started.
LEMMA LaunchIInv ==
    ASSUME IInv, NEW s \in Sessions, Launch(s)
    PROVE  IInv'
<1> USE DEF Launch
<1>1. CASE work[B] = "idle" /\ work' = [work EXCEPT ![B] = "running"]
           /\ launches' = launches + 1 /\ Go(s, "started")
  <2>1. launches = arrived BY <1>1 DEF IInv, Starts
  <2> QED BY <1>1, <2>1, StartsWork DEF At
<1>2. ASSUME NEW p \in {"started", "fail"}, Go(s, p), UNCHANGED <<work, launches>>
      PROVE  IInv'
  <2>0. pc[s] \in Owning /\ B # None /\ lease.state = "starting"
    BY DEF At, Owning, IInv, Placed, Recorded
  <2>1. Placed(s)' BY <2>0, <1>2, Goes DEF Placed, B, store
  <2> QED BY <2>0, <1>2, <2>1, LeaseStays DEF Owning, boat
<1> QED BY <1>1, <1>2

\* A submission is the one start: nobody else is about to submit.
LEMMA SubmitIInv ==
    ASSUME IInv, NEW s \in Sessions, Submit(s)
    PROVE  IInv'
<1>1. launches = arrived BY DEF Submit, At, IInv, Starts
<1> QED BY <1>1, StartsWork DEF Submit, At

\* A submission whose sender dies is counted when it arrives.
LEMMA SubmitDyingIInv ==
    ASSUME IInv, NEW s \in Sessions, SubmitDying(s)
    PROVE  IInv'
<1> USE DEF SubmitDying, store
<1>1. B \in Boxes BY DEF At, IInv, TypeOK, Placed, Recorded, B
<1>2. late' \in SUBSET Boxes /\ faults' \in Nat BY <1>1 DEF IInv, TypeOK
<1>3. Onward BY DEF Onward
<1> QED BY <1>2, <1>3, Leaves, NothingElse DEF IInv, TypeOK

\* Saving RUNNING keeps the sandbox on record.
LEMMA StartedIInv ==
    ASSUME IInv, NEW s \in Sessions, Started(s)
    PROVE  IInv'
<1> USE DEF Started
<1>0. pc[s] \in Owning /\ B # None /\ lease.state = "starting"
  BY DEF At, Owning, IInv, Placed, Recorded
<1>1. /\ lease' \in Leases /\ lease'.state = "running"
      /\ lease'.box = lease.box /\ lease'.result = lease.result
  BY DEF IInv, TypeOK, Leases, LeaseStates
<1>2. lease.result # "completed" BY <1>0 DEF IInv, Outcome
<1>3. Outcome' /\ ReleasedIsDown' BY <1>1, <1>2 DEF Outcome, ReleasedIsDown
<1>4. Placed(s)' BY Goes DEF Placed, Recorded
<1> QED BY <1>0, <1>1, <1>3, <1>4, LeaseStep DEF Owning

\* A poll saves a completion only of work that ended well.
LEMMA PollIInv ==
    ASSUME IInv, NEW s \in Sessions, Poll(s)
    PROVE  IInv'
<1> USE DEF Poll
<1>0. pc[s] \in Owning /\ B # None /\ lease.state = "running"
  BY DEF At, Owning, IInv, Placed, Recorded
<1>1. CASE Go(s, "relinquish") /\ UNCHANGED lease
  <2>1. Placed(s)' BY <1>1, Goes DEF Placed, Recorded
  <2> QED BY <1>0, <1>1, <2>1, LeaseStays DEF Owning, store
<1>2. ASSUME NEW r \in {"completed", "failed"}, r = "completed" => work[B] = "ok",
             lease' = [lease EXCEPT !.state = "collecting", !.result = r],
             Go(s, "resume")
      PROVE  IInv'
  <2>1. /\ lease' \in Leases /\ lease'.box = lease.box
        /\ lease'.state = "collecting" /\ lease'.result = r
    BY <1>2, Saved DEF IInv, LeaseStates
  <2>2. Placed(s)' BY <1>0, <1>2, <2>1, Goes DEF Placed, B
  <2> QED BY <1>0, <1>2, <2>1, <2>2, SaveStep DEF Owning
<1> QED BY <1>1, <1>2

-----------------------------------------------------------------------------
\* Ending a workload

\* A failed start or poll saves a failure, never a completion.
LEMMA FailIInv ==
    ASSUME IInv, NEW s \in Sessions, Fail(s)
    PROVE  IInv'
<1> USE DEF Fail
<1>0. pc[s] \in Owning /\ B # None BY DEF Owning, IInv, Placed, Recorded
<1>1. PICK p \in {"vanished", "resume"} : Go(s, p) /\ (p = "vanished" => pc[s] = "gone")
  BY DEF At
<1>2. CASE lease.state \in Ended
  <2>1. p = "resume" BY <1>1, <1>2 DEF IInv, Placed
  <2>2. Placed(s)' BY <1>0, <1>1, <1>2, <2>1, Goes DEF Placed, B
  <2> QED BY <1>0, <1>1, <1>2, <2>1, <2>2, LeaseStays DEF Owning, store
<1>3. CASE lease.state \notin Ended
  <2>1. lease' = [lease EXCEPT !.state = "failed", !.result = "failed"] BY <1>3
  <2>2. /\ lease' \in Leases /\ lease'.box = lease.box
        /\ lease'.state = "failed" /\ lease'.result = "failed"
    BY <2>1, Saved DEF IInv, LeaseStates
  <2>3. Placed(s)' BY <1>0, <1>1, <2>2, Goes DEF IInv, Placed, B, boat
  <2>4. lease.state # "released" BY <1>3 DEF Ended
  <2> QED BY <1>0, <1>1, <2>2, <2>3, <2>4, SaveStep DEF Owning
<1> QED BY <1>2, <1>3

\* A sandbox that went ends its job as failed.
LEMMA VanishedIInv ==
    ASSUME IInv, NEW s \in Sessions, Vanished(s)
    PROVE  IInv'
<1> USE DEF Vanished
<1>0. /\ pc[s] \in Owning /\ B # None /\ box[B] = "down"
      /\ lease.state \in {"failed", "releasing"} /\ lease.result # "completed"
  BY DEF At, Owning, IInv, Placed, Recorded
<1>1. Result(s) \in {"none", "completed", "failed"} /\ Result(s) # "completed"
  BY <1>0, Results DEF IInv
<1>2. PICK st \in {"releasing", "released"}, p \in {"vanished", "resume"} :
        /\ lease' = [lease EXCEPT !.state = st, !.result = Result(s)]
        /\ Go(s, p) /\ (p = "vanished" => st = "releasing")
  BY DEF Save
<1>3. /\ lease' \in Leases /\ lease'.box = lease.box
      /\ lease'.state = st /\ lease'.result = Result(s)
  BY <1>1, <1>2, Saved DEF IInv, LeaseStates
<1>4. Placed(s)' BY <1>0, <1>1, <1>2, <1>3, Goes DEF Placed, B, boat
<1> QED BY <1>0, <1>1, <1>2, <1>3, <1>4, SaveStep DEF Owning

\* Collection puts the artifacts in the store before the lease leaves COLLECTING.
LEMMA UploadIInv ==
    ASSUME IInv, NEW s \in Sessions, Upload(s)
    PROVE  IInv'
<1> USE DEF Upload, world, boat, budget
<1>0. pc[s] \in Owning /\ B # None BY DEF At, Owning, IInv, Placed, Recorded
<1>1. /\ pc' \in [Sessions -> Phases] /\ pc'[s] = "collected" /\ Owner'
      /\ \A r \in Sessions \ {s} : pc'[r] = pc[r] /\ pc[r] \notin Owning
  BY <1>0, GoesOn DEF Owning
<1>2. TypeOK'
  BY <1>1, TypeParts, TypePartsNext DEF IInv, BoatType, SessionType, RestType
<1>3. Placed(s)' BY <1>0, <1>1 DEF Placed, B
<1>4. \A r \in Sessions : Placed(r)' BY <1>1, <1>3, OthersPlaced DEF B
<1>5. OnRecord' /\ Outcome' /\ ReleasedIsDown' /\ CompletedCollected'
  BY DEF IInv, OnRecord, Outcome, ReleasedIsDown, CompletedCollected, B
<1>6. Starts' BY <1>1 DEF IInv, Starts, B
<1> QED BY <1>1, <1>2, <1>4, <1>5, <1>6 DEF IInv

\* A completed job whose artifacts cannot be had stays as it is.
LEMMA NoArtifactsIInv ==
    ASSUME IInv, NEW s \in Sessions, NoArtifacts(s)
    PROVE  IInv'
<1> USE DEF NoArtifacts
<1>0. pc[s] \in Owning BY DEF At, Owning
<1>1. Placed(s)' BY Goes DEF Placed, Recorded
<1> QED BY <1>0, <1>1, LeaseStays DEF Owning

\* The terminal sequence is taken up at the saved state.
LEMMA ResumeIInv ==
    ASSUME IInv, NEW s \in Sessions, Resume(s)
    PROVE  IInv'
<1> USE DEF Resume
<1>0. /\ pc[s] \in Owning /\ B # None /\ lease.state \in {"collecting", "failed"}
      /\ pc[s] = "collected" => artifacts
  BY DEF At, Owning, IInv, Placed, Recorded
<1>1. Result(s) \in {"none", "completed", "failed"} /\ (Result(s) = "completed" => lease.result = "completed")
  BY Results DEF IInv
<1>2. Result(s) = "completed" => work[B] = "ok" /\ artifacts
  BY <1>0, <1>1 DEF At, IInv, Outcome
<1>3. lease' = [lease EXCEPT !.state = "releasing", !.result = Result(s)] BY DEF Save
<1>4. /\ lease' \in Leases /\ lease'.box = lease.box
      /\ lease'.state = "releasing" /\ lease'.result = Result(s)
  BY <1>1, <1>3, Saved DEF IInv, LeaseStates
<1>5. Placed(s)' BY <1>0, <1>4, Goes DEF Placed, B
<1> QED BY <1>0, <1>2, <1>4, <1>5, SaveStep DEF Owning

\* A sandbox goes down, whoever stopped it.
LEMMA BoxesStep ==
    ASSUME IInv, Onward, UNCHANGED <<world, work, launches, arrived, late, store, budget>>,
           box' \in [Boxes -> {"none", "pending", "serving", "error", "down"}],
           SessionType', Owner', \A r \in Sessions : Placed(r)',
           \A r \in Sessions : pc'[r] = "submit" => pc[r] = "submit"
    PROVE  IInv'
<1> USE DEF world, store, budget
<1>0. B \in Boxes \cup {None} BY DEF IInv, TypeOK, B
<1>1. TypeOK'
  BY TypeParts, TypePartsNext DEF IInv, BoatType, RestType
<1>2. OnRecord' /\ Outcome' BY <1>0 DEF IInv, OnRecord, Outcome, B, Onward
<1>3. ReleasedIsDown' BY <1>0 DEF IInv, ReleasedIsDown, B, Onward
<1>4. CompletedCollected' BY <1>0 DEF IInv, CompletedCollected, B, Onward
<1>5. Starts' BY DEF IInv, Starts, B
<1> QED BY <1>1, <1>2, <1>3, <1>4, <1>5 DEF IInv

\* The release brings the sandbox of the lease down.
LEMMA ReleaseBoxIInv ==
    ASSUME IInv, NEW s \in Sessions, ReleaseBox(s)
    PROVE  IInv'
<1> USE DEF ReleaseBox, store
<1>0. pc[s] \in Owning /\ B # None /\ B \in Boxes
  BY DEF At, Owning, IInv, Placed, Recorded, TypeOK, B
<1>1. /\ pc' \in [Sessions -> Phases] /\ pc'[s] = "freed" /\ Owner'
      /\ \A r \in Sessions \ {s} : pc'[r] = pc[r] /\ pc[r] \notin Owning
  BY <1>0, GoesOn DEF Owning
<1>2. /\ box' \in [Boxes -> {"none", "pending", "serving", "error", "down"}]
      /\ box'[B] = "down" /\ Onward
  BY <1>0 DEF IInv, TypeOK, Onward
<1>3. Placed(s)' BY <1>0, <1>1, <1>2 DEF Placed, B
<1>4. \A r \in Sessions : Placed(r)' BY <1>1, <1>3, OthersPlaced DEF B
<1>5. SessionType' BY <1>1 DEF IInv, TypeOK, SessionType
<1>6. \A r \in Sessions : pc'[r] = "submit" => pc[r] = "submit" BY <1>1
<1> QED BY <1>1, <1>2, <1>4, <1>5, <1>6, BoxesStep

\* RELEASED is saved of a sandbox that is down.
LEMMA SaveReleasedIInv ==
    ASSUME IInv, NEW s \in Sessions, SaveReleased(s)
    PROVE  IInv'
<1> USE DEF SaveReleased
<1>0. /\ pc[s] \in Owning /\ B # None
      /\ lease.state = "releasing" /\ box[B] = "down"
  BY DEF At, Owning, IInv, Placed, Recorded
<1>1. Result(s) \in {"none", "completed", "failed"} /\ (Result(s) = "completed" => lease.result = "completed")
  BY Results DEF IInv
<1>2. Result(s) = "completed" => work[B] = "ok" /\ artifacts
  BY <1>0, <1>1 DEF IInv, Outcome
<1>3. lease' = [lease EXCEPT !.state = "released", !.result = Result(s)] BY DEF Save
<1>4. /\ lease' \in Leases /\ lease'.box = lease.box
      /\ lease'.state = "released" /\ lease'.result = Result(s)
  BY <1>1, <1>3, Saved DEF IInv, LeaseStates
<1>5. Placed(s)' BY <1>0, <1>4, Goes DEF Placed, B
<1> QED BY <1>0, <1>2, <1>4, <1>5, SaveStep DEF Owning

\* The job moves to completed only on a released lease whose result says so.
LEMMA MoveTerminalIInv ==
    ASSUME IInv, NEW s \in Sessions, MoveTerminal(s)
    PROVE  IInv'
<1> USE DEF MoveTerminal
<1>0. pc[s] \in Owning BY DEF At, Owning
<1>1. Placed(s)' BY Goes DEF Placed, Recorded
<1>2. /\ job' \in {"queue", "running", "completed", "failed"}
      /\ job' = "running" => job = "running"
      /\ job' = "completed" => job = "completed" \/ Result(s) = "completed"
  BY DEF IInv, TypeOK
<1>3. CompletedCollected'
  <2>1. Result(s) = "completed" => work[B] = "ok" /\ artifacts
    BY Results DEF IInv, Outcome
  <2>2. B # None /\ box[B] = "down" BY DEF IInv, ReleasedIsDown
  <2> QED BY <1>2, <2>1, <2>2 DEF IInv, CompletedCollected, B, boat
<1>4. job' = "running" => B # None BY <1>2 DEF IInv, OnRecord
<1> QED BY <1>0, <1>1, <1>2, <1>3, <1>4, JobStep DEF Owning

\* An invocation that relinquishes stops owning.
LEMMA RelinquishIInv ==
    ASSUME IInv, NEW s \in Sessions, Relinquish(s)
    PROVE  IInv'
<1> USE DEF Relinquish, store, boat, budget
<1>0. PICK p \in {"control", "idle", "done"} : Go(s, p) BY DEF Rest
<1>1. /\ pc' \in [Sessions -> Phases] /\ pc'[s] = p
      /\ \A r \in Sessions \ {s} : pc'[r] = pc[r]
  BY <1>0 DEF Go, IInv, TypeOK, Phases
<1>2. holder = s /\ holder' = None BY DEF Lock!Leave
<1>3. SessionType' BY <1>1, <1>2 DEF IInv, TypeOK, SessionType
<1>4. Owner' BY <1>1, <1>2, BoatAssumption DEF IInv, Owner, Owning
<1>5. Placed(s)' BY <1>1 DEF Placed, Recorded
<1>6. Onward BY DEF Onward
<1>7. \A r \in Sessions : Placed(r)' BY <1>1, <1>5, <1>6, StaysPlaced
<1>8. \A r \in Sessions : pc'[r] = "submit" => pc[r] = "submit" BY <1>1
<1> QED BY <1>3, <1>4, <1>7, <1>8, NothingElse DEF IInv, TypeOK

-----------------------------------------------------------------------------
\* Cancelling

\* A stop goes for the lease of a running job only.
LEMMA FindRunningIInv ==
    ASSUME IInv, NEW s \in Sessions, FindRunning(s)
    PROVE  IInv'
<1> USE DEF FindRunning
<1>1. "claim" \in Phases \ Owning /\ pc[s] \notin Owning BY DEF Phases, Owning, At
<1>2. B # None BY DEF IInv, OnRecord
<1>3. Onward BY DEF Onward, boat
<1> QED BY <1>1, <1>2, <1>3, ApartStep, NothingElse
        DEF IInv, TypeOK, boat, store, budget

\* A deletion without the lease takes a sandbox down; a released one is down.
LEMMA DeleteUnusedIInv ==
    ASSUME IInv, NEW s \in Sessions, DeleteUnused(s)
    PROVE  IInv'
<1> USE DEF DeleteUnused
<1>1. "done" \in (Phases \ Owning) \ Recorded /\ pc[s] \notin Owning
  BY DEF Phases, Owning, Recorded, At
<1>2. /\ box' \in [Boxes -> {"none", "pending", "serving", "error", "down"}]
      /\ Onward
  BY DEF IInv, TypeOK, Onward
<1> QED BY <1>1, <1>2, ApartStep, BoxesStep DEF store

\* A stop that acquires interrupts a sandbox on record.
LEMMA AcquireCancelledIInv ==
    ASSUME IInv, NEW s \in Sessions, AcquireCancelled(s)
    PROVE  IInv'
<1>1. pc[s] \notin Owning BY DEF AcquireCancelled, At, Owning
<1>2. B # None BY DEF AcquireCancelled, At, IInv, Placed, Recorded
<1> QED BY <1>1, <1>2, AcquireIInv DEF AcquireCancelled

\* A workload goes from one state to another that is not idle, and one that
\* ended well stays so.
LEMMA WorkStep ==
    ASSUME IInv, UNCHANGED <<world, box, store, budget>>, late' \in SUBSET Boxes,
           work' \in [Boxes -> {"idle", "running", "ok", "bad", "killed"}],
           \A b \in Boxes : /\ work[b] # "idle" => work'[b] # "idle"
                            /\ work[b] = "ok" => work'[b] = "ok",
           launches' \in Nat, arrived' \in Nat,
           launches = arrived => launches' = arrived',
           launches = arrived + 1 => launches' = arrived' + 1,
           SessionType', Owner', \A r \in Sessions : Placed(r)',
           \A r \in Sessions : pc'[r] = "submit" => pc[r] = "submit"
    PROVE  IInv'
<1> USE DEF world, store, budget
<1>0. B \in Boxes \cup {None} BY DEF IInv, TypeOK, B
<1>1. TypeOK' BY TypeParts, TypePartsNext DEF IInv, BoatType, RestType
<1>2. lease.result = "completed" => B \in Boxes
  BY <1>0 DEF IInv, Outcome, OnRecord
<1>3. OnRecord' /\ Outcome' /\ ReleasedIsDown' /\ CompletedCollected'
  BY <1>0, <1>2 DEF IInv, OnRecord, Outcome, ReleasedIsDown, CompletedCollected, B
<1>4. Starts' BY <1>0 DEF IInv, Starts, B
<1> QED BY <1>1, <1>3, <1>4 DEF IInv

\* An interrupted job is saved as failed.
LEMMA InterruptIInv ==
    ASSUME IInv, NEW s \in Sessions, Interrupt(s)
    PROVE  IInv'
<1> USE DEF Interrupt, store
<1>0. pc[s] \in Owning /\ B # None /\ B \in Boxes
  BY DEF At, Owning, IInv, Placed, Recorded, TypeOK, B
<1>1. /\ pc' \in [Sessions -> Phases] /\ pc'[s] = "fail" /\ Owner'
      /\ \A r \in Sessions \ {s} : pc'[r] = pc[r] /\ pc[r] \notin Owning
  BY <1>0, GoesOn DEF Owning
<1>2. /\ work' \in [Boxes -> {"idle", "running", "ok", "bad", "killed"}]
      /\ \A b \in Boxes : /\ work[b] # "idle" => work'[b] # "idle"
                          /\ work[b] = "ok" => work'[b] = "ok"
  BY <1>0 DEF IInv, TypeOK
<1>3. Placed(s)' BY <1>0, <1>1 DEF Placed, B
<1>4. \A r \in Sessions : Placed(r)' BY <1>1, <1>3, OthersPlaced DEF B
<1>5. SessionType' BY <1>1 DEF IInv, TypeOK, SessionType
<1>6. \A r \in Sessions : pc'[r] = "submit" => pc[r] = "submit" BY <1>1
<1> QED BY <1>1, <1>2, <1>4, <1>5, <1>6, WorkStep DEF IInv, TypeOK

\* An invocation that leaves gives up the lease as it was saved.
LEMMA LeaveIInv ==
    ASSUME IInv, NEW s \in Sessions, Leave(s),
           UNCHANGED <<world, boat, store, requeues>>, faults' \in Nat
    PROVE  IInv'
<1>1. Onward BY DEF Onward, boat
<1> QED BY <1>1, Leaves, NothingElse DEF IInv, TypeOK, boat, store

\* A deletion leaves the released job to a tick.
LEMMA DeleteDoneIInv ==
    ASSUME IInv, NEW s \in Sessions, DeleteDone(s)
    PROVE  IInv'
BY LeaveIInv DEF DeleteDone, budget, IInv, TypeOK

-----------------------------------------------------------------------------
\* Admitting

\* The admission pass reads the pause and goes on or ends.
LEMMA ControlIInv ==
    ASSUME IInv, NEW s \in Sessions, Control(s)
    PROVE  IInv'
<1> USE DEF Control
<1>1. PICK p \in {"admit", "idle"} : Go(s, p) OBVIOUS
<1>2. p \in (Phases \ Owning) \ Recorded /\ pc[s] \notin Owning
  BY DEF Phases, Owning, Recorded, At
<1>3. Onward BY DEF Onward, boat
<1> QED BY <1>1, <1>2, <1>3, ApartStep, NothingElse
        DEF IInv, TypeOK, boat, store, budget

\* Failing the queued job starts or completes nothing.
LEMMA FailsQueued ==
    ASSUME IInv, FailQueued
    PROVE  /\ job' \in {"queue", "running", "completed", "failed"}
           /\ job' \in {"running", "completed"} => job' = job
BY DEF FailQueued, IInv, TypeOK

\* A job that cannot be admitted fails in the queue.
LEMMA InadmissibleIInv ==
    ASSUME IInv, NEW s \in Sessions, Inadmissible(s)
    PROVE  IInv'
<1> USE DEF Inadmissible
<1>1. "idle" \in (Phases \ Owning) \ Recorded /\ pc[s] \notin Owning
  BY DEF Phases, Owning, Recorded, At
<1>2. Onward BY DEF Onward, boat
<1> QED BY <1>1, <1>2, ApartStep, NothingElse, FailsQueued
        DEF IInv, TypeOK, boat, budget

\* A tick that acquires for a queued job may find no sandbox.
LEMMA AcquireQueuedIInv ==
    ASSUME IInv, NEW s \in Sessions, AcquireQueued(s)
    PROVE  IInv'
<1>1. pc[s] \notin Owning BY DEF AcquireQueued, At, Owning
<1> QED BY <1>1, AcquireIInv DEF AcquireQueued

\* A step of an admission that may fail the queued job.
LEMMA FailQueuedStep ==
    ASSUME IInv, NEW s \in Sessions, pc[s] \in Owning,
           NEW p \in {"yield", "kept"}, Go(s, p), FailQueued,
           UNCHANGED <<world, boat, paused, lease, artifacts, holder, made, budget>>
    PROVE  IInv'
<1>1. Placed(s)' BY Goes DEF Placed, Recorded
<1>2. CompletedCollected' BY FailsQueued DEF IInv, CompletedCollected, B, boat
<1>3. job' = "running" => B # None BY FailsQueued DEF IInv, OnRecord
<1> QED BY <1>1, <1>2, <1>3, FailsQueued, JobStep DEF Owning

\* A sandbox on record is used again, or its ended lease fails the job.
LEMMA ReuseIInv ==
    ASSUME IInv, NEW s \in Sessions, Reuse(s)
    PROVE  IInv'
<1> USE DEF Reuse
<1>0. pc[s] \in Owning BY DEF At, Owning
<1>1. CASE lease.state \in Ended
  <2>1. PICK p \in {"yield", "kept"} : Go(s, p) BY <1>1
  <2> QED BY <1>0, <1>1, <2>1, FailQueuedStep
<1>2. CASE lease.state \notin Ended
  <2>1. Placed(s)' BY <1>2, Goes DEF Placed, B
  <2> QED BY <1>0, <1>2, <2>1, LeaseStays DEF Owning, store
<1> QED BY <1>1, <1>2

\* A sandbox made is a new one, so no recorded sandbox changes.
LEMMA CreateIInv ==
    ASSUME IInv, NEW s \in Sessions, Create(s)
    PROVE  IInv'
<1> USE DEF Create
<1>0. pc[s] \in Owning BY DEF At, Owning
<1>1. ASSUME NEW p \in {"record", "refused"}, Go(s, p), Onward,
             box' \in [Boxes -> {"none", "pending", "serving", "error", "down"}],
             made' \in [Sessions -> Boxes \cup {None}],
             p = "record" => made'[s] # None /\ box'[made'[s]] # "none"
      PROVE  IInv'
  <2>1. /\ pc' \in [Sessions -> Phases] /\ pc'[s] = p /\ Owner'
        /\ \A r \in Sessions \ {s} : pc'[r] = pc[r] /\ pc[r] \notin Owning
    BY <1>0, <1>1, GoesOn DEF Owning
  <2>2. Placed(s)' BY <1>1, <2>1 DEF Placed, Recorded
  <2>3. \A r \in Sessions : Placed(r)' BY <2>1, <2>2, OthersPlaced DEF B, store
  <2>4. SessionType' BY <1>1, <2>1 DEF IInv, TypeOK, SessionType
  <2>5. \A r \in Sessions : pc'[r] = "submit" => pc[r] = "submit" BY <2>1
  <2> QED BY <1>1, <2>1, <2>3, <2>4, <2>5, BoxesStep
<1>2. ASSUME NEW b \in Boxes, box[b] = "none", box' = [box EXCEPT ![b] = "pending"]
      PROVE  /\ Onward /\ box'[b] # "none"
             /\ box' \in [Boxes -> {"none", "pending", "serving", "error", "down"}]
  BY <1>2 DEF IInv, TypeOK, Onward
<1>3. ASSUME NEW b \in Boxes, box[b] = "none", box' = [box EXCEPT ![b] = "pending"],
             made' = [made EXCEPT ![s] = b], Go(s, "record")
      PROVE  IInv'
  <2>1. made' \in [Sessions -> Boxes \cup {None}] /\ made'[s] = b
    BY <1>3 DEF IInv, TypeOK
  <2> QED BY <1>1, <1>2, <1>3, <2>1, BoatAssumption
<1>4. ASSUME NEW b \in Boxes, box[b] = "none", box' = [box EXCEPT ![b] = "pending"],
             UNCHANGED made, Go(s, "refused")
      PROVE  IInv'
  BY <1>1, <1>2, <1>4 DEF IInv, TypeOK
<1>5. ASSUME UNCHANGED <<box, made>>, Go(s, "refused")
      PROVE  IInv'
  <2>1. Onward BY <1>5 DEF Onward
  <2> QED BY <1>1, <1>5, <2>1 DEF IInv, TypeOK
<1> QED BY <1>3, <1>4, <1>5

\* The sandbox is saved on the lease before the job moves.
LEMMA RecordIInv ==
    ASSUME IInv, NEW s \in Sessions, Record(s)
    PROVE  IInv'
<1> USE DEF Record, world, boat, budget
<1>0. pc[s] \in Owning /\ made[s] # None /\ box[made[s]] # "none" /\ made[s] \in Boxes
  BY DEF At, Owning, IInv, Placed, TypeOK
<1>1. PICK p \in {"move", "refused"} :
        Go(s, p) /\ (p = "move" => lease.state = "allocating")
  OBVIOUS
<1>2. /\ pc' \in [Sessions -> Phases] /\ pc'[s] = p /\ Owner'
      /\ \A r \in Sessions \ {s} : pc'[r] = pc[r] /\ pc[r] \notin Owning
  BY <1>0, <1>1, GoesOn DEF Owning
<1>3. \/ lease' = lease /\ lease.state # "allocating"
      \/ /\ lease.state = "allocating"
         /\ lease' = [lease EXCEPT !.state = "provisioning", !.box = made[s]]
  OBVIOUS
<1>4. /\ lease' \in Leases /\ lease'.result = lease.result
      /\ \/ lease' = lease /\ lease.state # "allocating"
         \/ /\ lease.state = "allocating" /\ lease'.state = "provisioning"
            /\ lease'.box = made[s]
  BY <1>0, <1>3 DEF IInv, TypeOK, Leases, LeaseStates
<1>5. SessionType'
  <2>1. made' \in [Sessions -> Boxes \cup {None}] BY DEF IInv, TypeOK
  <2> QED BY <1>2, <2>1 DEF IInv, TypeOK, SessionType
<1>6. TypeOK'
  BY <1>4, <1>5, TypeParts, TypePartsNext DEF IInv, BoatType, RestType
<1>7. lease.state = "allocating" => B = None BY DEF IInv, OnRecord
<1>8. Placed(s)' BY <1>0, <1>1, <1>2, <1>4 DEF Placed, Recorded, B
<1>9. \A r \in Sessions : Placed(r)'
  BY <1>0, <1>2, <1>4, <1>8, OthersPlaced DEF B
<1>10. OnRecord'
  BY <1>0, <1>4, <1>7 DEF IInv, OnRecord, B
<1>11. Outcome' /\ ReleasedIsDown' /\ CompletedCollected'
  BY <1>4 DEF IInv, Outcome, ReleasedIsDown, CompletedCollected, B
<1>12. Starts' BY <1>1, <1>2, <1>4, <1>7 DEF IInv, Starts, B
<1> QED BY <1>2, <1>6, <1>9, <1>10, <1>11, <1>12 DEF IInv

\* The job moves to running only with its sandbox on record.
LEMMA MoveIInv ==
    ASSUME IInv, NEW s \in Sessions, Move(s)
    PROVE  IInv'
<1> USE DEF Move
<1>0. pc[s] \in Owning /\ B # None BY DEF At, Owning, IInv, Placed, Recorded
<1>1. PICK p \in {"yield", "kept"} : Go(s, p) OBVIOUS
<1>2. Placed(s)' BY <1>1, Goes DEF Placed, Recorded
<1>3. /\ job' \in {"queue", "running", "completed", "failed"}
      /\ job' = "completed" => job = "completed"
  BY DEF IInv, TypeOK
<1>4. CompletedCollected' BY <1>3 DEF IInv, CompletedCollected, B, boat
<1> QED BY <1>0, <1>1, <1>2, <1>3, <1>4, JobStep DEF Owning

\* A failed admission fails the job only while it is queued.
LEMMA AdmitErrorIInv ==
    ASSUME IInv, NEW s \in Sessions, AdmitError(s)
    PROVE  IInv'
<1>1. pc[s] \in Owning BY DEF AdmitError, At, Owning
<1> QED BY <1>1, FailQueuedStep DEF AdmitError

\* An invocation that returns is at work on nothing.
LEMMA ReturnIInv ==
    ASSUME IInv, NEW s \in Sessions, Return(s)
    PROVE  IInv'
BY LeaveIInv DEF Return, budget, IInv, TypeOK

-----------------------------------------------------------------------------
\* Everything else

\* A dying invocation leaves the lease as it was saved.
LEMMA FaultIInv ==
    ASSUME IInv, NEW s \in Sessions, Fault(s)
    PROVE  IInv'
<1>1. faults' \in Nat BY DEF Fault, IInv, TypeOK
<1> QED BY <1>1, LeaveIInv DEF Fault

\* The invocations stay where they are.
LEMMA SessionsStay ==
    ASSUME IInv, UNCHANGED session, UNCHANGED <<lease, artifacts>>, Onward
    PROVE  /\ SessionType' /\ Owner' /\ \A r \in Sessions : Placed(r)'
           /\ \A r \in Sessions : pc'[r] = "submit" => pc[r] = "submit"
<1> USE DEF session
<1>1. SessionType' BY TypeParts DEF IInv, SessionType
<1>2. Owner' BY DEF IInv, Owner
<1> QED BY <1>1, <1>2, StaysPlaced

\* A requeue by another arm changes the prefix only.
LEMMA CloudRequeueIInv ==
    ASSUME IInv, CloudRequeue
    PROVE  IInv'
<1> USE DEF CloudRequeue
<1>1. Onward BY DEF Onward, boat
<1>2. job' \in {"queue", "failed"} /\ requeues' \in Nat BY DEF IInv, TypeOK
<1> QED BY <1>1, <1>2, SessionsStay, NothingElse DEF IInv, TypeOK, boat

\* A pause is nobody's lease.
LEMMA SetPausedIInv ==
    ASSUME IInv, SetPaused
    PROVE  IInv'
<1> USE DEF SetPaused, boat, session, world, budget
<1>1. Onward BY DEF Onward
<1>2. /\ SessionType' /\ Owner' /\ \A r \in Sessions : Placed(r)'
  BY <1>1, SessionsStay
<1>3. TypeOK' BY <1>2, TypeParts, TypePartsNext DEF IInv, BoatType, RestType
<1>4. OnRecord' /\ Outcome' /\ ReleasedIsDown' /\ CompletedCollected' /\ Starts'
  BY DEF IInv, OnRecord, Outcome, ReleasedIsDown, CompletedCollected, Starts, B
<1> QED BY <1>2, <1>3, <1>4 DEF IInv

\* A sandbox that boots was not down.
LEMMA BoxServesIInv ==
    ASSUME IInv, NEW b \in Boxes, BoxServes(b)
    PROVE  IInv'
<1> USE DEF BoxServes
<1>1. /\ box' \in [Boxes -> {"none", "pending", "serving", "error", "down"}]
      /\ Onward
  BY DEF IInv, TypeOK, Onward
<1> QED BY <1>1, SessionsStay, BoxesStep DEF store

\* A sandbox that ends only makes more of them down.
LEMMA BoxEndsIInv ==
    ASSUME IInv, NEW b \in Boxes, BoxEnds(b)
    PROVE  IInv'
<1> USE DEF BoxEnds
<1>1. /\ box' \in [Boxes -> {"none", "pending", "serving", "error", "down"}]
      /\ Onward
  BY DEF IInv, TypeOK, Onward
<1> QED BY <1>1, SessionsStay, BoxesStep DEF store

\* A workload that ends was started.
LEMMA WorkEndsIInv ==
    ASSUME IInv, NEW b \in Boxes, WorkEnds(b)
    PROVE  IInv'
<1> USE DEF WorkEnds
<1>1. /\ work' \in [Boxes -> {"idle", "running", "ok", "bad", "killed"}]
      /\ \A c \in Boxes : /\ work[c] # "idle" => work'[c] # "idle"
                          /\ work[c] = "ok" => work'[c] = "ok"
  BY DEF IInv, TypeOK
<1>2. Onward BY DEF Onward
<1> QED BY <1>1, <1>2, SessionsStay, WorkStep DEF store, IInv, TypeOK

\* A prompt that arrives late is counted as one.
LEMMA ArriveIInv ==
    ASSUME IInv, NEW b \in Boxes, Arrive(b)
    PROVE  IInv'
<1> USE DEF Arrive
<1>1. /\ work' \in [Boxes -> {"idle", "running", "ok", "bad", "killed"}]
      /\ \A c \in Boxes : /\ work[c] # "idle" => work'[c] # "idle"
                          /\ work[c] = "ok" => work'[c] = "ok"
  BY DEF IInv, TypeOK
<1>2. /\ launches' \in Nat /\ arrived' \in Nat /\ late' \in SUBSET Boxes
      /\ launches = arrived => launches' = arrived'
      /\ launches = arrived + 1 => launches' = arrived' + 1
  BY DEF IInv, TypeOK
<1>3. Onward BY DEF Onward
<1> QED BY <1>1, <1>2, <1>3, SessionsStay, WorkStep DEF store

\* A stuttering step.
LEMMA StutterIInv ==
    ASSUME IInv, UNCHANGED vars
    PROVE  IInv'
<1> USE DEF vars
<1>1. Onward BY DEF Onward, boat
<1> QED BY <1>1, SessionsStay, NothingElse DEF IInv, TypeOK, boat, store, budget

-----------------------------------------------------------------------------
\* The theorems

\* The job is queued, without a lease.
LEMMA InitIInv == Init => IInv
<1> SUFFICES ASSUME Init PROVE IInv OBVIOUS
<1> USE DEF Init
<1>1. TypeOK BY DEF TypeOK, LeaseStates, Owning
<1>2. Owner BY BoatAssumption DEF Owner, Owning
<1>3. OnRecord /\ Outcome /\ Starts /\ ReleasedIsDown /\ CompletedCollected
  BY DEF OnRecord, Outcome, Starts, ReleasedIsDown, CompletedCollected, B
<1>4. \A s \in Sessions : Placed(s) BY DEF Placed, Recorded
<1> QED BY <1>1, <1>2, <1>3, <1>4 DEF IInv

\* Every step preserves the invariant.
LEMMA NextIInv == IInv /\ [Next]_vars => IInv'
<1> SUFFICES ASSUME IInv, [Next]_vars PROVE IInv' OBVIOUS
<1>1. ASSUME NEW s \in Sessions, Reconcile(s) PROVE IInv'
  BY <1>1, ListIInv, AcquireRunningIInv, ConflictIInv, LookIInv, StartIInv,
     LaunchIInv, RecoverIInv, SubmitIInv, RefusedIInv, StartedIInv, PollIInv
     DEF Reconcile
<1>2. ASSUME NEW s \in Sessions, Ending(s) PROVE IInv'
  BY <1>2, FailIInv, VanishedIInv, UploadIInv, NoArtifactsIInv, ResumeIInv,
     ReleaseBoxIInv, SaveReleasedIInv, MoveTerminalIInv, RelinquishIInv
     DEF Ending
<1>3. ASSUME NEW s \in Sessions, Admission(s) PROVE IInv'
  BY <1>3, ControlIInv, InadmissibleIInv, AcquireQueuedIInv, ReuseIInv,
     CreateIInv, RecordIInv, MoveIInv, AdmitErrorIInv, ReturnIInv DEF Admission
<1>4. ASSUME NEW s \in Sessions, Cancelling(s) PROVE IInv'
  BY <1>4, AcquireCancelledIInv, InterruptIInv, DeleteDoneIInv DEF Cancelling
<1>5. ASSUME NEW s \in Sessions,
             FindRunning(s) \/ DeleteUnused(s) \/ SubmitDying(s) \/ Fault(s)
      PROVE  IInv'
  BY <1>5, FindRunningIInv, DeleteUnusedIInv, SubmitDyingIInv, FaultIInv
<1>6. ASSUME NEW b \in Boxes,
             BoxServes(b) \/ BoxEnds(b) \/ WorkEnds(b) \/ Arrive(b)
      PROVE  IInv'
  BY <1>6, BoxServesIInv, BoxEndsIInv, WorkEndsIInv, ArriveIInv
<1>7. CASE CloudRequeue \/ SetPaused BY <1>7, CloudRequeueIInv, SetPausedIInv
<1>8. CASE UNCHANGED vars BY <1>8, StutterIInv
<1> QED BY <1>1, <1>2, <1>3, <1>4, <1>5, <1>6, <1>7, <1>8 DEF Next, Step

\* The invariant holds of every behaviour, whatever fails and however often.
THEOREM Invariance == Spec => []IInv
BY InitIInv, NextIInv, PTL DEF Spec

\* Every variable keeps its type: in particular a lease document never takes a
\* state or a result word the code does not read back.
THEOREM TypeCorrect == Spec => []TypeOK
<1>1. IInv => TypeOK BY DEF IInv
<1> QED BY <1>1, Invariance, PTL

\* start: besides the prompts that outlived their senders a workload is started
\* at most once, by whatever number of ticks and retries.
THEOREM WorkStartedOnce == Spec => []StartedOnce
<1>1. IInv => StartedOnce BY DEF IInv, TypeOK, Starts, StartedOnce
<1> QED BY <1>1, Invariance, PTL

\* resume_terminal: a completed job's work ended well, its artifacts are in the
\* store, and its sandbox is down.
THEOREM CompletionIsCollected == Spec => []CompletedCollected
<1>1. IInv => CompletedCollected BY DEF IInv
<1> QED BY <1>1, Invariance, PTL

\* A lease document says RELEASED only of a sandbox that is down.
THEOREM ReleaseIsTrue == Spec => []ReleasedIsDown
<1>1. IInv => ReleasedIsDown BY DEF IInv
<1> QED BY <1>1, Invariance, PTL

\* provision_and_move: no job is in running/ without its sandbox on record.
THEOREM RunningIsRecorded == Spec => []RunningRecorded
<1>1. IInv => RunningRecorded BY DEF IInv, OnRecord, RunningRecorded
<1> QED BY <1>1, Invariance, PTL
=============================================================================
