-------------------------- MODULE FleetMonitorProofs --------------------------
(***************************************************************************)
(* Proofs about FleetMonitor, for any fleet of hosts, any traits of the    *)
(* job and any number of claims and faults: the type invariant, the stored *)
(* output of a completed job, and the promise a tick never breaks.         *)
(*                                                                         *)
(* The argument: whatever lets somebody complete the job, a workload that  *)
(* ended well, a status word, a release's receipt or a word a tick read    *)
(* long ago, came after the upload (Outputs, Reported, Aimed); and the pin *)
(* of a tick that is about to take the job away stands for a document      *)
(* whose promise has passed (Judged).                                      *)
(***************************************************************************)
EXTENDS FleetMonitor, TLAPS

-----------------------------------------------------------------------------
\* The inductive invariant

\* A slot past its upload has a workload that ended, its output stored.
Outputs ==
    \A h \in Hosts : slot[h] \in {"uploaded", "said"} =>
        proc[h] \in {"ok", "bad"} /\ (proc[h] = "ok" => stored)

\* A receipt and a word of success come after the upload.
Reported ==
    /\ receipt # "none" => stored
    /\ status = "COMPLETED" => stored

\* What a tick acts on where it is.
Aimed ==
    /\ pc[Tick] \in {"dismiss", "word"} =>
         /\ why \in Words
         /\ why = "COMPLETED" => stored \/ "maintenance" \in traits
    /\ pc[Tick] = "settle" => why = "lease"
    /\ pc[Tick] \in {"requeue", "lose"} =>
         why \in {"orphan", "stale", "gone", "reaped", "preempted"}

\* The pin of a tick about to take the job away.
Judged ==
    pc[Tick] \in {"settle", "lose"} /\ pin[Tick] => Running /\ ~doc.live

IInv ==
    /\ TypeOK /\ Outputs /\ Reported /\ Aimed /\ Judged /\ CompletedStored

-----------------------------------------------------------------------------
\* The parts of the type invariant

Prefixes == {"queue", "running", "completed", "failed"}
Docs == [host: Hosts \cup {None}, live: BOOLEAN, err: Losses \cup {None}]
Scans == [host: Hosts \cup {None}, mine: BOOLEAN, safety: BOOLEAN]
Phases == {"idle", "init", "settle", "tidy", "releases", "list", "status",
           "dismiss", "word", "judge", "requeue", "lose", "kill", "sweep", "alive",
           "relist", "race", "delete"}

DocType == job \in Prefixes /\ doc \in Docs /\ pin \in [Actors -> BOOLEAN]

PassType ==
    /\ pc \in [Actors -> Phases]
    /\ why \in Losses \cup Words \cup {"preempted", None}
    /\ scan \in Scans

WorkerType ==
    /\ vm \in [Hosts -> BOOLEAN] /\ agent \in [Hosts -> BOOLEAN]
    /\ slot \in [Hosts -> {"none", "claimed", "running", "uploaded", "said"}]
    /\ proc \in [Hosts -> {"none", "running", "ok", "bad"}]
    /\ orphan \in [Hosts -> BOOLEAN]

FactType ==
    /\ traits \in Traits /\ written \in BOOLEAN /\ stored \in BOOLEAN
    /\ status \in {"none", "RUNNING"} \cup Words
    /\ receipt \in {"none", "new", "old"}
    /\ claims \in Nat /\ faults \in Nat

\* The type invariant is that of the document, of the tick, of the workers and
\* of the facts in the store, each disturbed by other actions.
LEMMA TypeParts == TypeOK <=> DocType /\ PassType /\ WorkerType /\ FactType
BY DEF TypeOK, DocType, PassType, WorkerType, FactType, Prefixes, Docs, Scans,
       Phases

\* The same of the next state.
LEMMA TypePartsNext ==
    TypeOK' <=> DocType' /\ PassType' /\ WorkerType' /\ FactType'
BY DEF TypeOK, DocType, PassType, WorkerType, FactType, Prefixes, Docs, Scans,
       Phases

\* The parts of a state that satisfies the invariant.
LEMMA Parts ==
    ASSUME IInv
    PROVE  DocType /\ PassType /\ WorkerType /\ FactType
BY TypeParts DEF IInv

-----------------------------------------------------------------------------
\* What the building blocks do

\* A put invalidates every pin, so nothing is judged any more.
LEMMA Puts ==
    ASSUME IInv, NEW p \in Prefixes, NEW d \in Docs, Put(p, d)
    PROVE  DocType' /\ Judged' /\ job' = p
<1>1. DocType' /\ job' = p BY DEF Put, DocType
<1>2. ~pin'[Tick] BY DEF Put, Actors
<1> QED BY <1>1, <1>2 DEF Judged

\* A document nobody writes stays judged for a tick that does not move.
LEMMA Keeps ==
    ASSUME IInv, Keep, pc'[Tick] \in {"settle", "lose"} => pc'[Tick] = pc[Tick]
    PROVE  DocType' /\ Judged' /\ job' = job
BY Parts DEF Keep, DocType, Judged, IInv, Running

\* A pin is taken on a lapsed document, or by an actor that judges nothing.
LEMMA Pins ==
    ASSUME IInv, NEW a \in Actors, Pin(a),
           a = Tick => (pc'[Tick] \in {"settle", "lose"} => Running /\ ~doc.live),
           a # Tick => pc'[Tick] = pc[Tick]
    PROVE  DocType' /\ Judged' /\ job' = job
<1>1. DocType' /\ job' = job BY Parts DEF Pin, DocType
<1>2. a # Tick => pin'[Tick] = pin[Tick] BY Parts DEF Pin, DocType, Actors
<1> QED BY <1>1, <1>2 DEF Judged, IInv, Running, Pin

\* Where an actor that goes on is.
LEMMA Goes ==
    ASSUME IInv, NEW a \in Actors, NEW p \in Phases, Go(a, p)
    PROVE  /\ PassType' /\ pc'[a] = p
           /\ \A b \in Actors \ {a} : pc'[b] = pc[b]
           /\ a # Tick \/ p # "idle" => why' = why /\ scan' = scan
<1>1. /\ pc' \in [Actors -> Phases] /\ pc'[a] = p
      /\ \A b \in Actors \ {a} : pc'[b] = pc[b]
  BY Parts DEF Go, PassType
<1>2. Unseen \in Scans BY DEF Unseen, Scans
<1>3. why' \in {why, None} /\ scan' \in {scan, Unseen} BY DEF Go
<1>4. PassType' BY <1>1, <1>2, <1>3, Parts DEF PassType
<1> QED BY <1>1, <1>4 DEF Go

\* Where a tick that goes on is, and what it acts on.
LEMMA Aims ==
    ASSUME IInv, NEW p \in Phases, NEW s \in Scans,
           NEW w \in Losses \cup Words \cup {"preempted", None}, Aim(p, w, s)
    PROVE  PassType' /\ pc'[Tick] = p /\ why' = w
BY Parts DEF Aim, PassType, Actors

\* A step of a host's own leaves the tick where it is.
LEMMA HostGoes ==
    ASSUME IInv, NEW h \in Hosts, NEW p \in Phases, Go(h, p),
           stored => stored', traits' = traits
    PROVE  PassType' /\ Aimed' /\ pc'[Tick] = pc[Tick]
<1>1. h # Tick /\ h \in Actors /\ Tick \in Actors BY FleetAssumption DEF Actors
<1>2. PassType' /\ pc'[Tick] = pc[Tick] /\ why' = why BY <1>1, Goes
<1> QED BY <1>2 DEF Aimed, IInv

\* So does one that is nobody's.
LEMMA PassKept ==
    ASSUME IInv, UNCHANGED pass, stored => stored', traits' = traits
    PROVE  PassType' /\ Aimed' /\ pc'[Tick] = pc[Tick]
BY Parts DEF pass, PassType, Aimed, IInv

\* A tick that goes where nothing is aimed at.
LEMMA TickGoes ==
    ASSUME IInv, NEW p \in Phases \ {"dismiss", "word", "settle", "requeue", "lose"},
           Go(Tick, p)
    PROVE  PassType' /\ Aimed' /\ pc'[Tick] = p
<1>1. PassType' /\ pc'[Tick] = p BY Goes DEF Actors
<1> QED BY <1>1 DEF Aimed

\* Nothing happens on a host.
LEMMA WorkersKept ==
    ASSUME IInv, UNCHANGED workers, stored => stored'
    PROVE  WorkerType' /\ Outputs'
BY Parts DEF workers, WorkerType, Outputs, IInv

\* Nothing is reported.
LEMMA FactsKept ==
    ASSUME IInv, UNCHANGED <<traits, facts>>, written' \in BOOLEAN,
           claims' \in Nat, faults' \in Nat
    PROVE  FactType' /\ Reported' /\ stored' = stored
BY Parts DEF facts, FactType, Reported, IInv

\* Nothing is reported and nothing is counted.
LEMMA StoreKept ==
    ASSUME IInv, UNCHANGED <<traits, written, facts, tally>>
    PROVE  FactType' /\ Reported' /\ stored' = stored
BY Parts, FactsKept DEF tally, FactType

\* A job that somebody completed before.
LEMMA StillStored ==
    ASSUME IInv, job' = "completed" => job = "completed",
           stored => stored', traits' = traits
    PROVE  CompletedStored'
BY DEF IInv, CompletedStored

\* The words of Onward.
LEMMA OnwardWords ==
    ASSUME NEW a, NEW m
    PROVE  Onward(a, m) \in {"releases", "kill", "sweep", "idle"}
BY DEF Onward

-----------------------------------------------------------------------------
\* A worker's slot

\* A claim writes a document with a promise.
LEMMA ClaimedDoc ==
    ASSUME IInv, NEW h \in Hosts, Claimed(h)
    PROVE  /\ DocType' /\ Judged' /\ job' = "running"
           /\ written' = FALSE /\ claims' \in Nat
<1>1. [doc EXCEPT !.host = h, !.live = TRUE] \in Docs BY Parts DEF DocType, Docs
<1>2. "running" \in Prefixes BY DEF Prefixes
<1> QED BY <1>1, <1>2, Puts, Parts DEF Claimed, FactType

\* A claim writes the document, and every pin on it is gone.
LEMMA ClaimIInv ==
    ASSUME IInv, NEW h \in Hosts, Claim(h)
    PROVE  IInv'
<1> USE DEF Claim
<1>1. DocType' /\ Judged' /\ job' = "running" /\ written' = FALSE /\ claims' \in Nat
  BY ClaimedDoc
<1>2. PassType' /\ Aimed' BY PassKept
<1>3. WorkerType' /\ Outputs'
  BY Parts DEF WorkerType, Outputs, IInv
<1>4. FactType' /\ Reported' BY <1>1, Parts DEF FactType, Reported, IInv
<1>5. CompletedStored' BY <1>1 DEF CompletedStored
<1> QED BY <1>1, <1>2, <1>3, <1>4, <1>5, TypePartsNext DEF IInv

\* A slot that spawns has uploaded nothing; one that cannot fails the job.
LEMMA SpawnIInv ==
    ASSUME IInv, NEW h \in Hosts, Spawn(h)
    PROVE  IInv'
<1> USE DEF Spawn
<1>1. PassType' /\ Aimed' /\ pc'[Tick] = pc[Tick] BY PassKept
<1>2. DocType' /\ Judged' /\ (job' = "completed" => job = "completed")
  <2>1. CASE Keep BY <1>1, <2>1, Keeps
  <2>2. CASE Put("failed", doc) BY <2>2, Puts, Parts DEF Prefixes, DocType
  <2> QED BY <2>1, <2>2
<1>3. WorkerType' /\ Outputs' BY Parts DEF WorkerType, Outputs, IInv
<1>4. FactType' /\ Reported' BY Parts DEF FactType, Reported, IInv, tally
<1>5. CompletedStored' BY <1>2, StillStored
<1> QED BY <1>1, <1>2, <1>3, <1>4, <1>5, TypePartsNext DEF IInv

\* A renewal writes the document, so no tick's judgement of it stands.
LEMMA RenewIInv ==
    ASSUME IInv, NEW h \in Hosts, Renew(h)
    PROVE  IInv'
<1> USE DEF Renew
<1>1. PassType' /\ Aimed' BY PassKept DEF facts
<1>2. DocType' /\ Judged' /\ job' = job
  <2>1. [doc EXCEPT !.live = TRUE] \in Docs BY Parts DEF DocType, Docs
  <2> QED BY <2>1, Puts, Parts DEF DocType
<1>3. WorkerType' /\ Outputs' BY WorkersKept DEF facts
<1>4. FactType' /\ Reported' BY FactsKept, Parts DEF tally, FactType
<1>5. CompletedStored' BY <1>2, StillStored DEF facts
<1> QED BY <1>1, <1>2, <1>3, <1>4, <1>5, TypePartsNext DEF IInv

\* A pulse is no document.
LEMMA WriteIInv ==
    ASSUME IInv, NEW h \in Hosts, Write(h)
    PROVE  IInv'
<1> USE DEF Write
<1>1. PassType' /\ Aimed' /\ pc'[Tick] = pc[Tick] BY PassKept DEF facts
<1>2. DocType' /\ Judged' /\ job' = job BY <1>1, Keeps DEF Keep
<1>3. WorkerType' /\ Outputs' BY WorkersKept DEF facts
<1>4. FactType' /\ Reported' BY FactsKept, Parts DEF tally, FactType
<1>5. CompletedStored' BY <1>2, StillStored DEF facts
<1> QED BY <1>1, <1>2, <1>3, <1>4, <1>5, TypePartsNext DEF IInv

\* A slot takes its job back from the queue with a new document.
LEMMA TakeBackIInv ==
    ASSUME IInv, NEW h \in Hosts, TakeBack(h)
    PROVE  IInv'
<1> USE DEF TakeBack
<1>1. DocType' /\ Judged' /\ job' = "running" /\ written' = FALSE /\ claims' \in Nat
  BY ClaimedDoc
<1>2. PassType' /\ Aimed' BY PassKept
<1>3. WorkerType' /\ Outputs' BY WorkersKept
<1>4. FactType' /\ Reported'
  <2>1. receipt' \in {"none", "new", "old"} /\ (receipt' # "none" => receipt # "none")
    BY Parts DEF FactType
  <2> QED BY <1>1, <2>1, Parts DEF FactType, Reported, IInv
<1>5. CompletedStored' BY <1>1 DEF CompletedStored
<1> QED BY <1>1, <1>2, <1>3, <1>4, <1>5, TypePartsNext DEF IInv

\* The slot of a completed job ends.
LEMMA DropIInv ==
    ASSUME IInv, NEW h \in Hosts, Drop(h)
    PROVE  IInv'
<1> USE DEF Drop
<1>1. PassType' /\ Aimed' /\ pc'[Tick] = pc[Tick] BY PassKept DEF facts
<1>2. DocType' /\ Judged' /\ job' = job BY <1>1, Keeps DEF Keep
<1>3. WorkerType' /\ Outputs' BY Parts DEF WorkerType, Outputs, IInv, facts
<1>4. FactType' /\ Reported' BY StoreKept
<1>5. CompletedStored' BY <1>2, StillStored DEF facts
<1> QED BY <1>1, <1>2, <1>3, <1>4, <1>5, TypePartsNext DEF IInv

\* The upload of a workload that ended well stores the output.
LEMMA UploadIInv ==
    ASSUME IInv, NEW h \in Hosts, Upload(h)
    PROVE  IInv'
<1> USE DEF Upload
<1>0. stored => stored' OBVIOUS
<1>1. PassType' /\ Aimed' /\ pc'[Tick] = pc[Tick] BY <1>0, PassKept
<1>2. DocType' /\ Judged' /\ job' = job BY <1>1, Keeps DEF Keep
<1>3. WorkerType' /\ Outputs' BY Parts DEF WorkerType, Outputs, IInv
<1>4. FactType' /\ Reported' BY Parts DEF FactType, Reported, IInv, tally
<1>5. CompletedStored' BY <1>0, <1>2, StillStored
<1> QED BY <1>1, <1>2, <1>3, <1>4, <1>5, TypePartsNext DEF IInv

\* The document of a job that is queued for anybody.
LEMMA FreshDoc ==
    ASSUME NEW e \in Losses \cup {None}
    PROVE  [host |-> None, live |-> FALSE, err |-> e] \in Docs
BY DEF Docs

\* An escalation requeues and reports no success.
LEMMA EscalateIInv ==
    ASSUME IInv, NEW h \in Hosts, Escalate(h)
    PROVE  IInv'
<1> USE DEF Escalate
<1>1. PassType' /\ Aimed' BY PassKept
<1>2. DocType' /\ Judged' /\ job' = "queue" BY FreshDoc, Puts DEF Prefixes
<1>3. WorkerType' /\ Outputs' BY Parts DEF WorkerType, Outputs, IInv
<1>4. FactType' /\ Reported' BY Parts DEF FactType, Reported, IInv, tally
<1>5. CompletedStored' BY <1>2 DEF CompletedStored
<1> QED BY <1>1, <1>2, <1>3, <1>4, <1>5, TypePartsNext DEF IInv

\* The word of success is said after the upload.
LEMMA SayIInv ==
    ASSUME IInv, NEW h \in Hosts, Say(h)
    PROVE  IInv'
<1> USE DEF Say
<1>1. PassType' /\ Aimed' /\ pc'[Tick] = pc[Tick] BY PassKept
<1>2. DocType' /\ Judged' /\ job' = job BY <1>1, Keeps DEF Keep
<1>3. WorkerType' /\ Outputs' BY Parts DEF WorkerType, Outputs, IInv
<1>4. FactType' /\ Reported'
  BY Parts DEF FactType, Reported, Outputs, IInv, tally, Words
<1>5. CompletedStored' BY <1>2, StillStored
<1> QED BY <1>1, <1>2, <1>3, <1>4, <1>5, TypePartsNext DEF IInv

\* A slot completes a job only after its upload.
LEMMA FinishIInv ==
    ASSUME IInv, NEW h \in Hosts, Finish(h)
    PROVE  IInv'
<1> USE DEF Finish
<1>1. PassType' /\ Aimed' /\ pc'[Tick] = pc[Tick] BY PassKept DEF facts
<1>2. /\ DocType' /\ Judged'
      /\ job' = "completed" => job = "completed" \/ proc[h] = "ok"
  <2>1. CASE Keep BY <1>1, <2>1, Keeps
  <2>2. ASSUME NEW p \in {"completed", "failed"}, Put(p, doc),
               p = "completed" => proc[h] = "ok"
        PROVE  /\ DocType' /\ Judged'
               /\ job' = "completed" => job = "completed" \/ proc[h] = "ok"
    BY <2>2, Puts, Parts DEF Prefixes, DocType
  <2> QED BY <2>1, <2>2
<1>3. WorkerType' /\ Outputs' BY Parts DEF WorkerType, Outputs, IInv, facts
<1>4. FactType' /\ Reported' BY StoreKept
<1>5. CompletedStored' BY <1>2 DEF CompletedStored, Outputs, IInv, facts
<1> QED BY <1>1, <1>2, <1>3, <1>4, <1>5, TypePartsNext DEF IInv

\* A new agent pins what the one before it left; only a tick's pin judges.
LEMMA LeftBehindIInv ==
    ASSUME IInv, NEW h \in Hosts, LeftBehind(h)
    PROVE  IInv'
<1> USE DEF LeftBehind
<1>0. PICK p \in {"settle", "idle"} :
        Go(h, p) /\ (Pin(h) \/ Keep)
  OBVIOUS
<1>1. PassType' /\ Aimed' /\ pc'[Tick] = pc[Tick]
  BY <1>0, HostGoes DEF facts, Phases
<1>2. DocType' /\ Judged' /\ job' = job
  BY <1>0, <1>1, Keeps, Pins, FleetAssumption DEF Actors
<1>3. WorkerType' /\ Outputs' BY WorkersKept DEF facts
<1>4. FactType' /\ Reported' BY StoreKept
<1>5. CompletedStored' BY <1>2, StillStored DEF facts
<1> QED BY <1>1, <1>2, <1>3, <1>4, <1>5, TypePartsNext DEF IInv

-----------------------------------------------------------------------------
\* Taking a job from a lost worker

\* Whoever goes on where nothing is aimed at leaves the tick's aim alone.
LEMMA ActorGoes ==
    ASSUME IInv, NEW a \in Actors,
           NEW p \in Phases \ {"dismiss", "word", "settle", "requeue", "lose"}, Go(a, p),
           stored => stored', traits' = traits
    PROVE  /\ PassType' /\ Aimed'
           /\ pc'[Tick] \in {"settle", "lose"} => pc'[Tick] = pc[Tick]
<1>1. CASE a = Tick BY <1>1, TickGoes
<1>2. CASE a # Tick BY <1>2, HostGoes DEF Actors
<1> QED BY <1>1, <1>2

\* Where settle and Lose go on.
LEMMA OnwardGoes ==
    ASSUME NEW a, NEW m
    PROVE  Onward(a, m) \in Phases \ {"dismiss", "word", "settle", "requeue", "lose"}
BY OnwardWords DEF Phases

\* A lost job goes back or fails; either way the document is written.
LEMMA Loses ==
    ASSUME IInv, NEW a \in Actors, Lost(a), Loss(a) \in Losses,
           stored => stored', traits' = traits
    PROVE  /\ DocType' /\ Judged' /\ job' \in {"failed", "queue"}
           /\ PassType' /\ Aimed'
<1>1. CASE Put("failed", doc) /\ Go(a, Onward(a, TRUE))
  <2>1. DocType' /\ Judged' /\ job' = "failed"
    BY <1>1, Puts, Parts DEF Prefixes, DocType
  <2> QED BY <1>1, <2>1, OnwardGoes, ActorGoes
<1>2. CASE Put("queue", [host |-> None, live |-> FALSE, err |-> Loss(a)]) /\ Go(a, "tidy")
  <2>1. DocType' /\ Judged' /\ job' = "queue" BY <1>2, FreshDoc, Puts DEF Prefixes
  <2>2. "tidy" \in Phases \ {"dismiss", "word", "settle", "requeue", "lose"} BY DEF Phases
  <2> QED BY <1>2, <2>1, <2>2, ActorGoes
<1> QED BY <1>1, <1>2 DEF Lost

\* The reaper settles a lapsed lease, and completes only with a receipt.
LEMMA SettleIInv ==
    ASSUME IInv, NEW a \in Actors, Settle(a)
    PROVE  IInv'
<1> USE DEF Settle
<1>0. /\ FactType' /\ Reported' /\ stored' = stored /\ WorkerType' /\ Outputs'
  BY StoreKept, WorkersKept DEF tally, facts
<1>1. CASE "maintenance" \in traits /\ Put("completed", doc) /\ Go(a, "tidy")
  <2>1. DocType' /\ Judged' /\ job' = "completed"
    BY <1>1, Puts, Parts DEF Prefixes, DocType
  <2>2. "tidy" \in Phases \ {"dismiss", "word", "settle", "requeue", "lose"} BY DEF Phases
  <2>3. PassType' /\ Aimed' BY <1>0, <1>1, <2>2, ActorGoes
  <2>4. CompletedStored' BY <1>1 DEF CompletedStored
  <2> QED BY <1>0, <2>1, <2>3, <2>4, TypePartsNext DEF IInv
<1>2. CASE receipt = "new" /\ Put("completed", doc) /\ Go(a, Onward(a, TRUE))
  <2>1. DocType' /\ Judged' /\ job' = "completed"
    BY <1>2, Puts, Parts DEF Prefixes, DocType
  <2>2. PassType' /\ Aimed' BY <1>0, <1>2, OnwardGoes, ActorGoes
  <2>3. CompletedStored' BY <1>0, <1>2 DEF CompletedStored, Reported, IInv
  <2> QED BY <1>0, <2>1, <2>2, <2>3, TypePartsNext DEF IInv
<1>3. CASE Lost(a)
  <2>1. Loss(a) \in Losses BY DEF Loss, Losses, Aimed, IInv
  <2>2. /\ DocType' /\ Judged' /\ job' \in {"failed", "queue"}
        /\ PassType' /\ Aimed'
    BY <1>0, <1>3, <2>1, Loses
  <2>3. CompletedStored' BY <2>2 DEF CompletedStored
  <2> QED BY <1>0, <2>2, <2>3, TypePartsNext DEF IInv
<1>4. CASE Keep /\ Go(a, Onward(a, FALSE))
  <2>1. /\ PassType' /\ Aimed'
        /\ pc'[Tick] \in {"settle", "lose"} => pc'[Tick] = pc[Tick]
    BY <1>0, <1>4, OnwardGoes, ActorGoes
  <2>2. DocType' /\ Judged' /\ job' = job BY <1>4, <2>1, Keeps
  <2>3. CompletedStored' BY <1>0, <2>2, StillStored
  <2> QED BY <1>0, <2>1, <2>2, <2>3, TypePartsNext DEF IInv
<1> QED BY <1>1, <1>2, <1>3, <1>4

\* Clearing the status word completes nothing.
LEMMA TidyIInv ==
    ASSUME IInv, NEW a \in Actors, Tidy(a)
    PROVE  IInv'
<1> USE DEF Tidy
<1>1. /\ PassType' /\ Aimed'
      /\ pc'[Tick] \in {"settle", "lose"} => pc'[Tick] = pc[Tick]
  BY OnwardGoes, ActorGoes
<1>2. DocType' /\ Judged' /\ job' = job BY <1>1, Keeps DEF Keep
<1>3. WorkerType' /\ Outputs' BY WorkersKept
<1>4. FactType' /\ Reported' BY Parts DEF FactType, Reported, IInv, tally
<1>5. CompletedStored' BY <1>2, StillStored
<1> QED BY <1>1, <1>2, <1>3, <1>4, <1>5, TypePartsNext DEF IInv

-----------------------------------------------------------------------------
\* The tick

\* A step that writes nothing but the document, and completes only a job
\* whose output is stored or needs none.
LEMMA Passes ==
    ASSUME IInv, UNCHANGED <<traits, written, facts, workers, tally>>,
           DocType', Judged', PassType', Aimed',
           job' = "completed" =>
               job = "completed" \/ stored \/ "maintenance" \in traits
    PROVE  IInv'
<1>1. FactType' /\ Reported' /\ stored' = stored BY StoreKept
<1>2. WorkerType' /\ Outputs' BY <1>1, WorkersKept
<1>3. CompletedStored' BY <1>1 DEF CompletedStored, IInv
<1> QED BY <1>1, <1>2, <1>3, TypePartsNext DEF IInv

\* The tick goes on, and the document stays as it is.
LEMMA TickLooks ==
    ASSUME IInv, UNCHANGED <<traits, written, facts, workers, tally>>, Keep,
           NEW p \in Phases \ {"dismiss", "word", "settle", "requeue", "lose"}, Go(Tick, p)
    PROVE  IInv'
<1>1. PassType' /\ Aimed' /\ pc'[Tick] = p BY TickGoes
<1>2. DocType' /\ Judged' /\ job' = job BY <1>1, Keeps
<1> QED BY <1>1, <1>2, Passes

\* The same, with something else in view.
LEMMA TickAims ==
    ASSUME IInv, UNCHANGED <<traits, written, facts, workers, tally>>, Keep,
           NEW p \in Phases \ {"dismiss", "word", "settle", "requeue", "lose"},
           NEW s \in Scans, Aim(p, None, s)
    PROVE  IInv'
<1>1. PassType' /\ pc'[Tick] = p BY Aims
<1>2. Aimed' BY <1>1 DEF Aimed
<1>3. DocType' /\ Judged' /\ job' = job BY <1>1, Keeps
<1> QED BY <1>1, <1>2, <1>3, Passes

\* The tick is an actor, and Unseen is a view of it.
LEMMA TickActs == Tick \in Actors /\ Unseen \in Scans
BY DEF Actors, Unseen, Scans

\* The reaper pins a lapsed document.
LEMMA ReapIInv ==
    ASSUME IInv, Reap
    PROVE  IInv'
<1> USE DEF Reap
<1>1. CASE Running /\ Lapsed /\ Pin(Tick) /\ Aim("settle", "lease", Unseen)
  <2>1. PassType' /\ pc'[Tick] = "settle" /\ why' = "lease"
    BY <1>1, Aims, TickActs DEF Phases, Losses
  <2>2. Aimed' BY <2>1 DEF Aimed
  <2>3. DocType' /\ Judged' /\ job' = job BY <1>1, Pins, TickActs DEF Lapsed
  <2> QED BY <2>1, <2>2, <2>3, Passes
<1>2. CASE Keep /\ Go(Tick, "releases") BY <1>2, TickLooks DEF Phases
<1> QED BY <1>1, <1>2

\* A requeued release is completed on its receipt, which followed the upload.
LEMMA ReleasesIInv ==
    ASSUME IInv, Releases
    PROVE  IInv'
<1> USE DEF Releases
<1>1. CASE receipt # "none" /\ Put("completed", doc)
  <2>1. PassType' /\ pc'[Tick] = "list" BY Aims, TickActs DEF Phases
  <2>2. Aimed' BY <2>1 DEF Aimed
  <2>3. DocType' /\ Judged' BY <1>1, Puts, Parts DEF Prefixes, DocType
  <2>4. stored BY <1>1 DEF Reported, IInv
  <2> QED BY <2>1, <2>2, <2>3, <2>4, Passes
<1>2. CASE Keep BY <1>2, TickAims, TickActs DEF Phases
<1> QED BY <1>1, <1>2

\* The pin of the listing is no judgement.
LEMMA ListIInv ==
    ASSUME IInv, List
    PROVE  IInv'
<1> USE DEF List
<1>1. CASE Pin(Tick) /\ Aim("status", None, [Unseen EXCEPT !.host = doc.host])
  <2>1. [Unseen EXCEPT !.host = doc.host] \in Scans
    BY Parts DEF DocType, Docs, Unseen, Scans
  <2>2. PassType' /\ pc'[Tick] = "status" BY <1>1, <2>1, Aims DEF Phases
  <2>3. Aimed' BY <2>2 DEF Aimed
  <2>4. DocType' /\ Judged' /\ job' = job BY <1>1, <2>2, Pins, TickActs
  <2> QED BY <2>2, <2>3, <2>4, Passes
<1>2. CASE Keep /\ Go(Tick, "sweep") BY <1>2, TickLooks DEF Phases
<1> QED BY <1>1, <1>2

\* A status word read is one that was said.
LEMMA StatusIInv ==
    ASSUME IInv, Status
    PROVE  IInv'
<1> USE DEF Status
<1>1. CASE status \in Words /\ Aim("dismiss", status, scan)
  <2>1. PassType' /\ pc'[Tick] = "dismiss" /\ why' = status
    BY <1>1, Aims, Parts DEF Phases, PassType
  <2>2. Aimed' BY <1>1, <2>1 DEF Aimed, Reported, IInv, facts
  <2>3. DocType' /\ Judged' /\ job' = job BY <2>1, Keeps DEF Keep
  <2> QED BY <2>1, <2>2, <2>3, Passes
<1>2. CASE Go(Tick, "judge") BY <1>2, TickLooks DEF Phases, Keep
<1> QED BY <1>1, <1>2

\* The word is kept for the move, or forgotten with the tick.
LEMMA DismissIInv ==
    ASSUME IInv, Dismiss
    PROVE  IInv'
<1> USE DEF Dismiss
<1>1. CASE Go(Tick, "word")
  <2>1. PassType' /\ pc'[Tick] = "word" /\ why' = why
    BY <1>1, Parts DEF Go, PassType, Phases, Actors
  <2>2. Aimed' BY <1>1, <2>1 DEF Aimed, Reported, IInv, facts
  <2>3. DocType' /\ Judged' /\ job' = job BY <2>1, Keeps DEF Keep
  <2> QED BY <2>1, <2>2, <2>3, Passes
<1>2. CASE Go(Tick, "idle") BY <1>2, TickLooks DEF Phases, Keep
<1> QED BY <1>1, <1>2

\* A word of success read earlier was said after the upload, and output stays.
LEMMA WordIInv ==
    ASSUME IInv, Word
    PROVE  IInv'
<1> USE DEF Word
<1>1. ASSUME NEW p \in {"failed", "completed"}, Put(p, doc), Go(Tick, "tidy"),
             p = "completed" => why # "FAILED"
      PROVE  IInv'
  <2>1. PassType' /\ Aimed' BY <1>1, TickGoes DEF Phases
  <2>2. DocType' /\ Judged' /\ job' = p
    BY <1>1, Puts, Parts DEF Prefixes, DocType
  <2>3. p = "completed" => stored \/ "maintenance" \in traits
    BY <1>1 DEF Aimed, IInv, Words
  <2> QED BY <2>1, <2>2, <2>3, Passes
<1>2. CASE Keep /\ Go(Tick, "idle") BY <1>2, TickLooks DEF Phases
<1> QED BY <1>1, <1>2

\* What the tick judges lost is one of the losses.
LEMMA JudgeIInv ==
    ASSUME IInv, Judge
    PROVE  IInv'
<1> USE DEF Judge
<1>0. DocType' /\ ~pin'[Tick] /\ job' = job /\ Judged'
  BY Parts, TickActs DEF DocType, Judged
<1>1. CASE Aim("sweep", None, Unseen)
  <2>1. PassType' /\ pc'[Tick] = "sweep" BY <1>1, Aims, TickActs DEF Phases
  <2>2. Aimed' BY <2>1 DEF Aimed
  <2> QED BY <1>0, <2>1, <2>2, Passes
<1>2. CASE "maintenance" \in traits /\ Aim("word", "COMPLETED", scan)
  <2>1. PassType' /\ pc'[Tick] = "word" /\ why' = "COMPLETED"
    BY <1>2, Aims, Parts DEF Phases, PassType, Words
  <2>2. Aimed' BY <1>2, <2>1 DEF Aimed, Words
  <2> QED BY <1>0, <2>1, <2>2, Passes
<1>3. ASSUME NEW w \in {"orphan", "stale", "gone", "preempted"},
             Aim("requeue", w, scan)
      PROVE  IInv'
  <2>1. PassType' /\ pc'[Tick] = "requeue" /\ why' = w
    BY <1>3, Aims, Parts DEF Phases, PassType, Losses
  <2>2. Aimed' BY <2>1 DEF Aimed
  <2> QED BY <1>0, <2>1, <2>2, Passes
<1> QED BY <1>1, <1>2, <1>3

\* The tick goes on to lose a job whose document it read again as lapsed.
LEMMA RequeueIInv ==
    ASSUME IInv, Requeue
    PROVE  IInv'
<1> USE DEF Requeue
<1>1. CASE Running /\ ~doc.live /\ Pin(Tick) /\ Go(Tick, "lose")
  <2>1. PassType' /\ pc'[Tick] = "lose" /\ why' = why
    BY <1>1, Goes, TickActs DEF Phases
  <2>2. Aimed' BY <2>1 DEF Aimed, IInv
  <2>3. DocType' /\ Judged' /\ job' = job BY <1>1, Pins, TickActs
  <2> QED BY <2>1, <2>2, <2>3, Passes
<1>2. CASE Keep /\ Go(Tick, Onward(Tick, FALSE)) BY <1>2, OnwardGoes, TickLooks
<1> QED BY <1>1, <1>2

\* A lost job goes back or fails, and never completes.
LEMMA LoseIInv ==
    ASSUME IInv, Lose
    PROVE  IInv'
<1> USE DEF Lose
<1>0. UNCHANGED <<traits, written, facts, workers, tally>> BY DEF tally
<1>1. CASE Keep /\ Go(Tick, Onward(Tick, FALSE))
  BY <1>0, <1>1, OnwardGoes, TickLooks
<1>2. CASE why # "preempted" /\ Lost(Tick)
  <2>1. Loss(Tick) \in Losses BY <1>2 DEF Loss, Losses, Aimed, IInv
  <2>2. /\ DocType' /\ Judged' /\ job' \in {"failed", "queue"}
        /\ PassType' /\ Aimed'
    BY <1>2, <2>1, Loses, TickActs DEF facts
  <2> QED BY <1>0, <2>2, Passes
<1>3. CASE Put("queue", [doc EXCEPT !.host = None]) /\ Go(Tick, "tidy")
  <2>1. [doc EXCEPT !.host = None] \in Docs BY Parts DEF DocType, Docs
  <2>2. DocType' /\ Judged' /\ job' = "queue" BY <1>3, <2>1, Puts DEF Prefixes
  <2>3. PassType' /\ Aimed' BY <1>3, TickGoes DEF Phases
  <2> QED BY <1>0, <2>2, <2>3, Passes
<1> QED BY <1>1, <1>2, <1>3

\* A machine that ends ends its slot.
LEMMA DownWorkers ==
    ASSUME IInv, NEW h, Down(h), stored => stored'
    PROVE  WorkerType' /\ Outputs'
<1>1. WorkerType' BY Parts DEF Down, WorkerType
<1>2. Outputs'
  <2> SUFFICES ASSUME NEW g \in Hosts, slot'[g] \in {"uploaded", "said"}
               PROVE  proc'[g] \in {"ok", "bad"} /\ (proc'[g] = "ok" => stored')
    BY DEF Outputs
  <2>1. g # h BY Parts DEF Down, WorkerType
  <2>2. slot'[g] = slot[g] /\ proc'[g] = proc[g]
    BY <2>1, Parts DEF Down, WorkerType
  <2> QED BY <2>2 DEF Outputs, IInv
<1> QED BY <1>1, <1>2

\* A step that ends a machine and leaves the document and the store alone.
LEMMA Ends ==
    ASSUME IInv, NEW h, Down(h), Keep, UNCHANGED <<traits, written, facts, claims>>,
           faults' \in Nat, PassType', Aimed',
           pc'[Tick] \in {"settle", "lose"} => pc'[Tick] = pc[Tick]
    PROVE  IInv'
<1>1. DocType' /\ Judged' /\ job' = job BY Keeps
<1>2. FactType' /\ Reported' /\ stored' = stored
  BY FactsKept, Parts DEF FactType
<1>3. WorkerType' /\ Outputs' BY <1>2, DownWorkers
<1>4. CompletedStored' BY <1>1, <1>2, StillStored
<1> QED BY <1>1, <1>2, <1>3, <1>4, TypePartsNext DEF IInv

\* Deleting a machine writes no document.
LEMMA KillIInv ==
    ASSUME IInv, Kill
    PROVE  IInv'
<1> USE DEF Kill
<1>1. CASE Down(scan.host)
  <2>1. PassType' /\ pc'[Tick] = "sweep" BY Aims, TickActs DEF Phases
  <2>2. Aimed' BY <2>1 DEF Aimed
  <2>3. faults' \in Nat BY Parts DEF FactType, tally
  <2> QED BY <1>1, <2>1, <2>2, <2>3, Ends DEF Keep, tally
<1>2. CASE UNCHANGED workers BY <1>2, TickAims, TickActs DEF Phases, Keep
<1> QED BY <1>1, <1>2

\* The sweep picks a machine.
LEMMA SweepIInv ==
    ASSUME IInv, Sweep
    PROVE  IInv'
<1> USE DEF Sweep
<1>1. ASSUME NEW h \in Cloud,
             Aim("alive", None, [host |-> h, mine |-> Running /\ doc.host = h,
                                 safety |-> FALSE])
      PROVE  IInv'
  <2>1. (Running /\ doc.host = h) \in BOOLEAN OBVIOUS
  <2>2. [host |-> h, mine |-> Running /\ doc.host = h, safety |-> FALSE] \in Scans
    BY <2>1 DEF Scans, Hosts
  <2> QED BY <1>1, <2>2, TickAims DEF Phases, Keep
<1>2. CASE Go(Tick, "idle") BY <1>2, TickLooks DEF Phases, Keep
<1> QED BY <1>1, <1>2

\* The sweep leaves a living agent alone,
LEMMA AliveIInv ==
    ASSUME IInv, Alive
    PROVE  IInv'
<1> USE DEF Alive
<1>1. PICK p \in {"idle", "relist"} : Go(Tick, p) OBVIOUS
<1> QED BY <1>1, TickLooks DEF Phases, Keep

\* lists the jobs again,
LEMMA RelistIInv ==
    ASSUME IInv, Relist
    PROVE  IInv'
<1> USE DEF Relist
<1>1. CASE Aim("race", None,
               [scan EXCEPT !.safety = (Running /\ doc.host = scan.host)])
  <2>1. [scan EXCEPT !.safety = (Running /\ doc.host = scan.host)] \in Scans
    BY Parts DEF PassType, Scans
  <2> QED BY <1>1, <2>1, TickAims DEF Phases, Keep
<1>2. CASE Go(Tick, "idle") BY <1>2, TickLooks DEF Phases, Keep
<1> QED BY <1>1, <1>2

\* leaves a machine whose job was renewed,
LEMMA RaceIInv ==
    ASSUME IInv, Race
    PROVE  IInv'
<1> USE DEF Race
<1>1. PICK p \in {"idle", "delete"} : Go(Tick, p) OBVIOUS
<1> QED BY <1>1, TickLooks DEF Phases, Keep

\* and deletes the machine before it requeues the job.
LEMMA DeleteIInv ==
    ASSUME IInv, Delete
    PROVE  IInv'
<1> USE DEF Delete
<1>0. faults' \in Nat /\ claims' = claims BY Parts DEF FactType, tally
<1>1. CASE Aim("requeue", "reaped", scan)
  <2>1. PassType' /\ pc'[Tick] = "requeue" /\ why' = "reaped"
    BY <1>1, Aims, Parts DEF Phases, PassType, Losses
  <2>2. Aimed' BY <2>1 DEF Aimed
  <2> QED BY <1>0, <2>1, <2>2, Ends DEF Keep
<1>2. CASE Go(Tick, "idle")
  <2>1. PassType' /\ Aimed' /\ pc'[Tick] = "idle" BY <1>2, TickGoes DEF Phases
  <2> QED BY <1>0, <2>1, Ends DEF Keep
<1> QED BY <1>1, <1>2

-----------------------------------------------------------------------------
\* Everything else

\* A workload exits before its slot uploads.
LEMMA ExitIInv ==
    ASSUME IInv, NEW h \in Hosts, Exit(h)
    PROVE  IInv'
<1> USE DEF Exit
<1>1. PassType' /\ Aimed' /\ pc'[Tick] = pc[Tick] BY PassKept DEF facts
<1>2. DocType' /\ Judged' /\ job' = job BY <1>1, Keeps DEF Keep
<1>3. WorkerType' /\ Outputs'
  <2>1. CASE proc[h] = "running" /\ UNCHANGED orphan
             /\ \E r \in {"ok", "bad"} : proc' = [proc EXCEPT ![h] = r]
    BY <2>1, Parts DEF WorkerType, Outputs, IInv, facts
  <2>2. CASE orphan' = [orphan EXCEPT ![h] = FALSE] /\ UNCHANGED proc
    BY <2>2, Parts DEF WorkerType, Outputs, IInv, facts
  <2> QED BY <2>1, <2>2
<1>4. FactType' /\ Reported' BY StoreKept
<1>5. CompletedStored' BY <1>2, StillStored DEF facts
<1> QED BY <1>1, <1>2, <1>3, <1>4, <1>5, TypePartsNext DEF IInv

\* A promise that passes makes no judgement wrong.
LEMMA LapseIInv ==
    ASSUME IInv, Lapse
    PROVE  IInv'
<1> USE DEF Lapse
<1>1. PassType' /\ Aimed' /\ pc'[Tick] = pc[Tick] BY PassKept DEF facts
<1>2. doc' \in Docs /\ doc'.live = FALSE BY Parts DEF DocType, Docs
<1>3. DocType' BY <1>2, Parts DEF DocType
<1>4. Judged' BY <1>1, <1>2 DEF Judged, IInv, Running
<1> QED BY <1>1, <1>3, <1>4, Passes

\* An agent takes its slots with it.
LEMMA AgentDiesIInv ==
    ASSUME IInv, NEW h \in Hosts, AgentDies(h)
    PROVE  IInv'
<1> USE DEF AgentDies
<1>1. PassType' /\ Aimed' /\ pc'[Tick] = pc[Tick] BY HostGoes DEF facts, Phases
<1>2. DocType' /\ Judged' /\ job' = job BY <1>1, Keeps DEF Keep
<1>3. FactType' /\ Reported' /\ stored' = stored
  BY FactsKept, Parts DEF FactType
<1>4. WorkerType' /\ Outputs' BY <1>3, Parts DEF WorkerType, Outputs, IInv
<1>5. CompletedStored' BY <1>2, <1>3, StillStored
<1> QED BY <1>1, <1>2, <1>3, <1>4, <1>5, TypePartsNext DEF IInv

\* A new agent has no slots.
LEMMA AgentStartsIInv ==
    ASSUME IInv, NEW h \in Hosts, AgentStarts(h)
    PROVE  IInv'
<1> USE DEF AgentStarts
<1>1. PassType' /\ Aimed' /\ pc'[Tick] = pc[Tick] BY HostGoes DEF facts, Phases
<1>2. DocType' /\ Judged' /\ job' = job BY <1>1, Keeps DEF Keep
<1>3. FactType' /\ Reported' /\ stored' = stored BY StoreKept
<1>4. WorkerType' /\ Outputs' BY <1>3, Parts DEF WorkerType, Outputs, IInv
<1>5. CompletedStored' BY <1>2, <1>3, StillStored
<1> QED BY <1>1, <1>2, <1>3, <1>4, <1>5, TypePartsNext DEF IInv

\* A machine takes its slot with it.
LEMMA VmGoesIInv ==
    ASSUME IInv, NEW h \in Hosts, VmGoes(h)
    PROVE  IInv'
<1> USE DEF VmGoes
<1>1. PassType' /\ Aimed' /\ pc'[Tick] = pc[Tick] BY HostGoes DEF facts, Phases
<1>2. faults' \in Nat BY Parts DEF FactType
<1> QED BY <1>1, <1>2, Ends DEF Keep

\* A tick that fails judges nothing any more.
LEMMA TickFailsIInv ==
    ASSUME IInv, TickFails
    PROVE  IInv'
<1> USE DEF TickFails
<1>1. PassType' /\ Aimed' /\ pc'[Tick] = "idle" BY TickGoes DEF Phases
<1>2. DocType' /\ Judged' /\ job' = job BY <1>1, Keeps DEF Keep
<1>3. FactType' /\ Reported' /\ stored' = stored
  BY FactsKept, Parts DEF FactType
<1>4. WorkerType' /\ Outputs' BY <1>3, WorkersKept
<1>5. CompletedStored' BY <1>2, <1>3, StillStored
<1> QED BY <1>1, <1>2, <1>3, <1>4, <1>5, TypePartsNext DEF IInv

\* A stuttering step.
LEMMA StutterIInv ==
    ASSUME IInv, UNCHANGED vars
    PROVE  IInv'
<1> USE DEF vars
<1>1. PassType' /\ Aimed' /\ pc'[Tick] = pc[Tick] BY PassKept DEF facts
<1>2. DocType' /\ Judged' /\ job' = job BY <1>1, Keeps DEF Keep
<1> QED BY <1>1, <1>2, Passes

-----------------------------------------------------------------------------
\* The theorems

\* The job is queued and nobody has it.
LEMMA InitIInv == Init => IInv
<1> SUFFICES ASSUME Init PROVE IInv OBVIOUS
<1> USE DEF Init
<1>1. DocType BY DEF DocType, Prefixes, Docs
<1>2. PassType BY TickActs DEF PassType, Phases
<1>3. WorkerType BY DEF WorkerType
<1>4. FactType BY DEF FactType
<1>5. Outputs /\ Reported /\ CompletedStored
  BY DEF Outputs, Reported, CompletedStored
<1>6. Aimed /\ Judged BY TickActs DEF Aimed, Judged
<1> QED BY <1>1, <1>2, <1>3, <1>4, <1>5, <1>6, TypeParts DEF IInv

\* Every step preserves the invariant.
LEMMA NextIInv == IInv /\ [Next]_vars => IInv'
<1> SUFFICES ASSUME IInv, [Next]_vars PROVE IInv' OBVIOUS
<1>0. Hosts \subseteq Actors BY DEF Actors
<1>1. ASSUME NEW h \in Hosts, SlotStep(h) PROVE IInv'
  BY <1>0, <1>1, SpawnIInv, TakeBackIInv, DropIInv, UploadIInv, EscalateIInv,
     SayIInv, FinishIInv, LeftBehindIInv, SettleIInv, TidyIInv DEF SlotStep
<1>2. ASSUME NEW h \in Hosts, \/ Claim(h) \/ Renew(h) \/ Write(h) \/ Exit(h)
                              \/ AgentDies(h) \/ AgentStarts(h) \/ VmGoes(h)
      PROVE  IInv'
  BY <1>2, ClaimIInv, RenewIInv, WriteIInv, ExitIInv, AgentDiesIInv,
     AgentStartsIInv, VmGoesIInv
<1>3. CASE TickStep
  BY <1>3, TickActs, ReapIInv, SettleIInv, TidyIInv, ReleasesIInv, ListIInv,
     StatusIInv, DismissIInv, WordIInv, JudgeIInv, RequeueIInv, LoseIInv, KillIInv,
     SweepIInv, AliveIInv, RelistIInv, RaceIInv, DeleteIInv DEF TickStep
<1>4. CASE Lapse \/ TickFails BY <1>4, LapseIInv, TickFailsIInv
<1>5. CASE UNCHANGED vars BY <1>5, StutterIInv
<1> QED BY <1>1, <1>2, <1>3, <1>4, <1>5 DEF Next

\* The invariant holds of every behaviour of the fleet.
THEOREM Invariance == Spec => []IInv
BY InitIInv, NextIInv, PTL DEF Spec

\* Every variable keeps its type: a tick acts only on losses and words the code
\* knows, and a document is written only under the four prefixes.
THEOREM TypeCorrect == Spec => []TypeOK
<1>1. IInv => TypeOK BY DEF IInv
<1> QED BY <1>1, Invariance, PTL

\* advance_slot, settle, complete_requeued_releases and check_running_jobs: who
\* ever completes the job, its output was in the store before.
THEOREM CompletionIsStored == Spec => []CompletedStored
<1>1. IInv => CompletedStored BY DEF IInv
<1> QED BY <1>1, Invariance, PTL

\* No step of a host moves the tick.
LEMMA HostsApart ==
    ASSUME IInv, NEW h \in Hosts,
           \/ Claim(h) \/ Renew(h) \/ Write(h) \/ SlotStep(h) \/ Exit(h)
           \/ AgentDies(h) \/ AgentStarts(h) \/ VmGoes(h)
    PROVE  pc'[Tick] = pc[Tick]
<1>1. ASSUME NEW p, Go(h, p) PROVE pc'[Tick] = pc[Tick]
  <2>1. h # Tick BY FleetAssumption
  <2> QED BY <1>1, <2>1, Parts, TickActs DEF Go, PassType
<1>2. CASE \/ Claim(h) \/ Renew(h) \/ Write(h) \/ Exit(h)
  BY <1>2 DEF Claim, Renew, Write, Exit, pass
<1>3. CASE AgentDies(h) \/ AgentStarts(h) \/ VmGoes(h)
  BY <1>1, <1>3 DEF AgentDies, AgentStarts, VmGoes
<1>4. CASE \/ Spawn(h) \/ TakeBack(h) \/ Drop(h) \/ Upload(h) \/ Escalate(h)
           \/ Say(h) \/ Finish(h)
  BY <1>4 DEF Spawn, TakeBack, Drop, Upload, Escalate, Say, Finish, pass
<1>5. CASE LeftBehind(h) \/ Settle(h) \/ Tidy(h)
  BY <1>1, <1>5 DEF LeftBehind, Settle, Tidy, Lost
<1> QED BY <1>2, <1>3, <1>4, <1>5 DEF SlotStep

\* reap_one and requeue: a tick that takes the job away by its pinned move
\* takes it from a document whose promise has passed.
THEOREM PromiseIsKept == Spec => PromiseKept
<1>1. ASSUME IInv, [Next]_vars, Running, job' # "running",
             pc[Tick] \in {"settle", "lose"}, pc'[Tick] # pc[Tick],
             "maintenance" \notin traits
      PROVE  ~doc.live
  <2> USE <1>1
  <2>1. ~UNCHANGED vars BY DEF vars, pass
  <2>2. \A h \in Hosts : ~(\/ Claim(h) \/ Renew(h) \/ Write(h) \/ SlotStep(h)
                           \/ Exit(h) \/ AgentDies(h) \/ AgentStarts(h)
                           \/ VmGoes(h))
    BY HostsApart
  <2>3. ~Lapse /\ ~TickFails BY DEF Lapse, TickFails, Running
  <2>4. Settle(Tick) \/ Lose
    <3>1. TickStep BY <2>1, <2>2, <2>3 DEF Next
    <3> QED BY <3>1 DEF TickStep, Reap, Tidy, Releases, List, Status, Dismiss, Word,
               Judge, Requeue, Kill, Sweep, Alive, Relist, Race, Delete
  <2>5. pin[Tick] BY <2>4 DEF Settle, Lose, Keep, Running
  <2> QED BY <2>5 DEF Judged, IInv
<1>2. IInv /\ [Next]_vars
        => [Running /\ job' # "running" /\ pc[Tick] \in {"settle", "lose"}
              /\ pc'[Tick] # pc[Tick] /\ "maintenance" \notin traits
            => ~doc.live]_vars
  BY <1>1
<1> QED BY <1>2, Invariance, PTL DEF Spec, PromiseKept
=============================================================================
