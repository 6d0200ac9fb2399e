--------------------------- MODULE JobTransition ---------------------------
(***************************************************************************)
(* The durable lifecycle of ONE queue job (src/stado-rs/src/queue/storage/ *)
(* lifecycle): the document that moves between the lifecycle prefixes of   *)
(* the blob store, the one durable transition record that fences every     *)
(* move, and the clients that run claim, finish, renew, reap, cancel,      *)
(* rewrite and sweep concurrently, each free to die between any two        *)
(* storage calls.                                                          *)
(*                                                                         *)
(* One action is one storage call.  A read followed by a compare-and-swap  *)
(* on the version just read, in a loop that starts over on a conflict, is  *)
(* one action: the swap lands only while the object still holds what was   *)
(* read.  Where a lost swap is an outcome of its own the read and the swap *)
(* are two actions.                                                        *)
(*                                                                         *)
(* The version token of an object is its content, as in the local file     *)
(* backend (queue/local_file/atomic.rs, SHA-256 of the bytes).             *)
(***************************************************************************)
EXTENDS Integers, FiniteSets

CONSTANTS
    Clients,        \* the processes that call the storage layer
    Ops,            \* the operations each client runs
    OpBudget,       \* how many operations each client starts (bound)
    Placements,     \* the placements a submission or a queued rewrite writes
    AssignedTo,     \* the provider and worker a placement names
    NotBefore,      \* the time before which a placement is not claimed
    Admitted,       \* whether the job is already in queue/ at the start
    Promise,        \* how far ahead a worker promises its next renewal
    MaxTime,        \* last value of the clock (bound)
    MaxCrashes,     \* crashes of clients (bound)
    SelfTerminating,\* Job::terminates_agent of a job so placed
    SubmitterRestarts,\* Job::submitter_restarts of a job so placed
    None            \* absence: of a document, a record, an id, a worker

OpNames == {"admit", "claim", "finish", "reap", "cancel", "settle", "rewrite",
            "sweep"}

ASSUME ConstantsAssumption ==
    /\ Ops \in [Clients -> SUBSET OpNames]
    /\ OpBudget \in [Clients -> Nat]
    /\ NotBefore \in [Placements -> Nat]
    /\ Admitted \in BOOLEAN
    /\ Promise \in Nat \ {0}
    /\ MaxTime \in Nat
    /\ MaxCrashes \in Nat
    /\ SelfTerminating \in [Placements -> BOOLEAN]
    /\ SubmitterRestarts \in [Placements -> BOOLEAN]
    /\ None \notin Clients

\* uploaded/, the fourth terminal prefix, is written by no operation here.
Terminal == {"completed", "failed", "cancelled"}
Prefix == {"queue", "running"} \cup Terminal

\* ALL_PREFIXES and JOB_PREFIXES: the order in which recovery, and in which
\* admission and lookup, probe the prefixes for the job.
AllPrefixes == <<"queue", "running", "completed", "failed", "cancelled">>
JobPrefixes == <<"cancelled", "failed", "completed", "running", "queue">>

(***************************************************************************)
(* A document.  st is the prefix whose state it holds, or a sentinel; id   *)
(* is the transition a sentinel names.  by is the worker (instance_ref),   *)
(* lease its promise (0: none), rev the placement, restarts and lost the   *)
(* retry count and "error is LEASE_EXPIRED_REASON".                        *)
(***************************************************************************)
LiveDoc ==
    [st: Prefix, id: {None}, lease: Nat, by: Clients \cup {None},
     rev: Placements, restarts: Nat, lost: BOOLEAN]

\* transition_id is a hash of the two prefixes, the source version and the
\* destination document: here it is those four things.
TransitionId == [from: Prefix, to: Prefix, src: LiveDoc, dst: LiveDoc]

SentinelDoc ==
    [st: {"fence", "cleaned"}, id: TransitionId, lease: Nat,
     by: Clients \cup {None}, rev: Placements, restarts: Nat, lost: BOOLEAN]

Doc == LiveDoc \cup SentinelDoc

ASSUME NoneAssumption == None \notin Doc

Record ==
    [id: TransitionId, owner: Nat, dver: Doc \cup {None},
     state: {"prepared", "completed", "aborted", "retired"}]

Request ==
    [from: Prefix, to: Prefix, exp: LiveDoc \cup {None}, lease: Nat,
     by: Clients \cup {None}, restarts: Nat, lost: BOOLEAN]

VARIABLES
    docs,     \* docs[p]: the job's blob under prefix p
    record,   \* job-transitions/<job>.json
    marker,   \* whether queue_priority/ names the job
    cancel,   \* whether cancellations/<job>.json exists
    manifest, \* the run manifest: "present", "gone" or "unreadable"
    outcome,  \* the terminal document retained in the run manifest
    now,      \* the clock
    owners,   \* owner tokens minted so far
    pc,       \* pc[c]: the storage call client c makes next
    lv,       \* lv[c]: what client c remembers
    holds,    \* holds[c]: c's claim answered true and its worker executes
    left,     \* left[c]: operations c may still start
    crashes,  \* crashes so far
    fenced    \* history: the transition ids whose fence landed

vars == <<docs, record, marker, cancel, manifest, outcome, now, owners,
          pc, lv, holds, left, crashes, fenced>>

store == <<docs, record, marker, cancel, manifest, outcome, fenced>>

PCs == {"idle", "record", "abortDest", "abortSource", "fenceRead", "fence",
        "goneDest", "goneProbe", "dest", "create", "swap", "index", "complete",
        "abort", "finish", "finishProbe", "finishSource", "outcome", "clean",
        "unmark", "cleanSwap", "retire", "source", "moved", "basis", "prepare",
        "install", "body", "check", "recheck", "settled", "lookup", "follow",
        "sweep", "delete", "admit", "admitRecord", "admitMark", "admitCreate",
        "admitCheck"}

-----------------------------------------------------------------------------
\* Documents

Live(p) == docs[p] # None /\ docs[p].st = p
Sentinel(d, st, id) == d # None /\ d.st = st /\ d.id = id
Cleaned(d) == d # None /\ d.st = "cleaned"

Stamp(d, st, id) == [d EXCEPT !.st = st, !.id = id]
Max2(m, n) == IF m >= n THEN m ELSE n
Queued(r) == [st |-> "queue", id |-> None, lease |-> 0, by |-> None, rev |-> r,
              restarts |-> 0, lost |-> FALSE]

\* Mutant: a requeued or settled document keeps the error it had.
MergeKeepsError(cur, basis, from, to) ==
    [st |-> to, id |-> None, rev |-> cur.rev,
     lease |-> IF to = "running" THEN basis.lease ELSE 0, by |-> basis.by,
     restarts |-> Max2(cur.restarts, basis.restarts), lost |-> cur.lost]

\* merge_transition_destination: the current document with the fields the
\* move may carry taken from the basis (the request, or what stands already).
Merge(cur, basis, from, to) ==
    [st |-> to, id |-> None, rev |-> cur.rev,
     lease |-> IF to = "running" THEN basis.lease ELSE 0,
     by |-> IF to = "queue" /\ from # "running" THEN cur.by ELSE basis.by,
     restarts |-> IF to = "queue" /\ from = "running"
                  THEN Max2(cur.restarts, basis.restarts) ELSE cur.restarts,
     lost |-> IF to \in Terminal \/ (to = "queue" /\ from = "running")
              THEN basis.lost ELSE cur.lost]

-----------------------------------------------------------------------------
\* Clients

Locals ==
    [op: OpNames \cup {None}, want: Placements \cup {None},
     ret: {"source", "loop", "refuse", "answer", "body", "end"},
     rq: Request \cup {None}, src: LiveDoc \cup {None},
     cand: Record \cup {None}, rv: Record \cup {None},
     seen: Record \cup {None}, tr: Record \cup {None},
     dv: Doc \cup {None}, ans: BOOLEAN, k: 1..6]

Fresh ==
    [op |-> None, want |-> None, ret |-> "end", rq |-> None, src |-> None,
     cand |-> None, rv |-> None, seen |-> None, tr |-> None, dv |-> None,
     ans |-> FALSE, k |-> 1]

Init ==
    \E r \in Placements, m \in {"present", "gone", "unreadable"} :
        /\ docs = [p \in Prefix |->
                     IF p = "queue" /\ Admitted THEN Queued(r) ELSE None]
        /\ manifest = m
        /\ record = None /\ marker = Admitted /\ cancel = FALSE
        /\ outcome = None /\ now = 0 /\ owners = 0
        /\ pc = [c \in Clients |-> "idle"]
        /\ lv = [c \in Clients |-> Fresh]
        /\ holds = [c \in Clients |-> FALSE]
        /\ left = OpBudget
        /\ crashes = 0 /\ fenced = {}

At(c, p) == pc[c] = p

\* Client c makes call p next, remembering l.
Go(c, p, l) ==
    /\ pc' = [pc EXCEPT ![c] = p]
    /\ lv' = [lv EXCEPT ![c] = l]

Idle(c) == Go(c, "idle", Fresh)

\* recover_job_transition is called, to continue at ret.
CallRecover(c, l, ret) == Go(c, "record", [l EXCEPT !.ret = ret])

\* transition_job_if_version is called with request q.
CallTransition(c, q) ==
    CallRecover(c, [Fresh EXCEPT !.op = lv[c].op, !.rq = q], "source")

\* transition_job_if_version answers b to the operation that called it.
Answer(c, b) ==
    LET l == [Fresh EXCEPT !.op = lv[c].op, !.ans = b]
    IN CASE l.op = "claim" /\ b -> Go(c, "recheck", l)
         [] l.op = "cancel" /\ ~b /\ lv[c].rq.from = "queue" -> Go(c, "follow", l)
         [] l.op = "finish" -> Go(c, "settled", l)
         [] OTHER -> Idle(c)

\* A StorageError ends the call; every caller treats it as a move it lost.
Fail(c) == Answer(c, FALSE)

\* recover_job_transition answers b to the point that called it.
Recovered(c, b) ==
    LET l == [lv[c] EXCEPT !.tr = None, !.dv = None, !.ans = FALSE, !.k = 1]
    IN CASE l.ret = "source" -> Go(c, "source", l)
         [] l.ret = "loop" -> CallRecover(c, l, "source")
         [] l.ret = "refuse" -> Answer(c, FALSE)
         [] l.ret = "answer" /\ b -> Answer(c, TRUE)
         [] l.ret = "answer" /\ ~b -> CallRecover(c, l, "source")
         [] l.ret = "body" -> Go(c, IF l.op = "admit" THEN "admit" ELSE "body", l)
         [] l.ret = "end" -> Idle(c)

\* A step of client c's current operation: it starts none and crashes none.
Calling(c) == UNCHANGED <<now, left, crashes>>

Reads == UNCHANGED <<store, owners, holds>>

-----------------------------------------------------------------------------
(***************************************************************************)
(* recover_job_transition: finish whatever the durable record promises,    *)
(* whoever prepared it.                                                    *)
(***************************************************************************)

\* The record decides: nothing to do, an aborted decision to look at again,
\* a completed move to finish, a prepared one to carry out.
RecoverRecord(c) ==
    /\ At(c, "record") /\ Calling(c) /\ Reads
    /\ LET l == [lv[c] EXCEPT !.tr = record]
       IN CASE record = None \/ (record # None /\ record.state = "retired") ->
                 Recovered(c, FALSE)
            [] record # None /\ record.state = "aborted" -> Go(c, "abortDest", l)
            [] record # None /\ record.state = "completed" -> Go(c, "finish", l)
            [] record # None /\ record.state = "prepared" -> Go(c, "fenceRead", l)

\* An aborted record is upgraded only when the destination holds the job and
\* the source is absent, fenced or cleaned for this generation.
AbortedDestination(c) ==
    /\ At(c, "abortDest") /\ Calling(c) /\ Reads
    /\ IF Live(lv[c].tr.id.to) THEN Go(c, "abortSource", lv[c])
                               ELSE Recovered(c, FALSE)

AbortedSource(c) ==
    /\ At(c, "abortSource") /\ Calling(c) /\ Reads
    /\ LET id == lv[c].tr.id
           d == docs[id.from]
       IN IF d = None \/ Sentinel(d, "fence", id) \/ Sentinel(d, "cleaned", id)
          THEN Go(c, "complete", lv[c])
          ELSE Recovered(c, FALSE)

\* Mutants of FenceRead: the destination is written over an unfenced source;
\* the fence this very transition left is taken for another writer's change.
FenceReadUnfenced(c) ==
    /\ At(c, "fenceRead") /\ Calling(c) /\ Reads
    /\ Go(c, IF docs[lv[c].tr.id.from] = None THEN "goneDest" ELSE "dest", lv[c])

FenceReadForgetsFence(c) ==
    /\ At(c, "fenceRead") /\ Calling(c) /\ Reads
    /\ LET d == docs[lv[c].tr.id.from]
       IN Go(c, CASE d = None -> "goneDest"
                  [] d = lv[c].tr.id.src -> "fence"
                  [] OTHER -> "abort", lv[c])

\* The source of a prepared move: exactly the generation pinned, already
\* fenced by this move, changed since (abort), or gone.
FenceRead(c) ==
    /\ At(c, "fenceRead") /\ Calling(c) /\ Reads
    /\ LET id == lv[c].tr.id
           d == docs[id.from]
       IN CASE d = None -> Go(c, "goneDest", lv[c])
            [] d # None /\ d = id.src -> Go(c, "fence", lv[c])
            [] d # None /\ d # id.src /\ Sentinel(d, "fence", id) ->
                 Go(c, "dest", lv[c])
            [] OTHER -> Go(c, "abort", lv[c])

FenceSwap(c) ==
    /\ At(c, "fence") /\ Calling(c)
    /\ LET id == lv[c].tr.id
       IN IF docs[id.from] = id.src
          THEN /\ docs' = [docs EXCEPT ![id.from] = Stamp(@, "fence", id)]
               /\ fenced' = fenced \cup {id}
               /\ Go(c, "dest", lv[c])
          ELSE /\ UNCHANGED <<docs, fenced>>
               /\ Recovered(c, FALSE)
    /\ UNCHANGED <<record, marker, cancel, manifest, outcome, owners, holds>>

\* The source is gone: a destination that stands proves the move; a job found
\* under another prefix aborts it; a job no prefix holds is an error.
GoneDestination(c) ==
    /\ At(c, "goneDest") /\ Calling(c) /\ Reads
    /\ IF Live(lv[c].tr.id.to) THEN Go(c, "complete", lv[c])
                               ELSE Go(c, "goneProbe", [lv[c] EXCEPT !.k = 1])

\* Probe the prefixes one read at a time: Found when one holds the job, Lost
\* when none does.
Probe(c, order, Found, Lost) ==
    CASE lv[c].k = 6 -> Lost
      [] lv[c].k < 6 /\ Live(order[lv[c].k]) -> Found
      [] OTHER -> Go(c, pc[c], [lv[c] EXCEPT !.k = @ + 1])

GoneProbe(c) ==
    /\ At(c, "goneProbe") /\ Calling(c) /\ Reads
    /\ Probe(c, AllPrefixes, Go(c, "abort", lv[c]), Fail(c))

\* Mutant: a destination that already stands is taken for a lost write.
DestinationReadForever(c) ==
    /\ At(c, "dest") /\ Calling(c) /\ Reads
    /\ Go(c, "create", lv[c])

\* The destination: absent, a cleaned sentinel to write over, the version the
\* record pinned to replace, or a document that already stands.
DestinationRead(c) ==
    /\ At(c, "dest") /\ Calling(c) /\ Reads
    /\ LET tr == lv[c].tr
           d == docs[tr.id.to]
           l == [lv[c] EXCEPT !.dv = d]
       IN CASE d = None -> Go(c, "create", l)
            [] Cleaned(d) -> Go(c, "swap", l)
            [] d # None /\ d.st = tr.id.to ->
                 IF d = tr.dver /\ d # tr.id.dst THEN Go(c, "swap", l)
                                                 ELSE Go(c, "index", lv[c])
            [] OTHER -> Fail(c)

\* Write the destination over what c read there (nothing: create if absent);
\* a destination another writer changed meanwhile is read again.
DestinationWrite(c) ==
    /\ At(c, "create") \/ At(c, "swap")
    /\ Calling(c)
    /\ LET id == lv[c].tr.id
           l == [lv[c] EXCEPT !.dv = None]
       IN IF docs[id.to] = lv[c].dv
          THEN docs' = [docs EXCEPT ![id.to] = id.dst] /\ Go(c, "index", l)
          ELSE docs' = docs /\ Go(c, "dest", l)
    /\ UNCHANGED <<record, marker, cancel, manifest, outcome, fenced, owners, holds>>

\* Metadata of the destination, then the index marker of a requeued job.
DestinationIndex(c) ==
    /\ At(c, "index") /\ Calling(c)
    /\ IF docs[lv[c].tr.id.to] = None
       THEN marker' = marker /\ Fail(c)
       ELSE /\ marker' = (marker \/ lv[c].tr.id.to = "queue")
            /\ Go(c, "complete", lv[c])
    /\ UNCHANGED <<docs, record, cancel, manifest, outcome, fenced, owners, holds>>

\* set_transition_state: the record of c's generation takes state st.  The
\* state it holds is not looked at, only its id and its owner.
SameGeneration(c) ==
    record # None /\ record.id = lv[c].tr.id /\ record.owner = lv[c].tr.owner

SetState(c, st) ==
    /\ record' = IF SameGeneration(c) THEN [record EXCEPT !.state = st] ELSE record
    /\ UNCHANGED <<docs, marker, cancel, manifest, outcome, fenced, owners, holds>>

MarkCompleted(c) ==
    /\ At(c, "complete") /\ Calling(c)
    /\ SetState(c, "completed")
    /\ IF SameGeneration(c) THEN Go(c, "finish", lv[c]) ELSE Recovered(c, FALSE)

MarkAborted(c) ==
    /\ At(c, "abort") /\ Calling(c)
    /\ SetState(c, "aborted")
    /\ Recovered(c, FALSE)

-----------------------------------------------------------------------------
(***************************************************************************)
(* finish_completed_transition: keep the outcome, clean the source, retire *)
(* the record.                                                             *)
(***************************************************************************)

FinishDestination(c) ==
    /\ At(c, "finish") /\ Calling(c) /\ Reads
    /\ LET to == lv[c].tr.id.to
       IN IF Live(to)
          THEN Go(c, "finishSource", [lv[c] EXCEPT !.dv = docs[to], !.ans = TRUE])
          ELSE Go(c, "finishProbe", [lv[c] EXCEPT !.k = 1])

\* The job left this destination: a record with nothing left to finish.
FinishProbe(c) ==
    /\ At(c, "finishProbe") /\ Calling(c) /\ Reads
    /\ Probe(c, AllPrefixes, Go(c, "retire", lv[c]), Fail(c))

FinishSource(c) ==
    /\ At(c, "finishSource") /\ Calling(c) /\ Reads
    /\ LET id == lv[c].tr.id
           d == docs[id.from]
       IN Go(c, CASE d = None \/ Sentinel(d, "cleaned", id) -> "retire"
                  [] id.to \in Terminal -> "outcome"
                  [] OTHER -> "clean", lv[c])

\* Mutant: another outcome already retained does not refuse this one, and is
\* kept.
RecordOutcomeAnyway(c) ==
    /\ At(c, "outcome") /\ Calling(c)
    /\ outcome' = IF manifest = "present" /\ outcome = None THEN lv[c].dv ELSE outcome
    /\ Go(c, "clean", lv[c])
    /\ UNCHANGED <<docs, record, marker, cancel, manifest, fenced, owners, holds>>

\* record_terminal_outcome: retained once; another outcome already retained,
\* or a manifest this build cannot read, leaves the source fenced.
RecordOutcome(c) ==
    /\ At(c, "outcome") /\ Calling(c)
    /\ LET refused == \/ manifest = "unreadable"
                      \/ manifest = "present" /\ outcome \notin {None, lv[c].dv}
       IN /\ outcome' = IF manifest = "present" /\ ~refused THEN lv[c].dv ELSE outcome
          /\ IF refused THEN Recovered(c, FALSE) ELSE Go(c, "clean", lv[c])
    /\ UNCHANGED <<docs, record, marker, cancel, manifest, fenced, owners, holds>>

\* retire_transition_source: from queue/ the marker goes before the source is
\* marked cleaned; the swap that loses reads again.
CleanSource(c) ==
    /\ At(c, "clean") /\ Calling(c)
    /\ LET id == lv[c].tr.id
           d == docs[id.from]
       IN CASE ~Sentinel(d, "fence", id) -> docs' = docs /\ Go(c, "retire", lv[c])
            [] Sentinel(d, "fence", id) /\ id.from = "queue" ->
                 docs' = docs /\ Go(c, "unmark", lv[c])
            [] OTHER -> /\ docs' = [docs EXCEPT ![id.from] = Stamp(@, "cleaned", id)]
                        /\ Go(c, "retire", lv[c])
    /\ UNCHANGED <<record, marker, cancel, manifest, outcome, fenced, owners, holds>>

Unmark(c) ==
    /\ At(c, "unmark") /\ Calling(c)
    /\ marker' = FALSE
    /\ Go(c, "cleanSwap", lv[c])
    /\ UNCHANGED <<docs, record, cancel, manifest, outcome, fenced, owners, holds>>

CleanSwap(c) ==
    /\ At(c, "cleanSwap") /\ Calling(c)
    /\ LET id == lv[c].tr.id
       IN IF Sentinel(docs[id.from], "fence", id)
          THEN /\ docs' = [docs EXCEPT ![id.from] = Stamp(@, "cleaned", id)]
               /\ Go(c, "retire", lv[c])
          ELSE docs' = docs /\ Go(c, "clean", lv[c])
    /\ UNCHANGED <<record, marker, cancel, manifest, outcome, fenced, owners, holds>>

\* retire_transition_record: completed becomes retired, this generation only;
\* a generation found neither completed nor retired is an error.
RetireRecord(c) ==
    /\ At(c, "retire") /\ Calling(c)
    /\ LET mine == SameGeneration(c) /\ record.state # "retired"
       IN /\ record' = IF mine /\ record.state = "completed"
                       THEN [record EXCEPT !.state = "retired"] ELSE record
          /\ IF mine /\ record.state # "completed" THEN Fail(c)
                                                   ELSE Recovered(c, lv[c].ans)
    /\ UNCHANGED <<docs, marker, cancel, manifest, outcome, fenced, owners, holds>>

RecoverStep(c) ==
    \/ RecoverRecord(c) \/ AbortedDestination(c) \/ AbortedSource(c)
    \/ FenceRead(c) \/ FenceSwap(c) \/ GoneDestination(c) \/ GoneProbe(c)
    \/ DestinationRead(c) \/ DestinationWrite(c) \/ DestinationIndex(c)
    \/ MarkCompleted(c) \/ MarkAborted(c)
    \/ FinishDestination(c) \/ FinishProbe(c) \/ FinishSource(c)
    \/ RecordOutcome(c) \/ CleanSource(c) \/ Unmark(c) \/ CleanSwap(c)
    \/ RetireRecord(c)

-----------------------------------------------------------------------------
(***************************************************************************)
(* transition_job_if_version: derive the destination from a fresh source   *)
(* read, install the durable record, let recovery carry it out.            *)
(***************************************************************************)

\* Mutant: the move is not pinned to the version its caller decided on.
PrepareSourceUnpinned(c) ==
    /\ At(c, "source") /\ Calling(c) /\ Reads
    /\ LET d == docs[lv[c].rq.from]
       IN CASE d = None -> Go(c, "moved", lv[c])
            [] d # None /\ d.st # lv[c].rq.from -> CallRecover(c, lv[c], "refuse")
            [] OTHER -> Go(c, "basis", [lv[c] EXCEPT !.src = d])

\* The source: gone (answered by what the destination holds), another
\* generation than the caller decided on, not live, or the one to move.
PrepareSource(c) ==
    /\ At(c, "source") /\ Calling(c) /\ Reads
    /\ LET q == lv[c].rq
           d == docs[q.from]
       IN CASE d = None -> Go(c, "moved", lv[c])
            [] d # None /\ q.exp \notin {None, d} -> Answer(c, FALSE)
            [] d # None /\ q.exp \in {None, d} /\ d.st # q.from ->
                 CallRecover(c, lv[c], "refuse")
            [] OTHER -> Go(c, "basis", [lv[c] EXCEPT !.src = d])

PrepareMoved(c) ==
    /\ At(c, "moved") /\ Calling(c) /\ Reads
    /\ Answer(c, Live(lv[c].rq.to))

\* The destination as it stands decides what the new document is built on.
PrepareBasis(c) ==
    /\ At(c, "basis") /\ Calling(c) /\ Reads
    /\ LET q == lv[c].rq
           d == docs[q.to]
           Candidate(basis, dver) ==
               [id |-> [from |-> q.from, to |-> q.to, src |-> lv[c].src,
                        dst |-> Merge(lv[c].src, basis, q.from, q.to)],
                owner |-> 0, dver |-> dver, state |-> "prepared"]
       IN CASE d = None \/ Cleaned(d) ->
                 Go(c, "prepare", [lv[c] EXCEPT !.src = None, !.cand = Candidate(q, d)])
            [] d # None /\ d.st = q.to ->
                 Go(c, "prepare", [lv[c] EXCEPT !.src = None, !.cand = Candidate(d, d)])
            [] OTHER -> Fail(c)

\* A prepared record is recovered first; seeing the same one twice refuses.
PrepareRecord(c) ==
    /\ At(c, "prepare") /\ Calling(c) /\ Reads
    /\ IF record # None /\ record.state = "prepared"
       THEN IF lv[c].seen = record
            THEN Fail(c)
            ELSE CallRecover(c, [lv[c] EXCEPT !.seen = record, !.cand = None], "loop")
       ELSE Go(c, "install", [lv[c] EXCEPT !.rv = record])

\* Create the record, or replace the settled one that was read.
Install(c) ==
    /\ At(c, "install") /\ Calling(c)
    /\ LET l == [lv[c] EXCEPT !.cand = None, !.rv = None]
       IN IF record = lv[c].rv
          THEN /\ owners' = owners + 1
               /\ record' = [lv[c].cand EXCEPT !.owner = owners + 1]
               /\ CallRecover(c, l, "answer")
          ELSE /\ UNCHANGED <<owners, record>>
               /\ CallRecover(c, l, "source")
    /\ UNCHANGED <<docs, marker, cancel, manifest, outcome, fenced, holds>>

PrepareStep(c) ==
    PrepareSource(c) \/ PrepareMoved(c) \/ PrepareBasis(c)
    \/ PrepareRecord(c) \/ Install(c)

-----------------------------------------------------------------------------
(***************************************************************************)
(* The operations.                                                         *)
(***************************************************************************)

\* Client c starts operation op at call p, remembering l.
Start(c, op, p, l) ==
    /\ At(c, "idle") /\ op \in Ops[c] /\ left[c] > 0
    /\ left' = [left EXCEPT ![c] = @ - 1]
    /\ Go(c, p, [l EXCEPT !.op = op])
    /\ UNCHANGED <<now, owners, crashes>>

StartRecovering(c, op) == Start(c, op, "record", [Fresh EXCEPT !.ret = "body"])

\* A worker that holds nothing picks the job from its listing of queue/.
StartClaim(c) ==
    /\ ~holds[c] /\ Live("queue")
    /\ Start(c, "claim", "record",
             [Fresh EXCEPT !.ret = "body", !.want = docs["queue"].rev])
    /\ UNCHANGED <<store, holds>>

\* take_back: a worker whose workload still runs finds its job put back in the
\* queue and claims it again, starting nothing.
StartTakeBack(c) ==
    /\ holds[c] /\ ~Live("running") /\ Live("queue")
    /\ Start(c, "claim", "record",
             [Fresh EXCEPT !.ret = "body", !.want = docs["queue"].rev])
    /\ UNCHANGED <<store, holds>>

\* The workload exited: move_job from running/, pinned to no version.
StartFinish(c) ==
    /\ holds[c]
    /\ \E to \in {"completed", "failed"} :
         Start(c, "finish", "record",
               [Fresh EXCEPT !.ret = "source",
                  !.rq = [from |-> "running", to |-> to, exp |-> None,
                          lease |-> 0, by |-> c, restarts |-> 0, lost |-> FALSE]])
    /\ UNCHANGED <<store, holds>>

\* A submission, or the replay of one, admits the planned job.
StartAdmit(c) ==
    /\ \E r \in Placements :
         Start(c, "admit", "record", [Fresh EXCEPT !.ret = "body", !.want = r])
    /\ UNCHANGED <<store, holds>>

StartReap(c) == StartRecovering(c, "reap") /\ UNCHANGED <<store, holds>>
StartSettle(c) == StartRecovering(c, "settle") /\ UNCHANGED <<store, holds>>
StartRewrite(c) == StartRecovering(c, "rewrite") /\ UNCHANGED <<store, holds>>

\* Mutant: the sweep takes a fence for a cleaned sentinel.
StartSweepAnySentinel(c) ==
    /\ \E p \in {"queue", "running"} :
         /\ docs[p] # None /\ docs[p].st # p
         /\ Start(c, "sweep", "delete", [Fresh EXCEPT !.dv = docs[p]])
    /\ UNCHANGED <<store, holds>>

StartSweep(c) ==
    /\ \E p \in {"queue", "running"} :
         /\ Cleaned(docs[p])
         /\ Start(c, "sweep", "sweep", [Fresh EXCEPT !.dv = docs[p]])
    /\ UNCHANGED <<store, holds>>

\* fence_cancellation: the request is durable before anything moves.
StartCancel(c) ==
    /\ \E p \in Prefix : Live(p)
    /\ Start(c, "cancel", "lookup", Fresh)
    /\ cancel' = TRUE
    /\ UNCHANGED <<docs, record, marker, manifest, outcome, fenced, holds>>

\* claim_queued_job after its recovery: the queued body must be the one the
\* worker listed, and due.
ClaimBody(c) ==
    /\ At(c, "body") /\ lv[c].op = "claim" /\ Calling(c) /\ Reads
    /\ IF Live("queue") /\ AssignedTo[docs["queue"].rev] = AssignedTo[lv[c].want]
          /\ NotBefore[docs["queue"].rev] <= now
       THEN Go(c, "check", [lv[c] EXCEPT !.dv = docs["queue"], !.want = None])
       ELSE Idle(c)

Cancelled == cancel \/ docs["cancelled"] # None

\* Mutant: the lease is counted back from now.
ClaimCheckBackdated(c) ==
    /\ At(c, "check") /\ Calling(c) /\ Reads
    /\ CallTransition(c, [from |-> "queue", to |-> "running", exp |-> lv[c].dv,
                          lease |-> now - Promise, by |-> c,
                          restarts |-> 0, lost |-> FALSE])

ClaimCheck(c) ==
    /\ At(c, "check") /\ Calling(c) /\ Reads
    /\ IF Cancelled
       THEN Idle(c)
       ELSE CallTransition(c, [from |-> "queue", to |-> "running", exp |-> lv[c].dv,
                               lease |-> now + Promise, by |-> c,
                               restarts |-> 0, lost |-> FALSE])

\* The move answered true; a cancellation that landed meanwhile still wins.
ClaimRecheck(c) ==
    /\ At(c, "recheck") /\ Calling(c)
    /\ holds' = [holds EXCEPT ![c] = @ \/ ~Cancelled]
    /\ Idle(c)
    /\ UNCHANGED <<store, owners>>

\* The heartbeat task of a slot (renew_running_lease): it runs beside the
\* agent's own calls and may land once more while the slot is finishing.
Renew(c) ==
    /\ holds[c] /\ Live("running")
    /\ docs["running"].lease < now + Promise
    /\ docs' = [docs EXCEPT !["running"].lease = now + Promise]
    /\ UNCHANGED <<record, marker, cancel, manifest, outcome, fenced, now, owners,
                   pc, lv, holds, left, crashes>>

\* After the terminal move: true, or the job already terminal, ends the slot;
\* otherwise the worker keeps it and tries again.
FinishSettled(c) ==
    /\ At(c, "settled") /\ Calling(c)
    /\ holds' = [holds EXCEPT ![c] = ~(lv[c].ans \/ \E p \in Terminal : Live(p))]
    /\ Idle(c)
    /\ UNCHANGED <<store, owners>>

\* job_liveness at the clock: only a promise that passed is lapsed.
Lapsed(d) == d.lease > 0 /\ d.lease <= now

\* restart_refusal: a loss ends the job at once when its submitter starts every
\* launch itself, otherwise when the same loss has put it back before.
RestartRefused(d) == SubmitterRestarts[d.rev] \/ d.lost

\* settle: a self-terminating job is completed, by a move pinned to no version;
\* verified release output (external, so it may be found or not) completes
\* another one; the rest is failed or put back.
ReapSettle(c, d) ==
    LET Move(to, exp, by, restarts, lost) ==
            CallTransition(c, [from |-> "running", to |-> to, exp |-> exp,
                               lease |-> 0, by |-> by, restarts |-> restarts,
                               lost |-> lost])
    IN IF SelfTerminating[d.rev]
       THEN Move("completed", None, None, d.restarts, d.lost)
       ELSE \/ Move("completed", d, d.by, d.restarts, FALSE)
            \/ RestartRefused(d) /\ Move("failed", d, d.by, d.restarts, TRUE)
            \/ ~RestartRefused(d) /\ Move("queue", d, None, d.restarts + 1, TRUE)

\* reap_one.  A pulse or checkpoint newer than the promise keeps the job
\* (external, so a live document may be left alone).
ReapBody(c) ==
    /\ At(c, "body") /\ lv[c].op = "reap" /\ Calling(c) /\ Reads
    /\ LET d == docs["running"]
       IN \/ d = None /\ Idle(c)
          \/ d # None /\ d.st # "running" /\ CallRecover(c, lv[c], "end")
          \/ Live("running") /\ Idle(c)
          \/ Live("running") /\ Lapsed(d) /\ ReapSettle(c, d)

\* settle_queued_cancellations for this job.
SettleBody(c) ==
    /\ At(c, "body") /\ lv[c].op = "settle" /\ Calling(c) /\ Reads
    /\ IF Live("queue") /\ cancel
       THEN CallTransition(c, [from |-> "queue", to |-> "cancelled",
                               exp |-> docs["queue"], lease |-> 0, by |-> None,
                               restarts |-> 0, lost |-> FALSE])
       ELSE Idle(c)

\* rewrite_queued_job: compare-and-swap of a queued body, nothing else.
RewriteBody(c) ==
    /\ At(c, "body") /\ lv[c].op = "rewrite" /\ Calling(c)
    /\ IF Live("queue")
       THEN \E r \in Placements : docs' = [docs EXCEPT !["queue"].rev = r]
       ELSE docs' = docs
    /\ Idle(c)
    /\ UNCHANGED <<record, marker, cancel, manifest, outcome, fenced, owners, holds>>

\* cancel_job: the lookup after the fence finds the job terminal (nothing to
\* do), queued or running, or misses it.
CancelLookup(c) ==
    /\ At(c, "lookup") /\ Calling(c) /\ Reads
    /\ LET p == JobPrefixes[lv[c].k]
       IN Probe(c, JobPrefixes,
                IF p \in Terminal
                THEN Idle(c)
                ELSE CallTransition(c, [from |-> p, to |-> "cancelled", exp |-> None,
                                        lease |-> 0, by |-> None, restarts |-> 0,
                                        lost |-> FALSE]),
                Idle(c))

\* The queued move lost: a claim may have won, so follow it into running/.
CancelFollow(c) ==
    /\ At(c, "follow") /\ Calling(c) /\ Reads
    /\ IF Live("running")
       THEN CallTransition(c, [from |-> "running", to |-> "cancelled", exp |-> None,
                               lease |-> 0, by |-> None, restarts |-> 0,
                               lost |-> FALSE])
       ELSE Idle(c)

\* create_queued_job_if_absent after its recovery.  A record, even a retired
\* one, refuses: the job was admitted before, wherever it is now.
AdmitProbe(c) ==
    /\ At(c, "admit") /\ Calling(c) /\ Reads
    /\ Probe(c, JobPrefixes, Go(c, "admitRecord", [lv[c] EXCEPT !.ans = TRUE, !.k = 1]),
             Go(c, "admitRecord", [lv[c] EXCEPT !.k = 1]))

AdmitRecord(c) ==
    /\ At(c, "admitRecord") /\ Calling(c) /\ Reads
    /\ IF record # None \/ lv[c].ans THEN Idle(c) ELSE Go(c, "admitMark", lv[c])

\* The marker goes before the document; a create that lost to a generation
\* that has left queue/ takes the marker back.
AdmitMark(c) ==
    /\ At(c, "admitMark") /\ Calling(c)
    /\ marker' = TRUE
    /\ Go(c, "admitCreate", lv[c])
    /\ UNCHANGED <<docs, record, cancel, manifest, outcome, fenced, owners, holds>>

AdmitCreate(c) ==
    /\ At(c, "admitCreate") /\ Calling(c)
    /\ IF docs["queue"] = None
       THEN docs' = [docs EXCEPT !["queue"] = Queued(lv[c].want)] /\ Idle(c)
       ELSE docs' = docs /\ Go(c, "admitCheck", lv[c])
    /\ UNCHANGED <<record, marker, cancel, manifest, outcome, fenced, owners, holds>>

\* Mutant: a lost create takes the marker back whatever queue/ holds.
AdmitCheckUnmarks(c) ==
    /\ At(c, "admitCheck") /\ Calling(c)
    /\ marker' = FALSE
    /\ Idle(c)
    /\ UNCHANGED <<docs, record, cancel, manifest, outcome, fenced, owners, holds>>

AdmitCheck(c) ==
    /\ At(c, "admitCheck") /\ Calling(c)
    /\ marker' = (marker /\ docs["queue"] # None)
    /\ Idle(c)
    /\ UNCHANGED <<docs, record, cancel, manifest, outcome, fenced, owners, holds>>

\* job_is_settled_terminal, then the unconditional delete of the sentinel.
SweepJudge(c) ==
    /\ At(c, "sweep") /\ Calling(c) /\ Reads
    /\ IF IF record = None THEN \E p \in Terminal : Live(p)
          ELSE record.state = "retired" /\ record.id.to \in Terminal
       THEN Go(c, "delete", lv[c])
       ELSE Idle(c)

SweepDelete(c) ==
    /\ At(c, "delete") /\ Calling(c)
    /\ docs' = [docs EXCEPT ![lv[c].dv.id.from] = None]
    /\ Idle(c)
    /\ UNCHANGED <<record, marker, cancel, manifest, outcome, fenced, owners, holds>>

StartStep(c) ==
    \/ StartAdmit(c) \/ StartClaim(c) \/ StartTakeBack(c) \/ StartFinish(c)
    \/ StartReap(c) \/ StartCancel(c)
    \/ StartSettle(c) \/ StartRewrite(c) \/ StartSweep(c)

BodyStep(c) ==
    \/ ClaimBody(c) \/ ClaimCheck(c) \/ ClaimRecheck(c) \/ Renew(c)
    \/ FinishSettled(c) \/ ReapBody(c) \/ SettleBody(c) \/ RewriteBody(c)
    \/ CancelLookup(c) \/ CancelFollow(c) \/ SweepJudge(c) \/ SweepDelete(c)
    \/ AdmitProbe(c) \/ AdmitRecord(c) \/ AdmitMark(c) \/ AdmitCreate(c)
    \/ AdmitCheck(c)

\* The process dies between two storage calls and comes back knowing nothing.
Crash(c) ==
    /\ crashes < MaxCrashes
    /\ pc[c] # "idle" \/ holds[c]
    /\ crashes' = crashes + 1
    /\ Idle(c)
    /\ holds' = [holds EXCEPT ![c] = FALSE]
    /\ UNCHANGED <<store, now, owners, left>>

Tick ==
    /\ now < MaxTime
    /\ now' = now + 1
    /\ UNCHANGED <<store, owners, pc, lv, holds, left, crashes>>

Step(c) == RecoverStep(c) \/ PrepareStep(c) \/ BodyStep(c)

Next == Tick \/ \E c \in Clients : StartStep(c) \/ Step(c) \/ Crash(c)

Spec == Init /\ [][Next]_vars

\* A client that runs is scheduled: every storage call it makes returns.
FairSpec == Spec /\ \A c \in Clients : WF_vars(Step(c))

-----------------------------------------------------------------------------
\* Type correctness of the documents, the record and what clients remember.
TypeOK ==
    /\ docs \in [Prefix -> Doc \cup {None}]
    /\ record \in Record \cup {None}
    /\ marker \in BOOLEAN /\ cancel \in BOOLEAN
    /\ manifest \in {"present", "gone", "unreadable"}
    /\ outcome \in LiveDoc \cup {None}
    /\ now \in Nat /\ owners \in Nat /\ crashes \in Nat
    /\ pc \in [Clients -> PCs]
    /\ lv \in [Clients -> Locals]
    /\ holds \in [Clients -> BOOLEAN]
    /\ left \in [Clients -> Nat]
    /\ fenced \subseteq TransitionId

\* A document stands under a prefix the job moved into only when the source
\* fence of a transition that promised it landed: same worker, same placement
\* (mutations.rs move_job: "No destination is created until the exact source
\* generation has been fenced").
DestinationAfterFence ==
    \A p \in Prefix \ {"queue"} :
        docs[p] # None =>
            \E id \in fenced : /\ id.to = p
                               /\ id.dst.by = docs[p].by
                               /\ id.dst.rev = docs[p].rev

\* The job is never lost, wherever a client died: some prefix holds it live,
\* or a fence stands whose transition record is there for recovery to finish
\* (recover.rs recover_job_transition).
NeverLost ==
    \/ \E p \in Prefix : Live(p)
    \/ /\ record # None /\ record.state \in {"prepared", "completed"}
       /\ Sentinel(docs[record.id.from], "fence", record.id)

\* The moves a reaper takes a job from its worker by, each pinned to the lease
\* it judged: the requeue, and the failure for a second lost lease (where a
\* lost job already stands in failed/, every move there carries the reason on).
Reaped(id) ==
    /\ id.from = "running"
    /\ id.to = "queue" \/ (id.to = "failed" /\ id.dst.lost /\ ~Live("failed"))

\* A reaper takes a running document only when the promise inside the very
\* document it fences has passed: a renewal that lands after the reaper read
\* the lease makes its move lose (claims.rs renew_running_lease, expiry.rs).
\* The completion of a self-terminating job is not pinned.
LiveLeaseNeverReaped ==
    [][\A id \in fenced' \ fenced : Reaped(id) => Lapsed(docs["running"])]_vars

\* A source is marked cleaned towards a terminal prefix only after the run
\* manifest, when there is one, retains that very outcome (retire.rs
\* finish_completed_transition calls record_terminal_outcome first).
OutcomeBeforeCleaning ==
    \A p \in Prefix :
        (Cleaned(docs[p]) /\ docs[p].id.to \in Terminal /\ manifest = "present")
            => outcome # None /\ outcome.st = docs[p].id.to

\* A job goes back to the queue for a lapsed lease once; the second loss of
\* the same kind fails it (expiry.rs settle, Job::restart_refusal).
RequeuedOnce == \A p \in Prefix : docs[p] # None => docs[p].restarts <= 1

\* A job that placement holds to a later hour is not moved to running/ before
\* it, even when the placement is rewritten after the claim checked it
\* (claims.rs claim_queued_job).
NotClaimedEarly == Live("running") => NotBefore[docs["running"].rev] <= now

\* Two workers never execute the job while its first lease still holds
\* (claims.rs claim_queued_job answers true to one worker).
OneHolder == Cardinality({c \in Clients : holds[c]}) <= 1

\* A queued job is never observable without its index marker while it is
\* admitted, replayed and claimed (admission.rs, listing/mod.rs).
IndexedFromAdmission == Live("queue") => marker

\* Every call answers: the retry loops of preparation and recovery end once
\* the writers they lose to are done (prepare.rs, recover.rs).
CallsReturn == \A c \in Clients : pc[c] # "idle" ~> pc[c] = "idle"
=============================================================================
