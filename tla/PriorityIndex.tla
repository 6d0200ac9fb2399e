---------------------------- MODULE PriorityIndex ----------------------------
(***************************************************************************)
(* The priority index entries of ONE job (src/stado-rs/src/queue/listing,  *)
(* queue/migrations): the markers under queue_priority/, one per priority  *)
(* the job has had, the calls that write and remove them beside the job's  *)
(* queue document, and the sweep that repairs them on every tick.          *)
(*                                                                         *)
(* A marker's name is a function of the job's priority and creation time,  *)
(* and only the marker of the current priority admits the job to a walk.   *)
(* A compare-and-swap loop is one step, the swap that lands; every other   *)
(* call to the store is a step of its own, and a caller may die between    *)
(* any two.  The moves of the job are those of JobTransition, reduced to   *)
(* what they do to its queue document and its marker.                      *)
(***************************************************************************)
EXTENDS Integers

CONSTANTS
    Callers,     \* submissions, re-prioritisations and finishers of moves
    Sweepers,    \* ticks that run the backfill, again and again
    Prios,       \* priorities
    MaxCalls,    \* calls that are begun (bound)
    MaxMoves,    \* moves of the job out of queue/ (bound)
    MaxCrashes,  \* calls and sweeps that die (bound)
    None

Actors == Callers \cup Sweepers

ASSUME IndexAssumption ==
    /\ Callers \cap Sweepers = {} /\ None \notin Prios
    /\ MaxCalls \in Nat /\ MaxMoves \in Nat /\ MaxCrashes \in Nat

VARIABLES
    doc,      \* queue/<job>.json: its state and the job's priority
    moves,    \* moves out of queue/, the generation of the document
    owed,     \* the priority a requeue has written the document with, while
              \* it has not yet written its marker
    markers,  \* the priorities the job has a marker for
    pc,       \* pc[a]: the next call of actor a
    key,      \* key[a]: the priority a acts for
    at,       \* at[a]: the generation a read
    plan,     \* plan[a]: the markers a listed and has still to delete
    alone,    \* no two calls have been in progress at once
    unkeyed,  \* the priority was rewritten, and no marker written since
    calls, crashes

actors == <<pc, key, at, plan>>
vars == <<doc, moves, owed, markers, actors, alone, unkeyed, calls, crashes>>

TypeOK ==
    /\ doc \in [state: {"new", "queued", "fenced", "cleaned", "swept"}, prio: Prios]
    /\ moves \in Nat /\ owed \in Prios \cup {None}
    /\ markers \in SUBSET Prios
    /\ pc \in [Actors -> {"idle", "admit", "create", "swap", "present", "rekey",
                          "scan", "drop", "replay", "check", "unmark", "clean",
                          "names", "body", "missing", "prune"}]
    /\ key \in [Actors -> Prios \cup {None}]
    /\ at \in [Actors -> Nat]
    /\ plan \in [Actors -> SUBSET Prios]
    /\ alone \in BOOLEAN /\ unkeyed \in BOOLEAN /\ calls \in Nat /\ crashes \in Nat

Init ==
    /\ doc \in [state: {"new"}, prio: Prios]
    /\ moves = 0 /\ owed = None
    /\ markers = {}
    /\ pc = [a \in Actors |-> "idle"]
    /\ key = [a \in Actors |-> None]
    /\ at = [a \in Actors |-> 0]
    /\ plan = [a \in Actors |-> {}]
    /\ alone = TRUE /\ unkeyed = FALSE /\ calls = 0 /\ crashes = 0

-----------------------------------------------------------------------------
\* Building blocks

Queued == doc.state = "queued"

\* backend.exists: a fenced or cleaned document is there too.
Exists == doc.state \notin {"new", "swept"}

Go(a, p) == pc' = [pc EXCEPT ![a] = p]

\* Actor a goes on at p for priority k.
Act(a, p, k) == Go(a, p) /\ key' = [key EXCEPT ![a] = k]

\* A call or a move begins; it runs alone if no other is under way.
Alone == alone' = (alone /\ owed = None /\ \A b \in Actors : pc[b] = "idle")

Begin(a) == pc[a] = "idle" /\ Alone

Call(c) == Begin(c) /\ calls < MaxCalls /\ calls' = calls + 1

-----------------------------------------------------------------------------
\* Submission

\* create_queued_job_if_absent: the marker first, then the document.
Admit(c) ==
    /\ Call(c) /\ doc.state = "new"
    /\ Act(c, "admit", doc.prio)
    /\ UNCHANGED <<doc, moves, owed, markers, at, plan, unkeyed, crashes>>

\* A create that finds a document goes on to see whether it is still there;
\* one that finds none, be it swept meanwhile, creates the planned job.
Create(c) ==
    /\ pc[c] = "create"
    /\ IF Exists THEN doc' = doc /\ Act(c, "check", key[c])
       ELSE doc' = [state |-> "queued", prio |-> key[c]] /\ Act(c, "idle", None)
    /\ UNCHANGED <<moves, owed, markers, at, plan, alone, unkeyed, calls,
                   crashes>>

\* repair_queued_admission_metadata, the replay of a submission.
Repair(c) ==
    /\ Call(c) /\ Queued
    /\ Act(c, "replay", doc.prio)
    /\ UNCHANGED <<doc, moves, owed, markers, at, plan, unkeyed, crashes>>

-----------------------------------------------------------------------------
\* update_queued_priority

\* rewrite_queued_job recovers first: a requeue it meets gets its marker.
Rewrite(c, k) ==
    /\ Call(c) /\ doc.state # "new"
    /\ markers' = IF owed = None THEN markers ELSE markers \cup {doc.prio}
    /\ owed' = None /\ unkeyed' = (unkeyed /\ owed = None)
    /\ Act(c, "swap", k)
    /\ UNCHANGED <<doc, moves, at, plan, crashes>>

\* The swap that lands; the job may have moved, or come back, since the
\* recovery.
Swap(c) ==
    /\ pc[c] = "swap"
    /\ IF Queued
       THEN doc' = [doc EXCEPT !.prio = key[c]] /\ unkeyed' = TRUE /\ Go(c, "present")
       ELSE UNCHANGED <<doc, unkeyed>> /\ Go(c, "scan")
    /\ key' = IF Queued THEN key ELSE [key EXCEPT ![c] = None]
    /\ UNCHANGED <<moves, owed, markers, at, plan, alone, calls, crashes>>

\* Mutant of Present: a job that is gone is marked under its empty key.
PresentIgnored(c) ==
    /\ pc[c] = "present"
    /\ Act(c, "rekey", IF Exists THEN key[c] ELSE None)
    /\ UNCHANGED <<doc, moves, owed, markers, at, plan, alone, unkeyed, calls,
                   crashes>>

\* The document may have gone by the time the rewrite returns.
Present(c) ==
    /\ pc[c] = "present"
    /\ IF Exists THEN Act(c, "rekey", key[c]) ELSE Act(c, "scan", None)
    /\ UNCHANGED <<doc, moves, owed, markers, at, plan, alone, unkeyed, calls,
                   crashes>>

\* write_marker; an admission goes on with the document, a re-key with the
\* superseded markers, a replay with the document's existence.
Mark(c) ==
    /\ pc[c] \in {"admit", "rekey", "replay"}
    /\ markers' = markers \cup {key[c]}
    /\ unkeyed' = FALSE
    /\ Go(c, CASE pc[c] = "admit" -> "create"
               [] pc[c] = "rekey" -> "scan"
               [] pc[c] = "replay" -> "check")
    /\ UNCHANGED <<doc, moves, owed, key, at, plan, alone, calls, crashes>>

\* Mutant of Scan: the marker just written is not excepted.
ScanEvery(c) ==
    /\ pc[c] = "scan"
    /\ plan' = [plan EXCEPT ![c] = markers]
    /\ Go(c, "drop")
    /\ UNCHANGED <<doc, moves, owed, markers, key, at, alone, unkeyed, calls,
                   crashes>>

\* delete_markers_scanning: the index is listed, then each other marker goes.
Scan(c) ==
    /\ pc[c] = "scan"
    /\ plan' = [plan EXCEPT ![c] = markers \ {key[c]}]
    /\ Go(c, "drop")
    /\ UNCHANGED <<doc, moves, owed, markers, key, at, alone, unkeyed, calls,
                   crashes>>

\* Deleting one listed marker, or none is left.
Deletes(a, next) ==
    /\ \/ \E m \in plan[a] :
            /\ markers' = markers \ {m}
            /\ plan' = [plan EXCEPT ![a] = @ \ {m}]
            /\ UNCHANGED <<pc, key>>
       \/ /\ plan[a] = {}
          /\ next
          /\ UNCHANGED <<markers, plan>>
    /\ UNCHANGED <<doc, moves, owed, at, alone, unkeyed, calls,
                   crashes>>

Drop(c) ==
    /\ pc[c] = "drop" /\ c \in Callers
    /\ Deletes(c, IF key[c] = None THEN Act(c, "idle", None) ELSE Act(c, "check", key[c]))

\* A document that left meanwhile takes the marker just written with it.
Check(c) ==
    /\ pc[c] = "check"
    /\ markers' = IF Exists THEN markers ELSE markers \ {key[c]}
    /\ Act(c, "idle", None)
    /\ UNCHANGED <<doc, moves, owed, at, plan, alone, unkeyed, calls,
                   crashes>>

-----------------------------------------------------------------------------
\* Moves of the job

\* A move out of queue/ fences the document.
Fence ==
    /\ Queued /\ owed = None /\ moves < MaxMoves
    /\ doc' = [doc EXCEPT !.state = "fenced"]
    /\ moves' = moves + 1
    /\ Alone
    /\ UNCHANGED <<owed, markers, actors, unkeyed, calls, crashes>>

\* retire_transition_source, by the mover or by whoever recovers the move.
Finish(c) ==
    /\ Call(c) /\ doc.state = "fenced"
    /\ Act(c, "unmark", doc.prio)
    /\ at' = [at EXCEPT ![c] = moves]
    /\ UNCHANGED <<doc, moves, owed, markers, plan, unkeyed, crashes>>

Unmark(c) ==
    /\ pc[c] = "unmark"
    /\ markers' = markers \ {key[c]}
    /\ Go(c, "clean")
    /\ UNCHANGED <<doc, moves, owed, key, at, plan, alone, unkeyed, calls,
                   crashes>>

Clean(c) ==
    /\ pc[c] = "clean"
    /\ doc' = IF doc.state = "fenced" /\ moves = at[c]
              THEN [doc EXCEPT !.state = "cleaned"] ELSE doc
    /\ Act(c, "idle", None)
    /\ at' = [at EXCEPT ![c] = 0]
    /\ UNCHANGED <<moves, owed, markers, plan, alone, unkeyed, calls,
                   crashes>>

\* A move back into queue/ writes the document, then its marker.
Requeue ==
    /\ doc.state = "cleaned"
    /\ doc' = [doc EXCEPT !.state = "queued"]
    /\ owed' = doc.prio
    /\ Alone
    /\ UNCHANGED <<moves, markers, actors, unkeyed, calls, crashes>>

\* The mover marks the body it wrote, a recovery the one it reads.
RequeueMark ==
    /\ owed # None
    /\ \E k \in {owed, doc.prio} : markers' = markers \cup {k}
    /\ owed' = None /\ unkeyed' = FALSE
    /\ UNCHANGED <<doc, moves, actors, alone, calls, crashes>>

\* retire_settled_sentinels, once the job is terminal.
Sweep ==
    /\ doc.state = "cleaned"
    /\ doc' = [doc EXCEPT !.state = "swept"]
    /\ UNCHANGED <<moves, owed, markers, actors, alone, unkeyed, calls, crashes>>

-----------------------------------------------------------------------------
\* backfill_priority_markers

\* Markers are listed first, then the names under queue/.
ListMarkers(w) ==
    /\ w \in Sweepers /\ Begin(w)
    /\ plan' = [plan EXCEPT ![w] = markers]
    /\ Go(w, "names")
    /\ UNCHANGED <<doc, moves, owed, markers, key, at, unkeyed, calls,
                   crashes>>

ListNames(w) ==
    /\ pc[w] = "names"
    /\ Go(w, IF Exists THEN "body" ELSE "prune")
    /\ UNCHANGED <<doc, moves, owed, markers, key, at, plan, alone, unkeyed, calls, crashes>>

\* Mutant of ReadBody: a marker of the job, whatever its key, is its marker.
ReadBodyAnyKey(w) ==
    /\ pc[w] = "body"
    /\ IF Queued /\ plan[w] = {} THEN Act(w, "missing", doc.prio)
       ELSE Act(w, "idle", None)
    /\ UNCHANGED <<doc, moves, owed, markers, at, plan, alone, unkeyed, calls,
                   crashes>>

\* The bodies are read; only a queued job's marker is written, if its name was
\* not among those listed.
ReadBody(w) ==
    /\ pc[w] = "body"
    /\ IF Queued
       THEN /\ Act(w, IF doc.prio \in plan[w] THEN "drop" ELSE "missing", doc.prio)
            /\ plan' = [plan EXCEPT ![w] = @ \ {doc.prio}]
       ELSE Act(w, "idle", None) /\ plan' = [plan EXCEPT ![w] = {}]
    /\ UNCHANGED <<doc, moves, owed, markers, at, alone, unkeyed, calls,
                   crashes>>

WriteMissing(w) ==
    /\ pc[w] = "missing"
    /\ markers' = markers \cup {key[w]}
    /\ unkeyed' = FALSE
    /\ Go(w, "drop")
    /\ UNCHANGED <<doc, moves, owed, key, at, plan, alone, calls, crashes>>

\* The job's superseded markers go; or, when no queue document has its name,
\* prune_stale_markers deletes all of them.
Superseded(w) ==
    /\ pc[w] = "drop" /\ w \in Sweepers
    /\ Deletes(w, Act(w, "idle", None))

Prune(w) ==
    /\ pc[w] = "prune"
    /\ Deletes(w, Act(w, "idle", None))

-----------------------------------------------------------------------------
Crash(a) ==
    /\ pc[a] # "idle" /\ crashes < MaxCrashes
    /\ crashes' = crashes + 1
    /\ Act(a, "idle", None)
    /\ plan' = [plan EXCEPT ![a] = {}] /\ at' = [at EXCEPT ![a] = 0]
    /\ UNCHANGED <<doc, moves, owed, markers, alone, unkeyed, calls>>

CallStep(c) ==
    \/ Create(c) \/ Swap(c) \/ Present(c) \/ Mark(c) \/ Scan(c) \/ Drop(c)
    \/ Check(c) \/ Unmark(c) \/ Clean(c)

SweepStep(w) ==
    \/ ListMarkers(w) \/ ListNames(w) \/ ReadBody(w) \/ WriteMissing(w)
    \/ Superseded(w) \/ Prune(w)

Next ==
    \/ \E c \in Callers :
         \/ Admit(c) \/ Repair(c) \/ Finish(c) \/ CallStep(c)
         \/ \E k \in Prios : Rewrite(c, k)
    \/ \E w \in Sweepers : SweepStep(w)
    \/ \E a \in Actors : Crash(a)
    \/ Fence \/ Requeue \/ RequeueMark \/ Sweep

Spec == Init /\ [][Next]_vars

\* Calls in progress go on, ticks recur, and a requeue's record is recovered.
FairSpec ==
    /\ Spec
    /\ \A c \in Callers : WF_vars(CallStep(c))
    /\ \A w \in Sweepers : WF_vars(SweepStep(w))
    /\ WF_vars(RequeueMark)

-----------------------------------------------------------------------------
\* Properties

\* The repair converges: once the calls and moves are over, a job that stays
\* queued keeps the marker of its current priority and no other, and a job
\* whose document was swept keeps none, whatever races and deaths left behind
\* (backfill.rs "a marker lost after any sweep is rewritten by the next one").
Converges ==
    <>[](/\ Queued => markers = {doc.prio}
         /\ doc.state = "swept" => markers = {})

\* A queued job whose calls never overlapped is never without a marker, and
\* it has the marker of its current priority, the only one a walk admits it
\* by, except from the swap of a re-key to the next marker that is written:
\* there a death leaves it under its old one (mutations.rs "Write-then-clean
\* fails into a harmless duplicate", claimable/index.rs).
IndexOrder ==
    alone /\ Queued /\ owed = None =>
        doc.prio \in markers \/ (unkeyed /\ markers # {})
=============================================================================
