--------------------------- MODULE JobMoveProofs ---------------------------
(***************************************************************************)
(* Proofs about the moves of JobTransition, on top of the types and fences *)
(* of JobTransitionProofs: when a job may be started, how often it goes    *)
(* back, from whom it is taken; in a store nobody reaps or sweeps, that a  *)
(* queued job is indexed; and in one nobody reaps or rewrites, that the    *)
(* job is never lost.                                                      *)
(***************************************************************************)
EXTENDS JobTransitionProofs

Reaps == \E c \in Clients : "reap" \in Ops[c]
Rewrites == \E c \in Clients : "rewrite" \in Ops[c]
Sweeps == \E c \in Clients : "sweep" \in Ops[c]

\* An operation some client runs.
Licensed(op) == (op = "reap" => Reaps) /\ (op = "rewrite" => Rewrites)

\* The prefixes a job moves out of.
Sources == {"queue", "running"}

\* A failure, once it stands, is never removed: what later moves there carry
\* its reason on.
Failed == Live("failed")
Due(r) == NotBefore[r] <= now

\* A document under a source prefix, or derived from one, that went back was
\* lost, and went back once.
Charged(d) == d.restarts <= 1 /\ (d.restarts = 1 => d.lost)

\* A document under, or promised to, prefix p.
BodyOK(p, d) ==
    /\ d.restarts <= 1
    /\ p \in Sources => Charged(d)
    /\ p = "running" => Due(d.rev)

\* A stored document: a sentinel names the source it stands in for.
StoredOK(p) ==
    docs[p] # None =>
      BodyOK(p, docs[p]) /\ (docs[p].st \in {"fence", "cleaned"} => docs[p].id.from \in Sources)

\* What a move may promise: a requeue is a reaper's, of a lapsed lease; a loss
\* is reported for a lapsed lease, or again.
IdOK(id) ==
    /\ id.from \in Sources
    /\ id.dst.st = id.to /\ BodyOK(id.to, id.dst)
    /\ id.to = "running" => id.from = "queue"
    /\ id.to = "queue" => Reaps /\ id.from = "running" /\ Lapsed(id.src)
    /\ id.to = "failed" /\ id.dst.lost => Lapsed(id.src) \/ Failed

\* What an operation may ask for: a claim and a reaping are pinned to the
\* document that was judged.
RequestOK(q) ==
    /\ q.from \in Sources
    /\ q.to = "running" => q.from = "queue" /\ q.exp # None /\ Due(q.exp.rev)
    /\ q.to = "queue" =>
         /\ Reaps /\ q.from = "running" /\ q.restarts = 1 /\ q.lost
         /\ q.exp # None /\ Lapsed(q.exp) /\ q.exp.restarts = 0
    /\ q.to = "failed" /\ q.lost => q.exp # None /\ Lapsed(q.exp)

\* The source a preparation read.
SourceOK(l) == Charged(l.src) /\ (l.rq.exp # None => l.src = l.rq.exp)

Asking(p, l) ==
    \/ p \in Preparing
    \/ p \in Recovering /\ l.ret \in {"source", "loop", "refuse", "answer"}

\* What a client about to make call p has made sure of.
Vouches(p, l) ==
    /\ p # "idle" => Licensed(l.op)
    /\ Asking(p, l) => RequestOK(l.rq)
    /\ p \in Carrying => IdOK(l.tr.id)
    /\ p = "basis" => SourceOK(l)
    /\ p \in {"prepare", "install"} => IdOK(l.cand.id)
    /\ p = "check" => Due(l.dv.rev)
    /\ p \in {"sweep", "delete"} => Sweeps /\ l.dv.id.from \in Sources

Store == /\ \A p \in Prefix : StoredOK(p)
         /\ record # None => IdOK(record.id)

MoveInv == Store /\ \A c \in Clients : Vouches(pc[c], lv[c])

-----------------------------------------------------------------------------
\* The queued document has left queue/ and nobody puts it back.
Left == docs["queue"] # None /\ docs["queue"].st # "queue"

\* In a store without reapers and sweeps the marker is taken only once the job
\* has left queue/.
IndexInv ==
    /\ IndexedFromAdmission
    /\ \A c \in Clients :
         /\ pc[c] = "admitCreate" => marker \/ Left
         /\ pc[c] = "admitCheck" => docs["queue"] # None
         /\ pc[c] = "unmark" => Left

-----------------------------------------------------------------------------
\* What a client or a record vouches for survives the others' steps: the clock
\* stands still for the while, and a failure stays.
Steady == now' = now /\ (Failed => Failed')

\* Promises and requests stay sound.
LEMMA PromisesStay ==
    ASSUME Steady
    PROVE  /\ \A id : IdOK(id) => IdOK(id)'
           /\ \A q : RequestOK(q) => RequestOK(q)'
           /\ \A p, l : Vouches(p, l) => Vouches(p, l)'
<1>1. ASSUME NEW id, IdOK(id) PROVE IdOK(id)'
  BY <1>1 DEF Steady, IdOK, BodyOK, Due, Charged, Lapsed
<1>2. ASSUME NEW q, RequestOK(q) PROVE RequestOK(q)'
  BY <1>2 DEF Steady, RequestOK, Due, Lapsed
<1>3. ASSUME NEW p, NEW l, Vouches(p, l) PROVE Vouches(p, l)'
  <2>1. /\ IdOK(l.tr.id) => IdOK(l.tr.id)'
        /\ IdOK(l.cand.id) => IdOK(l.cand.id)'
        /\ RequestOK(l.rq) => RequestOK(l.rq)'
    BY <1>1, <1>2
  <2>2. Due(l.dv.rev) => Due(l.dv.rev)'
    BY DEF Steady, Due
  <2> QED
    BY <1>3, <2>1, <2>2 DEF Vouches, Asking, SourceOK, Charged
<1> QED
  BY <1>1, <1>2, <1>3

\* Documents that stay are still sound,
LEMMA DocsStay ==
    ASSUME Store, docs' = docs, now' = now
    PROVE  (\A p \in Prefix : StoredOK(p)') /\ Steady
BY DEF Store, StoredOK, BodyOK, Due, Charged, Steady, Failed, Live

\* and so are they when one sound document is written, if it takes no failure
\* away.
LEMMA DocPut ==
    ASSUME IInv, Store, now' = now, NEW p \in Prefix, NEW d,
           docs' = [docs EXCEPT ![p] = d],
           d # None => /\ BodyOK(p, d)
                       /\ d.st \in {"fence", "cleaned"} => d.id.from \in Sources,
           p # "failed" \/ (d # None /\ d.st = p)
    PROVE  (\A q \in Prefix : StoredOK(q)') /\ Steady
<1>1. docs \in [Prefix -> Doc \cup {None}]
  BY DEF IInv, StoreOK
<1>2. ASSUME NEW q \in Prefix PROVE StoredOK(q)'
  <2>1. CASE q = p
    <3>1. docs'[q] = d
      BY <1>1, <2>1
    <3> QED
      BY <2>1, <3>1 DEF StoredOK, BodyOK, Due, Charged
  <2>2. CASE q # p
    <3>1. docs'[q] = docs[q] /\ StoredOK(q)
      BY <1>1, <2>2 DEF Store
    <3> QED
      BY <3>1 DEF StoredOK, BodyOK, Due, Charged
  <2> QED
    BY <2>1, <2>2
<1>3. Failed => Failed'
  <2>1. "failed" \in Prefix
    BY DEF Prefix, Terminal
  <2>2. docs'["failed"] = IF p = "failed" THEN d ELSE docs["failed"]
    BY <1>1, <2>1
  <2> QED
    BY <2>2 DEF Failed, Live
<1> QED
  BY <1>2, <1>3 DEF Steady

-----------------------------------------------------------------------------
\* Client c goes on to a call it vouches for.
Proceeds(c) == \E p, l : Go(c, p, l) /\ Vouches(p, l)

\* It does so in a sound store.
LEMMA MoveStep ==
    ASSUME IInv, MoveInv, NEW c \in Clients, Proceeds(c), Steady,
           \A p \in Prefix : StoredOK(p)', (record # None => IdOK(record.id))'
    PROVE  MoveInv'
<1>1. PICK p, l : Go(c, p, l) /\ Vouches(p, l)
  BY DEF Proceeds
<1>2. ASSUME NEW e \in Clients PROVE Vouches(pc[e], lv[e])'
  <2>1. CASE e = c
    <3>1. pc'[e] = p /\ lv'[e] = l
      BY <1>1, <2>1 DEF IInv, Go
    <3>2. Vouches(p, l)'
      BY <1>1, PromisesStay
    <3> QED
      BY <3>1, <3>2 DEF Vouches, Asking, SourceOK, Charged
  <2>2. CASE e # c
    <3>1. pc'[e] = pc[e] /\ lv'[e] = lv[e]
      BY <1>1, <2>2 DEF IInv, Go
    <3>2. Vouches(pc[e], lv[e])
      BY DEF MoveInv
    <3>3. PICK q, m : q = pc[e] /\ m = lv[e]
      OBVIOUS
    <3>4. Vouches(q, m)'
      BY <3>2, <3>3, PromisesStay
    <3> QED
      BY <3>1, <3>3, <3>4 DEF Vouches, Asking, SourceOK, Charged
  <2> QED
    BY <2>1, <2>2
<1> QED
  BY <1>2 DEF MoveInv, Store

\* A step that leaves the documents alone, and the promise of the record.
LEMMA MoveAlone ==
    ASSUME IInv, MoveInv, NEW c \in Clients, Proceeds(c), docs' = docs, now' = now,
           record' # None => record # None /\ record'.id = record.id
    PROVE  MoveInv'
<1>1. (\A p \in Prefix : StoredOK(p)') /\ Steady
  BY DocsStay DEF MoveInv
<1>2. (record # None => IdOK(record.id))'
  <2>1. ASSUME record' # None PROVE IdOK(record.id)'
    <3>1. IdOK(record.id) /\ record'.id = record.id
      BY <2>1 DEF MoveInv, Store
    <3>2. PICK id : id = record.id
      OBVIOUS
    <3>3. IdOK(id)'
      BY <1>1, <3>1, <3>2, PromisesStay
    <3> QED
      BY <3>1, <3>2, <3>3 DEF IdOK, BodyOK, Charged
  <2> QED
    BY <2>1
<1> QED
  BY <1>1, <1>2, MoveStep

\* A call that only reads.
LEMMA MoveReading ==
    ASSUME IInv, MoveInv, NEW c \in Clients, Proceeds(c), Reads, Calling(c)
    PROVE  MoveInv'
BY MoveAlone DEF Reads, Calling, store

\* A step that writes one sound document.
LEMMA MovePut ==
    ASSUME IInv, MoveInv, NEW c \in Clients, Proceeds(c), now' = now,
           record' = record, NEW p \in Prefix, NEW d, docs' = [docs EXCEPT ![p] = d],
           d # None => /\ BodyOK(p, d)
                       /\ d.st \in {"fence", "cleaned"} => d.id.from \in Sources,
           p # "failed" \/ (d # None /\ d.st = p)
    PROVE  MoveInv'
<1>1. (\A q \in Prefix : StoredOK(q)') /\ Steady
  BY DocPut DEF MoveInv
<1>2. (record # None => IdOK(record.id))'
  <2>1. ASSUME record' # None PROVE IdOK(record.id)'
    <3>1. PICK id : id = record.id
      OBVIOUS
    <3>2. IdOK(id)'
      BY <1>1, <2>1, <3>1, PromisesStay DEF MoveInv, Store
    <3> QED
      BY <3>1, <3>2 DEF IdOK, BodyOK, Charged
  <2> QED
    BY <2>1
<1> QED
  BY <1>1, <1>2, MoveStep

-----------------------------------------------------------------------------
\* An operation that ends vouches for nothing.
LEMMA IdleProceeds == ASSUME NEW c \in Clients, Idle(c) PROVE Proceeds(c)
<1>1. Vouches("idle", Fresh)
  BY DEF Vouches, Asking, Carrying, Recovering, Preparing
<1> QED
  BY <1>1 DEF Idle, Proceeds

\* recover_job_transition called with a request that is sound.
LEMMA CallRecoverProceeds ==
    ASSUME NEW c \in Clients, NEW l \in Locals, Licensed(l.op),
           NEW ret \in {"source", "loop", "refuse", "answer", "body", "end"},
           CallRecover(c, l, ret),
           ret \in {"source", "loop", "refuse", "answer"} => RequestOK(l.rq)
    PROVE  Proceeds(c)
<1> DEFINE m == [l EXCEPT !.ret = ret]
<1>1. m.ret = ret /\ m.rq = l.rq /\ m.op = l.op
  BY DEF Locals
<1>2. Vouches("record", m)
  BY <1>1 DEF Vouches, Asking, Carrying, Recovering, Preparing
<1> QED
  BY <1>2 DEF CallRecover, Proceeds

\* What is vouched for when a client asks.
LEMMA OwnWord ==
    ASSUME IInv, MoveInv, NEW c \in Clients
    PROVE  /\ lv[c] \in Locals /\ Remembers(pc[c], lv[c]) /\ Vouches(pc[c], lv[c])
           /\ pc[c] # "idle" => Licensed(lv[c].op)
BY DEF IInv, ClientOK, MoveInv, Vouches

\* transition_job_if_version called with a sound request.
LEMMA CallTransitionProceeds ==
    ASSUME IInv, MoveInv, NEW c \in Clients, pc[c] # "idle",
           NEW q \in Request, RequestOK(q), CallTransition(c, q)
    PROVE  Proceeds(c)
<1> DEFINE m == [Fresh EXCEPT !.op = lv[c].op, !.rq = q]
<1>1. lv[c].op \in OpNames \cup {None}
  BY DEF IInv, Locals
<1>2. m \in Locals
  BY <1>1, FreshOK, SetFields, Zenon
<1>3. m.rq = q /\ m.op = lv[c].op
  BY Zenon DEF Fresh
<1>4. PICK x : x = m
  OBVIOUS
<1>5. CallRecover(c, x, "source")
  BY <1>4, Zenon DEF CallTransition
<1> HIDE DEF m
<1> QED
  BY <1>2, <1>3, <1>4, <1>5, OwnWord, CallRecoverProceeds

\* The answer of transition_job_if_version reaches its operation.
LEMMA AnswerProceeds ==
    ASSUME IInv, MoveInv, NEW c \in Clients, pc[c] # "idle", NEW b \in BOOLEAN,
           Answer(c, b)
    PROVE  Proceeds(c)
<1> DEFINE m == [Fresh EXCEPT !.op = lv[c].op, !.ans = b]
<1>1. m.op = lv[c].op
  BY Zenon DEF Fresh
<1>2. Idle(c) \/ \E p \in {"recheck", "follow", "settled"} : Go(c, p, m)
  BY DEF Answer
<1>3. ASSUME NEW p \in {"recheck", "follow", "settled"} PROVE Vouches(p, m)
  BY <1>1, OwnWord DEF Vouches, Asking, Carrying, Recovering, Preparing
<1> QED
  BY <1>2, <1>3, IdleProceeds DEF Proceeds

\* The answer of recover_job_transition reaches the point that called it.
LEMMA RecoveredProceeds ==
    ASSUME IInv, MoveInv, NEW c \in Clients, pc[c] \in Recovering,
           NEW b \in BOOLEAN, Recovered(c, b)
    PROVE  Proceeds(c)
<1> DEFINE m == [lv[c] EXCEPT !.tr = None, !.dv = None, !.ans = FALSE, !.k = 1]
<1>1. lv[c] \in Locals /\ Vouches(pc[c], lv[c])
  BY OwnWord
<1>2. m \in Locals
  <2>1. 1 \in 1..6
    OBVIOUS
  <2> QED
    BY <1>1, <2>1, SetFields, Zenon
<1>3. m.rq = lv[c].rq /\ m.op = lv[c].op /\ m.ret = lv[c].ret
  BY <1>1, Zenon DEF Locals
<1>4. m.ret \in {"source", "loop", "refuse", "answer", "body", "end"}
  BY <1>2 DEF Locals
<1>5. /\ m.ret \in {"source", "loop", "refuse", "answer"} => RequestOK(m.rq)
      /\ Licensed(m.op)
  BY <1>1, <1>3 DEF Vouches, Asking, Recovering, Carrying
<1>6. CASE m.ret = "source"
  <2>1. Go(c, "source", m)
    BY <1>6 DEF Recovered
  <2>2. Vouches("source", m)
    BY <1>5, <1>6 DEF Vouches, Asking, Carrying, Recovering, Preparing
  <2> QED
    BY <2>1, <2>2 DEF Proceeds
<1>7. CASE m.ret = "loop" \/ (m.ret = "answer" /\ ~b)
  <2>1. CallRecover(c, m, "source")
    BY <1>7 DEF Recovered
  <2> QED
    BY <1>2, <1>5, <1>7, <2>1, CallRecoverProceeds
<1>8. CASE m.ret = "refuse" \/ (m.ret = "answer" /\ b)
  <2>1. Answer(c, FALSE) \/ Answer(c, TRUE)
    BY <1>8 DEF Recovered
  <2> QED
    BY <2>1, AnswerProceeds DEF Recovering, Carrying
<1>9. CASE m.ret = "body"
  <2>1. Go(c, "admit", m) \/ Go(c, "body", m)
    BY <1>9 DEF Recovered
  <2>2. Vouches("admit", m) /\ Vouches("body", m)
    BY <1>5, <1>9 DEF Vouches, Asking, Carrying, Recovering, Preparing
  <2> QED
    BY <2>1, <2>2 DEF Proceeds
<1>10. CASE m.ret = "end"
  BY <1>10, IdleProceeds DEF Recovered
<1> QED
  BY <1>4, <1>6, <1>7, <1>8, <1>9, <1>10

-----------------------------------------------------------------------------
\* Recovery goes on, for the record and the request it has, or answers.
Same(l, m) == l.tr = m.tr /\ l.rq = m.rq /\ l.ret = m.ret /\ l.op = m.op

\* Its calls but for the one that takes the marker.
Straight ==
    {"abortDest", "abortSource", "fenceRead", "fence", "goneDest", "goneProbe",
     "dest", "create", "swap", "index", "complete", "abort", "finish",
     "finishProbe", "finishSource", "outcome", "clean", "cleanSwap", "retire"}

Recovers(c) ==
    /\ pc[c] \in Carrying
    /\ \/ \E p \in Straight : \E l : Go(c, p, l) /\ Same(l, lv[c])
       \/ \E b \in BOOLEAN : Recovered(c, b) \/ Answer(c, b)

\* It still vouches for them.
LEMMA RecoversProceeds ==
    ASSUME IInv, MoveInv, NEW c \in Clients, Recovers(c) PROVE Proceeds(c)
<1>1. ASSUME NEW p \in Straight, NEW l, Go(c, p, l), Same(l, lv[c])
      PROVE  Proceeds(c)
  <2>1. Vouches(pc[c], lv[c]) /\ pc[c] \in Carrying
    BY OwnWord DEF Recovers
  <2>2. Vouches(p, l)
    BY <1>1, <2>1 DEF Vouches, Asking, Same, Straight, Carrying, Recovering, Preparing
  <2> QED
    BY <1>1, <2>2 DEF Proceeds
<1>2. pc[c] \in Recovering /\ pc[c] # "idle"
  BY DEF Recovers, Recovering, Carrying
<1> QED
  BY <1>1, <1>2, RecoveredProceeds, AnswerProceeds DEF Recovers

\* Setting another field keeps them.
LEMMA SameFields ==
    ASSUME NEW l \in Locals
    PROVE  /\ Same(l, l)
           /\ \A x : Same([l EXCEPT !.dv = x], l) /\ Same([l EXCEPT !.k = x], l)
           /\ \A x, y : Same([l EXCEPT !.dv = x, !.ans = y], l)
BY DEF Locals, Same

\* Every call of a recovery that works on the record it has read.
LEMMA RecoveryGoesOn ==
    ASSUME IInv, NEW c \in Clients,
           \/ AbortedDestination(c) \/ AbortedSource(c) \/ FenceRead(c)
           \/ FenceSwap(c) \/ GoneDestination(c) \/ GoneProbe(c)
           \/ DestinationRead(c) \/ DestinationWrite(c) \/ DestinationIndex(c)
           \/ MarkCompleted(c) \/ MarkAborted(c) \/ FinishDestination(c)
           \/ FinishProbe(c) \/ FinishSource(c) \/ RecordOutcome(c)
           \/ Unmark(c) \/ CleanSwap(c) \/ RetireRecord(c)
    PROVE  Recovers(c)
<1>1. PICK l : l = lv[c]
  OBVIOUS
<1>2. l \in Locals /\ Same(l, l)
  BY <1>1, SameFields DEF IInv
<1>3. ASSUME NEW p \in Straight, Go(c, p, l), pc[c] \in Carrying
      PROVE  Recovers(c)
  BY <1>1, <1>2, <1>3 DEF Recovers
<1>4. ASSUME NEW p \in Straight, NEW x,
             Go(c, p, [l EXCEPT !.dv = x]) \/ Go(c, p, [l EXCEPT !.k = x]),
             pc[c] \in Carrying
      PROVE  Recovers(c)
  BY <1>1, <1>2, <1>4, SameFields DEF Recovers
<1>5. ASSUME NEW b \in BOOLEAN, Recovered(c, b) \/ Answer(c, b), pc[c] \in Carrying
      PROVE  Recovers(c)
  BY <1>5 DEF Recovers
<1>6. CASE AbortedDestination(c) \/ AbortedSource(c)
  BY <1>1, <1>3, <1>5, <1>6 DEF AbortedDestination, AbortedSource, At, Carrying, Straight
<1>7. CASE FenceRead(c) \/ FenceSwap(c)
  BY <1>1, <1>3, <1>5, <1>7 DEF FenceRead, FenceSwap, At, Carrying, Straight
<1>8. ASSUME NEW p \in {"goneProbe", "finishProbe"}, pc[c] = p, NextProbe(c)
      PROVE  Recovers(c)
  <2>1. Go(c, p, [l EXCEPT !.k = l.k + 1])
    BY <1>1, <1>8, Zenon DEF NextProbe
  <2> QED
    BY <1>4, <1>8, <2>1 DEF Carrying, Straight
<1>9. CASE GoneDestination(c) \/ GoneProbe(c)
  <2>1. CASE GoneDestination(c)
    BY <1>1, <1>3, <1>4, <2>1 DEF GoneDestination, At, Carrying, Straight
  <2>2. CASE GoneProbe(c)
    <3>1. Go(c, "abort", l) \/ Answer(c, FALSE) \/ NextProbe(c)
      BY <1>1, <2>2 DEF GoneProbe, Probe, Fail, NextProbe
    <3> QED
      BY <1>3, <1>5, <1>8, <2>2, <3>1 DEF GoneProbe, At, Carrying, Straight
  <2> QED
    BY <1>9, <2>1, <2>2
<1>10. CASE DestinationRead(c) \/ DestinationWrite(c) \/ DestinationIndex(c)
  <2>1. CASE DestinationRead(c)
    <3>1. \/ \E p \in {"create", "swap"} : Go(c, p, [l EXCEPT !.dv = docs[l.tr.id.to]])
          \/ Go(c, "index", l) \/ Answer(c, FALSE)
      BY <1>1, <2>1 DEF DestinationRead, Fail
    <3> QED
      BY <1>3, <1>4, <1>5, <2>1, <3>1 DEF DestinationRead, At, Carrying, Straight
  <2>2. CASE DestinationWrite(c)
    BY <1>1, <1>4, <2>2 DEF DestinationWrite, At, Carrying, Straight
  <2>3. CASE DestinationIndex(c)
    BY <1>1, <1>3, <1>5, <2>3 DEF DestinationIndex, Fail, At, Carrying, Straight
  <2> QED
    BY <1>10, <2>1, <2>2, <2>3
<1>11. CASE MarkCompleted(c) \/ MarkAborted(c)
  BY <1>1, <1>3, <1>5, <1>11 DEF MarkCompleted, MarkAborted, At, Carrying, Straight
<1>12. CASE FinishDestination(c)
  <2>1. \/ Go(c, "finishSource", [l EXCEPT !.dv = docs[l.tr.id.to], !.ans = TRUE])
        \/ Go(c, "finishProbe", [l EXCEPT !.k = 1])
    BY <1>1, <1>12, Zenon DEF FinishDestination
  <2>2. Same([l EXCEPT !.dv = docs[l.tr.id.to], !.ans = TRUE], l)
    BY <1>2, SameFields, Zenon
  <2>3. pc[c] \in Carrying /\ "finishSource" \in Straight /\ "finishProbe" \in Straight
    BY <1>12 DEF FinishDestination, At, Carrying, Straight
  <2>4. CASE Go(c, "finishSource", [l EXCEPT !.dv = docs[l.tr.id.to], !.ans = TRUE])
    BY <1>1, <2>2, <2>3, <2>4, Zenon DEF Recovers
  <2> QED
    BY <1>4, <2>1, <2>3, <2>4
<1>13. CASE FinishProbe(c)
  <2>1. Go(c, "retire", l) \/ Answer(c, FALSE) \/ NextProbe(c)
    BY <1>1, <1>13 DEF FinishProbe, Probe, Fail, NextProbe
  <2> QED
    BY <1>3, <1>5, <1>8, <1>13, <2>1 DEF FinishProbe, At, Carrying, Straight
<1>14. CASE FinishSource(c) \/ RecordOutcome(c)
  <2>1. CASE FinishSource(c)
    <3>1. \E p \in {"retire", "outcome", "clean"} : Go(c, p, l)
      BY <1>1, <2>1 DEF FinishSource
    <3> QED
      BY <1>3, <2>1, <3>1 DEF FinishSource, At, Carrying, Straight
  <2>2. CASE RecordOutcome(c)
    BY <1>1, <1>3, <1>5, <2>2 DEF RecordOutcome, At, Carrying, Straight
  <2> QED
    BY <1>14, <2>1, <2>2
<1>15. CASE Unmark(c) \/ CleanSwap(c)
  BY <1>1, <1>3, <1>15 DEF Unmark, CleanSwap, At, Carrying, Straight
<1>16. CASE RetireRecord(c)
  <2>1. lv[c].ans \in BOOLEAN
    BY <1>1, <1>2 DEF Locals
  <2> QED
    BY <1>5, <1>16, <2>1 DEF RetireRecord, Fail, At, Carrying, Straight
<1> QED
  BY <1>6, <1>7, <1>9, <1>10, <1>11, <1>12, <1>13, <1>14, <1>15, <1>16

\* Cleaning a source goes on too, from queue/ by way of the marker.
LEMMA CleanGoesOn ==
    ASSUME IInv, MoveInv, NEW c \in Clients, CleanSource(c) PROVE Proceeds(c)
<1>1. pc[c] = "clean" /\ Vouches(pc[c], lv[c])
  BY OwnWord DEF CleanSource, At
<1>2. Go(c, "unmark", lv[c]) \/ Go(c, "retire", lv[c])
  BY DEF CleanSource
<1>3. Vouches("unmark", lv[c]) /\ Vouches("retire", lv[c])
  BY <1>1 DEF Vouches, Asking, Carrying, Recovering, Preparing
<1> QED
  BY <1>2, <1>3 DEF Proceeds

-----------------------------------------------------------------------------
\* recover_job_transition takes up the promise of the record.
LEMMA RecoverRecordMoves ==
    ASSUME IInv, MoveInv, NEW c \in Clients, RecoverRecord(c) PROVE MoveInv'
<1> DEFINE m == [lv[c] EXCEPT !.tr = record]
<1>1. pc[c] = "record" /\ pc[c] \in Recovering /\ lv[c] \in Locals
  BY DEF RecoverRecord, At, Recovering, IInv
<1>2. record \in Record \cup {None}
  BY DEF IInv, StoreOK, ObjectsType
<1>3. \/ Recovered(c, FALSE)
      \/ record # None /\ \E p \in {"abortDest", "finish", "fenceRead"} : Go(c, p, m)
  BY <1>2, RecordParts DEF RecoverRecord
<1>4. ASSUME record # None, NEW p \in {"abortDest", "finish", "fenceRead"}
      PROVE  Vouches(p, m)
  <2>1. m.tr = record /\ m.rq = lv[c].rq /\ m.ret = lv[c].ret /\ m.op = lv[c].op
    BY <1>1 DEF Locals
  <2>2. IdOK(record.id) /\ Vouches("record", lv[c])
    BY <1>1, <1>4, OwnWord DEF MoveInv, Store
  <2> QED
    BY <2>1, <2>2 DEF Vouches, Asking, Carrying, Recovering, Preparing
<1>5. Proceeds(c)
  BY <1>1, <1>3, <1>4, RecoveredProceeds DEF Proceeds
<1> QED
  BY <1>5, MoveReading DEF RecoverRecord

\* The calls that only read.
LEMMA RecoveryReads ==
    ASSUME IInv, MoveInv, NEW c \in Clients,
           \/ AbortedDestination(c) \/ AbortedSource(c) \/ FenceRead(c)
           \/ GoneDestination(c) \/ GoneProbe(c) \/ DestinationRead(c)
           \/ FinishDestination(c) \/ FinishProbe(c) \/ FinishSource(c)
    PROVE  MoveInv'
<1>1. Proceeds(c)
  BY RecoveryGoesOn, RecoversProceeds
<1>2. Reads /\ Calling(c)
  BY DEF AbortedDestination, AbortedSource, FenceRead, GoneDestination, GoneProbe,
         DestinationRead, FinishDestination, FinishProbe, FinishSource
<1> QED
  BY <1>1, <1>2, MoveReading

\* The calls that write the marker, the outcome or the state of the record.
LEMMA RecoveryMarks ==
    ASSUME IInv, MoveInv, NEW c \in Clients,
           \/ DestinationIndex(c) \/ MarkCompleted(c) \/ MarkAborted(c)
           \/ RecordOutcome(c) \/ Unmark(c) \/ RetireRecord(c)
    PROVE  MoveInv'
<1>1. Proceeds(c)
  BY RecoveryGoesOn, RecoversProceeds
<1>2. docs' = docs /\ now' = now
  BY DEF DestinationIndex, MarkCompleted, MarkAborted, SetState, RecordOutcome, Unmark,
         RetireRecord, Calling
<1>3. record' # None => record # None /\ record'.id = record.id
  <2>1. record \in Record \cup {None}
    BY DEF IInv, StoreOK, ObjectsType
  <2>2. record' = record \/ (record # None /\ \E st : record' = [record EXCEPT !.state = st])
    BY DEF DestinationIndex, MarkCompleted, MarkAborted, SetState, RecordOutcome,
           Unmark, RetireRecord, SameGeneration
  <2> QED
    BY <2>1, <2>2 DEF Record
<1> QED
  BY <1>1, <1>2, <1>3, MoveAlone

\* A sentinel keeps the body it is stamped on.
LEMMA StampKeeps ==
    ASSUME NEW d \in Doc, NEW st, NEW id
    PROVE  /\ Stamp(d, st, id).restarts = d.restarts
           /\ Stamp(d, st, id).lost = d.lost /\ Stamp(d, st, id).rev = d.rev
           /\ Stamp(d, st, id).id = id
BY DEF Stamp, Doc, LiveDoc, SentinelDoc

\* The source a recovery stamps.
LEMMA Stamped ==
    ASSUME IInv, MoveInv, NEW c \in Clients, pc[c] \in Carrying, Proceeds(c),
           now' = now, record' = record, NEW st \in {"fence", "cleaned"},
           docs[lv[c].tr.id.from] # None,
           docs' = [docs EXCEPT ![lv[c].tr.id.from]
                      = Stamp(docs[lv[c].tr.id.from], st, lv[c].tr.id)]
    PROVE  MoveInv'
<1>1. PICK id : id = lv[c].tr.id
  OBVIOUS
<1>2. PICK d : d = Stamp(docs[id.from], st, id)
  OBVIOUS
<1>3. id.from \in Sources /\ id.from \in Prefix
  BY <1>1, OwnWord DEF Vouches, IdOK, Sources, Prefix
<1>4. docs[id.from] \in Doc
  BY <1>1, <1>3 DEF IInv, StoreOK
<1>5. /\ d.restarts = docs[id.from].restarts /\ d.lost = docs[id.from].lost
      /\ d.rev = docs[id.from].rev /\ d.id = id
  BY <1>2, <1>4, StampKeeps
<1>6. BodyOK(id.from, docs[id.from])
  BY <1>1, <1>3 DEF MoveInv, Store, StoredOK
<1>7. BodyOK(id.from, d) /\ d.id.from \in Sources
  BY <1>3, <1>5, <1>6 DEF BodyOK, Charged
<1>8. docs' = [docs EXCEPT ![id.from] = d] /\ id.from # "failed"
  BY <1>1, <1>2, <1>3 DEF Sources
<1> QED
  BY <1>3, <1>7, <1>8, MovePut

\* Fencing and cleaning a source.
LEMMA SourceMoves ==
    ASSUME IInv, MoveInv, NEW c \in Clients,
           FenceSwap(c) \/ CleanSource(c) \/ CleanSwap(c)
    PROVE  MoveInv'
<1>1. Proceeds(c)
  BY RecoveryGoesOn, RecoversProceeds, CleanGoesOn
<1>2. /\ pc[c] \in Carrying /\ now' = now /\ record' = record
      /\ lv[c].tr \in Record
  BY DEF FenceSwap, CleanSource, CleanSwap, At, Carrying, Calling, IInv, ClientOK,
         Remembers
<1>3. lv[c].tr.id.from \in Prefix /\ lv[c].tr.id.src # None
  BY <1>2, RecordParts, NoneAssumption DEF Doc
<1>4. docs \in [Prefix -> Doc \cup {None}]
  BY DEF IInv, StoreOK
<1>5. \/ docs' = docs
      \/ /\ docs[lv[c].tr.id.from] # None
         /\ \E st \in {"fence", "cleaned"} :
              docs' = [docs EXCEPT ![lv[c].tr.id.from]
                         = Stamp(docs[lv[c].tr.id.from], st, lv[c].tr.id)]
  <2>1. CASE FenceSwap(c)
    BY <1>3, <1>4, <2>1 DEF FenceSwap
  <2>2. CASE CleanSource(c)
    BY <1>3, <1>4, <2>2 DEF CleanSource, Sentinel
  <2>3. CASE CleanSwap(c)
    BY <1>3, <1>4, <2>3 DEF CleanSwap, Sentinel
  <2> QED
    BY <2>1, <2>2, <2>3
<1> QED
  BY <1>1, <1>2, <1>5, Stamped, MoveAlone

\* The destination is written as promised.
LEMMA DestinationMoves ==
    ASSUME IInv, MoveInv, NEW c \in Clients, DestinationWrite(c) PROVE MoveInv'
<1>1. Proceeds(c)
  BY RecoveryGoesOn, RecoversProceeds
<1>2. PICK id : id = lv[c].tr.id
  OBVIOUS
<1>3. /\ pc[c] \in Carrying /\ now' = now /\ record' = record
      /\ lv[c].tr \in Record
  BY DEF DestinationWrite, At, Carrying, Calling, IInv, ClientOK, Remembers
<1>4. id.to \in Prefix /\ id.dst \in LiveDoc /\ IdOK(id)
  BY <1>2, <1>3, OwnWord, RecordParts DEF Vouches
<1>5. id.dst # None /\ BodyOK(id.to, id.dst) /\ id.dst.st = id.to
  BY <1>4, NoneAssumption DEF Doc, IdOK
<1>6. id.dst.st \notin {"fence", "cleaned"}
  BY <1>4, <1>5 DEF Prefix, Terminal
<1>7. docs' = docs \/ docs' = [docs EXCEPT ![id.to] = id.dst]
  <2>1. lv[c] \in Locals
    BY DEF IInv
  <2> QED
    BY <1>2, <2>1 DEF DestinationWrite, Locals
<1> QED
  BY <1>1, <1>3, <1>4, <1>5, <1>6, <1>7, MovePut, MoveAlone

\* Recovery as a whole.
LEMMA RecoverMoves ==
    ASSUME IInv, MoveInv, NEW c \in Clients, RecoverStep(c) PROVE MoveInv'
BY RecoverRecordMoves, RecoveryReads, RecoveryMarks, SourceMoves, DestinationMoves
   DEF RecoverStep

-----------------------------------------------------------------------------
\* The source is read: the document under it is the one the caller pinned.
LEMMA PrepareSourceMoves ==
    ASSUME IInv, MoveInv, NEW c \in Clients, PrepareSource(c) PROVE MoveInv'
<1> DEFINE q == lv[c].rq
           d == docs[q.from]
           m == [lv[c] EXCEPT !.src = d]
<1>1. /\ pc[c] = "source" /\ lv[c] \in Locals /\ q \in Request /\ q.from \in Prefix
      /\ Vouches(pc[c], lv[c])
  BY OwnWord DEF PrepareSource, At, Preparing, Remembers, Request
<1>2. RequestOK(q) /\ q.from \in Sources /\ Licensed(lv[c].op)
  BY <1>1 DEF Vouches, Asking, Preparing, RequestOK
<1>3. \/ Go(c, "moved", lv[c]) \/ Answer(c, FALSE) \/ CallRecover(c, lv[c], "refuse")
      \/ d # None /\ q.exp \in {None, d} /\ Go(c, "basis", m)
  BY DEF PrepareSource
<1>4. Vouches("moved", lv[c])
  BY <1>2 DEF Vouches, Asking, Carrying, Recovering, Preparing
<1>5. ASSUME d # None, q.exp \in {None, d} PROVE Vouches("basis", m)
  <2>1. m.src = d /\ m.rq = q /\ m.op = lv[c].op
    BY <1>1 DEF Locals
  <2>2. Charged(d)
    BY <1>1, <1>2, <1>5 DEF MoveInv, Store, StoredOK, BodyOK
  <2>3. SourceOK(m)
    BY <1>5, <2>1, <2>2 DEF SourceOK
  <2> QED
    BY <1>2, <2>1, <2>3 DEF Vouches, Asking, Carrying, Recovering, Preparing
<1>6. Proceeds(c)
  <2>1. CASE Go(c, "moved", lv[c])
    BY <1>4, <2>1 DEF Proceeds
  <2>2. CASE Answer(c, FALSE) \/ CallRecover(c, lv[c], "refuse")
    BY <1>1, <1>2, <2>2, AnswerProceeds, CallRecoverProceeds
  <2>3. CASE d # None /\ q.exp \in {None, d} /\ Go(c, "basis", m)
    BY <1>5, <2>3 DEF Proceeds
  <2> QED
    BY <1>3, <2>1, <2>2, <2>3
<1> QED
  BY <1>6, MoveReading DEF PrepareSource

\* A source that is gone is answered by what the destination holds.
LEMMA PrepareMovedMoves ==
    ASSUME IInv, MoveInv, NEW c \in Clients, PrepareMoved(c) PROVE MoveInv'
<1>1. Answer(c, TRUE) \/ Answer(c, FALSE)
  BY DEF PrepareMoved, Live
<1>2. Proceeds(c)
  BY <1>1, AnswerProceeds DEF PrepareMoved, At
<1> QED
  BY <1>2, MoveReading DEF PrepareMoved

\* merge_transition_destination derives a sound promise from a sound request,
\* whether it builds on the request or on what stands at the destination.
LEMMA MergeSound ==
    ASSUME NEW q \in Request, RequestOK(q), NEW src \in LiveDoc, Charged(src),
           q.exp # None => src = q.exp, NEW basis \in Request \cup LiveDoc,
           basis = q \/ (BodyOK(q.to, basis) /\ (q.to = "failed" => Failed)),
           NEW id, id = [from |-> q.from, to |-> q.to, src |-> src,
                         dst |-> Merge(src, basis, q.from, q.to)]
    PROVE  IdOK(id)
<1>1. /\ id.from = q.from /\ id.to = q.to /\ id.src = src
      /\ id.dst.st = q.to /\ id.dst.rev = src.rev
      /\ id.dst.restarts = IF q.to = "queue" /\ q.from = "running"
                           THEN Max2(src.restarts, basis.restarts) ELSE src.restarts
      /\ id.dst.lost = IF q.to \in Terminal \/ (q.to = "queue" /\ q.from = "running")
                       THEN basis.lost ELSE src.lost
  BY DEF Merge
<1>2. q.from \in Sources /\ q.to \in Prefix
  BY DEF RequestOK, Request
<1>3. /\ src.restarts \in Nat /\ basis.restarts \in Nat
      /\ src.restarts <= 1
  BY DEF Charged, LiveDoc, Request
<1>4. CASE q.to = "queue"
  <2>1. /\ Reaps /\ q.from = "running" /\ q.restarts = 1 /\ q.lost
        /\ Lapsed(src) /\ src.restarts = 0
    BY <1>4 DEF RequestOK
  <2>2. id.dst.restarts = basis.restarts /\ id.dst.lost = basis.lost
    BY <1>1, <1>3, <1>4, <2>1 DEF Max2
  <2>3. Charged(id.dst)
    BY <1>4, <2>1, <2>2 DEF BodyOK, Charged, Sources
  <2> QED
    BY <1>1, <1>2, <1>4, <2>1, <2>3 DEF IdOK, BodyOK, Charged
<1>5. CASE q.to = "running"
  <2>1. Due(src.rev)
    BY <1>5 DEF RequestOK
  <2>2. id.dst.restarts = src.restarts /\ id.dst.lost = src.lost
    BY <1>1, <1>5 DEF Terminal
  <2> QED
    BY <1>1, <1>2, <1>5, <2>1, <2>2 DEF RequestOK, IdOK, BodyOK, Charged
<1>6. CASE q.to \in Terminal
  <2>1. id.dst.restarts = src.restarts /\ id.dst.lost = basis.lost
    BY <1>1, <1>6 DEF Terminal
  <2>2. q.to = "failed" /\ basis.lost => Lapsed(src) \/ Failed
    BY DEF RequestOK
  <2> QED
    BY <1>1, <1>2, <1>3, <1>6, <2>1, <2>2 DEF IdOK, BodyOK, Sources, Terminal
<1> QED
  BY <1>2, <1>4, <1>5, <1>6 DEF Prefix

\* The candidate record.
LEMMA PrepareBasisMoves ==
    ASSUME IInv, MoveInv, NEW c \in Clients, PrepareBasis(c) PROVE MoveInv'
<1> DEFINE q == lv[c].rq
           d == docs[q.to]
           Id(basis) == [from |-> q.from, to |-> q.to, src |-> lv[c].src,
                         dst |-> Merge(lv[c].src, basis, q.from, q.to)]
           Candidate(basis, dver) ==
               [id |-> Id(basis), owner |-> 0, dver |-> dver, state |-> "prepared"]
           m(r) == [lv[c] EXCEPT !.src = None, !.cand = r]
<1>1. /\ pc[c] = "basis" /\ lv[c] \in Locals /\ q \in Request /\ lv[c].src \in LiveDoc
      /\ q.to \in Prefix /\ Vouches(pc[c], lv[c])
  BY OwnWord DEF PrepareBasis, At, Preparing, Remembers, Request
<1>2. /\ RequestOK(q) /\ Charged(lv[c].src) /\ (q.exp # None => lv[c].src = q.exp)
      /\ Licensed(lv[c].op)
  BY <1>1 DEF Vouches, Asking, Preparing, SourceOK
<1>3. IdOK(Id(q))
  BY <1>1, <1>2, MergeSound
<1>4. ASSUME d # None, d.st = q.to PROVE IdOK(Id(d))
  <2>1. d \in LiveDoc
    BY <1>1, <1>4 DEF IInv, StoreOK, Doc, SentinelDoc, Prefix, Terminal
  <2>2. BodyOK(q.to, d) /\ (q.to = "failed" => Failed)
    BY <1>1, <1>4 DEF MoveInv, Store, StoredOK, Failed, Live
  <2> QED
    BY <1>1, <1>2, <2>1, <2>2, MergeSound
<1>5. ASSUME NEW r, IdOK(r.id), Go(c, "prepare", m(r)) PROVE Proceeds(c)
  <2>1. m(r).rq = q /\ m(r).cand = r /\ m(r).op = lv[c].op
    BY <1>1, Zenon DEF Locals
  <2>2. PICK x : x = m(r)
    OBVIOUS
  <2> HIDE DEF m
  <2>3. Vouches("prepare", x)
    BY <1>2, <1>5, <2>1, <2>2 DEF Vouches, Asking, Carrying, Recovering, Preparing
  <2> QED
    BY <1>5, <2>2, <2>3 DEF Proceeds
<1>6. \/ Go(c, "prepare", m(Candidate(q, d)))
      \/ d # None /\ d.st = q.to /\ Go(c, "prepare", m(Candidate(d, d)))
      \/ Fail(c)
  BY Zenon DEF PrepareBasis
<1>7. Candidate(q, d).id = Id(q) /\ Candidate(d, d).id = Id(d)
  OBVIOUS
<1>8. Proceeds(c)
  <2> HIDE DEF m, Candidate, Id
  <2> QED
    BY <1>1, <1>3, <1>4, <1>5, <1>6, <1>7, AnswerProceeds DEF Fail
<1> QED
  BY <1>8, MoveReading DEF PrepareBasis

\* A prepared record is recovered first, any other one is replaced.
LEMMA PrepareRecordMoves ==
    ASSUME IInv, MoveInv, NEW c \in Clients, PrepareRecord(c) PROVE MoveInv'
<1> DEFINE m == [lv[c] EXCEPT !.seen = record, !.cand = None]
           n == [lv[c] EXCEPT !.rv = record]
<1>1. pc[c] = "prepare" /\ lv[c] \in Locals /\ Vouches(pc[c], lv[c])
  BY OwnWord DEF PrepareRecord, At
<1>2. /\ RequestOK(lv[c].rq) /\ IdOK(lv[c].cand.id)
      /\ Licensed(lv[c].op)
  BY <1>1 DEF Vouches, Asking, Preparing
<1>3. record \in Record \cup {None}
  BY DEF IInv, StoreOK, ObjectsType
<1>4. Fail(c) \/ CallRecover(c, m, "loop") \/ Go(c, "install", n)
  BY Zenon DEF PrepareRecord
<1>5. CASE Fail(c)
  BY <1>1, <1>5, AnswerProceeds, MoveReading DEF Fail, PrepareRecord
<1>6. CASE CallRecover(c, m, "loop")
  <2>1. m \in Locals
    BY <1>1, <1>3, SetFields, Zenon
  <2>2. m.rq = lv[c].rq /\ m.op = lv[c].op
    BY <1>1, Zenon DEF Locals
  <2> HIDE DEF m
  <2>3. Proceeds(c)
    BY <1>2, <1>6, <2>1, <2>2, CallRecoverProceeds
  <2> QED
    BY <2>3, MoveReading DEF PrepareRecord
<1>7. CASE Go(c, "install", n)
  <2>1. n.rq = lv[c].rq /\ n.cand = lv[c].cand /\ n.op = lv[c].op
    BY <1>1 DEF Locals
  <2>2. Vouches("install", n)
    BY <1>2, <2>1 DEF Vouches, Asking, Carrying, Recovering, Preparing
  <2>3. Proceeds(c)
    BY <1>7, <2>2 DEF Proceeds
  <2> QED
    BY <2>3, MoveReading DEF PrepareRecord
<1> QED
  BY <1>4, <1>5, <1>6, <1>7

\* The candidate becomes the durable promise.
LEMMA InstallMoves ==
    ASSUME IInv, MoveInv, NEW c \in Clients, Install(c) PROVE MoveInv'
<1> DEFINE m == [lv[c] EXCEPT !.cand = None, !.rv = None]
<1>1. /\ pc[c] = "install" /\ lv[c] \in Locals /\ lv[c].cand \in Record
      /\ Vouches(pc[c], lv[c])
  BY OwnWord DEF Install, At, Remembers
<1>2. /\ RequestOK(lv[c].rq) /\ IdOK(lv[c].cand.id)
      /\ Licensed(lv[c].op)
  BY <1>1 DEF Vouches, Asking, Preparing
<1>3. m \in Locals
  BY <1>1, SetFields, Zenon
<1>4. m.rq = lv[c].rq /\ m.op = lv[c].op
  BY <1>1, Zenon DEF Locals
<1>5. CallRecover(c, m, "answer") \/ CallRecover(c, m, "source")
  BY Zenon DEF Install
<1>6. Proceeds(c)
  <2> HIDE DEF m
  <2> QED
    BY <1>2, <1>3, <1>4, <1>5, CallRecoverProceeds
<1>7. docs' = docs /\ now' = now
  BY DEF Install, Calling
<1>8. (\A p \in Prefix : StoredOK(p)') /\ Steady
  BY <1>7, DocsStay DEF MoveInv
<1>9. CASE record' = [lv[c].cand EXCEPT !.owner = owners + 1]
  <2>1. record'.id = lv[c].cand.id
    BY <1>1, <1>9 DEF Record
  <2>2. PICK id : id = lv[c].cand.id
    OBVIOUS
  <2>3. IdOK(id)'
    BY <1>2, <1>8, <2>2, PromisesStay
  <2>4. (record # None => IdOK(record.id))'
    BY <2>1, <2>2, <2>3 DEF IdOK, BodyOK, Charged
  <2> QED
    BY <1>6, <1>8, <2>4, MoveStep
<1>10. CASE record' = record
  BY <1>6, <1>7, <1>10, MoveAlone
<1> QED
  BY <1>9, <1>10, Zenon DEF Install

\* Preparation as a whole.
LEMMA PrepareMoves ==
    ASSUME IInv, MoveInv, NEW c \in Clients, PrepareStep(c) PROVE MoveInv'
BY PrepareSourceMoves, PrepareMovedMoves, PrepareBasisMoves, PrepareRecordMoves,
   InstallMoves
   DEF PrepareStep

-----------------------------------------------------------------------------
\* An operation that starts leaves the documents and the record to its calls.
LEMMA StartMoves ==
    ASSUME IInv, MoveInv, NEW c \in Clients, NEW op, NEW p, NEW l,
           Start(c, op, p, l), Vouches(p, [l EXCEPT !.op = op]), docs' = docs,
           record' = record
    PROVE  MoveInv'
<1>1. Proceeds(c) /\ now' = now
  BY DEF Start, Proceeds
<1> QED
  BY <1>1, MoveAlone

\* A start with a recovery asks for nothing yet.
LEMMA RecoveringStarts ==
    ASSUME IInv, MoveInv, NEW c \in Clients,
           \/ StartAdmit(c) \/ StartClaim(c) \/ StartTakeBack(c) \/ StartReap(c)
           \/ StartSettle(c) \/ StartRewrite(c)
    PROVE  MoveInv'
<1>1. docs' = docs /\ record' = record
  BY DEF StartAdmit, StartClaim, StartTakeBack, StartReap, StartSettle, StartRewrite,
         store
<1>2. \/ \E op, w : Start(c, op, "record", [Fresh EXCEPT !.ret = "body", !.want = w])
      \/ \E op : Start(c, op, "record", [Fresh EXCEPT !.ret = "body"])
  BY Zenon DEF StartAdmit, StartClaim, StartTakeBack, StartReap, StartSettle,
               StartRewrite, StartRecovering
<1>3. ASSUME NEW op, NEW l, l.ret = "body", l.op = op, op \in Ops[c]
      PROVE  Vouches("record", l)
  BY <1>3 DEF Vouches, Asking, Carrying, Recovering, Preparing, Reaps, Rewrites, Licensed
<1>4. ASSUME NEW op, NEW w,
             Start(c, op, "record", [Fresh EXCEPT !.ret = "body", !.want = w])
      PROVE  MoveInv'
  <2>1. PICK l : l = [Fresh EXCEPT !.ret = "body", !.want = w]
    OBVIOUS
  <2>2. PICK m : m = [l EXCEPT !.op = op]
    OBVIOUS
  <2>3. m.ret = "body" /\ m.op = op
    BY <2>1, <2>2, Zenon DEF Fresh
  <2>4. op \in Ops[c] /\ Start(c, op, "record", l)
    BY <1>4, <2>1, Zenon DEF Start
  <2>5. Vouches("record", m)
    BY <1>3, <2>3, <2>4
  <2> QED
    BY <1>1, <2>2, <2>4, <2>5, StartMoves
<1>5. ASSUME NEW op, Start(c, op, "record", [Fresh EXCEPT !.ret = "body"])
      PROVE  MoveInv'
  <2>1. PICK l : l = [Fresh EXCEPT !.ret = "body"]
    OBVIOUS
  <2>2. PICK m : m = [l EXCEPT !.op = op]
    OBVIOUS
  <2>3. m.ret = "body" /\ m.op = op
    BY <2>1, <2>2, Zenon DEF Fresh
  <2>4. op \in Ops[c] /\ Start(c, op, "record", l)
    BY <1>5, <2>1, Zenon DEF Start
  <2>5. Vouches("record", m)
    BY <1>3, <2>3, <2>4
  <2> QED
    BY <1>1, <2>2, <2>4, <2>5, StartMoves
<1> QED
  BY <1>2, <1>4, <1>5

\* A finish asks for a move out of running/, and reports no loss.
LEMMA FinishMoves ==
    ASSUME IInv, MoveInv, NEW c \in Clients, StartFinish(c) PROVE MoveInv'
<1>1. PICK to \in {"completed", "failed"} :
        Start(c, "finish", "record",
              [Fresh EXCEPT !.ret = "source",
                 !.rq = [from |-> "running", to |-> to, exp |-> None,
                         lease |-> 0, by |-> c, restarts |-> 0, lost |-> FALSE]])
  BY Zenon DEF StartFinish
<1>2. PICK q : q = [from |-> "running", to |-> to, exp |-> None,
                    lease |-> 0, by |-> c, restarts |-> 0, lost |-> FALSE]
  OBVIOUS
<1>3. PICK l : l = [Fresh EXCEPT !.ret = "source", !.rq = q]
  OBVIOUS
<1>4. PICK m : m = [l EXCEPT !.op = "finish"]
  OBVIOUS
<1>5. m.rq = q /\ m.op = "finish"
  BY <1>3, <1>4, Zenon DEF Fresh
<1>6. RequestOK(q)
  BY <1>2 DEF RequestOK, Sources
<1>7. Vouches("record", m)
  BY <1>5, <1>6 DEF Vouches, Asking, Carrying, Recovering, Preparing, Licensed
<1>8. Start(c, "finish", "record", l)
  BY <1>1, <1>2, <1>3, Zenon
<1>9. docs' = docs /\ record' = record
  BY DEF StartFinish, store
<1> QED
  BY <1>4, <1>7, <1>8, <1>9, StartMoves

\* A sweep lists a cleaned sentinel under a source prefix.
LEMMA SweepMoves ==
    ASSUME IInv, MoveInv, NEW c \in Clients, StartSweep(c) PROVE MoveInv'
<1>1. PICK p \in {"queue", "running"} :
        Cleaned(docs[p]) /\ Start(c, "sweep", "sweep", [Fresh EXCEPT !.dv = docs[p]])
  BY Zenon DEF StartSweep
<1>2. PICK l : l = [Fresh EXCEPT !.dv = docs[p]]
  OBVIOUS
<1>3. PICK m : m = [l EXCEPT !.op = "sweep"]
  OBVIOUS
<1>4. m.dv = docs[p] /\ m.op = "sweep"
  BY <1>2, <1>3, Zenon DEF Fresh
<1>5. p \in Prefix /\ docs[p] # None /\ docs[p].st = "cleaned"
  BY <1>1 DEF Cleaned, Prefix
<1>6. docs[p].id.from \in Sources
  BY <1>5 DEF MoveInv, Store, StoredOK
<1>7. Start(c, "sweep", "sweep", l) /\ "sweep" \in Ops[c]
  BY <1>1, <1>2, Zenon DEF Start
<1>8. Vouches("sweep", m)
  BY <1>4, <1>6, <1>7 DEF Vouches, Asking, Carrying, Recovering, Preparing, Sweeps,
         Licensed
<1>9. docs' = docs /\ record' = record
  BY DEF StartSweep, store
<1> QED
  BY <1>3, <1>7, <1>8, <1>9, StartMoves

\* A cancellation starts with its request.
LEMMA CancelMoves ==
    ASSUME IInv, MoveInv, NEW c \in Clients, StartCancel(c) PROVE MoveInv'
<1>1. PICK m : m = [Fresh EXCEPT !.op = "cancel"]
  OBVIOUS
<1>2. m.op = "cancel"
  BY <1>1, Zenon DEF Fresh
<1>3. Vouches("lookup", m)
  BY <1>2 DEF Vouches, Asking, Carrying, Recovering, Preparing, Licensed
<1>4. Start(c, "cancel", "lookup", Fresh) /\ docs' = docs /\ record' = record
  BY DEF StartCancel
<1> QED
  BY <1>1, <1>3, <1>4, StartMoves

\* The starts as a whole.
LEMMA AllStarts ==
    ASSUME IInv, MoveInv, NEW c \in Clients, StartStep(c) PROVE MoveInv'
BY RecoveringStarts, FinishMoves, SweepMoves, CancelMoves DEF StartStep

-----------------------------------------------------------------------------
\* A body that ends or asks for a sound move.
LEMMA AskMoves ==
    ASSUME IInv, MoveInv, NEW c \in Clients, pc[c] # "idle", Reads, Calling(c),
           Idle(c) \/ \E q \in Request : RequestOK(q) /\ CallTransition(c, q)
    PROVE  MoveInv'
<1>1. Proceeds(c)
  BY IdleProceeds, CallTransitionProceeds
<1> QED
  BY <1>1, MoveReading

\* claim_queued_job judges the queued body by the clock,
LEMMA ClaimBodyMoves ==
    ASSUME IInv, MoveInv, NEW c \in Clients, ClaimBody(c) PROVE MoveInv'
<1> DEFINE m == [lv[c] EXCEPT !.dv = docs["queue"], !.want = None]
<1>1. lv[c] \in Locals /\ pc[c] = "body" /\ lv[c].op = "claim"
  BY DEF ClaimBody, At, IInv
<1>2. Idle(c) \/ (NotBefore[docs["queue"].rev] <= now /\ Go(c, "check", m))
  BY DEF ClaimBody
<1>3. m.dv = docs["queue"] /\ m.op = "claim"
  BY <1>1, Zenon DEF Locals
<1>4. ASSUME NotBefore[docs["queue"].rev] <= now PROVE Vouches("check", m)
  BY <1>3, <1>4 DEF Vouches, Asking, Carrying, Recovering, Preparing, Due, Licensed
<1>5. Proceeds(c)
  BY <1>2, <1>4, IdleProceeds DEF Proceeds
<1> QED
  BY <1>5, MoveReading DEF ClaimBody

\* and moves exactly that body.
LEMMA ClaimCheckMoves ==
    ASSUME IInv, MoveInv, NEW c \in Clients, ClaimCheck(c) PROVE MoveInv'
<1>1. PICK q : q = [from |-> "queue", to |-> "running", exp |-> lv[c].dv,
                    lease |-> now + Promise, by |-> c, restarts |-> 0, lost |-> FALSE]
  OBVIOUS
<1>2. pc[c] = "check" /\ lv[c].dv \in LiveDoc /\ Due(lv[c].dv.rev)
  BY OwnWord DEF ClaimCheck, At, Remembers, Vouches
<1>3. lv[c].dv # None
  BY <1>2, NoneAssumption DEF Doc
<1>4. now + Promise \in Nat
  BY ConstantsAssumption DEF IInv, RestType
<1>5. q \in Request
  BY <1>1, <1>2, <1>4 DEF Request, Prefix, Terminal
<1>6. RequestOK(q)
  BY <1>1, <1>2, <1>3 DEF RequestOK, Sources
<1>7. Idle(c) \/ CallTransition(c, q)
  BY <1>1, Zenon DEF ClaimCheck
<1> QED
  BY <1>2, <1>5, <1>6, <1>7, AskMoves DEF ClaimCheck

\* A claim or a finish that ends.
LEMMA SettledMoves ==
    ASSUME IInv, MoveInv, NEW c \in Clients, ClaimRecheck(c) \/ FinishSettled(c)
    PROVE  MoveInv'
<1>1. Proceeds(c)
  BY IdleProceeds DEF ClaimRecheck, FinishSettled
<1>2. docs' = docs /\ record' = record /\ now' = now
  BY DEF ClaimRecheck, FinishSettled, store, Calling
<1> QED
  BY <1>1, <1>2, MoveAlone

\* renew_running_lease touches the promise only.
LEMMA RenewMoves ==
    ASSUME IInv, MoveInv, NEW c \in Clients, Renew(c) PROVE MoveInv'
<1>1. PICK d : d = [docs["running"] EXCEPT !.lease = now + Promise]
  OBVIOUS
<1>2. Live("running") /\ docs' = [docs EXCEPT !["running"] = d]
  BY <1>1 DEF Renew, IInv, StoreOK
<1>3. /\ "running" \in Prefix /\ docs["running"] # None /\ docs["running"] \in Doc
      /\ docs["running"].st = "running"
  BY <1>2 DEF Live, IInv, StoreOK, Prefix
<1>4. /\ d.restarts = docs["running"].restarts /\ d.lost = docs["running"].lost
      /\ d.rev = docs["running"].rev /\ d.st = "running"
  BY <1>1, <1>3 DEF Doc, LiveDoc, SentinelDoc
<1>5. BodyOK("running", docs["running"])
  BY <1>3 DEF MoveInv, Store, StoredOK
<1>6. BodyOK("running", d)
  BY <1>4, <1>5 DEF BodyOK, Charged
<1>7. Go(c, pc[c], lv[c]) /\ Vouches(pc[c], lv[c])
  BY OwnWord DEF Renew, Go, IInv
<1>8. Proceeds(c) /\ now' = now /\ record' = record
  BY <1>7 DEF Proceeds, Renew
<1> QED
  BY <1>2, <1>3, <1>4, <1>6, <1>8, MovePut

\* A reaper requeues, or fails, exactly the lapsed document it judged; what it
\* puts back was never charged before.
LEMMA ReapBodyMoves ==
    ASSUME IInv, MoveInv, NEW c \in Clients, ReapBody(c) PROVE MoveInv'
<1> DEFINE d == docs["running"]
           Q(to, exp, by, restarts, lost) ==
               [from |-> "running", to |-> to, exp |-> exp, lease |-> 0, by |-> by,
                restarts |-> restarts, lost |-> lost]
<1>1. /\ Calling(c) /\ Reads /\ pc[c] = "body" /\ lv[c].op = "reap"
      /\ lv[c] \in Locals /\ Reaps
  BY OwnWord DEF ReapBody, At, Licensed
<1>2. CASE CallRecover(c, lv[c], "end")
  <2>1. Proceeds(c)
    BY <1>1, <1>2, CallRecoverProceeds DEF Licensed
  <2> QED
    BY <1>1, <2>1, MoveReading
<1>3. CASE Idle(c)
  BY <1>1, <1>3, AskMoves
<1>4. CASE Live("running") /\ Lapsed(d) /\
           \/ CallTransition(c, Q("completed", None, None, d.restarts, d.lost))
           \/ CallTransition(c, Q("completed", d, d.by, d.restarts, FALSE))
           \/ CallTransition(c, Q("failed", d, d.by, d.restarts, TRUE))
           \/ ~d.lost /\ CallTransition(c, Q("queue", d, None, d.restarts + 1, TRUE))
  <2>1. d \in LiveDoc /\ d # None
    BY <1>4 DEF Live, IInv, StoreOK, Doc, SentinelDoc, Prefix
  <2>2. d.restarts \in Nat /\ d.lost \in BOOLEAN /\ d.by \in Clients \cup {None}
    BY <2>1 DEF LiveDoc
  <2>3. Charged(d)
    BY <2>1 DEF MoveInv, Store, StoredOK, BodyOK, Sources, Prefix
  <2>4. CASE \E n \in {None, d}, by \in {None, d.by}, b \in BOOLEAN :
               CallTransition(c, Q("completed", n, by, d.restarts, b))
    <3>1. PICK n \in {None, d}, by \in {None, d.by}, b \in BOOLEAN :
            CallTransition(c, Q("completed", n, by, d.restarts, b))
      BY <2>4
    <3>2. Q("completed", n, by, d.restarts, b) \in Request
      BY <2>1, <2>2 DEF Request, Prefix, Terminal
    <3>3. RequestOK(Q("completed", n, by, d.restarts, b))
      BY DEF RequestOK, Sources
    <3> HIDE DEF Q
    <3> QED
      BY <1>1, <3>1, <3>2, <3>3, AskMoves
  <2>5. CASE CallTransition(c, Q("failed", d, d.by, d.restarts, TRUE))
    <3>1. Q("failed", d, d.by, d.restarts, TRUE) \in Request
      BY <2>1, <2>2 DEF Request, Prefix, Terminal
    <3>2. RequestOK(Q("failed", d, d.by, d.restarts, TRUE))
      BY <1>4, <2>1 DEF RequestOK, Sources
    <3> HIDE DEF Q
    <3> QED
      BY <1>1, <2>5, <3>1, <3>2, AskMoves
  <2>6. CASE ~d.lost /\ CallTransition(c, Q("queue", d, None, d.restarts + 1, TRUE))
    <3>1. d.restarts = 0
      BY <2>2, <2>3, <2>6 DEF Charged
    <3>2. Q("queue", d, None, d.restarts + 1, TRUE) \in Request
      BY <2>1, <2>2 DEF Request, Prefix, Terminal
    <3>3. RequestOK(Q("queue", d, None, d.restarts + 1, TRUE))
      BY <1>1, <1>4, <2>1, <3>1 DEF RequestOK, Sources
    <3> HIDE DEF Q
    <3> QED
      BY <1>1, <2>6, <3>2, <3>3, AskMoves
  <2> HIDE DEF Q
  <2> QED
    BY <1>4, <2>2, <2>4, <2>5, <2>6
<1> QED
  BY <1>2, <1>3, <1>4, Zenon DEF ReapBody, ReapSettle, RestartRefused

\* A cancellation asks for no loss and no requeue.
LEMMA CancelRequest ==
    ASSUME NEW from \in Sources, NEW exp \in LiveDoc \cup {None}, NEW q,
           q = [from |-> from, to |-> "cancelled", exp |-> exp, lease |-> 0,
                by |-> None, restarts |-> 0, lost |-> FALSE]
    PROVE  q \in Request /\ RequestOK(q)
BY DEF Request, RequestOK, Sources, Prefix, Terminal

\* settle_queued_cancellations, cancel_job's lookup and its second try.
LEMMA CancelBodies ==
    ASSUME IInv, MoveInv, NEW c \in Clients,
           SettleBody(c) \/ CancelLookup(c) \/ CancelFollow(c)
    PROVE  MoveInv'
<1> DEFINE Q(from, exp) ==
             [from |-> from, to |-> "cancelled", exp |-> exp, lease |-> 0, by |-> None,
              restarts |-> 0, lost |-> FALSE]
<1>1. pc[c] # "idle" /\ Reads /\ Calling(c)
  BY DEF SettleBody, CancelLookup, CancelFollow, At
<1>2. ASSUME NEW from \in Sources, NEW exp \in LiveDoc \cup {None},
             CallTransition(c, Q(from, exp))
      PROVE  MoveInv'
  <2>1. Q(from, exp) \in Request /\ RequestOK(Q(from, exp))
    BY CancelRequest
  <2> HIDE DEF Q
  <2> QED
    BY <1>1, <1>2, <2>1, AskMoves
<1>3. CASE SettleBody(c)
  <2>1. Idle(c) \/ (Live("queue") /\ CallTransition(c, Q("queue", docs["queue"])))
    BY <1>3, Zenon DEF SettleBody
  <2>2. Live("queue") => docs["queue"] \in LiveDoc
    BY DEF Live, IInv, StoreOK, Doc, SentinelDoc, Prefix
  <2>3. "queue" \in Sources
    BY DEF Sources
  <2> HIDE DEF Q
  <2> QED
    BY <1>1, <1>2, <2>1, <2>2, <2>3, AskMoves
<1>4. CASE CancelFollow(c)
  <2>1. Idle(c) \/ CallTransition(c, Q("running", None))
    BY <1>4, Zenon DEF CancelFollow
  <2>2. "running" \in Sources
    BY DEF Sources
  <2> HIDE DEF Q
  <2> QED
    BY <1>1, <1>2, <2>1, <2>2, AskMoves
<1>5. CASE CancelLookup(c)
  <2>1. PICK p : p = JobPrefixes[lv[c].k]
    OBVIOUS
  <2>2. lv[c].k \in 1..6
    BY DEF IInv, Locals
  <2>3. \/ Idle(c) \/ NextProbe(c)
        \/ lv[c].k < 6 /\ p \notin Terminal /\ CallTransition(c, Q(p, None))
    BY <1>5, <2>1, Zenon DEF CancelLookup, Probe, NextProbe
  <2>4. lv[c].k < 6 /\ p \notin Terminal => p \in Sources
    BY <2>1, <2>2 DEF JobPrefixes, Terminal, Sources
  <2>5. CASE NextProbe(c)
    <3>1. [lv[c] EXCEPT !.k = @ + 1].op = lv[c].op
      BY Zenon DEF IInv, Locals
    <3>2. pc[c] = "lookup" /\ Go(c, "lookup", [lv[c] EXCEPT !.k = @ + 1])
      BY <1>5, <2>5 DEF CancelLookup, At, NextProbe
    <3>3. PICK m : m = [lv[c] EXCEPT !.k = @ + 1]
      OBVIOUS
    <3>4. Vouches("lookup", m)
      BY <3>1, <3>2, <3>3, OwnWord
         DEF Vouches, Asking, Carrying, Recovering, Preparing
    <3>5. Proceeds(c)
      BY <3>2, <3>3, <3>4 DEF Proceeds
    <3> QED
      BY <1>1, <3>5, MoveReading
  <2> HIDE DEF Q
  <2> QED
    BY <1>1, <1>2, <2>3, <2>4, <2>5, AskMoves
<1> QED
  BY <1>3, <1>4, <1>5

\* rewrite_queued_job touches the placement of a queued body only.
LEMMA RewriteMoves ==
    ASSUME IInv, MoveInv, NEW c \in Clients, RewriteBody(c) PROVE MoveInv'
<1>1. Proceeds(c) /\ now' = now /\ record' = record
  BY IdleProceeds DEF RewriteBody, Calling
<1>2. CASE docs' = docs
  BY <1>1, <1>2, MoveAlone
<1>3. CASE Live("queue") /\ \E r \in Placements : docs' = [docs EXCEPT !["queue"].rev = r]
  <2>1. PICK r \in Placements : docs' = [docs EXCEPT !["queue"].rev = r]
    BY <1>3
  <2>2. PICK d : d = [docs["queue"] EXCEPT !.rev = r]
    OBVIOUS
  <2>3. /\ "queue" \in Prefix /\ docs["queue"] # None /\ docs["queue"] \in Doc
        /\ docs["queue"].st = "queue" /\ docs' = [docs EXCEPT !["queue"] = d]
    BY <1>3, <2>1, <2>2 DEF Live, IInv, StoreOK, Prefix
  <2>4. /\ d.restarts = docs["queue"].restarts /\ d.lost = docs["queue"].lost
        /\ d.st = "queue"
    BY <2>2, <2>3 DEF Doc, LiveDoc, SentinelDoc
  <2>5. BodyOK("queue", docs["queue"])
    BY <2>3 DEF MoveInv, Store, StoredOK
  <2>6. BodyOK("queue", d)
    BY <2>4, <2>5 DEF BodyOK, Charged
  <2> QED
    BY <1>1, <2>3, <2>4, <2>6, MovePut
<1> QED
  BY <1>2, <1>3 DEF RewriteBody

\* The sweep deletes under a source prefix, whatever stands there by then.
LEMMA SweepBodies ==
    ASSUME IInv, MoveInv, NEW c \in Clients, SweepJudge(c) \/ SweepDelete(c)
    PROVE  MoveInv'
<1>1. CASE SweepJudge(c)
  <2>1. Idle(c) \/ Go(c, "delete", lv[c])
    BY <1>1 DEF SweepJudge
  <2>2. Vouches("delete", lv[c])
    BY <1>1, OwnWord
       DEF SweepJudge, At, Vouches, Asking, Carrying, Recovering, Preparing
  <2>3. Proceeds(c)
    BY <2>1, <2>2, IdleProceeds DEF Proceeds
  <2> QED
    BY <1>1, <2>3, MoveReading DEF SweepJudge
<1>2. CASE SweepDelete(c)
  <2>1. PICK p : p = lv[c].dv.id.from
    OBVIOUS
  <2>2. p \in Sources
    BY <1>2, <2>1, OwnWord DEF SweepDelete, At, Vouches
  <2>3. p \in Prefix /\ p # "failed"
    BY <2>2 DEF Sources, Prefix
  <2>4. /\ Proceeds(c) /\ now' = now /\ record' = record
        /\ docs' = [docs EXCEPT ![p] = None]
    BY <1>2, <2>1, IdleProceeds DEF SweepDelete, Calling
  <2> QED
    BY <2>3, <2>4, MovePut
<1> QED
  BY <1>1, <1>2

\* create_queued_job_if_absent: an admitted job was never lost.
LEMMA AdmitMoves ==
    ASSUME IInv, MoveInv, NEW c \in Clients,
           \/ AdmitProbe(c) \/ AdmitRecord(c) \/ AdmitMark(c) \/ AdmitCreate(c)
           \/ AdmitCheck(c)
    PROVE  MoveInv'
<1>1. /\ lv[c] \in Locals /\ lv[c].want \in Placements
      /\ Licensed(lv[c].op)
  BY OwnWord DEF AdmitProbe, AdmitRecord, AdmitMark, AdmitCreate, AdmitCheck, At,
                 Remembers, Admitting
<1>2. ASSUME NEW p \in Admitting, NEW l, l.op = lv[c].op, Go(c, p, l) PROVE Proceeds(c)
  <2>1. Vouches(p, l)
    BY <1>1, <1>2 DEF Vouches, Asking, Carrying, Recovering, Preparing, Admitting
  <2> QED
    BY <1>2, <2>1 DEF Proceeds
<1>3. now' = now /\ record' = record
  BY DEF AdmitProbe, AdmitRecord, AdmitMark, AdmitCreate, AdmitCheck, Calling, Reads,
         store
<1>4. Proceeds(c)
  <2>1. CASE AdmitProbe(c)
    <3> DEFINE m == [lv[c] EXCEPT !.ans = TRUE, !.k = 1]
               n == [lv[c] EXCEPT !.k = 1]
               k == [lv[c] EXCEPT !.k = @ + 1]
    <3>1. Go(c, "admitRecord", m) \/ Go(c, "admitRecord", n) \/ Go(c, pc[c], k)
      BY <2>1, Zenon DEF AdmitProbe, Probe
    <3>2. m.op = lv[c].op /\ n.op = lv[c].op /\ k.op = lv[c].op
      BY <1>1, Zenon DEF Locals
    <3>3. pc[c] \in Admitting /\ "admitRecord" \in Admitting
      BY <2>1 DEF AdmitProbe, At, Admitting
    <3> HIDE DEF m, n, k
    <3> QED
      BY <1>2, <3>1, <3>2, <3>3
  <2>2. CASE AdmitRecord(c) \/ AdmitMark(c) \/ AdmitCreate(c) \/ AdmitCheck(c)
    BY <1>2, <2>2, IdleProceeds
       DEF AdmitRecord, AdmitMark, AdmitCreate, AdmitCheck, Admitting
  <2> QED
    BY <2>1, <2>2
<1>5. CASE AdmitCreate(c) /\ docs["queue"] = None
  <2>1. PICK d : d = Queued(lv[c].want)
    OBVIOUS
  <2>2. docs' = [docs EXCEPT !["queue"] = d] /\ "queue" \in Prefix
    BY <1>5, <2>1 DEF AdmitCreate, Prefix
  <2>3. BodyOK("queue", d) /\ d.st = "queue"
    BY <2>1 DEF Queued, BodyOK, Charged
  <2> QED
    BY <1>3, <1>4, <2>2, <2>3, MovePut
<1>6. CASE ~(AdmitCreate(c) /\ docs["queue"] = None)
  <2>1. docs' = docs
    BY <1>6 DEF AdmitProbe, AdmitRecord, AdmitMark, AdmitCreate, AdmitCheck, Reads, store
  <2> QED
    BY <1>3, <1>4, <2>1, MoveAlone
<1> QED
  BY <1>5, <1>6

\* The bodies as a whole.
LEMMA BodyMoves ==
    ASSUME IInv, MoveInv, NEW c \in Clients, BodyStep(c) PROVE MoveInv'
BY ClaimBodyMoves, ClaimCheckMoves, SettledMoves, RenewMoves, ReapBodyMoves,
   CancelBodies, RewriteMoves, SweepBodies, AdmitMoves
   DEF BodyStep

\* A client that dies.
LEMMA CrashMoves ==
    ASSUME IInv, MoveInv, NEW c \in Clients, Crash(c) PROVE MoveInv'
<1>1. Proceeds(c) /\ docs' = docs /\ record' = record /\ now' = now
  BY IdleProceeds DEF Crash, store
<1> QED
  BY <1>1, MoveAlone

\* The clock moves on: what is due stays due and what lapsed stays lapsed.
LEMMA TickMoves == ASSUME IInv, MoveInv, Tick \/ UNCHANGED vars PROVE MoveInv'
<1>1. /\ docs' = docs /\ record' = record /\ pc' = pc /\ lv' = lv
      /\ now \in Nat /\ now' \in Nat /\ now <= now'
  BY DEF Tick, vars, store, IInv, RestType
<1>2. ASSUME NEW r \in Placements PROVE Due(r) => Due(r)'
  BY <1>1, ConstantsAssumption DEF Due
<1>3. ASSUME NEW d \in LiveDoc PROVE Lapsed(d) => Lapsed(d)'
  BY <1>1 DEF Lapsed, LiveDoc
<1>4. ASSUME NEW p, NEW d \in Doc PROVE BodyOK(p, d) => BodyOK(p, d)'
  <2>1. d.rev \in Placements
    BY DEF Doc, LiveDoc, SentinelDoc
  <2> QED
    BY <1>2, <2>1 DEF BodyOK, Charged
<1>5. Failed => Failed'
  BY <1>1 DEF Failed, Live
<1>6. ASSUME NEW r \in Record PROVE IdOK(r.id) => IdOK(r.id)'
  <2>1. r.id.src \in LiveDoc /\ r.id.dst \in Doc
    BY RecordParts DEF Doc
  <2> QED
    BY <1>3, <1>4, <1>5, <2>1 DEF IdOK
<1>7. ASSUME NEW q \in Request PROVE RequestOK(q) => RequestOK(q)'
  <2>1. q.exp # None => q.exp \in LiveDoc /\ q.exp.rev \in Placements
    BY DEF Request, LiveDoc
  <2> QED
    BY <1>2, <1>3, <2>1 DEF RequestOK
<1>8. ASSUME NEW p \in Prefix PROVE StoredOK(p)'
  <2>1. docs[p] # None => docs[p] \in Doc
    BY DEF IInv, StoreOK
  <2>2. StoredOK(p) /\ docs'[p] = docs[p]
    BY <1>1 DEF MoveInv, Store
  <2>3. docs[p] # None => BodyOK(p, docs[p]) /\ (BodyOK(p, docs[p]) => BodyOK(p, docs[p])')
    <3> SUFFICES ASSUME docs[p] # None
                 PROVE  BodyOK(p, docs[p]) /\ BodyOK(p, docs[p])'
      OBVIOUS
    <3>1. PICK d : d = docs[p]
      OBVIOUS
    <3>2. d \in Doc /\ BodyOK(p, d)
      BY <2>1, <2>2, <3>1 DEF StoredOK
    <3>3. BodyOK(p, d)'
      BY <1>4, <3>2
    <3> QED
      BY <2>2, <3>1, <3>2, <3>3 DEF BodyOK, Due, Charged
  <2> QED
    BY <2>2, <2>3 DEF StoredOK
<1>9. (record # None => IdOK(record.id))'
  <2> SUFFICES ASSUME record # None PROVE IdOK(record.id)'
    BY <1>1
  <2>1. PICK r : r = record
    OBVIOUS
  <2>2. r \in Record /\ IdOK(r.id)
    BY <2>1 DEF IInv, StoreOK, ObjectsType, MoveInv, Store
  <2>3. IdOK(r.id)'
    BY <1>6, <2>2
  <2> QED
    BY <1>1, <2>1, <2>3 DEF IdOK, BodyOK, Charged
<1>10. ASSUME NEW c \in Clients PROVE Vouches(pc[c], lv[c])'
  <2>1. PICK p, l : p = pc[c] /\ l = lv[c]
    OBVIOUS
  <2>2. Vouches(p, l) /\ Remembers(p, l)
    BY <2>1, OwnWord
  <2>3. Asking(p, l) => RequestOK(l.rq)'
    BY <1>7, <2>2 DEF Vouches, Asking, Remembers
  <2>4. p \in Carrying => IdOK(l.tr.id)'
    BY <1>6, <2>2 DEF Vouches, Remembers
  <2>5. p \in {"prepare", "install"} => IdOK(l.cand.id)'
    BY <1>6, <2>2 DEF Vouches, Remembers
  <2>6. p = "check" => Due(l.dv.rev)'
    BY <1>2, <2>2 DEF Vouches, Remembers, LiveDoc
  <2>7. Vouches(p, l)'
    BY <2>2, <2>3, <2>4, <2>5, <2>6 DEF Vouches, Asking, SourceOK, Charged
  <2> QED
    BY <1>1, <2>1, <2>7 DEF Vouches, Asking, SourceOK, Charged
<1> QED
  BY <1>8, <1>9, <1>10 DEF MoveInv, Store

-----------------------------------------------------------------------------
\* A job just admitted, or none, with every client idle.
LEMMA InitMoves == Init => MoveInv
<1> SUFFICES ASSUME Init PROVE MoveInv
  OBVIOUS
<1>1. PICK r \in Placements :
        docs = [p \in Prefix |-> IF p = "queue" /\ Admitted THEN Queued(r) ELSE None]
  BY DEF Init
<1>2. ASSUME NEW p \in Prefix PROVE StoredOK(p)
  <2>1. docs[p] = None \/ (p = "queue" /\ docs[p] = Queued(r))
    BY <1>1
  <2> QED
    BY <2>1 DEF StoredOK, BodyOK, Charged, Queued
<1>3. ASSUME NEW c \in Clients PROVE Vouches(pc[c], lv[c])
  <2>1. pc[c] = "idle"
    BY DEF Init
  <2> QED
    BY <2>1 DEF Vouches, Asking, Carrying, Recovering, Preparing
<1> QED
  BY <1>2, <1>3 DEF MoveInv, Store, Init

\* The invariant is inductive, given the types and fences.
LEMMA MovesInductive == IInv /\ MoveInv /\ [Next]_vars => MoveInv'
<1> SUFFICES ASSUME IInv, MoveInv, [Next]_vars PROVE MoveInv'
  OBVIOUS
<1>1. CASE Tick \/ UNCHANGED vars
  BY <1>1, TickMoves
<1>2. ASSUME NEW c \in Clients, StartStep(c) \/ Step(c) \/ Crash(c) PROVE MoveInv'
  BY <1>2, AllStarts, RecoverMoves, PrepareMoves, BodyMoves, CrashMoves DEF Step
<1> QED
  BY <1>1, <1>2 DEF Next

\* Every promise in the record, in a client's hands or on its way there is
\* sound: a claim is due, a requeue is a reaper's and of a lapsed lease, a
\* document that went back is charged with it.
THEOREM MoveInvariance == Spec => []MoveInv
BY Invariance, InitMoves, MovesInductive, PTL DEF Spec

\* A job that loses its lease again and again is requeued once only, whoever
\* reaps it, takes it back or dies in between (expiry.rs settle).
THEOREM GoesBackOnce == Spec => []RequeuedOnce
<1>1. MoveInv => RequeuedOnce
  BY DEF MoveInv, Store, StoredOK, BodyOK, RequeuedOnce
<1> QED
  BY <1>1, MoveInvariance, PTL

\* No worker ever starts a job before its hour, although placement may rewrite
\* the body between the check and the move (claims.rs claim_queued_job).
THEOREM StartsWhenDue == Spec => []NotClaimedEarly
<1>1. MoveInv => NotClaimedEarly
  BY DEF MoveInv, Store, StoredOK, BodyOK, Due, NotClaimedEarly, Live, Prefix
<1> QED
  BY <1>1, MoveInvariance, PTL

-----------------------------------------------------------------------------
\* Only the fence swap of a recovery lands a fence, on the version it pinned.
LEMMA FenceLands ==
    ASSUME [Next]_vars, NEW id \in fenced' \ fenced
    PROVE  \E c \in Clients : /\ pc[c] = "fence" /\ id = lv[c].tr.id
                              /\ docs[id.from] = id.src
<1>1. CASE Tick \/ UNCHANGED vars
  BY <1>1 DEF Tick, vars, store
<1>2. ASSUME NEW c \in Clients, StartStep(c) \/ Crash(c) PROVE fenced' = fenced
  BY <1>2 DEF StartStep, StartAdmit, StartClaim, StartTakeBack, StartFinish, StartReap,
              StartCancel, StartSettle, StartRewrite, StartSweep, Crash, store
<1>3. ASSUME NEW c \in Clients, PrepareStep(c) PROVE fenced' = fenced
  BY <1>3 DEF PrepareStep, PrepareSource, PrepareMoved, PrepareBasis, PrepareRecord,
              Install, Reads, store
<1>4. ASSUME NEW c \in Clients, BodyStep(c) PROVE fenced' = fenced
  BY <1>4 DEF BodyStep, ClaimBody, ClaimCheck, ClaimRecheck, Renew, FinishSettled,
              ReapBody, SettleBody, RewriteBody, CancelLookup, CancelFollow, SweepJudge,
              SweepDelete, AdmitProbe, AdmitRecord, AdmitMark, AdmitCreate, AdmitCheck,
              Reads, store
<1>5. ASSUME NEW c \in Clients, RecoverStep(c), ~FenceSwap(c) PROVE fenced' = fenced
  BY <1>5 DEF RecoverStep, RecoverRecord, AbortedDestination, AbortedSource, FenceRead,
              GoneDestination, GoneProbe, DestinationRead, DestinationWrite,
              DestinationIndex, MarkCompleted, MarkAborted, SetState, FinishDestination,
              FinishProbe, FinishSource, RecordOutcome, CleanSource, Unmark, CleanSwap,
              RetireRecord, Reads, store
<1>6. ASSUME NEW c \in Clients, FenceSwap(c)
      PROVE  pc[c] = "fence" /\ id = lv[c].tr.id /\ docs[id.from] = id.src
  BY <1>6 DEF FenceSwap, At
<1> QED
  BY <1>1, <1>2, <1>3, <1>4, <1>5, <1>6 DEF Next, Step

\* A reaper never takes a job whose lease holds: the document its fence lands
\* on is the very one whose promise had passed, however late the fence lands
\* and whoever carries it out (claims.rs renew_running_lease, expiry.rs).
THEOREM ReapsOnlyLapsed == Spec => LiveLeaseNeverReaped
<1>1. IInv /\ MoveInv /\ [Next]_vars =>
        [\A id \in fenced' \ fenced : Reaped(id) => Lapsed(docs["running"])]_vars
  <2> SUFFICES ASSUME IInv, MoveInv, [Next]_vars, NEW id \in fenced' \ fenced, Reaped(id)
               PROVE  Lapsed(docs["running"])
    OBVIOUS
  <2>1. PICK c \in Clients : /\ pc[c] = "fence" /\ id = lv[c].tr.id
                             /\ docs[id.from] = id.src
    BY FenceLands
  <2>2. IdOK(id)
    BY <2>1, OwnWord DEF Vouches, Carrying
  <2>3. id.from = "running" /\ Lapsed(id.src)
    BY <2>2 DEF Reaped, IdOK, Failed
  <2> QED
    BY <2>1, <2>3
<1> QED
  BY <1>1, Invariance, MoveInvariance, PTL DEF Spec, LiveLeaseNeverReaped

-----------------------------------------------------------------------------
\* Without reapers and sweeps a document that has left queue/ stays away, and
\* a document there stays there.
LEMMA LeavesForGood ==
    ASSUME IInv, MoveInv, [Next]_vars, ~Reaps, ~Sweeps, docs["queue"] # None
    PROVE  docs'["queue"] # None /\ (Left => Left')
<1>1. docs \in [Prefix -> Doc \cup {None}] /\ "queue" \in Prefix
  BY DEF IInv, StoreOK, Prefix
<1>2. CASE Tick \/ UNCHANGED vars
  BY <1>2 DEF Tick, vars, store, Left
<1>3. ASSUME NEW c \in Clients, StartStep(c) \/ Crash(c) PROVE docs' = docs
  BY <1>3 DEF StartStep, StartAdmit, StartClaim, StartTakeBack, StartFinish, StartReap,
              StartCancel, StartSettle, StartRewrite, StartSweep, Crash, store
<1>4. ASSUME NEW c \in Clients, PrepareStep(c) PROVE docs' = docs
  BY <1>4 DEF PrepareStep, PrepareSource, PrepareMoved, PrepareBasis, PrepareRecord,
              Install, Reads, store
<1>5. ASSUME NEW c \in Clients, BodyStep(c),
             ~Renew(c), ~RewriteBody(c), ~SweepDelete(c), ~AdmitCreate(c)
      PROVE  docs' = docs
  BY <1>5 DEF BodyStep, ClaimBody, ClaimCheck, ClaimRecheck, FinishSettled, ReapBody,
              SettleBody, CancelLookup, CancelFollow, SweepJudge, AdmitProbe,
              AdmitRecord, AdmitMark, AdmitCheck, Reads, store
<1>6. ASSUME NEW c \in Clients, RecoverStep(c),
             ~FenceSwap(c), ~CleanSource(c), ~CleanSwap(c), ~DestinationWrite(c)
      PROVE  docs' = docs
  BY <1>6 DEF RecoverStep, RecoverRecord, AbortedDestination, AbortedSource, FenceRead,
              GoneDestination, GoneProbe, DestinationRead, DestinationIndex,
              MarkCompleted, MarkAborted, SetState, FinishDestination, FinishProbe,
              FinishSource, RecordOutcome, Unmark, RetireRecord, Reads, store
<1>7. ASSUME docs' = docs PROVE docs'["queue"] # None /\ (Left => Left')
  BY <1>7 DEF Left
<1>8. ASSUME NEW c \in Clients, Renew(c)
      PROVE  docs'["queue"] # None /\ (Left => Left')
  BY <1>1, <1>8 DEF Renew, Left
<1>9. ASSUME NEW c \in Clients, RewriteBody(c)
      PROVE  docs'["queue"] # None /\ (Left => Left')
  <2>1. CASE docs' = docs
    BY <1>7, <2>1
  <2>2. CASE Live("queue") /\ docs' # docs
    <3>1. PICK r \in Placements : docs' = [docs EXCEPT !["queue"].rev = r]
      BY <1>9, <2>2 DEF RewriteBody
    <3>2. docs["queue"] \in LiveDoc /\ ~Left
      BY <1>1, <2>2 DEF Live, Left, Doc, SentinelDoc
    <3>3. docs'["queue"] \in LiveDoc
      BY <1>1, <3>1, <3>2 DEF LiveDoc
    <3> QED
      BY <3>2, <3>3, NoneAssumption DEF Doc
  <2> QED
    BY <1>9, <2>1, <2>2 DEF RewriteBody
<1>10. ASSUME NEW c \in Clients, SweepDelete(c) PROVE FALSE
  BY <1>10, OwnWord DEF SweepDelete, At, Vouches
<1>11. ASSUME NEW c \in Clients, AdmitCreate(c) PROVE docs' = docs
  BY <1>11 DEF AdmitCreate
<1>12. ASSUME NEW c \in Clients, DestinationWrite(c)
       PROVE  docs'["queue"] = docs["queue"]
  <2>1. PICK id : id = lv[c].tr.id
    OBVIOUS
  <2>2. IdOK(id)
    BY <1>12, <2>1, OwnWord DEF DestinationWrite, At, Vouches, Carrying
  <2>3. id.to # "queue"
    BY <2>2 DEF IdOK
  <2>4. lv[c] \in Locals
    BY DEF IInv
  <2>5. docs' = docs \/ docs' = [docs EXCEPT ![id.to] = id.dst]
    BY <1>12, <2>1, <2>4 DEF DestinationWrite, Locals
  <2> QED
    BY <1>1, <2>3, <2>5
<1>13. ASSUME NEW c \in Clients, FenceSwap(c) \/ CleanSource(c) \/ CleanSwap(c)
       PROVE  docs'["queue"] # None /\ (Left => Left')
  <2>1. PICK id : id = lv[c].tr.id
    OBVIOUS
  <2>2. id \in TransitionId
    BY <1>13, <2>1, RecordParts, OwnWord
       DEF FenceSwap, CleanSource, CleanSwap, At, Remembers, Carrying
  <2>3. \/ docs'["queue"] = docs["queue"]
        \/ \E st \in {"fence", "cleaned"} :
             docs'["queue"] = Stamp(docs["queue"], st, id)
    <3>1. CASE FenceSwap(c)
      BY <1>1, <2>1, <3>1 DEF FenceSwap
    <3>2. CASE CleanSource(c)
      BY <1>1, <2>1, <3>2 DEF CleanSource
    <3>3. CASE CleanSwap(c)
      BY <1>1, <2>1, <3>3 DEF CleanSwap
    <3> QED
      BY <1>13, <3>1, <3>2, <3>3
  <2>4. ASSUME NEW st \in {"fence", "cleaned"}
        PROVE  /\ Stamp(docs["queue"], st, id) # None
               /\ Stamp(docs["queue"], st, id).st # "queue"
    <3>1. /\ Stamp(docs["queue"], st, id) \in SentinelDoc
          /\ Stamp(docs["queue"], st, id).st = st
      BY <1>1, <2>2, StampOK
    <3> QED
      BY <3>1, NoneAssumption DEF Doc
  <2> QED
    BY <2>3, <2>4 DEF Left
<1>14. ASSUME NEW c \in Clients, BodyStep(c)
       PROVE  docs'["queue"] # None /\ (Left => Left')
  BY <1>5, <1>7, <1>8, <1>9, <1>10, <1>11, <1>14
<1>15. ASSUME NEW c \in Clients, RecoverStep(c)
       PROVE  docs'["queue"] # None /\ (Left => Left')
  BY <1>6, <1>7, <1>12, <1>13, <1>15 DEF Left
<1> QED
  BY <1>2, <1>3, <1>4, <1>7, <1>14, <1>15 DEF Next, Step

\* The calls at which an operation starts, is asked, answered or returned to:
\* nothing about the store has to be known there.
Landing ==
    {"idle", "record", "source", "body", "check", "recheck", "settled", "lookup",
     "follow", "sweep", "admit", "admitRecord"}

Lands(c) ==
    (pc' = pc /\ lv' = lv) \/ \E p \in Landing : \E l : Go(c, p, l)

\* Returning, answering and asking land there,
LEMMA ReturnsLand ==
    ASSUME IInv, NEW c \in Clients
    PROVE  /\ \A p \in Landing : \A l : Go(c, p, l) => Lands(c)
           /\ Idle(c) => Lands(c)
           /\ \A l, ret : CallRecover(c, l, ret) => Lands(c)
           /\ \A q : CallTransition(c, q) => Lands(c)
           /\ \A b \in BOOLEAN : Answer(c, b) => Lands(c)
           /\ \A b \in BOOLEAN : Recovered(c, b) => Lands(c)
<1>1. ASSUME NEW p \in Landing, NEW l, Go(c, p, l) PROVE Lands(c)
  BY <1>1 DEF Lands
<1>2. ASSUME Idle(c) PROVE Lands(c)
  BY <1>1, <1>2 DEF Idle, Landing
<1>3. ASSUME NEW l, NEW ret, CallRecover(c, l, ret) PROVE Lands(c)
  BY <1>1, <1>3 DEF CallRecover, Landing
<1>4. ASSUME NEW q, CallTransition(c, q) PROVE Lands(c)
  BY <1>3, <1>4 DEF CallTransition
<1>5. ASSUME NEW b \in BOOLEAN, Answer(c, b) PROVE Lands(c)
  <2>1. Idle(c) \/ \E p \in {"recheck", "follow", "settled"} : \E l : Go(c, p, l)
    BY <1>5 DEF Answer
  <2> QED
    BY <1>1, <1>2, <2>1 DEF Landing
<1>6. ASSUME NEW b \in BOOLEAN, Recovered(c, b) PROVE Lands(c)
  <2>1. PICK m : m = [lv[c] EXCEPT !.tr = None, !.dv = None, !.ans = FALSE, !.k = 1]
    OBVIOUS
  <2>2. m.ret \in {"source", "loop", "refuse", "answer", "body", "end"}
    BY <2>1 DEF IInv, Locals
  <2>3. \/ \E p \in {"source", "admit", "body"} : Go(c, p, m)
        \/ CallRecover(c, m, "source") \/ Answer(c, FALSE) \/ Answer(c, TRUE) \/ Idle(c)
    BY <1>6, <2>1, <2>2 DEF Recovered
  <2> QED
    BY <1>1, <1>2, <1>3, <1>5, <2>3 DEF Landing
<1> QED
  BY <1>1, <1>2, <1>3, <1>4, <1>5, <1>6

\* starting and dying,
LEMMA StartsLand ==
    ASSUME IInv, NEW c \in Clients, StartStep(c) \/ Crash(c) PROVE Lands(c)
<1>1. CASE StartStep(c)
  <2>1. \E op, l : \E p \in {"record", "sweep", "lookup"} : Start(c, op, p, l)
    BY <1>1, Zenon
       DEF StartStep, StartAdmit, StartClaim, StartTakeBack, StartFinish, StartReap,
           StartCancel, StartSettle, StartRewrite, StartSweep, StartRecovering
  <2> QED
    BY <2>1 DEF Start, Lands, Landing
<1>2. CASE Crash(c)
  BY <1>2, ReturnsLand DEF Crash
<1> QED
  BY <1>1, <1>2

\* and the bodies, but for the sweep and the last writes of an admission.
LEMMA BodiesLand ==
    ASSUME IInv, NEW c \in Clients, BodyStep(c), ~SweepJudge(c), ~AdmitRecord(c),
           ~AdmitMark(c), ~AdmitCreate(c)
    PROVE  Lands(c)
<1>1. CASE ClaimBody(c)
  <2>1. Idle(c) \/ \E l : Go(c, "check", l)
    BY <1>1, Zenon DEF ClaimBody
  <2> QED
    BY <2>1, ReturnsLand DEF Landing
<1>2. CASE ClaimCheck(c) \/ SettleBody(c) \/ CancelFollow(c)
  <2>1. Idle(c) \/ \E q : CallTransition(c, q)
    BY <1>2, Zenon DEF ClaimCheck, SettleBody, CancelFollow
  <2> QED
    BY <2>1, ReturnsLand
<1>3. CASE ClaimRecheck(c) \/ FinishSettled(c) \/ RewriteBody(c) \/ SweepDelete(c)
           \/ AdmitCheck(c)
  BY <1>3, ReturnsLand
     DEF ClaimRecheck, FinishSettled, RewriteBody, SweepDelete, AdmitCheck
<1>4. CASE Renew(c)
  BY <1>4 DEF Renew, Lands
<1>5. CASE ReapBody(c)
  <2>1. Idle(c) \/ CallRecover(c, lv[c], "end") \/ \E q : CallTransition(c, q)
    BY <1>5, Zenon DEF ReapBody, ReapSettle
  <2> QED
    BY <2>1, ReturnsLand
<1>6. CASE CancelLookup(c)
  <2>1. Idle(c) \/ (\E q : CallTransition(c, q)) \/ \E l : Go(c, "lookup", l)
    BY <1>6, Zenon DEF CancelLookup, Probe, At
  <2> QED
    BY <2>1, ReturnsLand DEF Landing
<1>7. CASE AdmitProbe(c)
  <2>1. \E l : Go(c, "admitRecord", l) \/ Go(c, "admit", l)
    BY <1>7, Zenon DEF AdmitProbe, Probe, At
  <2> QED
    BY <2>1 DEF Lands, Landing
<1> QED
  BY <1>1, <1>2, <1>3, <1>4, <1>5, <1>6, <1>7 DEF BodyStep

-----------------------------------------------------------------------------
\* The calls that carry something about the marker; most steps lead elsewhere.
Marking == {"admitCreate", "admitCheck", "unmark"}
Elsewhere(c) == pc' = pc \/ \E p, l : Go(c, p, l) /\ p \notin Marking

\* So do returning, answering and asking.
LEMMA LeadElsewhere ==
    ASSUME IInv, NEW c \in Clients
    PROVE  /\ \A p, l : Go(c, p, l) /\ p \notin Marking => Elsewhere(c)
           /\ Lands(c) => Elsewhere(c)
           /\ Idle(c) => Elsewhere(c)
           /\ \A l, ret : CallRecover(c, l, ret) => Elsewhere(c)
           /\ \A b \in BOOLEAN : Answer(c, b) \/ Recovered(c, b) => Elsewhere(c)
<1>1. Lands(c) => Elsewhere(c)
  BY DEF Lands, Elsewhere, Landing, Marking
<1> QED
  BY <1>1, ReturnsLand DEF Elsewhere

\* Of a recovery only the cleaning of a queued source leads to the marker.
LEMMA RecoverElsewhere ==
    ASSUME IInv, NEW c \in Clients, RecoverStep(c), ~CleanSource(c) PROVE Elsewhere(c)
<1>1. CASE RecoverRecord(c)
  <2>1. Recovered(c, FALSE) \/ \E p \in {"abortDest", "finish", "fenceRead"} : \E l : Go(c, p, l)
    <3>1. record = None \/ record.state \in {"prepared", "completed", "aborted", "retired"}
      BY DEF IInv, StoreOK, ObjectsType, Record
    <3> QED
      BY <1>1, <3>1 DEF RecoverRecord
  <2> QED
    BY <2>1, LeadElsewhere DEF Marking
<1>2. CASE ~RecoverRecord(c)
  <2>1. Recovers(c)
    BY <1>2, RecoveryGoesOn DEF RecoverStep
  <2>2. ASSUME NEW p \in Straight, NEW l, Go(c, p, l) PROVE Elsewhere(c)
    BY <2>2 DEF Elsewhere, Marking, Straight
  <2> QED
    BY <2>1, <2>2, LeadElsewhere DEF Recovers
<1> QED
  BY <1>1, <1>2

\* Preparing, starting and dying lead elsewhere.
LEMMA OthersElsewhere ==
    ASSUME IInv, NEW c \in Clients, StartStep(c) \/ PrepareStep(c) \/ Crash(c)
    PROVE  Elsewhere(c)
<1>1. CASE StartStep(c) \/ Crash(c)
  BY <1>1, StartsLand, LeadElsewhere
<1>2. CASE PrepareSource(c)
  <2>1. \/ Answer(c, FALSE) \/ CallRecover(c, lv[c], "refuse")
        \/ \E p \in {"moved", "basis"} : \E l : Go(c, p, l)
    BY <1>2 DEF PrepareSource
  <2> QED
    BY <2>1, LeadElsewhere DEF Marking
<1>3. CASE PrepareMoved(c)
  <2>1. Answer(c, FALSE) \/ Answer(c, TRUE)
    BY <1>3 DEF PrepareMoved, Live
  <2> QED
    BY <2>1, LeadElsewhere
<1>4. CASE PrepareBasis(c)
  <2>1. Answer(c, FALSE) \/ \E l : Go(c, "prepare", l)
    BY <1>4, Zenon DEF PrepareBasis, Fail
  <2> QED
    BY <2>1, LeadElsewhere DEF Marking
<1>5. CASE PrepareRecord(c)
  <2>1. Answer(c, FALSE) \/ \E l : CallRecover(c, l, "loop") \/ Go(c, "install", l)
    BY <1>5, Zenon DEF PrepareRecord, Fail
  <2> QED
    BY <2>1, LeadElsewhere DEF Marking
<1>6. CASE Install(c)
  <2>1. \E l : CallRecover(c, l, "answer") \/ CallRecover(c, l, "source")
    BY <1>6, Zenon DEF Install
  <2> QED
    BY <2>1, LeadElsewhere
<1> QED
  BY <1>1, <1>2, <1>3, <1>4, <1>5, <1>6 DEF PrepareStep

\* So do the bodies but for the two last writes of an admission.
LEMMA BodyElsewhere ==
    ASSUME IInv, NEW c \in Clients, BodyStep(c), ~AdmitRecord(c), ~AdmitMark(c),
           ~AdmitCreate(c)
    PROVE  Elsewhere(c)
<1>1. CASE SweepJudge(c)
  <2>1. Idle(c) \/ Go(c, "delete", lv[c])
    BY <1>1 DEF SweepJudge
  <2> QED
    BY <2>1, LeadElsewhere DEF Marking
<1> QED
  BY <1>1, BodiesLand, LeadElsewhere

\* The record check of an admission leads to the marker, not past it.
LEMMA AdmitRecordElsewhere ==
    ASSUME IInv, NEW c \in Clients, AdmitRecord(c) PROVE Elsewhere(c)
<1>1. Idle(c) \/ Go(c, "admitMark", lv[c])
  BY DEF AdmitRecord
<1> QED
  BY <1>1, LeadElsewhere DEF Marking

-----------------------------------------------------------------------------
\* Only an admission puts a document into an empty queue/.
LEMMA NeverFills ==
    ASSUME IInv, MoveInv, ~Reaps, NEW c \in Clients, docs["queue"] = None,
           StartStep(c) \/ Step(c) \/ Crash(c), ~AdmitCreate(c)
    PROVE  docs'["queue"] = None
<1>1. docs \in [Prefix -> Doc \cup {None}] /\ "queue" \in Prefix
  BY DEF IInv, StoreOK, Prefix
<1>2. CASE StartStep(c) \/ Crash(c)
  BY <1>2 DEF StartStep, StartAdmit, StartClaim, StartTakeBack, StartFinish, StartReap,
              StartCancel, StartSettle, StartRewrite, StartSweep, Crash, store
<1>3. CASE PrepareStep(c)
  BY <1>3 DEF PrepareStep, PrepareSource, PrepareMoved, PrepareBasis, PrepareRecord,
              Install, Reads, store
<1>4. CASE Renew(c)
  BY <1>1, <1>4 DEF Renew
<1>5. CASE RewriteBody(c)
  BY <1>5 DEF RewriteBody, Live
<1>6. CASE SweepDelete(c)
  BY <1>1, <1>6 DEF SweepDelete
<1>7. CASE BodyStep(c) /\ ~Renew(c) /\ ~RewriteBody(c) /\ ~SweepDelete(c)
  BY <1>7 DEF BodyStep, ClaimBody, ClaimCheck, ClaimRecheck, FinishSettled, ReapBody,
              SettleBody, CancelLookup, CancelFollow, SweepJudge, AdmitProbe,
              AdmitRecord, AdmitMark, AdmitCheck, Reads, store
<1>8. CASE DestinationWrite(c)
  <2>1. PICK id : id = lv[c].tr.id
    OBVIOUS
  <2>2. IdOK(id)
    BY <1>8, <2>1, OwnWord DEF DestinationWrite, At, Vouches, Carrying
  <2>3. id.to # "queue" /\ lv[c] \in Locals
    BY <2>2 DEF IdOK, IInv
  <2>4. docs' = docs \/ docs' = [docs EXCEPT ![id.to] = id.dst]
    BY <1>8, <2>1, <2>3 DEF DestinationWrite, Locals
  <2> QED
    BY <1>1, <2>3, <2>4
<1>9. CASE FenceSwap(c) \/ CleanSource(c) \/ CleanSwap(c)
  <2>1. PICK id : id = lv[c].tr.id
    OBVIOUS
  <2>2. id.src # None
    BY <1>9, <2>1, RecordParts, OwnWord, NoneAssumption
       DEF FenceSwap, CleanSource, CleanSwap, At, Remembers, Carrying, Doc
  <2>3. docs' = docs \/ (docs[id.from] # None /\ \E d : docs' = [docs EXCEPT ![id.from] = d])
    <3>1. CASE FenceSwap(c)
      BY <2>1, <2>2, <3>1 DEF FenceSwap
    <3>2. CASE CleanSource(c)
      BY <2>1, <3>2 DEF CleanSource, Sentinel
    <3>3. CASE CleanSwap(c)
      BY <2>1, <3>3 DEF CleanSwap, Sentinel
    <3> QED
      BY <1>9, <3>1, <3>2, <3>3
  <2> QED
    BY <1>1, <2>3
<1>10. CASE RecoverStep(c) /\ ~DestinationWrite(c)
            /\ ~(FenceSwap(c) \/ CleanSource(c) \/ CleanSwap(c))
  BY <1>10 DEF RecoverStep, RecoverRecord, AbortedDestination, AbortedSource, FenceRead,
               GoneDestination, GoneProbe, DestinationRead, DestinationIndex,
               MarkCompleted, MarkAborted, SetState, FinishDestination, FinishProbe,
               FinishSource, RecordOutcome, Unmark, RetireRecord, Reads, store
<1> QED
  BY <1>2, <1>3, <1>4, <1>5, <1>6, <1>7, <1>8, <1>9, <1>10 DEF Step

\* Four calls write the marker.
LEMMA MarkerKept ==
    ASSUME NEW c \in Clients, StartStep(c) \/ Step(c) \/ Crash(c),
           ~DestinationIndex(c), ~Unmark(c), ~AdmitMark(c), ~AdmitCheck(c)
    PROVE  marker' = marker
<1>1. CASE StartStep(c) \/ Crash(c)
  BY <1>1 DEF StartStep, StartAdmit, StartClaim, StartTakeBack, StartFinish, StartReap,
              StartCancel, StartSettle, StartRewrite, StartSweep, Crash, store
<1>2. CASE PrepareStep(c)
  BY <1>2 DEF PrepareStep, PrepareSource, PrepareMoved, PrepareBasis, PrepareRecord,
              Install, Reads, store
<1>3. CASE BodyStep(c)
  BY <1>3 DEF BodyStep, ClaimBody, ClaimCheck, ClaimRecheck, Renew, FinishSettled,
              ReapBody, SettleBody, RewriteBody, CancelLookup, CancelFollow, SweepJudge,
              SweepDelete, AdmitProbe, AdmitRecord, AdmitCreate, Reads, store
<1>4. CASE RecoverStep(c)
  BY <1>4 DEF RecoverStep, RecoverRecord, AbortedDestination, AbortedSource, FenceRead,
              FenceSwap, GoneDestination, GoneProbe, DestinationRead, DestinationWrite,
              MarkCompleted, MarkAborted, SetState, FinishDestination, FinishProbe,
              FinishSource, RecordOutcome, CleanSource, CleanSwap, RetireRecord, Reads,
              store
<1> QED
  BY <1>1, <1>2, <1>3, <1>4 DEF Step

\* What a client on its way to a call about the marker relies on.
Relies(p) ==
    /\ p = "admitCreate" => marker \/ Left
    /\ p = "admitCheck" => docs["queue"] # None
    /\ p = "unmark" => Left

\* A step that takes no marker of a queued job, fills no queue/ without one,
\* and leads no client astray keeps the index.
LEMMA IndexKeeps ==
    ASSUME IInv, MoveInv, IndexInv, [Next]_vars, ~Reaps, ~Sweeps,
           marker => marker' \/ Left',
           docs["queue"] = None => docs'["queue"] = None \/ marker',
           \A e \in Clients : pc'[e] = pc[e] \/ Relies(pc[e])'
    PROVE  IndexInv'
<1>1. docs["queue"] # None => docs'["queue"] # None /\ (Left => Left')
  BY LeavesForGood
<1>2. IndexedFromAdmission'
  BY <1>1 DEF IndexInv, IndexedFromAdmission, Live, Left
<1>3. ASSUME NEW e \in Clients, NEW p, p = pc[e] PROVE Relies(p)'
  <2>1. Relies(p)
    BY <1>3 DEF IndexInv, Relies
  <2> QED
    BY <1>1, <2>1 DEF Relies, Left
<1>4. ASSUME NEW e \in Clients PROVE Relies(pc[e])'
  <2>1. PICK p : p = pc[e]
    OBVIOUS
  <2>2. Relies(p)'
    BY <1>3, <2>1
  <2> QED
    BY <2>1, <2>2 DEF Relies
<1> QED
  BY <1>2, <1>4 DEF IndexInv, Relies

\* A step after which its client is elsewhere leads nobody astray.
LEMMA ElsewhereRelies ==
    ASSUME IInv, NEW c \in Clients, Elsewhere(c)
    PROVE  \A e \in Clients : pc'[e] = pc[e] \/ Relies(pc[e])'
<1>1. CASE pc' = pc
  BY <1>1
<1>2. ASSUME NEW p, NEW l, Go(c, p, l), p \notin Marking, NEW e \in Clients
      PROVE  pc'[e] = pc[e] \/ Relies(pc[e])'
  <2>1. pc'[e] = IF e = c THEN p ELSE pc[e]
    BY <1>2 DEF Go, IInv
  <2> QED
    BY <1>2, <2>1 DEF Relies, Marking
<1> QED
  BY <1>1, <1>2 DEF Elsewhere

\* The marker goes before the document and leaves after it has been fenced.
LEMMA IndexInductive ==
    ASSUME ~Reaps, ~Sweeps, IInv, MoveInv, IndexInv, [Next]_vars PROVE IndexInv'
<1>1. CASE Tick \/ UNCHANGED vars
  <2>1. docs' = docs /\ marker' = marker /\ pc' = pc
    BY <1>1 DEF Tick, vars, store
  <2> QED
    BY <2>1, IndexKeeps
<1>2. ASSUME NEW c \in Clients, StartStep(c) \/ Step(c) \/ Crash(c) PROVE IndexInv'
  <2>1. ~AdmitCreate(c) /\ docs["queue"] = None => docs'["queue"] = None
    BY <1>2, NeverFills
  <2>2. docs \in [Prefix -> Doc \cup {None}] /\ "queue" \in Prefix
    BY DEF IInv, StoreOK, Prefix
  <2>3. Relies(pc[c]) /\ marker \in BOOLEAN
    BY DEF IndexInv, Relies, IInv, StoreOK, ObjectsType
  <2>4. CASE AdmitMark(c)
    <3>1. marker' = TRUE /\ Go(c, "admitCreate", lv[c]) /\ ~AdmitCreate(c)
      BY <2>4 DEF AdmitMark, AdmitCreate, At
    <3>2. ASSUME NEW e \in Clients PROVE pc'[e] = pc[e] \/ Relies(pc[e])'
      <4>1. pc'[e] = IF e = c THEN "admitCreate" ELSE pc[e]
        BY <3>1 DEF Go, IInv
      <4> QED
        BY <3>1, <4>1 DEF Relies
    <3> QED
      BY <3>1, <3>2, IndexKeeps
  <2>5. CASE AdmitCreate(c) /\ docs["queue"] = None
    <3>1. pc[c] = "admitCreate" /\ marker' = marker /\ Idle(c)
      BY <2>5 DEF AdmitCreate, At
    <3>2. marker
      BY <2>3, <2>5, <3>1 DEF Relies, Left
    <3>3. Elsewhere(c)
      BY <3>1, LeadElsewhere
    <3> QED
      BY <3>1, <3>2, <3>3, ElsewhereRelies, IndexKeeps
  <2>6. CASE AdmitCreate(c) /\ docs["queue"] # None
    <3>1. marker' = marker /\ docs' = docs /\ Go(c, "admitCheck", lv[c])
      BY <2>6 DEF AdmitCreate
    <3>2. ASSUME NEW e \in Clients PROVE pc'[e] = pc[e] \/ Relies(pc[e])'
      <4>1. pc'[e] = IF e = c THEN "admitCheck" ELSE pc[e]
        BY <3>1 DEF Go, IInv
      <4> QED
        BY <2>6, <3>1, <4>1 DEF Relies
    <3> QED
      BY <2>6, <3>1, <3>2, IndexKeeps
  <2>7. CASE CleanSource(c)
    <3>1. marker' = marker /\ pc[c] = "clean"
      BY <2>7 DEF CleanSource, At
    <3>2. \/ Go(c, "retire", lv[c])
          \/ /\ docs' = docs /\ Go(c, "unmark", lv[c]) /\ docs["queue"] # None
             /\ docs["queue"].st = "fence"
      BY <2>7 DEF CleanSource, Sentinel
    <3>3. ~AdmitCreate(c)
      BY <3>1 DEF AdmitCreate, At
    <3>4. CASE Go(c, "retire", lv[c])
      <4>1. Elsewhere(c)
        BY <3>4 DEF Elsewhere, Marking
      <4> QED
        BY <2>1, <3>1, <3>3, <4>1, ElsewhereRelies, IndexKeeps
    <3>5. CASE /\ docs' = docs /\ Go(c, "unmark", lv[c]) /\ docs["queue"] # None
               /\ docs["queue"].st = "fence"
      <4>1. ASSUME NEW e \in Clients PROVE pc'[e] = pc[e] \/ Relies(pc[e])'
        <5>1. pc'[e] = IF e = c THEN "unmark" ELSE pc[e]
          BY <3>5 DEF Go, IInv
        <5> QED
          BY <3>5, <5>1 DEF Relies, Left
      <4> QED
        BY <3>1, <3>5, <4>1, IndexKeeps
    <3> QED
      BY <3>2, <3>4, <3>5
  <2>8. CASE ~AdmitMark(c) /\ ~AdmitCreate(c) /\ ~CleanSource(c)
    <3>1. Elsewhere(c)
      BY <1>2, <2>8, RecoverElsewhere, OthersElsewhere, BodyElsewhere,
         AdmitRecordElsewhere DEF Step
    <3>2. marker => marker' \/ Left'
      <4>1. CASE Unmark(c)
        BY <2>3, <4>1 DEF Unmark, At, Relies, Left
      <4>2. CASE AdmitCheck(c)
        BY <2>3, <4>2 DEF AdmitCheck, At, Relies
      <4>3. CASE DestinationIndex(c)
        BY <2>3, <4>3 DEF DestinationIndex
      <4> QED
        BY <1>2, <2>8, <4>1, <4>2, <4>3, MarkerKept
    <3> QED
      BY <2>1, <2>8, <3>1, <3>2, ElsewhereRelies, IndexKeeps
  <2> QED
    BY <2>4, <2>5, <2>6, <2>7, <2>8
<1> QED
  BY <1>1, <1>2 DEF Next

\* While a job is admitted, replayed, rewritten, claimed, finished, cancelled
\* and its callers die, it is never queued without its marker; a reaper's
\* requeue or a sweep would have to be in the picture (admission.rs,
\* transitions/retire.rs).
THEOREM AdmittedIsIndexed ==
    ASSUME ~Reaps, ~Sweeps PROVE Spec => []IndexedFromAdmission
<1>1. Init => IndexInv
  <2> SUFFICES ASSUME Init PROVE IndexInv
    OBVIOUS
  <2>1. docs["queue"] # None => Admitted
    BY DEF Init, Prefix
  <2>2. \A c \in Clients : pc[c] = "idle"
    BY DEF Init
  <2> QED
    BY <2>1, <2>2 DEF IndexInv, IndexedFromAdmission, Live, Init
<1>2. IInv /\ MoveInv /\ IndexInv /\ [Next]_vars => IndexInv'
  BY IndexInductive
<1>3. IndexInv => IndexedFromAdmission
  BY DEF IndexInv
<1> QED
  BY <1>1, <1>2, <1>3, Invariance, MoveInvariance, PTL DEF Spec

-----------------------------------------------------------------------------
(***************************************************************************)
(* The job is never lost.  The argument: until a terminal document stands, *)
(* each source prefix only ever ages (a lease is renewed, a live document  *)
(* is fenced, a fence is cleaned), so a version that was left behind never *)
(* comes back; and the record of a standing fence is neither completed nor *)
(* aborted nor replaced before its destination stands.                     *)
(***************************************************************************)

\* A terminal document stands; none is ever removed.
Ended == \E t \in Terminal : Live(t)

Stands(p) == docs[p] # None

\* The source of id is no longer the version id pinned,
Moved(id) ==
    docs[id.from].st # id.from \/ docs[id.from].lease > id.src.lease

\* and it was not id that fenced it, or it has been cleaned.
Past(id) ==
    IF docs[id.from].st = id.from
    THEN docs[id.from].lease > id.src.lease
    ELSE docs[id.from].st = "cleaned" \/ docs[id.from].id # id

\* The record is there for recovery to carry id out.
Promised(id) == record # None /\ record.id = id /\ record.state = "prepared"

\* What no operation but a rewrite or a requeue changes in a body.
Like(d) ==
    /\ d.rev = docs["queue"].rev /\ d.restarts = docs["queue"].restarts
    /\ d.lost = docs["queue"].lost

\* src was read under prefix from.
Read(from, src) ==
    /\ Stands(from) /\ src.st = from
    /\ docs[from].st = from => docs[from] = src \/ docs[from].lease > src.lease
    /\ from = "queue" => Like(src)

\* A promise derived from such a source; a running document it was built on
\* is not replaced.
Sound(r) ==
    /\ Read(r.id.from, r.id.src)
    /\ r.id.to = "running" =>
         /\ Like(r.id.dst)
         /\ r.dver # None /\ r.dver.st = "running" => r.dver = r.id.dst

\* The calls reached only once the destination stands.
Finishing == {"finish", "finishProbe", "finishSource", "outcome", "clean", "unmark",
         "cleanSwap", "retire"}

\* Calls no client makes before a terminal document stands: of a source that
\* is gone, of a destination to replace, of a sentinel to delete.
Barred == {"goneDest", "goneProbe", "swap", "delete"}

\* What a client about to make call p has seen.
Seen(p, l) ==
    /\ p \notin Barred
    /\ p = "basis" => Read(l.rq.from, l.src)
    /\ p \in {"prepare", "install"} => Sound(l.cand) /\ l.cand.state = "prepared"
    /\ p = "install" => l.rv = None \/ l.rv.state # "prepared"
    /\ p \in Carrying => Sound(l.tr)
    /\ p \in {"fenceRead", "fence"} => Moved(l.tr.id) \/ Promised(l.tr.id)
    /\ p = "abort" => Past(l.tr.id)
    /\ p \in {"dest", "create", "index", "complete"} => Moved(l.tr.id)
    /\ p = "create" => l.dv = None
    /\ p \in Finishing \cup {"abortSource", "complete"} => Stands(l.tr.id.to)

\* The documents and the record: a fence that holds the job is promised.
Kept ==
    /\ \A t \in Terminal : ~Stands(t)
    /\ Stands("queue") /\ docs["queue"].st \in {"queue", "fence", "cleaned"}
    /\ docs["queue"].st = "cleaned" => Stands("running")
    /\ Stands("running") =>
         docs["running"].st \in {"running", "fence"} /\ Like(docs["running"])
    /\ record # None =>
         /\ Sound(record)
         /\ record.state # "prepared" => Moved(record.id)
         /\ record.state \in {"completed", "retired"} => Stands(record.id.to)
    /\ \A p \in Sources :
         Stands(p) /\ docs[p].st = "fence" /\ (p = "queue" => ~Stands("running"))
           => docs[p].id.from = p /\ Promised(docs[p].id)

OnItsWay == Kept /\ \A c \in Clients : Seen(pc[c], lv[c])

LossInv == Ended \/ OnItsWay

-----------------------------------------------------------------------------
\* How the document under source prefix p may change.
Ages(p) ==
    Stands(p) =>
      /\ Stands(p)'
      /\ docs'[p].rev = docs[p].rev /\ docs'[p].restarts = docs[p].restarts
      /\ docs'[p].lost = docs[p].lost
      /\ \/ docs'[p] = docs[p]
         \/ docs[p].st = p /\ docs'[p].st = p /\ docs'[p].lease > docs[p].lease
         \/ docs[p].st = p /\ docs'[p].st = "fence" /\ docs'[p].id.src = docs[p]
         \/ /\ docs[p].st = "fence" /\ docs'[p].st = "cleaned"
            /\ docs'[p].id = docs[p].id

Aging == \A p \in Sources : Ages(p)

\* In a store that ages, what was left behind stays behind,
LEMMA AgingKeeps ==
    ASSUME IInv, IInv', Aging, NEW id \in TransitionId, id.from \in Sources,
           Stands(id.from)
    PROVE  /\ Moved(id) => Moved(id)'
           /\ Past(id) => Past(id)'
<1>1. PICK p : p = id.from
  OBVIOUS
<1>2. p \in Prefix /\ p \notin {"fence", "cleaned"} /\ id.src.lease \in Nat
  BY <1>1 DEF TransitionId, LiveDoc, Sources, Prefix
<1>3. docs[p] \in Doc \cup {None} /\ docs'[p] \in Doc \cup {None}
  BY <1>2 DEF IInv, StoreOK
<1>4. Ages(p) /\ Stands(p)
  BY <1>1 DEF Aging
<1>5. docs[p].lease \in Nat /\ docs'[p].lease \in Nat
  BY <1>3, <1>4 DEF Ages, Stands, Doc, LiveDoc, SentinelDoc
<1>6. Moved(id) => Moved(id)'
  BY <1>1, <1>2, <1>4, <1>5 DEF Ages, Moved
<1>7. Past(id) => Past(id)'
  <2>1. CASE docs[p].st = p /\ docs'[p].st = "fence" /\ docs'[p].id.src = docs[p]
    BY <1>1, <1>2, <1>5, <2>1 DEF Past
  <2> QED
    BY <1>1, <1>2, <1>4, <1>5, <2>1 DEF Ages, Past
<1> QED
  BY <1>6, <1>7

\* a source that was read is still that one or left behind,
LEMMA ReadKeeps ==
    ASSUME IInv, IInv', Aging, Stands("queue"), NEW from \in Sources,
           NEW src \in LiveDoc, Read(from, src)
    PROVE  Read(from, src)'
<1>1. from \in Prefix /\ from \notin {"fence", "cleaned"} /\ src.lease \in Nat
  BY DEF LiveDoc, Sources, Prefix
<1>2. docs[from] \in Doc \cup {None} /\ docs'[from] \in Doc \cup {None}
  BY <1>1 DEF IInv, StoreOK
<1>3. Ages(from) /\ Ages("queue") /\ Stands(from)
  BY DEF Aging, Sources, Read
<1>4. docs[from].lease \in Nat /\ docs'[from].lease \in Nat
  BY <1>2, <1>3 DEF Ages, Stands, Doc, LiveDoc, SentinelDoc
<1>5. Like(src) => Like(src)'
  BY <1>3 DEF Ages, Like
<1> QED
  BY <1>1, <1>3, <1>4, <1>5 DEF Read, Ages

\* and so is the source of a promise.
LEMMA SoundKeeps ==
    ASSUME IInv, IInv', Aging, Stands("queue"), NEW r \in Record,
           r.id.from \in Sources, Sound(r)
    PROVE  Sound(r)'
<1>1. Read(r.id.from, r.id.src)'
  BY RecordParts, ReadKeeps DEF Sound
<1>2. Ages("queue")
  BY DEF Aging, Sources
<1> QED
  BY <1>1, <1>2 DEF Sound, Ages, Like

\* The record of a promise stays while the source is the version it pinned.
Keeping == \A id \in TransitionId : Promised(id) => Promised(id)' \/ Moved(id)

\* What a client has seen outlives the steps of the others.
LEMMA SeenKeeps ==
    ASSUME IInv, IInv', MoveInv, Kept, Aging, Keeping,
           NEW p, NEW l, Remembers(p, l), Vouches(p, l), Seen(p, l)
    PROVE  Seen(p, l)'
<1>1. Stands("queue") /\ \A q \in Prefix : Stands(q) => Stands(q)'
  BY DEF Kept, Aging, Ages, Sources, Prefix
<1>2. p = "basis" => Read(l.rq.from, l.src)'
  BY <1>1, ReadKeeps DEF Seen, Remembers, Vouches, Asking, Preparing, RequestOK
<1>3. p \in {"prepare", "install"} => Sound(l.cand)'
  BY <1>1, SoundKeeps DEF Seen, Remembers, Vouches, IdOK
<1>4. ASSUME p \in Carrying
      PROVE  /\ l.tr \in Record /\ l.tr.id \in TransitionId /\ l.tr.id.from \in Sources
             /\ Sound(l.tr) /\ Stands(l.tr.id.from) /\ l.tr.id.to \in Prefix
  BY <1>4, RecordParts DEF Seen, Remembers, Vouches, IdOK, Sound, Read
<1>5. p \in Carrying => Sound(l.tr)'
  BY <1>1, <1>4, SoundKeeps
<1>6. p \in {"fenceRead", "fence"} => (Moved(l.tr.id) \/ Promised(l.tr.id))'
  BY <1>4, AgingKeeps DEF Seen, Carrying, Keeping
<1>7. p = "abort" => Past(l.tr.id)'
  BY <1>4, AgingKeeps DEF Seen, Carrying
<1>8. p \in {"dest", "create", "index", "complete"} => Moved(l.tr.id)'
  BY <1>4, AgingKeeps DEF Seen, Carrying
<1>9. p \in Finishing \cup {"abortSource", "complete"} => Stands(l.tr.id.to)'
  BY <1>1, <1>4 DEF Seen, Carrying, Finishing
<1> QED
  BY <1>2, <1>3, <1>5, <1>6, <1>7, <1>8, <1>9 DEF Seen

-----------------------------------------------------------------------------
\* Client c goes on to a call before which it has seen what it needs.
Sees(c) == Lands(c) \/ \E p, l : Go(c, p, l) /\ Seen(p, l)'

\* A step after which the store still keeps the job.
LEMMA WayStep ==
    ASSUME IInv, IInv', MoveInv, OnItsWay, NEW c \in Clients, Sees(c), Aging, Keeping,
           Kept'
    PROVE  OnItsWay'
<1>1. ASSUME NEW e \in Clients, pc'[e] = pc[e], lv'[e] = lv[e] PROVE Seen(pc[e], lv[e])'
  <2>1. PICK p, l : p = pc[e] /\ l = lv[e]
    OBVIOUS
  <2>2. Remembers(p, l) /\ Vouches(p, l) /\ Seen(p, l)
    BY <2>1, OwnWord DEF OnItsWay
  <2>3. Seen(p, l)'
    BY <2>2, SeenKeeps DEF OnItsWay
  <2> QED
    BY <1>1, <2>1, <2>3 DEF Seen
<1>2. ASSUME NEW p, NEW l, Go(c, p, l), Seen(p, l)', NEW e \in Clients
      PROVE  Seen(pc[e], lv[e])'
  <2>1. CASE e = c
    <3>1. pc'[e] = p /\ lv'[e] = l
      BY <1>2, <2>1 DEF IInv, Go
    <3> QED
      BY <1>2, <3>1 DEF Seen
  <2>2. CASE e # c
    BY <1>1, <1>2, <2>2 DEF IInv, Go
  <2> QED
    BY <2>1, <2>2
<1>3. ASSUME NEW p \in Landing, NEW l PROVE Seen(p, l)'
  BY DEF Seen, Landing, Barred, Carrying, Finishing
<1>4. ASSUME NEW e \in Clients PROVE Seen(pc[e], lv[e])'
  BY <1>1, <1>2, <1>3 DEF Sees, Lands
<1> QED
  BY <1>4 DEF OnItsWay

\* Documents that stay keep the job while the record's promise stays,
LEMMA StillKept ==
    ASSUME Kept, docs' = docs, record' = record PROVE Kept' /\ Aging /\ Keeping
<1>1. Kept'
  BY DEF Kept, Stands, Like, Sound, Read, Moved, Promised
<1> QED
  BY <1>1 DEF Aging, Ages, Stands, Keeping, Promised

\* so a call that reads leaves the job on its way.
LEMMA ReadingWay ==
    ASSUME IInv, IInv', MoveInv, OnItsWay, NEW c \in Clients, docs' = docs,
           record' = record, Lands(c) \/ \E p, l : Go(c, p, l) /\ Seen(p, l)
    PROVE  OnItsWay'
<1>1. ASSUME NEW p, NEW l, Seen(p, l) PROVE Seen(p, l)'
  <2>1. /\ \A q : Stands(q)' <=> Stands(q)
        /\ \A d : Like(d)' <=> Like(d)
        /\ \A id : Moved(id)' <=> Moved(id)
        /\ \A id : Past(id)' <=> Past(id)
        /\ \A id : Promised(id)' <=> Promised(id)
    BY DEF Stands, Like, Moved, Past, Promised
  <2>2. \A from, src : Read(from, src)' <=> Read(from, src)
    BY <2>1 DEF Read
  <2>3. \A r : Sound(r)' <=> Sound(r)
    BY <2>1, <2>2 DEF Sound
  <2> QED
    BY <1>1, <2>1, <2>2, <2>3 DEF Seen
<1>2. Kept' /\ Aging /\ Keeping
  BY StillKept DEF OnItsWay
<1> QED
  BY <1>1, <1>2, WayStep DEF Sees

\* What is known of a client that carries a promise out.
LEMMA OwnPromise ==
    ASSUME IInv, MoveInv, OnItsWay, ~Reaps, NEW c \in Clients, pc[c] \in Carrying
    PROVE  /\ lv[c] \in Locals /\ Seen(pc[c], lv[c]) /\ lv[c].tr \in Record
           /\ lv[c].tr.id \in TransitionId /\ Sound(lv[c].tr)
           /\ lv[c].tr.id.from \in Sources /\ Stands(lv[c].tr.id.from)
           /\ lv[c].tr.id.src \in LiveDoc /\ lv[c].tr.id.dst \in LiveDoc
           /\ lv[c].tr.id.dst.st = lv[c].tr.id.to
           /\ lv[c].tr.id.to \in Terminal
                \/ (lv[c].tr.id.to = "running" /\ lv[c].tr.id.from = "queue")
<1>1. /\ lv[c] \in Locals /\ Seen(pc[c], lv[c]) /\ IdOK(lv[c].tr.id)
      /\ lv[c].tr \in Record
  BY OwnWord DEF OnItsWay, Vouches, Remembers
<1>2. Sound(lv[c].tr) /\ lv[c].tr.id.to \in Prefix
  BY <1>1, RecordParts DEF Seen
<1> QED
  BY <1>1, <1>2, RecordParts DEF IdOK, Sound, Read, Prefix

\* The source of a promise that is carried out is live, fenced or cleaned.
LEMMA SourceStates ==
    ASSUME Kept, NEW p \in Sources, Stands(p)
    PROVE  docs[p].st \in {p, "fence", "cleaned"} /\ p \notin {"fence", "cleaned"}
BY DEF Kept, Sources

\* recover_job_transition takes up the promise of the record.
LEMMA RecoverRecordWay ==
    ASSUME IInv, IInv', MoveInv, OnItsWay, NEW c \in Clients, RecoverRecord(c)
    PROVE  OnItsWay'
<1>1. PICK m : m = [lv[c] EXCEPT !.tr = record]
  OBVIOUS
<1>2. m.tr = record
  BY <1>1 DEF IInv, Locals
<1>3. record \in Record \cup {None}
  BY DEF IInv, StoreOK, ObjectsType
<1>4. \/ Recovered(c, FALSE)
      \/ record # None /\ Go(c, "abortDest", m)
      \/ record # None /\ record.state = "completed" /\ Go(c, "finish", m)
      \/ record # None /\ record.state = "prepared" /\ Go(c, "fenceRead", m)
  BY <1>1, <1>3, RecordParts DEF RecoverRecord
<1>5. record # None =>
        /\ Seen("abortDest", m)
        /\ record.state = "completed" => Seen("finish", m)
        /\ record.state = "prepared" => Seen("fenceRead", m)
  BY <1>2 DEF OnItsWay, Kept, Seen, Barred, Carrying, Finishing, Promised
<1>6. docs' = docs /\ record' = record
  BY DEF RecoverRecord, Reads, store
<1> QED
  BY <1>4, <1>5, <1>6, ReturnsLand, ReadingWay

\* An aborted promise is upgraded for a destination that stands, over a source
\* that was left.
LEMMA AbortedWay ==
    ASSUME IInv, IInv', MoveInv, OnItsWay, ~Reaps, NEW c \in Clients,
           AbortedDestination(c) \/ AbortedSource(c)
    PROVE  OnItsWay'
<1>1. docs' = docs /\ record' = record
  BY DEF AbortedDestination, AbortedSource, Reads, store
<1>2. PICK l : l = lv[c]
  OBVIOUS
<1>3. CASE AbortedDestination(c)
  <2>1. \/ Recovered(c, FALSE)
        \/ Live(l.tr.id.to) /\ Go(c, "abortSource", l)
    BY <1>2, <1>3 DEF AbortedDestination
  <2>2. Live(l.tr.id.to) => Seen("abortSource", l)
    BY <1>2, <1>3, OwnPromise
       DEF AbortedDestination, At, Seen, Barred, Carrying, Finishing, Live, Stands
  <2> QED
    BY <1>1, <2>1, <2>2, ReturnsLand, ReadingWay
<1>4. CASE AbortedSource(c)
  <2>1. /\ Stands(l.tr.id.from) /\ Seen("abortSource", l) /\ l.tr.id.from \in Sources
    BY <1>2, <1>4, OwnPromise DEF AbortedSource, At, Carrying
  <2>2. \/ Recovered(c, FALSE)
        \/ docs[l.tr.id.from].st \in {"fence", "cleaned"} /\ Go(c, "complete", l)
    BY <1>2, <1>4, <2>1 DEF AbortedSource, Sentinel, Stands
  <2>3. docs[l.tr.id.from].st \in {"fence", "cleaned"} => Seen("complete", l)
    BY <2>1 DEF Seen, Barred, Carrying, Finishing, Moved, Sources
  <2> QED
    BY <1>1, <2>2, <2>3, ReturnsLand, ReadingWay
<1> QED
  BY <1>3, <1>4

\* The source of a prepared move stands: it is the pinned version, fenced by
\* this move, or left behind.
LEMMA FenceReadWay ==
    ASSUME IInv, IInv', MoveInv, OnItsWay, ~Reaps, NEW c \in Clients, FenceRead(c)
    PROVE  OnItsWay'
<1>1. docs' = docs /\ record' = record /\ pc[c] = "fenceRead"
  BY DEF FenceRead, At, Reads, store
<1>2. PICK l, id, d : l = lv[c] /\ id = l.tr.id /\ d = docs[id.from]
  OBVIOUS
<1>3. /\ Seen("fenceRead", l) /\ Sound(l.tr) /\ id.from \in Sources /\ Stands(id.from)
  BY <1>1, <1>2, OwnPromise DEF Carrying
<1>4. d # None /\ d.st \in {id.from, "fence", "cleaned"} /\ id.from \notin {"fence", "cleaned"}
  BY <1>2, <1>3, SourceStates DEF OnItsWay, Stands
<1>5. \/ Go(c, "fence", l)
      \/ Sentinel(d, "fence", id) /\ Go(c, "dest", l)
      \/ d # id.src /\ ~Sentinel(d, "fence", id) /\ Go(c, "abort", l)
  BY <1>2, <1>4 DEF FenceRead
<1>6. Seen("fence", l)
  BY <1>3 DEF Seen, Barred, Carrying, Finishing
<1>7. Sentinel(d, "fence", id) => Seen("dest", l)
  BY <1>2, <1>3, <1>4 DEF Seen, Barred, Carrying, Finishing, Moved, Sentinel
<1>8. d # id.src /\ ~Sentinel(d, "fence", id) => Seen("abort", l)
  <2>1. d # id.src /\ ~Sentinel(d, "fence", id) => Past(id)
    BY <1>2, <1>3, <1>4 DEF Past, Sentinel, Sound, Read
  <2> QED
    BY <1>2, <1>3, <2>1 DEF Seen, Barred, Carrying, Finishing
<1> QED
  BY <1>1, <1>5, <1>6, <1>7, <1>8, ReadingWay

\* The promise of the record outlives the changes of the documents.
LEMMA RecordKept ==
    ASSUME IInv, IInv', MoveInv, Kept, Aging, record' = record, record # None
    PROVE  (/\ Sound(record)
            /\ record.state # "prepared" => Moved(record.id)
            /\ record.state \in {"completed", "retired"} => Stands(record.id.to))'
<1>1. PICK r : r = record
  OBVIOUS
<1>2. /\ r \in Record /\ r.id \in TransitionId /\ r.id.from \in Sources /\ r.id.to \in Prefix
      /\ Sound(r) /\ Stands(r.id.from)
  BY <1>1, RecordParts DEF IInv, StoreOK, ObjectsType, MoveInv, Store, IdOK, Kept, Sound, Read
<1>3. Stands("queue") /\ \A q \in Prefix : Stands(q) => Stands(q)'
  BY DEF Kept, Aging, Ages, Sources, Prefix
<1>4. Sound(r)' /\ (Moved(r.id) => Moved(r.id)')
  BY <1>2, <1>3, SoundKeeps, AgingKeeps
<1>5. /\ r.state # "prepared" => Moved(r.id)'
      /\ r.state \in {"completed", "retired"} => Stands(r.id.to)'
  BY <1>1, <1>2, <1>3, <1>4 DEF Kept
<1>6. record' = r
  BY <1>1
<1> QED
  BY <1>4, <1>5, <1>6 DEF Sound, Moved

\* A source is fenced for the promise of the record.
LEMMA FenceSwapWay ==
    ASSUME IInv, IInv', MoveInv, OnItsWay, ~Reaps, NEW c \in Clients, FenceSwap(c)
    PROVE  OnItsWay'
<1>1. PICK l, id, p : l = lv[c] /\ id = l.tr.id /\ p = id.from
  OBVIOUS
<1>2. /\ record' = record /\ pc[c] = "fence"
  BY DEF FenceSwap, At
<1>3. /\ Seen("fence", l) /\ Sound(l.tr) /\ p \in Sources /\ Stands(p)
      /\ id \in TransitionId /\ id.src \in LiveDoc /\ p \in Prefix
  BY <1>1, <1>2, OwnPromise DEF Carrying, Sources, Prefix
<1>4. CASE docs[p] # id.src
  <2>1. Recovered(c, FALSE) /\ docs' = docs
    BY <1>1, <1>4 DEF FenceSwap
  <2> QED
    BY <1>2, <2>1, ReturnsLand, ReadingWay
<1>5. CASE docs[p] = id.src
  <2>1. PICK d : d = Stamp(docs[p], "fence", id)
    OBVIOUS
  <2>2. docs' = [docs EXCEPT ![p] = d] /\ Go(c, "dest", l)
    BY <1>1, <1>5, <2>1 DEF FenceSwap
  <2>3. docs \in [Prefix -> Doc \cup {None}] /\ docs[p] \in Doc
    BY <1>3, <1>5 DEF IInv, StoreOK, Doc
  <2>4. /\ d.st = "fence" /\ d.id = id /\ d.rev = docs[p].rev /\ d # None
        /\ d.restarts = docs[p].restarts /\ d.lost = docs[p].lost
    BY <1>3, <2>1, <2>3, StampOK, StampKeeps, NoneAssumption DEF Doc
  <2>5. docs'[p] = d /\ \A q \in Prefix : q # p => docs'[q] = docs[q]
    BY <1>3, <2>2, <2>3
  <2>6. docs[p].st = p /\ ~Moved(id) /\ Promised(id)
    <3>1. id.src.st = p /\ id.src.lease \in Nat
      BY <1>1, <1>3 DEF Sound, Read, LiveDoc
    <3>2. ~Moved(id)
      BY <1>1, <1>5, <3>1 DEF Moved
    <3> QED
      BY <1>1, <1>3, <1>5, <3>1, <3>2 DEF Seen
  <2>7. Aging
    BY <1>5, <2>4, <2>5, <2>6 DEF Aging, Ages, Stands, Sources, Prefix
  <2>8. Keeping
    BY <1>2 DEF Keeping, Promised
  <2>9. \A q \in Sources :
          q # p /\ Stands(q) /\ docs[q].st = "fence" => q = "queue" /\ Stands("running")
    BY <1>1, <1>3, <2>6 DEF OnItsWay, Kept, Promised, Sources
  <2>10. Kept'
    <3>1. \A t \in Terminal : ~Stands(t)'
      BY <1>3, <2>5 DEF OnItsWay, Kept, Stands, Sources, Terminal, Prefix
    <3>2. /\ Stands("queue")' /\ docs'["queue"].st \in {"queue", "fence", "cleaned"}
          /\ docs'["queue"].st = "cleaned" => Stands("running")'
      BY <2>4, <2>5 DEF OnItsWay, Kept, Stands, Prefix
    <3>3. Stands("running")' =>
            docs'["running"].st \in {"running", "fence"} /\ Like(docs["running"])'
      BY <1>3, <2>4, <2>5 DEF OnItsWay, Kept, Stands, Prefix, Like, Sources
    <3>4. record' # None =>
           (/\ Sound(record)
            /\ record.state # "prepared" => Moved(record.id)
            /\ record.state \in {"completed", "retired"} => Stands(record.id.to))'
      BY <1>2, <2>7, RecordKept DEF OnItsWay
    <3>5. ASSUME NEW q \in Sources, Stands(q)', docs'[q].st = "fence",
                 q = "queue" => ~Stands("running")'
          PROVE  docs'[q].id.from = q /\ Promised(docs[q].id)'
      BY <1>1, <1>2, <1>3, <2>4, <2>5, <2>6, <2>9, <3>5 DEF Promised, Stands, Sources, Prefix
    <3> QED
      BY <3>1, <3>2, <3>3, <3>4, <3>5 DEF Kept
  <2>11. Seen("dest", l)'
    <3>1. Sound(l.tr)'
      BY <1>1, <1>2, <1>3, <2>7, OwnPromise, SoundKeeps DEF Carrying, OnItsWay, Kept
    <3>2. Moved(id)'
      BY <1>1, <1>3, <2>4, <2>5 DEF Moved, Sources
    <3> QED
      BY <1>1, <3>1, <3>2 DEF Seen, Barred, Carrying, Finishing
  <2> QED
    BY <2>2, <2>7, <2>8, <2>10, <2>11, WayStep DEF Sees
<1> QED
  BY <1>4, <1>5

\* No source is gone, no destination is to be replaced.
LEMMA BarredWay ==
    ASSUME OnItsWay, NEW c \in Clients,
           GoneDestination(c) \/ GoneProbe(c) \/ SweepDelete(c) \/ At(c, "swap")
    PROVE  FALSE
BY DEF OnItsWay, Seen, Barred, GoneDestination, GoneProbe, SweepDelete, At

\* The destination is absent, or running/ holds what the move would write.
LEMMA DestinationReadWay ==
    ASSUME IInv, IInv', MoveInv, OnItsWay, ~Reaps, NEW c \in Clients, DestinationRead(c)
    PROVE  OnItsWay'
<1>1. docs' = docs /\ record' = record /\ pc[c] = "dest"
  BY DEF DestinationRead, At, Reads, store
<1>2. PICK l, tr, d : l = lv[c] /\ tr = l.tr /\ d = docs[tr.id.to]
  OBVIOUS
<1>3. PICK m : m = [l EXCEPT !.dv = d]
  OBVIOUS
<1>4. /\ l \in Locals /\ Seen("dest", l) /\ Sound(tr)
      /\ tr.id.to \in Terminal \/ tr.id.to = "running"
  BY <1>1, <1>2, OwnPromise DEF Carrying
<1>5. m.dv = d /\ m.tr = tr
  BY <1>2, <1>3, <1>4 DEF Locals
<1>6. d # None => ~Cleaned(d) /\ (d.st = tr.id.to => d # tr.dver \/ d = tr.id.dst)
  BY <1>2, <1>4 DEF OnItsWay, Kept, Stands, Cleaned, Sound
<1>7. \/ d = None /\ Go(c, "create", m)
      \/ Go(c, "index", l)
      \/ Answer(c, FALSE)
  <2>1. CASE d = None
    BY <1>2, <1>3, <2>1 DEF DestinationRead, Cleaned
  <2>2. CASE d # None
    BY <1>2, <1>6, <2>2 DEF DestinationRead, Fail
  <2> QED
    BY <2>1, <2>2
<1>8. Seen("index", l) /\ (d = None => Seen("create", m))
  BY <1>2, <1>4, <1>5 DEF Seen, Barred, Carrying, Finishing
<1> QED
  BY <1>1, <1>7, <1>8, ReturnsLand, ReadingWay

\* The destination is created: a terminal one ends the job, and running/ is
\* filled once.
LEMMA DestinationWriteWay ==
    ASSUME IInv, IInv', MoveInv, OnItsWay, ~Reaps, NEW c \in Clients, DestinationWrite(c)
    PROVE  LossInv'
<1>1. PICK l, id, m : l = lv[c] /\ id = l.tr.id /\ m = [l EXCEPT !.dv = None]
  OBVIOUS
<1>2. record' = record /\ pc[c] = "create"
  BY BarredWay DEF DestinationWrite, At
<1>3. /\ l \in Locals /\ Seen("create", l) /\ Sound(l.tr) /\ l.dv = None
      /\ id \in TransitionId /\ id.from \in Sources /\ Stands(id.from)
      /\ id.dst \in LiveDoc /\ id.dst.st = id.to /\ l.tr \in Record
      /\ id.to \in Terminal \/ (id.to = "running" /\ id.from = "queue")
  BY <1>1, <1>2, OwnPromise DEF Carrying, Seen
<1>4. m.tr = l.tr
  BY <1>1, <1>3 DEF Locals
<1>5. CASE docs[id.to] # None
  <2>1. docs' = docs /\ Go(c, "dest", m)
    BY <1>1, <1>3, <1>5 DEF DestinationWrite
  <2>2. Seen("dest", m)
    BY <1>3, <1>4 DEF Seen, Barred, Carrying, Finishing
  <2> QED
    BY <1>2, <2>1, <2>2, ReadingWay DEF LossInv
<1>6. CASE docs[id.to] = None
  <2>1. docs' = [docs EXCEPT ![id.to] = id.dst] /\ Go(c, "index", m)
    BY <1>1, <1>3, <1>6 DEF DestinationWrite
  <2>2. docs \in [Prefix -> Doc \cup {None}] /\ id.to \in Prefix /\ id.dst # None
    BY <1>3, NoneAssumption DEF IInv, StoreOK, Prefix, Doc
  <2>3. docs'[id.to] = id.dst /\ \A q \in Prefix : q # id.to => docs'[q] = docs[q]
    BY <2>1, <2>2
  <2>4. CASE id.to \in Terminal
    BY <1>3, <2>2, <2>3, <2>4 DEF LossInv, Ended, Live
  <2>5. CASE id.to = "running"
    <3>1. Aging
      BY <1>6, <2>3, <2>5 DEF Aging, Ages, Stands, Sources, Prefix
    <3>2. Keeping
      BY <1>2 DEF Keeping, Promised
    <3>3. Kept'
      <4>1. \A t \in Terminal : ~Stands(t)'
        BY <2>3, <2>5 DEF OnItsWay, Kept, Stands, Terminal, Prefix
      <4>2. docs'["queue"] = docs["queue"] /\ Stands("queue")' /\ Stands("running")'
        BY <2>2, <2>3, <2>5 DEF OnItsWay, Kept, Stands, Prefix
      <4>3. docs'["running"].st = "running" /\ Like(docs["running"])'
        BY <1>1, <1>3, <2>3, <2>5, <4>2 DEF Sound, Like
      <4>4. record' # None =>
             (/\ Sound(record)
              /\ record.state # "prepared" => Moved(record.id)
              /\ record.state \in {"completed", "retired"} => Stands(record.id.to))'
        BY <1>2, <3>1, RecordKept DEF OnItsWay
      <4>5. docs["queue"].st \in {"queue", "fence", "cleaned"}
        BY DEF OnItsWay, Kept
      <4> QED
        BY <4>1, <4>2, <4>3, <4>4, <4>5 DEF Kept, Sources
    <3>4. Seen("index", m)'
      <4>1. Sound(l.tr)' /\ Moved(id)'
        BY <1>1, <1>3, <3>1, SoundKeeps, AgingKeeps DEF OnItsWay, Kept, Seen
      <4> QED
        BY <1>1, <1>4, <4>1 DEF Seen, Barred, Carrying, Finishing
    <3> QED
      BY <2>1, <3>1, <3>2, <3>3, <3>4, WayStep DEF Sees, LossInv
  <2> QED
    BY <1>3, <2>4, <2>5
<1> QED
  BY <1>5, <1>6

\* A fence that holds the job has no destination yet.
LEMMA FenceHolds ==
    ASSUME Kept, NEW r \in Record, IdOK(r.id), ~Reaps, Stands(r.id.to), NEW p \in Sources,
           Stands(p), docs[p].st = "fence", p = "queue" => ~Stands("running")
    PROVE  ~Promised(r.id)
<1>1. CASE r.id.to \in Terminal
  BY <1>1 DEF Kept
<1>2. CASE r.id.to = "running"
  BY <1>2 DEF Kept, Promised, IdOK, Sources
<1>3. r.id.to # "queue" /\ r.id.to \in Prefix
  BY RecordParts DEF IdOK
<1> QED
  BY <1>1, <1>2, <1>3 DEF Prefix

\* The record takes a state no fence that holds the job depends on.
LEMMA StateWay ==
    ASSUME IInv, IInv', MoveInv, OnItsWay, NEW c \in Clients, docs' = docs,
           record # None, NEW st \in {"completed", "aborted", "retired"},
           record' = [record EXCEPT !.state = st], Moved(record.id),
           st # "aborted" => Stands(record.id.to),
           \A p \in Sources :
             Stands(p) /\ docs[p].st = "fence" /\ (p = "queue" => ~Stands("running"))
               => docs[p].id # record.id,
           Lands(c) \/ \E p, l : Go(c, p, l) /\ Seen(p, l)'
    PROVE  OnItsWay'
<1>1. record \in Record
  BY DEF IInv, StoreOK, ObjectsType
<1>2. PICK r, s : r = record /\ s = record'
  OBVIOUS
<1>3. s.id = r.id /\ s.dver = r.dver /\ s.state = st
  BY <1>1, <1>2 DEF Record
<1>4. Aging /\ Keeping
  BY <1>2, <1>3 DEF Aging, Ages, Stands, Keeping, Promised
<1>5. Kept'
  BY <1>2, <1>3 DEF OnItsWay, Kept, Stands, Like, Sound, Read, Moved, Promised
<1> QED
  BY <1>4, <1>5, WayStep DEF Sees

\* The metadata of a destination that stands.
LEMMA DestinationIndexWay ==
    ASSUME IInv, IInv', MoveInv, OnItsWay, ~Reaps, NEW c \in Clients, DestinationIndex(c)
    PROVE  OnItsWay'
<1>1. docs' = docs /\ record' = record /\ pc[c] = "index"
  BY DEF DestinationIndex, At
<1>2. PICK l : l = lv[c]
  OBVIOUS
<1>3. Seen("index", l) /\ Sound(l.tr)
  BY <1>1, <1>2, OwnPromise DEF Carrying
<1>4. Answer(c, FALSE) \/ (Stands(l.tr.id.to) /\ Go(c, "complete", l))
  BY <1>2 DEF DestinationIndex, Fail, Stands
<1>5. Stands(l.tr.id.to) => Seen("complete", l)
  BY <1>3 DEF Seen, Barred, Carrying, Finishing
<1> QED
  BY <1>1, <1>4, <1>5, ReturnsLand, ReadingWay

\* A move is completed only when its destination stands, so no fence that
\* holds the job is its own,
LEMMA MarkCompletedWay ==
    ASSUME IInv, IInv', MoveInv, OnItsWay, ~Reaps, NEW c \in Clients, MarkCompleted(c)
    PROVE  OnItsWay'
<1>1. PICK l : l = lv[c]
  OBVIOUS
<1>2. docs' = docs /\ pc[c] = "complete"
  BY DEF MarkCompleted, SetState, At
<1>3. Seen("complete", l) /\ Sound(l.tr) /\ l.tr \in Record /\ IdOK(l.tr.id)
  BY <1>1, <1>2, OwnPromise, OwnWord DEF Carrying, Vouches
<1>4. CASE ~SameGeneration(c)
  <2>1. Recovered(c, FALSE) /\ record' = record
    BY <1>4 DEF MarkCompleted, SetState
  <2> QED
    BY <1>2, <2>1, ReturnsLand, ReadingWay
<1>5. CASE SameGeneration(c)
  <2>1. /\ record # None /\ record.id = l.tr.id /\ Go(c, "finish", l)
        /\ record' = [record EXCEPT !.state = "completed"]
    BY <1>1, <1>5 DEF MarkCompleted, SetState, SameGeneration
  <2>2. Moved(record.id) /\ Stands(record.id.to)
    BY <1>3, <2>1 DEF Seen
  <2>3. ASSUME NEW p \in Sources, Stands(p), docs[p].st = "fence",
               p = "queue" => ~Stands("running")
        PROVE  docs[p].id # record.id
    <3>1. ~Promised(l.tr.id)
      BY <1>3, <2>3, FenceHolds DEF OnItsWay, Seen
    <3>2. Promised(docs[p].id)
      BY <2>3 DEF OnItsWay, Kept
    <3> QED
      BY <2>1, <3>1, <3>2
  <2>4. Seen("finish", l)'
    <3>1. Sound(l.tr)' /\ Stands(l.tr.id.to)'
      BY <1>2, <1>3 DEF Seen, Sound, Read, Stands, Like
    <3> QED
      BY <3>1 DEF Seen, Barred, Carrying, Finishing
  <2> QED
    BY <1>2, <2>1, <2>2, <2>3, <2>4, StateWay
<1> QED
  BY <1>4, <1>5

\* and aborted only when its source was left behind or fenced by another.
LEMMA MarkAbortedWay ==
    ASSUME IInv, IInv', MoveInv, OnItsWay, ~Reaps, NEW c \in Clients, MarkAborted(c)
    PROVE  OnItsWay'
<1>1. PICK id : id = lv[c].tr.id
  OBVIOUS
<1>2. docs' = docs /\ pc[c] = "abort" /\ Lands(c)
  BY ReturnsLand DEF MarkAborted, SetState, At
<1>3. Past(id) /\ id.from \in Sources /\ Stands(id.from)
  BY <1>1, <1>2, OwnPromise DEF Carrying, Seen
<1>4. CASE ~SameGeneration(c)
  <2>1. record' = record
    BY <1>4 DEF MarkAborted, SetState
  <2> QED
    BY <1>2, <2>1, ReadingWay
<1>5. CASE SameGeneration(c)
  <2>1. /\ record # None /\ record.id = id
        /\ record' = [record EXCEPT !.state = "aborted"]
    BY <1>1, <1>5 DEF MarkAborted, SetState, SameGeneration
  <2>2. Moved(record.id)
    BY <1>3, <2>1 DEF Moved, Past
  <2>3. ASSUME NEW p \in Sources, Stands(p), docs[p].st = "fence",
               p = "queue" => ~Stands("running")
        PROVE  docs[p].id # record.id
    BY <1>3, <2>1, <2>3 DEF OnItsWay, Kept, Past, Sources
  <2> QED
    BY <1>2, <2>1, <2>2, <2>3, StateWay
<1> QED
  BY <1>4, <1>5

\* The record of a completed move is retired.
LEMMA RetireWay ==
    ASSUME IInv, IInv', MoveInv, OnItsWay, NEW c \in Clients, RetireRecord(c)
    PROVE  OnItsWay'
<1>1. docs' = docs
  BY DEF RetireRecord
<1>2. lv[c].ans \in BOOLEAN
  BY DEF IInv, Locals
<1>3. Lands(c)
  BY <1>2, ReturnsLand DEF RetireRecord, Fail
<1>4. \/ record' = record
      \/ /\ record # None /\ record.state = "completed"
         /\ record' = [record EXCEPT !.state = "retired"]
  BY DEF RetireRecord, SameGeneration
<1>5. CASE record # None /\ record.state = "completed"
           /\ record' = [record EXCEPT !.state = "retired"]
  <2>1. Moved(record.id) /\ Stands(record.id.to)
    BY <1>5 DEF OnItsWay, Kept
  <2>2. ASSUME NEW p \in Sources, Stands(p), docs[p].st = "fence",
               p = "queue" => ~Stands("running")
        PROVE  docs[p].id # record.id
    BY <1>5, <2>2 DEF OnItsWay, Kept, Promised
  <2> QED
    BY <1>1, <1>3, <1>5, <2>1, <2>2, StateWay
<1> QED
  BY <1>1, <1>3, <1>4, <1>5, ReadingWay

\* The calls that finish a completed move go on to one another.
LEMMA FinishingSeen ==
    ASSUME IInv, MoveInv, OnItsWay, ~Reaps, NEW c \in Clients, pc[c] \in Finishing,
           NEW p \in Finishing, NEW l, Same(l, lv[c])
    PROVE  Seen(p, l)
<1>1. Sound(lv[c].tr) /\ Stands(lv[c].tr.id.to) /\ l.tr = lv[c].tr
  BY OwnPromise DEF Seen, Finishing, Carrying, Same
<1> QED
  BY <1>1 DEF Seen, Barred, Carrying, Finishing

\* The calls among them that leave the documents and the record alone.
LEMMA FinishingWay ==
    ASSUME IInv, IInv', MoveInv, OnItsWay, ~Reaps, NEW c \in Clients,
           FinishDestination(c) \/ FinishProbe(c) \/ FinishSource(c) \/ RecordOutcome(c)
           \/ Unmark(c)
    PROVE  OnItsWay'
<1>1. docs' = docs /\ record' = record /\ pc[c] \in Finishing
  BY DEF FinishDestination, FinishProbe, FinishSource, RecordOutcome, Unmark, At, Reads,
         store, Finishing
<1>2. PICK l : l = lv[c]
  OBVIOUS
<1>3. l \in Locals /\ Same(l, l)
  BY <1>2, SameFields DEF IInv
<1>4. Lands(c) \/ \E p \in Finishing : \E m : Go(c, p, m) /\ Same(m, l)
  <2>1. CASE FinishDestination(c)
    <3>1. \/ Go(c, "finishSource", [l EXCEPT !.dv = docs[l.tr.id.to], !.ans = TRUE])
          \/ Go(c, "finishProbe", [l EXCEPT !.k = 1])
      BY <1>2, <2>1, Zenon DEF FinishDestination
    <3>2. /\ Same([l EXCEPT !.dv = docs[l.tr.id.to], !.ans = TRUE], l)
          /\ Same([l EXCEPT !.k = 1], l)
      BY <1>3, SameFields, Zenon
    <3>3. "finishSource" \in Finishing /\ "finishProbe" \in Finishing
      BY DEF Finishing
    <3> QED
      BY <3>1, <3>2, <3>3, Zenon
  <2>2. CASE FinishProbe(c)
    <3>1. \/ Go(c, "retire", l) \/ Answer(c, FALSE)
          \/ Go(c, "finishProbe", [l EXCEPT !.k = l.k + 1])
      BY <1>2, <2>2, Zenon DEF FinishProbe, Probe, Fail, At
    <3>2. Same([l EXCEPT !.k = l.k + 1], l)
      BY <1>3, SameFields, Zenon
    <3>3. "retire" \in Finishing /\ "finishProbe" \in Finishing
      BY DEF Finishing
    <3>4. Answer(c, FALSE) => Lands(c)
      BY ReturnsLand
    <3> QED
      BY <1>3, <3>1, <3>2, <3>3, <3>4, Zenon
  <2>3. CASE FinishSource(c)
    <3>1. \E p \in {"retire", "outcome", "clean"} : Go(c, p, l)
      BY <1>2, <2>3 DEF FinishSource
    <3> QED
      BY <1>3, <3>1 DEF Finishing
  <2>4. CASE RecordOutcome(c)
    <3>1. Recovered(c, FALSE) \/ Go(c, "clean", l)
      BY <1>2, <2>4 DEF RecordOutcome
    <3> QED
      BY <1>3, <3>1, ReturnsLand DEF Finishing
  <2>5. CASE Unmark(c)
    BY <1>2, <1>3, <2>5 DEF Unmark, Finishing
  <2> QED
    BY <2>1, <2>2, <2>3, <2>4, <2>5
<1> QED
  BY <1>1, <1>2, <1>4, FinishingSeen, ReadingWay

\* The source is cleaned once running/ stands.
LEMMA CleanWay ==
    ASSUME IInv, IInv', MoveInv, OnItsWay, ~Reaps, NEW c \in Clients,
           CleanSource(c) \/ CleanSwap(c)
    PROVE  OnItsWay'
<1>1. PICK l, id : l = lv[c] /\ id = l.tr.id
  OBVIOUS
<1>2. record' = record /\ pc[c] \in Finishing /\ pc[c] \in Carrying
  BY DEF CleanSource, CleanSwap, At, Finishing, Carrying
<1>3. /\ Seen(pc[c], l) /\ id \in TransitionId /\ Stands(id.to) /\ Sound(l.tr)
      /\ id.to = "running" /\ id.from = "queue"
  <2>1. Seen(pc[c], l) /\ Stands(id.to)
    BY <1>1, <1>2, OwnPromise DEF Seen
  <2> QED
    BY <1>1, <1>2, <2>1, OwnPromise DEF OnItsWay, Kept
<1>4. \A p \in Finishing : Seen(p, l)
  BY <1>1, <1>2, FinishingSeen DEF Same
<1>5. \/ docs' = docs /\ \E p \in {"retire", "unmark", "clean"} : Go(c, p, l)
      \/ /\ Sentinel(docs["queue"], "fence", id) /\ Go(c, "retire", l)
         /\ docs' = [docs EXCEPT !["queue"] = Stamp(docs["queue"], "cleaned", id)]
  <2>1. docs \in [Prefix -> Doc \cup {None}] /\ "queue" \in Prefix
    BY DEF IInv, StoreOK, Prefix
  <2>2. CASE CleanSource(c)
    BY <1>1, <1>3, <2>1, <2>2 DEF CleanSource
  <2>3. CASE CleanSwap(c)
    BY <1>1, <1>3, <2>1, <2>3 DEF CleanSwap
  <2> QED
    BY <2>2, <2>3
<1>6. CASE docs' = docs /\ \E p \in {"retire", "unmark", "clean"} : Go(c, p, l)
  BY <1>2, <1>4, <1>6, ReadingWay DEF Finishing
<1>7. CASE /\ Sentinel(docs["queue"], "fence", id) /\ Go(c, "retire", l)
           /\ docs' = [docs EXCEPT !["queue"] = Stamp(docs["queue"], "cleaned", id)]
  <2>1. PICK d : d = Stamp(docs["queue"], "cleaned", id)
    OBVIOUS
  <2>2. docs \in [Prefix -> Doc \cup {None}] /\ "queue" \in Prefix /\ docs["queue"] \in Doc
    BY <1>7 DEF IInv, StoreOK, Prefix, Sentinel
  <2>3. /\ d.st = "cleaned" /\ d.id = id /\ d.rev = docs["queue"].rev /\ d # None
        /\ d.restarts = docs["queue"].restarts /\ d.lost = docs["queue"].lost
    BY <1>3, <2>1, <2>2, StampOK, StampKeeps, NoneAssumption DEF Doc
  <2>4. docs'["queue"] = d /\ \A q \in Prefix : q # "queue" => docs'[q] = docs[q]
    BY <1>7, <2>1, <2>2
  <2>5. Aging
    BY <1>7, <2>3, <2>4 DEF Aging, Ages, Stands, Sources, Prefix, Sentinel
  <2>6. Keeping
    BY <1>2 DEF Keeping, Promised
  <2>7. Kept'
    <3>1. \A t \in Terminal : ~Stands(t)'
      BY <2>4 DEF OnItsWay, Kept, Stands, Terminal, Prefix
    <3>2. docs'["running"] = docs["running"] /\ Stands("running")' /\ Stands("running")
      BY <1>3, <2>4 DEF Stands, Prefix
    <3>3. docs'["running"].st \in {"running", "fence"} /\ Like(docs["running"])'
      BY <2>3, <2>4, <3>2 DEF OnItsWay, Kept, Like
    <3>4. record' # None =>
           (/\ Sound(record)
            /\ record.state # "prepared" => Moved(record.id)
            /\ record.state \in {"completed", "retired"} => Stands(record.id.to))'
      BY <1>2, <2>5, RecordKept DEF OnItsWay
    <3>5. docs'["running"].st = "fence" =>
            docs'["running"].id.from = "running" /\ Promised(docs["running"].id)'
      BY <1>2, <3>2 DEF OnItsWay, Kept, Promised, Sources
    <3>6. Stands("queue")' /\ docs'["queue"].st = "cleaned"
      BY <2>3, <2>4 DEF Stands
    <3> QED
      BY <3>1, <3>2, <3>3, <3>4, <3>5, <3>6 DEF Kept, Sources
  <2>8. Seen("retire", l)'
    <3>1. Sound(l.tr)' /\ Stands(id.to)'
      BY <1>1, <1>2, <1>3, <2>4, <2>5, OwnPromise, SoundKeeps
         DEF OnItsWay, Kept, Stands, Prefix
    <3> QED
      BY <1>1, <3>1 DEF Seen, Barred, Carrying, Finishing
  <2> QED
    BY <1>7, <2>5, <2>6, <2>7, <2>8, WayStep DEF Sees
<1> QED
  BY <1>5, <1>6, <1>7

\* Recovery as a whole.
LEMMA RecoverWay ==
    ASSUME IInv, IInv', MoveInv, OnItsWay, ~Reaps, NEW c \in Clients, RecoverStep(c)
    PROVE  LossInv'
BY RecoverRecordWay, AbortedWay, FenceReadWay, FenceSwapWay, BarredWay,
   DestinationReadWay, DestinationWriteWay, DestinationIndexWay, MarkCompletedWay,
   MarkAbortedWay, FinishingWay, CleanWay, RetireWay
   DEF RecoverStep, LossInv

-----------------------------------------------------------------------------
\* The source is read.
LEMMA PrepareSourceWay ==
    ASSUME IInv, IInv', MoveInv, OnItsWay, NEW c \in Clients, PrepareSource(c)
    PROVE  OnItsWay'
<1>1. PICK q, d, m : q = lv[c].rq /\ d = docs[q.from] /\ m = [lv[c] EXCEPT !.src = d]
  OBVIOUS
<1>2. docs' = docs /\ record' = record /\ pc[c] = "source" /\ lv[c] \in Locals
  BY DEF PrepareSource, At, Reads, store, IInv
<1>3. m.src = d /\ m.rq = q
  BY <1>1, <1>2 DEF Locals
<1>4. \/ Go(c, "moved", lv[c]) \/ Answer(c, FALSE) \/ CallRecover(c, lv[c], "refuse")
      \/ d # None /\ d.st = q.from /\ Go(c, "basis", m)
  BY <1>1 DEF PrepareSource
<1>5. d # None /\ d.st = q.from => Seen("basis", m)
  BY <1>1, <1>3 DEF Seen, Read, Stands, Like, Barred, Carrying, Finishing
<1>6. Seen("moved", lv[c])
  BY DEF Seen, Barred, Carrying, Finishing
<1> QED
  BY <1>2, <1>4, <1>5, <1>6, ReturnsLand, ReadingWay

\* The move that is derived from it is sound: what stands in running/ already
\* is what the move would write.
LEMMA PrepareBasisWay ==
    ASSUME IInv, IInv', MoveInv, OnItsWay, NEW c \in Clients, PrepareBasis(c)
    PROVE  OnItsWay'
<1> DEFINE q == lv[c].rq
           d == docs[q.to]
           Id(basis) == [from |-> q.from, to |-> q.to, src |-> lv[c].src,
                         dst |-> Merge(lv[c].src, basis, q.from, q.to)]
           Candidate(basis, dver) ==
               [id |-> Id(basis), owner |-> 0, dver |-> dver, state |-> "prepared"]
           m(r) == [lv[c] EXCEPT !.src = None, !.cand = r]
<1>1. docs' = docs /\ record' = record /\ pc[c] = "basis" /\ lv[c] \in Locals
  BY DEF PrepareBasis, At, Reads, store, IInv
<1>2. /\ q \in Request /\ q.to \in Prefix /\ lv[c].src \in LiveDoc /\ RequestOK(q)
      /\ Read(q.from, lv[c].src)
  BY <1>1, OwnWord
     DEF Remembers, Vouches, Preparing, Asking, OnItsWay, Seen, Request
<1>3. \/ Cleaned(d) /\ Go(c, "prepare", m(Candidate(q, d)))
      \/ d = None /\ Go(c, "prepare", m(Candidate(q, d)))
      \/ d # None /\ d.st = q.to /\ Go(c, "prepare", m(Candidate(d, d)))
      \/ Fail(c)
  BY Zenon DEF PrepareBasis
<1>4. ASSUME NEW basis, NEW r, r = Candidate(basis, d),
             d # None /\ q.to = "running" /\ d.st = "running" => basis = d
      PROVE  Sound(r)
  <2>1. r.id.from = q.from /\ r.id.to = q.to /\ r.id.src = lv[c].src /\ r.dver = d
        /\ r.id.dst = Merge(lv[c].src, basis, q.from, q.to)
    BY <1>4
  <2>2. ASSUME q.to = "running"
        PROVE  /\ Like(r.id.dst)
               /\ d # None /\ d.st = "running" => d = r.id.dst
    <3>1. q.from = "queue" /\ Like(lv[c].src)
      BY <1>2, <2>2 DEF RequestOK, Read
    <3>2. r.id.dst = [st |-> "running", id |-> None, rev |-> lv[c].src.rev,
                      lease |-> basis.lease, by |-> basis.by,
                      restarts |-> lv[c].src.restarts, lost |-> lv[c].src.lost]
      BY <2>1, <2>2, <3>1 DEF Merge, Terminal
    <3>3. Like(r.id.dst)
      BY <3>1, <3>2 DEF Like
    <3>4. ASSUME d # None, d.st = "running" PROVE d = r.id.dst
      <4>1. d \in LiveDoc
        BY <1>2, <3>4 DEF IInv, StoreOK, Doc, SentinelDoc
      <4>2. Like(d) /\ basis = d
        BY <1>4, <2>2, <3>4 DEF OnItsWay, Kept, Stands
      <4>3. /\ d.rev = lv[c].src.rev /\ d.restarts = lv[c].src.restarts
            /\ d.lost = lv[c].src.lost /\ d.id = None
        BY <3>1, <4>1, <4>2 DEF Like, LiveDoc
      <4> QED
        BY <3>2, <3>4, <4>1, <4>2, <4>3 DEF LiveDoc
    <3> QED
      BY <3>3, <3>4
  <2> QED
    BY <1>2, <2>1, <2>2 DEF Sound
<1>5. ASSUME NEW r, Sound(r), r.state = "prepared", Go(c, "prepare", m(r)) PROVE OnItsWay'
  <2>1. PICK x : x = m(r)
    OBVIOUS
  <2>2. x.cand = r
    BY <1>1, <2>1, Zenon DEF Locals
  <2>3. Seen("prepare", x)
    BY <1>5, <2>2 DEF Seen, Barred, Carrying, Finishing
  <2> QED
    BY <1>1, <1>5, <2>1, <2>3, ReadingWay
<1>6. Fail(c) => Lands(c)
  BY ReturnsLand DEF Fail
<1>7. CASE Cleaned(d) \/ d = None
  <2>1. Sound(Candidate(q, d)) /\ Candidate(q, d).state = "prepared"
    <3>1. ~(d # None /\ q.to = "running" /\ d.st = "running")
      BY <1>7 DEF Cleaned
    <3> QED
      BY <1>4, <3>1
  <2>2. ~(d # None /\ d.st = q.to)
    BY <1>2, <1>7 DEF Cleaned, Prefix, Terminal
  <2> HIDE DEF Candidate, m
  <2> QED
    BY <1>1, <1>3, <1>5, <1>6, <2>1, <2>2, ReadingWay
<1>8. CASE d # None /\ d.st = q.to
  <2>1. /\ Sound(Candidate(d, d)) /\ Candidate(d, d).state = "prepared"
        /\ ~Cleaned(d)
    BY <1>2, <1>4, <1>8 DEF Cleaned, Prefix, Terminal
  <2> HIDE DEF Candidate, m
  <2> QED
    BY <1>1, <1>3, <1>5, <1>6, <1>8, <2>1, ReadingWay
<1> QED
  BY <1>1, <1>3, <1>6, <1>7, <1>8, ReadingWay

\* A prepared record is never the one to be replaced.
LEMMA PrepareRecordWay ==
    ASSUME IInv, IInv', MoveInv, OnItsWay, NEW c \in Clients, PrepareRecord(c)
    PROVE  OnItsWay'
<1>1. docs' = docs /\ record' = record /\ pc[c] = "prepare" /\ lv[c] \in Locals
  BY DEF PrepareRecord, At, Reads, store, IInv
<1>2. PICK n : n = [lv[c] EXCEPT !.rv = record]
  OBVIOUS
<1>3. /\ n.rv = record /\ n.cand = lv[c].cand /\ Sound(lv[c].cand)
      /\ lv[c].cand.state = "prepared"
  BY <1>1, <1>2 DEF Locals, OnItsWay, Seen
<1>4. \/ Answer(c, FALSE) \/ \E l : CallRecover(c, l, "loop")
      \/ (record = None \/ record.state # "prepared") /\ Go(c, "install", n)
  <2>1. CASE record # None /\ record.state = "prepared"
    BY <2>1, Zenon DEF PrepareRecord, Fail
  <2>2. CASE ~(record # None /\ record.state = "prepared")
    BY <1>2, <2>2, Zenon DEF PrepareRecord
  <2> QED
    BY <2>1, <2>2
<1>5. record = None \/ record.state # "prepared" => Seen("install", n)
  BY <1>3 DEF Seen, Barred, Carrying, Finishing
<1> QED
  BY <1>1, <1>4, <1>5, ReturnsLand, ReadingWay

\* The candidate replaces a record no fence that holds the job depends on.
LEMMA InstallWay ==
    ASSUME IInv, IInv', MoveInv, OnItsWay, NEW c \in Clients, Install(c)
    PROVE  OnItsWay'
<1>1. /\ docs' = docs /\ pc[c] = "install" /\ lv[c].cand \in Record
      /\ Sound(lv[c].cand) /\ lv[c].cand.state = "prepared"
      /\ lv[c].rv = None \/ lv[c].rv.state # "prepared"
  BY OwnWord DEF Install, At, Remembers, Vouches, OnItsWay, Seen
<1>2. Lands(c)
  <2>1. \E l : CallRecover(c, l, "answer") \/ CallRecover(c, l, "source")
    BY Zenon DEF Install
  <2> QED
    BY <2>1, ReturnsLand
<1>3. CASE record' = record
  BY <1>1, <1>2, <1>3, ReadingWay
<1>4. CASE record = lv[c].rv /\ record' = [lv[c].cand EXCEPT !.owner = owners + 1]
  <2>1. PICK r, s : r = lv[c].cand /\ s = record'
    OBVIOUS
  <2>2. s.id = r.id /\ s.dver = r.dver /\ s.state = r.state
    BY <1>1, <1>4, <2>1 DEF Record
  <2>3. ~\E id : Promised(id)
    BY <1>1, <1>4 DEF Promised
  <2>4. Aging /\ Keeping
    BY <1>1, <2>3 DEF Aging, Ages, Stands, Keeping
  <2>5. Kept'
    BY <1>1, <2>1, <2>2, <2>3 DEF OnItsWay, Kept, Stands, Like, Sound, Read, Moved, Promised
  <2> QED
    BY <1>2, <2>4, <2>5, WayStep DEF Sees
<1> QED
  BY <1>3, <1>4 DEF Install

\* Preparation as a whole.
LEMMA PrepareWay ==
    ASSUME IInv, IInv', MoveInv, OnItsWay, NEW c \in Clients, PrepareStep(c)
    PROVE  OnItsWay'
<1>1. CASE PrepareMoved(c)
  <2>1. Answer(c, TRUE) \/ Answer(c, FALSE)
    BY <1>1 DEF PrepareMoved, Live
  <2>2. docs' = docs /\ record' = record
    BY <1>1 DEF PrepareMoved, Reads, store
  <2> QED
    BY <2>1, <2>2, ReturnsLand, ReadingWay
<1> QED
  BY <1>1, PrepareSourceWay, PrepareBasisWay, PrepareRecordWay, InstallWay DEF PrepareStep

-----------------------------------------------------------------------------
\* A renewal makes the running document younger than every version read.
LEMMA RenewWay ==
    ASSUME IInv, IInv', MoveInv, OnItsWay, NEW c \in Clients, Renew(c)
    PROVE  OnItsWay'
<1>1. PICK d : d = [docs["running"] EXCEPT !.lease = now + Promise]
  OBVIOUS
<1>2. /\ docs \in [Prefix -> Doc \cup {None}] /\ {"queue", "running"} \subseteq Prefix
      /\ docs["running"] # None /\ docs["running"].st = "running"
      /\ docs' = [docs EXCEPT !["running"] = d] /\ record' = record
      /\ docs["running"].lease < now + Promise
  BY <1>1 DEF Renew, Live, IInv, StoreOK, Prefix
<1>3. docs["running"] \in LiveDoc /\ now + Promise \in Nat
  BY <1>2, ConstantsAssumption DEF Doc, SentinelDoc, IInv, RestType
<1>4. /\ d \in LiveDoc /\ d.st = "running" /\ d.rev = docs["running"].rev
      /\ d.restarts = docs["running"].restarts /\ d.lost = docs["running"].lost
      /\ d.lease > docs["running"].lease
  BY <1>1, <1>2, <1>3 DEF LiveDoc
<1>5. d # None
  BY <1>4, NoneAssumption DEF Doc
<1>6. docs'["running"] = d /\ \A q \in Prefix : q # "running" => docs'[q] = docs[q]
  BY <1>2
<1>7. Aging
  BY <1>2, <1>4, <1>5, <1>6 DEF Aging, Ages, Stands, Sources
<1>8. Keeping
  BY <1>2 DEF Keeping, Promised
<1>9. Kept'
  <2>1. \A t \in Terminal : ~Stands(t)'
    BY <1>6 DEF OnItsWay, Kept, Stands, Terminal, Prefix
  <2>2. docs'["queue"] = docs["queue"] /\ Stands("queue")' /\ Stands("running")'
    BY <1>2, <1>5, <1>6 DEF OnItsWay, Kept, Stands
  <2>3. docs'["running"].st = "running" /\ Like(docs["running"])'
    BY <1>2, <1>4, <1>6, <2>2 DEF OnItsWay, Kept, Stands, Like
  <2>4. record' # None =>
         (/\ Sound(record)
          /\ record.state # "prepared" => Moved(record.id)
          /\ record.state \in {"completed", "retired"} => Stands(record.id.to))'
    BY <1>2, <1>7, RecordKept DEF OnItsWay
  <2>5. docs["queue"].st \in {"queue", "fence", "cleaned"}
    BY DEF OnItsWay, Kept
  <2> QED
    BY <2>1, <2>2, <2>3, <2>4, <2>5 DEF Kept, Sources
<1>10. Sees(c)
  BY DEF Renew, Sees, Lands
<1> QED
  BY <1>7, <1>8, <1>9, <1>10, WayStep

\* The bodies: a sweep finds nothing settled, an admission finds queue/ taken.
LEMMA BodyWay ==
    ASSUME IInv, IInv', MoveInv, OnItsWay, ~Rewrites, NEW c \in Clients, BodyStep(c)
    PROVE  OnItsWay'
<1>1. CASE SweepJudge(c)
  <2>1. ~\E t \in Terminal : Live(t)
    BY DEF OnItsWay, Kept, Live, Stands
  <2>2. ~(record # None /\ record.state = "retired" /\ record.id.to \in Terminal)
    BY DEF OnItsWay, Kept
  <2>3. Idle(c) /\ docs' = docs /\ record' = record
    BY <1>1, <2>1, <2>2 DEF SweepJudge, Reads, store
  <2> QED
    BY <2>3, ReturnsLand, ReadingWay
<1>2. CASE AdmitRecord(c) \/ AdmitMark(c) \/ AdmitCreate(c)
  <2>1. docs' = docs /\ record' = record
    BY <1>2 DEF AdmitRecord, AdmitMark, AdmitCreate, Reads, store, OnItsWay, Kept, Stands
  <2>2. Idle(c) \/ \E p \in {"admitMark", "admitCreate", "admitCheck"} : Go(c, p, lv[c])
    BY <1>2 DEF AdmitRecord, AdmitMark, AdmitCreate
  <2>3. \A p \in {"admitMark", "admitCreate", "admitCheck"} : Seen(p, lv[c])
    BY DEF Seen, Barred, Carrying, Finishing
  <2> QED
    BY <2>1, <2>2, <2>3, ReturnsLand, ReadingWay
<1>3. CASE RewriteBody(c)
  BY <1>3, OwnWord DEF RewriteBody, At, Licensed
<1>4. CASE ~SweepJudge(c) /\ ~AdmitRecord(c) /\ ~AdmitMark(c) /\ ~AdmitCreate(c)
           /\ ~RewriteBody(c) /\ ~Renew(c)
  <2>1. Lands(c)
    BY <1>4, BodiesLand
  <2>2. docs' = docs /\ record' = record
    BY <1>4, BarredWay
       DEF BodyStep, ClaimBody, ClaimCheck, ClaimRecheck, FinishSettled, ReapBody,
           SettleBody, CancelLookup, CancelFollow, AdmitProbe, AdmitCheck, Reads, store
  <2> QED
    BY <2>1, <2>2, ReadingWay
<1> QED
  BY <1>1, <1>2, <1>3, <1>4, RenewWay

\* What ends the job stands for good.
LEMMA EndedStays == ASSUME IInv, MoveInv, Ended, [Next]_vars PROVE Ended'
<1>1. PICK t \in Terminal : docs[t] # None /\ docs[t].st = t
  BY DEF Ended, Live
<1>2. docs \in [Prefix -> Doc \cup {None}] /\ t \in Prefix /\ t \notin Sources
  BY DEF IInv, StoreOK, Prefix, Sources, Terminal
<1>3. CASE docs' = docs
  BY <1>1, <1>3 DEF Ended, Live
<1>4. ASSUME NEW p \in Sources, NEW d, docs' = [docs EXCEPT ![p] = d] PROVE Ended'
  BY <1>1, <1>2, <1>4 DEF Ended, Live
<1>5. CASE Tick \/ UNCHANGED vars
  BY <1>3, <1>5 DEF Tick, vars, store
<1>6. ASSUME NEW c \in Clients, StartStep(c) \/ PrepareStep(c) \/ Crash(c) PROVE Ended'
  BY <1>3, <1>6
     DEF StartStep, StartAdmit, StartClaim, StartTakeBack, StartFinish, StartReap,
         StartCancel, StartSettle, StartRewrite, StartSweep, Crash, PrepareStep,
         PrepareSource, PrepareMoved, PrepareBasis, PrepareRecord, Install, Reads, store
<1>7. ASSUME NEW c \in Clients, BodyStep(c) PROVE Ended'
  <2>1. CASE Renew(c)
    BY <1>2, <1>4, <2>1 DEF Renew, Sources
  <2>2. CASE RewriteBody(c)
    BY <1>2, <1>3, <1>4, <2>2 DEF RewriteBody, Sources
  <2>3. CASE SweepDelete(c)
    BY <1>4, <2>3, OwnWord DEF SweepDelete, At, Vouches
  <2>4. CASE AdmitCreate(c)
    BY <1>3, <1>4, <2>4 DEF AdmitCreate, Sources
  <2> QED
    BY <1>3, <1>7, <2>1, <2>2, <2>3, <2>4
       DEF BodyStep, ClaimBody, ClaimCheck, ClaimRecheck, FinishSettled, ReapBody,
           SettleBody, CancelLookup, CancelFollow, SweepJudge, AdmitProbe, AdmitRecord,
           AdmitMark, AdmitCheck, Reads, store
<1>8. ASSUME NEW c \in Clients, RecoverStep(c) PROVE Ended'
  <2>1. PICK id : id = lv[c].tr.id
    OBVIOUS
  <2>2. CASE DestinationWrite(c)
    <3>1. IdOK(id) /\ id.dst # None /\ id.to \in Prefix /\ lv[c] \in Locals
      BY <2>1, <2>2, OwnWord, RecordParts, NoneAssumption
         DEF DestinationWrite, At, Vouches, Remembers, Carrying, Doc
    <3>2. docs' = docs \/ docs' = [docs EXCEPT ![id.to] = id.dst]
      BY <2>1, <2>2, <3>1 DEF DestinationWrite, Locals
    <3>3. CASE docs' = [docs EXCEPT ![id.to] = id.dst]
      BY <1>1, <1>2, <3>1, <3>3 DEF Ended, Live, IdOK
    <3> QED
      BY <1>3, <3>2, <3>3
  <2>3. CASE FenceSwap(c) \/ CleanSource(c) \/ CleanSwap(c)
    <3>1. id.from \in Sources
      BY <2>1, <2>3, OwnWord
         DEF FenceSwap, CleanSource, CleanSwap, At, Vouches, Carrying, IdOK
    <3>2. docs' = docs \/ \E d : docs' = [docs EXCEPT ![id.from] = d]
      <4>1. CASE FenceSwap(c)
        BY <2>1, <4>1 DEF FenceSwap
      <4>2. CASE CleanSource(c)
        BY <2>1, <4>2 DEF CleanSource
      <4>3. CASE CleanSwap(c)
        BY <2>1, <4>3 DEF CleanSwap
      <4> QED
        BY <2>3, <4>1, <4>2, <4>3
    <3> QED
      BY <1>3, <1>4, <3>1, <3>2
  <2> QED
    BY <1>3, <1>8, <2>2, <2>3
       DEF RecoverStep, RecoverRecord, AbortedDestination, AbortedSource, FenceRead,
           GoneDestination, GoneProbe, DestinationRead, DestinationIndex, MarkCompleted,
           MarkAborted, SetState, FinishDestination, FinishProbe, FinishSource,
           RecordOutcome, Unmark, RetireRecord, Reads, store
<1> QED
  BY <1>5, <1>6, <1>7, <1>8 DEF Next, Step

\* The invariant is inductive, given the types and promises.
LEMMA LossInductive ==
    ASSUME ~Reaps, ~Rewrites, IInv, IInv', MoveInv, LossInv, [Next]_vars PROVE LossInv'
<1>1. CASE Ended
  BY <1>1, EndedStays DEF LossInv
<1>2. CASE OnItsWay
  <2>1. CASE Tick \/ UNCHANGED vars
    <3>1. docs' = docs /\ record' = record /\ pc' = pc /\ lv' = lv
      BY <2>1 DEF Tick, vars, store
    <3>2. Kept' /\ Aging /\ Keeping
      BY <1>2, <3>1, StillKept DEF OnItsWay
    <3>3. ASSUME NEW c \in Clients PROVE Seen(pc[c], lv[c])'
      <4>1. Lands(c)
        BY <3>1 DEF Lands
      <4>2. OnItsWay'
        BY <1>2, <3>1, <4>1, ReadingWay
      <4> QED
        BY <4>2 DEF OnItsWay
    <3> QED
      BY <3>2, <3>3 DEF LossInv, OnItsWay
  <2>2. ASSUME NEW c \in Clients, StartStep(c) \/ Crash(c) PROVE OnItsWay'
    <3>1. docs' = docs /\ record' = record
      BY <2>2 DEF StartStep, StartAdmit, StartClaim, StartTakeBack, StartFinish, StartReap,
                  StartCancel, StartSettle, StartRewrite, StartSweep, Crash, store
    <3> QED
      BY <1>2, <2>2, <3>1, StartsLand, ReadingWay
  <2> QED
    BY <1>2, <2>1, <2>2, RecoverWay, PrepareWay, BodyWay DEF Next, Step, LossInv
<1> QED
  BY <1>1, <1>2 DEF LossInv

\* The job is never lost, whoever claims, renews, finishes, cancels, replays
\* or sweeps it and wherever any of them dies: a live document stands, or a
\* fence whose record is there for recovery to carry out.  A rewritten body
\* may bring back a version a stale move pinned, and a reaper starts a second
\* generation under the same prefixes: both are left out (recover.rs
\* recover_job_transition, prepare.rs).
THEOREM JobNeverLost ==
    ASSUME Admitted, ~Reaps, ~Rewrites PROVE Spec => []NeverLost
<1>1. Init => LossInv
  <2> SUFFICES ASSUME Init PROVE OnItsWay
    BY DEF LossInv
  <2>1. PICK r \in Placements :
          docs = [p \in Prefix |-> IF p = "queue" /\ Admitted THEN Queued(r) ELSE None]
    BY DEF Init
  <2>2. docs["queue"] = Queued(r) /\ \A p \in Prefix : p # "queue" => docs[p] = None
    BY <2>1 DEF Prefix
  <2>3. Queued(r) \in LiveDoc /\ Queued(r).st = "queue"
    BY DEF Queued, LiveDoc, Prefix
  <2>4. Kept
    BY <2>2, <2>3, NoneAssumption DEF Kept, Stands, Init, Terminal, Prefix, Sources, Doc
  <2>5. \A c \in Clients : Seen(pc[c], lv[c])
    BY DEF Init, Seen, Barred, Carrying, Finishing
  <2> QED
    BY <2>4, <2>5 DEF OnItsWay
<1>2. IInv /\ IInv' /\ MoveInv /\ LossInv /\ [Next]_vars => LossInv'
  BY LossInductive
<1>3. LossInv => NeverLost
  <2>1. Ended => NeverLost
    BY DEF Ended, NeverLost, Prefix
  <2>2. OnItsWay => NeverLost
    <3> SUFFICES ASSUME Kept, ~Live("queue"), ~Live("running") PROVE NeverLost
      BY DEF OnItsWay, NeverLost, Prefix
    <3>1. PICK p \in Sources : /\ Stands(p) /\ docs[p].st = "fence"
                               /\ p = "queue" => ~Stands("running")
      BY DEF Kept, Live, Stands, Sources
    <3>2. docs[p].id.from = p /\ Promised(docs[p].id)
      BY <3>1 DEF Kept
    <3> QED
      BY <3>1, <3>2 DEF NeverLost, Promised, Sentinel, Stands
  <2> QED
    BY <2>1, <2>2 DEF LossInv
<1> QED
  BY <1>1, <1>2, <1>3, Invariance, MoveInvariance, PTL DEF Spec
=============================================================================
