------------------------- MODULE PriorityIndexProofs -------------------------
(***************************************************************************)
(* Proofs about PriorityIndex, for any callers, sweepers and priorities,   *)
(* and any number of calls, moves and deaths: the type invariant, and that *)
(* a queued job whose calls never overlapped has its current marker, or,   *)
(* from a re-key's swap to the next marker, one of an earlier priority.    *)
(*                                                                         *)
(* The argument: while nothing has overlapped, one actor at most is in the *)
(* middle of a call (Sole), so what it read of the document and of the     *)
(* markers still holds, and the marker it writes or keeps is never among   *)
(* those it has to delete (Placed).                                        *)
(***************************************************************************)
EXTENDS PriorityIndex, TLAPS

-----------------------------------------------------------------------------
\* The inductive invariant

\* Whoever writes a marker has a priority to write it for.
Keyed ==
    \A a \in Actors : pc[a] \in {"admit", "create", "swap", "present", "rekey",
                               "replay", "missing"}
        => key[a] \in Prios

\* Nothing overlaps: one actor is at work, or a requeue owes its marker.
Sole ==
    /\ \A a, b \in Actors : pc[a] # "idle" /\ pc[b] # "idle" => a = b
    /\ owed # None => Queued /\ owed = doc.prio /\ \A a \in Actors : pc[a] = "idle"

\* What an actor that nobody overlaps knows where it is.
Placed(a) ==
    /\ pc[a] \in {"admit", "create"} => doc.state = "new"
    /\ pc[a] = "create" => key[a] \in markers
    /\ pc[a] \in {"present", "rekey", "replay", "missing"} => Queued /\ key[a] = doc.prio
    /\ pc[a] = "check" => Queued
    /\ pc[a] \in {"scan", "drop"} =>
         IF key[a] = None THEN ~Queued
         ELSE Queued /\ key[a] = doc.prio /\ key[a] \in markers
    /\ pc[a] = "drop" => key[a] \notin plan[a]
    /\ pc[a] = "missing" => key[a] \notin plan[a]
    /\ pc[a] \in {"unmark", "clean", "prune"} => ~Queued
    /\ pc[a] \in {"names", "body"} => plan[a] \subseteq markers

Apart == alone => Sole /\ \A a \in Actors : Placed(a)

IInv == TypeOK /\ Keyed /\ Apart /\ IndexOrder

-----------------------------------------------------------------------------
\* The parts of the type invariant

Docs == [state: {"new", "queued", "fenced", "cleaned", "swept"}, prio: Prios]
Phases == {"idle", "admit", "create", "swap", "present", "rekey", "scan", "drop",
           "replay", "check", "unmark", "clean", "names", "body", "missing",
           "prune"}
Writing == {"admit", "create", "swap", "present", "rekey", "replay", "missing"}

StoreType ==
    doc \in Docs /\ moves \in Nat /\ owed \in Prios \cup {None} /\ markers \in SUBSET Prios

ActorType == pc \in [Actors -> Phases] /\ key \in [Actors -> Prios \cup {None}]

ReadType ==
    at \in [Actors -> Nat] /\ plan \in [Actors -> SUBSET Prios]

CountType ==
    alone \in BOOLEAN /\ unkeyed \in BOOLEAN /\ calls \in Nat /\ crashes \in Nat

\* The type invariant is that of the store, of where the actors are, of what
\* they read and of the counters, each disturbed by other actions.
LEMMA TypeParts == TypeOK <=> StoreType /\ ActorType /\ ReadType /\ CountType
BY DEF TypeOK, StoreType, ActorType, ReadType, CountType, Docs, Phases

\* The same of the next state.
LEMMA TypePartsNext ==
    TypeOK' <=> StoreType' /\ ActorType' /\ ReadType' /\ CountType'
BY DEF TypeOK, StoreType, ActorType, ReadType, CountType, Docs, Phases

\* The parts of a state that satisfies the invariant.
LEMMA Parts ==
    ASSUME IInv
    PROVE  StoreType /\ ActorType /\ ReadType /\ CountType
BY TypeParts DEF IInv

-----------------------------------------------------------------------------
\* What the building blocks do

\* Actor a is the only one at work.
Only(a) == alone /\ owed = None /\ \A b \in Actors \ {a} : pc[b] = "idle"

\* A call that begins alone is the only one.
LEMMA Begins ==
    ASSUME IInv, NEW a \in Actors, Begin(a)
    PROVE  pc[a] = "idle" /\ alone' \in BOOLEAN /\ (alone' => Only(a))
BY DEF Begin, Alone, Only

\* The same of a call that is counted.
LEMMA CallBegins ==
    ASSUME IInv, NEW a \in Actors, Call(a), crashes' = crashes, unkeyed' \in BOOLEAN
    PROVE  pc[a] = "idle" /\ CountType' /\ (alone' => Only(a))
BY Begins, Parts DEF Call, CountType

\* An actor in the middle of a call that began alone is the only one.
LEMMA Middle ==
    ASSUME IInv, NEW a \in Actors, pc[a] # "idle", alone' = alone
    PROVE  alone' => Only(a)
BY DEF IInv, Apart, Sole, Only

\* Where an actor that goes on is.
LEMMA Acts ==
    ASSUME IInv, NEW a \in Actors, NEW p, NEW k, Act(a, p, k)
    PROVE  pc'[a] = p /\ key'[a] = k
BY Parts DEF Act, Go, ActorType

\* An actor that goes on for the priority it acts for.
LEMMA GoesOn ==
    ASSUME IInv, NEW a \in Actors, NEW p, Go(a, p), key' = key
    PROVE  Act(a, p, key[a]) /\ key[a] \in Prios \cup {None}
BY Parts DEF Act, ActorType

\* A step of one actor: what it must leave for the invariant.
LEMMA ActorStep ==
    ASSUME IInv, NEW a \in Actors, NEW p \in Phases, NEW k \in Prios \cup {None},
           Act(a, p, k), p \in Writing => k \in Prios, owed' \in {owed, None},
          
           StoreType', ReadType', CountType', alone' => Only(a),
           alone' => Placed(a)', IndexOrder'
    PROVE  IInv'
<1>1. /\ pc' \in [Actors -> Phases] /\ pc'[a] = p
      /\ key' \in [Actors -> Prios \cup {None}] /\ key'[a] = k
      /\ \A b \in Actors \ {a} : pc'[b] = pc[b] /\ key'[b] = key[b]
  BY Parts DEF Act, Go, ActorType
<1>2. TypeOK' BY <1>1, TypePartsNext DEF ActorType
<1>3. Keyed' BY <1>1 DEF Keyed, Writing, IInv
<1>4. Apart'
  <2> SUFFICES ASSUME alone' PROVE Sole' /\ \A b \in Actors : Placed(b)'
    BY DEF Apart
  <2>1. \A b \in Actors \ {a} : pc'[b] = "idle" BY <1>1 DEF Only
  <2>2. \A b \in Actors \ {a} : Placed(b)' BY <2>1 DEF Placed
  <2>3. Sole' BY <2>1 DEF Sole, Only
  <2> QED BY <1>1, <2>2, <2>3
<1> QED BY <1>2, <1>3, <1>4 DEF IInv

\* A step that changes no marker and queues nothing.
LEMMA OrderKept ==
    ASSUME IInv, markers' = markers, doc'.state = "queued" => Queued,
           doc'.prio = doc.prio, unkeyed' = unkeyed, owed' = owed, alone' => alone
    PROVE  IndexOrder'
BY DEF IInv, IndexOrder, Queued

-----------------------------------------------------------------------------
\* The calls

\* An admission begins before there is a document.
LEMMA AdmitIInv ==
    ASSUME IInv, NEW c \in Actors, Admit(c)
    PROVE  IInv'
<1> USE DEF Admit
<1>1. CountType' /\ (alone' => Only(c)) BY CallBegins, Parts DEF CountType
<1>2. doc.prio \in Prios BY Parts DEF StoreType, Docs
<1>3. pc'[c] = "admit" /\ key'[c] = doc.prio BY Acts
<1>4. Placed(c)' BY <1>3 DEF Placed
<1>5. IndexOrder' BY <1>1, OrderKept DEF Queued, Only
<1>6. StoreType' /\ ReadType' BY Parts DEF StoreType, ReadType
<1> QED BY <1>1, <1>2, <1>4, <1>5, <1>6, ActorStep DEF Phases

\* The document is created under a marker that is there.
LEMMA CreateIInv ==
    ASSUME IInv, NEW c \in Actors, Create(c)
    PROVE  IInv'
<1> USE DEF Create
<1>0. key[c] \in Prios BY DEF IInv, Keyed
<1>1. alone' => Only(c) BY Middle
<1>2. alone => Placed(c) BY DEF IInv, Apart
<1>3. StoreType' BY <1>0, Parts DEF StoreType, Docs
<1>4. ReadType' /\ CountType' BY Parts DEF ReadType, CountType
<1>5. CASE Exists /\ doc' = doc /\ Act(c, "check", key[c])
  <2>1. ~alone BY <1>2, <1>5 DEF Placed, Exists
  <2>2. IndexOrder' BY <2>1 DEF IndexOrder
  <2> QED BY <1>0, <1>1, <1>3, <1>4, <1>5, <2>1, <2>2, ActorStep DEF Phases
<1>6. CASE doc' = [state |-> "queued", prio |-> key[c]] /\ Act(c, "idle", None)
  <2>1. Placed(c)' BY <1>6, Acts DEF Placed
  <2>2. IndexOrder' BY <1>2, <1>6 DEF IndexOrder, Placed
  <2> QED BY <1>1, <1>3, <1>4, <1>6, <2>1, <2>2, ActorStep DEF Phases, Writing
<1> QED BY <1>5, <1>6

\* A repair begins at a queued document.
LEMMA RepairIInv ==
    ASSUME IInv, NEW c \in Actors, Repair(c)
    PROVE  IInv'
<1> USE DEF Repair
<1>1. CountType' /\ (alone' => Only(c)) BY CallBegins, Parts DEF CountType
<1>2. doc.prio \in Prios BY Parts DEF StoreType, Docs
<1>3. pc'[c] = "replay" /\ key'[c] = doc.prio BY Acts
<1>4. Placed(c)' BY <1>3 DEF Placed, Queued
<1>5. IndexOrder' BY <1>1, OrderKept DEF Queued, Only
<1>6. StoreType' /\ ReadType' BY Parts DEF StoreType, ReadType
<1> QED BY <1>1, <1>2, <1>4, <1>5, <1>6, ActorStep DEF Phases

\* A re-key recovers a requeue it meets before it begins.
LEMMA RewriteIInv ==
    ASSUME IInv, NEW c \in Actors, NEW k \in Prios, Rewrite(c, k)
    PROVE  IInv'
<1> USE DEF Rewrite
<1>0. unkeyed' \in BOOLEAN /\ doc.prio \in Prios
  BY Parts DEF CountType, StoreType, Docs
<1>1. CountType' /\ (alone' => Only(c)) BY <1>0, CallBegins
<1>2. ReadType' BY Parts DEF ReadType
<1>3. StoreType' BY <1>0, Parts DEF StoreType
<1>4. Placed(c)' BY Acts DEF Placed
<1>5. IndexOrder'
  <2>1. alone' => alone /\ owed = None /\ markers' = markers /\ unkeyed' = unkeyed
    BY <1>0, <1>1, Parts DEF Only, CountType
  <2> QED BY <2>1 DEF IInv, IndexOrder, Queued
<1> QED BY <1>1, <1>2, <1>3, <1>4, <1>5, ActorStep DEF Phases

\* It writes the document while the markers it has are still there.
LEMMA SwapIInv ==
    ASSUME IInv, NEW c \in Actors, Swap(c)
    PROVE  IInv'
<1> USE DEF Swap
<1>0. key[c] \in Prios BY DEF IInv, Keyed
<1>1. alone' => Only(c) BY Middle
<1>2. ReadType' /\ CountType' BY Parts DEF ReadType, CountType
<1>3. CASE /\ Queued /\ doc' = [doc EXCEPT !.prio = key[c]] /\ unkeyed' = TRUE
           /\ Go(c, "present") /\ key' = key
  <2>1. doc' \in Docs /\ doc'.state = doc.state /\ doc'.prio = key[c]
    BY <1>0, <1>3, Parts DEF StoreType, Docs
  <2>2. StoreType' BY <2>1, Parts DEF StoreType
  <2>3. Act(c, "present", key[c]) /\ pc'[c] = "present" BY <1>3, GoesOn, Acts
  <2>4. Placed(c)' BY <1>3, <2>1, <2>3 DEF Placed, Queued
  <2>5. IndexOrder' BY <1>3, <2>1 DEF IInv, IndexOrder, Queued
  <2> QED BY <1>0, <1>1, <1>2, <2>2, <2>3, <2>4, <2>5, ActorStep DEF Phases
<1>4. CASE ~Queued /\ UNCHANGED <<doc, unkeyed>> /\ Act(c, "scan", None)
  <2>1. StoreType' BY <1>4, Parts DEF StoreType
  <2>2. pc'[c] = "scan" /\ key'[c] = None BY <1>4, Acts
  <2>3. Placed(c)' BY <1>4, <2>2 DEF Placed, Queued
  <2>4. IndexOrder' BY <1>4 DEF IndexOrder, Queued
  <2> QED BY <1>1, <1>2, <1>4, <2>1, <2>3, <2>4, ActorStep DEF Phases, Writing
<1> QED BY <1>3, <1>4 DEF Act

\* A re-key whose document is there goes on to its marker.
LEMMA PresentIInv ==
    ASSUME IInv, NEW c \in Actors, Present(c)
    PROVE  IInv'
<1> USE DEF Present
<1>1. alone' => Only(c) BY Middle
<1>2. alone => Placed(c) BY DEF IInv, Apart
<1>3. StoreType' /\ ReadType' /\ CountType'
  BY Parts DEF StoreType, ReadType, CountType
<1>4. IndexOrder' BY OrderKept DEF Queued
<1>5. CASE Act(c, "rekey", key[c])
  <2>1. key[c] \in Prios BY DEF IInv, Keyed
  <2>2. pc'[c] = "rekey" /\ key'[c] = key[c] BY <1>5, Acts
  <2>3. alone' => Placed(c)' BY <1>2, <2>2 DEF Placed, Queued
  <2> QED BY <1>1, <1>3, <1>4, <1>5, <2>1, <2>3, ActorStep DEF Phases
<1>6. CASE ~Exists /\ Act(c, "scan", None)
  <2>1. pc'[c] = "scan" /\ key'[c] = None BY <1>6, Acts
  <2>2. ~Queued BY <1>6 DEF Exists, Queued
  <2>3. Placed(c)' BY <2>1, <2>2 DEF Placed, Queued
  <2> QED BY <1>1, <1>3, <1>4, <1>6, <2>3, ActorStep DEF Phases, Writing
<1> QED BY <1>5, <1>6

\* A marker more leaves nothing unindexed.
LEMMA MarkIInv ==
    ASSUME IInv, NEW c \in Actors, Mark(c)
    PROVE  IInv'
<1> USE DEF Mark
<1>0. key[c] \in Prios /\ key[c] # None
  BY IndexAssumption DEF IInv, Keyed
<1>1. alone' => Only(c) BY Middle
<1>2. alone => Placed(c) BY DEF IInv, Apart
<1>3. StoreType' /\ ReadType' /\ CountType'
  BY <1>0, Parts DEF StoreType, ReadType, CountType
<1>4. IndexOrder' BY <1>2 DEF IndexOrder, Placed, Queued
<1>5. PICK p \in {"create", "scan", "check"} :
        /\ Go(c, p)
        /\ p = "create" => pc[c] = "admit"
        /\ p = "scan" => pc[c] = "rekey"
        /\ p = "check" => pc[c] = "replay"
  BY Zenon
<1>6. Act(c, p, key[c]) /\ pc'[c] = p /\ key' = key BY <1>5, GoesOn, Acts
<1>7. alone' => Placed(c)' BY <1>0, <1>2, <1>5, <1>6 DEF Placed, Queued
<1> QED BY <1>0, <1>1, <1>3, <1>4, <1>6, <1>7, ActorStep DEF Phases

\* The markers to drop are all but the current one.
LEMMA ScanIInv ==
    ASSUME IInv, NEW c \in Actors, Scan(c)
    PROVE  IInv'
<1> USE DEF Scan
<1>1. alone' => Only(c) BY Middle
<1>2. alone => Placed(c) BY DEF IInv, Apart
<1>3. StoreType' /\ CountType' BY Parts DEF StoreType, CountType
<1>4. ReadType' /\ key[c] \notin plan'[c] BY Parts DEF ReadType, StoreType
<1>5. IndexOrder' BY OrderKept DEF Queued
<1>6. Act(c, "drop", key[c]) /\ key[c] \in Prios \cup {None} /\ pc'[c] = "drop"
  BY GoesOn, Acts
<1>7. alone' => Placed(c)' BY <1>2, <1>4, <1>6 DEF Placed, Queued
<1> QED BY <1>1, <1>3, <1>4, <1>5, <1>6, <1>7, ActorStep DEF Phases, Writing

\* The deletion of one listed marker spares the one the actor keeps; after the
\* last one it goes on.
LEMMA DeletesIInv ==
    ASSUME IInv, NEW a \in Actors, pc[a] \in {"drop", "prune"},
           NEW p \in {"idle", "check"}, NEW k \in Prios \cup {None},
           Deletes(a, Act(a, p, k)),
           p = "check" => pc[a] = "drop" /\ key[a] # None
    PROVE  IInv'
<1> USE DEF Deletes
<1>1. alone' => Only(a) BY Middle
<1>2. alone => Placed(a) BY DEF IInv, Apart
<1>3. CountType' BY Parts DEF CountType
<1>4. ASSUME NEW m \in plan[a], markers' = markers \ {m},
             plan' = [plan EXCEPT ![a] = @ \ {m}], UNCHANGED <<pc, key>>
      PROVE  IInv'
  <2>1. StoreType' BY <1>4, Parts DEF StoreType
  <2>2. ReadType' /\ plan'[a] \subseteq plan[a] BY <1>4, Parts DEF ReadType
  <2>3. /\ pc[a] \in Phases \ Writing /\ key[a] \in Prios \cup {None}
        /\ Act(a, pc[a], key[a])
    BY <1>4, Parts DEF Act, Go, ActorType, Phases, Writing
  <2>4. alone' => Placed(a)' BY <1>2, <1>4, <2>2 DEF Placed, Queued
  <2>5. IndexOrder'
    <3>1. CASE pc[a] = "drop" /\ key[a] # None
      BY <1>2, <1>4, <3>1 DEF Placed, IndexOrder
    <3>2. CASE pc[a] = "prune" \/ key[a] = None
      BY <1>2, <3>2 DEF Placed, IndexOrder, Queued
    <3> QED BY <3>1, <3>2
  <2> QED BY <1>1, <1>3, <2>1, <2>2, <2>3, <2>4, <2>5, ActorStep
<1>5. CASE Act(a, p, k) /\ UNCHANGED <<markers, plan>>
  <2>1. StoreType' /\ ReadType' BY <1>5, Parts DEF StoreType, ReadType
  <2>2. IndexOrder' BY <1>5, OrderKept DEF Queued
  <2>3. pc'[a] = p BY <1>5, Acts
  <2>4. alone' => Placed(a)' BY <1>2, <2>3 DEF Placed, Queued
  <2> QED BY <1>1, <1>3, <1>5, <2>1, <2>2, <2>4, ActorStep DEF Phases, Writing
<1> QED BY <1>4, <1>5

\* A marker dropped is not the one that is kept.
LEMMA DropIInv ==
    ASSUME IInv, NEW c \in Actors, Drop(c)
    PROVE  IInv'
<1>1. CASE key[c] = None
  <2>1. Deletes(c, Act(c, "idle", None)) BY <1>1 DEF Drop, Deletes
  <2> QED BY <2>1, DeletesIInv DEF Drop
<1>2. CASE key[c] # None
  <2>1. Deletes(c, Act(c, "check", key[c])) BY <1>2 DEF Drop, Deletes
  <2>2. key[c] \in Prios \cup {None} BY Parts DEF ActorType
  <2> QED BY <1>2, <2>1, <2>2, DeletesIInv DEF Drop
<1> QED BY <1>1, <1>2

\* Only a job that is gone loses the marker just written.
LEMMA CheckIInv ==
    ASSUME IInv, NEW c \in Actors, Check(c)
    PROVE  IInv'
<1> USE DEF Check
<1>1. alone' => Only(c) BY Middle
<1>2. alone => Placed(c) BY DEF IInv, Apart
<1>3. StoreType' /\ ReadType' /\ CountType'
  BY Parts DEF StoreType, ReadType, CountType
<1>4. alone => markers' = markers BY <1>2 DEF Placed, Queued, Exists
<1>5. IndexOrder' BY <1>4 DEF IInv, IndexOrder, Queued
<1>6. Placed(c)' BY Acts DEF Placed
<1> QED BY <1>1, <1>3, <1>5, <1>6, ActorStep DEF Phases, Writing

\* A finisher begins at a fenced document.
LEMMA FinishIInv ==
    ASSUME IInv, NEW c \in Actors, Finish(c)
    PROVE  IInv'
<1> USE DEF Finish
<1>1. CountType' /\ (alone' => Only(c)) BY CallBegins, Parts DEF CountType
<1>2. doc.prio \in Prios BY Parts DEF StoreType, Docs
<1>3. pc'[c] = "unmark" BY Acts
<1>4. Placed(c)' BY <1>3 DEF Placed, Queued
<1>5. IndexOrder' BY <1>1, OrderKept DEF Queued, Only
<1>6. StoreType' /\ ReadType' BY Parts DEF StoreType, ReadType
<1> QED BY <1>1, <1>2, <1>4, <1>5, <1>6, ActorStep DEF Phases, Writing

\* A finisher takes markers of a job that left the queue.
LEMMA UnmarkIInv ==
    ASSUME IInv, NEW c \in Actors, Unmark(c)
    PROVE  IInv'
<1> USE DEF Unmark
<1>1. alone' => Only(c) BY Middle
<1>2. alone => Placed(c) BY DEF IInv, Apart
<1>3. StoreType' /\ ReadType' /\ CountType'
  BY Parts DEF StoreType, ReadType, CountType
<1>4. IndexOrder' BY <1>2 DEF IndexOrder, Placed, Queued
<1>5. Act(c, "clean", key[c]) /\ key[c] \in Prios \cup {None} /\ pc'[c] = "clean"
  BY GoesOn, Acts
<1>6. alone' => Placed(c)' BY <1>2, <1>5 DEF Placed, Queued
<1> QED BY <1>1, <1>3, <1>4, <1>5, <1>6, ActorStep DEF Phases, Writing

\* Cleaning the fence queues nothing.
LEMMA CleanIInv ==
    ASSUME IInv, NEW c \in Actors, Clean(c)
    PROVE  IInv'
<1> USE DEF Clean
<1>1. alone' => Only(c) BY Middle
<1>2. doc' \in Docs /\ (doc'.state = "queued" => Queued)
  BY Parts DEF StoreType, Docs, Queued
<1>3. StoreType' /\ ReadType' /\ CountType'
  BY <1>2, Parts DEF StoreType, ReadType, CountType
<1>4. IndexOrder' BY <1>2, OrderKept
<1>5. Placed(c)' BY Acts DEF Placed
<1> QED BY <1>1, <1>3, <1>4, <1>5, ActorStep DEF Phases, Writing

-----------------------------------------------------------------------------
\* The sweep

\* The sweep starts from the markers there are.
LEMMA ListMarkersIInv ==
    ASSUME IInv, NEW w \in Actors, ListMarkers(w)
    PROVE  IInv'
<1> USE DEF ListMarkers
<1>1. pc[w] = "idle" /\ alone' \in BOOLEAN /\ (alone' => Only(w)) BY Begins
<1>2. StoreType' /\ CountType' BY <1>1, Parts DEF StoreType, CountType
<1>3. ReadType' /\ plan'[w] = markers BY Parts DEF ReadType, StoreType
<1>4. IndexOrder' BY <1>1, OrderKept DEF Queued, Only
<1>5. Act(w, "names", key[w]) /\ key[w] \in Prios \cup {None} /\ pc'[w] = "names"
  BY GoesOn, Acts
<1>6. Placed(w)' BY <1>3, <1>5 DEF Placed
<1> QED BY <1>1, <1>2, <1>3, <1>4, <1>5, <1>6, ActorStep DEF Phases, Writing

\* It goes to the bodies or, when the job is gone, to prune.
LEMMA ListNamesIInv ==
    ASSUME IInv, NEW w \in Actors, ListNames(w)
    PROVE  IInv'
<1> USE DEF ListNames
<1>1. alone' => Only(w) BY Middle
<1>2. alone => Placed(w) BY DEF IInv, Apart
<1>3. StoreType' /\ CountType' BY Parts DEF StoreType, CountType
<1>4. ReadType' BY Parts DEF ReadType, Exists
<1>5. IndexOrder' BY OrderKept DEF Queued
<1>6. PICK p \in {"body", "prune"} : Go(w, p) /\ (p = "prune" => ~Exists) OBVIOUS
<1>7. Act(w, p, key[w]) /\ key[w] \in Prios \cup {None} /\ pc'[w] = p
  BY <1>6, GoesOn, Acts
<1>8. alone' => Placed(w)' BY <1>2, <1>6, <1>7 DEF Placed, Queued, Exists
<1> QED BY <1>1, <1>3, <1>4, <1>5, <1>7, <1>8, ActorStep DEF Phases, Writing

\* It writes what is missing for the priority the body has.
LEMMA ReadBodyIInv ==
    ASSUME IInv, NEW w \in Actors, ReadBody(w)
    PROVE  IInv'
<1> USE DEF ReadBody
<1>1. alone' => Only(w) BY Middle
<1>2. alone => Placed(w) BY DEF IInv, Apart
<1>3. StoreType' /\ CountType' BY Parts DEF StoreType, CountType
<1>4. IndexOrder' BY OrderKept DEF Queued
<1>5. ASSUME Queued, NEW p \in {"drop", "missing"}, Act(w, p, doc.prio),
             p = "drop" => doc.prio \in plan[w],
             plan' = [plan EXCEPT ![w] = @ \ {doc.prio}]
      PROVE  IInv'
  <2>1. doc.prio \in Prios /\ doc.prio # None
    BY Parts, IndexAssumption DEF StoreType, Docs
  <2>2. ReadType' /\ doc.prio \notin plan'[w] BY <1>5, Parts DEF ReadType
  <2>3. pc'[w] = p /\ key'[w] = doc.prio BY <1>5, Acts
  <2>4. alone' => Placed(w)'
    BY <1>2, <1>5, <2>1, <2>2, <2>3 DEF Placed, Queued
  <2> QED BY <1>1, <1>3, <1>4, <1>5, <2>1, <2>2, <2>4, ActorStep
          DEF Phases
<1>6. CASE Act(w, "idle", None) /\ plan' = [plan EXCEPT ![w] = {}]
  <2>1. ReadType' BY <1>6, Parts DEF ReadType
  <2>2. Placed(w)' BY <1>6, Acts DEF Placed
  <2> QED BY <1>1, <1>3, <1>4, <1>6, <2>1, <2>2, ActorStep DEF Phases, Writing
<1> QED BY <1>5, <1>6

\* The missing marker is written before a superseded one goes.
LEMMA WriteMissingIInv ==
    ASSUME IInv, NEW w \in Actors, WriteMissing(w)
    PROVE  IInv'
<1> USE DEF WriteMissing
<1>0. key[w] \in Prios /\ key[w] # None BY IndexAssumption DEF IInv, Keyed
<1>1. alone' => Only(w) BY Middle
<1>2. alone => Placed(w) BY DEF IInv, Apart
<1>3. StoreType' /\ ReadType' /\ CountType'
  BY <1>0, Parts DEF StoreType, ReadType, CountType
<1>4. IndexOrder' BY <1>2 DEF IndexOrder, Placed, Queued
<1>5. Act(w, "drop", key[w]) /\ pc'[w] = "drop" BY GoesOn, Acts
<1>6. alone' => Placed(w)' BY <1>0, <1>2, <1>5 DEF Placed, Queued
<1> QED BY <1>0, <1>1, <1>3, <1>4, <1>5, <1>6, ActorStep DEF Phases

\* The superseded markers are not the current one.
LEMMA SupersededIInv ==
    ASSUME IInv, NEW w \in Actors, Superseded(w)
    PROVE  IInv'
BY DeletesIInv DEF Superseded

\* Pruning is of a job that is not queued.
LEMMA PruneIInv ==
    ASSUME IInv, NEW w \in Actors, Prune(w)
    PROVE  IInv'
BY DeletesIInv DEF Prune

-----------------------------------------------------------------------------
\* Deaths, and the moves of the job

\* An actor that dies leaves the markers as they were.
LEMMA CrashIInv ==
    ASSUME IInv, NEW a \in Actors, Crash(a)
    PROVE  IInv'
<1> USE DEF Crash
<1>1. alone' => Only(a) BY Middle
<1>2. StoreType' /\ ReadType' /\ CountType'
  BY Parts DEF StoreType, ReadType, CountType
<1>3. IndexOrder' BY OrderKept DEF Queued
<1>4. Placed(a)' BY Acts DEF Placed
<1> QED BY <1>1, <1>2, <1>3, <1>4, ActorStep DEF Phases, Writing

\* A step that is no actor's.
LEMMA ActorsStay ==
    ASSUME IInv, UNCHANGED <<actors, calls, crashes>>, StoreType',
           alone' \in BOOLEAN, unkeyed' \in BOOLEAN,
           alone' => \A a \in Actors : pc[a] = "idle",
           alone' /\ owed' # None => Queued' /\ owed' = doc'.prio,
           IndexOrder'
    PROVE  IInv'
<1> USE DEF actors
<1>1. TypeOK'
  BY Parts, TypePartsNext DEF ActorType, ReadType, CountType
<1>2. Keyed' BY DEF IInv, Keyed
<1>3. Apart' BY DEF Apart, Sole, Placed
<1> QED BY <1>1, <1>2, <1>3 DEF IInv

\* A claim's fence takes the job out of the queue.
LEMMA FenceIInv ==
    ASSUME IInv, Fence
    PROVE  IInv'
<1> USE DEF Fence, Alone
<1>1. doc' \in Docs /\ doc'.state = "fenced" BY Parts DEF StoreType, Docs
<1>2. StoreType' BY <1>1, Parts DEF StoreType
<1>3. IndexOrder' BY <1>1 DEF IndexOrder, Queued
<1>4. alone' \in BOOLEAN /\ unkeyed' \in BOOLEAN BY Parts DEF CountType
<1> QED BY <1>2, <1>3, <1>4, ActorsStay

\* A requeue owes its marker,
LEMMA RequeueIInv ==
    ASSUME IInv, Requeue
    PROVE  IInv'
<1> USE DEF Requeue, Alone
<1>1. doc' \in Docs /\ doc'.state = "queued" /\ doc'.prio = doc.prio
      /\ doc.prio \in Prios /\ doc.prio # None
  BY Parts, IndexAssumption DEF StoreType, Docs
<1>2. StoreType' BY <1>1, Parts DEF StoreType
<1>3. IndexOrder' BY <1>1 DEF IndexOrder
<1>4. alone' \in BOOLEAN /\ unkeyed' \in BOOLEAN BY Parts DEF CountType
<1> QED BY <1>1, <1>2, <1>3, <1>4, ActorsStay DEF Queued

\* and pays it.
LEMMA RequeueMarkIInv ==
    ASSUME IInv, RequeueMark
    PROVE  IInv'
<1> USE DEF RequeueMark
<1>1. doc.prio \in Prios /\ owed \in Prios BY Parts DEF StoreType, Docs
<1>2. StoreType' BY <1>1, Parts DEF StoreType
<1>3. alone' \in BOOLEAN /\ unkeyed' \in BOOLEAN BY Parts DEF CountType
<1>4. alone => owed = doc.prio /\ \A a \in Actors : pc[a] = "idle"
  BY DEF IInv, Apart, Sole
<1>5. IndexOrder' BY <1>4 DEF IndexOrder
<1> QED BY <1>2, <1>3, <1>4, <1>5, ActorsStay

\* A swept sentinel queues nothing.
LEMMA SweepIInv ==
    ASSUME IInv, Sweep
    PROVE  IInv'
<1> USE DEF Sweep
<1>1. doc' \in Docs /\ doc'.state = "swept" BY Parts DEF StoreType, Docs
<1>2. TypeOK'
  BY <1>1, Parts, TypePartsNext
     DEF StoreType, ActorType, ReadType, CountType, actors
<1>3. Keyed' BY DEF IInv, Keyed, actors
<1>4. Apart'
  <2> SUFFICES ASSUME alone PROVE Sole' /\ \A a \in Actors : Placed(a)'
    BY DEF Apart
  <2>1. Sole' BY DEF IInv, Apart, Sole, Queued, actors
  <2>2. \A a \in Actors : Placed(a)'
    BY <1>1 DEF IInv, Apart, Placed, Queued, actors
  <2> QED BY <2>1, <2>2
<1>5. IndexOrder' BY <1>1 DEF IndexOrder, Queued
<1> QED BY <1>2, <1>3, <1>4, <1>5 DEF IInv

\* A stuttering step.
LEMMA StutterIInv ==
    ASSUME IInv, UNCHANGED vars
    PROVE  IInv'
<1> USE DEF vars, actors
<1>1. TypeOK'
  BY Parts, TypePartsNext DEF StoreType, ActorType, ReadType, CountType
<1>2. Keyed' BY DEF IInv, Keyed
<1>3. Apart' BY DEF IInv, Apart, Sole, Placed, Queued
<1>4. IndexOrder' BY DEF IInv, IndexOrder, Queued
<1> QED BY <1>1, <1>2, <1>3, <1>4 DEF IInv

-----------------------------------------------------------------------------
\* The theorems

\* There is no document, and nobody is at work.
LEMMA InitIInv == Init => IInv
<1> SUFFICES ASSUME Init PROVE IInv OBVIOUS
<1> USE DEF Init
<1>1. TypeOK BY DEF TypeOK
<1>2. Keyed /\ Apart BY DEF Keyed, Apart, Sole, Placed
<1>3. IndexOrder BY DEF IndexOrder, Queued
<1> QED BY <1>1, <1>2, <1>3 DEF IInv

\* Every step preserves the invariant.
LEMMA NextIInv == IInv /\ [Next]_vars => IInv'
<1> SUFFICES ASSUME IInv, [Next]_vars PROVE IInv' OBVIOUS
<1>0. Callers \subseteq Actors /\ Sweepers \subseteq Actors BY DEF Actors
<1>1. ASSUME NEW c \in Callers, CallStep(c) PROVE IInv'
  BY <1>0, <1>1, CreateIInv, SwapIInv, PresentIInv, MarkIInv, ScanIInv, DropIInv,
     CheckIInv, UnmarkIInv, CleanIInv DEF CallStep
<1>2. ASSUME NEW c \in Callers, Admit(c) \/ Repair(c) \/ Finish(c) PROVE IInv'
  BY <1>0, <1>2, AdmitIInv, RepairIInv, FinishIInv
<1>3. ASSUME NEW c \in Callers, NEW k \in Prios, Rewrite(c, k) PROVE IInv'
  BY <1>0, <1>3, RewriteIInv
<1>4. ASSUME NEW w \in Sweepers, SweepStep(w) PROVE IInv'
  BY <1>0, <1>4, ListMarkersIInv, ListNamesIInv, ReadBodyIInv, WriteMissingIInv,
     SupersededIInv, PruneIInv DEF SweepStep
<1>5. ASSUME NEW a \in Actors, Crash(a) PROVE IInv' BY <1>5, CrashIInv
<1>6. CASE Fence \/ Requeue \/ RequeueMark \/ Sweep
  BY <1>6, FenceIInv, RequeueIInv, RequeueMarkIInv, SweepIInv
<1>7. CASE UNCHANGED vars BY <1>7, StutterIInv
<1> QED BY <1>1, <1>2, <1>3, <1>4, <1>5, <1>6, <1>7 DEF Next

\* The invariant holds of every behaviour of the index.
THEOREM Invariance == Spec => []IInv
BY InitIInv, NextIInv, PTL DEF Spec

\* Every variable keeps its type: in particular no marker is written without a
\* priority in its name.
THEOREM TypeCorrect == Spec => []TypeOK
<1>1. IInv => TypeOK BY DEF IInv
<1> QED BY <1>1, Invariance, PTL

\* write_marker comes before the document, delete_markers_scanning after it: a
\* queued job whose calls never overlapped has its current marker at every
\* step, or, while a re-key has still to write that one, an earlier one.
THEOREM IndexKept == Spec => []IndexOrder
<1>1. IInv => IndexOrder BY DEF IInv
<1> QED BY <1>1, Invariance, PTL
=============================================================================
