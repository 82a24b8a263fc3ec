------------------------------- MODULE Indexer ------------------------------
(***************************************************************************)
(* The ArangoDB indexer: replicas of run_indexer() that share a consumer   *)
(* group, poll the compacted graph-event topic, write what a poll says of  *)
(* each element into the database and commit the offsets.                  *)
(*                                                                         *)
(* One partition is modelled: an element's events are all in the partition *)
(* of its id.  The document of an upsert is a function of the event, so    *)
(* the database is, for every element, the offset of the event that was    *)
(* last written for it; there is a document if that event is an upsert.    *)
(***************************************************************************)
EXTENDS Integers, FiniteSets, Sequences

CONSTANTS
    Indexers,      \* replicas of the indexer
    Elements,      \* element ids
    Null,
    MaxPoll,       \* MAX_POLL_RECORDS
    MaxEvents,     \* bound on the records of the topic
    MaxCrashes,    \* bound on crashes and shutdowns
    MaxRebalances, \* bound on the times the group takes the partition away
    PollsInTime    \* whether a replica always polls within max.poll.interval.ms

ASSUME IndexerAssumption ==
    /\ Null \notin Indexers
    /\ MaxPoll \in Nat \ {0}
    /\ MaxEvents \in Nat
    /\ MaxCrashes \in Nat
    /\ MaxRebalances \in Nat
    /\ PollsInTime \in BOOLEAN

VARIABLES
    topic,       \* every record ever published: element and operation
    retained,    \* offsets that compaction has not removed
    committed,   \* the group's committed offset: the next one to read
    owner,       \* the replica the partition is assigned to, or Null
    phase,       \* replica -> "down", "up" (between polls) or "writing"
    position,    \* replica -> the offset its next poll starts from
    todo,        \* replica -> element -> offset to be written, or 0
    view,        \* the database: element -> offset written last, or 0
    crashes,
    rebalances

log == <<topic, retained>>

vars == <<topic, retained, committed, owner, phase, position, todo, view,
          crashes, rebalances>>

(***************************************************************************)
(* A "malformed" record is rejected by _decode_event, an "unmappable" one  *)
(* by the conversion to a document or the routing of a delete.             *)
(***************************************************************************)
Operations == {"upsert", "delete", "malformed", "unmappable"}

Record == [element : Elements, operation : Operations]

Offsets == 1 .. Len(topic)

NoWrites == [e \in Elements |-> 0]

-----------------------------------------------------------------------------
(* project_poll *)

(* The offsets of a poll that returns the records up to `last'. *)
Batch(from, last) == {o \in retained : from <= o /\ o <= last}

Of(e, offsets) == {o \in offsets : topic[o].element = e}

(* Mutant: the first record of an element wins over the later ones. *)
EarliestOf(e, offsets) ==
    IF Of(e, offsets) = {} THEN 0
    ELSE CHOOSE o \in Of(e, offsets) : \A p \in Of(e, offsets) : o <= p

(* pending[element_id]: the newest record per element, or 0. *)
LatestOf(e, offsets) ==
    IF Of(e, offsets) = {} THEN 0
    ELSE CHOOSE o \in Of(e, offsets) : \A p \in Of(e, offsets) : p <= o

Pending(batch) == [e \in Elements |-> LatestOf(e, batch)]

(* Mutant: records that cannot be decoded are skipped. *)
Lenient(batch) ==
    \A e \in Elements :
        LatestOf(e, batch) # 0 => topic[LatestOf(e, batch)].operation # "unmappable"

(***************************************************************************)
(* Every record of the poll is decoded, but only the newest of an element  *)
(* is converted; both happen before the first write.                       *)
(***************************************************************************)
Projectable(batch) ==
    /\ \A o \in batch : topic[o].operation # "malformed"
    /\ \A e \in Elements :
        LatestOf(e, batch) # 0 =>
            topic[LatestOf(e, batch)].operation # "unmappable"

(* The process ends; the group reassigns its partition. *)
Exit(i) ==
    /\ phase' = [phase EXCEPT ![i] = "down"]
    /\ owner' = IF owner = i THEN Null ELSE owner
    /\ todo' = [todo EXCEPT ![i] = NoWrites]

(* Kubernetes restarts the container: run_indexer begins. *)
Start(i) ==
    /\ phase[i] = "down"
    /\ phase' = [phase EXCEPT ![i] = "up"]
    /\ UNCHANGED <<log, committed, owner, position, todo, view, crashes,
                   rebalances>>

(* Mutant: a new consumer starts behind the newest record. *)
LatestPosition == Len(topic) + 1

(* The committed offset; the earliest one if the group has none. *)
StartPosition == committed

(* The group assigns the free partition to a replica that polls. *)
Join(i) ==
    /\ phase[i] = "up"
    /\ owner = Null
    /\ owner' = i
    /\ position' = [position EXCEPT ![i] = StartPosition]
    /\ UNCHANGED <<log, committed, phase, todo, view, crashes, rebalances>>

(* A poll returns some records; a record that is rejected ends the process. *)
Poll(i) ==
    /\ phase[i] = "up"
    /\ owner = i
    /\ \E last \in retained :
        LET batch == Batch(position[i], last)
        IN  /\ position[i] <= last
            /\ Cardinality(batch) <= MaxPoll
            /\ IF Projectable(batch)
                THEN /\ phase' = [phase EXCEPT ![i] = "writing"]
                     /\ todo' = [todo EXCEPT ![i] = Pending(batch)]
                     /\ position' = [position EXCEPT ![i] = last + 1]
                     /\ UNCHANGED owner
                ELSE Exit(i) /\ UNCHANGED position
    /\ UNCHANGED <<log, committed, view, crashes, rebalances>>

(* One document of a bulk request reaches its collection. *)
Apply(i, e) ==
    /\ phase[i] = "writing"
    /\ todo[i][e] # 0
    /\ view' = [view EXCEPT ![e] = todo[i][e]]
    /\ todo' = [todo EXCEPT ![i][e] = 0]
    /\ UNCHANGED <<log, committed, owner, phase, position, crashes, rebalances>>

Upserts(i) ==
    {e \in Elements : todo[i][e] # 0 /\ topic[todo[i][e]].operation = "upsert"}

Replace(i) == \E e \in Upserts(i) : Apply(i, e)

(* Deletes of nodes and edges follow the last replacement. *)
Remove(i) ==
    /\ Upserts(i) = {}
    /\ \E e \in Elements : Apply(i, e)

(* Mutant: offsets are committed while documents are still to be written. *)
CommitsEarly(i) == phase[i] = "writing"

MayCommit(i) == phase[i] = "writing" /\ todo[i] = NoWrites

(* A replica that lost the partition fails to commit and ends. *)
Commit(i) ==
    /\ MayCommit(i)
    /\ IF owner = i
        THEN /\ committed' = position[i]
             /\ phase' = [phase EXCEPT ![i] = "up"]
             /\ todo' = [todo EXCEPT ![i] = NoWrites]
             /\ UNCHANGED owner
        ELSE Exit(i) /\ UNCHANGED committed
    /\ UNCHANGED <<log, position, view, crashes, rebalances>>

-----------------------------------------------------------------------------
(* Failures and the topic *)

(* A crash, a failed request or a shutdown, possibly between two writes. *)
Crash(i) ==
    /\ phase[i] # "down"
    /\ crashes < MaxCrashes
    /\ crashes' = crashes + 1
    /\ Exit(i)
    /\ UNCHANGED <<log, committed, position, view, rebalances>>

(***************************************************************************)
(* The group takes the partition away: between two polls when replicas     *)
(* come and go, or, unknown to the replica, while it writes if that takes  *)
(* longer than the poll interval allows.                                   *)
(***************************************************************************)
Rebalance(i) ==
    /\ owner = i
    /\ PollsInTime => phase[i] = "up"
    /\ rebalances < MaxRebalances
    /\ rebalances' = rebalances + 1
    /\ owner' = Null
    /\ UNCHANGED <<log, committed, phase, position, todo, view, crashes>>

Publish ==
    /\ Len(topic) < MaxEvents
    /\ \E r \in Record : topic' = Append(topic, r)
    /\ retained' = retained \cup {Len(topic) + 1}
    /\ UNCHANGED <<committed, owner, phase, position, todo, view, crashes,
                   rebalances>>

(* Compaction removes a record that a newer one of its key supersedes. *)
Compact ==
    /\ \E o \in retained :
        /\ \E p \in Offsets : o < p /\ topic[p].element = topic[o].element
        /\ retained' = retained \ {o}
    /\ UNCHANGED <<topic, committed, owner, phase, position, todo, view,
                   crashes, rebalances>>

-----------------------------------------------------------------------------

Init ==
    /\ topic = <<>>
    /\ retained = {}
    /\ committed = 1
    /\ owner = Null
    /\ phase = [i \in Indexers |-> "down"]
    /\ position = [i \in Indexers |-> 1]
    /\ todo = [i \in Indexers |-> NoWrites]
    /\ view = NoWrites
    /\ crashes = 0
    /\ rebalances = 0

Work(i) == Start(i) \/ Poll(i) \/ Replace(i) \/ Remove(i) \/ Commit(i)

Next == \/ \E i \in Indexers : Work(i) \/ Join(i) \/ Crash(i) \/ Rebalance(i)
        \/ Publish
        \/ Compact

(***************************************************************************)
(* A replica that is up keeps working and a free partition is assigned.    *)
(* Nothing obliges Flink to publish, Kafka to compact or a replica to fail.*)
(***************************************************************************)
Fairness ==
    /\ \A i \in Indexers : WF_vars(Work(i))
    /\ WF_vars(\E i \in Indexers : Join(i))

Spec == Init /\ [][Next]_vars /\ Fairness

-----------------------------------------------------------------------------
(* Properties *)

TypeOK ==
    /\ topic \in Seq(Record)
    /\ retained \subseteq Offsets
    /\ committed \in 1 .. (Len(topic) + 1)
    /\ owner \in Indexers \cup {Null}
    /\ phase \in [Indexers -> {"down", "up", "writing"}]
    /\ position \in [Indexers -> 1 .. (Len(topic) + 1)]
    /\ todo \in [Indexers -> [Elements -> Nat]]
    /\ view \in [Elements -> Nat]
    /\ \A i \in Indexers : \A e \in Elements :
        /\ todo[i][e] # 0 => phase[i] = "writing"
        /\ todo[i][e] # 0 => todo[i][e] \in Of(e, Offsets)
        /\ view[e] # 0 => view[e] \in Of(e, Offsets)
    /\ crashes \in 0 .. MaxCrashes
    /\ rebalances \in 0 .. MaxRebalances

(***************************************************************************)
(* "The indexer commits Kafka offsets only after successful Arango         *)
(* writes": what the topic says of an element up to the committed offset   *)
(* is in the database, or something newer is.  A replay after a crash may  *)
(* write older documents again, but none older than this.                  *)
(***************************************************************************)
CommittedIsApplied ==
    \A e \in Elements : \A o \in Of(e, retained) :
        o < committed => o <= view[e]

(***************************************************************************)
(* A record that cannot be decoded is never passed: the indexer fails      *)
(* visibly at it instead of losing it (unless compaction removes it).      *)
(***************************************************************************)
MalformedStops ==
    \A o \in retained : o < committed => topic[o].operation # "malformed"

(***************************************************************************)
(* Once the topic is quiet the database becomes, and stays, its            *)
(* projection, through every crash, replay and reassignment.               *)
(***************************************************************************)
Converges ==
    <>[](\/ \E o \in Offsets :
                topic[o].operation \in {"malformed", "unmappable"}
         \/ \A e \in Elements : \A o \in Of(e, Offsets) : o <= view[e])
=============================================================================
