--------------------------- MODULE GraphLifecycle ---------------------------
(***************************************************************************)
(* The pure half of the element lifecycle: GraphLifecycle.java,            *)
(* AttributeWinners.java and LifecyclePolicy.java.  Everything here is a   *)
(* constant-level operator; the state machine that calls these operators   *)
(* is in ElementLifecycle.                                                 *)
(*                                                                         *)
(* One element key is modelled.  Its id, kind, type and endpoints are      *)
(* functions of the key (SemanticRegistry.quotedId and edgeId put them     *)
(* into the id), so the identity-conflict exceptions cannot be raised for  *)
(* parsed input, and an element is its attribute map.  A Java map is a     *)
(* total function in which Null marks an absent key.                       *)
(***************************************************************************)
EXTENDS Integers, FiniteSets, FiniteSetsExt

CONSTANTS
    Contributors,   \* contributor ids; String.compareTo is the order of Nat
    Attributes,     \* attribute names
    Values,         \* attribute values, as they appear in the JSON payload
    Null,           \* Java's null: absent attribute, snapshot, state or timer
    Ttl,            \* LifecyclePolicy.ttlSeconds(element), in clock units
                    \*   (in the code a whole number of seconds)
    TicksPerSecond, \* clock units per second, the granularity of timers
    MaxEventTime    \* bound: largest observation timestamp and watermark

ASSUME ContributorsAssumption ==
    Contributors \subseteq Nat /\ IsFiniteSet(Contributors)

ASSUME TimeAssumption ==
    /\ Ttl \in Nat \ {0}
    /\ TicksPerSecond \in Nat \ {0}
    /\ MaxEventTime \in Nat

-----------------------------------------------------------------------------
(* The domain records. *)

Element == [Attributes -> Values \cup {Null}]

(***************************************************************************)
(* A contribution with its deadlines.  Java lets a deadline be null for    *)
(* state of an earlier format, which the runtime marker refuses; the       *)
(* lifecycle policy always sets both.                                      *)
(***************************************************************************)
Snapshot == [observedAt : 0 .. MaxEventTime,
             eventExpiresAt : Nat,
             processingExpiresAt : Nat,
             element : Element]

(* Contribution: positiveTimestamp rejects 0. *)
Contribution == [contributorId : Contributors,
                 observedAt : 1 .. MaxEventTime,
                 element : Element]

ContributorMap == [Contributors -> Snapshot \cup {Null}]

NoContributors == [c \in Contributors |-> Null]

Present(s) == {c \in Contributors : s[c] # Null}

(***************************************************************************)
(* SHA-256 over the canonical JSON of the element: attribute names are     *)
(* sorted, so the digest is a function of the attribute map, and it is     *)
(* taken to be collision free.                                             *)
(***************************************************************************)
PayloadHash(element) == [sha256 |-> element]

-----------------------------------------------------------------------------
(* LifecyclePolicy *)

(* Mutant: the watermark floor of the event deadline is forgotten. *)
SnapshotWithoutFloor(observation, watermark, now) ==
    [observedAt |-> observation.observedAt,
     eventExpiresAt |-> observation.observedAt + Ttl,
     processingExpiresAt |-> now + Ttl,
     element |-> observation.element]

(* The deadlines of an observation received at this watermark and time. *)
SnapshotOf(observation, watermark, now) ==
    [observedAt |-> observation.observedAt,
     eventExpiresAt |->
        (IF observation.observedAt > watermark
            THEN observation.observedAt ELSE watermark) + Ttl,
     processingExpiresAt |-> now + Ttl,
     element |-> observation.element]

(* Mutant: timers are rounded down to the second. *)
TruncatedTimer(t) == (t \div TicksPerSecond) * TicksPerSecond

(* timerMillis, then coalescedTimerMillis: round up to a whole second. *)
CoalescedTimer(t) ==
    (t \div TicksPerSecond + (IF t % TicksPerSecond = 0 THEN 0 ELSE 1))
        * TicksPerSecond

-----------------------------------------------------------------------------
(* GraphLifecycle.merge and AttributeWinners *)

Wins(candidateId, candidate, currentId, current) ==
    \/ candidate.observedAt > current.observedAt
    \/ candidate.observedAt = current.observedAt /\ candidateId < currentId

(* The contributors whose element carries the attribute. *)
Holders(s, a) == {c \in Present(s) : s[c].element[a] # Null}

(***************************************************************************)
(* The contributor left in `owners' (or `winners') for an attribute by the *)
(* loops of rebuild and merge: each replaces the entry it has by any       *)
(* contributor that wins against it, in the order MapState iterates.       *)
(***************************************************************************)
Winner(s, a) ==
    CHOOSE c \in Holders(s, a) :
        \A d \in Holders(s, a) \ {c} : Wins(c, s[c], d, s[d])

Owners(s) ==
    [a \in Attributes |-> IF Holders(s, a) = {} THEN Null ELSE Winner(s, a)]

Merge(s) ==
    [a \in Attributes |->
        IF Holders(s, a) = {} THEN Null ELSE s[Winner(s, a)].element[a]]

AttributeWinners == [element : Element,
                     owners : [Attributes -> Contributors \cup {Null}],
                     contributorCount : Nat]

(* Null is none of the values that a variable may also hold. *)
ASSUME NullAssumption ==
    /\ Null \notin Contributors
    /\ Null \notin Values
    /\ Null \notin Nat
    /\ Null \notin Snapshot
    /\ Null \notin AttributeWinners
    /\ \A e \in Element : PayloadHash(e) # Null

Rebuild(s) == [element |-> Merge(s),
               owners |-> Owners(s),
               contributorCount |-> Cardinality(Present(s))]

(* AttributeWinners' constructor throws for any other value. *)
ValidIndex(index) ==
    /\ index.contributorCount > 0
    /\ \A a \in Attributes : index.owners[a] = Null <=> index.element[a] = Null

(* Mutant: a winner that gives up an attribute is not noticed. *)
LosesNothing(index, contributorId, replacement) == FALSE

LosesAttribute(index, contributorId, replacement) ==
    \E a \in Attributes :
        index.owners[a] = contributorId /\ replacement[a] = Null

(* The owners whose snapshot AttributeWinners.observe reads. *)
OwnersRead(index, contributorId, snapshot) ==
    {index.owners[a] : a \in {b \in Attributes : snapshot.element[b] # Null}}
        \ {Null, contributorId}

(* Mutant: an equally old observation takes an attribute over. *)
TakesTies(index, contributorId, snapshot, s, a) ==
    /\ snapshot.element[a] # Null
    /\ \/ index.owners[a] = Null
       \/ snapshot.observedAt >= s[index.owners[a]].observedAt

(* The incoming attributes that the contributor takes over. *)
Takes(index, contributorId, snapshot, s, a) ==
    /\ snapshot.element[a] # Null
    /\ \/ index.owners[a] = Null
       \/ index.owners[a] = contributorId
       \/ Wins(contributorId, snapshot, index.owners[a], s[index.owners[a]])

ObserveIndex(index, contributorId, snapshot, s) ==
    [element |-> [a \in Attributes |->
        IF Takes(index, contributorId, snapshot, s, a)
            THEN snapshot.element[a] ELSE index.element[a]],
     owners |-> [a \in Attributes |->
        IF Takes(index, contributorId, snapshot, s, a)
            THEN contributorId ELSE index.owners[a]],
     contributorCount |->
        index.contributorCount + (IF s[contributorId] = Null THEN 1 ELSE 0)]

-----------------------------------------------------------------------------
(* GraphLifecycle.expire, scheduleTimers *)

EventExpired(s, timestamp) ==
    {c \in Present(s) : s[c].eventExpiresAt <= timestamp}

ProcessingExpired(s, timestamp) ==
    {c \in Present(s) : s[c].processingExpiresAt <= timestamp}

Without(s, gone) == [c \in Contributors |-> IF c \in gone THEN Null ELSE s[c]]

(* Mutant: the last deadline is scheduled instead of the first. *)
LatestEventTimer(s) ==
    IF Present(s) = {} THEN Null
    ELSE Max({CoalescedTimer(s[c].eventExpiresAt) : c \in Present(s)})

(* The wake-ups scheduleTimers asks for: the earliest deadline, rounded up. *)
NextEventTimer(s) ==
    IF Present(s) = {} THEN Null
    ELSE Min({CoalescedTimer(s[c].eventExpiresAt) : c \in Present(s)})

NextProcessingTimer(s) ==
    IF Present(s) = {} THEN Null
    ELSE Min({CoalescedTimer(s[c].processingExpiresAt) : c \in Present(s)})
=============================================================================
