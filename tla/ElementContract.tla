-------------------------- MODULE ElementContract ---------------------------
(***************************************************************************)
(* What the lifecycle of one graph element promises, without the attribute *)
(* index, the payload hash and the timers that ElementLifecycleFunction    *)
(* keeps to be fast:                                                       *)
(*   - a contribution replaces its contributor's previous one unless it is *)
(*     older;                                                              *)
(*   - a contributor leaves only when its deadline has passed on the       *)
(*     watermark or on the processing clock;                               *)
(*   - an event is published exactly when the merged element changes: an   *)
(*     upsert carrying the merge of the present contributors, or a delete  *)
(*     when the last one has left.                                         *)
(* The merge is stated declaratively (IsMerge): every attribute has the    *)
(* value of its newest contributor, the smaller id winning a tie.          *)
(***************************************************************************)
EXTENDS Integers

CONSTANTS Contributors, Attributes, Values, Null, Ttl

VARIABLES
    contributors,  \* contributor id -> its snapshot, or Null
    watermark,     \* event-time clock
    now,           \* processing-time clock
    published,     \* the last event of this element in the topic, or Null
    output         \* the event published by the last step, or Null

contractVars == <<contributors, watermark, now, published, output>>

Upsert(element) == [operation |-> "upsert", element |-> element]

Delete == [operation |-> "delete"]

Live(s) == {c \in Contributors : s[c] # Null}

Newer(s, c, d) == \/ s[c].observedAt > s[d].observedAt
                  \/ s[c].observedAt = s[d].observedAt /\ c <= d

(* e is the merge of the contributor map s. *)
IsMerge(e, s) ==
    \A a \in Attributes :
        \/ /\ \A c \in Live(s) : s[c].element[a] = Null
           /\ e[a] = Null
        \/ \E c \in Live(s) :
            /\ s[c].element[a] # Null
            /\ \A d \in Live(s) : s[d].element[a] # Null => Newer(s, c, d)
            /\ e[a] = s[c].element[a]

(* The last record of the topic stands for the contributor map s. *)
Represents(event, s) ==
    IF Live(s) = {}
        THEN event = Null \/ event = Delete
        ELSE \E e \in [Attributes -> Values \cup {Null}] :
                IsMerge(e, s) /\ event = Upsert(e)

(* Publish a change, and only a change, of what the contributors say. *)
PublishChange ==
    /\ Represents(published', contributors')
    /\ IF published' = published
          THEN output' = Null
          ELSE output' = published' /\ published' # Null

Observe ==
    \E c \in Contributors :
        /\ contributors' = [contributors EXCEPT ![c] = contributors'[c]]
        /\ contributors'[c] # Null
        /\ contributors'[c].eventExpiresAt >= watermark + Ttl
        /\ contributors'[c].eventExpiresAt >= contributors'[c].observedAt + Ttl
        /\ contributors'[c].processingExpiresAt = now + Ttl
        /\ contributors[c] # Null =>
                contributors'[c].observedAt >= contributors[c].observedAt
    /\ PublishChange
    /\ UNCHANGED <<watermark, now>>

(* One clock expires every contributor that leaves in this step. *)
Expire ==
    \E gone \in SUBSET Live(contributors) :
        /\ gone # {}
        /\ \/ \A c \in gone : contributors[c].eventExpiresAt <= watermark
           \/ \A c \in gone : contributors[c].processingExpiresAt <= now
        /\ contributors' =
            [c \in Contributors |-> IF c \in gone THEN Null ELSE contributors[c]]
        /\ PublishChange
        /\ UNCHANGED <<watermark, now>>

Silent ==
    /\ output' = Null
    /\ watermark' >= watermark
    /\ now' >= now
    /\ UNCHANGED <<contributors, published>>

ContractInit == Represents(published, contributors) /\ output = Null

ContractNext == Observe \/ Expire \/ Silent

ContractSpec == ContractInit /\ [][ContractNext]_contractVars
=============================================================================
