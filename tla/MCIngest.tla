------------------------------ MODULE MCIngest ------------------------------
(***************************************************************************)
(* Instances of Ingest for TLC. Deliveries are honest LiveKit deliveries   *)
(* unless their name says otherwise.                                       *)
(***************************************************************************)
EXTENDS Ingest, TLC

\* Numbers are absent, integers, or floats in halves. Floats have three
\* significant bits: below 4 they are exact to the half, below 8 to the whole,
\* then only to even numbers, up to 14. Integers of the receiver end at 10.
Num(n)  == IF n = 0 THEN [form |-> "null"] ELSE [form |-> "integer", n |-> n]
Real(u) == [form |-> "float", units |-> u]

MCSpacing == {1, 2, 4}

Payload(event, id, sid, createdAt) ==
    [event |-> event, id |-> id, createdAt |-> Num(createdAt),
     room |-> [name |-> "r1", sid |-> "RM1", creationTime |-> Num(0)],
     participant |-> IF sid = "" THEN NoObject
                     ELSE [identity |-> "alice", sid |-> sid, joinedAt |-> Num(0)],
     track |-> ""]

Signed(body) ==
    [oversize |-> FALSE, truncated |-> FALSE,
     token |-> [valid |-> TRUE, digest |-> body], body |-> body]

JoinBody  == Payload("participant_joined", "EV1", "s1", 2)
Join      == Signed(JoinBody)
SkewLeave == Signed(Payload("participant_left", "EV2", "s1", 1))
Unknown   == Signed(Payload("participant_renamed", "", "s1", 1))
Undated   == Signed(Payload("track_published", "EV5", "", 0))

\* room_started without createdAt: the time is the room's creation time.
RoomStart == Signed([Payload("room_started", "EV6", "", 0) EXCEPT !.room.creationTime = Num(1)])

\* track_published without createdAt: the time is the participant's joinedAt.
Rejoined  == Signed([Payload("track_published", "EV7", "s1", 0)
                        EXCEPT !.participant.joinedAt = Real(3)])

\* A backend that sends no id: the time is hashed into one.
DatedBody  == [Payload("track_published", "", "s1", 3) EXCEPT !.participant.joinedAt = Num(1)]
Dated      == Signed(DatedBody)
DatedFloat == Signed([DatedBody EXCEPT !.createdAt = Real(6)])

\* Times at which integers and floats part, neither in a partition; one beyond
\* the integers; one beyond the floats.
Late       == Signed([DatedBody EXCEPT !.createdAt = Num(9)])
LateFloat  == Signed([DatedBody EXCEPT !.createdAt = Real(18)])
Beyond     == Signed([DatedBody EXCEPT !.createdAt = Num(12)])
Infinite   == Signed([DatedBody EXCEPT !.createdAt = Real(40)])

Egress    == Signed(Payload("egress_started", "EV8", "", 1))
Unsigned  == [Join EXCEPT !.token = NoToken]
Expired   == [Join EXCEPT !.token.valid = FALSE]
NoDigest  == [Join EXCEPT !.token.digest = NoObject]
Swapped   == [Signed(Payload("participant_joined", "EV9", "s9", 1))
                EXCEPT !.token.digest = JoinBody]
Broken    == Signed(Garbled)
Untyped   == Signed(Payload("", "EV10", "", 1))
Wordy     == Signed([JoinBody EXCEPT !.createdAt = [form |-> "word"]])
Huge      == [Join EXCEPT !.oversize = TRUE]
Cut       == [Join EXCEPT !.truncated = TRUE]

MCPartitioned == 1..4
MCEvent == {Translate(d.body) : d \in {x \in Delivery : Storable(x) \/ x = Swapped}}

\* A join, its departure with a skewed clock, an event without an id or a type
\* we know.
Retried == {Join, SkewLeave, Unknown}

\* Every reason to turn a delivery away, every source of occurred_at, and one
\* event with its time written in two ways, within and beyond what a float holds.
Intake == {Join, RoomStart, Rejoined, Dated, DatedFloat, Late, LateFloat, Beyond,
           Infinite, Undated, Egress, Unsigned, Expired, NoDigest, Swapped, Broken,
           Untyped, Wordy, Huge, Cut}

Symmetry == Permutations(Proc)
=============================================================================
