------------------------------- MODULE LiveKit -------------------------------
(***************************************************************************)
(* internal/ingest/adapter/livekit and internal/ingest/eventid: what a     *)
(* LiveKit webhook delivery must look like to be accepted, and the event   *)
(* it becomes.                                                             *)
(*                                                                         *)
(* A delivery is a record                                                  *)
(*   oversize   its body exceeds the size cap                              *)
(*   truncated  reading its body fails before the end                      *)
(*   token      NoToken, or [valid, digest]: valid when the JWT is HS256,  *)
(*              signed with our secret, issued by our key and not expired, *)
(*              digest the body it vouches for or NoObject                 *)
(*   body       Garbled, or the payload the adapter reads from it          *)
(* and a payload a record of event, id, createdAt, room, participant and   *)
(* track, where room is NoObject or [name, sid, creationTime], participant *)
(* is NoObject or [identity, sid, joinedAt], and track is a SID or "". An  *)
(* absent string is "", as in Go. A number is as it is written, see Number.*)
(***************************************************************************)
EXTENDS Integers

CONSTANTS
    NoToken,    \* no Authorization header
    NoObject,   \* a nil *struct of the payload; no sha256 claim
    Garbled,    \* a body json.Unmarshal refuses
    MaxInt64,   \* 2^63 - 1
    Mantissa,   \* a float64 is less than Mantissa = 2^53 times a power of two
    Unit,       \* fractions are written in units of 1/Unit
    Spacing,    \* the distances, in units, between neighbouring float64s
    Saturates   \* what the build makes of a float beyond int64: see FloatToInt

ASSUME NumberFormatAssumption ==
    /\ MaxInt64 \in Nat \ {0}
    /\ Mantissa \in Nat \ {0}
    /\ Spacing \subseteq Nat \ {0}
    /\ Unit \in Spacing
    /\ \A s, t \in Spacing : s <= t => t % s = 0
    /\ Saturates \in BOOLEAN

Backend == "livekit"

\* The keys of the map canonical; each is mapped to itself.
Canonical == {"room_started", "room_finished", "participant_joined",
              "participant_left", "track_published", "track_unpublished"}

Rejected == {"egress_started", "egress_updated", "egress_ended",
             "ingress_started", "ingress_ended"}

Classify(eventName) ==
    IF eventName \in Canonical THEN "ingest"
    ELSE IF eventName \in Rejected THEN "reject" ELSE "store"

\* Mutant: the token is checked, the digest of the body is not.
VerifyTokenOnly(d) == d.token # NoToken /\ d.token.valid

\* The token proves the sender, the digest proves the body.
Verify(d) ==
    /\ d.token # NoToken
    /\ d.token.valid
    /\ d.token.digest # NoObject
    /\ d.token.digest = d.body

\* uuidv5 over a length-prefixed join is taken as injective: the tuple itself.
FromBackendEventID(id) == <<"v1", Backend, id>>

FromFields(type, room, identity, sid, track, at, ordinal) ==
    <<"v1", Backend, type, room, identity, sid, track, at, ordinal>>

-----------------------------------------------------------------------------
(* Numbers                                                                 *)

\* A number as it is written in the payload, quoted or not: nothing at all,
\* null or the empty string; digits with or without a sign; what ParseInt refuses
\* and a JSON float may be, with a fraction, an exponent or blanks in the quotes;
\* or no number.
Number ==
    [form : {"null", "word"}]
        \cup [form : {"integer"}, n : Int]
        \cup [form : {"float"}, units : Int]

\* What it denotes, in units.
Denoted(x) ==
    CASE x.form = "integer" -> x.n * Unit
      [] x.form = "float"   -> x.units
      [] OTHER              -> 0

Abs(u) == IF u < 0 THEN -u ELSE u

\* Mutant: var f float32, whose neighbours lie farther apart.
GapOfFloat32(u) ==
    4 * CHOOSE s \in Spacing : Abs(u) < Mantissa * s
            /\ \A t \in Spacing : Abs(u) < Mantissa * t => s <= t

\* The distance of neighbouring floats around u: the finest that reaches it.
Gap(u) ==
    CHOOSE s \in Spacing : Abs(u) < Mantissa * s
        /\ \A t \in Spacing : Abs(u) < Mantissa * t => s <= t

\* The float64 nearest to u, an even multiple of the gap if two are.
Float64(u) ==
    LET q       == Abs(u) \div Gap(u)
        twice   == 2 * (Abs(u) % Gap(u))
        up      == twice > Gap(u) \/ (twice = Gap(u) /\ q % 2 = 1)
        nearest == (IF up THEN q + 1 ELSE q) * Gap(u)
    IN  IF u < 0 THEN -nearest ELSE nearest

\* json.Unmarshal into a float64: the nearest one is not infinite.
IsFloat64(u) == \E s \in Spacing : 2 * Abs(u) < (2 * Mantissa - 1) * s

\* protoInt64(f): the fraction is dropped. Beyond int64 Go leaves the result to
\* the build: arm64 gives the nearest int64, amd64 the least one.
FloatToInt(f) ==
    LET n == Abs(f) \div Unit
    IN  IF n <= MaxInt64 THEN (IF f < 0 THEN -n ELSE n)
        ELSE IF f > 0 /\ Saturates THEN MaxInt64
        ELSE -MaxInt64 - 1

\* strconv.ParseInt(b, 10, 64) succeeds.
ParsesInt(x) == x.form = "integer" /\ x.n \in (-MaxInt64 - 1)..MaxInt64

\* protoInt64.UnmarshalJSON succeeds.
IsInt64(x) ==
    \/ x.form = "null"
    \/ ParsesInt(x)
    \/ x.form \in {"integer", "float"} /\ IsFloat64(Denoted(x))

\* What it makes of a number.
Int64(x) ==
    IF x.form = "null" THEN 0
    ELSE IF ParsesInt(x) THEN x.n
    ELSE FloatToInt(Float64(Denoted(x)))

-----------------------------------------------------------------------------
(* Translation                                                             *)

\* The backend's clock, never ours; 0 is the zero time.Time, year 1.
OccurredAt(b) ==
    IF Int64(b.createdAt) > 0
    THEN Int64(b.createdAt)
    ELSE IF b.participant # NoObject /\ Int64(b.participant.joinedAt) > 0
    THEN Int64(b.participant.joinedAt)
    ELSE IF b.room # NoObject /\ Int64(b.room.creationTime) > 0
    THEN Int64(b.room.creationTime)
    ELSE 0

Decodes(b) ==
    /\ b # Garbled
    /\ IsInt64(b.createdAt)
    /\ b.room # NoObject => IsInt64(b.room.creationTime)
    /\ b.participant # NoObject => IsInt64(b.participant.joinedAt)
    /\ b.event # ""

\* Translate, of a body that decodes and is not rejected: the event to store.
\* LiveKit sends one event per request, so the delivery ordinal is 0.
Translate(b) ==
    LET room     == IF b.room = NoObject THEN "" ELSE b.room.name
        identity == IF b.participant = NoObject THEN "" ELSE b.participant.identity
        sid      == IF b.participant = NoObject THEN "" ELSE b.participant.sid
    IN  [id |-> IF b.id # ""
                THEN FromBackendEventID(b.id)
                ELSE FromFields(b.event, room, identity, sid, b.track, OccurredAt(b), 0),
         type |-> b.event, room |-> room, identity |-> identity,
         sid |-> sid, at |-> OccurredAt(b)]

\* The deliveries that reach RecordEvent.
Storable(d) ==
    /\ ~d.oversize
    /\ ~d.truncated
    /\ Verify(d)
    /\ Decodes(d.body)
    /\ Classify(d.body.event) # "reject"
=============================================================================
