------------------------------- MODULE EventId -------------------------------
(***************************************************************************)
(* internal/ingest/eventid/eventid.go, byte by byte: the input that is     *)
(* hashed into an event id. Strings are sequences of bytes. The hash,      *)
(* uuid.NewSHA1 under a fixed namespace, is external and taken as          *)
(* injective, so an id is its input.                                       *)
(*                                                                         *)
(* An input is what a backend supplies: [path |-> "id", id |-> bytes], or  *)
(* [path |-> "fields", ...] with the Fields of the fallback, times as      *)
(* seconds. Inputs arrive one after another.                               *)
(***************************************************************************)
EXTENDS Integers, Sequences, FiniteSets, SequencesExt

CONSTANTS
    Input,         \* the events that may be received
    MinInt,        \* the least value of Go's int
    MaxReceived    \* bound: how many are received

VARIABLES received, ids

Byte == 0..255

scheme == <<118, 49>>
backend == <<108>>

\* binary.BigEndian.PutUint32
PutUint32(n) ==
    <<(n \div 16777216) % 256, (n \div 65536) % 256, (n \div 256) % 256, n % 256>>

\* Mutant: fields joined by a delimiter.
encodeDelimited(fields) ==
    FlattenSeq([i \in DOMAIN fields |-> fields[i] \o <<1>>])

\* Each field after its length.
encode(fields) ==
    FlattenSeq([i \in DOMAIN fields |-> PutUint32(Len(fields[i])) \o fields[i]])

digits[n \in Nat] ==
    IF n = 0 THEN <<>> ELSE Append(digits[n \div 10], 48 + (n % 10))

\* The least int is its own negation, so its loop writes no digit.
itoa(n) ==
    CASE n = 0                  -> <<48>>
      [] n > 0                  -> digits[n]
      [] n < 0 /\ n # MinInt    -> <<45>> \o digits[-n]
      [] n = MinInt             -> <<45>>

\* UTC().Format(time.RFC3339Nano), external: one text per instant, ending in Z.
Format(at) == digits[at] \o <<90>>

FromBackendEventID(id) == encode(<<scheme, backend, id>>)

FromFields(f) ==
    encode(<<scheme, backend, f.type, f.room, f.identity, f.sid, f.track, Format(f.at),
             itoa(f.ordinal)>>)

Derive(x) == IF x.path = "id" THEN FromBackendEventID(x.id) ELSE FromFields(x)

\* A string of fewer than 2^32 bytes, whose length PutUint32 can hold. It is part
\* of a body, which SAP_MAX_BODY_BYTES limits to far less.
Text == {s \in Seq(Byte) : Len(s) \div 65536 < 65536}

ASSUME InputAssumption ==
    \A x \in Input :
        \/ x \in [path : {"id"}, id : Text]
        \/ /\ x \in [path : {"fields"}, type : Text, room : Text, identity : Text,
                     sid : Text, track : Text, at : Nat, ordinal : Int]
           /\ Format(x.at) \in Text          \* at most 35 bytes
           /\ itoa(x.ordinal) \in Text       \* written into [20]byte

ASSUME IntAssumption == MinInt \in Int /\ MinInt < 0

Init == received = {} /\ ids = {}

Receive(x) ==
    /\ Cardinality(received) < MaxReceived
    /\ received' = received \cup {x}
    /\ ids' = ids \cup {Derive(x)}

Next == \E x \in Input : Receive(x)

Spec == Init /\ [][Next]_<<received, ids>>

\* eventid.go:11, "Collapse. Two genuinely distinct events derive one id": it
\* does not happen, whichever of its two derivations each event takes, also when
\* a room name or identity contains what looks like a boundary, and at every
\* ordinal up to the least int.
NoCollapse == Cardinality(ids) = Cardinality(received)
=============================================================================
