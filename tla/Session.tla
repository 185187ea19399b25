------------------------------ MODULE Session ------------------------------
(***************************************************************************)
(* The canonical vocabulary of internal/session/session.go and the shape   *)
(* of the rows that migrations/ gives it.                                  *)
(*                                                                         *)
(* An event is a record with the fields the write path keys on:            *)
(*   id        event_id, derived from the delivery                         *)
(*   type      session.EventType                                           *)
(*   room      room_name        identity  participant_identity             *)
(*   sid       participant_sid  at        occurred_at, the backend's clock *)
(* A participant_join row is named by the event that opened it             *)
(* (started_event_id), and its ended_at, end_reason and ended_event_id are *)
(* all read off the event that closed it. The only backend is LiveKit, so  *)
(* the column backend distinguishes nothing and is left out.               *)
(***************************************************************************)
EXTENDS Naturals

CONSTANTS
    Event,        \* the events the backend may deliver
    Partitioned,  \* the times for which event_raw has a partition
    NoEvent,      \* endedBy of an open join: ended_at IS NULL
    NoSID         \* an absent participant_sid, SQL NULL

EventParticipantJoined == "participant_joined"
EventParticipantLeft   == "participant_left"
EventRoomFinished      == "room_finished"

\* PRIMARY KEY (occurred_at, event_id): an event is its key.
ASSUME EventKeyAssumption ==
    \A e, f \in Event : e.id = f.id /\ e.at = f.at => e = f

ASSUME EventTimeAssumption ==
    \A e \in Event : e.at \in Nat

\* ADR-0016: LiveKit's participant SID is new on every join, so within a room
\* two joined events with one SID are the same event.
ASSUME SIDAssumption ==
    \A e, f \in Event :
        /\ e.type = EventParticipantJoined
        /\ f.type = EventParticipantJoined
        /\ e.room = f.room
        /\ e.sid = f.sid
        /\ e.sid # NoSID
        => e.id = f.id

ASSUME NoEventAssumption == NoEvent \notin Event
=============================================================================
