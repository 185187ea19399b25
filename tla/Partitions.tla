----------------------------- MODULE Partitions -----------------------------
(***************************************************************************)
(* migrations/000002: the partitions of event_raw, created and dropped by  *)
(* golang-migrate (external), whose version decides which script may run.  *)
(* Time is UTC in units of which Day make a day. Days are counted in UTC,  *)
(* but day::timestamptz is midnight in the time zone of the session, an    *)
(* offset from UTC that is the database's own and does not change.         *)
(***************************************************************************)
EXTENDS Integers

CONSTANTS
    Day,          \* units in a day
    Zone,         \* offsets the database may have
    LastTime      \* bound: the clock

ASSUME DayAssumption == Day \in Nat \ {0}

\* No zone is a day or more away from UTC.
ASSUME ZoneAssumption == \A z \in Zone : z \in Int /\ -Day < z /\ z < Day

VARIABLES
    now, zone,
    version,      \* of the schema
    partitions,   \* of event_raw
    created       \* when up last ran, or -1

vars == <<now, zone, version, partitions, created>>

Today == now \div Day

\* Mutant: from today on.
BootstrapFromToday == Today .. (Today + 13)

\* start_day .. end_day - 1
Bootstrap == (Today - 7) .. (Today + 13)

Midnight(day) == day * Day - zone

\* The partition of a day; it is named after the day.
Partition(day) == [day |-> day, from |-> Midnight(day), to |-> Midnight(day + 1)]

Covers(p, t) == p.from <= t /\ t < p.to

Init ==
    /\ now = 7 * Day /\ zone \in Zone
    /\ version = 1 /\ partitions = {} /\ created = -1

\* up: CREATE TABLE IF NOT EXISTS, which goes by the name.
Up ==
    /\ version = 1
    /\ version' = 2 /\ created' = now
    /\ partitions' = partitions \cup
           {Partition(day) : day \in Bootstrap \ {p.day : p \in partitions}}
    /\ UNCHANGED <<now, zone>>

\* down: every partition, whatever its name.
Down ==
    /\ version = 2
    /\ version' = 1 /\ created' = -1
    /\ partitions' = {}
    /\ UNCHANGED <<now, zone>>

\* make migrate-force VERSION=1, after which up may run again.
MigrateForce ==
    /\ version = 2
    /\ version' = 1
    /\ UNCHANGED <<now, zone, partitions, created>>

Tick == now < LastTime /\ now' = now + 1 /\ UNCHANGED <<zone, version, partitions, created>>

Next == Up \/ Down \/ MigrateForce \/ Tick

Spec == Init /\ [][Next]_vars

\* 000002, "so a freshly migrated database can accept writes": in whatever zone
\* up runs and at whatever time of day, and when it runs again over what is there,
\* every instant from six days before it to twelve days after it is in exactly
\* one partition.
FreshWindowIsCovered ==
    created # -1 =>
        \A t \in (created - 6 * Day)..(created + 12 * Day) :
            \E p \in partitions : Covers(p, t) /\ \A q \in partitions : Covers(q, t) => q = p
=============================================================================
