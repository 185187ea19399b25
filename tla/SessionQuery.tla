---------------------------- MODULE SessionQuery ----------------------------
(***************************************************************************)
(* benchmarks/reference_query.sql, the read path's query, and the type     *)
(* Session of internal/session/session.go, which is its result: the joins  *)
(* of one participant in one room, grouped under a reconnect gap.          *)
(*                                                                         *)
(* A row is a record of join (its id), room, identity, started and ended,  *)
(* where ended is NoEnd for ended_at IS NULL.                              *)
(***************************************************************************)
EXTENDS Integers, SequencesExt, FiniteSetsExt

CONSTANT NoEnd

\* active_range && tstzrange(from, to, '[)'). A join that ends when it starts
\* has the empty range, which overlaps nothing.
Overlaps(r, from, to) ==
    /\ from < to
    /\ r.started < to
    /\ r.ended # NoEnd => from < r.ended /\ r.started < r.ended

Overlapping(rows, from, to) == {r \in rows : Overlaps(r, from, to)}

\* PARTITION BY room_name, participant_identity
Partitions(rows) ==
    {{q \in rows : q.room = r.room /\ q.identity = r.identity} : r \in rows}

\* ORDER BY started_at: rows that tie come in any order.
Ordered(part) ==
    {w \in SetToSeqs(part) :
        \A i, k \in DOMAIN w : i < k => w[i].started <= w[k].started}

\* Mutant: a join after one that is open continues its session.
IsNewUnlessFar(w, i, gap) ==
    i = 1 \/ (w[i - 1].ended # NoEnd /\ w[i].started - w[i - 1].ended > gap)

\* Mutant: a pause of just the gap starts a session.
IsNewAtGap(w, i, gap) ==
    \/ i = 1
    \/ w[i - 1].ended = NoEnd
    \/ w[i].started - w[i - 1].ended >= gap

\* Mutant: first_value(ended_at) instead of lag(ended_at).
IsNewSinceFirst(w, i, gap) ==
    \/ i = 1
    \/ w[1].ended = NoEnd
    \/ w[i].started - w[1].ended > gap

\* gap IS NULL OR gap > :gap_seconds, with lag(ended_at): NULL for the first
\* row and after a join that has no end.
IsNew(w, i, gap) ==
    \/ i = 1
    \/ w[i - 1].ended = NoEnd
    \/ w[i].started - w[i - 1].ended > gap

\* sum(is_new) ... ROWS UNBOUNDED PRECEDING
SessionOrdinal(w, i, gap) == Cardinality({k \in 1..i : IsNew(w, k, gap)})

\* GROUP BY session_ordinal; each group is a Session, its Joins in order.
Sessions(w, gap) ==
    LET joins(n) == {i \in DOMAIN w : SessionOrdinal(w, i, gap) = n}
    IN  {SubSeq(w, Min(joins(n)), Max(joins(n))) :
            n \in {SessionOrdinal(w, i, gap) : i \in DOMAIN w}}

\* The columns of the result.
SessionStartedAt(s) == Min({s[i].started : i \in DOMAIN s})
StillOpen(s) == \E i \in DOMAIN s : s[i].ended = NoEnd

\* The methods of session.Session.
StartedAt(s) == s[1].started
IsOpen(s) == s[Len(s)].ended = NoEnd
=============================================================================
