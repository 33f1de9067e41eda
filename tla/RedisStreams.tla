---------------------------- MODULE RedisStreams ----------------------------
(***************************************************************************)
(* The Redis stream commands the services share, as far as they use them.  *)
(* The server gives every XADD an id above all earlier ones, so a stream   *)
(* is the set of the ids (numbers) of the entries it still holds, and its  *)
(* order is the order of the ids.  What an entry holds is kept apart, in a *)
(* sequence indexed by id, because a consumer that has read an entry still *)
(* has it after the entry is gone from the stream.                         *)
(***************************************************************************)
EXTENDS Naturals, FiniteSets

\* Mutant of Undelivered: XREADGROUP from "0" gives out entries a second time.
FromStart(stream, delivered) == stream

\* XREADGROUP ... ">": only entries no consumer of the group was given yet.
Undelivered(stream, delivered) == {i \in stream : i > delivered}

\* The ids one XREADGROUP with this COUNT returns, when it advances the group's
\* last-delivered id to last.
Through(ids, last) == {i \in ids : i <= last}

\* Mutant of IsRead: the read waits for a full batch.
IsFullRead(ids, last, count) == Cardinality(Through(ids, last)) = count

IsRead(ids, last, count) ==
    LET got == Through(ids, last)
    IN  /\ Cardinality(got) <= count
        /\ got = ids \/ Cardinality(got) = count

\* XTRIM MAXLEN ~ n drops whole nodes from the old end: never below n entries,
\* possibly nothing at all.
Trimmed(stream, maxlen) ==
    {kept \in {{i \in stream : i >= oldest} : oldest \in stream \cup {0}} :
        kept = stream \/ Cardinality(kept) >= maxlen}

=============================================================================
