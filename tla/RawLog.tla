------------------------------- MODULE RawLog -------------------------------
(***************************************************************************)
(* What the raw store data/raw/.../date=<D>/valve_cycles.parquet promises  *)
(* its readers: it only grows, an event has one row in it for ever, and a  *)
(* row never carries an ingest_ts older than a row already in its file.    *)
(* Module Ingest implements it, module Backfill relies on it.              *)
(***************************************************************************)
EXTENDS Naturals

CONSTANTS Event, Date, DateOf

ASSUME LogAssumption == DateOf \in [Event -> Date]

VARIABLE file   \* [Date -> set of rows]

Row == [event : Event, ts : Nat]
Stored == UNION {{r.event : r \in file[d]} : d \in Date}

LogInit == file = [d \in Date |-> {}]

\* A flush of the rows R to the file of date d.
AppendRows(d, R) ==
  /\ R # {} /\ R \subseteq Row
  /\ \A r \in R : DateOf[r.event] = d /\ r.event \notin Stored
  /\ \A r, s \in R : r.event = s.event => r = s
  /\ \A r \in R, s \in file[d] : s.ts <= r.ts
  /\ file' = [file EXCEPT ![d] = @ \cup R]

LogNext == \E d \in Date : AppendRows(d, file'[d] \ file[d])

LogSpec == LogInit /\ [][LogNext]_file
=============================================================================
