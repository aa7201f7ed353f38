------------------------------- MODULE MuteTime -------------------------------
(***************************************************************************)
(* What becomes of a mutedUntil between the body of a PUT and its column   *)
(* (src/src/handlers/notifications_handler.cpp, src/src/repository/        *)
(* notifications_repository.cpp).  Times are counted in one unit; a clock  *)
(* is what a date and a time of day show, an instant is that clock at      *)
(* Greenwich.                                                              *)
(***************************************************************************)
EXTENDS Integers

CONSTANTS
  ProcessZone,   \* how far the local time of the process is ahead
  SessionZone    \* and that of the database session

ASSUME ZonesAssumption == ProcessZone \in Int /\ SessionZone \in Int

(***************************************************************************)
(* A text: its clock and what follows the seconds.  RFC 3339 has "Z" or an *)
(* offset; "Z..." is a Z with more behind it.                              *)
(***************************************************************************)
TimeSuffixes == {"Z", "offset", "none", "Z..."}

TimeText(clock, suffix, ahead) == [clock |-> clock, suffix |-> suffix, ahead |-> ahead]

Rfc3339(t) == t.suffix \in {"Z", "offset"}

\* The instant an RFC 3339 text names.
Named(t) == t.clock - t.ahead

\* Mutant of GetTime: the format of ParseTimestamp in json_utils.hpp.
GetTime_NoZ(t) == {t.clock}

\* std::get_time with "%Y-%m-%dT%H:%M:%SZ": the clock, or none when it fails; it
\* does not look at what follows the Z.
GetTime(t) == {c \in {t.clock} : t.suffix \in {"Z", "Z..."}}

\* from_time_t(mktime): the clock taken as local time.
MkTime(clock) == clock - ProcessZone

\* gmtime and strftime give the clock at Greenwich, without a zone; TIMESTAMPTZ
\* takes it as a clock of the session.
StoredAs(instant) == instant - SessionZone
===============================================================================
