------------------------------ MODULE Rendering ------------------------------
(* Readings on their way to stdout (out/pipe/Pipe.cpp, Data.cpp): the time of *)
(* a field becomes text by way of std::localtime, which leaves the calendar   *)
(* time in one place for the whole process and returns a pointer to it;       *)
(* std::strftime reads it from there.  The managers' threads do so without a  *)
(* lock.  A time is known by the manager whose reading it belongs to.         *)
EXTENDS Naturals

CONSTANTS
    MaxFiles,       \* how many managers there may be
    Nobody          \* no manager

Managers == 1..MaxFiles     \* a manager is known by the place of its file

ASSUME RenderingAssumption == MaxFiles \in Nat /\ Nobody \notin Managers

VARIABLES
    calendar,       \* the time that std::localtime has converted last
    page            \* manager -> the time in the text it has made, if any

renderVars == <<calendar, page>>

RenderInit ==
    /\ calendar = Nobody
    /\ page = [m \in Managers |-> Nobody]

(* A torn write would show as parts of one time and parts of another; that it *)
(* may be the other is all that is said here.                                 *)
LocalTime(m) ==
    /\ calendar' = m
    /\ UNCHANGED page

FormatTime(m) ==
    /\ page' = [page EXCEPT ![m] = calendar]
    /\ UNCHANGED calendar

(* The text is written as a whole; std::cout does not tear it.                *)
PutOut(m) ==
    /\ page' = [page EXCEPT ![m] = Nobody]
    /\ UNCHANGED calendar

(* What a manager prints bears the times of its own readings.                 *)
OwnTimes == \A m \in Managers : page[m] \in {m, Nobody}
=============================================================================
