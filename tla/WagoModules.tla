----------------------------- MODULE WagoModules -----------------------------
(* Modules of one Wago controller: where their instances lie among its        *)
(* analog input points (config/Config.cpp), the manager's turns over them     *)
(* (tasks/wago/PollModule.cpp), the requests for their instances, one session *)
(* each, and the mapping of an analog word to a range                         *)
(* (communication/wago/Communicator.cpp).  The controller and the library     *)
(* EIPScanner are external: a request yields what the point holds, or fails.  *)
EXTENDS Integers, Sequences

CONSTANT Rigs       \* configured modules, what the points may hold, and a bound on the time

(* A module: its offset, its poll time, and its instances with their ranges.  *)
Int16s == {i \in Int : -32768 <= i /\ i <= 32767}

Modules16 == [offset : Nat \ {0}, pollTime : Nat, instances : Seq([min : Int16s, max : Int16s])]

IsModule(m) ==
    /\ m \in Modules16
    /\ Len(m.instances) \in {1, 2, 4, 8}
    /\ \A i \in DOMAIN m.instances : m.instances[i].min <= m.instances[i].max

(* A file may also have no modules; its manager has nothing to do then.       *)
AreModules(modules) ==
    /\ modules \in Seq(Modules16) /\ modules # <<>>
    /\ \A i \in DOMAIN modules : IsModule(modules[i])

ASSUME RigAssumption ==
    \A r \in Rigs : /\ AreModules(r.modules)
                    /\ \A w \in r.words : w \in Nat /\ w < 65536
                    /\ r.time \in Nat

VARIABLES
    rig,        \* the configuration and the controller under consideration
    placing,    \* what has become of the configuration
    offsets,    \* module -> the point of its first instance
    clock,      \* steady_clock
    lastRun,    \* module -> when it was polled last
    turn,       \* the module whose turn it is
    asking,     \* whether its request is under way
    reading,    \* the fields read in it so far
    entry       \* what the last request has returned

wagoVars == <<rig, placing, offsets, clock, lastRun, turn, asking, reading, entry>>

Modules == rig.modules

Size(m) == Len(m.instances)

NoEntry == [module |-> 0, error |-> FALSE, fields |-> <<>>]

WagoInit ==
    /\ rig \in Rigs
    /\ placing = "config"
    /\ offsets = [i \in DOMAIN Modules |-> Modules[i].offset]
    /\ clock = 0 /\ lastRun = [i \in DOMAIN Modules |-> 0]
    /\ turn = 1
    /\ asking = FALSE
    /\ reading = <<>> /\ entry = NoEntry

-----------------------------------------------------------------------------
(* Configuration *)

DefaultOffset == 1      \* stands for an offset that is not given

SetManually(m) == m.offset # DefaultOffset

OverlapsOrTouches(modules) ==       \* a bug: refuses modules put one after another
    \E i \in 2..Len(modules) :
        SetManually(modules[i]) /\ modules[i].offset <= modules[i - 1].offset + Size(modules[i - 1])

(* checkOverlappingOffsets, which comes before setOffsetValues: the offset of *)
(* the module before is still DefaultOffset if it is not given.               *)
Overlaps(modules) ==
    \E i \in 2..Len(modules) :
        SetManually(modules[i]) /\ modules[i].offset < modules[i - 1].offset + Size(modules[i - 1])

(* setOffsetValues.                                                           *)
Filled(modules) ==
    LET first[i \in DOMAIN modules] ==
            IF i = 1 \/ SetManually(modules[i]) THEN modules[i].offset
                                          ELSE first[i - 1] + Size(modules[i - 1])
    IN  first

Refuse ==
    /\ placing = "config" /\ Overlaps(Modules)
    /\ placing' = "refused"
    /\ UNCHANGED <<rig, offsets, clock, lastRun, turn, asking, reading, entry>>

Place ==
    /\ placing = "config" /\ ~ Overlaps(Modules)
    /\ placing' = "placed"
    /\ offsets' = Filled(Modules)
    /\ UNCHANGED <<rig, clock, lastRun, turn, asking, reading, entry>>

-----------------------------------------------------------------------------
(* The word of an instance *)

AsInt16(n) == LET w == n % 65536 IN IF w >= 32768 THEN w - 65536 ELSE w

MinAnalog == 0
MaxAnalog == 2047

Sign(word) == (word \div 32768) * 32768

(* extractAnalog: four bits of diagnostics are shifted out and the sign bit   *)
(* is put back.                                                               *)
ExtractAnalog(word) == AsInt16(Sign(word) + ((word - Sign(word)) \div 16))

Quotient(a, b) == IF a >= 0 THEN a \div b ELSE - ((- a) \div b)    \* as C++ divides, for b > 0

MapUp(x, range) ==          \* a bug: takes the number of values for the largest one
    AsInt16(Quotient((x - MinAnalog) * (range.max - range.min), MaxAnalog + 1 - MinAnalog) + range.min)

(* map: worked out in int, returned as int16_t.                               *)
Map(x, range) ==
    AsInt16(Quotient((x - MinAnalog) * (range.max - range.min), MaxAnalog - MinAnalog) + range.min)

-----------------------------------------------------------------------------
(* The manager's thread *)

NextTurn == turn' = (turn % Len(Modules)) + 1

PollTimeUp == clock - lastRun[turn] >= Modules[turn].pollTime

PollModule ==
    /\ placing = "placed" /\ ~ asking /\ PollTimeUp
    /\ asking' = TRUE
    /\ lastRun' = [lastRun EXCEPT ![turn] = clock]
    /\ UNCHANGED <<rig, placing, offsets, clock, turn, reading, entry>>

SkipModule ==
    /\ placing = "placed" /\ ~ asking /\ ~ PollTimeUp
    /\ NextTurn
    /\ UNCHANGED <<rig, placing, offsets, clock, lastRun, asking, reading, entry>>

Instance == Modules[turn].instances[Len(reading) + 1]

(* A session, a request for the next point, and the mapping of its word.      *)
GetSingle ==
    /\ asking /\ Len(reading) < Size(Modules[turn])
    /\ \E word \in rig.words :
        reading' = Append(reading, [point |-> offsets[turn] + Len(reading),
                                    word |-> word,
                                    value |-> Map(ExtractAnalog(word), Instance)])
    /\ UNCHANGED <<rig, placing, offsets, clock, lastRun, turn, asking, entry>>

ReturnEntry(error, fields) ==
    /\ entry' = [module |-> turn, error |-> error, fields |-> fields]
    /\ asking' = FALSE
    /\ reading' = <<>>
    /\ NextTurn
    /\ UNCHANGED <<rig, placing, offsets, clock, lastRun>>

GetFailsAlone ==           \* a bug: only the instance that failed is left out
    /\ asking /\ Len(reading) < Size(Modules[turn])
    /\ ReturnEntry(FALSE, reading)

(* The session cannot be opened or the request fails: one error for all.      *)
GetFails ==
    /\ asking /\ Len(reading) < Size(Modules[turn])
    /\ ReturnEntry(TRUE, <<>>)

Complete ==
    /\ asking /\ Len(reading) = Size(Modules[turn])
    /\ ReturnEntry(FALSE, reading)

Elapse ==
    /\ placing = "placed" /\ clock < rig.time
    /\ clock' = clock + 1
    /\ UNCHANGED <<rig, placing, offsets, lastRun, turn, asking, reading, entry>>

WagoNext == \/ Refuse \/ Place
            \/ PollModule \/ SkipModule \/ GetSingle \/ GetFails \/ Complete
            \/ Elapse

WagoSpec == WagoInit /\ [][WagoNext]_wagoVars

-----------------------------------------------------------------------------
(* Properties *)

(* README: modules lie one after another from the last given offset on.       *)
DocumentedPlace(i) ==
    LET base == CHOOSE b \in 1..i : /\ b = 1 \/ SetManually(Modules[b])
                                    /\ \A j \in (b + 1)..i : ~ SetManually(Modules[j])
        past[j \in base..i] == IF j = base THEN 0 ELSE past[j - 1] + Size(Modules[j - 1])
    IN  Modules[base].offset + past[i]

PastEnd(i) == DocumentedPlace(i) + Size(Modules[i])

Apart == \A i \in 2..Len(Modules) : PastEnd(i - 1) <= DocumentedPlace(i)

(* A module with a given offset comes after one that has been left its place. *)
Hidden == \E i \in 3..Len(Modules) : SetManually(Modules[i]) /\ ~ SetManually(Modules[i - 1])

(* Modules are placed as documented.  They are refused only if one reaches    *)
(* into another, or before it, and always then, unless the module reached     *)
(* into has its place from the modules before it: the check is made before    *)
(* that place is known.                                                       *)
OffsetsExact ==
    /\ placing = "refused" => ~ Apart
    /\ placing = "placed" => /\ \A i \in DOMAIN Modules : offsets[i] = DocumentedPlace(i)
                             /\ Apart \/ Hidden

(* A request returns the words of its own module's points, all of them in the *)
(* order of the instances, or an error and nothing.                           *)
OwnPoints ==
    IF entry.error
      THEN entry.fields = <<>>
      ELSE entry.module # 0 =>
             /\ Len(entry.fields) = Size(Modules[entry.module])
             /\ \A k \in DOMAIN entry.fields :
                   entry.fields[k].point = DocumentedPlace(entry.module) + k - 1

(* A word without the sign bit is mapped in proportion, rounded towards zero  *)
(* from the lower end of the range; its ends are met exactly and the bits of  *)
(* diagnostics make no difference.                                            *)
MappingExact ==
    \A k \in DOMAIN entry.fields :
        LET f == entry.fields[k]
            r == Modules[entry.module].instances[k]
            n == f.word \div 16
        IN  f.word < 32768 =>
              /\ f.value \in r.min..r.max
              /\ (f.value - r.min) * MaxAnalog <= n * (r.max - r.min)
              /\ n * (r.max - r.min) < (f.value - r.min + 1) * MaxAnalog
=============================================================================
