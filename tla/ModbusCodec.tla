----------------------------- MODULE ModbusCodec -----------------------------
(* From the registers a configuration names to the fields of a reading: the   *)
(* check that registers do not overlap (config/Config.cpp), the plan of       *)
(* requests (RequestPlanner.cpp) and the interpretation of their answers      *)
(* (Interpreter.cpp).  The slave answers every request with the registers     *)
(* asked for (it and library MB are external); what is in a register is named *)
(* by its place, so that every byte can be followed.                          *)
EXTENDS Naturals, Sequences, SequencesExt

CONSTANT Slaves     \* configured slaves: two sequences of registers each

(* A register: its name, its address, and the order of its bytes - a          *)
(* permutation of 0..1, 0..3 or 0..7.                                         *)
Permutes(order) == /\ order \in Seq(0..7) /\ Len(order) \in {2, 4, 8}
                   /\ Range(order) = 0..(Len(order) - 1)

ASSUME CodecAssumption ==
    \A s \in Slaves : \A table \in {s.output, s.input} :
        /\ table \in Seq(Range(table))
        /\ \A r \in Range(table) : r.address \in Nat /\ Permutes(r.order)

VARIABLES
    slave,      \* the slave under consideration
    stage,      \* how far it has come
    plan,       \* the requests planned for a poll
    fields      \* the fields read so far

codecVars == <<slave, stage, plan, fields>>

CodecInit ==
    /\ slave \in Slaves
    /\ slave.input # <<>> \/ slave.output # <<>>
    /\ stage = "config"
    /\ plan = <<>>
    /\ fields = <<>>

Words(r) == Len(r.order) \div 2

Arrangements(registers) ==
    {[i \in DOMAIN registers |-> registers[p[i]]] :
        p \in Bijection(DOMAIN registers, DOMAIN registers)}

(* std::sort by address: registers with the same address come in any order.   *)
InOrder(registers) ==
    CHOOSE s \in Arrangements(registers) :
        \A i, j \in DOMAIN s : i < j => s[i].address <= s[j].address

-----------------------------------------------------------------------------
(* Configuration *)

SpacingOfFirst(registers) ==            \* a bug: the last pair is not compared
    LET s == InOrder(registers)
    IN  \A i \in 1..(Len(s) - 2) : s[i].address + Words(s[i]) <= s[i + 1].address

(* checkRegisterAddressSpacing: compares neighbours only.                     *)
Spacing(registers) ==
    LET s == InOrder(registers)
    IN  \A i \in 1..(Len(s) - 1) : s[i].address + Words(s[i]) <= s[i + 1].address

Configure ==
    /\ stage = "config"
    /\ stage' = IF Spacing(slave.input) /\ Spacing(slave.output) THEN "accepted" ELSE "refused"
    /\ UNCHANGED <<slave, plan, fields>>

-----------------------------------------------------------------------------
(* The plan of requests *)

CloseTo(l, r) == l.address + Words(l) >= r.address - 1      \* a bug: bridges a gap of one

Adjacent(l, r) == l.address + Words(l) = r.address

(* A register joins the group before it when it is adjacent to its last one.  *)
Join(groups, r) ==
    IF groups # <<>> /\ Adjacent(Last(Last(groups)), r)
      THEN Front(groups) \o <<Append(Last(groups), r)>>
      ELSE Append(groups, <<r>>)

Groups(registers) == FoldLeft(Join, <<>>, InOrder(registers))

WordCount(group) == FoldLeft(LAMBDA n, r : n + Words(r), 0, group)

Requests(table, registers) ==
    LET groups == Groups(registers)
    IN  [i \in DOMAIN groups |->
            [table |-> table, address |-> groups[i][1].address,
             count |-> WordCount(groups[i]), registers |-> groups[i]]]

(* requestPlan; it is called anew for every poll.                             *)
MakePlan ==
    /\ stage = "accepted"
    /\ plan' = Requests("output", slave.output) \o Requests("input", slave.input)
    /\ stage' = "planned"
    /\ UNCHANGED <<slave, fields>>

-----------------------------------------------------------------------------
(* The answers and their interpretation *)

Byte(table, address, half) == [table |-> table, address |-> address, half |-> half]

(* The registers of an answer, each of two bytes, the first byte first: MB    *)
(* makes a 16-bit number of each, toRaw16BitRegisters takes it apart again.   *)
Registers(request) ==
    [i \in 1..request.count |->
        <<Byte(request.table, request.address + i - 1, 0),
          Byte(request.table, request.address + i - 1, 1)>>]

(* toRawMergedRegisters: the k-th register of the request takes its words     *)
(* after those of the registers before it.                                    *)
Merged(raw, registers, k) ==
    LET start == WordCount(SubSeq(registers, 1, k - 1))
    IN  FlattenSeq(SubSeq(raw, start + 1, start + Words(registers[k])))

(* toUserInterpretation: most significant byte first.                         *)
BigEndian(word, order) == [i \in DOMAIN order |-> word[order[i] + 1]]

(* What a little-endian machine makes of bytes: each with its significance.   *)
Number(bytes) == [s \in 0..(Len(bytes) - 1) |-> bytes[s + 1]]

NotReversed(word, order) == Number(BigEndian(word, order))      \* a bug: big-endian bytes on a little-endian host

(* toMachineInterpretation, then the cast of toParsedFields.                  *)
Value(word, order) == Number(Reverse(BigEndian(word, order)))

Parse(request) ==
    [k \in DOMAIN request.registers |->
        [name |-> request.registers[k].name,
         value |-> Value(Merged(Registers(request), request.registers, k),
                         request.registers[k].order)]]

(* One round of the communicator's loop.                                      *)
Exchange ==
    /\ stage = "planned" /\ plan # <<>>
    /\ fields' = fields \o Parse(Head(plan))
    /\ plan' = Tail(plan)
    /\ UNCHANGED <<slave, stage>>

Finish ==
    /\ stage = "planned" /\ plan = <<>>
    /\ stage' = "read"
    /\ UNCHANGED <<slave, plan, fields>>

CodecNext == Configure \/ MakePlan \/ Exchange \/ Finish

CodecSpec == CodecInit /\ [][CodecNext]_codecVars

-----------------------------------------------------------------------------
(* Properties *)

Table(t) == IF t = "input" THEN slave.input ELSE slave.output

Span(r) == r.address..(r.address + Words(r) - 1)

(* Comparing neighbours in the order of their addresses is enough: a slave is *)
(* refused exactly if some two of its registers share a word.                 *)
SpacingExact ==
    stage # "config" =>
        (stage = "refused" <=>
            \E t \in {"input", "output"} : \E i, j \in DOMAIN Table(t) :
                i # j /\ Span(Table(t)[i]) \cap Span(Table(t)[j]) # {})

(* A plan asks for the words of the configured registers and for no others,   *)
(* for none twice, and with no more requests than that takes.                 *)
PlanExact ==
    \A t \in {"input", "output"} :
        LET mine == {i \in DOMAIN plan : plan[i].table = t}
            Asked(i) == plan[i].address..(plan[i].address + plan[i].count - 1)
        IN  /\ stage = "planned" /\ fields = <<>> =>
                 UNION {Asked(i) : i \in mine} = UNION {Span(r) : r \in Range(Table(t))}
            /\ \A i, j \in mine : i # j => /\ Asked(i) \cap Asked(j) = {}
                                           /\ plan[i].address + plan[i].count # plan[j].address

(* The byte order as the README and Register.hpp describe it: the p-th byte   *)
(* of a register (from 0) is the order[p]-th most significant.                *)
Documented(t, r) ==
    [s \in 0..(Len(r.order) - 1) |->
        LET p == CHOOSE q \in DOMAIN r.order : r.order[q] = Len(r.order) - 1 - s
        IN  Byte(t, r.address + (p - 1) \div 2, (p - 1) % 2)]

SelfInverse(order) == \A i \in DOMAIN order : order[order[i] + 1] = i - 1

Tables == {"input", "output"}

(* A poll yields one field per register, made of the bytes of that register   *)
(* and no other, wherever its words lay in an answer; in the documented order *)
(* if it is one of those that undo themselves, as all standard types are.     *)
FieldsExact ==
    stage = "read" =>
        /\ Len(fields) = Len(slave.input) + Len(slave.output)
        /\ \A t \in Tables : \A r \in Range(Table(t)) :
             \E i \in DOMAIN fields :
                /\ fields[i].name = r.name
                /\ Range(fields[i].value) = Range(Documented(t, r))
                /\ SelfInverse(r.order) => fields[i].value = Documented(t, r)

(* The same for every order: the code applies an order's inverse.             *)
OrderAsDocumented ==
    stage = "read" =>
        \A t \in Tables : \A r \in Range(Table(t)) :
            \E i \in DOMAIN fields :
                fields[i].name = r.name /\ fields[i].value = Documented(t, r)
=============================================================================
