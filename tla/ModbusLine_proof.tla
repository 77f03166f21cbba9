--------------------------- MODULE ModbusLine_proof ---------------------------
(* Proofs about ModbusLine, for any slaves, tasks, plans and poll times.      *)
EXTENDS ModbusLine, SequenceTheorems, TLAPS

LEMMA Given ==
    /\ Len(Tasks) \in Nat \ {0} /\ DOMAIN Tasks = 1..Len(Tasks)
    /\ \A t \in DOMAIN Tasks : Tasks[t] \in Slaves
    /\ \A s \in Slaves : /\ Plan[s] \in Seq(Groups) /\ Len(Plan[s]) \in Nat
                         /\ DOMAIN Plan[s] = 1..Len(Plan[s])
                         /\ \A i \in DOMAIN Plan[s] : Plan[s][i] \in Groups
<1>1. /\ Tasks \in Seq(Slaves) /\ Tasks # <<>>
      /\ \A s \in Slaves : Plan[s] \in Seq(Groups)
  BY LineAssumption
<1>2. Len(Tasks) \in Nat \ {0} /\ DOMAIN Tasks = 1..Len(Tasks)
      /\ \A t \in DOMAIN Tasks : Tasks[t] \in Slaves
  BY <1>1, EmptySeq, LenProperties, ElementOfSeq
<1>3. ASSUME NEW s \in Slaves
      PROVE  /\ Len(Plan[s]) \in Nat /\ DOMAIN Plan[s] = 1..Len(Plan[s])
             /\ \A i \in DOMAIN Plan[s] : Plan[s][i] \in Groups
  BY <1>1, LenProperties, ElementOfSeq
<1>. QED  BY <1>1, <1>2, <1>3

-----------------------------------------------------------------------------
(* The operators on pieces *)

LEMMA OutdatedPieces ==
    ASSUME NEW pieces \in Seq(Pieces)
    PROVE  /\ Outdated(pieces) \in Seq(Pieces)
           /\ pieces = <<>> => Outdated(pieces) = <<>>
<1>1. PICK n \in Nat : pieces \in [1..n -> Pieces]
  BY SeqDef
<1>2. \A p \in Pieces : [p EXCEPT !.current = FALSE] \in Pieces
  BY DEF Pieces
<1>3. Outdated(pieces) \in [1..n -> Pieces]
  BY <1>1, <1>2 DEF Outdated
<1>4. Outdated(pieces) \in Seq(Pieces)
  BY <1>3, SeqDef
<1>5. ASSUME pieces = <<>> PROVE Outdated(pieces) = <<>>
  BY <1>5 DEF Outdated
<1>. QED  BY <1>4, <1>5

(* What the slave asked may answer.                                           *)
OfRequest(s, g) == {p \in Pieces : p.current = TRUE /\ p.slave = s /\ p.group = g}

LEMMA AnswerPieces ==
    ASSUME NEW s \in Slaves, NEW g \in Groups, NEW answer \in Answers(s, g)
    PROVE  answer \in Seq(OfRequest(s, g)) /\ answer \in Seq(Pieces)
<1>1. \A kind \in {"data", "exception", "noise"}, part \in {1, 2} :
        Piece(s, g, kind, part) \in OfRequest(s, g)
  BY DEF Piece, OfRequest, Pieces
<1>2. answer \in Seq(OfRequest(s, g))
  <2>1. CASE answer = <<>>
    BY <2>1, EmptySeq
  <2>2. CASE answer = DataFrame(s, g)
    <3>1. Piece(s, g, "data", 1) \in OfRequest(s, g) /\ Piece(s, g, "data", 2) \in OfRequest(s, g)
      BY <1>1
    <3>. HIDE DEF Piece, OfRequest
    <3>. QED  BY <2>2, <3>1 DEF DataFrame
  <2>3. ASSUME NEW kind \in {"exception", "noise"}, answer = <<Piece(s, g, kind, 1)>>
        PROVE  answer \in Seq(OfRequest(s, g))
    BY <1>1, <2>3
  <2>. QED  BY <2>1, <2>2, <2>3 DEF Answers
<1>3. OfRequest(s, g) \subseteq Pieces
  BY DEF OfRequest
<1>. QED  BY <1>2, <1>3, SeqMonotonic

LEMMA WholePieces ==
    ASSUME NEW S, NEW pieces \in Seq(S), Whole(pieces)
    PROVE  pieces[1] \in S
BY ElementOfSeq DEF Whole

-----------------------------------------------------------------------------
(* Types *)

LEMMA TurnStep == ASSUME turn \in DOMAIN Tasks, NextTurn PROVE turn' \in DOMAIN Tasks
BY Given DEF NextTurn

LEMMA SlaveKnown == ASSUME turn \in DOMAIN Tasks PROVE Slave \in Slaves
BY Given DEF Slave

LEMMA LineTypeInit == LineInit => LineTypeOK
<1> SUFFICES ASSUME LineInit PROVE LineTypeOK
  OBVIOUS
<1>1. <<>> \in Seq(Pieces)
  BY EmptySeq
<1>2. inbox \in Seq(Pieces)
  <2>1. ASSUME NEW s \in Slaves, Plan[s] # <<>>
        PROVE  Outdated(DataFrame(s, Plan[s][1])) \in Seq(Pieces)
    <3>1. Plan[s] \in Seq(Groups) /\ Len(Plan[s]) \in Nat \ {0} /\ DOMAIN Plan[s] = 1..Len(Plan[s])
      BY <2>1, Given, EmptySeq
    <3>2. 1 \in DOMAIN Plan[s] /\ Plan[s][1] \in Groups
      BY <3>1, Given
    <3>3. DataFrame(s, Plan[s][1]) \in Answers(s, Plan[s][1])
      BY DEF Answers
    <3>. QED  BY <3>2, <3>3, AnswerPieces, OutdatedPieces
  <2>. QED  BY <1>1, <2>1 DEF LineInit, Leftovers
<1>3. entry \in [slave : Slaves, error : {"unset", "none", "OS", "Modbus"}, fields : Seq(Pieces)]
  BY <1>1, Given DEF LineInit, NoEntry
<1>4. turn \in DOMAIN Tasks /\ since \in [Slaves -> Nat]
  BY Given, LineAssumption DEF LineInit
<1>. QED  BY <1>1, <1>2, <1>3, <1>4 DEF LineInit, LineTypeOK

LEMMA LineTypeStep == LineTypeOK /\ [LineNext]_lineVars => LineTypeOK'
<1> SUFFICES ASSUME LineTypeOK, [LineNext]_lineVars PROVE LineTypeOK'
  OBVIOUS
<1>0. /\ turn \in DOMAIN Tasks /\ Slave \in Slaves /\ <<>> \in Seq(Pieces)
      /\ coming \in Seq(Pieces) /\ inbox \in Seq(Pieces)
      /\ data \in Seq(Pieces) /\ fields \in Seq(Pieces)
  BY SlaveKnown, EmptySeq DEF LineTypeOK
<1>1. CASE Arrive
  <2>1. inbox' \in Seq(Pieces) /\ coming' \in Seq(Pieces)
    BY <1>0, <1>1, HeadTailProperties, AppendProperties DEF Arrive
  <2>. QED  BY <1>1, <2>1 DEF Arrive, LineTypeOK
<1>2. CASE Vanish
  <2>1. coming' \in Seq(Pieces)
    BY <1>0, <1>2, HeadTailProperties DEF Vanish
  <2>. QED  BY <1>2, <2>1 DEF Vanish, LineTypeOK
<1>3. CASE Elapse
  <2>1. since' \in [Slaves -> Nat]
    BY <1>3 DEF Elapse, LineTypeOK
  <2>. QED  BY <1>3, <2>1 DEF Elapse, LineTypeOK
<1>4. CASE Unplug
  BY <1>0, <1>4 DEF Unplug, LineTypeOK
<1>5. CASE Open
  BY <1>0, <1>5 DEF Open, LineTypeOK
<1>6. CASE Send
  <2>1. PICK answer \in Answers(Slave, Plan[Slave][step]) : coming' = Outdated(coming) \o answer
    BY <1>6 DEF Send
  <2>2. Plan[Slave][step] \in Groups
    BY <1>0, <1>6, Given DEF Send, LineTypeOK
  <2>3. coming' \in Seq(Pieces)
    BY <1>0, <2>1, <2>2, AnswerPieces, OutdatedPieces, ConcatProperties
  <2>4. inbox' \in Seq(Pieces)
    BY <1>0, <1>6, OutdatedPieces DEF Send
  <2>. QED  BY <1>6, <2>3, <2>4 DEF Send, LineTypeOK
<1>7. CASE Read
  <2>1. data' \in Seq(Pieces)
    BY <1>0, <1>7, ConcatProperties DEF Read
  <2>. QED  BY <1>0, <1>7, <2>1 DEF Read, LineTypeOK
<1>8. CASE StartTask
  <2>1. since' \in [Slaves -> Nat]
    BY <1>8 DEF StartTask, LineTypeOK
  <2>. QED  BY <1>0, <1>8, <2>1 DEF StartTask, LineTypeOK
<1>9. CASE SkipTask
  BY <1>0, <1>9, TurnStep DEF SkipTask, LineTypeOK
<1>10. CASE Accept
  <2>1. fields' \in Seq(Pieces)
    BY <1>0, <1>10, WholePieces, AppendProperties DEF Accept
  <2>2. step' \in Nat \ {0}
    BY <1>10 DEF Accept, LineTypeOK
  <2>. QED  BY <1>0, <1>10, <2>1, <2>2 DEF Accept, LineTypeOK
<1>11. ASSUME NEW error \in {"OS", "Modbus"}, Abandon(error) PROVE LineTypeOK'
  <2>1. entry' \in [slave : Slaves, error : {"unset", "none", "OS", "Modbus"}, fields : Seq(Pieces)]
    BY <1>0, <1>11 DEF Abandon
  <2>. QED  BY <1>0, <1>11, <2>1, TurnStep DEF Abandon, LineTypeOK
<1>12. CASE TimeOut \/ Reject \/ FailSend \/ FailRead
  BY <1>11, <1>12 DEF TimeOut, Reject, FailSend, FailRead
<1>13. CASE Complete
  <2>1. entry' \in [slave : Slaves, error : {"unset", "none", "OS", "Modbus"}, fields : Seq(Pieces)]
    BY <1>0, <1>13 DEF Complete
  <2>. QED  BY <1>0, <1>13, <2>1, TurnStep DEF Complete, LineTypeOK
<1>14. CASE UNCHANGED lineVars
  BY <1>14 DEF lineVars, LineTypeOK
<1>. QED  BY <1>1, <1>2, <1>3, <1>4, <1>5, <1>6, <1>7, <1>8, <1>9, <1>10, <1>12, <1>13, <1>14
          DEF LineNext, Program

(* However late answers come, every variable of the line keeps its type: no   *)
(* turn is taken past the last task, and what is stored is pieces of answers. *)
THEOREM LineTypes == LineSpec => []LineTypeOK
<1>. QED  BY LineTypeInit, LineTypeStep, PTL DEF LineSpec

-----------------------------------------------------------------------------
(* When every answer comes within its time-out, or not at all                 *)

Outstanding == OfRequest(Slave, Plan[Slave][step])

(* What there is of answers anywhere belongs to the request last written.     *)
WireInv ==
    /\ phase \in {"open", "idle", "send", "wait"} => data = <<>>
    /\ phase = "open" => plugged /\ coming = <<>>
    /\ phase \in {"idle", "send"} => inbox = <<>> /\ coming = <<>>
    /\ ~ plugged => inbox = <<>> /\ coming = <<>>
    /\ phase \in {"wait", "read"} =>
         {data, inbox, coming} \subseteq Seq(Outstanding)

(* What has been accepted answers the first requests of the plan, in order.   *)
FieldsInv ==
    /\ phase \in {"send", "wait", "read"} =>
         /\ Len(fields) = step - 1
         /\ \A i \in DOMAIN fields : fields[i].slave = Slave /\ fields[i].group = Plan[Slave][i]
    /\ phase = "send" => step <= Len(Plan[Slave]) + 1
    /\ phase \in {"wait", "read"} => step <= Len(Plan[Slave])

TalkInv == LineTypeOK /\ WireInv /\ FieldsInv /\ Attributed

LEMMA TalkInit == LineInit => TalkInv
<1> SUFFICES ASSUME LineInit PROVE TalkInv
  OBVIOUS
<1>1. LineTypeOK
  BY LineTypeInit
<1>2. WireInv /\ FieldsInv
  BY DEF LineInit, WireInv, FieldsInv
<1>3. Attributed
  BY DEF LineInit, NoEntry, Attributed
<1>. QED  BY <1>1, <1>2, <1>3 DEF TalkInv

(* The wire, the clock and the plug.                                          *)
LEMMA OutsideStep ==
    ASSUME TalkInv, Arrive \/ Vanish \/ Elapse \/ Unplug
    PROVE  WireInv' /\ FieldsInv' /\ Attributed'
<1>0. UNCHANGED <<phase, turn, step, data, fields, entry>>
  BY DEF Arrive, Vanish, Elapse, Unplug
<1>1. FieldsInv' /\ Attributed'
  BY <1>0 DEF TalkInv, FieldsInv, Attributed, Slave
<1>2. Outstanding' = Outstanding
  BY <1>0 DEF Outstanding, Slave
<1>3. CASE Arrive
  <2>1. coming # <<>> /\ UNCHANGED plugged
    BY <1>3 DEF Arrive
  <2>2. phase \in {"wait", "read"} /\ plugged
    BY <2>1 DEF TalkInv, WireInv, LineTypeOK
  <2>3. inbox' \in Seq(Outstanding) /\ coming' \in Seq(Outstanding) /\ data' \in Seq(Outstanding)
    BY <1>0, <1>3, <2>2, HeadTailProperties, AppendProperties DEF Arrive, TalkInv, WireInv
  <2>. QED  BY <1>0, <1>1, <1>2, <2>1, <2>2, <2>3 DEF TalkInv, WireInv
<1>4. CASE Vanish
  <2>1. coming # <<>> /\ UNCHANGED <<plugged, inbox>>
    BY <1>4 DEF Vanish
  <2>2. phase \in {"wait", "read"} /\ plugged
    BY <2>1 DEF TalkInv, WireInv, LineTypeOK
  <2>3. inbox' \in Seq(Outstanding) /\ coming' \in Seq(Outstanding) /\ data' \in Seq(Outstanding)
    BY <1>0, <1>4, <2>2, HeadTailProperties DEF Vanish, TalkInv, WireInv
  <2>. QED  BY <1>0, <1>1, <1>2, <2>1, <2>2, <2>3 DEF TalkInv, WireInv
<1>5. CASE Elapse
  BY <1>0, <1>1, <1>2, <1>5 DEF Elapse, TalkInv, WireInv
<1>6. CASE Unplug
  BY <1>0, <1>1, <1>2, <1>6, EmptySeq DEF Unplug, TalkInv, WireInv
<1>. QED  BY <1>3, <1>4, <1>5, <1>6

LEMMA SendStep ==
    ASSUME TalkInv, Send
    PROVE  WireInv' /\ FieldsInv' /\ Attributed'
<1>1. /\ phase = "send" /\ plugged /\ phase' = "wait"
      /\ UNCHANGED <<plugged, turn, step, data, fields, entry>>
      /\ step <= Len(Plan[Slave])
  BY DEF Send
<1>2. /\ Slave \in Slaves /\ Plan[Slave][step] \in Groups
  BY <1>1, Given, SlaveKnown DEF TalkInv, LineTypeOK
<1>3. Outstanding' = OfRequest(Slave, Plan[Slave][step])
  BY <1>1 DEF Outstanding, Slave
<1>4. inbox = <<>> /\ coming = <<>> /\ data = <<>>
  BY <1>1 DEF TalkInv, WireInv
<1>5. Outdated(inbox) = <<>> /\ Outdated(coming) = <<>>
  BY <1>4, EmptySeq, OutdatedPieces
<1>6. PICK answer \in Answers(Slave, Plan[Slave][step]) : coming' = <<>> \o answer
  BY <1>5 DEF Send
<1>7. coming' \in Seq(Outstanding')
  BY <1>2, <1>3, <1>6, AnswerPieces, ConcatEmptySeq
<1>8. inbox' = <<>> /\ data' = <<>>
  BY <1>1, <1>4, <1>5 DEF Send
<1>9. WireInv'
  BY <1>1, <1>7, <1>8, EmptySeq DEF WireInv
<1>10. FieldsInv' /\ Attributed'
  BY <1>1 DEF TalkInv, FieldsInv, Attributed, Slave
<1>. QED  BY <1>9, <1>10

LEMMA ReadStep ==
    ASSUME TalkInv, Read
    PROVE  WireInv' /\ FieldsInv' /\ Attributed'
<1>1. /\ phase \in {"wait", "read"} /\ phase' = "read" /\ inbox' = <<>> /\ data' = data \o inbox
      /\ UNCHANGED <<plugged, turn, step, coming, fields, entry>>
  BY DEF Read
<1>2. Outstanding' = Outstanding
  BY <1>1 DEF Outstanding, Slave
<1>3. {data', inbox', coming'} \subseteq Seq(Outstanding')
  BY <1>1, <1>2, ConcatProperties, EmptySeq DEF TalkInv, WireInv
<1>4. WireInv'
  BY <1>1, <1>3 DEF TalkInv, WireInv
<1>5. FieldsInv' /\ Attributed'
  BY <1>1 DEF TalkInv, FieldsInv, Attributed, Slave
<1>. QED  BY <1>4, <1>5

(* An answer is judged when nothing of it is still to come.                   *)
LEMMA Settled ==
    ASSUME ~ LateAnswers, Nothing
    PROVE  inbox = <<>> /\ coming = <<>>
BY DEF Nothing

(* What is accepted answers the request that is outstanding.                  *)
LEMMA AcceptedIsOwn ==
    ASSUME TalkInv, Accept
    PROVE  /\ fields \in Seq(Pieces) /\ data[1] \in Pieces
           /\ fields' = Append(fields, data[1])
           /\ data[1] \in Outstanding
<1>1. data \in Seq(Pieces) /\ data \in Seq(Outstanding) /\ fields \in Seq(Pieces)
  BY DEF Accept, TalkInv, LineTypeOK, WireInv
<1>. QED  BY <1>1, WholePieces DEF Accept

LEMMA AcceptStep ==
    ASSUME TalkInv, Accept, ~ LateAnswers
    PROVE  WireInv' /\ FieldsInv' /\ Attributed'
<1>1. /\ phase = "read" /\ phase' = "send" /\ step' = step + 1 /\ data' = <<>>
      /\ UNCHANGED <<plugged, turn, inbox, coming, entry>>
      /\ inbox = <<>> /\ coming = <<>>
  BY Settled DEF Accept
<1>2. WireInv'
  BY <1>1 DEF WireInv
<1>3. /\ step \in Nat \ {0} /\ Slave \in Slaves /\ Len(Plan[Slave]) \in Nat
      /\ step <= Len(Plan[Slave]) /\ Len(fields) = step - 1
      /\ \A i \in DOMAIN fields : fields[i].slave = Slave /\ fields[i].group = Plan[Slave][i]
  BY <1>1, Given, SlaveKnown DEF TalkInv, LineTypeOK, FieldsInv
<1>4. data[1].slave = Slave /\ data[1].group = Plan[Slave][step]
  BY AcceptedIsOwn DEF Outstanding, OfRequest
<1>5. /\ fields' \in Seq(Pieces) /\ Len(fields') = step
      /\ \A i \in 1..(step - 1) : fields'[i] = fields[i]
      /\ fields'[step] = data[1]
  BY <1>3, AcceptedIsOwn, AppendProperties
<1>6. DOMAIN fields = 1..(step - 1) /\ DOMAIN fields' = 1..step
  BY <1>3, <1>5, AcceptedIsOwn, LenProperties
<1>7. \A i \in DOMAIN fields' :
        fields'[i].slave = Slave /\ fields'[i].group = Plan[Slave][i]
  BY <1>3, <1>4, <1>5, <1>6
<1>8. FieldsInv'
  BY <1>1, <1>3, <1>5, <1>7 DEF FieldsInv, Slave
<1>. QED  BY <1>1, <1>2, <1>8 DEF TalkInv, Attributed

(* A task that fails leaves the line quiet, too.                              *)
LEMMA AbandonStep ==
    ASSUME TalkInv, NEW error \in {"OS", "Modbus"}, Abandon(error),
           inbox = <<>> /\ coming = <<>>
    PROVE  WireInv' /\ FieldsInv' /\ Attributed'
<1>1. /\ phase' = "idle" /\ inbox' = <<>> /\ coming' = <<>> /\ data' = <<>>
      /\ entry'.error = error /\ entry'.fields = <<>> /\ entry'.slave = Slave
  BY DEF Abandon
<1>. QED  BY <1>1 DEF WireInv, FieldsInv, Attributed

LEMMA CompleteStep ==
    ASSUME TalkInv, Complete
    PROVE  WireInv' /\ FieldsInv' /\ Attributed'
<1>1. /\ phase = "send" /\ phase' = "idle" /\ UNCHANGED <<plugged, inbox, coming, data>>
      /\ entry'.error = "none" /\ entry'.fields = fields /\ entry'.slave = Slave
      /\ step > Len(Plan[Slave])
  BY DEF Complete
<1>2. step \in Nat \ {0} /\ Slave \in Slaves /\ Len(Plan[Slave]) \in Nat
  BY Given, SlaveKnown DEF TalkInv, LineTypeOK
<1>3. WireInv' /\ FieldsInv'
  BY <1>1 DEF TalkInv, WireInv, FieldsInv
<1>4. Len(fields) = Len(Plan[Slave])
  BY <1>1, <1>2 DEF TalkInv, FieldsInv
<1>. QED  BY <1>1, <1>3, <1>4 DEF TalkInv, FieldsInv, Attributed

LEMMA TalkStep == ~ LateAnswers /\ TalkInv /\ [LineNext]_lineVars => TalkInv'
<1> SUFFICES ASSUME ~ LateAnswers, TalkInv, [LineNext]_lineVars PROVE TalkInv'
  OBVIOUS
<1>1. LineTypeOK'
  BY LineTypeStep DEF TalkInv
<1>2. CASE Arrive \/ Vanish \/ Elapse \/ Unplug
  BY <1>1, <1>2, OutsideStep DEF TalkInv
<1>3. CASE Open
  <2>1. /\ phase = "open" /\ phase' = "idle" /\ inbox' = <<>>
        /\ UNCHANGED <<plugged, coming, data, fields, entry>>
    BY <1>3 DEF Open
  <2>2. WireInv' /\ FieldsInv' /\ Attributed'
    BY <2>1 DEF TalkInv, WireInv, FieldsInv, Attributed
  <2>. QED  BY <1>1, <2>2 DEF TalkInv
<1>4. CASE StartTask
  <2>1. /\ phase = "idle" /\ phase' = "send" /\ step' = 1 /\ fields' = <<>>
        /\ UNCHANGED <<plugged, turn, inbox, coming, data, entry>>
    BY <1>4 DEF StartTask
  <2>2. Slave \in Slaves /\ Len(Plan[Slave]) \in Nat
    BY Given, SlaveKnown DEF TalkInv, LineTypeOK
  <2>3. WireInv' /\ FieldsInv' /\ Attributed'
    BY <2>1, <2>2 DEF TalkInv, WireInv, FieldsInv, Attributed, Slave
  <2>. QED  BY <1>1, <2>3 DEF TalkInv
<1>5. CASE SkipTask
  <2>1. phase = "idle" /\ UNCHANGED <<plugged, phase, inbox, coming, data, fields, entry>>
    BY <1>5 DEF SkipTask
  <2>2. WireInv' /\ FieldsInv' /\ Attributed'
    BY <2>1 DEF TalkInv, WireInv, FieldsInv, Attributed
  <2>. QED  BY <1>1, <2>2 DEF TalkInv
<1>6. CASE Send
  BY <1>1, <1>6, SendStep DEF TalkInv
<1>7. CASE Read
  BY <1>1, <1>7, ReadStep DEF TalkInv
<1>8. CASE Accept
  BY <1>1, <1>8, AcceptStep DEF TalkInv
<1>9. CASE TimeOut \/ Reject
  BY <1>1, <1>9, Settled, AbandonStep DEF TimeOut, Reject, TalkInv
<1>10. CASE FailSend \/ FailRead
  <2>1. inbox = <<>> /\ coming = <<>>
    BY <1>10 DEF FailSend, FailRead, TalkInv, WireInv
  <2>. QED  BY <1>1, <1>10, <2>1, AbandonStep DEF FailSend, FailRead, TalkInv
<1>11. CASE Complete
  BY <1>1, <1>11, CompleteStep DEF TalkInv
<1>12. CASE UNCHANGED lineVars
  BY <1>1, <1>12 DEF lineVars, TalkInv, WireInv, FieldsInv, Attributed, Outstanding, Slave
<1>. QED  BY <1>2, <1>3, <1>4, <1>5, <1>6, <1>7, <1>8, <1>9, <1>10, <1>11, <1>12
          DEF LineNext, Program

LEMMA Talk == ASSUME ~ LateAnswers PROVE LineSpec => []TalkInv
<1>. QED  BY TalkInit, TalkStep, PTL DEF LineSpec

(* Although sendData discards no input, nothing of an earlier exchange is     *)
(* left when a request is written - if no answer outlives its time-out.       *)
THEOREM LineQuiet == ASSUME ~ LateAnswers PROVE LineSpec => []QuietLine
<1>1. TalkInv => QuietLine
  BY DEF TalkInv, WireInv, QuietLine
<1>. QED  BY <1>1, Talk, PTL

(* Under the same assumption a task that reports no error returns an answer   *)
(* to each request of its slave's plan, each given to that request, although  *)
(* the adapter compares neither slave nor function code.                      *)
THEOREM AnswersAttributed == ASSUME ~ LateAnswers PROVE LineSpec => []Attributed
<1>1. TalkInv => Attributed
  BY DEF TalkInv
<1>. QED  BY <1>1, Talk, PTL

(* And what is accepted was given to the request outstanding then.            *)
THEOREM AcceptsCurrent == ASSUME ~ LateAnswers PROVE LineSpec => CurrentOnly
<1>1. ASSUME TalkInv, [LineNext]_lineVars, fields' # <<>>, fields' # fields
      PROVE  fields'[Len(fields')].current /\ fields'[Len(fields')].slave = Slave
  <2>1. Accept
    BY <1>1 DEF LineNext, Program, Arrive, Vanish, Elapse, Unplug, Open, StartTask, SkipTask, Send,
         Read, TimeOut, Reject, Complete, FailSend, FailRead, Abandon, lineVars
  <2>2. fields'[Len(fields')] = data[1]
    BY <1>1, <2>1, AcceptedIsOwn, AppendProperties
  <2>. QED  BY <1>1, <2>1, <2>2, AcceptedIsOwn DEF Outstanding, OfRequest
<1>2. TalkInv /\ [LineNext]_lineVars =>
        [fields' # <<>> /\ fields' # fields
            => fields'[Len(fields')].current /\ fields'[Len(fields')].slave = Slave]_lineVars
  BY <1>1
<1>. QED  BY <1>2, Talk, PTL DEF LineSpec, CurrentOnly
=============================================================================
