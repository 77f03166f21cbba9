------------------------------- MODULE NmeaLine -------------------------------
(* An NMEA manager's thread: getData reads whatever the talker says until it  *)
(* pauses (Connection.cpp), Communicator::receive splits that into sentences, *)
(* checks each (Response.cpp) and interprets its fields (Interpreter.cpp).    *)
(* The talker and the wire are external: the listener may begin in the middle *)
(* of a sentence, pieces of sentences may be lost or arrive as noise, and the *)
(* talker may pause anywhere.                                                 *)
EXTENDS Naturals, Sequences, SequencesExt

CONSTANTS
    Talks,          \* what the talker may say: sequences of sentences
    Configured,     \* sentence id -> the types of its fields
    MaxDamage       \* bound: pieces lost or arriving as noise, sentences cut by a pause

Classes == {"number", "text", "empty"}      \* what the text of a field is

ASSUME NmeaAssumption ==
    /\ \A id \in DOMAIN Configured :
          Configured[id] \in Seq({"number", "text"}) /\ Configured[id] # <<>>
    /\ \A said \in Talks :
          /\ said \in Seq(Range(said)) /\ said # <<>>
          /\ \A n \in DOMAIN said :
                said[n].fields \in Seq(Classes) /\ said[n].fields # <<>>
    /\ MaxDamage \in Nat

VARIABLES
    talk,           \* the sentences of this behaviour
    withChecksum,   \* the setting "checksum"
    at,             \* the piece that comes next
    damaged,        \* the pieces that were lost or arrived as noise
    cut,            \* the sentences in which the talker paused
    quiet,          \* whether the talker pauses, for longer than the time-outs
    plugged,        \* whether the serial device is there
    inbox,          \* pieces the kernel holds, unread
    phase,          \* where the manager's thread is
    raw,            \* pieces getData has read
    chunks,         \* the sentences receive has yet to check and interpret
    entries,        \* what receive returns
    given           \* the entries without error that the output was sent

wire == <<at, damaged, cut, quiet>>
nmeaVars == <<talk, withChecksum, wire, plugged, inbox, phase, raw, chunks, entries, given>>

-----------------------------------------------------------------------------
(* The talker and the wire *)

(* A sentence is "$", its text, "*" with the checksum, and CRLF.              *)
Parts == {"$", "text", "*", "CRLF"}
After == [p \in Parts |-> CASE p = "$" -> "text" [] p = "text" -> "*"
                            [] p = "*" -> "CRLF" [] p = "CRLF" -> "$"]

Piece(n, part) == [sentence |-> n, part |-> part]
Noise == Piece(0, "noise")
Pieces == {Noise} \cup [sentence : Nat \ {0}, part : Parts]

(* What was on the wire before the constructor flushed the input is gone.     *)
NmeaInit ==
    /\ talk \in Talks
    /\ withChecksum \in BOOLEAN
    /\ at \in {Piece(1, part) : part \in Parts}
    /\ damaged = IF at.part = "$" THEN {} ELSE {Piece(1, "$")}
    /\ cut = {} /\ quiet = FALSE
    /\ plugged = TRUE
    /\ inbox = <<>> /\ raw = <<>>
    /\ phase = "await"
    /\ chunks = <<>> /\ entries = <<>> /\ given = <<>>

Speaks == /\ plugged /\ at.sentence \in DOMAIN talk
          /\ at' = Piece(at.sentence + (IF at.part = "CRLF" THEN 1 ELSE 0), After[at.part])
          /\ quiet' = FALSE
          /\ UNCHANGED <<talk, withChecksum, cut, plugged, phase, raw, chunks, entries, given>>

Bearable == Cardinality(damaged') + Cardinality(cut') <= MaxDamage

Arrive == Speaks /\ inbox' = Append(inbox, at) /\ UNCHANGED damaged

Damage == /\ Speaks
          /\ \E heard \in {<<>>, <<Noise>>} : inbox' = inbox \o heard
          /\ damaged' = damaged \cup {at}
          /\ Bearable

Pause == /\ ~ quiet /\ quiet' = TRUE
         /\ cut' = IF at.part = "$" THEN cut ELSE cut \cup {at.sentence}
         /\ UNCHANGED <<talk, withChecksum, at, damaged, plugged, inbox, phase, raw, chunks, entries, given>>
         /\ Bearable

Unplug == /\ plugged /\ plugged' = FALSE
          /\ inbox' = <<>>
          /\ UNCHANGED <<talk, withChecksum, wire, phase, raw, chunks, entries, given>>

-----------------------------------------------------------------------------
(* Sentences *)

(* The k-th of a set of positions.                                            *)
Nth(I, k) == CHOOSE i \in I : Cardinality({j \in I : j <= i}) = k

(* What of a sequence is in S, in its order.                                  *)
Kept(s, S) ==
    LET kept == {i \in DOMAIN s : s[i] \in S}
    IN  [k \in 1..Cardinality(kept) |-> s[Nth(kept, k)]]

ChunksAt(pieces, starts) ==
    LET End(k) == IF k = Cardinality(starts) THEN Len(pieces) ELSE Nth(starts, k + 1) - 1
    IN  [k \in 1..Cardinality(starts) |-> SubSeq(pieces, Nth(starts, k), End(k))]

SplitAtEnd(pieces) ==       \* a bug: sentences end at CRLF instead of beginning at "$"
    ChunksAt(pieces, {i \in DOMAIN pieces : i = 1 \/ pieces[i - 1].part = "CRLF"})

(* split: a chunk begins at every "$"; what comes before the first is dropped. *)
Split(pieces) == ChunksAt(pieces, {i \in DOMAIN pieces : pieces[i].part = "$"})

Stars(chunk) == {i \in DOMAIN chunk : chunk[i].part = "*"}

(* checksum: what is between "$" and "*" is the text the checksum was made    *)
(* from; no damage leaves the checksum of a text as it was.                   *)
ChecksumHolds(chunk) ==
    \E i \in Stars(chunk) : SubSeq(chunk, 2, i - 1) = <<Piece(chunk[i].sentence, "text")>>

(* validate *)
Valid(chunk) ==
    /\ Cardinality(Stars(chunk)) <= 1
    /\ chunk[1].part = "$" /\ Last(chunk).part = "CRLF"
    /\ withChecksum => ChecksumHolds(chunk)

(* What is left of a chunk once cleanBack has cut its last token at the "*"   *)
(* or before the CRLF: a "*" with commas after it is not in the last token.   *)
Cleaned(chunk) ==
    LET inLast == {i \in Stars(chunk) :
                      \A j \in DOMAIN chunk : j > i => chunk[j].part # "text"}
    IN  Kept(IF inLast = {} THEN chunk ELSE SubSeq(chunk, 1, Min(inLast) - 1),
             [sentence : Nat, part : {"text", "noise"}])

(* A token of the text, the first of which is the sentence's id.              *)
Token(n, i, class) == [sentence |-> n, field |-> i, class |-> class]

TokensOf(p) ==
    IF p = Noise THEN <<Token(0, 0, "text")>>
      ELSE LET f == talk[p.sentence].fields
           IN  <<Token(p.sentence, 0, "text")>> \o [i \in DOMAIN f |-> Token(p.sentence, i, f[i])]

(* Tokens run into one another where no comma is: a number still converts, as *)
(* std::stod and its like take the digits they find and ignore the rest.      *)
RunOn(token) == Token(0, 0, IF token.class = "number" THEN "number" ELSE "text")

Tokens(c) ==            \* of what cleanBack has left
    LET Own(j) == IF j = 1 THEN TokensOf(c[j]) ELSE Tail(TokensOf(c[j]))
        Joined(j) == IF j = Len(c) \/ Own(j) = <<>> THEN Own(j)
                       ELSE Append(Front(Own(j)), RunOn(Last(Own(j))))
    IN  FlattenSeq([j \in DOMAIN c |-> Joined(j)])

Converts(token, type) == type = "number" => token.class # "text"

AcceptedUncounted(tokens) ==        \* a bug: surplus fields are ignored
    /\ tokens # <<>> /\ tokens[1].sentence # 0
    /\ talk[tokens[1].sentence].id \in DOMAIN Configured
    /\ LET types == Configured[talk[tokens[1].sentence].id]
       IN  \A i \in DOMAIN types : i < Len(tokens) => Converts(tokens[i + 1], types[i])

(* interpreter::parse: the id is known, there are as many fields as           *)
(* configured, and each can be converted.                                     *)
Accepted(tokens) ==
    /\ tokens # <<>> /\ tokens[1].sentence # 0
    /\ talk[tokens[1].sentence].id \in DOMAIN Configured
    /\ LET types == Configured[talk[tokens[1].sentence].id]
       IN  /\ Len(tokens) = Len(types) + 1
           /\ \A i \in DOMAIN types : Converts(tokens[i + 1], types[i])

Error(code) == [error |-> code, sentence |-> 0, fields |-> <<>>]

EntryWithFields(chunk, tokens) ==   \* a bug: an error leaves the fields in the entry
    IF tokens = <<>> THEN Error("NMEA")
      ELSE [error |-> IF Valid(chunk) /\ Accepted(tokens) THEN "none" ELSE "NMEA",
            sentence |-> tokens[1].sentence, fields |-> Tail(tokens)]

Entry(chunk, tokens) ==
    IF Valid(chunk) /\ Accepted(tokens)
      THEN [error |-> "none", sentence |-> tokens[1].sentence, fields |-> Tail(tokens)]
      ELSE Error("NMEA")

-----------------------------------------------------------------------------
(* The manager's thread *)

ReadOnce ==             \* a bug: what comes after the first read is not waited for
    /\ phase = "await" /\ inbox # <<>>
    /\ raw' = raw \o inbox
    /\ inbox' = <<>>
    /\ phase' = "read"
    /\ UNCHANGED <<talk, withChecksum, wire, plugged, chunks, entries, given>>

Read == /\ phase \in {"await", "read"} /\ inbox # <<>>
        /\ raw' = raw \o inbox
        /\ inbox' = <<>>
        /\ phase' = "read"
        /\ UNCHANGED <<talk, withChecksum, wire, plugged, chunks, entries, given>>

Nothing == plugged /\ inbox = <<>> /\ quiet

(* A talker that does not talk is no error.                                   *)
TimeOut == /\ phase = "await" /\ Nothing
           /\ phase' = "receive"
           /\ UNCHANGED <<talk, withChecksum, wire, plugged, inbox, raw, chunks, entries, given>>

ReturnKeepingRaw ==     \* a bug: what was read is read again with what comes next
    /\ phase = "read" /\ Nothing
    /\ chunks' = Split(raw)
    /\ entries' = IF chunks' = <<>> THEN <<Error("NMEA")>> ELSE <<>>
    /\ phase' = "receive"
    /\ UNCHANGED <<talk, withChecksum, wire, plugged, inbox, raw, given>>

(* getData returns; what has no "$" in it is one error.                       *)
Return == /\ phase = "read" /\ Nothing
          /\ chunks' = Split(raw)
          /\ entries' = IF chunks' = <<>> THEN <<Error("NMEA")>> ELSE <<>>
          /\ raw' = <<>>
          /\ phase' = "receive"
          /\ UNCHANGED <<talk, withChecksum, wire, plugged, inbox, given>>

(* One round of the loop in receive: an exception makes an entry of its own   *)
(* and the loop goes on.                                                      *)
Interpret == /\ phase = "receive" /\ chunks # <<>>
             /\ \E words \in {Cleaned(Head(chunks))} : \E tokens \in {Tokens(words)} :
                   entries' = Append(entries, Entry(Head(chunks), tokens))
             /\ chunks' = Tail(chunks)
             /\ UNCHANGED <<talk, withChecksum, wire, plugged, inbox, phase, raw, given>>

(* A call on the device fails: what has been read is lost.                    *)
Fail == /\ phase \in {"await", "read"} /\ ~ plugged
        /\ entries' = <<Error("OS")>>
        /\ raw' = <<>>
        /\ phase' = "receive"
        /\ UNCHANGED <<talk, withChecksum, wire, plugged, inbox, chunks, given>>

(* Manager::run sends what its only task has returned, and starts again.      *)
Deliver == /\ phase = "receive" /\ chunks = <<>>
           /\ given' = given \o Kept(entries, {e \in ToSet(entries) : e.error = "none"})
           /\ entries' = <<>>
           /\ phase' = "await"
           /\ UNCHANGED <<talk, withChecksum, wire, plugged, inbox, raw, chunks>>

Listener == Read \/ TimeOut \/ Return \/ Interpret \/ Fail \/ Deliver

NmeaNext == Listener \/ Arrive \/ Damage \/ Pause \/ Unplug

(* The thread runs, and time passes: the talker either speaks on or pauses.   *)
(* It has an end of sentences, so that it pauses at last.                     *)
NmeaSpec == /\ NmeaInit /\ [][NmeaNext]_nmeaVars
            /\ WF_nmeaVars(Listener) /\ WF_nmeaVars(Arrive \/ Pause)

-----------------------------------------------------------------------------
(* Properties *)

Fits(n) ==              \* sentence n is one the configuration describes
    /\ talk[n].id \in DOMAIN Configured
    /\ LET types == Configured[talk[n].id]
       IN  /\ Len(talk[n].fields) = Len(types)
           /\ \A i \in DOMAIN types : types[i] = "number" => talk[n].fields[i] # "text"

(* Damage reaches the sentence it falls in; the loss of a "$" also the one    *)
(* before, into which the rest then runs on.                                  *)
Spoiled(n) == n \in cut \/ \E p \in damaged : p.sentence = n \/ p = Piece(n + 1, "$")

Given == {given[i].sentence : i \in DOMAIN given}
Underway(n) == \/ \E i \in DOMAIN inbox : inbox[i].sentence = n
               \/ \E i \in DOMAIN raw : raw[i].sentence = n
               \/ \E i \in DOMAIN chunks : chunks[i][1].sentence = n
               \/ \E i \in DOMAIN entries : entries[i].sentence = n

NmeaTypeOK ==
    /\ talk \in Talks \cup {<<>>} /\ withChecksum \in BOOLEAN
    /\ at \in Pieces /\ at.sentence <= Len(talk) + 1
    /\ damaged \subseteq Pieces /\ cut \subseteq DOMAIN talk
    /\ quiet \in BOOLEAN /\ plugged \in BOOLEAN
    /\ inbox \in Seq(Pieces) /\ raw \in Seq(Pieces)
    /\ chunks \in Seq(Seq(Pieces))
    /\ phase \in {"await", "read", "receive"}
    /\ \A e \in ToSet(entries) \cup ToSet(given) :
          /\ e.error \in {"none", "OS", "NMEA"}
          /\ e.error = "none" <=> e.fields # <<>>

(* A sentence with fewer fields than configured, which a later one may        *)
(* complete: the "$" and the checksum that would have kept them apart are     *)
(* lost.                                                                      *)
Completed(n) ==
    /\ Len(talk[n].fields) < Len(Configured[talk[n].id])
    /\ \E m \in DOMAIN talk : m > n /\ {Piece(m, "$"), Piece(m, "*")} \subseteq damaged

(* With checksums, an entry holds the fields of one sentence, all of them and *)
(* each in its place: no damage makes one sentence out of two, but where the  *)
(* first is too short by itself.                                              *)
Unmixed ==
    withChecksum =>
        \A e \in ToSet(given) :
            \/ Fits(e.sentence) /\ e.fields = Tail(TokensOf(Piece(e.sentence, "text")))
            \/ Completed(e.sentence)

(* No sentence is given twice, none after a later one, however the reads cut  *)
(* up what was said.                                                          *)
OnceInOrder == \A i, j \in DOMAIN given : i < j => given[i].sentence < given[j].sentence

(* A sentence said in one breath and not damaged is due, whatever became of   *)
(* its neighbours, ...                                                        *)
Due(n) == plugged /\ n < at.sentence /\ Fits(n) /\ ~ Spoiled(n) /\ n \notin Given

(* ... it is then on its way ...                                              *)
Heard == \A n \in DOMAIN talk : Due(n) => Underway(n)

(* ... and not kept for ever: no sentence is said twice, so that once nothing *)
(* is due all have been given.                                                *)
HeardAtLast == []<>(\A n \in DOMAIN talk : ~ Due(n))
=============================================================================
