----------------------------- MODULE LineReader -----------------------------
(***************************************************************************)
(* The receiving side of a wired line: bytes arrive in any portions, the   *)
(* transport assembles lines from them and recovers from lines that are    *)
(* too long, Server::poll hands each line to the codec as a request, the   *)
(* client as a response.  The Arduino stream reports an overlong line when *)
(* it ends, the desktop transports (iostream and stdio) as soon as a poll  *)
(* meets it.                                                               *)
(***************************************************************************)
EXTENDS Codec

CONSTANTS
  Request,    \* the requests a client writes
  Response,   \* the responses a server writes
  Keys,       \* their keys in the order of std::map
  Noise,      \* bytes that reach the line otherwise
  MaxNoise,   \* bound: that many noise bytes
  MaxSent     \* bound: bytes written since the last clearInput

(* The codec has no escapes: texts of messages hold no "&" of their own,    *)
(* and no "=" in a key, and are printable.                                  *)
Key(k) ==
  /\ k \in Text /\ k # <<>> /\ Trim(k) = k
  /\ \A i \in DOMAIN k : k[i] \notin {Ampersand, Equals} \cup Unprintable

Value(v) == v \in Text /\ \A i \in DOMAIN v : v[i] \notin {Ampersand} \cup Unprintable

Parameters(fields) ==
  \A k \in DOMAIN fields : Value(fields[k]) /\ \E i \in DOMAIN Keys : k = Keys[i]

ASSUME LineReaderAssumption ==
  /\ {Question, Ampersand, Equals} \subseteq Character \ Unprintable
  /\ Value(Succeeded) /\ Value(Failed)
  /\ Keys \in Seq(Text)
  /\ \A i \in DOMAIN Keys : Key(Keys[i]) /\ \A j \in DOMAIN Keys : Keys[i] = Keys[j] => i = j
  /\ \A k \in {TypeKey, StatusKey, ErrorKey} : \E i \in DOMAIN Keys : k = Keys[i]
  /\ \A q \in Request : q = [k \in DOMAIN q |-> q[k]] /\ Parameters(q) /\ TypeKey \in DOMAIN q
  /\ \A q \in Response : q.ok \in BOOLEAN /\ Value(q.error) /\ Parameters(q.parameters)
  /\ Noise \cup {NewLine} \subseteq Character
  /\ MaxNoise \in Nat /\ MaxSent \in Nat

VARIABLES
  side,        \* who reads, the server or the client
  eager,       \* the transport is a desktop one
  buffer,      \* buffer_
  overflowed,  \* overflowed_
  wire,        \* bytes not yet read
  sent,        \* history: all bytes written since the last clearInput
  heard,       \* history: what the reader made of them
  noise        \* the number of noise bytes so far

vars == <<side, eager, buffer, overflowed, wire, sent, heard, noise>>

TooLong == [kind |-> "too long", fields |-> <<>>]

Message(reader) == IF reader = "server" THEN Request ELSE Response

Build(reader, message) ==
  IF reader = "server" THEN BuildRequest(message, Keys) ELSE BuildResponse(message, Keys)

Parse(reader, text) == IF reader = "server" THEN ParseRequest(text) ELSE ParseResponse(text)

Init ==
  /\ side \in {"server", "client"} /\ eager \in BOOLEAN
  /\ buffer = <<>> /\ overflowed = FALSE
  /\ wire = <<>> /\ sent = <<>> /\ heard = <<>> /\ noise = 0

-----------------------------------------------------------------------------
(* readLineImpl, a byte at a time.  r.result is the message or TooLong once *)
(* the loop has returned, r.read counts the bytes it took.                  *)

Reading == [buffer |-> buffer, overflowed |-> overflowed, detected |-> FALSE,
            result |-> <<>>, read |-> 0]

LineEnds(r) ==
  IF r.overflowed
  THEN [r EXCEPT !.overflowed = FALSE,
                 !.result = IF ~eager \/ r.detected THEN <<TooLong>> ELSE <<>>]
  ELSE [r EXCEPT !.buffer = <<>>,
                 !.result = IF Trim(r.buffer) = <<>> THEN <<>>
                            ELSE <<Parse(side, Strip(r.buffer))>>]

(* Faulty variant: an overlong line is cut, and its rest taken for a line.  *)
TakeByteCut(r, c) ==
  IF c \in Terminator THEN LineEnds(r)
  ELSE IF Len(r.buffer) >= MaxLine THEN [r EXCEPT !.buffer = <<>>, !.detected = TRUE,
                                                  !.result = <<TooLong>>]
  ELSE [r EXCEPT !.buffer = Keep(@, c)]

TakeByte(r, c) ==
  IF c \in Terminator THEN LineEnds(r)
  ELSE IF r.overflowed THEN r
  ELSE IF Len(r.buffer) >= MaxLine THEN [r EXCEPT !.buffer = <<>>, !.overflowed = TRUE,
                                                  !.detected = TRUE]
  ELSE [r EXCEPT !.buffer = Keep(@, c)]

(* The loop over the bytes available, and its last line.                    *)
Step(r, c) == IF r.result # <<>> THEN r ELSE [TakeByte(r, c) EXCEPT !.read = @ + 1]

ReadLine(available) ==
  LET loop[n \in 0..Len(available)] ==
        IF n = 0 THEN Reading ELSE Step(loop[n - 1], available[n])
      end == loop[Len(available)]
  IN IF end.result = <<>> /\ eager /\ end.detected
     THEN [end EXCEPT !.result = <<TooLong>>] ELSE end

-----------------------------------------------------------------------------
(* writeLine of the other side: the text is stripped and terminated.        *)
Write(message) ==
  LET line == Strip(Build(side, message)) \o <<NewLine>>
  IN /\ Len(sent) + Len(line) <= MaxSent
     /\ wire' = wire \o line
     /\ sent' = sent \o line
     /\ UNCHANGED <<side, eager, buffer, overflowed, heard, noise>>

Disturb(c) ==
  /\ noise < MaxNoise /\ Len(sent) < MaxSent
  /\ noise' = noise + 1
  /\ wire' = Append(wire, c)
  /\ sent' = Append(sent, c)
  /\ UNCHANGED <<side, eager, buffer, overflowed, heard>>

(* A read by Server::poll or the client when n bytes have arrived.          *)
Poll(n) ==
  LET r == ReadLine(SubSeq(wire, 1, n))
  IN /\ buffer' = r.buffer
     /\ overflowed' = r.overflowed
     /\ wire' = SubSeq(wire, r.read + 1, Len(wire))
     /\ heard' = heard \o r.result
     /\ UNCHANGED <<side, eager, sent, noise>>

(* clearInput of the Arduino stream: what has arrived is forgotten.         *)
ClearInput(n) ==
  /\ ~eager
  /\ buffer' = <<>> /\ overflowed' = FALSE
  /\ wire' = SubSeq(wire, n + 1, Len(wire))
  /\ sent' = wire' /\ heard' = <<>>
  /\ UNCHANGED <<side, eager, noise>>

Next ==
  \/ \E message \in Message(side) : Write(message)
  \/ \E c \in Noise : Disturb(c)
  \/ \E n \in 1..Len(wire) : Poll(n)
  \/ \E n \in 0..Len(wire) : ClearInput(n)

Spec == Init /\ [][Next]_vars

-----------------------------------------------------------------------------
(* What a line is, told from the whole of the bytes.                        *)

(* The bytes before `end' that follow the terminator before it.             *)
LineUpTo(text, end) ==
  SubSeq(text, 1 + Max({0} \cup {i \in 1..(end - 1) : text[i] \in Terminator}), end - 1)

Oversized(line) ==
  line # <<>> /\ Len(Printable(SubSeq(line, 1, Len(line) - 1))) >= MaxLine

(* A message with the fields it was written with.                          *)
AsWritten(reader, message) ==
  LET fields == IF reader = "server" THEN message ELSE ResponseFields(message)
      kind == IF reader = "server" THEN "parsed" ELSE IF message.ok THEN "ok" ELSE "failed"
  IN [kind |-> kind, fields |-> [k \in DOMAIN fields |-> Trim(fields[k])]]

Meaning(reader, line) ==
  IF Oversized(line) THEN <<TooLong>>
  ELSE IF Strip(line) = <<>> THEN <<>>
  ELSE LET written == {q \in Message(reader) : Strip(line) = Strip(Build(reader, q))}
       IN IF written # {} THEN <<AsWritten(reader, CHOOSE q \in written : TRUE)>>
          ELSE <<Parse(reader, Strip(line))>>

(* What a text says to the reader, a line at each terminator.               *)
After(reader, text, i, said) ==
  IF text[i] \in Terminator THEN said \o Meaning(reader, LineUpTo(text, i)) ELSE said

Said(reader, text) ==
  LET upTo[i \in 0..Len(text)] == IF i = 0 THEN <<>> ELSE After(reader, text, i, upTo[i - 1])
  IN upTo[Len(text)]

(* However the bytes are portioned, every line is heard exactly once and in *)
(* order: a message with the fields it was written with, an overlong line   *)
(* as one error with nothing of it taken for a line of its own; and a line  *)
(* spoilt by noise costs no line after it.  A desktop transport may report  *)
(* the overlong line it is in before it ends.                               *)
EveryLineOnce ==
  LET read == SubSeq(sent, 1, Len(sent) - Len(wire))
      tail == LineUpTo(read, Len(read) + 1)
  IN heard = Said(side, read) \o IF eager /\ Oversized(tail) THEN <<TooLong>> ELSE <<>>
=============================================================================
