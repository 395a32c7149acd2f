------------------------------ MODULE SmtpData ------------------------------
(***************************************************************************)
(* How both SMTP servers read a message after DATA (readData of            *)
(* internal/smtpsubmission/server.go and internal/smtpforwarding/          *)
(* server.go): in fragments of a buffered reader, line by line, removing   *)
(* the dot that a client puts before a line that starts with one, up to    *)
(* the line that is a single dot.                                          *)
(*                                                                         *)
(* Bytes are a dot, any other character, carriage return and line feed.    *)
(***************************************************************************)
EXTENDS Naturals, Sequences

CONSTANTS
    BufferSize,      \* bytes the buffered reader holds
    MaxMessageBytes

\* A fragment holds the final line at least: bufio has no buffer of less than
\* 16 bytes.
ASSUME DataAssumption == BufferSize \in Nat /\ BufferSize >= 3 /\ MaxMessageBytes \in Nat

VARIABLES
    wire,          \* bytes that have been sent and not been read
    data,          \* the buffer of readData
    tooLarge,
    firstFragment

dataVars == <<wire, data, tooLarge, firstFragment>>

Dot == "."
CR == "cr"
LF == "lf"

\* Reads the bytes sent from here on.
StartReading(bytes) ==
    /\ wire' = bytes
    /\ data' = <<>>
    /\ tooLarge' = FALSE
    /\ firstFragment' = TRUE

NotReading == wire = <<>> /\ data = <<>> /\ tooLarge = FALSE /\ firstFragment = TRUE
StopReading == StartReading(<<>>)

\* Where the first line of the bytes ends; 0 when its end has not been sent.
LineEnd(bytes) ==
    LET ends == {i \in DOMAIN bytes : bytes[i] = LF}
    IN  IF ends = {} THEN 0 ELSE CHOOSE i \in ends : \A j \in ends : i <= j

\* Whether the next fragment is the rest of a line.
lineComplete == LineEnd(wire) \in 1..BufferSize

\* ReadSlice('\n'): up to the end of the line, or a full buffer.
Fragment == SubSeq(wire, 1, IF lineComplete THEN LineEnd(wire) ELSE BufferSize)

isSMTPDataTerminator(line) == line = <<Dot, CR, LF>> \/ line = <<Dot, LF>>

\* A faulty form of the test below: any fragment can be the last line.
AtTerminatorAnyFragment == lineComplete /\ isSMTPDataTerminator(Fragment)

AtTerminator == firstFragment /\ lineComplete /\ isSMTPDataTerminator(Fragment)

Unstuffed(fragment) ==
    IF firstFragment /\ Len(fragment) >= 2 /\ fragment[1] = Dot /\ fragment[2] = Dot
    THEN Tail(fragment)
    ELSE fragment

\* One turn of the loop, for a fragment that is not the terminator.
ReadFragment ==
    LET fragment == Unstuffed(Fragment)
        full == Len(data) + Len(fragment) > MaxMessageBytes
    IN  /\ ~AtTerminator
        /\ lineComplete \/ Len(wire) >= BufferSize
        /\ wire' = SubSeq(wire, Len(Fragment) + 1, Len(wire))
        /\ firstFragment' = lineComplete
        /\ tooLarge' = (tooLarge \/ full)
        /\ data' = IF tooLarge \/ full THEN data ELSE data \o fragment

-----------------------------------------------------------------------------
(* The client's side, external: a text is a sequence of lines. *)

Bytes == {Dot, "x", CR, LF}

\* A line ends with its only line feed.
Line == {bytes \in Seq(Bytes) :
            bytes # <<>> /\ \A i \in DOMAIN bytes : bytes[i] = LF <=> i = Len(bytes)}

\* The lines one after the other.
Flat(lines) ==
    LET upTo[n \in 0..Len(lines)] == IF n = 0 THEN <<>> ELSE upTo[n - 1] \o lines[n]
    IN  upTo[Len(lines)]

Stuffed(line) == IF line[1] = Dot THEN <<Dot>> \o line ELSE line

\* What a client sends for a text.
Encoded(lines) == Flat([i \in DOMAIN lines |-> Stuffed(lines[i])]) \o <<Dot, CR, LF>>
=============================================================================
