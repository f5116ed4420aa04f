-------------------------------- MODULE Logs --------------------------------
(***************************************************************************)
(* Where a log record of this package goes: to the buffer that holds what  *)
(* is logged before a run log exists, to the terminal handler once setup() *)
(* has installed it, and to the run log's handler while it is attached.    *)
(*                                                                         *)
(* The process may make several captures, and a library caller may run     *)
(* checks that never open a log. While the automation runs, descriptor 2   *)
(* is the run log's pipe: what is written to it comes back through the     *)
(* pump and lands in the log file (see RunLog), so the terminal handler is *)
(* pointed at a copy of the real terminal for that time.                   *)
(***************************************************************************)
EXTENDS Integers, Sequences, FiniteSets

CONSTANTS
    MaxCaptures,  \* bound: captures made by the process
    MaxRecords,   \* bound: records logged
    BufferLimit   \* _BUFFER_LIMIT

ASSUME LogsBounds ==
    /\ MaxCaptures \in Nat \ {0}
    /\ MaxRecords \in Nat \ {0}
    /\ BufferLimit \in Nat \ {0}

DEBUG == 1
INFO == 2
WARNING == 3
Levels == {DEBUG, INFO, WARNING}
Off == 4  \* no terminal handler yet

Captures == 1..MaxCaptures
Ids == 1..MaxRecords

VARIABLES
    logged,    \* every record so far: its level, its mark, the capture it belongs to
    buffer,    \* _buffer.records
    terminal,  \* the terminal handler's level, Off before setup()
    stream,    \* where the terminal handler writes: "stderr" or "saved"
    stage,     \* of the capture: "none", "checking", "attached", "redirected", "restored"
    n,         \* the capture, or the last one
    screen,    \* the records the terminal showed
    files      \* per capture: the records in its log file

vars == <<logged, buffer, terminal, stream, stage, n, screen, files>>

Init ==
    /\ logged = <<>>
    /\ buffer = <<>>
    /\ terminal = Off
    /\ stream = "stderr"
    /\ stage = "none"
    /\ n = 0
    /\ screen = <<>>
    /\ files = [m \in Captures |-> <<>>]

-----------------------------------------------------------------------------
\* setup() and set_level(): the second call re-levels the one handler.
Setup(level) ==
    /\ stage = "none"
    /\ terminal' = level
    /\ UNCHANGED <<logged, buffer, stream, stage, n, screen, files>>

\* _StyledTableOwnsIt and the handler's level.
TerminalTakes(level, styled) ==
    /\ terminal # Off
    /\ level >= terminal
    /\ styled => terminal <= DEBUG

\* Rejected variant: a full buffer makes room by forgetting the oldest.
BufferedNewest(id) ==
    IF Len(buffer) < BufferLimit THEN Append(buffer, id) ELSE Append(Tail(buffer), id)

\* Rejected variant: the buffer has no limit.
BufferedAll(id) == Append(buffer, id)

\* _Buffer.emit: a full buffer drops the newcomer.
Buffered(id) == IF Len(buffer) < BufferLimit THEN Append(buffer, id) ELSE buffer

Attached == stage \in {"attached", "redirected", "restored"}
ThroughPipe == stage = "redirected" /\ stream = "stderr"

\* One record. The buffer's handler is never removed, so it takes the record
\* even while a run log does. What the terminal handler writes to a redirected
\* stderr reaches the file a second time instead of the terminal.
Log(level, styled) ==
    LET id == Len(logged) + 1
        told == TerminalTakes(level, styled)
        direct == IF Attached THEN <<id>> ELSE <<>>
        pumped == IF told /\ ThroughPipe THEN <<id>> ELSE <<>>
    IN /\ id \in Ids
       /\ logged' = Append(logged,
              [level |-> level, told |-> told, live |-> Attached,
               of |-> IF stage = "none" THEN 0 ELSE n])
       /\ buffer' = Buffered(id)
       /\ screen' = IF told /\ ~ThroughPipe THEN Append(screen, id) ELSE screen
       /\ files' = IF n = 0 THEN files
                   ELSE [files EXCEPT ![n] = @ \o direct \o pumped]
       /\ UNCHANGED <<terminal, stream, stage, n>>

\* capture() begins: its check is logged before its log exists.
BeginCapture ==
    /\ stage = "none"
    /\ n < MaxCaptures
    /\ n' = n + 1
    /\ stage' = "checking"
    /\ UNCHANGED <<logged, buffer, terminal, stream, screen, files>>

\* A check that is refused, or was only a check, opens no log.
Refused ==
    /\ stage = "checking"
    /\ stage' = "none"
    /\ UNCHANGED <<logged, buffer, terminal, stream, n, screen, files>>

\* Rejected variant: the handler is attached and nothing is replayed.
AttachOnly ==
    /\ stage = "checking"
    /\ stage' = "attached"
    /\ UNCHANGED <<logged, buffer, terminal, stream, n, screen, files>>

\* attach(): add the handler, drain the buffer, replay what it held. The
\* run log's handler takes every level.
Attach ==
    /\ stage = "checking"
    /\ stage' = "attached"
    /\ files' = [files EXCEPT ![n] = @ \o buffer]
    /\ buffer' = <<>>
    /\ UNCHANGED <<logged, terminal, stream, n, screen>>

\* Rejected variant: the terminal handler is left on stderr.
RedirectAll ==
    /\ stage = "attached"
    /\ stage' = "redirected"
    /\ UNCHANGED <<logged, buffer, terminal, stream, n, screen, files>>

\* point_terminal_at the real terminal, if there is a handler to point.
Redirect ==
    /\ stage = "attached"
    /\ stage' = "redirected"
    /\ stream' = IF terminal = Off THEN stream ELSE "saved"
    /\ UNCHANGED <<logged, buffer, terminal, n, screen, files>>

\* The descriptors first, then the stream the handler had.
Restore ==
    /\ stage = "redirected"
    /\ stage' = "restored"
    /\ stream' = "stderr"
    /\ UNCHANGED <<logged, buffer, terminal, n, screen, files>>

\* finish() detaches; a run may also end before the automation is entered.
Detach ==
    /\ stage \in {"attached", "restored"}
    /\ stage' = "none"
    /\ UNCHANGED <<logged, buffer, terminal, stream, n, screen, files>>

Next ==
    \/ \E level \in Levels : Setup(level)
    \/ \E level \in Levels, styled \in BOOLEAN : Log(level, styled)
    \/ BeginCapture
    \/ Refused
    \/ Attach
    \/ Redirect
    \/ Restore
    \/ Detach

Spec == Init /\ [][Next]_vars

-----------------------------------------------------------------------------
HasLog(m) == m < n \/ (m = n /\ Attached)
Rising(s) == \A i, j \in 1..Len(s) : i < j => s[i] < s[j]
Elements(s) == {s[i] : i \in 1..Len(s)}

\* Every variable keeps its type.
TypeOK ==
    /\ \A i \in 1..Len(logged) :
           /\ logged[i].level \in Levels
           /\ {logged[i].told, logged[i].live} \subseteq BOOLEAN
           /\ logged[i].of \in 0..MaxCaptures
    /\ Elements(buffer) \subseteq Ids /\ Len(buffer) <= BufferLimit
    /\ terminal \in Levels \cup {Off}
    /\ stream \in {"stderr", "saved"}
    /\ stage \in {"none", "checking", "attached", "redirected", "restored"}
    /\ n \in 0..MaxCaptures
    /\ Elements(screen) \subseteq Ids
    /\ \A m \in Captures : Elements(files[m]) \subseteq Ids

\* The log file holds records in the order they were made, none of them
\* twice: neither the replay nor the pump repeats one.
FileInOrder == \A m \in Captures : Rising(files[m])

\* The terminal shows exactly the records its level lets through, once each
\* and in order, also while the automation has its descriptors.
TerminalTold ==
    /\ Rising(screen)
    /\ Elements(screen) = {i \in 1..Len(logged) : logged[i].told}

\* Every record made while a capture's log was open is in that log, whatever
\* its level; and unless the buffer overflowed, so is every record made before,
\* as soon as there is a log to put it in.
NothingForgotten ==
    /\ \A i \in 1..Len(logged) :
           logged[i].live => i \in Elements(files[logged[i].of])
    /\ Len(logged) <= BufferLimit =>
           \A i \in 1..Len(logged) :
               \/ i \in UNION {Elements(files[m]) : m \in Captures}
               \/ ~Attached /\ i \in Elements(buffer)
=============================================================================
