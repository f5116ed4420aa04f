------------------------------- MODULE RunLog -------------------------------
(***************************************************************************)
(* The run log of captures made one after another by one process: its      *)
(* header, its body and its footer, and the redirection that feeds it.     *)
(*                                                                         *)
(* RunLog.capturing() puts a pipe in place of file descriptors 1 and 2 and *)
(* starts a pump thread that reads the pipe, echoes each chunk to the      *)
(* saved terminal descriptor under --verbose, and writes whole lines to    *)
(* the log under a lock. Afterwards the main thread restores the           *)
(* descriptors, closes its write end, waits at most ten seconds for the    *)
(* pump and goes on. A process started by the automation that outlives it  *)
(* still holds the pipe, so the pump may still be running while the main   *)
(* thread closes the descriptors it uses, writes the footer, closes the    *)
(* log, or starts the next capture. Descriptors are numbers here, given    *)
(* out lowest first as the kernel does, because the pump keeps a number.   *)
(***************************************************************************)
EXTENDS Integers, Sequences, FiniteSets

CONSTANTS
    MaxCaptures,   \* bound: captures made by the process
    Echo,          \* the captures made with --verbose
    PipeCapacity,  \* chunks a pipe holds before its writers block
    MaxWrites,     \* bound: chunks written to the pipe of one capture
    MaxKids,       \* bound: processes the automation starts in one capture
    MaxRecords,    \* bound: files read or written, and recorded, in all
    MaxFd          \* bound: the highest descriptor

ASSUME RunLogBounds ==
    /\ {MaxCaptures, PipeCapacity, MaxWrites} \subseteq Nat \ {0}
    /\ {MaxKids, MaxRecords} \subseteq Nat
    /\ MaxFd \in Nat /\ MaxFd >= MaxCaptures + 8  \* the table never runs full
    /\ Echo \subseteq 1..MaxCaptures

Captures == 1..MaxCaptures
Fds == 0..MaxFd

\* What a descriptor refers to: an object and the capture it belongs to.
Free == <<"free", 0>>
Terminal == <<"terminal", 0>>
Scratch == <<"file", 0>>
LogOf(n) == <<"log", n>>
ReadEnd(n) == <<"read", n>>
WriteEnd(n) == <<"write", n>>

\* A piece of output: the capture whose automation wrote it, its place in
\* what that automation wrote, and whether a newline ends it. Header, footer
\* and our own records are pieces too.
Piece(kind, n, i, nl) == [kind |-> kind, of |-> n, place |-> i, nl |-> nl]
Header(n) == Piece("header", n, 0, TRUE)
Footer(n) == Piece("footer", n, 0, TRUE)
Record(n) == Piece("record", n, 0, TRUE)

VARIABLES
    main,     \* where the main thread is
    n,        \* the capture it is in, or was in last
    fds,      \* the process's descriptor table
    held,     \* per capture: the descriptor numbers its RunLog keeps
    kids,     \* per capture: processes that inherited its pipe as stdout
    sent,     \* per capture: pieces its automation has written
    pipe,     \* per capture: what is in its pipe
    pump,     \* per capture: where its pump thread is
    text,     \* per capture: what the pump has read and not yet written
    fresh,    \* per capture: the chunk read last, to be echoed
    echoing,  \* per capture: the pump still has an echo_fd
    log,      \* per capture: the file
    open,     \* per capture: RunLog._handle is not None
    late      \* per capture: join() gave up on the pump

mainVars == <<main, n, held, log, open, late>>
vars == <<main, n, fds, held, kids, sent, pipe, pump, text, fresh, echoing,
          log, open, late>>

-----------------------------------------------------------------------------
\* The kernel hands out the lowest free descriptor, so what is opened first
\* gets the first free one, what is opened next the second, and so on.
FreeFd(k) ==
    CHOOSE f \in Fds : fds[f] = Free /\ Cardinality({g \in 0..f : fds[g] = Free}) = k
Opened(object) == [fds EXCEPT ![FreeFd(1)] = object]

Closed(F, numbers) == [f \in Fds |-> IF f \in numbers THEN Free ELSE F[f]]

\* Whether anyone still holds the pipe of capture m open for writing.
HoldsPipe(m) == kids[m] > 0 \/ \E f \in Fds : fds[f] = WriteEnd(m)

StartFds == [f \in Fds |-> IF f \in {0, 1, 2} THEN Terminal ELSE Free]
NoFds == [log |-> 0, read |-> 0, write |-> 0, out |-> 0, err |-> 0, term |-> 0]

\* _write_bytes: under the lock, and dropped once the handle is None.
Written(m, pieces) == IF open[m] THEN log[m] \o pieces ELSE log[m]

Init ==
    /\ main = "idle"
    /\ n = 0
    /\ fds = StartFds
    /\ held = [m \in Captures |-> NoFds]
    /\ kids = [m \in Captures |-> 0]
    /\ sent = [m \in Captures |-> 0]
    /\ pipe = [m \in Captures |-> <<>>]
    /\ pump = [m \in Captures |-> "off"]
    /\ text = [m \in Captures |-> <<>>]
    /\ fresh = [m \in Captures |-> <<>>]
    /\ echoing = [m \in Captures |-> FALSE]
    /\ log = [m \in Captures |-> <<>>]
    /\ open = [m \in Captures |-> FALSE]
    /\ late = [m \in Captures |-> FALSE]

-----------------------------------------------------------------------------
(***************************************************************************)
(* The main thread.                                                        *)
(***************************************************************************)
\* RunLog.open and _begin: the file, and the header.
OpenLog ==
    /\ main = "idle"
    /\ n < MaxCaptures
    /\ n' = n + 1
    /\ fds' = Opened(LogOf(n + 1))
    /\ held' = [held EXCEPT ![n + 1].log = FreeFd(1)]
    /\ open' = [open EXCEPT ![n + 1] = TRUE]
    /\ log' = [log EXCEPT ![n + 1] = <<Header(n + 1)>>]
    /\ main' = "logged"
    /\ UNCHANGED <<kids, sent, pipe, pump, text, fresh, echoing, late>>

\* The order capturing() opens them in: os.pipe, two os.dup, then the
\* terminal handler's own copy.
CapturingFds ==
    [log |-> held[n].log, read |-> FreeFd(1), write |-> FreeFd(2), out |-> FreeFd(3),
     err |-> FreeFd(4), term |-> FreeFd(5)]

\* Entering capturing(): the pipe, the saved descriptors, the pump thread,
\* the terminal handler's own copy, and dup2 over descriptors 1 and 2.
EnterCapturing ==
    LET new == CapturingFds IN
    /\ main = "logged"
    /\ held' = [held EXCEPT ![n] = new]
    /\ fds' = [fds EXCEPT ![new.read] = ReadEnd(n), ![new.write] = WriteEnd(n),
                          ![new.out] = Terminal, ![new.err] = Terminal,
                          ![new.term] = Terminal,
                          ![1] = WriteEnd(n), ![2] = WriteEnd(n)]
    /\ pump' = [pump EXCEPT ![n] = "read"]
    /\ echoing' = [echoing EXCEPT ![n] = n \in Echo]
    /\ main' = "calling"
    /\ UNCHANGED <<n, kids, sent, pipe, text, fresh, log, open, late>>

\* The run ends before the automation is entered (mlc-scripts is missing).
SkipCapturing ==
    /\ main = "logged"
    /\ main' = "after"
    /\ UNCHANGED <<n, fds, held, kids, sent, pipe, pump, text, fresh, echoing,
                   log, open, late>>

\* Rejected variant: only standard output is put back.
LeaveWithStderr ==
    /\ main = "calling"
    /\ fds' = [Closed(fds, {held[n].term, held[n].write}) EXCEPT ![1] = Terminal]
    /\ main' = "join"
    /\ UNCHANGED <<n, held, kids, sent, pipe, pump, text, fresh, echoing, log, open, late>>

\* The finally clause up to pump.join, however mlc.access ended: the terminal
\* is put back, its copy and our write end are closed.
LeaveCapturing ==
    /\ main = "calling"
    /\ fds' = [Closed(fds, {held[n].term, held[n].write})
                  EXCEPT ![1] = Terminal, ![2] = Terminal]
    /\ main' = "join"
    /\ UNCHANGED <<n, held, kids, sent, pipe, pump, text, fresh, echoing, log, open, late>>

\* Rejected variant: the pump is not waited for.
NoJoin ==
    /\ main = "join"
    /\ main' = "saved"
    /\ UNCHANGED <<n, fds, held, kids, sent, pipe, pump, text, fresh, echoing,
                   log, open, late>>

JoinPump ==
    /\ main = "join"
    /\ pump[n] = "gone"
    /\ main' = "saved"
    /\ UNCHANGED <<n, fds, held, kids, sent, pipe, pump, text, fresh, echoing,
                   log, open, late>>

\* Rejected variant: join() has no timeout.
NeverGiveUp == FALSE /\ UNCHANGED vars

\* Ten seconds pass. They are enough to drain a pipe whose writers are gone,
\* so this happens only while a process still holds it.
JoinTimesOut ==
    /\ main = "join"
    /\ pump[n] # "gone"
    /\ kids[n] > 0
    /\ late' = [late EXCEPT ![n] = TRUE]
    /\ main' = "saved"
    /\ UNCHANGED <<n, fds, held, kids, sent, pipe, pump, text, fresh, echoing, log, open>>

CloseSaved ==
    /\ main = "saved"
    /\ fds' = Closed(fds, {held[n].out, held[n].err})
    /\ main' = "after"
    /\ UNCHANGED <<n, held, kids, sent, pipe, pump, text, fresh, echoing, log, open, late>>

Records ==
    Cardinality(UNION {{<<m, i>> : i \in {j \in DOMAIN log[m] : log[m][j].kind = "record"}} :
                          m \in Captures})

\* Reading the raw file and writing the deliverable, one file at a time, and
\* the record that follows each (_Handler.emit writes it to the log).
OpenFile ==
    /\ main = "after"
    /\ Records < MaxRecords
    /\ fds' = Opened(Scratch)
    /\ main' = "file"
    /\ UNCHANGED <<n, held, kids, sent, pipe, pump, text, fresh, echoing, log, open, late>>

CloseFile ==
    /\ main = "file"
    /\ fds' = Closed(fds, {f \in Fds : fds[f] = Scratch})
    /\ log' = [log EXCEPT ![n] = Written(n, <<Record(n)>>)]
    /\ main' = "after"
    /\ UNCHANGED <<n, held, kids, sent, pipe, pump, text, fresh, echoing, open, late>>

\* finish(): the footer first, then detach, then the handle under the lock.
WriteFooter ==
    /\ main = "after"
    /\ log' = [log EXCEPT ![n] = Written(n, <<Footer(n)>>)]
    /\ main' = "footed"
    /\ UNCHANGED <<n, fds, held, kids, sent, pipe, pump, text, fresh, echoing, open, late>>

CloseLog ==
    /\ main = "footed"
    /\ open' = [open EXCEPT ![n] = FALSE]
    /\ fds' = Closed(fds, {held[n].log})
    /\ main' = "idle"
    /\ UNCHANGED <<n, held, kids, sent, pipe, pump, text, fresh, echoing, log, late>>

-----------------------------------------------------------------------------
(***************************************************************************)
(* The automation and the processes it starts.                             *)
(***************************************************************************)
Output(m, nl) ==
    /\ sent[m] < MaxWrites
    /\ Len(pipe[m]) < PipeCapacity
    /\ sent' = [sent EXCEPT ![m] = @ + 1]
    /\ pipe' = [pipe EXCEPT ![m] = Append(@, Piece("out", m, sent[m] + 1, nl))]
    /\ UNCHANGED <<mainVars, fds, kids, pump, text, fresh, echoing>>

AutomationWrites(nl) == main = "calling" /\ Output(n, nl)

KidWrites(m, nl) == kids[m] > 0 /\ Output(m, nl)

Spawn ==
    /\ main = "calling"
    /\ kids[n] < MaxKids
    /\ kids' = [kids EXCEPT ![n] = @ + 1]
    /\ UNCHANGED <<mainVars, fds, sent, pipe, pump, text, fresh, echoing>>

KidExits(m) ==
    /\ kids[m] > 0
    /\ kids' = [kids EXCEPT ![m] = @ - 1]
    /\ UNCHANGED <<mainVars, fds, sent, pipe, pump, text, fresh, echoing>>

-----------------------------------------------------------------------------
(***************************************************************************)
(* The pump thread of capture m.                                           *)
(***************************************************************************)
\* What follows a read: the whole lines first, then the next read.
Onward(pieces) == IF \E i \in DOMAIN pieces : pieces[i].nl THEN "emit" ELSE "read"

ReadInto(m, pieces) ==
    /\ pump[m] = "read"
    /\ pipe[m] # <<>>
    /\ text' = [text EXCEPT ![m] = pieces]
    /\ fresh' = [fresh EXCEPT ![m] = IF echoing[m] THEN pipe[m] ELSE <<>>]
    /\ pipe' = [pipe EXCEPT ![m] = <<>>]
    /\ pump' = [pump EXCEPT ![m] = IF echoing[m] THEN "echo" ELSE Onward(pieces)]
    /\ UNCHANGED <<mainVars, fds, kids, sent, echoing>>

\* Rejected variant: an unfinished line is forgotten at the next read.
ReadAfresh(m) == ReadInto(m, pipe[m])

\* os.read takes everything in the pipe: _READ_SIZE is a pipe's capacity.
ReadChunk(m) == ReadInto(m, text[m] \o pipe[m])

\* Rejected variant: a terminal that went away ends the pump.
EchoOrStop(m) ==
    /\ pump[m] = "echo"
    /\ pump' = [pump EXCEPT ![m] =
          IF fds[held[m].out] = Free THEN "stopped" ELSE Onward(text[m])]
    /\ UNCHANGED <<mainVars, fds, kids, sent, pipe, text, fresh, echoing>>

\* os.write to the number kept in echo_fd, whatever it refers to by now: the
\* terminal, or a later capture's pipe; where it fails, nothing being there or
\* the end that a later pump reads, echoing is off. It is never a later log: that
\* is opened first and takes a number below those of every pipe and every copy.
EchoChunk(m) ==
    LET object == fds[held[m].out]
        later == {k \in Captures : object = WriteEnd(k)}
    IN /\ pump[m] = "echo"
       /\ \A k \in later : Len(pipe[k]) < PipeCapacity
       /\ pipe' = [k \in Captures |-> IF k \in later THEN pipe[k] \o fresh[m] ELSE pipe[k]]
       /\ echoing' = [echoing EXCEPT ![m] =
              object \notin {Free} \cup {ReadEnd(k) : k \in Captures}]
       /\ fresh' = [fresh EXCEPT ![m] = <<>>]
       /\ pump' = [pump EXCEPT ![m] = Onward(text[m])]
       /\ UNCHANGED <<mainVars, fds, kids, sent, text>>

\* One whole line to the log.
EmitLine(m) ==
    LET end == CHOOSE i \in DOMAIN text[m] :
                   text[m][i].nl /\ \A j \in 1..(i - 1) : ~text[m][j].nl
        rest == SubSeq(text[m], end + 1, Len(text[m]))
    IN /\ pump[m] = "emit"
       /\ log' = [log EXCEPT ![m] = Written(m, SubSeq(text[m], 1, end))]
       /\ text' = [text EXCEPT ![m] = rest]
       /\ pump' = [pump EXCEPT ![m] = Onward(rest)]
       /\ UNCHANGED <<main, n, fds, held, kids, sent, pipe, fresh, echoing, open, late>>

\* Rejected variant: the pump does not close its end of the pipe.
PumpEndsOpen(m) ==
    /\ pump[m] = "read"
    /\ pipe[m] = <<>>
    /\ ~HoldsPipe(m)
    /\ log' = [log EXCEPT ![m] = Written(m, text[m])]
    /\ text' = [text EXCEPT ![m] = <<>>]
    /\ pump' = [pump EXCEPT ![m] = "gone"]
    /\ UNCHANGED <<main, n, fds, held, kids, sent, pipe, fresh, echoing, open, late>>

\* End of file: nothing to read and nobody left to write. The unfinished
\* line goes to the log too.
PumpEnds(m) ==
    /\ pump[m] = "read"
    /\ pipe[m] = <<>>
    /\ ~HoldsPipe(m)
    /\ log' = [log EXCEPT ![m] = Written(m, text[m])]
    /\ text' = [text EXCEPT ![m] = <<>>]
    /\ fds' = Closed(fds, {held[m].read})
    /\ pump' = [pump EXCEPT ![m] = "gone"]
    /\ UNCHANGED <<main, n, held, kids, sent, pipe, fresh, echoing, open, late>>

-----------------------------------------------------------------------------
Main ==
    \/ EnterCapturing
    \/ SkipCapturing
    \/ LeaveCapturing
    \/ JoinPump
    \/ JoinTimesOut
    \/ CloseSaved
    \/ CloseFile
    \/ WriteFooter
    \/ CloseLog

Pump(m) ==
    \/ ReadChunk(m)
    \/ EchoChunk(m)
    \/ EmitLine(m)
    \/ PumpEnds(m)

Outside ==
    \/ \E nl \in BOOLEAN : AutomationWrites(nl)
    \/ Spawn
    \/ \E m \in Captures, nl \in BOOLEAN : KidWrites(m, nl)
    \/ \E m \in Captures : KidExits(m)

Next ==
    \/ OpenLog
    \/ Main
    \/ OpenFile
    \/ \E m \in Captures : Pump(m)
    \/ Outside

Spec == Init /\ [][Next]_vars

\* The threads are scheduled and mlc.access returns; a process it started
\* may live for ever, and no one has to write anything.
FairSpec == Spec /\ WF_vars(Main) /\ \A m \in Captures : WF_vars(Pump(m))

-----------------------------------------------------------------------------
Kinds == {"header", "record", "footer", "out"}
IsPiece(p) == p.kind \in Kinds /\ p.of \in Captures /\ p.place \in 0..MaxWrites /\ p.nl \in BOOLEAN
IsText(s) == \A i \in 1..Len(s) : IsPiece(s[i])

\* Every variable keeps its type.
TypeOK ==
    /\ main \in {"idle", "logged", "calling", "join", "saved", "after", "file", "footed"}
    /\ n \in 0..MaxCaptures
    /\ \A f \in Fds : fds[f] \in {Free, Terminal, Scratch} \cup
           UNION {{LogOf(m), ReadEnd(m), WriteEnd(m)} : m \in Captures}
    /\ \A m \in Captures :
           /\ \A name \in DOMAIN NoFds : held[m][name] \in Fds
           /\ kids[m] \in 0..MaxKids
           /\ sent[m] \in 0..MaxWrites
           /\ IsText(pipe[m]) /\ IsText(text[m]) /\ IsText(fresh[m]) /\ IsText(log[m])
           /\ pump[m] \in {"off", "read", "echo", "emit", "gone"}
           /\ {echoing[m], open[m], late[m]} \subseteq BOOLEAN

\* The output in s is capture m's: its pieces 1 to k, each once and in order.
Gapless(s, m, k) ==
    LET outs == {i \in 1..Len(s) : s[i].kind = "out"} IN
    /\ \A i \in outs : s[i].of = m /\ s[i].place \in 1..k
    /\ \A i, j \in outs : i < j => s[i].place < s[j].place
    /\ \A p \in 1..k : \E i \in outs : s[i].place = p

\* The log holds a gapless beginning of what its own automation wrote, in the
\* order it was written: no piece is skipped, repeated, or another capture's.
\* When nothing the automation started outlives the wait, that is all of it,
\* the unfinished last line included.
OutputWhole ==
    \A m \in Captures : \E k \in 0..sent[m] :
        /\ Gapless(log[m], m, k)
        /\ pump[m] = "gone" /\ ~late[m] => k = sent[m]

\* A closed log begins with its header and has one footer, which is last
\* unless the pump was given up on.
LogShape ==
    \A m \in Captures :
        LET feet == {i \in 1..Len(log[m]) : log[m][i].kind = "footer"} IN
        /\ log[m] # <<>> => log[m][1] = Header(m)
        /\ m <= n /\ ~open[m] => Cardinality(feet) = 1
        /\ ~late[m] => feet \subseteq {Len(log[m])}

\* Outside the automation's call, descriptors 1 and 2 are the terminal; between
\* captures, with no pump left, no other descriptor has been leaked.
DescriptorsReturned ==
    /\ main # "calling" => fds[1] = Terminal /\ fds[2] = Terminal
    /\ main = "idle" /\ (\A m \in Captures : pump[m] \in {"off", "gone"}) => fds = StartFds

\* The pump is about to write an echo: its descriptor number still refers to
\* the terminal, or to nothing.
EchoOnlyToTerminal ==
    \A m \in Captures :
        pump[m] = "echo" /\ echoing[m] => fds[held[m].out] \in {Terminal, Free}

\* A capture comes to its end even if a process that holds the pipe never does.
CaptureReturns == main # "idle" ~> main = "idle"

\* A full pipe is always drained, so nobody blocks on it for ever.
PipeDrains ==
    \A m \in Captures : Len(pipe[m]) = PipeCapacity ~> Len(pipe[m]) < PipeCapacity
=============================================================================
